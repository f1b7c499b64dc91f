-------------------------------- MODULE Ledger --------------------------------
(***************************************************************************)
(* SwarmLedger (tools/ledger/src/ledger.ts): a file of events, one JSON    *)
(* document per line, and the instances of the class that have it open.    *)
(* An instance keeps a logical clock and a read cache of its own.  Its     *)
(* methods are synchronous, so each is one step, but instances belong to   *)
(* processes that share nothing except the file.                           *)
(*                                                                         *)
(* What the file system does to a write that fails is the environment's    *)
(* choice.  A definition marked [mutant] is no part of the specification.  *)
(***************************************************************************)
EXTENDS Integers, Sequences

CONSTANTS
    Instance,     \* the objects that may have the file open
    EventId,      \* the ids randomUUID may return; bounds the appends
    Content,      \* what callers append: tool, node, run, ...
    Correction,   \* the content of the event that correct() appends
    Concurrent,   \* whether two instances may have the file open at once
    WriteFaults,  \* how a write may fail
    AllowReset,   \* whether _reset, meant for tests, is called
    None          \* null, undefined

ASSUME LedgerAssumption ==
    /\ Correction \in Content
    /\ {Concurrent, AllowReset} \subseteq BOOLEAN
    /\ WriteFaults \subseteq {"lost", "torn", "unended"}
    /\ None \notin EventId

Event == [id : EventId, logical_time : Nat, content : Content,
          parent_id : EventId \cup {None}]

\* A line that is no JSON document.
Garbage == [id |-> None]

ASSUME NoneAssumption == None \notin Seq(Event)

VARIABLES
    exists,   \* whether the file exists
    lines,    \* its lines
    ending,   \* how it ends: after a newline, within a document, or after one
    isOpen,   \* whether an instance is in use
    clock,    \* its logicalClock
    cache,    \* its cache, or None
    used,     \* the ids drawn so far
    acked     \* who appended which event and was told so, since a reset

file == <<exists, lines, ending>>
vars == <<file, isOpen, clock, cache, used, acked>>

Elements(s) == {s[k] : k \in 1..Len(s)}

\* The events in the file, and whether loadAll can read it at all.
Events == Elements(lines) \ {Garbage}
Readable == \A k \in 1..Len(lines) : lines[k] # Garbage

\* Math.max over the logical times of the events
MaxTime ==
    IF lines = <<>> THEN 0
    ELSE CHOOSE t \in {lines[k].logical_time : k \in 1..Len(lines)} :
            \A k \in 1..Len(lines) : lines[k].logical_time <= t

Init ==
    /\ exists = FALSE
    /\ lines = <<>>
    /\ ending = "newline"
    /\ isOpen = [i \in Instance |-> FALSE]
    /\ clock = [i \in Instance |-> 0]
    /\ cache = [i \in Instance |-> None]
    /\ used = {}
    /\ acked = {}

-----------------------------------------------------------------------------
(* The constructor, and the end of the process.                            *)

\* [mutant] the clock starts anew
Open_NoBootstrap(i) ==
    /\ ~isOpen[i] /\ (Concurrent \/ \A j \in Instance : ~isOpen[j])
    /\ isOpen' = [isOpen EXCEPT ![i] = TRUE]
    /\ exists' = TRUE
    /\ clock' = [clock EXCEPT ![i] = 0]
    /\ cache' = [cache EXCEPT ![i] = IF exists /\ lines = <<>> THEN <<>>
                                     ELSE None]
    /\ UNCHANGED <<lines, ending, used, acked>>

\* A file that is there is read for its clock, and the cache this fills is
\* dropped unless it is empty.  One that cannot be read makes it throw.
Open(i) ==
    /\ ~isOpen[i] /\ (Concurrent \/ \A j \in Instance : ~isOpen[j])
    /\ Readable
    /\ isOpen' = [isOpen EXCEPT ![i] = TRUE]
    /\ exists' = TRUE
    /\ clock' = [clock EXCEPT ![i] = MaxTime]
    /\ cache' = [cache EXCEPT ![i] = IF exists /\ lines = <<>> THEN <<>>
                                     ELSE None]
    /\ UNCHANGED <<lines, ending, used, acked>>

Close(i) ==
    /\ isOpen[i]
    /\ isOpen' = [isOpen EXCEPT ![i] = FALSE]
    /\ cache' = [cache EXCEPT ![i] = None]
    /\ UNCHANGED <<file, clock, used, acked>>

-----------------------------------------------------------------------------
(* append and correct.  A key the schema does not know throws before       *)
(* anything changes.                                                       *)

NewEvent(i, id, c, parent) ==
    [id |-> id, logical_time |-> clock[i] + 1, content |-> c,
     parent_id |-> parent]

\* [mutant] writeFileSync in place of appendFileSync
Written_Replaces(line) == <<line>>

\* The lines after one more is written.  If the last write was cut short, the
\* two become one line, which is no JSON document.
Written(line) ==
    IF ending = "newline" THEN Append(lines, line)
    ELSE [lines EXCEPT ![Len(lines)] = Garbage]

\* [mutant] the read cache is not invalidated
Store_KeepsCache(i, e) ==
    /\ lines' = Written(e)
    /\ ending' = "newline"
    /\ UNCHANGED cache
    /\ acked' = acked \cup {<<i, e>>}

\* The write succeeds, and append returns the event.
Store(i, e) ==
    /\ lines' = Written(e)
    /\ ending' = "newline"
    /\ cache' = [cache EXCEPT ![i] = None]
    /\ acked' = acked \cup {<<i, e>>}

\* The write throws: nothing is written, or a part of the document, or all of
\* it but not the newline.  The cache is not invalidated.
StoreFails(e, fault) ==
    /\ CASE fault = "lost" -> UNCHANGED <<lines, ending>>
         [] fault = "torn" -> /\ lines' = Written(Garbage)
                              /\ ending' = "torn"
         [] fault = "unended" -> /\ lines' = Written(e)
                                 /\ ending' = "unended"
    /\ UNCHANGED <<cache, acked>>

\* The clock is advanced before the write, whether or not it succeeds.
AppendEvent(i, c, parent) ==
    /\ isOpen[i]
    /\ \E id \in EventId \ used :
         /\ LET e == NewEvent(i, id, c, parent)
            IN  Store(i, e) \/ \E fault \in WriteFaults : StoreFails(e, fault)
         /\ used' = used \cup {id}
    /\ clock' = [clock EXCEPT ![i] = @ + 1]
    /\ UNCHANGED <<exists, isOpen>>

\* "Links to the event this one follows from", which the caller has read.
Parents == {e.id : e \in Events}

Correct(i) == \E target \in Parents : AppendEvent(i, Correction, target)

-----------------------------------------------------------------------------
(* loadAll, which every reader goes through, and _reset.                   *)

\* [mutant] a line that is no JSON document is kept
LoadAll_Lenient(i) ==
    /\ isOpen[i] /\ cache[i] = None
    /\ cache' = [cache EXCEPT ![i] = lines]
    /\ UNCHANGED <<file, isOpen, clock, used, acked>>

\* It returns the cache.  An unreadable file makes it throw.
LoadAll(i) ==
    /\ isOpen[i] /\ cache[i] = None
    /\ Readable
    /\ cache' = [cache EXCEPT ![i] = lines]
    /\ UNCHANGED <<file, isOpen, clock, used, acked>>

Reset(i) ==
    /\ AllowReset /\ isOpen[i]
    /\ lines' = <<>>
    /\ ending' = "newline"
    /\ clock' = [clock EXCEPT ![i] = 0]
    /\ cache' = [cache EXCEPT ![i] = None]
    /\ acked' = {}
    /\ UNCHANGED <<exists, isOpen, used>>

Next ==
    \E i \in Instance :
        \/ Open(i) \/ Close(i)
        \/ \E c \in Content, parent \in Parents \cup {None} :
              AppendEvent(i, c, parent)
        \/ Correct(i)
        \/ LoadAll(i) \/ Reset(i)

Spec == Init /\ [][Next]_vars

-----------------------------------------------------------------------------
(* Properties.                                                             *)

TypeOK ==
    /\ exists \in BOOLEAN
    /\ lines \in Seq(Event \cup {Garbage})
    /\ ending \in {"newline", "torn", "unended"}
    /\ ending # "newline" => lines # <<>>
    /\ isOpen \in [Instance -> BOOLEAN]
    /\ clock \in [Instance -> Nat]
    /\ cache \in [Instance -> Seq(Event) \cup {None}]
    /\ used \subseteq EventId
    /\ acked \subseteq Instance \X Event

\* As long as one instance at a time has the file open, logical times grow
\* along the file: over the sessions of different processes, with gaps where
\* a write failed, and whatever a crash left behind (ledger.ts:194-200).
ClockOrder ==
    \A k, l \in 1..Len(lines) :
        (k < l /\ lines[k] # Garbage /\ lines[l] # Garbage) =>
            lines[k].logical_time < lines[l].logical_time

\* What an instance returns from its cache has every event whose append it
\* confirmed, in this session or an earlier one (ledger.ts:69-70, 198).
ReadYourWrites ==
    \A a \in acked : (isOpen[a[1]] /\ cache[a[1]] # None) =>
        a[2] \in Elements(cache[a[1]])

\* With one instance at a time it has those of all the others, too.
CacheComplete ==
    \A i \in Instance : (isOpen[i] /\ cache[i] # None) =>
        \A a \in acked : a[2] \in Elements(cache[i])

\* "Never mutate, never delete" (ledger.ts:5): an event whose append returned
\* is in the file.
AckedStored == \A a \in acked : a[2] \in Events

\* No loss goes unnoticed: where a confirmed event is gone, every later session
\* and every read that is not cached throws (ledger.ts:66, 115, 197).
AckedIfReadable == Readable => \A a \in acked : a[2] \in Events

\* The append-only log this implements, whatever its writes leave behind.
Log == INSTANCE EventLog WITH
    Reader <- Instance, Damaged <- Garbage, Unread <- None,
    log <- lines, whole <- ending = "newline", view <- cache

\* Whatever instances and failed writes do, every step appends an event, ruins
\* the end of the file, clears it, or changes what one reader has read
\* (ledger.ts:55-120, 184-201).
ImplementsLog == Log!Spec
=============================================================================
