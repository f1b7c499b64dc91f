----------------------------- MODULE LedgerProofs -----------------------------
(***************************************************************************)
(* For any number of instances and events, and however writes fail: an     *)
(* instance reads its own writes, no confirmed event is lost unnoticed,    *)
(* and the ledger implements the log of EventLog.  As long as one instance *)
(* at a time has the file open, logical times grow along the file, a       *)
(* cached read misses nothing, and the causal index is a DAG.              *)
(***************************************************************************)
EXTENDS Causal, SequenceTheorems, WellFoundedInduction, TLAPS

\* Among the first n lines, unless none is an event, one event is the latest.
HasMax(s, n) ==
    (\E k \in 1..n : s[k] # Garbage) =>
        \E k \in 1..n :
            /\ s[k] # Garbage
            /\ \A l \in 1..n :
                  s[l] # Garbage => s[l].logical_time <= s[k].logical_time

\* Math.max has a value for the events in every prefix of the file: a write
\* that ruins the last line leaves the maximum of those before it.
PrefixMax == \A n \in 0..Len(lines) : HasMax(lines, n)

\* A confirmed event is lost only where a line became unreadable.
AckedInLines == Readable => \A a \in acked : a[2] \in Elements(lines)

LInv == TypeOK /\ PrefixMax /\ AckedInLines /\ ReadYourWrites

\* With one instance at a time its clock is never behind the file.
OneOpen == \A i, j \in Instance : isOpen[i] /\ isOpen[j] => i = j

ClockAhead ==
    \A i \in Instance : isOpen[i] =>
        \A k \in 1..Len(lines) :
            lines[k] # Garbage => lines[k].logical_time <= clock[i]

SInv == OneOpen /\ ClockAhead /\ ClockOrder /\ CacheComplete

-----------------------------------------------------------------------------
(* The file.                                                               *)

\* No event is garbage.
LEMMA GarbageIsNoEvent == Garbage \notin Event
BY LedgerAssumption DEF Garbage, Event

\* The clock that is read from a readable file.
LEMMA MaxTimeIsMax ==
    ASSUME TypeOK, PrefixMax, Readable
    PROVE  /\ MaxTime \in Nat
           /\ \A k \in 1..Len(lines) : lines[k].logical_time <= MaxTime
<1>1. CASE lines = <<>>
  BY <1>1 DEF MaxTime
<1>2. CASE lines # <<>>
  <2>1. Len(lines) \in Nat \ {0} /\ \A k \in 1..Len(lines) : lines[k] \in Event
    BY <1>2 DEF TypeOK, Readable
  <2>2. PICK m \in 1..Len(lines) :
          \A l \in 1..Len(lines) :
             lines[l].logical_time <= lines[m].logical_time
    BY <2>1 DEF PrefixMax, HasMax, Readable
  <2>3. lines[m].logical_time \in {lines[k].logical_time : k \in 1..Len(lines)}
    OBVIOUS
  <2>4. /\ MaxTime \in {lines[k].logical_time : k \in 1..Len(lines)}
        /\ \A k \in 1..Len(lines) : lines[k].logical_time <= MaxTime
    BY <1>2, <2>2, <2>3 DEF MaxTime
  <2>5. QED  BY <2>1, <2>4 DEF Event
<1>3. QED  BY <1>1, <1>2

\* One more line: it is appended, or the last line and it are lost.
LEMMA WrittenLines ==
    ASSUME TypeOK, NEW line \in Event \cup {Garbage}
    PROVE  /\ Written(line) \in Seq(Event \cup {Garbage})
           /\ Written(line) # <<>>
           /\ \/ /\ ending = "newline"
                 /\ Len(Written(line)) = Len(lines) + 1
                 /\ Written(line)[Len(lines) + 1] = line
                 /\ \A k \in 1..Len(lines) : Written(line)[k] = lines[k]
              \/ /\ ending # "newline"
                 /\ Len(Written(line)) = Len(lines) /\ Len(lines) > 0
                 /\ Written(line)[Len(lines)] = Garbage
                 /\ \A k \in 1..(Len(lines) - 1) : Written(line)[k] = lines[k]
<1>1. CASE ending = "newline"
  <2>1. /\ Written(line) = Append(lines, line)
        /\ lines \in Seq(Event \cup {Garbage})
    BY <1>1 DEF Written, TypeOK
  <2>2. QED  BY <1>1, <2>1, AppendProperties
<1>2. CASE ending # "newline"
  <2>1. Len(lines) \in Nat /\ Len(lines) > 0
    BY <1>2 DEF TypeOK
  <2>2. QED  BY <1>2, <2>1 DEF Written, TypeOK
<1>3. QED  BY <1>1, <1>2

\* Only the first n lines matter.
LEMMA MaxSame ==
    ASSUME NEW s, NEW t, NEW n \in Nat, HasMax(s, n),
           \A k \in 1..n : t[k] = s[k]
    PROVE  HasMax(t, n)
BY DEF HasMax

\* One more line is either the latest or no later than the latest so far.
LEMMA MaxExtend ==
    ASSUME NEW s, NEW n \in Nat, HasMax(s, n),
           \A k \in 1..(n + 1) : s[k] \in Event \cup {Garbage}
    PROVE  HasMax(s, n + 1)
<1> DEFINE time(k) == s[k].logical_time
           Ev == {k \in 1..(n + 1) : s[k] # Garbage}
<1>1. \A k \in Ev : time(k) \in Nat
  BY DEF Event
<1>2. CASE n + 1 \notin Ev
  <2>1. s[n + 1] = Garbage /\ \A k \in 1..(n + 1) : k # n + 1 => k \in 1..n
    BY <1>2
  <2>2. QED  BY <2>1 DEF HasMax
<1>3. CASE n + 1 \in Ev
  <2>1. CASE \A k \in Ev : time(k) <= time(n + 1)
    <3>1. n + 1 \in 1..(n + 1) /\ s[n + 1] # Garbage
      BY <1>3
    <3>2. \A l \in 1..(n + 1) :
             s[l] # Garbage => s[l].logical_time <= s[n + 1].logical_time
      BY <2>1
    <3>3. QED  BY <3>1, <3>2 DEF HasMax
  <2>2. CASE \E k \in Ev : time(k) > time(n + 1)
    <3>1. PICK j \in Ev : time(j) > time(n + 1)
      BY <2>2
    <3>2. j \in 1..n
      BY <1>1, <3>1
    <3>3. PICK m \in 1..n : s[m] # Garbage /\ \A l \in 1..n :
                               s[l] # Garbage => time(l) <= time(m)
      BY <3>1, <3>2 DEF HasMax
    <3>4. m \in Ev /\ time(n + 1) <= time(m)
      BY <1>1, <1>3, <3>1, <3>2, <3>3
    <3>5. \A l \in 1..(n + 1) : s[l] # Garbage => time(l) <= time(m)
      BY <3>3, <3>4
    <3>6. QED  BY <3>4, <3>5 DEF HasMax
  <2>3. QED  BY <1>1, <1>3, <2>1, <2>2
<1>4. QED  BY <1>2, <1>3

\* Every prefix has its maximum after a write, too.
LEMMA WrittenMax ==
    ASSUME TypeOK, PrefixMax, NEW line \in Event \cup {Garbage},
           lines' = Written(line)
    PROVE  PrefixMax'
<1> DEFINE N == Len(lines)
<1>1. N \in Nat /\ \A k \in 1..Len(lines') : lines'[k] \in Event \cup {Garbage}
  BY WrittenLines DEF TypeOK
<1>2. PICK n \in Nat : /\ Len(lines') = n + 1 /\ n <= N
                       /\ \A k \in 1..n : lines'[k] = lines[k]
  <2>1. CASE ending = "newline"
    BY <2>1, <1>1, WrittenLines
  <2>2. CASE ending # "newline"
    <3>1. Len(lines') = N /\ N > 0 /\ \A k \in 1..(N - 1) : lines'[k] = lines[k]
      BY <2>2, WrittenLines
    <3>2. N - 1 \in Nat /\ Len(lines') = (N - 1) + 1 /\ N - 1 <= N
      BY <3>1, <1>1
    <3>3. QED  BY <3>1, <3>2
  <2>3. QED  BY <2>1, <2>2
<1>3. ASSUME NEW k \in 0..n PROVE HasMax(lines', k)
  <2>1. k \in Nat /\ HasMax(lines, k) /\ \A l \in 1..k : lines'[l] = lines[l]
    BY <1>1, <1>2 DEF PrefixMax
  <2>2. QED  BY <2>1, MaxSame
<1>4. HasMax(lines', n + 1)
  BY <1>1, <1>2, <1>3, MaxExtend
<1>5. QED  BY <1>2, <1>3, <1>4 DEF PrefixMax

\* A file that is readable after a write was so before, lost nothing, and has
\* the new line.
LEMMA WrittenReadable ==
    ASSUME TypeOK, NEW line \in Event \cup {Garbage},
           lines' = Written(line), Readable'
    PROVE  /\ Readable
           /\ line \in Elements(lines')
           /\ Elements(lines) \subseteq Elements(lines')
<1>1. Len(lines) \in Nat
  BY DEF TypeOK
<1>2. CASE ending = "newline"
  <2>1. /\ Len(lines') = Len(lines) + 1 /\ lines'[Len(lines) + 1] = line
        /\ \A k \in 1..Len(lines) : lines'[k] = lines[k]
    BY <1>2, WrittenLines
  <2>2. QED  BY <1>1, <2>1 DEF Readable, Elements
<1>3. CASE ending # "newline"
  <2>1. Len(lines') \in 1..Len(lines') /\ lines'[Len(lines')] = Garbage
    BY <1>1, <1>3, WrittenLines
  <2>2. QED  BY <2>1 DEF Readable
<1>4. QED  BY <1>2, <1>3

-----------------------------------------------------------------------------
(* What holds however many instances have the file open.                   *)

\* A write that succeeds is confirmed and drops the cache.
LEMMA StoreStep ==
    ASSUME LInv, NEW i \in Instance, NEW e \in Event, Store(i, e),
           UNCHANGED <<exists, isOpen>>, clock' \in [Instance -> Nat],
           used' \subseteq EventId
    PROVE  LInv'
<1>1. TypeOK'
  <2>1. lines' \in Seq(Event \cup {Garbage}) /\ lines' # <<>>
    BY WrittenLines DEF LInv, Store
  <2>2. cache' \in [Instance -> Seq(Event) \cup {None}]
    BY DEF LInv, TypeOK, Store
  <2>3. acked' \subseteq Instance \X Event
    <3>1. <<i, e>> \in Instance \X Event
      OBVIOUS
    <3>2. QED  BY <3>1 DEF LInv, TypeOK, Store
  <2>4. /\ ending' = "newline" /\ exists' \in BOOLEAN
        /\ isOpen' \in [Instance -> BOOLEAN]
    BY DEF LInv, TypeOK, Store
  <2>5. QED  BY <2>1, <2>2, <2>3, <2>4 DEF TypeOK
<1>2. PrefixMax'
  BY WrittenMax DEF LInv, Store
<1>3. AckedInLines'
  <2> SUFFICES ASSUME Readable', NEW a \in acked'
               PROVE  a[2] \in Elements(lines')
    BY DEF AckedInLines
  <2>1. /\ Readable /\ e \in Elements(lines')
        /\ Elements(lines) \subseteq Elements(lines')
    BY WrittenReadable DEF LInv, Store
  <2>2. CASE a \in acked
    BY <2>1, <2>2 DEF LInv, AckedInLines
  <2>3. CASE a = <<i, e>>
    <3>1. a[2] = e
      BY <2>3
    <3>2. QED  BY <2>1, <3>1
  <2>4. QED  BY <2>2, <2>3 DEF Store
<1>4. ReadYourWrites'
  <2> SUFFICES ASSUME NEW a \in acked', isOpen'[a[1]], cache'[a[1]] # None
               PROVE  a[2] \in Elements(cache'[a[1]])
    BY DEF ReadYourWrites
  <2>1. acked' = acked \cup {<<i, e>>} /\ cache' = [cache EXCEPT ![i] = None]
    BY DEF Store
  <2>2. cache \in [Instance -> Seq(Event) \cup {None}]
    BY DEF LInv, TypeOK
  <2>3. a[1] # i
    BY <2>1, <2>2
  <2>4. a \in acked /\ cache'[a[1]] = cache[a[1]]
    BY <2>1, <2>2, <2>3
  <2>5. QED  BY <2>4 DEF LInv, ReadYourWrites
<1>5. QED  BY <1>1, <1>2, <1>3, <1>4 DEF LInv

\* A write that throws confirms nothing, whatever it leaves in the file.
LEMMA StoreFailsStep ==
    ASSUME LInv, NEW e \in Event, NEW fault \in WriteFaults,
           StoreFails(e, fault),
           UNCHANGED <<exists, isOpen>>, clock' \in [Instance -> Nat],
           used' \subseteq EventId
    PROVE  LInv'
<1>1. ReadYourWrites'
  BY DEF LInv, ReadYourWrites, StoreFails
<1>2. CASE UNCHANGED <<lines, ending>>
  BY <1>1, <1>2
  DEF LInv, TypeOK, PrefixMax, HasMax, AckedInLines, Readable, Elements,
      StoreFails
<1>3. ASSUME NEW line \in Event \cup {Garbage}, lines' = Written(line),
             ending' \in {"torn", "unended"}
      PROVE  LInv'
  <2>1. TypeOK'
    <3>1. lines' \in Seq(Event \cup {Garbage}) /\ lines' # <<>>
      BY <1>3, WrittenLines DEF LInv
    <3>2. QED  BY <1>3, <3>1 DEF LInv, TypeOK, StoreFails
  <2>2. PrefixMax'
    BY <1>3, WrittenMax DEF LInv
  <2>3. AckedInLines'
    BY <1>3, WrittenReadable DEF LInv, AckedInLines, StoreFails
  <2>4. QED  BY <1>1, <2>1, <2>2, <2>3 DEF LInv
<1>4. QED
  BY <1>2, <1>3, LedgerAssumption DEF StoreFails

\* append, and so correct, preserves the invariant however the write ends.
LEMMA AppendStep ==
    ASSUME LInv, NEW i \in Instance, NEW c \in Content,
           NEW parent \in EventId \cup {None}, AppendEvent(i, c, parent)
    PROVE  LInv'
<1>1. PICK id \in EventId \ used :
        /\ \/ Store(i, NewEvent(i, id, c, parent))
           \/ \E fault \in WriteFaults :
                 StoreFails(NewEvent(i, id, c, parent), fault)
        /\ used' = used \cup {id}
  BY DEF AppendEvent
<1>2. NewEvent(i, id, c, parent) \in Event
  BY DEF NewEvent, Event, LInv, TypeOK
<1>3. clock' \in [Instance -> Nat] /\ used' \subseteq EventId
  BY <1>1 DEF AppendEvent, LInv, TypeOK
<1>4. UNCHANGED <<exists, isOpen>>
  BY DEF AppendEvent
<1>5. QED  BY <1>1, <1>2, <1>3, <1>4, StoreStep, StoreFailsStep

\* The events that may be named as parents are in the file.
LEMMA ParentsType == TypeOK => Parents \subseteq EventId
BY GarbageIsNoEvent DEF TypeOK, Parents, Events, Elements, Event

\* The constructor fills a cache only from a file without events, in which
\* case nothing was confirmed that it could miss.
LEMMA OpenStep ==
    ASSUME LInv, NEW i \in Instance, Open(i)
    PROVE  LInv'
<1>1. MaxTime \in Nat
  BY MaxTimeIsMax DEF LInv, Open
<1>2. TypeOK'
  BY <1>1 DEF Open, LInv, TypeOK
<1>3. PrefixMax' /\ AckedInLines'
  BY DEF Open, LInv, PrefixMax, HasMax, AckedInLines, Readable, Elements
<1>4. ReadYourWrites'
  <2> SUFFICES ASSUME NEW a \in acked, isOpen'[a[1]], cache'[a[1]] # None
               PROVE  a[2] \in Elements(cache'[a[1]])
    BY DEF ReadYourWrites, Open
  <2>1. a[1] \in Instance /\ a[2] \in Elements(lines)
    BY DEF Open, LInv, TypeOK, AckedInLines
  <2>2. a[1] # i
    <3>1. lines # <<>>
      BY <2>1 DEF Elements
    <3>2. QED  BY <3>1 DEF Open, LInv, TypeOK
  <2>3. QED  BY <2>1, <2>2 DEF Open, LInv, TypeOK, ReadYourWrites
<1>5. QED  BY <1>2, <1>3, <1>4 DEF LInv

\* A file that loadAll can read has every confirmed event.
LEMMA LoadAllStep ==
    ASSUME LInv, NEW i \in Instance, LoadAll(i)
    PROVE  LInv'
<1>1. lines \in Seq(Event)
  BY DEF LoadAll, Readable, LInv, TypeOK
<1>2. TypeOK'
  BY <1>1 DEF LoadAll, file, LInv, TypeOK
<1>3. PrefixMax' /\ AckedInLines'
  BY DEF LoadAll, file, LInv, PrefixMax, HasMax, AckedInLines, Readable,
         Elements
<1>4. ReadYourWrites'
  BY DEF LoadAll, file, LInv, TypeOK, AckedInLines, ReadYourWrites
<1>5. QED  BY <1>2, <1>3, <1>4 DEF LInv

\* An instance that is gone takes its cache with it.
LEMMA CloseStep ==
    ASSUME LInv, NEW i \in Instance, Close(i)
    PROVE  LInv'
<1>1. TypeOK' /\ PrefixMax' /\ AckedInLines'
  BY DEF Close, file, LInv, TypeOK, PrefixMax, HasMax, AckedInLines,
         Readable, Elements
<1>2. ReadYourWrites'
  BY DEF Close, LInv, TypeOK, ReadYourWrites
<1>3. QED  BY <1>1, <1>2 DEF LInv

\* _reset forgets what was confirmed with what was written.
LEMMA ResetStep ==
    ASSUME LInv, NEW i \in Instance, Reset(i)
    PROVE  LInv'
<1>1. lines' = <<>> /\ acked' = {}
  BY DEF Reset
<1>2. TypeOK'
  BY <1>1 DEF Reset, LInv, TypeOK
<1>3. PrefixMax'
  BY <1>1 DEF PrefixMax, HasMax
<1>4. AckedInLines' /\ ReadYourWrites'
  BY <1>1 DEF AckedInLines, ReadYourWrites
<1>5. QED  BY <1>2, <1>3, <1>4 DEF LInv

\* Nothing is in the file, nothing is confirmed.
LEMMA InitLInv == Init => LInv
<1> SUFFICES ASSUME Init PROVE LInv
  OBVIOUS
<1>1. lines = <<>> /\ lines \in Seq(Event \cup {Garbage}) /\ Len(lines) = 0
  BY DEF Init
<1>2. TypeOK
  BY <1>1 DEF Init, TypeOK
<1>3. PrefixMax
  BY <1>1 DEF PrefixMax, HasMax
<1>4. AckedInLines /\ ReadYourWrites
  BY DEF Init, AckedInLines, ReadYourWrites
<1>5. QED  BY <1>2, <1>3, <1>4 DEF LInv

\* Every method, and the end of every process, preserves the invariant.
LEMMA NextLInv == LInv /\ [Next]_vars => LInv'
<1> SUFFICES ASSUME LInv, [Next]_vars PROVE LInv'
  OBVIOUS
<1>1. ASSUME NEW i \in Instance, NEW c \in Content,
             NEW parent \in Parents \cup {None}, AppendEvent(i, c, parent)
      PROVE  LInv'
  <2>1. parent \in EventId \cup {None}
    BY ParentsType DEF LInv
  <2>2. QED  BY <1>1, <2>1, AppendStep
<1>2. ASSUME NEW i \in Instance, Correct(i) PROVE LInv'
  BY <1>1, <1>2, LedgerAssumption DEF Correct
<1>3. CASE UNCHANGED vars
  BY <1>3 DEF vars, file, LInv, TypeOK, PrefixMax, HasMax, AckedInLines,
              Readable, Elements, ReadYourWrites
<1>4. QED
  BY <1>1, <1>2, <1>3, OpenStep, CloseStep, LoadAllStep, ResetStep DEF Next

\* The inductive invariant, for all constants (SwarmLedger).
THEOREM LedgerInvariance == Spec => []LInv
BY InitLInv, NextLInv, PTL DEF Spec

\* The types of the ledger, in any number of processes.
THEOREM LedgerTypes == Spec => []TypeOK
<1>1. LInv => TypeOK
  BY DEF LInv
<1>2. QED  BY <1>1, LedgerInvariance, PTL

\* An instance reads its own writes, even if others append at the same time
\* and whatever becomes of their writes.
THEOREM OwnWritesRead == Spec => []ReadYourWrites
<1>1. LInv => ReadYourWrites
  BY DEF LInv
<1>2. QED  BY <1>1, LedgerInvariance, PTL

\* A confirmed event that is gone makes the file unreadable, so that no loss
\* goes unnoticed (loadAll, ledger.ts:105-120).
THEOREM NoSilentLoss == Spec => []AckedIfReadable
<1>1. LInv => AckedIfReadable
  BY GarbageIsNoEvent
  DEF LInv, TypeOK, AckedInLines, AckedIfReadable, Readable, Events, Elements
<1>2. QED  BY <1>1, LedgerInvariance, PTL

-----------------------------------------------------------------------------
(* The ledger implements the append-only log of EventLog.                  *)

\* The ids in the file have been drawn.
IdsUsed == \A k \in 1..Len(lines) : lines[k] # Garbage => lines[k].id \in used

\* An append writes an event with a new id, or something that is no event.
LEMMA AppendWrites ==
    ASSUME LInv, IdsUsed, NEW i \in Instance, NEW c \in Content,
           NEW parent \in EventId \cup {None}, AppendEvent(i, c, parent)
    PROVE  /\ IdsUsed'
           /\ [Log!Next]_<<lines, ending = "newline", cache>>
<1>1. PICK id \in EventId \ used :
        /\ \/ Store(i, NewEvent(i, id, c, parent))
           \/ \E fault \in WriteFaults :
                 StoreFails(NewEvent(i, id, c, parent), fault)
        /\ used' = used \cup {id}
  BY DEF AppendEvent
<1> DEFINE e == NewEvent(i, id, c, parent)
<1>2. e \in Event /\ e.id = id /\ e # Garbage
  BY GarbageIsNoEvent DEF NewEvent, Event, LInv, TypeOK
<1>3. Garbage.id \notin EventId /\ Len(lines) \in Nat
  BY LedgerAssumption DEF Garbage, LInv, TypeOK
<1>4. ASSUME NEW line \in {e, Garbage}, lines' = Written(line)
      PROVE  IdsUsed' /\ Log!Extended /\ (ending = "newline" => Log!Last = line)
  <2>1. line \in Event \cup {Garbage} /\ TypeOK
    BY <1>2 DEF LInv
  <2>2. CASE ending = "newline"
    <3>1. /\ Len(lines') = Len(lines) + 1 /\ lines'[Len(lines) + 1] = line
          /\ \A k \in 1..Len(lines) : lines'[k] = lines[k]
      BY <1>4, <2>1, <2>2, WrittenLines
    <3>2. IdsUsed'
      <4> SUFFICES ASSUME NEW k \in 1..Len(lines'), lines'[k] # Garbage
                   PROVE  lines'[k].id \in used'
        BY DEF IdsUsed
      <4>1. k \in 1..Len(lines) \/ k = Len(lines) + 1
        BY <1>3, <3>1
      <4>2. QED  BY <1>1, <1>2, <3>1, <4>1 DEF IdsUsed
    <3>3. Log!Last = line
      BY <3>1 DEF Log!Last
    <3>4. Log!Extended
      BY <1>3, <1>4, <2>2, <3>1, <3>3 DEF Log!Extended, Written
    <3>5. QED  BY <3>2, <3>3, <3>4
  <2>3. CASE ending # "newline"
    <3>1. /\ Len(lines') = Len(lines) /\ lines'[Len(lines)] = Garbage
          /\ \A k \in 1..(Len(lines) - 1) : lines'[k] = lines[k]
      BY <1>4, <2>1, <2>3, WrittenLines
    <3>2. \A k \in 1..Len(lines') : lines'[k] # Garbage =>
             k \in 1..Len(lines) /\ lines'[k] = lines[k]
      BY <1>3, <3>1
    <3>3. IdsUsed'
      BY <1>1, <3>2 DEF IdsUsed
    <3>4. Log!Extended
      BY <1>4, <2>3 DEF Log!Extended, Written
    <3>5. QED  BY <2>3, <3>3, <3>4
  <2>4. QED  BY <2>2, <2>3
<1>5. CASE Store(i, e)
  <2>1. /\ lines' = Written(e) /\ ending' = "newline"
        /\ cache' = [cache EXCEPT ![i] = None]
    BY <1>5 DEF Store
  <2>2. IdsUsed' /\ Log!Extended /\ (ending = "newline" => Log!Last = e)
    BY <1>4, <2>1
  <2>3. \A k \in 1..Len(lines) : lines[k].id # e.id
    <3> SUFFICES ASSUME NEW k \in 1..Len(lines) PROVE lines[k].id # id
      BY <1>2
    <3>1. CASE lines[k] = Garbage
      BY <1>3, <3>1
    <3>2. CASE lines[k] # Garbage
      BY <3>2 DEF IdsUsed
    <3>3. QED  BY <3>1, <3>2
  <2>4. Log!Publish(i)
    <3>1. ending = "newline" => /\ Log!Last \in Event
                                /\ Log!Last.id
                                     \notin {lines[k].id : k \in 1..Len(lines)}
      BY <1>2, <2>2, <2>3
    <3>2. QED  BY <2>1, <2>2, <3>1 DEF Log!Publish
  <2>5. QED  BY <2>2, <2>4 DEF Log!Next
<1>6. ASSUME NEW fault \in WriteFaults, StoreFails(e, fault)
      PROVE  IdsUsed' /\ [Log!Next]_<<lines, ending = "newline", cache>>
  <2>1. CASE UNCHANGED <<lines, ending>>
    BY <1>1, <1>6, <2>1 DEF StoreFails, IdsUsed
  <2>2. ASSUME NEW line \in {e, Garbage}, lines' = Written(line),
               ending' \in {"torn", "unended"}
        PROVE  IdsUsed' /\ Log!Next
    <3>1. IdsUsed' /\ Log!Extended /\ (ending = "newline" => Log!Last = line)
      BY <1>4, <2>2
    <3>2. ending = "newline" => Log!Last \in Event \cup {Garbage}
      BY <1>2, <2>2, <3>1
    <3>3. UNCHANGED cache /\ (ending' = "newline") = FALSE
      BY <1>6, <2>2 DEF StoreFails
    <3>4. QED  BY <3>1, <3>2, <3>3 DEF Log!Next, Log!Break
  <2>3. QED  BY <1>6, <2>1, <2>2, LedgerAssumption DEF StoreFails
<1>7. QED  BY <1>1, <1>5, <1>6

\* Every other step changes what one reader has read, or clears the log.
LEMMA OthersLook ==
    ASSUME LInv, IdsUsed, NEW i \in Instance,
           Open(i) \/ Close(i) \/ LoadAll(i) \/ Reset(i)
    PROVE  /\ IdsUsed'
           /\ Log!Next
<1>1. CASE Open(i)
  <2>1. IdsUsed'
    BY <1>1 DEF Open, IdsUsed
  <2>2. \A k \in 1..Len(lines) : lines[k] # Garbage
    BY <1>1 DEF Open, Readable
  <2>3. Log!Look(i) \/ Log!Forget(i)
    BY <1>1, <2>2 DEF Open, Log!Look, Log!Forget
  <2>4. QED  BY <2>1, <2>3 DEF Log!Next
<1>2. CASE Close(i)
  BY <1>2 DEF Close, file, IdsUsed, Log!Next, Log!Forget
<1>3. CASE LoadAll(i)
  BY <1>3 DEF LoadAll, Readable, file, IdsUsed, Log!Next, Log!Look
<1>4. CASE Reset(i)
  <2>1. lines' = <<>> /\ ending' = "newline"
        /\ cache' = [cache EXCEPT ![i] = None]
    BY <1>4 DEF Reset
  <2>2. IdsUsed'
    BY <2>1 DEF IdsUsed
  <2>3. QED  BY <2>1, <2>2 DEF Log!Next, Log!Clear
<1>5. QED  BY <1>1, <1>2, <1>3, <1>4

\* Initial states are initial states of the log, and every step is a step of
\* the log or changes nothing of it.
LEMMA LogSteps ==
    /\ Init => IdsUsed /\ Log!Init
    /\ LInv /\ IdsUsed /\ [Next]_vars =>
          IdsUsed' /\ [Log!Next]_<<lines, ending = "newline", cache>>
<1>1. Init => IdsUsed /\ Log!Init
  BY DEF Init, IdsUsed, Log!Init
<1>2. ASSUME LInv, IdsUsed, [Next]_vars
      PROVE  IdsUsed' /\ [Log!Next]_<<lines, ending = "newline", cache>>
  <2>1. ASSUME NEW i \in Instance, NEW c \in Content,
               NEW parent \in Parents \cup {None}, AppendEvent(i, c, parent)
        PROVE  IdsUsed' /\ [Log!Next]_<<lines, ending = "newline", cache>>
    <3>1. parent \in EventId \cup {None}
      BY <1>2, ParentsType DEF LInv
    <3>2. QED  BY <1>2, <2>1, <3>1, AppendWrites
  <2>2. ASSUME NEW i \in Instance, Correct(i)
        PROVE  IdsUsed' /\ [Log!Next]_<<lines, ending = "newline", cache>>
    BY <2>1, <2>2, LedgerAssumption DEF Correct
  <2>3. ASSUME NEW i \in Instance,
               Open(i) \/ Close(i) \/ LoadAll(i) \/ Reset(i)
        PROVE  IdsUsed' /\ [Log!Next]_<<lines, ending = "newline", cache>>
    BY <1>2, <2>3, OthersLook
  <2>4. CASE UNCHANGED vars
    BY <1>2, <2>4 DEF vars, file, IdsUsed
  <2>5. QED  BY <1>2, <2>1, <2>2, <2>3, <2>4 DEF Next
<1>3. QED  BY <1>1, <1>2

\* However many instances have the file open and however writes fail, the
\* ledger is an append-only log with readers that see it as it was at some
\* moment (SwarmLedger).
THEOREM LogImplemented == Spec => ImplementsLog
<1>1. Spec => []IdsUsed
  <2>1. LInv /\ IdsUsed /\ [Next]_vars => IdsUsed'
    BY LogSteps
  <2>2. Init => IdsUsed
    BY LogSteps
  <2>3. QED  BY <2>1, <2>2, LedgerInvariance, PTL DEF Spec
<1>2. Init => Log!Init
  BY LogSteps
<1>3. LInv /\ IdsUsed /\ [Next]_vars =>
         [Log!Next]_<<lines, ending = "newline", cache>>
  BY LogSteps
<1>4. QED
  BY <1>1, <1>2, <1>3, LedgerInvariance, PTL DEF Spec, ImplementsLog, Log!Spec

-----------------------------------------------------------------------------
(* What holds if one instance at a time has the file open.                 *)

\* Nothing is open.
LEMMA InitSInv == Init => SInv
<1> SUFFICES ASSUME Init PROVE SInv
  OBVIOUS
<1>1. lines = <<>> /\ Len(lines) = 0 /\ \A i \in Instance : ~isOpen[i]
  BY DEF Init
<1>2. QED  BY <1>1 DEF SInv, OneOpen, ClockAhead, ClockOrder, CacheComplete

\* The constructor reads a clock that is not behind any event.
LEMMA OpenOrdered ==
    ASSUME ~Concurrent, LInv, SInv, NEW i \in Instance, Open(i)
    PROVE  SInv'
<1>1. /\ isOpen' = [isOpen EXCEPT ![i] = TRUE]
      /\ isOpen \in [Instance -> BOOLEAN]
      /\ \A j \in Instance : ~isOpen[j]
      /\ clock' = [clock EXCEPT ![i] = MaxTime] /\ clock \in [Instance -> Nat]
      /\ UNCHANGED <<lines, acked>>
  BY DEF Open, LInv, TypeOK
<1>2. OneOpen'
  BY <1>1 DEF OneOpen
<1>3. ClockAhead'
  <2>1. \A k \in 1..Len(lines) : lines[k].logical_time <= MaxTime
    BY MaxTimeIsMax DEF Open, LInv
  <2>2. QED  BY <1>1, <2>1 DEF ClockAhead
<1>4. ClockOrder'
  BY <1>1 DEF SInv, ClockOrder
<1>5. CacheComplete'
  <2> SUFFICES ASSUME NEW j \in Instance, isOpen'[j], cache'[j] # None,
                      NEW a \in acked
               PROVE  a[2] \in Elements(cache'[j])
    BY <1>1 DEF CacheComplete
  <2>1. j = i /\ lines = <<>>
    BY <1>1 DEF Open, LInv, TypeOK
  <2>2. a[2] \in Elements(lines)
    BY DEF Open, LInv, AckedInLines
  <2>3. Elements(lines) = {}
    BY <2>1 DEF Elements
  <2>4. QED  BY <2>2, <2>3
<1>6. QED  BY <1>2, <1>3, <1>4, <1>5 DEF SInv

\* A line written by the only instance is later than every event before it.
LEMMA WrittenOrdered ==
    ASSUME TypeOK, OneOpen, ClockAhead, ClockOrder,
           NEW i \in Instance, isOpen[i],
           NEW line \in Event \cup {Garbage},
           line # Garbage => line.logical_time = clock[i] + 1,
           lines' = Written(line), UNCHANGED isOpen,
           clock' = [clock EXCEPT ![i] = @ + 1]
    PROVE  ClockAhead' /\ ClockOrder'
<1>1. Len(lines) \in Nat /\ clock[i] \in Nat /\ clock'[i] = clock[i] + 1
  BY DEF TypeOK
<1>2. \A k \in 1..Len(lines) : lines[k] # Garbage =>
         lines[k].logical_time \in Nat /\ lines[k].logical_time <= clock[i]
  BY DEF TypeOK, Event, ClockAhead
<1>3. CASE ending = "newline"
  <2>1. /\ Len(lines') = Len(lines) + 1 /\ lines'[Len(lines) + 1] = line
        /\ \A k \in 1..Len(lines) : lines'[k] = lines[k]
    BY <1>3, WrittenLines
  <2>2. \A k \in 1..Len(lines') : k \in 1..Len(lines) \/ k = Len(lines) + 1
    BY <1>1, <2>1
  <2>3. \A k \in 1..Len(lines') : lines'[k] # Garbage =>
           lines'[k].logical_time <= clock[i] + 1
    BY <1>1, <1>2, <2>1, <2>2
  <2>4. ClockOrder'
    BY <1>1, <1>2, <2>1, <2>2 DEF ClockOrder
  <2>5. QED  BY <1>1, <2>3, <2>4 DEF ClockAhead, OneOpen
<1>4. CASE ending # "newline"
  <2>1. /\ Len(lines') = Len(lines) /\ lines'[Len(lines)] = Garbage
        /\ \A k \in 1..(Len(lines) - 1) : lines'[k] = lines[k]
    BY <1>4, WrittenLines
  <2>2. \A k \in 1..Len(lines') :
           lines'[k] # Garbage => k \in 1..Len(lines) /\ lines'[k] = lines[k]
    BY <1>1, <2>1
  <2>3. ClockOrder'
    BY <2>1, <2>2 DEF ClockOrder
  <2>4. QED  BY <1>1, <1>2, <2>2, <2>3 DEF ClockAhead, OneOpen
<1>5. QED  BY <1>3, <1>4

\* append keeps the order, and leaves the only open cache empty or as it was.
LEMMA AppendOrdered ==
    ASSUME LInv, SInv, NEW i \in Instance, NEW c \in Content,
           NEW parent \in EventId \cup {None}, AppendEvent(i, c, parent)
    PROVE  SInv'
<1>1. PICK id \in EventId \ used :
        \/ Store(i, NewEvent(i, id, c, parent))
        \/ \E fault \in WriteFaults :
              StoreFails(NewEvent(i, id, c, parent), fault)
  BY DEF AppendEvent
<1> DEFINE e == NewEvent(i, id, c, parent)
<1>2. e \in Event /\ e.logical_time = clock[i] + 1
  BY DEF NewEvent, Event, LInv, TypeOK
<1>3. /\ isOpen[i] /\ UNCHANGED isOpen
      /\ clock' = [clock EXCEPT ![i] = @ + 1]
      /\ clock \in [Instance -> Nat] /\ TypeOK
      /\ \A j \in Instance : isOpen[j] => j = i
  BY DEF AppendEvent, LInv, TypeOK, SInv, OneOpen
<1>4. OneOpen'
  BY <1>3 DEF SInv, OneOpen
<1>5. ClockAhead' /\ ClockOrder'
  <2>1. ASSUME NEW line \in {e, Garbage}, lines' = Written(line)
        PROVE  ClockAhead' /\ ClockOrder'
    <3>1. line \in Event \cup {Garbage}
      BY <1>2, <2>1
    <3>2. line # Garbage => line.logical_time = clock[i] + 1
      BY <1>2, <2>1
    <3>3. OneOpen /\ ClockAhead /\ ClockOrder
      BY DEF SInv
    <3>4. QED  BY <1>3, <2>1, <3>1, <3>2, <3>3, WrittenOrdered
  <2>2. CASE UNCHANGED lines
    <3>1. clock[i] \in Nat /\ clock'[i] = clock[i] + 1
      BY <1>3
    <3>2. \A k \in 1..Len(lines) : lines[k] # Garbage =>
             lines[k].logical_time \in Nat /\ lines[k].logical_time <= clock[i]
      BY <1>3 DEF TypeOK, Event, SInv, ClockAhead
    <3>3. QED  BY <1>3, <2>2, <3>1, <3>2 DEF SInv, ClockAhead, ClockOrder
  <2>3. lines' \in {Written(e), Written(Garbage), lines}
    BY <1>1, LedgerAssumption DEF Store, StoreFails
  <2>4. QED  BY <2>1, <2>2, <2>3
<1>6. CacheComplete'
  <2>1. CASE Store(i, e)
    <3>1. \A j \in Instance : isOpen'[j] => cache'[j] = None
      BY <1>3, <2>1 DEF Store, LInv, TypeOK
    <3>2. QED  BY <3>1 DEF CacheComplete
  <2>2. ASSUME NEW fault \in WriteFaults, StoreFails(e, fault)
        PROVE  CacheComplete'
    BY <1>3, <2>2 DEF StoreFails, SInv, CacheComplete
  <2>3. QED  BY <1>1, <2>1, <2>2
<1>7. QED  BY <1>4, <1>5, <1>6 DEF SInv

\* The remaining steps write no event.
LEMMA OthersOrdered ==
    ASSUME LInv, SInv, NEW i \in Instance, Close(i) \/ LoadAll(i) \/ Reset(i)
    PROVE  SInv'
<1>1. CASE Close(i)
  BY <1>1 DEF Close, file, LInv, TypeOK, SInv, OneOpen, ClockAhead, ClockOrder,
              CacheComplete
<1>2. CASE LoadAll(i)
  <2>1. OneOpen' /\ ClockAhead' /\ ClockOrder'
    BY <1>2 DEF LoadAll, file, SInv, OneOpen, ClockAhead, ClockOrder
  <2>2. CacheComplete'
    BY <1>2 DEF LoadAll, file, LInv, TypeOK, AckedInLines, SInv,
                CacheComplete
  <2>3. QED  BY <2>1, <2>2 DEF SInv
<1>3. CASE Reset(i)
  <2>1. lines' = <<>> /\ Len(lines') = 0 /\ acked' = {} /\ UNCHANGED isOpen
    BY <1>3 DEF Reset
  <2>2. QED  BY <2>1 DEF SInv, OneOpen, ClockAhead, ClockOrder, CacheComplete
<1>4. QED  BY <1>1, <1>2, <1>3

\* Every step of a ledger that one instance at a time has open.
LEMMA NextSInv == ~Concurrent /\ LInv /\ SInv /\ [Next]_vars => SInv'
<1> SUFFICES ASSUME ~Concurrent, LInv, SInv, [Next]_vars PROVE SInv'
  OBVIOUS
<1>1. ASSUME NEW i \in Instance, NEW c \in Content,
             NEW parent \in Parents \cup {None}, AppendEvent(i, c, parent)
      PROVE  SInv'
  <2>1. parent \in EventId \cup {None}
    BY ParentsType DEF LInv
  <2>2. QED  BY <1>1, <2>1, AppendOrdered
<1>2. ASSUME NEW i \in Instance, Correct(i) PROVE SInv'
  BY <1>1, <1>2, LedgerAssumption DEF Correct
<1>3. CASE UNCHANGED vars
  BY <1>3 DEF vars, file, SInv, OneOpen, ClockAhead, ClockOrder, CacheComplete
<1>4. QED  BY <1>1, <1>2, <1>3, OpenOrdered, OthersOrdered DEF Next

\* The inductive invariant of a ledger that has one instance open at a time.
THEOREM OneWriterInvariance == ~Concurrent => (Spec => []SInv)
<1> SUFFICES ASSUME ~Concurrent PROVE Spec => []SInv
  OBVIOUS
<1>1. LInv /\ SInv /\ [Next]_vars => SInv'
  BY NextSInv
<1>2. QED  BY <1>1, InitSInv, LedgerInvariance, PTL DEF Spec

\* Logical times grow along the file, over any number of sessions and failed
\* writes, if no two instances have the file open at once (clockFromExisting,
\* ledger.ts:194-200).
THEOREM OneWriterInOrder == ~Concurrent => (Spec => []ClockOrder)
<1> SUFFICES ASSUME ~Concurrent PROVE Spec => []ClockOrder
  OBVIOUS
<1>1. Spec => []SInv
  BY OneWriterInvariance
<1>2. SInv => ClockOrder
  BY DEF SInv
<1>3. QED  BY <1>1, <1>2, PTL

\* Under the same assumption a cached read has every event whose append was
\* confirmed to anybody (loadAll, ledger.ts:105-120).
THEOREM OneWriterReadsAll == ~Concurrent => (Spec => []CacheComplete)
<1> SUFFICES ASSUME ~Concurrent PROVE Spec => []CacheComplete
  OBVIOUS
<1>1. Spec => []SInv
  BY OneWriterInvariance
<1>2. SInv => CacheComplete
  BY DEF SInv
<1>3. QED  BY <1>1, <1>2, PTL

-----------------------------------------------------------------------------
(* The causal index of a ledger that one instance at a time has open.      *)

\* Ids are drawn once, and a parent has an id that was drawn before.
ParentsUsed ==
    \A k \in 1..Len(lines) : lines[k] # Garbage =>
        lines[k].id \in used /\ lines[k].parent_id \in used \cup {None}

\* A parent is earlier than the events that name it.
ParentFirst ==
    \A k, l \in 1..Len(lines) :
        (/\ lines[k] # Garbage /\ lines[l] # Garbage
         /\ lines[l].parent_id = lines[k].id) =>
            lines[k].logical_time < lines[l].logical_time

CInv == ParentsUsed /\ ParentFirst

-----------------------------------------------------------------------------
(* Parents come first.                                                     *)

\* A new event has a new id, and a parent no later than the clock.
LEMMA WrittenParents ==
    ASSUME TypeOK, OneOpen, ClockAhead, CInv,
           NEW i \in Instance, isOpen[i],
           NEW line \in Event \cup {Garbage},
           line # Garbage => /\ line.logical_time = clock[i] + 1
                             /\ line.id \in EventId \ used
                             /\ line.id \in used'
                             /\ line.parent_id \in used \cup {None},
           lines' = Written(line), used \subseteq used'
    PROVE  CInv'
<1>1. Len(lines) \in Nat /\ clock[i] \in Nat
  BY DEF TypeOK
<1>2. \A k \in 1..Len(lines) : lines[k] # Garbage =>
         lines[k].logical_time \in Nat /\ lines[k].logical_time <= clock[i]
  BY DEF TypeOK, Event, ClockAhead
<1>3. None \notin EventId
  BY LedgerAssumption
<1>4. CASE ending = "newline"
  <2>1. /\ Len(lines') = Len(lines) + 1 /\ lines'[Len(lines) + 1] = line
        /\ \A k \in 1..Len(lines) : lines'[k] = lines[k]
    BY <1>4, WrittenLines
  <2>2. \A k \in 1..Len(lines') : k \in 1..Len(lines) \/ k = Len(lines) + 1
    BY <1>1, <2>1
  <2>3. ParentsUsed'
    BY <2>1, <2>2 DEF CInv, ParentsUsed
  <2>4. ASSUME NEW k \in 1..Len(lines'), NEW l \in 1..Len(lines'),
               lines'[k] # Garbage, lines'[l] # Garbage,
               lines'[l].parent_id = lines'[k].id
        PROVE  lines'[k].logical_time < lines'[l].logical_time
    <3>1. lines'[l].parent_id \in used \cup {None}
      BY <2>1, <2>2, <2>4 DEF CInv, ParentsUsed
    <3>2. k \in 1..Len(lines) /\ lines'[k] = lines[k]
      BY <1>3, <2>1, <2>2, <2>4, <3>1
    <3>3. CASE l \in 1..Len(lines)
      BY <2>1, <2>4, <3>2, <3>3 DEF CInv, ParentFirst
    <3>4. CASE l = Len(lines) + 1
      BY <1>1, <1>2, <2>1, <2>4, <3>2, <3>4
    <3>5. QED  BY <2>2, <3>3, <3>4
  <2>5. QED  BY <2>3, <2>4 DEF CInv, ParentFirst
<1>5. CASE ending # "newline"
  <2>1. /\ Len(lines') = Len(lines) /\ lines'[Len(lines)] = Garbage
        /\ \A k \in 1..(Len(lines) - 1) : lines'[k] = lines[k]
    BY <1>5, WrittenLines
  <2>2. \A k \in 1..Len(lines') :
           lines'[k] # Garbage => k \in 1..Len(lines) /\ lines'[k] = lines[k]
    BY <1>1, <2>1
  <2>3. QED  BY <2>2 DEF CInv, ParentsUsed, ParentFirst
<1>6. QED  BY <1>4, <1>5

\* append, whether its write succeeds or not.
LEMMA AppendParents ==
    ASSUME LInv, SInv, CInv, NEW i \in Instance, NEW c \in Content,
           NEW parent \in Parents \cup {None}, AppendEvent(i, c, parent)
    PROVE  CInv'
<1>1. PICK id \in EventId \ used :
        /\ \/ Store(i, NewEvent(i, id, c, parent))
           \/ \E fault \in WriteFaults :
                 StoreFails(NewEvent(i, id, c, parent), fault)
        /\ used' = used \cup {id}
  BY DEF AppendEvent
<1> DEFINE e == NewEvent(i, id, c, parent)
<1>2. parent \in used \cup {None}
  BY DEF Parents, Events, Elements, CInv, ParentsUsed
<1>3. /\ e \in Event /\ e.logical_time = clock[i] + 1
      /\ e.id = id /\ e.parent_id = parent
  <2>1. parent \in EventId \cup {None}
    BY <1>2 DEF LInv, TypeOK
  <2>2. QED  BY <2>1 DEF NewEvent, Event, LInv, TypeOK
<1>4. isOpen[i] /\ TypeOK /\ OneOpen /\ ClockAhead /\ used \subseteq used'
  BY <1>1 DEF AppendEvent, LInv, SInv
<1>5. ASSUME NEW line \in {e, Garbage}, lines' = Written(line)
      PROVE  CInv'
  <2>1. line \in Event \cup {Garbage}
    BY <1>3, <1>5
  <2>2. line # Garbage => /\ line.logical_time = clock[i] + 1
                          /\ line.id \in EventId \ used
                          /\ line.id \in used'
                          /\ line.parent_id \in used \cup {None}
    BY <1>1, <1>2, <1>3, <1>5
  <2>3. QED  BY <1>4, <1>5, <2>1, <2>2, WrittenParents
<1>6. CASE UNCHANGED lines
  BY <1>4, <1>6 DEF CInv, ParentsUsed, ParentFirst
<1>7. lines' \in {Written(e), Written(Garbage), lines}
  BY <1>1, LedgerAssumption DEF Store, StoreFails
<1>8. QED  BY <1>5, <1>6, <1>7

\* Every step of a ledger that one instance at a time has open.
LEMMA NextCInv == LInv /\ SInv /\ CInv /\ [Next]_vars => CInv'
<1> SUFFICES ASSUME LInv, SInv, CInv, [Next]_vars PROVE CInv'
  OBVIOUS
<1>1. ASSUME NEW i \in Instance, Correct(i) PROVE CInv'
  BY <1>1, AppendParents, LedgerAssumption DEF Correct
<1>2. ASSUME NEW i \in Instance, Reset(i) PROVE CInv'
  <2>1. lines' = <<>> /\ Len(lines') = 0
    BY <1>2 DEF Reset
  <2>2. QED  BY <2>1 DEF CInv, ParentsUsed, ParentFirst
<1>3. ASSUME UNCHANGED <<lines, used>> PROVE CInv'
  BY <1>3 DEF CInv, ParentsUsed, ParentFirst
<1>4. ASSUME NEW i \in Instance, Open(i) \/ Close(i) \/ LoadAll(i)
      PROVE  UNCHANGED <<lines, used>>
  BY <1>4 DEF Open, Close, LoadAll, file
<1>5. UNCHANGED vars => UNCHANGED <<lines, used>>
  BY DEF vars, file
<1>6. QED  BY <1>1, <1>2, <1>3, <1>4, <1>5, AppendParents DEF Next

-----------------------------------------------------------------------------
(* The edges.                                                              *)

\* An edge leads to a later event.
LEMMA EdgesForward ==
    ASSUME TypeOK, ClockOrder, ParentFirst,
           NEW f \in Events, NEW e \in Events, <<f, e>> \in CausalEdges
    PROVE  f.logical_time < e.logical_time
<1>1. PICK k \in 1..Len(lines) : lines[k] = f /\ f # Garbage
  BY DEF Events, Elements
<1>2. PICK l \in 1..Len(lines) : lines[l] = e /\ e # Garbage
  BY DEF Events, Elements
<1>3. CASE e.parent_id = f.id
  BY <1>1, <1>2, <1>3 DEF ParentFirst
<1>4. CASE Before(f, e)
  <2>1. CASE f.logical_time = e.logical_time
    <3>1. Len(lines) \in Nat /\ f.logical_time \in Nat
      BY <1>1 DEF TypeOK, Event
    <3>2. k = l
      BY <1>1, <1>2, <2>1, <3>1 DEF ClockOrder
    <3>3. Position(e) \in 1..Len(lines)
      BY <1>2 DEF Position
    <3>4. ~(Position(e) < Position(e))
      BY <3>1, <3>3
    <3>5. QED  BY <1>1, <1>2, <1>4, <2>1, <3>1, <3>2, <3>4 DEF Before
  <2>2. QED  BY <1>4, <2>1 DEF Before
<1>5. e.parent_id = f.id \/ Before(f, e)
  BY DEF CausalEdges, ExplicitEdges, SameNodeEdges, SameRunEdges, Successive
<1>6. QED  BY <1>3, <1>4, <1>5

\* So a set of events has one without a predecessor in it: the earliest one.
LEMMA ForwardDAG ==
    ASSUME TypeOK, ClockOrder, ParentFirst
    PROVE  CausalDAG
<1> SUFFICES ASSUME NEW S \in SUBSET Events, S # {}
             PROVE  \E e \in S : \A f \in S : <<f, e>> \notin CausalEdges
  BY DEF CausalDAG
<1> DEFINE T == {e.logical_time : e \in S}
<1>1. T \subseteq Nat /\ T # {}
  BY DEF TypeOK, Events, Elements, Event
<1>2. PICK t \in T : \A u \in T : <<u, t>> \notin OpToRel(<, Nat)
  BY <1>1, NatLessThanWellFounded, WFMin
<1>3. \A u \in T : ~(u < t)
  BY <1>1, <1>2 DEF OpToRel
<1>4. PICK e \in S : e.logical_time = t
  OBVIOUS
<1>5. QED  BY <1>3, <1>4, EdgesForward

\* With one writer at a time the causal index is a DAG (causal.ts:2).
THEOREM OneWriterDAG == ~Concurrent => (Spec => []CausalDAG)
<1> SUFFICES ASSUME ~Concurrent PROVE Spec => []CausalDAG
  OBVIOUS
<1>1. Init => CInv
  <2>1. ASSUME Init PROVE lines = <<>> /\ Len(lines) = 0
    BY <2>1 DEF Init
  <2>2. QED  BY <2>1 DEF CInv, ParentsUsed, ParentFirst
<1>2. Spec => []SInv
  BY OneWriterInvariance
<1>3. LInv /\ SInv /\ CInv => CausalDAG
  BY ForwardDAG DEF LInv, SInv, CInv
<1>4. QED  BY <1>1, <1>2, <1>3, NextCInv, LedgerInvariance, PTL DEF Spec
=============================================================================
