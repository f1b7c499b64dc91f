------------------------------ MODULE Inspectors ------------------------------
(***************************************************************************)
(* The two tools that look for dead records in the DHT:                    *)
(* tools/monitor/ghost-detector.ts asks for one key after the other, and   *)
(* tools/debug/keyspace-inspector.ts reads a dump of all of them.  Records *)
(* expire, are renewed and get tombstones meanwhile.                       *)
(*                                                                         *)
(* The DHT and what the nodes publish are the environment.  A definition   *)
(* marked [mutant] is no part of the specification.                        *)
(***************************************************************************)
EXTENDS Integers, FiniteSets

CONSTANTS
    Peer,        \* the peers in the routing table
    Key,         \* the keys looked at, each a peer and a protocol
    Ttl,         \* how long a renewed record lives
    Horizon,     \* bound of the time the tools see
    MaxChanges,  \* bound of the renewals and tombstones
    Absent,      \* no record under a key
    Unreadable   \* one that JSON.parse does not understand

ASSUME InspectorsAssumption ==
    /\ Key \subseteq Peer \X {"vless", "hysteria2"} /\ IsFiniteSet(Key)
    /\ {Ttl, Horizon, MaxChanges} \subseteq Nat /\ Ttl # 0
    /\ {Absent, Unreadable} \cap Nat = {} /\ Absent # Unreadable

VARIABLES
    now,
    dht,      \* the expiry of the record under each key
    tombs,    \* the peers that have a tombstone
    changes,  \* renewals and tombstones so far
    scan,     \* the ghost detector
    dump      \* the keyspace inspector

world == <<now, dht, tombs, changes>>
ivars == <<world, scan, dump>>

\* What a get of a record may return.
Records == [Key -> Nat \cup {Absent, Unreadable}]

Stored(records) == {k \in Key : records[k] # Absent}
Readable(records) == {k \in Key : records[k] \notin {Absent, Unreadable}}

ScanIdle == [stage |-> "idle", at |-> 0, todo |-> {}, held |-> {},
             known |-> {}, buried |-> {}, found |-> {}, failed |-> FALSE,
             records |-> [k \in Key |-> Absent], graves |-> {}]
DumpIdle == [stage |-> "idle", records |-> [k \in Key |-> Absent],
             graves |-> {}, count |-> 0, orphaned |-> {}, orphans |-> {},
             from |-> 0, to |-> 0]

IInit(records, graves) ==
    /\ now = 0
    /\ dht = records
    /\ tombs = graves
    /\ changes = 0
    /\ scan = ScanIdle
    /\ dump = DumpIdle

-----------------------------------------------------------------------------
(* The nodes.                                                              *)

Tick ==
    /\ now < Horizon
    /\ now' = now + 1
    /\ UNCHANGED <<dht, tombs, changes, scan, dump>>

Renew(k) ==
    /\ changes < MaxChanges
    /\ dht' = [dht EXCEPT ![k] = now + Ttl]
    /\ changes' = changes + 1
    /\ UNCHANGED <<now, tombs, scan, dump>>

Bury(p) ==
    /\ changes < MaxChanges /\ p \notin tombs
    /\ tombs' = tombs \cup {p}
    /\ changes' = changes + 1
    /\ UNCHANGED <<now, dht, scan, dump>>

World == Tick \/ (\E k \in Key : Renew(k)) \/ (\E p \in Peer : Bury(p))

-----------------------------------------------------------------------------
(* scanDHT, which awaits one get after the other.                          *)

\* [mutant] the tombstone is not looked at
ClassifyPeer_NoTombstone(expiry, tombstoned, at) ==
    IF at < expiry THEN "alive" ELSE "ghost"

ClassifyPeer(expiry, tombstoned, at) ==
    IF at < expiry THEN "alive"
    ELSE IF tombstoned THEN "stale" ELSE "ghost"

\* The scan takes the time once, before the first key.
ScanStart ==
    /\ scan.stage = "idle"
    /\ scan' = [ScanIdle EXCEPT !.stage = "record", !.at = now, !.todo = Key,
                                !.records = dht, !.graves = tombs]
    /\ UNCHANGED <<world, dump>>

\* The result for the record read last.  A probe may find it unreachable.
Classified(s, k, expiry, tombstoned) ==
    LET status == ClassifyPeer(expiry, tombstoned, s.at)
    IN  {[s EXCEPT !.stage = "record", !.held = {},
                   !.found = @ \cup {[key |-> k, status |-> st]}] :
            st \in {status} \cup
                   (IF status = "alive" THEN {"unreachable"} ELSE {})}

\* One protocol after the other.  A get that fails, or finds nothing that can be
\* parsed, is passed over; a tombstone read before is not read again.
ScanRecord(k) ==
    /\ scan.stage = "record" /\ k \in scan.todo
    /\ k[2] = "hysteria2" => \A l \in scan.todo : l[2] = "hysteria2"
    /\ LET s == [scan EXCEPT !.todo = @ \ {k}]
       IN  \/ scan' = [s EXCEPT !.failed = @ \/ k \in Readable(dht)]
           \/ /\ k \in Readable(dht) /\ k[1] \in scan.known
              /\ scan' \in Classified(s, k, dht[k], k[1] \in scan.buried)
           \/ /\ k \in Readable(dht) /\ k[1] \notin scan.known
              /\ scan' = [s EXCEPT !.stage = "tombstone",
                                   !.held = {[key |-> k, expiry |-> dht[k]]}]
    /\ UNCHANGED <<world, dump>>

\* A get of the tombstone that fails counts as none.
ScanTombstone ==
    /\ scan.stage = "tombstone"
    /\ \E h \in scan.held, got \in BOOLEAN :
          LET p == h.key[1]
              tombstoned == got /\ p \in tombs
              s == [scan EXCEPT !.known = @ \cup {p},
                                !.buried = IF tombstoned THEN @ \cup {p} ELSE @,
                                !.failed = @ \/ (~got /\ p \in tombs)]
          IN  scan' \in Classified(s, h.key, h.expiry, tombstoned)
    /\ UNCHANGED <<world, dump>>

ScanEnd ==
    /\ scan.stage = "record" /\ scan.todo = {}
    /\ scan' = [scan EXCEPT !.stage = "done"]
    /\ UNCHANGED <<world, dump>>

\* scanJsonAsync: a file of all records, with their tombstones.
ScanFile ==
    /\ scan.stage = "idle"
    /\ LET status(k) == ClassifyPeer(dht[k], k[1] \in tombs, now)
           alive == {k \in Readable(dht) : status(k) = "alive"}
       IN  \E cut \in SUBSET alive :
              scan' = [ScanIdle EXCEPT
                  !.stage = "done", !.at = now,
                  !.records = dht, !.graves = tombs,
                  !.found = {[key |-> k, status |->
                      IF k \in cut THEN "unreachable" ELSE status(k)] :
                          k \in Readable(dht)}]
    /\ UNCHANGED <<world, dump>>

WithStatus(s, status) == {f.key : f \in {g \in s.found : g.status = status}}
Ghosts == WithStatus(scan, "ghost")

\* What the detector reports: main, and formatOutput.
GhostOutput ==
    [exit_code |-> IF Ghosts = {} THEN 0 ELSE 1,
     alive |-> Cardinality(WithStatus(scan, "alive")),
     ghost |-> Cardinality(Ghosts),
     stale |-> Cardinality(WithStatus(scan, "stale")),
     unreachable |-> Cardinality(WithStatus(scan, "unreachable")),
     ghost_peers |-> {k[1] : k \in Ghosts}]

-----------------------------------------------------------------------------
(* The keyspace inspector: main, with --file, or live.                     *)

IsExpired(expiry, at) == expiry < at

\* [mutant] tombstones are ignored
Orphans_NoTombstone(d, at) ==
    {k \in Readable(d.records) : IsExpired(d.records[k], at)}

\* The expired records whose peer has no tombstone, as scanFromFile,
\* buildJsonOutput and computeSummary find them, each at a time of its own.
Orphans(d, at) ==
    {k \in Readable(d.records) :
        IsExpired(d.records[k], at) /\ k[1] \notin d.graves}

\* A snapshot of all keys is written by other means.
Dump ==
    /\ dump.stage = "idle"
    /\ dump' = [DumpIdle EXCEPT !.stage = "dumped", !.records = dht,
                                !.graves = tombs, !.from = now]
    /\ UNCHANGED <<world, scan>>

\* scanPrefixLive asks for the prefix itself, under which nothing is stored.
LiveKeys == {}

InspectLive ==
    /\ dump.stage = "idle"
    /\ dump' = [DumpIdle EXCEPT !.stage = "counted", !.from = now,
                                !.records = [k \in Key |->
                                    IF k \in LiveKeys THEN dht[k] ELSE Absent]]
    /\ UNCHANGED <<world, scan>>

\* orphanCount, which the exit code is from.
Count ==
    /\ dump.stage = "dumped"
    /\ dump' = [dump EXCEPT !.stage = "counted",
                            !.count = Cardinality(Orphans(dump, now))]
    /\ UNCHANGED <<world, scan>>

\* The status of every entry in the JSON output.
Label ==
    /\ dump.stage = "counted"
    /\ dump' = [dump EXCEPT !.stage = "labelled",
                            !.orphaned = Orphans(dump, now)]
    /\ UNCHANGED <<world, scan>>

\* [mutant] the summary is computed from what the count saw
Summarize_Early ==
    /\ dump.stage = "labelled"
    /\ dump' = [dump EXCEPT !.stage = "done", !.to = now,
                            !.orphans = Orphans(dump, dump.from)]
    /\ UNCHANGED <<world, scan>>

\* computeSummary, in either form of output.
Summarize ==
    /\ dump.stage = "labelled"
    /\ dump' = [dump EXCEPT !.stage = "done", !.to = now,
                            !.orphans = Orphans(dump, now)]
    /\ UNCHANGED <<world, scan>>

\* The summary: unreadable values count as keys, never as orphans.
KeyspaceOutput ==
    LET of(protocol) == {k \in Stored(dump.records) : k[2] = protocol}
    IN  [exit_code |-> IF dump.count > 0 THEN 1 ELSE 0,
         vless_count |-> Cardinality(of("vless")),
         hy2_count |-> Cardinality(of("hysteria2")),
         tombstone_count |-> Cardinality(dump.graves),
         orphan_keys |-> Cardinality(dump.orphans)]

GhostStep ==
    \/ ScanStart \/ (\E k \in Key : ScanRecord(k)) \/ ScanTombstone \/ ScanEnd
    \/ ScanFile

InspectStep == Dump \/ InspectLive \/ Count \/ Label \/ Summarize

-----------------------------------------------------------------------------
(* Properties.                                                             *)

\* Although the detector reads a record after the time it compares it with, and
\* its tombstone later still, or not at all, a peer it calls a ghost was one
\* when the scan began: its record had expired, and it had no tombstone unless
\* a get failed (ghost-detector.ts:200-256).
GhostWasDead ==
    \A k \in Ghosts :
        /\ k \in Readable(scan.records) => scan.records[k] <= scan.at
        /\ k[1] \in scan.graves => scan.failed

\* The inspector reads the clock three times over: what its exit code says is
\* never more than its entries say, nor these more than its summary
\* (keyspace-inspector.ts:333, 504, 529, 636).
OrphansOnlyGrow ==
    dump.stage = "done" =>
        /\ dump.count <= Cardinality(dump.orphaned)
        /\ dump.orphaned \subseteq dump.orphans

\* The two tools agree about one DHT: what the inspector calls an orphan is a
\* ghost for a detector that begins no earlier and reads what was dumped,
\* whichever side of the boundary each tests (ghost-detector.ts:98,
\* keyspace-inspector.ts:350).
OrphanIsGhost ==
    (/\ dump.stage = "done" /\ scan.stage = "done" /\ ~scan.failed
     /\ dump.to <= scan.at
     /\ dump.records = dht /\ dump.graves = tombs) =>
        dump.orphans \subseteq Ghosts
=============================================================================
