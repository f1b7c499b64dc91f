---------------------------- MODULE PipelineProofs ----------------------------
(***************************************************************************)
(* What the two inspectors say of a DHT that changes under them, for any   *)
(* number of peers, records, renewals and tombstones, any time and any     *)
(* gets that fail; and what the verdicts of the jobs of Pipeline depend    *)
(* on, for any plans, any results of the tools and any failed appends.     *)
(***************************************************************************)
EXTENDS Pipeline, FiniteSetTheorems, SequenceTheorems, NaturalsInduction,
        WellFoundedInduction, TLAPS

-----------------------------------------------------------------------------
(* Types.                                                                  *)

Status == {"alive", "stale", "ghost", "unreachable"}

ScanState ==
    [stage : {"idle", "record", "tombstone", "done"}, at : Nat,
     todo : SUBSET Key, held : SUBSET [key : Key, expiry : Nat],
     known : SUBSET Peer, buried : SUBSET Peer,
     found : SUBSET [key : Key, status : Status], failed : BOOLEAN,
     records : Records, graves : SUBSET Peer]

DumpState ==
    [stage : {"idle", "dumped", "counted", "labelled", "done"},
     records : Records, graves : SUBSET Peer, count : Nat,
     orphaned : SUBSET Key, orphans : SUBSET Key, from : Nat, to : Nat]

Types ==
    /\ now \in Nat /\ dht \in Records /\ tombs \subseteq Peer
    /\ scan \in ScanState /\ dump \in DumpState

\* A record that is read when the scan has begun is the one that was there when
\* it began, or one that was renewed since and lives beyond the time of the
\* scan.
Later(expiry) == expiry \in Nat /\ expiry > scan.at

\* The keys that the scan has done with.
Done == {k \in Key : k \notin scan.todo /\ \A h \in scan.held : h.key # k}

ScanWorld ==
    /\ scan.at <= now
    /\ \A k \in Key : dht[k] = scan.records[k] \/ Later(dht[k])
    /\ scan.graves \subseteq tombs /\ scan.buried \subseteq tombs

\* There is one record at most whose tombstone is to be read.
ScanHeld ==
    /\ \A g, h \in scan.held : g = h
    /\ scan.stage # "tombstone" => scan.held = {}
    /\ scan.stage = "done" => scan.todo = {}
    /\ \A h \in scan.held :
           /\ h.expiry = scan.records[h.key] \/ Later(h.expiry)
           /\ dht[h.key] = h.expiry \/ Later(dht[h.key])

\* A tombstone that was there at first is found, or its get fails.
ScanTombs ==
    \A p \in scan.known \cap scan.graves : p \in scan.buried \/ scan.failed

\* Whose record has expired is a ghost or buried, unless a get failed.
ScanComplete ==
    ~scan.failed =>
        \A k \in Done : (dht[k] \in Nat /\ dht[k] <= scan.at) =>
            k \in Ghosts \/ k[1] \in tombs

ScanOK ==
    /\ scan.stage = "idle" => scan.found = {}
    /\ scan.stage # "idle" =>
           ScanWorld /\ ScanHeld /\ ScanTombs /\ GhostWasDead /\ ScanComplete

\* What was an orphan at one reading of the clock is one at the next.
DumpOK ==
    /\ dump.stage = "counted" => dump.count <= Cardinality(Orphans(dump, now))
    /\ dump.stage = "labelled" => /\ dump.count <= Cardinality(dump.orphaned)
                                  /\ dump.orphaned \subseteq Orphans(dump, now)
    /\ dump.stage = "done" => /\ OrphansOnlyGrow
                              /\ dump.orphans = Orphans(dump, dump.to)

IInv == Types /\ ScanOK /\ DumpOK

\* What a classification adds to a scan.
LEMMA ClassifiedAdds ==
    ASSUME NEW s \in ScanState, NEW k \in Key, NEW expiry \in Nat,
           NEW tombstoned \in BOOLEAN,
           NEW t \in Classified(s, k, expiry, tombstoned)
    PROVE  /\ t \in ScanState
           /\ t.stage = "record" /\ t.held = {} /\ t.at = s.at
           /\ t.todo = s.todo /\ t.known = s.known /\ t.buried = s.buried
           /\ t.failed = s.failed /\ t.records = s.records
           /\ t.graves = s.graves
           /\ WithStatus(t, "ghost") =
                 WithStatus(s, "ghost") \cup
                 (IF expiry <= s.at /\ ~tombstoned THEN {k} ELSE {})
<1> DEFINE f(st) == [key |-> k, status |-> st]
           c == ClassifyPeer(expiry, tombstoned, s.at)
<1>1. c \in Status /\ (c = "ghost" <=> expiry <= s.at /\ ~tombstoned)
  BY DEF ClassifyPeer, Status, ScanState
<1>2. PICK st \in {c} \cup (IF c = "alive" THEN {"unreachable"} ELSE {}) :
         t = [s EXCEPT !.stage = "record", !.held = {},
                       !.found = @ \cup {f(st)}]
  BY DEF Classified
<1>3. st \in Status /\ (st = "ghost" <=> expiry <= s.at /\ ~tombstoned)
  BY <1>1, <1>2 DEF Status
<1> HIDE DEF c
<1>4. /\ t \in ScanState /\ t.found = s.found \cup {f(st)}
      /\ t.stage = "record" /\ t.held = {} /\ t.at = s.at
      /\ t.todo = s.todo /\ t.known = s.known /\ t.buried = s.buried
      /\ t.failed = s.failed /\ t.records = s.records
      /\ t.graves = s.graves
  <2>1. s.found \cup {f(st)} \in SUBSET [key : Key, status : Status]
    BY <1>3 DEF ScanState
  <2> HIDE DEF f
  <2>2. QED  BY <1>2, <2>1 DEF ScanState
<1>5. WithStatus(t, "ghost") =
         WithStatus(s, "ghost") \cup (IF st = "ghost" THEN {k} ELSE {})
  <2>1. \A g : g \in t.found <=> (g \in s.found \/ g = f(st))
    BY <1>4
  <2>2. \A l : l \in WithStatus(t, "ghost") <=>
                  (l \in WithStatus(s, "ghost") \/ (st = "ghost" /\ l = k))
    <3>1. f(st).key = k /\ f(st).status = st
      OBVIOUS
    <3> HIDE DEF f
    <3>2. QED  BY <2>1, <3>1 DEF WithStatus
  <2>3. QED  BY <2>2
<1>6. QED  BY <1>3, <1>4, <1>5

-----------------------------------------------------------------------------
(* The environment.                                                        *)

\* What an orphan is does not depend on what else the inspector remembers, and
\* time only adds orphans.
LEMMA OrphansGrow ==
    ASSUME NEW d, NEW e, e.records = d.records, e.graves = d.graves,
           d.records \in Records, NEW t \in Nat, NEW u \in Nat, t <= u
    PROVE  /\ Orphans(d, t) \subseteq Orphans(e, u)
           /\ Orphans(d, t) \subseteq Key /\ Orphans(e, u) \subseteq Key
           /\ Cardinality(Orphans(d, t)) \in Nat
           /\ Cardinality(Orphans(d, t)) <= Cardinality(Orphans(e, u))
<1>1. Orphans(d, t) \subseteq Orphans(e, u) /\ Orphans(e, u) \subseteq Key
  BY DEF Orphans, Readable, IsExpired, Records
<1>2. IsFiniteSet(Orphans(e, u))
  BY <1>1, FS_Subset, InspectorsAssumption
<1>3. QED  BY <1>1, <1>2, FS_Subset, FS_CardinalityType

\* A renewed record lives beyond the time at which a scan began.
LEMMA WorldStep ==
    ASSUME IInv, World
    PROVE  IInv'
<1> DEFINE Goes ==
             /\ now \in Nat /\ now' \in Nat /\ now <= now' /\ scan' = scan
             /\ dump' = dump /\ tombs \subseteq tombs' /\ Types' /\ Types
             /\ \A k \in Key :
                    dht'[k] = dht[k] \/ (dht'[k] \in Nat /\ dht'[k] > now)
<1>1. Goes
  <2>1. CASE Tick
    BY <2>1 DEF Tick, IInv, Types
  <2>2. ASSUME NEW k \in Key, Renew(k) PROVE Goes
    <3>1. now + Ttl \in Nat /\ now + Ttl > now /\ now \in Nat
      BY InspectorsAssumption DEF IInv, Types
    <3>2. dht' \in Records
      BY <2>2, <3>1 DEF Renew, IInv, Types, Records
    <3>3. \A l \in Key : dht'[l] = dht[l] \/ dht'[l] = now + Ttl
      BY <2>2 DEF Renew, IInv, Types, Records
    <3>4. QED
      BY <2>2, <3>1, <3>2, <3>3 DEF Renew, IInv, Types
  <2>3. ASSUME NEW p \in Peer, Bury(p) PROVE Goes
    BY <2>3 DEF Bury, IInv, Types
  <2>4. QED  BY <2>1, <2>2, <2>3 DEF World
<1>2. ScanOK'
  <2> SUFFICES ASSUME scan.stage # "idle"
               PROVE  (ScanWorld /\ ScanHeld /\ ScanTombs /\ GhostWasDead
                       /\ ScanComplete)'
    BY <1>1 DEF ScanOK, IInv
  <2>1. /\ ScanWorld /\ ScanHeld /\ ScanTombs /\ GhostWasDead /\ ScanComplete
        /\ scan.at \in Nat /\ scan.held \subseteq [key : Key, expiry : Nat]
    BY <1>1 DEF IInv, ScanOK, Types, ScanState
  <2>2. \A k \in Key : dht'[k] = dht[k] \/ Later(dht'[k])
    BY <1>1, <2>1 DEF ScanWorld, Later
  <2>3. ScanWorld'
    BY <1>1, <2>1, <2>2 DEF ScanWorld, Later
  <2>4. ScanHeld'
    <3>1. \A h \in scan.held : h.key \in Key
      BY <2>1
    <3>2. QED  BY <1>1, <2>1, <2>2, <3>1 DEF ScanHeld, Later
  <2>5. ScanTombs' /\ GhostWasDead'
    BY <1>1, <2>1 DEF ScanTombs, GhostWasDead, Ghosts
  <2>6. ScanComplete'
    <3> SUFFICES ASSUME ~scan.failed, NEW k \in Done,
                        dht'[k] \in Nat, dht'[k] <= scan.at
                 PROVE  k \in Ghosts \/ k[1] \in tombs'
      BY <1>1 DEF ScanComplete, Done, Ghosts
    <3>1. dht'[k] = dht[k]
      BY <2>1, <2>2 DEF Done, Later
    <3>2. QED  BY <1>1, <2>1, <3>1 DEF ScanComplete
  <2>7. QED  BY <2>3, <2>4, <2>5, <2>6
<1>3. DumpOK'
  <2>1. /\ Orphans(dump, now) \subseteq Orphans(dump, now')
        /\ Cardinality(Orphans(dump, now)) \in Nat
        /\ Cardinality(Orphans(dump, now)) <= Cardinality(Orphans(dump, now'))
    <3>1. dump.records \in Records
      BY <1>1 DEF Types, DumpState
    <3>2. QED  BY <1>1, <3>1, OrphansGrow
  <2>2. Cardinality(Orphans(dump, now')) \in Nat /\ dump.count \in Nat
    <3>1. dump.records \in Records /\ dump.count \in Nat
      BY <1>1 DEF Types, DumpState
    <3>2. now' <= now'
      BY <1>1
    <3>3. QED  BY <1>1, <3>1, <3>2, OrphansGrow
  <2>3. QED  BY <1>1, <2>1, <2>2 DEF IInv, DumpOK, OrphansOnlyGrow
<1>4. QED  BY <1>1, <1>2, <1>3 DEF IInv

-----------------------------------------------------------------------------
(* The ghost detector.                                                     *)

\* The inspector sees none of it.
LEMMA DumpKept ==
    ASSUME IInv, UNCHANGED <<world, dump>>
    PROVE  DumpOK'
BY DEF IInv, DumpOK, OrphansOnlyGrow, Orphans, world

\* The invariants of a scan, for the next state of it.
LEMMA ScanMoves ==
    ASSUME IInv, scan.stage # "idle", UNCHANGED <<world, dump>>,
           scan' \in ScanState, scan'.stage # "idle", scan'.at = scan.at,
           scan'.records = scan.records, scan'.graves = scan.graves,
           scan'.buried \subseteq tombs, ScanHeld', ScanTombs', GhostWasDead',
           ScanComplete'
    PROVE  IInv'
<1>1. ScanWorld'
  BY DEF IInv, ScanOK, ScanWorld, Later, world
<1>2. Types'
  BY DEF IInv, Types, world
<1>3. QED  BY <1>1, <1>2, DumpKept DEF IInv, ScanOK

\* A scan begins, or reads a file of everything at once.
LEMMA ScanBegins ==
    ASSUME IInv, ScanStart \/ ScanFile
    PROVE  IInv'
<1>1. /\ now \in Nat /\ dht \in Records /\ tombs \subseteq Peer
      /\ dump \in DumpState /\ UNCHANGED <<world, dump>>
  BY DEF IInv, Types, ScanStart, ScanFile
<1>2. CASE ScanStart
  <2>1. scan' = [ScanIdle EXCEPT !.stage = "record", !.at = now, !.todo = Key,
                                 !.records = dht, !.graves = tombs]
    BY <1>2 DEF ScanStart
  <2>2. /\ scan' \in ScanState /\ scan'.stage = "record" /\ scan'.at = now
        /\ scan'.todo = Key /\ scan'.held = {} /\ scan'.known = {}
        /\ scan'.buried = {} /\ scan'.found = {}
        /\ scan'.records = dht /\ scan'.graves = tombs
    BY <1>1, <2>1 DEF ScanIdle, ScanState, Records
  <2>3. Ghosts' = {} /\ Done' = {}
    BY <2>2 DEF Ghosts, WithStatus, Done
  <2>4. ScanOK'
    BY <1>1, <2>2, <2>3
    DEF ScanOK, ScanWorld, ScanHeld, ScanTombs, GhostWasDead, ScanComplete,
        world
  <2>5. QED  BY <1>1, <2>2, <2>4, DumpKept DEF IInv, Types, world
<1>3. CASE ScanFile
  <2> DEFINE status(k) == ClassifyPeer(dht[k], k[1] \in tombs, now)
  <2>1. PICK cut \in SUBSET {k \in Readable(dht) : status(k) = "alive"} :
           scan' = [ScanIdle EXCEPT
               !.stage = "done", !.at = now,
               !.records = dht, !.graves = tombs,
               !.found = {[key |-> k, status |->
                   IF k \in cut THEN "unreachable" ELSE status(k)] :
                       k \in Readable(dht)}]
    BY <1>3 DEF ScanFile
  <2>2. \A k \in Readable(dht) :
           /\ k \in Key /\ dht[k] \in Nat /\ status(k) \in Status
           /\ status(k) = "ghost" <=> (dht[k] <= now /\ k[1] \notin tombs)
    BY <1>1 DEF Readable, Records, ClassifyPeer, Status
  <2>3. {[key |-> k, status |-> IF k \in cut THEN "unreachable"
                                ELSE status(k)] : k \in Readable(dht)}
           \subseteq [key : Key, status : Status]
    <3> HIDE DEF status
    <3>1. QED  BY <2>2 DEF Status
  <2>4. /\ scan' \in ScanState /\ scan'.stage = "done" /\ scan'.at = now
        /\ scan'.todo = {} /\ scan'.held = {} /\ scan'.known = {}
        /\ scan'.buried = {} /\ ~scan'.failed
        /\ scan'.records = dht /\ scan'.graves = tombs
        /\ scan'.found = {[key |-> k, status |->
               IF k \in cut THEN "unreachable" ELSE status(k)] :
                   k \in Readable(dht)}
    <3> HIDE DEF status
    <3>1. QED  BY <1>1, <2>1, <2>3 DEF ScanIdle, ScanState, Records
  <2>5. \A k : k \in Ghosts' <=> /\ k \in Readable(dht)
                                 /\ dht[k] <= now /\ k[1] \notin tombs
    <3>1. \A k \in Readable(dht) : k \in cut => status(k) # "ghost"
      <4>1. \A k \in cut : status(k) = "alive"
        OBVIOUS
      <4> HIDE DEF status
      <4>2. QED  BY <4>1
    <3>2. \A k : k \in Ghosts' <=> /\ k \in Readable(dht) /\ k \notin cut
                                   /\ status(k) = "ghost"
      <4> HIDE DEF status
      <4> DEFINE st(l) == IF l \in cut THEN "unreachable" ELSE status(l)
                 f(l) == [key |-> l, status |-> st(l)]
      <4>1. scan'.found = {f(l) : l \in Readable(dht)}
        BY <2>4
      <4>2. \A l : f(l).key = l /\ f(l).status = st(l)
        OBVIOUS
      <4>3. \A l : st(l) = "ghost" <=> (l \notin cut /\ status(l) = "ghost")
        OBVIOUS
      <4> HIDE DEF f, st
      <4>4. \A k : k \in Ghosts' <=> k \in Readable(dht) /\ st(k) = "ghost"
        <5>1. \A g : g \in scan'.found <=> \E l \in Readable(dht) : g = f(l)
          BY <4>1
        <5>2. \A k : k \in Ghosts' <=>
                 \E g \in scan'.found : g.status = "ghost" /\ g.key = k
          BY DEF Ghosts, WithStatus
        <5>3. QED  BY <4>2, <5>1, <5>2
      <4>5. QED  BY <4>3, <4>4
    <3> HIDE DEF status
    <3>3. QED  BY <2>2, <3>1, <3>2
  <2>6. ScanWorld' /\ ScanHeld' /\ ScanTombs' /\ GhostWasDead'
    BY <1>1, <2>4, <2>5
    DEF ScanWorld, ScanHeld, ScanTombs, GhostWasDead, world
  <2>7. ScanComplete'
    <3> SUFFICES ASSUME NEW k \in Key, dht[k] \in Nat, dht[k] <= now
                 PROVE  k \in Ghosts' \/ k[1] \in tombs
      BY <1>1, <2>4 DEF ScanComplete, Done, world
    <3>1. k \in Readable(dht)
      BY InspectorsAssumption DEF Readable
    <3>2. QED  BY <2>5, <3>1
  <2>8. QED
    BY <1>1, <2>4, <2>6, <2>7, DumpKept DEF IInv, ScanOK, Types, world
<1>4. QED  BY <1>2, <1>3

\* A record is read, which may have been renewed since the scan began, and is
\* classified by a tombstone read before, or held until that is read.
LEMMA ScanRecordStep ==
    ASSUME IInv, NEW k \in Key, ScanRecord(k)
    PROVE  IInv'
<1> DEFINE s == [scan EXCEPT !.todo = @ \ {k}]
<1>1. /\ scan.stage = "record" /\ k \in scan.todo /\ UNCHANGED <<world, dump>>
      /\ scan \in ScanState /\ dht \in Records /\ tombs \subseteq Peer
      /\ ScanWorld /\ ScanHeld /\ ScanTombs /\ GhostWasDead /\ ScanComplete
      /\ scan.held = {} /\ scan.at \in Nat
  BY DEF ScanRecord, IInv, Types, ScanOK, ScanHeld, ScanState
<1>2. /\ s \in ScanState /\ s.at = scan.at /\ s.todo = scan.todo \ {k}
      /\ s.records = scan.records /\ s.graves = scan.graves
      /\ s.held = {} /\ s.known = scan.known /\ s.buried = scan.buried
      /\ s.failed = scan.failed /\ s.stage = "record"
      /\ WithStatus(s, "ghost") = Ghosts
  BY <1>1 DEF ScanState, WithStatus, Ghosts
<1> HIDE DEF s
<1>3. /\ k \in Readable(dht) => dht[k] \in Nat
      /\ k \notin Readable(dht) => dht[k] \notin Nat
      /\ k[1] \in Peer
  BY <1>1, InspectorsAssumption DEF Readable, Records
<1>4. CASE scan' = [s EXCEPT !.failed = @ \/ k \in Readable(dht)]
  <2>1. /\ scan' \in ScanState /\ scan'.at = scan.at
        /\ scan'.todo = scan.todo \ {k}
        /\ scan'.records = scan.records /\ scan'.graves = scan.graves
        /\ scan'.held = {} /\ scan'.known = scan.known
        /\ scan'.buried = scan.buried /\ scan'.stage = "record"
        /\ scan'.failed = (scan.failed \/ k \in Readable(dht))
        /\ scan'.found = s.found
    BY <1>2, <1>4 DEF ScanState
  <2>2. Ghosts' = Ghosts
    BY <1>2, <2>1 DEF Ghosts, WithStatus
  <2>3. ScanHeld' /\ ScanTombs' /\ GhostWasDead'
    BY <1>1, <2>1, <2>2 DEF ScanHeld, ScanTombs, GhostWasDead
  <2>4. ScanComplete'
    BY <1>1, <1>3, <2>1, <2>2 DEF ScanComplete, Done, world
  <2>5. QED  BY <1>1, <2>1, <2>3, <2>4, ScanMoves DEF ScanWorld
<1>5. CASE /\ k \in Readable(dht) /\ k[1] \in scan.known
           /\ scan' \in Classified(s, k, dht[k], k[1] \in scan.buried)
  <2>1. /\ scan' \in ScanState /\ scan'.at = scan.at
        /\ scan'.todo = scan.todo \ {k} /\ scan'.stage = "record"
        /\ scan'.records = scan.records /\ scan'.graves = scan.graves
        /\ scan'.held = {} /\ scan'.known = scan.known
        /\ scan'.buried = scan.buried /\ scan'.failed = scan.failed
        /\ WithStatus(scan', "ghost") =
              Ghosts \cup (IF dht[k] <= scan.at /\ ~(k[1] \in scan.buried)
                           THEN {k} ELSE {})
    <3> DEFINE b == k[1] \in scan.buried
    <3>1. b \in BOOLEAN /\ scan' \in Classified(s, k, dht[k], b)
      BY <1>5
    <3>2. dht[k] \in Nat
      BY <1>3, <1>5
    <3> HIDE DEF b
    <3>3. /\ scan' \in ScanState /\ scan'.at = s.at
          /\ scan'.todo = s.todo /\ scan'.stage = "record"
          /\ scan'.records = s.records /\ scan'.graves = s.graves
          /\ scan'.held = {} /\ scan'.known = s.known
          /\ scan'.buried = s.buried /\ scan'.failed = s.failed
          /\ WithStatus(scan', "ghost") =
                WithStatus(s, "ghost") \cup
                (IF dht[k] <= s.at /\ ~b THEN {k} ELSE {})
      BY <1>2, <3>1, <3>2, ClassifiedAdds
    <3>4. QED  BY <1>2, <3>3 DEF b
  <2>2. Ghosts' = Ghosts \cup
                     (IF dht[k] <= scan.at /\ k[1] \notin scan.buried
                      THEN {k} ELSE {})
    BY <2>1 DEF Ghosts, WithStatus
  <2>3. ScanHeld' /\ ScanTombs'
    BY <1>1, <2>1 DEF ScanHeld, ScanTombs
  <2>4. GhostWasDead'
    <3>1. ASSUME dht[k] <= scan.at, k[1] \notin scan.buried
          PROVE  /\ scan.records[k] <= scan.at
                 /\ k[1] \in scan.graves => scan.failed
      BY <1>1, <1>3, <1>5, <3>1 DEF ScanWorld, ScanTombs, Later
    <3>2. QED  BY <1>1, <2>1, <2>2, <3>1 DEF GhostWasDead
  <2>5. ScanComplete'
    BY <1>1, <2>1, <2>2 DEF ScanComplete, ScanWorld, Done, world
  <2>6. QED  BY <1>1, <2>1, <2>3, <2>4, <2>5, ScanMoves DEF ScanWorld
<1>6. CASE /\ k \in Readable(dht) /\ k[1] \notin scan.known
           /\ scan' = [s EXCEPT !.stage = "tombstone",
                                !.held = {[key |-> k, expiry |-> dht[k]]}]
  <2> DEFINE h == [key |-> k, expiry |-> dht[k]]
  <2>1. h \in [key : Key, expiry : Nat] /\ h.key = k /\ h.expiry = dht[k]
    BY <1>3, <1>6
  <2> HIDE DEF h
  <2>2. /\ scan' \in ScanState /\ scan'.at = scan.at
        /\ scan'.todo = scan.todo \ {k} /\ scan'.stage = "tombstone"
        /\ scan'.records = scan.records /\ scan'.graves = scan.graves
        /\ scan'.held = {h} /\ scan'.known = scan.known
        /\ scan'.buried = scan.buried /\ scan'.failed = scan.failed
        /\ scan'.found = s.found
    BY <1>2, <1>6, <2>1 DEF ScanState, h
  <2>3. Ghosts' = Ghosts
    BY <1>2, <2>2 DEF Ghosts, WithStatus
  <2>4. ScanHeld'
    BY <1>1, <2>1, <2>2 DEF ScanHeld, ScanWorld, Later, world
  <2>5. ScanTombs' /\ GhostWasDead'
    BY <1>1, <2>2, <2>3 DEF ScanTombs, GhostWasDead
  <2>6. ScanComplete'
    BY <1>1, <2>1, <2>2, <2>3 DEF ScanComplete, Done, world
  <2>7. QED  BY <1>1, <2>2, <2>4, <2>5, <2>6, ScanMoves DEF ScanWorld
<1>7. QED  BY <1>4, <1>5, <1>6 DEF ScanRecord, s

\* The tombstone is read after the record, or its get fails.
LEMMA ScanTombstoneStep ==
    ASSUME IInv, ScanTombstone
    PROVE  IInv'
<1>1. /\ scan.stage = "tombstone" /\ UNCHANGED <<world, dump>>
      /\ scan \in ScanState /\ dht \in Records /\ tombs \subseteq Peer
      /\ ScanWorld /\ ScanHeld /\ ScanTombs /\ GhostWasDead /\ ScanComplete
      /\ scan.at \in Nat
  BY DEF ScanTombstone, IInv, Types, ScanOK, ScanState
<1>2. PICK h \in scan.held, got \in BOOLEAN :
         LET p == h.key[1]
             tombstoned == got /\ p \in tombs
             s == [scan EXCEPT !.known = @ \cup {p},
                               !.buried = IF tombstoned THEN @ \cup {p} ELSE @,
                               !.failed = @ \/ (~got /\ p \in tombs)]
         IN  scan' \in Classified(s, h.key, h.expiry, tombstoned)
  BY DEF ScanTombstone
<1> DEFINE k == h.key
           p == k[1]
           tombstoned == got /\ p \in tombs
           s == [scan EXCEPT !.known = @ \cup {p},
                             !.buried = IF tombstoned THEN @ \cup {p} ELSE @,
                             !.failed = @ \/ (~got /\ p \in tombs)]
<1>3. /\ k \in Key /\ p \in Peer /\ h.expiry \in Nat
      /\ \A g \in scan.held : g = h
      /\ h.expiry = scan.records[k] \/ Later(h.expiry)
      /\ dht[k] = h.expiry \/ Later(dht[k])
  BY <1>1, InspectorsAssumption DEF ScanState, ScanHeld
<1>4. scan' \in Classified(s, k, h.expiry, tombstoned) /\ tombstoned \in BOOLEAN
  BY <1>2
<1> HIDE DEF k
<1>5. /\ s \in ScanState /\ s.at = scan.at /\ s.todo = scan.todo
      /\ s.records = scan.records /\ s.graves = scan.graves
      /\ s.known = scan.known \cup {p}
      /\ s.buried = IF tombstoned THEN scan.buried \cup {p} ELSE scan.buried
      /\ s.failed = (scan.failed \/ (~got /\ p \in tombs))
      /\ s.found = scan.found
  <2> HIDE DEF p
  <2>1. QED  BY <1>1, <1>3 DEF ScanState
<1>6. WithStatus(s, "ghost") = Ghosts
  BY <1>5 DEF WithStatus, Ghosts
<1> HIDE DEF p, s, tombstoned
<1>7. /\ scan' \in ScanState /\ scan'.at = scan.at
      /\ scan'.todo = scan.todo /\ scan'.stage = "record"
      /\ scan'.records = scan.records /\ scan'.graves = scan.graves
      /\ scan'.held = {} /\ scan'.known = scan.known \cup {p}
      /\ scan'.buried =
            IF tombstoned THEN scan.buried \cup {p} ELSE scan.buried
      /\ scan'.failed = (scan.failed \/ (~got /\ p \in tombs))
      /\ WithStatus(scan', "ghost") =
            Ghosts \cup (IF h.expiry <= scan.at /\ ~tombstoned
                         THEN {k} ELSE {})
  BY <1>3, <1>4, <1>5, <1>6, ClassifiedAdds
<1>8. Ghosts' = Ghosts \cup (IF h.expiry <= scan.at /\ ~tombstoned
                             THEN {k} ELSE {})
  BY <1>7 DEF Ghosts, WithStatus
<1>9. ScanHeld'
  BY <1>7 DEF ScanHeld
<1>10. scan'.buried \subseteq tombs
  BY <1>1, <1>7 DEF ScanWorld, tombstoned
<1>11. p \in scan.graves => tombstoned \/ scan'.failed
  BY <1>1, <1>7 DEF ScanWorld, tombstoned
<1>12. ScanTombs'
  BY <1>1, <1>7, <1>11 DEF ScanTombs
<1>13. GhostWasDead'
  <2>1. ASSUME h.expiry <= scan.at, ~tombstoned
        PROVE  /\ scan.records[k] <= scan.at
               /\ k[1] \in scan.graves => scan'.failed
    BY <1>1, <1>3, <1>11, <2>1 DEF Later, p
  <2>2. \A l \in Ghosts : /\ l \in Readable(scan.records) =>
                                scan.records[l] <= scan.at
                          /\ l[1] \in scan.graves => scan'.failed
    BY <1>1, <1>7 DEF GhostWasDead
  <2>3. QED  BY <1>7, <1>8, <2>1, <2>2 DEF GhostWasDead
<1>14. ScanComplete'
  <2> SUFFICES ASSUME ~scan'.failed, NEW l \in Key, l \notin scan.todo,
                      dht[l] \in Nat, dht[l] <= scan.at
               PROVE  l \in Ghosts' \/ l[1] \in tombs
    BY <1>1, <1>7 DEF ScanComplete, Done, world
  <2>1. CASE l = k
    BY <1>1, <1>3, <1>8, <2>1 DEF Later, tombstoned, p
  <2>2. CASE l # k
    <3>1. l \in Done
      BY <1>3, <2>2 DEF Done, k
    <3>2. QED  BY <1>1, <1>7, <1>8, <3>1 DEF ScanComplete
  <2>3. QED  BY <2>1, <2>2
<1>15. QED
  BY <1>1, <1>7, <1>9, <1>10, <1>12, <1>13, <1>14, ScanMoves

\* The scan is over.
LEMMA ScanEndStep ==
    ASSUME IInv, ScanEnd
    PROVE  IInv'
<1>1. /\ scan.stage = "record" /\ scan.todo = {} /\ UNCHANGED <<world, dump>>
      /\ scan' = [scan EXCEPT !.stage = "done"]
      /\ scan \in ScanState
      /\ ScanWorld /\ ScanHeld /\ ScanTombs /\ GhostWasDead /\ ScanComplete
  BY DEF ScanEnd, IInv, Types, ScanOK
<1>2. /\ scan' \in ScanState /\ scan'.at = scan.at
      /\ scan'.todo = scan.todo /\ scan'.stage = "done"
      /\ scan'.records = scan.records /\ scan'.graves = scan.graves
      /\ scan'.held = scan.held /\ scan'.known = scan.known
      /\ scan'.buried = scan.buried /\ scan'.failed = scan.failed
      /\ scan'.found = scan.found
  BY <1>1 DEF ScanState
<1>3. Ghosts' = Ghosts
  BY <1>2 DEF Ghosts, WithStatus
<1>4. ScanHeld' /\ ScanTombs' /\ GhostWasDead' /\ ScanComplete'
  BY <1>1, <1>2, <1>3
  DEF ScanHeld, ScanTombs, GhostWasDead, ScanComplete, Done, world
<1>5. QED  BY <1>1, <1>2, <1>4, ScanMoves DEF ScanWorld

\* Every step of the detector.
LEMMA GhostStepInv ==
    ASSUME IInv, GhostStep
    PROVE  IInv'
BY ScanBegins, ScanRecordStep, ScanTombstoneStep, ScanEndStep DEF GhostStep

-----------------------------------------------------------------------------
(* The inspector.                                                          *)

\* The clock goes on between the count, the labels and the summary.
LEMMA InspectStepInv ==
    ASSUME IInv, InspectStep
    PROVE  IInv'
<1>1. /\ now \in Nat /\ dht \in Records /\ tombs \subseteq Peer
      /\ dump \in DumpState /\ UNCHANGED <<world, scan>> /\ DumpOK
  BY DEF InspectStep, Dump, InspectLive, Count, Label, Summarize, IInv, Types
<1>2. ScanOK'
  BY <1>1 DEF IInv, ScanOK, ScanWorld, ScanHeld, ScanTombs, GhostWasDead,
     ScanComplete, Done, Ghosts, Later, world
<1>3. SUFFICES dump' \in DumpState /\ DumpOK'
  BY <1>1, <1>2 DEF IInv, Types, world
<1>4. CASE Dump
  <2>1. dump' \in DumpState /\ dump'.stage = "dumped"
    BY <1>1, <1>4 DEF Dump, DumpIdle, DumpState, Records
  <2>2. QED  BY <2>1 DEF DumpOK
<1>5. CASE InspectLive
  <2>1. /\ dump' \in DumpState /\ dump'.stage = "counted"
        /\ dump'.count = 0 /\ dump'.records \in Records
    BY <1>1, <1>5 DEF InspectLive, LiveKeys, DumpIdle, DumpState, Records
  <2>2. 0 <= Cardinality(Orphans(dump', now))
    <3>1. now <= now
      BY <1>1
    <3>2. Cardinality(Orphans(dump', now)) \in Nat
      BY <1>1, <2>1, <3>1, OrphansGrow
    <3>3. QED  BY <3>2
  <2>3. Orphans(dump, now)' = Orphans(dump', now)
    BY <1>1 DEF Orphans, Readable, world
  <2>4. QED  BY <2>1, <2>2, <2>3 DEF DumpOK
<1>6. ASSUME dump'.records = dump.records, dump'.graves = dump.graves
      PROVE  /\ Orphans(dump, now) = Orphans(dump, now)'
             /\ Orphans(dump, now) \subseteq Key
             /\ Cardinality(Orphans(dump, now)) \in Nat
  <2>1. Orphans(dump, now) = Orphans(dump, now)'
    BY <1>1, <1>6 DEF Orphans, world
  <2>2. now <= now /\ dump.records \in Records
    BY <1>1 DEF DumpState
  <2>3. QED  BY <1>1, <2>1, <2>2, OrphansGrow
<1>7. CASE Count
  <2>1. dump' = [dump EXCEPT !.stage = "counted",
                             !.count = Cardinality(Orphans(dump, now))]
    BY <1>7 DEF Count
  <2>2. /\ dump'.records = dump.records /\ dump'.graves = dump.graves
        /\ dump'.stage = "counted"
        /\ dump'.count = Cardinality(Orphans(dump, now))
    BY <1>1, <2>1 DEF DumpState
  <2>3. dump' \in DumpState
    BY <1>1, <1>6, <2>1, <2>2 DEF DumpState
  <2>4. QED  BY <1>6, <2>2, <2>3 DEF DumpOK
<1>8. CASE Label
  <2>1. /\ dump.stage = "counted"
        /\ dump' = [dump EXCEPT !.stage = "labelled",
                                !.orphaned = Orphans(dump, now)]
    BY <1>8 DEF Label
  <2>2. /\ dump'.records = dump.records /\ dump'.graves = dump.graves
        /\ dump'.stage = "labelled" /\ dump'.count = dump.count
        /\ dump'.orphaned = Orphans(dump, now)
    BY <1>1, <2>1 DEF DumpState
  <2>3. dump' \in DumpState
    BY <1>1, <1>6, <2>1, <2>2 DEF DumpState
  <2>4. QED  BY <1>1, <1>6, <2>1, <2>2, <2>3 DEF DumpOK
<1>9. CASE Summarize
  <2>1. /\ dump.stage = "labelled"
        /\ dump' = [dump EXCEPT !.stage = "done", !.to = now,
                                !.orphans = Orphans(dump, now)]
    BY <1>9 DEF Summarize
  <2>2. /\ dump'.records = dump.records /\ dump'.graves = dump.graves
        /\ dump'.stage = "done" /\ dump'.count = dump.count
        /\ dump'.orphaned = dump.orphaned /\ dump'.to = now
        /\ dump'.orphans = Orphans(dump, now)
    BY <1>1, <2>1 DEF DumpState
  <2>3. dump' \in DumpState
    BY <1>1, <1>6, <2>1, <2>2 DEF DumpState
  <2>4. Orphans(dump, dump.to)' = Orphans(dump, now)
    BY <2>2 DEF Orphans
  <2>5. QED
    BY <1>1, <2>1, <2>2, <2>3, <2>4 DEF DumpOK, OrphansOnlyGrow
<1>10. QED  BY <1>4, <1>5, <1>7, <1>8, <1>9 DEF InspectStep

-----------------------------------------------------------------------------
(* The theorems.                                                           *)

\* The tools have not begun, at first and when a job has their files.
LEMMA Unbegun ==
    ASSUME now \in Nat, dht \in Records, tombs \subseteq Peer,
           scan = ScanIdle, dump = DumpIdle
    PROVE  IInv
<1>1. scan \in ScanState /\ scan.stage = "idle" /\ scan.found = {}
  BY DEF ScanIdle, ScanState, Records
<1>2. dump \in DumpState /\ dump.stage = "idle"
  BY DEF DumpIdle, DumpState, Records
<1>3. QED  BY <1>1, <1>2 DEF IInv, Types, ScanOK, DumpOK

\* The jobs of Pipeline run the tools while the DHT changes.
LEMMA InspectionInvariance == Spec => []IInv
<1>1. Init => IInv
  <2> SUFFICES ASSUME Init PROVE IInv
    OBVIOUS
  <2>1. PICK swarm \in Swarms : IInit(swarm.records, swarm.graves)
    BY DEF Init
  <2>2. /\ now = 0 /\ dht = swarm.records /\ tombs = swarm.graves
        /\ scan = ScanIdle /\ dump = DumpIdle
    BY <2>1 DEF IInit
  <2>3. QED  BY <2>2, PipelineAssumption, Unbegun
<1>2. IInv /\ [Next]_vars => IInv'
  <2> SUFFICES ASSUME IInv, [Next]_vars PROVE IInv'
    OBVIOUS
  <2>1. CASE UNCHANGED ivars
    BY <2>1
    DEF ivars, world, IInv, Types, ScanOK, ScanWorld, ScanHeld, ScanTombs,
        GhostWasDead, ScanComplete, Done, Ghosts, Later, DumpOK,
        OrphansOnlyGrow, Orphans
  <2>2. CASE Report
    <3>1. /\ now' \in Nat /\ dht' \in Records /\ tombs' \subseteq Peer
          /\ scan' = ScanIdle /\ dump' = DumpIdle
      BY <2>2 DEF Report, world, IInv, Types
    <3>2. scan' \in ScanState /\ scan'.stage = "idle" /\ scan'.found = {}
      BY <3>1 DEF ScanIdle, ScanState, Records
    <3>3. dump' \in DumpState /\ dump'.stage = "idle"
      BY <3>1 DEF DumpIdle, DumpState, Records
    <3>4. QED  BY <3>1, <3>2, <3>3 DEF IInv, Types, ScanOK, DumpOK
  <2>3. CASE Judge \/ AppendFails \/ CannotOpen \/ NextJob
    BY <2>1, <2>3 DEF Judge, AppendFails, CannotOpen, NextJob, Exit
  <2>4. QED
    BY <2>1, <2>2, <2>3, WorldStep, GhostStepInv, InspectStepInv
    DEF Next, Detect, Inspect, Environment, vars
<1>3. QED  BY <1>1, <1>2, PTL DEF Spec

\* A peer that the detector calls a ghost was one when the scan began, however
\* the DHT changed since, and whatever gets failed other than of tombstones.
THEOREM GhostsWereDead == Spec => []GhostWasDead
<1>1. IInv => GhostWasDead
  <2> SUFFICES ASSUME IInv PROVE GhostWasDead
    OBVIOUS
  <2>1. CASE scan.stage = "idle"
    BY <2>1 DEF IInv, ScanOK, GhostWasDead, Ghosts, WithStatus
  <2>2. CASE scan.stage # "idle"
    BY <2>2 DEF IInv, ScanOK
  <2>3. QED  BY <2>1, <2>2
<1>2. QED  BY <1>1, InspectionInvariance, PTL

\* The inspector's count, its entries and its summary are in order, however
\* long it takes.
THEOREM OrphansGrowOnly == Spec => []OrphansOnlyGrow
<1>1. IInv => OrphansOnlyGrow
  BY DEF IInv, DumpOK, OrphansOnlyGrow
<1>2. QED  BY <1>1, InspectionInvariance, PTL

\* Where no get fails, a detector that begins no earlier finds every orphan that
\* is still as it was dumped.
THEOREM OrphansAreGhosts == Spec => []OrphanIsGhost
<1>1. IInv => OrphanIsGhost
  <2> SUFFICES ASSUME IInv, dump.stage = "done", scan.stage = "done",
                      ~scan.failed, dump.to <= scan.at,
                      dump.records = dht, dump.graves = tombs,
                      NEW k \in dump.orphans
               PROVE  k \in Ghosts
    BY DEF OrphanIsGhost
  <2>1. /\ k \in Orphans(dump, dump.to) /\ dht \in Records
        /\ scan.at \in Nat /\ dump.to \in Nat
        /\ ScanHeld /\ ScanComplete
    BY DEF IInv, DumpOK, ScanOK, Types, ScanState, DumpState
  <2>2. /\ k \in Key /\ dht[k] \in Nat /\ dht[k] < dump.to
        /\ k[1] \notin tombs
    BY <2>1 DEF Orphans, Readable, IsExpired, Records
  <2>3. k \in Done
    BY <2>1, <2>2 DEF Done, ScanHeld
  <2>4. QED  BY <2>1, <2>2, <2>3 DEF ScanComplete
<1>2. QED  BY <1>1, InspectionInvariance, PTL

-----------------------------------------------------------------------------
(* validate-bootstrap.ts                                                   *)

\* A rounded percentage is below 50 if the exact one is below 49.5.
LEMMA Quotient ==
    ASSUME NEW x \in Nat, NEW d \in Nat \ {0}
    PROVE  x \div d < 50 <=> x < 50 * d
OBVIOUS

\* With the threshold that is the default, up to 100 peers, the tool advises to
\* prune its list exactly when it fails (validate-bootstrap.ts:460, 477-485);
\* with 101 peers, 50 of them reachable, it advises and exits with 0.
THEOREM AdviceIsVerdict ==
    ASSUME Threshold = 50, NEW total \in 1..100, NEW reachable \in 0..total
    PROVE  BootstrapOutput(total, 0, reachable).prune <=>
               BootstrapOutput(total, 0, reachable).exit_code # 0
<1> DEFINE out == BootstrapOutput(total, 0, reachable)
<1>1. Pct(total, reachable) < 50 <=> 200 * reachable + total < 50 * (2 * total)
  BY Quotient DEF Pct
<1>2. out.prune <=> 2 * (total - reachable) > total
  <2>1. ResolvePeers(total, 0) + FetchFromCoordinator = total
    BY DEF ResolvePeers, FetchFromCoordinator
  <2>2. QED  BY <2>1, Zenon DEF BootstrapOutput
<1>3. out.exit_code # 0 <=> (reachable = 0 \/ Pct(total, reachable) < 50)
  <2>1. out.exit_code = IF total = 0 THEN 3
                        ELSE IF reachable = 0 THEN 2
                        ELSE IF Pct(total, reachable) < 50 THEN 1 ELSE 0
    BY DEF BootstrapOutput, ResolvePeers, FetchFromCoordinator
  <2> HIDE DEF out
  <2>2. QED  BY <2>1
<1> HIDE DEF out
<1>4. (reachable = 0 \/ Pct(total, reachable) < 50) <=>
         2 * (total - reachable) > total
  BY <1>1
<1>5. QED  BY <1>2, <1>3, <1>4 DEF out

-----------------------------------------------------------------------------
(* The jobs.  What an event may say.                                       *)

\* The rules and the views compare what some tools report.
Fact(e) ==
    /\ e.key = "dht.announced" => e.value \in BOOLEAN
    /\ e.key = "dht.state.clean" => e.value = TRUE
    /\ e.key \in {"ghost.count", "dht.peer.count", "keyspace.orphan.keys"} =>
           e.value \in Nat
    /\ e.node # None => e.value = "ghost"

Value ==
    Nat \cup BOOLEAN \cup {"ghost", "ready", "trycloudflare", "host"}
    \cup {"ok", "refused"}
    \cup {Total(<<2, 2, 2>>)}
    \cup {Total(s.peers_discovered) : s \in SimResults}
    \cup {Cardinality(p) : p \in SUBSET Peer}
    \cup UNION {{t.status, t.provider, t.host, t.port} : t \in TunnelResults}

\* What an adapter returns, and what append makes of it.
Content ==
    {e \in [tool : Tools \cup {"system"}, key : CanonicalKeys,
            value : Value, node : Peer \cup {None}] : Fact(e)}
Event ==
    {e \in [tool : Tools \cup {"system"}, key : CanonicalKeys,
            value : Value, node : Peer \cup {None}, run_id : Nat,
            timestamp : Nat, logical_time : Nat] : Fact(e)}

\* The numbers and words that the adapters pass on.
LEMMA Values ==
    /\ Nat \subseteq Value /\ BOOLEAN \subseteq Value
    /\ {"ghost", "ready", "trycloudflare", "host", "ok", "refused"}
           \subseteq Value
    /\ \A p \in SUBSET Peer : Cardinality(p) \in Value
    /\ Total(<<2, 2, 2>>) \in Value
    /\ \A s \in SimResults : Total(s.peers_discovered) \in Value
    /\ \A t \in TunnelResults : {t.status, t.provider, t.host, t.port}
                                    \subseteq Value
<1>1. /\ Nat \subseteq Value /\ BOOLEAN \subseteq Value
      /\ {"ghost", "ready", "trycloudflare", "host", "ok", "refused"}
             \subseteq Value
  BY Zenon DEF Value
<1>2. /\ \A p \in SUBSET Peer : Cardinality(p) \in Value
      /\ Total(<<2, 2, 2>>) \in Value
      /\ \A s \in SimResults : Total(s.peers_discovered) \in Value
  BY Zenon DEF Value
<1>3. \A t \in TunnelResults : {t.status, t.provider, t.host, t.port}
                                   \subseteq Value
  BY Zenon DEF Value
<1>4. QED  BY <1>1, <1>2, <1>3

\* An event about no node in particular.
LEMMA Made ==
    ASSUME NEW tool \in Tools \cup {"system"}, NEW key \in CanonicalKeys,
           NEW value \in Value,
           key = "dht.announced" => value \in BOOLEAN,
           key = "dht.state.clean" => value = TRUE,
           key \in {"ghost.count", "dht.peer.count", "keyspace.orphan.keys"} =>
               value \in Nat
    PROVE  MakeEvent(tool, key, value) \in Content
BY DEF MakeEvent, Content, Fact

\* The events of two lists are those of each.
LEMMA Joined ==
    ASSUME NEW S, NEW s \in Seq(S), NEW t \in Seq(S)
    PROVE  s \o t \in Seq(S) /\ Range(s \o t) = Range(s) \cup Range(t)
BY ConcatProperties, RangeConcatenation

\* A list of one, and none.
LEMMA Single ==
    ASSUME NEW S, NEW e \in S
    PROVE  /\ <<e>> \in Seq(S) /\ Range(<<e>>) = {e}
           /\ <<>> \in Seq(S) /\ Range(<<>>) = {}
<1>1. <<e>> \in Seq(S) /\ <<>> \in Seq(S)
  OBVIOUS
<1>2. Range(<<e>>) = {e}
  <2>1. DOMAIN <<e>> = {1} /\ <<e>>[1] = e
    OBVIOUS
  <2>2. QED  BY <2>1 DEF Range
<1>3. Range(<<>>) = {}
  BY DEF Range
<1>4. QED  BY <1>1, <1>2, <1>3

\* A list of two.
LEMMA Pair ==
    ASSUME NEW S, NEW e \in S, NEW f \in S
    PROVE  <<e, f>> \in Seq(S) /\ Range(<<e, f>>) = {e, f}
<1>1. <<e, f>> \in Seq(S)
  OBVIOUS
<1>2. DOMAIN <<e, f>> = {1, 2} /\ <<e, f>>[1] = e /\ <<e, f>>[2] = f
  OBVIOUS
<1>3. QED  BY <1>1, <1>2 DEF Range

\* The elements of a finite set can be listed.
LEMMA SetListed ==
    ASSUME NEW T, IsFiniteSet(T)
    PROVE  SetToSeq(T) \in Seq(T) /\ Range(SetToSeq(T)) = T
<1> DEFINE n == Cardinality(T)
           f == SetToSeq(T)
<1>1. n \in Nat /\ ExistsBijection(1..n, T)
  BY FS_CardinalityType
<1>2. f \in [1..n -> T] /\ IsInjective(f)
  <2>1. \E g \in [1..n -> T] : IsInjective(g)
    BY <1>1 DEF ExistsBijection, Bijection, Injection
  <2>2. QED  BY <2>1 DEF SetToSeq
<1> HIDE DEF f
<1>3. f \in Surjection(1..n, T)
  <2>1. f \in Injection(1..n, T)
    BY <1>2 DEF Injection
  <2>2. IsFiniteSet(1..n) /\ Cardinality(1..n) = n
    BY <1>1, FS_Interval
  <2> HIDE DEF n
  <2>3. QED  BY <2>1, <2>2, FS_Injection DEF n
<1> HIDE DEF n
<1>4. f \in Seq(T)
  BY <1>1, <1>2
<1>5. Range(f) = T
  BY <1>3 DEF Surjection, Range
<1>6. QED  BY <1>4, <1>5 DEF f

\* What is computed from each element of a finite set is finite.
LEMMA FiniteImage ==
    ASSUME NEW S, IsFiniteSet(S), NEW f, DOMAIN f = S
    PROVE  IsFiniteSet({f[x] : x \in S})
<1> DEFINE T == {f[x] : x \in S}
           g == [x \in S |-> f[x]]
<1>1. g \in Surjection(S, T)
  BY DEF Surjection
<1>2. QED  BY <1>1, FS_Surjection

-----------------------------------------------------------------------------
(* The adapters.                                                           *)

\* validate-bootstrap.ts always reports the peers that it reached.
LEMMA BootstrapSays ==
    ASSUME NEW o, o.reachable \in Nat, o.peers \in Seq({"ok", "refused"})
    PROVE  /\ NormalizeBootstrap(o) \in Seq(Content)
           /\ \E e \in Range(NormalizeBootstrap(o)) :
                  e.key = "dht.peer.count.bootstrap"
<1> DEFINE a == MakeEvent("bootstrap", "dht.peer.count.bootstrap", o.reachable)
           b == MakeEvent("bootstrap", "dht.state.clean", TRUE)
           peer(i) == MakeEvent("bootstrap", "bootstrap.peer.status", o.peers[i])
           c == o.exit_code = 3
<1>1. a \in Content /\ b \in Content
  BY Values, Made DEF CanonicalKeys, Tools
<1>2. a.key = "dht.peer.count.bootstrap"
  BY DEF MakeEvent
<1>3. \A i \in 1..Len(o.peers) : peer(i) \in Content
  <2> SUFFICES ASSUME NEW i \in 1..Len(o.peers) PROVE peer(i) \in Content
    OBVIOUS
  <2>1. o.peers[i] \in Value
    BY Values
  <2>2. QED  BY <2>1, Made DEF CanonicalKeys, Tools
<1> DEFINE l == <<a>>
           p == IF c THEN <<b>> ELSE <<>>
           q == [i \in 1..Len(o.peers) |-> peer(i)]
<1>4. NormalizeBootstrap(o) = l \o p \o q
  BY Zenon DEF NormalizeBootstrap
<1> HIDE DEF a, b, peer
<1>5. /\ l \in Seq(Content) /\ Range(l) = {a}
      /\ p \in Seq(Content)
  BY <1>1, Single
<1>6. q \in Seq(Content)
  <2>1. Len(o.peers) \in Nat
    OBVIOUS
  <2>2. QED  BY <1>3, <2>1
<1> HIDE DEF l, p, q
<1>7. l \o p \in Seq(Content) /\ a \in Range(l \o p)
  BY <1>5, Joined
<1> DEFINE r == l \o p
<1>8. /\ r \in Seq(Content) /\ a \in Range(r)
      /\ NormalizeBootstrap(o) = r \o q
  BY <1>4, <1>7
<1> HIDE DEF r
<1>9. r \o q \in Seq(Content) /\ Range(r \o q) = Range(r) \cup Range(q)
  BY <1>6, <1>8, Joined
<1>10. QED  BY <1>2, <1>8, <1>9

\* The simulation always reports how many peers there were, and whether it
\* announced itself.
LEMMA SimSays ==
    ASSUME NEW o, Total(o.peers_discovered) \in Value, o.node_count \in Nat
    PROVE  LET peers == MakeEvent("sim", "dht.peer.count.sim",
                                  Total(o.peers_discovered))
               announced == MakeEvent("sim", "dht.announced", o.exit_code = 0)
               count == MakeEvent("sim", "dht.peer.count", o.node_count)
           IN  /\ NormalizeSim(o) \in Seq(Content)
               /\ Range(NormalizeSim(o)) =
                      {peers, announced} \cup
                      (IF o.peers_discovered # <<>> THEN {count} ELSE {})
<1> DEFINE a == MakeEvent("sim", "dht.peer.count.sim",
                          Total(o.peers_discovered))
           b == MakeEvent("sim", "dht.announced", o.exit_code = 0)
           d == MakeEvent("sim", "dht.peer.count", o.node_count)
           c == o.peers_discovered # <<>>
<1>1. a \in Content /\ b \in Content /\ d \in Content
  <2>1. (o.exit_code = 0) \in Value /\ (o.exit_code = 0) \in BOOLEAN
    BY Values
  <2>2. a \in Content
    BY Made DEF CanonicalKeys, Tools
  <2>3. b \in Content
    BY <2>1, Made DEF CanonicalKeys, Tools
  <2>4. d \in Content
    BY Values, Made DEF CanonicalKeys, Tools
  <2>5. QED  BY <2>2, <2>3, <2>4
<1> DEFINE l == <<a, b>>
           p == IF c THEN <<d>> ELSE <<>>
<1>2. NormalizeSim(o) = l \o p
  BY Zenon DEF NormalizeSim
<1> HIDE DEF a, b, c, d
<1>3. l \in Seq(Content) /\ Range(l) = {a, b}
  BY <1>1, Pair
<1>4. p \in Seq(Content) /\ Range(p) = (IF c THEN {d} ELSE {})
  BY <1>1, Single
<1> HIDE DEF l, p
<1>5. /\ NormalizeSim(o) \in Seq(Content)
      /\ Range(NormalizeSim(o)) = {a, b} \cup (IF c THEN {d} ELSE {})
  BY <1>2, <1>3, <1>4, Joined
<1>6. QED  BY <1>5 DEF a, b, c, d

\* The detector reports how many ghosts there are, and each peer that is one.
LEMMA GhostSays ==
    ASSUME NEW o, o.ghost \in Nat, o.ghost_peers \subseteq Peer,
           IsFiniteSet(o.ghost_peers)
    PROVE  LET count == MakeEvent("ghost", "ghost.count", o.ghost)
               named(p) == [MakeEvent("ghost", "node.status", "ghost")
                               EXCEPT !.node = p]
           IN  /\ NormalizeGhost(o) \in Seq(Content)
               /\ Range(NormalizeGhost(o)) =
                      {count} \cup {named(p) : p \in o.ghost_peers}
<1> DEFINE a == MakeEvent("ghost", "ghost.count", o.ghost)
           named(p) == [MakeEvent("ghost", "node.status", "ghost")
                           EXCEPT !.node = p]
           T == {named(p) : p \in o.ghost_peers}
<1>1. a \in Content
  BY Values, Made DEF CanonicalKeys, Tools
<1>2. \A p \in Peer : named(p) \in Content
  BY Values DEF MakeEvent, Content, Fact, CanonicalKeys, Tools
<1>3. IsFiniteSet(T)
  <2> DEFINE f == [p \in o.ghost_peers |-> named(p)]
  <2>1. IsFiniteSet({f[p] : p \in o.ghost_peers})
    <3>1. DOMAIN f = o.ghost_peers
      OBVIOUS
    <3> HIDE DEF f
    <3>2. QED  BY <3>1, FiniteImage
  <2>2. T = {f[p] : p \in o.ghost_peers}
    OBVIOUS
  <2>3. QED  BY <2>1, <2>2, Zenon
<1>4. T \subseteq Content
  BY <1>2
<1> DEFINE l == <<a>>
<1>5. NormalizeGhost(o) = l \o SetToSeq(T)
  BY Zenon DEF NormalizeGhost
<1> HIDE DEF a, T
<1>6. SetToSeq(T) \in Seq(T) /\ Range(SetToSeq(T)) = T
  BY <1>3, SetListed
<1>7. SetToSeq(T) \in Seq(Content)
  BY <1>4, <1>6, SeqMonotonic
<1>8. l \in Seq(Content) /\ Range(l) = {a}
  BY <1>1, Single
<1> HIDE DEF l
<1>9. /\ NormalizeGhost(o) \in Seq(Content)
      /\ Range(NormalizeGhost(o)) = {a} \cup T
  BY <1>5, <1>6, <1>7, <1>8, Joined
<1>10. QED  BY <1>9 DEF a, T

\* The inspector reports its summary.
LEMMA KeyspaceSays ==
    ASSUME NEW o, o.vless_count \in Value, o.hy2_count \in Value,
           o.tombstone_count \in Value, o.orphan_keys \in Nat
    PROVE  LET vless == MakeEvent("keyspace", "keyspace.vless.count",
                                  o.vless_count)
               hy2 == MakeEvent("keyspace", "keyspace.hysteria2.count",
                                o.hy2_count)
               tombstones == MakeEvent("keyspace", "keyspace.tombstone.count",
                                       o.tombstone_count)
               orphans == MakeEvent("keyspace", "keyspace.orphan.keys",
                                    o.orphan_keys)
           IN  /\ NormalizeKeyspace(o) \in Seq(Content)
               /\ Range(NormalizeKeyspace(o)) =
                      {vless, hy2, tombstones, orphans}
<1> DEFINE a == MakeEvent("keyspace", "keyspace.vless.count", o.vless_count)
           b == MakeEvent("keyspace", "keyspace.hysteria2.count", o.hy2_count)
           c == MakeEvent("keyspace", "keyspace.tombstone.count",
                          o.tombstone_count)
           d == MakeEvent("keyspace", "keyspace.orphan.keys", o.orphan_keys)
<1>1. a \in Content /\ b \in Content /\ c \in Content /\ d \in Content
  <2>1. a \in Content
    BY Made DEF CanonicalKeys, Tools
  <2>2. b \in Content
    BY Made DEF CanonicalKeys, Tools
  <2>3. c \in Content
    BY Made DEF CanonicalKeys, Tools
  <2>4. d \in Content
    BY Values, Made DEF CanonicalKeys, Tools
  <2>5. QED  BY <2>1, <2>2, <2>3, <2>4
<1>2. NormalizeKeyspace(o) = <<a, b, c, d>>
  BY DEF NormalizeKeyspace
<1> HIDE DEF a, b, c, d
<1>3. <<a, b, c, d>> \in Seq(Content)
  BY <1>1
<1>4. Range(<<a, b, c, d>>) = {a, b, c, d}
  <2> DEFINE s == <<a, b, c, d>>
  <2>1. DOMAIN s = {1, 2, 3, 4} /\ s[1] = a /\ s[2] = b /\ s[3] = c /\ s[4] = d
    OBVIOUS
  <2> HIDE DEF s
  <2>2. Range(s) = {a, b, c, d}
    BY <2>1 DEF Range
  <2>3. QED  BY <2>2 DEF s
<1>5. QED  BY <1>2, <1>3, <1>4 DEF a, b, c, d

\* A tunnel always has a status.
LEMMA TunnelSays ==
    ASSUME NEW o, o.status \in Value, o.provider \in Value, o.host \in Value,
           o.port \in Value
    PROVE  LET status == MakeEvent("tunnel", "tunnel.status", o.status)
               provider == MakeEvent("tunnel", "tunnel.provider", o.provider)
               host == MakeEvent("tunnel", "tunnel.host", o.host)
               port == MakeEvent("tunnel", "tunnel.port", o.port)
           IN  /\ NormalizeTunnel(o) \in Seq(Content)
               /\ {status} \subseteq Range(NormalizeTunnel(o))
               /\ Range(NormalizeTunnel(o)) \subseteq
                      {status, provider, host, port}
<1> DEFINE a == MakeEvent("tunnel", "tunnel.status", o.status)
           b == MakeEvent("tunnel", "tunnel.provider", o.provider)
           c == MakeEvent("tunnel", "tunnel.host", o.host)
           d == MakeEvent("tunnel", "tunnel.port", o.port)
           p == IF o.host = None THEN <<>> ELSE <<c>>
           q == IF o.port = None THEN <<>> ELSE <<d>>
<1>1. a \in Content /\ b \in Content /\ c \in Content /\ d \in Content
  <2>1. a \in Content
    BY Made DEF CanonicalKeys, Tools
  <2>2. b \in Content
    BY Made DEF CanonicalKeys, Tools
  <2>3. c \in Content
    BY Made DEF CanonicalKeys, Tools
  <2>4. d \in Content
    BY Made DEF CanonicalKeys, Tools
  <2>5. QED  BY <2>1, <2>2, <2>3, <2>4
<1> DEFINE l == <<a, b>>
<1>2. NormalizeTunnel(o) = (l \o p) \o q
  BY Zenon DEF NormalizeTunnel
<1> HIDE DEF a, b, c, d
<1>3. l \in Seq(Content) /\ Range(l) = {a, b}
  BY <1>1, Pair
<1>4. /\ p \in Seq(Content) /\ Range(p) \subseteq {c}
      /\ q \in Seq(Content) /\ Range(q) \subseteq {d}
  <2>1. <<>> \in Seq(Content) /\ Range(<<>>) = {}
    BY <1>1, Single
  <2>2. <<c>> \in Seq(Content) /\ Range(<<c>>) = {c}
    BY <1>1, Single
  <2>3. <<d>> \in Seq(Content) /\ Range(<<d>>) = {d}
    BY <1>1, Single
  <2>4. QED  BY <2>1, <2>2, <2>3
<1> HIDE DEF l, p, q
<1> DEFINE r == l \o p
<1>5. r \in Seq(Content) /\ Range(r) = {a, b} \cup Range(p)
  BY <1>3, <1>4, Joined
<1> HIDE DEF r
<1>6. /\ NormalizeTunnel(o) \in Seq(Content)
      /\ Range(NormalizeTunnel(o)) = ({a, b} \cup Range(p)) \cup Range(q)
  <2>1. NormalizeTunnel(o) = r \o q
    BY <1>2 DEF r
  <2>2. QED  BY <2>1, <1>4, <1>5, Joined
<1>7. QED  BY <1>4, <1>6 DEF a, b, c, d

\* validate-spec reports whether there is no drift.
LEMMA SpecSays ==
    ASSUME NEW o, o.drift_detected \in BOOLEAN
    PROVE  LET alignment == MakeEvent("spec", "spec.alignment",
                                      ~o.drift_detected)
           IN  /\ NormalizeSpec(o) \in Seq(Content)
               /\ Range(NormalizeSpec(o)) = {alignment}
<1> DEFINE a == MakeEvent("spec", "spec.alignment", ~o.drift_detected)
<1>1. a \in Content
  <2>1. (~o.drift_detected) \in Value
    BY Values
  <2>2. QED  BY <2>1, Made DEF CanonicalKeys, Tools
<1>2. NormalizeSpec(o) = <<a>>
  BY Zenon DEF NormalizeSpec
<1> HIDE DEF a
<1>3. <<a>> \in Seq(Content) /\ Range(<<a>>) = {a}
  BY <1>1, Single
<1>4. QED  BY <1>2, <1>3 DEF a

-----------------------------------------------------------------------------
(* What a job enters.                                                      *)

\* What the rules need of the results that are there.
ResultsOK(results) ==
    /\ results["bootstrap"] # Missing =>
           /\ results["bootstrap"].reachable \in Nat
           /\ results["bootstrap"].peers \in Seq({"ok", "refused"})
    /\ results["sim"] # Missing => results["sim"] \in SimResults
    /\ results["ghost"] # Missing =>
           /\ results["ghost"].ghost \in Nat
           /\ results["ghost"].ghost_peers \subseteq Peer
           /\ IsFiniteSet(results["ghost"].ghost_peers)
    /\ results["keyspace"] # Missing =>
           /\ results["keyspace"].vless_count \in Value
           /\ results["keyspace"].hy2_count \in Value
           /\ results["keyspace"].tombstone_count \in Value
           /\ results["keyspace"].orphan_keys \in Nat
    /\ results["tunnel"] # Missing => results["tunnel"] \in TunnelResults
    /\ results["spec"] # Missing => results["spec"].drift_detected \in BOOLEAN

\* Five lists, one after the other.
LEMMA JoinedFive ==
    ASSUME NEW S, NEW a \in Seq(S), NEW b \in Seq(S), NEW c \in Seq(S),
           NEW d \in Seq(S), NEW e \in Seq(S)
    PROVE  /\ a \o b \o c \o d \o e \in Seq(S)
           /\ Range(a \o b \o c \o d \o e) =
                  Range(a) \cup Range(b) \cup Range(c) \cup Range(d)
                  \cup Range(e)
<1> DEFINE p == a \o b
<1>1. p \in Seq(S) /\ Range(p) = Range(a) \cup Range(b)
  BY Joined
<1> HIDE DEF p
<1> DEFINE q == p \o c
<1>2. q \in Seq(S) /\ Range(q) = Range(p) \cup Range(c)
  BY <1>1, Joined
<1> HIDE DEF q
<1> DEFINE r == q \o d
<1>3. r \in Seq(S) /\ Range(r) = Range(q) \cup Range(d)
  BY <1>2, Joined
<1> HIDE DEF r
<1>4. r \o e \in Seq(S) /\ Range(r \o e) = Range(r) \cup Range(e)
  BY <1>3, Joined
<1>5. r \o e = a \o b \o c \o d \o e
  BY DEF p, q, r
<1>6. QED  BY <1>1, <1>2, <1>3, <1>4, <1>5

\* A job with results enters all that its tools report.
LEMMA IngestSays ==
    ASSUME NEW results, ResultsOK(results)
    PROVE  LET said == Range(IngestResults(results))
           IN  /\ IngestResults(results) \in Seq(Content)
               /\ results["bootstrap"] # Missing =>
                      \E e \in said : e.key = "dht.peer.count.bootstrap"
               /\ results["sim"] # Missing =>
                      /\ \E e \in said : e.key = "dht.peer.count.sim"
                      /\ \E e \in said : e.key = "dht.announced"
               /\ results["tunnel"] # Missing =>
                      \E e \in said : e.key = "tunnel.status"
<1> DEFINE of(tool, events) == IF results[tool] = Missing THEN <<>> ELSE events
           m == MakeEvent("system", "env.fingerprint", TRUE)
           l == <<m>>
           b == of("bootstrap", NormalizeBootstrap(results["bootstrap"]))
           s == of("sim", NormalizeSim(results["sim"]))
           g == of("ghost", NormalizeGhost(results["ghost"]))
           k == of("keyspace", NormalizeKeyspace(results["keyspace"]))
           t == of("tunnel", NormalizeTunnel(results["tunnel"]))
           d == of("spec", NormalizeSpec(results["spec"]))
<1>1. IngestResults(results) = ((l \o b) \o s \o g \o k \o t) \o d
  BY Zenon DEF IngestResults
<1>2. m \in Content
  BY Values, Made DEF CanonicalKeys, Tools
<1> HIDE DEF m
<1>3. l \in Seq(Content) /\ <<>> \in Seq(Content)
  BY <1>2, Single
<1> HIDE DEF l
<1>4. /\ b \in Seq(Content)
      /\ results["bootstrap"] # Missing =>
             \E e \in Range(b) : e.key = "dht.peer.count.bootstrap"
  BY <1>3, BootstrapSays DEF ResultsOK
<1>5. /\ s \in Seq(Content)
      /\ results["sim"] # Missing =>
             /\ \E e \in Range(s) : e.key = "dht.peer.count.sim"
             /\ \E e \in Range(s) : e.key = "dht.announced"
  <2>1. CASE results["sim"] = Missing
    BY <1>3, <2>1
  <2>2. CASE results["sim"] # Missing
    <3> DEFINE o == results["sim"]
               e == MakeEvent("sim", "dht.peer.count.sim",
                              Total(o.peers_discovered))
               f == MakeEvent("sim", "dht.announced", o.exit_code = 0)
    <3>1. Total(o.peers_discovered) \in Value /\ o.node_count \in Nat
      BY <2>2, Values, PipelineAssumption DEF ResultsOK
    <3>2. /\ NormalizeSim(o) \in Seq(Content)
          /\ e \in Range(NormalizeSim(o)) /\ f \in Range(NormalizeSim(o))
      <4> HIDE DEF o
      <4>1. QED  BY <3>1, SimSays
    <3>3. e.key = "dht.peer.count.sim" /\ f.key = "dht.announced"
      BY DEF MakeEvent
    <3>4. s = NormalizeSim(o)
      BY <2>2
    <3> HIDE DEF e, f, o, s
    <3>5. s \in Seq(Content) /\ e \in Range(s) /\ f \in Range(s)
      BY <3>2, <3>4
    <3>6. QED  BY <3>3, <3>5
  <2>3. QED  BY <2>1, <2>2
<1>6. g \in Seq(Content)
  BY <1>3, GhostSays DEF ResultsOK
<1>7. k \in Seq(Content)
  BY <1>3, KeyspaceSays DEF ResultsOK
<1>8. /\ t \in Seq(Content)
      /\ results["tunnel"] # Missing =>
             \E e \in Range(t) : e.key = "tunnel.status"
  <2>1. CASE results["tunnel"] = Missing
    BY <1>3, <2>1
  <2>2. CASE results["tunnel"] # Missing
    <3> DEFINE o == results["tunnel"]
               e == MakeEvent("tunnel", "tunnel.status", o.status)
    <3>1. /\ o.status \in Value /\ o.provider \in Value /\ o.host \in Value
          /\ o.port \in Value
      BY <2>2, Values DEF ResultsOK
    <3>2. e.key = "tunnel.status"
      BY DEF MakeEvent
    <3>3. t = NormalizeTunnel(o)
      BY <2>2
    <3> HIDE DEF o, t
    <3>4. /\ NormalizeTunnel(o) \in Seq(Content)
          /\ e \in Range(NormalizeTunnel(o))
      BY <3>1, TunnelSays
    <3> HIDE DEF e
    <3>5. t \in Seq(Content) /\ e \in Range(t)
      BY <3>3, <3>4
    <3>6. QED  BY <3>2, <3>5
  <2>3. QED  BY <2>1, <2>2
<1>9. d \in Seq(Content)
  BY <1>3, SpecSays DEF ResultsOK
<1> HIDE DEF b, s, g, k, t, d
<1> DEFINE n == l \o b
<1>10. n \in Seq(Content) /\ Range(n) = Range(l) \cup Range(b)
  BY <1>3, <1>4, Joined
<1> HIDE DEF n
<1> DEFINE r == n \o s \o g \o k \o t
<1>11. /\ r \in Seq(Content)
       /\ Range(r) = Range(n) \cup Range(s) \cup Range(g) \cup Range(k)
                     \cup Range(t)
  BY <1>5, <1>6, <1>7, <1>8, <1>10, JoinedFive
<1> HIDE DEF r
<1>12. r \o d \in Seq(Content) /\ Range(r \o d) = Range(r) \cup Range(d)
  BY <1>9, <1>11, Joined
<1>13. IngestResults(results) = r \o d
  BY <1>1 DEF n, r
<1> HIDE DEF of
<1>14. /\ IngestResults(results) \in Seq(Content)
       /\ Range(b) \subseteq Range(IngestResults(results))
       /\ Range(s) \subseteq Range(IngestResults(results))
       /\ Range(g) \subseteq Range(IngestResults(results))
       /\ Range(t) \subseteq Range(IngestResults(results))
  BY <1>10, <1>11, <1>12, <1>13
<1>15. QED  BY <1>4, <1>5, <1>6, <1>8, <1>14

\* The demo: who reports what of a coherent swarm.
LEMMA DemoSays ==
    LET said == Range(RunDemo)
        one(key) == \E e \in said : e.key = key
    IN  /\ RunDemo \in Seq(Content)
        /\ \A e \in said : e.key # "dht.peer.count.bootstrap"
        /\ one("dht.peer.count.sim") /\ one("keyspace.orphan.keys")
        /\ one("tunnel.status") /\ one("ghost.count")
        /\ \A e \in said : e.key \in {"keyspace.orphan.keys", "ghost.count"} =>
                               e.value = 0
        /\ \A e \in said : e.key = "tunnel.status" => e.value = "ready"
<1> DEFINE sim == [exit_code |-> 0, node_count |-> 3,
                   peers_discovered |-> <<2, 2, 2>>]
           ghosts == [ghost |-> 0, ghost_peers |-> {}]
           keys == [vless_count |-> 2, hy2_count |-> 1, tombstone_count |-> 0,
                    orphan_keys |-> 0]
           tunnel == [status |-> "ready", provider |-> "trycloudflare",
                      host |-> "host", port |-> 443]
           drift == [drift_detected |-> FALSE]
           s == NormalizeSim(sim)
           g == NormalizeGhost(ghosts)
           k == NormalizeKeyspace(keys)
           t == NormalizeTunnel(tunnel)
           d == NormalizeSpec(drift)
           quiet(e) ==
               /\ e.key # "dht.peer.count.bootstrap"
               /\ e.key \in {"keyspace.orphan.keys", "ghost.count"} =>
                      e.value = 0
               /\ e.key = "tunnel.status" => e.value = "ready"
<1>1. RunDemo = s \o g \o k \o t \o d
  BY Zenon DEF RunDemo
<1>2. /\ s \in Seq(Content)
      /\ \E e \in Range(s) : e.key = "dht.peer.count.sim"
      /\ \A e \in Range(s) : quiet(e)
  <2>1. Total(sim.peers_discovered) \in Value /\ sim.node_count \in Nat
    BY Values
  <2> DEFINE a == MakeEvent("sim", "dht.peer.count.sim",
                            Total(sim.peers_discovered))
             b == MakeEvent("sim", "dht.announced", sim.exit_code = 0)
             c == MakeEvent("sim", "dht.peer.count", sim.node_count)
  <2>2. /\ a.key = "dht.peer.count.sim" /\ quiet(a) /\ quiet(b) /\ quiet(c)
    BY DEF MakeEvent
  <2> HIDE DEF sim, quiet
  <2>3. /\ s \in Seq(Content) /\ a \in Range(s) /\ Range(s) \subseteq {a, b, c}
    BY <2>1, SimSays
  <2> HIDE DEF s, a, b, c
  <2>4. QED  BY <2>2, <2>3
<1>3. /\ g \in Seq(Content)
      /\ \E e \in Range(g) : e.key = "ghost.count"
      /\ \A e \in Range(g) : quiet(e)
  <2>1. /\ ghosts.ghost \in Nat /\ ghosts.ghost_peers \subseteq Peer
        /\ ghosts.ghost_peers = {} /\ IsFiniteSet(ghosts.ghost_peers)
    BY FS_EmptySet
  <2> DEFINE a == MakeEvent("ghost", "ghost.count", ghosts.ghost)
  <2>2. a.key = "ghost.count" /\ quiet(a)
    BY DEF MakeEvent
  <2> HIDE DEF ghosts, quiet
  <2>3. g \in Seq(Content) /\ Range(g) = {a}
    BY <2>1, GhostSays
  <2> HIDE DEF g, a
  <2>4. QED  BY <2>2, <2>3
<1>4. /\ k \in Seq(Content)
      /\ \E e \in Range(k) : e.key = "keyspace.orphan.keys"
      /\ \A e \in Range(k) : quiet(e)
  <2>1. /\ keys.vless_count \in Value /\ keys.hy2_count \in Value
        /\ keys.tombstone_count \in Value /\ keys.orphan_keys \in Nat
    BY Values
  <2> DEFINE a == MakeEvent("keyspace", "keyspace.vless.count",
                            keys.vless_count)
             b == MakeEvent("keyspace", "keyspace.hysteria2.count",
                            keys.hy2_count)
             c == MakeEvent("keyspace", "keyspace.tombstone.count",
                            keys.tombstone_count)
             e == MakeEvent("keyspace", "keyspace.orphan.keys",
                            keys.orphan_keys)
  <2>2. /\ e.key = "keyspace.orphan.keys"
        /\ quiet(a) /\ quiet(b) /\ quiet(c) /\ quiet(e)
    BY DEF MakeEvent
  <2> HIDE DEF keys, quiet
  <2>3. k \in Seq(Content) /\ Range(k) = {a, b, c, e}
    BY <2>1, KeyspaceSays
  <2> HIDE DEF k, a, b, c, e
  <2>4. QED  BY <2>2, <2>3
<1>5. /\ t \in Seq(Content)
      /\ \E e \in Range(t) : e.key = "tunnel.status"
      /\ \A e \in Range(t) : quiet(e)
  <2>1. /\ tunnel.status \in Value /\ tunnel.provider \in Value
        /\ tunnel.host \in Value /\ tunnel.port \in Value
    BY Values
  <2> DEFINE a == MakeEvent("tunnel", "tunnel.status", tunnel.status)
             b == MakeEvent("tunnel", "tunnel.provider", tunnel.provider)
             c == MakeEvent("tunnel", "tunnel.host", tunnel.host)
             e == MakeEvent("tunnel", "tunnel.port", tunnel.port)
  <2>2. /\ a.key = "tunnel.status"
        /\ quiet(a) /\ quiet(b) /\ quiet(c) /\ quiet(e)
    BY DEF MakeEvent
  <2> HIDE DEF tunnel, quiet
  <2>3. /\ t \in Seq(Content) /\ a \in Range(t)
        /\ Range(t) \subseteq {a, b, c, e}
    BY <2>1, TunnelSays
  <2> HIDE DEF t, a, b, c, e
  <2>4. QED  BY <2>2, <2>3
<1>6. d \in Seq(Content) /\ \A e \in Range(d) : quiet(e)
  <2>1. drift.drift_detected \in BOOLEAN
    OBVIOUS
  <2> DEFINE a == MakeEvent("spec", "spec.alignment", ~drift.drift_detected)
  <2>2. quiet(a)
    BY DEF MakeEvent
  <2> HIDE DEF drift, quiet
  <2>3. d \in Seq(Content) /\ Range(d) = {a}
    BY <2>1, SpecSays
  <2> HIDE DEF d, a
  <2>4. QED  BY <2>2, <2>3
<1> HIDE DEF s, g, k, t, d, sim, ghosts, keys, tunnel, drift
<1> HIDE DEF quiet
<1>7. /\ RunDemo \in Seq(Content)
      /\ Range(RunDemo) = Range(s) \cup Range(g) \cup Range(k) \cup Range(t)
                          \cup Range(d)
  <2> DEFINE r == s \o g \o k \o t \o d
  <2>1. /\ r \in Seq(Content)
        /\ Range(r) = Range(s) \cup Range(g) \cup Range(k) \cup Range(t)
                      \cup Range(d)
    BY <1>2, <1>3, <1>4, <1>5, <1>6, JoinedFive
  <2> HIDE DEF r
  <2>2. RunDemo = r
    BY <1>1 DEF r
  <2>3. QED  BY <2>1, <2>2
<1>8. \A e \in Range(RunDemo) : quiet(e)
  BY <1>2, <1>3, <1>4, <1>5, <1>6, <1>7
<1>9. QED  BY <1>2, <1>3, <1>4, <1>5, <1>7, <1>8 DEF quiet

-----------------------------------------------------------------------------
(* The views of a list in which each event's logical time is its position. *)

Numbered(events, n) ==
    /\ DOMAIN events \subseteq 1..n
    /\ \A i \in DOMAIN events : events[i].logical_time = i

\* A set of positions has a greatest one.
LEMMA Greatest ==
    ASSUME NEW n \in Nat, NEW at \in SUBSET (1..n), at # {}
    PROVE  \E i \in at : \A j \in at : j <= i
<1> DEFINE T == {n - i : i \in at}
<1>1. T \subseteq Nat /\ T # {}
  <2>1. \A i \in at : n - i \in Nat
    OBVIOUS
  <2>2. QED  BY <2>1
<1>2. PICK t \in T : \A u \in T : <<u, t>> \notin OpToRel(<, Nat)
  BY <1>1, NatLessThanWellFounded, WFMin
<1>3. \A u \in T : ~(u < t)
  BY <1>1, <1>2 DEF OpToRel
<1>4. PICK i \in at : t = n - i
  BY <1>2
<1>5. \A j \in at : ~(n - j < n - i)
  BY <1>3, <1>4
<1>6. QED  BY <1>5

\* The last event is the one at the greatest position.
LEMMA LastIs ==
    ASSUME NEW events, NEW n \in Nat, Numbered(events, n),
           NEW at \in SUBSET DOMAIN events,
           NEW i \in at, \A j \in at : j <= i
    PROVE  LastOf(events, at) = events[i]
<1>1. \A j, k \in at : Earlier(events, j, k) <=> j <= k
  BY DEF Numbered, Earlier
<1> DEFINE last(m) == m \in at /\ \A j \in at : Earlier(events, j, m)
<1>2. \A m : last(m) <=> m = i
  <2>1. ASSUME NEW m, last(m) PROVE m = i
    BY <1>1, <2>1 DEF Numbered
  <2>2. last(i)
    BY <1>1
  <2>3. QED  BY <2>1, <2>2
<1>3. (CHOOSE m \in at : \A j \in at : Earlier(events, j, m)) = i
  BY <1>2, Zenon
<1>4. QED  BY <1>3, Zenon DEF LastOf

\* A selection that is not empty has a last event.
LEMMA LastExists ==
    ASSUME NEW events, NEW n \in Nat, Numbered(events, n),
           NEW at \in SUBSET DOMAIN events, at # {}
    PROVE  \E i \in at : /\ \A j \in at : j <= i
                         /\ LastOf(events, at) = events[i]
<1>1. PICK i \in at : \A j \in at : j <= i
  BY Greatest DEF Numbered
<1>2. QED  BY <1>1, LastIs

\* If some event from position m on has the key, the latest one is of these,
\* and the latest of these.
LEMMA LatestIsRecent ==
    ASSUME NEW events, NEW n \in Nat, Numbered(events, n), NEW m \in Nat,
           NEW key, NEW k \in OfKey(events, key), k > m
    PROVE  /\ Has(events, key)
           /\ \E i \in OfKey(events, key) :
                 /\ i > m /\ i \in DOMAIN events /\ events[i].key = key
                 /\ \A j \in OfKey(events, key) : j <= i
                 /\ Latest(events, key) = events[i]
<1>1. OfKey(events, key) \in SUBSET DOMAIN events /\ OfKey(events, key) # {}
  BY DEF OfKey
<1>2. PICK i \in OfKey(events, key) :
         /\ \A j \in OfKey(events, key) : j <= i
         /\ LastOf(events, OfKey(events, key)) = events[i]
  BY <1>1, LastExists
<1>3. i > m
  <2>1. i \in Nat /\ k \in Nat /\ k <= i
    BY <1>1, <1>2 DEF Numbered
  <2>2. QED  BY <2>1
<1>4. i \in DOMAIN events /\ events[i].key = key
  BY <1>2 DEF OfKey
<1>5. QED  BY <1>1, <1>2, <1>3, <1>4 DEF Has, Latest

\* Whatever there is of a key is one of its events.
LEMMA LatestIsOne ==
    ASSUME NEW events, NEW n \in Nat, Numbered(events, n), NEW key,
           Has(events, key)
    PROVE  \E i \in DOMAIN events : /\ events[i].key = key
                                    /\ Latest(events, key) = events[i]
<1>1. OfKey(events, key) \in SUBSET DOMAIN events /\ OfKey(events, key) # {}
  BY DEF OfKey, Has
<1>2. QED  BY <1>1, LastExists DEF OfKey, Latest

-----------------------------------------------------------------------------
(* The exit code.                                                          *)

Judgement(events) == CiExitCode(DetectContradictions(events))

\* What a rule finds is of its name and one of the three severities.
LEMMA Findings ==
    ASSUME NEW events
    PROVE  /\ PeerCountRule(events) \subseteq
                  [severity : {"HARD", "SOFT"},
                   rule : {"dht-peer-count-consistency"}]
           /\ NodeLivenessRule(events) = {}
           /\ OrphanRule(events) \subseteq
                  [severity : {"DRIFT"}, rule : {"keyspace-orphan-consistency"}]
           /\ TunnelRule(events) \subseteq
                  [severity : {"HARD"},
                   rule : {"tunnel-vs-announce-consistency"}]
           /\ GhostDensityRule(events) \subseteq
                  [severity : {"SOFT"}, rule : {"ghost-density"}]
<1>1. PeerCountRule(events) \subseteq
         [severity : {"HARD", "SOFT"}, rule : {"dht-peer-count-consistency"}]
  BY DEF PeerCountRule, Found
<1>2. NodeLivenessRule(events) = {}
  BY DEF NodeLivenessRule
<1>3. OrphanRule(events) \subseteq
         [severity : {"DRIFT"}, rule : {"keyspace-orphan-consistency"}]
  BY DEF OrphanRule, Found
<1>4. TunnelRule(events) \subseteq
         [severity : {"HARD"}, rule : {"tunnel-vs-announce-consistency"}]
  BY DEF TunnelRule, Found
<1>5. GhostDensityRule(events) \subseteq
         [severity : {"SOFT"}, rule : {"ghost-density"}]
  BY DEF GhostDensityRule, Found
<1>6. QED  BY <1>1, <1>2, <1>3, <1>4, <1>5

\* The cases of ciExitCode are all there are.
LEMMA ExitCodes ==
    ASSUME NEW events
    PROVE  /\ Judgement(events) \in 0..3
           /\ Judgement(events) = 3 <=>
                  "HARD" \in Severities(DetectContradictions(events))
           /\ Judgement(events) = 0 <=> DetectContradictions(events) = {}
<1> DEFINE r == DetectContradictions(events)
<1>1. Severities(r) \subseteq {"HARD", "SOFT", "DRIFT"}
  <2>1. \A c \in r : c.severity \in {"HARD", "SOFT", "DRIFT"}
    <3>1. r = UNION {PeerCountRule(events), NodeLivenessRule(events),
                     OrphanRule(events), TunnelRule(events),
                     GhostDensityRule(events)}
      BY DEF DetectContradictions
    <3> HIDE DEF r
    <3>2. QED  BY <3>1, Findings
  <2> HIDE DEF r
  <2>2. QED  BY <2>1 DEF Severities
<1>2. Severities(r) = {} <=> r = {}
  <2> HIDE DEF r
  <2>1. QED  BY DEF Severities
<1> HIDE DEF r
<1>3. CiExitCode(r) = IF "HARD" \in Severities(r) THEN 3
                      ELSE IF "SOFT" \in Severities(r) THEN 2
                      ELSE IF r = {} THEN 0 ELSE 1
  <2>1. CASE "HARD" \in Severities(r)
    <3>1. Severities(r) # {"DRIFT"} /\ r # {}
      BY <1>2, <2>1
    <3>2. QED  BY <2>1, <3>1 DEF CiExitCode
  <2>2. CASE "HARD" \notin Severities(r) /\ "SOFT" \in Severities(r)
    <3>1. Severities(r) # {"DRIFT"} /\ r # {}
      BY <1>2, <2>2
    <3>2. QED  BY <2>2, <3>1 DEF CiExitCode
  <2>3. CASE "HARD" \notin Severities(r) /\ "SOFT" \notin Severities(r)
    <3>1. Severities(r) = {"DRIFT"} \/ Severities(r) = {}
      BY <1>1, <2>3
    <3>2. QED  BY <1>2, <2>3, <3>1 DEF CiExitCode
  <2>4. QED  BY <2>1, <2>2, <2>3
<1>4. QED  BY <1>2, <1>3 DEF Judgement, r

-----------------------------------------------------------------------------
(* The invariant of the jobs.                                              *)

JobsOK ==
    /\ plan \in Plans /\ job \in 1..Len(plan)
    /\ stage \in {"start", "reported", "judged"}
    /\ torn \in BOOLEAN /\ faults \in 0..MaxFaults

FilesOK ==
    /\ DOMAIN files = Tools
    /\ \A tool \in Tools : tool \notin plan[job] => files[tool] = Missing
    /\ ResultsOK(files)

\* A job enters its events after those of the jobs before it.
LedgerOK ==
    /\ ledger \in Seq(Event)
    /\ \A i \in 1..Len(ledger) :
          /\ ledger[i].logical_time = i
          /\ ledger[i].run_id <= job
          /\ stage # "judged" => ledger[i].run_id < job

\* A verdict is over what was in the ledger when it was given.
VerdictsOK ==
    /\ verdicts \in Seq([judged : BOOLEAN, exit_code : 0..3, upto : Nat])
    /\ Len(verdicts) = IF stage = "judged" THEN job ELSE job - 1
    /\ stage = "judged" => verdicts[job].upto = Len(ledger)
    /\ \A j \in 1..Len(verdicts) :
          /\ verdicts[j].upto <= Len(ledger)
          /\ verdicts[j].judged =>
                verdicts[j].exit_code =
                    Judgement(SubSeq(ledger, 1, verdicts[j].upto))

\* A job that is judged has entered all of its events, at one time, after those
\* of the jobs before it.
Read == IF Demo THEN RunDemo ELSE IngestResults(files)

EndsWith(events, read, run, n, t) ==
    /\ Len(events) = n + Len(read)
    /\ \A i \in 1..n : events[i].run_id < run
    /\ \A i \in 1..Len(read) :
          /\ events[n + i].key = read[i].key
          /\ events[n + i].value = read[i].value
          /\ events[n + i].node = read[i].node
          /\ events[n + i].run_id = run
          /\ events[n + i].timestamp = t

Current ==
    stage = "judged" /\ verdicts[job].judged =>
        \E n \in 0..Len(ledger), t \in Nat : EndsWith(ledger, Read, job, n, t)

PInv == JobsOK /\ FilesOK /\ LedgerOK /\ VerdictsOK /\ Current

\* The plans of histories are sequences of jobs.
LEMMA PlanTypes ==
    ASSUME JobsOK
    PROVE  /\ plan \in Seq((SUBSET Tools) \cup {{"demo"}})
           /\ Len(plan) \in Nat /\ job \in Nat /\ job >= 1
           /\ plan[job] \in (SUBSET Tools) \cup {{"demo"}}
<1>1. plan \in Seq((SUBSET Tools) \cup {{"demo"}})
  BY PipelineAssumption DEF JobsOK
<1>2. QED  BY <1>1 DEF JobsOK

\* What the inspectors report.
LEMMA OutputTypes ==
    ASSUME Types
    PROVE  /\ GhostOutput.ghost \in Nat
           /\ GhostOutput.ghost_peers \subseteq Peer
           /\ IsFiniteSet(GhostOutput.ghost_peers)
           /\ KeyspaceOutput.vless_count \in Value
           /\ KeyspaceOutput.hy2_count \in Value
           /\ KeyspaceOutput.tombstone_count \in Value
           /\ KeyspaceOutput.orphan_keys \in Nat
<1>1. Ghosts \subseteq Key /\ IsFiniteSet(Ghosts)
  <2>1. Ghosts \subseteq Key
    BY DEF Types, ScanState, Ghosts, WithStatus
  <2>2. QED  BY <2>1, FS_Subset, InspectorsAssumption
<1>2. /\ GhostOutput.ghost = Cardinality(Ghosts)
      /\ GhostOutput.ghost_peers = {k[1] : k \in Ghosts}
  BY DEF GhostOutput
<1>3. Cardinality(Ghosts) \in Nat
  BY <1>1, FS_CardinalityType
<1>4. {k[1] : k \in Ghosts} \subseteq Peer
  BY <1>1, InspectorsAssumption
<1>5. IsFiniteSet({k[1] : k \in Ghosts})
  <2> DEFINE f == [k \in Ghosts |-> k[1]]
  <2>1. IsFiniteSet({f[k] : k \in Ghosts})
    <3>1. DOMAIN f = Ghosts
      OBVIOUS
    <3> HIDE DEF f
    <3>2. QED  BY <1>1, <3>1, FiniteImage
  <2>2. {k[1] : k \in Ghosts} = {f[k] : k \in Ghosts}
    OBVIOUS
  <2>3. QED  BY <2>1, <2>2, Zenon
<1>6. \A S \in SUBSET Key : Cardinality(S) \in Nat
  BY FS_Subset, FS_CardinalityType, InspectorsAssumption
<1> DEFINE of(protocol) == {k \in Stored(dump.records) : k[2] = protocol}
<1>7. /\ of("vless") \in SUBSET Key /\ of("hysteria2") \in SUBSET Key
      /\ dump.orphans \in SUBSET Key /\ dump.graves \in SUBSET Peer
  BY DEF Types, DumpState, Stored
<1>8. /\ KeyspaceOutput.vless_count = Cardinality(of("vless"))
      /\ KeyspaceOutput.hy2_count = Cardinality(of("hysteria2"))
      /\ KeyspaceOutput.tombstone_count = Cardinality(dump.graves)
      /\ KeyspaceOutput.orphan_keys = Cardinality(dump.orphans)
  BY DEF KeyspaceOutput
<1> HIDE DEF of
<1>9. /\ Cardinality(of("vless")) \in Nat
      /\ Cardinality(of("hysteria2")) \in Nat
      /\ Cardinality(dump.orphans) \in Nat /\ Cardinality(dump.graves) \in Value
  BY <1>6, <1>7, Values
<1>10. QED  BY <1>2, <1>3, <1>4, <1>5, <1>8, <1>9, Values

\* What a job reads is what an adapter returns, whether a demo or not.
LEMMA ReadSays == FilesOK => Read \in Seq(Content)
BY IngestSays, DemoSays DEF FilesOK, Read

\* append adds to each event, and goes on counting.
LEMMA EnteredIs ==
    ASSUME ledger \in Seq(Event), job \in Nat, now \in Nat,
           NEW s \in Seq(Content)
    PROVE  /\ Entered(s) \in Seq(Event) /\ Len(Entered(s)) = Len(s)
           /\ \A i \in 1..Len(s) :
                 /\ Entered(s)[i].key = s[i].key
                 /\ Entered(s)[i].value = s[i].value
                 /\ Entered(s)[i].node = s[i].node
                 /\ Entered(s)[i].run_id = job
                 /\ Entered(s)[i].timestamp = now
                 /\ Entered(s)[i].logical_time = Len(ledger) + i
<1>1. /\ Len(s) \in Nat /\ Len(ledger) \in Nat
      /\ \A i \in 1..Len(s) : s[i] \in Content
  OBVIOUS
<1>2. ASSUME NEW e \in Content, NEW time \in Nat
      PROVE  /\ Stamped(e, time) \in Event
             /\ Stamped(e, time).key = e.key /\ Stamped(e, time).value = e.value
             /\ Stamped(e, time).node = e.node /\ Stamped(e, time).run_id = job
             /\ Stamped(e, time).timestamp = now
             /\ Stamped(e, time).logical_time = time
  BY DEF Stamped, Content, Event, Fact
<1>3. \A i \in 1..Len(s) : Len(ledger) + i \in Nat
  BY <1>1
<1>4. Entered(s) = [i \in 1..Len(s) |-> Stamped(s[i], Len(ledger) + i)]
  BY DEF Entered
<1>5. Entered(s) \in [1..Len(s) -> Event]
  BY <1>1, <1>2, <1>3, <1>4
<1>6. Entered(s) \in Seq(Event) /\ Len(Entered(s)) = Len(s)
  BY <1>1, <1>5
<1>7. QED  BY <1>1, <1>2, <1>3, <1>4, <1>6

\* What was read of a ledger stays as it is when events are appended.
LEMMA PrefixKept ==
    ASSUME NEW s \in Seq(Event), NEW x \in Seq(Event), NEW n \in 0..Len(s)
    PROVE  SubSeq(s \o x, 1, n) = SubSeq(s, 1, n)
<1>1. CASE n = 0
  BY <1>1, SubSeqEmpty
<1>2. CASE n # 0
  <2>1. 1 \in 1..Len(s) /\ n \in 1..Len(s)
    BY <1>2
  <2>2. QED  BY <2>1, SubSeqOfConcat1
<1>3. QED  BY <1>1, <1>2

\* The end of a job: with what it appended, its verdict keeps the ledger and the
\* verdicts as they should be.
LEMMA ExitStep ==
    ASSUME JobsOK, FilesOK, LedgerOK, VerdictsOK, stage = "reported",
           now \in Nat, NEW x \in Seq(Event), NEW judged \in BOOLEAN, NEW code,
           code = IF judged THEN Judgement(ledger') ELSE 1,
           ledger' = ledger \o x, Exit(judged, code),
           \A i \in 1..Len(x) : /\ x[i].logical_time = Len(ledger) + i
                                /\ x[i].run_id = job
    PROVE  /\ FilesOK' /\ LedgerOK' /\ VerdictsOK'
           /\ plan' = plan /\ job' = job /\ files' = files /\ now' = now
           /\ stage' = "judged" /\ verdicts'[job].judged = judged
           /\ Len(ledger') = Len(ledger) + Len(x)
           /\ \A i \in 1..Len(ledger) :
                 ledger'[i] = ledger[i] /\ ledger[i].run_id < job
           /\ \A i \in 1..Len(x) : ledger'[Len(ledger) + i] = x[i]
<1>1. /\ ledger \in Seq(Event) /\ Len(ledger) \in Nat /\ Len(x) \in Nat
      /\ job \in Nat /\ job >= 1
  BY PlanTypes DEF LedgerOK
<1>2. /\ plan' = plan /\ job' = job /\ files' = files /\ now' = now
      /\ stage' = "judged"
      /\ verdicts' = Append(verdicts, [judged |-> judged, exit_code |-> code,
                                       upto |-> Len(ledger')])
  BY DEF Exit, ivars, world
<1>3. FilesOK'
  BY <1>2 DEF FilesOK, ResultsOK
<1>4. /\ ledger' \in Seq(Event) /\ Len(ledger') = Len(ledger) + Len(x)
      /\ \A i \in 1..Len(ledger) + Len(x) :
            ledger'[i] = IF i <= Len(ledger) THEN ledger[i]
                         ELSE x[i - Len(ledger)]
  BY <1>1, ConcatProperties
<1>5. /\ \A i \in 1..Len(ledger) :
            ledger'[i] = ledger[i] /\ ledger[i].run_id < job
      /\ \A i \in 1..Len(x) : ledger'[Len(ledger) + i] = x[i]
  <2>1. \A i \in 1..Len(ledger) :
           ledger'[i] = ledger[i] /\ ledger[i].run_id < job
    BY <1>1, <1>4 DEF LedgerOK
  <2>2. ASSUME NEW i \in 1..Len(x) PROVE ledger'[Len(ledger) + i] = x[i]
    <3>1. /\ Len(ledger) + i \in 1..Len(ledger) + Len(x)
          /\ ~(Len(ledger) + i <= Len(ledger))
          /\ Len(ledger) + i - Len(ledger) = i
      BY <1>1
    <3>2. QED  BY <1>4, <3>1
  <2>3. QED  BY <2>1, <2>2
<1>6. LedgerOK'
  <2> SUFFICES ASSUME NEW i \in 1..Len(ledger')
               PROVE  ledger'[i].logical_time = i /\ ledger'[i].run_id <= job
    BY <1>2, <1>4 DEF LedgerOK
  <2>1. CASE i <= Len(ledger)
    <3>1. i \in 1..Len(ledger)
      BY <1>1, <1>4, <2>1
    <3>2. ledger[i].logical_time = i /\ ledger[i].run_id <= job
      BY <3>1 DEF LedgerOK
    <3>3. QED  BY <1>5, <3>1, <3>2
  <2>2. CASE ~(i <= Len(ledger))
    <3>1. PICK k \in 1..Len(x) : i = Len(ledger) + k
      <4>1. i - Len(ledger) \in 1..Len(x) /\ i = Len(ledger) + (i - Len(ledger))
        BY <1>1, <1>4, <2>2
      <4>2. QED  BY <4>1
    <3>2. ledger'[i] = x[k]
      BY <1>5, <3>1
    <3>3. x[k].logical_time = i /\ x[k].run_id = job
      BY <3>1
    <3>4. QED  BY <1>1, <3>2, <3>3
  <2>3. QED  BY <2>1, <2>2
<1> DEFINE v == [judged |-> judged, exit_code |-> code, upto |-> Len(ledger')]
           V == [judged : BOOLEAN, exit_code : 0..3, upto : Nat]
<1>7. /\ v \in V /\ v.judged = judged /\ v.upto = Len(ledger')
      /\ v.exit_code = code
  <2>1. code \in 0..3
    <3>1. Judgement(ledger') \in 0..3
      BY ExitCodes
    <3>2. QED  BY <3>1
  <2>2. Len(ledger') \in Nat
    BY <1>1, <1>4
  <2>3. QED  BY <2>1, <2>2
<1>8. verdicts \in Seq(V) /\ Len(verdicts) = job - 1
  BY DEF VerdictsOK
<1> HIDE DEF v, V
<1>9. /\ verdicts' \in Seq(V) /\ Len(verdicts') = job /\ verdicts'[job] = v
      /\ \A j \in 1..(job - 1) : verdicts'[j] = verdicts[j]
  <2>1. verdicts' = Append(verdicts, v)
    BY <1>2 DEF v
  <2>2. /\ verdicts' \in Seq(V) /\ Len(verdicts') = Len(verdicts) + 1
        /\ verdicts'[Len(verdicts) + 1] = v
        /\ \A j \in 1..Len(verdicts) : verdicts'[j] = verdicts[j]
    BY <1>7, <1>8, <2>1, AppendProperties
  <2>3. Len(verdicts) + 1 = job
    BY <1>1, <1>8
  <2>4. QED  BY <1>8, <2>2, <2>3
<1>10. ASSUME NEW j \in 1..job
       PROVE  /\ verdicts'[j].upto <= Len(ledger')
              /\ verdicts'[j].judged =>
                    verdicts'[j].exit_code =
                        Judgement(SubSeq(ledger', 1, verdicts'[j].upto))
  <2>1. CASE j = job
    <3>1. SubSeq(ledger', 1, Len(ledger')) = ledger'
      BY <1>4, SubSeqFull
    <3>2. verdicts'[j].upto <= Len(ledger')
      BY <1>1, <1>4, <1>7, <1>9, <2>1
    <3>3. QED  BY <1>7, <1>9, <2>1, <3>1, <3>2
  <2>2. CASE j # job
    <3>1. j \in 1..(job - 1) /\ verdicts'[j] = verdicts[j]
      BY <1>1, <1>9, <2>2
    <3>2. /\ verdicts[j].upto \in Nat /\ verdicts[j].upto <= Len(ledger)
          /\ verdicts[j].judged =>
                verdicts[j].exit_code =
                    Judgement(SubSeq(ledger, 1, verdicts[j].upto))
      <4>1. verdicts[j] \in V
        BY <1>8, <3>1
      <4>2. verdicts[j].upto \in Nat
        BY <4>1 DEF V
      <4>3. QED  BY <1>8, <3>1, <4>2 DEF VerdictsOK
    <3>3. verdicts[j].upto \in 0..Len(ledger)
      BY <1>1, <3>2
    <3>4. SubSeq(ledger', 1, verdicts[j].upto)
             = SubSeq(ledger, 1, verdicts[j].upto)
      BY <1>1, <3>3, PrefixKept
    <3>5. verdicts[j].upto <= Len(ledger')
      BY <1>1, <1>4, <3>2
    <3>6. QED  BY <3>1, <3>2, <3>4, <3>5
  <2>3. QED  BY <2>1, <2>2
<1>11. VerdictsOK'
  BY <1>2, <1>7, <1>9, <1>10 DEF VerdictsOK, V
<1>12. verdicts'[job].judged = judged
  BY <1>7, <1>9
<1>13. QED  BY <1>2, <1>3, <1>4, <1>5, <1>6, <1>11, <1>12

\* main ends well: all that was read is entered.
LEMMA JudgeStep ==
    ASSUME PInv, now \in Nat, Judge
    PROVE  PInv'
<1>1. /\ stage = "reported" /\ ledger' = ledger \o New /\ torn' = torn
      /\ faults' = faults
      /\ Exit(TRUE, CiExitCode(DetectContradictions(ledger')))
  BY DEF Judge
<1>2. job \in Nat /\ Len(ledger) \in Nat /\ ledger \in Seq(Event)
  BY PlanTypes DEF PInv, LedgerOK
<1>3. Read \in Seq(Content) /\ Len(Read) \in Nat /\ New = Entered(Read)
  BY ReadSays DEF PInv, New, Read
<1>4. /\ New \in Seq(Event) /\ Len(New) = Len(Read)
      /\ \A i \in 1..Len(Read) :
            /\ New[i].key = Read[i].key /\ New[i].value = Read[i].value
            /\ New[i].node = Read[i].node /\ New[i].run_id = job
            /\ New[i].timestamp = now
            /\ New[i].logical_time = Len(ledger) + i
  BY <1>2, <1>3, EnteredIs
<1>5. /\ FilesOK' /\ LedgerOK' /\ VerdictsOK'
      /\ plan' = plan /\ job' = job /\ files' = files /\ now' = now
      /\ stage' = "judged"
      /\ Len(ledger') = Len(ledger) + Len(New)
      /\ \A i \in 1..Len(ledger) :
            ledger'[i] = ledger[i] /\ ledger[i].run_id < job
      /\ \A i \in 1..Len(New) : ledger'[Len(ledger) + i] = New[i]
  <2> DEFINE code == CiExitCode(DetectContradictions(ledger'))
  <2>1. code = IF TRUE THEN Judgement(ledger') ELSE 1
    BY DEF Judgement
  <2> HIDE DEF code
  <2>2. QED  BY <1>1, <1>4, <2>1, ExitStep DEF PInv, code
<1>6. JobsOK'
  BY <1>1, <1>5 DEF PInv, JobsOK
<1>7. Read' = Read
  BY <1>5, Zenon DEF Read, Demo
<1>8. Current'
  <2>1. EndsWith(ledger', Read, job, Len(ledger), now)
    <3>1. Len(ledger') = Len(ledger) + Len(Read)
      BY <1>4, <1>5
    <3>2. \A i \in 1..Len(ledger) : ledger'[i].run_id < job
      BY <1>5
    <3>3. ASSUME NEW i \in 1..Len(Read)
          PROVE  /\ ledger'[Len(ledger) + i] = New[i]
                 /\ New[i].key = Read[i].key /\ New[i].value = Read[i].value
                 /\ New[i].node = Read[i].node /\ New[i].run_id = job
                 /\ New[i].timestamp = now
      BY <1>4, <1>5
    <3>4. QED  BY <3>1, <3>2, <3>3, Zenon DEF EndsWith
  <2>2. Len(ledger) \in 0..Len(ledger')
    BY <1>2, <1>3, <1>4, <1>5
  <2>3. QED  BY <1>5, <1>7, <2>1, <2>2 DEF Current
<1>9. QED  BY <1>5, <1>6, <1>8 DEF PInv

\* An append fails: the job has entered a part of what it read.
LEMMA AppendFailsStep ==
    ASSUME PInv, now \in Nat, AppendFails
    PROVE  PInv'
<1>1. /\ stage = "reported" /\ faults < MaxFaults /\ faults' = faults + 1
      /\ torn' \in BOOLEAN /\ Exit(FALSE, 1)
  BY DEF AppendFails
<1>2. PICK n \in FaultAt : n < Len(New) /\ ledger' = ledger \o SubSeq(New, 1, n)
  BY DEF AppendFails
<1>3. job \in Nat /\ Len(ledger) \in Nat /\ ledger \in Seq(Event)
  BY PlanTypes DEF PInv, LedgerOK
<1>4. Read \in Seq(Content) /\ Len(Read) \in Nat /\ New = Entered(Read)
  BY ReadSays DEF PInv, New, Read
<1>5. /\ New \in Seq(Event) /\ Len(New) = Len(Read)
      /\ \A i \in 1..Len(Read) : /\ New[i].run_id = job
                                 /\ New[i].logical_time = Len(ledger) + i
  BY <1>3, <1>4, EnteredIs
<1> DEFINE x == SubSeq(New, 1, n)
<1>6. /\ x \in Seq(Event)
      /\ \A i \in 1..Len(x) : /\ x[i].logical_time = Len(ledger) + i
                              /\ x[i].run_id = job
  <2>1. n \in Nat /\ n < Len(New) /\ Len(New) \in Nat
    BY <1>2, <1>4, <1>5, PipelineAssumption
  <2>2. \A i \in 1..n : New[i] \in Event /\ i \in 1..Len(Read)
    BY <1>5, <2>1
  <2>3. x \in Seq(Event) /\ Len(x) = n /\ \A i \in 1..n : x[i] = New[i]
    BY <2>1, <2>2, SubSeqProperties
  <2>4. QED  BY <1>5, <2>2, <2>3
<1>7. ledger' = ledger \o x
  BY <1>2
<1> HIDE DEF x
<1>8. /\ FilesOK' /\ LedgerOK' /\ VerdictsOK'
      /\ plan' = plan /\ job' = job /\ stage' = "judged"
      /\ verdicts'[job].judged = FALSE
  BY <1>1, <1>6, <1>7, ExitStep DEF PInv
<1>9. JobsOK'
  BY <1>1, <1>8, PipelineAssumption DEF PInv, JobsOK
<1>10. QED  BY <1>8, <1>9 DEF PInv, Current

\* The ledger cannot be opened: nothing is entered.
LEMMA CannotOpenStep ==
    ASSUME PInv, now \in Nat, CannotOpen
    PROVE  PInv'
<1>1. /\ stage = "reported" /\ ledger' = ledger /\ torn' = torn
      /\ faults' = faults /\ Exit(FALSE, 1)
  BY DEF CannotOpen
<1>2. ledger \in Seq(Event)
  BY DEF PInv, LedgerOK
<1> DEFINE x == <<>>
<1>3. x \in Seq(Event) /\ Len(x) = 0 /\ ledger' = ledger \o x
  BY <1>1, <1>2, EmptySeq, ConcatEmptySeq
<1> HIDE DEF x
<1>4. \A i \in 1..Len(x) : /\ x[i].logical_time = Len(ledger) + i
                           /\ x[i].run_id = job
  BY <1>3
<1>5. /\ FilesOK' /\ LedgerOK' /\ VerdictsOK'
      /\ plan' = plan /\ job' = job /\ stage' = "judged"
      /\ verdicts'[job].judged = FALSE
  BY <1>1, <1>3, <1>4, ExitStep DEF PInv
<1>6. JobsOK'
  BY <1>1, <1>5 DEF PInv, JobsOK
<1>7. QED  BY <1>5, <1>6 DEF PInv, Current

\* The tools of a job have reported.
LEMMA ReportStep ==
    ASSUME PInv, Types, Report
    PROVE  PInv'
<1>1. /\ stage = "start" /\ stage' = "reported"
      /\ plan' = plan /\ job' = job /\ ledger' = ledger /\ torn' = torn
      /\ faults' = faults /\ verdicts' = verdicts
  BY DEF Report
<1>2. PICK p \in PeerChecks, s \in SimResults, t \in TunnelResults,
           d \in BOOLEAN :
         files' = [tool \in Tools |->
                      IF tool \in plan[job]
                      THEN [bootstrap |-> BootstrapOutput(p[1], p[2], p[3]),
                            sim |-> s, ghost |-> GhostOutput,
                            keyspace |-> KeyspaceOutput, tunnel |-> t,
                            spec |-> [drift_detected |-> d]][tool]
                      ELSE Missing]
  BY Zenon DEF Report
<1>3. FilesOK'
  <2>1. /\ DOMAIN files' = Tools
        /\ \A tool \in Tools : tool \notin plan'[job'] => files'[tool] = Missing
    BY <1>1, <1>2
  <2>2. files'["bootstrap"] # Missing =>
           /\ files'["bootstrap"].reachable \in Nat
           /\ files'["bootstrap"].peers \in Seq({"ok", "refused"})
    <3> DEFINE out == BootstrapOutput(p[1], p[2], p[3])
               total == ResolvePeers(p[1], p[2]) + FetchFromCoordinator
               peers == [i \in 1..total |-> IF i <= p[3] THEN "ok"
                                           ELSE "refused"]
    <3>1. out.reachable = p[3] /\ out.peers = peers
      BY Zenon DEF BootstrapOutput
    <3>2. p[1] \in Nat /\ p[2] \in Nat /\ p[3] \in Nat
      BY PipelineAssumption
    <3>3. total \in Nat
      BY <3>2 DEF ResolvePeers, FetchFromCoordinator
    <3> HIDE DEF total
    <3>4. peers \in Seq({"ok", "refused"})
      BY <3>2, <3>3
    <3> HIDE DEF out, peers
    <3>5. out.reachable \in Nat /\ out.peers \in Seq({"ok", "refused"})
      BY <3>1, <3>2, <3>4
    <3>6. files'["bootstrap"] \in {out, Missing}
      BY <1>2 DEF Tools, out
    <3>7. QED  BY <3>5, <3>6
  <2>3. files'["sim"] \in {s, Missing} /\ files'["tunnel"] \in {t, Missing}
    BY <1>2 DEF Tools
  <2>4. /\ files'["ghost"] \in {GhostOutput, Missing}
        /\ files'["keyspace"] \in {KeyspaceOutput, Missing}
    BY <1>2 DEF Tools
  <2>5. files'["spec"] # Missing => files'["spec"].drift_detected \in BOOLEAN
    <3>1. files'["spec"] \in {[drift_detected |-> d], Missing}
      BY <1>2 DEF Tools
    <3>2. QED  BY <3>1
  <2>6. QED  BY <2>1, <2>2, <2>3, <2>4, <2>5, OutputTypes
             DEF FilesOK, ResultsOK
<1>4. QED
  BY <1>1, <1>3 DEF PInv, JobsOK, LedgerOK, VerdictsOK, Current

\* One job ends and the next begins.
LEMMA NextJobStep ==
    ASSUME PInv, NextJob
    PROVE  PInv'
<1>1. /\ stage = "judged" /\ job < Len(plan) /\ job' = job + 1
      /\ stage' = "start" /\ files' = NoFiles
      /\ plan' = plan /\ ledger' = ledger /\ torn' = torn
      /\ faults' = faults /\ verdicts' = verdicts
  BY DEF NextJob
<1>2. job \in Nat /\ Len(plan) \in Nat
  BY PlanTypes DEF PInv
<1>3. JobsOK'
  BY <1>1, <1>2 DEF PInv, JobsOK
<1>4. FilesOK'
  BY <1>1 DEF FilesOK, ResultsOK, NoFiles, Tools
<1>5. LedgerOK'
  <2>1. ASSUME NEW i \in 1..Len(ledger)
        PROVE  ledger[i].run_id < job + 1 /\ ledger[i].run_id <= job + 1
    <3>1. ledger[i].run_id <= job /\ ledger[i].run_id \in Nat
      BY DEF PInv, LedgerOK, Event
    <3>2. QED  BY <1>2, <3>1
  <2>2. QED  BY <1>1, <2>1 DEF PInv, LedgerOK
<1>6. VerdictsOK'
  BY <1>1, <1>2 DEF PInv, VerdictsOK
<1>7. QED  BY <1>1, <1>3, <1>4, <1>5, <1>6 DEF PInv, Current

\* The tools and the DHT do not touch the ledger.
LEMMA IdleStep ==
    ASSUME PInv, UNCHANGED pvars
    PROVE  PInv'
BY DEF PInv, pvars, JobsOK, FilesOK, ResultsOK, LedgerOK, VerdictsOK, Current,
       Read, Demo

\* The invariant holds at first.
LEMMA InitPInv == Init => PInv
<1> SUFFICES ASSUME Init PROVE PInv
  OBVIOUS
<1>1. /\ plan \in Plans /\ job = 1 /\ stage = "start" /\ files = NoFiles
      /\ ledger = <<>> /\ torn = FALSE /\ faults = 0 /\ verdicts = <<>>
  BY DEF Init
<1>2. JobsOK
  <2>1. /\ plan \in Seq((SUBSET Tools) \cup {{"demo"}}) /\ plan # <<>>
        /\ MaxFaults \in Nat
    BY <1>1, PipelineAssumption
  <2>2. Len(plan) \in Nat \ {0}
    BY <2>1, EmptySeq
  <2>3. torn \in BOOLEAN
    BY <1>1
  <2>4. job \in 1..Len(plan) /\ faults \in 0..MaxFaults
    BY <1>1, <2>1, <2>2
  <2>5. QED  BY <1>1, <2>3, <2>4 DEF JobsOK
<1>3. FilesOK
  BY <1>1 DEF FilesOK, ResultsOK, NoFiles, Tools
<1>4. LedgerOK
  BY <1>1, EmptySeq DEF LedgerOK
<1>5. VerdictsOK
  BY <1>1, EmptySeq DEF VerdictsOK
<1>6. QED  BY <1>1, <1>2, <1>3, <1>4, <1>5 DEF PInv, Current

\* What a verdict consists of.
LEMMA VerdictTypes ==
    ASSUME VerdictsOK, NEW j \in 1..Len(verdicts)
    PROVE  verdicts[j].exit_code \in 0..3 /\ verdicts[j].upto \in Nat
<1> DEFINE V == [judged : BOOLEAN, exit_code : 0..3, upto : Nat]
<1>1. verdicts \in Seq(V)
  BY DEF VerdictsOK
<1> HIDE DEF V
<1>2. verdicts[j] \in V
  BY <1>1, ElementOfSeq
<1>3. QED  BY <1>2 DEF V

\* Every behaviour of the jobs keeps the invariant.
LEMMA PipelineInvariance == Spec => []PInv
<1>1. IInv /\ PInv /\ [Next]_vars => PInv'
  <2> SUFFICES ASSUME IInv, PInv, [Next]_vars PROVE PInv'
    OBVIOUS
  <2>1. Types /\ now \in Nat
    BY DEF IInv, Types
  <2>2. CASE UNCHANGED vars \/ Detect \/ Inspect \/ Environment
    BY <2>2, IdleStep DEF vars, Detect, Inspect, Environment
  <2>3. QED
    BY <2>1, <2>2, JudgeStep, AppendFailsStep, CannotOpenStep, ReportStep,
       NextJobStep
    DEF Next
<1>2. QED  BY <1>1, InitPInv, InspectionInvariance, PTL DEF Spec

-----------------------------------------------------------------------------
(* The theorems about the jobs.                                            *)

\* The state stays within its types: every verdict is an exit code that
\* ciExitCode gives, and the ledger is numbered across the jobs.
THEOREM PipelineTypes == Spec => []TypeOK
<1>1. IInv /\ PInv => TypeOK
  <2> SUFFICES ASSUME IInv, PInv PROVE TypeOK
    OBVIOUS
  <2>1. /\ scan.stage \in {"idle", "record", "tombstone", "done"}
        /\ dump.stage \in {"idle", "dumped", "counted", "labelled", "done"}
    BY DEF IInv, Types, ScanState, DumpState
  <2>2. \A i \in 1..Len(verdicts) : verdicts[i].exit_code \in 0..3
    BY VerdictTypes DEF PInv
  <2>3. \A i \in 1..Len(ledger) : /\ ledger[i].logical_time = i
                                   /\ ledger[i].key \in CanonicalKeys
    <3>1. \A i \in 1..Len(ledger) : ledger[i] \in Event
      BY DEF PInv, LedgerOK
    <3>2. QED  BY <3>1 DEF PInv, LedgerOK, Event
  <2>4. Len(verdicts) \in {job - 1, job}
    BY DEF PInv, VerdictsOK
  <2>5. QED  BY <2>1, <2>2, <2>3, <2>4 DEF PInv, JobsOK, FilesOK, TypeOK
<1>2. QED  BY <1>1, InspectionInvariance, PipelineInvariance, PTL

\* Whatever is entered later, a replay up to the end of a job finds what the job
\* found: it is the ledger that the job judged.
THEOREM ReplaysReproduce == Spec => []ReplayReproduces
<1>1. PInv => ReplayReproduces
  <2> SUFFICES ASSUME PInv, NEW j \in 1..Len(verdicts), verdicts[j].judged,
                      verdicts[j].upto > 0
               PROVE  Judgement(ReplayAt(ledger,
                          ledger[verdicts[j].upto].logical_time))
                          = verdicts[j].exit_code
    BY DEF ReplayReproduces, Judgement
  <2> DEFINE u == verdicts[j].upto
  <2>1. u \in 1..Len(ledger) /\ ledger \in Seq(Event) /\ Len(ledger) \in Nat
    <3>1. u \in Nat /\ u <= Len(ledger)
      BY VerdictTypes DEF PInv, VerdictsOK
    <3>2. QED  BY <3>1 DEF PInv, LedgerOK
  <2>2. verdicts[j].exit_code = Judgement(SubSeq(ledger, 1, u))
    BY DEF PInv, VerdictsOK
  <2> HIDE DEF u
  <2>3. \A i \in 1..Len(ledger) : ledger[i].logical_time = i
    BY DEF PInv, LedgerOK
  <2>4. {i \in DOMAIN ledger : ledger[i].logical_time <= u} = 1..u
    BY <2>1, <2>3
  <2>5. ReplayAt(ledger, u) = SubSeq(ledger, 1, u)
    <3>1. SubSeq(ledger, 1, u) = Restrict(ledger, 1..u)
      BY <2>1, SubSeqRestrict
    <3>2. ReplayAt(ledger, u) = Restrict(ledger, 1..u)
      BY <2>4, Zenon DEF ReplayAt
    <3>3. QED  BY <3>1, <3>2
  <2>6. QED  BY <2>1, <2>2, <2>3, <2>5 DEF u
<1>2. QED  BY <1>1, PipelineInvariance, PTL

\* A job that has given its verdict has given it over the whole ledger, which
\* ends with what the job entered.
LEMMA JudgedFacts ==
    ASSUME PInv, NEW j \in JudgedNow
    PROVE  /\ j = job /\ verdicts[j].upto = Len(ledger)
           /\ EventsOf(j) = ledger
           /\ verdicts[j].exit_code = Judgement(ledger)
           /\ ledger \in Seq(Event) /\ Len(ledger) \in Nat
           /\ DOMAIN ledger = 1..Len(ledger)
           /\ Numbered(ledger, Len(ledger))
           /\ \E n \in 0..Len(ledger), t \in Nat :
                 EndsWith(ledger, Read, job, n, t)
<1>1. j = job /\ stage = "judged" /\ verdicts[job].judged
  BY DEF JudgedNow
<1>2. /\ ledger \in Seq(Event) /\ Len(ledger) \in Nat
      /\ DOMAIN ledger = 1..Len(ledger)
  BY DEF PInv, LedgerOK
<1>3. Numbered(ledger, Len(ledger))
  BY <1>2 DEF PInv, LedgerOK, Numbered
<1>4. verdicts[j].upto = Len(ledger)
  BY <1>1 DEF PInv, VerdictsOK
<1>5. EventsOf(j) = ledger
  BY <1>2, <1>4, SubSeqFull DEF EventsOf
<1>6. verdicts[j].exit_code = Judgement(ledger)
  <2>1. j \in 1..Len(verdicts) /\ verdicts[j].judged
    BY <1>1, PlanTypes DEF PInv, VerdictsOK
  <2>2. verdicts[j].exit_code = Judgement(SubSeq(ledger, 1, verdicts[j].upto))
    BY <2>1 DEF PInv, VerdictsOK
  <2>3. QED  BY <1>5, <2>2 DEF EventsOf
<1>7. QED  BY <1>1, <1>2, <1>3, <1>4, <1>5, <1>6 DEF PInv, Current

\* What the job has read is in the ledger from position n on, and nothing else.
LEMMA Recent ==
    ASSUME PInv, NEW n \in 0..Len(ledger), NEW t \in Nat,
           EndsWith(ledger, Read, job, n, t)
    PROVE  /\ n \in Nat /\ Len(ledger) \in Nat
           /\ \A e \in Range(Read) : \E i \in 1..Len(ledger) :
                 i > n /\ ledger[i].key = e.key /\ ledger[i].node = e.node
           /\ \A i \in 1..Len(ledger) : i > n =>
                 /\ ledger[i].run_id = job /\ ledger[i].timestamp = t
                 /\ \E e \in Range(Read) : /\ ledger[i].key = e.key
                                           /\ ledger[i].value = e.value
           /\ \A i \in 1..Len(ledger) : ledger[i].run_id = job <=> i > n
<1>1. /\ Read \in Seq(Content) /\ Len(Read) \in Nat
      /\ DOMAIN Read = 1..Len(Read)
  BY ReadSays DEF PInv
<1>2. n \in Nat /\ Len(ledger) \in Nat /\ Len(ledger) = n + Len(Read)
  BY <1>1 DEF EndsWith, PInv, LedgerOK
<1>3. ASSUME NEW k \in 1..Len(Read)
      PROVE  /\ n + k \in 1..Len(ledger) /\ n + k > n /\ Read[k] \in Range(Read)
             /\ ledger[n + k].key = Read[k].key
             /\ ledger[n + k].value = Read[k].value
             /\ ledger[n + k].node = Read[k].node
             /\ ledger[n + k].run_id = job /\ ledger[n + k].timestamp = t
  <2>1. n + k \in 1..Len(ledger) /\ n + k > n
    BY <1>1, <1>2
  <2>2. Read[k] \in Range(Read)
    BY <1>1 DEF Range
  <2>3. QED  BY <2>1, <2>2 DEF EndsWith
<1>4. ASSUME NEW e \in Range(Read)
      PROVE  \E i \in 1..Len(ledger) :
                i > n /\ ledger[i].key = e.key /\ ledger[i].node = e.node
  <2>1. PICK k \in 1..Len(Read) : e = Read[k]
    BY <1>1 DEF Range
  <2>2. QED  BY <1>3, <2>1
<1>5. ASSUME NEW i \in 1..Len(ledger), i > n
      PROVE  /\ ledger[i].run_id = job /\ ledger[i].timestamp = t
             /\ \E e \in Range(Read) : /\ ledger[i].key = e.key
                                       /\ ledger[i].value = e.value
  <2>1. PICK k \in 1..Len(Read) : i = n + k
    <3>1. i - n \in 1..Len(Read) /\ i = n + (i - n)
      BY <1>1, <1>2, <1>5
    <3>2. QED  BY <3>1
  <2>2. QED  BY <1>3, <2>1
<1>6. ASSUME NEW i \in 1..Len(ledger), ~(i > n)
      PROVE  ledger[i].run_id # job
  <2>1. i \in 1..n
    BY <1>2, <1>6
  <2>2. ledger[i].run_id < job /\ ledger[i].run_id \in Nat /\ job \in Nat
    BY <2>1, PlanTypes DEF EndsWith, PInv, LedgerOK, Event
  <2>3. QED  BY <2>2
<1>7. QED  BY <1>2, <1>4, <1>5, <1>6

\* Of a key that the job reports, the latest event is one that the job entered,
\* whether one looks at all jobs or at this one.
LEMMA FreshLatest ==
    ASSUME PInv, NEW j \in JudgedNow, NEW n \in 0..Len(ledger), NEW t \in Nat,
           EndsWith(ledger, Read, job, n, t),
           NEW e \in Range(Read)
    PROVE  LET mine == ReplayRun(ledger, job)
           IN  /\ Has(ledger, e.key) /\ Has(mine, e.key)
               /\ Latest(mine, e.key) = Latest(ledger, e.key)
               /\ Latest(ledger, e.key).timestamp = t
               /\ \E f \in Range(Read) :
                     /\ f.key = e.key
                     /\ Latest(ledger, e.key).value = f.value
<1> DEFINE mine == ReplayRun(ledger, job)
           key == e.key
<1>1. /\ n \in Nat /\ Len(ledger) \in Nat /\ DOMAIN ledger = 1..Len(ledger)
      /\ Numbered(ledger, Len(ledger))
  BY JudgedFacts, Recent
<1>2. PICK k \in 1..Len(ledger) : k > n /\ ledger[k].key = key
  BY Recent
<1>3. k \in OfKey(ledger, key)
  BY <1>1, <1>2 DEF OfKey
<1> HIDE DEF key
<1>4. /\ Has(ledger, key)
      /\ \E i \in OfKey(ledger, key) :
            /\ i > n /\ i \in DOMAIN ledger /\ ledger[i].key = key
            /\ \A l \in OfKey(ledger, key) : l <= i
            /\ Latest(ledger, key) = ledger[i]
  BY <1>1, <1>2, <1>3, LatestIsRecent
<1>5. PICK i \in OfKey(ledger, key) :
         /\ i > n /\ i \in DOMAIN ledger /\ ledger[i].key = key
         /\ \A l \in OfKey(ledger, key) : l <= i
         /\ Latest(ledger, key) = ledger[i]
  BY <1>4
<1>6. /\ DOMAIN mine = {l \in 1..Len(ledger) : ledger[l].run_id = job}
      /\ \A l \in DOMAIN mine : mine[l] = ledger[l]
  BY <1>1 DEF ReplayRun, Restrict
<1> HIDE DEF mine
<1>7. Numbered(mine, Len(ledger))
  BY <1>1, <1>6 DEF Numbered
<1>8. i \in OfKey(mine, key) /\ OfKey(mine, key) \subseteq OfKey(ledger, key)
  <2>1. ledger[i].run_id = job
    BY <1>1, <1>5, Recent
  <2>2. QED  BY <1>1, <1>5, <1>6, <2>1 DEF OfKey
<1>9. Has(mine, key) /\ Latest(mine, key) = mine[i]
  <2>1. OfKey(mine, key) \in SUBSET DOMAIN mine
    BY DEF OfKey
  <2>2. \A l \in OfKey(mine, key) : l <= i
    BY <1>5, <1>8
  <2>3. LastOf(mine, OfKey(mine, key)) = mine[i]
    BY <1>1, <1>7, <1>8, <2>1, <2>2, LastIs
  <2>4. QED  BY <1>8, <2>3 DEF Has, Latest
<1>10. mine[i] = ledger[i]
  BY <1>6, <1>8 DEF OfKey
<1>11. /\ ledger[i].timestamp = t
       /\ \E f \in Range(Read) : ledger[i].key = f.key
                                 /\ ledger[i].value = f.value
  BY <1>1, <1>5, Recent
<1>12. QED  BY <1>4, <1>5, <1>9, <1>10, <1>11 DEF key, mine

\* The findings by the names of their rules.
LEMMA RuleNames ==
    ASSUME NEW events
    PROVE  LET rules == Rules(DetectContradictions(events))
           IN  /\ rules \subseteq
                      {"dht-peer-count-consistency",
                       "keyspace-orphan-consistency",
                       "tunnel-vs-announce-consistency", "ghost-density"}
               /\ "dht-peer-count-consistency" \in rules <=>
                      PeerCountRule(events) # {}
               /\ "keyspace-orphan-consistency" \in rules <=>
                      OrphanRule(events) # {}
               /\ "tunnel-vs-announce-consistency" \in rules <=>
                      TunnelRule(events) # {}
               /\ "ghost-density" \in rules <=> GhostDensityRule(events) # {}
               /\ "HARD" \in Severities(DetectContradictions(events)) <=>
                      \E c \in PeerCountRule(events) \cup TunnelRule(events) :
                          c.severity = "HARD"
<1> DEFINE r == DetectContradictions(events)
           a == PeerCountRule(events)
           b == OrphanRule(events)
           c == TunnelRule(events)
           d == GhostDensityRule(events)
<1>1. r = a \cup b \cup c \cup d
  <2>1. r = UNION {a, NodeLivenessRule(events), b, c, d}
    BY DEF DetectContradictions
  <2>2. NodeLivenessRule(events) = {}
    BY Findings
  <2> HIDE DEF r, a, b, c, d
  <2>3. QED  BY <2>1, <2>2
<1>2. /\ \A f \in a : f.rule = "dht-peer-count-consistency"
      /\ \A f \in b : /\ f.rule = "keyspace-orphan-consistency"
                      /\ f.severity = "DRIFT"
      /\ \A f \in c : f.rule = "tunnel-vs-announce-consistency"
      /\ \A f \in d : f.rule = "ghost-density" /\ f.severity = "SOFT"
  BY Findings
<1> HIDE DEF r, a, b, c, d
<1>3. Rules(r) = {f.rule : f \in r} /\ Severities(r) = {f.severity : f \in r}
  BY DEF Rules, Severities
<1>4. /\ Rules(r) \subseteq
             {"dht-peer-count-consistency", "keyspace-orphan-consistency",
              "tunnel-vs-announce-consistency", "ghost-density"}
      /\ "dht-peer-count-consistency" \in Rules(r) <=> a # {}
      /\ "keyspace-orphan-consistency" \in Rules(r) <=> b # {}
      /\ "tunnel-vs-announce-consistency" \in Rules(r) <=> c # {}
      /\ "ghost-density" \in Rules(r) <=> d # {}
  BY <1>1, <1>2, <1>3
<1>5. "HARD" \in Severities(r) <=> \E f \in a \cup c : f.severity = "HARD"
  BY <1>1, <1>2, <1>3
<1>6. QED  BY <1>4, <1>5 DEF r, a, b, c, d

\* A job that has a result is no demo.
LEMMA NoDemo ==
    ASSUME PInv, NEW tool \in Tools, files[tool] # Missing
    PROVE  ~Demo /\ Read = IngestResults(files)
<1>1. tool \in plan[job]
  BY DEF PInv, FilesOK
<1>2. tool # "demo"
  BY DEF Tools
<1>3. ~Demo
  BY <1>1, <1>2 DEF Demo
<1>4. QED  BY <1>3 DEF Read

\* Old reports do not count against a job that reports the peers, the
\* simulation and the tunnel anew, and its own are not hidden by them.
THEOREM HardFindingsAreFresh == Spec => []HardIsFresh
<1>1. PInv => HardIsFresh
  <2> SUFFICES ASSUME PInv, NEW j \in JudgedNow,
                      \A tool \in {"bootstrap", "sim", "tunnel"} :
                          files[tool] # Missing
               PROVE  (verdicts[j].exit_code = 3) <=>
                      (Judgement(ReplayRun(ledger, j)) = 3)
    BY DEF HardIsFresh, Judgement
  <2>1. j = job /\ verdicts[j].exit_code = Judgement(ledger)
    BY JudgedFacts
  <2>2. PICK n \in 0..Len(ledger), t \in Nat :
           EndsWith(ledger, Read, job, n, t)
    BY JudgedFacts
  <2> DEFINE mine == ReplayRun(ledger, job)
             same(key) == /\ Has(ledger, key) /\ Has(mine, key)
                          /\ Latest(mine, key) = Latest(ledger, key)
  <2>3. \A e \in Range(Read) : same(e.key)
    BY <2>2, FreshLatest
  <2>4. /\ \E e \in Range(Read) : e.key = "dht.peer.count.bootstrap"
        /\ \E e \in Range(Read) : e.key = "dht.peer.count.sim"
        /\ \E e \in Range(Read) : e.key = "dht.announced"
        /\ \E e \in Range(Read) : e.key = "tunnel.status"
    <3>1. Read = IngestResults(files)
      BY NoDemo DEF Tools
    <3>2. ResultsOK(files)
      BY DEF PInv, FilesOK
    <3>3. QED  BY <3>1, <3>2, IngestSays
  <2> HIDE DEF mine, same
  <2>5. /\ same("dht.peer.count.bootstrap") /\ same("dht.peer.count.sim")
        /\ same("dht.announced") /\ same("tunnel.status")
    BY <2>3, <2>4
  <2>6. PeerCountRule(mine) = PeerCountRule(ledger)
    BY <2>5, Zenon DEF same, PeerCountRule
  <2>7. TunnelRule(mine) = TunnelRule(ledger)
    BY <2>5, Zenon DEF same, TunnelRule, ValueOf
  <2>8. Judgement(ledger) = 3 <=>
           \E c \in PeerCountRule(ledger) \cup TunnelRule(ledger) :
               c.severity = "HARD"
    BY ExitCodes, RuleNames
  <2>9. Judgement(mine) = 3 <=>
           \E c \in PeerCountRule(mine) \cup TunnelRule(mine) :
               c.severity = "HARD"
    BY ExitCodes, RuleNames
  <2>10. Judgement(ledger) = 3 <=> Judgement(mine) = 3
    BY <2>6, <2>7, <2>8, <2>9
  <2>11. QED  BY <2>1, <2>10 DEF mine
<1>2. QED  BY <1>1, PipelineInvariance, PTL

\* What the latest event of a key says is of the key's type.
LEMMA LatestFact ==
    ASSUME PInv, NEW key, Has(ledger, key)
    PROVE  \E i \in 1..Len(ledger) :
              /\ ledger[i].key = key /\ Latest(ledger, key) = ledger[i]
              /\ ledger[i] \in Event /\ Fact(ledger[i])
<1>1. /\ ledger \in Seq(Event) /\ Len(ledger) \in Nat
      /\ DOMAIN ledger = 1..Len(ledger) /\ Numbered(ledger, Len(ledger))
  BY DEF PInv, LedgerOK, Numbered
<1>2. PICK i \in DOMAIN ledger : /\ ledger[i].key = key
                                 /\ Latest(ledger, key) = ledger[i]
  BY <1>1, LatestIsOne
<1>3. ledger[i] \in Event
  BY <1>1, <1>2
<1>4. Fact(ledger[i])
  BY <1>3 DEF Event
<1>5. QED  BY <1>1, <1>2, <1>3, <1>4

\* A demo fails for nothing but that some job found no peer a short time before.
THEOREM DemosAreClean == Spec => []DemoClean
<1>1. ASSUME PInv PROVE DemoClean
  <2>0. \A k \in JudgedNow : EventsOf(k) = ledger
    BY <1>1, JudgedFacts
  <2> SUFFICES ASSUME PInv, NEW j \in JudgedNow, Demo,
                      verdicts[j].exit_code # 0
               PROVE  LET b == Latest(ledger, "dht.peer.count.bootstrap")
                      IN  /\ Rules(DetectContradictions(ledger))
                                 = {"dht-peer-count-consistency"}
                          /\ Has(ledger, "dht.peer.count.bootstrap")
                          /\ b.value = 0
                          /\ ledger[verdicts[j].upto].timestamp - b.timestamp
                                 < SoftSkew
    BY <1>1, <2>0, Zenon DEF DemoClean
  <2>1. /\ verdicts[j].exit_code = Judgement(ledger)
        /\ verdicts[j].upto = Len(ledger) /\ Len(ledger) \in Nat
        /\ ledger \in Seq(Event)
    BY JudgedFacts
  <2>2. PICK n \in 0..Len(ledger), t \in Nat :
           EndsWith(ledger, Read, job, n, t)
    BY JudgedFacts
  <2>3. Read = RunDemo
    BY DEF Read
  <2> DEFINE b == Latest(ledger, "dht.peer.count.bootstrap")
             s == Latest(ledger, "dht.peer.count.sim")
             has(key) == Has(ledger, key)
             value(key) == ValueOf(ledger, key)
  <2>4. ASSUME NEW e \in Range(Read)
        PROVE  /\ has(e.key) /\ Latest(ledger, e.key).timestamp = t
               /\ \E f \in Range(Read) : f.key = e.key
                                         /\ value(e.key) = f.value
    BY <2>2, FreshLatest DEF ValueOf
  <2>5. /\ has("tunnel.status") /\ value("tunnel.status") = "ready"
        /\ has("keyspace.orphan.keys") /\ value("keyspace.orphan.keys") = 0
        /\ has("ghost.count") /\ value("ghost.count") = 0
        /\ s.timestamp = t
    <3> HIDE DEF has, value, s
    <3>1. \A e, f \in Range(Read) :
             /\ (f.key = e.key /\ e.key = "tunnel.status") => f.value = "ready"
             /\ (f.key = e.key
                 /\ e.key \in {"keyspace.orphan.keys", "ghost.count"}) =>
                    f.value = 0
      BY <2>3, DemoSays
    <3>2. PICK e \in Range(Read) : e.key = "tunnel.status"
      BY <2>3, DemoSays
    <3>3. has("tunnel.status") /\ value("tunnel.status") = "ready"
      BY <2>4, <3>1, <3>2
    <3>4. PICK f \in Range(Read) : f.key = "keyspace.orphan.keys"
      BY <2>3, DemoSays
    <3>5. has("keyspace.orphan.keys") /\ value("keyspace.orphan.keys") = 0
      BY <2>4, <3>1, <3>4
    <3>6. PICK g \in Range(Read) : g.key = "ghost.count"
      BY <2>3, DemoSays
    <3>7. has("ghost.count") /\ value("ghost.count") = 0
      BY <2>4, <3>1, <3>6
    <3>8. PICK h \in Range(Read) : h.key = "dht.peer.count.sim"
      BY <2>3, DemoSays
    <3>9. s.timestamp = t
      BY <2>4, <3>8 DEF s
    <3>10. QED  BY <3>3, <3>5, <3>7, <3>9
  <2>6. OrphanRule(ledger) = {} /\ TunnelRule(ledger) = {}
    <3>1. ~(value("keyspace.orphan.keys") > 0)
          /\ value("tunnel.status") # "failed"
      BY <2>5
    <3>2. QED  BY <3>1, Zenon DEF OrphanRule, TunnelRule
  <2>7. GhostDensityRule(ledger) = {}
    <3>1. has("dht.peer.count") => value("dht.peer.count") \in Nat
      BY LatestFact DEF Fact, ValueOf
    <3>2. has("dht.peer.count") =>
             ~(2 * value("ghost.count") > value("dht.peer.count"))
      <4> HIDE DEF has, value
      <4>1. QED  BY <2>5, <3>1
    <3>3. QED  BY <3>2, Zenon DEF GhostDensityRule
  <2>8. PeerCountRule(ledger) # {}
    <3>1. DetectContradictions(ledger) # {}
      BY <2>1, ExitCodes
    <3>2. \E c \in DetectContradictions(ledger) :
             c.rule \in Rules(DetectContradictions(ledger))
      BY <3>1 DEF Rules
    <3>3. QED  BY <2>6, <2>7, <3>2, RuleNames
  <2>9. Rules(DetectContradictions(ledger)) = {"dht-peer-count-consistency"}
    <3> DEFINE rules == Rules(DetectContradictions(ledger))
    <3>1. /\ rules \subseteq
                {"dht-peer-count-consistency", "keyspace-orphan-consistency",
                 "tunnel-vs-announce-consistency", "ghost-density"}
          /\ "dht-peer-count-consistency" \in rules
          /\ "keyspace-orphan-consistency" \notin rules
          /\ "tunnel-vs-announce-consistency" \notin rules
          /\ "ghost-density" \notin rules
      BY <2>6, <2>7, <2>8, RuleNames
    <3> HIDE DEF rules
    <3>2. rules = {"dht-peer-count-consistency"}
      BY <3>1
    <3>3. QED  BY <3>2 DEF rules
  <2>10. /\ has("dht.peer.count.bootstrap") /\ b.value = 0
         /\ Skew(b, s) < SoftSkew
    BY <2>8, Zenon DEF PeerCountRule
  <2>11. ledger[Len(ledger)].timestamp = t
    <3>1. \E i \in 1..Len(ledger) : i > n
      BY <2>2, <2>3, DemoSays, Recent
    <3>2. Len(ledger) \in 1..Len(ledger) /\ Len(ledger) > n
      BY <2>1, <3>1
    <3>3. QED  BY <2>2, <3>2, Recent
  <2>12. b.timestamp \in Nat
    BY <2>10, LatestFact DEF Event
  <2>13. t - b.timestamp < SoftSkew
    <3>1. Skew(b, s) = IF b.timestamp > t THEN b.timestamp - t
                       ELSE t - b.timestamp
      BY <2>5, Zenon DEF Skew
    <3> DEFINE time == b.timestamp
               skew == Skew(b, s)
    <3>2. time \in Nat /\ skew < SoftSkew
          /\ skew = IF time > t THEN time - t ELSE t - time
      BY <2>10, <2>12, <3>1
    <3> HIDE DEF time, skew
    <3>3. t - time < SoftSkew
      BY <3>2, SkewAssumption
    <3>4. QED  BY <3>3 DEF time
  <2>14. QED  BY <2>1, <2>9, <2>10, <2>11, <2>13
<1>2. QED  BY <1>1, PipelineInvariance, PTL
===============================================================================
