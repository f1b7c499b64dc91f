----------------------------- MODULE ListingProofs -----------------------------
(***************************************************************************)
(* Listings are regular reads of every key: for any number of requests in  *)
(* flight, ids, networks and endpoints, with either store, and whatever is *)
(* written, deleted or lost between the calls of a listing.                *)
(***************************************************************************)
EXTENDS CoordinatorListing, CoordinatorProofs

\* What slot r may say now.
Sound(r) == req[r].step = "scan" => req[r].result \subseteq watch[r].may
Complete(r) ==
    req[r].step = "scan" =>
        \A k \in watch[r].must :
            \/ k \in req[r].todo
            \/ \E kv \in req[r].result : kv[1] = k
            \/ \E kv \in watch[r].may :
                  kv[1] = k /\ ~Shown(req[r].msg.op, kv[1], kv[2])

ListInv == Inv /\ ListSound /\ ListComplete

\* The keys of a set of pairs.
KeysOf(S) == {kv[1] : kv \in S}

-----------------------------------------------------------------------------

\* What the observer notes of slot r in a step.
LEMMA Watched ==
    ASSUME LNext, NEW r \in Req
    PROVE  LET live == LiveValues(req[r].msg)'
           IN  /\ req'[r].step = "scan" /\ req[r].step = "scan" =>
                      /\ watch'[r].may = watch[r].may \cup live
                      /\ watch'[r].must = watch[r].must \cap KeysOf(live)
               /\ req'[r].step = "scan" /\ req[r].step # "scan" =>
                      watch'[r].may = live /\ watch'[r].must = KeysOf(live)
BY DEF LNext, Watch, KeysOf

\* What is live of a family is not swept.
LEMMA SweptLive ==
    ASSUME now \in Int, now' = now, NEW K, NEW f \in [K -> Entry \cup {Absent}],
           NEW L, NEW k \in K, Live(f[k])
    PROVE  Swept(f, L)[k] = f[k]
BY DEF Swept, Live

\* A slot that scans before and after a step of others keeps its promise.
LEMMA OthersKeep ==
    ASSUME ListInv, LNext, NEW r \in Req, req'[r] = req[r]
    PROVE  Sound(r)' /\ Complete(r)'
<1> SUFFICES ASSUME req[r].step = "scan" PROVE Sound(r)' /\ Complete(r)'
  BY DEF Sound, Complete
<1>1. /\ watch[r].may \subseteq watch'[r].may
      /\ watch'[r].must \subseteq watch[r].must
  BY Watched
<1>2. Sound(r) /\ Complete(r)
  BY DEF ListInv, ListSound, ListComplete, Sound, Complete
<1>3. Sound(r)'
  BY <1>1, <1>2 DEF Sound
<1>4. ASSUME NEW k \in watch'[r].must
      PROVE  \/ k \in req'[r].todo
             \/ \E kv \in req'[r].result : kv[1] = k
             \/ \E kv \in watch'[r].may :
                   kv[1] = k /\ ~Shown(req'[r].msg.op, kv[1], kv[2])
  BY <1>1, <1>2 DEF Complete
<1>5. Complete(r)'
  BY <1>4 DEF Complete, Shown
<1> QED
  BY <1>3, <1>5

\* Reading a key keeps it: what is live has been watched, and what has been
\* watched all the while is live.
LEMMA ReadKeeps ==
    ASSUME ListInv, LNext, NEW r \in Req, ListRead(r)
    PROVE  Sound(r)' /\ Complete(r)'
<1> DEFINE op == req[r].msg.op
           e(k) == IF op \in ProxyListing THEN proxies[k] ELSE records[k]
           live == LiveValues(req[r].msg)'
<1>1. Inv /\ now \in Int /\ now' = now /\ req[r].step = "scan"
  BY DEF ListInv, Inv, TypeOK, ListRead
<1>2. PICK k \in req[r].todo :
        /\ req' = [req EXCEPT ![r] = Scanning(req[r].msg, req[r].todo \ {k},
                                   req[r].result \cup Listed(op, k, e(k)))]
        /\ IF op \in ProxyListing
           THEN proxies' = Swept(proxies, {k}) /\ UNCHANGED records
           ELSE records' = Swept(records, {k}) /\ UNCHANGED proxies
  BY DEF ListRead, Becomes
<1>3. /\ req'[r].step = "scan" /\ req'[r].msg = req[r].msg
      /\ req'[r].todo = req[r].todo \ {k}
      /\ req'[r].result = req[r].result \cup Listed(op, k, e(k))
  BY <1>1, <1>2 DEF Scanning, Inv, TypeOK
<1>4. \/ op \in ProxyListing /\ op # "meshStatus" /\ op # "sub" /\ k \in Id
      \/ op = "meshStatus" /\ op \notin ProxyListing /\ k \in MeshKey
  BY <1>1, <1>2 DEF Inv, HandlersOK, HandlerOK, ProxyListing
<1>5. /\ watch'[r].may = watch[r].may \cup live
      /\ watch'[r].must = watch[r].must \cap KeysOf(live)
  BY <1>1, <1>3, Watched
<1>6. /\ Live(e(k)) => <<k, e(k).value>> \in live
      /\ k \in KeysOf(live) => Live(e(k))
  <2>1. CASE op \in ProxyListing
    <3>1. k \in Id /\ proxies' = Swept(proxies, {k}) /\ e(k) = proxies[k]
      BY <1>2, <1>4, <2>1
    <3>2. live = {<<i, proxies'[i].value>> :
                     i \in {j \in Id : Live(proxies[j])'}}
      BY <1>3, <1>4, <2>1 DEF LiveValues
    <3>3. Live(proxies[k]) => proxies'[k] = proxies[k] /\ Live(proxies[k])'
      BY <1>1, <3>1, SweptLive DEF Inv, TypeOK, Live, Expired
    <3>4. proxies'[k] \in {proxies[k], Absent}
      BY <1>1, <3>1, RemoveType DEF Inv, TypeOK
    <3>5. Live(proxies[k])' => Live(proxies[k])
      BY <1>1, <3>4 DEF Live, Expired
    <3> QED
      BY <3>1, <3>2, <3>3, <3>5 DEF KeysOf
  <2>2. CASE op \notin ProxyListing
    <3>1. /\ k \in MeshKey /\ records' = Swept(records, {k})
          /\ e(k) = records[k] /\ op = "meshStatus"
      BY <1>2, <1>4, <2>2
    <3>2. live = {<<i, records'[i].value>> :
                     i \in {j \in MeshKey : Live(records[j])'}}
      BY <1>3, <3>1 DEF LiveValues
    <3>3. Live(records[k]) => records'[k] = records[k] /\ Live(records[k])'
      BY <1>1, <3>1, SweptLive DEF Inv, TypeOK, Live, Expired
    <3>4. records'[k] \in {records[k], Absent}
      BY <1>1, <3>1, RemoveType DEF Inv, TypeOK
    <3>5. Live(records[k])' => Live(records[k])
      BY <1>1, <3>4 DEF Live, Expired
    <3> QED
      BY <3>1, <3>2, <3>3, <3>5 DEF KeysOf
  <2> QED
    BY <2>1, <2>2
<1>7. Sound(r) /\ Complete(r)
  BY DEF ListInv, ListSound, ListComplete, Sound, Complete
<1> HIDE DEF op, e, live
<1>8. Listed(op, k, e(k)) \subseteq live
  BY <1>6 DEF Listed
<1>9. Sound(r)'
  BY <1>1, <1>3, <1>5, <1>7, <1>8 DEF Sound
<1>10. ASSUME NEW j \in watch'[r].must
       PROVE  \/ j \in req'[r].todo
              \/ \E kv \in req'[r].result : kv[1] = j
              \/ \E kv \in watch'[r].may : kv[1] = j /\ ~Shown(op, kv[1], kv[2])
  <2>1. CASE j = k
    <3>1. Live(e(k)) /\ <<k, e(k).value>> \in live
      BY <1>5, <1>6, <1>10, <2>1
    <3>2. CASE Shown(op, k, e(k).value)
      <4>1. <<k, e(k).value>> \in req'[r].result
        BY <1>3, <3>1, <3>2 DEF Listed
      <4> QED
        BY <2>1, <4>1
    <3>3. CASE ~Shown(op, k, e(k).value)
      <4>1. <<k, e(k).value>> \in watch'[r].may
        BY <1>5, <3>1
      <4>2. ~Shown(op, <<k, e(k).value>>[1], <<k, e(k).value>>[2])
        BY <3>3
      <4> QED
        BY <2>1, <4>1, <4>2
    <3> QED
      BY <3>2, <3>3
  <2>2. CASE j # k
    <3>1. /\ j \in watch[r].must /\ watch[r].may \subseteq watch'[r].may
          /\ req[r].result \subseteq req'[r].result
      BY <1>3, <1>5, <1>10
    <3>2. j \in req[r].todo => j \in req'[r].todo
      BY <1>3, <2>2
    <3> QED
      BY <1>1, <1>7, <3>1, <3>2 DEF Complete, op
  <2> QED
    BY <2>1, <2>2
<1>11. req'[r].msg.op = op
  BY <1>3 DEF op
<1>12. Complete(r)'
  BY <1>10, <1>11 DEF Complete, Shown
<1> QED
  BY <1>9, <1>12

\* A listing begins with the keys that are live, and a subscription with the
\* one entry it asks for.
LEMMA StartKeeps ==
    ASSUME ListInv, LNext, NEW r \in Req, ListKeys(r) \/ SubRead(r)
    PROVE  Sound(r)' /\ Complete(r)'
<1> DEFINE m == req[r].msg
           live == LiveValues(req[r].msg)'
<1> SUFFICES ASSUME req'[r].step = "scan" PROVE Sound(r)' /\ Complete(r)'
  BY DEF Sound, Complete
<1>1. /\ Inv /\ now \in Int /\ now' = now /\ req[r].step = "recv"
      /\ m \in Request
  BY DEF ListInv, Inv, TypeOK, ListKeys, SubRead, At, HandlersOK, HandlerOK
<1>2. watch'[r].may = live /\ watch'[r].must = KeysOf(live)
  BY <1>1, Watched
<1>3. CASE ListKeys(r)
  <2>1. /\ req'[r] = Scanning(m, IF m.op \in ProxyListing THEN LiveKeys(proxies)
                                 ELSE LiveKeys(records), {})
        /\ proxies' = Swept(proxies, Id) /\ records' = Swept(records, MeshKey)
        /\ m.op \in Listing
    BY <1>1, <1>3 DEF ListKeys, Becomes, Inv, TypeOK
  <2>2. /\ req'[r].result = {} /\ req'[r].msg = m
        /\ req'[r].todo = IF m.op \in ProxyListing THEN LiveKeys(proxies)
                          ELSE LiveKeys(records)
    BY <2>1 DEF Scanning
  <2>3. \A k \in Id : Live(proxies[k])' => Live(proxies[k])
    BY <1>1, <2>1, RemoveType DEF Inv, TypeOK, Live, Expired
  <2>4. \A k \in MeshKey : Live(records[k])' => Live(records[k])
    BY <1>1, <2>1, RemoveType DEF Inv, TypeOK, Live, Expired
  <2>5. KeysOf(live) \subseteq req'[r].todo
    <3>1. DOMAIN proxies = Id /\ DOMAIN records = MeshKey
      BY <1>1 DEF Inv, TypeOK
    <3>2. CASE m.op \in ProxyListing
      <4>1. m.op # "meshStatus"
        BY <3>2 DEF ProxyListing
      <4> QED
        BY <2>2, <2>3, <3>1, <3>2, <4>1 DEF KeysOf, LiveValues, LiveKeys
    <3>3. CASE m.op \notin ProxyListing
      <4>1. m.op = "meshStatus"
        BY <2>1, <3>3 DEF Listing
      <4> QED
        BY <2>2, <2>4, <3>1, <3>3, <4>1 DEF KeysOf, LiveValues, LiveKeys
    <3> QED
      BY <3>2, <3>3
  <2> QED
    BY <1>2, <2>2, <2>5 DEF Sound, Complete
<1>4. CASE SubRead(r)
  <2>1. m.op = "sub" /\ m.check = "ok" /\ m.id \in Id
    BY <1>1, <1>4, RequestFields DEF SubRead, At
  <2>2. PICK i \in Id : i = m.id
    BY <2>1
  <2>3. Live(proxies[i])
    BY <1>1, <1>4, <2>2 DEF SubRead, Reply, Becomes, Closed, Inv, TypeOK
  <2>4. /\ req'[r] = Scanning(m, {}, Listed("sub", i, proxies[i]))
        /\ proxies' = Swept(proxies, {i})
    BY <1>1, <1>4, <2>2, <2>3 DEF SubRead, Becomes, Inv, TypeOK
  <2>5. req'[r].msg = m /\ req'[r].result = Listed("sub", i, proxies[i])
    BY <2>4 DEF Scanning
  <2>6. proxies \in [Id -> Entry \cup {Absent}]
    BY <1>1 DEF Inv, TypeOK
  <2>7. proxies'[i] = proxies[i]
    BY <1>1, <2>3, <2>4, <2>6, SweptLive
  <2>8. Live(proxies[i])'
    BY <1>1, <2>3, <2>7 DEF Live, Expired
  <2>9. live = {<<j, proxies'[j].value>> :
                   j \in {k \in Id : Live(proxies[k])' /\ k = i}}
    BY <2>1, <2>2, <2>5 DEF LiveValues
  <2>10. live = {<<i, proxies[i].value>>} /\ KeysOf(live) = {i}
    <3> HIDE DEF live
    <3>1. {k \in Id : Live(proxies[k])' /\ k = i} = {i}
      BY <2>8
    <3>2. live = {<<i, proxies[i].value>>}
      BY <2>7, <2>9, <3>1
    <3> QED
      BY <3>2 DEF KeysOf
  <2>11. req'[r].msg.op = "sub"
    BY <2>1, <2>5
  <2> HIDE DEF live, m
  <2>12. CASE Shown("sub", i, proxies[i].value)
    <3>1. req'[r].result = {<<i, proxies[i].value>>}
      BY <2>3, <2>5, <2>12 DEF Listed
    <3>2. /\ watch'[r].may = {<<i, proxies[i].value>>}
          /\ watch'[r].must = {i}
      BY <1>2, <2>10
    <3>3. <<i, proxies[i].value>>[1] = i
      OBVIOUS
    <3>4. \A k \in watch'[r].must : \E kv \in req'[r].result : kv[1] = k
      BY <3>1, <3>2, <3>3
    <3> QED
      BY <3>1, <3>2, <3>4 DEF Sound, Complete
  <2>13. CASE ~Shown("sub", i, proxies[i].value)
    <3>1. req'[r].result = {}
      BY <2>5, <2>13 DEF Listed
    <3>2. /\ watch'[r].may = {<<i, proxies[i].value>>}
          /\ watch'[r].must = {i}
      BY <1>2, <2>10
    <3>3. ~Shown("sub", <<i, proxies[i].value>>[1], <<i, proxies[i].value>>[2])
      BY <2>13
    <3>4. Complete(r)'
      BY <2>11, <3>2, <3>3 DEF Complete, Shown
    <3> QED
      BY <3>1, <3>4 DEF Sound
  <2> QED
    BY <2>12, <2>13
<1> QED
  BY <1>3, <1>4

-----------------------------------------------------------------------------

\* Every step keeps the promise of every slot.
LEMMA ListNext == ASSUME ListInv, LNext PROVE ListInv'
<1>1. Inv'
  BY NextInv DEF ListInv, LNext
<1>2. ASSUME NEW r \in Req, req'[r].step = "scan", req'[r] # req[r]
      PROVE  ListKeys(r) \/ SubRead(r) \/ ListRead(r)
  <2>1. req \in [Req -> Handler] /\ Inv /\ Next
    BY DEF ListInv, Inv, TypeOK, LNext
  <2>2. /\ \A s : Closed(s).step # "scan"
        /\ \A m, s, v, t : Running(m, s, v, t).step = s
    BY DEF Closed, Running
  <2>3. ~Restart /\ ~Tick
    BY <1>2, <2>2 DEF Restart, Tick
  <2>4. PICK q \in Req : (\E m \in Sent : Send(q, m)) \/ Handle(q) \/ Fail(q)
    BY <2>1, <2>3 DEF Next
  <2>5. \A h : Becomes(q, h) => q = r /\ h = req'[r]
    BY <1>2, <2>1 DEF Becomes
  <2>6. \A s : ~Reply(q, s)
    BY <1>2, <2>2, <2>5 DEF Reply
  <2>7. \A m, s, v, t : s # "scan" => ~Becomes(q, Running(m, s, v, t))
    BY <1>2, <2>2, <2>5
  <2>8. ~(\E m \in Sent : Send(q, m)) /\ ~Fail(q) /\ ~Reject(q)
    BY <2>6, <2>7 DEF Send, Fail, Reject
  <2>9. /\ ~Register(q) /\ ~HeartbeatRead(q) /\ ~HeartbeatWrite(q)
        /\ ~Delete(q) /\ ~MeshRegister(q) /\ ~MeshHeartbeatRead(q)
    BY <2>6, <2>7 DEF Register, HeartbeatRead, HeartbeatWrite, Delete,
                      MeshRegister, MeshHeartbeatRead
  <2>10. /\ ~MeshHeartbeatWrite(q) /\ ~MeshHeartbeatReadProxy(q)
         /\ ~MeshHeartbeatWriteProxy(q) /\ ~DeregisterMesh(q)
         /\ ~DeregisterProxy(q) /\ ~ListReply(q)
    BY <2>6, <2>7 DEF MeshHeartbeatWrite, MeshHeartbeatReadProxy,
                      MeshHeartbeatWriteProxy, DeregisterMesh, DeregisterProxy,
                      ListReply
  <2>11. ListKeys(q) \/ SubRead(q) \/ ListRead(q)
    BY <2>4, <2>8, <2>9, <2>10 DEF Handle
  <2>12. \E h : Becomes(q, h)
    <3>1. CASE ListKeys(q)
      BY <3>1 DEF ListKeys
    <3>2. CASE SubRead(q)
      BY <3>2 DEF SubRead, Reply
    <3>3. CASE ListRead(q)
      BY <3>3 DEF ListRead
    <3> QED
      BY <2>11, <3>1, <3>2, <3>3
  <2> QED
    BY <2>5, <2>11, <2>12
<1>3. ASSUME NEW r \in Req PROVE Sound(r)' /\ Complete(r)'
  <2>1. CASE req'[r].step # "scan"
    BY <2>1 DEF Sound, Complete
  <2>2. CASE req'[r] = req[r]
    BY <2>2, OthersKeep
  <2>3. CASE req'[r].step = "scan" /\ req'[r] # req[r]
    BY <1>2, <2>3, ReadKeeps, StartKeeps
  <2> QED
    BY <2>1, <2>2, <2>3
<1> QED
  BY <1>1, <1>3 DEF ListInv, ListSound, ListComplete, Sound, Complete, Shown

\* No listing is under way at the start.
LEMMA ListInit == LInit => ListInv
<1> SUFFICES ASSUME LInit PROVE ListInv
  OBVIOUS
<1>1. \A r \in Req : req[r].step # "scan"
  BY DEF LInit, Init, Closed
<1> QED
  BY <1>1, InitInv DEF LInit, ListInv, ListSound, ListComplete

\* The invariant of the listings holds throughout.
THEOREM Listings == LSpec => []ListInv
<1>1. ListInv /\ UNCHANGED lvars => ListInv'
  <2> SUFFICES ASSUME ListInv, UNCHANGED lvars PROVE ListInv'
    OBVIOUS
  <2>1. Inv'
    BY NextInv DEF ListInv, lvars, vars
  <2> QED
    BY <2>1 DEF ListInv, lvars, ListSound, ListComplete, Shown
<1> QED
  BY <1>1, ListInit, ListNext, PTL DEF LSpec

\* A listing never returns a value that was not live at some moment while it ran
\* (index.ts:454-472).
THEOREM ListingsSound == LSpec => []ListSound
<1>1. ListInv => ListSound
  BY DEF ListInv
<1> QED
  BY <1>1, Listings, PTL

\* A listing has every key that was live all the while and is not hidden
\* (index.ts:454-472).
THEOREM ListingsComplete == LSpec => []ListComplete
<1>1. ListInv => ListComplete
  BY DEF ListInv
<1> QED
  BY <1>1, Listings, PTL
=============================================================================
