----------------------------- MODULE HistoryProofs -----------------------------
(***************************************************************************)
(* What the coordinator serves, related to what its clients did, and the   *)
(* registry of leases that it implements: for any number of requests, ids, *)
(* networks, endpoints and expiries, with either store, failures and       *)
(* restarts.                                                               *)
(***************************************************************************)
EXTENDS CoordinatorHistory, CoordinatorProofs

\* The handler in slot r holds a value that it will write back for i.
Holds(r, i) == /\ req[r].step \in {"renew", "renewProxy"}
               /\ req[r].msg.id = i

\* Which value is held, and for whom.
HeldFresh ==
    \A r \in Req : req[r].step \in {"renew", "renewProxy"} =>
        /\ req[r].msg.id \in Id
        /\ req[r].msg.id \notin raced => req[r].held = latest[req[r].msg.id]

HistInv == Inv /\ ServedWasRegistered /\ LatestWins /\ HeldFresh

\* An entry that is written is that of the registration or of a heartbeat; one
\* that a removal is answered for is gone.
StoreStep ==
    \A i \in Id :
        /\ RegistersNow(i) => /\ proxies'[i] # Absent
                              /\ proxies'[i].value = Registered(i)
        /\ RemovesNow(i) => proxies'[i] = Absent
        /\ ~RegistersNow(i) =>
              \/ proxies'[i] \in {proxies[i], Absent}
              \/ /\ ~RemovesNow(i)
                 /\ \E r \in Req : /\ Holds(r, i)
                                   /\ proxies'[i].value = req[r].held

\* A value that is held was held before, or has been read in a step that does
\* nothing else.
HolderStep ==
    \A r \in Req : req'[r].step \in {"renew", "renewProxy"} =>
        \/ /\ req[r].step \in {"renew", "renewProxy"}
           /\ req'[r].held = req[r].held /\ req'[r].msg = req[r].msg
        \/ /\ req'[r].msg.id \in Id
           /\ Live(proxies[req'[r].msg.id])
           /\ req'[r].held = proxies[req'[r].msg.id].value
           /\ ~RegistersNow(req'[r].msg.id) /\ ~RemovesNow(req'[r].msg.id)

Observed == StoreStep /\ HolderStep /\ now' \in Int /\ now' >= now

-----------------------------------------------------------------------------
(* What one slot does.                                                     *)

\* Only the slot that moves answers.
LEMMA OneSlot ==
    ASSUME req \in [Req -> Handler], NEW r \in Req, NEW h, Becomes(r, h)
    PROVE  /\ req'[r] = h
           /\ \A q \in Req \ {r} : req'[q] = req[q]
           /\ \A q \in Req, op \in Operation : Answers(q, op) => q = r
BY DEF Becomes, Answers

\* A step that answers no registration and no removal, and removes entries at
\* most, with a handler that holds nothing or what it has just read.
LEMMA PlainStep ==
    ASSUME Inv, NEW r \in Req, NEW h, Becomes(r, h), now' = now,
           \A op \in {"register", "delete", "meshDeregister"} : ~Answers(r, op),
           \A i \in Id : proxies'[i] \in {proxies[i], Absent},
           h.step \in {"renew", "renewProxy"} =>
               /\ h.msg.id \in Id /\ Live(proxies[h.msg.id])
               /\ h.held = proxies[h.msg.id].value
    PROVE  Observed
<1>1. /\ req'[r] = h
      /\ \A q \in Req \ {r} : req'[q] = req[q]
      /\ \A q \in Req, op \in Operation : Answers(q, op) => q = r
  BY OneSlot DEF Inv, TypeOK
<1>2. \A i : ~RegistersNow(i) /\ ~RemovesNow(i)
  BY <1>1 DEF RegistersNow, RemovesNow, Operation
<1>3. StoreStep
  BY <1>2 DEF StoreStep
<1>4. HolderStep
  BY <1>1, <1>2 DEF HolderStep
<1> QED
  BY <1>3, <1>4 DEF Observed, Inv, TypeOK

\* A heartbeat writes back what it holds.
LEMMA RenewStep ==
    ASSUME Inv, NEW r \in Req, NEW s \in Status, Reply(r, s), now' = now,
           NEW i \in Id, Holds(r, i), NEW ttl,
           req[r].msg.op \in {"heartbeat", "meshHeartbeat"},
           proxies' = Put(proxies, i, req[r].held, ttl)
    PROVE  Observed
<1>1. /\ req'[r] = Closed(s)
      /\ \A q \in Req \ {r} : req'[q] = req[q]
      /\ \A q \in Req, op \in Operation : Answers(q, op) => q = r
  BY OneSlot DEF Inv, TypeOK, Reply
<1>2. \A j : ~RegistersNow(j) /\ ~RemovesNow(j)
  BY <1>1 DEF RegistersNow, RemovesNow, Operation, Answers
<1>3. /\ proxies'[i].value = req[r].held
      /\ \A j \in Id \ {i} : proxies'[j] = proxies[j]
  BY DEF Put, Stored, Inv, TypeOK
<1>4. StoreStep
  BY <1>2, <1>3 DEF StoreStep
<1>5. Closed(s).step = "idle"
  BY DEF Closed
<1>6. HolderStep
  BY <1>1, <1>5 DEF HolderStep
<1> QED
  BY <1>4, <1>6 DEF Observed, Inv, TypeOK

\* A removal that is answered has removed the entry.
LEMMA RemoveStep ==
    ASSUME Inv, NEW r \in Req, Reply(r, 200), now' = now,
           req[r].step # "idle", req[r].msg.id \in Id,
           req[r].msg.op \in {"delete", "meshDeregister"},
           proxies' = Without(proxies, req[r].msg.id)
    PROVE  Observed
<1>1. /\ req'[r] = Closed(200)
      /\ \A q \in Req \ {r} : req'[q] = req[q]
      /\ \A q \in Req, op \in Operation : Answers(q, op) => q = r
  BY OneSlot DEF Inv, TypeOK, Reply
<1>2. \A j : ~RegistersNow(j)
  BY <1>1 DEF RegistersNow, Operation, Answers
<1>3. \A j : RemovesNow(j) => j = req[r].msg.id
  BY <1>1 DEF RemovesNow, Operation
<1>4. /\ proxies'[req[r].msg.id] = Absent
      /\ \A j \in Id \ {req[r].msg.id} : proxies'[j] = proxies[j]
  BY DEF Without, Inv, TypeOK
<1>5. StoreStep
  BY <1>2, <1>3, <1>4 DEF StoreStep
<1>6. Closed(200).step = "idle"
  BY DEF Closed
<1>7. HolderStep
  BY <1>1, <1>6 DEF HolderStep
<1> QED
  BY <1>5, <1>7 DEF Observed, Inv, TypeOK

\* A registration that is answered has written its entry.
LEMMA RegisterObserved ==
    ASSUME Inv, NEW r \in Req, Register(r) PROVE Observed
<1> DEFINE m == req[r].msg
           v == [endpoint |-> m.endpoint, expiresAt |-> m.expiresAt]
<1>1. m \in Request /\ m.op = "register" /\ m.check = "ok"
  BY DEF Register, At, Inv, HandlersOK, HandlerOK
<1>2. m.id \in Id /\ v \in Value
  BY <1>1, RequestFields DEF Value, ClientExpiry
<1>3. /\ req'[r] = Closed(200)
      /\ \A q \in Req \ {r} : req'[q] = req[q]
      /\ \A q \in Req, op \in Operation : Answers(q, op) => q = r
  BY OneSlot DEF Inv, TypeOK, Reply, Register
<1>4. Closed(200).step = "idle" /\ Closed(200).status = 200
  BY DEF Closed
<1>5. Answers(r, "register")
  BY <1>1, <1>3, <1>4 DEF Answers, Register, At
<1>6. \A j : RegistersNow(j) => j = m.id
  BY <1>3 DEF RegistersNow, Operation
<1>7. \A j : ~RemovesNow(j)
  BY <1>1, <1>3 DEF RemovesNow, Operation, Answers
<1>8. Registered(m.id) = v
  <2>1. \E q \in Req : Answers(q, "register") /\ req[q].msg.id = m.id
    BY <1>5
  <2>2. \A q \in Req : Answers(q, "register") => q = r
    BY <1>3 DEF Operation
  <2>3. (CHOOSE q \in Req : Answers(q, "register") /\ req[q].msg.id = m.id) = r
    BY <2>1, <2>2
  <2> QED
    BY <2>3 DEF Registered
<1>9. /\ proxies'[m.id] = Stored(v, RegisterTTL(m.expiresAt))
      /\ \A j \in Id \ {m.id} : proxies'[j] = proxies[j]
  BY <1>2 DEF Register, Put, Inv, TypeOK
<1>10. proxies'[m.id].value = v /\ proxies'[m.id] # Absent
  <2>1. RegisterTTL(m.expiresAt) \in Int
    BY <1>1, RequestFields, TTLs, ShortLease DEF Inv, TypeOK
  <2>2. Stored(v, RegisterTTL(m.expiresAt)) \in Entry
    BY <1>2, <2>1 DEF Stored, Entry, Inv, TypeOK
  <2> QED
    BY <1>9, <2>2, AbsentAssumption DEF Stored
<1>11. StoreStep
  <2>1. \A i \in Id : RegistersNow(i) =>
            proxies'[i] # Absent /\ proxies'[i].value = Registered(i)
    BY <1>6, <1>8, <1>10
  <2>2. \A i \in Id : ~RegistersNow(i) => proxies'[i] = proxies[i]
    <3>1. RegistersNow(m.id)
      BY <1>5 DEF RegistersNow
    <3> QED
      BY <1>9, <3>1
  <2> QED
    BY <1>7, <2>1, <2>2 DEF StoreStep
<1>12. HolderStep
  BY <1>3, <1>4 DEF HolderStep
<1> QED
  BY <1>11, <1>12 DEF Observed, Inv, TypeOK, Register

-----------------------------------------------------------------------------
(* All the steps.                                                          *)

\* Reading, sweeping and expiry change nothing but by removing it.
LEMMA NoMore ==
    ASSUME Inv, NEW L, NEW t
    PROVE  /\ \A i \in Id : Swept(proxies, L)[i] \in {proxies[i], Absent}
           /\ \A i \in Id : Dropped(proxies, t)[i] \in {proxies[i], Absent}
BY RemoveType DEF Inv, TypeOK

\* Each step of a handler is of one of these kinds.
LEMMA HandleObserved ==
    ASSUME Inv, NEW r \in Req,
           (\E m \in Sent : Send(r, m)) \/ Handle(r) \/ Fail(r)
    PROVE  Observed
<1> DEFINE id == req[r].msg.id
<1>a. /\ req[r].step # "idle" /\ req[r].msg.check = "ok"
      /\ req[r].msg.op \in {"heartbeat", "delete", "sub", "meshHeartbeat",
                            "meshDeregister"}
      => id \in Id
  BY RequestFields DEF Inv, HandlersOK, HandlerOK
<1>b. \A s \in Status : Closed(s).step = "idle" /\ Closed(s).status = s
  BY DEF Closed
<1>c. \A m, s, v, t : /\ Running(m, s, v, t).step = s
                      /\ Running(m, s, v, t).msg = m
                      /\ Running(m, s, v, t).held = v
  BY DEF Running
<1>d. \A m, K, L : Scanning(m, K, L).step = "scan"
  BY DEF Scanning
<1>e. \A h : Becomes(r, h) => req'[r] = h
  BY OneSlot DEF Inv, TypeOK
<1>f. \A L : \A i \in Id : Swept(proxies, L)[i] \in {proxies[i], Absent}
  BY NoMore
<1>g. \A op : Answers(r, op) => /\ req[r].step # "idle" /\ req[r].msg.op = op
                                /\ req'[r].step = "idle"
                                /\ req'[r].status = 200
  BY DEF Answers
<1>1. CASE \E m \in Sent : Send(r, m)
  <2>1. PICK m \in Sent : Send(r, m)
    BY <1>1
  <2> DEFINE h == Running(m, "recv", Absent, 0)
  <2>2. Becomes(r, h) /\ UNCHANGED <<now, proxies>> /\ req[r].step = "idle"
    BY <2>1 DEF Send, store
  <2>3. h.step = "recv"
    BY <1>c
  <2> HIDE DEF h
  <2> QED
    BY <1>g, <2>2, <2>3, PlainStep
<1>2. CASE Reject(r) \/ MeshRegister(r) \/ Fail(r)
  <2>1. PICK s \in Status \ {200} : Becomes(r, Closed(s))
    BY <1>2 DEF Reject, MeshRegister, Fail, Reply, Status
  <2>2. UNCHANGED <<now, proxies>>
    BY <1>2 DEF Reject, MeshRegister, Fail, store
  <2>3. req'[r].status # 200 /\ Closed(s).step = "idle"
    BY <1>b, <1>e, <2>1
  <2> QED
    BY <1>g, <2>1, <2>2, <2>3, PlainStep
<1>3. CASE Register(r)
  BY <1>3, RegisterObserved
<1>4. CASE HeartbeatRead(r)
  <2>1. /\ id \in Id /\ now' = now /\ req[r].msg.op = "heartbeat"
        /\ \A i \in Id : proxies'[i] \in {proxies[i], Absent}
    BY <1>4, <1>a, <1>f DEF HeartbeatRead, At
  <2>2. CASE Live(proxies[id])
    <3> DEFINE h == Running(req[r].msg, "renew", Got(proxies[id]), 0)
    <3>1. Becomes(r, h) /\ Got(proxies[id]) = proxies[id].value
      BY <1>4, <2>2 DEF HeartbeatRead, Got
    <3>2. h.held = proxies[id].value /\ h.msg = req[r].msg
      BY <1>c, <3>1
    <3> HIDE DEF h
    <3> QED
      BY <1>g, <2>1, <2>2, <3>1, <3>2, PlainStep
  <2>3. CASE ~Live(proxies[id])
    <3>1. Becomes(r, Closed(404))
      BY <1>4, <2>3 DEF HeartbeatRead, Reply
    <3>2. Closed(404).step = "idle"
      BY <1>b DEF Status
    <3> QED
      BY <1>g, <2>1, <3>1, <3>2, PlainStep
  <2> QED
    BY <2>2, <2>3
<1>5. CASE HeartbeatWrite(r)
  BY <1>5, <1>a, RenewStep DEF HeartbeatWrite, At, Holds, Status
<1>6. CASE Delete(r)
  BY <1>6, <1>a, RemoveStep DEF Delete, At
<1>7. CASE SubRead(r)
  <2>1. /\ now' = now /\ req[r].msg.op = "sub"
        /\ \A i \in Id : proxies'[i] \in {proxies[i], Absent}
    BY <1>7, <1>f DEF SubRead, At
  <2>2. PICK h : Becomes(r, h) /\ h.step \in {"scan", "idle"}
    BY <1>7, <1>b, <1>d DEF SubRead, Reply, Status
  <2> QED
    BY <1>g, <2>1, <2>2, PlainStep
<1>8. CASE MeshHeartbeatRead(r) \/ MeshHeartbeatWrite(r) \/ DeregisterMesh(r)
  <2>1. UNCHANGED <<now, proxies>> /\ req[r].msg.op # "register"
    BY <1>8 DEF MeshHeartbeatRead, MeshHeartbeatWrite, DeregisterMesh, At
  <2>2. PICK h : /\ Becomes(r, h)
                 /\ \/ h.step \in {"renewMesh", "readProxy", "dropProxy"}
                    \/ h.step = "idle" /\ req[r].msg.op = "meshHeartbeat"
    BY <1>8, <1>b, <1>c
       DEF MeshHeartbeatRead, MeshHeartbeatWrite, DeregisterMesh, Reply,
           Status, At
  <2>3. h.step \notin {"renew", "renewProxy"}
    BY <2>2
  <2>4. \A op \in {"register", "delete", "meshDeregister"} : ~Answers(r, op)
    BY <1>e, <1>g, <2>2
  <2> QED
    BY <2>1, <2>2, <2>3, <2>4, PlainStep
<1>9. CASE MeshHeartbeatReadProxy(r)
  <2>1. /\ id \in Id /\ now' = now /\ req[r].msg.op = "meshHeartbeat"
        /\ \A i \in Id : proxies'[i] \in {proxies[i], Absent}
    BY <1>9, <1>a, <1>f DEF MeshHeartbeatReadProxy, At
  <2>2. CASE Live(proxies[id])
    <3> DEFINE h == Running(req[r].msg, "renewProxy", Got(proxies[id]),
                            req[r].ttl)
    <3>1. Becomes(r, h) /\ Got(proxies[id]) = proxies[id].value
      BY <1>9, <2>2 DEF MeshHeartbeatReadProxy, Got
    <3>2. h.held = proxies[id].value /\ h.msg = req[r].msg
      BY <1>c, <3>1
    <3> HIDE DEF h
    <3> QED
      BY <1>g, <2>1, <2>2, <3>1, <3>2, PlainStep
  <2>3. CASE ~Live(proxies[id])
    <3>1. Becomes(r, Closed(200))
      BY <1>9, <2>3 DEF MeshHeartbeatReadProxy, Reply
    <3>2. Closed(200).step = "idle"
      BY <1>b DEF Status
    <3> QED
      BY <1>g, <2>1, <3>1, <3>2, PlainStep
  <2> QED
    BY <2>2, <2>3
<1>10. CASE MeshHeartbeatWriteProxy(r)
  BY <1>10, <1>a, RenewStep DEF MeshHeartbeatWriteProxy, At, Holds, Status
<1>11. CASE DeregisterProxy(r)
  BY <1>11, <1>a, RemoveStep DEF DeregisterProxy, At
<1>12. CASE ListKeys(r) \/ ListRead(r)
  <2>1. now' = now /\ \A i \in Id : proxies'[i] \in {proxies[i], Absent}
    BY <1>12, <1>f DEF ListKeys, ListRead
  <2>2. PICK h : Becomes(r, h) /\ h.step = "scan"
    <3>1. \E m, K, L : Becomes(r, Scanning(m, K, L))
      <4>1. CASE ListKeys(r)
        BY <4>1 DEF ListKeys
      <4>2. CASE ListRead(r)
        BY <4>2 DEF ListRead
      <4> QED
        BY <1>12, <4>1, <4>2
    <3> QED
      BY <3>1, <1>d
  <2> QED
    BY <1>e, <1>g, <2>1, <2>2, PlainStep
<1>13. CASE ListReply(r)
  <2>1. req[r].msg.op \notin {"register", "delete", "meshDeregister"}
    BY <1>13 DEF ListReply, Inv, HandlersOK, HandlerOK, ProxyListing
  <2>2. /\ Becomes(r, Closed(200)) /\ UNCHANGED <<now, proxies>>
        /\ Closed(200).step = "idle"
    BY <1>13, <1>b DEF ListReply, Reply, Status, store
  <2> QED
    BY <1>g, <2>1, <2>2, PlainStep
<1> QED
  BY <1>1, <1>2, <1>3, <1>4, <1>5, <1>6, <1>7, <1>8, <1>9, <1>10, <1>11,
     <1>12, <1>13 DEF Handle

\* So is every step of the coordinator.
LEMMA NextObserved == ASSUME Inv, Next PROVE Observed
<1>1. CASE \E r \in Req : \/ \E m \in Sent : Send(r, m)
                          \/ Handle(r)
                          \/ Fail(r)
  BY <1>1, HandleObserved
<1>2. CASE Restart
  <2>1. \A r \in Req : \/ req'[r] = req[r] /\ req[r].step = "idle"
                       \/ req'[r].step = "idle" /\ req'[r].status = 0
    BY <1>2 DEF Restart, Closed
  <2>2. \A i : ~RegistersNow(i) /\ ~RemovesNow(i)
    BY <2>1 DEF RegistersNow, RemovesNow, Answers
  <2>3. \A i \in Id : proxies'[i] \in {proxies[i], Absent}
    BY <1>2 DEF Restart, store
  <2> QED
    BY <1>2, <2>1, <2>2, <2>3
       DEF Observed, StoreStep, HolderStep, Restart, Inv, TypeOK
<1>3. CASE Tick
  <2>1. \A i : ~RegistersNow(i) /\ ~RemovesNow(i)
    BY <1>3 DEF RegistersNow, RemovesNow, Answers, Tick
  <2>2. \A i \in Id : proxies'[i] \in {proxies[i], Absent}
    BY <1>3, NoMore DEF Tick
  <2>3. now' \in Int /\ now' >= now
    BY <1>3 DEF Tick, Inv, TypeOK
  <2> QED
    BY <1>3, <2>1, <2>2, <2>3 DEF Observed, StoreStep, HolderStep, Tick
<1> QED
  BY <1>1, <1>2, <1>3 DEF Next

-----------------------------------------------------------------------------
(* The invariant.                                                          *)

\* What a namespace holds when the Worker starts was registered before.
LEMMA HistInit == HInit => HistInv
<1> SUFFICES ASSUME HInit PROVE HistInv
  OBVIOUS
<1>1. Inv
  BY InitInv DEF HInit
<1>2. \A r \in Req : req[r].step = "idle"
  BY DEF HInit, Init, Closed
<1>3. ASSUME NEW i \in Id, proxies[i] # Absent
      PROVE  proxies[i].value = latest[i] /\ latest[i] \in known[i]
  <2>1. proxies[i].value \in Value
    BY <1>1, <1>3 DEF Inv, TypeOK, Entry
  <2> QED
    BY <1>3, <2>1, AbsentAssumption DEF HInit
<1>4. ServedWasRegistered /\ HeldFresh
  BY <1>2, <1>3 DEF ServedWasRegistered, HeldFresh
<1>5. LatestWins
  BY <1>3 DEF LatestWins, Live
<1> QED
  BY <1>1, <1>4, <1>5 DEF HistInv

\* A step that a history observes.
LEMMA HistNext == ASSUME HistInv, HNext PROVE HistInv'
<1>1. Inv /\ Inv' /\ Observed
  BY NextInv, NextObserved DEF HistInv, HNext
<1>2. /\ StoreStep /\ HolderStep /\ ServedWasRegistered /\ LatestWins
      /\ HeldFresh /\ now \in Int /\ now' \in Int /\ now' >= now
  BY <1>1 DEF Observed, HistInv, Inv, TypeOK
<1>3. \A i \in Id :
        /\ RegistersNow(i) => latest'[i] = Registered(i)
        /\ ~RegistersNow(i) /\ ~RemovesNow(i) => latest'[i] = latest[i]
        /\ known'[i] = known[i] \cup ({latest'[i]} \ {Absent})
        /\ i \notin raced' => IF RegistersNow(i) \/ RemovesNow(i)
                             THEN \A r \in Req : ~Holds(r, i)
                             ELSE i \notin raced
  BY DEF HNext, Observe, HeldByOthers, Holds
<1>4. ASSUME NEW i \in Id, proxies'[i] # Absent PROVE proxies'[i].value # Absent
  <2>1. proxies'[i] \in Entry
    BY <1>1, <1>4 DEF Inv, TypeOK
  <2> QED
    BY <2>1, AbsentAssumption DEF Entry
<1>5. ASSUME NEW i \in Id, Live(proxies[i])', proxies'[i] = proxies[i]
      PROVE  Live(proxies[i])
  <2>1. proxies[i] # Absent /\ proxies[i] \in Entry
    BY <1>1, <1>5 DEF Live, Inv, TypeOK
  <2>2. proxies[i].expires \in Int
    BY <2>1 DEF Entry
  <2> QED
    BY <1>2, <1>5, <2>1, <2>2 DEF Live, Expired
<1>6. ServedWasRegistered'
  <2>1. ASSUME NEW i \in Id, proxies'[i] # Absent
        PROVE  proxies'[i].value \in known'[i]
    <3>1. CASE RegistersNow(i)
      BY <1>2, <1>3, <1>4, <2>1, <3>1 DEF StoreStep
    <3>2. CASE ~RegistersNow(i)
      <4>1. proxies'[i].value \in known[i]
        BY <1>2, <2>1, <3>2 DEF StoreStep, ServedWasRegistered, Holds
      <4> QED
        BY <1>3, <4>1
    <3> QED
      BY <3>1, <3>2
  <2>2. ASSUME NEW r \in Req, req'[r].step \in {"renew", "renewProxy"}
        PROVE  req'[r].held \in known'[req'[r].msg.id]
    <3>1. req'[r].msg.id \in Id
      BY <1>2, <2>2 DEF HolderStep, HeldFresh
    <3>2. req'[r].held \in known[req'[r].msg.id]
      BY <1>2, <2>2, <3>1 DEF HolderStep, ServedWasRegistered, Live
    <3> QED
      BY <1>3, <3>1, <3>2
  <2> QED
    BY <2>1, <2>2 DEF ServedWasRegistered
<1>7. LatestWins'
  <2> SUFFICES ASSUME NEW i \in Id, i \notin raced', Live(proxies[i])'
               PROVE  proxies'[i].value = latest'[i]
    BY DEF LatestWins, Live, Expired
  <2>0. proxies'[i] # Absent
    BY DEF Live
  <2>1. CASE RegistersNow(i)
    BY <1>2, <1>3, <2>1 DEF StoreStep
  <2>2. CASE ~RegistersNow(i)
    <3>1. ~RemovesNow(i) /\ i \notin raced /\ latest'[i] = latest[i]
      BY <1>2, <1>3, <2>0, <2>2 DEF StoreStep
    <3>2. CASE proxies'[i] = proxies[i]
      BY <1>2, <1>5, <3>1, <3>2 DEF LatestWins
    <3>3. CASE \E r \in Req : Holds(r, i) /\ proxies'[i].value = req[r].held
      BY <1>2, <3>1, <3>3 DEF HeldFresh, Holds
    <3> QED
      BY <1>2, <2>0, <2>2, <3>2, <3>3 DEF StoreStep
  <2> QED
    BY <2>1, <2>2
<1>8. HeldFresh'
  <2> SUFFICES ASSUME NEW r \in Req, req'[r].step \in {"renew", "renewProxy"}
               PROVE  /\ req'[r].msg.id \in Id
                      /\ req'[r].msg.id \notin raced' =>
                            req'[r].held = latest'[req'[r].msg.id]
    BY DEF HeldFresh
  <2> DEFINE i == req'[r].msg.id
  <2>1. CASE /\ req[r].step \in {"renew", "renewProxy"}
             /\ req'[r].held = req[r].held /\ req'[r].msg = req[r].msg
    <3>1. i \in Id /\ Holds(r, i)
      BY <1>2, <2>1 DEF HeldFresh, Holds
    <3>2. i \notin raced' => i \notin raced /\ latest'[i] = latest[i]
      BY <1>3, <3>1
    <3> QED
      BY <1>2, <2>1, <3>1, <3>2 DEF HeldFresh
  <2>2. CASE /\ i \in Id /\ Live(proxies[i])
             /\ req'[r].held = proxies[i].value
             /\ ~RegistersNow(i) /\ ~RemovesNow(i)
    <3>1. i \notin raced' => i \notin raced /\ latest'[i] = latest[i]
      BY <1>3, <2>2
    <3> QED
      BY <1>2, <2>2, <3>1 DEF LatestWins
  <2> QED
    BY <1>2, <2>1, <2>2 DEF HolderStep
<1> QED
  BY <1>1, <1>6, <1>7, <1>8 DEF HistInv

-----------------------------------------------------------------------------

\* The invariant of the history holds throughout.
THEOREM History == HSpec => []HistInv
<1>1. HistInv /\ UNCHANGED hvars => HistInv'
  <2> SUFFICES ASSUME HistInv, UNCHANGED hvars PROVE HistInv'
    OBVIOUS
  <2>1. Inv'
    BY NextInv DEF HistInv, hvars, vars
  <2>2. ServedWasRegistered' /\ LatestWins' /\ HeldFresh'
    BY DEF HistInv, hvars, ServedWasRegistered, LatestWins, HeldFresh, Live,
           Expired
  <2> QED
    BY <2>1, <2>2 DEF HistInv
<1> QED
  BY <1>1, HistInit, HistNext, PTL DEF HSpec

\* However handlers interleave, what is served for an id, or is about to be
\* written back for it, was registered under that id (index.ts:608-629).
THEOREM OnlyRegisteredServed == HSpec => []ServedWasRegistered
<1>1. HistInv => ServedWasRegistered
  BY DEF HistInv
<1> QED
  BY <1>1, History, PTL

\* The last registration wins and a deleted proxy stays deleted, unless a
\* heartbeat held an older copy meanwhile (index.ts:608-629, 722-732).
THEOREM LastRegistrationWins == HSpec => []LatestWins
<1>1. HistInv => LatestWins
  BY DEF HistInv
<1> QED
  BY <1>1, History, PTL

-----------------------------------------------------------------------------
(* The coordinator implements Registry: each step of its handlers is one   *)
(* operation of the registry, or none.                                     *)

\* What was ever registered under an id are values, the last one among them.
KnownOK ==
    /\ known \in [Id -> SUBSET Value]
    /\ \A i \in Id : latest[i] \in known[i] \cup {Absent}

RefInv == HistInv /\ KnownOK

-----------------------------------------------------------------------------
(* What is visible of the store.                                           *)

\* An entry that is not there is not visible, and one that is, is of its type.
LEMMA Visible ==
    ASSUME Inv
    PROVE  \A i \in Id : /\ Live(proxies[i]) => VisibleLease[i] = proxies[i]
                         /\ ~Live(proxies[i]) => VisibleLease[i] = Absent
                         /\ Live(proxies[i]) => /\ proxies[i] \in Entry
                                                /\ proxies[i] # Absent
                                                /\ proxies[i].expires \in Int
                                                /\ now <= proxies[i].expires
                         /\ proxies[i] \in Entry => proxies[i] # Absent
<1>1. \A i \in Id : proxies[i] \in Entry \cup {Absent}
  BY DEF Inv, TypeOK
<1>2. \A e \in Entry : e.expires \in Int /\ e # Absent
  BY AbsentAssumption DEF Entry
<1>3. now \in Int
  BY DEF Inv, TypeOK
<1> QED
  BY <1>1, <1>2, <1>3 DEF VisibleLease, Live, Expired

\* Sweeping removes only what is not visible.
LEMMA SweptUnseen ==
    ASSUME Inv, now' = now, NEW L, proxies' \in {proxies, Swept(proxies, L)}
    PROVE  UNCHANGED VisibleLease
<1> SUFFICES ASSUME NEW i \in Id
             PROVE  /\ Live(proxies[i])' <=> Live(proxies[i])
                    /\ Live(proxies[i]) => proxies'[i] = proxies[i]
  BY DEF VisibleLease
<1>1. \/ proxies'[i] = proxies[i]
      \/ proxies'[i] = Absent /\ Expired(proxies[i])
  BY DEF Swept, Inv, TypeOK
<1> QED
  BY <1>1 DEF Live, Expired

\* Writing an entry lists its value.
LEMMA PutLists ==
    ASSUME Inv, NEW i \in Id, NEW v \in Value, NEW ttl \in Nat \ {0},
           InLease(now + ttl), proxies' = Put(proxies, i, v, ttl), now' = now
    PROVE  Leases!Lists(i, v)
<1>1. now \in Int
  BY DEF Inv, TypeOK
<1>2. /\ proxies'[i] = [value |-> v, expires |-> now + ttl]
      /\ \A j \in Id \ {i} : proxies'[j] = proxies[j]
  BY DEF Put, Stored, Inv, TypeOK
<1>3. proxies'[i] \in Entry /\ proxies'[i] # Absent
  BY <1>1, <1>2, AbsentAssumption DEF Entry
<1>4. proxies'[i].value = v /\ proxies'[i].expires = now + ttl
  BY <1>2
<1>5. Live(proxies[i])'
  BY <1>1, <1>3, <1>4 DEF Live, Expired
<1>6. VisibleLease'[i] = proxies'[i]
  BY <1>5 DEF VisibleLease
<1>7. \A j \in Id \ {i} : VisibleLease'[j] = VisibleLease[j]
  BY <1>2 DEF VisibleLease, Live, Expired
<1>8. Leases!Within(now + ttl)
  <2>1. CASE now + ttl <= now + MaxTTL
    BY <1>1, <2>1 DEF Leases!Within
  <2>2. CASE \E x \in Expiry : now + ttl <= x + Buffer
    BY <1>1, <2>2 DEF Leases!Within
  <2> QED
    BY <2>1, <2>2 DEF InLease
<1>9. now + ttl > now
  BY <1>1
<1> QED
  BY <1>3, <1>4, <1>6, <1>7, <1>8, <1>9 DEF Leases!Lists, Leases!Within

-----------------------------------------------------------------------------
(* What is known.                                                          *)

\* Only the handler of /register answers a registration.
LEMMA OnlyRegister ==
    ASSUME Inv, Next, NEW i \in Id, RegistersNow(i)
    PROVE  \E r \in Req : Register(r) /\ req[r].msg.id = i
<1>1. PICK r \in Req : /\ req[r].msg.id = i /\ req[r].msg.op = "register"
                       /\ req[r].step # "idle" /\ req'[r].step = "idle"
                       /\ req'[r].status = 200
  BY DEF RegistersNow, Answers
<1>2. \A s \in Status : Closed(s).status = s
  BY DEF Closed
<1>3. ~Restart /\ ~Tick
  BY <1>1, <1>2 DEF Restart, Tick, Status
<1>4. PICK q \in Req : (\E m \in Sent : Send(q, m)) \/ Handle(q) \/ Fail(q)
  BY <1>3 DEF Next
<1>5. \E h : Becomes(q, h)
  <2>1. CASE \E m \in Sent : Send(q, m)
    BY <2>1 DEF Send
  <2>2. CASE Fail(q)
    BY <2>2 DEF Fail, Reply
  <2>3. CASE \/ Reject(q) \/ Register(q)
             \/ HeartbeatRead(q) \/ HeartbeatWrite(q)
             \/ Delete(q) \/ SubRead(q) \/ MeshRegister(q)
    BY <2>3 DEF Reject, Register, HeartbeatRead, HeartbeatWrite, Delete,
                SubRead, MeshRegister, Reply
  <2>4. CASE \/ MeshHeartbeatRead(q) \/ MeshHeartbeatWrite(q)
             \/ MeshHeartbeatReadProxy(q) \/ MeshHeartbeatWriteProxy(q)
             \/ DeregisterMesh(q) \/ DeregisterProxy(q)
    BY <2>4 DEF MeshHeartbeatRead, MeshHeartbeatWrite, MeshHeartbeatReadProxy,
                MeshHeartbeatWriteProxy, DeregisterMesh, DeregisterProxy, Reply
  <2>5. CASE ListKeys(q)
    BY <2>5 DEF ListKeys
  <2>6. CASE ListRead(q)
    BY <2>6 DEF ListRead
  <2>7. CASE ListReply(q)
    BY <2>7 DEF ListReply, Reply
  <2> QED
    BY <1>4, <2>1, <2>2, <2>3, <2>4, <2>5, <2>6, <2>7 DEF Handle
<1>6. q = r
  BY <1>1, <1>5 DEF Becomes, Inv, TypeOK
<1>7. \A s \in Status : Reply(r, s) => s = 200
  BY <1>1, <1>2 DEF Reply, Becomes, Inv, TypeOK
<1>8. ~Fail(r) /\ ~Reject(r) /\ ~(\E m \in Sent : Send(r, m))
  BY <1>1, <1>7 DEF Fail, Reject, Send, Status
<1>9. ~ListKeys(r) /\ ~ListRead(r) /\ ~ListReply(r)
  BY <1>1 DEF ListKeys, ListRead, ListReply, Listing, ProxyListing, Inv,
              HandlersOK, HandlerOK
<1>10. Register(r)
  BY <1>1, <1>4, <1>6, <1>8, <1>9
     DEF Handle, At, HeartbeatRead, HeartbeatWrite, Delete, SubRead,
         MeshRegister, MeshHeartbeatRead, MeshHeartbeatWrite,
         MeshHeartbeatReadProxy, MeshHeartbeatWriteProxy, DeregisterMesh,
         DeregisterProxy
<1> QED
  BY <1>1, <1>10

\* What is known grows by the value of a registration and by nothing else.
LEMMA KnownStep ==
    ASSUME RefInv, HNext
    PROVE  /\ KnownOK'
           /\ \A i \in Id : ~RegistersNow(i) => known'[i] = known[i]
           /\ \A i \in Id : RegistersNow(i) =>
                  known'[i] = known[i] \cup {proxies'[i].value}
<1>1. Inv /\ Inv' /\ StoreStep
  BY NextInv, NextObserved DEF RefInv, HistInv, HNext, Observed
<1>2. /\ known' = [i \in Id |-> known[i] \cup ({latest'[i]} \ {Absent})]
      /\ \A i \in Id :
            /\ RegistersNow(i) => latest'[i] = Registered(i)
            /\ ~RegistersNow(i) => latest'[i] \in {Absent, latest[i]}
  BY DEF HNext, Observe
<1>3. ASSUME NEW i \in Id, RegistersNow(i)
      PROVE  latest'[i] = proxies'[i].value /\ latest'[i] \in Value
  <2>1. latest'[i] = proxies'[i].value /\ proxies'[i] # Absent
    BY <1>1, <1>2, <1>3 DEF StoreStep
  <2> QED
    BY <1>1, <2>1 DEF Inv, TypeOK, Entry
<1>4. \A i \in Id : ~RegistersNow(i) => known'[i] = known[i]
  BY <1>2 DEF RefInv, KnownOK
<1>5. \A i \in Id : RegistersNow(i) =>
         known'[i] = known[i] \cup {proxies'[i].value}
  BY <1>2, <1>3, AbsentAssumption
<1>6. \A i \in Id : known'[i] \in SUBSET Value
  BY <1>3, <1>4, <1>5 DEF RefInv, KnownOK
<1>7. \A i \in Id : latest'[i] \in known'[i] \cup {Absent}
  BY <1>2
<1> QED
  BY <1>2, <1>4, <1>5, <1>6, <1>7 DEF KnownOK

\* A step that answers no registration teaches nothing.
LEMMA NothingNew ==
    ASSUME RefInv, HNext, \A r \in Req : ~Register(r)
    PROVE  UNCHANGED known
<1>1. \A i \in Id : ~RegistersNow(i)
  BY OnlyRegister DEF RefInv, HistInv, HNext
<1>2. known' = [i \in Id |-> known'[i]] /\ known = [i \in Id |-> known[i]]
  BY DEF RefInv, KnownOK, HNext, Observe
<1> QED
  BY <1>1, <1>2, KnownStep

-----------------------------------------------------------------------------
(* The steps.                                                              *)

\* A registration announces.
LEMMA RegisterAnnounces ==
    ASSUME RefInv, HNext, NEW r \in Req, Register(r) PROVE Leases!Next
<1> DEFINE m == req[r].msg
           v == [endpoint |-> m.endpoint, expiresAt |-> m.expiresAt]
<1>1. Inv /\ now \in Int
  BY DEF RefInv, HistInv, Inv, TypeOK
<1>2. m \in Request /\ m.op = "register" /\ m.check = "ok"
  BY <1>1 DEF Register, At, Inv, HandlersOK, HandlerOK
<1>3. m.id \in Id /\ v \in Value /\ m.expiresAt \in ClientExpiry
  BY <1>2, RequestFields DEF Value, ClientExpiry
<1>4. RegisterTTL(m.expiresAt) \in 1..MaxTTL
  BY <1>1, <1>3, TTLs
<1>5. /\ RegisterTTL(m.expiresAt) \in Nat \ {0}
      /\ InLease(now + RegisterTTL(m.expiresAt))
  BY <1>1, <1>4, ShortLease
<1>6. /\ proxies' = Put(proxies, m.id, v, RegisterTTL(m.expiresAt))
      /\ now' = now
  BY DEF Register
<1>7. Leases!Lists(m.id, v)
  <2> HIDE DEF m, v
  <2> QED
    BY <1>1, <1>3, <1>5, <1>6, PutLists
<1>8. proxies'[m.id].value = v
  BY <1>1, <1>3, <1>6 DEF Put, Stored, Inv, TypeOK
<1>9. \A i \in Id : RegistersNow(i) <=> i = m.id
  <2>1. /\ req'[r] = Closed(200)
        /\ \A q \in Req, op \in Operation : Answers(q, op) => q = r
    BY <1>1, OneSlot DEF Inv, TypeOK, Reply, Register
  <2>2. Answers(r, "register")
    BY <1>2, <2>1 DEF Answers, Register, At, Closed
  <2> QED
    BY <2>1, <2>2 DEF RegistersNow, Operation
<1>10. known' = [known EXCEPT ![m.id] = @ \cup {v}]
  <2>1. /\ \A i \in Id \ {m.id} : known'[i] = known[i]
        /\ known'[m.id] = known[m.id] \cup {v}
    BY <1>3, <1>8, <1>9, KnownStep
  <2>2. known' \in [Id -> SUBSET Value] /\ known \in [Id -> SUBSET Value]
    BY KnownStep DEF KnownOK, RefInv
  <2> HIDE DEF m, v
  <2> QED
    BY <2>1, <2>2
<1>11. Leases!Announce(m.id)
  <2> HIDE DEF m, v
  <2> QED
    BY <1>3, <1>6, <1>7, <1>10 DEF Leases!Announce
<1> QED
  BY <1>3, <1>11 DEF Leases!Next

\* A heartbeat renews what was registered once.
LEMMA HeartbeatRenews ==
    ASSUME RefInv, HNext, NEW r \in Req,
           HeartbeatWrite(r) \/ MeshHeartbeatWriteProxy(r)
    PROVE  Leases!Next
<1> DEFINE m == req[r].msg
<1>1. Inv /\ now \in Int /\ ServedWasRegistered
  BY DEF RefInv, HistInv, Inv, TypeOK
<1>2. /\ m \in Request /\ m.op \in {"heartbeat", "meshHeartbeat"}
      /\ m.check = "ok" /\ req[r].step \in {"renew", "renewProxy"}
      /\ req[r].held \in Value /\ now' = now
  BY <1>1 DEF HeartbeatWrite, MeshHeartbeatWriteProxy, At, Inv, HandlersOK,
              HandlerOK
<1>3. m.id \in Id /\ m.expiresAt \in ClientExpiry
  BY <1>2, RequestFields
<1>4. PICK ttl \in Nat \ {0} :
        /\ InLease(now + ttl)
        /\ proxies' = Put(proxies, m.id, req[r].held, ttl)
  <2>1. CASE HeartbeatWrite(r)
    BY <1>1, <1>3, <2>1, TTLs DEF HeartbeatWrite
  <2>2. CASE MeshHeartbeatWriteProxy(r)
    <3>1. req[r].ttl \in 1..MaxTTL
      BY <1>1, <2>2 DEF MeshHeartbeatWriteProxy, At, Inv, HandlersOK, HandlerOK
    <3>2. req[r].ttl \in Nat \ {0} /\ InLease(now + req[r].ttl)
      BY <1>1, <3>1, ShortLease
    <3> QED
      BY <2>2, <3>2 DEF MeshHeartbeatWriteProxy
  <2> QED
    BY <2>1, <2>2
<1>5. Leases!Lists(m.id, req[r].held)
  BY <1>1, <1>2, <1>3, <1>4, PutLists
<1>6. req[r].held \in known[m.id]
  BY <1>1, <1>2 DEF ServedWasRegistered
<1>7. \A q \in Req : ~Register(q)
  <2> SUFFICES ASSUME NEW q \in Req, Register(q) PROVE FALSE
    OBVIOUS
  <2>1. req'[q].step = "idle" /\ req[q].step = "recv"
    BY <1>1 DEF Register, At, Reply, Becomes, Closed, Inv, TypeOK
  <2>2. q # r
    BY <1>2, <2>1
  <2>3. req'[q] = req[q]
    BY <1>1, <2>2 DEF HeartbeatWrite, MeshHeartbeatWriteProxy, Reply, Becomes,
                      Inv, TypeOK
  <2> QED
    BY <2>1, <2>3
<1>8. Leases!Renew(m.id)
  BY <1>2, <1>5, <1>6, <1>7, NothingNew DEF Leases!Renew
<1> QED
  BY <1>3, <1>8 DEF Leases!Next

\* Only one slot moves, so that a step of another handler registers nothing.
LEMMA NoOther ==
    ASSUME Inv, NEW r \in Req, NEW h, Becomes(r, h), ~Register(r)
    PROVE  \A q \in Req : ~Register(q)
<1> SUFFICES ASSUME NEW q \in Req, Register(q) PROVE FALSE
  OBVIOUS
<1>1. req'[q].step = "idle" /\ req[q].step = "recv"
  BY DEF Register, At, Reply, Becomes, Closed, Inv, TypeOK
<1>2. q # r
  OBVIOUS
<1>3. req'[q] = req[q]
  BY <1>2 DEF Becomes, Inv, TypeOK
<1> QED
  BY <1>1, <1>3

\* A deletion withdraws.
LEMMA DeletionWithdraws ==
    ASSUME RefInv, HNext, NEW r \in Req, Delete(r) \/ DeregisterProxy(r)
    PROVE  Leases!Next
<1> DEFINE id == req[r].msg.id
<1>1. Inv
  BY DEF RefInv, HistInv
<1>2. /\ id \in Id /\ now' = now /\ proxies' = Without(proxies, id)
      /\ req[r].msg.op # "register"
  BY <1>1, RequestFields DEF Delete, DeregisterProxy, At, Inv, HandlersOK,
                             HandlerOK
<1>3. proxies'[id] = Absent /\ \A j \in Id \ {id} : proxies'[j] = proxies[j]
  BY <1>1, <1>2 DEF Without, Inv, TypeOK
<1>4. VisibleLease' = [VisibleLease EXCEPT ![id] = Absent]
  <2>1. \A j \in Id : Live(proxies[j])' <=> j # id /\ Live(proxies[j])
    BY <1>2, <1>3 DEF Live, Expired
  <2> HIDE DEF id
  <2> QED
    BY <1>2, <1>3, <2>1 DEF VisibleLease
<1>5. UNCHANGED known
  BY <1>1, <1>2, NoOther, NothingNew DEF Delete, DeregisterProxy, Reply,
                                         Register, At
<1>6. Leases!Withdraw(id)
  BY <1>2, <1>4, <1>5 DEF Leases!Withdraw
<1> QED
  BY <1>2, <1>6 DEF Leases!Next

\* The other steps of a handler are not to be seen.
LEMMA OthersUnseen ==
    ASSUME RefInv, HNext, NEW r \in Req,
           (\E m \in Sent : Send(r, m)) \/ Handle(r) \/ Fail(r),
           ~Register(r), ~HeartbeatWrite(r), ~MeshHeartbeatWriteProxy(r),
           ~Delete(r), ~DeregisterProxy(r)
    PROVE  UNCHANGED <<now, VisibleLease, known>>
<1>1. Inv
  BY DEF RefInv, HistInv
<1>2. /\ now' = now
      /\ \E L : proxies' \in {proxies, Swept(proxies, L)}
      /\ \E h : Becomes(r, h)
  <2>1. CASE \E m \in Sent : Send(r, m)
    BY <2>1 DEF Send, store
  <2>2. CASE Fail(r) \/ Reject(r) \/ MeshRegister(r) \/ ListReply(r)
    BY <2>2 DEF Fail, Reject, MeshRegister, ListReply, Reply, store
  <2>3. CASE HeartbeatRead(r) \/ SubRead(r) \/ MeshHeartbeatReadProxy(r)
    BY <2>3 DEF HeartbeatRead, SubRead, MeshHeartbeatReadProxy, Reply
  <2>4. CASE MeshHeartbeatRead(r) \/ MeshHeartbeatWrite(r) \/ DeregisterMesh(r)
    BY <2>4 DEF MeshHeartbeatRead, MeshHeartbeatWrite, DeregisterMesh, Reply
  <2>5. CASE ListKeys(r)
    BY <2>5 DEF ListKeys
  <2>6. CASE ListRead(r)
    BY <2>6 DEF ListRead
  <2> QED
    BY <2>1, <2>2, <2>3, <2>4, <2>5, <2>6 DEF Handle
<1>3. UNCHANGED VisibleLease
  BY <1>1, <1>2, SweptUnseen
<1>4. UNCHANGED known
  BY <1>1, <1>2, NoOther, NothingNew
<1> QED
  BY <1>2, <1>3, <1>4

\* A new isolate loses a Map with all that was in it, and no namespace.
LEMMA RestartLoses ==
    ASSUME RefInv, HNext, Restart
    PROVE  Leases!Next \/ UNCHANGED <<now, VisibleLease, known>>
<1>1. UNCHANGED known
  <2>1. \A q \in Req : ~Register(q)
    <3> SUFFICES ASSUME NEW q \in Req, Register(q) PROVE FALSE
      OBVIOUS
    <3>1. req'[q].status = 200 /\ req[q].step # "idle"
      BY DEF Register, At, Reply, Becomes, Closed, RefInv, HistInv, Inv, TypeOK
    <3> QED
      BY <3>1 DEF Restart, Closed
  <2> QED
    BY <2>1, NothingNew
<1>2. CASE KVBound
  BY <1>1, <1>2 DEF Restart, store, VisibleLease, Live, Expired
<1>3. CASE ~KVBound
  <2>1. VisibleLease' = [i \in Id |-> Absent]
    BY <1>3 DEF Restart, VisibleLease, Live
  <2> QED
    BY <1>1, <1>3, <2>1 DEF Restart, Leases!Next, Leases!Lose
<1> QED
  BY <1>2, <1>3

\* Time ends the same leases.
LEMMA TickPasses == ASSUME RefInv, HNext, Tick PROVE Leases!Next
<1>1. Inv /\ now \in Int /\ now' = now + 1
  BY DEF RefInv, HistInv, Inv, TypeOK, Tick
<1>2. UNCHANGED known
  <2>1. \A q \in Req : ~Register(q)
    BY <1>1 DEF Register
  <2> QED
    BY <2>1, NothingNew
<1>3. ASSUME NEW i \in Id
      PROVE  VisibleLease'[i] = IF VisibleLease[i] = Absent THEN Absent
                                ELSE IF now' > VisibleLease[i].expires
                                THEN Absent ELSE VisibleLease[i]
  <2>1. proxies'[i] \in {proxies[i], Absent}
    BY <1>1, NoMore DEF Tick
  <2>2. proxies[i] # Absent /\ ~(now + 1 > proxies[i].expires) =>
            proxies'[i] = proxies[i]
    BY <1>1 DEF Tick, Dropped, Inv, TypeOK
  <2>3. VisibleLease'[i] = IF Live(proxies[i])' THEN proxies'[i] ELSE Absent
    BY DEF VisibleLease
  <2>4. CASE Live(proxies[i])
    <3>1. /\ VisibleLease[i] = proxies[i] /\ proxies[i] # Absent
          /\ proxies[i].expires \in Int
      BY <1>1, <2>4, Visible
    <3>2. CASE now' > proxies[i].expires
      BY <1>1, <2>1, <2>3, <3>1, <3>2 DEF Live, Expired
    <3>3. CASE ~(now' > proxies[i].expires)
      BY <1>1, <2>2, <2>3, <3>1, <3>3 DEF Live, Expired
    <3> QED
      BY <3>2, <3>3, <3>1
  <2>5. CASE ~Live(proxies[i])
    <3>1. VisibleLease[i] = Absent
      BY <1>1, <2>5, Visible
    <3>2. ~Live(proxies[i])'
      <4>1. proxies[i] # Absent =>
                proxies[i].expires \in Int /\ now > proxies[i].expires
        BY <1>1, <2>5 DEF Live, Expired, Inv, TypeOK, Entry
      <4> QED
        BY <1>1, <2>1, <4>1 DEF Live, Expired
    <3> QED
      BY <2>3, <3>1, <3>2
  <2> QED
    BY <2>4, <2>5
<1>4. VisibleLease' = [i \in Id |-> VisibleLease'[i]]
  BY DEF VisibleLease
<1>5. Leases!Pass
  BY <1>1, <1>2, <1>3, <1>4 DEF Leases!Pass
<1> QED
  BY <1>5 DEF Leases!Next

\* Every step of the coordinator is one of the registry, or none.
LEMMA StepRefines ==
    ASSUME RefInv, HNext
    PROVE  Leases!Next \/ UNCHANGED <<now, VisibleLease, known>>
<1>1. ASSUME NEW r \in Req,
             (\E m \in Sent : Send(r, m)) \/ Handle(r) \/ Fail(r)
      PROVE  Leases!Next \/ UNCHANGED <<now, VisibleLease, known>>
  BY <1>1, RegisterAnnounces, HeartbeatRenews, DeletionWithdraws, OthersUnseen
<1> QED
  BY <1>1, RestartLoses, TickPasses DEF HNext, Next

\* What is in the store at the start has been announced.
LEMMA InitRefines == HInit => RefInv /\ Leases!Init
<1> SUFFICES ASSUME HInit PROVE RefInv /\ Leases!Init
  OBVIOUS
<1>1. HistInv /\ Inv /\ now = 0
  BY HistInit DEF HistInv, HInit, Init
<1>2. \A k \in MeshKey : records[k] = Absent \/ now <= records[k].expires
  <2>1. ASSUME NEW e \in Endpoint, NEW x \in Expiry
        PROVE  now <= Persisted(e, x).expires
    <3>1. MeshTTL(x) \in 1..MaxTTL
      BY <1>1, TTLs DEF ClientExpiry
    <3> QED
      BY <1>1, <3>1, CoordinatorAssumption DEF Persisted, Stored
  <2> QED
    BY <2>1 DEF HInit, Init, InitRecords
<1>3. \A i \in Id : proxies[i] = Absent \/ now <= proxies[i].expires
  BY <1>2 DEF HInit, Init
<1>4. \A i \in Id : proxies[i] \in Entry \cup {Absent}
  BY <1>1 DEF Inv, TypeOK
<1>5. \A i \in Id : VisibleLease[i] = proxies[i]
  <2> SUFFICES ASSUME NEW i \in Id, ~Live(proxies[i]) PROVE proxies[i] = Absent
    BY DEF VisibleLease
  <2> QED
    BY <1>1, <1>3, <1>4 DEF Live, Expired, Entry
<1>6. KnownOK
  BY <1>4, AbsentAssumption DEF HInit, KnownOK, Entry
<1>7. \A i \in Id : known[i] = IF VisibleLease[i] = Absent THEN {}
                               ELSE {VisibleLease[i].value}
  <2> SUFFICES ASSUME NEW i \in Id
               PROVE  known[i] = IF proxies[i] = Absent THEN {}
                                 ELSE {proxies[i].value}
    BY <1>5
  <2>1. proxies[i] # Absent => proxies[i].value # Absent
    BY <1>4, AbsentAssumption DEF Entry
  <2> QED
    BY <2>1 DEF HInit
<1>8. \A i \in Id : VisibleLease[i] # Absent =>
                       Leases!Within(VisibleLease[i].expires)
  BY <1>1, <1>5 DEF Inv, ProxyLease, Leases!Within
<1> QED
  BY <1>1, <1>6, <1>7, <1>8 DEF RefInv, Leases!Init

-----------------------------------------------------------------------------

\* The handlers of the Worker, interleaved at every await, with failures between
\* any two calls and restarts, implement the registry, in which each operation
\* is one step (index.ts:575-755).
THEOREM RegistryImplemented == HSpec => ImplementsRegistry
<1>1. RefInv /\ [HNext]_hvars => RefInv' /\ [Leases!Next]_(Leases!rvars)
  <2> SUFFICES ASSUME RefInv, [HNext]_hvars
               PROVE  RefInv' /\ [Leases!Next]_(Leases!rvars)
    OBVIOUS
  <2>1. CASE HNext
    BY <2>1, HistNext, KnownStep, StepRefines DEF RefInv, Leases!rvars
  <2>2. CASE UNCHANGED hvars
    <3>1. Inv'
      BY <2>2, NextInv DEF RefInv, HistInv, hvars, vars
    <3>2. RefInv'
      BY <2>2, <3>1 DEF RefInv, HistInv, KnownOK, hvars, ServedWasRegistered,
                        LatestWins, HeldFresh, Live, Expired
    <3>3. UNCHANGED Leases!rvars
      BY <2>2 DEF hvars, Leases!rvars, VisibleLease, Live, Expired
    <3> QED
      BY <3>2, <3>3
  <2> QED
    BY <2>1, <2>2
<1> QED
  BY <1>1, InitRefines, PTL DEF HSpec, ImplementsRegistry, Leases!Spec
=============================================================================
