-------------------------- MODULE CoordinatorProofs --------------------------
(***************************************************************************)
(* For every number of clients, proxies and networks, and all TTLs: the    *)
(* coordinator's state keeps its types, and no entry is ever leased beyond *)
(* the bounds its endpoints set.  The invariant that carries the proof is  *)
(* TypeOK with HandlersOK, which says what a handler holds while it waits. *)
(***************************************************************************)
EXTENDS Coordinator, TLAPS

\* A moment until which a lease may run, as ProxyLease has it.
InLease(t) == t <= now + MaxTTL \/ \E x \in Expiry : t <= x + Buffer

Inv == TypeOK /\ HandlersOK /\ MeshLease /\ ProxyLease

-----------------------------------------------------------------------------
(* What requests hold, what TTLs are, and what the store operators return. *)

\* The fields of a request that its operation uses are of their types.
LEMMA RequestFields ==
    ASSUME NEW m \in Request, m.check = "ok"
    PROVE  /\ m.op \in {"register", "heartbeat", "delete", "sub",
                        "meshRegister", "meshHeartbeat", "meshDeregister"} =>
                  m.id \in Id
           /\ m.op \in {"meshRegister", "meshHeartbeat", "meshDeregister"} =>
                  m.net \in Net
           /\ m.op = "register" => m.endpoint \in Endpoint
           /\ m.expiresAt \in ClientExpiry
BY DEF Request, ProxyRequest, MeshRequest, ListRequest, Refused, ClientExpiry

\* Each endpoint's TTL: only /heartbeat goes beyond MaxTTL, and then no
\* further than the client asked.
LEMMA TTLs ==
    ASSUME now \in Int, NEW x \in ClientExpiry
    PROVE  /\ RegisterTTL(x) \in 1..MaxTTL
           /\ MeshTTL(x) \in 1..MaxTTL
           /\ HeartbeatTTL(x) \in Nat \ {0}
           /\ InLease(now + HeartbeatTTL(x))
<1> USE CoordinatorAssumption
<1>1. /\ x \in Int
      /\ Remaining(x) \in Nat \ {0}
  BY DEF ClientExpiry, Remaining
<1>2. RegisterTTL(x) \in 1..MaxTTL
  BY <1>1 DEF RegisterTTL, Min2
<1>3. MeshTTL(x) \in 1..MaxTTL
  BY <1>1 DEF MeshTTL, Min2, Max2
<1>4. HeartbeatTTL(x) \in Nat \ {0} /\ InLease(now + HeartbeatTTL(x))
  <2>1. CASE x # NoExpiry /\ x > now
    <3>1. HeartbeatTTL(x) = x - now + Buffer
      BY <2>1 DEF HeartbeatTTL
    <3>2. x \in Expiry /\ now + HeartbeatTTL(x) <= x + Buffer
      BY <2>1, <3>1, <1>1 DEF ClientExpiry
    <3>3. QED  BY <2>1, <3>1, <3>2, <1>1 DEF InLease
  <2>2. CASE ~(x # NoExpiry /\ x > now)
    BY <2>2 DEF HeartbeatTTL, InLease
  <2>3. QED  BY <2>1, <2>2
<1>5. QED  BY <1>2, <1>3, <1>4

\* Writing an entry keeps the type of a family of keys.
LEMMA PutType ==
    ASSUME NEW K, NEW f \in [K -> Entry \cup {Absent}], NEW k \in K,
           NEW v \in Value, NEW ttl \in Int, now \in Int
    PROVE  /\ Put(f, k, v, ttl) \in [K -> Entry \cup {Absent}]
           /\ Put(f, k, v, ttl)[k].expires = now + ttl
           /\ \A j \in K \ {k} : Put(f, k, v, ttl)[j] = f[j]
BY DEF Put, Stored, Entry

\* Nothing else does more than remove entries.
LEMMA RemoveType ==
    ASSUME NEW K, NEW f \in [K -> Entry \cup {Absent}], NEW L, NEW k, NEW t
    PROVE  /\ Swept(f, L) \in [K -> Entry \cup {Absent}]
           /\ Without(f, k) \in [K -> Entry \cup {Absent}]
           /\ Dropped(f, t) \in [K -> Entry \cup {Absent}]
           /\ \A j \in K : /\ Swept(f, L)[j] \in {f[j], Absent}
                           /\ Without(f, k)[j] \in {f[j], Absent}
                           /\ Dropped(f, t)[j] \in {f[j], Absent}
BY DEF Swept, Without, Dropped

\* kvGet of a live entry gives a value.
LEMMA GotType ==
    ASSUME NEW e \in Entry \cup {Absent}, Live(e)
    PROVE  e \in Entry /\ Got(e) = e.value /\ Got(e) \in Value
BY DEF Live, Got, Entry

\* A slot that is updated with a handler in good order stays in good order.
LEMMA SlotUpdate ==
    ASSUME req \in [Req -> Handler], HandlersOK, NEW r \in Req,
           NEW h \in Handler, HandlerOK(h), req' = [req EXCEPT ![r] = h]
    PROVE  req' \in [Req -> Handler] /\ HandlersOK'
BY DEF HandlersOK

\* A reply closes the slot.
LEMMA ClosedOK ==
    ASSUME NEW s \in Status
    PROVE  Closed(s) \in Handler /\ HandlerOK(Closed(s))
BY DEF Closed, Handler, HandlerOK, Status, Step

\* The handler's return leaves every slot in good order.
LEMMA ReplyOK ==
    ASSUME req \in [Req -> Handler], HandlersOK, NEW r \in Req,
           NEW s \in Status, Reply(r, s)
    PROVE  req' \in [Req -> Handler] /\ HandlersOK'
BY ClosedOK, SlotUpdate DEF Reply, Becomes

\* So does one that waits at an await, if it holds what it needs there.
LEMMA RunningOK ==
    ASSUME req \in [Req -> Handler], HandlersOK, NEW r \in Req,
           NEW m \in Request, NEW v \in Value \cup {Absent}, NEW ttl \in Int,
           NEW s \in Step \ {"idle", "scan"},
           s \in {"renew", "renewMesh", "renewProxy"} => v \in Value,
           s \in {"readProxy", "renewProxy"} => ttl \in 1..MaxTTL,
           Becomes(r, Running(m, s, v, ttl))
    PROVE  req' \in [Req -> Handler] /\ HandlersOK'
<1>1. Running(m, s, v, ttl) \in Handler
  BY DEF Running, Handler, Step, Status
<1>2. HandlerOK(Running(m, s, v, ttl))
  BY DEF Running, HandlerOK
<1>3. QED  BY <1>1, <1>2, SlotUpdate DEF Becomes

\* One that waits for a body, or is about to delete, needs nothing more.
LEMMA WaitingOK ==
    ASSUME req \in [Req -> Handler], HandlersOK, NEW r \in Req,
           NEW m \in Request, NEW s \in {"recv", "dropProxy"},
           Becomes(r, Running(m, s, Absent, 0))
    PROVE  req' \in [Req -> Handler] /\ HandlersOK'
<1>1. Running(m, s, Absent, 0) \in Handler
  BY DEF Running, Handler, Step, Status
<1>2. HandlerOK(Running(m, s, Absent, 0))
  BY DEF Running, HandlerOK
<1>3. QED  BY <1>1, <1>2, SlotUpdate DEF Becomes

\* And one that scans the keys of its own family.
LEMMA ScanningOK ==
    ASSUME req \in [Req -> Handler], HandlersOK, NEW r \in Req,
           NEW m \in Request, NEW K, NEW L \in SUBSET (Key \X Value),
           \/ m.op \in ProxyListing /\ K \subseteq Id
           \/ m.op = "meshStatus" /\ K \subseteq MeshKey
           \/ m.op = "sub" /\ K = {},
           Becomes(r, Scanning(m, K, L))
    PROVE  req' \in [Req -> Handler] /\ HandlersOK'
<1>1. K \in SUBSET Key
  BY DEF Key
<1>2. Scanning(m, K, L) \in Handler
  BY <1>1 DEF Scanning, Handler, Step, Status
<1>3. HandlerOK(Scanning(m, K, L))
  BY DEF Scanning, HandlerOK
<1>4. QED  BY <1>2, <1>3, SlotUpdate DEF Becomes

-----------------------------------------------------------------------------
(* The leases under each kind of write.                                    *)

\* Removing entries, and letting time pass, shortens what is left of a lease.
LEMMA ProxiesRemoved ==
    ASSUME TypeOK, ProxyLease, now' \in Int, now' >= now,
           \A i \in Id : proxies'[i] \in {proxies[i], Absent}
    PROVE  ProxyLease'
<1> SUFFICES ASSUME NEW i \in Id, proxies'[i] # Absent
             PROVE  \/ proxies'[i].expires <= now' + MaxTTL
                    \/ \E x \in Expiry : proxies'[i].expires <= x + Buffer
  BY DEF ProxyLease
<1>1. proxies'[i] = proxies[i] /\ proxies[i].expires \in Int
  BY DEF TypeOK, Entry
<1>2. CASE proxies[i].expires <= now + MaxTTL
  BY <1>1, <1>2, CoordinatorAssumption DEF TypeOK
<1>3. CASE \E x \in Expiry : proxies[i].expires <= x + Buffer
  BY <1>1, <1>3
<1>4. QED  BY <1>1, <1>2, <1>3 DEF ProxyLease

\* The same holds for the records of the mesh.
LEMMA RecordsRemoved ==
    ASSUME TypeOK, MeshLease, now' \in Int, now' >= now,
           \A k \in MeshKey : records'[k] \in {records[k], Absent}
    PROVE  MeshLease'
<1> SUFFICES ASSUME NEW k \in MeshKey, records'[k] # Absent
             PROVE  records'[k].expires <= now' + MaxTTL
  BY DEF MeshLease
<1>1. records'[k] = records[k] /\ records[k].expires \in Int
  BY DEF TypeOK, Entry
<1>2. QED  BY <1>1, CoordinatorAssumption DEF TypeOK, MeshLease

\* Writing an entry with a TTL in the bounds keeps the bounds.
LEMMA ProxiesPut ==
    ASSUME TypeOK, ProxyLease, NEW i \in Id, NEW v \in Value, NEW ttl \in Int,
           InLease(now + ttl), proxies' = Put(proxies, i, v, ttl), now' = now
    PROVE  proxies' \in [Id -> Entry \cup {Absent}] /\ ProxyLease'
<1>1. /\ proxies' \in [Id -> Entry \cup {Absent}]
      /\ proxies'[i].expires = now + ttl
      /\ \A j \in Id \ {i} : proxies'[j] = proxies[j]
  BY PutType DEF TypeOK
<1>2. QED  BY <1>1 DEF ProxyLease, InLease

\* A record is only ever written with a TTL within MaxTTL.
LEMMA RecordsPut ==
    ASSUME TypeOK, MeshLease, NEW k \in MeshKey, NEW v \in Value,
           NEW ttl \in 1..MaxTTL, records' = Put(records, k, v, ttl), now' = now
    PROVE  records' \in [MeshKey -> Entry \cup {Absent}] /\ MeshLease'
<1>1. ttl \in Int /\ ttl <= MaxTTL
  BY CoordinatorAssumption
<1>2. /\ records' \in [MeshKey -> Entry \cup {Absent}]
      /\ records'[k].expires = now + ttl
      /\ \A j \in MeshKey \ {k} : records'[j] = records[j]
  BY <1>1, PutType DEF TypeOK
<1>3. QED  BY <1>1, <1>2, CoordinatorAssumption DEF MeshLease, TypeOK

\* A TTL of at most MaxTTL is in the bounds of a proxy's lease.
LEMMA ShortLease ==
    ASSUME now \in Int, NEW ttl \in 1..MaxTTL
    PROVE  ttl \in Int /\ InLease(now + ttl)
BY CoordinatorAssumption DEF InLease

\* A step that leaves a family of keys and the clock alone keeps its lease.
LEMMA ProxiesKept ==
    ASSUME TypeOK, ProxyLease, UNCHANGED <<now, proxies>>
    PROVE  proxies' \in [Id -> Entry \cup {Absent}] /\ ProxyLease'
BY DEF TypeOK, ProxyLease

\* A step that leaves the records and the clock alone keeps theirs.
LEMMA RecordsKept ==
    ASSUME TypeOK, MeshLease, UNCHANGED <<now, records>>
    PROVE  records' \in [MeshKey -> Entry \cup {Absent}] /\ MeshLease'
BY DEF TypeOK, MeshLease

\* kvGet, kvList and kvDelete keep the lease of the family they touch.
LEMMA ProxiesSwept ==
    ASSUME TypeOK, ProxyLease, now' = now, NEW L, NEW i,
           proxies' \in {Swept(proxies, L), Without(proxies, i)}
    PROVE  proxies' \in [Id -> Entry \cup {Absent}] /\ ProxyLease'
<1>1. /\ proxies' \in [Id -> Entry \cup {Absent}]
      /\ \A j \in Id : proxies'[j] \in {proxies[j], Absent}
  BY RemoveType DEF TypeOK
<1>2. now' \in Int /\ now' >= now
  BY DEF TypeOK
<1>3. QED  BY <1>1, <1>2, ProxiesRemoved

\* The same calls keep the lease of the records.
LEMMA RecordsSwept ==
    ASSUME TypeOK, MeshLease, now' = now, NEW L, NEW k,
           records' \in {Swept(records, L), Without(records, k)}
    PROVE  records' \in [MeshKey -> Entry \cup {Absent}] /\ MeshLease'
<1>1. /\ records' \in [MeshKey -> Entry \cup {Absent}]
      /\ \A j \in MeshKey : records'[j] \in {records[j], Absent}
  BY RemoveType DEF TypeOK
<1>2. now' \in Int /\ now' >= now
  BY DEF TypeOK
<1>3. QED  BY <1>1, <1>2, RecordsRemoved

-----------------------------------------------------------------------------
(* The steps of a handler.                                                 *)

\* A request that arrives or is turned down, a handler that fails, and one
\* that replies without touching the store.
LEMMA QuietSteps ==
    ASSUME Inv, NEW r \in Req,
           \/ \E m \in Sent : Send(r, m)
           \/ Reject(r) \/ MeshRegister(r) \/ ListReply(r) \/ Fail(r)
    PROVE  Inv'
<1>1. req' \in [Req -> Handler] /\ HandlersOK'
  <2>1. ASSUME NEW m \in Sent, Send(r, m)
        PROVE  req' \in [Req -> Handler] /\ HandlersOK'
    <3>1. m \in Request /\ Becomes(r, Running(m, "recv", Absent, 0))
      BY <2>1 DEF Send, Sent
    <3>2. QED  BY <3>1, WaitingOK DEF Inv, TypeOK
  <2>2. CASE Reject(r) \/ MeshRegister(r) \/ ListReply(r) \/ Fail(r)
    <3>1. \E s \in Status : Reply(r, s)
      BY <2>2 DEF Reject, MeshRegister, ListReply, Fail, Status
    <3>2. QED  BY <3>1, ReplyOK DEF Inv, TypeOK
  <2>3. QED  BY <2>1, <2>2
<1>2. UNCHANGED <<now, store>>
  BY DEF Send, Reject, MeshRegister, ListReply, Fail
<1>3. QED
  BY <1>1, <1>2, ProxiesKept, RecordsKept DEF Inv, TypeOK, store

\* /register writes a value of the client's own, under a capped TTL.
LEMMA RegisterStep ==
    ASSUME Inv, NEW r \in Req, Register(r)
    PROVE  Inv'
<1> DEFINE m == req[r].msg
           v == [endpoint |-> m.endpoint, expiresAt |-> m.expiresAt]
<1>1. m \in Request /\ m.op = "register" /\ m.check = "ok"
  BY DEF Register, At, Inv, HandlersOK, HandlerOK
<1>2. m.id \in Id /\ m.endpoint \in Endpoint /\ m.expiresAt \in ClientExpiry
  BY <1>1, RequestFields
<1>3. v \in Value
  BY <1>2 DEF Value, ClientExpiry
<1>4. RegisterTTL(m.expiresAt) \in 1..MaxTTL
  BY <1>2, TTLs DEF Inv, TypeOK
<1>5. /\ RegisterTTL(m.expiresAt) \in Int
      /\ InLease(now + RegisterTTL(m.expiresAt))
  BY <1>4, ShortLease DEF Inv, TypeOK
<1>6. proxies' = Put(proxies, m.id, v, RegisterTTL(m.expiresAt)) /\ now' = now
  BY DEF Register
<1>7. proxies' \in [Id -> Entry \cup {Absent}] /\ ProxyLease'
  <2> HIDE DEF m, v
  <2>1. QED  BY <1>2, <1>3, <1>5, <1>6, ProxiesPut DEF Inv
<1>8. req' \in [Req -> Handler] /\ HandlersOK'
  BY ReplyOK DEF Register, Inv, TypeOK, Status
<1>9. QED  BY <1>7, <1>8, RecordsKept DEF Register, Inv, TypeOK

\* /heartbeat holds the value it read across the await.
LEMMA HeartbeatReadStep ==
    ASSUME Inv, NEW r \in Req, HeartbeatRead(r)
    PROVE  Inv'
<1> DEFINE m == req[r].msg
<1>1. m \in Request /\ m.op = "heartbeat" /\ m.check = "ok"
  BY DEF HeartbeatRead, At, Inv, HandlersOK, HandlerOK
<1>2. m.id \in Id
  BY <1>1, RequestFields
<1>3. req' \in [Req -> Handler] /\ HandlersOK'
  <2>1. CASE Live(proxies[m.id])
    <3>1. Got(proxies[m.id]) \in Value
      BY <1>2, <2>1, GotType DEF Inv, TypeOK
    <3>2. QED
      BY <1>1, <2>1, <3>1, RunningOK DEF HeartbeatRead, Inv, TypeOK, Step
  <2>2. CASE ~Live(proxies[m.id])
    BY <2>2, ReplyOK DEF HeartbeatRead, Inv, TypeOK, Status
  <2>3. QED  BY <2>1, <2>2
<1>4. QED
  BY <1>3, ProxiesSwept, RecordsKept DEF HeartbeatRead, Inv, TypeOK

\* It writes that value back with a TTL that only the client's expiry bounds.
LEMMA HeartbeatWriteStep ==
    ASSUME Inv, NEW r \in Req, HeartbeatWrite(r)
    PROVE  Inv'
<1> DEFINE m == req[r].msg
           ttl == HeartbeatTTL(m.expiresAt)
<1>1. /\ m \in Request /\ m.op = "heartbeat" /\ m.check = "ok"
      /\ req[r].held \in Value
  BY DEF HeartbeatWrite, At, Inv, HandlersOK, HandlerOK
<1>2. m.id \in Id /\ m.expiresAt \in ClientExpiry
  BY <1>1, RequestFields
<1>3. ttl \in Int /\ InLease(now + ttl)
  BY <1>2, TTLs DEF Inv, TypeOK
<1>4. proxies' = Put(proxies, m.id, req[r].held, ttl) /\ now' = now
  BY DEF HeartbeatWrite
<1>5. proxies' \in [Id -> Entry \cup {Absent}] /\ ProxyLease'
  <2> HIDE DEF m, ttl
  <2>1. QED  BY <1>1, <1>2, <1>3, <1>4, ProxiesPut DEF Inv
<1>6. req' \in [Req -> Handler] /\ HandlersOK'
  BY ReplyOK DEF HeartbeatWrite, Inv, TypeOK, Status
<1>7. QED  BY <1>5, <1>6, RecordsKept DEF HeartbeatWrite, Inv, TypeOK

\* /delete/{id} removes an entry and replies.
LEMMA DeleteStep ==
    ASSUME Inv, NEW r \in Req, Delete(r)
    PROVE  Inv'
<1>1. req' \in [Req -> Handler] /\ HandlersOK'
  BY ReplyOK DEF Delete, Inv, TypeOK, Status
<1>2. QED  BY <1>1, ProxiesSwept, RecordsKept DEF Delete, Inv, TypeOK

\* What a listing shows of a key is a value of the family it lists.
LEMMA ListedType ==
    ASSUME NEW k \in Key, NEW e \in Entry \cup {Absent}, NEW op
    PROVE  Listed(op, k, e) \in SUBSET (Key \X Value)
BY DEF Listed, Live, Entry

\* /sub/{id}: a 404, or a scan that has nothing left to read.
LEMMA SubReadStep ==
    ASSUME Inv, NEW r \in Req, SubRead(r)
    PROVE  Inv'
<1> DEFINE m == req[r].msg
<1>1. m \in Request /\ m.op = "sub" /\ m.check = "ok"
  BY DEF SubRead, At, Inv, HandlersOK, HandlerOK
<1>2. m.id \in Id /\ m.id \in Key /\ proxies[m.id] \in Entry \cup {Absent}
  BY <1>1, RequestFields DEF Key, Inv, TypeOK
<1>3. req' \in [Req -> Handler] /\ HandlersOK'
  <2>1. CASE Live(proxies[m.id])
    <3>1. Listed("sub", m.id, proxies[m.id]) \in SUBSET (Key \X Value)
      BY <1>2, ListedType
    <3>2. Becomes(r, Scanning(m, {}, Listed("sub", m.id, proxies[m.id])))
      BY <2>1 DEF SubRead
    <3>3. QED  BY <1>1, <3>1, <3>2, ScanningOK DEF Inv, TypeOK
  <2>2. CASE ~Live(proxies[m.id])
    BY <2>2, ReplyOK DEF SubRead, Inv, TypeOK, Status
  <2>3. QED  BY <2>1, <2>2
<1>4. QED
  BY <1>3, ProxiesSwept, RecordsKept DEF SubRead, Inv, TypeOK

\* /mesh/heartbeat holds the record it read across the await.
LEMMA MeshHeartbeatReadStep ==
    ASSUME Inv, NEW r \in Req, MeshHeartbeatRead(r)
    PROVE  Inv'
<1> DEFINE m == req[r].msg
           k == <<m.net, m.id>>
<1>1. m \in Request /\ m.op = "meshHeartbeat" /\ m.check = "ok"
  BY DEF MeshHeartbeatRead, At, Inv, HandlersOK, HandlerOK
<1>2. k \in MeshKey
  BY <1>1, RequestFields DEF MeshKey
<1>3. req' \in [Req -> Handler] /\ HandlersOK'
  <2>1. CASE Live(records[k])
    <3>1. Got(records[k]) \in Value
      BY <1>2, <2>1, GotType DEF Inv, TypeOK
    <3>2. Becomes(r, Running(m, "renewMesh", Got(records[k]), 0))
      BY <2>1 DEF MeshHeartbeatRead
    <3>3. "renewMesh" \in Step \ {"idle", "scan"}
      BY DEF Step
    <3>4. QED  BY <1>1, <3>1, <3>2, <3>3, RunningOK DEF Inv, TypeOK
  <2>2. CASE ~Live(records[k])
    BY <2>2, ReplyOK DEF MeshHeartbeatRead, Inv, TypeOK, Status
  <2>3. QED  BY <2>1, <2>2
<1>4. QED
  BY <1>3, RecordsSwept, ProxiesKept DEF MeshHeartbeatRead, Inv, TypeOK

\* It puts the record back with a TTL within MaxTTL, and keeps that TTL.
LEMMA MeshHeartbeatWriteStep ==
    ASSUME Inv, NEW r \in Req, MeshHeartbeatWrite(r)
    PROVE  Inv'
<1> DEFINE m == req[r].msg
           k == <<m.net, m.id>>
           x == IF m.expiresAt # NoExpiry THEN m.expiresAt
                ELSE req[r].held.expiresAt
           ttl == MeshTTL(x)
<1>1. /\ m \in Request /\ m.op = "meshHeartbeat" /\ m.check = "ok"
      /\ req[r].held \in Value
  BY DEF MeshHeartbeatWrite, At, Inv, HandlersOK, HandlerOK
<1>2. k \in MeshKey /\ m.expiresAt \in ClientExpiry
  BY <1>1, RequestFields DEF MeshKey
<1>3. x \in ClientExpiry
  BY <1>1, <1>2 DEF Value, ClientExpiry
<1>4. ttl \in 1..MaxTTL /\ ttl \in Int
  <2> HIDE DEF x
  <2>1. QED  BY <1>3, TTLs, CoordinatorAssumption DEF Inv, TypeOK
<1>5. /\ records' = Put(records, k, req[r].held, ttl) /\ now' = now
      /\ Becomes(r, Running(m, "readProxy", Absent, ttl))
      /\ UNCHANGED <<now, proxies>>
  BY DEF MeshHeartbeatWrite
<1> HIDE DEF m, k, x, ttl
<1>6. records' \in [MeshKey -> Entry \cup {Absent}] /\ MeshLease'
  BY <1>1, <1>2, <1>4, <1>5, RecordsPut DEF Inv
<1>7. req' \in [Req -> Handler] /\ HandlersOK'
  <2>1. "readProxy" \in Step \ {"idle", "scan"}
    BY DEF Step
  <2>2. QED  BY <1>1, <1>4, <1>5, <2>1, RunningOK DEF Inv, TypeOK
<1>8. QED  BY <1>5, <1>6, <1>7, ProxiesKept DEF Inv, TypeOK

\* It holds the node's proxy entry, if there is a live one.
LEMMA MeshHeartbeatReadProxyStep ==
    ASSUME Inv, NEW r \in Req, MeshHeartbeatReadProxy(r)
    PROVE  Inv'
<1> DEFINE m == req[r].msg
<1>1. /\ m \in Request /\ m.op = "meshHeartbeat" /\ m.check = "ok"
      /\ req[r].ttl \in 1..MaxTTL
  BY DEF MeshHeartbeatReadProxy, At, Inv, HandlersOK, HandlerOK
<1>2. m.id \in Id
  BY <1>1, RequestFields
<1>3. req' \in [Req -> Handler] /\ HandlersOK'
  <2>1. CASE Live(proxies[m.id])
    <3>1. Got(proxies[m.id]) \in Value
      BY <1>2, <2>1, GotType DEF Inv, TypeOK
    <3>2. Becomes(r, Running(m, "renewProxy", Got(proxies[m.id]), req[r].ttl))
      BY <2>1 DEF MeshHeartbeatReadProxy
    <3>3. "renewProxy" \in Step \ {"idle", "scan"} /\ req[r].ttl \in Int
      BY <1>1, CoordinatorAssumption DEF Step
    <3>4. QED  BY <1>1, <3>1, <3>2, <3>3, RunningOK DEF Inv, TypeOK
  <2>2. CASE ~Live(proxies[m.id])
    BY <2>2, ReplyOK DEF MeshHeartbeatReadProxy, Inv, TypeOK, Status
  <2>3. QED  BY <2>1, <2>2
<1>4. QED
  BY <1>3, ProxiesSwept, RecordsKept DEF MeshHeartbeatReadProxy, Inv, TypeOK

\* The TTL it computed for the record is within bounds for the proxy too.
LEMMA MeshHeartbeatWriteProxyStep ==
    ASSUME Inv, NEW r \in Req, MeshHeartbeatWriteProxy(r)
    PROVE  Inv'
<1> DEFINE m == req[r].msg
<1>1. /\ m \in Request /\ m.op = "meshHeartbeat" /\ m.check = "ok"
      /\ req[r].ttl \in 1..MaxTTL /\ req[r].held \in Value
  BY DEF MeshHeartbeatWriteProxy, At, Inv, HandlersOK, HandlerOK
<1>2. m.id \in Id
  BY <1>1, RequestFields
<1>3. req[r].ttl \in Int /\ InLease(now + req[r].ttl)
  BY <1>1, ShortLease DEF Inv, TypeOK
<1>4. proxies' = Put(proxies, m.id, req[r].held, req[r].ttl) /\ now' = now
  BY DEF MeshHeartbeatWriteProxy
<1>5. proxies' \in [Id -> Entry \cup {Absent}] /\ ProxyLease'
  <2> HIDE DEF m
  <2>1. QED  BY <1>1, <1>2, <1>3, <1>4, ProxiesPut DEF Inv
<1>6. req' \in [Req -> Handler] /\ HandlersOK'
  BY ReplyOK DEF MeshHeartbeatWriteProxy, Inv, TypeOK, Status
<1>7. QED  BY <1>5, <1>6, RecordsKept DEF MeshHeartbeatWriteProxy, Inv, TypeOK

\* /mesh/deregister removes the record, and then the proxy entry.
LEMMA DeregisterSteps ==
    ASSUME Inv, NEW r \in Req, DeregisterMesh(r) \/ DeregisterProxy(r)
    PROVE  Inv'
<1>1. CASE DeregisterMesh(r)
  <2>1. req[r].msg \in Request
    BY <1>1 DEF DeregisterMesh, At, Inv, HandlersOK, HandlerOK
  <2>2. Becomes(r, Running(req[r].msg, "dropProxy", Absent, 0))
    BY <1>1 DEF DeregisterMesh
  <2>3. req' \in [Req -> Handler] /\ HandlersOK'
    BY <2>1, <2>2, WaitingOK DEF Inv, TypeOK
  <2>4. QED
    BY <1>1, <2>3, RecordsSwept, ProxiesKept DEF DeregisterMesh, Inv, TypeOK
<1>2. CASE DeregisterProxy(r)
  <2>1. req' \in [Req -> Handler] /\ HandlersOK'
    BY <1>2, ReplyOK DEF DeregisterProxy, Inv, TypeOK, Status
  <2>2. QED
    BY <1>2, <2>1, ProxiesSwept, RecordsKept DEF DeregisterProxy, Inv, TypeOK
<1>3. QED  BY <1>1, <1>2

\* A listing starts from the keys of its own family.
LEMMA ListKeysStep ==
    ASSUME Inv, NEW r \in Req, ListKeys(r)
    PROVE  Inv'
<1> DEFINE m == req[r].msg
           K == IF m.op \in ProxyListing THEN LiveKeys(proxies)
                ELSE LiveKeys(records)
<1>1. m \in Request /\ m.op \in Listing
  BY DEF ListKeys, Inv, HandlersOK, HandlerOK
<1>2. \/ m.op \in ProxyListing /\ K \subseteq Id
      \/ m.op = "meshStatus" /\ K \subseteq MeshKey
  BY <1>1 DEF LiveKeys, Listing, Inv, TypeOK
<1>3. Becomes(r, Scanning(m, K, {}))
  BY DEF ListKeys
<1>4. req' \in [Req -> Handler] /\ HandlersOK'
  <2> HIDE DEF K, m
  <2>1. {} \in SUBSET (Key \X Value)
    OBVIOUS
  <2>2. QED  BY <1>1, <1>2, <1>3, <2>1, ScanningOK DEF Inv, TypeOK
<1>5. QED
  BY <1>4, ProxiesSwept, RecordsSwept DEF ListKeys, Inv, TypeOK

\* It reads one of them, which is then no longer to be read.
LEMMA ListReadStep ==
    ASSUME Inv, NEW r \in Req, ListRead(r)
    PROVE  Inv'
<1> DEFINE m == req[r].msg
           h == req[r]
           E(k) == IF m.op \in ProxyListing THEN proxies[k] ELSE records[k]
<1>1. /\ m \in Request /\ h \in Handler
      /\ \/ m.op \in ProxyListing /\ h.todo \subseteq Id
         \/ m.op = "meshStatus" /\ h.todo \subseteq MeshKey
         \/ m.op = "sub" /\ h.todo = {}
  BY DEF ListRead, Inv, TypeOK, HandlersOK, HandlerOK
<1>2. PICK k \in h.todo :
        /\ Becomes(r, Scanning(m, h.todo \ {k},
                              h.result \cup Listed(m.op, k, E(k))))
        /\ IF m.op \in ProxyListing
           THEN proxies' = Swept(proxies, {k}) /\ UNCHANGED records
           ELSE records' = Swept(records, {k}) /\ UNCHANGED proxies
        /\ now' = now
  BY DEF ListRead
<1>3. k \in Key /\ E(k) \in Entry \cup {Absent}
  BY <1>1, <1>2 DEF Key, ProxyListing, Inv, TypeOK
<1>4. req' \in [Req -> Handler] /\ HandlersOK'
  <2>1. Listed(m.op, k, E(k)) \in SUBSET (Key \X Value)
    <3> HIDE DEF E
    <3>1. QED  BY <1>3, ListedType
  <2>2. h.result \in SUBSET (Key \X Value)
    BY <1>1 DEF Handler
  <2>3. h.result \cup Listed(m.op, k, E(k)) \in SUBSET (Key \X Value)
    BY <2>1, <2>2
  <2>4. \/ m.op \in ProxyListing /\ h.todo \ {k} \subseteq Id
        \/ m.op = "meshStatus" /\ h.todo \ {k} \subseteq MeshKey
        \/ m.op = "sub" /\ h.todo \ {k} = {}
    BY <1>1
  <2> HIDE DEF m, h, E
  <2>5. QED  BY <1>1, <1>2, <2>3, <2>4, ScanningOK DEF Inv, TypeOK
<1>5. CASE m.op \in ProxyListing
  BY <1>2, <1>4, <1>5, ProxiesSwept, RecordsKept DEF Inv, TypeOK
<1>6. CASE m.op \notin ProxyListing
  BY <1>2, <1>4, <1>6, RecordsSwept, ProxiesKept DEF Inv, TypeOK
<1>7. QED  BY <1>5, <1>6

-----------------------------------------------------------------------------
(* The steps of no handler, and the whole.                                 *)

\* A restart closes every slot and, without KV, empties the store.
LEMMA RestartStep ==
    ASSUME Inv, Restart
    PROVE  Inv'
<1>1. req' \in [Req -> Handler] /\ HandlersOK'
  <2>1. Closed(0) \in Handler /\ HandlerOK(Closed(0))
    BY ClosedOK DEF Status
  <2>2. QED  BY <2>1 DEF Restart, Inv, TypeOK, HandlersOK
<1>2. /\ proxies' \in [Id -> Entry \cup {Absent}]
      /\ records' \in [MeshKey -> Entry \cup {Absent}]
      /\ \A i \in Id : proxies'[i] \in {proxies[i], Absent}
      /\ \A k \in MeshKey : records'[k] \in {records[k], Absent}
  BY DEF Restart, store, Inv, TypeOK
<1>3. now' \in Int /\ now' >= now
  BY DEF Restart, Inv, TypeOK
<1>4. QED
  BY <1>1, <1>2, <1>3, ProxiesRemoved, RecordsRemoved DEF Inv, TypeOK

\* Time passes: nothing is renewed, and entries can only go.
LEMMA TickStep ==
    ASSUME Inv, Tick
    PROVE  Inv'
<1>1. now' \in Int /\ now' >= now
  BY DEF Tick, Inv, TypeOK
<1>2. /\ proxies' \in [Id -> Entry \cup {Absent}]
      /\ records' \in [MeshKey -> Entry \cup {Absent}]
      /\ \A i \in Id : proxies'[i] \in {proxies[i], Absent}
      /\ \A k \in MeshKey : records'[k] \in {records[k], Absent}
  BY RemoveType DEF Tick, Inv, TypeOK
<1>3. req' \in [Req -> Handler] /\ HandlersOK'
  BY DEF Tick, Inv, TypeOK, HandlersOK
<1>4. QED
  BY <1>1, <1>2, <1>3, ProxiesRemoved, RecordsRemoved DEF Inv, TypeOK

\* A deployment that finds records in its store finds them within bounds.
LEMMA InitInv == Init => Inv
<1> SUFFICES ASSUME Init PROVE Inv
  OBVIOUS
<1>1. now = 0 /\ req = [r \in Req |-> Closed(200)]
  BY DEF Init
<1>2. ASSUME NEW e \in Endpoint, NEW x \in Expiry
      PROVE  Persisted(e, x) \in Entry /\ Persisted(e, x).expires <= MaxTTL
  <2>1. MeshTTL(x) \in 1..MaxTTL
    BY <1>1, TTLs DEF ClientExpiry
  <2>2. QED
    BY <1>1, <2>1, CoordinatorAssumption DEF Persisted, Stored, Entry, Value
<1>3. /\ records \in [MeshKey -> Entry \cup {Absent}]
      /\ \A k \in MeshKey : records[k] # Absent => records[k].expires <= MaxTTL
  BY <1>2 DEF Init, InitRecords
<1>4. /\ proxies \in [Id -> {Absent} \cup {records[k] : k \in MeshKey}]
  BY DEF Init
<1>5. /\ proxies \in [Id -> Entry \cup {Absent}]
      /\ \A i \in Id : proxies[i] # Absent => proxies[i].expires <= MaxTTL
  BY <1>3, <1>4
<1>6. req \in [Req -> Handler] /\ HandlersOK
  <2>1. Closed(200) \in Handler /\ HandlerOK(Closed(200))
    BY ClosedOK DEF Status
  <2>2. QED  BY <1>1, <2>1 DEF HandlersOK
<1>7. MeshLease
  BY <1>1, <1>3, CoordinatorAssumption DEF MeshLease
<1>8. ProxyLease
  BY <1>1, <1>5, CoordinatorAssumption DEF ProxyLease
<1>9. QED  BY <1>1, <1>3, <1>5, <1>6, <1>7, <1>8 DEF Inv, TypeOK

\* No step of a handler, no failure and no passing of time breaks it.
LEMMA NextInv == Inv /\ [Next]_vars => Inv'
<1> SUFFICES ASSUME Inv, [Next]_vars PROVE Inv'
  OBVIOUS
<1>1. ASSUME NEW r \in Req, (\E m \in Sent : Send(r, m)) \/ Handle(r) \/ Fail(r)
      PROVE  Inv'
  BY <1>1, QuietSteps, RegisterStep, HeartbeatReadStep, HeartbeatWriteStep,
     DeleteStep, SubReadStep, MeshHeartbeatReadStep, MeshHeartbeatWriteStep,
     MeshHeartbeatReadProxyStep, MeshHeartbeatWriteProxyStep, DeregisterSteps,
     ListKeysStep, ListReadStep DEF Handle
<1>2. CASE UNCHANGED vars
  BY <1>2 DEF vars, store, Inv, TypeOK, HandlersOK, MeshLease, ProxyLease
<1>3. QED  BY <1>1, <1>2, RestartStep, TickStep DEF Next

\* Hence the invariant holds throughout, for every value of the constants.
THEOREM Invariance == Spec => []Inv
BY InitInv, NextInv, PTL DEF Spec

\* Every state has its type.
THEOREM TypeCorrect == Spec => []TypeOK
<1>1. Inv => TypeOK
  BY DEF Inv
<1>2. QED  BY <1>1, Invariance, PTL

\* A handler that resumes after an await has what it is going to write.
THEOREM HandlersInOrder == Spec => []HandlersOK
<1>1. Inv => HandlersOK
  BY DEF Inv
<1>2. QED  BY <1>1, Invariance, PTL

\* However requests interleave, and whatever they ask for, no mesh record is
\* leased for more than two hours.
THEOREM MeshLeaseBounded == Spec => []MeshLease
<1>1. Inv => MeshLease
  BY DEF Inv
<1>2. QED  BY <1>1, Invariance, PTL

\* No proxy entry is leased for more than two hours, or the buffer beyond the
\* latest expiry a client ever names.
THEOREM ProxyLeaseBounded == Spec => []ProxyLease
<1>1. Inv => ProxyLease
  BY DEF Inv
<1>2. QED  BY <1>1, Invariance, PTL
=============================================================================
