----------------------------- MODULE Coordinator -----------------------------
(***************************************************************************)
(* The coordinator: the Cloudflare Worker of worker/src/index.ts.          *)
(*                                                                         *)
(* The Worker keeps two families of keys in its store, proxy:<id> and      *)
(* mesh:<networkId>:<nodeId>.  Each entry has a value and an expiry time.  *)
(* The store is the KV namespace BPB_KV when one is bound, otherwise a Map *)
(* in the isolate's memory.  A request is a process of its own: it gives   *)
(* up control at every await, so one action below is the code between two  *)
(* awaits on the store, and the requests in flight interleave.             *)
(*                                                                         *)
(* One unit of time is the grain of a TTL; the code counts in seconds.     *)
(*                                                                         *)
(* A definition marked [mutant] is no part of the specification: it is a   *)
(* mistake this code could have made, there to show that a property would  *)
(* find it.                                                                *)
(***************************************************************************)
EXTENDS Integers, FiniteSets

CONSTANTS
    Req,         \* slots for the requests in flight
    Id,          \* proxy ids and mesh node ids, which share one name space
    Net,         \* network ids
    NetworkId,   \* env.NETWORK_ID, or Absent when it is not set
    Endpoint,    \* what a client registers: protocol, host, port, secret
    Keyless,     \* the endpoints registered without a uuid or password
    EnvSecrets,  \* whether VLESS_UUID and HY2_PASSWORD are set
    KVBound,     \* whether the KV namespace is bound
    Ops,         \* the operations the clients of this instance call
    Expiry,      \* the expiresAt values the clients of this instance send
    NoExpiry,    \* no expiresAt in the request
    MinTTL, DefaultTTL, Buffer, MaxTTL,   \* 60, 3600, 300 and 7200 seconds
    Horizon,     \* bound of the clock
    Absent       \* null

Operation ==
    {"register", "heartbeat", "delete", "sub", "subAll", "proxies",
     "meshRegister", "meshHeartbeat", "meshDeregister", "meshStatus"}

ASSUME CoordinatorAssumption ==
    /\ Keyless \subseteq Endpoint
    /\ EnvSecrets \in BOOLEAN
    /\ KVBound \in BOOLEAN
    /\ NetworkId \in Net \cup {Absent}
    /\ Ops \subseteq Operation
    /\ Expiry \subseteq Int
    /\ NoExpiry \in Int \ Expiry
    /\ {MinTTL, DefaultTTL, Buffer, MaxTTL} \subseteq Nat \ {0}
    /\ MinTTL <= MaxTTL
    /\ DefaultTTL + Buffer <= MaxTTL
    /\ Horizon \in Nat

\* A value under a key, and an entry of the store.
Value == [endpoint : Endpoint, expiresAt : Expiry \cup {NoExpiry}]
Entry == [value : Value, expires : Int]

\* No entry and no key can be mistaken for the absence of one.
ASSUME AbsentAssumption ==
    /\ Absent \notin Entry
    /\ Absent \notin Value
    /\ Absent \notin Id
    /\ Absent \notin Net
    /\ Absent \notin Endpoint

VARIABLES
    now,       \* Date.now()
    proxies,   \* the entry under proxy:<id>, or Absent
    records,   \* the entry under mesh:<networkId>:<nodeId>, or Absent
    req        \* the handler that runs in each slot

store == <<proxies, records>>
vars == <<now, proxies, records, req>>

-----------------------------------------------------------------------------
(* What clients send.  A field the operation does not use is Absent.  The  *)
(* check says what the handler finds first: "auth" that checkAuth refuses  *)
(* the request, "fields" that a field its endpoint requires is missing,    *)
(* "ok" neither.  An "ok" meshRegister carries a record whose every field  *)
(* and whose signature are valid.                                          *)

ClientExpiry == Expiry \cup {NoExpiry}

ProxyRequest ==
    [op : {"register"}, id : Id, net : {Absent}, endpoint : Endpoint,
     expiresAt : ClientExpiry, check : {"ok"}]
    \cup
    [op : {"heartbeat"}, id : Id, net : {Absent}, endpoint : {Absent},
     expiresAt : ClientExpiry, check : {"ok"}]
    \cup
    [op : {"delete", "sub"}, id : Id, net : {Absent}, endpoint : {Absent},
     expiresAt : {NoExpiry}, check : {"ok"}]

MeshRequest ==
    [op : {"meshRegister"}, id : Id, net : Net, endpoint : Endpoint,
     expiresAt : Expiry, check : {"ok"}]
    \cup
    [op : {"meshHeartbeat"}, id : Id, net : Net, endpoint : {Absent},
     expiresAt : ClientExpiry, check : {"ok"}]
    \cup
    [op : {"meshDeregister"}, id : Id, net : Net, endpoint : {Absent},
     expiresAt : {NoExpiry}, check : {"ok"}]

ListRequest ==
    [op : {"subAll", "proxies", "meshStatus"}, id : {Absent}, net : {Absent},
     endpoint : {Absent}, expiresAt : {NoExpiry}, check : {"ok"}]

\* The endpoints behind checkAuth, and those that return a listing.
Protected == {"register", "heartbeat", "delete",
              "meshRegister", "meshHeartbeat", "meshDeregister"}
ProxyListing == {"subAll", "proxies"}
Listing == ProxyListing \cup {"meshStatus"}

\* The requests that fail a check; what else is in them does not matter.
Refused ==
    [op : Protected, id : {Absent}, net : {Absent}, endpoint : {Absent},
     expiresAt : {NoExpiry}, check : {"auth", "fields"}]

Request == ProxyRequest \cup MeshRequest \cup ListRequest \cup Refused

\* Where a handler stands: waiting for the client's body, or about to make
\* the named call on the store.
Step == {"idle", "recv", "renew", "renewMesh", "readProxy", "renewProxy",
         "dropProxy", "scan"}

\* Response codes; 0 is a connection that broke before the response.
Status == {0, 200, 400, 401, 404, 500}

MeshKey == Net \X Id
Key == Id \cup MeshKey

Handler ==
    [msg : Request \cup {Absent}, step : Step,
     held : Value \cup {Absent},       \* the value read before an await
     ttl : Int,                        \* the TTL computed before an await
     todo : SUBSET Key,                \* keys of a listing still to be read
     result : SUBSET (Key \X Value),   \* what the response lists
     status : Status]

\* A slot without a handler: its last response had the given status.
Closed(status) ==
    [msg |-> Absent, step |-> "idle", held |-> Absent, ttl |-> 0,
     todo |-> {}, result |-> {}, status |-> status]

\* The handler of m at one of its awaits, with the value and TTL it holds.
Running(m, step, held, ttl) ==
    [msg |-> m, step |-> step, held |-> held, ttl |-> ttl,
     todo |-> {}, result |-> {}, status |-> 200]

\* The handler of m with the keys it has yet to read and what it found.
Scanning(m, todo, result) ==
    [msg |-> m, step |-> "scan", held |-> Absent, ttl |-> 0,
     todo |-> todo, result |-> result, status |-> 200]

-----------------------------------------------------------------------------
(* TTLs.  Each endpoint computes its own.  The time left is floored to     *)
(* whole seconds; an expiresAt that is past, or is no date, falls back to  *)
(* the default.                                                            *)

Min2(a, b) == IF a <= b THEN a ELSE b
Max2(a, b) == IF a >= b THEN a ELSE b

\* remaining > 0 ? remaining : 3600
Remaining(expiresAt) == IF expiresAt > now THEN expiresAt - now ELSE DefaultTTL

\* /register caps the TTL.
RegisterTTL(expiresAt) ==
    IF expiresAt = NoExpiry THEN DefaultTTL
    ELSE Min2(Remaining(expiresAt) + Buffer, MaxTTL)

\* [mutant] the expiry is taken for a duration
HeartbeatTTL_Absolute(expiresAt) ==
    IF expiresAt # NoExpiry THEN expiresAt + Buffer ELSE DefaultTTL

\* /heartbeat does not, and adds the buffer only to a time in the future.
HeartbeatTTL(expiresAt) ==
    IF expiresAt # NoExpiry /\ expiresAt > now THEN expiresAt - now + Buffer
    ELSE DefaultTTL

\* [mutant] without the cap
MeshTTL_NoCap(expiresAt) == Max2(MinTTL, Remaining(expiresAt) + Buffer)

\* ttlFromExpiresAt
MeshTTL(expiresAt) ==
    Max2(MinTTL, Min2(Remaining(expiresAt) + Buffer, MaxTTL))

-----------------------------------------------------------------------------
(* The store.  kvGet and kvList of the in-memory Map delete an expired     *)
(* entry when they meet it; the KV namespace drops it by itself.           *)

Expired(e) == e # Absent /\ now > e.expires
Live(e) == e # Absent /\ ~Expired(e)

Stored(v, ttl) == [value |-> v, expires |-> now + ttl]

\* The value kvGet returns for the entry e.
Got(e) == IF Live(e) THEN e.value ELSE Absent

\* The family f of keys after kvGet met the keys in K.
Swept(f, K) ==
    IF KVBound THEN f
    ELSE [k \in DOMAIN f |-> IF k \in K /\ Expired(f[k]) THEN Absent ELSE f[k]]

Put(f, k, v, ttl) == [f EXCEPT ![k] = Stored(v, ttl)]
Without(f, k) == [f EXCEPT ![k] = Absent]

\* [mutant] an entry in its last moment is not listed
LiveKeys_OffByOne(f) ==
    {k \in DOMAIN f : f[k] # Absent /\ now < f[k].expires}

LiveKeys(f) == {k \in DOMAIN f : Live(f[k])}

-----------------------------------------------------------------------------
(* Helpers of the handlers.                                                *)

\* The request in slot r is for op, passed its checks, and stands at s.
At(r, op, s) ==
    /\ req[r].step = s
    /\ req[r].msg.op = op
    /\ req[r].msg.check = "ok"

Becomes(r, h) == req' = [req EXCEPT ![r] = h]

Reply(r, status) == Becomes(r, Closed(status))

\* generateSubscription leaves out a configuration without uuid or password
\* unless the environment has one; /mesh/status keeps the records of the
\* coordinator's own network.
Shown(op, k, v) ==
    CASE op \in {"subAll", "sub"} -> v.endpoint \notin Keyless \/ EnvSecrets
      [] op = "meshStatus" -> NetworkId \in {Absent, k[1]}
      [] OTHER -> TRUE

\* What a response to op has for the key k when kvGet meets the entry e.
Listed(op, k, e) ==
    IF Live(e) /\ Shown(op, k, e.value) THEN {<<k, e.value>>} ELSE {}

-----------------------------------------------------------------------------
(* A store that outlives the deployment.  At this commit no handler ever   *)
(* writes a new mesh record (see MeshRegister), so those that exist were   *)
(* put in the namespace before the Worker started, with the proxy entry    *)
(* that goes with a record or, where it was deleted since, without it.     *)

Persisted(e, x) == Stored([endpoint |-> e, expiresAt |-> x], MeshTTL(x))

InitRecords ==
    IF KVBound
    THEN [MeshKey -> {Absent} \cup
            {Persisted(e, x) : e \in Endpoint, x \in {y \in Expiry : y > now}}]
    ELSE [MeshKey -> {Absent}]

Init ==
    /\ now = 0
    /\ records \in InitRecords
    /\ proxies \in {f \in [Id -> {Absent} \cup {records[k] : k \in MeshKey}] :
                    \A i \in Id : f[i] \in {Absent} \cup
                                          {records[<<n, i>>] : n \in Net}}
    /\ req = [r \in Req |-> Closed(200)]

\* A client sends a request.
Send(r, m) ==
    /\ req[r].step = "idle"
    /\ Becomes(r, Running(m, "recv", Absent, 0))
    /\ UNCHANGED <<now, store>>

\* checkAuth fails, or a required field is missing.
Reject(r) ==
    /\ req[r].step = "recv"
    /\ \/ req[r].msg.check = "auth" /\ Reply(r, 401)
       \/ req[r].msg.check = "fields" /\ Reply(r, 400)
    /\ UNCHANGED <<now, store>>

-----------------------------------------------------------------------------
(* POST /register, POST /heartbeat, DELETE /delete/{id}, GET /sub/{id}     *)

\* [mutant] a registration does not replace a live one
Register_KeepsOld(r) ==
    LET m == req[r].msg
    IN  /\ At(r, "register", "recv")
        /\ proxies' = IF Live(proxies[m.id]) THEN proxies
                      ELSE Put(proxies, m.id,
                               [endpoint |-> m.endpoint,
                                expiresAt |-> m.expiresAt],
                               RegisterTTL(m.expiresAt))
        /\ Reply(r, 200)
        /\ UNCHANGED <<now, records>>

Register(r) ==
    LET m == req[r].msg
    IN  /\ At(r, "register", "recv")
        /\ proxies' = Put(proxies, m.id,
                          [endpoint |-> m.endpoint, expiresAt |-> m.expiresAt],
                          RegisterTTL(m.expiresAt))
        /\ Reply(r, 200)
        /\ UNCHANGED <<now, records>>

\* [mutant] no 404 for a proxy that is not there
HeartbeatRead_NoCheck(r) ==
    LET id == req[r].msg.id
    IN  /\ At(r, "heartbeat", "recv")
        /\ Becomes(r, Running(req[r].msg, "renew", Got(proxies[id]), 0))
        /\ proxies' = Swept(proxies, {id})
        /\ UNCHANGED <<now, records>>

HeartbeatRead(r) ==
    LET id == req[r].msg.id
    IN  /\ At(r, "heartbeat", "recv")
        /\ IF Live(proxies[id])
           THEN Becomes(r, Running(req[r].msg, "renew", Got(proxies[id]), 0))
           ELSE Reply(r, 404)
        /\ proxies' = Swept(proxies, {id})
        /\ UNCHANGED <<now, records>>

\* [mutant] what was read is kept in a variable that all handlers share
HeartbeatWrite_Shared(r) ==
    LET m == req[r].msg
    IN  /\ At(r, "heartbeat", "renew")
        /\ \E s \in Req :
             /\ req[s].step = "renew"
             /\ proxies' = Put(proxies, m.id, req[s].held,
                               HeartbeatTTL(m.expiresAt))
        /\ Reply(r, 200)
        /\ UNCHANGED <<now, records>>

\* The entry is put back as it was read, whatever happened to it since.
HeartbeatWrite(r) ==
    LET m == req[r].msg
    IN  /\ At(r, "heartbeat", "renew")
        /\ proxies' = Put(proxies, m.id, req[r].held, HeartbeatTTL(m.expiresAt))
        /\ Reply(r, 200)
        /\ UNCHANGED <<now, records>>

Delete(r) ==
    /\ At(r, "delete", "recv")
    /\ proxies' = Without(proxies, req[r].msg.id)
    /\ Reply(r, 200)
    /\ UNCHANGED <<now, records>>

SubRead(r) ==
    LET id == req[r].msg.id
    IN  /\ At(r, "sub", "recv")
        /\ IF Live(proxies[id])
           THEN Becomes(r, Scanning(req[r].msg, {},
                                    Listed("sub", id, proxies[id])))
           ELSE Reply(r, 404)
        /\ proxies' = Swept(proxies, {id})
        /\ UNCHANGED <<now, records>>

-----------------------------------------------------------------------------
(* The mesh endpoints.                                                     *)

\* verifyPublicRecord: the second return is under no condition, so every
\* record there is gets "Unsupported schema".
Verified(record) == FALSE

\* /mesh/register, and /mesh/heartbeat with a record.
MeshRegister(r) ==
    /\ At(r, "meshRegister", "recv")
    /\ ~Verified(req[r].msg)
    /\ Reply(r, 400)
    /\ UNCHANGED <<now, store>>

MeshHeartbeatRead(r) ==
    LET k == <<req[r].msg.net, req[r].msg.id>>
    IN  /\ At(r, "meshHeartbeat", "recv")
        /\ IF Live(records[k])
           THEN Becomes(r, Running(req[r].msg, "renewMesh", Got(records[k]), 0))
           ELSE Reply(r, 404)
        /\ records' = Swept(records, {k})
        /\ UNCHANGED <<now, proxies>>

MeshHeartbeatWrite(r) ==
    LET m == req[r].msg
        ttl == MeshTTL(IF m.expiresAt # NoExpiry THEN m.expiresAt
                       ELSE req[r].held.expiresAt)
    IN  /\ At(r, "meshHeartbeat", "renewMesh")
        /\ records' = Put(records, <<m.net, m.id>>, req[r].held, ttl)
        /\ Becomes(r, Running(m, "readProxy", Absent, ttl))
        /\ UNCHANGED <<now, proxies>>

MeshHeartbeatReadProxy(r) ==
    LET id == req[r].msg.id
    IN  /\ At(r, "meshHeartbeat", "readProxy")
        /\ IF Live(proxies[id])
           THEN Becomes(r, Running(req[r].msg, "renewProxy", Got(proxies[id]),
                                   req[r].ttl))
           ELSE Reply(r, 200)
        /\ proxies' = Swept(proxies, {id})
        /\ UNCHANGED <<now, records>>

\* [mutant] the TTL is taken for a moment
MeshHeartbeatWriteProxy_Late(r) ==
    /\ At(r, "meshHeartbeat", "renewProxy")
    /\ proxies' = Put(proxies, req[r].msg.id, req[r].held, now + req[r].ttl)
    /\ Reply(r, 200)
    /\ UNCHANGED <<now, records>>

MeshHeartbeatWriteProxy(r) ==
    /\ At(r, "meshHeartbeat", "renewProxy")
    /\ proxies' = Put(proxies, req[r].msg.id, req[r].held, req[r].ttl)
    /\ Reply(r, 200)
    /\ UNCHANGED <<now, records>>

DeregisterMesh(r) ==
    /\ At(r, "meshDeregister", "recv")
    /\ records' = Without(records, <<req[r].msg.net, req[r].msg.id>>)
    /\ Becomes(r, Running(req[r].msg, "dropProxy", Absent, 0))
    /\ UNCHANGED <<now, proxies>>

\* [mutant] what is deleted is again the key of the record
DeregisterProxy_Record(r) ==
    LET m == req[r].msg
    IN  /\ At(r, "meshDeregister", "dropProxy")
        /\ records' = Without(records, <<m.net, m.id>>)
        /\ Reply(r, 200)
        /\ UNCHANGED <<now, proxies>>

DeregisterProxy(r) ==
    /\ At(r, "meshDeregister", "dropProxy")
    /\ proxies' = Without(proxies, req[r].msg.id)
    /\ Reply(r, 200)
    /\ UNCHANGED <<now, records>>

-----------------------------------------------------------------------------
(* The listings: kvList, then one kvGet for every key it returned.         *)

\* [mutant] one pass over the Map, which takes the values with the keys
ListKeys_Values(r) ==
    LET m == req[r].msg
        held == {i \in Id : proxies[i] # Absent}
    IN  /\ req[r].step = "recv" /\ m.op \in Listing
        /\ Becomes(r, Scanning(m, {}, {<<i, proxies[i].value>> : i \in held}))
        /\ UNCHANGED <<now, store>>

ListKeys(r) ==
    LET op == req[r].msg.op
    IN  /\ req[r].step = "recv" /\ op \in Listing
        /\ Becomes(r, Scanning(req[r].msg,
                               IF op \in ProxyListing THEN LiveKeys(proxies)
                               ELSE LiveKeys(records), {}))
        /\ proxies' = Swept(proxies, Id)
        /\ records' = Swept(records, MeshKey)
        /\ UNCHANGED now

\* [mutant] an entry that vanished is asked for again
ListRead_Retries(r) ==
    LET op == req[r].msg.op
    IN  /\ req[r].step = "scan"
        /\ \E k \in req[r].todo :
             LET e == IF op \in ProxyListing THEN proxies[k] ELSE records[k]
             IN  Becomes(r, Scanning(req[r].msg,
                              IF Live(e) THEN req[r].todo \ {k}
                              ELSE req[r].todo,
                              req[r].result \cup Listed(op, k, e)))
        /\ UNCHANGED <<now, store>>

\* An entry that vanished between the two calls is left out.
ListRead(r) ==
    LET op == req[r].msg.op
    IN  /\ req[r].step = "scan"
        /\ \E k \in req[r].todo :
             LET e == IF op \in ProxyListing THEN proxies[k] ELSE records[k]
             IN  /\ Becomes(r, Scanning(req[r].msg, req[r].todo \ {k},
                                       req[r].result \cup Listed(op, k, e)))
                 /\ IF op \in ProxyListing
                    THEN proxies' = Swept(proxies, {k}) /\ UNCHANGED records
                    ELSE records' = Swept(records, {k}) /\ UNCHANGED proxies
        /\ UNCHANGED now

\* The response is built from what the handler collected, and sent.
ListReply(r) ==
    /\ req[r].step = "scan"
    /\ req[r].todo = {}
    /\ Reply(r, 200)
    /\ UNCHANGED <<now, store>>

-----------------------------------------------------------------------------
(* Failures, and time.                                                     *)

\* The body is no JSON, or a call of the namespace throws: the catch at the
\* end of fetch answers 500.  What was stored before stays stored.
Fail(r) ==
    /\ req[r].step # "idle"
    /\ KVBound \/ req[r].step = "recv"
    /\ Reply(r, 500)
    /\ UNCHANGED <<now, store>>

\* The isolate is replaced: its handlers die, and with them the in-memory Map.
Restart ==
    /\ req' = [r \in Req |-> IF req[r].step = "idle" THEN req[r]
                             ELSE Closed(0)]
    /\ IF KVBound THEN UNCHANGED store
       ELSE /\ proxies' = [i \in Id |-> Absent]
            /\ records' = [k \in MeshKey |-> Absent]
    /\ UNCHANGED now

\* Time passes; the namespace drops what has expired.
Dropped(f, t) ==
    IF KVBound
    THEN [k \in DOMAIN f |-> IF f[k] # Absent
                             THEN IF t > f[k].expires THEN Absent ELSE f[k]
                             ELSE Absent]
    ELSE f

Tick ==
    /\ now < Horizon
    /\ now' = now + 1
    /\ proxies' = Dropped(proxies, now + 1)
    /\ records' = Dropped(records, now + 1)
    /\ UNCHANGED req

Handle(r) ==
    \/ Reject(r)
    \/ Register(r) \/ HeartbeatRead(r) \/ HeartbeatWrite(r)
    \/ Delete(r) \/ SubRead(r)
    \/ MeshRegister(r)
    \/ MeshHeartbeatRead(r) \/ MeshHeartbeatWrite(r)
    \/ MeshHeartbeatReadProxy(r) \/ MeshHeartbeatWriteProxy(r)
    \/ DeregisterMesh(r) \/ DeregisterProxy(r)
    \/ ListKeys(r) \/ ListRead(r) \/ ListReply(r)

Sent == {m \in Request : m.op \in Ops}

Next ==
    \/ \E r \in Req : \/ \E m \in Sent : Send(r, m)
                      \/ Handle(r)
                      \/ Fail(r)
    \/ Restart
    \/ Tick

Spec == Init /\ [][Next]_vars

-----------------------------------------------------------------------------
(* Properties.                                                             *)

TypeOK ==
    /\ now \in Int
    /\ proxies \in [Id -> Entry \cup {Absent}]
    /\ records \in [MeshKey -> Entry \cup {Absent}]
    /\ req \in [Req -> Handler]

\* What a handler carries across an await: the request it answers, the value
\* it read before it writes it back, a TTL within the bounds, and keys of the
\* family its listing is about.
HandlerOK(h) ==
    /\ h.step # "idle" => h.msg \in Request
    /\ h.step \in {"renew", "renewMesh", "renewProxy"} => h.held \in Value
    /\ h.step \in {"readProxy", "renewProxy"} => h.ttl \in 1..MaxTTL
    /\ h.step = "scan" =>
           \/ h.msg.op \in ProxyListing /\ h.todo \subseteq Id
           \/ h.msg.op = "meshStatus" /\ h.todo \subseteq MeshKey
           \/ h.msg.op = "sub" /\ h.todo = {}

HandlersOK == \A r \in Req : HandlerOK(req[r])

\* No mesh record is kept for more than two hours from now: every write of
\* one goes through ttlFromExpiresAt (index.ts:247-252).
MeshLease ==
    \A k \in MeshKey : records[k] # Absent => records[k].expires <= now + MaxTTL

\* A proxy entry is kept for more than two hours from now only if a client
\* named an expiry that late: /heartbeat has no cap (index.ts:617-623), so
\* what bounds the life of an entry is the latest expiry anybody sends.
ProxyLease ==
    \A i \in Id : proxies[i] # Absent =>
        \/ proxies[i].expires <= now + MaxTTL
        \/ \E x \in Expiry : proxies[i].expires <= x + Buffer

\* Every request is answered, whatever the others do meanwhile: no handler
\* waits for another one, and a listing ends even if the entries it was going
\* to read are gone.
Answered == \A r \in Req : req[r].step # "idle" ~> req[r].step = "idle"

\* A record that passes every check of verifyPublicRecord (index.ts:364-426)
\* is accepted, as the tests of the Worker expect (index.test.ts:899, 1724).
ValidRecordAccepted ==
    [][\A r \in Req : (/\ req[r].step = "recv" /\ req'[r].step = "idle"
                       /\ req[r].msg.op = "meshRegister"
                       /\ req[r].msg.check = "ok") => req'[r].status # 400]_vars
=============================================================================
