-------------------------- MODULE CoordinatorHistory --------------------------
(***************************************************************************)
(* The coordinator with a history of what its clients did, and the         *)
(* properties that relate what is served now to what was done before.  The *)
(* history only observes: it never restricts a step of Coordinator.        *)
(***************************************************************************)
EXTENDS Coordinator

VARIABLES
    known,    \* known[i]: every value ever registered under the id i
    latest,   \* latest[i]: the last one, or Absent once i was deleted
    raced     \* the ids changed while a handler held an older copy

hvars == <<now, proxies, records, req, known, latest, raced>>

\* The step answers the register request, or drops the proxy entry, of i.
Answers(r, op) == /\ req[r].step # "idle" /\ req[r].msg.op = op
                  /\ req'[r].step = "idle" /\ req'[r].status = 200

RegistersNow(i) == \E r \in Req : Answers(r, "register") /\ req[r].msg.id = i

RemovesNow(i) ==
    \E r \in Req : /\ Answers(r, "delete") \/ Answers(r, "meshDeregister")
                   /\ req[r].msg.id = i

\* Another handler has read the entry of i and not written it back.
HeldByOthers(i) ==
    \E r \in Req : /\ req[r].step \in {"renew", "renewProxy"}
                   /\ req[r].msg.id = i

Registered(i) ==
    LET r == CHOOSE r \in Req : Answers(r, "register") /\ req[r].msg.id = i
    IN  [endpoint |-> req[r].msg.endpoint, expiresAt |-> req[r].msg.expiresAt]

HInit ==
    /\ Init
    /\ latest = [i \in Id |-> IF proxies[i] = Absent THEN Absent
                              ELSE proxies[i].value]
    /\ known = [i \in Id |-> {latest[i]} \ {Absent}]
    /\ raced = {}

Observe ==
    /\ latest' = [i \in Id |-> IF RegistersNow(i) THEN Registered(i)
                               ELSE IF RemovesNow(i) THEN Absent
                               ELSE latest[i]]
    /\ known' = [i \in Id |-> known[i] \cup ({latest'[i]} \ {Absent})]
    /\ raced' = {i \in Id :
                   IF RegistersNow(i) \/ RemovesNow(i) THEN HeldByOthers(i)
                   ELSE i \in raced}

HNext == Next /\ Observe

HSpec == HInit /\ [][HNext]_hvars

-----------------------------------------------------------------------------
(* Properties.                                                             *)

\* Whatever is served for a proxy id, or is about to be written back for it,
\* was registered under that very id: no handler mixes two proxies up.
ServedWasRegistered ==
    /\ \A i \in Id : proxies[i] # Absent => proxies[i].value \in known[i]
    /\ \A r \in Req : req[r].step \in {"renew", "renewProxy"} =>
           req[r].held \in known[req[r].msg.id]

\* The last registration wins and a deleted proxy stays deleted, unless the
\* entry was registered or deleted between the kvGet and the kvPut of a
\* heartbeat (index.ts:608-629, 722-732).  That is the only way an old value
\* comes back.
LatestWins ==
    \A i \in Id \ raced : Live(proxies[i]) => proxies[i].value = latest[i]

\* What the coordinator promises about proxies, in terms of leases.
VisibleLease == [i \in Id |-> IF Live(proxies[i]) THEN proxies[i] ELSE Absent]

Leases == INSTANCE Registry WITH
    lease <- VisibleLease, Volatile <- ~KVBound,
    MaxLease <- MaxTTL, LateUntil <- {x + Buffer : x \in Expiry}

\* The Worker, its handlers interleaved at every await, implements the
\* registry in which every operation is one step.
ImplementsRegistry == Leases!Spec
=============================================================================
