-------------------------------- MODULE Runner --------------------------------
(***************************************************************************)
(* The runners: the job of .github/workflows/proxy.yml, composed with the  *)
(* coordinator it registers with.                                          *)
(*                                                                         *)
(* A job sets its tunnel up, fixes EXPIRES_AT once and for all, registers, *)
(* and then sends a heartbeat every ten turns of a loop of 90.  It reacts  *)
(* to one response only: 404 makes it register again.  Calls get lost on   *)
(* the way, or lose their response; the handlers of the Worker fail, and   *)
(* its isolate is replaced.                                                *)
(*                                                                         *)
(* No curl of the job has a time limit, and nothing makes up for the time  *)
(* a turn takes: a call lasts as long as it likes, and the loop drifts.  A *)
(* handler may outlive the job that called it, and run on beside those of  *)
(* the next attempt.                                                       *)
(*                                                                         *)
(* One unit of time is half a heartbeat period, 2.5 minutes.               *)
(***************************************************************************)
EXTENDS Coordinator

CONSTANTS
    Job,          \* the workflow runs, named by GITHUB_RUN_ID
    TunnelOf,     \* the tunnel each run is dispatched with
    NoLine,       \* the job waits for no response
    Rounds,       \* heartbeats in the loop: 90 / 10
    SetupTime,    \* bound of the time the steps before registration take
    Grace,        \* how late the timeout of a job may be enforced
    MeshKeySet,   \* whether the secret MESH_SIGNING_PRIVATE_KEY is set
    MaxAttempts,  \* bound of the attempts of a run
    MaxFaults     \* bound of the faults and deletions

Tunnel == {"trycloudflare", "serveo", "direct", "n2n"}

\* 45 minutes: EXPIRES_AT, the loop, and timeout-minutes.
Life == 2 * Rounds

\* What a job of protocol vless registers; the host changes per attempt.
JobEndpoint ==
    [job : Job, attempt : 1..MaxAttempts, transport : {"ws", "tcp"}]

\* gha-$GITHUB_RUN_ID, and the hash that names the node of an attempt.
JobId == Job \cup (Job \X (1..MaxAttempts))

ASSUME RunnerAssumption ==
    /\ TunnelOf \in [Job -> Tunnel]
    /\ {Rounds, MaxAttempts} \subseteq Nat \ {0}
    /\ {SetupTime, Grace, MaxFaults} \subseteq Nat
    /\ MeshKeySet \in BOOLEAN
    /\ JobEndpoint \subseteq Endpoint /\ JobId \subseteq Id
    /\ Job \cap (Job \X (1..MaxAttempts)) = {}
    /\ Cardinality(Net) = 1
    /\ Life .. Horizon + Life \subseteq Expiry
    /\ Life + Buffer <= MaxTTL
    /\ Buffer <= DefaultTTL
    /\ NoLine \notin Req

VARIABLES
    phase,      \* what the job does
    attempt,    \* GITHUB_RUN_ATTEMPT, 0 before the first
    started,    \* when the attempt started
    expiry,     \* EXPIRES_AT of the last attempt that got that far
    round,      \* the next heartbeat of the loop
    wake,       \* when the sleeps before that heartbeat are over, at least
    line,       \* the slot whose response the job waits for, or NoLine
    faults,     \* the faults and deletions so far
    clean,      \* no fault met the job since it began its current round
    healed,     \* a round so begun has ended, and nothing disturbed it since
    late,       \* when a call was last handled after the expiry it names, or 0
    overtaken   \* a call of an earlier attempt outlived the registration

jobs == <<phase, attempt, started, expiry, round, wake, line>>
history == <<clean, healed, late, overtaken>>
rvars == <<now, proxies, records, req, jobs, faults, history>>

\* The phases in which the job makes a call, those before the loop, and those
\* in which nothing runs.
Calling == {"register", "meshRegister", "heartbeat", "registerAgain",
            "meshHeartbeat", "meshRegisterAgain", "deregister"}
Loop == {"alive", "heartbeat", "registerAgain", "meshHeartbeat",
         "meshRegisterAgain"}
Off == {"queued", "over"}
Phase == Off \cup {"setup", "alive"} \cup Calling

Network == CHOOSE n \in Net : TRUE

-----------------------------------------------------------------------------
(* What a job sends.                                                       *)

Transport(tunnel) ==
    IF tunnel \in {"trycloudflare", "serveo"} THEN "ws" ELSE "tcp"

\* The script of the loop computes TYPE_PARAM anew, from another list.
TransportAgain(tunnel) == IF tunnel = "trycloudflare" THEN "ws" ELSE "tcp"

\* [mutant] EXPIRES_AT is computed anew for every heartbeat
SentExpiry_Moving(j) == now + Life

SentExpiry(j) == expiry[j]

\* A record the job signed, its id, and what it asks of each endpoint.
Registration(j, transport) ==
    [op |-> "register", id |-> j, net |-> Absent,
     endpoint |-> [job |-> j, attempt |-> attempt[j], transport |-> transport],
     expiresAt |-> SentExpiry(j), check |-> "ok"]

MeshRegistration(j) ==
    [op |-> "meshRegister", id |-> <<j, attempt[j]>>, net |-> Network,
     endpoint |-> [job |-> j, attempt |-> attempt[j],
                   transport |-> Transport(TunnelOf[j])],
     expiresAt |-> SentExpiry(j), check |-> "ok"]

\* /tmp/mesh-heartbeat.json names no expiry when it goes to /mesh/deregister.
Message(j) ==
    CASE phase[j] = "register" -> Registration(j, Transport(TunnelOf[j]))
      [] phase[j] = "registerAgain" ->
            Registration(j, TransportAgain(TunnelOf[j]))
      [] phase[j] = "heartbeat" ->
            [op |-> "heartbeat", id |-> j, net |-> Absent, endpoint |-> Absent,
             expiresAt |-> SentExpiry(j), check |-> "ok"]
      [] phase[j] = "meshHeartbeat" ->
            [op |-> "meshHeartbeat", id |-> <<j, attempt[j]>>, net |-> Network,
             endpoint |-> Absent, expiresAt |-> SentExpiry(j), check |-> "ok"]
      [] phase[j] = "deregister" ->
            [op |-> "meshDeregister", id |-> <<j, attempt[j]>>, net |-> Network,
             endpoint |-> Absent, expiresAt |-> NoExpiry, check |-> "ok"]
      [] OTHER -> MeshRegistration(j)

-----------------------------------------------------------------------------
(* How a job reacts to a response code; 0 stands for curl's 000.           *)

AfterProxyCall == IF MeshKeySet THEN "meshHeartbeat" ELSE "alive"

\* [mutant] a lost record is not registered again
Reaction_NoHeal(p, code) ==
    CASE p = "register" ->
            IF code # 200 THEN "over"
            ELSE IF MeshKeySet THEN "meshRegister" ELSE "alive"
      [] p \in {"heartbeat", "registerAgain"} -> AfterProxyCall
      [] p = "deregister" -> "over"
      [] OTHER -> "alive"

Reaction(p, code) ==
    CASE p = "register" ->
            IF code # 200 THEN "over"
            ELSE IF MeshKeySet THEN "meshRegister" ELSE "alive"
      [] p = "heartbeat" /\ code = 404 -> "registerAgain"
      [] p = "heartbeat" /\ code # 404 -> AfterProxyCall
      [] p = "registerAgain" -> AfterProxyCall
      [] p = "meshHeartbeat" /\ code = 404 -> "meshRegisterAgain"
      [] p = "deregister" -> "over"
      [] OTHER -> "alive"

\* Nine sleeps of 30 seconds precede the heartbeat of turn 10, ten every other.
Sleeps(j) == IF round[j] = 0 THEN 1 ELSE 2

\* The response code to the call the job is in, or its failure.  A round ends
\* with it when the job goes back to sleep.
Move(j, code, untouched) ==
    LET p == Reaction(phase[j], code)
        ends == phase[j] \in Calling /\ p = "alive"
    IN  /\ phase' = [phase EXCEPT ![j] = p]
        /\ line' = [line EXCEPT ![j] = NoLine]
        /\ round' = [round EXCEPT ![j] = IF ends THEN @ + 1 ELSE @]
        /\ wake' = [wake EXCEPT ![j] = IF ends THEN now + Sleeps(j) ELSE @]
        /\ clean' = [clean EXCEPT ![j] = @ /\ untouched]
        /\ healed' = [healed EXCEPT ![j] = @ \/ (ends /\ clean'[j])]

-----------------------------------------------------------------------------
(* The steps of a job.                                                     *)

\* A run id is new: nobody registered it before.
RInit ==
    /\ Init
    /\ \A j \in Job : proxies[j] = Absent
    /\ phase = [j \in Job |-> "queued"]
    /\ attempt = [j \in Job |-> 0]
    /\ started = [j \in Job |-> 0]
    /\ expiry = [j \in Job |-> 0]
    /\ round = [j \in Job |-> 0]
    /\ wake = [j \in Job |-> 0]
    /\ line = [j \in Job |-> NoLine]
    /\ faults = 0
    /\ clean = [j \in Job |-> FALSE]
    /\ healed = [j \in Job |-> FALSE]
    /\ late = [j \in Job |-> 0]
    /\ overtaken = [j \in Job |-> FALSE]

InFlight(r) == req[r].step # "idle" \/ \E j \in Job : line[j] = r

\* A run is dispatched, or re-run once its last attempt is over; what that
\* attempt asked of the Worker may still be under way.
Dispatch(j) ==
    /\ phase[j] \in Off /\ attempt[j] < MaxAttempts
    /\ phase' = [phase EXCEPT ![j] = "setup"]
    /\ attempt' = [attempt EXCEPT ![j] = @ + 1]
    /\ started' = [started EXCEPT ![j] = now]
    /\ healed' = [healed EXCEPT ![j] = FALSE]
    /\ UNCHANGED <<now, store, req, expiry, round, wake, line, faults, clean,
                   late, overtaken>>

\* "Calculate expiry time", just before "Register proxy".
CalculateExpiry(j) ==
    /\ phase[j] = "setup"
    /\ phase' = [phase EXCEPT ![j] = "register"]
    /\ expiry' = [expiry EXCEPT ![j] = now + Life]
    /\ round' = [round EXCEPT ![j] = 0]
    /\ clean' = [clean EXCEPT ![j] = TRUE]
    /\ UNCHANGED <<now, store, req, attempt, started, wake, line, faults,
                   healed, late, overtaken>>

\* Turn 10 k of the loop, when its sleeps are over or whenever it gets to it.
BeginRound(j) ==
    /\ phase[j] = "alive" /\ round[j] <= Rounds /\ now >= wake[j]
    /\ phase' = [phase EXCEPT ![j] = "heartbeat"]
    /\ clean' = [clean EXCEPT ![j] = TRUE]
    /\ UNCHANGED <<now, store, req, attempt, started, expiry, round, wake, line,
                   faults, healed, late, overtaken>>

\* The end of the loop, 90 sleeps after it began at the earliest; the timeout
\* does not always prevent it.
Finish(j) ==
    /\ phase[j] = "alive" /\ round[j] > Rounds /\ now >= expiry[j]
    /\ phase' = [phase EXCEPT ![j] =
                    IF MeshKeySet THEN "deregister" ELSE "over"]
    /\ UNCHANGED <<now, store, req, attempt, started, expiry, round, wake, line,
                   faults, history>>

Call(j) ==
    /\ phase[j] \in Calling /\ line[j] = NoLine
    /\ \E r \in Req : /\ ~InFlight(r)
                      /\ Becomes(r, Running(Message(j), "recv", Absent, 0))
                      /\ line' = [line EXCEPT ![j] = r]
    /\ UNCHANGED <<now, store, phase, attempt, started, expiry, round, wake,
                   faults, history>>

Answer(j) ==
    /\ line[j] # NoLine /\ req[line[j]].step = "idle"
    /\ Move(j, req[line[j]].status, TRUE)
    /\ UNCHANGED <<now, store, req, attempt, started, expiry, faults, late,
                   overtaken>>

\* The job is cancelled, times out, or fails before it registers; what its
\* steps kept is gone with the runner.
Kill(j) ==
    /\ phase[j] \notin Off
    /\ phase' = [phase EXCEPT ![j] = "over"]
    /\ line' = [line EXCEPT ![j] = NoLine]
    /\ started' = [started EXCEPT ![j] = 0]
    /\ round' = [round EXCEPT ![j] = 0]
    /\ wake' = [wake EXCEPT ![j] = 0]
    /\ clean' = [clean EXCEPT ![j] = FALSE]
    /\ healed' = [healed EXCEPT ![j] = FALSE]
    /\ UNCHANGED <<now, store, req, attempt, expiry, faults, late, overtaken>>

-----------------------------------------------------------------------------
(* Faults.                                                                 *)

Fault == faults < MaxFaults /\ faults' = faults + 1

\* The request, or the response, is lost; a handler that runs goes on.
Lose(j) ==
    /\ phase[j] \in Calling
    /\ Fault
    /\ Move(j, 0, FALSE)
    /\ UNCHANGED <<now, store, req, attempt, started, expiry, late, overtaken>>

\* The Worker fails in the call of a job.
FailCall(r) ==
    /\ Fault
    /\ Fail(r)
    /\ clean' = [j \in Job |-> clean[j] /\ line[j] # r]
    /\ UNCHANGED <<jobs, healed, late, overtaken>>

\* What was registered before is lost.
LoseStore ==
    /\ Fault
    /\ Restart
    /\ clean' = [j \in Job |-> FALSE]
    /\ healed' = [j \in Job |-> FALSE]
    /\ UNCHANGED <<jobs, late, overtaken>>

\* Somebody calls DELETE /delete/{id} for a job that runs.
AskDelete(j) ==
    /\ phase[j] \in Loop
    /\ Fault
    /\ \E r \in Req :
         /\ ~InFlight(r)
         /\ Becomes(r, Running([op |-> "delete", id |-> j, net |-> Absent,
                                endpoint |-> Absent, expiresAt |-> NoExpiry,
                                check |-> "ok"], "recv", Absent, 0))
    /\ UNCHANGED <<now, store, jobs, history>>

-----------------------------------------------------------------------------

\* The handler in slot r stores the proxy of j when it goes on.
Stores(r, j) ==
    /\ At(r, "register", "recv") \/ At(r, "heartbeat", "renew")
    /\ req[r].msg.id = j

\* What it then stores is no endpoint of the present attempt.
Straggler(r, j) ==
    /\ Stores(r, j)
    /\ LET e == IF At(r, "register", "recv") THEN req[r].msg.endpoint
                ELSE req[r].held.endpoint
       IN  e.attempt # attempt[j]

\* A deletion, and the expiry of another attempt, disturb the lease of j.
Disturbs(r, j) ==
    \/ At(r, "delete", "recv") /\ req[r].msg.id = j
    \/ Stores(r, j) /\ req[r].msg.expiresAt # expiry[j]

\* A handler goes on, be the job it serves over or not.
Serve(r) ==
    /\ Handle(r)
    /\ clean' = [j \in Job |-> clean[j] /\ ~Disturbs(r, j)]
    /\ healed' = [j \in Job |-> healed[j] /\ ~Disturbs(r, j)]
    /\ late' = [j \in Job |-> IF Stores(r, j) /\ req[r].msg.expiresAt <= now
                              THEN now ELSE late[j]]
    /\ overtaken' = [j \in Job |->
           IF /\ At(r, "register", "recv") /\ Stores(r, j)
              /\ ~Straggler(r, j)
           THEN \E s \in Req : Straggler(s, j)
           ELSE overtaken[j]]
    /\ UNCHANGED <<jobs, faults>>

\* Time passes whatever is under way; but the steps before the registration
\* are short, and no job runs longer than its timeout and the grace allow.
Pass ==
    /\ \A j \in Job :
         /\ phase[j] = "setup" => now < started[j] + SetupTime
         /\ phase[j] \notin Off => now < started[j] + Life + Grace
    /\ Tick
    /\ UNCHANGED <<jobs, faults, history>>

RNext ==
    \/ \E j \in Job : \/ Dispatch(j) \/ CalculateExpiry(j) \/ BeginRound(j)
                      \/ Finish(j) \/ Call(j) \/ Answer(j) \/ Kill(j)
                      \/ Lose(j) \/ AskDelete(j)
    \/ \E r \in Req : Serve(r) \/ FailCall(r)
    \/ LoseStore
    \/ Pass

RSpec == RInit /\ [][RNext]_rvars

-----------------------------------------------------------------------------
(* Properties.                                                             *)

RTypeOK ==
    /\ TypeOK
    /\ phase \in [Job -> Phase]
    /\ attempt \in [Job -> 0..MaxAttempts]
    /\ {started, expiry, round, wake, late} \subseteq [Job -> Nat]
    /\ line \in [Job -> Req \cup {NoLine}]
    /\ faults \in 0..MaxFaults
    /\ {clean, healed, overtaken} \subseteq [Job -> BOOLEAN]

\* A round that met no fault leaves the proxy listed, whatever was lost before
\* it, and it stays listed while the job runs, up to the buffer beyond its
\* EXPIRES_AT, unless it is deleted or a call of an earlier attempt comes in:
\* however late a heartbeat, each renewal reaches that far, and a 404 is healed
\* by the registration that follows it (proxy.yml:521-551).
ListedWhileRunning ==
    \A j \in Job :
        (phase[j] \in Loop /\ healed[j] /\ now <= expiry[j] + Buffer) =>
            Live(proxies[j])

\* A proxy is listed beyond the EXPIRES_AT of its job and the buffer only on
\* account of a call that was handled after the expiry it names, and then for
\* an hour and the buffer at most (index.ts:571 "Add 5 min buffer so record
\* outlives the runner slightly", 617-623, 570-576).
NoGhost ==
    \A j \in Job : Live(proxies[j]) =>
        \/ now <= expiry[j] + Buffer
        \/ late[j] # 0 /\ now <= late[j] + DefaultTTL + Buffer

\* In the loop of an attempt no endpoint of an earlier attempt, which had the
\* same proxy id, is served, unless a call of the earlier one was about to
\* store it when the registration of the present one was stored: no heartbeat
\* brings it back otherwise, and no restart, loss or deletion.
ServesCurrentAttempt ==
    \A j \in Job : (phase[j] \in Loop /\ ~overtaken[j] /\ Live(proxies[j])) =>
        proxies[j].value.endpoint.attempt = attempt[j]

\* "HTTP tunnels (trycloudflare, serveo) need WebSocket transport"
\* (proxy.yml:327): so whatever is served for one of them says.
HttpNeedsWebSocket ==
    \A j \in Job :
        (TunnelOf[j] \in {"trycloudflare", "serveo"} /\ Live(proxies[j])) =>
            proxies[j].value.endpoint.transport = "ws"
=============================================================================
