----------------------------- MODULE RunnerProofs -----------------------------
(***************************************************************************)
(* What the runners and the coordinator achieve together, for any number   *)
(* of runs, attempts, heartbeats, request slots and faults, and with       *)
(* either store.                                                           *)
(***************************************************************************)
EXTENDS Runner, CoordinatorProofs, FiniteSetTheorems

\* EXPIRES_AT is fixed before the first call of an attempt.
ClockOf(j) ==
    /\ expiry[j] <= now + Life
    /\ phase[j] \notin Off => attempt[j] # 0
    /\ phase[j] \in Calling \cup {"alive"} =>
           expiry[j] \in Life..(Horizon + Life)

Clock == now \in 0..Horizon /\ \A j \in Job : ClockOf(j)

\* The phases in which there is no call of the current attempt yet.
Fresh == {"queued", "setup"}

\* A request in flight is of the current or of an earlier attempt of a run, and
\* no attempt names a later expiry than the next one.
SlotOf(r) ==
    LET m == req[r].msg
    IN  /\ m.check = "ok"
        /\ \/ /\ m.op = "register" /\ m.id \in Job
              /\ m.expiresAt \in Life..(Horizon + Life)
              /\ m.expiresAt <= expiry[m.id]
           \/ /\ m.op = "heartbeat" /\ m.id \in Job
              /\ m.expiresAt \in Life..(Horizon + Life)
              /\ m.expiresAt <= expiry[m.id]
           \/ m.op = "delete" /\ m.id \in Job
           \/ /\ m.op \in {"meshRegister", "meshHeartbeat", "meshDeregister"}
              /\ m.id \notin Job

Slots == \A r \in Req : req[r].step # "idle" => SlotOf(r)

\* A job that waits is in a call, and what it waits for is its own.
LineOf(j) ==
    line[j] # NoLine =>
        /\ phase[j] \in Calling
        /\ req[line[j]].step # "idle" => req[line[j]].msg = Message(j)

Lines ==
    /\ \A j \in Job : LineOf(j)
    /\ \A i, j \in Job : line[i] = line[j] /\ line[i] # NoLine => i = j

RInv == Inv /\ RTypeOK /\ Clock /\ Slots /\ Lines

-----------------------------------------------------------------------------
(* What a job sends.                                                       *)

\* There is a network.
LEMMA NetworkType == Network \in Net
<1>1. Cardinality(Net) = 1
  BY RunnerAssumption
<1>2. Net # {}
  BY <1>1, FS_EmptySet
<1>3. QED  BY <1>2 DEF Network

\* Whatever the phase, the call is a request of the Coordinator, about the
\* proxy of the run, or about a node that is none of its proxies.
LEMMA MessageType ==
    ASSUME RTypeOK, Clock, NEW j \in Job, phase[j] \in Calling
    PROVE  /\ Message(j) \in Request /\ Message(j).check = "ok"
           /\ phase[j] \in {"register", "registerAgain"} =>
                  /\ Message(j).op = "register" /\ Message(j).id = j
                  /\ Message(j).endpoint.attempt = attempt[j]
                  /\ Message(j).expiresAt = expiry[j]
           /\ phase[j] = "heartbeat" =>
                  /\ Message(j).op = "heartbeat" /\ Message(j).id = j
                  /\ Message(j).expiresAt = expiry[j]
           /\ phase[j] \notin {"register", "registerAgain", "heartbeat"} =>
                  /\ Message(j).op \in {"meshRegister", "meshHeartbeat",
                                        "meshDeregister"}
                  /\ Message(j).id \notin Job
<1> DEFINE id == <<j, attempt[j]>>
           ep(t) == [job |-> j, attempt |-> attempt[j], transport |-> t]
<1>1. attempt[j] \in 1..MaxAttempts
  BY RunnerAssumption DEF RTypeOK, Clock, ClockOf, Calling, Off
<1>2. id \in Job \X (1..MaxAttempts)
  BY <1>1
<1>3. id \in Id /\ id \notin Job /\ j \in Id
  BY <1>2, RunnerAssumption DEF JobId
<1>4. \A t \in {"ws", "tcp"} : ep(t) \in Endpoint
  BY <1>1, RunnerAssumption DEF JobEndpoint
<1>5. /\ Transport(TunnelOf[j]) \in {"ws", "tcp"}
      /\ TransportAgain(TunnelOf[j]) \in {"ws", "tcp"}
  BY DEF Transport, TransportAgain
<1>6. expiry[j] \in Expiry /\ expiry[j] \in ClientExpiry
  BY RunnerAssumption DEF Clock, ClockOf, ClientExpiry
<1>7. NoExpiry \in ClientExpiry
  BY DEF ClientExpiry
<1>8. ASSUME NEW t \in {"ws", "tcp"}, phase[j] \in {"register", "registerAgain"}
      PROVE  Registration(j, t) \in ProxyRequest
  BY <1>3, <1>4, <1>6 DEF Registration, SentExpiry, ProxyRequest
<1>9. MeshRegistration(j) \in MeshRequest
  BY <1>3, <1>4, <1>5, <1>6, NetworkType
  DEF MeshRegistration, SentExpiry, MeshRequest
<1>10. CASE phase[j] \in {"register", "registerAgain"}
  BY <1>5, <1>8, <1>10 DEF Message, Registration, SentExpiry, Request
<1>11. CASE phase[j] = "heartbeat"
  <2>1. Message(j) \in ProxyRequest
    BY <1>3, <1>6, <1>11 DEF Message, SentExpiry, ProxyRequest
  <2>2. QED  BY <1>11, <2>1 DEF Message, SentExpiry, Request
<1>12. CASE phase[j] = "meshHeartbeat"
  <2>1. Message(j) \in MeshRequest
    BY <1>3, <1>6, <1>12, NetworkType DEF Message, SentExpiry, MeshRequest
  <2>2. QED  BY <1>3, <1>12, <2>1 DEF Message, Request
<1>13. CASE phase[j] = "deregister"
  <2>1. Message(j) \in MeshRequest
    BY <1>3, <1>13, NetworkType DEF Message, MeshRequest
  <2>2. QED  BY <1>3, <1>13, <2>1 DEF Message, Request
<1>14. CASE phase[j] \in {"meshRegister", "meshRegisterAgain"}
  <2>1. Message(j) = MeshRegistration(j)
    BY <1>14 DEF Message
  <2>2. QED  BY <1>3, <1>9, <1>14, <2>1 DEF MeshRegistration, Request
<1>15. QED
  BY <1>10, <1>11, <1>12, <1>13, <1>14 DEF Calling

-----------------------------------------------------------------------------
(* What a step of one job leaves alone.                                    *)

\* A call of a job that did not move is what it was.
LEMMA MessageKept ==
    ASSUME NEW j, phase'[j] = phase[j], attempt'[j] = attempt[j],
           expiry'[j] = expiry[j]
    PROVE  Message(j)' = Message(j)
BY DEF Message, Registration, MeshRegistration, SentExpiry

\* A step that touches neither clock nor store nor requests keeps the
\* coordinator in order.
LEMMA InvKept ==
    ASSUME Inv, UNCHANGED <<now, store, req>>
    PROVE  Inv'
BY NextInv DEF vars, store

\* A job that moves on, without a call, changes nothing for the requests in
\* flight, for the other jobs, and for what these wait for.
LEMMA JobFrame ==
    ASSUME RInv, NEW j \in Job, now' = now, req' = req,
           \A i \in Job \ {j} :
               /\ phase'[i] = phase[i] /\ attempt'[i] = attempt[i]
               /\ expiry'[i] = expiry[i] /\ line'[i] = line[i],
           line'[j] = NoLine, ClockOf(j)', expiry'[j] \in Nat,
           expiry[j] <= expiry'[j]
    PROVE  Clock' /\ Slots' /\ Lines'
<1>1. Clock'
  <2>1. ASSUME NEW i \in Job \ {j} PROVE ClockOf(i)'
    <3>1. ClockOf(i)
      BY DEF RInv, Clock
    <3>2. QED  BY <3>1 DEF ClockOf
  <2>2. QED  BY <2>1 DEF RInv, Clock
<1>2. Slots'
  <2> SUFFICES ASSUME NEW r \in Req, req[r].step # "idle" PROVE SlotOf(r)'
    BY DEF Slots
  <2>1. SlotOf(r)
    BY DEF RInv, Slots
  <2>2. CASE req[r].msg.id = j
    <3>1. \A x \in Life..(Horizon + Life) :
             x <= expiry[j] => x <= expiry'[j]
      BY RunnerAssumption, CoordinatorAssumption
      DEF Life, RInv, RTypeOK
    <3>2. QED  BY <2>1, <2>2, <3>1 DEF SlotOf
  <2>3. CASE req[r].msg.id # j
    BY <2>1, <2>3 DEF SlotOf
  <2>4. QED  BY <2>2, <2>3
<1>3. Lines'
  <2>1. ASSUME NEW i \in Job PROVE LineOf(i)'
    <3>1. CASE i = j
      BY <3>1 DEF LineOf
    <3>2. CASE i # j
      BY <3>2, MessageKept DEF LineOf, RInv, Lines
    <3>3. QED  BY <3>1, <3>2
  <2>2. QED  BY <2>1 DEF RInv, Lines
<1>4. QED  BY <1>1, <1>2, <1>3

\* What a response leads to.
LEMMA Reactions ==
    ASSUME NEW p \in Calling, NEW code
    PROVE  /\ p = "register" => Reaction(p, code) \in
                  IF code = 200 THEN {"meshRegister", "alive"} ELSE {"over"}
           /\ p = "heartbeat" => Reaction(p, code) \in
                  IF code = 404 THEN {"registerAgain"}
                  ELSE {"meshHeartbeat", "alive"}
           /\ p = "registerAgain" => Reaction(p, code) \in
                  {"meshHeartbeat", "alive"}
           /\ p = "meshHeartbeat" => Reaction(p, code) \in
                  {"meshRegisterAgain", "alive"}
           /\ p \in {"meshRegister", "meshRegisterAgain"} =>
                  Reaction(p, code) = "alive"
           /\ p = "deregister" => Reaction(p, code) = "over"
BY DEF Reaction, Calling, AfterProxyCall

-----------------------------------------------------------------------------
(* The steps of a job.                                                     *)

\* A run is dispatched again, be calls of its last attempt under way or not.
LEMMA DispatchStep ==
    ASSUME RInv, NEW j \in Job, Dispatch(j)
    PROVE  RInv'
<1>1. Inv'
  BY InvKept DEF RInv, Dispatch
<1>2. /\ attempt[j] \in 0..MaxAttempts /\ attempt'[j] = attempt[j] + 1
      /\ attempt[j] < MaxAttempts /\ phase'[j] = "setup"
      /\ phase \in [Job -> Phase] /\ attempt \in [Job -> 0..MaxAttempts]
      /\ MaxAttempts \in Nat /\ now \in Nat
  BY RunnerAssumption, CoordinatorAssumption DEF RInv, RTypeOK, Dispatch, Clock
<1>3. RTypeOK'
  <2>1. phase' \in [Job -> Phase]
    BY <1>2 DEF Dispatch, Phase
  <2>2. attempt' \in [Job -> 0..MaxAttempts]
    BY <1>2 DEF Dispatch
  <2>3. started' \in [Job -> Nat] /\ healed' \in [Job -> BOOLEAN]
    BY <1>2 DEF RInv, RTypeOK, Dispatch
  <2>4. QED  BY <1>1, <2>1, <2>2, <2>3 DEF RInv, RTypeOK, Dispatch, Inv
<1>4. ClockOf(j)'
  <2>1. expiry[j] <= now + Life
    BY DEF RInv, Clock, ClockOf
  <2>2. QED
    BY <1>2, <2>1 DEF ClockOf, Dispatch, Calling
<1>5. line'[j] = NoLine
  BY DEF Dispatch, RInv, Lines, LineOf, Off, Calling
<1>6. Clock' /\ Slots' /\ Lines'
  BY <1>4, <1>5, JobFrame DEF Dispatch, RInv, RTypeOK
<1>7. QED  BY <1>1, <1>3, <1>6 DEF RInv

\* EXPIRES_AT is fixed, later than that of the attempt before.
LEMMA CalculateExpiryStep ==
    ASSUME RInv, NEW j \in Job, CalculateExpiry(j)
    PROVE  RInv'
<1>1. Inv'
  BY InvKept DEF RInv, CalculateExpiry
<1>2. /\ phase[j] = "setup" /\ phase'[j] = "register"
      /\ expiry'[j] = now + Life /\ round'[j] = 0 /\ attempt'[j] # 0
      /\ now \in 0..Horizon /\ Horizon \in Nat /\ Life \in Nat
  BY RunnerAssumption, CoordinatorAssumption
  DEF RInv, RTypeOK, CalculateExpiry, Clock, ClockOf, Off, Life
<1>3. RTypeOK'
  <2>1. phase' \in [Job -> Phase]
    BY DEF RInv, RTypeOK, CalculateExpiry, Phase, Calling
  <2>2. expiry' \in [Job -> Nat] /\ round' \in [Job -> Nat]
    BY <1>2 DEF RInv, RTypeOK, CalculateExpiry
  <2>3. clean' \in [Job -> BOOLEAN]
    BY DEF RInv, RTypeOK, CalculateExpiry
  <2>4. QED
    BY <1>1, <2>1, <2>2, <2>3 DEF RInv, RTypeOK, CalculateExpiry, Inv
<1>4. ClockOf(j)'
  BY <1>2 DEF ClockOf, CalculateExpiry
<1>5. line'[j] = NoLine
  BY DEF CalculateExpiry, RInv, Lines, LineOf, Calling
<1>6. Clock' /\ Slots' /\ Lines'
  <2>1. expiry[j] <= expiry'[j] /\ expiry'[j] \in Nat
    BY <1>2 DEF RInv, Clock, ClockOf
  <2>2. QED  BY <1>4, <1>5, <2>1, JobFrame DEF CalculateExpiry, RInv, RTypeOK
<1>7. QED  BY <1>1, <1>3, <1>6 DEF RInv

\* A heartbeat is due.
LEMMA BeginRoundStep ==
    ASSUME RInv, NEW j \in Job, BeginRound(j)
    PROVE  RInv'
<1>1. Inv'
  BY InvKept DEF RInv, BeginRound
<1>2. /\ phase[j] = "alive" /\ phase'[j] = "heartbeat"
      /\ ClockOf(j) /\ expiry[j] \in Nat
  BY DEF RInv, RTypeOK, BeginRound, Clock
<1>3. RTypeOK'
  <2>1. phase' \in [Job -> Phase] /\ clean' \in [Job -> BOOLEAN]
    BY DEF RInv, RTypeOK, BeginRound, Phase, Calling
  <2>2. QED
    BY <1>1, <2>1 DEF RInv, RTypeOK, BeginRound, Inv
<1>4. ClockOf(j)'
  BY <1>2 DEF ClockOf, BeginRound, Off, Calling
<1>5. line'[j] = NoLine
  BY <1>2 DEF BeginRound, RInv, Lines, LineOf, Calling
<1>6. Clock' /\ Slots' /\ Lines'
  BY <1>2, <1>4, <1>5, JobFrame DEF BeginRound, RInv, RTypeOK
<1>7. QED  BY <1>1, <1>3, <1>6 DEF RInv

\* The loop is over.
LEMMA FinishStep ==
    ASSUME RInv, NEW j \in Job, Finish(j)
    PROVE  RInv'
<1>1. Inv'
  BY InvKept DEF RInv, Finish
<1>2. /\ phase[j] = "alive" /\ phase'[j] \in {"deregister", "over"}
      /\ ClockOf(j) /\ expiry[j] \in Nat
  BY DEF RInv, RTypeOK, Finish, Clock
<1>3. RTypeOK'
  <2>1. phase' \in [Job -> Phase]
    BY DEF RInv, RTypeOK, Finish, Phase, Calling, Off
  <2>2. QED
    BY <1>1, <2>1 DEF RInv, RTypeOK, Finish, Inv, history
<1>4. ClockOf(j)'
  BY <1>2 DEF ClockOf, Finish, Off, Calling
<1>5. line'[j] = NoLine
  BY <1>2 DEF Finish, RInv, Lines, LineOf, Calling
<1>6. Clock' /\ Slots' /\ Lines'
  BY <1>2, <1>4, <1>5, JobFrame DEF Finish, RInv, RTypeOK
<1>7. QED  BY <1>1, <1>3, <1>6 DEF RInv

\* What a killed job asked for may still be under way.
LEMMA KillStep ==
    ASSUME RInv, NEW j \in Job, Kill(j)
    PROVE  RInv'
<1>1. Inv'
  BY InvKept DEF RInv, Kill
<1>2. phase'[j] = "over" /\ line'[j] = NoLine /\ ClockOf(j) /\ expiry[j] \in Nat
  BY DEF RInv, RTypeOK, Kill, Clock
<1>3. RTypeOK'
  <2>1. phase' \in [Job -> Phase] /\ line' \in [Job -> Req \cup {NoLine}]
    BY DEF RInv, RTypeOK, Kill, Phase, Off
  <2>2. {started', round', wake'} \subseteq [Job -> Nat]
    BY DEF RInv, RTypeOK, Kill
  <2>3. {clean', healed'} \subseteq [Job -> BOOLEAN]
    BY DEF RInv, RTypeOK, Kill
  <2>4. QED
    BY <1>1, <2>1, <2>2, <2>3 DEF RInv, RTypeOK, Kill, Inv
<1>4. ClockOf(j)'
  BY <1>2 DEF ClockOf, Kill, Off, Calling
<1>5. Clock' /\ Slots' /\ Lines'
  BY <1>2, <1>4, JobFrame DEF Kill, RInv, RTypeOK
<1>6. QED  BY <1>1, <1>3, <1>5 DEF RInv

\* A job reacts to a response, or to its loss.
LEMMA MoveStep ==
    ASSUME RInv, NEW j \in Job, phase[j] \in Calling, NEW code,
           NEW untouched \in BOOLEAN, Move(j, code, untouched),
           UNCHANGED <<now, store, req, attempt, started, expiry, late,
                       overtaken>>,
           faults' \in 0..MaxFaults
    PROVE  RInv'
<1> DEFINE p == Reaction(phase[j], code)
           ends == phase[j] \in Calling /\ p = "alive"
<1>1. Inv'
  BY InvKept DEF RInv
<1>2. /\ phase' = [phase EXCEPT ![j] = p]
      /\ line' = [line EXCEPT ![j] = NoLine]
      /\ round' = [round EXCEPT ![j] = IF ends THEN @ + 1 ELSE @]
      /\ wake' = [wake EXCEPT ![j] = IF ends THEN now + Sleeps(j) ELSE @]
      /\ clean' = [clean EXCEPT ![j] = @ /\ untouched]
      /\ healed' = [healed EXCEPT ![j] = @ \/ (ends /\ clean'[j])]
  BY DEF Move
<1>3. /\ phase \in [Job -> Phase] /\ line \in [Job -> Req \cup {NoLine}]
      /\ round \in [Job -> Nat] /\ wake \in [Job -> Nat] /\ now \in Nat
      /\ Sleeps(j) \in Nat
      /\ clean \in [Job -> BOOLEAN] /\ healed \in [Job -> BOOLEAN]
  BY CoordinatorAssumption DEF RInv, RTypeOK, Clock, Sleeps
<1>4. p \in {"over", "meshRegister", "alive", "registerAgain",
             "meshHeartbeat", "meshRegisterAgain"}
  BY Reactions DEF Calling
<1>5. RTypeOK'
  <2> HIDE DEF p, ends
  <2>1. phase' \in [Job -> Phase] /\ line' \in [Job -> Req \cup {NoLine}]
    BY <1>2, <1>3, <1>4 DEF Phase, Off, Calling
  <2>2. round' \in [Job -> Nat] /\ wake' \in [Job -> Nat]
    BY <1>2, <1>3
  <2>3. clean' \in [Job -> BOOLEAN]
    BY <1>2, <1>3
  <2>4. healed' \in [Job -> BOOLEAN]
    <3>1. (healed[j] \/ (ends /\ clean'[j])) \in BOOLEAN
      OBVIOUS
    <3>2. QED  BY <1>2, <1>3, <3>1
  <2>5. QED
    BY <1>1, <2>1, <2>2, <2>3, <2>4 DEF RInv, RTypeOK, Inv
<1>6. ClockOf(j)'
  <2>1. phase'[j] = p /\ ClockOf(j) /\ phase[j] \notin Off
    BY <1>2, <1>3 DEF RInv, Clock, Calling, Off
  <2> HIDE DEF p, ends
  <2>2. QED  BY <1>4, <2>1 DEF ClockOf
<1>7. /\ \A i \in Job \ {j} :
               /\ phase'[i] = phase[i] /\ attempt'[i] = attempt[i]
               /\ expiry'[i] = expiry[i] /\ line'[i] = line[i]
      /\ line'[j] = NoLine /\ expiry[j] \in Nat
  BY <1>2, <1>3 DEF RInv, RTypeOK
<1>8. Clock' /\ Slots' /\ Lines'
  BY <1>6, <1>7, JobFrame
<1>9. QED  BY <1>1, <1>5, <1>8 DEF RInv

\* A request that is sent finds its slot free.
LEMMA SendFrame ==
    ASSUME Inv, NEW r \in Req, NEW m \in Request,
           Becomes(r, Running(m, "recv", Absent, 0)), UNCHANGED <<now, store>>
    PROVE  /\ Inv' /\ req'[r] = Running(m, "recv", Absent, 0)
           /\ \A s \in Req \ {r} : req'[s] = req[s]
<1>1. req' \in [Req -> Handler] /\ HandlersOK'
  BY WaitingOK DEF Inv, TypeOK
<1>2. Inv'
  BY <1>1, ProxiesKept, RecordsKept DEF Inv, TypeOK, store
<1>3. QED  BY <1>2 DEF Becomes, Inv, TypeOK

\* What a job sends is of the current attempt.
LEMMA CallStep ==
    ASSUME RInv, NEW j \in Job, Call(j)
    PROVE  RInv'
<1>1. PICK r \in Req : /\ ~InFlight(r)
                       /\ Becomes(r, Running(Message(j), "recv", Absent, 0))
                       /\ line' = [line EXCEPT ![j] = r]
  BY DEF Call
<1>2. /\ phase[j] \in Calling
      /\ UNCHANGED <<now, store, phase, attempt, started, expiry, round,
                     wake, faults, history>>
  BY DEF Call
<1>3. /\ Message(j) \in Request /\ Message(j).check = "ok"
      /\ phase[j] \in {"register", "registerAgain"} =>
                  /\ Message(j).op = "register" /\ Message(j).id = j
                  /\ Message(j).endpoint.attempt = attempt[j]
                  /\ Message(j).expiresAt = expiry[j]
      /\ phase[j] = "heartbeat" =>
                  /\ Message(j).op = "heartbeat" /\ Message(j).id = j
                  /\ Message(j).expiresAt = expiry[j]
      /\ phase[j] \notin {"register", "registerAgain", "heartbeat"} =>
                  /\ Message(j).op \in {"meshRegister", "meshHeartbeat",
                                        "meshDeregister"}
                  /\ Message(j).id \notin Job
  BY <1>2, MessageType DEF RInv
<1>4. /\ Inv' /\ req'[r] = Running(Message(j), "recv", Absent, 0)
      /\ \A s \in Req \ {r} : req'[s] = req[s]
  BY <1>1, <1>2, <1>3, SendFrame DEF RInv
<1>5. req'[r].msg = Message(j) /\ req'[r].step = "recv"
  BY <1>4 DEF Running
<1>6. RTypeOK'
  <2>1. line' \in [Job -> Req \cup {NoLine}]
    BY <1>1 DEF RInv, RTypeOK
  <2>2. QED  BY <1>2, <1>4, <2>1 DEF RInv, RTypeOK, Inv, history
<1>7. Clock'
  BY <1>2 DEF RInv, Clock, ClockOf
<1>8. Slots'
  <2>1. ASSUME NEW s \in Req \ {r}, req'[s].step # "idle" PROVE SlotOf(s)'
    BY <1>2, <1>4, <2>1 DEF RInv, Slots, SlotOf
  <2>2. SlotOf(r)'
    <3>1. expiry[j] \in Life..(Horizon + Life) /\ expiry[j] <= expiry[j]
      BY <1>2, RunnerAssumption, CoordinatorAssumption
      DEF RInv, Clock, ClockOf, Life
    <3> HIDE DEF RInv
    <3>2. QED  BY <1>2, <1>3, <1>5, <3>1 DEF SlotOf
  <2>3. QED  BY <2>1, <2>2 DEF Slots
<1>9. Lines'
  <2>1. /\ line'[j] = r
        /\ \A i \in Job \ {j} : line'[i] = line[i] /\ line[i] # r
    BY <1>1 DEF InFlight, RInv, RTypeOK
  <2>2. \A i \in Job : Message(i)' = Message(i)
    BY <1>2, MessageKept
  <2>3. ASSUME NEW i \in Job PROVE LineOf(i)'
    <3>1. CASE i = j
      BY <1>2, <1>5, <2>1, <2>2, <3>1 DEF LineOf
    <3>2. CASE i # j /\ line[i] # NoLine
      <4>1. line[i] \in Req \ {r}
        BY <2>1, <3>2 DEF RInv, RTypeOK
      <4>2. QED
        BY <1>2, <1>4, <2>1, <2>2, <3>2, <4>1 DEF LineOf, RInv, Lines
    <3>3. CASE i # j /\ line[i] = NoLine
      BY <2>1, <3>3 DEF LineOf
    <3>4. QED  BY <3>1, <3>2, <3>3
  <2>4. QED  BY <2>1, <2>3 DEF Lines, RInv
<1>10. QED  BY <1>4, <1>6, <1>7, <1>8, <1>9 DEF RInv

\* A deletion is asked for while the run is in its loop.
LEMMA AskDeleteStep ==
    ASSUME RInv, NEW j \in Job, AskDelete(j)
    PROVE  RInv'
<1> DEFINE m == [op |-> "delete", id |-> j, net |-> Absent,
                 endpoint |-> Absent, expiresAt |-> NoExpiry, check |-> "ok"]
<1>1. PICK r \in Req : /\ ~InFlight(r)
                       /\ Becomes(r, Running(m, "recv", Absent, 0))
  BY DEF AskDelete
<1>2. phase[j] \in Loop /\ UNCHANGED <<now, store, jobs, history>>
  BY DEF AskDelete
<1>3. m \in Request
  <2>1. j \in Id
    BY RunnerAssumption DEF JobId
  <2>2. QED  BY <2>1 DEF Request, ProxyRequest
<1>4. /\ Inv' /\ req'[r] = Running(m, "recv", Absent, 0)
      /\ \A s \in Req \ {r} : req'[s] = req[s]
  <2> HIDE DEF m
  <2>1. QED  BY <1>1, <1>2, <1>3, SendFrame DEF RInv
<1>5. req'[r].msg = m /\ req'[r].step = "recv"
  BY <1>4 DEF Running
<1>6. RTypeOK'
  <2>1. faults' \in 0..MaxFaults
    BY RunnerAssumption DEF AskDelete, Fault, RInv, RTypeOK
  <2>2. QED  BY <1>2, <1>4, <2>1 DEF RInv, RTypeOK, Inv, history, jobs
<1>7. Clock'
  BY <1>2 DEF RInv, Clock, ClockOf, jobs
<1>8. Slots'
  <2>1. ASSUME NEW s \in Req \ {r}, req'[s].step # "idle" PROVE SlotOf(s)'
    BY <1>2, <1>4, <2>1 DEF RInv, Slots, SlotOf, jobs
  <2>2. SlotOf(r)'
    BY <1>2, <1>5 DEF SlotOf
  <2>3. QED  BY <2>1, <2>2 DEF Slots
<1>9. Lines'
  <2>1. \A i \in Job : Message(i)' = Message(i)
    BY <1>2, MessageKept DEF jobs
  <2>2. ASSUME NEW i \in Job PROVE LineOf(i)'
    <3>1. CASE line[i] # NoLine
      <4>1. line[i] \in Req \ {r}
        BY <1>1, <3>1 DEF RInv, RTypeOK, InFlight
      <4>2. QED
        BY <1>2, <1>4, <2>1, <3>1, <4>1 DEF LineOf, RInv, Lines, jobs
    <3>2. CASE line[i] = NoLine
      BY <1>2, <3>2 DEF LineOf, jobs
    <3>3. QED  BY <3>1, <3>2
  <2>3. QED  BY <1>2, <2>2 DEF Lines, RInv, jobs
<1>10. QED  BY <1>4, <1>6, <1>7, <1>8, <1>9 DEF RInv

-----------------------------------------------------------------------------
(* The steps of handlers, of the isolate and of time.                      *)

\* A handler that goes on goes on with its request.
LEMMA SlotFrame ==
    ASSUME RInv, NEW r \in Req, NEW h, req' = [req EXCEPT ![r] = h],
           \/ h.step = "idle"
           \/ req[r].step # "idle" /\ h.msg = req[r].msg,
           UNCHANGED <<now, jobs>>
    PROVE  Clock' /\ Slots' /\ Lines'
<1>1. req'[r] = h /\ \A s \in Req \ {r} : req'[s] = req[s]
  BY DEF RInv, Inv, TypeOK
<1>2. Clock'
  BY DEF RInv, Clock, ClockOf, jobs
<1>3. Slots'
  <2>1. ASSUME NEW s \in Req, req'[s].step # "idle" PROVE SlotOf(s)'
    <3>1. req[s].step # "idle" /\ req'[s].msg = req[s].msg
      BY <1>1, <2>1
    <3>2. SlotOf(s)
      BY <3>1 DEF RInv, Slots
    <3>3. QED  BY <3>1, <3>2 DEF SlotOf, jobs
  <2>2. QED  BY <2>1 DEF Slots
<1>4. Lines'
  <2>1. \A i \in Job : Message(i)' = Message(i)
    BY MessageKept DEF jobs
  <2>2. ASSUME NEW i \in Job PROVE LineOf(i)'
    <3>1. CASE line[i] # NoLine
      <4>1. line[i] \in Req
        BY <3>1 DEF RInv, RTypeOK
      <4>2. req'[line[i]].step # "idle" =>
               /\ req[line[i]].step # "idle"
               /\ req'[line[i]].msg = req[line[i]].msg
        BY <1>1, <4>1
      <4>3. QED  BY <2>1, <3>1, <4>2 DEF LineOf, RInv, Lines, jobs
    <3>2. CASE line[i] = NoLine
      BY <3>2 DEF LineOf, jobs
    <3>3. QED  BY <3>1, <3>2
  <2>3. QED  BY <2>2 DEF Lines, RInv, jobs
<1>5. QED  BY <1>2, <1>3, <1>4

\* Every step of a handler is of that kind.
LEMMA HandlerGoesOn ==
    ASSUME NEW r \in Req, Handle(r)
    PROVE  /\ now' = now
           /\ req[r].step # "idle"
           /\ \E h : /\ req' = [req EXCEPT ![r] = h]
                     /\ h.step = "idle" \/ h.msg = req[r].msg
<1>1. ASSUME NEW s, Reply(r, s)
      PROVE  \E h : req' = [req EXCEPT ![r] = h] /\ h.step = "idle"
  <2>1. req' = [req EXCEPT ![r] = Closed(s)] /\ Closed(s).step = "idle"
    BY <1>1 DEF Reply, Becomes, Closed
  <2>2. QED  BY <2>1
<1>2. ASSUME NEW s, NEW v, NEW t, Becomes(r, Running(req[r].msg, s, v, t))
      PROVE  \E h : req' = [req EXCEPT ![r] = h] /\ h.msg = req[r].msg
  <2> DEFINE h == Running(req[r].msg, s, v, t)
  <2>1. req' = [req EXCEPT ![r] = h] /\ h.msg = req[r].msg
    BY <1>2 DEF Becomes, Running
  <2> HIDE DEF h
  <2>2. QED  BY <2>1
<1>3. ASSUME NEW K, NEW L, Becomes(r, Scanning(req[r].msg, K, L))
      PROVE  \E h : req' = [req EXCEPT ![r] = h] /\ h.msg = req[r].msg
  <2> DEFINE h == Scanning(req[r].msg, K, L)
  <2>1. req' = [req EXCEPT ![r] = h] /\ h.msg = req[r].msg
    BY <1>3 DEF Becomes, Scanning
  <2> HIDE DEF h
  <2>2. QED  BY <2>1
<1>4. CASE \/ Reject(r) \/ Register(r) \/ HeartbeatWrite(r) \/ Delete(r)
           \/ MeshRegister(r) \/ MeshHeartbeatWriteProxy(r)
           \/ DeregisterProxy(r) \/ ListReply(r)
  BY <1>1, <1>4 DEF Reject, Register, HeartbeatWrite, Delete, MeshRegister,
     MeshHeartbeatWriteProxy, DeregisterProxy, ListReply, At
<1>5. CASE HeartbeatRead(r) \/ MeshHeartbeatRead(r) \/ MeshHeartbeatReadProxy(r)
  BY <1>1, <1>2, <1>5
  DEF HeartbeatRead, MeshHeartbeatRead, MeshHeartbeatReadProxy, At
<1>6. CASE MeshHeartbeatWrite(r) \/ DeregisterMesh(r)
  BY <1>2, <1>6 DEF MeshHeartbeatWrite, DeregisterMesh, At
<1>7. CASE SubRead(r)
  BY <1>1, <1>3, <1>7 DEF SubRead, At
<1>8. CASE ListKeys(r) \/ ListRead(r)
  BY <1>3, <1>8 DEF ListKeys, ListRead
<1>9. QED  BY <1>4, <1>5, <1>6, <1>7, <1>8 DEF Handle

\* Whatever a handler does.
LEMMA ServeStep ==
    ASSUME RInv, NEW r \in Req, Serve(r)
    PROVE  RInv'
<1>1. Handle(r) /\ UNCHANGED <<jobs, faults>>
  BY DEF Serve
<1>2. Inv'
  BY <1>1, NextInv DEF RInv, Next
<1>3. RTypeOK'
  <2>1. clean' \in [Job -> BOOLEAN] /\ healed' \in [Job -> BOOLEAN]
    BY DEF Serve, RInv, RTypeOK
  <2>2. late' \in [Job -> Nat]
    BY CoordinatorAssumption DEF Serve, RInv, RTypeOK, Clock
  <2>3. overtaken' \in [Job -> BOOLEAN]
    <3>1. \A j \in Job : overtaken[j] \in BOOLEAN
      BY DEF RInv, RTypeOK
    <3>2. QED  BY <3>1 DEF Serve
  <2>4. QED  BY <1>1, <1>2, <2>1, <2>2, <2>3 DEF RInv, RTypeOK, Inv, jobs
<1>4. PICK h : /\ req' = [req EXCEPT ![r] = h]
               /\ h.step = "idle" \/ h.msg = req[r].msg
  BY <1>1, HandlerGoesOn
<1>5. Clock' /\ Slots' /\ Lines'
  BY <1>1, <1>4, HandlerGoesOn, SlotFrame
<1>6. QED  BY <1>2, <1>3, <1>5 DEF RInv

\* A call that fails.
LEMMA FailCallStep ==
    ASSUME RInv, NEW r \in Req, FailCall(r)
    PROVE  RInv'
<1>1. Inv'
  BY NextInv DEF RInv, FailCall, Next
<1>2. RTypeOK'
  <2>1. clean' \in [Job -> BOOLEAN]
    BY DEF FailCall, RInv, RTypeOK
  <2>2. faults' \in 0..MaxFaults
    BY RunnerAssumption DEF FailCall, Fault, RInv, RTypeOK
  <2>3. QED  BY <1>1, <2>1, <2>2 DEF FailCall, RInv, RTypeOK, Inv, jobs
<1>3. /\ req' = [req EXCEPT ![r] = Closed(500)] /\ UNCHANGED <<now, jobs>>
      /\ Closed(500).step = "idle"
  BY DEF FailCall, Fail, Reply, Becomes, Closed
<1>4. Clock' /\ Slots' /\ Lines'
  BY <1>3, SlotFrame
<1>5. QED  BY <1>1, <1>2, <1>4 DEF RInv

\* The isolate is replaced.
LEMMA LoseStoreStep ==
    ASSUME RInv, LoseStore
    PROVE  RInv'
<1>1. Inv'
  BY NextInv DEF RInv, LoseStore, Next
<1>2. RTypeOK'
  <2>1. faults' \in 0..MaxFaults
    BY RunnerAssumption DEF LoseStore, Fault, RInv, RTypeOK
  <2>2. QED  BY <1>1, <2>1 DEF LoseStore, RInv, RTypeOK, Inv, jobs
<1>3. \A r \in Req : req'[r].step = "idle"
  BY DEF LoseStore, Restart, Closed
<1>4. UNCHANGED <<now, jobs>>
  BY DEF LoseStore, Restart
<1>5. Clock'
  BY <1>4 DEF RInv, Clock, ClockOf, jobs
<1>6. Slots'
  BY <1>3 DEF Slots
<1>7. Lines'
  BY <1>3, <1>4 DEF Lines, LineOf, RInv, RTypeOK, jobs
<1>8. QED  BY <1>1, <1>2, <1>5, <1>6, <1>7 DEF RInv

\* Time passes, whatever is under way.
LEMMA PassStep ==
    ASSUME RInv, Pass
    PROVE  RInv'
<1>1. Inv'
  BY NextInv DEF RInv, Pass, Next
<1>2. RTypeOK'
  BY <1>1 DEF Pass, RInv, RTypeOK, Inv, jobs, history
<1>3. /\ now' = now + 1 /\ now < Horizon /\ now \in 0..Horizon
      /\ req' = req /\ UNCHANGED jobs /\ Horizon \in Nat
  BY CoordinatorAssumption DEF Pass, Tick, RInv, Clock
<1>4. Clock'
  <2>1. ASSUME NEW j \in Job PROVE ClockOf(j)'
    <3>1. ClockOf(j) /\ expiry[j] \in Nat /\ Life \in Nat
      BY RunnerAssumption DEF RInv, RTypeOK, Clock, Life
    <3>2. QED  BY <1>3, <3>1 DEF ClockOf, jobs
  <2>2. QED  BY <1>3, <2>1 DEF Clock
<1>5. Slots'
  BY <1>3 DEF RInv, Slots, SlotOf, jobs
<1>6. Lines'
  <2>1. \A j \in Job : Message(j)' = Message(j)
    BY <1>3, MessageKept DEF jobs
  <2>2. QED  BY <1>3, <2>1 DEF RInv, Lines, LineOf, jobs
<1>7. QED  BY <1>1, <1>2, <1>4, <1>5, <1>6 DEF RInv

-----------------------------------------------------------------------------
(* The invariant.                                                          *)

\* No run has begun.
LEMMA RInitInv == RInit => RInv
<1> SUFFICES ASSUME RInit PROVE RInv
  OBVIOUS
<1>1. Inv
  BY InitInv DEF RInit
<1>2. /\ phase = [j \in Job |-> "queued"] /\ attempt = [j \in Job |-> 0]
      /\ started = [j \in Job |-> 0] /\ expiry = [j \in Job |-> 0]
      /\ round = [j \in Job |-> 0] /\ line = [j \in Job |-> NoLine]
      /\ faults = 0 /\ clean = [j \in Job |-> FALSE]
      /\ healed = [j \in Job |-> FALSE] /\ wake = [j \in Job |-> 0]
      /\ late = [j \in Job |-> 0] /\ overtaken = [j \in Job |-> FALSE]
      /\ now = 0 /\ req = [r \in Req |-> Closed(200)]
  BY DEF RInit, Init
<1>3. RTypeOK
  BY <1>1, <1>2, RunnerAssumption DEF RTypeOK, Inv, Phase, Off
<1>4. Clock
  BY <1>2, RunnerAssumption, CoordinatorAssumption
  DEF Clock, ClockOf, Life, Off, Calling
<1>5. Slots /\ Lines
  BY <1>2 DEF Slots, Lines, LineOf, Closed
<1>6. QED  BY <1>1, <1>3, <1>4, <1>5 DEF RInv

\* No step breaks the invariant.
LEMMA RNextInv == RInv /\ [RNext]_rvars => RInv'
<1> SUFFICES ASSUME RInv, [RNext]_rvars PROVE RInv'
  OBVIOUS
<1>1. ASSUME NEW j \in Job, Answer(j) PROVE RInv'
  <2>1. phase[j] \in Calling
    BY <1>1 DEF Answer, RInv, Lines, LineOf
  <2>2. Move(j, req[line[j]].status, TRUE) /\ faults' \in 0..MaxFaults
    BY <1>1 DEF Answer, RInv, RTypeOK
  <2>3. QED  BY <1>1, <2>1, <2>2, MoveStep DEF Answer
<1>2. ASSUME NEW j \in Job, Lose(j) PROVE RInv'
  <2>1. faults' \in 0..MaxFaults
    BY <1>2, RunnerAssumption DEF Lose, Fault, RInv, RTypeOK
  <2>2. QED  BY <1>2, <2>1, MoveStep DEF Lose
<1>3. CASE UNCHANGED rvars
  <2>1. Inv'
    BY <1>3, InvKept DEF RInv, rvars, store
  <2>2. RTypeOK'
    BY <1>3, <2>1 DEF RInv, RTypeOK, rvars, jobs, history, Inv
  <2>3. Clock' /\ Slots'
    BY <1>3
    DEF RInv, Clock, ClockOf, Slots, SlotOf, rvars, jobs
  <2>4. \A j \in Job : Message(j)' = Message(j)
    BY <1>3, MessageKept DEF rvars, jobs
  <2>5. Lines'
    BY <1>3, <2>4 DEF RInv, Lines, LineOf, rvars, jobs
  <2>6. QED  BY <2>1, <2>2, <2>3, <2>5 DEF RInv
<1>4. QED
  BY <1>1, <1>2, <1>3, DispatchStep, CalculateExpiryStep, BeginRoundStep,
     FinishStep, CallStep, KillStep, AskDeleteStep, ServeStep, FailCallStep,
     LoseStoreStep, PassStep DEF RNext

\* Hence it holds throughout.
THEOREM RunnerInvariance == RSpec => []RInv
BY RInitInv, RNextInv, PTL DEF RSpec

\* The types of runners and coordinator together.
THEOREM RunnerTypes == RSpec => []RTypeOK
<1>1. RInv => RTypeOK
  BY DEF RInv
<1>2. QED  BY <1>1, RunnerInvariance, PTL

-----------------------------------------------------------------------------
(* What the handlers do to the proxy of a run.                             *)

\* kvGet may have removed it, if it was expired.
Kept(j) == \/ proxies'[j] = proxies[j]
           \/ proxies'[j] = Absent /\ Expired(proxies[j])

\* Where a lease ends that is taken now by a call that names the expiry x: the
\* buffer later, or the default when x is past.
Reach(x) == IF x > now THEN {x + Buffer}
            ELSE {now + DefaultTTL, now + DefaultTTL + Buffer}

\* The handler in slot r puts it with the value v.
Leased(r, j, v) ==
    /\ Stores(r, j)
    /\ proxies'[j] # Absent
    /\ proxies'[j].value = v
    /\ proxies'[j].expires \in Reach(req[r].msg.expiresAt)

\* The handlers that a request in flight can be at.
LEMMA HandlerOfOp ==
    ASSUME RInv, NEW r \in Req, Handle(r)
    PROVE  /\ SlotOf(r) /\ req[r].msg \in Request
           /\ req[r].msg.op = "register" => Register(r)
           /\ req[r].msg.op = "heartbeat" =>
                  HeartbeatRead(r) \/ HeartbeatWrite(r)
           /\ req[r].msg.op = "delete" => Delete(r)
           /\ req[r].msg.op \notin {"register", "heartbeat", "delete"} =>
                  /\ req[r].msg.op \in {"meshRegister", "meshHeartbeat",
                                        "meshDeregister"}
                  /\ \/ MeshRegister(r)
                     \/ MeshHeartbeatRead(r) \/ MeshHeartbeatWrite(r)
                     \/ MeshHeartbeatReadProxy(r) \/ MeshHeartbeatWriteProxy(r)
                     \/ DeregisterMesh(r) \/ DeregisterProxy(r)
<1> DEFINE op == req[r].msg.op
<1>1. req[r].step # "idle"
  BY HandlerGoesOn
<1>2. SlotOf(r) /\ req[r].msg \in Request /\ HandlerOK(req[r])
  BY <1>1 DEF RInv, Slots, Inv, HandlersOK, HandlerOK
<1>3. /\ req[r].msg.check = "ok"
      /\ op \in {"register", "heartbeat", "delete", "meshRegister",
                 "meshHeartbeat", "meshDeregister"}
  BY <1>2 DEF SlotOf
<1>4. ~Reject(r)
  BY <1>3 DEF Reject
<1>5. ~SubRead(r) /\ ~ListKeys(r)
  BY <1>3 DEF SubRead, ListKeys, At, Listing, ProxyListing
<1>6. ~ListRead(r) /\ ~ListReply(r)
  BY <1>2, <1>3 DEF ListRead, ListReply, HandlerOK, ProxyListing
<1>7. QED
  BY <1>2, <1>3, <1>4, <1>5, <1>6
  DEF Handle, Register, HeartbeatRead, HeartbeatWrite, Delete, MeshRegister,
      MeshHeartbeatRead, MeshHeartbeatWrite, MeshHeartbeatReadProxy,
      MeshHeartbeatWriteProxy, DeregisterMesh, DeregisterProxy, At

\* What a call names is a moment of time, and one that may be capped never is.
LEMMA CallExpiry ==
    ASSUME RInv, NEW r \in Req, NEW j \in Job, SlotOf(r), Stores(r, j)
    PROVE  LET x == req[r].msg.expiresAt
           IN  /\ x \in Nat \ {0} /\ x <= expiry[j] /\ x # NoExpiry
               /\ x \in Expiry /\ expiry[j] \in Nat /\ now \in Nat
               /\ x <= now + Life
               /\ now + RegisterTTL(x) \in Reach(x)
               /\ now + HeartbeatTTL(x) \in Reach(x)
               /\ Reach(x) \subseteq Nat
<1> DEFINE x == req[r].msg.expiresAt
<1>1. /\ x \in Life..(Horizon + Life) /\ x <= expiry[j]
      /\ expiry[j] \in Nat /\ now \in Nat /\ expiry[j] <= now + Life
  BY CoordinatorAssumption
  DEF Stores, At, SlotOf, RInv, RTypeOK, Clock, ClockOf
<1>2. Life \in Nat \ {0} /\ Life + Buffer <= MaxTTL /\ x \in Expiry
  BY <1>1, RunnerAssumption DEF Life
<1>3. x # NoExpiry /\ {MaxTTL, Buffer, DefaultTTL} \subseteq Nat
      /\ DefaultTTL + Buffer <= MaxTTL /\ Horizon \in Nat
  BY <1>2, CoordinatorAssumption
<1> HIDE DEF x
<1>4. x \in Nat \ {0} /\ x <= now + Life
  BY <1>1, <1>2, <1>3
<1>5. now + RegisterTTL(x) \in Reach(x)
  BY <1>1, <1>2, <1>3, <1>4 DEF RegisterTTL, Remaining, Min2, Reach
<1>6. now + HeartbeatTTL(x) \in Reach(x)
  BY <1>1, <1>3, <1>4 DEF HeartbeatTTL, Reach
<1>7. Reach(x) \subseteq Nat
  BY <1>1, <1>3, <1>4 DEF Reach
<1>8. QED  BY <1>1, <1>2, <1>3, <1>4, <1>5, <1>6, <1>7 DEF x

\* /register puts the endpoint that is registered.
LEMMA RegisterEffect ==
    ASSUME RInv, NEW r \in Req, Register(r), SlotOf(r), req[r].msg \in Request,
           NEW j \in Job
    PROVE  IF req[r].msg.id = j
           THEN /\ \E v : /\ Leased(r, j, v)
                          /\ v.endpoint = req[r].msg.endpoint
                /\ req'[r] = Closed(200)
           ELSE Kept(j)
<1> DEFINE m == req[r].msg
           v == [endpoint |-> m.endpoint, expiresAt |-> m.expiresAt]
<1>1. /\ m.op = "register" /\ At(r, "register", "recv")
      /\ proxies' = Put(proxies, m.id, v, RegisterTTL(m.expiresAt))
      /\ req'[r] = Closed(200)
  BY DEF Register, At, Reply, Becomes, RInv, Inv, TypeOK
<1>2. j \in Id
  BY RunnerAssumption DEF JobId
<1>3. CASE m.id = j
  <2>1. Stores(r, j)
    BY <1>1, <1>3 DEF Stores
  <2>2. /\ now + RegisterTTL(m.expiresAt) \in Reach(m.expiresAt)
        /\ Reach(m.expiresAt) \subseteq Nat
    BY <2>1, CallExpiry
  <2>3. v \in Value
    <3>1. m.endpoint \in Endpoint /\ m.expiresAt \in ClientExpiry
      BY <1>1, RequestFields DEF At
    <3>2. QED  BY <3>1 DEF Value, ClientExpiry
  <2> DEFINE t == RegisterTTL(m.expiresAt)
  <2>4. proxies'[j] = Stored(v, t)
    <3> HIDE DEF v, t
    <3>1. QED  BY <1>1, <1>2, <1>3 DEF Put, RInv, Inv, TypeOK, t
  <2>5. Leased(r, j, v)
    <3> HIDE DEF v, t
    <3>1. proxies'[j] = [value |-> v, expires |-> now + t]
      BY <2>4 DEF Stored
    <3>2. now + t \in Int
      BY <2>2 DEF t
    <3>3. proxies'[j] \in Entry
      BY <2>3, <3>1, <3>2 DEF Entry
    <3>4. QED  BY <2>1, <2>2, <3>1, <3>3, AbsentAssumption DEF Leased, t
  <2>6. v.endpoint = m.endpoint
    OBVIOUS
  <2> HIDE DEF v
  <2>7. QED  BY <1>1, <1>3, <2>5, <2>6
<1>4. CASE m.id # j
  BY <1>1, <1>2, <1>4 DEF Put, Kept, RInv, Inv, TypeOK
<1>5. QED  BY <1>3, <1>4

\* /heartbeat takes the value that is there, or answers 404.
LEMMA HeartbeatReadEffect ==
    ASSUME RInv, NEW r \in Req, HeartbeatRead(r), SlotOf(r), NEW j \in Job
    PROVE  /\ Kept(j)
           /\ req[r].msg.id \in Job
           /\ \/ req'[r].step = "idle" /\ req'[r].status = 404
              \/ /\ req'[r].step = "renew" /\ req'[r].msg = req[r].msg
                 /\ proxies[req[r].msg.id] # Absent
                 /\ req'[r].held = proxies[req[r].msg.id].value
<1> DEFINE id == req[r].msg.id
<1>1. id \in Job /\ proxies' = Swept(proxies, {id})
  BY DEF HeartbeatRead, At, SlotOf
<1>2. Kept(j)
  <2>1. j \in DOMAIN proxies
    BY RunnerAssumption DEF JobId, RInv, Inv, TypeOK
  <2>2. QED  BY <1>1, <2>1 DEF Swept, Kept
<1>3. CASE Live(proxies[id])
  <2>1. req'[r] = Running(req[r].msg, "renew", proxies[id].value, 0)
    BY <1>3 DEF HeartbeatRead, Becomes, Got, RInv, Inv, TypeOK
  <2>2. QED  BY <1>1, <1>2, <1>3, <2>1 DEF Running, Live
<1>4. CASE ~Live(proxies[id])
  BY <1>1, <1>2, <1>4
  DEF HeartbeatRead, Reply, Becomes, Closed, RInv, Inv, TypeOK
<1>5. QED  BY <1>3, <1>4

\* It puts that value back.
LEMMA HeartbeatWriteEffect ==
    ASSUME RInv, NEW r \in Req, HeartbeatWrite(r), SlotOf(r), NEW j \in Job
    PROVE  IF req[r].msg.id = j
           THEN Leased(r, j, req[r].held) /\ req'[r] = Closed(200)
           ELSE Kept(j)
<1> DEFINE m == req[r].msg
<1>1. /\ At(r, "heartbeat", "renew") /\ req'[r] = Closed(200)
      /\ proxies' = Put(proxies, m.id, req[r].held, HeartbeatTTL(m.expiresAt))
  BY DEF HeartbeatWrite, Reply, Becomes, RInv, Inv, TypeOK
<1>2. j \in Id
  BY RunnerAssumption DEF JobId
<1>3. CASE m.id = j
  <2>1. Stores(r, j)
    BY <1>1, <1>3 DEF Stores
  <2>2. /\ now + HeartbeatTTL(m.expiresAt) \in Reach(m.expiresAt)
        /\ Reach(m.expiresAt) \subseteq Nat
    BY <2>1, CallExpiry
  <2>3. req[r].held \in Value
    BY <1>1 DEF At, RInv, Inv, HandlersOK, HandlerOK
  <2> DEFINE t == HeartbeatTTL(m.expiresAt)
  <2>4. proxies'[j] = Stored(req[r].held, t)
    <3> HIDE DEF t
    <3>1. QED  BY <1>1, <1>2, <1>3 DEF Put, RInv, Inv, TypeOK, t
  <2>5. Leased(r, j, req[r].held)
    <3> HIDE DEF t
    <3>1. proxies'[j] = [value |-> req[r].held, expires |-> now + t]
      BY <2>4 DEF Stored
    <3>2. now + t \in Int
      BY <2>2 DEF t
    <3>3. proxies'[j] \in Entry
      BY <2>3, <3>1, <3>2 DEF Entry
    <3>4. QED  BY <2>1, <2>2, <3>1, <3>3, AbsentAssumption DEF Leased, t
  <2>6. QED  BY <1>1, <1>3, <2>5
<1>4. CASE m.id # j
  BY <1>1, <1>2, <1>4 DEF Put, Kept, RInv, Inv, TypeOK
<1>5. QED  BY <1>3, <1>4

\* The mesh calls are about other ids.
LEMMA MeshEffect ==
    ASSUME RInv, NEW r \in Req, SlotOf(r), NEW j \in Job,
           \/ MeshRegister(r)
           \/ MeshHeartbeatRead(r) \/ MeshHeartbeatWrite(r)
           \/ MeshHeartbeatReadProxy(r) \/ MeshHeartbeatWriteProxy(r)
           \/ DeregisterMesh(r) \/ DeregisterProxy(r)
    PROVE  /\ proxies'[j] = proxies[j]
           /\ req'[r].step # "renew"
<1>1. req[r].msg.id # j
  BY DEF SlotOf, MeshRegister, MeshHeartbeatRead, MeshHeartbeatWrite,
     MeshHeartbeatReadProxy, MeshHeartbeatWriteProxy, DeregisterMesh,
     DeregisterProxy, At
<1>2. j \in DOMAIN proxies /\ proxies \in [Id -> Entry \cup {Absent}]
  BY RunnerAssumption DEF JobId, RInv, Inv, TypeOK
<1>3. proxies'[j] = proxies[j]
  <2>1. CASE MeshRegister(r) \/ MeshHeartbeatRead(r) \/ MeshHeartbeatWrite(r)
                \/ DeregisterMesh(r)
    BY <2>1 DEF MeshRegister, MeshHeartbeatRead, MeshHeartbeatWrite,
       DeregisterMesh, store
  <2>2. CASE MeshHeartbeatReadProxy(r)
    BY <1>1, <1>2, <2>2 DEF MeshHeartbeatReadProxy, Swept
  <2>3. CASE MeshHeartbeatWriteProxy(r)
    BY <1>1, <1>2, <2>3 DEF MeshHeartbeatWriteProxy, Put
  <2>4. CASE DeregisterProxy(r)
    BY <1>1, <1>2, <2>4 DEF DeregisterProxy, Without
  <2>5. QED  BY <2>1, <2>2, <2>3, <2>4
<1>4. req'[r].step # "renew"
  <2> USE DEF Reply, Becomes, Closed, Running, RInv, Inv, TypeOK
  <2>1. CASE MeshRegister(r) \/ DeregisterProxy(r)
                \/ MeshHeartbeatWriteProxy(r)
    BY <2>1 DEF MeshRegister, DeregisterProxy, MeshHeartbeatWriteProxy
  <2>2. CASE MeshHeartbeatRead(r)
    BY <2>2 DEF MeshHeartbeatRead
  <2>3. CASE MeshHeartbeatWrite(r)
    BY <2>3 DEF MeshHeartbeatWrite
  <2>4. CASE MeshHeartbeatReadProxy(r)
    BY <2>4 DEF MeshHeartbeatReadProxy
  <2>5. CASE DeregisterMesh(r)
    BY <2>5 DEF DeregisterMesh
  <2>6. QED  BY <2>1, <2>2, <2>3, <2>4, <2>5
<1>5. QED  BY <1>3, <1>4

\* All that a handler may do to the proxy of a run, put together.
LEMMA ServeEffects ==
    ASSUME RInv, NEW r \in Req, Handle(r), NEW j \in Job
    PROVE  \/ Kept(j) /\ ~Stores(r, j)
           \/ /\ At(r, "register", "recv") /\ SlotOf(r)
              /\ \E v : Leased(r, j, v) /\ v.endpoint = req[r].msg.endpoint
           \/ /\ At(r, "heartbeat", "renew") /\ SlotOf(r)
              /\ Leased(r, j, req[r].held)
           \/ /\ req[r].msg.id = j /\ Delete(r) /\ proxies'[j] = Absent
              /\ ~Stores(r, j)
<1> USE HandlerOfOp
<1>1. CASE req[r].msg.op = "register"
  <2>1. Register(r) /\ SlotOf(r) /\ req[r].msg \in Request
    BY <1>1
  <2>2. CASE req[r].msg.id = j
    BY <2>1, <2>2, RegisterEffect DEF Register
  <2>3. CASE req[r].msg.id # j
    BY <2>1, <2>3, RegisterEffect DEF Stores
  <2>4. QED  BY <2>2, <2>3
<1>2. CASE req[r].msg.op = "heartbeat"
  <2>1. SlotOf(r)
    OBVIOUS
  <2>2. CASE HeartbeatRead(r)
    <3>1. Kept(j)
      BY <2>1, <2>2, HeartbeatReadEffect
    <3>2. ~Stores(r, j)
      BY <2>2 DEF Stores, At, HeartbeatRead
    <3>3. QED  BY <3>1, <3>2
  <2>3. CASE HeartbeatWrite(r) /\ req[r].msg.id = j
    BY <2>1, <2>3, HeartbeatWriteEffect DEF HeartbeatWrite
  <2>4. CASE HeartbeatWrite(r) /\ req[r].msg.id # j
    BY <2>1, <2>4, HeartbeatWriteEffect DEF Stores
  <2>5. QED  BY <1>2, <2>2, <2>3, <2>4
<1>3. CASE req[r].msg.op = "delete"
  <2>1. /\ Delete(r) /\ j \in DOMAIN proxies
        /\ proxies' = Without(proxies, req[r].msg.id)
    BY <1>3, RunnerAssumption DEF Delete, JobId, RInv, Inv, TypeOK
  <2>2. ~Stores(r, j)
    BY <1>3 DEF Stores, At
  <2>3. QED  BY <2>1, <2>2 DEF Without, Kept
<1>4. CASE req[r].msg.op \notin {"register", "heartbeat", "delete"}
  <2>1. ~Stores(r, j)
    BY <1>4 DEF Stores, At
  <2>2. QED  BY <1>4, <2>1, MeshEffect DEF Kept
<1>5. QED  BY <1>1, <1>2, <1>3, <1>4

-----------------------------------------------------------------------------
(* No ghosts.                                                              *)

\* No lease exceeds that of the latest attempt, but for what a late call took.
LeaseOf(j) ==
    proxies[j] # Absent =>
        \/ proxies[j].expires <= expiry[j] + Buffer
        \/ /\ late[j] # 0
           /\ proxies[j].expires <= late[j] + DefaultTTL + Buffer

Leases == \A j \in Job : LeaseOf(j)

\* Only a handler prolongs a lease, and a new attempt's is longer.
LEMMA LeasesStep == RInv /\ Leases /\ [RNext]_rvars => Leases'
<1> SUFFICES ASSUME RInv, Leases, [RNext]_rvars, NEW j \in Job
             PROVE  LeaseOf(j)'
  BY DEF Leases
<1>1. /\ j \in Id /\ proxies \in [Id -> Entry \cup {Absent}]
      /\ expiry[j] \in Nat /\ now \in Nat
      /\ {Buffer, Life, DefaultTTL} \subseteq Nat
      /\ expiry \in [Job -> Nat] /\ expiry[j] <= now + Life
  BY RunnerAssumption, CoordinatorAssumption
  DEF JobId, RInv, RTypeOK, Inv, TypeOK, Clock, ClockOf, Life
<1>2. LeaseOf(j) /\ (proxies[j] # Absent => proxies[j].expires \in Int)
  BY <1>1 DEF Leases, Entry
<1>3. ASSUME NEW i \in Job, CalculateExpiry(i) PROVE LeaseOf(j)'
  <2>1. /\ proxies'[j] = proxies[j] /\ late' = late
        /\ expiry'[j] \in {expiry[j], now + Life}
    BY <1>1, <1>3 DEF CalculateExpiry, store
  <2>2. QED  BY <1>1, <1>2, <2>1 DEF LeaseOf
<1>4. ASSUME proxies'[j] \in {proxies[j], Absent}, expiry' = expiry,
             late' = late
      PROVE  LeaseOf(j)'
  BY <1>2, <1>4 DEF LeaseOf
<1>5. ASSUME NEW r \in Req, Serve(r) PROVE LeaseOf(j)'
  <2>1. /\ Handle(r) /\ expiry' = expiry
        /\ late'[j] = IF Stores(r, j) /\ req[r].msg.expiresAt <= now THEN now
                      ELSE late[j]
    BY <1>5 DEF Serve, jobs
  <2>2. CASE \E v : Leased(r, j, v) /\ SlotOf(r)
    <3> DEFINE x == req[r].msg.expiresAt
    <3>1. Stores(r, j) /\ proxies'[j].expires \in Reach(x) /\ SlotOf(r)
      BY <2>2 DEF Leased
    <3>2. x \in Nat \ {0} /\ x <= expiry[j]
      BY <3>1, CallExpiry
    <3> HIDE DEF x
    <3>3. CASE x > now
      BY <1>1, <2>1, <3>1, <3>2, <3>3 DEF LeaseOf, Reach
    <3>4. CASE x <= now
      <4>1. late'[j] = now /\ now # 0
        BY <1>1, <2>1, <3>1, <3>2, <3>4 DEF x
      <4>2. proxies'[j].expires <= now + DefaultTTL + Buffer
        BY <1>1, <3>1, <3>2, <3>4 DEF Reach
      <4>3. QED  BY <4>1, <4>2 DEF LeaseOf
    <3>5. QED  BY <1>1, <3>2, <3>3, <3>4
  <2>3. CASE ~Stores(r, j) /\ (Kept(j) \/ proxies'[j] = Absent)
    BY <1>2, <2>1, <2>3 DEF Kept, LeaseOf
  <2>4. QED  BY <2>1, <2>2, <2>3, ServeEffects
<1>6. CASE LoseStore
  BY <1>1, <1>4, <1>6 DEF LoseStore, Restart, store, jobs
<1>7. CASE Pass
  <2>1. /\ proxies'[j] \in {proxies[j], Absent} /\ expiry' = expiry
        /\ late' = late
    BY <1>1, <1>7, RemoveType DEF Pass, Tick, jobs, history
  <2>2. QED  BY <1>4, <2>1
<1>8. ASSUME NEW i \in Job,
             \/ Dispatch(i) \/ BeginRound(i) \/ Finish(i) \/ Call(i)
             \/ Answer(i) \/ Kill(i) \/ Lose(i) \/ AskDelete(i)
      PROVE  proxies'[j] = proxies[j] /\ expiry' = expiry /\ late' = late
  BY <1>8 DEF Dispatch, BeginRound, Finish, Call, Answer, Kill, Lose,
     AskDelete, store, jobs, history
<1>9. ASSUME NEW r \in Req, FailCall(r)
      PROVE  proxies'[j] = proxies[j] /\ expiry' = expiry /\ late' = late
  BY <1>9 DEF FailCall, Fail, store, jobs
<1>10. CASE UNCHANGED rvars
  BY <1>4, <1>10 DEF rvars, jobs, history
<1>11. QED
  BY <1>3, <1>4, <1>5, <1>6, <1>7, <1>8, <1>9, <1>10 DEF RNext

\* However late the calls of a job are handled, of whichever attempt: its proxy
\* is listed for at most the buffer beyond EXPIRES_AT, or for an hour and the
\* buffer after the last call that was handled too late.
THEOREM NoProxyOutlives == RSpec => []NoGhost
<1>1. RInit => Leases
  BY DEF RInit, Leases, LeaseOf
<1>2. RInv /\ Leases => NoGhost
  <2> SUFFICES ASSUME RInv, Leases, NEW j \in Job, Live(proxies[j])
               PROVE  \/ now <= expiry[j] + Buffer
                      \/ late[j] # 0 /\ now <= late[j] + DefaultTTL + Buffer
    BY DEF NoGhost
  <2>1. proxies[j] # Absent /\ ~(now > proxies[j].expires) /\ LeaseOf(j)
    BY DEF Live, Expired, Leases
  <2>2. /\ now \in Nat /\ expiry[j] \in Nat /\ late[j] \in Nat
        /\ Buffer \in Nat /\ DefaultTTL \in Nat
        /\ proxies[j].expires \in Int
    BY <2>1, RunnerAssumption, CoordinatorAssumption
    DEF RInv, RTypeOK, Clock, Inv, TypeOK, JobId, Entry
  <2>3. QED  BY <2>1, <2>2 DEF LeaseOf
<1>3. QED  BY <1>1, <1>2, LeasesStep, RunnerInvariance, PTL DEF RSpec

-----------------------------------------------------------------------------
(* The attempt that is served.                                             *)

\* The response the job waits for is there, and says that it went well.
Granted(j) == /\ line[j] # NoLine /\ req[line[j]].step = "idle"
              /\ req[line[j]].status = 200

\* The current attempt has registered.
Registered(j) ==
    \/ phase[j] \in Loop \cup {"meshRegister"}
    \/ phase[j] = "register" /\ Granted(j)

\* From then on no older endpoint is stored, or about to be, unless a call that
\* was going to store one outlived the registration.
CurrentOf(j) ==
    Registered(j) /\ ~overtaken[j] =>
        /\ proxies[j] # Absent => proxies[j].value.endpoint.attempt = attempt[j]
        /\ \A r \in Req : ~Straggler(r, j)

Current == \A j \in Job : CurrentOf(j)

\* A step that neither registers the attempt nor writes its proxy.
LEMMA CurrentKept ==
    ASSUME NEW j, CurrentOf(j), Registered(j)' => Registered(j),
           attempt'[j] = attempt[j], overtaken'[j] = overtaken[j],
           proxies'[j] \in {proxies[j], Absent},
           \A r \in Req : \/ req'[r].step = "idle" \/ req'[r] = req[r]
                         \/ ~Straggler(r, j)'
    PROVE  CurrentOf(j)'
<1>1. \A r \in Req : Straggler(r, j)' => Straggler(r, j)
  BY DEF Straggler, Stores, At
<1>2. QED  BY <1>1 DEF CurrentOf

\* The steps of jobs: an attempt enters its loop only if it has registered.
LEMMA JobsKeepCurrent ==
    ASSUME RInv, Current, NEW i \in Job, NEW j \in Job,
           \/ Dispatch(i) \/ CalculateExpiry(i) \/ BeginRound(i) \/ Finish(i)
           \/ Call(i) \/ Answer(i) \/ Kill(i) \/ Lose(i) \/ AskDelete(i)
    PROVE  CurrentOf(j)'
<1>1. CurrentOf(j)
  BY DEF Current
<1>2. proxies' = proxies
  BY DEF Dispatch, CalculateExpiry, BeginRound, Finish, Call, Answer, Kill,
     Lose, AskDelete, store
<1>3. /\ phase \in [Job -> Phase] /\ line \in [Job -> Req \cup {NoLine}]
      /\ attempt \in [Job -> 0..MaxAttempts] /\ req \in [Req -> Handler]
      /\ overtaken' = overtaken
  BY DEF RInv, RTypeOK, Inv, TypeOK, Dispatch, CalculateExpiry, BeginRound,
     Finish, Call, Answer, Kill, Lose, AskDelete, history
<1>4. CASE Dispatch(i)
  <2>1. CASE i = j
    <3>1. phase'[j] = "setup"
      BY <1>3, <1>4, <2>1 DEF Dispatch
    <3>2. QED  BY <3>1 DEF CurrentOf, Registered, Loop
  <2>2. CASE i # j
    BY <1>1, <1>2, <1>3, <1>4, <2>2, CurrentKept
    DEF Dispatch, Registered, Granted
  <2>3. QED  BY <2>1, <2>2
<1>5. CASE CalculateExpiry(i)
  <2>1. CASE i = j
    <3>1. phase'[j] = "register" /\ line'[j] = NoLine
      BY <1>3, <1>5, <2>1 DEF CalculateExpiry, RInv, Lines, LineOf, Calling
    <3>2. QED  BY <3>1 DEF CurrentOf, Registered, Loop, Granted
  <2>2. CASE i # j
    BY <1>1, <1>2, <1>3, <1>5, <2>2, CurrentKept
    DEF CalculateExpiry, Registered, Granted
  <2>3. QED  BY <2>1, <2>2
<1>6. CASE BeginRound(i)
  <2>1. Registered(j)' => Registered(j)
    BY <1>3, <1>6 DEF BeginRound, Registered, Granted, Loop
  <2>2. QED  BY <1>1, <1>2, <1>3, <1>6, <2>1, CurrentKept DEF BeginRound
<1>7. CASE Finish(i) \/ Kill(i)
  <2>1. Registered(j)' => Registered(j)
    BY <1>3, <1>7 DEF Finish, Kill, Registered, Granted, Loop
  <2>2. QED  BY <1>1, <1>2, <1>3, <1>7, <2>1, CurrentKept DEF Finish, Kill
<1>8. CASE Answer(i) \/ Lose(i)
  <2> DEFINE goes(code) ==
                 /\ phase' = [phase EXCEPT ![i] = Reaction(phase[i], code)]
                 /\ line' = [line EXCEPT ![i] = NoLine]
                 /\ phase[i] \in Calling
                 /\ phase[i] = "register" /\ code = 200 => Granted(i)
  <2>1. PICK code : goes(code)
    <3>1. CASE Answer(i)
      <4>1. phase[i] \in Calling
        BY <3>1 DEF Answer, RInv, Lines, LineOf
      <4>2. Move(i, req[line[i]].status, TRUE)
        BY <3>1 DEF Answer
      <4>3. req[line[i]].status = 200 => Granted(i)
        BY <3>1 DEF Answer, Granted
      <4>4. goes(req[line[i]].status)
        BY <4>1, <4>2, <4>3 DEF Move
      <4>5. QED  BY <4>4
    <3>2. CASE Lose(i)
      <4>1. Move(i, 0, FALSE) /\ phase[i] \in Calling
        BY <3>2 DEF Lose
      <4>2. 0 # 200
        OBVIOUS
      <4>3. goes(0)
        BY <4>1, <4>2 DEF Move
      <4>4. QED  BY <4>3
    <3>3. QED  BY <1>8, <3>1, <3>2
  <2>2. UNCHANGED <<req, attempt>>
    BY <1>8 DEF Answer, Lose
  <2>3. /\ phase' = [phase EXCEPT ![i] = Reaction(phase[i], code)]
        /\ line' = [line EXCEPT ![i] = NoLine]
    BY <2>1
  <2>4. Registered(j)' => Registered(j)
    <3>1. CASE i = j
      <4>1. phase'[j] = Reaction(phase[j], code) /\ line'[j] = NoLine
        BY <1>3, <2>3, <3>1
      <4>2. CASE phase[j] \in {"register", "deregister"}
        <5>1. CASE phase[j] = "register" /\ code = 200
          BY <2>1, <3>1, <5>1 DEF Registered
        <5>2. CASE ~(phase[j] = "register" /\ code = 200)
          <6>1. Reaction(phase[j], code) = "over"
            BY <2>1, <3>1, <4>2, <5>2, Reactions
          <6>2. QED  BY <4>1, <6>1 DEF Registered, Loop
        <5>3. QED  BY <5>1, <5>2
      <4>3. CASE phase[j] \notin {"register", "deregister"}
        BY <2>1, <3>1, <4>3 DEF Registered, Loop, Calling
      <4>4. QED  BY <4>2, <4>3
    <3>2. CASE i # j
      BY <1>3, <2>2, <2>3, <3>2 DEF Registered, Granted
    <3>3. QED  BY <3>1, <3>2
  <2>5. QED  BY <1>1, <1>2, <1>3, <2>2, <2>4, CurrentKept
<1>9. CASE Call(i) \/ AskDelete(i)
  <2>1. PICK r \in Req : /\ ~InFlight(r)
                         /\ \E m : /\ Becomes(r, Running(m, "recv", Absent, 0))
                                   /\ m.op = "register" /\ m.id = j =>
                                         m.endpoint.attempt = attempt[j]
                         /\ \A k \in Job : line'[k] \in {line[k], r}
    <3>1. CASE Call(i)
      <4>1. PICK r \in Req :
               /\ ~InFlight(r)
               /\ Becomes(r, Running(Message(i), "recv", Absent, 0))
               /\ line' = [line EXCEPT ![i] = r]
        BY <3>1 DEF Call
      <4>2. \A k \in Job : line'[k] \in {line[k], r}
        BY <1>3, <4>1
      <4>3. Message(i).op = "register" /\ Message(i).id = j =>
                Message(i).endpoint.attempt = attempt[j]
        <5>1. phase[i] \in Calling
          BY <3>1 DEF Call
        <5>2. CASE phase[i] \in {"register", "registerAgain"}
          BY <5>1, <5>2, MessageType DEF RInv
        <5>3. CASE phase[i] \notin {"register", "registerAgain"}
          BY <5>1, <5>3, MessageType DEF RInv
        <5>4. QED  BY <5>2, <5>3
      <4>4. QED  BY <4>1, <4>2, <4>3
    <3>2. CASE AskDelete(i)
      <4> DEFINE m == [op |-> "delete", id |-> i, net |-> Absent,
                       endpoint |-> Absent, expiresAt |-> NoExpiry,
                       check |-> "ok"]
      <4>1. PICK r \in Req : /\ ~InFlight(r)
                             /\ Becomes(r, Running(m, "recv", Absent, 0))
        BY <3>2 DEF AskDelete
      <4>2. line' = line
        BY <3>2 DEF AskDelete, jobs
      <4>3. m.op # "register"
        OBVIOUS
      <4> HIDE DEF m
      <4>4. QED  BY <4>1, <4>2, <4>3
    <3>3. QED  BY <1>9, <3>1, <3>2
  <2>2. /\ req'[r].step = "recv" /\ \A s \in Req \ {r} : req'[s] = req[s]
        /\ req'[r].msg.op = "register" /\ req'[r].msg.id = j =>
               req'[r].msg.endpoint.attempt = attempt[j]
    BY <1>3, <2>1 DEF Becomes, Running
  <2>3. UNCHANGED <<phase, attempt>>
    BY <1>9 DEF Call, AskDelete, jobs
  <2>4. Registered(j)' => Registered(j)
    <3> SUFFICES ASSUME Granted(j)' PROVE Granted(j)
      BY <2>3 DEF Registered
    <3>1. line'[j] # r
      BY <2>2 DEF Granted
    <3>2. line'[j] = line[j] /\ line[j] \in Req \ {r}
      BY <1>3, <2>1, <3>1 DEF Granted
    <3>3. QED  BY <2>2, <3>2 DEF Granted
  <2>5. ~Straggler(r, j)'
    BY <2>2, <2>3 DEF Straggler, Stores, At
  <2>6. QED  BY <1>1, <1>2, <1>3, <2>2, <2>3, <2>4, <2>5, CurrentKept
<1>10. QED  BY <1>4, <1>5, <1>6, <1>7, <1>8, <1>9

\* The steps of handlers: a registration puts the endpoint of its attempt, and
\* a heartbeat takes what is there and puts it back.
LEMMA HandlersKeepCurrent ==
    ASSUME RInv, Current, NEW r \in Req, Serve(r), NEW j \in Job
    PROVE  CurrentOf(j)'
<1>1. /\ Handle(r) /\ UNCHANGED jobs /\ CurrentOf(j)
      /\ req \in [Req -> Handler]
  BY DEF Serve, Current, RInv, Inv, TypeOK
<1>2. PICK h : /\ req' = [req EXCEPT ![r] = h]
               /\ h.step = "idle" \/ h.msg = req[r].msg
  BY <1>1, HandlerGoesOn
<1>3. req'[r] = h /\ \A s \in Req \ {r} : req'[s] = req[s]
  BY <1>1, <1>2
<1>4. SUFFICES ASSUME Registered(j)', ~overtaken'[j]
               PROVE  /\ proxies'[j] # Absent =>
                             proxies'[j].value.endpoint.attempt = attempt[j]
                      /\ \A s \in Req : ~Straggler(s, j)'
  BY <1>1 DEF CurrentOf, jobs
<1>5. \A s \in Req \ {r} : Straggler(s, j)' => Straggler(s, j)
  BY <1>1, <1>3 DEF Straggler, Stores, At, jobs
<1>6. CASE At(r, "register", "recv") /\ Stores(r, j) /\ ~Straggler(r, j)
  <2>1. \A s \in Req : ~Straggler(s, j)
    BY <1>4, <1>6 DEF Serve
  <2>2. req[r].msg.endpoint.attempt = attempt[j] /\ req[r].msg.id = j
    BY <1>6 DEF Straggler, Stores
  <2>3. Register(r) /\ SlotOf(r) /\ req[r].msg \in Request
    BY <1>1, <1>6, HandlerOfOp DEF At
  <2>4. /\ \E v : Leased(r, j, v) /\ v.endpoint = req[r].msg.endpoint
        /\ req'[r] = Closed(200)
    BY <2>2, <2>3, RegisterEffect
  <2>5. proxies'[j].value.endpoint.attempt = attempt[j]
    BY <2>2, <2>4 DEF Leased
  <2>6. ~Straggler(r, j)'
    BY <2>4 DEF Straggler, Stores, At, Closed
  <2>7. QED  BY <1>5, <2>1, <2>5, <2>6
<1>7. CASE ~(At(r, "register", "recv") /\ Stores(r, j) /\ ~Straggler(r, j))
  <2>1. ~overtaken[j]
    BY <1>4, <1>7 DEF Serve
  <2>2. Registered(j)
    <3> SUFFICES ASSUME ~Registered(j) PROVE FALSE
      OBVIOUS
    <3>1. phase[j] = "register" /\ Granted(j)' /\ ~Granted(j) /\ line' = line
      BY <1>1, <1>4 DEF Registered, jobs
    <3>2. line[j] \in Req
      BY <3>1 DEF Granted, RInv, RTypeOK
    <3>3. line[j] = r /\ line[j] # NoLine
      BY <1>3, <3>1, <3>2 DEF Granted
    <3>4. req[r].step # "idle"
      BY <1>1, HandlerGoesOn
    <3>5. req[r].msg = Message(j)
      BY <3>3, <3>4 DEF RInv, Lines, LineOf
    <3>6. /\ req[r].msg.op = "register" /\ req[r].msg.id = j
          /\ req[r].msg.endpoint.attempt = attempt[j]
      BY <3>1, <3>5, MessageType DEF RInv, Calling
    <3>7. Register(r)
      BY <1>1, <3>6, HandlerOfOp
    <3>8. QED  BY <1>7, <3>6, <3>7 DEF Register, Straggler, Stores
  <2>3. /\ proxies[j] # Absent =>
               proxies[j].value.endpoint.attempt = attempt[j]
        /\ \A s \in Req : ~Straggler(s, j)
    BY <1>1, <2>1, <2>2 DEF CurrentOf
  <2>4. ~(At(r, "register", "recv") /\ Stores(r, j))
    BY <1>7, <2>3
  <2>5. proxies'[j] # Absent => proxies'[j].value.endpoint.attempt = attempt[j]
    <3>1. CASE Kept(j) \/ proxies'[j] = Absent
      BY <2>3, <3>1 DEF Kept
    <3>2. CASE At(r, "heartbeat", "renew") /\ Leased(r, j, req[r].held)
      <4>1. Stores(r, j) /\ ~At(r, "register", "recv")
        BY <3>2 DEF Leased, At
      <4>2. req[r].held.endpoint.attempt = attempt[j]
        BY <2>3, <4>1 DEF Straggler
      <4>3. QED  BY <3>2, <4>2 DEF Leased
    <3>3. QED  BY <1>1, <2>4, <3>1, <3>2, ServeEffects DEF Leased
  <2>6. ~Straggler(r, j)'
    <3> SUFFICES ASSUME Straggler(r, j)' PROVE FALSE
      OBVIOUS
    <3>1. req'[r].step # "idle" /\ req'[r].msg = req[r].msg
      BY <1>2, <1>3 DEF Straggler, Stores, At
    <3>2. CASE At(r, "register", "recv")'
      <4>1. Register(r)
        BY <1>1, <3>1, <3>2, HandlerOfOp DEF At
      <4>2. QED
        BY <1>1, <3>1, <4>1 DEF Register, Reply, Becomes, Closed
    <3>3. CASE At(r, "heartbeat", "renew")'
      <4>1. req[r].msg.op = "heartbeat" /\ req[r].msg.id = j
        BY <3>1, <3>3 DEF At, Straggler, Stores
      <4>2. ~HeartbeatWrite(r)
        BY <1>1, <3>1 DEF HeartbeatWrite, Reply, Becomes, Closed
      <4>3. HeartbeatRead(r) /\ SlotOf(r)
        BY <1>1, <4>1, <4>2, HandlerOfOp
      <4>4. proxies[j] # Absent /\ req'[r].held = proxies[j].value
        BY <3>1, <4>1, <4>3, HeartbeatReadEffect
      <4>5. req'[r].held.endpoint.attempt = attempt[j]
        BY <2>3, <4>4
      <4>6. ~At(r, "register", "recv")' /\ attempt' = attempt
        BY <1>1, <3>3 DEF At, jobs
      <4>7. QED  BY <4>5, <4>6 DEF Straggler
    <3>4. QED  BY <3>2, <3>3 DEF Straggler, Stores
  <2>7. QED  BY <1>5, <2>3, <2>5, <2>6
<1>8. QED  BY <1>6, <1>7

\* Nothing else writes a proxy, or grants a registration.
LEMMA CurrentStep == RInv /\ Current /\ [RNext]_rvars => Current'
<1> SUFFICES ASSUME RInv, Current, [RNext]_rvars, NEW j \in Job
             PROVE  CurrentOf(j)'
  BY DEF Current
<1>1. CurrentOf(j) /\ req \in [Req -> Handler]
      /\ line \in [Job -> Req \cup {NoLine}]
  BY DEF Current, RInv, RTypeOK, Inv, TypeOK
<1>2. ASSUME NEW r \in Req, FailCall(r) PROVE CurrentOf(j)'
  <2>1. /\ req' = [req EXCEPT ![r] = Closed(500)] /\ UNCHANGED <<store, jobs>>
        /\ req[r].step # "idle"
    BY <1>2 DEF FailCall, Fail, Reply, Becomes
  <2>2. /\ req'[r].step = "idle" /\ req'[r].status = 500
        /\ \A s \in Req \ {r} : req'[s] = req[s]
    BY <1>1, <2>1 DEF Closed
  <2>3. Registered(j)' => Registered(j)
    <3> SUFFICES ASSUME Granted(j)' PROVE Granted(j)
      BY <2>1 DEF Registered, jobs
    <3>1. line[j] \in Req /\ line[j] # r
      BY <1>1, <2>1, <2>2 DEF Granted, jobs
    <3>2. QED  BY <2>1, <2>2, <3>1 DEF Granted, jobs
  <2>4. overtaken' = overtaken
    BY <1>2 DEF FailCall
  <2>5. QED  BY <1>1, <2>1, <2>2, <2>3, <2>4, CurrentKept DEF store, jobs
<1>3. CASE LoseStore
  <2>1. /\ UNCHANGED jobs /\ proxies'[j] \in {proxies[j], Absent}
        /\ \A s \in Req : IF req[s].step = "idle" THEN req'[s] = req[s]
                          ELSE req'[s] = Closed(0)
    BY <1>3, RunnerAssumption DEF LoseStore, Restart, store, JobId
  <2>2. Registered(j)' => Registered(j)
    <3> SUFFICES ASSUME Granted(j)' PROVE Granted(j)
      BY <2>1 DEF Registered, jobs
    <3>1. line[j] \in Req
      BY <1>1, <2>1 DEF Granted, jobs
    <3>2. QED  BY <2>1, <3>1 DEF Granted, Closed, jobs
  <2>3. /\ \A s \in Req : req'[s].step = "idle" \/ req'[s] = req[s]
        /\ overtaken' = overtaken
    BY <1>3, <2>1 DEF LoseStore, Closed
  <2>4. QED  BY <1>1, <2>1, <2>2, <2>3, CurrentKept DEF jobs
<1>4. CASE Pass
  <2>1. UNCHANGED <<jobs, req, history>> /\ proxies'[j] \in {proxies[j], Absent}
    BY <1>4, RunnerAssumption, RemoveType
    DEF Pass, Tick, JobId, RInv, Inv, TypeOK
  <2>2. QED  BY <1>1, <2>1, CurrentKept DEF jobs, Registered, Granted, history
<1>5. CASE UNCHANGED rvars
  BY <1>1, <1>5, CurrentKept DEF rvars, jobs, Registered, Granted, history
<1>6. QED
  BY <1>2, <1>3, <1>4, <1>5, JobsKeepCurrent, HandlersKeepCurrent DEF RNext

\* Once an attempt of a run is in its loop, no endpoint of an earlier attempt
\* is served, although all have the same proxy id, and although handlers of the
\* earlier ones may still run, unless one that was about to store an older
\* endpoint outlived the registration.
THEOREM CurrentServed == RSpec => []ServesCurrentAttempt
<1>1. RInit => Current
  BY DEF RInit, Init, Current, CurrentOf, Registered, Loop
<1>2. RInv /\ Current => ServesCurrentAttempt
  BY DEF Current, CurrentOf, Registered, ServesCurrentAttempt, Live
<1>3. QED  BY <1>1, <1>2, CurrentStep, RunnerInvariance, PTL DEF RSpec

-----------------------------------------------------------------------------
(* A running proxy is listed.                                              *)

\* Up to the buffer beyond EXPIRES_AT the proxy is in the store, with a lease
\* that reaches that far.
Present(j) ==
    now <= expiry[j] + Buffer =>
        proxies[j] # Absent /\ proxies[j].expires >= expiry[j] + Buffer

\* The response the job waits for is there.
Replied(j) == line[j] # NoLine /\ req[line[j]].step = "idle"

\* The calls in which the job says nothing about its proxy.
MeshCall == {"meshRegister", "meshHeartbeat", "meshRegisterAgain"}

\* In a round that no fault met, the proxy is there from the response that
\* says so until the round ends; the only other one is the 404 that is healed.
CleanOf(j) ==
    clean[j] =>
        /\ phase[j] \in MeshCall => Present(j)
        /\ (phase[j] \in {"register", "heartbeat", "registerAgain"}
              /\ Replied(j)) =>
               \/ req[line[j]].status = 200 /\ Present(j)
               \/ req[line[j]].status = 404 /\ phase[j] = "heartbeat"

\* After such a round it stays there as long as the job runs.
HealedOf(j) ==
    healed[j] =>
        /\ phase[j] \notin Fresh \cup {"register"}
        /\ phase[j] \in Loop \cup {"meshRegister"} => Present(j)

RenewedOf(j) == CleanOf(j) /\ HealedOf(j)

Renewed == \A j \in Job : RenewedOf(j)

\* The moments and the buffer.
LEMMA Moments ==
    ASSUME RInv, NEW j \in Job
    PROVE  /\ now \in Nat /\ expiry[j] \in Nat /\ j \in Id
           /\ {Buffer, DefaultTTL} \subseteq Nat /\ Buffer <= DefaultTTL
           /\ proxies[j] # Absent => proxies[j].expires \in Int
<1>1. /\ now \in Nat /\ expiry[j] \in Nat /\ j \in Id
      /\ {Buffer, DefaultTTL} \subseteq Nat /\ Buffer <= DefaultTTL
  BY RunnerAssumption, CoordinatorAssumption DEF RInv, RTypeOK, Clock, JobId
<1>2. proxies[j] \in Entry \cup {Absent}
  BY <1>1 DEF RInv, Inv, TypeOK
<1>3. QED  BY <1>1, <1>2 DEF Entry

\* Such an entry is not expired, so that kvGet keeps it.
LEMMA PresentKept ==
    ASSUME RInv, NEW j \in Job, Present(j), Kept(j), expiry'[j] = expiry[j],
           now' = now
    PROVE  Present(j)'
<1>1. now <= expiry[j] + Buffer => ~Expired(proxies[j])
  BY Moments DEF Present, Expired
<1>2. QED  BY <1>1 DEF Kept, Present

\* A call of the present attempt takes a lease of that kind, late or not.
LEMMA PresentLeased ==
    ASSUME RInv, NEW r \in Req, NEW j \in Job, NEW v, Leased(r, j, v),
           req[r].msg.expiresAt = expiry[j], expiry'[j] = expiry[j], now' = now
    PROVE  Present(j)'
<1>1. proxies'[j] # Absent /\ proxies'[j].expires \in Reach(expiry[j])
  BY DEF Leased
<1>2. \A x \in Reach(expiry[j]) :
         now <= expiry[j] + Buffer => x >= expiry[j] + Buffer
  BY Moments DEF Reach
<1>3. QED  BY <1>1, <1>2 DEF Present

\* A step that does not concern the job.
LEMMA RenewedKept ==
    ASSUME NEW j, RenewedOf(j), phase'[j] = phase[j], line'[j] = line[j],
           clean'[j] => clean[j], healed'[j] => healed[j],
           clean'[j] \/ healed'[j] => (Present(j) => Present(j)'),
           clean'[j] /\ Replied(j)' =>
               /\ Replied(j)
               /\ req'[line[j]].status = req[line[j]].status
    PROVE  RenewedOf(j)'
<1>1. CleanOf(j)'
  BY DEF RenewedOf, CleanOf, MeshCall, Loop
<1>2. HealedOf(j)'
  BY DEF RenewedOf, HealedOf
<1>3. QED  BY <1>1, <1>2 DEF RenewedOf

\* The job goes on after a response, or the loss of one, which is a fault.
LEMMA MoveKeepsRenewed ==
    ASSUME RInv, NEW j \in Job, RenewedOf(j), phase[j] \in Calling,
           NEW code, NEW untouched \in BOOLEAN, Move(j, code, untouched),
           untouched => Replied(j) /\ code = req[line[j]].status,
           UNCHANGED <<now, proxies, expiry>>
    PROVE  RenewedOf(j)'
<1> DEFINE p == Reaction(phase[j], code)
<1>1. /\ phase'[j] = p /\ line'[j] = NoLine
      /\ clean'[j] = (clean[j] /\ untouched)
      /\ healed'[j] = (healed[j] \/ (p = "alive" /\ clean'[j]))
  BY DEF Move, RInv, RTypeOK
<1>2. Present(j)' = Present(j)
  BY DEF Present
<1>3. p \in {"over", "meshRegister", "alive", "registerAgain",
             "meshHeartbeat", "meshRegisterAgain"}
  BY Reactions DEF Calling
<1>4. ASSUME clean'[j], p \in MeshCall \cup {"alive"} PROVE Present(j)
  <2>1. clean[j] /\ Replied(j) /\ code = req[line[j]].status
    BY <1>1, <1>4
  <2>2. /\ phase[j] \in MeshCall => Present(j)
        /\ phase[j] \in {"register", "heartbeat", "registerAgain"} =>
               \/ code = 200 /\ Present(j)
               \/ code = 404 /\ phase[j] = "heartbeat"
    BY <2>1 DEF RenewedOf, CleanOf
  <2>3. phase[j] # "deregister" /\ ~(phase[j] = "heartbeat" /\ code = 404)
    BY <1>4, Reactions DEF MeshCall
  <2>4. QED  BY <2>2, <2>3 DEF Calling, MeshCall
<1>5. CleanOf(j)'
  <2> HIDE DEF p
  <2>1. ~Replied(j)'
    BY <1>1 DEF Replied
  <2>2. QED  BY <1>1, <1>2, <1>4, <2>1 DEF CleanOf
<1>6. HealedOf(j)'
  <2>1. SUFFICES ASSUME healed'[j] PROVE /\ p \notin Fresh \cup {"register"}
                                         /\ p \in Loop \cup {"meshRegister"} =>
                                                Present(j)
    BY <1>1, <1>2 DEF HealedOf
  <2>2. CASE p = "alive" /\ clean'[j]
    BY <1>4, <2>2 DEF Fresh
  <2>3. CASE healed[j]
    <3>1. /\ phase[j] # "register"
          /\ phase[j] \in Loop \cup {"meshRegister"} => Present(j)
      BY <2>3 DEF RenewedOf, HealedOf
    <3>2. phase[j] = "deregister" => p = "over"
      BY Reactions
    <3> HIDE DEF p
    <3>3. QED  BY <1>3, <3>1, <3>2 DEF Fresh, Loop, Calling
  <2>4. QED  BY <1>1, <2>1, <2>2, <2>3
<1>7. QED  BY <1>5, <1>6 DEF RenewedOf

\* The steps of the jobs.
LEMMA JobsKeepRenewed ==
    ASSUME RInv, Renewed, NEW i \in Job, NEW j \in Job,
           \/ Dispatch(i) \/ CalculateExpiry(i) \/ BeginRound(i) \/ Finish(i)
           \/ Call(i) \/ Answer(i) \/ Kill(i) \/ Lose(i) \/ AskDelete(i)
    PROVE  RenewedOf(j)'
<1>1. RenewedOf(j)
  BY DEF Renewed
<1>2. proxies' = proxies /\ now' = now
  BY DEF Dispatch, CalculateExpiry, BeginRound, Finish, Call, Answer, Kill,
     Lose, AskDelete, store
<1>3. /\ phase \in [Job -> Phase] /\ line \in [Job -> Req \cup {NoLine}]
      /\ expiry \in [Job -> Nat] /\ req \in [Req -> Handler]
      /\ clean \in [Job -> BOOLEAN] /\ healed \in [Job -> BOOLEAN]
  BY DEF RInv, RTypeOK, Inv, TypeOK
<1>4. line[j] # NoLine => phase[j] \in Calling
  BY DEF RInv, Lines, LineOf
<1>5. CASE i # j /\ ~Call(i) /\ ~AskDelete(i)
  <2>1. /\ phase'[j] = phase[j] /\ line'[j] = line[j] /\ req' = req
        /\ clean'[j] = clean[j] /\ healed'[j] = healed[j]
        /\ expiry'[j] = expiry[j]
    BY <1>3, <1>5 DEF Dispatch, CalculateExpiry, BeginRound, Finish,
       Answer, Kill, Lose, Move, history
  <2>2. QED  BY <1>1, <1>2, <2>1, RenewedKept DEF Present, Replied
<1>6. CASE i = j /\ Dispatch(i)
  <2>1. phase'[j] = "setup" /\ ~healed'[j]
    BY <1>3, <1>6 DEF Dispatch
  <2>2. QED  BY <2>1 DEF RenewedOf, CleanOf, HealedOf, MeshCall
<1>7. CASE i = j /\ CalculateExpiry(i)
  <2>1. ~healed[j] /\ phase[j] = "setup"
    BY <1>1, <1>7 DEF CalculateExpiry, RenewedOf, HealedOf, Fresh
  <2>2. phase'[j] = "register" /\ ~healed'[j] /\ line'[j] = NoLine
    BY <1>3, <1>4, <1>7, <2>1 DEF CalculateExpiry, Calling
  <2>3. QED
    BY <2>2 DEF RenewedOf, CleanOf, HealedOf, MeshCall, Replied
<1>8. CASE i = j /\ BeginRound(i)
  <2>1. /\ phase[j] = "alive" /\ phase'[j] = "heartbeat" /\ line'[j] = NoLine
        /\ healed'[j] = healed[j] /\ expiry' = expiry
    BY <1>3, <1>4, <1>8 DEF BeginRound, Calling
  <2>2. CleanOf(j)'
    BY <2>1 DEF CleanOf, MeshCall, Replied
  <2>3. HealedOf(j)'
    BY <1>1, <1>2, <2>1 DEF RenewedOf, HealedOf, Fresh, Loop, Present
  <2>4. QED  BY <2>2, <2>3 DEF RenewedOf
<1>9. CASE i = j /\ (Finish(i) \/ Kill(i))
  <2>1. phase'[j] \in {"deregister", "over"}
    BY <1>3, <1>9 DEF Finish, Kill
  <2>2. QED
    BY <2>1 DEF RenewedOf, CleanOf, HealedOf, MeshCall, Fresh, Loop
<1>10. CASE i = j /\ (Answer(i) \/ Lose(i))
  <2>1. CASE Answer(i)
    <3>1. /\ phase[j] \in Calling /\ Replied(j)
          /\ UNCHANGED <<now, proxies, expiry>>
      BY <1>2, <1>4, <1>10, <2>1 DEF Answer, Replied
    <3>2. Move(j, req[line[j]].status, TRUE)
      BY <1>10, <2>1 DEF Answer
    <3>3. QED  BY <1>1, <3>1, <3>2, MoveKeepsRenewed
  <2>2. CASE Lose(i)
    <3>1. /\ phase[j] \in Calling /\ Move(j, 0, FALSE)
          /\ UNCHANGED <<now, proxies, expiry>>
      BY <1>2, <1>10, <2>2 DEF Lose
    <3>2. QED  BY <1>1, <3>1, MoveKeepsRenewed
  <2>3. QED  BY <1>10, <2>1, <2>2
<1>11. CASE Call(i) \/ AskDelete(i)
  <2>1. PICK r \in Req : /\ ~InFlight(r)
                         /\ \E m : Becomes(r, Running(m, "recv", Absent, 0))
                         /\ line'[j] \in {line[j], r}
    <3>1. CASE Call(i)
      <4>1. PICK r \in Req :
               /\ ~InFlight(r)
               /\ Becomes(r, Running(Message(i), "recv", Absent, 0))
               /\ line' = [line EXCEPT ![i] = r]
        BY <3>1 DEF Call
      <4>2. line'[j] \in {line[j], r}
        BY <1>3, <4>1
      <4>3. QED  BY <4>1, <4>2
    <3>2. CASE AskDelete(i)
      <4>1. line' = line
        BY <3>2 DEF AskDelete, jobs
      <4>2. QED  BY <3>2, <4>1 DEF AskDelete
    <3>3. QED  BY <1>11, <3>1, <3>2
  <2>2. /\ req'[r].step = "recv" /\ \A s \in Req \ {r} : req'[s] = req[s]
    BY <1>3, <2>1 DEF Becomes, Running
  <2>3. UNCHANGED <<phase, expiry, clean, healed>>
    BY <1>11 DEF Call, AskDelete, jobs, history
  <2>4. CASE line'[j] = line[j]
    <3>1. line[j] # r
      BY <2>1 DEF InFlight
    <3>2. Replied(j)' => /\ Replied(j)
                         /\ req'[line[j]].status = req[line[j]].status
      BY <1>3, <2>2, <2>4, <3>1 DEF Replied
    <3>3. QED
      BY <1>1, <1>2, <2>3, <2>4, <3>2, RenewedKept DEF Present
  <2>5. CASE line'[j] = r
    <3>1. ~Replied(j)'
      BY <2>2, <2>5 DEF Replied
    <3>2. CleanOf(j)'
      BY <1>1, <1>2, <2>3, <3>1 DEF RenewedOf, CleanOf, Present
    <3>3. HealedOf(j)'
      BY <1>1, <1>2, <2>3 DEF RenewedOf, HealedOf, Present
    <3>4. QED  BY <3>2, <3>3 DEF RenewedOf
  <2>6. QED  BY <2>1, <2>4, <2>5
<1>12. QED
  BY <1>5, <1>6, <1>7, <1>8, <1>9, <1>10, <1>11

\* The steps of handlers: what answers the job leaves its proxy there.
LEMMA HandlersKeepRenewed ==
    ASSUME RInv, Renewed, NEW r \in Req, Serve(r), NEW j \in Job
    PROVE  RenewedOf(j)'
<1>1. /\ Handle(r) /\ UNCHANGED jobs /\ RenewedOf(j)
      /\ req \in [Req -> Handler] /\ line \in [Job -> Req \cup {NoLine}]
      /\ clean \in [Job -> BOOLEAN] /\ healed \in [Job -> BOOLEAN]
  BY DEF Serve, Renewed, RInv, RTypeOK, Inv, TypeOK
<1>2. PICK h : /\ req' = [req EXCEPT ![r] = h]
               /\ h.step = "idle" \/ h.msg = req[r].msg
  BY <1>1, HandlerGoesOn
<1>3. req'[r] = h /\ \A s \in Req \ {r} : req'[s] = req[s]
  BY <1>1, <1>2
<1>4. CASE Disturbs(r, j)
  <2>1. ~clean'[j] /\ ~healed'[j]
    BY <1>1, <1>4 DEF Serve
  <2>2. QED  BY <2>1 DEF RenewedOf, CleanOf, HealedOf
<1>5. CASE ~Disturbs(r, j)
  <2>1. clean'[j] = clean[j] /\ healed'[j] = healed[j]
    BY <1>1, <1>5 DEF Serve
  <2>2. \/ Kept(j)
        \/ /\ \E v : Leased(r, j, v)
           /\ req[r].msg.expiresAt = expiry[j]
    <3>1. ~(Delete(r) /\ req[r].msg.id = j)
      BY <1>5 DEF Delete, Disturbs
    <3>2. ASSUME NEW v, Leased(r, j, v) PROVE req[r].msg.expiresAt = expiry[j]
      BY <1>5, <3>2 DEF Leased, Disturbs
    <3>3. QED  BY <1>1, <3>1, <3>2, ServeEffects
  <2>3. ASSUME Present(j)
        PROVE  Present(j)'
    <3>1. expiry'[j] = expiry[j] /\ now' = now
      BY <1>1, HandlerGoesOn DEF jobs
    <3>2. CASE Kept(j)
      BY <2>3, <3>1, <3>2, PresentKept
    <3>3. CASE (\E v : Leased(r, j, v)) /\ req[r].msg.expiresAt = expiry[j]
      BY <3>1, <3>3, PresentLeased
    <3>4. QED  BY <2>2, <3>2, <3>3
  <2>4. CASE line[j] # r
    <3>1. Replied(j)' => /\ Replied(j)
                         /\ req'[line[j]].status = req[line[j]].status
      BY <1>1, <1>3, <2>4 DEF Replied, jobs
    <3>2. QED  BY <1>1, <2>1, <2>3, <3>1, RenewedKept DEF jobs
  <2>5. CASE line[j] = r
    <3>1. line[j] # NoLine /\ req[r].step # "idle"
      BY <1>1, <2>5, RunnerAssumption, HandlerGoesOn
    <3>2. phase[j] \in Calling /\ req[r].msg = Message(j)
      BY <2>5, <3>1 DEF RInv, Lines, LineOf
    <3>3. HealedOf(j)'
      BY <1>1, <2>1, <2>3 DEF RenewedOf, HealedOf, jobs
    <3>4. phase[j] \in MeshCall /\ clean[j] => Present(j)'
      BY <1>1, <2>3 DEF RenewedOf, CleanOf, MeshCall, Loop
    <3>5. ASSUME phase[j] \in {"register", "registerAgain"}
          PROVE  req'[r].status = 200 /\ Present(j)'
      <4>1. /\ req[r].msg.op = "register" /\ req[r].msg.id = j
            /\ req[r].msg.expiresAt = expiry[j]
        BY <3>2, <3>5, MessageType DEF RInv
      <4>2. (\E v : Leased(r, j, v)) /\ req'[r] = Closed(200)
        BY <1>1, <4>1, HandlerOfOp, RegisterEffect
      <4>3. expiry'[j] = expiry[j] /\ now' = now
        BY <1>1, HandlerGoesOn DEF jobs
      <4>4. QED  BY <4>1, <4>2, <4>3, PresentLeased DEF Closed
    <3>6. ASSUME phase[j] = "heartbeat", Replied(j)'
          PROVE  \/ req'[r].status = 200 /\ Present(j)'
                 \/ req'[r].status = 404
      <4>1. /\ req[r].msg.op = "heartbeat" /\ req[r].msg.id = j
            /\ req[r].msg.expiresAt = expiry[j]
        BY <3>2, <3>6, MessageType DEF RInv
      <4>2. SlotOf(r) /\ (HeartbeatRead(r) \/ HeartbeatWrite(r))
        BY <1>1, <4>1, HandlerOfOp
      <4>3. req'[r].step = "idle"
        BY <1>1, <2>5, <3>6 DEF Replied, jobs
      <4>4. CASE HeartbeatRead(r)
        BY <4>2, <4>3, <4>4, HeartbeatReadEffect
      <4>5. CASE HeartbeatWrite(r)
        <5>1. Leased(r, j, req[r].held) /\ req'[r] = Closed(200)
          BY <4>1, <4>2, <4>5, HeartbeatWriteEffect
        <5>2. expiry'[j] = expiry[j] /\ now' = now
          BY <1>1, HandlerGoesOn DEF jobs
        <5>3. QED  BY <4>1, <5>1, <5>2, PresentLeased DEF Closed
      <4>6. QED  BY <4>2, <4>4, <4>5
    <3>7. CleanOf(j)'
      BY <1>1, <2>1, <2>5, <3>4, <3>5, <3>6 DEF CleanOf, jobs
    <3>8. QED  BY <3>3, <3>7 DEF RenewedOf
  <2>6. QED  BY <2>4, <2>5
<1>6. QED  BY <1>4, <1>5

\* Neither faults nor time take a proxy away unnoticed.
LEMMA RenewedStep == RInv /\ Renewed /\ [RNext]_rvars => Renewed'
<1> SUFFICES ASSUME RInv, Renewed, [RNext]_rvars, NEW j \in Job
             PROVE  RenewedOf(j)'
  BY DEF Renewed
<1>1. /\ RenewedOf(j) /\ req \in [Req -> Handler]
      /\ line \in [Job -> Req \cup {NoLine}]
  BY DEF Renewed, RInv, RTypeOK, Inv, TypeOK
<1>2. ASSUME NEW r \in Req, FailCall(r) PROVE RenewedOf(j)'
  <2>1. /\ req' = [req EXCEPT ![r] = Closed(500)]
        /\ UNCHANGED <<now, store, jobs>>
        /\ clean'[j] = (clean[j] /\ line[j] # r) /\ healed' = healed
    BY <1>2 DEF FailCall, Fail, Reply, Becomes
  <2>2. \A s \in Req \ {r} : req'[s] = req[s]
    BY <1>1, <2>1
  <2>3. clean'[j] /\ Replied(j)' =>
            /\ Replied(j)
            /\ req'[line[j]].status = req[line[j]].status
    BY <1>1, <2>1, <2>2 DEF Replied, jobs
  <2>4. QED  BY <1>1, <2>1, <2>3, RenewedKept DEF Present, store, jobs
<1>3. CASE LoseStore
  <2>1. ~clean'[j] /\ ~healed'[j]
    BY <1>3 DEF LoseStore
  <2>2. QED  BY <2>1 DEF RenewedOf, CleanOf, HealedOf
<1>4. CASE Pass
  <2>1. UNCHANGED <<jobs, req, history>>
    BY <1>4 DEF Pass, Tick
  <2>2. ASSUME Present(j) PROVE Present(j)'
    <3>1. SUFFICES ASSUME now + 1 <= expiry[j] + Buffer
                   PROVE  /\ proxies'[j] # Absent
                          /\ proxies'[j].expires >= expiry[j] + Buffer
      BY <1>4, <2>1 DEF Present, Pass, Tick, jobs
    <3>2. /\ now <= expiry[j] + Buffer
          /\ now \in Nat /\ expiry[j] \in Nat /\ Buffer \in Nat
      BY <3>1, Moments
    <3>3. /\ proxies[j] # Absent /\ proxies[j].expires >= expiry[j] + Buffer
          /\ proxies[j].expires \in Int
      BY <2>2, <3>2, Moments DEF Present
    <3>4. ~(now + 1 > proxies[j].expires) /\ j \in DOMAIN proxies
      BY <3>1, <3>2, <3>3, Moments DEF RInv, Inv, TypeOK
    <3>5. proxies' = Dropped(proxies, now + 1)
      BY <1>4 DEF Pass, Tick
    <3>6. proxies'[j] = proxies[j]
      BY <3>3, <3>4, <3>5 DEF Dropped
    <3>7. QED  BY <3>3, <3>6
  <2>3. QED
    BY <1>1, <2>1, <2>2, RenewedKept DEF Replied, jobs, history
<1>5. CASE UNCHANGED rvars
  BY <1>1, <1>5, RenewedKept DEF rvars, jobs, history, Replied, Present
<1>6. QED
  BY <1>2, <1>3, <1>4, <1>5, JobsKeepRenewed, HandlersKeepRenewed DEF RNext

\* A round that met no fault leaves the proxy listed, whatever was lost before
\* it, and it stays listed while the job runs, up to the buffer beyond its
\* EXPIRES_AT, unless it is deleted or a call of an earlier attempt comes in.
THEOREM RunningIsListed == RSpec => []ListedWhileRunning
<1>1. RInit => Renewed
  BY DEF RInit, Renewed, RenewedOf, CleanOf, HealedOf
<1>2. RInv /\ Renewed => ListedWhileRunning
  <2> SUFFICES ASSUME RInv, Renewed, NEW j \in Job, phase[j] \in Loop,
                      healed[j], now <= expiry[j] + Buffer
               PROVE  Live(proxies[j])
    BY DEF ListedWhileRunning
  <2>1. Present(j)
    BY DEF Renewed, RenewedOf, HealedOf
  <2>2. QED  BY <2>1, Moments DEF Present, Live, Expired
<1>3. QED  BY <1>1, <1>2, RenewedStep, RunnerInvariance, PTL DEF RSpec
=============================================================================
