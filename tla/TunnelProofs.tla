----------------------------- MODULE TunnelProofs -----------------------------
(***************************************************************************)
(* What the tunnel emitter promises for any durations, any number of       *)
(* overlapping reconnections and calls of fail, and timers that are late   *)
(* by any time, whoever uses it; and what its command line does, as long   *)
(* as its timers are late by less than the two seconds that CliVerdict     *)
(* needs.                                                                  *)
(***************************************************************************)
EXTENDS TunnelCli, TLAPS

\* The timers of a chain belong to it.
TimersOK ==
    /\ timer["main"].task \in {"none", "wait"}
    /\ ~started => timer["start"].task = "none"
    /\ \A c \in Again : timer[c].task \in {"none", "reconnect", "ready"}

\* The command line has done nothing before it launches the tunnel.
Fresh ==
    /\ status = "called" => emitted = <<>> /\ timer = [c \in Chain |-> Idle]
    /\ status # "library" => args \in Options

ReadyFollows ==
    \A k \in 1..Len(emitted) : emitted[k].name = "RECONNECTING" =>
        \E l \in k..Len(emitted) : emitted[l].name = "READY"

\* A tunnel that has not come back has a timer that will bring it back.
ComesBack ==
    ~stopped => ReadyFollows \/ \E c \in Chain : timer[c].task = "ready"

TunnelInv == TTypeOK /\ TimersOK /\ ComesBack

TInv == TunnelInv /\ TypeOK /\ Fresh

Event == [name : Name, by : Chain \cup {"call"}]

-----------------------------------------------------------------------------

\* An event that is no RECONNECTING leaves nothing unanswered behind that was
\* answered before, and a READY answers all there is.
LEMMA EmitAnswers ==
    ASSUME emitted \in Seq(Event), NEW name \in Name,
           NEW by \in Chain \cup {"call"}, Emit(name, by)
    PROVE  /\ emitted' \in Seq(Event)
           /\ emitted'[Len(emitted')] = [name |-> name, by |-> by]
           /\ name = "READY" => ReadyFollows'
           /\ name # "RECONNECTING" /\ ReadyFollows => ReadyFollows'
<1> DEFINE e == [name |-> name, by |-> by]
<1>1. e \in Event
  BY DEF Event
<1>2. emitted' = Append(emitted, e)
  BY DEF Emit
<1>3. /\ emitted' \in Seq(Event)
      /\ Len(emitted') = Len(emitted) + 1 /\ Len(emitted) \in Nat
      /\ emitted'[Len(emitted) + 1] = e
      /\ \A k \in 1..Len(emitted) : emitted'[k] = emitted[k]
  BY <1>1, <1>2
<1>4. e.name = name
  OBVIOUS
<1> HIDE DEF e
<1>5. name = "READY" => ReadyFollows'
  BY <1>3, <1>4 DEF ReadyFollows
<1>6. name # "RECONNECTING" /\ ReadyFollows => ReadyFollows'
  <2> SUFFICES ASSUME name # "RECONNECTING", ReadyFollows,
                      NEW k \in 1..Len(emitted'),
                      emitted'[k].name = "RECONNECTING"
               PROVE  \E l \in k..Len(emitted') : emitted'[l].name = "READY"
    BY DEF ReadyFollows
  <2>1. k \in 1..Len(emitted)
    BY <1>3, <1>4
  <2>2. PICK l \in k..Len(emitted) : emitted[l].name = "READY"
    BY <1>3, <2>1 DEF ReadyFollows
  <2>3. l \in 1..Len(emitted) /\ l \in k..Len(emitted')
    BY <1>3, <2>1, <2>2
  <2> QED
    BY <1>3, <2>2, <2>3
<1> QED
  BY <1>3, <1>5, <1>6 DEF e

\* Nor does what emits nothing.
LEMMA QuietAnswers ==
    ASSUME UNCHANGED emitted PROVE ReadyFollows' = ReadyFollows
BY DEF ReadyFollows

\* Changing one timer leaves those of the other chains as they are.
LEMMA OneTimer ==
    ASSUME timer \in [Chain -> [task : Task, left : Int]],
           NEW c \in Chain, NEW t \in [task : Task, left : Int],
           timer' = [timer EXCEPT ![c] = t]
    PROVE  /\ timer' \in [Chain -> [task : Task, left : Int]]
           /\ timer'[c] = t
           /\ \A d \in Chain \ {c} : timer'[d] = timer[d]
OBVIOUS

-----------------------------------------------------------------------------
(* The tunnel, whoever uses it.                                            *)

\* The calls keep the invariant.
LEMMA CallsKeep ==
    ASSUME TunnelInv,
           \/ \E d \in Int : Start(d)
           \/ Fail
           \/ \E c \in Again, d \in Int : ReconnectAfter(c, d)
           \/ Close
    PROVE  TunnelInv'
<1> USE DEF TunnelInv
<1>1. ASSUME NEW d \in Int, Start(d) PROVE TunnelInv'
  <2>1. Timer("establish", d) \in [task : Task, left : Int] /\ "start" \in Chain
    BY DEF Timer, Task, Chain
  <2>2. /\ timer' \in [Chain -> [task : Task, left : Int]]
        /\ timer'["start"] = Timer("establish", d)
        /\ \A c \in Chain \ {"start"} : timer'[c] = timer[c]
    BY <1>1, <2>1, OneTimer DEF TTypeOK, Start
  <2>3. TTypeOK' /\ (ReadyFollows => ReadyFollows')
    BY <1>1, <2>2, EmitAnswers DEF TTypeOK, Start, Event, Name
  <2>4. TimersOK'
    BY <1>1, <2>2, TunnelAssumption DEF TimersOK, Start, Chain
  <2>5. ComesBack'
    <3>1. timer["start"].task = "none"
      BY <1>1 DEF TimersOK, Start
    <3> QED
      BY <1>1, <2>2, <2>3, <3>1 DEF ComesBack, Start
  <2> QED
    BY <2>3, <2>4, <2>5
<1>2. ASSUME Fail PROVE TunnelInv'
  <2>1. TTypeOK' /\ (ReadyFollows => ReadyFollows')
    BY <1>2, EmitAnswers DEF TTypeOK, Fail, Event, Name
  <2> QED
    BY <1>2, <2>1 DEF TimersOK, ComesBack, Fail
<1>3. ASSUME NEW c \in Again, NEW d \in Int, ReconnectAfter(c, d)
      PROVE  TunnelInv'
  <2>1. Timer("reconnect", d) \in [task : Task, left : Int] /\ c \in Chain
    BY DEF Timer, Task, Chain
  <2>2. /\ timer' \in [Chain -> [task : Task, left : Int]]
        /\ timer'[c] = Timer("reconnect", d)
        /\ \A b \in Chain \ {c} : timer'[b] = timer[b]
    BY <1>3, <2>1, OneTimer DEF TTypeOK, ReconnectAfter
  <2>3. TTypeOK' /\ (ReadyFollows => ReadyFollows')
    BY <1>3, <2>2, QuietAnswers DEF TTypeOK, ReconnectAfter
  <2>4. TimersOK'
    BY <1>3, <2>2, TunnelAssumption DEF TimersOK, ReconnectAfter, Chain, Timer
  <2>5. ComesBack'
    <3>1. timer[c].task # "ready"
      BY <1>3 DEF ReconnectAfter, Idle, Timer
    <3> QED
      BY <1>3, <2>2, <2>3, <3>1 DEF ComesBack, ReconnectAfter
  <2> QED
    BY <2>3, <2>4, <2>5
<1>4. ASSUME Close PROVE TunnelInv'
  <2>1. TTypeOK'
    BY <1>4, EmitAnswers DEF TTypeOK, Close, Event, Name
  <2> QED
    BY <1>4, <2>1 DEF TimersOK, ComesBack, Close
<1> QED
  BY <1>1, <1>2, <1>3, <1>4

\* So do the callbacks.
LEMMA FireKeeps ==
    ASSUME TunnelInv, NEW c \in Chain, NEW fails \in BOOLEAN, Fire(c, fails)
    PROVE  TunnelInv'
<1> USE DEF TunnelInv
<1>0. /\ Idle \in [task : Task, left : Int] /\ Idle.task = "none"
      /\ "start" \in Chain /\ "start" \notin Again /\ "start" # "main"
  BY TunnelAssumption DEF Idle, Timer, Task, Chain
<1>1. ASSUME c = "start", Establish(fails) PROVE TunnelInv'
  <2>1. PICK t \in {Idle} \cup {Timer("reconnect", d) : d \in MidlifeDelay} :
            timer' = [timer EXCEPT !["start"] = t]
    BY <1>1 DEF Establish
  <2>2. /\ t \in [task : Task, left : Int]
        /\ t.task \in {"none", "reconnect"}
    BY <1>0, <2>1 DEF Timer, Task, MidlifeDelay
  <2>3. /\ timer' \in [Chain -> [task : Task, left : Int]]
        /\ timer'["start"] = t
        /\ \A d \in Chain \ {"start"} : timer'[d] = timer[d]
    BY <1>0, <2>1, <2>2, OneTimer DEF TTypeOK
  <2>4. TTypeOK' /\ (ReadyFollows => ReadyFollows')
    <3>1. CASE UNCHANGED emitted
      BY <1>1, <2>3, <3>1, QuietAnswers DEF TTypeOK, Establish
    <3>2. CASE Emit("FAILED", "start")
      BY <1>0, <1>1, <2>3, <3>2, EmitAnswers
         DEF TTypeOK, Establish, Event, Name
    <3>3. CASE Emit("READY", "start")
      BY <1>0, <1>1, <2>3, <3>3, EmitAnswers
         DEF TTypeOK, Establish, Event, Name
    <3> QED
      BY <1>1, <3>1, <3>2, <3>3 DEF Establish
  <2>5. TimersOK'
    <3>1. started
      BY <1>1 DEF TimersOK, Establish
    <3> QED
      BY <1>0, <1>1, <2>3, <3>1 DEF TimersOK, Establish, Chain
  <2>6. ComesBack'
    <3>1. timer["start"].task # "ready"
      BY <1>1 DEF Establish
    <3> QED
      BY <1>1, <2>3, <2>4, <3>1 DEF ComesBack, Establish
  <2> QED
    BY <2>4, <2>5, <2>6
<1>2. ASSUME Reconnect(c) PROVE TunnelInv'
  <2>1. PICK t \in {Idle} \cup {Timer("ready", d) : d \in ReLatency} :
            /\ timer' = [timer EXCEPT ![c] = t]
            /\ ~stopped => t.task = "ready"
    <3>1. CASE stopped
      BY <1>2, <3>1 DEF Reconnect
    <3>2. CASE ~stopped
      <4>1. PICK d \in ReLatency :
                timer' = [timer EXCEPT ![c] = Timer("ready", d)]
        BY <1>2, <3>2 DEF Reconnect
      <4>2. Timer("ready", d).task = "ready"
        BY DEF Timer
      <4> QED
        BY <4>1, <4>2
    <3> QED
      BY <3>1, <3>2
  <2>2. t \in [task : Task, left : Int] /\ t.task \in {"none", "ready"}
    BY <1>0, <2>1 DEF Timer, Task, ReLatency
  <2>3. /\ timer' \in [Chain -> [task : Task, left : Int]]
        /\ timer'[c] = t
        /\ \A d \in Chain \ {c} : timer'[d] = timer[d]
    BY <2>1, <2>2, OneTimer DEF TTypeOK
  <2>4. TTypeOK'
    <3>1. CASE UNCHANGED emitted
      BY <1>2, <2>3, <3>1 DEF TTypeOK, Reconnect
    <3>2. CASE Emit("RECONNECTING", c)
      BY <1>2, <2>3, <3>2, EmitAnswers DEF TTypeOK, Reconnect, Event, Name
    <3> QED
      BY <1>2, <3>1, <3>2 DEF Reconnect
  <2>5. TimersOK'
    <3>1. c # "main" /\ (c = "start" => started)
      BY <1>2 DEF TimersOK, Reconnect
    <3> QED
      BY <1>0, <1>2, <2>2, <2>3, <3>1 DEF TimersOK, Reconnect, Chain
  <2>6. ComesBack'
    BY <1>2, <2>1, <2>3 DEF ComesBack, Reconnect
  <2> QED
    BY <2>4, <2>5, <2>6
<1>3. ASSUME Ready(c) PROVE TunnelInv'
  <2>1. /\ timer' \in [Chain -> [task : Task, left : Int]]
        /\ timer'[c] = Idle
        /\ \A d \in Chain \ {c} : timer'[d] = timer[d]
    BY <1>0, <1>3, OneTimer DEF TTypeOK, Ready
  <2>2. TTypeOK' /\ (~stopped => ReadyFollows')
    <3>1. CASE stopped
      BY <1>3, <2>1, <3>1 DEF TTypeOK, Ready
    <3>2. CASE ~stopped
      <4>1. Emit("READY", c)
        BY <1>3, <3>2 DEF Ready
      <4> QED
        BY <1>3, <2>1, <4>1, EmitAnswers DEF TTypeOK, Ready, Event, Name
    <3> QED
      BY <3>1, <3>2
  <2>3. TimersOK'
    BY <1>0, <1>3, <2>1 DEF TimersOK, Ready, Chain
  <2>4. ComesBack'
    BY <1>3, <2>2 DEF ComesBack, Ready
  <2> QED
    BY <2>2, <2>3, <2>4
<1> QED
  BY <1>1, <1>2, <1>3 DEF Fire

\* And the passing of time.
LEMMA TickKeeps == ASSUME TunnelInv, Tick PROVE TunnelInv'
<1> USE DEF TunnelInv
<1>1. \A c \in Chain :
        /\ timer'[c] \in [task : Task, left : Int]
        /\ timer'[c].task = timer[c].task
  <2> SUFFICES ASSUME NEW c \in Chain
               PROVE  /\ timer'[c] \in [task : Task, left : Int]
                      /\ timer'[c].task = timer[c].task
    OBVIOUS
  <2>1. timer[c] \in [task : Task, left : Int]
    BY DEF TTypeOK
  <2>2. \/ timer'[c] = [timer[c] EXCEPT !.left = @ - 1]
        \/ timer'[c] = timer[c]
    BY DEF Tick
  <2> QED
    BY <2>1, <2>2
<1>2. TTypeOK'
  BY <1>1 DEF TTypeOK, Tick
<1>3. TimersOK'
  BY <1>1 DEF TimersOK, Tick, Chain
<1>4. ComesBack'
  BY <1>1, QuietAnswers DEF ComesBack, Tick
<1> QED
  BY <1>2, <1>3, <1>4

-----------------------------------------------------------------------------
(* The command line and other programs.                                    *)

\* The command line and other programs start in the invariant.
LEMMA TInvInit == Init => TInv
<1> SUFFICES ASSUME Init PROVE TInv
  OBVIOUS
<1>1. Idle \in [task : Task, left : Int] /\ Idle.task = "none"
  BY DEF Idle, Timer, Task
<1>2. timer = [c \in Chain |-> Idle] /\ emitted = <<>>
  BY DEF Init, TInit
<1>3. TTypeOK
  <2>1. <<>> \in Seq([name : Name, by : Chain \cup {"call"}])
    OBVIOUS
  <2>2. timer \in [Chain -> [task : Task, left : Int]]
    BY <1>1, <1>2
  <2> QED
    BY <1>2, <2>1, <2>2 DEF Init, TInit, TTypeOK
<1>4. TimersOK
  BY <1>1, <1>2 DEF TimersOK, Chain
<1>5. ComesBack
  BY <1>2 DEF ComesBack, ReadyFollows
<1>6. TypeOK /\ Fresh
  BY <1>2, <1>3 DEF TypeOK, Fresh, Init, TInit
<1> QED
  BY <1>3, <1>4, <1>5, <1>6 DEF TInv, TunnelInv

\* The launch sets each chain to a timer of its own.
LEMMA LaunchTimers ==
    ASSUME TInv, Launch
    PROVE  /\ timer' \in [Chain -> [task : Task, left : Int]]
           /\ TimersOK'
           /\ \A c \in Chain : timer'[c].task # "ready"
<1>1. args \in Options
  BY DEF TInv, Fresh, Launch
<1>2. args.after # Absent =>
          Millis(args.after) \in Int /\ TotalWait \in Int
  <2>1. args.after \in After \cup {NaN, Absent}
    BY <1>1 DEF Options
  <2>2. CASE args.after = NaN
    BY <2>2 DEF Millis, TotalWait
  <2>3. CASE args.after \in After
    BY <2>3, CliAssumption DEF Millis, TotalWait
  <2> QED
    BY <2>1, <2>2, <2>3
<1>3. PICK latency \in IF args.latency = Absent THEN RandomLatency
                       ELSE {Millis(args.latency)} :
          timer' = [c \in Chain |->
              CASE c = "start" -> Timer("establish", latency)
                [] c = Forced /\ args.after # Absent ->
                      Timer("reconnect", Millis(args.after))
                [] c = "main" /\ args.after # Absent -> Timer("wait", TotalWait)
                [] OTHER -> Idle]
  BY DEF Launch
<1>4. latency \in Int
  <2>1. args.latency \in Latency \cup {NaN, Absent}
    BY <1>1 DEF Options
  <2> QED
    BY <1>3, <2>1, CliAssumption DEF Millis, RandomLatency
<1>5. Forced \in Again
  BY CliAssumption DEF Forced
<1>6. Forced # "start" /\ Forced # "main" /\ "start" # "main"
  BY <1>5, TunnelAssumption
<1>7. \A c \in Chain :
        \/ timer'[c] = Timer("establish", latency) /\ c = "start"
        \/ /\ timer'[c] = Timer("reconnect", Millis(args.after))
           /\ c = Forced /\ args.after # Absent
        \/ /\ timer'[c] = Timer("wait", TotalWait)
           /\ c = "main" /\ args.after # Absent
        \/ timer'[c] = Idle /\ c # "start"
  BY <1>3
<1>8. \A c \in Chain :
        /\ timer'[c] \in [task : Task, left : Int]
        /\ timer'[c].task # "ready"
        /\ c = "main" => timer'[c].task \in {"none", "wait"}
        /\ c \in Again => timer'[c].task \in {"none", "reconnect", "ready"}
  BY <1>2, <1>4, <1>6, <1>7, TunnelAssumption DEF Timer, Task, Idle
<1>9. timer' \in [Chain -> [task : Task, left : Int]]
  BY <1>3, <1>8
<1> QED
  BY <1>8, <1>9 DEF TimersOK, Launch, Chain

\* Every step of the command line or of another program keeps the invariant.
LEMMA TInvNext == TInv /\ [Next]_vars => TInv'
<1> SUFFICES ASSUME TInv, [Next]_vars PROVE TInv'
  OBVIOUS
<1> USE DEF cvars
<1>0. TunnelInv /\ TypeOK /\ Fresh
  BY DEF TInv
<1>1. CASE UserCall
  <2>1. TunnelInv'
    <3>1. \/ \E d \in Int : Start(d)
          \/ Fail
          \/ \E c \in Again, d \in Int : ReconnectAfter(c, d)
          \/ Close
      BY <1>1, CliAssumption DEF UserCall, RandomLatency, Millis
    <3> QED
      BY <1>0, <3>1, CallsKeep
  <2> QED
    BY <1>0, <1>1, <2>1 DEF TInv, TunnelInv, TypeOK, Fresh, UserCall
<1>2. CASE UserTimer
  <2>1. TunnelInv'
    BY <1>0, <1>2, FireKeeps DEF UserTimer
  <2> QED
    BY <1>0, <1>2, <2>1 DEF TInv, TunnelInv, TypeOK, Fresh, UserTimer
<1>3. CASE Reject
  <2>1. TunnelInv'
    BY <1>0, <1>3, QuietAnswers
       DEF Reject, tvars, TunnelInv, TTypeOK, TimersOK, ComesBack
  <2> QED
    BY <1>0, <1>3, <2>1 DEF TInv, TunnelInv, TypeOK, Fresh, Reject
<1>4. CASE Launch
  <2>1. /\ timer' \in [Chain -> [task : Task, left : Int]]
        /\ TimersOK'
    BY <1>4, LaunchTimers
  <2>2. ReadyFollows
    BY <1>0, <1>4 DEF Fresh, Launch, ReadyFollows
  <2>3. emitted' \in Seq(Event) /\ ReadyFollows'
    BY <1>0, <1>4, <2>2, EmitAnswers
       DEF Launch, TypeOK, TTypeOK, Event, Name
  <2>4. TunnelInv'
    BY <1>0, <1>4, <2>1, <2>3
       DEF TunnelInv, TTypeOK, ComesBack, Launch, Event
  <2> QED
    BY <1>0, <1>4, <2>4 DEF TInv, TunnelInv, TypeOK, Fresh, Launch
<1>5. CASE CliTimer
  <2>1. PICK c \in Chain : Fire(c, args.fail)
    BY <1>5 DEF CliTimer
  <2>2. args \in Options /\ args.fail \in BOOLEAN
    BY <1>0, <1>5 DEF Fresh, CliTimer, Options
  <2>3. TunnelInv'
    BY <1>0, <2>1, <2>2, FireKeeps
  <2>4. /\ status' \in {"running", "settled", "exited"}
        /\ exitCode' \in {0, 1} /\ envFile' \in Chain \cup {Absent}
        /\ args' = args
    <3>1. CASE emitted' = emitted
      BY <1>0, <1>5, <3>1 DEF CliTimer, TypeOK
    <3>2. CASE emitted' # emitted
      <4> DEFINE e == emitted'[Len(emitted')]
      <4>1. e.by \in Chain
        <5>1. \E name \in Name : Emit(name, c)
          BY <2>1, <3>2 DEF Fire, Establish, Reconnect, Ready, Name
        <5>2. PICK name \in Name : Emit(name, c)
          BY <5>1
        <5>3. emitted \in Seq(Event)
          BY <1>0 DEF TypeOK, TTypeOK, Event
        <5>4. e = [name |-> name, by |-> c]
          BY <5>2, <5>3, EmitAnswers
        <5> QED
          BY <5>4
      <4>2. Hear(e) \/ WriteThrows(e)
        BY <1>5, <3>2 DEF CliTimer
      <4> HIDE DEF e
      <4> QED
        BY <1>0, <1>5, <4>1, <4>2 DEF CliTimer, Hear, WriteThrows, TypeOK
    <3> QED
      BY <3>1, <3>2
  <2> QED
    BY <2>2, <2>3, <2>4 DEF TInv, TunnelInv, TypeOK, Fresh
<1>6. CASE Waited
  <2>1. /\ Idle \in [task : Task, left : Int] /\ Idle.task = "none"
        /\ "main" \in Chain /\ "main" \notin Again /\ "main" # "start"
    BY TunnelAssumption DEF Idle, Timer, Task, Chain
  <2>2. /\ timer' \in [Chain -> [task : Task, left : Int]]
        /\ timer'["main"] = Idle
        /\ \A d \in Chain \ {"main"} : timer'[d] = timer[d]
    BY <1>0, <1>6, <2>1, OneTimer DEF TypeOK, TTypeOK, Waited
  <2>3. TTypeOK' /\ TimersOK'
    BY <1>0, <1>6, <2>1, <2>2
       DEF TypeOK, TTypeOK, Waited, TunnelInv, TimersOK, Chain
  <2>4. timer["main"].task # "ready"
    BY <1>0 DEF TunnelInv, TimersOK
  <2>5. ComesBack'
    BY <1>0, <1>6, <2>2, <2>4, QuietAnswers DEF TunnelInv, ComesBack, Waited
  <2> QED
    BY <1>0, <1>6, <2>3, <2>5 DEF TInv, TunnelInv, TypeOK, Fresh, Waited
<1>7. CASE Exit
  <2>1. TunnelInv'
    BY <1>0, <1>7, QuietAnswers
       DEF Exit, tvars, TunnelInv, TTypeOK, TimersOK, ComesBack
  <2> QED
    BY <1>0, <1>7, <2>1 DEF TInv, TunnelInv, TypeOK, Fresh, Exit
<1>8. CASE Pass
  <2>1. TunnelInv'
    BY <1>0, <1>8, TickKeeps DEF Pass
  <2> QED
    BY <1>0, <1>8, <2>1 DEF TInv, TunnelInv, TypeOK, Fresh, Pass
<1>9. CASE UNCHANGED vars
  <2>1. TunnelInv'
    BY <1>0, <1>9, QuietAnswers
       DEF vars, tvars, TunnelInv, TTypeOK, TimersOK, ComesBack
  <2> QED
    BY <1>0, <1>9, <2>1 DEF TInv, TunnelInv, TypeOK, Fresh, vars, tvars
<1> QED
  BY <1>1, <1>2, <1>3, <1>4, <1>5, <1>6, <1>7, <1>8, <1>9 DEF Next

-----------------------------------------------------------------------------

\* The invariant holds throughout.
THEOREM TunnelInvariant == Spec => []TInv
<1> QED
  BY TInvInit, TInvNext, PTL DEF Spec

\* The types, for any events, timers and options.
THEOREM TunnelTypes == Spec => []TypeOK
<1>1. TInv => TypeOK
  BY DEF TInv
<1> QED
  BY <1>1, TunnelInvariant, PTL

\* However many reconnections overlap, whatever their delays and however late
\* their timers, once none is left a tunnel that is not closed has come back
\* (tunnel-emitter.ts:228-249, 265-292).
THEOREM ReconnectionsEnd == Spec => []ReconnectionEnds
<1>1. TInv => ReconnectionEnds
  <2> SUFFICES ASSUME TInv, Pending \subseteq {"main"}, ~stopped
               PROVE  ReadyFollows
    BY DEF ReconnectionEnds, ReadyFollows
  <2>1. \A c \in Chain : timer[c].task = "ready" => c = "main"
    BY DEF Pending
  <2>2. timer["main"].task # "ready"
    BY DEF TInv, TunnelInv, TimersOK
  <2> QED
    BY <2>1, <2>2 DEF TInv, TunnelInv, ComesBack
<1> QED
  BY <1>1, TunnelInvariant, PTL

\* After close, however many timers are left, only a call emits an event
\* (tunnel-emitter.ts:201, 229, 236, 271, 278).
THEOREM QuietWhenClosed == Spec => QuietAfterClose
<1>1. TInv /\ [Next]_vars =>
          [(stopped /\ emitted' # emitted) =>
              emitted'[Len(emitted')].by = "call"]_tvars
  <2> SUFFICES ASSUME TInv, [Next]_vars, stopped, emitted' # emitted
               PROVE  emitted'[Len(emitted')].by = "call"
    BY DEF tvars
  <2>1. \E name \in Name : Emit(name, "call")
    <3>1. CASE UserCall
      BY <3>1 DEF UserCall, Start, Fail, ReconnectAfter, Close, Name
    <3>2. CASE Launch
      BY <3>2 DEF Launch, Name
    <3>3. ~UserTimer /\ ~CliTimer
      BY DEF UserTimer, CliTimer, Fire, Establish, Reconnect, Ready
    <3>4. ~Reject /\ ~Waited /\ ~Exit /\ ~Pass /\ ~UNCHANGED vars
      BY DEF Reject, Waited, Exit, Pass, Tick, vars, tvars
    <3> QED
      BY <3>1, <3>2, <3>3, <3>4 DEF Next
  <2>2. PICK name \in Name : Emit(name, "call")
    BY <2>1
  <2>3. emitted \in Seq(Event)
    BY DEF TInv, TypeOK, TTypeOK, Event
  <2>4. emitted'[Len(emitted')] = [name |-> name, by |-> "call"]
    BY <2>2, <2>3, EmitAnswers
  <2> QED
    BY <2>4
<1> QED
  BY <1>1, TunnelInvariant, PTL DEF Spec, QuietAfterClose

-----------------------------------------------------------------------------
(* The verdict of the command line.                                         *)

\* The chain of the forced reconnection is ahead of the wait for it.
Ahead ==
    \/ /\ timer[Forced].task = "reconnect"
       /\ timer[Forced].left >= -Lag
       /\ timer["main"].left = timer[Forced].left + 10
    \/ /\ timer[Forced].task = "ready"
       /\ timer["main"].left > timer[Forced].left
       /\ \E k \in By(Forced) : emitted[k].name = "RECONNECTING"
    \/ timer[Forced].task = "none" /\ Reconnected

\* While the command line runs, what it waits for is under way.
UnderWay ==
    status = "running" =>
        /\ args.after = Absent =>
              /\ timer["start"].task = "establish"
              /\ \A c \in Chain \ {"start"} : timer[c].task = "none"
        /\ InRange => timer["main"].task = "wait" /\ Ahead
        /\ InRange /\ args.latency # Absent
              /\ timer["start"].task = "establish" =>
              timer["main"].left - timer["start"].left =
                  TotalWait - Millis(args.latency)

\* The options with which the command line has to fail.
MustFail ==
    /\ args.fail
    /\ \/ args.after = Absent
       \/ args.latency # Absent /\ Millis(args.latency) + Lag < TotalWait

\* A failure, once asked for, is ahead or has set the exit code.
Failing ==
    status \in {"running", "settled"} /\ args.fail =>
        timer["start"].task = "establish" \/ exitCode = 1

\* The file holds an endpoint as soon as one was announced.
Filed ==
    (status # "library" /\ (status = "exited" => exitCode = 0)) =>
        (Emitted("READY") /\ args.env => envFile # Absent)

Outcome ==
    (status \in {"settled", "exited"} /\ (args.after = Absent \/ InRange)) =>
        \/ exitCode = 1
        \/ /\ Emitted("READY") /\ ~MustFail
           /\ args.after # Absent => Reconnected

CliInv ==
    /\ status # "library" => ~stopped
    /\ UnderWay /\ Failing /\ Filed /\ Outcome

-----------------------------------------------------------------------------

\* What was emitted is not forgotten, and a READY of the forced chain after its
\* RECONNECTING is the reconnection.
LEMMA EmitRemembers ==
    ASSUME emitted \in Seq(Event), NEW name \in Name,
           NEW by \in Chain \cup {"call"}, Emit(name, by)
    PROVE  /\ \A n : Emitted(n)' <=> (Emitted(n) \/ n = name)
           /\ Reconnected => Reconnected'
           /\ (\E k \in By(Forced) : emitted[k].name = "RECONNECTING") =>
                 /\ (\E k \in By(Forced) : emitted[k].name = "RECONNECTING")'
                 /\ by = Forced /\ name = "READY" => Reconnected'
           /\ by = Forced /\ name = "RECONNECTING" =>
                 (\E k \in By(Forced) : emitted[k].name = "RECONNECTING")'
<1> DEFINE e == [name |-> name, by |-> by]
           l == Len(emitted) + 1
<1>1. e \in Event
  BY DEF Event
<1>2. /\ Len(emitted) \in Nat /\ Len(emitted') = l
      /\ emitted'[l] = e
      /\ \A k \in 1..Len(emitted) : emitted'[k] = emitted[k]
  BY <1>1 DEF Emit
<1>3. e.name = name /\ e.by = by
  OBVIOUS
<1> HIDE DEF e
<1>4. /\ l \in 1..Len(emitted') /\ emitted'[l].name = name
      /\ \A k \in 1..Len(emitted') : k = l \/ k \in 1..Len(emitted)
      /\ \A k \in 1..Len(emitted) : k \in 1..Len(emitted') /\ k < l
  BY <1>2, <1>3
<1>5. \A n : Emitted(n)' <=> (Emitted(n) \/ n = name)
  BY <1>2, <1>4, Zenon DEF Emitted
<1>6. \A k \in By(Forced) :
          k \in By(Forced)' /\ k < l /\ emitted'[k] = emitted[k]
  BY <1>2, <1>4, Zenon DEF By
<1>7. by = Forced => l \in By(Forced)'
  BY <1>2, <1>3, <1>4 DEF By
<1> HIDE DEF l
<1>8. Reconnected => Reconnected'
  BY <1>6, Zenon DEF Reconnected
<1>9. ASSUME NEW k \in By(Forced), emitted[k].name = "RECONNECTING"
      PROVE  /\ (\E m \in By(Forced) : emitted[m].name = "RECONNECTING")'
             /\ by = Forced /\ name = "READY" => Reconnected'
  BY <1>4, <1>6, <1>7, <1>9, Zenon DEF Reconnected
<1>10. by = Forced /\ name = "RECONNECTING" =>
          (\E k \in By(Forced) : emitted[k].name = "RECONNECTING")'
  BY <1>4, <1>7, Zenon
<1> QED
  BY <1>5, <1>8, <1>9, <1>10

\* The verdict takes notice of nothing but what was emitted.
LEMMA QuietVerdict ==
    ASSUME UNCHANGED emitted
    PROVE  /\ \A n : Emitted(n)' = Emitted(n)
           /\ Reconnected' = Reconnected
           /\ \A c : By(c)' = By(c)
BY DEF Emitted, Reconnected, By

\* The forced reconnection has a chain of its own.
LEMMA ForcedChain ==
    /\ Forced \in Again /\ Forced \in Chain
    /\ Forced # "start" /\ Forced # "main" /\ "start" # "main"
    /\ "start" \in Chain /\ "main" \in Chain
<1>1. Forced \in Again
  BY CliAssumption DEF Forced
<1> QED
  BY <1>1, TunnelAssumption DEF Chain

\* What setTimeout takes as it is.
LEMMA InTime ==
    ASSUME InRange
    PROVE  /\ args.after # Absent
           /\ Millis(args.after) = args.after /\ args.after \in Nat
           /\ TotalWait = args.after + 10 /\ TotalWait \in Nat
<1>1. args.after \in 0 .. MaxDelay - 10 /\ MaxDelay \in Nat
  BY CliAssumption DEF InRange
<1>2. args.after # NaN /\ args.after # Absent
  BY <1>1, CliAssumption
<1>3. args.after \in 0..MaxDelay /\ args.after + 10 \in 0..MaxDelay
  BY <1>1
<1> QED
  BY <1>2, <1>3 DEF Millis, TotalWait

\* Nothing is decided before the launch, or for another program.
LEMMA CliInvInit == Init => CliInv
BY DEF Init, TInit, CliInv, UnderWay, Failing, Filed, Outcome, Emitted

\* What neither fires a timer nor starts one changes nothing of it.
LEMMA CliInvCases ==
    ASSUME TInv, CliInv, [Next]_vars,
           UserCall \/ UserTimer \/ Reject \/ Exit \/ UNCHANGED vars
    PROVE  CliInv'
<1> USE DEF CliInv, UnderWay, Failing, Filed, Outcome, InRange
<1>1. CASE UserCall \/ UserTimer
  BY <1>1 DEF UserCall, UserTimer, cvars
<1>2. CASE Reject
  BY <1>2, QuietVerdict DEF Reject, tvars
<1>3. CASE Exit
  <2>1. MustFail' = MustFail
    BY <1>3 DEF Exit, MustFail, TotalWait, Millis, InRange
  <2> QED
    BY <1>3, <2>1, QuietVerdict DEF Exit, tvars
<1>4. CASE UNCHANGED vars
  <2>1. MustFail' = MustFail /\ Ahead' = Ahead /\ TotalWait' = TotalWait
    BY <1>4, QuietVerdict DEF vars, cvars, tvars, MustFail, TotalWait, Ahead
  <2> QED
    BY <1>4, <2>1, QuietVerdict DEF vars, tvars, cvars
<1> QED
  BY <1>1, <1>2, <1>3, <1>4

\* The launch puts the forced reconnection ten units ahead of the wait for it,
\* and the tunnel ahead by what the options say.
LEMMA CliInvLaunch == ASSUME TInv, CliInv, Launch PROVE CliInv'
<1>1. /\ args \in Options /\ emitted = <<>> /\ ~stopped /\ args' = args
      /\ status' = "running" /\ status = "called" /\ stopped' = stopped
      /\ envFile' = envFile
  BY DEF TInv, Fresh, Launch, CliInv
<1>2. PICK latency \in IF args.latency = Absent THEN RandomLatency
                       ELSE {Millis(args.latency)} :
          timer' = [c \in Chain |->
              CASE c = "start" -> Timer("establish", latency)
                [] c = Forced /\ args.after # Absent ->
                      Timer("reconnect", Millis(args.after))
                [] c = "main" /\ args.after # Absent -> Timer("wait", TotalWait)
                [] OTHER -> Idle]
  BY DEF Launch
<1>3. timer'["start"] = Timer("establish", latency)
  BY <1>2, ForcedChain
<1>4. args.after = Absent => \A c \in Chain \ {"start"} : timer'[c] = Idle
  BY <1>2
<1>5. args.after # Absent =>
          /\ timer'[Forced] = Timer("reconnect", Millis(args.after))
          /\ timer'["main"] = Timer("wait", TotalWait)
  <2>1. Forced # "start" /\ Forced \in Chain
    BY ForcedChain
  <2>2. "main" # "start" /\ "main" # Forced /\ "main" \in Chain
    BY ForcedChain
  <2> HIDE DEF Forced
  <2> QED
    BY <1>2, <2>1, <2>2
<1>6. InRange =>
          /\ args.after # Absent
          /\ Millis(args.after) = args.after /\ args.after \in Nat
          /\ TotalWait = args.after + 10
  BY InTime
<1>7. UnderWay'
  <2>1. CASE args.after = Absent
    <3>1. ~InRange
      BY <2>1, InTime
    <3> QED
      BY <1>1, <1>3, <1>4, <2>1, <3>1
         DEF UnderWay, Timer, Idle, InRange
  <2>2. CASE InRange
    <3>1. Ahead'
      BY <1>5, <1>6, <2>2, TunnelAssumption DEF Ahead, Timer
    <3>2. timer'["main"].task = "wait" /\ timer'["main"].left = TotalWait
      BY <1>5, <1>6, <2>2 DEF Timer
    <3>3. timer'["start"].left = latency
      BY <1>3 DEF Timer
    <3>4. args.latency # Absent => latency = Millis(args.latency)
      BY <1>2
    <3>5. TotalWait' = TotalWait /\ Millis(args.latency)' = Millis(args.latency)
      BY <1>1 DEF TotalWait, Millis
    <3> QED
      BY <1>1, <1>6, <2>2, <3>1, <3>2, <3>3, <3>4, <3>5
         DEF UnderWay, InRange
  <2>3. CASE ~InRange /\ args.after # Absent
    BY <1>1, <2>3 DEF UnderWay, InRange
  <2> QED
    BY <2>1, <2>2, <2>3
<1>8. Failing' /\ Outcome'
  BY <1>1, <1>3 DEF Failing, Outcome, Timer, InRange
<1>9. Filed'
  <2>1. ~Emitted("READY")
    BY <1>1 DEF Emitted
  <2>2. Emit("STARTING", "call") /\ emitted \in Seq(Event)
    BY DEF Launch, TInv, TypeOK, TTypeOK, Event
  <2>3. ~Emitted("READY")'
    BY <2>1, <2>2, EmitRemembers DEF Name
  <2> QED
    BY <2>3 DEF Filed
<1> QED
  BY <1>1, <1>7, <1>8, <1>9 DEF CliInv

\* Everything that the wait must not overtake was due before its end.
LEMMA WaitedIsLast ==
    ASSUME TInv, CliInv, Waited, (args.after = Absent \/ InRange)
    PROVE  Reconnected /\ Emitted("READY") /\ (MustFail => exitCode = 1)
<1>1. /\ status = "running" /\ "main" \in Pending
      /\ \A d \in Pending : timer[d].left >= timer["main"].left
  BY DEF Waited, Due
<1>2. timer \in [Chain -> [task : Task, left : Int]] /\ args \in Options
  BY <1>1 DEF TInv, TypeOK, TTypeOK, Fresh
<1>3. InRange
  <2>1. timer["main"].task # "none"
    BY <1>1 DEF Pending
  <2>2. args.after # Absent
    BY <1>1, <2>1, ForcedChain DEF CliInv, UnderWay
  <2> QED
    BY <1>2, <2>2 DEF Options
<1>4. args.after # Absent /\ TotalWait \in Nat
  BY <1>3, InTime
<1>5. Reconnected
  <2>1. timer[Forced].task # "none" => timer[Forced].left >= timer["main"].left
    BY <1>1, ForcedChain DEF Pending
  <2>2. timer[Forced].left \in Int /\ timer["main"].left \in Int
    BY <1>2, ForcedChain
  <2> QED
    BY <1>1, <1>3, <2>1, <2>2 DEF CliInv, UnderWay, Ahead
<1>6. MustFail => exitCode = 1
  <2> SUFFICES ASSUME MustFail, timer["start"].task = "establish" PROVE FALSE
    BY <1>1 DEF CliInv, Failing, MustFail
  <2>1. /\ args.latency # Absent
        /\ Millis(args.latency) + Lag < TotalWait
    BY <1>4 DEF MustFail
  <2>2. timer["main"].left - timer["start"].left =
            TotalWait - Millis(args.latency)
    BY <1>1, <1>3, <2>1 DEF CliInv, UnderWay
  <2>3. timer["start"].left >= timer["main"].left
    BY <1>1, ForcedChain DEF Pending
  <2>4. timer["start"].left \in Int /\ timer["main"].left \in Int
    BY <1>2, ForcedChain
  <2>5. Millis(args.latency) \in Nat
    BY CliAssumption DEF Millis
  <2>6. TotalWait \in Nat /\ Lag \in Nat
    BY <1>4, TunnelAssumption
  <2> QED
    BY <2>1, <2>2, <2>3, <2>4, <2>5, <2>6
<1>7. Emitted("READY")
  BY <1>5 DEF Reconnected, Emitted, By
<1> QED
  BY <1>5, <1>6, <1>7

\* The end of the wait keeps the invariant.
LEMMA CliInvWaited == ASSUME TInv, CliInv, Waited PROVE CliInv'
<1>1. /\ status = "running" /\ status' = "settled" /\ ~stopped
      /\ UNCHANGED <<started, stopped, emitted, args, exitCode, envFile>>
  BY DEF Waited, CliInv
<1>2. Outcome'
  <2> SUFFICES ASSUME args.after = Absent \/ InRange PROVE Outcome'
    BY <1>1 DEF Outcome, InRange
  <2>1. MustFail' = MustFail
    BY <1>1 DEF MustFail, TotalWait, Millis
  <2>2. Reconnected /\ Emitted("READY") /\ (MustFail => exitCode = 1)
    BY WaitedIsLast
  <2> QED
    BY <1>1, <2>1, <2>2, QuietVerdict DEF Outcome
<1>3. Failing'
  <2>1. timer'["start"] = timer["start"]
    BY ForcedChain DEF Waited, TInv, TypeOK, TTypeOK
  <2> QED
    BY <1>1, <2>1 DEF CliInv, Failing
<1>4. Filed' /\ UnderWay'
  BY <1>1, QuietVerdict DEF CliInv, Filed, UnderWay, InRange
<1> QED
  BY <1>1, <1>2, <1>3, <1>4 DEF CliInv

\* Time passes for all chains alike.
LEMMA CliInvPass == ASSUME TInv, CliInv, Pass PROVE CliInv'
<1>1. UNCHANGED <<emitted, stopped, args, status, exitCode, envFile>>
  BY DEF Pass, Tick, cvars
<1>2. MustFail' = MustFail /\ TotalWait' = TotalWait
  BY <1>1 DEF MustFail, TotalWait, Millis
<1>3. Lag \in Nat /\ timer \in [Chain -> [task : Task, left : Int]]
  BY TunnelAssumption DEF TInv, TypeOK, TTypeOK
<1>4. \A c \in Chain :
        /\ timer'[c].task = timer[c].task
        /\ timer[c].left \in Int
        /\ timer[c].task # "none" =>
              timer[c].left > -Lag /\ timer'[c].left = timer[c].left - 1
  <2> SUFFICES ASSUME NEW c \in Chain
               PROVE  /\ timer'[c].task = timer[c].task
                      /\ timer[c].left \in Int
                      /\ timer[c].task # "none" =>
                            /\ timer[c].left > -Lag
                            /\ timer'[c].left = timer[c].left - 1
    OBVIOUS
  <2>1. timer[c] \in [task : Task, left : Int]
    BY <1>3
  <2>2. CASE c \in Pending
    <3>1. /\ timer'[c] = [timer[c] EXCEPT !.left = @ - 1]
          /\ timer[c].left > -Lag
      BY <2>2 DEF Pass, Tick
    <3> QED
      BY <2>1, <3>1
  <2>3. CASE c \notin Pending
    <3>1. timer'[c] = timer[c]
      BY <2>3 DEF Pass, Tick
    <3> QED
      BY <2>1, <2>3, <3>1 DEF Pending
  <2> QED
    BY <2>2, <2>3
<1>5. UnderWay'
  <2>1. CASE args.after = Absent
    <3>1. ~InRange
      BY <2>1, InTime
    <3> QED
      BY <1>1, <1>4, <2>1, <3>1, ForcedChain
         DEF CliInv, UnderWay, InRange
  <2>2. CASE InRange /\ status = "running"
    <3>a. args.after # Absent
      BY <2>2, InTime
    <3>b. timer["main"].task = "wait" /\ Ahead
      BY <2>2 DEF CliInv, UnderWay
    <3>c. /\ timer'["main"].task = "wait"
          /\ timer'["main"].left = timer["main"].left - 1
          /\ timer'[Forced].task = timer[Forced].task
          /\ timer[Forced].task # "none" =>
                /\ timer[Forced].left > -Lag
                /\ timer'[Forced].left = timer[Forced].left - 1
          /\ timer["main"].left \in Int /\ timer[Forced].left \in Int
      BY <1>4, <3>b, ForcedChain
    <3>1. Ahead'
      BY <1>1, <1>3, <3>b, <3>c, QuietVerdict DEF Ahead
    <3>2. timer'["start"].task = "establish" =>
              timer'["main"].left - timer'["start"].left =
                  timer["main"].left - timer["start"].left
      BY <1>4, <3>c, ForcedChain
    <3>3. timer'["start"].task = timer["start"].task
      BY <1>4, ForcedChain
    <3>4. Millis(args.latency)' = Millis(args.latency)
      BY <1>1 DEF Millis
    <3> QED
      BY <1>1, <1>2, <2>2, <3>a, <3>c, <3>1, <3>2, <3>3, <3>4
         DEF CliInv, UnderWay, InRange
  <2>3. CASE \/ status # "running"
             \/ args.after # Absent /\ ~InRange
    BY <1>1, <2>3 DEF UnderWay, InRange
  <2> QED
    BY <2>1, <2>2, <2>3
<1>6. Failing'
  BY <1>1, <1>4, ForcedChain DEF CliInv, Failing
<1>7. Filed' /\ Outcome'
  BY <1>1, <1>2, QuietVerdict DEF CliInv, Filed, Outcome, InRange
<1> QED
  BY <1>1, <1>5, <1>6, <1>7 DEF CliInv

\* What a callback of the tunnel emits, and what becomes of its chain.
LEMMA FireEffect ==
    ASSUME TInv, ~stopped, NEW c \in Chain, NEW fails \in BOOLEAN,
           Fire(c, fails)
    PROVE  /\ c # "main" /\ stopped' = stopped
           /\ \A d \in Chain \ {c} : timer'[d] = timer[d]
           /\ \/ /\ c = "start" /\ timer[c].task = "establish"
                 /\ timer'[c].task # "establish"
                 /\ Emit(IF fails THEN "FAILED" ELSE "READY", c)
              \/ /\ timer[c].task = "reconnect" /\ timer'[c].task = "ready"
                 /\ timer'[c].left \in 2..6
                 /\ Emit("RECONNECTING", c)
              \/ /\ timer[c].task = "ready" /\ timer'[c].task = "none"
                 /\ Emit("READY", c)
<1>0. /\ timer["main"].task \in {"none", "wait"}
      /\ timer \in [Chain -> [task : Task, left : Int]]
  BY DEF TInv, TunnelInv, TimersOK, TTypeOK
<1>1. CASE c = "start" /\ Establish(fails)
  <2>1. PICK t \in {Idle} \cup {Timer("reconnect", d) : d \in MidlifeDelay} :
            timer' = [timer EXCEPT !["start"] = t]
    BY <1>1 DEF Establish
  <2>2. t.task # "establish"
    BY <2>1 DEF Timer, Idle
  <2>3. timer'[c] = t /\ \A d \in Chain \ {c} : timer'[d] = timer[d]
    BY <1>0, <1>1, <2>1
  <2>4. Emit(IF fails THEN "FAILED" ELSE "READY", c)
    BY <1>1 DEF Establish
  <2> QED
    BY <1>1, <2>2, <2>3, <2>4, ForcedChain DEF Establish
<1>2. CASE Reconnect(c)
  <2>1. PICK d \in ReLatency : timer' = [timer EXCEPT ![c] = Timer("ready", d)]
    BY <1>2 DEF Reconnect
  <2>2. /\ timer'[c].task = "ready" /\ timer'[c].left = d /\ d \in 2..6
        /\ \A b \in Chain \ {c} : timer'[b] = timer[b]
    BY <1>0, <2>1 DEF Timer, ReLatency
  <2> QED
    BY <1>0, <1>2, <2>2 DEF Reconnect
<1>3. CASE Ready(c)
  <2>1. /\ timer'[c].task = "none"
        /\ \A b \in Chain \ {c} : timer'[b] = timer[b]
    BY <1>0, <1>3 DEF Ready, Idle, Timer
  <2> QED
    BY <1>0, <1>3, <2>1 DEF Ready
<1> QED
  BY <1>1, <1>2, <1>3 DEF Fire

\* Timers that are late by less than the slack of the wait do not reverse the
\* order of the reconnection and of the end of the wait.
LEMMA FireStaysAhead ==
    ASSUME TInv, ~stopped, Lag < 4, Ahead, NEW c \in Chain,
           NEW fails \in BOOLEAN, Fire(c, fails)
    PROVE  Ahead' /\ timer'["main"] = timer["main"]
<1>1. /\ c # "main"
      /\ \A d \in Chain \ {c} : timer'[d] = timer[d]
      /\ \/ c = "start" /\ Emit(IF fails THEN "FAILED" ELSE "READY", c)
         \/ /\ timer[c].task = "reconnect" /\ timer'[c].task = "ready"
            /\ timer'[c].left \in 2..6
            /\ Emit("RECONNECTING", c)
         \/ /\ timer[c].task = "ready" /\ timer'[c].task = "none"
            /\ Emit("READY", c)
  BY FireEffect
<1>2. timer'["main"] = timer["main"]
  BY <1>1, ForcedChain
<1>3. PICK name \in Name : Emit(name, c)
  BY <1>1 DEF Name
<1>4. emitted \in Seq(Event)
  BY DEF TInv, TypeOK, TTypeOK, Event
<1>5. timer \in [Chain -> [task : Task, left : Int]] /\ Lag \in Nat
  BY TunnelAssumption DEF TInv, TypeOK, TTypeOK
<1>6. CASE c # Forced
  <2>1. timer'[Forced] = timer[Forced]
    BY <1>1, <1>6, ForcedChain
  <2>2. /\ Reconnected => Reconnected'
        /\ (\E k \in By(Forced) : emitted[k].name = "RECONNECTING") =>
              (\E k \in By(Forced) : emitted[k].name = "RECONNECTING")'
    BY <1>3, <1>4, EmitRemembers
  <2> QED
    BY <1>2, <2>1, <2>2, Zenon DEF Ahead
<1>7. CASE c = Forced
  <2>1. CASE /\ timer[c].task = "reconnect" /\ timer'[c].task = "ready"
             /\ timer'[c].left \in 2..6
             /\ Emit("RECONNECTING", c)
    <3>1. (\E k \in By(Forced) : emitted[k].name = "RECONNECTING")'
      BY <1>4, <1>7, <2>1, EmitRemembers DEF Name
    <3>2. /\ timer[Forced].left \in Int /\ timer[Forced].left >= -Lag
          /\ timer["main"].left = timer[Forced].left + 10
      BY <1>5, <1>7, <2>1, ForcedChain DEF Ahead
    <3>3. timer'["main"].left > timer'[Forced].left
      BY <1>2, <1>5, <1>7, <2>1, <3>2
    <3> QED
      BY <1>2, <1>7, <2>1, <3>1, <3>3 DEF Ahead
  <2>2. CASE /\ timer[c].task = "ready" /\ timer'[c].task = "none"
             /\ Emit("READY", c)
    <3>1. \E k \in By(Forced) : emitted[k].name = "RECONNECTING"
      BY <1>7, <2>2 DEF Ahead
    <3>2. Reconnected'
      BY <1>4, <1>7, <2>2, <3>1, EmitRemembers DEF Name
    <3> QED
      BY <1>2, <1>7, <2>2, <3>2 DEF Ahead
  <2> QED
    BY <1>1, <1>7, <2>1, <2>2, ForcedChain
<1> QED
  BY <1>2, <1>6, <1>7

\* What the listeners make of an event.
LEMMA CliInvTimer == ASSUME TInv, CliInv, Lag < 4, CliTimer PROVE CliInv'
<1>1. PICK c \in Chain : Fire(c, args.fail)
  BY DEF CliTimer
<1>2. /\ status \in {"running", "settled"} /\ ~stopped /\ args' = args
      /\ args \in Options /\ args.fail \in BOOLEAN
  BY DEF CliTimer, CliInv, TInv, Fresh, Options
<1>3. /\ c # "main" /\ stopped' = stopped
      /\ \A d \in Chain \ {c} : timer'[d] = timer[d]
      /\ \/ /\ c = "start" /\ timer[c].task = "establish"
            /\ timer'[c].task # "establish"
            /\ Emit(IF args.fail THEN "FAILED" ELSE "READY", c)
         \/ /\ timer[c].task = "reconnect" /\ timer'[c].task = "ready"
            /\ timer'[c].left \in 2..6
            /\ Emit("RECONNECTING", c)
         \/ /\ timer[c].task = "ready" /\ timer'[c].task = "none"
            /\ Emit("READY", c)
  BY <1>1, <1>2, FireEffect
<1>4. PICK name \in Name :
        /\ Emit(name, c)
        /\ \/ /\ c = "start" /\ timer[c].task = "establish"
              /\ timer'[c].task # "establish"
              /\ name = IF args.fail THEN "FAILED" ELSE "READY"
           \/ /\ timer[c].task = "reconnect" /\ timer'[c].task = "ready"
              /\ name = "RECONNECTING"
           \/ /\ timer[c].task = "ready" /\ timer'[c].task = "none"
              /\ name = "READY"
  BY <1>3 DEF Name
<1>5. emitted \in Seq(Event) /\ exitCode \in {0, 1}
  BY DEF TInv, TypeOK, TTypeOK, Event
<1> DEFINE e == [name |-> name, by |-> c]
<1>6. emitted' # emitted /\ emitted'[Len(emitted')] = e
  <2>1. emitted'[Len(emitted')] = e
    BY <1>4, <1>5, EmitAnswers
  <2>2. Len(emitted') = Len(emitted) + 1 /\ Len(emitted) \in Nat
    BY <1>4, <1>5 DEF Emit, Event
  <2> QED
    BY <2>1, <2>2
<1>7. Hear(e) \/ WriteThrows(e)
  BY <1>6 DEF CliTimer
<1>8. e.name = name /\ e.by = c
  OBVIOUS
<1> HIDE DEF e
<1>9. /\ \A n : Emitted(n)' <=> (Emitted(n) \/ n = name)
      /\ Reconnected => Reconnected'
  BY <1>4, <1>5, EmitRemembers
<1>10. MustFail' = MustFail /\ TotalWait' = TotalWait
  BY <1>2 DEF MustFail, TotalWait, Millis
<1>11. CASE WriteThrows(e)
  <2>1. status' = "exited" /\ exitCode' = 1
    BY <1>11 DEF WriteThrows
  <2> QED
    BY <1>2, <1>3, <2>1 DEF CliInv, UnderWay, Failing, Filed, Outcome
<1>12. CASE Hear(e)
  <2>1. /\ envFile' = IF name = "READY" /\ args.env THEN c ELSE envFile
        /\ exitCode' = IF name = "FAILED" THEN 1 ELSE exitCode
        /\ status' = IF Settled(name) THEN "settled" ELSE status
    BY <1>8, <1>12, Zenon DEF Hear
  <2>2. c # Absent
    BY CliAssumption
  <2>3. Filed'
    BY <1>2, <1>9, <2>1, <2>2 DEF CliInv, Filed
  <2>4. Failing'
    <3>1. CASE c = "start" /\ timer[c].task = "establish"
      BY <1>2, <1>4, <2>1, <3>1 DEF Failing
    <3>2. CASE ~(c = "start" /\ timer[c].task = "establish")
      <4>1. timer["start"].task = "establish" =>
                timer'["start"].task = "establish"
        BY <1>3, <3>2, ForcedChain
      <4> QED
        BY <1>2, <2>1, <4>1 DEF CliInv, Failing
    <3> QED
      BY <3>1, <3>2
  <2>5. UnderWay'
    <3> SUFFICES ASSUME status' = "running" PROVE UnderWay'
      BY DEF UnderWay
    <3>1. status = "running" /\ ~Settled(name)
      BY <1>2, <2>1
    <3>2. args.after # Absent
      <4> SUFFICES ASSUME args.after = Absent PROVE FALSE
        OBVIOUS
      <4>1. c = "start" /\ timer[c].task = "establish"
        BY <1>4, <3>1 DEF CliInv, UnderWay
      <4> QED
        BY <1>4, <3>1, <4>1 DEF Settled
    <3>3. CASE InRange
      <4>1. Ahead /\ timer["main"].task = "wait"
        BY <3>1, <3>3 DEF CliInv, UnderWay
      <4>2. Ahead' /\ timer'["main"] = timer["main"]
        BY <1>1, <1>2, <4>1, FireStaysAhead
      <4>3. timer'["start"].task = "establish" =>
                timer'["start"] = timer["start"]
        BY <1>3, <1>4, ForcedChain
      <4> QED
        BY <1>2, <1>10, <3>1, <3>2, <3>3, <4>1, <4>2, <4>3
           DEF CliInv, UnderWay, Millis, InRange
    <3> QED
      BY <1>2, <3>2, <3>3 DEF UnderWay, InRange
  <2>6. Outcome'
    <3> SUFFICES ASSUME status' = "settled", args.after = Absent \/ InRange
                 PROVE  Outcome'
      BY <1>2, <2>1 DEF Outcome, InRange
    <3>1. CASE status = "settled"
      BY <1>2, <1>9, <1>10, <2>1, <3>1 DEF CliInv, Outcome
    <3>2. CASE status = "running"
      <4>1. Settled(name) /\ args.after = Absent
        BY <2>1, <3>2 DEF Settled
      <4>2. c = "start" /\ timer[c].task = "establish"
        BY <1>4, <3>2, <4>1 DEF CliInv, UnderWay
      <4>3. CASE args.fail
        BY <1>4, <2>1, <4>2, <4>3 DEF Outcome
      <4>4. CASE ~args.fail
        BY <1>2, <1>4, <1>9, <1>10, <4>1, <4>2, <4>4 DEF Outcome, MustFail
      <4> QED
        BY <4>3, <4>4
    <3> QED
      BY <1>2, <3>1, <3>2
  <2> QED
    BY <1>2, <1>3, <2>3, <2>4, <2>5, <2>6 DEF CliInv
<1> QED
  BY <1>7, <1>11, <1>12

\* Code 0 means what CliVerdict says, for any latencies, negative and too long
\* ones included, any durations, and any --reconnect-after that is in the range
\* of setTimeout with the five seconds added, as long as no timer is late by the
\* two seconds by which these exceed the longest latency of a reconnection
\* (tunnel-emitter.ts:412-431).
THEOREM CliVerdictHolds == ASSUME Lag < 4 PROVE Spec => []CliVerdict
<1>1. Init => TInv /\ CliInv
  BY TInvInit, CliInvInit
<1>2. TInv /\ CliInv /\ [Next]_vars => TInv' /\ CliInv'
  <2> SUFFICES ASSUME TInv, CliInv, [Next]_vars PROVE CliInv'
    BY TInvNext
  <2>1. CASE UserCall \/ UserTimer \/ Reject \/ Exit \/ UNCHANGED vars
    BY <2>1, CliInvCases
  <2>2. CASE Launch
    BY <2>2, CliInvLaunch
  <2>3. CASE CliTimer
    BY <2>3, CliInvTimer
  <2>4. CASE Waited
    BY <2>4, CliInvWaited
  <2>5. CASE Pass
    BY <2>5, CliInvPass
  <2> QED
    BY <2>1, <2>2, <2>3, <2>4, <2>5 DEF Next
<1>3. TInv /\ CliInv => CliVerdict
  <2> SUFFICES ASSUME TInv, CliInv, status = "exited",
                      args.after = Absent \/ InRange
               PROVE  /\ exitCode = 0 => /\ Emitted("READY")
                                         /\ args.env => envFile # Absent
                                         /\ args.after # Absent => Reconnected
                      /\ MustFail => exitCode = 1
    BY DEF CliVerdict, MustFail
  <2>1. exitCode = 1 \/ (exitCode = 0 /\ exitCode # 1)
    BY DEF TInv, TypeOK
  <2>2. Filed /\ Outcome
    BY DEF CliInv
  <2>3. CASE exitCode = 1
    BY <2>3
  <2>4. CASE exitCode = 0 /\ exitCode # 1
    <3>1. Emitted("READY") /\ ~MustFail /\ (args.after # Absent => Reconnected)
      BY <2>2, <2>4, Zenon DEF Outcome
    <3>2. args.env => envFile # Absent
      BY <2>2, <2>4, <3>1, Zenon DEF Filed
    <3> QED
      BY <3>1, <3>2
  <2> QED
    BY <2>1, <2>3, <2>4
<1> QED
  BY <1>1, <1>2, <1>3, PTL DEF Spec
=============================================================================
