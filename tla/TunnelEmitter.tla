---------------------------- MODULE TunnelEmitter ----------------------------
(***************************************************************************)
(* TunnelEmitter (tools/mock/tunnel-emitter.ts): an object that plays the  *)
(* life of a tunnel.  Every event but those of a call comes from a timer,  *)
(* and timers are never cleared: their callbacks look at _stopped instead. *)
(*                                                                         *)
(* One unit of time is half a second; durations are rounded either way.    *)
(* The event loop runs the timers that are due in the order in which they  *)
(* were due, at most Lag late.  A definition marked [mutant] is no part of *)
(* the specification.                                                      *)
(***************************************************************************)
EXTENDS Integers, Sequences, FiniteSets

CONSTANTS
    Again,     \* names the calls of reconnectAfter, which bounds them
    Duration,  \* the durations tried, of those the code can draw
    Lag,       \* how late a timer may fire
    MaxFail    \* bound of the calls of fail

\* Each chain of timers has one pending at a time: that of start, that of each
\* call of reconnectAfter, and "main", a timer of the caller.
Chain == {"start", "main"} \cup Again

ASSUME TunnelAssumption ==
    /\ {"start", "main", "call"} \cap Again = {}
    /\ Duration \subseteq Nat
    /\ Lag \in Nat /\ MaxFail \in Nat

VARIABLES
    started,  \* _started
    stopped,  \* _stopped
    timer,    \* what each chain does next, and in how long
    emitted   \* the events, each with the chain that emitted it

tvars == <<started, stopped, timer, emitted>>

Task == {"none", "establish", "reconnect", "ready", "wait"}
Name == {"STARTING", "READY", "FAILED", "RECONNECTING", "CLOSED"}

Timer(task, left) == [task |-> task, left |-> left]
Idle == Timer("none", 0)
Pending == {c \in Chain : timer[c].task # "none"}

Emit(name, by) == emitted' = Append(emitted, [name |-> name, by |-> by])
Emitted(name) == \E k \in 1..Len(emitted) : emitted[k].name = name
By(c) == {k \in 1..Len(emitted) : emitted[k].by = c}

\* randomLatency, and the delays drawn in the callbacks.
RandomLatency == Duration \cap 4..12
ReLatency == Duration \cap 2..6
MidlifeDelay == Duration \cap 8..24

TInit ==
    /\ started = FALSE
    /\ stopped = FALSE
    /\ timer = [c \in Chain |-> Idle]
    /\ emitted = <<>>

-----------------------------------------------------------------------------
(* The calls.                                                              *)

Start(latency) ==
    /\ ~started
    /\ started' = TRUE
    /\ Emit("STARTING", "call")
    /\ timer' = [timer EXCEPT !["start"] = Timer("establish", latency)]
    /\ UNCHANGED stopped

\* No guard: the tunnel may be closed, or not started.
Fail ==
    /\ Emit("FAILED", "call")
    /\ UNCHANGED <<started, stopped, timer>>

ReconnectAfter(c, after) ==
    /\ timer[c] = Idle /\ By(c) = {}
    /\ timer' = [timer EXCEPT ![c] = Timer("reconnect", after)]
    /\ UNCHANGED <<started, stopped, emitted>>

Close ==
    /\ ~stopped
    /\ stopped' = TRUE
    /\ Emit("CLOSED", "call")
    /\ UNCHANGED <<started, timer>>

-----------------------------------------------------------------------------
(* The callbacks.                                                          *)

\* The timer of c has run down, and none is due before it.
Due(c) ==
    /\ c \in Pending /\ timer[c].left <= 0
    /\ \A d \in Pending : timer[d].left >= timer[c].left

\* [mutant] a failure is not reported
Establish_Silent(fails) ==
    /\ Due("start") /\ timer["start"].task = "establish"
    /\ IF stopped \/ fails THEN UNCHANGED emitted ELSE Emit("READY", "start")
    /\ timer' = [timer EXCEPT !["start"] = Idle]
    /\ UNCHANGED <<started, stopped>>

Establish(fails) ==
    /\ Due("start") /\ timer["start"].task = "establish"
    /\ IF stopped
       THEN UNCHANGED emitted /\ timer' = [timer EXCEPT !["start"] = Idle]
       ELSE IF fails
       THEN /\ Emit("FAILED", "start")
            /\ timer' = [timer EXCEPT !["start"] = Idle]
       ELSE /\ Emit("READY", "start")
            /\ \E next \in {Idle} \cup
                           {Timer("reconnect", d) : d \in MidlifeDelay} :
                  timer' = [timer EXCEPT !["start"] = next]
    /\ UNCHANGED <<started, stopped>>

\* [mutant] the tunnel does not come back
Reconnect_Forgets(c) ==
    /\ Due(c) /\ timer[c].task = "reconnect"
    /\ IF stopped THEN UNCHANGED emitted ELSE Emit("RECONNECTING", c)
    /\ timer' = [timer EXCEPT ![c] = Idle]
    /\ UNCHANGED <<started, stopped>>

Reconnect(c) ==
    /\ Due(c) /\ timer[c].task = "reconnect"
    /\ IF stopped
       THEN UNCHANGED emitted /\ timer' = [timer EXCEPT ![c] = Idle]
       ELSE /\ Emit("RECONNECTING", c)
            /\ \E d \in ReLatency :
                  timer' = [timer EXCEPT ![c] = Timer("ready", d)]
    /\ UNCHANGED <<started, stopped>>

\* [mutant] the callback does not look at _stopped
Ready_Unchecked(c) ==
    /\ Due(c) /\ timer[c].task = "ready"
    /\ Emit("READY", c)
    /\ timer' = [timer EXCEPT ![c] = Idle]
    /\ UNCHANGED <<started, stopped>>

Ready(c) ==
    /\ Due(c) /\ timer[c].task = "ready"
    /\ IF stopped THEN UNCHANGED emitted ELSE Emit("READY", c)
    /\ timer' = [timer EXCEPT ![c] = Idle]
    /\ UNCHANGED <<started, stopped>>

Fire(c, fails) ==
    \/ c = "start" /\ Establish(fails)
    \/ Reconnect(c)
    \/ Ready(c)

Tick ==
    /\ Pending # {}
    /\ \A c \in Pending : timer[c].left > -Lag
    /\ timer' = [c \in Chain |-> IF c \in Pending
                                 THEN [timer[c] EXCEPT !.left = @ - 1]
                                 ELSE timer[c]]
    /\ UNCHANGED <<started, stopped, emitted>>

-----------------------------------------------------------------------------
(* Properties.                                                             *)

TTypeOK ==
    /\ started \in BOOLEAN
    /\ stopped \in BOOLEAN
    /\ timer \in [Chain -> [task : Task, left : Int]]
    /\ emitted \in Seq([name : Name, by : Chain \cup {"call"}])

\* Timers outlive close, but whatever was under way when it was called, only a
\* call emits anything afterwards (tunnel-emitter.ts:201, 229, 236, 271, 278).
QuietAfterClose ==
    [][(stopped /\ emitted' # emitted) =>
          emitted'[Len(emitted')].by = "call"]_tvars

\* However reconnections overlap, once no timer is left a tunnel that has not
\* been closed is not reconnecting: after the last RECONNECTING comes a READY
\* (tunnel-emitter.ts:228-249, 265-292).
ReconnectionEnds ==
    (Pending \subseteq {"main"} /\ ~stopped) =>
        \A k \in 1..Len(emitted) : emitted[k].name = "RECONNECTING" =>
            \E l \in k..Len(emitted) : emitted[l].name = "READY"
=============================================================================
