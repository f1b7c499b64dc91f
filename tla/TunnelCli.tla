------------------------------- MODULE TunnelCli -------------------------------
(***************************************************************************)
(* Who uses the tunnel emitter: the command line of tunnel-emitter.ts,     *)
(* which starts it, prints its events, keeps the last endpoint in a file   *)
(* and ends with a code that scripts look at; or any other program, which  *)
(* calls its methods as it likes.                                          *)
(***************************************************************************)
EXTENDS TunnelEmitter

CONSTANTS
    Latency,     \* the values of --latency
    After,       \* the values of --reconnect-after
    MaxDelay,    \* the longest delay of setTimeout, 2^31 - 1 milliseconds
    NaN,         \* a value that parseInt does not understand
    Absent       \* undefined

ASSUME CliAssumption ==
    /\ Latency \subseteq Int /\ After \subseteq Int
    /\ MaxDelay \in Nat /\ Duration \subseteq 0..MaxDelay
    /\ Again # {}
    /\ NaN \notin Int /\ Absent \notin Int /\ NaN # Absent
    /\ Absent \notin Chain

\* The options.
Options == [provider : {"known", "unknown"}, fail : BOOLEAN, env : BOOLEAN,
            latency : Latency \cup {NaN, Absent},
            after : After \cup {NaN, Absent}]

VARIABLES
    args,      \* what parseArgs returns, or Absent for another program
    status,    \* how far the program is, or "library" for another one
    exitCode,
    envFile    \* the chain that the endpoint in the file is from, or Absent

cvars == <<args, status, exitCode, envFile>>
vars == <<tvars, cvars>>

\* [mutant] no conversion
Millis_Raw(value) == value

\* setTimeout takes what is no number, negative or too long for 1 millisecond.
Millis(value) == IF value \in 0..MaxDelay THEN value ELSE 0

\* The reconnection that --reconnect-after asks for.
Forced == CHOOSE c \in Again : TRUE

\* [mutant] not enough for the latency of the reconnection
TotalWait_Short == IF args.after = NaN THEN 0 ELSE Millis(args.after + 4)

\* The wait for it: 5 seconds more, which may be negative or too long, too.
TotalWait == IF args.after = NaN THEN 0 ELSE Millis(args.after + 10)

Init ==
    /\ TInit
    /\ \/ status = "called" /\ args \in Options
       \/ status = "library" /\ args = Absent
    /\ exitCode = 0
    /\ envFile = Absent

-----------------------------------------------------------------------------
(* Another program.  Its tunnel fails and reconnects at random.            *)

UserCall ==
    /\ status = "library"
    /\ \/ \E d \in RandomLatency : Start(d)
       \/ Fail /\ Cardinality({k \in By("call") : emitted[k].name = "FAILED"})
                    < MaxFail
       \/ \E c \in Again, d \in After : ReconnectAfter(c, Millis(d))
       \/ Close
    /\ UNCHANGED cvars

UserTimer ==
    /\ status = "library"
    /\ \E c \in Chain, fails \in BOOLEAN : Fire(c, fails)
    /\ UNCHANGED cvars

-----------------------------------------------------------------------------
(* The command line.                                                       *)

\* validateProvider throws.
Reject ==
    /\ status = "called" /\ args.provider = "unknown"
    /\ status' = "exited"
    /\ exitCode' = 1
    /\ UNCHANGED <<tvars, args, envFile>>

\* start, reconnectAfter and the wait, all before the first timer fires.
Launch ==
    /\ status = "called" /\ args.provider = "known"
    /\ status' = "running"
    /\ started' = TRUE
    /\ Emit("STARTING", "call")
    /\ \E latency \in IF args.latency = Absent THEN RandomLatency
                      ELSE {Millis(args.latency)} :
          timer' = [c \in Chain |->
              CASE c = "start" -> Timer("establish", latency)
                [] c = Forced /\ args.after # Absent ->
                      Timer("reconnect", Millis(args.after))
                [] c = "main" /\ args.after # Absent -> Timer("wait", TotalWait)
                [] OTHER -> Idle]
    /\ UNCHANGED <<stopped, args, exitCode, envFile>>

\* Whether the event resolves settled, which nobody awaits if the command line
\* asks for a reconnection.
Settled(name) == args.after = Absent /\ name \in {"READY", "FAILED"}

\* What the listeners do besides printing.
Hear(e) ==
    /\ envFile' = IF e.name = "READY" /\ args.env THEN e.by ELSE envFile
    /\ exitCode' = IF e.name = "FAILED" THEN 1 ELSE exitCode
    /\ status' = IF Settled(e.name) THEN "settled" ELSE status

\* The file cannot be written.
WriteThrows(e) ==
    /\ e.name = "READY" /\ args.env
    /\ status' = "exited"
    /\ exitCode' = 1
    /\ UNCHANGED envFile

\* A callback of the tunnel, and the listeners of what it emits.
CliTimer ==
    /\ status \in {"running", "settled"}
    /\ \E c \in Chain : Fire(c, args.fail)
    /\ IF emitted' = emitted
       THEN UNCHANGED <<status, exitCode, envFile>>
       ELSE LET e == emitted'[Len(emitted')] IN Hear(e) \/ WriteThrows(e)
    /\ UNCHANGED args

\* The wait for the reconnection is over.
Waited ==
    /\ status = "running"
    /\ Due("main")
    /\ timer' = [timer EXCEPT !["main"] = Idle]
    /\ status' = "settled"
    /\ UNCHANGED <<started, stopped, emitted, args, exitCode, envFile>>

\* process.exit, after the 50 milliseconds for stdout.
Exit ==
    /\ status = "settled"
    /\ status' = "exited"
    /\ UNCHANGED <<tvars, args, exitCode, envFile>>

Pass ==
    /\ status \in {"library", "running"}
    /\ Tick
    /\ UNCHANGED cvars

Next ==
    UserCall \/ UserTimer \/ Reject \/ Launch \/ CliTimer \/ Waited \/ Exit
        \/ Pass

\* The event loop runs what is due, and time goes on.
Fairness ==
    /\ WF_vars(Pass) /\ WF_vars(UserTimer) /\ WF_vars(CliTimer)
    /\ WF_vars(Reject \/ Launch \/ Waited \/ Exit)

Spec == Init /\ [][Next]_vars /\ Fairness

-----------------------------------------------------------------------------
(* Properties.                                                             *)

TypeOK ==
    /\ TTypeOK
    /\ args \in Options \cup {Absent}
    /\ status \in {"library", "called", "running", "settled", "exited"}
    /\ exitCode \in {0, 1}
    /\ envFile \in Chain \cup {Absent}

\* "Wait for the reconnected TUNNEL_READY" (tunnel-emitter.ts:421).
Reconnected ==
    \E k, l \in By(Forced) :
        /\ k < l
        /\ emitted[k].name = "RECONNECTING" /\ emitted[l].name = "READY"

\* The wait is as long as it was meant to be: neither it nor what it waits for
\* is out of the range of setTimeout.
InRange == args.after \in 0 .. MaxDelay - 10

\* Code 0 means that a tunnel was announced and that its endpoint is in the
\* file, whatever --latency.  With a --reconnect-after that setTimeout takes as
\* it is, 5 seconds more included, it means that the tunnel was announced again
\* after the reconnection, even if every timer is late (by less than the 2
\* seconds by which 5 exceed the longest latency of a reconnection); and --fail
\* leads to code 1 unless that wait ends before the tunnel could fail
\* (tunnel-emitter.ts:412-431).
CliVerdict ==
    (status = "exited" /\ (args.after = Absent \/ InRange)) =>
        /\ exitCode = 0 => /\ Emitted("READY")
                           /\ args.env => envFile # Absent
                           /\ args.after # Absent => Reconnected
        /\ (args.fail /\ args.after = Absent) => exitCode = 1
        /\ (args.fail /\ args.after # Absent /\ args.latency # Absent
              /\ Millis(args.latency) + Lag < TotalWait) => exitCode = 1

\* The command line always ends, and a tunnel that was started and not closed
\* is announced or fails (tunnel-emitter.ts:190-252, 411-431).
TunnelEnds ==
    /\ (status # "library") ~> (status = "exited")
    /\ started ~> (stopped \/ status = "exited" \/ Emitted("READY")
                           \/ Emitted("FAILED"))
=============================================================================
