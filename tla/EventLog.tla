------------------------------- MODULE EventLog -------------------------------
(***************************************************************************)
(* What a ledger promises: events are appended to one log and never change *)
(* or go away.  A reader sees the log as it was at some moment, looks at   *)
(* it again whenever it likes, and always does after it appended an event  *)
(* itself.  Two things limit the promise.  A write may fail half way: then *)
(* what it left, and what is written next to it, are lost, and nobody sees *)
(* the log any more.  And the log may be cleared.                          *)
(***************************************************************************)
EXTENDS Integers, Sequences

CONSTANTS Reader, Event, Damaged, Unread

VARIABLES
    log,
    whole,   \* whether the last write came to its end
    view     \* view[i]: what the reader i works on, or Unread

Init == log = <<>> /\ whole = TRUE /\ view = [i \in Reader |-> Unread]

\* What the step wrote.
Last == log'[Len(log')]

\* One more entry, or the ruin of the one whose write failed.
Extended ==
    \/ whole /\ Len(log') > Len(log) /\ log' = Append(log, Last)
    \/ ~whole /\ log' = [log EXCEPT ![Len(log)] = Damaged]

\* The reader i appends an event of its own.
Publish(i) ==
    /\ Extended
    /\ whole => /\ Last \in Event
                /\ Last.id \notin {log[k].id : k \in 1..Len(log)}
    /\ whole' = TRUE
    /\ view' = [view EXCEPT ![i] = Unread]

\* A write that fails after it began.
Break ==
    /\ Extended
    /\ whole => Last \in Event \cup {Damaged}
    /\ whole' = FALSE
    /\ UNCHANGED view

Look(i) ==
    /\ \A k \in 1..Len(log) : log[k] # Damaged
    /\ view' = [view EXCEPT ![i] = log]
    /\ UNCHANGED <<log, whole>>

Forget(i) ==
    /\ view' = [view EXCEPT ![i] = Unread]
    /\ UNCHANGED <<log, whole>>

Clear(i) ==
    /\ log' = <<>>
    /\ whole' = TRUE
    /\ view' = [view EXCEPT ![i] = Unread]

Next ==
    \/ Break
    \/ \E i \in Reader : Publish(i) \/ Look(i) \/ Forget(i) \/ Clear(i)

Spec == Init /\ [][Next]_<<log, whole, view>>
=============================================================================
