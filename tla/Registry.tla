------------------------------- MODULE Registry -------------------------------
(***************************************************************************)
(* What the coordinator promises about the proxies it lists.  A proxy is   *)
(* announced under its id for a lease, which later calls renew or          *)
(* withdraw.  It is listed until the lease ends and not one unit longer,   *)
(* it disappears before that only when somebody withdraws it, and whatever *)
(* is listed was announced under that id.  A renewal may bring back an     *)
(* earlier announcement of the same id: callers that race have to expect   *)
(* that, and nothing worse.                                                *)
(***************************************************************************)
EXTENDS Integers

CONSTANTS
    Id, Value, Absent,
    MaxLease,    \* how long a lease is without a request to the contrary
    LateUntil,   \* the later ends that clients ask for
    Volatile     \* whether the listing may be lost as a whole

VARIABLES
    now,
    lease,   \* lease[i]: the value listed under i and when it ends, or Absent
    known    \* known[i]: what was ever announced under i

rvars == <<now, lease, known>>

Within(t) == t <= now + MaxLease \/ \E u \in LateUntil : t <= u

Init ==
    /\ now = 0
    /\ \A i \in Id : /\ lease[i] # Absent => Within(lease[i].expires)
                     /\ known[i] = IF lease[i] = Absent THEN {}
                                   ELSE {lease[i].value}

\* From now on i is listed with the value v, for a lease within the bounds.
Lists(i, v) ==
    /\ lease'[i] # Absent
    /\ lease'[i].value = v
    /\ lease'[i].expires > now /\ Within(lease'[i].expires)
    /\ \A j \in Id \ {i} : lease'[j] = lease[j]

Announce(i) == \E v \in Value :
    /\ Lists(i, v)
    /\ known' = [known EXCEPT ![i] = @ \cup {v}]
    /\ UNCHANGED now

Renew(i) ==
    /\ \E v \in known[i] : Lists(i, v)
    /\ UNCHANGED <<now, known>>

Withdraw(i) ==
    /\ lease' = [lease EXCEPT ![i] = Absent]
    /\ UNCHANGED <<now, known>>

Lose ==
    /\ Volatile
    /\ lease' = [i \in Id |-> Absent]
    /\ UNCHANGED <<now, known>>

Pass ==
    /\ now' = now + 1
    /\ lease' = [i \in Id |-> IF lease[i] = Absent THEN Absent
                              ELSE IF now' > lease[i].expires THEN Absent
                              ELSE lease[i]]
    /\ UNCHANGED known

Next ==
    \/ \E i \in Id : Announce(i) \/ Renew(i) \/ Withdraw(i)
    \/ Lose
    \/ Pass

Spec == Init /\ [][Next]_rvars
=============================================================================
