--------------------------- MODULE LeaseContract ---------------------------
(***************************************************************************)
(* What the push lease (scripts/utils/ib_2fa_lock.py) promises to those    *)
(* who may cycle the Gateway, without its file, its guard, its readers'    *)
(* stale clocks or what damage does to them: there is at most one grant at *)
(* a time, nobody else is granted anything while it is young, and it pays  *)
(* for one cycle.  PushLease is shown to implement this.                   *)
(***************************************************************************)
EXTENDS Naturals

CONSTANTS
    Holder,     \* components
    NoLease,    \* nothing is granted
    TTL,        \* the life of a grant
    Grace,      \* its youth
    MaxGrants   \* bound on the grants

VARIABLES
    granted,  \* the grant in force
    number,   \* how many were made
    spent,    \* how many cycles each has paid for
    time

vars == <<granted, number, spent, time>>

Grant(h, t) == [holder |-> h, acquired |-> t, expires |-> t + TTL, stamp |-> number + 1]

Init ==
    /\ granted = NoLease /\ number = 0 /\ time = 0
    /\ spent = [s \in 1..MaxGrants |-> 0]

(* Over nothing, or over a grant that is no longer young.  A grant is      *)
(* dated t, however long ago it was asked for.                             *)
Acquire(h, t) ==
    /\ number < MaxGrants
    /\ t <= time
    /\ granted # NoLease =>
          time >= granted.acquired + Grace \/ time >= granted.expires
    /\ granted' = Grant(h, t) /\ number' = number + 1
    /\ UNCHANGED <<spent, time>>

Release ==
    /\ granted # NoLease
    /\ granted' = NoLease
    /\ UNCHANGED <<number, spent, time>>

(* Once for each grant; it was in force when the payment was asked for,    *)
(* which may be some time ago.                                             *)
Spend ==
    /\ granted # NoLease
    /\ spent[granted.stamp] = 0
    /\ spent' = [spent EXCEPT ![granted.stamp] = 1]
    /\ UNCHANGED <<granted, number, time>>

Pass ==
    /\ time' = time + 1
    /\ UNCHANGED <<granted, number, spent>>

Next ==
    \/ \E h \in Holder, t \in 0..time : Acquire(h, t)
    \/ Release
    \/ Spend
    \/ Pass

Spec == Init /\ [][Next]_vars
=============================================================================
