-------------------------- MODULE ExecutionLedger --------------------------
(***************************************************************************)
(* What the journal promises about executions, without the daemon's loop,  *)
(* its handlers, their faults and restarts: it lags behind the broker and  *)
(* is never wrong.  An execution is entered once, under the correction it  *)
(* was first seen with; an entry is never withdrawn, and only a later      *)
(* correction replaces it.  FillJournal is shown to implement this.        *)
(***************************************************************************)
EXTENDS Naturals

CONSTANT Exec  \* executions

VARIABLES
    truth,  \* the broker's: the latest correction of each execution so far
    ledger  \* entries: execution, number it was entered under, correction

vars == <<truth, ledger>>

Init == truth = <<>> /\ ledger = {}

Happens(x) ==
    /\ x \notin DOMAIN truth
    /\ truth' = [y \in DOMAIN truth \cup {x} |-> IF y = x THEN 1 ELSE truth[y]]
    /\ UNCHANGED ledger

Corrects(x) ==
    /\ x \in DOMAIN truth
    /\ truth' = [truth EXCEPT ![x] = @ + 1]
    /\ UNCHANGED ledger

Enters(x, cor, id) ==
    /\ \A q \in ledger : q.x # x
    /\ ledger' = ledger \cup {[x |-> x, id |-> id, cor |-> cor]}
    /\ UNCHANGED truth

Amends(q, cor) ==
    /\ q.cor < cor
    /\ ledger' = (ledger \ {q}) \cup {[x |-> q.x, id |-> q.id, cor |-> cor]}
    /\ UNCHANGED truth

Next ==
    \/ \E x \in Exec : Happens(x) \/ Corrects(x)
    \/ \E x \in DOMAIN truth : \E cor \in 1..truth[x] : \E id \in 1..cor : Enters(x, cor, id)
    \/ \E q \in ledger : \E cor \in 1..truth[q.x] : Amends(q, cor)

Spec == Init /\ [][Next]_vars
=============================================================================
