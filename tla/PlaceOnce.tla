----------------------------- MODULE PlaceOnce -----------------------------
(***************************************************************************)
(* What the web server promises to those who place an order under a key    *)
(* (web/lib/orders/orderIdempotency.ts), without its memory, its file, the *)
(* times at which it reads and writes them, or the desk behind it: a key   *)
(* is claimed by one call at a time, the others hear what that one         *)
(* becomes, and a key is free again only after a failure, at the end of a  *)
(* retention, or when the server dies.  OrderPath is shown to implement    *)
(* this.                                                                   *)
(***************************************************************************)
EXTENDS Naturals

CONSTANTS
    Call,  \* calls that place an order
    Key    \* their idempotency keys

VARIABLES
    key,     \* the key of each call
    entry,   \* what became of a call's claim: "none" for who made none
    lapsed,  \* the outcome's retention is over
    told,    \* what each caller was told
    sent     \* how many orders each call has placed

vars == <<key, entry, lapsed, told, sent>>

Settled == {"ok", "indet"}
Holds(r) == entry[r] = "open" \/ (entry[r] \in Settled /\ ~lapsed[r])

Init ==
    /\ \E k \in Key : key = [r \in Call |-> k]
    /\ entry = [r \in Call |-> "none"] /\ lapsed = [r \in Call |-> FALSE]
    /\ told = [r \in Call |-> "none"] /\ sent = [r \in Call |-> 0]

Unserved(r) == entry[r] = "none" /\ told[r] = "none"

Claims(r, k) ==
    /\ Unserved(r)
    /\ \A q \in Call : key[q] = k => ~Holds(q)
    /\ key' = [key EXCEPT ![r] = k]
    /\ entry' = [entry EXCEPT ![r] = "open"]
    /\ UNCHANGED <<lapsed, told, sent>>

Joins(r, k) ==
    /\ Unserved(r)
    /\ \E q \in Call : key[q] = k /\ Holds(q)
    /\ key' = [key EXCEPT ![r] = k]
    /\ UNCHANGED <<entry, lapsed, told, sent>>

(* Whatever the server says of it meanwhile, a claim places one order.     *)
Sends(r) ==
    /\ entry[r] # "none" /\ sent[r] = 0
    /\ sent' = [sent EXCEPT ![r] = 1]
    /\ UNCHANGED <<key, entry, lapsed, told>>

Ends(r, how) ==
    /\ entry[r] = "open" /\ told[r] = "none"
    /\ how = "ok" => sent[r] = 1
    /\ entry' = [entry EXCEPT ![r] = how]
    /\ told' = [told EXCEPT ![r] = how]
    /\ UNCHANGED <<key, lapsed, sent>>

Hears(r, q) ==
    /\ Unserved(r)
    /\ key[q] = key[r] /\ entry[q] \in Settled \cup {"failed"}
    /\ told' = [told EXCEPT ![r] = entry[q]]
    /\ UNCHANGED <<key, entry, lapsed, sent>>

Lapses(r) ==
    /\ entry[r] \in Settled /\ ~lapsed[r]
    /\ lapsed' = [lapsed EXCEPT ![r] = TRUE]
    /\ UNCHANGED <<key, entry, told, sent>>

Dies(cut) ==
    /\ \A r \in cut : told[r] = "none"
    /\ told' = [r \in Call |-> IF r \in cut THEN "cut" ELSE told[r]]
    /\ entry' = [r \in Call |-> IF entry[r] = "open" THEN "lost" ELSE entry[r]]
    /\ UNCHANGED <<key, lapsed, sent>>

Next ==
    \/ \E r \in Call, k \in Key : Claims(r, k) \/ Joins(r, k)
    \/ \E r \in Call : Sends(r) \/ Lapses(r)
    \/ \E r \in Call, how \in Settled \cup {"failed"} : Ends(r, how)
    \/ \E r, q \in Call : Hears(r, q)
    \/ \E cut \in SUBSET Call : Dies(cut)

Spec == Init /\ [][Next]_vars
=============================================================================
