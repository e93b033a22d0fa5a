---------------------------- MODULE TradingHalt ----------------------------
(***************************************************************************)
(* What the kill switch promises (scripts/trading_halt.py and              *)
(* /trading/kill of scripts/api/server.py), without requests, scripts,     *)
(* their lanes and retries, or how they end: while the flag stands no      *)
(* order passes it, only an order that has passed goes out, and it goes    *)
(* out once; a kill is confirmed over a book in which nothing works, and   *)
(* with it what it could not reach.  OrderDesk is shown to implement this. *)
(***************************************************************************)
CONSTANTS
    Order,    \* orders
    Resting   \* those that work beforehand

VARIABLES
    halted,  \* the flag, as it is read
    passed,  \* orders that have passed the flag and are not out yet
    life,    \* what each order is to the broker
    swept,   \* a kill was confirmed, and nobody has resumed
    spared   \* what it could not reach

vars == <<halted, passed, life, swept, spared>>

Init ==
    /\ halted = FALSE
    /\ passed = {}
    /\ life = [o \in Order |-> IF o \in Resting THEN "working" ELSE "none"]
    /\ swept = FALSE /\ spared = {}

Passes(o) ==
    /\ ~halted
    /\ life[o] = "none"
    /\ passed' = passed \cup {o}
    /\ UNCHANGED <<halted, life, swept, spared>>

GivesUp(some) ==
    /\ passed' = passed \ some
    /\ UNCHANGED <<halted, life, swept, spared>>

Goes(o, from, to) ==
    /\ life[o] = from
    /\ life' = [life EXCEPT ![o] = to]
    /\ UNCHANGED <<halted, swept, spared>>

Sends(o) ==
    /\ o \in passed
    /\ Goes(o, "none", "sent")
    /\ passed' = passed \ {o}

(* The broker takes the order up, or it is gone with the script's client.  *)
Answered(o, to) == Goes(o, "sent", to) /\ UNCHANGED passed

Ends(o, to) == Goes(o, "working", to) /\ UNCHANGED passed

Halts ==
    /\ halted' = TRUE
    /\ UNCHANGED <<passed, life, swept, spared>>

Resumes ==
    /\ halted' = FALSE
    /\ swept' = FALSE /\ spared' = {}
    /\ UNCHANGED <<passed, life>>

Confirms ==
    /\ halted
    /\ \A o \in Order : life[o] # "working"
    /\ swept' = TRUE
    /\ spared' = passed \cup {o \in Order : life[o] = "sent"}
    /\ UNCHANGED <<halted, passed, life>>

Next ==
    \/ \E o \in Order : Passes(o) \/ Sends(o)
    \/ \E some \in SUBSET Order : GivesUp(some)
    \/ \E o \in Order, to \in {"working", "rejected", "dropped"} : Answered(o, to)
    \/ \E o \in Order, to \in {"filled", "cancelled"} : Ends(o, to)
    \/ Halts
    \/ Resumes
    \/ Confirms

Spec == Init /\ [][Next]_vars
=============================================================================
