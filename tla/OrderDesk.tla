----------------------------- MODULE OrderDesk -----------------------------
(***************************************************************************)
(* The order routes of FastAPI (scripts/api/server.py), the scripts they   *)
(* run beside each other, the trading halt flag, and the broker's book.    *)
(*                                                                         *)
(* A request is checked, takes a slot of the per-minute budget, waits for  *)
(* a subprocess slot and runs its script: ib_place_order.py transmits and  *)
(* polls for the broker's word, ib_order_manage.py cancels and polls,      *)
(* ib_cancel_all.py sweeps the whole book.  A replacement chains a what-if,*)
(* the cancels and a placement.  The broker acknowledges, fills and        *)
(* cancels in its own time; a script may time out, die or lose its         *)
(* connection at every step, and the whole service may be restarted.       *)
(***************************************************************************)
EXTENDS Naturals, FiniteSets

CONSTANTS
    Req,          \* requests that may ever arrive
    Resting,      \* orders that worked at the broker before all of them
    Kinds,        \* the kinds of request that arrive
    Cap,          \* MAX_CONCURRENT_SUBPROCESSES
    Reserved,     \* RESERVED_ORDER_SLOTS
    Interactive,  \* RESERVED_INTERACTIVE_SLOTS
    Budget,       \* RADON_MAX_ORDERS_PER_MIN
    AutoRestart,  \* direct mode: FastAPI restarts the Gateway itself
    LateBook,     \* the broker may take longer than 0.5 s to list the orders
    Stops         \* bound: restarts of the service

OrderKinds == {"place", "replace", "cancel", "kill", "sweep"}

ASSUME DeskAssumption ==
    /\ Kinds \subseteq OrderKinds \cup {"scan", "batch"}
    /\ Cap \in Nat \ {0} /\ Reserved \in Nat \ {0} /\ Interactive \in Nat
    /\ Budget \in Nat /\ Stops \in Nat /\ AutoRestart \in BOOLEAN /\ LateBook \in BOOLEAN
    /\ Req \cap Resting = {} /\ IsFiniteSet(Req)

VARIABLES
    flag,    \* data/trading_halt.json; "clear": absent, or resumed
    job,     \* each request and, while it runs, its script
    book,    \* each order at the broker
    stamps,  \* _order_rate_timestamps younger than a minute
    stops,   \* restarts so far
    sends,   \* history: how often each request's order was transmitted
    swept    \* history: what was in flight when a kill answered ok

vars == <<flag, job, book, stamps, stops, sends, swept>>

Orders == Req \cup Resting

(* A request that placed nothing is plainly refused or failed; "indet" is  *)
(* 504 ORDER_INDETERMINATE or REPLACE_INDETERMINATE, "partial" is          *)
(* REPLACE_PARTIAL, "cut" is a connection closed without an answer.        *)
Answers == {"none", "ok", "refused", "failed", "indet", "partial", "cut"}

Job == [kind: OrderKinds \cup {"scan", "batch"},
        pc: {"idle", "enter", "admit", "start", "ready", "polling", "done"},
        phase: {"whatif", "cancel", "place", "sweep", "scan"},
        todo: SUBSET Resting,    \* replace, cancel: targets not yet confirmed
        touched: SUBSET Resting, \* targets a cancel was sent for
        again: BOOLEAN,          \* the script is the one re-run allowed
        out: Answers]

NoSweep == [seen |-> FALSE, flying |-> {}]

TypeOK ==
    /\ flag \in {"clear", "halted", "damaged"}
    /\ job \in [Req -> Job]
    /\ book \in [Orders -> [st: {"none", "sent", "working", "filled", "cancelled",
                                 "rejected", "dropped"},
                            asked: BOOLEAN]]
    /\ stamps \in 0..Budget
    /\ stops \in 0..Stops
    /\ sends \in [Req -> 0..2]
    /\ swept \in [seen: BOOLEAN, flying: SUBSET Req]

Fresh == [kind |-> "place", pc |-> "idle", phase |-> "place", todo |-> {},
          touched |-> {}, again |-> FALSE, out |-> "none"]

Init ==
    /\ flag = "clear"
    /\ job = [r \in Req |-> Fresh]
    /\ book = [o \in Orders |-> [st |-> IF o \in Resting THEN "working" ELSE "none",
                                 asked |-> FALSE]]
    /\ stamps = 0 /\ stops = 0
    /\ sends = [r \in Req |-> 0]
    /\ swept = NoSweep

-----------------------------------------------------------------------------
(* trading_halt.is_trading_halted: a flag that cannot be read halts.       *)
Halted == flag \in {"halted", "damaged"}

Working(o) == book[o].st = "working"
Alive(o) == book[o].st \in {"sent", "working", "filled"}

(* Orders the broker holds but does not show yet, or will hold as soon as  *)
(* a script past its halt check transmits.                                 *)
Flying == {r \in Req : book[r].st = "sent"
                       \/ (job[r].phase = "place" /\ job[r].pc = "ready")}

Running(r) == job[r].pc \in {"start", "ready", "polling"}
Active == Cardinality({r \in Req : Running(r)})

AtMost1(n) == IF n < 1 THEN 1 ELSE n
OrderLane(r) == job[r].kind \in OrderKinds
Lane(r) ==
    CASE OrderLane(r)           -> Cap
      [] job[r].kind = "scan"   -> AtMost1(Cap - Reserved)
      [] job[r].kind = "batch"  -> AtMost1(AtMost1(Cap - Reserved) - Interactive)

-----------------------------------------------------------------------------
(* The routes.                                                             *)

Goto(r, pc) == job' = [job EXCEPT ![r].pc = pc]
Await(r, phase) ==
    job' = [job EXCEPT ![r].pc = "admit", ![r].phase = phase, ![r].again = FALSE]
Ended(r, out) ==
    [job[r] EXCEPT !.pc = "done", !.out = out, !.phase = "place", !.again = FALSE]
Answer(r, out) == job' = [job EXCEPT ![r] = Ended(r, out)]

Enters(kind) == kind \in {"place", "replace"}

(* The phases of a replacement, after its budget slot.                     *)
(* Mutated: the cancels go before the what-if.                             *)
CancelsFirst == [enter |-> "cancel", cancel |-> "whatif", whatif |-> "place"]
Follows == [enter |-> "whatif", whatif |-> "cancel", cancel |-> "place"]

FirstPhase(kind) ==
    CASE kind \in {"scan", "batch"} -> "scan"
      [] kind \in {"kill", "sweep"} -> "sweep"
      [] kind = "replace"           -> Follows.enter
      [] kind \in {"cancel", "place"} -> kind

New(kind, targets) ==
    [Fresh EXCEPT !.kind = kind, !.phase = FirstPhase(kind), !.todo = targets,
                  !.pc = IF Enters(kind) THEN "enter" ELSE "admit"]

(* The halt is looked at before the body is read; /trading/kill sets it    *)
(* before anything else.                                                   *)
Arrive(r, kind, targets) ==
    /\ job[r].pc = "idle"
    /\ kind \in Kinds
    /\ targets = {} <=> kind \notin {"replace", "cancel"}
    /\ kind = "cancel" => Cardinality(targets) = 1
    /\ IF Enters(kind) /\ Halted
       THEN job' = [job EXCEPT ![r] = [New(kind, targets) EXCEPT !.pc = "done",
                                                                 !.out = "refused"]]
       ELSE job' = [job EXCEPT ![r] = New(kind, targets)]
    /\ flag' = IF kind = "kill" THEN "halted" ELSE flag
    /\ UNCHANGED <<book, stamps, stops, sends, swept>>

(* Mutated: one placement too many is let through.                         *)
OneTooMany(r) ==
    /\ job[r].pc = "enter"
    /\ stamps <= Budget
    /\ stamps' = stamps + 1
    /\ Goto(r, "admit")
    /\ UNCHANGED <<flag, book, stops, sends, swept>>

(* The order's limits and the budget.  The replacement's slot is claimed   *)
(* here, before its what-if and its cancels.                               *)
Reserve(r) ==
    /\ job[r].pc = "enter"
    /\ stamps < Budget
    /\ stamps' = stamps + 1
    /\ Goto(r, "admit")
    /\ UNCHANGED <<flag, book, stops, sends, swept>>

Refuse(r) ==
    /\ job[r].pc = "enter"
    /\ Answer(r, "refused")
    /\ UNCHANGED <<flag, book, stamps, stops, sends, swept>>

MinutePasses ==
    /\ stamps > 0
    /\ stamps' = stamps - 1
    /\ UNCHANGED <<flag, job, book, stops, sends, swept>>

(* How a failure before the broker could act is answered.                  *)
Harmless(r) ==
    IF job[r].kind = "replace" /\ job[r].phase # "whatif" THEN "partial" ELSE "failed"

(* _acquire_subprocess_slot.                                               *)
Admit(r) ==
    /\ job[r].pc = "admit"
    /\ Active < Lane(r)
    /\ Goto(r, "start")
    /\ UNCHANGED <<flag, book, stamps, stops, sends, swept>>

(* No slot came free in the admission wait; or the failure cooldown, or    *)
(* the look at the Gateway before it, refused the script.                  *)
NotAdmitted(r) ==
    /\ job[r].pc = "admit"
    /\ job[r].phase \in {"sweep", "scan"} => Active >= Lane(r)
    /\ Answer(r, Harmless(r))
    /\ UNCHANGED <<flag, book, stamps, stops, sends, swept>>

ScanEnds(r) ==
    /\ job[r].phase = "scan" /\ job[r].pc = "start"
    /\ Answer(r, "ok")
    /\ UNCHANGED <<flag, book, stamps, stops, sends, swept>>

(* The what-if of a replacement, and the halt read again behind it.        *)
WhatIf(r) ==
    /\ job[r].phase = "whatif" /\ job[r].pc = "start"
    /\ IF Halted THEN Answer(r, "refused") ELSE Await(r, Follows.whatif)
    /\ UNCHANGED <<flag, book, stamps, stops, sends, swept>>

WhatIfFails(r) ==
    /\ job[r].phase = "whatif" /\ job[r].pc = "start"
    /\ Answer(r, "failed")
    /\ UNCHANGED <<flag, book, stamps, stops, sends, swept>>

-----------------------------------------------------------------------------
(* ib_place_order.py.                                                      *)

Placing(r, pc) == job[r].phase = "place" /\ job[r].pc = pc

(* Mutated: the script trusts the route's look at the flag.                *)
NoSecondLook(r) == Goto(r, "ready")
SecondLook(r) == IF Halted THEN Answer(r, Harmless(r)) ELSE Goto(r, "ready")

CheckHalt(r) ==
    /\ Placing(r, "start")
    /\ SecondLook(r)
    /\ UNCHANGED <<flag, book, stamps, stops, sends, swept>>

(* Connecting or qualifying the contract fails.                            *)
NothingSent(r) ==
    /\ Placing(r, "ready")
    /\ Answer(r, Harmless(r))
    /\ UNCHANGED <<flag, book, stamps, stops, sends, swept>>

Transmit(r) ==
    /\ Placing(r, "ready")
    /\ Goto(r, "polling")
    /\ book' = [book EXCEPT ![r].st = "sent"]
    /\ sends' = [sends EXCEPT ![r] = @ + 1]
    /\ UNCHANGED <<flag, stamps, stops, swept>>

Placed(r) ==
    /\ Placing(r, "polling")
    /\ book[r].st \in {"working", "filled"}
    /\ Answer(r, "ok")
    /\ UNCHANGED <<flag, book, stamps, stops, sends, swept>>

(* The broker dropped an unacknowledged order with its client, or not.     *)
Hangup(r) ==
    \/ UNCHANGED book
    \/ /\ book[r].st = "sent"
       /\ book' = [book EXCEPT ![r].st = "dropped"]

(* The script answers an error: a terminal status, any error event the     *)
(* broker sent meanwhile, no acknowledgement before the deadline, or a     *)
(* lost connection, which it flags "indeterminate": the route does not     *)
(* look at that flag.  An order still unacknowledged after the deadline    *)
(* is dropped by the disconnect (ib_place_order.py:576).                   *)
ScriptSaysNo(r) ==
    /\ Placing(r, "polling")
    /\ Answer(r, Harmless(r))
    /\ Hangup(r)
    /\ UNCHANGED <<flag, stamps, stops, sends, swept>>

-----------------------------------------------------------------------------
(* ib_order_manage.py cancel, for one of the targets left.                 *)

Cancelling(r, pc) == job[r].phase = "cancel" /\ job[r].pc = pc
Target(r) == CHOOSE t \in job[r].todo : TRUE

AskCancel(r) ==
    /\ Cancelling(r, "start")
    /\ Working(Target(r))
    /\ book' = [book EXCEPT ![Target(r)].asked = TRUE]
    /\ job' = [job EXCEPT ![r].pc = "polling", ![r].touched = @ \cup {Target(r)}]
    /\ UNCHANGED <<flag, stamps, stops, sends, swept>>

(* The target counts as cancelled: on to the next, or to the placement.    *)
Confirm(r) ==
    LET rest == job[r].todo \ {Target(r)}
    IN  job' = [job EXCEPT
           ![r].todo = rest, ![r].again = FALSE,
           ![r].phase = IF job[r].kind = "replace" /\ rest = {} THEN Follows.cancel ELSE @,
           ![r].pc = IF job[r].kind = "replace" THEN "admit" ELSE "done",
           ![r].out = IF job[r].kind = "replace" THEN @ ELSE "ok"]

(* Mutated: a cancel that was sent counts as done.                         *)
GoneOnceAsked(o) == book[o].asked
(* The order is no longer among the open ones: cancelled, or filled.       *)
Gone(o) == ~Working(o)

CancelConfirmed(r) ==
    /\ Cancelling(r, "polling")
    /\ Gone(Target(r))
    /\ Confirm(r)
    /\ UNCHANGED <<flag, book, stamps, stops, sends, swept>>

(* "already cancelled" counts, unless the stored snapshot of the orders    *)
(* says the target works or was filled in part; the snapshot may be old.   *)
AlreadyCancelled(r) ==
    /\ Cancelling(r, "start")
    /\ job[r].kind = "replace"
    /\ book[Target(r)].st = "cancelled"
    /\ Confirm(r)
    /\ UNCHANGED <<flag, book, stamps, stops, sends, swept>>

(* Not found, not confirmed in time, refused by the broker, or timed out.  *)
CancelFails(r) ==
    /\ \/ Cancelling(r, "polling")
       \/ Cancelling(r, "start")
    /\ Answer(r, Harmless(r))
    /\ UNCHANGED <<flag, book, stamps, stops, sends, swept>>

-----------------------------------------------------------------------------
(* ib_cancel_all.py.                                                       *)

Sweeping(r, pc) == job[r].phase = "sweep" /\ job[r].pc = pc
OpenOrders == {o \in Orders : Working(o)}

SweepDone(r) ==
    /\ Answer(r, "ok")
    /\ swept' = IF job[r].kind = "kill" /\ Halted
                THEN [seen |-> TRUE, flying |-> Flying] ELSE swept

(* get_open_orders waits half a second for the list and then takes what    *)
(* has come; nothing listed is nothing to cancel.                          *)
Sweep(r) ==
    /\ Sweeping(r, "start")
    /\ \/ /\ OpenOrders = {} \/ LateBook
          /\ SweepDone(r)
          /\ UNCHANGED book
       \/ /\ OpenOrders # {}
          /\ book' = [o \in Orders |-> IF o \in OpenOrders
                                      THEN [book[o] EXCEPT !.asked = TRUE] ELSE book[o]]
          /\ Goto(r, "polling")
          /\ UNCHANGED swept
    /\ UNCHANGED <<flag, stamps, stops, sends>>

Drained == OpenOrders = {}

DrainSeen(r) ==
    /\ Sweeping(r, "polling")
    /\ Drained
    /\ SweepDone(r)
    /\ UNCHANGED <<flag, book, stamps, stops, sends>>

SweepFails(r) ==
    /\ \/ Sweeping(r, "start")
       \/ Sweeping(r, "polling")
    /\ Answer(r, "failed")
    /\ UNCHANGED <<flag, book, stamps, stops, sends, swept>>

-----------------------------------------------------------------------------
(* What ends a script early.                                               *)

(* _is_indeterminate_place_failure: "timed out", "not automatically        *)
(* retried"; the second is the text after a Gateway restart.               *)
Markers == {"timed out", "restarted"}

Verdict(r, text) ==
    IF job[r].phase = "place" /\ text \in Markers THEN "indet" ELSE Harmless(r)

(* The subprocess timeout of a placement kills the script.                 *)
TimesOut(r) ==
    /\ job[r].phase = "place" /\ Running(r)
    /\ Answer(r, Verdict(r, "timed out"))
    /\ Hangup(r)
    /\ UNCHANGED <<flag, stamps, stops, sends, swept>>

(* A script dies with a signal or a traceback: a plain failure.            *)
Dies(r) ==
    /\ job[r].phase = "place" /\ Running(r)
    /\ Answer(r, Harmless(r))
    /\ Hangup(r)
    /\ UNCHANGED <<flag, stamps, stops, sends, swept>>

(* Mutated: every script is run again.                                     *)
AnyScript == {"whatif", "cancel", "place"}
(* The scripts outside _NON_IDEMPOTENT_IB_SCRIPTS.  The what-if runs the   *)
(* placement script, so it is not repeated either.                         *)
Repeatable == {"cancel"}

(* The script reports a connection error and, in direct mode, the Gateway  *)
(* is restarted behind it.                                                 *)
Recovers(r) ==
    /\ AutoRestart /\ Running(r) /\ ~job[r].again
    /\ job[r].phase \in {"whatif", "cancel", "place"}
    /\ IF job[r].phase \in Repeatable
       THEN job' = [job EXCEPT ![r].pc = "admit", ![r].again = TRUE]
       ELSE Answer(r, Verdict(r, "restarted"))
    /\ Hangup(r)
    /\ UNCHANGED <<flag, stamps, stops, sends, swept>>

(* The unit is restarted with all the scripts in its control group.        *)
ServiceStops ==
    /\ stops < Stops
    /\ \E r \in Req : job[r].pc \notin {"idle", "done"}
    /\ stops' = stops + 1
    /\ stamps' = 0
    /\ job' = [r \in Req |-> IF job[r].pc \in {"idle", "done"} THEN job[r]
                             ELSE Ended(r, "cut")]
    /\ UNCHANGED <<flag, book, sends, swept>>

-----------------------------------------------------------------------------
(* The operator, the disk and the broker.                                  *)

Halt ==
    /\ flag' = "halted"
    /\ UNCHANGED <<job, book, stamps, stops, sends, swept>>

Resume ==
    /\ flag # "clear"
    /\ flag' = "clear"
    /\ swept' = NoSweep
    /\ UNCHANGED <<job, book, stamps, stops, sends>>

FlagDamaged ==
    /\ flag' = "damaged"
    /\ UNCHANGED <<job, book, stamps, stops, sends, swept>>

Broker(o) ==
    /\ \/ /\ book[o].st = "sent"
          /\ \E st \in {"working", "rejected"} : book' = [book EXCEPT ![o].st = st]
       \/ /\ Working(o)
          /\ book' = [book EXCEPT ![o].st = "filled"]
       \/ /\ Working(o) /\ book[o].asked
          /\ book' = [book EXCEPT ![o].st = "cancelled"]
    /\ UNCHANGED <<flag, job, stamps, stops, sends, swept>>

Handle(r) ==
    \/ Reserve(r)
    \/ Refuse(r)
    \/ Admit(r)
    \/ NotAdmitted(r)
    \/ ScanEnds(r)
    \/ WhatIf(r)
    \/ WhatIfFails(r)
    \/ CheckHalt(r)
    \/ NothingSent(r)
    \/ Transmit(r)
    \/ Placed(r)
    \/ ScriptSaysNo(r)
    \/ AskCancel(r)
    \/ CancelConfirmed(r)
    \/ AlreadyCancelled(r)
    \/ CancelFails(r)
    \/ Sweep(r)
    \/ DrainSeen(r)
    \/ SweepFails(r)
    \/ TimesOut(r)
    \/ Dies(r)
    \/ Recovers(r)

Next ==
    \/ \E r \in Req, kind \in Kinds, targets \in SUBSET Resting : Arrive(r, kind, targets)
    \/ \E r \in Req : Handle(r)
    \/ \E o \in Orders : Broker(o)
    \/ MinutePasses
    \/ ServiceStops
    \/ Halt
    \/ Resume
    \/ FlagDamaged

Spec == Init /\ [][Next]_vars

-----------------------------------------------------------------------------
(* Properties.                                                             *)

(* Once a kill has answered ok and until somebody resumes, an order works  *)
(* at the broker only if it was already on its way when the sweep saw an   *)
(* empty book: no later placement, replacement or damage to the flag adds  *)
(* one, and the sweep left none (server.py:3473, trading_halt.py:17).      *)
KillSweeps ==
    swept.seen => \A o \in Orders : Working(o) => o \in swept.flying

(* A replacement that ends in a plain refusal or failure has not touched   *)
(* the orders it was to replace: whatever can refuse it without telling    *)
(* about a half-done replacement comes before the first cancel             *)
(* (server.py:3129, 3204).                                                 *)
PlainReplaceIsUntouched ==
    \A r \in Req : job[r].kind = "replace" /\ job[r].out \in {"refused", "failed"}
        => job[r].touched = {} /\ sends[r] = 0

(* A replacement is never sent while an order it replaces still works: two *)
(* full-size orders for one position (server.py:3178).                     *)
ReplacementComesAfter ==
    \A r \in Req : job[r].kind = "replace" /\ sends[r] > 0
        => job[r].todo = {} /\ \A t \in job[r].touched : ~Working(t)

(* Requests, scripts, lanes, retries and restarts add up to a switch: what *)
(* goes out has passed the flag in its last look, once, and a confirmed    *)
(* kill tells what it could not reach (trading_halt.py:1-20,               *)
(* server.py:3419-3459).                                                   *)
Switch == INSTANCE TradingHalt
            WITH Order <- Orders,
                 halted <- Halted,
                 passed <- {r \in Req : Placing(r, "ready")},
                 life <- [o \in Orders |-> book[o].st],
                 swept <- swept.seen,
                 spared <- swept.flying

SwitchHolds == Switch!Spec

(* One request transmits one order: neither a time-out nor the restart of  *)
(* the Gateway sends it a second time (server.py:5543, T-011).             *)
SentOnce == \A r \in Req : sends[r] <= 1
=============================================================================
