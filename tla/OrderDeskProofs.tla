--------------------------- MODULE OrderDeskProofs ---------------------------
(***************************************************************************)
(* Proofs about the order desk, for any requests, orders, lanes and        *)
(* budget.                                                                 *)
(***************************************************************************)
EXTENDS OrderDesk, TLAPS

(* A request and its script: a script that has sent is polling or over, a  *)
(* replacement passes its what-if before it touches anything, and answers  *)
(* plainly only until then.                                                *)
Sane(j, n) ==
    /\ n <= 1
    /\ n = 1 => j.pc = "done" \/ (j.phase = "place" /\ j.pc = "polling")
    /\ j.out \in {"refused", "failed"} => j.pc = "done"
    /\ j.phase \in {"whatif", "cancel"} /\ j.pc # "done" => j.todo # {}
    /\ j.phase = "place" /\ j.pc = "polling" => n = 1
    /\ j.kind = "place" => j.phase = "place" /\ (j.out = "ok" => n = 1)
    /\ j.kind = "replace" =>
        /\ j.phase \in {"whatif", "cancel", "place"}
        /\ j.pc = "enter" => j.phase = "whatif"
        /\ j.phase = "whatif" => j.touched = {} /\ n = 0
        /\ j.out \in {"refused", "failed"} => j.touched = {} /\ n = 0
        /\ j.phase = "place" /\ j.pc # "done" => j.todo = {}
        /\ n = 1 => j.todo = {}

JobsSane == \A r \in Req : Sane(job[r], sends[r])

(* An order that worked beforehand is never in flight, and one that a      *)
(* replacement has confirmed works no more.                                *)
RestingShown == \A o \in Resting : book[o].st # "sent"
ConfirmedGone ==
    \A r \in Req : job[r].kind = "replace" =>
        \A t \in job[r].touched \ job[r].todo : ~Working(t)

IInv == TypeOK /\ JobsSane /\ RestingShown /\ ConfirmedGone

-----------------------------------------------------------------------------
(* Every step that changes one request and at most its own order.          *)

Entry == [st: {"none", "sent", "working", "filled", "cancelled", "rejected", "dropped"},
          asked: BOOLEAN]

LEMMA OneJob ==
  ASSUME IInv, NEW r \in Req, NEW j \in Job, job' = [job EXCEPT ![r] = j],
         sends' = sends, Sane(j, sends[r]),
         j.kind = "replace" => \A t \in j.touched \ j.todo : ~Working(t),
         book' \in [Orders -> Entry],
         \A o \in Resting : book'[o].st = "working" => book[o].st = "working",
         \A o \in Resting : book'[o].st # "sent",
         flag' \in {"clear", "halted", "damaged"}, stamps' \in 0..Budget,
         stops' = stops, swept' \in [seen: BOOLEAN, flying: SUBSET Req]
  PROVE  IInv'
<1>1. /\ job' \in [Req -> Job]
      /\ \A q \in Req : job'[q] = IF q = r THEN j ELSE job[q]
  BY DEF IInv, TypeOK
<1>2. TypeOK'
  BY <1>1 DEF IInv, TypeOK, Entry
<1>3. JobsSane'
  BY <1>1 DEF IInv, JobsSane
<1>4. RestingShown'
  BY DEF RestingShown
<1>5. ConfirmedGone'
  <2> SUFFICES ASSUME NEW q \in Req, job'[q].kind = "replace",
                      NEW t \in job'[q].touched \ job'[q].todo
               PROVE  book'[t].st # "working"
    BY DEF ConfirmedGone, Working
  <2>1. t \in Resting
    BY <1>1 DEF Job
  <2>2. ~Working(t)
    BY <1>1 DEF IInv, ConfirmedGone
  <2> QED
    BY <2>1, <2>2 DEF Working
<1> QED
  BY <1>2, <1>3, <1>4, <1>5 DEF IInv

LEMMA SameBook ==
  ASSUME IInv
  PROVE  /\ book \in [Orders -> Entry]
         /\ \A o \in Resting : book[o].st # "sent"
         /\ flag \in {"clear", "halted", "damaged"} /\ stamps \in 0..Budget
         /\ swept \in [seen: BOOLEAN, flying: SUBSET Req]
         /\ \A q \in Req :
               /\ job[q] \in Job
               /\ sends[q] \in Nat
               /\ Sane(job[q], sends[q])
               /\ job[q].kind = "replace" =>
                    \A t \in job[q].touched \ job[q].todo : ~Working(t)
BY DEF IInv, TypeOK, RestingShown, JobsSane, ConfirmedGone, Entry

LEMMA OneJobOnly ==
  ASSUME IInv, NEW r \in Req, NEW j \in Job, job' = [job EXCEPT ![r] = j],
         UNCHANGED <<book, sends, stops, swept>>, Sane(j, sends[r]),
         j.kind = "replace" => \A t \in j.touched \ j.todo : ~Working(t),
         flag' \in {"clear", "halted", "damaged"}, stamps' \in 0..Budget
  PROVE  IInv'
BY SameBook, OneJob, Zenon

(* A script that dies takes no order with it but its own.                  *)
LEMMA HangupBook ==
  ASSUME IInv, NEW r \in Req, Hangup(r)
  PROVE  /\ book' \in [Orders -> Entry]
         /\ \A o \in Resting : book'[o] = book[o]
         /\ \A o \in Orders : Working(o)' => Working(o)
         /\ \A q \in Req : book'[q].st = "sent" => book[q].st = "sent"
<1>1. CASE UNCHANGED book
  BY <1>1, SameBook DEF Working
<1>2. CASE book' = [book EXCEPT ![r].st = "dropped"]
  BY <1>2, SameBook, DeskAssumption DEF Working, Entry, Orders
<1> QED
  BY <1>1, <1>2 DEF Hangup

LEMMA Went ==
  ASSUME IInv, NEW r \in Req, NEW pc \in {"admit", "start", "ready", "polling"},
         Goto(r, pc), UNCHANGED <<book, sends, stops, swept>>,
         flag' \in {"clear", "halted", "damaged"}, stamps' \in 0..Budget,
         job[r].pc \in {"enter", "admit", "start"}, pc # "polling"
  PROVE  IInv'
<1> DEFINE j == [job[r] EXCEPT !.pc = pc]
<1>1. job[r] \in Job /\ sends[r] \in Nat /\ Sane(job[r], sends[r])
      /\ (job[r].kind = "replace" => \A t \in job[r].touched \ job[r].todo : ~Working(t))
  BY SameBook, Zenon
<1>2. /\ j \in Job /\ j.kind = job[r].kind /\ j.phase = job[r].phase /\ j.pc = pc
      /\ j.todo = job[r].todo /\ j.touched = job[r].touched /\ j.out = job[r].out
  BY <1>1 DEF Job
<1>3. job' = [job EXCEPT ![r] = j]
  BY DEF Goto
<1> HIDE DEF j
<1>4. Sane(j, sends[r])
  BY <1>1, <1>2 DEF Sane
<1> QED
  BY <1>1, <1>2, <1>3, <1>4, OneJobOnly

LEMMA Answered ==
  ASSUME IInv, NEW r \in Req, NEW out \in Answers,
         Answer(r, out), UNCHANGED <<flag, sends, stamps, stops>>,
         job[r].kind = "replace" /\ out \in {"refused", "failed"} => job[r].phase = "whatif",
         job[r].kind = "place" /\ out = "ok" => sends[r] = 1,
         swept' \in [seen: BOOLEAN, flying: SUBSET Req],
         book' \in [Orders -> Entry], \A o \in Resting : book'[o] = book[o]
  PROVE  IInv'
<1> DEFINE j == Ended(r, out)
<1>1. job[r] \in Job /\ sends[r] \in Nat /\ Sane(job[r], sends[r])
      /\ (job[r].kind = "replace" => \A t \in job[r].touched \ job[r].todo : ~Working(t))
  BY SameBook, Zenon
<1>2. /\ j \in Job /\ j.kind = job[r].kind /\ j.phase = "place" /\ j.pc = "done"
      /\ j.todo = job[r].todo /\ j.touched = job[r].touched /\ j.out = out
  BY <1>1 DEF Job, Ended
<1>3. job' = [job EXCEPT ![r] = j]
  BY DEF Answer
<1> HIDE DEF j
<1>4. Sane(j, sends[r])
  BY <1>1, <1>2 DEF Sane
<1>5. /\ flag' \in {"clear", "halted", "damaged"} /\ stamps' \in 0..Budget
      /\ \A o \in Resting : book'[o].st = "working" => book[o].st = "working"
      /\ \A o \in Resting : book'[o].st # "sent"
  BY SameBook
<1> QED
  BY <1>1, <1>2, <1>3, <1>4, <1>5, OneJob

-----------------------------------------------------------------------------
(* One step per action.                                                    *)

LEMMA Initially == Init => IInv
<1> SUFFICES ASSUME Init PROVE IInv
  OBVIOUS
<1>1. Fresh \in Job
  BY DEF Fresh, Job, OrderKinds, Answers
<1>2. TypeOK
  BY <1>1, DeskAssumption DEF Init, TypeOK, NoSweep
<1>3. JobsSane
  BY DEF Init, JobsSane, Sane, Fresh
<1>4. RestingShown /\ ConfirmedGone
  BY DEF Init, RestingShown, ConfirmedGone, Fresh, Orders
<1> QED
  BY <1>2, <1>3, <1>4 DEF IInv

LEMMA Arrives ==
  ASSUME IInv, NEW r \in Req, NEW kind \in Kinds, NEW targets \in SUBSET Resting,
         Arrive(r, kind, targets)
  PROVE  IInv'
<1> DEFINE n == New(kind, targets)
           m == [n EXCEPT !.pc = "done", !.out = "refused"]
<1>1. kind \in OrderKinds \cup {"scan", "batch"}
  BY DeskAssumption
<1>2. FirstPhase(kind) \in {"whatif", "cancel", "place", "sweep", "scan"}
      /\ (kind = "replace" => FirstPhase(kind) = "whatif")
      /\ (kind = "place" => FirstPhase(kind) = "place")
      /\ (FirstPhase(kind) \in {"whatif", "cancel"} => targets # {})
  BY <1>1 DEF FirstPhase, Follows, OrderKinds, Arrive
<1>3. /\ n \in Job /\ n.kind = kind /\ n.phase = FirstPhase(kind) /\ n.touched = {}
      /\ n.todo = targets
      /\ n.pc \in {"enter", "admit"} /\ n.out = "none"
  BY <1>1, <1>2 DEF New, Fresh, Job, Answers
<1>4. /\ m \in Job /\ m.kind = kind /\ m.phase = FirstPhase(kind) /\ m.touched = {}
      /\ m.pc = "done" /\ m.out = "refused"
  BY <1>3 DEF Job, Answers
<1>5. sends[r] = 0
  BY SameBook DEF Arrive, Sane
<1>6. job' = [job EXCEPT ![r] = n] \/ job' = [job EXCEPT ![r] = m]
  BY DEF Arrive
<1>7. /\ UNCHANGED <<book, sends, stops, swept>> /\ stamps' \in 0..Budget
      /\ flag' \in {"clear", "halted", "damaged"}
  BY SameBook DEF Arrive
<1> HIDE DEF n, m
<1>8. Sane(n, sends[r]) /\ Sane(m, sends[r])
  BY <1>2, <1>3, <1>4, <1>5 DEF Sane
<1> QED
  BY <1>3, <1>4, <1>6, <1>7, <1>8, OneJobOnly

(* Reserving, refusing, waiting for a slot, and the scripts that send      *)
(* nothing.                                                                *)
LEMMA Waits ==
  ASSUME IInv, NEW r \in Req,
         Reserve(r) \/ Refuse(r) \/ Admit(r) \/ NotAdmitted(r) \/ ScanEnds(r)
  PROVE  IInv'
<1> USE SameBook
<1>1. CASE Reserve(r)
  BY <1>1, Went, DeskAssumption DEF Reserve
<1>2. CASE Refuse(r)
  BY <1>2, Answered DEF Refuse, Sane, Answers
<1>3. CASE Admit(r)
  BY <1>3, Went DEF Admit
<1>4. CASE NotAdmitted(r)
  BY <1>4, Answered DEF NotAdmitted, Harmless, Answers
<1>5. CASE ScanEnds(r)
  BY <1>5, Answered DEF ScanEnds, Answers, Sane
<1> QED
  BY <1>1, <1>2, <1>3, <1>4, <1>5

LEMMA WhatIfs ==
  ASSUME IInv, NEW r \in Req, WhatIf(r) \/ WhatIfFails(r)
  PROVE  IInv'
<1> USE SameBook
<1>1. CASE WhatIfFails(r)
  BY <1>1, Answered DEF WhatIfFails, Answers
<1>2. CASE WhatIf(r) /\ Halted
  BY <1>2, Answered DEF WhatIf, Answers
<1>3. CASE WhatIf(r) /\ ~Halted
  <2> DEFINE j == [job[r] EXCEPT !.pc = "admit", !.phase = "cancel", !.again = FALSE]
  <2>1. /\ j \in Job /\ j.kind = job[r].kind /\ j.phase = "cancel" /\ j.pc = "admit"
        /\ j.todo = job[r].todo /\ j.touched = job[r].touched /\ j.out = job[r].out
    BY DEF Job
  <2>2. job' = [job EXCEPT ![r] = j]
    BY <1>3 DEF WhatIf, Await, Follows
  <2>3. /\ UNCHANGED <<book, sends, stops, swept>> /\ stamps' \in 0..Budget
        /\ flag' \in {"clear", "halted", "damaged"}
    BY <1>3 DEF WhatIf
  <2>4. Sane(j, sends[r])
    <3> HIDE DEF j
    <3> QED
      BY <1>3, <2>1 DEF WhatIf, Sane
  <2> HIDE DEF j
  <2> QED
    BY <2>1, <2>2, <2>3, <2>4, OneJobOnly
<1> QED
  BY <1>1, <1>2, <1>3

(* The placement script up to the order, and after it.                     *)
LEMMA Sends ==
  ASSUME IInv, NEW r \in Req, Transmit(r)
  PROVE  IInv'
<1> DEFINE j == [job[r] EXCEPT !.pc = "polling"]
<1>1. /\ job[r].phase = "place" /\ job[r].pc = "ready"
      /\ job' = [job EXCEPT ![r] = j] /\ book' = [book EXCEPT ![r].st = "sent"]
      /\ sends' = [sends EXCEPT ![r] = sends[r] + 1]
      /\ UNCHANGED <<flag, stamps, stops, swept>>
  BY DEF Transmit, Placing, Goto
<1>2. job[r] \in Job /\ Sane(job[r], sends[r]) /\ sends[r] = 0
  BY <1>1, SameBook DEF Sane
<1>3. /\ j \in Job /\ j.kind = job[r].kind /\ j.phase = "place" /\ j.pc = "polling"
      /\ j.todo = job[r].todo /\ j.touched = job[r].touched /\ j.out = job[r].out
  BY <1>1, <1>2 DEF Job
<1> HIDE DEF j
<1>4. /\ job' \in [Req -> Job] /\ sends' \in [Req -> 0..2]
      /\ \A q \in Req : job'[q] = IF q = r THEN j ELSE job[q]
      /\ \A q \in Req : sends'[q] = IF q = r THEN 1 ELSE sends[q]
  BY <1>1, <1>2, <1>3 DEF IInv, TypeOK
<1>5. /\ book' \in [Orders -> Entry]
      /\ \A o \in Resting : book'[o] = book[o]
  BY <1>1, SameBook, DeskAssumption DEF Entry, Orders
<1>6. Sane(j, 1)
  BY <1>1, <1>2, <1>3 DEF Sane
<1>7. TypeOK'
  BY <1>1, <1>4, <1>5 DEF IInv, TypeOK, Entry
<1>8. JobsSane' /\ RestingShown'
  BY <1>4, <1>5, <1>6, SameBook DEF JobsSane, RestingShown
<1>9. ConfirmedGone'
  <2> SUFFICES ASSUME NEW q \in Req, job'[q].kind = "replace",
                      NEW t \in job'[q].touched \ job'[q].todo
               PROVE  book'[t].st # "working"
    BY DEF ConfirmedGone, Working
  <2>1. t \in Resting /\ job[q].kind = "replace" /\ t \in job[q].touched \ job[q].todo
    BY <1>3, <1>4 DEF Job
  <2> QED
    BY <1>5, <2>1, SameBook DEF Working
<1> QED
  BY <1>7, <1>8, <1>9 DEF IInv

LEMMA Places ==
  ASSUME IInv, NEW r \in Req,
         CheckHalt(r) \/ NothingSent(r) \/ Transmit(r) \/ Placed(r) \/ ScriptSaysNo(r)
  PROVE  IInv'
<1> USE SameBook DEF Harmless, Answers
<1>1. CASE CheckHalt(r) /\ Halted
  BY <1>1, Answered DEF CheckHalt, Placing, SecondLook
<1>2. CASE CheckHalt(r) /\ ~Halted
  BY <1>2, Went DEF CheckHalt, Placing, SecondLook
<1>3. CASE NothingSent(r)
  BY <1>3, Answered DEF NothingSent, Placing
<1>4. CASE Transmit(r)
  BY <1>4, Sends
<1>5. CASE Placed(r)
  BY <1>5, Answered DEF Placed, Placing, Sane
<1>6. CASE ScriptSaysNo(r)
  BY <1>6, Answered, HangupBook DEF ScriptSaysNo, Placing
<1> QED
  BY <1>1, <1>2, <1>3, <1>4, <1>5, <1>6

LEMMA EndsEarly ==
  ASSUME IInv, NEW r \in Req, TimesOut(r) \/ Dies(r)
  PROVE  IInv'
<1> USE SameBook, HangupBook DEF Harmless, Answers
<1>1. CASE TimesOut(r)
  BY <1>1, Answered DEF TimesOut, Verdict
<1>2. CASE Dies(r)
  BY <1>2, Answered DEF Dies
<1> QED
  BY <1>1, <1>2

(* A cancel touches its target; what is confirmed works no more.           *)
LEMMA Asks ==
  ASSUME IInv, NEW r \in Req, AskCancel(r)
  PROVE  IInv'
<1> DEFINE t == Target(r)
           j == [job[r] EXCEPT !.pc = "polling", !.touched = job[r].touched \cup {t}]
<1>1. job[r] \in Job /\ sends[r] \in Nat /\ Sane(job[r], sends[r])
      /\ (job[r].kind = "replace" => \A o \in job[r].touched \ job[r].todo : ~Working(o))
  BY SameBook, Zenon
<1>2. /\ job[r].phase = "cancel" /\ job[r].pc = "start"
      /\ job' = [job EXCEPT ![r] = j] /\ book' = [book EXCEPT ![t].asked = TRUE]
      /\ UNCHANGED <<flag, stamps, stops, sends, swept>>
  BY DEF AskCancel, Cancelling
<1>3. t \in job[r].todo /\ t \in Resting
  BY <1>1, <1>2 DEF Sane, Target, Job
<1>4. /\ j \in Job /\ j.kind = job[r].kind /\ j.phase = "cancel" /\ j.pc = "polling"
      /\ j.todo = job[r].todo /\ j.touched = job[r].touched \cup {t} /\ j.out = job[r].out
  BY <1>1, <1>2, <1>3 DEF Job
<1> HIDE DEF j, t
<1>5. Sane(j, sends[r])
  BY <1>1, <1>2, <1>4 DEF Sane
<1>6. j.kind = "replace" => \A o \in j.touched \ j.todo : ~Working(o)
  BY <1>1, <1>3, <1>4
<1>7. /\ book' \in [Orders -> Entry] 
      /\ \A o \in Orders : book'[o].st = book[o].st
  BY <1>2, <1>3, SameBook DEF Entry, Orders
<1>8. /\ \A o \in Resting : book'[o].st = "working" => book[o].st = "working"
      /\ \A o \in Resting : book'[o].st # "sent"
      /\ flag' \in {"clear", "halted", "damaged"} /\ stamps' \in 0..Budget
      /\ stops' = stops /\ sends' = sends /\ swept' \in [seen: BOOLEAN, flying: SUBSET Req]
  BY <1>2, <1>7, SameBook DEF Orders
<1> QED
  BY <1>2, <1>4, <1>5, <1>6, <1>7, <1>8, OneJob

LEMMA Confirms ==
  ASSUME IInv, NEW r \in Req, CancelConfirmed(r) \/ AlreadyCancelled(r)
  PROVE  IInv'
<1> DEFINE t == Target(r)
           rest == job[r].todo \ {t}
           phase == IF job[r].kind = "replace" /\ rest = {} THEN "place" ELSE "cancel"
           pc == IF job[r].kind = "replace" THEN "admit" ELSE "done"
           out == IF job[r].kind = "replace" THEN job[r].out ELSE "ok"
           j == [job[r] EXCEPT !.todo = rest, !.again = FALSE, !.phase = phase,
                               !.pc = pc, !.out = out]
<1>1. job[r] \in Job /\ sends[r] \in Nat /\ Sane(job[r], sends[r])
      /\ (job[r].kind = "replace" => \A o \in job[r].touched \ job[r].todo : ~Working(o))
  BY SameBook, Zenon
<1>2. /\ job[r].phase = "cancel" /\ job[r].pc \in {"start", "polling"} /\ Confirm(r)
      /\ ~Working(t)
      /\ UNCHANGED <<flag, book, stamps, stops, sends, swept>>
  BY DEF CancelConfirmed, AlreadyCancelled, Cancelling, Gone, Working
<1>3. job' = [job EXCEPT ![r] = j]
  BY <1>1, <1>2 DEF Confirm, Follows
<1>4. /\ phase \in {"cancel", "place"} /\ pc \in {"admit", "done"} /\ out \in Answers
      /\ rest \in SUBSET Resting
  BY <1>1 DEF Job, Answers
<1>5. /\ job[r].kind = "replace" => phase = IF rest = {} THEN "place" ELSE "cancel"
      /\ job[r].kind # "replace" => phase = "cancel" /\ pc = "done" /\ out = "ok"
      /\ job[r].kind = "replace" => pc = "admit" /\ out = job[r].out
      /\ rest \subseteq job[r].todo /\ job[r].todo \ rest \subseteq {t}
  OBVIOUS
<1> HIDE DEF phase, pc, out, rest
<1>6. /\ j \in Job /\ j.kind = job[r].kind /\ j.todo = rest
      /\ j.touched = job[r].touched
      /\ j.phase = phase /\ j.pc = pc /\ j.out = out
  BY <1>1, <1>4 DEF Job
<1> HIDE DEF j
<1>7. Sane(j, sends[r])
  BY <1>1, <1>2, <1>5, <1>6 DEF Sane
<1>8. j.kind = "replace" => \A o \in j.touched \ j.todo : ~Working(o)
  BY <1>1, <1>2, <1>5, <1>6
<1>9. /\ UNCHANGED <<book, sends, stops, swept>> /\ stamps' \in 0..Budget
      /\ flag' \in {"clear", "halted", "damaged"}
  BY <1>2, SameBook
<1> QED
  BY <1>3, <1>6, <1>7, <1>8, <1>9, OneJobOnly

LEMMA Cancels ==
  ASSUME IInv, NEW r \in Req,
         AskCancel(r) \/ CancelConfirmed(r) \/ AlreadyCancelled(r) \/ CancelFails(r)
  PROVE  IInv'
<1>1. CASE CancelFails(r)
  BY <1>1, SameBook, Answered DEF CancelFails, Cancelling, Harmless, Answers
<1> QED
  BY <1>1, Asks, Confirms

(* The sweep of the whole book.                                            *)
LEMMA Sweeps ==
  ASSUME IInv, NEW r \in Req, Sweep(r) \/ DrainSeen(r) \/ SweepFails(r)
  PROVE  IInv'
<1> USE SameBook
<1>1. job[r].phase = "sweep" /\ job[r].kind \notin {"replace", "place"}
  BY DEF Sweep, DrainSeen, SweepFails, Sweeping, Sane
<1>2. Flying \subseteq Req
  BY DEF Flying
<1>3. CASE SweepDone(r) /\ UNCHANGED <<flag, book, stamps, stops, sends>>
  <2>1. swept' \in [seen: BOOLEAN, flying: SUBSET Req]
    BY <1>2, <1>3 DEF SweepDone
  <2> QED
    BY <1>1, <1>3, <2>1, Answered DEF SweepDone, Answers
<1>4. CASE SweepFails(r)
  BY <1>1, <1>4, Answered DEF SweepFails, Answers
<1>5. CASE Sweep(r) /\ ~(SweepDone(r) /\ UNCHANGED book)
  <2> DEFINE j == [job[r] EXCEPT !.pc = "polling"]
  <2>1. /\ job' = [job EXCEPT ![r] = j] /\ job[r].pc = "start"
        /\ book' = [o \in Orders |-> IF o \in OpenOrders
                                      THEN [book[o] EXCEPT !.asked = TRUE] ELSE book[o]]
        /\ UNCHANGED <<flag, stamps, stops, sends, swept>>
    BY <1>5 DEF Sweep, Goto, Sweeping
  <2>2. /\ j \in Job /\ j.kind = job[r].kind /\ j.phase = "sweep" /\ j.pc = "polling"
        /\ j.todo = job[r].todo /\ j.touched = job[r].touched /\ j.out = job[r].out
    BY <1>1 DEF Job
  <2> HIDE DEF j
  <2>3. Sane(j, sends[r])
    BY <1>1, <2>1, <2>2 DEF Sane
  <2>4. /\ book' \in [Orders -> Entry]
        /\ \A o \in Orders : book'[o].st = book[o].st
    <3> SUFFICES ASSUME NEW o \in Orders
                 PROVE  LET b == IF o \in OpenOrders
                                 THEN [book[o] EXCEPT !.asked = TRUE] ELSE book[o]
                        IN  b \in Entry /\ b.st = book[o].st
      BY <2>1
    <3> QED
      BY DEF Entry
  <2> QED
    BY <1>1, <2>1, <2>2, <2>3, <2>4, OneJob DEF Orders
<1>6. CASE DrainSeen(r)
  BY <1>3, <1>6 DEF DrainSeen
<1>7. CASE Sweep(r) /\ SweepDone(r) /\ UNCHANGED book
  BY <1>3, <1>7 DEF Sweep
<1> QED
  BY <1>4, <1>5, <1>6, <1>7

LEMMA RunsAgain ==
  ASSUME IInv, NEW r \in Req, Recovers(r)
  PROVE  IInv'
<1> USE SameBook, HangupBook
<1>1. CASE job[r].phase \notin Repeatable
  BY <1>1, Answered DEF Recovers, Repeatable, Verdict, Harmless, Markers, Answers
<1>2. CASE job[r].phase \in Repeatable
  <2> DEFINE j == [job[r] EXCEPT !.pc = "admit", !.again = TRUE]
  <2>1. /\ job[r].phase = "cancel" /\ job[r].pc # "done" /\ job' = [job EXCEPT ![r] = j]
        /\ Hangup(r) /\ UNCHANGED <<flag, stamps, stops, sends, swept>>
    BY <1>2 DEF Recovers, Repeatable, Running
  <2>2. /\ j \in Job /\ j.kind = job[r].kind /\ j.phase = "cancel" /\ j.pc = "admit"
        /\ j.todo = job[r].todo /\ j.touched = job[r].touched /\ j.out = job[r].out
    <3>1. job[r] \in Job
      BY SameBook, Zenon
    <3> QED
      BY <2>1, <3>1 DEF Job
  <2> HIDE DEF j
  <2>3. Sane(j, sends[r])
    BY <2>1, <2>2 DEF Sane
  <2> QED
    BY <2>1, <2>2, <2>3, OneJob
<1> QED
  BY <1>1, <1>2

(* The broker moves one order at a time, a resting one never back.         *)
LEMMA BrokerActs ==
  ASSUME IInv, NEW o \in Orders, Broker(o)
  PROVE  IInv'
<1>1. /\ book' \in [Orders -> Entry]
      /\ \A x \in Resting : book'[x].st = "working" => book[x].st = "working"
      /\ \A x \in Resting : book'[x].st # "sent"
  <2> PICK st \in {"working", "rejected", "filled", "cancelled"} :
          /\ book' = [book EXCEPT ![o].st = st]
          /\ st = "working" => book[o].st = "sent"
    BY DEF Broker
  <2> QED
    BY SameBook DEF Entry, Orders
<1>2. UNCHANGED <<flag, job, stamps, stops, sends, swept>>
  BY DEF Broker
<1>3. TypeOK' /\ JobsSane' /\ RestingShown'
  BY <1>1, <1>2 DEF IInv, TypeOK, JobsSane, RestingShown, Entry
<1>4. ConfirmedGone'
  <2> SUFFICES ASSUME NEW q \in Req, job[q].kind = "replace",
                      NEW t \in job[q].touched \ job[q].todo
               PROVE  book'[t].st # "working"
    BY <1>2 DEF ConfirmedGone, Working
  <2>1. t \in Resting /\ ~Working(t)
    BY SameBook DEF Job
  <2> QED
    BY <1>1, <2>1 DEF Working
<1> QED
  BY <1>3, <1>4 DEF IInv

LEMMA Stopped ==
  ASSUME IInv, ServiceStops
  PROVE  IInv'
<1>1. /\ stops' \in 0..Stops /\ stamps' \in 0..Budget
      /\ UNCHANGED <<flag, book, sends, swept>>
  BY DeskAssumption DEF ServiceStops, IInv, TypeOK
<1>2. ASSUME NEW q \in Req
      PROVE  /\ job'[q] \in Job /\ Sane(job'[q], sends[q])
             /\ job'[q].kind = job[q].kind
             /\ job'[q].todo = job[q].todo /\ job'[q].touched = job[q].touched
  <2>1. job[q] \in Job /\ Sane(job[q], sends[q]) /\ sends[q] \in Nat
    BY SameBook
  <2>2. CASE job[q].pc \in {"idle", "done"}
    BY <2>1, <2>2 DEF ServiceStops
  <2>3. CASE job[q].pc \notin {"idle", "done"}
    <3> DEFINE j == Ended(q, "cut")
    <3>1. job'[q] = j
      BY <2>3 DEF ServiceStops
    <3>2. /\ j \in Job /\ j.kind = job[q].kind /\ j.phase = "place" /\ j.pc = "done"
          /\ j.todo = job[q].todo /\ j.touched = job[q].touched /\ j.out = "cut"
      BY <2>1 DEF Job, Ended, Answers
    <3> HIDE DEF j
    <3>3. Sane(j, sends[q])
      BY <2>1, <3>2 DEF Sane
    <3> QED
      BY <3>1, <3>2, <3>3
  <2> QED
    BY <2>2, <2>3
<1>3. TypeOK'
  <2>1. job' \in [Req -> Job]
    BY <1>2 DEF ServiceStops
  <2> QED
    BY <1>1, <2>1 DEF IInv, TypeOK
<1>4. JobsSane' /\ RestingShown' /\ ConfirmedGone'
  BY <1>1, <1>2 DEF IInv, JobsSane, RestingShown, ConfirmedGone, Working
<1> QED
  BY <1>3, <1>4 DEF IInv

(* The operator, the disk and the clock.                                   *)
LEMMA Outside ==
  ASSUME IInv, MinutePasses \/ Halt \/ Resume \/ FlagDamaged \/ UNCHANGED vars
  PROVE  IInv'
<1>1. UNCHANGED <<job, book, stops, sends>>
  BY DEF MinutePasses, Halt, Resume, FlagDamaged, vars
<1>2. flag' \in {"clear", "halted", "damaged"} /\ stamps' \in 0..Budget
  BY SameBook, DeskAssumption DEF MinutePasses, Halt, Resume, FlagDamaged, vars
<1>3. swept' \in [seen: BOOLEAN, flying: SUBSET Req]
  <2>1. NoSweep \in [seen: BOOLEAN, flying: SUBSET Req]
    BY DEF NoSweep
  <2>2. swept' = swept \/ swept' = NoSweep
    BY DEF MinutePasses, Halt, Resume, FlagDamaged, vars
  <2> QED
    BY <2>1, <2>2, SameBook
<1> QED
  BY <1>1, <1>2, <1>3 DEF IInv, TypeOK, JobsSane, RestingShown, ConfirmedGone, Working

(* A step keeps the types, the scripts and requests sane, every working    *)
(* order in the book's display, and every confirmed cancel gone: the       *)
(* strengthening the desk's properties rest on.                            *)
THEOREM Inductive == IInv /\ [Next]_vars => IInv'
<1> SUFFICES ASSUME IInv, [Next]_vars PROVE IInv'
  OBVIOUS
<1>1. ASSUME NEW r \in Req, Handle(r) PROVE IInv'
  BY <1>1, Waits, WhatIfs, Places, Cancels, Sweeps, EndsEarly, RunsAgain DEF Handle
<1> QED
  BY <1>1, Arrives, BrokerActs, Stopped, Outside DEF Next

(***************************************************************************)
(* The theorems.  First what the sweep leaves: while the halt stands, what *)
(* is in flight can only grow less.                                        *)
(***************************************************************************)
SweptInv ==
    swept.seen =>
        /\ Halted
        /\ Flying \subseteq swept.flying
        /\ \A o \in Orders : Working(o) => o \in swept.flying

(* A step that puts nothing new in flight and lets nothing work that was   *)
(* not in flight.                                                          *)
LEMMA NothingNew ==
  ASSUME SweptInv, swept' = swept, Halted => Halted',
         Halted => Flying' \subseteq Flying,
         \A o \in Orders : Working(o)' => Working(o) \/ o \in Flying
  PROVE  SweptInv'
<1> SUFFICES ASSUME swept.seen
             PROVE  /\ Halted'
                    /\ Flying' \subseteq swept.flying
                    /\ \A o \in Orders : Working(o)' => o \in swept.flying
  BY DEF SweptInv
<1>1. /\ Halted /\ Flying \subseteq swept.flying
      /\ \A o \in Orders : Working(o) => o \in swept.flying
  BY DEF SweptInv
<1> QED
  BY <1>1

(* A step of one request that leaves the book to itself or takes its own   *)
(* order from it.                                                          *)
LEMMA OwnSteps ==
  ASSUME IInv, SweptInv, NEW r \in Req, NEW j, job' = [job EXCEPT ![r] = j],
         Halted => j.phase # "place" \/ j.pc # "ready",
         UNCHANGED <<flag, swept>>,
         \A o \in Orders : Working(o)' => Working(o),
         \A q \in Req : book'[q].st = "sent" => book[q].st = "sent"
  PROVE  SweptInv'
<1>1. \A q \in Req : job'[q] = IF q = r THEN j ELSE job[q]
  BY DEF IInv, TypeOK
<1>2. Halted => Flying' \subseteq Flying
  BY <1>1 DEF Flying
<1>3. Halted => Halted'
  BY DEF Halted
<1> QED
  BY <1>2, <1>3, NothingNew

LEMMA AnswerSteps ==
  ASSUME IInv, SweptInv, NEW r \in Req, NEW out, Answer(r, out),
         UNCHANGED <<flag, swept>>, UNCHANGED book \/ Hangup(r)
  PROVE  SweptInv'
<1>1. job' = [job EXCEPT ![r] = Ended(r, out)]
  BY DEF Answer
<1>2. Ended(r, out).pc = "done"
  <2>1. job[r] \in Job
    BY SameBook, Zenon
  <2> QED
    BY <2>1 DEF Ended, Job
<1>3. /\ \A o \in Orders : Working(o)' => Working(o)
      /\ \A q \in Req : book'[q].st = "sent" => book[q].st = "sent"
  BY HangupBook DEF Working
<1> QED
  BY <1>1, <1>2, <1>3, OwnSteps

LEMMA GotoSteps ==
  ASSUME IInv, SweptInv, NEW r \in Req, NEW pc, Goto(r, pc),
         UNCHANGED <<flag, swept>>, pc = "ready" => ~Halted,
         \A o \in Orders : book'[o].st = book[o].st
  PROVE  SweptInv'
<1>1. job' = [job EXCEPT ![r] = [job[r] EXCEPT !.pc = pc]]
  BY DEF Goto
<1>2. [job[r] EXCEPT !.pc = pc].pc = pc
  <2>1. job[r] \in Job
    BY SameBook, Zenon
  <2> QED
    BY <2>1 DEF Job
<1>3. /\ \A o \in Orders : Working(o)' => Working(o)
      /\ \A q \in Req : book'[q].st = "sent" => book[q].st = "sent"
  BY DEF Working, Orders
<1> QED
  BY <1>1, <1>2, <1>3, OwnSteps

LEMMA PlainSteps ==
  ASSUME IInv, SweptInv, NEW r \in Req,
         \/ Refuse(r) \/ NotAdmitted(r) \/ ScanEnds(r) \/ WhatIfFails(r) \/ NothingSent(r)
         \/ Placed(r) \/ ScriptSaysNo(r) \/ CancelFails(r) \/ SweepFails(r)
         \/ TimesOut(r) \/ Dies(r) \/ Reserve(r) \/ Admit(r)
  PROVE  SweptInv'
<1>1. CASE Reserve(r) \/ Admit(r)
  BY <1>1, GotoSteps DEF Reserve, Admit
<1>2. CASE ~(Reserve(r) \/ Admit(r))
  <2>1. /\ \E out : Answer(r, out)
        /\ UNCHANGED <<flag, swept>> /\ (UNCHANGED book \/ Hangup(r))
    BY <1>2 DEF Refuse, NotAdmitted, ScanEnds, WhatIfFails, NothingSent, Placed,
                ScriptSaysNo, CancelFails, SweepFails, TimesOut, Dies
  <2> QED
    BY <2>1, AnswerSteps
<1> QED
  BY <1>1, <1>2

LEMMA BranchingSteps ==
  ASSUME IInv, SweptInv, NEW r \in Req,
         WhatIf(r) \/ CheckHalt(r) \/ Recovers(r)
  PROVE  SweptInv'
<1>1. CASE /\ \E out : Answer(r, out)
           /\ UNCHANGED <<flag, swept>> /\ (UNCHANGED book \/ Hangup(r))
  BY <1>1, AnswerSteps
<1>2. CASE CheckHalt(r) /\ ~Halted
  BY <1>2, GotoSteps DEF CheckHalt, SecondLook
<1>3. CASE \/ WhatIf(r) /\ ~Halted
           \/ Recovers(r) /\ job[r].phase \in Repeatable
  <2>1. /\ \/ job' = [job EXCEPT ![r] = [job[r] EXCEPT !.pc = "admit", !.phase = "cancel",
                                                       !.again = FALSE]]
           \/ job' = [job EXCEPT ![r] = [job[r] EXCEPT !.pc = "admit", !.again = TRUE]]
        /\ UNCHANGED <<flag, swept>> /\ (UNCHANGED book \/ Hangup(r))
    BY <1>3 DEF WhatIf, Recovers, Await, Follows
  <2>2. /\ [job[r] EXCEPT !.pc = "admit", !.phase = "cancel", !.again = FALSE].pc = "admit"
        /\ [job[r] EXCEPT !.pc = "admit", !.again = TRUE].pc = "admit"
    <3>1. job[r] \in Job
      BY SameBook, Zenon
    <3> QED
      BY <3>1 DEF Job
  <2>3. /\ \A o \in Orders : Working(o)' => Working(o)
        /\ \A q \in Req : book'[q].st = "sent" => book[q].st = "sent"
    BY <2>1, HangupBook DEF Working
  <2> DEFINE j1 == [job[r] EXCEPT !.pc = "admit", !.phase = "cancel", !.again = FALSE]
             j2 == [job[r] EXCEPT !.pc = "admit", !.again = TRUE]
  <2>4. job' = [job EXCEPT ![r] = j1] \/ job' = [job EXCEPT ![r] = j2]
    BY <2>1
  <2>5. j1.pc = "admit" /\ j2.pc = "admit"
    BY <2>2
  <2> HIDE DEF j1, j2
  <2> QED
    BY <2>1, <2>3, <2>4, <2>5, OwnSteps
<1> QED
  BY <1>1, <1>2, <1>3 DEF WhatIf, CheckHalt, SecondLook, Recovers

LEMMA CancelSteps ==
  ASSUME IInv, SweptInv, NEW r \in Req,
         AskCancel(r) \/ CancelConfirmed(r) \/ AlreadyCancelled(r)
  PROVE  SweptInv'
<1>1. /\ job[r].phase = "cancel" /\ job[r].pc \in {"start", "polling"}
      /\ job[r] \in Job /\ sends[r] \in Nat /\ Sane(job[r], sends[r])
      /\ UNCHANGED <<flag, swept>>
  BY SameBook DEF AskCancel, CancelConfirmed, AlreadyCancelled, Cancelling
<1>2. /\ job' \in [Req -> Job] /\ job'[r].pc # "ready"
      /\ \A q \in Req \ {r} : job'[q] = job[q]
  <2>1. job' \in [Req -> Job]
    <3>1. IInv'
      BY Cancels
    <3> QED
      BY <3>1 DEF IInv, TypeOK
  <2>2. CASE AskCancel(r)
    <3>1. job' = [job EXCEPT ![r] = [job[r] EXCEPT !.pc = "polling",
                                       !.touched = job[r].touched \cup {Target(r)}]]
      BY <2>2 DEF AskCancel
    <3> QED
      BY <1>1, <2>1, <3>1 DEF Job, IInv, TypeOK
  <2>3. CASE Confirm(r)
    <3> DEFINE todo == job[r].todo \ {Target(r)}
               phase == IF job[r].kind = "replace" /\ todo = {} THEN "place" ELSE "cancel"
               pc == IF job[r].kind = "replace" THEN "admit" ELSE "done"
               out == IF job[r].kind = "replace" THEN job[r].out ELSE "ok"
    <3>1. job' = [job EXCEPT ![r] = [job[r] EXCEPT !.todo = todo, !.again = FALSE,
                                       !.phase = phase, !.pc = pc, !.out = out]]
      BY <1>1, <2>3 DEF Confirm, Follows
    <3>2. pc # "ready"
      OBVIOUS
    <3> HIDE DEF todo, phase, pc, out
    <3> QED
      BY <1>1, <2>1, <3>1, <3>2 DEF Job, IInv, TypeOK
  <2> QED
    BY <2>1, <2>2, <2>3 DEF CancelConfirmed, AlreadyCancelled
<1>3. \A o \in Orders : book'[o].st = book[o].st
  <2>1. CASE AskCancel(r)
    <3>1. Target(r) \in Resting
      BY <1>1 DEF Sane, Target, Job
    <3> QED
      BY <2>1, <3>1, SameBook DEF AskCancel, Orders, Entry
  <2> QED
    BY <2>1 DEF CancelConfirmed, AlreadyCancelled
<1>4. Flying' \subseteq Flying
  BY <1>2, <1>3 DEF Flying, Orders
<1> QED
  BY <1>1, <1>3, <1>4, NothingNew DEF Working, Halted

(* What was ready to transmit is in flight already.                        *)
LEMMA SendStep ==
  ASSUME IInv, SweptInv, NEW r \in Req, Transmit(r)
  PROVE  SweptInv'
<1>1. /\ r \in Flying /\ UNCHANGED <<flag, swept>>
      /\ job' = [job EXCEPT ![r] = [job[r] EXCEPT !.pc = "polling"]]
      /\ book' = [book EXCEPT ![r].st = "sent"]
  BY DEF Transmit, Placing, Flying, Goto
<1>2. \A q \in Req \ {r} : job'[q] = job[q]
  BY <1>1 DEF IInv, TypeOK
<1>3. \A o \in Orders \ {r} : book'[o] = book[o]
  BY <1>1, SameBook
<1>4. book'[r].st = "sent"
  BY <1>1, SameBook DEF Orders, Entry
<1>5. Flying' \subseteq Flying
  BY <1>1, <1>2, <1>3 DEF Flying, Orders
<1>6. \A o \in Orders : Working(o)' => Working(o)
  BY <1>3, <1>4 DEF Working
<1> QED
  BY <1>1, <1>5, <1>6, NothingNew DEF Halted

(* A kill that answers ok has seen an empty book.                          *)
LEMMA SweepSteps ==
  ASSUME ~LateBook, IInv, SweptInv, NEW r \in Req, Sweep(r) \/ DrainSeen(r)
  PROVE  SweptInv'
<1>1. CASE /\ SweepDone(r) /\ UNCHANGED <<flag, book>>
           /\ OpenOrders = {}
  <2>1. CASE swept' = swept
    BY <1>1, <2>1, AnswerSteps DEF SweepDone
  <2>2. CASE Halted /\ swept' = [seen |-> TRUE, flying |-> Flying]
    <3>1. Flying' \subseteq Flying
      <4>1. job' = [job EXCEPT ![r] = Ended(r, "ok")]
        BY <1>1 DEF SweepDone, Answer
      <4>2. Ended(r, "ok").pc = "done"
        <5>1. job[r] \in Job
          BY SameBook, Zenon
        <5> QED
          BY <5>1 DEF Ended, Job
      <4> HIDE DEF Ended
      <4>3. \A q \in Req : job'[q] = IF q = r THEN Ended(r, "ok") ELSE job[q]
        BY <4>1 DEF IInv, TypeOK
      <4> QED
        BY <1>1, <4>2, <4>3 DEF Flying
    <3>2. \A o \in Orders : ~Working(o)'
      BY <1>1 DEF OpenOrders, Working
    <3> QED
      BY <1>1, <2>2, <3>1, <3>2 DEF SweptInv, Halted
  <2> QED
    BY <1>1, <2>1, <2>2 DEF SweepDone
<1>2. CASE /\ book' = [o \in Orders |-> IF o \in OpenOrders
                                        THEN [book[o] EXCEPT !.asked = TRUE] ELSE book[o]]
           /\ Goto(r, "polling") /\ UNCHANGED <<flag, swept>>
  <2>1. ASSUME NEW o \in Orders PROVE book'[o].st = book[o].st
    BY <1>2, SameBook DEF Entry
  <2> QED
    BY <1>2, <2>1, GotoSteps
<1>3. CASE DrainSeen(r)
  BY <1>1, <1>3 DEF DrainSeen, Drained
<1>4. CASE Sweep(r)
  BY <1>1, <1>2, <1>4 DEF Sweep
<1> QED
  BY <1>3, <1>4

LEMMA SurroundingSteps ==
  ASSUME IInv, SweptInv,
         \/ \E o \in Orders : Broker(o)
         \/ MinutePasses \/ ServiceStops \/ Halt \/ Resume \/ FlagDamaged
         \/ UNCHANGED vars
  PROVE  SweptInv'
<1>1. ASSUME NEW o \in Orders, Broker(o) PROVE SweptInv'
  <2>1. PICK st \in {"working", "rejected", "filled", "cancelled"} :
            /\ book' = [book EXCEPT ![o].st = st]
            /\ st = "working" => book[o].st = "sent"
    BY <1>1 DEF Broker
  <2>2. /\ \A x \in Orders \ {o} : book'[x] = book[x]
        /\ book'[o].st = st
    BY <2>1, SameBook DEF Entry
  <2>3. UNCHANGED <<flag, job, swept>>
    BY <1>1 DEF Broker
  <2>4. Flying' \subseteq Flying
    BY <2>2, <2>3 DEF Flying, Orders
  <2>5. book[o].st = "sent" => o \in Flying
    BY SameBook DEF Flying, Orders
  <2>6. \A x \in Orders : Working(x)' => Working(x) \/ x \in Flying
    BY <2>1, <2>2, <2>5 DEF Working
  <2> QED
    BY <2>3, <2>4, <2>6, NothingNew DEF Halted
<1>2. CASE ServiceStops
  <2>1. ASSUME NEW q \in Req, job'[q].phase = "place", job'[q].pc = "ready"
        PROVE  job[q].phase = "place" /\ job[q].pc = "ready"
    <3>1. job[q] \in Job
      BY SameBook, Zenon
    <3>2. Ended(q, "cut").pc = "done"
      BY <3>1 DEF Ended, Job
    <3> HIDE DEF Ended
    <3>3. job'[q] = job[q] \/ job'[q] = Ended(q, "cut")
      BY <1>2 DEF ServiceStops
    <3> QED
      BY <2>1, <3>2, <3>3
  <2>2. Flying' \subseteq Flying
    BY <1>2, <2>1 DEF Flying, ServiceStops
  <2> QED
    BY <1>2, <2>2, NothingNew DEF ServiceStops, Working, Halted
<1>3. CASE Resume
  BY <1>3 DEF Resume, NoSweep, SweptInv
<1>4. CASE MinutePasses \/ Halt \/ FlagDamaged \/ UNCHANGED vars
  BY <1>4 DEF MinutePasses, Halt, FlagDamaged, vars, SweptInv, Halted, Flying, Working
<1> QED
  BY <1>1, <1>2, <1>3, <1>4

LEMMA ArriveStep ==
  ASSUME IInv, SweptInv, NEW r \in Req, NEW kind \in Kinds, NEW targets \in SUBSET Resting,
         Arrive(r, kind, targets)
  PROVE  SweptInv'
<1> DEFINE n == New(kind, targets)
           m == [n EXCEPT !.pc = "done", !.out = "refused"]
<1>1. n.pc # "ready"
  BY DEF New, Fresh
<1>2. m.pc = "done"
  BY DEF New, Fresh
<1>3. /\ job' = [job EXCEPT ![r] = n] \/ job' = [job EXCEPT ![r] = m]
      /\ UNCHANGED <<book, swept>> /\ (Halted => Halted')
  BY DEF Arrive, Halted
<1> HIDE DEF n, m
<1>4. \A q \in Req : job'[q] = job[q] \/ job'[q].pc # "ready"
  BY <1>1, <1>2, <1>3 DEF IInv, TypeOK
<1>5. Flying' \subseteq Flying
  BY <1>3, <1>4 DEF Flying
<1> QED
  BY <1>3, <1>5, NothingNew DEF Working

(* A step keeps what the kill sweep has seen and cancelled, when the       *)
(* broker lists its orders in time (server.py:3419-3459).                  *)
THEOREM SweptInductive ==
  ASSUME ~LateBook PROVE IInv /\ SweptInv /\ [Next]_vars => SweptInv'
<1> SUFFICES ASSUME IInv, SweptInv, [Next]_vars PROVE SweptInv'
  OBVIOUS
<1>1. ASSUME NEW r \in Req, Handle(r) PROVE SweptInv'
  BY <1>1, PlainSteps, BranchingSteps, CancelSteps, SendStep, SweepSteps DEF Handle
<1> QED
  BY <1>1, ArriveStep, SurroundingSteps DEF Next

(***************************************************************************)
(* The desk as a switch: a request stands for its order, which has passed  *)
(* the flag when its script is ready, and is out once it was transmitted.  *)
(***************************************************************************)
Passed == {r \in Req : Placing(r, "ready")}
Unsent == \A r \in Req : sends[r] = 0 => book[r].st = "none"

SwitchStep == [Switch!Next]_Switch!vars

LEMMA ReadyIsUnsent ==
  ASSUME IInv, Unsent, NEW r \in Req, r \in Passed
  PROVE  sends[r] = 0 /\ book[r].st = "none"
BY SameBook DEF Unsent, Passed, Placing, Sane

(* Scripts that are ready may end; nothing else that the switch sees.      *)
LEMMA GivingUp ==
  ASSUME IInv, Passed' \subseteq Passed, Halted' = Halted, swept' = swept,
         \A o \in Orders : book'[o].st = book[o].st
  PROVE  SwitchStep
<1>1. PICK some \in SUBSET Orders : some = Passed \ Passed'
  BY DEF Passed, Orders
<1>2. Passed' = Passed \ some
  BY <1>1
<1>3. [o \in Orders |-> book[o].st]' = [o \in Orders |-> book[o].st]
  BY DEF Orders
<1>4. Switch!GivesUp(some)
  BY <1>2, <1>3 DEF Switch!GivesUp, Passed
<1> QED
  BY <1>4 DEF SwitchStep, Switch!Next

(* An order moves on at the broker.                                        *)
LEMMA Going ==
  ASSUME IInv, NEW o \in Orders, NEW to, NEW from,
         book[o].st = from, \A x \in Orders : book'[x].st = IF x = o THEN to ELSE book[x].st,
         Halted' = Halted, swept' = swept
  PROVE  Switch!Goes(o, from, to)
<1> DEFINE life == [x \in Orders |-> book[x].st]
<1>1. life' = [x \in Orders |-> book'[x].st]
  BY DEF Orders
<1>2. life' = [life EXCEPT ![o] = to]
  BY <1>1
<1>3. life[o] = from
  OBVIOUS
<1> QED
  BY <1>2, <1>3 DEF Switch!Goes

LEMMA BrokerMoves ==
  ASSUME IInv, NEW o \in Orders, NEW to, NEW from,
         book[o].st = from, \A x \in Orders : book'[x].st = IF x = o THEN to ELSE book[x].st,
         Halted' = Halted, swept' = swept, Passed' = Passed,
         \/ from = "sent" /\ to \in {"working", "rejected", "dropped"}
         \/ from = "working" /\ to \in {"filled", "cancelled"}
  PROVE  SwitchStep
<1>1. Switch!Goes(o, from, to)
  BY Going
<1>2. CASE from = "sent"
  BY <1>1, <1>2 DEF Switch!Answered, SwitchStep, Switch!Next, Passed
<1>3. CASE from = "working"
  BY <1>1, <1>3 DEF Switch!Ends, SwitchStep, Switch!Next, Passed
<1> QED
  BY <1>2, <1>3

LEMMA OneJobPassed ==
  ASSUME IInv, NEW r \in Req, NEW j, job' = [job EXCEPT ![r] = j]
  PROVE  /\ j.phase # "place" \/ j.pc # "ready" => Passed' = Passed \ {r}
         /\ j.phase = "place" /\ j.pc = "ready" => Passed' = Passed \cup {r}
<1>1. \A q \in Req : job'[q] = IF q = r THEN j ELSE job[q]
  BY DEF IInv, TypeOK
<1> QED
  BY <1>1 DEF Passed, Placing

(* A script that ends may take its order along.                            *)
LEMMA Ending ==
  ASSUME IInv, Unsent, NEW r \in Req, NEW j, job' = [job EXCEPT ![r] = j],
         j.phase # "place" \/ j.pc # "ready",
         UNCHANGED <<flag, swept>>, UNCHANGED book \/ Hangup(r)
  PROVE  SwitchStep
<1>1. Passed' = Passed \ {r} /\ Halted' = Halted
  BY OneJobPassed DEF Halted
<1>2. CASE UNCHANGED book
  BY <1>1, <1>2, GivingUp
<1>3. CASE book[r].st = "sent" /\ book' = [book EXCEPT ![r].st = "dropped"]
  <2>1. r \notin Passed
    BY <1>3, ReadyIsUnsent
  <2>2. \A x \in Orders : book'[x].st = IF x = r THEN "dropped" ELSE book[x].st
    BY <1>3, SameBook DEF Entry, Orders
  <2>3. Passed' = Passed
    BY <1>1, <2>1
  <2> QED
    BY <1>1, <1>3, <2>2, <2>3, BrokerMoves DEF Orders
<1> QED
  BY <1>2, <1>3 DEF Hangup

LEMMA AnswerEnds ==
  ASSUME IInv, NEW r \in Req, NEW out, Answer(r, out)
  PROVE  \E j : job' = [job EXCEPT ![r] = j] /\ j.pc = "done"
<1>1. job[r] \in Job
  BY SameBook, Zenon
<1>2. Ended(r, out).pc = "done"
  BY <1>1 DEF Ended, Job
<1>3. job' = [job EXCEPT ![r] = Ended(r, out)]
  BY DEF Answer
<1> QED
  BY <1>2, <1>3

LEMMA GotoIs ==
  ASSUME IInv, NEW r \in Req, NEW pc, Goto(r, pc)
  PROVE  \E j : job' = [job EXCEPT ![r] = j] /\ j.pc = pc /\ j.phase = job[r].phase
<1> DEFINE j == [job[r] EXCEPT !.pc = pc]
<1>1. job' = [job EXCEPT ![r] = j]
  BY DEF Goto
<1>2. job[r] \in Job
  BY SameBook, Zenon
<1>3. j.pc = pc /\ j.phase = job[r].phase
  BY <1>2 DEF Job
<1> QED
  BY <1>1, <1>3

LEMMA PlainSwitch ==
  ASSUME IInv, Unsent, NEW r \in Req,
         \/ Refuse(r) \/ NotAdmitted(r) \/ ScanEnds(r) \/ WhatIfFails(r) \/ NothingSent(r)
         \/ Placed(r) \/ ScriptSaysNo(r) \/ CancelFails(r) \/ SweepFails(r)
         \/ TimesOut(r) \/ Dies(r) \/ Reserve(r) \/ Admit(r)
  PROVE  SwitchStep
<1>1. CASE Reserve(r) \/ Admit(r)
  BY <1>1, GotoIs, Ending DEF Reserve, Admit
<1>2. CASE ~(Reserve(r) \/ Admit(r))
  <2>1. /\ \E out : Answer(r, out)
        /\ UNCHANGED <<flag, swept>> /\ (UNCHANGED book \/ Hangup(r))
    BY <1>2 DEF Refuse, NotAdmitted, ScanEnds, WhatIfFails, NothingSent, Placed,
                ScriptSaysNo, CancelFails, SweepFails, TimesOut, Dies
  <2> QED
    BY <2>1, AnswerEnds, Ending
<1> QED
  BY <1>1, <1>2

(* The last look at the flag.                                              *)
LEMMA LooksSwitch ==
  ASSUME IInv, Unsent, NEW r \in Req, CheckHalt(r)
  PROVE  SwitchStep
<1>1. CASE Halted
  <2>1. Answer(r, Harmless(r)) /\ UNCHANGED <<flag, book, swept>>
    BY <1>1 DEF CheckHalt, SecondLook
  <2>2. PICK out : out = Harmless(r)
    OBVIOUS
  <2> QED
    BY <2>1, <2>2, AnswerEnds, Ending
<1>2. CASE ~Halted
  <2>1. /\ Goto(r, "ready") /\ UNCHANGED <<flag, book, swept>>
        /\ job[r].phase = "place" /\ job[r].pc = "start"
    BY <1>2 DEF CheckHalt, SecondLook, Placing
  <2>2. Passed' = Passed \cup {r}
    BY <2>1, GotoIs, OneJobPassed
  <2>3. book[r].st = "none"
    BY <2>1, SameBook DEF Unsent, Sane
  <2>4. Switch!Passes(r)
    BY <1>2, <2>1, <2>2, <2>3 DEF Switch!Passes, Passed, Halted, Orders
  <2> QED
    BY <2>4 DEF SwitchStep, Switch!Next, Orders
<1> QED
  BY <1>1, <1>2

LEMMA SendSwitch ==
  ASSUME IInv, Unsent, NEW r \in Req, Transmit(r)
  PROVE  SwitchStep
<1>1. /\ Goto(r, "polling") /\ r \in Passed
      /\ book' = [book EXCEPT ![r].st = "sent"] /\ UNCHANGED <<flag, swept>>
  BY DEF Transmit, Passed
<1>2. Passed' = Passed \ {r}
  BY <1>1, GotoIs, OneJobPassed
<1>3. book[r].st = "none"
  BY <1>1, ReadyIsUnsent
<1>4. \A x \in Orders : book'[x].st = IF x = r THEN "sent" ELSE book[x].st
  BY <1>1, SameBook DEF Entry, Orders
<1>5. Switch!Goes(r, "none", "sent")
  BY <1>1, <1>3, <1>4, Going DEF Halted, Orders
<1>6. Switch!Sends(r)
  BY <1>1, <1>2, <1>5 DEF Switch!Sends, Passed
<1> QED
  BY <1>6 DEF SwitchStep, Switch!Next, Orders

(* What a cancel does to the requests and to the book.                     *)
LEMMA CancelFrame ==
  ASSUME IInv, NEW r \in Req, AskCancel(r) \/ CancelConfirmed(r) \/ AlreadyCancelled(r)
  PROVE  /\ UNCHANGED <<flag, sends, swept>>
         /\ \E j : job' = [job EXCEPT ![r] = j] /\ j.pc # "ready"
         /\ \A o \in Orders : book'[o].st = book[o].st
<1>1. /\ job[r].phase = "cancel" /\ job[r].pc \in {"start", "polling"}
      /\ job[r] \in Job /\ sends[r] \in Nat /\ Sane(job[r], sends[r])
      /\ UNCHANGED <<flag, sends, swept>>
  BY SameBook DEF AskCancel, CancelConfirmed, AlreadyCancelled, Cancelling
<1>2. CASE AskCancel(r)
  <2> DEFINE j == [job[r] EXCEPT !.pc = "polling", !.touched = job[r].touched \cup {Target(r)}]
  <2>1. job' = [job EXCEPT ![r] = j]
    BY <1>2 DEF AskCancel
  <2>2. j.pc = "polling"
    BY <1>1 DEF Job
  <2>3. Target(r) \in Resting
    BY <1>1 DEF Sane, Target, Job
  <2>4. \A o \in Orders : book'[o].st = book[o].st
    BY <1>2, <2>3, SameBook DEF AskCancel, Orders, Entry
  <2> QED
    BY <1>1, <2>1, <2>2, <2>4
<1>3. CASE Confirm(r) /\ UNCHANGED book
  <2> DEFINE todo == job[r].todo \ {Target(r)}
             phase == IF job[r].kind = "replace" /\ todo = {} THEN "place" ELSE "cancel"
             pc == IF job[r].kind = "replace" THEN "admit" ELSE "done"
             out == IF job[r].kind = "replace" THEN job[r].out ELSE "ok"
             j == [job[r] EXCEPT !.todo = todo, !.again = FALSE,
                                 !.phase = phase, !.pc = pc, !.out = out]
  <2>1. job' = [job EXCEPT ![r] = j]
    BY <1>1, <1>3 DEF Confirm, Follows
  <2>2. pc # "ready"
    OBVIOUS
  <2> HIDE DEF todo, phase, pc, out
  <2>3. j.pc = pc
    BY <1>1 DEF Job
  <2> QED
    BY <1>1, <1>3, <2>1, <2>2, <2>3
<1> QED
  BY <1>2, <1>3 DEF CancelConfirmed, AlreadyCancelled

LEMMA CancelSwitch ==
  ASSUME IInv, Unsent, NEW r \in Req, AskCancel(r) \/ CancelConfirmed(r) \/ AlreadyCancelled(r)
  PROVE  SwitchStep
<1>1. Passed' \subseteq Passed
  BY CancelFrame, OneJobPassed
<1> QED
  BY <1>1, CancelFrame, GivingUp DEF Halted

LEMMA RunsAgainSwitch ==
  ASSUME IInv, Unsent, NEW r \in Req, WhatIf(r) \/ Recovers(r)
  PROVE  SwitchStep
<1>1. CASE /\ \E out : Answer(r, out)
           /\ UNCHANGED <<flag, swept>> /\ (UNCHANGED book \/ Hangup(r))
  BY <1>1, AnswerEnds, Ending
<1>2. CASE \/ WhatIf(r) /\ ~Halted
           \/ Recovers(r) /\ job[r].phase \in Repeatable
  <2> DEFINE j1 == [job[r] EXCEPT !.pc = "admit", !.phase = "cancel", !.again = FALSE]
             j2 == [job[r] EXCEPT !.pc = "admit", !.again = TRUE]
  <2>1. /\ job' = [job EXCEPT ![r] = j1] \/ job' = [job EXCEPT ![r] = j2]
        /\ UNCHANGED <<flag, swept>> /\ (UNCHANGED book \/ Hangup(r))
    BY <1>2 DEF WhatIf, Recovers, Await, Follows
  <2>2. j1.pc = "admit" /\ j2.pc = "admit"
    <3>1. job[r] \in Job
      BY SameBook, Zenon
    <3> QED
      BY <3>1 DEF Job
  <2> HIDE DEF j1, j2
  <2> QED
    BY <2>1, <2>2, Ending
<1> QED
  BY <1>1, <1>2 DEF WhatIf, Recovers

(* A kill is confirmed over an empty book, when the broker lists it.       *)
LEMMA SweepSwitch ==
  ASSUME ~LateBook, IInv, Unsent, NEW r \in Req, Sweep(r) \/ DrainSeen(r)
  PROVE  SwitchStep
<1>1. CASE SweepDone(r) /\ UNCHANGED <<flag, book>> /\ OpenOrders = {}
           /\ job[r].phase = "sweep"
  <2>1. CASE swept' = swept
    BY <1>1, <2>1, AnswerEnds, Ending DEF SweepDone
  <2>2. CASE Halted /\ swept' = [seen |-> TRUE, flying |-> Flying]
    <3>1. Passed' = Passed
      <4>1. Passed' = Passed \ {r}
        BY <1>1, AnswerEnds, OneJobPassed DEF SweepDone
      <4> QED
        BY <1>1, <4>1 DEF Passed, Placing
    <3>2. \A o \in Orders : book[o].st # "working"
      BY <1>1 DEF OpenOrders, Working
    <3>3. Flying = Passed \cup {o \in Orders : book[o].st = "sent"}
      BY SameBook DEF Flying, Passed, Placing, Orders
    <3>4. {o \in Orders : [x \in Orders |-> book[x].st][o] = "sent"}
            = {o \in Orders : book[o].st = "sent"}
      OBVIOUS
    <3>5. swept'.seen = TRUE /\ swept'.flying = Flying
      BY <2>2
    <3>6. Halted /\ Halted' = Halted /\ book' = book
      BY <1>1, <2>2 DEF Halted
    <3>7. Switch!Confirms
      BY <3>1, <3>2, <3>3, <3>4, <3>5, <3>6 DEF Switch!Confirms, Passed
    <3> QED
      BY <3>7 DEF SwitchStep, Switch!Next
  <2> QED
    BY <1>1, <2>1, <2>2 DEF SweepDone
<1>2. CASE /\ book' = [o \in Orders |-> IF o \in OpenOrders
                                        THEN [book[o] EXCEPT !.asked = TRUE] ELSE book[o]]
           /\ Goto(r, "polling") /\ UNCHANGED <<flag, swept>>
  <2>1. ASSUME NEW o \in Orders PROVE book'[o].st = book[o].st
    BY <1>2, SameBook DEF Entry
  <2>2. Passed' \subseteq Passed
    BY <1>2, GotoIs, OneJobPassed
  <2> QED
    BY <1>2, <2>1, <2>2, GivingUp DEF Halted
<1>3. CASE DrainSeen(r)
  BY <1>1, <1>3 DEF DrainSeen, Drained, Sweeping
<1>4. CASE Sweep(r)
  BY <1>1, <1>2, <1>4 DEF Sweep, Sweeping
<1> QED
  BY <1>3, <1>4

LEMMA ArriveSwitch ==
  ASSUME IInv, Unsent, NEW r \in Req, NEW kind \in Kinds, NEW targets \in SUBSET Resting,
         Arrive(r, kind, targets)
  PROVE  SwitchStep
<1> DEFINE n == New(kind, targets)
           m == [n EXCEPT !.pc = "done", !.out = "refused"]
<1>1. n.pc # "ready" /\ m.pc = "done"
  BY DEF New, Fresh
<1>2. /\ job' = [job EXCEPT ![r] = n] \/ job' = [job EXCEPT ![r] = m]
      /\ UNCHANGED <<book, swept>> /\ (flag' = flag \/ flag' = "halted")
      /\ job[r].pc = "idle"
  BY DEF Arrive
<1> HIDE DEF n, m
<1>3. Passed' = Passed
  <2>1. Passed' = Passed \ {r}
    BY <1>1, <1>2, OneJobPassed
  <2> QED
    BY <1>2, <2>1 DEF Passed, Placing
<1>4. CASE Halted' = Halted
  BY <1>2, <1>3, <1>4, GivingUp
<1>5. CASE flag' = "halted"
  BY <1>2, <1>3, <1>5 DEF Switch!Halts, SwitchStep, Switch!Next, Passed, Halted
<1> QED
  BY <1>2, <1>4, <1>5 DEF Halted

LEMMA SurroundingSwitch ==
  ASSUME IInv, Unsent,
         \/ \E o \in Orders : Broker(o)
         \/ MinutePasses \/ ServiceStops \/ Halt \/ Resume \/ FlagDamaged
         \/ UNCHANGED vars
  PROVE  SwitchStep
<1>1. ASSUME NEW o \in Orders, Broker(o) PROVE SwitchStep
  <2>1. UNCHANGED <<flag, job, swept>>
    BY <1>1 DEF Broker
  <2>2. PICK from \in {"sent", "working"}, to \in {"working", "rejected", "filled", "cancelled"} :
          /\ book[o].st = from /\ book' = [book EXCEPT ![o].st = to]
          /\ \/ from = "sent" /\ to \in {"working", "rejected", "dropped"}
             \/ from = "working" /\ to \in {"filled", "cancelled"}
    BY <1>1 DEF Broker, Working
  <2>3. \A x \in Orders : book'[x].st = IF x = o THEN to ELSE book[x].st
    BY <2>2, SameBook DEF Entry
  <2>4. Passed' = Passed /\ Halted' = Halted
    BY <2>1 DEF Passed, Placing, Halted
  <2> QED
    BY <2>1, <2>2, <2>3, <2>4, BrokerMoves
<1>2. CASE ServiceStops
  <2>1. ASSUME NEW q \in Req, job'[q].phase = "place", job'[q].pc = "ready"
        PROVE  job[q].phase = "place" /\ job[q].pc = "ready"
    <3>1. job[q] \in Job
      BY SameBook, Zenon
    <3>2. Ended(q, "cut").pc = "done"
      BY <3>1 DEF Ended, Job
    <3> HIDE DEF Ended
    <3>3. job'[q] = job[q] \/ job'[q] = Ended(q, "cut")
      BY <1>2 DEF ServiceStops
    <3> QED
      BY <2>1, <3>2, <3>3
  <2>2. Passed' \subseteq Passed
    BY <2>1 DEF Passed, Placing
  <2> QED
    BY <1>2, <2>2, GivingUp DEF ServiceStops, Halted
<1>3. CASE MinutePasses \/ UNCHANGED vars
  <2>1. UNCHANGED <<flag, job, book, swept>>
    BY <1>3 DEF MinutePasses, vars
  <2> QED
    BY <2>1, GivingUp DEF Halted, Passed, Placing
<1>4. CASE Halt \/ FlagDamaged
  BY <1>4 DEF Halt, FlagDamaged, Switch!Halts, SwitchStep, Switch!Next, Halted, Placing
<1>5. CASE Resume
  BY <1>5 DEF Resume, NoSweep, Switch!Resumes, SwitchStep, Switch!Next, Halted, Placing
<1> QED
  BY <1>1, <1>2, <1>3, <1>4, <1>5

LEMMA SwitchSteps ==
  ASSUME ~LateBook, IInv, Unsent, [Next]_vars
  PROVE  SwitchStep
<1>1. ASSUME NEW r \in Req, Handle(r) PROVE SwitchStep
  BY <1>1, PlainSwitch, LooksSwitch, SendSwitch, CancelSwitch, RunsAgainSwitch, SweepSwitch
     DEF Handle
<1> QED
  BY <1>1, ArriveSwitch, SurroundingSwitch DEF Next

(* An order is nothing to the broker before it was transmitted.            *)
LEMMA StaysUnsent == IInv /\ Unsent /\ [Next]_vars => Unsent'
<1> SUFFICES ASSUME IInv, Unsent, [Next]_vars, NEW r \in Req, sends'[r] = 0
             PROVE  book'[r].st = "none"
  BY DEF Unsent
<1>1. CASE sends' = sends /\ book' = book
  BY <1>1 DEF Unsent
<1>2. ASSUME NEW q \in Req, Handle(q) PROVE book'[r].st = "none"
  <2>1. CASE Transmit(q)
    <3>1. r # q /\ sends[r] = 0 /\ book'[r] = book[r]
      BY <2>1, SameBook DEF Transmit, IInv, TypeOK, Orders
    <3> QED
      BY <3>1 DEF Unsent
  <2>2. CASE sends' = sends /\ Hangup(q)
    BY <2>2, SameBook DEF Hangup, Unsent, Orders
  <2>3. CASE AskCancel(q)
    BY <2>3, CancelFrame DEF Unsent, Orders
  <2>4. CASE Sweep(q)
    BY <2>4, SameBook DEF Sweep, SweepDone, Unsent, Orders, Entry
  <2> QED
    BY <1>1, <1>2, <2>1, <2>2, <2>3, <2>4
       DEF Handle, Reserve, Refuse, Admit, NotAdmitted, ScanEnds, WhatIf, WhatIfFails,
           CheckHalt, NothingSent, Placed, ScriptSaysNo, CancelConfirmed, AlreadyCancelled,
           CancelFails, DrainSeen, SweepFails, TimesOut, Dies, Recovers
<1>3. ASSUME NEW o \in Orders, Broker(o) PROVE book'[r].st = "none"
  BY <1>3, SameBook DEF Broker, Working, Unsent, Orders
<1> QED
  BY <1>1, <1>2, <1>3
     DEF Next, vars, Arrive, MinutePasses, ServiceStops, Halt, Resume, FlagDamaged

(* Every variable keeps its type, whatever the requests and lanes.         *)
THEOREM Typing == Spec => []TypeOK
<1>1. IInv => TypeOK
  BY DEF IInv
<1> QED
  BY <1>1, Initially, Inductive, PTL DEF Spec

(* One request transmits at most one order.                                *)
THEOREM SendsOnce == Spec => []SentOnce
<1>1. IInv => SentOnce
  BY DEF IInv, JobsSane, Sane, SentOnce
<1> QED
  BY <1>1, Initially, Inductive, PTL DEF Spec

(* A plainly refused or failed replacement touched nothing.                *)
THEOREM PlainIsUntouched == Spec => []PlainReplaceIsUntouched
<1>1. IInv => PlainReplaceIsUntouched
  BY DEF IInv, JobsSane, Sane, PlainReplaceIsUntouched
<1> QED
  BY <1>1, Initially, Inductive, PTL DEF Spec

(* A replacement goes out after the orders it replaces are gone.           *)
THEOREM ComesAfter == Spec => []ReplacementComesAfter
<1>1. IInv => ReplacementComesAfter
  <2> SUFFICES ASSUME IInv, NEW r \in Req, job[r].kind = "replace", sends[r] > 0
               PROVE  job[r].todo = {} /\ \A t \in job[r].touched : ~Working(t)
    BY DEF ReplacementComesAfter
  <2>1. sends[r] = 1
    BY SameBook DEF Sane
  <2>2. job[r].todo = {}
    BY <2>1 DEF IInv, JobsSane, Sane
  <2> QED
    BY <2>2 DEF IInv, ConfirmedGone
<1> QED
  BY <1>1, Initially, Inductive, PTL DEF Spec

(* What a kill leaves, when the broker lists its orders in time.           *)
THEOREM SweepHolds == ASSUME ~LateBook PROVE Spec => []KillSweeps
<1>1. Init => SweptInv
  BY DEF Init, SweptInv, NoSweep
<1>2. SweptInv => KillSweeps
  BY DEF SweptInv, KillSweeps
<1>3. IInv /\ SweptInv /\ [Next]_vars => SweptInv'
  BY SweptInductive
<1> QED
  BY <1>1, <1>2, <1>3, Initially, Inductive, PTL DEF Spec

(* The desk implements the switch, when the broker lists its orders in     *)
(* time: whatever the requests do beside each other, an order goes out     *)
(* once and after its last look at the flag, and a confirmed kill leaves   *)
(* what it tells (trading_halt.py:1-20, server.py:3419-3459).              *)
THEOREM ImplementsSwitch == ASSUME ~LateBook PROVE Spec => SwitchHolds
<1>1. Init => Unsent
  BY DeskAssumption DEF Init, Unsent, Orders
<1>2. Init => Switch!Init
  <2> SUFFICES ASSUME Init PROVE Switch!Init
    OBVIOUS
  <2>1. {r \in Req : Placing(r, "ready")} = {}
    BY DEF Init, Placing, Fresh
  <2>2. [o \in Orders |-> book[o].st]
          = [o \in Orders |-> IF o \in Resting THEN "working" ELSE "none"]
    BY DEF Init
  <2> QED
    BY <2>1, <2>2 DEF Init, Switch!Init, Halted, NoSweep
<1>3. IInv /\ Unsent /\ [Next]_vars => [Switch!Next]_Switch!vars
  BY SwitchSteps DEF SwitchStep
<1> QED
  BY <1>1, <1>2, <1>3, Initially, Inductive, StaysUnsent, PTL
     DEF Spec, SwitchHolds, Switch!Spec
=============================================================================
