----------------------------- MODULE FillJournal -----------------------------
(***************************************************************************)
(* How executions reach the journal: two handlers of the monitor daemon    *)
(* (scripts/monitor_daemon) record the same fills under different keys.    *)
(*   fill_monitor  every minute reads the open orders, and writes a MIRROR *)
(*                 row for each increase of an order's fill count; it also *)
(*                 replaces the stored book of working orders;             *)
(*   journal_sync  every five minutes reads the day's executions, writes   *)
(*                 one ROW per execution, replaces a row by its correction *)
(*                 and deletes the mirrors its rows cover;                 *)
(*   evening_execution_sweep imports the same way and deletes no mirror.   *)
(* journal_sync runs in market hours (and a quarter of an hour after), the *)
(* fill monitor until 20:00 ET, the sweep from 20:30 ET on.                *)
(* They run one after the other in the daemon's loop, except that a        *)
(* handler past its deadline goes on in its thread while the loop moves.   *)
(* The daemon keeps a handler from running beside its own thread only; a   *)
(* journal_sync thread that is alive at 20:30, hours past its deadline, is *)
(* not in the model: here the sweep waits for it.  Neither is the sweep's  *)
(* own recovery of older executions from the executed_orders table.        *)
(* An execution is <<o, k>>, the k-th contract of order o; IB reports it   *)
(* with a correction number, 1 for the original.                           *)
(***************************************************************************)
EXTENDS Integers, FiniteSets, FiniteSetsExt, Functions

CONSTANTS
  Order,        \* orders of the account, one contract each
  Size,         \* contracts in an order
  Days,         \* ET session dates in a behaviour, the last up to its close
  Corrections,  \* bound on corrections of executions
  Carried,      \* TRUE: orders are good-til-cancelled, FALSE: day orders
  Faults        \* bound on what goes wrong: reads of the open orders that miss
                \* some, failed calls to the database, kills and stops of the
                \* daemon, handlers that outlive their deadline

ASSUME BoundsAreCounts ==
  /\ Size \in Nat \ {0} /\ Days \in Nat \ {0} /\ Corrections \in Nat
  /\ Carried \in BOOLEAN /\ Faults \in Nat

VARIABLES
  state,     \* an order at IB: new, working, or done (filled, cancelled, expired)
  execs,     \* executions at IB: the day of each and its latest correction
  day,       \* today's ET session date
  hours,     \* what of it: regular (with the grace), late, night
  known,     \* fill_monitor.known_orders: order -> fill count last seen
  saved,     \* the same in the daemon's state file
  mirrors,   \* journal rows keyed fill-monitor:...:{day}:filled-{n}
  rows,      \* journal rows keyed by execution id
  shown,     \* the stored open_orders snapshot
  mon,       \* the fill_monitor run in progress
  syn,       \* the journal_sync (or sweep) run in progress
  loop,      \* where run_once is
  budget     \* what is left of the bounds on corrections and faults

vars == <<state, execs, day, hours, known, saved, mirrors, rows, shown, mon, syn, loop, budget>>

Exec    == Order \X (1..Size)
Version == 1..(Corrections + 1)
Baseline == UNION {[D -> 0..Size] : D \in SUBSET Order}
Mirror  == [o : Order, day : 1..Days, n : 1..Size, newly : 1..Size]
Row     == [x : Exec, id : Version, cor : Version]

live == {o \in Order : state[o] = "working"}

\* What IB reports as an order's filled quantity: over all its days.
Filled(o)   == Cardinality({x \in DOMAIN execs : x[1] = o})
Executed(o) == {x \in DOMAIN execs : x[1] = o}
Today       == {x \in DOMAIN execs : execs[x].day = day}

\* Mutant: the host's date, a day ahead in the evening.
StampOfHost == IF day < Days THEN day + 1 ELSE day

\* et_session_date: the date a mirror is keyed with is the day it is detected.
Stamp == day

NoMon == [pc |-> "idle", book |-> <<>>, todo |-> {}, news |-> FALSE]
NoSyn == [pc |-> "idle", sweep |-> FALSE, view |-> {}, todo |-> {}, written |-> {}]

Init ==
  /\ state = [o \in Order |-> "new"] /\ execs = <<>> /\ day = 1 /\ hours = "regular"
  /\ known = <<>> /\ saved = <<>>
  /\ mirrors = {} /\ rows = {} /\ shown = {}
  /\ mon = NoMon /\ syn = NoSyn /\ loop = "start"
  /\ budget = [correct |-> Corrections, fault |-> Faults]

clock  == <<day, hours>>
broker == <<state, execs, clock>>
store  == <<mirrors, rows, shown>>

Costs(kind, cond) ==
  IF cond THEN /\ budget[kind] > 0 /\ budget' = [budget EXCEPT ![kind] = @ - 1]
          ELSE UNCHANGED budget
-----------------------------------------------------------------------------
(* The broker.                                                             *)

Place(o) ==
  /\ state[o] = "new"
  /\ state' = [state EXCEPT ![o] = "working"]
  /\ UNCHANGED <<execs, clock, known, saved, store, mon, syn, loop, budget>>

Fill(o) ==
  /\ o \in live
  /\ LET k == Filled(o) + 1 IN
       /\ execs' = [x \in DOMAIN execs \cup {<<o, k>>} |->
                      IF x = <<o, k>> THEN [day |-> day, cor |-> 1] ELSE execs[x]]
       /\ state' = IF k = Size THEN [state EXCEPT ![o] = "done"] ELSE state
  /\ UNCHANGED <<clock, known, saved, store, mon, syn, loop, budget>>

Cancelled(o) ==
  /\ o \in live
  /\ state' = [state EXCEPT ![o] = "done"]
  /\ UNCHANGED <<execs, clock, known, saved, store, mon, syn, loop, budget>>

Corrected(x) ==
  /\ x \in Today
  /\ Costs("correct", TRUE)
  /\ execs' = [execs EXCEPT ![x].cor = @ + 1]
  /\ UNCHANGED <<state, clock, known, saved, store, mon, syn, loop>>

\* 16:15 and 20:00, whatever is going on; a behaviour ends before the last
\* day's close.
HoursPass ==
  /\ day < Days
  /\ \/ hours = "regular" /\ hours' = "late"
     \/ hours = "late" /\ hours' = "night"
  /\ UNCHANGED <<state, execs, day, known, saved, store, mon, syn, loop, budget>>

\* No handler is at work at midnight; a day order ends with its day.
DayEnds ==
  /\ day < Days /\ hours = "night" /\ mon = NoMon /\ syn = NoSyn
  /\ hours' = "regular"
  /\ day' = day + 1
  /\ state' = [o \in Order |-> IF o \in live /\ ~Carried THEN "done" ELSE state[o]]
  /\ UNCHANGED <<execs, known, saved, store, mon, syn, loop, budget>>
-----------------------------------------------------------------------------
(* fill_monitor.execute.                                                   *)

\* A read of the open orders waits half a second for the end of the list
\* and then takes what has arrived.
Book(b) == b \subseteq live /\ Costs("fault", b # live)

\* session_window: 04:00 to 20:00 ET.
MonReads ==
  /\ mon.pc = "idle" /\ loop = "start" /\ hours # "night"
  /\ \E b \in SUBSET live :
       /\ Book(b)
       /\ mon' = [pc |-> "orders", book |-> [o \in b |-> Filled(o)], todo |-> b, news |-> FALSE]
  /\ loop' = "mon"
  /\ UNCHANGED <<broker, known, saved, store, syn>>

\* Mutant: the increment is one short.
MirroredShort(o, before) ==
  LET m == [o |-> o, day |-> Stamp, n |-> mon.book[o], newly |-> mon.book[o] - before - 1] IN
  {r \in mirrors : ~(r.o = m.o /\ r.day = m.day /\ r.n = m.n)} \cup {m}

\* The row's key holds the running count, its quantity is the increment; a
\* failed write is logged and the count is taken as seen all the same.
Mirrored(o, before) ==
  LET m == [o |-> o, day |-> Stamp, n |-> mon.book[o], newly |-> mon.book[o] - before] IN
  {r \in mirrors : ~(r.o = m.o /\ r.day = m.day /\ r.n = m.n)} \cup {m}

\* An order not seen before is only a baseline.
Increase(o) == o \in DOMAIN known /\ mon.book[o] > known[o]

MonOrder(o) ==
  /\ mon.pc = "orders" /\ o \in mon.todo
  /\ IF Increase(o)
       THEN \E lost \in BOOLEAN :
              /\ Costs("fault", lost)
              /\ mirrors' = IF lost THEN mirrors ELSE Mirrored(o, known[o])
       ELSE UNCHANGED <<mirrors, budget>>
  /\ known' = [p \in DOMAIN known \cup {o} |-> IF p = o THEN mon.book[o] ELSE known[p]]
  /\ mon' = [mon EXCEPT !.todo = @ \ {o}, !.news = @ \/ Increase(o)]
  /\ UNCHANGED <<broker, saved, rows, shown, syn, loop>>

\* What the run does with its last step: the loop moves on, if it waited.
MonDone == mon' = NoMon /\ loop' = IF loop = "mon" THEN "sync" ELSE loop

Gone == DOMAIN known \ DOMAIN mon.book

\* Vanished is not filled: the executions decide what is announced, but the
\* baseline goes either way.
MonForgets ==
  /\ mon.pc = "orders" /\ mon.todo = {}
  /\ known' = Restrict(known, DOMAIN known \ Gone)
  /\ LET news == mon.news \/ \E o \in Gone : Executed(o) \cap Today # {} IN
       IF news THEN mon' = [mon EXCEPT !.pc = "snapshot", !.news = TRUE] /\ UNCHANGED loop
               ELSE MonDone
  /\ UNCHANGED <<broker, saved, store, syn, budget>>

\* An empty book on a session without accounts, or no executions to compare
\* with: every baseline is kept and the run ends.
MonDefers ==
  /\ mon.pc = "orders" /\ mon.todo = {} /\ Gone # {}
  /\ MonDone
  /\ UNCHANGED <<broker, known, saved, store, syn, budget>>

\* _mirror_ib_orders_snapshot: a second read must hold every tracked order,
\* and an empty one does not replace a book that is not.
Believed(b) == DOMAIN known \subseteq b /\ (b = {} => shown = {})

MonSnapshots ==
  /\ mon.pc = "snapshot"
  /\ \E b \in SUBSET live :
       /\ Book(b)
       /\ shown' = IF Believed(b) THEN b ELSE shown
  /\ MonDone
  /\ UNCHANGED <<broker, known, saved, mirrors, rows, syn>>

\* The handler is not due, or fails before its first read.
MonSkips ==
  /\ loop = "start"
  /\ loop' = "sync"
  /\ UNCHANGED <<broker, known, saved, store, mon, syn, budget>>
-----------------------------------------------------------------------------
(* journal_sync.execute and the sweep's import_fills.                      *)

\* _fills_to_entries: a later correction replaces the row under its own key,
\* an equal or earlier one is dropped, an execution without a row gets one
\* under the first number walked (_correction_index finds the row).
Entries(seen, view) ==
  {[r EXCEPT !.cor = seen[r.x]] :
     r \in {q \in view : q.x \in DOMAIN seen /\ seen[q.x] > q.cor}}

\* Mutant: only the very same execution id counts as imported.
FreshById(seen, view) ==
  {x \in DOMAIN seen : ~\E r \in view : r.x = x /\ r.id = seen[x]}

Fresh(seen, view) == {x \in DOMAIN seen : ~\E r \in view : r.x = x}

\* A session reports executions of today only: some, each with its
\* corrections up to one.
Reports == UNION {[S -> Version] : S \in SUBSET Today}

SynReadsThat(seen, sweep) ==
  /\ syn.pc = "idle" /\ loop = "sync"
  /\ hours = IF sweep THEN "night" ELSE "regular"
  /\ \A x \in DOMAIN seen : seen[x] <= execs[x].cor
  /\ \E first \in [Fresh(seen, rows) -> Version] :
       /\ \A x \in DOMAIN first : first[x] <= seen[x]
       /\ syn' = [pc |-> "write", sweep |-> sweep, view |-> rows,
                  todo |-> Entries(seen, rows) \cup
                           {[x |-> x, id |-> first[x], cor |-> seen[x]] : x \in DOMAIN first},
                  written |-> {}]
  /\ loop' = "syn"
  /\ UNCHANGED <<broker, known, saved, store, mon, budget>>

SynReads == \E seen \in Reports, sweep \in BOOLEAN : SynReadsThat(seen, sweep)

\* Mutant: a failed upsert covers too.
CoveringAnyway(e, lost) == syn.written \cup {e}

\* _dual_write: one upsert; a failed one is counted and does not cover.
Covering(e, lost) == IF lost THEN syn.written ELSE syn.written \cup {e}

SynWrites(e) ==
  /\ syn.pc = "write" /\ e \in syn.todo
  /\ \E lost \in BOOLEAN :
       /\ Costs("fault", lost)
       /\ rows' = IF lost THEN rows
                          ELSE {r \in rows : ~(r.x = e.x /\ r.id = e.id)} \cup {e}
       /\ syn' = [syn EXCEPT !.todo = @ \ {e}, !.written = Covering(e, lost)]
  /\ UNCHANGED <<broker, known, saved, mirrors, shown, mon, loop>>

SynDone == syn' = NoSyn /\ loop' = IF loop = "syn" THEN "save" ELSE loop

\* Mutant: only what this cycle wrote covers.
CoverOfCycle(o, d) ==
  Cardinality({x \in {r.x : r \in syn.written} : x[1] = o /\ execs[x].day = d})

\* _exec_qty_by_order: the executions of an order on one date, once each.
Cover(o, d) ==
  Cardinality({x \in {r.x : r \in syn.view \cup syn.written} : x[1] = o /\ execs[x].day = d})

Covered(m) == Cover(m.o, m.day) >= m.n

Superseded == {m \in mirrors : Covered(m)}

SynSupersedes ==
  /\ syn.pc = "write" /\ syn.todo = {} /\ ~syn.sweep
  /\ \E kept \in SUBSET Superseded :
       /\ Costs("fault", kept # {})
       /\ mirrors' = mirrors \ (Superseded \ kept)
  /\ SynDone
  /\ UNCHANGED <<broker, known, saved, rows, shown, mon>>

SweepEnds ==
  /\ syn.pc = "write" /\ syn.todo = {} /\ syn.sweep
  /\ SynDone
  /\ UNCHANGED <<broker, known, saved, store, mon, budget>>

SynSkips ==
  /\ loop = "sync"
  /\ loop' = "save"
  /\ UNCHANGED <<broker, known, saved, store, mon, syn, budget>>
-----------------------------------------------------------------------------
(* The daemon.                                                             *)

\* _run_handler_bounded: the loop moves on, the thread does too; the same
\* handler is not started again while it runs.
Overruns_(h, next) ==
  /\ loop = h
  /\ Costs("fault", TRUE)
  /\ loop' = next
  /\ UNCHANGED <<broker, known, saved, store, mon, syn>>

LoopMovesOn == Overruns_("mon", "sync") \/ Overruns_("syn", "save")

\* run_once ends with the state file.
Saves ==
  /\ loop = "save"
  /\ saved' = known
  /\ loop' = "start"
  /\ UNCHANGED <<broker, known, store, mon, syn, budget>>

\* A kill loses the memory and the runs in progress; load_state brings back
\* the state file.
Crash ==
  /\ Costs("fault", TRUE)
  /\ known' = saved
  /\ mon' = NoMon /\ syn' = NoSyn /\ loop' = "start"
  /\ UNCHANGED <<broker, saved, store>>

\* SIGTERM writes the state file at whatever point the run is; the process
\* then waits for the threads of its handlers, which go on.
Stops ==
  /\ loop # "stopped"
  /\ Costs("fault", TRUE)
  /\ saved' = known
  /\ loop' = "stopped"
  /\ UNCHANGED <<broker, known, store, mon, syn>>

Restart ==
  /\ loop = "stopped"
  /\ known' = saved
  /\ mon' = NoMon /\ syn' = NoSyn /\ loop' = "start"
  /\ UNCHANGED <<broker, saved, store, budget>>

Broker == \/ \E o \in Order : Place(o) \/ Fill(o) \/ Cancelled(o)
          \/ \E x \in Exec : x \in DOMAIN execs /\ Corrected(x)
          \/ HoursPass \/ DayEnds

Monitor == \/ MonReads \/ MonForgets \/ MonDefers \/ MonSnapshots
           \/ \E o \in Order : MonOrder(o)

Sync == \/ SynReads \/ SynSupersedes \/ SweepEnds
        \/ \E e \in syn.todo : SynWrites(e)

Next == \/ Broker \/ Monitor \/ Sync \/ MonSkips \/ SynSkips
        \/ LoopMovesOn \/ Saves \/ Crash \/ Stops \/ Restart

Spec == Init /\ [][Next]_vars

\* The loop turns, a started run ends, and while the market is open a sync
\* that is told of the whole day comes again and again.
SyncOfAll == SynReadsThat([x \in Today |-> execs[x].cor], FALSE)

FairSpec ==
  /\ Spec
  /\ WF_vars(Monitor) /\ WF_vars(MonSkips) /\ WF_vars(SynSkips)
  /\ WF_vars(Saves) /\ WF_vars(Restart)
  /\ WF_vars(SynSupersedes) /\ WF_vars(SweepEnds) /\ WF_vars(\E e \in syn.todo : SynWrites(e))
  /\ SF_vars(SyncOfAll)
-----------------------------------------------------------------------------
(* What it is for.                                                         *)

TypeOK ==
  /\ state \in [Order -> {"new", "working", "done"}]
  /\ DOMAIN execs \subseteq Exec
  /\ day \in 1..Days /\ hours \in {"regular", "late", "night"}
  /\ known \in Baseline /\ saved \in Baseline
  /\ mirrors \subseteq Mirror /\ rows \subseteq Row
  /\ shown \subseteq Order
  /\ syn.todo \subseteq Row /\ syn.written \subseteq Row
  /\ loop \in {"start", "mon", "sync", "syn", "save", "stopped"}

\* The rows are the ledger of the broker's executions: one for each, never
\* withdrawn, never ahead of the broker, and never taken back to an earlier
\* correction by a sync that read it before.
Ledger == INSTANCE ExecutionLedger
            WITH truth <- [x \in DOMAIN execs |-> execs[x].cor], ledger <- rows

LedgerHolds == Ledger!Spec

\* An execution has one row in the journal, however it was corrected,
\* replayed, half written or imported again after a crash.
OneRowPerExecution == \A r, q \in rows : r.x = q.x => r = q

\* A mirror is deleted only when the rows in the journal account for the
\* count it recorded, whatever failed or went on beside the sync.
MirrorsGoWhenCovered ==
  [][\A m \in mirrors \ mirrors' :
       \/ \E p \in mirrors' : p.o = m.o /\ p.day = m.day /\ p.n = m.n
       \/ Cardinality({r \in rows : r.x[1] = m.o}) >= m.n]_vars

\* A sync without a failed call that knew every execution of an order leaves
\* no mirror of it: the fills are in the journal once.
Imported(o) == Executed(o) \subseteq {r.x : r \in syn.view \cup syn.written}

SyncClearsMirrors ==
  [][SynSupersedes /\ UNCHANGED budget
       => \A o \in Order : Imported(o) => \A m \in mirrors' : m.o # o]_vars

\* In a session that lasts, its fills and those of earlier evenings that the
\* sweep brought in come to be counted once each, in rows alone; until then
\* an evening fill is counted twice (journal_sync.py:88-94, fill_monitor.py:97).
Counted(o) ==
  FoldSet(LAMBDA m, n : m.newly + n, 0, {m \in mirrors : m.o = o})
    + Cardinality({r \in rows : r.x[1] = o})

Reported(o) == Executed(o) \subseteq Today \cup {r.x : r \in rows}

Settles ==
  <>[](hours = "regular") => <>[](\A o \in Order : Reported(o) => Counted(o) = Filled(o))
=============================================================================
