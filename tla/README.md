# A verification of Radon's Gateway control, connections, orders and fills

Radon is a trading desk that runs on one or two small servers: a Next.js
application, a FastAPI service that talks to Interactive Brokers (IB), a
realtime price relay, a monitor daemon, and some fifty systemd timers that scan,
reconcile and report. All of it hangs on one fragile resource, the IB Gateway: a
container with a login session that only a human can renew, by approving a
two-factor push on a phone. Every start of the Gateway sends such a push, and
two pending pushes invalidate each other. The TLA+ modules here model the code
that decides who may start, restart or stop the Gateway, and when; the pool
of connections to it that every request shares; the way an order takes to the
broker and a fill takes to the journal. TLC checks
them on small instances and TLAPS proves the main properties for every
instance.

Paths below are those of the repository, without its `src/` prefix in
`PROJECT.json`.

## 1. The system

### Parts, state and interactions

| Part | State | Operations | Interacts with |
|---|---|---|---|
| 2FA push lease, `scripts/utils/ib_2fa_lock.py` | the lease file, the consumed marker, a flock guard; per process: the last lease whose port answered | acquire, release, check, consume, CLI | called by every path that can send a push |
| Gateway control helper, `cloud/scripts/ib-gateway-control.sh` | deploy lock, lifecycle mutex, transition journal; behind it Docker | start, operator-start, restart, restart-preheld, stop, reset-lease | the lease CLI; the Docker daemon; run by systemd, by operators, by the remote control daemon and by deploys |
| IB watchdog, `scripts/ib_watchdog.py` | a JSON state file: counters, histories, pending flags | one cycle per minute | `/health` of FastAPI, the Gateway's own port, the lease, the preheld adapter unit |
| FastAPI Gateway lifecycle, `scripts/api/ib_gateway.py`, heartbeat of `server.py` | restart backoff, last authentication state, recovery counts, an in-process lock | check, ensure, restart, reset-backoff, authentication edge, pool recovery, self-restart | the lease, Docker, the pool, systemd |
| Remote control daemon, `scripts/ib_gateway_remote/serve.py` | history of verbs for a cooldown | start, restart, stop, reset-lease over mTLS | runs the helper on the broker host |
| IB pool and calls, `scripts/api/ib_pool.py`, `ib_executor.py`, `subprocess.py`, `scan_gate.py`, `services.py` | three client connections, a lock per role and one for the whole pool, the count of wedged workers; single-flight scans | acquire, retire, connect, disconnect, reconnect; run | server, Gateway |
| Orders, `scripts/api/server.py`, `subprocess.py`, `scripts/trading_halt.py`, `ib_place_order.py`, `ib_order_manage.py`, `ib_cancel_all.py` | the halt flag, a rate window, subprocess slots; the broker's book | place, replace, modify, cancel, cancel-all, kill, halt, resume | scripts with connections of their own, the Gateway, the audit log |
| Idempotency, `web/lib/orders/orderIdempotency.ts` | outcomes per key in memory and in a file | one placement per key | the order routes |
| Monitor daemon, `scripts/monitor_daemon/` | one state file, due times, backoff; the journal | handlers: fills, journal, sweep, expiry, reconciliation | Gateway, database |
| Realtime relay, `scripts/ib_realtime_server.js`, `scripts/lib/*.js` | subscriptions by reference count, stale-data machine, reconnect gate, depth budget | subscribe, ticks, reconnect | Gateway, browsers |
| Alerting, `scripts/watchdog/` | cooldowns, acknowledgements, pages | check, notify | database |
| Incident responder and probes, `scripts/incident_watchdog`, `health_service`, `health_probe` | incident claims | claim, escalate | alerting |
| Deploy, `cloud/scripts/deploy*.{sh,py}` | deploy journal, deploy lock | deploy, recover, roll back | systemd, the helper |
| Vendor budgets, `scripts/utils/*budget*.py`, `*embargo*.py` | counters in locked files | reserve, embargo | vendor clients |
| Database layer, `scripts/db/` | Turso tables | writes, retention, migration | everybody |
| Browser sync, `web/lib/sync*.ts`, `autoSyncClaim.ts`, `reconnectStrategy.ts` | mutex, claims, retry timers | sync, reconnect | Next.js |
| Arithmetic, scanners, content, paper trading, sites | tables and reports | batch runs | vendors, database |

An order goes from the browser to the Next.js route, which runs one placement per
idempotency key; from there to FastAPI, which looks at the halt flag, reserves a
place in the minute's budget, waits for a subprocess slot and runs a script that
looks at the flag again, transmits the order and polls for the broker's word.
What the broker then fills comes back through the monitor daemon: one handler
sees the open orders' counts grow and writes mirror rows, another reads the
executions, writes a row for each and deletes the mirrors they cover.

A restart of the Gateway goes through most of the first five: the watchdog finds
the API hung, asks its ladder whether it may act, acquires the push lease, and
starts the adapter unit; the adapter runs the helper with `restart-preheld`; the
helper takes the deploy lock and the lifecycle mutex, waits for an unfinished
earlier transition, consumes the lease, journals the desired state, takes the
container down and up, and watches it settle; the Gateway logs in and sends the
push; when a later probe is authenticated the lease is released.

### What is hard here

- **Interleaving.** Five independent programs on two hosts may want to restart
  the Gateway. What separates them is a file with an expiry, two flocks taken in
  either order, and a journal.
- **Late effects.** A Docker client that is killed at its timeout leaves its
  request with the daemon. A `systemctl start` that is given up on leaves its
  unit running.
- **Crashes.** The watchdog keeps its counters in memory while it acts, under
  an alarm of 45 s and a unit timeout of 60 s.
- **Clocks.** Expiry, grace, backoff, rolling windows and a suppression grace,
  some of them judged on a time read before a wait.
- **Threads that cannot be stopped.** A request that times out or is cancelled
  leaves its worker inside the client, and a connect under way returns a client
  that nobody waits for.
- **Half-done work.** A replacement cancels before it places; a sync writes some of
  its rows; a script dies after it transmitted. What is answered then decides
  whether somebody does it again.
- **Two keys for one fact.** A fill has a mirror row by order and count and an
  execution row by id, written by two handlers that may each crash or overrun.
- **Guesses.** A port that refuses may be a dead Gateway or a slow one; a Gateway
  that answers nothing may be hung or parked at its prompt.

The hazards in `PROJECT.json` list these at their lines, each with the property
that covers it or the reason why none does.

### What makes each part correct

- *Lease*: decisions under the guard are about the file as it is; a young lease is
  never displaced; one lease pays for one cycle.
- *Helper*: one mutator; no second Docker operation over an unfinished one; truthful
  `start`; a `stop` that releases only over a stopped container; an unanswered push
  keeps its lease, unless the watchdog or an operator takes it away; every invocation ends.
- *Watchdog*: restarts are capped, spaced, and preceded by an unbroken warm-up;
  recovery is confirmed before it is declared.
- *IB pool*: no connection is lost track of; a borrower's client stays its own; a client
  that a bounded call left behind serves nobody else; every borrower and every job ends.
- *FastAPI lifecycle*: failed attempts thin out; a lease is given back by its owner
  only; the process does not exit in a loop; a pool that is disconnected comes back.
- *Orders*: a kill leaves no order but those under way; a replacement follows its
  cancels and a refused one touches nothing; an order is sent once.
- *Idempotency*: one placement per key at a time and within the retention; whoever
  is told ok has an order.
- *Fills*: one row per execution; no mirror goes early or stays behind; in the
  end every fill is counted once.
- *Remote control* (planned): nothing starts within the cooldown of a stop, also after
  a restart of the daemon.
- *Relay* (planned): a symbol is subscribed while somebody wants it and not after; no
  reconnect storm.
- *Alerting, budgets, deploy, browser sync* (planned): one page per incident until
  acknowledged; a budget shared by processes is not exceeded; an interrupted deploy is
  rolled back or completed; one sync at a time.

## 2. Modules

| Module | Models | Companions |
|---|---|---|
| `LeaseContract` | what the lease promises, abstractly | instantiated by `PushLease` |
| `TradingHalt` | what the kill switch promises, abstractly | instantiated by `OrderDesk` |
| `PlaceOnce` | what an idempotency key promises, abstractly | instantiated by `OrderPath` |
| `ExecutionLedger` | what the journal promises about executions, abstractly | instantiated by `FillJournal` |
| `PushLease` | `scripts/utils/ib_2fa_lock.py` | `MCPushLease`, `PushLease.cfg`, `PushLeaseProofs` |
| `IbWatchdog` | `scripts/ib_watchdog.py` and its timer | `IbWatchdog.cfg`, `IbWatchdogProofs` |
| `GatewayControl` | `cloud/scripts/ib-gateway-control.sh`, the adapter unit, and the watchdog's handoff | `MCGatewayControl`, `GatewayControl.cfg`, `GatewayRollback.cfg`, `GatewayControlProofs` |
| `GatewayRestart` | `scripts/api/ib_gateway.py` in docker mode, the heartbeat in `server.py` | `MCGatewayRestart`, `GatewayRestart.cfg`, `GatewayRestartProofs` |
| `IBPool` | `scripts/api/ib_pool.py`, `ib_executor.py`, and the callers in `routes/historical.py` and `server.py` | `MCIBPool`, `IBPool.cfg`, `IBPoolEnds.cfg`, `IBPoolProofs` |
| `OrderDesk` | the order routes of `server.py`, `subprocess.py`, `trading_halt.py` and the three order scripts | `MCOrderDesk`, `OrderDesk.cfg`, `OrderDeskProofs` |
| `OrderPath` | `web/lib/orders/orderIdempotency.ts` and the place route; extends `OrderDesk` | `MCOrderPath`, `OrderPath.cfg`, `OrderRetry.cfg`, `OrderPathProofs` |
| `FillJournal` | `fill_monitor.py`, `journal_sync.py`, the import of `evening_execution_sweep.py`, the loop of `daemon.py` | `MCFillJournal`, `FillJournal.cfg`, `FillCarried.cfg`, `FillJournalProofs` |

Definitions that begin a comment with "Mutated" or "Mutant" are faulty variants of the one
that follows them. Substituting one for the other must break the property named
in `PROJECT.json`; nothing else uses them.

### PushLease

`lease` is the file, a record with holder, `acquired`, `expires` and a `stamp`
that stands for the fraction of a second by which two leases of the same second
differ; `marker` is the last lease consumed; `guard` the process inside the
exclusive flock; `call[p]` the call each process is in, with the time it read on
entry (`at`), what it read (`got`) and the probes that found the port down;
`seenUp[p]` the module global `_orphan_seen_up`. `cover` and `used` are history.

| Actions | Code |
|---|---|
| `Begin`, `Enter`, `GuardTimeout` | entry of a call: the clock is read, then the guard is waited for (`_guard`) |
| `HonourYoung`, `Probe`, `DeferOrphan` | `_is_orphaned`: grace, up to three probes, and the deferral when this process saw the port up |
| `AcquireGrant`, `CheckFree`, `Release`, `Consume` | the four operations |
| `Crash`, `Damage` | the kernel drops a dead process's flock; the file stops parsing and reads as an unknown holder dated by its mtime |
| `Tick` | time passes, also while a call waits for the guard |

`check` drops its shared guard before it judges what it read, as the code does, and
the CLI's `release <holder>` is a check followed by a release in a second guarded
section. The port's answers are free, so orphan verdicts may be wrong. A call may
take any time: the CLI's verbs wait for the guard without a timeout
(`ib_2fa_lock.py:221-222`, 534-535, 573-574). `Damage` is a file that does not parse; valid
JSON without the fields, which would read as an expired lease (155-161), is not modelled,
as nothing writes it.

`LeaseContract` keeps of this one grant, how many there were, what each has paid
for, and the time: a grant is made over nothing or over one that is no longer
young, spent once and before it ran out, and given back. `PushLease` implements it with
`granted <- cover`, `number <- grants`, `spent <- used`, `time <- now`: what the file
says, who holds the guard, who reads an old clock, damage and crashes all map to
stutters.

### GatewayControl

A process is one invocation of the helper; `run[p]` says where it is, for which
verb, how many settled observations it has made in a row, and which state its
current half-cycle wants. `deploy` and `mutex` are the two flocks, `journal` the
transition file, `inflight` what the Docker daemon has been asked for and not
done, `container` and `push` the Gateway, `lease` and `spent` the push lease
reduced to its holder, and `watch` the watchdog's `trigger_restart`. `bare` is history: a
lease that a cycle had paid with (`Paid`) was taken away before its push was answered, by
the watchdog's roll-back (`GiveUp`) or by a manual reset, and no cycle with a lease of its own
has asked Docker for anything since.

| Actions | Code |
|---|---|
| `TakeDeploy`, `DeployBusy` | `acquire_deploy_lock`: one attempt, rc 74 |
| `TakeMutex`, `MutexBusy` | `acquire_lifecycle_mutex`: attempts until the deadline |
| `StartNoOp`, `NeedsDeploy`, `DecideStart` | `start` under the mutex alone, then under both |
| `AppRoleRefused` | `refuse_app_role_mutation` |
| `NothingPending`, `Observe`, `ObserveOther`, `Settled`, `Unsettled` | `reconcile_pending_transition` and `wait_for_desired_state`: two matching observations in a row, or the deadline |
| `TakeLease`, `LeaseRefused` | `require_new_lease`, `consume_watchdog_lease_once` |
| `WriteTransition`, `Issue`, `ClientEnds` | `compose_to_state`: journal, request, bounded client |
| `FinalCheck`, `ReleaseAny`, `Kill` | the last inspect, `release_any_lease`, SIGKILL and `TimeoutStartSec` |
| `HandOff` | `trigger_restart` in `ib_watchdog.py`, with a fresh lease |
| `GiveUp` | the unit failed or took longer than 40 s: `_release_preheld_lease`, whatever became of the container (`ib_watchdog.py:660-668`) |
| `HandedOff` | the unit succeeded, the watchdog was killed, or the roll-back could not get the guard in its time (680-686): the lease stays |
| `DaemonActs`, `DaemonDrops`, `ContainerDies`, `PushAnswered`, `LeaseEnds`, `DeployLockMoves`, `JournalRots` | Docker, the Gateway, the phone, the lease's end, deploys and a spoilt file |

Assumptions, all visible in the actions:

- An operation asked for what holds already leaves the daemon with nothing to do,
  and a stop in flight is moot once the container has died. Compose has
  `restart: "no"`, so a container never comes up by itself.
- `LeaseEnds` only over a settled system: a lease's 600 s and its 90 s grace
  outlast a cycle (at most 84 s) and an unanswered push (the Gateway exits when
  its prompt times out). The probes' mistakes are PushLease's subject, not this
  module's.
- A failed lease CLI ends the invocation as `Kill` does.

### IbWatchdog

One clock unit is one period of the timer. `disk` is the state file, `ram` the
`WatchdogState` of the running cycle; a cycle begins with a sample (`Begin`), does
what its branch says (`Hang*`, `Stuck*`, `Healthy`, `Watch`, ...), may acquire the
lease, restart (`TriggerRestart`, `RestartReturned`), and ends in `Save`. `Abort`
ends it anywhere. `LoseState` is a state file that is gone or does not parse. The
sample is a free choice over everything `/health` and the direct probe can
report, so no assumption is made about how the Gateway behaves. `apiPushes`,
`stuckPushes` and `hangRun` are history variables, and `uncounted` says that a restart
was lost from the counters, by an abort between restart and save or with the state
file.

Each cycle samples once although the code reads the clock several times in it; a
cycle lasts less than a period. JVM forensics, attribution of client ids, the
certificate warning and the service-health rows feed no decision and are left out.

### GatewayRestart

`gw` is the Gateway from down over its prompt to logged in, `pool` says of each role
whether it is connected and to a session with accounts, `op` is the holder of
`_restart_lock`, `rs` the backoff, `auth` the state of the authentication edge, `rec`
the recovery's failures and cooldown, `beat` the heartbeat between its awaits, and
`lease` the push lease by holder and age. Times are ages and remaining waits, so that
no behaviour ends.

| Actions | Code |
|---|---|
| `RestartAsked`, `CycleGateway`, `Confirmed`, `Unconfirmed` | `restart_ib_gateway`: the gates, compose, the poll for accounts, the next rung of the ladder or its reset |
| `OpRedialed`, `PoolDialed` | `reconnect_all` on the edge, the redial of the route and of the lifespan |
| `Reset`, `StartUp`, `Gone`, `Dies` | `reset_backoff`, `ensure_ib_gateway`, the end of the process |
| `Beat`, `Transition`, `AllRedialed` | the heartbeat's check and `handle_auth_state_transition` |
| `Guard`, `Probed`, `RolesRedialed`, `RolesTimeout`, `SecondProbed`, `Escalate` | `_recover_stuck_pool_guarded`, `recover_stuck_pool`, `_restart_radon_api_self` |
| `OtherCycles`, `OtherReleases` | the watchdog and the helper, reduced to what they do to the lease |
| `Boots`, `Approved`, `Lost`, `Drop`, `Tick` | the Gateway, its sockets, clocks |

The authentication state is derived from the pool itself (`Derived`), and what a dial
can lead to from the Gateway (`Dialled`). `PushIsCovered` asks for a lease of any age: one
that has run out is in its file still, but keeps nobody away; what the property excludes is
that a lease is given back. A restart may take `Span` units, which the
ladder does not outlast, so that the dating of the next attempt matters.

### IBPool

A task is a coroutine of the event loop; `job[t]` says what it does (`kind`), at which
await it is (`at`), for which role and with which client. `pool` is `_clients`,
`lock` and `life` are the role locks and the lifecycle lock (`_lifecycle_transition`
is set exactly while `life` is taken), `sock` is the connection of each client
object, `closing` the clients that a worker is disconnecting; `stray` names the roles whose
client still serves a worker that was left behind, and how it was left; `wedged` is
the counter of `ib_executor`. What the code does between two awaits is one action.

| Actions | Code |
|---|---|
| `Borrow`, `BorrowRefused`, `BorrowLive`, `BorrowDead`, `ProbeAnswers`, `ProbeFails` | `_PoolContext.__aenter__`, `_is_live` |
| `CloseStale`, `DialFresh`, `StaleClosed`, `Dialed`, `DialFailed`, `CancelDial`, `Abandon` | `_reconnect`, `_connect_owned`, and the same steps in `connect_all` |
| `Submit`, `CallAnswers`, `CallTimesOut`, `Leave` | the callers: `_bounded_pool_call` ("bounded"), and those that leave the worker without retiring its client ("abandoning"); `__aexit__` |
| `StartLife`, `TakeLife`, `SkipConnected`, `ReconnectRole`, `DropRole`, `StartRoles` | `connect_all` ("connect"), `disconnect_all` ("drop"), `reconnect_all` ("redrop"), and `recover_stuck_pool` with `reconnect_roles` ("roles") |
| `Cancel` | `CancelledError` at any await |
| `DialEnds`, `Closes`, `SocketDrops`, `StrayReturns`, `WedgedReturns` | worker threads, the Gateway, `_reap_timed_out_worker` |

A task is cancelled once: a second cancellation while it waits for its late
client is left out, as is a `disconnect` that fails and leaves the connection up. Roles
are taken in any order although the code's is fixed. That the Gateway rejects a
second client with an id in use is not modelled: `NoLostConnection` is about the
cause. Client objects are reused once nobody refers to them, so that few of them
stand for any number.

### OrderDesk

`job[r]` is a request and the script it runs: its kind, where it stands (`pc`), which script
(`phase`), the targets it has not confirmed, and its answer. `book` is the broker's
view of every order, `flag` the halt file, `stamps` the rate window.

| Actions | Code |
|---|---|
| `Arrive`, `Reserve`, `Refuse`, `MinutePasses` | `_refuse_if_trading_halted`, the limits, `_refuse_if_order_rate_exceeded` |
| `Admit`, `NotAdmitted`, `ScanEnds` | the subprocess lanes and their admission wait; failure cooldown and Gateway check |
| `WhatIf`, `WhatIfFails` | the what-if of a replacement and the second look at the flag |
| `CheckHalt`, `NothingSent`, `Transmit`, `Placed`, `ScriptSaysNo` | `ib_place_order.py` |
| `AskCancel`, `CancelConfirmed`, `AlreadyCancelled`, `CancelFails` | `ib_order_manage.py` and `_cancel_confirmed_at_broker` |
| `Sweep`, `DrainSeen`, `SweepFails` | `ib_cancel_all.py` |
| `TimesOut`, `Dies`, `Recovers`, `ServiceStops` | the subprocess timeout, signals and tracebacks, `_run_ib_script_with_recovery`, a restart of the unit |
| `Halt`, `Resume`, `FlagDamaged`, `Broker` | the operator, the disk, the broker |

The broker acknowledges, rejects, fills and cancels in its own time, and drops an
unacknowledged order with its client or keeps it. Quantities are left out: an order
is filled whole. The order of a replacement's phases is `Follows`.

`TradingHalt` keeps of all this the flag, the orders that have passed it and are not out yet,
and what each order is to the broker: while the flag stands none passes, only what has passed
goes out, once, and a kill is confirmed over a book in which nothing works, with a list of what
it could not reach. `OrderDesk` implements it with `passed <-` the requests whose script is past
its second look at the flag, `life <-` the states of the book, and `swept`, `spared <-` the
last confirmed kill. Lanes, budgets, retries, answers and the phases of a replacement map to
stutters; scripts that time out, die or are stopped with the service give up what they had
passed. Like `KillSweeps` this holds when `LateBook = FALSE`.

### OrderPath

Calls of the place route over the desk. `web[r]` is a call and the entry it made,
`registry` and `file` say whose entry each key has, `hydrated` whether this process has
read the file. `Post` runs or joins, `Deliver` lets FastAPI read the request,
`Succeeds`, `Fails`, `Aborts` and `JoinEnds` settle it, `Lapse` ends a retention, `WebDies`
loses the memory. FastAPI's requests are the desk's, so what the key's deletion leads to at
the broker is part of the model.

`PlaceOnce` has no memory, no file and no desk: a call claims a key that nobody holds or joins who
holds it, a claim places at most one order and ends as ok, indeterminate or failed, and a key is
free again after a failure, at the end of a retention, or when the server dies. `OrderPath`
implements it with `entry <-` what became of each call's entry, `told <-` the answers,
`lapsed <-` the retentions that ended and `sent <-` the desk's count of transmissions. That the
registry is read from the file at the right moment, and that an outcome in memory is also in the
file, is what the refinement asks of the code; every step of FastAPI but a transmission is a
stutter.

### FillJournal

`state` and `execs` are the broker's orders and executions, with the session date and
the latest correction of each; `known` is fill_monitor's memory and `saved` the state
file; `mirrors` and `rows` are the two kinds of journal rows, `shown` the stored book (no
property is about it but its type, see R-610 below); `mon` and `syn` are runs in progress and
`loop` is where `run_once` stands. `hours` is the part of the day: fill_monitor runs until 20:00
ET (`fill_monitor.py:97`), journal_sync in the regular session and a quarter of an hour
after (`journal_sync.py:88-94`, `daemon.py:228-258`), the sweep at night.

| Actions | Code |
|---|---|
| `MonReads`, `MonOrder`, `MonForgets`, `MonDefers`, `MonSnapshots` | `fill_monitor.execute` and `_mirror_ib_orders_snapshot` |
| `SynReads`, `SynWrites`, `SynSupersedes`, `SweepEnds` | `journal_sync.execute`; the sweep, which imports and supersedes nothing |
| `MonSkips`, `SynSkips`, `LoopMovesOn`, `Saves` | `run_once`, `_run_handler_bounded`, `save_state` |
| `Crash`, `Stops`, `Restart` | SIGKILL, SIGTERM, `load_state` |
| `Place`, `Fill`, `Cancelled`, `Corrected` | Interactive Brokers |
| `HoursPass`, `DayEnds` | the clock and the calendar (`_handler_can_run_now`) |

An execution is one contract. A read of the open orders may miss some, a session reports
any part of the day's executions, a write to the database may fail, the daemon is killed or
stopped, and a handler past its deadline goes on beside the loop; all but the partial reports
`Faults` times together (`budget`). The daemon suppresses a handler only beside its own late
thread (`daemon.py:309-318`), so a sweep could run beside a journal_sync thread that is hours
late; here it waits. The sweep's recovery of older executions from the executed_orders
table (`_recover_carried_over_gaps`, `evening_execution_sweep.py:241-262`), which writes
journal rows too, is left out.

`ExecutionLedger` is the journal without the daemon: an execution is entered once, under
the correction it was first seen with, an entry is never withdrawn, and only a later correction
replaces it. `FillJournal` implements it with `ledger <- rows` and `truth <-` the latest
corrections; both handlers, the loop, crashes, restarts and mirrors map to stutters, and a
write of the sync or of the sweep to an entry or an amendment.

## 3. Runs

| Run | Shows | Result |
|---|---|---|
| `push_lease` | the lease's properties for two processes of two components, and that it implements `LeaseContract` | passes |
| `watchdog` | caps and spacing of both ladders, and the warm-up, with cycles cut short and the state lost | passes |
| `gateway_control` | mutual exclusion, no overlapping operations, truthful `start`, safe `stop`, on both host roles; a push is uncovered or stacked only after a roll-back or a manual reset; every invocation ends | passes |
| `gateway_restart` | failed restarts thin out, leases are given back by their owner, self-restarts are rare, the pool comes back | passes |
| `order_desk` | kill and replacement, with two requests of any kind over two orders, and that the desk implements `TradingHalt` | passes |
| `order_path` | ok means an order, with restarts of both servers, and that one placement per key is made as `PlaceOnce` says | passes |
| `fill_journal` | the journal implements `ExecutionLedger`; mirrors go when they are covered, not before; in a session that lasts everything settles | passes |
| `pool_safety` | no connection is lost, no borrower's client is taken away, and no call runs beside another or beside a bounded one that timed out, with everything that may happen | passes |
| `pool_jobs_end` | every borrower and job ends, cancelled or not | passes |
| `order_retry` | a key is cleared under an order that lives | violated |
| `gateway_rollback` | the watchdog's roll-back lets a second push out over an unanswered one | violated |
| `fill_carried` | the mirror of an order that fills on two days stays | violated |

### Bounds

- `PushLease.cfg`: `TTL = 2`, `Grace = 1`, `MaxTime = 2`, `MaxGrants = 2`, `Probes = 2`. A lease
  can be young, past its grace and expired; two grants follow each other; a call may wait for the
  guard over the whole time, so that its clock is as old as the lease lives. Releasing whatever lease there is (the
  helper's stop and reset) is among the requests. Three probes behave as two: all but the last
  only wait. Processes are symmetric.
- `IbWatchdog.cfg`: `Threshold = 2` and `Confirm = 2` (of 3 and 2), `MaxApi = 2`
  (of 3), a window of 4 with two restarts, a grace of 2, and eight periods: enough to
  reach the cap, to go one restart beyond it if nothing stopped it, to let a window
  roll over, and to lose a restart on the way. The backoff is 3 and capped at 3, so
  its doubling does not happen in these eight periods.
- `GatewayControl.cfg`: the adapter and two more invocations, all verbs; a third
  one could only meet the locks as the second does. `GatewayRollback.cfg` has the same
  without the manual reset. A process goes through any number of invocations in turn.
- `GatewayRestart.cfg`: one role (with two the safety properties have been checked as
  well, in 1.1 million states, but not the liveness), a ladder of two rungs 1 and 2, a TTL of
  2, a grace of 1, restarts of up to 2 units, a cooldown of 1 and escalation at the second
  failure. The time of an attempt can exceed the first rung, and a lease can run out
  within an attempt.
- `OrderDesk.cfg`: two requests of any kind, two orders that work beforehand, two
  slots of which scans may hold one, a budget of one per minute, a restart of the service: a
  kill can race a replacement that has cancelled one of its two targets, and a replacement
  can find its budget gone. Three requests over one order without restarts pass too (1.6 million
  states). `LateBook = FALSE`: the broker lists
  its orders within half a second, see below. `OrderPath.cfg`: three calls of one key, one restart
  of each server.
- `FillJournal.cfg`: one order of two contracts over a whole day with its evening and night and the next
  day up to its close, one correction, and any two faults (`Faults = 2`) of short reads, failed
  writes, kills, stops and overruns. `FillCarried.cfg` has none of the faults.
- `IBPool*.cfg`: two roles, one with a liveness probe; two tasks, since a role's lock
  admits one and a third could only wait as the second does; three clients, that
  is one per role and one being disposed of, and two in the other run; three
  threads of which two must be usable, so that the second wedged worker closes
  the executor; two attempts (of three), or one for `pool_jobs_end`.

The deadlock check is off for the order and fill runs only. There it would report that every
request that may ever arrive has been answered, or that the last day's budget of events
is spent; what must go on until then is what the runs' properties say. In all other
runs the surroundings can always move.

### Fairness

Four runs need any. For `gateway_control`, `FairSpec` asks for weak fairness of an
invocation's own code between two waits (`Advance`) and of its settle deadline
(`Unsettled`). Both are justified by the script: lock attempts end with
`CONTROL_LOCK_WAIT_SECS` or at once, every Docker client runs under `run_bounded`,
and `wait_for_desired_state` ends at its deadline. One wait has no bound in the code: the lease
CLI's for its guard (`ib_2fa_lock.py:221-222`); that it returns is an assumption, which holds
as long as no holder of the guard is stopped in it. Nothing is assumed of the Docker daemon, the
Gateway, the watchdog or the phone.

For `pool_jobs_end`, `FairSpec` asks for weak fairness of what a task does after its
awaits (`Proceed`) and of the workers it waits for: the probe, the connect and the calls
have timeouts. The disconnect of a stale client has none in the code; that it
returns is an assumption. `asyncio.Lock` wakes its waiters in order, which is strong
fairness of `Wake`, and a caller makes one or two calls, which is strong
fairness of `Leave`.

For `gateway_restart`, clocks run, systemd restarts the process (`StartUp`), and the
heartbeat and a restart under way go on, since all their awaits have timeouts. Strong fairness
is asked of three outcomes: a probe, a dial of the stuck roles and a redial that are tried
again and again while the Gateway is logged in succeed sometime. That the Gateway
stays logged in is the premise of the property and not assumed.

For `fill_journal`, the loop goes on, a run under way ends, a stopped daemon is restarted, and
a sync that is told of the whole day happens again and again (strong fairness of
`SyncOfAll`). The last is asked of the regular session only, since `SyncOfAll` is not enabled at other hours:
there journal_sync is due every five minutes and reads all of the session's executions when nothing
fails. `Settles` says accordingly what a session comes to that lasts: every fill of that session, and
every earlier one that the sweep brought in, counts once. Time does not have to pass, and
nothing is claimed of an evening.

### What the violated runs mean

1. `order_retry`: FastAPI says 504 ORDER_INDETERMINATE when the placement script was cut off
   after it may have transmitted. The web server knows indeterminate outcomes only as its own
   aborts, so it deletes the key, and the retry of the same order is a second order.
2. `gateway_rollback`: the watchdog's unit has asked Docker to bring the Gateway up and then fails (it is
   killed, or its last inspect misses the container) or takes longer than 40 s. `trigger_restart`
   gives its lease back (`ib_watchdog.py:660-668`), the container comes up, and while its push is
   unanswered the next restart finds a free lease, takes the Gateway down and sends a second push.
   FastAPI keeps its lease in the same place: "better to block the next attempt than to stack on a
   phantom push" (`ib_gateway.py:1603-1606`).
3. `fill_carried`: a mirror holds the order's running fill count and one date, and goes when
   that many executions of that date are in the journal. For an order that fills on
   two days there never are, and the fill stays counted twice.

More disagreements came up while modelling and have no run of their own.

Watchdog and helper:

- A restart may use 40 s of a cycle that is ended at 45 s, and the counters are saved
  afterwards (`ib_watchdog.py:1339`). A restart lost so is not counted, and the cap of
  restarts per incident is exceeded by it; hence `uncounted`.
- When the grace for scheduled restarts is over, one failure is counted and
  `quiet_degraded_since` is cleared, so the same outage gets another grace
  (`ib_watchdog.py:1231`, against 144-152).
- A lease is dated by the clock its owner read before it waited for the guard, and the CLI waits
  without a bound. A grant may so have run out in part or as a whole when it is made, and a
  consumption may spend a lease that ran out while it waited. `LeaseContract` counts time in the same way.
- `authenticated_recovery_count` (`ib_watchdog.py:1549`) survives a restart and hang samples
  that `/health` still calls authenticated, so the "consecutive samples" of
  `ib_watchdog.py:95-98` may lie on both sides of a restart.

Pool:

- The option-chain and short-availability probes give up on their worker but leave its client in
  the pool (`server.py:1698`, 6185-6190), and cancelled requests do the same to bounded calls,
  against `ib_pool.py:5`. `QuarantineHolds` is what remains true of the bounded ones.
- The ceiling of `ib_executor` counts timed-out operations only. A forced disconnect
  that wedges does not trip it, though `ib_executor.py:116-118` says so.
- `disconnect_all` lists the roles that have a client before it waits for their locks. A role
  that its borrower is reconnecting has none, and may be connected when
  `disconnect_all` returns.
- `reconnect_roles` does not look again at a role once it has its lock, so a session that came
  back since `recover_stuck_pool` made its list is torn down.

FastAPI lifecycle:

- A role that is connected to a session without accounts is not "disconnected", so
  `recover_stuck_pool` leaves it alone, though `ib_gateway.py:1270-1273` counts it in.
- A reconnect that always runs into its 30 s leaves by `TimeoutError` before the failure is
  counted, and never escalates. A second probe that succeeds after a first one failed counts a
  failure without a reconnect.
- The next attempt is dated from before the restart, so after an attempt longer than the delay
  there is no delay left; a restart of the process forgets the ladder.
- "Only ever ONE self-restart per episode" (`server.py:307-311`) holds per process: the next process
  may do the same again after its own cooldowns.
- `reset_backoff` takes no lock and drops the lease of a restart that is under way. The grace of
  90 s is shorter than an attempt may take, so a slow start can be judged orphaned by others.

Orders:

- "No new order can race in between the cancel sweep and the flag taking effect"
  (`server.py:3449-3450`): a script that is past its look at the flag transmits after the sweep. That is
  why `KillSweeps` names the orders in flight, and `TradingHalt` those it spared.
- "Filled / not-found stay failures" (`server.py:3156-3157`): the cancel script reports an order
  that has left the open orders as cancelled, also when it was filled
  (`ib_order_manage.py:139-145`), and the replacement follows.
- "Never a plain failure the caller would retry" (`server.py:2981-2982`): a script that dies by a signal
  or a traceback after it transmitted, or that flags its own answer "indeterminate", is answered with
  a plain 502.
- "Never claims success while orders remain working" (`ib_cancel_all.py:9`): the script takes what the
  broker lists within half a second; with `LateBook` `KillSweeps` fails.
- A web server that dies while a key is in flight has nothing of it in its file, and a retry after
  the restart places again.

Fills:

- A short read of the open orders drops the orders it misses from `known_orders`, and the
  snapshot's test for short reads compares with `known_orders` (`fill_monitor.py:303-325`): with two
  orders and two short reads in one run a working order leaves the stored book (R-610). The
  dropped order may also be announced COMPLETED when any of it was filled.
- A fill after journal_sync's last run of the day (about 16:15 ET) is mirrored by fill_monitor until
  20:00, and then imported by the sweep, which deletes no mirror. It is counted twice from
  then until the first journal_sync of the next session.
- A mirror whose write failed is not written later, since the baseline has moved on. After a crash
  between a mirror and the state file the increment is mirrored again under another count; the
  two overlap until the next sync.

## 4. Proofs

The modules that end in `Proofs` are checked by TLAPS from the named assumptions on the
constants alone, for any sets of processes, requests, roles or orders and any timing. Each
states an inductive invariant, shows that every action keeps it, one lemma per action, and
derives the properties from it.

**The lease.** `IInv` adds to the properties: the clock of a call is not ahead (`CallsAreOfThePast`), an
acquire or consume names a component (`RequestsAreServed`), stamps grow from the marker to the
lease and a damaged lease keeps its stamp (`StampsGrow`), the last consumed stamp and all
below it are spent at most once and none above it is (`SpentIsMarked`), and the file in
force says at least what the last unreleased grant said (`CoverIsFiled`). The last is what
makes a young grant survive: damage can only move the dates forward, and the grant reads the
file under the guard it holds (`DecisionsAreFresh`), on a clock no later than now.
The refinement of `LeaseContract` (`ImplementsContract`) rests on the same invariant: a lease
that the file gives back or pays with is the one that was granted, and a grant over it
is the abstract acquire.

**The helper.** Who is past the mutex holds it, and who is past the reconciliation holds both
locks (`LocksAreHeld`); what the daemon owes is what the journal names, or the journal is
unreadable (`JournalNamesIt`); past the reconciliation nothing is owed except to
oneself (`SettledBefore`). Together (`Safe`) they are inductive, because a settled journal
and a container that already is what the daemon was asked for leave nothing owed. Each
of the four properties follows in one step. `CycleHasItsLease` is inductive on top:
whoever is in a cycle took a lease that stands until the container settles, and an unanswered
push has one that was paid with, unless `bare` says that it was taken away; the next cycle with
a lease of its own clears `bare` with its first request. So `PushStaysCovered` and
`PushesDoNotStack` have no premise: they name the two ways in which a push loses its
lease and say that there is no third.

**The watchdog.** Its state is two ladders that hardly meet, so each property has its own
invariant over `TypeOK` and `Clocked` (who is in a cycle has read a clock). `WarmInv`: the
counter of hang samples, in memory and in the file, is at most the run of hang samples seen. `ApiInv` and
`StuckInv`: as long as no restart was lost (`uncounted`), the restarts made are those the counters
know of, on the disk, in memory or in the call under way. The sets of restarts grow with time, and their
cardinalities are compared with the counters by the library's theorems on finite sets.
`ApiRestartsSpaced` needs on top that the backoff grows with the counter. Induction is beyond the
prover, so `2^m <= 2^n` is had by counting: the subsets of a set of `m` elements are among
those of a set of `n` (`FS_SUBSET`). `SpaceInv` then says that, unless a restart was lost,
every restart so far is no later than the one the state remembers, in the file or in the memory
of the cycle that has still to save it, and that who has acquired the lease has waited its backoff out.

**FastAPI's lifecycle.** `Covering` says why a lease given back is never the one that a pending
push needs: a push is pending only over a Gateway that starts or waits, a good connection exists
only to one that is logged in, and nobody has seen an authentication while the push of a startup is
pending. `Counting` ties the backoff to the history: what is left to wait and the
time since the last attempt make up its rung. `Cooled` ties the process's life to its
failures: each has lasted a cooldown, and a recovery under way has paid for its own in advance. The
ladder is assumed not to decrease.

**The pool.** `Placed` says which lock, role and client a task has at each await, `Own` that a client
being dialled is known to its task alone, `OneRole` that the pool has a client once and
none that is being closed, `AllKnown` that a connection, from the dial on, has somebody who answers
for it. All locks, retirements and cancellations keep these; the four properties follow at once.
`NobodyWaitsInACircle` is the part of `JobsEnd` that needs no fairness: a role's lock is held
by a task in the middle of that role's work, and the lifecycle lock by a job past its own wait
(`LocksAreUsed`). Who waits for the lifecycle lock waits for a job that waits at most for a role's
lock, and the holder of that waits for none (`ChainsAreShort`). So nobody is deadlocked,
for any number of tasks and roles; that each await ends is the fairness TLC assumes.

**Orders.** `OrderDeskProofs`: a script's place and phase say whether it has transmitted and
what it may have touched (`Sane`), the orders of before are never in flight, and a cancel that was
confirmed leaves its order dead for good (`ConfirmedGone`). `SweptInv`, under the assumption that the
broker lists its orders in time (`~LateBook`), adds what a kill has seen; `KillSweeps` is
proved under it, and TLC finds it violated without. `ImplementsSwitch`, under the same assumption,
goes through the actions and shows which step of `TradingHalt` each one is: that a script about
to transmit has an order the broker has never seen is `Unsent`, and that a confirmed kill saw
nothing at work is `SweptInv` again.

`OrderPathProofs` shows first that the web server over the desk is a desk
(`PathImplementsDesk`): `Deliver` is an arrival and everything the registry does by itself
leaves the desk alone. So the desk's theorems hold behind the registry, and a call transmits
once (`CallsSendOnce`). `PathInv` adds that an unfinished entry is found under its key
(`HoldersFound`) and that an outcome in memory or in the file is backed by an order
(`OksBacked`). From it follow that one who joins places nothing (`JoinersAreSilent`) and that a
second order of one key has one of three causes: the first call was answered as failed, its
retention was over, or the web server died under it (`CausesOfASecond`). Dropping any of the
three makes it false, as TLC shows; the first is the violated run. `ImplementsOnce` needs that FastAPI has not
heard of a call that made no entry of its own (`Unheard`), and that a call that is not done
has been told nothing (`Unanswered`).

**Fills.** `JInv`: rows are of executions that exist and one per execution (`RowsSane`), what a
sync is about to write is not there yet or is the same row (`SynSane`), and counts are natural
numbers. The type invariant bounds a mirror's count by its order's size, which the code
never compares: `Sized` says that an order that is not done has contracts left, as its
executions are fewer than its size. `ImplementsLedger` adds that no reader knows a correction
that has not happened and that what a sync has still to write lies ahead of what is written
(`ExecsSane`, `TodoAhead`). `SyncClearsMirrors` is proved under the premise it is checked with, that
no order's fills span two days (`~Carried`); `DayInv` says that then what
fill_monitor read today, and what a mirror recorded on its day, are counts of that day's
executions alone, as the coverage the sync computes is. `fill_carried` shows what happens without.

**Only model-checked.** The liveness properties `InvocationsReturn`, `PoolComesBack`, `Settles`
and `JobsEnd`, because liveness under fairness is beyond the prover; and the violated properties,
which TLC refutes. Everything else the runs check is a theorem.

## 5. Not modelled, and the plan

In the components that are partly modelled: of the watchdog, JVM forensics and what feeds no
decision; of the FastAPI lifecycle, the cloud and launchd modes, which delegate or do not cycle the
container, and the status overlay; of the orders, modify, the what-if route by itself, the
arithmetic of the limits, and the audit log, which nothing reads back; of the monitor daemon, the
handlers besides fills (exit orders are not registered, `run.py:90-95`), due times, session
windows, backoff and notifications; of `server.py`, the HTTP routes over scanners and tables.

What could follow, in this order:

1. `RemoteControl`: `serve.py`, its cooldown checked before and recorded after the helper runs, and
   its history across restarts.
2. `PushRecovery`: lease, helper, watchdog and FastAPI composed, shown to implement an
   abstract specification in which at most one push is pending.
3. Relay: the stale-data machine, reconnect gate and reference counts.
4. Alerting with cooldowns and acknowledgements; vendor budgets over a locked file;
   the deploy journal; browser sync; single-flight scans.
5. The paper-trading matcher and the gates of the TWR rebuild as pure algorithms.

Not modelled on purpose: numerical scanners and forecasts, vendor HTTP clients, news and
knowledge ingestion, language-model calls, the web pages and the marketing site.
They compute or present; they do not coordinate. They are most of the repository's lines, which is why
the models, though they follow the coordination closely, stand for a small share of them.
