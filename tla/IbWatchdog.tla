----------------------------- MODULE IbWatchdog -----------------------------
(***************************************************************************)
(* The IB Gateway watchdog, scripts/ib_watchdog.py: a oneshot that systemd *)
(* starts every minute.  A cycle loads the persisted counters, samples the *)
(* Gateway through /health and through its own protocol probe, and may     *)
(* restart the Gateway, which sends the operator a 2FA push.  What keeps   *)
(* it from sending one push after the other are its counters: two warm-up  *)
(* thresholds, a cap with exponential backoff on consecutive api-hang      *)
(* restarts, a rolling cap on stuck-2FA restarts, a grace for scheduled    *)
(* restarts and a confirmation of recovery.                                *)
(*                                                                         *)
(* One clock unit is one timer period.  The counters live in memory during *)
(* a cycle and reach the state file at its end; SIGALRM or systemd may end *)
(* the process anywhere in between.                                        *)
(***************************************************************************)
EXTENDS Naturals, FiniteSets

CONSTANTS
    Threshold,   \* DEFAULT_THRESHOLD_CYCLES, for both ladders
    MaxApi,      \* API_HANG_MAX_CONSECUTIVE_RESTARTS
    ApiBase,     \* API_HANG_BACKOFF_BASE_SECS, in timer periods
    ApiCap,      \* API_HANG_BACKOFF_CAP_SECS, in timer periods
    MaxStuck,    \* STUCK_2FA_MAX_RESTARTS_PER_HOUR
    StuckBase,   \* STUCK_2FA_BACKOFF_BASE_SECS, in timer periods
    Window,      \* STUCK_2FA_RESTART_WINDOW_SECS, in timer periods
    QuietGrace,  \* SCHEDULED_RESTART_GRACE_SECS, in timer periods
    Confirm,     \* RECOVERY_CONFIRMATION_CYCLES
    MayAbort,    \* whether cycles may be cut short
    MayLose,     \* whether the state file may be lost
    MaxTime      \* bound on the clock

ASSUME CounterAssumption ==
    /\ Threshold \in Nat \ {0} /\ Confirm \in Nat \ {0}
    /\ MaxApi \in Nat /\ MaxStuck \in Nat /\ QuietGrace \in Nat
    /\ ApiBase \in Nat /\ ApiCap \in Nat /\ StuckBase \in Nat /\ Window \in Nat
    /\ MayAbort \in BOOLEAN /\ MayLose \in BOOLEAN /\ MaxTime \in Nat

VARIABLES
    disk,        \* ib-watchdog-state.json
    ram,         \* the WatchdogState of the running cycle
    pc,          \* where the running cycle is
    branch,      \* what its sample amounts to
    quiet,       \* whether that branch is frozen by the time of day
    lease,       \* who holds the 2FA push lease
    now,         \* the clock, in timer periods
    apiPushes,   \* history: api-hang restarts since recovery was last declared
    stuckPushes, \* history: stuck-2FA restarts
    hangRun,     \* history: hang samples that reached the disk, since the
                 \* last one that showed no hang or the last restart
    uncounted    \* history: whether a restart was lost from the counters,
                 \* in a cycle cut short after it or with the state file

vars == <<disk, ram, pc, branch, quiet, lease, now,
          apiPushes, stuckPushes, hangRun, uncounted>>
history == <<apiPushes, stuckPushes, hangRun, uncounted>>

(* The fields of WatchdogState that decide anything.                       *)
State == [degraded: Nat, lastRestart: Nat, stuck: Nat, pushes: SUBSET Nat,
          apiRestarts: Nat, pending: BOOLEAN, authCount: Nat, quietSince: Nat]

Fresh == [degraded |-> 0, lastRestart |-> 0, stuck |-> 0, pushes |-> {},
          apiRestarts |-> 0, pending |-> FALSE, authCount |-> 0, quietSince |-> 0]

(* One sample: what /health said, if it answered, the verdict of the       *)
(* direct probe, and the two time-of-day windows.                          *)
Seen ==
    [health: {TRUE}, auth: {"authenticated", "awaiting_2fa", "unreachable"},
     listening: BOOLEAN, upstreamDead: BOOLEAN, recovering: BOOLEAN,
     verdict: {"alive", "wedged", "dead", "unknown"},
     quiet: BOOLEAN, chase: BOOLEAN]

Blind ==
    [health: {FALSE}, verdict: {"alive", "wedged", "dead", "unknown"},
     quiet: BOOLEAN]

Samples == Seen \cup Blind

Branches == {"none", "blind", "watch", "hang", "stuck", "healthy", "authenticated"}

TypeOK ==
    /\ disk \in State /\ ram \in State
    /\ pc \in {"idle", "act", "acquired", "push", "save"}
    /\ branch \in Branches /\ quiet \in BOOLEAN
    /\ lease \in {"free", "watchdog", "other"}
    /\ now \in Nat /\ apiPushes \subseteq Nat /\ stuckPushes \subseteq Nat
    /\ hangRun \in Nat /\ uncounted \in BOOLEAN

Init ==
    /\ disk = Fresh /\ ram = Fresh
    /\ pc = "idle" /\ branch = "none" /\ quiet = FALSE
    /\ lease = "free" /\ now = 0
    /\ apiPushes = {} /\ stuckPushes = {} /\ hangRun = 0
    /\ uncounted = FALSE

-----------------------------------------------------------------------------
Least(a, b) == IF a < b THEN a ELSE b

(* What a sample amounts to, and what it does to the counters by itself.   *)

Down(o) == o.verdict \in {"dead", "wedged"}

UpstreamDead(o) == o.upstreamDead /\ o.verdict # "alive"

ApiHang(o) ==
    /\ o.listening
    /\ o.auth # "awaiting_2fa"
    /\ UpstreamDead(o)

StuckAwaiting2FA(o) ==
    /\ o.auth = "awaiting_2fa"
    /\ ~UpstreamDead(o)
    /\ ~o.recovering

Branch(o) ==
    CASE ~o.health /\ ~Down(o) -> "blind"
      [] ~o.health /\ Down(o) -> "hang"
      [] o.health /\ Down(o) -> IF o.auth = "awaiting_2fa" THEN "watch" ELSE "hang"
      [] o.health /\ ~Down(o) ->
            IF ApiHang(o) THEN "hang"
            ELSE IF StuckAwaiting2FA(o) THEN "stuck"
            ELSE IF o.auth = "awaiting_2fa" THEN "watch"
            ELSE IF o.auth = "authenticated" THEN "authenticated" ELSE "healthy"

(* stuck-2FA restarts also stop while the market data plane is not needed. *)
Frozen(o) == o.quiet \/ (Branch(o) = "stuck" /\ ~o.chase)

(* Mutated: an authenticated sample alone touches no counter but its own.  *)
SampledKeepsCount(o, s) ==
    [s EXCEPT !.authCount = IF o.health /\ o.auth = "authenticated" THEN @ ELSE 0]

Sampled(o, s) ==
    IF ~o.health
    THEN [s EXCEPT !.authCount = 0, !.stuck = 0,
                   !.degraded = IF o.verdict = "alive" THEN 0 ELSE @]
    ELSE IF Down(o)
    THEN IF o.auth = "awaiting_2fa"
         THEN [s EXCEPT !.degraded = 0, !.stuck = 0, !.quietSince = 0, !.authCount = 0]
         ELSE [s EXCEPT !.authCount = 0]
    ELSE [s EXCEPT !.authCount  = IF o.auth = "authenticated" THEN @ ELSE 0,
                   !.degraded   = IF ApiHang(o) THEN @ ELSE 0,
                   !.quietSince = IF ApiHang(o) THEN @ ELSE 0]

-----------------------------------------------------------------------------
(* The two ladders.                                                        *)

ApiBackoff(n) == Least(ApiBase * 2^(n - 1), ApiCap)

(* Mutated: the backoff without the cap, and the cap without the backoff.  *)
ApiBlockedByBackoffOnly(s) ==
    s.apiRestarts > 0 /\ now < s.lastRestart + ApiBackoff(s.apiRestarts)

ApiBlockedByCapOnly(s) == s.apiRestarts >= MaxApi

ApiBlocked(s) ==
    \/ s.apiRestarts >= MaxApi
    \/ s.apiRestarts > 0 /\ now < s.lastRestart + ApiBackoff(s.apiRestarts)

(* Mutated: the history is cleared, not pruned.                            *)
PruneAll(pushes) == {}

Prune(pushes) == {t \in pushes : t + Window >= now}

StuckBlocked(pushes) ==
    \/ Cardinality(pushes) >= MaxStuck
    \/ \E t \in pushes : now < t + StuckBase * 2^(Cardinality(pushes) - 1)

(* Mutated: a hang counts down.                                            *)
HangCountDown == [ram EXCEPT !.degraded = @ - 1, !.quietSince = 0]

(* The counters after a hang was counted, and after a stuck prompt was.    *)
HangCount == [ram EXCEPT !.degraded = @ + 1, !.quietSince = 0]
StuckCount == [ram EXCEPT !.stuck = @ + 1]
StuckAtThreshold == [StuckCount EXCEPT !.pushes = Prune(@)]

Suppressed ==
    /\ quiet
    /\ LET since == IF ram.quietSince = 0 THEN now ELSE ram.quietSince
       IN  now < since + QuietGrace

-----------------------------------------------------------------------------
(* A cycle.                                                                *)

Begin ==
    /\ pc = "idle" /\ now < MaxTime
    /\ now' = now + 1
    /\ pc' = "act"
    /\ \E o \in Samples :
          /\ ram' = Sampled(o, disk)
          /\ branch' = Branch(o)
          /\ quiet' = Frozen(o)
    /\ UNCHANGED <<disk, lease, apiPushes, stuckPushes, hangRun, uncounted>>

(* The branch is done: s is what save_state will write.                    *)
Finish(b, s) ==
    /\ pc = "act" /\ branch = b
    /\ ram' = s
    /\ pc' = "save"
    /\ UNCHANGED <<disk, branch, quiet, now>>

(* Nothing to count or to restart: a standing 2FA prompt, a recovery under *)
(* way, or no more than a direct probe to go by.                           *)
Watch ==
    /\ \E b \in {"blind", "watch"} : Finish(b, ram)
    /\ UNCHANGED <<lease, history>>

HangSuppressed ==
    /\ Suppressed
    /\ Finish("hang", [ram EXCEPT !.quietSince = IF @ = 0 THEN now ELSE @])
    /\ UNCHANGED <<lease, history>>

HangCounted ==
    /\ ~Suppressed
    /\ HangCount.degraded < Threshold
    /\ Finish("hang", HangCount)
    /\ UNCHANGED <<lease, history>>

HangBlocked ==
    /\ ~Suppressed
    /\ HangCount.degraded >= Threshold
    /\ ApiBlocked(HangCount)
    /\ Finish("hang", [HangCount EXCEPT !.degraded = Threshold])
    /\ UNCHANGED <<lease, history>>

(* The lease is held, or the bounded lock operation timed out.             *)
HangDeferred ==
    /\ ~Suppressed
    /\ HangCount.degraded >= Threshold
    /\ ~ApiBlocked(HangCount)
    /\ Finish("hang", HangCount)
    /\ UNCHANGED <<lease, history>>

HangAcquire ==
    /\ pc = "act" /\ branch = "hang"
    /\ ~Suppressed
    /\ HangCount.degraded >= Threshold
    /\ ~ApiBlocked(HangCount)
    /\ lease = "free"
    /\ lease' = "watchdog"
    /\ ram' = HangCount
    /\ pc' = "acquired"
    /\ UNCHANGED <<disk, branch, quiet, now, history>>

StuckFrozen ==
    /\ quiet
    /\ Finish("stuck", ram)
    /\ UNCHANGED <<lease, history>>

StuckCounted ==
    /\ ~quiet
    /\ StuckCount.stuck < Threshold
    /\ Finish("stuck", StuckCount)
    /\ UNCHANGED <<lease, history>>

StuckHeld ==
    /\ ~quiet
    /\ StuckCount.stuck >= Threshold
    /\ StuckBlocked(StuckAtThreshold.pushes)
    /\ Finish("stuck", [StuckAtThreshold EXCEPT !.stuck = Threshold])
    /\ UNCHANGED <<lease, history>>

StuckDeferred ==
    /\ ~quiet
    /\ StuckCount.stuck >= Threshold
    /\ ~StuckBlocked(StuckAtThreshold.pushes)
    /\ Finish("stuck", StuckAtThreshold)
    /\ UNCHANGED <<lease, history>>

StuckAcquire ==
    /\ pc = "act" /\ branch = "stuck"
    /\ ~quiet
    /\ StuckCount.stuck >= Threshold
    /\ ~StuckBlocked(StuckAtThreshold.pushes)
    /\ lease = "free"
    /\ lease' = "watchdog"
    /\ ram' = StuckAtThreshold
    /\ pc' = "acquired"
    /\ UNCHANGED <<disk, branch, quiet, now, history>>

(* systemctl start of the preheld unit: from here on a push may go out.    *)
TriggerRestart ==
    /\ pc = "acquired"
    /\ pc' = "push"
    /\ apiPushes' = IF branch = "hang" THEN apiPushes \cup {now} ELSE apiPushes
    /\ stuckPushes' = IF branch = "stuck" THEN stuckPushes \cup {now} ELSE stuckPushes
    /\ UNCHANGED <<disk, ram, branch, quiet, lease, now, hangRun, uncounted>>

(* It returned; a failure or its own 40s timeout releases the lease.       *)
RestartReturned(ok) ==
    /\ pc = "push"
    /\ pc' = "save"
    /\ lease' = IF ~ok /\ lease = "watchdog" THEN "free" ELSE lease
    /\ ram' = IF branch = "hang"
              THEN [ram EXCEPT !.lastRestart = now, !.apiRestarts = @ + 1,
                               !.degraded = 0, !.pending = TRUE]
              ELSE [ram EXCEPT !.lastRestart = now, !.stuck = 0, !.pending = TRUE,
                               !.pushes = Prune(@) \cup {now}]
    /\ UNCHANGED <<disk, branch, quiet, now, history>>

Healthy ==
    /\ Finish("healthy", [ram EXCEPT !.stuck = 0])
    /\ UNCHANGED <<lease, history>>

AwaitConfirmation ==
    /\ ram.pending /\ ram.authCount + 1 < Confirm
    /\ Finish("authenticated", [ram EXCEPT !.stuck = 0, !.authCount = @ + 1])
    /\ UNCHANGED <<lease, history>>

(* Recovery declared: re-arm the api-hang ladder, give the lease back (if  *)
(* the guard lets us), and bounce radon-api once if a restart was ours.    *)
DeclareRecovery(released) ==
    /\ ram.pending => ram.authCount + 1 >= Confirm
    /\ Finish("authenticated", [ram EXCEPT !.stuck = 0, !.apiRestarts = 0,
                                           !.authCount = 0, !.pending = FALSE])
    /\ lease' = IF released /\ lease = "watchdog" THEN "free" ELSE lease
    /\ apiPushes' = {}
    /\ UNCHANGED <<stuckPushes, hangRun, uncounted>>

Save ==
    /\ pc = "save"
    /\ disk' = ram
    /\ pc' = "idle" /\ branch' = "none" /\ quiet' = FALSE /\ ram' = Fresh
    /\ hangRun' = IF branch = "hang"
                  THEN IF ram.degraded = 0 THEN 0
                       ELSE IF ram.quietSince # 0 THEN hangRun
                       ELSE Least(hangRun + 1, Threshold)
                  ELSE IF branch = "blind" /\ ram.degraded # 0 THEN hangRun ELSE 0
    /\ UNCHANGED <<lease, now, apiPushes, stuckPushes, uncounted>>

(* SIGALRM at 45s, or systemd at 60s, before the counters were saved.      *)
Abort ==
    /\ MayAbort
    /\ pc # "idle"
    /\ pc' = "idle" /\ branch' = "none" /\ quiet' = FALSE /\ ram' = Fresh
    /\ uncounted' = (uncounted \/ pc = "push" \/ ram.lastRestart = now)
    /\ UNCHANGED <<disk, lease, now, apiPushes, stuckPushes, hangRun>>

-----------------------------------------------------------------------------
(* The surroundings.                                                       *)

(* The state file is gone or does not parse: load_state starts over.       *)
LoseState ==
    /\ MayLose
    /\ pc = "idle" /\ disk # Fresh
    /\ disk' = Fresh
    /\ uncounted' = (uncounted \/ disk.apiRestarts > 0 \/ disk.pushes # {})
    /\ UNCHANGED <<ram, pc, branch, quiet, lease, now, apiPushes, stuckPushes, hangRun>>

(* A timer tick is missed (host asleep, previous run still going).         *)
MissTick ==
    /\ pc = "idle" /\ now < MaxTime
    /\ now' = now + 1
    /\ UNCHANGED <<disk, ram, pc, branch, quiet, lease, history>>

(* Another component takes the lease; or it is released, runs out, or is   *)
(* orphaned by a dead Gateway.                                             *)
LeaseMoves ==
    /\ lease' = IF lease = "free" THEN "other" ELSE "free"
    /\ UNCHANGED <<disk, ram, pc, branch, quiet, now, history>>

Next ==
    \/ Begin
    \/ Watch
    \/ HangSuppressed \/ HangCounted \/ HangBlocked \/ HangDeferred \/ HangAcquire
    \/ StuckFrozen \/ StuckCounted \/ StuckHeld \/ StuckDeferred \/ StuckAcquire
    \/ TriggerRestart
    \/ \E ok \in BOOLEAN : RestartReturned(ok)
    \/ Healthy
    \/ AwaitConfirmation
    \/ \E released \in BOOLEAN : DeclareRecovery(released)
    \/ Save
    \/ Abort
    \/ LoseState
    \/ MissTick
    \/ LeaseMoves

Spec == Init /\ [][Next]_vars

-----------------------------------------------------------------------------
(* Properties.                                                             *)

Earlier(pushes, t) == {u \in pushes : u < t}

(* However long the hang lasts, the watchdog sends at most MaxApi api-hang *)
(* restarts between two recoveries (ib_watchdog.py:1143-1150, 1253-1257),  *)
(* also across cycles cut short, unless one of them or the loss of the     *)
(* state file took a restart out of the counters.                          *)
ApiRestartsCapped == ~uncounted => Cardinality(apiPushes) <= MaxApi

(* ... and they thin out: each waits the doubled backoff from the one      *)
(* before it (ib_watchdog.py:1166-1173), under the same condition.         *)
ApiRestartsSpaced ==
    ~uncounted => \A t, u \in apiPushes : u < t =>
        t - u >= ApiBackoff(Cardinality(Earlier(apiPushes, t)))

(* No window holds more than MaxStuck stuck-2FA restarts, wherever it      *)
(* starts: the history is pruned, not cleared (ib_watchdog.py:846-856),    *)
(* under the same condition.                                               *)
StuckRestartsCapped ==
    ~uncounted => \A t \in stuckPushes :
        Cardinality({u \in stuckPushes : u <= t /\ t <= u + Window}) <= MaxStuck

(* An api-hang restart follows Threshold hang samples with no sample in    *)
(* between that cleared the Gateway, even if cycles are cut short or the   *)
(* state file is lost (ib_watchdog.py:1233-1251).                          *)
WarmUpIsUnbroken ==
    [][ (branch = "hang" /\ pc' = "acquired") => hangRun + 1 >= Threshold ]_vars
=============================================================================
