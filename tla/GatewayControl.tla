--------------------------- MODULE GatewayControl ---------------------------
(***************************************************************************)
(* The Gateway lifecycle helper, cloud/scripts/ib-gateway-control.sh, the  *)
(* one path by which anybody starts, restarts or stops the IB Gateway      *)
(* container, together with the watchdog's handoff to it.                  *)
(*                                                                         *)
(* Every invocation is a process.  It serialises on two flocks, the deploy *)
(* lock (never waited for) and the lifecycle mutex (waited for at most     *)
(* CONTROL_LOCK_WAIT_SECS); start takes them in the other order than the   *)
(* rest.  A Docker client is given up after a while, but what it asked of  *)
(* the daemon may still happen: a journal written before each mutation     *)
(* makes later invocations wait until the container has settled.           *)
(*                                                                         *)
(* A container that comes up sends a 2FA push; the push lease (PushLease)  *)
(* is here no more than its holder.                                        *)
(***************************************************************************)
EXTENDS Naturals

CONSTANTS
    Proc,      \* invocations of the helper that may exist at once
    Adapter,   \* the one of radon-ib-gateway-preheld-restart.service
    Deployer,  \* a deploy, or another operator command, on the deploy lock
    Free,      \* nobody
    Verbs      \* the verbs in use

AllVerbs == {"start", "operator-start", "restart", "preheld", "stop", "reset"}

ASSUME ProcAssumption ==
    /\ Adapter \in Proc
    /\ Deployer \notin Proc /\ Free \notin Proc /\ Deployer # Free

ASSUME VerbAssumption == Verbs \subseteq AllVerbs

VARIABLES
    appHost,   \* RADON_HOST_ROLE=app: the Gateway is another host's
    deploy,    \* who holds the deploy lock
    mutex,     \* who holds the lifecycle mutex
    journal,   \* the desired state in the transition journal
    container, \* the Gateway container
    inflight,  \* what the Docker daemon was asked for and has not done
    lease,     \* who holds the push lease
    spent,     \* the consumed marker names this lease
    bare,      \* history: a lease was taken from a cycle, or from its push
    push,      \* the running Gateway waits for its 2FA push
    run,       \* the invocation of each process
    watch      \* the watchdog's handoff

vars == <<appHost, deploy, mutex, journal, container, inflight, lease, spent,
          bare, push, run, watch>>
docker == <<container, inflight, push>>
locks == <<deploy, mutex>>
leases == <<lease, spent, bare>>

(* An invocation: where it is, its verb, how many settled observations it  *)
(* has made in a row, and for which state it is cycling the container.     *)
Idle == [pc |-> "idle", verb |-> "stop", seen |-> 0, goal |-> "stopped"]

Places == {"idle", "deploy", "mutex", "look", "reconcile", "decide", "lease",
           "journal", "issue", "client", "settle", "check", "release"}

Run == [pc: Places, verb: AllVerbs, seen: 0..1, goal: {"running", "stopped"}]

TypeOK ==
    /\ appHost \in BOOLEAN
    /\ deploy \in Proc \cup {Free, Deployer} /\ mutex \in Proc \cup {Free}
    /\ journal \in {"none", "running", "stopped", "unreadable"}
    /\ container \in {"running", "stopped"}
    /\ inflight \in {"none", "running", "stopped"}
    /\ lease \in {"free", "control", "watchdog"} /\ spent \in BOOLEAN
    /\ bare \in BOOLEAN /\ push \in BOOLEAN
    /\ run \in [Proc -> Run]
    /\ watch \in {"idle", "waiting", "ok", "failed"}

Init ==
    /\ appHost \in BOOLEAN
    /\ deploy = Free /\ mutex = Free
    /\ journal = "none" /\ inflight = "none"
    /\ container \in {"running", "stopped"} /\ push = FALSE
    /\ lease = "free" /\ spent = FALSE /\ bare = FALSE
    /\ run = [p \in Proc |-> Idle]
    /\ watch = "idle"

-----------------------------------------------------------------------------
(* Moving within an invocation, and leaving it.                            *)

At(p, pc) == run[p].pc = pc
Verb(p) == run[p].verb
Starting(p) == Verb(p) \in {"start", "operator-start"}

Goto(p, pc) == run' = [run EXCEPT ![p] = [run[p] EXCEPT !.pc = pc, !.seen = 0]]
Cycle(p, goal) ==
    run' = [run EXCEPT ![p] = [run[p] EXCEPT !.pc = "journal", !.goal = goal]]

(* Mutated: an end that unlocks both files, whoever holds them.            *)
ExitUnlocksAll(p, ok) ==
    /\ run' = [run EXCEPT ![p] = Idle]
    /\ deploy' = Free /\ mutex' = Free
    /\ watch' = IF p = Adapter /\ watch = "waiting"
                THEN IF ok THEN "ok" ELSE "failed" ELSE watch

(* The process ends and its flocks fall; the watchdog hears of its unit.   *)
Exit(p, ok) ==
    /\ run' = [run EXCEPT ![p] = Idle]
    /\ deploy' = IF deploy = p THEN Free ELSE deploy
    /\ mutex' = IF mutex = p THEN Free ELSE mutex
    /\ watch' = IF p = Adapter /\ watch = "waiting"
                THEN IF ok THEN "ok" ELSE "failed" ELSE watch

(* A lock was busy: rc 74.  A preheld restart never got to Docker, so the  *)
(* lease it came with is given back.                                       *)
Refuse(p) ==
    /\ Exit(p, FALSE)
    /\ lease' = IF Verb(p) = "preheld" /\ lease = "watchdog" THEN "free" ELSE lease
    /\ UNCHANGED <<appHost, journal, docker, spent, bare>>

InCycle(p) == run[p].pc \in {"journal", "issue", "client", "settle", "check"}

(* The lease was taken for a cycle and used for it; p's cycle used it.     *)
Paid == lease = "control" \/ (lease = "watchdog" /\ spent)
OwnLease(p) ==
    IF Verb(p) = "preheld" THEN lease = "watchdog" /\ spent
    ELSE Verb(p) # "stop" /\ lease = "control"

-----------------------------------------------------------------------------
(* Arrival and locking.                                                    *)

Begin(p, verb) ==
    /\ At(p, "idle") /\ verb \in Verbs \ {"preheld"} /\ p # Adapter
    /\ ~(appHost /\ verb = "reset")
    /\ run' = [run EXCEPT ![p] = [Idle EXCEPT !.verb = verb,
                 !.pc = IF verb \in {"start", "reset"} THEN "mutex" ELSE "deploy"]]
    /\ UNCHANGED <<appHost, locks, journal, docker, leases, watch>>

(* acquire_deploy_lock: one attempt.  start comes here with the mutex.     *)
TakeDeploy(p) ==
    /\ At(p, "deploy") /\ deploy = Free
    /\ deploy' = p
    /\ Goto(p, IF mutex = p THEN "reconcile" ELSE "mutex")
    /\ UNCHANGED <<appHost, mutex, journal, docker, leases, watch>>

DeployBusy(p) ==
    /\ At(p, "deploy") /\ deploy # Free
    /\ Refuse(p)

(* acquire_lifecycle_mutex: attempts until the deadline.                   *)
TakeMutex(p) ==
    /\ At(p, "mutex") /\ mutex = Free
    /\ mutex' = p
    /\ Goto(p, CASE Starting(p) -> "look"
                 [] Verb(p) = "reset" -> "release"
                 [] OTHER -> "reconcile")
    /\ UNCHANGED <<appHost, deploy, journal, docker, leases, watch>>

MutexBusy(p) ==
    /\ At(p, "mutex") /\ mutex # Free
    /\ Refuse(p)

-----------------------------------------------------------------------------
(* start looks before it takes the deploy lock.  An inspect that fails or  *)
(* times out reads "unknown", which counts as not running.                 *)

(* Mutated: start trusts the first inspect, journal or not.                *)
StartTrustsInspect(p) ==
    /\ At(p, "look") \/ At(p, "decide")
    /\ container = "running"
    /\ Exit(p, TRUE)
    /\ UNCHANGED <<appHost, journal, docker, leases>>

StartNoOp(p) ==
    /\ (At(p, "look") /\ journal = "none") \/ At(p, "decide")
    /\ container = "running"
    /\ Exit(p, TRUE)
    /\ UNCHANGED <<appHost, journal, docker, leases>>

NeedsDeploy(p) ==
    /\ At(p, "look")
    /\ Goto(p, IF deploy = p THEN "reconcile" ELSE "deploy")
    /\ UNCHANGED <<appHost, locks, journal, docker, leases, watch>>

(* Mutated: start cycles without a lease.                                  *)
StartUnleased(p) ==
    /\ At(p, "decide")
    /\ ~appHost
    /\ Cycle(p, "running")
    /\ UNCHANGED <<appHost, locks, journal, docker, leases, watch>>

DecideStart(p) ==
    /\ At(p, "decide")
    /\ ~appHost
    /\ Goto(p, "lease")
    /\ UNCHANGED <<appHost, locks, journal, docker, leases, watch>>

AppRoleRefused(p) ==
    /\ appHost
    /\ \/ At(p, "decide")
       \/ At(p, "reconcile") /\ Verb(p) \in {"restart", "preheld"}
    /\ Exit(p, FALSE)
    /\ UNCHANGED <<appHost, journal, docker, leases>>

-----------------------------------------------------------------------------
(* reconcile_pending_transition: no mutation before the last one settled.  *)

Reconciling(p) ==
    /\ At(p, "reconcile")
    /\ ~(appHost /\ Verb(p) \in {"restart", "preheld"})

(* Mutated: stop cycles to the state of the transition it found.           *)
StopRepeatsPending(p) ==
    CASE Starting(p) -> Goto(p, "decide")
      [] Verb(p) = "stop" -> Cycle(p, journal)
      [] OTHER -> Goto(p, "lease")

AfterReconcile(p) ==
    CASE Starting(p) -> Goto(p, "decide")
      [] Verb(p) = "stop" -> Cycle(p, "stopped")
      [] OTHER -> Goto(p, "lease")

(* Mutated: stop does not wait for an earlier transition.                  *)
StopDoesNotWait(p) ==
    /\ Reconciling(p)
    /\ journal = "none" \/ Verb(p) = "stop"
    /\ AfterReconcile(p)
    /\ UNCHANGED <<appHost, locks, journal, docker, leases, watch>>

NothingPending(p) ==
    /\ Reconciling(p)
    /\ journal = "none"
    /\ AfterReconcile(p)
    /\ UNCHANGED <<appHost, locks, journal, docker, leases, watch>>

(* The state wait_for_desired_state waits for.                             *)
Awaited(p) == IF At(p, "settle") THEN run[p].goal ELSE journal

Settling(p) ==
    \/ At(p, "settle")
    \/ Reconciling(p) /\ journal \in {"running", "stopped"}

(* Mutated: any observation does for a stop.                               *)
MatchesAnyStop(p) == container = Awaited(p) \/ Awaited(p) = "stopped"

Matches(p) == container = Awaited(p)

(* One gateway_state; two in a row that match settle the matter.           *)
Observe(p) ==
    /\ Settling(p) /\ run[p].seen = 0
    /\ Matches(p)
    /\ run' = [run EXCEPT ![p] = [run[p] EXCEPT !.seen = 1]]
    /\ UNCHANGED <<appHost, locks, journal, docker, leases, watch>>

ObserveOther(p) ==
    /\ Settling(p) /\ run[p].seen = 1
    /\ run' = [run EXCEPT ![p] = [run[p] EXCEPT !.seen = 0]]
    /\ UNCHANGED <<appHost, locks, journal, docker, leases, watch>>

AfterCycle(p) ==
    CASE run[p].goal = "running" -> Goto(p, "check")
      [] run[p].goal = "stopped" /\ Verb(p) = "stop" -> Goto(p, "release")
      [] OTHER -> Cycle(p, "running")

Settled(p) ==
    /\ Settling(p) /\ run[p].seen = 1
    /\ Matches(p)
    /\ journal' = "none"
    /\ IF At(p, "settle") THEN AfterCycle(p) ELSE AfterReconcile(p)
    /\ UNCHANGED <<appHost, locks, docker, leases, watch>>

(* Mutated: a transition that never settles is waited for for ever.        *)
NoDeadline(p) == FALSE /\ UNCHANGED vars

(* The settle deadline passed, or the journal cannot be parsed.            *)
Unsettled(p) ==
    /\ Settling(p) \/ (Reconciling(p) /\ journal = "unreadable")
    /\ Exit(p, FALSE)
    /\ UNCHANGED <<appHost, journal, docker, leases>>

-----------------------------------------------------------------------------
(* The lease, and the Docker cycle.                                        *)

(* Mutated: a lease of the helper's own is no reason to wait.              *)
TakeLeaseAgain(p) ==
    /\ At(p, "lease")
    /\ IF Verb(p) = "preheld"
       THEN /\ lease = "watchdog" /\ ~spent
            /\ spent' = TRUE /\ UNCHANGED lease
       ELSE /\ lease \in {"free", "control"}
            /\ lease' = "control" /\ spent' = FALSE
    /\ Cycle(p, IF Starting(p) THEN "running" ELSE "stopped")
    /\ UNCHANGED <<appHost, locks, journal, docker, bare, watch>>

(* require_new_lease, or the one-time consumption of the watchdog's.       *)
TakeLease(p) ==
    /\ At(p, "lease")
    /\ IF Verb(p) = "preheld"
       THEN /\ lease = "watchdog" /\ ~spent
            /\ spent' = TRUE /\ UNCHANGED lease
       ELSE /\ lease = "free"
            /\ lease' = "control" /\ spent' = FALSE
    /\ Cycle(p, IF Starting(p) THEN "running" ELSE "stopped")
    /\ UNCHANGED <<appHost, locks, journal, docker, bare, watch>>

LeaseRefused(p) ==
    /\ At(p, "lease")
    /\ IF Verb(p) = "preheld" THEN lease # "watchdog" \/ spent ELSE lease # "free"
    /\ Exit(p, FALSE)
    /\ UNCHANGED <<appHost, journal, docker, leases>>

WriteTransition(p) ==
    /\ At(p, "journal")
    /\ journal' = run[p].goal
    /\ Goto(p, "issue")
    /\ UNCHANGED <<appHost, locks, docker, leases, watch>>

(* The Docker client reaches the daemon.  Asked for what is so already,    *)
(* the daemon has nothing left to do.                                      *)
Issue(p) ==
    /\ At(p, "issue")
    /\ inflight' = IF container = run[p].goal THEN "none" ELSE run[p].goal
    /\ bare' = (bare /\ ~OwnLease(p))
    /\ Goto(p, "client")
    /\ UNCHANGED <<appHost, locks, journal, container, push, lease, spent, watch>>

(* The client ends, well or badly, or is killed at its timeout.            *)
ClientEnds(p) ==
    /\ At(p, "client")
    /\ Goto(p, "settle")
    /\ UNCHANGED <<appHost, locks, journal, docker, leases, watch>>

(* The last inspect of start and restart: it may miss a running container. *)
FinalCheck(p, ok) ==
    /\ At(p, "check")
    /\ ok => container = "running"
    /\ Exit(p, ok)
    /\ UNCHANGED <<appHost, journal, docker, leases>>

(* release-any: at the end of a stop, or as all that a reset does.         *)
ReleaseAny(p) ==
    /\ At(p, "release")
    /\ lease' = "free"
    /\ bare' = (bare \/ (Verb(p) = "reset" /\ Paid))
    /\ Exit(p, TRUE)
    /\ UNCHANGED <<appHost, journal, docker, spent>>

(* SIGKILL, or the unit's TimeoutStartSec.                                 *)
Kill(p) ==
    /\ ~At(p, "idle")
    /\ Exit(p, FALSE)
    /\ UNCHANGED <<appHost, journal, docker, leases>>

-----------------------------------------------------------------------------
(* The watchdog's trigger_restart.                                         *)

(* It holds a fresh lease and starts the unit, or joins its running job.   *)
HandOff ==
    /\ watch = "idle" /\ lease = "free" /\ "preheld" \in Verbs
    /\ lease' = "watchdog" /\ spent' = FALSE
    /\ watch' = "waiting"
    /\ run' = IF At(Adapter, "idle")
              THEN [run EXCEPT ![Adapter] = [Idle EXCEPT !.verb = "preheld", !.pc = "deploy"]]
              ELSE run
    /\ UNCHANGED <<appHost, locks, journal, docker, bare>>

(* The unit failed, or systemctl did not return within 40s:                *)
(* _release_preheld_lease, whatever became of the container.               *)
GiveUp ==
    /\ watch \in {"failed", "waiting"}
    /\ watch' = "idle"
    /\ lease' = IF lease = "watchdog" THEN "free" ELSE lease
    /\ bare' = (bare \/ (lease = "watchdog" /\ spent))
    /\ UNCHANGED <<appHost, locks, journal, docker, spent, run>>

(* The unit succeeded, the watchdog was killed, or the lease's guard stayed *)
(* locked for the whole of the roll-back's timeout.                        *)
HandedOff ==
    /\ watch # "idle"
    /\ watch' = "idle"
    /\ UNCHANGED <<appHost, locks, journal, docker, leases, run>>

-----------------------------------------------------------------------------
(* The surroundings.                                                       *)

(* A container that comes up logs in, which sends the push.                *)
DaemonActs ==
    /\ inflight # "none"
    /\ container' = inflight
    /\ push' = (inflight = "running")
    /\ inflight' = "none"
    /\ UNCHANGED <<appHost, locks, journal, leases, run, watch>>

DaemonDrops ==
    /\ inflight # "none"
    /\ inflight' = "none"
    /\ UNCHANGED <<appHost, locks, journal, container, push, leases, run, watch>>

(* The Gateway exits by itself; Docker does not restart it.                *)
ContainerDies ==
    /\ container = "running"
    /\ container' = "stopped" /\ push' = FALSE
    /\ inflight' = "none"
    /\ UNCHANGED <<appHost, locks, journal, leases, run, watch>>

PushAnswered ==
    /\ push
    /\ push' = FALSE
    /\ UNCHANGED <<appHost, locks, journal, container, inflight, leases, run, watch>>

(* The lease is released after an authenticated probe, runs out, or is     *)
(* orphaned: its life and its grace outlast a cycle and an unanswered push.*)
LeaseEnds ==
    /\ lease # "free" /\ ~push /\ inflight # "running"
    /\ \A p \in Proc : ~InCycle(p)
    /\ watch = "idle"
    /\ lease' = "free"
    /\ UNCHANGED <<appHost, locks, journal, docker, spent, bare, run, watch>>

DeployLockMoves ==
    /\ deploy \in {Free, Deployer}
    /\ deploy' = IF deploy = Free THEN Deployer ELSE Free
    /\ UNCHANGED <<appHost, mutex, journal, docker, leases, run, watch>>

(* The journal is written by rename; only the disk can spoil it.           *)
JournalRots ==
    /\ journal # "none" /\ journal # "unreadable"
    /\ journal' = "unreadable"
    /\ UNCHANGED <<appHost, locks, docker, leases, run, watch>>

-----------------------------------------------------------------------------
(* What an invocation does by itself, and the whole.                       *)

Advance(p) ==
    \/ TakeDeploy(p) \/ DeployBusy(p) \/ TakeMutex(p) \/ MutexBusy(p)
    \/ StartNoOp(p) \/ NeedsDeploy(p) \/ DecideStart(p) \/ AppRoleRefused(p)
    \/ NothingPending(p)
    \/ TakeLease(p) \/ LeaseRefused(p)
    \/ WriteTransition(p) \/ Issue(p) \/ ClientEnds(p)
    \/ \E ok \in BOOLEAN : FinalCheck(p, ok)
    \/ ReleaseAny(p)

Step(p) ==
    \/ \E verb \in Verbs : Begin(p, verb)
    \/ Advance(p)
    \/ Observe(p) \/ ObserveOther(p) \/ Settled(p) \/ Unsettled(p)
    \/ Kill(p)

Next ==
    \/ \E p \in Proc : Step(p)
    \/ HandOff \/ GiveUp \/ HandedOff
    \/ DaemonActs \/ DaemonDrops \/ ContainerDies \/ PushAnswered
    \/ LeaseEnds \/ DeployLockMoves \/ JournalRots

Spec == Init /\ [][Next]_vars

(* Code between two waits runs on, and the settle deadline passes.         *)
FairSpec ==
    /\ Spec
    /\ \A p \in Proc : WF_vars(Advance(p)) /\ WF_vars(Unsettled(p))

-----------------------------------------------------------------------------
(* The inductive invariants behind the properties.                         *)

LocksAreHeld ==
    \A p \in Proc :
        /\ run[p].pc \in {"look", "reconcile", "decide", "lease", "journal", "issue",
                           "client", "settle", "check", "release"} => mutex = p
        /\ run[p].pc \in {"reconcile", "decide", "lease", "journal", "issue",
                           "client", "settle", "check"} => deploy = p
        /\ At(p, "mutex") => Verb(p) \in {"start", "reset"} \/ deploy = p

JournalNamesIt ==
    inflight # "none" => inflight # container /\ journal \in {inflight, "unreadable"}

SettledBefore ==
    \A p \in Proc :
        /\ run[p].pc \in {"decide", "lease", "journal", "check"} => journal = "none"
        /\ At(p, "issue") =>
              inflight = "none" /\ journal \in {run[p].goal, "unreadable"}
        /\ run[p].pc \in {"client", "settle"} =>
              inflight \in {"none", run[p].goal}
        /\ At(p, "release") /\ Verb(p) = "stop" =>
              journal = "none" /\ container = "stopped"

(* The lease of whoever is in a cycle stands, and so does that of a push,  *)
(* unless it was taken away.                                               *)
CycleHasItsLease ==
    /\ \A p \in Proc :
        /\ ~At(p, "idle") /\ Verb(p) = "preheld" => p = Adapter
        /\ At(p, "look") => Starting(p)
        /\ At(p, "release") => Verb(p) \in {"stop", "reset"}
        /\ Verb(p) = "reset" => run[p].pc \in {"mutex", "release"}
        /\ InCycle(p) /\ Verb(p) = "stop" => run[p].goal = "stopped"
        /\ InCycle(p) /\ Verb(p) # "stop" /\ ~bare => OwnLease(p)
        /\ run[p].pc \in {"deploy", "mutex"} /\ Verb(p) = "preheld"
              /\ lease = "watchdog" => ~spent
        /\ run[p].pc \in {"journal", "issue"} /\ Verb(p) \in {"restart", "preheld"} =>
              ~push \/ bare
    /\ push => container = "running"
    /\ (push \/ inflight = "running") /\ ~bare => Paid

-----------------------------------------------------------------------------
(* Properties.                                                             *)

Mutating(p) == run[p].pc \in {"journal", "issue", "client", "settle"}

(* Two invocations never cycle the container at once, in whatever order    *)
(* they took the two locks, and whoever was killed or refused meanwhile    *)
(* (ib-gateway-control.sh:89-192, 514-545).                                *)
OneMutator == \A p, q \in Proc : Mutating(p) /\ Mutating(q) => p = q

(* Docker is never asked for a second thing while it still owes the first, *)
(* even one asked for by an invocation that timed out or was killed        *)
(* (ib-gateway-control.sh:342-374).                                        *)
OneOperation == [][ \A p \in Proc : Issue(p) => inflight = "none" ]_vars

(* start never reports a healthy Gateway that a stop is about to take down *)
(* (ib-gateway-control.sh:515-530).                                        *)
StartReadsTruth == [][ \A p \in Proc : StartNoOp(p) => inflight # "stopped" ]_vars

(* stop clears the lease of whoever holds it only once the container is    *)
(* down and nothing is left that could bring it up                         *)
(* (ib-gateway-control.sh:501-512).                                        *)
StopReleasesDown ==
    [][ \A p \in Proc : ReleaseAny(p) /\ Verb(p) = "stop" =>
            container = "stopped" /\ inflight = "none" ]_vars

(* Only the watchdog's roll-back and a reset by hand leave a running       *)
(* Gateway waiting for its push with no lease to keep others from sending  *)
(* another one; no order of starts, restarts, stops, kills and late Docker *)
(* requests does (ib_2fa_lock.py:1-32, ib-gateway-control.sh:501-512).     *)
PushIsCovered == push /\ ~bare => lease # "free"

(* What a restart of the helper takes a Gateway down with.                 *)
TakesDown(p) == Issue(p) /\ Verb(p) \in {"restart", "preheld"}

(* A restart takes down a Gateway whose push is still unanswered, to send  *)
(* a second one, only where that push's lease was rolled back or reset     *)
(* (ib_2fa_lock.py:3-12).                                                  *)
NoStackedPush == [][ \A p \in Proc : TakesDown(p) => ~push \/ bare ]_vars

(* What the lease is there for: no restart takes down a Gateway whose push *)
(* is still unanswered.  Violated: the roll-back after a failed unit does  *)
(* not ask whether its push went out (ib_watchdog.py:660-668).             *)
PushesNeverStack == [][ \A p \in Proc : TakesDown(p) => ~push ]_vars

(* Every invocation ends, whatever it waits for never happening: a process *)
(* is idle again and again (ib-gateway-control.sh:168-184, 322-340).       *)
InvocationsReturn == \A p \in Proc : []<>At(p, "idle")
=============================================================================
