------------------------ MODULE GatewayControlProofs ------------------------
(***************************************************************************)
(* Proofs about the Gateway lifecycle helper, for any number of            *)
(* invocations at once.                                                    *)
(*                                                                         *)
(* Safe is inductive as it stands: who works on the container holds both   *)
(* locks, and what the daemon still owes is what the journal says.         *)
(* CycleHasItsLease joins it, with the history of the leases that were     *)
(* taken away: by a manual reset or by the watchdog's roll-back.           *)
(***************************************************************************)
EXTENDS GatewayControl, TLAPS

Safe == TypeOK /\ LocksAreHeld /\ JournalNamesIt /\ SettledBefore

(* What the moves within an invocation leave of it.                        *)
LEMMA GotoFacts ==
  ASSUME TypeOK, NEW p \in Proc, NEW pc \in Places, Goto(p, pc)
  PROVE  /\ \A q \in Proc \ {p} : run'[q] = run[q]
         /\ run'[p].pc = pc /\ run'[p].verb = run[p].verb
         /\ run'[p].goal = run[p].goal /\ run'[p].seen = 0
         /\ run' = [run EXCEPT ![p] = run'[p]]
         /\ run'[p] \in Run
<1>1. run[p] \in Run /\ run \in [Proc -> Run]
  BY DEF TypeOK
<1>2. run' = [run EXCEPT ![p] = [run[p] EXCEPT !.pc = pc, !.seen = 0]]
  BY DEF Goto
<1>3. run'[p] = [run[p] EXCEPT !.pc = pc, !.seen = 0]
  BY <1>1, <1>2
<1>4. \A q \in Proc \ {p} : run'[q] = run[q]
  BY <1>1, <1>2
<1>5. /\ run'[p].pc = pc /\ run'[p].verb = run[p].verb
      /\ run'[p].goal = run[p].goal /\ run'[p].seen = 0
      /\ run'[p] \in Run
  <2> DEFINE t == [run[p] EXCEPT !.pc = pc, !.seen = 0]
  <2>0. "journal" \in Places /\ 0 \in 0..1
    BY DEF Places
  <2>1. /\ t \in Run /\ t.pc = pc /\ t.seen = 0
        /\ t.verb = run[p].verb /\ t.goal = run[p].goal
    BY <1>1, <2>0 DEF Run
  <2> QED
    BY <1>3, <2>1, Zenon
<1> QED
  BY <1>2, <1>3, <1>4, <1>5

(* What entering a half-cycle leaves of the invocation.                    *)
LEMMA CycleFacts ==
  ASSUME TypeOK, NEW p \in Proc, NEW goal \in {"running", "stopped"}, Cycle(p, goal)
  PROVE  /\ \A q \in Proc \ {p} : run'[q] = run[q]
         /\ run'[p].pc = "journal" /\ run'[p].verb = run[p].verb
         /\ run'[p].goal = goal
         /\ run' = [run EXCEPT ![p] = run'[p]]
         /\ run'[p] \in Run
<1>1. run[p] \in Run /\ run \in [Proc -> Run]
  BY DEF TypeOK
<1>2. run' = [run EXCEPT ![p] = [run[p] EXCEPT !.pc = "journal", !.goal = goal]]
  BY DEF Cycle
<1>3. run'[p] = [run[p] EXCEPT !.pc = "journal", !.goal = goal]
  BY <1>1, <1>2
<1>4. \A q \in Proc \ {p} : run'[q] = run[q]
  BY <1>1, <1>2
<1>5. /\ run'[p].pc = "journal" /\ run'[p].verb = run[p].verb
      /\ run'[p].goal = goal /\ run'[p] \in Run
  <2> DEFINE t == [run[p] EXCEPT !.pc = "journal", !.goal = goal]
  <2>0. "journal" \in Places /\ 0 \in 0..1
    BY DEF Places
  <2>1. /\ t \in Run /\ t.pc = "journal"
        /\ t.verb = run[p].verb /\ t.goal = goal
    BY <1>1, <2>0 DEF Run
  <2> QED
    BY <1>3, <2>1, Zenon
<1> QED
  BY <1>2, <1>3, <1>4, <1>5

(* What leaving the helper leaves of the invocations and the locks.        *)
LEMMA ExitFacts ==
  ASSUME TypeOK, NEW p \in Proc, NEW ok, Exit(p, ok)
  PROVE  /\ \A q \in Proc \ {p} : run'[q] = run[q]
         /\ run'[p] = Idle /\ run'[p].pc = "idle" /\ run'[p] \in Run
         /\ run' = [run EXCEPT ![p] = run'[p]]
         /\ deploy' \in {deploy, Free} /\ (deploy # p => deploy' = deploy)
         /\ mutex' \in {mutex, Free} /\ (mutex # p => mutex' = mutex)
         /\ watch' \in {watch, "ok", "failed"}
<1>1. Idle \in Run /\ Idle.pc = "idle"
  BY DEF Idle, Run, AllVerbs, Places
<1> QED
  BY <1>1 DEF Exit, TypeOK

(* The observation counter moves without the rest.                         *)
LEMMA SeenFacts ==
  ASSUME TypeOK, NEW p \in Proc, Observe(p) \/ ObserveOther(p)
  PROVE  /\ \A q \in Proc \ {p} : run'[q] = run[q]
         /\ run'[p].pc = run[p].pc /\ run'[p].verb = run[p].verb
         /\ run'[p].goal = run[p].goal /\ run'[p] \in Run
         /\ run' = [run EXCEPT ![p] = run'[p]]
<1>1. run[p] \in Run /\ run \in [Proc -> Run]
  BY DEF TypeOK
<1>2. PICK n \in 0..1 : run' = [run EXCEPT ![p] = [run[p] EXCEPT !.seen = n]]
  BY DEF Observe, ObserveOther
<1>3. run'[p] = [run[p] EXCEPT !.seen = n] /\ \A q \in Proc \ {p} : run'[q] = run[q]
  BY <1>1, <1>2
<1>4. /\ run'[p].pc = run[p].pc /\ run'[p].verb = run[p].verb
      /\ run'[p].goal = run[p].goal /\ run'[p] \in Run
  <2> DEFINE t == [run[p] EXCEPT !.seen = n]
  <2>0. "journal" \in Places /\ 0 \in 0..1
    BY DEF Places
  <2>1. /\ t \in Run /\ t.pc = run[p].pc
        /\ t.verb = run[p].verb /\ t.goal = run[p].goal
    BY <1>1, <2>0 DEF Run
  <2> QED
    BY <1>3, <2>1, Zenon
<1> QED
  BY <1>2, <1>3, <1>4

(* Process p moves on, the others stay where they are.                     *)
Moved(p) ==
    /\ \A q \in Proc \ {p} : run'[q] = run[q]
    /\ run'[p] \in Run
    /\ run' = [run EXCEPT ![p] = run'[p]]

(* Where the reconciliation leads, and where a settled half-cycle does.    *)
LEMMA AfterReconcileFacts ==
  ASSUME TypeOK, NEW p \in Proc, AfterReconcile(p)
  PROVE  /\ Moved(p) /\ run'[p].verb = run[p].verb
         /\ \/ run'[p].pc = "decide" /\ Starting(p)
            \/ run'[p].pc = "journal" /\ Verb(p) = "stop" /\ run'[p].goal = "stopped"
            \/ run'[p].pc = "lease" /\ Verb(p) # "stop" /\ ~Starting(p)
<1>1. CASE Starting(p)
  <2>1. Goto(p, "decide") /\ "decide" \in Places
    BY <1>1 DEF AfterReconcile, Starting, Verb, Places
  <2> QED
    BY <1>1, <2>1, GotoFacts DEF Moved
<1>2. CASE ~Starting(p) /\ Verb(p) = "stop"
  <2>1. Cycle(p, "stopped")
    BY <1>2 DEF AfterReconcile, Verb
  <2> QED
    BY <1>2, <2>1, CycleFacts DEF Moved
<1>3. CASE ~Starting(p) /\ Verb(p) # "stop"
  <2>1. Goto(p, "lease") /\ "lease" \in Places
    BY <1>3 DEF AfterReconcile, Places
  <2> QED
    BY <1>3, <2>1, GotoFacts DEF Moved
<1> QED
  BY <1>1, <1>2, <1>3

(* Where a settled half-cycle leads: up after down, the last check after up. *)
LEMMA AfterCycleFacts ==
  ASSUME TypeOK, NEW p \in Proc, AfterCycle(p)
  PROVE  /\ Moved(p) /\ run'[p].verb = run[p].verb
         /\ \/ run'[p].pc = "check" /\ run[p].goal = "running"
            \/ run'[p].pc = "release" /\ Verb(p) = "stop" /\ run[p].goal = "stopped"
            \/ run'[p].pc = "journal" /\ Verb(p) # "stop" /\ run[p].goal = "stopped"
<1>0. run[p].goal \in {"running", "stopped"}
  BY DEF TypeOK, Run
<1>1. CASE run[p].goal = "running"
  <2>1. Goto(p, "check") /\ "check" \in Places
    BY <1>1 DEF AfterCycle, Places
  <2> QED
    BY <1>1, <2>1, GotoFacts DEF Moved
<1>2. CASE run[p].goal = "stopped" /\ Verb(p) = "stop"
  <2>1. Goto(p, "release") /\ "release" \in Places
    BY <1>2 DEF AfterCycle, Places
  <2> QED
    BY <1>2, <2>1, GotoFacts DEF Moved
<1>3. CASE run[p].goal = "stopped" /\ Verb(p) # "stop"
  <2>1. Cycle(p, "running")
    BY <1>3 DEF AfterCycle
  <2> QED
    BY <1>3, <2>1, CycleFacts DEF Moved
<1> QED
  BY <1>0, <1>1, <1>2, <1>3

(* A new invocation, by an operator or by the watchdog.                    *)
LEMMA ArrivalFacts ==
  ASSUME TypeOK, NEW p \in Proc, NEW verb \in AllVerbs, NEW pc \in Places,
         run' = [run EXCEPT ![p] = [Idle EXCEPT !.verb = verb, !.pc = pc]]
  PROVE  Moved(p) /\ run'[p].pc = pc /\ run'[p].verb = verb
<1>1. run \in [Proc -> Run]
  BY DEF TypeOK
<1> DEFINE t == [Idle EXCEPT !.verb = verb, !.pc = pc]
<1>2. t \in Run /\ t.pc = pc /\ t.verb = verb
  <2>1. Idle \in Run
    BY DEF Idle, Run, AllVerbs, Places
  <2> QED
    BY <2>1 DEF Run
<1>3. run'[p] = t /\ \A q \in Proc \ {p} : run'[q] = run[q]
  BY <1>1
<1>4. run'[p] \in Run /\ run'[p].pc = pc /\ run'[p].verb = verb
  BY <1>2, <1>3, Zenon
<1> QED
  BY <1>3, <1>4 DEF Moved

(* A process that moves on leaves the invocations in their type.           *)
LEMMA MovedType ==
  ASSUME TypeOK, NEW p \in Proc, Moved(p) PROVE run' \in [Proc -> Run]
<1>1. run \in [Proc -> Run] /\ run' = [run EXCEPT ![p] = run'[p]] /\ run'[p] \in Run
  BY DEF TypeOK, Moved
<1> HIDE DEF Run
<1> DEFINE r == run'[p]
<1>2. run' = [run EXCEPT ![p] = r] /\ r \in Run
  BY <1>1
<1> HIDE DEF r
<1> QED
  BY <1>1, <1>2

(* All that a step does to the invocations: it moves one of them.          *)
LEMMA StepMoves ==
  ASSUME TypeOK, NEW p \in Proc, Step(p) PROVE Moved(p)
<1> USE DEF Moved
<1>1. ASSUME NEW verb \in Verbs, Begin(p, verb) PROVE Moved(p)
  <2>1. verb \in AllVerbs
    BY VerbAssumption
  <2>2. \E pc \in Places :
          run' = [run EXCEPT ![p] = [Idle EXCEPT !.verb = verb, !.pc = pc]]
    BY <1>1 DEF Begin, Places
  <2> QED
    BY <2>1, <2>2, ArrivalFacts
<1>2. CASE TakeDeploy(p)
  <2>1. \E pc \in Places : Goto(p, pc)
    BY <1>2 DEF TakeDeploy, Places
  <2> QED
    BY <2>1, GotoFacts
<1>3. CASE TakeMutex(p)
  <2>1. \E pc \in Places : Goto(p, pc)
    <3>1. CASE Starting(p)
      BY <1>3, <3>1 DEF TakeMutex, Places, Starting, Verb
    <3>2. CASE ~Starting(p) /\ Verb(p) = "reset"
      BY <1>3, <3>2 DEF TakeMutex, Places, Verb
    <3>3. CASE ~Starting(p) /\ Verb(p) # "reset"
      BY <1>3, <3>3 DEF TakeMutex, Places
    <3> QED
      BY <3>1, <3>2, <3>3
  <2> QED
    BY <2>1, GotoFacts
<1>4. CASE NeedsDeploy(p) \/ DecideStart(p) \/ WriteTransition(p)
           \/ Issue(p) \/ ClientEnds(p)
  <2>1. \E pc \in Places : Goto(p, pc)
    BY <1>4 DEF NeedsDeploy, DecideStart, WriteTransition, Issue, ClientEnds, Places
  <2> QED
    BY <2>1, GotoFacts
<1>5. CASE NothingPending(p) \/ Settled(p)
  BY <1>5, AfterReconcileFacts, AfterCycleFacts DEF NothingPending, Settled
<1>6. CASE TakeLease(p)
  <2>1. \E goal \in {"running", "stopped"} : Cycle(p, goal)
    BY <1>6 DEF TakeLease
  <2> QED
    BY <2>1, CycleFacts
<1>7. CASE Observe(p) \/ ObserveOther(p)
  BY <1>7, SeenFacts
<1>8. CASE \/ DeployBusy(p) \/ MutexBusy(p) \/ StartNoOp(p) \/ AppRoleRefused(p)
           \/ LeaseRefused(p) \/ ReleaseAny(p) \/ Unsettled(p) \/ Kill(p)
           \/ \E ok \in BOOLEAN : FinalCheck(p, ok)
  <2>1. \E ok \in BOOLEAN : Exit(p, ok)
    BY <1>8 DEF DeployBusy, MutexBusy, Refuse, StartNoOp, AppRoleRefused,
       LeaseRefused, ReleaseAny, Unsettled, Kill, FinalCheck
  <2> QED
    BY <2>1, ExitFacts
<1> QED
  BY <1>1, <1>2, <1>3, <1>4, <1>5, <1>6, <1>7, <1>8 DEF Step, Advance

(* Where the invocations that begin or are refused leave the locks.        *)
LEMMA OthersKeepLocks ==
  ASSUME TypeOK, NEW p \in Proc, Step(p), NEW q \in Proc \ {p}
  PROVE  (mutex = q => mutex' = q) /\ (deploy = q => deploy' = q)
<1>1. q # Free /\ p # q
  BY ProcAssumption
<1>2. ASSUME NEW ok, Exit(p, ok) PROVE (mutex = q => mutex' = q) /\ (deploy = q => deploy' = q)
  BY <1>1, <1>2 DEF Exit
<1>3. CASE \/ DeployBusy(p) \/ MutexBusy(p) \/ StartNoOp(p) \/ AppRoleRefused(p)
           \/ LeaseRefused(p) \/ ReleaseAny(p) \/ Unsettled(p) \/ Kill(p)
           \/ \E ok \in BOOLEAN : FinalCheck(p, ok)
  BY <1>2, <1>3 DEF DeployBusy, MutexBusy, Refuse, StartNoOp, AppRoleRefused,
     LeaseRefused, ReleaseAny, Unsettled, Kill, FinalCheck
<1>4. CASE TakeDeploy(p) \/ TakeMutex(p)
  BY <1>1, <1>4 DEF TakeDeploy, TakeMutex
<1>5. CASE \/ \E verb \in Verbs : Begin(p, verb)
           \/ NeedsDeploy(p) \/ DecideStart(p) \/ NothingPending(p) \/ TakeLease(p)
           \/ WriteTransition(p) \/ Issue(p) \/ ClientEnds(p)
           \/ Observe(p) \/ ObserveOther(p) \/ Settled(p)
  BY <1>5 DEF Begin, NeedsDeploy, DecideStart, NothingPending, TakeLease, WriteTransition,
     Issue, ClientEnds, Observe, ObserveOther, Settled, locks
<1> QED
  BY <1>3, <1>4, <1>5 DEF Step, Advance

-----------------------------------------------------------------------------
(* Every step keeps the types.                                             *)
LEMMA TypeStep == TypeOK /\ [Next]_vars => TypeOK'
<1> SUFFICES ASSUME TypeOK, [Next]_vars PROVE TypeOK'
  OBVIOUS
<1>1. ASSUME NEW p \in Proc, Step(p) PROVE TypeOK'
  <2>1. run' \in [Proc -> Run]
    BY <1>1, StepMoves, MovedType
  <2>2. ASSUME NEW ok, Exit(p, ok)
        PROVE  /\ deploy' \in Proc \cup {Free, Deployer} /\ mutex' \in Proc \cup {Free}
               /\ watch' \in {"idle", "waiting", "ok", "failed"}
    BY <2>2, ExitFacts DEF TypeOK
  <2>a. bare \in BOOLEAN
    BY DEF TypeOK
  <2>b. UNCHANGED bare \/ bare' = (bare /\ ~OwnLease(p))
          \/ bare' = (bare \/ (Verb(p) = "reset" /\ Paid)) => bare' \in BOOLEAN
    BY <2>a, Zenon
  <2>3. CASE DeployBusy(p) \/ MutexBusy(p)
    <3>1. Exit(p, FALSE) /\ lease' \in {lease, "free"}
          /\ UNCHANGED <<appHost, journal, container, inflight, push, spent, bare>>
      BY <2>3 DEF DeployBusy, MutexBusy, Refuse, docker
    <3> QED
      BY <2>1, <2>2, <3>1 DEF TypeOK
  <2>4. CASE \/ StartNoOp(p) \/ AppRoleRefused(p) \/ LeaseRefused(p) \/ ReleaseAny(p)
             \/ Unsettled(p) \/ Kill(p) \/ \E ok \in BOOLEAN : FinalCheck(p, ok)
    <3>1. /\ \E ok \in BOOLEAN : Exit(p, ok)
          /\ lease' \in {lease, "free"} /\ bare' \in BOOLEAN
          /\ UNCHANGED <<appHost, journal, container, inflight, push, spent>>
      BY <2>4, <2>b DEF StartNoOp, AppRoleRefused, LeaseRefused, ReleaseAny, Unsettled, Kill,
         FinalCheck, docker, leases
    <3> QED
      BY <2>1, <2>2, <3>1 DEF TypeOK
  <2>5. CASE \/ \E verb \in Verbs : Begin(p, verb)
             \/ NeedsDeploy(p) \/ DecideStart(p) \/ NothingPending(p) \/ ClientEnds(p)
             \/ Observe(p) \/ ObserveOther(p)
    <3>1. UNCHANGED <<appHost, deploy, mutex, journal, container, inflight, push,
                      lease, spent, bare, watch>>
      BY <2>5 DEF Begin, NeedsDeploy, DecideStart, NothingPending, ClientEnds,
         Observe, ObserveOther, docker, locks, leases
    <3> QED
      BY <2>1, <3>1 DEF TypeOK
  <2>6. CASE TakeDeploy(p) \/ TakeMutex(p)
    <3>1. /\ deploy' \in {deploy, p} /\ mutex' \in {mutex, p}
          /\ UNCHANGED <<appHost, journal, container, inflight, push, lease, spent, bare, watch>>
      BY <2>6 DEF TakeDeploy, TakeMutex, docker, leases
    <3> QED
      BY <2>1, <3>1 DEF TypeOK
  <2>7. CASE TakeLease(p)
    <3>1. /\ lease' \in {lease, "control"} /\ spent' \in BOOLEAN
          /\ UNCHANGED <<appHost, deploy, mutex, journal, container, inflight, push,
                         bare, watch>>
      BY <2>7 DEF TakeLease, docker, locks
    <3> QED
      BY <2>1, <3>1 DEF TypeOK
  <2>8. CASE WriteTransition(p) \/ Issue(p) \/ Settled(p)
    <3>1. /\ journal' \in {journal, run[p].goal, "none"}
          /\ inflight' \in {inflight, run[p].goal, "none"}
          /\ bare' \in BOOLEAN
          /\ UNCHANGED <<appHost, deploy, mutex, container, push, lease, spent, watch>>
      BY <2>8, <2>b DEF WriteTransition, Issue, Settled, docker, locks, leases
    <3>2. run[p].goal \in {"running", "stopped"}
      BY DEF TypeOK, Run
    <3> QED
      BY <2>1, <3>1, <3>2 DEF TypeOK
  <2> QED
    BY <1>1, <2>3, <2>4, <2>5, <2>6, <2>7, <2>8 DEF Step, Advance
<1>2. CASE HandOff
  <2>1. run' \in [Proc -> Run]
    BY <1>2, ProcAssumption, ArrivalFacts, MovedType DEF HandOff, AllVerbs, Places, TypeOK
  <2> QED
    BY <1>2, <2>1 DEF HandOff, TypeOK, locks, docker
<1>3. CASE GiveUp \/ HandedOff
  BY <1>3 DEF GiveUp, HandedOff, TypeOK, locks, docker, leases
<1>4. CASE DaemonActs \/ DaemonDrops \/ ContainerDies \/ PushAnswered
  BY <1>4 DEF DaemonActs, DaemonDrops, ContainerDies, PushAnswered, TypeOK, locks, leases
<1>5. CASE LeaseEnds \/ DeployLockMoves \/ JournalRots
  BY <1>5 DEF LeaseEnds, DeployLockMoves, JournalRots, TypeOK, locks, docker, leases
<1>6. CASE UNCHANGED vars
  BY <1>6 DEF vars, TypeOK
<1> QED
  BY <1>1, <1>2, <1>3, <1>4, <1>5, <1>6 DEF Next

-----------------------------------------------------------------------------
(* Where an invocation that began or ended stands.                         *)
LEMMA ExitPlace ==
  ASSUME TypeOK, NEW p \in Proc,
         \/ DeployBusy(p) \/ MutexBusy(p) \/ StartNoOp(p) \/ AppRoleRefused(p)
         \/ LeaseRefused(p) \/ ReleaseAny(p) \/ Unsettled(p) \/ Kill(p)
         \/ \E ok \in BOOLEAN : FinalCheck(p, ok)
  PROVE  run'[p].pc = "idle" /\ run'[p].verb = "stop"
         /\ UNCHANGED <<journal, container, inflight, push>>
<1>1. \E ok \in BOOLEAN : Exit(p, ok)
  BY DEF DeployBusy, MutexBusy, Refuse, StartNoOp, AppRoleRefused,
     LeaseRefused, ReleaseAny, Unsettled, Kill, FinalCheck
<1>2. run'[p] = Idle
  BY <1>1, ExitFacts
<1>3. Idle.pc = "idle" /\ Idle.verb = "stop"
  BY DEF Idle
<1>4. UNCHANGED <<journal, container, inflight, push>>
  BY DEF DeployBusy, MutexBusy, Refuse, StartNoOp, AppRoleRefused,
     LeaseRefused, ReleaseAny, Unsettled, Kill, FinalCheck, docker
<1> QED
  BY <1>2, <1>3, <1>4

(* Where an invocation that began stands.                                  *)
LEMMA BeginPlace ==
  ASSUME TypeOK, NEW p \in Proc, NEW verb \in Verbs, Begin(p, verb)
  PROVE  /\ run'[p].pc = IF verb \in {"start", "reset"} THEN "mutex" ELSE "deploy"
         /\ run'[p].verb = verb
<1>1. verb \in AllVerbs
  BY VerbAssumption
<1> DEFINE pc == IF verb \in {"start", "reset"} THEN "mutex" ELSE "deploy"
<1>2. pc \in Places /\ run' = [run EXCEPT ![p] = [Idle EXCEPT !.verb = verb, !.pc = pc]]
  BY Zenon DEF Begin, Places
<1> HIDE DEF pc
<1>3. run'[p].pc = pc /\ run'[p].verb = verb
  BY <1>1, <1>2, ArrivalFacts
<1> QED
  BY <1>3 DEF pc

(* Where the mutex leads.                                                  *)
LEMMA MutexPlace ==
  ASSUME TypeOK, NEW p \in Proc, TakeMutex(p)
  PROVE  /\ run'[p].verb = run[p].verb
         /\ \/ run'[p].pc = "look" /\ Starting(p)
            \/ run'[p].pc = "release" /\ Verb(p) = "reset"
            \/ run'[p].pc = "reconcile" /\ ~Starting(p) /\ Verb(p) # "reset"
<1>1. CASE Starting(p)
  <2>1. Goto(p, "look") /\ "look" \in Places
    BY <1>1 DEF TakeMutex, Places, Starting, Verb
  <2> QED
    BY <1>1, <2>1, GotoFacts
<1>2. CASE ~Starting(p) /\ Verb(p) = "reset"
  <2>1. Goto(p, "release") /\ "release" \in Places
    BY <1>2 DEF TakeMutex, Places, Verb
  <2> QED
    BY <1>2, <2>1, GotoFacts
<1>3. CASE ~Starting(p) /\ Verb(p) # "reset"
  <2>1. Goto(p, "reconcile") /\ "reconcile" \in Places
    BY <1>3 DEF TakeMutex, Places
  <2> QED
    BY <1>3, <2>1, GotoFacts
<1> QED
  BY <1>1, <1>2, <1>3

(* Where the other moves lead.                                             *)
LEMMA OtherPlace ==
  ASSUME TypeOK, NEW p \in Proc
  PROVE  /\ TakeDeploy(p) => /\ run'[p].verb = run[p].verb
                             /\ run'[p].pc = IF mutex = p THEN "reconcile" ELSE "mutex"
         /\ NeedsDeploy(p) => /\ run'[p].verb = run[p].verb
                              /\ run'[p].pc = IF deploy = p THEN "reconcile" ELSE "deploy"
         /\ DecideStart(p) => run'[p].verb = run[p].verb /\ run'[p].pc = "lease"
         /\ TakeLease(p) => /\ run'[p].verb = run[p].verb /\ run'[p].pc = "journal"
                            /\ run'[p].goal = IF Starting(p) THEN "running" ELSE "stopped"
         /\ WriteTransition(p) => /\ run'[p].verb = run[p].verb /\ run'[p].pc = "issue"
                                  /\ run'[p].goal = run[p].goal
         /\ Issue(p) => /\ run'[p].verb = run[p].verb /\ run'[p].pc = "client"
                        /\ run'[p].goal = run[p].goal
         /\ ClientEnds(p) => /\ run'[p].verb = run[p].verb /\ run'[p].pc = "settle"
                             /\ run'[p].goal = run[p].goal
<1>0. {"reconcile", "mutex", "deploy", "lease", "issue", "client", "settle"} \subseteq Places
  BY DEF Places
<1>1. TakeDeploy(p) => /\ run'[p].verb = run[p].verb
                       /\ run'[p].pc = IF mutex = p THEN "reconcile" ELSE "mutex"
  BY <1>0, GotoFacts DEF TakeDeploy
<1>2. NeedsDeploy(p) => /\ run'[p].verb = run[p].verb
                        /\ run'[p].pc = IF deploy = p THEN "reconcile" ELSE "deploy"
  BY <1>0, GotoFacts DEF NeedsDeploy
<1>3. DecideStart(p) => run'[p].verb = run[p].verb /\ run'[p].pc = "lease"
  BY <1>0, GotoFacts DEF DecideStart
<1>4. TakeLease(p) => /\ run'[p].verb = run[p].verb /\ run'[p].pc = "journal"
                      /\ run'[p].goal = IF Starting(p) THEN "running" ELSE "stopped"
  BY CycleFacts DEF TakeLease
<1>5. WriteTransition(p) => /\ run'[p].verb = run[p].verb /\ run'[p].pc = "issue"
                            /\ run'[p].goal = run[p].goal
  BY <1>0, GotoFacts DEF WriteTransition
<1>6. Issue(p) => /\ run'[p].verb = run[p].verb /\ run'[p].pc = "client"
                  /\ run'[p].goal = run[p].goal
  BY <1>0, GotoFacts DEF Issue
<1>7. ClientEnds(p) => /\ run'[p].verb = run[p].verb /\ run'[p].pc = "settle"
                       /\ run'[p].goal = run[p].goal
  BY <1>0, GotoFacts DEF ClientEnds
<1> QED
  BY <1>1, <1>2, <1>3, <1>4, <1>5, <1>6, <1>7

-----------------------------------------------------------------------------
(* Every step leaves the locks with those who work under them.             *)
LEMMA LockStep == TypeOK /\ LocksAreHeld /\ [Next]_vars => LocksAreHeld'
<1> SUFFICES ASSUME TypeOK, LocksAreHeld, [Next]_vars,
                    NEW q \in Proc
             PROVE  /\ run'[q].pc \in {"look", "reconcile", "decide", "lease", "journal",
                          "issue", "client", "settle", "check", "release"} => mutex' = q
                    /\ run'[q].pc \in {"reconcile", "decide", "lease", "journal", "issue",
                          "client", "settle", "check"} => deploy' = q
                    /\ run'[q].pc = "mutex" => run'[q].verb \in {"start", "reset"} \/ deploy' = q
  BY DEF LocksAreHeld, At, Verb
<1>0. /\ run[q].pc \in {"look", "reconcile", "decide", "lease", "journal",
            "issue", "client", "settle", "check", "release"} => mutex = q
      /\ run[q].pc \in {"reconcile", "decide", "lease", "journal", "issue",
            "client", "settle", "check"} => deploy = q
      /\ run[q].pc = "mutex" => run[q].verb \in {"start", "reset"} \/ deploy = q
  BY DEF LocksAreHeld, At, Verb
<1>1. ASSUME run'[q] = run[q], mutex = q => mutex' = q, deploy = q => deploy' = q
      PROVE  /\ run'[q].pc \in {"look", "reconcile", "decide", "lease", "journal",
                   "issue", "client", "settle", "check", "release"} => mutex' = q
             /\ run'[q].pc \in {"reconcile", "decide", "lease", "journal", "issue",
                   "client", "settle", "check"} => deploy' = q
             /\ run'[q].pc = "mutex" => run'[q].verb \in {"start", "reset"} \/ deploy' = q
  BY <1>0, <1>1
<1>2. ASSUME NEW p \in Proc, Step(p), p # q
      PROVE  run'[q] = run[q] /\ (mutex = q => mutex' = q) /\ (deploy = q => deploy' = q)
  BY <1>2, StepMoves, OthersKeepLocks DEF Moved
<1>3. CASE Step(q)
  <2>1. CASE \E verb \in Verbs : Begin(q, verb)
    BY <2>1, BeginPlace
  <2>2. CASE TakeDeploy(q)
    <3>1. deploy' = q /\ mutex' = mutex
      BY <2>2 DEF TakeDeploy
    <3> QED
      BY <2>2, <3>1, OtherPlace
  <2>3. CASE TakeMutex(q)
    <3>1. mutex' = q /\ deploy' = deploy /\ run[q].pc = "mutex"
      BY <2>3 DEF TakeMutex, At
    <3> QED
      BY <1>0, <2>3, <3>1, MutexPlace DEF Starting, Verb
  <2>4. CASE NeedsDeploy(q)
    <3>1. mutex' = mutex /\ deploy' = deploy /\ run[q].pc = "look"
      BY <2>4 DEF NeedsDeploy, At, locks
    <3> QED
      BY <1>0, <2>4, <3>1, OtherPlace
  <2>5. CASE DecideStart(q) \/ TakeLease(q) \/ WriteTransition(q) \/ Issue(q) \/ ClientEnds(q)
    <3>1. /\ mutex' = mutex /\ deploy' = deploy
          /\ run[q].pc \in {"decide", "lease", "journal", "issue", "client"}
      BY <2>5 DEF DecideStart, TakeLease, WriteTransition, Issue, ClientEnds, At, locks
    <3>2. run'[q].pc \in {"lease", "journal", "issue", "client", "settle"}
      BY <2>5, OtherPlace
    <3> QED
      BY <1>0, <3>1, <3>2
  <2>6. CASE NothingPending(q) \/ Settled(q)
    <3>1. /\ mutex' = mutex /\ deploy' = deploy
          /\ run[q].pc \in {"reconcile", "settle"}
          /\ AfterReconcile(q) \/ AfterCycle(q)
      BY <2>6 DEF NothingPending, Settled, Settling, Reconciling, At, locks
    <3>2. run'[q].pc \in {"decide", "journal", "lease", "check", "release"}
      BY <3>1, AfterReconcileFacts, AfterCycleFacts
    <3> QED
      BY <1>0, <3>1, <3>2
  <2>7. CASE Observe(q) \/ ObserveOther(q)
    <3>1. /\ mutex' = mutex /\ deploy' = deploy
      BY <2>7 DEF Observe, ObserveOther, locks
    <3>2. run'[q].pc = run[q].pc /\ run'[q].verb = run[q].verb
      BY <2>7, SeenFacts
    <3> QED
      BY <1>0, <3>1, <3>2
  <2>8. CASE \/ DeployBusy(q) \/ MutexBusy(q) \/ StartNoOp(q) \/ AppRoleRefused(q)
             \/ LeaseRefused(q) \/ ReleaseAny(q) \/ Unsettled(q) \/ Kill(q)
             \/ \E ok \in BOOLEAN : FinalCheck(q, ok)
    BY <2>8, ExitPlace
  <2> QED
    BY <1>3, <2>1, <2>2, <2>3, <2>4, <2>5, <2>6, <2>7, <2>8 DEF Step, Advance
<1>4. CASE HandOff
  <2>1. mutex' = mutex /\ deploy' = deploy
    BY <1>4 DEF HandOff, locks
  <2>2. CASE q = Adapter /\ At(Adapter, "idle")
    <3>1. run'[q].pc = "deploy"
      BY <1>4, <2>2, ProcAssumption, ArrivalFacts DEF HandOff, AllVerbs, Places
    <3> QED
      BY <3>1
  <2>3. CASE ~(q = Adapter /\ At(Adapter, "idle"))
    <3>1. run'[q] = run[q]
      BY <1>4, <2>3, ProcAssumption DEF HandOff, TypeOK
    <3> QED
      BY <1>1, <2>1, <3>1
  <2> QED
    BY <2>2, <2>3
<1>5. CASE GiveUp \/ HandedOff \/ DaemonActs \/ DaemonDrops \/ ContainerDies \/ PushAnswered
           \/ LeaseEnds \/ JournalRots
  <2>1. run' = run /\ mutex' = mutex /\ deploy' = deploy
    BY <1>5 DEF GiveUp, HandedOff, DaemonActs, DaemonDrops, ContainerDies, PushAnswered,
       LeaseEnds, JournalRots, locks
  <2> QED
    BY <1>1, <2>1
<1>6. CASE DeployLockMoves
  <2>1. run' = run /\ mutex' = mutex /\ deploy # q
    BY <1>6, ProcAssumption DEF DeployLockMoves
  <2> QED
    BY <1>1, <2>1
<1>7. CASE UNCHANGED vars
  BY <1>1, <1>7 DEF vars
<1> QED
  BY <1>1, <1>2, <1>3, <1>4, <1>5, <1>6, <1>7 DEF Next

-----------------------------------------------------------------------------
(* What SettledBefore says of one invocation, with q's record spelt out so *)
(* that a step that leaves it alone is seen to.                            *)
Clear(q) ==
    /\ run[q].pc \in {"decide", "lease", "journal", "check"} => journal = "none"
    /\ run[q].pc = "issue" =>
          inflight = "none" /\ journal \in {run[q].goal, "unreadable"}
    /\ run[q].pc \in {"client", "settle"} => inflight \in {"none", run[q].goal}
    /\ run[q].pc = "release" /\ run[q].verb = "stop" =>
          journal = "none" /\ container = "stopped"

(* Settled is reached only when the daemon owes nothing any more.          *)
LEMMA SettledFacts ==
  ASSUME TypeOK, JournalNamesIt, SettledBefore, NEW p \in Proc, Settled(p)
  PROVE  /\ inflight = "none" /\ run[p].pc \in {"reconcile", "settle"}
         /\ run[p].pc = "settle" => container = run[p].goal
<1>1. Matches(p) /\ Settling(p)
  BY DEF Settled
<1>2. CASE At(p, "settle")
  <2>1. container = run[p].goal
    BY <1>1, <1>2 DEF Matches, Awaited
  <2>2. inflight \in {"none", run[p].goal}
    BY <1>2 DEF SettledBefore, At
  <2> QED
    BY <1>2, <2>1, <2>2 DEF JournalNamesIt, At
<1>3. CASE ~At(p, "settle")
  <2>1. container = journal /\ journal \in {"running", "stopped"} /\ At(p, "reconcile")
    BY <1>1, <1>3 DEF Matches, Awaited, Settling, Reconciling
  <2> QED
    BY <2>1 DEF JournalNamesIt, At
<1> QED
  BY <1>2, <1>3

(* Every step leaves the journal naming what the daemon owes, and nobody   *)
(* past the reconciliation with anything owed by somebody else.            *)
LEMMA DockerStep == Safe /\ [Next]_vars => JournalNamesIt' /\ SettledBefore'
<1> SUFFICES ASSUME Safe, [Next]_vars PROVE JournalNamesIt' /\ SettledBefore'
  OBVIOUS
<1>a. TypeOK /\ LocksAreHeld /\ JournalNamesIt /\ SettledBefore
  BY DEF Safe
<1>b. (\A q \in Proc : Clear(q)) /\ inflight \in {"none", "running", "stopped"}
  BY <1>a DEF Clear, SettledBefore, At, Verb, TypeOK
<1>c. ASSUME \A q \in Proc : Clear(q)' PROVE SettledBefore'
  BY <1>c DEF Clear, SettledBefore, At, Verb
<1>d. ASSUME NEW p \in Proc, mutex = p, Step(p), NEW q \in Proc \ {p} PROVE Clear(q)'
  <2>1. run'[q] = run[q]
    BY <1>a, <1>d, StepMoves DEF Moved
  <2>2. run[q].pc \notin {"decide", "lease", "journal", "check", "issue", "client",
                          "settle", "release"}
    BY <1>a, <1>d DEF LocksAreHeld
  <2> QED
    BY <2>1, <2>2 DEF Clear
<1>e. ASSUME UNCHANGED <<journal, container, inflight>>, NEW q \in Proc, run'[q] = run[q]
      PROVE  Clear(q)'
  BY <1>b, <1>e DEF Clear
<1>f. ASSUME NEW p \in Proc, Step(p), UNCHANGED <<journal, container, inflight>>, Clear(p)'
      PROVE  JournalNamesIt' /\ SettledBefore'
  <2>1. \A q \in Proc \ {p} : run'[q] = run[q]
    BY <1>a, <1>f, StepMoves DEF Moved
  <2>2. \A q \in Proc : Clear(q)'
    BY <1>e, <1>f, <2>1
  <2> QED
    BY <1>a, <1>c, <1>f, <2>2 DEF JournalNamesIt
<1>1. ASSUME NEW p \in Proc, Step(p) PROVE JournalNamesIt' /\ SettledBefore'
  <2>0. Clear(p)
    BY <1>b
  <2>1. CASE \E verb \in Verbs : Begin(p, verb)
    <3>1. UNCHANGED <<journal, container, inflight>>
      BY <2>1 DEF Begin, docker
    <3>2. run'[p].pc \in {"mutex", "deploy"}
      BY <1>a, <2>1, BeginPlace
    <3>3. Clear(p)'
      BY <3>2 DEF Clear
    <3> QED
      BY <1>1, <1>f, <3>1, <3>3
  <2>2. CASE TakeDeploy(p) \/ NeedsDeploy(p)
    <3>1. UNCHANGED <<journal, container, inflight>>
      BY <2>2 DEF TakeDeploy, NeedsDeploy, docker
    <3>2. run'[p].pc \in {"mutex", "deploy", "reconcile"}
      BY <1>a, <2>2, OtherPlace
    <3>3. Clear(p)'
      BY <3>2 DEF Clear
    <3> QED
      BY <1>1, <1>f, <3>1, <3>3
  <2>3. CASE TakeMutex(p)
    <3>1. UNCHANGED <<journal, container, inflight>>
      BY <2>3 DEF TakeMutex, docker
    <3>2. run'[p].pc \in {"look", "reconcile"} \/ run'[p].verb = "reset"
      BY <1>a, <2>3, MutexPlace DEF Verb
    <3>3. run'[p].pc \in {"look", "reconcile", "release"}
      BY <1>a, <2>3, MutexPlace
    <3>4. Clear(p)'
      BY <3>2, <3>3 DEF Clear
    <3> QED
      BY <1>1, <1>f, <3>1, <3>4
  <2>4. CASE DecideStart(p) \/ TakeLease(p)
    <3>1. /\ UNCHANGED <<journal, container, inflight>>
          /\ run[p].pc \in {"decide", "lease"}
      BY <2>4 DEF DecideStart, TakeLease, At, docker
    <3>2. run'[p].pc \in {"lease", "journal"}
      BY <1>a, <2>4, OtherPlace
    <3>3. Clear(p)'
      BY <2>0, <3>1, <3>2 DEF Clear
    <3> QED
      BY <1>1, <1>f, <3>1, <3>3
  <2>5. CASE NothingPending(p)
    <3>1. /\ UNCHANGED <<journal, container, inflight>>
          /\ journal = "none" /\ AfterReconcile(p)
      BY <2>5 DEF NothingPending, docker
    <3>2. run'[p].pc \in {"decide", "lease", "journal"}
      BY <1>a, <3>1, AfterReconcileFacts
    <3>3. Clear(p)'
      BY <3>1, <3>2 DEF Clear
    <3> QED
      BY <1>1, <1>f, <3>1, <3>3
  <2>6. CASE ClientEnds(p)
    <3>1. UNCHANGED <<journal, container, inflight>> /\ run[p].pc = "client"
      BY <2>6 DEF ClientEnds, At, docker
    <3>2. run'[p].pc = "settle" /\ run'[p].goal = run[p].goal
      BY <1>a, <2>6, OtherPlace
    <3>3. Clear(p)'
      BY <2>0, <3>1, <3>2 DEF Clear
    <3> QED
      BY <1>1, <1>f, <3>1, <3>3
  <2>7. CASE Observe(p) \/ ObserveOther(p)
    <3>1. UNCHANGED <<journal, container, inflight>>
      BY <2>7 DEF Observe, ObserveOther, docker
    <3>2. /\ run'[p].pc = run[p].pc /\ run'[p].verb = run[p].verb
          /\ run'[p].goal = run[p].goal
      BY <1>a, <2>7, SeenFacts
    <3>3. Clear(p)'
      BY <2>0, <3>1, <3>2 DEF Clear
    <3> QED
      BY <1>1, <1>f, <3>1, <3>3
  <2>8. CASE \/ DeployBusy(p) \/ MutexBusy(p) \/ StartNoOp(p) \/ AppRoleRefused(p)
             \/ LeaseRefused(p) \/ ReleaseAny(p) \/ Unsettled(p) \/ Kill(p)
             \/ \E ok \in BOOLEAN : FinalCheck(p, ok)
    <3>1. run'[p].pc = "idle" /\ UNCHANGED <<journal, container, inflight>>
      BY <1>a, <2>8, ExitPlace
    <3>2. Clear(p)'
      BY <3>1 DEF Clear
    <3> QED
      BY <1>1, <1>f, <3>1, <3>2
  <2>9. CASE Settled(p)
    <3>1. /\ inflight = "none" /\ run[p].pc \in {"reconcile", "settle"}
          /\ run[p].pc = "settle" => container = run[p].goal
      BY <1>a, <2>9, SettledFacts
    <3>2. mutex = p
      BY <1>a, <3>1 DEF LocksAreHeld
    <3>3. /\ journal' = "none" /\ inflight' = "none" /\ container' = container
          /\ IF run[p].pc = "settle" THEN AfterCycle(p) ELSE AfterReconcile(p)
      BY <2>9, <3>1 DEF Settled, docker, At
    <3>4. /\ run'[p].pc \in {"decide", "lease", "journal", "check", "release"}
          /\ run'[p].pc = "release" => container = "stopped"
      BY <1>a, <3>1, <3>3, AfterReconcileFacts, AfterCycleFacts
    <3>5. Clear(p)'
      BY <3>3, <3>4 DEF Clear
    <3>6. \A q \in Proc : Clear(q)'
      BY <1>1, <1>d, <3>2, <3>5
    <3> QED
      BY <1>c, <3>3, <3>6 DEF JournalNamesIt
  <2>10. CASE WriteTransition(p)
    <3>1. run[p].pc = "journal" /\ journal' = run[p].goal
          /\ inflight' = inflight /\ container' = container
      BY <2>10 DEF WriteTransition, At, docker
    <3>2. mutex = p /\ journal = "none"
      BY <1>a, <2>0, <3>1 DEF LocksAreHeld, Clear
    <3>3. inflight = "none"
      BY <1>a, <1>b, <3>2 DEF JournalNamesIt
    <3>4. run'[p].pc = "issue" /\ run'[p].goal = run[p].goal
      BY <1>a, <2>10, OtherPlace
    <3>5. Clear(p)'
      BY <3>1, <3>3, <3>4 DEF Clear
    <3>6. \A q \in Proc : Clear(q)'
      BY <1>1, <1>d, <3>2, <3>5
    <3> QED
      BY <1>c, <3>1, <3>3, <3>6 DEF JournalNamesIt
  <2>11. CASE Issue(p)
    <3>1. /\ run[p].pc = "issue" /\ journal' = journal /\ container' = container
          /\ inflight' = IF container = run[p].goal THEN "none" ELSE run[p].goal
      BY <2>11 DEF Issue, At
    <3>2. mutex = p /\ journal \in {run[p].goal, "unreadable"}
      BY <1>a, <2>0, <3>1 DEF LocksAreHeld, Clear
    <3>3. run'[p].pc = "client" /\ run'[p].goal = run[p].goal
      BY <1>a, <2>11, OtherPlace
    <3>4. Clear(p)'
      BY <3>1, <3>3 DEF Clear
    <3>5. \A q \in Proc : Clear(q)'
      BY <1>1, <1>d, <3>2, <3>4
    <3>6. JournalNamesIt'
      BY <3>1, <3>2 DEF JournalNamesIt
    <3> QED
      BY <1>c, <3>5, <3>6
  <2> QED
    BY <1>1, <2>1, <2>2, <2>3, <2>4, <2>5, <2>6, <2>7, <2>8, <2>9, <2>10, <2>11
    DEF Step, Advance
<1>2. CASE HandOff
  <2>1. UNCHANGED <<journal, container, inflight>>
    BY <1>2 DEF HandOff, docker
  <2>2. CASE At(Adapter, "idle")
    <3>1. /\ run'[Adapter].pc = "deploy"
          /\ \A q \in Proc \ {Adapter} : run'[q] = run[q]
      BY <1>a, <1>2, <2>2, ProcAssumption, ArrivalFacts DEF HandOff, AllVerbs, Places, Moved
    <3>2. Clear(Adapter)'
      BY <3>1 DEF Clear
    <3>3. \A q \in Proc : Clear(q)'
      BY <1>e, <2>1, <3>1, <3>2
    <3> QED
      BY <1>a, <1>c, <2>1, <3>3 DEF JournalNamesIt
  <2>3. CASE ~At(Adapter, "idle")
    <3>1. run' = run
      BY <1>2, <2>3 DEF HandOff
    <3>2. \A q \in Proc : Clear(q)'
      BY <1>e, <2>1, <3>1
    <3> QED
      BY <1>a, <1>c, <2>1, <3>2 DEF JournalNamesIt
  <2> QED
    BY <2>2, <2>3
<1>3. CASE GiveUp \/ HandedOff \/ PushAnswered \/ LeaseEnds \/ DeployLockMoves
           \/ UNCHANGED vars
  <2>1. UNCHANGED <<journal, container, inflight, run>>
    BY <1>3 DEF GiveUp, HandedOff, PushAnswered, LeaseEnds, DeployLockMoves, vars, docker
  <2>2. \A q \in Proc : Clear(q)'
    BY <1>e, <2>1
  <2> QED
    BY <1>a, <1>c, <2>1, <2>2 DEF JournalNamesIt
<1>4. CASE DaemonActs \/ DaemonDrops
  <2>1. /\ UNCHANGED <<journal, run>> /\ inflight # "none" /\ inflight' = "none"
        /\ journal # "none"
    BY <1>4, <1>a DEF DaemonActs, DaemonDrops, JournalNamesIt
  <2>2. \A q \in Proc : Clear(q)'
    BY <1>b, <2>1 DEF Clear
  <2> QED
    BY <1>c, <2>1, <2>2 DEF JournalNamesIt
<1>5. CASE ContainerDies
  <2>1. /\ UNCHANGED <<journal, run>> /\ inflight' = "none" /\ container' = "stopped"
    BY <1>5 DEF ContainerDies
  <2>2. \A q \in Proc : Clear(q)'
    BY <1>b, <2>1 DEF Clear
  <2> QED
    BY <1>c, <2>1, <2>2 DEF JournalNamesIt
<1>6. CASE JournalRots
  <2>1. /\ UNCHANGED <<container, inflight, run>>
        /\ journal # "none" /\ journal' = "unreadable"
    BY <1>6 DEF JournalRots, docker
  <2>2. \A q \in Proc : Clear(q)'
    BY <1>b, <2>1 DEF Clear
  <2> QED
    BY <1>a, <1>c, <2>1, <2>2 DEF JournalNamesIt
<1> QED
  BY <1>1, <1>2, <1>3, <1>4, <1>5, <1>6 DEF Next

(* Together they are inductive.                                            *)
LEMMA SafeHolds == Spec => []Safe
<1>1. Init => Safe
  <2>1. Idle \in Run /\ Idle.pc = "idle"
    BY DEF Idle, Run, AllVerbs, Places
  <2>2. Init => TypeOK
    BY <2>1 DEF Init, TypeOK
  <2>3. ASSUME Init, NEW p \in Proc PROVE run[p].pc = "idle"
    BY <2>1, <2>3 DEF Init
  <2> QED
    BY <2>2, <2>3 DEF Safe, LocksAreHeld, JournalNamesIt, SettledBefore, At, Init
<1>2. Safe /\ [Next]_vars => Safe'
  BY TypeStep, LockStep, DockerStep DEF Safe
<1> QED
  BY <1>1, <1>2, PTL DEF Spec

(* Locks, journal, daemon and invocations always have their types.         *)
THEOREM Typing == Spec => []TypeOK
BY SafeHolds, PTL DEF Safe

(* However many invocations there are, two never cycle the container at    *)
(* once (ib-gateway-control.sh: the two locks are taken in either order).  *)
THEOREM MutatorsExclude == Spec => []OneMutator
<1>1. Safe => OneMutator
  BY DEF Safe, OneMutator, Mutating, LocksAreHeld
<1> QED
  BY <1>1, SafeHolds, PTL

(* Docker is never asked for a second thing while it owes the first, also  *)
(* after the invocation that asked for it was killed or gave up.           *)
THEOREM OperationsDoNotOverlap == Spec => OneOperation
<1>1. Safe /\ [Next]_vars => [\A p \in Proc : Issue(p) => inflight = "none"]_vars
  BY DEF Safe, SettledBefore, Issue
<1> QED
  BY <1>1, SafeHolds, PTL DEF Spec, OneOperation

(* start never reports a healthy Gateway that a stop in flight is about to *)
(* take down.                                                              *)
THEOREM StartIsTruthful == Spec => StartReadsTruth
<1>1. Safe /\ [Next]_vars => [\A p \in Proc : StartNoOp(p) => inflight # "stopped"]_vars
  <2> SUFFICES ASSUME Safe, NEW p \in Proc, StartNoOp(p) PROVE inflight # "stopped"
    OBVIOUS
  <2>1. journal = "none"
    BY DEF StartNoOp, Safe, SettledBefore, At
  <2> QED
    BY <2>1 DEF Safe, JournalNamesIt
<1> QED
  BY <1>1, SafeHolds, PTL DEF Spec, StartReadsTruth

(* stop gives a lease up only over a stopped container that nothing in     *)
(* flight can bring up.                                                    *)
THEOREM StopReleasesSafely == Spec => StopReleasesDown
<1>1. Safe /\ [Next]_vars =>
        [\A p \in Proc : ReleaseAny(p) /\ Verb(p) = "stop" =>
            container = "stopped" /\ inflight = "none"]_vars
  <2> SUFFICES ASSUME Safe, NEW p \in Proc, ReleaseAny(p), Verb(p) = "stop"
               PROVE  container = "stopped" /\ inflight = "none"
    OBVIOUS
  <2>1. journal = "none" /\ container = "stopped"
    BY DEF ReleaseAny, Safe, SettledBefore
  <2> QED
    BY <2>1 DEF Safe, JournalNamesIt, TypeOK
<1> QED
  BY <1>1, SafeHolds, PTL DEF Spec, StopReleasesDown

-----------------------------------------------------------------------------
(* The push is covered, unless its lease was taken away.                   *)

(* What CycleHasItsLease says of one invocation.                           *)
Covered(q) ==
    /\ run[q].pc # "idle" /\ run[q].verb = "preheld" => q = Adapter
    /\ run[q].pc = "look" => run[q].verb \in {"start", "operator-start"}
    /\ run[q].pc = "release" => run[q].verb \in {"stop", "reset"}
    /\ run[q].verb = "reset" => run[q].pc \in {"mutex", "release"}
    /\ run[q].pc \in {"journal", "issue", "client", "settle", "check"} =>
          IF run[q].verb = "stop" THEN run[q].goal = "stopped"
          ELSE IF run[q].verb = "preheld" THEN bare \/ (lease = "watchdog" /\ spent)
          ELSE bare \/ lease = "control"
    /\ run[q].pc \in {"deploy", "mutex"} /\ run[q].verb = "preheld"
          /\ lease = "watchdog" => ~spent
    /\ run[q].pc \in {"journal", "issue"} /\ run[q].verb \in {"restart", "preheld"} =>
          ~push \/ bare

PushHasItsLease ==
    /\ push => container = "running"
    /\ (push \/ inflight = "running") /\ ~bare =>
          lease = "control" \/ (lease = "watchdog" /\ spent)

(* The two are CycleHasItsLease, invocation by invocation.                 *)
LEMMA CoveredIs ==
  CycleHasItsLease <=> (\A q \in Proc : Covered(q)) /\ PushHasItsLease
BY DEF CycleHasItsLease, Covered, PushHasItsLease, At, Verb, InCycle, Starting, OwnLease, Paid

(* The same in the next state.                                             *)
LEMMA CoveredIsNext ==
  (\A q \in Proc : Covered(q)') /\ PushHasItsLease' => CycleHasItsLease'
BY DEF CycleHasItsLease, Covered, PushHasItsLease, At, Verb, InCycle, Starting, OwnLease, Paid

(* Nobody takes a lease, restarts or lets go in a way that leaves a cycle  *)
(* or an unanswered push without one.                                      *)
LEMMA CoverStep ==
  Safe /\ CycleHasItsLease /\ [Next]_vars => CycleHasItsLease'
<1> SUFFICES ASSUME Safe, CycleHasItsLease, [Next]_vars
             PROVE  (\A q \in Proc : Covered(q)') /\ PushHasItsLease'
  BY CoveredIsNext
<1>a. TypeOK /\ LocksAreHeld /\ JournalNamesIt /\ SettledBefore
  BY DEF Safe
<1>b. (\A q \in Proc : Covered(q)) /\ PushHasItsLease
  BY CoveredIs
<1>c. ASSUME UNCHANGED <<lease, spent, bare, push>>, NEW q \in Proc, run'[q] = run[q]
      PROVE  Covered(q)'
  BY <1>b, <1>c DEF Covered
<1>d. ASSUME NEW p \in Proc, Step(p), UNCHANGED <<lease, spent, bare, push, inflight, container>>,
             Covered(p)'
      PROVE  (\A q \in Proc : Covered(q)') /\ PushHasItsLease'
  <2>1. \A q \in Proc \ {p} : run'[q] = run[q]
    BY <1>a, <1>d, StepMoves DEF Moved
  <2> QED
    BY <1>b, <1>c, <1>d, <2>1 DEF PushHasItsLease
<1>e. ASSUME NEW p \in Proc, mutex = p, NEW q \in Proc \ {p}
      PROVE  run[q].pc \notin {"journal", "issue", "client", "settle", "check", "release"}
  BY <1>a, <1>e DEF LocksAreHeld
<1>1. ASSUME NEW p \in Proc, Step(p)
      PROVE  (\A q \in Proc : Covered(q)') /\ PushHasItsLease'
  <2>0. Covered(p) /\ \A q \in Proc \ {p} : run'[q] = run[q]
    BY <1>a, <1>b, <1>1, StepMoves DEF Moved
  <2>1. ASSUME NEW verb \in Verbs, Begin(p, verb)
        PROVE  (\A q \in Proc : Covered(q)') /\ PushHasItsLease'
    <3>1. UNCHANGED <<lease, spent, bare, push, inflight, container>> /\ verb # "preheld"
      BY <2>1 DEF Begin, docker, leases
    <3>2. /\ run'[p].pc \in {"mutex", "deploy"} /\ run'[p].verb # "preheld"
          /\ run'[p].verb = "reset" => run'[p].pc = "mutex"
      BY <1>a, <2>1, <3>1, BeginPlace
    <3>3. Covered(p)'
      BY <3>2 DEF Covered
    <3> QED
      BY <1>1, <1>d, <3>1, <3>3
  <2>2. CASE TakeDeploy(p) \/ NeedsDeploy(p) \/ TakeMutex(p)
    <3>1. UNCHANGED <<lease, spent, bare, push, inflight, container>>
      BY <2>2 DEF TakeDeploy, NeedsDeploy, TakeMutex, docker, leases
    <3>2. CASE TakeDeploy(p)
      <4>1. run[p].pc = "deploy"
        BY <3>2 DEF TakeDeploy, At
      <4>2. run'[p].pc \in {"mutex", "reconcile"} /\ run'[p].verb = run[p].verb
        BY <1>a, <3>2, OtherPlace
      <4>3. Covered(p)'
        BY <2>0, <3>1, <4>1, <4>2 DEF Covered
      <4> QED
        BY <1>1, <1>d, <3>1, <4>3
    <3>3. CASE NeedsDeploy(p)
      <4>1. run[p].pc = "look"
        BY <3>3 DEF NeedsDeploy, At
      <4>2. run'[p].pc \in {"deploy", "reconcile"} /\ run'[p].verb = run[p].verb
        BY <1>a, <3>3, OtherPlace
      <4>3. Covered(p)'
        BY <2>0, <3>1, <4>1, <4>2 DEF Covered
      <4> QED
        BY <1>1, <1>d, <3>1, <4>3
    <3>4. CASE TakeMutex(p)
      <4>1. run[p].pc = "mutex"
        BY <3>4 DEF TakeMutex, At
      <4>2. /\ run'[p].verb = run[p].verb
            /\ \/ run'[p].pc = "look" /\ run[p].verb \in {"start", "operator-start"}
               \/ run'[p].pc = "release" /\ run[p].verb = "reset"
               \/ run'[p].pc = "reconcile" /\ run[p].verb # "reset"
        BY <1>a, <3>4, MutexPlace DEF Starting, Verb
      <4>3. Covered(p)'
        BY <2>0, <3>1, <4>1, <4>2 DEF Covered
      <4> QED
        BY <1>1, <1>d, <3>1, <4>3
    <3> QED
      BY <2>2, <3>2, <3>3, <3>4
  <2>3. CASE DecideStart(p)
    <3>1. UNCHANGED <<lease, spent, bare, push, inflight, container>> /\ run[p].pc = "decide"
      BY <2>3 DEF DecideStart, At, docker, leases
    <3>2. run'[p].pc = "lease" /\ run'[p].verb = run[p].verb
      BY <1>a, <2>3, OtherPlace
    <3>3. Covered(p)'
      BY <2>0, <3>1, <3>2 DEF Covered
    <3> QED
      BY <1>1, <1>d, <3>1, <3>3
  <2>4. CASE WriteTransition(p) \/ ClientEnds(p)
    <3>1. /\ UNCHANGED <<lease, spent, bare, push, inflight, container>>
          /\ \/ run[p].pc = "journal" /\ run'[p].pc = "issue"
             \/ run[p].pc = "client" /\ run'[p].pc = "settle"
      BY <1>a, <2>4, OtherPlace DEF WriteTransition, ClientEnds, At, docker, leases
    <3>2. run'[p].verb = run[p].verb /\ run'[p].goal = run[p].goal
      BY <1>a, <2>4, OtherPlace
    <3>3. Covered(p)'
      BY <2>0, <3>1, <3>2 DEF Covered
    <3> QED
      BY <1>1, <1>d, <3>1, <3>3
  <2>5. CASE Observe(p) \/ ObserveOther(p)
    <3>1. UNCHANGED <<lease, spent, bare, push, inflight, container>>
      BY <2>5 DEF Observe, ObserveOther, docker, leases
    <3>2. /\ run'[p].pc = run[p].pc /\ run'[p].verb = run[p].verb
          /\ run'[p].goal = run[p].goal
      BY <1>a, <2>5, SeenFacts
    <3>3. Covered(p)'
      BY <2>0, <3>1, <3>2 DEF Covered
    <3> QED
      BY <1>1, <1>d, <3>1, <3>3
  <2>6. ASSUME AfterReconcile(p), run[p].pc = "reconcile",
               UNCHANGED <<lease, spent, bare, push, inflight, container>>
        PROVE  (\A q \in Proc : Covered(q)') /\ PushHasItsLease'
    <3>1. /\ run'[p].verb = run[p].verb
          /\ \/ run'[p].pc \in {"decide", "lease"}
             \/ run'[p].pc = "journal" /\ run[p].verb = "stop" /\ run'[p].goal = "stopped"
      BY <1>a, <2>6, AfterReconcileFacts DEF Verb
    <3>2. Covered(p)'
      BY <2>0, <2>6, <3>1 DEF Covered
    <3> QED
      BY <1>1, <1>d, <2>6, <3>2
  <2>7. CASE NothingPending(p)
    BY <2>6, <2>7 DEF NothingPending, Reconciling, At, docker, leases
  <2>8. CASE Settled(p)
    <3>1. /\ UNCHANGED <<lease, spent, bare, push, inflight, container>>
          /\ IF run[p].pc = "settle" THEN AfterCycle(p) ELSE AfterReconcile(p)
          /\ run[p].pc \in {"settle", "reconcile"}
      BY <2>8 DEF Settled, Settling, Reconciling, docker, leases, At
    <3>2. CASE run[p].pc = "settle"
      <4>1. container = run[p].goal
        BY <1>a, <2>8, <3>2, SettledFacts
      <4>2. /\ run'[p].verb = run[p].verb
            /\ \/ run'[p].pc = "check" /\ run[p].goal = "running"
               \/ run'[p].pc = "release" /\ run[p].verb = "stop"
               \/ run'[p].pc = "journal" /\ run[p].verb # "stop" /\ run[p].goal = "stopped"
        BY <1>a, <3>1, <3>2, AfterCycleFacts DEF Verb
      <4>3. run'[p].pc = "journal" => ~push
        BY <1>b, <4>1, <4>2 DEF PushHasItsLease
      <4>4. Covered(p)'
        BY <2>0, <3>1, <3>2, <4>2, <4>3 DEF Covered
      <4> QED
        BY <1>1, <1>d, <3>1, <4>4
    <3>3. CASE run[p].pc # "settle"
      BY <2>6, <3>1, <3>3
    <3> QED
      BY <3>2, <3>3
  <2>9. CASE TakeLease(p)
    <3>1. /\ run[p].pc = "lease" /\ UNCHANGED <<bare, push, inflight, container>>
          /\ IF run[p].verb = "preheld"
             THEN lease = "watchdog" /\ ~spent /\ lease' = "watchdog" /\ spent'
             ELSE lease = "free" /\ lease' = "control"
      BY <2>9 DEF TakeLease, At, Verb, docker
    <3>2. bare \/ (~push /\ inflight # "running")
      BY <1>b, <3>1 DEF PushHasItsLease
    <3>3. mutex = p
      BY <1>a, <3>1 DEF LocksAreHeld
    <3>4. /\ run'[p].pc = "journal" /\ run'[p].verb = run[p].verb
          /\ run[p].verb = "stop" => run'[p].goal = "stopped"
      BY <1>a, <2>9, OtherPlace DEF Starting, Verb
    <3>5. Covered(p)'
      BY <2>0, <3>1, <3>2, <3>4 DEF Covered
    <3>6. ASSUME NEW q \in Proc \ {p} PROVE Covered(q)'
      <4>1. /\ run[q].pc \notin {"journal", "issue", "client", "settle", "check", "release"}
            /\ run'[q] = run[q] /\ Covered(q)
        BY <1>b, <1>e, <2>0, <3>3
      <4>2. CASE run[p].verb = "preheld"
        <5>1. p = Adapter /\ ~(run[q].pc # "idle" /\ run[q].verb = "preheld")
          BY <2>0, <3>1, <4>1, <4>2 DEF Covered
        <5> QED
          BY <4>1, <5>1 DEF Covered
      <4>3. CASE run[p].verb # "preheld"
        BY <3>1, <4>1, <4>3 DEF Covered
      <4> QED
        BY <4>2, <4>3
    <3>7. PushHasItsLease'
      BY <1>b, <3>1, <3>2 DEF PushHasItsLease
    <3> QED
      BY <3>5, <3>6, <3>7
  <2>10. CASE Issue(p)
    <3>1. /\ run[p].pc = "issue" /\ UNCHANGED <<lease, spent, push, container>>
          /\ inflight' = IF container = run[p].goal THEN "none" ELSE run[p].goal
          /\ bare' = (bare /\ ~OwnLease(p))
      BY <2>10 DEF Issue, At
    <3>2. /\ run'[p].pc = "client" /\ run'[p].verb = run[p].verb
          /\ run'[p].goal = run[p].goal
      BY <1>a, <2>10, OtherPlace
    <3>3. mutex = p
      BY <1>a, <3>1 DEF LocksAreHeld
    <3>4. Covered(p)'
      BY <2>0, <3>1, <3>2 DEF Covered, OwnLease, Verb
    <3>5. ASSUME NEW q \in Proc \ {p} PROVE Covered(q)'
      BY <1>b, <1>e, <2>0, <3>1, <3>3 DEF Covered
    <3>6. PushHasItsLease'
      <4>1. CASE OwnLease(p)
        BY <1>b, <3>1, <4>1 DEF PushHasItsLease, OwnLease
      <4>2. CASE ~OwnLease(p)
        <5>1. bare' = bare
          BY <1>a, <3>1, <4>2, Zenon DEF TypeOK
        <5> QED
          BY <1>b, <2>0, <3>1, <4>2, <5>1 DEF PushHasItsLease, Covered, OwnLease, Verb
      <4> QED
        BY <4>1, <4>2
    <3> QED
      BY <3>4, <3>5, <3>6
  <2>11. CASE \/ StartNoOp(p) \/ AppRoleRefused(p) \/ LeaseRefused(p) \/ Unsettled(p)
              \/ Kill(p) \/ \E ok \in BOOLEAN : FinalCheck(p, ok)
    <3>1. UNCHANGED <<lease, spent, bare>>
      BY <2>11 DEF StartNoOp, AppRoleRefused, LeaseRefused, Unsettled, Kill, FinalCheck, leases
    <3>2. /\ run'[p].pc = "idle" /\ run'[p].verb = "stop"
          /\ UNCHANGED <<container, inflight, push>>
      BY <1>a, <2>11, ExitPlace
    <3>3. Covered(p)'
      BY <3>2 DEF Covered
    <3> QED
      BY <1>1, <1>d, <3>1, <3>2, <3>3
  <2>12. CASE DeployBusy(p) \/ MutexBusy(p)
    <3>1. /\ run[p].pc \in {"deploy", "mutex"} /\ UNCHANGED <<spent, bare>>
          /\ lease' = IF run[p].verb = "preheld" /\ lease = "watchdog" THEN "free" ELSE lease
      BY <2>12 DEF DeployBusy, MutexBusy, Refuse, At, Verb
    <3>2. /\ run'[p].pc = "idle" /\ run'[p].verb = "stop"
          /\ UNCHANGED <<container, inflight, push>>
      BY <1>a, <2>12, ExitPlace
    <3>3. Covered(p)'
      BY <3>2 DEF Covered
    <3>4. CASE run[p].verb = "preheld" /\ lease = "watchdog"
      <4>1. p = Adapter /\ ~spent /\ lease' = "free"
        BY <2>0, <3>1, <3>4 DEF Covered
      <4>2. bare \/ (~push /\ inflight # "running")
        BY <1>b, <3>4, <4>1 DEF PushHasItsLease
      <4>3. ASSUME NEW q \in Proc \ {p} PROVE Covered(q)'
        BY <1>b, <2>0, <3>1, <3>2, <3>4, <4>1, <4>3 DEF Covered
      <4> QED
        BY <1>b, <3>1, <3>2, <3>3, <4>2, <4>3 DEF PushHasItsLease
    <3>5. CASE ~(run[p].verb = "preheld" /\ lease = "watchdog")
      BY <1>1, <1>d, <3>1, <3>2, <3>3, <3>5
    <3> QED
      BY <3>4, <3>5
  <2>13. CASE ReleaseAny(p)
    <3>1. /\ run[p].pc = "release" /\ lease' = "free" /\ UNCHANGED spent
          /\ run[p].verb \in {"stop", "reset"}
          /\ bare' = (bare \/ (run[p].verb = "reset" /\ Paid))
      BY <2>0, <2>13 DEF ReleaseAny, At, Verb, Covered
    <3>2. mutex = p
      BY <1>a, <3>1 DEF LocksAreHeld
    <3>3. /\ run'[p].pc = "idle" /\ run'[p].verb = "stop"
          /\ UNCHANGED <<container, inflight, push>>
      BY <1>a, <2>13, ExitPlace
    <3>4. Covered(p)'
      BY <3>3 DEF Covered
    <3>5. ASSUME NEW q \in Proc \ {p} PROVE Covered(q)'
      BY <1>b, <1>e, <2>0, <3>1, <3>2, <3>3 DEF Covered
    <3>6. bare' \/ (~push /\ inflight # "running")
      <4>1. CASE run[p].verb = "stop"
        <5>1. container = "stopped" /\ journal = "none"
          BY <1>a, <3>1, <4>1 DEF SettledBefore, At, Verb
        <5> QED
          BY <1>a, <1>b, <5>1 DEF JournalNamesIt, PushHasItsLease
      <4>2. CASE run[p].verb = "reset"
        BY <1>b, <3>1, <4>2 DEF PushHasItsLease, Paid
      <4> QED
        BY <3>1, <4>1, <4>2
    <3> QED
      BY <1>b, <3>1, <3>3, <3>4, <3>5, <3>6 DEF PushHasItsLease
  <2> QED
    BY <1>1, <2>1, <2>2, <2>3, <2>4, <2>5, <2>7, <2>8, <2>9, <2>10, <2>11, <2>12, <2>13
    DEF Step, Advance
<1>2. CASE HandOff
  <2>1. /\ lease = "free" /\ lease' = "watchdog" /\ spent' = FALSE
        /\ UNCHANGED <<bare, container, inflight, push>>
    BY <1>2 DEF HandOff, docker
  <2>2. bare \/ (~push /\ inflight # "running")
    BY <1>b, <2>1 DEF PushHasItsLease
  <2>3. ASSUME NEW q \in Proc, run'[q] = run[q] PROVE Covered(q)'
    BY <1>b, <2>1, <2>3 DEF Covered
  <2>4. CASE At(Adapter, "idle")
    <3>1. /\ run'[Adapter].pc = "deploy" /\ run'[Adapter].verb = "preheld"
          /\ \A q \in Proc \ {Adapter} : run'[q] = run[q]
      BY <1>a, <1>2, <2>4, ProcAssumption, ArrivalFacts DEF HandOff, AllVerbs, Places, Moved
    <3>2. Covered(Adapter)'
      BY <2>1, <3>1 DEF Covered
    <3> QED
      BY <1>b, <2>1, <2>2, <2>3, <3>1, <3>2 DEF PushHasItsLease
  <2>5. CASE ~At(Adapter, "idle")
    <3>1. run' = run
      BY <1>2, <2>5 DEF HandOff
    <3> QED
      BY <1>b, <2>1, <2>2, <2>3, <3>1 DEF PushHasItsLease
  <2> QED
    BY <2>4, <2>5
<1>3. CASE HandedOff \/ DeployLockMoves \/ JournalRots \/ UNCHANGED vars
  <2>1. UNCHANGED <<lease, spent, bare, push, inflight, container, run>>
    BY <1>3 DEF HandedOff, DeployLockMoves, JournalRots, vars, docker, leases
  <2> QED
    BY <1>b, <1>c, <2>1 DEF PushHasItsLease
<1>7. CASE GiveUp
  <2>1. /\ lease' = IF lease = "watchdog" THEN "free" ELSE lease
        /\ bare' = (bare \/ (lease = "watchdog" /\ spent))
        /\ UNCHANGED <<spent, push, inflight, container, run>>
    BY <1>7 DEF GiveUp, docker
  <2>2. ASSUME NEW q \in Proc PROVE Covered(q)'
    BY <1>b, <2>1 DEF Covered
  <2> QED
    BY <1>b, <2>1, <2>2 DEF PushHasItsLease
<1>4. CASE DaemonActs
  <2>1. /\ inflight # "none" /\ container' = inflight /\ push' = (inflight = "running")
        /\ inflight' = "none" /\ UNCHANGED <<lease, spent, bare, run>>
    BY <1>4 DEF DaemonActs, leases
  <2>2. ASSUME NEW q \in Proc PROVE run[q].pc \notin {"journal", "issue"}
    BY <1>a, <2>1 DEF SettledBefore, JournalNamesIt, At
  <2>3. ASSUME NEW q \in Proc PROVE Covered(q)'
    BY <1>b, <2>1, <2>2 DEF Covered
  <2> QED
    BY <1>b, <2>1, <2>3 DEF PushHasItsLease
<1>5. CASE DaemonDrops \/ ContainerDies \/ PushAnswered
  <2>1. /\ UNCHANGED <<lease, spent, bare, run>>
        /\ \/ inflight' = "none" /\ UNCHANGED <<container, push>>
           \/ inflight' = "none" /\ push' = FALSE
           \/ inflight' = inflight /\ push' = FALSE
    BY <1>5 DEF DaemonDrops, ContainerDies, PushAnswered, leases
  <2>2. ASSUME NEW q \in Proc PROVE Covered(q)'
    BY <1>b, <2>1 DEF Covered
  <2> QED
    BY <1>b, <2>1, <2>2 DEF PushHasItsLease
<1>6. CASE LeaseEnds
  <2>1. /\ ~push /\ inflight # "running" /\ lease' = "free"
        /\ \A q \in Proc : run[q].pc \notin {"journal", "issue", "client", "settle", "check"}
        /\ UNCHANGED <<container, inflight, push, spent, bare, run>>
    BY <1>6 DEF LeaseEnds, InCycle, docker
  <2>2. ASSUME NEW q \in Proc PROVE Covered(q)'
    BY <1>b, <2>1 DEF Covered
  <2> QED
    BY <1>b, <2>1, <2>2 DEF PushHasItsLease
<1> QED
  BY <1>1, <1>2, <1>3, <1>4, <1>5, <1>6, <1>7 DEF Next

(* So it always holds.                                                     *)
LEMMA CoverHolds == Spec => []CycleHasItsLease
<1>1. Init => CycleHasItsLease
  <2>1. Idle.pc = "idle" /\ Idle.verb = "stop"
    BY DEF Idle
  <2>2. ASSUME Init, NEW p \in Proc PROVE run[p].pc = "idle" /\ run[p].verb = "stop"
    BY <2>1, <2>2 DEF Init
  <2> QED
    BY <2>2 DEF CycleHasItsLease, Init, At, Verb, InCycle
<1>2. Safe /\ CycleHasItsLease /\ [Next]_vars => CycleHasItsLease'
  BY CoverStep
<1> QED
  BY <1>1, <1>2, SafeHolds, PTL DEF Spec

(* An unanswered push is covered by somebody's lease, unless that lease    *)
(* was rolled back by the watchdog or reset by hand (ib_2fa_lock.py:1-32). *)
THEOREM PushStaysCovered == Spec => []PushIsCovered
<1>1. CycleHasItsLease => PushIsCovered
  BY DEF CycleHasItsLease, PushIsCovered, Paid
<1> QED
  BY <1>1, CoverHolds, PTL

(* And a restart takes a Gateway down whose push is unanswered only where  *)
(* that push's lease was rolled back or reset (ib_2fa_lock.py:3-12).       *)
THEOREM PushesDoNotStack == Spec => NoStackedPush
<1>1. CycleHasItsLease /\ [Next]_vars =>
        [\A p \in Proc : TakesDown(p) => ~push \/ bare]_vars
  BY DEF CycleHasItsLease, TakesDown, Issue, At
<1> QED
  BY <1>1, CoverHolds, PTL DEF Spec, NoStackedPush
=============================================================================
