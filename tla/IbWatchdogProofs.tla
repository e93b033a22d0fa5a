--------------------------- MODULE IbWatchdogProofs ---------------------------
(***************************************************************************)
(* Proofs about the watchdog's counters, for any thresholds, caps and      *)
(* windows, and any history of samples, aborted cycles and lost state.     *)
(***************************************************************************)
EXTENDS IbWatchdog, FiniteSetTheorems, TLAPS

(* What a sample leaves alone: the restart history and the caps.           *)
Untouched(s, t) ==
    /\ t.apiRestarts = s.apiRestarts /\ t.lastRestart = s.lastRestart
    /\ t.pushes = s.pushes

-----------------------------------------------------------------------------
(* Types.                                                                  *)

LEMMA FreshState == Fresh \in State
BY DEF Fresh, State

LEMMA SampleType ==
  ASSUME NEW s \in State, NEW o \in Samples
  PROVE  /\ Sampled(o, s) \in State
         /\ Untouched(s, Sampled(o, s))
         /\ Sampled(o, s).degraded \in {0, s.degraded}
         /\ Branch(o) \notin {"hang", "blind"} => Sampled(o, s).degraded = 0
         /\ Branch(o) \in Branches /\ Branch(o) # "none"
         /\ Frozen(o) \in BOOLEAN
<1>1. o.health \in BOOLEAN /\ o.quiet \in BOOLEAN
      /\ (o.health => o \in Seen)
  BY DEF Samples, Seen, Blind
<1>2. CASE ~o.health
  <2> DEFINE d == IF o.verdict = "alive" THEN 0 ELSE s.degraded
             t == [s EXCEPT !.authCount = 0, !.stuck = 0, !.degraded = d]
  <2>1. Sampled(o, s) = t
    BY <1>2 DEF Sampled
  <2>4. d \in Nat /\ d \in {0, s.degraded}
    BY DEF State
  <2> HIDE DEF d
  <2>5. t \in State /\ Untouched(s, t) /\ t.degraded = d
    BY <2>4 DEF State, Untouched
  <2> HIDE DEF t
  <2>2. Branch(o) \in {"blind", "hang"}
    BY <1>2 DEF Branch
  <2>3. Frozen(o) \in BOOLEAN
    BY <1>1, <1>2, <2>2 DEF Frozen
  <2> QED
    BY <2>1, <2>2, <2>3, <2>4, <2>5 DEF Branches
<1>3. CASE o.health /\ Down(o) /\ o.auth = "awaiting_2fa"
  <2> DEFINE t == [s EXCEPT !.degraded = 0, !.stuck = 0, !.quietSince = 0, !.authCount = 0]
  <2>1. Sampled(o, s) = t
    BY <1>3 DEF Sampled
  <2>4. t \in State /\ Untouched(s, t) /\ t.degraded = 0
    BY DEF State, Untouched
  <2> HIDE DEF t
  <2>2. Branch(o) = "watch"
    BY <1>3 DEF Branch
  <2>3. Frozen(o) \in BOOLEAN
    BY <1>1, <2>2 DEF Frozen
  <2> QED
    BY <2>1, <2>2, <2>3, <2>4 DEF Branches
<1>4. CASE o.health /\ Down(o) /\ o.auth # "awaiting_2fa"
  <2>1. Sampled(o, s) = [s EXCEPT !.authCount = 0]
    BY <1>4 DEF Sampled
  <2>2. Branch(o) = "hang"
    BY <1>4 DEF Branch
  <2>3. Frozen(o) \in BOOLEAN
    BY <1>1, <2>2 DEF Frozen
  <2> QED
    BY <2>1, <2>2, <2>3 DEF State, Untouched, Branches
<1>5. CASE o.health /\ ~Down(o)
  <2> DEFINE a == IF o.auth = "authenticated" THEN s.authCount ELSE 0
             d == IF ApiHang(o) THEN s.degraded ELSE 0
             q == IF ApiHang(o) THEN s.quietSince ELSE 0
  <2>1. Sampled(o, s) = [s EXCEPT !.authCount = a, !.degraded = d, !.quietSince = q]
    BY <1>5 DEF Sampled
  <2>2. a \in Nat /\ d \in Nat /\ d \in {0, s.degraded} /\ q \in Nat
    BY DEF State
  <2>3. /\ Branch(o) \in {"hang", "stuck", "watch", "authenticated", "healthy"}
        /\ Branch(o) # "hang" => d = 0
    BY <1>5 DEF Branch
  <2>4. Frozen(o) \in BOOLEAN
    BY <1>1, <1>5 DEF Frozen, Seen
  <2> DEFINE t == [s EXCEPT !.authCount = a, !.degraded = d, !.quietSince = q]
  <2> HIDE DEF a, d, q
  <2>5. t \in State /\ Untouched(s, t) /\ t.degraded = d
    BY <2>2 DEF State, Untouched
  <2> HIDE DEF t
  <2>6. Sampled(o, s) = t
    BY <2>1 DEF t
  <2> QED
    BY <2>2, <2>3, <2>4, <2>5, <2>6 DEF Branches
<1> QED
  BY <1>1, <1>2, <1>3, <1>4, <1>5

(* The counters after one hang, or one stuck prompt, more.                 *)
LEMMA CountTypes ==
  ASSUME TypeOK
  PROVE  /\ HangCount \in State /\ Untouched(ram, HangCount)
         /\ HangCount.degraded = ram.degraded + 1 /\ HangCount.quietSince = 0
         /\ StuckCount \in State /\ Untouched(ram, StuckCount)
         /\ StuckCount.degraded = ram.degraded
         /\ StuckAtThreshold \in State /\ StuckAtThreshold.apiRestarts = ram.apiRestarts
         /\ StuckAtThreshold.lastRestart = ram.lastRestart
         /\ StuckAtThreshold.degraded = ram.degraded
         /\ StuckAtThreshold.pushes = Prune(ram.pushes)
<1>1. ram \in State
  BY DEF TypeOK
<1>2. /\ HangCount \in State /\ Untouched(ram, HangCount)
      /\ HangCount.degraded = ram.degraded + 1 /\ HangCount.quietSince = 0
  <2> DEFINE d == ram.degraded + 1
             t == [ram EXCEPT !.degraded = d, !.quietSince = 0]
  <2>1. d \in Nat
    BY <1>1 DEF State
  <2>2. HangCount = t
    BY DEF HangCount
  <2> HIDE DEF d
  <2>3. t \in State /\ Untouched(ram, t) /\ t.degraded = d /\ t.quietSince = 0
    BY <1>1, <2>1 DEF State, Untouched
  <2> QED
    BY <2>2, <2>3 DEF d
<1>3. /\ StuckCount \in State /\ Untouched(ram, StuckCount)
      /\ StuckCount.degraded = ram.degraded
  BY <1>1 DEF StuckCount, State, Untouched
<1>4. /\ StuckAtThreshold = [StuckCount EXCEPT !.pushes = Prune(ram.pushes)]
      /\ Prune(ram.pushes) \in SUBSET Nat
  BY <1>1, <1>3 DEF StuckAtThreshold, Untouched, Prune, State
<1> HIDE DEF StuckCount
<1>5. /\ StuckAtThreshold \in State
      /\ StuckAtThreshold.apiRestarts = StuckCount.apiRestarts
      /\ StuckAtThreshold.lastRestart = StuckCount.lastRestart
      /\ StuckAtThreshold.degraded = StuckCount.degraded
      /\ StuckAtThreshold.pushes = Prune(ram.pushes)
  BY <1>3, <1>4 DEF State
<1> QED
  BY <1>2, <1>3, <1>5 DEF Untouched

(* A cycle that restarts nothing.                                          *)
Quietly ==
    \/ Watch \/ HangSuppressed \/ HangCounted \/ HangBlocked \/ HangDeferred
    \/ StuckFrozen \/ StuckCounted \/ StuckHeld \/ StuckDeferred
    \/ Healthy \/ AwaitConfirmation
    \/ \E released \in BOOLEAN : DeclareRecovery(released)

LEMMA QuietAct == Quietly => pc = "act"
BY DEF Quietly, Watch, HangSuppressed, HangCounted, HangBlocked, HangDeferred, StuckFrozen,
   StuckCounted, StuckHeld, StuckDeferred, Healthy, AwaitConfirmation, DeclareRecovery, Finish

LEMMA QuietCycle ==
  ASSUME TypeOK, now # 0, Quietly
  PROVE  /\ pc = "act" /\ pc' = "save"
         /\ UNCHANGED <<disk, branch, quiet, now, stuckPushes, hangRun, uncounted>>
         /\ ram' \in State /\ lease' \in {"free", "watchdog", "other"}
         /\ ram'.lastRestart = ram.lastRestart
         /\ ram'.pushes \in {ram.pushes, Prune(ram.pushes)}
         /\ \/ ram'.apiRestarts = ram.apiRestarts /\ apiPushes' = apiPushes
            \/ ram'.apiRestarts = 0 /\ apiPushes' = {}
         /\ branch # "hang" => ram'.degraded = ram.degraded
         /\ branch = "hang" =>
              \/ ram'.quietSince # 0 /\ ram'.degraded = ram.degraded
              \/ /\ ram'.quietSince = 0 /\ ram'.degraded # 0
                 /\ \/ ram'.degraded = ram.degraded + 1
                    \/ ram'.degraded = Threshold /\ ram.degraded + 1 >= Threshold
<1>1. ram \in State /\ lease \in {"free", "watchdog", "other"} /\ now \in Nat
  BY DEF TypeOK
<1>2. CASE HangSuppressed
  <2> DEFINE q == IF ram.quietSince = 0 THEN now ELSE ram.quietSince
             t == [ram EXCEPT !.quietSince = q]
  <2>1. q \in Nat /\ q # 0
    BY <1>1 DEF State
  <2>2. ram' = t /\ branch = "hang"
    BY <1>2 DEF HangSuppressed, Finish
  <2> HIDE DEF q
  <2>3. t \in State /\ Untouched(ram, t) /\ t.quietSince = q /\ t.degraded = ram.degraded
    BY <1>1, <2>1 DEF State, Untouched
  <2> HIDE DEF t
  <2> QED
    BY <1>1, <1>2, <2>1, <2>2, <2>3 DEF HangSuppressed, Finish, history, Untouched
<1>3. CASE HangCounted \/ HangDeferred
  <2>1. ram' = HangCount /\ branch = "hang"
    BY <1>3 DEF HangCounted, HangDeferred, Finish
  <2> QED
    BY <1>1, <1>3, <2>1, CountTypes
       DEF HangCounted, HangDeferred, Finish, history, Untouched, State
<1>4. CASE HangBlocked
  <2> DEFINE t == [HangCount EXCEPT !.degraded = Threshold]
  <2>1. ram' = t /\ branch = "hang" /\ HangCount.degraded >= Threshold
    BY <1>4 DEF HangBlocked, Finish
  <2>2. /\ t \in State /\ t.quietSince = HangCount.quietSince /\ t.degraded = Threshold
        /\ Untouched(HangCount, t)
    <3>1. HangCount \in State
      BY CountTypes
    <3> HIDE DEF HangCount
    <3> QED
      BY <3>1, CounterAssumption DEF State, Untouched
  <2> HIDE DEF t
  <2> QED
    BY <1>1, <1>4, <2>1, <2>2, CountTypes, CounterAssumption
       DEF HangBlocked, Finish, history, Untouched
<1>5. CASE StuckHeld
  <2> DEFINE t == [StuckAtThreshold EXCEPT !.stuck = Threshold]
  <2>1. ram' = t /\ branch = "stuck"
    BY <1>5 DEF StuckHeld, Finish
  <2>2. t \in State /\ Untouched(StuckAtThreshold, t) /\ t.degraded = StuckAtThreshold.degraded
    <3>1. StuckAtThreshold \in State
      BY CountTypes
    <3> HIDE DEF StuckAtThreshold
    <3> QED
      BY <3>1, CounterAssumption DEF State, Untouched
  <2> HIDE DEF t
  <2> QED
    BY <1>1, <1>5, <2>1, <2>2, CountTypes DEF StuckHeld, Finish, history, Untouched
<1>6. CASE StuckCounted \/ StuckDeferred
  <2>1. ram' \in {StuckCount, StuckAtThreshold} /\ branch = "stuck"
    BY <1>6 DEF StuckCounted, StuckDeferred, Finish
  <2> QED
    BY <1>1, <1>6, <2>1, CountTypes
       DEF StuckCounted, StuckDeferred, Finish, history, Untouched
<1>7. CASE Watch \/ StuckFrozen
  BY <1>1, <1>7 DEF Watch, StuckFrozen, Finish, history
<1>8. CASE Healthy \/ AwaitConfirmation
  <2> DEFINE t1 == [ram EXCEPT !.stuck = 0]
             a == ram.authCount + 1
             t2 == [ram EXCEPT !.stuck = 0, !.authCount = a]
  <2>1. ram' \in {t1, t2} /\ branch \in {"healthy", "authenticated"}
    BY <1>8 DEF Healthy, AwaitConfirmation, Finish
  <2>3. a \in Nat
    BY <1>1 DEF State
  <2> HIDE DEF a
  <2>2. /\ t1 \in State /\ Untouched(ram, t1) /\ t1.degraded = ram.degraded
        /\ t2 \in State /\ Untouched(ram, t2) /\ t2.degraded = ram.degraded
    BY <1>1, <2>3 DEF State, Untouched
  <2> HIDE DEF t1, t2
  <2> QED
    BY <1>1, <1>8, <2>1, <2>2 DEF Healthy, AwaitConfirmation, Finish, history, Untouched
<1>9. ASSUME NEW released \in BOOLEAN, DeclareRecovery(released)
      PROVE  /\ ram' = [ram EXCEPT !.stuck = 0, !.apiRestarts = 0, !.authCount = 0,
                                   !.pending = FALSE]
             /\ branch = "authenticated" /\ apiPushes' = {} /\ pc = "act" /\ pc' = "save"
             /\ UNCHANGED <<disk, branch, quiet, now, stuckPushes, hangRun, uncounted>>
             /\ lease' \in {"free", "watchdog", "other"}
  BY <1>1, <1>9 DEF DeclareRecovery, Finish
<1>10. CASE \E released \in BOOLEAN : DeclareRecovery(released)
  <2> DEFINE t == [ram EXCEPT !.stuck = 0, !.apiRestarts = 0, !.authCount = 0,
                              !.pending = FALSE]
  <2>1. /\ t \in State /\ t.degraded = ram.degraded /\ t.apiRestarts = 0
        /\ t.lastRestart = ram.lastRestart /\ t.pushes = ram.pushes
    BY <1>1 DEF State
  <2>2. ram' = t
    BY <1>9, <1>10
  <2> HIDE DEF t
  <2> QED
    BY <1>9, <1>10, <2>1, <2>2
<1> QED
  BY <1>2, <1>3, <1>4, <1>5, <1>6, <1>7, <1>8, <1>10 DEF Quietly

(* A cycle that goes for a restart.                                        *)
LEMMA Acquires ==
  ASSUME TypeOK, HangAcquire \/ StuckAcquire
  PROVE  /\ pc = "act" /\ pc' = "acquired" /\ branch \in {"hang", "stuck"}
         /\ UNCHANGED <<disk, branch, quiet, now, apiPushes, stuckPushes, hangRun, uncounted>>
         /\ ram' \in State /\ lease' = "watchdog"
         /\ ram'.apiRestarts = ram.apiRestarts
         /\ branch = "hang" => /\ ram'.apiRestarts < MaxApi /\ ram'.pushes = ram.pushes
                               /\ ram'.degraded = ram.degraded + 1
                               /\ ram'.degraded >= Threshold
         /\ branch = "stuck" => /\ ram'.pushes = Prune(ram.pushes)
                                /\ ~(Cardinality(ram'.pushes) >= MaxStuck)
                                /\ ram'.degraded = ram.degraded
<1>1. CASE HangAcquire
  <2>1. ram' = HangCount /\ ~(HangCount.apiRestarts >= MaxApi)
    BY <1>1 DEF HangAcquire, ApiBlocked
  <2>2. HangCount.apiRestarts \in Nat /\ MaxApi \in Nat
    BY CountTypes, CounterAssumption DEF State
  <2> QED
    BY <1>1, <2>1, <2>2, CountTypes DEF HangAcquire, history, Untouched
<1>2. CASE StuckAcquire
  <2>1. ram' = StuckAtThreshold /\ ~(Cardinality(StuckAtThreshold.pushes) >= MaxStuck)
    BY <1>2 DEF StuckAcquire, StuckBlocked
  <2> QED
    BY <1>2, <2>1, CountTypes DEF StuckAcquire, history
<1> QED
  BY <1>1, <1>2

LEMMA Returns ==
  ASSUME TypeOK, NEW ok \in BOOLEAN, RestartReturned(ok)
  PROVE  /\ pc = "push" /\ pc' = "save"
         /\ UNCHANGED <<disk, branch, quiet, now, apiPushes, stuckPushes, hangRun, uncounted>>
         /\ ram' \in State /\ lease' \in {"free", "watchdog", "other"}
         /\ ram'.lastRestart = now
         /\ branch = "hang" => /\ ram'.apiRestarts = ram.apiRestarts + 1
                               /\ ram'.pushes = ram.pushes /\ ram'.degraded = 0
         /\ branch # "hang" => /\ ram'.apiRestarts = ram.apiRestarts
                               /\ ram'.pushes = Prune(ram.pushes) \cup {now}
                               /\ ram'.degraded = ram.degraded
<1>1. ram \in State /\ now \in Nat
  BY DEF TypeOK
<1>2. /\ pc = "push" /\ pc' = "save"
      /\ UNCHANGED <<disk, branch, quiet, now, apiPushes, stuckPushes, hangRun, uncounted>>
      /\ lease' \in {"free", "watchdog", "other"}
  BY DEF RestartReturned, history, TypeOK
<1>3. CASE branch = "hang"
  <2> DEFINE a == ram.apiRestarts + 1
             t == [ram EXCEPT !.lastRestart = now, !.apiRestarts = a,
                              !.degraded = 0, !.pending = TRUE]
  <2>1. a \in Nat
    BY <1>1 DEF State
  <2>2. ram' = t
    BY <1>3 DEF RestartReturned
  <2> HIDE DEF a
  <2>3. t \in State /\ t.lastRestart = now /\ t.apiRestarts = a /\ t.degraded = 0
        /\ t.pushes = ram.pushes
    BY <1>1, <2>1 DEF State
  <2> HIDE DEF t
  <2> QED
    BY <1>2, <1>3, <2>2, <2>3 DEF a
<1>4. CASE branch # "hang"
  <2> DEFINE p == Prune(ram.pushes) \cup {now}
             t == [ram EXCEPT !.lastRestart = now, !.stuck = 0, !.pending = TRUE,
                              !.pushes = p]
  <2>1. p \in SUBSET Nat
    BY <1>1 DEF State, Prune
  <2>2. ram' = t
    BY <1>4 DEF RestartReturned
  <2> HIDE DEF p
  <2>3. t \in State /\ t.lastRestart = now /\ t.apiRestarts = ram.apiRestarts
        /\ t.degraded = ram.degraded /\ t.pushes = p
    BY <1>1, <2>1 DEF State
  <2> HIDE DEF t
  <2> QED
    BY <1>2, <1>4, <2>2, <2>3 DEF p
<1> QED
  BY <1>3, <1>4

LEMMA Begins ==
  ASSUME TypeOK, Begin
  PROVE  /\ pc = "idle" /\ pc' = "act" /\ now' = now + 1 /\ now' # 0
         /\ UNCHANGED <<disk, lease, apiPushes, stuckPushes, hangRun, uncounted>>
         /\ ram' \in State /\ Untouched(disk, ram') /\ ram'.degraded \in {0, disk.degraded}
         /\ branch' \in Branches /\ quiet' \in BOOLEAN
         /\ branch' \notin {"hang", "blind"} => ram'.degraded = 0
<1>1. PICK o \in Samples : ram' = Sampled(o, disk) /\ branch' = Branch(o) /\ quiet' = Frozen(o)
  BY DEF Begin
<1>2. disk \in State /\ now \in Nat
  BY DEF TypeOK
<1>3. now' # 0 /\ now' = now + 1
  BY <1>2 DEF Begin
<1>4. /\ pc = "idle" /\ pc' = "act"
      /\ UNCHANGED <<disk, lease, apiPushes, stuckPushes, hangRun, uncounted>>
  BY DEF Begin
<1> QED
  BY <1>1, <1>2, <1>3, <1>4, SampleType

(* The clock has moved when a cycle runs.                                  *)
Clocked == pc # "idle" => now # 0

LEMMA TypeStep ==
  ASSUME TypeOK, Clocked, [Next]_vars
  PROVE  TypeOK' /\ Clocked'
<1> USE DEF Clocked
<1>1. CASE Quietly
  <2>1. now # 0
    BY <1>1, QuietAct
  <2>2. apiPushes' \subseteq Nat
    BY <1>1, <2>1, QuietCycle DEF TypeOK
  <2> QED
    BY <1>1, <2>1, <2>2, QuietCycle DEF TypeOK
<1>2. CASE Begin
  <2>1. now' \in Nat
    BY <1>2, Begins DEF TypeOK
  <2> QED
    BY <1>2, <2>1, Begins DEF TypeOK
<1>3. CASE HangAcquire \/ StuckAcquire
  BY <1>3, Acquires DEF TypeOK
<1>4. CASE TriggerRestart
  BY <1>4 DEF TriggerRestart, TypeOK
<1>5. CASE \E ok \in BOOLEAN : RestartReturned(ok)
  BY <1>5, Returns DEF TypeOK
<1>6. CASE Save
  <2>1. hangRun' \in Nat
    BY <1>6, CounterAssumption DEF Save, TypeOK, Least
  <2> QED
    BY <1>6, <2>1, FreshState DEF Save, TypeOK, Branches
<1>7. CASE Abort
  <2>1. uncounted' \in BOOLEAN
    BY <1>7 DEF Abort, TypeOK
  <2> QED
    BY <1>7, <2>1, FreshState DEF Abort, TypeOK, Branches
<1>8. CASE LoseState
  <2>1. uncounted' \in BOOLEAN
    BY <1>8 DEF LoseState, TypeOK
  <2> QED
    BY <1>8, <2>1, FreshState DEF LoseState, TypeOK
<1>9. CASE MissTick
  BY <1>9 DEF MissTick, history, TypeOK
<1>10. CASE LeaseMoves
  BY <1>10 DEF LeaseMoves, history, TypeOK
<1>11. CASE UNCHANGED vars
  BY <1>11 DEF vars, TypeOK
<1> QED
  BY <1>1, <1>2, <1>3, <1>4, <1>5, <1>6, <1>7, <1>8, <1>9, <1>10, <1>11 DEF Next, Quietly

LEMMA TypeStart == Init => TypeOK /\ Clocked
<1> SUFFICES ASSUME Init PROVE TypeOK /\ Clocked
  OBVIOUS
<1>1. disk \in State /\ ram \in State
  BY FreshState DEF Init
<1>2. now \in Nat /\ hangRun \in Nat
  BY DEF Init
<1>3. uncounted \in BOOLEAN /\ quiet \in BOOLEAN /\ pc = "idle"
  BY DEF Init
<1>4. lease = "free" /\ branch \in Branches /\ apiPushes = {} /\ stuckPushes = {}
  BY DEF Init, Branches
<1> QED
  BY <1>1, <1>2, <1>3, <1>4 DEF TypeOK, Clocked

(* Every counter keeps its type, whatever is sampled, aborted or lost.     *)
THEOREM Typing == Spec => []TypeOK
BY TypeStart, TypeStep, PTL DEF Spec

-----------------------------------------------------------------------------
(* The warm-up.  No more hangs are counted than samples showed: the count  *)
(* on disk, up to the threshold, is backed by hangRun, and the count of    *)
(* the running cycle by what saving it will make of hangRun.               *)

NextRun ==
    IF branch = "hang"
    THEN IF ram.degraded = 0 THEN 0
         ELSE IF ram.quietSince # 0 THEN hangRun
         ELSE Least(hangRun + 1, Threshold)
    ELSE IF branch = "blind" /\ ram.degraded # 0 THEN hangRun ELSE 0

WarmInv ==
    /\ Least(disk.degraded, Threshold) <= hangRun
    /\ pc = "act" => IF branch \in {"hang", "blind"} THEN ram.degraded <= disk.degraded
                     ELSE ram.degraded = 0
    /\ pc = "acquired" /\ branch = "hang" => hangRun + 1 >= Threshold
    /\ pc \in {"acquired", "push"} => /\ branch \in {"hang", "stuck"}
                                      /\ branch = "stuck" => ram.degraded = 0
    /\ pc = "save" => Least(ram.degraded, Threshold) <= NextRun

LEMMA WarmStep ==
  ASSUME TypeOK, Clocked, WarmInv, [Next]_vars
  PROVE  WarmInv'
<1>1. /\ Threshold \in Nat \ {0} /\ hangRun \in Nat /\ disk.degraded \in Nat
      /\ ram.degraded \in Nat /\ ram.quietSince \in Nat
  BY CounterAssumption DEF TypeOK, State
<1>2. CASE Quietly
  <2>1. /\ pc = "act" /\ pc' = "save" /\ UNCHANGED <<disk, branch, hangRun>>
        /\ ram'.degraded \in Nat
        /\ branch # "hang" => ram'.degraded = ram.degraded
        /\ branch = "hang" =>
             \/ ram'.quietSince # 0 /\ ram'.degraded = ram.degraded
             \/ /\ ram'.quietSince = 0 /\ ram'.degraded # 0
                /\ \/ ram'.degraded = ram.degraded + 1
                   \/ ram'.degraded = Threshold /\ ram.degraded + 1 >= Threshold
    BY <1>2, QuietAct, QuietCycle DEF Clocked, State
  <2>2. Least(ram'.degraded, Threshold) <= NextRun'
    BY <1>1, <2>1 DEF WarmInv, NextRun, Least
  <2> QED
    BY <2>1, <2>2 DEF WarmInv
<1>3. CASE Begin
  BY <1>1, <1>3, Begins DEF WarmInv, NextRun
<1>4. CASE HangAcquire \/ StuckAcquire
  <2>1. /\ pc = "act" /\ pc' = "acquired" /\ branch \in {"hang", "stuck"}
        /\ UNCHANGED <<disk, branch, hangRun>>
        /\ branch = "hang" => ram.degraded + 1 >= Threshold
        /\ branch = "stuck" => ram'.degraded = ram.degraded
    BY <1>4, Acquires
  <2> QED
    BY <1>1, <2>1 DEF WarmInv, Least
<1>5. CASE TriggerRestart
  BY <1>5 DEF TriggerRestart, WarmInv
<1>6. CASE \E ok \in BOOLEAN : RestartReturned(ok)
  <2>1. /\ pc = "push" /\ pc' = "save" /\ UNCHANGED <<disk, branch, hangRun>>
        /\ branch = "hang" => ram'.degraded = 0
        /\ branch # "hang" => ram'.degraded = ram.degraded
    BY <1>6, Returns
  <2> QED
    BY <1>1, <2>1 DEF WarmInv, NextRun, Least
<1>7. CASE Save
  BY <1>7 DEF Save, WarmInv, NextRun
<1>8. CASE Abort
  BY <1>8 DEF Abort, WarmInv
<1>9. CASE LoseState
  <2>1. disk'.degraded = 0
    BY <1>9 DEF LoseState, Fresh
  <2> QED
    BY <1>1, <1>9, <2>1 DEF LoseState, WarmInv, Least
<1>10. CASE MissTick \/ LeaseMoves \/ UNCHANGED vars
  BY <1>10 DEF MissTick, LeaseMoves, vars, history, WarmInv, NextRun
<1> QED
  BY <1>2, <1>3, <1>4, <1>5, <1>6, <1>7, <1>8, <1>9, <1>10 DEF Next, Quietly

(* No api-hang restart without Threshold hang samples in a row behind it.  *)
THEOREM WarmUp == Spec => WarmUpIsUnbroken
<1>1. Init => WarmInv
  BY CounterAssumption DEF Init, WarmInv, Fresh, Least
<1>2. TypeOK /\ Clocked /\ WarmInv /\ [Next]_vars
        => [(branch = "hang" /\ pc' = "acquired") => hangRun + 1 >= Threshold]_vars
  <2> SUFFICES ASSUME TypeOK, Clocked, WarmInv, Next, branch = "hang", pc' = "acquired"
               PROVE  hangRun + 1 >= Threshold
    BY DEF vars
  <2>1. WarmInv'
    BY WarmStep
  <2>2. CASE branch' = "hang" /\ hangRun' = hangRun
    BY <2>1, <2>2 DEF WarmInv
  <2>3. \/ HangAcquire \/ StuckAcquire \/ LeaseMoves
    BY QuietAct, QuietCycle
       DEF Next, Quietly, Begin, TriggerRestart, RestartReturned, Save, Abort, LoseState,
           MissTick, Clocked
  <2>4. branch' = branch /\ hangRun' = hangRun
    BY <2>3 DEF HangAcquire, StuckAcquire, LeaseMoves, history
  <2> QED
    BY <2>2, <2>4
<1> QED
  BY <1>1, <1>2, TypeStart, TypeStep, WarmStep, PTL DEF Spec, WarmUpIsUnbroken

-----------------------------------------------------------------------------
(* The cap on api-hang restarts.  As long as no restart was lost from the  *)
(* counters, those on disk cover the restarts sent, and in a running cycle *)
(* those in memory do.                                                     *)

ApiCovered ==
    /\ disk.apiRestarts <= MaxApi /\ ram.apiRestarts <= MaxApi
    /\ pc \in {"idle", "act", "acquired"} => Cardinality(apiPushes) <= disk.apiRestarts
    /\ pc \in {"act", "acquired"} => ram.apiRestarts = disk.apiRestarts
    /\ pc \in {"acquired", "push"} => branch \in {"hang", "stuck"}
    /\ pc \in {"acquired", "push"} /\ branch = "hang" => ram.apiRestarts < MaxApi
    /\ pc = "push" => Cardinality(apiPushes) <=
                        IF branch = "hang" THEN ram.apiRestarts + 1 ELSE ram.apiRestarts
    /\ pc = "save" => /\ Cardinality(apiPushes) <= ram.apiRestarts
                      /\ \/ Cardinality(apiPushes) <= disk.apiRestarts
                         \/ ram.lastRestart = now

ApiInv == IsFiniteSet(apiPushes) /\ (~uncounted => ApiCovered)

LEMMA ApiStep ==
  ASSUME TypeOK, Clocked, ApiInv, [Next]_vars
  PROVE  ApiInv'
<1> DEFINE n == Cardinality(apiPushes)
<1>1. /\ MaxApi \in Nat /\ n \in Nat
      /\ disk.apiRestarts \in Nat /\ ram.apiRestarts \in Nat
  BY CounterAssumption, FS_CardinalityType DEF TypeOK, State, ApiInv
<1>2. Cardinality({}) = 0 /\ IsFiniteSet({})
  BY FS_EmptySet
<1>3. CASE Quietly
  <2>1. /\ pc = "act" /\ pc' = "save" /\ UNCHANGED <<disk, branch, uncounted>>
        /\ \/ ram'.apiRestarts = ram.apiRestarts /\ apiPushes' = apiPushes
           \/ ram'.apiRestarts = 0 /\ apiPushes' = {}
    BY <1>3, QuietAct, QuietCycle DEF Clocked
  <2> QED
    BY <1>1, <1>2, <2>1 DEF ApiInv, ApiCovered
<1>4. CASE Begin
  BY <1>1, <1>4, Begins DEF ApiInv, ApiCovered, Untouched
<1>5. CASE HangAcquire \/ StuckAcquire
  <2>1. /\ pc = "act" /\ pc' = "acquired" /\ branch \in {"hang", "stuck"}
        /\ UNCHANGED <<disk, branch, apiPushes, uncounted>>
        /\ ram'.apiRestarts = ram.apiRestarts
        /\ branch = "hang" => ram'.apiRestarts < MaxApi
    BY <1>5, Acquires
  <2> QED
    BY <1>1, <2>1 DEF ApiInv, ApiCovered
<1>6. CASE TriggerRestart
  <2>1. /\ pc = "acquired" /\ pc' = "push" /\ UNCHANGED <<disk, ram, branch, uncounted>>
        /\ apiPushes' = IF branch = "hang" THEN apiPushes \cup {now} ELSE apiPushes
    BY <1>6 DEF TriggerRestart
  <2>2. /\ IsFiniteSet(apiPushes \cup {now})
        /\ Cardinality(apiPushes \cup {now}) <= n + 1
    BY <1>1, FS_AddElement DEF ApiInv
  <2>3. Cardinality(apiPushes \cup {now}) \in Nat
    BY <2>2, FS_CardinalityType
  <2>4. IsFiniteSet(apiPushes')
    BY <2>1, <2>2 DEF ApiInv
  <2>5. ASSUME ~uncounted PROVE ApiCovered'
    <3>1. ApiCovered
      BY <2>5 DEF ApiInv
    <3>2. CASE branch = "hang"
      <4>1. Cardinality(apiPushes') <= ram.apiRestarts + 1
        BY <1>1, <2>1, <2>2, <2>3, <3>1, <3>2 DEF ApiCovered
      <4> QED
        BY <2>1, <3>1, <3>2, <4>1 DEF ApiCovered
    <3>3. CASE branch # "hang"
      BY <1>1, <2>1, <3>1, <3>3 DEF ApiCovered
    <3> QED
      BY <3>2, <3>3
  <2> QED
    BY <2>1, <2>4, <2>5 DEF ApiInv
<1>7. CASE \E ok \in BOOLEAN : RestartReturned(ok)
  <2>1. /\ pc = "push" /\ pc' = "save"
        /\ UNCHANGED <<disk, branch, now, apiPushes, uncounted>>
        /\ ram'.lastRestart = now
        /\ branch = "hang" => ram'.apiRestarts = ram.apiRestarts + 1
        /\ branch # "hang" => ram'.apiRestarts = ram.apiRestarts
    BY <1>7, Returns
  <2> QED
    BY <1>1, <2>1 DEF ApiInv, ApiCovered
<1>8. CASE Save
  BY <1>1, <1>8 DEF Save, ApiInv, ApiCovered, Fresh
<1>9. CASE Abort
  <2>1. /\ pc # "idle" /\ pc' = "idle" /\ ram'.apiRestarts = 0
        /\ UNCHANGED <<disk, apiPushes>>
        /\ ~uncounted' => ~uncounted /\ pc # "push" /\ ram.lastRestart # now
    BY <1>9 DEF Abort, Fresh
  <2>2. pc \in {"idle", "act", "acquired", "push", "save"}
    BY DEF TypeOK
  <2> QED
    BY <1>1, <2>1, <2>2 DEF ApiInv, ApiCovered
<1>10. CASE LoseState
  <2>1. /\ pc = "idle" /\ pc' = "idle" /\ disk'.apiRestarts = 0
        /\ UNCHANGED <<ram, apiPushes>>
        /\ ~uncounted' => ~uncounted /\ ~(disk.apiRestarts > 0)
    BY <1>10 DEF LoseState, Fresh
  <2> QED
    BY <1>1, <2>1 DEF ApiInv, ApiCovered
<1>11. CASE MissTick
  BY <1>11 DEF MissTick, history, ApiInv, ApiCovered
<1>12. CASE LeaseMoves \/ UNCHANGED vars
  BY <1>12 DEF LeaseMoves, vars, history, ApiInv, ApiCovered
<1> QED
  BY <1>3, <1>4, <1>5, <1>6, <1>7, <1>8, <1>9, <1>10, <1>11, <1>12 DEF Next, Quietly

(* However long the hang and wherever cycles are cut, at most MaxApi       *)
(* restarts between two recoveries that the counters know of.              *)
THEOREM ApiCapHolds == Spec => []ApiRestartsCapped
<1>1. Init => ApiInv
  BY FS_EmptySet, CounterAssumption DEF Init, ApiInv, ApiCovered, Fresh
<1>2. TypeOK /\ ApiInv => ApiRestartsCapped
  <2> SUFFICES ASSUME TypeOK, ApiInv, ~uncounted PROVE Cardinality(apiPushes) <= MaxApi
    BY DEF ApiRestartsCapped
  <2>1. /\ MaxApi \in Nat /\ Cardinality(apiPushes) \in Nat
        /\ disk.apiRestarts \in Nat /\ ram.apiRestarts \in Nat
        /\ pc \in {"idle", "act", "acquired", "push", "save"}
    BY CounterAssumption, FS_CardinalityType DEF TypeOK, State, ApiInv
  <2> QED
    BY <2>1 DEF ApiInv, ApiCovered
<1> QED
  BY <1>1, <1>2, TypeStart, TypeStep, ApiStep, PTL DEF Spec

-----------------------------------------------------------------------------
(* The backoff between api-hang restarts.                                  *)

(* A longer count doubles more often.  The library counts 2^n subsets of n *)
(* things, and fewer things have fewer subsets.                            *)
LEMMA PowersGrow ==
  ASSUME NEW m \in Nat, NEW n \in Nat, m <= n
  PROVE  2^m \in Nat /\ 2^n \in Nat /\ 2^m <= 2^n
<1>1. /\ IsFiniteSet(1..m) /\ Cardinality(1..m) = m
      /\ IsFiniteSet(1..n) /\ Cardinality(1..n) = n
  BY FS_Interval
<1>2. /\ IsFiniteSet(SUBSET (1..m)) /\ Cardinality(SUBSET (1..m)) = 2^m
      /\ IsFiniteSet(SUBSET (1..n)) /\ Cardinality(SUBSET (1..n)) = 2^n
  BY <1>1, FS_SUBSET
<1>3. SUBSET (1..m) \subseteq SUBSET (1..n)
  OBVIOUS
<1>4. Cardinality(SUBSET (1..m)) <= Cardinality(SUBSET (1..n))
  BY <1>2, <1>3, FS_Subset
<1> QED
  BY <1>2, <1>4, FS_CardinalityType

LEMMA ProductsGrow ==
  ASSUME NEW a \in Nat, NEW x \in Nat, NEW y \in Nat, x <= y
  PROVE  a * x \in Nat /\ a * y \in Nat /\ a * x <= a * y
<1>1. PICK k \in Nat : y = x + k
  <2>1. y - x \in Nat /\ y = x + (y - x)
    OBVIOUS
  <2> QED
    BY <2>1
<1>2. a * (x + k) = a * x + a * k /\ a * x \in Nat /\ a * k \in Nat
  OBVIOUS
<1> QED
  BY <1>1, <1>2

(* The wait before an api-hang restart only grows with the restarts there  *)
(* were: the cap does not undo it.                                         *)
LEMMA BackoffGrows ==
  ASSUME NEW m \in Nat \ {0}, NEW n \in Nat \ {0}, m <= n
  PROVE  ApiBackoff(m) \in Nat /\ ApiBackoff(n) \in Nat /\ ApiBackoff(m) <= ApiBackoff(n)
<1>1. m - 1 \in Nat /\ n - 1 \in Nat /\ m - 1 <= n - 1
  OBVIOUS
<1> DEFINE x == 2^(m - 1)
           y == 2^(n - 1)
<1>2. x \in Nat /\ y \in Nat /\ x <= y
  BY <1>1, PowersGrow
<1>3. ApiBackoff(m) = Least(ApiBase * x, ApiCap) /\ ApiBackoff(n) = Least(ApiBase * y, ApiCap)
  BY DEF ApiBackoff
<1> HIDE DEF x, y
<1>4. /\ ApiBase * x \in Nat /\ ApiBase * y \in Nat /\ ApiBase * x <= ApiBase * y
      /\ ApiCap \in Nat
  BY <1>2, ProductsGrow, CounterAssumption
<1> QED
  BY <1>3, <1>4 DEF Least

Spread(pushes) ==
    \A t, u \in pushes : u < t => t - u >= ApiBackoff(Cardinality(Earlier(pushes, t)))

UpTo(pushes, t) == \A u \in pushes : u <= t

(* As long as no restart was lost from the counters, the recorded time of  *)
(* the last restart is no earlier than any sent, and a cycle that goes for *)
(* the next one has waited the backoff of the restarts counted, which are  *)
(* no fewer than those sent (ApiCovered).                                  *)
SpaceCovered ==
    /\ Spread(apiPushes)
    /\ UpTo(apiPushes, now)
    /\ pc \in {"idle", "act", "acquired"} => UpTo(apiPushes, disk.lastRestart)
    /\ pc \in {"act", "acquired"} => ram.lastRestart = disk.lastRestart
    /\ pc = "acquired" /\ branch = "hang" /\ ram.apiRestarts > 0
         => now >= ram.lastRestart + ApiBackoff(ram.apiRestarts)
    /\ pc = "save" => /\ UpTo(apiPushes, ram.lastRestart)
                      /\ \/ UpTo(apiPushes, disk.lastRestart)
                         \/ ram.lastRestart = now

SpaceInv == ~uncounted => SpaceCovered

LEMMA NoPushes == Spread({}) /\ \A t : UpTo({}, t)
BY DEF Spread, UpTo

(* What an acquiring cycle knows of the backoff.                           *)
LEMMA AcquiredWaited ==
  ASSUME TypeOK, HangAcquire \/ StuckAcquire
  PROVE  /\ ram'.lastRestart = ram.lastRestart
         /\ branch = "hang" /\ ram'.apiRestarts > 0
              => now >= ram'.lastRestart + ApiBackoff(ram'.apiRestarts)
<1>1. ram \in State
  BY DEF TypeOK
<1>2. CASE HangAcquire
  <2>1. /\ ram' = HangCount
        /\ ~(HangCount.apiRestarts > 0
             /\ now < HangCount.lastRestart + ApiBackoff(HangCount.apiRestarts))
    BY <1>2 DEF HangAcquire, ApiBlocked
  <2>2. HangCount \in State /\ HangCount.lastRestart = ram.lastRestart
    BY CountTypes DEF Untouched
  <2>3. ASSUME ram'.apiRestarts > 0
        PROVE  now >= ram'.lastRestart + ApiBackoff(ram'.apiRestarts)
    <3> DEFINE b == ApiBackoff(ram'.apiRestarts)
    <3>1. ram'.apiRestarts \in Nat \ {0} /\ ram'.lastRestart \in Nat /\ now \in Nat
      BY <2>1, <2>2, <2>3 DEF State, TypeOK
    <3>2. b \in Nat
      BY <3>1, BackoffGrows
    <3>3. ~(now < ram'.lastRestart + b)
      BY <2>1, <2>3
    <3> HIDE DEF b
    <3>4. now >= ram'.lastRestart + b
      BY <3>1, <3>2, <3>3
    <3> QED
      BY <3>4 DEF b
  <2> QED
    BY <2>1, <2>2, <2>3
<1>3. CASE StuckAcquire
  BY <1>3, CountTypes DEF StuckAcquire
<1> QED
  BY <1>2, <1>3

(* The next restart of the ladder keeps the spacing.                       *)
LEMMA NextIsSpread ==
  ASSUME TypeOK, ApiInv, ApiCovered, SpaceCovered, pc = "acquired", branch = "hang"
  PROVE  Spread(apiPushes \cup {now})
<1> DEFINE P == apiPushes
<1>1. /\ now \in Nat /\ P \subseteq Nat /\ IsFiniteSet(P) /\ ram \in State
      /\ ram.apiRestarts \in Nat /\ ram.lastRestart \in Nat
  BY DEF TypeOK, ApiInv, State
<1>2. /\ \A u \in P : u <= now /\ u <= ram.lastRestart
      /\ Cardinality(P) <= ram.apiRestarts /\ Spread(P)
  BY DEF SpaceCovered, ApiCovered, UpTo
<1> SUFFICES ASSUME NEW t \in P \cup {now}, NEW u \in P \cup {now}, u < t
             PROVE  t - u >= ApiBackoff(Cardinality(Earlier(P \cup {now}, t)))
  BY DEF Spread
<1>3. u \in P /\ u \in Nat /\ t \in Nat
  BY <1>1, <1>2
<1>4. CASE t # now
  <2>1. t \in P /\ Earlier(P \cup {now}, t) = Earlier(P, t)
    BY <1>1, <1>2, <1>4 DEF Earlier
  <2> QED
    BY <1>2, <1>3, <2>1 DEF Spread
<1>5. CASE t = now
  <2> DEFINE E == Earlier(P \cup {now}, t)
  <2>1. E \subseteq P /\ u \in E
    BY <1>1, <1>3, <1>5 DEF Earlier
  <2> HIDE DEF E, P
  <2>2. IsFiniteSet(E) /\ Cardinality(E) <= Cardinality(P)
    BY <1>1, <2>1, FS_Subset
  <2>3. Cardinality(E) \in Nat /\ Cardinality(P) \in Nat /\ Cardinality(E) # 0
    BY <1>1, <2>1, <2>2, FS_CardinalityType, FS_EmptySet
  <2>4. Cardinality(E) <= ram.apiRestarts /\ ram.apiRestarts > 0
    BY <1>1, <1>2, <2>2, <2>3
  <2>5. /\ ApiBackoff(Cardinality(E)) \in Nat /\ ApiBackoff(ram.apiRestarts) \in Nat
        /\ ApiBackoff(Cardinality(E)) <= ApiBackoff(ram.apiRestarts)
    BY <1>1, <2>3, <2>4, BackoffGrows
  <2>6. now >= ram.lastRestart + ApiBackoff(ram.apiRestarts)
    BY <2>4 DEF SpaceCovered
  <2>7. now - u >= ApiBackoff(Cardinality(E))
    BY <1>1, <1>2, <1>3, <2>5, <2>6
  <2> QED
    BY <1>5, <2>7 DEF E, P
<1> QED
  BY <1>4, <1>5

LEMMA SpaceStep ==
  ASSUME TypeOK, Clocked, ApiInv, SpaceInv, [Next]_vars
  PROVE  SpaceInv'
<1> SUFFICES ASSUME ~uncounted' PROVE SpaceCovered'
  BY DEF SpaceInv
<1>1. ~uncounted
  BY DEF Next, Begin, Watch, HangSuppressed, HangCounted, HangBlocked, HangDeferred,
     HangAcquire, StuckFrozen, StuckCounted, StuckHeld, StuckDeferred, StuckAcquire,
     TriggerRestart, RestartReturned, Healthy, AwaitConfirmation, DeclareRecovery, Save,
     Abort, LoseState, MissTick, LeaseMoves, history, vars
<1>2. ApiCovered /\ SpaceCovered
  BY <1>1 DEF ApiInv, SpaceInv
<1>3. /\ now \in Nat /\ apiPushes \subseteq Nat /\ disk \in State /\ ram \in State
      /\ ram.lastRestart \in Nat /\ disk.lastRestart \in Nat
      /\ pc \in {"idle", "act", "acquired", "push", "save"}
  BY DEF TypeOK, State
<1>4. CASE Quietly
  <2>1. /\ pc = "act" /\ pc' = "save" /\ UNCHANGED <<disk, now>>
        /\ ram'.lastRestart = ram.lastRestart
        /\ apiPushes' = apiPushes \/ apiPushes' = {}
    BY <1>4, QuietAct, QuietCycle DEF Clocked
  <2> HIDE DEF Quietly
  <2>2. CASE apiPushes' = apiPushes
    BY <1>2, <2>1, <2>2 DEF SpaceCovered
  <2>3. CASE apiPushes' = {}
    BY <2>1, <2>3, NoPushes DEF SpaceCovered
  <2> QED
    BY <2>1, <2>2, <2>3
<1>5. CASE Begin
  <2>1. /\ pc = "idle" /\ pc' = "act" /\ now' = now + 1 /\ UNCHANGED <<disk, apiPushes>>
        /\ ram'.lastRestart = disk.lastRestart
    BY <1>5, Begins DEF Untouched
  <2>2. UpTo(apiPushes, now')
    BY <1>2, <1>3, <2>1 DEF SpaceCovered, UpTo
  <2> QED
    BY <1>2, <2>1, <2>2 DEF SpaceCovered
<1>6. CASE HangAcquire \/ StuckAcquire
  <2>1. /\ pc = "act" /\ pc' = "acquired" /\ UNCHANGED <<disk, branch, now, apiPushes>>
    BY <1>6, Acquires
  <2> QED
    BY <1>2, <1>6, <2>1, AcquiredWaited DEF SpaceCovered
<1>7. CASE TriggerRestart
  <2>1. /\ pc = "acquired" /\ pc' = "push" /\ UNCHANGED now
        /\ apiPushes' = IF branch = "hang" THEN apiPushes \cup {now} ELSE apiPushes
    BY <1>7 DEF TriggerRestart
  <2>2. UpTo(apiPushes', now)
    BY <1>2, <1>3, <2>1 DEF SpaceCovered, UpTo
  <2>3. Spread(apiPushes')
    BY <1>2, <2>1, NextIsSpread DEF SpaceCovered
  <2> QED
    BY <2>1, <2>2, <2>3 DEF SpaceCovered
<1>8. CASE \E ok \in BOOLEAN : RestartReturned(ok)
  <2>1. /\ pc' = "save" /\ UNCHANGED <<now, apiPushes>> /\ ram'.lastRestart = now
    BY <1>8, Returns
  <2> QED
    BY <1>2, <2>1 DEF SpaceCovered
<1>9. CASE Save
  BY <1>2, <1>9 DEF Save, SpaceCovered
<1>10. CASE Abort
  <2>1. /\ pc' = "idle" /\ pc # "idle" /\ pc # "push" /\ ram.lastRestart # now
        /\ UNCHANGED <<disk, apiPushes, now>>
    BY <1>10 DEF Abort
  <2> QED
    BY <1>2, <1>3, <2>1 DEF SpaceCovered
<1>11. CASE LoseState
  <2>1. /\ pc = "idle" /\ pc' = "idle" /\ ~(disk.apiRestarts > 0)
        /\ UNCHANGED <<now, apiPushes>>
    BY <1>11 DEF LoseState
  <2>2. Cardinality(apiPushes) <= 0 /\ Cardinality(apiPushes) \in Nat
    BY <1>2, <1>3, <2>1, FS_CardinalityType DEF ApiCovered, ApiInv, State
  <2>3. apiPushes = {}
    BY <2>2, FS_EmptySet DEF ApiInv
  <2> QED
    BY <2>1, <2>3, NoPushes DEF SpaceCovered
<1>12. CASE MissTick
  <2>1. /\ pc = "idle" /\ pc' = "idle" /\ now' = now + 1 /\ UNCHANGED <<disk, apiPushes>>
    BY <1>12 DEF MissTick, history
  <2>2. UpTo(apiPushes, now')
    BY <1>2, <1>3, <2>1 DEF SpaceCovered, UpTo
  <2> QED
    BY <1>2, <2>1, <2>2 DEF SpaceCovered
<1>13. CASE LeaseMoves \/ UNCHANGED vars
  BY <1>2, <1>13 DEF LeaseMoves, vars, history, SpaceCovered
<1> QED
  BY <1>4, <1>5, <1>6, <1>7, <1>8, <1>9, <1>10, <1>11, <1>12, <1>13 DEF Next, Quietly

(* Between two recoveries each api-hang restart waits the doubled backoff  *)
(* of those before it, also when a recovery's reset was cut short and more *)
(* are counted than were sent (ib_watchdog.py:1166-1173).                  *)
THEOREM ApiSpaced == Spec => []ApiRestartsSpaced
<1>1. Init => ApiInv /\ SpaceInv
  BY NoPushes, FS_EmptySet, CounterAssumption
     DEF Init, ApiInv, ApiCovered, SpaceInv, SpaceCovered, Fresh
<1>2. SpaceInv => ApiRestartsSpaced
  BY DEF SpaceInv, SpaceCovered, Spread, ApiRestartsSpaced
<1> QED
  BY <1>1, <1>2, TypeStart, TypeStep, ApiStep, SpaceStep, PTL DEF Spec

-----------------------------------------------------------------------------
(* The rolling cap on stuck-2FA restarts.  The restarts still in the       *)
(* window are in the pruned history, on disk or in memory.                 *)

Recent == {t \in stuckPushes : t + Window >= now}
InWindow(t) == {u \in stuckPushes : u <= t /\ t <= u + Window}

StuckCovered ==
    /\ \A t \in stuckPushes : Cardinality(InWindow(t)) <= MaxStuck
    /\ pc \in {"idle", "act", "acquired"} => Recent \subseteq disk.pushes
    /\ pc \in {"act", "acquired", "save"} => Recent \subseteq ram.pushes
    /\ pc \in {"acquired", "push"} => branch \in {"hang", "stuck"}
    /\ pc = "acquired" /\ branch = "stuck" => ~(Cardinality(ram.pushes) >= MaxStuck)
    /\ pc = "push" => Recent \subseteq IF branch = "hang" THEN ram.pushes
                                       ELSE ram.pushes \cup {now}
    /\ pc = "save" => Recent \subseteq disk.pushes \/ ram.lastRestart = now

StuckInv ==
    /\ IsFiniteSet(disk.pushes) /\ IsFiniteSet(ram.pushes)
    /\ \A t \in stuckPushes : t <= now
    /\ ~uncounted => StuckCovered

LEMMA PruneKeeps ==
  ASSUME NEW P
  PROVE  /\ IsFiniteSet(P) => IsFiniteSet(Prune(P))
         /\ Recent \subseteq P => Recent \subseteq Prune(P)
<1>1. Prune(P) \subseteq P
  BY DEF Prune
<1>2. IsFiniteSet(P) => IsFiniteSet(Prune(P))
  BY <1>1, FS_Subset
<1>3. Recent \subseteq P => Recent \subseteq Prune(P)
  BY DEF Prune, Recent
<1> QED
  BY <1>2, <1>3

(* What a step that sends nothing keeps of the windows.                    *)
LEMMA SameWindows ==
  ASSUME UNCHANGED stuckPushes
  PROVE  \A t \in stuckPushes : InWindow(t)' = InWindow(t)
BY DEF InWindow

LEMMA StuckStep ==
  ASSUME TypeOK, Clocked, StuckInv, [Next]_vars
  PROVE  StuckInv'
<1>1. /\ MaxStuck \in Nat /\ Window \in Nat /\ now \in Nat
      /\ \A t \in stuckPushes : t \in Nat
      /\ pc \in {"idle", "act", "acquired", "push", "save"}
  BY CounterAssumption DEF TypeOK
<1>2. CASE Quietly
  <2>1. /\ pc = "act" /\ pc' = "save"
        /\ UNCHANGED <<disk, branch, now, stuckPushes, uncounted>>
        /\ ram'.pushes \in {ram.pushes, Prune(ram.pushes)}
    BY <1>2, QuietAct, QuietCycle DEF Clocked
  <2>2. Recent' = Recent
    BY <2>1 DEF Recent
  <2>3. IsFiniteSet(ram'.pushes)
    BY <2>1, PruneKeeps DEF StuckInv
  <2>4. ~uncounted => Recent \subseteq ram'.pushes
    BY <2>1, PruneKeeps DEF StuckInv, StuckCovered
  <2> QED
    BY <2>1, <2>2, <2>3, <2>4, SameWindows DEF StuckInv, StuckCovered
<1>3. CASE Begin
  <2>1. /\ pc = "idle" /\ pc' = "act" /\ now' = now + 1
        /\ UNCHANGED <<disk, stuckPushes, uncounted>> /\ ram'.pushes = disk.pushes
    BY <1>3, Begins DEF Untouched
  <2>2. Recent' \subseteq Recent
    BY <1>1, <2>1 DEF Recent
  <2>3. \A t \in stuckPushes : t <= now'
    BY <1>1, <2>1 DEF StuckInv
  <2> QED
    BY <2>1, <2>2, <2>3, SameWindows DEF StuckInv, StuckCovered
<1>4. CASE HangAcquire \/ StuckAcquire
  <2>1. /\ pc = "act" /\ pc' = "acquired" /\ branch \in {"hang", "stuck"}
        /\ UNCHANGED <<disk, branch, now, stuckPushes, uncounted>>
        /\ branch = "hang" => ram'.pushes = ram.pushes
        /\ branch = "stuck" => /\ ram'.pushes = Prune(ram.pushes)
                               /\ ~(Cardinality(ram'.pushes) >= MaxStuck)
    BY <1>4, Acquires
  <2>2. Recent' = Recent
    BY <2>1 DEF Recent
  <2>3. IsFiniteSet(ram'.pushes)
    BY <2>1, PruneKeeps DEF StuckInv
  <2>4. ~uncounted => Recent \subseteq ram'.pushes
    BY <2>1, PruneKeeps DEF StuckInv, StuckCovered
  <2> QED
    BY <2>1, <2>2, <2>3, <2>4, SameWindows DEF StuckInv, StuckCovered
<1>5. CASE TriggerRestart
  <2>1. /\ pc = "acquired" /\ pc' = "push" /\ UNCHANGED <<disk, ram, branch, now, uncounted>>
        /\ stuckPushes' = IF branch = "stuck" THEN stuckPushes \cup {now} ELSE stuckPushes
    BY <1>5 DEF TriggerRestart
  <2>2. CASE branch # "stuck"
    <3>1. stuckPushes' = stuckPushes /\ Recent' = Recent
      BY <2>1, <2>2 DEF Recent
    <3> QED
      BY <2>1, <2>2, <3>1, SameWindows DEF StuckInv, StuckCovered
  <2>3. CASE branch = "stuck"
    <3>1. stuckPushes' = stuckPushes \cup {now} /\ Recent' \subseteq Recent \cup {now}
      BY <2>1, <2>3 DEF Recent
    <3>2. \A t \in stuckPushes' : t <= now'
      BY <1>1, <2>1, <3>1 DEF StuckInv
    <3>3. ASSUME ~uncounted, NEW t \in stuckPushes'
          PROVE  Cardinality(InWindow(t)') <= MaxStuck
      <4>1. CASE t # now
        <5>1. t \in stuckPushes /\ t < now
          BY <1>1, <3>1, <4>1 DEF StuckInv
        <5>2. InWindow(t)' = InWindow(t)
          BY <1>1, <3>1, <5>1 DEF InWindow
        <5> QED
          BY <3>3, <5>1, <5>2 DEF StuckInv, StuckCovered
      <4>2. CASE t = now
        <5>1. InWindow(t)' \subseteq ram.pushes \cup {now}
          <6>1. InWindow(t)' \subseteq Recent \cup {now}
            BY <1>1, <3>1, <4>2 DEF InWindow, Recent
          <6> QED
            BY <2>1, <3>3, <6>1 DEF StuckInv, StuckCovered
        <5>2. /\ IsFiniteSet(ram.pushes) /\ Cardinality(ram.pushes) \in Nat
              /\ Cardinality(ram.pushes) < MaxStuck
          <6>1. IsFiniteSet(ram.pushes) /\ Cardinality(ram.pushes) \in Nat
            BY FS_CardinalityType DEF StuckInv
          <6> QED
            BY <1>1, <2>1, <2>3, <3>3, <6>1 DEF StuckInv, StuckCovered
        <5>3. /\ IsFiniteSet(ram.pushes \cup {now})
              /\ Cardinality(ram.pushes \cup {now}) <= Cardinality(ram.pushes) + 1
          BY <5>2, FS_AddElement
        <5>4. /\ Cardinality(InWindow(t)') <= Cardinality(ram.pushes \cup {now})
              /\ IsFiniteSet(InWindow(t)')
          BY <5>1, <5>3, FS_Subset
        <5>5. Cardinality(InWindow(t)') \in Nat /\ Cardinality(ram.pushes \cup {now}) \in Nat
          BY <5>3, <5>4, FS_CardinalityType
        <5> QED
          BY <1>1, <5>2, <5>3, <5>4, <5>5
      <4> QED
        BY <4>1, <4>2
    <3>4. ASSUME ~uncounted PROVE StuckCovered'
      <4>1. Recent' \subseteq ram'.pushes \cup {now'}
        BY <2>1, <3>1, <3>4 DEF StuckInv, StuckCovered
      <4> QED
        BY <2>1, <2>3, <3>3, <3>4, <4>1 DEF StuckCovered
    <3> QED
      BY <2>1, <3>2, <3>4 DEF StuckInv
  <2> QED
    BY <2>2, <2>3
<1>6. CASE \E ok \in BOOLEAN : RestartReturned(ok)
  <2>1. /\ pc = "push" /\ pc' = "save"
        /\ UNCHANGED <<disk, branch, now, stuckPushes, uncounted>>
        /\ ram'.lastRestart = now
        /\ branch = "hang" => ram'.pushes = ram.pushes
        /\ branch # "hang" => ram'.pushes = Prune(ram.pushes) \cup {now}
    BY <1>6, Returns
  <2>2. Recent' = Recent
    BY <2>1 DEF Recent
  <2>3. IsFiniteSet(ram'.pushes)
    BY <2>1, PruneKeeps, FS_AddElement DEF StuckInv
  <2>4. ASSUME ~uncounted PROVE Recent \subseteq ram'.pushes
    <3>1. Recent \subseteq IF branch = "hang" THEN ram.pushes ELSE ram.pushes \cup {now}
      BY <2>1, <2>4 DEF StuckInv, StuckCovered
    <3>2. ASSUME branch # "hang", NEW t \in Recent PROVE t \in Prune(ram.pushes) \cup {now}
      BY <3>1, <3>2 DEF Recent, Prune
    <3> QED
      BY <2>1, <3>1, <3>2
  <2> QED
    BY <2>1, <2>2, <2>3, <2>4, SameWindows DEF StuckInv, StuckCovered
<1>7. CASE Save
  <2>1. /\ pc = "save" /\ pc' = "idle" /\ disk' = ram /\ ram' = Fresh
        /\ UNCHANGED <<now, stuckPushes, uncounted>>
    BY <1>7 DEF Save
  <2>2. Recent' = Recent /\ IsFiniteSet(ram'.pushes)
    BY <2>1, FS_EmptySet DEF Recent, Fresh
  <2> QED
    BY <2>1, <2>2, SameWindows DEF StuckInv, StuckCovered
<1>8. CASE Abort
  <2>1. /\ pc # "idle" /\ pc' = "idle" /\ disk' = disk /\ ram' = Fresh
        /\ UNCHANGED <<now, stuckPushes>>
        /\ ~uncounted' => ~uncounted /\ pc # "push" /\ ram.lastRestart # now
    BY <1>8 DEF Abort
  <2>2. Recent' = Recent /\ IsFiniteSet(ram'.pushes)
    BY <2>1, FS_EmptySet DEF Recent, Fresh
  <2> QED
    BY <1>1, <2>1, <2>2, SameWindows DEF StuckInv, StuckCovered
<1>9. CASE LoseState
  <2>1. /\ pc = "idle" /\ pc' = "idle" /\ disk' = Fresh
        /\ UNCHANGED <<ram, now, stuckPushes>>
        /\ ~uncounted' => ~uncounted /\ disk.pushes = {}
    BY <1>9 DEF LoseState
  <2>2. Recent' = Recent /\ IsFiniteSet(disk'.pushes) /\ disk'.pushes = {}
    BY <2>1, FS_EmptySet DEF Recent, Fresh
  <2> QED
    BY <2>1, <2>2, SameWindows DEF StuckInv, StuckCovered
<1>10. CASE MissTick
  <2>1. /\ pc = "idle" /\ pc' = "idle" /\ now' = now + 1
        /\ UNCHANGED <<disk, ram, stuckPushes, uncounted>>
    BY <1>10 DEF MissTick, history
  <2>2. Recent' \subseteq Recent
    BY <1>1, <2>1 DEF Recent
  <2>3. \A t \in stuckPushes : t <= now'
    BY <1>1, <2>1 DEF StuckInv
  <2> QED
    BY <2>1, <2>2, <2>3, SameWindows DEF StuckInv, StuckCovered
<1>11. CASE LeaseMoves \/ UNCHANGED vars
  <2>1. UNCHANGED <<disk, ram, pc, branch, now, stuckPushes, uncounted>>
    BY <1>11 DEF LeaseMoves, vars, history
  <2>2. Recent' = Recent
    BY <2>1 DEF Recent
  <2> QED
    BY <2>1, <2>2, SameWindows DEF StuckInv, StuckCovered
<1> QED
  BY <1>2, <1>3, <1>4, <1>5, <1>6, <1>7, <1>8, <1>9, <1>10, <1>11 DEF Next, Quietly

(* No window, wherever it starts, holds more than MaxStuck restarts that   *)
(* the counters know of.                                                   *)
THEOREM StuckCapHolds == Spec => []StuckRestartsCapped
<1>1. Init => StuckInv
  <2> SUFFICES ASSUME Init PROVE StuckInv
    OBVIOUS
  <2>1. disk.pushes = {} /\ ram.pushes = {} /\ stuckPushes = {} /\ pc = "idle"
    BY DEF Init, Fresh
  <2>2. Recent = {}
    BY <2>1 DEF Recent
  <2> QED
    BY <2>1, <2>2, FS_EmptySet DEF StuckInv, StuckCovered
<1>2. StuckInv => StuckRestartsCapped
  BY DEF StuckInv, StuckCovered, InWindow, StuckRestartsCapped
<1> QED
  BY <1>1, <1>2, TypeStart, TypeStep, StuckStep, PTL DEF Spec
=============================================================================
