------------------------ MODULE GatewayRestartProofs ------------------------
(***************************************************************************)
(* Proofs about GatewayRestart, for any roles, ladder and timings: its     *)
(* type, that a pending push keeps a lease, that failed attempts are       *)
(* spaced by the ladder, and that the process does not give itself up      *)
(* before the cooldowns have passed.                                       *)
(***************************************************************************)
EXTENDS GatewayRestart, TLAPS

(* A process that is not up has forgotten everything.                      *)
Forgotten ==
  ~up => op = Free /\ rec = [fails |-> 0, cool |-> 0] /\ beat = Idle

(* A push is pending only over a Gateway that starts or waits for it, and  *)
(* good connections exist only to one that is logged in.                   *)
Pending == gw \in {"down", "in"} => push = "none"
GoodIsIn == \A r \in Role : pool[r] = "good" => gw = "in"

(* The lease of a startup is gone from a restart's hands, and while its    *)
(* push is pending no heartbeat has seen a login.                          *)
Startup == lease # NoLease /\ lease.holder = "ensure"
CycleIsOwn == op.at = "cycle" => ~Startup
UnseenYet == Startup /\ push = "leased" => beat.at # "saw" \/ beat.saw # "authenticated"

Covering == Pending /\ GoodIsIn /\ CycleIsOwn /\ UnseenYet /\ PushIsCovered

(* The backoff counts the attempts that failed and waits out their rung.   *)
Counting ==
  /\ rs.count = tried.fails
  /\ op.at \in {"cycle", "poll"} => tried.since >= Lesser(op.age, Longest)
  /\ op.at \in {"free", "all"} /\ tried.fails > 0 =>
        rs.wait + tried.since >= Ladder[tried.fails]

(* Every failed recovery has lasted a cooldown.                            *)
Guarded(b) == b \in {"probe", "roles", "second"}
Cooled ==
  uptime + rec.cool >= (IF Guarded(beat.at) THEN rec.fails + 1 ELSE rec.fails) * Cooldown

IInv ==
  /\ TypeOK
  /\ Forgotten
  /\ Covering
  /\ Counting
  /\ Cooled
-----------------------------------------------------------------------------
LEMMA Times ==
  /\ Steps \in Nat \ {0} /\ Longest \in Nat
  /\ \A i \in 1..Steps : Ladder[i] \in Nat /\ Ladder[i] <= Longest
  /\ TTL \in Nat /\ Span \in Nat /\ Cooldown \in Nat /\ MaxFails \in Nat \ {0}
<1>1. Steps \in Nat \ {0} /\ \A i \in 1..Steps : Ladder[i] \in Nat
  BY TimingAssumption DEF Steps
<1>2. \A i \in 1..Steps : Ladder[i] <= Ladder[Steps]
  BY <1>1, TimingAssumption DEF Steps
<1>3. QED BY <1>1, <1>2, TimingAssumption DEF Longest

LEMMA Bounds ==
  /\ \A a, b \in Nat : Minus(a, b) \in Nat /\ Minus(a, b) <= a /\ Minus(a, b) + b >= a
  /\ \A a, b \in Nat : Lesser(a, b) \in Nat /\ Lesser(a, b) <= a /\ Lesser(a, b) <= b
                       /\ (Lesser(a, b) = a \/ Lesser(a, b) = b)
BY DEF Minus, Lesser

LEMMA Products ==
  /\ MaxUp \in Nat
  /\ 0 * Cooldown = 0
  /\ \A n \in Nat : n * Cooldown \in Nat
  /\ \A n \in Nat : (n + 1) * Cooldown = n * Cooldown + Cooldown
  /\ \A n \in 0..MaxFails : n * Cooldown <= MaxUp
<1>1. MaxUp \in Nat /\ \A n \in Nat : n * Cooldown \in Nat
  BY Times DEF MaxUp
<1>2. \A n \in Nat : (n + 1) * Cooldown = n * Cooldown + Cooldown
  BY Times
<1>3. ASSUME NEW n \in 0..MaxFails PROVE n * Cooldown <= MaxUp
  <2>1. PICK d \in Nat : MaxFails = n + d
    <3>1. MaxFails - n \in Nat /\ MaxFails = n + (MaxFails - n)
      BY Times
    <3>2. QED BY <3>1
  <2>2. n \in Nat /\ d * Cooldown \in Nat /\ n * Cooldown \in Nat
    BY Times
  <2>3. MaxUp = Cooldown * (n + d)
    BY <2>1 DEF MaxUp
  <2>4. \A a, b, c \in Nat : c * (a + b) = a * c + b * c
    OBVIOUS
  <2>5. Cooldown * (n + d) = n * Cooldown + d * Cooldown
    BY <2>2, <2>4, Times
  <2>6. QED BY <2>2, <2>3, <2>5
<1>4. 0 * Cooldown = 0
  BY Times
<1>5. QED BY <1>1, <1>2, <1>3, <1>4

LEMMA Init_IInv == Init => IInv
<1> SUFFICES ASSUME Init PROVE IInv OBVIOUS
<1>1. TypeOK
  <2>1. 0 \in 0..Span /\ 0 \in 0..Steps /\ 0 \in 0..Longest /\ 0 \in 0..(MaxFails - 1)
        /\ 0 \in 0..Cooldown /\ 0 \in 0..MaxUp
    BY Times, Products
  <2>2. Idle \in [at : {"idle", "saw", "all", "guard", "probe", "roles", "second"},
                  saw : States, stuck : SUBSET Role]
    BY DEF Idle, States
  <2>3. QED BY <2>1, <2>2 DEF Init, TypeOK, Free
<1>2. Forgotten /\ Covering
  BY DEF Init, Forgotten, Covering, Pending, GoodIsIn, CycleIsOwn, UnseenYet, PushIsCovered, Free, Idle, Startup
<1>3. Counting
  BY DEF Init, Counting, Free
<1>4. Cooled
  <2>1. ~Guarded(beat.at) /\ rec.fails = 0 /\ rec.cool = 0 /\ uptime = 0
    BY DEF Init, Idle, Guarded
  <2>2. QED BY <2>1, Products DEF Cooled
<1>5. QED BY <1>1, <1>2, <1>3, <1>4 DEF IInv

(* What the redialling of some roles leads to.                             *)
LEMMA Dialled_good ==
  ASSUME TypeOK, GoodIsIn, NEW roles \in SUBSET Role, pool' \in Dialled(roles), gw' = gw
  PROVE  pool' \in [Role -> {"dead", "bare", "good"}] /\ GoodIsIn'
BY DEF TypeOK, GoodIsIn, Dialled

LEMMA RestartAsked_IInv == ASSUME IInv, RestartAsked PROVE IInv'
<1>1. TypeOK'
  BY Times DEF RestartAsked, IInv, TypeOK, TakeLease, Lease
<1>2. Forgotten' /\ Pending' /\ GoodIsIn'
  BY DEF RestartAsked, IInv, Forgotten, Covering, Pending, GoodIsIn
<1>3. lease' # NoLease /\ ~Startup'
  <2>1. lease' = [holder |-> "restart", age |-> 0]
    BY DEF RestartAsked, TakeLease
  <2>2. lease' \in Lease
    BY <2>1, Times DEF Lease
  <2>3. QED BY <2>1, <2>2, LeaseAssumption DEF Startup
<1>4. CycleIsOwn' /\ UnseenYet' /\ PushIsCovered'
  BY <1>3 DEF CycleIsOwn, UnseenYet, PushIsCovered
<1>5. Counting'
  BY Times DEF RestartAsked, IInv, TypeOK, Counting, Lesser
<1>6. Cooled'
  BY DEF RestartAsked, IInv, Cooled
<1>7. QED BY <1>1, <1>2, <1>4, <1>5, <1>6 DEF IInv, Covering

LEMMA CycleGateway_IInv == ASSUME IInv, CycleGateway PROVE IInv'
<1>1. TypeOK'
  BY DEF CycleGateway, Cycled, IInv, TypeOK
<1>2. Forgotten' /\ Covering'
  BY DEF CycleGateway, Cycled, IInv, TypeOK, Forgotten, Covering, Pending, GoodIsIn, CycleIsOwn,
         UnseenYet, PushIsCovered, Startup, Free
<1>3. Counting'
  BY DEF CycleGateway, IInv, TypeOK, Counting
<1>4. Cooled'
  BY DEF CycleGateway, IInv, Cooled
<1>5. QED BY <1>1, <1>2, <1>3, <1>4 DEF IInv
(* A release takes at most the lease it is for.                            *)
LEMMA ReleaseOwn_lease ==
  ASSUME TypeOK, NEW hs, ReleaseOwn(hs)
  PROVE  /\ lease' \in Lease \cup {NoLease}
         /\ Startup' => Startup
         /\ lease' # lease => lease # NoLease /\ lease.holder \in hs
BY DEF TypeOK, ReleaseOwn, Startup

LEMMA Confirmed_IInv == ASSUME IInv, NEW b \in BOOLEAN, Confirmed(b) PROVE IInv'
<1>1. /\ op.at = "poll" /\ gw = "in" /\ UNCHANGED <<gw, pool, up, rec, beat, push, uptime>>
      /\ rs' = [count |-> 0, wait |-> 0] /\ tried' = [fails |-> 0, since |-> 0]
      /\ redial' = TRUE /\ auth' \in {auth, "authenticated"}
      /\ op' = [op EXCEPT !.at = "all"] \/ op' = Free
  BY DEF Confirmed
<1>2. lease' \in Lease \cup {NoLease} /\ (Startup' => Startup)
  BY ReleaseOwn_lease DEF Confirmed, IInv
<1>3. TypeOK'
  BY <1>1, <1>2, Times DEF IInv, TypeOK, Free, States
<1>4. Forgotten'
  BY <1>1 DEF IInv, Forgotten, Free
<1>5. Covering'
  BY <1>1, <1>2 DEF IInv, TypeOK, Covering, Pending, GoodIsIn, CycleIsOwn, UnseenYet,
                    PushIsCovered, Free
<1>6. Counting'
  BY <1>1 DEF IInv, TypeOK, Counting, Free
<1>7. Cooled'
  BY <1>1 DEF IInv, Cooled
<1>8. QED BY <1>3, <1>4, <1>5, <1>6, <1>7 DEF IInv

LEMMA Unconfirmed_IInv ==
  ASSUME IInv, NEW new \in States \ {"authenticated"}, NEW b \in BOOLEAN, Unconfirmed(new, b)
  PROVE  IInv'
<1> DEFINE n == Lesser(rs.count + 1, Steps)
           w == Minus(Ladder[n], op.age)
<1>1. /\ op.at \in {"cycle", "poll"} /\ UNCHANGED <<gw, lease, pool, up, rec, beat, push, uptime>>
      /\ rs' = [count |-> n, wait |-> w]
      /\ tried' = [tried EXCEPT !.fails = Lesser(@ + 1, Steps)]
      /\ auth' = new /\ op' = Free /\ redial' \in BOOLEAN
  BY DEF Unconfirmed, Counted, IInv, TypeOK
<1>2. rs.count = tried.fails /\ rs.count \in 0..Steps /\ op.age \in Nat /\ tried.since \in 0..Longest
      /\ tried.since >= Lesser(op.age, Longest)
  BY <1>1 DEF IInv, TypeOK, Counting
<1>3. n \in 1..Steps
  BY <1>2, Times DEF Lesser
<1>4. Ladder[n] \in Nat /\ Ladder[n] <= Longest /\ w \in 0..Longest /\ w + op.age >= Ladder[n]
  <2> HIDE DEF n
  <2>1. Ladder[n] \in Nat /\ Ladder[n] <= Longest /\ Longest \in Nat
    BY <1>3, Times
  <2>2. w \in Nat /\ w <= Ladder[n] /\ w + op.age >= Ladder[n]
    BY <1>2, <2>1, Bounds
  <2> HIDE DEF w
  <2>3. QED BY <2>1, <2>2
<1>5. /\ tried' \in [fails : 0..Steps, since : 0..Longest]
      /\ tried'.fails = n /\ tried'.since = tried.since
  <2>1. tried \in [fails : 0..Steps, since : 0..Longest]
    BY DEF IInv, TypeOK
  <2>2. tried' = [tried EXCEPT !.fails = n]
    BY <1>1, <1>2
  <2> HIDE DEF n
  <2>3. QED BY <1>3, <2>1, <2>2, Times
<1> HIDE DEF n, w
<1>6. TypeOK'
  BY <1>1, <1>2, <1>3, <1>4, <1>5, Times DEF IInv, TypeOK, Free
<1>7. Forgotten'
  BY <1>1 DEF IInv, Forgotten, Free
<1>8. Covering'
  BY <1>1 DEF IInv, Covering, Pending, GoodIsIn, CycleIsOwn, UnseenYet, PushIsCovered, Free, Startup
<1>9. Counting'
  <2>1. w + tried.since >= Ladder[n]
    BY <1>2, <1>4, Times DEF Lesser
  <2>2. QED BY <1>1, <1>5, <2>1 DEF Counting, Free
<1>10. Cooled'
  BY <1>1 DEF IInv, Cooled
<1>11. QED BY <1>6, <1>7, <1>8, <1>9, <1>10 DEF IInv

LEMMA OpRedialed_IInv == ASSUME IInv, OpRedialed PROVE IInv'
<1>1. pool' \in [Role -> {"dead", "bare", "good"}] /\ GoodIsIn'
  BY Dialled_good DEF OpRedialed, IInv, Covering
<1>2. /\ op.at = "all" /\ op' = Free
      /\ UNCHANGED <<gw, lease, up, rs, auth, rec, beat, redial, push, tried, uptime>>
  BY DEF OpRedialed
<1>3. TypeOK'
  BY <1>1, <1>2, Times DEF IInv, TypeOK, Free
<1>4. Forgotten' /\ Covering'
  BY <1>1, <1>2 DEF IInv, Forgotten, Covering, Pending, CycleIsOwn, UnseenYet, PushIsCovered,
                    Free, Startup
<1>5. Counting' /\ Cooled'
  BY <1>2 DEF IInv, Counting, Cooled, Free
<1>6. QED BY <1>3, <1>4, <1>5 DEF IInv

LEMMA PoolDialed_IInv == ASSUME IInv, PoolDialed PROVE IInv'
<1>1. pool' \in [Role -> {"dead", "bare", "good"}] /\ GoodIsIn'
  BY Dialled_good DEF PoolDialed, IInv, Covering
<1>2. /\ redial' = FALSE
      /\ UNCHANGED <<gw, lease, up, op, rs, auth, rec, beat, push, tried, uptime>>
  BY DEF PoolDialed
<1>3. TypeOK'
  BY <1>1, <1>2 DEF IInv, TypeOK
<1>4. Forgotten' /\ Covering' /\ Counting' /\ Cooled'
  BY <1>1, <1>2 DEF IInv, Forgotten, Covering, Pending, CycleIsOwn, UnseenYet, PushIsCovered,
                    Startup, Counting, Cooled
<1>5. QED BY <1>3, <1>4 DEF IInv

LEMMA Reset_IInv == ASSUME IInv, Reset PROVE IInv'
<1>1. /\ rs' = [count |-> 0, wait |-> 0] /\ tried' = [tried EXCEPT !.fails = 0]
      /\ lease' = NoLease /\ push' = IF push = "leased" THEN "voided" ELSE push
      /\ UNCHANGED <<gw, pool, up, op, auth, rec, beat, redial, uptime>>
  BY DEF Reset
<1>2. TypeOK'
  BY <1>1, Times DEF IInv, TypeOK
<1>3. Forgotten' /\ Covering' /\ Cooled'
  BY <1>1 DEF IInv, Forgotten, Covering, Pending, GoodIsIn, CycleIsOwn, UnseenYet, PushIsCovered,
              Startup, Cooled
<1>4. Counting'
  BY <1>1 DEF IInv, TypeOK, Counting
<1>5. QED BY <1>2, <1>3, <1>4 DEF IInv

LEMMA StartUp_IInv == ASSUME IInv, NEW b \in BOOLEAN, StartUp(b) PROVE IInv'
<1>1. /\ ~up /\ up' = TRUE /\ redial' = TRUE
      /\ UNCHANGED <<pool, op, rs, auth, rec, beat, tried, uptime>>
      /\ op = Free /\ beat = Idle
  BY DEF StartUp, IInv, Forgotten
<1>2. \/ UNCHANGED <<gw, lease, push>>
      \/ /\ gw = "down" /\ gw' = "boot" /\ push' = "leased"
         /\ lease' = [holder |-> "ensure", age |-> 0]
  BY DEF StartUp, TakeLease
<1>3. [holder |-> "ensure", age |-> 0] \in Lease
  BY Times DEF Lease
<1>4. lease' \in Lease \cup {NoLease} /\ (push' = "leased" => lease' # NoLease)
  BY <1>2, <1>3, LeaseAssumption DEF IInv, TypeOK, Covering, PushIsCovered
<1>5. TypeOK'
  BY <1>1, <1>2, <1>4 DEF IInv, TypeOK
<1>6. Covering'
  BY <1>1, <1>2, <1>4 DEF IInv, Covering, Pending, GoodIsIn, CycleIsOwn, UnseenYet, PushIsCovered,
                          Free, Idle, Startup
<1>7. Forgotten' /\ Counting' /\ Cooled'
  BY <1>1 DEF IInv, Forgotten, Counting, Cooled
<1>8. QED BY <1>5, <1>6, <1>7 DEF IInv

LEMMA Gone_IInv == ASSUME IInv, Gone PROVE IInv'
<1>1. /\ up' = FALSE /\ op' = Free /\ rs' = [count |-> 0, wait |-> 0]
      /\ auth' = "none" /\ rec' = [fails |-> 0, cool |-> 0]
      /\ beat' = Idle /\ redial' = FALSE
      /\ tried' = [fails |-> 0, since |-> 0] /\ uptime' = 0
      /\ pool' = [r \in Role |-> "dead"] /\ UNCHANGED <<gw, lease, push>>
  BY DEF Gone, Blank
<1>2. TypeOK'
  <2>1. 0 \in 0..Span /\ 0 \in 0..Steps /\ 0 \in 0..Longest /\ 0 \in 0..(MaxFails - 1)
        /\ 0 \in 0..Cooldown /\ 0 \in 0..MaxUp
    BY Times, Products
  <2>2. Idle \in [at : {"idle", "saw", "all", "guard", "probe", "roles", "second"},
                  saw : States, stuck : SUBSET Role]
    BY DEF Idle, States
  <2>3. QED BY <1>1, <2>1, <2>2 DEF IInv, TypeOK, Free
<1>3. Forgotten' /\ Covering'
  BY <1>1 DEF IInv, Forgotten, Covering, Pending, GoodIsIn, CycleIsOwn, UnseenYet, PushIsCovered,
              Free, Idle, Startup
<1>4. Counting'
  BY <1>1 DEF Counting, Free
<1>5. Cooled'
  <2>1. ~Guarded(beat'.at) /\ rec'.fails = 0 /\ rec'.cool = 0 /\ uptime' = 0
    BY <1>1 DEF Idle, Guarded
  <2>2. QED BY <2>1, Products DEF Cooled
<1>6. QED BY <1>2, <1>3, <1>4, <1>5 DEF IInv
-----------------------------------------------------------------------------
(* The heartbeat works on its own state, the pool, and perhaps the lease.  *)
Beats == [at : {"idle", "saw", "all", "guard", "probe", "roles", "second"},
          saw : States, stuck : SUBSET Role]
Counts == [fails : 0..(MaxFails - 1), cool : 0..Cooldown]

LEMMA BeatStep ==
  ASSUME IInv, UNCHANGED <<gw, up, op, rs, redial, push, tried, uptime>>,
         up, lease' \in Lease \cup {NoLease}, Startup' => Startup,
         lease' # lease => push # "leased",
         pool' \in [Role -> {"dead", "bare", "good"}], GoodIsIn',
         auth' \in States \cup {"none"}, beat' \in Beats, rec' \in Counts,
         beat'.at = "saw" /\ beat'.saw = "authenticated" => gw = "in",
         Cooled'
  PROVE  IInv'
<1>1. TypeOK'
  BY DEF IInv, TypeOK, Beats, Counts
<1>2. Forgotten' /\ Counting'
  BY DEF IInv, Forgotten, Counting
<1>3. Covering'
  BY DEF IInv, Covering, Pending, CycleIsOwn, UnseenYet, PushIsCovered
<1>4. QED BY <1>1, <1>2, <1>3 DEF IInv

(* ... and most of its steps on its own state alone.                       *)
LEMMA BeatAlone ==
  ASSUME IInv, up, UNCHANGED <<gw, lease, pool, up, op, rs, auth, redial, push, tried, uptime>>,
         beat' \in Beats, beat'.at # "saw", rec' \in Counts, Cooled'
  PROVE  IInv'
<1>1. lease' \in Lease \cup {NoLease} /\ (Startup' => Startup)
  BY DEF IInv, TypeOK, Startup
<1>2. pool' \in [Role -> {"dead", "bare", "good"}] /\ GoodIsIn' /\ auth' \in States \cup {"none"}
  BY DEF IInv, TypeOK, Covering, GoodIsIn
<1>3. QED BY <1>1, <1>2, BeatStep

LEMMA BeatIsUp == ASSUME IInv, beat.at # "idle" PROVE up
BY DEF IInv, Forgotten, Idle

LEMMA BeatTyped == IInv => beat \in Beats /\ rec \in Counts /\ uptime \in 0..MaxUp
BY DEF IInv, TypeOK, Beats, Counts

(* While the heartbeat goes on to a guarded place or back from it.         *)
LEMMA StaysCooled ==
  ASSUME IInv, UNCHANGED <<uptime, rec>>, Guarded(beat'.at) => Guarded(beat.at)
  PROVE  Cooled'
<1>1. rec.fails \in Nat /\ uptime + rec.cool \in Nat
  BY BeatTyped, Times, Products DEF Counts
<1>2. rec.fails * Cooldown \in Nat /\ (rec.fails + 1) * Cooldown = rec.fails * Cooldown + Cooldown
  BY <1>1, Products
<1>3. QED BY <1>1, <1>2, Times DEF IInv, Cooled

LEMMA StartsOver ==
  ASSUME IInv, uptime' = uptime, rec' \in Counts, rec'.fails = 0, ~Guarded(beat'.at)
  PROVE  Cooled'
<1>1. uptime + rec'.cool >= 0
  BY BeatTyped, Times, Products DEF Counts
<1>2. QED BY <1>1, Products DEF Cooled

LEMMA Beat_IInv == ASSUME IInv, Beat PROVE IInv'
<1>1. /\ up /\ beat.at = "idle"
      /\ UNCHANGED <<gw, lease, pool, up, op, rs, auth, rec, redial, push, tried, uptime>>
      /\ beat' = [at |-> "saw", saw |-> Derived, stuck |-> {}]
  BY DEF Beat, Idle
<1>2. Derived \in States /\ (Derived = "authenticated" => gw = "in")
  BY DEF Derived, States, IInv, Covering, GoodIsIn
<1>3. beat' \in Beats /\ beat'.at = "saw" /\ beat'.saw = Derived
  BY <1>1, <1>2 DEF Beats
<1>4. Cooled'
  BY <1>1, <1>3, StaysCooled DEF Guarded
<1>5. lease' \in Lease \cup {NoLease} /\ (Startup' => Startup)
  BY <1>1 DEF IInv, TypeOK, Startup
<1>6. /\ pool' \in [Role -> {"dead", "bare", "good"}] /\ GoodIsIn'
      /\ auth' \in States \cup {"none"} /\ rec' \in Counts
  BY <1>1 DEF IInv, TypeOK, Covering, GoodIsIn, Counts
<1>7. QED BY <1>1, <1>2, <1>3, <1>4, <1>5, <1>6, BeatStep

LEMMA Transition_IInv == ASSUME IInv, Transition PROVE IInv'
<1>1. /\ beat.at = "saw" /\ auth' = beat.saw
      /\ UNCHANGED <<gw, pool, up, op, rs, rec, redial, push, tried, uptime>>
      /\ up
  BY BeatIsUp DEF Transition
<1>2. beat' \in Beats /\ beat'.at \in {"all", "guard"}
  BY BeatTyped DEF Transition, Beats
<1>3. lease' \in Lease \cup {NoLease} /\ (Startup' => Startup)
  BY ReleaseOwn_lease DEF Transition, IInv
<1>4. lease' # lease => push # "leased"
  <2>1. lease' # lease => Startup /\ beat.saw = "authenticated"
    BY ReleaseOwn_lease DEF Transition, IInv, EnsureIfEdge, Edge, Startup
  <2>2. QED BY <1>1, <2>1 DEF IInv, Covering, UnseenYet
<1>5. Cooled'
  BY <1>1, <1>2, StaysCooled DEF Guarded
<1>6. /\ pool' \in [Role -> {"dead", "bare", "good"}] /\ GoodIsIn'
      /\ auth' \in States \cup {"none"} /\ rec' \in Counts
  BY <1>1, BeatTyped DEF IInv, TypeOK, Covering, GoodIsIn, Counts, Beats
<1>7. QED BY <1>1, <1>2, <1>3, <1>4, <1>5, <1>6, BeatStep

(* A redial of the heartbeat.                                              *)
LEMMA BeatDials ==
  ASSUME IInv, beat.at # "idle", NEW roles \in SUBSET Role, pool' \in Dialled(roles),
         UNCHANGED <<gw, lease, up, op, rs, auth, redial, push, tried, uptime>>,
         beat' \in Beats, beat'.at # "saw", rec' \in Counts, Cooled'
  PROVE  IInv'
<1>1. up
  BY BeatIsUp
<1>2. pool' \in [Role -> {"dead", "bare", "good"}] /\ GoodIsIn'
  BY Dialled_good DEF IInv, Covering
<1>3. lease' \in Lease \cup {NoLease} /\ (Startup' => Startup) /\ auth' \in States \cup {"none"}
  BY DEF IInv, TypeOK, Startup
<1>4. QED BY <1>1, <1>2, <1>3, BeatStep

LEMMA AllRedialed_IInv == ASSUME IInv, AllRedialed PROVE IInv'
<1>1. /\ beat.at = "all" /\ pool' \in Dialled(Role)
      /\ UNCHANGED <<gw, lease, up, op, rs, auth, rec, redial, push, tried, uptime>>
  BY DEF AllRedialed
<1>2. beat' \in Beats /\ beat'.at = "guard" /\ rec' \in Counts
  BY BeatTyped DEF AllRedialed, Beats
<1>3. Cooled'
  BY <1>1, <1>2, StaysCooled DEF Guarded
<1>4. QED BY <1>1, <1>2, <1>3, BeatDials

LEMMA Idle_Beats == Idle \in Beats /\ Idle.at = "idle"
BY DEF Idle, Beats, States

LEMMA Guard_IInv == ASSUME IInv, Guard PROVE IInv'
<1>1. /\ beat.at = "guard"
      /\ UNCHANGED <<gw, lease, pool, up, op, rs, auth, redial, push, tried, uptime>>
      /\ up
  BY BeatIsUp DEF Guard
<1>2. CASE beat' = Idle /\ UNCHANGED rec
  <2>1. Cooled'
    BY <1>1, <1>2, Idle_Beats, StaysCooled DEF Guarded
  <2>2. QED BY <1>1, <1>2, <2>1, Idle_Beats, BeatTyped, BeatAlone
<1>3. CASE /\ rec.cool = 0
           /\ beat' = [beat EXCEPT !.at = "probe", !.stuck = Stuck]
           /\ rec' = [rec EXCEPT !.cool = Cooldown]
  <2>1. beat' \in Beats /\ beat'.at = "probe"
    BY <1>3, BeatTyped DEF Beats, Stuck
  <2>2. rec' \in Counts /\ rec'.fails = rec.fails /\ rec'.cool = Cooldown
    BY <1>3, BeatTyped, Times DEF Counts
  <2>3. uptime >= rec.fails * Cooldown
    BY <1>1, <1>3, BeatTyped, Products DEF IInv, Cooled, Guarded
  <2>4. rec.fails \in Nat /\ rec.fails * Cooldown \in Nat /\ uptime \in Nat
    BY BeatTyped, Times, Products DEF Counts
  <2>5. uptime' + rec'.cool >= (rec'.fails + 1) * Cooldown
    <3>1. (rec.fails + 1) * Cooldown = rec.fails * Cooldown + Cooldown
      BY <2>4, Products
    <3>2. QED BY <1>1, <2>2, <2>3, <2>4, <3>1, Times
  <2>6. Cooled'
    BY <2>1, <2>5 DEF Cooled, Guarded
  <2>7. QED BY <1>1, <2>1, <2>2, <2>6, BeatAlone
<1>4. CASE beat' = Idle /\ rec' = [fails |-> 0, cool |-> Cooldown]
  <2>1. rec' \in Counts /\ rec'.fails = 0
    BY <1>4, Times DEF Counts
  <2>2. Cooled'
    BY <1>1, <1>4, <2>1, Idle_Beats, StartsOver DEF Guarded
  <2>3. QED BY <1>1, <1>4, <2>1, <2>2, Idle_Beats, BeatAlone
<1>5. rec.cool > 0 \/ rec.cool = 0
  BY BeatTyped, Times DEF Counts
<1>6. QED BY <1>2, <1>3, <1>4, <1>5 DEF Guard, Dated

LEMMA Recount_cooled ==
  ASSUME IInv, NEW stuck, Recount(stuck), uptime' = uptime, Guarded(beat.at)
  PROVE  beat' \in Beats /\ beat'.at # "saw" /\ rec' \in Counts /\ Cooled'
<1>1. CASE beat' = Idle /\ rec' = [rec EXCEPT !.fails = 0]
  <2>1. rec' \in Counts /\ rec'.fails = 0
    BY <1>1, BeatTyped, Times DEF Counts
  <2>2. QED BY <1>1, <2>1, Idle_Beats, StartsOver DEF Guarded
<1>2. CASE beat' = [beat EXCEPT !.at = "second"] /\ rec' = rec
  <2>1. beat' \in Beats /\ beat'.at = "second"
    BY <1>2, BeatTyped DEF Beats
  <2>2. QED BY <1>2, <2>1, BeatTyped, StaysCooled
<1>3. QED BY <1>1, <1>2 DEF Recount

LEMMA Probed_IInv == ASSUME IInv, NEW b \in BOOLEAN, Probed(b) PROVE IInv'
<1>1. /\ beat.at = "probe" /\ Guarded(beat.at)
      /\ UNCHANGED <<gw, lease, pool, up, op, rs, auth, redial, push, tried, uptime>>
      /\ up
  BY BeatIsUp DEF Probed, Guarded
<1>2. CASE beat' = [beat EXCEPT !.at = "roles"] /\ UNCHANGED rec
  <2>1. beat' \in Beats /\ beat'.at = "roles"
    BY <1>2, BeatTyped DEF Beats
  <2>2. Cooled'
    BY <1>1, <1>2, StaysCooled
  <2>3. QED BY <1>1, <1>2, <2>1, <2>2, BeatTyped, BeatAlone
<1>3. CASE Recount(Stuck)
  <2>1. beat' \in Beats /\ beat'.at # "saw" /\ rec' \in Counts /\ Cooled'
    BY <1>1, <1>3, Recount_cooled
  <2>2. QED BY <1>1, <2>1, BeatAlone
<1>4. QED BY <1>2, <1>3 DEF Probed

LEMMA RolesRedialed_IInv == ASSUME IInv, RolesRedialed PROVE IInv'
<1>1. /\ beat.at = "roles" /\ Guarded(beat.at)
      /\ pool' \in Dialled(beat.stuck) /\ beat.stuck \in SUBSET Role
      /\ UNCHANGED <<gw, lease, up, op, rs, auth, redial, push, tried, uptime>>
  BY BeatTyped DEF RolesRedialed, Guarded, Beats
<1>2. beat' \in Beats /\ beat'.at # "saw" /\ rec' \in Counts /\ Cooled'
  <2>1. CASE beat' = Idle /\ rec' = [rec EXCEPT !.fails = 0]
    <3>1. rec' \in Counts /\ rec'.fails = 0
      BY <2>1, BeatTyped, Times DEF Counts
    <3>2. QED BY <1>1, <2>1, <3>1, Idle_Beats, StartsOver DEF Guarded
  <2>2. CASE Recount({r \in Role : pool'[r] = "dead"})
    BY <1>1, <2>2, Recount_cooled
  <2>3. QED BY <2>1, <2>2 DEF RolesRedialed
<1>3. QED BY <1>1, <1>2, BeatDials

LEMMA RolesTimeout_IInv == ASSUME IInv, RolesTimeout PROVE IInv'
<1>1. /\ beat.at = "roles" /\ beat' = Idle
      /\ pool' \in Dialled(beat.stuck) /\ beat.stuck \in SUBSET Role
      /\ UNCHANGED <<gw, lease, up, op, rs, auth, rec, redial, push, tried, uptime>>
  BY BeatTyped DEF RolesTimeout, Beats
<1>2. Cooled'
  BY <1>1, Idle_Beats, StaysCooled DEF Guarded
<1>3. QED BY <1>1, <1>2, Idle_Beats, BeatTyped, BeatDials

LEMMA SecondProbed_IInv == ASSUME IInv, NEW b \in BOOLEAN, SecondProbed(b) PROVE IInv'
<1>1. /\ beat.at = "second" /\ Guarded(beat.at) /\ beat' = Idle
      /\ UNCHANGED <<gw, lease, pool, up, op, rs, auth, redial, push, tried, uptime>>
      /\ up
  BY BeatIsUp DEF SecondProbed, Guarded
<1>2. CASE ~Enough /\ rec' = [rec EXCEPT !.fails = @ + 1]
  <2>1. rec.fails + 1 \in 0..(MaxFails - 1) /\ rec.cool \in 0..Cooldown
    BY <1>2, BeatTyped, Times DEF Enough, Counts
  <2>2. rec' \in Counts /\ rec'.fails = rec.fails + 1 /\ rec'.cool = rec.cool
    BY <1>2, <2>1, BeatTyped DEF Counts
  <2>3. Cooled'
    BY <1>1, <2>2, Idle_Beats DEF IInv, Cooled, Guarded
  <2>4. QED BY <1>1, <2>2, <2>3, Idle_Beats, BeatAlone
<1>3. CASE rec' = rec
  <2>1. Cooled'
    BY <1>1, <1>3, Idle_Beats, StaysCooled DEF Guarded
  <2>2. QED BY <1>1, <1>3, <2>1, Idle_Beats, BeatTyped, BeatAlone
<1>4. QED BY <1>2, <1>3 DEF SecondProbed
-----------------------------------------------------------------------------
(* The surroundings leave the process's memory alone.                      *)
LEMMA Outside ==
  ASSUME IInv, UNCHANGED <<up, memory, tried, uptime>>,
         gw' \in {"down", "boot", "prompt", "in"},
         lease' \in Lease \cup {NoLease}, Startup' => Startup,
         pool' \in [Role -> {"dead", "bare", "good"}], GoodIsIn',
         push' \in {"none", "leased", "voided"}, Pending', PushIsCovered',
         Startup' /\ push' = "leased" => push = "leased"
  PROVE  IInv'
<1>1. UNCHANGED <<up, op, rs, auth, rec, beat, redial, tried, uptime>>
  BY DEF memory
<1>2. TypeOK'
  BY <1>1 DEF IInv, TypeOK
<1>3. Forgotten' /\ Counting' /\ Cooled'
  BY <1>1 DEF IInv, Forgotten, Counting, Cooled
<1>4. Covering'
  BY <1>1 DEF IInv, Covering, CycleIsOwn, UnseenYet
<1>5. QED BY <1>2, <1>3, <1>4 DEF IInv

LEMMA Gateway_IInv == ASSUME IInv, Boots \/ Approved \/ Lost PROVE IInv'
<1>1. /\ UNCHANGED <<lease, up, memory, tried, uptime>>
      /\ gw' \in {"down", "boot", "prompt", "in"}
      /\ pool' = pool \/ pool' = [r \in Role |-> "dead"]
      /\ push' = "none" \/ (push' = push /\ gw' = "prompt")
  BY DEF Boots, Approved, Lost
<1>2. GoodIsIn'
  BY DEF Boots, Approved, Lost, IInv, Covering, GoodIsIn, TypeOK
<1>3. lease' \in Lease \cup {NoLease} /\ (Startup' => Startup)
  BY <1>1 DEF IInv, TypeOK, Startup
<1>4. pool' \in [Role -> {"dead", "bare", "good"}] /\ push' \in {"none", "leased", "voided"}
  BY <1>1 DEF IInv, TypeOK
<1>5. Pending' /\ PushIsCovered' /\ (push' = "leased" => push = "leased")
  BY <1>1 DEF IInv, Covering, Pending, PushIsCovered
<1>6. QED BY <1>1, <1>2, <1>3, <1>4, <1>5, Outside

LEMMA Drop_IInv == ASSUME IInv, NEW r \in Role, Drop(r) PROVE IInv'
<1>1. /\ UNCHANGED <<gw, lease, up, memory, push, tried, uptime>>
      /\ pool' = [pool EXCEPT ![r] = "dead"]
  BY DEF Drop
<1>2. pool' \in [Role -> {"dead", "bare", "good"}] /\ GoodIsIn'
  BY <1>1 DEF IInv, TypeOK, Covering, GoodIsIn
<1>3. /\ lease' \in Lease \cup {NoLease} /\ (Startup' => Startup)
      /\ gw' \in {"down", "boot", "prompt", "in"} /\ push' \in {"none", "leased", "voided"}
      /\ Pending' /\ PushIsCovered' /\ (push' = "leased" => push = "leased")
  BY <1>1 DEF IInv, TypeOK, Startup, Covering, Pending, PushIsCovered
<1>4. QED BY <1>1, <1>2, <1>3, Outside

LEMMA OtherCycles_IInv == ASSUME IInv, OtherCycles PROVE IInv'
<1>1. /\ lease' = [holder |-> "other", age |-> 0] /\ push' = "leased" /\ gw' = "boot"
      /\ pool' = [r \in Role |-> "dead"] /\ UNCHANGED <<up, memory, tried, uptime>>
  BY DEF OtherCycles, TakeLease, Cycled
<1>2. lease' \in Lease /\ lease' # NoLease /\ ~Startup'
  BY <1>1, LeaseAssumption, Times DEF Lease, Startup
<1>3. Pending' /\ PushIsCovered' /\ GoodIsIn'
  BY <1>1, <1>2 DEF Pending, PushIsCovered, GoodIsIn
<1>4. QED BY <1>1, <1>2, <1>3, Outside

LEMMA OtherReleases_IInv == ASSUME IInv, OtherReleases PROVE IInv'
<1>1. /\ gw = "in" /\ lease' = NoLease
      /\ UNCHANGED <<gw, pool, up, memory, push, tried, uptime>>
  BY DEF OtherReleases
<1>2. /\ gw' \in {"down", "boot", "prompt", "in"} /\ push' \in {"none", "leased", "voided"}
      /\ pool' \in [Role -> {"dead", "bare", "good"}] /\ ~Startup'
      /\ GoodIsIn' /\ Pending' /\ PushIsCovered'
  BY <1>1 DEF IInv, TypeOK, Startup, Covering, GoodIsIn, Pending, PushIsCovered
<1>3. QED BY <1>1, <1>2, Outside

LEMMA Tick_IInv == ASSUME IInv, Tick PROVE IInv'
<1>1. UNCHANGED <<gw, pool, up, auth, beat, redial, push>>
  BY DEF Tick
<1>2. /\ op' \in [at : {"free", "cycle", "poll", "all"}, age : 0..Span]
      /\ op'.at = op.at
      /\ op' = op \/ op'.age = op.age + 1
      /\ op = Free => op' = Free
  BY Times DEF Tick, IInv, TypeOK, Free
<1>3. /\ lease' \in Lease \cup {NoLease} /\ (Startup' => Startup)
      /\ lease # NoLease => lease' # NoLease
  <2>1. CASE lease = NoLease
    BY <2>1 DEF Tick, Startup
  <2>2. CASE lease # NoLease
    <3>1. lease \in Lease /\ lease' = [lease EXCEPT !.age = Lesser(@ + 1, TTL)]
      BY <2>2 DEF Tick, IInv, TypeOK
    <3>2. Lesser(lease.age + 1, TTL) \in 0..TTL
      BY <3>1, Times DEF Lease, Lesser
    <3> DEFINE m == Lesser(lease.age + 1, TTL)
    <3>3. lease' = [lease EXCEPT !.age = m]
      BY <3>1
    <3> HIDE DEF m
    <3>4. lease' \in Lease /\ lease'.holder = lease.holder
      BY <3>1, <3>2, <3>3 DEF Lease, m
    <3>5. QED BY <2>2, <3>4, LeaseAssumption DEF Startup
  <2>3. QED BY <2>1, <2>2
<1>4. /\ rs' \in [count : 0..Steps, wait : 0..Longest]
      /\ rs'.count = rs.count /\ rs'.wait = Minus(rs.wait, 1)
  <2>1. rs \in [count : 0..Steps, wait : 0..Longest] /\ rs' = [rs EXCEPT !.wait = Minus(@, 1)]
    BY DEF Tick, IInv, TypeOK
  <2>2. Minus(rs.wait, 1) \in 0..Longest
    BY <2>1, Times DEF Minus
  <2>3. QED BY <2>1, <2>2
<1>5. rec' \in Counts /\ rec'.fails = rec.fails /\ rec'.cool = Minus(rec.cool, 1)
  <2>1. rec \in Counts /\ rec' = [rec EXCEPT !.cool = Minus(@, 1)]
    BY BeatTyped DEF Tick
  <2>2. Minus(rec.cool, 1) \in 0..Cooldown
    BY <2>1, Times DEF Minus, Counts
  <2>3. QED BY <2>1, <2>2 DEF Counts
<1>6. /\ tried' \in [fails : 0..Steps, since : 0..Longest]
      /\ tried'.fails = tried.fails /\ tried'.since = Lesser(tried.since + 1, Longest)
  <2>1. /\ tried \in [fails : 0..Steps, since : 0..Longest]
        /\ tried' = [tried EXCEPT !.since = Lesser(@ + 1, Longest)]
    BY DEF Tick, IInv, TypeOK
  <2>2. Lesser(tried.since + 1, Longest) \in 0..Longest
    BY <2>1, Times DEF Lesser
  <2>3. QED BY <2>1, <2>2
<1>7. uptime \in 0..MaxUp /\ uptime' = IF up THEN Lesser(uptime + 1, MaxUp) ELSE uptime
  BY BeatTyped DEF Tick
<1>8. uptime' \in 0..MaxUp
  BY <1>7, Products DEF Lesser
<1>9. TypeOK'
  BY <1>1, <1>2, <1>3, <1>4, <1>5, <1>6, <1>8 DEF IInv, TypeOK, Counts
<1>10. Forgotten'
  <2>1. CASE up
    BY <1>1, <2>1 DEF Forgotten
  <2>2. CASE ~up
    <3>1. rec = [fails |-> 0, cool |-> 0] /\ op = Free /\ beat = Idle
      BY <2>2 DEF IInv, Forgotten
    <3>2. Minus(rec.cool, 1) = 0
      BY <3>1 DEF Minus
    <3>3. rec' = [fails |-> 0, cool |-> 0]
      BY <3>1, <3>2 DEF Tick
    <3>4. QED BY <1>1, <1>2, <3>1, <3>3 DEF Forgotten
  <2>3. QED BY <2>1, <2>2
<1>11. Covering'
  BY <1>1, <1>2, <1>3 DEF IInv, Covering, Pending, GoodIsIn, CycleIsOwn, UnseenYet, PushIsCovered
<1>12. Counting'
  <2>1. rs'.count = tried'.fails
    BY <1>4, <1>6 DEF IInv, Counting
  <2>2. op.at \in {"cycle", "poll"} => tried'.since >= Lesser(op'.age, Longest)
    BY <1>2, <1>6, Times DEF IInv, TypeOK, Counting, Lesser
  <2>3. op.at \in {"free", "all"} /\ tried.fails > 0 =>
          rs'.wait + tried'.since >= Ladder[tried.fails]
    <3>1. SUFFICES ASSUME op.at \in {"free", "all"}, tried.fails > 0
                   PROVE  rs'.wait + tried'.since >= Ladder[tried.fails]
      OBVIOUS
    <3>2. tried.fails \in 1..Steps
      BY <3>1, Times DEF IInv, TypeOK
    <3>3. Ladder[tried.fails] \in Nat /\ Ladder[tried.fails] <= Longest /\ Longest \in Nat
      BY <3>2, Times
    <3>4. rs.wait + tried.since >= Ladder[tried.fails] /\ rs.wait \in Nat /\ tried.since \in Nat
      BY <3>1 DEF IInv, TypeOK, Counting
    <3>5. QED BY <1>4, <1>6, <3>3, <3>4 DEF Minus, Lesser
  <2>4. QED BY <1>2, <1>6, <2>1, <2>2, <2>3 DEF Counting
<1>13. Cooled'
  <2> DEFINE k == IF Guarded(beat.at) THEN rec.fails + 1 ELSE rec.fails
  <2>1. k \in 0..MaxFails /\ rec.cool \in Nat
    BY BeatTyped, Times DEF Counts
  <2>2. uptime + rec.cool >= k * Cooldown /\ k * Cooldown \in Nat /\ k * Cooldown <= MaxUp
    <3>1. uptime + rec.cool >= k * Cooldown
      BY DEF IInv, Cooled
    <3> HIDE DEF k
    <3>2. QED BY <2>1, <3>1, Products, Times
  <2>3. up \/ (rec.cool = 0 /\ rec'.cool = 0)
    BY <1>5 DEF IInv, Forgotten, Minus
  <2>4. uptime' + rec'.cool >= k * Cooldown
    <3> HIDE DEF k
    <3> DEFINE q == k * Cooldown
    <3>1. q \in Nat /\ q <= MaxUp /\ uptime + rec.cool >= q /\ MaxUp \in Nat
      BY <2>2, Products
    <3> HIDE DEF q
    <3>2. uptime' + rec'.cool >= q
      BY <1>5, <1>7, <2>1, <2>3, <3>1 DEF Minus, Lesser
    <3>3. QED BY <3>2 DEF q
  <2>5. QED BY <1>1, <1>5, <2>4 DEF Cooled
<1>14. QED BY <1>9, <1>10, <1>11, <1>12, <1>13 DEF IInv

LEMMA Step_IInv == IInv /\ [Next]_vars => IInv'
<1> SUFFICES ASSUME IInv, [Next]_vars PROVE IInv' OBVIOUS
<1>1. CASE UNCHANGED vars
  BY <1>1 DEF vars, IInv, TypeOK, Forgotten, Covering, Pending, GoodIsIn, CycleIsOwn, UnseenYet,
              PushIsCovered, Startup, Counting, Cooled
<1>2. CASE Restarting
  BY <1>2, RestartAsked_IInv, CycleGateway_IInv, Confirmed_IInv, Unconfirmed_IInv, OpRedialed_IInv,
     PoolDialed_IInv, Reset_IInv, StartUp_IInv DEF Restarting
<1>3. CASE Beating
  <2>1. Escalate => Gone
    BY DEF Escalate
  <2>2. QED BY <1>3, <2>1, Beat_IInv, Transition_IInv, AllRedialed_IInv, Guard_IInv, Probed_IInv,
           SecondProbed_IInv, RolesRedialed_IInv, RolesTimeout_IInv, Gone_IInv DEF Beating
<1>4. CASE Surroundings
  <2>1. Dies => Gone
    BY DEF Dies
  <2>2. QED BY <1>4, <2>1, Gone_IInv, Gateway_IInv, OtherCycles_IInv, OtherReleases_IInv,
           Tick_IInv, Drop_IInv DEF Surroundings
<1>5. QED BY <1>1, <1>2, <1>3, <1>4 DEF Next

(* The strengthening the results below rest on: the process's count of its *)
(* attempts and cooldowns agrees with the history of the Gateway, and a    *)
(* push and the lease that covers it go together.                          *)
THEOREM Inductive == Spec => []IInv
BY Init_IInv, Step_IInv, PTL DEF Spec

(* The variables keep their types: the ladder is never left, the failures  *)
(* of a recovery stay below the limit.                                     *)
THEOREM Typing == Spec => []TypeOK
<1>1. IInv => TypeOK
  BY DEF IInv
<1>2. QED BY Inductive, <1>1, PTL

(* The push of a cycle is pending only under a lease, whatever restarts,   *)
(* heartbeats and other components give back (ib_gateway.py:1186-1191).    *)
THEOREM PushCovered == Spec => []PushIsCovered
<1>1. IInv => PushIsCovered
  BY DEF IInv, Covering
<1>2. QED BY Inductive, <1>1, PTL

(* Restarts that fail are spaced by the ladder, also when they take longer *)
(* than their rung, on any ladder that does not decrease                   *)
(* (ib_gateway.py:96-99, 236-238).                                         *)
THEOREM Spaced == Spec => AttemptsSpaced
<1>1. ASSUME IInv, [Next]_vars, op.at = "free", op'.at = "cycle", tried.fails > 0
      PROVE  tried.since >= Ladder[tried.fails]
  <2>1. rs.wait = 0
    <3>1. CASE RestartAsked
      BY <3>1 DEF RestartAsked
    <3>2. CASE Restarting /\ ~RestartAsked
      BY <1>1, <3>2 DEF Restarting, CycleGateway, Confirmed, Unconfirmed, OpRedialed, PoolDialed,
                        Reset, StartUp, Free
    <3>3. CASE Beating
      BY <1>1, <3>3 DEF Beating, Beat, Transition, AllRedialed, Guard, Probed, SecondProbed,
                        RolesRedialed, RolesTimeout, Escalate, Gone, Blank, Free
    <3>4. CASE Surroundings /\ ~Tick
      BY <1>1, <3>4 DEF Surroundings, Dies, Gone, Blank, Boots, Approved, Lost, OtherCycles,
                        OtherReleases, Drop, memory, Free
    <3>5. CASE Tick
      BY <1>1, <3>5 DEF Tick, IInv, TypeOK
    <3>6. CASE UNCHANGED vars
      BY <1>1, <3>6 DEF vars
    <3>7. QED BY <1>1, <3>1, <3>2, <3>3, <3>4, <3>5, <3>6 DEF Next
  <2>2. rs.wait + tried.since >= Ladder[tried.fails] /\ tried.since \in Nat
    BY <1>1 DEF IInv, Counting, TypeOK
  <2>3. QED BY <2>1, <2>2
<1>2. IInv /\ [Next]_vars =>
        [ (op.at = "free" /\ op'.at = "cycle" /\ tried.fails > 0)
            => tried.since >= Ladder[tried.fails] ]_vars
  BY <1>1
<1>3. QED BY Inductive, <1>2, PTL DEF Spec, AttemptsSpaced

(* The process gives itself up only after MaxFails - 1 cooldowns, however  *)
(* its heartbeats, probes and restarts interleave (server.py:333-362).     *)
THEOREM SlowToEscalate == Spec => EscalationIsSlow
<1>1. ASSUME IInv, Escalate PROVE uptime >= (MaxFails - 1) * Cooldown
  <2>1. /\ rec.fails = MaxFails - 1 /\ rec.cool \in 0..Cooldown /\ rec.fails \in Nat
        /\ uptime \in Nat
    BY <1>1, BeatTyped, Times, Products DEF Escalate, Enough, Counts
  <2>2. uptime + rec.cool >= (rec.fails + 1) * Cooldown
    BY <1>1 DEF IInv, Cooled, Escalate, Guarded
  <2>3. /\ (rec.fails + 1) * Cooldown = rec.fails * Cooldown + Cooldown
        /\ rec.fails * Cooldown \in Nat
    BY <2>1, Products
  <2> DEFINE q == rec.fails * Cooldown
  <2>4. q \in Nat /\ uptime + rec.cool >= q + Cooldown
    BY <2>2, <2>3
  <2> HIDE DEF q
  <2>5. uptime >= q
    BY <2>1, <2>4, Times
  <2>6. QED BY <2>1, <2>5 DEF q
<1>2. IInv => [ Escalate => uptime >= (MaxFails - 1) * Cooldown ]_vars
  BY <1>1
<1>3. QED BY Inductive, <1>2, PTL DEF EscalationIsSlow
=============================================================================
