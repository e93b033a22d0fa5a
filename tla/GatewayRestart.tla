--------------------------- MODULE GatewayRestart ---------------------------
(***************************************************************************)
(* The Gateway lifecycle inside FastAPI in docker mode:                    *)
(* scripts/api/ib_gateway.py, with the heartbeat of scripts/api/server.py  *)
(* that brings the connection pool back.                                   *)
(*                                                                         *)
(* A restart passes two gates, this process's backoff and the 2FA push     *)
(* lease that all components share, cycles the container, and asks the     *)
(* Gateway for its accounts; only an answer clears the backoff.  The       *)
(* heartbeat watches for the authentication edge and, since the            *)
(* authentication state is read off the pool itself, also probes the       *)
(* Gateway directly, redials the roles that are disconnected, and as a     *)
(* last resort exits the process.  The process forgets all but the lease.  *)
(*                                                                         *)
(* Time is kept as ages and remaining waits, so that a run never ends.     *)
(***************************************************************************)
EXTENDS Naturals, Sequences, FiniteSets

CONSTANTS
  Role,      \* POOL_ROLES
  Ladder,    \* BACKOFF_LADDER_SECS, in clock units
  TTL,       \* DEFAULT_LOCK_TTL_SECS, in clock units
  Grace,     \* GATEWAY_DOWN_GRACE_SECS, in clock units
  Span,      \* bound: the longest restart, in clock units
  Cooldown,  \* POOL_RECOVERY_COOLDOWN_SECS, in clock units
  MaxFails,  \* POOL_RECOVERY_MAX_BEFORE_RESTART
  NoLease

ASSUME TimingAssumption ==
  /\ Ladder \in Seq(Nat) /\ Len(Ladder) > 0
  /\ \A i, j \in 1..Len(Ladder) : i <= j => Ladder[i] <= Ladder[j]
  /\ TTL \in Nat /\ Grace \in Nat /\ Span \in Nat /\ Cooldown \in Nat
  /\ MaxFails \in Nat \ {0}

VARIABLES
  gw,     \* the Gateway: down, starting, at its 2FA prompt, or logged in
  lease,  \* the push lease: who took it and how long ago
  pool,   \* a role's connection: dead, bare (no accounts), or good
  up,     \* this process: starting, or serving
  op,     \* what the holder of _restart_lock is doing, and for how long
  rs,     \* _restart_state: attempt_count and the wait until the next attempt
  auth,   \* _auth_transition_state: previous_auth_state
  rec,    \* _pool_recovery_state: consecutive_failures, and its cooldown
  beat,   \* the heartbeat: where it is, what it read
  redial, \* whether a disconnect_all, connect_all is under way
  push,   \* history: who sent the pending push, if a cycle did
  tried,  \* history: failed attempts in a row, and the time since the last
  uptime  \* history: time since the process began, capped

vars == <<gw, lease, pool, up, op, rs, auth, rec, beat, redial, push, tried, uptime>>
memory == <<op, rs, auth, rec, beat, redial>>

Lesser(a, b)  == IF a < b THEN a ELSE b
Minus(a, b)   == IF a < b THEN 0 ELSE a - b
MaxUp == Cooldown * MaxFails
Steps == Len(Ladder)
Longest == Ladder[Steps]

Lease == [holder : {"restart", "ensure", "other"}, age : 0..TTL]
ASSUME LeaseAssumption == NoLease \notin Lease
States == {"unreachable", "awaiting_2fa", "authenticated"}

TypeOK ==
  /\ gw \in {"down", "boot", "prompt", "in"}
  /\ lease \in Lease \cup {NoLease}
  /\ pool \in [Role -> {"dead", "bare", "good"}]
  /\ up \in BOOLEAN
  /\ op \in [at : {"free", "cycle", "poll", "all"}, age : 0..Span]
  /\ rs \in [count : 0..Steps, wait : 0..Longest]
  /\ auth \in States \cup {"none"}
  /\ rec \in [fails : 0..(MaxFails - 1), cool : 0..Cooldown]
  /\ beat \in [at : {"idle", "saw", "all", "guard", "probe", "roles", "second"},
               saw : States, stuck : SUBSET Role]
  /\ redial \in BOOLEAN
  /\ push \in {"none", "leased", "voided"}
  /\ tried \in [fails : 0..Steps, since : 0..Longest]
  /\ uptime \in 0..MaxUp

Listening == gw \in {"prompt", "in"}
Stuck == {r \in Role : pool[r] = "dead"}
Idle  == [at |-> "idle", saw |-> "unreachable", stuck |-> {}]
Free  == [at |-> "free", age |-> 0]
Blank == /\ op' = Free /\ rs' = [count |-> 0, wait |-> 0]
         /\ auth' = "none" /\ rec' = [fails |-> 0, cool |-> 0]
         /\ beat' = Idle /\ redial' = FALSE
         /\ tried' = [fails |-> 0, since |-> 0] /\ uptime' = 0

Init ==
  /\ gw = "down" /\ lease = NoLease /\ pool = [r \in Role |-> "dead"]
  /\ up = FALSE /\ op = Free /\ rs = [count |-> 0, wait |-> 0]
  /\ auth = "none" /\ rec = [fails |-> 0, cool |-> 0]
  /\ beat = Idle /\ redial = FALSE
  /\ push = "none" /\ tried = [fails |-> 0, since |-> 0] /\ uptime = 0

-----------------------------------------------------------------------------
(* The lease, as PushLease has it: a new one displaces one that ran out or *)
(* one past its grace with nothing listening.                              *)

Grantable ==
  \/ lease = NoLease
  \/ lease # NoLease /\ lease.age >= TTL
  \/ lease # NoLease /\ lease.age >= Grace /\ ~Listening

TakeLease(h) == lease' = [holder |-> h, age |-> 0]

\* Mutated: a release that does not ask whose lease it is.
ReleaseAnyones(hs) == lease' = IF hs = {} THEN lease ELSE NoLease

ReleaseOwn(hs) ==
  lease' = IF lease # NoLease /\ lease.holder \in hs THEN NoLease ELSE lease

\* What dialling some roles of the pool can lead to.
Dialled(roles) ==
  {p \in [Role -> {"dead", "bare", "good"}] :
     \A r \in Role :
       IF r \notin roles THEN p[r] = pool[r]
       ELSE p[r] \in {"dead"} \cup (CASE gw = "in" -> {"good"}
                                      [] gw = "prompt" -> {"bare"}
                                      [] OTHER -> {})}

-----------------------------------------------------------------------------
(* restart_ib_gateway.                                                     *)

\* A call that meets either gate changes nothing.
RestartAsked ==
  /\ up /\ op.at = "free"
  /\ rs.wait = 0
  /\ Grantable
  /\ TakeLease("restart")
  /\ op' = [at |-> "cycle", age |-> 0]
  /\ tried' = [tried EXCEPT !.since = 0]
  /\ UNCHANGED <<gw, pool, up, rs, auth, rec, beat, redial, push, uptime>>

\* The container is cycled: what was connected is gone.
Cycled ==
  /\ gw' = "boot"
  /\ pool' = [r \in Role |-> "dead"]

\* docker compose restart, or up -d for a container that is not there.
CycleGateway ==
  /\ op.at = "cycle"
  /\ Cycled
  /\ op' = [op EXCEPT !.at = "poll"]
  /\ push' = IF lease = NoLease THEN "voided" ELSE "leased"
  /\ UNCHANGED <<lease, up, rs, auth, rec, beat, redial, tried, uptime>>

\* handle_auth_state_transition records what it is told, and on an edge
\* gives back the lease of the startup; reconnect_all follows if it must.
Edge(new) == auth = "awaiting_2fa" /\ new = "authenticated"
EnsureIfEdge(new) == IF Edge(new) THEN {"ensure"} ELSE {}

Confirmed(withPool) ==
  /\ op.at = "poll" /\ gw = "in"
  /\ rs' = [count |-> 0, wait |-> 0]
  /\ tried' = [fails |-> 0, since |-> 0]
  /\ ReleaseOwn({"restart"} \cup (IF withPool THEN EnsureIfEdge("authenticated") ELSE {}))
  /\ auth' = IF withPool THEN "authenticated" ELSE auth
  /\ op' = IF withPool /\ Edge("authenticated") /\ Stuck # {}
           THEN [op EXCEPT !.at = "all"] ELSE Free
  /\ redial' = TRUE
  /\ UNCHANGED <<gw, pool, up, rec, beat, push, uptime>>

\* Mutated: the delay is looked up before the attempt is counted.
CountedLate ==
  LET n == Lesser(rs.count + 1, Steps)
  IN  [count |-> n, wait |-> Minus(Ladder[IF rs.count = 0 THEN 1 ELSE rs.count], op.age)]

\* The next attempt is dated from the clock read before this one.
Counted ==
  LET n == Lesser(rs.count + 1, Steps)
  IN  [count |-> n, wait |-> Minus(Ladder[n], op.age)]

\* No accounts, no port, or a failed compose call: the lease stays.
Unconfirmed(new, restarted) ==
  /\ op.at \in {"cycle", "poll"}
  /\ new = "awaiting_2fa" => op.at = "poll" /\ Listening
  /\ restarted <=> op.at = "poll"
  /\ rs' = Counted
  /\ tried' = [tried EXCEPT !.fails = Lesser(@ + 1, Steps)]
  /\ auth' = new
  /\ op' = Free
  /\ redial' = (redial \/ restarted)
  /\ UNCHANGED <<gw, lease, pool, up, rec, beat, push, uptime>>

\* reconnect_all ends, or is cut short, under _restart_lock.
OpRedialed ==
  /\ op.at = "all"
  /\ pool' \in Dialled(Role)
  /\ op' = Free
  /\ UNCHANGED <<gw, lease, up, rs, auth, rec, beat, redial, push, tried, uptime>>

\* POST /ib/restart, or the lifespan's background task, dials the pool.
PoolDialed ==
  /\ redial
  /\ pool' \in Dialled(Role)
  /\ redial' = FALSE
  /\ UNCHANGED <<gw, lease, up, op, rs, auth, rec, beat, push, tried, uptime>>

\* POST /ib/reset-backoff, which takes no lock.
Reset ==
  /\ up
  /\ rs' = [count |-> 0, wait |-> 0]
  /\ tried' = [tried EXCEPT !.fails = 0]
  /\ lease' = NoLease
  /\ push' = IF push = "leased" THEN "voided" ELSE push
  /\ UNCHANGED <<gw, pool, up, op, auth, rec, beat, redial, uptime>>

-----------------------------------------------------------------------------
(* The start of the process: ensure_ib_gateway, then the pool.             *)

StartUp(starts) ==
  /\ ~up
  /\ starts => gw = "down" /\ Grantable
  /\ IF starts THEN /\ TakeLease("ensure") /\ gw' = "boot" /\ push' = "leased"
               ELSE UNCHANGED <<gw, lease, push>>
  /\ up' = TRUE /\ redial' = TRUE
  /\ UNCHANGED <<pool, op, rs, auth, rec, beat, tried, uptime>>

\* The process ends: a deploy, a crash, or its own last resort.
Gone ==
  /\ up' = FALSE /\ Blank
  /\ pool' = [r \in Role |-> "dead"]
  /\ UNCHANGED <<gw, lease, push>>

-----------------------------------------------------------------------------
(* The heartbeat.                                                          *)

\* _derive_auth_state over the pool and the port.
Derived ==
  IF ~Listening THEN "unreachable"
  ELSE IF \E r \in Role : pool[r] = "good" THEN "authenticated" ELSE "awaiting_2fa"

Beat ==
  /\ up /\ beat.at = "idle"
  /\ beat' = [Idle EXCEPT !.at = "saw", !.saw = Derived]
  /\ UNCHANGED <<gw, lease, pool, up, op, rs, auth, rec, redial, push, tried, uptime>>

Transition ==
  /\ beat.at = "saw"
  /\ auth' = beat.saw
  /\ ReleaseOwn(EnsureIfEdge(beat.saw))
  /\ beat' = [beat EXCEPT !.at = IF Edge(beat.saw) /\ Stuck # {} THEN "all" ELSE "guard"]
  /\ UNCHANGED <<gw, pool, up, op, rs, rec, redial, push, tried, uptime>>

AllRedialed ==
  /\ beat.at = "all"
  /\ pool' \in Dialled(Role)
  /\ beat' = [beat EXCEPT !.at = "guard"]
  /\ UNCHANGED <<gw, lease, up, op, rs, auth, rec, redial, push, tried, uptime>>

\* Mutated: the attempt is not dated.
Undated == rec.cool
Dated == Cooldown

\* Mutated: recovery only runs when the authentication edge was seen.
OnEdge == Stuck # {} /\ auth = "authenticated"
Worth == Stuck # {}

\* The cooldown, then recover_stuck_pool, which does nothing for a pool
\* that has no disconnected role.
Guard ==
  /\ beat.at = "guard"
  /\ IF rec.cool > 0 THEN beat' = Idle /\ UNCHANGED rec
     ELSE IF Worth
     THEN /\ beat' = [beat EXCEPT !.at = "probe", !.stuck = Stuck]
          /\ rec' = [rec EXCEPT !.cool = Dated]
     ELSE /\ beat' = Idle
          /\ rec' = [fails |-> 0, cool |-> Dated]
  /\ UNCHANGED <<gw, lease, pool, up, op, rs, auth, redial, push, tried, uptime>>

\* What is left to do after recover_stuck_pool returned False: with no
\* disconnected role the ladder starts over, else the Gateway is asked again.
Recount(stuck) ==
  /\ beat' = IF stuck = {} THEN Idle ELSE [beat EXCEPT !.at = "second"]
  /\ rec' = IF stuck = {} THEN [rec EXCEPT !.fails = 0] ELSE rec

Probed(in) ==
  /\ beat.at = "probe"
  /\ in => gw = "in"
  /\ IF in THEN beat' = [beat EXCEPT !.at = "roles"] /\ UNCHANGED rec
     ELSE Recount(Stuck)
  /\ UNCHANGED <<gw, lease, pool, up, op, rs, auth, redial, push, tried, uptime>>

\* reconnect_roles, for the roles that were stuck before the probe.
RolesRedialed ==
  /\ beat.at = "roles"
  /\ pool' \in Dialled(beat.stuck)
  /\ IF \A r \in beat.stuck : pool'[r] = "good"
     THEN beat' = Idle /\ rec' = [rec EXCEPT !.fails = 0]
     ELSE Recount({r \in Role : pool'[r] = "dead"})
  /\ UNCHANGED <<gw, lease, up, op, rs, auth, redial, push, tried, uptime>>

\* ... and past 30 s the tick ends with an error that counts for nothing.
RolesTimeout ==
  /\ beat.at = "roles"
  /\ pool' \in Dialled(beat.stuck)
  /\ beat' = Idle
  /\ UNCHANGED <<gw, lease, up, op, rs, auth, rec, redial, push, tried, uptime>>

\* Mutated: one failure too many is waited for.
EnoughLate == rec.fails + 1 > MaxFails
Enough == rec.fails + 1 >= MaxFails

SecondProbed(in) ==
  /\ beat.at = "second"
  /\ in => gw = "in" /\ ~Enough
  /\ beat' = Idle
  /\ rec' = IF in THEN [rec EXCEPT !.fails = @ + 1] ELSE rec
  /\ UNCHANGED <<gw, lease, pool, up, op, rs, auth, redial, push, tried, uptime>>

\* _restart_radon_api_self.
Escalate ==
  /\ beat.at = "second" /\ gw = "in"
  /\ Enough
  /\ Gone

Dies == (up \/ op # Free) /\ Gone

-----------------------------------------------------------------------------
(* The surroundings.                                                       *)

\* The container comes up to its prompt, which sends the push, or dies.
Boots ==
  /\ gw = "boot"
  /\ gw' \in {"prompt", "down"}
  /\ push' = IF gw' = "down" THEN "none" ELSE push
  /\ UNCHANGED <<lease, pool, up, memory, tried, uptime>>

Approved ==
  /\ gw = "prompt" /\ gw' = "in" /\ push' = "none"
  /\ UNCHANGED <<lease, pool, up, memory, tried, uptime>>

\* The session or the container is lost, and the connections with it.
Lost ==
  /\ gw \in {"prompt", "in"} /\ gw' = "down" /\ push' = "none"
  /\ pool' = [r \in Role |-> "dead"]
  /\ UNCHANGED <<lease, up, memory, tried, uptime>>

Drop(r) ==
  /\ pool[r] # "dead"
  /\ pool' = [pool EXCEPT ![r] = "dead"]
  /\ UNCHANGED <<gw, lease, up, memory, push, tried, uptime>>

\* The watchdog or the helper: takes the lease and cycles the container,
\* and gives its lease back over a Gateway that is logged in.
OtherCycles ==
  /\ Grantable /\ TakeLease("other")
  /\ Cycled /\ push' = "leased"
  /\ UNCHANGED <<up, memory, tried, uptime>>

OtherReleases ==
  /\ gw = "in" /\ lease # NoLease /\ lease.holder = "other"
  /\ lease' = NoLease
  /\ UNCHANGED <<gw, pool, up, memory, push, tried, uptime>>

Tick ==
  /\ op # Free => op.age < Span
  /\ op' = IF op = Free THEN op ELSE [op EXCEPT !.age = @ + 1]
  /\ lease' = IF lease = NoLease THEN lease ELSE [lease EXCEPT !.age = Lesser(@ + 1, TTL)]
  /\ rs' = [rs EXCEPT !.wait = Minus(@, 1)]
  /\ rec' = [rec EXCEPT !.cool = Minus(@, 1)]
  /\ tried' = [tried EXCEPT !.since = Lesser(@ + 1, Longest)]
  /\ uptime' = IF up THEN Lesser(uptime + 1, MaxUp) ELSE uptime
  /\ UNCHANGED <<gw, pool, up, auth, beat, redial, push>>

Restarting ==
  \/ RestartAsked \/ CycleGateway \/ \E b \in BOOLEAN : Confirmed(b)
  \/ \E new \in States \ {"authenticated"}, b \in BOOLEAN : Unconfirmed(new, b)
  \/ OpRedialed \/ PoolDialed \/ Reset
  \/ \E b \in BOOLEAN : StartUp(b)

Beating ==
  \/ Beat \/ Transition \/ AllRedialed \/ Guard
  \/ \E b \in BOOLEAN : Probed(b) \/ SecondProbed(b)
  \/ RolesRedialed \/ RolesTimeout \/ Escalate

Surroundings ==
  \/ Dies \/ Boots \/ Approved \/ Lost \/ OtherCycles \/ OtherReleases \/ Tick
  \/ \E r \in Role : Drop(r)

Next == Restarting \/ Beating \/ Surroundings

Spec == Init /\ [][Next]_vars

AllGood == \A r \in Role : pool'[r] = "good"
OpEnds ==
  \/ CycleGateway \/ OpRedialed
  \/ \E b \in BOOLEAN : Confirmed(b)
  \/ \E new \in States \ {"authenticated"}, b \in BOOLEAN : Unconfirmed(new, b)

(* Clocks run, the process is restarted by systemd, the heartbeat loop and *)
(* a restart under way go on (all their awaits have timeouts); a probe or  *)
(* a dial of a Gateway that stays logged in succeeds sooner or later.      *)
Fairness ==
  /\ WF_vars(Tick) /\ WF_vars(\E b \in BOOLEAN : StartUp(b))
  /\ WF_vars(OpEnds) /\ WF_vars(Beating)
  /\ SF_vars(Probed(TRUE)) /\ SF_vars(RolesRedialed /\ beat'.at = "idle")
  /\ SF_vars(PoolDialed /\ AllGood)

FairSpec == Spec /\ Fairness

-----------------------------------------------------------------------------
(* Properties.                                                             *)

(* While the push of somebody's cycle is unanswered its lease stands, or   *)
(* one that displaced it, unless the operator reset it: neither a restart  *)
(* that succeeds nor an authentication edge gives back a lease that is not *)
(* its own (ib_gateway.py:1186-1191, 1551).                                *)
PushIsCovered == push = "leased" => lease # NoLease

(* After n failed attempts in a row the next one starts no sooner than the *)
(* n-th rung of the ladder after the last one did (ib_gateway.py:96-99).   *)
AttemptsSpaced ==
  [][ (op.at = "free" /\ op'.at = "cycle" /\ tried.fails > 0)
        => tried.since >= Ladder[tried.fails] ]_vars

(* The process does not exit over its pool before it has lived through the *)
(* cooldowns between MaxFails attempts (server.py:333-362).                *)
EscalationIsSlow ==
  [][ Escalate => uptime >= (MaxFails - 1) * Cooldown ]_vars

(* While the Gateway stays logged in, no role stays disconnected: although *)
(* the authentication state is read off the very pool that is stuck, the   *)
(* direct probe, a redial or a new process gets it back                    *)
(* (ib_gateway.py:1263-1296, server.py:347-399).                           *)
PoolComesBack ==
  \A r \in Role : (<>[](gw = "in")) => []<>(pool[r] # "dead")
=============================================================================
