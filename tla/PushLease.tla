----------------------------- MODULE PushLease -----------------------------
(***************************************************************************)
(* The cross-process IBKR 2FA push lease, scripts/utils/ib_2fa_lock.py.    *)
(*                                                                         *)
(* One lease file, shared by every component that can make the Gateway     *)
(* send a 2FA push, is read and replaced under an flock guard.  A lease    *)
(* blocks other pushes until it is released, runs out, or turns out to be  *)
(* orphaned: old enough, and with nothing listening on the Gateway port.   *)
(*                                                                         *)
(* Each call of the module is a process step sequence here: it reads the   *)
(* clock when it is made, waits for the guard, works under it, returns.    *)
(* The wait has no limit: the CLI passes no timeout to the flock.          *)
(* The clock moves, the file is damaged and processes die between any two  *)
(* of those steps; every probe of the Gateway port may go either way.      *)
(***************************************************************************)
EXTENDS Naturals

CONSTANTS
    Proc,        \* processes that import the module or run its CLI
    Holder,      \* component names written into a lease
    Unreadable,  \* the holder reported for a lease file that cannot be parsed
    AnyHolder,   \* release without expected_holder
    NoLease,     \* no lease file, and "nothing remembered"
    NoProc,      \* the guard is free
    Requests,    \* the <<operation, holder argument>> pairs components make
    TTL,         \* DEFAULT_LOCK_TTL_SECS, in clock units
    Grace,       \* GATEWAY_DOWN_GRACE_SECS, in clock units
    Probes,      \* ORPHAN_CONFIRM_PROBES
    MaxTime,     \* bound on the clock
    MaxGrants    \* bound on the leases ever granted

Ops == {"acquire", "check", "release", "cli_release", "consume"}

(* A lease file.  "stamp" stands for the sub-unit digits of acquired_at,   *)
(* which make the float of every grant distinct.                           *)
Lease == [holder: Holder \cup {Unreadable}, acquired: Nat, expires: Nat,
          stamp: Nat]

ASSUME TimingAssumption ==
    /\ TTL \in Nat \ {0} /\ Grace \in Nat /\ Probes \in Nat \ {0}
    /\ MaxTime \in Nat /\ MaxGrants \in Nat

ASSUME NameAssumption ==
    /\ Unreadable \notin Holder /\ AnyHolder \notin Holder
    /\ NoProc \notin Proc /\ NoLease \notin Lease

ASSUME RequestAssumption ==
    /\ Requests \subseteq Ops \X (Holder \cup {AnyHolder})
    /\ \A r \in Requests : r[1] \in {"acquire", "consume"} => r[2] \in Holder

VARIABLES
    lease,   \* the lease file
    marker,  \* the consumed-lease marker file
    guard,   \* the process holding the guard's flock exclusively
    call,    \* the call each process is in
    seenUp,  \* _orphan_seen_up, per process
    now,     \* wall clock
    grants,  \* history: leases granted so far
    cover,   \* history: the last granted lease, until someone releases it
    used     \* history: how often the lease of each stamp was consumed

vars == <<lease, marker, guard, call, seenUp, now, grants, cover, used>>

IdleCall == [pc |-> "idle", op |-> "check", who |-> AnyHolder, at |-> 0,
             got |-> NoLease, downs |-> 0]

Call == [pc: {"idle", "wait", "held", "judge"}, op: Ops,
         who: Holder \cup {AnyHolder}, at: Nat, got: Lease \cup {NoLease},
         downs: 0..Probes]

(* Mutated: a lease is told apart by its holder only.                      *)
IdentityByHolder(l) == l.holder
Identity(l) == <<l.holder, l.acquired>>

TypeOK ==
    /\ lease \in Lease \cup {NoLease}
    /\ marker \in Lease \cup {NoLease}
    /\ guard \in Proc \cup {NoProc}
    /\ call \in [Proc -> Call]
    /\ seenUp \in [Proc -> ((Holder \cup {Unreadable}) \X Nat) \cup {NoLease}]
    /\ now \in Nat
    /\ grants \in Nat
    /\ cover \in Lease \cup {NoLease}
    /\ used \in [1..MaxGrants -> Nat]

Init ==
    /\ lease = NoLease /\ marker = NoLease /\ cover = NoLease
    /\ guard = NoProc
    /\ call = [p \in Proc |-> IdleCall]
    /\ seenUp = [p \in Proc |-> NoLease]
    /\ now = 0 /\ grants = 0
    /\ used = [s \in 1..MaxGrants |-> 0]

-----------------------------------------------------------------------------
(* What a lease means to a call made at time t.                            *)

Expired(l, t) == t >= l.expires
Active(l, t) == l # NoLease /\ ~Expired(l, t)
(* Mutated: the grace ends one unit early.                                 *)
YoungShort(l, t) == t + 1 < l.acquired + Grace
Young(l, t) == t < l.acquired + Grace       \* now - acquired_at < Grace

-----------------------------------------------------------------------------
(* The calls.                                                              *)

(* A release reads no clock.                                               *)
NewCall(op, who) == [pc |-> "wait", op |-> op, who |-> who,
                     at |-> IF op = "release" THEN 0 ELSE now,
                     got |-> NoLease, downs |-> 0]

Begin(p, op, who) ==
    /\ call[p].pc = "idle"
    /\ call' = [call EXCEPT ![p] = NewCall(op, who)]
    /\ UNCHANGED <<lease, marker, guard, seenUp, now, grants, cover, used>>

(* GuardLockTimeout: the guard stayed busy until the caller's deadline.    *)
GuardTimeout(p) ==
    /\ call[p].pc = "wait"
    /\ guard # NoProc
    /\ call' = [call EXCEPT ![p] = IdleCall]
    /\ UNCHANGED <<lease, marker, guard, seenUp, now, grants, cover, used>>

(* acquire, release and consume keep the exclusive guard; check reads      *)
(* under the shared guard and drops it before it looks at what it read.    *)
Enter(p) ==
    /\ call[p].pc = "wait"
    /\ guard = NoProc
    /\ IF call[p].op \in {"check", "cli_release"}
       THEN /\ call' = [call EXCEPT ![p] = [call[p] EXCEPT !.pc = "judge", !.got = lease]]
            /\ UNCHANGED guard
       ELSE /\ call' = [call EXCEPT ![p] = [call[p] EXCEPT !.pc = "held", !.got = lease]]
            /\ guard' = p
    /\ UNCHANGED <<lease, marker, seenUp, now, grants, cover, used>>

Holds(p, op) == call[p].pc = "held" /\ call[p].op = op

Return(p) ==
    /\ call' = [call EXCEPT ![p] = IdleCall]
    /\ guard' = IF call[p].pc = "held" THEN NoProc ELSE guard

(* The lease is dated by the clock read before the wait for the guard.     *)
WriteLease(p) ==
    LET l == [holder |-> call[p].who, acquired |-> call[p].at,
              expires |-> call[p].at + TTL, stamp |-> grants + 1]
    IN  /\ grants < MaxGrants
        /\ grants' = grants + 1
        /\ lease' = l
        /\ cover' = l

(* _is_orphaned, for the two callers that ask it.                          *)
Judging(p) ==
    /\ \/ Holds(p, "acquire")
       \/ call[p].pc = "judge"
    /\ Active(call[p].got, call[p].at)

ConfirmedDown(p) ==
    /\ Judging(p)
    /\ ~Young(call[p].got, call[p].at)
    /\ call[p].downs = Probes

(* What follows once a lease counts as in force: acquire and check return  *)
(* it; "release <holder>" goes on to a second call if the name is its own. *)
Honour(p) ==
    IF call[p].op = "cli_release" /\ call[p].got.holder = call[p].who
    THEN /\ call' = [call EXCEPT ![p] = NewCall("release", call[p].who)]
         /\ UNCHANGED guard
    ELSE Return(p)

HonourYoung(p) ==
    /\ Judging(p)
    /\ Young(call[p].got, call[p].at)
    /\ Honour(p)
    /\ UNCHANGED <<lease, marker, seenUp, now, grants, cover, used>>

(* One probe of the port; the first that answers ends the inquiry.         *)
Probe(p, answers) ==
    /\ Judging(p)
    /\ ~Young(call[p].got, call[p].at)
    /\ call[p].downs < Probes
    /\ IF answers
       THEN /\ seenUp' = [seenUp EXCEPT ![p] = Identity(call[p].got)]
            /\ Honour(p)
       ELSE /\ call' = [call EXCEPT ![p] = [call[p] EXCEPT !.downs = @ + 1]]
            /\ UNCHANGED <<guard, seenUp>>
    /\ UNCHANGED <<lease, marker, now, grants, cover, used>>

(* This process saw the port answer for this very lease: not yet.          *)
DeferOrphan(p) ==
    /\ ConfirmedDown(p)
    /\ seenUp[p] = Identity(call[p].got)
    /\ seenUp' = [seenUp EXCEPT ![p] = NoLease]
    /\ Honour(p)
    /\ UNCHANGED <<lease, marker, now, grants, cover, used>>

Orphaned(p) ==
    /\ ConfirmedDown(p)
    /\ seenUp[p] # Identity(call[p].got)

AcquireGrant(p) ==
    /\ Holds(p, "acquire")
    /\ ~Active(call[p].got, call[p].at) \/ Orphaned(p)
    /\ WriteLease(p)
    /\ Return(p)
    /\ UNCHANGED <<marker, seenUp, now, used>>

CheckFree(p) ==
    /\ call[p].pc = "judge"
    /\ ~Active(call[p].got, call[p].at) \/ Orphaned(p)
    /\ Return(p)
    /\ UNCHANGED <<lease, marker, seenUp, now, grants, cover, used>>

Release(p) ==
    /\ Holds(p, "release")
    /\ IF call[p].got # NoLease /\ call[p].who \in {AnyHolder, call[p].got.holder}
       THEN lease' = NoLease /\ cover' = NoLease
       ELSE UNCHANGED <<lease, cover>>
    /\ Return(p)
    /\ UNCHANGED <<marker, seenUp, now, grants, used>>

(* Mutated: the marker of the spent lease is not looked at.                *)
ConsumableUnmarked(l, who, t) ==
    Active(l, t) /\ l.holder = who

(* The fingerprint is the whole record; a marker that equals it means the  *)
(* lease was spent already.                                                *)
Consumable(l, who, t) ==
    Active(l, t) /\ l.holder = who /\ l # marker

Consume(p) ==
    /\ Holds(p, "consume")
    /\ IF Consumable(call[p].got, call[p].who, call[p].at)
       THEN /\ marker' = call[p].got
            /\ used' = [used EXCEPT ![call[p].got.stamp] = @ + 1]
       ELSE UNCHANGED <<marker, used>>
    /\ Return(p)
    /\ UNCHANGED <<lease, seenUp, now, grants, cover>>

-----------------------------------------------------------------------------
(* The surroundings.                                                       *)

(* A process dies: the kernel drops its flock, its memory is gone.         *)
Crash(p) ==
    /\ call[p].pc # "idle" \/ seenUp[p] # NoLease
    /\ call' = [call EXCEPT ![p] = IdleCall]
    /\ guard' = IF guard = p THEN NoProc ELSE guard
    /\ seenUp' = [seenUp EXCEPT ![p] = NoLease]
    /\ UNCHANGED <<lease, marker, now, grants, cover, used>>

(* The file stops parsing: readers get a stand-in dated by its mtime.  A   *)
(* damage under a held guard has the effect of one just after it.  JSON    *)
(* that parses but lacks fields, read as a free lease, is not in the model. *)
Damage(mtime) ==
    /\ lease # NoLease /\ guard = NoProc
    /\ mtime \in lease.acquired..now
    /\ lease' = [lease EXCEPT !.holder = Unreadable, !.acquired = mtime,
                              !.expires = mtime + TTL]
    /\ UNCHANGED <<marker, guard, call, seenUp, now, grants, cover, used>>

Tick ==
    /\ now < MaxTime
    /\ now' = now + 1
    /\ UNCHANGED <<lease, marker, guard, call, seenUp, grants, cover, used>>

Step(p) ==
    \/ \E r \in Requests : Begin(p, r[1], r[2])
    \/ GuardTimeout(p)
    \/ Enter(p)
    \/ HonourYoung(p)
    \/ \E answers \in BOOLEAN : Probe(p, answers)
    \/ DeferOrphan(p)
    \/ AcquireGrant(p)
    \/ CheckFree(p)
    \/ Release(p)
    \/ Consume(p)
    \/ Crash(p)

Next ==
    \/ \E p \in Proc : Step(p)
    \/ \E mtime \in 0..now : Damage(mtime)
    \/ Tick

Spec == Init /\ [][Next]_vars

-----------------------------------------------------------------------------
(* The inductive invariant behind the properties.                          *)

CallsAreOfThePast ==
    \A p \in Proc : call[p].pc # "idle" => call[p].at <= now

RequestsAreServed ==
    \A p \in Proc : call[p].pc # "idle" /\ call[p].op \in {"acquire", "consume"}
        => call[p].who \in Holder

StampsGrow ==
    /\ grants <= MaxGrants
    /\ lease # NoLease => /\ lease.stamp \in 1..grants
                           /\ lease.acquired <= now
                           /\ lease.expires = lease.acquired + TTL
    /\ marker # NoLease => marker.stamp \in 1..grants
    /\ (lease # NoLease /\ marker # NoLease) =>
          /\ marker.stamp <= lease.stamp
          /\ lease.holder \in Holder /\ marker.stamp = lease.stamp => marker = lease

SpentIsMarked ==
    \A s \in 1..MaxGrants :
        IF marker # NoLease /\ s <= marker.stamp THEN used[s] <= 1 ELSE used[s] = 0

(* The file in force says at least as much as the last grant did.          *)
CoverIsFiled ==
    cover # NoLease =>
        /\ lease # NoLease
        /\ lease.acquired >= cover.acquired
        /\ lease.expires >= cover.expires

-----------------------------------------------------------------------------
(* Properties.                                                             *)

(* Two processes are never both between reading the lease file and acting  *)
(* on it: what acquire, release and consume decide on is what the file     *)
(* still says (ib_2fa_lock.py:213, the flock guard).                       *)
DecisionsAreFresh ==
    \A p \in Proc : call[p].pc = "held" =>
        guard = p /\ call[p].got = lease

(* One lease pays for one Gateway cycle: whatever is released, reacquired  *)
(* or retried around it, consume succeeds at most once for a lease         *)
(* (ib_2fa_lock.py:431).                                                   *)
ConsumedOnce == \A s \in 1..MaxGrants : used[s] <= 1

(* A new lease never displaces one that was granted, not released, and is  *)
(* still inside its grace period: not by expiry arithmetic on a clock read *)
(* before the wait for the guard, not by an orphan verdict, and not by     *)
(* damage to the file (ib_2fa_lock.py:240, 289, 363).                      *)
YoungCoverSurvives ==
    [][ (grants' # grants /\ cover # NoLease) =>
            \/ now >= cover.expires
            \/ now >= cover.acquired + Grace ]_vars

(* To its callers the module is the lease of LeaseContract: the grant in   *)
(* force is the last one that nobody released, whatever the file has       *)
(* become since, and every step is a grant, a release, a spending, a tick, *)
(* or nothing (ib_2fa_lock.py:340-460).                                    *)
Contract == INSTANCE LeaseContract
    WITH granted <- cover, number <- grants, spent <- used, time <- now

ContractHolds == Contract!Spec
=============================================================================
