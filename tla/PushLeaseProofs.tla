-------------------------- MODULE PushLeaseProofs --------------------------
(***************************************************************************)
(* Proofs about the 2FA push lease for any set of processes and components *)
(* and any timing constants.                                               *)
(*                                                                         *)
(* The inductive invariant IInv says that a decision under the guard is    *)
(* about the file as it is, that no call is of the future, that stamps grow *)
(* from marker to lease, and that the file covers the last grant.          *)
(***************************************************************************)
EXTENDS PushLease, TLAPS

IInv ==
    /\ TypeOK
    /\ DecisionsAreFresh
    /\ CallsAreOfThePast
    /\ RequestsAreServed
    /\ StampsGrow
    /\ SpentIsMarked
    /\ CoverIsFiled



(* The record of a process that is in no call is a well-formed one.        *)
LEMMA IdleCallType == IdleCall \in Call
  BY TimingAssumption DEF IdleCall, Call, Ops

(* The initial state satisfies the invariant.                              *)
LEMMA InitIInv == Init => IInv
<1> SUFFICES ASSUME Init PROVE IInv
  OBVIOUS
<1>1. TypeOK
  BY IdleCallType, TimingAssumption DEF Init, TypeOK
<1>2. \A p \in Proc : call[p].pc = "idle"
  BY DEF Init, IdleCall
<1>3. DecisionsAreFresh /\ CallsAreOfThePast /\ RequestsAreServed
  BY <1>2 DEF DecisionsAreFresh, CallsAreOfThePast, RequestsAreServed
<1>4. StampsGrow /\ SpentIsMarked /\ CoverIsFiled
  BY TimingAssumption DEF Init, StampsGrow, SpentIsMarked, CoverIsFiled
<1> QED
  BY <1>1, <1>3, <1>4 DEF IInv

(* The calls a step may leave behind are well formed: it returns, or moves *)
(* within the call it is in.                                               *)
LEMMA CallFields ==
  ASSUME TypeOK, NEW p \in Proc
  PROVE  /\ call[p] \in Call
         /\ call[p].who \in Holder \cup {AnyHolder}
         /\ call[p].got \in Lease \cup {NoLease}
         /\ call[p].downs \in 0..Probes /\ call[p].at \in Nat
         /\ call[p].op \in Ops
  BY DEF TypeOK, Call

(* What a step does to the calls: each process stays as it was, falls      *)
(* idle, starts a call at the current time, or keeps the request and the   *)
(* start time of the call it is in.                                        *)
CallMoves(p) ==
    \/ call'[p] = call[p]
    \/ call'[p].pc = "idle"
    \/ \E r \in Requests : call'[p] = NewCall(r[1], r[2])
    \/ call'[p] = NewCall("release", call[p].who)
    \/ /\ call[p].pc # "idle"
       /\ call'[p].op = call[p].op /\ call'[p].who = call[p].who
       /\ call'[p].at = call[p].at

(* Every step keeps the variables in their types.                          *)
LEMMA TypeStep == IInv /\ [Next]_vars => TypeOK'
<1> SUFFICES ASSUME IInv, [Next]_vars PROVE TypeOK'
  OBVIOUS
<1> USE TimingAssumption, NameAssumption, RequestAssumption
    DEF IInv, TypeOK
<1>0. ASSUME NEW p \in Proc, NEW c \in Call, call' = [call EXCEPT ![p] = c]
      PROVE  call' \in [Proc -> Call]
  BY <1>0
<1>a. ASSUME NEW p \in Proc, Honour(p)
      PROVE  call' \in [Proc -> Call] /\ guard' \in Proc \cup {NoProc}
  <2>1. NewCall("release", call[p].who) \in Call
    BY <1>a, CallFields DEF NewCall, Call, Ops
  <2> QED
    BY <1>a, <2>1, IdleCallType DEF Honour, Return
<1>1. ASSUME NEW p \in Proc, NEW r \in Requests, Begin(p, r[1], r[2])
      PROVE TypeOK'
  <2>1. NewCall(r[1], r[2]) \in Call
    BY DEF NewCall, Call
  <2> QED
    BY <1>1, <2>1 DEF Begin
<1>2. ASSUME NEW p \in Proc, GuardTimeout(p) PROVE TypeOK'
  BY <1>2, IdleCallType DEF GuardTimeout
<1>3. ASSUME NEW p \in Proc, Enter(p) PROVE TypeOK'
  <2>1. /\ [call[p] EXCEPT !.pc = "judge", !.got = lease] \in Call
        /\ [call[p] EXCEPT !.pc = "held", !.got = lease] \in Call
    BY DEF Call
  <2> QED
    BY <1>3, <2>1 DEF Enter
<1>4. ASSUME NEW p \in Proc, HonourYoung(p) PROVE TypeOK'
  BY <1>4, <1>a DEF HonourYoung
<1>5. ASSUME NEW p \in Proc, NEW b \in BOOLEAN, Probe(p, b) PROVE TypeOK'
  <2>1. call[p].downs < Probes =>
            [call[p] EXCEPT !.downs = @ + 1] \in Call
    <3>1. call[p].downs < Probes => call[p].downs + 1 \in 0..Probes
      BY CallFields
    <3> QED
      BY <3>1, CallFields DEF Call
  <2>2. call[p].got # NoLease =>
            Identity(call[p].got) \in (Holder \cup {Unreadable}) \X Nat
    BY CallFields DEF Identity, Lease
  <2>3. call[p].got # NoLease /\ call[p].downs < Probes
    BY <1>5 DEF Probe, Judging, Active
  <2>4. call' \in [Proc -> Call] /\ guard' \in Proc \cup {NoProc}
    <3>1. CASE b = TRUE
      <4>1. Honour(p)
        BY <1>5, <3>1 DEF Probe
      <4> QED
        BY <4>1, <1>a
    <3>2. CASE b = FALSE
      <4>1. /\ call' = [call EXCEPT ![p] = [call[p] EXCEPT !.downs = @ + 1]]
            /\ guard' = guard
        BY <1>5, <3>2 DEF Probe
      <4>2. [call[p] EXCEPT !.downs = @ + 1] \in Call
        BY <2>1, <2>3
      <4> HIDE DEF Call
      <4> QED
        BY <4>1, <4>2, <1>0
    <3> QED
      BY <3>1, <3>2
  <2>5. seenUp' \in [Proc -> ((Holder \cup {Unreadable}) \X Nat) \cup {NoLease}]
    <3>1. CASE b = TRUE
      BY <1>5, <2>2, <2>3, <3>1 DEF Probe
    <3>2. CASE b = FALSE
      BY <1>5, <3>2 DEF Probe
    <3> QED
      BY <3>1, <3>2
  <2> QED
    BY <1>5, <2>4, <2>5 DEF Probe
<1>6. ASSUME NEW p \in Proc, DeferOrphan(p) PROVE TypeOK'
  BY <1>6, <1>a DEF DeferOrphan
<1>7. ASSUME NEW p \in Proc, AcquireGrant(p) PROVE TypeOK'
  <2>1. call[p].who \in Holder /\ call[p].at \in Nat
    BY <1>7, CallFields DEF AcquireGrant, Holds, RequestsAreServed
  <2>2. lease' \in Lease /\ cover' \in Lease /\ grants' \in Nat
    BY <1>7, <2>1 DEF AcquireGrant, WriteLease, Lease
  <2> QED
    BY <1>7, <2>2, IdleCallType DEF AcquireGrant, Return
<1>8. ASSUME NEW p \in Proc, CheckFree(p) PROVE TypeOK'
  BY <1>8, IdleCallType DEF CheckFree, Return
<1>9. ASSUME NEW p \in Proc, Release(p) PROVE TypeOK'
  BY <1>9, IdleCallType DEF Release, Return
<1>10. ASSUME NEW p \in Proc, Consume(p) PROVE TypeOK'
  <2>1. call' \in [Proc -> Call] /\ guard' \in Proc \cup {NoProc}
    BY <1>10, IdleCallType DEF Consume, Return
  <2>2. marker' \in Lease \cup {NoLease} /\ used' \in [1..MaxGrants -> Nat]
    <3>1. CASE Consumable(call[p].got, call[p].who, call[p].at)
      <4>1. call[p].got \in Lease
        BY <3>1, CallFields DEF Consumable, Active
      <4>2. /\ marker' = call[p].got
            /\ used' = [used EXCEPT ![call[p].got.stamp] = @ + 1]
        BY <1>10, <3>1 DEF Consume
      <4>3. used \in [1..MaxGrants -> Nat]
        OBVIOUS
      <4>4. used' \in [1..MaxGrants -> Nat]
        <5> HIDE DEF IInv, TypeOK
        <5> DEFINE i == call[p].got.stamp
        <5>1. used' = [s \in 1..MaxGrants |-> IF s = i THEN used[s] + 1 ELSE used[s]]
          BY <4>2, <4>3
        <5> HIDE DEF i
        <5>2. \A s \in 1..MaxGrants : used[s] \in Nat /\ used[s] + 1 \in Nat
          BY <4>3
        <5> QED
          BY <5>1, <5>2
      <4> QED
        BY <4>1, <4>2, <4>4
    <3>2. CASE ~Consumable(call[p].got, call[p].who, call[p].at)
      BY <1>10, <3>2 DEF Consume
    <3> QED
      BY <3>1, <3>2
  <2> QED
    BY <1>10, <2>1, <2>2 DEF Consume
<1>11. ASSUME NEW p \in Proc, Crash(p) PROVE TypeOK'
  BY <1>11, IdleCallType DEF Crash
<1>12. ASSUME NEW mtime \in 0..now, Damage(mtime) PROVE TypeOK'
  <2>1. mtime \in Nat /\ mtime + TTL \in Nat /\ lease \in Lease
    BY <1>12 DEF Damage
  <2>2. [lease EXCEPT !.holder = Unreadable, !.acquired = mtime,
                      !.expires = mtime + TTL] \in Lease
    BY <2>1 DEF Lease
  <2> QED
    BY <1>12, <2>2 DEF Damage
<1>13. CASE Tick
  BY <1>13 DEF Tick
<1>14. CASE UNCHANGED vars
  BY <1>14 DEF vars
<1> QED
  BY <1>1, <1>2, <1>3, <1>4, <1>5, <1>6, <1>7, <1>8, <1>9, <1>10, <1>11,
     <1>12, <1>13, <1>14 DEF Next, Step

(* A step moves the calls in one of those ways.                            *)
LEMMA StepMovesCalls ==
  ASSUME TypeOK, [Next]_vars, NEW q \in Proc PROVE CallMoves(q)
<1> USE DEF CallMoves, TypeOK, IdleCall
<1>a. ASSUME NEW p \in Proc, Honour(p) PROVE CallMoves(q)
  BY <1>a DEF Honour, Return
<1>1. ASSUME NEW p \in Proc, NEW r \in Requests, Begin(p, r[1], r[2])
      PROVE CallMoves(q)
  BY <1>1 DEF Begin
<1>2. ASSUME NEW p \in Proc, Enter(p) PROVE CallMoves(q)
  <2>1. CASE q = p
    <3>1. \/ call'[p] = [call[p] EXCEPT !.pc = "judge", !.got = lease]
          \/ call'[p] = [call[p] EXCEPT !.pc = "held", !.got = lease]
      BY <1>2 DEF Enter
    <3>2. call[p].pc # "idle" /\ call[p] \in Call
      BY <1>2 DEF Enter
    <3> QED
      BY <2>1, <3>1, <3>2 DEF Call
  <2>2. CASE q # p
    BY <1>2, <2>2 DEF Enter
  <2> QED
    BY <2>1, <2>2
<1>3. ASSUME NEW p \in Proc, NEW b \in BOOLEAN, Probe(p, b)
      PROVE CallMoves(q)
  <2>1. CASE b = TRUE
    BY <1>3, <1>a, <2>1 DEF Probe
  <2>2. CASE b = FALSE
    BY <1>3, <2>2 DEF Probe, Judging, Holds, Call
  <2> QED
    BY <2>1, <2>2
<1>4. ASSUME NEW p \in Proc, \/ GuardTimeout(p) \/ HonourYoung(p)
                             \/ DeferOrphan(p) \/ AcquireGrant(p)
                             \/ CheckFree(p) \/ Release(p)
                             \/ Consume(p) \/ Crash(p)
      PROVE CallMoves(q)
  BY <1>4, <1>a DEF GuardTimeout, HonourYoung, DeferOrphan, AcquireGrant,
     CheckFree, Release, Consume, Crash, Return
<1>5. CASE \/ \E mtime \in 0..now : Damage(mtime)
           \/ Tick \/ UNCHANGED vars
  BY <1>5 DEF Damage, Tick, vars
<1> QED
  BY <1>1, <1>2, <1>3, <1>4, <1>5 DEF Next, Step

(* The clock only moves by Tick.                                           *)
LEMMA ClockMoves ==
  [Next]_vars => now' = now \/ Tick
<1> QED
  BY DEF Next, Step, Begin, GuardTimeout, Enter, HonourYoung, Probe,
     DeferOrphan, AcquireGrant, CheckFree, Release, Consume, Crash, Damage, vars

(* Every step leaves each call behind the clock, with a request it serves. *)
LEMMA CallsStep ==
  IInv /\ [Next]_vars => CallsAreOfThePast' /\ RequestsAreServed'
<1> SUFFICES ASSUME IInv, [Next]_vars, NEW q \in Proc, call'[q].pc # "idle"
             PROVE  /\ call'[q].at <= now'
                    /\ call'[q].op \in {"acquire", "consume"}
                          => call'[q].who \in Holder
  BY DEF CallsAreOfThePast, RequestsAreServed
<1>1. CallMoves(q) /\ (now' = now \/ Tick)
  BY StepMovesCalls, ClockMoves DEF IInv
<1>2. call[q].at \in Nat /\ now \in Nat
  BY CallFields DEF IInv, TypeOK
<1>3. CASE Tick
  BY <1>2, <1>3, TimingAssumption
  DEF Tick, IInv, CallsAreOfThePast, RequestsAreServed
<1>4. CASE now' = now
  <2>1. CASE \E r \in Requests : call'[q] = NewCall(r[1], r[2])
    BY <1>2, <1>4, <2>1, TimingAssumption, RequestAssumption DEF NewCall
  <2>2. CASE call'[q] = NewCall("release", call[q].who)
    BY <1>2, <1>4, <2>2, TimingAssumption DEF NewCall
  <2>3. CASE call'[q] = call[q]
    BY <1>4, <2>3 DEF IInv, CallsAreOfThePast, RequestsAreServed
  <2>4. CASE /\ call[q].pc # "idle"
             /\ call'[q].op = call[q].op /\ call'[q].who = call[q].who
             /\ call'[q].at = call[q].at
    BY <1>4, <2>4 DEF IInv, CallsAreOfThePast, RequestsAreServed
  <2> QED
    BY <1>1, <2>1, <2>2, <2>3, <2>4 DEF CallMoves
<1> QED
  BY <1>1, <1>3, <1>4

(* The guard: a process works on the file only while it holds it.          *)
LEMMA FreshStep == IInv /\ [Next]_vars => DecisionsAreFresh'
<1> SUFFICES ASSUME IInv, [Next]_vars, NEW q \in Proc, call'[q].pc = "held"
             PROVE  guard' = q /\ call'[q].got = lease'
  BY DEF DecisionsAreFresh
<1> USE NameAssumption DEF IInv, TypeOK, DecisionsAreFresh, IdleCall
<1>a. ASSUME NEW p \in Proc, Return(p)
      PROVE  q # p /\ call'[q] = call[q] /\ guard = q /\ guard' = guard
  BY <1>a DEF Return
<1>b. ASSUME NEW p \in Proc, Honour(p)
      PROVE  q # p /\ call'[q] = call[q] /\ guard = q /\ guard' = guard
  BY <1>a, <1>b DEF Honour, NewCall
<1>1. ASSUME NEW p \in Proc, NEW r \in Requests, Begin(p, r[1], r[2])
      PROVE  guard' = q /\ call'[q].got = lease'
  BY <1>1 DEF Begin, NewCall
<1>2. ASSUME NEW p \in Proc, Enter(p)
      PROVE  guard' = q /\ call'[q].got = lease'
  <2>1. CASE q = p
    <3>1. call[p] \in Call /\ lease' = lease /\ guard = NoProc
      BY <1>2 DEF Enter
    <3>2. \/ call'[p] = [call[p] EXCEPT !.pc = "judge", !.got = lease]
          \/ /\ call'[p] = [call[p] EXCEPT !.pc = "held", !.got = lease]
             /\ guard' = p
      BY <1>2, <3>1 DEF Enter
    <3>3. /\ [call[p] EXCEPT !.pc = "judge", !.got = lease].pc = "judge"
          /\ [call[p] EXCEPT !.pc = "held", !.got = lease].got = lease
      BY <3>1 DEF Call
    <3> QED
      BY <2>1, <3>1, <3>2, <3>3
  <2>2. CASE q # p
    BY <1>2, <2>2 DEF Enter
  <2> QED
    BY <2>1, <2>2
<1>3. ASSUME NEW p \in Proc, NEW b \in BOOLEAN, Probe(p, b)
      PROVE  guard' = q /\ call'[q].got = lease'
  <2>1. CASE b = TRUE
    BY <1>3, <1>b, <2>1 DEF Probe
  <2>2. CASE b = FALSE
    BY <1>3, <2>2 DEF Probe, Call
  <2> QED
    BY <2>1, <2>2
<1>4. ASSUME NEW p \in Proc, HonourYoung(p) \/ DeferOrphan(p)
      PROVE  guard' = q /\ call'[q].got = lease'
  BY <1>4, <1>b DEF HonourYoung, DeferOrphan
<1>5. ASSUME NEW p \in Proc, CheckFree(p) \/ Consume(p)
      PROVE  guard' = q /\ call'[q].got = lease'
  BY <1>5, <1>a DEF CheckFree, Consume
<1>6. ASSUME NEW p \in Proc, AcquireGrant(p) \/ Release(p)
      PROVE  guard' = q /\ call'[q].got = lease'
  BY <1>6, <1>a DEF AcquireGrant, Release, Holds
<1>7. ASSUME NEW p \in Proc, GuardTimeout(p) \/ Crash(p)
      PROVE  guard' = q /\ call'[q].got = lease'
  BY <1>7 DEF GuardTimeout, Crash
<1>8. CASE \/ \E mtime \in 0..now : Damage(mtime)
           \/ Tick \/ UNCHANGED vars
  BY <1>8 DEF Damage, Tick, vars
<1> QED
  BY <1>1, <1>2, <1>3, <1>4, <1>5, <1>6, <1>7, <1>8 DEF Next, Step

(* Only four operations touch the lease, the marker and the histories.     *)
LEMMA FileMoves ==
  [Next]_vars =>
    \/ UNCHANGED <<lease, marker, grants, cover, used>>
    \/ \E p \in Proc : AcquireGrant(p) \/ Release(p) \/ Consume(p)
    \/ \E mtime \in 0..now : Damage(mtime)
<1> QED
  BY DEF Next, Step, Begin, GuardTimeout, Enter, HonourYoung, Probe,
     DeferOrphan, CheckFree, Crash, Tick, vars

(* A grant is made over a file that is missing, was expired when the call  *)
(* was made, or was past its grace by then.                                *)
LEMMA GrantFacts ==
  ASSUME IInv, NEW p \in Proc, AcquireGrant(p)
  PROVE  /\ grants < MaxGrants /\ grants' = grants + 1
         /\ lease' = cover' /\ lease' \in Lease
         /\ lease'.stamp = grants + 1 /\ lease'.acquired <= now
         /\ lease'.expires = lease'.acquired + TTL
         /\ lease # NoLease =>
              now >= lease.expires \/ now >= lease.acquired + Grace
<1>1. /\ call[p].pc = "held" /\ call[p].op = "acquire"
      /\ call[p].got = lease /\ call[p].who \in Holder
      /\ call[p].at \in Nat /\ now \in Nat /\ grants \in Nat
      /\ call[p].at <= now
      /\ lease # NoLease => lease \in Lease
  BY CallFields DEF AcquireGrant, Holds, IInv, TypeOK, DecisionsAreFresh,
     CallsAreOfThePast, RequestsAreServed
<1>2. lease # NoLease =>
        call[p].at >= lease.expires \/ call[p].at >= lease.acquired + Grace
  <2> SUFFICES ASSUME lease # NoLease
               PROVE  call[p].at >= lease.expires \/ call[p].at >= lease.acquired + Grace
    OBVIOUS
  <2>1. \/ ~Active(lease, call[p].at)
        \/ ~Young(lease, call[p].at)
    BY <1>1 DEF AcquireGrant, Orphaned, ConfirmedDown
  <2>2. lease.acquired \in Nat /\ lease.expires \in Nat
    BY <1>1 DEF Lease
  <2> QED
    BY <1>1, <2>1, <2>2, TimingAssumption DEF Active, Expired, Young
<1>3. lease # NoLease => lease.acquired \in Nat /\ lease.expires \in Nat
  BY <1>1 DEF Lease
<1>4. WriteLease(p)
  BY DEF AcquireGrant
<1>5. /\ grants < MaxGrants /\ grants' = grants + 1
      /\ lease' = cover' /\ lease' \in Lease
      /\ lease'.stamp = grants + 1 /\ lease'.acquired = call[p].at
      /\ lease'.expires = call[p].at + TTL
  BY <1>1, <1>4, TimingAssumption DEF WriteLease, Lease
<1> QED
  BY <1>1, <1>2, <1>3, <1>5, TimingAssumption

(* A successful consume spends the lease in the file, for the first time.  *)
LEMMA ConsumeFacts ==
  ASSUME IInv, NEW p \in Proc, Consume(p)
  PROVE  \/ marker' = marker /\ used' = used
         \/ /\ lease # NoLease /\ lease # marker /\ marker' = lease
            /\ lease.holder \in Holder
            /\ used' = [used EXCEPT ![lease.stamp] = @ + 1]
<1>1. call[p].got = lease /\ call[p].who \in Holder
  BY DEF Consume, Holds, IInv, DecisionsAreFresh, RequestsAreServed
<1> QED
  BY <1>1 DEF Consume, Consumable, Active

(* Every step leaves the leases stamped in the order of their grants, and *)
(* the last one consumed marked as spent.                                  *)
LEMMA StampStep == IInv /\ [Next]_vars => StampsGrow' /\ SpentIsMarked'
<1> SUFFICES ASSUME IInv, [Next]_vars PROVE StampsGrow' /\ SpentIsMarked'
  OBVIOUS
<1> USE TimingAssumption, NameAssumption DEF StampsGrow, SpentIsMarked
<1>t. /\ lease # NoLease => /\ lease \in Lease /\ lease.stamp \in Nat
                            /\ lease.acquired \in Nat
      /\ marker # NoLease => marker.stamp \in Nat
      /\ grants \in Nat /\ now \in Nat /\ now' \in Nat /\ now <= now'
      /\ used \in [1..MaxGrants -> Nat]
      /\ StampsGrow /\ SpentIsMarked
  <2>1. now \in Nat /\ now' \in Nat /\ now <= now'
    BY ClockMoves, TypeStep DEF IInv, TypeOK, Tick
  <2> QED
    BY <2>1 DEF IInv, TypeOK, Lease
<1>1. CASE UNCHANGED <<lease, marker, grants, cover, used>>
  BY <1>1, <1>t
<1>2. ASSUME NEW p \in Proc, AcquireGrant(p)
      PROVE  StampsGrow' /\ SpentIsMarked'
  <2>1. /\ marker' = marker /\ used' = used /\ now' = now
    BY <1>2 DEF AcquireGrant
  <2> QED
    BY <1>2, <1>t, <2>1, GrantFacts
<1>3. ASSUME NEW p \in Proc, Release(p)
      PROVE  StampsGrow' /\ SpentIsMarked'
  BY <1>3, <1>t DEF Release
<1>4. ASSUME NEW p \in Proc, Consume(p)
      PROVE  StampsGrow' /\ SpentIsMarked'
  <2>1. lease' = lease /\ grants' = grants
    BY <1>4 DEF Consume
  <2>2. CASE marker' = marker /\ used' = used
    BY <1>t, <2>1, <2>2
  <2>3. CASE /\ lease # NoLease /\ lease # marker /\ marker' = lease
             /\ lease.holder \in Holder
             /\ used' = [used EXCEPT ![lease.stamp] = @ + 1]
    <3>1. lease.stamp \in 1..MaxGrants /\ marker'.stamp = lease.stamp
      BY <1>t, <2>3
    <3>2. marker # NoLease => marker.stamp <= lease.stamp
      BY <1>t, <2>3
    <3>3. used[lease.stamp] <= 1 /\ (used[lease.stamp] = 1 =>
              marker # NoLease /\ marker.stamp = lease.stamp)
      BY <1>t, <3>1, <3>2
    <3>4. used[lease.stamp] = 0
      BY <1>t, <3>3, <2>3
    <3> QED
      BY <1>t, <2>1, <2>3, <3>1, <3>2, <3>4
  <2> QED
    BY <1>4, <2>2, <2>3, ConsumeFacts
<1>5. ASSUME NEW mtime \in 0..now, Damage(mtime)
      PROVE  StampsGrow' /\ SpentIsMarked'
  <2>1. /\ lease # NoLease /\ lease'.stamp = lease.stamp
        /\ lease'.acquired = mtime /\ lease'.expires = mtime + TTL
        /\ lease'.holder \notin Holder
        /\ UNCHANGED <<marker, grants, used, now>>
    BY <1>5, <1>t DEF Damage, Lease
  <2> QED
    BY <1>5, <1>t, <2>1
<1> QED
  BY <1>1, <1>2, <1>3, <1>4, <1>5, FileMoves

(* Every step leaves the lease that covers a push in the file, or damaged. *)
LEMMA CoverStep == IInv /\ [Next]_vars => CoverIsFiled'
<1> SUFFICES ASSUME IInv, [Next]_vars PROVE CoverIsFiled'
  OBVIOUS
<1> USE TimingAssumption, NameAssumption DEF CoverIsFiled
<1>t. /\ lease # NoLease => /\ lease \in Lease /\ lease.acquired \in Nat
                            /\ lease.expires \in Nat
      /\ cover # NoLease => cover.acquired \in Nat /\ cover.expires \in Nat
      /\ CoverIsFiled
  BY DEF IInv, TypeOK, Lease
<1>1. CASE UNCHANGED <<lease, marker, grants, cover, used>>
  BY <1>1, <1>t
<1>2. ASSUME NEW p \in Proc, AcquireGrant(p) PROVE CoverIsFiled'
  <2>1. lease' = cover' /\ lease' \in Lease
    BY <1>2, GrantFacts
  <2>2. lease' # NoLease /\ lease'.acquired \in Nat /\ lease'.expires \in Nat
    BY <2>1 DEF Lease
  <2> QED
    BY <2>1, <2>2
<1>3. ASSUME NEW p \in Proc, Release(p) PROVE CoverIsFiled'
  BY <1>3, <1>t DEF Release
<1>4. ASSUME NEW p \in Proc, Consume(p) PROVE CoverIsFiled'
  BY <1>4, <1>t DEF Consume
<1>5. ASSUME NEW mtime \in 0..now, Damage(mtime) PROVE CoverIsFiled'
  <2>1. /\ lease' = [lease EXCEPT !.holder = Unreadable, !.acquired = mtime,
                                  !.expires = mtime + TTL]
        /\ mtime >= lease.acquired /\ lease # NoLease /\ cover' = cover
        /\ mtime \in Nat /\ lease.expires = lease.acquired + TTL
    BY <1>5, <1>t DEF Damage, IInv, TypeOK, StampsGrow
  <2> QED
    <3>1. /\ lease'.acquired = mtime /\ lease'.expires = mtime + TTL
      BY <1>t, <2>1 DEF Lease
    <3>2. [lease EXCEPT !.holder = Unreadable, !.acquired = mtime,
                        !.expires = mtime + TTL] \in Lease
      <4>1. mtime + TTL \in Nat
        BY <2>1
      <4> QED
        BY <1>t, <2>1, <4>1 DEF Lease
    <3> QED
      BY <1>t, <2>1, <3>1, <3>2
<1> QED
  BY <1>1, <1>2, <1>3, <1>4, <1>5, FileMoves

(* Together they are inductive.                                            *)
LEMMA Inductive == Spec => []IInv
<1>1. IInv /\ [Next]_vars => IInv'
  BY TypeStep, CallsStep, FreshStep, StampStep, CoverStep DEF IInv
<1> QED
  BY <1>1, InitIInv, PTL DEF Spec

-----------------------------------------------------------------------------
(* The variables stay in their types: ib_2fa_lock.py never files, marks or *)
(* remembers anything but a lease.                                         *)
THEOREM Typing == Spec => []TypeOK
  BY Inductive, PTL DEF IInv

(* The flock guard makes every decision of acquire, release and consume a  *)
(* decision about the lease file as it still is.                           *)
THEOREM Fresh == Spec => []DecisionsAreFresh
  BY Inductive, PTL DEF IInv

(* No lease is ever consumed twice: one lease, one preheld Gateway cycle.  *)
THEOREM ConsumeOnce == Spec => []ConsumedOnce
<1>1. IInv => ConsumedOnce
  BY DEF IInv, TypeOK, SpentIsMarked, ConsumedOnce
<1> QED
  BY <1>1, Inductive, PTL

(* A grant never displaces a lease that nobody released and that is still  *)
(* inside its TTL and its grace, damaged file or not.                      *)
THEOREM YoungSurvives == Spec => YoungCoverSurvives
<1> DEFINE Young2 == (grants' # grants /\ cover # NoLease) =>
                       \/ now >= cover.expires
                       \/ now >= cover.acquired + Grace
<1>1. IInv /\ [Next]_vars => [Young2]_vars
  <2> SUFFICES ASSUME IInv, [Next]_vars, grants' # grants, cover # NoLease
               PROVE  \/ now >= cover.expires
                      \/ now >= cover.acquired + Grace
    OBVIOUS
  <2>1. PICK p \in Proc : AcquireGrant(p)
    BY FileMoves DEF Release, Consume, Damage
  <2>2. /\ lease # NoLease /\ lease.acquired >= cover.acquired
        /\ lease.expires >= cover.expires
        /\ lease.acquired \in Nat /\ lease.expires \in Nat
        /\ cover.acquired \in Nat /\ cover.expires \in Nat /\ now \in Nat
    BY DEF IInv, CoverIsFiled, TypeOK, Lease
  <2>3. now >= lease.expires \/ now >= lease.acquired + Grace
    BY <2>1, <2>2, GrantFacts
  <2> QED
    BY <2>2, <2>3, TimingAssumption
<1> QED
  BY <1>1, Inductive, PTL DEF Spec, YoungCoverSurvives

-----------------------------------------------------------------------------
(* The refinement.  The file and the last unreleased grant are two views   *)
(* of one lease: equal unless the file was damaged since.                  *)
FileIsCover ==
  /\ lease = NoLease <=> cover = NoLease
  /\ lease # NoLease =>
        /\ lease.stamp = cover.stamp
        /\ lease.holder \in Holder => lease = cover

LEMMA FileIsCoverStep == IInv /\ FileIsCover /\ [Next]_vars => FileIsCover'
<1> SUFFICES ASSUME IInv, FileIsCover, [Next]_vars PROVE FileIsCover'
  OBVIOUS
<1> USE NameAssumption DEF FileIsCover
<1>1. CASE UNCHANGED <<lease, marker, grants, cover, used>>
  BY <1>1
<1>2. ASSUME NEW p \in Proc, AcquireGrant(p) PROVE FileIsCover'
  BY <1>2, GrantFacts
<1>3. ASSUME NEW p \in Proc, Release(p) PROVE FileIsCover'
  BY <1>3 DEF Release
<1>4. ASSUME NEW p \in Proc, Consume(p) PROVE FileIsCover'
  BY <1>4 DEF Consume
<1>5. ASSUME NEW mtime \in 0..now, Damage(mtime) PROVE FileIsCover'
  <2>1. lease \in Lease /\ lease # NoLease
    BY <1>5 DEF Damage, IInv, TypeOK
  <2>2. /\ lease'.holder = Unreadable /\ lease'.stamp = lease.stamp
        /\ cover' = cover /\ cover # NoLease
        /\ lease' = [lease EXCEPT !.holder = Unreadable, !.acquired = mtime,
                                  !.expires = mtime + TTL]
    BY <1>5, <2>1 DEF Damage, Lease
  <2>3. lease' # NoLease
    <3>1. mtime + TTL \in Nat /\ mtime \in Nat
      BY TimingAssumption DEF IInv, TypeOK
    <3> QED
      BY <2>1, <2>2, <3>1 DEF Lease
  <2> QED
    BY <2>2, <2>3
<1> QED
  BY <1>1, <1>2, <1>3, <1>4, <1>5, FileMoves

(* A grant of the code is one the contract allows.                         *)
LEMMA GrantIsAcquire ==
  ASSUME IInv, NEW p \in Proc, AcquireGrant(p)
  PROVE  Contract!Next
<1> DEFINE h == call[p].who
           t == call[p].at
<1>1. h \in Holder /\ t \in Nat /\ t <= now /\ now \in Nat
  BY CallFields DEF AcquireGrant, Holds, IInv, TypeOK, RequestsAreServed, CallsAreOfThePast
<1>2. /\ grants < MaxGrants /\ grants' = grants + 1
      /\ cover' = Contract!Grant(h, t)
      /\ UNCHANGED <<used, now>>
  BY DEF AcquireGrant, WriteLease, Contract!Grant
<1>3. ASSUME cover # NoLease
      PROVE  now >= cover.acquired + Grace \/ now >= cover.expires
  <2>1. /\ lease # NoLease /\ lease.acquired >= cover.acquired
        /\ lease.expires >= cover.expires
        /\ lease.acquired \in Nat /\ lease.expires \in Nat
        /\ cover.acquired \in Nat /\ cover.expires \in Nat /\ now \in Nat
    BY <1>3 DEF IInv, CoverIsFiled, TypeOK, Lease
  <2>2. now >= lease.expires \/ now >= lease.acquired + Grace
    BY <2>1, GrantFacts
  <2> QED
    BY <2>1, <2>2, TimingAssumption
<1>4. Contract!Acquire(h, t)
  BY <1>1, <1>2, <1>3 DEF Contract!Acquire
<1> QED
  BY <1>1, <1>4 DEF Contract!Next

(* A consumption of the code spends a grant that was not spent, or nothing. *)
LEMMA ConsumeIsSpend ==
  ASSUME IInv, FileIsCover, NEW p \in Proc, Consume(p)
  PROVE  Contract!Spend \/ UNCHANGED Contract!vars
<1> USE DEF Contract!vars
<1>1. UNCHANGED <<cover, grants, now>>
  BY DEF Consume
<1>2. CASE used' = used
  BY <1>1, <1>2
<1>3. CASE used' # used
  <2>1. /\ Consumable(call[p].got, call[p].who, call[p].at)
        /\ call[p].got = lease /\ call[p].who \in Holder
        /\ used' = [used EXCEPT ![lease.stamp] = @ + 1]
    BY <1>3 DEF Consume, Holds, IInv, DecisionsAreFresh, RequestsAreServed
  <2>2. /\ lease # NoLease /\ lease # marker /\ lease = cover
        /\ ~(call[p].at >= lease.expires)
    BY <2>1 DEF Consumable, Active, Expired, FileIsCover
  <2>3. /\ lease \in Lease /\ lease.expires \in Nat /\ now \in Nat
        /\ lease.stamp \in 1..MaxGrants /\ lease.stamp \in Nat
        /\ used \in [1..MaxGrants -> Nat]
        /\ marker # NoLease => marker.stamp \in Nat /\ marker.stamp <= lease.stamp
                               /\ marker.stamp # lease.stamp
    BY <2>1, <2>2, TimingAssumption DEF IInv, TypeOK, Lease, StampsGrow, Consumable
  <2>4. used[lease.stamp] = 0
    BY <2>3 DEF IInv, SpentIsMarked
  <2>5. used' = [used EXCEPT ![cover.stamp] = 1]
    BY <2>1, <2>2, <2>3, <2>4
  <2> QED
    BY <1>1, <2>2, <2>4, <2>5 DEF Contract!Spend
<1> QED
  BY <1>2, <1>3

(* The lease module implements its contract: its users may forget the      *)
(* file, the guard, the readers' clocks and what damage does.              *)
THEOREM ImplementsContract == Spec => ContractHolds
<1>1. Init => Contract!Init /\ FileIsCover
  BY DEF Init, Contract!Init, FileIsCover
<1>2. IInv /\ FileIsCover /\ [Next]_vars => [Contract!Next]_(Contract!vars)
  <2> SUFFICES ASSUME IInv, FileIsCover, [Next]_vars
               PROVE  Contract!Next \/ UNCHANGED Contract!vars
    OBVIOUS
  <2>1. CASE UNCHANGED <<lease, marker, grants, cover, used>>
    <3>1. CASE now' = now
      BY <2>1, <3>1 DEF Contract!vars
    <3>2. CASE Tick
      BY <2>1, <3>2 DEF Tick, Contract!Next, Contract!Pass
    <3> QED
      BY <3>1, <3>2, ClockMoves
  <2>2. ASSUME NEW p \in Proc, AcquireGrant(p) PROVE Contract!Next
    BY <2>2, GrantIsAcquire
  <2>3. ASSUME NEW p \in Proc, Release(p)
        PROVE  Contract!Next \/ UNCHANGED Contract!vars
    <3>1. UNCHANGED <<grants, used, now>>
      BY <2>3 DEF Release
    <3>2. cover' = cover \/ (cover # NoLease /\ cover' = NoLease)
      BY <2>3 DEF Release, Holds, IInv, DecisionsAreFresh, FileIsCover
    <3> QED
      BY <3>1, <3>2 DEF Contract!Next, Contract!Release, Contract!vars
  <2>4. ASSUME NEW p \in Proc, Consume(p)
        PROVE  Contract!Next \/ UNCHANGED Contract!vars
    BY <2>4, ConsumeIsSpend DEF Contract!Next
  <2>5. ASSUME NEW mtime \in 0..now, Damage(mtime) PROVE UNCHANGED Contract!vars
    BY <2>5 DEF Damage, Contract!vars
  <2> QED
    BY <2>1, <2>2, <2>3, <2>4, <2>5, FileMoves
<1> QED
  BY <1>1, <1>2, FileIsCoverStep, Inductive, PTL
     DEF Spec, ContractHolds, Contract!Spec
=============================================================================
