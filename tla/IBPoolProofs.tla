---------------------------- MODULE IBPoolProofs ----------------------------
(***************************************************************************)
(* Proofs about IBPool, for any roles, tasks, clients and callers: the     *)
(* pool's type, that no connection is lost track of, that a borrowed       *)
(* client stays its role's, and that no call runs on a client still in use *)
(* by a bounded call that timed out.                                       *)
(***************************************************************************)
EXTENDS IBPool, TLAPS

Inside == {"probe", "close", "dial", "abandon", "holding", "calling"}
Dialing == {"dial", "abandon"}
Using == {"holding", "calling"}
Emptied == {"close", "dial", "abandon"}

(* What the state of a task says about the rest.                           *)
Placed(t) ==
    /\ job[t].at \notin {"idle", "life"} => job[t].role \in Role
    /\ job[t].at \in Inside => lock[job[t].role] = t
    /\ job[t].at \in Emptied => pool[job[t].role] = NoClient
    /\ job[t].at = "probe" => job[t].kind \in Callers /\ pool[job[t].role] \in Client
    /\ job[t].at \in Using =>
          /\ job[t].kind \in Callers
          /\ job[t].client \in Client
          /\ pool[job[t].role] = job[t].client

(* A client that connects is known to its task only.                       *)
Own(t) == job[t].at \in Dialing =>
    /\ job[t].client \in Client
    /\ job[t].client \notin closing
    /\ \A r \in Role : pool[r] # job[t].client
    /\ \A u \in Task \ {t} : job[u].client # job[t].client

(* The pool holds a client for one role, and none that is being closed.    *)
OneRole ==
    /\ \A r \in Role : pool[r] \notin closing
    /\ \A r, s \in Role : pool[r] = pool[s] /\ pool[r] # NoClient => r = s

Known(c) ==
    \/ \E r \in Role : pool[r] = c
    \/ c \in closing
    \/ \E t \in Task : job[t].at \in Dialing /\ job[t].client = c

AllKnown == \A c \in Client : sock[c] \in {"dialing", "up"} => Known(c)

(* A bounded call that times out leaves no worker on the role's client.    *)
Retired == \A r \in Role : <<r, "bounded">> \notin stray

IInv ==
    /\ TypeOK
    /\ \A t \in Task : Placed(t)
    /\ \A t \in Task : Own(t)
    /\ OneRole
    /\ AllKnown
    /\ Retired

(* A step of one task, seen in its job alone.                              *)
Moves(t, k, a, r, c) ==
    /\ job' \in [Task -> Job]
    /\ \A u \in Task \ {t} : job'[u] = job[u]
    /\ job'[t].kind = k /\ job'[t].at = a
    /\ job'[t].role = r /\ job'[t].client = c

-----------------------------------------------------------------------------
LEMMA SetsJob ==
    ASSUME NEW t \in Task, NEW n \in Job, job \in [Task -> Job],
           job' = [job EXCEPT ![t] = n]
    PROVE  Moves(t, n.kind, n.at, n.role, n.client)
BY DEF Moves

LEMMA ToIdle ==
    ASSUME NEW t \in Task, job \in [Task -> Job], job' = [job EXCEPT ![t] = Idle]
    PROVE  Moves(t, "none", "idle", NoRole, NoClient)
<1>1. Idle \in Job
  BY PoolAssumption DEF Idle, Job
<1>2. QED BY <1>1, SetsJob DEF Idle

LEMMA ToAwait ==
    ASSUME NEW t \in Task, job \in [Task -> Job],
           NEW k \in {"none"} \cup Callers \cup Jobs \cup {"connect"}, NEW r \in Role, NEW todo \in SUBSET Role,
           job' = [job EXCEPT ![t] = Await(k, r, todo)]
    PROVE  Moves(t, k, "role", r, NoClient)
<1> DEFINE n == [kind |-> k, at |-> "role", role |-> r, client |-> NoClient,
                 todo |-> todo, tries |-> 0]
<1>1. Await(k, r, todo) = n
  BY DEF Await
<1>2. n \in Job
  BY PoolAssumption DEF Job
<1>3. QED BY <1>1, <1>2, SetsJob

Places == {"idle", "life", "role", "probe", "close", "dial", "abandon", "holding", "calling"}

LEMMA ToPlace ==
    ASSUME NEW t \in Task, job \in [Task -> Job], NEW a \in Places,
           job' = [job EXCEPT ![t].at = a]
    PROVE  Moves(t, job[t].kind, a, job[t].role, job[t].client)
<1> DEFINE n == [job[t] EXCEPT !.at = a]
<1>1. n \in Job /\ n.kind = job[t].kind /\ n.at = a /\ n.role = job[t].role
        /\ n.client = job[t].client
  BY DEF Job, Places
<1>2. job' = [job EXCEPT ![t] = n]
  OBVIOUS
<1> HIDE DEF n
<1>3. QED BY <1>1, <1>2, SetsJob

LEMMA ToClient ==
    ASSUME NEW t \in Task, job \in [Task -> Job], NEW a \in Places,
           NEW c \in Client \cup {NoClient},
           job' = [job EXCEPT ![t].at = a, ![t].client = c]
    PROVE  Moves(t, job[t].kind, a, job[t].role, c)
<1> DEFINE n == [job[t] EXCEPT !.at = a, !.client = c]
<1>1. n \in Job /\ n.kind = job[t].kind /\ n.at = a /\ n.role = job[t].role /\ n.client = c
  BY DEF Job, Places
<1>2. job' = [job EXCEPT ![t] = n]
  OBVIOUS
<1> HIDE DEF n
<1>3. QED BY <1>1, <1>2, SetsJob

-----------------------------------------------------------------------------
(* What a step of one task must not touch, for the others to be where they *)
(* were.                                                                   *)
LEMMA OthersPlaced ==
    ASSUME IInv, NEW t \in Task, \A u \in Task \ {t} : job'[u] = job[u],
           \A r \in Role : lock[r] \in Task \ {t} => lock'[r] = lock[r] /\ pool'[r] = pool[r]
    PROVE  \A u \in Task \ {t} : Placed(u)'
BY DEF IInv, TypeOK, Job, Placed, Inside, Using, Emptied

LEMMA OthersOwn ==
    ASSUME IInv, NEW t \in Task, \A u \in Task \ {t} : job'[u] = job[u],
           \A c \in closing' : \/ c \in closing \/ c = job[t].client
                               \/ \E r \in Role : pool[r] = c,
           \A r \in Role : \/ pool'[r] = pool[r] \/ pool'[r] = NoClient
                           \/ pool'[r] = job[t].client,
           \/ job'[t].client \in {NoClient, job[t].client}
           \/ \E r \in Role : job'[t].client = pool[r]
           \/ \A u \in Task \ {t} : job[u].client # job'[t].client
    PROVE  \A u \in Task \ {t} : Own(u)'
<1> SUFFICES ASSUME NEW u \in Task \ {t}, job[u].at \in Dialing
             PROVE  Own(u)'
  BY DEF Own
<1> DEFINE c == job[u].client
<1>1. /\ c \in Client /\ c \notin closing /\ \A r \in Role : pool[r] # c
      /\ \A v \in Task \ {u} : job[v].client # c
  BY DEF IInv, Own
<1>2. c # NoClient /\ job[t].client # c
  BY <1>1, PoolAssumption
<1>3. c \notin closing' /\ \A r \in Role : pool'[r] # c
  BY <1>1, <1>2
<1>4. job'[t].client # c
  BY <1>1, <1>2
<1>5. QED BY <1>1, <1>3, <1>4 DEF Own

(* A task that waits, or is done, has no lock and no connection to answer  *)
(* for.                                                                    *)
Waits(t) ==
    /\ job' \in [Task -> Job]
    /\ \A u \in Task \ {t} : job'[u] = job[u]
    /\ job'[t].at \in {"idle", "life", "role"}
    /\ job'[t].at = "role" => job'[t].role \in Role
    /\ job'[t].client \in {NoClient, job[t].client}

LEMMA WaitsPlaced ==
    ASSUME IInv, NEW t \in Task, Waits(t),
           \A r \in Role : lock[r] \in Task \ {t} => lock'[r] = lock[r] /\ pool'[r] = pool[r]
    PROVE  (\A u \in Task : Placed(u))'
<1>1. Placed(t)'
  BY DEF Waits, Placed, Inside, Using, Emptied
<1>2. \A u \in Task \ {t} : Placed(u)'
  BY OthersPlaced DEF Waits
<1>3. QED BY <1>1, <1>2

LEMMA WaitsOwn ==
    ASSUME IInv, NEW t \in Task, Waits(t),
           \A c \in closing' : \/ c \in closing \/ c = job[t].client
                               \/ \E r \in Role : pool[r] = c,
           \A r \in Role : \/ pool'[r] = pool[r] \/ pool'[r] = NoClient
                           \/ pool'[r] = job[t].client
    PROVE  (\A u \in Task : Own(u))'
<1>1. Own(t)'
  BY DEF Waits, Own, Dialing
<1>2. \A u \in Task \ {t} : Own(u)'
  <2>1. \A u \in Task \ {t} : job'[u] = job[u]
    BY DEF Waits
  <2>2. job'[t].client \in {NoClient, job[t].client}
    BY DEF Waits
  <2>3. QED BY ONLY IInv, t \in Task, <2>1, <2>2, OthersOwn,
           \A c \in closing' : \/ c \in closing \/ c = job[t].client
                               \/ \E r \in Role : pool[r] = c,
           \A r \in Role : \/ pool'[r] = pool[r] \/ pool'[r] = NoClient
                           \/ pool'[r] = job[t].client
<1>3. QED BY <1>1, <1>2

(* A connection is known as long as the task that answers for it does.     *)
LEMMA StaysKnown ==
    ASSUME IInv, NEW t \in Task, \A u \in Task \ {t} : job'[u] = job[u],
           \A c \in closing : c \in closing',
           \A r \in Role : \/ pool'[r] = pool[r]
                           \/ pool[r] \in closing' \cup {NoClient},
           job[t].at \in Dialing =>
              \/ job'[t].at \in Dialing /\ job'[t].client = job[t].client
              \/ \E r \in Role : pool'[r] = job[t].client
              \/ sock'[job[t].client] \notin {"dialing", "up"},
           \A c \in Client : sock'[c] \in {"dialing", "up"} =>
              \/ sock[c] \in {"dialing", "up"}
              \/ job'[t].at \in Dialing /\ job'[t].client = c
    PROVE  AllKnown'
<1> SUFFICES ASSUME NEW c \in Client, sock'[c] \in {"dialing", "up"}
             PROVE  Known(c)'
  BY DEF AllKnown
<1>1. CASE job'[t].at \in Dialing /\ job'[t].client = c
  BY <1>1 DEF Known
<1>2. CASE sock[c] \in {"dialing", "up"}
  <2>1. Known(c)
    BY <1>2 DEF IInv, AllKnown
  <2>2. CASE \E r \in Role : pool[r] = c
    BY <2>2, PoolAssumption DEF Known
  <2>3. CASE c \in closing
    BY <2>3 DEF Known
  <2>4. CASE \E u \in Task : job[u].at \in Dialing /\ job[u].client = c
    BY <2>4 DEF Known
  <2>5. QED BY <2>1, <2>2, <2>3, <2>4 DEF Known
<1>3. QED BY <1>1, <1>2

LEMMA QuitWaits ==
    ASSUME IInv, NEW t \in Task, Quit(t)
    PROVE  /\ Waits(t)
           /\ lock' \in [Role -> Task \cup {Free}]
           /\ life' \in Task \cup {Free}
           /\ \A r \in Role : lock[r] \in Task \ {t} => lock'[r] = lock[r]
<1>1. Waits(t)
  BY ToIdle DEF Quit, Waits, Moves, IInv, TypeOK
<1>2. QED BY <1>1 DEF Quit, IInv, TypeOK

LEMMA NextRoleWaits ==
    ASSUME IInv, NEW t \in Task, NEW k \in {"none"} \cup Callers \cup Jobs \cup {"connect"},
           NEW todo \in SUBSET Role, NextRole(t, k, todo)
    PROVE  Waits(t)
<1>1. CASE todo # {} /\ \E r \in todo : job' = [job EXCEPT ![t] = Await(k, r, todo \ {r})]
  <2>1. PICK r \in todo : job' = [job EXCEPT ![t] = Await(k, r, todo \ {r})]
    BY <1>1
  <2>2. Moves(t, k, "role", r, NoClient)
    BY <2>1, ToAwait DEF IInv, TypeOK
  <2>3. QED BY <2>2 DEF Moves, Waits
<1>2. CASE \E r \in Role : job' = [job EXCEPT ![t] = Await("connect", r, Role \ {r})]
  <2>1. PICK r \in Role : job' = [job EXCEPT ![t] = Await("connect", r, Role \ {r})]
    BY <1>2
  <2>2. Moves(t, "connect", "role", r, NoClient)
    BY <2>1, ToAwait DEF IInv, TypeOK
  <2>3. QED BY <2>2 DEF Moves, Waits
<1>3. QED BY <1>1, <1>2 DEF NextRole

LEMMA RoleDoneWaits ==
    ASSUME IInv, NEW t \in Task, RoleDone(t)
    PROVE  /\ Waits(t)
           /\ lock' = [lock EXCEPT ![RoleOf(t)] = Free]
           /\ lock' \in [Role -> Task \cup {Free}]
           /\ life' \in Task \cup {Free}
<1>1. Waits(t)
  <2>1. CASE Last(t)
    BY <2>1, ToIdle DEF RoleDone, Waits, Moves, IInv, TypeOK
  <2>2. CASE ~Last(t)
    <3>1. job[t].kind \in {"none"} \cup Callers \cup Jobs \cup {"connect"} /\ job[t].todo \in SUBSET Role
      BY DEF IInv, TypeOK, Job
    <3>2. QED BY <2>2, <3>1, NextRoleWaits DEF RoleDone
  <2>3. QED BY <2>1, <2>2
<1>2. QED BY <1>1 DEF RoleDone, IInv, TypeOK

LEMMA Init_IInv == Init => IInv
<1> SUFFICES ASSUME Init PROVE IInv OBVIOUS
<1>1. TypeOK
  BY PoolAssumption DEF Init, TypeOK, Idle, Job
<1>2. \A t \in Task : job[t].at = "idle"
  BY DEF Init, Idle
<1>3. (\A t \in Task : Placed(t)) /\ (\A t \in Task : Own(t))
  BY <1>2 DEF Placed, Own, Inside, Dialing, Using, Emptied
<1>4. OneRole
  BY DEF Init, OneRole
<1>5. AllKnown
  BY DEF Init, AllKnown
<1>6. Retired
  BY DEF Init, Retired
<1>7. QED BY <1>1, <1>3, <1>4, <1>5, <1>6 DEF IInv

-----------------------------------------------------------------------------
(* A task that waits or leaves, with the pool as it was.                   *)
LEMMA Leaves ==
    ASSUME IInv, NEW t \in Task, Waits(t), job[t].at \notin Dialing,
           UNCHANGED <<pool, sock, closing>>,
           lock' \in [Role -> Task \cup {Free}], life' \in Task \cup {Free},
           \A r \in Role : lock[r] \in Task \ {t} => lock'[r] = lock[r],
           stray' \subseteq Role \X (Callers \cup {"cancelled"}), wedged' \in Nat,
           Retired'
    PROVE  IInv'
<1>1. TypeOK'
  BY DEF IInv, TypeOK, Waits
<1>2. (\A u \in Task : Placed(u))'
  BY WaitsPlaced
<1>3. (\A u \in Task : Own(u))'
  BY WaitsOwn
<1>4. OneRole'
  BY DEF IInv, OneRole
<1>5. AllKnown'
  BY StaysKnown DEF Waits
<1>6. QED BY <1>1, <1>2, <1>3, <1>4, <1>5 DEF IInv

LEMMA Retired_same == ASSUME IInv, stray' \subseteq stray PROVE Retired'
BY DEF IInv, Retired

(* The lock of the role a step works on is free or the task's own.         *)
LEMMA RoleLock ==
    ASSUME IInv, NEW t \in Task, Locks(t) \/ job[t].at \in Inside
    PROVE  RoleOf(t) \in Role /\ lock[RoleOf(t)] \in {t, Free}
BY DEF IInv, Placed, Locks, At, RoleOf, Inside

LEMMA DoneLeaves ==
    ASSUME IInv, NEW t \in Task, RoleDone(t), Locks(t) \/ job[t].at \in Inside,
           job[t].at \notin Dialing,
           UNCHANGED <<pool, sock, closing, stray, wedged>>
    PROVE  IInv'
<1>1. /\ Waits(t)
      /\ lock' = [lock EXCEPT ![RoleOf(t)] = Free]
      /\ lock' \in [Role -> Task \cup {Free}]
      /\ life' \in Task \cup {Free}
  BY RoleDoneWaits
<1>2. RoleOf(t) \in Role /\ lock[RoleOf(t)] \in {t, Free}
  BY RoleLock
<1>3. \A r \in Role : lock[r] \in Task \ {t} => lock'[r] = lock[r]
  BY <1>1, <1>2, PoolAssumption DEF IInv, TypeOK
<1>4. Retired'
  BY Retired_same
<1>5. stray' \subseteq Role \X (Callers \cup {"cancelled"}) /\ wedged' \in Nat
  BY DEF IInv, TypeOK
<1>6. QED BY <1>1, <1>3, <1>4, <1>5, Leaves

LEMMA BorrowRefused_IInv == ASSUME IInv, NEW t \in Task, BorrowRefused(t) PROVE IInv'
BY DoneLeaves DEF BorrowRefused, Locks, At, Dialing

LEMMA SkipConnected_IInv == ASSUME IInv, NEW t \in Task, SkipConnected(t) PROVE IInv'
BY DoneLeaves DEF SkipConnected, Locks, At, Dialing

LEMMA Leave_IInv == ASSUME IInv, NEW t \in Task, Leave(t) PROVE IInv'
BY DoneLeaves DEF Leave, At, Dialing, Inside

LEMMA StartLife_IInv ==
    ASSUME IInv, NEW t \in Task, NEW k \in Jobs \ {"roles"}, StartLife(t, k)
    PROVE  IInv'
<1> DEFINE n == [job[t] EXCEPT !.kind = k, !.at = "life"]
<1>1. n \in Job /\ n.at = "life" /\ n.client = job[t].client
  BY DEF IInv, TypeOK, Job
<1>2. job' = [job EXCEPT ![t] = n]
  BY DEF StartLife
<1> HIDE DEF n
<1>3. Waits(t)
  BY <1>1, <1>2, SetsJob DEF Moves, Waits, IInv, TypeOK
<1>4. UNCHANGED <<pool, sock, closing, lock, life, stray, wedged>> /\ job[t].at \notin Dialing
  BY DEF StartLife, At, Dialing
<1>5. Retired'
  BY <1>4, Retired_same
<1>6. QED BY <1>3, <1>4, <1>5, Leaves DEF IInv, TypeOK

LEMMA TakeLife_IInv == ASSUME IInv, NEW t \in Task, TakeLife(t) PROVE IInv'
<1> DEFINE todo == IF job[t].kind = "connect" THEN Role
                   ELSE {r \in Role : pool[r] # NoClient}
<1>1. UNCHANGED <<pool, sock, closing, stray, wedged>> /\ job[t].at \notin Dialing
  BY DEF TakeLife, At, Dialing
<1>2. /\ Waits(t)
      /\ lock' \in [Role -> Task \cup {Free}]
      /\ life' \in Task \cup {Free}
      /\ \A r \in Role : lock[r] \in Task \ {t} => lock'[r] = lock[r]
  <2>1. CASE Quit(t)
    BY <2>1, QuitWaits
  <2>2. CASE NextRole(t, job[t].kind, todo) /\ life' = t /\ UNCHANGED lock
    <3>1. job[t].kind \in {"none"} \cup Callers \cup Jobs \cup {"connect"} /\ todo \in SUBSET Role
      BY DEF IInv, TypeOK, Job
    <3> HIDE DEF todo
    <3>2. Waits(t)
      BY <2>2, <3>1, NextRoleWaits
    <3>3. QED BY <2>2, <3>2 DEF IInv, TypeOK
  <2>3. QED BY <2>1, <2>2 DEF TakeLife
<1>3. Retired'
  BY <1>1, Retired_same
<1>4. stray' \subseteq Role \X (Callers \cup {"cancelled"}) /\ wedged' \in Nat
  BY <1>1 DEF IInv, TypeOK
<1>5. QED BY <1>1, <1>2, <1>3, <1>4, Leaves

LEMMA StartRoles_IInv ==
    ASSUME IInv, NEW t \in Task, "roles" \in Jobs, StartRoles(t)
    PROVE  IInv'
<1>1. /\ UNCHANGED <<pool, sock, closing, lock, life, stray, wedged>>
      /\ job[t].at \notin Dialing
      /\ NextRole(t, "roles", {r \in Role : ~Connected(r)})
  BY DEF StartRoles, At, Dialing
<1>2. Waits(t)
  BY <1>1, NextRoleWaits
<1>3. Retired'
  BY <1>1, Retired_same
<1>4. QED BY <1>1, <1>2, <1>3, Leaves DEF IInv, TypeOK

-----------------------------------------------------------------------------
(* Steps between two awaits that only move the task on.                    *)
LEMMA MovesOn ==
    ASSUME IInv, NEW t \in Task, UNCHANGED <<pool, sock, closing, stray, wedged>>,
           NEW k, NEW a, NEW r \in Role, NEW c, Moves(t, k, a, r, c),
           lock' \in [Role -> Task \cup {Free}], life' \in Task \cup {Free},
           \A q \in Role : lock[q] \in Task \ {t} => lock'[q] = lock[q],
           a \in Inside => lock'[r] = t,
           a \in Emptied => pool[r] = NoClient,
           a = "probe" => k \in Callers /\ pool[r] \in Client,
           a \in Using => k \in Callers /\ c \in Client /\ pool[r] = c,
           job[t].at \in Dialing => a \in Dialing,
           a \in Dialing => job[t].at \in Dialing /\ c = job[t].client,
           \/ c \in {NoClient, job[t].client}
           \/ \E q \in Role : c = pool[q]
    PROVE  IInv'
<1>1. TypeOK'
  BY DEF IInv, TypeOK, Moves
<1>2. (\A u \in Task : Placed(u))'
  <2>1. Placed(t)'
    BY DEF Moves, Placed
  <2>2. \A u \in Task \ {t} : Placed(u)'
    BY OthersPlaced DEF Moves
  <2>3. QED BY <2>1, <2>2
<1>3. (\A u \in Task : Own(u))'
  <2>1. Own(t)'
    BY DEF Moves, Own, IInv
  <2>2. \A u \in Task \ {t} : Own(u)'
    BY OthersOwn DEF Moves
  <2>3. QED BY <2>1, <2>2
<1>4. OneRole'
  BY DEF IInv, OneRole
<1>5. AllKnown'
  BY StaysKnown DEF Moves
<1>6. Retired'
  BY Retired_same
<1>7. QED BY <1>1, <1>2, <1>3, <1>4, <1>5, <1>6 DEF IInv

LEMMA BorrowLive_IInv == ASSUME IInv, NEW t \in Task, BorrowLive(t) PROVE IInv'
<1> DEFINE r == job[t].role
<1>1. r \in Role /\ lock[r] = Free /\ job[t].kind \in Callers /\ pool[r] \in Client
      /\ job[t].at = "role"
  BY RoleLock DEF BorrowLive, Locks, At, RoleOf, Borrows, Connected, IInv, TypeOK
<1>2. UNCHANGED <<pool, sock, closing, life, stray, wedged>> /\ lock' = [lock EXCEPT ![r] = t]
  BY DEF BorrowLive, RoleOf
<1>3. \/ Moves(t, job[t].kind, "probe", r, job[t].client)
      \/ Moves(t, job[t].kind, "holding", r, pool[r])
  <2>1. CASE job' = [job EXCEPT ![t].at = "probe"]
    BY <2>1, ToPlace DEF Places, IInv, TypeOK
  <2>2. CASE job' = [job EXCEPT ![t].at = "holding", ![t].client = pool[r]]
    BY <1>1, <2>2, ToClient DEF Places, IInv, TypeOK
  <2>3. QED BY <2>1, <2>2 DEF BorrowLive, Hand, RoleOf
<1>4. /\ lock' \in [Role -> Task \cup {Free}] /\ life' \in Task \cup {Free}
      /\ \A q \in Role : lock[q] \in Task \ {t} => lock'[q] = lock[q]
      /\ lock'[r] = t
  BY <1>1, <1>2, PoolAssumption DEF IInv, TypeOK
<1> HIDE DEF r
<1>5. CASE Moves(t, job[t].kind, "probe", r, job[t].client)
  BY <1>1, <1>2, <1>4, <1>5, MovesOn DEF Inside, Using, Emptied, Dialing
<1>6. CASE Moves(t, job[t].kind, "holding", r, pool[r])
  BY <1>1, <1>2, <1>4, <1>6, MovesOn DEF Inside, Using, Emptied, Dialing
<1>7. QED BY <1>3, <1>5, <1>6
LEMMA Borrow_IInv ==
    ASSUME IInv, NEW t \in Task, NEW k \in Callers, NEW r \in Role, Borrow(t, k, r)
    PROVE  IInv'
<1> DEFINE n == [job[t] EXCEPT !.kind = k, !.at = "role", !.role = r]
<1>1. n \in Job /\ n.kind = k /\ n.at = "role" /\ n.role = r /\ n.client = job[t].client
  BY DEF IInv, TypeOK, Job
<1>2. job' = [job EXCEPT ![t] = n]
  BY DEF Borrow
<1> HIDE DEF n
<1>3. Moves(t, k, "role", r, job[t].client)
  BY <1>1, <1>2, SetsJob DEF IInv, TypeOK
<1>4. UNCHANGED <<pool, sock, closing, lock, life, stray, wedged>> /\ job[t].at \notin Dialing
  BY DEF Borrow, At, Dialing
<1>5. QED BY <1>3, <1>4, MovesOn DEF IInv, TypeOK, Inside, Using, Emptied, Dialing

(* A task at its role that goes from one place to another with its client. *)
LEMMA Steps ==
    ASSUME IInv, NEW t \in Task, UNCHANGED <<pool, sock, closing, lock, life, stray, wedged>>,
           job[t].at \in Inside, NEW a \in Inside \ {"probe"}, job' = [job EXCEPT ![t].at = a],
           a \in Using => job[t].at \in Using,
           a \in Emptied => job[t].at \in Emptied,
           a \in Dialing <=> job[t].at \in Dialing
    PROVE  IInv'
<1>1. Moves(t, job[t].kind, a, job[t].role, job[t].client)
  BY ToPlace DEF IInv, TypeOK, Inside, Places
<1>2. job[t].role \in Role /\ lock[job[t].role] = t
  BY DEF IInv, Placed, Inside
<1>3. a \in Using => /\ job[t].kind \in Callers /\ job[t].client \in Client
                     /\ pool[job[t].role] = job[t].client
  BY DEF IInv, Placed
<1>4. a \in Emptied => pool[job[t].role] = NoClient
  BY DEF IInv, Placed
<1>5. QED BY <1>1, <1>2, <1>3, <1>4, MovesOn DEF IInv, TypeOK

LEMMA Submit_IInv == ASSUME IInv, NEW t \in Task, Submit(t) PROVE IInv'
BY Steps DEF Submit, At, Inside, Using, Emptied, Dialing

LEMMA CallAnswers_IInv == ASSUME IInv, NEW t \in Task, CallAnswers(t) PROVE IInv'
BY Steps DEF CallAnswers, At, Inside, Using, Emptied, Dialing

LEMMA CancelDial_IInv == ASSUME IInv, NEW t \in Task, CancelDial(t) PROVE IInv'
BY Steps DEF CancelDial, At, Inside, Using, Emptied, Dialing

-----------------------------------------------------------------------------
(* Steps that take a client out of the pool, and those that dial one.      *)
LEMMA CloseStale_IInv ==
    ASSUME IInv, NEW t \in Task, CloseStale(t), RoleOf(t) \in Role,
           lock[RoleOf(t)] \in {t, Free},
           job[t].at \notin Dialing,
           lock' = [lock EXCEPT ![RoleOf(t)] = t], UNCHANGED <<life, wedged>>
    PROVE  IInv'
<1> DEFINE r == job[t].role
           c == pool[r]
<1>1. /\ r \in Role /\ lock[r] \in {t, Free} /\ c \in Client
      /\ pool' = [pool EXCEPT ![r] = NoClient] /\ closing' = closing \cup {c}
      /\ UNCHANGED <<sock, life, wedged>> /\ stray' \subseteq stray
      /\ lock' = [lock EXCEPT ![r] = t]
      /\ job' = [job EXCEPT ![t].at = "close", ![t].client = c]
  BY DEF CloseStale, RoleOf, IInv, TypeOK
<1>2. Moves(t, job[t].kind, "close", r, c)
  BY <1>1, ToClient DEF IInv, TypeOK, Places
<1>3. TypeOK'
  BY <1>1, <1>2 DEF IInv, TypeOK, Moves
<1>4. \A q \in Role : lock[q] \in Task \ {t} => lock'[q] = lock[q] /\ pool'[q] = pool[q]
  BY <1>1, PoolAssumption DEF IInv, TypeOK
<1>5. (\A u \in Task : Placed(u))'
  <2>1. Placed(t)'
    BY <1>1, <1>2 DEF Moves, Placed, Inside, Using, Emptied, IInv, TypeOK
  <2>2. \A u \in Task \ {t} : Placed(u)'
    BY <1>2, <1>4, OthersPlaced DEF Moves
  <2>3. QED BY <2>1, <2>2
<1>6. \A q \in Role : pool'[q] = pool[q] \/ (pool'[q] = NoClient /\ pool[q] \in closing')
  BY <1>1 DEF IInv, TypeOK
<1>7. (\A u \in Task : Own(u))'
  <2>1. Own(t)'
    BY <1>2 DEF Moves, Own, Dialing
  <2>2. \A u \in Task \ {t} : Own(u)'
    BY <1>1, <1>2, <1>6, OthersOwn DEF Moves
  <2>3. QED BY <2>1, <2>2
<1>8. OneRole'
  BY <1>1, PoolAssumption DEF OneRole, IInv, TypeOK
<1>9. AllKnown'
  BY <1>1, <1>2, <1>6, StaysKnown DEF Moves
<1>10. Retired'
  BY <1>1, Retired_same
<1>11. QED BY <1>3, <1>5, <1>7, <1>8, <1>9, <1>10 DEF IInv

LEMMA DialFresh_IInv ==
    ASSUME IInv, NEW t \in Task, DialFresh(t), RoleOf(t) \in Role, pool[RoleOf(t)] = NoClient,
           lock[RoleOf(t)] \in {t, Free},
           job[t].at \notin Dialing,
           lock' = [lock EXCEPT ![RoleOf(t)] = t], UNCHANGED <<pool, stray, closing, life, wedged>>
    PROVE  IInv'
<1> DEFINE r == job[t].role
<1>1. PICK c \in Client : /\ Spare(t, c)
                          /\ sock' = [sock EXCEPT ![c] = "dialing"]
                          /\ job' = [job EXCEPT ![t].at = "dial", ![t].client = c]
  BY DEF DialFresh
<1>2. Moves(t, job[t].kind, "dial", r, c)
  BY <1>1, ToClient DEF IInv, TypeOK, Places
<1>3. /\ r \in Role /\ lock[r] \in {t, Free} /\ lock' = [lock EXCEPT ![r] = t]
      /\ pool[r] = NoClient
  BY DEF RoleOf
<1>4. TypeOK'
  BY <1>1, <1>2, <1>3 DEF IInv, TypeOK, Moves
<1>5. \A q \in Role : lock[q] \in Task \ {t} => lock'[q] = lock[q] /\ pool'[q] = pool[q]
  BY <1>3, PoolAssumption DEF IInv, TypeOK
<1>6. (\A u \in Task : Placed(u))'
  <2>1. Placed(t)'
    BY <1>2, <1>3 DEF Moves, Placed, Inside, Using, Emptied, IInv, TypeOK
  <2>2. \A u \in Task \ {t} : Placed(u)'
    BY <1>2, <1>5, OthersPlaced DEF Moves
  <2>3. QED BY <2>1, <2>2
<1>7. (\A u \in Task : Own(u))'
  <2>1. Own(t)'
    BY <1>1, <1>2 DEF Moves, Own, Spare
  <2>2. \A u \in Task \ {t} : Own(u)'
    BY <1>1, <1>2, OthersOwn DEF Moves, Spare
  <2>3. QED BY <2>1, <2>2
<1>8. OneRole'
  BY DEF OneRole, IInv
<1>9. AllKnown'
  <2>1. \A d \in Client : sock'[d] \in {"dialing", "up"} =>
              \/ sock[d] \in {"dialing", "up"}
              \/ job'[t].at \in Dialing /\ job'[t].client = d
    BY <1>1, <1>2 DEF Moves, Dialing, IInv, TypeOK
  <2>2. QED BY <1>2, <2>1, StaysKnown DEF Moves
<1>10. Retired'
  BY Retired_same
<1>11. QED BY <1>4, <1>6, <1>7, <1>8, <1>9, <1>10 DEF IInv

LEMMA Reconnect_IInv ==
    ASSUME IInv, NEW t \in Task, Reconnect(t), Locks(t) \/ At(t, "probe"), UNCHANGED <<life, wedged>>
    PROVE  IInv'
<1>1. /\ RoleOf(t) \in Role /\ lock[RoleOf(t)] \in {t, Free}
      /\ job[t].at \notin Dialing
  BY RoleLock DEF Locks, At, Inside, Dialing
<1>2. QED BY <1>1, CloseStale_IInv, DialFresh_IInv DEF Reconnect

LEMMA BorrowDead_IInv == ASSUME IInv, NEW t \in Task, BorrowDead(t) PROVE IInv'
BY Reconnect_IInv DEF BorrowDead

LEMMA ReconnectRole_IInv == ASSUME IInv, NEW t \in Task, ReconnectRole(t) PROVE IInv'
BY Reconnect_IInv DEF ReconnectRole

LEMMA ProbeFails_IInv == ASSUME IInv, NEW t \in Task, ProbeFails(t) PROVE IInv'
BY Reconnect_IInv DEF ProbeFails

LEMMA DropRole_IInv == ASSUME IInv, NEW t \in Task, DropRole(t) PROVE IInv'
<1>1. /\ RoleOf(t) \in Role /\ lock[RoleOf(t)] \in {t, Free}
      /\ job[t].at \notin Dialing
  BY RoleLock DEF DropRole, Locks, At, Inside, Dialing
<1>2. CASE RoleDone(t) /\ UNCHANGED <<pool, sock, closing, stray, wedged>>
  BY <1>1, <1>2, DoneLeaves DEF DropRole
<1>3. CASE /\ CloseStale(t) /\ lock' = [lock EXCEPT ![RoleOf(t)] = t]
           /\ UNCHANGED <<life, wedged>>
  BY <1>1, <1>3, CloseStale_IInv
<1>4. QED BY <1>2, <1>3 DEF DropRole
LEMMA ProbeAnswers_IInv == ASSUME IInv, NEW t \in Task, ProbeAnswers(t) PROVE IInv'
<1> DEFINE r == job[t].role
<1>1. r \in Role /\ lock[r] = t /\ job[t].kind \in Callers /\ pool[r] \in Client
  BY DEF ProbeAnswers, At, IInv, Placed, Inside
<1>2. UNCHANGED <<pool, sock, closing, lock, life, stray, wedged>> /\ job[t].at = "probe"
  BY DEF ProbeAnswers, At
<1>3. Moves(t, job[t].kind, "holding", r, pool[r])
  BY <1>1, ToClient DEF ProbeAnswers, Hand, RoleOf, Places, IInv, TypeOK
<1> HIDE DEF r
<1>4. QED BY <1>1, <1>2, <1>3, MovesOn DEF IInv, TypeOK, Inside, Using, Emptied, Dialing

LEMMA StaleClosed_IInv == ASSUME IInv, NEW t \in Task, StaleClosed(t) PROVE IInv'
<1>1. /\ RoleOf(t) \in Role /\ lock[RoleOf(t)] = t
      /\ job[t].at \in Inside /\ job[t].at \notin Dialing
      /\ UNCHANGED <<pool, closing, stray, wedged>>
  BY DEF StaleClosed, At, IInv, Placed, RoleOf, Inside, Dialing
<1>0. pool[RoleOf(t)] = NoClient
  BY DEF StaleClosed, At, IInv, Placed, RoleOf, Emptied
<1>2. CASE RoleDone(t) /\ UNCHANGED sock
  BY <1>1, <1>2, DoneLeaves
<1>3. CASE DialFresh(t) /\ UNCHANGED <<lock, life>>
  <2>1. lock' = [lock EXCEPT ![RoleOf(t)] = t]
    BY <1>1, <1>3 DEF IInv, TypeOK
  <2>2. QED BY <1>0, <1>1, <1>3, <2>1, DialFresh_IInv
<1>4. QED BY <1>2, <1>3 DEF StaleClosed

LEMMA Dialed_IInv == ASSUME IInv, NEW t \in Task, Dialed(t) PROVE IInv'
<1> DEFINE r == job[t].role
           c == job[t].client
<1>1. /\ r \in Role /\ lock[r] = t /\ pool[r] = NoClient
      /\ c \in Client /\ c \notin closing
      /\ \A q \in Role : pool[q] # c
      /\ \A u \in Task \ {t} : job[u].client # c
      /\ job[t].at = "dial"
  BY DEF Dialed, At, IInv, Placed, Own, Inside, Dialing, Emptied
<1>2. pool' = [pool EXCEPT ![r] = c] /\ UNCHANGED <<sock, closing, stray, wedged>>
  BY DEF Dialed, RoleOf
<1>3. /\ lock' \in [Role -> Task \cup {Free}] /\ life' \in Task \cup {Free}
      /\ \A q \in Role : lock[q] \in Task \ {t} => lock'[q] = lock[q]
      /\ \/ Waits(t)
         \/ /\ Moves(t, job[t].kind, "holding", r, c)
            /\ job[t].kind \in Callers /\ lock' = lock
  <2>1. CASE Borrows(t) /\ Hand(t, job[t].client) /\ UNCHANGED <<lock, life>>
    BY <1>1, <2>1, ToClient DEF Hand, Borrows, Places, IInv, TypeOK
  <2>2. CASE RoleDone(t)
    <3>1. /\ Waits(t) /\ lock' = [lock EXCEPT ![RoleOf(t)] = Free]
          /\ lock' \in [Role -> Task \cup {Free}] /\ life' \in Task \cup {Free}
      BY <2>2, RoleDoneWaits
    <3>2. \A q \in Role : lock[q] \in Task \ {t} => lock'[q] = lock[q]
      BY <1>1, <3>1 DEF RoleOf, IInv, TypeOK
    <3>3. QED BY <3>1, <3>2
  <2>3. QED BY <2>1, <2>2 DEF Dialed
<1>4. TypeOK'
  BY <1>1, <1>2, <1>3 DEF IInv, TypeOK, Waits, Moves
<1>5. \A q \in Role : lock[q] \in Task \ {t} => lock'[q] = lock[q] /\ pool'[q] = pool[q]
  BY <1>1, <1>2, <1>3 DEF IInv, TypeOK
<1>6. \A u \in Task \ {t} : job'[u] = job[u]
  BY <1>3 DEF Waits, Moves
<1>7. (\A u \in Task : Placed(u))'
  <2>1. \A u \in Task \ {t} : Placed(u)'
    BY <1>5, <1>6, OthersPlaced
  <2>2. CASE Waits(t)
    BY <1>5, <2>2, WaitsPlaced
  <2>3. CASE Moves(t, job[t].kind, "holding", r, c) /\ job[t].kind \in Callers /\ lock' = lock
    <3>1. Placed(t)'
      BY <1>1, <1>2, <2>3 DEF Moves, Placed, Inside, Using, Emptied, IInv, TypeOK
    <3>2. QED BY <2>1, <3>1
  <2>4. QED BY <1>3, <2>2, <2>3
<1>8. (\A u \in Task : Own(u))'
  <2>1. Own(t)'
    BY <1>3 DEF Waits, Moves, Own, Dialing
  <2>2. job'[t].client \in {NoClient, job[t].client}
    BY <1>3 DEF Waits, Moves
  <2>3. \A q \in Role : pool'[q] = pool[q] \/ pool'[q] = NoClient \/ pool'[q] = job[t].client
    BY <1>2 DEF IInv, TypeOK
  <2>4. \A u \in Task \ {t} : Own(u)'
    BY <1>2, <1>6, <2>2, <2>3, OthersOwn
  <2>5. QED BY <2>1, <2>4
<1>9. OneRole'
  BY <1>1, <1>2 DEF OneRole, IInv, TypeOK
<1>10. AllKnown'
  <2>1. \A q \in Role : pool'[q] = pool[q] \/ pool[q] \in closing' \cup {NoClient}
    BY <1>1, <1>2 DEF IInv, TypeOK
  <2>2. \E q \in Role : pool'[q] = job[t].client
    BY <1>1, <1>2 DEF IInv, TypeOK
  <2>3. QED BY <1>2, <1>6, <2>1, <2>2, StaysKnown
<1>11. Retired'
  BY <1>2, Retired_same
<1>12. QED BY <1>4, <1>7, <1>8, <1>9, <1>10, <1>11 DEF IInv

LEMMA DialFailed_IInv == ASSUME IInv, NEW t \in Task, DialFailed(t) PROVE IInv'
<1> DEFINE c == job[t].client
<1>1. /\ RoleOf(t) \in Role /\ lock[RoleOf(t)] = t /\ c \in Client
      /\ \A r \in Role : pool[r] # c
      /\ job[t].at = "dial"
  BY DEF DialFailed, At, IInv, Placed, Own, Inside, Dialing, RoleOf
<1>2. UNCHANGED <<pool, closing, stray, wedged>>
  BY DEF DialFailed
<1>3. OneRole' /\ Retired'
  BY <1>2, Retired_same DEF IInv, OneRole
<1>4. CASE TriesAgain(t) /\ job' = [job EXCEPT ![t].tries = @ + 1]
             /\ sock' = [sock EXCEPT ![c] = "dialing"] /\ UNCHANGED <<lock, life>>
  <2> DEFINE n == [job[t] EXCEPT !.tries = @ + 1]
  <2>1. /\ n \in Job /\ n.kind = job[t].kind /\ n.at = job[t].at /\ n.role = job[t].role
        /\ n.client = job[t].client
    BY <1>4, PoolAssumption DEF IInv, TypeOK, Job, TriesAgain
  <2>2. job' = [job EXCEPT ![t] = n]
    BY <1>4
  <2> HIDE DEF n
  <2>3. Moves(t, job[t].kind, job[t].at, job[t].role, job[t].client)
    BY <2>1, <2>2, SetsJob DEF IInv, TypeOK
  <2>4. TypeOK'
    BY <1>2, <1>4, <2>3 DEF IInv, TypeOK, Moves
  <2>5. (\A u \in Task : Placed(u))'
    BY <1>2, <1>4, <2>3 DEF Moves, Placed, IInv
  <2>6. (\A u \in Task : Own(u))'
    BY <1>2, <2>3 DEF Moves, Own, IInv
  <2>7. AllKnown'
    <3>1. \A d \in Client : sock'[d] \in {"dialing", "up"} =>
                \/ sock[d] \in {"dialing", "up"}
                \/ job'[t].at \in Dialing /\ job'[t].client = d
      BY <1>1, <1>4, <2>3 DEF Moves, Dialing, IInv, TypeOK
    <3>2. QED BY <1>2, <2>3, <3>1, StaysKnown DEF Moves
  <2>8. QED BY <1>3, <2>4, <2>5, <2>6, <2>7 DEF IInv
<1>5. CASE RoleDone(t) /\ sock' = [sock EXCEPT ![c] = "down"]
  <2>1. /\ Waits(t) /\ lock' = [lock EXCEPT ![RoleOf(t)] = Free]
        /\ lock' \in [Role -> Task \cup {Free}] /\ life' \in Task \cup {Free}
    BY <1>5, RoleDoneWaits
  <2>2. \A q \in Role : lock[q] \in Task \ {t} => lock'[q] = lock[q]
    BY <1>1, <2>1 DEF IInv, TypeOK
  <2>3. TypeOK'
    BY <1>2, <1>5, <2>1 DEF IInv, TypeOK, Waits
  <2>4. (\A u \in Task : Placed(u))'
    BY <1>2, <2>1, <2>2, WaitsPlaced
  <2>5. (\A u \in Task : Own(u))'
    BY <1>2, <2>1, WaitsOwn
  <2>6. AllKnown'
    <3>1. sock'[c] = "down" /\ \A d \in Client : sock'[d] \in {"dialing", "up"} =>
                                                sock[d] \in {"dialing", "up"}
      BY <1>1, <1>5 DEF IInv, TypeOK
    <3>2. QED BY <1>2, <2>1, <3>1, StaysKnown DEF Waits
  <2>7. QED BY <1>3, <2>3, <2>4, <2>5, <2>6 DEF IInv
<1>6. QED BY <1>4, <1>5 DEF DialFailed

LEMMA Abandon_IInv == ASSUME IInv, NEW t \in Task, Abandon(t) PROVE IInv'
<1> DEFINE c == job[t].client
<1>1. c \in Client /\ job[t].at = "abandon"
  BY DEF Abandon, At, IInv, Own, Dialing
<1>2. UNCHANGED <<pool, closing, stray, wedged>> /\ sock' = [sock EXCEPT ![c] = "down"]
  BY DEF Abandon
<1>3. /\ Waits(t) /\ lock' \in [Role -> Task \cup {Free}] /\ life' \in Task \cup {Free}
      /\ \A r \in Role : lock[r] \in Task \ {t} => lock'[r] = lock[r]
  BY QuitWaits DEF Abandon
<1>4. TypeOK'
  BY <1>2, <1>3 DEF IInv, TypeOK, Waits
<1>5. (\A u \in Task : Placed(u))'
  BY <1>2, <1>3, WaitsPlaced
<1>6. (\A u \in Task : Own(u))'
  BY <1>2, <1>3, WaitsOwn
<1>7. OneRole' /\ Retired'
  BY <1>2, Retired_same DEF IInv, OneRole
<1>8. AllKnown'
  <2>1. sock'[c] = "down" /\ \A d \in Client : sock'[d] \in {"dialing", "up"} =>
                                              sock[d] \in {"dialing", "up"}
    BY <1>1, <1>2 DEF IInv, TypeOK
  <2>2. QED BY <1>2, <1>3, <2>1, StaysKnown DEF Waits
<1>9. QED BY <1>4, <1>5, <1>6, <1>7, <1>8 DEF IInv
(* What becomes of the worker a task leaves behind.                        *)
LEMMA LeaveWorker_type ==
    ASSUME IInv, NEW t \in Task, NEW how \in Callers \cup {"cancelled"},
           LeaveWorker(t, how), RoleOf(t) \in Role,
           how = "bounded" => pool'[RoleOf(t)] # job[t].client
    PROVE  /\ stray' \subseteq Role \X (Callers \cup {"cancelled"})
           /\ Retired'
<1>1. \/ stray' \subseteq stray
      \/ how # "bounded" /\ stray' = stray \cup {<<RoleOf(t), how>>}
  BY DEF LeaveWorker
<1>2. CASE stray' \subseteq stray
  BY <1>2, Retired_same DEF IInv, TypeOK
<1>3. CASE how # "bounded" /\ stray' = stray \cup {<<RoleOf(t), how>>}
  BY <1>3 DEF IInv, TypeOK, Retired
<1>4. QED BY <1>1, <1>2, <1>3

LEMMA Cancel_IInv == ASSUME IInv, NEW t \in Task, Cancel(t) PROVE IInv'
<1>1. UNCHANGED <<pool, sock, closing, wedged>> /\ job[t].at \notin Dialing
  BY DEF Cancel, Dialing
<1>2. /\ Waits(t) /\ lock' \in [Role -> Task \cup {Free}] /\ life' \in Task \cup {Free}
      /\ \A r \in Role : lock[r] \in Task \ {t} => lock'[r] = lock[r]
  BY QuitWaits DEF Cancel, CancelGivesBack
<1>3. stray' \subseteq Role \X (Callers \cup {"cancelled"}) /\ Retired'
  <2>1. CASE At(t, "calling") /\ LeaveWorker(t, "cancelled")
    <3>1. RoleOf(t) \in Role
      BY <2>1, RoleLock DEF At, Inside
    <3>2. QED BY <2>1, <3>1, LeaveWorker_type
  <2>2. CASE UNCHANGED stray
    BY <2>2, Retired_same DEF IInv, TypeOK
  <2>3. QED BY <2>1, <2>2 DEF Cancel
<1>4. wedged' \in Nat
  BY <1>1 DEF IInv, TypeOK
<1>5. QED BY <1>1, <1>2, <1>3, <1>4, Leaves

LEMMA CallTimesOut_IInv == ASSUME IInv, NEW t \in Task, CallTimesOut(t) PROVE IInv'
<1> DEFINE r == job[t].role
           c == job[t].client
<1>1. /\ r \in Role /\ lock[r] = t /\ c \in Client /\ pool[r] = c
      /\ job[t].kind \in Callers /\ job[t].at = "calling"
  BY DEF CallTimesOut, At, IInv, Placed, Inside, Using
<1>2. /\ RoleDone(t) /\ UNCHANGED sock /\ LeaveWorker(t, job[t].kind)
      /\ \/ /\ job[t].kind = "bounded" /\ wedged' = wedged + 1
            /\ pool' = [pool EXCEPT ![r] = NoClient] /\ closing' = closing \cup {c}
         \/ /\ job[t].kind = "abandoning" /\ UNCHANGED <<pool, closing, wedged>>
  BY <1>1 DEF CallTimesOut, Retire, RoleOf
<1>3. /\ Waits(t) /\ lock' = [lock EXCEPT ![r] = Free]
      /\ lock' \in [Role -> Task \cup {Free}] /\ life' \in Task \cup {Free}
  BY <1>2, RoleDoneWaits DEF RoleOf
<1>4. \A q \in Role : lock[q] \in Task \ {t} => lock'[q] = lock[q] /\ pool'[q] = pool[q]
  BY <1>1, <1>2, <1>3 DEF IInv, TypeOK
<1>5. stray' \subseteq Role \X (Callers \cup {"cancelled"}) /\ Retired'
  <2>1. job[t].kind = "bounded" => pool'[RoleOf(t)] # job[t].client
    BY <1>1, <1>2, PoolAssumption DEF RoleOf, IInv, TypeOK
  <2>2. RoleOf(t) \in Role /\ job[t].kind \in Callers \cup {"cancelled"}
    BY <1>1 DEF RoleOf
  <2>3. QED BY <1>2, <2>1, <2>2, LeaveWorker_type
<1>6. TypeOK'
  BY <1>1, <1>2, <1>3, <1>5 DEF IInv, TypeOK, Waits
<1>7. (\A u \in Task : Placed(u))'
  BY <1>3, <1>4, WaitsPlaced
<1>8. /\ \A d \in closing' : d \in closing \/ d = c
      /\ \A d \in closing : d \in closing'
      /\ \A q \in Role : \/ pool'[q] = pool[q]
                         \/ pool'[q] = NoClient /\ pool[q] \in closing'
  BY <1>1, <1>2 DEF IInv, TypeOK
<1>9. (\A u \in Task : Own(u))'
  BY <1>3, <1>8, WaitsOwn
<1>10. OneRole'
  BY <1>1, <1>2, PoolAssumption DEF OneRole, IInv, TypeOK
<1>11. AllKnown'
  BY <1>1, <1>2, <1>3, <1>8, StaysKnown DEF Waits, Dialing
<1>12. QED BY <1>5, <1>6, <1>7, <1>9, <1>10, <1>11 DEF IInv

-----------------------------------------------------------------------------
(* Worker threads and the Gateway.                                         *)
LEMMA DialEnds_IInv == ASSUME IInv, NEW c \in Client, DialEnds(c) PROVE IInv'
<1>1. UNCHANGED <<pool, closing, lock, life, job, stray, wedged>>
  BY DEF DialEnds
<1>2. TypeOK'
  BY <1>1 DEF DialEnds, IInv, TypeOK
<1>3. \A d \in Client : sock'[d] \in {"dialing", "up"} => sock[d] \in {"dialing", "up"}
  BY DEF DialEnds, IInv, TypeOK
<1>4. AllKnown'
  BY <1>1, <1>3 DEF IInv, AllKnown, Known
<1>5. QED BY <1>1, <1>2, <1>4 DEF IInv, Placed, Own, OneRole, Retired

LEMMA Closes_IInv == ASSUME IInv, NEW c \in Client, Closes(c) PROVE IInv'
<1>1. /\ UNCHANGED <<pool, lock, life, job, stray, wedged>>
      /\ closing' = closing \ {c} /\ sock' = [sock EXCEPT ![c] = "down"]
  BY DEF Closes
<1>2. TypeOK'
  BY <1>1 DEF IInv, TypeOK
<1>3. AllKnown'
  <2>1. SUFFICES ASSUME NEW d \in Client, sock'[d] \in {"dialing", "up"} PROVE Known(d)'
    BY DEF AllKnown
  <2>2. d # c /\ sock[d] \in {"dialing", "up"}
    BY <1>1, <2>1 DEF IInv, TypeOK
  <2>3. QED BY <1>1, <2>2 DEF IInv, AllKnown, Known
<1>4. (\A t \in Task : Placed(t))' /\ (\A t \in Task : Own(t))' /\ Retired'
  BY <1>1 DEF IInv, Placed, Own, Retired
<1>5. OneRole'
  BY <1>1 DEF IInv, OneRole
<1>6. QED BY <1>2, <1>3, <1>4, <1>5 DEF IInv

LEMMA SocketDrops_IInv == ASSUME IInv, NEW c \in Client, SocketDrops(c) PROVE IInv'
<1>1. UNCHANGED <<pool, closing, lock, life, job, stray, wedged>>
  BY DEF SocketDrops
<1>2. TypeOK'
  BY <1>1 DEF SocketDrops, IInv, TypeOK
<1>3. \A d \in Client : sock'[d] \in {"dialing", "up"} => sock[d] \in {"dialing", "up"}
  BY DEF SocketDrops, IInv, TypeOK
<1>4. AllKnown'
  BY <1>1, <1>3 DEF IInv, AllKnown, Known
<1>5. QED BY <1>1, <1>2, <1>4 DEF IInv, Placed, Own, OneRole, Retired

LEMMA Returns_IInv == ASSUME IInv, StrayReturns \/ WedgedReturns PROVE IInv'
<1>1. UNCHANGED <<pool, sock, closing, lock, life, job>> /\ stray' \subseteq stray
  BY DEF StrayReturns, WedgedReturns
<1>2. wedged' \in Nat
  BY DEF StrayReturns, WedgedReturns, IInv, TypeOK
<1>3. TypeOK' /\ Retired'
  BY <1>1, <1>2, Retired_same DEF IInv, TypeOK
<1>4. QED BY <1>1, <1>3 DEF IInv, Placed, Own, OneRole, AllKnown, Known

LEMMA Step_IInv == IInv /\ [Next]_vars => IInv'
<1> SUFFICES ASSUME IInv, [Next]_vars PROVE IInv' OBVIOUS
<1>1. CASE UNCHANGED vars
  BY <1>1 DEF vars, IInv, TypeOK, Placed, Own, OneRole, AllKnown, Known, Retired
<1>2. CASE \E t \in Task : \/ Start(t) \/ Wake(t) \/ Proceed(t)
                           \/ Submit(t) \/ CallAnswers(t) \/ Leave(t)
                           \/ Cancel(t) \/ CancelDial(t)
  <2> PICK t \in Task : \/ Start(t) \/ Wake(t) \/ Proceed(t)
                        \/ Submit(t) \/ CallAnswers(t) \/ Leave(t)
                        \/ Cancel(t) \/ CancelDial(t)
    BY <1>2
  <2>1. CASE Start(t)
    BY <2>1, Borrow_IInv, StartLife_IInv, StartRoles_IInv DEF Start
  <2>2. CASE Wake(t)
    BY <2>2, BorrowRefused_IInv, BorrowLive_IInv, BorrowDead_IInv, SkipConnected_IInv,
       ReconnectRole_IInv, DropRole_IInv, TakeLife_IInv DEF Wake
  <2>3. CASE Proceed(t)
    BY <2>3, ProbeAnswers_IInv, ProbeFails_IInv, StaleClosed_IInv, Dialed_IInv,
       DialFailed_IInv, Abandon_IInv, CallTimesOut_IInv DEF Proceed
  <2>4. CASE Submit(t) \/ CallAnswers(t) \/ Leave(t) \/ Cancel(t) \/ CancelDial(t)
    BY <2>4, Submit_IInv, CallAnswers_IInv, Leave_IInv, Cancel_IInv, CancelDial_IInv
  <2>5. QED BY <2>1, <2>2, <2>3, <2>4
<1>3. CASE \E c \in Client : DialEnds(c) \/ Closes(c) \/ SocketDrops(c)
  BY <1>3, DialEnds_IInv, Closes_IInv, SocketDrops_IInv
<1>4. CASE StrayReturns \/ WedgedReturns
  BY <1>4, Returns_IInv
<1>5. QED BY <1>1, <1>2, <1>3, <1>4 DEF Next

(* The strengthening the four results below rest on: every lock, client    *)
(* and connection of the pool has exactly one place that answers for it    *)
(* (ib_pool.py:183-259, 283-321).                                          *)
THEOREM Inductive == Spec => []IInv
BY Init_IInv, Step_IInv, PTL DEF Spec

(* The pool's variables keep their types.                                  *)
THEOREM Typing == Spec => []TypeOK
<1>1. IInv => TypeOK
  BY DEF IInv
<1>2. QED BY Inductive, <1>1, PTL

(* A live connection is a role's, or is being disconnected, or a task      *)
(* still answers for it: however tasks are cancelled, no client id is held *)
(* by a connection nobody knows of (ib_pool.py:58-84, 222-259).            *)
THEOREM NoneIsLost == Spec => []NoLostConnection
<1>1. IInv => NoLostConnection
  BY DEF IInv, AllKnown, Known, NoLostConnection, Dialing
<1>2. QED BY Inductive, <1>1, PTL

(* A task that has a client has its role's client, for as long as it has   *)
(* it (ib_pool.py:183-195, 283-321).                                       *)
THEOREM Undisturbed == Spec => []BorrowIsUndisturbed
<1>1. IInv => BorrowIsUndisturbed
  BY DEF IInv, Placed, OneRole, BorrowIsUndisturbed, Using, RoleOf
<1>2. QED BY Inductive, <1>1, PTL

(* No call runs on a client that another task's call, or the worker of a   *)
(* bounded call that timed out, is using (routes/historical.py:101-126).   *)
THEOREM Quarantined == Spec => []QuarantineHolds
<1>1. ASSUME IInv, NEW t \in Task, At(t, "calling") PROVE ~Sharing(t, {"bounded"})
  <2>1. /\ RoleOf(t) \in Role /\ lock[RoleOf(t)] = t
        /\ pool[RoleOf(t)] = job[t].client /\ job[t].client \in Client
    BY <1>1 DEF At, IInv, Placed, Inside, Using, RoleOf
  <2>2. <<RoleOf(t), "bounded">> \notin stray
    BY <1>1, <2>1 DEF IInv, Retired
  <2>3. ASSUME NEW u \in Task \ {t}, At(u, "calling"), job[u].client = job[t].client
        PROVE  FALSE
    <3>1. /\ RoleOf(u) \in Role /\ lock[RoleOf(u)] = u
          /\ pool[RoleOf(u)] = job[u].client
      BY <1>1, <2>3 DEF At, IInv, Placed, Inside, Using, RoleOf
    <3>2. RoleOf(u) = RoleOf(t)
      BY <1>1, <2>1, <2>3, <3>1, PoolAssumption DEF IInv, OneRole
    <3>3. QED BY <2>1, <2>3, <3>1, <3>2
  <2>4. QED BY <2>2, <2>3 DEF Sharing
<1>2. IInv => QuarantineHolds
  BY <1>1 DEF QuarantineHolds
<1>3. QED BY Inductive, <1>2, PTL

(***************************************************************************)
(* Who waits for whom.  A role's lock is held by a task that is in the     *)
(* middle of that role's work, the lifecycle lock by a job that has left   *)
(* its own wait behind: nobody holds a lock idly, and nobody who holds a   *)
(* role's lock waits for another.                                          *)
(***************************************************************************)
LocksAreUsed ==
    /\ \A r \in Role : lock[r] # Free =>
          job[lock[r]].at \in Inside /\ job[lock[r]].role = r
    /\ life # Free =>
          /\ job[life].kind \notin Callers \cup {"roles"}
          /\ job[life].at \notin {"idle", "life"}
    /\ \A t \in Task : job[t].at = "life" => job[t].kind \notin Callers \cup {"roles"}

WaitsFor(t, u) ==
    \/ At(t, "role") /\ lock[RoleOf(t)] = u
    \/ At(t, "life") /\ life = u

ChainsAreShort ==
    \A t, u, v \in Task :
        WaitsFor(t, u) /\ WaitsFor(u, v) => \A w \in Task : ~WaitsFor(v, w)

LEMMA Lets ==
    ASSUME IInv, LocksAreUsed, NEW t \in Task, \A u \in Task \ {t} : job'[u] = job[u],
           \A r \in Role : lock'[r] \in {lock[r], Free} /\ lock'[r] # t,
           life' \in {life, Free, t},
           life' = t => /\ job'[t].kind \notin Callers \cup {"roles"}
                        /\ job'[t].at \notin {"idle", "life"},
           job'[t].at = "life" => job'[t].kind \notin Callers \cup {"roles"}
    PROVE  LocksAreUsed'
BY DEF LocksAreUsed, IInv, TypeOK

LEMMA QuitLets ==
    ASSUME IInv, LocksAreUsed, NEW t \in Task, Quit(t)
    PROVE  LocksAreUsed'
<1>1. job'[t].at = "idle" /\ \A u \in Task \ {t} : job'[u] = job[u]
  BY DEF Quit, Idle, IInv, TypeOK
<1>2. \A r \in Role : lock'[r] \in {lock[r], Free} /\ lock'[r] # t
  BY PoolAssumption DEF Quit
<1>3. life' \in {life, Free} /\ life' # t
  BY PoolAssumption DEF Quit
<1>4. QED BY <1>1, <1>2, <1>3, Lets

LEMMA NextRoleMoves ==
    ASSUME IInv, NEW t \in Task, NEW k \in {"none"} \cup Callers \cup Jobs \cup {"connect"},
           NEW todo \in SUBSET Role, NextRole(t, k, todo)
    PROVE  /\ job'[t].at = "role" /\ job'[t].kind \in {k, "connect"}
           /\ \A u \in Task \ {t} : job'[u] = job[u]
<1>1. CASE \E r \in todo : job' = [job EXCEPT ![t] = Await(k, r, todo \ {r})]
  <2>1. PICK r \in todo : job' = [job EXCEPT ![t] = Await(k, r, todo \ {r})]
    BY <1>1
  <2>2. Moves(t, k, "role", r, NoClient)
    BY <2>1, ToAwait DEF IInv, TypeOK
  <2>3. QED BY <2>2 DEF Moves
<1>2. CASE \E r \in Role : job' = [job EXCEPT ![t] = Await("connect", r, Role \ {r})]
  <2>1. PICK r \in Role : job' = [job EXCEPT ![t] = Await("connect", r, Role \ {r})]
    BY <1>2
  <2>2. Moves(t, "connect", "role", r, NoClient)
    BY <2>1, ToAwait DEF IInv, TypeOK
  <2>3. QED BY <2>2 DEF Moves
<1>3. QED BY <1>1, <1>2 DEF NextRole

LEMMA DoneLets ==
    ASSUME IInv, LocksAreUsed, NEW t \in Task, RoleDone(t),
           Locks(t) \/ job[t].at \in Inside
    PROVE  LocksAreUsed'
<1>1. RoleOf(t) \in Role /\ lock[RoleOf(t)] \in {t, Free}
      /\ lock' = [lock EXCEPT ![RoleOf(t)] = Free]
  BY RoleLock DEF RoleDone
<1>2. \A r \in Role : lock'[r] \in {lock[r], Free} /\ lock'[r] # t
  <2>1. \A r \in Role : lock[r] = t => r = RoleOf(t)
    BY PoolAssumption DEF LocksAreUsed, RoleOf
  <2>2. QED BY <1>1, <2>1, PoolAssumption DEF IInv, TypeOK
<1>3. CASE Last(t)
  <2>1. job'[t].at = "idle" /\ \A u \in Task \ {t} : job'[u] = job[u]
    BY <1>3 DEF RoleDone, Idle, IInv, TypeOK
  <2>2. life' \in {life, Free} /\ life' # t
    BY <1>3, PoolAssumption DEF RoleDone
  <2>3. QED BY <1>2, <2>1, <2>2, Lets
<1>4. CASE ~Last(t)
  <2> DEFINE k == job[t].kind
  <2>1. NextRole(t, k, job[t].todo) /\ life' = life
    BY <1>4 DEF RoleDone
  <2>2. k \in {"none"} \cup Callers \cup Jobs \cup {"connect"} /\ job[t].todo \in SUBSET Role
    BY DEF IInv, TypeOK, Job
  <2>3. /\ job'[t].at = "role" /\ job'[t].kind \in {k, "connect"}
        /\ \A u \in Task \ {t} : job'[u] = job[u]
    BY <2>1, <2>2, NextRoleMoves
  <2>4. life = t => k \notin Callers \cup {"roles"}
    BY PoolAssumption DEF LocksAreUsed
  <2>5. "connect" \notin Callers \cup {"roles"}
    BY PoolAssumption
  <2>6. life' = t => /\ job'[t].kind \notin Callers \cup {"roles"}
                     /\ job'[t].at \notin {"idle", "life"}
    BY <2>1, <2>3, <2>4, <2>5
  <2>7. QED BY <1>2, <2>1, <2>3, <2>6, Lets
<1>5. QED BY <1>3, <1>4

(* A task in the middle of a role's work stays there or gets there.        *)
LEMMA StaysInside ==
    ASSUME IInv, LocksAreUsed, NEW t \in Task, NEW a \in Inside, NEW c,
           Moves(t, job[t].kind, a, job[t].role, c), RoleOf(t) \in Role,
           \A r \in Role : lock'[r] = lock[r] \/ (r = RoleOf(t) /\ lock'[r] = t),
           life' = life
    PROVE  LocksAreUsed'
<1>1. ASSUME NEW r \in Role, lock'[r] # Free
      PROVE  job'[lock'[r]].at \in Inside /\ job'[lock'[r]].role = r
  <2>1. CASE lock'[r] = t
    <3>1. r = RoleOf(t)
      BY <2>1, PoolAssumption DEF LocksAreUsed, RoleOf
    <3>2. QED BY <2>1, <3>1 DEF Moves, RoleOf
  <2>2. CASE lock'[r] # t
    BY <1>1, <2>2 DEF Moves, LocksAreUsed, IInv, TypeOK
  <2>3. QED BY <2>1, <2>2
<1>2. ASSUME life' # Free
      PROVE  /\ job'[life'].kind \notin Callers \cup {"roles"}
             /\ job'[life'].at \notin {"idle", "life"}
  BY <1>2 DEF Moves, LocksAreUsed, IInv, TypeOK, Inside
<1>3. \A u \in Task : job'[u].at = "life" => job'[u].kind \notin Callers \cup {"roles"}
  BY DEF Moves, LocksAreUsed, Inside
<1>4. QED BY <1>1, <1>2, <1>3 DEF LocksAreUsed

LEMMA ReconnectLocks ==
    ASSUME IInv, LocksAreUsed, NEW t \in Task, Reconnect(t), life' = life, RoleOf(t) \in Role
    PROVE  LocksAreUsed'
<1>1. \A r \in Role : lock'[r] = lock[r] \/ (r = RoleOf(t) /\ lock'[r] = t)
  BY DEF Reconnect, IInv, TypeOK
<1>2. CASE CloseStale(t)
  <2> DEFINE c == pool[RoleOf(t)]
  <2>1. c \in Client /\ job' = [job EXCEPT ![t].at = "close", ![t].client = c]
    BY <1>2 DEF CloseStale, IInv, TypeOK
  <2>2. Moves(t, job[t].kind, "close", job[t].role, c)
    BY <2>1, ToClient DEF Places, IInv, TypeOK
  <2>3. QED BY <1>1, <2>2, StaysInside DEF Inside
<1>3. CASE DialFresh(t)
  <2>1. PICK c \in Client : job' = [job EXCEPT ![t].at = "dial", ![t].client = c]
    BY <1>3 DEF DialFresh
  <2>2. Moves(t, job[t].kind, "dial", job[t].role, c)
    BY <2>1, ToClient DEF Places, IInv, TypeOK
  <2>3. QED BY <1>1, <2>2, StaysInside DEF Inside
<1>4. QED BY <1>2, <1>3 DEF Reconnect

LEMMA PlaceLocks ==
    ASSUME IInv, LocksAreUsed, NEW t \in Task, NEW a \in Inside, job[t].at \in Inside,
           job' = [job EXCEPT ![t].at = a], UNCHANGED <<lock, life>>
    PROVE  LocksAreUsed'
<1>1. Moves(t, job[t].kind, a, job[t].role, job[t].client)
  BY ToPlace DEF Places, Inside, IInv, TypeOK
<1>2. RoleOf(t) \in Role
  BY RoleLock
<1>3. QED BY <1>1, <1>2, StaysInside

LEMMA WakeLocks ==
    ASSUME IInv, LocksAreUsed, NEW t \in Task, Wake(t)
    PROVE  LocksAreUsed'
<1>1. CASE BorrowRefused(t) \/ SkipConnected(t)
  BY <1>1, DoneLets DEF BorrowRefused, SkipConnected
<1>2. CASE BorrowLive(t)
  <2>1. RoleOf(t) \in Role
    BY <1>2, RoleLock DEF BorrowLive
  <2>2. \A r \in Role : lock'[r] = lock[r] \/ (r = RoleOf(t) /\ lock'[r] = t)
    BY <1>2 DEF BorrowLive, IInv, TypeOK
  <2>3. \E a \in Inside : \E c : Moves(t, job[t].kind, a, job[t].role, c)
    <3>1. CASE job' = [job EXCEPT ![t].at = "probe"]
      BY <3>1, ToPlace DEF Places, Inside, IInv, TypeOK
    <3>2. CASE Hand(t, pool[RoleOf(t)])
      <4>1. pool[RoleOf(t)] \in Client \cup {NoClient}
        BY <2>1 DEF IInv, TypeOK
      <4>2. QED BY <3>2, <4>1, ToClient DEF Hand, Places, Inside, IInv, TypeOK
    <3>3. QED BY <1>2, <3>1, <3>2 DEF BorrowLive
  <2>4. QED BY <1>2, <2>1, <2>2, <2>3, StaysInside DEF BorrowLive
<1>3. CASE BorrowDead(t) \/ ReconnectRole(t)
  BY <1>3, ReconnectLocks, RoleLock DEF BorrowDead, ReconnectRole
<1>4. CASE DropRole(t)
  <2>1. CASE RoleDone(t)
    BY <1>4, <2>1, DoneLets DEF DropRole
  <2>2. CASE CloseStale(t) /\ lock' = [lock EXCEPT ![RoleOf(t)] = t] /\ life' = life
    BY <1>4, <2>2, ReconnectLocks, RoleLock DEF DropRole, Reconnect
  <2>3. QED BY <1>4, <2>1, <2>2 DEF DropRole
<1>5. CASE TakeLife(t)
  <2> DEFINE todo == IF job[t].kind = "connect" THEN Role
                     ELSE {r \in Role : pool[r] # NoClient}
             k == job[t].kind
  <2>1. CASE Quit(t)
    BY <2>1, QuitLets
  <2>2. CASE NextRole(t, k, todo) /\ life' = t /\ UNCHANGED lock
    <3>1. k \in {"none"} \cup Callers \cup Jobs \cup {"connect"} /\ todo \in SUBSET Role
      BY DEF IInv, TypeOK, Job
    <3> HIDE DEF todo
    <3>2. /\ job'[t].at = "role" /\ job'[t].kind \in {k, "connect"}
          /\ \A u \in Task \ {t} : job'[u] = job[u]
      BY <2>2, <3>1, NextRoleMoves
    <3>3. "connect" \notin Callers \cup {"roles"}
      BY PoolAssumption
    <3>4. \A r \in Role : lock[r] # t
      BY <1>5, PoolAssumption DEF TakeLife, At, LocksAreUsed, Inside
    <3>5. k \notin Callers \cup {"roles"}
      BY <1>5 DEF LocksAreUsed, TakeLife, At
    <3>6. QED BY <2>2, <3>2, <3>3, <3>4, <3>5, Lets
  <2>3. QED BY <1>5, <2>1, <2>2 DEF TakeLife
<1>6. QED BY <1>1, <1>2, <1>3, <1>4, <1>5 DEF Wake

LEMMA ProceedLocks ==
    ASSUME IInv, LocksAreUsed, NEW t \in Task, Proceed(t)
    PROVE  LocksAreUsed'
<1>1. job[t].at \in Inside /\ RoleOf(t) \in Role
  <2>1. job[t].at \in Inside
    BY DEF Proceed, ProbeAnswers, ProbeFails, StaleClosed, Dialed, DialFailed, Abandon,
           CallTimesOut, At, Inside
  <2>2. QED BY <2>1, RoleLock
<1>2. CASE RoleDone(t)
  BY <1>1, <1>2, DoneLets
<1>3. CASE Abandon(t)
  BY <1>3, QuitLets DEF Abandon
<1>4. CASE ProbeFails(t)
  BY <1>1, <1>4, ReconnectLocks DEF ProbeFails
<1>5. CASE StaleClosed(t) /\ DialFresh(t) /\ UNCHANGED <<lock, life>>
  <2>1. PICK c \in Client : job' = [job EXCEPT ![t].at = "dial", ![t].client = c]
    BY <1>5 DEF DialFresh
  <2>2. Moves(t, job[t].kind, "dial", job[t].role, c)
    BY <2>1, ToClient DEF Places, IInv, TypeOK
  <2>3. QED BY <1>1, <1>5, <2>2, StaysInside DEF Inside
<1>6. CASE UNCHANGED <<lock, life>> /\ \E c \in Client \cup {NoClient} : Hand(t, c)
  <2>1. PICK c \in Client \cup {NoClient} : Hand(t, c)
    BY <1>6
  <2>2. Moves(t, job[t].kind, "holding", job[t].role, c)
    BY <2>1, ToClient DEF Hand, Places, IInv, TypeOK
  <2>3. QED BY <1>1, <1>6, <2>2, StaysInside DEF Inside
<1>7. CASE UNCHANGED <<lock, life>> /\ job' = [job EXCEPT ![t].tries = @ + 1]
  <2>1. /\ job'[t].at = job[t].at /\ job'[t].role = job[t].role /\ job'[t].kind = job[t].kind
        /\ \A u \in Task \ {t} : job'[u] = job[u]
    BY <1>7 DEF IInv, TypeOK, Job
  <2>2. QED BY <1>7, <2>1 DEF LocksAreUsed, IInv, TypeOK
<1>8. pool[RoleOf(t)] \in Client \cup {NoClient} /\ job[t].client \in Client \cup {NoClient}
  BY <1>1 DEF IInv, TypeOK, Job
<1>9. QED
  BY <1>2, <1>3, <1>4, <1>5, <1>6, <1>7, <1>8
     DEF Proceed, ProbeAnswers, StaleClosed, Dialed, DialFailed, CallTimesOut

LEMMA StartLocks ==
    ASSUME IInv, LocksAreUsed, NEW t \in Task, Start(t)
    PROVE  LocksAreUsed'
<1>1. /\ job[t].at = "idle" /\ UNCHANGED <<lock, life>>
      /\ \A u \in Task \ {t} : job'[u] = job[u]
      /\ job'[t].at = "life" => job'[t].kind \in Jobs \ {"roles"}
  <2>1. ASSUME NEW k \in Callers, NEW r \in Role, Borrow(t, k, r)
        PROVE  job'[t].at = "role" /\ \A u \in Task \ {t} : job'[u] = job[u]
    BY <2>1 DEF Borrow, IInv, TypeOK, Job
  <2>2. ASSUME NEW k \in Jobs \ {"roles"}, StartLife(t, k)
        PROVE  job'[t].kind = k /\ \A u \in Task \ {t} : job'[u] = job[u]
    BY <2>2 DEF StartLife, IInv, TypeOK, Job
  <2>3. ASSUME "roles" \in Jobs, StartRoles(t)
        PROVE  job'[t].at = "role" /\ \A u \in Task \ {t} : job'[u] = job[u]
    <3>1. NextRole(t, "roles", {r \in Role : ~Connected(r)})
      BY <2>3 DEF StartRoles
    <3>2. QED BY <2>3, <3>1, NextRoleMoves
  <2>4. QED BY <2>1, <2>2, <2>3 DEF Start, Borrow, StartLife, StartRoles, At
<1>2. \A r \in Role : lock[r] # t
  BY <1>1, PoolAssumption DEF LocksAreUsed, Inside
<1>3. life # t
  BY <1>1, PoolAssumption DEF LocksAreUsed
<1>4. QED BY <1>1, <1>2, <1>3, PoolAssumption, Lets

LEMMA Step_Locks == IInv /\ LocksAreUsed /\ [Next]_vars => LocksAreUsed'
<1> SUFFICES ASSUME IInv, LocksAreUsed, [Next]_vars PROVE LocksAreUsed'
  OBVIOUS
<1>1. CASE UNCHANGED <<lock, life, job>>
  BY <1>1 DEF LocksAreUsed
<1>2. ASSUME NEW t \in Task, Submit(t) \/ CallAnswers(t) \/ CancelDial(t)
      PROVE  LocksAreUsed'
  BY <1>2, PlaceLocks DEF Submit, CallAnswers, CancelDial, At, Inside
<1>3. ASSUME NEW t \in Task, Leave(t) PROVE LocksAreUsed'
  BY <1>3, DoneLets DEF Leave, At, Inside
<1>4. ASSUME NEW t \in Task, Cancel(t) PROVE LocksAreUsed'
  BY <1>4, QuitLets DEF Cancel, CancelGivesBack
<1>5. QED
  BY <1>1, <1>2, <1>3, <1>4, WakeLocks, ProceedLocks, StartLocks
     DEF Next, vars, DialEnds, Closes, SocketDrops, StrayReturns, WedgedReturns

(* No lock is held idly: whoever has a role's lock is in the middle of     *)
(* that role's work, and so waits for a worker or a caller and for no      *)
(* other lock; who has the lifecycle lock waits for a role's at most.  So  *)
(* a chain of tasks that wait for each other ends after two, and never     *)
(* closes, however tasks are cancelled (ib_pool.py:120-259, 391-420).      *)
THEOREM NobodyWaitsInACircle == Spec => [](LocksAreUsed /\ ChainsAreShort)
<1>1. Init => LocksAreUsed
  BY DEF Init, LocksAreUsed, Idle
<1>2. IInv /\ LocksAreUsed => ChainsAreShort
  <2> SUFFICES ASSUME IInv, LocksAreUsed, NEW t \in Task, NEW u \in Task, NEW v \in Task,
                      NEW w \in Task, WaitsFor(t, u), WaitsFor(u, v), WaitsFor(v, w)
               PROVE  FALSE
    BY DEF ChainsAreShort
  <2>1. ASSUME NEW x \in Task, NEW y \in Task, At(x, "role"), lock[RoleOf(x)] = y
        PROVE  job[y].at \in Inside
    <3>1. RoleOf(x) \in Role
      BY <2>1 DEF IInv, Placed, At, RoleOf
    <3>2. QED BY <2>1, <3>1, PoolAssumption DEF LocksAreUsed
  <2>2. ASSUME NEW x \in Task, NEW y \in Task, At(x, "life"), life = y
        PROVE  ~At(y, "life")
    BY <2>2, PoolAssumption DEF LocksAreUsed, At
  <2>3. QED BY <2>1, <2>2 DEF WaitsFor, At, Inside
<1>3. QED BY <1>1, <1>2, Init_IInv, Step_IInv, Step_Locks, PTL DEF Spec
=============================================================================
