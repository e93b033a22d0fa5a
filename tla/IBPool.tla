------------------------------ MODULE IBPool ------------------------------
(***************************************************************************)
(* The pool of Interactive Brokers connections, scripts/api/ib_pool.py,    *)
(* with the callers that run operations on its clients and the executor    *)
(* that counts the workers they leave behind.  There is one client, one    *)
(* lock and one fixed client id per role.  Tasks of one event loop borrow  *)
(* a role, reconnect it when they find it dead, and run blocking calls in  *)
(* worker threads; other tasks connect, disconnect or reconnect the roles. *)
(*                                                                         *)
(* Code between two awaits is one step.  A worker thread cannot be         *)
(* stopped: a caller that is cancelled or times out leaves it running.     *)
(***************************************************************************)
EXTENDS Naturals, FiniteSets

CONSTANTS
    Role,       \* POOL_ROLES
    Probed,     \* LIVENESS_PROBE_ROLES
    Task,       \* the tasks of the event loop
    Client,     \* client objects, reused once nobody refers to them
    Callers,    \* how borrowers run calls: "bounded", "abandoning" or both
    Jobs,       \* which of the jobs on the whole pool are run
    Threads,    \* workers of the IB executor
    MinUsable,  \* MIN_USABLE_WORKERS
    Attempts,   \* connection attempts per role of connect_all
    MayCancel,  \* whether tasks may be cancelled
    NoClient, NoRole, Free

ASSUME PoolAssumption ==
    /\ Probed \subseteq Role /\ NoRole \notin Role
    /\ NoClient \notin Client /\ Free \notin Task
    /\ Callers \subseteq {"bounded", "abandoning"}
    /\ Jobs \subseteq {"connect", "drop", "redrop", "roles"}
    /\ Threads \in Nat /\ MinUsable \in Nat /\ Attempts \in Nat \ {0}
    /\ MayCancel \in BOOLEAN

VARIABLES
    pool,     \* the client of each role, _clients
    sock,     \* the connection of each client
    closing,  \* the clients that a worker is disconnecting
    lock,     \* the lock of each role
    life,     \* the lifecycle lock; taken, _lifecycle_transition is set
    job,      \* what each task is doing
    stray,    \* the roles whose client still serves a worker left behind,
              \* and how it was left
    wedged    \* _wedged, workers that timed out and have not come back

vars == <<pool, sock, closing, lock, life, job, stray, wedged>>

Job ==
    [kind: {"none"} \cup Callers \cup Jobs \cup {"connect"},
     at: {"idle", "life", "role", "probe", "close", "dial",
          "abandon", "holding", "calling"},
     role: Role \cup {NoRole}, client: Client \cup {NoClient},
     todo: SUBSET Role, tries: 0..(Attempts - 1)]

Idle == [kind |-> "none", at |-> "idle", role |-> NoRole,
         client |-> NoClient, todo |-> {}, tries |-> 0]

TypeOK ==
    /\ pool \in [Role -> Client \cup {NoClient}]
    /\ sock \in [Client -> {"down", "dialing", "refused", "up"}]
    /\ closing \subseteq Client
    /\ lock \in [Role -> Task \cup {Free}]
    /\ life \in Task \cup {Free}
    /\ job \in [Task -> Job]
    /\ stray \subseteq Role \X (Callers \cup {"cancelled"})
    /\ wedged \in Nat

Init ==
    /\ pool = [r \in Role |-> NoClient]
    /\ sock = [c \in Client |-> "down"]
    /\ closing = {}
    /\ lock = [r \in Role |-> Free] /\ life = Free
    /\ job = [t \in Task |-> Idle]
    /\ stray = {} /\ wedged = 0

-----------------------------------------------------------------------------
At(t, place) == job[t].at = place
RoleOf(t) == job[t].role
Borrows(t) == job[t].kind \in Callers

Connected(r) == pool[r] # NoClient /\ sock[pool[r]] = "up"
HasCapacity == Threads - wedged >= MinUsable

(* A client object nobody else refers to stands for one newly made.        *)
Spare(t, c) ==
    /\ sock[c] = "down" /\ c \notin closing
    /\ \A r \in Role : pool[r] # c
    /\ \A u \in Task \ {t} : job[u].client # c

(* The task gives everything back.                                         *)
Quit(t) ==
    /\ job' = [job EXCEPT ![t] = Idle]
    /\ lock' = [r \in Role |-> IF lock[r] = t THEN Free ELSE lock[r]]
    /\ life' = IF life = t THEN Free ELSE life

Await(k, r, todo) ==
    [kind |-> k, at |-> "role", role |-> r,
     client |-> NoClient, todo |-> todo, tries |-> 0]

(* A job turns to the next of the roles it has to do, and waits for its    *)
(* lock; reconnect_all starts over, connecting, when it has dropped all.   *)
NextRole(t, k, todo) ==
    \/ /\ todo # {}
       /\ \E r \in todo : job' = [job EXCEPT ![t] = Await(k, r, todo \ {r})]
    \/ /\ todo = {} /\ k = "redrop"
       /\ \E r \in Role :
             job' = [job EXCEPT ![t] = Await("connect", r, Role \ {r})]

Last(t) == Borrows(t) \/ (job[t].todo = {} /\ job[t].kind # "redrop")

RoleDone(t) ==
    /\ lock' = [lock EXCEPT ![RoleOf(t)] = Free]
    /\ IF Last(t)
       THEN /\ job' = [job EXCEPT ![t] = Idle]
            /\ life' = IF life = t THEN Free ELSE life
       ELSE NextRole(t, job[t].kind, job[t].todo) /\ UNCHANGED life

Strays(r) == {w \in stray : w[1] = r}

(* The stale client is taken out and disconnected in a worker.             *)
CloseStale(t) ==
    LET c == pool[RoleOf(t)] IN
    /\ c # NoClient
    /\ pool' = [pool EXCEPT ![RoleOf(t)] = NoClient]
    /\ stray' = stray \ Strays(RoleOf(t))
    /\ closing' = closing \cup {c}
    /\ job' = [job EXCEPT ![t].at = "close", ![t].client = c]
    /\ UNCHANGED sock

(* Without one, a new client connects in a worker.                         *)
DialFresh(t) ==
    \E c \in Client :
        /\ Spare(t, c)
        /\ sock' = [sock EXCEPT ![c] = "dialing"]
        /\ job' = [job EXCEPT ![t].at = "dial", ![t].client = c]

Reconnect(t) ==
    /\ lock' = [lock EXCEPT ![RoleOf(t)] = t]
    /\ \/ CloseStale(t)
       \/ /\ pool[RoleOf(t)] = NoClient
          /\ DialFresh(t)
          /\ UNCHANGED <<pool, stray, closing>>

Hand(t, c) == job' = [job EXCEPT ![t].at = "holding", ![t].client = c]

-----------------------------------------------------------------------------
(* Taking a role's lock, and what follows up to the next await.            *)

Borrow(t, k, r) ==
    /\ At(t, "idle")
    /\ job' = [job EXCEPT ![t].kind = k, ![t].at = "role", ![t].role = r]
    /\ UNCHANGED <<pool, sock, closing, lock, life, stray, wedged>>

Locks(t) == At(t, "role") /\ lock[RoleOf(t)] = Free

BorrowRefused(t) ==
    /\ Locks(t) /\ Borrows(t)
    /\ life # Free
    /\ RoleDone(t)
    /\ UNCHANGED <<pool, sock, closing, stray, wedged>>

BorrowLive(t) ==
    /\ Locks(t) /\ Borrows(t)
    /\ life = Free
    /\ Connected(RoleOf(t))
    /\ lock' = [lock EXCEPT ![RoleOf(t)] = t]
    /\ IF RoleOf(t) \in Probed
       THEN job' = [job EXCEPT ![t].at = "probe"]
       ELSE Hand(t, pool[RoleOf(t)])
    /\ UNCHANGED <<pool, sock, closing, life, stray, wedged>>

BorrowDead(t) ==
    /\ Locks(t) /\ Borrows(t)
    /\ life = Free
    /\ ~Connected(RoleOf(t))
    /\ Reconnect(t)
    /\ UNCHANGED <<life, wedged>>

(* connect_all leaves a connected role alone; reconnect_roles does not     *)
(* look.                                                                   *)
SkipConnected(t) ==
    /\ Locks(t) /\ job[t].kind = "connect"
    /\ Connected(RoleOf(t))
    /\ RoleDone(t)
    /\ UNCHANGED <<pool, sock, closing, stray, wedged>>

ReconnectRole(t) ==
    /\ Locks(t)
    /\ \/ job[t].kind = "connect" /\ ~Connected(RoleOf(t))
       \/ job[t].kind = "roles"
    /\ Reconnect(t)
    /\ UNCHANGED <<life, wedged>>

(* Mutated: disconnect_all does not wait for the role's lock.              *)
DropRoleUnlocked(t) ==
    /\ At(t, "role") /\ job[t].kind \in {"drop", "redrop"}
    /\ CloseStale(t)
    /\ UNCHANGED <<lock, life, wedged>>

DropRole(t) ==
    /\ Locks(t) /\ job[t].kind \in {"drop", "redrop"}
    /\ \/ /\ pool[RoleOf(t)] = NoClient
          /\ RoleDone(t)
          /\ UNCHANGED <<pool, sock, closing, stray>>
       \/ /\ CloseStale(t)
          /\ lock' = [lock EXCEPT ![RoleOf(t)] = t]
          /\ UNCHANGED life
    /\ UNCHANGED wedged

-----------------------------------------------------------------------------
(* The awaits on the way to a client.                                      *)

ProbeAnswers(t) ==
    /\ At(t, "probe")
    /\ Hand(t, pool[RoleOf(t)])
    /\ UNCHANGED <<pool, sock, closing, lock, life, stray, wedged>>

ProbeFails(t) ==
    /\ At(t, "probe")
    /\ Reconnect(t)
    /\ UNCHANGED <<life, wedged>>

StaleClosed(t) ==
    /\ At(t, "close") /\ job[t].client \notin closing
    /\ IF job[t].kind \in {"drop", "redrop"}
       THEN RoleDone(t) /\ UNCHANGED sock
       ELSE DialFresh(t) /\ UNCHANGED <<lock, life>>
    /\ UNCHANGED <<pool, closing, stray, wedged>>

Dialed(t) ==
    /\ At(t, "dial") /\ sock[job[t].client] \in {"up", "down"}
    /\ pool' = [pool EXCEPT ![RoleOf(t)] = job[t].client]
    /\ IF Borrows(t)
       THEN Hand(t, job[t].client) /\ UNCHANGED <<lock, life>>
       ELSE RoleDone(t)
    /\ UNCHANGED <<sock, closing, stray, wedged>>

(* Mutated: one attempt too many.                                          *)
TriesOnceMore(t) == job[t].kind = "connect" /\ job[t].tries < Attempts

(* connect_all tries again, the others give up.                            *)
TriesAgain(t) == job[t].kind = "connect" /\ job[t].tries + 1 < Attempts

DialFailed(t) ==
    /\ At(t, "dial") /\ sock[job[t].client] = "refused"
    /\ IF TriesAgain(t)
       THEN /\ job' = [job EXCEPT ![t].tries = @ + 1]
            /\ sock' = [sock EXCEPT ![job[t].client] = "dialing"]
            /\ UNCHANGED <<lock, life>>
       ELSE /\ RoleDone(t)
            /\ sock' = [sock EXCEPT ![job[t].client] = "down"]
    /\ UNCHANGED <<pool, closing, stray, wedged>>

-----------------------------------------------------------------------------
(* Calls on a borrowed client.                                             *)

Submit(t) ==
    /\ At(t, "holding")
    /\ job[t].kind = "bounded" => HasCapacity
    /\ job' = [job EXCEPT ![t].at = "calling"]
    /\ UNCHANGED <<pool, sock, closing, lock, life, stray, wedged>>

CallAnswers(t) ==
    /\ At(t, "calling")
    /\ job' = [job EXCEPT ![t].at = "holding"]
    /\ UNCHANGED <<pool, sock, closing, lock, life, stray, wedged>>

Leave(t) ==
    /\ At(t, "holding")
    /\ RoleDone(t)
    /\ UNCHANGED <<pool, sock, closing, stray, wedged>>

(* The worker of t goes on without t; it matters as long as its client is  *)
(* the role's.                                                             *)
LeaveWorker(t, how) ==
    stray' = IF pool'[RoleOf(t)] = job[t].client
             THEN stray \cup {<<RoleOf(t), how>>}
             ELSE stray \ Strays(RoleOf(t))

(* Mutated: the worker is abandoned with its client still in the pool.     *)
RetireNothing(t) == UNCHANGED <<pool, closing>>

(* retire takes the client out of the pool, if it is still the role's, and *)
(* disconnects it out of band.                                             *)
Retire(t) ==
    /\ pool' = [pool EXCEPT ![RoleOf(t)] =
                   IF @ = job[t].client THEN NoClient ELSE @]
    /\ closing' = closing \cup {job[t].client}

(* _bounded_pool_call counts the worker and retires the client; the option *)
(* chain and short-availability probes (server.py:1695-1704, 6185-6190)    *)
(* just leave the worker.                                                  *)
CallTimesOut(t) ==
    /\ At(t, "calling")
    /\ \/ /\ job[t].kind = "bounded"
          /\ wedged' = wedged + 1
          /\ Retire(t)
       \/ /\ job[t].kind = "abandoning"
          /\ UNCHANGED <<pool, closing, wedged>>
    /\ LeaveWorker(t, job[t].kind)
    /\ RoleDone(t)
    /\ UNCHANGED sock

-----------------------------------------------------------------------------
(* Jobs on the whole pool.                                                 *)

StartLife(t, k) ==
    /\ At(t, "idle")
    /\ job' = [job EXCEPT ![t].kind = k, ![t].at = "life"]
    /\ UNCHANGED <<pool, sock, closing, lock, life, stray, wedged>>

(* disconnect_all lists the roles that have a client now.                  *)
TakeLife(t) ==
    LET todo == IF job[t].kind = "connect" THEN Role
                ELSE {r \in Role : pool[r] # NoClient} IN
    /\ At(t, "life") /\ life = Free
    /\ IF todo = {} /\ job[t].kind = "drop"
       THEN Quit(t)
       ELSE NextRole(t, job[t].kind, todo) /\ life' = t /\ UNCHANGED lock
    /\ UNCHANGED <<pool, sock, closing, stray, wedged>>

(* recover_stuck_pool, one at a time, lists the roles that are             *)
(* disconnected now; it probes the Gateway before it takes the first lock. *)
StartRoles(t) ==
    /\ At(t, "idle")
    /\ \A u \in Task : job[u].kind # "roles"
    /\ \E r \in Role : ~Connected(r)
    /\ NextRole(t, "roles", {r \in Role : ~Connected(r)})
    /\ UNCHANGED <<pool, sock, closing, lock, life, stray, wedged>>

-----------------------------------------------------------------------------
(* Cancellation, at any await: by wait_for around the job, by the end of   *)
(* the request or by shutdown.                                             *)

(* Mutated: only a borrower that was handed a client gives its lock back.  *)
CancelKeepsLock(t) ==
    IF Borrows(t) /\ job[t].at \in {"probe", "close"}
    THEN job' = [job EXCEPT ![t] = Idle] /\ UNCHANGED <<lock, life>>
    ELSE Quit(t)

CancelGivesBack(t) == Quit(t)

Cancel(t) ==
    /\ MayCancel
    /\ job[t].at \in {"life", "role", "probe", "close", "calling"}
    /\ UNCHANGED <<pool, sock, closing, wedged>>
    /\ IF At(t, "calling") THEN LeaveWorker(t, "cancelled") ELSE UNCHANGED stray
    /\ CancelGivesBack(t)

(* Mutated: the cancelled task does not wait for its connect.              *)
CancelDialAtOnce(t) ==
    /\ MayCancel
    /\ At(t, "dial")
    /\ Quit(t)
    /\ UNCHANGED <<pool, sock, closing, stray, wedged>>

(* A connect under way is waited for: its client would hold the role's id. *)
CancelDial(t) ==
    /\ MayCancel
    /\ At(t, "dial")
    /\ job' = [job EXCEPT ![t].at = "abandon"]
    /\ UNCHANGED <<pool, sock, closing, lock, life, stray, wedged>>

Abandon(t) ==
    /\ At(t, "abandon") /\ sock[job[t].client] # "dialing"
    /\ sock' = [sock EXCEPT ![job[t].client] = "down"]
    /\ Quit(t)
    /\ UNCHANGED <<pool, closing, stray, wedged>>

-----------------------------------------------------------------------------
(* Worker threads and the Gateway.                                         *)

DialEnds(c) ==
    /\ sock[c] = "dialing"
    /\ \E s \in {"up", "refused"} : sock' = [sock EXCEPT ![c] = s]
    /\ UNCHANGED <<pool, closing, lock, life, job, stray, wedged>>

Closes(c) ==
    /\ c \in closing
    /\ closing' = closing \ {c}
    /\ sock' = [sock EXCEPT ![c] = "down"]
    /\ UNCHANGED <<pool, lock, life, job, stray, wedged>>

SocketDrops(c) ==
    /\ sock[c] = "up"
    /\ sock' = [sock EXCEPT ![c] = "down"]
    /\ UNCHANGED <<pool, closing, lock, life, job, stray, wedged>>

StrayReturns ==
    /\ \E w \in stray : stray' = stray \ {w}
    /\ UNCHANGED <<pool, sock, closing, lock, life, job, wedged>>

(* _reap_timed_out_worker gives the thread back.                           *)
WedgedReturns ==
    /\ wedged > 0
    /\ wedged' = wedged - 1
    /\ UNCHANGED <<pool, sock, closing, lock, life, job, stray>>

-----------------------------------------------------------------------------
Wake(t) ==
    \/ BorrowRefused(t) \/ BorrowLive(t) \/ BorrowDead(t)
    \/ SkipConnected(t) \/ ReconnectRole(t) \/ DropRole(t)
    \/ TakeLife(t)

Proceed(t) ==
    \/ ProbeAnswers(t) \/ ProbeFails(t)
    \/ StaleClosed(t) \/ Dialed(t) \/ DialFailed(t) \/ Abandon(t)
    \/ CallTimesOut(t)

Start(t) ==
    \/ \E k \in Callers, r \in Role : Borrow(t, k, r)
    \/ \E k \in Jobs \ {"roles"} : StartLife(t, k)
    \/ "roles" \in Jobs /\ StartRoles(t)

Next ==
    \/ \E t \in Task :
          \/ Start(t) \/ Wake(t) \/ Proceed(t)
          \/ Submit(t) \/ CallAnswers(t) \/ Leave(t)
          \/ Cancel(t) \/ CancelDial(t)
    \/ \E c \in Client :
          DialEnds(c) \/ Closes(c) \/ SocketDrops(c)
    \/ StrayReturns \/ WedgedReturns

Spec == Init /\ [][Next]_vars

(* The probe, the connect and the calls have timeouts, and disconnects are *)
(* taken to return; the locks are first come, first served; a caller makes *)
(* a few calls and leaves.                                                 *)
FairSpec ==
    /\ Spec
    /\ \A t \in Task :
          WF_vars(Proceed(t)) /\ SF_vars(Wake(t)) /\ SF_vars(Leave(t))
    /\ \A c \in Client : WF_vars(DialEnds(c)) /\ WF_vars(Closes(c))

-----------------------------------------------------------------------------
(* Properties.                                                             *)

(* A live connection is the role's, or somebody is about to make it so or  *)
(* to disconnect it: none keeps a client id that no one knows of           *)
(* (ib_pool.py:58-84, 222-259).                                            *)
NoLostConnection ==
    \A c \in Client : sock[c] = "up" =>
        \/ \E r \in Role : pool[r] = c
        \/ c \in closing
        \/ \E t \in Task : job[t].at \in {"dial", "abandon"} /\ job[t].client = c

(* While a task has a client, it stays the client of its role, whatever    *)
(* connects, disconnects and reconnects the pool meanwhile                 *)
(* (ib_pool.py:183-195, 283-321).                                          *)
BorrowIsUndisturbed ==
    \A t \in Task : job[t].at \in {"holding", "calling"} =>
        pool[RoleOf(t)] = job[t].client /\ job[t].client \notin closing

Sharing(t, hows) ==
    \/ \E how \in hows : <<RoleOf(t), how>> \in stray
    \/ \E u \in Task \ {t} : At(u, "calling") /\ job[u].client = job[t].client

(* A call never runs on the client of another task's call, nor on one that *)
(* a bounded call which timed out is still using                           *)
(* (routes/historical.py:101-126).                                         *)
QuarantineHolds == \A t \in Task : At(t, "calling") => ~Sharing(t, {"bounded"})

(* Every task ends: no cancellation, timeout or failure leaves a lock      *)
(* behind, and the lifecycle lock and the role locks do not deadlock       *)
(* (ib_pool.py:391-425).                                                   *)
JobsEnd == \A t \in Task : ~At(t, "idle") ~> At(t, "idle")
=============================================================================
