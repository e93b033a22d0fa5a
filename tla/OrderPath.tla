----------------------------- MODULE OrderPath -----------------------------
(***************************************************************************)
(* The web server's guard against placing one order twice                  *)
(* (web/lib/orders/orderIdempotency.ts, web/app/api/orders/place/route.ts) *)
(* composed with the order desk of FastAPI.                                *)
(*                                                                         *)
(* A call to POST /api/orders/place carries a key.  The first call of a    *)
(* key runs the placement; calls that find its entry join it, or get its   *)
(* settled outcome.  Successes and aborts stay for a retention time, in    *)
(* memory and in a file; a failure clears the key.  The web server gives   *)
(* up on FastAPI after 30 s, FastAPI carries on, and either is restarted   *)
(* at any moment.                                                          *)
(***************************************************************************)
EXTENDS OrderDesk

CONSTANTS
    Key,        \* idempotency keys: explicit ones, or hashes of the payload
    NoOne,      \* no entry
    WebStops    \* bound: restarts of the web server

ASSUME PathAssumption == NoOne \notin Req /\ WebStops \in Nat

VARIABLES
    web,        \* each call, and the entry it made
    registry,   \* whose entry each key has in memory
    file,       \* order_idempotency.json: whose settled outcome is saved
    hydrated,   \* hydratedFromDisk
    webstops    \* restarts of the web server so far

webvars == <<web, registry, file, hydrated, webstops>>
pathvars == <<flag, job, book, stamps, stops, sends, swept,
              web, registry, file, hydrated, webstops>>

(* A call's request to FastAPI is the desk's request of the same name; its *)
(* entry is "lost" when the web server dies under it.                      *)
Web == [pc: {"idle", "runs", "joins", "done"},
        key: Key,
        lead: Req \cup {NoOne},
        entry: {"none", "open", "ok", "indet", "failed", "lost"},
        lapsed: BOOLEAN,
        out: {"none", "ok", "indet", "failed", "cut"}]

PathTypeOK ==
    /\ TypeOK
    /\ web \in [Req -> Web]
    /\ registry \in [Key -> Req \cup {NoOne}]
    /\ file \in [Key -> Req \cup {NoOne}]
    /\ hydrated \in BOOLEAN
    /\ webstops \in 0..WebStops

PathInit ==
    /\ Init
    /\ \E k \in Key : web = [r \in Req |-> [pc |-> "idle", key |-> k, lead |-> NoOne,
                                            entry |-> "none", lapsed |-> FALSE,
                                            out |-> "none"]]
    /\ registry = [k \in Key |-> NoOne]
    /\ file = registry
    /\ hydrated = FALSE
    /\ webstops = 0

-----------------------------------------------------------------------------
(* The registry.                                                           *)

(* evict: an entry past its retention is gone.                             *)
Kept(owner) == IF owner \in Req /\ web[owner].lapsed THEN NoOne ELSE owner

(* Mutated: a restarted server does not read the file back.                *)
MemoryOnly == [k \in Key |-> Kept(registry[k])]
(* ensureHydrated, evict: what a call finds.                               *)
Entries ==
    [k \in Key |-> IF hydrated \/ Kept(registry[k]) # NoOne
                   THEN Kept(registry[k]) ELSE Kept(file[k])]

(* persistStore: every settled outcome that has not lapsed.                *)
Persist(r, entry) ==
    file' = [k \in Key |->
        LET owner == Kept(registry[k])
        IN  IF owner = r \/ (owner # NoOne /\ web[owner].entry \in {"ok", "indet"})
            THEN owner ELSE NoOne]

Post(r, k) ==
    /\ web[r].pc = "idle"
    /\ hydrated' = TRUE
    /\ IF Entries[k] = NoOne
       THEN /\ web' = [web EXCEPT ![r].pc = "runs", ![r].key = k, ![r].lead = r,
                                  ![r].entry = "open"]
            /\ registry' = [Entries EXCEPT ![k] = r]
       ELSE /\ web' = [web EXCEPT ![r].pc = "joins", ![r].key = k,
                                  ![r].lead = Entries[k]]
            /\ registry' = Entries
    /\ UNCHANGED <<vars, file, webstops>>

(* FastAPI reads the request, also when the web server has meanwhile given *)
(* up on it.                                                               *)
Deliver(r) ==
    /\ web[r].entry \in {"open", "indet", "lost"} /\ ~web[r].lapsed
    /\ Arrive(r, "place", {})
    /\ UNCHANGED webvars

Settle(r, entry) ==
    web' = [web EXCEPT ![r].pc = "done", ![r].entry = entry, ![r].out = entry]

(* Mutated: an error that came as an answer counts as placed.              *)
AnyAnswer(r) ==
    /\ web[r].pc = "runs"
    /\ job[r].pc = "done"
    /\ Settle(r, "ok")
    /\ Persist(r, "ok")
    /\ UNCHANGED <<vars, registry, hydrated, webstops>>
Succeeds(r) ==
    /\ web[r].pc = "runs"
    /\ job[r].pc = "done" /\ job[r].out = "ok"
    /\ Settle(r, "ok")
    /\ Persist(r, "ok")
    /\ UNCHANGED <<vars, registry, hydrated, webstops>>

(* Every other answer of FastAPI, its 504 included, a connection it closed *)
(* and one it never accepted: the entry of the key is deleted.             *)
Fails(r) ==
    /\ web[r].pc = "runs"
    /\ \/ job[r].pc = "idle"
       \/ job[r].pc = "done" /\ job[r].out # "ok"
    /\ Settle(r, "failed")
    /\ registry' = [registry EXCEPT ![web[r].key] = NoOne]
    /\ UNCHANGED <<vars, file, hydrated, webstops>>

(* Mutated: an abort clears the key like any failure.                      *)
AbortClears(r) ==
    /\ web[r].pc = "runs"
    /\ Settle(r, "indet")
    /\ registry' = [registry EXCEPT ![web[r].key] = NoOne]
    /\ UNCHANGED <<vars, file, hydrated, webstops>>
(* The 30 s are over: the outcome is unknown, and the key retained.        *)
Aborts(r) ==
    /\ web[r].pc = "runs"
    /\ Settle(r, "indet")
    /\ Persist(r, "indet")
    /\ UNCHANGED <<vars, registry, hydrated, webstops>>

(* A duplicate gets the outcome of the entry it found.                     *)
JoinEnds(r) ==
    /\ web[r].pc = "joins"
    /\ web[web[r].lead].entry # "open"
    /\ web' = [web EXCEPT ![r].pc = "done", ![r].out = web[web[r].lead].entry]
    /\ UNCHANGED <<vars, registry, file, hydrated, webstops>>

(* The retention of an outcome ends.  It is 60 s at least after an abort,  *)
(* and FastAPI spends less on a placement: 10 s for a slot, 25 s of script.*)
Lapse(r) ==
    /\ web[r].entry \in {"ok", "indet"} /\ ~web[r].lapsed
    /\ job[r].pc \in {"idle", "done"}
    /\ web' = [web EXCEPT ![r].lapsed = TRUE]
    /\ UNCHANGED <<vars, registry, file, hydrated, webstops>>

WebDies ==
    /\ webstops < WebStops
    /\ webstops' = webstops + 1
    /\ web' = [r \in Req |->
                 IF web[r].pc \in {"idle", "done"} THEN web[r]
                 ELSE [web[r] EXCEPT !.pc = "done", !.out = "cut",
                                     !.entry = IF @ = "open" THEN "lost" ELSE @]]
    /\ registry' = [k \in Key |-> NoOne]
    /\ hydrated' = FALSE
    /\ UNCHANGED <<vars, file>>

-----------------------------------------------------------------------------
Desk ==
    /\ \/ \E r \in Req : Handle(r)
       \/ \E o \in Orders : Broker(o)
       \/ MinutePasses
       \/ ServiceStops
    /\ UNCHANGED webvars

Ends(r) ==
    \/ Succeeds(r)
    \/ Fails(r)
    \/ Aborts(r)
    \/ JoinEnds(r)

PathNext ==
    \/ \E r \in Req, k \in Key : Post(r, k)
    \/ \E r \in Req : Deliver(r)
    \/ \E r \in Req : Ends(r)
    \/ \E r \in Req : Lapse(r)
    \/ WebDies
    \/ Desk

PathSpec == PathInit /\ [][PathNext]_pathvars

-----------------------------------------------------------------------------
(* Properties.                                                             *)

Holds(r) ==
    \/ web[r].entry = "open"
    \/ web[r].entry \in {"ok", "indet"} /\ ~web[r].lapsed

(* While a placement is under way, and for as long as its success or its   *)
(* unknown outcome is retained, no other call of its key runs one: not on  *)
(* a double click, a retry after the abort, nor after a restart of the web *)
(* server (orderIdempotency.ts:7, :20, :36).                               *)
OneRunPerKey ==
    \A r, s \in Req : r # s /\ web[r].key = web[s].key /\ Holds(r) => ~Holds(s)

(* The registry in memory and its file are one that never forgets: a key   *)
(* is claimed by one call at a time, the others join it, each claim places *)
(* one order and is told of as it ended, whenever the server reads, saves, *)
(* evicts, dies and starts again (orderIdempotency.ts:1-40).               *)
Once == INSTANCE PlaceOnce
          WITH Call <- Req,
               key <- [r \in Req |-> web[r].key],
               entry <- [r \in Req |-> web[r].entry],
               lapsed <- [r \in Req |-> web[r].lapsed],
               told <- [r \in Req |-> web[r].out],
               sent <- sends

OnceHolds == Once!Spec

(* Whoever is told "ok" has an order of his key at the broker, also when   *)
(* the word comes from an entry read back from the file.                   *)
OkHasAnOrder ==
    \A r \in Req : web[r].out = "ok" =>
        \E s \in Req : web[s].key = web[r].key /\ sends[s] = 1

(* "The order provably did not become live, so the key is cleared"         *)
(* (orderIdempotency.ts:34), for answers in which FastAPI says it may.     *)
ClearedIsNotLive ==
    \A r \in Req : web[r].entry = "failed" /\ job[r].out = "indet" => ~Alive(r)
=============================================================================
