--------------------------- MODULE OrderPathProofs ---------------------------
(***************************************************************************)
(* Proofs about the web server's guard in front of the order desk, for any *)
(* calls and keys.                                                         *)
(***************************************************************************)
EXTENDS OrderPath, OrderDeskProofs

(* What the desk does to its requests while it serves placements only.     *)
OnlyPlaces == \A r \in Req : job[r].kind = "place"

WebTypes ==
    /\ web \in [Req -> Web]
    /\ registry \in [Key -> Req \cup {NoOne}]
    /\ file \in [Key -> Req \cup {NoOne}]
    /\ hydrated \in BOOLEAN
    /\ webstops \in 0..WebStops

(* An entry in memory or in the file belongs to a call of that key.        *)
OwnersKeyed ==
    \A k \in Key :
        /\ registry[k] \in Req => /\ web[registry[k]].key = k
                                  /\ web[registry[k]].entry \in {"open", "ok", "indet"}
        /\ file[k] \in Req => /\ web[file[k]].key = k
                              /\ web[file[k]].entry \in {"ok", "indet"}

Settled(r) == web[r].entry \in {"ok", "indet"} /\ ~web[r].lapsed

(* A call that holds its key is found by the next one: in memory, or, when *)
(* the server has not read it yet, in the file.                            *)
HoldersFound ==
    \A r \in Req :
        /\ web[r].entry = "open" => hydrated /\ registry[web[r].key] = r
        /\ Settled(r) => /\ file[web[r].key] = r
                         /\ hydrated => registry[web[r].key] = r

CallsSane ==
    /\ ~hydrated => \A k \in Key : registry[k] = NoOne
    /\ \A r \in Req :
        /\ web[r].pc = "runs" <=> web[r].entry = "open"
        /\ web[r].lapsed => web[r].entry \in {"ok", "indet"}
        /\ web[r].pc = "idle" => web[r].entry = "none" /\ web[r].out = "none"
        /\ web[r].pc = "joins" =>
              /\ web[r].lead \in Req /\ web[r].entry = "none"
              /\ web[web[r].lead].entry \in {"open", "ok", "indet", "failed"}
        /\ web[r].lead \in Req => /\ web[web[r].lead].pc # "idle"
                                  /\ web[web[r].lead].key = web[r].key

(* Behind every "ok" there is an order.                                    *)
OksBacked ==
    \A r \in Req :
        /\ web[r].entry = "ok" => sends[r] = 1
        /\ web[r].out = "ok" => \E s \in Req : /\ web[s].key = web[r].key
                                                /\ web[s].entry # "none" /\ sends[s] = 1

WebInv == WebTypes /\ OwnersKeyed /\ HoldersFound /\ CallsSane /\ OksBacked

PathInv == IInv /\ OnlyPlaces /\ WebInv

-----------------------------------------------------------------------------
(* The desk under the guard.                                               *)

LEMMA KindKept ==
  ASSUME IInv, NEW r \in Req, NEW j, job' = [job EXCEPT ![r] = j], j.kind = job[r].kind
  PROVE  \A q \in Req : job'[q].kind = job[q].kind
BY DEF IInv, TypeOK

LEMMA AnswerKind ==
  ASSUME IInv, NEW r \in Req, NEW out, Answer(r, out)
  PROVE  \A q \in Req : job'[q].kind = job[q].kind
<1>1. job' = [job EXCEPT ![r] = Ended(r, out)]
  BY DEF Answer
<1>2. Ended(r, out).kind = job[r].kind
  <2>1. job[r] \in Job
    BY SameBook, Zenon
  <2> QED
    BY <2>1 DEF Ended, Job
<1> QED
  BY <1>1, <1>2, KindKept

LEMMA GotoKind ==
  ASSUME IInv, NEW r \in Req, NEW pc, Goto(r, pc)
  PROVE  \A q \in Req : job'[q].kind = job[q].kind
<1>1. job' = [job EXCEPT ![r] = [job[r] EXCEPT !.pc = pc]]
  BY DEF Goto
<1>2. [job[r] EXCEPT !.pc = pc].kind = job[r].kind
  <2>1. job[r] \in Job
    BY SameBook, Zenon
  <2> QED
    BY <2>1 DEF Job
<1> QED
  BY <1>1, <1>2, KindKept

(* A placement is never in the what-if, the cancels or a sweep.            *)
LEMMA PlacesOnly ==
  ASSUME IInv, OnlyPlaces, NEW r \in Req, Handle(r)
  PROVE  OnlyPlaces' /\ \A q \in Req : sends[q] = 1 => sends'[q] = 1
<1>1. job[r].kind = "place" /\ job[r].phase = "place"
      /\ \A q \in Req : sends[q] \in Nat
  BY SameBook DEF OnlyPlaces, Sane
<1>2. ASSUME NEW out, Answer(r, out) PROVE OnlyPlaces'
  BY <1>2, AnswerKind DEF OnlyPlaces
<1>3. ASSUME NEW pc, Goto(r, pc) PROVE OnlyPlaces'
  BY <1>3, GotoKind DEF OnlyPlaces
<1>4. (\E out : Answer(r, out)) \/ (\E pc : Goto(r, pc))
  BY <1>1 DEF Handle, Reserve, Refuse, Admit, NotAdmitted, ScanEnds, WhatIf, WhatIfFails,
     CheckHalt, SecondLook, NothingSent, Transmit, Placed, ScriptSaysNo, AskCancel,
     CancelConfirmed, AlreadyCancelled, CancelFails, Sweep, DrainSeen, SweepFails, TimesOut,
     Dies, Recovers, Repeatable, Cancelling, Sweeping, Placing
<1>5. \A q \in Req : sends[q] = 1 => sends'[q] = 1
  <2>1. CASE Transmit(r)
    <3>1. sends[r] # 1
      BY <2>1, SameBook DEF Transmit, Placing, Sane
    <3>2. sends' = [sends EXCEPT ![r] = sends[r] + 1]
      BY <2>1 DEF Transmit
    <3> QED
      BY <3>1, <3>2 DEF IInv, TypeOK
  <2>2. CASE ~Transmit(r)
    <3>1. sends' = sends
      BY <2>2 DEF Handle, Reserve, Refuse, Admit, NotAdmitted, ScanEnds, WhatIf,
         WhatIfFails, CheckHalt, NothingSent, Placed, ScriptSaysNo, AskCancel,
         CancelConfirmed, AlreadyCancelled, CancelFails, Sweep, DrainSeen, SweepFails,
         TimesOut, Dies, Recovers
    <3> QED
      BY <3>1
  <2> QED
    BY <2>1, <2>2
<1> QED
  BY <1>2, <1>3, <1>4, <1>5

LEMMA DeskSteps ==
  ASSUME IInv, OnlyPlaces,
         \/ \E r \in Req : Handle(r) \/ Arrive(r, "place", {})
         \/ \E o \in Orders : Broker(o)
         \/ MinutePasses \/ ServiceStops \/ UNCHANGED vars
  PROVE  IInv' /\ OnlyPlaces' /\ \A q \in Req : sends[q] = 1 => sends'[q] = 1
<1>1. ASSUME NEW r \in Req, Arrive(r, "place", {})
      PROVE  IInv' /\ OnlyPlaces' /\ sends' = sends
  <2>1. "place" \in Kinds /\ {} \in SUBSET Resting
    BY <1>1 DEF Arrive
  <2>2. IInv'
    BY <1>1, <2>1, Arrives
  <2> DEFINE n == New("place", {})
             m == [n EXCEPT !.pc = "done", !.out = "refused"]
  <2>3. n.kind = "place" /\ m.kind = "place"
    BY DEF New, Fresh
  <2>4. (job' = [job EXCEPT ![r] = n] \/ job' = [job EXCEPT ![r] = m]) /\ sends' = sends
    BY <1>1 DEF Arrive
  <2> HIDE DEF n, m
  <2> QED
    BY <2>2, <2>3, <2>4 DEF OnlyPlaces, IInv, TypeOK
<1>2. ASSUME ServiceStops PROVE OnlyPlaces' /\ sends' = sends
  <2>1. ASSUME NEW q \in Req PROVE job'[q].kind = job[q].kind
    <3>1. job[q] \in Job
      BY SameBook, Zenon
    <3>2. Ended(q, "cut").kind = job[q].kind
      BY <3>1 DEF Ended, Job
    <3> HIDE DEF Ended
    <3> QED
      BY <1>2, <3>2 DEF ServiceStops
  <2> QED
    BY <1>2, <2>1 DEF OnlyPlaces, ServiceStops
<1>3. ASSUME \/ \E o \in Orders : Broker(o)
             \/ MinutePasses \/ UNCHANGED vars
      PROVE  OnlyPlaces' /\ sends' = sends
  BY <1>3 DEF OnlyPlaces, Broker, MinutePasses, vars
<1>4. CASE \/ \E r \in Req : Handle(r)
           \/ \E o \in Orders : Broker(o)
           \/ MinutePasses \/ ServiceStops \/ UNCHANGED vars
  <2>1. IInv'
    BY <1>4, Inductive DEF Next
  <2> QED
    BY <1>2, <1>3, <1>4, <2>1, PlacesOnly
<1> QED
  BY <1>1, <1>4

-----------------------------------------------------------------------------
(* The guard.                                                              *)

LEMMA WebStart == PathInit => WebInv
<1> SUFFICES ASSUME PathInit PROVE WebInv
  OBVIOUS
<1>1. PICK k \in Key :
        web = [r \in Req |-> [pc |-> "idle", key |-> k, lead |-> NoOne, entry |-> "none",
                              lapsed |-> FALSE, out |-> "none"]]
  BY DEF PathInit
<1>2. WebTypes
  <2>1. web \in [Req -> Web]
    BY <1>1 DEF Web
  <2>2. registry \in [Key -> Req \cup {NoOne}] /\ file = registry
    BY DEF PathInit
  <2>3. hydrated \in BOOLEAN /\ webstops \in 0..WebStops
    <3>1. hydrated = FALSE /\ webstops = 0
      BY DEF PathInit
    <3>2. webstops \in 0..WebStops
      BY <3>1, PathAssumption
    <3> QED
      BY <3>1, <3>2, Zenon
  <2> QED
    BY <2>1, <2>2, <2>3 DEF WebTypes
<1>3. OwnersKeyed /\ HoldersFound /\ CallsSane /\ OksBacked
  BY <1>1, PathAssumption
     DEF PathInit, OwnersKeyed, HoldersFound, Settled, CallsSane, OksBacked
<1> QED
  BY <1>2, <1>3 DEF WebInv

(* A step of the desk leaves the guard alone, and takes no order back.     *)
LEMMA WebIdles ==
  ASSUME WebInv, UNCHANGED webvars, \A q \in Req : sends[q] = 1 => sends'[q] = 1
  PROVE  WebInv'
<1>1. WebTypes' /\ OwnersKeyed' /\ HoldersFound' /\ CallsSane'
  BY DEF WebInv, webvars, WebTypes, OwnersKeyed, HoldersFound, Settled, CallsSane
<1>2. OksBacked'
  BY DEF WebInv, webvars, OksBacked
<1> QED
  BY <1>1, <1>2 DEF WebInv

(* What a call finds is of its key, and holds it; a call that holds a key  *)
(* is what the next one finds.                                             *)
LEMMA Finds ==
  ASSUME WebInv, NEW k \in Key
  PROVE  /\ Entries[k] \in Req \cup {NoOne}
         /\ Entries[k] \in Req => /\ web[Entries[k]].key = k /\ ~web[Entries[k]].lapsed
                                  /\ web[Entries[k]].entry \in {"open", "ok", "indet"}
         /\ \A r \in Req : web[r].key = k /\ (web[r].entry = "open" \/ Settled(r))
                => Entries[k] = r
<1>1. /\ registry[k] \in Req \cup {NoOne} /\ file[k] \in Req \cup {NoOne}
      /\ Entries[k] = IF hydrated \/ Kept(registry[k]) # NoOne
                      THEN Kept(registry[k]) ELSE Kept(file[k])
  BY DEF WebInv, WebTypes, Entries
<1> QED
  BY <1>1, PathAssumption
     DEF WebInv, OwnersKeyed, HoldersFound, Settled, CallsSane, Kept, WebTypes, Web

LEMMA Posts ==
  ASSUME WebInv, NEW r \in Req, NEW k \in Key, Post(r, k)
  PROVE  WebInv'
<1> DEFINE e == Entries[k]
           new == [web[r] EXCEPT !.pc = "runs", !.key = k, !.lead = r, !.entry = "open"]
           old == [web[r] EXCEPT !.pc = "joins", !.key = k, !.lead = e]
           w == IF e = NoOne THEN new ELSE old
<1>1. /\ web[r] \in Web /\ web[r].pc = "idle" /\ web[r].entry = "none"
      /\ web[r].out = "none" /\ ~web[r].lapsed
  BY DEF Post, WebInv, WebTypes, CallsSane
<1>2. /\ Entries \in [Key -> Req \cup {NoOne}]
      /\ \A x \in Key : Entries[x] \in Req =>
            /\ web[Entries[x]].key = x
            /\ web[Entries[x]].entry \in {"open", "ok", "indet"}
      /\ \A x \in Key, q \in Req : web[q].key = x /\ (web[q].entry = "open" \/ Settled(q))
            => Entries[x] = q
  <2>1. Entries \in [Key -> Req \cup {NoOne}]
    BY Finds DEF Entries
  <2> QED
    BY <2>1, Finds
<1>3. /\ new \in Web /\ new.pc = "runs" /\ new.key = k /\ new.lead = r
      /\ new.entry = "open" /\ new.out = "none" /\ ~new.lapsed
  BY <1>1 DEF Web
<1>4. e \in Req => /\ old \in Web /\ old.pc = "joins" /\ old.key = k /\ old.lead = e
                   /\ old.entry = "none" /\ old.out = "none" /\ ~old.lapsed
  <2> HIDE DEF e
  <2> QED
    BY <1>1 DEF Web
<1>5. e \in Req \cup {NoOne} /\ NoOne \notin Req
  BY <1>2, PathAssumption
<1>6. web' = [web EXCEPT ![r] = w]
  BY DEF Post
<1>7. /\ registry' = IF e = NoOne THEN [Entries EXCEPT ![k] = r] ELSE Entries
      /\ hydrated' = TRUE /\ file' = file /\ webstops' = webstops /\ sends' = sends
  BY DEF Post, vars
<1>8. /\ w \in Web /\ w.key = k /\ w.out = "none" /\ ~w.lapsed
      /\ w.entry \in {"open", "none"} /\ (w.entry = "open" <=> e = NoOne)
      /\ (w.entry = "open" => w.pc = "runs" /\ w.lead = r)
      /\ (w.entry = "none" => w.pc = "joins" /\ w.lead = e)
  BY <1>3, <1>4, <1>5
<1> HIDE DEF new, old, w
<1>9. /\ web' \in [Req -> Web] /\ \A q \in Req : web'[q] = IF q = r THEN w ELSE web[q]
  BY <1>6, <1>8 DEF WebInv, WebTypes
<1>10. /\ registry' \in [Key -> Req \cup {NoOne}]
       /\ \A x \in Key : registry'[x] = IF x = k /\ e = NoOne THEN r ELSE Entries[x]
  BY <1>2, <1>7
<1>11. WebTypes'
  BY <1>7, <1>9, <1>10 DEF WebInv, WebTypes
<1>12. OwnersKeyed'
  <2> SUFFICES ASSUME NEW x \in Key
               PROVE  /\ registry'[x] \in Req =>
                           /\ web'[registry'[x]].key = x
                           /\ web'[registry'[x]].entry \in {"open", "ok", "indet"}
                      /\ file'[x] \in Req => /\ web'[file'[x]].key = x
                                             /\ web'[file'[x]].entry \in {"ok", "indet"}
    BY DEF OwnersKeyed
  <2>1. file'[x] \in Req => /\ web'[file'[x]].key = x
                            /\ web'[file'[x]].entry \in {"ok", "indet"}
    BY <1>1, <1>7, <1>9 DEF WebInv, OwnersKeyed
  <2>2. Entries[x] # r
    BY <1>1, <1>2
  <2> QED
    BY <2>1, <2>2, <1>2, <1>5, <1>8, <1>9, <1>10
<1>13. HoldersFound'
  <2> SUFFICES ASSUME NEW q \in Req
               PROVE  /\ web'[q].entry = "open" => hydrated' /\ registry'[web'[q].key] = q
                      /\ Settled(q)' => /\ file'[web'[q].key] = q
                                        /\ hydrated' => registry'[web'[q].key] = q
    BY DEF HoldersFound
  <2>1. CASE q = r
    BY <2>1, <1>7, <1>8, <1>9, <1>10 DEF Settled
  <2>2. CASE q # r
    <3>1. web'[q] = web[q] /\ web[q].key \in Key
      BY <2>2, <1>9 DEF WebInv, WebTypes, Web
    <3>2. web[q].entry = "open" \/ Settled(q) => Entries[web[q].key] = q
      BY <1>2, <3>1
    <3> QED
      BY <2>2, <3>1, <3>2, <1>5, <1>7, <1>10 DEF Settled, WebInv, HoldersFound
  <2> QED
    BY <2>1, <2>2
<1>14. CallsSane'
  <2>1. ASSUME NEW q \in Req, q # r
        PROVE  /\ web'[q].pc = "runs" <=> web'[q].entry = "open"
               /\ web'[q].lapsed => web'[q].entry \in {"ok", "indet"}
               /\ web'[q].pc = "idle" => web'[q].entry = "none" /\ web'[q].out = "none"
               /\ web'[q].pc = "joins" =>
                     /\ web'[q].lead \in Req /\ web'[q].entry = "none"
                     /\ web'[web'[q].lead].entry \in {"open", "ok", "indet", "failed"}
               /\ web'[q].lead \in Req => /\ web'[web'[q].lead].pc # "idle"
                                          /\ web'[web'[q].lead].key = web'[q].key
    BY <2>1, <1>1, <1>9 DEF WebInv, CallsSane
  <2>2. /\ w.pc = "joins" => /\ w.lead \in Req \ {r}
                             /\ web[w.lead].entry \in {"open", "ok", "indet"}
                             /\ web[w.lead].key = k /\ web[w.lead].pc # "idle"
    BY <1>1, <1>2, <1>5, <1>8 DEF WebInv, CallsSane
  <2> QED
    BY <2>1, <2>2, <1>5, <1>7, <1>8, <1>9 DEF CallsSane
<1>15. OksBacked'
  <2> SUFFICES ASSUME NEW q \in Req
               PROVE  /\ web'[q].entry = "ok" => sends'[q] = 1
                      /\ web'[q].out = "ok" =>
                           \E s \in Req : /\ web'[s].key = web'[q].key
                                          /\ web'[s].entry # "none" /\ sends'[s] = 1
    BY DEF OksBacked
  <2>1. web'[q].entry = "ok" => sends'[q] = 1
    BY <1>7, <1>8, <1>9 DEF WebInv, OksBacked
  <2>2. ASSUME web'[q].out = "ok"
        PROVE  \E s \in Req : /\ web'[s].key = web'[q].key
                              /\ web'[s].entry # "none" /\ sends'[s] = 1
    <3>1. q # r /\ web[q].out = "ok"
      BY <2>2, <1>8, <1>9
    <3>2. PICK s \in Req : /\ web[s].key = web[q].key
                           /\ web[s].entry # "none" /\ sends[s] = 1
      BY <3>1 DEF WebInv, OksBacked
    <3> QED
      BY <3>1, <3>2, <1>1, <1>7, <1>9
  <2> QED
    BY <2>1, <2>2
<1> QED
  BY <1>11, <1>12, <1>13, <1>14, <1>15 DEF WebInv

(* What the guard keeps when one call settles, or starts again with its    *)
(* retention over: its key and its lead stay, a waiting duplicate too.     *)
LEMMA Settles ==
  ASSUME WebInv, NEW r \in Req, NEW w \in Web, web' = [web EXCEPT ![r] = w],
         w.key = web[r].key, w.lead = web[r].lead, w.pc = "done",
         w.entry # "open", web[r].entry \notin {"none"} => w.entry # "none",
         w.lapsed => w.entry \in {"ok", "indet"},
         web[r].entry # "none" => w.entry \in {"ok", "indet", "failed"},
         UNCHANGED <<hydrated, webstops, sends>>,
         registry' \in [Key -> Req \cup {NoOne}], file' \in [Key -> Req \cup {NoOne}],
         ~hydrated => registry' = registry,
         OwnersKeyed', HoldersFound',
         w.entry = "ok" => sends[r] = 1,
         w.out = "ok" => \E s \in Req : /\ web[s].key = web[r].key
                                        /\ (s # r => web[s].entry # "none")
                                        /\ (s = r => w.entry # "none") /\ sends[s] = 1
  PROVE  WebInv'
<1>1. /\ web' \in [Req -> Web] /\ \A q \in Req : web'[q] = IF q = r THEN w ELSE web[q]
  BY DEF WebInv, WebTypes
<1>2. WebTypes'
  BY <1>1 DEF WebInv, WebTypes
<1>3. CallsSane'
  <2>1. ASSUME NEW q \in Req
        PROVE  /\ web'[q].lead = web[q].lead /\ web'[q].key = web[q].key
               /\ web[q].pc # "idle" => web'[q].pc # "idle"
               /\ web[q].entry \in {"open", "ok", "indet", "failed"} =>
                    web'[q].entry \in {"open", "ok", "indet", "failed"}
    BY <1>1
  <2>2. ASSUME NEW q \in Req
        PROVE  /\ web'[q].lead \in Req => /\ web'[web'[q].lead].pc # "idle"
                                          /\ web'[web'[q].lead].key = web'[q].key
    BY <2>1 DEF WebInv, CallsSane
  <2>3. ASSUME NEW q \in Req
        PROVE  web'[q].pc = "joins" =>
                 /\ web'[q].lead \in Req /\ web'[q].entry = "none"
                 /\ web'[web'[q].lead].entry \in {"open", "ok", "indet", "failed"}
    BY <1>1, <2>1 DEF WebInv, CallsSane
  <2> QED
    BY <1>1, <2>2, <2>3 DEF WebInv, CallsSane
<1>4. OksBacked'
  <2> SUFFICES ASSUME NEW q \in Req
               PROVE  /\ web'[q].entry = "ok" => sends'[q] = 1
                      /\ web'[q].out = "ok" =>
                           \E s \in Req : /\ web'[s].key = web'[q].key
                                          /\ web'[s].entry # "none" /\ sends'[s] = 1
    BY DEF OksBacked
  <2>1. web'[q].entry = "ok" => sends'[q] = 1
    BY <1>1 DEF WebInv, OksBacked
  <2>2. ASSUME web'[q].out = "ok"
        PROVE  \E s \in Req : /\ web'[s].key = web'[q].key
                              /\ web'[s].entry # "none" /\ sends'[s] = 1
    <3>1. PICK s \in Req : /\ web[s].key = web[q].key
                           /\ (s # r => web[s].entry # "none")
                           /\ (s = r => w.entry # "none") /\ sends[s] = 1
      BY <1>1, <2>2 DEF WebInv, OksBacked
    <3> QED
      BY <1>1, <3>1
  <2> QED
    BY <2>1, <2>2
<1> QED
  BY <1>2, <1>3, <1>4 DEF WebInv

(* A placement that ends well or unknown is written to the file with every *)
(* other outcome still retained.                                           *)
LEMMA Retained ==
  ASSUME IInv, OnlyPlaces, WebInv, NEW r \in Req, Succeeds(r) \/ Aborts(r)
  PROVE  WebInv'
<1> DEFINE out == IF Succeeds(r) THEN "ok" ELSE "indet"
           w == [web[r] EXCEPT !.pc = "done", !.entry = out, !.out = out]
<1>1. /\ web[r] \in Web /\ web[r].pc = "runs" /\ web[r].entry = "open" /\ ~web[r].lapsed
      /\ hydrated /\ registry[web[r].key] = r
  BY DEF Succeeds, Aborts, WebInv, WebTypes, CallsSane, HoldersFound
<1>2. /\ out \in {"ok", "indet"}
      /\ web' = [web EXCEPT ![r] = w]
      /\ Persist(r, out) /\ UNCHANGED <<registry, hydrated, webstops, sends>>
  BY DEF Succeeds, Aborts, Settle, vars
<1>3. out = "ok" => sends[r] = 1
  BY SameBook DEF Succeeds, OnlyPlaces, Sane
<1> HIDE DEF out
<1>4. /\ w \in Web /\ w.key = web[r].key /\ w.lead = web[r].lead /\ w.pc = "done"
      /\ w.entry = out /\ w.out = out /\ ~w.lapsed
  BY <1>1, <1>2 DEF Web
<1> HIDE DEF w
<1>5. /\ \A q \in Req : web'[q] = IF q = r THEN w ELSE web[q]
      /\ registry \in [Key -> Req \cup {NoOne}]
      /\ \A q \in Req : web[q].key \in Key
  BY <1>2 DEF WebInv, WebTypes, Web
<1>6. /\ file' \in [Key -> Req \cup {NoOne}]
      /\ \A k \in Key : file'[k] \in Req =>
           /\ file'[k] = registry[k] /\ ~web[registry[k]].lapsed
           /\ registry[k] = r \/ web[registry[k]].entry \in {"ok", "indet"}
      /\ \A k \in Key : registry[k] \in Req /\ ~web[registry[k]].lapsed
           /\ (registry[k] = r \/ web[registry[k]].entry \in {"ok", "indet"})
              => file'[k] = registry[k]
  <2> DEFINE owner(k) == Kept(registry[k])
             cell(k) == IF owner(k) = r \/ (owner(k) # NoOne
                                            /\ web[owner(k)].entry \in {"ok", "indet"})
                        THEN owner(k) ELSE NoOne
  <2>1. file' = [k \in Key |-> cell(k)]
    BY <1>2 DEF Persist
  <2>2. ASSUME NEW k \in Key
        PROVE  /\ registry[k] \in Req \cup {NoOne}
               /\ owner(k) = IF registry[k] \in Req /\ web[registry[k]].lapsed
                             THEN NoOne ELSE registry[k]
    BY <1>5 DEF Kept
  <2>3. ASSUME NEW k \in Key
        PROVE  /\ cell(k) \in Req \cup {NoOne}
               /\ cell(k) \in Req =>
                    /\ cell(k) = registry[k] /\ ~web[registry[k]].lapsed
                    /\ registry[k] = r \/ web[registry[k]].entry \in {"ok", "indet"}
               /\ registry[k] \in Req /\ ~web[registry[k]].lapsed
                  /\ (registry[k] = r \/ web[registry[k]].entry \in {"ok", "indet"})
                     => cell(k) = registry[k]
    BY <2>2, PathAssumption
  <2> HIDE DEF cell
  <2> QED
    BY <2>1, <2>3
<1>7. OwnersKeyed'
  BY <1>1, <1>2, <1>4, <1>5, <1>6 DEF OwnersKeyed, WebInv
<1>8. HoldersFound'
  <2> SUFFICES ASSUME NEW q \in Req
               PROVE  /\ web'[q].entry = "open" => hydrated' /\ registry'[web'[q].key] = q
                      /\ Settled(q)' => /\ file'[web'[q].key] = q
                                        /\ hydrated' => registry'[web'[q].key] = q
    BY DEF HoldersFound
  <2>1. CASE q = r
    BY <2>1, <1>1, <1>2, <1>4, <1>5, <1>6 DEF Settled
  <2>2. CASE q # r
    BY <2>2, <1>1, <1>2, <1>5, <1>6 DEF Settled, WebInv, HoldersFound
  <2> QED
    BY <2>1, <2>2
<1>9. \E s \in Req : /\ web[s].key = web[r].key
                     /\ (s # r => web[s].entry # "none")
                     /\ (s = r => w.entry # "none") /\ (w.out = "ok" => sends[s] = 1)
  BY <1>2, <1>3, <1>4
<1>10. registry' \in [Key -> Req \cup {NoOne}]
  BY <1>2, <1>5
<1> QED
  BY <1>1, <1>2, <1>3, <1>4, <1>6, <1>7, <1>8, <1>9, <1>10, Settles

LEMMA Clears ==
  ASSUME WebInv, NEW r \in Req, Fails(r)
  PROVE  WebInv'
<1> DEFINE w == [web[r] EXCEPT !.pc = "done", !.entry = "failed", !.out = "failed"]
<1>1. /\ web[r] \in Web /\ web[r].pc = "runs" /\ web[r].entry = "open" /\ ~web[r].lapsed
      /\ hydrated /\ registry[web[r].key] = r
      /\ registry \in [Key -> Req \cup {NoOne}] /\ file \in [Key -> Req \cup {NoOne}]
  BY DEF Fails, WebInv, WebTypes, CallsSane, HoldersFound
<1>2. /\ web' = [web EXCEPT ![r] = w]
      /\ registry' = [registry EXCEPT ![web[r].key] = NoOne]
      /\ UNCHANGED <<file, hydrated, webstops, sends>>
  BY DEF Fails, Settle, vars
<1>3. /\ w \in Web /\ w.key = web[r].key /\ w.lead = web[r].lead /\ w.pc = "done"
      /\ w.entry = "failed" /\ w.out = "failed" /\ ~w.lapsed
  BY <1>1 DEF Web
<1> HIDE DEF w
<1>4. /\ \A q \in Req : web'[q] = IF q = r THEN w ELSE web[q]
      /\ \A q \in Req : web[q].key \in Key
      /\ registry' \in [Key -> Req \cup {NoOne}]
      /\ \A k \in Key : registry'[k] = IF k = web[r].key THEN NoOne ELSE registry[k]
  BY <1>1, <1>2 DEF WebInv, WebTypes, Web
<1>5. OwnersKeyed'
  BY <1>1, <1>2, <1>3, <1>4, PathAssumption DEF OwnersKeyed, WebInv
<1>6. HoldersFound'
  <2> SUFFICES ASSUME NEW q \in Req
               PROVE  /\ web'[q].entry = "open" => hydrated' /\ registry'[web'[q].key] = q
                      /\ Settled(q)' => /\ file'[web'[q].key] = q
                                        /\ hydrated' => registry'[web'[q].key] = q
    BY DEF HoldersFound
  <2> QED
    BY <1>1, <1>2, <1>3, <1>4 DEF Settled, WebInv, HoldersFound
<1> QED
  BY <1>1, <1>2, <1>3, <1>4, <1>5, <1>6, Settles

(* A duplicate ends with what its lead ended with.                         *)
LEMMA Joins ==
  ASSUME WebInv, NEW r \in Req, JoinEnds(r)
  PROVE  WebInv'
<1> DEFINE l == web[r].lead
           w == [web[r] EXCEPT !.pc = "done", !.out = web[l].entry]
<1>1. /\ web[r] \in Web /\ web[r].pc = "joins" /\ web[r].entry = "none" /\ ~web[r].lapsed
      /\ l \in Req /\ l # r /\ web[l].entry \in {"ok", "indet", "failed"}
      /\ web[l].key = web[r].key
      /\ registry \in [Key -> Req \cup {NoOne}] /\ file \in [Key -> Req \cup {NoOne}]
  BY DEF JoinEnds, WebInv, WebTypes, CallsSane
<1>2. /\ web' = [web EXCEPT ![r] = w]
      /\ UNCHANGED <<registry, file, hydrated, webstops, sends>>
  BY DEF JoinEnds, vars
<1> HIDE DEF l
<1>3. /\ w \in Web /\ w.key = web[r].key /\ w.lead = web[r].lead /\ w.pc = "done"
      /\ w.entry = "none" /\ w.out = web[l].entry /\ ~w.lapsed
  BY <1>1 DEF Web
<1> HIDE DEF w
<1>4. \A q \in Req : web'[q] = IF q = r THEN w ELSE web[q]
  BY <1>2 DEF WebInv, WebTypes
<1>5. OwnersKeyed'
  BY <1>1, <1>2, <1>4 DEF OwnersKeyed, WebInv
<1>6. HoldersFound'
  BY <1>1, <1>2, <1>3, <1>4 DEF HoldersFound, WebInv, Settled
<1>7. w.out = "ok" => sends[l] = 1 /\ web[l].entry # "none"
  BY <1>1, <1>3 DEF WebInv, OksBacked
<1> QED
  BY <1>1, <1>2, <1>3, <1>5, <1>6, <1>7, Settles

LEMMA Lapses ==
  ASSUME WebInv, NEW r \in Req, Lapse(r)
  PROVE  WebInv'
<1> DEFINE w == [web[r] EXCEPT !.lapsed = TRUE]
<1>1. /\ web[r] \in Web /\ web[r].entry \in {"ok", "indet"} /\ web[r].pc \notin {"idle", "runs", "joins"}
      /\ registry \in [Key -> Req \cup {NoOne}] /\ file \in [Key -> Req \cup {NoOne}]
  BY DEF Lapse, WebInv, WebTypes, CallsSane
<1>2. /\ web' = [web EXCEPT ![r] = w]
      /\ UNCHANGED <<registry, file, hydrated, webstops, sends>>
  BY DEF Lapse, vars
<1>3. /\ w \in Web /\ w.key = web[r].key /\ w.lead = web[r].lead /\ w.pc = web[r].pc
      /\ w.entry = web[r].entry /\ w.out = web[r].out /\ w.lapsed
  BY <1>1 DEF Web
<1>4. w.pc = "done"
  BY <1>1, <1>3 DEF Web
<1> HIDE DEF w
<1>5. \A q \in Req : web'[q] = IF q = r THEN w ELSE web[q]
  BY <1>2 DEF WebInv, WebTypes
<1>6. OwnersKeyed'
  BY <1>1, <1>2, <1>3, <1>5 DEF OwnersKeyed, WebInv
<1>7. HoldersFound'
  BY <1>1, <1>2, <1>3, <1>5 DEF HoldersFound, WebInv, Settled
<1>8. w.entry = "ok" => sends[r] = 1
  BY <1>3 DEF WebInv, OksBacked
<1>9. ASSUME w.out = "ok"
      PROVE  \E s \in Req : /\ web[s].key = web[r].key
                            /\ (s # r => web[s].entry # "none")
                            /\ (s = r => w.entry # "none") /\ sends[s] = 1
  <2>1. PICK s \in Req : web[s].key = web[r].key /\ web[s].entry # "none" /\ sends[s] = 1
    BY <1>3, <1>9 DEF WebInv, OksBacked
  <2> QED
    BY <1>1, <1>3, <2>1
<1> QED
  BY <1>1, <1>2, <1>3, <1>4, <1>6, <1>7, <1>8, <1>9, Settles

(* The web server dies: the memory is gone, the file is not.               *)
LEMMA Forgets ==
  ASSUME WebInv, WebDies
  PROVE  WebInv'
<1> DEFINE cut(q) == [web[q] EXCEPT !.pc = "done", !.out = "cut",
                        !.entry = IF web[q].entry = "open" THEN "lost" ELSE web[q].entry]
<1>1. /\ \A q \in Req : /\ web[q] \in Web
                        /\ web'[q] = IF web[q].pc \in {"idle", "done"} THEN web[q] ELSE cut(q)
      /\ DOMAIN web' = Req /\ web' = [q \in Req |-> web'[q]]
      /\ registry' = [k \in Key |-> NoOne] /\ hydrated' = FALSE
      /\ webstops' \in 0..WebStops
      /\ UNCHANGED <<file, sends>>
  <2>1. webstops' \in 0..WebStops
    <3>1. webstops \in 0..WebStops /\ webstops < WebStops /\ webstops' = webstops + 1
      BY DEF WebDies, WebInv, WebTypes
    <3> QED
      BY <3>1, PathAssumption
  <2>2. web' = [q \in Req |-> IF web[q].pc \in {"idle", "done"} THEN web[q] ELSE cut(q)]
    BY DEF WebDies
  <2> HIDE DEF cut
  <2> QED
    BY <2>1, <2>2 DEF WebDies, WebInv, WebTypes, vars
<1>2. ASSUME NEW q \in Req
      PROVE  /\ cut(q) \in Web /\ cut(q).key = web[q].key /\ cut(q).lead = web[q].lead
             /\ cut(q).pc = "done" /\ cut(q).out = "cut" /\ cut(q).lapsed = web[q].lapsed
             /\ cut(q).entry = IF web[q].entry = "open" THEN "lost" ELSE web[q].entry
  <2> DEFINE e == IF web[q].entry = "open" THEN "lost" ELSE web[q].entry
  <2>1. web[q] \in Web
    BY <1>1
  <2>2. e \in {"none", "open", "ok", "indet", "failed", "lost"}
    BY <2>1 DEF Web
  <2> HIDE DEF e
  <2>3. LET c == [web[q] EXCEPT !.pc = "done", !.out = "cut", !.entry = e]
        IN  /\ c \in Web /\ c.key = web[q].key /\ c.lead = web[q].lead
            /\ c.pc = "done" /\ c.out = "cut" /\ c.lapsed = web[q].lapsed
            /\ c.entry = e
    BY <2>1, <2>2 DEF Web
  <2> QED
    BY <2>3 DEF e
<1> HIDE DEF cut
<1>3. WebTypes'
  <2>1. web' \in [Req -> Web]
    BY <1>1, <1>2
  <2>2. registry' \in [Key -> Req \cup {NoOne}] /\ file' \in [Key -> Req \cup {NoOne}]
    BY <1>1 DEF WebInv, WebTypes
  <2> QED
    BY <1>1, <2>1, <2>2 DEF WebTypes
<1>4. ASSUME NEW q \in Req
      PROVE  /\ web'[q].key = web[q].key /\ web'[q].lead = web[q].lead
             /\ web'[q].lapsed = web[q].lapsed /\ web'[q].entry # "open"
             /\ web'[q].pc \in {"idle", "done"}
             /\ web'[q].pc = "idle" => web'[q] = web[q]
             /\ web[q].pc # "idle" => web'[q].pc # "idle"
             /\ web[q].entry # "open" => web'[q].entry = web[q].entry
             /\ web[q].entry = "open" => web'[q].entry = "lost"
             /\ web'[q].out = "ok" => web[q].out = "ok"
  BY <1>1, <1>2 DEF WebInv, CallsSane, Web
<1>5. OwnersKeyed'
  BY <1>1, <1>4, PathAssumption DEF OwnersKeyed, WebInv
<1>6. HoldersFound'
  BY <1>1, <1>4 DEF HoldersFound, WebInv, Settled
<1>7. CallsSane'
  BY <1>1, <1>4 DEF CallsSane, WebInv
<1>8. OksBacked'
  <2> SUFFICES ASSUME NEW q \in Req
               PROVE  /\ web'[q].entry = "ok" => sends'[q] = 1
                      /\ web'[q].out = "ok" =>
                           \E s \in Req : /\ web'[s].key = web'[q].key
                                          /\ web'[s].entry # "none" /\ sends'[s] = 1
    BY DEF OksBacked
  <2>1. web'[q].entry = "ok" => sends'[q] = 1
    BY <1>1, <1>4 DEF WebInv, OksBacked
  <2>2. ASSUME web'[q].out = "ok"
        PROVE  \E s \in Req : /\ web'[s].key = web'[q].key
                              /\ web'[s].entry # "none" /\ sends'[s] = 1
    <3>1. PICK s \in Req : web[s].key = web[q].key /\ web[s].entry # "none" /\ sends[s] = 1
      BY <1>4, <2>2 DEF WebInv, OksBacked
    <3> QED
      BY <1>1, <1>4, <3>1
  <2> QED
    BY <2>1, <2>2
<1> QED
  BY <1>3, <1>5, <1>6, <1>7, <1>8 DEF WebInv

(* A step of the web server or the desk keeps who holds a key, what the    *)
(* registry and its file say of it, and the orders behind each outcome.    *)
THEOREM PathInductive == PathInv /\ [PathNext]_pathvars => PathInv'
<1> SUFFICES ASSUME PathInv, [PathNext]_pathvars PROVE PathInv'
  OBVIOUS
<1>1. CASE \/ Desk \/ UNCHANGED pathvars \/ \E r \in Req : Deliver(r)
  <2>1. /\ \/ \E r \in Req : Handle(r) \/ Arrive(r, "place", {})
           \/ \E o \in Orders : Broker(o)
           \/ MinutePasses \/ ServiceStops \/ UNCHANGED vars
        /\ UNCHANGED webvars
    BY <1>1 DEF Desk, Deliver, pathvars, vars, webvars
  <2>2. IInv' /\ OnlyPlaces' /\ \A q \in Req : sends[q] = 1 => sends'[q] = 1
    BY <2>1, DeskSteps DEF PathInv
  <2> QED
    BY <2>1, <2>2, WebIdles DEF PathInv
<1>2. ASSUME UNCHANGED vars PROVE IInv' /\ OnlyPlaces'
  BY <1>2, DeskSteps DEF PathInv
<1>3. ASSUME NEW r \in Req, NEW k \in Key, Post(r, k) PROVE PathInv'
  BY <1>2, <1>3, Posts DEF PathInv, Post
<1>4. ASSUME NEW r \in Req, Ends(r) PROVE PathInv'
  <2>1. UNCHANGED vars
    BY <1>4 DEF Ends, Succeeds, Fails, Aborts, JoinEnds
  <2> QED
    BY <1>2, <1>4, <2>1, Retained, Clears, Joins DEF PathInv, Ends
<1>5. ASSUME NEW r \in Req, Lapse(r) PROVE PathInv'
  BY <1>2, <1>5, Lapses DEF PathInv, Lapse
<1>6. CASE WebDies
  BY <1>2, <1>6, Forgets DEF PathInv, WebDies
<1> QED
  BY <1>1, <1>3, <1>4, <1>5, <1>6 DEF PathNext

LEMMA PathStart == PathInit => PathInv
<1>1. PathInit => IInv
  BY Initially DEF PathInit
<1>2. PathInit => OnlyPlaces
  BY DEF PathInit, Init, OnlyPlaces, Fresh
<1> QED
  BY <1>1, <1>2, WebStart DEF PathInv

(* The guard's variables, and the desk's under it, keep their types.       *)
THEOREM PathTyping == PathSpec => []PathTypeOK
<1>1. PathInv => PathTypeOK
  BY DEF PathInv, IInv, WebInv, WebTypes, PathTypeOK
<1> QED
  BY <1>1, PathStart, PathInductive, PTL DEF PathSpec

(* No two calls of one key hold it, through aborts, retries and restarts.  *)
THEOREM HeldByOne == PathSpec => []OneRunPerKey
<1>1. PathInv => OneRunPerKey
  <2> SUFFICES ASSUME PathInv, NEW r \in Req, NEW s \in Req, r # s,
                      web[r].key = web[s].key, Holds(r), Holds(s)
               PROVE  FALSE
    BY DEF OneRunPerKey
  <2> QED
    BY DEF PathInv, WebInv, HoldersFound, Holds, Settled
<1> QED
  BY <1>1, PathStart, PathInductive, PTL DEF PathSpec

(* Every "ok" stands for an order the desk transmitted under that key.     *)
THEOREM OkIsBacked == PathSpec => []OkHasAnOrder
<1>1. PathInv => OkHasAnOrder
  BY DEF PathInv, WebInv, OksBacked, OkHasAnOrder
<1> QED
  BY <1>1, PathStart, PathInductive, PTL DEF PathSpec

-----------------------------------------------------------------------------
(* The guard and the desk together.                                        *)

(* Behind the guard the desk is the desk: a call that is delivered is a    *)
(* placement that arrives, and nothing else the web server does is felt.   *)
THEOREM PathImplementsDesk == PathSpec => Spec
<1>1. PathInit => Init
  BY DEF PathInit
<1>2. [PathNext]_pathvars => [Next]_vars
  <2> SUFFICES ASSUME [PathNext]_pathvars PROVE Next \/ UNCHANGED vars
    OBVIOUS
  <2>1. ASSUME NEW r \in Req, Deliver(r) PROVE Next
    <3>1. Arrive(r, "place", {})
      BY <2>1 DEF Deliver
    <3>2. "place" \in Kinds /\ {} \in SUBSET Resting
      BY <3>1 DEF Arrive
    <3> QED
      BY <3>1, <3>2 DEF Next
  <2>2. Desk => Next
    BY DEF Desk, Next
  <2>3. ASSUME NEW r \in Req, (\E k \in Key : Post(r, k)) \/ Ends(r) \/ Lapse(r)
        PROVE  UNCHANGED vars
    BY <2>3 DEF Post, Ends, Succeeds, Fails, Aborts, JoinEnds, Lapse
  <2>4. WebDies => UNCHANGED vars
    BY DEF WebDies
  <2>5. UNCHANGED pathvars => UNCHANGED vars
    BY DEF pathvars, vars
  <2> QED
    BY <2>1, <2>2, <2>3, <2>4, <2>5 DEF PathNext
<1> QED
  BY <1>1, <1>2, PTL DEF PathSpec, Spec

(* So what is proved of the desk holds behind the guard: no call of the    *)
(* web server is transmitted twice.                                        *)
THEOREM CallsSendOnce == PathSpec => []SentOnce
BY PathImplementsDesk, SendsOnce, PTL

(* Before a call has an entry of its own, and when it joins another's,     *)
(* FastAPI has not heard of it.                                            *)
Unheard == \A r \in Req : web[r].entry = "none" => job[r].pc = "idle"

LEMMA OnlyItsJob ==
  ASSUME PathInv, NEW r \in Req, Handle(r)
  PROVE  job[r].pc # "idle" /\ \A q \in Req \ {r} : job'[q] = job[q]
<1>1. job[r].kind = "place" /\ job[r].phase = "place" /\ DOMAIN job = Req
  BY SameBook DEF PathInv, OnlyPlaces, Sane, IInv, TypeOK
<1>2. job[r].pc # "idle"
  BY DEF Handle, Reserve, Refuse, Admit, NotAdmitted, ScanEnds, WhatIf, WhatIfFails,
     CheckHalt, NothingSent, Transmit, Placed, ScriptSaysNo, AskCancel, CancelConfirmed,
     AlreadyCancelled, CancelFails, Sweep, DrainSeen, SweepFails, TimesOut, Dies, Recovers,
     Cancelling, Sweeping, Placing, Running
<1>3. (\E out : Answer(r, out)) \/ (\E pc : Goto(r, pc))
  BY <1>1 DEF Handle, Reserve, Refuse, Admit, NotAdmitted, ScanEnds, WhatIf, WhatIfFails,
     CheckHalt, SecondLook, NothingSent, Transmit, Placed, ScriptSaysNo, AskCancel,
     CancelConfirmed, AlreadyCancelled, CancelFails, Sweep, DrainSeen, SweepFails, TimesOut,
     Dies, Recovers, Repeatable, Cancelling, Sweeping, Placing
<1>4. \E j : job' = [job EXCEPT ![r] = j]
  BY <1>3 DEF Answer, Goto
<1> QED
  BY <1>1, <1>2, <1>4

LEMMA StaysUnheard == PathInv /\ Unheard /\ [PathNext]_pathvars => Unheard'
<1> SUFFICES ASSUME PathInv, Unheard, [PathNext]_pathvars,
                    NEW q \in Req, web'[q].entry = "none"
             PROVE  job'[q].pc = "idle"
  BY DEF Unheard
<1>1. web \in [Req -> Web]
  BY DEF PathInv, WebInv, WebTypes
<1>2. ASSUME web'[q].entry = web[q].entry, job'[q] = job[q] PROVE job'[q].pc = "idle"
  BY <1>2 DEF Unheard
<1>3. ASSUME NEW r \in Req, NEW k \in Key, Post(r, k) PROVE job'[q].pc = "idle"
  <2>1. \/ web' = [web EXCEPT ![r].pc = "runs", ![r].key = k, ![r].lead = r,
                              ![r].entry = "open"]
        \/ web' = [web EXCEPT ![r].pc = "joins", ![r].key = k, ![r].lead = Entries[k]]
    BY <1>3 DEF Post
  <2>2. web'[q].entry = web[q].entry \/ web'[q].entry = "open"
    BY <1>1, <2>1 DEF Web
  <2> QED
    BY <1>2, <1>3, <2>2 DEF Post, vars
<1>4. ASSUME NEW r \in Req, Ends(r) PROVE job'[q].pc = "idle"
  <2>1. CASE JoinEnds(r)
    BY <1>1, <1>2, <2>1 DEF JoinEnds, vars, Web
  <2>2. ASSUME NEW entry \in {"ok", "indet", "failed"}, Settle(r, entry), job' = job
        PROVE  job'[q].pc = "idle"
    <3>1. web'[q].entry = web[q].entry \/ web'[q].entry = entry
      BY <1>1, <2>2 DEF Settle, Web
    <3> QED
      BY <1>2, <2>2, <3>1
  <2> QED
    BY <1>4, <2>1, <2>2 DEF Ends, Succeeds, Fails, Aborts, vars
<1>5. ASSUME NEW r \in Req, Lapse(r) PROVE job'[q].pc = "idle"
  BY <1>1, <1>2, <1>5 DEF Lapse, vars, Web
<1>6. CASE WebDies
  <2>1. web[q].pc \notin {"idle", "done"} =>
          web'[q] = [web[q] EXCEPT !.pc = "done", !.out = "cut",
                         !.entry = IF web[q].entry = "open" THEN "lost" ELSE web[q].entry]
    BY <1>6 DEF WebDies
  <2>2. web'[q].entry = web[q].entry
    <3>1. CASE web[q].pc \in {"idle", "done"}
      BY <1>6, <3>1 DEF WebDies
    <3>2. CASE web[q].pc \notin {"idle", "done"}
      <4> DEFINE e == IF web[q].entry = "open" THEN "lost" ELSE web[q].entry
      <4>1. web[q] \in Web /\ web'[q] = [web[q] EXCEPT !.pc = "done", !.out = "cut",
                                                      !.entry = e]
        BY <1>1, <2>1, <3>2
      <4> HIDE DEF e
      <4>2. web'[q].entry = e
        BY <4>1 DEF Web
      <4> QED
        BY <4>2 DEF e
    <3> QED
      BY <3>1, <3>2
  <2> QED
    BY <1>2, <1>6, <2>2 DEF WebDies, vars
<1>7. ASSUME NEW r \in Req, Deliver(r) PROVE job'[q].pc = "idle"
  <2>1. UNCHANGED web /\ web[r].entry # "none" /\ r # q
    BY <1>7 DEF Deliver, webvars
  <2>2. \E j : job' = [job EXCEPT ![r] = j]
    BY <1>7 DEF Deliver, Arrive
  <2>3. job'[q] = job[q]
    BY <2>1, <2>2 DEF PathInv, IInv, TypeOK
  <2> QED
    BY <1>2, <2>1, <2>3
<1>8. CASE Desk
  <2>1. UNCHANGED web /\ job[q].pc = "idle"
    BY <1>8 DEF Desk, webvars, Unheard
  <2>2. ASSUME NEW r \in Req, Handle(r) PROVE job'[q] = job[q]
    BY <2>1, <2>2, OnlyItsJob
  <2>3. (\E o \in Orders : Broker(o)) \/ MinutePasses => job' = job
    BY DEF Broker, MinutePasses
  <2>4. ServiceStops => job'[q] = job[q]
    BY <2>1 DEF ServiceStops
  <2>5. job'[q] = job[q]
    BY <1>8, <2>2, <2>3, <2>4 DEF Desk
  <2> QED
    BY <1>2, <2>1, <2>5
<1>9. CASE UNCHANGED pathvars
  BY <1>2, <1>9 DEF pathvars
<1> QED
  BY <1>3, <1>4, <1>5, <1>6, <1>7, <1>8, <1>9 DEF PathNext

LEMMA StartsUnheard == PathInit => Unheard
BY DEF PathInit, Init, Unheard, Fresh

(* A call that joined another's entry, or has not come, sent nothing.      *)
JoinersSendNothing == \A r \in Req : web[r].entry = "none" => sends[r] = 0

(* Two orders of one key mean that somebody was told of a failure, that a  *)
(* retention ran out, or that the web server died under a call.            *)
SecondOrderHasACause ==
    \A r, s \in Req : r # s /\ web[r].key = web[s].key /\ sends[r] = 1 /\ sends[s] = 1
        => \E q \in {r, s} : web[q].lapsed \/ web[q].entry \in {"failed", "lost"}

(* A duplicate that joins another call's entry never places an order of    *)
(* its own (orderIdempotency.ts:36).                                       *)
THEOREM JoinersAreSilent == PathSpec => []JoinersSendNothing
<1>1. PathInv /\ Unheard => JoinersSendNothing
  <2> SUFFICES ASSUME PathInv, Unheard, NEW r \in Req, web[r].entry = "none"
               PROVE  sends[r] = 0
    BY DEF JoinersSendNothing
  <2>1. job[r].pc = "idle" /\ Sane(job[r], sends[r]) /\ sends[r] \in 0..2
    BY SameBook DEF Unheard, PathInv, IInv, TypeOK, JobsSane
  <2> QED
    BY <2>1 DEF Sane
<1> QED
  BY <1>1, PathStart, PathInductive, StartsUnheard, StaysUnheard, PTL DEF PathSpec

(* The ways in which one key can be placed twice are these three and no    *)
(* other: the guard itself never lets a second order through.              *)
THEOREM CausesOfASecond == PathSpec => []SecondOrderHasACause
<1>1. OneRunPerKey /\ JoinersSendNothing /\ PathTypeOK => SecondOrderHasACause
  <2> SUFFICES ASSUME OneRunPerKey, JoinersSendNothing, PathTypeOK,
                      NEW r \in Req, NEW s \in Req, r # s, web[r].key = web[s].key,
                      sends[r] = 1, sends[s] = 1
               PROVE  \E q \in {r, s} : web[q].lapsed \/ web[q].entry \in {"failed", "lost"}
    BY DEF SecondOrderHasACause
  <2>1. PICK q \in {r, s} : ~Holds(q)
    BY DEF OneRunPerKey
  <2>2. web[q] \in Web /\ web[q].entry # "none"
    BY DEF JoinersSendNothing, PathTypeOK
  <2> QED
    BY <2>1, <2>2 DEF Holds, Web
<1> QED
  BY <1>1, HeldByOne, JoinersAreSilent, PathTyping, PTL

-----------------------------------------------------------------------------
(* The registry as one that never forgets.                                 *)

Unanswered == \A r \in Req : web[r].pc # "done" => web[r].out = "none"

LEMMA StaysUnanswered == WebInv /\ Unanswered /\ [PathNext]_pathvars => Unanswered'
<1> SUFFICES ASSUME WebInv, Unanswered, [PathNext]_pathvars,
                    NEW q \in Req, web'[q].pc # "done"
             PROVE  web'[q].out = "none"
  BY DEF Unanswered
<1>1. web \in [Req -> Web] /\ (web[q].pc # "done" => web[q].out = "none")
  BY DEF WebInv, WebTypes, Unanswered
<1>2. ASSUME NEW r \in Req, NEW k \in Key, Post(r, k) PROVE web'[q].out = "none"
  <2>1. \/ web' = [web EXCEPT ![r].pc = "runs", ![r].key = k, ![r].lead = r,
                              ![r].entry = "open"]
        \/ web' = [web EXCEPT ![r].pc = "joins", ![r].key = k, ![r].lead = Entries[k]]
    BY <1>2 DEF Post
  <2>2. web[r].pc # "done"
    BY <1>2 DEF Post
  <2> QED
    BY <1>1, <2>1, <2>2 DEF Web, Unanswered
<1>3. ASSUME NEW r \in Req, Ends(r) PROVE web'[q].out = "none"
  <2>1. CASE JoinEnds(r)
    BY <1>1, <2>1 DEF JoinEnds, Web
  <2>2. ASSUME NEW entry \in {"ok", "indet", "failed"}, Settle(r, entry)
        PROVE  web'[q].out = "none"
    BY <1>1, <2>2 DEF Settle, Web
  <2> QED
    BY <1>3, <2>1, <2>2 DEF Ends, Succeeds, Fails, Aborts
<1>4. ASSUME NEW r \in Req, Lapse(r) PROVE web'[q].out = "none"
  BY <1>1, <1>4 DEF Lapse, Web
<1>5. CASE WebDies
  <2> DEFINE e == IF web[q].entry = "open" THEN "lost" ELSE web[q].entry
  <2>1. web[q] \in Web /\ web'[q] = IF web[q].pc \in {"idle", "done"} THEN web[q]
                  ELSE [web[q] EXCEPT !.pc = "done", !.out = "cut", !.entry = e]
    BY <1>1, <1>5 DEF WebDies
  <2> HIDE DEF e
  <2> QED
    BY <1>1, <2>1 DEF Web
<1>6. CASE Desk \/ UNCHANGED pathvars \/ \E r \in Req : Deliver(r)
  BY <1>1, <1>6 DEF Desk, Deliver, webvars, pathvars
<1> QED
  BY <1>2, <1>3, <1>4, <1>5, <1>6 DEF PathNext

OnceInv == PathInv /\ Unheard /\ Unanswered

OnceSteps == Once!Next \/ UNCHANGED Once!vars

(* One call's record, field by field.                                      *)
LEMMA OneCall ==
  ASSUME web \in [Req -> Web], NEW r \in Req, NEW w, web' = [web EXCEPT ![r] = w]
  PROVE  /\ [q \in Req |-> web'[q].key] = [[q \in Req |-> web[q].key] EXCEPT ![r] = w.key]
         /\ [q \in Req |-> web'[q].entry] = [[q \in Req |-> web[q].entry] EXCEPT ![r] = w.entry]
         /\ [q \in Req |-> web'[q].lapsed]
               = [[q \in Req |-> web[q].lapsed] EXCEPT ![r] = w.lapsed]
         /\ [q \in Req |-> web'[q].out] = [[q \in Req |-> web[q].out] EXCEPT ![r] = w.out]
OBVIOUS

LEMMA OncePosts ==
  ASSUME OnceInv, NEW r \in Req, NEW k \in Key, Post(r, k)
  PROVE  OnceSteps
<1> DEFINE new == [web[r] EXCEPT !.pc = "runs", !.key = k, !.lead = r, !.entry = "open"]
           old == [web[r] EXCEPT !.pc = "joins", !.key = k, !.lead = Entries[k]]
<1>1. /\ web \in [Req -> Web] /\ web[r] \in Web /\ web[r].entry = "none"
      /\ web[r].out = "none" /\ WebInv
  BY DEF OnceInv, PathInv, Post, WebInv, WebTypes, CallsSane
<1>2. sends' = sends
  BY DEF Post, vars
<1>3. /\ new.key = k /\ new.entry = "open" /\ new.lapsed = web[r].lapsed /\ new.out = web[r].out
      /\ old.key = k /\ old.entry = web[r].entry /\ old.lapsed = web[r].lapsed
      /\ old.out = web[r].out
  BY <1>1 DEF Web
<1>4. /\ Entries[k] = NoOne => web' = [web EXCEPT ![r] = new]
      /\ Entries[k] # NoOne => web' = [web EXCEPT ![r] = old]
  BY DEF Post
<1> HIDE DEF new, old
<1>5. CASE Entries[k] = NoOne
  <2>1. \A q \in Req : web[q].key = k => ~Once!Holds(q)
    BY <1>1, <1>5, Finds, PathAssumption DEF Once!Holds, Once!Settled, Settled
  <2>2. Once!Claims(r, k)
    BY <1>1, <1>2, <1>3, <1>4, <1>5, <2>1, OneCall DEF Once!Claims, Once!Unserved
  <2> QED
    BY <2>2 DEF OnceSteps, Once!Next
<1>6. CASE Entries[k] # NoOne
  <2>1. PICK q \in Req : q = Entries[k]
    BY <1>1, <1>6, Finds
  <2>2. web[q].key = k /\ Once!Holds(q)
    BY <1>1, <2>1, Finds DEF Once!Holds, Once!Settled
  <2>3. Once!Joins(r, k)
    BY <1>1, <1>2, <1>3, <1>4, <1>6, <2>2, OneCall DEF Once!Joins, Once!Unserved
  <2> QED
    BY <2>3 DEF OnceSteps, Once!Next
<1> QED
  BY <1>5, <1>6

LEMMA OnceEnds ==
  ASSUME OnceInv, NEW r \in Req, Ends(r)
  PROVE  OnceSteps
<1>1. /\ web \in [Req -> Web] /\ web[r] \in Web /\ WebInv
      /\ web[r].pc \in {"runs", "joins"} /\ web[r].out = "none"
      /\ web[r].pc = "runs" => web[r].entry = "open"
  BY DEF OnceInv, PathInv, WebInv, WebTypes, CallsSane, Unanswered, Ends, Succeeds, Fails,
     Aborts, JoinEnds
<1>2. sends' = sends
  BY DEF Ends, Succeeds, Fails, Aborts, JoinEnds, vars
<1>3. ASSUME NEW how \in {"ok", "indet", "failed"}, web[r].pc = "runs", Settle(r, how),
             how = "ok" => sends[r] = 1
      PROVE  OnceSteps
  <2> DEFINE w == [web[r] EXCEPT !.pc = "done", !.entry = how, !.out = how]
  <2>1. /\ web' = [web EXCEPT ![r] = w] /\ w.key = web[r].key /\ w.entry = how
        /\ w.lapsed = web[r].lapsed /\ w.out = how
    BY <1>1, <1>3 DEF Settle, Web
  <2> HIDE DEF w
  <2>2. Once!Ends(r, how)
    BY <1>1, <1>2, <1>3, <2>1, OneCall DEF Once!Ends
  <2> QED
    BY <2>2 DEF OnceSteps, Once!Next, Once!Settled
<1>4. Succeeds(r) => sends[r] = 1
  BY SameBook DEF Succeeds, OnlyPlaces, Sane, OnceInv, PathInv
<1>5. CASE JoinEnds(r)
  <2> DEFINE w == [web[r] EXCEPT !.pc = "done", !.out = web[web[r].lead].entry]
  <2>1. PICK q \in Req : /\ q = web[r].lead /\ web[q].key = web[r].key
                         /\ web[q].entry \in {"ok", "indet", "failed"}
                         /\ web[r].entry = "none"
    BY <1>5 DEF JoinEnds, OnceInv, PathInv, WebInv, CallsSane
  <2>2. /\ web' = [web EXCEPT ![r] = w] /\ w.key = web[r].key /\ w.entry = web[r].entry
        /\ w.lapsed = web[r].lapsed /\ w.out = web[q].entry
    BY <1>1, <1>5, <2>1 DEF JoinEnds, Web
  <2> HIDE DEF w
  <2>3. Once!Hears(r, q)
    BY <1>1, <1>2, <2>1, <2>2, OneCall DEF Once!Hears, Once!Unserved, Once!Settled
  <2> QED
    BY <2>3 DEF OnceSteps, Once!Next
<1> QED
  BY <1>3, <1>4, <1>5 DEF Ends, Succeeds, Fails, Aborts

LEMMA OnceLapses ==
  ASSUME OnceInv, NEW r \in Req, Lapse(r)
  PROVE  OnceSteps
<1> DEFINE w == [web[r] EXCEPT !.lapsed = TRUE]
<1>1. web \in [Req -> Web] /\ web[r] \in Web
  BY DEF OnceInv, PathInv, WebInv, WebTypes
<1>2. /\ web' = [web EXCEPT ![r] = w] /\ w.key = web[r].key /\ w.entry = web[r].entry
      /\ w.lapsed = TRUE /\ w.out = web[r].out /\ sends' = sends
  BY <1>1 DEF Lapse, Web, vars
<1> HIDE DEF w
<1>3. Once!Lapses(r)
  BY <1>1, <1>2, OneCall DEF Lapse, Once!Lapses, Once!Settled
<1> QED
  BY <1>3 DEF OnceSteps, Once!Next

LEMMA OnceDies ==
  ASSUME OnceInv, WebDies
  PROVE  OnceSteps
<1>1. /\ web \in [Req -> Web] /\ sends' = sends
      /\ \A q \in Req : /\ web[q].pc \in {"idle", "done"} => web[q].entry # "open"
                        /\ web[q].pc # "done" => web[q].out = "none"
  BY DEF OnceInv, PathInv, WebInv, WebTypes, WebDies, CallsSane, Unanswered, vars
<1>2. PICK cut \in SUBSET Req : cut = {q \in Req : web[q].pc \notin {"idle", "done"}}
  OBVIOUS
<1>3. ASSUME NEW q \in Req
      PROVE  /\ web'[q].key = web[q].key /\ web'[q].lapsed = web[q].lapsed
             /\ web'[q].entry = IF web[q].entry = "open" THEN "lost" ELSE web[q].entry
             /\ web'[q].out = IF q \in cut THEN "cut" ELSE web[q].out
  <2> DEFINE e == IF web[q].entry = "open" THEN "lost" ELSE web[q].entry
  <2>1. web[q] \in Web /\ web'[q] = IF web[q].pc \in {"idle", "done"} THEN web[q]
                  ELSE [web[q] EXCEPT !.pc = "done", !.out = "cut", !.entry = e]
    BY <1>1 DEF WebDies
  <2>2. web[q].pc \in {"idle", "done"} => web[q].entry = e
    BY <1>1
  <2> HIDE DEF e
  <2>3. /\ web'[q].key = web[q].key /\ web'[q].lapsed = web[q].lapsed
        /\ web'[q].entry = e /\ web'[q].out = IF q \in cut THEN "cut" ELSE web[q].out
    BY <1>2, <2>1, <2>2 DEF Web
  <2> QED
    BY <2>3 DEF e
<1>4. Once!Dies(cut)
  BY <1>1, <1>2, <1>3 DEF Once!Dies
<1> QED
  BY <1>4 DEF OnceSteps, Once!Next

(* What the desk does for a call is to place its order, or nothing.        *)
LEMMA OnceDesk ==
  ASSUME OnceInv, Desk \/ \E r \in Req : Deliver(r)
  PROVE  OnceSteps
<1>1. UNCHANGED web
  BY DEF Desk, Deliver, webvars
<1>2. ASSUME UNCHANGED sends PROVE OnceSteps
  BY <1>1, <1>2 DEF OnceSteps, Once!vars
<1>3. ASSUME NEW r \in Req, Transmit(r) PROVE OnceSteps
  <2>1. /\ sends \in [Req -> 0..2] /\ sends[r] = 0 /\ web[r].entry # "none"
        /\ sends' = [sends EXCEPT ![r] = sends[r] + 1]
    <3>1. /\ job[r].phase = "place" /\ job[r].pc = "ready" /\ Sane(job[r], sends[r])
          /\ sends \in [Req -> 0..2] /\ sends' = [sends EXCEPT ![r] = sends[r] + 1]
      BY <1>3 DEF Transmit, Placing, OnceInv, PathInv, IInv, TypeOK, JobsSane
    <3> QED
      BY <3>1 DEF Sane, OnceInv, Unheard
  <2>2. Once!Sends(r)
    BY <1>1, <2>1 DEF Once!Sends
  <2> QED
    BY <2>2 DEF OnceSteps, Once!Next
<1>4. ASSUME NEW r \in Req, Handle(r), ~Transmit(r) PROVE UNCHANGED sends
  BY <1>4 DEF Handle, Reserve, Refuse, Admit, NotAdmitted, ScanEnds, WhatIf,
     WhatIfFails, CheckHalt, NothingSent, Placed, ScriptSaysNo, AskCancel,
     CancelConfirmed, AlreadyCancelled, CancelFails, Sweep, DrainSeen, SweepFails,
     TimesOut, Dies, Recovers
<1>5. ASSUME NEW r \in Req, Deliver(r) PROVE UNCHANGED sends
  BY <1>5 DEF Deliver, Arrive
<1>6. (\E o \in Orders : Broker(o)) \/ MinutePasses \/ ServiceStops => UNCHANGED sends
  BY DEF Broker, MinutePasses, ServiceStops
<1> QED
  BY <1>2, <1>3, <1>4, <1>5, <1>6 DEF Desk

(* The registry that is in memory, saved, evicted, lost and read back is   *)
(* to its callers one that never forgets.                                  *)
THEOREM ImplementsOnce == PathSpec => OnceHolds
<1>1. PathInit => OnceInv /\ Once!Init
  <2>1. ASSUME PathInit PROVE Unanswered /\ Once!Init
    BY <2>1 DEF PathInit, Init, Unanswered, Once!Init
  <2> QED
    BY <2>1, PathStart, StartsUnheard DEF OnceInv
<1>2. OnceInv /\ [PathNext]_pathvars => OnceInv'
  BY PathInductive, StaysUnheard, StaysUnanswered DEF OnceInv, PathInv
<1>3. OnceInv /\ [PathNext]_pathvars => [Once!Next]_(Once!vars)
  <2> SUFFICES ASSUME OnceInv, [PathNext]_pathvars PROVE OnceSteps
    BY DEF OnceSteps
  <2>1. UNCHANGED pathvars => OnceSteps
    BY DEF pathvars, OnceSteps, Once!vars
  <2> QED
    BY <2>1, OncePosts, OnceEnds, OnceLapses, OnceDies, OnceDesk DEF PathNext
<1> QED
  BY <1>1, <1>2, <1>3, PTL DEF PathSpec, OnceHolds, Once!Spec
=============================================================================
