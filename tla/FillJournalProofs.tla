-------------------------- MODULE FillJournalProofs --------------------------
(***************************************************************************)
(* Proofs about the journal of fills, for any orders, sizes, days and      *)
(* faults.                                                                 *)
(***************************************************************************)
EXTENDS FillJournal, FiniteSetTheorems, TLAPS

IsRow(r) == r = [x |-> r.x, id |-> r.id, cor |-> r.cor]

RowsSane ==
    /\ IsFiniteSet(rows)
    /\ \A r \in rows : IsRow(r)
    /\ OneRowPerExecution

(* What a sync is still to write agrees with the rows it does not replace: *)
(* nobody else writes rows while it runs.                                  *)
SynSane ==
    /\ syn.pc \in {"idle", "write"}
    /\ \A e \in syn.todo : IsRow(e) /\ \A r \in rows : r.x = e.x => r.id = e.id
    /\ \A e, f \in syn.todo : e.x = f.x => e = f
    /\ \A r \in syn.view \cup syn.written : \E q \in rows : q.x = r.x

(* Counts of fills are counts.                                             *)
Counts ==
    /\ IsFiniteSet(DOMAIN execs)
    /\ \A o \in DOMAIN mon.book : mon.book[o] \in Nat
    /\ \A m \in mirrors : m.n \in Nat
    /\ mon.todo \subseteq DOMAIN mon.book
    /\ mon = [pc |-> mon.pc, book |-> mon.book, todo |-> mon.todo, news |-> mon.news]

JInv == RowsSane /\ SynSane /\ Counts

-----------------------------------------------------------------------------
LEMMA Keeps ==
  ASSUME JInv, UNCHANGED <<rows, syn>>, Counts'
  PROVE  JInv'
BY DEF JInv, RowsSane, SynSane, IsRow, OneRowPerExecution

LEMMA SynForgotten ==
  ASSUME JInv, UNCHANGED rows, syn' = NoSyn, Counts'
  PROVE  JInv'
BY DEF JInv, RowsSane, SynSane, IsRow, OneRowPerExecution, NoSyn

LEMMA SameCounts ==
  ASSUME Counts, UNCHANGED <<execs, mon, mirrors>>
  PROVE  Counts'
BY DEF Counts

(* What a sync is to write: later corrections of rows, and executions that *)
(* have none.                                                              *)
LEMMA ToWrite ==
  ASSUME JInv, NEW seen, NEW first, DOMAIN first = Fresh(seen, rows),
         NEW e \in Entries(seen, rows) \cup
                    {[x |-> x, id |-> first[x], cor |-> seen[x]] : x \in DOMAIN first}
  PROVE  /\ IsRow(e)
         /\ \/ \E r \in rows : /\ r.x = e.x /\ r.id = e.id /\ e = [r EXCEPT !.cor = seen[r.x]]
                             /\ e.x \in DOMAIN seen /\ e.cor = seen[e.x] /\ seen[e.x] > r.cor
            \/ /\ \A r \in rows : r.x # e.x
               /\ e.x \in DOMAIN first /\ e.x \in DOMAIN seen
               /\ e = [x |-> e.x, id |-> first[e.x], cor |-> seen[e.x]]
<1>1. CASE e \in Entries(seen, rows)
  <2>1. PICK r \in rows : /\ e = [r EXCEPT !.cor = seen[r.x]]
                          /\ r.x \in DOMAIN seen /\ seen[r.x] > r.cor
    BY <1>1 DEF Entries
  <2>2. r = [x |-> r.x, id |-> r.id, cor |-> r.cor]
    BY DEF JInv, RowsSane, IsRow
  <2>3. /\ e.x = r.x /\ e.id = r.id
        /\ e = [x |-> r.x, id |-> r.id, cor |-> seen[r.x]]
    BY <2>1, <2>2
  <2> QED
    BY <2>1, <2>3 DEF IsRow
<1>2. CASE e \in {[x |-> x, id |-> first[x], cor |-> seen[x]] : x \in DOMAIN first}
  <2>1. PICK x \in Fresh(seen, rows) : e = [x |-> x, id |-> first[x], cor |-> seen[x]]
    BY <1>2
  <2> QED
    BY <2>1 DEF Fresh, IsRow
<1> QED
  BY <1>1, <1>2

LEMMA Reads ==
  ASSUME JInv, NEW seen, NEW sweep, SynReadsThat(seen, sweep), IsFiniteSet(DOMAIN seen)
  PROVE  JInv'
<1>1. PICK first \in [Fresh(seen, rows) -> Version] :
        syn' = [pc |-> "write", sweep |-> sweep, view |-> rows,
                todo |-> Entries(seen, rows) \cup
                         {[x |-> x, id |-> first[x], cor |-> seen[x]] : x \in DOMAIN first},
                written |-> {}]
  BY DEF SynReadsThat
<1>2. DOMAIN first = Fresh(seen, rows)
  OBVIOUS
<1>3. UNCHANGED <<execs, mon, mirrors, rows>>
  BY DEF SynReadsThat, broker, clock, store
<1>4. ASSUME NEW e \in syn'.todo
      PROVE  /\ IsRow(e)
             /\ \/ \E r \in rows : r.x = e.x /\ r.id = e.id /\ e = [r EXCEPT !.cor = seen[r.x]]
                \/ /\ \A r \in rows : r.x # e.x
                   /\ e = [x |-> e.x, id |-> first[e.x], cor |-> seen[e.x]]
  <2>1. e \in Entries(seen, rows) \cup
               {[x |-> x, id |-> first[x], cor |-> seen[x]] : x \in DOMAIN first}
    BY <1>1
  <2> QED
    BY <1>2, <2>1, ToWrite
<1>5. SynSane'
  <2>1. ASSUME NEW e \in syn'.todo, NEW r \in rows, r.x = e.x PROVE r.id = e.id
    BY <1>4, <2>1 DEF JInv, RowsSane, OneRowPerExecution
  <2>2. ASSUME NEW e \in syn'.todo, NEW f \in syn'.todo, e.x = f.x PROVE e = f
    <3>1. CASE \E r \in rows : r.x = e.x
      <4>1. PICK r \in rows : r.x = e.x /\ e = [r EXCEPT !.cor = seen[r.x]]
        BY <1>4, <3>1
      <4>2. PICK q \in rows : q.x = f.x /\ f = [q EXCEPT !.cor = seen[q.x]]
        BY <1>4, <2>2, <3>1
      <4> QED
        BY <2>2, <4>1, <4>2 DEF JInv, RowsSane, OneRowPerExecution
    <3>2. CASE ~\E r \in rows : r.x = e.x
      BY <1>4, <2>2, <3>2
    <3> QED
      BY <3>1, <3>2
  <2> QED
    BY <1>1, <1>3, <1>4, <2>1, <2>2 DEF SynSane
<1>6. RowsSane' /\ Counts'
  BY <1>3, SameCounts DEF JInv, RowsSane, OneRowPerExecution
<1> QED
  BY <1>5, <1>6 DEF JInv

LEMMA Writes ==
  ASSUME JInv, NEW e \in syn.todo, SynWrites(e)
  PROVE  JInv'
<1>1. PICK lost \in BOOLEAN :
        /\ rows' = IF lost THEN rows
                   ELSE {r \in rows : ~(r.x = e.x /\ r.id = e.id)} \cup {e}
        /\ syn' = [syn EXCEPT !.todo = syn.todo \ {e}, !.written = Covering(e, lost)]
  BY DEF SynWrites
<1>2. UNCHANGED <<execs, mon, mirrors>>
  BY DEF SynWrites, broker, clock
<1>3. Counts'
  BY <1>2, SameCounts DEF JInv
<1>4. IsRow(e) /\ \A r \in rows : r.x = e.x => r.id = e.id
  BY DEF JInv, SynSane
<1>5. RowsSane'
  <2>1. CASE rows' = rows
    BY <2>1 DEF JInv, RowsSane, OneRowPerExecution
  <2>2. CASE rows' = {r \in rows : ~(r.x = e.x /\ r.id = e.id)} \cup {e}
    <3>1. IsFiniteSet(rows')
      <4>1. IsFiniteSet({r \in rows : ~(r.x = e.x /\ r.id = e.id)})
        BY FS_Subset DEF JInv, RowsSane
      <4> QED
        BY <2>2, <4>1, FS_AddElement
    <3>2. \A r \in rows' : r = e \/ (r \in rows /\ r.x # e.x)
      BY <1>4, <2>2
    <3>3. \A r \in rows' : IsRow(r)
      BY <1>4, <3>2 DEF JInv, RowsSane
    <3>4. OneRowPerExecution'
      BY <3>2 DEF JInv, RowsSane, OneRowPerExecution
    <3> QED
      BY <3>1, <3>3, <3>4 DEF RowsSane
  <2> QED
    BY <1>1, <2>1, <2>2
<1>6. SynSane'
  <2> SUFFICES ASSUME TRUE PROVE SynSane'
    OBVIOUS
  <2>1. \A f \in syn.todo \ {e} : f.x # e.x
    BY DEF JInv, SynSane
  <2>2. \A r \in rows : \E q \in rows' : q.x = r.x
    <3>1. \A r \in rows : r.x # e.x => r \in rows'
      BY <1>1
    <3>2. \A r \in rows : r.x = e.x => r.id = e.id
      BY <1>4
    <3> QED
      BY <1>1, <3>1, <3>2
  <2> QED
    BY <1>1, <2>1, <2>2 DEF JInv, SynSane, Covering
<1> QED
  BY <1>3, <1>5, <1>6 DEF JInv

LEMMA SynSteps ==
  ASSUME JInv, Sync
  PROVE  JInv'
<1>1. CASE SynReads
  <2>1. PICK seen \in Reports, sweep \in BOOLEAN : SynReadsThat(seen, sweep)
    BY <1>1 DEF SynReads
  <2>2. IsFiniteSet(DOMAIN seen)
    <3>1. Today \subseteq DOMAIN execs
      BY DEF Today
    <3>2. DOMAIN seen \subseteq Today
      BY DEF Reports
    <3> QED
      BY <3>1, <3>2, FS_Subset DEF JInv, Counts
  <2> QED
    BY <2>1, <2>2, Reads
<1>2. CASE \E e \in syn.todo : SynWrites(e)
  BY <1>2, Writes
<1>3. CASE SynSupersedes \/ SweepEnds
  <2>1. syn' = NoSyn /\ UNCHANGED <<rows, execs, mon>> /\ mirrors' \subseteq mirrors
    BY <1>3 DEF SynSupersedes, SweepEnds, SynDone, broker, clock, store
  <2>2. Counts'
    BY <2>1 DEF JInv, Counts
  <2> QED
    BY <2>1, <2>2, SynForgotten
<1> QED
  BY <1>1, <1>2, <1>3 DEF Sync

LEMMA CountIsNat ==
  ASSUME Counts, NEW o
  PROVE  Filled(o) \in Nat
<1>1. IsFiniteSet({x \in DOMAIN execs : x[1] = o})
  BY FS_Subset DEF Counts
<1> QED
  BY <1>1, FS_CardinalityType DEF Filled

LEMMA MonSteps ==
  ASSUME JInv, Monitor
  PROVE  JInv'
<1>1. UNCHANGED <<rows, syn, execs>>
  BY DEF Monitor, MonReads, MonForgets, MonDefers, MonSnapshots, MonOrder, broker, clock, store
<1>2. CASE MonReads
  <2>1. PICK b \in SUBSET live :
          mon' = [pc |-> "orders", book |-> [o \in b |-> Filled(o)], todo |-> b,
                  news |-> FALSE]
    BY <1>2 DEF MonReads
  <2>2. mirrors' = mirrors
    BY <1>2 DEF MonReads, store
  <2>3. \A o \in b : Filled(o) \in Nat
    BY CountIsNat DEF JInv
  <2>4. Counts'
    BY <1>1, <2>1, <2>2, <2>3 DEF JInv, Counts
  <2> QED
    BY <1>1, <2>4, Keeps
<1>3. ASSUME NEW o \in Order, MonOrder(o) PROVE JInv'
  <2>1. /\ mon' = [mon EXCEPT !.todo = mon.todo \ {o}, !.news = mon.news \/ Increase(o)]
        /\ o \in mon.todo
        /\ mirrors' = mirrors \/ mirrors' = Mirrored(o, known[o])
    BY <1>3 DEF MonOrder
  <2>2. mon.book[o] \in Nat
    BY <2>1 DEF JInv, Counts
  <2>3. \A m \in mirrors' : m.n \in Nat
    BY <2>1, <2>2 DEF JInv, Counts, Mirrored
  <2>4. mon' = [pc |-> mon.pc, book |-> mon.book, todo |-> mon.todo \ {o},
                news |-> mon.news \/ Increase(o)]
    BY <2>1 DEF JInv, Counts
  <2>5. Counts'
    BY <1>1, <2>3, <2>4 DEF JInv, Counts
  <2> QED
    BY <1>1, <2>5, Keeps
<1>4. CASE MonForgets \/ MonDefers \/ MonSnapshots
  <2>1. mirrors' = mirrors
    BY <1>4 DEF MonForgets, MonDefers, MonSnapshots, store
  <2>2. mon' = NoMon \/ mon' = [mon EXCEPT !.pc = "snapshot", !.news = TRUE]
    BY <1>4 DEF MonForgets, MonDefers, MonSnapshots, MonDone
  <2>3. \/ mon' = NoMon
        \/ mon' = [pc |-> "snapshot", book |-> mon.book, todo |-> mon.todo, news |-> TRUE]
    BY <2>2 DEF JInv, Counts
  <2>4. Counts'
    BY <1>1, <2>1, <2>3 DEF JInv, Counts, NoMon
  <2> QED
    BY <1>1, <2>4, Keeps
<1> QED
  BY <1>2, <1>3, <1>4 DEF Monitor

LEMMA BrokerSteps ==
  ASSUME JInv, Broker
  PROVE  JInv'
<1>1. UNCHANGED <<rows, syn, mon, mirrors>>
  BY DEF Broker, Place, Fill, Cancelled, Corrected, HoursPass, DayEnds, store
<1>2. IsFiniteSet(DOMAIN execs')
  <2>1. ASSUME NEW o \in Order, Fill(o) PROVE IsFiniteSet(DOMAIN execs')
    <3>1. DOMAIN execs' = DOMAIN execs \cup {<<o, Filled(o) + 1>>}
      BY <2>1 DEF Fill
    <3> QED
      BY <3>1, FS_AddElement DEF JInv, Counts
  <2>2. ASSUME NEW x, Corrected(x) PROVE DOMAIN execs' = DOMAIN execs
    BY <2>2 DEF Corrected
  <2>3. ASSUME NEW o \in Order, Place(o) \/ Cancelled(o) PROVE execs' = execs
    BY <2>3 DEF Place, Cancelled
  <2>4. ASSUME HoursPass \/ DayEnds PROVE execs' = execs
    BY <2>4 DEF HoursPass, DayEnds
  <2> QED
    BY <2>1, <2>2, <2>3, <2>4 DEF Broker, JInv, Counts
<1>3. Counts'
  BY <1>1, <1>2 DEF JInv, Counts
<1> QED
  BY <1>1, <1>3, Keeps

LEMMA DaemonSteps ==
  ASSUME JInv,
         \/ MonSkips \/ SynSkips \/ LoopMovesOn \/ Saves \/ Crash \/ Stops \/ Restart
         \/ UNCHANGED vars
  PROVE  JInv'
<1>1. CASE MonSkips \/ SynSkips \/ LoopMovesOn \/ Saves \/ Stops \/ UNCHANGED vars
  <2>1. UNCHANGED <<rows, syn, execs, mon, mirrors>>
    BY <1>1 DEF MonSkips, SynSkips, LoopMovesOn, Overruns_, Saves, Stops, vars, broker, clock, store
  <2> QED
    BY <2>1, SameCounts, Keeps DEF JInv
<1>2. CASE Crash \/ Restart
  <2>1. UNCHANGED <<rows, execs, mirrors>> /\ syn' = NoSyn /\ mon' = NoMon
    BY <1>2 DEF Crash, Restart, broker, clock, store
  <2>2. Counts'
    BY <2>1 DEF JInv, Counts, NoMon
  <2> QED
    BY <2>1, <2>2, SynForgotten
<1> QED
  BY <1>1, <1>2

LEMMA Starts == Init => JInv
<1> SUFFICES ASSUME Init PROVE JInv
  OBVIOUS
<1>1. IsFiniteSet(rows) /\ IsFiniteSet(DOMAIN execs)
  BY FS_EmptySet DEF Init
<1> QED
  BY <1>1 DEF Init, JInv, RowsSane, OneRowPerExecution, SynSane, Counts, NoSyn, NoMon

LEMMA Steps == JInv /\ [Next]_vars => JInv'
BY BrokerSteps, MonSteps, SynSteps, DaemonSteps DEF Next

(* However an execution is corrected, replayed, half written or imported   *)
(* again after a crash, the journal has one row of it.                     *)
THEOREM JournalOnce == Spec => []OneRowPerExecution
<1>1. JInv => OneRowPerExecution
  BY DEF JInv, RowsSane
<1> QED
  BY <1>1, Starts, Steps, PTL DEF Spec

(* The executions that cover a mirror each have a row of their own.        *)
LEMMA CoverHasRows ==
  ASSUME JInv, NEW o, NEW d
  PROVE  /\ Cover(o, d) \in Nat /\ Cardinality({r \in rows : r.x[1] = o}) \in Nat
         /\ Cover(o, d) <= Cardinality({r \in rows : r.x[1] = o})
<1> DEFINE R == {r \in rows : r.x[1] = o}
           X == {x \in {r.x : r \in syn.view \cup syn.written} : x[1] = o /\ execs[x].day = d}
           Y == {x \in {r.x : r \in R} : TRUE}
           f == [r \in R |-> r.x]
<1>1. IsFiniteSet(R)
  BY FS_Subset DEF JInv, RowsSane
<1>2. f \in Surjection(R, Y)
  BY DEF Surjection
<1>3. IsFiniteSet(Y) /\ Cardinality(Y) <= Cardinality(R)
  BY <1>1, <1>2, FS_Surjection
<1>4. X \subseteq Y
  BY DEF JInv, SynSane
<1>5. IsFiniteSet(X) /\ Cardinality(X) <= Cardinality(Y)
  BY <1>3, <1>4, FS_Subset
<1>6. Cardinality(X) \in Nat /\ Cardinality(Y) \in Nat /\ Cardinality(R) \in Nat
  BY <1>1, <1>3, <1>5, FS_CardinalityType
<1>7. Cover(o, d) = Cardinality(X)
  BY DEF Cover
<1> HIDE DEF X, Y, R
<1>8. Cardinality(X) <= Cardinality(R)
  BY <1>3, <1>5, <1>6
<1> QED
  BY <1>6, <1>7, <1>8 DEF R

(* No mirror goes before the journal's rows account for its count.         *)
THEOREM MirrorsStay == Spec => MirrorsGoWhenCovered
<1> DEFINE Good(m) == \/ \E p \in mirrors' : p.o = m.o /\ p.day = m.day /\ p.n = m.n
                      \/ Cardinality({r \in rows : r.x[1] = m.o}) >= m.n
<1>1. ASSUME JInv, [Next]_vars, NEW m \in mirrors \ mirrors' PROVE Good(m)
  <2>1. CASE SynSupersedes
    <3>1. Cover(m.o, m.day) >= m.n
      BY <1>1, <2>1 DEF SynSupersedes, Superseded, Covered
    <3>2. m.n \in Nat
      BY <1>1 DEF JInv, Counts
    <3> QED
      BY <1>1, <3>1, <3>2, CoverHasRows
  <2>2. ASSUME NEW o \in Order, MonOrder(o) PROVE Good(m)
    BY <1>1, <2>2 DEF MonOrder, Mirrored
  <2>3. CASE ~SynSupersedes /\ ~\E o \in Order : MonOrder(o)
    <3>1. mirrors' = mirrors
      BY <1>1, <2>3 DEF Next, vars, Broker, Place, Fill, Cancelled, Corrected, HoursPass, DayEnds,
         Monitor, MonReads, MonForgets, MonDefers, MonSnapshots, Sync, SynReads, SynReadsThat,
         SynWrites, SweepEnds, MonSkips, SynSkips, LoopMovesOn, Overruns_, Saves, Crash,
         Stops, Restart, store
    <3> QED
      BY <1>1, <3>1
  <2> QED
    BY <2>1, <2>2, <2>3
<1>2. JInv /\ [Next]_vars => [\A m \in mirrors \ mirrors' : Good(m)]_vars
  BY <1>1
<1> QED
  BY <1>2, Starts, Steps, PTL DEF Spec, MirrorsGoWhenCovered

-----------------------------------------------------------------------------
(* Types.                                                                  *)

IsBaseline(f) ==
    /\ f = [o \in DOMAIN f |-> f[o]] /\ DOMAIN f \subseteq Order
    /\ \A o \in DOMAIN f : f[o] \in 0..Size

LEMMA BaselineIs == \A f : f \in Baseline <=> IsBaseline(f)
<1>1. ASSUME NEW f, f \in Baseline PROVE IsBaseline(f)
  <2>1. PICK D \in SUBSET Order : f \in [D -> 0..Size]
    BY <1>1 DEF Baseline
  <2> QED
    BY <2>1 DEF IsBaseline
<1>2. ASSUME NEW f, IsBaseline(f) PROVE f \in Baseline
  <2>1. f \in [DOMAIN f -> 0..Size] /\ DOMAIN f \in SUBSET Order
    BY <1>2 DEF IsBaseline
  <2> QED
    BY <2>1 DEF Baseline
<1> QED
  BY <1>1, <1>2

LEMMA NoneSeen == IsBaseline(<<>>)
<1>1. <<>> = [o \in {} |-> 0]
  OBVIOUS
<1> QED
  BY <1>1 DEF IsBaseline

(* An order that is not done has contracts left, so no count that IB reports,    *)
(* and none that fill_monitor remembers of it, exceeds the order's size.   *)
Sized ==
    /\ \A o \in Order : Filled(o) <= Size
    /\ \A o \in Order : state[o] # "done" => Filled(o) < Size
    /\ IsBaseline(mon.book)

TypeInv == JInv /\ TypeOK /\ Sized

LEMMA SizedBooks ==
  ASSUME Sized, UNCHANGED <<state, execs>>, mon'.book = mon.book \/ mon' = NoMon
  PROVE  Sized'
BY NoneSeen DEF Sized, Filled, NoMon, IsBaseline

LEMMA TypeBroker ==
  ASSUME TypeInv, Broker
  PROVE  TypeOK' /\ Sized'
<1> USE BoundsAreCounts
<1>1. UNCHANGED <<known, saved, store, mon, syn, loop>>
  BY DEF Broker, Place, Fill, Cancelled, Corrected, HoursPass, DayEnds, store
<1>2. \A o : Filled(o) \in Nat
  BY CountIsNat DEF TypeInv, JInv
<1> DEFINE Good == /\ state' \in [Order -> {"new", "working", "done"}]
                   /\ DOMAIN execs' \subseteq Exec /\ day' \in 1..Days
                   /\ hours' \in {"regular", "late", "night"}
                   /\ \A o \in Order : /\ Filled(o)' <= Size
                                       /\ state'[o] # "done" => Filled(o)' < Size
<1>3. ASSUME NEW o \in Order, Place(o) PROVE Good
  <2>1. state' = [state EXCEPT ![o] = "working"] /\ UNCHANGED <<execs, day, hours>>
    BY <1>3 DEF Place, clock
  <2>2. \A p : Filled(p)' = Filled(p)
    BY <2>1 DEF Filled
  <2>3. Filled(o) < Size
    BY <1>3 DEF TypeInv, Sized, Place
  <2> QED
    BY <2>1, <2>2, <2>3 DEF TypeInv, TypeOK, Sized
<1>4. ASSUME NEW o \in Order, Fill(o) PROVE Good
  <2> DEFINE k == Filled(o) + 1
  <2>1. /\ DOMAIN execs' = DOMAIN execs \cup {<<o, k>>}
        /\ state' = (IF k = Size THEN [state EXCEPT ![o] = "done"] ELSE state)
        /\ UNCHANGED <<day, hours>> /\ state[o] = "working"
    BY <1>4 DEF Fill, live, clock
  <2>2. Filled(o) < Size /\ k \in 1..Size
    BY <1>2, <2>1 DEF TypeInv, Sized
  <2>3. Filled(o)' <= k
    <3> DEFINE X == {x \in DOMAIN execs : x[1] = o}
    <3>1. {x \in DOMAIN execs' : x[1] = o} = X \cup {<<o, k>>}
      BY <2>1
    <3>2. IsFiniteSet(X)
      BY FS_Subset DEF TypeInv, JInv, Counts
    <3>3. Cardinality(X) = Filled(o) /\ Filled(o)' = Cardinality(X \cup {<<o, k>>})
      BY <3>1 DEF Filled
    <3> HIDE DEF X
    <3>4. Cardinality(X \cup {<<o, k>>}) \in {Cardinality(X), Cardinality(X) + 1}
      BY <3>2, FS_AddElement
    <3> QED
      BY <1>2, <3>3, <3>4
  <2>4. \A p \in Order : p # o => Filled(p)' = Filled(p)
    <3>1. ASSUME NEW p \in Order, p # o
          PROVE  {x \in DOMAIN execs' : x[1] = p} = {x \in DOMAIN execs : x[1] = p}
      BY <2>1, <3>1
    <3> QED
      BY <3>1 DEF Filled
  <2>5. IsFiniteSet(DOMAIN execs')
    <3>1. IsFiniteSet(DOMAIN execs \cup {<<o, k>>})
      BY FS_AddElement DEF TypeInv, JInv, Counts
    <3> QED
      BY <2>1, <3>1
  <2>6. Filled(o)' \in Nat
    <3>1. IsFiniteSet({x \in DOMAIN execs' : x[1] = o})
      BY <2>5, FS_Subset
    <3> QED
      BY <3>1, FS_CardinalityType DEF Filled
  <2>7. DOMAIN execs' \subseteq Exec
    BY <2>1, <2>2 DEF TypeInv, TypeOK, Exec
  <2> HIDE DEF k
  <2>8. /\ state' \in [Order -> {"new", "working", "done"}]
        /\ \A p \in Order : state'[p] # "done" => state[p] # "done"
        /\ state'[o] # "done" => k # Size
    BY <2>1 DEF TypeInv, TypeOK
  <2>9. \A p \in Order : Filled(p)' <= Size
    BY <2>2, <2>3, <2>4, <2>6 DEF TypeInv, Sized
  <2>10. state'[o] # "done" => Filled(o)' < Size
    BY <2>2, <2>3, <2>6, <2>8
  <2>11. \A p \in Order : p # o /\ state'[p] # "done" => Filled(p)' < Size
    BY <2>4, <2>8 DEF TypeInv, Sized
  <2> QED
    BY <2>1, <2>7, <2>8, <2>9, <2>10, <2>11 DEF TypeInv, TypeOK
<1>5. ASSUME NEW o \in Order, Cancelled(o) PROVE Good
  <2>1. state' = [state EXCEPT ![o] = "done"] /\ UNCHANGED <<execs, day, hours>>
    BY <1>5 DEF Cancelled, clock
  <2>2. \A p : Filled(p)' = Filled(p)
    BY <2>1 DEF Filled
  <2> QED
    BY <2>1, <2>2 DEF TypeInv, TypeOK, Sized
<1>6. ASSUME NEW x, Corrected(x) PROVE Good
  <2>1. DOMAIN execs' = DOMAIN execs /\ UNCHANGED <<state, day, hours>>
    BY <1>6 DEF Corrected, clock
  <2>2. \A p : Filled(p)' = Filled(p)
    BY <2>1 DEF Filled
  <2> QED
    BY <2>1, <2>2 DEF TypeInv, TypeOK, Sized
<1>7. ASSUME DayEnds PROVE Good
  <2>1. /\ day < Days /\ day' = day + 1 /\ execs' = execs /\ hours' = "regular"
        /\ state' = [o \in Order |-> IF o \in live /\ ~Carried THEN "done" ELSE state[o]]
    BY <1>7 DEF DayEnds
  <2>2. \A p : Filled(p)' = Filled(p)
    BY <2>1 DEF Filled
  <2> QED
    BY <2>1, <2>2 DEF TypeInv, TypeOK, Sized
<1>8. ASSUME HoursPass PROVE Good
  <2>1. UNCHANGED <<state, execs, day>> /\ hours' \in {"late", "night"}
    BY <1>8 DEF HoursPass
  <2>2. \A p : Filled(p)' = Filled(p)
    BY <2>1 DEF Filled
  <2> QED
    BY <2>1, <2>2 DEF TypeInv, TypeOK, Sized
<1>9. Good
  BY <1>3, <1>4, <1>5, <1>6, <1>7, <1>8 DEF Broker
<1>10. TypeOK'
  BY <1>1, <1>9 DEF TypeInv, TypeOK, store
<1>11. Sized'
  BY <1>1, <1>9 DEF TypeInv, Sized, IsBaseline
<1> QED
  BY <1>10, <1>11

LEMMA TypeMonitor ==
  ASSUME TypeInv, Monitor
  PROVE  TypeOK' /\ Sized'
<1> USE BoundsAreCounts
<1>1. UNCHANGED <<broker, saved, rows, syn>>
  BY DEF Monitor, MonReads, MonForgets, MonDefers, MonSnapshots, MonOrder, store
<1>2. \A o : Filled(o) \in Nat
  BY CountIsNat DEF TypeInv, JInv
<1>3. ASSUME known' \in Baseline, mirrors' \subseteq Mirror, shown' \subseteq Order,
             loop' \in {loop, "mon", "sync"}
      PROVE  TypeOK'
  BY <1>1, <1>3 DEF TypeInv, TypeOK, broker, clock
<1>4. CASE MonReads
  <2>1. PICK b \in SUBSET live :
          mon' = [pc |-> "orders", book |-> [o \in b |-> Filled(o)], todo |-> b,
                  news |-> FALSE]
    BY <1>4 DEF MonReads
  <2>2. loop' = "mon" /\ UNCHANGED <<known, mirrors, shown>>
    BY <1>4 DEF MonReads, store
  <2>3. TypeOK'
    BY <1>3, <2>2 DEF TypeInv, TypeOK
  <2>4. b \subseteq Order /\ mon'.book = [o \in b |-> Filled(o)]
    BY <2>1 DEF live
  <2>5. IsBaseline(mon'.book)
    BY <1>2, <2>4 DEF TypeInv, Sized, IsBaseline
  <2> QED
    BY <1>1, <2>3, <2>5 DEF TypeInv, Sized, Filled, broker, clock, IsBaseline
<1>5. ASSUME NEW o \in Order, MonOrder(o) PROVE TypeOK' /\ Sized'
  <2>1. /\ o \in DOMAIN mon.book /\ UNCHANGED <<shown, loop>>
        /\ known' = [p \in DOMAIN known \cup {o} |-> IF p = o THEN mon.book[o] ELSE known[p]]
        /\ \/ mirrors' = mirrors
           \/ Increase(o) /\ mirrors' = Mirrored(o, known[o])
        /\ mon' = [mon EXCEPT !.todo = mon.todo \ {o}, !.news = mon.news \/ Increase(o)]
    BY <1>5 DEF MonOrder, TypeInv, JInv, Counts
  <2>2. mon.book[o] \in 0..Size
    BY <2>1 DEF TypeInv, Sized, IsBaseline
  <2>3. IsBaseline(known)
    BY BaselineIs DEF TypeInv, TypeOK
  <2>4. known' \in Baseline
    BY <2>1, <2>2, <2>3, BaselineIs DEF IsBaseline
  <2>5. ASSUME Increase(o), mirrors' = Mirrored(o, known[o]) PROVE mirrors' \subseteq Mirror
    <3> DEFINE n == mon.book[o]
               w == mon.book[o] - known[o]
    <3>1. known[o] \in 0..Size /\ n > known[o]
      BY <2>3, <2>5 DEF Increase, IsBaseline
    <3>2. n \in 1..Size /\ w \in 1..Size /\ day \in 1..Days
      BY <2>2, <3>1 DEF TypeInv, TypeOK
    <3>3. mirrors' \subseteq mirrors \cup {[o |-> o, day |-> day, n |-> n, newly |-> w]}
      BY <2>5 DEF Mirrored, Stamp
    <3> HIDE DEF n, w
    <3>4. [o |-> o, day |-> day, n |-> n, newly |-> w] \in Mirror
      BY <3>2 DEF Mirror
    <3> QED
      BY <3>3, <3>4 DEF TypeInv, TypeOK
  <2>6. mirrors' \subseteq Mirror
    BY <2>1, <2>5 DEF TypeInv, TypeOK
  <2>7. TypeOK'
    BY <1>3, <2>1, <2>4, <2>6 DEF TypeInv, TypeOK
  <2>8. mon'.book = mon.book
    BY <2>1 DEF TypeInv, JInv, Counts
  <2> QED
    BY <1>1, <2>7, <2>8, SizedBooks DEF TypeInv, broker, clock
<1>6. CASE MonForgets \/ MonDefers \/ MonSnapshots
  <2>1. mon' = NoMon \/ mon' = [mon EXCEPT !.pc = "snapshot", !.news = TRUE]
    BY <1>6 DEF MonForgets, MonDefers, MonSnapshots, MonDone
  <2>2. mon' = NoMon \/ mon'.book = mon.book
    BY <2>1 DEF TypeInv, JInv, Counts
  <2>3. Sized'
    BY <1>1, <2>2, SizedBooks DEF TypeInv, broker, clock
  <2>4. /\ mirrors' = mirrors /\ loop' \in {loop, "sync"}
        /\ known' = known \/ known' = Restrict(known, DOMAIN known \ Gone)
    BY <1>6 DEF MonForgets, MonDefers, MonSnapshots, MonDone, store
  <2>5. shown' \subseteq Order
    <3>1. CASE MonSnapshots
      BY <3>1 DEF MonSnapshots, live, TypeInv, TypeOK
    <3>2. CASE MonForgets \/ MonDefers
      BY <3>2 DEF MonForgets, MonDefers, store, TypeInv, TypeOK
    <3> QED
      BY <1>6, <3>1, <3>2
  <2>6. known' \in Baseline
    <3>1. IsBaseline(known)
      BY BaselineIs DEF TypeInv, TypeOK
    <3>2. IsBaseline(Restrict(known, DOMAIN known \ Gone))
      BY <3>1 DEF Restrict, IsBaseline
    <3> QED
      BY <2>4, <3>1, <3>2, BaselineIs
  <2> QED
    BY <1>3, <2>3, <2>4, <2>5, <2>6 DEF TypeInv, TypeOK
<1> QED
  BY <1>4, <1>5, <1>6 DEF Monitor

LEMMA TypeSync ==
  ASSUME TypeInv, Sync
  PROVE  TypeOK' /\ Sized'
<1>1. UNCHANGED <<broker, known, saved, shown, mon>>
  BY DEF Sync, SynReads, SynReadsThat, SynWrites, SynSupersedes, SweepEnds, store
<1>2. Sized'
  BY <1>1, SizedBooks DEF TypeInv, broker, clock
<1>3. ASSUME mirrors' \subseteq mirrors, rows' \subseteq Row,
             syn'.todo \subseteq Row, syn'.written \subseteq Row,
             loop' \in {loop, "syn", "save"}
      PROVE  TypeOK'
  BY <1>1, <1>3 DEF TypeInv, TypeOK, broker, clock
<1>4. CASE SynReads
  <2>1. PICK seen \in Reports, sweep \in BOOLEAN : SynReadsThat(seen, sweep)
    BY <1>4 DEF SynReads
  <2>2. PICK first \in [Fresh(seen, rows) -> Version] :
          syn' = [pc |-> "write", sweep |-> sweep, view |-> rows,
                  todo |-> Entries(seen, rows) \cup
                           {[x |-> x, id |-> first[x], cor |-> seen[x]] : x \in DOMAIN first},
                  written |-> {}]
    BY <2>1 DEF SynReadsThat
  <2>3. PICK S \in SUBSET Today : seen \in [S -> Version]
    BY DEF Reports
  <2>4. DOMAIN seen = S /\ S \subseteq Exec /\ \A x \in S : seen[x] \in Version
    BY <2>3 DEF Today, TypeInv, TypeOK
  <2>5. Entries(seen, rows) \subseteq Row
    <3> SUFFICES ASSUME NEW r \in rows, r.x \in DOMAIN seen
                 PROVE  [r EXCEPT !.cor = seen[r.x]] \in Row
      BY DEF Entries
    <3>1. r \in Row /\ seen[r.x] \in Version
      BY <2>4 DEF TypeInv, TypeOK
    <3> QED
      BY <3>1 DEF Row
  <2>6. \A x \in DOMAIN first : [x |-> x, id |-> first[x], cor |-> seen[x]] \in Row
    BY <2>4 DEF Fresh, Row
  <2>7. syn'.todo \subseteq Row /\ syn'.written = {}
    BY <2>2, <2>5, <2>6
  <2>8. UNCHANGED <<mirrors, rows>> /\ loop' = "syn"
    BY <2>1 DEF SynReadsThat, store
  <2> QED
    BY <1>2, <1>3, <2>7, <2>8 DEF TypeInv, TypeOK
<1>5. ASSUME NEW e \in syn.todo, SynWrites(e) PROVE TypeOK' /\ Sized'
  <2>1. PICK lost \in BOOLEAN :
          /\ rows' = IF lost THEN rows
                     ELSE {r \in rows : ~(r.x = e.x /\ r.id = e.id)} \cup {e}
          /\ syn' = [syn EXCEPT !.todo = syn.todo \ {e}, !.written = Covering(e, lost)]
    BY <1>5 DEF SynWrites
  <2>2. e \in Row /\ syn.written \subseteq Row /\ syn.todo \subseteq Row /\ rows \subseteq Row
    BY DEF TypeInv, TypeOK
  <2>3. rows' \subseteq Row /\ Covering(e, lost) \subseteq Row
    BY <2>1, <2>2 DEF Covering
  <2>4. syn'.todo \subseteq Row /\ syn'.written \subseteq Row
    <3>1. CASE syn' = syn
      BY <2>2, <3>1
    <3>2. syn'.todo \subseteq syn.todo
      BY <2>1 DEF TypeInv, JInv, SynSane
    <3>3. syn'.written \subseteq syn.written \cup Covering(e, lost)
      BY <2>1 DEF TypeInv, JInv, SynSane
    <3> QED
      BY <2>2, <2>3, <3>2, <3>3
  <2> QED
    BY <1>2, <1>3, <1>5, <2>3, <2>4 DEF SynWrites
<1>6. CASE SynSupersedes \/ SweepEnds
  <2>1. /\ syn' = NoSyn /\ rows' = rows /\ mirrors' \subseteq mirrors
        /\ loop' \in {loop, "save"}
    BY <1>6 DEF SynSupersedes, SweepEnds, SynDone, store
  <2> QED
    BY <1>2, <1>3, <2>1 DEF NoSyn, TypeInv, TypeOK
<1> QED
  BY <1>4, <1>5, <1>6 DEF Sync

LEMMA TypeDaemon ==
  ASSUME TypeInv,
         \/ MonSkips \/ SynSkips \/ LoopMovesOn \/ Saves \/ Crash \/ Stops \/ Restart
         \/ UNCHANGED vars
  PROVE  TypeOK' /\ Sized'
<1>1. /\ UNCHANGED <<broker, store>>
      /\ known' \in {known, saved} /\ saved' \in {known, saved}
      /\ syn' \in {syn, NoSyn} /\ mon' \in {mon, NoMon}
      /\ loop' \in {loop, "start", "sync", "save", "stopped"}
  BY DEF MonSkips, SynSkips, LoopMovesOn, Overruns_, Saves, Crash, Stops, Restart, vars,
         broker, clock, store
<1>2. Sized'
  BY <1>1, SizedBooks DEF TypeInv, broker, clock
<1>3. TypeOK'
  BY <1>1 DEF TypeInv, TypeOK, broker, clock, store, NoSyn
<1> QED
  BY <1>2, <1>3

LEMMA TypeStarts == Init => TypeInv
<1> SUFFICES ASSUME Init PROVE TypeInv
  OBVIOUS
<1> USE BoundsAreCounts
<1>1. \A o : Filled(o) = 0
  <2>1. \A o : {x \in DOMAIN execs : x[1] = o} = {}
    BY DEF Init
  <2> QED
    BY <2>1, FS_EmptySet DEF Filled
<1>2. known \in Baseline /\ saved \in Baseline /\ IsBaseline(mon.book)
  BY NoneSeen, BaselineIs DEF Init, NoMon
<1>3. TypeOK
  <2>1. DOMAIN execs = {}
    BY DEF Init
  <2> QED
    BY <1>2, <2>1 DEF Init, TypeOK, NoSyn
<1>4. Sized
  BY <1>1, <1>2 DEF Sized
<1> QED
  BY <1>3, <1>4, Starts DEF TypeInv

LEMMA TypeSteps == TypeInv /\ [Next]_vars => TypeInv'
<1> SUFFICES ASSUME TypeInv, [Next]_vars PROVE TypeInv'
  OBVIOUS
<1>1. TypeOK' /\ Sized'
  BY TypeBroker, TypeMonitor, TypeSync, TypeDaemon DEF Next
<1> QED
  BY <1>1, Steps DEF TypeInv

(* The monitor's counts, the mirrors, the rows and the sync's work keep    *)
(* their types: no remembered fill count exceeds its order's size, and no  *)
(* mirror stands for no contract (fill_monitor.py keys it by the count).   *)
THEOREM Typing == Spec => []TypeOK
<1>1. TypeInv => TypeOK
  BY DEF TypeInv
<1> QED
  BY <1>1, TypeStarts, TypeSteps, PTL DEF Spec

-----------------------------------------------------------------------------
(* Day orders: all the executions of an order are of one session.          *)

Kinds == {"correct", "fault"}
Budgeted == budget \in [Kinds -> Nat]

OnDay(o, d) == {x \in DOMAIN execs : x[1] = o /\ execs[x].day = d}

(* Of a day order, what fill_monitor read today and what a mirror recorded *)
(* on its day are counts of that day's executions alone, as the coverage   *)
(* the sync computes is.                                                   *)
DayInv ==
    /\ Budgeted
    /\ \A o \in Order : state[o] = "new" => Executed(o) = {}
    /\ \A o \in Order : state[o] = "working" => Executed(o) \subseteq OnDay(o, day)
    /\ \A o \in DOMAIN mon.book : mon.book[o] <= Cardinality(OnDay(o, day))
    /\ \A m \in mirrors : m.n <= Cardinality(OnDay(m.o, m.day))

LEMMA Spends ==
  ASSUME Budgeted, NEW kind \in Kinds, NEW cond \in BOOLEAN, Costs(kind, cond)
  PROVE  Budgeted' /\ (cond => budget' # budget)
BY DEF Budgeted, Costs

LEMMA BudgetStep == Budgeted /\ [Next]_vars => Budgeted'
<1> SUFFICES ASSUME Budgeted, [Next]_vars PROVE Budgeted'
  OBVIOUS
<1>1. ASSUME UNCHANGED budget PROVE Budgeted'
  BY <1>1 DEF Budgeted
<1>2. CASE Broker
  <2>1. ASSUME NEW x, Corrected(x) PROVE Budgeted'
    BY <2>1, Spends DEF Corrected, Kinds
  <2> QED
    BY <1>1, <1>2, <2>1 DEF Broker, Place, Fill, Cancelled, HoursPass, DayEnds
<1>3. CASE Monitor
  <2>1. ASSUME MonReads \/ MonSnapshots PROVE Budgeted'
    <3>1. PICK b : Costs("fault", b # live)
      BY <2>1 DEF MonReads, MonSnapshots, Book
    <3> QED
      BY <3>1, Spends DEF Kinds
  <2>2. ASSUME NEW o, MonOrder(o) PROVE Budgeted'
    <3>1. UNCHANGED budget \/ \E lost \in BOOLEAN : Costs("fault", lost)
      BY <2>2 DEF MonOrder
    <3> QED
      BY <1>1, <3>1, Spends DEF Kinds
  <2>3. ASSUME MonForgets \/ MonDefers PROVE Budgeted'
    BY <1>1, <2>3 DEF MonForgets, MonDefers
  <2> QED
    BY <1>3, <2>1, <2>2, <2>3 DEF Monitor
<1>4. CASE Sync
  <2>1. ASSUME SynReads \/ SweepEnds PROVE Budgeted'
    BY <1>1, <2>1 DEF SynReads, SynReadsThat, SweepEnds
  <2>2. ASSUME NEW e, SynWrites(e) PROVE Budgeted'
    <3>1. \E lost \in BOOLEAN : Costs("fault", lost)
      BY <2>2 DEF SynWrites
    <3> QED
      BY <3>1, Spends DEF Kinds
  <2>3. ASSUME SynSupersedes PROVE Budgeted'
    <3>1. PICK kept : Costs("fault", kept # {})
      BY <2>3 DEF SynSupersedes
    <3> QED
      BY <3>1, Spends DEF Kinds
  <2> QED
    BY <1>4, <2>1, <2>2, <2>3 DEF Sync
<1>5. CASE LoopMovesOn \/ Crash \/ Stops
  BY <1>5, Spends DEF LoopMovesOn, Overruns_, Crash, Stops, Kinds
<1>6. CASE MonSkips \/ SynSkips \/ Saves \/ Restart \/ UNCHANGED vars
  BY <1>1, <1>6 DEF MonSkips, SynSkips, Saves, Restart, vars
<1> QED
  BY <1>2, <1>3, <1>4, <1>5, <1>6 DEF Next

LEMMA DayCountIsNat ==
  ASSUME JInv, NEW o, NEW d
  PROVE  IsFiniteSet(OnDay(o, d)) /\ Cardinality(OnDay(o, d)) \in Nat
<1>1. IsFiniteSet(OnDay(o, d))
  BY FS_Subset DEF JInv, Counts, OnDay
<1> QED
  BY <1>1, FS_CardinalityType

(* Nothing the broker does takes an execution from its day.                *)
LEMMA DaysGrow ==
  ASSUME JInv, JInv', NEW o, NEW d, OnDay(o, d) \subseteq OnDay(o, d)'
  PROVE  Cardinality(OnDay(o, d)) <= Cardinality(OnDay(o, d)')
<1>1. IsFiniteSet(OnDay(o, d)')
  BY FS_Subset DEF JInv, Counts, OnDay
<1> HIDE DEF OnDay
<1> QED
  BY <1>1, FS_Subset

LEMMA DaySame ==
  ASSUME JInv, DayInv, Budgeted', UNCHANGED broker,
         mon'.book = mon.book \/ DOMAIN mon'.book = {}, mirrors' \subseteq mirrors
  PROVE  DayInv'
<1>1. UNCHANGED <<state, execs, day>>
  BY DEF broker, clock
<1>2. \A o, d : OnDay(o, d)' = OnDay(o, d) /\ Executed(o)' = Executed(o)
  BY <1>1 DEF OnDay, Executed
<1> HIDE DEF OnDay, Executed
<1>3. \A o \in DOMAIN mon'.book : mon'.book[o] <= Cardinality(OnDay(o, day)')
  BY <1>1, <1>2 DEF DayInv
<1>4. \A m \in mirrors' : m.n <= Cardinality(OnDay(m.o, m.day)')
  BY <1>2 DEF DayInv
<1> QED
  BY <1>1, <1>2, <1>3, <1>4 DEF DayInv

LEMMA DayBroker ==
  ASSUME ~Carried, TypeInv, TypeInv', DayInv, Budgeted', Broker
  PROVE  DayInv'
<1>1. UNCHANGED <<mon, mirrors>>
  BY DEF Broker, Place, Fill, Cancelled, Corrected, HoursPass, DayEnds, store
<1>2. /\ state \in [Order -> {"new", "working", "done"}] /\ JInv /\ JInv'
      /\ \A o \in DOMAIN mon.book : mon.book[o] \in Nat
      /\ \A m \in mirrors : m.n \in Nat
  BY DEF TypeInv, TypeOK, JInv, Counts
<1>3. ASSUME day' = day \/ mon = NoMon,
             \A o, d : OnDay(o, d) \subseteq OnDay(o, d)',
             \A o \in Order : state'[o] = "new" => Executed(o)' = {},
             \A o \in Order : state'[o] = "working" => Executed(o)' \subseteq OnDay(o, day)'
      PROVE  DayInv'
  <2>1. \A o, d : Cardinality(OnDay(o, d)) <= Cardinality(OnDay(o, d)')
    BY <1>2, <1>3, DaysGrow
  <2>2. \A o, d : Cardinality(OnDay(o, d)) \in Nat /\ Cardinality(OnDay(o, d)') \in Nat
    <3>1. \A o, d : IsFiniteSet(OnDay(o, d)')
      BY <1>2, FS_Subset DEF JInv, Counts, OnDay
    <3> QED
      BY <1>2, <3>1, DayCountIsNat, FS_CardinalityType
  <2>3. \A o \in DOMAIN mon'.book : mon'.book[o] <= Cardinality(OnDay(o, day)')
    <3>1. CASE mon = NoMon
      BY <1>1, <3>1 DEF NoMon
    <3>2. CASE day' = day
      <4> SUFFICES ASSUME NEW o \in DOMAIN mon.book
                   PROVE  mon.book[o] <= Cardinality(OnDay(o, day)')
        BY <1>1
      <4>1. mon.book[o] <= Cardinality(OnDay(o, day))
        BY DEF DayInv
      <4>2. PICK d : d = day
        OBVIOUS
      <4>3. OnDay(o, day) = OnDay(o, d) /\ OnDay(o, day)' = OnDay(o, d)'
        BY <3>2, <4>2 DEF OnDay
      <4>4. mon.book[o] <= Cardinality(OnDay(o, d)')
        BY <1>2, <2>1, <2>2, <4>1, <4>3
      <4> QED
        BY <4>3, <4>4
    <3> QED
      BY <1>3, <3>1, <3>2
  <2>4. \A m \in mirrors' : m.n <= Cardinality(OnDay(m.o, m.day)')
    <3> SUFFICES ASSUME NEW m \in mirrors PROVE m.n <= Cardinality(OnDay(m.o, m.day)')
      BY <1>1
    <3>1. m.n <= Cardinality(OnDay(m.o, m.day))
      BY DEF DayInv
    <3> QED
      BY <1>2, <2>1, <2>2, <3>1
  <2> QED
    BY <1>3, <2>3, <2>4 DEF DayInv
<1>4. ASSUME NEW o \in Order, Place(o) \/ Cancelled(o) PROVE DayInv'
  <2>1. /\ UNCHANGED <<execs, day>>
        /\ \/ state[o] = "new" /\ state' = [state EXCEPT ![o] = "working"]
           \/ state' = [state EXCEPT ![o] = "done"]
    BY <1>4 DEF Place, Cancelled, clock
  <2>2. \A p, d : OnDay(p, d)' = OnDay(p, d) /\ Executed(p)' = Executed(p)
    BY <2>1 DEF OnDay, Executed
  <2>3. Executed(o) = {} \/ state'[o] = "done"
    BY <1>2, <2>1 DEF DayInv
  <2> HIDE DEF OnDay, Executed
  <2>4. \A p \in Order : state'[p] = "new" => Executed(p) = {}
    BY <1>2, <2>1 DEF DayInv
  <2>5. \A p \in Order : state'[p] = "working" => Executed(p) \subseteq OnDay(p, day)
    BY <1>2, <2>1, <2>3 DEF DayInv
  <2> QED
    BY <1>3, <2>1, <2>2, <2>4, <2>5
<1>5. ASSUME NEW o \in Order, Fill(o) PROVE DayInv'
  <2> DEFINE y == <<o, Filled(o) + 1>>
  <2>1. /\ execs' = [x \in DOMAIN execs \cup {y} |->
                       IF x = y THEN [day |-> day, cor |-> 1] ELSE execs[x]]
        /\ day' = day /\ state[o] = "working"
        /\ state' = state \/ state' = [state EXCEPT ![o] = "done"]
    BY <1>5 DEF Fill, live, clock
  <2>2. y[1] = o
    OBVIOUS
  <2> HIDE DEF y
  <2>3. /\ DOMAIN execs' = DOMAIN execs \cup {y}
        /\ \A x \in DOMAIN execs : x # y => execs'[x] = execs[x]
        /\ execs'[y].day = day
    BY <2>1
  <2>4. ASSUME y \in DOMAIN execs PROVE execs[y].day = day
    BY <2>1, <2>2, <2>4 DEF DayInv, Executed, OnDay
  <2>5. \A x \in DOMAIN execs : execs'[x].day = execs[x].day
    BY <2>3, <2>4
  <2>6. \A p, d : OnDay(p, d) \subseteq OnDay(p, d)'
    BY <2>3, <2>5 DEF OnDay
  <2>7. \A p \in Order : p # o => Executed(p)' = Executed(p)
    BY <2>2, <2>3 DEF Executed
  <2>8. \A p \in Order : state'[p] = "new" => p # o /\ state[p] = "new"
    BY <1>2, <2>1
  <2>9. ASSUME NEW p \in Order, state'[p] = "working"
        PROVE  Executed(p)' \subseteq OnDay(p, day)'
    <3>1. state[p] = "working"
      BY <1>2, <2>1, <2>9
    <3>2. Executed(p) \subseteq OnDay(p, day)
      BY <3>1 DEF DayInv
    <3> QED
      BY <2>1, <2>3, <2>5, <3>2 DEF Executed, OnDay
  <2>10. \A p \in Order : state'[p] = "new" => Executed(p)' = {}
    BY <2>7, <2>8 DEF DayInv
  <2> QED
    BY <1>3, <2>1, <2>6, <2>9, <2>10
<1>6. ASSUME NEW x, Corrected(x) PROVE DayInv'
  <2>1. /\ execs' = [execs EXCEPT ![x].cor = execs[x].cor + 1]
        /\ UNCHANGED <<state, day>> /\ x \in DOMAIN execs
    BY <1>6 DEF Corrected, Today, clock
  <2>2. DOMAIN execs' = DOMAIN execs /\ \A z \in DOMAIN execs : execs'[z].day = execs[z].day
    BY <2>1
  <2>3. \A p, d : OnDay(p, d)' = OnDay(p, d) /\ Executed(p)' = Executed(p)
    BY <2>2 DEF OnDay, Executed
  <2> HIDE DEF OnDay, Executed
  <2> QED
    BY <1>3, <2>1, <2>3 DEF DayInv
<1>7. ASSUME DayEnds PROVE DayInv'
  <2>1. /\ mon = NoMon /\ execs' = execs
        /\ state' = [o \in Order |-> IF o \in live /\ ~Carried THEN "done" ELSE state[o]]
    BY <1>7 DEF DayEnds
  <2>2. \A o \in Order : state'[o] # "working" /\ (state'[o] = "new" => state[o] = "new")
    BY <2>1 DEF live
  <2>3. \A p, d : OnDay(p, d)' = OnDay(p, d) /\ Executed(p)' = Executed(p)
    BY <2>1 DEF OnDay, Executed
  <2> HIDE DEF OnDay, Executed
  <2> QED
    BY <1>3, <2>1, <2>2, <2>3 DEF DayInv
<1>8. ASSUME HoursPass PROVE DayInv'
  <2>1. UNCHANGED <<state, execs, day>>
    BY <1>8 DEF HoursPass
  <2>2. \A p, d : OnDay(p, d)' = OnDay(p, d) /\ Executed(p)' = Executed(p)
    BY <2>1 DEF OnDay, Executed
  <2> HIDE DEF OnDay, Executed
  <2> QED
    BY <1>3, <2>1, <2>2 DEF DayInv
<1> QED
  BY <1>4, <1>5, <1>6, <1>7, <1>8 DEF Broker

LEMMA DayMonitor ==
  ASSUME TypeInv, DayInv, Budgeted', Monitor
  PROVE  DayInv'
<1>1. UNCHANGED broker /\ JInv
  BY DEF Monitor, MonReads, MonForgets, MonDefers, MonSnapshots, MonOrder, TypeInv
<1>2. UNCHANGED <<state, execs, day>>
  BY <1>1 DEF broker, clock
<1>3. \A o, d : OnDay(o, d)' = OnDay(o, d) /\ Executed(o)' = Executed(o)
  BY <1>2 DEF OnDay, Executed
<1>4. CASE MonReads
  <2>1. PICK b \in SUBSET live :
          mon' = [pc |-> "orders", book |-> [o \in b |-> Filled(o)], todo |-> b,
                  news |-> FALSE]
    BY <1>4 DEF MonReads
  <2>2. mirrors' = mirrors
    BY <1>4 DEF MonReads, store
  <2>3. ASSUME NEW o \in b PROVE Filled(o) <= Cardinality(OnDay(o, day))
    <3>1. Executed(o) \subseteq OnDay(o, day) /\ Filled(o) = Cardinality(Executed(o))
      BY DEF DayInv, live, Filled, Executed
    <3>2. IsFiniteSet(OnDay(o, day))
      BY <1>1, DayCountIsNat
    <3> HIDE DEF OnDay, Executed
    <3> QED
      BY <3>1, <3>2, FS_Subset
  <2>4. \A o \in DOMAIN mon'.book : mon'.book[o] <= Cardinality(OnDay(o, day))
    BY <2>1, <2>3
  <2> HIDE DEF OnDay, Executed
  <2> QED
    BY <1>2, <1>3, <2>2, <2>4 DEF DayInv
<1>5. ASSUME NEW o \in Order, MonOrder(o) PROVE DayInv'
  <2>1. /\ o \in DOMAIN mon.book
        /\ mirrors' = mirrors \/ mirrors' = Mirrored(o, known[o])
        /\ mon' = [mon EXCEPT !.todo = mon.todo \ {o}, !.news = mon.news \/ Increase(o)]
    BY <1>1, <1>5 DEF MonOrder, JInv, Counts
  <2>2. mon'.book = mon.book
    BY <1>1, <2>1 DEF JInv, Counts
  <2>3. \A m \in mirrors' : m \in mirrors \/ (m.o = o /\ m.day = day /\ m.n = mon.book[o])
    BY <2>1 DEF Mirrored, Stamp
  <2> HIDE DEF OnDay, Executed
  <2>4. \A m \in mirrors' : m.n <= Cardinality(OnDay(m.o, m.day))
    BY <2>1, <2>3 DEF DayInv
  <2>5. \A p \in DOMAIN mon'.book : mon'.book[p] <= Cardinality(OnDay(p, day))
    BY <2>2 DEF DayInv
  <2> QED
    BY <1>2, <1>3, <2>4, <2>5 DEF DayInv
<1>6. CASE MonForgets \/ MonDefers \/ MonSnapshots
  <2>1. mon' = NoMon \/ mon' = [mon EXCEPT !.pc = "snapshot", !.news = TRUE]
    BY <1>6 DEF MonForgets, MonDefers, MonSnapshots, MonDone
  <2>2. mon' = NoMon \/ mon'.book = mon.book
    BY <1>1, <2>1 DEF JInv, Counts
  <2>3. DOMAIN NoMon.book = {}
    BY DEF NoMon
  <2>4. mirrors' = mirrors
    BY <1>6 DEF MonForgets, MonDefers, MonSnapshots, store
  <2> QED
    BY <1>1, <2>2, <2>3, <2>4, DaySame
<1> QED
  BY <1>4, <1>5, <1>6 DEF Monitor

LEMMA DayStep == ~Carried /\ TypeInv /\ DayInv /\ [Next]_vars => DayInv'
<1> SUFFICES ASSUME ~Carried, TypeInv, DayInv, [Next]_vars PROVE DayInv'
  OBVIOUS
<1>1. Budgeted' /\ TypeInv' /\ JInv
  BY BudgetStep, TypeSteps DEF DayInv, TypeInv
<1>2. CASE Broker
  BY <1>1, <1>2, DayBroker
<1>3. CASE Monitor
  BY <1>1, <1>3, DayMonitor
<1>4. CASE Sync
  <2>1. UNCHANGED <<broker, mon>> /\ mirrors' \subseteq mirrors
    BY <1>4 DEF Sync, SynReads, SynReadsThat, SynWrites, SynSupersedes, SweepEnds, store
  <2> QED
    BY <1>1, <2>1, DaySame
<1>5. CASE \/ MonSkips \/ SynSkips \/ LoopMovesOn \/ Saves \/ Crash \/ Stops \/ Restart
           \/ UNCHANGED vars
  <2>1. UNCHANGED <<broker, mirrors>> /\ mon' \in {mon, NoMon}
    BY <1>5 DEF MonSkips, SynSkips, LoopMovesOn, Overruns_, Saves, Crash, Stops, Restart,
       vars, broker, clock, store
  <2>2. mon'.book = mon.book \/ DOMAIN mon'.book = {}
    BY <2>1 DEF NoMon
  <2> QED
    BY <1>1, <2>1, <2>2, DaySame
<1> QED
  BY <1>2, <1>3, <1>4, <1>5 DEF Next

LEMMA DayStarts == Init => DayInv
<1> SUFFICES ASSUME Init PROVE DayInv
  OBVIOUS
<1>1. Budgeted
  BY BoundsAreCounts DEF Init, Budgeted, Kinds
<1>2. \A o : Executed(o) = {}
  BY DEF Init, Executed
<1>3. mirrors = {} /\ DOMAIN mon.book = {}
  BY DEF Init, NoMon
<1> QED
  BY <1>1, <1>2, <1>3 DEF DayInv

(* Of day orders, a sync that knew every execution of an order and had no  *)
(* failed call leaves no mirror of it (journal_sync.py deletes the mirrors *)
(* the rows of their session cover).  Good-til-cancelled orders break it:  *)
(* run fill_carried.                                                       *)
THEOREM SyncClears ==
  ASSUME ~Carried
  PROVE  Spec => SyncClearsMirrors
<1> DEFINE Clear(o) == Imported(o) => \A m \in mirrors' : m.o # o
<1>1. ASSUME TypeInv, DayInv, SynSupersedes, UNCHANGED budget, NEW o \in Order PROVE Clear(o)
  <2>1. PICK kept \in SUBSET Superseded :
          Costs("fault", kept # {}) /\ mirrors' = mirrors \ (Superseded \ kept)
    BY <1>1 DEF SynSupersedes
  <2>2. kept = {}
    BY <1>1, <2>1, Spends DEF DayInv, Kinds
  <2> SUFFICES ASSUME Imported(o), NEW m \in mirrors, m.o = o PROVE m \in Superseded
    BY <2>1, <2>2
  <2> DEFINE C == {x \in {r.x : r \in syn.view \cup syn.written} :
                     x[1] = o /\ execs[x].day = m.day}
             R == {r \in rows : TRUE}
             X == {r.x : r \in R}
             f == [r \in R |-> r.x]
  <2>3. IsFiniteSet(C)
    <3>1. IsFiniteSet(R)
      BY <1>1 DEF TypeInv, JInv, RowsSane
    <3>2. f \in Surjection(R, X)
      BY DEF Surjection
    <3>3. IsFiniteSet(X)
      BY <3>1, <3>2, FS_Surjection
    <3>4. C \subseteq X
      BY <1>1 DEF TypeInv, JInv, SynSane
    <3> HIDE DEF C, X
    <3> QED
      BY <3>3, <3>4, FS_Subset
  <2>4. OnDay(o, m.day) \subseteq C
    BY DEF Imported, Executed, OnDay
  <2>5. Cover(o, m.day) = Cardinality(C)
    BY DEF Cover
  <2> HIDE DEF C
  <2>6. Cardinality(OnDay(o, m.day)) <= Cardinality(C) /\ Cardinality(C) \in Nat
    BY <2>3, <2>4, FS_Subset, FS_CardinalityType
  <2>7. m.n <= Cardinality(OnDay(o, m.day)) /\ m.n \in Nat
    BY <1>1 DEF DayInv, TypeInv, JInv, Counts
  <2>8. Cardinality(OnDay(o, m.day)) \in Nat
    BY <1>1, DayCountIsNat DEF TypeInv
  <2>9. Cover(o, m.day) >= m.n
    BY <2>5, <2>6, <2>7, <2>8
  <2> QED
    BY <2>9 DEF Superseded, Covered
<1>2. TypeInv /\ DayInv /\ [Next]_vars
      => [SynSupersedes /\ UNCHANGED budget => \A o \in Order : Clear(o)]_vars
  BY <1>1
<1>3. TypeInv /\ DayInv /\ [Next]_vars => DayInv'
  BY DayStep
<1> QED
  BY <1>2, <1>3, TypeStarts, TypeSteps, DayStarts, PTL DEF Spec, SyncClearsMirrors

-----------------------------------------------------------------------------
(* The rows as a ledger of the broker's executions.                        *)

(* The executions of an order are numbered in the order they come.         *)
ExecsSane ==
    /\ execs = [x \in DOMAIN execs |-> [day |-> execs[x].day, cor |-> execs[x].cor]]
    /\ \A x \in DOMAIN execs : execs[x].cor \in Nat \ {0}
    /\ \A o \in Order, k \in Nat : <<o, k>> \in DOMAIN execs => k <= Filled(o)

(* What a sync is still to write is what the broker said, and later than   *)
(* what the journal has.                                                   *)
TodoAhead ==
    \A e \in syn.todo :
        /\ e.x \in DOMAIN execs /\ e.cor \in 1..execs[e.x].cor
        /\ \A r \in rows : r.x = e.x => r.cor < e.cor
        /\ (\A r \in rows : r.x # e.x) => e.id \in 1..e.cor

LedgerInv == TypeInv /\ ExecsSane /\ TodoAhead

LedgerSteps == Ledger!Next \/ UNCHANGED Ledger!vars

LEMMA SameTruth ==
  ASSUME UNCHANGED <<execs, rows>>
  PROVE  LedgerSteps
BY DEF LedgerSteps, Ledger!vars

LEMMA LedgerStarts == Init => ExecsSane /\ TodoAhead /\ Ledger!Init
BY DEF Init, ExecsSane, TodoAhead, NoSyn, Ledger!Init

LEMMA LedgerFill ==
  ASSUME LedgerInv, NEW o \in Order, Fill(o), TypeOK'
  PROVE  ExecsSane' /\ TodoAhead' /\ LedgerSteps
<1> DEFINE y == <<o, Filled(o) + 1>>
           F == Filled(o)
           X == {x \in DOMAIN execs : x[1] = o}
<1>1. /\ execs' = [x \in DOMAIN execs \cup {y} |->
                     IF x = y THEN [day |-> day, cor |-> 1] ELSE execs[x]]
      /\ UNCHANGED <<rows, syn>>
  BY DEF Fill, store
<1>2. F \in Nat /\ IsFiniteSet(X) /\ Cardinality(X) = F
  BY CountIsNat, FS_Subset DEF LedgerInv, TypeInv, JInv, Counts, Filled
<1>3. y \notin DOMAIN execs
  BY <1>2 DEF LedgerInv, ExecsSane
<1>4. Filled(o)' = F + 1
  <2>1. {x \in DOMAIN execs' : x[1] = o} = X \cup {y}
    BY <1>1
  <2>2. y \notin X
    BY <1>3
  <2>3. Filled(o)' = Cardinality(X \cup {y})
    BY <2>1 DEF Filled
  <2> HIDE DEF X, y, F
  <2> QED
    BY <1>2, <2>2, <2>3, FS_AddElement
<1>5. \A p \in Order : p # o => Filled(p)' = Filled(p)
  <2>1. ASSUME NEW p \in Order, p # o
        PROVE  {x \in DOMAIN execs' : x[1] = p} = {x \in DOMAIN execs : x[1] = p}
    BY <1>1, <2>1
  <2> QED
    BY <2>1 DEF Filled
<1>6. ExecsSane'
  <2>1. /\ \A x \in DOMAIN execs :
              execs[x] = [day |-> execs[x].day, cor |-> execs[x].cor]
        /\ \A x \in DOMAIN execs : execs[x].cor \in Nat \ {0}
    BY DEF LedgerInv, ExecsSane
  <2>2. ASSUME NEW p \in Order, NEW k \in Nat, <<p, k>> \in DOMAIN execs'
        PROVE  k <= Filled(p)'
    <3>1. <<p, k>> \in DOMAIN execs \/ (p = o /\ k = F + 1)
      BY <1>1, <2>2
    <3>2. <<p, k>> \in DOMAIN execs => k <= Filled(p)
      BY DEF LedgerInv, ExecsSane
    <3> QED
      BY <1>2, <1>4, <1>5, <3>1, <3>2
  <2>3. \A x \in DOMAIN execs' :
          /\ execs'[x] = [day |-> execs'[x].day, cor |-> execs'[x].cor]
          /\ execs'[x].cor \in Nat \ {0}
    BY <1>1, <2>1
  <2> QED
    BY <1>1, <2>2, <2>3 DEF ExecsSane
<1>7. TodoAhead'
  BY <1>1, <1>3 DEF LedgerInv, TodoAhead
<1>8. LedgerSteps
  <2>1. y \in Exec
    BY <1>1 DEF TypeOK
  <2>2. PICK x \in Exec : x = y
    BY <2>1
  <2>3. Ledger!Happens(x)
    BY <1>1, <1>3, <2>2 DEF Ledger!Happens
  <2> QED
    BY <2>3 DEF LedgerSteps, Ledger!Next
<1> QED
  BY <1>6, <1>7, <1>8

LEMMA LedgerCorrected ==
  ASSUME LedgerInv, NEW y \in Exec, y \in DOMAIN execs, Corrected(y)
  PROVE  ExecsSane' /\ TodoAhead' /\ LedgerSteps
<1> DEFINE new == [day |-> execs[y].day, cor |-> execs[y].cor + 1]
<1>1. /\ execs = [x \in DOMAIN execs |-> execs[x]]
      /\ \A x \in DOMAIN execs :
            /\ execs[x] = [day |-> execs[x].day, cor |-> execs[x].cor]
            /\ execs[x].cor \in Nat \ {0}
  BY DEF LedgerInv, ExecsSane
<1>2. execs' = [execs EXCEPT ![y] = new] /\ UNCHANGED <<rows, syn>>
  <2>1. execs' = [execs EXCEPT ![y] = [execs[y] EXCEPT !.cor = execs[y].cor + 1]]
    BY DEF Corrected
  <2>2. [execs[y] EXCEPT !.cor = execs[y].cor + 1] = new
    BY <1>1
  <2> QED
    BY <2>1, <2>2 DEF Corrected, store
<1>3. new.cor = execs[y].cor + 1 /\ new = [day |-> new.day, cor |-> new.cor]
  OBVIOUS
<1> HIDE DEF new
<1>4. /\ DOMAIN execs' = DOMAIN execs
      /\ \A x \in DOMAIN execs : execs'[x] = IF x = y THEN new ELSE execs[x]
      /\ execs' = [x \in DOMAIN execs |-> execs'[x]]
  BY <1>1, <1>2
<1>5. \A o \in Order : Filled(o)' = Filled(o)
  BY <1>4 DEF Filled
<1>6. ExecsSane'
  <2>1. \A x \in DOMAIN execs' :
          /\ execs'[x] = [day |-> execs'[x].day, cor |-> execs'[x].cor]
          /\ execs'[x].cor \in Nat \ {0}
    BY <1>1, <1>3, <1>4
  <2> QED
    BY <1>4, <1>5, <2>1 DEF ExecsSane, LedgerInv
<1>7. TodoAhead'
  BY <1>1, <1>2, <1>3, <1>4 DEF LedgerInv, TodoAhead
<1>8. Ledger!Corrects(y)
  <2> DEFINE truth == [x \in DOMAIN execs |-> execs[x].cor]
  <2>1. [x \in DOMAIN execs' |-> execs'[x].cor] = [truth EXCEPT ![y] = truth[y] + 1]
    BY <1>1, <1>3, <1>4
  <2> QED
    BY <1>2, <2>1 DEF Ledger!Corrects
<1> QED
  BY <1>6, <1>7, <1>8 DEF LedgerSteps, Ledger!Next

LEMMA LedgerReads ==
  ASSUME LedgerInv, SynReads
  PROVE  TodoAhead'
<1>1. PICK seen \in Reports, sweep \in BOOLEAN : SynReadsThat(seen, sweep)
  BY DEF SynReads
<1>2. PICK first \in [Fresh(seen, rows) -> Version] :
        /\ \A x \in DOMAIN first : first[x] <= seen[x]
        /\ syn' = [pc |-> "write", sweep |-> sweep, view |-> rows,
                   todo |-> Entries(seen, rows) \cup
                            {[x |-> x, id |-> first[x], cor |-> seen[x]] : x \in DOMAIN first},
                   written |-> {}]
  BY <1>1 DEF SynReadsThat
<1>3. /\ UNCHANGED <<execs, rows>>
      /\ \A x \in DOMAIN seen : seen[x] <= execs[x].cor
  BY <1>1 DEF SynReadsThat, broker, clock, store
<1>4. \A x \in DOMAIN seen : /\ x \in DOMAIN execs /\ seen[x] \in Nat \ {0}
                             /\ execs[x].cor \in Nat
  <2>1. DOMAIN seen \subseteq DOMAIN execs /\ \A x \in DOMAIN seen : seen[x] \in Version
    BY DEF Reports, Today
  <2>2. \A v \in Version : v \in Nat \ {0}
    BY BoundsAreCounts DEF Version
  <2> QED
    BY <2>1, <2>2 DEF LedgerInv, ExecsSane
<1>5. DOMAIN first = Fresh(seen, rows) /\ \A x \in DOMAIN first : first[x] \in Nat \ {0}
  BY BoundsAreCounts DEF Version
<1> SUFFICES ASSUME NEW e \in syn'.todo
             PROVE  /\ e.x \in DOMAIN execs /\ e.cor \in 1..execs[e.x].cor
                    /\ \A r \in rows : r.x = e.x => r.cor < e.cor
                    /\ (\A r \in rows : r.x # e.x) => e.id \in 1..e.cor
  BY <1>3 DEF TodoAhead
<1>6. e \in Entries(seen, rows) \cup
           {[x |-> x, id |-> first[x], cor |-> seen[x]] : x \in DOMAIN first}
  BY <1>2
<1>7. JInv
  BY DEF LedgerInv, TypeInv
<1>8. CASE \E r \in rows : /\ r.x = e.x /\ e.cor = seen[e.x]
                           /\ e.x \in DOMAIN seen /\ seen[e.x] > r.cor
  <2>1. PICK r \in rows : /\ r.x = e.x /\ e.cor = seen[e.x]
                          /\ e.x \in DOMAIN seen /\ seen[e.x] > r.cor
    BY <1>8
  <2>2. \A q \in rows : q.x = e.x => q = r
    BY <1>7, <2>1 DEF JInv, RowsSane, OneRowPerExecution
  <2>3. r.cor \in Nat
    BY BoundsAreCounts DEF LedgerInv, TypeInv, TypeOK, Row, Version
  <2>4. e.x \in DOMAIN execs /\ e.cor \in 1..execs[e.x].cor
    BY <1>3, <1>4, <2>1
  <2> QED
    BY <1>4, <2>1, <2>2, <2>3, <2>4
<1>9. CASE /\ \A r \in rows : r.x # e.x
           /\ e.x \in DOMAIN first /\ e.x \in DOMAIN seen
           /\ e = [x |-> e.x, id |-> first[e.x], cor |-> seen[e.x]]
  <2>1. e.id = first[e.x] /\ e.cor = seen[e.x]
    BY <1>9
  <2>2. e.cor \in 1..execs[e.x].cor /\ e.x \in DOMAIN execs
    BY <1>3, <1>4, <1>9, <2>1
  <2>3. e.id \in 1..e.cor
    BY <1>2, <1>4, <1>5, <1>9, <2>1
  <2> QED
    BY <1>9, <2>2, <2>3
<1> QED
  BY <1>5, <1>6, <1>7, <1>8, <1>9, ToWrite

LEMMA LedgerWrites ==
  ASSUME LedgerInv, NEW e \in syn.todo, SynWrites(e)
  PROVE  TodoAhead' /\ LedgerSteps
<1>1. /\ rows' = rows \/ rows' = {r \in rows : ~(r.x = e.x /\ r.id = e.id)} \cup {e}
      /\ syn'.todo = syn.todo \ {e}
      /\ UNCHANGED execs
  <2>1. PICK lost \in BOOLEAN :
          /\ rows' = IF lost THEN rows
                     ELSE {r \in rows : ~(r.x = e.x /\ r.id = e.id)} \cup {e}
          /\ syn' = [syn EXCEPT !.todo = syn.todo \ {e}, !.written = Covering(e, lost)]
    BY DEF SynWrites
  <2>2. syn'.todo = syn.todo \ {e}
    <3>1. syn.pc = syn.pc
      OBVIOUS
    <3> QED
      BY <2>1
  <2> QED
    BY <2>1, <2>2 DEF SynWrites, broker, clock
<1>2. /\ IsRow(e) /\ \A r \in rows : r.x = e.x => r.id = e.id
      /\ \A f \in syn.todo \ {e} : f.x # e.x
      /\ \A r, q \in rows : r.x = q.x => r = q
      /\ \A r \in rows : IsRow(r)
  BY DEF LedgerInv, TypeInv, JInv, SynSane, RowsSane, OneRowPerExecution
<1>3. /\ e.x \in DOMAIN execs /\ e.cor \in 1..execs[e.x].cor
      /\ \A r \in rows : r.x = e.x => r.cor < e.cor
      /\ (\A r \in rows : r.x # e.x) => e.id \in 1..e.cor
  BY DEF LedgerInv, TodoAhead
<1>4. TodoAhead'
  <2> SUFFICES ASSUME NEW f \in syn'.todo
               PROVE  /\ f.x \in DOMAIN execs /\ f.cor \in 1..execs[f.x].cor
                      /\ \A r \in rows' : r.x = f.x => r.cor < f.cor
                      /\ (\A r \in rows' : r.x # f.x) => f.id \in 1..f.cor
    BY <1>1 DEF TodoAhead
  <2>1. f \in syn.todo /\ f.x # e.x
    BY <1>1, <1>2
  <2>2. \A r : r.x = f.x => (r \in rows' <=> r \in rows)
    BY <1>1, <2>1
  <2> QED
    BY <2>1, <2>2 DEF LedgerInv, TodoAhead
<1>5. LedgerSteps
  <2>1. CASE rows' = rows
    BY <1>1, <2>1, SameTruth
  <2>2. CASE /\ rows' = {r \in rows : ~(r.x = e.x /\ r.id = e.id)} \cup {e}
             /\ \A r \in rows : r.x # e.x
    <3>1. rows' = rows \cup {[x |-> e.x, id |-> e.id, cor |-> e.cor]}
      BY <1>2, <2>2 DEF IsRow
    <3>2. Ledger!Enters(e.x, e.cor, e.id)
      BY <1>1, <2>2, <3>1 DEF Ledger!Enters
    <3> QED
      BY <1>3, <2>2, <3>2 DEF LedgerSteps, Ledger!Next
  <2>3. CASE /\ rows' = {r \in rows : ~(r.x = e.x /\ r.id = e.id)} \cup {e}
             /\ \E r \in rows : r.x = e.x
    <3>1. PICK r \in rows : r.x = e.x
      BY <2>3
    <3>2. e = [x |-> r.x, id |-> r.id, cor |-> e.cor]
      BY <1>2, <3>1 DEF IsRow
    <3>3. {q \in rows : ~(q.x = e.x /\ q.id = e.id)} = rows \ {r}
      BY <1>2, <3>1
    <3>4. rows' = (rows \ {r}) \cup {[x |-> r.x, id |-> r.id, cor |-> e.cor]}
      BY <2>3, <3>2, <3>3
    <3>5. Ledger!Amends(r, e.cor)
      BY <1>1, <1>3, <3>1, <3>4 DEF Ledger!Amends
    <3> QED
      BY <1>3, <3>1, <3>5 DEF LedgerSteps, Ledger!Next
  <2> QED
    BY <1>1, <2>1, <2>2, <2>3
<1> QED
  BY <1>4, <1>5

LEMMA LedgerStep ==
  LedgerInv /\ [Next]_vars => ExecsSane' /\ TodoAhead' /\ LedgerSteps
<1> SUFFICES ASSUME LedgerInv, [Next]_vars
             PROVE  ExecsSane' /\ TodoAhead' /\ LedgerSteps
  OBVIOUS
<1>1. TypeOK'
  BY TypeSteps DEF LedgerInv, TypeInv
<1>2. ASSUME UNCHANGED <<execs, rows>>, syn' \in {syn, NoSyn}
      PROVE  ExecsSane' /\ TodoAhead' /\ LedgerSteps
  <2>1. ExecsSane'
    BY <1>2 DEF LedgerInv, ExecsSane, Filled
  <2>2. TodoAhead'
    BY <1>2 DEF LedgerInv, TodoAhead, NoSyn
  <2> QED
    BY <1>2, <2>1, <2>2, SameTruth
<1>3. ASSUME UNCHANGED execs PROVE ExecsSane'
  BY <1>3 DEF LedgerInv, ExecsSane, Filled
<1>4. ASSUME NEW o \in Order, Place(o) \/ Cancelled(o)
      PROVE  ExecsSane' /\ TodoAhead' /\ LedgerSteps
  BY <1>2, <1>4 DEF Place, Cancelled, store
<1>5. CASE Broker
  <2>1. HoursPass \/ DayEnds => UNCHANGED <<execs, rows>> /\ syn' \in {syn, NoSyn}
    BY DEF HoursPass, DayEnds, store
  <2> QED
    BY <1>1, <1>2, <1>4, <1>5, <2>1, LedgerFill, LedgerCorrected DEF Broker
<1>6. CASE Monitor
  <2>1. UNCHANGED <<rows, syn, execs>>
    BY <1>6 DEF Monitor, MonReads, MonForgets, MonDefers, MonSnapshots, MonOrder, broker, clock, store
  <2> QED
    BY <1>2, <2>1
<1>7. CASE SynReads
  <2>1. UNCHANGED <<execs, rows>>
    BY <1>7 DEF SynReads, SynReadsThat, broker, clock, store
  <2> QED
    BY <1>3, <1>7, <2>1, LedgerReads, SameTruth
<1>8. ASSUME NEW e \in syn.todo, SynWrites(e)
      PROVE  ExecsSane' /\ TodoAhead' /\ LedgerSteps
  <2>1. UNCHANGED execs
    BY <1>8 DEF SynWrites, broker, clock
  <2> QED
    BY <1>3, <1>8, <2>1, LedgerWrites
<1>9. CASE SynSupersedes \/ SweepEnds
  <2>1. syn' = NoSyn /\ UNCHANGED <<rows, execs>>
    BY <1>9 DEF SynSupersedes, SweepEnds, SynDone, broker, clock, store
  <2> QED
    BY <1>2, <2>1
<1>10. CASE \/ MonSkips \/ SynSkips \/ LoopMovesOn \/ Saves \/ Crash \/ Stops \/ Restart
            \/ UNCHANGED vars
  <2>1. UNCHANGED <<rows, execs>> /\ syn' \in {syn, NoSyn}
    BY <1>10 DEF MonSkips, SynSkips, LoopMovesOn, Overruns_, Saves, Crash, Stops, Restart,
       vars, broker, clock, store
  <2> QED
    BY <1>2, <2>1
<1> QED
  BY <1>5, <1>6, <1>7, <1>8, <1>9, <1>10 DEF Next, Sync

(* The journal is a ledger of the broker's executions: whatever fails, is  *)
(* killed, overruns or is told twice, it only lags.                        *)
THEOREM ImplementsLedger == Spec => LedgerHolds
<1>1. Init => LedgerInv /\ Ledger!Init
  BY LedgerStarts, TypeStarts DEF LedgerInv
<1>2. LedgerInv /\ [Next]_vars => LedgerInv'
  BY LedgerStep, TypeSteps DEF LedgerInv
<1>3. LedgerInv /\ [Next]_vars => [Ledger!Next]_(Ledger!vars)
  BY LedgerStep DEF LedgerSteps
<1> QED
  BY <1>1, <1>2, <1>3, PTL DEF Spec, LedgerHolds, Ledger!Spec
=============================================================================
