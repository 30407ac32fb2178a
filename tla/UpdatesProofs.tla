---------------------------- MODULE UpdatesProofs ----------------------------
(***************************************************************************)
(* Proofs about the updates of a task and the cache that the tasks share,  *)
(* for any threads, keys, time to live and number of computations, and for *)
(* any tasks and interfaces.                                               *)
(***************************************************************************)
EXTENDS Updates, FiniteSetTheorems, TLAPS

-----------------------------------------------------------------------------
(* The cache: the inductive invariant *)

Owned == {"compute", "store", "rethrow"}

\* The calls of get_or_compute: at its head, bound to a computation, and with a
\* result.
Entered   == [pc : {"enter"}, key : Keys, known : SUBSET Nat]
Bound     == [pc : {"wait"} \cup Owned, key : Keys, run : Nat, known : SUBSET Nat]
WithValue == [pc : Results, key : Keys, run : Nat, at : Nat, known : SUBSET Nat]

CacheType ==
    /\ map \subseteq [key : Keys, value : Nat, timestamp : Nat]
    /\ pending \subseteq [key : Keys, run : Nat]
    /\ closed \subseteq [run : Nat, at : Nat]
    /\ promise \in [DOMAIN promise -> {"unset"} \cup Results]
    /\ call \in [Threads -> {Idle} \cup Entered \cup Bound \cup WithValue]
    /\ now \in Nat

\* Computations are numbered from 1 on, without a gap.
Numbered == \E n \in Nat : DOMAIN promise = 1 .. n

\* Every computation that is mentioned anywhere has a number.
Mentioned ==
    /\ \A p \in pending : p.run \in DOMAIN promise
    /\ \A c \in closed : c.run \in DOMAIN promise
    /\ \A t \in Threads : call[t].pc \in {"wait"} \cup Owned => call[t].run \in DOMAIN promise

\* A computation is in pending_ once, and until it is over.
PendingIsOpen ==
    /\ \A p, q \in pending : p.run = q.run => p = q
    /\ \A p \in pending, c \in closed : p.run # c.run

\* What is cached was stored at the time it is stamped with.
CachedWasStored == \A e \in map : [run |-> e.value, at |-> e.timestamp] \in closed

\* Whoever computes has announced it, and nobody else computes the key.
Announced ==
    \A t \in Threads : Computing(t) => [key |-> call[t].key, run |-> call[t].run] \in pending

\* What a call knew to be over is over, and it is bound to none of that.
BoundToNew ==
    \A t \in Threads :
        /\ call[t].pc # "idle" => call[t].known \subseteq {c.run : c \in closed}
        /\ call[t].pc \in {"wait"} \cup Owned => call[t].run \notin call[t].known

CacheInv ==
    /\ CacheType
    /\ Numbered
    /\ Mentioned
    /\ PendingIsOpen
    /\ CachedWasStored
    /\ Announced
    /\ BoundToNew
    /\ SingleFlight
    /\ ResultIsCurrent

-----------------------------------------------------------------------------
(* The cache: every step keeps it *)

LEMMA NewRunIsNew ==
    ASSUME Numbered
    PROVE  /\ NewRun \in Nat
           /\ NewRun \notin DOMAIN promise
           /\ DOMAIN promise \subseteq Nat
           /\ \E n \in Nat : DOMAIN promise \cup {NewRun} = 1 .. n
  <1>1. PICK n \in Nat : DOMAIN promise = 1 .. n
    BY DEF Numbered
  <1>2. Cardinality(1 .. n) = n
    BY FS_Interval
  <1>3. NewRun = n + 1
    BY <1>1, <1>2 DEF NewRun
  <1>4. DOMAIN promise \cup {NewRun} = 1 .. n + 1
    BY <1>1, <1>3
  <1> QED
    BY <1>1, <1>3, <1>4

\* What the place of a call says about the rest of it.
LEMMA CallFields ==
    ASSUME CacheType, NEW t \in Threads
    PROVE  /\ call[t].pc = "enter" => call[t] \in Entered
           /\ call[t].pc \in {"wait"} \cup Owned => call[t] \in Bound
           /\ call[t].pc \in Results => call[t] \in WithValue
  BY DEF CacheType, Idle, Entered, Bound, WithValue, Owned, Results

LEMMA CacheInit == Init => CacheInv
  <1> SUFFICES ASSUME Init PROVE CacheInv
    OBVIOUS
  <1>1. CacheType
    BY DEF Init, CacheType
  <1>2. Numbered
    <2>1. DOMAIN promise = 1 .. 0
      BY DEF Init
    <2> QED
      BY <2>1 DEF Numbered
  <1>3. \A t \in Threads : call[t].pc = "idle"
    BY DEF Init, Idle
  <1> QED
    BY <1>1, <1>2, <1>3 DEF Init, CacheInv, Mentioned, PendingIsOpen, CachedWasStored, Announced,
                            BoundToNew, SingleFlight, ResultIsCurrent, Computing, Owned, Results

\* A step of one thread that only begins or ends a call, or joins one: the
\* record of the call has its type and is not out of date.
LEMMA CallMoves ==
    ASSUME CacheInv, NEW t \in Threads, NEW r,
           r \in {Idle} \cup Entered \cup Bound \cup WithValue,
           call' = [call EXCEPT ![t] = r],
           r.pc \in Owned => /\ call[t].pc \in Owned
                             /\ r.key = call[t].key /\ r.run = call[t].run,
           r.pc \in {"wait"} \cup Owned => r.run \in DOMAIN promise /\ r.run \notin r.known,
           r.pc # "idle" => r.known \subseteq {c.run : c \in closed},
           r.pc \in Results => \/ r.run \notin r.known
                               \/ /\ r.pc = "value"
                                  /\ \E c \in closed : c.run = r.run /\ r.at - c.at < Ttl,
           promise' \in [DOMAIN promise -> {"unset"} \cup Results],
           map' \subseteq map,
           UNCHANGED <<pending, now, closed>>
    PROVE  CacheInv'
  <1> USE DEF CacheInv
  <1>0. call'[t] = r /\ \A u \in Threads \ {t} : call'[u] = call[u]
    BY DEF CacheType
  <1>00. DOMAIN promise' = DOMAIN promise
    OBVIOUS
  <1>1. CacheType'
    BY <1>00 DEF CacheType
  <1>2. Numbered'
    BY <1>00 DEF Numbered
  <1>3. Mentioned'
    BY <1>0, <1>00 DEF Mentioned
  <1>4. PendingIsOpen' /\ CachedWasStored'
    BY DEF PendingIsOpen, CachedWasStored
  <1>5. \A u \in Threads : Computing(u)' =>
           /\ Computing(u)
           /\ call'[u].key = call[u].key /\ call'[u].run = call[u].run
    BY <1>0 DEF Computing, Owned
  <1>6. Announced' /\ SingleFlight'
    BY <1>5 DEF Announced, SingleFlight
  <1>7. BoundToNew'
    BY <1>0 DEF BoundToNew
  <1>8. ResultIsCurrent'
    BY <1>0 DEF ResultIsCurrent
  <1> QED
    BY <1>1, <1>2, <1>3, <1>4, <1>6, <1>7, <1>8

LEMMA CallKeeps ==
    ASSUME CacheInv, NEW t \in Threads, NEW key \in Keys, Call(t, key) PROVE CacheInv'
  <1> DEFINE r == [pc |-> "enter", key |-> key, known |-> {c.run : c \in closed}]
  <1>1. r \in Entered
    BY DEF CacheInv, CacheType, Entered
  <1>2. promise \in [DOMAIN promise -> {"unset"} \cup Results]
    BY DEF CacheInv, CacheType
  <1> QED
    BY <1>1, <1>2, CallMoves DEF Call, Owned, Results

LEMMA HitKeeps == ASSUME CacheInv, NEW t \in Threads, Hit(t) PROVE CacheInv'
  <1>1. PICK e \in do_get(call[t].key) : Ends(t, "value", e.value)
    BY DEF Hit
  <1> DEFINE r == [pc |-> "value", key |-> call[t].key, run |-> e.value, at |-> now,
                   known |-> call[t].known]
  <1>2. call[t] \in Entered /\ call[t].pc = "enter"
    BY CallFields DEF CacheInv, Hit
  <1>3. e \in map /\ now - e.timestamp < Ttl
    BY CacheAssumption DEF CacheInv, CacheType, do_get, expired
  <1>4. r \in WithValue
    BY <1>2, <1>3 DEF CacheInv, CacheType, Entered, WithValue, Results
  <1>5. \E c \in closed : c.run = r.run /\ r.at - c.at < Ttl
    BY <1>3 DEF CacheInv, CachedWasStored
  <1>6. call' = [call EXCEPT ![t] = r]
    BY <1>1 DEF Ends
  <1>7. r.known \subseteq {c.run : c \in closed}
    BY <1>2 DEF CacheInv, BoundToNew
  <1>8. map' \subseteq map /\ UNCHANGED <<pending, promise, now, closed>>
    BY DEF Hit, AfterGet
  <1>9. promise' \in [DOMAIN promise -> {"unset"} \cup Results]
    BY <1>8 DEF CacheInv, CacheType
  <1> HIDE DEF r
  <1>10. r.pc = "value"
    BY DEF r
  <1> QED
    BY <1>4, <1>5, <1>6, <1>7, <1>8, <1>9, <1>10, CallMoves DEF Owned, Results

LEMMA JoinKeeps == ASSUME CacheInv, NEW t \in Threads, Join(t) PROVE CacheInv'
  <1>1. PICK p \in pending :
           /\ p.key = call[t].key
           /\ call' = [call EXCEPT ![t] = [pc |-> "wait", key |-> @.key, run |-> p.run,
                                           known |-> @.known]]
    BY DEF Join
  <1> DEFINE r == [pc |-> "wait", key |-> call[t].key, run |-> p.run, known |-> call[t].known]
  <1>2. call[t] \in Entered /\ call[t].pc = "enter"
    BY CallFields DEF CacheInv, Join
  <1>3. r \in Bound
    BY <1>2 DEF CacheInv, CacheType, Entered, Bound
  <1>4. r.known \subseteq {c.run : c \in closed}
    BY <1>2 DEF CacheInv, BoundToNew
  <1>5. r.run \in DOMAIN promise /\ r.run \notin r.known
    BY <1>4 DEF CacheInv, Mentioned, PendingIsOpen
  <1>6. map' \subseteq map /\ UNCHANGED <<pending, promise, now, closed>>
    BY DEF Join, AfterGet
  <1>7. promise' \in [DOMAIN promise -> {"unset"} \cup Results]
    BY <1>6 DEF CacheInv, CacheType
  <1>8. call' = [call EXCEPT ![t] = r]
    BY <1>1
  <1> HIDE DEF r
  <1>9. r.pc = "wait"
    BY DEF r
  <1> QED
    BY <1>3, <1>4, <1>5, <1>6, <1>7, <1>8, <1>9, CallMoves DEF Owned, Results

LEMMA FactoryKeeps == ASSUME CacheInv, NEW t \in Threads, Factory(t) PROVE CacheInv'
  <1>1. PICK how \in Results :
           /\ promise' = [promise EXCEPT ![call[t].run] = how]
           /\ call' = [call EXCEPT ![t].pc = IF how = "value" THEN "store" ELSE "rethrow"]
    BY DEF Factory, Results
  <1> DEFINE r == [call[t] EXCEPT !.pc = IF how = "value" THEN "store" ELSE "rethrow"]
  <1>2. call[t] \in Bound /\ call[t].pc = "compute"
    BY CallFields DEF CacheInv, Factory, Owned
  <1>3. /\ r \in Bound /\ r.pc \in Owned
        /\ r.key = call[t].key /\ r.run = call[t].run /\ r.known = call[t].known
    BY <1>2 DEF Bound, Owned
  <1>4. r.known \subseteq {c.run : c \in closed} /\ r.run \notin r.known /\ r.run \in DOMAIN promise
    BY <1>2, <1>3 DEF CacheInv, BoundToNew, Mentioned, Owned
  <1>5. promise' \in [DOMAIN promise -> {"unset"} \cup Results]
    BY <1>1 DEF CacheInv, CacheType
  <1>6. call' = [call EXCEPT ![t] = r]
    BY <1>1 DEF CacheInv, CacheType
  <1>7. UNCHANGED <<map, pending, now, closed>>
    BY DEF Factory
  <1>8. r.pc \notin Results /\ call[t].pc \in Owned
    BY <1>2, <1>3 DEF Owned, Results
  <1> HIDE DEF r
  <1> QED
    BY <1>3, <1>4, <1>5, <1>6, <1>7, <1>8, CallMoves

LEMMA FutureGetKeeps == ASSUME CacheInv, NEW t \in Threads, FutureGet(t) PROVE CacheInv'
  <1> DEFINE r == [pc |-> promise[call[t].run], key |-> call[t].key, run |-> call[t].run,
                   at |-> now, known |-> call[t].known]
  <1>1. call[t] \in Bound /\ call[t].pc = "wait"
    BY CallFields DEF CacheInv, FutureGet
  <1>2. /\ call[t].known \subseteq {c.run : c \in closed}
        /\ call[t].run \notin call[t].known /\ call[t].run \in DOMAIN promise
    BY <1>1 DEF CacheInv, BoundToNew, Mentioned
  <1>3. r.pc \in Results
    BY <1>2 DEF CacheInv, CacheType, FutureGet
  <1>4. r \in WithValue
    BY <1>1, <1>3 DEF CacheInv, CacheType, Bound, WithValue
  <1>5. call' = [call EXCEPT ![t] = r] /\ UNCHANGED <<map, pending, promise, now, closed>>
    BY DEF FutureGet, Ends
  <1>6. promise' \in [DOMAIN promise -> {"unset"} \cup Results]
    BY <1>5 DEF CacheInv, CacheType
  <1>7. r.pc \notin {"wait"} \cup Owned
    BY <1>3 DEF Owned, Results
  <1>8. r.run \notin r.known /\ r.known \subseteq {c.run : c \in closed}
    BY <1>2
  <1> HIDE DEF r
  <1> QED
    BY <1>3, <1>4, <1>5, <1>6, <1>7, <1>8, CallMoves

LEMMA ReturnKeeps == ASSUME CacheInv, NEW t \in Threads, Return(t) PROVE CacheInv'
  <1>1. Idle.pc \notin {"wait"} \cup Owned \cup Results /\ Idle.pc = "idle"
    BY DEF Idle, Owned, Results
  <1>2. promise \in [DOMAIN promise -> {"unset"} \cup Results]
    BY DEF CacheInv, CacheType
  <1> QED
    BY <1>1, <1>2, CallMoves DEF Return

\* A step that only takes from map_, or that lets time pass.
LEMMA MapShrinks ==
    ASSUME CacheInv, map' \subseteq map, now' \in Nat, UNCHANGED <<pending, promise, call, closed>>
    PROVE  CacheInv'
  BY DEF CacheInv, CacheType, Numbered, Mentioned, PendingIsOpen, CachedWasStored, Announced,
         BoundToNew, SingleFlight, ResultIsCurrent, Computing

LEMMA SetKeeps == ASSUME CacheInv, NEW key \in Keys, Set(key) PROVE CacheInv'
  <1> USE DEF CacheInv
  <1>1. /\ NewRun \in Nat
        /\ NewRun \notin DOMAIN promise
        /\ \E n \in Nat : DOMAIN promise \cup {NewRun} = 1 .. n
    BY NewRunIsNew
  <1>2. /\ promise' = [r \in DOMAIN promise \cup {NewRun} |->
                          IF r = NewRun THEN "value" ELSE promise[r]]
        /\ closed' = closed \cup {[run |-> NewRun, at |-> now]}
        /\ map' = insert_or_assign(key, NewRun)
        /\ UNCHANGED <<pending, call, now>>
    BY DEF Set
  <1> HIDE DEF NewRun
  <1>3. DOMAIN promise' = DOMAIN promise \cup {NewRun}
    BY <1>2
  <1>4. Numbered'
    BY <1>1, <1>3 DEF Numbered
  <1>5. CacheType'
    <2>1. promise' \in [DOMAIN promise' -> {"unset"} \cup Results]
      BY <1>2 DEF CacheType, Results
    <2>2. map' \subseteq [key : Keys, value : Nat, timestamp : Nat]
      BY <1>1, <1>2 DEF CacheType, insert_or_assign
    <2>3. closed' \subseteq [run : Nat, at : Nat]
      BY <1>1, <1>2 DEF CacheType
    <2> QED
      BY <1>2, <2>1, <2>2, <2>3 DEF CacheType
  <1>6. Mentioned'
    BY <1>2, <1>3 DEF Mentioned
  <1>7. PendingIsOpen'
    BY <1>1, <1>2 DEF PendingIsOpen, Mentioned
  <1>8. CachedWasStored'
    <2> SUFFICES ASSUME NEW e \in map' PROVE [run |-> e.value, at |-> e.timestamp] \in closed'
      BY DEF CachedWasStored
    <2>1. CASE e \in map
      BY <1>2, <2>1 DEF CachedWasStored
    <2>2. CASE e = [key |-> key, value |-> NewRun, timestamp |-> now]
      BY <1>2, <2>2
    <2> QED
      BY <1>2, <2>1, <2>2 DEF insert_or_assign
  <1>9. Announced' /\ SingleFlight'
    BY <1>2 DEF Announced, SingleFlight, Computing
  <1>10. BoundToNew' /\ ResultIsCurrent'
    BY <1>2 DEF BoundToNew, ResultIsCurrent
  <1> QED
    BY <1>4, <1>5, <1>6, <1>7, <1>8, <1>9, <1>10

LEMMA MissKeeps == ASSUME CacheInv, NEW t \in Threads, Miss(t) PROVE CacheInv'
  <1> USE DEF CacheInv
  <1>1. /\ NewRun \in Nat
        /\ NewRun \notin DOMAIN promise
        /\ \E n \in Nat : DOMAIN promise \cup {NewRun} = 1 .. n
    BY NewRunIsNew
  <1> DEFINE new == [key |-> call[t].key, run |-> NewRun]
             r   == [pc |-> "compute", key |-> call[t].key, run |-> NewRun, known |-> call[t].known]
  <1>2. /\ promise' = [x \in DOMAIN promise \cup {NewRun} |->
                          IF x = NewRun THEN "unset" ELSE promise[x]]
        /\ pending' = pending \cup {new}
        /\ call' = [call EXCEPT ![t] = r]
        /\ map' \subseteq map
        /\ \A p \in pending : p.key # call[t].key
        /\ UNCHANGED <<now, closed>>
    BY DEF Miss, AfterGet
  <1>3. call[t] \in Entered /\ call[t].pc = "enter"
    BY CallFields DEF Miss
  <1>4. r \in Bound
    BY <1>1, <1>3 DEF Entered, Bound, Owned
  <1>5. call'[t] = r /\ \A u \in Threads \ {t} : call'[u] = call[u]
    BY <1>2 DEF CacheType
  <1> HIDE DEF NewRun
  <1>6. DOMAIN promise' = DOMAIN promise \cup {NewRun}
    BY <1>2
  <1>7. Numbered'
    BY <1>1, <1>6 DEF Numbered
  <1>8. CacheType'
    <2>1. promise' \in [DOMAIN promise' -> {"unset"} \cup Results]
      BY <1>2 DEF CacheType
    <2>2. pending' \subseteq [key : Keys, run : Nat]
      BY <1>1, <1>2, <1>3 DEF CacheType, Entered
    <2>3. call' \in [Threads -> {Idle} \cup Entered \cup Bound \cup WithValue]
      <3> HIDE DEF r
      <3> QED
        BY <1>2, <1>4 DEF CacheType
    <2> QED
      BY <1>2, <2>1, <2>2, <2>3 DEF CacheType
  <1>9. Mentioned'
    BY <1>2, <1>5, <1>6 DEF Mentioned
  <1>10. PendingIsOpen' /\ CachedWasStored'
    BY <1>1, <1>2 DEF PendingIsOpen, Mentioned, CachedWasStored
  <1>11. Announced'
    BY <1>2, <1>5 DEF Announced, Computing
  <1>12. \A u \in Threads \ {t} : Computing(u) => call[u].key # call[t].key
    BY <1>2 DEF Announced
  <1>13. SingleFlight'
    BY <1>5, <1>12 DEF SingleFlight, Computing
  <1>14. BoundToNew'
    <2>1. call[t].known \subseteq {c.run : c \in closed} /\ NewRun \notin call[t].known
      BY <1>1, <1>3 DEF BoundToNew, Mentioned
    <2> QED
      BY <1>2, <1>5, <2>1 DEF BoundToNew
  <1>15. ResultIsCurrent'
    BY <1>2, <1>5 DEF ResultIsCurrent, Results
  <1> QED
    BY <1>7, <1>8, <1>9, <1>10, <1>11, <1>13, <1>14, <1>15

\* The end of a computation, with a value that is stored or with an exception.
LEMMA CloseKeeps ==
    ASSUME CacheInv, NEW t \in Threads, NEW how \in Results,
           call[t].pc \in Owned,
           Close(t), Ends(t, how, call[t].run),
           map' \in {map, insert_or_assign(call[t].key, call[t].run)},
           UNCHANGED <<promise, now>>
    PROVE  CacheInv'
  <1> USE DEF CacheInv
  <1> DEFINE r == [pc |-> how, key |-> call[t].key, run |-> call[t].run, at |-> now,
                   known |-> call[t].known]
             c0 == [run |-> call[t].run, at |-> now]
  <1>1. call[t] \in Bound
    BY CallFields
  <1>2. /\ call' = [call EXCEPT ![t] = r]
        /\ pending' = {p \in pending : p.key # call[t].key}
        /\ closed' = closed \cup {c0}
    BY DEF Close, Ends
  <1>3. r \in WithValue
    BY <1>1 DEF Bound, WithValue, CacheType
  <1>4. call'[t] = r /\ \A u \in Threads \ {t} : call'[u] = call[u]
    BY <1>2 DEF CacheType
  <1>5. [key |-> call[t].key, run |-> call[t].run] \in pending
    BY DEF Announced, Computing, Owned
  <1>6. /\ call[t].known \subseteq {c.run : c \in closed}
        /\ call[t].run \notin call[t].known /\ call[t].run \in DOMAIN promise
    BY DEF BoundToNew, Mentioned, Owned
  <1>7. CacheType'
    <2>1. map' \subseteq [key : Keys, value : Nat, timestamp : Nat]
      BY <1>1 DEF CacheType, insert_or_assign, Bound
    <2>2. closed' \subseteq [run : Nat, at : Nat]
      BY <1>1, <1>2 DEF CacheType, Bound
    <2>3. call' \in [Threads -> {Idle} \cup Entered \cup Bound \cup WithValue]
      <3> HIDE DEF r
      <3> QED
        BY <1>2, <1>3 DEF CacheType
    <2> QED
      BY <1>2, <2>1, <2>2, <2>3 DEF CacheType
  <1>8. Numbered'
    BY DEF Numbered
  <1>9. Mentioned'
    BY <1>2, <1>4, <1>6 DEF Mentioned, Results, Owned
  <1>10. PendingIsOpen'
    BY <1>2, <1>5 DEF PendingIsOpen
  <1>11. CachedWasStored'
    <2> SUFFICES ASSUME NEW e \in map' PROVE [run |-> e.value, at |-> e.timestamp] \in closed'
      BY DEF CachedWasStored
    <2>1. CASE e \in map
      BY <1>2, <2>1 DEF CachedWasStored
    <2>2. CASE e = [key |-> call[t].key, value |-> call[t].run, timestamp |-> now]
      BY <1>2, <2>2
    <2> QED
      BY <1>2, <2>1, <2>2 DEF insert_or_assign
  <1>12. \A u \in Threads : Computing(u)' => u # t /\ Computing(u) /\ call'[u] = call[u]
    BY <1>4 DEF Computing, Results
  <1>13. \A u \in Threads : Computing(u)' => call[u].key # call[t].key
    BY <1>12 DEF SingleFlight, Computing, Owned
  <1>14. Announced' /\ SingleFlight'
    BY <1>2, <1>12, <1>13 DEF Announced, SingleFlight
  <1>15. BoundToNew'
    BY <1>2, <1>4, <1>6 DEF BoundToNew, Results, Owned
  <1>16. ResultIsCurrent'
    BY <1>2, <1>4, <1>6 DEF ResultIsCurrent
  <1> QED
    BY <1>7, <1>8, <1>9, <1>10, <1>11, <1>14, <1>15, <1>16

LEMMA CacheNext == CacheInv /\ [Next]_vars => CacheInv'
  <1> SUFFICES ASSUME CacheInv, [Next]_vars PROVE CacheInv'
    OBVIOUS
  <1>1. ASSUME NEW t \in Threads, Store(t) PROVE CacheInv'
    BY <1>1, CloseKeeps DEF Store, Owned, Results
  <1>2. ASSUME NEW t \in Threads, Rethrow(t) PROVE CacheInv'
    BY <1>2, CloseKeeps DEF Rethrow, Owned, Results
  <1>3. ASSUME NEW key \in Keys, Get(key) PROVE CacheInv'
    BY <1>3, MapShrinks DEF Get, AfterGet, CacheInv, CacheType
  <1>4. ASSUME NEW entries \in SUBSET map, Erase(entries) PROVE CacheInv'
    BY <1>4, MapShrinks DEF Erase, CacheInv, CacheType
  <1>5. CASE Tick
    BY <1>5, MapShrinks DEF Tick, CacheInv, CacheType
  <1>6. CASE UNCHANGED vars
    BY <1>6, MapShrinks DEF vars, CacheInv, CacheType
  <1> QED
    BY <1>1, <1>2, <1>3, <1>4, <1>5, <1>6, CallKeeps, HitKeeps, JoinKeeps, MissKeeps, FactoryKeeps,
       FutureGetKeeps, ReturnKeeps, SetKeeps DEF Next, get_or_compute

-----------------------------------------------------------------------------
(* The cache: theorems *)

\* The cache that the tasks share is the TtlCache of its module.
THEOREM ImplementsTtlCache == UpdatesSpec => Spec
  <1>1. UpdatesInit => Init
    BY DEF UpdatesInit
  <1>2. [UpdatesNext]_updatesVars => [Next]_vars
    BY DEF UpdatesNext, Cache, Update, updatesVars
  <1> QED
    BY <1>1, <1>2, PTL DEF UpdatesSpec, Spec

\* No two threads compute the same key at once, for any number of threads.
THEOREM NoThunderingHerd == UpdatesSpec => []SingleFlight
  <1>1. CacheInv => SingleFlight
    BY DEF CacheInv
  <1> QED
    BY <1>1, CacheInit, CacheNext, ImplementsTtlCache, PTL DEF Spec

\* A result of get_or_compute is never out of date, and no failure is cached,
\* whatever the time to live is.
THEOREM NoStaleResult == UpdatesSpec => []ResultIsCurrent
  <1>1. CacheInv => ResultIsCurrent
    BY DEF CacheInv
  <1> QED
    BY <1>1, CacheInit, CacheNext, ImplementsTtlCache, PTL DEF Spec

-----------------------------------------------------------------------------
(* The updater: requests and answers *)

\* Every provider's request carries the local address and designates the task's
\* own record, but for the apex of Route 53.
LEMMA RequestIsOwn ==
    ASSUME task \in Tasks, task.driver \in Providers, NEW clock, NEW req,
           req = generate_request(task.driver, task.keys, build_update_context, clock),
           req # Throws
    PROVE  req.value = to_string(local) /\ (NamesOwn => Designated(req) = Own)
  <1> USE TaskAssumption DEF generate_request, Designated, Own, Absolute, build_update_context, Request
  <1>1. CASE task.driver = "alibaba_cloud"
    BY <1>1 DEF alibaba_request
  <1>2. CASE task.driver = "cloudflare"
    BY <1>2 DEF cloudflare_request, generate_body
  <1>3. CASE task.driver = "digital_ocean"
    BY <1>3 DEF digital_ocean_request
  <1>4. CASE task.driver = "dnspod"
    BY <1>4 DEF dnspod_request
  <1>5. CASE task.driver = "duckdns"
    BY <1>5 DEF duckdns_request
  <1>6. CASE task.driver = "godaddy"
    BY <1>6 DEF godaddy_request
  <1>7. CASE task.driver = "linode"
    BY <1>7 DEF linode_request
  <1>8. CASE task.driver = "namecheap"
    BY <1>8 DEF namecheap_request
  <1>9. CASE task.driver = "porkbun"
    BY <1>9 DEF porkbun_request
  <1>10. CASE task.driver = "route53"
    BY <1>10 DEF route53_request, build_xml_body, NamesOwn, fqdn
  <1>11. CASE task.driver = "vultr"
    BY <1>11 DEF vultr_request
  <1> QED
    BY <1>1, <1>2, <1>3, <1>4, <1>5, <1>6, <1>7, <1>8, <1>9, <1>10, <1>11 DEF Providers

\* No driver takes its provider's refusal for a success.
LEMMA RefusalIsSeen ==
    ASSUME NEW d \in Providers, NEW resp \in Refusals(d) PROVE ~check_response(d, resp)
  <1>0. resp = Refused[d]
    BY DEF Refusals, Providers
  <1> USE <1>0 DEF Refused, Reply, Answer, Document, check_response, Is, read_json
  <1>1. CASE d = "alibaba_cloud"
    BY <1>1 DEF alibaba_check
  <1>2. CASE d = "cloudflare"
    BY <1>2 DEF cloudflare_check
  <1>3. CASE d = "digital_ocean"
    BY <1>3 DEF digital_ocean_check, DigitalOceanDomainResponse
  <1>4. CASE d = "dnspod"
    BY <1>4 DEF dnspod_check, dnspod_status
  <1>5. CASE d = "duckdns"
    BY <1>5 DEF duckdns_check
  <1>6. CASE d = "godaddy"
    BY <1>6 DEF godaddy_check
  <1>7. CASE d = "linode"
    BY <1>7 DEF linode_check
  <1>8. CASE d = "namecheap"
    BY <1>8 DEF namecheap_check
  <1>9. CASE d = "porkbun"
    BY <1>9 DEF porkbun_check
  <1>10. CASE d = "route53"
    BY <1>10 DEF route53_check
  <1>11. CASE d = "vultr"
    BY <1>11 DEF vultr_check
  <1> HIDE DEF Refused, Reply, Answer, Document, check_response, Is, read_json
  <1> QED
    BY <1>1, <1>2, <1>3, <1>4, <1>5, <1>6, <1>7, <1>8, <1>9, <1>10, <1>11 DEF Providers

\* And those that read the provider's consent do not take the page of a gateway
\* for it.
LEMMA GatewayIsSeen ==
    ASSUME NEW d \in ReadConsent, NEW resp \in GatewayAnswers PROVE ~check_response(d, resp)
  <1>1. PICK body \in {Garbage, Empty, Document("json", <<>>),
                      Document("text", [starts_with |-> "OK"])} : resp.body = body
    BY DEF GatewayAnswers, Answer
  <1>2. /\ resp.body.format # "xml"
        /\ resp.body.format = "json" => resp.body.of = <<>>
    BY <1>1 DEF Garbage, Empty, Document
  <1>3. ~namecheap_check(resp) /\ ~route53_check(resp)
    BY <1>2 DEF namecheap_check, route53_check
  <1>4. \A path : resp.body.format = "json" => path \notin DOMAIN resp.body.of
    BY <1>2
  <1>5. ~cloudflare_check(resp) /\ ~dnspod_check(resp) /\ ~porkbun_check(resp)
    BY <1>4 DEF cloudflare_check, dnspod_check, porkbun_check, read_json, Is
  <1> QED
    BY <1>3, <1>5 DEF ReadConsent, check_response

-----------------------------------------------------------------------------
(* The updater: the inductive invariant *)

\* The local address is one that the task may publish, as far as that is seen to.
LocalFits ==
    /\ task.source = "interface" => local.family = type_to_family(task.type)
    /\ task.source = "interface" \/ task.type = "AAAA" =>
          /\ is_link_local(local) => task.allow_local_link
          /\ is_ula(local) => task.allow_ula

Places == {"idle", "source", "forced_source", "lookup", "generate", "exchange", "check"}

OthersEmpty == \A r \in Records \ {Own} : zone[r] = "none"

\* Who has answered, and whether the driver can tell.
Judged == task.driver \in IF response.from = "gateway" THEN ReadConsent ELSE Providers

\* What a provider's driver has in hand is the task's own, and it takes an
\* answer it can judge for a success only when the zone holds the address.
InHand ==
    /\ pc = "exchange" => request.value = to_string(local) /\ (NamesOwn => Designated(request) = Own)
    /\ pc = "check" /\ NamesOwn /\ Judged /\ check_response(task.driver, response) =>
          zone[Own] = to_string(local)

UpdaterInv ==
    /\ task \in Tasks
    /\ pc \in Places
    /\ DOMAIN zone = Records
    /\ pc \in {"lookup", "generate", "exchange"} => LocalFits
    /\ task.driver \in Providers => InHand /\ (NamesOwn => OthersEmpty)
    /\ SuccessMeansPublished

\* In a behaviour of the cache no update is made.
NoUpdates == pc = "idle" /\ result = "none" /\ zone = [r \in Records |-> "none"]

UpdatesInv ==
    \/ part = "cache" /\ NoUpdates
    \/ part = "updater" /\ UpdaterInv

LEMMA OwnIsRecord == ASSUME task \in Tasks PROVE Own \in Records
  BY TaskAssumption DEF Own, Records

\* A step that neither sends a request nor judges an answer.
LEMMA RoundMoves ==
    ASSUME UpdaterInv, UNCHANGED <<task, zone>>,
           pc' \in Places \ {"exchange", "check"},
           pc' = "idle" => result' # "updated",
           pc' \in {"lookup", "generate"} => LocalFits'
    PROVE  UpdaterInv'
  <1>1. (Own' = Own) /\ (NamesOwn' <=> NamesOwn) /\ (OthersEmpty' <=> OthersEmpty)
    BY DEF Own, NamesOwn, OthersEmpty
  <1>2. InHand'
    BY DEF InHand
  <1>3. SuccessMeansPublished'
    BY DEF SuccessMeansPublished
  <1> QED
    BY <1>1, <1>2, <1>3 DEF UpdaterInv

LEMMA BeginKeeps == ASSUME UpdaterInv, Begin PROVE UpdaterInv'
  BY RoundMoves DEF Begin, Places

\* What the source found, and the filter kept, may be published.
LEMMA ChosenKeeps ==
    ASSUME UpdaterInv, AtSource, NEW found, Chosen(found),
           task.source = "interface" =>
               \A i \in DOMAIN found : found[i].family = type_to_family(task.type)
    PROVE  UpdaterInv'
  <1> DEFINE kept == IF task.type = "AAAA" THEN filter_ipv6_candidates(found) ELSE found
  <1>1. UNCHANGED <<task, zone>>
    BY DEF Chosen
  <1>2. CASE DOMAIN kept = {}
    <2>1. pc' = "idle" /\ result' = "skipped"
      BY <1>2 DEF Chosen, RoundEnds
    <2> QED
      BY <1>1, <2>1, RoundMoves DEF Places
  <1>3. CASE DOMAIN kept # {}
    <2>1. PICK i \in DOMAIN kept : local' = kept[i]
      BY <1>3 DEF Chosen
    <2>2. pc' \in {"lookup", "generate"}
      BY <1>3 DEF Chosen
    <2>3. CASE task.type = "AAAA"
      <3>1. /\ i \in DOMAIN found /\ local' = found[i]
            /\ is_link_local(found[i]) => task.allow_local_link
            /\ is_ula(found[i]) => task.allow_ula
        BY <2>1, <2>3 DEF filter_ipv6_candidates, RestrictValues, Restrict
      <3>2. LocalFits'
        BY <1>1, <3>1 DEF LocalFits, type_to_family, is_link_local, is_ula
      <3> QED
        BY <1>1, <2>2, <3>2, RoundMoves DEF Places
    <2>4. CASE task.type = "A"
      <3>1. /\ i \in DOMAIN found /\ local' = found[i]
            /\ task.source = "interface" => found[i].family = "IPV4"
        BY <2>1, <2>4 DEF type_to_family
      <3>2. LocalFits'
        BY <1>1, <2>4, <3>1 DEF LocalFits, type_to_family, is_link_local, is_ula
      <3> QED
        BY <1>1, <2>2, <3>2, RoundMoves DEF Places
    <2> QED
      BY <2>3, <2>4, TaskAssumption DEF UpdaterInv
  <1> QED
    BY <1>2, <1>3

LEMMA FromInterfaceKeeps == ASSUME UpdaterInv, FromInterface PROVE UpdaterInv'
  <1> DEFINE family == type_to_family(task.type)
             found  == interface_addresses(Fresh, task.interface, family)
  <1>1. family # "UNSPECIFIED"
    BY TaskAssumption DEF UpdaterInv, type_to_family
  <1>2. AtSource /\ Chosen(found)
    BY DEF FromInterface
  <1>3. \A i \in DOMAIN found : found[i].family = family
    BY <1>1 DEF interface_addresses, RestrictValues, Restrict
  <1> QED
    BY <1>2, <1>3, ChosenKeeps

LEMMA FromHttpKeeps == ASSUME UpdaterInv, FromHttp PROVE UpdaterInv'
  <1>1. PICK addr \in Seen \cup WebAnswers : Chosen(<<addr>>)
    BY DEF FromHttp, trim
  <1>2. AtSource /\ task.source # "interface"
    BY DEF FromHttp
  <1> QED
    BY <1>1, <1>2, ChosenKeeps

\* The source fails, or the comparison with the DNS is made.
LEMMA LookupKeeps ==
    ASSUME UpdaterInv, NoInterface \/ HttpFails \/ Lookup PROVE UpdaterInv'
  <1>1. CASE NoInterface \/ HttpFails
    BY <1>1, RoundMoves DEF NoInterface, HttpFails, RoundEnds, Places
  <1>2. CASE Lookup
    <2>1. pc = "lookup" /\ UNCHANGED <<task, zone, local>>
      BY <1>2 DEF Lookup
    <2>2. (pc' = "idle" /\ result' = "unchanged") \/ pc' = "generate"
      BY <1>2 DEF Lookup, RoundEnds
    <2>3. LocalFits'
      BY <2>1 DEF UpdaterInv, LocalFits, is_link_local, is_ula
    <2> QED
      BY <2>1, <2>2, <2>3, RoundMoves DEF Places
  <1> QED
    BY <1>1, <1>2

LEMMA GenerateKeeps == ASSUME UpdaterInv, Generate PROVE UpdaterInv'
  <1>1. pc = "generate" /\ UNCHANGED <<task, zone, local>>
    BY DEF Generate
  <1>2. CASE request' = Throws
    <2>1. pc' = "idle" /\ result' = "exception"
      BY <1>2 DEF Generate, RoundEnds
    <2> QED
      BY <1>1, <2>1, RoundMoves DEF Places
  <1>3. CASE request' # Throws
    <2>1. pc' = "exchange"
      BY <1>3 DEF Generate
    <2>2. PICK clock :
             request' = generate_request(task.driver, task.keys, build_update_context, clock)
      BY DEF Generate
    <2>3. task \in Tasks
      BY DEF UpdaterInv
    <2>4. task.driver \in Providers =>
             request'.value = to_string(local) /\ (NamesOwn => Designated(request') = Own)
      BY <1>3, <2>2, <2>3, RequestIsOwn
    <2>5. (Own' = Own) /\ (NamesOwn' <=> NamesOwn) /\ (OthersEmpty' <=> OthersEmpty)
      BY <1>1 DEF Own, NamesOwn, OthersEmpty
    <2>6. Designated(request)' = Designated(request')
      BY <2>5 DEF Designated
    <2>7. to_string(local)' = to_string(local)
      BY <1>1 DEF to_string
    <2>8. task.driver \in Providers => InHand'
      BY <2>1, <2>4, <2>5, <2>6, <2>7 DEF InHand
    <2>9. SuccessMeansPublished' /\ LocalFits'
      BY <1>1, <2>1 DEF SuccessMeansPublished, UpdaterInv, LocalFits, is_link_local, is_ula
    <2> QED
      BY <1>1, <2>1, <2>5, <2>8, <2>9 DEF UpdaterInv, Places
  <1> QED
    BY <1>2, <1>3

LEMMA ExchangeAcceptedKeeps == ASSUME UpdaterInv, ExchangeAccepted PROVE UpdaterInv'
  <1>1. /\ pc = "exchange" /\ UNCHANGED <<task, local>>
        /\ zone' = [zone EXCEPT ![Designated(request)] = request.value]
    BY DEF ExchangeAccepted
  <1>2. pc' = "check" \/ (pc' = "idle" /\ result' = "failed")
    BY DEF ExchangeAccepted, RoundEnds
  <1>3. (Own' = Own) /\ (NamesOwn' <=> NamesOwn)
    BY <1>1 DEF Own, NamesOwn
  <1>4. DOMAIN zone' = Records
    BY <1>1 DEF UpdaterInv
  <1>5. task.driver \in Providers /\ NamesOwn =>
           /\ zone'[Own] = to_string(local)
           /\ \A r \in Records \ {Own} : zone'[r] = "none"
    BY <1>1, OwnIsRecord DEF UpdaterInv, InHand, OthersEmpty
  <1>6. to_string(local)' = to_string(local)
    BY <1>1 DEF to_string
  <1>7. SuccessMeansPublished'
    BY <1>2 DEF SuccessMeansPublished
  <1>8. task.driver \in Providers => InHand' /\ (NamesOwn => OthersEmpty)'
    BY <1>2, <1>3, <1>5, <1>6 DEF InHand, OthersEmpty
  <1> QED
    BY <1>1, <1>2, <1>4, <1>7, <1>8 DEF UpdaterInv, Places

LEMMA ExchangeFailsKeeps == ASSUME UpdaterInv, ExchangeFails PROVE UpdaterInv'
  <1>1. pc = "exchange" /\ UNCHANGED <<task, zone, local>>
    BY DEF ExchangeFails
  <1>2. CASE pc' = "idle"
    <2>1. result' = "failed"
      BY <1>2 DEF ExchangeFails, RoundEnds
    <2> QED
      BY <1>1, <1>2, <2>1, RoundMoves DEF Places
  <1>3. CASE pc' # "idle"
    <2>1. pc' = "check" /\ response' \in Refusals(task.driver) \cup GatewayAnswers
      BY <1>3 DEF ExchangeFails, RoundEnds
    <2>2. task.driver \in Providers /\ Judged' => ~check_response(task.driver, response')
      <3>1. CASE response' \in Refusals(task.driver)
        BY <3>1, RefusalIsSeen
      <3>2. CASE response' \in GatewayAnswers
        <4>1. response'.from = "gateway"
          BY <3>2 DEF GatewayAnswers, Answer
        <4> QED
          BY <1>1, <3>2, <4>1, GatewayIsSeen DEF Judged
      <3> QED
        BY <2>1, <3>1, <3>2
    <2>3. task.driver \in Providers /\ Judged' => ~check_response(task.driver, response)'
      BY <1>1, <2>2
    <2>4. (Own' = Own) /\ (NamesOwn' <=> NamesOwn) /\ (OthersEmpty' <=> OthersEmpty)
      BY <1>1 DEF Own, NamesOwn, OthersEmpty
    <2>5. SuccessMeansPublished'
      BY <2>1 DEF SuccessMeansPublished
    <2>6. task.driver \in Providers => InHand'
      BY <2>1, <2>3 DEF InHand
    <2> QED
      BY <1>1, <2>1, <2>4, <2>5, <2>6 DEF UpdaterInv, Places
  <1> QED
    BY <1>2, <1>3

LEMMA CheckKeeps == ASSUME UpdaterInv, Check PROVE UpdaterInv'
  <1>1. /\ pc = "check" /\ pc' = "idle" /\ UNCHANGED <<task, zone, local, response>>
        /\ result' = IF check_response(task.driver, response) THEN "updated" ELSE "failed"
    BY DEF Check, RoundEnds
  <1>2. CASE ~check_response(task.driver, response)
    BY <1>1, <1>2, RoundMoves DEF Places
  <1>3. CASE check_response(task.driver, response)
    <2>1. Judged /\ NamesOwn => zone[Own] = to_string(local)
      BY <1>1, <1>3 DEF UpdaterInv, InHand, Judged, ReadConsent, Providers
    <2>2. (Own' = Own) /\ (NamesOwn' <=> NamesOwn) /\ (OthersEmpty' <=> OthersEmpty)
      BY <1>1 DEF Own, NamesOwn, OthersEmpty
    <2>3. to_string(local)' = to_string(local)
      BY <1>1 DEF to_string
    <2>4. SuccessMeansPublished' /\ InHand'
      BY <1>1, <2>1, <2>2, <2>3 DEF SuccessMeansPublished, InHand, Judged
    <2> QED
      BY <1>1, <2>2, <2>4 DEF UpdaterInv, Places
  <1> QED
    BY <1>2, <1>3

\* A step outside the round.
LEMMA OutsideKeeps ==
    ASSUME UpdaterInv, UNCHANGED <<task, zone, pc, local, request, response, result>>
    PROVE  UpdaterInv'
  <1>1. /\ Own' = Own /\ (NamesOwn' <=> NamesOwn) /\ (OthersEmpty' <=> OthersEmpty)
        /\ to_string(local)' = to_string(local)
    BY DEF Own, NamesOwn, OthersEmpty, to_string
  <1>2. (Designated(request)' = Designated(request)) /\ (LocalFits' <=> LocalFits)
    BY <1>1 DEF Designated, LocalFits, is_link_local, is_ula
  <1>3. check_response(task.driver, response)' <=> check_response(task.driver, response)
    OBVIOUS
  <1>4. (InHand' <=> InHand) /\ (SuccessMeansPublished' <=> SuccessMeansPublished)
    BY <1>1, <1>2, <1>3 DEF InHand, SuccessMeansPublished, Judged
  <1> QED
    BY <1>1, <1>2, <1>4 DEF UpdaterInv

LEMMA UpdatesNextKeeps == UpdatesInv /\ [UpdatesNext]_updatesVars => UpdatesInv'
  <1> SUFFICES ASSUME UpdatesInv, [UpdatesNext]_updatesVars PROVE UpdatesInv'
    OBVIOUS
  <1>1. CASE Cache(Next) \/ UNCHANGED updatesVars
    <2>1. part' = part /\ UNCHANGED <<task, zone, pc, local, request, response, result>>
      BY <1>1 DEF Cache, updatesVars, updaterVars, roundVars
    <2>2. CASE part = "cache" /\ NoUpdates
      BY <2>1, <2>2 DEF UpdatesInv, NoUpdates
    <2>3. CASE part = "updater" /\ UpdaterInv
      BY <2>1, <2>3, OutsideKeeps DEF UpdatesInv
    <2> QED
      BY <2>2, <2>3 DEF UpdatesInv
  <1>2. CASE Update(UpdaterNext)
    <2>1. UpdaterInv /\ part' = "updater" /\ UpdaterNext
      BY <1>2 DEF Update, UpdatesInv
    <2>2. CASE Change \/ Expire
      BY <2>1, <2>2, OutsideKeeps DEF Change, Expire, roundVars, UpdatesInv
    <2>3. UpdaterInv'
      BY <2>1, <2>2, BeginKeeps, FromInterfaceKeeps, FromHttpKeeps, LookupKeeps, GenerateKeeps,
         ExchangeAcceptedKeeps, ExchangeFailsKeeps, CheckKeeps, OutsideKeeps
         DEF UpdaterNext, process, Change, Expire, roundVars
    <2> QED
      BY <2>1, <2>3 DEF UpdatesInv
  <1> QED
    BY <1>1, <1>2 DEF UpdatesNext

-----------------------------------------------------------------------------
(* The updater: theorems *)

\* What a round has in hand, at every step of it: a permitted address, a request
\* for the task's own record, an answer that is judged for what it is.
THEOREM UpdatesInvariance == UpdatesSpec => []UpdatesInv
  <1>1. UpdatesInit => UpdatesInv
    <2> SUFFICES ASSUME UpdatesInit PROVE UpdatesInv
      OBVIOUS
    <2>1. pc = "idle" /\ result = "none" /\ zone = [r \in Records |-> "none"]
      BY DEF UpdatesInit, UpdaterInit
    <2>2. CASE part = "cache"
      BY <2>1, <2>2 DEF UpdatesInv, NoUpdates
    <2>3. CASE part = "updater"
      <3>1. task \in Tasks
        BY <2>3 DEF UpdatesInit, UpdaterInit
      <3>2. InHand /\ SuccessMeansPublished /\ OthersEmpty
        BY <2>1 DEF InHand, SuccessMeansPublished, OthersEmpty
      <3> QED
        BY <2>1, <2>3, <3>1, <3>2 DEF UpdatesInv, UpdaterInv, Places
    <2> QED
      BY <2>2, <2>3 DEF UpdatesInit
  <1> QED
    BY <1>1, UpdatesNextKeeps, PTL DEF UpdatesSpec

\* With each of the eleven providers an update that says it succeeded has put
\* the address into the task's own record, whatever was refused or lost on the
\* way; and with the five that read the provider's consent also when a gateway
\* has answered, with any of its pages and statuses.
THEOREM SuccessIsPublished == UpdatesSpec => []SuccessMeansPublished
  <1>1. UpdatesInv => SuccessMeansPublished
    BY DEF UpdatesInv, UpdaterInv, NoUpdates, SuccessMeansPublished
  <1> QED
    BY <1>1, UpdatesInvariance, PTL

\* With every driver and any interfaces, nothing but an address of the right
\* family is sent for a task whose address comes from an interface, and nothing
\* but a permitted address for a record of type AAAA, whatever addresses a web
\* service may answer with; and with each of the eleven providers no record but
\* the task's own is written.
THEOREM OnlyFittingIsPublished ==
    UpdatesSpec => [](/\ pc = "exchange" => LocalFits
                      /\ task.driver \in Providers => PublishedFits)
  <1>1. UpdatesInv => /\ pc = "exchange" => LocalFits
                      /\ task.driver \in Providers => PublishedFits
    BY DEF UpdatesInv, UpdaterInv, NoUpdates, PublishedFits, LocalFits, OthersEmpty
  <1> QED
    BY <1>1, UpdatesInvariance, PTL
=============================================================================
