------------------------------- MODULE TtlCache -------------------------------
(***************************************************************************)
(* Utils::Cache::TtlCache (util/cache.hpp), through which the IP sources   *)
(* enumerate the network interfaces.  get_or_compute is modelled step by   *)
(* step, since its factory runs outside the mutex; the other operations    *)
(* hold the mutex throughout and are one step each.                        *)
(*                                                                         *)
(* Values are told apart by their origin: every computation and every      *)
(* set() has a number of its own.                                          *)
(***************************************************************************)
EXTENDS Integers, FiniteSets, FiniteSetsExt

CONSTANTS Threads, Keys,
          Ttl,      \* ttl_
          MaxTime,  \* bound: the last tick of the clock
          MaxRuns   \* bound: computations and set()s

ASSUME CacheAssumption == Ttl \in Nat /\ MaxTime \in Nat /\ MaxRuns \in Nat

VARIABLES
    map,      \* map_: entries [key, value, timestamp]
    pending,  \* pending_: entries [key, run]
    promise,  \* per computation: "unset", "value" or "exception"
    call,     \* per thread: its get_or_compute
    now,      \* the clock
    closed    \* history: when each computation left pending_

vars == <<map, pending, promise, call, now, closed>>

Runs == 1 .. MaxRuns
Idle == [pc |-> "idle"]

Init ==
    /\ map = {}
    /\ pending = {}
    /\ promise = <<>>
    /\ call = [t \in Threads |-> Idle]
    /\ now = 0
    /\ closed = {}

NewRun == Cardinality(DOMAIN promise) + 1

expired(entry) == now - entry.timestamp >= Ttl

\* do_get: the fresh entries of a key, and the map without its expired one.
do_get(key)    == {e \in map : e.key = key /\ ~expired(e)}
AfterGet(key)  == {e \in map : e.key = key => ~expired(e)}

insert_or_assign(key, run) ==
    {e \in map : e.key # key} \cup {[key |-> key, value |-> run, timestamp |-> now]}

Ends(t, how, run) ==
    call' = [call EXCEPT ![t] = [pc |-> how, key |-> call[t].key, run |-> run,
                                 at |-> now, known |-> call[t].known]]

-----------------------------------------------------------------------------
(* get_or_compute *)

\* A call begins.  known records which computations were over by then.
Call(t, key) ==
    /\ call[t].pc = "idle"
    /\ call' = [call EXCEPT ![t] = [pc |-> "enter", key |-> key,
                                    known |-> {c.run : c \in closed}]]
    /\ UNCHANGED <<map, pending, promise, now, closed>>

\* Fast path: the value is cached and fresh.
Hit(t) ==
    /\ call[t].pc = "enter"
    /\ \E e \in do_get(call[t].key) : Ends(t, "value", e.value)
    /\ map' = AfterGet(call[t].key)
    /\ UNCHANGED <<pending, promise, now, closed>>

\* Another thread is computing the key.
Join(t) ==
    /\ call[t].pc = "enter"
    /\ do_get(call[t].key) = {}
    /\ \E p \in pending :
          /\ p.key = call[t].key
          /\ call' = [call EXCEPT ![t] = [pc |-> "wait", key |-> @.key, run |-> p.run,
                                          known |-> @.known]]
    /\ map' = AfterGet(call[t].key)
    /\ UNCHANGED <<pending, promise, now, closed>>

\* Mutant: the computation is not announced in pending_.
MissUnannounced(t) ==
    /\ call[t].pc = "enter"
    /\ NewRun \in Runs
    /\ do_get(call[t].key) = {}
    /\ promise' = [r \in DOMAIN promise \cup {NewRun} |-> IF r = NewRun THEN "unset" ELSE promise[r]]
    /\ call' = [call EXCEPT ![t] = [pc |-> "compute", key |-> @.key, run |-> NewRun,
                                    known |-> @.known]]
    /\ map' = AfterGet(call[t].key)
    /\ UNCHANGED <<pending, now, closed>>

\* Nobody is: this thread computes.
Miss(t) ==
    /\ call[t].pc = "enter"
    /\ NewRun \in Runs
    /\ do_get(call[t].key) = {}
    /\ \A p \in pending : p.key # call[t].key
    /\ pending' = pending \cup {[key |-> call[t].key, run |-> NewRun]}
    /\ promise' = [r \in DOMAIN promise \cup {NewRun} |-> IF r = NewRun THEN "unset" ELSE promise[r]]
    /\ call' = [call EXCEPT ![t] = [pc |-> "compute", key |-> @.key, run |-> NewRun,
                                    known |-> @.known]]
    /\ map' = AfterGet(call[t].key)
    /\ UNCHANGED <<now, closed>>

\* Mutant: the exception is not passed on to the waiters.
FactorySilent(t) ==
    /\ call[t].pc = "compute"
    /\ \E how \in {"value", "exception"} :
          /\ promise' = [promise EXCEPT ![call[t].run] = IF how = "value" THEN how ELSE "unset"]
          /\ call' = [call EXCEPT ![t].pc = IF how = "value" THEN "store" ELSE "rethrow"]
    /\ UNCHANGED <<map, pending, now, closed>>

\* The factory returns or throws, and the promise is set accordingly.
Factory(t) ==
    /\ call[t].pc = "compute"
    /\ \E how \in {"value", "exception"} :
          /\ promise' = [promise EXCEPT ![call[t].run] = how]
          /\ call' = [call EXCEPT ![t].pc = IF how = "value" THEN "store" ELSE "rethrow"]
    /\ UNCHANGED <<map, pending, now, closed>>

Close(t) ==
    /\ pending' = {p \in pending : p.key # call[t].key}
    /\ closed' = closed \cup {[run |-> call[t].run, at |-> now]}

\* The value is stored under the mutex and the entry of pending_ erased.
Store(t) ==
    /\ call[t].pc = "store"
    /\ Close(t)
    /\ map' = insert_or_assign(call[t].key, call[t].run)
    /\ Ends(t, "value", call[t].run)
    /\ UNCHANGED <<promise, now>>

\* Mutant: the failed computation stays in pending_.
RethrowKept(t) ==
    /\ call[t].pc = "rethrow"
    /\ closed' = closed \cup {[run |-> call[t].run, at |-> now]}
    /\ Ends(t, "exception", call[t].run)
    /\ UNCHANGED <<map, pending, promise, now>>

\* catch (...): the entry of pending_ is erased, and nothing is cached.
Rethrow(t) ==
    /\ call[t].pc = "rethrow"
    /\ Close(t)
    /\ Ends(t, "exception", call[t].run)
    /\ UNCHANGED <<map, promise, now>>

\* future.get() returns, or throws what the factory threw.
FutureGet(t) ==
    /\ call[t].pc = "wait"
    /\ promise[call[t].run] # "unset"
    /\ Ends(t, promise[call[t].run], call[t].run)
    /\ UNCHANGED <<map, pending, promise, now, closed>>

\* The caller has the result and may call again.
Return(t) ==
    /\ call[t].pc \in {"value", "exception"}
    /\ call' = [call EXCEPT ![t] = Idle]
    /\ UNCHANGED <<map, pending, promise, now, closed>>

-----------------------------------------------------------------------------
(* The other operations *)

\* set(): a value from outside; it counts as computed at once.
Set(key) ==
    /\ NewRun \in Runs
    /\ promise' = [r \in DOMAIN promise \cup {NewRun} |-> IF r = NewRun THEN "value" ELSE promise[r]]
    /\ closed' = closed \cup {[run |-> NewRun, at |-> now]}
    /\ map' = insert_or_assign(key, NewRun)
    /\ UNCHANGED <<pending, call, now>>

\* get() and contains() drop an expired entry.
Get(key) ==
    /\ map' = AfterGet(key)
    /\ UNCHANGED <<pending, promise, call, now, closed>>

\* remove(), clear() and invalidate_if() erase entries of map_ only.
Erase(entries) ==
    /\ map' = map \ entries
    /\ UNCHANGED <<pending, promise, call, now, closed>>

Tick ==
    /\ now < MaxTime
    /\ now' = now + 1
    /\ UNCHANGED <<map, pending, promise, call, closed>>

-----------------------------------------------------------------------------
get_or_compute(t) ==
    Hit(t) \/ Join(t) \/ Miss(t) \/ Factory(t) \/ Store(t) \/ Rethrow(t) \/ FutureGet(t)

Next ==
    \/ \E t \in Threads, key \in Keys : Call(t, key)
    \/ \E t \in Threads : get_or_compute(t) \/ Return(t)
    \/ \E key \in Keys : Set(key) \/ Get(key)
    \/ \E entries \in SUBSET map : Erase(entries)
    \/ Tick

Spec == Init /\ [][Next]_vars

\* A thread that is inside get_or_compute goes on, and its factory ends.
FairSpec == Spec /\ \A t \in Threads : WF_vars(get_or_compute(t))

-----------------------------------------------------------------------------
InCall  == {"enter", "compute", "store", "rethrow", "wait"}
Results == {"value", "exception"}

\* At most one entry per key in either map, as in an unordered_map.
TypeOK ==
    /\ \A e \in map : e.key \in Keys /\ e.value \in DOMAIN promise /\ e.timestamp \in 0 .. now
    /\ \A p \in pending : p.key \in Keys /\ p.run \in DOMAIN promise
    /\ \A e, f \in map : e.key = f.key => e = f
    /\ \A p, q \in pending : p.key = q.key => p = q
    /\ \A r \in DOMAIN promise : r \in Runs /\ promise[r] \in {"unset"} \cup Results
    /\ \A t \in Threads : call[t].pc \in {"idle"} \cup InCall \cup Results

\* Thundering-herd protection: no two threads compute the same key at once.
Computing(t) == call[t].pc \in {"compute", "store", "rethrow"}

SingleFlight ==
    \A t, u \in Threads :
        Computing(t) /\ Computing(u) /\ call[t].key = call[u].key => t = u

\* A result is never out of date: it is that of a computation which was not
\* over when the call began, or of one whose value was stored less than the
\* TTL ago.  So a failure is not cached, whatever joins it on the way out.
ResultIsCurrent ==
    \A t \in Threads : call[t].pc \in Results =>
        \/ call[t].run \notin call[t].known
        \/ /\ call[t].pc = "value"
           /\ \E c \in closed : c.run = call[t].run /\ call[t].at - c.at < Ttl

\* Every call ends, also that of a waiter whose computing thread failed.  (A
\* call that would need a computation beyond MaxRuns cannot begin one.)
CallsEnd ==
    \A t \in Threads :
        call[t].pc \in InCall \ {"enter"} ~> call[t].pc \notin InCall
=============================================================================
