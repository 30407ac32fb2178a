------------------------------ MODULE Scheduler ------------------------------
(***************************************************************************)
(* The timer queue of src/core/scheduler.cpp together with the loop of     *)
(* Manager::Impl::run that drives it.  Time points are kept relative to    *)
(* the present: a deadline as the time left until it, last_force_update as *)
(* its age.  The code only asks whether a deadline has passed and whether  *)
(* an age has reached the force interval, so lateness beyond MaxLate and   *)
(* ages beyond what is compared are not told apart.                        *)
(***************************************************************************)
EXTENDS Integers

CONSTANTS Tasks,           \* one per configured subdomain
          DomainInterval,  \* update_interval of the task's domain
          SubInterval,     \* update_interval of the subdomain, 0 if unset
          ForceUpdate,     \* force_update of the domain, 0 if off
          MinInterval,     \* YADDNSC_MIN_UPDATE_INTERVAL
          MaxLate          \* bound on the lateness that is told apart

\* What ConfigValidator::validate lets through.
valid_intervals(t) ==
    /\ DomainInterval[t] >= MinInterval
    /\ SubInterval[t] = 0 \/ SubInterval[t] >= MinInterval
    /\ ForceUpdate[t] = 0 \/ ForceUpdate[t] >= DomainInterval[t]

ASSUME ScheduleAssumption ==
    /\ MinInterval \in Nat \ {0}
    /\ MaxLate \in Nat
    /\ DomainInterval \in [Tasks -> Nat]
    /\ SubInterval \in [Tasks -> Nat]
    /\ ForceUpdate \in [Tasks -> Nat]
    /\ \A t \in Tasks : valid_intervals(t)

effective_interval(t) == IF SubInterval[t] > 0 THEN SubInterval[t] ELSE DomainInterval[t]

VARIABLES
    deadline,      \* time left until each entry's deadline, negative when late
    force_age,     \* age of each entry's last_force_update
    caller,        \* where the thread in Manager::run is
    due,           \* tasks returned by pop_all_due and not yet handed out
    stop,          \* stop_requested()
    notified,      \* the stop callback has run
    run_age,       \* history: age of each task's last run
    forced_age     \* history: age of each task's last forced run

entryVars == <<deadline, force_age, run_age, forced_age>>
schedVars == <<entryVars, caller, due, stop, notified>>

Lesser(a, b)  == IF a <= b THEN a ELSE b
Greater(a, b) == IF a <= b THEN b ELSE a

\* The age from which a forced run is overdue by a whole update interval.
ForceHorizon(t) == ForceUpdate[t] + effective_interval(t)

\* Scheduler::Impl::Impl: everything is due at once, and the first run of a
\* task with a force interval is a forced one.
Init ==
    /\ deadline = [t \in Tasks |-> 0]
    /\ force_age = [t \in Tasks |-> ForceUpdate[t]]
    /\ caller = "loop"
    /\ due = {}
    /\ stop = FALSE
    /\ notified = FALSE
    /\ run_age = [t \in Tasks |-> effective_interval(t)]
    /\ forced_age = [t \in Tasks |-> ForceUpdate[t]]

-----------------------------------------------------------------------------
(* pop_all_due *)

Due == {t \in Tasks : deadline[t] <= 0}

\* Mutant: the elapsed time is compared with > instead of >=.
check_force_update_late(t) == ForceUpdate[t] > 0 /\ force_age[t] > ForceUpdate[t]

check_force_update(t) == ForceUpdate[t] > 0 /\ force_age[t] >= ForceUpdate[t]

\* Mutant: the next deadline is counted from the last deadline, not from now.
next_deadline_catching_up(t) == deadline[t] + effective_interval(t)

next_deadline(t) == effective_interval(t)

\* Mutant: last_force_update is left as it was.
next_force_age_kept(t) == force_age[t]

\* last_force_update = now when the run is forced.
next_force_age(t) == IF check_force_update(t) THEN 0 ELSE force_age[t]

\* One pass of the loop of Manager::run up to the tasks it hands out.  The
\* whole of pop_all_due sees one value of now, and every entry it takes out
\* goes back into the heap with a deadline in the future.
PopAllDue ==
    /\ caller = "loop"
    /\ ~stop
    /\ due' = {[task |-> t, force |-> check_force_update(t)] : t \in Due}
    /\ deadline' = [t \in Tasks |-> IF t \in Due THEN next_deadline(t) ELSE deadline[t]]
    /\ force_age' = [t \in Tasks |-> IF t \in Due THEN next_force_age(t) ELSE force_age[t]]
    /\ run_age' = [t \in Tasks |-> IF t \in Due THEN 0 ELSE run_age[t]]
    /\ forced_age' = [t \in Tasks |->
                        IF t \in Due /\ check_force_update(t) THEN 0 ELSE forced_age[t]]
    /\ caller' = "dispatch"
    /\ UNCHANGED <<stop, notified>>

\* while (!stop_source_.stop_requested()) ends the loop.
LeaveLoop ==
    /\ caller = "loop"
    /\ stop
    /\ caller' = "drain"
    /\ UNCHANGED <<entryVars, due, stop, notified>>

\* One task of the vector is handed out.
Dispatch(d) ==
    /\ caller = "dispatch"
    /\ d \in due
    /\ due' = due \ {d}
    /\ UNCHANGED <<entryVars, caller, stop, notified>>

AllDispatched ==
    /\ caller = "dispatch"
    /\ due = {}
    /\ caller' = "wait"
    /\ UNCHANGED <<entryVars, due, stop, notified>>

-----------------------------------------------------------------------------
(* wait_for_next, with mtx_ held except while blocked *)

\* The predicate of cv_.wait / cv_.wait_until is evaluated.
CheckStop ==
    /\ caller = "wait"
    /\ caller' = IF stop THEN "drain" ELSE "checked"
    /\ UNCHANGED <<entryVars, due, stop, notified>>

\* The mutex is released and the thread sleeps.
Block ==
    /\ caller = "checked"
    /\ caller' = "blocked"
    /\ UNCHANGED <<entryVars, due, stop, notified>>

\* Mutant: cv_.wait instead of cv_.wait_until.
TimeoutNever ==
    /\ caller = "blocked"
    /\ Tasks = {}
    /\ UNCHANGED schedVars

\* Mutant: wait_for_next returns stop_requested().
TimeoutInverted ==
    /\ caller = "blocked"
    /\ Due # {}
    /\ caller' = IF stop THEN "loop" ELSE "drain"
    /\ UNCHANGED <<entryVars, due, stop, notified>>

\* The earliest deadline has passed: wait_until times out and wait_for_next
\* returns !stop_requested().  With an empty heap there is no timeout.
Timeout ==
    /\ caller = "blocked"
    /\ Due # {}
    /\ caller' = IF stop THEN "drain" ELSE "loop"
    /\ UNCHANGED <<entryVars, due, stop, notified>>

\* Mutant: the wait has no predicate, so that any wake-up ends it.
SpuriousWakeupUnchecked ==
    /\ caller = "blocked"
    /\ caller' = IF stop THEN "drain" ELSE "loop"
    /\ UNCHANGED <<entryVars, due, stop, notified>>

\* A wake-up without a cause leads back to the predicate.
SpuriousWakeup ==
    /\ caller = "blocked"
    /\ caller' = "wait"
    /\ UNCHANGED <<entryVars, due, stop, notified>>

-----------------------------------------------------------------------------
(* The stop_source, on another thread, and the clock. *)

\* request_stop() sets the flag ...
RequestStop ==
    /\ ~stop
    /\ stop' = TRUE
    /\ UNCHANGED <<entryVars, caller, due, notified>>

\* ... and then runs stop_cb_: cv_.notify_all(), without taking mtx_.  Only a
\* thread that is already asleep is woken.
NotifyAll ==
    /\ stop
    /\ ~notified
    /\ notified' = TRUE
    /\ caller' = IF caller = "blocked" THEN "wait" ELSE caller
    /\ UNCHANGED <<entryVars, due, stop>>

Tick ==
    /\ deadline' = [t \in Tasks |-> Greater(deadline[t] - 1, -MaxLate)]
    /\ force_age' = [t \in Tasks |-> Lesser(force_age[t] + 1, ForceHorizon(t))]
    /\ run_age' = [t \in Tasks |-> Lesser(run_age[t] + 1, effective_interval(t))]
    /\ forced_age' = [t \in Tasks |-> Lesser(forced_age[t] + 1, ForceHorizon(t))]
    /\ UNCHANGED <<caller, due, stop, notified>>

-----------------------------------------------------------------------------
Loop == PopAllDue \/ LeaveLoop \/ (\E d \in due : Dispatch(d)) \/ AllDispatched

Wait == CheckStop \/ Block \/ Timeout

Next == Loop \/ Wait \/ SpuriousWakeup \/ RequestStop \/ NotifyAll \/ Tick

Spec == Init /\ [][Next]_schedVars

(***************************************************************************)
(* The two threads are scheduled fairly and time passes.  Nothing is       *)
(* assumed about whether stop is ever requested.  Spurious wake-ups may    *)
(* come at any time, but a wait whose deadline has passed does not wake    *)
(* spuriously for ever instead of timing out.                              *)
(***************************************************************************)
Fairness ==
    /\ WF_schedVars(Loop \/ Wait)
    /\ SF_schedVars(Timeout)
    /\ WF_schedVars(NotifyAll)
    /\ WF_schedVars(Tick)

FairSpec == Spec /\ Fairness

-----------------------------------------------------------------------------
CallerStates == {"loop", "dispatch", "wait", "checked", "blocked", "drain"}

\* Deadlines lie at most one interval ahead, ages within what is compared, and
\* tasks are only in hand while they are being handed out.
TypeOK ==
    /\ deadline \in [Tasks -> Int]
    /\ force_age \in [Tasks -> Nat]
    /\ run_age \in [Tasks -> Nat]
    /\ forced_age \in [Tasks -> Nat]
    /\ \A t \in Tasks :
          /\ deadline[t] \in -MaxLate .. effective_interval(t)
          /\ force_age[t] <= ForceHorizon(t)
          /\ run_age[t] <= effective_interval(t)
          /\ forced_age[t] <= ForceHorizon(t)
    /\ caller \in CallerStates
    /\ due \subseteq [task : Tasks, force : BOOLEAN]
    /\ due # {} => caller = "dispatch"
    /\ stop \in BOOLEAN
    /\ notified \in BOOLEAN

\* A step of pop_all_due that runs t.
Runs(t) == t \in Due /\ caller = "loop" /\ caller' = "dispatch"

\* Two runs of a task are at least its update interval apart, however late the
\* loop got to the first one, so that lateness causes no burst of catch-up
\* runs; and two forced runs are at least force_update apart.
SpacingKept ==
    [][\A t \in Tasks :
          Runs(t) =>
              /\ run_age[t] >= effective_interval(t)
              /\ [task |-> t, force |-> TRUE] \in due' => forced_age[t] >= ForceUpdate[t]]_schedVars

(***************************************************************************)
(* A forced run is never put off by more than one update interval: the     *)
(* queue never holds an unforced run of t so that the next one comes       *)
(* force_update plus an interval, or more, after the last forced one.      *)
(***************************************************************************)
ForceNotStarved ==
    \A t \in Tasks :
        ForceUpdate[t] > 0 /\ deadline[t] > 0 => forced_age[t] + deadline[t] < ForceHorizon(t)

\* wait_for_next() returns true only when a task is due: the loop of
\* Manager::run does not spin.
NoBusyLoop == caller = "loop" /\ Tasks # {} /\ ~stop => Due # {}

\* Every task runs again and again until stop is requested.
EveryTaskRuns == \A t \in Tasks : []<>(run_age[t] = 0) \/ <>stop

(***************************************************************************)
(* "Block until the nearest task deadline is reached or stop is requested" *)
(* (scheduler.h:51): when request_stop() has returned, its callbacks       *)
(* included, nobody sleeps on towards a deadline.                          *)
(***************************************************************************)
NoLostWakeup == notified /\ Due = {} => caller # "blocked"
=============================================================================
