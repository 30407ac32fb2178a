---------------------------- MODULE ManagerProofs ----------------------------
(***************************************************************************)
(* Proofs about the timer queue, for any tasks and any intervals that the  *)
(* configuration validator accepts, and about the running daemon, for any  *)
(* workers and addresses: it is a Scheduler, so that whatever is proved of *)
(* the timer queue holds of it, and run() returns with an idle pool.       *)
(***************************************************************************)
EXTENDS Manager, WellFoundedInduction, TLAPS

(***************************************************************************)
(* The timer queue                                                         *)
(***************************************************************************)
\* The intervals in effect are positive: no entry that pop_all_due re-queues is
\* due again at once, so its loop ends.
LEMMA IntervalPositive ==
    \A t \in Tasks : effective_interval(t) \in Nat \ {0}
  <1> TAKE t \in Tasks
  <1>1. /\ MinInterval \in Nat \ {0} /\ DomainInterval[t] \in Nat /\ SubInterval[t] \in Nat
        /\ DomainInterval[t] >= MinInterval
    BY ScheduleAssumption DEF valid_intervals
  <1> QED
    BY <1>1 DEF effective_interval

\* While a deadline lies ahead, the last run and it are an interval apart.
RunAgeInv ==
    \A t \in Tasks :
        run_age[t] = effective_interval(t) \/ run_age[t] + deadline[t] >= effective_interval(t)

\* last_force_update is the time of the last forced run.
ForceAgeInv ==
    \A t \in Tasks : ForceUpdate[t] > 0 => force_age[t] = forced_age[t]

IInv ==
    /\ TypeOK
    /\ RunAgeInv
    /\ ForceAgeInv
    /\ ForceNotStarved
    /\ NoBusyLoop

\* The initial state satisfies the invariant.
LEMMA InitIInv == Init => IInv
  <1> SUFFICES ASSUME Init PROVE IInv
    OBVIOUS
  <1> USE IntervalPositive, ScheduleAssumption DEF valid_intervals, Init
  <1>1. stop \in BOOLEAN /\ notified \in BOOLEAN
    BY Zenon
  <1>2. TypeOK
    BY <1>1 DEF TypeOK, CallerStates, ForceHorizon
  <1>3. RunAgeInv /\ ForceAgeInv /\ ForceNotStarved /\ NoBusyLoop
    BY DEF RunAgeInv, ForceAgeInv, ForceNotStarved, NoBusyLoop, Due
  <1> QED
    BY <1>2, <1>3 DEF IInv

\* pop_all_due re-queues every entry it takes out and keeps the ages in step.
LEMMA PopStep == IInv /\ PopAllDue => IInv'
  <1> SUFFICES ASSUME IInv, PopAllDue PROVE IInv'
    OBVIOUS
  <1> USE IntervalPositive, ScheduleAssumption DEF valid_intervals, IInv, PopAllDue, Due, next_deadline, next_force_age
  <1>1. due' \subseteq [task : Tasks, force : BOOLEAN]
    <2> SUFFICES ASSUME NEW t \in Tasks
                 PROVE  [task |-> t, force |-> check_force_update(t)] \in [task : Tasks, force : BOOLEAN]
      OBVIOUS
    <2>1. check_force_update(t) \in BOOLEAN
      BY Zenon DEF check_force_update
    <2> QED
      BY <2>1
  <1>2. TypeOK'
    BY <1>1 DEF TypeOK, CallerStates, ForceHorizon
  <1>3. RunAgeInv' /\ ForceAgeInv'
    BY DEF TypeOK, RunAgeInv, ForceAgeInv
  <1>4. ForceNotStarved'
    BY DEF TypeOK, ForceAgeInv, ForceNotStarved, ForceHorizon, check_force_update
  <1>5. NoBusyLoop'
    BY DEF NoBusyLoop
  <1> QED
    BY <1>2, <1>3, <1>4, <1>5

\* Time brings deadlines closer as it ages what happened.
LEMMA TickStep == IInv /\ Tick => IInv'
  <1> SUFFICES ASSUME IInv, Tick PROVE IInv'
    OBVIOUS
  <1> USE IntervalPositive, ScheduleAssumption DEF valid_intervals, IInv, Tick, Lesser, Greater, ForceHorizon
  <1>1. TypeOK'
    BY DEF TypeOK
  <1>2. RunAgeInv' /\ ForceAgeInv'
    BY DEF TypeOK, RunAgeInv, ForceAgeInv
  <1>3. ForceNotStarved'
    BY DEF TypeOK, ForceNotStarved
  <1>4. NoBusyLoop'
    BY DEF TypeOK, NoBusyLoop, Due
  <1> QED
    BY <1>1, <1>2, <1>3, <1>4

\* The other steps leave deadlines and ages alone.
LEMMA ControlStep ==
    ASSUME IInv, UNCHANGED entryVars, TypeOK', NoBusyLoop'
    PROVE  IInv'
  BY DEF IInv, entryVars, RunAgeInv, ForceAgeInv, ForceNotStarved, ForceHorizon

\* Every step preserves the invariant.
LEMMA NextIInv == IInv /\ [Next]_schedVars => IInv'
  <1> SUFFICES ASSUME IInv, [Next]_schedVars PROVE IInv'
    OBVIOUS
  <1>1. CASE PopAllDue
    BY <1>1, PopStep
  <1>2. CASE Tick
    BY <1>2, TickStep
  <1>3. CASE LeaveLoop \/ AllDispatched \/ CheckStop \/ Block \/ Timeout \/ SpuriousWakeup
    <2>1. UNCHANGED <<entryVars, due, stop, notified>>
      BY <1>3 DEF LeaveLoop, AllDispatched, CheckStop, Block, Timeout, SpuriousWakeup
    <2>2. TypeOK'
      BY <1>3, <2>1 DEF IInv, TypeOK, entryVars, CallerStates, LeaveLoop, AllDispatched, CheckStop,
                        Block, Timeout, SpuriousWakeup
    <2>3. NoBusyLoop'
      BY <1>3, <2>1 DEF IInv, NoBusyLoop, Due, entryVars, LeaveLoop, AllDispatched, CheckStop,
                        Block, Timeout, SpuriousWakeup
    <2> QED
      BY <2>1, <2>2, <2>3, ControlStep
  <1>4. ASSUME NEW d \in due, Dispatch(d) PROVE IInv'
    <2>1. TypeOK' /\ NoBusyLoop'
      BY <1>4 DEF IInv, TypeOK, NoBusyLoop, Due, entryVars, Dispatch
    <2> QED
      BY <1>4, <2>1, ControlStep DEF Dispatch
  <1>5. CASE RequestStop \/ NotifyAll
    <2>1. UNCHANGED entryVars
      BY <1>5 DEF RequestStop, NotifyAll
    <2>2. stop' \in BOOLEAN /\ notified' \in BOOLEAN
      BY <1>5, Zenon DEF RequestStop, NotifyAll, IInv, TypeOK
    <2>3. due' = due /\ caller' \in CallerStates /\ (caller = "dispatch" => caller' = "dispatch")
      BY <1>5 DEF RequestStop, NotifyAll, IInv, TypeOK, CallerStates
    <2>4. TypeOK'
      BY <2>1, <2>2, <2>3 DEF IInv, TypeOK, entryVars
    <2>5. caller' = "loop" => caller = "loop"
      BY <1>5 DEF RequestStop, NotifyAll
    <2>6. ~stop' => ~stop
      BY <1>5, Zenon DEF RequestStop, NotifyAll
    <2>7. NoBusyLoop'
      BY <2>1, <2>5, <2>6 DEF IInv, NoBusyLoop, Due, entryVars
    <2> QED
      BY <2>1, <2>4, <2>7, ControlStep
  <1>6. CASE UNCHANGED schedVars
    <2>1. TypeOK' /\ NoBusyLoop' /\ UNCHANGED entryVars
      BY <1>6 DEF IInv, TypeOK, NoBusyLoop, Due, schedVars, entryVars
    <2> QED
      BY <2>1, ControlStep
  <1> QED
    BY <1>1, <1>2, <1>3, <1>4, <1>5, <1>6 DEF Next, Loop, Wait

\* The inductive invariant holds in every reachable state.
THEOREM Invariance == Spec => []IInv
  BY InitIInv, NextIInv, PTL DEF Spec

\* Deadlines stay within one interval and ages within what the code compares.
THEOREM TypeCorrect == Spec => []TypeOK
  <1>1. IInv => TypeOK
    BY DEF IInv
  <1> QED
    BY <1>1, Invariance, PTL

\* A forced update is put off by less than one update interval.
THEOREM ForceUpdatesComeInTime == Spec => []ForceNotStarved
  <1>1. IInv => ForceNotStarved
    BY DEF IInv
  <1> QED
    BY <1>1, Invariance, PTL

\* The loop of Manager::run goes round only when there is work.
THEOREM NoSpinning == Spec => []NoBusyLoop
  <1>1. IInv => NoBusyLoop
    BY DEF IInv
  <1> QED
    BY <1>1, Invariance, PTL

\* No task runs twice within its update interval, nor is forced twice within its
\* force interval, however late the loop gets to it.
THEOREM RunsAreSpaced == Spec => SpacingKept
  <1>1. ASSUME IInv, NEW t \in Tasks, Runs(t)
        PROVE  run_age[t] >= effective_interval(t)
    BY <1>1, IntervalPositive DEF IInv, TypeOK, RunAgeInv, Runs, Due
  <1>2. ASSUME IInv, Next, NEW t \in Tasks, Runs(t), [task |-> t, force |-> TRUE] \in due'
        PROVE  forced_age[t] >= ForceUpdate[t]
    <2>1. PopAllDue
      BY <1>2 DEF Runs, Next, Loop, Wait, LeaveLoop, Dispatch, AllDispatched, CheckStop, Block,
                  Timeout, SpuriousWakeup, RequestStop, NotifyAll, Tick
    <2>2. check_force_update(t)
      BY <1>2, <2>1 DEF PopAllDue
    <2> QED
      BY <1>2, <2>2, ScheduleAssumption DEF valid_intervals, IInv, TypeOK, ForceAgeInv, check_force_update
  <1>3. IInv /\ [Next]_schedVars =>
          [\A t \in Tasks :
              Runs(t) =>
                  /\ run_age[t] >= effective_interval(t)
                  /\ [task |-> t, force |-> TRUE] \in due' => forced_age[t] >= ForceUpdate[t]]_schedVars
    BY <1>1, <1>2
  <1> QED
    BY <1>3, Invariance, PTL DEF SpacingKept, Spec

-----------------------------------------------------------------------------
(***************************************************************************)
(* The daemon                                                              *)
(***************************************************************************)
\* Every step of the daemon is a step of the scheduler or leaves it alone.
LEMMA StepIsSchedulerStep == [ManagerNext]_vars => [Next]_schedVars
  <1> SUFFICES ASSUME [ManagerNext]_vars PROVE [Next]_schedVars
    OBVIOUS
  <1>1. CASE RunLoop
    BY <1>1 DEF RunLoop, Next, Loop
  <1>2. ASSUME NEW d \in due, Submit(d) PROVE [Next]_schedVars
    BY <1>2 DEF Submit, Next, Loop
  <1>3. CASE Drain
    BY <1>3 DEF Drain
  <1>4. ASSUME NEW w \in Workers, process(w) PROVE [Next]_schedVars
    BY <1>4 DEF process, Take, ResolveLocal, Lookup, Execute
  <1>5. ASSUME NEW t \in Tasks, AddressChange(t) PROVE [Next]_schedVars
    BY <1>5 DEF AddressChange
  <1>6. CASE Heal
    BY <1>6 DEF Heal
  <1>7. CASE Clock
    BY <1>7 DEF Clock, Next
  <1>8. CASE StopSource
    BY <1>8 DEF StopSource, Next
  <1>9. CASE UNCHANGED vars
    BY <1>9 DEF vars
  <1> QED
    BY <1>1, <1>2, <1>3, <1>4, <1>5, <1>6, <1>7, <1>8, <1>9 DEF ManagerNext, Run

\* The daemon implements the scheduler.
THEOREM ImplementsScheduler == ManagerSpec => Spec
  <1>1. ManagerInit => Init
    BY DEF ManagerInit
  <1> QED
    BY <1>1, StepIsSchedulerStep, PTL DEF ManagerSpec, Spec

\* In the daemon, too, a task is not run twice within its update interval.
THEOREM DaemonRunsAreSpaced == ManagerSpec => SpacingKept
  BY ImplementsScheduler, RunsAreSpaced, PTL

-----------------------------------------------------------------------------
\* run() returns only after its loop has ended, and the pool is idle then.
DrainInv == returned => caller = "drain" /\ PoolIsIdle

\* Nothing reaches the pool once the loop has ended.
LEMMA DrainStep == DrainInv /\ [ManagerNext]_vars => DrainInv'
  <1> SUFFICES ASSUME DrainInv, [ManagerNext]_vars, returned' PROVE caller' = "drain" /\ PoolIsIdle'
    BY DEF DrainInv
  <1>1. CASE Drain
    BY <1>1 DEF Drain, PoolIsIdle, schedVars
  <1>2. CASE ~Drain
    <2>1. returned
      BY <1>2 DEF ManagerNext, Run, RunLoop, Submit, process, Take, ResolveLocal, Lookup, Execute,
                  AddressChange, Heal, Clock, StopSource, vars, poolVars
    <2>2. caller = "drain" /\ PoolIsIdle
      BY <2>1 DEF DrainInv
    <2>3. ASSUME NEW d \in due, Submit(d) PROVE FALSE
      BY <2>2, <2>3 DEF Submit, Dispatch
    <2>4. ASSUME NEW w \in Workers, process(w) PROVE FALSE
      BY <2>2, <2>4 DEF PoolIsIdle, process, Take, ResolveLocal, Lookup, Execute
    <2>5. UNCHANGED <<jobs, worker>>
      BY <1>2, <2>3, <2>4 DEF ManagerNext, Run, RunLoop, AddressChange, Heal, Clock, StopSource,
                              vars, poolVars
    <2>6. caller' = "drain"
      BY <1>2, <2>2, <2>3, <2>4
         DEF ManagerNext, Run, RunLoop, AddressChange, Heal, Clock, StopSource, vars, schedVars,
             PopAllDue, LeaveLoop, AllDispatched, Wait, CheckStop, Block, Timeout, SpuriousWakeup,
             RequestStop, NotifyAll, Tick
    <2> QED
      BY <2>2, <2>5, <2>6 DEF PoolIsIdle
  <1> QED
    BY <1>1, <1>2

\* When Manager::run has returned no job is queued or running.
THEOREM DrainedWhenReturned == ManagerSpec => []DrainedAtReturn
  <1>1. ManagerInit => DrainInv
    BY DEF ManagerInit, DrainInv
  <1>2. DrainInv => DrainedAtReturn
    BY DEF DrainInv, DrainedAtReturn
  <1> QED
    BY <1>1, <1>2, DrainStep, PTL DEF ManagerSpec

-----------------------------------------------------------------------------
(* Only permitted addresses are published *)

Address == [class : Classes, id : Nat]

\* What each thread of the pool may be doing, with the values it holds.
Resolving  == [pc : {"resolve"}, job : Job]
Publishing == [pc : {"lookup", "execute"}, job : Job, ip : Address]

ManagerType ==
    /\ due \subseteq [task : Tasks, force : BOOLEAN]
    /\ jobs \in Seq(Job)
    /\ worker \in [Workers -> {Idle} \cup Resolving \cup Publishing]
    /\ candidates \in [Tasks \ NoDriver -> CandidateLists]
    /\ record \in [Tasks -> Address \cup {None}]

\* The owner of task t allows address a.
Allowed(t, a) ==
    Kind[t] = "AAAA" => /\ a.class = "link_local" => t \in AllowLocalLink
                        /\ a.class = "ula" => t \in AllowUla

\* The address that a worker is about to publish is one that passed the filter.
AllowedInHand ==
    \A w \in Workers : worker[w].pc \in {"lookup", "execute"} => Allowed(worker[w].job.task, worker[w].ip)

PublishInv == ManagerType /\ AllowedInHand /\ OnlyPermittedPublished

LEMMA SmallestPosition ==
    ASSUME NEW T, T \subseteq Nat, T # {}
    PROVE  Min(T) \in T
  <1>1. PICK x \in T : \A y \in T : ~ (<<y, x>> \in OpToRel(<, Nat))
    BY WFMin, NatLessThanWellFounded
  <1>2. ASSUME NEW y \in T PROVE x <= y
    <2>1. x \in Nat /\ y \in Nat
      OBVIOUS
    <2>2. ~(y < x)
      <3> SUFFICES ASSUME y < x PROVE <<y, x>> \in OpToRel(<, Nat)
        BY <1>1, Zenon
      <3> QED
        BY <2>1 DEF OpToRel
    <2> QED
      BY <2>1, <2>2
  <1> QED
    BY <1>2 DEF Min

\* resolve_local_address finds nothing, or one of the candidates that is allowed.
LEMMA ResolvedIsAllowed ==
    ASSUME NEW t \in Tasks, NEW found \in CandidateLists,
           resolve_local_address(found, t) # None
    PROVE  resolve_local_address(found, t) \in Address /\ Allowed(t, resolve_local_address(found, t))
  <1> DEFINE kept == IF Kind[t] = "AAAA" THEN filter_ipv6_candidates(found, t) ELSE found
             ip   == resolve_local_address(found, t)
  <1>1. found \in Seq(Address)
    BY ManagerAssumption DEF Address
  <1>2. /\ DOMAIN kept \subseteq DOMAIN found
        /\ \A i \in DOMAIN kept : kept[i] = found[i] /\ Allowed(t, found[i])
    <2>1. CASE Kind[t] = "AAAA"
      BY <2>1 DEF filter_ipv6_candidates, RestrictValues, Restrict, Allowed, is_link_local, is_ula
    <2>2. CASE Kind[t] # "AAAA"
      BY <2>2 DEF Allowed
    <2> QED
      BY <2>1, <2>2
  <1>3. DOMAIN kept # {} /\ ip = kept[Min(DOMAIN kept)]
    BY DEF resolve_local_address
  <1>4. DOMAIN kept \subseteq Nat
    BY <1>1, <1>2
  <1> HIDE DEF kept
  <1>5. Min(DOMAIN kept) \in DOMAIN kept
    BY <1>3, <1>4, SmallestPosition
  <1> QED
    BY <1>1, <1>2, <1>3, <1>5

\* What the place of a worker says about the values it holds.
LEMMA WorkerFields ==
    ASSUME ManagerType, NEW w \in Workers
    PROVE  /\ worker[w].pc = "resolve" => worker[w] \in Resolving
           /\ worker[w].pc \in {"lookup", "execute"} => worker[w] \in Publishing
  BY DEF ManagerType, Idle, Resolving, Publishing

\* A step of the loop leaves the workers and the world alone.
LEMMA LoopPublishesNothing ==
    ASSUME PublishInv, due' \subseteq [task : Tasks, force : BOOLEAN], jobs' \in Seq(Job),
           UNCHANGED <<worker, candidates, record>>
    PROVE  PublishInv'
  BY DEF PublishInv, ManagerType, AllowedInHand, OnlyPermittedPublished

\* A worker that takes up something that is allowed, or nothing.
LEMMA WorkerMoves ==
    ASSUME PublishInv, NEW w \in Workers, NEW now \in {Idle} \cup Resolving \cup Publishing,
           worker' = [worker EXCEPT ![w] = now],
           now.pc \in {"lookup", "execute"} => Allowed(now.job.task, now.ip),
           jobs' \in Seq(Job),
           UNCHANGED <<due, candidates, record>>
    PROVE  PublishInv'
  <1>1. ManagerType'
    BY DEF PublishInv, ManagerType
  <1>2. worker'[w] = now /\ \A v \in Workers \ {w} : worker'[v] = worker[v]
    BY DEF PublishInv, ManagerType
  <1>3. AllowedInHand'
    BY <1>2 DEF PublishInv, AllowedInHand
  <1> QED
    BY <1>1, <1>3 DEF PublishInv, OnlyPermittedPublished

LEMMA ProcessKeeps ==
    ASSUME PublishInv, NEW w \in Workers, process(w) PROVE PublishInv'
  <1>0. Idle.pc = "idle" /\ due \subseteq [task : Tasks, force : BOOLEAN] /\ jobs \in Seq(Job)
    BY DEF Idle, PublishInv, ManagerType
  <1>1. CASE Take(w)
    <2> DEFINE now == [pc |-> "resolve", job |-> Head(jobs)]
    <2>1. Head(jobs) \in Job /\ Tail(jobs) \in Seq(Job)
      BY <1>1 DEF Take, PublishInv, ManagerType
    <2>2. now \in Resolving /\ now.pc = "resolve"
      BY <2>1 DEF Resolving
    <2>3. worker' = [worker EXCEPT ![w] = now] /\ jobs' = Tail(jobs)
      BY <1>1 DEF Take
    <2>4. UNCHANGED <<due, candidates, record>>
      BY <1>1 DEF Take, schedVars, worldVars
    <2> HIDE DEF now
    <2> QED
      BY <2>1, <2>2, <2>3, <2>4, WorkerMoves
  <1>2. CASE ResolveLocal(w)
    <2> DEFINE job == worker[w].job
               ip  == resolve_local_address(candidates[job.task], job.task)
               now == [pc |-> IF job.force THEN "execute" ELSE "lookup", job |-> job, ip |-> ip]
    <2>1. worker[w] \in Resolving
      BY <1>2, WorkerFields DEF ResolveLocal, PublishInv
    <2>2. job \in Job /\ candidates[job.task] \in CandidateLists
      BY <2>1 DEF Resolving, Job, PublishInv, ManagerType
    <2>3. UNCHANGED <<due, jobs, candidates, record>>
      BY <1>2 DEF ResolveLocal, schedVars, worldVars
    <2>4. CASE ip # None /\ worker' = [worker EXCEPT ![w] = now]
      <3>1. ip \in Address /\ Allowed(job.task, ip)
        BY <2>2, <2>4, ResolvedIsAllowed DEF Job
      <3>2. now \in Publishing
        BY <2>2, <3>1 DEF Publishing
      <3>3. now.job = job /\ now.ip = ip
        OBVIOUS
      <3> HIDE DEF now, ip, job
      <3> QED
        BY <1>0, <2>3, <2>4, <3>1, <3>2, <3>3, WorkerMoves
    <2>5. CASE worker' = [worker EXCEPT ![w] = Idle]
      BY <1>0, <2>3, <2>5, WorkerMoves
    <2> QED
      BY <1>2, <2>4, <2>5 DEF ResolveLocal
  <1>3. CASE Lookup(w)
    <2> DEFINE now == [worker[w] EXCEPT !.pc = "execute"]
    <2>1. worker[w] \in Publishing /\ Allowed(worker[w].job.task, worker[w].ip)
      BY <1>3, WorkerFields DEF Lookup, PublishInv, AllowedInHand
    <2>2. now \in Publishing /\ now.job = worker[w].job /\ now.ip = worker[w].ip
      BY <2>1 DEF Publishing
    <2>3. UNCHANGED <<due, jobs, candidates, record>>
      BY <1>3 DEF Lookup, schedVars, worldVars
    <2>4. \/ worker' = [worker EXCEPT ![w] = Idle]
          \/ worker' = [worker EXCEPT ![w] = now]
      BY <1>3 DEF Lookup, PublishInv, ManagerType
    <2> HIDE DEF now
    <2> QED
      BY <1>0, <2>1, <2>2, <2>3, <2>4, WorkerMoves
  <1>4. CASE Execute(w)
    <2> DEFINE t == worker[w].job.task
    <2>1. worker[w] \in Publishing /\ Allowed(t, worker[w].ip)
      BY <1>4, WorkerFields DEF Execute, PublishInv, AllowedInHand
    <2>2. t \in Tasks /\ worker[w].ip \in Address
      BY <2>1 DEF Publishing, Job
    <2>3. /\ worker' = [worker EXCEPT ![w] = Idle]
          /\ record' = record \/ record' = [record EXCEPT ![t] = worker[w].ip]
          /\ UNCHANGED <<due, jobs, candidates>>
      BY <1>4 DEF Execute, schedVars
    <2>4. record' \in [Tasks -> Address \cup {None}]
      BY <2>2, <2>3 DEF PublishInv, ManagerType
    <2>5. ManagerType'
      BY <2>3, <2>4 DEF PublishInv, ManagerType
    <2>6. worker'[w] = Idle /\ \A v \in Workers \ {w} : worker'[v] = worker[v]
      BY <2>3 DEF PublishInv, ManagerType
    <2>7. AllowedInHand'
      BY <1>0, <2>6 DEF PublishInv, AllowedInHand
    <2>8. OnlyPermittedPublished'
      BY <2>1, <2>2, <2>3 DEF PublishInv, ManagerType, OnlyPermittedPublished, Allowed
    <2> QED
      BY <2>5, <2>7, <2>8 DEF PublishInv
  <1> QED
    BY <1>1, <1>2, <1>3, <1>4 DEF process

LEMMA PublishStep == PublishInv /\ [ManagerNext]_vars => PublishInv'
  <1> SUFFICES ASSUME PublishInv, [ManagerNext]_vars PROVE PublishInv'
    OBVIOUS
  <1>0. due \subseteq [task : Tasks, force : BOOLEAN] /\ jobs \in Seq(Job)
    BY DEF PublishInv, ManagerType
  <1>1. ASSUME due' \subseteq due, UNCHANGED <<jobs, worker, candidates, record>> PROVE PublishInv'
    BY <1>0, <1>1, LoopPublishesNothing
  <1>2. CASE PopAllDue /\ UNCHANGED <<poolVars, worldVars>>
    <2>1. due' \subseteq [task : Tasks, force : BOOLEAN]
      <3>1. \A t \in Tasks : check_force_update(t) \in BOOLEAN
        BY DEF check_force_update
      <3> QED
        BY <1>2, <3>1 DEF PopAllDue, Due
    <2> QED
      BY <1>0, <1>2, <2>1, LoopPublishesNothing DEF poolVars, worldVars
  <1>3. CASE RunLoop
    BY <1>1, <1>2, <1>3 DEF RunLoop, LeaveLoop, AllDispatched, Wait, CheckStop, Block, Timeout,
                            poolVars, worldVars
  <1>4. ASSUME NEW d \in due, Submit(d) PROVE PublishInv'
    <2>1. d \in [task : Tasks, force : BOOLEAN]
      BY <1>0
    <2>2. jobs' \in Seq(Job)
      <3>1. CASE d.task \in NoDriver
        BY <1>0, <1>4, <3>1 DEF Submit
      <3>2. CASE d.task \notin NoDriver
        <4>1. d \in Job
          BY <2>1, <3>2 DEF Job
        <4> QED
          BY <1>0, <1>4, <3>2, <4>1 DEF Submit
      <3> QED
        BY <3>1, <3>2
    <2>3. due' \subseteq [task : Tasks, force : BOOLEAN] /\ UNCHANGED <<worker, candidates, record>>
      BY <1>0, <1>4 DEF Submit, Dispatch, worldVars
    <2> QED
      BY <2>2, <2>3, LoopPublishesNothing
  <1>5. CASE Drain
    BY <1>1, <1>5 DEF Drain, schedVars, worldVars
  <1>6. ASSUME NEW t \in Tasks \ NoDriver, AddressChange(t) PROVE PublishInv'
    BY <1>6 DEF AddressChange, schedVars, poolVars, PublishInv, ManagerType, AllowedInHand,
                OnlyPermittedPublished
  <1>7. CASE Heal \/ Clock
    BY <1>1, <1>7 DEF Heal, Clock, Tick, schedVars, poolVars, worldVars
  <1>8. CASE StopSource
    BY <1>1, <1>8 DEF StopSource, RequestStop, NotifyAll, SpuriousWakeup, poolVars, worldVars
  <1>9. CASE UNCHANGED vars
    BY <1>1, <1>9 DEF vars, schedVars, poolVars, worldVars
  <1> QED
    BY <1>3, <1>4, <1>5, <1>6, <1>7, <1>8, <1>9, ProcessKeeps DEF ManagerNext, Run

\* The provider never receives an address that its owner has excluded, for any
\* tasks, any number of workers and any lists of candidates.
THEOREM NothingForbiddenIsPublished == ManagerSpec => []OnlyPermittedPublished
  <1>1. ManagerInit => PublishInv
    <2> SUFFICES ASSUME ManagerInit PROVE PublishInv
      OBVIOUS
    <2>1. ManagerType
      BY DEF ManagerInit, Init, ManagerType
    <2>2. \A w \in Workers : worker[w].pc = "idle"
      BY DEF ManagerInit, Idle
    <2> QED
      BY <2>1, <2>2 DEF ManagerInit, PublishInv, AllowedInHand, OnlyPermittedPublished
  <1>2. PublishInv => OnlyPermittedPublished
    BY DEF PublishInv
  <1> QED
    BY <1>1, <1>2, PublishStep, PTL DEF ManagerSpec
=============================================================================
