------------------------------- MODULE Manager -------------------------------
(***************************************************************************)
(* The running daemon: the loop of Manager::Impl::run hands the tasks that *)
(* are due to a thread pool, and each worker runs Updater::Impl::process,  *)
(* which reads the local address, compares it with the DNS record and      *)
(* calls the provider's driver.  The world outside - the interfaces, the   *)
(* DNS and the provider - changes and fails as it likes until it heals.    *)
(***************************************************************************)
EXTENDS Scheduler, Sequences, FiniteSetsExt

CONSTANTS Workers,         \* the threads of BS::thread_pool
          Kind,            \* record type of each task: "A" or "AAAA"
          AllowLocalLink,  \* tasks with allow_local_link
          AllowUla,        \* tasks with allow_ula
          NoDriver,        \* tasks whose driver is not loaded
          CandidateLists,  \* what an IP source may find, sequences of addresses
          MaxBacklog       \* bound: time stands still while more jobs are queued

\* No address, or no DNS record.
None == [class |-> "none", id |-> 0]

Classes   == {"global", "link_local", "ula"}
Addresses == UNION {{c[i] : i \in DOMAIN c} : c \in CandidateLists}

ASSUME ManagerAssumption ==
    /\ Kind \in [Tasks -> {"A", "AAAA"}]
    /\ AllowLocalLink \subseteq Tasks
    /\ AllowUla \subseteq Tasks
    /\ NoDriver \subseteq Tasks
    /\ \A c \in CandidateLists : c \in Seq([class : Classes, id : Nat])
    /\ MaxBacklog \in Nat

VARIABLES
    jobs,        \* the pool's queue
    worker,      \* what each pool thread is doing, and the values it holds
    returned,    \* Manager::run has returned
    candidates,  \* what the IP source of each task with a driver finds
    record,      \* the address each task's DNS record holds
    healthy      \* the world has stopped changing and failing

poolVars  == <<jobs, worker, returned>>
worldVars == <<candidates, record, healthy>>
vars      == <<schedVars, poolVars, worldVars>>

Idle == [pc |-> "idle"]

ManagerInit ==
    /\ Init
    /\ jobs = <<>>
    /\ worker = [w \in Workers |-> Idle]
    /\ returned = FALSE
    /\ candidates \in [Tasks \ NoDriver -> CandidateLists]
    /\ record = [t \in Tasks |-> None]
    /\ healthy = FALSE

-----------------------------------------------------------------------------
(* Manager::Impl::run *)

\* detach_task, or nothing when get_driver throws DriverNotFoundException.
Submit(d) ==
    /\ Dispatch(d)
    /\ jobs' = IF d.task \in NoDriver THEN jobs ELSE Append(jobs, d)
    /\ UNCHANGED <<worker, returned, worldVars>>

\* The steps of the loop that hand nothing to the pool.
RunLoop ==
    /\ PopAllDue \/ LeaveLoop \/ AllDispatched \/ Wait
    /\ UNCHANGED <<poolVars, worldVars>>

PoolIsIdle == jobs = <<>> /\ \A w \in Workers : worker[w].pc = "idle"

\* Mutant: the pool is not waited for.
DrainSkipped ==
    /\ caller = "drain"
    /\ ~returned
    /\ returned' = TRUE
    /\ UNCHANGED <<schedVars, jobs, worker, worldVars>>

\* thread_pool_.wait(): run() returns and the members are destroyed.
Drain ==
    /\ caller = "drain"
    /\ ~returned
    /\ PoolIsIdle
    /\ returned' = TRUE
    /\ UNCHANGED <<schedVars, jobs, worker, worldVars>>

-----------------------------------------------------------------------------
(* Updater::Impl::process, on a thread of the pool *)

is_link_local(a) == a.class = "link_local"
is_ula(a)        == a.class = "ula"

\* Mutant: unique-local addresses are kept.
filter_link_local_only(found, t) ==
    RestrictValues(found, LAMBDA a : is_link_local(a) => t \in AllowLocalLink)

\* What is kept stays at its position in the list.
filter_ipv6_candidates(found, t) ==
    RestrictValues(found, LAMBDA a : /\ is_link_local(a) => t \in AllowLocalLink
                                     /\ is_ula(a) => t \in AllowUla)

\* The first candidate that is left, if any.
resolve_local_address(found, t) ==
    LET kept == IF Kind[t] = "AAAA" THEN filter_ipv6_candidates(found, t) ELSE found
    IN  IF DOMAIN kept = {} THEN None ELSE kept[Min(DOMAIN kept)]

\* A pool thread takes the oldest job.
Take(w) ==
    /\ worker[w].pc = "idle"
    /\ jobs # <<>>
    /\ jobs' = Tail(jobs)
    /\ worker' = [worker EXCEPT ![w] = [pc |-> "resolve", job |-> Head(jobs)]]
    /\ UNCHANGED <<schedVars, returned, worldVars>>

\* Mutant: an address once found is never looked for again.
ResolveLocalOnce(w) ==
    LET job == worker[w].job
        ip  == IF record[job.task] # None THEN record[job.task]
               ELSE resolve_local_address(candidates[job.task], job.task)
    IN  /\ worker[w].pc = "resolve"
        /\ \/ /\ ip # None
              /\ worker' = [worker EXCEPT ![w] =
                    [pc |-> IF job.force THEN "execute" ELSE "lookup", job |-> job, ip |-> ip]]
           \/ /\ ip = None \/ ~healthy
              /\ worker' = [worker EXCEPT ![w] = Idle]
        /\ UNCHANGED <<schedVars, jobs, returned, worldVars>>

\* Step 1: the local address.  The source may fail or throw; without an
\* address the update is skipped.
ResolveLocal(w) ==
    LET job == worker[w].job
        ip  == resolve_local_address(candidates[job.task], job.task)
    IN  /\ worker[w].pc = "resolve"
        /\ \/ /\ ip # None
              /\ worker' = [worker EXCEPT ![w] =
                    [pc |-> IF job.force THEN "execute" ELSE "lookup", job |-> job, ip |-> ip]]
           \/ /\ ip = None \/ ~healthy
              /\ worker' = [worker EXCEPT ![w] = Idle]
        /\ UNCHANGED <<schedVars, jobs, returned, worldVars>>

\* first == local_ip->to_string(); no records (or a failed lookup) is no match.
Unchanged(first, ip) == first = ip

\* Step 2: skip if unchanged.  The answer may be out of date or missing.
Lookup(w) ==
    /\ worker[w].pc = "lookup"
    /\ \E first \in Addresses \cup {None} :
          /\ healthy => first = record[worker[w].job.task]
          /\ worker' = IF Unchanged(first, worker[w].ip)
                       THEN [worker EXCEPT ![w] = Idle]
                       ELSE [worker EXCEPT ![w].pc = "execute"]
    /\ UNCHANGED <<schedVars, jobs, returned, worldVars>>

\* Step 4: driver.execute.  A failure may be a lost answer to an update that
\* the provider has carried out; exceptions end at Updater::process.
Execute(w) ==
    LET t == worker[w].job.task IN
    /\ worker[w].pc = "execute"
    /\ \/ record' = [record EXCEPT ![t] = worker[w].ip]
       \/ ~healthy /\ UNCHANGED record
    /\ worker' = [worker EXCEPT ![w] = Idle]
    /\ UNCHANGED <<schedVars, jobs, returned, candidates, healthy>>

process(w) == Take(w) \/ ResolveLocal(w) \/ Lookup(w) \/ Execute(w)

-----------------------------------------------------------------------------
(* The outside world, the stop source and the clock. *)

AddressChange(t) ==
    /\ ~healthy
    /\ \E c \in CandidateLists \ {candidates[t]} : candidates' = [candidates EXCEPT ![t] = c]
    /\ UNCHANGED <<schedVars, poolVars, record, healthy>>

Heal ==
    /\ ~healthy
    /\ healthy' = TRUE
    /\ UNCHANGED <<schedVars, poolVars, candidates, record>>

Clock ==
    /\ Tick
    /\ Len(jobs) <= MaxBacklog
    /\ UNCHANGED <<poolVars, worldVars>>

StopSource ==
    /\ RequestStop \/ NotifyAll \/ SpuriousWakeup
    /\ UNCHANGED <<poolVars, worldVars>>

-----------------------------------------------------------------------------
Run == RunLoop \/ (\E d \in due : Submit(d)) \/ Drain

ManagerNext ==
    \/ Run
    \/ \E w \in Workers : process(w)
    \/ \E t \in Tasks \ NoDriver : AddressChange(t)
    \/ Heal
    \/ Clock
    \/ StopSource

ManagerSpec == ManagerInit /\ [][ManagerNext]_vars

(***************************************************************************)
(* The scheduling assumptions of Scheduler, and that a worker which has    *)
(* something to do does it: lookups and HTTP requests have timeouts.       *)
(***************************************************************************)
FairManagerSpec ==
    /\ ManagerSpec
    /\ WF_vars(Run)
    /\ SF_vars(Timeout /\ UNCHANGED <<poolVars, worldVars>>)
    /\ WF_vars(NotifyAll /\ UNCHANGED <<poolVars, worldVars>>)
    /\ WF_vars(Clock)
    /\ \A w \in Workers : WF_vars(process(w))

-----------------------------------------------------------------------------
Job == [task : Tasks \ NoDriver, force : BOOLEAN]

\* When run() has returned, and the updater and the drivers are about to be
\* destroyed, no job is queued or running.
DrainedAtReturn == returned => PoolIsIdle

\* The DNS never receives an address its owner has excluded: link-local or
\* unique-local addresses of AAAA records only where the subdomain allows them.
OnlyPermittedPublished ==
    \A t \in Tasks :
        record[t] # None /\ Kind[t] = "AAAA" =>
            /\ record[t].class = "link_local" => t \in AllowLocalLink
            /\ record[t].class = "ula" => t \in AllowUla

\* Stop leads to the end of run(), as long as there is a task: every accepted
\* task is run to its end and then the daemon stops.  When the notification is
\* lost, the next deadline of the heap wakes the loop up instead.  Without tasks
\* there is none, and the lost wake-up of NoLostWakeup leaves run() asleep.
RunReturns == Tasks # {} => (stop ~> returned)

(***************************************************************************)
(* What a dynamic DNS client is for: once the world is quiet, the record   *)
(* of every task ends up at its local address and stays there, whatever    *)
(* overlapping, delayed or failed updates came before, unless the daemon   *)
(* is stopped.                                                             *)
(***************************************************************************)
Want(t) == resolve_local_address(candidates[t], t)

Converges ==
    \A t \in Tasks \ NoDriver :
        <>healthy => <>stop \/ <>[](Want(t) # None => record[t] = Want(t))
=============================================================================
