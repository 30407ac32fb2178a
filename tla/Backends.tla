------------------------------- MODULE Backends -------------------------------
(***************************************************************************)
(* ResolverDispatcher is built over one of two back ends, which the build  *)
(* chooses: the native one (Dispatcher) and the deprecated one over        *)
(* libresolv (SystemDispatcher).  What both do with the configuration and  *)
(* in their sequential strategies is shared.  Lookup is the promise of the *)
(* native one; the other, which turns errors into empty answers and may    *)
(* return while threads are running, promises SystemLosesNothing.          *)
(***************************************************************************)
EXTENDS Dispatcher

VARIABLES
    backend,                         \* "native" or "system"
    waiting, state, thread, answer, ended  \* of SystemDispatcher

System == INSTANCE SystemDispatcher

systemVars  == <<waiting, state, thread, answer, ended>>
backendVars == <<backend, systemVars, dispatcherVars>>

BackendsInit ==
    /\ backend \in {"native", "system"}
    /\ DispatcherInit
    /\ System!Init

native(A) == backend = "native" /\ A /\ UNCHANGED <<backend, systemVars>>

system(A) ==
    /\ backend = "system"
    /\ A
    /\ UNCHANGED <<backend, main, stop, batch_result, outcome, threadVars, batchVars>>

BackendsNext == native(DispatcherNext) \/ system(System!Next)

BackendsSpec == BackendsInit /\ [][BackendsNext]_backendVars

(***************************************************************************)
(* The calling thread and the threads of a batch are scheduled fairly, and *)
(* a query ends: every wait inside a resolver is a poll() with a timeout,  *)
(* and libresolv gives up after two tries of a second.  So does a sleep    *)
(* between two tries.                                                      *)
(***************************************************************************)
FairBackendsSpec ==
    /\ BackendsSpec
    /\ WF_backendVars(native(resolve_concurrently(Main)))
    /\ \A r \in Resolvers : WF_backendVars(native(resolve_concurrently(resolve_one(r))))
    /\ WF_backendVars(native(resolve_sequentially))
    /\ WF_backendVars(system(System!concurrently(System!Caller)))
    /\ \A r \in Resolvers : WF_backendVars(system(System!concurrently(System!dispatch_query(r))))
    /\ WF_backendVars(system(System!sequentially))

-----------------------------------------------------------------------------
\* The caller always gets an answer, whatever the strategy and the back end: the
\* promise of a batch is set by somebody, no join waits for ever (future.get()
\* and ~jthread have no timeout), the count that cv.wait waits for is reached,
\* and the loops over retries and resolvers end.
ResolveEnds ==
    <>(IF backend = "native" THEN outcome # "pending" /\ (Concurrently => main = "done")
                             ELSE System!resolve # "pending")

\* No answer is lost on the way out of the system back end.
SystemLosesNothing == backend = "system" => System!NothingLost
=============================================================================
