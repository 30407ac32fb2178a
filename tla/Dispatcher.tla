------------------------------ MODULE Dispatcher ------------------------------
(***************************************************************************)
(* ResolverDispatcher::Impl::resolve (src/dns/dispatcher.cpp): a single    *)
(* resolver is retried; several are asked one after another or at once,    *)
(* as the configured strategy says.  The concurrent runner is that of      *)
(* ConcurrentRunner, the other two are those of SequentialRunner.          *)
(***************************************************************************)
EXTENDS ConcurrentRunner

CONSTANT MaxRetries  \* max_retries

ASSUME RetryAssumption == MaxRetries \in Nat

VARIABLES
    strategy,                             \* strategy_
    configured,                           \* resolvers_
    asked, counter, sleeping, result      \* of the sequential runners

sequentialVars == <<asked, counter, sleeping, result>>
dispatcherVars == <<strategy, configured, sequentialVars, vars>>

\* Without a token, no query is cancelled.
UncancelledResponses == Responses \ [kind : {"transport"}, error : {"CANCELLED"}]

Sequential == INSTANCE SequentialRunner WITH Answers <- UncancelledResponses

\* resolve and resolve_multi
Concurrently == strategy = "CONCURRENT" /\ ~Sequential!Single

(***************************************************************************)
(* DnsResolverFactory::create configures at least one resolver.  The       *)
(* sequential runners have any number of them, the concurrent one Total.   *)
(***************************************************************************)
DispatcherInit ==
    /\ Init
    /\ Sequential!Init
    /\ configured \in {1 .. n : n \in Resolvers}
    /\ strategy \in {"CONCURRENT", "FALLBACK"}
    /\ Concurrently => configured = Resolvers

\* One of the runners takes a step.
resolve_concurrently(A) ==
    /\ Concurrently
    /\ A
    /\ UNCHANGED <<strategy, configured, sequentialVars>>

resolve_sequentially ==
    /\ ~Concurrently
    /\ Sequential!Next
    /\ UNCHANGED <<strategy, main, offset, launched, stop, batch_result, pc, pipe, batchVars>>

DispatcherNext == resolve_concurrently(Next) \/ resolve_sequentially

DispatcherSpec == DispatcherInit /\ [][DispatcherNext]_dispatcherVars

-----------------------------------------------------------------------------
Promise == INSTANCE Lookup WITH heard <- reply

\* What resolve has returned: the concurrent runner returns when every thread of
\* the batch is joined, the others as soon as they know.
Returned == IF Concurrently /\ main # "done" THEN "pending" ELSE outcome

Service == INSTANCE Lookup WITH heard <- reply, outcome <- Returned

(***************************************************************************)
(* The native dispatcher keeps the promise of Lookup with each of its      *)
(* strategies: it returns once, with records or an error that a resolver   *)
(* gave, NXDOMAIN before every other error and never a cancellation, and   *)
(* no resolver is heard after the return.                                  *)
(***************************************************************************)
ImplementsLookup == Service!Spec

(***************************************************************************)
(* A single resolver and the fallback keep the stricter contract: the      *)
(* outcome is the first answer, the first definitive error, or the last    *)
(* transient one, and nobody is asked after it.                            *)
(***************************************************************************)
SequentialIsStrict ==
    [][~Concurrently => [Promise!StrictNext]_<<reply, outcome>>]_dispatcherVars

\* Nothing is given up early: a transient error is the outcome only when every
\* resolver has been asked, or the single one max_retries + 1 times.
NotGivenUpEarly == ~Concurrently => Sequential!NotGivenUpEarly
=============================================================================
