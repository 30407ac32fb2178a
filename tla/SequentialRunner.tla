--------------------------- MODULE SequentialRunner ---------------------------
(***************************************************************************)
(* The strategies of the native resolver dispatcher that ask one resolver  *)
(* at a time (src/dns/dispatcher.cpp): SingleResolverRunner retries the    *)
(* only resolver with a growing delay, FallbackRunner goes through several *)
(* in a random order.  Neither passes a cancellation token, so a query may *)
(* come back with anything but a cancellation.                             *)
(***************************************************************************)
EXTENDS Integers, DnsError

CONSTANTS Resolvers,  \* resolvers that may be configured
          Answers,    \* what a query may come back with
          MaxRetries  \* max_retries

VARIABLES
    configured,  \* resolvers_
    asked,       \* resolvers already visited in the shuffled order
    counter,     \* retry_on_error: retries so far
    sleeping,    \* retry_on_error: between two tries
    result,      \* what try_resolve has returned, "none" when handled
    last_error,  \* last_error of FallbackRunner::run
    reply,       \* history: what each resolver replied last
    outcome      \* "pending", then what the lookup ends with

vars == <<configured, asked, counter, sleeping, result, last_error, reply, outcome>>

Init ==
    /\ configured \in (SUBSET Resolvers) \ {{}}
    /\ asked = {}
    /\ counter = 0
    /\ sleeping = FALSE
    /\ result = "none"
    /\ last_error = "NODATA"
    /\ reply = [r \in Resolvers |-> "none"]
    /\ outcome = "pending"

\* resolvers_.size() == 1
Single == \E r \in Resolvers : configured = {r}

\* try_resolve: the only resolver, or the next one in the shuffled order.
Query(r) ==
    /\ outcome = "pending"
    /\ result = "none"
    /\ ~sleeping
    /\ IF Single THEN r \in configured ELSE r \in configured \ asked
    /\ asked' = asked \cup {r}
    /\ \E response \in Answers :
          /\ result' = try_resolve(response)
          /\ reply' = [reply EXCEPT ![r] = try_resolve(response)]
    /\ UNCHANGED <<configured, counter, sleeping, last_error, outcome>>

-----------------------------------------------------------------------------
(* Utils::Retry::retry_on_error, as SingleResolverRunner::run calls it *)

\* Mutant: the last retry is not made.
RetryAgainShort == is_retryable(result) /\ counter + 1 < MaxRetries

\* The filter lets the error be retried, and ++counter > retry is false.
RetryAgain == is_retryable(result) /\ counter + 1 <= MaxRetries

Retry ==
    /\ Single
    /\ result # "none"
    /\ RetryAgain
    /\ counter' = counter + 1
    /\ sleeping' = TRUE
    /\ result' = "none"
    /\ UNCHANGED <<configured, asked, last_error, reply, outcome>>

\* sleep_for(backoff * counter) returns.
Wake ==
    /\ sleeping
    /\ sleeping' = FALSE
    /\ UNCHANGED <<configured, asked, counter, result, last_error, reply, outcome>>

-----------------------------------------------------------------------------
(* FallbackRunner::run *)

\* Mutant: an error of the server's is taken for one of this resolver only.
StopsIterationParseOnly == result \in {"PARSE", "CONFIG"}

\* The switch over the error code.
StopsIteration == Definitive(result)

\* last_error = error, and the loop continues.
MoveOn ==
    /\ ~Single
    /\ result \in DnsErrors
    /\ ~StopsIteration
    /\ last_error' = result
    /\ result' = "none"
    /\ UNCHANGED <<configured, asked, counter, sleeping, reply, outcome>>

\* The loop has run past the last index.
AllFailed ==
    /\ outcome = "pending"
    /\ ~Single
    /\ result = "none"
    /\ asked = configured
    /\ outcome' = last_error
    /\ UNCHANGED <<configured, asked, counter, sleeping, result, last_error, reply>>

\* Either runner returns what try_resolve has returned.
Return ==
    /\ outcome = "pending"
    /\ \/ result = "OK"
       \/ Single /\ result \in DnsErrors /\ ~RetryAgain
       \/ ~Single /\ result \in DnsErrors /\ StopsIteration
    /\ outcome' = result
    /\ UNCHANGED <<configured, asked, counter, sleeping, result, last_error, reply>>

-----------------------------------------------------------------------------
Next ==
    \/ \E r \in Resolvers : Query(r)
    \/ Retry \/ Wake \/ MoveOn \/ AllFailed \/ Return

Spec == Init /\ [][Next]_vars

-----------------------------------------------------------------------------
\* Every field has a value of its C++ type; no more than max_retries retries.
TypeOK ==
    /\ configured \subseteq Resolvers
    /\ asked \subseteq configured
    /\ counter \in 0 .. MaxRetries
    /\ sleeping \in BOOLEAN
    /\ result \in {"none"} \cup Replies
    /\ last_error \in DnsErrors
    /\ reply \in [Resolvers -> {"none"} \cup Replies]
    /\ outcome \in {"pending"} \cup Replies

(***************************************************************************)
(* Nothing is given up early: a transient error is the outcome only when   *)
(* every resolver has been asked, or the single one max_retries + 1 times. *)
(* "Transient" is what each strategy goes on after: retry_on_error after   *)
(* three codes, fallback after everything but the definitive ones.         *)
(***************************************************************************)
NotGivenUpEarly ==
    /\ Single /\ is_retryable(outcome) => counter = MaxRetries
    /\ ~Single /\ outcome \in DnsErrors /\ ~Definitive(outcome) => asked = configured
=============================================================================
