-------------------------------- MODULE Lookup --------------------------------
(***************************************************************************)
(* What ResolverDispatcher::resolve promises its caller, whatever the      *)
(* strategy: resolvers are heard, one after another or at once, and the    *)
(* lookup returns once, with something a resolver said.  Nothing is heard  *)
(* after the return.  Spec is the promise that all strategies keep,        *)
(* StrictSpec the stronger one of the sequential strategies.               *)
(***************************************************************************)
EXTENDS DnsError

CONSTANT Resolvers

VARIABLES
    heard,   \* what each resolver replied last, "none" before it did
    outcome  \* "pending", then what the caller gets

vars == <<heard, outcome>>

Init ==
    /\ heard = [r \in Resolvers |-> "none"]
    /\ outcome = "pending"

\* A resolver replies; one that replied with a transient error may do so again.
Hear(r) ==
    /\ outcome = "pending"
    /\ heard[r] = "none" \/ is_retryable(heard[r])
    /\ \E e \in Replies : heard' = [heard EXCEPT ![r] = e]
    /\ UNCHANGED outcome

Said(e) == \E r \in Resolvers : heard[r] = e

\* Records, or an error, that a resolver returned; NODATA when there is none to
\* ask.  NXDOMAIN hides every other error, and a cancellation is never reported.
Faithful(o) ==
    /\ o \in Replies \ {"CANCELLED"}
    /\ Said(o) \/ (o = "NODATA" /\ \A r \in Resolvers : heard[r] = "none")
    /\ o # "OK" /\ Said("NX_DOMAIN") => o = "NX_DOMAIN"

Return ==
    /\ outcome = "pending"
    /\ outcome' \in {o \in Replies : Faithful(o)}
    /\ UNCHANGED heard

\* The dispatcher itself fails: a thread could not be created.
Throw ==
    /\ outcome = "pending"
    /\ outcome' = "EXCEPTION"
    /\ UNCHANGED heard

Next == (\E r \in Resolvers : Hear(r)) \/ Return \/ Throw

Spec == Init /\ [][Next]_vars

-----------------------------------------------------------------------------
(***************************************************************************)
(* One resolver at a time: the first answer and the first definitive error *)
(* end the lookup, so that nobody is asked after them and an answer is     *)
(* never lost.                                                             *)
(***************************************************************************)
StrictHear(r) == Hear(r) /\ \A s \in Resolvers : heard[s] # "OK" /\ ~Definitive(heard[s])

StrictReturn == Return /\ (Said("OK") => outcome' = "OK")

StrictNext == (\E r \in Resolvers : StrictHear(r)) \/ StrictReturn

StrictSpec == Init /\ [][StrictNext]_vars
=============================================================================
