------------------------ MODULE SequentialRunnerProofs ------------------------
(***************************************************************************)
(* Proofs about the strategies that ask one resolver at a time, for any    *)
(* resolvers, any number of retries and any answers among which there is   *)
(* no cancellation: neither strategy passes a token.  Both back ends use   *)
(* them, so that BackendsProofs instantiates this module twice.            *)
(***************************************************************************)
EXTENDS SequentialRunner, TLAPS

\* What the strategies may rely on.
Uncancelled ==
    /\ MaxRetries \in Nat
    /\ \A response \in Answers : try_resolve(response) \in Replies \ {"CANCELLED"}

-----------------------------------------------------------------------------
(* The inductive invariant. *)

\* A reply that does not end the lookup.
Passing(e) == e # "OK" /\ ~Definitive(e)

\* The resolvers that have been asked are those that have replied, and nobody
\* was cancelled.
RepliesAreAsked ==
    /\ \A r \in Resolvers : r \in asked <=> reply[r] # "none"
    /\ \A r \in Resolvers : reply[r] # "CANCELLED"
    /\ last_error # "CANCELLED"

\* Between two queries nobody has ended the lookup, and the single resolver may
\* be asked again.
NobodyDecided ==
    result = "none" =>
        \A r \in Resolvers : /\ Passing(reply[r])
                             /\ Single => reply[r] = "none" \/ is_retryable(reply[r])

\* The reply at hand is a resolver's, and all others let the lookup go on.
ReplyAtHand ==
    result # "none" =>
        \E r \in configured : /\ reply[r] = result
                              /\ \A s \in Resolvers \ {r} : Passing(reply[s])

\* The error to report when all have failed is one that was given.
LastErrorIsSaid ==
    ~Single /\ result = "none" /\ asked # {} => \E r \in configured : reply[r] = last_error

\* How a lookup ends.
EndIsJustified ==
    \/ outcome = "pending"
    \/ /\ outcome = result
       /\ \/ result = "OK"
          \/ Single /\ result \in DnsErrors /\ ~RetryAgain
          \/ ~Single /\ result \in DnsErrors /\ StopsIteration
    \/ /\ outcome = last_error
       /\ ~Single /\ result = "none" /\ asked = configured

SeqInv ==
    /\ TypeOK
    /\ configured # {}
    /\ RepliesAreAsked
    /\ NobodyDecided
    /\ ReplyAtHand
    /\ LastErrorIsSaid
    /\ EndIsJustified

-----------------------------------------------------------------------------
LEMMA SeqInitial == ASSUME Uncancelled, Init PROVE SeqInv
  <1>1. sleeping \in BOOLEAN
    BY DEF Init
  <1>2. TypeOK /\ configured # {}
    BY <1>1 DEF Init, TypeOK, Uncancelled, DnsErrors
  <1>3. RepliesAreAsked /\ NobodyDecided /\ ReplyAtHand /\ LastErrorIsSaid /\ EndIsJustified
    BY DEF Init, RepliesAreAsked, NobodyDecided, ReplyAtHand, LastErrorIsSaid, EndIsJustified, Passing,
           Definitive
  <1> QED
    BY <1>2, <1>3 DEF SeqInv

\* A resolver is asked.
LEMMA QueryStep == ASSUME Uncancelled, SeqInv, NEW r \in Resolvers, Query(r) PROVE SeqInv'
  <1>1. PICK response \in Answers :
           /\ result' = try_resolve(response)
           /\ reply' = [reply EXCEPT ![r] = try_resolve(response)]
    BY DEF Query
  <1>2. try_resolve(response) \in Replies \ {"CANCELLED"}
    BY DEF Uncancelled
  <1>3. PICK e \in Replies \ {"CANCELLED"} :
           /\ result' = e
           /\ reply' = [reply EXCEPT ![r] = e]
    BY <1>1, <1>2
  <1>4. /\ outcome = "pending" /\ result = "none" /\ r \in configured /\ asked' = asked \cup {r}
        /\ UNCHANGED <<configured, counter, sleeping, last_error, outcome>>
    BY DEF Query
  <1>5. Single' = Single
    BY <1>4 DEF Single
  <1>6. TypeOK'
    BY <1>3, <1>4 DEF SeqInv, TypeOK
  <1>7. e # "none"
    BY DEF Replies, DnsErrors
  <1>8. /\ reply'[r] = e
        /\ \A s \in Resolvers \ {r} : reply'[s] = reply[s] /\ Passing(reply[s])
    BY <1>3, <1>4 DEF SeqInv, TypeOK, NobodyDecided
  <1>9. RepliesAreAsked'
    BY <1>3, <1>4, <1>7, <1>8 DEF SeqInv, RepliesAreAsked
  <1>10. ReplyAtHand' /\ NobodyDecided' /\ LastErrorIsSaid'
    BY <1>3, <1>4, <1>7, <1>8 DEF ReplyAtHand, NobodyDecided, LastErrorIsSaid
  <1>11. EndIsJustified'
    BY <1>4 DEF EndIsJustified
  <1> QED
    BY <1>4, <1>6, <1>9, <1>10, <1>11 DEF SeqInv

\* The reply is handled: the loop goes on, in either strategy.
LEMMA GoOnStep == ASSUME Uncancelled, SeqInv, Retry \/ MoveOn PROVE SeqInv'
  <1>1. /\ result # "none" /\ result' = "none" /\ outcome' = outcome
        /\ UNCHANGED <<configured, asked, reply>>
    BY DEF Retry, MoveOn, DnsErrors
  <1>2. PICK r \in configured : /\ reply[r] = result
                                /\ \A s \in Resolvers \ {r} : Passing(reply[s])
    BY <1>1 DEF SeqInv, ReplyAtHand
  <1>3. Single' = Single /\ configured \subseteq Resolvers
    BY <1>1 DEF Single, SeqInv, TypeOK
  <1>4. Passing(result)
    BY DEF Retry, MoveOn, RetryAgain, is_retryable, StopsIteration, Definitive, Passing, DnsErrors
  <1>5. \A s \in Resolvers : Passing(reply[s])
    BY <1>2, <1>4
  <1>6. CASE Retry
    <2>1. /\ Single /\ is_retryable(result) /\ counter + 1 <= MaxRetries /\ counter' = counter + 1
          /\ sleeping' = TRUE /\ last_error' = last_error
      BY <1>6 DEF Retry, RetryAgain
    <2>2. \A s \in Resolvers : reply[s] = "none" \/ is_retryable(reply[s])
      <3>1. \A s \in Resolvers \ {r} : s \notin configured
        BY <2>1 DEF Single
      <3>2. \A s \in Resolvers \ {r} : reply[s] = "none"
        BY <3>1 DEF SeqInv, TypeOK, RepliesAreAsked
      <3> QED
        BY <1>2, <2>1, <3>2
    <2>3. TypeOK'
      <3>1. sleeping' \in BOOLEAN
        BY <2>1
      <3>2. counter' \in 0 .. MaxRetries
        BY <2>1 DEF Uncancelled, SeqInv, TypeOK
      <3> QED
        BY <1>1, <2>1, <3>1, <3>2 DEF SeqInv, TypeOK
    <2>4. RepliesAreAsked'
      BY <1>1, <2>1 DEF SeqInv, RepliesAreAsked
    <2>5. NobodyDecided' /\ ReplyAtHand' /\ LastErrorIsSaid'
      BY <1>1, <1>3, <1>5, <2>1, <2>2 DEF NobodyDecided, ReplyAtHand, LastErrorIsSaid
    <2>6. outcome = "pending"
      BY <1>1, <2>1 DEF SeqInv, EndIsJustified, RetryAgain, is_retryable
    <2> QED
      BY <1>1, <2>3, <2>4, <2>5, <2>6 DEF SeqInv, EndIsJustified
  <1>7. CASE MoveOn
    <2>1. /\ ~Single /\ result \in DnsErrors /\ ~Definitive(result) /\ last_error' = result
          /\ UNCHANGED <<counter, sleeping>>
      BY <1>7 DEF MoveOn, StopsIteration
    <2>2. TypeOK'
      BY <1>1, <2>1 DEF SeqInv, TypeOK
    <2>3. RepliesAreAsked'
      BY <1>1, <1>2, <1>3, <2>1 DEF SeqInv, RepliesAreAsked
    <2>4. NobodyDecided' /\ ReplyAtHand' /\ LastErrorIsSaid'
      BY <1>1, <1>2, <1>3, <1>5, <2>1 DEF NobodyDecided, ReplyAtHand, LastErrorIsSaid
    <2>5. outcome = "pending"
      BY <1>1, <2>1 DEF SeqInv, EndIsJustified, StopsIteration, DnsErrors
    <2> QED
      BY <1>1, <2>2, <2>3, <2>4, <2>5 DEF SeqInv, EndIsJustified
  <1> QED
    BY <1>6, <1>7

\* The lookup ends, or a sleep does.
LEMMA EndStep == ASSUME SeqInv, AllFailed \/ Return \/ Wake PROVE SeqInv'
  <1>1. UNCHANGED <<configured, asked, counter, result, last_error, reply>>
    BY DEF AllFailed, Return, Wake
  <1>2. Single' = Single /\ RetryAgain' = RetryAgain /\ StopsIteration' = StopsIteration
    BY <1>1 DEF Single, RetryAgain, StopsIteration
  <1>3. TypeOK'
    <2>1. sleeping' \in BOOLEAN
      BY DEF AllFailed, Return, Wake, SeqInv, TypeOK
    <2>2. outcome' \in {"pending"} \cup Replies
      BY DEF AllFailed, Return, Wake, SeqInv, TypeOK, Replies
    <2> QED
      BY <1>1, <2>1, <2>2 DEF SeqInv, TypeOK
  <1>4. RepliesAreAsked' /\ NobodyDecided' /\ ReplyAtHand' /\ LastErrorIsSaid'
    BY <1>1, <1>2 DEF SeqInv, RepliesAreAsked, NobodyDecided, ReplyAtHand, LastErrorIsSaid
  <1>5. EndIsJustified'
    BY <1>1, <1>2 DEF AllFailed, Return, Wake, SeqInv, EndIsJustified
  <1> QED
    BY <1>1, <1>3, <1>4, <1>5 DEF SeqInv

LEMMA SeqNext == ASSUME Uncancelled, SeqInv, [Next]_vars PROVE SeqInv'
  <1>1. CASE UNCHANGED vars
    BY <1>1 DEF vars, SeqInv, TypeOK, RepliesAreAsked, NobodyDecided, ReplyAtHand, LastErrorIsSaid,
                EndIsJustified, Single, RetryAgain, StopsIteration
  <1> QED
    BY <1>1, QueryStep, GoOnStep, EndStep DEF Next

\* Every field keeps a value of its C++ type, and no more than max_retries
\* retries are made.
THEOREM TypeCorrect == ASSUME Uncancelled PROVE Spec => []TypeOK
  <1>1. Init => SeqInv
    BY SeqInitial
  <1>2. SeqInv /\ [Next]_vars => SeqInv'
    BY SeqNext
  <1>3. SeqInv => TypeOK
    BY DEF SeqInv
  <1> QED
    BY <1>1, <1>2, <1>3, PTL DEF Spec

\* A transient error is the outcome only when the single resolver has been asked
\* max_retries + 1 times, or every resolver once.
LEMMA NotEarly == ASSUME Uncancelled, SeqInv PROVE NotGivenUpEarly
  <1>1. ASSUME Single, is_retryable(outcome) PROVE counter = MaxRetries
    <2>1. outcome = result /\ ~RetryAgain
      BY <1>1 DEF SeqInv, EndIsJustified, is_retryable
    <2>2. ~(counter + 1 <= MaxRetries)
      BY <1>1, <2>1 DEF RetryAgain
    <2> QED
      BY <2>2 DEF SeqInv, TypeOK, Uncancelled
  <1>2. ASSUME ~Single, outcome \in DnsErrors, ~Definitive(outcome) PROVE asked = configured
    BY <1>2 DEF SeqInv, EndIsJustified, StopsIteration, DnsErrors
  <1> QED
    BY <1>1, <1>2 DEF NotGivenUpEarly

-----------------------------------------------------------------------------
(***************************************************************************)
(* The strict contract of Lookup: the first answer and the first           *)
(* definitive error end the lookup, and no answer is lost.                 *)
(***************************************************************************)
Contract == INSTANCE Lookup WITH heard <- reply

\* Lookup and the runners speak of the same replies.
LEMMA SameReplies ==
    /\ Contract!Replies = Replies
    /\ \A e : Contract!Definitive(e) <=> Definitive(e)
    /\ \A e : Contract!is_retryable(e) <=> is_retryable(e)
  BY DEF Contract!Replies, Contract!DnsErrors, Replies, DnsErrors, Contract!Definitive, Definitive,
         Contract!is_retryable, is_retryable

\* What a lookup that has ended, or is about to end, reports.
LEMMA EndIsFaithful ==
    ASSUME SeqInv,
           NEW end \in Replies,
           \/ end = result
           \/ end = last_error /\ ~Single /\ result = "none" /\ asked = configured
    PROVE  /\ end # "CANCELLED"
           /\ \E r \in configured : reply[r] = end
           /\ end # "OK" => \A r \in Resolvers : reply[r] # "OK"
           /\ end # "NX_DOMAIN" => \A r \in Resolvers : reply[r] # "NX_DOMAIN"
  <1>1. configured \subseteq Resolvers /\ "none" \notin Replies
    BY DEF SeqInv, TypeOK, Replies, DnsErrors
  <1>2. CASE end = result
    <2>1. PICK r \in configured : /\ reply[r] = result
                                  /\ \A s \in Resolvers \ {r} : Passing(reply[s])
      BY <1>1, <1>2 DEF SeqInv, ReplyAtHand
    <2>2. end # "CANCELLED"
      BY <1>1, <1>2, <2>1 DEF SeqInv, RepliesAreAsked
    <2> QED
      BY <1>2, <2>1, <2>2 DEF Passing, Definitive
  <1>3. CASE end = last_error /\ ~Single /\ result = "none" /\ asked = configured
    <2>1. end # "CANCELLED" /\ \E r \in configured : reply[r] = end
      BY <1>3 DEF SeqInv, RepliesAreAsked, LastErrorIsSaid
    <2>2. \A r \in Resolvers : reply[r] # "OK" /\ reply[r] # "NX_DOMAIN"
      BY <1>3 DEF SeqInv, NobodyDecided, Passing, Definitive
    <2> QED
      BY <2>1, <2>2
  <1> QED
    BY <1>2, <1>3

\* A lookup that has ended: its outcome was said, an answer is not lost, and
\* nobody was left out unless a definitive error was met.
LEMMA HowItEnds ==
    ASSUME SeqInv, outcome # "pending"
    PROVE  /\ outcome \in Replies
           /\ \E r \in configured : reply[r] = outcome
           /\ outcome # "OK" => \A r \in configured : reply[r] # "OK"
           /\ outcome # "OK" /\ (Single \/ ~Definitive(outcome)) =>
                 \A r \in configured : reply[r] # "none"
  <1>1. outcome \in Replies /\ configured \subseteq Resolvers /\ "none" \notin Replies
    BY DEF SeqInv, TypeOK, Replies, DnsErrors
  <1>2. /\ \E r \in configured : reply[r] = outcome
        /\ outcome # "OK" => \A r \in Resolvers : reply[r] # "OK"
    BY <1>1, EndIsFaithful DEF SeqInv, EndIsJustified
  <1>3. ASSUME Single PROVE \A r \in configured : reply[r] # "none"
    <2>1. PICK r \in configured : reply[r] = outcome
      BY <1>2
    <2>2. \A s \in configured : s = r
      BY <1>3 DEF Single
    <2> QED
      BY <1>1, <2>1, <2>2
  <1>4. ASSUME outcome # "OK", ~Single, ~Definitive(outcome) PROVE \A r \in configured : reply[r] # "none"
    <2>1. asked = configured
      BY <1>4 DEF SeqInv, EndIsJustified, StopsIteration
    <2> QED
      BY <1>1, <2>1 DEF SeqInv, RepliesAreAsked
  <1> QED
    BY <1>1, <1>2, <1>3, <1>4

\* A query is heard while nothing has been decided.
LEMMA QueryIsStrict ==
    ASSUME Uncancelled, SeqInv, NEW r \in Resolvers, Query(r) PROVE Contract!StrictHear(r)
  <1>1. PICK response \in Answers : reply' = [reply EXCEPT ![r] = try_resolve(response)]
    BY DEF Query
  <1>2. try_resolve(response) \in Contract!Replies
    BY SameReplies DEF Uncancelled
  <1>3. outcome = "pending" /\ outcome' = outcome /\ result = "none"
    BY DEF Query
  <1>4. \A s \in Resolvers : reply[s] # "OK" /\ ~Definitive(reply[s])
    BY <1>3 DEF SeqInv, NobodyDecided, Passing
  <1>5. reply[r] = "none" \/ is_retryable(reply[r])
    <2>1. CASE Single
      BY <1>3, <2>1 DEF SeqInv, NobodyDecided
    <2>2. CASE ~Single
      BY <2>2 DEF Query, SeqInv, RepliesAreAsked
    <2> QED
      BY <2>1, <2>2
  <1> QED
    BY <1>1, <1>2, <1>3, <1>4, <1>5, SameReplies DEF Contract!StrictHear, Contract!Hear

\* The end is a return that the strict contract allows.
LEMMA EndIsStrict == ASSUME SeqInv, AllFailed \/ Return PROVE Contract!StrictReturn
  <1>1. /\ outcome = "pending" /\ reply' = reply /\ outcome' \in Replies
        /\ \/ outcome' = result
           \/ outcome' = last_error /\ ~Single /\ result = "none" /\ asked = configured
    BY DEF AllFailed, Return, SeqInv, TypeOK, Replies
  <1>2. /\ outcome' # "CANCELLED"
        /\ \E r \in configured : reply[r] = outcome'
        /\ outcome' # "OK" => \A r \in Resolvers : reply[r] # "OK"
        /\ outcome' # "NX_DOMAIN" => \A r \in Resolvers : reply[r] # "NX_DOMAIN"
    BY <1>1, EndIsFaithful
  <1>3. configured \subseteq Resolvers
    BY DEF SeqInv, TypeOK
  <1>4. Contract!Faithful(outcome')
    BY <1>1, <1>2, <1>3, SameReplies DEF Contract!Faithful, Contract!Said
  <1> QED
    BY <1>1, <1>2, <1>4, SameReplies DEF Contract!StrictReturn, Contract!Return, Contract!Said

LEMMA NextIsStrict ==
    ASSUME Uncancelled, SeqInv, [Next]_vars PROVE [Contract!StrictNext]_<<reply, outcome>>
  <1>1. CASE Retry \/ Wake \/ MoveOn \/ UNCHANGED vars
    BY <1>1 DEF Retry, Wake, MoveOn, vars
  <1>2. ASSUME NEW r \in Resolvers, Query(r) PROVE Contract!StrictNext
    BY <1>2, QueryIsStrict DEF Contract!StrictNext
  <1>3. CASE AllFailed \/ Return
    BY <1>3, EndIsStrict DEF Contract!StrictNext
  <1> QED
    BY <1>1, <1>2, <1>3 DEF Next

\* A single resolver and the fallback keep the strict contract: the outcome is
\* the first answer, the first definitive error, or the last transient one, and
\* nobody is asked after it.
THEOREM SequentialImplementsStrictLookup == ASSUME Uncancelled PROVE Spec => Contract!StrictSpec
  <1>1. Init => SeqInv /\ Contract!Init
    BY SeqInitial DEF Init, Contract!Init
  <1>2. SeqInv /\ [Next]_vars => SeqInv'
    BY SeqNext
  <1>3. SeqInv /\ [Next]_vars => [Contract!StrictNext]_(Contract!vars)
    BY NextIsStrict DEF Contract!vars
  <1> QED
    BY <1>1, <1>2, <1>3, PTL DEF Spec, Contract!StrictSpec
=============================================================================
