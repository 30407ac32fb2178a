---------------------------- MODULE BackendsProofs ----------------------------
(***************************************************************************)
(* Proofs about a lookup through ResolverDispatcher with either back end   *)
(* and any strategy, for any number of resolvers, any batch size, any      *)
(* number of retries and any responses.  What is proved of each runner is  *)
(* carried over to the back ends that use it.                              *)
(***************************************************************************)
EXTENDS Backends, FiniteSetTheorems, TLAPS

-----------------------------------------------------------------------------
(* The concurrent strategy: the inductive invariant. *)

InBatch == main \in {"launch", "join"}

\* An error of this batch has been recorded where BatchVerdict looks for it.
Stored == has_nxdomain \/ \E s \in Resolvers : reply[s] = batch_error

\* What a thread's place in resolve_one says about its reply.
ThreadInv ==
    \A r \in Resolvers :
        /\ pc[r] \in {"none", "start", "query"} => reply[r] = "none"
        /\ pc[r] = "flag" => Definitive(reply[r])
        /\ pc[r] = "store" => reply[r] \in DnsErrors \ {"NX_DOMAIN", "CANCELLED"}
        /\ reply[r] = "CANCELLED" => r \in stop
        /\ pc[r] \in {"count", "set"} /\ reply[r] \notin {"OK", "CANCELLED"} => Stored

\* Resolvers beyond the launched ones are untouched; no thread of the batch is
\* stopped while it is being launched or waited for.
LaunchInv ==
    /\ main = "next_batch" => \A r \in Resolvers : r > offset => pc[r] = "none"
    /\ InBatch => \A r \in Resolvers : r > offset + launched => pc[r] = "none"
    /\ main \in {"next_batch", "launch"} => \A r \in stop : r <= offset
    /\ main = "join" => \A r \in stop : r <= offset + launched

\* The outcome is open until the end, and joining starts with the promise set
\* unless the launch failed.
OutcomeInv ==
    /\ main \in {"next_batch", "launch"} => outcome = "pending"
    /\ main = "join" => outcome \in {"pending", "EXCEPTION"}
    /\ main = "join" /\ outcome = "pending" => promise # Unset /\ batch_result = promise

\* What a value of the promise says about the threads of the batch.
PromiseInv ==
    InBatch =>
        /\ promise \in Resolvers =>
              promise \in Launched /\ pc[promise] = "exit" /\ reply[promise] = "OK"
        /\ promise = NoRecords /\ outcome = "pending" => Stored

\* Recorded errors come from resolvers.
ErrorInv ==
    /\ InBatch /\ has_nxdomain => \E s \in Resolvers : reply[s] = "NX_DOMAIN"
    /\ main # "done" /\ offset > 0 => \E s \in Resolvers : reply[s] = last_error

\* An NXDOMAIN reply is on its way to the flag, or there already.
NxInv ==
    /\ main = "next_batch" => \A r \in Resolvers : reply[r] # "NX_DOMAIN"
    /\ InBatch => \A r \in Resolvers :
          reply[r] = "NX_DOMAIN" => pc[r] = "flag" \/ has_nxdomain

IInv ==
    /\ TypeOK
    /\ NoStraggler
    /\ ThreadInv
    /\ LaunchInv
    /\ OutcomeInv
    /\ PromiseInv
    /\ ErrorInv
    /\ NxInv
    /\ AnswerIsGenuine
    /\ NxDomainWins
    /\ ErrorIsGenuine

-----------------------------------------------------------------------------
\* try_resolve maps every response to a reply.
LEMMA TryResolveType ==
    ASSUME NEW response \in Responses
    PROVE  try_resolve(response) \in Replies
  BY DEF Responses, try_resolve, Replies, DnsErrors, Rcodes

\* A thread's reply is written once.
LEMMA ReplyStays ==
    ASSUME TypeOK, ThreadInv, NEW r \in Resolvers, Return(r)
    PROVE  \A s \in Resolvers : reply[s] # "none" => reply'[s] = reply[s] /\ pc'[s] = pc[s]
  BY DEF TypeOK, ThreadInv, Return

\* What the actions of the calling thread and of the workers do to the types.
LEMMA TypeStep ==
    TypeOK /\ ThreadInv /\ [Next]_vars => TypeOK'
  <1> SUFFICES ASSUME TypeOK, ThreadInv, [Next]_vars PROVE TypeOK'
    OBVIOUS
  <1> USE DispatchAssumption DEF TypeOK, mainVars, threadVars, batchVars,
            MainStates, ThreadStates, batch_count, Min2, Unset, NoRecords, Resolvers
  <1>1. CASE StartBatch
    <2>1. has_nxdomain' \in BOOLEAN /\ has_definitive' \in BOOLEAN
      BY <1>1, Zenon DEF StartBatch
    <2>2. batch_error' \in DnsErrors
      BY <1>1 DEF StartBatch, DnsErrors
    <2> QED
      BY <1>1, <2>1, <2>2 DEF StartBatch
  <1>2. CASE AllFailed
    BY <1>2 DEF AllFailed, Replies
  <1>3. CASE Launch
    BY <1>3 DEF Launch
  <1>4. CASE LaunchFails
    BY <1>4 DEF LaunchFails
  <1>5. CASE GetFuture
    BY <1>5 DEF GetFuture
  <1>6. ASSUME NEW r \in Resolvers, StopThread(r) PROVE TypeOK'
    BY <1>6 DEF StopThread
  <1>7. CASE Classify
    <2>1. BatchVerdict \in DnsErrors
      BY DEF BatchVerdict, DnsErrors
    <2> QED
      BY <1>7, <2>1 DEF Classify, AllJoined, Replies
  <1>8. ASSUME NEW r \in Resolvers, Begin(r) PROVE TypeOK'
    BY <1>8 DEF Begin
  <1>9. ASSUME NEW r \in Resolvers, Return(r) PROVE TypeOK'
    <2>1. PICK response \in QueryResponses :
             /\ reply' = [reply EXCEPT ![r] = try_resolve(response)]
             /\ pc' = [pc EXCEPT ![r] =
                  IF try_resolve(response) \in {"OK", "CANCELLED"} THEN "count"
                  ELSE IF Definitive(try_resolve(response)) THEN "flag" ELSE "store"]
      BY <1>9 DEF Return
    <2>2. try_resolve(response) \in Replies
      BY TryResolveType
    <2>3. /\ pc' \in [Resolvers -> ThreadStates]
          /\ reply' \in [Resolvers -> {"none"} \cup Replies]
      BY <2>1, <2>2
    <2> QED
      BY <1>9, <2>3 DEF Return
  <1>10. ASSUME NEW r \in Resolvers, StoreFlag(r) PROVE TypeOK'
    <2>1. has_nxdomain' \in BOOLEAN /\ has_definitive' \in BOOLEAN
      BY <1>10, Zenon DEF StoreFlag
    <2>2. pc' \in [Resolvers -> ThreadStates]
      BY <1>10 DEF StoreFlag
    <2>3. UNCHANGED <<mainVars, pipe, reply, completed, batch_error, promise>>
      BY <1>10 DEF StoreFlag
    <2> QED
      BY <2>1, <2>2, <2>3
  <1>11. ASSUME NEW r \in Resolvers, StoreError(r) PROVE TypeOK'
    BY <1>11 DEF StoreError, ThreadInv
  <1>12. ASSUME NEW r \in Resolvers, Count(r) PROVE TypeOK'
    BY <1>12 DEF Count
  <1>13. ASSUME NEW r \in Resolvers, SetPromise(r) PROVE TypeOK'
    BY <1>13 DEF SetPromise
  <1>14. CASE UNCHANGED vars
    BY <1>14 DEF vars
  <1> QED
    BY <1>1, <1>2, <1>3, <1>4, <1>5, <1>6, <1>7, <1>8, <1>9, <1>10, <1>11, <1>12, <1>13, <1>14
       DEF Next, Main, resolve_one

\* No action leaves a thread behind.
LEMMA StragglerStep ==
    IInv /\ [Next]_vars => NoStraggler'
  <1> SUFFICES ASSUME IInv, [Next]_vars PROVE NoStraggler'
    OBVIOUS
  <1>0. TypeOK /\ NoStraggler
    BY DEF IInv
  <1> USE DispatchAssumption, <1>0 DEF TypeOK, NoStraggler, Live, Launched, Resolvers, batch_count, Min2, mainVars, threadVars, batchVars
  <1>1. CASE StartBatch
    BY <1>1 DEF StartBatch
  <1>2. CASE AllFailed
    BY <1>2 DEF AllFailed
  <1>3. CASE Launch
    BY <1>3 DEF Launch
  <1>4. CASE LaunchFails
    BY <1>4 DEF LaunchFails
  <1>5. CASE GetFuture
    BY <1>5 DEF GetFuture
  <1>6. ASSUME NEW r \in Resolvers, StopThread(r) PROVE NoStraggler'
    BY <1>6 DEF StopThread
  <1>7. CASE Classify
    BY <1>7 DEF Classify, AllJoined
  <1>8. ASSUME NEW r \in Resolvers, Begin(r) PROVE NoStraggler'
    BY <1>8 DEF Begin
  <1>9. ASSUME NEW r \in Resolvers, Return(r) PROVE NoStraggler'
    BY <1>9 DEF Return
  <1>10. ASSUME NEW r \in Resolvers, StoreFlag(r) PROVE NoStraggler'
    BY <1>10 DEF StoreFlag
  <1>11. ASSUME NEW r \in Resolvers, StoreError(r) PROVE NoStraggler'
    BY <1>11 DEF StoreError
  <1>12. ASSUME NEW r \in Resolvers, Count(r) PROVE NoStraggler'
    BY <1>12 DEF Count
  <1>13. ASSUME NEW r \in Resolvers, SetPromise(r) PROVE NoStraggler'
    BY <1>13 DEF SetPromise
  <1>14. CASE UNCHANGED vars
    BY <1>14 DEF vars
  <1> QED
    BY <1>1, <1>2, <1>3, <1>4, <1>5, <1>6, <1>7, <1>8, <1>9, <1>10, <1>11, <1>12, <1>13, <1>14
       DEF Next, Main, resolve_one

\* Threads are launched in order, and stopped only once joining has begun.
LEMMA LaunchStep ==
    IInv /\ [Next]_vars => LaunchInv'
  <1> SUFFICES ASSUME IInv, [Next]_vars PROVE LaunchInv'
    OBVIOUS
  <1>0. TypeOK /\ LaunchInv /\ NoStraggler
    BY DEF IInv
  <1> USE DispatchAssumption, <1>0 DEF TypeOK, LaunchInv, InBatch, NoStraggler, Live, Launched, Resolvers, batch_count, Min2, mainVars, threadVars, batchVars
  <1>1. CASE StartBatch
    BY <1>1 DEF StartBatch
  <1>2. CASE AllFailed
    BY <1>2 DEF AllFailed
  <1>3. CASE Launch
    BY <1>3 DEF Launch
  <1>4. CASE LaunchFails
    BY <1>4 DEF LaunchFails
  <1>5. CASE GetFuture
    BY <1>5 DEF GetFuture
  <1>6. ASSUME NEW r \in Resolvers, StopThread(r) PROVE LaunchInv'
    BY <1>6 DEF StopThread
  <1>7. CASE Classify
    BY <1>7 DEF Classify, AllJoined
  <1>8. ASSUME NEW r \in Resolvers, Begin(r) PROVE LaunchInv'
    BY <1>8 DEF Begin
  <1>9. ASSUME NEW r \in Resolvers, Return(r) PROVE LaunchInv'
    BY <1>9 DEF Return
  <1>10. ASSUME NEW r \in Resolvers, StoreFlag(r) PROVE LaunchInv'
    BY <1>10 DEF StoreFlag
  <1>11. ASSUME NEW r \in Resolvers, StoreError(r) PROVE LaunchInv'
    BY <1>11 DEF StoreError
  <1>12. ASSUME NEW r \in Resolvers, Count(r) PROVE LaunchInv'
    BY <1>12 DEF Count
  <1>13. ASSUME NEW r \in Resolvers, SetPromise(r) PROVE LaunchInv'
    BY <1>13 DEF SetPromise
  <1>14. CASE UNCHANGED vars
    BY <1>14 DEF vars
  <1> QED
    BY <1>1, <1>2, <1>3, <1>4, <1>5, <1>6, <1>7, <1>8, <1>9, <1>10, <1>11, <1>12, <1>13, <1>14
       DEF Next, Main, resolve_one

\* The outcome is decided at the end only.
LEMMA OutcomeStep ==
    IInv /\ [Next]_vars => OutcomeInv'
  <1> SUFFICES ASSUME IInv, [Next]_vars PROVE OutcomeInv'
    OBVIOUS
  <1>0. TypeOK /\ OutcomeInv /\ NoStraggler
    BY DEF IInv
  <1> USE DispatchAssumption, <1>0 DEF TypeOK, OutcomeInv, NoStraggler, Live, Unset, NoRecords, Resolvers, mainVars, threadVars, batchVars
  <1>1. CASE StartBatch
    BY <1>1 DEF StartBatch
  <1>2. CASE AllFailed
    BY <1>2 DEF AllFailed
  <1>3. CASE Launch
    BY <1>3 DEF Launch
  <1>4. CASE LaunchFails
    BY <1>4 DEF LaunchFails
  <1>5. CASE GetFuture
    BY <1>5 DEF GetFuture
  <1>6. ASSUME NEW r \in Resolvers, StopThread(r) PROVE OutcomeInv'
    BY <1>6 DEF StopThread
  <1>7. CASE Classify
    BY <1>7 DEF Classify, AllJoined
  <1>8. ASSUME NEW r \in Resolvers, Begin(r) PROVE OutcomeInv'
    BY <1>8 DEF Begin
  <1>9. ASSUME NEW r \in Resolvers, Return(r) PROVE OutcomeInv'
    BY <1>9 DEF Return
  <1>10. ASSUME NEW r \in Resolvers, StoreFlag(r) PROVE OutcomeInv'
    BY <1>10 DEF StoreFlag
  <1>11. ASSUME NEW r \in Resolvers, StoreError(r) PROVE OutcomeInv'
    BY <1>11 DEF StoreError
  <1>12. ASSUME NEW r \in Resolvers, Count(r) PROVE OutcomeInv'
    BY <1>12 DEF Count
  <1>13. ASSUME NEW r \in Resolvers, SetPromise(r) PROVE OutcomeInv'
    BY <1>13 DEF SetPromise
  <1>14. CASE UNCHANGED vars
    BY <1>14 DEF vars
  <1> QED
    BY <1>1, <1>2, <1>3, <1>4, <1>5, <1>6, <1>7, <1>8, <1>9, <1>10, <1>11, <1>12, <1>13, <1>14
       DEF Next, Main, resolve_one

\* The replies match the places the threads have reached.
LEMMA ThreadStep ==
    IInv /\ [Next]_vars => ThreadInv'
  <1> SUFFICES ASSUME IInv, [Next]_vars PROVE ThreadInv'
    OBVIOUS
  <1>0. TypeOK /\ ThreadInv /\ LaunchInv /\ NoStraggler
    BY DEF IInv
  <1> USE DispatchAssumption, <1>0 DEF TypeOK, ThreadInv, Stored, LaunchInv, InBatch, NoStraggler, Live, Launched, Resolvers, batch_count, Min2, DnsErrors, Replies, mainVars, threadVars, batchVars
  <1>1. CASE StartBatch
    BY <1>1 DEF StartBatch
  <1>2. CASE AllFailed
    BY <1>2 DEF AllFailed
  <1>3. CASE Launch
    BY <1>3 DEF Launch
  <1>4. CASE LaunchFails
    BY <1>4 DEF LaunchFails
  <1>5. CASE GetFuture
    BY <1>5 DEF GetFuture
  <1>6. ASSUME NEW r \in Resolvers, StopThread(r) PROVE ThreadInv'
    BY <1>6 DEF StopThread
  <1>7. CASE Classify
    BY <1>7 DEF Classify, AllJoined
  <1>8. ASSUME NEW r \in Resolvers, Begin(r) PROVE ThreadInv'
    BY <1>8 DEF Begin
  <1>9. ASSUME NEW r \in Resolvers, Return(r) PROVE ThreadInv'
    <2>1. PICK response \in QueryResponses :
             LET e == try_resolve(response) IN
             /\ e = "CANCELLED" => r \in stop
             /\ reply' = [reply EXCEPT ![r] = e]
             /\ pc' = [pc EXCEPT ![r] =
                  IF e \in {"OK", "CANCELLED"} THEN "count"
                  ELSE IF Definitive(e) THEN "flag" ELSE "store"]
      BY <1>9 DEF Return
    <2>2. try_resolve(response) \in Replies
      BY TryResolveType
    <2> QED
      BY <1>9, <2>1, <2>2 DEF Return, Definitive, Replies, DnsErrors
  <1>10. ASSUME NEW r \in Resolvers, StoreFlag(r) PROVE ThreadInv'
    BY <1>10 DEF StoreFlag, Definitive
  <1>11. ASSUME NEW r \in Resolvers, StoreError(r) PROVE ThreadInv'
    BY <1>11 DEF StoreError
  <1>12. ASSUME NEW r \in Resolvers, Count(r) PROVE ThreadInv'
    BY <1>12 DEF Count
  <1>13. ASSUME NEW r \in Resolvers, SetPromise(r) PROVE ThreadInv'
    BY <1>13 DEF SetPromise
  <1>14. CASE UNCHANGED vars
    BY <1>14 DEF vars
  <1> QED
    BY <1>1, <1>2, <1>3, <1>4, <1>5, <1>6, <1>7, <1>8, <1>9, <1>10, <1>11, <1>12, <1>13, <1>14
       DEF Next, Main, resolve_one

\* The promise is set by a thread that answered, or after an error was stored.
LEMMA PromiseStep ==
    IInv /\ [Next]_vars => PromiseInv'
  <1> SUFFICES ASSUME IInv, [Next]_vars PROVE PromiseInv'
    OBVIOUS
  <1>0. TypeOK /\ ThreadInv /\ LaunchInv /\ OutcomeInv /\ PromiseInv /\ NoStraggler
    BY DEF IInv
  <1> USE DispatchAssumption, <1>0 DEF TypeOK, PromiseInv, Stored, OutcomeInv, InBatch, NoStraggler, Live, Launched, Resolvers, batch_count, Min2, Unset, NoRecords, mainVars, threadVars, batchVars
  <1>1. CASE StartBatch
    BY <1>1 DEF StartBatch
  <1>2. CASE AllFailed
    BY <1>2 DEF AllFailed
  <1>3. CASE Launch
    BY <1>3 DEF Launch, LaunchInv
  <1>4. CASE LaunchFails
    BY <1>4 DEF LaunchFails
  <1>5. CASE GetFuture
    BY <1>5 DEF GetFuture
  <1>6. ASSUME NEW r \in Resolvers, StopThread(r) PROVE PromiseInv'
    BY <1>6 DEF StopThread
  <1>7. CASE Classify
    BY <1>7 DEF Classify, AllJoined
  <1>8. ASSUME NEW r \in Resolvers, Begin(r) PROVE PromiseInv'
    BY <1>8 DEF Begin
  <1>9. ASSUME NEW r \in Resolvers, Return(r) PROVE PromiseInv'
    <2>1. \A s \in Resolvers : reply[s] # "none" => reply'[s] = reply[s] /\ pc'[s] = pc[s]
      BY <1>9, ReplyStays
    <2>2. batch_error # "none"
      BY DEF DnsErrors
    <2>3. Stored => Stored'
      BY <1>9, <2>1, <2>2 DEF Return
    <2>4. UNCHANGED <<mainVars, batchVars>>
      BY <1>9 DEF Return
    <2> HIDE DEF Stored
    <2> QED
      BY <2>1, <2>3, <2>4
  <1>10. ASSUME NEW r \in Resolvers, StoreFlag(r) PROVE PromiseInv'
    BY <1>10 DEF StoreFlag
  <1>11. ASSUME NEW r \in Resolvers, StoreError(r) PROVE PromiseInv'
    BY <1>11 DEF StoreError
  <1>12. ASSUME NEW r \in Resolvers, Count(r) PROVE PromiseInv'
    BY <1>12 DEF Count
  <1>13. ASSUME NEW r \in Resolvers, SetPromise(r) PROVE PromiseInv'
    BY <1>13 DEF SetPromise, ThreadInv, LaunchInv
  <1>14. CASE UNCHANGED vars
    BY <1>14 DEF vars
  <1> QED
    BY <1>1, <1>2, <1>3, <1>4, <1>5, <1>6, <1>7, <1>8, <1>9, <1>10, <1>11, <1>12, <1>13, <1>14
       DEF Next, Main, resolve_one

\* Recorded errors stay backed by a reply.
LEMMA ErrorStep ==
    IInv /\ [Next]_vars => ErrorInv'
  <1> SUFFICES ASSUME IInv, [Next]_vars PROVE ErrorInv'
    OBVIOUS
  <1>0. TypeOK /\ ThreadInv /\ OutcomeInv /\ PromiseInv /\ ErrorInv /\ NoStraggler
    BY DEF IInv
  <1> USE DispatchAssumption, <1>0 DEF TypeOK, ErrorInv, InBatch, NoStraggler, Live, Launched, Resolvers, batch_count, Min2, Unset, NoRecords, mainVars, threadVars, batchVars
  <1>1. CASE StartBatch
    BY <1>1 DEF StartBatch
  <1>2. CASE AllFailed
    BY <1>2 DEF AllFailed
  <1>3. CASE Launch
    BY <1>3 DEF Launch
  <1>4. CASE LaunchFails
    BY <1>4 DEF LaunchFails
  <1>5. CASE GetFuture
    BY <1>5 DEF GetFuture
  <1>6. ASSUME NEW r \in Resolvers, StopThread(r) PROVE ErrorInv'
    BY <1>6 DEF StopThread
  <1>7. CASE Classify
    BY <1>7 DEF Classify, AllJoined, Answered, BatchVerdict, OutcomeInv, PromiseInv, Stored
  <1>8. ASSUME NEW r \in Resolvers, Begin(r) PROVE ErrorInv'
    BY <1>8 DEF Begin
  <1>9. ASSUME NEW r \in Resolvers, Return(r) PROVE ErrorInv'
    <2>1. \A s \in Resolvers : reply[s] # "none" => reply'[s] = reply[s]
      BY <1>9, ReplyStays
    <2>2. last_error # "none"
      BY DEF DnsErrors
    <2> QED
      BY <1>9, <2>1, <2>2 DEF Return
  <1>10. ASSUME NEW r \in Resolvers, StoreFlag(r) PROVE ErrorInv'
    BY <1>10 DEF StoreFlag
  <1>11. ASSUME NEW r \in Resolvers, StoreError(r) PROVE ErrorInv'
    BY <1>11 DEF StoreError
  <1>12. ASSUME NEW r \in Resolvers, Count(r) PROVE ErrorInv'
    BY <1>12 DEF Count
  <1>13. ASSUME NEW r \in Resolvers, SetPromise(r) PROVE ErrorInv'
    BY <1>13 DEF SetPromise
  <1>14. CASE UNCHANGED vars
    BY <1>14 DEF vars
  <1> QED
    BY <1>1, <1>2, <1>3, <1>4, <1>5, <1>6, <1>7, <1>8, <1>9, <1>10, <1>11, <1>12, <1>13, <1>14
       DEF Next, Main, resolve_one

\* An NXDOMAIN reply is never forgotten between batches.
LEMMA NxStep ==
    IInv /\ [Next]_vars => NxInv'
  <1> SUFFICES ASSUME IInv, [Next]_vars PROVE NxInv'
    OBVIOUS
  <1>0. TypeOK /\ ThreadInv /\ NxInv /\ NoStraggler
    BY DEF IInv
  <1> USE DispatchAssumption, <1>0 DEF TypeOK, NxInv, InBatch, NoStraggler, Live, Launched, Resolvers, batch_count, Min2, mainVars, threadVars, batchVars
  <1>1. CASE StartBatch
    BY <1>1 DEF StartBatch
  <1>2. CASE AllFailed
    BY <1>2 DEF AllFailed
  <1>3. CASE Launch
    BY <1>3 DEF Launch
  <1>4. CASE LaunchFails
    BY <1>4 DEF LaunchFails
  <1>5. CASE GetFuture
    BY <1>5 DEF GetFuture
  <1>6. ASSUME NEW r \in Resolvers, StopThread(r) PROVE NxInv'
    BY <1>6 DEF StopThread
  <1>7. CASE Classify
    BY <1>7 DEF Classify, AllJoined, BatchVerdict, Definitive, Answered
  <1>8. ASSUME NEW r \in Resolvers, Begin(r) PROVE NxInv'
    BY <1>8 DEF Begin
  <1>9. ASSUME NEW r \in Resolvers, Return(r) PROVE NxInv'
    <2>1. PICK response \in QueryResponses :
             LET e == try_resolve(response) IN
             /\ e = "CANCELLED" => r \in stop
             /\ reply' = [reply EXCEPT ![r] = e]
             /\ pc' = [pc EXCEPT ![r] =
                  IF e \in {"OK", "CANCELLED"} THEN "count"
                  ELSE IF Definitive(e) THEN "flag" ELSE "store"]
      BY <1>9 DEF Return
    <2>2. try_resolve(response) \in Replies
      BY TryResolveType
    <2> QED
      BY <1>9, <2>1, <2>2 DEF Return, Definitive
  <1>10. ASSUME NEW r \in Resolvers, StoreFlag(r) PROVE NxInv'
    BY <1>10 DEF StoreFlag
  <1>11. ASSUME NEW r \in Resolvers, StoreError(r) PROVE NxInv'
    BY <1>11 DEF StoreError
  <1>12. ASSUME NEW r \in Resolvers, Count(r) PROVE NxInv'
    BY <1>12 DEF Count
  <1>13. ASSUME NEW r \in Resolvers, SetPromise(r) PROVE NxInv'
    BY <1>13 DEF SetPromise
  <1>14. CASE UNCHANGED vars
    BY <1>14 DEF vars
  <1> QED
    BY <1>1, <1>2, <1>3, <1>4, <1>5, <1>6, <1>7, <1>8, <1>9, <1>10, <1>11, <1>12, <1>13, <1>14
       DEF Next, Main, resolve_one

\* Once the lookup is over nothing changes any more.
LEMMA DoneIsFinal ==
    ASSUME TypeOK, NoStraggler, [Next]_vars, main = "done"
    PROVE  UNCHANGED vars
  <1> USE DEF NoStraggler, Live
  <1>1. ASSUME NEW r \in Resolvers, resolve_one(r) PROVE FALSE
    BY <1>1 DEF resolve_one, Begin, Return, StoreFlag, StoreError, Count, SetPromise
  <1>2. ~Main
    BY DEF Main, StartBatch, AllFailed, Launch, LaunchFails, GetFuture, StopThread, Classify, AllJoined
  <1> QED
    BY <1>1, <1>2 DEF Next

\* The only steps that end a lookup.
LEMMA EndsHow ==
    ASSUME TypeOK, [Next]_vars, main # "done", main' = "done"
    PROVE  AllFailed \/ Classify
  BY DEF Next, Main, StartBatch, Launch, LaunchFails, GetFuture, StopThread, resolve_one,
         Begin, Return, StoreFlag, StoreError, Count, SetPromise, vars, mainVars

\* What the lookup ends with is right at the end, and stays so.
LEMMA AnswerStep ==
    IInv /\ [Next]_vars => AnswerIsGenuine' /\ NxDomainWins' /\ ErrorIsGenuine'
  <1> SUFFICES ASSUME IInv, [Next]_vars
               PROVE  AnswerIsGenuine' /\ NxDomainWins' /\ ErrorIsGenuine'
    OBVIOUS
  <1>0. /\ TypeOK /\ NoStraggler /\ OutcomeInv /\ PromiseInv /\ ErrorInv /\ NxInv /\ ThreadInv
        /\ AnswerIsGenuine /\ NxDomainWins /\ ErrorIsGenuine
    BY DEF IInv
  <1>1. CASE main = "done"
    <2>1. UNCHANGED vars
      BY <1>0, <1>1, DoneIsFinal
    <2> QED
      BY <1>0, <2>1 DEF vars, mainVars, threadVars, batchVars, AnswerIsGenuine, NxDomainWins,
                        ErrorIsGenuine, Batch, batch_count
  <1>2. CASE main # "done" /\ main' # "done"
    <2>1. OutcomeInv' /\ TypeOK'
      BY <1>0, OutcomeStep, TypeStep
    <2>2. outcome' \in {"pending", "EXCEPTION"}
      BY <1>2, <2>1 DEF OutcomeInv, TypeOK, MainStates
    <2> QED
      BY <1>2, <2>2 DEF AnswerIsGenuine, NxDomainWins, ErrorIsGenuine
  <1>3. CASE main # "done" /\ main' = "done"
    <2> USE <1>0 DEF TypeOK, mainVars, threadVars, batchVars, AnswerIsGenuine, NxDomainWins,
                     ErrorIsGenuine
    <2>1. CASE AllFailed
      <3>1. AnswerIsGenuine'
        BY <2>1 DEF AllFailed, DnsErrors
      <3>2. NxDomainWins'
        BY <2>1 DEF AllFailed, NxInv
      <3>3. ErrorIsGenuine'
        BY <2>1, DispatchAssumption DEF AllFailed, ErrorInv
      <3> QED
        BY <3>1, <3>2, <3>3
    <2>2. CASE Classify /\ outcome = "EXCEPTION"
      BY <2>2 DEF Classify, DnsErrors
    <2>3. CASE Classify /\ outcome = "pending" /\ Answered
      <3>1. outcome' = "OK" /\ UNCHANGED <<offset, batch_result, reply>>
        BY <2>3 DEF Classify
      <3>2. batch_result \in Batch /\ reply[batch_result] = "OK"
        BY <2>3, DispatchAssumption
           DEF Classify, AllJoined, Answered, OutcomeInv, PromiseInv, InBatch, Launched, Batch,
               batch_count, Min2, NoRecords, Unset, Resolvers
      <3> QED
        BY <3>1, <3>2 DEF DnsErrors, Batch, batch_count
    <2>4. CASE Classify /\ outcome = "pending" /\ ~Answered
      <3>1. /\ Definitive(BatchVerdict)
            /\ outcome' = BatchVerdict
            /\ UNCHANGED <<offset, batch_result, reply, pc, has_nxdomain>>
        BY <2>4, <1>3 DEF Classify
      <3>2. main = "join" /\ promise = NoRecords
        BY <2>4 DEF Classify, AllJoined, Answered, OutcomeInv
      <3>3. Stored
        BY <2>4, <3>2 DEF PromiseInv, InBatch
      <3>4. AnswerIsGenuine'
        BY <3>1 DEF Definitive
      <3>5. NxDomainWins'
        <4> SUFFICES ASSUME NEW r \in Resolvers, reply[r] = "NX_DOMAIN"
                     PROVE  BatchVerdict = "NX_DOMAIN"
          BY <3>1
        <4>1. pc[r] # "flag"
          BY <2>4, <3>2 DEF Classify, AllJoined, NoStraggler, Live
        <4> QED
          BY <3>2, <4>1 DEF NxInv, InBatch, BatchVerdict
      <3>6. ErrorIsGenuine'
        BY <3>1, <3>2, <3>3 DEF Stored, ErrorInv, InBatch, BatchVerdict
      <3> QED
        BY <3>4, <3>5, <3>6
    <2> QED
      BY <1>3, <2>1, <2>2, <2>3, <2>4, EndsHow DEF Classify
  <1> QED
    BY <1>1, <1>2, <1>3

-----------------------------------------------------------------------------
(* The theorems. *)

\* The initial state satisfies the invariant.
LEMMA InitIInv == Init => IInv
  <1> SUFFICES ASSUME Init PROVE IInv
    OBVIOUS
  <1>1. /\ pipe \in [Resolvers -> BOOLEAN]
        /\ has_nxdomain \in BOOLEAN
        /\ has_definitive \in BOOLEAN
    BY Zenon DEF Init
  <1>2. TypeOK
    BY <1>1, DispatchAssumption DEF Init, TypeOK, MainStates, ThreadStates, DnsErrors
  <1>3. NoStraggler /\ ThreadInv /\ LaunchInv
    BY DEF Init, NoStraggler, Live, ThreadInv, LaunchInv, InBatch
  <1>4. OutcomeInv /\ PromiseInv /\ ErrorInv /\ NxInv
    BY DEF Init, OutcomeInv, PromiseInv, ErrorInv, NxInv, InBatch
  <1>5. AnswerIsGenuine /\ NxDomainWins /\ ErrorIsGenuine
    BY DEF Init, AnswerIsGenuine, NxDomainWins, ErrorIsGenuine
  <1> QED
    BY <1>2, <1>3, <1>4, <1>5 DEF IInv

\* Every step preserves it.
LEMMA NextIInv == IInv /\ [Next]_vars => IInv'
  BY TypeStep, StragglerStep, LaunchStep, OutcomeStep, ThreadStep, PromiseStep, ErrorStep, NxStep,
     AnswerStep DEF IInv

\* The inductive invariant holds in every reachable state.
THEOREM Invariance == Spec => []IInv
  BY InitIInv, NextIInv, PTL DEF Spec

\* Every field of a lookup keeps a value of its C++ type.
THEOREM TypeCorrect == Spec => []TypeOK
  <1>1. IInv => TypeOK
    BY DEF IInv
  <1> QED
    BY <1>1, Invariance, PTL

\* No resolve_one thread touches BatchRunner's members after its batch.
THEOREM NoStragglers == Spec => []NoStraggler
  <1>1. IInv => NoStraggler
    BY DEF IInv
  <1> QED
    BY <1>1, Invariance, PTL

\* Records that a lookup returns were sent by a resolver of its last batch,
\* NXDOMAIN takes precedence over every other error, and an error that a lookup
\* returns was reported by a resolver.
THEOREM GenuineOutcome == Spec => []OutcomeIsGenuine
  <1>1. IInv => OutcomeIsGenuine
    BY DEF IInv, OutcomeIsGenuine
  <1> QED
    BY <1>1, Invariance, PTL
-----------------------------------------------------------------------------
(***************************************************************************)
(* A concurrent lookup implements Lookup.  Beyond IInv this needs that the *)
(* error variables never hold CANCELLED, and that the initial NODATA of    *)
(* last_error survives only when no batch was run.                         *)
(***************************************************************************)
Untainted ==
    /\ batch_error # "CANCELLED"
    /\ last_error # "CANCELLED"
    /\ offset = 0 => last_error = "NODATA"

\* A cancelled query stores no error.
LEMMA UntaintedStep ==
    IInv /\ Untainted /\ [Next]_vars => Untainted'
  <1> SUFFICES ASSUME IInv, Untainted, [Next]_vars PROVE Untainted'
    OBVIOUS
  <1> USE DEF Untainted, mainVars, threadVars, batchVars
  <1>1. CASE Main
    <2>1. CASE Classify
      BY <2>1, DispatchAssumption DEF Classify, BatchVerdict, IInv, TypeOK
    <2> QED
      BY <1>1, <2>1 DEF Main, StartBatch, AllFailed, Launch, LaunchFails, GetFuture, StopThread
  <1>2. ASSUME NEW r \in Resolvers, resolve_one(r) PROVE Untainted'
    BY <1>2 DEF resolve_one, Begin, Return, StoreFlag, StoreError, Count, SetPromise,
                IInv, ThreadInv
  <1>3. CASE UNCHANGED vars
    BY <1>3 DEF vars
  <1> QED
    BY <1>1, <1>2, <1>3 DEF Next

\* A batch consists of resolvers.
LEMMA BatchBound ==
    ASSUME NEW o \in Nat, NEW r \in (o + 1) .. (o + Min2(BatchMax, Total - o))
    PROVE  r \in Resolvers
  BY DispatchAssumption DEF Min2, Resolvers

\* Lookup and the lookup speak of the same replies.
LEMMA SameReplies == Contract!Replies = Replies
  BY DEF Contract!Replies, Contract!DnsErrors, Replies, DnsErrors

\* A step that ends the lookup without an exception is a Return of Lookup: the
\* invariants about the outcome are what Faithful asks for.
LEMMA EndingRefines ==
    ASSUME IInv', main # "done", reply' = reply, main' = "done",
           outcome' \in Replies \ {"CANCELLED"},
           Total = 0 => outcome' = "NODATA"
    PROVE  Contract!Return
  <1>1. outcome' # "OK" => outcome' \in DnsErrors
    BY DEF Replies
  <1>2. Contract!Said(outcome') \/ (outcome' = "NODATA" /\ \A r \in Resolvers : reply[r] = "none")
    <2>1. CASE outcome' = "OK"
      <3>1. batch_result' \in Batch' /\ reply[batch_result'] = "OK" /\ offset' \in Nat
        BY <2>1 DEF IInv, AnswerIsGenuine, TypeOK
      <3>2. batch_result' \in Resolvers
        BY <3>1, BatchBound DEF Batch, batch_count
      <3> QED
        BY <2>1, <3>1, <3>2 DEF Contract!Said
    <2>2. CASE outcome' \in DnsErrors
      <3>1. (\E r \in Resolvers : reply[r] = outcome') \/ Total = 0
        BY <2>2 DEF IInv, ErrorIsGenuine
      <3>2. Total = 0 => outcome' = "NODATA" /\ \A r \in Resolvers : reply[r] = "none"
        BY DEF Resolvers
      <3> QED
        BY <3>1, <3>2 DEF Contract!Said
    <2> QED
      BY <1>1, <2>1, <2>2
  <1>3. outcome' # "OK" /\ Contract!Said("NX_DOMAIN") => outcome' = "NX_DOMAIN"
    BY <1>1 DEF IInv, NxDomainWins, Contract!Said
  <1>4. Contract!Faithful(outcome') /\ outcome' \in Contract!Replies
    BY <1>2, <1>3, SameReplies DEF Contract!Faithful
  <1> QED
    BY <1>4 DEF Contract!Return

\* Every step of the lookup is a step of Lookup, or the caller sees nothing.
LEMMA StepRefines ==
    IInv /\ IInv' /\ Untainted /\ [Next]_vars => [Contract!Next]_(Contract!vars)
  <1> SUFFICES ASSUME IInv, IInv', Untainted, [Next]_vars
               PROVE  [Contract!Next]_(Contract!vars)
    OBVIOUS
  <1> USE DEF mainVars, threadVars, batchVars
  <1>1. CASE AllFailed
    <2>1. outcome' \in Replies \ {"CANCELLED"} /\ (Total = 0 => outcome' = "NODATA")
      BY <1>1, DispatchAssumption DEF AllFailed, IInv, TypeOK, Untainted, Replies, ErrorInv, Resolvers
    <2>2. Contract!Return
      BY <1>1, <2>1, EndingRefines DEF AllFailed
    <2> QED
      BY <2>2 DEF Contract!Next
  <1>2. CASE Classify
    <2>1. CASE main' = "next_batch"
      BY <1>2, <2>1 DEF Classify, AllJoined, Contract!vars
    <2>2. CASE main' = "done" /\ outcome = "EXCEPTION"
      BY <1>2, <2>2 DEF Classify, AllJoined, Contract!Next, Contract!Throw
    <2>3. CASE main' = "done" /\ outcome # "EXCEPTION"
      <3>1. outcome' \in Replies \ {"CANCELLED"}
        BY <1>2, <2>3 DEF Classify, BatchVerdict, IInv, TypeOK, Untainted, Replies, DnsErrors
      <3>2. Total # 0
        BY <1>2 DEF Classify, AllJoined, IInv, TypeOK
      <3>3. Contract!Return
        BY <1>2, <2>3, <3>1, <3>2, EndingRefines DEF Classify, AllJoined
      <3> QED
        BY <3>3 DEF Contract!Next
    <2> QED
      BY <1>2, <2>1, <2>2, <2>3 DEF Classify
  <1>3. CASE StartBatch \/ Launch \/ LaunchFails \/ GetFuture \/ \E r \in Resolvers : StopThread(r)
    BY <1>3 DEF StartBatch, Launch, LaunchFails, GetFuture, StopThread, Contract!vars
  <1>4. ASSUME NEW r \in Resolvers, Return(r) PROVE [Contract!Next]_(Contract!vars)
    <2>1. main # "done"
      BY <1>4 DEF Return, IInv, NoStraggler, Live
    <2>2. reply[r] = "none"
      BY <1>4 DEF Return, IInv, ThreadInv
    <2>3. PICK response \in QueryResponses :
             reply' = [reply EXCEPT ![r] = try_resolve(response)]
      BY <1>4 DEF Return
    <2>4. try_resolve(response) \in Replies
      BY TryResolveType, DispatchAssumption
    <2>5. Contract!Hear(r)
      BY <1>4, <2>1, <2>2, <2>3, <2>4, SameReplies DEF Return, Contract!Hear
    <2> QED
      BY <2>5 DEF Contract!Next
  <1>5. ASSUME NEW r \in Resolvers,
               Begin(r) \/ StoreFlag(r) \/ StoreError(r) \/ Count(r) \/ SetPromise(r)
        PROVE  [Contract!Next]_(Contract!vars)
    BY <1>5 DEF Begin, StoreFlag, StoreError, Count, SetPromise, Contract!vars
  <1>6. CASE UNCHANGED vars
    BY <1>6 DEF vars, Contract!vars
  <1> QED
    BY <1>1, <1>2, <1>3, <1>4, <1>5, <1>6 DEF Next, Main, resolve_one

\* A concurrent lookup is one that Lookup allows, for any number of resolvers,
\* any batch size and any responses.
THEOREM ConcurrentImplementsLookup == Spec => Contract!Spec
  <1>1. Init => Contract!Init
    BY DEF Init, Contract!Init
  <1>2. Init => Untainted
    BY DEF Init, Untainted
  <1> QED
    BY <1>1, <1>2, Invariance, UntaintedStep, StepRefines, PTL DEF Spec, Contract!Spec
-----------------------------------------------------------------------------
(* The sequential runners, as the back ends use them. *)

NativeSeq == INSTANCE SequentialRunnerProofs WITH
                 Answers <- UncancelledResponses
SystemSeq == INSTANCE SequentialRunnerProofs WITH
                 reply <- answer, outcome <- ended,
                 Answers <- System!SystemResponses \ {System!Cancelled}

-----------------------------------------------------------------------------
(* The runners of the back ends are the ones the proofs are about. *)

LEMMA NativeSingle == Sequential!Single <=> NativeSeq!Single
  BY DEF Sequential!Single, NativeSeq!Single

LEMMA SystemSingle ==
    /\ System!Runner!Single <=> SystemSeq!Single
    /\ System!Runner!Single <=> Sequential!Single
    /\ System!Resolvers = Resolvers
  BY DEF System!Runner!Single, SystemSeq!Single, Sequential!Single, System!Resolvers, Resolvers

LEMMA NativeRunner == Sequential!Next => NativeSeq!Next
  <1> SUFFICES ASSUME Sequential!Next PROVE NativeSeq!Next
    OBVIOUS
  <1>1. ASSUME NEW r \in Resolvers, Sequential!Query(r) PROVE NativeSeq!Query(r)
    BY <1>1, NativeSingle DEF Sequential!Query, NativeSeq!Query, Sequential!try_resolve,
                              NativeSeq!try_resolve
  <1>2. Sequential!Retry => NativeSeq!Retry
    BY NativeSingle DEF Sequential!Retry, NativeSeq!Retry, Sequential!RetryAgain, NativeSeq!RetryAgain,
                        Sequential!is_retryable, NativeSeq!is_retryable
  <1>3. Sequential!MoveOn => NativeSeq!MoveOn
    BY NativeSingle DEF Sequential!MoveOn, NativeSeq!MoveOn, Sequential!StopsIteration,
                        NativeSeq!StopsIteration, Sequential!Definitive, NativeSeq!Definitive,
                        Sequential!DnsErrors, NativeSeq!DnsErrors
  <1>4. (Sequential!Wake => NativeSeq!Wake) /\ (Sequential!AllFailed => NativeSeq!AllFailed)
    BY NativeSingle DEF Sequential!Wake, NativeSeq!Wake, Sequential!AllFailed, NativeSeq!AllFailed
  <1>5. Sequential!Return => NativeSeq!Return
    BY NativeSingle DEF Sequential!Return, NativeSeq!Return, Sequential!RetryAgain,
                        NativeSeq!RetryAgain, Sequential!is_retryable, NativeSeq!is_retryable,
                        Sequential!StopsIteration, NativeSeq!StopsIteration, Sequential!Definitive,
                        NativeSeq!Definitive, Sequential!DnsErrors, NativeSeq!DnsErrors
  <1> QED
    BY <1>1, <1>2, <1>3, <1>4, <1>5 DEF Sequential!Next, NativeSeq!Next

LEMMA SystemRunner == System!Runner!Next => SystemSeq!Next
  <1> SUFFICES ASSUME System!Runner!Next PROVE SystemSeq!Next
    OBVIOUS
  <1>1. ASSUME NEW r \in Resolvers, System!Runner!Query(r) PROVE SystemSeq!Query(r)
    BY <1>1, SystemSingle DEF System!Runner!Query, SystemSeq!Query, System!Runner!try_resolve,
                              SystemSeq!try_resolve
  <1>2. System!Runner!Retry => SystemSeq!Retry
    BY SystemSingle DEF System!Runner!Retry, SystemSeq!Retry, System!Runner!RetryAgain,
                        SystemSeq!RetryAgain, System!Runner!is_retryable, SystemSeq!is_retryable
  <1>3. System!Runner!MoveOn => SystemSeq!MoveOn
    BY SystemSingle DEF System!Runner!MoveOn, SystemSeq!MoveOn, System!Runner!StopsIteration,
                        SystemSeq!StopsIteration, System!Runner!Definitive, SystemSeq!Definitive,
                        System!Runner!DnsErrors, SystemSeq!DnsErrors
  <1>4. /\ System!Runner!Wake => SystemSeq!Wake
        /\ System!Runner!AllFailed => SystemSeq!AllFailed
    BY SystemSingle DEF System!Runner!Wake, SystemSeq!Wake, System!Runner!AllFailed, SystemSeq!AllFailed
  <1>5. System!Runner!Return => SystemSeq!Return
    BY SystemSingle DEF System!Runner!Return, SystemSeq!Return, System!Runner!RetryAgain,
                        SystemSeq!RetryAgain, System!Runner!is_retryable, SystemSeq!is_retryable,
                        System!Runner!StopsIteration, SystemSeq!StopsIteration,
                        System!Runner!Definitive, SystemSeq!Definitive, System!Runner!DnsErrors,
                        SystemSeq!DnsErrors
  <1> QED
    BY <1>1, <1>2, <1>3, <1>4, <1>5, SystemSingle DEF System!Runner!Next, SystemSeq!Next

\* Without a token no query of the native resolvers is cancelled.
LEMMA NativeUncancelled == NativeSeq!Uncancelled
  <1>1. ASSUME NEW response \in UncancelledResponses
        PROVE  NativeSeq!try_resolve(response) \in NativeSeq!Replies \ {"CANCELLED"}
    <2>1. response \in Responses /\ response \notin [kind : {"transport"}, error : {"CANCELLED"}]
      BY DEF UncancelledResponses
    <2>2. CASE response \in [kind : {"transport"}, error : DnsErrors]
      <3>1. response.kind = "transport" /\ response.error \in DnsErrors \ {"CANCELLED"}
        BY <2>1, <2>2
      <3> QED
        BY <3>1 DEF NativeSeq!try_resolve, NativeSeq!Replies, NativeSeq!DnsErrors, DnsErrors
    <2>3. CASE response \in [kind : {"malformed"}] \cup [kind : {"exception"}]
      BY <2>3 DEF NativeSeq!try_resolve, NativeSeq!Replies, NativeSeq!DnsErrors
    <2>4. CASE response \in [kind : {"parsed"}, rcode : Rcodes, records : BOOLEAN]
      BY <2>4 DEF NativeSeq!try_resolve, NativeSeq!Replies, NativeSeq!DnsErrors, Rcodes
    <2> QED
      BY <2>1, <2>2, <2>3, <2>4 DEF Responses
  <1> QED
    BY <1>1, RetryAssumption DEF NativeSeq!Uncancelled

\* What a query of the system back end's resolvers may come back with.
SystemErrors == {"NX_DOMAIN", "NODATA", "RETRY", "UNKNOWN", "PARSE", "CONNECTION", "SERVER_REFUSED"}
SystemReplies == {"OK", "CANCELLED"} \cup SystemErrors

LEMMA SystemUncancelled ==
    /\ \A response \in System!SystemResponses : System!try_resolve(response) \in SystemReplies
    /\ SystemSeq!Uncancelled
  <1> DEFINE Parsed == [kind : {"malformed"}]
                         \cup [kind : {"transport"}, error : {"UNKNOWN"}]
                         \cup [kind : {"parsed"}, rcode : System!Rcodes, records : BOOLEAN]
             Failures == [kind : {"transport"}, error : SystemErrors \cup {"CANCELLED"}]
  <1>1. ASSUME NEW m, NEW intact \in BOOLEAN, m.rcode \in System!Rcodes
        PROVE  System!parse_strings(m, intact) \in Parsed
    <2>1. (m.answers # {}) \in BOOLEAN /\ FALSE \in BOOLEAN
      OBVIOUS
    <2> QED
      BY <1>1, <2>1 DEF System!parse_strings
  <1>2. ASSUME NEW m \in System!res_nquery, NEW intact \in BOOLEAN
        PROVE  System!do_query(m, intact) \in Failures \cup Parsed
    <2>1. CASE "h_errno" \in DOMAIN m
      <3>1. System!get_dns_lookup_err(m.h_errno) \in SystemErrors
        BY DEF System!get_dns_lookup_err, SystemErrors
      <3> QED
        BY <2>1, <3>1 DEF System!do_query
    <2>2. CASE "h_errno" \notin DOMAIN m
      <3>1. m.rcode \in System!Rcodes
        BY <2>2 DEF System!res_nquery, System!Rcodes
      <3> HIDE DEF Parsed, Failures
      <3> QED
        BY <1>1, <2>2, <3>1 DEF System!do_query
    <2> QED
      BY <2>1, <2>2
  <1>3. ASSUME NEW m \in System!encrypted_query, NEW intact \in BOOLEAN
        PROVE  System!ask_encrypted(m, intact) \in Failures \cup Parsed
    <2>1. CASE "error" \in DOMAIN m
      <3>1. m.error \in SystemErrors \cup {"CANCELLED"}
        BY <2>1 DEF System!encrypted_query, SystemErrors
      <3> QED
        BY <2>1, <3>1 DEF System!ask_encrypted
    <2>2. CASE "error" \notin DOMAIN m
      <3>1. m.rcode \in System!Rcodes
        BY <2>2 DEF System!encrypted_query
      <3> HIDE DEF Parsed, Failures
      <3> QED
        BY <1>1, <2>2, <3>1 DEF System!ask_encrypted
    <2> QED
      BY <2>1, <2>2
  <1>4. ASSUME NEW response \in System!SystemResponses
        PROVE  /\ System!try_resolve(response) \in SystemReplies
               /\ response # System!Cancelled => SystemSeq!try_resolve(response) \in SystemReplies \ {"CANCELLED"}
    <2>1. response \in Failures \cup Parsed
      <3> HIDE DEF Parsed, Failures
      <3> QED
        BY <1>2, <1>3 DEF System!SystemResponses
    <2>2. CASE response \in Failures
      <3>1. /\ response.kind = "transport" /\ response.error \in SystemErrors \cup {"CANCELLED"}
            /\ response # System!Cancelled => response.error # "CANCELLED"
        BY <2>2 DEF System!Cancelled
      <3> QED
        BY <3>1 DEF System!try_resolve, SystemSeq!try_resolve, SystemReplies
    <2>3. CASE response \in Parsed
      <3>1. \/ response.kind = "malformed"
            \/ response.kind = "transport" /\ response.error = "UNKNOWN"
            \/ response.kind = "parsed" /\ response.rcode \in System!Rcodes
        BY <2>3
      <3> QED
        BY <3>1 DEF System!try_resolve, SystemSeq!try_resolve, SystemReplies, SystemErrors, System!Rcodes
    <2> QED
      BY <2>1, <2>2, <2>3
  <1>5. SystemReplies \ {"CANCELLED"} \subseteq SystemSeq!Replies \ {"CANCELLED"}
    BY DEF SystemReplies, SystemErrors, SystemSeq!Replies, SystemSeq!DnsErrors
  <1> QED
    BY <1>4, <1>5, RetryAssumption DEF SystemSeq!Uncancelled

-----------------------------------------------------------------------------
(* The native back end *)

Batches == backend = "native" /\ Concurrently

NativeInv ==
    /\ backend \in {"native", "system"}
    /\ Batches => IInv /\ Untainted
    /\ ~Batches => main = "next_batch" /\ pc = [r \in Resolvers |-> "none"]
    /\ backend = "native" /\ ~Concurrently => NativeSeq!SeqInv
    /\ backend = "system" => outcome = "pending"

LEMMA NativeInitial == BackendsInit => NativeInv
  <1> SUFFICES ASSUME BackendsInit PROVE NativeInv
    OBVIOUS
  <1>1. Init /\ Sequential!Init
    BY DEF BackendsInit, DispatcherInit
  <1>2. IInv /\ Untainted
    BY <1>1, InitIInv DEF Init, Untainted
  <1>3. NativeSeq!Init
    BY <1>1 DEF Sequential!Init, NativeSeq!Init
  <1>4. NativeSeq!SeqInv
    BY <1>3, NativeUncancelled, NativeSeq!SeqInitial
  <1> QED
    BY <1>1, <1>2, <1>4 DEF NativeInv, BackendsInit, Init

\* A sequential runner leaves the configuration alone.
LEMMA ConfigurationStays ==
    /\ Sequential!Next => configured' = configured
    /\ System!Runner!Next => configured' = configured
  BY DEF Sequential!Next, Sequential!Query, Sequential!Retry, Sequential!Wake, Sequential!MoveOn,
         Sequential!AllFailed, Sequential!Return, System!Runner!Next, System!Runner!Query,
         System!Runner!Retry, System!Runner!Wake, System!Runner!MoveOn, System!Runner!AllFailed,
         System!Runner!Return

\* The back end and the strategy stay the same during a lookup.
LEMMA ModeStays ==
    ASSUME [BackendsNext]_backendVars
    PROVE  /\ backend' = backend /\ strategy' = strategy /\ configured' = configured
           /\ Concurrently' = Concurrently
           /\ Sequential!Single' = Sequential!Single
  <1>1. backend' = backend /\ strategy' = strategy /\ configured' = configured
    <2>1. CASE UNCHANGED backendVars
      BY <2>1 DEF backendVars, dispatcherVars
    <2>2. CASE native(DispatcherNext)
      BY <2>2, ConfigurationStays DEF native, DispatcherNext, resolve_concurrently, resolve_sequentially
    <2>3. CASE system(System!Next)
      BY <2>3, ConfigurationStays DEF system, System!Next, System!concurrently, System!sequentially,
                                      System!runnerVars
    <2> QED
      BY <2>1, <2>2, <2>3 DEF BackendsNext
  <1> QED
    BY <1>1 DEF Concurrently, Sequential!Single

\* What a step is in each mode.
LEMMA NativeSteps ==
    ASSUME [BackendsNext]_backendVars, backend = "native"
    PROVE  /\ Concurrently => [Next]_vars
           /\ ~Concurrently => /\ [NativeSeq!Next]_(NativeSeq!vars)
                               /\ UNCHANGED <<main, pc>>
  <1>1. CASE UNCHANGED backendVars
    BY <1>1 DEF backendVars, dispatcherVars, sequentialVars, vars, mainVars, threadVars, NativeSeq!vars
  <1>2. CASE native(DispatcherNext)
    BY <1>2, NativeRunner DEF native, DispatcherNext, resolve_concurrently, resolve_sequentially
  <1> QED
    BY <1>1, <1>2 DEF BackendsNext, system

LEMMA SystemSteps ==
    ASSUME [BackendsNext]_backendVars, backend = "system"
    PROVE  UNCHANGED <<main, pc, reply, outcome>>
  <1>1. CASE UNCHANGED backendVars
    BY <1>1 DEF backendVars, dispatcherVars, vars, mainVars, threadVars
  <1>2. CASE system(System!Next)
    BY <1>2 DEF system, threadVars
  <1> QED
    BY <1>1, <1>2 DEF BackendsNext, native

LEMMA NativeNext == NativeInv /\ [BackendsNext]_backendVars => NativeInv'
  <1> SUFFICES ASSUME NativeInv, [BackendsNext]_backendVars PROVE NativeInv'
    OBVIOUS
  <1>1. backend' = backend /\ Concurrently' = Concurrently /\ Batches' = Batches
    BY ModeStays DEF Batches
  <1>2. CASE backend = "system"
    BY <1>1, <1>2, SystemSteps DEF NativeInv, Batches
  <1>3. CASE backend = "native" /\ Concurrently
    <2>1. IInv /\ Untainted /\ [Next]_vars
      BY <1>3, NativeSteps DEF NativeInv, Batches
    <2>2. IInv' /\ Untainted'
      BY <2>1, NextIInv, UntaintedStep
    <2> QED
      BY <1>1, <1>3, <2>2 DEF NativeInv, Batches
  <1>4. CASE backend = "native" /\ ~Concurrently
    <2>1. NativeSeq!SeqInv /\ [NativeSeq!Next]_(NativeSeq!vars) /\ UNCHANGED <<main, pc>>
      BY <1>4, NativeSteps DEF NativeInv
    <2>2. NativeSeq!SeqInv'
      BY <2>1, NativeUncancelled, NativeSeq!SeqNext
    <2> QED
      BY <1>1, <1>4, <2>1, <2>2 DEF NativeInv, Batches
  <1> QED
    BY <1>2, <1>3, <1>4 DEF NativeInv

LEMMA NativeInvariance == BackendsSpec => []NativeInv
  BY NativeInitial, NativeNext, PTL DEF BackendsSpec

\* Whatever the strategy and the back end, no thread of a batch works on the
\* members of BatchRunner after its batch.
THEOREM NobodyOutlivesItsBatch == BackendsSpec => []NoStraggler
  <1>1. NativeInv => NoStraggler
    BY DEF NativeInv, IInv, NoStraggler, Live
  <1> QED
    BY <1>1, NativeInvariance, PTL

\* Whatever the strategy and the back end, a batch's outcome is one that a
\* resolver of it is responsible for.
THEOREM OutcomesAreGenuine == BackendsSpec => []OutcomeIsGenuine
  <1>1. NativeInv => OutcomeIsGenuine
    BY DEF NativeInv, IInv, OutcomeIsGenuine, AnswerIsGenuine, NxDomainWins, ErrorIsGenuine
  <1> QED
    BY <1>1, NativeInvariance, PTL

\* A transient error is reported only after max_retries retries of the single
\* resolver, or after every resolver was asked.
THEOREM RetriesAreExhausted == BackendsSpec => []NotGivenUpEarly
  <1>1. NativeInv => NotGivenUpEarly
    <2> SUFFICES ASSUME NativeInv, ~Concurrently PROVE Sequential!NotGivenUpEarly
      BY DEF NotGivenUpEarly
    <2>1. CASE backend = "native"
      <3>1. NativeSeq!NotGivenUpEarly
        BY <2>1, NativeUncancelled, NativeSeq!NotEarly DEF NativeInv
      <3> QED
        BY <3>1, NativeSingle
           DEF NativeSeq!NotGivenUpEarly, Sequential!NotGivenUpEarly, NativeSeq!is_retryable,
               Sequential!is_retryable, NativeSeq!DnsErrors, Sequential!DnsErrors,
               NativeSeq!Definitive, Sequential!Definitive
    <2>2. CASE backend = "system"
      BY <2>2 DEF NativeInv, Sequential!NotGivenUpEarly, Sequential!is_retryable, Sequential!DnsErrors
    <2> QED
      BY <2>1, <2>2 DEF NativeInv
  <1> QED
    BY <1>1, NativeInvariance, PTL

\* The strict contract as the dispatcher states it.
LEMMA StrictSteps ==
    ASSUME NativeInv, [BackendsNext]_backendVars, ~Concurrently
    PROVE  [Promise!StrictNext]_<<reply, outcome>>
  <1>1. CASE backend = "system"
    BY <1>1, SystemSteps
  <1>2. CASE backend = "native"
    <2>1. [NativeSeq!Contract!StrictNext]_<<reply, outcome>>
      BY <1>2, NativeSteps, NativeUncancelled, NativeSeq!NextIsStrict DEF NativeInv
    <2>2. NativeSeq!Contract!StrictNext => Promise!StrictNext
      BY DEF NativeSeq!Contract!StrictNext, Promise!StrictNext, NativeSeq!Contract!StrictHear,
             Promise!StrictHear, NativeSeq!Contract!StrictReturn, Promise!StrictReturn,
             NativeSeq!Contract!Hear, Promise!Hear, NativeSeq!Contract!Return, Promise!Return,
             NativeSeq!Contract!Faithful, Promise!Faithful, NativeSeq!Contract!Said, Promise!Said,
             NativeSeq!Contract!Replies, Promise!Replies, NativeSeq!Contract!DnsErrors,
             Promise!DnsErrors, NativeSeq!Contract!is_retryable, Promise!is_retryable,
             NativeSeq!Contract!Definitive, Promise!Definitive
    <2> QED
      BY <2>1, <2>2
  <1> QED
    BY <1>1, <1>2 DEF NativeInv

\* A single resolver and the fallback end with the first answer, the first
\* definitive error, or the last transient one, and ask nobody after it.
THEOREM SequentialStrategiesAreStrict == BackendsSpec => SequentialIsStrict
  <1>1. NativeInv /\ [BackendsNext]_backendVars
           => [~Concurrently => [Promise!StrictNext]_<<reply, outcome>>]_dispatcherVars
    BY StrictSteps
  <1> QED
    BY <1>1, NativeInvariance, PTL DEF BackendsSpec, SequentialIsStrict

-----------------------------------------------------------------------------
(* The native dispatcher implements Lookup. *)

DispatcherInv ==
    /\ Concurrently => IInv /\ Untainted
    /\ ~Concurrently => NativeSeq!SeqInv

\* What a step of the dispatcher is in each mode.
LEMMA DispatcherSteps ==
    ASSUME [DispatcherNext]_dispatcherVars
    PROVE  /\ Concurrently' = Concurrently
           /\ Concurrently => [Next]_vars
           /\ ~Concurrently => [NativeSeq!Next]_(NativeSeq!vars) /\ main' = main
  <1>1. CASE UNCHANGED dispatcherVars
    BY <1>1 DEF dispatcherVars, sequentialVars, vars, mainVars, threadVars, NativeSeq!vars,
                Concurrently, Sequential!Single
  <1>2. CASE DispatcherNext
    <2>1. strategy' = strategy /\ configured' = configured
      BY <1>2, ConfigurationStays DEF DispatcherNext, resolve_concurrently, resolve_sequentially
    <2> QED
      BY <1>2, <2>1, NativeRunner DEF DispatcherNext, resolve_concurrently, resolve_sequentially,
                                      Concurrently, Sequential!Single
  <1> QED
    BY <1>1, <1>2

LEMMA DispatcherInitial == DispatcherInit => DispatcherInv
  <1> SUFFICES ASSUME DispatcherInit PROVE DispatcherInv
    OBVIOUS
  <1>1. IInv /\ Untainted
    BY InitIInv DEF DispatcherInit, Init, Untainted
  <1>2. NativeSeq!Init
    BY DEF DispatcherInit, Sequential!Init, NativeSeq!Init
  <1> QED
    BY <1>1, <1>2, NativeUncancelled, NativeSeq!SeqInitial DEF DispatcherInv

LEMMA DispatcherKeeps == DispatcherInv /\ [DispatcherNext]_dispatcherVars => DispatcherInv'
  <1> SUFFICES ASSUME DispatcherInv, [DispatcherNext]_dispatcherVars PROVE DispatcherInv'
    OBVIOUS
  <1>1. CASE Concurrently
    BY <1>1, DispatcherSteps, NextIInv, UntaintedStep, Zenon DEF DispatcherInv
  <1>2. CASE ~Concurrently
    BY <1>2, DispatcherSteps, NativeUncancelled, NativeSeq!SeqNext DEF DispatcherInv
  <1> QED
    BY <1>1, <1>2

\* A batch's step is one of Lookup as the caller of resolve sees it.
LEMMA BatchStepServes ==
    ASSUME DispatcherInv, DispatcherInv', [DispatcherNext]_dispatcherVars, Concurrently
    PROVE  [Service!Next]_(Service!vars)
  <1>1. /\ Returned = IF main = "done" THEN outcome ELSE "pending"
        /\ Returned' = IF main' = "done" THEN outcome' ELSE "pending"
    BY DispatcherSteps, Zenon DEF Returned
  <1>2. [Contract!Next]_(Contract!vars)
    BY DispatcherSteps, StepRefines, Zenon DEF DispatcherInv
  <1>3. CASE UNCHANGED Contract!vars
    BY <1>1, <1>3 DEF Contract!vars, Service!vars
  <1>4. CASE Contract!Next
    BY <1>1, <1>4 DEF Contract!Next, Contract!Hear, Contract!Return, Contract!Throw, Contract!Faithful,
          Contract!Said, Contract!Replies, Contract!DnsErrors, Contract!is_retryable,
          Service!Next, Service!Hear, Service!Return, Service!Throw, Service!Faithful,
          Service!Said, Service!Replies, Service!DnsErrors, Service!is_retryable
  <1> QED
    BY <1>2, <1>3, <1>4

\* So is a step of a sequential runner, which even keeps the strict contract.
LEMMA SequentialStepServes ==
    ASSUME DispatcherInv, [DispatcherNext]_dispatcherVars, ~Concurrently
    PROVE  [Service!Next]_(Service!vars)
  <1>1. Returned = outcome /\ Returned' = outcome'
    BY DispatcherSteps DEF Returned
  <1>2. [NativeSeq!Contract!StrictNext]_<<reply, outcome>>
    BY DispatcherSteps, NativeUncancelled, NativeSeq!NextIsStrict DEF DispatcherInv
  <1>3. CASE UNCHANGED <<reply, outcome>>
    BY <1>1, <1>3 DEF Service!vars
  <1>4. CASE NativeSeq!Contract!StrictNext
    BY <1>1, <1>4 DEF NativeSeq!Contract!StrictNext, NativeSeq!Contract!StrictHear,
          NativeSeq!Contract!StrictReturn, NativeSeq!Contract!Hear, NativeSeq!Contract!Return,
          NativeSeq!Contract!Faithful, NativeSeq!Contract!Said, NativeSeq!Contract!Replies,
          NativeSeq!Contract!DnsErrors, NativeSeq!Contract!is_retryable,
          Service!Next, Service!Hear, Service!Return, Service!Faithful,
          Service!Said, Service!Replies, Service!DnsErrors, Service!is_retryable
  <1> QED
    BY <1>2, <1>3, <1>4

\* The native dispatcher implements Lookup with each of its strategies: with one
\* resolver that is retried, with the fallback, and with batches of threads.
THEOREM DispatcherImplementsLookup == DispatcherSpec => ImplementsLookup
  <1>1. DispatcherInit => Service!Init
    BY DEF DispatcherInit, Init, Service!Init, Returned
  <1>2. DispatcherInv /\ DispatcherInv' /\ [DispatcherNext]_dispatcherVars
           => [Service!Next]_(Service!vars)
    BY BatchStepServes, SequentialStepServes
  <1> QED
    BY <1>1, <1>2, DispatcherInitial, DispatcherKeeps, PTL
       DEF DispatcherSpec, ImplementsLookup, Service!Spec

-----------------------------------------------------------------------------
(* The system back end, with detached threads *)

\* The errors that definitive_error may hold.
Thrown == {"NX_DOMAIN", "PARSE", "SERVER_REFUSED"}

States == [has_result : BOOLEAN, has_nxdomain : BOOLEAN,
           definitive_error : {"none"} \cup Thrown,
           transient_error : {"none"} \cup SystemReplies, completed : Nat]

DetachedType ==
    /\ offset \in Nat /\ launched \in Nat
    /\ waiting \in {"next", "launch", "left"}
    /\ state \in States
    /\ thread \in [Resolvers -> {"none", "query", "gone"}]
    /\ answer \in [Resolvers -> {"none"} \cup SystemReplies]
    /\ ended \in {"pending", "EXCEPTION", "EMPTY", "OK"} \cup Thrown
    /\ \A r \in Resolvers : thread[r] = "gone" <=> answer[r] # "none"

\* The resolvers of this batch that have failed.
FailedOnes == {r \in Resolvers : r > offset /\ answer[r] \notin {"none", "OK", "CANCELLED"}}

Somebody(e) == \E r \in Resolvers : answer[r] = e

\* Before the caller has left, all earlier batches have failed, and the threads
\* of this one are there as far as they are launched.
BatchesFailed ==
    /\ waiting # "left" =>
          /\ ended = "pending"
          /\ \A r \in Resolvers : r <= offset => thread[r] = "gone" /\ answer[r] # "OK"
    /\ waiting = "next" => \A r \in Resolvers : r > offset => thread[r] = "none"
    /\ waiting = "launch" =>
          /\ offset < Total /\ launched <= System!total
          /\ \A r \in Resolvers : r > offset + launched => thread[r] = "none"

\* What the ConcurrentState says is what the threads of the batch have met.
StateIsTrue ==
    waiting = "launch" =>
        /\ state.has_result <=> Somebody("OK")
        /\ state.completed = Cardinality(FailedOnes)
        /\ state.definitive_error # "none" => Somebody(state.definitive_error)
        /\ state.has_nxdomain => state.definitive_error # "none" /\ Somebody("NX_DOMAIN")

\* When the caller has left without an answer no thread is running.
LeftIsFinal ==
    waiting = "left" /\ ended # "EXCEPTION" =>
        /\ ended # "pending"
        /\ ended = "OK" => Somebody("OK")
        /\ ended # "OK" => \A r \in Resolvers : thread[r] # "query" /\ answer[r] # "OK"
        /\ ended = "EMPTY" => \A r \in Resolvers : answer[r] # "none"
        /\ ended \in Thrown => Somebody(ended)
        /\ ended = "SERVER_REFUSED" => Somebody("NX_DOMAIN")

DetachedInv == DetachedType /\ BatchesFailed /\ StateIsTrue /\ LeftIsFinal

SystemInv ==
    backend = "system" =>
        /\ Concurrently => DetachedInv /\ configured = Resolvers
        /\ ~Concurrently => SystemSeq!SeqInv

LEMMA SystemInitial == BackendsInit => SystemInv
  <1> SUFFICES ASSUME BackendsInit PROVE SystemInv
    OBVIOUS
  <1>1. Sequential!Init /\ (Concurrently => configured = Resolvers)
    BY DEF BackendsInit, DispatcherInit
  <1>2. /\ offset = 0 /\ launched = 0 /\ waiting = "next" /\ state = System!FreshState
        /\ thread = [r \in Resolvers |-> "none"] /\ answer = [r \in Resolvers |-> "none"]
        /\ ended = "pending"
    BY SystemSingle DEF BackendsInit, System!Init, System!None
  <1>3. SystemSeq!Init
    BY <1>1, <1>2 DEF Sequential!Init, SystemSeq!Init
  <1>4. SystemSeq!SeqInv
    BY <1>3, SystemUncancelled, SystemSeq!SeqInitial
  <1>5. System!FreshState \in States
    BY DEF System!FreshState, System!None, States
  <1>6. DetachedInv
    BY <1>2, <1>5 DEF DetachedInv, DetachedType, BatchesFailed, StateIsTrue, LeftIsFinal, Resolvers
  <1> QED
    BY <1>1, <1>4, <1>6 DEF SystemInv

LEMMA FailedFinite == IsFiniteSet(FailedOnes) /\ Cardinality(FailedOnes) \in Nat
  <1>1. IsFiniteSet(Resolvers)
    BY DispatchAssumption, FS_Interval DEF Resolvers
  <1>2. FailedOnes \in SUBSET Resolvers
    BY DEF FailedOnes
  <1>3. IsFiniteSet(FailedOnes)
    BY <1>1, <1>2, FS_Subset
  <1> QED
    BY <1>3, FS_CardinalityType

\* cv.wait has returned without an answer: the whole batch has failed.
LEMMA BatchHasFailed ==
    ASSUME DetachedInv, waiting = "launch", launched = System!total, ~state.has_result, System!WaitOver
    PROVE  \A r \in Resolvers : r <= offset + launched => thread[r] = "gone" /\ answer[r] # "OK"
  <1> DEFINE B == (offset + 1) .. (offset + launched)
  <1>1. offset \in Nat /\ launched \in Nat /\ launched > 0
    BY DispatchAssumption DEF DetachedInv, DetachedType, BatchesFailed, System!total
  <1>2. IsFiniteSet(B) /\ Cardinality(B) = launched
    BY <1>1, FS_Interval
  <1>3. FailedOnes \in SUBSET B
    BY <1>1 DEF FailedOnes, DetachedInv, DetachedType, BatchesFailed, Resolvers
  <1>4. Cardinality(FailedOnes) = launched
    BY DEF DetachedInv, StateIsTrue, System!WaitOver
  <1>5. FailedOnes = B
    <2> HIDE DEF B
    <2> QED
      BY <1>2, <1>3, <1>4, FS_Subset
  <1>6. ASSUME NEW r \in Resolvers, r <= offset + launched
        PROVE  thread[r] = "gone" /\ answer[r] # "OK"
    <2>1. CASE r <= offset
      BY <2>1 DEF DetachedInv, BatchesFailed
    <2>2. CASE ~(r <= offset)
      <3>1. r \in B
        BY <1>1, <1>6, <2>2 DEF Resolvers
      <3>2. r \in FailedOnes
        BY <1>5, <3>1
      <3> QED
        BY <3>2 DEF FailedOnes, DetachedInv, DetachedType
    <2> QED
      BY <2>1, <2>2
  <1> QED
    BY <1>6

\* The steps of resolve_concurrent.
LEMMA StartKeeps == ASSUME DetachedInv, System!StartBatch PROVE DetachedInv'
  <1>1. /\ waiting = "next" /\ waiting' = "launch" /\ launched' = 0 /\ offset < Total
        /\ state' = System!FreshState
        /\ UNCHANGED <<offset, thread, answer, ended>>
    BY DEF System!StartBatch
  <1>2. /\ state' \in States /\ state'.has_result = FALSE /\ state'.has_nxdomain = FALSE
        /\ state'.completed = 0 /\ state'.definitive_error = "none"
    BY <1>1 DEF System!FreshState, System!None, States
  <1>3. \A r \in Resolvers : r > offset => thread[r] = "none" /\ answer[r] = "none"
    BY <1>1 DEF DetachedInv, DetachedType, BatchesFailed
  <1>4. \A r \in Resolvers : answer[r] # "OK"
    BY <1>1, <1>3 DEF DetachedInv, DetachedType, BatchesFailed, Resolvers
  <1>5. FailedOnes' = {}
    BY <1>1, <1>3 DEF FailedOnes
  <1>6. DetachedType'
    BY <1>1, <1>2 DEF DetachedInv, DetachedType
  <1>7. BatchesFailed'
    <2>1. 0 <= System!total' /\ offset + 0 = offset
      BY <1>1, DispatchAssumption DEF System!total, DetachedInv, DetachedType
    <2> QED
      BY <1>1, <1>3, <2>1 DEF DetachedInv, BatchesFailed
  <1>8. StateIsTrue'
    BY <1>1, <1>2, <1>4, <1>5, FS_EmptySet DEF StateIsTrue, Somebody
  <1> QED
    BY <1>1, <1>6, <1>7, <1>8 DEF DetachedInv, LeftIsFinal

LEMMA LaunchKeeps == ASSUME DetachedInv, System!Launch PROVE DetachedInv'
  <1> DEFINE new == offset + launched + 1
  <1>1. /\ waiting = "launch" /\ launched < System!total /\ launched' = launched + 1
        /\ thread' = [thread EXCEPT ![new] = "query"]
        /\ UNCHANGED <<offset, waiting, state, answer, ended>>
    BY DEF System!Launch
  <1>2. offset \in Nat /\ launched \in Nat /\ offset < Total
    BY <1>1 DEF DetachedInv, DetachedType, BatchesFailed
  <1>3. new \in Resolvers /\ new > offset + launched /\ new > offset
    BY <1>1, <1>2, DispatchAssumption DEF System!total, Resolvers
  <1>4. thread[new] = "none" /\ answer[new] = "none"
    BY <1>1, <1>3 DEF DetachedInv, DetachedType, BatchesFailed
  <1> HIDE DEF new
  <1>5. DetachedType'
    BY <1>1, <1>2, <1>3, <1>4 DEF DetachedInv, DetachedType
  <1>6. BatchesFailed'
    <2>1. launched + 1 <= System!total'
      BY <1>1, <1>2, DispatchAssumption DEF System!total
    <2>2. ASSUME NEW r \in Resolvers, r > offset + (launched + 1) PROVE thread'[r] = "none"
      <3>1. r # new /\ r > offset + launched
        BY <1>2, <2>2 DEF new, Resolvers
      <3> QED
        BY <1>1, <3>1 DEF DetachedInv, DetachedType, BatchesFailed
    <2>3. ASSUME NEW r \in Resolvers, r <= offset PROVE thread'[r] = "gone" /\ answer'[r] # "OK"
      <3>1. r # new
        BY <1>2, <1>3, <2>3 DEF Resolvers
      <3> QED
        BY <1>1, <2>3, <3>1 DEF DetachedInv, DetachedType, BatchesFailed
    <2> QED
      BY <1>1, <2>1, <2>2, <2>3 DEF DetachedInv, BatchesFailed
  <1>7. StateIsTrue' /\ LeftIsFinal'
    BY <1>1 DEF DetachedInv, StateIsTrue, LeftIsFinal, FailedOnes, Somebody
  <1> QED
    BY <1>5, <1>6, <1>7 DEF DetachedInv

LEMMA TakeKeeps == ASSUME DetachedInv, System!TakeBatch PROVE DetachedInv'
  <1>1. /\ waiting = "launch" /\ launched = System!total /\ System!WaitOver
        /\ UNCHANGED <<launched, state, thread, answer>>
    BY DEF System!TakeBatch
  <1>2. offset \in Nat /\ launched \in Nat /\ state \in States
    BY DEF DetachedInv, DetachedType
  <1>3. CASE state.has_result /\ ended' = "OK" /\ waiting' = "left" /\ offset' = offset
    <2>1. Somebody("OK")
      BY <1>1, <1>3 DEF DetachedInv, StateIsTrue
    <2> QED
      BY <1>1, <1>3, <2>1 DEF DetachedInv, DetachedType, BatchesFailed, StateIsTrue, LeftIsFinal, Somebody
  <1>4. ASSUME ~state.has_result
        PROVE  \A r \in Resolvers : /\ answer[r] # "OK"
                                    /\ r <= offset + launched => thread[r] = "gone"
                                    /\ r > offset + launched => thread[r] = "none"
    <2>1. \A r \in Resolvers : r <= offset + launched => thread[r] = "gone" /\ answer[r] # "OK"
      BY <1>1, <1>4, BatchHasFailed
    <2>2. \A r \in Resolvers : r > offset + launched => thread[r] = "none" /\ answer[r] # "OK"
      BY <1>1 DEF DetachedInv, DetachedType, BatchesFailed
    <2> QED
      BY <1>2, <2>1, <2>2 DEF Resolvers
  <1>5. CASE /\ ~state.has_result /\ System!Throws
             /\ ended' = state.definitive_error /\ waiting' = "left" /\ offset' = offset
    <2>1. /\ state.definitive_error \in Thrown /\ Somebody(state.definitive_error)
          /\ state.definitive_error = "SERVER_REFUSED" => Somebody("NX_DOMAIN")
      BY <1>1, <1>2, <1>5 DEF System!Throws, System!None, States, Thrown, DetachedInv, StateIsTrue
    <2>2. \A r \in Resolvers : thread[r] # "query" /\ answer[r] # "OK"
      BY <1>2, <1>4, <1>5 DEF Resolvers
    <2>3. DetachedType' /\ BatchesFailed' /\ StateIsTrue'
      BY <1>1, <1>5, <2>1 DEF DetachedInv, DetachedType, BatchesFailed, StateIsTrue
    <2>4. LeftIsFinal'
      BY <1>1, <1>5, <2>1, <2>2 DEF LeftIsFinal, Somebody, Thrown
    <2> QED
      BY <2>3, <2>4 DEF DetachedInv
  <1>6. CASE /\ ~state.has_result
             /\ offset' = offset + BatchMax /\ waiting' = "next" /\ ended' = ended
    <2>1. ASSUME NEW r \in Resolvers PROVE r <= offset + BatchMax <=> r <= offset + launched
      BY <1>1, <1>2, DispatchAssumption DEF System!total, Resolvers
    <2>2. offset + BatchMax \in Nat
      BY <1>2, DispatchAssumption
    <2>3. DetachedType' /\ StateIsTrue' /\ LeftIsFinal'
      BY <1>1, <1>6, <2>2 DEF DetachedInv, DetachedType, StateIsTrue, LeftIsFinal
    <2>4. ASSUME NEW r \in Resolvers, r > offset + BatchMax PROVE r > offset + launched
      BY <1>2, <2>1, <2>2, <2>4 DEF Resolvers
    <2>5. BatchesFailed'
      BY <1>1, <1>4, <1>6, <2>1, <2>4 DEF DetachedInv, BatchesFailed
    <2> QED
      BY <2>3, <2>5 DEF DetachedInv
  <1> QED
    BY <1>3, <1>5, <1>6 DEF System!TakeBatch

LEMMA LeaveKeeps == ASSUME DetachedInv, System!LaunchFails \/ System!AllFailed PROVE DetachedInv'
  <1>1. CASE System!LaunchFails
    BY <1>1 DEF System!LaunchFails, DetachedInv, DetachedType, BatchesFailed, StateIsTrue, LeftIsFinal
  <1>2. CASE System!AllFailed
    <2>1. /\ waiting = "next" /\ offset >= Total /\ ended' = "EMPTY" /\ waiting' = "left"
          /\ UNCHANGED <<offset, launched, state, thread, answer>>
      BY <1>2 DEF System!AllFailed
    <2>2. \A r \in Resolvers : r <= offset
      BY <2>1, DispatchAssumption DEF Resolvers, DetachedInv, DetachedType
    <2>3. \A r \in Resolvers : thread[r] = "gone" /\ answer[r] # "OK" /\ answer[r] # "none"
      BY <2>1, <2>2 DEF DetachedInv, DetachedType, BatchesFailed
    <2>4. DetachedType' /\ BatchesFailed' /\ StateIsTrue'
      BY <2>1 DEF DetachedInv, DetachedType, BatchesFailed, StateIsTrue
    <2>5. LeftIsFinal'
      BY <2>1, <2>3 DEF Thrown, LeftIsFinal
    <2> QED
      BY <2>4, <2>5 DEF DetachedInv
  <1> QED
    BY <1>1, <1>2

\* What a thread does to the state it holds the mutex for.
LEMMA StateAfter ==
    ASSUME DetachedType, NEW e \in SystemReplies
    PROVE  /\ System!Succeeded \in States /\ System!Succeeded.has_result
           /\ System!Succeeded.completed = state.completed
           /\ System!Succeeded.definitive_error = state.definitive_error
           /\ System!Succeeded.has_nxdomain = state.has_nxdomain
           /\ e \in SystemErrors =>
                 /\ System!Failed(e) \in States
                 /\ System!Failed(e).has_result = state.has_result
                 /\ System!Failed(e).completed = state.completed + 1
                 /\ System!Failed(e).definitive_error \in {e, state.definitive_error}
                 /\ System!Failed(e).has_nxdomain => state.has_nxdomain \/ e = "NX_DOMAIN"
                 /\ e = "NX_DOMAIN" \/ state.definitive_error # "none"
                       => System!Failed(e).definitive_error # "none"
  <1>1. state \in States
    BY DEF DetachedType
  <1>2. System!Succeeded = [state EXCEPT !.has_result = TRUE]
    BY DEF System!Succeeded
  <1>3. /\ System!Succeeded \in States /\ System!Succeeded.has_result
        /\ System!Succeeded.completed = state.completed
        /\ System!Succeeded.definitive_error = state.definitive_error
        /\ System!Succeeded.has_nxdomain = state.has_nxdomain
    BY <1>1, <1>2 DEF States
  <1> DEFINE nx == state.has_nxdomain \/ e = "NX_DOMAIN"
             transient == IF state.transient_error = System!None /\ System!is_retryable(e)
                          THEN e ELSE state.transient_error
             definitive == IF \/ e = "SERVER_REFUSED" /\ state.definitive_error # "NX_DOMAIN"
                              \/ System!Definitive(e) /\ state.definitive_error = System!None
                           THEN e ELSE state.definitive_error
  <1>4. System!Failed(e) = [state EXCEPT !.completed = state.completed + 1, !.has_nxdomain = nx,
                                         !.transient_error = transient, !.definitive_error = definitive]
    BY DEF System!Failed
  <1>5. /\ state.has_result \in BOOLEAN /\ state.completed + 1 \in Nat
        /\ state.definitive_error \in {"none"} \cup Thrown
        /\ state.transient_error \in {"none"} \cup SystemReplies
    BY <1>1 DEF States
  <1>6. definitive \in {"none"} \cup Thrown /\ definitive \in {e, state.definitive_error}
    BY <1>5 DEF System!Definitive, System!None, SystemReplies, SystemErrors, Thrown
  <1>7. e = "NX_DOMAIN" \/ state.definitive_error # "none" => definitive # "none"
    BY <1>5 DEF System!Definitive, System!None, SystemReplies, SystemErrors, Thrown
  <1>8. transient \in {"none"} \cup SystemReplies
    BY <1>5
  <1>9. nx \in BOOLEAN /\ (nx => state.has_nxdomain \/ e = "NX_DOMAIN")
    OBVIOUS
  <1> HIDE DEF nx, transient, definitive
  <1>10. System!Failed(e) \in States
    BY <1>1, <1>4, <1>5, <1>6, <1>8, <1>9 DEF States
  <1>11. /\ System!Failed(e).has_result = state.has_result
         /\ System!Failed(e).completed = state.completed + 1
         /\ System!Failed(e).definitive_error = definitive
         /\ System!Failed(e).has_nxdomain = nx
    BY <1>1, <1>4 DEF States
  <1> QED
    BY <1>3, <1>6, <1>7, <1>9, <1>10, <1>11

\* A detached thread reports.
LEMMA ReportKeeps ==
    ASSUME DetachedInv, NEW q \in Resolvers, System!dispatch_query(q) PROVE DetachedInv'
  <1>1. PICK response \in System!SystemResponses :
           LET e == System!try_resolve(response) IN
           /\ e = "CANCELLED" => state.has_result
           /\ answer' = [answer EXCEPT ![q] = e]
           /\ state' = CASE e = "OK" -> System!Succeeded
                         [] e = "CANCELLED" -> state
                         [] e \notin {"OK", "CANCELLED"} -> System!Failed(e)
    BY DEF System!dispatch_query
  <1>2. PICK e \in SystemReplies :
           /\ e = "CANCELLED" => state.has_result /\ state' = state
           /\ answer' = [answer EXCEPT ![q] = e]
           /\ e = "OK" => state' = System!Succeeded
           /\ e \in SystemErrors => state' = System!Failed(e)
    BY <1>1, SystemUncancelled DEF SystemReplies, SystemErrors
  <1>3. /\ thread[q] = "query" /\ thread' = [thread EXCEPT ![q] = "gone"]
        /\ UNCHANGED <<offset, launched, waiting, ended>>
    BY DEF System!dispatch_query
  <1>4. answer[q] = "none" /\ e # "none" /\ (e \in SystemErrors <=> e \notin {"OK", "CANCELLED"})
    BY <1>3 DEF DetachedInv, DetachedType, SystemReplies, SystemErrors
  <1>5. /\ answer'[q] = e /\ thread'[q] = "gone"
        /\ \A r \in Resolvers \ {q} : answer'[r] = answer[r] /\ thread'[r] = thread[r]
    BY <1>2, <1>3 DEF DetachedInv, DetachedType
  <1>6. DetachedType'
    <2>1. state' \in States
      BY <1>2, <1>4, StateAfter DEF DetachedInv, DetachedType
    <2>2. /\ thread' \in [Resolvers -> {"none", "query", "gone"}]
          /\ answer' \in [Resolvers -> {"none"} \cup SystemReplies]
      BY <1>2, <1>3 DEF DetachedInv, DetachedType
    <2>3. \A r \in Resolvers : thread'[r] = "gone" <=> answer'[r] # "none"
      BY <1>4, <1>5 DEF DetachedInv, DetachedType
    <2> QED
      BY <1>3, <2>1, <2>2, <2>3 DEF DetachedInv, DetachedType
  <1>7. CASE waiting = "next"
    BY <1>3, <1>7 DEF DetachedInv, DetachedType, BatchesFailed, Resolvers
  <1>8. CASE waiting = "launch"
    <2>1. q > offset /\ ~(q <= offset) /\ ~(q > offset + launched)
      BY <1>3, <1>8 DEF DetachedInv, DetachedType, BatchesFailed, Resolvers
    <2>2. BatchesFailed'
      <3>1. System!total' = System!total
        BY <1>3 DEF System!total
      <3> QED
        BY <1>3, <1>5, <1>8, <2>1, <3>1 DEF DetachedInv, BatchesFailed
    <2>3. /\ \A x : Somebody(x) /\ x # "none" => Somebody(x)'
          /\ Somebody(e)'
          /\ Somebody("OK")' => Somebody("OK") \/ e = "OK"
      BY <1>4, <1>5 DEF Somebody
    <2>4. StateIsTrue'
      <3>1. CASE e = "OK"
        <4>1. FailedOnes' = FailedOnes
          BY <1>3, <1>4, <1>5, <3>1 DEF FailedOnes
        <4>2. /\ state'.has_result /\ state'.completed = state.completed
              /\ state'.definitive_error = state.definitive_error
              /\ state'.has_nxdomain = state.has_nxdomain
          BY <1>2, <3>1, StateAfter DEF DetachedInv
        <4> QED
          BY <1>8, <2>3, <3>1, <4>1, <4>2 DEF DetachedInv, StateIsTrue
      <3>2. CASE e = "CANCELLED"
        <4>1. FailedOnes' = FailedOnes
          BY <1>3, <1>4, <1>5, <3>2 DEF FailedOnes
        <4>2. state' = state /\ state.has_result
          BY <1>2, <3>2
        <4> QED
          BY <1>8, <2>3, <3>2, <4>1, <4>2 DEF DetachedInv, StateIsTrue
      <3>3. CASE e \in SystemErrors
        <4>0. e \notin {"OK", "CANCELLED"}
          BY <1>4, <3>3
        <4>1. FailedOnes' = FailedOnes \cup {q} /\ q \notin FailedOnes
          BY <1>3, <1>4, <1>5, <2>1, <4>0 DEF FailedOnes
        <4>2. Cardinality(FailedOnes') = Cardinality(FailedOnes) + 1
          BY <4>1, FailedFinite, FS_AddElement
        <4>3. state' = System!Failed(e)
          BY <1>2, <3>3
        <4>4. /\ state'.has_result = state.has_result /\ state'.completed = state.completed + 1
              /\ state'.definitive_error \in {e, state.definitive_error}
              /\ state'.has_nxdomain => state.has_nxdomain \/ e = "NX_DOMAIN"
              /\ e = "NX_DOMAIN" \/ state.definitive_error # "none" => state'.definitive_error # "none"
          BY <3>3, <4>3, StateAfter DEF DetachedInv
        <4>5. state.has_result <=> Somebody("OK")'
          BY <1>8, <2>3, <4>0 DEF DetachedInv, StateIsTrue
        <4>6. state'.completed = Cardinality(FailedOnes')
          BY <1>8, <4>2, <4>4 DEF DetachedInv, StateIsTrue
        <4> QED
          BY <1>8, <2>3, <4>4, <4>5, <4>6 DEF DetachedInv, StateIsTrue, Somebody
      <3> QED
        BY <1>4, <3>1, <3>2, <3>3
    <2>5. LeftIsFinal'
      BY <1>3, <1>8 DEF LeftIsFinal
    <2> QED
      BY <1>6, <2>2, <2>4, <2>5 DEF DetachedInv
  <1>9. CASE waiting = "left"
    <2>1. LeftIsFinal'
      <3>1. ended # "EXCEPTION" => ended = "OK"
        BY <1>3, <1>9 DEF DetachedInv, LeftIsFinal
      <3>2. Somebody("OK") => Somebody("OK")'
        BY <1>4, <1>5 DEF Somebody
      <3> QED
        BY <1>3, <1>9, <3>1, <3>2 DEF DetachedInv, LeftIsFinal
    <2> QED
      BY <1>3, <1>6, <1>9, <2>1 DEF DetachedInv, BatchesFailed, StateIsTrue
  <1> QED
    BY <1>7, <1>8, <1>9 DEF DetachedInv, DetachedType

LEMMA SystemNext == SystemInv /\ [BackendsNext]_backendVars => SystemInv'
  <1> SUFFICES ASSUME SystemInv, [BackendsNext]_backendVars, backend = "system" PROVE SystemInv'
    BY ModeStays DEF SystemInv
  <1>1. backend' = backend /\ configured' = configured /\ Concurrently' = Concurrently
    BY ModeStays
  <1>2. System!Concurrently <=> Concurrently
    BY SystemSingle DEF System!Concurrently, Concurrently
  <1>3. CASE UNCHANGED backendVars
    <2>1. UNCHANGED <<offset, launched, waiting, state, thread, answer, ended>>
      BY <1>3 DEF backendVars, systemVars, dispatcherVars, vars, mainVars
    <2>2. DetachedInv => DetachedInv'
      BY <2>1 DEF DetachedInv, DetachedType, BatchesFailed, StateIsTrue, LeftIsFinal, FailedOnes,
                  Somebody, System!total
    <2>3. UNCHANGED SystemSeq!vars
      BY <1>3 DEF backendVars, systemVars, dispatcherVars, sequentialVars, vars, mainVars, SystemSeq!vars
    <2>4. SystemSeq!SeqInv => SystemSeq!SeqInv'
      BY <2>3, SystemUncancelled, SystemSeq!SeqNext
    <2> QED
      BY <1>1, <2>2, <2>4 DEF SystemInv
  <1>4. CASE system(System!Next)
    <2>1. CASE Concurrently
      <3>1. System!Caller \/ \E r \in Resolvers : System!dispatch_query(r)
        BY <1>2, <1>4, <2>1, SystemSingle DEF system, System!Next, System!concurrently, System!sequentially
      <3>2. DetachedInv'
        BY <2>1, <3>1, StartKeeps, LaunchKeeps, TakeKeeps, LeaveKeeps, ReportKeeps
           DEF SystemInv, System!Caller
      <3> QED
        BY <1>1, <2>1, <3>2 DEF SystemInv
    <2>2. CASE ~Concurrently
      <3>1. SystemSeq!Next
        BY <1>2, <1>4, <2>2, SystemRunner DEF system, System!Next, System!concurrently, System!sequentially
      <3>2. SystemSeq!SeqInv'
        BY <2>2, <3>1, SystemUncancelled, SystemSeq!SeqNext DEF SystemInv
      <3> QED
        BY <1>1, <2>2, <3>2 DEF SystemInv
    <2> QED
      BY <2>1, <2>2
  <1> QED
    BY <1>3, <1>4 DEF BackendsNext, native

\* What the caller of the system back end gets, in each mode.
LEMMA ResolveIs ==
    /\ ended = "pending" => System!resolve = "pending"
    /\ ended # "pending" /\ Concurrently =>
          System!resolve = IF ended = "EXCEPTION" THEN "UNKNOWN" ELSE ended
    /\ ended # "pending" /\ ~Concurrently /\ Sequential!Single =>
          System!resolve = IF ended = "OK" THEN "OK" ELSE "EMPTY"
    /\ ended # "pending" /\ ~Concurrently /\ ~Sequential!Single =>
          System!resolve = IF ended = "OK" \/ System!Definitive(ended) THEN ended ELSE "EMPTY"
  <1>1. System!Concurrently <=> Concurrently
    BY SystemSingle DEF System!Concurrently, Concurrently
  <1>2. Concurrently => ~Sequential!Single
    BY DEF Concurrently
  <1> QED
    BY <1>1, <1>2, SystemSingle DEF System!resolve, System!resolve_single, System!resolve_fallback

\* Although detached threads may still be running when the lookup returns, the
\* system back end loses no answer and makes none up: no records means that
\* nobody had any and that everybody was heard, and an error that it throws is
\* one that a resolver gave: a definitive one, or a refusal next to an NXDOMAIN.
THEOREM SystemIsLossless == BackendsSpec => []SystemLosesNothing
  <1>1. ASSUME SystemInv, backend = "system" PROVE System!NothingLost
    <2> DEFINE Said(e) == \E r \in configured : answer[r] = e
    <2> SUFFICES ASSUME ended # "EXCEPTION", ended # "pending"
                 PROVE  /\ System!resolve = "OK" <=> Said("OK")
                        /\ System!resolve = "EMPTY" => \A r \in configured : answer[r] # "none"
                        /\ System!resolve \in System!DnsErrors =>
                              /\ Said(System!resolve)
                              /\ \/ System!Definitive(System!resolve)
                                 \/ System!resolve = "SERVER_REFUSED" /\ Said("NX_DOMAIN")
      BY ResolveIs DEF System!NothingLost, System!None, System!DnsErrors
    <2>1. CASE Concurrently
      <3>1. configured = Resolvers /\ System!resolve = ended
        BY <1>1, <2>1, ResolveIs DEF SystemInv
      <3>2. waiting = "left" /\ ended \in {"EMPTY", "OK"} \cup Thrown
        BY <1>1, <2>1 DEF SystemInv, DetachedInv, DetachedType, BatchesFailed
      <3>3. LeftIsFinal
        BY <1>1, <2>1 DEF SystemInv, DetachedInv
      <3> QED
        BY <3>1, <3>2, <3>3 DEF LeftIsFinal, Thrown, Somebody, System!DnsErrors, System!Definitive
    <2>2. CASE ~Concurrently
      <3>1. SystemSeq!SeqInv
        BY <1>1, <2>2 DEF SystemInv
      <3>2. /\ ended \in SystemSeq!Replies
            /\ Said(ended)
            /\ ended # "OK" => \A r \in configured : answer[r] # "OK"
            /\ ended # "OK" /\ (SystemSeq!Single \/ ~SystemSeq!Definitive(ended)) =>
                  \A r \in configured : answer[r] # "none"
        BY <3>1, SystemSeq!HowItEnds
      <3>3. SystemSeq!Definitive(ended) <=> System!Definitive(ended)
        BY DEF SystemSeq!Definitive, System!Definitive
      <3>4. CASE Sequential!Single
        <4>1. System!resolve = IF ended = "OK" THEN "OK" ELSE "EMPTY"
          BY <2>2, <3>4, ResolveIs
        <4>2. SystemSeq!Single
          BY <3>4, SystemSingle
        <4> QED
          BY <3>2, <4>1, <4>2 DEF System!DnsErrors
      <3>5. CASE ~Sequential!Single
        <4>1. System!resolve = IF ended = "OK" \/ System!Definitive(ended) THEN ended ELSE "EMPTY"
          BY <2>2, <3>5, ResolveIs
        <4>2. "EMPTY" \notin System!DnsErrors /\ "OK" \notin System!DnsErrors
          BY DEF System!DnsErrors
        <4>3. ~System!Definitive("EMPTY") /\ ~System!Definitive("OK")
          BY DEF System!Definitive
        <4> QED
          BY <3>2, <3>3, <4>1, <4>2, <4>3
      <3> QED
        BY <3>4, <3>5
    <2> QED
      BY <2>1, <2>2
  <1>2. SystemInv => SystemLosesNothing
    BY <1>1 DEF SystemLosesNothing
  <1> QED
    BY <1>2, SystemInitial, SystemNext, PTL DEF BackendsSpec
=============================================================================
