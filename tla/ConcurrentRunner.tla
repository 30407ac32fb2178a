--------------------------- MODULE ConcurrentRunner ---------------------------
(***************************************************************************)
(* One lookup of the "concurrent" strategy of the native resolver          *)
(* dispatcher (src/dns/dispatcher.cpp): ConcurrentRunner::run walks the    *)
(* resolvers in batches, BatchRunner::run starts one jthread per resolver  *)
(* of a batch, waits for the promise and joins the threads, and            *)
(* BatchRunner::resolve_one is the body of each thread.  Every atomic      *)
(* access of resolve_one is a step of its own, because the order in which  *)
(* two threads make them decides what the lookup returns.                  *)
(***************************************************************************)
EXTENDS Integers, DnsError

CONSTANTS Total,          \* number of configured resolvers
          BatchMax,       \* MAX_CONCURRENT_RESOLVERS
          QueryResponses  \* what a resolver's query may come back with

ASSUME DispatchAssumption ==
    /\ Total \in Nat
    /\ BatchMax \in Nat \ {0}
    /\ QueryResponses \subseteq Responses

Resolvers == 1 .. Total

\* The promise holds Unset, the empty vector, or the records of a resolver.
Unset     == -1
NoRecords == 0

VARIABLES
    main,            \* where ConcurrentRunner::run / BatchRunner::run is
    offset,          \* first resolver of the current batch
    launched,        \* threads of this batch created so far
    stop,            \* threads whose stop_token has been requested
    pc,              \* where each resolve_one is ("none": no thread yet)
    pipe,            \* whether resolve_one's make_pipe() succeeded
    reply,           \* what try_resolve returned in each thread
    completed,       \* completed_
    has_nxdomain,    \* has_nxdomain_
    has_definitive,  \* has_definitive_
    batch_error,     \* batch_error_
    promise,         \* promise_
    batch_result,    \* what future.get() returned
    last_error,      \* last_error of ConcurrentRunner::run
    outcome          \* "pending", then what the lookup ends with

threadVars == <<pc, pipe, reply>>
batchVars  == <<completed, has_nxdomain, has_definitive, batch_error, promise>>
mainVars   == <<main, offset, launched, stop, batch_result, last_error, outcome>>
vars       == <<mainVars, threadVars, batchVars>>

Min2(a, b) == IF a <= b THEN a ELSE b

\* The resolvers of the batch at the current offset, and how many there are.
batch_count == Min2(BatchMax, Total - offset)
Batch       == (offset + 1) .. (offset + batch_count)
Launched    == (offset + 1) .. (offset + launched)

Init ==
    /\ main = "next_batch"
    /\ offset = 0
    /\ launched = 0
    /\ stop = {}
    /\ pc = [r \in Resolvers |-> "none"]
    /\ pipe = [r \in Resolvers |-> FALSE]
    /\ reply = [r \in Resolvers |-> "none"]
    /\ completed = 0
    /\ has_nxdomain = FALSE
    /\ has_definitive = FALSE
    /\ batch_error = "NODATA"
    /\ promise = Unset
    /\ batch_result = Unset
    /\ last_error = "NODATA"
    /\ outcome = "pending"

-----------------------------------------------------------------------------
(* ConcurrentRunner::run and BatchRunner::run, on the calling thread. *)

\* The loop finds another batch: BatchRunner::run resets the per-batch state.
StartBatch ==
    /\ main = "next_batch"
    /\ offset < Total
    /\ main' = "launch"
    /\ launched' = 0
    /\ completed' = 0
    /\ has_nxdomain' = FALSE
    /\ has_definitive' = FALSE
    /\ batch_error' = "NODATA"
    /\ promise' = Unset
    /\ UNCHANGED <<offset, stop, batch_result, last_error, outcome, threadVars>>

\* The loop has run past the last resolver.
AllFailed ==
    /\ main = "next_batch"
    /\ offset >= Total
    /\ main' = "done"
    /\ outcome' = last_error
    /\ UNCHANGED <<offset, launched, stop, batch_result, last_error, threadVars, batchVars>>

\* threads.emplace_back(...): the thread may run from here on.
Launch ==
    /\ main = "launch"
    /\ launched < batch_count
    /\ launched' = launched + 1
    /\ pc' = [pc EXCEPT ![offset + launched + 1] = "start"]
    /\ UNCHANGED <<main, offset, stop, batch_result, last_error, outcome, pipe, reply, batchVars>>

\* std::jthread's constructor throws std::system_error: the vector of threads
\* is unwound and the exception leaves the dispatcher.
LaunchFails ==
    /\ main = "launch"
    /\ launched < batch_count
    /\ main' = "join"
    /\ outcome' = "EXCEPTION"
    /\ UNCHANGED <<offset, launched, stop, batch_result, last_error, threadVars, batchVars>>

\* future.get() returns; the jthreads are destroyed next, on either path.
GetFuture ==
    /\ main = "launch"
    /\ launched = batch_count
    /\ promise # Unset
    /\ batch_result' = promise
    /\ main' = "join"
    /\ UNCHANGED <<offset, launched, stop, last_error, outcome, threadVars, batchVars>>

\* ~jthread of one element of the vector: request_stop(), then join().  The
\* next element is not touched before that join returns.
StopThread(r) ==
    /\ main = "join"
    /\ r \in Launched \ stop
    /\ \A s \in Launched \cap stop : pc[s] = "exit"
    /\ stop' = stop \cup {r}
    /\ UNCHANGED <<main, offset, launched, batch_result, last_error, outcome, threadVars, batchVars>>

\* Mutant: the NXDOMAIN flag is not consulted.
BatchVerdictFlagIgnored == batch_error

\* The error of a batch without an answer.  The has_definitive_ branch of the
\* code returns the same code, batch_error_, with another message.
BatchVerdict == IF has_nxdomain THEN "NX_DOMAIN" ELSE batch_error

\* if (!batch_result.empty())
Answered == batch_result # NoRecords

\* Mutant: the threads are detached, not joined.
AllJoinedDetached == main = "join"

\* The vector of jthreads is destroyed.
AllJoined ==
    /\ main = "join"
    /\ \A r \in Launched : r \in stop /\ pc[r] = "exit"

\* The rest of BatchRunner::run, and what ConcurrentRunner::run does with it.
Classify ==
    /\ AllJoined
    /\ \/ /\ outcome = "EXCEPTION"
          /\ main' = "done"
          /\ UNCHANGED <<offset, last_error, outcome>>
       \/ /\ outcome = "pending"
          /\ Answered
          /\ main' = "done"
          /\ outcome' = "OK"
          /\ UNCHANGED <<offset, last_error>>
       \/ /\ outcome = "pending"
          /\ ~Answered
          /\ Definitive(BatchVerdict)
          /\ main' = "done"
          /\ outcome' = BatchVerdict
          /\ UNCHANGED <<offset, last_error>>
       \/ /\ outcome = "pending"
          /\ ~Answered
          /\ ~Definitive(BatchVerdict)
          /\ main' = "next_batch"
          /\ last_error' = BatchVerdict
          /\ offset' = offset + BatchMax
          /\ UNCHANGED outcome
    /\ UNCHANGED <<launched, stop, batch_result, threadVars, batchVars>>

-----------------------------------------------------------------------------
(* BatchRunner::resolve_one, on the thread of resolver r. *)

\* make_pipe(), the stop_callback, and the early return when stop has already
\* been requested.
Begin(r) ==
    /\ pc[r] = "start"
    /\ \E ok \in BOOLEAN : pipe' = [pipe EXCEPT ![r] = ok]
    /\ pc' = [pc EXCEPT ![r] = IF r \in stop THEN "exit" ELSE "query"]
    /\ UNCHANGED <<mainVars, reply, batchVars>>

\* try_resolve returns.  A query is cancelled only through its pipe.
Return(r) ==
    /\ pc[r] = "query"
    /\ \E response \in QueryResponses :
          LET e == try_resolve(response) IN
          /\ e = "CANCELLED" => r \in stop /\ pipe[r]
          /\ reply' = [reply EXCEPT ![r] = e]
          /\ pc' = [pc EXCEPT ![r] =
                      IF e \in {"OK", "CANCELLED"} THEN "count"
                      ELSE IF Definitive(e) THEN "flag" ELSE "store"]
    /\ UNCHANGED <<mainVars, pipe, batchVars>>

\* has_nxdomain_.store(true), or has_definitive_.store(true).
StoreFlag(r) ==
    /\ pc[r] = "flag"
    /\ \/ /\ reply[r] = "NX_DOMAIN"
          /\ has_nxdomain' = TRUE
          /\ pc' = [pc EXCEPT ![r] = "count"]
          /\ UNCHANGED has_definitive
       \/ /\ reply[r] # "NX_DOMAIN"
          /\ has_definitive' = TRUE
          /\ pc' = [pc EXCEPT ![r] = "store"]
          /\ UNCHANGED has_nxdomain
    /\ UNCHANGED <<mainVars, pipe, reply, completed, batch_error, promise>>

\* Mutant: a transient error is not recorded.
StoreErrorForgotten(r) ==
    /\ pc[r] = "store"
    /\ batch_error' = IF Definitive(reply[r]) THEN reply[r] ELSE batch_error
    /\ pc' = [pc EXCEPT ![r] = "count"]
    /\ UNCHANGED <<mainVars, pipe, reply, completed, has_nxdomain, has_definitive, promise>>

\* batch_error_.store(err_code)
StoreError(r) ==
    /\ pc[r] = "store"
    /\ batch_error' = reply[r]
    /\ pc' = [pc EXCEPT ![r] = "count"]
    /\ UNCHANGED <<mainVars, pipe, reply, completed, has_nxdomain, has_definitive, promise>>

\* Mutant: signal_completion() compares the count before the increment.
CountOffByOne(r) ==
    /\ pc[r] = "count"
    /\ completed' = completed + 1
    /\ pc' = [pc EXCEPT ![r] =
                IF reply[r] = "OK" \/ completed = batch_count THEN "set" ELSE "exit"]
    /\ UNCHANGED <<mainVars, pipe, reply, has_nxdomain, has_definitive, batch_error, promise>>

\* completed_.fetch_add(1).  A success goes on to set the promise whatever the
\* count; a failure does so only in signal_completion(), as the last one.
Count(r) ==
    /\ pc[r] = "count"
    /\ completed' = completed + 1
    /\ pc' = [pc EXCEPT ![r] =
                IF reply[r] = "OK" \/ completed + 1 = batch_count THEN "set" ELSE "exit"]
    /\ UNCHANGED <<mainVars, pipe, reply, has_nxdomain, has_definitive, batch_error, promise>>

\* set_promise_value(): the first value stays, later ones raise a future_error
\* that is swallowed.
SetPromise(r) ==
    /\ pc[r] = "set"
    /\ promise' = IF promise # Unset THEN promise
                  ELSE IF reply[r] = "OK" THEN r ELSE NoRecords
    /\ pc' = [pc EXCEPT ![r] = "exit"]
    /\ UNCHANGED <<mainVars, pipe, reply, completed, has_nxdomain, has_definitive, batch_error>>

-----------------------------------------------------------------------------
Main ==
    \/ StartBatch
    \/ AllFailed
    \/ Launch
    \/ LaunchFails
    \/ GetFuture
    \/ \E r \in Resolvers : StopThread(r)
    \/ Classify

resolve_one(r) ==
    Begin(r) \/ Return(r) \/ StoreFlag(r) \/ StoreError(r) \/ Count(r) \/ SetPromise(r)

Next == Main \/ \E r \in Resolvers : resolve_one(r)

Spec == Init /\ [][Next]_vars

-----------------------------------------------------------------------------
MainStates   == {"next_batch", "launch", "join", "done"}
ThreadStates == {"none", "start", "query", "flag", "store", "count", "set", "exit"}

\* Every field has a value of its C++ type, and the batch being run exists.
TypeOK ==
    /\ main \in MainStates
    /\ offset \in Nat
    /\ main \in {"launch", "join"} => offset < Total
    /\ launched \in Nat
    /\ main \in {"launch", "join"} => launched <= batch_count
    /\ stop \subseteq Resolvers
    /\ pc \in [Resolvers -> ThreadStates]
    /\ pipe \in [Resolvers -> BOOLEAN]
    /\ reply \in [Resolvers -> {"none"} \cup Replies]
    /\ completed \in Nat
    /\ has_nxdomain \in BOOLEAN
    /\ has_definitive \in BOOLEAN
    /\ batch_error \in DnsErrors
    /\ promise \in {Unset, NoRecords} \cup Resolvers
    /\ batch_result \in {Unset, NoRecords} \cup Resolvers
    /\ last_error \in DnsErrors
    /\ outcome \in {"pending", "EXCEPTION"} \cup Replies

(***************************************************************************)
(* No thread outlives its batch: resolve_one works on BatchRunner's        *)
(* members, which the next batch resets and which die with the lookup, so  *)
(* a thread of an earlier batch, or any thread once the lookup has         *)
(* returned, must have ended.  The joins of BatchRunner::run ensure it.    *)
(***************************************************************************)
Live(r) == pc[r] \notin {"none", "exit"}

NoStraggler ==
    \A r \in Resolvers : Live(r) => main \in {"launch", "join"} /\ r \in Launched

\* The records a lookup returns are those of a resolver of the last batch that
\* really answered: never another batch's, and never made up by the empty
\* vector that signal_completion() stores.
AnswerIsGenuine ==
    main = "done" /\ outcome = "OK" =>
        batch_result \in Batch /\ reply[batch_result] = "OK"

\* NXDOMAIN takes precedence: once a resolver of the last batch has seen
\* NXDOMAIN, the only error the lookup can end with is NX_DOMAIN, however the
\* other threads' stores to batch_error_ are ordered.
NxDomainWins ==
    \A r \in Resolvers :
        /\ main = "done"
        /\ outcome \in DnsErrors
        /\ reply[r] = "NX_DOMAIN"
        => outcome = "NX_DOMAIN"

\* A failed lookup reports an error that one of the resolvers returned; the
\* initial NODATA of batch_error_ and last_error is reported only when there
\* is no resolver.
ErrorIsGenuine ==
    main = "done" /\ outcome \in DnsErrors =>
        \/ \E r \in Resolvers : reply[r] = outcome
        \/ Total = 0

\* A lookup returns something that a resolver is responsible for: records of one
\* that answered, NX_DOMAIN once somebody has seen it, or an error that one of
\* them gave, however the stores of the threads are ordered.
OutcomeIsGenuine == AnswerIsGenuine /\ NxDomainWins /\ ErrorIsGenuine

(***************************************************************************)
(* The lookup is one that Lookup allows, where the caller sees the outcome *)
(* when ConcurrentRunner::run returns: one return, nothing heard after it, *)
(* and an outcome that a resolver is responsible for.                      *)
(***************************************************************************)
Contract == INSTANCE Lookup WITH
                heard   <- reply,
                outcome <- IF main = "done" THEN outcome ELSE "pending"

(***************************************************************************)
(* What the source says and the code does not keep.  "All resolvers in     *)
(* this batch finished without a valid result" (dispatcher.cpp:341): a     *)
(* lookup that fails has no resolver that answered.                        *)
(***************************************************************************)
SuccessIsReturned ==
    outcome \in DnsErrors => \A r \in Resolvers : reply[r] # "OK"

\* "Definitive errors - stop iterating batches" (dispatcher.cpp:459): once a
\* resolver of a batch has reported one, no later batch is started.
DefinitiveStops ==
    main = "next_batch" /\ offset > 0 => \A r \in Resolvers : ~Definitive(reply[r])
=============================================================================
