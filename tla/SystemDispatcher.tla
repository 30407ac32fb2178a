--------------------------- MODULE SystemDispatcher ---------------------------
(***************************************************************************)
(* The dispatcher of a build with YADDNSC_USE_NATIVE_DNS=OFF               *)
(* (src/dns/dispatcher_system.cpp).  Its resolvers are the classic ones    *)
(* over libresolv (classic_system.cpp) and the DoT and DoH ones, which are *)
(* in every build (CMakeLists.txt); parser_system.cpp reads the messages   *)
(* of all of them.  Its sequential strategies are those of                 *)
(* SequentialRunner; its concurrent one starts a detached thread per       *)
(* resolver of a batch, which shares a ConcurrentState with the caller     *)
(* under a mutex.  Errors leave it as an empty vector, that is as a        *)
(* success without records, unless they are thrown.  Memory is assumed not *)
(* to run out: query and parse_strings turn every other exception into an  *)
(* error, and a detached thread, which catches nothing itself, would end   *)
(* the process with std::bad_alloc.                                        *)
(***************************************************************************)
EXTENDS Integers, DnsError

CONSTANTS Total,       \* number of configured resolvers
          BatchMax,    \* MAX_CONCURRENT_RESOLVERS
          MaxRetries   \* max_retries

Resolvers == 1 .. Total

VARIABLES
    strategy,    \* strategy_
    configured,  \* resolvers_
    asked, counter, sleeping, result, last_error,  \* of the sequential runners
    offset,      \* first resolver of the current batch
    launched,    \* threads of this batch created so far
    waiting,     \* where resolve_concurrent is: "next", "launch" or "left"
    state,       \* the batch's ConcurrentState
    thread,      \* where each detached thread is
    answer,      \* history: what try_resolve returned for each resolver
    ended        \* "pending", then what the strategy ended with

-----------------------------------------------------------------------------
(* The resolvers, and what the parser makes of their messages *)

AnswerTypes == {"A", "AAAA", "TXT", "NS", "SOA", "CNAME", "MX", "OTHER"}
AnswerSections == {{t} : t \in AnswerTypes} \cup {{"CNAME", "A"}, {"A", "OTHER"}}

\* res_nquery fails with an h_errno, or returns a NOERROR message with answers.
res_nquery ==
    [h_errno : {"HOST_NOT_FOUND", "NO_DATA", "NETDB_SUCCESS", "TRY_AGAIN", "NO_RECOVERY"}]
        \cup [rcode : {"NOERROR"}, whole : BOOLEAN, answers : AnswerSections]

\* The query of DotResolver and DohResolver: a transport error, a timeout or an
\* HTTP status, a message that does not match the query, an exception, a
\* cancellation; or a message with any RCODE that the validator let pass.
encrypted_query ==
    [error : {"CONNECTION", "RETRY", "SERVER_REFUSED", "PARSE", "UNKNOWN", "CANCELLED"}]
        \cup [rcode : Rcodes, whole : BOOLEAN, answers : AnswerSections \cup {{}}]

get_dns_lookup_err(error) ==
    CASE error = "HOST_NOT_FOUND" -> "NX_DOMAIN"
      [] error = "NO_DATA"        -> "NODATA"
      [] error = "TRY_AGAIN"      -> "RETRY"
      [] OTHER                    -> "UNKNOWN"

\* parse_record: exceptions without a code carry UNKNOWN.  TXT and names may be
\* cut short, addresses are formatted whatever their length.
parse_record(type, intact) ==
    CASE type \in {"A", "AAAA"} -> "value"
      [] type \in {"TXT", "NS", "SOA", "CNAME", "MX"} -> IF intact THEN "value" ELSE "UNKNOWN"
      [] type = "OTHER" -> "UNKNOWN"

\* RecordParser's constructor and parse_strings: the records are read only after
\* NOERROR, and one that cannot be formatted loses the whole answer.
parse_strings(msg, intact) ==
    IF ~msg.whole THEN [kind |-> "malformed"]
    ELSE IF msg.rcode # "NOERROR"
         THEN [kind |-> "parsed", rcode |-> msg.rcode, records |-> FALSE]
    ELSE IF \E t \in msg.answers : parse_record(t, intact) = "UNKNOWN"
         THEN [kind |-> "transport", error |-> "UNKNOWN"]
         ELSE [kind |-> "parsed", rcode |-> msg.rcode, records |-> msg.answers # {}]

\* do_query asks again with a larger buffer until the message fits; each time
\* it may fail, so the outcomes are those of one call that has room enough.
\* query turns the exception into an error and ignores the cancellation token.
do_query(m, intact) ==
    IF "h_errno" \in DOMAIN m
    THEN [kind |-> "transport", error |-> get_dns_lookup_err(m.h_errno)]
    ELSE parse_strings(m, intact)

ask_encrypted(m, intact) ==
    IF "error" \in DOMAIN m THEN [kind |-> "transport", error |-> m.error]
                            ELSE parse_strings(m, intact)

SystemResponses ==
    {do_query(m, intact) : m \in res_nquery, intact \in BOOLEAN}
        \cup {ask_encrypted(m, intact) : m \in encrypted_query, intact \in BOOLEAN}

Cancelled == [kind |-> "transport", error |-> "CANCELLED"]

-----------------------------------------------------------------------------
\* resolve_single and resolve_fallback pass no token.
Runner == INSTANCE SequentialRunner WITH
              reply <- answer, outcome <- ended, Answers <- SystemResponses \ {Cancelled}

runnerVars == <<configured, asked, counter, sleeping, result, last_error>>
batchVars  == <<offset, launched, waiting, state, thread>>
vars       == <<strategy, runnerVars, batchVars, answer, ended>>

Concurrently == strategy = "CONCURRENT" /\ ~Runner!Single

None == "none"
FreshState == [has_result |-> FALSE, has_nxdomain |-> FALSE, definitive_error |-> None,
               transient_error |-> None, completed |-> 0]

Init ==
    /\ offset = 0 /\ launched = 0
    /\ waiting = "next"
    /\ state = FreshState
    /\ thread = [r \in Resolvers |-> None]
    /\ answer = [r \in Resolvers |-> None]
    /\ ended = "pending"

total == IF Total - offset < BatchMax THEN Total - offset ELSE BatchMax

-----------------------------------------------------------------------------
(* resolve_concurrent, on the calling thread *)

StartBatch ==
    /\ waiting = "next"
    /\ offset < Total
    /\ state' = FreshState
    /\ launched' = 0
    /\ waiting' = "launch"
    /\ UNCHANGED <<offset, thread, answer, ended>>

Launch ==
    /\ waiting = "launch"
    /\ launched < total
    /\ launched' = launched + 1
    /\ thread' = [thread EXCEPT ![offset + launched + 1] = "query"]
    /\ UNCHANGED <<offset, waiting, state, answer, ended>>

\* std::thread's constructor throws: resolve turns that into UNKNOWN, and the
\* threads already detached run on.
LaunchFails ==
    /\ waiting = "launch"
    /\ launched < total
    /\ waiting' = "left"
    /\ ended' = "EXCEPTION"
    /\ UNCHANGED <<offset, launched, state, thread, answer>>

\* Mutant: the caller does not wait for the last resolver.
WaitOverEarly == state.has_result \/ state.completed + 1 >= total

\* The predicate of cv.wait.
WaitOver == state.has_result \/ state.completed = total

\* NXDOMAIN was seen, or a definitive error that is not a refusal: throw it.
Throws == state.has_nxdomain
            \/ state.definitive_error \notin {None, "SERVER_REFUSED"}

\* cv.wait returns with the lock held; the caller takes the result, throws, or
\* goes on with the next batch.
TakeBatch ==
    /\ waiting = "launch"
    /\ launched = total
    /\ WaitOver
    /\ \/ /\ state.has_result
          /\ ended' = "OK" /\ waiting' = "left"
          /\ UNCHANGED offset
       \/ /\ ~state.has_result /\ Throws
          /\ ended' = state.definitive_error /\ waiting' = "left"
          /\ UNCHANGED offset
       \/ /\ ~state.has_result /\ ~Throws
          /\ offset' = offset + BatchMax /\ waiting' = "next"
          /\ UNCHANGED ended
    /\ UNCHANGED <<launched, state, thread, answer>>

\* Past the last batch: return {}.
AllFailed ==
    /\ waiting = "next"
    /\ offset >= Total
    /\ ended' = "EMPTY" /\ waiting' = "left"
    /\ UNCHANGED <<offset, launched, state, thread, answer>>

-----------------------------------------------------------------------------
(* dispatch_query, on the detached thread of resolver r: what it does to the
   state it holds the mutex for is one step. *)

\* The first result stays, and a result does not count as completed.
Succeeded == [state EXCEPT !.has_result = TRUE]

Failed(e) ==
    [state EXCEPT
        !.completed = @ + 1,
        !.has_nxdomain = @ \/ e = "NX_DOMAIN",
        !.transient_error = IF @ = None /\ is_retryable(e) THEN e ELSE @,
        !.definitive_error =
            IF \/ e = "SERVER_REFUSED" /\ @ # "NX_DOMAIN"
               \/ Definitive(e) /\ @ = None
            THEN e ELSE @]

\* The token is triggered by the first result only; a cancelled query changes
\* nothing and is not counted.
dispatch_query(r) ==
    /\ thread[r] = "query"
    /\ \E response \in SystemResponses :
          LET e == try_resolve(response) IN
          /\ e = "CANCELLED" => state.has_result
          /\ answer' = [answer EXCEPT ![r] = e]
          /\ state' = CASE e = "OK" -> Succeeded
                        [] e = "CANCELLED" -> state
                        [] e \notin {"OK", "CANCELLED"} -> Failed(e)
    /\ thread' = [thread EXCEPT ![r] = "gone"]
    /\ UNCHANGED <<offset, launched, waiting, ended>>

-----------------------------------------------------------------------------
Caller == StartBatch \/ Launch \/ LaunchFails \/ TakeBatch \/ AllFailed

concurrently(A) == Concurrently /\ A /\ UNCHANGED <<strategy, runnerVars>>

sequentially == ~Concurrently /\ Runner!Next /\ UNCHANGED <<strategy, batchVars>>

Next == concurrently(Caller \/ \E r \in Resolvers : dispatch_query(r)) \/ sequentially

\* resolve_single: whatever the error, an empty vector.
resolve_single == IF ended = "OK" THEN "OK" ELSE "EMPTY"

\* resolve_fallback: definitive errors are thrown, after the others {} is returned.
resolve_fallback == IF ended = "OK" \/ Definitive(ended) THEN ended ELSE "EMPTY"

\* What the caller of resolve gets.
resolve ==
    CASE ended = "pending" -> "pending"
      [] ended # "pending" /\ Runner!Single -> resolve_single
      [] ended # "pending" /\ ~Runner!Single /\ ~Concurrently -> resolve_fallback
      [] ended # "pending" /\ Concurrently -> IF ended = "EXCEPTION" THEN "UNKNOWN" ELSE ended

-----------------------------------------------------------------------------
(***************************************************************************)
(* No answer is lost and none is made up, although detached threads may    *)
(* still be running when the lookup returns: a lookup without records      *)
(* means that no resolver had answered with any, that every resolver was   *)
(* heard unless an error was thrown, and an error is one that a resolver   *)
(* gave.  It is definitive, or a refusal in a batch with an NXDOMAIN: a    *)
(* definitive_error that is set stays, so which of the two is thrown       *)
(* depends on who reported first.  A lookup that could not start its       *)
(* threads is the exception.                                               *)
(***************************************************************************)
NothingLost ==
    LET Said(e) == \E r \in configured : answer[r] = e IN
    ended # "EXCEPTION" =>
        /\ resolve = "OK" <=> ended # "pending" /\ Said("OK")
        /\ resolve = "EMPTY" => (\A r \in configured : answer[r] # None)
        /\ resolve \in DnsErrors =>
              /\ Said(resolve)
              /\ Definitive(resolve) \/ (resolve = "SERVER_REFUSED" /\ Said("NX_DOMAIN"))
=============================================================================
