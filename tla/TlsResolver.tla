----------------------------- MODULE TlsResolver -----------------------------
(***************************************************************************)
(* What DotResolver and DohResolver have in common: queries of several     *)
(* threads share one persistent TLS connection under a mutex, which is     *)
(* taken anew for each of two attempts; ensure_connection reuses the       *)
(* connection or replaces it.  A connection is the queries that the server *)
(* has yet to answer, the answers that have not been read, whether reading *)
(* would start at the beginning of an answer, and whether the peer has     *)
(* closed its side.  Answers come in the order of the queries.             *)
(* DotResolver and DohResolver add the exchange of their protocol, and     *)
(* EncryptedResolver puts the two together.                                *)
(***************************************************************************)
EXTENDS Integers, Sequences, DnsError

CONSTANT Queries  \* one per call of query(), each on a thread of its own

VARIABLES
    conn,       \* persistent_conn_
    idle,       \* IDLE_TIMEOUT has passed since last_use_
    lock,       \* the thread that holds mutex_, as a set
    pc,         \* where each query is
    attempt,    \* loop variable of query()
    cancelled,  \* queries whose cancellation token has been signalled
    result,     \* what each query returned
    answer      \* whose answer it returned, as a set

queryVars == <<pc, attempt, result, answer>>
tlsVars   == <<conn, idle, lock, cancelled, queryVars>>

Closed ==
    [open |-> FALSE, asked |-> <<>>, answers |-> <<>>, aligned |-> TRUE, eof |-> FALSE]
Fresh  == [Closed EXCEPT !.open = TRUE]

MAX_ATTEMPTS == 2

Init ==
    /\ conn = Closed
    /\ idle = FALSE
    /\ lock = {}
    /\ pc = [q \in Queries |-> "idle"]
    /\ attempt = [q \in Queries |-> 0]
    /\ cancelled = {}
    /\ result = [q \in Queries |-> "none"]
    /\ answer = [q \in Queries |-> {}]

-----------------------------------------------------------------------------
(* Ways to leave the exchange.  Each releases the lock. *)

\* Mutant: an early return keeps the mutex locked.
FinishHolding(q, r) ==
    /\ pc' = [pc EXCEPT ![q] = "done"]
    /\ result' = [result EXCEPT ![q] = r]
    /\ UNCHANGED <<lock, attempt, cancelled>>

Finish(q, r) ==
    /\ pc' = [pc EXCEPT ![q] = "done"]
    /\ result' = [result EXCEPT ![q] = r]
    /\ lock' = lock \ {q}
    /\ UNCHANGED <<attempt, cancelled>>

\* An error other than CANCELLED: the first attempt continues the loop.
Fail(q, error) ==
    \/ /\ attempt[q] < MAX_ATTEMPTS - 1
       /\ attempt' = [attempt EXCEPT ![q] = @ + 1]
       /\ pc' = [pc EXCEPT ![q] = "lock"]
       /\ lock' = lock \ {q}
       /\ UNCHANGED <<cancelled, result>>
    \/ /\ attempt[q] = MAX_ATTEMPTS - 1
       /\ Finish(q, error)

-----------------------------------------------------------------------------
(* query(), up to the exchange *)

\* The packet is built; an exception while building it ends the query.
Start(q) ==
    /\ pc[q] = "idle"
    /\ \/ /\ pc' = [pc EXCEPT ![q] = "lock"]
          /\ UNCHANGED <<lock, attempt, cancelled, result>>
       \/ \E e \in {"PARSE", "UNKNOWN"} : Finish(q, e)
    /\ UNCHANGED <<conn, idle, answer>>

\* Mutant: the second attempt does not close the connection.
LockKeepConnection(q) ==
    /\ pc[q] = "lock"
    /\ lock = {}
    /\ lock' = {q}
    /\ pc' = [pc EXCEPT ![q] = "ensure"]
    /\ UNCHANGED <<conn, idle, cancelled, attempt, result, answer>>

\* The lock is taken; the second attempt closes the connection first.
Lock(q) ==
    /\ pc[q] = "lock"
    /\ lock = {}
    /\ lock' = {q}
    /\ conn' = IF attempt[q] = 1 THEN Closed ELSE conn
    /\ pc' = [pc EXCEPT ![q] = "ensure"]
    /\ UNCHANGED <<idle, cancelled, attempt, result, answer>>

\* TlsConnection::is_healthy: unread data counts as a sign of life, the end of
\* the stream is seen only behind it.
is_healthy == conn.open /\ (conn.answers # <<>> \/ ~conn.eof)

Reusable == conn.open /\ ~idle /\ is_healthy

\* ensure_connection: reuse, or connect, which cannot be cancelled and fails
\* with RETRY (timeout) or CONNECTION.
EnsureConnection(q) ==
    /\ pc[q] = "ensure"
    /\ \/ /\ Reusable
          /\ pc' = [pc EXCEPT ![q] = "send"]
          /\ UNCHANGED <<conn, idle, lock, cancelled, attempt, result>>
       \/ /\ ~Reusable
          /\ conn' = Fresh
          /\ idle' = FALSE
          /\ pc' = [pc EXCEPT ![q] = "send"]
          /\ UNCHANGED <<lock, cancelled, attempt, result>>
       \/ /\ ~Reusable
          /\ conn' = Closed
          /\ \E e \in {"RETRY", "CONNECTION"} : Fail(q, e)
          /\ UNCHANGED idle
    /\ UNCHANGED answer

\* Mutant: the response is not validated.
validate_response_skipped(q, from) == TRUE

\* DNS::Validator::validate_response: transaction id and question are echoed.
validate_response(q, from) == from = q

-----------------------------------------------------------------------------
(* The server, the network, the clock and the owner of a query. *)

Answer ==
    /\ conn.asked # <<>>
    /\ ~conn.eof
    /\ conn' = [conn EXCEPT !.asked = Tail(@), !.answers = Append(@, Head(conn.asked))]
    /\ UNCHANGED <<idle, lock, cancelled, queryVars>>

\* The peer closes the connection; a reset also discards what was unread.
PeerClose ==
    /\ conn.open
    /\ ~conn.eof
    /\ \E kept \in {conn.answers, <<>>} :
          conn' = [conn EXCEPT !.eof = TRUE, !.asked = <<>>, !.answers = kept]
    /\ UNCHANGED <<idle, lock, cancelled, queryVars>>

IdleTimeout ==
    /\ ~idle
    /\ idle' = TRUE
    /\ UNCHANGED <<conn, lock, cancelled, queryVars>>

\* The stop callback of the dispatcher writes to the cancellation pipe.
Cancel(q) ==
    /\ pc[q] \notin {"idle", "done"}
    /\ q \notin cancelled
    /\ cancelled' = cancelled \cup {q}
    /\ UNCHANGED <<conn, idle, lock, queryVars>>

Environment == Answer \/ PeerClose \/ IdleTimeout \/ (\E q \in Queries : Cancel(q))

=============================================================================
