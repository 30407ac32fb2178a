----------------------------- MODULE DohResolver -----------------------------
(***************************************************************************)
(* DNS over HTTPS (src/dns/resolver/doh.cpp): the exchange on the shared   *)
(* connection is Http::exchange, which sends a request and reads headers   *)
(* and body.  Unlike DotResolver, the connection is closed after every     *)
(* exchange that did not deliver a complete response.                      *)
(***************************************************************************)
EXTENDS TlsResolver

\* Mutant: after a failed exchange the connection is kept.
after_error_kept == conn

\* persistent_conn_->close()
after_error == Closed

\* exchange: the request is sent.
SendRequest(q) ==
    /\ pc[q] = "send"
    /\ conn' = [conn EXCEPT !.asked = IF conn.eof THEN <<>> ELSE Append(@, q)]
    /\ pc' = [pc EXCEPT ![q] = "body"]
    /\ UNCHANGED <<idle, lock, cancelled, attempt, result, answer>>

\* exchange fails: sending, reading (timeout, end of stream, malformed or too
\* large a response) or by cancellation, at any point.
ExchangeFails(q) ==
    /\ pc[q] \in {"send", "body"}
    /\ conn' = after_error
    /\ \/ \E e \in {"CONNECTION", "PARSE"} : Fail(q, e)
       \/ q \in cancelled /\ Finish(q, "CANCELLED")
    /\ UNCHANGED <<idle, answer>>

\* A status other than 200 is final, and closes the connection.
BadStatus(q) ==
    /\ pc[q] = "body"
    /\ conn.answers # <<>>
    /\ conn' = Closed
    /\ \E e \in {"RETRY", "SERVER_REFUSED"} : Finish(q, e)
    /\ UNCHANGED <<idle, answer>>

\* A complete response with status 200.  The server may echo another transaction
\* id or question even in its answer to this request.  A message that does not
\* validate is an error, but leaves the connection at the start of the next
\* response.
Respond(q) ==
    /\ pc[q] = "body"
    /\ conn.answers # <<>>
    /\ conn' = [conn EXCEPT !.answers = Tail(@)]
    /\ \E from \in Queries :
       \/ /\ validate_response(q, from)
          /\ Finish(q, "OK")
          /\ answer' = [answer EXCEPT ![q] = {from}]
          /\ idle' = FALSE
       \/ /\ ~validate_response(q, from)
          /\ Finish(q, "PARSE")
          /\ UNCHANGED <<answer, idle>>

DohExchange(q) == SendRequest(q) \/ ExchangeFails(q) \/ BadStatus(q) \/ Respond(q)
=============================================================================
