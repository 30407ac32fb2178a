----------------------------- MODULE DotResolver -----------------------------
(***************************************************************************)
(* DNS over TLS (src/dns/resolver/dot.cpp): the exchange on the shared     *)
(* connection is a send and two reads, the length prefix and the message.  *)
(***************************************************************************)
EXTENDS TlsResolver

\* send_all; a failure of any kind shuts the connection down.
SendQuery(q) ==
    /\ pc[q] = "send"
    /\ \/ /\ conn' = [conn EXCEPT !.asked = IF conn.eof THEN <<>> ELSE Append(@, q)]
          /\ pc' = [pc EXCEPT ![q] = "length"]
          /\ UNCHANGED <<lock, cancelled, attempt, result>>
       \/ conn' = Closed /\ Fail(q, "CONNECTION")
       \/ conn' = Closed /\ q \in cancelled /\ Finish(q, "CANCELLED")
    /\ UNCHANGED <<idle, answer>>

\* An error of either read leaves the connection open, possibly in the middle
\* of an answer.
ReadFails(q) ==
    /\ pc[q] \in {"length", "body"}
    /\ \E partly \in IF pc[q] = "body" THEN {TRUE} ELSE BOOLEAN :
          conn' = [conn EXCEPT !.aligned = @ /\ ~partly]
    /\ \/ Fail(q, "CONNECTION")
       \/ q \in cancelled /\ Finish(q, "CANCELLED")
    /\ UNCHANGED <<idle, answer>>

\* The two bytes of the length prefix.
ReadLength(q) ==
    /\ pc[q] = "length"
    /\ conn.aligned
    /\ conn.answers # <<>>
    /\ pc' = [pc EXCEPT ![q] = "body"]
    /\ UNCHANGED <<conn, idle, lock, cancelled, attempt, result, answer>>

\* The server answers with a message of length zero: an error that is retried.
ReadEmpty(q) ==
    /\ pc[q] = "length"
    /\ conn.aligned
    /\ conn.answers # <<>>
    /\ conn' = [conn EXCEPT !.answers = Tail(@)]
    /\ Fail(q, "PARSE")
    /\ UNCHANGED <<idle, answer>>

\* Bytes from the middle of an answer taken for a prefix: a zero length is an
\* error that is retried, a message read that way does not pass validation.
\* Where in the stream that leaves the connection is a matter of chance.
ReadGarbage(q) ==
    /\ pc[q] = "length"
    /\ ~conn.aligned
    /\ \E aligned \in BOOLEAN, n \in 0 .. Len(conn.answers) :
          conn' = [conn EXCEPT !.aligned = aligned, !.answers = SubSeq(@, n + 1, Len(@))]
    /\ Fail(q, "PARSE") \/ Finish(q, "PARSE")
    /\ UNCHANGED <<idle, answer>>

\* The message, then its validation.  Only a success counts as use.
ReadBody(q) ==
    LET from == Head(conn.answers) IN
    /\ pc[q] = "body"
    /\ conn.answers # <<>>
    /\ conn' = [conn EXCEPT !.answers = Tail(@)]
    /\ \/ /\ validate_response(q, from)
          /\ Finish(q, "OK")
          /\ answer' = [answer EXCEPT ![q] = {from}]
          /\ idle' = FALSE
       \/ /\ ~validate_response(q, from)
          /\ Finish(q, "PARSE")
          /\ UNCHANGED <<answer, idle>>

DotExchange(q) ==
    SendQuery(q) \/ ReadLength(q) \/ ReadEmpty(q) \/ ReadGarbage(q) \/ ReadBody(q) \/ ReadFails(q)
=============================================================================
