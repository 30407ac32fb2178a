-------------------------- MODULE EncryptedResolver --------------------------
(***************************************************************************)
(* A resolver with a persistent TLS connection, shared by the queries of   *)
(* several threads: DotResolver or DohResolver, whichever the              *)
(* configuration asks for.                                                 *)
(***************************************************************************)
EXTENDS DotResolver, DohResolver

VARIABLE protocol  \* the configured protocol, "DoT" or "DoH"

vars == <<protocol, tlsVars>>

ResolverInit == protocol \in {"DoT", "DoH"} /\ Init

query(q) ==
    \/ Start(q)
    \/ Lock(q)
    \/ EnsureConnection(q)
    \/ protocol = "DoT" /\ DotExchange(q)
    \/ protocol = "DoH" /\ DohExchange(q)

Next ==
    /\ (\E q \in Queries : query(q)) \/ Environment
    /\ UNCHANGED protocol

Spec == ResolverInit /\ [][Next]_vars

(***************************************************************************)
(* Threads run, and every wait of TlsConnection is a poll with a timeout,  *)
(* so that an exchange moves on whatever the server does.  Each thread     *)
(* takes the mutex at most twice, so weak fairness is enough for it.       *)
(***************************************************************************)
FairSpec ==
    Spec /\ \A q \in Queries : WF_vars(pc[q] # "idle" /\ query(q) /\ UNCHANGED protocol)

-----------------------------------------------------------------------------
Range(s) == {s[i] : i \in DOMAIN s}

\* Nothing that an earlier query left behind is on the connection.
InStep == conn.open /\ conn.aligned /\ conn.asked = <<>> /\ conn.answers = <<>>

SendsInStep == \A q \in Queries : pc[q] = "send" => InStep \/ conn.eof

(***************************************************************************)
(* A query returns its own answer or an error, never the answer to a query *)
(* that used the connection before it.                                     *)
(***************************************************************************)
OwnAnswer == \A q \in Queries : result[q] = "OK" => answer[q] = {q}

\* The second attempt runs on a connection of its own: what it sends and reads
\* meets nothing of an earlier exchange.
RetryIsClean ==
    \A q \in Queries :
        attempt[q] = 1 /\ pc[q] \in {"send", "length", "body"} =>
            Range(conn.asked) \cup Range(conn.answers) \subseteq {q}

\* Whoever starts a query gets a result: neither the mutex nor the connection
\* keeps a thread for ever.
QueriesEnd == \A q \in Queries : pc[q] # "idle" ~> pc[q] = "done"

\* DNS over HTTPS closes the connection after every failed exchange, so that a
\* request is only sent on one that nothing was left behind on.
SentInStep == protocol = "DoH" => SendsInStep

\* "ensure_connection() will detect the stale state on the next query and
\* reconnect if needed" (dot.cpp:276-277): the same of DNS over TLS, which
\* leaves the connection open after a failed read.
StaleStateDetected == protocol = "DoT" => SendsInStep
=============================================================================
