----------------------- MODULE EncryptedResolverProofs -----------------------
(***************************************************************************)
(* Proofs about the resolvers with a persistent TLS connection, for any    *)
(* number of queries: each gets its own answer or an error, a second       *)
(* attempt meets nothing of an earlier exchange, and DNS over HTTPS sends  *)
(* only on a connection that nothing was left behind on.                   *)
(***************************************************************************)
EXTENDS EncryptedResolver, TLAPS

Connections ==
    [open : BOOLEAN, asked : Seq(Queries), answers : Seq(Queries), aligned : BOOLEAN,
     eof : BOOLEAN]

QueryStates == {"idle", "lock", "ensure", "send", "length", "body", "done"}

\* Every field has a value of its C++ type.
TypeOK ==
    /\ protocol \in {"DoT", "DoH"}
    /\ conn \in Connections
    /\ idle \in BOOLEAN
    /\ lock \subseteq Queries
    /\ cancelled \subseteq Queries
    /\ pc \in [Queries -> QueryStates]
    /\ attempt \in [Queries -> {0, 1}]
    /\ result \in [Queries -> {"none"} \cup Replies]
    /\ answer \in [Queries -> SUBSET Queries]

\* Between the lock and its release.
Holding(q)  == pc[q] \in {"ensure", "send", "length", "body"}
Exchange(q) == pc[q] \in {"send", "length", "body"}

\* The mutex is exclusive, and the connection is open during an exchange.
MutexHeld  == \A q \in Queries : Holding(q) => lock = {q}
OpenForUse == \A q \in Queries : Exchange(q) => conn.open

\* Nobody but the queries in S has left anything on the connection.
OnlyOf(S) == Range(conn.asked) \cup Range(conn.answers) \subseteq S

\* From the moment it has the mutex, the second attempt meets nothing of others.
RetryAlone == \A q \in Queries : attempt[q] = 1 /\ Holding(q) => OnlyOf({q})

\* Nothing is on the connection, or one request, or the response to it.
Quiet == conn.asked = <<>> /\ conn.answers = <<>>
One   == \E r \in Queries : \/ conn.asked = <<r>> /\ conn.answers = <<>>
                            \/ conn.asked = <<>> /\ conn.answers = <<r>>

\* With DNS over HTTPS a request is outstanding only while its exchange runs,
\* and then it is the only one.
OneRequest ==
    protocol = "DoH" =>
        /\ conn.aligned
        /\ \A q \in Queries : pc[q] # "length"
        /\ Quiet \/ (One /\ \E q \in Queries : pc[q] = "body")

IInv ==
    /\ TypeOK
    /\ MutexHeld
    /\ OpenForUse
    /\ OwnAnswer
    /\ RetryAlone
    /\ OneRequest

-----------------------------------------------------------------------------
(* What the connection's two sequences hold after each of the operations that
   are applied to them. *)

LEMMA AppendQuery ==
  ASSUME NEW s \in Seq(Queries), NEW q \in Queries
  PROVE  /\ Append(s, q) \in Seq(Queries)
         /\ Len(Append(s, q)) = Len(s) + 1
         /\ Range(Append(s, q)) = Range(s) \cup {q}
  <1>1. Append(s, q) \in Seq(Queries) /\ Len(Append(s, q)) = Len(s) + 1
    OBVIOUS
  <1>2. Append(s, q)[Len(s) + 1] = q /\ \A i \in 1 .. Len(s) : Append(s, q)[i] = s[i]
    OBVIOUS
  <1>3. DOMAIN Append(s, q) = 1 .. Len(s) + 1 /\ DOMAIN s = 1 .. Len(s)
    OBVIOUS
  <1>4. Range(Append(s, q)) \subseteq Range(s) \cup {q}
    BY <1>2, <1>3 DEF Range
  <1>5. Range(s) \cup {q} \subseteq Range(Append(s, q))
    BY <1>2, <1>3 DEF Range
  <1> QED
    BY <1>1, <1>4, <1>5

LEMMA TailOfQueries ==
  ASSUME NEW s \in Seq(Queries), s # <<>>
  PROVE  /\ Head(s) \in Range(s)
         /\ Head(s) \in Queries
         /\ Tail(s) \in Seq(Queries)
         /\ Len(Tail(s)) = Len(s) - 1
         /\ Range(Tail(s)) \subseteq Range(s)
  BY DEF Range

LEMMA RestOfQueries ==
  ASSUME NEW s \in Seq(Queries), NEW n \in 0 .. Len(s)
  PROVE  /\ SubSeq(s, n + 1, Len(s)) \in Seq(Queries)
         /\ Range(SubSeq(s, n + 1, Len(s))) \subseteq Range(s)
  BY DEF Range

LEMMA NoQueries ==
  /\ <<>> \in Seq(Queries)
  /\ Len(<<>>) = 0
  /\ Range(<<>>) = {}
  BY DEF Range

LEMMA FixedConnections ==
  /\ Closed \in Connections /\ Fresh \in Connections
  /\ Closed.asked = <<>> /\ Closed.answers = <<>> /\ Closed.aligned
  /\ Fresh.asked = <<>> /\ Fresh.answers = <<>> /\ Fresh.aligned /\ Fresh.open
  BY NoQueries DEF Closed, Fresh, Connections

-----------------------------------------------------------------------------
(* The steps *)

\* The connection after a step holds nothing that it did not hold before, and
\* with DNS over HTTPS nothing at all.
LeftClean ==
    /\ conn' \in Connections
    /\ protocol = "DoH" => conn'.aligned /\ Quiet'

\* However an exchange is left, the mutex is free after it and nobody is between
\* the lock and its release.
LEMMA LeaveStep ==
  ASSUME IInv, NEW q \in Queries, Holding(q), LeftClean, idle' \in BOOLEAN,
         UNCHANGED protocol,
         \/ (\E e \in DnsErrors : Fail(q, e) \/ Finish(q, e)) /\ UNCHANGED answer
         \/ Finish(q, "OK") /\ answer' = [answer EXCEPT ![q] = {q}]
  PROVE  IInv'
  <1> USE DEF IInv, TypeOK
  <1>1. /\ pc' \in [Queries -> QueryStates] /\ pc'[q] \in {"lock", "done"}
        /\ \A r \in Queries \ {q} : pc'[r] = pc[r]
    BY DEF Fail, Finish, QueryStates
  <1>2. \A r \in Queries : ~Holding(r)'
    BY <1>1 DEF Holding, MutexHeld
  <1>3. /\ lock' \subseteq Queries /\ cancelled' \subseteq Queries
        /\ attempt' \in [Queries -> {0, 1}]
        /\ result' \in [Queries -> {"none"} \cup Replies]
        /\ answer' \in [Queries -> SUBSET Queries]
    BY DEF Fail, Finish, Replies, MAX_ATTEMPTS
  <1>4. TypeOK'
    BY <1>1, <1>3 DEF LeftClean
  <1>5. OwnAnswer'
    BY DEF OwnAnswer, Fail, Finish, Replies, DnsErrors
  <1>6. MutexHeld' /\ OpenForUse' /\ RetryAlone'
    BY <1>2 DEF MutexHeld, OpenForUse, RetryAlone, Exchange, Holding
  <1>7. \A r \in Queries : pc'[r] # "length"
    BY <1>2 DEF Holding
  <1>8. OneRequest'
    BY <1>7 DEF OneRequest, LeftClean
  <1> QED
    BY <1>4, <1>5, <1>6, <1>8

LEMMA StartStep ==
  ASSUME IInv, NEW q \in Queries, Start(q), UNCHANGED protocol
  PROVE  IInv'
  <1> USE DEF IInv, TypeOK
  <1>1. /\ pc' \in [Queries -> QueryStates] /\ pc[q] = "idle" /\ pc'[q] \in {"lock", "done"}
        /\ \A r \in Queries \ {q} : pc'[r] = pc[r]
        /\ lock' \in {lock, lock \ {q}}
        /\ UNCHANGED <<conn, idle, answer, attempt, cancelled>>
        /\ result' \in [Queries -> {"none"} \cup Replies]
        /\ \A r \in Queries : result'[r] = result[r] \/ result'[r] # "OK"
    BY DEF Start, Finish, QueryStates, Replies, DnsErrors
  <1>2. TypeOK' /\ OwnAnswer'
    BY <1>1 DEF OwnAnswer
  <1>3. MutexHeld'
    BY <1>1 DEF MutexHeld, Holding
  <1>4. OpenForUse' /\ RetryAlone'
    BY <1>1 DEF OpenForUse, RetryAlone, OnlyOf, Exchange, Holding
  <1>5. OneRequest'
    BY <1>1 DEF OneRequest, Quiet, One
  <1> QED
    BY <1>2, <1>3, <1>4, <1>5

LEMMA LockStep ==
  ASSUME IInv, NEW q \in Queries, Lock(q), UNCHANGED protocol
  PROVE  IInv'
  <1> USE DEF IInv, TypeOK
  <1>1. /\ pc' \in [Queries -> QueryStates] /\ pc[q] = "lock" /\ pc'[q] = "ensure"
        /\ \A r \in Queries \ {q} : pc'[r] = pc[r]
        /\ lock = {} /\ lock' = {q}
        /\ UNCHANGED <<idle, answer, attempt, cancelled, result>>
        /\ conn' = IF attempt[q] = 1 THEN Closed ELSE conn
    BY DEF Lock, QueryStates
  <1>2. \A r \in Queries : ~Holding(r)
    BY <1>1 DEF MutexHeld
  <1>3. TypeOK' /\ OwnAnswer'
    BY <1>1, FixedConnections DEF OwnAnswer
  <1>4. MutexHeld' /\ OpenForUse'
    BY <1>1, <1>2 DEF MutexHeld, OpenForUse, Exchange, Holding
  <1>5. RetryAlone'
    BY <1>1, <1>2, FixedConnections, NoQueries DEF RetryAlone, OnlyOf, Holding
  <1>6. \A r \in Queries : pc'[r] # "length" /\ pc'[r] # "body" /\ pc[r] # "body"
    BY <1>1, <1>2 DEF Holding
  <1>7. OneRequest'
    BY <1>1, <1>6, FixedConnections, NoQueries DEF OneRequest, Quiet
  <1> QED
    BY <1>3, <1>4, <1>5, <1>7

\* ensure_connection ends with a connection in use, or with a failed attempt.
LEMMA EnsureStep ==
  ASSUME IInv, NEW q \in Queries, EnsureConnection(q), UNCHANGED protocol
  PROVE  IInv'
  <1> USE DEF IInv, TypeOK
  <1>0. Holding(q)
    BY DEF EnsureConnection, Holding
  <1>1. CASE /\ conn' = Closed
             /\ \E e \in {"RETRY", "CONNECTION"} : Fail(q, e)
             /\ UNCHANGED <<idle, answer>>
    <2>1. LeftClean
      BY <1>1, FixedConnections, NoQueries DEF LeftClean, Quiet
    <2>2. \E e \in DnsErrors : Fail(q, e) \/ Finish(q, e)
      BY <1>1 DEF DnsErrors
    <2> QED
      BY <1>0, <1>1, <2>1, <2>2, LeaveStep
  <1>2. CASE /\ \/ Reusable /\ UNCHANGED <<conn, idle>>
                \/ conn' = Fresh /\ idle' = FALSE
             /\ pc' = [pc EXCEPT ![q] = "send"]
             /\ UNCHANGED <<lock, cancelled, attempt, result, answer>>
    <2>1. /\ pc' \in [Queries -> QueryStates] /\ pc[q] = "ensure" /\ pc'[q] = "send"
          /\ \A r \in Queries \ {q} : pc'[r] = pc[r] /\ ~Holding(r)
      BY <1>0, <1>2 DEF EnsureConnection, QueryStates, MutexHeld
    <2>2. TypeOK' /\ OwnAnswer'
      BY <1>2, <2>1, FixedConnections DEF OwnAnswer
    <2>3. MutexHeld' /\ OpenForUse'
      BY <1>0, <1>2, <2>1, FixedConnections DEF MutexHeld, OpenForUse, Exchange, Holding, Reusable
    <2>4. RetryAlone'
      BY <1>0, <1>2, <2>1, FixedConnections, NoQueries DEF RetryAlone, OnlyOf, Holding
    <2>5. \A r \in Queries : pc'[r] # "length" /\ pc'[r] # "body" /\ pc[r] # "body"
      BY <2>1 DEF Holding
    <2>6. OneRequest'
      <3>1. CASE conn' = conn
        BY <2>5, <3>1 DEF OneRequest, Quiet
      <3>2. CASE conn' = Fresh
        BY <2>5, <3>2, FixedConnections, NoQueries DEF OneRequest, Quiet
      <3> QED
        BY <1>2, <3>1, <3>2
    <2> QED
      BY <2>2, <2>3, <2>4, <2>6
  <1> QED
    BY <1>1, <1>2 DEF EnsureConnection

\* A step within the exchange: q goes on, and asks unless the peer has closed.
LEMMA GoOnStep ==
  ASSUME IInv, NEW q \in Queries, UNCHANGED protocol,
         Exchange(q), NEW at \in {"length", "body"}, pc' = [pc EXCEPT ![q] = at],
         UNCHANGED <<idle, lock, cancelled, attempt, result, answer>>,
         \/ UNCHANGED conn
         \/ pc[q] = "send" /\ conn' = [conn EXCEPT !.asked = IF conn.eof THEN <<>> ELSE Append(@, q)],
         protocol = "DoH" => at = "body"
  PROVE  IInv'
  <1> USE DEF IInv, TypeOK
  <1>1. /\ pc' \in [Queries -> QueryStates] /\ pc'[q] = at
        /\ \A r \in Queries \ {q} : pc'[r] = pc[r] /\ ~Holding(r)
    BY DEF QueryStates, MutexHeld, Holding, Exchange
  <1>2. /\ conn' \in Connections /\ conn'.open = conn.open /\ conn'.aligned = conn.aligned
        /\ conn'.answers = conn.answers
        /\ \/ conn' = conn
           \/ pc[q] = "send" /\ conn'.asked \in {<<>>, Append(conn.asked, q)}
    <2>1. CASE UNCHANGED conn
      BY <2>1
    <2>2. CASE /\ pc[q] = "send"
               /\ conn' = [conn EXCEPT !.asked = IF conn.eof THEN <<>> ELSE Append(@, q)]
      <3>1. (IF conn.eof THEN <<>> ELSE Append(conn.asked, q)) \in Seq(Queries)
        BY AppendQuery, NoQueries DEF Connections
      <3> QED
        BY <2>2, <3>1 DEF Connections
    <2> QED
      BY <2>1, <2>2
  <1>3. TypeOK' /\ OwnAnswer'
    BY <1>1, <1>2 DEF OwnAnswer
  <1>4. MutexHeld' /\ OpenForUse'
    BY <1>1, <1>2 DEF MutexHeld, OpenForUse, Exchange, Holding
  <1>5. conn.asked \in Seq(Queries) /\ conn.answers \in Seq(Queries)
    BY DEF Connections
  <1>6. Range(conn'.asked) \subseteq Range(conn.asked) \cup {q}
    BY <1>2, <1>5, AppendQuery, NoQueries
  <1>7. RetryAlone'
    BY <1>1, <1>2, <1>6 DEF RetryAlone, OnlyOf, Holding, Exchange
  <1>8. \A r \in Queries \ {q} : pc[r] # "body" /\ pc[r] # "length"
    BY <1>1 DEF Holding
  <1>9. protocol = "DoH" => Quiet' \/ One'
    <2>1. CASE UNCHANGED conn
      BY <2>1 DEF OneRequest, Quiet, One
    <2>2. CASE pc[q] = "send" /\ conn'.asked \in {<<>>, Append(conn.asked, q)}
      <3>1. protocol = "DoH" => Quiet
        BY <1>8, <2>2 DEF OneRequest
      <3>2. Append(<<>>, q) = <<q>>
        OBVIOUS
      <3> QED
        BY <1>2, <2>2, <3>1, <3>2 DEF Quiet, One
    <2> QED
      BY <1>2, <2>1, <2>2
  <1>10. OneRequest'
    BY <1>1, <1>2, <1>8, <1>9 DEF OneRequest
  <1> QED
    BY <1>3, <1>4, <1>7, <1>10

\* What happens to the connection while somebody else holds it, or nobody.
LEMMA EnvironmentStep ==
  ASSUME IInv, Environment, UNCHANGED protocol
  PROVE  IInv'
  <1> USE DEF IInv, TypeOK
  <1>0. conn.asked \in Seq(Queries) /\ conn.answers \in Seq(Queries)
    BY DEF Connections
  <1>1. /\ conn' \in Connections /\ conn'.open = conn.open /\ conn'.aligned = conn.aligned
        /\ Range(conn'.asked) \cup Range(conn'.answers) \subseteq Range(conn.asked) \cup Range(conn.answers)
        /\ Quiet => Quiet'
        /\ One => Quiet' \/ One'
    <2>1. CASE Answer
      <3>1. /\ conn.asked # <<>>
            /\ conn' = [conn EXCEPT !.asked = Tail(@), !.answers = Append(@, Head(conn.asked))]
        BY <2>1 DEF Answer
      <3>2. /\ Tail(conn.asked) \in Seq(Queries)
            /\ Append(conn.answers, Head(conn.asked)) \in Seq(Queries)
            /\ Range(Tail(conn.asked)) \subseteq Range(conn.asked)
            /\ Range(Append(conn.answers, Head(conn.asked))) = Range(conn.answers) \cup {Head(conn.asked)}
            /\ Head(conn.asked) \in Range(conn.asked)
        BY <1>0, <3>1, TailOfQueries, AppendQuery
      <3>3. /\ conn' \in Connections /\ conn'.open = conn.open /\ conn'.aligned = conn.aligned
            /\ conn'.asked = Tail(conn.asked)
            /\ conn'.answers = Append(conn.answers, Head(conn.asked))
        BY <3>1, <3>2 DEF Connections
      <3>4. One => One'
        <4> SUFFICES ASSUME NEW r \in Queries, conn.asked = <<r>>, conn.answers = <<>> PROVE One'
          BY <3>1 DEF One
        <4>1. Tail(<<r>>) = <<>> /\ Append(<<>>, Head(<<r>>)) = <<r>>
          OBVIOUS
        <4> QED
          BY <3>3, <4>1 DEF One
      <3> QED
        BY <3>1, <3>2, <3>3, <3>4 DEF Quiet
    <2>2. CASE PeerClose
      <3>1. PICK kept \in {conn.answers, <<>>} :
              conn' = [conn EXCEPT !.eof = TRUE, !.asked = <<>>, !.answers = kept]
        BY <2>2 DEF PeerClose
      <3>2. /\ conn' \in Connections /\ conn'.open = conn.open /\ conn'.aligned = conn.aligned
            /\ conn'.asked = <<>> /\ conn'.answers \in {conn.answers, <<>>}
        BY <3>1, NoQueries DEF Connections
      <3> QED
        BY <3>2, NoQueries DEF Quiet, One
    <2>3. CASE UNCHANGED conn
      BY <2>3 DEF Quiet, One
    <2> QED
      BY <2>1, <2>2, <2>3 DEF Environment, IdleTimeout, Cancel
  <1>2. /\ idle' \in BOOLEAN /\ cancelled' \subseteq Queries
        /\ UNCHANGED <<lock, pc, attempt, result, answer>>
    BY DEF Environment, Answer, PeerClose, IdleTimeout, Cancel, queryVars
  <1>3. TypeOK' /\ OwnAnswer'
    BY <1>1, <1>2 DEF OwnAnswer
  <1>4. MutexHeld' /\ OpenForUse' /\ RetryAlone'
    BY <1>1, <1>2 DEF MutexHeld, OpenForUse, RetryAlone, OnlyOf, Exchange, Holding
  <1>5. OneRequest'
    BY <1>1, <1>2 DEF OneRequest
  <1> QED
    BY <1>3, <1>4, <1>5

\* The exchange of DNS over TLS.
LEMMA DotStep ==
  ASSUME IInv, NEW q \in Queries, DotExchange(q), protocol = "DoT", UNCHANGED protocol
  PROVE  IInv'
  <1> USE DEF IInv, TypeOK
  <1>0. conn.asked \in Seq(Queries) /\ conn.answers \in Seq(Queries)
    BY DEF Connections
  <1>a. Exchange(q) /\ Holding(q)
    BY DEF DotExchange, SendQuery, ReadLength, ReadEmpty, ReadGarbage, ReadBody, ReadFails,
           Exchange, Holding
  <1>b. {"CONNECTION", "CANCELLED", "PARSE"} \subseteq DnsErrors
    BY DEF DnsErrors
  <1>1. CASE SendQuery(q)
    <2>1. CASE /\ conn' = [conn EXCEPT !.asked = IF conn.eof THEN <<>> ELSE Append(@, q)]
               /\ pc' = [pc EXCEPT ![q] = "length"]
               /\ UNCHANGED <<lock, cancelled, attempt, result>>
      BY <1>1, <1>a, <2>1, GoOnStep DEF SendQuery
    <2>2. CASE conn' = Closed /\ (Fail(q, "CONNECTION") \/ Finish(q, "CANCELLED"))
      BY <1>1, <1>a, <1>b, <2>2, FixedConnections, LeaveStep DEF SendQuery, LeftClean
    <2> QED
      BY <1>1, <2>1, <2>2 DEF SendQuery
  <1>2. CASE ReadLength(q)
    BY <1>2, <1>a, GoOnStep DEF ReadLength
  <1>3. CASE ReadEmpty(q)
    <2>1. conn' \in Connections
      BY <1>0, <1>3, TailOfQueries DEF ReadEmpty, Connections
    <2> QED
      BY <1>3, <1>a, <1>b, <2>1, LeaveStep DEF ReadEmpty, LeftClean
  <1>4. CASE ReadGarbage(q)
    <2>1. conn' \in Connections
      <3>1. PICK aligned \in BOOLEAN, n \in 0 .. Len(conn.answers) :
              conn' = [conn EXCEPT !.aligned = aligned, !.answers = SubSeq(@, n + 1, Len(@))]
        BY <1>4 DEF ReadGarbage
      <3>2. SubSeq(conn.answers, n + 1, Len(conn.answers)) \in Seq(Queries)
        BY <1>0, RestOfQueries
      <3> QED
        BY <3>1, <3>2 DEF Connections
    <2> QED
      BY <1>4, <1>a, <1>b, <2>1, LeaveStep DEF ReadGarbage, LeftClean
  <1>5. CASE ReadBody(q)
    <2>1. conn' \in Connections
      BY <1>0, <1>5, TailOfQueries DEF ReadBody, Connections
    <2>2. idle' \in BOOLEAN
      BY <1>5 DEF ReadBody
    <2>3. \/ Finish(q, "PARSE") /\ UNCHANGED answer
          \/ Finish(q, "OK") /\ answer' = [answer EXCEPT ![q] = {q}]
      BY <1>5 DEF ReadBody, validate_response
    <2> QED
      BY <1>a, <1>b, <2>1, <2>2, <2>3, LeaveStep DEF LeftClean
  <1>6. CASE ReadFails(q)
    <2>1. conn' \in Connections
      BY <1>6 DEF ReadFails, Connections
    <2> QED
      BY <1>6, <1>a, <1>b, <2>1, LeaveStep DEF ReadFails, LeftClean
  <1> QED
    BY <1>1, <1>2, <1>3, <1>4, <1>5, <1>6 DEF DotExchange

\* The exchange of DNS over HTTPS.  A response is the only thing on the
\* connection when it is read.
LEMMA DohStep ==
  ASSUME IInv, NEW q \in Queries, DohExchange(q), protocol = "DoH", UNCHANGED protocol
  PROVE  IInv'
  <1> USE DEF IInv, TypeOK
  <1>0. conn.asked \in Seq(Queries) /\ conn.answers \in Seq(Queries)
    BY DEF Connections
  <1>a. Exchange(q) /\ Holding(q)
    BY DEF DohExchange, SendRequest, ExchangeFails, BadStatus, Respond, Exchange, Holding
  <1>b. {"CONNECTION", "CANCELLED", "PARSE", "RETRY", "SERVER_REFUSED"} \subseteq DnsErrors
    BY DEF DnsErrors
  <1>c. conn' = Closed => LeftClean
    BY FixedConnections DEF LeftClean, Quiet
  <1>1. CASE SendRequest(q)
    BY <1>1, <1>a, GoOnStep DEF SendRequest
  <1>2. CASE ExchangeFails(q)
    BY <1>2, <1>a, <1>b, <1>c, LeaveStep DEF ExchangeFails, after_error
  <1>3. CASE BadStatus(q)
    BY <1>3, <1>a, <1>b, <1>c, LeaveStep DEF BadStatus
  <1>4. CASE Respond(q)
    <2>1. conn.answers # <<>> /\ conn' = [conn EXCEPT !.answers = Tail(@)]
      BY <1>4 DEF Respond
    <2>2. PICK r \in Queries : conn.asked = <<>> /\ conn.answers = <<r>>
      BY <2>1 DEF OneRequest, Quiet, One
    <2>3. Tail(<<r>>) = <<>>
      OBVIOUS
    <2>4. LeftClean
      BY <2>1, <2>2, <2>3, NoQueries DEF LeftClean, Quiet, OneRequest, Connections
    <2>5. idle' \in BOOLEAN
      BY <1>4 DEF Respond
    <2>6. \/ Finish(q, "PARSE") /\ UNCHANGED answer
          \/ Finish(q, "OK") /\ answer' = [answer EXCEPT ![q] = {q}]
      BY <1>4 DEF Respond, validate_response
    <2> QED
      BY <1>a, <1>b, <2>4, <2>5, <2>6, LeaveStep
  <1> QED
    BY <1>1, <1>2, <1>3, <1>4 DEF DohExchange

-----------------------------------------------------------------------------
LEMMA InitIInv == ResolverInit => IInv
  <1> SUFFICES ASSUME ResolverInit PROVE IInv
    OBVIOUS
  <1> USE DEF ResolverInit, Init
  <1>1. TypeOK
    BY FixedConnections DEF TypeOK, QueryStates, Replies
  <1>2. MutexHeld /\ OpenForUse /\ RetryAlone /\ OwnAnswer
    BY DEF MutexHeld, OpenForUse, RetryAlone, OwnAnswer, Holding, Exchange
  <1>3. OneRequest
    BY FixedConnections DEF OneRequest, Quiet
  <1> QED
    BY <1>1, <1>2, <1>3 DEF IInv

LEMMA NextIInv == IInv /\ [Next]_vars => IInv'
  <1> SUFFICES ASSUME IInv, [Next]_vars PROVE IInv'
    OBVIOUS
  <1>1. ASSUME NEW q \in Queries, query(q), UNCHANGED protocol PROVE IInv'
    BY <1>1, StartStep, LockStep, EnsureStep, DotStep, DohStep DEF query
  <1>2. CASE Environment /\ UNCHANGED protocol
    BY <1>2, EnvironmentStep
  <1>3. CASE UNCHANGED vars
    <2>1. UNCHANGED <<protocol, conn, idle, lock, pc, attempt, cancelled, result, answer>>
      BY <1>3 DEF vars, tlsVars, queryVars
    <2> QED
      BY <2>1 DEF IInv, TypeOK, MutexHeld, OpenForUse, OwnAnswer, RetryAlone, OneRequest, OnlyOf,
                  Holding, Exchange, Quiet, One
  <1> QED
    BY <1>1, <1>2, <1>3 DEF Next

\* The inductive invariant holds for every number of queries.
THEOREM Invariance == Spec => []IInv
  BY InitIInv, NextIInv, PTL DEF Spec

\* A query returns the answer to itself or an error, whatever the connection it
\* shares was left with by the queries before it.
THEOREM EveryAnswerIsOwn == Spec => []OwnAnswer
  <1>1. IInv => OwnAnswer
    BY DEF IInv
  <1> QED
    BY <1>1, Invariance, PTL

\* The second attempt has the connection to itself, although the mutex was free
\* between the two attempts: closing it after the lock is taken anew suffices.
THEOREM RetriesAreClean == Spec => []RetryIsClean
  <1>1. IInv => RetryIsClean
    BY DEF IInv, RetryAlone, RetryIsClean, OnlyOf, Holding
  <1> QED
    BY <1>1, Invariance, PTL

\* DNS over HTTPS sends a request only on a connection on which nothing is
\* outstanding and nothing unread.
THEOREM DohSendsInStep == Spec => []SentInStep
  <1>1. ASSUME IInv, protocol = "DoH", NEW q \in Queries, pc[q] = "send"
        PROVE  InStep
    <2>1. \A r \in Queries : pc[r] # "body"
      <3> SUFFICES ASSUME NEW r \in Queries, pc[r] = "body" PROVE FALSE
        OBVIOUS
      <3>1. lock = {q} /\ lock = {r}
        BY <1>1 DEF IInv, MutexHeld, Holding
      <3> QED
        BY <1>1, <3>1
    <2>2. conn.open
      BY <1>1 DEF IInv, OpenForUse, Exchange
    <2> QED
      BY <1>1, <2>1, <2>2 DEF IInv, OneRequest, Quiet, InStep
  <1>2. IInv => SentInStep
    BY <1>1 DEF SentInStep, SendsInStep
  <1> QED
    BY <1>2, Invariance, PTL
=============================================================================
