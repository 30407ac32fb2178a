---------------------------- MODULE NetworkProofs ----------------------------
(***************************************************************************)
(* Proofs about the parts that face the network: the classic resolver, the *)
(* sockets, the mDNS source, the HTTP exchange, the messages of others and *)
(* the program's own queries, and URIs, for any time-outs, limits and      *)
(* sizes, any number of sockets, and whatever arrives.                     *)
(***************************************************************************)
EXTENDS Network, MessageProofs

\* Pieces that continue each other make up the whole.
LEMMA Pieces ==
    ASSUME NEW k \in Nat, NEW a \in Nat, NEW n \in Nat
    PROVE  /\ [i \in 1 .. a |-> k + i] \o [i \in 1 .. n |-> (k + a) + i]
                = [i \in 1 .. (a + n) |-> k + i]
           /\ Len([i \in 1 .. a |-> k + i]) = a
  <1> DEFINE u == [i \in 1 .. a |-> k + i]
             v == [i \in 1 .. n |-> (k + a) + i]
             w == [i \in 1 .. (a + n) |-> k + i]
  <1>1. u \in Seq(Nat) /\ v \in Seq(Nat) /\ w \in Seq(Nat)
    OBVIOUS
  <1>2. Len(u) = a /\ Len(v) = n /\ Len(w) = a + n
    OBVIOUS
  <1>3. Len(u \o v) = a + n /\ u \o v \in Seq(Nat)
    BY <1>1, <1>2
  <1>4. \A i \in 1 .. (a + n) : (u \o v)[i] = w[i]
    BY <1>1, <1>2
  <1> QED
    BY <1>1, <1>2, <1>3, <1>4

-----------------------------------------------------------------------------
(* The classic resolver: the inductive invariant *)

OverUdp == {"udp_send", "udp_wait"}

ClassicType ==
    /\ query_pc \in OverUdp \cup {"tcp_connect", "tcp_length", "tcp_body", "done"}
    /\ datagram \in Classic!Messages \cup {Classic!NoMessage}
    /\ message \in Classic!Messages
    /\ length \in Nat
    /\ total \in Nat
    /\ cancelled \in BOOLEAN
    /\ waited \in Nat /\ waited <= Timeout
    /\ late \in Nat

\* The buffer holds what follows the prefix, without a gap.
BufferIsPrefix ==
    /\ query_pc \in OverUdp \cup {"tcp_connect"} => total = 0
    /\ query_pc = "tcp_body" => /\ length >= 1
                                /\ buffer = [i \in 1 .. total |-> Classic!Prefix + i]

ReturnedIsOwn ==
    query_result = "OK" =>
        /\ query_pc = "done"
        /\ response.own
        /\ \/ total = 0 /\ ~response.tc
           \/ total > 0 /\ total = length /\ buffer = [i \in 1 .. total |-> Classic!Prefix + i]

\* After a cancellation time passes in a connection attempt only.
LateIsBounded ==
    /\ late <= Timeout
    /\ ~cancelled => late = 0
    /\ query_pc \in OverUdp => late = 0
    /\ query_pc = "tcp_connect" => late <= waited

ClassicInv == ClassicType /\ BufferIsPrefix /\ ReturnedIsOwn /\ LateIsBounded

LEMMA ClassicInitial == NetworkInit => ClassicInv
  <1> SUFFICES ASSUME NetworkInit PROVE ClassicInv
    OBVIOUS
  <1>1. [own |-> FALSE, tc |-> FALSE] \in Classic!Messages
    BY DEF Classic!Messages
  <1>2. One(Classic!Messages) \subseteq Classic!Messages
    BY <1>1 DEF One
  <1>3. PICK messages, lengths :
           /\ messages \subseteq Classic!Messages /\ lengths \subseteq Nat
           /\ Classic!Start(messages, lengths)
    <2>1. CASE part = "classic"
      BY <2>1, NetworkAssumption DEF NetworkInit, Classic!Init
    <2>2. CASE part # "classic"
      BY <1>2, <2>2 DEF NetworkInit
    <2> QED
      BY <2>1, <2>2
  <1>4. /\ query_pc = "udp_send" /\ datagram = Classic!NoMessage /\ message \in Classic!Messages
        /\ length \in Nat /\ total = 0 /\ cancelled = FALSE /\ waited = 0 /\ late = 0
        /\ query_result = "pending"
    BY <1>3 DEF Classic!Start
  <1>5. ClassicType
    <2>1. cancelled \in BOOLEAN
      BY <1>4
    <2>2. waited <= Timeout
      BY <1>4, NetworkAssumption
    <2> QED
      BY <1>4, <2>1, <2>2 DEF ClassicType, OverUdp
  <1>6. BufferIsPrefix /\ ReturnedIsOwn
    BY <1>4 DEF BufferIsPrefix, ReturnedIsOwn, OverUdp
  <1>7. LateIsBounded
    BY <1>4, NetworkAssumption DEF LateIsBounded, OverUdp
  <1> QED
    BY <1>5, <1>6, <1>7 DEF ClassicInv

\* A query that returns an error, or that moves on before it reads.
LEMMA ReturnKeeps == ASSUME ClassicInv, NEW error, error # "OK", Classic!Return(error) PROVE ClassicInv'
  BY DEF Classic!Return, Classic!netVars, Classic!readVars, ClassicInv, ClassicType, BufferIsPrefix,
         ReturnedIsOwn, LateIsBounded, OverUdp

LEMMA NetworkDelivers ==
    ASSUME ClassicInv, Classic!Network \/ Classic!Cancel PROVE ClassicInv'
  <1> USE DEF Classic!readVars, ClassicInv, ClassicType, BufferIsPrefix, ReturnedIsOwn, LateIsBounded,
              OverUdp
  <1>1. CASE Classic!Deliver
    BY <1>1 DEF Classic!Deliver
  <1>2. CASE Classic!Accept
    BY <1>2 DEF Classic!Accept
  <1>3. CASE Classic!Arrive
    BY <1>3 DEF Classic!Arrive
  <1>4. CASE Classic!PeerCloses
    BY <1>4 DEF Classic!PeerCloses
  <1>5. CASE Classic!Cancel
    BY <1>5 DEF Classic!Cancel
  <1> QED
    BY <1>1, <1>2, <1>3, <1>4, <1>5 DEF Classic!Network

LEMMA TickKeeps == ASSUME ClassicInv, Classic!Tick PROVE ClassicInv'
  <1>1. /\ waited < Timeout /\ waited' = waited + 1
        /\ late' = IF cancelled THEN late + 1 ELSE late
        /\ UNCHANGED <<query_pc, datagram, message, length, cancelled, total, buffer, query_result,
                       response>>
    BY DEF Classic!Tick, Classic!netVars, Classic!readVars
  <1>2. cancelled => query_pc = "tcp_connect"
    BY DEF Classic!Tick, Classic!Wakes
  <1>3. Timeout \in Nat
    BY NetworkAssumption
  <1>4. ClassicType'
    BY <1>1, <1>3 DEF ClassicInv, ClassicType
  <1>5. BufferIsPrefix' /\ ReturnedIsOwn'
    BY <1>1 DEF ClassicInv, BufferIsPrefix, ReturnedIsOwn
  <1>6. LateIsBounded'
    BY <1>1, <1>2, <1>3 DEF ClassicInv, ClassicType, LateIsBounded, OverUdp
  <1> QED
    BY <1>4, <1>5, <1>6 DEF ClassicInv

LEMMA ReceiveUdpKeeps == ASSUME ClassicInv, Classic!ReceiveUdp PROVE ClassicInv'
  <1>1. query_pc = "udp_wait" /\ ~cancelled
    BY DEF Classic!ReceiveUdp, Classic!Ready
  <1>2. datagram # Classic!NoMessage
    BY <1>1 DEF Classic!ReceiveUdp, Classic!Ready, Classic!Wakes, Classic!Readable
  <1>3. CASE query_pc' = "tcp_connect"
    <2>1. /\ waited' = 0
          /\ UNCHANGED <<datagram, message, length, cancelled, total, buffer, late, query_result,
                         response>>
      BY <1>3 DEF Classic!ReceiveUdp, Classic!Return, Classic!netVars, Classic!readVars
    <2> QED
      BY <1>1, <1>3, <2>1, NetworkAssumption
         DEF ClassicInv, ClassicType, BufferIsPrefix, ReturnedIsOwn, LateIsBounded, OverUdp
  <1>4. CASE query_pc' = "done" /\ query_result' = "OK"
    <2>1. /\ response' = datagram /\ datagram.own /\ ~datagram.tc
          /\ UNCHANGED <<datagram, message, length, cancelled, total, buffer, waited, late>>
      BY <1>4 DEF Classic!ReceiveUdp, Classic!Return, Classic!netVars, Classic!readVars,
                  Classic!validate_response, Classic!is_truncated
    <2> QED
      BY <1>1, <1>4, <2>1
         DEF ClassicInv, ClassicType, BufferIsPrefix, ReturnedIsOwn, LateIsBounded, OverUdp
  <1>5. CASE Classic!Return("PARSE")
    BY <1>5, ReturnKeeps
  <1> QED
    BY <1>3, <1>4, <1>5 DEF Classic!ReceiveUdp

LEMMA ReceiveTcpKeeps == ASSUME ClassicInv, Classic!ReceiveTcp PROVE ClassicInv'
  <1>1. PICK n \in 1 .. (Classic!PartLength - total) :
           /\ total' = total + n
           /\ buffer' = buffer \o [i \in 1 .. n |-> Classic!Consumed + i]
    BY DEF Classic!ReceiveTcp
  <1>2. /\ query_pc \in {"tcp_length", "tcp_body"} /\ waited' = 0
        /\ UNCHANGED <<query_pc, datagram, message, length, cancelled, late, query_result, response>>
    BY DEF Classic!ReceiveTcp, Classic!netVars
  <1>3. n \in Nat /\ total \in Nat /\ Classic!Prefix = 2
    BY DEF Classic!PartLength, Classic!Prefix, ClassicInv, ClassicType
  <1>4. query_pc = "tcp_body" => buffer' = [i \in 1 .. total' |-> Classic!Prefix + i]
    <2> SUFFICES ASSUME query_pc = "tcp_body" PROVE buffer' = [i \in 1 .. total' |-> 2 + i]
      BY <1>3
    <2>1. buffer = [i \in 1 .. total |-> 2 + i] /\ Classic!Consumed = 2 + total
      BY <1>3 DEF ClassicInv, BufferIsPrefix, Classic!Consumed
    <2> QED
      BY <1>1, <1>3, <2>1, Pieces
  <1>5. ClassicType'
    BY <1>1, <1>2, <1>3, NetworkAssumption DEF ClassicInv, ClassicType
  <1>6. BufferIsPrefix' /\ ReturnedIsOwn'
    BY <1>2, <1>4 DEF ClassicInv, BufferIsPrefix, ReturnedIsOwn, OverUdp
  <1>7. LateIsBounded'
    BY <1>2 DEF ClassicInv, LateIsBounded, OverUdp
  <1> QED
    BY <1>5, <1>6, <1>7 DEF ClassicInv

\* The other steps of query().
LEMMA QueryKeeps == ASSUME ClassicInv, Classic!query PROVE ClassicInv'
  <1> USE DEF Classic!netVars, Classic!readVars
  <1>1. CASE Classic!SendUdp
    BY <1>1 DEF Classic!SendUdp, ClassicInv, ClassicType, BufferIsPrefix, ReturnedIsOwn, LateIsBounded,
                OverUdp
  <1>2. CASE Classic!Connected
    BY <1>2, ReturnKeeps, NetworkAssumption
       DEF Classic!Connected, ClassicInv, ClassicType, BufferIsPrefix, ReturnedIsOwn, LateIsBounded,
           OverUdp
  <1>3. CASE Classic!LengthRead
    <2>1. CASE Classic!Return("PARSE")
      BY <2>1, ReturnKeeps
    <2>2. CASE /\ query_pc = "tcp_length" /\ query_pc' = "tcp_body"
               /\ length \in 1 .. MaxPacket
               /\ total' = 0 /\ buffer' = <<>> /\ waited' = 0
               /\ UNCHANGED <<Classic!netVars, late, query_result, response>>
      <3>1. buffer' = [i \in 1 .. total' |-> Classic!Prefix + i]
        BY <2>2
      <3>2. ClassicType' /\ length >= 1
        BY <2>2, NetworkAssumption DEF ClassicInv, ClassicType
      <3>3. LateIsBounded' /\ ReturnedIsOwn'
        BY <2>2 DEF ClassicInv, LateIsBounded, ReturnedIsOwn, OverUdp
      <3> QED
        BY <2>2, <3>1, <3>2, <3>3 DEF ClassicInv, BufferIsPrefix, OverUdp
    <2> QED
      BY <1>3, <2>1, <2>2 DEF Classic!LengthRead
  <1>4. CASE Classic!BodyRead
    <2>1. CASE Classic!Return("PARSE")
      BY <2>1, ReturnKeeps
    <2>2. CASE /\ query_pc = "tcp_body" /\ total = length
               /\ message.own
               /\ query_pc' = "done" /\ query_result' = "OK" /\ response' = message
               /\ UNCHANGED <<Classic!netVars, Classic!readVars, waited, late>>
      <3>1. total > 0 /\ buffer = [i \in 1 .. total |-> Classic!Prefix + i]
        BY <2>2 DEF ClassicInv, ClassicType, BufferIsPrefix
      <3>2. ReturnedIsOwn'
        BY <2>2, <3>1 DEF ReturnedIsOwn
      <3>3. ClassicType' /\ LateIsBounded' /\ BufferIsPrefix'
        BY <2>2 DEF ClassicInv, ClassicType, LateIsBounded, BufferIsPrefix, OverUdp
      <3> QED
        BY <3>2, <3>3 DEF ClassicInv
    <2> QED
      BY <1>4, <2>1, <2>2 DEF Classic!BodyRead, Classic!PartLength, Classic!validate_response
  <1>5. CASE Classic!PeerClosed \/ Classic!WaitCancelled \/ Classic!WaitTimesOut
    BY <1>5, ReturnKeeps DEF Classic!PeerClosed, Classic!WaitCancelled, Classic!WaitTimesOut
  <1> QED
    BY <1>1, <1>2, <1>3, <1>4, <1>5, ReceiveUdpKeeps, ReceiveTcpKeeps DEF Classic!query

LEMMA ClassicNext == ClassicInv /\ [NetworkNext]_networkVars => ClassicInv'
  <1> SUFFICES ASSUME ClassicInv, [NetworkNext]_networkVars PROVE ClassicInv'
    OBVIOUS
  <1>1. CASE UNCHANGED classicVars
    BY <1>1 DEF classicVars, ClassicInv, ClassicType, BufferIsPrefix, ReturnedIsOwn, LateIsBounded
  <1>2. CASE Classic!Failure
    BY <1>2, ReturnKeeps DEF Classic!Failure, Classic!SystemFails, Classic!BuildFails,
                             Classic!OptionFails
  <1> QED
    BY <1>1, <1>2, QueryKeeps, TickKeeps, NetworkDelivers
       DEF NetworkNext, exchange, exchange_fails, parse_untrusted, parse_own, classic_query,
           classic_tick, classic_world, socket_step, socket_world, mdns_step, mdns_world, reopen, Only,
           networkVars

LEMMA ClassicInvariance == NetworkSpec => []ClassicInv
  BY ClassicInitial, ClassicNext, PTL DEF NetworkSpec

\* Whatever datagrams arrive first, forged or late, and however the TCP stream
\* is cut, what query() returns answers the query, is truncated only if it came
\* over TCP, and is put together from all the bytes behind its length prefix.
THEOREM QueryReturnsItsAnswer == NetworkSpec => []AnswerIsOwn
  <1>1. ClassicInv => AnswerIsOwn
    <2> SUFFICES ASSUME ClassicInv, query_result = "OK" PROVE AnswerIsOwn
      BY DEF AnswerIsOwn, Classic!AnswerIsOwn, Classic!MessageIsWhole
    <2>1. response.own /\ (response.tc => total > 0)
      BY DEF ClassicInv, ClassicType, ReturnedIsOwn
    <2>2. ASSUME total > 0
          PROVE  Len(buffer) = length /\ \A i \in 1 .. length : buffer[i] = Classic!Prefix + i
      <3>1. total = length /\ buffer = [i \in 1 .. total |-> Classic!Prefix + i] /\ total \in Nat
        BY <2>2 DEF ClassicInv, ClassicType, ReturnedIsOwn
      <3>2. Classic!Prefix \in Nat
        BY DEF Classic!Prefix
      <3>3. Len(buffer) = total
        BY <3>1, <3>2, Pieces
      <3> QED
        BY <3>1, <3>3
    <2> QED
      BY <2>1, <2>2 DEF AnswerIsOwn, Classic!AnswerIsOwn, Classic!MessageIsWhole
  <1> QED
    BY <1>1, ClassicInvariance, PTL

\* A cancelled query waits at most for one connection attempt: the pipe of the
\* token is watched in every other wait, and looked at before the data.
THEOREM CancellationIsSeen == NetworkSpec => []CancelIsPrompt
  <1>1. ClassicInv => CancelIsPrompt
    BY DEF ClassicInv, LateIsBounded, CancelIsPrompt, Classic!CancelIsPrompt
  <1> QED
    BY <1>1, ClassicInvariance, PTL

-----------------------------------------------------------------------------
(* Sockets: the inductive invariant *)

Ops     == {"none", "construct", "close", "move", "connect", "send", "recv_exact"}
OfConnect == {"blocking", "started", "poll", "fcntl_failed"}
Steps   == OfConnect \cup {"return", "stream", "datagram"}
Results == {"none", "ok", "all", "short", "error", "INTERNAL", "TIMED_OUT", "REFUSED", "UNREACHABLE",
            "CANCELLED"}

NoFd == Posix!Closed

SocketType ==
    /\ fd \in [Sockets -> Fds \cup {NoFd}]
    /\ owner \in [Fds -> {"free", "other", "ours"}]
    /\ nonblocking \subseteq Fds
    /\ call \in [op : Ops, sock : Sockets \cup {NoFd}, step : Steps, result : Results,
                 used : Fds \cup {NoFd}, orig_flags : SUBSET Fds]
    /\ moved \in Seq(Nat)

\* The objects hold the thread's descriptors, each of them one, and no other.
FdsAreHeld ==
    /\ \A o \in Sockets : fd[o] # NoFd => owner[fd[o]] = "ours"
    /\ \A o, p \in Sockets : o # p /\ fd[o] # NoFd => fd[o] # fd[p]
    /\ \A f \in Fds : owner[f] = "ours" => \E o \in Sockets : fd[o] = f

\* While connect runs nobody else has its descriptor, and the mode it saved is
\* that descriptor's.
ConnectIsOwn ==
    /\ call.step \in OfConnect => call.op = "connect"
    /\ call.op = "connect" /\ call.used # NoFd => owner[call.used] = "ours"
    /\ call.orig_flags \subseteq {call.used}
    /\ call.step = "blocking" => nonblocking \cap {call.used} = call.orig_flags

\* What a transfer has moved so far follows the start without a gap.
TransferIsPrefix ==
    /\ call.step # "return" => call.result = "none"
    /\ call.step \in {"stream", "datagram"} => call.op \in {"send", "recv_exact"}
    /\ call.result = "ok" => call.op = "connect"
    /\ call.step = "stream" => moved = [i \in 1 .. Len(moved) |-> i]
    /\ call.step = "datagram" => moved = <<>>

SocketInv == SocketType /\ FdsAreHeld /\ ConnectIsOwn /\ TransferIsPrefix /\ SuccessIsWhole

LEMMA SocketInitial == NetworkInit => SocketInv
  <1> SUFFICES ASSUME NetworkInit PROVE SocketInv
    OBVIOUS
  <1>1. /\ fd = [o \in Sockets |-> NoFd] /\ owner = [f \in Fds |-> "free"]
        /\ nonblocking = {} /\ moved = <<>>
        /\ call = [op |-> "none", sock |-> NoFd, step |-> "return", result |-> "none", used |-> NoFd,
                   orig_flags |-> {}]
    BY DEF NetworkInit, Posix!SocketInit, Posix!NoCall, NoFd
  <1>2. SocketType
    BY <1>1 DEF SocketType, Ops, Steps, OfConnect, Results
  <1>4. FdsAreHeld
    BY <1>1 DEF FdsAreHeld
  <1>5. ConnectIsOwn /\ TransferIsPrefix /\ SuccessIsWhole
    BY <1>1 DEF ConnectIsOwn, TransferIsPrefix, SuccessIsWhole, Posix!SuccessIsWhole, OfConnect
  <1> QED
    BY <1>2, <1>4, <1>5 DEF SocketInv

LEMMA FdsStay == ASSUME FdsAreHeld, UNCHANGED <<fd, owner>> PROVE FdsAreHeld'
  BY DEF FdsAreHeld

\* A call that ends without having moved everything.
LEMMA FinishKeeps ==
    ASSUME SocketInv, NEW outcome \in Results \ {"all"}, Posix!Finish(outcome), nonblocking' \subseteq Fds,
           outcome = "ok" => call.op = "connect" /\ nonblocking' \cap {call.used} = call.orig_flags
    PROVE  SocketInv'
  <1>1. /\ call \in [op : Ops, sock : Sockets \cup {NoFd}, step : Steps, result : Results,
                     used : Fds \cup {NoFd}, orig_flags : SUBSET Fds]
        /\ call' = [call EXCEPT !.step = "return", !.result = outcome]
        /\ UNCHANGED <<fd, owner, moved>>
    BY DEF Posix!Finish, SocketInv, SocketType
  <1>2. /\ call'.step = "return" /\ call'.result = outcome /\ call'.op = call.op
        /\ call'.used = call.used /\ call'.orig_flags = call.orig_flags
    BY <1>1
  <1>3. SocketType'
    BY <1>1 DEF SocketInv, SocketType, Steps
  <1>4. ConnectIsOwn' /\ TransferIsPrefix'
    BY <1>1, <1>2 DEF SocketInv, ConnectIsOwn, TransferIsPrefix, OfConnect
  <1>5. SuccessIsWhole'
    BY <1>2 DEF SuccessIsWhole, Posix!SuccessIsWhole, Posix!Idle
  <1> QED
    BY <1>1, <1>3, <1>4, <1>5, FdsStay DEF SocketInv

\* The steps of connect.
LEMMA ConnectKeeps ==
    ASSUME SocketInv,
           \/ Posix!ConnectBlocking \/ Posix!FcntlFailed
           \/ Posix!ConnectStarted \/ Posix!ConnectPolled
    PROVE  SocketInv'
  <1>1. \A e : Posix!to_connect_error(e) \in Results \ {"all", "ok"}
    BY DEF Posix!to_connect_error, Results
  <1>2. call.step \in OfConnect /\ call.op = "connect" /\ call.orig_flags \subseteq {call.used}
    BY DEF Posix!ConnectBlocking, Posix!FcntlFailed, Posix!ConnectStarted, Posix!ConnectPolled,
           SocketInv, ConnectIsOwn, OfConnect
  <1>3. call.orig_flags \subseteq Fds /\ nonblocking \subseteq Fds
    BY DEF SocketInv, SocketType
  <1>4. CASE Posix!FcntlFailed
    BY <1>3, <1>4, FinishKeeps DEF Posix!FcntlFailed, Results
  <1>5. CASE Posix!ConnectBlocking
    BY <1>1, <1>2, <1>3, <1>5, FinishKeeps
       DEF Posix!ConnectBlocking, Results, SocketInv, ConnectIsOwn
  <1>6. Posix!SavedFlags \subseteq Fds /\ Posix!SavedFlags \cap {call.used} = call.orig_flags
    BY <1>2, <1>3 DEF Posix!SavedFlags
  <1>7. CASE Posix!Restore
    BY <1>2, <1>3, <1>6, <1>7, FinishKeeps DEF Posix!Restore, Results
  <1>8. ASSUME NEW outcome \in Results \ {"all", "ok"}, Posix!GuardUnwinds(outcome) PROVE SocketInv'
    BY <1>3, <1>6, <1>8, FinishKeeps DEF Posix!GuardUnwinds
  <1>9. CASE Posix!Goto("poll")
    <2>1. /\ call \in [op : Ops, sock : Sockets \cup {NoFd}, step : Steps, result : Results,
                       used : Fds \cup {NoFd}, orig_flags : SUBSET Fds]
          /\ call' = [call EXCEPT !.step = "poll"]
          /\ UNCHANGED <<fd, owner, nonblocking, moved>>
      BY <1>9 DEF Posix!Goto, SocketInv, SocketType
    <2>2. /\ call'.step = "poll" /\ call'.result = call.result /\ call'.op = call.op
          /\ call'.used = call.used /\ call'.orig_flags = call.orig_flags
      BY <2>1
    <2>3. SocketType'
      BY <2>1 DEF SocketInv, SocketType, Steps, OfConnect
    <2>4. ConnectIsOwn' /\ TransferIsPrefix' /\ SuccessIsWhole'
      BY <1>2, <2>1, <2>2 DEF SocketInv, ConnectIsOwn, TransferIsPrefix, OfConnect, SuccessIsWhole,
                              Posix!SuccessIsWhole, Posix!Idle
    <2> QED
      BY <2>1, <2>3, <2>4, FdsStay DEF SocketInv
  <1>10. "TIMED_OUT" \in Results \ {"all", "ok"}
    BY DEF Results
  <1>11. CASE Posix!ConnectStarted
    BY <1>1, <1>7, <1>8, <1>9, <1>11 DEF Posix!ConnectStarted
  <1>12. CASE Posix!ConnectPolled
    BY <1>1, <1>7, <1>8, <1>10, <1>12 DEF Posix!ConnectPolled
  <1> QED
    BY <1>4, <1>5, <1>11, <1>12

\* The first bytes, counted from one.
LEMMA FirstPieces ==
    ASSUME NEW a \in Nat, NEW n \in Nat
    PROVE  /\ [i \in 1 .. a |-> i] \o [i \in 1 .. n |-> a + i] = [i \in 1 .. (a + n) |-> i]
           /\ [i \in 1 .. a |-> i] \in Seq(Nat)
           /\ Len([i \in 1 .. a |-> i]) = a
  <1>1. \A m \in Nat : [i \in 1 .. m |-> i] = [i \in 1 .. m |-> 0 + i]
    OBVIOUS
  <1>2. [i \in 1 .. n |-> a + i] = [i \in 1 .. n |-> (0 + a) + i]
    OBVIOUS
  <1>3. a + n \in Nat /\ 0 \in Nat
    OBVIOUS
  <1> QED
    BY <1>1, <1>2, <1>3, Pieces

\* The steps of a transfer.
LEMMA TransferKeeps ==
    ASSUME SocketInv,
           \/ Posix!StreamPiece \/ Posix!StreamEnds
           \/ Posix!Datagram \/ Posix!TransferFails
    PROVE  SocketInv'
  <1>1. call \in [op : Ops, sock : Sockets \cup {NoFd}, step : Steps, result : Results,
                  used : Fds \cup {NoFd}, orig_flags : SUBSET Fds]
    BY DEF SocketInv, SocketType
  <1>2. CASE Posix!StreamEnds \/ Posix!TransferFails
    <2>1. UNCHANGED nonblocking /\ nonblocking \subseteq Fds
      BY <1>2 DEF Posix!StreamEnds, Posix!TransferFails, SocketInv, SocketType
    <2> QED
      BY <1>2, <2>1, FinishKeeps DEF Posix!StreamEnds, Posix!TransferFails, Results
  <1>3. ASSUME NEW outcome \in {"all", "short"},
               call.step \in {"stream", "datagram"},
               call' = [call EXCEPT !.step = "return", !.result = outcome],
               moved' \in Seq(Nat),
               outcome = "all" => moved' = [i \in 1 .. Length |-> i],
               UNCHANGED <<fd, owner, nonblocking>>
        PROVE  SocketInv'
    <2>1. /\ call'.step = "return" /\ call'.result = outcome /\ call'.op = call.op
          /\ call'.used = call.used /\ call'.orig_flags = call.orig_flags
          /\ call.op \in {"send", "recv_exact"}
      BY <1>1, <1>3 DEF SocketInv, TransferIsPrefix
    <2>2. SocketType'
      BY <1>1, <1>3 DEF SocketInv, SocketType, Steps, Results
    <2>3. ConnectIsOwn' /\ TransferIsPrefix' /\ SuccessIsWhole'
      BY <1>3, <2>1 DEF SocketInv, ConnectIsOwn, TransferIsPrefix, OfConnect, SuccessIsWhole,
                        Posix!SuccessIsWhole, Posix!Idle
    <2> QED
      BY <1>3, <2>2, <2>3, FdsStay DEF SocketInv
  <1>4. CASE Posix!Datagram
    <2>1. PICK n \in 0 .. Length :
             /\ moved' = Posix!Piece(n)
             /\ call' = [call EXCEPT !.step = "return", !.result = IF n = Length THEN "all" ELSE "short"]
      BY <1>4 DEF Posix!Datagram
    <2>2. moved = <<>> /\ n \in Nat
      <3>1. n \in Nat
        BY NetworkAssumption
      <3> QED
        BY <1>4, <3>1 DEF Posix!Datagram, SocketInv, TransferIsPrefix
    <2>3. moved' = [i \in 1 .. n |-> i]
      BY <2>1, <2>2 DEF Posix!Piece
    <2>4. moved' \in Seq(Nat)
      BY <2>2, <2>3, FirstPieces
    <2>5. call.step = "datagram" /\ UNCHANGED <<fd, owner, nonblocking>>
      BY <1>4 DEF Posix!Datagram
    <2> QED
      BY <1>3, <2>1, <2>3, <2>4, <2>5
  <1>5. CASE Posix!StreamPiece
    <2>1. PICK n \in 1 .. (Length - Len(moved)) :
             /\ moved' = moved \o Posix!Piece(n)
             /\ call' = IF Len(moved) + n = Length
                        THEN [call EXCEPT !.step = "return", !.result = "all"] ELSE call
      BY <1>5 DEF Posix!StreamPiece
    <2>2. /\ call.step = "stream" /\ moved = [i \in 1 .. Len(moved) |-> i] /\ Len(moved) \in Nat
          /\ UNCHANGED <<fd, owner, nonblocking>>
      BY <1>5 DEF Posix!StreamPiece, SocketInv, SocketType, TransferIsPrefix
    <2>3. n \in Nat
      BY <2>2, NetworkAssumption
    <2>4. /\ moved' = [i \in 1 .. (Len(moved) + n) |-> i]
          /\ moved' \in Seq(Nat) /\ Len(moved') = Len(moved) + n
      <3>1. moved' = [i \in 1 .. Len(moved) |-> i] \o [i \in 1 .. n |-> Len(moved) + i]
        BY <2>1, <2>2 DEF Posix!Piece
      <3>2. Len(moved) + n \in Nat
        BY <2>2, <2>3
      <3> QED
        BY <2>2, <2>3, <3>1, <3>2, FirstPieces
    <2>5. CASE Len(moved) + n = Length
      BY <1>3, <2>1, <2>2, <2>4, <2>5
    <2>6. CASE Len(moved) + n # Length
      <3>1. call' = call
        BY <2>1, <2>6
      <3>2. SocketType' /\ ConnectIsOwn'
        BY <2>2, <2>4, <3>1 DEF SocketInv, SocketType, ConnectIsOwn
      <3>3. TransferIsPrefix' /\ SuccessIsWhole'
        BY <2>2, <2>4, <3>1 DEF SocketInv, TransferIsPrefix, SuccessIsWhole, Posix!SuccessIsWhole,
                                Posix!Idle
      <3> QED
        BY <2>2, <3>2, <3>3, FdsStay DEF SocketInv
    <2> QED
      BY <2>5, <2>6
  <1> QED
    BY <1>2, <1>4, <1>5

\* A call begins, and perhaps ends at once; its effects on the descriptors come
\* with the operation.
LEMMA BeginKeeps ==
    ASSUME SocketInv, NEW op \in Ops \ {"none"}, NEW o \in Sockets, NEW step \in Steps,
           Posix!Begin(op, o, step),
           step \in OfConnect => op = "connect",
           step \in {"stream", "datagram"} => op \in {"send", "recv_exact"},
           op = "connect" => UNCHANGED <<fd, owner>>,
           step = "blocking" => UNCHANGED nonblocking,
           nonblocking' \subseteq Fds,
           fd' \in [Sockets -> Fds \cup {NoFd}],
           owner' \in [Fds -> {"free", "other", "ours"}],
           FdsAreHeld'
    PROVE  SocketInv'
  <1>1. /\ call' = [op |-> op, sock |-> o, step |-> step, result |-> "none", used |-> fd[o],
                    orig_flags |-> nonblocking \cap {fd[o]}]
        /\ moved' = <<>>
    BY DEF Posix!Begin
  <1>2. fd[o] \in Fds \cup {NoFd} /\ nonblocking \cap {fd[o]} \subseteq Fds
    BY DEF SocketInv, SocketType
  <1>3. call' \in [op : Ops, sock : Sockets \cup {NoFd}, step : Steps, result : Results,
                   used : Fds \cup {NoFd}, orig_flags : SUBSET Fds]
    BY <1>1, <1>2 DEF Results
  <1>4. SocketType'
    BY <1>1, <1>3 DEF SocketType
  <1>5. /\ call'.op = op /\ call'.step = step /\ call'.used = fd[o] /\ call'.result = "none"
        /\ call'.orig_flags = nonblocking \cap {fd[o]}
    BY <1>1
  <1>6. ConnectIsOwn'
    BY <1>5 DEF ConnectIsOwn, SocketInv, FdsAreHeld
  <1>7. TransferIsPrefix'
    BY <1>1, <1>5 DEF TransferIsPrefix
  <1>8. SuccessIsWhole'
    BY <1>5 DEF SuccessIsWhole, Posix!SuccessIsWhole
  <1> QED
    BY <1>4, <1>6, <1>7, <1>8 DEF SocketInv

\* A new object and a new descriptor.
LEMMA ConstructKeeps == ASSUME SocketInv, NEW o \in Sockets, Posix!Construct(o) PROVE SocketInv'
  <1>1. fd[o] = NoFd /\ Posix!Begin("construct", o, "return")
    BY DEF Posix!Construct, NoFd
  <1>2. nonblocking' \subseteq Fds
    BY DEF Posix!Construct, SocketInv, SocketType
  <1>3. /\ fd' \in [Sockets -> Fds \cup {NoFd}]
        /\ owner' \in [Fds -> {"free", "other", "ours"}]
    BY DEF Posix!Construct, SocketInv, SocketType
  <1>4. FdsAreHeld'
    <2>1. CASE UNCHANGED <<fd, owner>>
      BY <2>1, FdsStay DEF SocketInv
    <2>2. CASE \E f \in Fds : /\ owner[f] = "free"
                              /\ fd' = [fd EXCEPT ![o] = f]
                              /\ owner' = [owner EXCEPT ![f] = "ours"]
      <3>1. PICK f \in Fds : /\ owner[f] = "free"
                             /\ fd' = [fd EXCEPT ![o] = f]
                             /\ owner' = [owner EXCEPT ![f] = "ours"]
        BY <2>2
      <3>2. f # NoFd
        BY NetworkAssumption DEF NoFd, Posix!Closed
      <3>3. /\ \A p \in Sockets : fd'[p] # NoFd => owner'[fd'[p]] = "ours"
            /\ \A p, q \in Sockets : p # q /\ fd'[p] # NoFd => fd'[p] # fd'[q]
        BY <3>1, <3>2 DEF SocketInv, SocketType, FdsAreHeld
      <3>4. ASSUME NEW g \in Fds, owner'[g] = "ours" PROVE \E p \in Sockets : fd'[p] = g
        <4>1. CASE g = f
          BY <3>1, <4>1 DEF SocketInv, SocketType
        <4>2. CASE g # f
          <5>1. PICK p \in Sockets : fd[p] = g
            BY <3>1, <3>4, <4>2 DEF SocketInv, SocketType, FdsAreHeld
          <5>2. p # o
            BY <1>1, <5>1, NetworkAssumption DEF NoFd, Posix!Closed
          <5> QED
            BY <3>1, <5>1, <5>2 DEF SocketInv, SocketType
        <4> QED
          BY <4>1, <4>2
      <3> QED
        BY <3>3, <3>4 DEF FdsAreHeld
    <2> QED
      BY <2>1, <2>2 DEF Posix!Construct
  <1> QED
    BY <1>1, <1>2, <1>3, <1>4, BeginKeeps DEF Ops, Steps, OfConnect

\* close() gives back what the object holds.
LEMMA CloseKeeps == ASSUME SocketInv, NEW o \in Sockets, Posix!close(o) PROVE SocketInv'
  <1>1. /\ Posix!Begin("close", o, "return")
        /\ fd' = [fd EXCEPT ![o] = NoFd]
        /\ owner' = IF fd[o] = NoFd THEN owner ELSE [owner EXCEPT ![fd[o]] = "free"]
        /\ UNCHANGED nonblocking
    BY DEF Posix!close, Posix!FdAfterClose, Posix!Released, NoFd
  <1>2. /\ fd \in [Sockets -> Fds \cup {NoFd}] /\ owner \in [Fds -> {"free", "other", "ours"}]
        /\ nonblocking \subseteq Fds
    BY DEF SocketInv, SocketType
  <1>3. FdsAreHeld'
    <2>1. CASE fd[o] = NoFd
      BY <1>1, <1>2, <2>1, FdsStay DEF SocketInv
    <2>2. CASE fd[o] # NoFd
      <3>1. fd[o] \in Fds /\ owner' = [owner EXCEPT ![fd[o]] = "free"]
        BY <1>1, <1>2, <2>2
      <3>2. /\ \A p \in Sockets : fd'[p] # NoFd => owner'[fd'[p]] = "ours"
            /\ \A p, q \in Sockets : p # q /\ fd'[p] # NoFd => fd'[p] # fd'[q]
        BY <1>1, <1>2, <2>2, <3>1 DEF SocketInv, FdsAreHeld
      <3>3. ASSUME NEW g \in Fds, owner'[g] = "ours" PROVE \E p \in Sockets : fd'[p] = g
        <4>1. g # fd[o] /\ owner[g] = "ours"
          BY <1>2, <3>1, <3>3
        <4>2. PICK p \in Sockets : fd[p] = g
          BY <4>1 DEF SocketInv, FdsAreHeld
        <4> QED
          BY <1>1, <1>2, <4>1, <4>2
      <3> QED
        BY <3>2, <3>3 DEF FdsAreHeld
    <2> QED
      BY <2>1, <2>2
  <1>4. fd' \in [Sockets -> Fds \cup {NoFd}] /\ owner' \in [Fds -> {"free", "other", "ours"}]
    BY <1>1, <1>2
  <1> QED
    BY <1>1, <1>2, <1>3, <1>4, BeginKeeps DEF Ops, Steps, OfConnect

\* A move gives back what the target holds; what the source holds changes hands.
LEMMA MoveKeeps == ASSUME SocketInv, NEW o \in Sockets, NEW t \in Sockets, Posix!Move(o, t) PROVE SocketInv'
  <1>1. /\ o # t /\ Posix!Begin("move", t, "return")
        /\ fd' = [fd EXCEPT ![t] = fd[o], ![o] = NoFd]
        /\ owner' = IF fd[t] = NoFd THEN owner ELSE [owner EXCEPT ![fd[t]] = "free"]
        /\ UNCHANGED nonblocking
    BY DEF Posix!Move, Posix!Released, NoFd
  <1>2. /\ fd \in [Sockets -> Fds \cup {NoFd}] /\ owner \in [Fds -> {"free", "other", "ours"}]
        /\ nonblocking \subseteq Fds
    BY DEF SocketInv, SocketType
  <1>3. fd' \in [Sockets -> Fds \cup {NoFd}] /\ owner' \in [Fds -> {"free", "other", "ours"}]
    BY <1>1, <1>2
  <1>4. /\ fd'[t] = fd[o] /\ fd'[o] = NoFd
        /\ \A p \in Sockets \ {o, t} : fd'[p] = fd[p]
    BY <1>1, <1>2
  <1>5. /\ \A p \in Sockets : fd'[p] # NoFd => owner'[fd'[p]] = "ours"
        /\ \A p, q \in Sockets : p # q /\ fd'[p] # NoFd => fd'[p] # fd'[q]
    BY <1>1, <1>2, <1>3, <1>4 DEF SocketInv, FdsAreHeld
  <1>8. ASSUME NEW g \in Fds, owner'[g] = "ours" PROVE \E p \in Sockets : fd'[p] = g
    <2>1. owner[g] = "ours" /\ g # fd[t]
      BY <1>1, <1>2, <1>8, NetworkAssumption DEF NoFd, Posix!Closed
    <2>2. PICK p \in Sockets : fd[p] = g
      BY <2>1 DEF SocketInv, FdsAreHeld
    <2>3. CASE p = o
      BY <1>4, <2>2, <2>3
    <2>4. CASE p # o
      BY <1>4, <2>1, <2>2, <2>4
    <2> QED
      BY <2>3, <2>4
  <1>9. FdsAreHeld'
    BY <1>5, <1>8 DEF FdsAreHeld
  <1> QED
    BY <1>1, <1>2, <1>3, <1>9, BeginKeeps DEF Ops, Steps, OfConnect

\* connect and the transfers begin; they change no object.
LEMMA CallKeeps ==
    ASSUME SocketInv, NEW o \in Sockets, Posix!ConnectBegins(o) \/ Posix!TransferBegins(o)
    PROVE  SocketInv'
  <1>1. UNCHANGED <<fd, owner>>
    BY DEF Posix!ConnectBegins, Posix!TransferBegins
  <1>2. /\ fd' \in [Sockets -> Fds \cup {NoFd}] /\ owner' \in [Fds -> {"free", "other", "ours"}]
        /\ FdsAreHeld' /\ nonblocking \subseteq Fds
    BY <1>1, FdsStay DEF SocketInv, SocketType
  <1>3. CASE Posix!ConnectBegins(o)
    <2>1. PICK step \in {"blocking", "started", "fcntl_failed"} :
             /\ Posix!Begin("connect", o, step)
             /\ step = "blocking" => UNCHANGED nonblocking
      BY <1>3 DEF Posix!ConnectBegins
    <2>2. nonblocking' \subseteq Fds
      <3>1. fd[o] \in Fds \cup {NoFd}
        BY DEF SocketInv, SocketType
      <3> QED
        BY <1>2, <1>3, <3>1 DEF Posix!ConnectBegins, NoFd
    <2> QED
      BY <1>1, <1>2, <2>1, <2>2, BeginKeeps DEF Ops, Steps, OfConnect
  <1>4. CASE Posix!TransferBegins(o)
    <2>1. PICK op \in {"send", "recv_exact"}, step \in {"stream", "datagram"} : Posix!Begin(op, o, step)
      BY <1>4 DEF Posix!TransferBegins
    <2>2. UNCHANGED nonblocking
      BY <1>4 DEF Posix!TransferBegins
    <2> QED
      BY <1>1, <1>2, <2>1, <2>2, BeginKeeps DEF Ops, Steps, OfConnect
  <1> QED
    BY <1>3, <1>4

\* Other threads take descriptors that are free and give back their own.
LEMMA WorldKeeps == ASSUME SocketInv, Posix!SocketWorld PROVE SocketInv'
  <1>1. PICK f \in Fds, who \in {"free", "other"} :
           /\ owner[f] # "ours"
           /\ owner' = [owner EXCEPT ![f] = who]
           /\ nonblocking' = nonblocking \ {f} \/ UNCHANGED nonblocking
           /\ UNCHANGED <<fd, call, moved>>
    BY DEF Posix!SocketWorld, Posix!OtherOpens, Posix!OtherCloses
  <1>2. SocketType'
    BY <1>1 DEF SocketInv, SocketType
  <1>3. \A g \in Fds : owner'[g] = "ours" <=> owner[g] = "ours"
    BY <1>1 DEF SocketInv, SocketType
  <1>5. FdsAreHeld'
    BY <1>1, <1>3 DEF SocketInv, SocketType, FdsAreHeld
  <1>6. call.used \in Fds \cup {NoFd} /\ f # NoFd
    BY NetworkAssumption DEF SocketInv, SocketType, NoFd, Posix!Closed
  <1>7. ASSUME call.op = "connect" PROVE nonblocking' \cap {call.used} = nonblocking \cap {call.used}
    BY <1>1, <1>6, <1>7 DEF SocketInv, ConnectIsOwn
  <1>8. ConnectIsOwn'
    BY <1>1, <1>3, <1>6, <1>7 DEF SocketInv, ConnectIsOwn, OfConnect
  <1>9. TransferIsPrefix' /\ SuccessIsWhole'
    BY <1>1, <1>7 DEF SocketInv, TransferIsPrefix, SuccessIsWhole, Posix!SuccessIsWhole, Posix!Idle
  <1> QED
    BY <1>2, <1>5, <1>8, <1>9 DEF SocketInv

LEMMA SocketNext == SocketInv /\ [NetworkNext]_networkVars => SocketInv'
  <1> SUFFICES ASSUME SocketInv, [NetworkNext]_networkVars PROVE SocketInv'
    OBVIOUS
  <1>1. CASE UNCHANGED socketVars
    <2>1. UNCHANGED <<fd, owner, nonblocking, call, moved>>
      BY <1>1 DEF socketVars
    <2>2. SocketType' /\ ConnectIsOwn' /\ TransferIsPrefix'
      BY <2>1 DEF SocketInv, SocketType, ConnectIsOwn, TransferIsPrefix
    <2>3. SuccessIsWhole'
      BY <2>1 DEF SocketInv, SuccessIsWhole, Posix!SuccessIsWhole, Posix!Idle
    <2> QED
      BY <2>1, <2>2, <2>3, FdsStay DEF SocketInv
  <1>2. CASE Posix!SocketStep
    BY <1>2, ConnectKeeps, TransferKeeps DEF Posix!SocketStep
  <1>3. CASE Posix!SocketCalls
    BY <1>3, ConstructKeeps, CloseKeeps, MoveKeeps, CallKeeps DEF Posix!SocketCalls
  <1> QED
    BY <1>1, <1>2, <1>3, WorldKeeps
       DEF NetworkNext, exchange, exchange_fails, parse_untrusted, parse_own, classic_query,
           classic_tick, classic_world, socket_step, socket_world, mdns_step, mdns_world, reopen, Only,
           networkVars

LEMMA SocketInvariance == NetworkSpec => []SocketInv
  BY SocketInitial, SocketNext, PTL DEF NetworkSpec

\* However objects are closed, moved and opened again, and whatever other
\* threads open meanwhile, an object uses no descriptor but its own.
THEOREM NoForeignDescriptor == NetworkSpec => []DescriptorsAreOwn
  <1>1. SocketInv => DescriptorsAreOwn
    BY DEF SocketInv, FdsAreHeld, NoFd, DescriptorsAreOwn, Posix!DescriptorsAreOwn
  <1> QED
    BY <1>1, SocketInvariance, PTL

\* A connect or a transfer that reports success has put back the blocking mode
\* it found, and has moved every byte once, in order, in whatever pieces.
THEOREM SuccessIsComplete == NetworkSpec => []SuccessIsWhole
  <1>1. SocketInv => SuccessIsWhole
    BY DEF SocketInv
  <1> QED
    BY <1>1, SocketInvariance, PTL

-----------------------------------------------------------------------------
(* The mDNS source: the inductive invariant *)

Unjoined == {"build", "socket", "bind", "join"}
Working  == Unjoined \cup {"send", "wait"}

\* The socket is open from its constructor to its destructor.
SocketIsScoped ==
    /\ at \in Working \cup {"leave", "close", "done"}
    /\ open = (at \notin {"build", "socket", "done"})

\* What the ScopedMembership holds is what the kernel holds, until it is left.
MembershipIsScoped ==
    /\ at \in Unjoined => mreq = Multicast!Nothing
    /\ at \in {"send", "wait", "leave"} => mreq # Multicast!Nothing
    /\ membership = IF at \in {"close", "done"} THEN Multicast!Nothing ELSE mreq

ReturnIsDecided ==
    /\ at \in Working => ended = "pending"
    /\ ended # "ok" => results = <<>>

MdnsInv == SocketIsScoped /\ MembershipIsScoped /\ ReturnIsDecided /\ Multicast!MdnsFits

LEMMA MdnsInitial == NetworkInit => MdnsInv
  BY DEF NetworkInit, Multicast!MdnsStart, MdnsInv, SocketIsScoped, MembershipIsScoped,
         ReturnIsDecided, Multicast!MdnsFits, Unjoined, Working

\* An exception, and the return with addresses that fit.
LEMMA UnwindKeeps ==
    ASSUME MdnsInv, at \in Working, NEW how \in {"ok", "exception"}, Multicast!Unwind(how),
           how = "exception" => UNCHANGED results,
           how = "ok" => DOMAIN results' # {} /\ \A i \in DOMAIN results' : results'[i].type = source.type,
           UNCHANGED <<source, open, mreq, membership>>
    PROVE  MdnsInv'
  <1>1. /\ at' = IF mreq = Multicast!Nothing THEN (IF open THEN "close" ELSE "done") ELSE "leave"
        /\ ended' = how /\ membership = mreq /\ results = <<>>
        /\ open = (at \notin {"build", "socket", "done"})
        /\ at \notin Unjoined => mreq # Multicast!Nothing
    BY DEF Multicast!Unwind, MdnsInv, SocketIsScoped, MembershipIsScoped, ReturnIsDecided, Working,
           Unjoined
  <1>2. /\ at' \in {"leave", "close", "done"}
        /\ at' = "leave" => mreq # Multicast!Nothing /\ open
        /\ at' = "close" => mreq = Multicast!Nothing /\ open
        /\ at' = "done" => mreq = Multicast!Nothing /\ ~open
    BY <1>1 DEF Working, Unjoined, MdnsInv, MembershipIsScoped
  <1>3. SocketIsScoped'
    BY <1>1, <1>2 DEF SocketIsScoped, Working, Unjoined
  <1>4. MembershipIsScoped'
    BY <1>1, <1>2 DEF MembershipIsScoped, Unjoined
  <1>5. ReturnIsDecided' /\ Multicast!MdnsFits'
    BY <1>1, <1>2 DEF ReturnIsDecided, Multicast!MdnsFits, Working, Unjoined
  <1> QED
    BY <1>3, <1>4, <1>5 DEF MdnsInv

LEMMA FailKeeps == ASSUME MdnsInv, at \in Working, Multicast!Fail PROVE MdnsInv'
  BY UnwindKeeps DEF Multicast!Fail

\* One datagram decides.
LEMMA ReceiveKeeps == ASSUME MdnsInv, Multicast!Receive PROVE MdnsInv'
  <1>1. at \in Working
    BY DEF Multicast!Receive, Working
  <1>2. CASE Multicast!Fail
    BY <1>1, <1>2, FailKeeps
  <1>3. CASE /\ DOMAIN Multicast!OfType(inbox[1].records) # {}
             /\ results' = Multicast!OfType(inbox[1].records)
             /\ Multicast!Unwind("ok")
             /\ UNCHANGED <<source, open, mreq, membership>>
    <2>1. \A i \in DOMAIN results' : results'[i].type = source.type
      BY <1>3 DEF Multicast!OfType, Multicast!RestrictValues, Multicast!Restrict
    <2> QED
      BY <1>1, <1>3, <2>1, UnwindKeeps
  <1> QED
    BY <1>2, <1>3 DEF Multicast!Receive

\* The steps before the answer, and the destructors.
LEMMA ResolveKeeps == ASSUME MdnsInv, Multicast!resolve_mdns PROVE MdnsInv'
  <1> DEFINE Still == UNCHANGED <<source, results, ended>>
  <1>1. CASE Multicast!Fail /\ at \in Working
    BY <1>1, FailKeeps
  <1>2. CASE /\ at \in Working /\ at' \in Working
             /\ (at \in Unjoined) = (at' \in Unjoined)
             /\ open' = (at' \notin {"build", "socket", "done"})
             /\ Still /\ UNCHANGED <<mreq, membership>>
    BY <1>2 DEF MdnsInv, SocketIsScoped, MembershipIsScoped, ReturnIsDecided, Multicast!MdnsFits,
                Working, Unjoined
  <1>3. CASE /\ at = "join" /\ at' = "send"
             /\ mreq' = Multicast!group_request /\ membership' = Multicast!group_request
             /\ UNCHANGED open /\ Still
    <2>1. mreq' # Multicast!Nothing /\ membership' = mreq'
      BY <1>3 DEF Multicast!group_request, Multicast!Nothing
    <2> QED
      BY <1>3, <2>1 DEF MdnsInv, SocketIsScoped, MembershipIsScoped, ReturnIsDecided,
                        Multicast!MdnsFits, Working, Unjoined
  <1>4. CASE Multicast!Leave
    <2>1. open /\ membership = mreq /\ at = "leave"
      BY <1>4 DEF Multicast!Leave, MdnsInv, SocketIsScoped, MembershipIsScoped
    <2>2. /\ membership' = Multicast!Nothing /\ at' = "close" /\ UNCHANGED <<open, mreq>> /\ Still
      BY <1>4, <2>1 DEF Multicast!Leave, Multicast!LeaveRequest
    <2> QED
      BY <2>1, <2>2 DEF MdnsInv, SocketIsScoped, MembershipIsScoped, ReturnIsDecided,
                        Multicast!MdnsFits, Working, Unjoined
  <1>5. CASE Multicast!CloseSocket
    BY <1>5 DEF Multicast!CloseSocket, MdnsInv, SocketIsScoped, MembershipIsScoped, ReturnIsDecided,
                Multicast!MdnsFits, Working, Unjoined
  <1>6. open = (at \notin {"build", "socket", "done"})
    BY DEF MdnsInv, SocketIsScoped
  <1>7. CASE Multicast!BuildQuery
    BY <1>1, <1>2, <1>6, <1>7 DEF Multicast!BuildQuery, Working, Unjoined
  <1>8. CASE Multicast!OpenSocket
    <2>1. CASE Multicast!Fail
      BY <1>1, <1>8, <2>1 DEF Multicast!OpenSocket, Working, Unjoined
    <2>2. CASE ~Multicast!Fail
      <3>1. /\ at = "socket" /\ at' = "bind" /\ open' = TRUE
            /\ Still /\ UNCHANGED <<mreq, membership>>
        BY <1>8, <2>2 DEF Multicast!OpenSocket
      <3>2. open' = (at' \notin {"build", "socket", "done"})
        BY <3>1
      <3>3. /\ at \in Working /\ at' \in Working
            /\ (at \in Unjoined) = (at' \in Unjoined)
        BY <3>1 DEF Working, Unjoined
      <3> QED
        BY <1>2, <3>1, <3>2, <3>3
    <2> QED
      BY <2>1, <2>2
  <1>9. CASE Multicast!setup_multicast_options
    BY <1>1, <1>2, <1>6, <1>9 DEF Multicast!setup_multicast_options, Working, Unjoined
  <1>10. CASE Multicast!Join
    BY <1>1, <1>3, <1>10 DEF Multicast!Join, Working, Unjoined
  <1>11. CASE Multicast!SendQuery
    BY <1>1, <1>2, <1>6, <1>11 DEF Multicast!SendQuery, Working, Unjoined
  <1>12. CASE Multicast!MdnsTick
    BY <1>2, <1>6, <1>12 DEF Multicast!MdnsTick, Working, Unjoined
  <1>13. CASE Multicast!TimesOut \/ Multicast!ReceiveFails
    BY <1>1, <1>13 DEF Multicast!TimesOut, Multicast!ReceiveFails, Working
  <1> QED
    BY <1>4, <1>5, <1>7, <1>8, <1>9, <1>10, <1>11, <1>12, <1>13, ReceiveKeeps
       DEF Multicast!resolve_mdns

LEMMA MdnsNext == MdnsInv /\ [NetworkNext]_networkVars => MdnsInv'
  <1> SUFFICES ASSUME MdnsInv, [NetworkNext]_networkVars PROVE MdnsInv'
    OBVIOUS
  <1>1. CASE UNCHANGED <<source, at, open, mreq, membership, results, ended>>
    BY <1>1 DEF MdnsInv, SocketIsScoped, MembershipIsScoped, ReturnIsDecided, Multicast!MdnsFits
  <1>2. CASE UNCHANGED mdnsVars \/ Multicast!Datagrams \/ Multicast!LinkChanges
    BY <1>1, <1>2 DEF mdnsVars, Multicast!Datagrams, Multicast!LinkChanges
  <1> QED
    BY <1>2, ResolveKeeps
       DEF NetworkNext, exchange, exchange_fails, parse_untrusted, parse_own, classic_query,
           classic_tick, classic_world, socket_step, socket_world, mdns_step, mdns_world, reopen, Only,
           networkVars

\* On every path out of resolve_mdns, whatever failed and however the interfaces
\* changed meanwhile, the group is left while the socket is open and the socket
\* is closed; what is returned is at least one address of the source's type.
THEOREM MulticastIsLeft == NetworkSpec => []MulticastIsClean
  <1>1. MdnsInv => MulticastIsClean
    BY DEF MdnsInv, SocketIsScoped, MembershipIsScoped, MulticastIsClean, Multicast!MembershipIsLeft
  <1> QED
    BY <1>1, MdnsInitial, MdnsNext, PTL DEF NetworkSpec

-----------------------------------------------------------------------------
(* HTTP: sets in ascending order *)

\* A set in ascending order has as many elements as the set.
LEMMA AscendingLength ==
    ASSUME NEW S, IsFiniteSet(S)
    PROVE  /\ Cardinality(S) \in Nat
           /\ \E X : Ascending(S) \in Seq(X)
           /\ Len(Ascending(S)) = Cardinality(S)
           /\ DOMAIN Ascending(S) = 1 .. Cardinality(S)
  <1>1. Cardinality(S) \in Nat
    BY FS_CardinalityType
  <1> DEFINE X == {CHOOSE x \in Ranked(S, k) : TRUE : k \in 1 .. Cardinality(S)}
  <1>2. Ascending(S) \in [1 .. Cardinality(S) -> X]
    BY Zenon DEF Ascending
  <1> HIDE DEF X
  <1>3. Ascending(S) \in Seq(X) /\ Len(Ascending(S)) = Cardinality(S)
    BY <1>1, <1>2
  <1>4. DOMAIN Ascending(S) = 1 .. Cardinality(S)
    BY <1>2
  <1> QED
    BY <1>1, <1>3, <1>4

\* If all of A is below all of B, their union is first A and then B.
LEMMA AscendingUnion ==
    ASSUME NEW A \in SUBSET Nat, NEW C \in SUBSET Nat, IsFiniteSet(A), IsFiniteSet(C),
           \A a \in A, c \in C : a < c
    PROVE  /\ Ascending(A \cup C) = Ascending(A) \o Ascending(C)
           /\ Cardinality(A \cup C) = Cardinality(A) + Cardinality(C)
  <1> DEFINE U == A \cup C
             m == Cardinality(A)
             n == Cardinality(C)
             Upto(S, x) == {y \in S : y <= x}
             Up(S, x) == Cardinality(Upto(S, x))
  <1>1. m \in Nat /\ n \in Nat
    BY FS_CardinalityType
  <1>2. A \cap C = {}
    <2> SUFFICES ASSUME NEW x \in A, x \in C PROVE FALSE
      OBVIOUS
    <2> QED
      OBVIOUS
  <1>3. Cardinality(U) = m + n /\ IsFiniteSet(U)
    <2>1. /\ IsFiniteSet(U)
          /\ Cardinality(U) = m + n - Cardinality(A \cap C)
      BY FS_Union, Zenon
    <2>2. Cardinality(A \cap C) = 0
      BY <1>2, FS_EmptySet
    <2> QED
      BY <2>1, <2>2, <1>1
  <1>4. ASSUME NEW x \in A PROVE Up(U, x) = Up(A, x) /\ Up(A, x) <= m /\ Up(A, x) \in Nat
    <2>1. Upto(U, x) = Upto(A, x)
      <3>1. \A c \in C : ~(c <= x)
        BY <1>4
      <3> QED
        BY <3>1
    <2>2. Upto(A, x) \subseteq A
      OBVIOUS
    <2> QED
      BY <2>1, <2>2, FS_Subset, FS_CardinalityType
  <1>5. ASSUME NEW x \in C PROVE Up(U, x) = m + Up(C, x) /\ Up(C, x) \in Nat /\ Up(C, x) > 0
    <2>1. Upto(U, x) = A \cup Upto(C, x)
      <3>1. \A a \in A : a <= x
        BY <1>5
      <3> QED
        BY <3>1
    <2>2. IsFiniteSet(Upto(C, x)) /\ A \cap Upto(C, x) = {} /\ x \in Upto(C, x)
      <3>1. Upto(C, x) \subseteq C /\ x \in Upto(C, x)
        BY <1>5
      <3> QED
        BY <3>1, <1>2, FS_Subset
    <2> DEFINE V == Upto(C, x)
    <2>3. Up(U, x) = Cardinality(A \cup V) /\ Up(C, x) = Cardinality(V)
      BY <2>1
    <2>4. IsFiniteSet(V) /\ A \cap V = {} /\ V # {}
      BY <2>2
    <2> HIDE DEF V, Up
    <2>5. Cardinality(A \cup V) = m + Cardinality(V) - Cardinality(A \cap V)
      BY <2>4, FS_Union, Zenon
    <2>6. Cardinality(A \cap V) = 0
      BY <2>4, FS_EmptySet
    <2>7. Cardinality(V) \in Nat /\ Cardinality(V) # 0
      BY <2>4, FS_CardinalityType, FS_EmptySet
    <2> HIDE DEF m
    <2> QED
      BY <2>3, <2>5, <2>6, <2>7, <1>1
  <1>6. ASSUME NEW k \in 1 .. m PROVE Ranked(U, k) = Ranked(A, k)
    <2>1. \A x \in U : Up(U, x) = k <=> x \in A /\ Up(A, x) = k
      <3> HIDE DEF Up, m
      <3> QED
        BY <1>1, <1>4, <1>5, <1>6
    <2> QED
      BY <2>1 DEF Ranked
  <1>7. ASSUME NEW k \in 1 .. n PROVE Ranked(U, m + k) = Ranked(C, k)
    <2>1. \A x \in U : Up(U, x) = m + k <=> x \in C /\ Up(C, x) = k
      <3> HIDE DEF Up, m, n
      <3> QED
        BY <1>1, <1>4, <1>5, <1>7
    <2> QED
      BY <2>1 DEF Ranked
  <1>8. Ascending(U) = Ascending(A) \o Ascending(C)
    <2> DEFINE u == Ascending(A)
               v == Ascending(C)
               w == Ascending(U)
    <2>1. PICK X : u \in Seq(X)
      BY AscendingLength
    <2>2. PICK Y : v \in Seq(Y)
      BY AscendingLength
    <2>3. PICK Z : w \in Seq(Z)
      BY <1>3, AscendingLength
    <2>4. Len(u) = m /\ Len(v) = n /\ Len(w) = m + n
      BY <1>3, AscendingLength
    <2>5. \A k \in 1 .. m : w[k] = u[k]
      <3> SUFFICES ASSUME NEW k \in 1 .. m PROVE w[k] = u[k]
        OBVIOUS
      <3>1. k \in 1 .. Cardinality(U)
        BY <1>1, <1>3
      <3>2. w[k] = (CHOOSE x \in Ranked(U, k) : TRUE) /\ u[k] = (CHOOSE x \in Ranked(A, k) : TRUE)
        BY <3>1, Zenon DEF Ascending
      <3> QED
        BY <3>2, <1>6, Zenon
    <2>6. \A k \in 1 .. n : w[m + k] = v[k]
      <3> SUFFICES ASSUME NEW k \in 1 .. n PROVE w[m + k] = v[k]
        OBVIOUS
      <3>1. (m + k) \in 1 .. Cardinality(U)
        BY <1>1, <1>3
      <3>2. /\ w[m + k] = (CHOOSE x \in Ranked(U, m + k) : TRUE)
            /\ v[k] = (CHOOSE x \in Ranked(C, k) : TRUE)
        BY <3>1, Zenon DEF Ascending
      <3> QED
        BY <3>2, <1>7, Zenon
    <2> DEFINE T == X \cup Y \cup Z
    <2>7. u \in Seq(T) /\ v \in Seq(T) /\ w \in Seq(T)
      BY <2>1, <2>2, <2>3
    <2> HIDE DEF u, v, w, T, m, n
    <2>8. /\ u \o v \in Seq(T) /\ Len(u \o v) = m + n
          /\ \A k \in 1 .. (m + n) : (u \o v)[k] = IF k <= m THEN u[k] ELSE v[k - m]
      BY <2>4, <2>7, ConcatProperties
    <2>9. ASSUME NEW k \in 1 .. (m + n) PROVE w[k] = (u \o v)[k]
      <3>1. CASE k <= m
        <4>1. k \in 1 .. m
          BY <3>1, <1>1
        <4> QED
          BY <4>1, <3>1, <2>5, <2>8, Zenon
      <3>2. CASE ~(k <= m)
        <4>1. (k - m) \in 1 .. n /\ m + (k - m) = k
          BY <3>2, <1>1
        <4>2. (u \o v)[k] = v[k - m]
          BY <3>2, <2>8, Zenon
        <4>3. w[m + (k - m)] = v[k - m]
          BY <4>1, <2>6, Zenon
        <4> QED
          BY <4>1, <4>2, <4>3, Zenon
      <3> QED
        BY <3>1, <3>2
    <2>10. w = u \o v
      BY <2>4, <2>7, <2>8, <2>9, SeqEqual
    <2> QED
      BY <2>10 DEF u, v, w
  <1> QED
    BY <1>3, <1>8

-----------------------------------------------------------------------------
(* HTTP: the inductive invariant *)

\* What has been read is within the stream and, of a header, within the buffer,
\* which is within its limit.
ReadIsBounded ==
    /\ buf_size \in Nat \ {0} /\ buf_size <= MaxHeaderSize
    /\ total_read \in Nat /\ total_read <= StreamLen
    /\ pc \in {"send", "headers"} => total_read <= buf_size /\ body = <<>> /\ decoded = 0

\* The body is begun behind a header that is accepted.
HeaderIsRead ==
    pc \in {"exact", "chunks"} => /\ server.well_formed
                                 /\ server.header <= MaxHeaderSize
                                 /\ server.header <= total_read

\* With Content-Length what came with the header is the start of the body.
ExactIsPrefix ==
    pc = "exact" => /\ server.framing = "length"
                    /\ server.length <= MaxBodySize
                    /\ body = [i \in 1 .. copy_size |-> i]

\* What the chunk decoder has seen holds no end, and its data are the body.
DataUpTo(n) == {i \in 1 .. n : server.payload[i] = "D"}

ChunksAreDecoded ==
    pc = "chunks" => /\ server.framing = "chunked"
                     /\ decoded \in Nat /\ decoded <= body_buffered
                     /\ \A j \in 1 .. decoded : ~Stops(j)
                     /\ body = Ascending(DataUpTo(decoded))
                     /\ Len(body) <= MaxBodySize

ExchangeInv ==
    /\ server \in ServerSet
    /\ pc \in {"send", "headers", "exact", "chunks", "done"}
    /\ ReadIsBounded
    /\ HeaderIsRead
    /\ ExactIsPrefix
    /\ ChunksAreDecoded
    /\ SplitIndependent

\* Unless this is a behaviour of the exchange, it is not begun.
HttpInv == IF part = "http" THEN ExchangeInv ELSE pc = "send"

-----------------------------------------------------------------------------
(* HTTP: every step keeps it *)

LEMMA HttpInitial == NetworkInit => HttpInv
  <1> SUFFICES ASSUME NetworkInit, part = "http" PROVE ExchangeInv
    BY DEF NetworkInit, Start, HttpInv
  <1>1. Start(Servers)
    BY DEF NetworkInit
  <1>2. server \in ServerSet /\ pc = "send"
    BY <1>1, HttpAssumption DEF Start
  <1>3. server.header \in Nat /\ Len(server.payload) \in Nat
    BY <1>2 DEF ServerSet
  <1>4. ReadIsBounded
    BY <1>1, <1>3, HttpAssumption DEF Start, ReadIsBounded, Min2, StreamLen
  <1> QED
    BY <1>2, <1>4 DEF ExchangeInv, HeaderIsRead, ExactIsPrefix, ChunksAreDecoded, SplitIndependent

\* A step to the end keeps it if the outcome is what the whole response says.
LEMMA EndKeeps ==
    ASSUME ExchangeInv, NEW outcome, Ends(outcome),
           ~fault' => outcome \in WholeOutcomes(server) /\ (outcome = "OK" => body' = WholeBody(server))
    PROVE  ExchangeInv'
  <1>1. /\ server' = server /\ buf_size' = buf_size /\ total_read' = total_read
        /\ pc' = "done" /\ result' = outcome
    BY DEF Ends
  <1>2. WholeOutcomes(server)' = WholeOutcomes(server) /\ WholeBody(server)' = WholeBody(server)
    BY <1>1 DEF WholeOutcomes, WholeBody, ChunkData, ChunksEnd, InChunks, Ascending, Ranked
  <1>3. SplitIndependent'
    BY <1>1, <1>2 DEF SplitIndependent
  <1> QED
    BY <1>1, <1>3 DEF ExchangeInv, ReadIsBounded, HeaderIsRead, ExactIsPrefix, ChunksAreDecoded, StreamLen

LEMMA ServerTyped ==
    ASSUME ExchangeInv
    PROVE  /\ server.header \in Nat /\ server.length \in Nat /\ server.well_formed \in BOOLEAN
           /\ server.framing \in {"length", "chunked", "none"}
           /\ server.payload \in Seq({"D", "S", "E", "X"}) /\ Len(server.payload) \in Nat
  BY DEF ExchangeInv, ServerSet

LEMMA HeadersKeep ==
    ASSUME ExchangeInv, Send \/ ReadHeaders \/ RejectHeaders PROVE ExchangeInv'
  <1> USE ServerTyped, HttpAssumption
  <1>1. CASE Send
    BY <1>1 DEF Send, ExchangeInv, ReadIsBounded, HeaderIsRead, ExactIsPrefix, ChunksAreDecoded,
                StreamLen, SplitIndependent
  <1>2. CASE ReadHeaders
    <2>1. /\ total_read < server.header /\ total_read < MaxHeaderSize
          /\ Grown \in Nat \ {0} /\ total_read < Grown /\ Grown <= MaxHeaderSize
          /\ total_read < StreamLen /\ StreamLen \in Nat /\ total_read \in Nat
      BY <1>2 DEF ReadHeaders, Incomplete, HeadersTooLarge, Grown, Min2, ExchangeInv, ReadIsBounded,
                  StreamLen
    <2>2. PICK n \in 1 .. Min2(Grown - total_read, StreamLen - total_read) :
             /\ total_read' = total_read + n
             /\ buf_size' = Grown
             /\ UNCHANGED <<server, pc, decoded, body, result, fault>>
      BY <1>2, <2>1 DEF ReadHeaders, Min2
    <2>3. n \in Nat /\ total_read + n <= Grown /\ total_read + n <= StreamLen
      BY <2>1, <2>2 DEF Min2
    <2>4. ReadIsBounded'
      BY <2>1, <2>2, <2>3 DEF ExchangeInv, ReadIsBounded, StreamLen
    <2> QED
      BY <1>2, <2>2, <2>4 DEF ExchangeInv, HeaderIsRead, ExactIsPrefix, ChunksAreDecoded,
                              SplitIndependent, ReadHeaders
  <1>3. CASE RejectHeaders
    <2>0. pc = "headers" /\ UNCHANGED <<body, fault>>
      BY <1>3 DEF RejectHeaders
    <2>1. CASE Incomplete /\ HeadersTooLarge /\ Ends("HEADERS_TOO_LARGE")
      <3>1. server.header > MaxHeaderSize
        BY <2>1 DEF Incomplete, HeadersTooLarge, ExchangeInv, ReadIsBounded
      <3>2. "HEADERS_TOO_LARGE" \in WholeOutcomes(server)
        BY <3>1 DEF WholeOutcomes
      <3> QED
        BY <2>1, <3>2, EndKeeps
    <2>2. CASE ~server.well_formed /\ Ends("HEADER_PARSE_FAILED")
      <3>1. "HEADER_PARSE_FAILED" \in WholeOutcomes(server)
        BY <2>2 DEF WholeOutcomes
      <3> QED
        BY <2>2, <3>1, EndKeeps
    <2>3. CASE /\ ~Incomplete /\ server.well_formed
               /\ server.framing = "length" /\ server.length > MaxBodySize
               /\ Ends("BODY_TOO_LARGE")
      <3>1. ~(server.header > MaxHeaderSize)
        BY <2>0, <2>3 DEF Incomplete, ExchangeInv, ReadIsBounded
      <3>2. "BODY_TOO_LARGE" \in WholeOutcomes(server)
        BY <2>3, <3>1 DEF WholeOutcomes
      <3> QED
        BY <2>3, <3>2, EndKeeps
    <2> QED
      BY <1>3, <2>1, <2>2, <2>3 DEF RejectHeaders
  <1> QED
    BY <1>1, <1>2, <1>3

\* Of an empty stretch nothing is decoded.
LEMMA NothingDecoded == DataUpTo(0) = {} /\ Ascending({}) = <<>>
  <1>1. DataUpTo(0) = {}
    BY DEF DataUpTo
  <1>2. Cardinality({}) = 0 /\ IsFiniteSet({})
    BY FS_EmptySet
  <1>3. PICK X : Ascending({}) \in Seq(X)
    BY <1>2, AscendingLength
  <1>4. Len(Ascending({})) = 0
    BY <1>2, AscendingLength
  <1> QED
    BY <1>1, <1>3, <1>4, EmptySeq

LEMMA StartBodyKeeps == ASSUME ExchangeInv, StartBody PROVE ExchangeInv'
  <1> USE ServerTyped, HttpAssumption
  <1>1. /\ pc = "headers" /\ server.well_formed /\ server.header <= total_read
        /\ server.header <= MaxHeaderSize /\ total_read \in Nat /\ total_read <= StreamLen
        /\ body = <<>> /\ decoded = 0 /\ StreamLen \in Nat
    BY DEF StartBody, Incomplete, ExchangeInv, ReadIsBounded, StreamLen
  <1>2. CASE server.framing = "none" /\ Ends("OK") /\ UNCHANGED <<body, fault>>
    <2>1. "OK" \in WholeOutcomes(server)
      BY <1>1, <1>2 DEF WholeOutcomes
    <2>2. body' = WholeBody(server)
      BY <1>1, <1>2 DEF WholeBody
    <2> QED
      BY <1>2, <2>1, <2>2, EndKeeps
  <1>3. CASE /\ server.framing = "length" /\ server.length <= MaxBodySize
             /\ body' = [i \in 1 .. copy_size |-> i] /\ pc' = "exact"
             /\ UNCHANGED <<server, buf_size, total_read, decoded, result, fault>>
    <2>1. copy_size' = copy_size
      BY <1>3 DEF copy_size, body_buffered, Min2
    <2>2. ExactIsPrefix'
      BY <1>3, <2>1 DEF ExactIsPrefix
    <2> QED
      BY <1>1, <1>3, <2>2 DEF ExchangeInv, ReadIsBounded, HeaderIsRead, ChunksAreDecoded,
                              SplitIndependent, StreamLen
  <1>4. CASE /\ server.framing = "chunked" /\ pc' = "chunks"
             /\ UNCHANGED <<server, buf_size, total_read, decoded, body, result, fault>>
    <2>1. body_buffered' = body_buffered /\ body_buffered >= 0
      BY <1>1, <1>4 DEF body_buffered
    <2>2. DataUpTo(decoded)' = {} /\ Ascending({}) = <<>> /\ decoded' = 0
      BY <1>1, <1>4, NothingDecoded DEF DataUpTo
    <2>3. body' = Ascending(DataUpTo(decoded))' /\ Len(body') <= MaxBodySize
      <3>1. Ascending(DataUpTo(decoded))' = Ascending({})
        BY <2>2, Zenon
      <3>2. body' = <<>> /\ Len(<<>>) = 0
        BY <1>1, <1>4
      <3>3. Len(body') <= MaxBodySize
        BY <3>2
      <3> QED
        BY <2>2, <3>1, <3>2, <3>3, Zenon
    <2>4. ChunksAreDecoded'
      BY <1>4, <2>1, <2>2, <2>3 DEF ChunksAreDecoded
    <2> QED
      BY <1>1, <1>4, <2>4 DEF ExchangeInv, ReadIsBounded, HeaderIsRead, ExactIsPrefix,
                              SplitIndependent, StreamLen
  <1> QED
    BY <1>2, <1>3, <1>4 DEF StartBody

LEMMA ReadExactKeeps == ASSUME ExchangeInv, ReadExact PROVE ExchangeInv'
  <1> USE ServerTyped, HttpAssumption
  <1>1. /\ pc = "exact" /\ server.well_formed /\ ~(server.header > MaxHeaderSize)
        /\ server.framing = "length" /\ ~(server.length > MaxBodySize)
        /\ body_buffered \in Nat /\ body_buffered <= Len(server.payload)
        /\ body = [i \in 1 .. copy_size |-> i]
    BY DEF ReadExact, ExchangeInv, ReadIsBounded, HeaderIsRead, ExactIsPrefix, StreamLen, body_buffered
  <1>2. /\ WholeOutcomes(server) = IF server.length > Len(server.payload) THEN {"CONNECTION_FAILED"}
                                   ELSE {"OK"}
        /\ WholeBody(server) = [i \in 1 .. server.length |-> i]
    BY <1>1 DEF WholeOutcomes, WholeBody
  <1>3. CASE body_buffered >= server.length /\ Ends("OK") /\ UNCHANGED body
    <2>1. copy_size = server.length /\ ~(server.length > Len(server.payload))
      BY <1>1, <1>3 DEF copy_size, Min2
    <2> QED
      BY <1>1, <1>2, <1>3, <2>1, EndKeeps
  <1>4. CASE /\ body_buffered < server.length /\ server.length <= Len(server.payload) /\ Ends("OK")
             /\ body' = body \o [i \in 1 .. (server.length - body_buffered) |-> body_buffered + i]
    <2> DEFINE a == body_buffered
               n == server.length - body_buffered
    <2>1. a \in Nat /\ n \in Nat /\ a + n = server.length /\ copy_size = a
      BY <1>1, <1>4 DEF copy_size, Min2
    <2>2. [i \in 1 .. a |-> i] = [i \in 1 .. a |-> 0 + i]
      BY <2>1
    <2>3. [i \in 1 .. n |-> a + i] = [i \in 1 .. n |-> (0 + a) + i]
      BY <2>1
    <2>4. [i \in 1 .. (a + n) |-> i] = [i \in 1 .. (a + n) |-> 0 + i]
      BY <2>1
    <2>5. body' = [i \in 1 .. a |-> i] \o [i \in 1 .. n |-> a + i]
      BY <1>1, <1>4, <2>1
    <2> HIDE DEF a, n
    <2>6. [i \in 1 .. a |-> 0 + i] \o [i \in 1 .. n |-> (0 + a) + i] = [i \in 1 .. (a + n) |-> 0 + i]
      BY <2>1, Pieces
    <2>7. body' = [i \in 1 .. (a + n) |-> i]
      BY <2>2, <2>3, <2>4, <2>5, <2>6, Zenon
    <2> QED
      <3>1. body' = WholeBody(server)
        BY <1>2, <2>1, <2>7, Zenon
      <3>2. "OK" \in WholeOutcomes(server)
        BY <1>2, <1>4
      <3> QED
        BY <1>4, <3>1, <3>2, EndKeeps, Zenon
  <1>5. CASE server.length > Len(server.payload) /\ Ends("CONNECTION_FAILED") /\ UNCHANGED body
    BY <1>2, <1>5, EndKeeps
  <1> QED
    BY <1>3, <1>4, <1>5 DEF ReadExact

\* The chunks that have been decoded, and the ones that are now, as parts of
\* the whole.
LEMMA DecodeFacts ==
    ASSUME ExchangeInv, Decode
    PROVE  /\ decoded \in Nat /\ body_buffered \in Nat /\ body_buffered <= Len(server.payload)
           /\ decoded < body_buffered
           /\ Seen \subseteq Input
           /\ 1 .. decoded \cup Seen \subseteq InChunks(server)
           /\ InChunks(server) \subseteq Nat /\ IsFiniteSet(InChunks(server))
           /\ (\E i \in Seen : Stops(i)) => InChunks(server) = 1 .. decoded \cup Seen
           /\ (\A i \in Seen : ~Stops(i)) => Seen = Input
  <1> USE ServerTyped
  <1>1. /\ decoded \in Nat /\ body_buffered \in Nat /\ body_buffered <= Len(server.payload)
        /\ decoded < body_buffered /\ \A j \in 1 .. decoded : ~Stops(j)
    BY DEF Decode, ExchangeInv, ReadIsBounded, HeaderIsRead, ChunksAreDecoded, StreamLen, body_buffered
  <1> DEFINE L == Len(server.payload)
  <1>2. Seen \subseteq Input
    BY DEF Seen
  <1>3. ASSUME NEW i \in 1 .. L
        PROVE  i \in InChunks(server) <=> \A j \in 1 .. i - 1 : ~Stops(j)
    BY <1>3 DEF InChunks, Stops
  <1>4. 1 .. decoded \cup Seen \subseteq 1 .. L
    BY <1>1, <1>2 DEF Input
  <1> HIDE DEF L
  <1>5. L \in Nat /\ body_buffered <= L
    BY <1>1 DEF L
  <1>6. ASSUME NEW i \in 1 .. decoded \cup Seen PROVE i \in InChunks(server)
    <2>1. i \in 1 .. L
      BY <1>4
    <2>2. ASSUME NEW j \in 1 .. i - 1 PROVE ~Stops(j)
      <3>1. CASE j <= decoded
        BY <1>1, <3>1
      <3>2. CASE j > decoded
        <4>1. i \in Seen /\ j \in decoded + 1 .. i - 1
          BY <1>1, <2>1, <3>2
        <4> QED
          BY <4>1 DEF Seen
      <3> QED
        BY <1>1, <2>1, <3>1, <3>2
    <2> QED
      BY <1>3, <2>1, <2>2
  <1>7. InChunks(server) \subseteq 1 .. L
    BY DEF InChunks, L
  <1>8. InChunks(server) \subseteq Nat /\ IsFiniteSet(InChunks(server))
    <2>1. IsFiniteSet(1 .. L)
      BY <1>5, FS_Interval
    <2> QED
      BY <1>5, <1>7, <2>1, FS_Subset
  <1>9. ASSUME NEW i \in Seen, Stops(i) PROVE InChunks(server) = 1 .. decoded \cup Seen
    <2>1. ASSUME NEW k \in InChunks(server) PROVE k \in 1 .. decoded \cup Seen
      <3>1. k \in 1 .. L /\ \A j \in 1 .. k - 1 : ~Stops(j)
        BY <1>3, <1>7
      <3>2. i \in decoded + 1 .. body_buffered
        BY <1>2 DEF Input
      <3>3. k <= i
        BY <1>1, <1>5, <1>9, <3>1, <3>2
      <3>4. CASE k <= decoded
        BY <1>1, <1>5, <3>1, <3>4
      <3>5. CASE k > decoded
        <4>1. k \in Input
          BY <1>1, <1>5, <3>1, <3>2, <3>3, <3>5 DEF Input
        <4>2. \A j \in decoded + 1 .. k - 1 : ~Stops(j)
          BY <1>1, <1>5, <3>1
        <4> QED
          BY <4>1, <4>2 DEF Seen
      <3> QED
        BY <1>1, <1>5, <3>1, <3>4, <3>5
    <2> QED
      BY <1>6, <2>1
  <1>10. ASSUME \A i \in Seen : ~Stops(i) PROVE Seen = Input
    <2> DEFINE T == {j \in Input : Stops(j)}
    <2>1. Input \subseteq Nat
      BY <1>1 DEF Input
    <2>2. T = {}
      <3> SUFFICES ASSUME T # {} PROVE FALSE
        OBVIOUS
      <3>1. T \subseteq Nat
        BY <2>1
      <3>2. PICK n \in T : \A j \in T : n <= j
        BY <3>1, LeastElement, Zenon
      <3>3. n \in Input /\ Stops(n)
        OBVIOUS
      <3>4. \A j \in decoded + 1 .. n - 1 : j \in Input /\ ~(n <= j)
        BY <1>1, <3>3 DEF Input
      <3>5. \A j \in decoded + 1 .. n - 1 : ~Stops(j)
        BY <3>2, <3>4
      <3>6. n \in Seen
        BY <3>3, <3>5 DEF Seen
      <3> QED
        BY <1>10, <3>3, <3>6
    <2>3. \A i \in Input : \A j \in decoded + 1 .. i - 1 : j \in Input
      BY <1>1 DEF Input
    <2> QED
      BY <2>2, <2>3 DEF Seen
  <1> QED
    BY <1>1, <1>2, <1>6, <1>8, <1>9, <1>10

\* The body so far and what is decoded now, in the order of the payload.
LEMMA DecodeAppends ==
    ASSUME ExchangeInv, Decode,
           NEW D, D = DataUpTo(decoded) \cup {i \in Seen : server.payload[i] = "D"}
    PROVE  /\ Ascending(D) = body \o Data
           /\ IsFiniteSet(D) /\ Cardinality(D) \in Nat
           /\ Cardinality(D) > MaxBodySize <=> TooLarge
  <1> DEFINE A == DataUpTo(decoded)
             C == {i \in Seen : server.payload[i] = "D"}
  <1>1. body = Ascending(A) /\ Data = Ascending(C) /\ Len(body) <= MaxBodySize
    BY DEF ExchangeInv, ChunksAreDecoded, Decode, Data
  <1>2. A \subseteq InChunks(server) /\ C \subseteq InChunks(server)
    BY DecodeFacts DEF DataUpTo
  <1>3. IsFiniteSet(A) /\ IsFiniteSet(C) /\ A \in SUBSET Nat /\ C \in SUBSET Nat
    BY <1>2, DecodeFacts, FS_Subset
  <1>4. \A a \in A, c \in C : a < c
    BY DecodeFacts DEF DataUpTo, Input
  <1> HIDE DEF A, C
  <1>5. Ascending(A \cup C) = body \o Data /\ Cardinality(A \cup C) = Cardinality(A) + Cardinality(C)
    BY <1>1, <1>3, <1>4, AscendingUnion
  <1>6. /\ Len(body) = Cardinality(A) /\ Len(Data) = Cardinality(C)
        /\ Cardinality(A) \in Nat /\ Cardinality(C) \in Nat
    BY <1>1, <1>3, AscendingLength
  <1>7. D = A \cup C
    BY DEF A, C
  <1>8. IsFiniteSet(D) /\ Cardinality(D) \in Nat
    <2>1. IsFiniteSet(A \cup C)
      BY <1>3, FS_Union, Zenon
    <2>2. Cardinality(A \cup C) \in Nat
      BY <1>5, <1>6
    <2> QED
      BY <1>7, <2>1, <2>2, Zenon
  <1>9. Cardinality(D) > MaxBodySize <=> TooLarge
    <2>1. Data = <<>> => Len(Data) = 0
      OBVIOUS
    <2>2. Cardinality(D) = Len(body) + Len(Data)
      BY <1>5, <1>6, <1>7
    <2> QED
      BY <1>1, <1>6, <2>1, <2>2, HttpAssumption DEF TooLarge
  <1> QED
    BY <1>5, <1>6, <1>7, <1>8, <1>9

LEMMA DecodeKeeps == ASSUME ExchangeInv, Decode PROVE ExchangeInv'
  <1> USE ServerTyped
  <1> DEFINE D == DataUpTo(decoded) \cup {i \in Seen : server.payload[i] = "D"}
             W == {i \in InChunks(server) : server.payload[i] = "D"}
  <1>1. /\ pc = "chunks" /\ server.framing = "chunked" /\ server.well_formed
        /\ ~(server.header > MaxHeaderSize)
        /\ \A j \in 1 .. decoded : ~Stops(j)
        /\ UNCHANGED fault
    BY HttpAssumption DEF Decode, ExchangeInv, HeaderIsRead, ChunksAreDecoded
  <1>2. /\ Ascending(D) = body \o Data /\ IsFiniteSet(D) /\ Cardinality(D) \in Nat
        /\ Cardinality(D) > MaxBodySize <=> TooLarge
    BY DecodeAppends, Zenon
  <1>3. D \subseteq W /\ IsFiniteSet(W)
    <2>1. D \subseteq W
      BY DecodeFacts DEF DataUpTo
    <2>2. W \subseteq InChunks(server)
      OBVIOUS
    <2> QED
      BY <2>1, <2>2, DecodeFacts, FS_Subset
  <1>4. Cardinality(D) <= Cardinality(W) /\ Cardinality(W) \in Nat
    BY <1>3, FS_Subset, FS_CardinalityType
  <1>5. ChunkData(server) = Ascending(W) /\ Len(ChunkData(server)) = Cardinality(W)
    BY <1>3, AscendingLength DEF ChunkData
  <1>6. WholeBody(server) = Ascending(W)
    BY <1>1, <1>5 DEF WholeBody
  <1>7. WholeOutcomes(server) =
            LET large == Cardinality(W) > MaxBodySize IN
            IF ChunksEnd(server, "X")
            THEN {"CHUNK_PARSE_FAILED"} \cup (IF large THEN {"BODY_TOO_LARGE"} ELSE {})
            ELSE IF large THEN {"BODY_TOO_LARGE"}
            ELSE IF ChunksEnd(server, "E") THEN {"OK"} ELSE {"CONNECTION_FAILED"}
    <2> HIDE DEF W
    <2> QED
      BY <1>1, <1>5 DEF WholeOutcomes
  <1>8. CASE DecodeEnd = "malformed" /\ Ends("CHUNK_PARSE_FAILED")
    <2>1. ChunksEnd(server, "X")
      BY <1>8, DecodeFacts DEF DecodeEnd, ChunksEnd
    <2>2. "CHUNK_PARSE_FAILED" \in WholeOutcomes(server)
      BY <1>7, <2>1
    <2> QED
      BY <1>8, <2>2, EndKeeps
  <1>9. CASE TooLarge /\ Ends("BODY_TOO_LARGE")
    <2>1. Cardinality(W) > MaxBodySize
      BY <1>2, <1>4, <1>9, HttpAssumption
    <2>2. "BODY_TOO_LARGE" \in WholeOutcomes(server)
      BY <1>7, <2>1
    <2> QED
      BY <1>9, <2>2, EndKeeps
  <1>10. CASE DecodeEnd = "complete" /\ ~TooLarge /\ body' = body \o Data /\ Ends("OK")
    <2>1. (\E i \in Seen : server.payload[i] = "E") /\ (\A i \in Seen : server.payload[i] # "X")
      BY <1>10 DEF DecodeEnd
    <2>2. InChunks(server) = 1 .. decoded \cup Seen
      BY <2>1, DecodeFacts DEF Stops
    <2>3. ChunksEnd(server, "E") /\ ~ChunksEnd(server, "X")
      BY <1>1, <2>1, <2>2 DEF ChunksEnd, Stops
    <2>4. D = W
      BY <2>2 DEF DataUpTo
    <2>5. body' = WholeBody(server) /\ ~(Cardinality(W) > MaxBodySize)
      BY <1>2, <1>6, <1>10, <2>4
    <2>6. "OK" \in WholeOutcomes(server)
      BY <1>7, <2>3, <2>5
    <2> QED
      BY <1>10, <2>5, <2>6, EndKeeps
  <1>11. CASE /\ DecodeEnd = "incomplete" /\ ~TooLarge /\ body' = body \o Data
              /\ decoded' = body_buffered /\ UNCHANGED <<server, pc, buf_size, total_read, result>>
    <2>1. \A i \in Seen : ~Stops(i)
      BY <1>11 DEF DecodeEnd, Stops
    <2>2. Seen = (decoded + 1) .. body_buffered
      BY <2>1, DecodeFacts DEF Input
    <2>3. D = DataUpTo(body_buffered)
      BY <2>2, DecodeFacts DEF DataUpTo
    <2>4. body_buffered' = body_buffered /\ DataUpTo(decoded)' = D /\ \A j : Stops(j)' <=> Stops(j)
      BY <1>11, <2>3 DEF body_buffered, DataUpTo, Stops
    <2>5. body' = Ascending(DataUpTo(decoded))'
      <3> HIDE DEF D
      <3> QED
        BY <1>2, <1>11, <2>4, Zenon
    <2>6. Len(body') <= MaxBodySize
      <3>1. Len(body') = Cardinality(D)
        BY <1>2, <1>11, AscendingLength
      <3> QED
        BY <3>1, <1>2, <1>11, HttpAssumption
    <2>7. \A j \in 1 .. decoded' : ~Stops(j)'
      BY <1>1, <1>11, <2>1, <2>2, <2>4, DecodeFacts
    <2>8. ChunksAreDecoded'
      BY <1>1, <1>11, <2>4, <2>5, <2>6, <2>7, DecodeFacts DEF ChunksAreDecoded
    <2> QED
      BY <1>1, <1>11, <2>8 DEF ExchangeInv, ReadIsBounded, HeaderIsRead, ExactIsPrefix,
                               SplitIndependent, StreamLen
  <1> HIDE DEF D, W
  <1> QED
    BY <1>8, <1>9, <1>10, <1>11 DEF Decode

LEMMA ReadChunkKeeps == ASSUME ExchangeInv, ReadChunk PROVE ExchangeInv'
  <1> USE ServerTyped, HttpAssumption
  <1>1. /\ pc = "chunks" /\ server.framing = "chunked" /\ server.well_formed
        /\ ~(server.header > MaxHeaderSize) /\ server.header <= total_read
        /\ decoded = body_buffered /\ decoded \in Nat /\ \A j \in 1 .. decoded : ~Stops(j)
        /\ body = Ascending(DataUpTo(decoded)) /\ Len(body) <= MaxBodySize
        /\ total_read \in Nat /\ total_read <= StreamLen /\ StreamLen \in Nat
        /\ UNCHANGED fault
    BY DEF ReadChunk, ExchangeInv, HeaderIsRead, ChunksAreDecoded, ReadIsBounded, StreamLen
  <1>2. ASSUME NEW n \in 1 .. Min2(ReadSize, StreamLen - total_read), total_read' = total_read + n,
               UNCHANGED <<server, pc, buf_size, decoded, body, result>>
        PROVE  ExchangeInv'
    <2>1. n \in Nat /\ total_read + n <= StreamLen
      BY <1>1, <1>2 DEF Min2
    <2>2. body_buffered' = body_buffered + n
      BY <1>1, <1>2, <2>1, SMTT(30) DEF body_buffered
    <2>3. Ascending(DataUpTo(decoded))' = Ascending(DataUpTo(decoded)) /\ \A j : Stops(j)' <=> Stops(j)
      <3>1. DataUpTo(decoded)' = DataUpTo(decoded)
        BY <1>2 DEF DataUpTo
      <3> QED
        BY <1>2, <3>1 DEF Stops
    <2>4. ChunksAreDecoded'
      <3>1. decoded' <= body_buffered' /\ decoded' \in Nat
        BY <1>1, <1>2, <2>1, <2>2
      <3>2. body' = Ascending(DataUpTo(decoded))' /\ Len(body') <= MaxBodySize
        BY <1>1, <1>2, <2>3
      <3>3. \A j \in 1 .. decoded' : ~Stops(j)'
        BY <1>1, <1>2, <2>3
      <3> QED
        BY <1>1, <1>2, <3>1, <3>2, <3>3 DEF ChunksAreDecoded
    <2> QED
      BY <1>1, <1>2, <2>1, <2>4 DEF ExchangeInv, ReadIsBounded, HeaderIsRead, ExactIsPrefix,
                                    SplitIndependent, StreamLen
  <1>3. CASE total_read = StreamLen /\ Ends("CONNECTION_FAILED") /\ UNCHANGED body
    <2>1. decoded = Len(server.payload)
      BY <1>1, <1>3 DEF StreamLen, body_buffered
    <2>2. InChunks(server) = 1 .. decoded
      BY <1>1, <2>1 DEF InChunks, Stops
    <2>3. ~ChunksEnd(server, "X") /\ ~ChunksEnd(server, "E")
      BY <1>1, <2>2 DEF ChunksEnd, Stops
    <2>4. ChunkData(server) = body
      <3>1. {i \in InChunks(server) : server.payload[i] = "D"} = DataUpTo(decoded)
        BY <2>2 DEF DataUpTo
      <3> QED
        BY <1>1, <3>1, Zenon DEF ChunkData
    <2>5. ~(Len(ChunkData(server)) > MaxBodySize)
      <3>1. IsFiniteSet(DataUpTo(decoded))
        <4>1. IsFiniteSet(1 .. decoded)
          BY <1>1, FS_Interval
        <4> QED
          BY <4>1, FS_Subset DEF DataUpTo
      <3>2. Len(body) \in Nat
        BY <1>1, <3>1, AscendingLength
      <3> QED
        BY <1>1, <2>4, <3>2
    <2>6. "CONNECTION_FAILED" \in WholeOutcomes(server)
      BY <1>1, <2>3, <2>5 DEF WholeOutcomes
    <2> QED
      BY <1>3, <2>6, EndKeeps
  <1> QED
    BY <1>2, <1>3 DEF ReadChunk

LEMMA HttpNext == HttpInv /\ [NetworkNext]_networkVars => HttpInv'
  <1> SUFFICES ASSUME HttpInv, [NetworkNext]_networkVars PROVE HttpInv'
    OBVIOUS
  <1>1. ASSUME exchange PROVE HttpInv'
    <2>1. ExchangeInv /\ Step /\ part' = "http"
      BY <1>1 DEF HttpInv, exchange, Only
    <2>2. ExchangeInv'
      BY <2>1, HeadersKeep, StartBodyKeeps, ReadExactKeeps, DecodeKeeps, ReadChunkKeeps DEF Step
    <2> QED
      BY <2>1, <2>2 DEF HttpInv
  <1>2. ASSUME exchange_fails PROVE HttpInv'
    <2>1. ExchangeInv /\ IoFails /\ part' = "http"
      BY <1>2 DEF HttpInv, exchange_fails, Only
    <2>2. PICK error \in IoErrors : Ends(error)
      BY <2>1 DEF IoFails
    <2>3. fault'
      BY <2>1 DEF IoFails
    <2>4. ExchangeInv'
      BY <2>1, <2>2, <2>3, EndKeeps
    <2> QED
      BY <2>1, <2>4 DEF HttpInv
  <1>3. CASE ~exchange /\ ~exchange_fails
    <2>1. UNCHANGED <<part, vars>>
      BY <1>3 DEF NetworkNext, parse_untrusted, parse_own, classic_query, classic_tick, classic_world,
                  socket_step, socket_world, mdns_step, mdns_world, reopen, Only, networkVars
    <2>2. UNCHANGED <<part, server, pc, buf_size, total_read, decoded, body, result, fault>>
      BY <2>1 DEF vars
    <2>3. part = "http" => ExchangeInv'
      <3> SUFFICES ASSUME ExchangeInv PROVE ExchangeInv'
        BY DEF HttpInv
      <3>1. /\ WholeOutcomes(server)' = WholeOutcomes(server) /\ WholeBody(server)' = WholeBody(server)
            /\ Ascending(DataUpTo(decoded))' = Ascending(DataUpTo(decoded)) 
        BY <2>2 DEF WholeOutcomes, WholeBody, ChunkData, ChunksEnd, InChunks, Ascending, Ranked, DataUpTo
      <3> QED
        BY <2>2, <3>1 DEF ExchangeInv, ReadIsBounded, HeaderIsRead, ExactIsPrefix, ChunksAreDecoded,
                          SplitIndependent, StreamLen, copy_size, body_buffered, Stops, Min2
    <2> QED
      BY <2>2, <2>3 DEF HttpInv
  <1> QED
    BY <1>1, <1>2, <1>3

\* However the network cuts the response of a server, in whatever sizes the
\* limits and buffers are, an exchange makes of it what the whole response says.
THEOREM ExchangeIsSplitIndependent == NetworkSpec => []SplitIndependent
  <1>1. HttpInv => SplitIndependent
    BY DEF HttpInv, ExchangeInv, SplitIndependent
  <1> QED
    BY <1>1, HttpInitial, HttpNext, PTL DEF NetworkSpec

-----------------------------------------------------------------------------
(* Names in messages *)

\* The body of a query, if there is one, and its layout.
LEMMA OwnMessage ==
    ASSUME NEW m, IsQuery(m), build(m) # Refuse
    PROVE  {Body(build(m))} \subseteq Seq(Byte) /\ {QueryLayout(m)} \subseteq Seq(Entries)
  <1>1. PICK f : IsPacket(build(m), m, f)
    BY PacketIs
  <1>2. Body(build(m)) \in Seq(Byte)
    BY <1>1 DEF IsPacket, IsBytes
  <1>3. QueryLayout(m) \in Seq(Entries)
    BY LayoutIs
  <1> HIDE DEF QueryLayout
  <1> QED
    BY <1>2, <1>3

LEMMA NamesInitial == NetworkInit => MessageInv
  <1> SUFFICES ASSUME NetworkInit PROVE MessageInv
    OBVIOUS
  <1>1. CASE part = "message"
    <2>1. MessageStart(Wires, Layouts)
      BY <1>1 DEF NetworkInit, MessageInit
    <2> QED
      BY <2>1, MessageAssumption, MessageInitial
  <1>2. CASE part = "query" /\ Packet # Refuse
    <2>1. MessageStart({Body(Packet)}, {QueryLayout(query)}) /\ query \in Queries
      BY <1>2 DEF NetworkInit
    <2>2. IsQuery(query) /\ build(query) # Refuse
      BY <1>2, <2>1, QueryAssumption DEF Packet
    <2> QED
      BY <2>1, <2>2, OwnMessage, MessageInitial DEF Packet
  <1>3. CASE part # "message" /\ ~(part = "query" /\ Packet # Refuse)
    <2>1. MessageStart({<<>>}, {<<>>})
      BY <1>3 DEF NetworkInit
    <2>2. {<<>>} \subseteq Seq(Byte) /\ {<<>>} \subseteq Seq(Entries)
      OBVIOUS
    <2> QED
      BY <2>1, <2>2, MessageInitial
  <1> QED
    BY <1>1, <1>2, <1>3

LEMMA NamesNext == MessageInv /\ [NetworkNext]_networkVars => MessageInv'
  <1> SUFFICES ASSUME MessageInv, [NetworkNext]_networkVars PROVE MessageInv'
    OBVIOUS
  <1>1. parse_message \/ UNCHANGED messageVars
    BY DEF NetworkNext, exchange, exchange_fails, parse_untrusted, parse_own, classic_query, classic_tick,
           classic_world, socket_step, socket_world, mdns_step, mdns_world, reopen, Only, networkVars
  <1> QED
    BY <1>1, MessageStep, MessageStutters

\* Whatever bytes a server sends, and in the program's own queries, what
\* decompress_name and skip_name find is the name that is there, and what
\* decompress_name refuses is none or takes too many pointers; for messages of
\* any length and any limit on the pointers.
THEOREM NamesAreRead == NetworkSpec => []NameIsReference
  <1>1. MessageInv => NameIsReference
    BY DEF MessageInv
  <1> QED
    BY <1>1, NamesInitial, NamesNext, PTL DEF NetworkSpec

-----------------------------------------------------------------------------
(* The program's own queries *)

QueryInv ==
    part = "query" /\ Expressible(query) =>
        /\ query \in Queries
        /\ wire = Body(Packet)
        /\ \E f : QueryRead(query, f)

LEMMA QueryInitial == NetworkInit => QueryInv
  <1> SUFFICES ASSUME NetworkInit, part = "query", Expressible(query)
               PROVE  query \in Queries /\ wire = Body(Packet) /\ \E f : QueryRead(query, f)
    BY DEF QueryInv
  <1>1. build(query) # Refuse /\ Packet # Refuse
    BY DEF Expressible, Packet
  <1>2. query \in Queries /\ MessageStart({Body(Packet)}, {QueryLayout(query)})
    BY <1>1 DEF NetworkInit
  <1>3. IsQuery(query)
    BY <1>2, QueryAssumption
  <1>4. /\ wire = Body(Packet) /\ left = QueryLayout(query) /\ start = 0
        /\ parser = IF left = <<>> THEN "end" ELSE "name"
    BY <1>2 DEF MessageStart
  <1>5. PICK f : IsPacket(Packet, query, f)
    BY <1>1, <1>3, PacketIs DEF Packet
  <1>6. IsMadeOf(wire, Sections(query), Entered(query), f)
    BY <1>4, <1>5 DEF IsPacket, Entered
  <1>7. Entered(query) \in Nat /\ Entered(query) # 0
    <2> DEFINE q == Len(query.questions)
               e == Len(query.edns)
    <2>1. q \in Nat /\ q # 0 /\ e \in {0, 1}
      BY <1>1, <1>3, QueryTyped, BuildIs
    <2> HIDE DEF q, e
    <2>2. q + e \in Nat /\ q + e # 0
      BY <2>1
    <2> QED
      BY <2>2 DEF q, e, Entered
  <1>8. Len(left) = Entered(query)
    BY <1>3, <1>4, LayoutIs DEF Entered
  <1>9. parser = "name"
    <2>1. left # <<>>
      <3>1. Len(<<>>) = 0
        OBVIOUS
      <3> QED
        BY <1>7, <1>8, <3>1
    <2> QED
      BY <1>4, <2>1
  <1>10. f[0] = 0
    BY <1>6 DEF IsMadeOf
  <1>11. QueryRead(query, f)
    <2> DEFINE N == Entered(query)
    <2>1. N \in Nat /\ Len(left) = N
      BY <1>7, <1>8
    <2> HIDE DEF N
    <2>2. N - Len(left) = 0 /\ \A j \in 1 .. Len(left) : N - Len(left) + j = j
      BY <2>1
    <2>3. Len(left) <= N
      BY <2>1
    <2>4. \A j \in 1 .. Len(left) : left[j] = QueryLayout(query)[N - Len(left) + j]
      BY <1>4, <2>2
    <2>5. start = f[N - Len(left)]
      BY <1>4, <1>10, <2>2
    <2> QED
      BY <1>6, <1>9, <2>3, <2>4, <2>5 DEF QueryRead, N
  <1> QED
    BY <1>2, <1>4, <1>11

LEMMA QueryNext == MessageInv /\ QueryInv /\ [NetworkNext]_networkVars => QueryInv'
  <1> SUFFICES ASSUME MessageInv, QueryInv, [NetworkNext]_networkVars, part' = "query", Expressible(query')
               PROVE  QueryInv'
    BY DEF QueryInv
  <1>1. (parse_message \/ UNCHANGED messageVars) /\ query' = query /\ part' = part
    BY DEF NetworkNext, exchange, exchange_fails, parse_untrusted, parse_own, classic_query, classic_tick,
           classic_world, socket_step, socket_world, mdns_step, mdns_world, reopen, Only, networkVars
  <1>2. Expressible(query) /\ part = "query"
    BY <1>1
  <1>3. query \in Queries /\ wire = Body(Packet) /\ \E f : QueryRead(query, f)
    BY <1>2 DEF QueryInv
  <1>4. PICK f : QueryRead(query, f)
    BY <1>3
  <1>5. wire' = wire
    BY <1>1 DEF parse_message, decompress_name, RejectName, FollowPointer, ReadLabel, ReadRoot, ReadFixed,
                RejectEntry, Stop, messageVars
  <1>6. IsQuery(query)
    BY <1>3, QueryAssumption
  <1>7. PICK m : m = query
    OBVIOUS
  <1>8. QueryRead(m, f) /\ IsQuery(m) /\ Expressible(m)
    BY <1>2, <1>4, <1>6, <1>7
  <1>9. CASE parse_message
    <2>1. QueryRead(m, f)'
      BY <1>8, <1>9, QueryStep
    <2>2. query' = m
      BY <1>1, <1>7
    <2>3. QueryRead(query, f)'
      BY <2>1, <2>2 DEF QueryRead
    <2> QED
      BY <1>1, <1>3, <1>5, <2>3 DEF QueryInv, Packet
  <1>10. CASE UNCHANGED messageVars
    <2>1. QueryRead(query, f)'
      BY <1>1, <1>4, <1>10 DEF QueryRead, messageVars, nameVars, size
    <2> QED
      BY <1>1, <1>3, <1>5, <2>1 DEF QueryInv, Packet
  <1> QED
    BY <1>1, <1>9, <1>10

\* What the invariants say of a query that was read to its end.
LEMMA InvariantIsRead ==
    ASSUME MessageInv, QueryInv
    PROVE  QueryIsRead
  <1> SUFFICES ASSUME part = "query", Expressible(query)
               PROVE  LET header == parse_header(Packet) IN
                      /\ parser \in {"name", "fixed", "end"}
                      /\ parser = "fixed" /\ Head(left).kind = "question" =>
                            text = NameBack(query.questions[Len(query.questions) - Len(left) + Len(query.edns) + 1].qname)
                      /\ parser = "end" => offset = size
                      /\ header = [f \in DOMAIN header |->
                                      CASE f = "qdcount" -> Len(query.questions)
                                        [] f = "arcount" -> Len(query.edns)
                                        [] f \in {"opcode", "rcode"} -> query[f] % 16
                                        [] OTHER -> query[f]]
                      /\ \A other \in {x \in Queries : Expressible(x)} :
                            Len(query.questions) = 1 =>
                                (validate_message(Packet, Echo(build(other))) <=> SameQuestion(query, other))
    BY DEF QueryIsRead
  <1>1. query \in Queries /\ wire = Body(Packet) /\ \E f : QueryRead(query, f)
    BY DEF QueryInv
  <1>2. PICK f : QueryRead(query, f)
    BY <1>1
  <1>3. IsQuery(query) /\ build(query) # Refuse /\ Len(query.questions) < 65536
    BY <1>1, QueryAssumption DEF Expressible
  <1>4. parser \in {"name", "fixed", "end"} /\ (parser = "end" => offset = size)
    BY <1>2 DEF QueryRead
  <1>5. ASSUME parser = "fixed", Head(left).kind = "question"
        PROVE  text = NameBack(query.questions[Len(query.questions) - Len(left) + Len(query.edns) + 1].qname)
    <2> DEFINE q == Len(query.questions)
               e == Len(query.edns)
               n == Len(left)
    <2>1. text = NameBack(query.questions[Now(query)].qname)
      BY <1>2, <1>3, <1>5, FixedIsRead
    <2>2. q \in Nat /\ e \in {0, 1}
      BY <1>3, QueryTyped
    <2>3. n \in Nat
      BY LeftTyped DEF MessageInv
    <2> HIDE DEF q, e, n
    <2>4. (q + e) - n + 1 = q - n + e + 1
      BY <2>2, <2>3
    <2>5. Now(query) = q - n + e + 1
      BY <2>4 DEF Now, Entered, q, e, n
    <2> QED
      BY <2>1, <2>5 DEF q, e, n
  <1>6. FieldsAreRead(Packet, query)
    <2>1. PICK g : IsPacket(Packet, query, g)
      BY <1>3, PacketIs DEF Packet
    <2>2. HeaderHolds(Packet, query)
      BY <2>1 DEF IsPacket
    <2> QED
      BY <1>3, <2>2, HeaderComesBack
  <1>7. parse_header(Packet) = [x \in DOMAIN parse_header(Packet) |->
                                  CASE x = "qdcount" -> Len(query.questions)
                                    [] x = "arcount" -> Len(query.edns)
                                    [] x \in {"opcode", "rcode"} -> query[x] % 16
                                    [] OTHER -> query[x]]
    BY <1>6, HeaderRecord
  <1>8. ASSUME NEW other \in {x \in Queries : Expressible(x)}
        PROVE  validate_message(Packet, Echo(build(other))) <=> SameQuestion(query, other)
    <2>1. Expressible(other) /\ IsQuery(other)
      BY QueryAssumption
    <2>2. wire = Body(build(query))
      BY <1>1 DEF Packet
    <2>3. validate_message(build(query), Echo(build(other))) <=> SameQuestion(query, other)
      BY <1>3, <2>1, <2>2, ValidatorCompares
    <2> QED
      BY <2>3 DEF Packet
  <1> QED
    BY <1>4, <1>5, <1>7, <1>8

\* What the program sends is what it was asked to send, for all queries whose
\* names have no empty label: the parser reads from it the header and the names
\* that the builder was given, entry by entry to its last byte, and the
\* validator takes exactly the echo of a query that asks the same.
THEOREM QueriesAreRead == NetworkSpec => []QueryIsRead
  <1>1. MessageInv /\ QueryInv => QueryIsRead
    BY InvariantIsRead
  <1> QED
    BY <1>1, NamesInitial, NamesNext, QueryInitial, QueryNext, PTL DEF NetworkSpec

-----------------------------------------------------------------------------
(* URIs *)

\* A sequence of tokens, and one without a token.  The provers do not know
\* that a delimiter is a string.
Token == STRING \cup Delimiters

IsTokens(s) == s \in Seq(Token)

Without(s, token) == \A i \in 1 .. Len(s) : s[i] # token

\* The length and the elements of a sequence of tokens.
LEMMA TokensTyped ==
    ASSUME NEW s, IsTokens(s)
    PROVE  /\ Len(s) \in Nat /\ (s = <<>> <=> Len(s) = 0) /\ DOMAIN s = 1 .. Len(s)
           /\ \A i \in 1 .. Len(s) : s[i] \in Token
  <1>1. Len(s) \in Nat /\ (s = <<>> <=> Len(s) = 0) /\ DOMAIN s = 1 .. Len(s)
    BY EmptySeq, LenProperties DEF IsTokens
  <1>2. \A i \in 1 .. Len(s) : s[i] \in Token
    BY ElementOfSeq DEF IsTokens
  <1> QED
    BY <1>1, <1>2

\* Sequences of tokens joined, cut and compared.
JoinedOf(c, a, b) ==
    /\ IsTokens(c) /\ Len(c) = Len(a) + Len(b)
    /\ \A i \in 1 .. Len(a) : c[i] = a[i]
    /\ \A i \in 1 .. Len(b) : c[Len(a) + i] = b[i]

LEMMA TokensJoined ==
    ASSUME NEW a, NEW b, IsTokens(a), IsTokens(b)
    PROVE  JoinedOf(a \o b, a, b)
  <1> DEFINE c == a \o b
  <1>1. Len(a) \in Nat /\ Len(b) \in Nat
    BY TokensTyped
  <1>2. /\ c \in Seq(Token) /\ Len(c) = Len(a) + Len(b)
        /\ \A i \in 1 .. Len(a) + Len(b) : c[i] = IF i <= Len(a) THEN a[i] ELSE b[i - Len(a)]
    BY ConcatProperties DEF IsTokens
  <1> HIDE DEF c
  <1>3. \A i \in 1 .. Len(a) : c[i] = a[i]
    BY <1>1, <1>2
  <1>4. ASSUME NEW i \in 1 .. Len(b) PROVE c[Len(a) + i] = b[i]
    <2>1. Len(a) + i \in 1 .. Len(a) + Len(b) /\ ~(Len(a) + i <= Len(a)) /\ (Len(a) + i) - Len(a) = i
      BY <1>1
    <2> QED
      BY <1>2, <2>1
  <1> QED
    BY <1>2, <1>3, <1>4 DEF JoinedOf, IsTokens, c

CutOf(c, s, i, n) ==
    /\ IsTokens(c) /\ Len(c) = n
    /\ \A k \in 1 .. n : c[k] = s[i + k]

LEMMA TokensCut ==
    ASSUME NEW s, IsTokens(s), NEW i \in Nat, NEW j \in Int, i <= j, j <= Len(s)
    PROVE  CutOf(SubSeq(s, i + 1, j), s, i, j - i)
  <1> DEFINE c == SubSeq(s, i + 1, j)
  <1>1. Len(s) \in Nat
    BY TokensTyped
  <1>2. i + 1 \in 1 .. Len(s) + 1 /\ j \in (i + 1) - 1 .. Len(s)
    BY <1>1
  <1>3. /\ c \in Seq(Token) /\ Len(c) = j - (i + 1) + 1
        /\ \A k \in 1 .. j - (i + 1) + 1 : c[k] = s[(i + 1) + k - 1]
    BY <1>2, SubSeqProperties DEF IsTokens
  <1> HIDE DEF c
  <1>4. j - (i + 1) + 1 = j - i
    OBVIOUS
  <1>5. ASSUME NEW k \in 1 .. j - i PROVE c[k] = s[i + k]
    <2>1. (i + 1) + k - 1 = i + k
      OBVIOUS
    <2> QED
      BY <1>3, <1>4, <2>1
  <1> QED
    BY <1>3, <1>4, <1>5 DEF CutOf, IsTokens, c

LEMMA SameTokens ==
    ASSUME NEW a, NEW b, IsTokens(a), IsTokens(b), Len(a) = Len(b), \A i \in 1 .. Len(a) : a[i] = b[i]
    PROVE  a = b
  BY SeqEqual DEF IsTokens

\* k is a place to cut s at: what is before it, and what is after it.
CutAt(s, k) ==
    /\ CutOf(Before(s, k), s, 0, k - 1)
    /\ IF k <= Len(s) THEN CutOf(After(s, k), s, k, Len(s) - k) ELSE After(s, k) = <<>> /\ Before(s, k) = s

LEMMA CutAtPlace ==
    ASSUME NEW s, IsTokens(s), NEW k \in 1 .. Len(s) + 1
    PROVE  CutAt(s, k)
  <1> DEFINE n == Len(s)
             b == SubSeq(s, 0 + 1, k - 1)
             a == SubSeq(s, k + 1, n)
  <1>1. n \in Nat
    BY TokensTyped
  <1>2. Before(s, k) = b /\ After(s, k) = a
    BY DEF Before, After
  <1>3. CutOf(b, s, 0, (k - 1) - 0)
    <2>1. 0 \in Nat /\ k - 1 \in Int /\ 0 <= k - 1 /\ k - 1 <= Len(s)
      BY <1>1
    <2> QED
      BY <2>1, TokensCut
  <1>4. (k - 1) - 0 = k - 1
    BY <1>1
  <1>5. CutOf(Before(s, k), s, 0, k - 1)
    BY <1>2, <1>3, <1>4
  <1>6. CASE k <= n
    <2>1. k \in Nat /\ n \in Int /\ n <= Len(s)
      BY <1>1
    <2>2. CutOf(a, s, k, n - k)
      BY <1>6, <2>1, TokensCut
    <2> QED
      BY <1>2, <1>5, <1>6, <2>2 DEF CutAt
  <1>7. CASE ~(k <= n)
    <2>1. k = n + 1
      BY <1>1, <1>7
    <2>2. a = <<>>
      BY <1>1, <2>1
    <2>3. IsTokens(b) /\ Len(b) = n /\ \A i \in 1 .. n : b[i] = s[i]
      <3>1. IsTokens(b) /\ Len(b) = k - 1 /\ \A i \in 1 .. k - 1 : b[i] = s[0 + i]
        BY <1>2, <1>5 DEF CutOf
      <3> HIDE DEF b
      <3> QED
        BY <1>1, <2>1, <3>1
    <2> HIDE DEF a, b
    <2>4. b = s
      BY <2>3, SameTokens
    <2> QED
      BY <1>2, <1>5, <1>7, <2>2, <2>4 DEF CutAt
  <1> QED
    BY <1>6, <1>7

\* The first place of a token.
FoundFirst(s, d, k) ==
    /\ k \in 1 .. Len(s) + 1 /\ (k <= Len(s) => s[k] = d)
    /\ \A j \in 1 .. k - 1 : s[j] # d

LEMMA FindIs ==
    ASSUME NEW s, IsTokens(s), NEW d
    PROVE  /\ FoundFirst(s, d, Find(s, d))
           /\ \A k : FoundFirst(s, d, k) => Find(s, d) = k
  <1> DEFINE n == Len(s)
             P == Places(s, d)
             f == Find(s, d)
  <1>1. n \in Nat
    BY TokensTyped
  <1>2. P \subseteq Nat /\ \A i : i \in P <=> i \in 1 .. n /\ s[i] = d
    BY <1>1 DEF Places
  <1>3. f = IF P = {} THEN n + 1 ELSE CHOOSE i \in P : \A j \in P : i <= j
    BY DEF Find
  <1> HIDE DEF P, f, n
  <1>4. FoundFirst(s, d, f)
    <2>1. CASE P = {}
      <3>1. f = n + 1
        BY <1>3, <2>1
      <3>2. f \in 1 .. n + 1 /\ ~(f <= n) /\ f - 1 = n
        BY <1>1, <3>1
      <3> QED
        BY <1>2, <2>1, <3>2 DEF FoundFirst, n
    <2>2. CASE P # {}
      <3>1. PICK i \in P : \A j \in P : i <= j
        BY <1>2, <2>2, LeastElement
      <3>2. f \in P /\ \A j \in P : f <= j
        BY <1>3, <2>2, <3>1
      <3>3. f \in 1 .. n /\ s[f] = d
        BY <1>2, <3>2
      <3>4. ASSUME NEW j \in 1 .. f - 1 PROVE s[j] # d
        <4>1. j \in 1 .. n /\ ~(f <= j)
          BY <1>1, <3>3
        <4> QED
          BY <1>2, <3>2, <4>1
      <3>5. f \in 1 .. n + 1
        BY <1>1, <3>3
      <3> QED
        BY <3>3, <3>4, <3>5 DEF FoundFirst, n
    <2> QED
      BY <2>1, <2>2
  <1>5. ASSUME NEW k, FoundFirst(s, d, k) PROVE f = k
    <2>1. /\ k \in 1 .. n + 1 /\ (k <= n => s[k] = d) /\ \A j \in 1 .. k - 1 : s[j] # d
      BY <1>5 DEF FoundFirst, n
    <2>2. /\ f \in 1 .. n + 1 /\ (f <= n => s[f] = d) /\ \A j \in 1 .. f - 1 : s[j] # d
      BY <1>4 DEF FoundFirst, n
    <2>3. ~(f < k)
      <3> SUFFICES ASSUME f < k PROVE FALSE
        OBVIOUS
      <3>1. f <= n /\ f \in 1 .. k - 1
        BY <1>1, <2>1, <2>2
      <3> QED
        BY <2>1, <2>2, <3>1
    <2>4. ~(k < f)
      <3> SUFFICES ASSUME k < f PROVE FALSE
        OBVIOUS
      <3>1. k <= n /\ k \in 1 .. f - 1
        BY <1>1, <2>1, <2>2
      <3> QED
        BY <2>1, <2>2, <3>1
    <2> QED
      BY <1>1, <2>1, <2>2, <2>3, <2>4
  <1> QED
    BY <1>4, <1>5 DEF f

\* The last place of a token.
FoundLast(s, d, k) ==
    /\ k \in 1 .. Len(s) + 1 /\ (k <= Len(s) => s[k] = d)
    /\ \A j \in 1 .. Len(s) : s[j] = d => j <= k /\ k <= Len(s)

LEMMA FindLastIs ==
    ASSUME NEW s, IsTokens(s), NEW d
    PROVE  /\ FoundLast(s, d, FindLast(s, d))
           /\ \A k : FoundLast(s, d, k) => FindLast(s, d) = k
  <1> DEFINE n == Len(s)
             P == Places(s, d)
             f == FindLast(s, d)
  <1>1. n \in Nat
    BY TokensTyped
  <1>2. \A i : i \in P <=> i \in 1 .. n /\ s[i] = d
    BY <1>1 DEF Places
  <1>3. f = IF P = {} THEN n + 1 ELSE CHOOSE i \in P : \A j \in P : j <= i
    BY DEF FindLast
  <1> HIDE DEF P, f, n
  <1>4. FoundLast(s, d, f)
    <2>1. CASE P = {}
      <3>1. f = n + 1
        BY <1>3, <2>1
      <3>2. f \in 1 .. n + 1 /\ ~(f <= n)
        BY <1>1, <3>1
      <3> QED
        BY <1>2, <2>1, <3>2 DEF FoundLast, n
    <2>2. CASE P # {}
      <3> DEFINE T == {n - i : i \in P}
      <3>1. T \subseteq Nat /\ T # {}
        BY <1>1, <1>2, <2>2
      <3> HIDE DEF T
      <3>2. PICK t \in T : \A j \in T : t <= j
        BY <3>1, LeastElement
      <3>3. PICK i \in P : t = n - i
        BY DEF T
      <3>4. \A j \in P : j <= i
        <4> SUFFICES ASSUME NEW j \in P PROVE j <= i
          OBVIOUS
        <4>1. n - j \in T
          BY DEF T
        <4>2. n - i <= n - j
          BY <3>2, <3>3, <4>1
        <4>3. i \in 1 .. n /\ j \in 1 .. n
          BY <1>2
        <4> QED
          BY <1>1, <4>2, <4>3
      <3>5. f \in P /\ \A j \in P : j <= f
        BY <1>3, <2>2, <3>4
      <3>6. f \in 1 .. n /\ s[f] = d
        BY <1>2, <3>5
      <3>7. f \in 1 .. n + 1 /\ f <= n
        BY <1>1, <3>6
      <3>8. \A j \in 1 .. n : s[j] = d => j <= f
        BY <1>2, <3>5
      <3> QED
        BY <3>6, <3>7, <3>8 DEF FoundLast, n
    <2> QED
      BY <2>1, <2>2
  <1>5. ASSUME NEW k, FoundLast(s, d, k) PROVE f = k
    <2>1. /\ k \in 1 .. n + 1 /\ (k <= n => s[k] = d) /\ \A j \in 1 .. n : s[j] = d => j <= k /\ k <= n
      BY <1>5 DEF FoundLast, n
    <2>2. /\ f \in 1 .. n + 1 /\ (f <= n => s[f] = d) /\ \A j \in 1 .. n : s[j] = d => j <= f /\ f <= n
      BY <1>4 DEF FoundLast, n
    <2>3. CASE f <= n
      <3>1. f \in 1 .. n /\ s[f] = d
        BY <1>1, <2>2, <2>3
      <3>2. f <= k /\ k <= n
        BY <2>1, <3>1
      <3>3. k \in 1 .. n /\ s[k] = d
        BY <1>1, <2>1, <3>2
      <3>4. k <= f
        BY <2>2, <3>3
      <3> QED
        BY <1>1, <2>1, <2>2, <3>2, <3>4
    <2>4. CASE ~(f <= n)
      <3>1. ~(k <= n)
        <4> SUFFICES ASSUME k <= n PROVE FALSE
          OBVIOUS
        <4>1. k \in 1 .. n /\ s[k] = d
          BY <1>1, <2>1
        <4> QED
          BY <2>2, <2>4, <4>1
      <3> QED
        BY <1>1, <2>1, <2>2, <2>4, <3>1
    <2> QED
      BY <2>3, <2>4
  <1> QED
    BY <1>4, <1>5 DEF f

\* Lower case keeps the delimiters, and once is enough.
LowerOf(c, s) ==
    /\ IsTokens(c) /\ Len(c) = Len(s)
    /\ \A i \in 1 .. Len(s) : \A d \in Delimiters : c[i] = d <=> s[i] = d
    /\ lowercase_range(c) = c

LEMMA LowerIs ==
    ASSUME NEW s, IsTokens(s)
    PROVE  LowerOf(lowercase_range(s), s)
  <1> DEFINE low(t) == IF t \in DOMAIN Lower THEN Lower[t] ELSE t
             n == Len(s)
             c == [i \in 1 .. n |-> low(s[i])]
  <1>1. n \in Nat /\ DOMAIN s = 1 .. n /\ \A i \in 1 .. n : s[i] \in Token
    BY TokensTyped
  <1>2. lowercase_range(s) = c
    BY <1>1 DEF lowercase_range
  <1>3. \A t \in Token : low(t) \in Token /\ low(low(t)) = low(t) /\ \A d \in Delimiters : low(t) = d <=> t = d
    BY UriAssumption DEF Token
  <1> HIDE DEF low, n
  <1>4. IsTokens(c) /\ Len(c) = n /\ \A i \in 1 .. n : c[i] = low(s[i])
    <2>1. \A i \in 1 .. n : low(s[i]) \in Token
      BY <1>1, <1>3
    <2>2. c \in [1 .. n -> Token]
      BY <2>1
    <2>3. c \in Seq(Token) /\ Len(c) = n
      BY <1>1, <2>2
    <2> QED
      BY <2>3 DEF IsTokens
  <1> HIDE DEF c
  <1>5. \A i \in 1 .. n : \A d \in Delimiters : c[i] = d <=> s[i] = d
    BY <1>1, <1>3, <1>4
  <1>6. lowercase_range(c) = c
    <2>1. DOMAIN c = 1 .. n /\ c = [i \in 1 .. n |-> c[i]]
      BY <1>1 DEF c
    <2>2. \A i \in 1 .. n : low(c[i]) = c[i]
      BY <1>1, <1>3, <1>4
    <2>3. lowercase_range(c) = [i \in 1 .. n |-> low(c[i])]
      BY <2>1 DEF lowercase_range, low
    <2> QED
      BY <2>1, <2>2, <2>3
  <1> QED
    BY <1>2, <1>4, <1>5, <1>6 DEF LowerOf, n

\* A part of s in lower case: n tokens from the i-th on.
LowerPart(h, s, i, n) ==
    /\ IsTokens(h) /\ lowercase_range(h) = h /\ Len(h) = n
    /\ \A k \in 1 .. n : \A d \in Delimiters : h[k] = d <=> s[i + k] = d

LEMMA LowerPartIs ==
    ASSUME NEW s, NEW i \in Nat, NEW n \in Nat, NEW c, CutOf(c, s, i, n)
    PROVE  LowerPart(lowercase_range(c), s, i, n)
  <1>1. IsTokens(c) /\ Len(c) = n /\ \A k \in 1 .. n : c[k] = s[i + k]
    BY DEF CutOf
  <1> DEFINE h == lowercase_range(c)
  <1>2. LowerOf(h, c)
    BY <1>1, LowerIs
  <1> HIDE DEF h
  <1>3. IsTokens(h) /\ lowercase_range(h) = h /\ Len(h) = n /\ \A k \in 1 .. n : \A d \in Delimiters : h[k] = d <=> c[k] = d
    BY <1>1, <1>2 DEF LowerOf
  <1> QED
    BY <1>1, <1>3 DEF LowerPart, h

\* A part is without what the whole is without.
LEMMA PartIsWithout ==
    ASSUME NEW s, IsTokens(s), NEW i \in Nat, NEW n \in Nat, i + n <= Len(s), NEW h, LowerPart(h, s, i, n),
           NEW d \in Delimiters, Without(s, d)
    PROVE  Without(h, d)
  <1>1. Len(s) \in Nat
    BY TokensTyped
  <1>2. ASSUME NEW k \in 1 .. n PROVE h[k] # d
    <2>1. i + k \in 1 .. Len(s)
      BY <1>1
    <2> QED
      BY <2>1 DEF LowerPart, Without
  <1> QED
    BY <1>2 DEF LowerPart, Without

HostEnds == {"#", "/", "?", "://"}

\* What an authority says: of the host, and of the port.
AuthorityHolds(r, a) ==
    /\ IsTokens(r.host) /\ lowercase_range(r.host) = r.host
    /\ \A d \in HostEnds : Without(r.host, d)
    /\ r.is_ipv6 \in BOOLEAN
    /\ r.is_ipv6 => Without(r.host, "]")
    /\ ~r.is_ipv6 /\ r.host # <<>> => a # <<>> /\ r.host[1] # "[" /\ (r.host[1] = "." => a[1] = ".")
    /\ r.port = NoPort \/ \E w \in DOMAIN Numbers : r.port = <<Numbers[w]>>

LEMMA PortIs ==
    ASSUME NEW s
    PROVE  from_chars(s) = NoPort \/ \E w \in DOMAIN Numbers : from_chars(s) = <<Numbers[w]>>
  BY DEF from_chars

LEMMA AuthorityIs ==
    ASSUME NEW a, IsTokens(a), \A d \in HostEnds : Without(a, d), parse_authority(a) # Throws
    PROVE  AuthorityHolds(parse_authority(a), a)
  <1> DEFINE n == Len(a)
             r == parse_authority(a)
             closing == Find(a, "]")
             colon == FindLast(a, ":")
  <1>1. n \in Nat /\ (a = <<>> <=> n = 0)
    BY TokensTyped
  <1>2. HostEnds \subseteq Delimiters /\ "]" \in Delimiters /\ "[" \in Delimiters /\ "." \in Delimiters
    BY DEF HostEnds, Delimiters
  <1>3. CASE a = <<>>
    <2>1. r.host = lowercase_range(a) /\ r.port = NoPort /\ r.is_ipv6 = FALSE
      BY <1>3 DEF parse_authority, Authority
    <2>2. LowerOf(r.host, a)
      BY <2>1, LowerIs
    <2>3. IsTokens(r.host) /\ lowercase_range(r.host) = r.host /\ Len(r.host) = 0
      BY <1>1, <1>3, <2>2 DEF LowerOf
    <2> HIDE DEF r
    <2>4. r.host = <<>>
      BY <2>3, TokensTyped
    <2>5. \A d \in HostEnds : Without(r.host, d)
      BY <2>3 DEF Without
    <2> QED
      BY <2>1, <2>3, <2>4, <2>5 DEF AuthorityHolds, r
  <1>4. CASE a # <<>> /\ a[1] = "["
    <2> DEFINE c == SubSeq(a, 1 + 1, closing - 1)
               h == lowercase_range(c)
               m == closing - 1 - 1
    <2>1. FoundFirst(a, "]", closing)
      BY FindIs
    <2>2. ~(closing > n)
      BY <1>4 DEF parse_authority
    <2>3. /\ r.host = h /\ r.is_ipv6 = TRUE
          /\ r.port = IF closing < n /\ a[closing + 1] = ":" THEN from_chars(After(a, closing + 1)) ELSE NoPort
      BY <1>4, <2>2 DEF parse_authority, Authority
    <2> HIDE DEF r, closing, n
    <2>4. closing \in 1 .. n /\ a[closing] = "]" /\ \A j \in 1 .. closing - 1 : a[j] # "]"
      BY <1>1, <2>1, <2>2 DEF FoundFirst, n
    <2>5. closing # 1
      BY <1>4, <2>4
    <2>6. 1 \in Nat /\ closing - 1 \in Int /\ 1 <= closing - 1 /\ closing - 1 <= n /\ m \in Nat /\ 1 + m = closing - 1 /\ 1 + m <= n
      BY <1>1, <2>4, <2>5
    <2>7. CutOf(c, a, 1, m)
      BY <2>6, TokensCut DEF n
    <2>8. LowerPart(h, a, 1, m)
      <3> HIDE DEF c, m
      <3> QED
        BY <2>6, <2>7, LowerPartIs
    <2> HIDE DEF h, m
    <2>9. \A d \in HostEnds : Without(h, d)
      BY <1>2, <2>6, <2>8, PartIsWithout DEF n
    <2>10. Without(h, "]")
      <3>1. Len(h) = m /\ \A k \in 1 .. m : h[k] = "]" <=> a[1 + k] = "]"
        BY <1>2, <2>8 DEF LowerPart
      <3>2. \A k \in 1 .. m : 1 + k \in 1 .. closing - 1
        BY <2>4, <2>6
      <3> QED
        BY <2>4, <3>1, <3>2 DEF Without
    <2>11. IsTokens(h) /\ lowercase_range(h) = h
      BY <2>8 DEF LowerPart
    <2>12. r.port = NoPort \/ \E w \in DOMAIN Numbers : r.port = <<Numbers[w]>>
      BY <2>3, PortIs
    <2> QED
      BY <2>3, <2>9, <2>10, <2>11, <2>12 DEF AuthorityHolds, r
  <1>5. CASE a # <<>> /\ a[1] # "[" /\ a \in Ipv6Words
    <2> DEFINE h == lowercase_range(a)
    <2>1. r.host = h /\ r.is_ipv6 = TRUE /\ r.port = NoPort
      BY <1>5 DEF parse_authority, Authority
    <2>2. Without(a, "]")
      <3>1. Places(a, "]") = {}
        BY <1>5, UriAssumption
      <3> QED
        BY <3>1 DEF Places, Without
    <2>3. LowerOf(h, a)
      BY LowerIs
    <2> HIDE DEF h, r
    <2>4. \A d \in Delimiters : Without(a, d) => Without(h, d)
      BY <2>3 DEF LowerOf, Without
    <2>5. (\A d \in HostEnds : Without(h, d)) /\ Without(h, "]")
      BY <1>2, <2>2, <2>4
    <2>6. IsTokens(h) /\ lowercase_range(h) = h
      BY <2>3 DEF LowerOf
    <2> QED
      BY <2>1, <2>5, <2>6 DEF AuthorityHolds, r
  <1>6. CASE a # <<>> /\ a[1] # "[" /\ a \notin Ipv6Words
    <2> DEFINE c == Before(a, colon)
               h == lowercase_range(c)
               m == colon - 1
    <2>1. r.host = h /\ r.is_ipv6 = FALSE /\ r.port = from_chars(After(a, colon))
      BY <1>6 DEF parse_authority, Authority
    <2>2. FoundLast(a, ":", colon)
      BY FindLastIs
    <2> HIDE DEF colon, r
    <2>3. colon \in 1 .. n + 1
      BY <2>2 DEF FoundLast
    <2>4. CutOf(c, a, 0, m)
      BY <2>3, CutAtPlace DEF CutAt
    <2>5. m \in Nat /\ m <= n /\ 0 \in Nat /\ 0 + m <= n
      BY <1>1, <2>3
    <2>6. LowerPart(h, a, 0, m)
      <3> HIDE DEF c, m
      <3> QED
        BY <2>4, <2>5, LowerPartIs
    <2> HIDE DEF h, m
    <2>7. \A d \in HostEnds : Without(h, d)
      BY <1>2, <2>5, <2>6, PartIsWithout
    <2>8. IsTokens(h) /\ lowercase_range(h) = h /\ Len(h) = m
      BY <2>6 DEF LowerPart
    <2>9. ASSUME h # <<>> PROVE h[1] # "[" /\ (h[1] = "." => a[1] = ".")
      <3>1. m # 0
        BY <2>8, <2>9, TokensTyped
      <3>2. 1 \in 1 .. m /\ 0 + 1 = 1
        BY <2>5, <3>1
      <3>3. \A d \in Delimiters : h[1] = d <=> a[0 + 1] = d
        BY <2>6, <3>2 DEF LowerPart
      <3> QED
        BY <1>2, <1>6, <3>2, <3>3
    <2>10. r.port = NoPort \/ \E w \in DOMAIN Numbers : r.port = <<Numbers[w]>>
      BY <2>1, PortIs
    <2> QED
      BY <1>6, <2>1, <2>7, <2>8, <2>9, <2>10 DEF AuthorityHolds, r
  <1> QED
    BY <1>3, <1>4, <1>5, <1>6

\* The steps of parse: without the fragment, whether a scheme is before "://",
\* what is behind it, and the authority of that.
Trimmed(u) == Before(u, Find(u, "#"))

HasScheme(u) == Find(Trimmed(u), "://") <= Len(Trimmed(u)) /\ Find(Trimmed(u), "://") > 1

SchemaOf(u) == IF HasScheme(u) THEN lowercase_range(Before(Trimmed(u), Find(Trimmed(u), "://"))) ELSE <<>>

BodyOf(u) == IF HasScheme(u) THEN After(Trimmed(u), Find(Trimmed(u), "://")) ELSE Trimmed(u)

AuthorityOf(b) == Before(b, IF Find(b, "/") < Find(b, "?") THEN Find(b, "/") ELSE Find(b, "?"))

IsPath(u) == u = <<>> \/ (~HasScheme(u) /\ Trimmed(u) # <<>> /\ Trimmed(u)[1] \in {"/", "."})

\* r is what parse_authority finds, and p what parse makes of it.
Completes(p, u, r) ==
    /\ p.schema = SchemaOf(u) /\ p.host = r.host /\ p.is_ipv6 = r.is_ipv6
    /\ p.port = IF r.port # NoPort THEN r.port ELSE <<default_port_for(SchemaOf(u))>>

\* parse, step by step.
LEMMA ParseIs ==
    ASSUME NEW u
    PROVE  /\ IsPath(u) => parse(u).port = NoPort
           /\ ~IsPath(u) /\ parse_authority(AuthorityOf(BodyOf(u))) = Throws => parse(u) = Throws
           /\ ~IsPath(u) /\ parse_authority(AuthorityOf(BodyOf(u))) # Throws
                  => Completes(parse(u), u, parse_authority(AuthorityOf(BodyOf(u))))
  <1> DEFINE r == parse_authority(AuthorityOf(BodyOf(u)))
             b == BodyOf(u)
             q == Find(b, "?")
             h == Find(b, "/")
  <1>1. parse(u) = IF u = <<>> THEN PathOnly(<<>>)
                   ELSE IF ~HasScheme(u) /\ Trimmed(u) # <<>> /\ Trimmed(u)[1] \in {"/", "."} THEN PathOnly(Trimmed(u))
                   ELSE IF r = Throws THEN Throws
                   ELSE [schema |-> SchemaOf(u), host |-> r.host, is_ipv6 |-> r.is_ipv6,
                         port |-> IF r.port # NoPort THEN r.port ELSE <<default_port_for(SchemaOf(u))>>,
                         path |-> IF h < q THEN SubSeq(b, h, q - 1) ELSE <<>>,
                         query |-> After(b, q)]
    BY DEF parse, Trimmed, HasScheme, SchemaOf, BodyOf, AuthorityOf
  <1> HIDE DEF r, q, h, b
  <1>2. IsPath(u) => parse(u).port = NoPort
    BY <1>1 DEF IsPath, PathOnly
  <1>3. ~IsPath(u) /\ r = Throws => parse(u) = Throws
    BY <1>1 DEF IsPath
  <1>4. ~IsPath(u) /\ r # Throws => Completes(parse(u), u, r)
    BY <1>1 DEF IsPath, Completes
  <1> QED
    BY <1>2, <1>3, <1>4 DEF r

\* The authority ends where the path, the query or the fragment begins.
AuthorityCut(a, b) ==
    /\ IsTokens(a) /\ \A d \in HostEnds : Without(a, d)
    /\ a # <<>> => b # <<>> /\ a[1] = b[1]

LEMMA AuthorityCutIs ==
    ASSUME NEW b, IsTokens(b), Without(b, "#"), Without(b, "://")
    PROVE  AuthorityCut(AuthorityOf(b), b)
  <1> DEFINE n == Len(b)
             f == Find(b, "/")
             q == Find(b, "?")
             k == IF f < q THEN f ELSE q
             a == AuthorityOf(b)
  <1>1. n \in Nat /\ (b = <<>> <=> n = 0)
    BY TokensTyped
  <1>2. FoundFirst(b, "/", f) /\ FoundFirst(b, "?", q)
    BY FindIs
  <1>3. a = Before(b, k)
    BY DEF AuthorityOf
  <1> HIDE DEF f, q, a, n
  <1>4. k \in 1 .. n + 1 /\ \A j \in 1 .. k - 1 : b[j] # "/" /\ b[j] # "?"
    BY <1>1, <1>2 DEF FoundFirst, n
  <1> HIDE DEF k
  <1>5. CutOf(a, b, 0, k - 1)
    BY <1>3, <1>4, CutAtPlace DEF CutAt, n
  <1>6. IsTokens(a) /\ Len(a) = k - 1 /\ \A j \in 1 .. k - 1 : a[j] = b[0 + j]
    BY <1>5 DEF CutOf
  <1>7. \A j \in 1 .. k - 1 : 0 + j = j /\ j \in 1 .. n
    BY <1>1, <1>4
  <1>8. \A j \in 1 .. k - 1 : a[j] = b[j]
    BY <1>6, <1>7
  <1>9. Without(a, "/") /\ Without(a, "?")
    BY <1>4, <1>6, <1>8 DEF Without
  <1>10. Without(a, "#") /\ Without(a, "://")
    BY <1>6, <1>7, <1>8 DEF Without, n
  <1>11. ASSUME a # <<>> PROVE b # <<>> /\ a[1] = b[1]
    <2>1. Len(a) # 0
      BY <1>6, <1>11, TokensTyped
    <2>2. 1 \in 1 .. k - 1 /\ n # 0
      BY <1>1, <1>4, <1>6, <2>1
    <2> QED
      BY <1>1, <1>8, <2>2
  <1> QED
    BY <1>6, <1>9, <1>10, <1>11 DEF AuthorityCut, HostEnds, a

\* Where parse cuts a URI: before the fragment, around the first "://".
SplitIs(u) ==
    /\ IsTokens(SchemaOf(u)) /\ lowercase_range(SchemaOf(u)) = SchemaOf(u)
    /\ Without(SchemaOf(u), "#") /\ Without(SchemaOf(u), "://")
    /\ IsTokens(BodyOf(u)) /\ Without(BodyOf(u), "#") /\ Without(BodyOf(u), "://")
    /\ IF HasScheme(u) THEN SchemaOf(u) # <<>> ELSE SchemaOf(u) = <<>> /\ BodyOf(u) = Trimmed(u)

LEMMA UriIsSplit ==
    ASSUME NEW u, IsTokens(u), Tokenized(u)
    PROVE  SplitIs(u)
  <1> DEFINE f == Find(u, "#")
             t == Trimmed(u)
             n == Len(t)
             h == Find(t, "://")
  <1>1. Len(u) \in Nat
    BY TokensTyped
  <1>2. FoundFirst(u, "#", f)
    BY FindIs
  <1>3. f \in 1 .. Len(u) + 1 /\ \A j \in 1 .. f - 1 : u[j] # "#"
    BY <1>2 DEF FoundFirst
  <1>4. CutOf(t, u, 0, f - 1)
    BY <1>3, CutAtPlace DEF CutAt, Trimmed
  <1> HIDE DEF f, t
  <1>5. IsTokens(t) /\ n = f - 1 /\ \A j \in 1 .. f - 1 : t[j] = u[0 + j]
    BY <1>4 DEF CutOf
  <1>6. n \in Nat
    BY <1>5, TokensTyped
  <1>7. FoundFirst(t, "://", h)
    BY <1>5, FindIs
  <1> HIDE DEF n, h
  <1>8. \A j \in 1 .. n : 0 + j = j /\ j \in 1 .. f - 1 /\ j \in 1 .. Len(u)
    BY <1>1, <1>3, <1>5, <1>6
  <1>9. \A j \in 1 .. n : t[j] = u[j] /\ t[j] # "#"
    BY <1>3, <1>5, <1>8
  <1>10. \A i, j \in 1 .. n : t[i] = "://" /\ t[j] = "://" => i = j /\ i > 1
    BY <1>8, <1>9 DEF Tokenized, Places
  <1>11. h \in 1 .. n + 1 /\ (h <= n => t[h] = "://") /\ \A j \in 1 .. h - 1 : t[j] # "://"
    BY <1>7 DEF FoundFirst, n
  <1>12. HasScheme(u) <=> h <= n /\ h > 1
    BY DEF HasScheme, t, n, h
  <1>13. CutAt(t, h)
    BY <1>5, <1>11, CutAtPlace DEF n
  <1>14. CASE HasScheme(u)
    <2> DEFINE c == Before(t, h)
               s == SchemaOf(u)
               b == BodyOf(u)
    <2>1. s = lowercase_range(c) /\ b = After(t, h)
      BY <1>14 DEF SchemaOf, BodyOf, t, h
    <2>2. CutOf(c, t, 0, h - 1) /\ CutOf(b, t, h, n - h)
      BY <1>12, <1>13, <1>14, <2>1 DEF CutAt, n
    <2> HIDE DEF c, s, b
    <2>3. h - 1 \in Nat /\ n - h \in Nat /\ 0 \in Nat /\ h - 1 # 0 /\ h \in 1 .. n
      BY <1>6, <1>11, <1>12, <1>14
    <2>4. LowerPart(s, t, 0, h - 1)
      BY <2>1, <2>2, <2>3, LowerPartIs
    <2>5. IsTokens(s) /\ lowercase_range(s) = s /\ Len(s) = h - 1
      BY <2>4 DEF LowerPart
    <2>6. s # <<>>
      BY <2>3, <2>5, TokensTyped
    <2>7. \A k \in 1 .. h - 1 : 0 + k = k /\ k \in 1 .. n
      BY <1>6, <2>3
    <2>8. ASSUME NEW d \in {"#", "://"} PROVE Without(s, d)
      <3>1. \A k \in 1 .. h - 1 : s[k] = d <=> t[0 + k] = d
        BY <2>4 DEF LowerPart, Delimiters
      <3>2. \A k \in 1 .. h - 1 : t[k] # d
        BY <1>9, <1>11, <2>7
      <3> QED
        BY <2>5, <2>7, <3>1, <3>2 DEF Without
    <2>9. IsTokens(b) /\ Len(b) = n - h /\ \A k \in 1 .. n - h : b[k] = t[h + k]
      BY <2>2 DEF CutOf
    <2>10. \A k \in 1 .. n - h : h + k \in 1 .. n /\ h + k # h
      BY <1>6, <2>3
    <2>11. Without(b, "#")
      BY <1>9, <2>9, <2>10 DEF Without
    <2>12. Without(b, "://")
      <3>1. t[h] = "://"
        BY <1>11, <1>12, <1>14
      <3>2. \A k \in 1 .. n - h : t[h + k] # "://"
        BY <1>10, <2>3, <2>10, <3>1
      <3> QED
        BY <2>9, <3>2 DEF Without
    <2> QED
      BY <1>14, <2>5, <2>6, <2>8, <2>9, <2>11, <2>12 DEF SplitIs, s, b
  <1>15. CASE ~HasScheme(u)
    <2>1. SchemaOf(u) = <<>> /\ BodyOf(u) = t
      BY <1>15 DEF SchemaOf, BodyOf, t
    <2>2. ~(h <= n)
      BY <1>6, <1>10, <1>11, <1>12, <1>15
    <2>3. h - 1 = n
      BY <1>6, <1>11, <2>2
    <2>4. Without(t, "#") /\ Without(t, "://")
      BY <1>9, <1>11, <2>3 DEF Without, n
    <2>5. IsTokens(<<>>) /\ Len(<<>>) = 0
      BY DEF IsTokens
    <2>6. LowerOf(lowercase_range(<<>>), <<>>)
      BY <2>5, LowerIs
    <2>7. lowercase_range(<<>>) = <<>>
      BY <2>5, <2>6, TokensTyped DEF LowerOf
    <2>8. Without(<<>>, "#") /\ Without(<<>>, "://")
      BY <2>5 DEF Without
    <2> QED
      BY <1>5, <1>15, <2>1, <2>4, <2>5, <2>7, <2>8 DEF SplitIs, t
  <1> QED
    BY <1>14, <1>15

\* What parse finds in a URI that has an origin.
Originates(p) ==
    /\ IsTokens(p.schema) /\ lowercase_range(p.schema) = p.schema
    /\ Without(p.schema, "#") /\ Without(p.schema, "://")
    /\ IsTokens(p.host) /\ lowercase_range(p.host) = p.host
    /\ \A d \in HostEnds : Without(p.host, d)
    /\ p.is_ipv6 \in BOOLEAN
    /\ p.is_ipv6 => Without(p.host, "]")
    /\ ~p.is_ipv6 => Without(p.host, ":")
    /\ ~p.is_ipv6 /\ p.host # <<>> => p.host[1] # "[" /\ (p.schema = <<>> => p.host[1] # ".")
    /\ p.schema # <<>> \/ p.host # <<>>
    /\ \E w \in DOMAIN Numbers : p.port = <<Numbers[w]>>

\* A default port is a number that has a word.
LEMMA DefaultPort ==
    ASSUME NEW s
    PROVE  \E w \in DOMAIN Numbers : <<default_port_for(s)>> = <<Numbers[w]>>
  <1>1. default_port_for(s) \in {0, 80, 443, 853}
    BY DEF default_port_for, IsKnown, KNOWN_PORTS
  <1> QED
    BY <1>1, UriAssumption

\* parse finds an origin in every URI that has one.
LEMMA OriginIsFound ==
    ASSUME NEW u, IsTokens(u), Tokenized(u), HasOrigin(u)
    PROVE  Originates(parse(u))
  <1> DEFINE p == parse(u)
             b == BodyOf(u)
             a == AuthorityOf(b)
             r == parse_authority(a)
  <1>1. /\ p # Throws /\ p.port # NoPort /\ (p.schema # <<>> \/ p.host # <<>>)
        /\ (~p.is_ipv6 => ~Contains(p.host, ":"))
    BY DEF HasOrigin
  <1>2. ~IsPath(u) /\ r # Throws
    BY <1>1, ParseIs
  <1>3. Completes(p, u, r)
    BY <1>2, ParseIs
  <1>4. SplitIs(u)
    BY UriIsSplit
  <1> HIDE DEF p, b, a, r
  <1>5. IsTokens(b) /\ Without(b, "#") /\ Without(b, "://")
    BY <1>4 DEF SplitIs, b
  <1>6. AuthorityCut(a, b)
    BY <1>5, AuthorityCutIs DEF a
  <1>7. AuthorityHolds(r, a)
    BY <1>2, <1>6, AuthorityIs DEF AuthorityCut, r
  <1>8. /\ p.schema = SchemaOf(u) /\ p.host = r.host /\ p.is_ipv6 = r.is_ipv6
        /\ p.port = IF r.port # NoPort THEN r.port ELSE <<default_port_for(SchemaOf(u))>>
    BY <1>3 DEF Completes
  <1>9. /\ IsTokens(p.schema) /\ lowercase_range(p.schema) = p.schema
        /\ Without(p.schema, "#") /\ Without(p.schema, "://")
    BY <1>4, <1>8 DEF SplitIs
  <1>10. /\ IsTokens(p.host) /\ lowercase_range(p.host) = p.host
         /\ \A d \in HostEnds : Without(p.host, d)
    BY <1>7, <1>8 DEF AuthorityHolds
  <1>11. p.is_ipv6 \in BOOLEAN /\ (p.is_ipv6 => Without(p.host, "]"))
    BY <1>7, <1>8 DEF AuthorityHolds
  <1>12. ~p.is_ipv6 => Without(p.host, ":")
    BY <1>1 DEF Contains, Without
  <1>13. ASSUME ~p.is_ipv6, p.host # <<>> PROVE p.host[1] # "[" /\ (p.schema = <<>> => p.host[1] # ".")
    <2>1. a # <<>> /\ p.host[1] # "[" /\ (p.host[1] = "." => a[1] = ".")
      BY <1>7, <1>8, <1>13 DEF AuthorityHolds
    <2>2. b # <<>> /\ a[1] = b[1]
      BY <1>6, <2>1 DEF AuthorityCut
    <2>3. ASSUME p.schema = <<>> PROVE b[1] # "."
      <3>1. ~HasScheme(u) /\ b = Trimmed(u)
        BY <1>4, <1>8, <2>3 DEF SplitIs, b
      <3> QED
        BY <1>2, <2>2, <3>1 DEF IsPath
    <2> QED
      BY <2>1, <2>2, <2>3
  <1>14. \E w \in DOMAIN Numbers : p.port = <<Numbers[w]>>
    BY <1>7, <1>8, DefaultPort DEF AuthorityHolds
  <1> QED
    BY <1>1, <1>9, <1>10, <1>11, <1>12, <1>13, <1>14 DEF Originates, p


\* One token in a sequence.
LEMMA OneToken ==
    ASSUME NEW d \in Token
    PROVE  IsTokens(<<d>>) /\ Len(<<d>>) = 1 /\ <<d>>[1] = d
  <1>1. ASSUME NEW S, NEW e \in S PROVE <<e>> \in Seq(S)
    OBVIOUS
  <1>2. IsTokens(<<d>>)
    BY <1>1 DEF IsTokens
  <1> QED
    BY <1>2

\* What x, the token d and y make when they are joined.
Around(s, x, d, y) ==
    /\ IsTokens(s) /\ Len(s) = Len(x) + 1 + Len(y)
    /\ \A i \in 1 .. Len(x) : s[i] = x[i]
    /\ s[Len(x) + 1] = d
    /\ \A i \in 1 .. Len(y) : s[Len(x) + 1 + i] = y[i]

LEMMA AroundIs ==
    ASSUME NEW x, IsTokens(x), NEW d \in Token, NEW y, IsTokens(y)
    PROVE  Around((x \o <<d>>) \o y, x, d, y)
  <1> DEFINE o == <<d>>
             a == x \o o
             s == a \o y
             n == Len(x)
             m == Len(y)
  <1>1. n \in Nat /\ m \in Nat
    BY TokensTyped
  <1>2. IsTokens(o) /\ Len(o) = 1 /\ o[1] = d
    BY OneToken
  <1> HIDE DEF o
  <1>3. JoinedOf(a, x, o)
    BY <1>2, TokensJoined
  <1> HIDE DEF a
  <1>4. IsTokens(a) /\ Len(a) = n + 1 /\ (\A i \in 1 .. n : a[i] = x[i]) /\ a[n + 1] = d
    <2>1. /\ IsTokens(a) /\ Len(a) = n + Len(o)
          /\ \A i \in 1 .. n : a[i] = x[i]
          /\ \A i \in 1 .. Len(o) : a[n + i] = o[i]
      BY <1>3 DEF JoinedOf
    <2>2. 1 \in 1 .. Len(o)
      BY <1>2
    <2> QED
      BY <1>2, <2>1, <2>2
  <1>5. JoinedOf(s, a, y)
    BY <1>4, TokensJoined
  <1> HIDE DEF s
  <1>6. /\ IsTokens(s) /\ Len(s) = n + 1 + m
        /\ \A i \in 1 .. n + 1 : s[i] = a[i]
        /\ \A i \in 1 .. m : s[n + 1 + i] = y[i]
    BY <1>4, <1>5 DEF JoinedOf
  <1> HIDE DEF n, m
  <1>7. (\A i \in 1 .. n : i \in 1 .. n + 1) /\ n + 1 \in 1 .. n + 1
    BY <1>1
  <1>8. (\A i \in 1 .. n : s[i] = x[i]) /\ s[n + 1] = d
    BY <1>4, <1>6, <1>7
  <1> QED
    BY <1>6, <1>8 DEF Around, n, m, s, a, o

LEMMA AroundSplits ==
    ASSUME NEW x, IsTokens(x), NEW d, NEW y, IsTokens(y), NEW s, Around(s, x, d, y)
    PROVE  /\ Before(s, Len(x) + 1) = x /\ After(s, Len(x) + 1) = y
           /\ Without(x, d) => Find(s, d) = Len(x) + 1
           /\ Without(y, d) => FindLast(s, d) = Len(x) + 1
           /\ \A e : Without(x, e) /\ Without(y, e) /\ d # e => Without(s, e)
  <1> DEFINE n == Len(x)
             m == Len(y)
             k == n + 1
             b == Before(s, k)
             a == After(s, k)
  <1>1. n \in Nat /\ m \in Nat
    BY TokensTyped
  <1>2. /\ IsTokens(s) /\ Len(s) = n + 1 + m
        /\ \A i \in 1 .. n : s[i] = x[i]
        /\ s[k] = d
        /\ \A i \in 1 .. m : s[k + i] = y[i]
    BY DEF Around
  <1> HIDE DEF n, m
  <1>3. k \in 1 .. Len(s) + 1 /\ k <= Len(s) /\ k - 1 = n /\ Len(s) - k = m
    BY <1>1, <1>2
  <1>4. CutAt(s, k)
    BY <1>2, <1>3, CutAtPlace
  <1> HIDE DEF k
  <1>5. CutOf(b, s, 0, n) /\ CutOf(a, s, k, m)
    BY <1>3, <1>4 DEF CutAt
  <1> HIDE DEF b, a
  <1>6. b = x
    <2>1. IsTokens(b) /\ Len(b) = n /\ \A i \in 1 .. n : b[i] = s[0 + i]
      BY <1>5 DEF CutOf
    <2>2. \A i \in 1 .. n : 0 + i = i
      BY <1>1
    <2>3. \A i \in 1 .. n : b[i] = x[i]
      BY <1>2, <2>1, <2>2
    <2> QED
      BY <2>1, <2>3, SameTokens DEF n
  <1>7. a = y
    <2>1. IsTokens(a) /\ Len(a) = m /\ \A i \in 1 .. m : a[i] = s[k + i]
      BY <1>5 DEF CutOf
    <2>2. \A i \in 1 .. m : a[i] = y[i]
      BY <1>2, <2>1
    <2> QED
      BY <2>1, <2>2, SameTokens DEF m
  <1>8. ASSUME Without(x, d) PROVE Find(s, d) = k
    <2>1. \A j \in 1 .. k - 1 : s[j] # d
      BY <1>2, <1>3, <1>8 DEF Without, n
    <2>2. FoundFirst(s, d, k)
      BY <1>2, <1>3, <2>1 DEF FoundFirst
    <2> QED
      BY <1>2, <2>2, FindIs
  <1>9. ASSUME NEW j \in 1 .. Len(s) PROVE j \in 1 .. n \/ j = k \/ \E i \in 1 .. m : j = k + i
    <2>1. j \in 1 .. n \/ j = k \/ (j - k \in 1 .. m /\ j = k + (j - k))
      BY <1>1, <1>2, <1>3
    <2> QED
      BY <2>1
  <1>10. ASSUME Without(y, d) PROVE FindLast(s, d) = k
    <2>1. ASSUME NEW j \in 1 .. Len(s), s[j] = d PROVE j <= k
      <3>1. \A i \in 1 .. m : s[k + i] # d
        BY <1>2, <1>10 DEF Without, m
      <3>2. j \in 1 .. n \/ j = k
        BY <1>9, <2>1, <3>1
      <3> QED
        BY <1>1, <1>3, <3>2
    <2>2. FoundLast(s, d, k)
      BY <1>2, <1>3, <2>1 DEF FoundLast
    <2> QED
      BY <1>2, <2>2, FindLastIs
  <1>11. ASSUME NEW e, Without(x, e), Without(y, e), d # e PROVE Without(s, e)
    BY <1>2, <1>9, <1>11 DEF Without, n, m
  <1> QED
    BY <1>6, <1>7, <1>8, <1>10, <1>11 DEF n, k, a, b

\* A token that is not there is found behind the end.
LEMMA TokenIsMissing ==
    ASSUME NEW s, IsTokens(s), NEW d, Without(s, d)
    PROVE  /\ Find(s, d) = Len(s) + 1 /\ FindLast(s, d) = Len(s) + 1
           /\ Before(s, Len(s) + 1) = s /\ After(s, Len(s) + 1) = <<>>
  <1> DEFINE n == Len(s)
             k == n + 1
  <1>1. n \in Nat
    BY TokensTyped
  <1>2. k \in 1 .. n + 1 /\ ~(k <= n) /\ k - 1 = n
    BY <1>1
  <1>3. \A j \in 1 .. n : s[j] # d
    BY DEF Without
  <1>4. FoundFirst(s, d, k) /\ FoundLast(s, d, k)
    BY <1>2, <1>3 DEF FoundFirst, FoundLast
  <1>5. Find(s, d) = k /\ FindLast(s, d) = k
    BY <1>4, FindIs, FindLastIs
  <1>6. CutAt(s, k)
    BY <1>2, CutAtPlace
  <1> QED
    BY <1>2, <1>5, <1>6 DEF CutAt

\* What parse_authority finds in an authority that was written out.
ReadsAs(r, host, is_ipv6, port) == r # Throws /\ r.host = host /\ r.is_ipv6 = is_ipv6 /\ r.port = port

LEMMA AuthorityFields ==
    ASSUME NEW h, NEW port, NEW v \in BOOLEAN, lowercase_range(h) = h
    PROVE  ReadsAs(Authority(h, port, v), h, v, port)
  <1> DEFINE r == Authority(h, port, v)
  <1>1. r = [host |-> h, port |-> port, is_ipv6 |-> v]
    BY DEF Authority
  <1>2. r.host = h /\ r.port = port /\ r.is_ipv6 = v
    BY <1>1
  <1>3. "host" \in DOMAIN r
    BY <1>1
  <1>4. "host" \notin DOMAIN Throws
    BY DEF Throws
  <1> QED
    BY <1>2, <1>3, <1>4 DEF ReadsAs

\* The part of an authority that shows the port, if it does.
PortPart(y, port) ==
    \/ y = <<>> /\ port = NoPort
    \/ \E w \in DOMAIN Numbers : y = <<":", w>> /\ port = <<Numbers[w]>>

LEMMA PortShown ==
    ASSUME NEW w \in DOMAIN Numbers
    PROVE  /\ w \in Token /\ w \notin Delimiters
           /\ IsTokens(<<w>>) /\ Len(<<w>>) = 1 /\ <<w>>[1] = w
           /\ IsTokens(<<":", w>>) /\ Len(<<":", w>>) = 2 /\ <<":", w>>[1] = ":" /\ <<":", w>>[2] = w
           /\ from_chars(<<w>>) = <<Numbers[w]>>
  <1>1. w \in Token /\ w \notin Delimiters
    BY UriAssumption DEF Token
  <1>2. ASSUME NEW S, NEW d \in S, NEW e \in S PROVE <<d, e>> \in Seq(S)
    OBVIOUS
  <1>3. ":" \in Token
    BY DEF Token, Delimiters
  <1>7. IsTokens(<<":", w>>)
    BY <1>1, <1>2, <1>3 DEF IsTokens
  <1>4. IsTokens(<<w>>) /\ Len(<<w>>) = 1 /\ <<w>>[1] = w
    BY <1>1, OneToken
  <1>5. Len(<<":", w>>) = 2 /\ <<":", w>>[1] = ":" /\ <<":", w>>[2] = w
    OBVIOUS
  <1>6. <<w>> # <<>>
    BY <1>4
  <1> QED
    BY <1>1, <1>4, <1>5, <1>6, <1>7 DEF from_chars

LEMMA PairIsJoined ==
    ASSUME NEW v, NEW w
    PROVE  <<v>> \o <<w>> = <<v, w>>
  <1> DEFINE S == {v, w}
             a == <<v>>
             b == <<w>>
             c == a \o b
             d == <<v, w>>
  <1>1. v \in S /\ w \in S
    OBVIOUS
  <1> HIDE DEF S
  <1>2. /\ a \in Seq(S) /\ Len(a) = 1 /\ a[1] = v
        /\ b \in Seq(S) /\ Len(b) = 1 /\ b[1] = w
        /\ d \in Seq(S) /\ Len(d) = 2 /\ d[1] = v /\ d[2] = w
    BY <1>1
  <1> HIDE DEF a, b, d
  <1>3. c \in Seq(S) /\ Len(c) = 2 /\ c[1] = v /\ c[2] = w
    BY <1>2, ConcatProperties
  <1> HIDE DEF c
  <1>4. \A i \in 1 .. Len(c) : c[i] = d[i]
    BY <1>2, <1>3
  <1>5. c = d
    BY <1>2, <1>3, <1>4, SeqEqual
  <1> QED
    BY <1>5 DEF c, d, a, b

\* Joining tokens is associative.
LEMMA TokensAssociate ==
    ASSUME NEW a, NEW b, NEW c, IsTokens(a), IsTokens(b), IsTokens(c)
    PROVE  a \o (b \o c) = (a \o b) \o c
  <1>1. ASSUME NEW S, NEW x \in Seq(S), NEW y \in Seq(S), NEW z \in Seq(S) PROVE x \o (y \o z) = (x \o y) \o z
    BY ConcatAssociative
  <1> QED
    BY <1>1 DEF IsTokens

\* A host alone, a host and a port, and an address in brackets are read back.
LEMMA PlainIsRead ==
    ASSUME NEW h, IsTokens(h), lowercase_range(h) = h, Without(h, ":"), h # <<>> => h[1] # "["
    PROVE  ReadsAs(parse_authority(h), h, FALSE, NoPort)
  <1>1. CASE h = <<>>
    <2>1. parse_authority(h) = Authority(h, NoPort, FALSE)
      BY <1>1 DEF parse_authority
    <2> QED
      BY <2>1, AuthorityFields
  <1>2. CASE h # <<>>
    <2>1. h \notin Ipv6Words
      BY UriAssumption DEF Without, Places
    <2>2. from_chars(<<>>) = NoPort
      BY DEF from_chars
    <2>3. FindLast(h, ":") = Len(h) + 1 /\ Before(h, Len(h) + 1) = h /\ After(h, Len(h) + 1) = <<>>
      BY TokenIsMissing
    <2>4. parse_authority(h) = Authority(h, NoPort, FALSE)
      BY <1>2, <2>1, <2>2, <2>3 DEF parse_authority
    <2> QED
      BY <2>4, AuthorityFields
  <1> QED
    BY <1>1, <1>2

LEMMA PlainAndPortIsRead ==
    ASSUME NEW h, IsTokens(h), lowercase_range(h) = h, Without(h, ":"), h # <<>> => h[1] # "[",
           NEW w \in DOMAIN Numbers
    PROVE  ReadsAs(parse_authority(h \o <<":", w>>), h, FALSE, <<Numbers[w]>>)
  <1> DEFINE y == <<w>>
             c == <<":">>
             a == (h \o c) \o y
             n == Len(h)
  <1>1. IsTokens(y) /\ Len(y) = 1 /\ y[1] = w /\ w \notin Delimiters /\ from_chars(y) = <<Numbers[w]>>
    BY PortShown
  <1>2. ":" \in Token /\ ":" \in Delimiters
    BY DEF Token, Delimiters
  <1>13. IsTokens(c)
    BY <1>2, OneToken
  <1>3. h \o <<":", w>> = a
    <2>1. c \o y = <<":", w>>
      BY PairIsJoined
    <2>2. h \o (c \o y) = (h \o c) \o y
      BY <1>1, <1>13, TokensAssociate
    <2> QED
      BY <2>1, <2>2
  <1>4. Around(a, h, ":", y)
    BY <1>1, <1>2, AroundIs DEF c
  <1> HIDE DEF a, y, c
  <1>5. Without(y, ":")
    BY <1>1, <1>2 DEF Without
  <1>6. FindLast(a, ":") = n + 1 /\ Before(a, n + 1) = h /\ After(a, n + 1) = y
    BY <1>1, <1>4, <1>5, AroundSplits
  <1>7. n \in Nat /\ (h = <<>> <=> n = 0)
    BY TokensTyped
  <1>8. /\ IsTokens(a) /\ Len(a) = n + 1 + Len(y) /\ a[n + 1] = ":"
        /\ \A i \in 1 .. n : a[i] = h[i]
        /\ \A i \in 1 .. Len(y) : a[n + 1 + i] = y[i]
    BY <1>4 DEF Around
  <1> HIDE DEF n
  <1>9. a # <<>>
    BY <1>1, <1>7, <1>8, TokensTyped
  <1>10. a[1] # "["
    <2>1. CASE n = 0
      <3>1. n + 1 = 1
        BY <2>1
      <3> QED
        BY <1>8, <3>1
    <2>2. CASE n # 0
      <3>1. 1 \in 1 .. n
        BY <1>7, <2>2
      <3> QED
        BY <1>7, <1>8, <2>2, <3>1
    <2> QED
      BY <2>1, <2>2
  <1>11. a \notin Ipv6Words
    <2>1. ASSUME NEW i \in 1 .. Len(a), a[i] = ":" PROVE i = n + 1
      <3>1. ~(i \in 1 .. n)
        BY <1>8, <2>1 DEF Without, n
      <3>2. i # n + 1 + 1
        <4>1. 1 \in 1 .. Len(y)
          BY <1>1
        <4> QED
          BY <1>1, <1>2, <1>8, <2>1, <4>1
      <3> QED
        BY <1>1, <1>7, <1>8, <3>1, <3>2
    <2> QED
      BY <2>1, UriAssumption DEF Places
  <1>12. parse_authority(a) = Authority(h, <<Numbers[w]>>, FALSE)
    BY <1>1, <1>6, <1>9, <1>10, <1>11 DEF parse_authority
  <1> QED
    BY <1>3, <1>12, AuthorityFields

LEMMA BracketsAreRead ==
    ASSUME NEW h, IsTokens(h), lowercase_range(h) = h, Without(h, "]"), NEW y, NEW port, PortPart(y, port)
    PROVE  LET a == ((<<"[">> \o h) \o <<"]">>) \o y
           IN  ReadsAs(parse_authority(a), h, TRUE, port) /\ IsTokens(a) /\ a # <<>> /\ a[1] = "["
  <1> DEFINE o == <<"[">>
             x == o \o h
             a == (x \o <<"]">>) \o y
             n == Len(h)
             m == Len(y)
             closing == Find(a, "]")
  <1>1. "]" \in Token /\ "[" \in Token
    BY DEF Token, Delimiters
  <1>2. IsTokens(o) /\ Len(o) = 1 /\ o[1] = "["
    BY <1>1, OneToken
  <1>3. IsTokens(y) /\ m \in Nat /\ (m # 0 => m = 2 /\ y[1] = ":" /\ \E w \in DOMAIN Numbers : y[2] = w /\ port = <<Numbers[w]>>) /\ (m = 0 => port = NoPort)
    <2>1. CASE y = <<>> /\ port = NoPort
      <3>1. IsTokens(<<>>) /\ Len(<<>>) = 0
        BY DEF IsTokens
      <3> QED
        BY <2>1, <3>1
    <2>2. CASE \E w \in DOMAIN Numbers : y = <<":", w>> /\ port = <<Numbers[w]>>
      <3>1. PICK w \in DOMAIN Numbers : y = <<":", w>> /\ port = <<Numbers[w]>>
        BY <2>2
      <3>2. IsTokens(y) /\ Len(y) = 2 /\ y[1] = ":" /\ y[2] = w
        BY <3>1, PortShown
      <3> QED
        BY <3>1, <3>2
    <2> QED
      BY <2>1, <2>2 DEF PortPart
  <1> HIDE DEF o
  <1>4. JoinedOf(x, o, h)
    BY <1>2, TokensJoined
  <1>5. n \in Nat
    BY TokensTyped
  <1> HIDE DEF n, m, x
  <1>6. IsTokens(x) /\ Len(x) = 1 + n /\ x[1] = "[" /\ \A i \in 1 .. n : x[1 + i] = h[i]
    <2>1. 1 \in 1 .. Len(o)
      BY <1>2
    <2> QED
      BY <1>2, <1>4, <2>1 DEF JoinedOf, n
  <1>7. Around(a, x, "]", y)
    BY <1>1, <1>3, <1>6, AroundIs
  <1> HIDE DEF a
  <1>8. /\ IsTokens(a) /\ Len(a) = 1 + n + 1 + m
        /\ \A i \in 1 .. 1 + n : a[i] = x[i]
        /\ a[1 + n + 1] = "]"
        /\ \A i \in 1 .. m : a[1 + n + 1 + i] = y[i]
    BY <1>6, <1>7 DEF Around, m
  <1>9. Without(x, "]")
    <2>1. ASSUME NEW i \in 1 .. 1 + n PROVE x[i] # "]"
      <3>1. CASE i = 1
        BY <1>6, <3>1
      <3>2. CASE i # 1
        <4>1. i - 1 \in 1 .. n /\ i = 1 + (i - 1)
          BY <1>5, <3>2
        <4>2. x[i] = h[i - 1]
          BY <1>6, <4>1
        <4> QED
          BY <4>1, <4>2 DEF Without, n
      <3> QED
        BY <3>1, <3>2
    <2> QED
      BY <1>6, <2>1 DEF Without
  <1>10. closing = 1 + n + 1
    BY <1>3, <1>6, <1>7, <1>9, AroundSplits
  <1> HIDE DEF closing
  <1>11. a # <<>> /\ a[1] = "["
    <2>1. Len(a) # 0 /\ 1 \in 1 .. 1 + n
      BY <1>3, <1>5, <1>8
    <2> QED
      BY <1>6, <1>8, <2>1, TokensTyped
  <1>12. SubSeq(a, 1 + 1, closing - 1) = h
    <2> DEFINE c == SubSeq(a, 1 + 1, closing - 1)
    <2>1. 1 \in Nat /\ closing - 1 \in Int /\ 1 <= closing - 1 /\ closing - 1 <= Len(a) /\ closing - 1 - 1 = n
      BY <1>3, <1>5, <1>8, <1>10
    <2>2. CutOf(c, a, 1, closing - 1 - 1)
      BY <1>8, <2>1, TokensCut
    <2> HIDE DEF c
    <2>3. IsTokens(c) /\ Len(c) = n /\ \A k \in 1 .. n : c[k] = a[1 + k]
      BY <2>1, <2>2 DEF CutOf
    <2>4. \A k \in 1 .. n : 1 + k \in 1 .. 1 + n
      BY <1>5
    <2>5. \A k \in 1 .. n : c[k] = h[k]
      BY <1>6, <1>8, <2>3, <2>4
    <2>6. c = h
      BY <2>3, <2>5, SameTokens DEF n
    <2> QED
      BY <2>6 DEF c
  <1> DEFINE shown == IF closing < Len(a) /\ a[closing + 1] = ":" THEN from_chars(After(a, closing + 1)) ELSE NoPort
  <1>13. shown = port
    <2>1. CASE m = 0
      <3>1. ~(closing < Len(a))
        BY <1>5, <1>8, <1>10, <2>1
      <3> QED
        BY <1>3, <2>1, <3>1
    <2>2. CASE m # 0
      <3>1. PICK w \in DOMAIN Numbers : m = 2 /\ y[1] = ":" /\ y[2] = w /\ port = <<Numbers[w]>>
        BY <1>3, <2>2
      <3>2. 1 \in 1 .. m /\ 2 \in 1 .. m
        BY <3>1
      <3>3. closing < Len(a) /\ closing + 1 = 1 + n + 1 + 1 /\ closing + 1 + 1 = 1 + n + 1 + 2
        BY <1>5, <1>8, <1>10, <3>1
      <3>4. a[closing + 1] = ":" /\ a[closing + 1 + 1] = w
        BY <1>8, <3>1, <3>2, <3>3
      <3> DEFINE k == closing + 1
                 c == After(a, k)
      <3>5. k \in 1 .. Len(a) + 1 /\ k <= Len(a) /\ Len(a) - k = 1
        BY <1>5, <1>8, <1>10, <3>1
      <3> HIDE DEF k
      <3>6. CutOf(c, a, k, 1)
        BY <1>8, <3>5, CutAtPlace DEF CutAt
      <3> HIDE DEF c
      <3>7. IsTokens(c) /\ Len(c) = 1 /\ c[1] = a[k + 1]
        BY <3>6 DEF CutOf
      <3>8. c # <<>> /\ c[1] = w
        <4>1. c # <<>>
          BY SMTT(30), <3>7
        <4> QED
          BY <3>4, <3>7, <4>1 DEF k
      <3>9. from_chars(c) = <<Numbers[w]>>
        BY <3>8 DEF from_chars
      <3> QED
        BY <3>1, <3>3, <3>4, <3>9 DEF c, k
    <2> QED
      BY <2>1, <2>2
  <1>14. ~(closing > Len(a))
    BY <1>3, <1>5, <1>8, <1>10
  <1>15. parse_authority(a) = Authority(SubSeq(a, 1 + 1, closing - 1), shown, TRUE)
    BY <1>11, <1>14 DEF parse_authority, closing
  <1> HIDE DEF shown
  <1>16. ReadsAs(parse_authority(a), h, TRUE, port)
    BY <1>12, <1>13, <1>15, AuthorityFields
  <1> QED
    BY <1>8, <1>11, <1>16 DEF a, x, o

\* Without a token, joined.
LEMMA JoinedWithout ==
    ASSUME NEW a, NEW b, NEW d, IsTokens(a), IsTokens(b), Without(a, d), Without(b, d)
    PROVE  IsTokens(a \o b) /\ Without(a \o b, d)
  <1> DEFINE c == a \o b
             n == Len(a)
             m == Len(b)
  <1>1. JoinedOf(c, a, b)
    BY TokensJoined
  <1> HIDE DEF c
  <1>2. IsTokens(c) /\ Len(c) = n + m /\ (\A i \in 1 .. n : c[i] = a[i]) /\ \A i \in 1 .. m : c[n + i] = b[i]
    BY <1>1 DEF JoinedOf
  <1>3. n \in Nat /\ m \in Nat
    BY TokensTyped
  <1> HIDE DEF n, m
  <1>4. ASSUME NEW i \in 1 .. n + m PROVE c[i] # d
    <2>1. CASE i <= n
      BY <1>2, <1>3, <2>1 DEF Without, n
    <2>2. CASE ~(i <= n)
      <3>1. i - n \in 1 .. m /\ i = n + (i - n)
        BY <1>3, <2>2
      <3>2. c[i] = b[i - n]
        BY <1>2, <3>1
      <3> QED
        BY <3>1, <3>2 DEF Without, m
    <2> QED
      BY <2>1, <2>2
  <1> QED
    BY <1>2, <1>4 DEF Without, c

\* Joining nothing.
LEMMA JoinedToNothing ==
    ASSUME NEW a, IsTokens(a)
    PROVE  IsTokens(<<>>) /\ a \o <<>> = a /\ <<>> \o a = a
  <1>1. ASSUME NEW S, NEW x \in Seq(S) PROVE x \o <<>> = x /\ <<>> \o x = x
    BY ConcatEmptySeq
  <1>2. IsTokens(<<>>)
    BY DEF IsTokens
  <1> QED
    BY <1>1, <1>2 DEF IsTokens

\* An authority that p can be read from, and the port that it shows.
WrittenAs(a, p, port) ==
    /\ IsTokens(a) /\ \A d \in HostEnds : Without(a, d)
    /\ ReadsAs(parse_authority(a), p.host, p.is_ipv6, port)
    /\ p.schema = <<>> => a # <<>> /\ a[1] \notin {"/", "."}

LEMMA PortPartTyped ==
    ASSUME NEW y, NEW port, PortPart(y, port)
    PROVE  IsTokens(y) /\ \A d \in HostEnds : Without(y, d)
  <1>1. CASE y = <<>>
    <2>1. IsTokens(<<>>) /\ Len(<<>>) = 0
      BY DEF IsTokens
    <2> QED
      BY <1>1, <2>1 DEF Without
  <1>2. CASE \E w \in DOMAIN Numbers : y = <<":", w>>
    <2>1. PICK w \in DOMAIN Numbers : y = <<":", w>>
      BY <1>2
    <2>2. IsTokens(y) /\ Len(y) = 2 /\ y[1] = ":" /\ y[2] = w /\ w \notin Delimiters
      BY <2>1, PortShown
    <2> HIDE <2>1
    <2>3. ASSUME NEW d \in HostEnds, NEW i \in 1 .. Len(y) PROVE y[i] # d
      <3>1. d # ":" /\ d \in Delimiters
        BY DEF HostEnds, Delimiters
      <3>2. i = 1 \/ i = 2
        BY <2>2
      <3> QED
        BY <2>2, <3>1, <3>2
    <2> QED
      BY <2>2, <2>3 DEF Without
  <1> QED
    BY <1>1, <1>2 DEF PortPart

\* The authority that get_origin or build_base_url writes is read back.
LEMMA AuthorityIsRead ==
    ASSUME NEW p, Originates(p), NEW y, NEW port, PortPart(y, port)
    PROVE  IsTokens(get_host_literal(p)) /\ IsTokens(y) /\ WrittenAs(get_host_literal(p) \o y, p, port)
  <1> DEFINE h == p.host
             l == get_host_literal(p)
             a == l \o y
  <1>1. /\ IsTokens(h) /\ lowercase_range(h) = h /\ \A d \in HostEnds : Without(h, d)
        /\ p.is_ipv6 \in BOOLEAN /\ (p.is_ipv6 => Without(h, "]")) /\ (~p.is_ipv6 => Without(h, ":"))
        /\ ~p.is_ipv6 /\ h # <<>> => h[1] # "[" /\ (p.schema = <<>> => h[1] # ".")
        /\ p.schema # <<>> \/ h # <<>>
    BY DEF Originates
  <1>2. IsTokens(y) /\ \A d \in HostEnds : Without(y, d)
    BY PortPartTyped
  <1>3. CASE p.is_ipv6
    <2>1. p.is_ipv6 = TRUE
      BY <1>1, <1>3
    <2>2. l = (<<"[">> \o h) \o <<"]">>
      BY <1>3 DEF get_host_literal
    <2>3. IsTokens(<<"[">>) /\ IsTokens(<<"]">>)
      BY OneToken DEF Token, Delimiters
    <2>4. ASSUME NEW d \in HostEnds PROVE IsTokens(l) /\ Without(a, d)
      <3>1. Without(<<"[">>, d) /\ Without(<<"]">>, d)
        BY DEF Without, HostEnds
      <3>2. IsTokens(<<"[">> \o h) /\ Without(<<"[">> \o h, d)
        BY <1>1, <2>3, <3>1, JoinedWithout
      <3>3. IsTokens(l) /\ Without(l, d)
        BY <2>2, <2>3, <3>1, <3>2, JoinedWithout
      <3> HIDE DEF l
      <3> QED
        BY <1>2, <3>3, JoinedWithout
    <2>5. ReadsAs(parse_authority(a), h, TRUE, port) /\ IsTokens(a) /\ a # <<>> /\ a[1] = "["
      BY <1>1, <1>3, <2>2, BracketsAreRead
    <2>6. "#" \in HostEnds
      BY DEF HostEnds
    <2> HIDE DEF l, a
    <2>7. WrittenAs(a, p, port)
      BY <2>1, <2>4, <2>5 DEF WrittenAs
    <2> QED
      BY <1>2, <2>4, <2>6, <2>7 DEF a, l
  <1>4. CASE ~p.is_ipv6
    <2>1. p.is_ipv6 = FALSE
      BY <1>1, <1>4
    <2>2. l = h
      BY <1>4 DEF get_host_literal
    <2> HIDE DEF l
    <2>3. ReadsAs(parse_authority(a), h, FALSE, port)
      <3>1. CASE y = <<>> /\ port = NoPort
        <4>1. a = h
          BY <1>1, <2>2, <3>1, JoinedToNothing
        <4> QED
          BY <1>1, <1>4, <3>1, <4>1, PlainIsRead
      <3>2. CASE \E w \in DOMAIN Numbers : y = <<":", w>> /\ port = <<Numbers[w]>>
        BY <1>1, <1>4, <2>2, <3>2, PlainAndPortIsRead
      <3> QED
        BY <3>1, <3>2 DEF PortPart
    <2>4. ASSUME NEW d \in HostEnds PROVE IsTokens(a) /\ Without(a, d)
      BY <1>1, <1>2, <2>2, JoinedWithout
    <2>5. "#" \in HostEnds /\ "/" \in HostEnds
      BY DEF HostEnds
    <2>6. JoinedOf(a, h, y)
      BY <1>1, <1>2, <2>2, TokensJoined
    <2>7. ASSUME p.schema = <<>> PROVE a # <<>> /\ a[1] \notin {"/", "."}
      <3>1. h # <<>> /\ h[1] # "."
        BY <1>1, <1>4, <2>7
      <3>2. Len(h) \in Nat /\ Len(h) # 0 /\ Len(y) \in Nat
        BY <1>1, <1>2, <3>1, TokensTyped
      <3>3. 1 \in 1 .. Len(h)
        BY <3>2
      <3>4. h[1] # "/"
        BY <1>1, <2>5, <3>3 DEF Without
      <3>5. IsTokens(a) /\ Len(a) = Len(h) + Len(y) /\ a[1] = h[1]
        BY <2>6, <3>3 DEF JoinedOf
      <3>6. Len(a) # 0
        BY <3>2, <3>5
      <3>7. a # <<>>
        BY <3>5, <3>6, TokensTyped
      <3> QED
        BY <3>1, <3>4, <3>5, <3>7
    <2> HIDE DEF a
    <2>8. WrittenAs(a, p, port)
      BY <2>1, <2>3, <2>4, <2>5, <2>7 DEF WrittenAs
    <2> QED
      BY <1>1, <1>2, <2>2, <2>8 DEF a, l
  <1> QED
    BY <1>1, <1>3, <1>4

\* The parts that OriginIsStable compares.
SameOrigin(q, p) == <<q.schema, q.host, q.port, q.is_ipv6>> = <<p.schema, p.host, p.port, p.is_ipv6>>

\* A port that is not shown is the default.
Shown(port, p) == IF port # NoPort THEN port = p.port ELSE p.port = <<default_port_for(p.schema)>>

LEMMA AuthorityIsWhole ==
    ASSUME NEW a, IsTokens(a), \A d \in HostEnds : Without(a, d)
    PROVE  AuthorityOf(a) = a
  <1>1. Without(a, "/") /\ Without(a, "?")
    BY DEF HostEnds
  <1>2. Find(a, "/") = Len(a) + 1 /\ Find(a, "?") = Len(a) + 1 /\ Before(a, Len(a) + 1) = a
    BY <1>1, TokenIsMissing
  <1> QED
    BY <1>2 DEF AuthorityOf

LEMMA PartsAreRead ==
    ASSUME NEW p, NEW a, NEW port, WrittenAs(a, p, port), Shown(port, p),
           NEW o, ~IsPath(o), SchemaOf(o) = p.schema, BodyOf(o) = a
    PROVE  SameOrigin(parse(o), p)
  <1> DEFINE r == parse_authority(AuthorityOf(BodyOf(o)))
             q == parse(o)
  <1>1. AuthorityOf(a) = a
    BY AuthorityIsWhole DEF WrittenAs
  <1>2. ReadsAs(r, p.host, p.is_ipv6, port)
    BY <1>1 DEF WrittenAs
  <1>3. Completes(q, o, r)
    BY <1>2, ParseIs DEF ReadsAs
  <1> HIDE DEF r, q
  <1>4. q.schema = p.schema /\ q.host = p.host /\ q.is_ipv6 = p.is_ipv6
    BY <1>2, <1>3 DEF Completes, ReadsAs
  <1>5. q.port = p.port
    BY <1>2, <1>3 DEF Completes, ReadsAs, Shown
  <1> QED
    BY <1>4, <1>5 DEF SameOrigin, q

\* A URI is put together from a scheme and such an authority, and parsed.
LEMMA WrittenIsRead ==
    ASSUME NEW p, Originates(p), NEW a, NEW port, WrittenAs(a, p, port), Shown(port, p),
           NEW o, o = IF p.schema = <<>> THEN a ELSE (p.schema \o <<"://">>) \o a
    PROVE  IsTokens(o) /\ Tokenized(o) /\ SameOrigin(parse(o), p)
  <1> DEFINE s == p.schema
             d == "://"
  <1>1. IsTokens(s) /\ lowercase_range(s) = s /\ Without(s, "#") /\ Without(s, d)
    BY DEF Originates
  <1>2. IsTokens(a) /\ Without(a, "#") /\ Without(a, d)
    BY DEF WrittenAs, HostEnds
  <1>3. CASE s = <<>>
    <2>1. o = a
      BY <1>3
    <2>2. a # <<>> /\ a[1] \notin {"/", "."}
      BY <1>3 DEF WrittenAs
    <2>3. Trimmed(o) = o
      BY <1>2, <2>1, TokenIsMissing DEF Trimmed
    <2>4. Find(o, d) = Len(o) + 1 /\ Len(o) \in Nat
      BY <1>2, <2>1, TokenIsMissing, TokensTyped
    <2>5. ~HasScheme(o)
      <3>1. \A n \in Nat : ~(n + 1 <= n)
        OBVIOUS
      <3>2. ~(Find(o, d) <= Len(o))
        BY <2>4, <3>1
      <3> QED
        BY <2>3, <3>2 DEF HasScheme
    <2>6. SchemaOf(o) = s /\ BodyOf(o) = a
      BY <1>3, <2>1, <2>3, <2>5 DEF SchemaOf, BodyOf
    <2>7. ~IsPath(o)
      BY <2>1, <2>2, <2>3 DEF IsPath
    <2>8. SameOrigin(parse(o), p)
      BY <2>6, <2>7, PartsAreRead
    <2>9. Tokenized(o)
      BY <1>2, <2>1 DEF Tokenized, Places, Without
    <2> QED
      BY <1>2, <2>1, <2>8, <2>9
  <1>4. CASE s # <<>>
    <2>1. o = (s \o <<d>>) \o a /\ d \in Token
      BY <1>4 DEF Token, Delimiters
    <2>2. Around(o, s, d, a)
      BY <1>1, <1>2, <2>1, AroundIs
    <2>3. Find(o, d) = Len(s) + 1 /\ Before(o, Len(s) + 1) = s /\ After(o, Len(s) + 1) = a
      BY <1>1, <1>2, <2>2, AroundSplits
    <2>4. Without(o, "#")
      BY <1>1, <1>2, <2>2, AroundSplits
    <2>5. IsTokens(o) /\ Len(o) = Len(s) + 1 + Len(a)
      BY <2>2 DEF Around
    <2>6. Trimmed(o) = o
      BY <2>4, <2>5, TokenIsMissing DEF Trimmed
    <2>7. Len(s) \in Nat /\ Len(s) # 0 /\ Len(a) \in Nat
      BY <1>1, <1>2, <1>4, TokensTyped
    <2>8. Len(s) + 1 <= Len(o) /\ Len(s) + 1 > 1 /\ Len(o) # 0
      BY <2>5, <2>7
    <2>9. HasScheme(o)
      BY <2>3, <2>6, <2>8 DEF HasScheme
    <2>10. SchemaOf(o) = s /\ BodyOf(o) = a
      BY <1>1, <2>3, <2>6, <2>9 DEF SchemaOf, BodyOf
    <2>11. o # <<>>
      BY <2>5, <2>8, TokensTyped
    <2>12. ~IsPath(o)
      BY <2>9, <2>11 DEF IsPath
    <2>13. SameOrigin(parse(o), p)
      BY <2>10, <2>12, PartsAreRead
    <2>14. ASSUME NEW i \in 1 .. Len(o), o[i] = d PROVE i = Len(s) + 1
      <3>1. (\A j \in 1 .. Len(s) : o[j] = s[j]) /\ \A j \in 1 .. Len(a) : o[Len(s) + 1 + j] = a[j]
        BY <2>2 DEF Around
      <3>2. ~(i \in 1 .. Len(s))
        BY <1>1, <2>14, <3>1 DEF Without
      <3>3. \A j \in 1 .. Len(a) : i # Len(s) + 1 + j
        BY <1>2, <2>14, <3>1 DEF Without
      <3>4. \A n, m \in Nat : \A j \in 1 .. n + 1 + m : j \in 1 .. n \/ j = n + 1 \/ \E k \in 1 .. m : j = n + 1 + k
        <4> SUFFICES ASSUME NEW n \in Nat, NEW m \in Nat, NEW j \in 1 .. n + 1 + m, j \notin 1 .. n, j # n + 1
                     PROVE  \E k \in 1 .. m : j = n + 1 + k
          OBVIOUS
        <4>1. j - (n + 1) \in 1 .. m /\ j = n + 1 + (j - (n + 1))
          OBVIOUS
        <4> QED
          BY <4>1
      <3>5. i \in 1 .. Len(s) + 1 + Len(a)
        BY <2>5
      <3>6. i \in 1 .. Len(s) \/ i = Len(s) + 1 \/ \E k \in 1 .. Len(a) : i = Len(s) + 1 + k
        <4> HIDE DEF s
        <4> QED
          BY <2>7, <3>4, <3>5
      <3> QED
        BY <3>2, <3>3, <3>6
    <2>15. Tokenized(o)
      BY <2>8, <2>14 DEF Tokenized, Places
    <2> QED
      BY <2>5, <2>13, <2>15
  <1> QED
    BY <1>3, <1>4

\* The port is shown, or it is the default.
LEMMA PortIsShown ==
    ASSUME NEW p, Originates(p)
    PROVE  /\ PortPart(<<":", PortWord(p.port[1])>>, p.port) /\ Shown(p.port, p)
           /\ ~ShowsPort(p) => PortPart(<<>>, NoPort) /\ Shown(NoPort, p)
  <1>1. PICK w \in DOMAIN Numbers : p.port = <<Numbers[w]>>
    BY DEF Originates
  <1>2. p.port[1] = Numbers[w] /\ p.port # <<>>
    BY <1>1
  <1> DEFINE v == PortWord(p.port[1])
  <1>3. v \in DOMAIN Numbers /\ Numbers[v] = Numbers[w]
    BY <1>2 DEF PortWord
  <1> HIDE DEF v
  <1>4. PortPart(<<":", v>>, p.port)
    BY <1>1, <1>3 DEF PortPart
  <1>5. Shown(p.port, p)
    BY <1>2 DEF Shown, NoPort
  <1>6. PortPart(<<>>, NoPort)
    BY DEF PortPart
  <1>7. ASSUME ~ShowsPort(p) PROVE p.port = <<default_port_for(p.schema)>>
    <2>1. CASE p.schema = <<>>
      <3>1. p.port[1] = 0
        BY <1>7, <2>1 DEF ShowsPort
      <3>2. default_port_for(p.schema) = 0
        BY <2>1 DEF default_port_for, IsKnown
      <3> QED
        BY <1>1, <1>2, <3>1, <3>2
    <2>2. CASE p.schema # <<>>
      <3>1. default_port_for(p.schema) = p.port[1]
        BY <1>7, <2>2 DEF ShowsPort, default_port_for
      <3> QED
        BY <1>1, <1>2, <3>1
    <2> QED
      BY <2>1, <2>2
  <1> QED
    BY <1>4, <1>5, <1>6, <1>7 DEF Shown, v

\* The two ways in which a URI is written out.
LEMMA OriginComesBack ==
    ASSUME NEW p, Originates(p)
    PROVE  LET o == get_origin(p) IN IsTokens(o) /\ Tokenized(o) /\ SameOrigin(parse(o), p)
  <1> DEFINE s == p.schema
             l == get_host_literal(p)
             y == IF ShowsPort(p) THEN <<":", PortWord(p.port[1])>> ELSE <<>>
             port == IF ShowsPort(p) THEN p.port ELSE NoPort
             a == l \o y
             o == get_origin(p)
  <1>1. PortPart(y, port) /\ Shown(port, p)
    BY PortIsShown
  <1>2. o = ((IF s = <<>> THEN <<>> ELSE s \o <<"://">>) \o l) \o y
    BY DEF get_origin
  <1> HIDE DEF y, port, l, o
  <1>3. IsTokens(l) /\ IsTokens(y) /\ WrittenAs(a, p, port)
    BY <1>1, AuthorityIsRead DEF l
  <1>4. o = IF s = <<>> THEN a ELSE (s \o <<"://">>) \o a
    <2>1. CASE s = <<>>
      <3>1. <<>> \o l = l
        BY <1>3, JoinedToNothing
      <3> QED
        BY <1>2, <2>1, <3>1
    <2>2. CASE s # <<>>
      <3> DEFINE x == s \o <<"://">>
      <3>1. IsTokens(s) /\ IsTokens(<<"://">>)
        BY OneToken DEF Originates, Token, Delimiters
      <3>2. IsTokens(x)
        BY <3>1, TokensJoined DEF JoinedOf
      <3>3. o = (x \o l) \o y
        BY <1>2, <2>2
      <3> HIDE DEF x
      <3>4. x \o (l \o y) = (x \o l) \o y
        BY <1>3, <3>2, TokensAssociate
      <3> QED
        BY <2>2, <3>3, <3>4 DEF x
    <2> QED
      BY <2>1, <2>2
  <1> HIDE DEF a
  <1>5. IsTokens(o) /\ Tokenized(o) /\ SameOrigin(parse(o), p)
    BY <1>1, <1>3, <1>4, WrittenIsRead
  <1> QED
    BY <1>5 DEF o

LEMMA BaseUrlComesBack ==
    ASSUME NEW p, Originates(p), p.schema # <<>>, ~p.is_ipv6
    PROVE  LET o == build_base_url(p) IN IsTokens(o) /\ Tokenized(o) /\ SameOrigin(parse(o), p)
  <1> DEFINE s == p.schema
             h == p.host
             y == <<":", PortWord(p.port[1])>>
             a == h \o y
             x == s \o <<"://">>
             o == build_base_url(p)
  <1>1. PortPart(y, p.port) /\ Shown(p.port, p)
    BY PortIsShown
  <1>2. o = (x \o h) \o y
    BY DEF build_base_url
  <1>3. get_host_literal(p) = h
    BY DEF get_host_literal
  <1> HIDE DEF y, o
  <1>4. IsTokens(h) /\ IsTokens(y) /\ WrittenAs(a, p, p.port)
    BY <1>1, <1>3, AuthorityIsRead
  <1>5. IsTokens(s) /\ IsTokens(<<"://">>)
    BY OneToken DEF Originates, Token, Delimiters
  <1>6. IsTokens(x)
    BY <1>5, TokensJoined DEF JoinedOf
  <1>7. o = x \o a
    <2> HIDE DEF x, h
    <2>1. x \o (h \o y) = (x \o h) \o y
      BY <1>4, <1>6, TokensAssociate
    <2> QED
      BY <1>2, <2>1
  <1> HIDE DEF a
  <1>8. o = IF s = <<>> THEN a ELSE (s \o <<"://">>) \o a
    BY <1>7
  <1>9. IsTokens(o) /\ Tokenized(o) /\ SameOrigin(parse(o), p)
    BY <1>1, <1>4, <1>8, WrittenIsRead
  <1> QED
    BY <1>9 DEF o

\* A URI that is written out, and read, has one "://" behind its scheme.
UriInv == IsTokens(uri) /\ Tokenized(uri)

LEMMA UriInitial == NetworkInit => UriInv
  <1> SUFFICES ASSUME NetworkInit PROVE UriInv
    OBVIOUS
  <1>1. uri \in Uris \/ uri = <<>>
    BY DEF NetworkInit
  <1>2. CASE uri \in Uris
    <2>1. ASSUME NEW S, NEW T, NEW s \in Seq(S), S \subseteq T PROVE s \in Seq(T)
      BY <2>1
    <2>2. uri \in Seq(STRING) /\ Tokenized(uri)
      BY <1>2, UriAssumption
    <2>3. STRING \subseteq Token
      BY DEF Token
    <2>4. uri \in Seq(Token)
      BY <2>1, <2>2, <2>3
    <2> QED
      BY <2>2, <2>4 DEF UriInv, IsTokens
  <1>3. CASE uri = <<>>
    <2>1. IsTokens(<<>>) /\ Len(<<>>) = 0
      BY DEF IsTokens
    <2>2. Places(<<>>, "://") = {}
      BY DEF Places
    <2> QED
      BY <1>3, <2>1, <2>2 DEF UriInv, Tokenized
  <1> QED
    BY <1>1, <1>2, <1>3

LEMMA UriStep ==
    UriInv /\ [NetworkNext]_networkVars => UriInv' /\ (uri' = uri \/ SameOrigin(parse(uri'), parse(uri)))
  <1> SUFFICES ASSUME UriInv, [NetworkNext]_networkVars
               PROVE  UriInv' /\ (uri' = uri \/ SameOrigin(parse(uri'), parse(uri)))
    OBVIOUS
  <1>1. Reopen \/ uri' = uri
    BY DEF NetworkNext, exchange, exchange_fails, parse_untrusted, parse_own, classic_query, classic_tick,
           classic_world, socket_step, socket_world, mdns_step, mdns_world, reopen, Only, networkVars
  <1>2. CASE Reopen
    <2> DEFINE p == parse(uri)
    <2>1. PICK u, o : u = uri /\ o = uri'
      OBVIOUS
    <2>2. Originates(p)
      <3>1. IsTokens(u) /\ Tokenized(u) /\ HasOrigin(u)
        BY <1>2, <2>1 DEF UriInv, Reopen
      <3>2. Originates(parse(u))
        BY <3>1, OriginIsFound
      <3> QED
        BY <2>1, <3>2
    <2>3. o = get_origin(p) \/ (p.schema # <<>> /\ ~p.is_ipv6 /\ o = build_base_url(p))
      BY <1>2, <2>1 DEF Reopen
    <2> HIDE DEF p
    <2>4. PICK q : q = p
      OBVIOUS
    <2>5. IsTokens(o) /\ Tokenized(o) /\ SameOrigin(parse(o), q)
      BY <2>2, <2>3, <2>4, OriginComesBack, BaseUrlComesBack
    <2> QED
      BY <2>1, <2>4, <2>5 DEF UriInv, p
  <1>3. CASE uri' = uri
    BY <1>3 DEF UriInv
  <1> QED
    BY <1>1, <1>2, <1>3

\* The scheme, the host, the port and the kind of address of a URI are the same
\* when it is written out, by get_origin or for the HTTP client, and parsed
\* again: for every URI, every default port and every table of numbers,
\* lower-case forms and IPv6 addresses.
THEOREM OriginsComeBack == NetworkSpec => OriginIsStable
  <1>1. UriInv /\ [NetworkNext]_networkVars => UriInv'
    BY UriStep
  <1>2. UriInv /\ [NetworkNext]_networkVars
            => [LET p == parse(uri)
                    q == parse(uri')
                IN  <<q.schema, q.host, q.port, q.is_ipv6>> = <<p.schema, p.host, p.port, p.is_ipv6>>]_uri
    BY UriStep DEF SameOrigin
  <1> QED
    BY <1>1, <1>2, UriInitial, PTL DEF NetworkSpec, OriginIsStable
=============================================================================
