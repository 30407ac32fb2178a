-------------------------------- MODULE Socket --------------------------------
(***************************************************************************)
(* The wrapper around POSIX sockets (src/network/socket.cpp): objects that *)
(* own a descriptor, may be moved and closed, connect with a timeout, and  *)
(* send and receive.  Descriptors are small numbers that the kernel reuses *)
(* at once for whichever thread asks next, so that a descriptor used after *)
(* it was closed is somebody else's.  A call that fails with EINTR is made *)
(* again, which changes nothing.                                           *)
(***************************************************************************)
EXTENDS Integers, Sequences

CONSTANTS Sockets,  \* Socket objects of this thread
          Fds,      \* bound: descriptor numbers
          Length,   \* bound: bytes that a send or recv_exact is asked for
          MaxCalls  \* bound: calls that are made

Closed == -1

VARIABLES
    fd,           \* fd_ of each object
    stream,       \* type_ == SOCK_STREAM
    owner,        \* of each descriptor: "free", "other", or the object it was made for
    nonblocking,  \* descriptors with O_NONBLOCK set
    call,         \* the call being made, or the last one, with its result
    moved,        \* positions that the call's bytes were taken from, or put to
    calls         \* calls made so far

socketVars == <<fd, stream, owner, nonblocking, call, moved, calls>>

NoCall == [op |-> "none", sock |-> Closed, step |-> "return", result |-> "none", used |-> Closed,
           orig_flags |-> {}]

SocketInit ==
    /\ fd = [s \in Sockets |-> Closed]
    /\ stream = [s \in Sockets |-> FALSE]
    /\ owner = [f \in Fds |-> "free"]
    /\ nonblocking = {}
    /\ call = NoCall
    /\ moved = <<>>
    /\ calls = 0

Idle == call.step = "return"

\* A call begins; used is the descriptor that it hands to the kernel, and
\* orig_flags says whether O_NONBLOCK is set on it.
Begin(op, s, step) ==
    /\ Idle
    /\ calls < MaxCalls
    /\ calls' = calls + 1
    /\ call' = [op |-> op, sock |-> s, step |-> step, result |-> "none", used |-> fd[s],
                orig_flags |-> nonblocking \cap {fd[s]}]
    /\ moved' = <<>>

Goto(step) ==
    /\ call' = [call EXCEPT !.step = step]
    /\ UNCHANGED <<fd, stream, owner, nonblocking, moved, calls>>

Finish(result) ==
    /\ call' = [call EXCEPT !.step = "return", !.result = result]
    /\ UNCHANGED <<fd, stream, owner, moved, calls>>

-----------------------------------------------------------------------------
(* Other threads: they open and close descriptors of their own at any time. *)

OtherOpens ==
    \E f \in Fds :
        /\ owner[f] = "free"
        /\ owner' = [owner EXCEPT ![f] = "other"]
        /\ nonblocking' = nonblocking \ {f}
        /\ UNCHANGED <<fd, stream, call, moved, calls>>

OtherCloses ==
    \E f \in Fds :
        /\ owner[f] = "other"
        /\ owner' = [owner EXCEPT ![f] = "free"]
        /\ UNCHANGED <<fd, stream, nonblocking, call, moved, calls>>

-----------------------------------------------------------------------------
(* Construction, close and move *)

\* Socket(domain, type): a blocking descriptor, or SocketException.
Construct(s) ==
    /\ fd[s] = Closed
    /\ Begin("construct", s, "return")
    /\ \/ \E f \in Fds, is_stream \in BOOLEAN :
              /\ owner[f] = "free"
              /\ fd' = [fd EXCEPT ![s] = f]
              /\ stream' = [stream EXCEPT ![s] = is_stream]
              /\ owner' = [owner EXCEPT ![f] = "ours"]
              /\ nonblocking' = nonblocking \ {f}
       \/ UNCHANGED <<fd, stream, owner, nonblocking>>

Released(s) == IF fd[s] = Closed THEN owner ELSE [owner EXCEPT ![fd[s]] = "free"]

\* Mutant: the closed object keeps its descriptor's number.
FdAfterCloseKept(s) == fd

\* fd_ = -1 before ::close.
FdAfterClose(s) == [fd EXCEPT ![s] = Closed]

close(s) ==
    /\ Begin("close", s, "return")
    /\ fd' = FdAfterClose(s)
    /\ owner' = Released(s)
    /\ UNCHANGED <<stream, nonblocking>>

\* Move assignment closes the target and leaves the source closed.
Move(s, t) ==
    /\ s # t
    /\ Begin("move", t, "return")
    /\ fd' = [fd EXCEPT ![t] = fd[s], ![s] = Closed]
    /\ stream' = [stream EXCEPT ![t] = stream[s], ![s] = FALSE]
    /\ owner' = Released(t)
    /\ UNCHANGED nonblocking

-----------------------------------------------------------------------------
(* connect *)

to_connect_error(errno) ==
    CASE errno = "ETIMEDOUT" -> "TIMED_OUT"
      [] errno = "ECONNREFUSED" -> "REFUSED"
      [] errno \in {"ENETUNREACH", "EHOSTUNREACH"} -> "UNREACHABLE"
      [] errno = "ECANCELED" -> "CANCELLED"
      [] OTHER -> "INTERNAL"

Errnos == {"ETIMEDOUT", "ECONNREFUSED", "ENETUNREACH", "EHOSTUNREACH", "EBADF"}

\* With a negative timeout the call blocks; otherwise O_NONBLOCK is set first.
\* fcntl and connect fail on a closed object.
ConnectBegins(s) ==
    /\ \/ /\ Begin("connect", s, "blocking")
          /\ UNCHANGED nonblocking
       \/ /\ fd[s] # Closed
          /\ Begin("connect", s, "started")
          /\ nonblocking' = nonblocking \cup {fd[s]}
       \/ /\ Begin("connect", s, "fcntl_failed")
          /\ UNCHANGED nonblocking
    /\ UNCHANGED <<fd, stream, owner>>

FcntlFailed ==
    /\ call.step = "fcntl_failed"
    /\ Finish("INTERNAL")
    /\ UNCHANGED nonblocking

ConnectBlocking ==
    /\ call.step = "blocking"
    /\ \/ call.used # Closed /\ Finish("ok")
       \/ \E e \in Errnos : Finish(to_connect_error(e))
    /\ UNCHANGED nonblocking

\* fcntl(fd_, F_SETFL, saved_flags_)
SavedFlags == (nonblocking \ {call.used}) \cup call.orig_flags

\* ~FcntlGuard: the flags come back unless fcntl fails, which nobody notices.
GuardUnwinds(result) ==
    /\ Finish(result)
    /\ nonblocking' \in {nonblocking, SavedFlags}

\* Mutant: the flags are left as they are.
RestoreForgotten == Finish("ok") /\ UNCHANGED nonblocking

\* guard.restore() on success: a failure is reported.
Restore ==
    \/ Finish("ok") /\ nonblocking' = SavedFlags
    \/ Finish("INTERNAL") /\ UNCHANGED nonblocking

\* ::connect succeeds at once, is in progress, or fails.
ConnectStarted ==
    /\ call.step = "started"
    /\ \/ Restore
       \/ Goto("poll")
       \/ \E e \in Errnos : GuardUnwinds(to_connect_error(e))

\* poll reports the outcome (SO_ERROR), times out or fails.
ConnectPolled ==
    /\ call.step = "poll"
    /\ \/ Restore
       \/ \E e \in Errnos : GuardUnwinds(to_connect_error(e))
       \/ GuardUnwinds("TIMED_OUT")

-----------------------------------------------------------------------------
(* send, send_to and recv_exact *)

TransferBegins(s) ==
    /\ \E op \in {"send", "recv_exact"} :
          Begin(op, s, IF stream[s] THEN "stream" ELSE "datagram")
    /\ UNCHANGED <<fd, stream, owner, nonblocking>>

\* The next n bytes, at buf + total.
Piece(n) == [i \in 1 .. n |-> Len(moved) + i]

\* send_loop and recv_exact on a stream: short transfers are continued.
StreamPiece ==
    /\ call.step = "stream"
    /\ call.used # Closed
    /\ \E n \in 1 .. (Length - Len(moved)) :
          /\ moved' = moved \o Piece(n)
          /\ call' = IF Len(moved) + n = Length
                     THEN [call EXCEPT !.step = "return", !.result = "all"] ELSE call
    /\ UNCHANGED <<fd, stream, owner, nonblocking, calls>>

\* recv returns 0: what has been read so far is the result.
StreamEnds ==
    /\ call.step = "stream"
    /\ call.op = "recv_exact"
    /\ call.used # Closed
    /\ Finish("short")
    /\ UNCHANGED nonblocking

\* A datagram goes in one call, whole when sent, of any size when received.
Datagram ==
    /\ call.step = "datagram"
    /\ call.used # Closed
    /\ \E n \in 0 .. Length :
          /\ call.op = "send" => n = Length
          /\ moved' = Piece(n)
          /\ call' = [call EXCEPT !.step = "return", !.result = IF n = Length THEN "all" ELSE "short"]
    /\ UNCHANGED <<fd, stream, owner, nonblocking, calls>>

TransferFails ==
    /\ call.step \in {"stream", "datagram"}
    /\ Finish("error")
    /\ UNCHANGED nonblocking

-----------------------------------------------------------------------------
SocketStep ==
    \/ ConnectBlocking \/ FcntlFailed \/ ConnectStarted \/ ConnectPolled
    \/ StreamPiece \/ StreamEnds \/ Datagram \/ TransferFails

SocketCalls ==
    \/ \E s \in Sockets : Construct(s) \/ close(s) \/ ConnectBegins(s) \/ TransferBegins(s)
    \/ \E s, t \in Sockets : Move(s, t)

SocketWorld == OtherOpens \/ OtherCloses

-----------------------------------------------------------------------------
(***************************************************************************)
(* An object never hands the kernel a descriptor of another thread's, and  *)
(* two objects never share one: close() forgets the number before the      *)
(* kernel can give it away, and a move leaves nothing behind.  Nor is a    *)
(* descriptor lost: each one that the thread has opened is some object's.  *)
(***************************************************************************)
DescriptorsAreOwn ==
    /\ \A s \in Sockets : fd[s] # Closed => owner[fd[s]] = "ours"
    /\ \A s, t \in Sockets : s # t /\ fd[s] # Closed => fd[s] # fd[t]
    /\ \A f \in Fds : owner[f] = "ours" => \E s \in Sockets : fd[s] = f

\* A call that reports success did all of its work: connect has put back the
\* mode it found, the blocking one that send and recv_exact rely on unless an
\* earlier connect failed and so did its unwinding, and a transfer has moved
\* every byte once and in order, however the kernel cut it into pieces.
SuccessIsWhole ==
    Idle =>
        /\ call.op = "connect" /\ call.result = "ok" => nonblocking \cap {call.used} = call.orig_flags
        /\ call.result = "all" => moved = [i \in 1 .. Length |-> i]
=============================================================================
