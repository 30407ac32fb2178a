---------------------------- MODULE SignalWatcher ----------------------------
(***************************************************************************)
(* The life of the daemon process, from SignalWatcher::install() in main() *)
(* to its end: the main thread, the thread of SignalWatcher::signal_loop,  *)
(* and a user who sends SIGINT and SIGTERM at any moment.  Both signals    *)
(* are blocked, so that a signal stays pending until sigwait() takes it,   *)
(* and a second one of the same kind merges with a pending one.            *)
(***************************************************************************)
EXTENDS Integers, FiniteSets

CONSTANT MaxSends  \* bound: how often the user sends each signal

ASSUME SendsAssumption == MaxSends \in Nat

Signals == {"SIGINT", "SIGTERM"}

VARIABLES
    main,          \* where main() is; "exit" and "killed" end the process
    watcher,       \* where signal_loop is, "none" before the thread exists
    pending,       \* signals pending for the process
    sig,           \* what sigwait() returned last
    sigint_count,
    st,            \* the stop_token of signal_thread_ is requested
    stop,          \* stop_source_ is requested
    sent           \* how often the user sent each signal

watcherVars == <<watcher, sig, sigint_count>>
vars == <<main, watcherVars, pending, st, stop, sent>>

Init ==
    /\ main = "load_config"
    /\ watcher = "none"
    /\ pending = {}
    /\ sig = "SIGINT"
    /\ sigint_count = 0
    /\ st = FALSE
    /\ stop = FALSE
    /\ sent = [s \in Signals |-> 0]

Ended == main \in {"exit", "killed"}

UserSends(s) ==
    /\ ~Ended
    /\ sent[s] < MaxSends
    /\ sent' = [sent EXCEPT ![s] = @ + 1]
    /\ pending' = pending \cup {s}
    /\ UNCHANGED <<main, watcherVars, st, stop>>

-----------------------------------------------------------------------------
(* main() *)

\* Config::load_config returns and the watcher is constructed, or it throws.
LoadConfig ==
    /\ main = "load_config"
    /\ \/ main' = "setup" /\ watcher' = "loop"
       \/ main' = "exit" /\ UNCHANGED watcher
    /\ UNCHANGED <<sig, sigint_count, pending, st, stop, sent>>

\* Manager's constructor, load_drivers and validate_config: run() follows, or
\* an exception unwinds the scope and destroys the watcher.
SetUp ==
    /\ main = "setup"
    /\ main' \in {"run", "destroy"}
    /\ UNCHANGED <<watcherVars, pending, st, stop, sent>>

\* Manager::run returns after stop has been requested.
RunEnds ==
    /\ main = "run"
    /\ stop
    /\ main' = "destroy"
    /\ UNCHANGED <<watcherVars, pending, st, stop, sent>>

\* Mutant: the watcher is woken up without having been told to stop.
DestroyRequestForgotten ==
    /\ main = "destroy"
    /\ main' = "wake"
    /\ UNCHANGED <<watcherVars, pending, st, stop, sent>>

\* ~SignalWatcher: signal_thread_.request_stop(), ...
DestroyRequest ==
    /\ main = "destroy"
    /\ st' = TRUE
    /\ main' = "wake"
    /\ UNCHANGED <<watcherVars, pending, stop, sent>>

\* Mutant: the watcher is not woken up.
DestroyWakeForgotten ==
    /\ main = "wake"
    /\ main' = "join"
    /\ UNCHANGED <<watcherVars, pending, st, stop, sent>>

\* ... kill(getpid(), SIGINT), ...
DestroyWake ==
    /\ main = "wake"
    /\ pending' = pending \cup {"SIGINT"}
    /\ main' = "join"
    /\ UNCHANGED <<watcherVars, st, stop, sent>>

\* ... and ~jthread joins; main() returns.
Join ==
    /\ main = "join"
    /\ watcher = "end"
    /\ main' = "exit"
    /\ UNCHANGED <<watcherVars, pending, st, stop, sent>>

-----------------------------------------------------------------------------
(* SignalWatcher::signal_loop *)

\* while (!st.stop_requested())
LoopHead ==
    /\ ~Ended
    /\ watcher = "loop"
    /\ watcher' = IF st THEN "end" ELSE "sigwait"
    /\ UNCHANGED <<main, sig, sigint_count, pending, st, stop, sent>>

\* sigwait() takes one of the pending signals.
Sigwait ==
    /\ ~Ended
    /\ watcher = "sigwait"
    /\ \E s \in pending :
          /\ sig' = s
          /\ pending' = pending \ {s}
    /\ watcher' = "woken"
    /\ UNCHANGED <<main, sigint_count, st, stop, sent>>

\* if (st.stop_requested()) break;
CheckStop ==
    /\ ~Ended
    /\ watcher = "woken"
    /\ watcher' = IF st THEN "end" ELSE "handle"
    /\ UNCHANGED <<main, sig, sigint_count, pending, st, stop, sent>>

\* The first SIGINT requests the stop, the second sends SIGTERM, the third
\* SIGKILL.
HandleSigint ==
    /\ ~Ended
    /\ watcher = "handle"
    /\ sig = "SIGINT"
    /\ sigint_count' = sigint_count + 1
    /\ watcher' = "loop"
    /\ \/ sigint_count = 0 /\ stop' = TRUE /\ UNCHANGED <<main, pending>>
       \/ sigint_count = 1 /\ pending' = pending \cup {"SIGTERM"} /\ UNCHANGED <<main, stop>>
       \/ sigint_count >= 2 /\ main' = "killed" /\ UNCHANGED <<pending, stop>>
    /\ UNCHANGED <<sig, st, sent>>

\* A SIGTERM requests the stop unless a SIGINT already did.
HandleSigterm ==
    /\ ~Ended
    /\ watcher = "handle"
    /\ sig = "SIGTERM"
    /\ stop' = (stop \/ sigint_count = 0)
    /\ watcher' = "loop"
    /\ UNCHANGED <<main, sig, sigint_count, pending, st, sent>>

-----------------------------------------------------------------------------
Main == LoadConfig \/ SetUp \/ RunEnds \/ DestroyRequest \/ DestroyWake \/ Join

signal_loop == LoopHead \/ Sigwait \/ CheckStop \/ HandleSigint \/ HandleSigterm

Next == Main \/ signal_loop \/ \E s \in Signals : UserSends(s)

Spec == Init /\ [][Next]_vars

-----------------------------------------------------------------------------
\* The process kills itself only after the user has sent three SIGINTs: the
\* SIGINT that the destructor sends as a wake-up is never counted, whichever
\* signals are on their way when the watcher is destroyed.
KillNeedsThree == main = "killed" => sent["SIGINT"] >= 3
=============================================================================
