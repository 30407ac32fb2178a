------------------------------- MODULE Updates -------------------------------
(***************************************************************************)
(* The updates of one task, and the cache of interfaces that the tasks of  *)
(* several threads share.  A behaviour is of the one or of the other:      *)
(* Updater takes from the cache only that a value is at most one TTL old.  *)
(***************************************************************************)
EXTENDS TtlCache, Updater

VARIABLE part  \* "cache" or "updater"

updatesVars == <<part, vars, updaterVars>>

UpdatesInit ==
    /\ Init
    /\ \/ part = "updater" /\ UpdaterInit(Tasks)
       \/ /\ part = "cache"
          /\ UpdaterInit({CHOOSE t \in Tasks : TRUE})
          /\ ifaddrs = CHOOSE i \in IfAddrs : TRUE

Update(A) == part = "updater" /\ A /\ UNCHANGED <<part, vars>>

Cache(A) == part = "cache" /\ A /\ UNCHANGED <<part, updaterVars>>

UpdatesNext == Cache(Next) \/ Update(UpdaterNext)

UpdatesSpec == UpdatesInit /\ [][UpdatesNext]_updatesVars

\* Calls of the cache go on, rounds begin and end, the cache expires, and a
\* provider that is free to accept a request does so in the end: of its
\* refusals only a bounded number is without a reason.
FairUpdatesSpec ==
    /\ UpdatesSpec
    /\ \A t \in Threads : WF_updatesVars(Cache(get_or_compute(t)))
    /\ WF_updatesVars(Update(Begin))
    /\ WF_updatesVars(Update(process))
    /\ WF_updatesVars(Update(Expire))
=============================================================================
