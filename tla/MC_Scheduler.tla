---------------------------- MODULE MC_Scheduler ----------------------------
(***************************************************************************)
(* Two tasks: one with the interval of its domain and a force interval     *)
(* that is no multiple of it, one with an interval of its own and no       *)
(* forced updates.                                                         *)
(***************************************************************************)
EXTENDS Scheduler

MCTasks          == {"www", "mail"}
MCDomainInterval == [t \in MCTasks |-> 2]
MCSubInterval    == [t \in MCTasks |-> IF t = "www" THEN 0 ELSE 3]
MCForceUpdate    == [t \in MCTasks |-> IF t = "www" THEN 5 ELSE 0]
=============================================================================
