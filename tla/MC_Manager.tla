----------------------------- MODULE MC_Manager -----------------------------
(***************************************************************************)
(* One AAAA record whose interface has a link-local, a unique-local and a  *)
(* global address, or another global one; every second update is forced.   *)
(* Two pool threads, so that two updates of the record can overlap, and a  *)
(* task whose driver is not loaded.                                        *)
(***************************************************************************)
EXTENDS Manager

MCTasks == {"www", "orphan"}  \* "orphan" names a driver that is not loaded

EveryTick  == [t \in Tasks |-> 1]
Never      == [t \in Tasks |-> 0]
SecondTick == [t \in Tasks |-> IF t = "www" THEN 2 ELSE 0]
AllAAAA    == [t \in Tasks |-> "AAAA"]

LinkLocal == [class |-> "link_local", id |-> 1]
Ula       == [class |-> "ula", id |-> 2]
Global(n) == [class |-> "global", id |-> n]

\* Two addresses that replace each other.
TwoAddresses == {<<LinkLocal, Ula, Global(3)>>, <<Global(4)>>}
=============================================================================
