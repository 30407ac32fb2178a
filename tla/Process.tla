------------------------------- MODULE Process -------------------------------
(***************************************************************************)
(* The whole process: main() of SignalWatcher with its set-up in detail -  *)
(* the construction of the Manager, the loading of the drivers and the     *)
(* validation of the configuration - and with the destruction of the       *)
(* Manager, on the way out or while an exception unwinds main().           *)
(***************************************************************************)
EXTENDS SignalWatcher, DriverManager, ConfigValidator

CONSTANT Configs  \* what the configuration file may hold

\* The libraries of a configuration are among Libraries, whether or not they are
\* on disk, and the text of an IP address has no schema.
ASSUME ConfigAssumption ==
    \A c \in Configs :
        /\ load_order(c) \subseteq Seq([library : Libraries, path : {"relative", "absolute"}])
        /\ \A s \in c.servers \cup c.address : s.is_ip => s.schema = ""

VARIABLES
    config,   \* the parsed file
    manager   \* "none", "made", or "refused" after its constructor threw

signalVars  == vars
managerVars == <<config, manager, driverVars>>
processVars == <<signalVars, managerVars>>

ProcessInit ==
    /\ Init
    /\ DriverInit
    /\ config \in Configs
    /\ manager = "none"

\* Manager's constructor makes the resolvers before anything is validated.
MakeManager ==
    /\ main = "setup"
    /\ manager = "none"
    /\ IF create(config)
       THEN manager' = "made" /\ UNCHANGED signalVars
       ELSE manager' = "refused" /\ SetUp /\ main' = "destroy"
    /\ UNCHANGED <<config, driverVars>>

LoadDrivers ==
    /\ main = "setup"
    /\ manager = "made"
    /\ Load(config) \/ load_driver(config) \/ LoadReturns
    /\ UNCHANGED <<signalVars, config, manager>>

LoadDriversThrows ==
    /\ loader = "failed"
    /\ module = NoModule
    /\ SetUp
    /\ main' = "destroy"
    /\ UNCHANGED managerVars

\* validate_config; the enumeration of the interfaces, there and at the head
\* of run(), may throw too.
ValidateConfig ==
    /\ loader = "loaded"
    /\ SetUp
    /\ main' = "run" => validate(config, loaded_drivers)
    /\ UNCHANGED managerVars

\* ~Manager: driver_manager_ is the last member but one to go.
DestroyManager ==
    /\ main = "destroy"
    /\ (\E n \in Names : Unload(n)) \/ Destroy \/ Close
    /\ UNCHANGED <<signalVars, config, manager>>

\* ~SignalWatcher follows.
DestroyWatcher ==
    /\ Unloaded
    /\ DestroyRequest
    /\ UNCHANGED managerVars

main_thread ==
    \/ MakeManager \/ LoadDrivers \/ LoadDriversThrows \/ ValidateConfig
    \/ DestroyManager \/ DestroyWatcher
    \/ (LoadConfig \/ RunEnds \/ DestroyWake \/ Join) /\ UNCHANGED managerVars

ProcessNext ==
    \/ main_thread
    \/ signal_loop /\ UNCHANGED managerVars
    \/ (\E s \in Signals : UserSends(s)) /\ UNCHANGED managerVars

ProcessSpec == ProcessInit /\ [][ProcessNext]_processVars

(***************************************************************************)
(* Both threads are scheduled, and the user need not do anything.  That    *)
(* run() returns once it has been asked to is what Manager's RunReturns    *)
(* shows of a configuration with tasks; without a domain, which validate   *)
(* accepts, it may sleep on, and nothing is assumed of it.  validate sees  *)
(* to it that a domain has subdomains, that is tasks.                      *)
(***************************************************************************)
HasTasks == config.domains # {}

FairProcessSpec ==
    /\ ProcessSpec
    /\ WF_processVars(main_thread /\ (main = "run" => HasTasks))
    /\ WF_processVars(signal_loop /\ UNCHANGED managerVars)

-----------------------------------------------------------------------------
\* When run() starts, the configuration is what the scheduler and the updater
\* take for granted: every task has a sound driver of its domain's name, the
\* intervals are natural numbers that ScheduleAssumption allows, whatever
\* signs they were given, and an interface that is named exists.
RunsAsAssumed ==
    main = "run" =>
        \A d \in config.domains :
            /\ driver_map[d.driver] # None
            /\ Faults[driver_map[d.driver]] = {}
            /\ d.update_interval >= MinUpdateInterval
            /\ d.force_update = 0 \/ d.force_update >= d.update_interval
            /\ \A s \in d.subdomains :
                  /\ s.update_interval = 0 \/ s.update_interval >= MinUpdateInterval
                  /\ s.interface \in Interfaces \cup {""}
                  /\ s.ip_source = "INTERFACE" => s.interface \in Interfaces

\* No driver outlives the code of its library, see DriverManager, and all are
\* unloaded before the watcher goes, on every way out of main(): no driver
\* object is left and no library stays open, whichever step of the start-up
\* threw.
DriversGoInOrder ==
    /\ DriverCodeMapped
    /\ main \in {"wake", "join", "exit"} =>
          \A l \in Libraries : drivers[l] = 0 /\ handles[l] = 0

\* A signal, at any moment of the start-up, the run or the shutdown, ends a
\* process with something to do, and a failed start-up ends every process: the
\* join of the destructor never hangs in sigwait().  A process without tasks may
\* miss its signal, see RunReturns of Manager.
ProcessEnds ==
    (main = "destroy" \/ (HasTasks /\ \E s \in Signals : sent[s] > 0)) ~> Ended

\* "yaddnsc config test", which validates without constructing a Manager, can
\* be trusted: what it accepts the constructor does not refuse.
TestedConfigStarts ==
    manager = "refused" => ~validate(config, Names)
=============================================================================
