---------------------------- MODULE ProcessProofs ----------------------------
(***************************************************************************)
(* Proofs about the whole process, for any configurations, libraries and   *)
(* signals: it behaves as SignalWatcher says, only the third SIGINT of the *)
(* user kills it, no driver outlives its code, and run() starts on a       *)
(* configuration that is what the program assumes.                         *)
(***************************************************************************)
EXTENDS Process, TLAPS

-----------------------------------------------------------------------------
(* The signals *)

\* Every step of the process is one of SignalWatcher or leaves it alone: the
\* set-up and the destruction of the Manager only refine main().
LEMMA StepIsSignalStep == [ProcessNext]_processVars => [Next]_signalVars
  <1> SUFFICES ASSUME [ProcessNext]_processVars PROVE [Next]_signalVars
    OBVIOUS
  <1> USE DEF signalVars, Next, Main
  <1>1. CASE main_thread
    BY <1>1 DEF main_thread, MakeManager, LoadDrivers, LoadDriversThrows, ValidateConfig,
                DestroyManager, DestroyWatcher
  <1>2. CASE signal_loop
    BY <1>2
  <1>3. CASE \E s \in Signals : UserSends(s)
    BY <1>3
  <1>4. CASE UNCHANGED processVars
    BY <1>4 DEF processVars
  <1> QED
    BY <1>1, <1>2, <1>3, <1>4 DEF ProcessNext

\* The process implements SignalWatcher.
THEOREM ImplementsSignalWatcher == ProcessSpec => Spec
  <1>1. ProcessInit => Init
    BY DEF ProcessInit
  <1> QED
    BY <1>1, StepIsSignalStep, PTL DEF ProcessSpec, Spec, signalVars

\* 1 if b, otherwise 0.
B(b) == IF b THEN 1 ELSE 0

\* SIGINTs that have been taken but not counted, and that are pending.
Taken   == B(watcher \in {"woken", "handle"} /\ sig = "SIGINT")
Handled == B(watcher = "handle" /\ sig = "SIGINT")
Waiting == B("SIGINT" \in pending)

SignalType ==
    /\ main \in {"load_config", "setup", "run", "destroy", "wake", "join", "exit", "killed"}
    /\ watcher \in {"none", "loop", "sigwait", "woken", "handle", "end"}
    /\ pending \subseteq Signals
    /\ sig \in Signals
    /\ sigint_count \in Nat
    /\ st \in BOOLEAN
    /\ stop \in BOOLEAN
    /\ sent \in [Signals -> Nat]

\* Until the destructor sends its own, every SIGINT that is pending, taken or
\* counted is one of the user's; from then on every one that is handled.
SigintsAreSent ==
    /\ main \in {"load_config", "setup", "run", "destroy", "wake"} =>
          sigint_count + Taken + Waiting <= sent["SIGINT"]
    /\ main # "killed" => sigint_count + Handled <= sent["SIGINT"]

SignalInv ==
    /\ SignalType
    /\ main \in {"wake", "join"} => st
    /\ SigintsAreSent
    /\ KillNeedsThree

LEMMA SignalInit == Init => SignalInv
  <1> SUFFICES ASSUME Init PROVE SignalInv
    OBVIOUS
  <1>1. SignalType /\ sent["SIGINT"] = 0
    BY DEF Init, SignalType, Signals
  <1>2. Taken = 0 /\ Handled = 0 /\ Waiting = 0
    BY DEF Init, Taken, Handled, Waiting, B
  <1>3. SigintsAreSent
    BY <1>1, <1>2 DEF Init, SigintsAreSent
  <1> QED
    BY <1>1, <1>3 DEF Init, SignalInv, KillNeedsThree

LEMMA SignalNext == SignalInv /\ [Next]_signalVars => SignalInv'
  <1> SUFFICES ASSUME SignalInv, [Next]_signalVars PROVE SignalInv'
    OBVIOUS
  <1> USE DEF SignalInv, SignalType, SigintsAreSent, KillNeedsThree, Signals, Taken, Handled,
              Waiting, B, watcherVars
  <1>1. CASE LoadConfig
    BY <1>1 DEF LoadConfig
  <1>2. CASE SetUp
    BY <1>2 DEF SetUp
  <1>3. CASE RunEnds
    BY <1>3 DEF RunEnds
  <1>4. CASE DestroyRequest
    BY <1>4 DEF DestroyRequest
  <1>5. CASE DestroyWake
    BY <1>5 DEF DestroyWake
  <1>6. CASE Join
    BY <1>6 DEF Join
  <1>7. CASE LoopHead
    BY <1>7 DEF LoopHead
  <1>8. CASE Sigwait
    BY <1>8 DEF Sigwait, Ended
  <1>9. CASE CheckStop
    BY <1>9 DEF CheckStop, Ended
  <1>10. CASE HandleSigint
    <2>1. main \notin {"exit", "killed"} /\ sigint_count + 1 <= sent["SIGINT"]
      BY <1>10 DEF HandleSigint, Ended
    <2>2. SignalType'
      <3>1. pending' \subseteq Signals
        BY <1>10 DEF HandleSigint
      <3>2. stop' \in BOOLEAN
        BY <1>10 DEF HandleSigint
      <3>3. UNCHANGED <<sig, st, sent>> /\ watcher' = "loop" /\ sigint_count' = sigint_count + 1
        BY <1>10 DEF HandleSigint
      <3>4. main' \in {main, "killed"}
        BY <1>10 DEF HandleSigint
      <3> QED
        BY <3>1, <3>2, <3>3, <3>4
    <2>3. Taken' = 0 /\ Handled' = 0 /\ Taken = 1
      BY <1>10 DEF HandleSigint
    <2>4. Waiting' = Waiting /\ Waiting \in Nat
      BY <1>10 DEF HandleSigint
    <2>5. sent' = sent /\ sigint_count' = sigint_count + 1 /\ st' = st
      BY <1>10 DEF HandleSigint
    <2>6. main' = main \/ (main' = "killed" /\ sigint_count >= 2)
      BY <1>10 DEF HandleSigint
    <2>7. SigintsAreSent'
      <3> HIDE DEF Taken, Handled, Waiting
      <3> QED
        BY <2>1, <2>2, <2>3, <2>4, <2>5, <2>6
    <2>8. KillNeedsThree' /\ (main \in {"wake", "join"} => st)'
      BY <2>1, <2>5, <2>6
    <2> QED
      BY <2>2, <2>7, <2>8
  <1>11. CASE HandleSigterm
    BY <1>11 DEF HandleSigterm
  <1>12. ASSUME NEW s \in Signals, UserSends(s) PROVE SignalInv'
    BY <1>12, SendsAssumption DEF UserSends
  <1>13. CASE UNCHANGED signalVars
    BY <1>13 DEF signalVars, vars
  <1> QED
    BY <1>1, <1>2, <1>3, <1>4, <1>5, <1>6, <1>7, <1>8, <1>9, <1>10, <1>11, <1>12, <1>13
       DEF Next, Main, signal_loop

\* The process kills itself only after the user has sent three SIGINTs,
\* however many of each signal the user sends.
THEOREM OnlyTheUserKills == ProcessSpec => []KillNeedsThree
  <1>1. SignalInv => KillNeedsThree
    BY DEF SignalInv
  <1> QED
    BY <1>1, SignalInit, SignalNext, ImplementsSignalWatcher, PTL DEF Spec, signalVars

-----------------------------------------------------------------------------
(* The drivers *)

Entries == [library : Libraries, path : {"relative", "absolute"}]
Stages  == {"opened", "verified", "created", "destroy", "close"}

DriverType ==
    /\ config \in Configs
    /\ todo \in Seq(Entries)
    /\ module \in {NoModule} \cup [library : Libraries, at : Stages]
    /\ driver_map \in [Names -> Libraries \cup {None}]
    /\ handles \in [Libraries -> Int]
    /\ drivers \in [Libraries -> Int]

\* What is registered is sound and under its own name.
RegisteredAreSound ==
    \A n \in Names :
        driver_map[n] # None => DriverName[driver_map[n]] = n /\ Faults[driver_map[n]] = {}

\* The module on the stack has passed the checks of the stages behind it.
ChecksPassed ==
    /\ module.at \in {"opened", "verified", "created"} =>
          Faults[module.library] \cap {"missing", "unloadable"} = {}
    /\ module.at \in {"verified", "created"} =>
          Faults[module.library] \cap {"magic", "compiler"} = {}
    /\ module.at = "created" => "symbols" \notin Faults[module.library]

\* Library l is open and its driver alive on behalf of the map, and of the module
\* on the stack: for each of the two, at most once.
InMap(l)   == B(driver_map[DriverName[l]] = l)
Opened(l)  == B(module.library = l)
Created(l) == B(module.library = l /\ module.at \in {"created", "destroy"})

Owned ==
    \A l \in Libraries :
        /\ handles[l] = InMap(l) + Opened(l)
        /\ drivers[l] = InMap(l) + Created(l)

ModulesInv == DriverType /\ RegisteredAreSound /\ ChecksPassed /\ Owned

DriverInv ==
    /\ ModulesInv
    /\ main \in {"load_config", "wake", "join", "exit"} => Unloaded
    /\ main = "run" => validate(config, loaded_drivers)
    /\ manager = "refused" => ~create(config)

LEMMA DriverInitial == ProcessInit => DriverInv
  <1> SUFFICES ASSUME ProcessInit PROVE DriverInv
    OBVIOUS
  <1>1. DriverType /\ module.at = "none" /\ module.library \notin Libraries
    BY LibraryAssumption DEF ProcessInit, DriverInit, DriverType, NoModule, Entries
  <1>2. RegisteredAreSound /\ Unloaded
    BY DEF ProcessInit, DriverInit, RegisteredAreSound, Unloaded, loaded_drivers
  <1>3. ChecksPassed
    BY <1>1 DEF ChecksPassed
  <1>4. Owned
    <2> SUFFICES ASSUME NEW l \in Libraries
                 PROVE  InMap(l) = 0 /\ Opened(l) = 0 /\ Created(l) = 0
      BY DEF ProcessInit, DriverInit, Owned
    <2> QED
      BY <1>1, LibraryAssumption DEF ProcessInit, DriverInit, InMap, Opened, Created, B, Names
  <1> QED
    BY <1>1, <1>2, <1>3, <1>4 DEF ProcessInit, Init, DriverInv, ModulesInv

\* Where the module on the stack is, its library is one on disk.
LEMMA ModuleOnDisk ==
    ASSUME DriverType
    PROVE  /\ module # NoModule => /\ module \in [library : Libraries, at : Stages]
                                   /\ module.library \in Libraries
                                   /\ DriverName[module.library] \in Names
           /\ module.at = "none" <=> module = NoModule
  BY DEF DriverType, NoModule, Stages, Names

LEMMA OpenHandleKeeps ==
    ASSUME ModulesInv, OpenHandle(config), config' = config PROVE ModulesInv'
  <1> DEFINE entry == Head(todo)
  <1>1. entry \in Entries /\ Tail(todo) \in Seq(Entries)
    BY DEF ModulesInv, DriverType, OpenHandle
  <1>2. CASE /\ exists(entry, config.driver_dir)
             /\ "unloadable" \notin Faults[entry.library]
    <2>1. /\ module' = [library |-> entry.library, at |-> "opened"]
          /\ module = NoModule
          /\ handles' = [handles EXCEPT ![entry.library] = @ + 1]
          /\ todo' = Tail(todo)
          /\ UNCHANGED <<driver_map, drivers>>
      BY <1>2 DEF OpenHandle
    <2>2. DriverType'
      BY <1>1, <2>1 DEF ModulesInv, DriverType, Entries, Stages
    <2>3. RegisteredAreSound'
      BY <2>1 DEF ModulesInv, RegisteredAreSound
    <2>4. ChecksPassed'
      BY <1>2, <2>1 DEF ChecksPassed, exists
    <2>5. Owned'
      <3> SUFFICES ASSUME NEW l \in Libraries
                   PROVE  (/\ handles[l] = InMap(l) + Opened(l)
                           /\ drivers[l] = InMap(l) + Created(l))'
        BY DEF Owned
      <3>1. handles[l] = InMap(l) + Opened(l) /\ drivers[l] = InMap(l) + Created(l)
        BY DEF ModulesInv, Owned
      <3>2. Opened(l) = 0 /\ Created(l) = 0 /\ Created(l)' = 0 /\ InMap(l)' = InMap(l)
        BY <2>1, LibraryAssumption DEF NoModule, Opened, Created, InMap, B
      <3>3. InMap(l) \in Nat
        BY DEF InMap, B
      <3>4. handles'[l] = handles[l] + Opened(l)'
        BY <1>1, <2>1 DEF ModulesInv, DriverType, Entries, Opened, B
      <3> QED
        BY <2>1, <3>1, <3>2, <3>3, <3>4
    <2> QED
      BY <2>2, <2>3, <2>4, <2>5 DEF ModulesInv
  <1>3. CASE ~(/\ exists(entry, config.driver_dir)
               /\ "unloadable" \notin Faults[entry.library])
    <2>1. UNCHANGED <<module, driver_map, handles, drivers>> /\ todo' = Tail(todo)
      BY <1>3 DEF OpenHandle
    <2> QED
      BY <1>1, <2>1 DEF ModulesInv, DriverType, RegisteredAreSound, ChecksPassed, Owned, InMap,
                        Opened, Created
  <1> QED
    BY <1>2, <1>3

\* A step of the constructor that neither opens nor creates anything.
LEMMA CheckKeeps ==
    ASSUME ModulesInv,
           NEW at \in Stages, module' = [module EXCEPT !.at = at],
           module # NoModule,
           at \in {"created", "destroy"} <=> module.at \in {"created", "destroy"},
           at = "verified" => module.at = "opened" /\ Faults[module.library] \cap {"magic", "compiler"} = {},
           at \notin {"opened", "created"},
           UNCHANGED <<config, todo, driver_map, handles, drivers>>
    PROVE  ModulesInv'
  <1>1. /\ module \in [library : Libraries, at : Stages]
        /\ module'.library = module.library /\ module'.at = at
        /\ module' \in [library : Libraries, at : Stages]
    BY ModuleOnDisk DEF ModulesInv
  <1>2. DriverType' /\ RegisteredAreSound'
    BY <1>1 DEF ModulesInv, DriverType, RegisteredAreSound
  <1>3. ChecksPassed'
    BY <1>1 DEF ModulesInv, ChecksPassed, Stages
  <1>4. Owned'
    BY <1>1 DEF ModulesInv, Owned, InMap, Opened, Created
  <1> QED
    BY <1>2, <1>3, <1>4 DEF ModulesInv

LEMMA VerifyKeeps ==
    ASSUME ModulesInv, Verify, config' = config PROVE ModulesInv'
  <1>1. module.at = "opened" /\ module # NoModule
    BY DEF Verify, NoModule
  <1>2. CASE Faults[module.library] \cap {"magic", "compiler"} # {}
    BY <1>1, <1>2, CheckKeeps DEF Verify, Throw, Stages
  <1>3. CASE Faults[module.library] \cap {"magic", "compiler"} = {}
    BY <1>1, <1>3, CheckKeeps DEF Verify, Stages
  <1> QED
    BY <1>2, <1>3

LEMMA CreateDriverKeeps ==
    ASSUME ModulesInv, CreateDriver, config' = config PROVE ModulesInv'
  <1>1. /\ module.at = "verified" /\ module # NoModule
        /\ module \in [library : Libraries, at : Stages]
    BY ModuleOnDisk DEF ModulesInv, CreateDriver, NoModule
  <1>2. CASE "symbols" \in Faults[module.library]
    BY <1>1, <1>2, CheckKeeps DEF CreateDriver, Throw, Stages
  <1>3. CASE "symbols" \notin Faults[module.library]
    <2>1. /\ module'.library = module.library /\ module'.at = "created"
          /\ module' \in [library : Libraries, at : Stages]
          /\ drivers' = [drivers EXCEPT ![module.library] = @ + 1]
          /\ UNCHANGED <<todo, driver_map, handles>>
      BY <1>1, <1>3 DEF CreateDriver, Stages
    <2>2. DriverType' /\ RegisteredAreSound'
      BY <1>1, <2>1 DEF ModulesInv, DriverType, RegisteredAreSound
    <2>3. ChecksPassed'
      BY <1>1, <1>3, <2>1 DEF ModulesInv, ChecksPassed
    <2>4. Owned'
      <3> SUFFICES ASSUME NEW l \in Libraries
                   PROVE  (/\ handles[l] = InMap(l) + Opened(l)
                           /\ drivers[l] = InMap(l) + Created(l))'
        BY DEF Owned
      <3>1. handles[l] = InMap(l) + Opened(l) /\ drivers[l] = InMap(l) + Created(l)
        BY DEF ModulesInv, Owned
      <3>2. Opened(l)' = Opened(l) /\ InMap(l)' = InMap(l) /\ Created(l) = 0
        BY <1>1, <2>1 DEF Opened, InMap, Created, B
      <3>3. InMap(l) \in Nat
        BY DEF InMap, B
      <3>4. drivers'[l] = drivers[l] + Created(l)'
        BY <1>1, <2>1 DEF ModulesInv, DriverType, Created, B
      <3> QED
        BY <2>1, <3>1, <3>2, <3>3, <3>4
    <2> QED
      BY <2>2, <2>3, <2>4 DEF ModulesInv
  <1> QED
    BY <1>2, <1>3

LEMMA RegisterDriverKeeps ==
    ASSUME ModulesInv, register_driver, config' = config PROVE ModulesInv'
  <1> DEFINE name == DriverName[module.library]
  <1>1. /\ module.at = "created" /\ module # NoModule
        /\ module.library \in Libraries /\ name \in Names
    BY ModuleOnDisk DEF ModulesInv, register_driver, NoModule
  <1>2. CASE \/ "abi" \in Faults[module.library]
             \/ driver_map[name] # None
    BY <1>1, <1>2, CheckKeeps DEF register_driver, Throw, Stages
  <1>3. CASE "abi" \notin Faults[module.library] /\ driver_map[name] = None
    <2>1. /\ module' = NoModule
          /\ driver_map' = [driver_map EXCEPT ![name] = module.library]
          /\ UNCHANGED <<todo, handles, drivers>>
      BY <1>3 DEF register_driver
    <2>2. DriverType'
      BY <1>1, <2>1 DEF ModulesInv, DriverType
    <2>3. Faults[module.library] = {}
      BY <1>1, <1>3, LibraryAssumption DEF ModulesInv, ChecksPassed, FaultKinds
    <2>4. RegisteredAreSound'
      BY <1>1, <2>1, <2>3 DEF ModulesInv, DriverType, RegisteredAreSound
    <2>5. ChecksPassed'
      BY <2>1 DEF ChecksPassed, NoModule
    <2>6. Owned'
      <3> SUFFICES ASSUME NEW l \in Libraries
                   PROVE  (/\ handles[l] = InMap(l) + Opened(l)
                           /\ drivers[l] = InMap(l) + Created(l))'
        BY DEF Owned
      <3>1. handles[l] = InMap(l) + Opened(l) /\ drivers[l] = InMap(l) + Created(l)
        BY DEF ModulesInv, Owned
      <3>2. DriverName[l] \in Names /\ driver_map \in [Names -> Libraries \cup {None}]
        BY DEF Names, ModulesInv, DriverType
      <3>3. Opened(l)' = 0 /\ Created(l)' = 0
        BY <2>1, LibraryAssumption DEF NoModule, Opened, Created, B
      <3>4. CASE l = module.library
        BY <1>1, <1>3, <2>1, <3>1, <3>2, <3>3, <3>4, LibraryAssumption
           DEF InMap, Opened, Created, B
      <3>5. CASE l # module.library
        <4>1. Opened(l) = 0 /\ Created(l) = 0
          BY <3>5 DEF Opened, Created, B
        <4>2. InMap(l)' = InMap(l) /\ InMap(l) \in Nat
          BY <1>1, <1>3, <2>1, <3>2, <3>5, LibraryAssumption DEF InMap, B
        <4> QED
          BY <2>1, <3>1, <3>3, <4>1, <4>2
      <3> QED
        BY <3>4, <3>5
    <2> QED
      BY <2>2, <2>4, <2>5, <2>6 DEF ModulesInv
  <1> QED
    BY <1>2, <1>3

LEMMA UnloadKeeps ==
    ASSUME ModulesInv, NEW n \in Names, Unload(n), config' = config PROVE ModulesInv'
  <1> DEFINE lib == driver_map[n]
  <1>1. /\ module = NoModule
        /\ module' = [library |-> lib, at |-> "destroy"]
        /\ driver_map' = [driver_map EXCEPT ![n] = None]
        /\ UNCHANGED <<todo, handles, drivers>>
    BY DEF Unload
  <1>2. lib \in Libraries /\ DriverName[lib] = n
    BY DEF Unload, ModulesInv, DriverType, RegisteredAreSound
  <1>3. DriverType'
    BY <1>1, <1>2 DEF ModulesInv, DriverType, Stages
  <1>4. RegisteredAreSound' /\ ChecksPassed'
    BY <1>1 DEF ModulesInv, DriverType, RegisteredAreSound, ChecksPassed
  <1>5. Owned'
    <2> SUFFICES ASSUME NEW l \in Libraries
                 PROVE  (/\ handles[l] = InMap(l) + Opened(l)
                         /\ drivers[l] = InMap(l) + Created(l))'
      BY DEF Owned
    <2>1. handles[l] = InMap(l) + Opened(l) /\ drivers[l] = InMap(l) + Created(l)
      BY DEF ModulesInv, Owned
    <2>2. DriverName[l] \in Names /\ driver_map \in [Names -> Libraries \cup {None}]
      BY DEF Names, ModulesInv, DriverType
    <2>3. Opened(l) = 0 /\ Created(l) = 0
      BY <1>1, LibraryAssumption DEF NoModule, Opened, Created, B
    <2>4. CASE l = lib
      BY <1>1, <1>2, <2>1, <2>2, <2>3, <2>4, LibraryAssumption DEF InMap, Opened, Created, B
    <2>5. CASE l # lib
      <3>1. Opened(l)' = 0 /\ Created(l)' = 0
        BY <1>1, <2>5 DEF Opened, Created, B
      <3>2. InMap(l)' = InMap(l) /\ InMap(l) \in Nat
        BY <1>1, <1>2, <2>2, <2>5, LibraryAssumption DEF InMap, B
      <3> QED
        BY <1>1, <2>1, <2>3, <3>1, <3>2
    <2> QED
      BY <2>4, <2>5
  <1> QED
    BY <1>3, <1>4, <1>5 DEF ModulesInv

LEMMA DestroyKeeps ==
    ASSUME ModulesInv, Destroy, config' = config PROVE ModulesInv'
  <1>1. /\ module.at = "destroy"
        /\ module \in [library : Libraries, at : Stages]
    BY ModuleOnDisk DEF ModulesInv, Destroy, NoModule
  <1>2. /\ module'.library = module.library /\ module'.at = "close"
        /\ module' \in [library : Libraries, at : Stages]
        /\ drivers' = [drivers EXCEPT ![module.library] = @ - 1]
        /\ UNCHANGED <<todo, driver_map, handles>>
    BY <1>1 DEF Destroy, Stages
  <1>3. DriverType' /\ RegisteredAreSound'
    BY <1>1, <1>2 DEF ModulesInv, DriverType, RegisteredAreSound
  <1>4. ChecksPassed'
    BY <1>2 DEF ChecksPassed
  <1>5. Owned'
    <2> SUFFICES ASSUME NEW l \in Libraries
                 PROVE  (/\ handles[l] = InMap(l) + Opened(l)
                         /\ drivers[l] = InMap(l) + Created(l))'
      BY DEF Owned
    <2>1. handles[l] = InMap(l) + Opened(l) /\ drivers[l] = InMap(l) + Created(l)
      BY DEF ModulesInv, Owned
    <2>2. Opened(l)' = Opened(l) /\ InMap(l)' = InMap(l) /\ Created(l)' = 0
      BY <1>2 DEF Opened, InMap, Created, B
    <2>3. InMap(l) \in Nat /\ Created(l) \in Nat
      BY DEF InMap, Created, B
    <2>4. drivers'[l] = drivers[l] - Created(l)
      BY <1>1, <1>2 DEF ModulesInv, DriverType, Created, B
    <2> QED
      BY <1>2, <2>1, <2>2, <2>3, <2>4
  <1> QED
    BY <1>3, <1>4, <1>5 DEF ModulesInv

LEMMA CloseKeeps ==
    ASSUME ModulesInv, Close, config' = config PROVE ModulesInv'
  <1>1. /\ module.at = "close"
        /\ module \in [library : Libraries, at : Stages]
    BY ModuleOnDisk DEF ModulesInv, Close, NoModule
  <1>2. /\ module' = NoModule
        /\ handles' = [handles EXCEPT ![module.library] = @ - 1]
        /\ UNCHANGED <<todo, driver_map, drivers>>
    BY DEF Close
  <1>3. DriverType' /\ RegisteredAreSound' /\ ChecksPassed'
    BY <1>1, <1>2 DEF ModulesInv, DriverType, RegisteredAreSound, ChecksPassed, NoModule
  <1>4. Owned'
    <2> SUFFICES ASSUME NEW l \in Libraries
                 PROVE  (/\ handles[l] = InMap(l) + Opened(l)
                         /\ drivers[l] = InMap(l) + Created(l))'
      BY DEF Owned
    <2>1. handles[l] = InMap(l) + Opened(l) /\ drivers[l] = InMap(l) + Created(l)
      BY DEF ModulesInv, Owned
    <2>2. Opened(l)' = 0 /\ InMap(l)' = InMap(l) /\ Created(l)' = 0 /\ Created(l) = 0
      BY <1>1, <1>2, LibraryAssumption DEF Opened, InMap, Created, B, NoModule
    <2>3. InMap(l) \in Nat /\ Opened(l) \in Nat
      BY DEF InMap, Opened, B
    <2>4. handles'[l] = handles[l] - Opened(l)
      BY <1>1, <1>2 DEF ModulesInv, DriverType, Opened, B
    <2> QED
      BY <1>2, <2>1, <2>2, <2>3, <2>4
  <1> QED
    BY <1>3, <1>4 DEF ModulesInv

\* A step that leaves the drivers alone.
LEMMA ModulesStay ==
    ASSUME ModulesInv, UNCHANGED <<config, driverVars>> PROVE ModulesInv'
  BY DEF ModulesInv, driverVars, DriverType, RegisteredAreSound, ChecksPassed, Owned, InMap,
         Opened, Created

LEMMA LoadDriversKeeps == ASSUME ModulesInv, LoadDrivers PROVE ModulesInv'
  <1>1. config' = config
    BY DEF LoadDrivers
  <1>2. CASE Load(config)
    <2>1. todo' \in Seq(Entries) /\ UNCHANGED <<module, driver_map, handles, drivers>>
      BY <1>2, ConfigAssumption DEF Load, ModulesInv, DriverType, Entries
    <2> QED
      BY <1>1, <2>1 DEF ModulesInv, DriverType, RegisteredAreSound, ChecksPassed, Owned, InMap,
                        Opened, Created
  <1>3. CASE LoadReturns
    BY <1>1, <1>3 DEF LoadReturns, ModulesInv, DriverType, RegisteredAreSound, ChecksPassed, Owned,
                      InMap, Opened, Created
  <1> QED
    BY <1>1, <1>2, <1>3, OpenHandleKeeps, VerifyKeeps, CreateDriverKeeps, RegisterDriverKeeps,
       DestroyKeeps, CloseKeeps DEF LoadDrivers, load_driver

LEMMA DriverNext == DriverInv /\ [ProcessNext]_processVars => DriverInv'
  <1> SUFFICES ASSUME DriverInv, [ProcessNext]_processVars PROVE DriverInv'
    OBVIOUS
  <1> USE DEF DriverInv, signalVars, vars, watcherVars
  <1>1. CASE MakeManager
    <2>1. ModulesInv'
      BY <1>1, ModulesStay DEF MakeManager
    <2>2. main' \in {"setup", "destroy"} /\ config' = config
      BY <1>1 DEF MakeManager
    <2>3. manager' = "refused" => ~create(config)
      BY <1>1 DEF MakeManager
    <2> QED
      BY <2>1, <2>2, <2>3 DEF create, custom_servers
  <1>2. CASE LoadDrivers
    <2>1. ModulesInv'
      BY <1>2, LoadDriversKeeps
    <2>2. main' = "setup" /\ manager' = "made"
      BY <1>2 DEF LoadDrivers
    <2> QED
      BY <2>1, <2>2
  <1>3. CASE LoadDriversThrows
    <2>1. ModulesInv'
      BY <1>3, ModulesStay DEF LoadDriversThrows, managerVars
    <2>2. main' = "destroy" /\ config' = config /\ manager' = manager
      BY <1>3 DEF LoadDriversThrows, managerVars
    <2> QED
      BY <2>1, <2>2 DEF create, custom_servers
  <1>4. CASE ValidateConfig
    <2>1. ModulesInv'
      BY <1>4, ModulesStay DEF ValidateConfig, managerVars
    <2>2. main' \in {"run", "destroy"} /\ UNCHANGED managerVars
      BY <1>4 DEF ValidateConfig, SetUp
    <2>3. main' = "run" => validate(config, loaded_drivers)
      BY <1>4 DEF ValidateConfig
    <2>4. loaded_drivers' = loaded_drivers
      BY <2>2 DEF loaded_drivers, managerVars, driverVars
    <2>5. validate(config, loaded_drivers)' <=> validate(config, loaded_drivers)
      BY <2>2, <2>4 DEF managerVars, validate, custom_servers
    <2> QED
      BY <2>1, <2>2, <2>3, <2>5 DEF create, custom_servers, managerVars
  <1>5. CASE DestroyManager
    <2>1. config' = config /\ main' = "destroy" /\ manager' = manager
      BY <1>5 DEF DestroyManager
    <2>2. ModulesInv'
      BY <1>5, <2>1, UnloadKeeps, DestroyKeeps, CloseKeeps DEF DestroyManager
    <2> QED
      BY <2>1, <2>2 DEF create, custom_servers
  <1>6. CASE DestroyWatcher
    <2>1. ModulesInv'
      BY <1>6, ModulesStay DEF DestroyWatcher, managerVars
    <2>2. Unloaded /\ UNCHANGED managerVars /\ main' = "wake"
      BY <1>6 DEF DestroyWatcher, DestroyRequest
    <2> QED
      BY <2>1, <2>2 DEF create, custom_servers, Unloaded, loaded_drivers, managerVars, driverVars
  <1>7. ASSUME UNCHANGED managerVars,
               \/ main' = main
               \/ main' \in {"setup", "destroy", "killed"}
               \/ main \in {"load_config", "wake", "join"} /\ main' \in {"join", "exit"}
        PROVE  DriverInv'
    <2>1. ModulesInv'
      BY <1>7, ModulesStay DEF managerVars
    <2>2. (Unloaded' <=> Unloaded) /\ loaded_drivers' = loaded_drivers
      BY <1>7 DEF Unloaded, loaded_drivers, managerVars, driverVars
    <2>3. validate(config, loaded_drivers)' <=> validate(config, loaded_drivers)
      BY <1>7, <2>2 DEF managerVars, validate, custom_servers
    <2>4. create(config)' <=> create(config)
      BY <1>7 DEF managerVars, create, custom_servers
    <2> QED
      BY <1>7, <2>1, <2>2, <2>3, <2>4 DEF managerVars
  <1>8. CASE (LoadConfig \/ RunEnds \/ DestroyWake \/ Join) /\ UNCHANGED managerVars
    BY <1>7, <1>8 DEF LoadConfig, RunEnds, DestroyWake, Join
  <1>9. CASE signal_loop /\ UNCHANGED managerVars
    BY <1>7, <1>9 DEF signal_loop, LoopHead, Sigwait, CheckStop, HandleSigint, HandleSigterm
  <1>10. CASE (\E s \in Signals : UserSends(s)) /\ UNCHANGED managerVars
    BY <1>7, <1>10 DEF UserSends
  <1>11. CASE UNCHANGED processVars
    BY <1>7, <1>11 DEF processVars
  <1> QED
    BY <1>1, <1>2, <1>3, <1>4, <1>5, <1>6, <1>8, <1>9, <1>10, <1>11 DEF ProcessNext, main_thread

\* Every handle and every driver object is owned by the registry or by the
\* module on the stack, which has passed the checks behind it.
THEOREM DriverInvariance == ProcessSpec => []DriverInv
  BY DriverInitial, DriverNext, PTL DEF ProcessSpec

\* Whatever is wrong with the libraries and whichever names they share, no
\* driver outlives its code and none is left when main() ends.
THEOREM NoDriverIsLeft == ProcessSpec => []DriversGoInOrder
  <1>1. DriverInv => DriversGoInOrder
    <2> SUFFICES ASSUME DriverInv, NEW l \in Libraries
                 PROVE  /\ drivers[l] >= 0 /\ drivers[l] <= handles[l]
                        /\ main \in {"wake", "join", "exit"} => drivers[l] = 0 /\ handles[l] = 0
      BY DEF DriversGoInOrder, DriverCodeMapped
    <2>1. handles[l] = InMap(l) + Opened(l) /\ drivers[l] = InMap(l) + Created(l)
      BY DEF DriverInv, ModulesInv, Owned
    <2>2. InMap(l) \in Nat /\ Opened(l) \in Nat /\ Created(l) \in Nat /\ Created(l) <= Opened(l)
      BY DEF InMap, Opened, Created, B
    <2>3. ASSUME Unloaded PROVE InMap(l) = 0 /\ Opened(l) = 0 /\ Created(l) = 0
      <3>1. DriverName[l] \in Names
        BY DEF Names
      <3>2. driver_map[DriverName[l]] = None
        BY <2>3, <3>1 DEF Unloaded, loaded_drivers
      <3> QED
        BY <2>3, <3>2, LibraryAssumption DEF Unloaded, NoModule, InMap, Opened, Created, B
    <2> QED
      BY <2>1, <2>2, <2>3 DEF DriverInv
  <1> QED
    BY <1>1, DriverInvariance, PTL

\* For every configuration that passes the validator.
THEOREM RunIsAsAssumed == ProcessSpec => []RunsAsAssumed
  <1>1. DriverInv => RunsAsAssumed
    <2> SUFFICES ASSUME DriverInv, main = "run", NEW d \in config.domains
                 PROVE  /\ driver_map[d.driver] # None
                        /\ Faults[driver_map[d.driver]] = {}
                        /\ d.update_interval >= MinUpdateInterval
                        /\ d.force_update = 0 \/ d.force_update >= d.update_interval
                        /\ \A s \in d.subdomains :
                              /\ s.update_interval = 0 \/ s.update_interval >= MinUpdateInterval
                              /\ s.interface \in Interfaces \cup {""}
                              /\ s.ip_source = "INTERFACE" => s.interface \in Interfaces
      BY DEF RunsAsAssumed
    <2>1. validate_domain(d, loaded_drivers)
      BY DEF DriverInv, validate
    <2>2. d.driver \in Names /\ driver_map[d.driver] # None
      BY <2>1 DEF validate_domain, loaded_drivers
    <2>3. Faults[driver_map[d.driver]] = {}
      BY <2>2 DEF DriverInv, ModulesInv, RegisteredAreSound
    <2>4. \A s \in d.subdomains : validate_subdomain(s)
      BY <2>1 DEF validate_domain
    <2> QED
      BY <2>1, <2>2, <2>3, <2>4 DEF validate_domain, validate_subdomain, validate_ip_source
  <1> QED
    BY <1>1, DriverInvariance, PTL

\* The factory of the resolvers takes every server that the validator takes.
LEMMA ValidatedServersAreCreated ==
    ASSUME NEW c \in Configs, NEW server \in custom_servers(c), validate_resolver_address(server)
    PROVE  create_resolver(server)
  <1>1. server \in c.servers \cup c.address
    BY DEF custom_servers
  <1> QED
    BY <1>1, ConfigAssumption DEF validate_resolver_address, create_resolver

\* What "config test" accepts, the constructor of Manager does not refuse.
THEOREM ConfigTestIsSound == ProcessSpec => []TestedConfigStarts
  <1>1. DriverInv => TestedConfigStarts
    BY ValidatedServersAreCreated
       DEF DriverInv, ModulesInv, DriverType, TestedConfigStarts, validate, create
  <1> QED
    BY <1>1, DriverInvariance, PTL
=============================================================================
