---------------------------- MODULE DriverManager ----------------------------
(***************************************************************************)
(* Driver plug-ins: DriverLoader::load, DriverModule and the registry of   *)
(* DriverManager.  A DriverModule owns a handle of dlopen and the driver   *)
(* object that the library's code made; the library stays mapped while it  *)
(* has a handle.  The same library may be opened through two paths.        *)
(***************************************************************************)
EXTENDS Integers, SequencesExt

CONSTANTS Libraries,   \* shared objects on disk
          Faults,      \* what is wrong with each one, a set of FaultKinds
          DriverName   \* the name each one's driver gives in get_detail

FaultKinds == {"missing", "unloadable", "magic", "compiler", "symbols", "abi"}

\* No library.
None == "none"

ASSUME LibraryAssumption ==
    /\ Faults \in [Libraries -> SUBSET FaultKinds]
    /\ None \notin Libraries

Names == {DriverName[l] : l \in Libraries}

VARIABLES
    loader,      \* "idle", "loading", "loaded", or "failed" after an exception
    todo,        \* libraries still to be loaded
    module,      \* the DriverModule on the stack, with its place in its life
    driver_map,  \* the library behind each registered name
    handles,     \* open handles of each library
    drivers      \* driver objects of each library that are alive

driverVars == <<loader, todo, module, driver_map, handles, drivers>>

NoModule == [library |-> None, at |-> "none"]

DriverInit ==
    /\ loader = "idle"
    /\ todo = <<>>
    /\ module = NoModule
    /\ driver_map = [n \in Names |-> None]
    /\ handles = [l \in Libraries |-> 0]
    /\ drivers = [l \in Libraries |-> 0]

loaded_drivers == {n \in Names : driver_map[n] # None}

-----------------------------------------------------------------------------
(* DriverLoader::load *)

\* The first of equal entries stays.
dedupe(load) ==
    FoldLeft(LAMBDA seen, entry : IF Contains(seen, entry) THEN seen ELSE Append(seen, entry),
             <<>>, load)

\* An entry is [library, path], a path being "relative" or "absolute";
\* driver_dir is "present", "absent" or, if set to nothing, "empty".
exists(entry, dir) ==
    /\ "missing" \notin Faults[entry.library]
    /\ entry.path = "relative" => dir = "present"

\* The entries in the order in which they are loaded: the deduplicated list,
\* or the .so files that a directory iterator finds, in any order.
load_order(config) ==
    IF ~config.auto_discover THEN {dedupe(config.load)}
    ELSE IF config.driver_dir = "absent" THEN {<<>>}
    ELSE {[i \in DOMAIN s |-> [library |-> s[i], path |-> "relative"]] :
             s \in SetToSeqs(config.directory)}

\* resolve_driver_base throws on an empty driver_dir, with either strategy.
Load(config) ==
    /\ loader = "idle"
    /\ IF config.driver_dir = "empty"
       THEN loader' = "failed" /\ UNCHANGED todo
       ELSE loader' = "loading" /\ todo' \in load_order(config)
    /\ UNCHANGED <<module, driver_map, handles, drivers>>

LoadReturns ==
    /\ loader = "loading"
    /\ todo = <<>>
    /\ module = NoModule
    /\ loader' = "loaded"
    /\ UNCHANGED <<todo, module, driver_map, handles, drivers>>

-----------------------------------------------------------------------------
(* The constructor of DriverModule and register_driver *)

\* An exception leaves the constructor or register_driver: what the module
\* already owns is released by Destroy and Close.
Throw(at) ==
    /\ loader' = "failed"
    /\ module' = [module EXCEPT !.at = at]

\* load_driver finds the file and open_handle opens it.
OpenHandle(config) ==
    LET entry == Head(todo)
    IN  /\ loader = "loading"
        /\ todo # <<>>
        /\ module = NoModule
        /\ todo' = Tail(todo)
        /\ IF exists(entry, config.driver_dir) /\ "unloadable" \notin Faults[entry.library]
           THEN /\ module' = [library |-> entry.library, at |-> "opened"]
                /\ handles' = [handles EXCEPT ![entry.library] = @ + 1]
                /\ UNCHANGED loader
           ELSE loader' = "failed" /\ UNCHANGED <<module, handles>>
        /\ UNCHANGED <<driver_map, drivers>>

\* verify_magic and verify_compiler.
Verify ==
    /\ loader = "loading"
    /\ module.at = "opened"
    /\ IF Faults[module.library] \cap {"magic", "compiler"} # {}
       THEN Throw("close")
       ELSE module' = [module EXCEPT !.at = "verified"] /\ UNCHANGED loader
    /\ UNCHANGED <<todo, driver_map, handles, drivers>>

\* Both symbols are resolved before create is called.
CreateDriver ==
    /\ loader = "loading"
    /\ module.at = "verified"
    /\ IF "symbols" \in Faults[module.library]
       THEN Throw("close") /\ UNCHANGED drivers
       ELSE /\ module' = [module EXCEPT !.at = "created"]
            /\ drivers' = [drivers EXCEPT ![module.library] = @ + 1]
            /\ UNCHANGED loader
    /\ UNCHANGED <<todo, driver_map, handles>>

\* Mutant: a driver of the same name is replaced and forgotten.
RegisterOver ==
    /\ loader = "loading"
    /\ module.at = "created"
    /\ module' = NoModule
    /\ driver_map' = [driver_map EXCEPT ![DriverName[module.library]] = module.library]
    /\ UNCHANGED <<loader, todo, handles, drivers>>

\* An incompatible ABI throws; a name that is taken keeps its driver and the
\* new module dies with the call; otherwise the map takes the module over.
register_driver ==
    LET name == DriverName[module.library]
    IN  /\ loader = "loading"
        /\ module.at = "created"
        /\ \/ /\ "abi" \in Faults[module.library]
              /\ Throw("destroy")
              /\ UNCHANGED driver_map
           \/ /\ "abi" \notin Faults[module.library]
              /\ driver_map[name] # None
              /\ module' = [module EXCEPT !.at = "destroy"]
              /\ UNCHANGED <<loader, driver_map>>
           \/ /\ "abi" \notin Faults[module.library]
              /\ driver_map[name] = None
              /\ driver_map' = [driver_map EXCEPT ![name] = module.library]
              /\ module' = NoModule
              /\ UNCHANGED loader
        /\ UNCHANGED <<todo, handles, drivers>>

-----------------------------------------------------------------------------
(* The destructor of DriverModule, and of the map *)

\* ~DriverManager destroys one module of the map after the other.
Unload(n) ==
    /\ module = NoModule
    /\ driver_map[n] # None
    /\ module' = [library |-> driver_map[n], at |-> "destroy"]
    /\ driver_map' = [driver_map EXCEPT ![n] = None]
    /\ UNCHANGED <<loader, todo, handles, drivers>>

\* Mutant: handle_ is declared after driver_ and so released before it.
CloseFirst ==
    /\ module.at = "destroy"
    /\ handles' = [handles EXCEPT ![module.library] = @ - 1]
    /\ module' = [module EXCEPT !.at = "close"]
    /\ UNCHANGED <<loader, todo, driver_map, drivers>>

\* driver_ goes first, through the library's own destroy ...
Destroy ==
    /\ module.at = "destroy"
    /\ drivers' = [drivers EXCEPT ![module.library] = @ - 1]
    /\ module' = [module EXCEPT !.at = "close"]
    /\ UNCHANGED <<loader, todo, driver_map, handles>>

\* ... then handle_, through dlclose.
Close ==
    /\ module.at = "close"
    /\ handles' = [handles EXCEPT ![module.library] = @ - 1]
    /\ module' = NoModule
    /\ UNCHANGED <<loader, todo, driver_map, drivers>>

\* The steps of load_driver, up to the return or the end of the unwinding.
load_driver(config) ==
    OpenHandle(config) \/ Verify \/ CreateDriver \/ register_driver \/ Destroy \/ Close

\* All modules are gone.
Unloaded == module = NoModule /\ loaded_drivers = {}

-----------------------------------------------------------------------------
\* A driver object never outlives the code of its library: whichever check
\* fails, whichever driver comes twice and under however many paths, its
\* virtual functions and its destroy stay mapped while it is alive.
DriverCodeMapped == \A l \in Libraries : drivers[l] >= 0 /\ drivers[l] <= handles[l]
=============================================================================
