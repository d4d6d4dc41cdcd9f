--------------------------- MODULE ContractRegistry ---------------------------
(***************************************************************************)
(* The life of contracts in one node directory, across any number of runs  *)
(* of the node: ContractNode finds plugin libraries and initialises them,  *)
(* ChainHandler gives each contract an object space through the records of *)
(* its persistence database, and both databases reach the disk only when   *)
(* the destructors of an orderly exit get that far.  What the chain starts *)
(* from is in a file of its own, written when there is no chain on disk.   *)
(*                                                                         *)
(* Everything here happens on the node's main fc::thread, whose tasks do   *)
(* not yield while they load plugins, so a step is one iteration of a loop *)
(* or one destructor.  What can happen between two steps is the death of   *)
(* the process.                                                            *)
(***************************************************************************)
EXTENDS Integers, Sequences

CONSTANTS
    Plugins,                   \* paths of plugin libraries
    Contracts,                 \* contract names
    NameOf,                    \* the name each library's contract goes by
    FIRST_AVAILABLE_SPACE_ID,  \* lowest object space given to contracts (10)
    SpaceModulus,              \* 2^w, w the width of a space ID (uint8_t: 256)
    NoContract,                \* "no name", not a contract
    InitOutcomes,              \* how registerContract may end, see below
    LateFailures,              \* may it have registered code when it fails?
    Geneses,                   \* genesis states, each with its chain ID
    NoGenesis,                 \* no genesis, no chain
    KillPhases,                \* phases in which the process may be killed
    UnloadUnmaps               \* does dlclose really unmap a library's code?

(***************************************************************************)
(* The phase is where run() and then ~ContractNode() have got to.  The     *)
(* last four name the member whose destruction comes next; a process in    *)
(* "terminate" has an exception nobody catches and dies without unwinding. *)
(***************************************************************************)
Phases == {"down", "boot", "up", "terminate",
           "libraries", "monitors", "chain", "persistence"}

\* registerContract returns true; returns false or throws a boost::exception;
\* throws an fc::exception; throws anything else.
Outcomes == {"accept", "reject", "throwFc", "throwOther"}

ASSUME RegistryAssumption ==
    /\ NameOf \in [Plugins -> Contracts]
    /\ NoContract \notin Contracts
    /\ SpaceModulus \in Nat \ {0}
    /\ FIRST_AVAILABLE_SPACE_ID \in 0..(SpaceModulus - 1)
    /\ InitOutcomes \subseteq Outcomes
    /\ KillPhases \subseteq Phases \ {"down"}
    /\ LateFailures \in BOOLEAN
    /\ UnloadUnmaps \in BOOLEAN
    /\ NoGenesis \notin Geneses \cup {"torn"}
    /\ "torn" \notin Geneses

VARIABLES
    phase,            \* where the main fiber is
    task,             \* "none", the plugin task's "search" or "initialize",
                      \* or "genesis" while ChainHandler::open writes the file
    pluginPaths,      \* libraries found by the search, to be initialised
    loadedLibraries,  \* ContractNode::loadedLibraries
    records,          \* ContractRecordIndex in memory: names in id order
    loadedContracts,  \* ChainHandler::loadedContracts: space -> name
    contractMonitors, \* ContractNode::contractMonitors: <<library, space>>
    registered,       \* <<library, space>>: code registered with the chain
    orphans,          \* the same, of contracts that failed after registering
    isOpen,           \* ChainHandler::isOpen
    chainId,          \* the genesis of the chain that is open
    opened,           \* spaces whose tables were there when the chain opened
    chainObjects,     \* <<name, space>>: whose objects the chain holds where
    persisted,        \* the records on disk
    chainDisk,        \* chainObjects on disk
    diskId,           \* chainId on disk
    genesisFile,      \* genesis.json: absent, "torn", or a genesis
    assigned,         \* history: every <<name, space>> a contract was told
    chainIds          \* history: the genesis of every chain that was open

node == <<pluginPaths, loadedLibraries, records, loadedContracts,
          contractMonitors, registered, orphans>>
chain == <<isOpen, chainId, opened, chainObjects>>
volatile == <<task, node, chain>>
durable == <<persisted, chainDisk, diskId, genesisFile>>
history == <<assigned, chainIds>>
vars == <<phase, volatile, durable, history>>

Spaces == 0..(SpaceModulus - 1)

-----------------------------------------------------------------------------
(* Contract records *)

\* Mutant: the spaces of contracts start where the chain's own do.
MutantSpaceFromZero(number) == number % SpaceModulus

\* ContractRecord::contractObjectSpaceId: a uint8_t sum of the first space
\* and the number of the record's id.
contractObjectSpaceId(number) ==
    (FIRST_AVAILABLE_SPACE_ID + number) % SpaceModulus

\* The spaces a list of records stands for.
SpacesOf(recs) ==
    {<<recs[i], contractObjectSpaceId(i - 1)>> : i \in DOMAIN recs}

\* The records after initializeContract looked the name up by_name and, when
\* there was none, created a record under the next id.
WithRecord(recs, name) ==
    IF \E i \in DOMAIN recs : recs[i] = name THEN recs ELSE Append(recs, name)

\* Mutant: the iterator that lower_bound returned is not looked at.
MutantLastRecord(recs, name) == contractObjectSpaceId(Len(recs) - 1)

\* The space of a name that has a record.
SpaceFor(recs, name) ==
    contractObjectSpaceId((CHOOSE i \in DOMAIN recs : recs[i] = name) - 1)

\* std::map::emplace: an entry that is there already stays.
Emplace(map, space, name) ==
    IF map[space] = NoContract THEN [map EXCEPT ![space] = name] ELSE map

\* Mutant: the first contract of the map, whatever its name.
MutantFirstContract(map, name) ==
    CHOOSE s \in Spaces : /\ map[s] # NoContract
                          /\ \A t \in Spaces : map[t] # NoContract => s <= t

\* ChainHandler::getSpaceId: the lowest space under that name; the assertion
\* throws when there is none.
Named(map, name) == {s \in Spaces : map[s] = name}
getSpaceId(map, name) ==
    CHOOSE s \in Named(map, name) : \A t \in Named(map, name) : s <= t

-----------------------------------------------------------------------------
(* The main fiber starts *)

NoContracts == [s \in Spaces |-> NoContract]

\* What is left of a process: the disk.
Gone ==
    /\ phase' = "down"
    /\ task' = "none"
    /\ pluginPaths' = <<>>
    /\ loadedLibraries' = {}
    /\ records' = <<>>
    /\ loadedContracts' = NoContracts
    /\ contractMonitors' = {}
    /\ registered' = {}
    /\ orphans' = {}
    /\ isOpen' = FALSE
    /\ chainId' = NoGenesis
    /\ opened' = {}
    /\ chainObjects' = {}

Init ==
    /\ phase = "down"
    /\ task = "none"
    /\ pluginPaths = <<>>
    /\ loadedLibraries = {}
    /\ records = <<>>
    /\ loadedContracts = NoContracts
    /\ contractMonitors = {}
    /\ registered = {}
    /\ orphans = {}
    /\ isOpen = FALSE
    /\ chainId = NoGenesis
    /\ opened = {}
    /\ chainObjects = {}
    /\ persisted = <<>>
    /\ chainDisk = {}
    /\ diskId = NoGenesis
    /\ genesisFile = NoGenesis
    /\ assigned = {}
    /\ chainIds = {}

\* Mutant: the index is added after persistence.open, which skips its records.
MutantIndexAddedLate == <<>>

\* The records that persistence.open finds: the index was added before.
LoadRecords == persisted

\* run() creates the ChainHandler, and ChainHandler::initialize opens the
\* persistence database; the search for plugins comes next.
Start ==
    /\ phase = "down"
    /\ phase' = "boot"
    /\ task' = "search"
    /\ records' = LoadRecords
    /\ UNCHANGED <<pluginPaths, loadedLibraries, loadedContracts, registered,
                   orphans, contractMonitors, chain, durable, history>>

-----------------------------------------------------------------------------
(* Searching for plugins *)

\* loadPlugin takes in a library that is not loaded yet.  The directory is
\* read in any order; a file that is absent, fails to load or lacks
\* registerContract is one for which this step is not taken.
LoadPlugin(p) ==
    /\ task = "search"
    /\ p \notin loadedLibraries
    /\ loadedLibraries' = loadedLibraries \cup {p}
    /\ pluginPaths' = Append(pluginPaths, p)
    /\ UNCHANGED <<phase, task, records, loadedContracts, contractMonitors,
                   registered, orphans, chain, durable, history>>

FinishSearch ==
    /\ task = "search"
    /\ task' = "initialize"
    /\ UNCHANGED <<phase, node, chain, durable, history>>

-----------------------------------------------------------------------------
(* Initialising the plugins found, one by one *)

\* Mutant: the contract is entered under its file name, not the name it gives.
MutantFileName(p) ==
    /\ records' = WithRecord(records, NameOf[p])
    /\ assigned' = assigned \cup {<<p, SpaceFor(records', NameOf[p])>>}
    /\ UNCHANGED chainIds

\* The part of initializeContract before the contract's own code runs: the
\* record is found or created and the contract is told its space.
Recorded(p) ==
    /\ records' = WithRecord(records, NameOf[p])
    /\ assigned' = assigned \cup {<<NameOf[p], SpaceFor(records', NameOf[p])>>}
    /\ UNCHANGED chainIds

\* The loop of initializePlugins goes on to the next path.
NextPlugin ==
    /\ pluginPaths' = Tail(pluginPaths)
    /\ UNCHANGED <<phase, task>>

\* An exception leaves initializePlugins.  A task of the running node keeps
\* it in a future nobody reads; run() catches an fc::exception and returns,
\* which starts the destructors; anything else ends in std::terminate.
LeaveLoop(outcome) ==
    /\ pluginPaths' = <<>>
    /\ task' = "none"
    /\ phase' = IF phase = "up" THEN "up"
                ELSE IF outcome = "throwFc" THEN "libraries" ELSE "terminate"

\* The contract accepts: its code is in the chain, its name is entered and a
\* monitor is put on the space of that name.
PluginAccepted(p) ==
    /\ "accept" \in InitOutcomes
    /\ Recorded(p)
    /\ LET name  == NameOf[p]
           space == SpaceFor(records', name)
       IN /\ registered' = registered \cup {<<p, space>>}
          /\ loadedContracts' = Emplace(loadedContracts, space, name)
          /\ \/ /\ Named(loadedContracts', name) # {}
                /\ contractMonitors' = contractMonitors \cup
                                       {<<p, getSpaceId(loadedContracts', name)>>}
                /\ NextPlugin
             \/ /\ Named(loadedContracts', name) = {}
                /\ LeaveLoop("throwFc")
                /\ UNCHANGED contractMonitors
    /\ UNCHANGED <<loadedLibraries, orphans, chain, durable>>

\* A contract that fails may have registered evaluators and indexes before.
\* Nothing takes them out of the chain: deregisterContract is never called.
FailsLate(p) ==
    \/ UNCHANGED orphans
    \/ /\ LateFailures
       /\ orphans' = orphans \cup {<<p, SpaceFor(records', NameOf[p])>>}

\* Mutant: a failed library is kept, its iterator only advanced.
MutantKeepsLibrary(p) == loadedLibraries

\* Mutant: every library of the contract that failed is erased.
MutantErasesNamesakes(p) == {q \in loadedLibraries : NameOf[q] # NameOf[p]}

\* The libraries left when initializePlugin has returned false for p.
Rejected(p) == loadedLibraries \ {p}

\* The contract returns false or throws a boost::exception: its library is
\* erased, its record stays.
PluginRejected(p) ==
    /\ "reject" \in InitOutcomes
    /\ Recorded(p)
    /\ FailsLate(p)
    /\ loadedLibraries' = Rejected(p)
    /\ NextPlugin
    /\ UNCHANGED <<loadedContracts, contractMonitors, registered, chain, durable>>

\* The contract throws something initializePlugin does not catch.
PluginThrows(p, outcome) ==
    /\ outcome \in InitOutcomes
    /\ Recorded(p)
    /\ FailsLate(p)
    /\ LeaveLoop(outcome)
    /\ UNCHANGED <<loadedLibraries, loadedContracts, contractMonitors,
                   registered, chain, durable>>

InitializePlugin ==
    /\ task = "initialize"
    /\ pluginPaths # <<>>
    /\ \/ PluginAccepted(Head(pluginPaths))
       \/ PluginRejected(Head(pluginPaths))
       \/ PluginThrows(Head(pluginPaths), "throwFc")
       \/ PluginThrows(Head(pluginPaths), "throwOther")

FinishInitialize ==
    /\ task = "initialize"
    /\ pluginPaths = <<>>
    /\ task' = "none"
    /\ UNCHANGED <<phase, node, chain, durable, history>>

-----------------------------------------------------------------------------
(* The node opens the chain and runs *)

\* Code in the chain, and the spaces that have tables there.
InChain == registered \cup orphans
TableSpaces == {r[2] : r \in InChain}

\* Mutant: the chain is opened before contracts have added their indexes.
MutantOpensFirst == {}

\* The objects that chain.open reads: those of indexes that were added before.
LoadObjects == {o \in chainDisk : o[2] \in TableSpaces}

\* chain.open succeeds with a genesis.
Opened(genesis) ==
    /\ phase' = "up"
    /\ task' = "none"
    /\ isOpen' = TRUE
    /\ chainId' = genesis
    /\ chainIds' = chainIds \cup {genesis}
    /\ opened' = TableSpaces
    /\ chainObjects' = LoadObjects
    /\ UNCHANGED <<node, persisted, chainDisk, diskId, assigned>>

\* It throws, or computeGenesis does, and run() returns.
OpenFails ==
    /\ phase' = "libraries"
    /\ task' = "none"
    /\ UNCHANGED <<node, chain, persisted, chainDisk, diskId, history>>

\* Mutant: a genesis is made up without a look for the file.
MutantAlwaysNew == diskId = NoGenesis

\* computeGenesis finds no file and makes a genesis up.
NeedsGenesis == diskId = NoGenesis /\ genesisFile = NoGenesis

\* ChainHandler::open, after the plugins found at start have registered.  The
\* chain on disk is used; without one computeGenesis is called, which uses the
\* file: a torn one throws.
OpenChain ==
    /\ phase = "boot"
    /\ task = "none"
    /\ ~ NeedsGenesis
    /\ UNCHANGED genesisFile
    /\ \/ diskId # NoGenesis /\ Opened(diskId)
       \/ diskId = NoGenesis /\ genesisFile \in Geneses /\ Opened(genesisFile)
       \/ OpenFails

\* computeGenesis opens the file to write it, which creates it empty, ...
BeginGenesis ==
    /\ phase = "boot"
    /\ task = "none"
    /\ NeedsGenesis
    /\ task' = "genesis"
    /\ genesisFile' = "torn"
    /\ UNCHANGED <<phase, node, chain, persisted, chainDisk, diskId, history>>

\* ... and writes and closes it; the chain is opened with that genesis.
FinishGenesis ==
    /\ task = "genesis"
    /\ \E genesis \in Geneses :
          /\ genesisFile' = genesis
          /\ Opened(genesis) \/ OpenFails

\* A block makes a registered contract create objects in the space it was
\* told.  (The chain is external.)
ApplyBlock ==
    /\ phase = "up"
    /\ task = "none"
    /\ \E r \in InChain :
          chainObjects' = chainObjects \cup {<<NameOf[r[1]], r[2]>>}
    /\ UNCHANGED <<phase, task, node, isOpen, chainId, opened, durable, history>>

\* SIGUSR1 has the main thread search for new plugins.
SearchOnSignal ==
    /\ phase = "up"
    /\ task = "none"
    /\ task' = "search"
    /\ UNCHANGED <<phase, node, chain, durable, history>>

\* SIGINT resolves the exit promise, or setting up the P2P node failed: run()
\* returns and main destroys the node.
Exit ==
    /\ phase = "up"
    /\ task = "none"
    /\ phase' = "libraries"
    /\ UNCHANGED <<volatile, durable, history>>

-----------------------------------------------------------------------------
(* Destruction, members in the reverse order of their declaration *)

\* ~map unloads every library.
DestroyLibraries ==
    /\ phase = "libraries"
    /\ phase' = "monitors"
    /\ loadedLibraries' = {}
    /\ UNCHANGED <<task, pluginPaths, records, loadedContracts, registered,
                   orphans, contractMonitors, chain, durable, history>>

\* ~MultiTableMonitor takes its table monitors off the contract's indexes.
DestroyMonitors ==
    /\ phase = "monitors"
    /\ phase' = "chain"
    /\ contractMonitors' = {}
    /\ UNCHANGED <<task, pluginPaths, loadedLibraries, records, registered,
                   orphans, loadedContracts, chain, durable, history>>

\* Objects on disk in spaces whose tables are not in this run's chain.
Unread == {o \in chainDisk : o[2] \notin TableSpaces}

\* ~ChainHandler: chain.close() saves the chain's objects.  What it does with
\* what it has no tables for is the chain's affair: keep it or drop it.
CloseChain ==
    /\ phase = "chain"
    /\ phase' = "persistence"
    /\ \/ /\ isOpen
          /\ chainDisk' \in {chainObjects, chainObjects \cup Unread}
          /\ diskId' = chainId
       \/ ~ isOpen /\ UNCHANGED <<chainDisk, diskId>>
    /\ UNCHANGED <<volatile, persisted, genesisFile, history>>

\* Mutant: ~ChainHandler closes the persistence database without a flush.
MutantNoFlush == persisted

\* Mutant: records of contracts that this run did not load are dropped.
MutantDropsUnused == SelectSeq(records, LAMBDA n : Named(loadedContracts, n) # {})

\* What persistence.flush() leaves on disk.
SavedRecords == records

\* ~ChainHandler goes on to persistence.flush() and close(), and main ends.
FlushPersistence ==
    /\ phase = "persistence"
    /\ persisted' = SavedRecords
    /\ Gone
    /\ UNCHANGED <<chainDisk, diskId, genesisFile, history>>

-----------------------------------------------------------------------------
(* Death without destructors *)

\* The process is killed: a signal without a handler (SIGTERM always, SIGINT
\* while no signal set exists), a power failure, an abort in a contract.
Kill ==
    /\ phase \in KillPhases
    /\ Gone
    /\ UNCHANGED <<durable, history>>

\* std::terminate.
Terminate ==
    /\ phase = "terminate"
    /\ Gone
    /\ UNCHANGED <<durable, history>>

\* Blocks, monitors that are taken off their indexes, and chain.close() call
\* contracts' code.  Where its library is unloaded this is undefined: other
\* steps are the outcome of a dlclose that leaves the code in place (musl),
\* this one of a dlclose that does not (glibc).
CallUnmappedCode ==
    /\ UnloadUnmaps
    /\ phase \in {"boot", "up", "monitors", "chain"}
    /\ task = "none"
    /\ \E r \in InChain : r[1] \notin loadedLibraries
    /\ Gone
    /\ UNCHANGED <<durable, history>>

-----------------------------------------------------------------------------

Next ==
    \/ Start
    \/ \E p \in Plugins : LoadPlugin(p)
    \/ FinishSearch
    \/ InitializePlugin
    \/ FinishInitialize
    \/ OpenChain
    \/ BeginGenesis
    \/ FinishGenesis
    \/ ApplyBlock
    \/ SearchOnSignal
    \/ Exit
    \/ DestroyLibraries
    \/ DestroyMonitors
    \/ CloseChain
    \/ FlushPersistence
    \/ Kill
    \/ Terminate
    \/ CallUnmappedCode

Spec == Init /\ [][Next]_vars

-----------------------------------------------------------------------------
(* Properties *)

TypeOK ==
    /\ phase \in Phases
    /\ task \in {"none", "search", "initialize", "genesis"}
    /\ pluginPaths \in Seq(Plugins)
    /\ loadedLibraries \subseteq Plugins
    /\ records \in Seq(Contracts)
    /\ loadedContracts \in [Spaces -> Contracts \cup {NoContract}]
    /\ contractMonitors \subseteq Plugins \X Spaces
    /\ registered \subseteq Plugins \X Spaces
    /\ orphans \subseteq Plugins \X Spaces
    /\ isOpen \in BOOLEAN
    /\ chainId \in Geneses \cup {NoGenesis}
    /\ opened \subseteq Spaces
    /\ chainObjects \subseteq Contracts \X Spaces
    /\ persisted \in Seq(Contracts)
    /\ chainDisk \subseteq Contracts \X Spaces
    /\ diskId \in Geneses \cup {NoGenesis}
    /\ genesisFile \in Geneses \cup {NoGenesis, "torn"}
    /\ assigned \subseteq Contracts \X Spaces
    /\ chainIds \subseteq Geneses

\* What a contract was told, seen over all runs of the node, is a consistent
\* assignment: one space per contract, for ever, and a space for one contract
\* only (initializeContract, "Primarily used to consistently assign object
\* space IDs").
Assignment == INSTANCE SpaceAssignment WITH SpaceIds <- Spaces
AssignmentIsConsistent == Assignment!Spec

\* Whenever the node is down, objects in the chain's database on disk lie in
\* the space that the records on disk give to their owner: the next run tells
\* every contract the space its objects are in (~ChainHandler saves the two
\* databases one after the other).
DiskDatabasesAgree ==
    phase = "down" => chainDisk \subseteq SpacesOf(persisted)

\* What one run has saved no later run changes: whenever, and however, a run
\* ends, the records it leaves on disk begin with those it found there
\* (ChainHandler::initialize, ~ChainHandler).
Extends(old, new) ==
    Len(old) <= Len(new) /\ \A i \in DOMAIN old : new[i] = old[i]
SavedRecordsStay == [][Extends(persisted, persisted')]_persisted

\* No contract is ever given a space below FIRST_AVAILABLE_SPACE_ID; those
\* belong to the chain (ContractRecord::contractObjectSpaceId).
SpacesAreForContracts ==
    \A a \in assigned : a[2] >= FIRST_AVAILABLE_SPACE_ID

\* Code that the chain may call belongs to a library that is loaded, as long
\* as blocks may be applied (initializePlugins erases libraries that fail).
CalledCodeIsLoaded ==
    phase \in {"boot", "up"} => \A r \in InChain : r[1] \in loadedLibraries

\* No plugin task leaves a library loaded that has not registered with the
\* chain: nothing would ever initialise it, since the next search skips it
\* (initializePlugins, "call it on each plugin to initialize").
NoLibraryForgotten ==
    phase = "up" /\ task = "none" =>
        \A p \in loadedLibraries : \E r \in registered : r[1] = p

\* Every contract in the chain is watched, on the very space it was told, by
\* a monitor of its own name (initializePlugin goes through the name to find
\* the space: observeContract, getSpaceId).
MonitorsFollowContracts ==
    phase \in {"boot", "up"} =>
        /\ registered = contractMonitors
        /\ \A m \in contractMonitors : loadedContracts[m[2]] = NameOf[m[1]]

\* Libraries share a space only as copies of one contract, told by one name.
SpacesAreShared ==
    \A r, q \in InChain : r[2] = q[2] => NameOf[r[1]] = NameOf[q[1]]

\* Objects that a run has on disk leave it only if their contract was not
\* there when the chain was opened: what a library found later, or no library,
\* stands for is not kept (ChainHandler::open reads, ~ChainHandler writes).
ObjectsSurvive ==
    [][\A o \in chainDisk \ chainDisk' : o[2] \notin opened]_chainDisk

\* Whatever kills a run, all runs follow the chain of one genesis
\* (computeGenesis, "Using genesis at", "Saving genesis to").
SameChain == \A g, h \in chainIds : g = h
================================================================================
