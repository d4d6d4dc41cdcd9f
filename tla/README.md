# Verification of the Peerplays contract node

This directory holds TLA+ models of the contract node in `src/`, TLC
configurations that check them on small instances, and TLAPS proofs of what
holds for every instance. File and line references are to `src/`.

Read it with the source at hand: each section names the functions that a module
stands for, and `PROJECT.json` ("map") gives the lines of every definition.

## 1. The system

The node is one process. `ContractNode` (`Modules/ContractNode.*`) owns
everything; its `run()` creates a `ChainHandler`, which owns the blockchain
database (`graphene::chain::database`) and a small persistence database, loads
contracts as plugin libraries, opens the chain, creates a `P2pHandler`, which
owns a `graphene::net::node`, and waits for a signal. The databases, `net::node`
and `fc`'s fibers are in submodules, which are not in the repository: the models
take them as what the code relies on, and mark them external.

| Component | State | Operations | Talks to |
|---|---|---|---|
| Contract registry (`ChainHandler`, plugin code of `ContractNode`) | records of contracts in the persistence database; `loadedContracts`; `loadedLibraries`; `contractMonitors`; the chain that is open, its code and objects; `genesis.json` | `initialize`, `initializeContract`, `getSpaceId`, `observeContract`, `open`, destructor; `loadPlugins`, `initializePlugins`, `initializePlugin` | contracts (`registerContract`, through `dlopen`), both databases on disk |
| Contract database monitors (`TableMonitor`, `MultiTableMonitor`) | one `preModifiedObject` for each table monitor; signals | the seven notifications of a secondary index; construction, destruction | the chain calls them, contract code runs between the calls |
| P2P delegate (`P2pHandler::NodeInterface`) | none of its own: reads the chain through a const reference | `has_item`, `get_block_ids`, `get_blockchain_synopsis`, `get_item` and getters | `net::node` calls it on the main thread and waits |
| Following the network (`syncFrom`, `handle_block`, the slot of `blockReceived`) | `syncing`; the head of the chain | push the next block, ignore others | `net::node`, peers |
| Node life cycle (`run`, `waitForExit`, destructors) | the main fiber, the exit promise, the signal set, the tasks posted to the main thread | signals, plugin search, dump, exit | asio's thread, the thread of `net::node` |
| `StaticVariant`, `TypeList` (`Infra/`) | a tag and the storage of one object | construct, assign, `set_which`, `get`, `visit`, compare, destroy | the types it holds |
| Module tree (`Modular`, `DMarcFor`, `MethodDemarcation`) | none at run time: the DMarcs of classes | the walk over the tree, `FetchSubmodule` | modules, through their getters |
| API queries (`ApiManager.hpp`, `StringT`, `Utilities`) | none at run time: advertised APIs, string literals | `FindMatchingAdvertisements`, `allocateApi`, `StrT`, `SplitStringT` | the module tree, `TypeList` |
| Reflection (`Reflect.hpp`) | none | macros | nothing uses it |

### What is hard, and what makes each part correct

* **Registry.** Records live in memory until the destructor of an orderly exit
  writes them; the two databases are written one after the other; contracts may
  refuse or throw; a library may be found by a later search; the space of a
  contract is a `uint8_t`. Correct: a contract is told the same space for ever,
  no two contracts are told the same, what is on disk always agrees and is not
  lost, all runs follow one chain, code that may be called is loaded.
* **Monitors.** A change is put together from two calls, with contract code,
  other modifications and exceptions between them, and undo goes through the same
  calls. Correct: who is told of every change knows the objects.
* **Delegate and sync.** A synopsis is built in two halves, by the delegate and
  by `net::node`, of a chain that moves on while the synopsis is on its way, and
  is answered by a peer that may have switched forks. Correct: synopsis and answer
  fit together, nodes whose forks can still meet find each other, no block of a
  sync is skipped, the node catches up.
* **Life cycle.** Three threads; the main thread destroys what tasks posted
  by the other two are going to use, and waits for a thread that may be waiting for
  it. Correct: what the main thread runs finds the chain and the handler, and while
  the node is not being closed all that it uses; the node ends when told to; a
  requested search takes place.
* **StaticVariant.** Objects are destroyed and built in place and constructors
  throw. Correct: the tag tells the type of an object that exists.
* **Module tree and API queries.** Recursive templates, with the compiler
  choosing among specialisations; the last word of a query is a name to one filter and
  a category to another; literals are cut at a capacity. Correct: the walk meets every
  path once, a path leads to its module, a query that compiles allocates the
  one API it names.

`PROJECT.json` ("hazards") lists what of this is hard to test, each at its line.

## 2. Modules

```
SpaceAssignment        what the registry promises (abstract)
  ^ refined by
ContractRegistry       the registry over any number of runs   <- MCContractRegistry
  ^ proved about in
ContractRegistryProofs

P2pDelegate            the delegate's answers (operators)     <- P2pDelegateProofs (lemmas)
  ^                ^
DelegateCalls    ChainSync                                    <- MCDelegateCalls, MCChainSync
every database   node, net::node and a peer                   <- DelegateCallsProofs, ChainSyncProofs

TableMonitors          monitors and the chain                 <- MCTableMonitors, TableMonitorsProofs
NodeLifecycle          threads, tasks, signals, destruction   <- NodeLifecycleProofs
StaticVariant          lifetimes of objects in variants       <- MCStaticVariant, StaticVariantProofs

TypeLists              lists and maps of types (operators)
  ^
ApiQueries             strings, queries, and the actions that <- ApiQueriesProofs
  ^                    write every small program
ModuleTree             walk, FetchSubmodule, advertisements   <- MCApiQueries
```

Definitions named `Mutant...` are plausible mistakes in a definition next to
them. No specification uses them; each shows that some property notices
the mistake.

### ContractRegistry and SpaceAssignment

One state is one node directory with at most one process. `phase` is where the
main fiber is: `boot` (in `run()`, before `open`), `up`, then the member whose
destructor comes next (`libraries`, `monitors`, `chain`, `persistence`), or `down`.
A step is one iteration of a loop or one destructor: the code runs on one fiber
that does not yield while it loads plugins, so that what happens between steps is
the death of the process (`Kill`, `Terminate`).

| Code | Model |
|---|---|
| `run`, `ChainHandler::initialize` | `Start` (`LoadRecords`: the index is added before `persistence.open`) |
| `loadPlugins`, `loadPlugin` | `LoadPlugin` in any order, `FinishSearch` |
| `initializePlugin`, `initializeContract`, `observeContract`, `getSpaceId` | `InitializePlugin`: `PluginAccepted`, `PluginRejected`, `PluginThrows`; `Recorded`, `WithRecord`, `Emplace` |
| a contract that fails after it has registered code | `FailsLate`, which leaves it in `orphans` |
| `contractObjectSpaceId` | the same, with its overflow |
| `ChainHandler::open` | `OpenChain`, or `BeginGenesis` and `FinishGenesis` when `computeGenesis` writes the file; `LoadObjects` is what `chain.open` reads |
| SIGUSR1 / SIGINT | `SearchOnSignal` / `Exit` |
| `~ContractNode` and `~ChainHandler` | `DestroyLibraries`, `DestroyMonitors`, `CloseChain`, `FlushPersistence` |

`registered` and `orphans` are the code in the chain, as pairs of a library and the
space whose tables it made; `chainObjects` are the objects there, `opened` the spaces
that had tables when the chain was opened. `CloseChain` saves the objects; whether the
chain keeps what it has on disk and no tables for is not in this repository, so both are
allowed. `genesisFile` is `"torn"` from the moment the file is opened for writing
until it is closed. `assigned` and `chainIds` are history variables: every pair of a
contract and a space it was told, and the genesis of every chain that was open.
`CallUnmappedCode` is the outcome, undefined in C++, of blocks and destructors that
call the code of a contract after its library was unloaded.

### P2pDelegate, DelegateCalls, ChainSync

A block id is the path that leads to the block from genesis: its length is the
number, its prefix the previous block. This is all that the code uses an id for
(`block_header::num_from_id`, `previous`, equality). A database is a record of the
head, the known blocks and the last block that cannot be undone. `DelegateCalls` lets
it be any database that blocks, fork blocks and time can make. `ChainSync` composes
the delegate with an abstract `net::node` and a peer that answers with the
same `get_block_ids` on a database of its own. Calls of the delegate are steps: they run
on the main thread one after the other.

### TableMonitors

A table monitor is a pair of a `MultiTableMonitor` and a table. Subscribers are
modelled by what any subscriber can do: a `picture` to which it applies what
it is told, beginning with `inspectContractDatabase`. The chain creates,
modifies, removes, opens a session and undoes it; contract code may modify another
object within a modification, and may throw.

### NodeLifecycle

The main fiber, the tasks on the main thread in the order in which they were
posted, the signal handler and the one outstanding call of `net::node`. `IsLast` is
the reverse order of the members, of which the exit promise is the first to go. Signals of
one kind that are waiting are merged.

`Uses` gives what a task uses: the chain, the handler, the lists of `ContractNode`,
and, for whatever makes the chain call contracts, their code (`ContractCode`), which
`loadedLibraries` keeps in memory. A task that runs in `~P2pHandler` may find some of that
destroyed, and a SIGINT may be about to set a promise that is gone; this is
undefined, and modelled as having no effect or ending the process (`CallUnmappedCode`,
`SetExitPromise`). `net::node` is external: while it is being closed it waits for the call it has
made, and is taken to make no new one.

### StaticVariant

Each variant has a tag and the object that really is in its storage. Destroying
or reading an object that is not there sets `undefined`. `half` are the variants
whose object could not be replaced. Comparisons are operators.

### TypeLists, ModuleTree, ApiQueries

What the compiler computes has no state, so a state of `ApiQueries` is a program: the
DMarc of every class and one string literal. The steps write it, a declaration or a
character at a time, and reach every program within the bound; the properties
evaluate the operators on it. An operator follows the template specialisations of
its source; where none of them matches, the program does not compile and the operator
is `IllFormed`. A template that recurses along a list is a recursive function indexed by
how many types are off the list (`TypeLists`, `ApiQueries`); the walk over the tree and
`FetchSubmodule` recurse along the program's tree and are `RECURSIVE` operators, which is
why they and their two properties are in a module above the others (`ModuleTree`).

| Code | Model |
|---|---|
| `TypeList.hpp`, `impl` and `Map` | operators of the same names in `TypeLists`, indexes from 0 |
| `DMarcFor`, `DMarcTag` | `DMarcTag` on the function `dmarc`, `<<>>` for a class without one |
| `WalkModuleTree`, `ModuleListAccumulator` | the same; a getter is a record of its class, number, result and how it returns it |
| `MethodDemarcation::Invoke`, `FetchSubmodule` | the same; a module object is known by the getters that led to it |
| `StrT`, `tygrab`, `typeek` | the same, with the capacity (64) as a constant |
| `FindMatchingAdvertisements`, `MatchQuery`, `ADD_STATIC_API_ALLOCATOR` | the same |

## 3. What TLC checks

| Run | Module | Expected | Properties | Distinct states |
|---|---|---|---|---|
| `registry_orderly` | `MCContractRegistry` | pass | TypeOK, NoLibraryForgotten, MonitorsFollowContracts, SpacesAreForContracts, SpacesAreShared; AssignmentIsConsistent (refinement) | 185 652 |
| `registry_kills` | `MCContractRegistry` | pass | DiskDatabasesAgree, CalledCodeIsLoaded, SameChain; SavedRecordsStay, ObjectsSurvive | 173 592 |
| `registry_killed_running` | `MCContractRegistry` | violation | AssignmentIsConsistent | stops at the violation |
| `registry_never_deregisters` | `MCContractRegistry` | violation | CalledCodeIsLoaded | stops at the violation |
| `delegate_calls` | `MCDelegateCalls` | pass | SynopsisSummarises, SynopsisIsShort, ReplyContinuesSynopsis, ReachableForksMeet | 22 237 |
| `sync_forks` | `MCChainSync` | pass | TypeOK, SyncLeavesNoGap; RepliesContinue, RefusedOnlyBeyondUndo | 1 378 807 |
| `sync_catches_up` | `MCChainSync` | pass | SyncBlocksLink, AsksFromTip; CatchesUp (liveness) | 42 620 |
| `monitors_keep_up` | `MCTableMonitors` | pass | TypeOK, SubscribersKeepUp; ChangesStartWhereTheLastEnded, SilentOnceDestroyed | 4 121 427 |
| `monitors_nested` | `MCTableMonitors` | violation | SubscribersKeepUp | stops at the violation |
| `node_lifecycle` | `NodeLifecycle` | pass | TypeOK, CallsFindTheChain; SigintEndsTheNode, SearchesAreServed (liveness) | 38 062 |
| `variant_lifetimes` | `MCStaticVariant` | pass | TypeOK, TagTellsType, ComparisonsAgree; UndefinedOnlyAfterThrow | 2 190 |
| `api_queries` | `MCApiQueries` | pass | ListsObeyReference, SplitFindsWords, WalkVisitsEveryPath, PathsLeadToModules, MoreSpecificMatchesLess, AllocatesTheOneNamed | 47 313 |

Properties before the semicolon are invariants, those after it action or temporal
properties. A run is `tlc -config <run>.cfg <Module>`. The longest take about one and
a half minutes with two workers; `monitors_keep_up` uses
symmetry of values and of monitors, which is sound as its properties are
invariants and action properties that treat them alike.

Runs that pass:

* **registry_orderly** - three libraries, two of them of one contract, every order
  of search, accept, or reject before or after registering code, any number of runs
  with orderly exits. The told
  spaces implement `SpaceAssignment` (`AssignmentIsConsistent`); no library is forgotten;
  every contract is watched on its own space although `initializePlugin` goes
  through the name; libraries share a space only as copies of one contract.
* **registry_kills** - one space fewer than contracts, every outcome of
  `registerContract`, the process killed in every phase but `persistence`, also
  while it writes the genesis: the databases on disk agree, saved records are only
  extended, objects stay on disk unless their contract had no tables when the chain was
  opened, all runs follow one chain, called code is loaded.
* **delegate_calls** - every database with chains of at most five blocks that part
  once, every reference, up to four more blocks to append, against every such chain
  of a peer. Synopses and replies fit together, and `get_item` serves what a reply
  offers; a synopsis is logarithmic;
  two chains that part within what can be undone find a block to go on from.
* **sync_forks** - a peer that is on or switches to another fork, blocks that fail,
  announced blocks in any order, new connections. The ids to fetch follow each other and
  the block handled last, an answer continues the request although both
  chains have moved, and a peer refuses us only if it lacks the last block we cannot undo.
* **sync_catches_up** - a peer on our chain that goes on growing: no sync block is
  ignored, the two halves of a synopsis read like one, the node catches up and stays.
* **monitors_keep_up** - two monitors, two tables, two objects each.
* **node_lifecycle** - four signals of any kind at any time, two plugins. Every task
  and call finds the chain and the handler, and until `run()` has returned everything it
  uses; only one that runs while `~P2pHandler` waits may find contract code or the
  lists of libraries and monitors gone. A SIGINT ends the node; a search asked for takes
  place.
* **variant_lifetimes** - three variants, two of one type list and one of
  another, a type whose constructor throws.
* **api_queries** - three classes that may contain each other along two paths,
  getters by pointer and by reference, two names of which one begins the other, four
  categorisations, every literal and query that fits. Lists, splitting and the walk agree with
  definitions that say the result without recursion; an allocated API is the only one of
  its name in the category asked for.

Why the bounds are enough. *Registry*: records matter by equality of names and by
position; two libraries of one name, two or three names and a modulus that is reached
or not give every case of `Emplace`, `getSpaceId` and the sum; the proofs lift
them. *Delegate*: five blocks, and up to four that `net::node` appends,
take the stride through several halvings of odd and of even distances; a fork may leave at every block, before and after
the undo limit. *Sync*: batches of two or three on chains of four or seven give
a batch that is asked for while an earlier one is pushed, and a third one.
*Monitors*: two objects of a table share one `preModifiedObject`, two tables and two
monitors do not; nesting deeper than two repeats the case of two. *Life cycle*: any two of a
search, a dump and a call of the delegate wait for the main thread while a
signal to exit and another one arrive. *StaticVariant*: a list of two types has every tag relation (equal, less, out
of range on both sides). *API queries*: a tree with two ways to one class
and a path of two getters, strings up to and beyond the capacity with delimiters
anywhere, and two APIs in every relation of names and categories fit in a program of size six.

Deadlock is checked where the system cannot stop (the registry). The others set
`CHECK_DEADLOCK FALSE`: chains reach their bound, signals run out, a process ends, a
variant program ends its last call, a program has been written.

### Fairness

* `ChainSync!FairSpec`: weak fairness of asking, answering, handling the
  answer, and delivering blocks. `net::node` does these on its own thread, and the
  delegate serves a call without waiting for anything. Nothing is assumed of
  the peer (it need not grow), of the undo limit, or of `sync_from` returning.
* `NodeLifecycle!FairSpec`: weak fairness of the main fiber, of the thread of asio
  and of running a posted task whenever the main fiber waits. These are threads of one
  process and a run-to-wait scheduler. Signals, installed plugins and calls of
  `net::node` are not fair.

No other property is a liveness property.

### Violations, and what they say of the code

* **registry_killed_running** - `AssignmentIsConsistent` fails when the process is
  killed while it runs: records reach the disk only in `~ChainHandler`
  (`Modules/ChainHandler.cpp:45`), so the next run may give the spaces to other
  contracts, although the comment on `ContractRecord` says that records exist "to
  consistently assign object space IDs". The chain's objects of that run are lost
  as well, which is why the disk still agrees; but contracts were told, and blocks
  were applied with, different spaces.
* **registry_never_deregisters** - a contract that fails after it has registered
  evaluators or indexes has its library unloaded (`Modules/ContractNode.cpp:179`) while the
  chain keeps them: `CalledCodeIsLoaded` fails. `deregisterContract`, which "is called to
  notify the contract that it will be unloaded" (`ContractApi/ContractApi.hpp:17`), is
  called nowhere.
* **monitors_nested** - when contract code modifies an object while it modifies
  another one of the same table, the change of the outer one is only logged
  (`Modules/ChainHandler.cpp:142`).

Other things that reading the code for the models showed, which no run shows:

* A kill between the two saves of `~ChainHandler` leaves objects in a space that no
  record assigns. `DatabasesAgree` has its absence as an assumption; the run
  `registry_kills` leaves out that phase for the same reason.
* `initializePlugin` catches `boost::exception` (`Modules/ContractNode.cpp:166`); an
  `fc::exception` out of `registerContract` leaves the loop, and the plugins not yet
  initialised stay in `loadedLibraries`, where later searches skip them.
  `LibrariesAreRemembered` has its absence as a hypothesis (`NothingThrown`).
* Record 246 and those after it are given spaces from 0 up, which belong to the
  chain (`Modules/ChainHandler.cpp:24`). The hypothesis `Room` excludes it.
* A contract that is found on SIGUSR1, or not at all, has no tables when the chain
  is opened: its saved objects are not read, and may be gone after the next save.
  `ObjectsSurvive` says that nothing else loses objects.
* A process killed while it writes `genesis.json` leaves a file that cannot be
  parsed, and no later run opens the chain until somebody removes it
  (`Modules/ChainHandler.cpp:83`). It never makes two runs follow two chains (`SameChain`).
* `FetchSubmodule` cannot go on from a getter that returns a pointer, as both getters of
  `ContractNode` do (`Modules/ContractNode.hpp:63`), although the walk gives such paths and the
  comments promise more: what a demarcation returns is cleaned of "ref, cv, or pointer", and
  "given a root module and a path to a submodule, fetch the submodule" (`Infra/Modular.hpp:21`,
  `:52`). `PathsLeadToModules` makes no claim about paths that go on
  from such a getter. What the last getter returns by reference is copied (`Infra/Modular.hpp:87`).
* A getter that is `const` cannot be demarcated: `Method` is given the type without
  `const` (`Infra/Infra.hpp:62`).
* An API whose name is also a category that begins another's is matched inexactly
  as well, and cannot be allocated by that query; a more specific query can be
  ambiguous where a shorter one is not, although `AmbiguousRequest` asks for "a more
  specific request" (`Infra/ApiManager.hpp:106`).
* A literal longer than the capacity of `StrT` is cut without a warning and may name
  another API (`Infra/StringT.hpp:286`).
* The handler in `MultiTableMonitor`'s constructor catches `fc::exception_ptr`, which
  nothing throws (`Modules/ChainHandler.cpp:177`).
* SIGINT before the node is stable, or one during the destruction, ends
  the process without the saves, since there is no signal set. One that the handler is given
  just before the signal set is destroyed may set an exit promise that is gone already
  (`Modules/ContractNode.hpp:35`).
* `persistence.open` may throw when its index has been added
  (`Modules/ChainHandler.cpp:51`); `run()` returns, and `~ChainHandler` flushes whatever was read
  by then. What `flush` writes of a database that did not open is in a submodule. The registry
  takes the opening to succeed, so `SavedRecordsStay` does not speak of this.
* After SIGINT the handler reads `signalSet` on asio's thread while the main
  fiber may be destroying it.
* A block that `push_block` rejects, or that is announced ahead of its turn, is
  not fetched again on the same connection, since `handle_block` returns as if it had been
  accepted. `CatchesUp` is therefore checked for valid blocks in order.
* A replacing assignment whose constructor throws leaves a variant whose tag tells
  of an object that is not there; destroying it is undefined.
  `UndefinedOnlyAfterThrow` says that this is the only way.
* Searches and dumps posted just before the exit, and blocks, may run inside `~P2pHandler`,
  when `loadedLibraries` and `contractMonitors` are gone: a search fills lists that do not exist,
  and a block that is pushed (`Modules/ContractNode.cpp:235`) or a dump (`:195`) calls code of
  contracts that may be unloaded. `CallsFindTheChain` says that this happens at no
  other time, and that the chain and the handler are there even then.

## 4. What TLAPS proves

Every theorem is about all values of the constants that the named assumptions of its
module allow. These give types and distinctness of marker values (`None`, `Threw`) and
hold in every instance that TLC checks, which evaluates them. Whatever else a theorem
needs is a hypothesis of it.

### The registry

For any finite or infinite set of plugins and contracts, any `NameOf`, any
width of the space ID, any outcomes of `registerContract` and any phases in which
the process is killed.

| Theorem | Says | Hypotheses |
|---|---|---|
| `TypeCorrect` | `Spec => []TypeOK` | |
| `SavedRecordsAreKept` | records on disk are only extended | |
| `DatabasesAgree` | objects on disk lie in the spaces of the records on disk | `"persistence" \notin KillPhases` |
| `CalledCodeStaysLoaded` | code that blocks may call is loaded | `LateFailures = FALSE` |
| `OneGenesis` | all runs follow the chain of one genesis | |
| `ObjectsAreKept` | objects leave the disk only if their contract had no tables when the chain was opened | |
| `SharedByNamesakesOnly` | a space is shared by copies of one contract only | `Room` |
| `SpacesLeaveTheChainAlone` | no contract is told a space of the chain | `Room` |
| `ContractsAreWatched` | every contract is watched on its space | `Room` |
| `LibrariesAreRemembered` | every library of a running node has registered | `Room`, `NothingThrown` |
| `RegistryImplementsAssignment` | `Spec` refines `SpaceAssignment` | `Room`, `Orderly` |

`Room`: finitely many contracts, no more than space IDs from
`FIRST_AVAILABLE_SPACE_ID` up; beyond it the sum wraps around. `NothingThrown`: no
contract throws what `initializePlugin` lets through. `LateFailures = FALSE`: a contract
that fails has registered nothing; `registry_never_deregisters` shows that it is needed.
`Orderly`: nobody kills the process, unloading leaves code in place, and nothing but
`fc::exception` is thrown. `registry_killed_running` shows that it is needed.

None of the properties is inductive. The invariants they need:

* `TaskInv`: a plugin task exists only in a node that runs, and a genesis is written
  only in one that has initialised its plugins. Without it a step of the loop could take
  place after the destructors.
* `RecordsInv`: in a running node the records on disk are a prefix of those in
  memory, and whatever is in the chain lies in the space of a record of its name.
  The first part makes the flush an extension (`SavedRecordsAreKept`).
* `DiskInv`: objects lie in the spaces of records; those on disk in the spaces of the
  records on disk, but between the two saves in those of the records in memory.
  `CloseChain` makes the second case true, `FlushPersistence` turns it into the first,
  and a kill in between would break it.
* `LibraryInv`: libraries that wait to be initialised are loaded, each once, and have
  not registered. Hence an erased library has no code in the chain.
* `GenesisInv`: the file is whole before any chain has been opened, and every chain,
  open or on disk, is that of the file. `BeginGenesis` is taken only when there is
  neither file nor chain, so a torn file is one that no chain came from.
* `KeptInv`: tables that were there when the chain was opened stay, and what is on disk
  for them is in the chain; so the save cannot drop it.
* `WaitingInv`: every loaded library waits or has registered.
* `UniqueInv`: no contract has two records. With `Room` and an injection into the
  contracts (`RecordsFit`) the sum does not wrap, so records and spaces are one to
  one (`SpacesOfOneToOne`).
* `MonitorInv`: every entry of `loadedContracts` is the pair of a record and its
  space, so a name leads back to its own space (`NameLeadsToSpace`).
* `AssignedInv`: every space that was ever told is in the records, in memory or on disk.
  So an assignment is either a repetition or of a fresh name and a fresh space.

`getSpaceId` chooses the lowest space; that there is one is `LeastNumber`, from the
well-foundedness of `<` on `Nat`.

### The delegate

`DelegateCallsProofs`, for chains and forks of any length, any number of blocks to append
and any limit. No hypotheses.

| Theorem | Says |
|---|---|
| `SynopsesSummarise` | a synopsis names blocks of the branch of its reference in order, from one that cannot be undone up to the reference |
| `SynopsesAreShort` | `n` entries cover at least `2^(n-1)` numbers |
| `RepliesContinueSynopses` | a reply starts in the last block of the synopsis that the chain has, has no gap, is counted right and can be served |
| `ForksMeet` | chains that part within what can be undone find a block to go on from |

The state invariant is `DatabaseInv`: a database knows the predecessors of what it
knows, nothing longer than its head, and cannot undo past its head. The rest is about
operators. `SynopsisNums` is a recursive function, and what it computes for every argument
takes induction. The library's induction theorems have an operator as a parameter, which
the provers cannot instantiate; `P2pDelegateProofs` does it on *sets* of numbers
instead: `WFMin` gives every set of numbers a least element (`LeastNumber`), so a set that has
0 and with each number the next has them all (`InductiveSet`). From that follow that the
recursion has a solution (`StridesDefined`), that the numbers of a synopsis are
strided (`SynopsisNumsFacts`: each is the last one plus its stride, the first is `low`, the
last is one whose stride leaves `high`), that each stride halves what is left
(`StridedGrows`), and that a synopsis that stops early is the beginning of the one that does
not (`StridedContinues`), which is why delegate and `net::node` can make one together.

### Following the network

`ChainSyncProofs`, for any tree of blocks, any batch size, any peer, announced blocks in any
order.

| Theorem | Says | Hypotheses |
|---|---|---|
| `TypeCorrect` | `Spec => []TypeOK` | |
| `RequestsEndInTheTip` | `AsksFromTip`: the two halves of a synopsis read like one that ends in the last block known, from the request until the answer is handled | |
| `SyncsLeaveNoGap` | `SyncLeavesNoGap`: the ids to fetch follow each other and the block handled last, unless that block is not in our chain | |
| `AnswersContinue` | `RepliesContinue`: an answer begins in the last block of the request that the peer has | |
| `RefusalsAreBeyondUndo` | a peer that has the last block we cannot undo does not refuse us | |
| `SyncedBlocksAreNext` | `SyncBlocksLink`: no block of a sync is ignored | `PeerMayFork = FALSE`, `PushMayFail = FALSE` |

`RequestsEndInTheTip` says more than the run does: `AsksFromTip` is checked by
`sync_catches_up` on one chain, and holds with forks, failures and reconnections as well.
The hypotheses of `SyncedBlocksAreNext` are the conditions its property names; a
block that fails, or that a fork brings, is not the next one.

* `SessionInv`: the ids to fetch follow each other and the block handled last, unless that
  block is not in our chain (`Away`), when the delegate throws and nothing is asked.
* `RequestInv`: each block of a request is in our chain, is still to fetch, or was handled
  and not pushed (then `Away`); the request is in order and begins with a block that we
  cannot undo. This has to hold until the answer arrives, while blocks are pushed: a block
  that leaves `toGet` joins the chain or is the one that is away, and blocks after one that is
  away cannot be pushed.
* `ReplyInv`: an answer has no gaps and begins in the request, so what it adds to the ids to
  fetch goes on from one of them or from our head.
* `FollowInv`, for `SyncedBlocksAreNext`: the peer is ahead of us on our chain, so every block
  of the request is on its chain and the answer begins in the last of them, which is the
  last id to fetch or, if there is none, our head.

### Monitors, life cycle, variants

| Theorem | Says | Hypotheses |
|---|---|---|
| `TableMonitorsProofs!TypeCorrect` | `TypeOK` | |
| `SubscribersAlwaysKeepUp` | subscribers know the objects of the chain whenever nothing is being modified | `MayNestInTable = FALSE` |
| `ChangesAreTold` | a change is told from the object as the subscriber knew it | `MayNestInTable = FALSE` |
| `DestroyedMonitorsAreSilent` | a destroyed monitor is told nothing | |
| `NodeLifecycleProofs!TypeCorrect` | `TypeOK` | |
| `CallsAlwaysFindTheChain` | tasks and calls find the chain and the handler, and unless the node is being closed everything else they use | |
| `ClosingNeverDeadlocks` | when `~P2pHandler` and `net::node` wait for each other, the call they wait for is among the tasks that are run | |
| `StaticVariantProofs!TypeCorrect` | `TypeOK` | |
| `TagsTellTypes` | the tag tells the type of the object that is there, unless a replacing constructor threw | |
| `OnlyThrowingReplacesBreak` | undefined behaviour has only that cause | |
| `ComparisonsAlwaysAgree` | `operator<` and `operator==` order the variants of a list | |

For any number of monitors, tables, objects, values and nested modifications; of signals,
plugins and tasks; of variants, lists and throwing types. `monitors_nested` shows that
`MayNestInTable = FALSE` is needed.

* `AttachedInv`, `SessionInv`, `ModifyInv`, `PictureInv` (monitors): table monitors are attached
  for the monitors that exist; an undo session has saved every object that is being
  modified; no two modifications in progress are of one table, and until one throws each
  attached monitor has what it started from; a picture differs from the chain only in
  what the session of a modification that threw will restore. The last part makes undo,
  which goes through the same calls, the step that repairs the picture.
* `MembersInv`, `CallInv` (life cycle): what exists at each place of the main fiber, the
  chain outliving the handler; and `net::node` waits for exactly one call, which is
  among the tasks.
* `LifetimeInv` (variants): as long as nothing undefined has happened a built variant has
  the object its tag tells or, if its object could not be replaced, none.

### Lists, strings and queries

`ApiQueriesProofs`, for lists, literals, queries and programs of any size, any capacity of
`StrT` and any sets of classes, names and categorisations.

| Theorem | Says | Hypotheses |
|---|---|---|
| `ListsAlwaysObey` | `ListsObeyReference`: `indexOf`, `removeElement`, `slice`, `concatUnique`, `zip`, `index` and `Lookup` compute what their names say | |
| `SplitsAlwaysFindWords` | `SplitFindsWords`: a query is the literal as far as the capacity goes, and is cut into its words | |
| `MoreSpecificAlwaysLess` | an API is found under its name in every category that begins its own, and a further category adds no match | `PlainWords` |
| `AlwaysAllocatesTheOneNamed` | what is allocated is the one API named; a name that is unique and no category's allocates its API | `PlainWords` |

`PlainWords`: no name and no category is empty, has a delimiter in it or is longer than
`StrT`'s capacity. The code does not enforce the first two, and a query cannot name what
violates them: a word with a delimiter is two words once the query is split, and an
empty one is none. The third holds of every string that `StrT` made. TLC's instance satisfies
`PlainWords`.

The state invariants are small: `TextInv` (the literal is a string of characters) and
`DMarcInv` (a class declares each tag at most once, and its n-th API is advertised by its n-th
method). The second is what makes two equal APIs in a list the same one, so that a unique name
has exactly one match, and what makes the lookup of a tag find the list that a declaration
extended.

The work is in the recursions. `RecursionUpTo` and `RecursionDownFrom` show once that a function
that goes along a list, forwards or on the way back, has a solution: partial solutions agree,
by `InductionUpTo`, so they have a union. Each template then has a lemma that its function exists and satisfies
its equation (`IndexOfRecursion`, `FilterRecursion`, `SplitRecursion`...), and one with its closed form, by
`InductionUpTo` or `InductionDownFrom` on the set of indexes where the form is right
(`IndexOfFacts`, `SliceFacts`, `FilterFacts`...).

* Splitting: after n characters the result has the words that end before the n-th, numbered
  in order, and the open word starts behind the last delimiter (`SplitRight`). A
  delimiter either ends no word (`NoWordEnds`) or one that comes after all the others (`WordEnds`,
  `WordCollected`).
* Queries: a query as it is written is split into its words again (`SplitWritten`), so what the
  filters compare are the words (`QueryFacts`); matching of categorisations is being a
  prefix (`MatchIsPrefix`); so what is found is what is named (`FindFacts`). That a query stays
  within the capacity when a category is dropped is `CategoryLengthens`.

### Checked by TLC only

* Liveness (`CatchesUp`, `SigintEndsTheNode`, `SearchesAreServed`), which is out of reach of
  the prover.
* `WalkVisitsEveryPath` and `PathsLeadToModules`: the walk and `FetchSubmodule` recurse through
  operators that take an accumulator and a path, along the tree of the program, and not along
  one list; the prover does not take `RECURSIVE` operators, and as functions they would need
  the induction over the tree as well as that over the lists of submodules.
* That a theorem's hypotheses are needed: the runs that expect a violation.

## 5. What is not modelled

* The methods of `ApiManager`: declared and not defined. Its `Info::Advertisements`
  concatenates the walks themselves and not their `Type`, and `concat` takes at
  least two lists, so the class cannot be instantiated as it stands.
* Reflection: macros that nothing uses; they build lists with `add_list`, which
  `TypeList::builder` does not have.
* `apply`, `prepend`, `builder`, `InvertFilter`, `IsValid` and `ForEach` of `TypeList`, and `tycat`
  of `StringT`: aliases and helpers without a decision of their own.
* `get_block_time`, `get_head_block_id` and the like: they read one value.
* Transactions: the slot of `transactionReceived` only logs.
* Logging and the layout of the dump. The dump's place among the tasks and the
  objects it reads are modelled.
* A contract's own code: the outcomes of `registerContract`, the code it leaves in the
  chain and the objects are modelled.
* `ExampleContract` is empty.
* A `persistence.open` that throws: it is taken to succeed, see section 3.
* `setConfigPath`: nothing in the repository calls it, so the path never changes
  between the opening of the two databases.

## 6. Plan

Done, in this order, from the state that a crash can corrupt to the code that
only a programmer can misuse: registry and its proofs, delegate, sync, monitors, life
cycle, variants; then the chain's tables, objects and genesis as state of the registry with
their proofs, and the lists, module tree and API queries.

Then the proofs of the other components: monitors, life cycle and variants, the delegate
with the recursion of its synopsis, following the network, and at last the lists, the
strings and the queries.

Next:

1. An abstract follower (a chain that grows towards another) as a specification that
   `ChainSync` refines, from `SyncsLeaveNoGap` and `FollowInv`.
2. The walk over the tree of modules as a function on paths, for proofs of
   `WalkVisitsEveryPath` and `PathsLeadToModules` by induction along `MayContain`.
