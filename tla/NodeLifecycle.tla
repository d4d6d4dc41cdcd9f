----------------------------- MODULE NodeLifecycle -----------------------------
(***************************************************************************)
(* ContractNode from run() to its destruction: the main fiber, the tasks   *)
(* that other threads post to the main thread, the thread of net::node     *)
(* that waits for its calls of the delegate, and the thread of asio that   *)
(* runs the signal handler.                                                *)
(*                                                                         *)
(* Fibers of the main thread run until they wait.  fc is external: while   *)
(* the main fiber waits, posted tasks run in the order they were posted,   *)
(* and once what it waits for is there it may resume before them.          *)
(***************************************************************************)
EXTENDS Naturals, Sequences

CONSTANTS
    Plugins,     \* libraries that are put into the plugin directory
    MaxSignals,  \* bound: signals that are sent
    MaxTasks     \* bound: tasks waiting for the main thread

ASSUME BoundsAssumption == MaxSignals \in Nat /\ MaxTasks \in Nat

VARIABLES
    main,        \* where the main fiber is
    exitCode,    \* what run() returned
    members,     \* members of ContractNode that exist
    exitPromise, \* "none", "unset" or "set"
    handler,     \* the signal handler: not "armed", "armed", or with a signal
    pending,     \* signals sent to the process and not yet handled
    sent,        \* how many were sent
    tasks,       \* what waits for the main thread
    netCall,     \* is net::node waiting for the delegate?
    directory,   \* plugins in the directory
    loadedLibraries \* those loaded: their code is in the chain

asio == <<handler, pending, sent>>
plugins == <<directory, loadedLibraries>>
vars == <<main, exitCode, members, exitPromise, asio, tasks, netCall, plugins>>

Signals == {"SIGINT", "SIGUSR1", "SIGUSR2"}

\* Members that are destroyed in the reverse of their order in the class.
Members == <<"chainHandler", "p2pHandler", "signalSet", "contractMonitors",
             "loadedLibraries", "exitPromise">>

\* The chain calls code of the contracts in it: evaluators, indexes, objects.
ContractCode == IF loadedLibraries = {} THEN {} ELSE {"loadedLibraries"}

\* Members that a task or a call uses.
Uses(task) ==
    CASE task = "search" -> {"chainHandler", "contractMonitors", "loadedLibraries"}
      [] task = "dump"   -> {"chainHandler"} \cup ContractCode
      [] task = "block"  -> {"chainHandler", "p2pHandler"} \cup ContractCode

Running == main \notin {"ended", "killed"}

Init ==
    /\ main = "initializing"
    /\ exitCode = 0
    /\ members = {"contractMonitors", "loadedLibraries", "exitPromise"}
    /\ exitPromise = "none"
    /\ handler = "none"
    /\ pending = {}
    /\ sent = 0
    /\ tasks = <<>>
    /\ netCall = FALSE
    /\ directory = {}
    /\ loadedLibraries = {}

-----------------------------------------------------------------------------
(* run(), on the main fiber *)

\* The chain is created, plugins are searched for and the chain is opened; the
\* main fiber does not wait meanwhile.
InitializeBlockchain ==
    /\ main = "initializing"
    /\ members' = members \cup {"chainHandler"}
    /\ loadedLibraries' = loadedLibraries \cup directory
    /\ \/ main' = "connecting" /\ UNCHANGED exitCode
       \/ main' = "returned" /\ exitCode' = 1
    /\ UNCHANGED <<exitPromise, asio, tasks, netCall, directory>>

\* net::node is created, with its thread, or its construction throws.
CreateNode ==
    /\ main = "connecting"
    /\ \/ /\ members' = members \cup {"p2pHandler"}
          /\ main' = "syncing"
          /\ UNCHANGED exitCode
       \/ main' = "returned" /\ exitCode' = 1 /\ UNCHANGED members
    /\ UNCHANGED <<exitPromise, asio, tasks, netCall, plugins>>

\* The main fiber has waited for it to connect to seeds and to start a sync.
SyncFrom ==
    /\ main = "syncing"
    /\ \/ main' = "stable" /\ UNCHANGED exitCode
       \/ main' = "returned" /\ exitCode' = 1
    /\ UNCHANGED <<members, exitPromise, asio, tasks, netCall, plugins>>

\* The promise is made before the handler that sets it.
waitForExit ==
    /\ main = "stable"
    /\ main' = "waiting"
    /\ exitPromise' = "unset"
    /\ members' = members \cup {"signalSet"}
    /\ handler' = "armed"
    /\ UNCHANGED <<exitCode, pending, sent, tasks, netCall, plugins>>

Return ==
    /\ main = "waiting"
    /\ exitPromise = "set"
    /\ main' = "returned"
    /\ exitCode' = 0
    /\ UNCHANGED <<members, exitPromise, asio, tasks, netCall, plugins>>

-----------------------------------------------------------------------------
(* ~ContractNode *)

\* Mutant: members go in the order of their declaration.
MutantInOrder(member) ==
    \A n \in DOMAIN Members : Members[n] = member =>
        \A k \in 1..(n - 1) : Members[k] \notin members

\* The members after this one in the class are gone.
IsLast(member) ==
    \A n \in DOMAIN Members : Members[n] = member =>
        \A k \in (n + 1)..Len(Members) : Members[k] \notin members

\* The promise, while the signal handler may still set it.
DestroyExitPromise ==
    /\ main = "returned"
    /\ "exitPromise" \in members
    /\ IsLast("exitPromise")
    /\ members' = members \ {"exitPromise"}
    /\ exitPromise' = "none"
    /\ UNCHANGED <<main, exitCode, asio, tasks, netCall, plugins>>

\* The libraries, whose code stays registered with the chain, and the monitors.
DestroyMember(member) ==
    /\ main = "returned"
    /\ member \in {"contractMonitors", "loadedLibraries"} \cap members
    /\ IsLast(member)
    /\ members' = members \ {member}
    /\ UNCHANGED <<main, exitCode, exitPromise, asio, tasks, netCall, plugins>>

\* The wait for signals is cancelled: a handler that has not been given a
\* signal is called with operation_aborted, and returns.
DestroySignalSet ==
    /\ main = "returned"
    /\ "signalSet" \in members
    /\ IsLast("signalSet")
    /\ members' = members \ {"signalSet"}
    /\ handler' = IF handler = "armed" THEN "none" ELSE handler
    /\ pending' = {}
    /\ UNCHANGED <<main, exitCode, exitPromise, sent, tasks, netCall, plugins>>

\* ~P2pHandler closes net::node, and waits for its thread.
CloseNode ==
    /\ main = "returned"
    /\ "p2pHandler" \in members
    /\ IsLast("p2pHandler")
    /\ main' = "closing"
    /\ UNCHANGED <<exitCode, members, exitPromise, asio, tasks, netCall, plugins>>

\* The thread of net::node ends once its call has been answered.
NodeClosed ==
    /\ main = "closing"
    /\ ~ netCall
    /\ main' = "returned"
    /\ members' = members \ {"p2pHandler"}
    /\ UNCHANGED <<exitCode, exitPromise, asio, tasks, netCall, plugins>>

\* ~ChainHandler saves the databases, and the process ends.
DestroyChainHandler ==
    /\ main = "returned"
    /\ "chainHandler" \in members
    /\ IsLast("chainHandler")
    /\ members' = members \ {"chainHandler"}
    /\ main' = IF members' = {} THEN "ended" ELSE main
    /\ UNCHANGED <<exitCode, exitPromise, asio, tasks, netCall, plugins>>

-----------------------------------------------------------------------------
(* Other threads *)

\* A library is put into the plugin directory.
InstallPlugin(p) ==
    /\ p \notin directory
    /\ directory' = directory \cup {p}
    /\ UNCHANGED <<main, exitCode, members, exitPromise, asio, tasks, netCall,
                   loadedLibraries>>

\* A signal ends the process while there is no signal set: before the node
\* is stable, and again once its destruction has begun.
Signal(s) ==
    /\ sent < MaxSignals
    /\ sent' = sent + 1
    /\ IF "signalSet" \in members
       THEN pending' = pending \cup {s} /\ UNCHANGED main
       ELSE main' = "killed" /\ UNCHANGED pending
    /\ UNCHANGED <<exitCode, members, exitPromise, handler, tasks, netCall, plugins>>

Post(task) ==
    /\ Len(tasks) < MaxTasks
    /\ tasks' = Append(tasks, task)

\* The handler is given a signal; from here on it is not the destruction of
\* the signal set that ends it.
TakeSignal(s) ==
    /\ handler = "armed"
    /\ s \in pending
    /\ handler' = s
    /\ pending' = pending \ {s}
    /\ UNCHANGED <<main, exitCode, members, exitPromise, sent, tasks, netCall, plugins>>

\* The exit is not left to the main thread.  Setting a promise that has been
\* destroyed is undefined: it ends the process, or nothing comes of it.
SetExitPromise ==
    IF exitPromise = "none"
    THEN main' \in {main, "killed"} /\ UNCHANGED exitPromise
    ELSE exitPromise' = "set" /\ UNCHANGED main

\* What the signal is for.
ActOnSignal ==
    \/ handler = "SIGINT" /\ SetExitPromise /\ UNCHANGED tasks
    \/ handler = "SIGUSR1" /\ Post("search") /\ UNCHANGED <<main, exitPromise>>
    \/ handler = "SIGUSR2" /\ Post("dump") /\ UNCHANGED <<main, exitPromise>>

HandleSignal ==
    /\ ActOnSignal
    /\ handler' = "handled"
    /\ UNCHANGED <<exitCode, members, pending, sent, netCall, plugins>>

\* Mutant: one signal is enough.
MutantStaysOff == "none"

\* Mutant: it does not ask for the signal set.
MutantRearmsAnyway == "armed"

\* The handler waits for the next signal, as long as there is a signal set.
Rearmed == IF "signalSet" \in members THEN "armed" ELSE "none"

RearmHandler ==
    /\ handler = "handled"
    /\ handler' = Rearmed
    /\ UNCHANGED <<main, exitCode, members, exitPromise, pending, sent, tasks,
                   netCall, plugins>>

\* net::node calls the delegate, on the main thread, and waits.  It is external,
\* and taken to make no new call once it is being closed.
CallDelegate ==
    /\ "p2pHandler" \in members
    /\ Running /\ main # "closing"
    /\ ~ netCall
    /\ Post("block")
    /\ netCall' = TRUE
    /\ UNCHANGED <<main, exitCode, members, exitPromise, asio, plugins>>

-----------------------------------------------------------------------------
(* Tasks, on the main thread *)

\* Mutant: the destructor does not let other fibers run.
MutantNotWhileClosing == main = "waiting"

\* The main fiber waits, for its exit or for the thread of net::node.
MainFiberWaits == main \in {"syncing", "waiting", "closing"}

\* A task that finds something it uses destroyed has no defined effect: here
\* nothing comes of it, in CallUnmappedCode it ends the process.
RunTask ==
    /\ MainFiberWaits
    /\ tasks # <<>>
    /\ tasks' = Tail(tasks)
    /\ netCall' = (netCall /\ Head(tasks) # "block")
    /\ loadedLibraries' = IF Head(tasks) = "search" /\ Uses("search") \subseteq members
                          THEN loadedLibraries \cup directory ELSE loadedLibraries
    /\ UNCHANGED <<main, exitCode, members, exitPromise, asio, directory>>

\* Does the main thread use what is destroyed?  Tasks are run in ~P2pHandler,
\* and monitors are taken off their indexes and the chain is closed, when the
\* code of the contracts is gone.
UsesDestroyed ==
    \/ MainFiberWaits /\ tasks # <<>> /\ ~ (Uses(Head(tasks)) \subseteq members)
    \/ main = "returned" /\ ~ (ContractCode \subseteq members)

CallUnmappedCode ==
    /\ UsesDestroyed
    /\ main' = "killed"
    /\ UNCHANGED <<exitCode, members, exitPromise, asio, tasks, netCall, plugins>>

MainFiber ==
    \/ InitializeBlockchain
    \/ CreateNode
    \/ SyncFrom
    \/ waitForExit
    \/ Return
    \/ DestroyExitPromise
    \/ DestroyMember("loadedLibraries")
    \/ DestroyMember("contractMonitors")
    \/ DestroySignalSet
    \/ CloseNode
    \/ NodeClosed
    \/ DestroyChainHandler

Asio ==
    \/ \E s \in Signals : TakeSignal(s)
    \/ HandleSignal
    \/ RearmHandler

Next ==
    \/ MainFiber
    \/ Running /\ Asio
    \/ RunTask
    \/ CallUnmappedCode
    \/ CallDelegate
    \/ \E s \in Signals : Running /\ Signal(s)
    \/ \E p \in Plugins : Running /\ InstallPlugin(p)

Spec == Init /\ [][Next]_vars

\* The threads keep running, and a fiber that can run does so at some time.
FairSpec ==
    /\ Spec
    /\ WF_vars(MainFiber)
    /\ WF_vars(Running /\ Asio)
    /\ WF_vars(RunTask)

-----------------------------------------------------------------------------
(* Properties *)

TypeOK ==
    /\ main \in {"initializing", "connecting", "syncing", "stable", "waiting", "returned",
                 "closing", "ended", "killed"}
    /\ exitCode \in {0, 1}
    /\ members \subseteq {Members[n] : n \in DOMAIN Members}
    /\ exitPromise \in {"none", "unset", "set"}
    /\ handler \in Signals \cup {"none", "armed", "handled"}
    /\ handler = "armed" => "signalSet" \in members
    /\ pending \subseteq Signals
    /\ sent \in 0..MaxSignals
    /\ tasks \in Seq({"search", "dump", "block"}) /\ Len(tasks) <= MaxTasks
    /\ netCall \in BOOLEAN
    /\ loadedLibraries \subseteq directory /\ directory \subseteq Plugins

\* Whatever net::node still asks of the delegate, and whatever else is still
\* waiting, finds the chain and the handler when it uses them, up to the moment
\* when the thread of net::node has ended: the handler is destroyed before the
\* chain that it reads and that the slot of blockReceived pushes to, although
\* that slot is never disconnected.  Before run() has returned, tasks find
\* everything they use.  Once the node is being closed they do not: the code
\* of contracts that blocks and dumps call, and the lists that searches fill,
\* are gone by then.
CallsFindTheChain ==
    MainFiberWaits =>
        \A n \in DOMAIN tasks :
            LET missing == Uses(tasks[n]) \ members
            IN  /\ missing \cap {"chainHandler", "p2pHandler"} = {}
                /\ missing # {} => main = "closing"

\* A SIGINT ends a stable node, whatever the main thread and net::node are
\* doing: nobody waits for somebody who waits for him (exitPromise, the calls
\* of the delegate, ~P2pHandler).
SigintEndsTheNode == "SIGINT" \in pending ~> ~ Running

\* A plugin that was there when SIGUSR1 was sent is loaded at last, unless the
\* node ends, although signals that are sent meanwhile are merged with those
\* that wait ("searching for new plugins").
SearchesAreServed ==
    \A p \in Plugins :
        "SIGUSR1" \in pending /\ p \in directory ~> p \in loadedLibraries \/ ~ Running
================================================================================
