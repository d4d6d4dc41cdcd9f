-------------------------- MODULE NodeLifecycleProofs --------------------------
(***************************************************************************)
(* Proofs about NodeLifecycle for any plugins, any number of signals and   *)
(* any number of tasks that wait.                                          *)
(***************************************************************************)
EXTENDS NodeLifecycle, SequenceTheorems, TLAPS

USE BoundsAssumption

Tasks == {"search", "dump", "block"}
MemberNames == {"chainHandler", "p2pHandler", "signalSet", "contractMonitors",
                "loadedLibraries", "exitPromise"}

-----------------------------------------------------------------------------
(* The inductive invariant *)

\* What exists while the main fiber is where it is.  Once run() has returned
\* the members go, the chain after the handler that reads it.
MembersInv ==
    /\ main \in {"initializing", "connecting", "syncing", "stable", "waiting"} =>
          {"contractMonitors", "loadedLibraries"} \subseteq members
    /\ main \in {"connecting", "syncing", "stable", "waiting"} => "chainHandler" \in members
    /\ main \in {"syncing", "stable", "waiting", "closing"} => "p2pHandler" \in members
    /\ "p2pHandler" \in members => "chainHandler" \in members

\* net::node waits for one call at most, and that call is on its way.
CallInv ==
    /\ \A n, k \in DOMAIN tasks : tasks[n] = "block" /\ tasks[k] = "block" => n = k
    /\ netCall <=> \E n \in DOMAIN tasks : tasks[n] = "block"

IInv == TypeOK /\ MembersInv /\ CallInv

-----------------------------------------------------------------------------
(* Lemmas *)

LEMMA MembersList ==
  /\ Len(Members) = 6 /\ DOMAIN Members = 1..6
  /\ Members[1] = "chainHandler" /\ Members[2] = "p2pHandler" /\ Members[3] = "signalSet"
  /\ Members[4] = "contractMonitors" /\ Members[5] = "loadedLibraries"
  /\ Members[6] = "exitPromise"
  BY DEF Members

LEMMA MembersSet == {Members[n] : n \in DOMAIN Members} = MemberNames
<1>1. DOMAIN Members = {1, 2, 3, 4, 5, 6}
  BY MembersList
<1> QED BY <1>1, MembersList DEF MemberNames

\* The chain is destroyed after the handler.
LEMMA ChainIsLast ==
  ASSUME IsLast("chainHandler")
  PROVE  "p2pHandler" \notin members
<1>1. 1 \in DOMAIN Members /\ 2 \in (1 + 1)..Len(Members)
  BY MembersList
<1> QED BY <1>1, MembersList DEF IsLast

\* Posting a task, and taking one.
LEMMA PostFacts ==
  ASSUME TypeOK, NEW task \in Tasks, Post(task)
  PROVE  /\ tasks' \in Seq(Tasks) /\ Len(tasks') <= MaxTasks
         /\ Len(tasks) \in Nat /\ DOMAIN tasks = 1..Len(tasks)
         /\ DOMAIN tasks' = 1..(Len(tasks) + 1)
         /\ \A n \in 1..Len(tasks) : tasks'[n] = tasks[n]
         /\ tasks'[Len(tasks) + 1] = task
  BY DEF Post, TypeOK, Tasks

LEMMA TailFacts ==
  ASSUME TypeOK, tasks # <<>>, tasks' = Tail(tasks)
  PROVE  /\ tasks' \in Seq(Tasks) /\ Len(tasks') <= MaxTasks
         /\ Len(tasks) \in Nat \ {0} /\ DOMAIN tasks = 1..Len(tasks)
         /\ DOMAIN tasks' = 1..(Len(tasks) - 1)
         /\ \A n \in 1..(Len(tasks) - 1) : tasks'[n] = tasks[n + 1]
         /\ Head(tasks) = tasks[1]
<1>1. tasks \in Seq(Tasks) /\ Len(tasks) <= MaxTasks
  BY DEF TypeOK, Tasks
<1>2. /\ tasks' \in Seq(Tasks) /\ Len(tasks') = Len(tasks) - 1
      /\ \A n \in 1..Len(tasks') : tasks'[n] = tasks[n + 1]
  BY <1>1, HeadTailProperties
<1>3. Len(tasks) \in Nat \ {0} /\ DOMAIN tasks = 1..Len(tasks) /\ DOMAIN tasks' = 1..Len(tasks')
  BY <1>1, <1>2, EmptySeq, LenProperties
<1>4. Head(tasks) = tasks[1]
  BY <1>1 DEF Head
<1> QED BY <1>1, <1>2, <1>3, <1>4

-----------------------------------------------------------------------------
(* Each part of the invariant holds after every step *)

LEMMA TypeStep == TypeOK /\ [Next]_vars => TypeOK'
<1> SUFFICES ASSUME TypeOK, [Next]_vars
             PROVE  TypeOK'
  OBVIOUS
<1> USE MembersSet DEF TypeOK, MemberNames, Signals
<1>1. ASSUME MainFiber
      PROVE  TypeOK'
  <2>1. CASE InitializeBlockchain
    BY <2>1 DEF InitializeBlockchain, asio
  <2>2. CASE CreateNode
    BY <2>2 DEF CreateNode, asio, plugins
  <2>3. CASE SyncFrom
    BY <2>3 DEF SyncFrom, asio, plugins
  <2>4. CASE waitForExit
    BY <2>4 DEF waitForExit, plugins
  <2>5. CASE Return
    BY <2>5 DEF Return, asio, plugins
  <2>6. ASSUME NEW member \in {"loadedLibraries", "contractMonitors"}, DestroyMember(member)
        PROVE  TypeOK'
    BY <2>6 DEF DestroyMember, asio, plugins
  <2>7. CASE DestroySignalSet
    BY <2>7 DEF DestroySignalSet, plugins
  <2>8. CASE CloseNode \/ NodeClosed
    BY <2>8 DEF CloseNode, NodeClosed, asio, plugins
  <2>9. CASE DestroyChainHandler
    BY <2>9 DEF DestroyChainHandler, asio, plugins
  <2>10. CASE DestroyExitPromise
    BY <2>10 DEF DestroyExitPromise, asio, plugins
  <2> QED BY <1>1, <2>1, <2>2, <2>3, <2>4, <2>5, <2>6, <2>7, <2>8, <2>9, <2>10 DEF MainFiber
<1>2. ASSUME Asio
      PROVE  TypeOK'
  <2>1. ASSUME NEW s \in Signals, TakeSignal(s)
        PROVE  TypeOK'
    BY <2>1 DEF TakeSignal, plugins
  <2>2. CASE HandleSignal
    <3>1. /\ exitPromise' \in {"none", "unset", "set"} /\ main' \in {main, "killed"}
          /\ tasks' \in Seq({"search", "dump", "block"}) /\ Len(tasks') <= MaxTasks
      BY <2>2, PostFacts DEF HandleSignal, ActOnSignal, SetExitPromise, Tasks
    <3> QED BY <2>2, <3>1 DEF HandleSignal, plugins
  <2>3. CASE RearmHandler
    BY <2>3 DEF RearmHandler, Rearmed, plugins
  <2> QED BY <1>2, <2>1, <2>2, <2>3 DEF Asio
<1>3. CASE RunTask
  <2>1. tasks' \in Seq({"search", "dump", "block"}) /\ Len(tasks') <= MaxTasks
    BY <1>3, TailFacts DEF RunTask, Tasks
  <2> QED BY <1>3, <2>1 DEF RunTask, asio
<1>4. CASE CallDelegate
  <2>1. tasks' \in Seq({"search", "dump", "block"}) /\ Len(tasks') <= MaxTasks
    BY <1>4, PostFacts DEF CallDelegate, Tasks
  <2> QED BY <1>4, <2>1 DEF CallDelegate, asio, plugins
<1>5. ASSUME NEW s \in Signals, Signal(s)
      PROVE  TypeOK'
  <2>1. sent' \in 0..MaxSignals
    BY <1>5 DEF Signal
  <2>2. CASE "signalSet" \in members
    BY <1>5, <2>1, <2>2, ZenonT(60) DEF Signal, plugins
  <2>3. CASE "signalSet" \notin members
    BY <1>5, <2>1, <2>3 DEF Signal, plugins
  <2> QED BY <2>2, <2>3
<1>6. ASSUME NEW p \in Plugins, InstallPlugin(p)
      PROVE  TypeOK'
  BY <1>6 DEF InstallPlugin, asio
<1>7. CASE CallUnmappedCode
  BY <1>7 DEF CallUnmappedCode, asio, plugins
<1>8. CASE UNCHANGED vars
  BY <1>8 DEF vars, asio, plugins
<1> QED BY <1>1, <1>2, <1>3, <1>4, <1>5, <1>6, <1>7, <1>8 DEF Next

LEMMA MembersStep == TypeOK /\ MembersInv /\ [Next]_vars => MembersInv'
<1> SUFFICES ASSUME TypeOK, MembersInv, [Next]_vars
             PROVE  MembersInv'
  OBVIOUS
<1>1. ASSUME MainFiber
      PROVE  MembersInv'
  <2>1. CASE InitializeBlockchain \/ CreateNode \/ SyncFrom \/ waitForExit \/ Return
    BY <2>1 DEF InitializeBlockchain, CreateNode, SyncFrom, waitForExit, Return, MembersInv
  <2>2. ASSUME NEW member \in {"loadedLibraries", "contractMonitors"}, DestroyMember(member)
        PROVE  MembersInv'
    BY <2>2 DEF DestroyMember, MembersInv
  <2>3. CASE DestroySignalSet \/ CloseNode \/ NodeClosed
    BY <2>3 DEF DestroySignalSet, CloseNode, NodeClosed, MembersInv
  <2>4. CASE DestroyChainHandler
    BY <2>4, ChainIsLast DEF DestroyChainHandler, MembersInv
  <2>5. CASE DestroyExitPromise
    BY <2>5 DEF DestroyExitPromise, MembersInv
  <2> QED BY <1>1, <2>1, <2>2, <2>3, <2>4, <2>5 DEF MainFiber
<1>2. ASSUME main' \in {main, "killed"}, members' = members
      PROVE  MembersInv'
  BY <1>2 DEF MembersInv
<1>3. CASE Asio
  BY <1>2, <1>3 DEF Asio, TakeSignal, HandleSignal, ActOnSignal, SetExitPromise, RearmHandler
<1>4. CASE RunTask \/ CallUnmappedCode \/ CallDelegate \/ \E p \in Plugins : InstallPlugin(p)
  BY <1>2, <1>4 DEF RunTask, CallUnmappedCode, CallDelegate, InstallPlugin
<1>5. CASE \E s \in Signals : Signal(s)
  BY <1>2, <1>5 DEF Signal
<1>6. CASE UNCHANGED vars
  BY <1>2, <1>6 DEF vars
<1> QED BY <1>1, <1>3, <1>4, <1>5, <1>6 DEF Next

LEMMA CallStep == TypeOK /\ CallInv /\ [Next]_vars => CallInv'
<1> SUFFICES ASSUME TypeOK, CallInv, [Next]_vars
             PROVE  CallInv'
  OBVIOUS
<1>1. CASE UNCHANGED <<tasks, netCall>>
  BY <1>1 DEF CallInv
<1>2. CASE MainFiber
  BY <1>1, <1>2 DEF MainFiber, InitializeBlockchain, CreateNode, SyncFrom, waitForExit, Return,
        DestroyExitPromise, DestroyMember, DestroySignalSet, CloseNode, NodeClosed, DestroyChainHandler
<1>3. ASSUME NEW task \in {"search", "dump"}, Post(task), netCall' = netCall
      PROVE  CallInv'
  BY <1>3, PostFacts, SMTT(30) DEF CallInv, Tasks
<1>4. CASE HandleSignal
  BY <1>1, <1>3, <1>4 DEF HandleSignal, ActOnSignal
<1>5. CASE CallDelegate
  <2>1. Post("block") /\ ~ netCall /\ netCall'
    BY <1>5 DEF CallDelegate
  <2> QED BY <2>1, PostFacts DEF CallInv, Tasks
<1>6. CASE RunTask
  <2>1. tasks # <<>> /\ tasks' = Tail(tasks) /\ netCall' = (netCall /\ tasks[1] # "block")
    BY <1>6, TailFacts DEF RunTask
  <2>2. /\ Len(tasks) \in Nat \ {0} /\ DOMAIN tasks = 1..Len(tasks)
        /\ DOMAIN tasks' = 1..(Len(tasks) - 1)
        /\ \A n \in 1..(Len(tasks) - 1) : tasks'[n] = tasks[n + 1]
    BY <2>1, TailFacts
  <2>3. \A n, k \in DOMAIN tasks' : tasks'[n] = "block" /\ tasks'[k] = "block" => n = k
    BY <2>2, SMTT(30) DEF CallInv
  <2>4. ASSUME netCall'
        PROVE  \E n \in DOMAIN tasks' : tasks'[n] = "block"
    <3>1. PICK n \in DOMAIN tasks : tasks[n] = "block"
      BY <2>1, <2>4 DEF CallInv
    <3>2. n # 1
      BY <2>1, <2>4, <3>1
    <3>3. n - 1 \in DOMAIN tasks' /\ tasks'[n - 1] = tasks[(n - 1) + 1] /\ (n - 1) + 1 = n
      BY <2>2, <3>1, <3>2
    <3> QED BY <3>1, <3>3
  <2>5. ASSUME NEW n \in DOMAIN tasks', tasks'[n] = "block"
        PROVE  netCall'
    <3>1. n + 1 \in DOMAIN tasks /\ tasks[n + 1] = "block" /\ 1 \in DOMAIN tasks
      BY <2>2, <2>5
    <3>2. n + 1 # 1
      BY <2>2, <2>5
    <3> QED BY <2>1, <3>1, <3>2 DEF CallInv
  <2> QED BY <2>3, <2>4, <2>5 DEF CallInv, TypeOK
<1>7. CASE Asio \/ CallUnmappedCode \/ (\E s \in Signals : Signal(s))
           \/ (\E p \in Plugins : InstallPlugin(p))
  BY <1>1, <1>4, <1>7 DEF Asio, TakeSignal, RearmHandler, CallUnmappedCode, Signal, InstallPlugin
<1>8. CASE UNCHANGED vars
  BY <1>1, <1>8 DEF vars
<1> QED BY <1>2, <1>5, <1>6, <1>7, <1>8 DEF Next

LEMMA InvariantInit == Init => IInv
<1> SUFFICES ASSUME Init
             PROVE  IInv
  OBVIOUS
<1>1. TypeOK
  <2>1. tasks \in Seq({"search", "dump", "block"}) /\ Len(tasks) <= MaxTasks
    BY EmptySeq DEF Init
  <2>2. members \subseteq {Members[n] : n \in DOMAIN Members}
    BY MembersSet DEF Init, MemberNames
  <2>3. sent \in 0..MaxSignals
    BY DEF Init
  <2> QED BY <2>1, <2>2, <2>3 DEF Init, TypeOK
<1>2. MembersInv /\ CallInv
  BY DEF Init, MembersInv, CallInv
<1> QED BY <1>1, <1>2 DEF IInv

LEMMA InvariantHolds == Spec => []IInv
<1>1. IInv /\ [Next]_vars => IInv'
  BY TypeStep, MembersStep, CallStep DEF IInv
<1> QED BY InvariantInit, <1>1, PTL DEF Spec

-----------------------------------------------------------------------------
(* What the threads of the node can rely on *)

\* The threads leave the node in a state that is well typed; a handler that
\* waits for signals has a signal set to wait on (ContractNode::waitForExit).
THEOREM TypeCorrect == Spec => []TypeOK
<1>1. IInv => TypeOK
  BY DEF IInv
<1> QED BY <1>1, InvariantHolds, PTL

\* Whatever is posted to the main thread, at whatever moment of a start or of
\* an exit, finds the chain and the handler it uses when it is run; only once
\* the node is being closed may it find contracts' code or the lists of
\* libraries and monitors gone (~ContractNode, ~P2pHandler).
THEOREM CallsAlwaysFindTheChain == Spec => []CallsFindTheChain
<1>1. IInv => CallsFindTheChain
  <2> SUFFICES ASSUME IInv, MainFiberWaits, NEW n \in DOMAIN tasks
               PROVE  LET missing == Uses(tasks[n]) \ members
                      IN  /\ missing \cap {"chainHandler", "p2pHandler"} = {}
                          /\ missing # {} => main = "closing"
    BY DEF CallsFindTheChain
  <2> DEFINE missing == Uses(tasks[n]) \ members
  <2>1. tasks[n] \in Tasks
    BY LenProperties DEF IInv, TypeOK, Tasks
  <2>2. Uses(tasks[n]) \subseteq {"chainHandler", "p2pHandler", "contractMonitors", "loadedLibraries"}
    BY <2>1 DEF Uses, ContractCode, Tasks
  <2>3. "chainHandler" \in members /\ "p2pHandler" \in members
    BY DEF IInv, MembersInv, MainFiberWaits
  <2>4. main # "closing" => {"contractMonitors", "loadedLibraries"} \subseteq members
    BY DEF IInv, MembersInv, MainFiberWaits
  <2>5. missing \cap {"chainHandler", "p2pHandler"} = {}
    BY <2>3
  <2>6. missing # {} => main = "closing"
    BY <2>2, <2>3, <2>4
  <2> QED BY <2>5, <2>6
<1> QED BY <1>1, InvariantHolds, PTL

\* ~P2pHandler waits for the thread of net::node and that thread for its call
\* of the delegate: the call is then among the tasks, which the main thread
\* runs while it waits, so the two never wait for each other for nothing.
WaitIsServed ==
    main = "closing" /\ netCall =>
        MainFiberWaits /\ \E n \in DOMAIN tasks : tasks[n] = "block"

\* No state of an exit is one in which the main thread and that of net::node
\* wait for each other.
THEOREM ClosingNeverDeadlocks == Spec => []WaitIsServed
<1>1. IInv => WaitIsServed
  BY DEF IInv, CallInv, WaitIsServed, MainFiberWaits
<1> QED BY <1>1, InvariantHolds, PTL
================================================================================
