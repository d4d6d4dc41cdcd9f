------------------------- MODULE ContractRegistryProofs -------------------------
(***************************************************************************)
(* Proofs about ContractRegistry for any set of plugins and contracts and  *)
(* any width of the space ID.                                              *)
(***************************************************************************)
EXTENDS ContractRegistry, FiniteSets, FiniteSetTheorems, SequenceTheorems,
        WellFoundedInduction, TLAPS

-----------------------------------------------------------------------------
(* The least of a set of numbers *)

\* A well-founded relation has a minimal element in every set.
LEMMA MinimalElement ==
  ASSUME NEW R, IsWellFoundedOn(R, Nat), NEW T, T \subseteq Nat, T # {}
  PROVE  \E s \in T : \A t \in T : ~ (<<t, s>> \in R)
  BY WFMin, Zenon

\* A relation that puts the smaller number below the larger, and is well
\* founded, finds the least element of any set of numbers.
LEMMA LeastByRelation ==
  ASSUME NEW R, IsWellFoundedOn(R, Nat),
         \A t, s \in Nat : t < s => <<t, s>> \in R,
         NEW T, T \subseteq Nat, T # {}
  PROVE  \E s \in T : \A t \in T : s <= t
<1>1. \E s \in T : \A t \in T : ~ (<<t, s>> \in R)
  BY MinimalElement
<1>2. PICK s \in T : \A t \in T : ~ (<<t, s>> \in R)
  BY <1>1
<1>3. ASSUME NEW t \in T
      PROVE  s <= t
  <2>1. s \in Nat /\ t \in Nat
    BY <1>2
  <2>2. ~ (t < s)
    BY <2>1, <1>2, <1>3
  <2> QED BY <2>1, <2>2
<1> QED BY <1>2, <1>3

\* The relation is that of numbers themselves.
LEMMA LeastNumber ==
  ASSUME NEW T, T \subseteq Nat, T # {}
  PROVE  \E s \in T : \A t \in T : s <= t
<1>1. \A t, s \in Nat : t < s => <<t, s>> \in OpToRel(<, Nat)
  BY Zenon DEF OpToRel
<1> QED BY <1>1, NatLessThanWellFounded, LeastByRelation, ZenonT(30)

USE RegistryAssumption

-----------------------------------------------------------------------------
(* Lemmas about records *)

\* A space ID is a value of its type.
LEMMA SpaceType ==
  ASSUME NEW number \in Nat
  PROVE  contractObjectSpaceId(number) \in Spaces
  BY DEF contractObjectSpaceId, Spaces

\* Looking a contract up, or recording it, keeps every record and gives the
\* contract one.
LEMMA WithRecordFacts ==
  ASSUME NEW recs \in Seq(Contracts), NEW name \in Contracts
  PROVE  /\ WithRecord(recs, name) \in Seq(Contracts)
         /\ Extends(recs, WithRecord(recs, name))
         /\ \E i \in DOMAIN WithRecord(recs, name) :
               WithRecord(recs, name)[i] = name
<1>1. CASE \E i \in DOMAIN recs : recs[i] = name
  BY <1>1 DEF WithRecord, Extends
<1>2. CASE ~ \E i \in DOMAIN recs : recs[i] = name
  <2>1. WithRecord(recs, name) = Append(recs, name)
    BY <1>2 DEF WithRecord
  <2>2. /\ Append(recs, name) \in Seq(Contracts)
        /\ Len(Append(recs, name)) = Len(recs) + 1
        /\ \A i \in 1..Len(recs) : Append(recs, name)[i] = recs[i]
        /\ Append(recs, name)[Len(recs) + 1] = name
    OBVIOUS
  <2>3. DOMAIN recs = 1..Len(recs) /\ Len(recs) \in Nat
    OBVIOUS
  <2>4. DOMAIN Append(recs, name) = 1..(Len(recs) + 1)
    BY <2>2
  <2> QED BY <2>1, <2>2, <2>3, <2>4 DEF Extends
<1> QED BY <1>1, <1>2

\* The space of a recorded contract is that of one of its records.
LEMMA SpaceForFacts ==
  ASSUME NEW recs \in Seq(Contracts), NEW name \in Contracts,
         \E i \in DOMAIN recs : recs[i] = name
  PROVE  /\ SpaceFor(recs, name) \in Spaces
         /\ <<name, SpaceFor(recs, name)>> \in SpacesOf(recs)
<1> DEFINE j == CHOOSE i \in DOMAIN recs : recs[i] = name
<1>1. j \in DOMAIN recs /\ recs[j] = name
  OBVIOUS
<1>2. j \in 1..Len(recs)
  BY <1>1
<1>3. SpaceFor(recs, name) = contractObjectSpaceId(j - 1)
  BY DEF SpaceFor
<1>4. j - 1 \in Nat
  BY <1>2
<1> HIDE DEF j
<1>5. SpaceFor(recs, name) \in Spaces
  BY <1>3, <1>4, SpaceType
<1> QED BY <1>1, <1>3, <1>5 DEF SpacesOf

\* More records stand for more spaces.
LEMMA ExtendsSpaces ==
  ASSUME NEW old \in Seq(Contracts), NEW new \in Seq(Contracts),
         Extends(old, new)
  PROVE  SpacesOf(old) \subseteq SpacesOf(new)
<1>1. DOMAIN old \subseteq DOMAIN new
  BY DEF Extends
<1> QED BY <1>1 DEF SpacesOf, Extends

\* Records are extended step by step.
LEMMA ExtendsTransitive ==
  ASSUME NEW a \in Seq(Contracts), NEW b \in Seq(Contracts),
         NEW c \in Seq(Contracts), Extends(a, b), Extends(b, c)
  PROVE  Extends(a, c)
  BY DEF Extends

\* What recording the next plugin does.
LEMMA RecordedFacts ==
  ASSUME TypeOK, NEW p \in Plugins, Recorded(p)
  PROVE  /\ records' \in Seq(Contracts)
         /\ Extends(records, records')
         /\ SpaceFor(records', NameOf[p]) \in Spaces
         /\ <<NameOf[p], SpaceFor(records', NameOf[p])>> \in SpacesOf(records')
         /\ assigned' = assigned \cup {<<NameOf[p], SpaceFor(records', NameOf[p])>>}
         /\ assigned' \subseteq Contracts \X Spaces
         /\ chainIds' = chainIds
<1>1. NameOf[p] \in Contracts /\ records \in Seq(Contracts)
  BY DEF TypeOK
<1>2. records' = WithRecord(records, NameOf[p])
  BY DEF Recorded
<1>3. /\ records' \in Seq(Contracts)
      /\ Extends(records, records')
      /\ \E i \in DOMAIN records' : records'[i] = NameOf[p]
  BY <1>1, <1>2, WithRecordFacts
<1>4. /\ SpaceFor(records', NameOf[p]) \in Spaces
      /\ <<NameOf[p], SpaceFor(records', NameOf[p])>> \in SpacesOf(records')
  BY <1>1, <1>3, SpaceForFacts
<1> QED BY <1>1, <1>3, <1>4 DEF Recorded, TypeOK

\* Entering a contract keeps the map's type.
LEMMA EmplaceType ==
  ASSUME NEW map \in [Spaces -> Contracts \cup {NoContract}],
         NEW space \in Spaces, NEW name \in Contracts
  PROVE  Emplace(map, space, name) \in [Spaces -> Contracts \cup {NoContract}]
  BY DEF Emplace

\* The lowest space of a name exists when it has any.
LEMMA LowestSpace ==
  ASSUME NEW map, NEW name, Named(map, name) # {}
  PROVE  getSpaceId(map, name) \in Spaces /\ map[getSpaceId(map, name)] = name
<1>1. Named(map, name) \subseteq Nat
  BY DEF Named, Spaces
<1>2. \E s \in Named(map, name) : \A t \in Named(map, name) : s <= t
  BY <1>1, LeastNumber
<1> QED BY <1>2 DEF getSpaceId, Named

-----------------------------------------------------------------------------
(* Type correctness *)

\* A plugin that accepts keeps the types of what it changes.
LEMMA AcceptedType ==
  ASSUME TypeOK, NEW p \in Plugins, PluginAccepted(p), pluginPaths # <<>>
  PROVE  TypeOK'
<1> DEFINE name  == NameOf[p]
           space == SpaceFor(records', name)
<1>1. /\ records' \in Seq(Contracts)
      /\ space \in Spaces
      /\ assigned' \subseteq Contracts \X Spaces
      /\ chainIds' = chainIds
  BY RecordedFacts DEF PluginAccepted
<1>2. registered' \subseteq Plugins \X Spaces
  BY <1>1 DEF PluginAccepted, TypeOK
<1>3. loadedContracts' \in [Spaces -> Contracts \cup {NoContract}]
  <2>1. loadedContracts' = Emplace(loadedContracts, space, name)
    BY DEF PluginAccepted
  <2> QED BY <1>1, <2>1, EmplaceType DEF TypeOK
<1>4. /\ contractMonitors' \subseteq Plugins \X Spaces
      /\ pluginPaths' \in Seq(Plugins)
      /\ task' \in {"none", "search", "initialize", "genesis"}
      /\ phase' \in Phases
  <2>1. CASE /\ Named(loadedContracts', name) # {}
             /\ contractMonitors' = contractMonitors \cup
                                    {<<p, getSpaceId(loadedContracts', name)>>}
             /\ NextPlugin
    <3>1. getSpaceId(loadedContracts', name) \in Spaces
      BY <2>1, LowestSpace
    <3>2. contractMonitors' \subseteq Plugins \X Spaces
      BY <2>1, <3>1 DEF TypeOK
    <3> QED BY <2>1, <3>2 DEF TypeOK, NextPlugin
  <2>2. CASE /\ Named(loadedContracts', name) = {}
             /\ LeaveLoop("throwFc")
             /\ UNCHANGED contractMonitors
    BY <2>2 DEF TypeOK, LeaveLoop, Phases
  <2> QED BY <2>1, <2>2 DEF PluginAccepted
<1>5. UNCHANGED <<loadedLibraries, orphans, chain, durable>>
  BY DEF PluginAccepted
<1> QED BY <1>1, <1>2, <1>3, <1>4, <1>5 DEF TypeOK, chain, durable

\* So does code left behind by one that fails.
LEMMA OrphansType ==
  ASSUME TypeOK, NEW p \in Plugins, Recorded(p), FailsLate(p)
  PROVE  orphans' \subseteq Plugins \X Spaces
<1>1. SpaceFor(records', NameOf[p]) \in Spaces
  BY RecordedFacts
<1> QED BY <1>1 DEF FailsLate, TypeOK

\* So does one that rejects.
LEMMA RejectedType ==
  ASSUME TypeOK, NEW p \in Plugins, PluginRejected(p), pluginPaths # <<>>
  PROVE  TypeOK'
<1>1. /\ records' \in Seq(Contracts)
      /\ assigned' \subseteq Contracts \X Spaces
      /\ chainIds' = chainIds
      /\ orphans' \subseteq Plugins \X Spaces
  BY RecordedFacts, OrphansType DEF PluginRejected
<1>2. pluginPaths' \in Seq(Plugins) /\ UNCHANGED <<phase, task>>
  BY DEF PluginRejected, NextPlugin, TypeOK
<1> QED BY <1>1, <1>2 DEF PluginRejected, Rejected, TypeOK, chain, durable

\* So does one that throws.
LEMMA ThrowsType ==
  ASSUME TypeOK, NEW p \in Plugins, NEW outcome, PluginThrows(p, outcome)
  PROVE  TypeOK'
<1>1. /\ records' \in Seq(Contracts)
      /\ assigned' \subseteq Contracts \X Spaces
      /\ chainIds' = chainIds
      /\ orphans' \subseteq Plugins \X Spaces
  BY RecordedFacts, OrphansType DEF PluginThrows
<1>2. /\ pluginPaths' \in Seq(Plugins)
      /\ task' \in {"none", "search", "initialize", "genesis"}
      /\ phase' \in Phases
  BY DEF PluginThrows, LeaveLoop, Phases, TypeOK
<1> QED BY <1>1, <1>2 DEF PluginThrows, TypeOK, chain, durable

\* The state a dead process leaves has the right types.
LEMMA GoneType ==
  ASSUME TypeOK, Gone, persisted' \in Seq(Contracts),
         UNCHANGED <<chainDisk, diskId, genesisFile, history>>
  PROVE  TypeOK'
<1>1. phase' \in Phases /\ <<>> \in Seq(Plugins) /\ <<>> \in Seq(Contracts)
  BY DEF Gone, Phases
<1>2. NoContracts \in [Spaces -> Contracts \cup {NoContract}]
  BY DEF NoContracts
<1> QED BY <1>1, <1>2 DEF Gone, TypeOK, history

\* The head of the paths still to be initialised is a plugin.
LEMMA HeadIsPlugin ==
  ASSUME TypeOK, pluginPaths # <<>>
  PROVE  Head(pluginPaths) \in Plugins
  BY DEF TypeOK

\* Opening the chain keeps the types.
LEMMA OpenedType ==
  ASSUME TypeOK, NEW genesis \in Geneses, Opened(genesis),
         genesisFile' \in Geneses \cup {NoGenesis, "torn"}
  PROVE  TypeOK'
<1>1. TableSpaces \subseteq Spaces
  BY DEF TableSpaces, InChain, TypeOK
<1>2. LoadObjects \subseteq Contracts \X Spaces
  BY DEF LoadObjects, TypeOK
<1> QED BY <1>1, <1>2 DEF Opened, TypeOK, node, Phases

\* So does failing to open it.
LEMMA OpenFailsType ==
  ASSUME TypeOK, OpenFails, genesisFile' \in Geneses \cup {NoGenesis, "torn"}
  PROVE  TypeOK'
  BY DEF OpenFails, TypeOK, node, chain, history, Phases

\* Every step of the node keeps the types.
LEMMA TypeStep ==
  ASSUME TypeOK, [Next]_vars
  PROVE  TypeOK'
<1>1. CASE Start
  BY <1>1 DEF Start, LoadRecords, TypeOK, chain, durable, history, Phases
<1>2. ASSUME NEW p \in Plugins, LoadPlugin(p)
      PROVE  TypeOK'
  BY <1>2 DEF LoadPlugin, TypeOK, chain, durable, history
<1>3. CASE FinishSearch
  BY <1>3 DEF FinishSearch, TypeOK, node, chain, durable, history
<1>4. CASE InitializePlugin
  BY <1>4, HeadIsPlugin, AcceptedType, RejectedType, ThrowsType
     DEF InitializePlugin
<1>5. CASE FinishInitialize
  BY <1>5 DEF FinishInitialize, TypeOK, node, chain, durable, history
<1>6. CASE OpenChain
  <2>1. diskId # NoGenesis => diskId \in Geneses
    BY DEF TypeOK
  <2>2. genesisFile' \in Geneses \cup {NoGenesis, "torn"}
    BY <1>6 DEF OpenChain, TypeOK
  <2> QED BY <1>6, <2>1, <2>2, OpenedType, OpenFailsType DEF OpenChain
<1>7. CASE BeginGenesis
  BY <1>7 DEF BeginGenesis, TypeOK, node, chain, history
<1>8. CASE FinishGenesis
  BY <1>8, OpenedType, OpenFailsType DEF FinishGenesis
<1>9. CASE ApplyBlock
  <2>1. \A r \in InChain : <<NameOf[r[1]], r[2]>> \in Contracts \X Spaces
    BY DEF InChain, TypeOK
  <2> QED BY <1>9, <2>1 DEF ApplyBlock, TypeOK, node, durable, history
<1>10. CASE SearchOnSignal
  BY <1>10 DEF SearchOnSignal, TypeOK, node, chain, durable, history
<1>11. CASE Exit
  BY <1>11 DEF Exit, TypeOK, node, chain, durable, history, volatile, Phases
<1>12. CASE DestroyLibraries
  BY <1>12 DEF DestroyLibraries, TypeOK, chain, durable, history, Phases
<1>13. CASE DestroyMonitors
  BY <1>13 DEF DestroyMonitors, TypeOK, chain, durable, history, Phases
<1>14. CASE CloseChain
  <2>1. Unread \subseteq Contracts \X Spaces
    BY DEF Unread, TypeOK
  <2> QED BY <1>14, <2>1
          DEF CloseChain, TypeOK, node, chain, history, volatile, Phases
<1>15. CASE FlushPersistence
  BY <1>15, GoneType DEF FlushPersistence, SavedRecords, TypeOK
<1>16. CASE Kill \/ Terminate \/ CallUnmappedCode
  BY <1>16, GoneType DEF Kill, Terminate, CallUnmappedCode, TypeOK, durable
<1>17. CASE UNCHANGED vars
  BY <1>17 DEF vars, volatile, node, chain, durable, history, TypeOK
<1> QED BY <1>1, <1>2, <1>3, <1>4, <1>5, <1>6, <1>7, <1>8, <1>9, <1>10, <1>11,
           <1>12, <1>13, <1>14, <1>15, <1>16, <1>17 DEF Next

\* A node directory that was never used has the right types.
LEMMA TypeCorrectInit == Init => TypeOK
<1>1. NoContracts \in [Spaces -> Contracts \cup {NoContract}]
  BY DEF NoContracts
<1>2. <<>> \in Seq(Plugins) /\ <<>> \in Seq(Contracts) /\ "down" \in Phases
  BY DEF Phases
<1> QED BY <1>1, <1>2 DEF Init, TypeOK

\* Every variable keeps its type, for any plugins, contracts and width of the
\* space ID (all of the code that ContractRegistry models).
THEOREM TypeCorrect == Spec => []TypeOK
  BY TypeCorrectInit, TypeStep, PTL DEF Spec

-----------------------------------------------------------------------------
(* Records survive *)

\* While the node runs, its records begin with those on disk, and whatever is
\* in the chain lies in the space of a record of its name.
RecordsInv ==
    /\ phase = "down" => records = <<>> /\ InChain = {} /\ chainObjects = {}
    /\ phase # "down" => Extends(persisted, records)
    /\ \A r \in InChain : <<NameOf[r[1]], r[2]>> \in SpacesOf(records)

\* What dies leaves nothing in memory.
LEMMA GoneRecords ==
  ASSUME Gone
  PROVE  RecordsInv'
  BY DEF Gone, RecordsInv, InChain

\* A contract that is told a space keeps the records, the old owners' too, and
\* the code it brings lies in that space.
LEMMA RecordedKeeps ==
  ASSUME TypeOK, RecordsInv, phase # "down",
         NEW p \in Plugins, Recorded(p), persisted' = persisted,
         InChain' \subseteq InChain \cup {<<p, SpaceFor(records', NameOf[p])>>}
  PROVE  /\ Extends(persisted', records')
         /\ \A r \in InChain' : <<NameOf[r[1]], r[2]>> \in SpacesOf(records')
<1> DEFINE new == <<p, SpaceFor(records', NameOf[p])>>
<1>1. /\ records' \in Seq(Contracts) /\ Extends(records, records')
      /\ <<NameOf[new[1]], new[2]>> \in SpacesOf(records')
  BY RecordedFacts
<1>2. Extends(persisted, records')
  BY <1>1, ExtendsTransitive DEF TypeOK, RecordsInv
<1>3. SpacesOf(records) \subseteq SpacesOf(records')
  BY <1>1, ExtendsSpaces DEF TypeOK
<1> HIDE DEF new
<1>4. ASSUME NEW r \in InChain'
      PROVE  <<NameOf[r[1]], r[2]>> \in SpacesOf(records')
  <2>1. r \in InChain \/ r = new
    BY DEF new
  <2> QED BY <1>1, <1>3, <2>1 DEF RecordsInv
<1> QED BY <1>2, <1>4

\* The code that the next plugin brings into the chain lies in its space.
LEMMA CodeBrought ==
  ASSUME NEW p, \/ PluginAccepted(p)
                \/ PluginRejected(p)
                \/ \E outcome : PluginThrows(p, outcome)
  PROVE  /\ Recorded(p)
         /\ UNCHANGED <<chain, durable>>
         /\ InChain' \subseteq InChain \cup {<<p, SpaceFor(records', NameOf[p])>>}
  BY DEF PluginAccepted, PluginRejected, PluginThrows, FailsLate, InChain

\* A plugin task only runs in a node that runs; a genesis is written by one
\* that has initialised its plugins and has not opened the chain.
TaskInv ==
    /\ task # "none" => phase \in {"boot", "up"}
    /\ task = "genesis" => phase = "boot"
    /\ task \in {"none", "genesis"} => pluginPaths = <<>>

\* What ChainHandler::open may do, in one step or two.
LEMMA OpeningFacts ==
  ASSUME TaskInv, OpenChain \/ BeginGenesis \/ FinishGenesis
  PROVE  /\ phase = "boot" /\ phase' \in {"boot", "up", "libraries"}
         /\ pluginPaths = <<>>
         /\ UNCHANGED <<node, persisted, chainDisk, diskId, assigned>>
         /\ chainObjects' \in {chainObjects, LoadObjects}
         /\ \/ task' = "none"
            \/ task' = "genesis" /\ phase' = "boot"
<1>1. CASE OpenChain
  BY <1>1 DEF OpenChain, Opened, OpenFails, chain, history, TaskInv
<1>2. CASE BeginGenesis
  BY <1>2 DEF BeginGenesis, chain, history, TaskInv
<1>3. CASE FinishGenesis
  BY <1>3 DEF FinishGenesis, Opened, OpenFails, chain, history, TaskInv
<1> QED BY <1>1, <1>2, <1>3

\* Every step keeps plugin tasks to nodes that run.
LEMMA TaskStep ==
  ASSUME TypeOK, TaskInv, [Next]_vars
  PROVE  TaskInv'
<1>1. CASE Start \/ FinishSearch \/ FinishInitialize
  BY <1>1 DEF Start, FinishSearch, FinishInitialize, node, TaskInv, TypeOK
<1>2. ASSUME NEW p \in Plugins, LoadPlugin(p)
      PROVE  TaskInv'
  BY <1>2 DEF LoadPlugin, TaskInv
<1>3. CASE InitializePlugin
  <2>1. ASSUME NextPlugin
        PROVE  TaskInv'
    BY <1>3, <2>1 DEF InitializePlugin, NextPlugin, TaskInv
  <2>2. ASSUME NEW outcome, LeaveLoop(outcome)
        PROVE  TaskInv'
    BY <2>2 DEF LeaveLoop, TaskInv
  <2> QED BY <1>3, <2>1, <2>2
          DEF InitializePlugin, PluginAccepted, PluginRejected, PluginThrows
<1>4. CASE OpenChain \/ BeginGenesis \/ FinishGenesis
  BY <1>4, OpeningFacts DEF node, TaskInv
<1>5. CASE ApplyBlock \/ SearchOnSignal \/ Exit
  BY <1>5 DEF ApplyBlock, SearchOnSignal, Exit, node, volatile, TaskInv
<1>6. CASE DestroyLibraries \/ DestroyMonitors \/ CloseChain
  BY <1>6 DEF DestroyLibraries, DestroyMonitors, CloseChain, node, volatile, TaskInv
<1>7. CASE Gone \/ UNCHANGED vars
  BY <1>7 DEF Gone, vars, node, volatile, TaskInv
<1> QED BY <1>1, <1>2, <1>3, <1>4, <1>5, <1>6, <1>7
        DEF Next, FlushPersistence, Kill, Terminate, CallUnmappedCode

\* Every step keeps the records on disk a prefix of those in memory.
LEMMA RecordsStep ==
  ASSUME TypeOK, TaskInv, RecordsInv, [Next]_vars
  PROVE  RecordsInv'
<1>1. CASE Start
  BY <1>1 DEF Start, LoadRecords, durable, RecordsInv, InChain, TypeOK, Extends
<1>2. ASSUME NEW p \in Plugins, LoadPlugin(p)
      PROVE  RecordsInv'
  BY <1>2 DEF LoadPlugin, chain, durable, RecordsInv, InChain
<1>3. CASE FinishSearch \/ FinishInitialize \/ ApplyBlock \/ SearchOnSignal
  BY <1>3 DEF FinishSearch, FinishInitialize, ApplyBlock, SearchOnSignal,
              node, chain, durable, RecordsInv, InChain
<1>4. CASE InitializePlugin
  <2> DEFINE p == Head(pluginPaths)
  <2>1. p \in Plugins /\ phase # "down" /\ phase' # "down"
    <3>1. p \in Plugins /\ phase \in {"boot", "up"}
      BY <1>4, HeadIsPlugin DEF InitializePlugin, TaskInv
    <3> QED BY <1>4, <3>1 DEF InitializePlugin, PluginAccepted, PluginRejected,
                              PluginThrows, NextPlugin, LeaveLoop
  <2>2. /\ Recorded(p)
        /\ UNCHANGED <<chain, durable>>
        /\ InChain' \subseteq InChain \cup {<<p, SpaceFor(records', NameOf[p])>>}
    BY <1>4, CodeBrought DEF InitializePlugin
  <2> HIDE DEF p
  <2> QED BY <2>1, <2>2, RecordedKeeps DEF durable, RecordsInv
<1>5. CASE OpenChain \/ BeginGenesis \/ FinishGenesis
  BY <1>5, OpeningFacts DEF node, InChain, RecordsInv
<1>6. CASE Exit \/ DestroyLibraries \/ DestroyMonitors \/ CloseChain
  BY <1>6 DEF Exit, DestroyLibraries, DestroyMonitors, CloseChain, volatile,
              node, chain, durable, InChain, RecordsInv
<1>7. CASE FlushPersistence \/ Kill \/ Terminate \/ CallUnmappedCode
  BY <1>7, GoneRecords DEF FlushPersistence, Kill, Terminate, CallUnmappedCode
<1>8. CASE UNCHANGED vars
  BY <1>8 DEF vars, volatile, node, chain, durable, InChain, RecordsInv
<1> QED BY <1>1, <1>2, <1>3, <1>4, <1>5, <1>6, <1>7, <1>8 DEF Next

\* The three invariants hold together in every reachable state.
THEOREM RecordsCorrect == Spec => [](TypeOK /\ TaskInv /\ RecordsInv)
<1>1. Init => TypeOK /\ TaskInv /\ RecordsInv
  BY TypeCorrectInit DEF Init, TaskInv, RecordsInv, InChain
<1> QED BY <1>1, TypeStep, TaskStep, RecordsStep, PTL DEF Spec

\* What one run has saved no later run changes, however a run ends
\* (ChainHandler::initialize finds the records that ~ChainHandler flushed).
THEOREM SavedRecordsAreKept == Spec => SavedRecordsStay
<1>1. TypeOK /\ TaskInv /\ RecordsInv /\ [Next]_vars
        => [Extends(persisted, persisted')]_persisted
  <2> SUFFICES ASSUME TypeOK, TaskInv, RecordsInv, [Next]_vars
               PROVE  [Extends(persisted, persisted')]_persisted
    OBVIOUS
  <2>1. CASE FlushPersistence
    BY <2>1 DEF FlushPersistence, SavedRecords, RecordsInv
  <2>2. CASE UNCHANGED persisted
    BY <2>2
  <2>3. CASE InitializePlugin
    BY <2>2, <2>3 DEF InitializePlugin, PluginAccepted, PluginRejected,
                      PluginThrows, durable
  <2>4. CASE OpenChain \/ BeginGenesis \/ FinishGenesis
    BY <2>2, <2>4, OpeningFacts
  <2> QED BY <2>1, <2>2, <2>3, <2>4
          DEF Next, vars, durable, Start, LoadPlugin, FinishSearch,
              FinishInitialize, ApplyBlock, SearchOnSignal, Exit,
              DestroyLibraries, DestroyMonitors, CloseChain, Kill, Terminate,
              CallUnmappedCode
<1> QED BY <1>1, RecordsCorrect, PTL DEF Spec, SavedRecordsStay

-----------------------------------------------------------------------------
(* The databases on disk agree *)

\* Objects lie in their owner's space; those on disk already do so under the
\* records on disk, but for the moment between the two saves.
DiskInv ==
    /\ chainObjects \subseteq SpacesOf(records)
    /\ chainDisk \subseteq
         SpacesOf(IF phase = "persistence" THEN records ELSE persisted)

\* More records keep the objects in their owners' spaces.
LEMMA DiskKept ==
  ASSUME TypeOK, DiskInv, phase # "persistence", phase' # "persistence",
         records' \in Seq(Contracts), Extends(records, records'),
         UNCHANGED <<chainObjects, durable>>
  PROVE  DiskInv'
<1>1. SpacesOf(records) \subseteq SpacesOf(records')
  BY ExtendsSpaces DEF TypeOK
<1> QED BY <1>1 DEF DiskInv, durable

\* Every step but a kill between the two saves keeps objects with the records
\* of their owners.
LEMMA DiskStep ==
  ASSUME "persistence" \notin KillPhases,
         TypeOK, TaskInv, RecordsInv, DiskInv, [Next]_vars
  PROVE  DiskInv'
<1>1. CASE Start
  BY <1>1 DEF Start, chain, durable, DiskInv, RecordsInv
<1>2. ASSUME NEW p \in Plugins, LoadPlugin(p)
      PROVE  DiskInv'
  BY <1>2 DEF LoadPlugin, chain, durable, DiskInv
<1>3. CASE FinishSearch \/ FinishInitialize \/ SearchOnSignal
  BY <1>3 DEF FinishSearch, FinishInitialize, SearchOnSignal, node, chain,
              durable, DiskInv
<1>4. CASE InitializePlugin
  <2> DEFINE p == Head(pluginPaths)
  <2>1. p \in Plugins /\ phase # "persistence" /\ phase' # "persistence"
    <3>1. p \in Plugins /\ phase \in {"boot", "up"}
      BY <1>4, HeadIsPlugin DEF InitializePlugin, TaskInv
    <3> QED BY <1>4, <3>1 DEF InitializePlugin, PluginAccepted, PluginRejected,
                              PluginThrows, NextPlugin, LeaveLoop
  <2>2. Recorded(p) /\ UNCHANGED <<chainObjects, durable>>
    BY <1>4, CodeBrought DEF InitializePlugin, chain
  <2> HIDE DEF p
  <2> QED BY <2>1, <2>2, RecordedFacts, DiskKept
<1>5. CASE OpenChain \/ BeginGenesis \/ FinishGenesis
  <2>1. /\ phase = "boot" /\ phase' # "persistence"
        /\ UNCHANGED <<records, persisted, chainDisk>>
        /\ chainObjects' \in {chainObjects, LoadObjects}
    BY <1>5, OpeningFacts DEF node
  <2>2. SpacesOf(persisted) \subseteq SpacesOf(records)
    BY <2>1, ExtendsSpaces DEF RecordsInv, TypeOK
  <2>3. LoadObjects \subseteq SpacesOf(records)
    BY <2>1, <2>2 DEF LoadObjects, DiskInv
  <2> QED BY <2>1, <2>3 DEF DiskInv
<1>6. CASE ApplyBlock
  BY <1>6 DEF ApplyBlock, node, durable, DiskInv, RecordsInv
<1>7. CASE Exit \/ DestroyLibraries \/ DestroyMonitors
  BY <1>7 DEF Exit, DestroyLibraries, DestroyMonitors, volatile, node, chain,
              durable, DiskInv
<1>8. CASE CloseChain
  <2>1. SpacesOf(persisted) \subseteq SpacesOf(records)
    BY <1>8, ExtendsSpaces DEF CloseChain, RecordsInv, TypeOK
  <2>2. phase = "chain" /\ phase' = "persistence" /\ UNCHANGED <<records, chainObjects>>
    BY <1>8 DEF CloseChain, volatile, node, chain
  <2>3. chainDisk' \subseteq chainObjects \cup chainDisk
    BY <1>8 DEF CloseChain, Unread
  <2> QED BY <2>1, <2>2, <2>3 DEF DiskInv
<1>9. CASE FlushPersistence
  <2>1. phase' = "down" /\ persisted' = records /\ chainObjects' = {}
    BY <1>9 DEF FlushPersistence, SavedRecords, Gone
  <2> QED BY <1>9, <2>1 DEF FlushPersistence, DiskInv
<1>10. CASE Kill \/ Terminate \/ CallUnmappedCode
  <2>1. phase # "persistence" /\ Gone /\ UNCHANGED durable
    BY <1>10 DEF Kill, Terminate, CallUnmappedCode
  <2> QED BY <2>1 DEF Gone, durable, DiskInv
<1>11. CASE UNCHANGED vars
  BY <1>11 DEF vars, volatile, node, chain, durable, DiskInv
<1> QED BY <1>1, <1>2, <1>3, <1>4, <1>5, <1>6, <1>7, <1>8, <1>9, <1>10, <1>11
        DEF Next

\* Whenever the node is down, the chain's objects on disk lie in the spaces
\* that the records on disk give their owners, provided that the process is
\* never killed between the two saves of ~ChainHandler.
THEOREM DatabasesAgree ==
  ASSUME "persistence" \notin KillPhases
  PROVE  Spec => []DiskDatabasesAgree
<1>1. Init => DiskInv
  BY DEF Init, DiskInv
<1>2. DiskInv => DiskDatabasesAgree
  BY DEF DiskInv, DiskDatabasesAgree
<1>3. TypeOK /\ TaskInv /\ RecordsInv /\ DiskInv /\ [Next]_vars => DiskInv'
  BY DiskStep
<1> QED BY <1>1, <1>2, <1>3, RecordsCorrect, PTL DEF Spec

-----------------------------------------------------------------------------
(* Code that blocks may call is loaded *)

\* The libraries waiting to be initialised are loaded, each once, and none of
\* them has registered yet; no contract that failed left code in the chain.
LibraryInv ==
    /\ CalledCodeIsLoaded
    /\ orphans = {}
    /\ \A i \in DOMAIN pluginPaths :
          /\ pluginPaths[i] \in loadedLibraries
          /\ \A r \in registered : r[1] # pluginPaths[i]
    /\ \A i, j \in DOMAIN pluginPaths : i # j => pluginPaths[i] # pluginPaths[j]

\* With one more element a sequence holds the others and that one.
LEMMA AppendFacts ==
  ASSUME NEW S, NEW q \in Seq(S), NEW e \in S
  PROVE  \A i \in DOMAIN Append(q, e) :
            \/ i \in DOMAIN q /\ Append(q, e)[i] = q[i]
            \/ i = Len(q) + 1 /\ Append(q, e)[i] = e
<1>1. Append(q, e) \in Seq(S) /\ Len(Append(q, e)) = Len(q) + 1
  OBVIOUS
<1>2. DOMAIN Append(q, e) = 1..(Len(q) + 1) /\ DOMAIN q = 1..Len(q)
  BY <1>1
<1> QED BY <1>2

\* Without its first element a sequence holds the others, one place earlier.
LEMMA TailFacts ==
  ASSUME NEW S, NEW q \in Seq(S), q # <<>>
  PROVE  /\ \A i \in DOMAIN Tail(q) : i + 1 \in DOMAIN q /\ Tail(q)[i] = q[i + 1]
         /\ 1 \in DOMAIN q
         /\ \A i \in DOMAIN Tail(q) : i + 1 # 1
         /\ Head(q) = q[1]
  OBVIOUS

\* Every step keeps waiting libraries loaded, distinct and unregistered.
LEMMA LibraryStep ==
  ASSUME LateFailures = FALSE,
         TypeOK, TaskInv, RecordsInv, LibraryInv, [Next]_vars
  PROVE  LibraryInv'
<1>1. CASE Start
  BY <1>1 DEF Start, LibraryInv, CalledCodeIsLoaded, InChain, RecordsInv
<1>2. ASSUME NEW p \in Plugins, LoadPlugin(p)
      PROVE  LibraryInv'
  <2>1. /\ pluginPaths' = Append(pluginPaths, p)
        /\ loadedLibraries' = loadedLibraries \cup {p}
        /\ p \notin loadedLibraries
        /\ UNCHANGED <<phase, registered, orphans>>
        /\ phase \in {"boot", "up"}
    BY <1>2 DEF LoadPlugin, TaskInv
  <2>2. \A i \in DOMAIN pluginPaths' :
           \/ i \in DOMAIN pluginPaths /\ pluginPaths'[i] = pluginPaths[i]
           \/ i = Len(pluginPaths) + 1 /\ pluginPaths'[i] = p
    BY <2>1, AppendFacts DEF TypeOK
  <2> QED BY <2>1, <2>2 DEF LibraryInv, CalledCodeIsLoaded, InChain
<1>3. CASE FinishSearch \/ FinishInitialize
  BY <1>3 DEF FinishSearch, FinishInitialize, node, LibraryInv,
              CalledCodeIsLoaded, InChain
<1>4. CASE InitializePlugin
  <2> DEFINE p == Head(pluginPaths)
  <2>1. /\ phase \in {"boot", "up"}
        /\ pluginPaths # <<>>
        /\ pluginPaths \in Seq(Plugins)
        /\ p = pluginPaths[1] /\ 1 \in DOMAIN pluginPaths
        /\ p \in loadedLibraries
    BY <1>4, TailFacts DEF InitializePlugin, TaskInv, TypeOK, LibraryInv
  <2>2. \A i \in DOMAIN Tail(pluginPaths) :
           /\ Tail(pluginPaths)[i] \in loadedLibraries
           /\ Tail(pluginPaths)[i] # p
           /\ \A r \in registered : r[1] # Tail(pluginPaths)[i]
    BY <2>1, TailFacts DEF LibraryInv
  <2>3. \A i, j \in DOMAIN Tail(pluginPaths) :
           i # j => Tail(pluginPaths)[i] # Tail(pluginPaths)[j]
    <3>1. DOMAIN Tail(pluginPaths) \subseteq Int
      BY <2>1
    <3> QED BY <2>1, <3>1, TailFacts DEF LibraryInv
  <2>4. CASE PluginAccepted(p)
    <3>1. /\ \E s : registered' = registered \cup {<<p, s>>}
          /\ UNCHANGED <<loadedLibraries, orphans>>
          /\ pluginPaths' = Tail(pluginPaths) \/ pluginPaths' = <<>>
      BY <2>4 DEF PluginAccepted, NextPlugin, LeaveLoop
    <3> HIDE DEF p
    <3>2. CalledCodeIsLoaded'
      BY <2>1, <3>1 DEF LibraryInv, CalledCodeIsLoaded, InChain
    <3>3. ASSUME NEW r \in registered' PROVE  r \in registered \/ r[1] = p
      BY <3>1
    <3>4. CASE pluginPaths' = Tail(pluginPaths)
      <4>1. \A i \in DOMAIN pluginPaths' : \A r \in registered' :
               r[1] # pluginPaths'[i]
        BY <2>2, <3>3, <3>4
      <4> QED BY <2>2, <2>3, <3>1, <3>2, <3>4, <4>1 DEF LibraryInv
    <3>5. CASE pluginPaths' = <<>>
      BY <3>1, <3>2, <3>5 DEF LibraryInv
    <3> QED BY <3>1, <3>4, <3>5
  <2>5. CASE PluginRejected(p)
    <3>1. /\ UNCHANGED <<registered, orphans>>
          /\ loadedLibraries' = loadedLibraries \ {p}
          /\ pluginPaths' = Tail(pluginPaths)
      BY <2>5 DEF PluginRejected, FailsLate, Rejected, NextPlugin
    <3>2. \A r \in registered : r[1] # p
      BY <2>1 DEF LibraryInv
    <3>3. CalledCodeIsLoaded'
      BY <2>1, <3>1, <3>2 DEF LibraryInv, CalledCodeIsLoaded, InChain
    <3> HIDE DEF p
    <3> QED BY <2>2, <2>3, <3>1, <3>3 DEF LibraryInv
  <2>6. ASSUME NEW outcome, PluginThrows(p, outcome)
        PROVE  LibraryInv'
    BY <2>1, <2>6 DEF PluginThrows, FailsLate, LeaveLoop, LibraryInv,
                      CalledCodeIsLoaded, InChain
  <2> QED BY <1>4, <2>4, <2>5, <2>6 DEF InitializePlugin
<1>5. CASE OpenChain \/ BeginGenesis \/ FinishGenesis
  BY <1>5, OpeningFacts DEF node, LibraryInv, CalledCodeIsLoaded, InChain
<1>6. CASE ApplyBlock \/ SearchOnSignal
  BY <1>6 DEF ApplyBlock, SearchOnSignal, node, LibraryInv, CalledCodeIsLoaded,
              InChain
<1>7. CASE Exit \/ DestroyMonitors \/ CloseChain
  BY <1>7 DEF Exit, DestroyMonitors, CloseChain, volatile, node, LibraryInv,
              CalledCodeIsLoaded, InChain
<1>8. CASE DestroyLibraries
  <2>1. pluginPaths = <<>> /\ pluginPaths' = <<>>
    BY <1>8 DEF DestroyLibraries, TaskInv
  <2> QED BY <1>8, <2>1 DEF DestroyLibraries, LibraryInv, CalledCodeIsLoaded
<1>9. CASE Gone
  BY <1>9 DEF Gone, LibraryInv, CalledCodeIsLoaded, InChain
<1>10. CASE UNCHANGED vars
  BY <1>10 DEF vars, volatile, node, LibraryInv, CalledCodeIsLoaded, InChain
<1> QED BY <1>1, <1>2, <1>3, <1>4, <1>5, <1>6, <1>7, <1>8, <1>9, <1>10
        DEF Next, FlushPersistence, Kill, Terminate, CallUnmappedCode

\* While blocks may be applied, the code they call belongs to loaded libraries,
\* whatever initializePlugins erases and however it ends, as long as contracts
\* that fail have left nothing in the chain.
THEOREM CalledCodeStaysLoaded ==
  ASSUME LateFailures = FALSE
  PROVE  Spec => []CalledCodeIsLoaded
<1>1. Init => LibraryInv
  BY DEF Init, LibraryInv, CalledCodeIsLoaded, InChain
<1>2. LibraryInv => CalledCodeIsLoaded
  BY DEF LibraryInv
<1>3. TypeOK /\ TaskInv /\ RecordsInv /\ LibraryInv /\ [Next]_vars => LibraryInv'
  BY LibraryStep
<1> QED BY <1>1, <1>2, <1>3, RecordsCorrect, PTL DEF Spec

-----------------------------------------------------------------------------
(* What the disk keeps of the chain, whatever ends a run: its genesis, and the *)
(* objects of contracts that were there when the chain was opened.  None of it *)
(* needs an orderly exit.                                                      *)

(* One genesis *)

\* The file is whole before any chain has been opened, and every chain, open
\* or on disk, is that of the file.
GenesisInv ==
    /\ task = "genesis" => genesisFile = "torn"
    /\ genesisFile \notin Geneses =>
          chainIds = {} /\ diskId = NoGenesis /\ chainId = NoGenesis
    /\ genesisFile \in Geneses =>
          /\ chainIds \subseteq {genesisFile}
          /\ diskId \in {NoGenesis, genesisFile}
          /\ chainId \in {NoGenesis, genesisFile}

\* A chain that is opened with the genesis of the file keeps to it.
LEMMA OpenedWithFile ==
  ASSUME TypeOK, GenesisInv, NEW genesis \in Geneses,
         genesisFile' = genesis, genesisFile \in {"torn", genesis},
         Opened(genesis) \/ OpenFails
  PROVE  GenesisInv'
<1>1. chainIds \subseteq {genesis} /\ {diskId, chainId} \subseteq {NoGenesis, genesis}
  BY DEF GenesisInv
<1>2. task' = "none" /\ chainIds' \subseteq {genesis}
      /\ {diskId', chainId'} \subseteq {NoGenesis, genesis}
  BY <1>1 DEF Opened, OpenFails, chain, history
<1> QED BY <1>2 DEF GenesisInv

\* Every step keeps to the genesis of the file.
LEMMA GenesisStep ==
  ASSUME TypeOK, TaskInv, GenesisInv, [Next]_vars
  PROVE  GenesisInv'
<1>1. CASE OpenChain
  <2>1. CASE OpenFails
    BY <1>1, <2>1 DEF OpenChain, OpenFails, chain, history, GenesisInv
  <2>2. CASE diskId # NoGenesis /\ Opened(diskId)
    <3>1. diskId \in Geneses /\ genesisFile = diskId
      BY <2>2 DEF TypeOK, GenesisInv
    <3> QED BY <1>1, <2>2, <3>1, OpenedWithFile DEF OpenChain
  <2>3. CASE genesisFile \in Geneses /\ Opened(genesisFile)
    BY <1>1, <2>3, OpenedWithFile DEF OpenChain
  <2> QED BY <1>1, <2>1, <2>2, <2>3 DEF OpenChain
<1>2. CASE BeginGenesis
  BY <1>2 DEF BeginGenesis, NeedsGenesis, chain, history, GenesisInv
<1>3. CASE FinishGenesis
  <2>1. PICK genesis \in Geneses : /\ genesisFile' = genesis
                                   /\ Opened(genesis) \/ OpenFails
    BY <1>3 DEF FinishGenesis
  <2>2. genesisFile = "torn"
    BY <1>3 DEF FinishGenesis, GenesisInv
  <2> QED BY <2>1, <2>2, OpenedWithFile
<1>4. CASE InitializePlugin
  <2>1. UNCHANGED <<chain, durable>> /\ task' # "genesis"
    BY <1>4 DEF InitializePlugin, PluginAccepted, PluginRejected, PluginThrows,
                NextPlugin, LeaveLoop
  <2>2. UNCHANGED chainIds
    BY <1>4 DEF InitializePlugin, PluginAccepted, PluginRejected, PluginThrows,
                Recorded
  <2> QED BY <2>1, <2>2 DEF chain, durable, GenesisInv
<1>5. CASE Start \/ \E p \in Plugins : LoadPlugin(p)
  BY <1>5 DEF Start, LoadPlugin, chain, durable, history, GenesisInv
<1>6. CASE FinishSearch \/ FinishInitialize \/ SearchOnSignal \/ ApplyBlock
  BY <1>6 DEF FinishSearch, FinishInitialize, SearchOnSignal, ApplyBlock, chain,
              durable, history, GenesisInv
<1>7. CASE Exit \/ DestroyLibraries \/ DestroyMonitors
  BY <1>7 DEF Exit, DestroyLibraries, DestroyMonitors, volatile, chain, durable,
              history, GenesisInv
<1>8. CASE CloseChain
  <2>1. diskId' \in {diskId, chainId}
        /\ UNCHANGED <<task, chainId, genesisFile, chainIds>>
    BY <1>8 DEF CloseChain, volatile, chain, history
  <2> QED BY <2>1 DEF GenesisInv
<1>9. CASE FlushPersistence \/ Kill \/ Terminate \/ CallUnmappedCode
  <2>1. /\ task' = "none" /\ chainId' = NoGenesis
        /\ UNCHANGED <<diskId, genesisFile, chainIds>>
    BY <1>9 DEF FlushPersistence, Kill, Terminate, CallUnmappedCode, Gone,
                durable, history
  <2> QED BY <2>1 DEF GenesisInv
<1>10. CASE UNCHANGED vars
  BY <1>10 DEF vars, volatile, chain, durable, history, GenesisInv
<1> QED BY <1>1, <1>2, <1>3, <1>4, <1>5, <1>6, <1>7, <1>8, <1>9, <1>10 DEF Next

\* Whatever kills a run, at any step, all runs of the node in one directory
\* follow the chain of one genesis: computeGenesis writes the file before the
\* chain is opened and never replaces one that it finds.
THEOREM OneGenesis == Spec => []SameChain
<1>1. Init => GenesisInv
  BY DEF Init, GenesisInv
<1>2. GenesisInv => SameChain
  BY DEF GenesisInv, SameChain
<1> QED BY <1>1, <1>2, GenesisStep, RecordsCorrect, PTL DEF Spec

-----------------------------------------------------------------------------
(* Objects are kept *)

\* Whatever is on disk for the tables that were there when the chain was
\* opened is in the chain as well, and those tables stay.
KeptInv ==
    /\ opened \subseteq TableSpaces
    /\ \A o \in chainDisk : o[2] \in opened => o \in chainObjects

\* The step that opens the chain reads what its tables have on disk.
LEMMA OpeningKeeps ==
  ASSUME KeptInv, UNCHANGED <<node, chainDisk>>,
         (\E genesis : Opened(genesis)) \/ UNCHANGED chain
  PROVE  KeptInv'
<1>1. TableSpaces' = TableSpaces
  BY DEF node, TableSpaces, InChain
<1>2. CASE \E genesis : Opened(genesis)
  BY <1>1, <1>2 DEF Opened, LoadObjects, KeptInv
<1>3. CASE UNCHANGED chain
  BY <1>1, <1>3 DEF chain, KeptInv
<1> QED BY <1>2, <1>3

\* Every step keeps what is on disk in the chain.
LEMMA KeptStep ==
  ASSUME TypeOK, TaskInv, KeptInv, [Next]_vars
  PROVE  KeptInv' /\ [\A o \in chainDisk \ chainDisk' : o[2] \notin opened]_chainDisk
<1>1. ASSUME KeptInv', UNCHANGED chainDisk
      PROVE  KeptInv' /\ [\A o \in chainDisk \ chainDisk' : o[2] \notin opened]_chainDisk
  BY <1>1
<1>2. CASE OpenChain \/ BeginGenesis \/ FinishGenesis
  <2>1. UNCHANGED <<node, chainDisk>>
    BY <1>2, OpeningFacts
  <2>2. (\E genesis : Opened(genesis)) \/ UNCHANGED chain
    BY <1>2 DEF OpenChain, BeginGenesis, FinishGenesis, OpenFails
  <2> QED BY <1>1, <2>1, <2>2, OpeningKeeps
<1>3. CASE InitializePlugin
  <2>1. UNCHANGED <<chain, durable>> /\ InChain \subseteq InChain'
    BY <1>3 DEF InitializePlugin, PluginAccepted, PluginRejected, PluginThrows,
                FailsLate, InChain
  <2>2. TableSpaces \subseteq TableSpaces'
    BY <2>1 DEF TableSpaces
  <2> QED BY <1>1, <2>1, <2>2 DEF chain, durable, KeptInv
<1>4. CASE Start \/ (\E p \in Plugins : LoadPlugin(p)) \/ FinishSearch \/ FinishInitialize
           \/ SearchOnSignal \/ Exit \/ DestroyLibraries \/ DestroyMonitors
           \/ UNCHANGED vars
  <2>1. UNCHANGED <<registered, orphans, chain, durable>>
    BY <1>4 DEF Start, LoadPlugin, FinishSearch, FinishInitialize, SearchOnSignal,
                Exit, DestroyLibraries, DestroyMonitors, vars, volatile, node
  <2> QED BY <1>1, <2>1 DEF chain, durable, TableSpaces, InChain, KeptInv
<1>5. CASE ApplyBlock
  <2>1. /\ UNCHANGED <<registered, orphans, opened, durable>>
        /\ chainObjects \subseteq chainObjects'
    BY <1>5 DEF ApplyBlock, node
  <2> QED BY <1>1, <2>1 DEF durable, TableSpaces, InChain, KeptInv
<1>6. CASE CloseChain
  <2>1. UNCHANGED <<registered, orphans, opened, chainObjects>>
    BY <1>6 DEF CloseChain, volatile, node, chain
  <2>2. TableSpaces' = TableSpaces
    BY <2>1 DEF TableSpaces, InChain
  <2>3. CASE UNCHANGED chainDisk
    BY <1>1, <2>1, <2>2, <2>3 DEF KeptInv
  <2>4. CASE chainDisk' \in {chainObjects, chainObjects \cup Unread}
    <3>1. \A o \in chainDisk' : o[2] \in opened => o \in chainObjects
      BY <2>4 DEF Unread, KeptInv
    <3>2. \A o \in chainDisk \ chainDisk' : o[2] \notin opened
      BY <2>4 DEF KeptInv
    <3> QED BY <2>1, <2>2, <3>1, <3>2 DEF KeptInv
  <2> QED BY <1>6, <2>3, <2>4 DEF CloseChain
<1>7. CASE FlushPersistence \/ Kill \/ Terminate \/ CallUnmappedCode
  <2>1. opened' = {} /\ UNCHANGED chainDisk
    BY <1>7 DEF FlushPersistence, Kill, Terminate, CallUnmappedCode, Gone, durable
  <2> QED BY <1>1, <2>1 DEF KeptInv
<1> QED BY <1>2, <1>3, <1>4, <1>5, <1>6, <1>7 DEF Next

\* However runs end, objects leave the disk only if their contract's tables
\* were not in the chain when it was opened.
THEOREM ObjectsAreKept == Spec => ObjectsSurvive
<1>1. Init => KeptInv
  BY DEF Init, KeptInv
<1>2. TypeOK /\ TaskInv /\ KeptInv /\ [Next]_vars
        => KeptInv' /\ [\A o \in chainDisk \ chainDisk' : o[2] \notin opened]_chainDisk
  BY KeptStep
<1> QED BY <1>1, <1>2, RecordsCorrect, PTL DEF Spec, ObjectsSurvive

-----------------------------------------------------------------------------
(***************************************************************************)
(* What contracts may rely on as long as there are spaces for all of them: *)
(* the theorems here take as a hypothesis that the contracts are no more   *)
(* than the space IDs from FIRST_AVAILABLE_SPACE_ID up.                    *)
(***************************************************************************)

Room == /\ IsFiniteSet(Contracts)
        /\ Cardinality(Contracts) <= SpaceModulus - FIRST_AVAILABLE_SPACE_ID

-----------------------------------------------------------------------------
(* One record per contract, one space per record *)

NoDuplicates(recs) == \A i, j \in DOMAIN recs : recs[i] = recs[j] => i = j

UniqueInv == NoDuplicates(records) /\ NoDuplicates(persisted)

\* Recording a contract does not give it a second record.
LEMMA WithRecordUnique ==
  ASSUME NEW recs \in Seq(Contracts), NEW name \in Contracts,
         NoDuplicates(recs)
  PROVE  NoDuplicates(WithRecord(recs, name))
<1>1. CASE \E i \in DOMAIN recs : recs[i] = name
  BY <1>1 DEF WithRecord
<1>2. CASE ~ \E i \in DOMAIN recs : recs[i] = name
  <2>1. WithRecord(recs, name) = Append(recs, name)
    BY <1>2 DEF WithRecord
  <2>2. \A i \in DOMAIN Append(recs, name) :
           \/ i \in DOMAIN recs /\ Append(recs, name)[i] = recs[i]
           \/ i = Len(recs) + 1 /\ Append(recs, name)[i] = name
    BY AppendFacts
  <2> QED BY <1>2, <2>1, <2>2 DEF NoDuplicates
<1> QED BY <1>1, <1>2

\* There are no more records than contracts, so their IDs do not wrap around.
LEMMA RecordsFit ==
  ASSUME Room, NEW recs \in Seq(Contracts), NoDuplicates(recs)
  PROVE  Len(recs) <= SpaceModulus - FIRST_AVAILABLE_SPACE_ID
<1>1. Len(recs) \in Nat /\ recs \in [1..Len(recs) -> Contracts]
  OBVIOUS
<1>2. recs \in Injection(1..Len(recs), Contracts)
  BY <1>1 DEF Injection, IsInjective, NoDuplicates
<1>3. Cardinality(1..Len(recs)) <= Cardinality(Contracts)
  BY <1>2, FS_Injection DEF Room
<1>4. Cardinality(1..Len(recs)) = Len(recs)
  <2>1. 1 \in Int /\ Len(recs) \in Int
    BY <1>1
  <2>2. Cardinality(1..Len(recs)) =
          IF 1 > Len(recs) THEN 0 ELSE Len(recs) - 1 + 1
    BY <2>1, FS_Interval, Zenon
  <2> QED BY <1>1, <2>2
<1>5. Cardinality(Contracts) \in Nat
  BY FS_CardinalityType DEF Room
<1> QED BY <1>1, <1>3, <1>4, <1>5 DEF Room

\* Then records stand for spaces one to one, all of them for contracts.
LEMMA SpacesOfOneToOne ==
  ASSUME Room, NEW recs \in Seq(Contracts), NoDuplicates(recs)
  PROVE  /\ \A a, b \in SpacesOf(recs) : a[1] = b[1] <=> a[2] = b[2]
         /\ \A a \in SpacesOf(recs) : a[2] >= FIRST_AVAILABLE_SPACE_ID
<1>1. \A i \in DOMAIN recs :
         contractObjectSpaceId(i - 1) = FIRST_AVAILABLE_SPACE_ID + i - 1
  <2> SUFFICES ASSUME NEW i \in DOMAIN recs
               PROVE  contractObjectSpaceId(i - 1) = FIRST_AVAILABLE_SPACE_ID + i - 1
    OBVIOUS
  <2>1. i \in 1..(SpaceModulus - FIRST_AVAILABLE_SPACE_ID)
    BY RecordsFit
  <2>2. /\ FIRST_AVAILABLE_SPACE_ID + (i - 1) \in 0..(SpaceModulus - 1)
        /\ FIRST_AVAILABLE_SPACE_ID + (i - 1) = FIRST_AVAILABLE_SPACE_ID + i - 1
    BY <2>1
  <2>3. \A n \in 0..(SpaceModulus - 1) : n % SpaceModulus = n
    OBVIOUS
  <2> QED BY <2>2, <2>3 DEF contractObjectSpaceId
<1>2. ASSUME NEW a \in SpacesOf(recs)
      PROVE  \E i \in DOMAIN recs : /\ a[1] = recs[i]
                                    /\ a[2] = FIRST_AVAILABLE_SPACE_ID + i - 1
  BY <1>1 DEF SpacesOf
<1>3. DOMAIN recs \subseteq Nat \ {0}
  OBVIOUS
<1>4. ASSUME NEW a \in SpacesOf(recs), NEW b \in SpacesOf(recs)
      PROVE  a[1] = b[1] <=> a[2] = b[2]
  <2>1. PICK i \in DOMAIN recs :
             a[1] = recs[i] /\ a[2] = FIRST_AVAILABLE_SPACE_ID + i - 1
    BY <1>2
  <2>2. PICK j \in DOMAIN recs :
             b[1] = recs[j] /\ b[2] = FIRST_AVAILABLE_SPACE_ID + j - 1
    BY <1>2
  <2>3. a[1] = b[1] <=> i = j
    BY <2>1, <2>2 DEF NoDuplicates
  <2>4. a[2] = b[2] <=> i = j
    BY <1>3, <2>1, <2>2, SMTT(30)
  <2> QED BY <2>3, <2>4
<1>5. ASSUME NEW a \in SpacesOf(recs)
      PROVE  a[2] >= FIRST_AVAILABLE_SPACE_ID
  BY <1>2, <1>3
<1> QED BY <1>4, <1>5

\* What recording the next plugin does to unique records.
LEMMA RecordedUnique ==
  ASSUME TypeOK, UniqueInv, NEW p \in Plugins, Recorded(p)
  PROVE  NoDuplicates(records')
  BY WithRecordUnique DEF Recorded, UniqueInv, TypeOK

\* Every step keeps records unique, in memory and on disk.
LEMMA UniqueStep ==
  ASSUME TypeOK, TaskInv, UniqueInv, [Next]_vars
  PROVE  UniqueInv'
<1>1. CASE Start
  BY <1>1 DEF Start, LoadRecords, durable, UniqueInv
<1>2. CASE InitializePlugin
  <2>1. Head(pluginPaths) \in Plugins /\ Recorded(Head(pluginPaths))
    BY <1>2, HeadIsPlugin
       DEF InitializePlugin, PluginAccepted, PluginRejected, PluginThrows
  <2>2. UNCHANGED persisted
    BY <1>2 DEF InitializePlugin, PluginAccepted, PluginRejected, PluginThrows,
                durable
  <2> QED BY <2>1, <2>2, RecordedUnique DEF UniqueInv
<1>3. CASE FlushPersistence
  BY <1>3 DEF FlushPersistence, SavedRecords, Gone, UniqueInv, NoDuplicates
<1>4. CASE Kill \/ Terminate \/ CallUnmappedCode
  BY <1>4 DEF Kill, Terminate, CallUnmappedCode, Gone, durable, UniqueInv,
              NoDuplicates
<1>5. CASE UNCHANGED <<records, persisted>>
  BY <1>5 DEF UniqueInv
<1>6. CASE OpenChain \/ BeginGenesis \/ FinishGenesis
  BY <1>5, <1>6, OpeningFacts DEF node
<1> QED BY <1>1, <1>2, <1>3, <1>4, <1>5, <1>6
        DEF Next, vars, volatile, node, durable, LoadPlugin, FinishSearch,
            FinishInitialize, ApplyBlock, SearchOnSignal, Exit,
            DestroyLibraries, DestroyMonitors, CloseChain

\* No contract ever has two records, in memory or on disk.
THEOREM RecordsAreUnique ==
  Spec => [](TypeOK /\ TaskInv /\ RecordsInv /\ UniqueInv)
<1>1. Init => UniqueInv
  BY DEF Init, UniqueInv, NoDuplicates
<1> QED BY <1>1, UniqueStep, RecordsCorrect, PTL DEF Spec

\* Libraries have code in one space of the chain only as copies of one contract.
THEOREM SharedByNamesakesOnly ==
  ASSUME Room
  PROVE  Spec => []SpacesAreShared
<1>1. TypeOK /\ RecordsInv /\ UniqueInv => SpacesAreShared
  <2> SUFFICES ASSUME TypeOK, RecordsInv, UniqueInv,
                      NEW r \in InChain, NEW q \in InChain, r[2] = q[2]
               PROVE  NameOf[r[1]] = NameOf[q[1]]
    BY DEF SpacesAreShared
  <2>1. /\ <<NameOf[r[1]], r[2]>> \in SpacesOf(records)
        /\ <<NameOf[q[1]], q[2]>> \in SpacesOf(records)
    BY DEF RecordsInv
  <2>2. \A a, b \in SpacesOf(records) : a[1] = b[1] <=> a[2] = b[2]
    BY SpacesOfOneToOne DEF UniqueInv, TypeOK
  <2> QED BY <2>1, <2>2
<1> QED BY <1>1, RecordsAreUnique, PTL

\* Only the step that initialises a plugin tells a contract its space.
LEMMA TellsNobody ==
  ASSUME TaskInv, [Next]_vars
  PROVE  InitializePlugin \/ UNCHANGED assigned
<1>1. CASE OpenChain \/ BeginGenesis \/ FinishGenesis
  BY <1>1, OpeningFacts
<1> QED BY <1>1
        DEF Next, vars, history, Start, LoadPlugin, FinishSearch,
            FinishInitialize, ApplyBlock, SearchOnSignal, Exit,
            DestroyLibraries, DestroyMonitors, CloseChain, FlushPersistence,
            Kill, Terminate, CallUnmappedCode

\* No contract is ever told a space below FIRST_AVAILABLE_SPACE_ID, over all
\* runs of the node and however they end.
THEOREM SpacesLeaveTheChainAlone ==
  ASSUME Room
  PROVE  Spec => []SpacesAreForContracts
<1>1. Init => SpacesAreForContracts
  BY DEF Init, SpacesAreForContracts
<1>2. TypeOK /\ TaskInv /\ UniqueInv /\ SpacesAreForContracts /\ [Next]_vars
        => SpacesAreForContracts'
  <2> SUFFICES ASSUME TypeOK, TaskInv, UniqueInv, SpacesAreForContracts,
                      [Next]_vars
               PROVE  SpacesAreForContracts'
    OBVIOUS
  <2>1. CASE InitializePlugin
    <3> DEFINE p == Head(pluginPaths)
               told == <<NameOf[p], SpaceFor(records', NameOf[p])>>
    <3>1. p \in Plugins /\ Recorded(p)
      BY <2>1, HeadIsPlugin
         DEF InitializePlugin, PluginAccepted, PluginRejected, PluginThrows
    <3>2. NoDuplicates(records') /\ records' \in Seq(Contracts)
      BY <3>1, RecordedFacts, RecordedUnique
    <3>3. told \in SpacesOf(records') /\ assigned' = assigned \cup {told}
      BY <3>1, RecordedFacts
    <3> HIDE DEF told
    <3>4. told[2] >= FIRST_AVAILABLE_SPACE_ID
      BY <3>2, <3>3, SpacesOfOneToOne
    <3> QED BY <3>3, <3>4 DEF SpacesAreForContracts
  <2>2. CASE UNCHANGED assigned
    BY <2>2 DEF SpacesAreForContracts
  <2> QED BY <2>1, <2>2, TellsNobody
<1> QED BY <1>1, <1>2, RecordsAreUnique, PTL DEF Spec

-----------------------------------------------------------------------------
(* Monitors *)

\* The map of loaded contracts agrees with the records, so that a contract's
\* name leads to the space it was told.
MonitorInv ==
    /\ phase = "down" => contractMonitors = {} /\ loadedContracts = NoContracts
    /\ phase \in {"boot", "up"} => registered = contractMonitors
    /\ \A r \in registered : loadedContracts[r[2]] = NameOf[r[1]]
    /\ \A s \in Spaces : loadedContracts[s] # NoContract =>
          <<loadedContracts[s], s>> \in SpacesOf(records)

\* After a plugin was accepted its name leads to its own space.
LEMMA NameLeadsToSpace ==
  ASSUME Room, TypeOK, UniqueInv, MonitorInv,
         NEW p \in Plugins, PluginAccepted(p)
  PROVE  /\ loadedContracts'[SpaceFor(records', NameOf[p])] = NameOf[p]
         /\ \A s \in Spaces :
               loadedContracts'[s] = loadedContracts[s]
               \/ (s = SpaceFor(records', NameOf[p]) /\ loadedContracts[s] = NoContract)
         /\ \A s \in Spaces : loadedContracts'[s] # NoContract =>
               <<loadedContracts'[s], s>> \in SpacesOf(records')
         /\ Named(loadedContracts', NameOf[p]) = {SpaceFor(records', NameOf[p])}
<1> DEFINE name  == NameOf[p]
           space == SpaceFor(records', name)
<1>1. /\ records' \in Seq(Contracts)
      /\ Extends(records, records')
      /\ space \in Spaces
      /\ <<name, space>> \in SpacesOf(records')
      /\ NoDuplicates(records')
  BY RecordedFacts, RecordedUnique DEF PluginAccepted
<1>2. name \in Contracts /\ name # NoContract
  OBVIOUS
<1>3. loadedContracts' = Emplace(loadedContracts, space, name)
  BY DEF PluginAccepted
<1>4. loadedContracts \in [Spaces -> Contracts \cup {NoContract}]
  BY DEF TypeOK
<1>5. \A a, b \in SpacesOf(records') : a[1] = b[1] <=> a[2] = b[2]
  BY <1>1, SpacesOfOneToOne
<1>6. SpacesOf(records) \subseteq SpacesOf(records')
  BY <1>1, ExtendsSpaces DEF TypeOK
<1> HIDE DEF name, space
<1>7. loadedContracts'[space] = name
  <2>1. CASE loadedContracts[space] = NoContract
    BY <1>1, <1>3, <1>4, <2>1 DEF Emplace
  <2>2. CASE loadedContracts[space] # NoContract
    <3>1. <<loadedContracts[space], space>> \in SpacesOf(records')
      BY <1>1, <1>6, <2>2 DEF MonitorInv
    <3>2. loadedContracts[space] = name
      BY <1>1, <1>5, <3>1
    <3> QED BY <1>3, <2>2, <3>2 DEF Emplace
  <2> QED BY <2>1, <2>2
<1>8. \A s \in Spaces : loadedContracts'[s] = loadedContracts[s]
                        \/ (s = space /\ loadedContracts[s] = NoContract)
  BY <1>1, <1>3, <1>4 DEF Emplace
<1>9. ASSUME NEW s \in Spaces, loadedContracts'[s] # NoContract
      PROVE  <<loadedContracts'[s], s>> \in SpacesOf(records')
  <2>1. CASE s = space
    BY <1>1, <1>7, <2>1
  <2>2. CASE s # space
    <3>1. loadedContracts'[s] = loadedContracts[s]
      BY <1>8, <2>2
    <3> QED BY <1>6, <1>9, <3>1 DEF MonitorInv
  <2> QED BY <2>1, <2>2
<1>10. ASSUME NEW s \in Spaces, loadedContracts'[s] = name
       PROVE  s = space
  <2>1. <<name, s>> \in SpacesOf(records')
    BY <1>2, <1>9, <1>10
  <2> QED BY <1>1, <1>5, <2>1
<1>11. Named(loadedContracts', name) = {space}
  BY <1>1, <1>7, <1>10 DEF Named
<1> QED BY <1>7, <1>8, <1>9, <1>11 DEF name, space

\* Every step keeps the map of loaded contracts in agreement with the records.
LEMMA MonitorStep ==
  ASSUME Room, TypeOK, TaskInv, RecordsInv, UniqueInv, MonitorInv, [Next]_vars
  PROVE  MonitorInv'
<1>1. CASE Start
  BY <1>1 DEF Start, MonitorInv, RecordsInv, InChain, NoContracts
<1>2. CASE InitializePlugin
  <2> DEFINE p     == Head(pluginPaths)
             space == SpaceFor(records', NameOf[p])
  <2>1. p \in Plugins /\ phase \in {"boot", "up"}
    BY <1>2, HeadIsPlugin DEF InitializePlugin, TaskInv
  <2>2. phase' # "down"
    BY <1>2, <2>1 DEF InitializePlugin, PluginAccepted, PluginRejected,
                      PluginThrows, NextPlugin, LeaveLoop
  <2>3. CASE PluginAccepted(p)
    <3>1. /\ loadedContracts'[space] = NameOf[p]
          /\ \A s \in Spaces : loadedContracts'[s] = loadedContracts[s]
                               \/ (s = space /\ loadedContracts[s] = NoContract)
          /\ \A s \in Spaces : loadedContracts'[s] # NoContract =>
                <<loadedContracts'[s], s>> \in SpacesOf(records')
          /\ Named(loadedContracts', NameOf[p]) = {space}
      BY <2>1, <2>3, NameLeadsToSpace
    <3>2. /\ registered' = registered \cup {<<p, space>>}
          /\ contractMonitors' = contractMonitors \cup {<<p, space>>}
      <4>1. getSpaceId(loadedContracts', NameOf[p]) = space
        <5>1. getSpaceId(loadedContracts', NameOf[p])
                \in Named(loadedContracts', NameOf[p])
          BY <3>1, LowestSpace DEF Named
        <5> QED BY <3>1, <5>1
      <4> QED BY <2>3, <3>1, <4>1 DEF PluginAccepted
    <3>3. ASSUME NEW r \in registered'
          PROVE  loadedContracts'[r[2]] = NameOf[r[1]]
      <4>1. CASE r \in registered
        <5>1. /\ r[2] \in Spaces
              /\ loadedContracts[r[2]] = NameOf[r[1]]
              /\ NameOf[r[1]] # NoContract
          BY <4>1 DEF MonitorInv, TypeOK
        <5> QED BY <3>1, <5>1
      <4>2. CASE r = <<p, space>>
        BY <3>1, <4>2
      <4> QED BY <3>2, <3>3, <4>1, <4>2
    <3> HIDE DEF p, space
    <3> QED BY <2>1, <2>2, <3>1, <3>2, <3>3 DEF MonitorInv
  <2>4. CASE PluginRejected(p) \/ \E outcome : PluginThrows(p, outcome)
    <3>1. /\ Recorded(p)
          /\ UNCHANGED <<loadedContracts, contractMonitors, registered>>
      BY <2>4 DEF PluginRejected, PluginThrows
    <3>2. SpacesOf(records) \subseteq SpacesOf(records')
      BY <2>1, <3>1, RecordedFacts, ExtendsSpaces DEF TypeOK
    <3> QED BY <2>1, <2>2, <3>1, <3>2 DEF MonitorInv
  <2> QED BY <1>2, <2>3, <2>4 DEF InitializePlugin
<1>3. ASSUME NEW p \in Plugins, LoadPlugin(p)
      PROVE  MonitorInv'
  BY <1>3 DEF LoadPlugin, MonitorInv
<1>4. CASE FinishSearch \/ FinishInitialize \/ ApplyBlock
  BY <1>4 DEF FinishSearch, FinishInitialize, ApplyBlock, node, MonitorInv
<1>5. CASE SearchOnSignal \/ Exit \/ DestroyLibraries \/ DestroyMonitors \/ CloseChain
  BY <1>5 DEF SearchOnSignal, Exit, DestroyLibraries, DestroyMonitors, CloseChain,
              volatile, node, MonitorInv
<1>6. CASE Gone
  BY <1>6 DEF Gone, MonitorInv, NoContracts
<1>7. CASE UNCHANGED vars
  BY <1>7 DEF vars, volatile, node, MonitorInv
<1>8. CASE OpenChain \/ BeginGenesis \/ FinishGenesis
  BY <1>8, OpeningFacts DEF node, MonitorInv
<1> QED BY <1>1, <1>2, <1>3, <1>4, <1>5, <1>6, <1>7, <1>8
        DEF Next, FlushPersistence, Kill, Terminate, CallUnmappedCode

\* Every registered contract is watched, on the space it was told, although
\* initializePlugin finds that space through the contract's name.
THEOREM ContractsAreWatched ==
  ASSUME Room
  PROVE  Spec => []MonitorsFollowContracts
<1>1. Init => MonitorInv
  BY DEF Init, MonitorInv, NoContracts
<1>2. MonitorInv => MonitorsFollowContracts
  BY DEF MonitorInv, MonitorsFollowContracts
<1>3. TypeOK /\ TaskInv /\ RecordsInv /\ UniqueInv /\ MonitorInv /\ [Next]_vars
        => MonitorInv'
  BY MonitorStep
<1> QED BY <1>1, <1>2, <1>3, RecordsAreUnique, PTL DEF Spec

-----------------------------------------------------------------------------
(* No library is forgotten *)

\* No exception of a contract leaves initializePlugins.
NothingThrown == InitOutcomes \cap {"throwFc", "throwOther"} = {}

\* Every library that is loaded waits to be initialised or has registered.
WaitingInv ==
    /\ phase = "down" => loadedLibraries = {}
    /\ phase \in {"boot", "up"} =>
          \A p \in loadedLibraries : \/ \E i \in DOMAIN pluginPaths : pluginPaths[i] = p
                                   \/ \E r \in registered : r[1] = p

\* What is in a sequence is its first element or in its tail.
LEMMA HeadOrTail ==
  ASSUME NEW S, NEW q \in Seq(S), q # <<>>, NEW i \in DOMAIN q, q[i] # Head(q)
  PROVE  \E j \in DOMAIN Tail(q) : Tail(q)[j] = q[i]
<1>1. Len(q) \in Nat /\ Tail(q) \in Seq(S) /\ Len(Tail(q)) = Len(q) - 1
  OBVIOUS
<1>2. i \in 1..Len(q) /\ i # 1
  OBVIOUS
<1>3. i - 1 \in DOMAIN Tail(q)
  BY <1>1, <1>2
<1>4. Tail(q)[i - 1] = q[i]
  BY <1>1, <1>2, <1>3
<1> QED BY <1>3, <1>4

\* Every step keeps libraries waiting until they have registered.
LEMMA WaitingStep ==
  ASSUME Room, NothingThrown,
         TypeOK, TaskInv, UniqueInv, MonitorInv, WaitingInv, [Next]_vars
  PROVE  WaitingInv'
<1>1. CASE Start
  BY <1>1 DEF Start, WaitingInv
<1>2. ASSUME NEW p \in Plugins, LoadPlugin(p)
      PROVE  WaitingInv'
  <2>1. /\ pluginPaths' = Append(pluginPaths, p)
        /\ loadedLibraries' = loadedLibraries \cup {p}
        /\ UNCHANGED <<phase, registered>>
        /\ phase \in {"boot", "up"}
    BY <1>2 DEF LoadPlugin, TaskInv
  <2>2. /\ DOMAIN pluginPaths' = 1..(Len(pluginPaths) + 1)
        /\ DOMAIN pluginPaths = 1..Len(pluginPaths) /\ Len(pluginPaths) \in Nat
        /\ pluginPaths'[Len(pluginPaths) + 1] = p
        /\ \A i \in DOMAIN pluginPaths : pluginPaths'[i] = pluginPaths[i]
    BY <2>1 DEF TypeOK
  <2>3. DOMAIN pluginPaths \subseteq DOMAIN pluginPaths'
        /\ Len(pluginPaths) + 1 \in DOMAIN pluginPaths'
    BY <2>2
  <2> QED BY <2>1, <2>2, <2>3 DEF WaitingInv
<1>3. CASE InitializePlugin
  <2> DEFINE p == Head(pluginPaths)
  <2>1. p \in Plugins /\ phase \in {"boot", "up"} /\ pluginPaths # <<>>
    BY <1>3, HeadIsPlugin DEF InitializePlugin, TaskInv
  <2>2. ASSUME NEW q \in loadedLibraries, q # p,
               pluginPaths' = Tail(pluginPaths), registered \subseteq registered'
        PROVE  \/ \E i \in DOMAIN pluginPaths' : pluginPaths'[i] = q
               \/ \E r \in registered' : r[1] = q
    <3> DEFINE paths == pluginPaths
    <3>1. paths \in Seq(Plugins) /\ paths # <<>>
      BY <2>1 DEF TypeOK
    <3>2. \/ \E i \in DOMAIN pluginPaths : pluginPaths[i] = q
          \/ \E r \in registered : r[1] = q
      BY <2>1, <2>2 DEF WaitingInv
    <3>3. ASSUME NEW i \in DOMAIN paths, paths[i] = q
          PROVE  \E j \in DOMAIN pluginPaths' : pluginPaths'[j] = q
      <4>1. paths[i] # Head(paths) /\ pluginPaths' = Tail(paths)
        BY <2>2, <3>3
      <4> HIDE DEF paths
      <4>2. \E j \in DOMAIN Tail(paths) : Tail(paths)[j] = paths[i]
        BY <3>1, <4>1, HeadOrTail
      <4> QED BY <3>3, <4>1, <4>2, Zenon
    <3>4. ASSUME NEW r \in registered, r[1] = q
          PROVE  \E s \in registered' : s[1] = q
      BY <2>2, <3>4
    <3> QED BY <3>2, <3>3, <3>4
  <2>3. CASE PluginAccepted(p)
    <3> DEFINE space == SpaceFor(records', NameOf[p])
    <3>1. Named(loadedContracts', NameOf[p]) # {}
      BY <2>1, <2>3, NameLeadsToSpace
    <3>2. /\ pluginPaths' = Tail(pluginPaths)
          /\ registered' = registered \cup {<<p, space>>}
          /\ UNCHANGED <<phase, loadedLibraries>>
      BY <2>3, <3>1 DEF PluginAccepted, NextPlugin
    <3> HIDE DEF p, space
    <3>3. \E r \in registered' : r[1] = p
      <4>1. <<p, space>> \in registered' /\ <<p, space>>[1] = p
        BY <3>2
      <4> QED BY <4>1, Zenon
    <3> QED BY <2>1, <2>2, <3>2, <3>3 DEF WaitingInv
  <2>4. CASE PluginRejected(p)
    <3>1. /\ pluginPaths' = Tail(pluginPaths)
          /\ loadedLibraries' = loadedLibraries \ {p}
          /\ UNCHANGED <<phase, registered>>
      BY <2>4 DEF PluginRejected, Rejected, NextPlugin
    <3> HIDE DEF p
    <3> QED BY <2>1, <2>2, <3>1 DEF WaitingInv
  <2> QED BY <1>3, <2>3, <2>4 DEF InitializePlugin, PluginThrows, NothingThrown
<1>4. CASE OpenChain \/ BeginGenesis \/ FinishGenesis
  BY <1>4, OpeningFacts DEF node, WaitingInv
<1>5. CASE FinishSearch \/ FinishInitialize \/ ApplyBlock \/ SearchOnSignal
  BY <1>5 DEF FinishSearch, FinishInitialize, ApplyBlock, SearchOnSignal, node,
              WaitingInv
<1>6. CASE Exit \/ DestroyLibraries \/ DestroyMonitors \/ CloseChain
  BY <1>6 DEF Exit, DestroyLibraries, DestroyMonitors, CloseChain, WaitingInv
<1>7. CASE Gone
  BY <1>7 DEF Gone, WaitingInv
<1>8. CASE UNCHANGED vars
  BY <1>8 DEF vars, volatile, node, WaitingInv
<1> QED BY <1>1, <1>2, <1>3, <1>4, <1>5, <1>6, <1>7, <1>8
        DEF Next, FlushPersistence, Kill, Terminate, CallUnmappedCode

\* When no contract throws what initializePlugin lets through, every library
\* that a running node has loaded has registered with the chain.
THEOREM LibrariesAreRemembered ==
  ASSUME Room, NothingThrown
  PROVE  Spec => []NoLibraryForgotten
<1>1. Init => WaitingInv /\ MonitorInv
  BY DEF Init, WaitingInv, MonitorInv, NoContracts
<1>2. TaskInv /\ WaitingInv => NoLibraryForgotten
  BY DEF TaskInv, WaitingInv, NoLibraryForgotten
<1>3. TypeOK /\ TaskInv /\ RecordsInv /\ UniqueInv /\ MonitorInv /\ [Next]_vars
        => MonitorInv'
  BY MonitorStep
<1>4. TypeOK /\ TaskInv /\ UniqueInv /\ MonitorInv /\ WaitingInv /\ [Next]_vars
        => WaitingInv'
  BY WaitingStep
<1> QED BY <1>1, <1>2, <1>3, <1>4, RecordsAreUnique, PTL DEF Spec

-----------------------------------------------------------------------------
(* The registry implements a consistent assignment *)

\* In a node that always exits in order, every space that was ever told is in
\* the records, in memory while the node runs and on disk while it is down.
Orderly == /\ KillPhases = {}
           /\ UnloadUnmaps = FALSE
           /\ "throwOther" \notin InitOutcomes

AssignedInv ==
    /\ phase # "terminate"
    /\ assigned \subseteq SpacesOf(IF phase = "down" THEN persisted ELSE records)

\* Every step of an orderly node keeps told spaces in the records.
LEMMA AssignedStep ==
  ASSUME Orderly, TypeOK, TaskInv, AssignedInv, [Next]_vars
  PROVE  AssignedInv'
<1>1. CASE Start
  BY <1>1 DEF Start, LoadRecords, history, AssignedInv
<1>2. CASE InitializePlugin
  <2> DEFINE p == Head(pluginPaths)
  <2>1. p \in Plugins /\ phase \in {"boot", "up"} /\ Recorded(p)
    BY <1>2, HeadIsPlugin DEF InitializePlugin, TaskInv, PluginAccepted,
                              PluginRejected, PluginThrows
  <2>2. phase' # "down" /\ phase' # "terminate"
    BY <1>2, <2>1 DEF InitializePlugin, PluginAccepted, PluginRejected,
                      PluginThrows, NextPlugin, LeaveLoop, Orderly
  <2>3. SpacesOf(records) \subseteq SpacesOf(records')
    BY <2>1, RecordedFacts, ExtendsSpaces DEF TypeOK
  <2>4. /\ assigned' = assigned \cup {<<NameOf[p], SpaceFor(records', NameOf[p])>>}
        /\ <<NameOf[p], SpaceFor(records', NameOf[p])>> \in SpacesOf(records')
    BY <2>1, RecordedFacts
  <2> HIDE DEF p
  <2> QED BY <2>1, <2>2, <2>3, <2>4 DEF AssignedInv
<1>3. ASSUME NEW p \in Plugins, LoadPlugin(p)
      PROVE  AssignedInv'
  BY <1>3 DEF LoadPlugin, durable, history, AssignedInv
<1>4. CASE FinishSearch \/ FinishInitialize \/ ApplyBlock
  BY <1>4 DEF FinishSearch, FinishInitialize, ApplyBlock, node, durable, history,
              AssignedInv
<1>5. CASE SearchOnSignal \/ Exit \/ DestroyLibraries \/ DestroyMonitors \/ CloseChain
  BY <1>5 DEF SearchOnSignal, Exit, DestroyLibraries, DestroyMonitors, CloseChain,
              volatile, node, durable, history, AssignedInv
<1>6. CASE FlushPersistence
  BY <1>6 DEF FlushPersistence, SavedRecords, Gone, history, AssignedInv
<1>7. CASE Kill \/ Terminate \/ CallUnmappedCode
  BY <1>7 DEF Kill, Terminate, CallUnmappedCode, Orderly, AssignedInv
<1>8. CASE UNCHANGED vars
  BY <1>8 DEF vars, volatile, node, durable, history, AssignedInv
<1>9. CASE OpenChain \/ BeginGenesis \/ FinishGenesis
  BY <1>9, OpeningFacts DEF node, AssignedInv
<1> QED BY <1>1, <1>2, <1>3, <1>4, <1>5, <1>6, <1>7, <1>8, <1>9 DEF Next

\* A step of the registry assigns a space as SpaceAssignment allows, or none.
LEMMA AssignmentStep ==
  ASSUME Room, TypeOK, TaskInv, UniqueInv, AssignedInv, [Next]_vars
  PROVE  [Assignment!Next]_assigned
<1>1. CASE UNCHANGED assigned
  BY <1>1
<1>2. CASE InitializePlugin
  <2> DEFINE name  == NameOf[Head(pluginPaths)]
             space == SpaceFor(records', name)
  <2>1. /\ Head(pluginPaths) \in Plugins
        /\ Recorded(Head(pluginPaths))
        /\ phase \in {"boot", "up"}
    BY <1>2, HeadIsPlugin DEF InitializePlugin, TaskInv, PluginAccepted,
                              PluginRejected, PluginThrows
  <2>2. /\ name \in Contracts /\ space \in Spaces
        /\ <<name, space>> \in SpacesOf(records')
        /\ assigned' = assigned \cup {<<name, space>>}
        /\ records' \in Seq(Contracts)
        /\ Extends(records, records')
        /\ NoDuplicates(records')
    BY <2>1, RecordedFacts, RecordedUnique
  <2>3. assigned \subseteq SpacesOf(records')
    BY <2>1, <2>2, ExtendsSpaces DEF AssignedInv, TypeOK
  <2>4. \A a \in SpacesOf(records') : a[1] = name <=> a[2] = space
    BY <2>2, SpacesOfOneToOne
  <2> HIDE DEF name, space
  <2>5. CASE <<name, space>> \in assigned
    BY <2>2, <2>5
  <2>6. CASE <<name, space>> \notin assigned
    <3>1. ASSUME NEW a \in assigned
          PROVE  a[1] # name /\ a[2] # space
      <4>1. a = <<a[1], a[2]>>
        BY DEF TypeOK
      <4> QED BY <2>3, <2>4, <2>6, <4>1
    <3>2. Assignment!Assign(name, space)
      BY <2>2, <3>1 DEF Assignment!Assign
    <3> QED BY <2>2, <3>2 DEF Assignment!Next
  <2> QED BY <2>5, <2>6
<1> QED BY <1>1, <1>2, TellsNobody

\* The spaces contracts are told, over all runs of a node that always exits in
\* order, are a consistent assignment ("Primarily used to consistently assign
\* object space IDs", ContractRecord).
THEOREM RegistryImplementsAssignment ==
  ASSUME Room, Orderly
  PROVE  Spec => AssignmentIsConsistent
<1>1. Init => Assignment!Init /\ AssignedInv
  BY DEF Init, Assignment!Init, AssignedInv
<1>2. TypeOK /\ TaskInv /\ AssignedInv /\ [Next]_vars => AssignedInv'
  BY AssignedStep
<1>3. TypeOK /\ TaskInv /\ UniqueInv /\ AssignedInv /\ [Next]_vars
        => [Assignment!Next]_assigned
  BY AssignmentStep
<1> QED BY <1>1, <1>2, <1>3, RecordsAreUnique, PTL
        DEF Spec, AssignmentIsConsistent, Assignment!Spec
================================================================================
