----------------------------- MODULE TableMonitors -----------------------------
(***************************************************************************)
(* Who observes a contract's tables is told of every change of an object:  *)
(* a MultiTableMonitor attaches a TableMonitor to each table of the        *)
(* contract's object space, and each TableMonitor turns what the chain     *)
(* tells a secondary index into signals.                                   *)
(*                                                                         *)
(* graphene::db is external.  It modifies an object in place between       *)
(* about_to_modify and object_modified, and calls contract code, which may *)
(* modify another object, or throw, in between.  A session that is undone  *)
(* tells the secondary indexes of each object it restores.                 *)
(*                                                                         *)
(* A subscriber that applies what it is told to its own picture of the     *)
(* tables stands for the slots that ContractNode connects.                 *)
(***************************************************************************)
EXTENDS Naturals, Sequences, SequencesExt

CONSTANTS
    Monitors,       \* MultiTableMonitors that may be made
    Tables,         \* types of a contract's object space
    Ids,            \* object ids of a table
    Values,         \* what an object may hold
    None,           \* no object
    MaxNesting,     \* bound: modifications within each other
    MayNestInTable  \* may they be of one table?

VARIABLES
    isOpen,     \* is the chain open?
    indexes,    \* tables that a contract has added to the chain
    objects,    \* what is in them
    session,    \* the chain's undo session: what it started from and modified
    modifying,  \* objects that are being modified, the innermost last
    thrown,     \* has a modification thrown, the session not yet been undone?
    alive,      \* MultiTableMonitors that exist
    monitors,   \* of each of them, the tables it has a TableMonitor on
    secondary,  \* of each table, the monitors whose TableMonitor is attached
    preModifiedObject, \* of each TableMonitor
    picture     \* what the subscriber of each monitor takes the tables to be

db == <<isOpen, indexes, objects, session, modifying, thrown>>
watchers == <<alive, monitors, secondary, preModifiedObject, picture>>
vars == <<db, watchers>>

ASSUME NestingAssumption == MaxNesting \in Nat /\ MayNestInTable \in BOOLEAN
ASSUME NoneAssumption == None \notin Values /\ None \notin Ids \X (Values \cup {None})

NoObjects == [t \in Tables |-> [i \in Ids |-> None]]
Contents == [Tables -> [Ids -> Values \cup {None}]]
NoSession == [open |-> FALSE, from |-> NoObjects, saved |-> {}]

Init ==
    /\ isOpen = FALSE
    /\ indexes = {}
    /\ objects = NoObjects
    /\ session = NoSession
    /\ modifying = <<>>
    /\ thrown = FALSE
    /\ alive = {}
    /\ monitors = [m \in Monitors |-> {}]
    /\ secondary = [t \in Tables |-> {}]
    /\ preModifiedObject = [m \in Monitors |-> [t \in Tables |-> None]]
    /\ picture = [m \in Monitors |-> NoObjects]

-----------------------------------------------------------------------------
(* TableMonitor, called by the chain for an object of its table *)

\* object_loaded and object_created: the subscriber adds the object.
object_created(t, i, v) ==
    /\ picture' = [m \in Monitors |->
          IF m \in secondary[t] THEN [picture[m] EXCEPT ![t][i] = v] ELSE picture[m]]
    /\ UNCHANGED preModifiedObject

object_removed(t, i) ==
    /\ picture' = [m \in Monitors |->
          IF m \in secondary[t] THEN [picture[m] EXCEPT ![t][i] = None] ELSE picture[m]]
    /\ UNCHANGED preModifiedObject

\* Mutant: what a modification started from, by its type alone.
MutantTypeOnly(t, i) ==
    preModifiedObject' = [m \in Monitors |->
        IF m \in secondary[t] THEN [preModifiedObject[m] EXCEPT ![t] = <<t, i>>]
        ELSE preModifiedObject[m]]

\* Mutant: what an earlier modification left is kept.
MutantKeepsOlder(t, i) ==
    preModifiedObject' = [m \in Monitors |->
        IF m \in secondary[t] /\ preModifiedObject[m][t] = None
        THEN [preModifiedObject[m] EXCEPT ![t] = <<i, objects[t][i]>>]
        ELSE preModifiedObject[m]]

about_to_modify(t, i) ==
    preModifiedObject' = [m \in Monitors |->
        IF m \in secondary[t]
        THEN [preModifiedObject[m] EXCEPT ![t] = <<i, objects[t][i]>>]
        ELSE preModifiedObject[m]]

\* A change is signalled when there is something it started from, and that
\* is forgotten; otherwise only the log has it.
object_modified(t, i, v) ==
    /\ picture' = [m \in Monitors |->
          IF m \in secondary[t] /\ preModifiedObject[m][t] # None
          THEN [picture[m] EXCEPT ![t][i] = v]
          ELSE picture[m]]
    /\ preModifiedObject' = [m \in Monitors |->
          IF m \in secondary[t] THEN [preModifiedObject[m] EXCEPT ![t] = None]
          ELSE preModifiedObject[m]]

-----------------------------------------------------------------------------
(* MultiTableMonitor *)

AtRest == modifying = <<>> /\ ~ thrown

\* What observers start from: inspectContractDatabase, every object of every
\* table there is.
Inspected(tables) == [t \in Tables |-> IF t \in tables THEN objects[t] ELSE NoObjects[t]]

\* A library registers, which may add tables, and initializePlugin makes a
\* monitor of each table that its contract has by then.
Observe(m, added) ==
    /\ AtRest
    /\ ~ session.open
    /\ m \notin alive
    /\ indexes' = indexes \cup added
    /\ alive' = alive \cup {m}
    /\ monitors' = [monitors EXCEPT ![m] = indexes']
    /\ secondary' = [t \in Tables |->
          IF t \in indexes' THEN secondary[t] \cup {m} ELSE secondary[t]]
    /\ preModifiedObject' = [preModifiedObject EXCEPT ![m] = [t \in Tables |-> None]]
    /\ picture' = [picture EXCEPT ![m] = Inspected(indexes')]
    /\ UNCHANGED <<isOpen, objects, session, modifying, thrown>>

\* Mutant: all monitors of the tables go.
MutantDeletesAll(m) ==
    [t \in Tables |-> IF t \in monitors[m] THEN {} ELSE secondary[t]]

\* Mutant: the table monitor of one table only is deleted.
MutantDeletesOne(m) ==
    [t \in Tables |-> IF monitors[m] # {} /\ t = CHOOSE u \in monitors[m] : TRUE
                     THEN secondary[t] \ {m} ELSE secondary[t]]

\* ~MultiTableMonitor deletes its own table monitors, and no other.
WithoutMonitor(m) ==
    [t \in Tables |-> IF t \in monitors[m] THEN secondary[t] \ {m} ELSE secondary[t]]

Destroy(m) ==
    /\ AtRest
    /\ m \in alive
    /\ alive' = alive \ {m}
    /\ monitors' = [monitors EXCEPT ![m] = {}]
    /\ secondary' = WithoutMonitor(m)
    /\ preModifiedObject' = [preModifiedObject EXCEPT ![m] = [t \in Tables |-> None]]
    /\ picture' = [picture EXCEPT ![m] = NoObjects]
    /\ UNCHANGED db

-----------------------------------------------------------------------------
(* The chain *)

\* chain.open loads what is on disk, of the tables that are there, and tells
\* the secondary indexes (object_loaded).
Open(onDisk) ==
    /\ ~ isOpen
    /\ isOpen' = TRUE
    /\ \A t \in Tables \ indexes : onDisk[t] = NoObjects[t]
    /\ objects' = onDisk
    /\ picture' = [m \in Monitors |-> [t \in Tables |->
          IF m \in secondary[t] THEN onDisk[t] ELSE picture[m][t]]]
    /\ UNCHANGED <<indexes, session, modifying, thrown, alive, monitors,
                   secondary, preModifiedObject>>

StartSession ==
    /\ isOpen
    /\ ~ session.open
    /\ session' = [open |-> TRUE, from |-> objects, saved |-> {}]
    /\ UNCHANGED <<isOpen, indexes, objects, modifying, thrown, watchers>>

Commit ==
    /\ AtRest
    /\ session.open
    /\ session' = NoSession
    /\ UNCHANGED <<isOpen, indexes, objects, modifying, thrown, watchers>>

\* An id is not given again to another object; in the model, not until the
\* session in which its object was removed is over.
CreateObject(t, i, v) ==
    /\ session.open /\ ~ thrown
    /\ t \in indexes
    /\ objects[t][i] = None /\ session.from[t][i] = None
    /\ <<t, i>> \notin session.saved
    /\ objects' = [objects EXCEPT ![t][i] = v]
    /\ object_created(t, i, v)
    /\ UNCHANGED <<isOpen, indexes, session, modifying, thrown, alive, monitors,
                   secondary>>

\* Nobody removes an object while it is modified.
RemoveObject(t, i) ==
    /\ session.open /\ ~ thrown
    /\ objects[t][i] # None
    /\ ~ Contains(modifying, <<t, i>>)
    /\ object_removed(t, i)
    /\ objects' = [objects EXCEPT ![t][i] = None]
    /\ UNCHANGED <<isOpen, indexes, session, modifying, thrown, alive, monitors,
                   secondary>>

\* A modification starts, maybe within that of another object.
BeginModify(t, i) ==
    /\ session.open /\ ~ thrown
    /\ objects[t][i] # None
    /\ Len(modifying) < MaxNesting
    /\ ~ Contains(modifying, <<t, i>>)
    /\ MayNestInTable \/ \A n \in DOMAIN modifying : modifying[n][1] # t
    /\ session' = [session EXCEPT !.saved = @ \cup {<<t, i>>}]
    /\ about_to_modify(t, i)
    /\ modifying' = Append(modifying, <<t, i>>)
    /\ UNCHANGED <<isOpen, indexes, objects, thrown, alive, monitors,
                   secondary, picture>>

EndModify(v) ==
    /\ modifying # <<>> /\ ~ thrown
    /\ LET t == Last(modifying)[1]
           i == Last(modifying)[2]
       IN  /\ objects' = [objects EXCEPT ![t][i] = v]
           /\ object_modified(t, i, v)
    /\ modifying' = Front(modifying)
    /\ UNCHANGED <<isOpen, indexes, session, thrown, alive, monitors,
                   secondary>>

\* Contract code throws, having changed its object or not; object_modified is
\* never called, and the exception passes through the modifications around it.
ModifyThrows(v) ==
    /\ modifying # <<>>
    /\ LET t == Last(modifying)[1]
           i == Last(modifying)[2]
       IN  objects' = [objects EXCEPT ![t][i] = v]
    /\ modifying' = Front(modifying)
    /\ thrown' = TRUE
    /\ UNCHANGED <<isOpen, indexes, session, watchers>>

\* What a subscriber's picture of an object is after it was told of its
\* restoring: as a modification, as a removal or as a creation.
Restored(m, t, i) ==
    IF /\ m \in secondary[t]
       /\ None \in {session.from[t][i], objects[t][i]} \/ <<t, i>> \in session.saved
    THEN session.from[t][i]
    ELSE picture[m][t][i]

\* The session is undone: what it modified is modified back, through
\* about_to_modify and object_modified; what it created or removed is removed
\* or inserted.
Undo ==
    /\ session.open
    /\ modifying = <<>>
    /\ objects' = session.from
    /\ picture' = [m \in Monitors |-> [t \in Tables |-> [i \in Ids |-> Restored(m, t, i)]]]
    /\ preModifiedObject' = [m \in Monitors |-> [t \in Tables |->
          IF /\ m \in secondary[t]
             /\ \E i \in Ids : /\ <<t, i>> \in session.saved
                               /\ session.from[t][i] # None /\ objects[t][i] # None
          THEN None ELSE preModifiedObject[m][t]]]
    /\ session' = NoSession
    /\ thrown' = FALSE
    /\ UNCHANGED <<isOpen, indexes, modifying, alive, monitors,
                   secondary>>

Next ==
    \/ \E m \in Monitors, added \in SUBSET Tables : Observe(m, added)
    \/ \E m \in Monitors : Destroy(m)
    \/ \E onDisk \in Contents : Open(onDisk)
    \/ StartSession
    \/ Commit
    \/ \E t \in Tables, i \in Ids, v \in Values : CreateObject(t, i, v)
    \/ \E t \in Tables, i \in Ids : RemoveObject(t, i)
    \/ \E t \in Tables, i \in Ids : BeginModify(t, i)
    \/ \E v \in Values : EndModify(v)
    \/ \E v \in Values : ModifyThrows(v)
    \/ Undo

Spec == Init /\ [][Next]_vars

-----------------------------------------------------------------------------
(* Properties *)

Objects == Tables \X Ids

TypeOK ==
    /\ isOpen \in BOOLEAN
    /\ indexes \subseteq Tables
    /\ objects \in Contents
    /\ session \in [open : BOOLEAN, from : Contents, saved : SUBSET Objects]
    /\ modifying \in Seq(Objects)
    /\ thrown \in BOOLEAN
    /\ alive \subseteq Monitors
    /\ monitors \in [Monitors -> SUBSET Tables]
    /\ secondary \in [Tables -> SUBSET Monitors]
    /\ preModifiedObject \in [Monitors -> [Tables -> {None} \cup (Ids \X Values)]]
    /\ picture \in [Monitors -> Contents]

\* Whenever nothing is being modified, a subscriber that applies what it was
\* told has the very objects of the table: no change is left out, whatever was
\* loaded, thrown or undone ("Notification that on object was updated; passes
\* type ID and object like {"from": <object>, "to": <object>}",
\* ChainHandler.hpp).
SubscribersKeepUp ==
    AtRest => \A m \in alive : \A t \in monitors[m] : picture[m][t] = objects[t]

\* A change is told "from" what the subscriber was last told of that object,
\* although a modification that threw left its own start behind
\* (preModifiedObject is only reset by object_modified).
ChangesStartWhereTheLastEnded ==
    [][modifying # <<>> /\ modifying' = Front(modifying) /\ ~ thrown' =>
          LET t == Last(modifying)[1]
              i == Last(modifying)[2]
          IN  \A m \in secondary[t] :
                 preModifiedObject[m][t] = <<i, picture[m][t][i]>>]_vars

\* A monitor that is gone is told nothing any more: its signals went with it,
\* and a TableMonitor left on any table would signal through them.
SilentOnceDestroyed ==
    [][\A m \in Monitors \ (alive \cup alive') :
          picture'[m] = picture[m] /\ preModifiedObject'[m] = preModifiedObject[m]]_vars
================================================================================
