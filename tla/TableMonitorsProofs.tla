-------------------------- MODULE TableMonitorsProofs --------------------------
(***************************************************************************)
(* Proofs about TableMonitors for any monitors, tables, objects and values *)
(* and any depth of nesting.                                               *)
(***************************************************************************)
EXTENDS TableMonitors, SequenceTheorems, TLAPS

USE NestingAssumption, NoneAssumption

-----------------------------------------------------------------------------
(* The inductive invariant *)

\* A TableMonitor is attached to a table exactly for the monitors that exist
\* and have one on it.
AttachedInv ==
    \A m \in Monitors, t \in Tables :
        m \in secondary[t] <=> m \in alive /\ t \in monitors[m]

\* Objects are modified in a session of an open chain, which has saved each
\* of them; what it has not saved, created or removed is as it found it.
SessionInv ==
    /\ session.open => isOpen
    /\ thrown \/ modifying # <<>> => session.open
    /\ \A n \in DOMAIN modifying : modifying[n] \in session.saved
    /\ session.open =>
          \A t \in Tables, i \in Ids :
              \/ <<t, i>> \in session.saved
              \/ objects[t][i] = None \/ session.from[t][i] = None
              \/ objects[t][i] = session.from[t][i]

\* No two modifications in progress are of one table, and until one throws
\* every attached TableMonitor has what each of them started from.
ModifyInv ==
    /\ \A n, k \in DOMAIN modifying : modifying[n][1] = modifying[k][1] => n = k
    /\ ~ thrown =>
          \A n \in DOMAIN modifying : \A t \in Tables, i \in Ids :
              modifying[n] = <<t, i>> =>
                  \A m \in secondary[t] : preModifiedObject[m][t] = <<i, objects[t][i]>>

\* A subscriber knows every object, but what the session will restore.
PictureInv ==
    \A m \in Monitors, t \in Tables, i \in Ids :
        m \in secondary[t] =>
            \/ picture[m][t][i] = objects[t][i]
            \/ thrown /\ <<t, i>> \in session.saved

IInv == TypeOK /\ AttachedInv /\ SessionInv /\ ModifyInv /\ PictureInv

-----------------------------------------------------------------------------
(* Lemmas *)

\* The innermost modification, and those around it.
LEMMA FrontFacts ==
  ASSUME NEW S, NEW s \in Seq(S), s # <<>>
  PROVE  /\ Len(s) \in Nat \ {0}
         /\ Last(s) = s[Len(s)] /\ Last(s) \in S
         /\ Len(s) \in DOMAIN s
         /\ Front(s) \in Seq(S)
         /\ Len(Front(s)) = Len(s) - 1
         /\ DOMAIN Front(s) = 1..(Len(s) - 1)
         /\ \A n \in 1..(Len(s) - 1) : Front(s)[n] = s[n]
<1>1. Len(s) \in Nat \ {0} /\ DOMAIN s = 1..Len(s) /\ \A n \in 1..Len(s) : s[n] \in S
  BY EmptySeq, LenProperties
<1>2. /\ SubSeq(s, 1, Len(s) - 1) \in Seq(S)
      /\ Len(SubSeq(s, 1, Len(s) - 1)) = Len(s) - 1
      /\ \A n \in 1..(Len(s) - 1) : SubSeq(s, 1, Len(s) - 1)[n] = s[n]
  BY <1>1, SubSeqProperties
<1> QED BY <1>1, <1>2, LenProperties DEF Front, Last

\* A function of one more object.
LEMMA ContentsExcept ==
  ASSUME NEW c \in Contents, NEW t \in Tables, NEW i \in Ids,
         NEW v \in Values \cup {None}
  PROVE  /\ [c EXCEPT ![t][i] = v] \in Contents
         /\ \A u \in Tables, j \in Ids :
               [c EXCEPT ![t][i] = v][u][j] = IF u = t /\ j = i THEN v ELSE c[u][j]
  BY DEF Contents

LEMMA NoObjectsType == NoObjects \in Contents /\ NoSession \in
    [open : BOOLEAN, from : Contents, saved : SUBSET Objects]
  BY DEF NoObjects, NoSession, Contents

\* The object that the innermost modification is of.
LEMMA InnermostObject ==
  ASSUME TypeOK, modifying # <<>>
  PROVE  /\ Last(modifying)[1] \in Tables /\ Last(modifying)[2] \in Ids
         /\ Last(modifying) = <<Last(modifying)[1], Last(modifying)[2]>>
         /\ Last(modifying) = modifying[Len(modifying)]
         /\ Len(modifying) \in DOMAIN modifying
         /\ Front(modifying) \in Seq(Objects)
<1>1. /\ Last(modifying) \in Tables \X Ids
      /\ Last(modifying) = modifying[Len(modifying)]
      /\ Len(modifying) \in DOMAIN modifying
      /\ Front(modifying) \in Seq(Objects)
  BY FrontFacts DEF TypeOK, Objects
<1> QED BY <1>1

\* The others stay where they are when it ends.
LEMMA ModifyingEnds ==
  ASSUME TypeOK, modifying # <<>>, modifying' = Front(modifying)
  PROVE  /\ \A n \in DOMAIN modifying' :
               n \in DOMAIN modifying /\ modifying'[n] = modifying[n]
         /\ Len(modifying) \in DOMAIN modifying /\ Len(modifying) \notin DOMAIN modifying'
<1>1. /\ Len(modifying) \in Nat \ {0}
      /\ DOMAIN modifying' = 1..(Len(modifying) - 1)
      /\ \A n \in 1..(Len(modifying) - 1) : modifying'[n] = modifying[n]
  BY FrontFacts DEF TypeOK
<1>2. DOMAIN modifying = 1..Len(modifying)
  BY LenProperties DEF TypeOK
<1> QED BY <1>1, <1>2

-----------------------------------------------------------------------------
(* Type correctness *)

LEMMA TypeInit == Init => TypeOK
<1> SUFFICES ASSUME Init
             PROVE  TypeOK
  OBVIOUS
<1>1. modifying \in Seq(Objects)
  BY EmptySeq DEF Init
<1>2. objects \in Contents /\ picture \in [Monitors -> Contents]
  BY NoObjectsType DEF Init
<1>3. session \in [open : BOOLEAN, from : Contents, saved : SUBSET Objects]
  BY NoObjectsType DEF Init
<1> QED BY <1>1, <1>2, <1>3 DEF Init, TypeOK

LEMMA TypeStep == TypeOK /\ [Next]_vars => TypeOK'
<1> SUFFICES ASSUME TypeOK, [Next]_vars
             PROVE  TypeOK'
  OBVIOUS
<1> USE NoObjectsType
<1>1. ASSUME NEW m \in Monitors, NEW added \in SUBSET Tables, Observe(m, added)
      PROVE  TypeOK'
  <2>1. Inspected(indexes') \in Contents
    BY <1>1 DEF Observe, Inspected, Contents, TypeOK, NoObjects
  <2> QED BY <1>1, <2>1 DEF Observe, TypeOK
<1>2. ASSUME NEW m \in Monitors, Destroy(m)
      PROVE  TypeOK'
  BY <1>2 DEF Destroy, WithoutMonitor, TypeOK, db
<1>3. ASSUME NEW onDisk \in Contents, Open(onDisk)
      PROVE  TypeOK'
  <2>1. picture' \in [Monitors -> Contents]
    BY <1>3 DEF Open, TypeOK, Contents
  <2> QED BY <1>3, <2>1 DEF Open, TypeOK
<1>4. CASE StartSession
  BY <1>4 DEF StartSession, TypeOK, watchers
<1>5. CASE Commit
  BY <1>5 DEF Commit, TypeOK, watchers
<1>6. ASSUME NEW t \in Tables, NEW i \in Ids, NEW v \in Values, CreateObject(t, i, v)
      PROVE  TypeOK'
  BY <1>6, ContentsExcept, ZenonT(60) DEF CreateObject, object_created, TypeOK
<1>7. ASSUME NEW t \in Tables, NEW i \in Ids, RemoveObject(t, i)
      PROVE  TypeOK'
  BY <1>7, ContentsExcept DEF RemoveObject, object_removed, TypeOK
<1>8. ASSUME NEW t \in Tables, NEW i \in Ids, BeginModify(t, i)
      PROVE  TypeOK'
  <2>1. <<i, objects[t][i]>> \in Ids \X Values
    BY <1>8 DEF BeginModify, TypeOK, Contents
  <2>2. preModifiedObject' \in [Monitors -> [Tables -> {None} \cup (Ids \X Values)]]
    BY <1>8, <2>1 DEF BeginModify, about_to_modify, TypeOK
  <2>3. <<t, i>> \in Objects
    BY DEF Objects
  <2>4. modifying' \in Seq(Objects)
    BY <1>8, <2>3 DEF BeginModify, TypeOK
  <2> QED BY <1>8, <2>2, <2>3, <2>4 DEF BeginModify, TypeOK
<1>9. ASSUME NEW v \in Values, EndModify(v)
      PROVE  TypeOK'
  <2>1. modifying # <<>>
    BY <1>9 DEF EndModify
  <2> DEFINE t == Last(modifying)[1]
             i == Last(modifying)[2]
  <2>2. t \in Tables /\ i \in Ids /\ Front(modifying) \in Seq(Objects)
    BY <2>1, InnermostObject
  <2>3. objects' = [objects EXCEPT ![t][i] = v] /\ object_modified(t, i, v)
    BY <1>9 DEF EndModify
  <2> HIDE DEF t, i
  <2>4. objects' \in Contents
    BY <2>2, <2>3, ContentsExcept DEF TypeOK
  <2>5. picture' \in [Monitors -> Contents]
    BY <2>2, <2>3, ContentsExcept DEF TypeOK, object_modified
  <2>6. preModifiedObject' \in [Monitors -> [Tables -> {None} \cup (Ids \X Values)]]
    BY <2>2, <2>3 DEF TypeOK, object_modified
  <2> QED BY <1>9, <2>2, <2>4, <2>5, <2>6 DEF EndModify, TypeOK
<1>10. ASSUME NEW v \in Values, ModifyThrows(v)
       PROVE  TypeOK'
  <2>1. modifying # <<>>
    BY <1>10 DEF ModifyThrows
  <2> DEFINE t == Last(modifying)[1]
             i == Last(modifying)[2]
  <2>2. t \in Tables /\ i \in Ids /\ Front(modifying) \in Seq(Objects)
    BY <2>1, InnermostObject
  <2>3. objects' = [objects EXCEPT ![t][i] = v]
    BY <1>10 DEF ModifyThrows
  <2> HIDE DEF t, i
  <2>4. objects' \in Contents
    BY <2>2, <2>3, ContentsExcept DEF TypeOK
  <2> QED BY <1>10, <2>2, <2>4 DEF ModifyThrows, TypeOK, watchers
<1>11. CASE Undo
  <2>1. \A m \in Monitors, t \in Tables, i \in Ids : Restored(m, t, i) \in Values \cup {None}
    BY DEF Restored, TypeOK, Contents
  <2>2. picture' \in [Monitors -> Contents]
    BY <1>11, <2>1 DEF Undo, Contents
  <2>3. preModifiedObject' \in [Monitors -> [Tables -> {None} \cup (Ids \X Values)]]
    BY <1>11 DEF Undo, TypeOK
  <2> QED BY <1>11, <2>2, <2>3 DEF Undo, TypeOK
<1>12. CASE UNCHANGED vars
  BY <1>12 DEF vars, db, watchers, TypeOK
<1> QED BY <1>1, <1>2, <1>3, <1>4, <1>5, <1>6, <1>7, <1>8, <1>9, <1>10, <1>11, <1>12
        DEF Next

\* Every state of the monitors and the chain is well typed: a TableMonitor
\* never holds a start without an object (TableMonitor::preModifiedObject).
THEOREM TypeCorrect == Spec => []TypeOK
  BY TypeInit, TypeStep, PTL DEF Spec

-----------------------------------------------------------------------------
(* The other parts of the invariant *)

LEMMA AttachedStep == TypeOK /\ AttachedInv /\ [Next]_vars => AttachedInv'
<1> SUFFICES ASSUME TypeOK, AttachedInv, [Next]_vars
             PROVE  AttachedInv'
  OBVIOUS
<1>1. ASSUME NEW m \in Monitors, NEW added \in SUBSET Tables, Observe(m, added)
      PROVE  AttachedInv'
  BY <1>1 DEF Observe, AttachedInv, TypeOK
<1>2. ASSUME NEW m \in Monitors, Destroy(m)
      PROVE  AttachedInv'
  BY <1>2 DEF Destroy, WithoutMonitor, AttachedInv, TypeOK
<1>3. CASE UNCHANGED <<alive, monitors, secondary>>
  BY <1>3 DEF AttachedInv
<1> QED BY <1>1, <1>2, <1>3
        DEF Next, vars, db, watchers, Open, StartSession, Commit, CreateObject, RemoveObject,
            BeginModify, EndModify, ModifyThrows, Undo

LEMMA SessionStep == TypeOK /\ SessionInv /\ [Next]_vars => SessionInv'
<1> SUFFICES ASSUME TypeOK, SessionInv, [Next]_vars
             PROVE  SessionInv'
  OBVIOUS
<1>1. ASSUME NEW m \in Monitors, NEW added \in SUBSET Tables, Observe(m, added)
      PROVE  SessionInv'
  BY <1>1 DEF Observe, SessionInv
<1>2. ASSUME NEW m \in Monitors, Destroy(m)
      PROVE  SessionInv'
  BY <1>2 DEF Destroy, db, SessionInv
<1>3. ASSUME NEW onDisk \in Contents, Open(onDisk)
      PROVE  SessionInv'
  BY <1>3 DEF Open, SessionInv
<1>4. CASE StartSession
  <2>1. modifying = <<>> /\ ~ thrown
    BY <1>4 DEF StartSession, SessionInv
  <2> QED BY <1>4, <2>1 DEF StartSession, SessionInv
<1>5. CASE Commit
  BY <1>5 DEF Commit, AtRest, NoSession, SessionInv
<1>6. ASSUME NEW t \in Tables, NEW i \in Ids, NEW v \in Values, CreateObject(t, i, v)
      PROVE  SessionInv'
  <2>1. \A u \in Tables, j \in Ids :
          objects'[u][j] = IF u = t /\ j = i THEN v ELSE objects[u][j]
    BY <1>6 DEF CreateObject, TypeOK, Contents
  <2> QED BY <1>6, <2>1 DEF CreateObject, SessionInv
<1>7. ASSUME NEW t \in Tables, NEW i \in Ids, RemoveObject(t, i)
      PROVE  SessionInv'
  <2>1. \A u \in Tables, j \in Ids :
          objects'[u][j] = IF u = t /\ j = i THEN None ELSE objects[u][j]
    BY <1>7 DEF RemoveObject, TypeOK, Contents
  <2> QED BY <1>7, <2>1 DEF RemoveObject, SessionInv
<1>8. ASSUME NEW t \in Tables, NEW i \in Ids, BeginModify(t, i)
      PROVE  SessionInv'
  <2>1. /\ session'.open = session.open /\ session'.from = session.from
        /\ session'.saved = session.saved \cup {<<t, i>>}
    BY <1>8 DEF BeginModify, TypeOK
  <2>2. \A n \in DOMAIN modifying' : modifying'[n] \in session'.saved
    BY <1>8, <2>1 DEF BeginModify, SessionInv, TypeOK
  <2> QED BY <1>8, <2>1, <2>2 DEF BeginModify, SessionInv
<1>9. ASSUME NEW v \in Values, EndModify(v) \/ ModifyThrows(v)
      PROVE  SessionInv'
  <2>1. modifying # <<>> /\ modifying' = Front(modifying) /\ session' = session
        /\ isOpen' = isOpen /\ (thrown' => session.open)
    BY <1>9 DEF EndModify, ModifyThrows, SessionInv
  <2> DEFINE t == Last(modifying)[1]
             i == Last(modifying)[2]
  <2>2. t \in Tables /\ i \in Ids /\ <<t, i>> \in session.saved
    BY <2>1, InnermostObject DEF SessionInv
  <2>3. objects' = [objects EXCEPT ![t][i] = v]
    BY <1>9 DEF EndModify, ModifyThrows
  <2> HIDE DEF t, i
  <2>4. \A u \in Tables, j \in Ids :
          objects'[u][j] = IF u = t /\ j = i THEN v ELSE objects[u][j]
    BY <2>2, <2>3 DEF TypeOK, Contents
  <2>5. \A n \in DOMAIN modifying' : n \in DOMAIN modifying /\ modifying'[n] = modifying[n]
    BY <2>1, ModifyingEnds
  <2>6. \A n \in DOMAIN modifying' : modifying'[n] \in session.saved
    BY <2>5 DEF SessionInv
  <2> QED BY <2>1, <2>2, <2>4, <2>6 DEF SessionInv
<1>10. CASE Undo
  BY <1>10 DEF Undo, NoSession, SessionInv
<1>11. CASE UNCHANGED vars
  BY <1>11 DEF vars, db, SessionInv
<1> QED BY <1>1, <1>2, <1>3, <1>4, <1>5, <1>6, <1>7, <1>8, <1>9, <1>10, <1>11 DEF Next

\* Modifications of one table do not nest, so none of them takes away what
\* another one started from.
LEMMA ModifyStep ==
  ASSUME MayNestInTable = FALSE
  PROVE  TypeOK /\ AttachedInv /\ SessionInv /\ ModifyInv /\ [Next]_vars => ModifyInv'
<1> SUFFICES ASSUME TypeOK, AttachedInv, SessionInv, ModifyInv, [Next]_vars
             PROVE  ModifyInv'
  OBVIOUS
<1>1. CASE modifying' = <<>>
  BY <1>1 DEF ModifyInv
<1>2. ASSUME NEW m \in Monitors, NEW added \in SUBSET Tables, Observe(m, added)
      PROVE  modifying' = <<>>
  BY <1>2 DEF Observe, AtRest
<1>3. ASSUME NEW m \in Monitors, Destroy(m)
      PROVE  modifying' = <<>>
  BY <1>3 DEF Destroy, AtRest, db
<1>4. ASSUME NEW onDisk \in Contents, Open(onDisk)
      PROVE  modifying' = <<>>
  BY <1>4 DEF Open, SessionInv
<1>5. StartSession \/ Commit \/ Undo => modifying' = <<>>
  BY DEF StartSession, Commit, Undo, AtRest, SessionInv
<1>6. ASSUME NEW t \in Tables, NEW i \in Ids, NEW v \in Values, CreateObject(t, i, v)
      PROVE  ModifyInv'
  <2>1. \A u \in Tables, j \in Ids :
          objects'[u][j] = IF u = t /\ j = i THEN v ELSE objects[u][j]
    BY <1>6 DEF CreateObject, TypeOK, Contents
  <2>2. \A n \in DOMAIN modifying : modifying[n] # <<t, i>>
    BY <1>6 DEF CreateObject, SessionInv
  <2> QED BY <1>6, <2>1, <2>2 DEF CreateObject, object_created, ModifyInv
<1>7. ASSUME NEW t \in Tables, NEW i \in Ids, RemoveObject(t, i)
      PROVE  ModifyInv'
  <2>1. \A u \in Tables, j \in Ids :
          objects'[u][j] = IF u = t /\ j = i THEN None ELSE objects[u][j]
    BY <1>7 DEF RemoveObject, TypeOK, Contents
  <2>2. \A n \in DOMAIN modifying : modifying[n] # <<t, i>>
    BY <1>7, LenProperties DEF RemoveObject, Contains, TypeOK
  <2> QED BY <1>7, <2>1, <2>2 DEF RemoveObject, object_removed, ModifyInv
<1>8. ASSUME NEW t \in Tables, NEW i \in Ids, BeginModify(t, i)
      PROVE  ModifyInv'
  <2> DEFINE len == Len(modifying)
  <2>1. /\ len \in Nat /\ DOMAIN modifying = 1..len
        /\ DOMAIN modifying' = 1..(len + 1)
        /\ \A n \in 1..len : modifying'[n] = modifying[n]
        /\ modifying'[len + 1] = <<t, i>>
    BY <1>8 DEF BeginModify, TypeOK
  <2>2. \A n \in 1..len : modifying[n][1] # t
    BY <1>8, <2>1 DEF BeginModify
  <2> HIDE DEF len
  <2>3. \A n, k \in DOMAIN modifying' : modifying'[n][1] = modifying'[k][1] => n = k
    BY <2>1, <2>2 DEF ModifyInv
  <2>4. \A u \in Tables : \A m \in secondary[u] :
          preModifiedObject'[m][u] =
              IF u = t THEN <<i, objects[t][i]>> ELSE preModifiedObject[m][u]
    BY <1>8 DEF BeginModify, about_to_modify, TypeOK
  <2>5. ASSUME NEW n \in DOMAIN modifying', NEW u \in Tables, NEW j \in Ids,
               modifying'[n] = <<u, j>>, NEW m \in secondary'[u]
        PROVE  preModifiedObject'[m][u] = <<j, objects'[u][j]>>
    <3>1. secondary' = secondary /\ objects' = objects /\ ~ thrown
      BY <1>8 DEF BeginModify
    <3>2. CASE n = len + 1
      BY <2>1, <2>4, <2>5, <3>1, <3>2
    <3>3. CASE n \in 1..len
      <4>1. modifying[n] = <<u, j>> /\ u # t
        BY <2>1, <2>2, <2>5, <3>3
      <4> QED BY <2>1, <2>4, <2>5, <3>1, <3>3, <4>1 DEF ModifyInv
    <3> QED BY <2>1, <2>5, <3>2, <3>3
  <2> QED BY <2>3, <2>5 DEF ModifyInv
<1>9. ASSUME NEW v \in Values, EndModify(v) \/ ModifyThrows(v)
      PROVE  ModifyInv'
  <2>1. modifying # <<>> /\ modifying' = Front(modifying)
    BY <1>9 DEF EndModify, ModifyThrows
  <2>2. /\ \A n \in DOMAIN modifying' :
              n \in DOMAIN modifying /\ modifying'[n] = modifying[n]
        /\ Len(modifying) \in DOMAIN modifying /\ Len(modifying) \notin DOMAIN modifying'
    BY <2>1, ModifyingEnds
  <2>3. CASE ModifyThrows(v)
    BY <2>2, <2>3 DEF ModifyInv, ModifyThrows
  <2>4. CASE EndModify(v)
    <3> DEFINE t == Last(modifying)[1]
               i == Last(modifying)[2]
    <3>1. t \in Tables /\ i \in Ids /\ modifying[Len(modifying)] = <<t, i>>
      BY <2>1, InnermostObject
    <3>2. objects' = [objects EXCEPT ![t][i] = v] /\ object_modified(t, i, v)
      BY <2>4 DEF EndModify
    <3> HIDE DEF t, i
    <3>3. \A u \in Tables, j \in Ids : u # t => objects'[u][j] = objects[u][j]
      BY <3>1, <3>2 DEF TypeOK, Contents
    <3>4. \A u \in Tables : u # t =>
            \A m \in secondary[u] : preModifiedObject'[m][u] = preModifiedObject[m][u]
      BY <3>1, <3>2 DEF object_modified, TypeOK
    <3>5. \A n \in DOMAIN modifying', u \in Tables, j \in Ids :
            modifying'[n] = <<u, j>> => u # t
      BY <2>2, <3>1 DEF ModifyInv
    <3> QED BY <2>2, <2>4, <3>3, <3>4, <3>5 DEF ModifyInv, EndModify
  <2> QED BY <1>9, <2>3, <2>4
<1>10. CASE UNCHANGED vars
  BY <1>10 DEF vars, db, watchers, ModifyInv
<1> QED BY <1>1, <1>2, <1>3, <1>4, <1>5, <1>6, <1>7, <1>8, <1>9, <1>10 DEF Next

\* Every step tells the subscribers what it does to an object, or is undone.
LEMMA PictureStep ==
  TypeOK /\ AttachedInv /\ SessionInv /\ ModifyInv /\ PictureInv /\ [Next]_vars
      => PictureInv'
<1> SUFFICES ASSUME TypeOK, AttachedInv, SessionInv, ModifyInv, PictureInv, [Next]_vars
             PROVE  PictureInv'
  OBVIOUS
<1>1. ASSUME NEW m \in Monitors, NEW added \in SUBSET Tables, Observe(m, added)
      PROVE  PictureInv'
  <2>1. ASSUME NEW w \in Monitors, NEW u \in Tables, NEW j \in Ids, w \in secondary'[u]
        PROVE  picture'[w][u][j] = objects'[u][j]
    <3>1. CASE w = m
      <4>1. u \in indexes'
        BY <1>1, <2>1, <3>1 DEF Observe, AttachedInv, TypeOK
      <4> QED BY <1>1, <3>1, <4>1 DEF Observe, Inspected, TypeOK
    <3>2. CASE w # m
      BY <1>1, <2>1, <3>2 DEF Observe, AtRest, PictureInv, TypeOK
    <3> QED BY <3>1, <3>2
  <2> QED BY <2>1 DEF PictureInv
<1>2. ASSUME NEW m \in Monitors, Destroy(m)
      PROVE  PictureInv'
  <2>1. ASSUME NEW w \in Monitors, NEW u \in Tables, w \in secondary'[u]
        PROVE  w # m /\ w \in secondary[u] /\ picture'[w] = picture[w]
    BY <1>2, <2>1 DEF Destroy, WithoutMonitor, AttachedInv, TypeOK
  <2> QED BY <1>2, <2>1 DEF Destroy, db, PictureInv
<1>3. ASSUME NEW onDisk \in Contents, Open(onDisk)
      PROVE  PictureInv'
  BY <1>3 DEF Open, PictureInv, TypeOK
<1>4. CASE StartSession
  <2>1. ~ thrown
    BY <1>4 DEF StartSession, SessionInv
  <2> QED BY <1>4, <2>1 DEF StartSession, watchers, PictureInv
<1>5. CASE Commit
  BY <1>5 DEF Commit, AtRest, watchers, PictureInv
<1>6. ASSUME NEW t \in Tables, NEW i \in Ids, NEW v \in Values, CreateObject(t, i, v)
      PROVE  PictureInv'
  <2>1. \A u \in Tables, j \in Ids :
          objects'[u][j] = IF u = t /\ j = i THEN v ELSE objects[u][j]
    BY <1>6 DEF CreateObject, TypeOK, Contents
  <2>2. \A w \in Monitors, u \in Tables, j \in Ids : w \in secondary[u] =>
          picture'[w][u][j] = IF u = t /\ j = i THEN v ELSE picture[w][u][j]
    BY <1>6 DEF CreateObject, object_created, TypeOK, Contents
  <2> QED BY <1>6, <2>1, <2>2 DEF CreateObject, PictureInv
<1>7. ASSUME NEW t \in Tables, NEW i \in Ids, RemoveObject(t, i)
      PROVE  PictureInv'
  <2>1. \A u \in Tables, j \in Ids :
          objects'[u][j] = IF u = t /\ j = i THEN None ELSE objects[u][j]
    BY <1>7 DEF RemoveObject, TypeOK, Contents
  <2>2. \A w \in Monitors, u \in Tables, j \in Ids : w \in secondary[u] =>
          picture'[w][u][j] = IF u = t /\ j = i THEN None ELSE picture[w][u][j]
    BY <1>7 DEF RemoveObject, object_removed, TypeOK, Contents
  <2> QED BY <1>7, <2>1, <2>2 DEF RemoveObject, PictureInv
<1>8. ASSUME NEW t \in Tables, NEW i \in Ids, BeginModify(t, i)
      PROVE  PictureInv'
  <2>1. session.saved \subseteq session'.saved
    BY <1>8 DEF BeginModify, TypeOK
  <2> QED BY <1>8, <2>1 DEF BeginModify, PictureInv
<1>9. ASSUME NEW v \in Values, EndModify(v) \/ ModifyThrows(v)
      PROVE  PictureInv'
  <2>1. modifying # <<>>
    BY <1>9 DEF EndModify, ModifyThrows
  <2> DEFINE t == Last(modifying)[1]
             i == Last(modifying)[2]
  <2>2. /\ t \in Tables /\ i \in Ids
        /\ Len(modifying) \in DOMAIN modifying /\ modifying[Len(modifying)] = <<t, i>>
        /\ <<t, i>> \in session.saved
    BY <2>1, InnermostObject DEF SessionInv
  <2>3. objects' = [objects EXCEPT ![t][i] = v] /\ (EndModify(v) => object_modified(t, i, v))
    BY <1>9 DEF EndModify, ModifyThrows
  <2> HIDE DEF t, i
  <2>4. \A u \in Tables, j \in Ids :
          objects'[u][j] = IF u = t /\ j = i THEN v ELSE objects[u][j]
    BY <2>2, <2>3 DEF TypeOK, Contents
  <2>5. CASE ModifyThrows(v)
    <3>1. secondary' = secondary /\ picture' = picture /\ session' = session /\ thrown'
      BY <2>5 DEF ModifyThrows, watchers
    <3> QED BY <2>2, <2>4, <3>1 DEF PictureInv
  <2>6. CASE EndModify(v)
    <3>1. ~ thrown /\ secondary' = secondary
      BY <2>6 DEF EndModify
    <3>2. \A m \in secondary[t] : preModifiedObject[m][t] # None
      BY <2>2, <3>1 DEF ModifyInv, TypeOK, Contents
    <3>3. \A w \in Monitors, u \in Tables, j \in Ids : w \in secondary[u] =>
            picture'[w][u][j] = IF u = t /\ j = i THEN v ELSE picture[w][u][j]
      <4>1. \A w \in Monitors : w \in secondary[t] =>
              picture'[w] = [picture[w] EXCEPT ![t][i] = v]
        BY <2>2, <2>3, <2>6, <3>2 DEF object_modified
      <4>2. \A w \in Monitors : w \notin secondary[t] => picture'[w] = picture[w]
        BY <2>2, <2>3, <2>6 DEF object_modified
      <4>3. picture \in [Monitors -> Contents]
        BY DEF TypeOK
      <4> SUFFICES ASSUME NEW w \in Monitors, NEW u \in Tables, NEW j \in Ids, w \in secondary[u]
                   PROVE  picture'[w][u][j] = IF u = t /\ j = i THEN v ELSE picture[w][u][j]
        OBVIOUS
      <4>4. picture[w] \in [Tables -> [Ids -> Values \cup {None}]]
        BY <4>3 DEF Contents
      <4>5. CASE w \in secondary[t]
        <5>1. picture'[w] = [picture[w] EXCEPT ![t][i] = v]
          BY <4>1, <4>5
        <5>2. CASE u = t
          BY <2>2, <4>4, <5>1, <5>2
        <5>3. CASE u # t
          BY <2>2, <4>4, <5>1, <5>3
        <5> QED BY <5>2, <5>3
      <4>6. CASE w \notin secondary[t]
        BY <4>2, <4>6
      <4> QED BY <4>5, <4>6
    <3> QED BY <2>4, <3>1, <3>3 DEF PictureInv
  <2> QED BY <1>9, <2>5, <2>6
<1>10. CASE Undo
  <2>1. ASSUME NEW m \in Monitors, NEW t \in Tables, NEW i \in Ids, m \in secondary[t]
        PROVE  Restored(m, t, i) = session.from[t][i]
    BY <1>10, <2>1 DEF Undo, Restored, SessionInv, PictureInv
  <2> QED BY <1>10, <2>1 DEF Undo, PictureInv
<1>11. CASE UNCHANGED vars
  BY <1>11 DEF vars, db, watchers, PictureInv
<1> QED BY <1>1, <1>2, <1>3, <1>4, <1>5, <1>6, <1>7, <1>8, <1>9, <1>10, <1>11 DEF Next

LEMMA InvariantInit == Init => IInv
<1> SUFFICES ASSUME Init
             PROVE  IInv
  OBVIOUS
<1>1. AttachedInv
  BY DEF Init, AttachedInv
<1>2. SessionInv
  BY DEF Init, SessionInv, NoSession
<1>3. ModifyInv
  BY DEF Init, ModifyInv
<1>4. PictureInv
  BY DEF Init, PictureInv
<1> QED BY <1>1, <1>2, <1>3, <1>4, TypeInit DEF IInv

LEMMA InvariantHolds ==
  ASSUME MayNestInTable = FALSE
  PROVE  Spec => []IInv
<1>1. IInv /\ [Next]_vars => IInv'
  BY TypeStep, AttachedStep, SessionStep, ModifyStep, PictureStep DEF IInv
<1> QED BY InvariantInit, <1>1, PTL DEF Spec

-----------------------------------------------------------------------------
(* What observers can rely on *)

\* However many libraries observe however many tables, a subscriber that
\* applies the signals of its MultiTableMonitor has the objects of the chain
\* whenever nothing is being modified, unless contract code modifies an object
\* within a modification of the same table (TableMonitor::object_modified).
THEOREM SubscribersAlwaysKeepUp ==
  ASSUME MayNestInTable = FALSE
  PROVE  Spec => []SubscribersKeepUp
<1>1. IInv => SubscribersKeepUp
  <2> SUFFICES ASSUME IInv, AtRest, NEW m \in alive, NEW t \in monitors[m]
               PROVE  picture[m][t] = objects[t]
    BY DEF SubscribersKeepUp
  <2>1. m \in Monitors /\ t \in Tables /\ m \in secondary[t]
    BY DEF IInv, TypeOK, AttachedInv
  <2>2. \A i \in Ids : picture[m][t][i] = objects[t][i]
    BY <2>1 DEF IInv, PictureInv, AtRest
  <2>3. picture[m][t] \in [Ids -> Values \cup {None}] /\ objects[t] \in [Ids -> Values \cup {None}]
    BY <2>1 DEF IInv, TypeOK, Contents
  <2> QED BY <2>2, <2>3
<1> QED BY <1>1, InvariantHolds, PTL

\* Every change is told "from" the object as the subscriber was last told of
\* it, whatever an earlier modification that threw left in preModifiedObject.
THEOREM ChangesAreTold ==
  ASSUME MayNestInTable = FALSE
  PROVE  Spec => ChangesStartWhereTheLastEnded
<1> DEFINE Told ==
      modifying # <<>> /\ modifying' = Front(modifying) /\ ~ thrown' =>
          LET t == Last(modifying)[1]
              i == Last(modifying)[2]
          IN  \A m \in secondary[t] : preModifiedObject[m][t] = <<i, picture[m][t][i]>>
<1>1. IInv /\ [Next]_vars => Told
  <2> SUFFICES ASSUME IInv, [Next]_vars, modifying # <<>>, modifying' = Front(modifying),
                      ~ thrown',
                      NEW m \in secondary[Last(modifying)[1]]
               PROVE  preModifiedObject[m][Last(modifying)[1]] =
                        <<Last(modifying)[2], picture[m][Last(modifying)[1]][Last(modifying)[2]]>>
    OBVIOUS
  <2> DEFINE t == Last(modifying)[1]
             i == Last(modifying)[2]
  <2>1. /\ t \in Tables /\ i \in Ids
        /\ Len(modifying) \in DOMAIN modifying /\ modifying[Len(modifying)] = <<t, i>>
    BY InnermostObject DEF IInv
  <2>2. m \in Monitors /\ m \in secondary[t]
    BY <2>1 DEF IInv, TypeOK
  <2>3. ~ thrown
    BY DEF Next, vars, db, watchers, Observe, Destroy, Open, StartSession, Commit, CreateObject,
           RemoveObject, BeginModify, EndModify, ModifyThrows, Undo
  <2> HIDE DEF t, i
  <2>4. preModifiedObject[m][t] = <<i, objects[t][i]>>
    BY <2>1, <2>2, <2>3 DEF IInv, ModifyInv
  <2>5. picture[m][t][i] = objects[t][i]
    BY <2>1, <2>2, <2>3 DEF IInv, PictureInv
  <2> QED BY <2>4, <2>5 DEF t, i
<1>2. IInv /\ [Next]_vars => [Told]_vars
  BY <1>1
<1> QED BY <1>2, InvariantHolds, PTL DEF Spec, ChangesStartWhereTheLastEnded

\* A MultiTableMonitor that was destroyed, or not yet made, is told nothing:
\* its destructor leaves no TableMonitor on any table.
THEOREM DestroyedMonitorsAreSilent == Spec => SilentOnceDestroyed
<1> DEFINE Silent == \A m \in Monitors \ (alive \cup alive') :
              picture'[m] = picture[m] /\ preModifiedObject'[m] = preModifiedObject[m]
<1>1. TypeOK /\ AttachedInv /\ [Next]_vars => Silent
  <2> SUFFICES ASSUME TypeOK, AttachedInv, [Next]_vars,
                      NEW m \in Monitors, m \notin alive, m \notin alive'
               PROVE  picture'[m] = picture[m] /\ preModifiedObject'[m] = preModifiedObject[m]
    OBVIOUS
  <2>1. \A t \in Tables : m \notin secondary[t]
    BY DEF AttachedInv
  <2>2. ASSUME NEW w \in Monitors, NEW added \in SUBSET Tables, Observe(w, added)
        PROVE  picture'[m] = picture[m] /\ preModifiedObject'[m] = preModifiedObject[m]
    BY <2>2 DEF Observe, TypeOK
  <2>3. ASSUME NEW w \in Monitors, Destroy(w)
        PROVE  picture'[m] = picture[m] /\ preModifiedObject'[m] = preModifiedObject[m]
    BY <2>3 DEF Destroy, TypeOK
  <2>4. ASSUME NEW onDisk \in Contents, Open(onDisk)
        PROVE  picture'[m] = picture[m] /\ preModifiedObject'[m] = preModifiedObject[m]
    BY <2>1, <2>4 DEF Open, TypeOK, Contents
  <2>5. StartSession \/ Commit =>
          picture'[m] = picture[m] /\ preModifiedObject'[m] = preModifiedObject[m]
    BY DEF StartSession, Commit, watchers
  <2>6. ASSUME NEW t \in Tables, NEW i \in Ids, NEW v \in Values, CreateObject(t, i, v)
        PROVE  picture'[m] = picture[m] /\ preModifiedObject'[m] = preModifiedObject[m]
    BY <2>1, <2>6 DEF CreateObject, object_created
  <2>7. ASSUME NEW t \in Tables, NEW i \in Ids, RemoveObject(t, i)
        PROVE  picture'[m] = picture[m] /\ preModifiedObject'[m] = preModifiedObject[m]
    BY <2>1, <2>7 DEF RemoveObject, object_removed
  <2>8. ASSUME NEW t \in Tables, NEW i \in Ids, BeginModify(t, i)
        PROVE  picture'[m] = picture[m] /\ preModifiedObject'[m] = preModifiedObject[m]
    BY <2>1, <2>8 DEF BeginModify, about_to_modify
  <2>9. ASSUME NEW v \in Values, EndModify(v)
        PROVE  picture'[m] = picture[m] /\ preModifiedObject'[m] = preModifiedObject[m]
    <3>1. Last(modifying)[1] \in Tables
      BY <2>9, InnermostObject DEF EndModify
    <3> QED BY <2>1, <2>9, <3>1 DEF EndModify, object_modified
  <2>10. ASSUME NEW v \in Values, ModifyThrows(v)
         PROVE  picture'[m] = picture[m] /\ preModifiedObject'[m] = preModifiedObject[m]
    BY <2>10 DEF ModifyThrows, watchers
  <2>11. CASE Undo
    <3>1. picture'[m] = picture[m]
      BY <2>1, <2>11 DEF Undo, Restored, TypeOK, Contents
    <3>2. preModifiedObject'[m] = preModifiedObject[m]
      BY <2>1, <2>11 DEF Undo, TypeOK
    <3> QED BY <3>1, <3>2
  <2>12. CASE UNCHANGED vars
    BY <2>12 DEF vars, watchers
  <2> QED BY <2>2, <2>3, <2>4, <2>5, <2>6, <2>7, <2>8, <2>9, <2>10, <2>11, <2>12 DEF Next
<1>2. TypeOK /\ AttachedInv /\ [Next]_vars => [Silent]_vars
  BY <1>1
<1>3. Init => TypeOK /\ AttachedInv
  BY InvariantInit DEF IInv
<1>4. TypeOK /\ AttachedInv /\ [Next]_vars => (TypeOK /\ AttachedInv)'
  BY TypeStep, AttachedStep
<1> QED BY <1>2, <1>3, <1>4, PTL DEF Spec, SilentOnceDestroyed
================================================================================
