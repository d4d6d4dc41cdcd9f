-------------------------- MODULE StaticVariantProofs --------------------------
(***************************************************************************)
(* Proofs about StaticVariant for any number of variants, any lists of     *)
(* types and any types whose constructors throw.                           *)
(***************************************************************************)
EXTENDS StaticVariant, SequenceTheorems, TLAPS

-----------------------------------------------------------------------------
(* The inductive invariant *)

\* As long as C++ defines what the program does, a variant has an object, of
\* the type that its tag tells, unless the object could not be replaced: then
\* it has none.
LifetimeInv ==
    ~ undefined =>
        \A v \in Variants : variant[v].built =>
            IF v \in half THEN variant[v].object = None
            ELSE /\ variant[v].object # None
                 /\ variant[v].object.type = Dispatch(v, variant[v].tag)

Cells == [built : BOOLEAN, tag : Nat, object : Objects \cup {None}]

-----------------------------------------------------------------------------
(* Lemmas *)

\* The index of a type of the list is a tag, and the tag tells the type.
LEMMA TagOfType ==
  ASSUME NEW v \in Variants, NEW type \in ToSet(List[v])
  PROVE  /\ indexOf(v, type) \in Nat
         /\ IsTag(v, indexOf(v, type))
         /\ Dispatch(v, indexOf(v, type)) = type
<1> DEFINE n == CHOOSE k \in DOMAIN List[v] : List[v][k] = type
<1>1. n \in DOMAIN List[v] /\ List[v][n] = type
  BY DEF ToSet
<1>2. DOMAIN List[v] = 1..Len(List[v]) /\ Len(List[v]) \in Nat
  BY VariantAssumption, LenProperties
<1>3. indexOf(v, type) = n - 1
  BY DEF indexOf
<1> HIDE DEF n
<1>4. n \in 1..Len(List[v])
  BY <1>1, <1>2
<1>5. (n - 1) + 1 = n /\ n - 1 \in Nat /\ n - 1 \in 0..(Len(List[v]) - 1)
  BY <1>2, <1>4
<1> QED BY <1>1, <1>3, <1>5 DEF IsTag, count, Dispatch

\* A tag tells a type of the list; the first type has one.
LEMMA TypeOfTag ==
  ASSUME NEW v \in Variants, NEW tag, IsTag(v, tag)
  PROVE  Dispatch(v, tag) \in ToSet(List[v]) /\ Dispatch(v, tag) \in Types
<1>1. DOMAIN List[v] = 1..Len(List[v]) /\ Len(List[v]) \in Nat
  BY VariantAssumption, LenProperties
<1>2. tag + 1 \in DOMAIN List[v]
  BY <1>1 DEF IsTag, count
<1> QED BY <1>2 DEF Dispatch, ToSet, Types

LEMMA FirstTag ==
  ASSUME NEW v \in Variants
  PROVE  IsTag(v, 0)
<1>1. Len(List[v]) \in Nat \ {0}
  BY VariantAssumption, EmptySeq
<1> QED BY <1>1 DEF IsTag, count

LEMMA ListedTypes ==
  ASSUME NEW v \in Variants
  PROVE  ToSet(List[v]) \subseteq Types
  BY DEF Types

\* What init leaves in a variant.
LEMMA InitFacts ==
  ASSUME NEW v \in Variants, NEW x, NEW object \in Objects, object.type \in ToSet(List[v])
  PROVE  /\ init(v, x, object) \in Cells
         /\ init(v, x, object).built
         /\ IsTag(v, init(v, x, object).tag)
         /\ init(v, x, object).object = object
         /\ object # None
         /\ object.type = Dispatch(v, init(v, x, object).tag)
<1>1. object # None
  BY VariantAssumption
<1> QED BY <1>1, TagOfType DEF init, Cells

LEMMA NotBuiltFacts ==
  /\ NotBuilt \in Cells /\ ~ NotBuilt.built /\ NotBuilt.tag = 0
  BY DEF NotBuilt, Cells

\* Variants that differ from the present ones in values only.
SameShape(from) ==
    /\ from \in [Variants -> Cells]
    /\ \A u \in Variants :
          /\ from[u].built = variant[u].built /\ from[u].tag = variant[u].tag
          /\ from[u].object = None <=> variant[u].object = None
          /\ variant[u].object # None => from[u].object.type = variant[u].object.type

Results == {"ok", "threw", "bad_cast", "range_error"}

\* Giving the object of a variant another value.
LEMMA NewValue ==
  ASSUME TypeOK, NEW v \in Variants, Readable(v), NEW value \in Values \cup {Moved},
         NEW from, from \in [Variants -> Cells],
         \A u \in Variants : u # v => from[u] = variant[u],
         from[v].built = variant[v].built, from[v].tag = variant[v].tag,
         from[v].object = [type |-> variant[v].object.type, value |-> value]
  PROVE  SameShape(from)
<1>1. variant[v].object \in Objects
  BY DEF TypeOK, Readable
<1>2. from[v].object \in Objects /\ from[v].object.type = variant[v].object.type
  BY <1>1 DEF Objects
<1>3. from[v].object # None /\ variant[v].object # None
  BY <1>2, VariantAssumption DEF Readable
<1> QED BY <1>2, <1>3 DEF SameShape

LEMMA AfterMoveFacts ==
  ASSUME TypeOK, NEW v \in Variants, Readable(v), NEW moved \in BOOLEAN
  PROVE  SameShape(AfterMove(v, moved))
<1>1. variant \in [Variants -> Cells]
  BY DEF TypeOK, Cells
<1>2. CASE ~ moved
  BY <1>1, <1>2 DEF AfterMove, SameShape
<1>3. CASE moved
  <2> DEFINE from == AfterMove(v, moved)
  <2>1. from = [variant EXCEPT ![v].object.value = Moved]
    BY <1>3 DEF AfterMove
  <2>2. variant[v].object \in Objects /\ variant[v] \in Cells
    BY <1>1 DEF TypeOK, Readable
  <2>3. [type |-> variant[v].object.type, value |-> Moved] \in Objects
    BY <2>2 DEF Objects
  <2>4. from[v] = [built |-> variant[v].built, tag |-> variant[v].tag,
                   object |-> [type |-> variant[v].object.type, value |-> Moved]]
    BY <1>1, <2>1, <2>2 DEF Cells, Objects
  <2>5. from[v] \in Cells
    BY <2>2, <2>3, <2>4 DEF Cells
  <2>6. \A u \in Variants : u # v => from[u] = variant[u]
    BY <1>1, <2>1
  <2>7. from \in [Variants -> Cells]
    BY <1>1, <2>1, <2>5
  <2> HIDE DEF from
  <2>8. SameShape(from)
    BY <2>4, <2>6, <2>7, NewValue
  <2> QED BY <2>8 DEF from
<1> QED BY <1>2, <1>3

\* Steps that only change values.
LEMMA ShapeStep ==
  ASSUME TypeOK, LifetimeInv, SameShape(variant'), result' \in Results,
         half' = half, undefined' = undefined
  PROVE  TypeOK' /\ LifetimeInv'
<1>1. TypeOK'
  BY DEF TypeOK, SameShape, Cells, Results
<1>2. LifetimeInv'
  BY DEF LifetimeInv, SameShape
<1> QED BY <1>1, <1>2

\* A variant is constructed, or not.
LEMMA ConstructStep ==
  ASSUME TypeOK, LifetimeInv, NEW v \in Variants, ~ variant[v].built,
         NEW from, SameShape(from), NEW object \in Objects, object.type \in ToSet(List[v]),
         NEW completes \in BOOLEAN,
         variant' = [from EXCEPT ![v] = IF completes THEN init(v, NotBuilt, object) ELSE NotBuilt],
         result' \in Results, half' = half, undefined' = undefined
  PROVE  TypeOK' /\ LifetimeInv'
<1> DEFINE new == IF completes THEN init(v, NotBuilt, object) ELSE NotBuilt
<1>1. /\ new \in Cells /\ IsTag(v, new.tag)
      /\ new.built => new.object # None /\ new.object.type = Dispatch(v, new.tag)
  BY InitFacts, NotBuiltFacts, FirstTag
<1>2. /\ variant' \in [Variants -> Cells] /\ variant'[v] = new
      /\ \A u \in Variants : u # v => variant'[u] = from[u]
  BY <1>1 DEF SameShape
<1> HIDE DEF new
<1>3. v \notin half
  BY DEF TypeOK
<1>4. TypeOK'
  <2>1. \A u \in Variants : IsTag(u, variant'[u].tag)
    BY <1>1, <1>2 DEF TypeOK, SameShape
  <2>2. half' \subseteq {u \in Variants : variant'[u].built}
    BY <1>2, <1>3 DEF TypeOK, SameShape
  <2> QED BY <1>2, <2>1, <2>2 DEF TypeOK, Cells, Results
<1>5. LifetimeInv'
  <2> SUFFICES ASSUME ~ undefined, NEW u \in Variants, variant'[u].built
               PROVE  IF u \in half THEN variant'[u].object = None
                      ELSE /\ variant'[u].object # None
                           /\ variant'[u].object.type = Dispatch(u, variant'[u].tag)
    BY DEF LifetimeInv
  <2>1. CASE u = v
    BY <1>1, <1>2, <1>3, <2>1
  <2>2. CASE u # v
    BY <1>2, <2>2 DEF LifetimeInv, SameShape
  <2> QED BY <2>1, <2>2
<1> QED BY <1>4, <1>5

\* The object of a variant is replaced, or destroyed without a successor.
LEMMA ReplaceStep ==
  ASSUME TypeOK, LifetimeInv, ~ undefined, NEW v \in Variants, variant[v].built,
         NEW from, SameShape(from), NEW object \in Objects, object.type \in ToSet(List[v]),
         NEW completes \in BOOLEAN, Replace(v, from, object, completes)
  PROVE  TypeOK' /\ LifetimeInv' /\ (undefined' => v \in half)
<1> DEFINE old == clean(variant[v])
           whole == init(v, old, object)
           new == IF completes THEN whole ELSE [whole EXCEPT !.object = None]
<1>1. /\ whole \in Cells /\ whole.built /\ IsTag(v, whole.tag) /\ whole.object = object
      /\ object # None /\ object.type = Dispatch(v, whole.tag)
  BY InitFacts
<1>2. /\ variant' = [from EXCEPT ![v] = new]
      /\ result' = IF completes THEN "ok" ELSE "threw"
      /\ half' = IF completes THEN half \ {v} ELSE half \cup {v}
      /\ undefined' = (undefined \/ variant[v].object = None)
  BY DEF Replace
<1> HIDE DEF whole
<1>3. /\ new \in Cells /\ new.built /\ IsTag(v, new.tag)
      /\ completes => new.object # None /\ new.object.type = Dispatch(v, new.tag)
      /\ ~ completes => new.object = None
  BY <1>1 DEF Cells
<1> HIDE DEF new
<1>4. /\ variant' \in [Variants -> Cells] /\ variant'[v] = new
      /\ \A u \in Variants : u # v => variant'[u] = from[u]
  BY <1>2, <1>3 DEF SameShape
<1>5. TypeOK'
  <2>1. \A u \in Variants : IsTag(u, variant'[u].tag)
    BY <1>3, <1>4 DEF TypeOK, SameShape
  <2>2. half' \subseteq {u \in Variants : variant'[u].built}
    BY <1>2, <1>3, <1>4 DEF TypeOK, SameShape
  <2>3. result' \in Results /\ undefined' \in BOOLEAN
    BY <1>2 DEF Results
  <2> QED BY <1>4, <2>1, <2>2, <2>3 DEF TypeOK, Cells, Results
<1>6. LifetimeInv'
  <2> SUFFICES ASSUME NEW u \in Variants, variant'[u].built
               PROVE  IF u \in half' THEN variant'[u].object = None
                      ELSE /\ variant'[u].object # None
                           /\ variant'[u].object.type = Dispatch(u, variant'[u].tag)
    BY DEF LifetimeInv
  <2>1. CASE u = v
    BY <1>2, <1>3, <1>4, <2>1
  <2>2. CASE u # v
    BY <1>2, <1>4, <2>2 DEF LifetimeInv, SameShape
  <2> QED BY <2>1, <2>2
<1>7. undefined' => v \in half
  BY <1>2 DEF LifetimeInv
<1> QED BY <1>5, <1>6, <1>7

-----------------------------------------------------------------------------
(* Every call keeps the invariant *)

LEMMA CallStep ==
  ASSUME TypeOK, LifetimeInv, [Next]_vars
  PROVE  TypeOK' /\ LifetimeInv' /\ (undefined' /\ ~ undefined => half # {})
<1> DEFINE Goal == TypeOK' /\ LifetimeInv' /\ (undefined' /\ ~ undefined => half # {})
<1>1. SameShape(variant)
  BY DEF SameShape, TypeOK, Cells
<1>2. \A type : Completes(type) \subseteq BOOLEAN
  BY DEF Completes
<1>3. ASSUME NEW exception \in Results, Refuse(exception)
      PROVE  Goal
  BY <1>1, <1>3, ShapeStep DEF Refuse
<1>4. ASSUME NEW v \in Variants, NEW object \in Objects, object.type \in ToSet(List[v]),
             NEW completes \in BOOLEAN, Construct(v, object, completes)
      PROVE  Goal
  BY <1>1, <1>4, ConstructStep DEF Construct, Results
<1>5. ASSUME ~ undefined, NEW v \in Variants, DefaultConstruct(v)
      PROVE  Goal
  <2>1. PICK value \in Values, completes \in Completes(Dispatch(v, 0)) :
          Construct(v, [type |-> Dispatch(v, 0), value |-> value], completes)
    BY <1>5 DEF DefaultConstruct
  <2>2. [type |-> Dispatch(v, 0), value |-> value] \in Objects /\ Dispatch(v, 0) \in ToSet(List[v])
    BY FirstTag, TypeOfTag DEF Objects
  <2> QED BY <1>2, <1>4, <2>1, <2>2
<1>6. ASSUME ~ undefined, NEW v \in Variants, Destroy(v)
      PROVE  Goal
  <2>1. /\ variant' \in [Variants -> Cells] /\ variant'[v] = NotBuilt
        /\ \A u \in Variants : u # v => variant'[u] = variant[u]
    BY <1>1, <1>6, NotBuiltFacts DEF Destroy, SameShape
  <2>2. TypeOK'
    BY <1>6, <2>1, NotBuiltFacts, FirstTag DEF Destroy, TypeOK, Cells
  <2>3. LifetimeInv'
    BY <1>6, <2>1, NotBuiltFacts DEF Destroy, LifetimeInv
  <2>4. undefined' => v \in half
    BY <1>6 DEF Destroy, LifetimeInv
  <2> QED BY <2>2, <2>3, <2>4
<1>7. ASSUME ~ undefined, NEW v \in Variants, NEW object \in [type : Types, value : Values],
             ConstructFrom(v, object) \/ AssignValue(v, object)
      PROVE  Goal
  <2>1. object \in Objects /\ object.type \in ToSet(List[v])
    BY <1>7 DEF ConstructFrom, AssignValue, Objects
  <2>2. CASE ConstructFrom(v, object)
    BY <1>2, <1>4, <2>1, <2>2 DEF ConstructFrom
  <2>3. CASE AssignValue(v, object)
    BY <1>1, <1>2, <1>7, <2>1, <2>3, ReplaceStep DEF AssignValue
  <2> QED BY <1>7, <2>2, <2>3
<1>8. ASSUME ~ undefined, NEW v \in Variants, NEW w \in Variants, NEW moved \in BOOLEAN,
             ConstructFromVariant(v, w, moved)
      PROVE  Goal
  <2> DEFINE object == variant[w].object
  <2>1. ~ variant[v].built /\ Readable(w)
    BY <1>8 DEF ConstructFromVariant
  <2>2. object \in Objects /\ object.type = Dispatch(w, variant[w].tag)
    BY <1>8, <2>1 DEF Readable, TypeOK, LifetimeInv
  <2>3. CASE Dispatch(w, variant[w].tag) \in ToSet(List[v])
    <3>1. PICK completes \in Completes(object.type) :
            /\ variant' = [AfterMove(w, moved) EXCEPT ![v] =
                  IF completes THEN init(v, NotBuilt, object) ELSE NotBuilt]
            /\ result' = IF completes THEN "ok" ELSE "threw"
            /\ UNCHANGED <<half, undefined>>
      BY <1>8, <2>3 DEF ConstructFromVariant
    <3>2. SameShape(AfterMove(w, moved))
      BY <2>1, AfterMoveFacts
    <3>3. completes \in BOOLEAN /\ result' \in Results /\ half' = half /\ undefined' = undefined
      BY <1>2, <3>1 DEF Results
    <3>4. object.type \in ToSet(List[v])
      BY <2>2, <2>3
    <3> DEFINE from == AfterMove(w, moved)
    <3>5. variant' = [from EXCEPT ![v] = IF completes THEN init(v, NotBuilt, object) ELSE NotBuilt]
      BY <3>1
    <3> HIDE DEF object, from
    <3>6. SameShape(from)
      BY <3>2 DEF from
    <3>7. TypeOK' /\ LifetimeInv'
      BY <2>1, <2>2, <3>3, <3>4, <3>5, <3>6, ConstructStep
    <3> QED BY <3>3, <3>7
  <2>4. CASE Dispatch(w, variant[w].tag) \notin ToSet(List[v])
    BY <1>3, <1>8, <2>4 DEF ConstructFromVariant, Results
  <2> QED BY <2>3, <2>4
<1>9. ASSUME ~ undefined, NEW v \in Variants, NEW w \in Variants, NEW moved \in BOOLEAN,
             AssignVariant(v, w, moved)
      PROVE  Goal
  <2> DEFINE object == variant[w].object
  <2>1. variant[v].built /\ Readable(w) /\ List[v] = List[w]
    BY <1>9 DEF AssignVariant
  <2>2. object \in Objects /\ object.type = Dispatch(w, variant[w].tag)
    BY <1>9, <2>1 DEF Readable, TypeOK, LifetimeInv
  <2>3. object.type \in ToSet(List[v])
    BY <2>1, <2>2, TypeOfTag DEF TypeOK
  <2>4. CASE v = w
    BY <1>1, <1>9, <2>4, ShapeStep DEF AssignVariant, Results
  <2>5. CASE v # w
    <3>1. PICK completes \in Completes(object.type) : Replace(v, AfterMove(w, moved), object, completes)
      BY <1>9, <2>5 DEF AssignVariant
    <3>2. SameShape(AfterMove(w, moved)) /\ completes \in BOOLEAN
      BY <1>2, <2>1, <3>1, AfterMoveFacts
    <3> HIDE DEF object
    <3>3. TypeOK' /\ LifetimeInv' /\ (undefined' => v \in half)
      BY <1>9, <2>1, <2>2, <2>3, <3>1, <3>2, ReplaceStep
    <3> QED BY <3>3
  <2> QED BY <2>4, <2>5
<1>10. ASSUME ~ undefined, NEW v \in Variants, NEW tag \in Tags, set_which(v, tag)
       PROVE  Goal
  <2>1. CASE IsTag(v, tag)
    <3>1. PICK value \in Values, completes \in Completes(Dispatch(v, tag)) :
            Replace(v, variant, [type |-> Dispatch(v, tag), value |-> value], completes)
      BY <1>10, <2>1 DEF set_which
    <3>2. [type |-> Dispatch(v, tag), value |-> value] \in Objects /\ Dispatch(v, tag) \in ToSet(List[v])
      BY <2>1, TypeOfTag DEF Objects
    <3>3. variant[v].built /\ completes \in BOOLEAN
      BY <1>2, <1>10, <3>1 DEF set_which
    <3>4. TypeOK' /\ LifetimeInv' /\ (undefined' => v \in half)
      BY <1>1, <1>10, <3>1, <3>2, <3>3, ReplaceStep
    <3> QED BY <3>4
  <2>2. CASE ~ IsTag(v, tag)
    BY <1>3, <1>10, <2>2 DEF set_which, Results
  <2> QED BY <2>1, <2>2
<1>11. ASSUME NEW v \in Variants, NEW type \in Types, NEW value \in Values,
              Readable(v), type = variant[v].object.type,
              variant' = [variant EXCEPT ![v].object = [type |-> type, value |-> value]],
              result' = "ok", UNCHANGED <<half, undefined>>
       PROVE  Goal
  <2>1. variant \in [Variants -> Cells] /\ variant[v] \in Cells
    BY DEF TypeOK, Cells
  <2>2. [type |-> type, value |-> value] \in Objects
    BY DEF Objects
  <2>3. variant'[v] = [built |-> variant[v].built, tag |-> variant[v].tag,
                       object |-> [type |-> type, value |-> value]]
    BY <1>11, <2>1 DEF Cells
  <2>4. variant'[v] \in Cells
    BY <2>1, <2>2, <2>3 DEF Cells
  <2>5. variant' \in [Variants -> Cells] /\ \A u \in Variants : u # v => variant'[u] = variant[u]
    BY <1>11, <2>1, <2>4
  <2>6. SameShape(variant')
    <3>1. /\ variant'[v].built = variant[v].built /\ variant'[v].tag = variant[v].tag
          /\ variant'[v].object = [type |-> variant[v].object.type, value |-> value]
      BY <1>11, <2>3
    <3> QED BY <1>11, <2>5, <3>1, NewValue
  <2> QED BY <1>11, <2>6, ShapeStep DEF Results
<1>12. ASSUME ~ undefined, NEW v \in Variants, NEW type \in Types, NEW value \in Values,
              get(v, type, value)
       PROVE  Goal
  <2>1. Readable(v) /\ type \in ToSet(List[v])
    BY <1>12 DEF get
  <2>2. variant[v].object.type = Dispatch(v, variant[v].tag)
    BY <1>12, <2>1 DEF Readable, LifetimeInv
  <2>3. CASE variant[v].tag = indexOf(v, type)
    <3>1. type = variant[v].object.type
      BY <2>1, <2>2, <2>3, TagOfType
    <3> QED BY <1>11, <1>12, <2>1, <2>3, <3>1 DEF get
  <2>4. CASE variant[v].tag # indexOf(v, type)
    BY <1>3, <1>12, <2>4 DEF get, Results
  <2> QED BY <2>3, <2>4
<1>13. ASSUME ~ undefined, NEW v \in Variants, NEW value \in Values, visit(v, value)
       PROVE  Goal
  <2>1. Readable(v) /\ IsTag(v, variant[v].tag)
    BY <1>13 DEF visit, TypeOK
  <2>2. variant[v].object.type = Dispatch(v, variant[v].tag)
    BY <1>13, <2>1 DEF Readable, LifetimeInv
  <2>3. Dispatch(v, variant[v].tag) \in Types
    BY <2>1, TypeOfTag
  <2> QED BY <1>11, <1>13, <2>1, <2>2, <2>3 DEF visit
<1>14. ASSUME UNCHANGED vars
       PROVE  Goal
  BY <1>1, <1>14, ShapeStep DEF vars, TypeOK, Results
<1> HIDE DEF Goal
<1>15. ASSUME ~ undefined, Call
       PROVE  Goal
  <2>1. CASE \E v \in Variants : DefaultConstruct(v) \/ Destroy(v)
    BY <1>5, <1>6, <1>15, <2>1
  <2>2. CASE \E v \in Variants, object \in [type : Types, value : Values] :
               ConstructFrom(v, object) \/ AssignValue(v, object)
    BY <1>7, <1>15, <2>2
  <2>3. CASE \E v, w \in Variants, moved \in BOOLEAN :
               ConstructFromVariant(v, w, moved) \/ AssignVariant(v, w, moved)
    BY <1>8, <1>9, <1>15, <2>3
  <2>4. CASE \E v \in Variants, tag \in Tags : set_which(v, tag)
    BY <1>10, <1>15, <2>4
  <2>5. CASE \E v \in Variants, type \in Types, value \in Values : get(v, type, value)
    BY <1>12, <1>15, <2>5
  <2>6. CASE \E v \in Variants, value \in Values : visit(v, value)
    BY <1>13, <1>15, <2>6
  <2> QED BY <1>15, <2>1, <2>2, <2>3, <2>4, <2>5, <2>6 DEF Call
<1>16. ASSUME Next
       PROVE  Goal
  <2>1. ~ undefined /\ Call
    BY <1>16, Zenon DEF Next
  <2> QED BY <1>15, <2>1, Zenon
<1>17. Goal
  BY <1>14, <1>16
<1> QED BY <1>17 DEF Goal

LEMMA InvariantInit == Init => TypeOK /\ LifetimeInv
  BY NotBuiltFacts, FirstTag DEF Init, TypeOK, LifetimeInv, Cells

LEMMA InvariantHolds == Spec => [](TypeOK /\ LifetimeInv)
<1>1. TypeOK /\ LifetimeInv /\ [Next]_vars => (TypeOK /\ LifetimeInv)'
  BY CallStep
<1> QED BY InvariantInit, <1>1, PTL DEF Spec

-----------------------------------------------------------------------------
(* What a program can rely on *)

\* After any calls every variant is well typed, its tag one of its list's.
THEOREM TypeCorrect == Spec => []TypeOK
  BY InvariantHolds, PTL

\* For any list of types: a variant holds an object of the type its tag tells,
\* after any calls and exceptions, unless a constructor threw while the object
\* was being replaced (StaticVariant::operator=, set_which).
THEOREM TagsTellTypes == Spec => []TagTellsType
<1>1. LifetimeInv => TagTellsType
  BY DEF LifetimeInv, TagTellsType
<1> QED BY <1>1, InvariantHolds, PTL

\* An object is destroyed twice only in a variant whose object could not be
\* replaced: the order of clean and init in the assignments is the only way
\* out of what C++ defines.
THEOREM OnlyThrowingReplacesBreak == Spec => UndefinedOnlyAfterThrow
<1>1. TypeOK /\ LifetimeInv /\ [Next]_vars => [undefined' => half # {}]_vars
  <2> SUFFICES ASSUME TypeOK, LifetimeInv, Next, undefined'
               PROVE  half # {}
    BY DEF vars
  <2>1. ~ undefined
    BY DEF Next
  <2> QED BY <2>1, CallStep
<1> QED BY <1>1, InvariantHolds, PTL DEF Spec, UndefinedOnlyAfterThrow

\* operator< and operator== order the variants of a list, whatever they hold,
\* a moved-from object included.
THEOREM ComparisonsAlwaysAgree == Spec => []ComparisonsAgree
<1>1. TypeOK => ComparisonsAgree
  <2> SUFFICES ASSUME TypeOK, NEW v \in Variants, NEW w \in Variants, Readable(v), Readable(w)
               PROVE  LET a == variant[v]
                          b == variant[w]
                      IN  /\ Less(a, b) \/ Less(b, a) \/ Equal(a, b)
                          /\ ~ (Less(a, b) /\ Less(b, a))
                          /\ Equal(a, b) => ~ Less(a, b) /\ ~ Less(b, a)
    BY DEF ComparisonsAgree
  <2>1. ASSUME NEW u \in Variants, Readable(u)
        PROVE  variant[u].tag \in Int /\ variant[u].object.value \in Int
    BY <2>1, VariantAssumption DEF TypeOK, Readable, Objects
  <2> QED BY <2>1 DEF Less, Equal
<1> QED BY <1>1, InvariantHolds, PTL
================================================================================
