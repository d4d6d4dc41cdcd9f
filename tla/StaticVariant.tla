----------------------------- MODULE StaticVariant -----------------------------
(***************************************************************************)
(* Infra::StaticVariant: a tag and the storage of one object, whose type   *)
(* the tag tells.  The variant destroys and constructs that object itself, *)
(* so its correctness is about lifetimes: an object that is destroyed      *)
(* exists, one that exists is destroyed, and it has the tag's type.        *)
(*                                                                         *)
(* Some types' constructors throw.  Calls are made by a program with a few *)
(* variants, which ends its last call where C++ defines nothing any more.  *)
(***************************************************************************)
EXTENDS Integers, Sequences, SequencesExt

CONSTANTS
    Variants,  \* the variants of the program
    List,      \* the types of each, a sequence
    Values,    \* what an object may hold
    Moved,     \* what is left in an object that was moved from
    Tags,      \* bound: tags that set_which is called with
    Throwing,  \* types whose constructors may throw
    None       \* no object

VARIABLES
    variant,   \* each variant: built, is it constructed?; its _tag; its object
    result,    \* what the last call ended with
    half,      \* variants whose object could not be replaced: its constructor threw
    undefined  \* was an object destroyed or read that did not exist?

vars == <<variant, result, half, undefined>>

Types == UNION {ToSet(List[v]) : v \in Variants}
Objects == [type : Types, value : Values \cup {Moved}]

ASSUME VariantAssumption ==
    /\ Values \cup {Moved} \cup Tags \subseteq Int
    /\ \A v \in Variants : List[v] \in Seq(Types) \ {<<>>} /\ IsInjective(List[v])
    /\ None \notin Objects

NotBuilt == [built |-> FALSE, tag |-> 0, object |-> None]

Init ==
    /\ variant = [v \in Variants |-> NotBuilt]
    /\ result = "ok"
    /\ half = {}
    /\ undefined = FALSE

-----------------------------------------------------------------------------
(* Parts of calls *)

count(v) == Len(List[v])
\* Mutant: types are counted from one.
MutantFromOne(v, type) == CHOOSE n \in DOMAIN List[v] : List[v][n] = type

indexOf(v, type) == (CHOOSE n \in DOMAIN List[v] : List[v][n] = type) - 1

\* TypeList::runtime::Dispatch: the type at an index, for one in the list.
Dispatch(v, index) == List[v][index + 1]

\* What a constructor of the type may do.
Completes(type) == {TRUE} \cup (IF type \in Throwing THEN {FALSE} ELSE {})

\* clean: the object that the tag tells is destroyed.
clean(x) == [x EXCEPT !.object = None]

\* Mutant: the tag stays.
MutantKeepsTag(v, x, object) == [x EXCEPT !.built = TRUE, !.object = object]

\* init and initFromTag: the tag first, then the object in its storage.
init(v, x, object) ==
    [built |-> TRUE, tag |-> indexOf(v, object.type), object |-> object]

\* A variant is constructed with a copy of an object, or moves it in; when its
\* constructor throws there is no variant.
Construct(v, object, completes) ==
    /\ ~ variant[v].built
    /\ variant' = [variant EXCEPT ![v] =
          IF completes THEN init(v, NotBuilt, object) ELSE NotBuilt]
    /\ result' = IF completes THEN "ok" ELSE "threw"
    /\ UNCHANGED <<half, undefined>>

\* The object is destroyed and another one constructed in its place.  When its
\* constructor throws, the tag tells of an object that is not there.
Replace(v, from, object, completes) ==
    LET old == clean(variant[v])
        new == init(v, old, object)
    IN  /\ variant' = [from EXCEPT ![v] =
              IF completes THEN new ELSE [new EXCEPT !.object = None]]
        /\ result' = IF completes THEN "ok" ELSE "threw"
        /\ half' = IF completes THEN half \ {v} ELSE half \cup {v}
        /\ undefined' = (undefined \/ variant[v].object = None)

Refuse(exception) ==
    /\ result' = exception
    /\ UNCHANGED <<variant, half, undefined>>

\* An object read through a variant.  (One that does not exist is not read.)
Readable(v) == variant[v].built /\ variant[v].object # None

\* Mutant: a variant that was moved from is cleaned at once.
MutantCleansMoved(v, moved) ==
    IF moved THEN [variant EXCEPT ![v] = clean(@)] ELSE variant

\* The variants after an object was moved out of one of them.
AfterMove(v, moved) ==
    IF moved THEN [variant EXCEPT ![v].object.value = Moved] ELSE variant

-----------------------------------------------------------------------------
(* Calls *)

\* StaticVariant(): the first type.
DefaultConstruct(v) ==
    \E value \in Values, completes \in Completes(Dispatch(v, 0)) :
        Construct(v, [type |-> Dispatch(v, 0), value |-> value], completes)

\* From a value of one of its types.
ConstructFrom(v, object) ==
    /\ object.type \in ToSet(List[v])
    /\ \E completes \in Completes(object.type) : Construct(v, object, completes)

\* From a variant with the same types, or with other types of which this one
\* has the one that is there, as a copy or by a move.
ConstructFromVariant(v, w, moved) ==
    /\ ~ variant[v].built
    /\ Readable(w)
    /\ LET object == variant[w].object
       IN  IF Dispatch(w, variant[w].tag) \in ToSet(List[v])
           THEN \E completes \in Completes(object.type) :
                  /\ variant' = [AfterMove(w, moved) EXCEPT ![v] =
                        IF completes THEN init(v, NotBuilt, object) ELSE NotBuilt]
                  /\ result' = IF completes THEN "ok" ELSE "threw"
                  /\ UNCHANGED <<half, undefined>>
           ELSE Refuse("bad_cast")

\* ~StaticVariant.
Destroy(v) ==
    /\ variant[v].built
    /\ variant' = [variant EXCEPT ![v] = NotBuilt]
    /\ result' = "ok"
    /\ half' = half \ {v}
    /\ undefined' = (undefined \/ variant[v].object = None)

\* operator=, a value that is not part of the variant itself.
AssignValue(v, object) ==
    /\ variant[v].built
    /\ object.type \in ToSet(List[v])
    /\ \E completes \in Completes(object.type) : Replace(v, variant, object, completes)

\* operator=, a variant of the same types, which may be the same variant.
AssignVariant(v, w, moved) ==
    /\ variant[v].built
    /\ Readable(w)
    /\ List[v] = List[w]
    /\ IF v # w
       THEN \E completes \in Completes(variant[w].object.type) :
              Replace(v, AfterMove(w, moved), variant[w].object, completes)
       ELSE result' = "ok" /\ UNCHANGED <<variant, half, undefined>>

IsTag(v, tag) == tag \in 0..(count(v) - 1)

\* set_which: the default value of another type.
set_which(v, tag) ==
    /\ variant[v].built
    /\ IF IsTag(v, tag)
       THEN \E value \in Values, completes \in Completes(Dispatch(v, tag)) :
              Replace(v, variant, [type |-> Dispatch(v, tag), value |-> value], completes)
       ELSE Refuse("range_error")

\* get, of a type of the list: only for the type that is there, which is
\* changed through the reference.
get(v, type, value) ==
    /\ Readable(v)
    /\ type \in ToSet(List[v])
    /\ IF variant[v].tag = indexOf(v, type)
       THEN /\ variant' = [variant EXCEPT ![v].object =
                  [type |-> type, value |-> value]]
            /\ result' = "ok"
            /\ UNCHANGED <<half, undefined>>
       ELSE Refuse("bad_cast")

\* visit: the visitor gets the object as one of the tag's type.
visit(v, value) ==
    /\ Readable(v)
    /\ IF IsTag(v, variant[v].tag)
       THEN /\ variant' = [variant EXCEPT ![v].object =
                  [type |-> Dispatch(v, variant[v].tag), value |-> value]]
            /\ result' = "ok"
            /\ UNCHANGED <<half, undefined>>
       ELSE Refuse("range_error")

Call ==
    \/ \E v \in Variants : DefaultConstruct(v) \/ Destroy(v)
    \/ \E v \in Variants, object \in [type : Types, value : Values] :
          ConstructFrom(v, object) \/ AssignValue(v, object)
    \/ \E v, w \in Variants, moved \in BOOLEAN :
          ConstructFromVariant(v, w, moved) \/ AssignVariant(v, w, moved)
    \/ \E v \in Variants, tag \in Tags : set_which(v, tag)
    \/ \E v \in Variants, type \in Types, value \in Values : get(v, type, value)
    \/ \E v \in Variants, value \in Values : visit(v, value)

Next == ~ undefined /\ Call

Spec == Init /\ [][Next]_vars

-----------------------------------------------------------------------------
(* Comparisons *)

\* Mutant: a comparison of the values alone.
MutantByValue(a, b) == a.object.value < b.object.value

\* operator< goes by the tag, then by the value; operator== by both.
Less(a, b) ==
    \/ a.tag < b.tag
    \/ a.tag = b.tag /\ a.object.value < b.object.value
Equal(a, b) == a.tag = b.tag /\ a.object.value = b.object.value

-----------------------------------------------------------------------------
(* Properties *)

TypeOK ==
    /\ variant \in [Variants -> [built : BOOLEAN, tag : Nat, object : Objects \cup {None}]]
    /\ \A v \in Variants : IsTag(v, variant[v].tag)
    /\ result \in {"ok", "threw", "bad_cast", "range_error"}
    /\ half \subseteq {v \in Variants : variant[v].built}
    /\ undefined \in BOOLEAN

\* A variant holds an object, and of the type its tag tells, after any calls
\* with any exceptions, unless a constructor threw while the variant was
\* replacing its object.
TagTellsType ==
    ~ undefined =>
        \A v \in Variants : variant[v].built /\ v \notin half =>
            /\ variant[v].object # None
            /\ variant[v].object.type = Dispatch(v, variant[v].tag)

\* No call destroys an object twice, except in a variant whose object could
\* not be replaced; nothing else leads out of what C++ defines.
UndefinedOnlyAfterThrow ==
    [][undefined' => half # {}]_vars

\* Of two variants one is less, or they are equal, and never two of these.
ComparisonsAgree ==
    \A v, w \in {u \in Variants : Readable(u)} :
        List[v] = List[w] =>
            LET a == variant[v]
                b == variant[w]
            IN  /\ Less(a, b) \/ Less(b, a) \/ Equal(a, b)
                /\ ~ (Less(a, b) /\ Less(b, a))
                /\ Equal(a, b) => ~ Less(a, b) /\ ~ Less(b, a)
================================================================================
