------------------------------ MODULE ApiQueries ------------------------------
(***************************************************************************)
(* Infra::Api: the APIs that the modules of a program advertise in their   *)
(* DMarcs, and the queries that choose one of them.  All of it happens in  *)
(* the compiler, so a state is a program: the DMarcs of its modules and    *)
(* the text of one string literal.  The steps write the program, a         *)
(* declaration or a character at a time, and reach every program within    *)
(* the bounds.                                                             *)
(*                                                                         *)
(* A string is a sequence of characters, since queries are about where a   *)
(* delimiter is and which string is how long.                              *)
(***************************************************************************)
EXTENDS TypeLists, FiniteSets, FiniteSetsExt

Seqs == INSTANCE SequencesExt  \* its Contains is not TypeLists' Contains

CONSTANTS
    Modules,          \* the classes of the program
    Root,             \* the one the tree starts at
    MayContain,       \* the classes each class may have as submodules: no cycles
    Categorizations,  \* what APIs are categorised under: lists of strings
    Names,            \* names of APIs
    Characters,       \* characters of the literal, the delimiter among them
    Capacity,         \* characters that StrT takes of a literal (64)
    MaxProgram        \* bound: size of the program, see ProgramSize

Nul == "nul"
Delimiter == "/"

ASSUME ApiAssumption ==
    /\ Root \in Modules
    /\ Capacity \in Nat \ {0}
    /\ Nul \notin Characters

VARIABLES
    dmarc,  \* the DMarc of every module
    text    \* the literal

vars == <<dmarc, text>>

\* DMarcTag, and the Lookup in WalkModuleTree: what a module declares under a
\* tag.  A DMarc is a map from tags to lists, <<>> in a class that has none.
DMarcTag(dmarcs, module, tag) == Lookup(dmarcs[module], tag, <<>>)

-----------------------------------------------------------------------------
(* Compile-time strings *)

\* The arguments that StrT's macros write: as many characters as there are
\* tygrab calls, the terminator repeated behind the literal.
tygrab(literal, n) == IF n < Len(literal) THEN literal[n + 1] ELSE Nul

\* typeek and typoke: the characters before the first terminator.
typeek(C) ==
    LET typoke[n \in 1..(Len(C) + 1)] ==
            IF n > Len(C) \/ C[n] = Nul THEN <<>> ELSE concat(<<C[n]>>, typoke[n + 1])
    IN  typoke[1]

StrT(literal) == typeek([n \in 1..Capacity |-> tygrab(literal, n - 1)])

\* Mutant: every delimiter ends a word, the empty one too.
MutantEmptyWords(str) ==
    LET Split[i \in 0..Len(str)] ==
            IF i = 0 THEN <<<<>>>>
            ELSE IF str[i] = Delimiter THEN append(Split[i - 1], <<>>)
            ELSE append(Seqs!Front(Split[i - 1]),
                        append(Seqs!Last(Split[i - 1]), str[i]))
    IN  Split[Len(str)]

\* SplitStringT: the words between delimiters, which may be several in a row.
SplitStringT(str) ==
    LET SplitStringImpl[n \in 0..Len(str)] ==
            IF n = 0 THEN [current |-> <<>>, result |-> <<>>]
            ELSE LET s == SplitStringImpl[n - 1]
                 IN  IF str[n] # Delimiter
                     THEN [current |-> append(s.current, str[n]), result |-> s.result]
                     ELSE [current |-> <<>>,
                           result |-> IF s.current = <<>> THEN s.result
                                      ELSE append(s.result, s.current)]
        end == SplitStringImpl[Len(str)]
    IN  IF length(end.current) # 0 THEN append(end.result, end.current) ELSE end.result

\* operator== of StringTs.
SameString(s, t) == length(s) = length(t) /\ \A i \in DOMAIN s : s[i] = t[i]

-----------------------------------------------------------------------------
(* Queries *)

\* Mutant: an API is matched by its whole categorisation only.
MutantWhole(C1, C2) == C1 = C2

\* MatchQuery::CategorizationsMatch: the first is the second, or its prefix.
CategorizationsMatch(C1, C2) ==
    LET Identical(D) == \A i \in DOMAIN C1 : SameString(C1[i], D[i])
    IN  \/ length(C1) = length(C2) /\ Identical(C2)
        \/ length(C1) < length(C2) /\ Identical(slice(C2, 0, length(C1)))

filterExact(query, api) ==
    /\ CategorizationsMatch(slice(query, 0, length(query) - 1), api.categorization)
    /\ SameString(last(query), api.name)

filterInexact(query, api) == CategorizationsMatch(query, api.categorization)

FindMatchingAdvertisements(apis, query) ==
    LET splitQuery == SplitStringT(query)
        all == Seqs!ToSet(apis)
    IN  IF length(splitQuery) = 0 THEN [exact |-> <<>>, inexact |-> apis]
        ELSE [exact   |-> filter(apis, {api \in all : filterExact(splitQuery, api)}),
              inexact |-> filter(apis, {api \in all : filterInexact(splitQuery, api)})]

\* Mutant: only what matches exactly is counted.
MutantIgnoresInexact(apis, query) ==
    LET results == FindMatchingAdvertisements(apis, query)
    IN  IF length(results.exact) = 1 /\ first(results.exact).arguments = 0
        THEN first(results.exact) ELSE IllFormed

\* allocateApi, which ADD_STATIC_API_ALLOCATOR defines: its assertions, then
\* the method that is called.
allocateApi(apis, query) ==
    LET results == FindMatchingAdvertisements(apis, query)
    IN  IF /\ length(results.exact) = 1
           /\ length(results.inexact) = 0
           /\ first(results.exact).arguments = 0
        THEN first(results.exact) ELSE IllFormed

-----------------------------------------------------------------------------
(* Writing the program *)

Tags == {"submodules", "apis"}

\* How much was written: an API counts for two.
ProgramSize(d, t) ==
    Len(t) +
        LET Size(m) == Len(d[m]) + Len(DMarcTag(d, m, "submodules"))
                                 + 2 * Len(DMarcTag(d, m, "apis"))
        IN  FoldSet(LAMBDA m, sum : sum + Size(m), 0, Modules)

Init ==
    /\ dmarc = [m \in Modules |-> <<>>]
    /\ text = <<>>

\* A class gets a DMarc, or a further tag in it, with an empty list.
DeclareTag(m, tag) ==
    /\ ~ Contains(dmarc[m], tag)
    /\ dmarc' = [dmarc EXCEPT ![m] = append(@, <<tag, <<>>>>)]
    /\ UNCHANGED text

\* The DMarc of a class with one more item in the list under a tag.
Extended(m, tag, item) ==
    [dmarc EXCEPT ![m] = transform(@, LAMBDA entry :
        IF entry[1] = tag THEN <<tag, append(entry[2], item)>> ELSE entry)]

DeclareSubmodule(m, s, by) ==
    /\ Contains(dmarc[m], "submodules")
    /\ dmarc' = Extended(m, "submodules",
          [module |-> m, method |-> Len(DMarcTag(dmarc, m, "submodules")) + 1,
           returns |-> s, by |-> by])
    /\ UNCHANGED text

AdvertiseApi(m, categorization, name, arguments) ==
    /\ Contains(dmarc[m], "apis")
    /\ dmarc' = Extended(m, "apis",
          [method |-> Len(DMarcTag(dmarc, m, "apis")) + 1, arguments |-> arguments,
           categorization |-> categorization, name |-> name])
    /\ UNCHANGED text

WriteCharacter(c) ==
    /\ text' = Append(text, c)
    /\ UNCHANGED dmarc

Next ==
    /\ \/ \E m \in Modules, tag \in Tags : DeclareTag(m, tag)
       \/ \E m \in Modules : \E s \in MayContain[m], by \in {"pointer", "reference"} :
              DeclareSubmodule(m, s, by)
       \/ \E m \in Modules, c \in Categorizations, n \in Names, a \in {0, 1} :
              AdvertiseApi(m, c, n, a)
       \/ \E c \in Characters : WriteCharacter(c)
    /\ ProgramSize(dmarc', text') <= MaxProgram

Spec == Init /\ [][Next]_vars
-----------------------------------------------------------------------------
(* Properties *)

\* The recursive templates of TypeList compute what their names say.  The
\* literal, taken as a list, is cut, searched, stripped of a member, zipped
\* and, in two parts, merged without duplicates; outside a list there is
\* nothing, rather than something else.
FirstAt(L, x) == Min({i \in DOMAIN L : L[i] = x})
ListsObeyReference ==
    LET L == text
        Before(i) == SubSeq(L, 1, i)
        After(i) == SubSeq(L, i + 1, Len(L))
    IN  /\ \A x \in Characters :
              /\ indexOf(L, x) = IF x \in Seqs!ToSet(L) THEN FirstAt(L, x) - 1 ELSE -1
              /\ removeElement(L, x) =
                    IF x \in Seqs!ToSet(L) THEN Before(FirstAt(L, x) - 1) \o After(FirstAt(L, x))
                    ELSE IllFormed
              /\ Lookup(zip(L, L), x, Nul) = IF x \in Seqs!ToSet(L) THEN x ELSE Nul
        /\ \A s, e \in 0..(Len(L) + 1) :
              slice(L, s, e) =
                  IF s <= e /\ (e <= Len(L) \/ s = e) THEN SubSeq(L, s + 1, e) ELSE IllFormed
        /\ \A i \in 0..Len(L) :
              LET uniques == concatUnique(<<Before(i), After(i)>>)
              IN  /\ Seqs!ToSet(uniques) = Seqs!ToSet(L)
                  /\ \A j, k \in DOMAIN uniques :
                        j < k => FirstAt(L, uniques[j]) < FirstAt(L, uniques[k])
        /\ \A x \in Characters :
              LET keys == transform(index(L), LAMBDA p : p[2])
                  map == transform(index(L), LAMBDA p : <<p[2], p[1]>>)
              IN  Lookup(map, x, -1) = indexOf(L, x) /\ keys = L

\* A query is cut into its words wherever delimiters stand, also at its ends
\* and several in a row, and is the literal as far as StrT's capacity goes
\* (SplitStringT, StrT).
SplitFindsWords ==
    LET query == StrT(text)
        words == SplitStringT(query)
        Runs == {r \in (DOMAIN query) \X (DOMAIN query) :
                    /\ r[1] <= r[2]
                    /\ \A i \in r[1]..r[2] : query[i] # Delimiter
                    /\ r[1] = 1 \/ query[r[1] - 1] = Delimiter
                    /\ r[2] = Len(query) \/ query[r[2] + 1] = Delimiter}
    IN  /\ query = SubSeq(text, 1, Min({Len(text), Capacity}))
        /\ Len(words) = Cardinality(Runs)
        /\ \A r \in Runs : words[Cardinality({q \in Runs : q[1] <= r[1]})] =
                               SubSeq(query, r[1], r[2])

\* A query as it is written, its words between delimiters.
Written(words) ==
    LET upTo[n \in 1..Len(words)] ==
            IF n = 1 THEN words[1] ELSE upTo[n - 1] \o <<Delimiter>> \o words[n]
    IN  upTo[Len(words)]
Queries == {q \in Seqs!BoundedSeq(Names \cup UNION {Seqs!ToSet(c) : c \in Categorizations}, 3) :
               q # <<>> /\ Len(Written(q)) <= Capacity}
RootApis == DMarcTag(dmarc, Root, "apis")
Find(q) == FindMatchingAdvertisements(RootApis, StrT(Written(q)))

\* An API is among the exact matches of its name after any part of its
\* categorisation that starts it, and every further category leaves fewer of
\* them (FindMatchingAdvertisements; AmbiguousRequest, "a more specific
\* request").
MoreSpecificMatchesLess ==
    \A api \in Seqs!ToSet(RootApis) : \A n \in 0..Len(api.categorization) :
        LET Query(k) == SubSeq(api.categorization, 1, k) \o <<api.name>>
            Exact(k) == Seqs!ToSet(Find(Query(k)).exact)
        IN  Query(n) \in Queries =>
                /\ api \in Exact(n)
                /\ n > 0 => Exact(n) \subseteq Exact(n - 1)

\* What a query allocates is the only API of that name in the category asked
\* for, and no category's name is the query.  Where names are unique and none
\* is a category's, the name alone allocates every API without arguments
\* (ADD_STATIC_API_ALLOCATOR "API Query must exactly match one API").
AllocatesTheOneNamed ==
    LET apis == Seqs!ToSet(RootApis)
        Named(q, api) == /\ api.name = Seqs!Last(q)
                         /\ Seqs!IsPrefix(Seqs!Front(q), api.categorization)
        Allocated(q) == allocateApi(RootApis, StrT(Written(q)))
    IN  /\ \A q \in Queries : Allocated(q) # IllFormed =>
              /\ {api \in apis : Named(q, api)} = {Allocated(q)}
              /\ \A api \in apis : ~ Seqs!IsPrefix(q, api.categorization)
        /\ \A api \in apis :
              /\ api.arguments = 0
              /\ \A other \in apis :
                    /\ other.name = api.name => other = api
                    /\ api.name \notin Seqs!ToSet(other.categorization)
              => Allocated(<<api.name>>) = api
================================================================================
