------------------------------- MODULE TypeLists -------------------------------
(***************************************************************************)
(* Infra::TypeList: compile-time lists of types, and map-style lists of    *)
(* key and value pairs.  A list is a sequence, and an operator is written  *)
(* along the template specialisations that compute it.  Where none of them *)
(* matches the program does not compile: the operator is IllFormed.        *)
(* Indexes are the source's, from 0.                                       *)
(*                                                                         *)
(* The templates take one type after the other off their list.  A          *)
(* recursive function is indexed by how many are off: f[n] is what the     *)
(* template has collected from the first n, or, where the result is put    *)
(* together on the way back, what it makes of the n-th and those behind it.*)
(***************************************************************************)
EXTENDS Integers, Sequences

CONSTANT IllFormed  \* what has no meaning to the compiler

-----------------------------------------------------------------------------
(* Lists *)

length(L) == Len(L)

concat(L, M) == L \o M

append(L, T) == concat(L, <<T>>)

makeSequence(count) ==
    LET upTo[n \in 0..count] == IF n = 0 THEN <<>> ELSE append(upTo[n - 1], n - 1)
    IN  upTo[count]

transform(L, Transformer(_)) == [i \in DOMAIN L |-> Transformer(L[i])]

indexOf(L, Search) ==
    LET from[n \in 1..(Len(L) + 1)] ==
            IF n > Len(L) THEN -1
            ELSE LET deeper == from[n + 1]
                 IN  IF Search = L[n] THEN 0
                     ELSE IF deeper = -1 THEN -1 ELSE deeper + 1
    IN  from[1]

contains(L, T) == indexOf(L, T) # -1

\* One list taken into the uniques collected so far.
TakeUniques(Uniques, L) ==
    LET taken[n \in 0..Len(L)] ==
            IF n = 0 THEN Uniques
            ELSE LET sofar == taken[n - 1]
                 IN  IF contains(sofar, L[n]) THEN sofar ELSE append(sofar, L[n])
    IN  taken[Len(L)]

\* Mutant: a list is looked through for its own duplicates only.
MutantUniqueEach(Lists) ==
    TakeUniques(<<>>, Head(Lists)) \o
        (IF Len(Lists) = 1 THEN <<>> ELSE TakeUniques(<<>>, Lists[2]))

\* concatUnique<List1, List2, ...>, for at least one list.
concatUnique(Lists) ==
    LET merged[n \in 0..Len(Lists)] ==
            IF n = 0 THEN <<>> ELSE TakeUniques(merged[n - 1], Lists[n])
    IN  merged[Len(Lists)]

at(L, i) == IF i \in 0..(Len(L) - 1) THEN L[i + 1] ELSE IllFormed

first(L) == at(L, 0)
last(L) == at(L, length(L) - 1)

\* Beyond the list, types run out before the index is 0.
removeAt(L, index) ==
    LET left[n \in 0..Len(L)] == IF n = 0 THEN <<>> ELSE append(left[n - 1], L[n])
    IN  IF index \in 0..(Len(L) - 1)
        THEN left[index] \o SubSeq(L, index + 2, Len(L)) ELSE IllFormed

\* The index of an absent type, -1, is no std::size_t.
removeElement(L, T) ==
    IF contains(L, T) THEN removeAt(L, indexOf(L, T)) ELSE IllFormed

\* Filter is the set of the types that pass.
filter(L, Filter) ==
    LET filtered[n \in 0..Len(L)] ==
            IF n = 0 THEN <<>>
            ELSE IF L[n] \in Filter THEN append(filtered[n - 1], L[n]) ELSE filtered[n - 1]
    IN  filtered[Len(L)]

reduce(L, Acc(_, _), Initial) ==
    LET reduced[n \in 0..Len(L)] == IF n = 0 THEN Initial ELSE Acc(L[n], reduced[n - 1])
    IN  reduced[Len(L)]

\* The types at [start, end).  Each type that is taken off moves start and end
\* towards 0, a start of 0 stays and collects the type.  The specialisation for
\* equal indexes ends it, wherever they meet first; where they do not, types
\* run out.
slice(L, start, end) ==
    LET cut[n \in 0..Len(L)] ==
            IF n = 0 THEN [results |-> <<>>, start |-> start, end |-> end]
            ELSE LET c == cut[n - 1]
                 IN  IF c.start = 0
                     THEN [results |-> append(c.results, L[n]), start |-> 0, end |-> c.end - 1]
                     ELSE [results |-> c.results, start |-> c.start - 1, end |-> c.end - 1]
        Met(n) == cut[n].start = cut[n].end
    IN  IF \E n \in 0..Len(L) : Met(n)
        THEN cut[CHOOSE n \in 0..Len(L) : Met(n) /\ \A k \in 0..(n - 1) : ~ Met(k)].results
        ELSE IllFormed

\* Lists of different lengths match no specialisation once one has run out.
zip(A, B) ==
    LET from[n \in 1..(Len(A) + 1)] ==
            IF n > Len(A) THEN <<>> ELSE concat(<<<<A[n], B[n]>>>>, from[n + 1])
    IN  IF Len(A) = Len(B) THEN from[1] ELSE IllFormed

index(L) == zip(makeSequence(length(L)), L)

-----------------------------------------------------------------------------
(* Maps: lists of key and value pairs *)

Keys(M) == transform(M, Head)
Values(M) == transform(M, LAMBDA pair : pair[2])

Contains(M, K) == contains(Keys(M), K)

Lookup(M, K, D) ==
    IF Contains(M, K) THEN at(Values(M), indexOf(Keys(M), K)) ELSE D
================================================================================
