------------------------------ MODULE ModuleTree ------------------------------
(***************************************************************************)
(* What Infra::Modular makes of the getters that modules declare under     *)
(* SubmoduleTag: a walk over the tree of modules, on which the APIs they   *)
(* advertise are collected, and access to the submodule at the end of a    *)
(* path.  The programs are those of ApiQueries.                            *)
(*                                                                         *)
(* A getter is a record: the module it is a method of, its number there,   *)
(* the module it returns, and whether by "pointer" or by "reference".      *)
(***************************************************************************)
EXTENDS ApiQueries

\* WalkModuleTree: the module itself, then its submodules in the order of
\* their declaration, each with the path of getters that leads to it.
WalkModuleTree(dmarcs, root, Accumulator(_, _, _), empty) ==
    LET RECURSIVE WalkImpl(_, _, _)
        WalkImpl(module, path, state) ==
            reduce(DMarcTag(dmarcs, module, "submodules"),
                   LAMBDA getter, reduction :
                       WalkImpl(getter.returns, append(path, getter), reduction),
                   Accumulator(module, path, state))
    IN  WalkImpl(root, <<>>, empty)

\* Mutant: the list grows at its front.
MutantPrepends(module, path, state) ==
    <<[module |-> module, path |-> path]>> \o state

ModuleListAccumulator(module, path, state) ==
    append(state, [module |-> module, path |-> path])

ModuleList(dmarcs, root) ==
    WalkModuleTree(dmarcs, root, ModuleListAccumulator, <<>>)

\* MethodDemarcation::Invoke takes the module by reference: on what a getter
\* returned as a pointer it does not compile.  A module object is known by
\* its class and the getters that led to it.
Invoke(getter, object) ==
    IF object.by = "pointer" \/ object.module # getter.module THEN IllFormed
    ELSE [module |-> getter.returns, via |-> append(object.via, getter),
          by |-> getter.by]

\* Mutant: the getter that was called stays in front.
MutantWholePath(path) == path

\* The path that is left below the trunk.
BelowTrunk(path) == slice(path, 1, length(path))

\* FetchSubmodule: its result type is auto, so what the last getter returns
\* by reference is copied.
RECURSIVE FetchSubmodule(_, _)
FetchSubmodule(object, path) ==
    IF length(path) = 0 THEN IllFormed
    ELSE LET trunk == Invoke(first(path), object)
         IN  IF trunk = IllFormed THEN IllFormed
             ELSE IF length(path) = 1
                  THEN IF trunk.by = "reference" THEN [trunk EXCEPT !.by = "copy"] ELSE trunk
                  ELSE FetchSubmodule(trunk, BelowTrunk(path))

-----------------------------------------------------------------------------
(* Advertisements *)

ApiAdvertisementAccumulator(module, path, state) ==
    LET advertisements == DMarcTag(dmarc, module, "apis")
    IN  IF length(advertisements) # 0
        THEN append(state, [module |-> module, path |-> path, apis |-> advertisements])
        ELSE state

\* The walk with that accumulator, from its AccumulatorEmptyState.
Advertisements ==
    WalkModuleTree(dmarc, Root, ApiAdvertisementAccumulator, <<>>)

-----------------------------------------------------------------------------
(* Properties *)

\* The walk over the tree of modules meets every path of getters from the
\* root once, a module before its submodules and these in the order in which
\* they are declared, and advertisements are collected in that order too
\* (WalkModuleTree "Perform a pre-order traversal", ApiAdvertisementAccumulator).
Getters == UNION {Seqs!ToSet(DMarcTag(dmarc, m, "submodules")) : m \in Modules}
Ends(path) == IF path = <<>> THEN Root ELSE Seqs!Last(path).returns
Paths == {path \in Seqs!BoundedSeq(Getters, Cardinality(Modules) - 1) :
             \A i \in DOMAIN path : path[i].module = Ends(SubSeq(path, 1, i - 1))}
MetBefore(p, q) ==
    \/ Seqs!IsStrictPrefix(p, q)
    \/ \E i \in (DOMAIN p) \cap (DOMAIN q) :
          /\ SubSeq(p, 1, i - 1) = SubSeq(q, 1, i - 1)
          /\ p[i].method < q[i].method
WalkVisitsEveryPath ==
    LET walked == ModuleList(dmarc, Root)
    IN  /\ {walked[i].path : i \in DOMAIN walked} = Paths
        /\ \A i \in DOMAIN walked : walked[i].module = Ends(walked[i].path)
        /\ \A i, j \in DOMAIN walked :
              i < j => MetBefore(walked[i].path, walked[j].path)
        /\ Advertisements =
              LET Advertises(w) == DMarcTag(dmarc, w.module, "apis") # <<>>
                  advertising == SelectSeq(walked, Advertises)
              IN  [i \in DOMAIN advertising |->
                      [module |-> advertising[i].module, path |-> advertising[i].path,
                       apis |-> DMarcTag(dmarc, advertising[i].module, "apis")]]

\* Where the walk says a module is, FetchSubmodule finds it, along any path on
\* which modules are returned by reference (FetchSubmodule, "Given a root module
\* and a path to a submodule").  Nothing is claimed of a path that leads on
\* through a pointer, which the comments promise and the code does not take.
RootObject == [module |-> Root, via |-> <<>>, by |-> "reference"]
LeadsTo(path, module) ==
    LET fetched == FetchSubmodule(RootObject, path)
    IN  fetched # IllFormed /\ fetched.module = module /\ fetched.via = path
ThroughPointer(path) == \E i \in DOMAIN path : i < Len(path) /\ path[i].by = "pointer"
PathsLeadToModules ==
    \A w \in Seqs!ToSet(ModuleList(dmarc, Root)) :
        w.path # <<>> /\ ~ ThroughPointer(w.path) => LeadsTo(w.path, w.module)
================================================================================
