-------------------------- MODULE FunctionSelectors --------------------------
(***************************************************************************)
(* Functional selectors (console/functionselectors.cpp, selectors.cpp):    *)
(* queries which select versions of the cache.  Selections are lists, and  *)
(* the functions combine them by merging and intersecting lists which they *)
(* take to be sorted.  A query is given as a tree, [op, ...]; its text is  *)
(* left out.                                                               *)
(***************************************************************************)
EXTENDS PackageCache

CONSTANT Queries   \* for binary versions
VARIABLE selection   \* [query, all, best], or None
selectorVars == <<vars, selection>>

-----------------------------------------------------------------------------
(* Relations of a version                                                  *)

\* ArchitecturedRelation: relations of sources may be for some architectures.  The
\* first filter tells whether these are left out or listed; a negative filter in a
\* list of the other kind matches nothing, a positive one counts as negative there.
NamesNative(filter) == filter.architecture = "native"
LeftOut(filters) == \E i \in DOMAIN filters : NamesNative(filters[i])
ListedIn(filters) == \E i \in DOMAIN filters : NamesNative(filters[i]) /\ ~filters[i].negative
Eligible(relation) ==
  LET filters == relation.architectures
  IN  \/ filters = <<>>
      \/ filters[1].negative /\ ~LeftOut(filters)
      \/ ~filters[1].negative /\ ListedIn(filters)
toRelationLine(line) ==
  SelectSeq([i \in DOMAIN line |-> SelectSeq(line[i], Eligible)], LAMBDA e : e # <<>>)
Plain(expression) ==
  [i \in DOMAIN expression |->
     [package |-> expression[i].package, architecture |-> expression[i].architecture,
      type |-> expression[i].type, version |-> expression[i].version]]
RelationLine(v) ==
  IF v.package \in Binary THEN v.build.depends
  ELSE [i \in DOMAIN toRelationLine(v.build.depends) |-> Plain(toRelationLine(v.build.depends)[i])]

\* What satisfies an expression is remembered.
Satisfying(g, expression) ==
  IF getHashString(expression) \in DOMAIN answers THEN answers[getHashString(expression)]
  ELSE getSatisfyingVersionsNonCached(g, expression)

\* Selecting makes every package.  g has all packages, and with them what the
\* cache says of their versions: pins, their order, what satisfies relations.
PinsIn(g) == Kept([v \in AllVersions(g) |-> Pin(v, Versions(g, v.package), Want(v.package))])
OrderIn(g, pins) ==
  Kept([p \in DOMAIN g.packages |-> ByPreference(g.packages[p], [i \in DOMAIN g.packages[p] |-> pins[g.packages[p][i]]])])
SatisfyingIn(g) ==
  Kept([e \in UNION {Range(RelationLine(v)) : v \in AllVersions(g)} |-> Satisfying(g, e)])
WithPins(g, pins) ==
  [packages |-> g.packages, ids |-> g.ids, pins |-> pins, sorted |-> OrderIn(g, pins),
   satisfying |-> SatisfyingIn(g)]
CatalogueOf(g) == WithPins(g, PinsIn(g))
Catalogue == CatalogueOf(Everything)

-----------------------------------------------------------------------------
(* Lists of versions                                                       *)

\* __spcv_less: versions of a package are told apart by pins, then by text.
spcvLess(g, v, w) ==
  \/ Before(w.package, v.package)
  \/ /\ v.package = w.package
     /\ g.pins[v] < g.pins[w] \/ (g.pins[v] = g.pins[w] /\ TextLess(v.string, w.string))
SpcvGreater(g, v, w) == spcvLess(g, w, v)

\* std::list::merge, std::set_intersection, set_difference, set_symmetric_difference
RECURSIVE MergeLists(_, _, _)
MergeLists(g, s, t) ==
  IF s = <<>> THEN t ELSE IF t = <<>> THEN s
  ELSE IF SpcvGreater(g, t[1], s[1]) THEN <<t[1]>> \o MergeLists(g, s, Tail(t))
  ELSE <<s[1]>> \o MergeLists(g, Tail(s), t)

RECURSIVE Intersection(_, _, _)
Intersection(g, s, t) ==
  IF s = <<>> \/ t = <<>> THEN <<>>
  ELSE IF SpcvGreater(g, s[1], t[1]) THEN Intersection(g, Tail(s), t)
  ELSE IF SpcvGreater(g, t[1], s[1]) THEN Intersection(g, s, Tail(t))
  ELSE <<s[1]>> \o Intersection(g, Tail(s), Tail(t))

RECURSIVE Difference(_, _, _)
Difference(g, s, t) ==
  IF s = <<>> \/ t = <<>> THEN s
  ELSE IF SpcvGreater(g, s[1], t[1]) THEN <<s[1]>> \o Difference(g, Tail(s), t)
  ELSE IF SpcvGreater(g, t[1], s[1]) THEN Difference(g, s, Tail(t))
  ELSE Difference(g, Tail(s), Tail(t))

RECURSIVE SymmetricDifference(_, _, _)
SymmetricDifference(g, s, t) ==
  IF s = <<>> THEN t ELSE IF t = <<>> THEN s
  ELSE IF SpcvGreater(g, s[1], t[1]) THEN <<s[1]>> \o SymmetricDifference(g, Tail(s), t)
  ELSE IF SpcvGreater(g, t[1], s[1]) THEN <<t[1]>> \o SymmetricDifference(g, s, Tail(t))
  ELSE SymmetricDifference(g, Tail(s), Tail(t))

\* std::list::unique drops neighbours only
Unique(s) == FoldLeft(LAMBDA r, v : IF r # <<>> /\ Last(r) = v THEN r ELSE Append(r, v), <<>>, s)
UniquePackages(s) ==
  FoldLeft(LAMBDA r, v : IF r # <<>> /\ Last(r).package = v.package THEN r ELSE Append(r, v), <<>>, s)

mergeFsResults(g, s, t) == Unique(MergeLists(g, s, t))

-----------------------------------------------------------------------------
(* Sets of versions to select from                                         *)

\* VersionSetGetter: packages by name, versions of a package by preference
getAll(g, binary) ==
  FoldLeft(LAMBDA s, p : IF (p \in Binary) = binary /\ Versions(g, p) # <<>>
                         THEN s \o g.sorted[p] ELSE s,
           <<>>, NameOrder)

\* VersionSet: everything, or what was already selected, and the variables
From0(binary) == [filtered |-> FALSE, list |-> <<>>, variables |-> <<>>, binary |-> binary]
get(g, from) == IF from.filtered THEN from.list ELSE getAll(g, from.binary)
generate(from, s) == [from EXCEPT !.filtered = TRUE, !.list = s]
getUnfiltered(from) == [from EXCEPT !.filtered = FALSE, !.list = <<>>]
setVariable(from, name, s) == [from EXCEPT !.variables = (name :> s) @@ @]
Unfiltered(g, s, from) == s
Filtered(g, s, from) == IF from.filtered THEN Intersection(g, from.list, s) ELSE s
filterThrough(g, s, from) == Filtered(g, s, from)

\* PredicateFS and PackageNameFS
isPackageInstalled(p) ==
  getInstalledInfo(p) # <<>> /\ getInstalledInfo(p)[1].status # "config-files"
Selected(q, v) ==
  CASE q.on = "trusted" -> \E r \in Range(v.sources) : r.verified
    [] q.on = "installed" -> IsInstalled(v)
    [] q.on = "text" -> v.string \in q.values
    [] q.on = "package:installed" -> isPackageInstalled(v.package)
    [] q.on = "package:automatically-installed" -> v.package \in automaticallyInstalled
    [] q.on = "provides" -> \E x \in v.build.provides : x.package \in q.values
    [] OTHER -> Matches(q, v)

-----------------------------------------------------------------------------
(* From versions to others                                                 *)

\* std::sort by SpcvGreater
SortedForMerge(g, s) == Ranked(Range(s), LAMBDA v, w : SpcvGreater(g, v, w))

\* DependencyFS, ReverseDependencyFS with ReverseDependsIndex, BinaryToSourceFS,
\* SourceToBinaryFS
DependsOn(g, w, v) == \E e \in Range(RelationLine(w)) : v \in Range(g.satisfying[e])
Indexes(g, p, q) ==
  \E w \in Range(Versions(g, q)) : \E v \in Range(Versions(g, p)) : DependsOn(g, w, v)
Transformed(g, op, v) ==
  LET One(s, w) == mergeFsResults(g, s, <<w>>)
      Reversed(names) ==
        FoldLeft(LAMBDA s, q : IF q \in names /\ Indexes(g, v.package, q)
                   THEN FoldLeft(One, s, SelectSeq(Versions(g, q), LAMBDA w : DependsOn(g, w, v))) ELSE s,
                 <<>>, NameOrder)
  IN  CASE op \in {"depends", "build-depends"} ->
             FoldLeft(LAMBDA s, e : mergeFsResults(g, s, SortedForMerge(g, g.satisfying[e])), <<>>, RelationLine(v))
        [] op = "reverse-depends" -> Reversed(Binary)
        [] op = "reverse-build-depends" -> Reversed(SourceNames)
        [] op = "binary-to-source" ->
             AtMostOne(SelectSeq(Versions(g, v.build.source), LAMBDA w : w.string = v.build.sourceVersion))
        [] op = "source-to-binary" ->
             FoldLeft(LAMBDA s, p : IF p \in v.build.binaries
                        THEN FoldLeft(One, s, SelectSeq(Versions(g, p), LAMBDA w : w.build.sourceVersion = v.string))
                        ELSE s, <<>>, NameOrder)

\* The leaves of these select from binary versions, of the others from sources.
FromBinary == {"depends", "reverse-depends", "reverse-build-depends", "binary-to-source"}
Transforming == FromBinary \cup {"build-depends", "source-to-binary"}

-----------------------------------------------------------------------------
(* Functions: select(g, ) of every class, as constructFSByName tells them apart *)

RECURSIVE select(_, _, _), Iterated(_, _, _, _, _)
select(g, q, from) ==
  CASE q.op = "match" -> SelectSeq(get(g, from), LAMBDA v : Selected(q, v))
    [] q.op = "and" ->
         FoldLeft(LAMBDA s, leaf : select(g, leaf, generate(from, s)), select(g, q.args[1], from), Tail(q.args))
    [] q.op = "or" ->
         FoldLeft(LAMBDA s, leaf : mergeFsResults(g, s, select(g, leaf, from)), select(g, q.args[1], from), Tail(q.args))
    [] q.op = "not" -> Difference(g, get(g, from), select(g, q.args[1], from))
    [] q.op = "xor" -> SymmetricDifference(g, select(g, q.args[1], from), select(g, q.args[2], from))
    [] q.op = "best" -> UniquePackages(select(g, q.args[1], from))
    [] q.op = "with" ->
         select(g, q.args[2], setVariable(from, q.name, select(g, q.args[1], getUnfiltered(from))))
    [] q.op = "variable" -> filterThrough(g, from.variables[q.name], from)
    [] q.op = "recursive" ->
         filterThrough(g, Iterated(g, q, getUnfiltered(from), <<>>, select(g, q.args[1], getUnfiltered(from))), from)
    [] q.op \in Transforming ->
         filterThrough(g, 
           FoldLeft(LAMBDA s, v : mergeFsResults(g, s, Transformed(g, q.op, v)), <<>>,
                    select(g, q.args[1], [getUnfiltered(from) EXCEPT !.binary = q.op \in FromBinary])),
           from)

\* RecursiveFS: until the result does not grow
Iterated(g, q, from, result, value) ==
  LET grown == mergeFsResults(g, result, select(g, q.args[2], setVariable(from, q.name, value)))
  IN  IF Len(grown) = Len(result) THEN grown ELSE Iterated(g, q, from, grown, grown)

\* processNonTrivialAliases
And(q, r) == [op |-> "and", args |-> <<q, r>>]
Or(q, r) == [op |-> "or", args |-> <<q, r>>]
Fmap(name, q, ops) ==
  [op |-> "with", name |-> name,
   args |-> <<q, [op |-> "or", args |-> [i \in DOMAIN ops |->
                    [op |-> ops[i], args |-> <<[op |-> "variable", name |-> name]>>]]]>>]
WithInstalledDependencies(name, inner, q) ==
  LET mapped == Fmap(inner, [op |-> "variable", name |-> name], <<"depends">>)
  IN  [op |-> "recursive", name |-> name,
       args |-> <<q, [op |-> "best", args |-> <<And(mapped, [op |-> "match", on |-> "package:installed"])>>]>>]

\* convertWildcardedExpressionToFse: <names>, <names>/<distribution>, <names>=<versions>
Wildcarded(names) == [op |-> "match", on |-> "package", values |-> names]
OfDistribution(names, d) ==
  And(Wildcarded(names), Or([op |-> "match", on |-> "archive", values |-> {d}],
                            [op |-> "match", on |-> "codename", values |-> {d}]))
OfVersion(names, strings) == And(Wildcarded(names), [op |-> "match", on |-> "text", values |-> strings])

\* selectAllVersions, selectBestVersions
Selection(q, s) == [query |-> q, all |-> s, best |-> UniquePackages(s)]
SelectsFrom(g, q) == Becomes(g) /\ selection' = Selection(q, select(g, q, From0(TRUE)))
selectVersions(q) ==
  /\ Ready
  /\ asks < MaxAsks
  /\ selection = None
  /\ SelectsFrom(Catalogue, q)
  /\ UNCHANGED <<world, position, released, pre, provided, answers, asks>>

InitSelectors == Init /\ selection = None
NextSelectors ==
  \/ selection = None /\ Next /\ UNCHANGED selection
  \/ \E q \in Queries : selectVersions(q)
Spec == InitSelectors /\ [][NextSelectors]_selectorVars

-----------------------------------------------------------------------------
(* Properties *)

\* What the manual says of a query, as a set.
AllOf(g, binary) == {v \in DOMAIN g.pins : (v.package \in Binary) = binary}
First(g, s, p) == SelectSeq(g.sorted[p], LAMBDA v : v \in s)[1]
BestOf(g, s) == {First(g, s, p) : p \in {v.package : v \in s}}

RECURSIVE Meaning(_, _, _, _), Closure(_, _, _, _)
Meaning(g, q, variables, binary) ==
  LET Arg(i) == Meaning(g, q.args[i], variables, binary)
      of == Meaning(g, q.args[1], variables, q.op \in FromBinary)
      Depends(v) == UNION {Range(g.satisfying[e]) : e \in Range(RelationLine(v))}
  IN  CASE q.op = "match" -> {v \in AllOf(g, binary) : Selected(q, v)}
        [] q.op = "and" -> {v \in Arg(1) : \A i \in DOMAIN q.args : v \in Arg(i)}
        [] q.op = "or" -> UNION {Arg(i) : i \in DOMAIN q.args}
        [] q.op = "not" -> AllOf(g, binary) \ Arg(1)
        [] q.op = "xor" -> (Arg(1) \ Arg(2)) \cup (Arg(2) \ Arg(1))
        [] q.op = "best" -> BestOf(g, Arg(1))
        [] q.op = "variable" -> variables[q.name]
        [] q.op = "with" -> Meaning(g, q.args[2], (q.name :> Arg(1)) @@ variables, binary)
        [] q.op = "recursive" -> Closure(g, q, variables, Arg(1))
        [] q.op \in {"depends", "build-depends"} -> UNION {Depends(v) : v \in of}
        [] q.op = "reverse-depends" -> {w \in AllOf(g, TRUE) : Depends(w) \cap of # {}}
        [] q.op = "reverse-build-depends" -> {w \in AllOf(g, FALSE) : Depends(w) \cap of # {}}
        [] q.op = "binary-to-source" ->
             {w \in AllOf(g, FALSE) : \E v \in of : v.build.source = w.package /\ v.build.sourceVersion = w.string}
        [] q.op = "source-to-binary" ->
             {w \in AllOf(g, TRUE) : \E v \in of : w.package \in v.build.binaries /\ w.build.sourceVersion = v.string}
Closure(g, q, variables, s) ==
  LET next == Meaning(g, q.args[2], (q.name :> s) @@ variables, TRUE)
  IN  IF next \subseteq s THEN next ELSE Closure(g, q, variables, s \cup next)

\* Where the two orders of versions agree, the lists which selectors make mean
\* the sets which the manual describes, and the best version of a package is the
\* one which is preferred (FunctionalSelector::selectAllVersions,
\* selectBestVersions).
OrdersAgree(g) ==
  \A p \in DOMAIN g.packages : \A i, j \in DOMAIN g.sorted[p] :
    i < j => SpcvGreater(g, g.sorted[p][i], g.sorted[p][j])
SelectsSets(g) ==
  OrdersAgree(g) =>
    /\ Range(selection.all) = Meaning(g, selection.query, <<>>, TRUE)
    /\ IsInjective(selection.all)
    /\ Range(selection.best) = BestOf(g, Range(selection.all))
SelectionsAreSets == selection # None => SelectsSets(Catalogue)
=============================================================================
