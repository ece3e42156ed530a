-------------------------- MODULE DependencyGraph ---------------------------
(***************************************************************************)
(* How the resolver's graph is unfolded from the packages of the cache     *)
(* (nativeresolver/dependencygraph.cpp, prepareForResolving in             *)
(* solution.cpp).  Vertices are versions, absent packages, relation        *)
(* expressions, one vertex per package for an expression that must not be  *)
(* met, synchronizations and requests of the user; edges go from a version *)
(* to what it requires and from there to what satisfies it.  Everything is *)
(* made on demand: a version becomes a vertex when somebody asks for it,   *)
(* if no equal one is there, and that decision is kept.                    *)
(*                                                                         *)
(* ResolverSolution takes such a graph for its input.  The order of        *)
(* successors is left out here, and so are names and reasons.              *)
(***************************************************************************)
EXTENDS Naturals, Sequences, SequencesExt, FiniteSets

CONSTANTS Worlds, Options, Requests
(* A world is a record:                                                    *)
(*   versions    package -> its versions as Cache has them, the installed  *)
(*               one first                                                 *)
(*   package     version -> its package                                    *)
(*   original    version -> its version string without Cupt's suffix       *)
(*   relations   version -> type -> relation expressions                   *)
(*   satisfying  expression -> versions which satisfy it, in some order    *)
(*   source      version -> <<source package, source version>>             *)
(*   binaries    source version -> names of its binary packages            *)
(*   installed, automatic   versions, packages                             *)
(* Options are records of switches and of the level of synchronization.    *)
(* Requests: sequences of [expression, invert, must].                      *)

Strong == {"PreDepends", "Depends", "Conflicts", "Breaks"}
Soft == {"Recommends", "Suggests"}
Anti == {"Conflicts", "Breaks"}
RelationType == Strong \cup Soft

\* The installed version of a package is the first that was read, and the only
\* one (p_mergeInstalledVersion of Package).
InstalledComeFirst(w) ==
  \A v \in w.installed : v = w.versions[w.package[v]][1]

IsWorld(w) ==
  LET all == DOMAIN w.original
      packages == DOMAIN w.versions
      expressions == DOMAIN w.satisfying
  IN  /\ IsFiniteSet(packages) /\ IsFiniteSet(all)
      /\ \A p \in packages : w.versions[p] \in Seq(all)
      /\ w.package \in [all -> packages]
      /\ \A v \in all : \A p \in packages : v \in Range(w.versions[p]) <=> p = w.package[v]
      /\ w.relations \in [all -> [RelationType -> Seq(expressions)]]
      /\ w.satisfying \in [expressions -> Seq(all)]
      /\ \A v \in all : w.source[v] = <<w.source[v][1], w.source[v][2]>>
      /\ w.installed \subseteq all
      /\ InstalledComeFirst(w)

ASSUME InputsAssumption ==
  /\ \A w \in Worlds : IsWorld(w)
  /\ \A o \in Options : o.synchronize \in 0..2
  /\ \A r \in Requests : r \in Seq({r[i] : i \in DOMAIN r})
  /\ \A r \in Requests : \A i \in DOMAIN r : r[i].invert \in BOOLEAN
  /\ \A w \in Worlds : \A r \in Requests : \A i \in DOMAIN r : r[i].expression \in DOMAIN w.satisfying

VARIABLES
  world, options, requests,   \* the input
  seen,          \* version -> "unknown", "vertex" or "refused"
  vertices,      \* the others: absent packages, relations, requests, ...
  edges,
  unfolded,      \* versions
  stage          \* of prepareForResolving
vars == <<world, options, requests, seen, vertices, edges, unfolded, stage>>

Package == DOMAIN world.versions
Version == DOMAIN world.original
PackageOf(v) == world.package[v]

\* Names of vertices.
User == <<"user requests">>
VersionVertex(v) == <<"version", v>>
Absent(p) == <<"absent", p>>
RelationVertex(type, e) == <<"relation", type, e>>
AntiVertex(type, e) == <<"anti", type, e>>            \* for a package: \o <<p>>
SyncVertex(source, p) == <<"sync", source[1], source[2], p>>
RequestVertex(i) == <<"request", i>>                  \* for a package: \o <<p>>
Unsatisfied(x) == <<"unsatisfied">> \o x

\* A graph in the making, as the operators below pass it on.
Graph == [seen |-> seen, vertices |-> vertices, edges |-> edges]
Becomes(g) == seen' = g.seen /\ vertices' = g.vertices /\ edges' = g.edges

-----------------------------------------------------------------------------
(* Vertices of versions and of absent packages                             *)

\* "no reasons to allow this version dependency-wise"
SameFor(v, w) ==
  /\ world.original[v] = world.original[w]
  /\ world.relations[v] = world.relations[w]

VersionAllowed(g, v) ==
  \A w \in Version :
    g.seen[w] = "vertex" /\ PackageOf(w) = PackageOf(v) => ~SameFor(v, w)

\* getVertexPtrForVersion: an answer is remembered, unless it is overridden.
WithVersion(g, v, override) ==
  IF g.seen[v] = "vertex" THEN g
  ELSE LET yes == override \/ (g.seen[v] = "unknown" /\ VersionAllowed(g, v))
       IN  [g EXCEPT !.seen[v] = IF yes THEN "vertex" ELSE "refused"]

CanBeRemoved(p) ==
  \/ ~options.noRemove
  \/ Range(world.versions[p]) \cap world.installed = {}
  \/ p \in world.automatic

\* getVertexPtrForEmptyPackage
WithAbsent(g, p) ==
  IF CanBeRemoved(p) THEN [g EXCEPT !.vertices = @ \cup {Absent(p)}] ELSE g

WithVertex(g, x) == [g EXCEPT !.vertices = @ \cup {x}]
Edge(g, from, to) == [g EXCEPT !.edges = @ \cup {<<from, to>>}]

EdgeToVersion(g, from, v, override) ==
  LET h == WithVersion(g, v, override)
  IN  IF h.seen[v] = "vertex" THEN Edge(h, from, VersionVertex(v)) ELSE h

\* To those of a list which are in a set.
EdgesToVersions(g, from, list, wanted, override) ==
  FoldLeft(LAMBDA h, v : IF v \in wanted THEN EdgeToVersion(h, from, v, override) ELSE h, g, list)

EdgeToAbsent(g, from, p) ==
  LET h == WithAbsent(g, p)
  IN  IF Absent(p) \in h.vertices THEN Edge(h, from, Absent(p)) ELSE h

-----------------------------------------------------------------------------
(* Relations of a version                                                  *)

Satisfying(e) == Range(world.satisfying[e])
HitPackages(e) == {PackageOf(v) : v \in Satisfying(e)}

\* buildEdgesForAntiRelationExpression: everything else of every package
\* that has a version which satisfies the expression.
Exclude(g, e, x, p, override) ==
  LET made == WithVertex(g, x \o <<p>>)
      others == EdgesToVersions(made, x \o <<p>>, world.versions[p], Version \ Satisfying(e), override)
  IN  EdgeToAbsent(others, x \o <<p>>, p)
Excluded(g, e, x, override) ==
  FoldLeft(LAMBDA h, p : Exclude(h, e, x, p, override), g, SetToSeq(HitPackages(e)))

\* processAntiRelation: "doesn't conflict with itself"
AntiRelation(g, v, type, e) ==
  LET x == AntiVertex(type, e)
      isNew == \A p \in HitPackages(e) : x \o <<p>> \notin g.vertices
      h == IF isNew THEN Excluded(g, e, x, FALSE) ELSE g
  IN  [h EXCEPT !.edges = @ \cup {<<VersionVertex(v), x \o <<p>>>> : p \in HitPackages(e) \ {PackageOf(v)}}]

\* __is_soft_dependency_ignored
SoftIgnored(v, type, e) ==
  LET Old == world.installed \cap Range(world.versions[PackageOf(v)])
  IN  /\ Satisfying(e) \cap world.installed = {}
      /\ \/ type = "Recommends" /\ ~options.installRecommends
         \/ type = "Suggests" /\ ~options.installSuggests
         \/ \E w \in Old : e \in Range(world.relations[w][type])

\* processForwardRelation: versions share the vertex of an expression.
ForwardRelation(g, v, type, e) ==
  LET x == RelationVertex(type, e)
      h == Edge(WithVertex(g, x), VersionVertex(v), x)
      filled == EdgesToVersions(h, x, world.satisfying[e], Version, FALSE)
  IN  IF type \in Soft /\ SoftIgnored(v, type, e) THEN g
      ELSE IF x \in g.vertices THEN h
      ELSE IF type \in Soft THEN Edge(filled, x, Unsatisfied(x))
      ELSE filled

\* processSynchronizations, for the binary packages of the same source version.
SyncPackages(source) == {p \in Package : p \in world.binaries[source]}
SameSource(source) == {v \in Version : world.source[v][2] = source[2]}

Synchronize(g, source, p) ==
  LET x == SyncVertex(source, p)
      same == EdgesToVersions(WithVertex(g, x), x, world.versions[p], SameSource(source), FALSE)
      h == EdgeToAbsent(same, x, p)
  IN  IF options.synchronize = 1 THEN Edge(h, x, Unsatisfied(x)) ELSE h

Synchronizations(g, v) ==
  LET source == world.source[v]
      isNew == \A p \in SyncPackages(source) : SyncVertex(source, p) \notin g.vertices
      full == IF isNew
              THEN FoldLeft(LAMBDA h, p : Synchronize(h, source, p), g, SetToSeq(SyncPackages(source)))
              ELSE g
  IN  [full EXCEPT !.edges = @ \cup {<<VersionVertex(v), SyncVertex(source, p)>> :
                                       p \in SyncPackages(source) \ {PackageOf(v)}}]

\* __get_dependency_groups: types and their order
DependencyGroups ==
  <<"PreDepends", "Depends", "Conflicts", "Breaks">>
    \o (IF options.keepRecommends THEN <<"Recommends">> ELSE <<>>)
    \o (IF options.keepSuggests THEN <<"Suggests">> ELSE <<>>)

Related(g, v, type, e) ==
  IF type \in Anti THEN AntiRelation(g, v, type, e) ELSE ForwardRelation(g, v, type, e)
RelatedByType(g, v, type) ==
  FoldLeft(LAMBDA h, e : Related(h, v, type, e), g, world.relations[v][type])

UnfoldedInto(g, v) ==
  LET related == FoldLeft(LAMBDA h, type : RelatedByType(h, v, type), g, DependencyGroups)
  IN  IF options.synchronize > 0 /\ v \notin world.installed
      THEN Synchronizations(related, v) ELSE related

-----------------------------------------------------------------------------
(* Steps                                                                   *)

Init ==
  /\ world \in Worlds
  /\ options \in Options
  /\ requests \in Requests
  /\ seen = [v \in Version |-> "unknown"]
  /\ vertices = {}
  /\ edges = {}
  /\ unfolded = {}
  /\ stage = "fill"

\* fill, p_populatePackage: every version of the packages that are installed,
\* "stable" sorted, so that the installed one is the first of its equals.
PopulatedBackwards(g, p) ==
  WithAbsent(FoldLeft(LAMBDA h, v : WithVersion(h, v, FALSE), g, Reverse(world.versions[p])), p)
Populated(g, p) ==
  WithAbsent(FoldLeft(LAMBDA h, v : WithVersion(h, v, FALSE), g, world.versions[p]), p)

InstalledPackages == {PackageOf(v) : v \in world.installed}

Fill ==
  /\ stage = "fill"
  /\ Becomes(FoldLeft(Populated, Graph, SetToSeq(InstalledPackages)))
  /\ stage' = "requests"
  /\ UNCHANGED <<world, options, requests, unfolded>>

\* addUserRelationExpression: explicitly wanted versions are always allowed.
RequestInto(g, i) ==
  LET r == requests[i]
      x == RequestVertex(i)
      filled == IF r.invert THEN Excluded(g, r.expression, x, TRUE)
                ELSE EdgesToVersions(WithVertex(g, x \o <<"any">>),
                                     x \o <<"any">>, world.satisfying[r.expression], Version, TRUE)
      Mine == filled.vertices \ (g.vertices \cup {Absent(p) : p \in Package})
  IN  [filled EXCEPT
         !.edges = @ \cup {<<User, y>> : y \in Mine}
                     \cup (IF r.must THEN {} ELSE {<<y, Unsatisfied(x)>> : y \in Mine})]

AllRequests(g) == FoldLeft(RequestInto, g, [i \in 1..Len(requests) |-> i])
AllInstalled(g) == FoldLeft(UnfoldedInto, g, SetToSeq(world.installed))

\* "User relation expressions must be processed before any unfoldElement()
\* calls to early override version checks"
UnfoldFirst == AllRequests(AllInstalled(Graph))
RequestsFirst == AllRequests(Graph)

AddRequests ==
  /\ stage = "requests"
  /\ Becomes(RequestsFirst)
  /\ stage' = "initial"
  /\ UNCHANGED <<world, options, requests, unfolded>>

UnfoldInitial ==
  /\ stage = "initial"
  /\ Becomes(AllInstalled(Graph))
  /\ unfolded' = world.installed
  /\ stage' = "search"
  /\ UNCHANGED <<world, options, requests>>

\* The search unfolds what it tries to install, in any order.
UnfoldElement(v) ==
  /\ stage = "search"
  /\ seen[v] = "vertex"
  /\ v \notin unfolded
  /\ Becomes(UnfoldedInto(Graph, v))
  /\ unfolded' = unfolded \cup {v}
  /\ UNCHANGED <<world, options, requests, stage>>

Next ==
  \/ Fill
  \/ AddRequests
  \/ UnfoldInitial
  \/ \E v \in Version : UnfoldElement(v)

Spec == Init /\ [][Next]_vars

-----------------------------------------------------------------------------
(* Properties *)

Successors(x) == {edge[2] : edge \in {y \in edges : y[1] = x}}

\* Systems the search may come to: a version which is a vertex, or none, of
\* every package; an absent package needs no vertex unless it is installed now.
Candidates(p) ==
  {VersionVertex(v) : v \in Range(world.versions[p]) \cap unfolded}
    \cup (IF p \in InstalledPackages /\ Absent(p) \notin vertices THEN {} ELSE {Absent(p)})
Systems ==
  {system \in [Package -> UNION {Candidates(p) : p \in Package}] :
     \A p \in Package : system[p] \in Candidates(p)}

\* What the graph says of a system: verifyElement.
Met(system, x) == Successors(x) \cap Range(system) # {}
MayBeUnmet(x) == \E z \in Successors(x) : z[1] = "unsatisfied"
GraphAllows(system) ==
  \A x \in Range(system) \cup {User} : \A y \in Successors(x) : Met(system, y) \/ MayBeUnmet(y)

\* What the packages say of it.
Has(system, p, v) == system[p] = VersionVertex(v)
Satisfied(system, e) == \E p \in Package : \E v \in Satisfying(e) : Has(system, p, v)
DependenciesMet(system, v) ==
  \A type \in {"PreDepends", "Depends"} : \A e \in Range(world.relations[v][type]) : Satisfied(system, e)
NothingExcluded(system, v) ==
  \A type \in Anti : \A e \in Range(world.relations[v][type]) :
    \A q \in Package \ {PackageOf(v)} : \A w \in Satisfying(e) : ~Has(system, q, w)
Synchronized(system, v) ==
  options.synchronize = 2 /\ v \notin world.installed =>
    \A q \in SyncPackages(world.source[v]) \ {PackageOf(v)} : \A w \in Version :
      Has(system, q, w) => world.source[w][2] = world.source[v][2]
RequestMet(system, r) == r.must => (Satisfied(system, r.expression) <=> ~r.invert)
Works(system) ==
  /\ \A p \in Package : \A v \in Version : Has(system, p, v) =>
       DependenciesMet(system, v) /\ NothingExcluded(system, v) /\ Synchronized(system, v)
  /\ \A i \in DOMAIN requests : RequestMet(system, requests[i])

\* The graph says of every system which the search can come to what the
\* relations, the requests and the synchronization say of it, in whatever order
\* it is unfolded, though equal versions are left out (getVertexPtrForVersion),
\* relations are shared, and both are decided once and for all.
GraphMeansDependencies ==
  stage = "search" => \A system \in Systems : GraphAllows(system) <=> Works(system)

\* The initial solution is made of the installed versions
\* (p_generateSolutionElements): none of them may be refused for an equal one.
InstalledAreVertices ==
  stage # "fill" => \A v \in world.installed : seen[v] = "vertex"
=============================================================================
