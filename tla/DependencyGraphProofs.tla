------------------------ MODULE DependencyGraphProofs -----------------------
(***************************************************************************)
(* For every world, all options and any requests, in whatever order        *)
(* versions are unfolded: the graph rules out what the relations of the    *)
(* packages, the requests and the synchronization rule out, nothing else,  *)
(* and no installed version is left out.                                   *)
(*                                                                         *)
(* Means says what a vertex asks for, Wants what a version asks for.  The  *)
(* graph is Sound if every vertex in it is linked with all that can answer *)
(* it and every edge has a reason; requests and unfolding keep it so       *)
(* (GraphInv), whoever a vertex was made for and whenever.  The loops of   *)
(* the code are instances of Loops.                                        *)
(***************************************************************************)
EXTENDS DependencyGraph, FiniteSetTheorems, SequenceTheorems, TLAPS

InputsOK ==
  /\ IsWorld(world)
  /\ options.synchronize \in 0..2
  /\ requests \in Seq({requests[i] : i \in DOMAIN requests})
  /\ \A i \in DOMAIN requests : requests[i].invert \in BOOLEAN
  /\ \A i \in DOMAIN requests : requests[i].expression \in DOMAIN world.satisfying

Expression == DOMAIN world.satisfying
VersionsOf(p) == Range(world.versions[p])
IsSeq(s) == s \in Seq({s[i] : i \in DOMAIN s})
FirstMembers(s, n) == {s[i] : i \in 1..n}

\* A sequence over any set is one over its own members.
LEMMA SeqIsSeq ==
  ASSUME NEW S, NEW s \in Seq(S)
  PROVE  IsSeq(s) /\ Len(s) \in Nat /\ DOMAIN s = 1..Len(s) /\ Range(s) \subseteq S
         /\ Range(s) = FirstMembers(s, Len(s))
<1>1. Len(s) \in Nat /\ s \in [1..Len(s) -> S] /\ DOMAIN s = 1..Len(s)
  BY LenProperties
<1>2. Range(s) \subseteq S
  BY <1>1 DEF Range
<1>3. Range(s) = FirstMembers(s, Len(s))
  BY <1>1 DEF Range, FirstMembers
<1> DEFINE M == {s[i] : i \in DOMAIN s}
<1>4. s \in [1..Len(s) -> M]
  BY <1>1
<1>5. s \in Seq(M)
  BY <1>1, <1>4, SeqDef
<1>6. QED
  BY <1>1, <1>2, <1>3, <1>5 DEF IsSeq

\* One round of a loop takes one more member.
LEMMA MoreMembers ==
  ASSUME NEW s, IsSeq(s), NEW i \in 1..Len(s)
  PROVE  FirstMembers(s, i) = FirstMembers(s, i - 1) \cup {s[i]}
<1>1. Len(s) \in Nat
  BY LenProperties DEF IsSeq
<1>2. 1..i = (1..(i - 1)) \cup {i}
  BY <1>1
<1>3. QED
  BY <1>2 DEF FirstMembers

LEMMA NoMembers ==
  ASSUME NEW s
  PROVE  FirstMembers(s, 0) = {}
BY DEF FirstMembers

\* SetToSeq lists a finite set.
LEMMA SetAsSeq ==
  ASSUME NEW S, IsFiniteSet(S)
  PROVE  LET s == SetToSeq(S) IN
         IsSeq(s) /\ Len(s) \in Nat /\ Range(s) = S /\ DOMAIN s = 1..Len(s) /\ S = FirstMembers(s, Len(s))
<1> DEFINE n == Cardinality(S)
           s == SetToSeq(S)
<1>1. n \in Nat /\ ExistsBijection(1..n, S)
  BY FS_CardinalityType
<1>2. \E f \in [1..n -> S] : IsInjective(f)
  BY <1>1 DEF ExistsBijection, Bijection, Injection, IsInjective
<1>3. s \in [1..n -> S] /\ IsInjective(s)
  BY <1>2 DEF SetToSeq
<1>4. IsFiniteSet(1..n) /\ Cardinality(1..n) = n
  BY <1>1, FS_Interval
<1>5. s \in Injection(1..n, S)
  BY <1>3 DEF Injection, IsInjective
<1> HIDE DEF s
<1>6. s \in Surjection(1..n, S)
  BY <1>4, <1>5, FS_Injection
<1>7. S = {s[i] : i \in 1..n}
  BY <1>6 DEF Surjection
<1>8. s \in Seq(S)
  BY <1>1, <1>3, SeqDef
<1>9. Len(s) = n
  BY <1>1, <1>3, <1>8, LenProperties
<1>10. QED
  BY <1>7, <1>8, <1>9, SeqIsSeq DEF FirstMembers, s

-----------------------------------------------------------------------------
(* The world                                                               *)

\* What IsWorld says, in the terms of the model.
LEMMA WorldFacts ==
  ASSUME InputsOK
  PROVE  /\ IsFiniteSet(Package) /\ IsFiniteSet(Version)
         /\ \A p \in Package : world.versions[p] \in Seq(Version)
         /\ \A v \in Version : PackageOf(v) \in Package
         /\ \A v \in Version : \A p \in Package : v \in VersionsOf(p) <=> p = PackageOf(v)
         /\ \A p \in Package : VersionsOf(p) \subseteq Version
         /\ \A v \in Version : \A type \in RelationType : world.relations[v][type] \in Seq(Expression)
         /\ \A e \in Expression : world.satisfying[e] \in Seq(Version) /\ Satisfying(e) \subseteq Version
         /\ \A e \in Expression : HitPackages(e) \subseteq Package /\ IsFiniteSet(HitPackages(e))
         /\ \A source : SyncPackages(source) \subseteq Package /\ IsFiniteSet(SyncPackages(source))
         /\ \A v \in Version : world.source[v] = <<world.source[v][1], world.source[v][2]>>
         /\ world.installed \subseteq Version /\ IsFiniteSet(world.installed)
<1>1. IsWorld(world)
  BY DEF InputsOK
<1>2. /\ IsFiniteSet(Package) /\ IsFiniteSet(Version)
      /\ \A p \in Package : world.versions[p] \in Seq(Version)
      /\ \A v \in Version : PackageOf(v) \in Package
      /\ world.installed \subseteq Version
      /\ \A v \in Version : \A type \in RelationType : world.relations[v][type] \in Seq(Expression)
      /\ \A e \in Expression : world.satisfying[e] \in Seq(Version)
      /\ \A v \in Version : world.source[v] = <<world.source[v][1], world.source[v][2]>>
  BY <1>1 DEF IsWorld, Package, Version, PackageOf, Expression
<1>3. \A v \in Version : \A p \in Package : v \in VersionsOf(p) <=> p = PackageOf(v)
  BY <1>1 DEF IsWorld, Package, Version, PackageOf, VersionsOf
<1>4. \A p \in Package : VersionsOf(p) \subseteq Version
  BY <1>2, SeqIsSeq DEF VersionsOf
<1>5. \A e \in Expression : Satisfying(e) \subseteq Version
  BY <1>2, SeqIsSeq DEF Satisfying
<1>6. \A e \in Expression : HitPackages(e) \subseteq Package
  BY <1>2, <1>5 DEF HitPackages
<1>7. \A source : SyncPackages(source) \subseteq Package
  BY DEF SyncPackages
<1>8. \A T : T \subseteq Package => IsFiniteSet(T)
  BY <1>2, FS_Subset
<1>9. IsFiniteSet(world.installed)
  BY <1>2, FS_Subset
<1>10. QED
  BY <1>2, <1>3, <1>4, <1>5, <1>6, <1>7, <1>8, <1>9

-----------------------------------------------------------------------------
(* Names                                                                   *)

LEMMA PairJoined ==
  ASSUME NEW a, NEW b, NEW c
  PROVE  <<a, b>> \o <<c>> = <<a, b, c>>
<1> DEFINE S == {a, b, c}
           s == <<a, b>> \o <<c>>
<1>1. <<a, b>> \in Seq(S) /\ <<c>> \in Seq(S) /\ <<a, b, c>> \in Seq(S)
  OBVIOUS
<1>2. Len(<<a, b>>) = 2 /\ Len(<<c>>) = 1 /\ Len(<<a, b, c>>) = 3
  OBVIOUS
<1>3. s \in Seq(S) /\ Len(s) = 3
  BY <1>1, <1>2, ConcatProperties
<1>4. \A i \in 1..3 : s[i] = <<a, b, c>>[i]
  BY <1>1, <1>2, ConcatProperties
<1>5. QED
  BY <1>1, <1>2, <1>3, <1>4, SeqEqual

LEMMA TripleJoined ==
  ASSUME NEW a, NEW b, NEW c, NEW d
  PROVE  <<a, b, c>> \o <<d>> = <<a, b, c, d>>
<1> DEFINE S == {a, b, c, d}
           s == <<a, b, c>> \o <<d>>
<1>1. <<a, b, c>> \in Seq(S) /\ <<d>> \in Seq(S) /\ <<a, b, c, d>> \in Seq(S)
  OBVIOUS
<1>2. Len(<<a, b, c>>) = 3 /\ Len(<<d>>) = 1 /\ Len(<<a, b, c, d>>) = 4
  OBVIOUS
<1>3. s \in Seq(S) /\ Len(s) = 4
  BY <1>1, <1>2, ConcatProperties
<1>4. \A i \in 1..4 : s[i] = <<a, b, c, d>>[i]
  BY <1>1, <1>2, ConcatProperties
<1>5. QED
  BY <1>1, <1>2, <1>3, <1>4, SeqEqual

LEMMA FirstJoined ==
  ASSUME NEW S, NEW x \in Seq(S), NEW k
  PROVE  (<<k>> \o x)[1] = k
<1> DEFINE K == S \cup {k}
<1>1. <<k>> \in Seq(K) /\ Len(<<k>>) = 1 /\ <<k>>[1] = k
  OBVIOUS
<1>2. x \in Seq(K) /\ Len(x) \in Nat
  BY LenProperties
<1>3. QED
  BY <1>1, <1>2, ConcatProperties

IsUnsatisfied(z) == z[1] = "unsatisfied"

LEMMA Names ==
  /\ \A type, e, p : AntiVertex(type, e) \o <<p>> = <<"anti", type, e, p>>
  /\ \A i, p : RequestVertex(i) \o <<p>> = <<"request", i, p>>
  /\ \A type, e : IsUnsatisfied(Unsatisfied(RelationVertex(type, e)))
  /\ \A source, p : IsUnsatisfied(Unsatisfied(SyncVertex(source, p)))
  /\ \A i : IsUnsatisfied(Unsatisfied(RequestVertex(i)))
<1>1. \A a, b, c, d : <<a, b, c, d>> \in Seq({a, b, c, d})
  OBVIOUS
<1>2. \A a, b, c : <<a, b, c>> \in Seq({a, b, c})
  OBVIOUS
<1>3. \A a, b : <<a, b>> \in Seq({a, b})
  OBVIOUS
<1>4. \A type, e : IsUnsatisfied(Unsatisfied(RelationVertex(type, e)))
  BY <1>2, FirstJoined DEF IsUnsatisfied, Unsatisfied, RelationVertex
<1>5. \A source, p : IsUnsatisfied(Unsatisfied(SyncVertex(source, p)))
  BY <1>1, FirstJoined DEF IsUnsatisfied, Unsatisfied, SyncVertex
<1>6. \A i : IsUnsatisfied(Unsatisfied(RequestVertex(i)))
  BY <1>3, FirstJoined DEF IsUnsatisfied, Unsatisfied, RequestVertex
<1>7. QED
  BY <1>4, <1>5, <1>6, PairJoined, TripleJoined DEF AntiVertex, RequestVertex

\* The vertices of a request.
RequestName(i, x) ==
  IF requests[i].invert THEN \E p \in HitPackages(requests[i].expression) : x = <<"request", i, p>>
  ELSE x = <<"request", i, "any">>

\* What a vertex asks for: one of the versions T, or that one of the packages P
\* is absent.
Means(x, T, P) ==
  \/ \E type \in RelationType \ Anti : \E e \in Expression :
       x = RelationVertex(type, e) /\ T = Satisfying(e) /\ P = {}
  \/ \E type \in Anti : \E e \in Expression : \E p \in HitPackages(e) :
       x = <<"anti", type, e, p>> /\ T = VersionsOf(p) \ Satisfying(e) /\ P = {p}
  \/ \E v \in Version : \E p \in SyncPackages(world.source[v]) :
       x = SyncVertex(world.source[v], p) /\ T = VersionsOf(p) \cap SameSource(world.source[v]) /\ P = {p}
  \/ \E i \in DOMAIN requests :
       /\ ~requests[i].invert
       /\ x = <<"request", i, "any">> /\ T = Satisfying(requests[i].expression) /\ P = {}
  \/ \E i \in DOMAIN requests : \E p \in HitPackages(requests[i].expression) :
       /\ requests[i].invert
       /\ x = <<"request", i, p>> /\ T = VersionsOf(p) \ Satisfying(requests[i].expression) /\ P = {p}

\* It need not get it.
IsSoft(x) ==
  \/ \E type \in Soft : \E e : x = RelationVertex(type, e)
  \/ options.synchronize = 1 /\ x[1] = "sync"
  \/ \E i \in DOMAIN requests : ~requests[i].must /\ RequestName(i, x)

\* What each kind of vertex means.
LEMMA RelationMeans ==
  ASSUME NEW type \in RelationType \ Anti, NEW e \in Expression
  PROVE  \A T, P : Means(RelationVertex(type, e), T, P) <=> T = Satisfying(e) /\ P = {}
BY DEF Means, RelationVertex, SyncVertex

LEMMA AntiMeans ==
  ASSUME NEW type \in Anti, NEW e \in Expression, NEW p \in HitPackages(e)
  PROVE  \A T, P : Means(<<"anti", type, e, p>>, T, P) <=> T = VersionsOf(p) \ Satisfying(e) /\ P = {p}
BY DEF Means, RelationVertex, SyncVertex

LEMMA SyncMeans ==
  ASSUME NEW v \in Version, NEW p \in SyncPackages(world.source[v])
  PROVE  \A T, P : Means(SyncVertex(world.source[v], p), T, P)
                     <=> T = VersionsOf(p) \cap SameSource(world.source[v]) /\ P = {p}
BY DEF Means, RelationVertex, SyncVertex, SameSource

LEMMA RequestMeans ==
  ASSUME NEW i \in DOMAIN requests, NEW x, RequestName(i, x)
  PROVE  \/ /\ ~requests[i].invert
            /\ x = <<"request", i, "any">>
            /\ \A T, P : Means(x, T, P) <=> T = Satisfying(requests[i].expression) /\ P = {}
         \/ \E p \in HitPackages(requests[i].expression) :
              /\ requests[i].invert
              /\ x = <<"request", i, p>>
              /\ \A T, P : Means(x, T, P) <=> T = VersionsOf(p) \ Satisfying(requests[i].expression) /\ P = {p}
BY DEF Means, RelationVertex, SyncVertex, RequestName
-----------------------------------------------------------------------------
(* Steps of the making of a graph                                          *)

IsState(g) ==
  /\ DOMAIN g = {"seen", "vertices", "edges"}
  /\ g.seen \in [Version -> {"unknown", "vertex", "refused"}]

\* What never changes: vertices and edges stay, and so do decisions, except
\* that requests (override) want even what was refused.
Grew(g, h, override) ==
  /\ IsState(h)
  /\ g.vertices \subseteq h.vertices
  /\ g.edges \subseteq h.edges
  /\ \A v \in Version : g.seen[v] = "vertex" => h.seen[v] = "vertex"
  /\ ~override => \A v \in Version : g.seen[v] = "refused" => h.seen[v] = "refused"

\* Growing twice is growing.
LEMMA GrewOn ==
  ASSUME NEW f, NEW g, NEW h, NEW o, Grew(f, g, o), Grew(g, h, o)
  PROVE  Grew(f, h, o)
BY DEF Grew

LEMMA NothingGrew ==
  ASSUME NEW g, IsState(g), NEW o
  PROVE  Grew(g, g, o)
BY DEF Grew

\* A version has been asked for, and nothing else has happened.
AskedFor(g, h, v, override) ==
  /\ Grew(g, h, override)
  /\ h.vertices = g.vertices /\ h.edges = g.edges
  /\ \A w \in Version : w # v => h.seen[w] = g.seen[w]
  /\ h.seen[v] # "unknown"
  /\ override => h.seen[v] = "vertex"
  /\ ~override /\ g.seen[v] # "unknown" => h.seen[v] = g.seen[v]
  /\ g.seen[v] = "unknown" /\ VersionAllowed(g, v) => h.seen[v] = "vertex"

\* getVertexPtrForVersion decides about one version, and keeps to it.
LEMMA WithVersionFacts ==
  ASSUME NEW g, IsState(g), NEW v \in Version, NEW o, NEW h, h = WithVersion(g, v, o)
  PROVE  AskedFor(g, h, v, o)
<1> DEFINE yes == o \/ (g.seen[v] = "unknown" /\ VersionAllowed(g, v))
           answer == IF yes THEN "vertex" ELSE "refused"
<1>1. CASE g.seen[v] = "vertex"
  BY <1>1 DEF WithVersion, Grew, IsState, AskedFor
<1>2. CASE g.seen[v] # "vertex"
  <2>1. h = [g EXCEPT !.seen[v] = answer]
    BY <1>2 DEF WithVersion
  <2>2. answer \in {"vertex", "refused"}
    OBVIOUS
  <2>3. /\ DOMAIN h = DOMAIN g /\ h.vertices = g.vertices /\ h.edges = g.edges
        /\ h.seen = [g.seen EXCEPT ![v] = answer]
    BY <2>1 DEF IsState
  <2>4. IsState(h) /\ h.seen[v] = answer /\ \A w \in Version : w # v => h.seen[w] = g.seen[w]
    BY <2>2, <2>3 DEF IsState
  <2>5. o => answer = "vertex"
    OBVIOUS
  <2>6. g.seen[v] = "unknown" /\ VersionAllowed(g, v) => answer = "vertex"
    OBVIOUS
  <2>7. ~o /\ g.seen[v] # "unknown" => answer = "refused"
    OBVIOUS
  <2>8. g.seen[v] \in {"unknown", "vertex", "refused"}
    BY DEF IsState
  <2> HIDE DEF answer, yes
  <2>9. QED
    BY <1>2, <2>2, <2>3, <2>4, <2>5, <2>6, <2>7, <2>8 DEF Grew, AskedFor
<1>3. QED
  BY <1>1, <1>2

LEMMA EdgeIs ==
  ASSUME NEW g, IsState(g), NEW x, NEW y
  PROVE  /\ IsState(Edge(g, x, y))
         /\ Edge(g, x, y).seen = g.seen
         /\ Edge(g, x, y).vertices = g.vertices
         /\ Edge(g, x, y).edges = g.edges \cup {<<x, y>>}
BY DEF Edge, IsState

LEMMA WithVertexIs ==
  ASSUME NEW g, IsState(g), NEW x
  PROVE  /\ IsState(WithVertex(g, x))
         /\ WithVertex(g, x).seen = g.seen
         /\ WithVertex(g, x).vertices = g.vertices \cup {x}
         /\ WithVertex(g, x).edges = g.edges
BY DEF WithVertex, IsState

\* Vertices and edges are added, and no decision is changed.
Extends(h, g) ==
  IsState(h) /\ h.seen = g.seen /\ g.vertices \subseteq h.vertices /\ g.edges \subseteq h.edges

LEMMA ExtendedGrew ==
  ASSUME NEW g, NEW h, Extends(h, g), NEW o
  PROVE  Grew(g, h, o)
BY DEF Extends, Grew

\* There is a vertex for an absent package only if it may be removed.
RemovableOnly(g) == \A p \in Package : Absent(p) \in g.vertices => CanBeRemoved(p)

\* getVertexPtrForEmptyPackage: an edge to the absent package if it may be removed.
LEMMA EdgeToAbsentIs ==
  ASSUME NEW g, IsState(g), NEW x, NEW p \in Package, RemovableOnly(g)
  PROVE  /\ Extends(EdgeToAbsent(g, x, p), g)
         /\ RemovableOnly(EdgeToAbsent(g, x, p))
         /\ CanBeRemoved(p) =>
              /\ EdgeToAbsent(g, x, p).vertices = g.vertices \cup {Absent(p)}
              /\ EdgeToAbsent(g, x, p).edges = g.edges \cup {<<x, Absent(p)>>}
         /\ ~CanBeRemoved(p) => EdgeToAbsent(g, x, p) = g
<1>1. CASE CanBeRemoved(p)
  <2>1. WithAbsent(g, p) = WithVertex(g, Absent(p))
    BY <1>1 DEF WithAbsent, WithVertex
  <2>2. PICK a : a = WithVertex(g, Absent(p))
    OBVIOUS
  <2>3. IsState(a) /\ a.seen = g.seen /\ a.vertices = g.vertices \cup {Absent(p)} /\ a.edges = g.edges
    BY <2>2, WithVertexIs
  <2>4. EdgeToAbsent(g, x, p) = Edge(a, x, Absent(p))
    BY <2>1, <2>2, <2>3 DEF EdgeToAbsent
  <2>5. PICK z : z = Edge(a, x, Absent(p))
    OBVIOUS
  <2>6. IsState(z) /\ z.seen = a.seen /\ z.vertices = a.vertices /\ z.edges = a.edges \cup {<<x, Absent(p)>>}
    BY <2>3, <2>5, EdgeIs
  <2>7. Extends(z, g)
    BY <2>3, <2>6 DEF Extends
  <2>8. RemovableOnly(z)
    BY <1>1, <2>3, <2>6 DEF RemovableOnly, Absent
  <2>9. EdgeToAbsent(g, x, p) = z
    BY <2>4, <2>5
  <2>10. QED
    BY <1>1, <2>3, <2>6, <2>7, <2>8, <2>9
<1>2. CASE ~CanBeRemoved(p)
  <2>1. WithAbsent(g, p) = g /\ Absent(p) \notin g.vertices
    BY <1>2 DEF WithAbsent, RemovableOnly
  <2>2. EdgeToAbsent(g, x, p) = g
    BY <2>1 DEF EdgeToAbsent
  <2>3. QED
    BY <1>2, <2>2 DEF Extends
<1>3. QED
  BY <1>1, <1>2
-----------------------------------------------------------------------------
(* Loops over versions                                                     *)

\* The versions T have been asked for, and those which are vertices answer x.
Answered(h, x, T, override) ==
  \A v \in T :
    /\ h.seen[v] # "unknown"
    /\ override => h.seen[v] = "vertex"
    /\ h.seen[v] = "vertex" => <<x, VersionVertex(v)>> \in h.edges

LEMMA StillAnswered ==
  ASSUME NEW g, NEW h, IsState(g), NEW x, NEW T \in SUBSET Version, NEW o,
         Answered(g, x, T, o), Grew(g, h, o)
  PROVE  Answered(h, x, T, o)
<1> SUFFICES ASSUME NEW v \in T
             PROVE  /\ h.seen[v] # "unknown"
                    /\ o => h.seen[v] = "vertex"
                    /\ h.seen[v] = "vertex" => <<x, VersionVertex(v)>> \in h.edges
  BY DEF Answered
<1>1. g.seen[v] \in {"vertex", "refused"} /\ h.seen[v] \in {"unknown", "vertex", "refused"}
  BY DEF Answered, IsState, Grew
<1>2. QED
  BY <1>1 DEF Answered, Grew

\* Nothing else has been done.
ToVersionOnly(g, h, x, T) ==
  /\ h.vertices = g.vertices
  /\ \A e \in h.edges : e \in g.edges \/ \E v \in T : e = <<x, VersionVertex(v)>>

ToVersion(par, h, v) ==
  IF v \in par.wanted THEN EdgeToVersion(h, par.from, v, par.override) ELSE h
ToVersionsHolds(par, n, h) ==
  LET T == FirstMembers(par.list, n) \cap par.wanted
  IN  /\ Grew(par.base, h, par.override)
      /\ Answered(h, par.from, T, par.override)
      /\ ToVersionOnly(par.base, h, par.from, T)
ToVersions == INSTANCE Loops WITH Round <- ToVersion, Holds <- ToVersionsHolds

\* The loop is an instance of Loops; so are all the others below.
LEMMA EdgesToVersionsIs ==
  ASSUME NEW g, NEW from, NEW list, NEW wanted, NEW o
  PROVE  EdgesToVersions(g, from, list, wanted, o) =
           ToVersions!Loop([base |-> g, from |-> from, list |-> list, wanted |-> wanted, override |-> o], g, list)
BY DEF EdgesToVersions, ToVersions!Loop, ToVersion, FoldLeft, MapThenFoldSet, Max,
       ToVersions!MapThenFoldSet, ToVersions!Greatest

LEMMA EdgeToVersionFacts ==
  ASSUME NEW g, IsState(g), NEW x, NEW v \in Version, NEW o,
         NEW h, h = EdgeToVersion(g, x, v, o)
  PROVE  Grew(g, h, o) /\ Answered(h, x, {v}, o) /\ ToVersionOnly(g, h, x, {v})
<1>0. PICK k : k = WithVersion(g, v, o)
  OBVIOUS
<1>1. /\ Grew(g, k, o) /\ k.vertices = g.vertices /\ k.edges = g.edges
      /\ k.seen[v] # "unknown" /\ (o => k.seen[v] = "vertex")
  <2>1. AskedFor(g, k, v, o)
    BY <1>0, WithVersionFacts
  <2>2. QED
    BY <2>1 DEF AskedFor
<1>2. h = IF k.seen[v] = "vertex" THEN Edge(k, x, VersionVertex(v)) ELSE k
  BY <1>0 DEF EdgeToVersion
<1>3. CASE k.seen[v] = "vertex"
  <2>1. IsState(h) /\ h.seen = k.seen /\ h.vertices = k.vertices
        /\ h.edges = k.edges \cup {<<x, VersionVertex(v)>>}
    BY <1>1, <1>2, <1>3, EdgeIs DEF Grew
  <2>2. Grew(k, h, o)
    BY <2>1, ExtendedGrew DEF Extends
  <2>3. Grew(g, h, o)
    BY <1>1, <2>2, GrewOn
  <2>4. Answered(h, x, {v}, o)
    BY <1>3, <2>1 DEF Answered
  <2>5. ToVersionOnly(g, h, x, {v})
    BY <1>1, <2>1 DEF ToVersionOnly
  <2>6. QED
    BY <2>3, <2>4, <2>5
<1>4. CASE k.seen[v] # "vertex"
  <2>1. h = k
    BY <1>2, <1>4
  <2>2. QED
    BY <1>1, <1>4, <2>1 DEF Answered, ToVersionOnly
<1>5. QED
  BY <1>3, <1>4

\* A loop over versions asks for each and links those which are vertices.
LEMMA EdgesToVersionsFacts ==
  ASSUME NEW g, IsState(g), NEW x, NEW list \in Seq(Version), NEW wanted, NEW o,
         NEW h, h = EdgesToVersions(g, x, list, wanted, o)
  PROVE  /\ Grew(g, h, o)
         /\ Answered(h, x, Range(list) \cap wanted, o)
         /\ ToVersionOnly(g, h, x, Range(list) \cap wanted)
<1> DEFINE T(n) == FirstMembers(list, n) \cap wanted
           Good(n, z) == Grew(g, z, o) /\ Answered(z, x, T(n), o) /\ ToVersionOnly(g, z, x, T(n))
<1>0. PICK par : par = [base |-> g, from |-> x, list |-> list, wanted |-> wanted, override |-> o]
  OBVIOUS
<1>1. \A n, z : ToVersionsHolds(par, n, z) <=> Good(n, z)
  BY <1>0 DEF ToVersionsHolds
<1>2. \A z, v : ToVersion(par, z, v) = IF v \in wanted THEN EdgeToVersion(z, x, v, o) ELSE z
  BY <1>0 DEF ToVersion
<1>3. IsSeq(list) /\ Len(list) \in Nat /\ DOMAIN list = 1..Len(list) /\ Range(list) = FirstMembers(list, Len(list))
  BY SeqIsSeq
<1>4. Good(0, g)
  <2>1. T(0) = {}
    BY NoMembers
  <2>2. QED
    BY <2>1, NothingGrew DEF Answered, ToVersionOnly
<1>5. ASSUME NEW i \in 1..Len(list), NEW z, Good(i - 1, z)
      PROVE  Good(i, ToVersion(par, z, list[i]))
  <2>0. PICK v : v = list[i]
    OBVIOUS
  <2>1. v \in Version
    BY <1>3, <2>0, ElementOfSeq
  <2>2. FirstMembers(list, i) = FirstMembers(list, i - 1) \cup {v}
    BY <1>3, <2>0, MoreMembers
  <2>3. CASE v \notin wanted
    <3>1. T(i) = T(i - 1)
      BY <2>2, <2>3
    <3>2. QED
      BY <1>2, <1>5, <2>0, <2>3, <3>1
  <2>4. CASE v \in wanted
    <3>1. T(i) = T(i - 1) \cup {v}
      BY <2>2, <2>4
    <3>2. PICK k : k = EdgeToVersion(z, x, v, o)
      OBVIOUS
    <3>3. Grew(z, k, o) /\ Answered(k, x, {v}, o) /\ ToVersionOnly(z, k, x, {v})
      <4>1. IsState(z)
        BY <1>5 DEF Grew
      <4>2. QED
        BY <2>1, <3>2, <4>1, EdgeToVersionFacts
    <3>4. T(i - 1) \in SUBSET Version
      <4>1. FirstMembers(list, i - 1) \subseteq Range(list)
        BY <1>3 DEF FirstMembers, Range
      <4>2. QED
        BY <4>1, SeqIsSeq
    <3> HIDE DEF T
    <3>5. Grew(g, k, o)
      BY <1>5, <3>3, GrewOn
    <3>6. Answered(k, x, T(i - 1), o)
      BY <1>5, <3>3, <3>4, StillAnswered DEF Grew
    <3>7. Answered(k, x, T(i), o)
      BY <3>1, <3>3, <3>6 DEF Answered
    <3>8. ToVersionOnly(g, k, x, T(i))
      BY <1>5, <3>1, <3>3 DEF ToVersionOnly
    <3>9. QED
      BY <1>2, <2>0, <2>4, <3>2, <3>5, <3>7, <3>8
  <2>5. QED
    BY <2>3, <2>4
<1> HIDE DEF Good
<1>6. ToVersionsHolds(par, Len(list), ToVersions!Loop(par, g, list))
  <2>1. ToVersions!IsSeq(list)
    BY <1>3 DEF IsSeq, ToVersions!IsSeq
  <2>2. QED
    BY <1>1, <1>4, <1>5, <2>1, ToVersions!LoopInduction
<1>7. Good(Len(list), h)
  BY <1>0, <1>1, <1>6, EdgesToVersionsIs
<1>8. QED
  BY <1>3, <1>7 DEF Good

-----------------------------------------------------------------------------
(* A vertex which is answered by versions and absent packages              *)

\* Everything that may answer x does.
Filled(h, x, T, P, override) ==
  /\ x \in h.vertices
  /\ Answered(h, x, T, override)
  /\ \A p \in P : CanBeRemoved(p) => <<x, Absent(p)>> \in h.edges

AnswerEdge(e, x, T, P) ==
  \/ \E v \in T : e = <<x, VersionVertex(v)>>
  \/ \E p \in P : e = <<x, Absent(p)>>

\* It need not be answered.
ExcuseEdge(e, x) == \E z : IsUnsatisfied(z) /\ e = <<x, z>>
HasExcuse(h, x) == \E e \in h.edges : ExcuseEdge(e, x)

\* What answers a vertex goes on answering it.
LEMMA StillFilled ==
  ASSUME NEW g, NEW h, IsState(g), NEW x, NEW T \in SUBSET Version, NEW P, NEW o,
         Filled(g, x, T, P, o), Grew(g, h, o)
  PROVE  Filled(h, x, T, P, o)
<1>1. Answered(h, x, T, o)
  BY StillAnswered DEF Filled
<1>2. g.vertices \subseteq h.vertices /\ g.edges \subseteq h.edges
  BY DEF Grew
<1>3. QED
  BY <1>1, <1>2 DEF Filled

LEMMA StillExcused ==
  ASSUME NEW g, NEW h, NEW x, HasExcuse(g, x), g.edges \subseteq h.edges
  PROVE  HasExcuse(h, x)
BY DEF HasExcuse

\* The vertex of a package in a family of vertices.
MemberMade(g, x, p, wanted, override) ==
  EdgeToAbsent(EdgesToVersions(WithVertex(g, x), x, world.versions[p], wanted, override), x, p)

NotAbsent(x) == \A p \in Package : x # Absent(p)

MemberAdded(g, h, x, p, wanted, override) ==
  /\ Grew(g, h, override) /\ RemovableOnly(h)
  /\ \A y \in h.vertices : y \in g.vertices \/ y = x \/ y = Absent(p)
  /\ Filled(h, x, VersionsOf(p) \cap wanted, {p}, override)
  /\ \A e \in h.edges : e \in g.edges \/ AnswerEdge(e, x, VersionsOf(p) \cap wanted, {p})

\* One package of an anti-relation, a synchronization or an inverted request.
LEMMA MemberFacts ==
  ASSUME InputsOK, NEW g, IsState(g), RemovableOnly(g), NEW x, NEW p \in Package, NEW wanted,
         NEW o, NotAbsent(x),
         NEW h, h = MemberMade(g, x, p, wanted, o)
  PROVE  MemberAdded(g, h, x, p, wanted, o)
<1> DEFINE T == VersionsOf(p) \cap wanted
<1>1. PICK a : a = WithVertex(g, x)
  OBVIOUS
<1>2. IsState(a) /\ a.seen = g.seen /\ a.vertices = g.vertices \cup {x} /\ a.edges = g.edges
  BY <1>1, WithVertexIs
<1>3. Grew(g, a, o)
  BY <1>2, ExtendedGrew DEF Extends
<1>4. PICK b : b = EdgesToVersions(a, x, world.versions[p], wanted, o)
  OBVIOUS
<1>5. Grew(a, b, o) /\ Answered(b, x, T, o) /\ ToVersionOnly(a, b, x, T)
  <2>1. world.versions[p] \in Seq(Version)
    BY WorldFacts
  <2>2. QED
    BY <1>2, <1>4, <2>1, EdgesToVersionsFacts DEF VersionsOf
<1>6. h = EdgeToAbsent(b, x, p)
  BY <1>1, <1>4 DEF MemberMade
<1>7. IsState(b) /\ RemovableOnly(b)
  BY <1>2, <1>5 DEF Grew, ToVersionOnly, RemovableOnly, NotAbsent
<1>8. /\ Extends(h, b) /\ RemovableOnly(h)
      /\ CanBeRemoved(p) => h.vertices = b.vertices \cup {Absent(p)} /\ h.edges = b.edges \cup {<<x, Absent(p)>>}
      /\ ~CanBeRemoved(p) => h = b
  BY <1>6, <1>7, EdgeToAbsentIs
<1>9. Grew(b, h, o)
  BY <1>8, ExtendedGrew
<1>10. Grew(g, h, o)
  BY <1>3, <1>5, <1>9, GrewOn
<1>11. T \in SUBSET Version
  BY WorldFacts
<1> HIDE DEF T
<1>12. Answered(h, x, T, o)
  BY <1>5, <1>7, <1>9, <1>11, StillAnswered
<1>13. (\A y \in h.vertices : y \in g.vertices \/ y = x \/ y = Absent(p)) /\ x \in h.vertices
  BY <1>2, <1>5, <1>8 DEF ToVersionOnly
<1>14. Filled(h, x, T, {p}, o)
  BY <1>8, <1>12, <1>13 DEF Filled
<1>15. \A e \in h.edges : e \in g.edges \/ AnswerEdge(e, x, T, {p})
  BY <1>2, <1>5, <1>8 DEF ToVersionOnly, AnswerEdge
<1>16. QED
  BY <1>8, <1>10, <1>13, <1>14, <1>15 DEF T, MemberAdded

\* The family of the packages S has been made; at the first level its members
\* are excused.
Made(g, h, name, S, wanted, level, override) ==
  /\ Grew(g, h, override) /\ RemovableOnly(h)
  /\ \A y \in h.vertices : y \in g.vertices \/ \E p \in S : y = name[p] \/ y = Absent(p)
  /\ \A p \in S : Filled(h, name[p], VersionsOf(p) \cap wanted, {p}, override)
  /\ level = 1 => \A p \in S : HasExcuse(h, name[p])
  /\ \A e \in h.edges :
       \/ e \in g.edges
       \/ \E p \in S : AnswerEdge(e, name[p], VersionsOf(p) \cap wanted, {p})
       \/ level = 1 /\ \E p \in S : ExcuseEdge(e, name[p])

LEMMA MadeOfNobody ==
  ASSUME NEW g, IsState(g), RemovableOnly(g), NEW name, NEW wanted, NEW level, NEW o
  PROVE  Made(g, g, name, {}, wanted, level, o)
BY NothingGrew DEF Made

\* The packages are made one after the other.
LEMMA MadeOfOneMore ==
  ASSUME InputsOK, NEW g, NEW h, NEW name, NEW S \in SUBSET Package, NEW wanted, NEW level,
         NEW o, Made(g, h, name, S, wanted, level, o),
         NEW p \in Package, NotAbsent(name[p]),
         NEW k, k = MemberMade(h, name[p], p, wanted, o),
         NEW z, IsUnsatisfied(z),
         NEW l, l = IF level = 1 THEN Edge(k, name[p], z) ELSE k
  PROVE  Made(g, l, name, S \cup {p}, wanted, level, o)
<1> DEFINE T(q) == VersionsOf(q) \cap wanted
<1>0. PICK x : x = name[p]
  OBVIOUS
<1>1. IsState(h) /\ RemovableOnly(h) /\ Grew(g, h, o)
  BY DEF Made, Grew
<1>2. /\ Grew(h, k, o) /\ RemovableOnly(k)
      /\ \A y \in k.vertices : y \in h.vertices \/ y = x \/ y = Absent(p)
      /\ Filled(k, x, T(p), {p}, o)
      /\ \A e \in k.edges : e \in h.edges \/ AnswerEdge(e, x, T(p), {p})
  <2>1. k = MemberMade(h, x, p, wanted, o) /\ NotAbsent(x)
    BY <1>0
  <2>2. MemberAdded(h, k, x, p, wanted, o)
    BY <1>1, <2>1, MemberFacts
  <2>3. QED
    BY <2>2 DEF MemberAdded
<1>3. IsState(k)
  BY <1>2 DEF Grew
<1>4. /\ IsState(l) /\ l.seen = k.seen /\ l.vertices = k.vertices
      /\ level = 1 => l.edges = k.edges \cup {<<x, z>>}
      /\ level # 1 => l.edges = k.edges
  BY <1>0, <1>3, EdgeIs
<1>5. Grew(k, l, o)
  BY <1>4, ExtendedGrew DEF Extends
<1>6. Grew(h, l, o)
  BY <1>2, <1>5, GrewOn
<1>7. Grew(g, l, o)
  BY <1>1, <1>6, GrewOn
<1>8. \A q \in Package : T(q) \in SUBSET Version
  BY WorldFacts
<1>9. \A q \in S : Filled(h, name[q], T(q), {q}, o)
  BY DEF Made
<1> HIDE DEF T
<1>10. ASSUME NEW q \in S \cup {p} PROVE Filled(l, name[q], T(q), {q}, o)
  <2>1. CASE q \in S
    <3>1. q \in Package /\ Filled(h, name[q], T(q), {q}, o)
      BY <1>9, <2>1
    <3>2. QED
      BY <1>1, <1>6, <1>8, <3>1, StillFilled
  <2>2. CASE q = p
    BY <1>0, <1>2, <1>3, <1>5, <1>8, <2>2, StillFilled
  <2>3. QED
    BY <2>1, <2>2
<1>11. ASSUME level = 1, NEW q \in S \cup {p} PROVE HasExcuse(l, name[q])
  <2>1. CASE q \in S
    <3>1. HasExcuse(h, name[q])
      BY <1>11, <2>1 DEF Made
    <3>2. h.edges \subseteq l.edges
      BY <1>6 DEF Grew
    <3>3. QED
      BY <3>1, <3>2, StillExcused
  <2>2. CASE q = p
    BY <1>0, <1>4, <1>11, <2>2 DEF HasExcuse, ExcuseEdge
  <2>3. QED
    BY <2>1, <2>2
<1>12. ASSUME NEW y \in l.vertices PROVE y \in g.vertices \/ \E q \in S \cup {p} : y = name[q] \/ y = Absent(q)
  <2>1. y \in h.vertices \/ y = name[p] \/ y = Absent(p)
    BY <1>0, <1>2, <1>4
  <2>2. y \in h.vertices => y \in g.vertices \/ \E q \in S : y = name[q] \/ y = Absent(q)
    BY DEF Made
  <2>3. QED
    BY <2>1, <2>2
<1>13. ASSUME NEW e \in l.edges
       PROVE  \/ e \in g.edges
              \/ \E q \in S \cup {p} : AnswerEdge(e, name[q], T(q), {q})
              \/ level = 1 /\ \E q \in S \cup {p} : ExcuseEdge(e, name[q])
  <2>1. e \in h.edges \/ AnswerEdge(e, name[p], T(p), {p}) \/ (level = 1 /\ ExcuseEdge(e, name[p]))
    BY <1>0, <1>2, <1>4 DEF ExcuseEdge
  <2>2. e \in h.edges =>
          \/ e \in g.edges
          \/ \E q \in S : AnswerEdge(e, name[q], T(q), {q})
          \/ level = 1 /\ \E q \in S : ExcuseEdge(e, name[q])
    BY DEF Made, T
  <2>3. QED
    BY <2>1, <2>2
<1>14. RemovableOnly(l)
  BY <1>2, <1>4 DEF RemovableOnly
<1>15. QED
  BY <1>7, <1>10, <1>11, <1>12, <1>13, <1>14 DEF Made, T

-----------------------------------------------------------------------------
(* Families of vertices                                                    *)

ExcludeNames(x) == [p \in Package |-> x \o <<p>>]
SyncNames(source) == [p \in Package |-> SyncVertex(source, p)]
NoneAbsent(name) == \A p \in Package : NotAbsent(name[p])

ExcludeRound(par, h, p) == Exclude(h, par.expression, par.vertex, p, par.override)
ExcludeHolds(par, n, h) ==
  Made(par.base, h, ExcludeNames(par.vertex), FirstMembers(par.members, n),
       Version \ Satisfying(par.expression), 0, par.override)
Excluding == INSTANCE Loops WITH Round <- ExcludeRound, Holds <- ExcludeHolds

LEMMA ExcludedIs ==
  ASSUME NEW g, NEW e, NEW x, NEW o, NEW members, members = SetToSeq(HitPackages(e))
  PROVE  Excluded(g, e, x, o) =
           Excluding!Loop([base |-> g, expression |-> e, vertex |-> x, override |-> o, members |-> members],
                          g, members)
BY DEF Excluded, Excluding!Loop, ExcludeRound, FoldLeft, MapThenFoldSet, Max,
       Excluding!MapThenFoldSet, Excluding!Greatest

SyncRound(par, h, p) == Synchronize(h, par.source, p)
SyncHolds(par, n, h) ==
  Made(par.base, h, SyncNames(par.source), FirstMembers(par.members, n),
       SameSource(par.source), options.synchronize, FALSE)
Synchronizing == INSTANCE Loops WITH Round <- SyncRound, Holds <- SyncHolds

SynchronizedAll(g, source) ==
  FoldLeft(LAMBDA h, p : Synchronize(h, source, p), g, SetToSeq(SyncPackages(source)))

LEMMA SynchronizedAllIs ==
  ASSUME NEW g, NEW source, NEW members, members = SetToSeq(SyncPackages(source))
  PROVE  SynchronizedAll(g, source) =
           Synchronizing!Loop([base |-> g, source |-> source, members |-> members], g, members)
BY DEF SynchronizedAll, Synchronizing!Loop, SyncRound, FoldLeft, MapThenFoldSet, Max,
       Synchronizing!MapThenFoldSet, Synchronizing!Greatest

LEMMA MemberOfSet ==
  ASSUME NEW S, NEW s, IsSeq(s), S = FirstMembers(s, Len(s)), DOMAIN s = 1..Len(s), NEW i \in 1..Len(s)
  PROVE  /\ s[i] \in S
         /\ FirstMembers(s, i) = FirstMembers(s, i - 1) \cup {s[i]}
         /\ FirstMembers(s, i - 1) \in SUBSET S
<1>1. Len(s) \in Nat
  BY LenProperties DEF IsSeq
<1>2. FirstMembers(s, i) = FirstMembers(s, i - 1) \cup {s[i]}
  BY MoreMembers
<1>3. QED
  BY <1>1, <1>2 DEF FirstMembers

\* buildEdgesForAntiRelationExpression makes a complete vertex for every package it hits.
LEMMA ExcludedFacts ==
  ASSUME InputsOK, NEW g, IsState(g), RemovableOnly(g), NEW e \in Expression, NEW x, NEW o,
         NoneAbsent(ExcludeNames(x)), NEW h, h = Excluded(g, e, x, o)
  PROVE  Made(g, h, ExcludeNames(x), HitPackages(e), Version \ Satisfying(e), 0, o)
<1>1. PICK s : s = SetToSeq(HitPackages(e))
  OBVIOUS
<1>2. PICK par : par = [base |-> g, expression |-> e, vertex |-> x, override |-> o, members |-> s]
  OBVIOUS
<1>3. PICK name, wanted, level : name = ExcludeNames(x) /\ wanted = Version \ Satisfying(e) /\ level = 0
  OBVIOUS
<1>4. HitPackages(e) \subseteq Package /\ IsFiniteSet(HitPackages(e))
  BY WorldFacts
<1>5. IsSeq(s) /\ Len(s) \in Nat /\ DOMAIN s = 1..Len(s) /\ HitPackages(e) = FirstMembers(s, Len(s))
  BY <1>1, <1>4, SetAsSeq
<1>6. \A n, z : ExcludeHolds(par, n, z) <=> Made(g, z, name, FirstMembers(s, n), wanted, level, o)
  BY <1>2, <1>3 DEF ExcludeHolds
<1>7. ExcludeHolds(par, 0, g)
  <2>1. Made(g, g, name, {}, wanted, level, o)
    BY MadeOfNobody
  <2>2. QED
    BY <1>6, <2>1, NoMembers
<1>8. ASSUME NEW i \in 1..Len(s), NEW z, ExcludeHolds(par, i - 1, z)
      PROVE  ExcludeHolds(par, i, ExcludeRound(par, z, s[i]))
  <2>1. PICK p, S : p = s[i] /\ S = FirstMembers(s, i - 1)
    OBVIOUS
  <2>2. p \in Package /\ S \in SUBSET Package /\ FirstMembers(s, i) = S \cup {p}
    BY <1>4, <1>5, <2>1, MemberOfSet
  <2>3. Made(g, z, name, S, wanted, level, o)
    BY <1>6, <1>8, <2>1
  <2>4. name[p] = x \o <<p>> /\ NotAbsent(name[p])
    BY <1>3, <2>2 DEF ExcludeNames, NoneAbsent
  <2>5. PICK k : k = MemberMade(z, name[p], p, wanted, o)
    OBVIOUS
  <2>6. ExcludeRound(par, z, p) = k
    BY <1>2, <1>3, <2>4, <2>5 DEF ExcludeRound, Exclude, MemberMade
  <2>7. PICK excuse : IsUnsatisfied(excuse)
    BY Names
  <2>8. PICK l : l = IF level = 1 THEN Edge(k, name[p], excuse) ELSE k
    OBVIOUS
  <2>9. l = k
    BY <1>3, <2>8
  <2>10. Made(g, l, name, S \cup {p}, wanted, level, o)
    BY <2>2, <2>3, <2>4, <2>5, <2>7, <2>8, MadeOfOneMore
  <2>11. QED
    BY <1>6, <2>1, <2>2, <2>6, <2>9, <2>10
<1>9. ExcludeHolds(par, Len(s), Excluding!Loop(par, g, s))
  <2>1. Excluding!IsSeq(s)
    BY <1>5 DEF IsSeq, Excluding!IsSeq
  <2>2. QED
    BY <1>7, <1>8, <2>1, Excluding!LoopInduction
<1>10. h = Excluding!Loop(par, g, s)
  BY <1>1, <1>2, ExcludedIs
<1>11. QED
  BY <1>3, <1>5, <1>6, <1>9, <1>10

\* So does processSynchronizations.
LEMMA SynchronizedFacts ==
  ASSUME InputsOK, NEW g, IsState(g), RemovableOnly(g), NEW source, NEW h, h = SynchronizedAll(g, source)
  PROVE  Made(g, h, SyncNames(source), SyncPackages(source), SameSource(source), options.synchronize, FALSE)
<1>1. PICK s : s = SetToSeq(SyncPackages(source))
  OBVIOUS
<1>2. PICK par : par = [base |-> g, source |-> source, members |-> s]
  OBVIOUS
<1>3. PICK name, wanted, level : name = SyncNames(source) /\ wanted = SameSource(source) /\ level = options.synchronize
  OBVIOUS
<1>4. SyncPackages(source) \subseteq Package /\ IsFiniteSet(SyncPackages(source))
  BY WorldFacts
<1>5. IsSeq(s) /\ Len(s) \in Nat /\ DOMAIN s = 1..Len(s) /\ SyncPackages(source) = FirstMembers(s, Len(s))
  BY <1>1, <1>4, SetAsSeq
<1>6. \A n, z : SyncHolds(par, n, z) <=> Made(g, z, name, FirstMembers(s, n), wanted, level, FALSE)
  BY <1>2, <1>3 DEF SyncHolds
<1>7. SyncHolds(par, 0, g)
  <2>1. Made(g, g, name, {}, wanted, level, FALSE)
    BY MadeOfNobody
  <2>2. QED
    BY <1>6, <2>1, NoMembers
<1>8. ASSUME NEW i \in 1..Len(s), NEW z, SyncHolds(par, i - 1, z)
      PROVE  SyncHolds(par, i, SyncRound(par, z, s[i]))
  <2>1. PICK p, S : p = s[i] /\ S = FirstMembers(s, i - 1)
    OBVIOUS
  <2>2. p \in Package /\ S \in SUBSET Package /\ FirstMembers(s, i) = S \cup {p}
    BY <1>4, <1>5, <2>1, MemberOfSet
  <2>3. Made(g, z, name, S, wanted, level, FALSE)
    BY <1>6, <1>8, <2>1
  <2>4. name[p] = SyncVertex(source, p) /\ NotAbsent(name[p])
    BY <1>3, <2>2 DEF SyncNames, NotAbsent, SyncVertex, Absent
  <2>5. PICK k : k = MemberMade(z, name[p], p, wanted, FALSE)
    OBVIOUS
  <2>6. PICK excuse : excuse = Unsatisfied(name[p])
    OBVIOUS
  <2>7. IsUnsatisfied(excuse)
    BY <2>4, <2>6, Names
  <2>8. PICK l : l = IF level = 1 THEN Edge(k, name[p], excuse) ELSE k
    OBVIOUS
  <2>9. SyncRound(par, z, p) = l
    BY <1>2, <1>3, <2>4, <2>5, <2>6, <2>8 DEF SyncRound, Synchronize, MemberMade
  <2>10. Made(g, l, name, S \cup {p}, wanted, level, FALSE)
    BY <2>2, <2>3, <2>4, <2>5, <2>7, <2>8, MadeOfOneMore
  <2>11. QED
    BY <1>6, <2>1, <2>2, <2>9, <2>10
<1>9. SyncHolds(par, Len(s), Synchronizing!Loop(par, g, s))
  <2>1. Synchronizing!IsSeq(s)
    BY <1>5 DEF IsSeq, Synchronizing!IsSeq
  <2>2. QED
    BY <1>7, <1>8, <2>1, Synchronizing!LoopInduction
<1>10. h = Synchronizing!Loop(par, g, s)
  BY <1>1, <1>2, SynchronizedAllIs
<1>11. QED
  BY <1>3, <1>5, <1>6, <1>9, <1>10

-----------------------------------------------------------------------------
(* What every vertex and every edge is for                                 *)

\* A vertex is answered by versions and packages that are there.
LEMMA MeansVersions ==
  ASSUME InputsOK, NEW x, NEW T, NEW P, Means(x, T, P)
  PROVE  T \in SUBSET Version /\ P \in SUBSET Package
<1>1. \A p \in Package : VersionsOf(p) \subseteq Version
  BY WorldFacts
<1>2. \A e \in Expression : Satisfying(e) \subseteq Version /\ HitPackages(e) \subseteq Package
  BY WorldFacts
<1>3. \A source : SyncPackages(source) \subseteq Package
  BY WorldFacts
<1>4. \A i \in DOMAIN requests : requests[i].expression \in Expression
  BY DEF InputsOK, Expression
<1>5. QED
  BY <1>1, <1>2, <1>3, <1>4 DEF Means

\* An absent package asks for nothing.
LEMMA AbsentMeansNothing ==
  ASSUME NEW p
  PROVE  /\ \A T, P : ~Means(Absent(p), T, P)
         /\ ~IsSoft(Absent(p))
BY DEF Means, IsSoft, RequestName, Absent, RelationVertex, SyncVertex

LEMMA SoftFacts ==
  /\ \A type \in RelationType : \A e : IsSoft(RelationVertex(type, e)) <=> type \in Soft
  /\ \A type, e, p : ~IsSoft(<<"anti", type, e, p>>)
  /\ \A source, p : IsSoft(SyncVertex(source, p)) <=> options.synchronize = 1
  /\ \A i \in DOMAIN requests : \A x : RequestName(i, x) => (IsSoft(x) <=> ~requests[i].must)
<1>1. \A type \in RelationType : \A e : IsSoft(RelationVertex(type, e)) <=> type \in Soft
  BY DEF IsSoft, RequestName, RelationVertex
<1>2. \A type, e, p : ~IsSoft(<<"anti", type, e, p>>)
  BY DEF IsSoft, RequestName, RelationVertex
<1>3. \A source, p : IsSoft(SyncVertex(source, p)) <=> options.synchronize = 1
  BY DEF IsSoft, RequestName, RelationVertex, SyncVertex
<1>4. \A i \in DOMAIN requests : \A x : RequestName(i, x) => (IsSoft(x) <=> ~requests[i].must)
  BY DEF IsSoft, RequestName, RelationVertex
<1>5. QED
  BY <1>1, <1>2, <1>3, <1>4

\* A vertex has all the successors which it should have.
Complete(h, x, override) ==
  /\ \A T, P : Means(x, T, P) => Filled(h, x, T, P, override)
  /\ IsSoft(x) => HasExcuse(h, x)

\* A complete vertex stays complete.
LEMMA StillComplete ==
  ASSUME InputsOK, NEW g, NEW h, IsState(g), NEW x, NEW o, Complete(g, x, o), Grew(g, h, o)
  PROVE  Complete(h, x, o)
<1>1. ASSUME NEW T, NEW P, Means(x, T, P) PROVE Filled(h, x, T, P, o)
  <2>1. T \in SUBSET Version
    BY <1>1, MeansVersions
  <2>2. Filled(g, x, T, P, o)
    BY <1>1 DEF Complete
  <2>3. QED
    BY <2>1, <2>2, StillFilled
<1>2. g.edges \subseteq h.edges
  BY DEF Grew
<1>3. IsSoft(x) => HasExcuse(h, x)
  BY <1>2, StillExcused DEF Complete
<1>4. QED
  BY <1>1, <1>3 DEF Complete

LEMMA AbsentIsComplete ==
  ASSUME NEW h, NEW p, NEW o
  PROVE  Complete(h, Absent(p), o)
BY AbsentMeansNothing DEF Complete

\* What a version wants.
WantsBy(v, type, e, y) ==
  \/ /\ type \notin Anti /\ ~(type \in Soft /\ SoftIgnored(v, type, e))
     /\ y = RelationVertex(type, e)
  \/ /\ type \in Anti
     /\ \E p \in HitPackages(e) \ {PackageOf(v)} : y = <<"anti", type, e, p>>
WantsSync(v, y) ==
  /\ options.synchronize > 0 /\ v \notin world.installed
  /\ \E p \in SyncPackages(world.source[v]) \ {PackageOf(v)} : y = SyncVertex(world.source[v], p)
Wants(v, y) ==
  \/ \E type \in Range(DependencyGroups) : \E e \in Range(world.relations[v][type]) : WantsBy(v, type, e, y)
  \/ WantsSync(v, y)

LegitEdge(e) ==
  \/ \E v \in Version : \E y : Wants(v, y) /\ e = <<VersionVertex(v), y>>
  \/ \E i \in DOMAIN requests : \E y : RequestName(i, y) /\ e = <<User, y>>
  \/ \E x, T, P : Means(x, T, P) /\ (AnswerEdge(e, x, T, P) \/ (IsSoft(x) /\ ExcuseEdge(e, x)))

\* The vertices of a family come together.
Siblings(h) ==
  /\ \A type \in Anti : \A e \in Expression : \A p, q \in HitPackages(e) :
       <<"anti", type, e, p>> \in h.vertices => <<"anti", type, e, q>> \in h.vertices
  /\ \A v \in Version : \A p, q \in SyncPackages(world.source[v]) :
       SyncVertex(world.source[v], p) \in h.vertices => SyncVertex(world.source[v], q) \in h.vertices

Sound(h, override) ==
  /\ IsState(h) /\ RemovableOnly(h)
  /\ \A x \in h.vertices : Complete(h, x, override)
  /\ \A e \in h.edges : LegitEdge(e)
  /\ Siblings(h)

OfNoFamily(x) == x[1] \notin {"anti", "sync"}

\* Nothing was added but complete vertices, absent packages and legitimate edges.
AddedSoundly(g, h, override) ==
  /\ Grew(g, h, override) /\ RemovableOnly(h)
  /\ \A x \in h.vertices : x \in g.vertices \/ Complete(h, x, override) \/ \E p : x = Absent(p)
  /\ \A e \in h.edges : e \in g.edges \/ LegitEdge(e)

\* What is added soundly keeps a graph sound.
LEMMA StillSound ==
  ASSUME InputsOK, NEW g, NEW h, NEW o, Sound(g, o), AddedSoundly(g, h, o), Siblings(h)
  PROVE  Sound(h, o)
<1>1. IsState(g) /\ Grew(g, h, o)
  BY DEF Sound, AddedSoundly
<1>2. ASSUME NEW x \in h.vertices PROVE Complete(h, x, o)
  <2>1. CASE x \in g.vertices
    <3>1. Complete(g, x, o)
      BY <2>1 DEF Sound
    <3>2. QED
      BY <1>1, <3>1, StillComplete
  <2>2. CASE Complete(h, x, o)
    BY <2>2
  <2>3. CASE \E p : x = Absent(p)
    BY <2>3, AbsentIsComplete
  <2>4. QED
    BY <2>1, <2>2, <2>3 DEF AddedSoundly
<1>3. \A e \in h.edges : LegitEdge(e)
  BY DEF AddedSoundly, Sound
<1>4. QED
  BY <1>1, <1>2, <1>3 DEF Sound, Grew, AddedSoundly

LEMMA StillSiblings ==
  ASSUME NEW g, NEW h, Siblings(g), g.vertices \subseteq h.vertices,
         \A x \in h.vertices : x \in g.vertices \/ OfNoFamily(x)
  PROVE  Siblings(h)
<1>1. \A type, e, p : ~OfNoFamily(<<"anti", type, e, p>>)
  BY DEF OfNoFamily
<1>2. \A source, p : ~OfNoFamily(SyncVertex(source, p))
  BY DEF OfNoFamily, SyncVertex
<1>3. QED
  BY <1>1, <1>2 DEF Siblings

-----------------------------------------------------------------------------
(* Relations of a version                                                  *)

Follows(g, h) == Sound(h, FALSE) /\ Grew(g, h, FALSE)

LEMMA FollowsOn ==
  ASSUME NEW f, NEW g, NEW h, Follows(f, g), Follows(g, h)
  PROVE  Follows(f, h)
BY GrewOn DEF Follows

Linked(h, v, y) == y \in h.vertices /\ <<VersionVertex(v), y>> \in h.edges
LinkedBy(h, v, type, e) == \A y : WantsBy(v, type, e, y) => Linked(h, v, y)
LinkedSync(h, v) == \A y : WantsSync(v, y) => Linked(h, v, y)

LEMMA Joined ==
  ASSUME NEW S, NEW s \in Seq(S), NEW r \in Seq(S), NEW j, j = s \o r
  PROVE  j \in Seq(S) /\ Len(j) = Len(s) + Len(r) /\ \A i \in 1..Len(s) : j[i] = s[i]
<1>1. j \in Seq(S) /\ Len(j) = Len(s) + Len(r)
  BY ConcatProperties
<1>2. Len(s) \in Nat /\ Len(r) \in Nat
  BY LenProperties
<1>3. \A i \in 1..Len(s) : j[i] = s[i]
  BY <1>1, <1>2, ConcatProperties
<1>4. QED
  BY <1>1, <1>3

\* __get_dependency_groups always looks at what must be met and at what must not.
LEMMA GroupFacts ==
  /\ DependencyGroups \in Seq(RelationType)
  /\ \A type \in {"PreDepends", "Depends", "Conflicts", "Breaks"} : type \in Range(DependencyGroups)
<1> DEFINE s == <<"PreDepends", "Depends", "Conflicts", "Breaks">>
           r == IF options.keepRecommends THEN <<"Recommends">> ELSE <<>>
           t == IF options.keepSuggests THEN <<"Suggests">> ELSE <<>>
<1>1. s \in Seq(RelationType) /\ Len(s) = 4 /\ DOMAIN s = 1..4
      /\ s[1] = "PreDepends" /\ s[2] = "Depends" /\ s[3] = "Conflicts" /\ s[4] = "Breaks"
  BY DEF RelationType, Strong, Soft
<1>2. r \in Seq(RelationType) /\ t \in Seq(RelationType)
  <2>1. <<>> \in Seq(RelationType) /\ <<"Recommends">> \in Seq(RelationType) /\ <<"Suggests">> \in Seq(RelationType)
    BY DEF RelationType, Strong, Soft
  <2>2. QED
    BY <2>1
<1> HIDE DEF s, r, t
<1>3. PICK a : a = s \o r
  OBVIOUS
<1>4. a \in Seq(RelationType) /\ Len(a) >= 4 /\ Len(a) \in Nat /\ \A i \in 1..4 : a[i] = s[i]
  <2>0. s \in Seq(RelationType) /\ r \in Seq(RelationType)
    BY <1>1, <1>2
  <2>1. a \in Seq(RelationType) /\ Len(a) = Len(s) + Len(r) /\ \A i \in 1..Len(s) : a[i] = s[i]
    BY <1>3, <2>0, Joined
  <2>2. Len(r) \in Nat
    BY <1>2, LenProperties
  <2>3. QED
    BY <1>1, <2>1, <2>2
<1>5. PICK b : b = a \o t
  OBVIOUS
<1>6. b \in Seq(RelationType) /\ Len(b) >= 4 /\ Len(b) \in Nat /\ \A i \in 1..4 : b[i] = s[i]
  <2>1. b \in Seq(RelationType) /\ Len(b) = Len(a) + Len(t) /\ \A i \in 1..Len(a) : b[i] = a[i]
    BY <1>2, <1>4, <1>5, Joined
  <2>2. Len(t) \in Nat
    BY <1>2, LenProperties
  <2>3. QED
    BY <1>4, <2>1, <2>2
<1>7. DependencyGroups = b
  BY <1>3, <1>5 DEF DependencyGroups, s, r, t
<1>8. \A i \in 1..4 : i \in DOMAIN b
  BY <1>6, LenProperties
<1>9. \A i \in 1..4 : s[i] \in Range(b)
  BY <1>6, <1>8 DEF Range
<1>10. QED
  BY <1>1, <1>6, <1>7, <1>9

LEMMA RelationFacts ==
  ASSUME InputsOK, NEW v \in Version, NEW type \in RelationType, NEW e \in Range(world.relations[v][type])
  PROVE  e \in Expression
<1>1. world.relations[v][type] \in Seq(Expression)
  BY WorldFacts
<1>2. QED
  BY <1>1, SeqIsSeq

\* processForwardRelation: whether the vertex is new or was made for another version.
LEMMA ForwardFacts ==
  ASSUME InputsOK, NEW v \in Version, NEW type \in Range(DependencyGroups), type \in RelationType \ Anti,
         NEW e \in Range(world.relations[v][type]),
         NEW g, Sound(g, FALSE), NEW h, h = ForwardRelation(g, v, type, e)
  PROVE  Follows(g, h) /\ LinkedBy(h, v, type, e)
<1> DEFINE x == RelationVertex(type, e)
           T == Satisfying(e)
<1>0. IsState(g) /\ RemovableOnly(g) /\ Siblings(g)
  BY DEF Sound
<1>1. CASE type \in Soft /\ SoftIgnored(v, type, e)
  <2>1. h = g
    BY <1>1 DEF ForwardRelation
  <2>2. Grew(g, g, FALSE)
    BY <1>0, NothingGrew
  <2>3. QED
    BY <1>1, <2>1, <2>2 DEF Follows, LinkedBy, WantsBy
<1>2. CASE ~(type \in Soft /\ SoftIgnored(v, type, e))
  <2>1. WantsBy(v, type, e, x) /\ \A y : WantsBy(v, type, e, y) => y = x
    BY <1>2 DEF WantsBy
  <2>2. Wants(v, x)
    BY <2>1 DEF Wants
  <2>3. PICK a : a = WithVertex(g, x)
    OBVIOUS
  <2>4. IsState(a) /\ a.seen = g.seen /\ a.vertices = g.vertices \cup {x} /\ a.edges = g.edges
    BY <1>0, <2>3, WithVertexIs
  <2>5. PICK b : b = Edge(a, VersionVertex(v), x)
    OBVIOUS
  <2>6. IsState(b) /\ b.seen = a.seen /\ b.vertices = a.vertices /\ b.edges = a.edges \cup {<<VersionVertex(v), x>>}
    BY <2>4, <2>5, EdgeIs
  <2>7. Grew(g, b, FALSE)
    BY <2>4, <2>6, ExtendedGrew DEF Extends
  <2>8. OfNoFamily(x) /\ NotAbsent(x)
    BY DEF OfNoFamily, NotAbsent, RelationVertex, Absent
  <2>9. RemovableOnly(b)
    BY <1>0, <2>4, <2>6, <2>8 DEF RemovableOnly, NotAbsent
  <2>10. \A d \in b.edges : d \in g.edges \/ LegitEdge(d)
    BY <2>2, <2>4, <2>6 DEF LegitEdge
  <2>11. Linked(b, v, x)
    BY <2>4, <2>6 DEF Linked
  <2>12. CASE x \in g.vertices
    <3>1. h = b
      BY <1>2, <2>3, <2>5, <2>12 DEF ForwardRelation
    <3>2. AddedSoundly(g, b, FALSE)
      BY <2>4, <2>6, <2>7, <2>9, <2>10, <2>12 DEF AddedSoundly
    <3>3. Siblings(b)
      BY <1>0, <2>4, <2>6, <2>8, StillSiblings
    <3>4. Sound(b, FALSE)
      BY <3>2, <3>3, StillSound
    <3>5. QED
      BY <2>1, <2>7, <2>11, <3>1, <3>4 DEF Follows, LinkedBy
  <2>13. CASE x \notin g.vertices
    <3>1. PICK c : c = EdgesToVersions(b, x, world.satisfying[e], Version, FALSE)
      OBVIOUS
    <3>2. e \in Expression
      BY RelationFacts
    <3>3. world.satisfying[e] \in Seq(Version) /\ T \in SUBSET Version /\ T = Range(world.satisfying[e]) \cap Version
      BY <3>2, WorldFacts DEF Satisfying
    <3>4. Grew(b, c, FALSE) /\ Answered(c, x, T, FALSE) /\ ToVersionOnly(b, c, x, T)
      <4>1. PICK list : list = world.satisfying[e]
        OBVIOUS
      <4>2. list \in Seq(Version) /\ T = Range(list) \cap Version /\ c = EdgesToVersions(b, x, list, Version, FALSE)
        BY <3>1, <3>3, <4>1
      <4> HIDE DEF T, x
      <4>3. /\ Grew(b, c, FALSE)
            /\ Answered(c, x, Range(list) \cap Version, FALSE)
            /\ ToVersionOnly(b, c, x, Range(list) \cap Version)
        BY <2>6, <4>2, EdgesToVersionsFacts
      <4>4. QED
        BY <4>2, <4>3
    <3>5. IsState(c)
      BY <3>4 DEF Grew
    <3>6. PICK excuse : excuse = Unsatisfied(x)
      OBVIOUS
    <3>7. IsUnsatisfied(excuse)
      BY <3>6, Names
    <3>8. h = IF type \in Soft THEN Edge(c, x, excuse) ELSE c
      BY <1>2, <2>3, <2>5, <2>13, <3>1, <3>6 DEF ForwardRelation
    <3>9. /\ IsState(h) /\ h.seen = c.seen /\ h.vertices = c.vertices
          /\ type \in Soft => h.edges = c.edges \cup {<<x, excuse>>}
          /\ type \notin Soft => h.edges = c.edges
      BY <3>5, <3>8, EdgeIs
    <3>10. Grew(c, h, FALSE)
      BY <3>9, ExtendedGrew DEF Extends
    <3>11. Grew(b, h, FALSE)
      BY <3>4, <3>10, GrewOn
    <3>12. Grew(g, h, FALSE)
      BY <2>7, <3>11, GrewOn
    <3>13. Answered(h, x, T, FALSE)
      BY <3>3, <3>4, <3>5, <3>10, StillAnswered
    <3>14. h.vertices = g.vertices \cup {x}
      BY <2>4, <2>6, <3>4, <3>9 DEF ToVersionOnly
    <3>15. \A S, P : Means(x, S, P) <=> S = T /\ P = {}
      BY <3>2, RelationMeans
    <3>16. IsSoft(x) <=> type \in Soft
      BY SoftFacts
    <3>17. Complete(h, x, FALSE)
      <4>1. \A S, P : Means(x, S, P) => Filled(h, x, S, P, FALSE)
        BY <3>13, <3>14, <3>15 DEF Filled
      <4>2. type \in Soft => HasExcuse(h, x)
        BY <3>7, <3>9 DEF HasExcuse, ExcuseEdge
      <4>3. QED
        BY <3>16, <4>1, <4>2 DEF Complete
    <3>18. ASSUME NEW d \in h.edges PROVE d \in g.edges \/ LegitEdge(d)
      <4>1. \/ d \in b.edges
            \/ AnswerEdge(d, x, T, {})
            \/ type \in Soft /\ ExcuseEdge(d, x)
        BY <3>4, <3>7, <3>9 DEF ToVersionOnly, AnswerEdge, ExcuseEdge
      <4>2. Means(x, T, {})
        BY <3>15
      <4>3. QED
        BY <2>10, <3>16, <4>1, <4>2 DEF LegitEdge
    <3>19. RemovableOnly(h)
      BY <1>0, <2>8, <3>14 DEF RemovableOnly, NotAbsent
    <3>20. AddedSoundly(g, h, FALSE)
      BY <3>12, <3>14, <3>17, <3>18, <3>19 DEF AddedSoundly
    <3>21. Siblings(h)
      BY <1>0, <2>8, <3>14, StillSiblings
    <3>22. Sound(h, FALSE)
      BY <3>20, <3>21, StillSound
    <3>23. Linked(h, v, x)
      BY <2>11, <3>11 DEF Linked, Grew
    <3>24. QED
      BY <2>1, <3>12, <3>22, <3>23 DEF Follows, LinkedBy
  <2>14. QED
    BY <2>12, <2>13
<1>3. QED
  BY <1>1, <1>2

\* processAntiRelation: the vertices of an expression are made all at once or found all there.
LEMMA AntiFacts ==
  ASSUME InputsOK, NEW v \in Version, NEW type \in Range(DependencyGroups), type \in Anti,
         NEW e \in Range(world.relations[v][type]),
         NEW g, Sound(g, FALSE), NEW h, h = AntiRelation(g, v, type, e)
  PROVE  Follows(g, h) /\ LinkedBy(h, v, type, e)
<1> DEFINE N(p) == <<"anti", type, e, p>>
           S == HitPackages(e)
           T(p) == VersionsOf(p) \ Satisfying(e)
           isNew == \A p \in S : AntiVertex(type, e) \o <<p>> \notin g.vertices
           mine == {<<VersionVertex(v), AntiVertex(type, e) \o <<p>>>> : p \in S \ {PackageOf(v)}}
<1>0. IsState(g) /\ RemovableOnly(g) /\ Siblings(g)
  BY DEF Sound
<1>1. e \in Expression
  <2>1. type \in RelationType
    BY DEF Anti, RelationType, Strong
  <2>2. QED
    BY <2>1, RelationFacts
<1>2. \A p : AntiVertex(type, e) \o <<p>> = N(p)
  BY Names
<1>3. S \subseteq Package
  BY <1>1, WorldFacts
<1>4. PICK b : b = IF isNew THEN Excluded(g, e, AntiVertex(type, e), FALSE) ELSE g
  OBVIOUS
<1>5. h = [b EXCEPT !.edges = @ \cup mine]
  BY <1>4 DEF AntiRelation
<1>6. \A p \in S : Means(N(p), T(p), {p}) /\ \A U, P : Means(N(p), U, P) => U = T(p) /\ P = {p}
  BY <1>1, AntiMeans
<1>7. Sound(b, FALSE) /\ Grew(g, b, FALSE) /\ \A p \in S : N(p) \in b.vertices
  <2>1. CASE ~isNew
    <3>1. b = g
      BY <1>4, <2>1
    <3>2. PICK p \in S : N(p) \in g.vertices
      BY <1>2, <2>1
    <3>3. \A q \in S : N(q) \in g.vertices
      BY <1>0, <1>1, <3>2 DEF Siblings
    <3>4. QED
      BY <1>0, <3>1, <3>3, NothingGrew
  <2>2. CASE isNew
    <3>1. PICK name, wanted : name = ExcludeNames(AntiVertex(type, e)) /\ wanted = Version \ Satisfying(e)
      OBVIOUS
    <3>2. \A p \in Package : name[p] = N(p)
      BY <1>2, <3>1 DEF ExcludeNames
    <3>3. NoneAbsent(name)
      BY <3>2 DEF NoneAbsent, NotAbsent, Absent
    <3>4. \A p \in Package : VersionsOf(p) \cap wanted = T(p)
      BY <3>1, WorldFacts
    <3>5. b = Excluded(g, e, AntiVertex(type, e), FALSE)
      BY <1>4, <2>2
    <3>6. Made(g, b, name, S, wanted, 0, FALSE)
      BY <1>0, <1>1, <3>1, <3>3, <3>5, ExcludedFacts
    <3> HIDE DEF T, N
    <3>7. \A p \in S : name[p] = N(p) /\ VersionsOf(p) \cap wanted = T(p)
      BY <1>3, <3>2, <3>4
    <3>8. /\ Grew(g, b, FALSE) /\ RemovableOnly(b)
          /\ \A y \in b.vertices : y \in g.vertices \/ \E p \in S : y = N(p) \/ y = Absent(p)
          /\ \A p \in S : Filled(b, N(p), T(p), {p}, FALSE)
          /\ \A d \in b.edges : d \in g.edges \/ \E p \in S : AnswerEdge(d, N(p), T(p), {p})
      <4>1. Grew(g, b, FALSE) /\ RemovableOnly(b)
        BY <3>6 DEF Made
      <4>2. \A y \in b.vertices : y \in g.vertices \/ \E p \in S : y = N(p) \/ y = Absent(p)
        BY <3>6, <3>7 DEF Made
      <4>3. \A p \in S : Filled(b, name[p], VersionsOf(p) \cap wanted, {p}, FALSE)
        BY <3>6 DEF Made
      <4>4. \A d \in b.edges : d \in g.edges \/ \E p \in S : AnswerEdge(d, name[p], VersionsOf(p) \cap wanted, {p})
        <5>1. PICK level : level = 0
          OBVIOUS
        <5>2. Made(g, b, name, S, wanted, level, FALSE)
          BY <3>6, <5>1
        <5>3. level # 1
          BY <5>1
        <5>4. QED
          BY <5>2, <5>3 DEF Made
      <4>5. QED
        BY <3>7, <4>1, <4>2, <4>3, <4>4
    <3>9. ASSUME NEW p \in S PROVE Complete(b, N(p), FALSE)
      <4>1. ~IsSoft(N(p))
        BY SoftFacts DEF N
      <4>2. QED
        BY <1>6, <3>8, <4>1 DEF Complete
    <3>10. \A y \in b.vertices : y \in g.vertices \/ Complete(b, y, FALSE) \/ \E p : y = Absent(p)
      BY <3>8, <3>9
    <3>11. \A d \in b.edges : d \in g.edges \/ LegitEdge(d)
      BY <1>6, <3>8 DEF LegitEdge
    <3>12. AddedSoundly(g, b, FALSE)
      BY <3>8, <3>10, <3>11 DEF AddedSoundly
    <3>13. \A p \in S : N(p) \in b.vertices
      BY <3>8 DEF Filled
    <3>14. Siblings(b)
      <4>1. ASSUME NEW k \in Anti, NEW f \in Expression, NEW p \in HitPackages(f), NEW q \in HitPackages(f),
                   <<"anti", k, f, p>> \in b.vertices
            PROVE  <<"anti", k, f, q>> \in b.vertices
        <5>1. CASE <<"anti", k, f, p>> \in g.vertices
          BY <1>0, <3>8, <5>1 DEF Siblings, Grew
        <5>2. CASE \E r \in S : <<"anti", k, f, p>> = N(r)
          <6>1. k = type /\ f = e
            BY <5>2 DEF N
          <6>2. QED
            BY <3>13, <6>1 DEF N
        <5>3. \A r : <<"anti", k, f, p>> # Absent(r)
          BY DEF Absent
        <5>4. QED
          BY <3>8, <4>1, <5>1, <5>2, <5>3
      <4>2. ASSUME NEW w \in Version, NEW p \in SyncPackages(world.source[w]), NEW q \in SyncPackages(world.source[w]),
                   SyncVertex(world.source[w], p) \in b.vertices
            PROVE  SyncVertex(world.source[w], q) \in b.vertices
        <5>1. \A r : SyncVertex(world.source[w], p) # N(r) /\ SyncVertex(world.source[w], p) # Absent(r)
          BY DEF SyncVertex, N, Absent
        <5>2. SyncVertex(world.source[w], p) \in g.vertices
          BY <3>8, <4>2, <5>1
        <5>3. QED
          BY <1>0, <3>8, <5>2 DEF Siblings, Grew
      <4>3. QED
        BY <4>1, <4>2 DEF Siblings
    <3>15. QED
      BY <3>8, <3>12, <3>13, <3>14, StillSound
  <2>3. QED
    BY <2>1, <2>2
<1>8. IsState(b) /\ Siblings(b) /\ RemovableOnly(b)
  BY <1>7 DEF Sound
<1>9. IsState(h) /\ h.seen = b.seen /\ h.vertices = b.vertices /\ h.edges = b.edges \cup mine
  BY <1>5, <1>8 DEF IsState
<1>10. \A y : WantsBy(v, type, e, y) <=> \E p \in S \ {PackageOf(v)} : y = N(p)
  BY DEF WantsBy
<1>11. \A d \in mine : \E p \in S \ {PackageOf(v)} : d = <<VersionVertex(v), N(p)>>
  BY <1>2
<1>12. \A p \in S \ {PackageOf(v)} : <<VersionVertex(v), N(p)>> \in mine
  BY <1>2
<1> HIDE DEF mine, isNew, N, T
<1>13. Grew(b, h, FALSE)
  BY <1>9, ExtendedGrew DEF Extends
<1>14. \A d \in h.edges : d \in b.edges \/ LegitEdge(d)
  <2>1. \A p \in S \ {PackageOf(v)} : Wants(v, N(p))
    BY <1>10 DEF Wants
  <2>2. QED
    BY <1>9, <1>11, <2>1 DEF LegitEdge
<1>15. AddedSoundly(b, h, FALSE)
  BY <1>8, <1>9, <1>13, <1>14 DEF AddedSoundly, RemovableOnly
<1>16. Siblings(h)
  BY <1>8, <1>9 DEF Siblings
<1>17. Sound(h, FALSE)
  BY <1>7, <1>15, <1>16, StillSound
<1>18. Grew(g, h, FALSE)
  BY <1>7, <1>13, GrewOn
<1>19. \A y : WantsBy(v, type, e, y) => Linked(h, v, y)
  BY <1>7, <1>9, <1>10, <1>12 DEF Linked
<1>20. QED
  BY <1>17, <1>18, <1>19 DEF Follows, LinkedBy

LEMMA SameSyncVertex ==
  ASSUME InputsOK, NEW v \in Version, NEW w \in Version, NEW p, NEW q,
         SyncVertex(world.source[w], p) = SyncVertex(world.source[v], q)
  PROVE  world.source[w] = world.source[v]
<1>1. world.source[w][1] = world.source[v][1] /\ world.source[w][2] = world.source[v][2]
  BY DEF SyncVertex
<1>2. QED
  BY <1>1, WorldFacts

\* processSynchronizations, in the same way.
LEMMA SyncFacts ==
  ASSUME InputsOK, NEW v \in Version, options.synchronize > 0, v \notin world.installed,
         NEW g, Sound(g, FALSE), NEW h, h = Synchronizations(g, v)
  PROVE  Follows(g, h) /\ LinkedSync(h, v)
<1> DEFINE source == world.source[v]
           N(p) == SyncVertex(source, p)
           S == SyncPackages(source)
           T(p) == VersionsOf(p) \cap SameSource(source)
           isNew == \A p \in S : N(p) \notin g.vertices
           mine == {<<VersionVertex(v), N(p)>> : p \in S \ {PackageOf(v)}}
<1>0. IsState(g) /\ RemovableOnly(g) /\ Siblings(g)
  BY DEF Sound
<1>3. S \subseteq Package
  BY WorldFacts
<1>4. PICK b : b = IF isNew THEN SynchronizedAll(g, source) ELSE g
  OBVIOUS
<1>5. h = [b EXCEPT !.edges = @ \cup mine]
  BY <1>4 DEF Synchronizations, SynchronizedAll
<1>6. \A p \in S : Means(N(p), T(p), {p}) /\ \A U, P : Means(N(p), U, P) => U = T(p) /\ P = {p}
  BY SyncMeans
<1>7. Sound(b, FALSE) /\ Grew(g, b, FALSE) /\ \A p \in S : N(p) \in b.vertices
  <2>1. CASE ~isNew
    <3>1. b = g
      BY <1>4, <2>1
    <3>2. PICK p \in S : N(p) \in g.vertices
      BY <2>1
    <3>3. \A q \in S : N(q) \in g.vertices
      BY <1>0, <3>2 DEF Siblings
    <3>4. QED
      BY <1>0, <3>1, <3>3, NothingGrew
  <2>2. CASE isNew
    <3>1. PICK name, wanted, level : name = SyncNames(source) /\ wanted = SameSource(source) /\ level = options.synchronize
      OBVIOUS
    <3>2. \A p \in Package : name[p] = N(p)
      BY <3>1 DEF SyncNames
    <3>5. b = SynchronizedAll(g, source)
      BY <1>4, <2>2
    <3>6. Made(g, b, name, S, wanted, level, FALSE)
      BY <1>0, <3>1, <3>5, SynchronizedFacts
    <3>7. \A p \in S : name[p] = N(p) /\ VersionsOf(p) \cap wanted = T(p)
      BY <1>3, <3>1, <3>2
    <3> HIDE DEF T, N
    <3>8. /\ Grew(g, b, FALSE) /\ RemovableOnly(b)
          /\ \A y \in b.vertices : y \in g.vertices \/ \E p \in S : y = N(p) \/ y = Absent(p)
          /\ \A p \in S : Filled(b, N(p), T(p), {p}, FALSE)
          /\ level = 1 => \A p \in S : HasExcuse(b, N(p))
          /\ \A d \in b.edges :
               \/ d \in g.edges
               \/ \E p \in S : AnswerEdge(d, N(p), T(p), {p})
               \/ level = 1 /\ \E p \in S : ExcuseEdge(d, N(p))
      <4>1. Grew(g, b, FALSE) /\ RemovableOnly(b)
        BY <3>6 DEF Made
      <4>2. \A y \in b.vertices : y \in g.vertices \/ \E p \in S : y = N(p) \/ y = Absent(p)
        BY <3>6, <3>7 DEF Made
      <4>3. \A p \in S : Filled(b, name[p], VersionsOf(p) \cap wanted, {p}, FALSE)
        BY <3>6 DEF Made
      <4>4. level = 1 => \A p \in S : HasExcuse(b, name[p])
        BY <3>6 DEF Made
      <4>5. \A d \in b.edges :
              \/ d \in g.edges
              \/ \E p \in S : AnswerEdge(d, name[p], VersionsOf(p) \cap wanted, {p})
              \/ level = 1 /\ \E p \in S : ExcuseEdge(d, name[p])
        BY <3>6 DEF Made
      <4>6. \A p \in S : Filled(b, N(p), T(p), {p}, FALSE)
        BY <3>7, <4>3
      <4>7. level = 1 => \A p \in S : HasExcuse(b, N(p))
        BY <3>7, <4>4
      <4>8. \A d \in b.edges :
              \/ d \in g.edges
              \/ \E p \in S : AnswerEdge(d, N(p), T(p), {p})
              \/ level = 1 /\ \E p \in S : ExcuseEdge(d, N(p))
        BY <3>7, <4>5
      <4>9. QED
        BY <4>1, <4>2, <4>6, <4>7, <4>8
    <3>9. \A p \in S : IsSoft(N(p)) <=> level = 1
      BY <3>1, SoftFacts DEF N
    <3>10. ASSUME NEW p \in S PROVE Complete(b, N(p), FALSE)
      BY <1>6, <3>8, <3>9 DEF Complete
    <3>11. \A y \in b.vertices : y \in g.vertices \/ Complete(b, y, FALSE) \/ \E p : y = Absent(p)
      BY <3>8, <3>10
    <3>12. \A d \in b.edges : d \in g.edges \/ LegitEdge(d)
      BY <1>6, <3>8, <3>9 DEF LegitEdge
    <3>13. AddedSoundly(g, b, FALSE)
      BY <3>8, <3>11, <3>12 DEF AddedSoundly
    <3>14. \A p \in S : N(p) \in b.vertices
      BY <3>8 DEF Filled
    <3>15. Siblings(b)
      <4>1. ASSUME NEW k \in Anti, NEW f \in Expression, NEW p \in HitPackages(f), NEW q \in HitPackages(f),
                   <<"anti", k, f, p>> \in b.vertices
            PROVE  <<"anti", k, f, q>> \in b.vertices
        <5>1. \A r : <<"anti", k, f, p>> # N(r) /\ <<"anti", k, f, p>> # Absent(r)
          BY DEF SyncVertex, N, Absent
        <5>2. <<"anti", k, f, p>> \in g.vertices
          BY <3>8, <4>1, <5>1
        <5>3. QED
          BY <1>0, <3>8, <5>2 DEF Siblings, Grew
      <4>2. ASSUME NEW w \in Version, NEW p \in SyncPackages(world.source[w]), NEW q \in SyncPackages(world.source[w]),
                   SyncVertex(world.source[w], p) \in b.vertices
            PROVE  SyncVertex(world.source[w], q) \in b.vertices
        <5>1. CASE SyncVertex(world.source[w], p) \in g.vertices
          BY <1>0, <3>8, <5>1 DEF Siblings, Grew
        <5>2. CASE \E r \in S : SyncVertex(world.source[w], p) = N(r)
          <6>1. world.source[w] = source
            BY <5>2, SameSyncVertex DEF N
          <6>2. QED
            BY <3>14, <6>1 DEF N
        <5>3. \A r : SyncVertex(world.source[w], p) # Absent(r)
          BY DEF SyncVertex, Absent
        <5>4. QED
          BY <3>8, <4>2, <5>1, <5>2, <5>3
      <4>3. QED
        BY <4>1, <4>2 DEF Siblings
    <3>16. QED
      BY <3>8, <3>13, <3>14, <3>15, StillSound
  <2>3. QED
    BY <2>1, <2>2
<1>8. IsState(b) /\ Siblings(b) /\ RemovableOnly(b)
  BY <1>7 DEF Sound
<1>9. IsState(h) /\ h.seen = b.seen /\ h.vertices = b.vertices /\ h.edges = b.edges \cup mine
  BY <1>5, <1>8 DEF IsState
<1>10. \A y : WantsSync(v, y) <=> \E p \in S \ {PackageOf(v)} : y = N(p)
  BY DEF WantsSync
<1>11. \A d \in mine : \E p \in S \ {PackageOf(v)} : d = <<VersionVertex(v), N(p)>>
  OBVIOUS
<1>12. \A p \in S \ {PackageOf(v)} : <<VersionVertex(v), N(p)>> \in mine
  OBVIOUS
<1> HIDE DEF mine, isNew, N, T
<1>13. Grew(b, h, FALSE)
  BY <1>9, ExtendedGrew DEF Extends
<1>14. \A d \in h.edges : d \in b.edges \/ LegitEdge(d)
  <2>1. \A p \in S \ {PackageOf(v)} : Wants(v, N(p))
    BY <1>10 DEF Wants
  <2>2. QED
    BY <1>9, <1>11, <2>1 DEF LegitEdge
<1>15. AddedSoundly(b, h, FALSE)
  BY <1>8, <1>9, <1>13, <1>14 DEF AddedSoundly, RemovableOnly
<1>16. Siblings(h)
  BY <1>8, <1>9 DEF Siblings
<1>17. Sound(h, FALSE)
  BY <1>7, <1>15, <1>16, StillSound
<1>18. Grew(g, h, FALSE)
  BY <1>7, <1>13, GrewOn
<1>19. \A y : WantsSync(v, y) => Linked(h, v, y)
  BY <1>7, <1>9, <1>10, <1>12 DEF Linked
<1>20. QED
  BY <1>17, <1>18, <1>19 DEF Follows, LinkedSync

-----------------------------------------------------------------------------
(* All relations of a version                                              *)

LEMMA RelatedFacts ==
  ASSUME InputsOK, NEW v \in Version, NEW type \in Range(DependencyGroups),
         NEW e \in Range(world.relations[v][type]),
         NEW g, Sound(g, FALSE), NEW h, h = Related(g, v, type, e)
  PROVE  Follows(g, h) /\ LinkedBy(h, v, type, e)
<1>1. type \in RelationType
  BY GroupFacts, SeqIsSeq
<1>2. CASE type \in Anti
  <2>1. h = AntiRelation(g, v, type, e)
    BY <1>2 DEF Related
  <2>2. QED
    BY <1>2, <2>1, AntiFacts
<1>3. CASE type \notin Anti
  <2>1. h = ForwardRelation(g, v, type, e) /\ type \in RelationType \ Anti
    BY <1>1, <1>3 DEF Related
  <2>2. QED
    BY <2>1, ForwardFacts
<1>4. QED
  BY <1>2, <1>3

LEMMA StillLinkedBy ==
  ASSUME NEW g, NEW h, Follows(g, h), NEW v, NEW type, NEW e, LinkedBy(g, v, type, e)
  PROVE  LinkedBy(h, v, type, e)
BY DEF Follows, Grew, LinkedBy, Linked

RelatedRound(par, h, e) == Related(h, par.version, par.type, e)
RelatedHolds(par, n, h) ==
  /\ Follows(par.base, h)
  /\ \A e \in FirstMembers(par.list, n) : LinkedBy(h, par.version, par.type, e)
Relating == INSTANCE Loops WITH Round <- RelatedRound, Holds <- RelatedHolds

LEMMA RelatedByTypeIs ==
  ASSUME NEW g, NEW v, NEW type, NEW list, list = world.relations[v][type]
  PROVE  RelatedByType(g, v, type) =
           Relating!Loop([base |-> g, version |-> v, type |-> type, list |-> list], g, list)
BY DEF RelatedByType, Relating!Loop, RelatedRound, FoldLeft, MapThenFoldSet, Max,
       Relating!MapThenFoldSet, Relating!Greatest

\* All relations of one type.
LEMMA RelatedByTypeFacts ==
  ASSUME InputsOK, NEW v \in Version, NEW type \in Range(DependencyGroups),
         NEW g, Sound(g, FALSE), NEW h, h = RelatedByType(g, v, type)
  PROVE  Follows(g, h) /\ \A e \in Range(world.relations[v][type]) : LinkedBy(h, v, type, e)
<1>1. PICK list : list = world.relations[v][type]
  OBVIOUS
<1>2. PICK par : par = [base |-> g, version |-> v, type |-> type, list |-> list]
  OBVIOUS
<1>3. type \in RelationType
  BY GroupFacts, SeqIsSeq
<1>4. list \in Seq(Expression)
  BY <1>1, <1>3, WorldFacts
<1>5. IsSeq(list) /\ Len(list) \in Nat /\ DOMAIN list = 1..Len(list) /\ Range(list) = FirstMembers(list, Len(list))
  BY <1>4, SeqIsSeq
<1>6. \A n, z : RelatedHolds(par, n, z) <=>
                  Follows(g, z) /\ \A e \in FirstMembers(list, n) : LinkedBy(z, v, type, e)
  BY <1>2 DEF RelatedHolds
<1>7. RelatedHolds(par, 0, g)
  <2>1. Follows(g, g)
    BY NothingGrew DEF Follows, Sound
  <2>2. QED
    BY <1>6, <2>1, NoMembers
<1>8. ASSUME NEW i \in 1..Len(list), NEW z, RelatedHolds(par, i - 1, z)
      PROVE  RelatedHolds(par, i, RelatedRound(par, z, list[i]))
  <2>1. PICK e, k : e = list[i] /\ k = Related(z, v, type, e)
    OBVIOUS
  <2>2. RelatedRound(par, z, e) = k
    BY <1>2, <2>1 DEF RelatedRound
  <2>3. e \in Range(list) /\ FirstMembers(list, i) = FirstMembers(list, i - 1) \cup {e}
    BY <1>5, <2>1, MemberOfSet
  <2>4. Follows(g, z) /\ \A d \in FirstMembers(list, i - 1) : LinkedBy(z, v, type, d)
    BY <1>6, <1>8
  <2>5. Follows(z, k) /\ LinkedBy(k, v, type, e)
    <3>1. e \in Range(world.relations[v][type]) /\ Sound(z, FALSE)
      BY <1>1, <2>3, <2>4 DEF Follows
    <3>2. QED
      BY <2>1, <3>1, RelatedFacts
  <2>6. Follows(g, k)
    BY <2>4, <2>5, FollowsOn
  <2>7. \A d \in FirstMembers(list, i - 1) : LinkedBy(k, v, type, d)
    BY <2>4, <2>5, StillLinkedBy
  <2>8. QED
    BY <1>6, <2>1, <2>2, <2>3, <2>5, <2>6, <2>7
<1>9. RelatedHolds(par, Len(list), Relating!Loop(par, g, list))
  <2>1. Relating!IsSeq(list)
    BY <1>5 DEF IsSeq, Relating!IsSeq
  <2>2. QED
    BY <1>7, <1>8, <2>1, Relating!LoopInduction
<1>10. h = Relating!Loop(par, g, list)
  BY <1>1, <1>2, RelatedByTypeIs
<1>11. QED
  BY <1>1, <1>5, <1>6, <1>9, <1>10

GroupRound(par, h, type) == RelatedByType(h, par.version, type)
GroupHolds(par, n, h) ==
  /\ Follows(par.base, h)
  /\ \A type \in FirstMembers(DependencyGroups, n) : \A e \in Range(world.relations[par.version][type]) :
       LinkedBy(h, par.version, type, e)
Grouping == INSTANCE Loops WITH Round <- GroupRound, Holds <- GroupHolds

AllRelated(g, v) == FoldLeft(LAMBDA h, type : RelatedByType(h, v, type), g, DependencyGroups)

LEMMA AllRelatedIs ==
  ASSUME NEW g, NEW v
  PROVE  AllRelated(g, v) = Grouping!Loop([base |-> g, version |-> v], g, DependencyGroups)
BY DEF AllRelated, Grouping!Loop, GroupRound, FoldLeft, MapThenFoldSet, Max,
       Grouping!MapThenFoldSet, Grouping!Greatest

\* All relations of a version.
LEMMA AllRelatedFacts ==
  ASSUME InputsOK, NEW v \in Version, NEW g, Sound(g, FALSE), NEW h, h = AllRelated(g, v)
  PROVE  /\ Follows(g, h)
         /\ \A type \in Range(DependencyGroups) : \A e \in Range(world.relations[v][type]) :
              LinkedBy(h, v, type, e)
<1>1. PICK list : list = DependencyGroups
  OBVIOUS
<1>2. PICK par : par = [base |-> g, version |-> v]
  OBVIOUS
<1>3. list \in Seq(RelationType)
  BY <1>1, GroupFacts
<1>5. IsSeq(list) /\ Len(list) \in Nat /\ DOMAIN list = 1..Len(list) /\ Range(list) = FirstMembers(list, Len(list))
  BY <1>3, SeqIsSeq
<1> DEFINE Done(z, type) == \A e \in Range(world.relations[v][type]) : LinkedBy(z, v, type, e)
<1>6. \A n, z : GroupHolds(par, n, z) <=>
                  Follows(g, z) /\ \A type \in FirstMembers(list, n) : Done(z, type)
  BY <1>1, <1>2 DEF GroupHolds
<1>7. GroupHolds(par, 0, g)
  <2>1. Follows(g, g)
    BY NothingGrew DEF Follows, Sound
  <2>2. QED
    BY <1>6, <2>1, NoMembers
<1>8. ASSUME NEW i \in 1..Len(list), NEW z, GroupHolds(par, i - 1, z)
      PROVE  GroupHolds(par, i, GroupRound(par, z, list[i]))
  <2>1. PICK type, k : type = list[i] /\ k = RelatedByType(z, v, type)
    OBVIOUS
  <2>2. GroupRound(par, z, type) = k
    BY <1>2, <2>1 DEF GroupRound
  <2>3. type \in Range(list) /\ FirstMembers(list, i) = FirstMembers(list, i - 1) \cup {type}
    BY <1>5, <2>1, MemberOfSet
  <2>4. Follows(g, z) /\ \A t \in FirstMembers(list, i - 1) : Done(z, t)
    BY <1>6, <1>8
  <2>5. Follows(z, k) /\ Done(k, type)
    <3>1. type \in Range(DependencyGroups) /\ Sound(z, FALSE)
      BY <1>1, <2>3, <2>4 DEF Follows
    <3>2. QED
      BY <2>1, <3>1, RelatedByTypeFacts
  <2>6. Follows(g, k)
    BY <2>4, <2>5, FollowsOn
  <2>7. \A t \in FirstMembers(list, i - 1) : Done(k, t)
    BY <2>4, <2>5, StillLinkedBy
  <2> HIDE DEF Done
  <2>8. QED
    BY <1>6, <2>1, <2>2, <2>3, <2>5, <2>6, <2>7
<1>9. GroupHolds(par, Len(list), Grouping!Loop(par, g, list))
  <2>1. Grouping!IsSeq(list)
    BY <1>5 DEF IsSeq, Grouping!IsSeq
  <2>2. QED
    BY <1>7, <1>8, <2>1, Grouping!LoopInduction
<1>10. h = Grouping!Loop(par, g, list)
  BY <1>1, <1>2, AllRelatedIs
<1>11. QED
  BY <1>1, <1>5, <1>6, <1>9, <1>10

LinkedToAll(h, v) == \A y : Wants(v, y) => Linked(h, v, y)

LEMMA StillLinkedToAll ==
  ASSUME NEW g, NEW h, NEW o, Grew(g, h, o), NEW v, LinkedToAll(g, v)
  PROVE  LinkedToAll(h, v)
BY DEF Grew, LinkedToAll, Linked

\* unfoldElement links a version with all it wants and keeps the graph sound.
LEMMA UnfoldedFacts ==
  ASSUME InputsOK, NEW v \in Version, NEW g, Sound(g, FALSE), NEW h, h = UnfoldedInto(g, v)
  PROVE  Follows(g, h) /\ LinkedToAll(h, v)
<1>1. PICK k : k = AllRelated(g, v)
  OBVIOUS
<1>2. /\ Follows(g, k)
      /\ \A type \in Range(DependencyGroups) : \A e \in Range(world.relations[v][type]) : LinkedBy(k, v, type, e)
  BY <1>1, AllRelatedFacts
<1>3. h = IF options.synchronize > 0 /\ v \notin world.installed THEN Synchronizations(k, v) ELSE k
  BY <1>1 DEF UnfoldedInto, AllRelated
<1>4. Follows(k, h) /\ LinkedSync(h, v)
  <2>1. CASE options.synchronize > 0 /\ v \notin world.installed
    <3>1. h = Synchronizations(k, v) /\ Sound(k, FALSE)
      BY <1>2, <1>3, <2>1 DEF Follows
    <3>2. QED
      BY <2>1, <3>1, SyncFacts
  <2>2. CASE ~(options.synchronize > 0 /\ v \notin world.installed)
    <3>1. h = k /\ \A y : ~WantsSync(v, y)
      BY <1>3, <2>2 DEF WantsSync
    <3>2. QED
      BY <1>2, <3>1, NothingGrew DEF Follows, LinkedSync, Sound
  <2>3. QED
    BY <2>1, <2>2
<1>5. Follows(g, h)
  BY <1>2, <1>4, FollowsOn
<1>6. \A type \in Range(DependencyGroups) : \A e \in Range(world.relations[v][type]) : LinkedBy(h, v, type, e)
  BY <1>2, <1>4, StillLinkedBy
<1>7. LinkedToAll(h, v)
  BY <1>4, <1>6 DEF LinkedToAll, LinkedSync, LinkedBy, Wants
<1>8. QED
  BY <1>5, <1>7

-----------------------------------------------------------------------------
(* The installed versions                                                  *)

InstalledRound(par, h, v) == UnfoldedInto(h, v)
InstalledHolds(par, n, h) ==
  /\ Follows(par.base, h)
  /\ \A v \in FirstMembers(par.list, n) : LinkedToAll(h, v)
Unfolding == INSTANCE Loops WITH Round <- InstalledRound, Holds <- InstalledHolds

LEMMA AllInstalledIs ==
  ASSUME NEW g, NEW list, list = SetToSeq(world.installed)
  PROVE  AllInstalled(g) = Unfolding!Loop([base |-> g, list |-> list], g, list)
BY DEF AllInstalled, Unfolding!Loop, InstalledRound, FoldLeft, MapThenFoldSet, Max,
       Unfolding!MapThenFoldSet, Unfolding!Greatest

\* Unfolding every installed version does so for each.
LEMMA AllInstalledFacts ==
  ASSUME InputsOK, NEW g, Sound(g, FALSE), NEW h, h = AllInstalled(g)
  PROVE  Follows(g, h) /\ \A v \in world.installed : LinkedToAll(h, v)
<1>1. PICK list : list = SetToSeq(world.installed)
  OBVIOUS
<1>2. PICK par : par = [base |-> g, list |-> list]
  OBVIOUS
<1>3. world.installed \subseteq Version /\ IsFiniteSet(world.installed)
  BY WorldFacts
<1>5. IsSeq(list) /\ Len(list) \in Nat /\ DOMAIN list = 1..Len(list) /\ world.installed = FirstMembers(list, Len(list))
  BY <1>1, <1>3, SetAsSeq
<1>6. \A n, z : InstalledHolds(par, n, z) <=>
                  Follows(g, z) /\ \A v \in FirstMembers(list, n) : LinkedToAll(z, v)
  BY <1>2 DEF InstalledHolds
<1>7. InstalledHolds(par, 0, g)
  <2>1. Follows(g, g)
    BY NothingGrew DEF Follows, Sound
  <2>2. QED
    BY <1>6, <2>1, NoMembers
<1>8. ASSUME NEW i \in 1..Len(list), NEW z, InstalledHolds(par, i - 1, z)
      PROVE  InstalledHolds(par, i, InstalledRound(par, z, list[i]))
  <2>1. PICK v, k : v = list[i] /\ k = UnfoldedInto(z, v)
    OBVIOUS
  <2>2. InstalledRound(par, z, v) = k
    BY <2>1 DEF InstalledRound
  <2>3. v \in Version /\ FirstMembers(list, i) = FirstMembers(list, i - 1) \cup {v}
    BY <1>3, <1>5, <2>1, MemberOfSet
  <2>4. Follows(g, z) /\ \A w \in FirstMembers(list, i - 1) : LinkedToAll(z, w)
    BY <1>6, <1>8
  <2>5. Follows(z, k) /\ LinkedToAll(k, v)
    <3>1. Sound(z, FALSE)
      BY <2>4 DEF Follows
    <3>2. QED
      BY <2>1, <2>3, <3>1, UnfoldedFacts
  <2>6. Follows(g, k)
    BY <2>4, <2>5, FollowsOn
  <2>7. \A w \in FirstMembers(list, i - 1) : LinkedToAll(k, w)
    BY <2>4, <2>5, StillLinkedToAll DEF Follows
  <2>8. QED
    BY <1>6, <2>1, <2>2, <2>3, <2>5, <2>6, <2>7
<1>9. InstalledHolds(par, Len(list), Unfolding!Loop(par, g, list))
  <2>1. Unfolding!IsSeq(list)
    BY <1>5 DEF IsSeq, Unfolding!IsSeq
  <2>2. QED
    BY <1>7, <1>8, <2>1, Unfolding!LoopInduction
<1>10. h = Unfolding!Loop(par, g, list)
  BY <1>1, <1>2, AllInstalledIs
<1>11. QED
  BY <1>5, <1>6, <1>9, <1>10

-----------------------------------------------------------------------------
(* The requests                                                            *)

\* The vertices of a request have been made, and nothing else.
RequestFilled(g, f, i) ==
  /\ Grew(g, f, TRUE) /\ RemovableOnly(f)
  /\ \A y \in f.vertices : y \in g.vertices \/ RequestName(i, y) \/ \E p \in Package : y = Absent(p)
  /\ \A y : RequestName(i, y) => y \in f.vertices /\ \A T, P : Means(y, T, P) => Filled(f, y, T, P, TRUE)
  /\ \A e \in f.edges : e \in g.edges \/ \E y, T, P : RequestName(i, y) /\ Means(y, T, P) /\ AnswerEdge(e, y, T, P)

RequestStart(g, i) ==
  IF requests[i].invert THEN Excluded(g, requests[i].expression, RequestVertex(i), TRUE)
  ELSE EdgesToVersions(WithVertex(g, RequestVertex(i) \o <<"any">>), RequestVertex(i) \o <<"any">>,
                       world.satisfying[requests[i].expression], Version, TRUE)

\* The vertices of a request, before they are linked with the user.
LEMMA RequestStartFacts ==
  ASSUME InputsOK, NEW i \in DOMAIN requests, NEW g, IsState(g), RemovableOnly(g),
         NEW f, f = RequestStart(g, i)
  PROVE  RequestFilled(g, f, i)
<1>1. PICK e : e = requests[i].expression
  OBVIOUS
<1>2. e \in Expression
  BY <1>1 DEF InputsOK, Expression
<1>3. CASE requests[i].invert
  <2> DEFINE S == HitPackages(e)
             N(p) == <<"request", i, p>>
             T(p) == VersionsOf(p) \ Satisfying(e)
  <2>1. \A p : RequestVertex(i) \o <<p>> = N(p)
    BY Names
  <2>2. S \subseteq Package
    BY <1>2, WorldFacts
  <2>3. PICK name, wanted : name = ExcludeNames(RequestVertex(i)) /\ wanted = Version \ Satisfying(e)
    OBVIOUS
  <2>4. \A p \in Package : name[p] = N(p)
    BY <2>1, <2>3 DEF ExcludeNames
  <2>5. NoneAbsent(name)
    BY <2>4 DEF NoneAbsent, NotAbsent, Absent
  <2>6. \A p \in Package : VersionsOf(p) \cap wanted = T(p)
    BY <2>3, WorldFacts
  <2>7. f = Excluded(g, e, RequestVertex(i), TRUE)
    BY <1>1, <1>3 DEF RequestStart
  <2>8. Made(g, f, name, S, wanted, 0, TRUE)
    BY <1>2, <2>3, <2>5, <2>7, ExcludedFacts
  <2>9. \A y : RequestName(i, y) <=> \E p \in S : y = N(p)
    BY <1>1, <1>3 DEF RequestName
  <2>10. \A p \in S : Means(N(p), T(p), {p}) /\ \A U, P : Means(N(p), U, P) => U = T(p) /\ P = {p}
    <3>1. ASSUME NEW p \in S PROVE \A U, P : Means(N(p), U, P) <=> U = T(p) /\ P = {p}
      <4>1. RequestName(i, N(p))
        BY <2>9
      <4>2. QED
        BY <1>1, <1>3, <4>1, RequestMeans
    <3>2. QED
      BY <3>1
  <2> HIDE DEF T, N
  <2>11. \A p \in S : name[p] = N(p) /\ VersionsOf(p) \cap wanted = T(p)
    BY <2>2, <2>4, <2>6
  <2>12. Grew(g, f, TRUE) /\ RemovableOnly(f)
    BY <2>8 DEF Made
  <2>13. \A y \in f.vertices : y \in g.vertices \/ \E p \in S : y = N(p) \/ y = Absent(p)
    BY <2>8, <2>11 DEF Made
  <2>14. \A p \in S : Filled(f, N(p), T(p), {p}, TRUE)
    <3>1. \A p \in S : Filled(f, name[p], VersionsOf(p) \cap wanted, {p}, TRUE)
      BY <2>8 DEF Made
    <3>2. QED
      BY <2>11, <3>1
  <2>15. \A d \in f.edges : d \in g.edges \/ \E p \in S : AnswerEdge(d, N(p), T(p), {p})
    <3>1. PICK level : level = 0
      OBVIOUS
    <3>2. Made(g, f, name, S, wanted, level, TRUE)
      BY <2>8, <3>1
    <3>3. level # 1
      BY <3>1
    <3>4. \A d \in f.edges : d \in g.edges \/ \E p \in S : AnswerEdge(d, name[p], VersionsOf(p) \cap wanted, {p})
      BY <3>2, <3>3 DEF Made
    <3>5. QED
      BY <2>11, <3>4
  <2>16. \A y \in f.vertices : y \in g.vertices \/ RequestName(i, y) \/ \E p \in Package : y = Absent(p)
    BY <2>2, <2>9, <2>13
  <2>17. \A y : RequestName(i, y) => y \in f.vertices /\ \A U, P : Means(y, U, P) => Filled(f, y, U, P, TRUE)
    <3>1. ASSUME NEW y, RequestName(i, y), NEW U, NEW P, Means(y, U, P) PROVE Filled(f, y, U, P, TRUE)
      <4>1. PICK p \in S : y = N(p)
        BY <2>9, <3>1
      <4>2. Means(N(p), U, P)
        BY <3>1, <4>1
      <4>3. U = T(p) /\ P = {p}
        BY <2>10, <4>2
      <4>4. Filled(f, N(p), T(p), {p}, TRUE)
        BY <2>14
      <4>5. QED
        BY <4>1, <4>3, <4>4
    <3>2. \A y : RequestName(i, y) => y \in f.vertices
      <4>1. \A p \in S : N(p) \in f.vertices
        BY <2>14 DEF Filled
      <4>2. QED
        BY <2>9, <4>1
    <3>3. QED
      BY <3>1, <3>2
  <2>18. \A d \in f.edges : d \in g.edges \/ \E y, U, P : RequestName(i, y) /\ Means(y, U, P) /\ AnswerEdge(d, y, U, P)
    BY <2>9, <2>10, <2>15
  <2>19. QED
    BY <2>12, <2>16, <2>17, <2>18 DEF RequestFilled
<1>4. CASE ~requests[i].invert
  <2> DEFINE x == <<"request", i, "any">>
             T == Satisfying(e)
  <2>1. RequestVertex(i) \o <<"any">> = x
    BY Names
  <2>2. PICK a : a = WithVertex(g, x)
    OBVIOUS
  <2>3. IsState(a) /\ a.seen = g.seen /\ a.vertices = g.vertices \cup {x} /\ a.edges = g.edges
    BY <2>2, WithVertexIs
  <2>4. PICK list : list = world.satisfying[e]
    OBVIOUS
  <2>5. list \in Seq(Version) /\ T = Range(list) \cap Version
    BY <1>2, <2>4, WorldFacts DEF Satisfying
  <2>6. f = EdgesToVersions(a, x, list, Version, TRUE)
    BY <1>1, <1>4, <2>1, <2>2, <2>4 DEF RequestStart
  <2>7. \A y : RequestName(i, y) <=> y = x
    BY <1>4 DEF RequestName
  <2>8. \A U, P : Means(x, U, P) <=> U = T /\ P = {}
    <3>1. RequestName(i, x)
      BY <2>7
    <3>2. QED
      BY <1>1, <1>4, <3>1, RequestMeans
  <2>9. NotAbsent(x)
    BY DEF NotAbsent, Absent
  <2> HIDE DEF x, T
  <2>10. /\ Grew(a, f, TRUE)
         /\ Answered(f, x, Range(list) \cap Version, TRUE)
         /\ ToVersionOnly(a, f, x, Range(list) \cap Version)
    BY <2>3, <2>5, <2>6, EdgesToVersionsFacts
  <2>11. Answered(f, x, T, TRUE) /\ ToVersionOnly(a, f, x, T)
    BY <2>5, <2>10
  <2>12. Grew(g, a, TRUE)
    BY <2>3, ExtendedGrew DEF Extends
  <2>13. Grew(g, f, TRUE)
    BY <2>10, <2>12, GrewOn
  <2>14. f.vertices = g.vertices \cup {x}
    BY <2>3, <2>11 DEF ToVersionOnly
  <2>15. RemovableOnly(f)
    BY <2>9, <2>14 DEF RemovableOnly, NotAbsent
  <2>16. Filled(f, x, T, {}, TRUE)
    BY <2>11, <2>14 DEF Filled
  <2>17. \A d \in f.edges : d \in g.edges \/ AnswerEdge(d, x, T, {})
    BY <2>3, <2>11 DEF ToVersionOnly, AnswerEdge
  <2>18. \A y \in f.vertices : y \in g.vertices \/ RequestName(i, y)
    BY <2>7, <2>14
  <2>19. \A y : RequestName(i, y) => y \in f.vertices /\ \A U, P : Means(y, U, P) => Filled(f, y, U, P, TRUE)
    <3>1. ASSUME NEW y, RequestName(i, y), NEW U, NEW P, Means(y, U, P) PROVE Filled(f, y, U, P, TRUE)
      <4>1. y = x
        BY <2>7, <3>1
      <4>2. Means(x, U, P)
        BY <3>1, <4>1
      <4>3. U = T /\ P = {}
        BY <2>8, <4>2
      <4>4. QED
        BY <2>16, <4>1, <4>3
    <3>2. \A y : RequestName(i, y) => y \in f.vertices
      BY <2>7, <2>14
    <3>3. QED
      BY <3>1, <3>2
  <2>20. \A d \in f.edges : d \in g.edges \/ \E y, U, P : RequestName(i, y) /\ Means(y, U, P) /\ AnswerEdge(d, y, U, P)
    BY <2>7, <2>8, <2>17
  <2>21. QED
    BY <2>13, <2>15, <2>18, <2>19, <2>20 DEF RequestFilled
<1>5. QED
  BY <1>3, <1>4

\* The first n requests have been added to a graph without any other relations.
RequestsAdded(h, n) ==
  /\ IsState(h) /\ RemovableOnly(h)
  /\ \A x \in h.vertices : (\E p \in Package : x = Absent(p)) \/ \E j \in 1..n : RequestName(j, x)
  /\ \A x \in h.vertices : Complete(h, x, TRUE)
  /\ \A e \in h.edges : LegitEdge(e)
  /\ \A j \in 1..n : \A y : RequestName(j, y) => y \in h.vertices /\ <<User, y>> \in h.edges

\* addUserRelationExpression, to a graph in which there are only requests.
LEMMA RequestIntoFacts ==
  ASSUME InputsOK, NEW i \in DOMAIN requests, NEW g, RequestsAdded(g, i - 1),
         NEW h, h = RequestInto(g, i)
  PROVE  RequestsAdded(h, i) /\ Grew(g, h, TRUE)
<1>0. DOMAIN requests = 1..Len(requests) /\ Len(requests) \in Nat
  BY LenProperties DEF InputsOK
<1>1. PICK f : f = RequestStart(g, i)
  OBVIOUS
<1>2. RequestFilled(g, f, i)
  BY <1>1, RequestStartFacts DEF RequestsAdded
<1>3. IsState(f) /\ Grew(g, f, TRUE) /\ RemovableOnly(f)
  BY <1>2 DEF RequestFilled, Grew
<1> DEFINE Mine == f.vertices \ (g.vertices \cup {Absent(p) : p \in Package})
           excuse == Unsatisfied(RequestVertex(i))
           more == {<<User, y>> : y \in Mine} \cup (IF requests[i].must THEN {} ELSE {<<y, excuse>> : y \in Mine})
<1>4. h = [f EXCEPT !.edges = @ \cup {<<User, y>> : y \in Mine}
                                \cup (IF requests[i].must THEN {} ELSE {<<y, excuse>> : y \in Mine})]
  BY <1>1 DEF RequestInto, RequestStart
<1>5. \A j, y : RequestName(j, y) => \A p : y # Absent(p)
  BY DEF RequestName, Absent
<1>6. \A j, k, y : RequestName(j, y) /\ RequestName(k, y) => j = k
  BY DEF RequestName
<1>7. \A y : y \in Mine <=> RequestName(i, y)
  <2>1. ASSUME NEW y, RequestName(i, y) PROVE y \in Mine
    <3>1. y \in f.vertices
      BY <1>2, <2>1 DEF RequestFilled
    <3>2. y \notin g.vertices
      <4>1. \A j \in 1..(i - 1) : ~RequestName(j, y)
        BY <1>0, <1>6, <2>1
      <4>2. QED
        BY <1>5, <2>1, <4>1 DEF RequestsAdded
    <3>3. QED
      BY <1>5, <2>1, <3>1, <3>2
  <2>2. ASSUME NEW y \in Mine PROVE RequestName(i, y)
    BY <1>2, <2>2 DEF RequestFilled
  <2>3. QED
    BY <2>1, <2>2
<1>8. IsState(h) /\ h.seen = f.seen /\ h.vertices = f.vertices /\ h.edges = f.edges \cup more
  BY <1>3, <1>4 DEF IsState
<1>9. \A d \in more :
        \E y : RequestName(i, y) /\ (d = <<User, y>> \/ (~requests[i].must /\ d = <<y, excuse>>))
  BY <1>7
<1>10. \A y : RequestName(i, y) => <<User, y>> \in more /\ (~requests[i].must => <<y, excuse>> \in more)
  BY <1>7
<1>11. IsUnsatisfied(excuse)
  BY Names
<1> HIDE DEF Mine, excuse, more
<1>12. Grew(f, h, TRUE)
  BY <1>8, ExtendedGrew DEF Extends
<1>13. Grew(g, h, TRUE)
  BY <1>3, <1>12, GrewOn
<1>14. \A y : RequestName(i, y) => (IsSoft(y) <=> ~requests[i].must)
  BY SoftFacts
<1>15. ASSUME NEW y, RequestName(i, y) PROVE Complete(h, y, TRUE)
  <2>1. ASSUME NEW T, NEW P, Means(y, T, P) PROVE Filled(h, y, T, P, TRUE)
    <3>1. Filled(f, y, T, P, TRUE)
      BY <1>2, <1>15, <2>1 DEF RequestFilled
    <3>2. T \in SUBSET Version
      BY <2>1, MeansVersions
    <3>3. QED
      BY <1>3, <1>12, <3>1, <3>2, StillFilled
  <2>2. IsSoft(y) => HasExcuse(h, y)
    BY <1>8, <1>10, <1>11, <1>14, <1>15 DEF HasExcuse, ExcuseEdge
  <2>3. QED
    BY <2>1, <2>2 DEF Complete
<1>16. ASSUME NEW x \in h.vertices PROVE Complete(h, x, TRUE)
  <2>1. CASE x \in g.vertices
    <3>1. Complete(g, x, TRUE) /\ IsState(g)
      BY <2>1 DEF RequestsAdded
    <3>2. QED
      BY <1>13, <3>1, StillComplete
  <2>2. CASE RequestName(i, x)
    BY <1>15, <2>2
  <2>3. CASE \E p : x = Absent(p)
    BY <2>3, AbsentIsComplete
  <2>4. QED
    BY <1>2, <1>8, <2>1, <2>2, <2>3 DEF RequestFilled
<1>17. ASSUME NEW d \in h.edges PROVE LegitEdge(d)
  <2>1. d \in g.edges \/ d \in more \/ \E y, T, P : RequestName(i, y) /\ Means(y, T, P) /\ AnswerEdge(d, y, T, P)
    BY <1>2, <1>8 DEF RequestFilled
  <2>2. CASE d \in g.edges
    BY <2>2 DEF RequestsAdded
  <2>3. CASE d \in more
    <3>1. PICK y : RequestName(i, y) /\ (d = <<User, y>> \/ (~requests[i].must /\ d = <<y, excuse>>))
      BY <1>9, <2>3
    <3>2. CASE d = <<User, y>>
      BY <3>1, <3>2 DEF LegitEdge
    <3>3. CASE ~requests[i].must /\ d = <<y, excuse>>
      <4>1. IsSoft(y) /\ ExcuseEdge(d, y)
        BY <1>11, <1>14, <3>1, <3>3 DEF ExcuseEdge
      <4>2. \E T, P : Means(y, T, P)
        BY <3>1 DEF Means, RequestName
      <4>3. QED
        BY <4>1, <4>2 DEF LegitEdge
    <3>4. QED
      BY <3>1, <3>2, <3>3
  <2>4. CASE \E y, T, P : RequestName(i, y) /\ Means(y, T, P) /\ AnswerEdge(d, y, T, P)
    BY <2>4 DEF LegitEdge
  <2>5. QED
    BY <2>1, <2>2, <2>3, <2>4
<1>18. 1..i = 1..(i - 1) \cup {i}
  BY <1>0
<1>19. \A x \in h.vertices : (\E p \in Package : x = Absent(p)) \/ \E j \in 1..i : RequestName(j, x)
  <2>1. \A x \in h.vertices : x \in g.vertices \/ RequestName(i, x) \/ \E p \in Package : x = Absent(p)
    BY <1>2, <1>8 DEF RequestFilled
  <2>2. QED
    BY <1>18, <2>1 DEF RequestsAdded
<1>20. \A j \in 1..i : \A y : RequestName(j, y) => y \in h.vertices /\ <<User, y>> \in h.edges
  <2>1. g.vertices \subseteq h.vertices /\ g.edges \subseteq h.edges
    BY <1>13 DEF Grew
  <2>2. \A y : RequestName(i, y) => y \in h.vertices /\ <<User, y>> \in h.edges
    BY <1>2, <1>8, <1>10 DEF RequestFilled
  <2>3. QED
    BY <1>18, <2>1, <2>2 DEF RequestsAdded
<1>21. RemovableOnly(h)
  BY <1>3, <1>8 DEF RemovableOnly
<1>22. QED
  BY <1>8, <1>13, <1>16, <1>17, <1>19, <1>20, <1>21 DEF RequestsAdded

LEMMA SameInterval ==
  ASSUME NEW m \in Nat, NEW n \in Nat, 1..m = 1..n
  PROVE  m = n
<1>1. \A i : i \in 1..m <=> i \in 1..n
  OBVIOUS
<1>2. m > 0 => m \in 1..n
  BY <1>1
<1>3. n > 0 => n \in 1..m
  BY <1>1
<1>4. QED
  BY <1>2, <1>3

AddRound(par, h, i) == RequestInto(h, i)
AddHolds(par, n, h) == RequestsAdded(h, n) /\ Grew(par.base, h, TRUE)
Adding == INSTANCE Loops WITH Round <- AddRound, Holds <- AddHolds

LEMMA AllRequestsIs ==
  ASSUME NEW g
  PROVE  AllRequests(g) = Adding!Loop([base |-> g], g, [i \in 1..Len(requests) |-> i])
BY DEF AllRequests, Adding!Loop, AddRound, FoldLeft, MapThenFoldSet, Max,
       Adding!MapThenFoldSet, Adding!Greatest

\* All requests are added to the graph that fill leaves.
LEMMA AllRequestsFacts ==
  ASSUME InputsOK, NEW g, RequestsAdded(g, 0), NEW h, h = AllRequests(g)
  PROVE  RequestsAdded(h, Len(requests)) /\ Grew(g, h, TRUE)
<1>1. PICK list : list = [i \in 1..Len(requests) |-> i]
  OBVIOUS
<1>2. PICK par : par = [base |-> g]
  OBVIOUS
<1>3. DOMAIN requests = 1..Len(requests) /\ Len(requests) \in Nat
  BY LenProperties DEF InputsOK
<1>4. list \in Seq(1..Len(requests))
  BY <1>1, <1>3, SeqDef
<1>5. IsSeq(list) /\ Len(list) \in Nat /\ DOMAIN list = 1..Len(list)
  BY <1>4, SeqIsSeq
<1>6. Len(list) = Len(requests) /\ \A i \in 1..Len(list) : list[i] = i /\ i \in DOMAIN requests
  <2>1. DOMAIN list = 1..Len(requests)
    BY <1>1
  <2>2. Len(list) = Len(requests)
    BY <1>3, <1>5, <2>1, SameInterval
  <2>3. QED
    BY <1>1, <1>3, <2>2
<1>7. \A n, z : AddHolds(par, n, z) <=> RequestsAdded(z, n) /\ Grew(g, z, TRUE)
  BY <1>2 DEF AddHolds
<1>8. AddHolds(par, 0, g)
  BY <1>7, NothingGrew DEF RequestsAdded
<1>9. ASSUME NEW i \in 1..Len(list), NEW z, AddHolds(par, i - 1, z)
      PROVE  AddHolds(par, i, AddRound(par, z, list[i]))
  <2>1. PICK k : k = RequestInto(z, i)
    OBVIOUS
  <2>2. AddRound(par, z, list[i]) = k
    BY <1>6, <2>1 DEF AddRound
  <2>3. i \in DOMAIN requests
    BY <1>6
  <2>4. RequestsAdded(z, i - 1) /\ Grew(g, z, TRUE)
    BY <1>7, <1>9
  <2>5. RequestsAdded(k, i) /\ Grew(z, k, TRUE)
    BY <2>1, <2>3, <2>4, RequestIntoFacts
  <2>6. Grew(g, k, TRUE)
    BY <2>4, <2>5, GrewOn
  <2>7. QED
    BY <1>7, <2>2, <2>5, <2>6
<1>10. AddHolds(par, Len(list), Adding!Loop(par, g, list))
  <2>1. Adding!IsSeq(list)
    BY <1>5 DEF IsSeq, Adding!IsSeq
  <2>2. QED
    BY <1>8, <1>9, <2>1, Adding!LoopInduction
<1>11. h = Adding!Loop(par, g, list)
  BY <1>1, <1>2, AllRequestsIs
<1>12. QED
  BY <1>6, <1>7, <1>10, <1>11

\* All requests have their vertices, and the user's edges to them.
RequestsDone(h) ==
  \A i \in DOMAIN requests : \A y : RequestName(i, y) => y \in h.vertices /\ <<User, y>> \in h.edges

\* Then the graph may be unfolded.
LEMMA RequestedIsSound ==
  ASSUME InputsOK, NEW g, RequestsAdded(g, Len(requests))
  PROVE  Sound(g, FALSE) /\ RequestsDone(g)
<1>1. DOMAIN requests = 1..Len(requests) /\ Len(requests) \in Nat
  BY LenProperties DEF InputsOK
<1>2. RequestsDone(g)
  BY <1>1 DEF RequestsAdded, RequestsDone
<1>3. ASSUME NEW x \in g.vertices PROVE Complete(g, x, FALSE)
  <2>1. Complete(g, x, TRUE)
    BY DEF RequestsAdded
  <2>2. \A T : Answered(g, x, T, TRUE) => Answered(g, x, T, FALSE)
    BY DEF Answered
  <2>3. QED
    BY <2>1, <2>2 DEF Complete, Filled
<1>4. Siblings(g)
  <2>1. \A j, x : RequestName(j, x) => OfNoFamily(x)
    BY DEF RequestName, OfNoFamily
  <2>2. \A p : OfNoFamily(Absent(p))
    BY DEF Absent, OfNoFamily
  <2>3. \A x \in g.vertices : OfNoFamily(x)
    BY <2>1, <2>2 DEF RequestsAdded
  <2>4. \A type, e, p : ~OfNoFamily(<<"anti", type, e, p>>)
    BY DEF OfNoFamily
  <2>5. \A source, p : ~OfNoFamily(SyncVertex(source, p))
    BY DEF OfNoFamily, SyncVertex
  <2>6. QED
    BY <2>3, <2>4, <2>5 DEF Siblings
<1>5. QED
  BY <1>2, <1>3, <1>4 DEF Sound, RequestsAdded

-----------------------------------------------------------------------------
(* The packages which are installed                                        *)

PopulateRound(par, h, v) == WithVersion(h, v, FALSE)
PopulateHolds(par, n, h) ==
  /\ Grew(par.base, h, FALSE)
  /\ h.vertices = par.base.vertices /\ h.edges = par.base.edges
  /\ \A v \in Version : v \notin FirstMembers(par.list, n) => h.seen[v] = par.base.seen[v]
  /\ n # 0 => (VersionAllowed(par.base, par.list[1]) /\ par.base.seen[par.list[1]] = "unknown"
                 => h.seen[par.list[1]] = "vertex")
Populating == INSTANCE Loops WITH Round <- PopulateRound, Holds <- PopulateHolds

PopulatedVersions(g, p) == FoldLeft(LAMBDA h, v : WithVersion(h, v, FALSE), g, world.versions[p])

LEMMA PopulatedVersionsIs ==
  ASSUME NEW g, NEW p, NEW list, list = world.versions[p]
  PROVE  PopulatedVersions(g, p) = Populating!Loop([base |-> g, list |-> list], g, list)
BY DEF PopulatedVersions, Populating!Loop, PopulateRound, FoldLeft, MapThenFoldSet, Max,
       Populating!MapThenFoldSet, Populating!Greatest

VersionsPopulated(g, h, p) ==
  /\ Grew(g, h, FALSE) /\ h.vertices = g.vertices /\ h.edges = g.edges
  /\ \A v \in Version \ VersionsOf(p) : h.seen[v] = g.seen[v]
  /\ \A v \in VersionsOf(p) :
       v = world.versions[p][1] /\ (\A w \in VersionsOf(p) : g.seen[w] = "unknown") => h.seen[v] = "vertex"

\* p_populatePackage asks for the installed version first, which nothing is equal to then.
LEMMA PopulatedVersionsFacts ==
  ASSUME InputsOK, NEW g, IsState(g), NEW p \in Package, NEW h, h = PopulatedVersions(g, p)
  PROVE  VersionsPopulated(g, h, p)
<1>1. PICK list : list = world.versions[p]
  OBVIOUS
<1>2. PICK par : par = [base |-> g, list |-> list]
  OBVIOUS
<1>3. list \in Seq(Version)
  BY <1>1, WorldFacts
<1>4. IsSeq(list) /\ Len(list) \in Nat /\ DOMAIN list = 1..Len(list)
      /\ Range(list) \subseteq Version /\ Range(list) = FirstMembers(list, Len(list))
  BY <1>3, SeqIsSeq
<1> DEFINE Wins == VersionAllowed(g, list[1]) /\ g.seen[list[1]] = "unknown"
           Good(n, z) == /\ Grew(g, z, FALSE)
                         /\ z.vertices = g.vertices /\ z.edges = g.edges
                         /\ \A v \in Version : v \notin FirstMembers(list, n) => z.seen[v] = g.seen[v]
                         /\ n # 0 => (Wins => z.seen[list[1]] = "vertex")
<1>5. \A n, z : PopulateHolds(par, n, z) <=> Good(n, z)
  BY <1>2 DEF PopulateHolds
<1> HIDE DEF Wins
<1>6. Good(0, g)
  <2>1. Grew(g, g, FALSE)
    BY NothingGrew
  <2>2. QED
    BY <2>1
<1>7. ASSUME NEW i \in 1..Len(list), NEW z, Good(i - 1, z)
      PROVE  Good(i, PopulateRound(par, z, list[i]))
  <2>1. PICK v, k : v = list[i] /\ k = WithVersion(z, v, FALSE)
    OBVIOUS
  <2>2. v \in Version /\ FirstMembers(list, i) = FirstMembers(list, i - 1) \cup {v}
    BY <1>3, <1>4, <2>1, ElementOfSeq, MoreMembers
  <2>3. PopulateRound(par, z, v) = k
    BY <2>1 DEF PopulateRound
  <2>4. IsState(z)
    BY <1>7 DEF Grew
  <2>5. /\ Grew(z, k, FALSE)
        /\ k.vertices = z.vertices /\ k.edges = z.edges
        /\ \A w \in Version : w # v => k.seen[w] = z.seen[w]
        /\ z.seen[v] = "unknown" /\ VersionAllowed(z, v) => k.seen[v] = "vertex"
    <3>1. AskedFor(z, k, v, FALSE)
      BY <2>1, <2>2, <2>4, WithVersionFacts
    <3>2. QED
      BY <3>1 DEF AskedFor
  <2>6. Grew(g, k, FALSE)
    BY <1>7, <2>5, GrewOn
  <2>7. \A w \in Version : w \notin FirstMembers(list, i) => k.seen[w] = g.seen[w]
    BY <1>7, <2>2, <2>5
  <2>8. ASSUME Wins PROVE k.seen[list[1]] = "vertex"
    <3>1. list[1] \in Version
      BY <1>3, <1>4, ElementOfSeq
    <3>2. CASE i = 1
      <4>1. FirstMembers(list, i - 1) = {}
        BY <3>2 DEF FirstMembers
      <4>2. \A w \in Version : z.seen[w] = g.seen[w]
        BY <1>7, <4>1
      <4>3. VersionAllowed(z, v) /\ z.seen[v] = "unknown"
        BY <2>1, <2>8, <3>1, <3>2, <4>2 DEF VersionAllowed, Wins
      <4>4. QED
        BY <2>1, <2>5, <3>2, <4>3
    <3>3. CASE i # 1
      <4>1. z.seen[list[1]] = "vertex"
        BY <1>4, <1>7, <2>8, <3>3
      <4>2. QED
        BY <2>5, <3>1, <4>1 DEF Grew
    <3>4. QED
      BY <3>2, <3>3
  <2>9. QED
    BY <1>7, <2>1, <2>3, <2>5, <2>6, <2>7, <2>8
<1> HIDE DEF Good
<1>8. PopulateHolds(par, Len(list), Populating!Loop(par, g, list))
  <2>1. Populating!IsSeq(list)
    BY <1>4 DEF IsSeq, Populating!IsSeq
  <2>2. QED
    BY <1>5, <1>6, <1>7, <2>1, Populating!LoopInduction
<1>9. h = Populating!Loop(par, g, list)
  BY <1>1, <1>2, PopulatedVersionsIs
<1>10. Good(Len(list), h)
  BY <1>5, <1>8, <1>9
<1>11. /\ Grew(g, h, FALSE) /\ h.vertices = g.vertices /\ h.edges = g.edges
       /\ \A v \in Version \ VersionsOf(p) : h.seen[v] = g.seen[v]
  BY <1>1, <1>4, <1>10 DEF Good, VersionsOf
<1>12. ASSUME NEW v \in VersionsOf(p), v = world.versions[p][1], \A w \in VersionsOf(p) : g.seen[w] = "unknown"
       PROVE  h.seen[v] = "vertex"
  <2>1. Len(list) > 0
    <3>1. PICK j \in 1..Len(list) : v = list[j]
      BY <1>1, <1>4 DEF VersionsOf, FirstMembers
    <3>2. QED
      BY <1>4, <3>1
  <2>2. v \in Version /\ p = PackageOf(v)
    BY WorldFacts
  <2>3. \A w \in Version : PackageOf(w) = PackageOf(v) => w \in VersionsOf(p)
    BY <2>2, WorldFacts
  <2>4. VersionAllowed(g, v)
    BY <1>12, <2>3 DEF VersionAllowed
  <2>5. Wins
    BY <1>1, <1>12, <2>4 DEF Wins
  <2>6. QED
    BY <1>1, <1>10, <1>12, <2>1, <2>5 DEF Good
<1>13. QED
  BY <1>11, <1>12 DEF VersionsPopulated

\* While packages are populated: an installed version is a vertex, or nothing
\* of its package has been asked for.
Filling(h, done) ==
  /\ RequestsAdded(h, 0)
  /\ \A v \in world.installed :
       \/ h.seen[v] = "vertex"
       \/ PackageOf(v) \notin done /\ \A w \in VersionsOf(PackageOf(v)) : h.seen[w] = "unknown"

\* fill takes one package more.
LEMMA PopulatedFacts ==
  ASSUME InputsOK, NEW g, NEW done, Filling(g, done), NEW p \in Package, NEW h, h = Populated(g, p)
  PROVE  Filling(h, done \cup {p})
<1>0. IsState(g) /\ RemovableOnly(g)
  BY DEF Filling, RequestsAdded
<1>1. PICK k : k = PopulatedVersions(g, p)
  OBVIOUS
<1>2. /\ Grew(g, k, FALSE) /\ k.vertices = g.vertices /\ k.edges = g.edges
      /\ \A v \in Version \ VersionsOf(p) : k.seen[v] = g.seen[v]
      /\ \A v \in VersionsOf(p) :
           v = world.versions[p][1] /\ (\A w \in VersionsOf(p) : g.seen[w] = "unknown") => k.seen[v] = "vertex"
  <2>1. VersionsPopulated(g, k, p)
    BY <1>0, <1>1, PopulatedVersionsFacts
  <2>2. QED
    BY <2>1 DEF VersionsPopulated
<1>3. h = WithAbsent(k, p)
  BY <1>1 DEF Populated, PopulatedVersions
<1>4. /\ IsState(h) /\ h.seen = k.seen /\ h.edges = k.edges
      /\ \A x \in h.vertices : x \in k.vertices \/ (CanBeRemoved(p) /\ x = Absent(p))
  BY <1>2, <1>3 DEF WithAbsent, Grew, IsState
<1>5. \A x \in h.vertices : \E q \in Package : x = Absent(q)
  BY <1>2, <1>4 DEF Filling, RequestsAdded
<1>6. RemovableOnly(h)
  BY <1>0, <1>2, <1>4 DEF RemovableOnly, Absent
<1>7. ASSUME NEW x \in h.vertices PROVE Complete(h, x, TRUE)
  <2>1. PICK q \in Package : x = Absent(q)
    BY <1>5
  <2>2. Complete(h, Absent(q), TRUE)
    BY AbsentIsComplete
  <2>3. QED
    BY <2>1, <2>2
<1>8. RequestsAdded(h, 0)
  <2>1. \A e \in h.edges : LegitEdge(e)
    BY <1>2, <1>4 DEF Filling, RequestsAdded
  <2>2. \A j \in 1..0 : FALSE
    OBVIOUS
  <2>3. QED
    BY <1>4, <1>5, <1>6, <1>7, <2>1, <2>2 DEF RequestsAdded
<1>9. ASSUME NEW v \in world.installed
      PROVE  \/ h.seen[v] = "vertex"
             \/ PackageOf(v) \notin done \cup {p} /\ \A w \in VersionsOf(PackageOf(v)) : h.seen[w] = "unknown"
  <2>1. v \in Version /\ PackageOf(v) \in Package /\ v \in VersionsOf(PackageOf(v))
    BY WorldFacts
  <2>2. CASE g.seen[v] = "vertex"
    BY <1>2, <1>4, <2>1, <2>2 DEF Grew
  <2>3. CASE PackageOf(v) \notin done /\ \A w \in VersionsOf(PackageOf(v)) : g.seen[w] = "unknown"
    <3>1. CASE PackageOf(v) = p
      <4>1. v = world.versions[p][1]
        BY <3>1 DEF InputsOK, IsWorld, InstalledComeFirst, PackageOf
      <4>2. QED
        BY <1>2, <1>4, <2>1, <2>3, <3>1, <4>1
    <3>2. CASE PackageOf(v) # p
      <4>1. \A w \in VersionsOf(PackageOf(v)) : w \in Version \ VersionsOf(p)
        BY <2>1, <3>2, WorldFacts
      <4>2. QED
        BY <1>2, <1>4, <2>3, <3>2, <4>1
    <3>3. QED
      BY <3>1, <3>2
  <2>4. QED
    BY <2>2, <2>3 DEF Filling
<1>10. QED
  BY <1>8, <1>9 DEF Filling

FillRound(par, h, p) == Populated(h, p)
FillHolds(par, n, h) == Filling(h, FirstMembers(par.list, n))
FillingAll == INSTANCE Loops WITH Round <- FillRound, Holds <- FillHolds

PopulatedAll(g) == FoldLeft(Populated, g, SetToSeq(InstalledPackages))

LEMMA PopulatedAllIs ==
  ASSUME NEW g, NEW list, list = SetToSeq(InstalledPackages)
  PROVE  PopulatedAll(g) = FillingAll!Loop([list |-> list], g, list)
BY DEF PopulatedAll, FillingAll!Loop, FillRound, FoldLeft, MapThenFoldSet, Max,
       FillingAll!MapThenFoldSet, FillingAll!Greatest

\* fill leaves no vertices but absent packages and versions, with every installed one.
LEMMA PopulatedAllFacts ==
  ASSUME InputsOK, NEW g, IsState(g), g.vertices = {}, g.edges = {}, \A v \in Version : g.seen[v] = "unknown",
         NEW h, h = PopulatedAll(g)
  PROVE  RequestsAdded(h, 0) /\ \A v \in world.installed : h.seen[v] = "vertex"
<1>1. PICK list : list = SetToSeq(InstalledPackages)
  OBVIOUS
<1>2. PICK par : par = [list |-> list]
  OBVIOUS
<1>3. InstalledPackages \subseteq Package /\ IsFiniteSet(InstalledPackages)
  <2>1. InstalledPackages \subseteq Package
    BY WorldFacts DEF InstalledPackages
  <2>2. QED
    BY <2>1, WorldFacts, FS_Subset
<1>4. IsSeq(list) /\ Len(list) \in Nat /\ DOMAIN list = 1..Len(list) /\ InstalledPackages = FirstMembers(list, Len(list))
  BY <1>1, <1>3, SetAsSeq
<1>5. \A n, z : FillHolds(par, n, z) <=> Filling(z, FirstMembers(list, n))
  BY <1>2 DEF FillHolds
<1>6. FillHolds(par, 0, g)
  <2>1. RequestsAdded(g, 0)
    BY DEF RequestsAdded, RemovableOnly
  <2>2. Filling(g, {})
    BY <2>1, WorldFacts DEF Filling
  <2>3. QED
    BY <1>5, <2>2, NoMembers
<1>7. ASSUME NEW i \in 1..Len(list), NEW z, FillHolds(par, i - 1, z)
      PROVE  FillHolds(par, i, FillRound(par, z, list[i]))
  <2>1. PICK p, k, done : p = list[i] /\ k = Populated(z, p) /\ done = FirstMembers(list, i - 1)
    OBVIOUS
  <2>2. p \in Package /\ FirstMembers(list, i) = done \cup {p}
    BY <1>3, <1>4, <2>1, MemberOfSet
  <2>3. Filling(z, done)
    BY <1>5, <1>7, <2>1
  <2>4. Filling(k, done \cup {p})
    BY <2>1, <2>2, <2>3, PopulatedFacts
  <2>5. FillRound(par, z, p) = k
    BY <2>1 DEF FillRound
  <2>6. QED
    BY <1>5, <2>1, <2>2, <2>4, <2>5
<1>8. FillHolds(par, Len(list), FillingAll!Loop(par, g, list))
  <2>1. FillingAll!IsSeq(list)
    BY <1>4 DEF IsSeq, FillingAll!IsSeq
  <2>2. QED
    BY <1>6, <1>7, <2>1, FillingAll!LoopInduction
<1>9. h = FillingAll!Loop(par, g, list)
  BY <1>1, <1>2, PopulatedAllIs
<1>10. Filling(h, InstalledPackages)
  BY <1>4, <1>5, <1>8, <1>9
<1>11. \A v \in world.installed : PackageOf(v) \in InstalledPackages
  BY DEF InstalledPackages
<1>12. QED
  BY <1>10, <1>11 DEF Filling

-----------------------------------------------------------------------------
(* What the graph says of a system                                         *)

\* As far as it has been unfolded, the graph is what it should be.
GraphOK ==
  /\ Sound(Graph, FALSE) /\ RequestsDone(Graph)
  /\ \A v \in unfolded : v \in Version /\ seen[v] = "vertex" /\ LinkedToAll(Graph, v)

SystemOK(system) ==
  \A p \in Package :
    \/ \E v \in VersionsOf(p) \cap unfolded : Has(system, p, v)
    \/ system[p] = Absent(p) /\ CanBeRemoved(p)

LEMMA GraphFields == Graph.seen = seen /\ Graph.vertices = vertices /\ Graph.edges = edges
BY DEF Graph

\* What a system has of a package has been unfolded, or may be absent.
LEMMA SystemIsOK ==
  ASSUME InputsOK, GraphOK, NEW system \in Systems
  PROVE  SystemOK(system) /\ Range(system) = {system[p] : p \in Package}
<1>1. DOMAIN system = Package /\ \A p \in Package : system[p] \in Candidates(p)
  BY DEF Systems
<1>2. Range(system) = {system[p] : p \in Package}
  BY <1>1 DEF Range
<1>3. RemovableOnly(Graph)
  BY DEF GraphOK, Sound
<1>4. ASSUME NEW p \in Package
      PROVE  \/ \E v \in VersionsOf(p) \cap unfolded : Has(system, p, v)
             \/ system[p] = Absent(p) /\ CanBeRemoved(p)
  <2>1. CASE \E v \in VersionsOf(p) \cap unfolded : system[p] = VersionVertex(v)
    BY <2>1 DEF Has
  <2>2. CASE ~(p \in InstalledPackages /\ Absent(p) \notin vertices) /\ system[p] = Absent(p)
    <3>1. CASE Absent(p) \in vertices
      BY <1>3, <2>2, <3>1, GraphFields DEF RemovableOnly
    <3>2. CASE p \notin InstalledPackages
      <4>1. VersionsOf(p) \cap world.installed = {}
        BY <3>2, WorldFacts DEF InstalledPackages
      <4>2. QED
        BY <2>2, <4>1 DEF CanBeRemoved, VersionsOf
    <3>3. QED
      BY <2>2, <3>1, <3>2
  <2>3. QED
    BY <1>1, <2>1, <2>2 DEF Candidates, VersionsOf
<1>5. QED
  BY <1>2, <1>4 DEF SystemOK

\* A vertex means one thing.
LEMMA MeansOnce ==
  ASSUME NEW x, NEW T, NEW P, Means(x, T, P), NEW U, NEW Q, Means(x, U, Q)
  PROVE  T = U /\ P = Q
BY DEF Means, RelationVertex, SyncVertex, SameSource

LEMMA VersionMeansNothing ==
  /\ \A v, T, P : ~Means(VersionVertex(v), T, P)
  /\ \A T, P : ~Means(User, T, P)
BY DEF Means, RelationVertex, SyncVertex, VersionVertex, User

LEMMA WantedMeans ==
  ASSUME InputsOK, NEW v \in Version, NEW y, Wants(v, y)
  PROVE  \E T, P : Means(y, T, P)
<1>1. CASE WantsSync(v, y)
  BY <1>1 DEF WantsSync, Means
<1>2. CASE \E type \in Range(DependencyGroups) : \E e \in Range(world.relations[v][type]) : WantsBy(v, type, e, y)
  <2>1. PICK type \in Range(DependencyGroups) : \E e \in Range(world.relations[v][type]) : WantsBy(v, type, e, y)
    BY <1>2
  <2>5. PICK e \in Range(world.relations[v][type]) : WantsBy(v, type, e, y)
    BY <2>1
  <2>2. type \in RelationType
    BY GroupFacts, SeqIsSeq
  <2>3. e \in Expression
    BY <2>2, RelationFacts
  <2>4. QED
    BY <2>5, <2>2, <2>3 DEF WantsBy, Means
<1>3. QED
  BY <1>1, <1>2 DEF Wants

\* The edges of the graph are there for a reason.
LEMMA EdgeIsLegit ==
  ASSUME GraphOK, NEW x, NEW y
  PROVE  /\ y \in Successors(x) <=> <<x, y>> \in edges
         /\ <<x, y>> \in edges => LegitEdge(<<x, y>>)
<1>1. \A e \in edges : LegitEdge(e)
  BY GraphFields DEF GraphOK, Sound
<1>2. \A e : LegitEdge(e) => e = <<e[1], e[2]>>
  BY DEF LegitEdge, AnswerEdge, ExcuseEdge
<1>3. y \in Successors(x) => <<x, y>> \in edges
  BY <1>1, <1>2 DEF Successors
<1>4. <<x, y>> \in edges => y \in Successors(x)
  BY DEF Successors
<1>5. QED
  BY <1>1, <1>3, <1>4

Answers(system, T, P) ==
  \/ \E p \in Package : \E v \in T : Has(system, p, v)
  \/ \E p \in P : system[p] = Absent(p)

\* A system meets a vertex exactly if it has what the vertex means.
LEMMA MetIff ==
  ASSUME InputsOK, GraphOK, NEW system \in Systems, NEW y \in vertices, NEW T, NEW P, Means(y, T, P)
  PROVE  Met(system, y) <=> Answers(system, T, P)
<1>1. SystemOK(system) /\ Range(system) = {system[p] : p \in Package}
  BY SystemIsOK
<1>2. Filled(Graph, y, T, P, FALSE)
  BY GraphFields DEF GraphOK, Sound, Complete
<1>3. T \in SUBSET Version /\ P \in SUBSET Package
  BY MeansVersions
<1>4. \A v, w : VersionVertex(v) = VersionVertex(w) => v = w
  BY DEF VersionVertex
<1>5. \A p, q : Absent(p) = Absent(q) => p = q
  BY DEF Absent
<1>6. \A v, p : VersionVertex(v) # Absent(p)
  BY DEF VersionVertex, Absent
<1>7. ASSUME NEW p \in Package, NEW v \in T, Has(system, p, v) PROVE Met(system, y)
  <2>1. PICK w \in VersionsOf(p) \cap unfolded : Has(system, p, w)
    BY <1>1, <1>6, <1>7 DEF SystemOK, Has
  <2>2. w = v
    BY <1>4, <1>7, <2>1 DEF Has
  <2>3. seen[v] = "vertex"
    BY <2>1, <2>2 DEF GraphOK
  <2>4. <<y, VersionVertex(v)>> \in edges
    BY <1>2, <2>3, GraphFields DEF Filled, Answered
  <2>5. VersionVertex(v) \in Successors(y)
    BY <2>4, EdgeIsLegit
  <2>6. QED
    BY <1>1, <1>7, <2>5 DEF Met, Has
<1>8. ASSUME NEW p \in P, system[p] = Absent(p) PROVE Met(system, y)
  <2>1. CanBeRemoved(p) /\ p \in Package
    BY <1>1, <1>3, <1>6, <1>8 DEF SystemOK, Has
  <2>2. <<y, Absent(p)>> \in edges
    BY <1>2, <2>1, GraphFields DEF Filled
  <2>3. Absent(p) \in Successors(y)
    BY <2>2, EdgeIsLegit
  <2>4. QED
    BY <1>1, <1>8, <2>1, <2>3 DEF Met
<1>9. ASSUME Met(system, y) PROVE Answers(system, T, P)
  <2>1. PICK q \in Package : system[q] \in Successors(y)
    BY <1>1, <1>9 DEF Met
  <2>2. PICK z : z = system[q] /\ LegitEdge(<<y, z>>)
    BY <2>1, EdgeIsLegit
  <2>3. ~IsUnsatisfied(z)
    BY <1>1, <2>2 DEF SystemOK, Has, IsUnsatisfied, VersionVertex, Absent
  <2>4. \A v : y # VersionVertex(v)
    BY VersionMeansNothing
  <2>5. y # User
    BY VersionMeansNothing
  <2>6. PICK x, U, Q : Means(x, U, Q) /\ (AnswerEdge(<<y, z>>, x, U, Q) \/ ExcuseEdge(<<y, z>>, x))
    BY <2>2, <2>4, <2>5 DEF LegitEdge
  <2>7. ~ExcuseEdge(<<y, z>>, x)
    BY <2>3 DEF ExcuseEdge
  <2>8. x = y /\ ((\E v \in U : z = VersionVertex(v)) \/ \E p \in Q : z = Absent(p))
    BY <2>6, <2>7 DEF AnswerEdge
  <2>9. U = T /\ Q = P
    BY <2>6, <2>8, MeansOnce
  <2>10. CASE \E v \in T : z = VersionVertex(v)
    BY <2>2, <2>10 DEF Answers, Has
  <2>11. CASE \E p \in P : z = Absent(p)
    <3>1. PICK p \in P : z = Absent(p)
      BY <2>11
    <3>2. z = Absent(q)
      BY <1>1, <1>6, <2>2, <3>1 DEF SystemOK, Has
    <3>3. p = q
      BY <1>5, <3>1, <3>2
    <3>4. QED
      BY <2>2, <3>1, <3>3 DEF Answers
  <2>12. QED
    BY <2>8, <2>9, <2>10, <2>11
<1>10. QED
  BY <1>7, <1>8, <1>9 DEF Answers

\* A vertex may be unmet exactly if it is soft.
LEMMA UnmetIff ==
  ASSUME GraphOK, NEW y \in vertices, NEW T, NEW P, Means(y, T, P)
  PROVE  MayBeUnmet(y) <=> IsSoft(y)
<1>1. ASSUME IsSoft(y) PROVE MayBeUnmet(y)
  <2>1. HasExcuse(Graph, y)
    BY <1>1, GraphFields DEF GraphOK, Sound, Complete
  <2>2. PICK z : IsUnsatisfied(z) /\ <<y, z>> \in edges
    BY <2>1, GraphFields DEF HasExcuse, ExcuseEdge
  <2>3. z \in Successors(y)
    BY <2>2, EdgeIsLegit
  <2>4. QED
    BY <2>2, <2>3 DEF MayBeUnmet, IsUnsatisfied
<1>2. ASSUME MayBeUnmet(y) PROVE IsSoft(y)
  <2>1. PICK z \in Successors(y) : z[1] = "unsatisfied"
    BY <1>2 DEF MayBeUnmet
  <2>2. LegitEdge(<<y, z>>)
    BY EdgeIsLegit
  <2>3. (\A v : z # VersionVertex(v)) /\ \A p : z # Absent(p)
    BY <2>1 DEF VersionVertex, Absent
  <2>4. (\A v : y # VersionVertex(v)) /\ y # User
    BY VersionMeansNothing
  <2>5. PICK x, U, Q : Means(x, U, Q) /\ (AnswerEdge(<<y, z>>, x, U, Q) \/ (IsSoft(x) /\ ExcuseEdge(<<y, z>>, x)))
    BY <2>2, <2>4 DEF LegitEdge
  <2>6. ~AnswerEdge(<<y, z>>, x, U, Q)
    BY <2>3 DEF AnswerEdge
  <2>7. IsSoft(x) /\ x = y
    BY <2>5, <2>6 DEF ExcuseEdge
  <2>8. QED
    BY <2>7
<1>3. QED
  BY <1>1, <1>2

\* What the wishes for a vertex come to.
Granted(system, y) == IsSoft(y) \/ \E T, P : Means(y, T, P) /\ Answers(system, T, P)

LEMMA GrantedIff ==
  ASSUME InputsOK, GraphOK, NEW system \in Systems, NEW y \in vertices, \E T, P : Means(y, T, P)
  PROVE  (Met(system, y) \/ MayBeUnmet(y)) <=> Granted(system, y)
<1>1. PICK T, P : Means(y, T, P)
  OBVIOUS
<1>2. Met(system, y) <=> Answers(system, T, P)
  BY <1>1, MetIff
<1>3. MayBeUnmet(y) <=> IsSoft(y)
  BY <1>1, UnmetIff
<1>4. (\E U, Q : Means(y, U, Q) /\ Answers(system, U, Q)) <=> Answers(system, T, P)
  BY <1>1, MeansOnce
<1>5. QED
  BY <1>2, <1>3, <1>4 DEF Granted

\* The graph allows a system exactly if all that its versions and the user want is granted.
LEMMA AllowsIff ==
  ASSUME InputsOK, GraphOK, NEW system \in Systems
  PROVE  GraphAllows(system) <=>
           /\ \A p \in Package : \A v \in Version : Has(system, p, v) => \A y : Wants(v, y) => Granted(system, y)
           /\ \A i \in DOMAIN requests : \A y : RequestName(i, y) => Granted(system, y)
<1>1. SystemOK(system) /\ Range(system) = {system[p] : p \in Package}
  BY SystemIsOK
<1>2. ASSUME NEW v \in unfolded, NEW y
      PROVE  /\ y \in Successors(VersionVertex(v)) <=> Wants(v, y)
             /\ Wants(v, y) => (Met(system, y) \/ MayBeUnmet(y) <=> Granted(system, y))
  <2>1. v \in Version /\ LinkedToAll(Graph, v)
    BY DEF GraphOK
  <2>2. ASSUME Wants(v, y) PROVE y \in vertices /\ <<VersionVertex(v), y>> \in edges
    BY <2>1, <2>2, GraphFields DEF LinkedToAll, Linked
  <2>3. ASSUME y \in Successors(VersionVertex(v)) PROVE Wants(v, y)
    <3>1. LegitEdge(<<VersionVertex(v), y>>)
      BY <2>3, EdgeIsLegit
    <3>2. \A x, T, P : Means(x, T, P) => x # VersionVertex(v)
      BY VersionMeansNothing
    <3>3. User # VersionVertex(v)
      BY DEF User, VersionVertex
    <3>4. PICK w \in Version : \E z : Wants(w, z) /\ <<VersionVertex(v), y>> = <<VersionVertex(w), z>>
      BY <3>1, <3>2, <3>3 DEF LegitEdge, AnswerEdge, ExcuseEdge
    <3>5. w = v
      BY <3>4 DEF VersionVertex
    <3>6. QED
      BY <3>4, <3>5
  <2>4. Wants(v, y) => y \in Successors(VersionVertex(v))
    BY <2>2, EdgeIsLegit
  <2>5. ASSUME Wants(v, y) PROVE Met(system, y) \/ MayBeUnmet(y) <=> Granted(system, y)
    <3>1. y \in vertices /\ \E T, P : Means(y, T, P)
      BY <2>1, <2>2, <2>5, WantedMeans
    <3>2. QED
      BY <3>1, GrantedIff
  <2>6. QED
    BY <2>3, <2>4, <2>5
<1>3. ASSUME NEW p, NEW y PROVE y \notin Successors(Absent(p))
  <2>1. SUFFICES ASSUME y \in Successors(Absent(p)) PROVE FALSE
    OBVIOUS
  <2>2. LegitEdge(<<Absent(p), y>>)
    BY <2>1, EdgeIsLegit
  <2>3. \A v : Absent(p) # VersionVertex(v)
    BY DEF Absent, VersionVertex
  <2>4. Absent(p) # User
    BY DEF Absent, User
  <2>5. \A T, P : ~Means(Absent(p), T, P)
    BY AbsentMeansNothing
  <2>6. QED
    BY <2>2, <2>3, <2>4, <2>5 DEF LegitEdge, AnswerEdge, ExcuseEdge
<1>4. ASSUME NEW y
      PROVE  /\ y \in Successors(User) <=> \E i \in DOMAIN requests : RequestName(i, y)
             /\ y \in Successors(User) => (Met(system, y) \/ MayBeUnmet(y) <=> Granted(system, y))
  <2>1. ASSUME NEW i \in DOMAIN requests, RequestName(i, y) PROVE y \in vertices /\ <<User, y>> \in edges
    BY <2>1, GraphFields DEF GraphOK, RequestsDone
  <2>2. ASSUME y \in Successors(User) PROVE \E i \in DOMAIN requests : RequestName(i, y)
    <3>1. LegitEdge(<<User, y>>)
      BY <2>2, EdgeIsLegit
    <3>2. \A x, T, P : Means(x, T, P) => x # User
      BY VersionMeansNothing
    <3>3. \A v : User # VersionVertex(v)
      BY DEF User, VersionVertex
    <3>4. QED
      BY <3>1, <3>2, <3>3 DEF LegitEdge, AnswerEdge, ExcuseEdge
  <2>3. ASSUME NEW i \in DOMAIN requests, RequestName(i, y) PROVE y \in Successors(User)
    BY <2>1, <2>3, EdgeIsLegit
  <2>4. ASSUME NEW i \in DOMAIN requests, RequestName(i, y)
        PROVE  Met(system, y) \/ MayBeUnmet(y) <=> Granted(system, y)
    <3>1. \E T, P : Means(y, T, P)
      BY <2>4 DEF Means, RequestName
    <3>2. y \in vertices
      BY <2>1, <2>4
    <3>3. QED
      BY <3>1, <3>2, GrantedIff
  <2>5. QED
    BY <2>2, <2>3, <2>4
<1> DEFINE Fine(x) == \A y \in Successors(x) : Met(system, y) \/ MayBeUnmet(y)
<1>5. GraphAllows(system) <=> (\A p \in Package : Fine(system[p])) /\ Fine(User)
  BY <1>1 DEF GraphAllows
<1>6. Fine(User) <=> \A i \in DOMAIN requests : \A y : RequestName(i, y) => Granted(system, y)
  BY <1>4
<1>7. ASSUME NEW v \in unfolded PROVE Fine(VersionVertex(v)) <=> \A y : Wants(v, y) => Granted(system, y)
  BY <1>2
<1>8. \A p : Fine(Absent(p))
  BY <1>3
<1> HIDE DEF Fine
<1>9. ASSUME NEW p \in Package
      PROVE  Fine(system[p]) <=> \A v \in Version : Has(system, p, v) => \A y : Wants(v, y) => Granted(system, y)
  <2>1. CASE \E v \in VersionsOf(p) \cap unfolded : Has(system, p, v)
    <3>1. PICK v \in unfolded : Has(system, p, v)
      BY <2>1
    <3>2. v \in Version
      BY DEF GraphOK
    <3>3. \A w \in Version : Has(system, p, w) <=> w = v
      BY <3>1 DEF Has, VersionVertex
    <3>4. system[p] = VersionVertex(v)
      BY <3>1 DEF Has
    <3>5. QED
      BY <1>7, <3>2, <3>3, <3>4
  <2>2. CASE system[p] = Absent(p)
    <3>1. \A w : ~Has(system, p, w)
      BY <2>2 DEF Has, Absent, VersionVertex
    <3>2. QED
      BY <1>8, <2>2, <3>1
  <2>3. QED
    BY <1>1, <2>1, <2>2 DEF SystemOK
<1>10. QED
  BY <1>5, <1>6, <1>9

\* A system has one version of a package at most.
LEMMA HeldVersion ==
  ASSUME InputsOK, GraphOK, NEW system \in Systems, NEW p \in Package, NEW v, Has(system, p, v)
  PROVE  /\ v \in VersionsOf(p) /\ v \in Version /\ PackageOf(v) = p
         /\ \A w : Has(system, p, w) => w = v
<1>1. SystemOK(system)
  BY SystemIsOK
<1>2. \A w, u : VersionVertex(w) = VersionVertex(u) => w = u
  BY DEF VersionVertex
<1>3. VersionVertex(v) # Absent(p)
  BY DEF VersionVertex, Absent
<1>4. PICK w \in VersionsOf(p) \cap unfolded : Has(system, p, w)
  BY <1>1, <1>3 DEF SystemOK, Has
<1>5. w = v
  BY <1>2, <1>4 DEF Has
<1>6. v \in VersionsOf(p) /\ v \in Version
  BY <1>4, <1>5 DEF GraphOK
<1>7. PackageOf(v) = p
  BY <1>6, WorldFacts
<1>8. QED
  BY <1>2, <1>6, <1>7 DEF Has

\* Only some versions of a package, or none: what a system has of it is one of them.
LEMMA OnlyThese ==
  ASSUME InputsOK, GraphOK, NEW system \in Systems, NEW p \in Package, NEW S
  PROVE  Answers(system, VersionsOf(p) \cap S, {p}) <=> \A w \in Version : Has(system, p, w) => w \in S
<1>1. SystemOK(system)
  BY SystemIsOK
<1>2. ASSUME Answers(system, VersionsOf(p) \cap S, {p}), NEW w \in Version, Has(system, p, w)
      PROVE  w \in S
  <2>1. system[p] # Absent(p)
    BY <1>2 DEF Has, VersionVertex, Absent
  <2>2. PICK q \in Package : \E v \in VersionsOf(p) \cap S : Has(system, q, v)
    BY <1>2, <2>1 DEF Answers
  <2>3. PICK v \in VersionsOf(p) \cap S : Has(system, q, v)
    BY <2>2
  <2>4. v \in Version /\ PackageOf(v) = q
    BY <2>3, HeldVersion
  <2>5. PackageOf(v) = p
    BY <2>3, <2>4, WorldFacts
  <2>6. Has(system, p, v)
    BY <2>3, <2>4, <2>5
  <2>7. w = v
    BY <1>2, <2>6, HeldVersion
  <2>8. QED
    BY <2>3, <2>7
<1>3. ASSUME \A w \in Version : Has(system, p, w) => w \in S
      PROVE  Answers(system, VersionsOf(p) \cap S, {p})
  <2>1. CASE \E v \in VersionsOf(p) \cap unfolded : Has(system, p, v)
    <3>1. PICK v \in VersionsOf(p) \cap unfolded : Has(system, p, v)
      BY <2>1
    <3>2. v \in S
      BY <1>3, <3>1, HeldVersion
    <3>3. QED
      BY <3>1, <3>2 DEF Answers
  <2>2. CASE system[p] = Absent(p)
    BY <2>2 DEF Answers
  <2>3. QED
    BY <1>1, <2>1, <2>2 DEF SystemOK
<1>4. QED
  BY <1>2, <1>3

\* What is granted: a dependency which is satisfied or soft,
LEMMA GrantedRelation ==
  ASSUME NEW system, NEW type \in RelationType \ Anti, NEW e \in Expression
  PROVE  Granted(system, RelationVertex(type, e)) <=> type \in Soft \/ Satisfied(system, e)
<1>1. IsSoft(RelationVertex(type, e)) <=> type \in Soft
  BY SoftFacts
<1>2. Answers(system, Satisfying(e), {}) <=> Satisfied(system, e)
  BY DEF Answers, Satisfied
<1>3. QED
  BY <1>1, <1>2, RelationMeans DEF Granted

\* a conflict which no version of the package takes part in,
LEMMA GrantedAnti ==
  ASSUME InputsOK, GraphOK, NEW system \in Systems, NEW type \in Anti, NEW e \in Expression, NEW p \in HitPackages(e)
  PROVE  Granted(system, <<"anti", type, e, p>>) <=> \A w \in Satisfying(e) : ~Has(system, p, w)
<1>1. p \in Package /\ Satisfying(e) \subseteq Version /\ VersionsOf(p) \subseteq Version
  BY WorldFacts
<1>2. VersionsOf(p) \ Satisfying(e) = VersionsOf(p) \cap (Version \ Satisfying(e))
  BY <1>1
<1>3. Answers(system, VersionsOf(p) \ Satisfying(e), {p})
        <=> \A w \in Version : Has(system, p, w) => w \in Version \ Satisfying(e)
  BY <1>1, <1>2, OnlyThese
<1>4. ~IsSoft(<<"anti", type, e, p>>)
  BY SoftFacts
<1>5. Granted(system, <<"anti", type, e, p>>) <=> Answers(system, VersionsOf(p) \ Satisfying(e), {p})
  BY <1>4, AntiMeans DEF Granted
<1>6. QED
  BY <1>1, <1>3, <1>5

\* a package of the same source version if that is demanded,
LEMMA GrantedSync ==
  ASSUME InputsOK, GraphOK, NEW system \in Systems, NEW v \in Version, NEW p \in SyncPackages(world.source[v])
  PROVE  Granted(system, SyncVertex(world.source[v], p)) <=>
           options.synchronize = 1 \/ \A w \in Version : Has(system, p, w) => w \in SameSource(world.source[v])
<1>1. p \in Package
  BY WorldFacts
<1>2. IsSoft(SyncVertex(world.source[v], p)) <=> options.synchronize = 1
  BY SoftFacts
<1>3. PICK y, S : y = SyncVertex(world.source[v], p) /\ S = VersionsOf(p) \cap SameSource(world.source[v])
  OBVIOUS
<1>4. \A T, P : Means(y, T, P) <=> T = S /\ P = {p}
  BY <1>3, SyncMeans
<1>5. IsSoft(y) <=> options.synchronize = 1
  BY <1>2, <1>3
<1>6. Granted(system, y) <=> options.synchronize = 1 \/ Answers(system, S, {p})
  BY <1>4, <1>5 DEF Granted
<1>7. Answers(system, S, {p}) <=> \A w \in Version : Has(system, p, w) => w \in SameSource(world.source[v])
  BY <1>1, <1>3, OnlyThese
<1>8. QED
  BY <1>3, <1>6, <1>7

\* and a request which is met.
LEMMA GrantedRequest ==
  ASSUME InputsOK, GraphOK, NEW system \in Systems, NEW i \in DOMAIN requests
  PROVE  (\A y : RequestName(i, y) => Granted(system, y)) <=> RequestMet(system, requests[i])
<1>1. PICK e : e = requests[i].expression
  OBVIOUS
<1>2. e \in Expression /\ requests[i].invert \in BOOLEAN
  BY <1>1 DEF InputsOK, Expression
<1>3. \A y : RequestName(i, y) => (IsSoft(y) <=> ~requests[i].must)
  BY SoftFacts
<1>4. CASE requests[i].invert
  <2>1. ASSUME NEW p \in HitPackages(e)
        PROVE  Granted(system, <<"request", i, p>>) <=>
                 ~requests[i].must \/ \A w \in Satisfying(e) : ~Has(system, p, w)
    <3>1. RequestName(i, <<"request", i, p>>)
      BY <1>1, <1>4 DEF RequestName
    <3>2. \A T, P : Means(<<"request", i, p>>, T, P) <=> T = VersionsOf(p) \ Satisfying(e) /\ P = {p}
      BY <1>1, <1>4, <3>1, RequestMeans
    <3>3. p \in Package /\ Satisfying(e) \subseteq Version /\ VersionsOf(p) \subseteq Version
      BY <1>2, WorldFacts
    <3>4. VersionsOf(p) \ Satisfying(e) = VersionsOf(p) \cap (Version \ Satisfying(e))
      BY <3>3
    <3>5. Answers(system, VersionsOf(p) \ Satisfying(e), {p})
            <=> \A w \in Version : Has(system, p, w) => w \in Version \ Satisfying(e)
      BY <3>3, <3>4, OnlyThese
    <3>6. Granted(system, <<"request", i, p>>) <=>
            ~requests[i].must \/ Answers(system, VersionsOf(p) \ Satisfying(e), {p})
      BY <1>3, <3>1, <3>2 DEF Granted
    <3>7. QED
      BY <3>3, <3>5, <3>6
  <2>2. \A y : RequestName(i, y) <=> \E p \in HitPackages(e) : y = <<"request", i, p>>
    BY <1>1, <1>4 DEF RequestName
  <2>3. (\A y : RequestName(i, y) => Granted(system, y)) <=>
          \A p \in HitPackages(e) : ~requests[i].must \/ \A w \in Satisfying(e) : ~Has(system, p, w)
    BY <2>1, <2>2
  <2>4. Satisfied(system, e) <=> \E p \in HitPackages(e) : \E w \in Satisfying(e) : Has(system, p, w)
    <3>1. ASSUME NEW p \in Package, NEW w \in Satisfying(e), Has(system, p, w) PROVE p \in HitPackages(e)
      BY <3>1, HeldVersion DEF HitPackages
    <3>2. HitPackages(e) \subseteq Package
      BY <1>2, WorldFacts
    <3>3. QED
      BY <3>1, <3>2 DEF Satisfied
  <2>5. RequestMet(system, requests[i]) <=> (requests[i].must => ~Satisfied(system, e))
    BY <1>1, <1>4 DEF RequestMet
  <2>6. QED
    BY <2>3, <2>4, <2>5
<1>5. CASE ~requests[i].invert
  <2>1. \A y : RequestName(i, y) <=> y = <<"request", i, "any">>
    BY <1>5 DEF RequestName
  <2>2. \A T, P : Means(<<"request", i, "any">>, T, P) <=> T = Satisfying(e) /\ P = {}
    BY <1>1, <1>5, <2>1, RequestMeans
  <2>3. Answers(system, Satisfying(e), {}) <=> Satisfied(system, e)
    BY DEF Answers, Satisfied
  <2>4. Granted(system, <<"request", i, "any">>) <=> ~requests[i].must \/ Satisfied(system, e)
    BY <1>3, <2>1, <2>2, <2>3 DEF Granted
  <2>5. RequestMet(system, requests[i]) <=> (requests[i].must => Satisfied(system, e))
    BY <1>1, <1>5 DEF RequestMet
  <2>6. QED
    BY <2>1, <2>4, <2>5
<1>6. QED
  BY <1>4, <1>5

\* All that a version wants is granted exactly if its relations hold.
LEMMA WishesMeanRelations ==
  ASSUME InputsOK, GraphOK, NEW system \in Systems, NEW v \in Version
  PROVE  (\A y : Wants(v, y) => Granted(system, y)) <=>
           DependenciesMet(system, v) /\ NothingExcluded(system, v) /\ Synchronized(system, v)
<1>1. \A type \in RelationType : \A e \in Range(world.relations[v][type]) : e \in Expression
  BY RelationFacts
<1>2. \A type \in Range(DependencyGroups) : type \in RelationType
  BY GroupFacts, SeqIsSeq
<1>3. ASSUME \A y : Wants(v, y) => Granted(system, y) PROVE DependenciesMet(system, v)
  <2>1. SUFFICES ASSUME NEW type \in {"PreDepends", "Depends"}, NEW e \in Range(world.relations[v][type])
                 PROVE  Satisfied(system, e)
    BY DEF DependenciesMet
  <2>2. type \in RelationType \ Anti /\ type \notin Soft /\ type \in Range(DependencyGroups)
    BY GroupFacts DEF RelationType, Strong, Soft, Anti
  <2>3. Wants(v, RelationVertex(type, e))
    BY <2>2 DEF Wants, WantsBy
  <2>4. e \in Expression
    BY <1>1, <2>2
  <2>5. QED
    BY <1>3, <2>2, <2>3, <2>4, GrantedRelation
<1>4. ASSUME \A y : Wants(v, y) => Granted(system, y) PROVE NothingExcluded(system, v)
  <2>1. SUFFICES ASSUME NEW type \in Anti, NEW e \in Range(world.relations[v][type]),
                        NEW q \in Package \ {PackageOf(v)}, NEW w \in Satisfying(e), Has(system, q, w)
                 PROVE  FALSE
    BY DEF NothingExcluded
  <2>2. type \in RelationType /\ type \in Range(DependencyGroups)
    BY GroupFacts DEF RelationType, Strong, Soft, Anti
  <2>3. q \in HitPackages(e)
    BY <2>1, HeldVersion DEF HitPackages
  <2>4. Wants(v, <<"anti", type, e, q>>)
    BY <2>2, <2>3 DEF Wants, WantsBy
  <2>5. e \in Expression
    BY <1>1, <2>2
  <2>6. QED
    BY <1>4, <2>1, <2>3, <2>4, <2>5, GrantedAnti
<1>5. ASSUME \A y : Wants(v, y) => Granted(system, y) PROVE Synchronized(system, v)
  <2>1. SUFFICES ASSUME options.synchronize = 2, v \notin world.installed,
                        NEW q \in SyncPackages(world.source[v]) \ {PackageOf(v)},
                        NEW w \in Version, Has(system, q, w)
                 PROVE  world.source[w][2] = world.source[v][2]
    BY DEF Synchronized
  <2>2. Wants(v, SyncVertex(world.source[v], q))
    BY <2>1 DEF Wants, WantsSync
  <2>3. w \in SameSource(world.source[v])
    BY <1>5, <2>1, <2>2, GrantedSync
  <2>4. QED
    BY <2>3 DEF SameSource
<1>6. ASSUME DependenciesMet(system, v), NothingExcluded(system, v), Synchronized(system, v), NEW y, Wants(v, y)
      PROVE  Granted(system, y)
  <2>1. CASE WantsSync(v, y)
    <3>1. PICK p \in SyncPackages(world.source[v]) \ {PackageOf(v)} : y = SyncVertex(world.source[v], p)
      BY <2>1 DEF WantsSync
    <3>2. options.synchronize = 1 \/ options.synchronize = 2
      BY <2>1 DEF WantsSync, InputsOK
    <3>3. v \notin world.installed /\ p \in SyncPackages(world.source[v]) \ {PackageOf(v)}
      BY <2>1, <3>1 DEF WantsSync
    <3>4. options.synchronize = 2 =>
            \A w \in Version : Has(system, p, w) => w \in SameSource(world.source[v])
      BY <1>6, <3>3 DEF Synchronized, SameSource
    <3>5. QED
      BY <3>1, <3>2, <3>4, GrantedSync
  <2>2. CASE \E type \in Range(DependencyGroups) : \E e \in Range(world.relations[v][type]) : WantsBy(v, type, e, y)
    <3>1. PICK type \in Range(DependencyGroups) : \E e \in Range(world.relations[v][type]) : WantsBy(v, type, e, y)
      BY <2>2
    <3>2. PICK e \in Range(world.relations[v][type]) : WantsBy(v, type, e, y)
      BY <3>1
    <3>3. type \in RelationType /\ e \in Expression
      BY <1>1, <1>2
    <3>4. CASE type \in Anti
      <4>1. PICK p \in HitPackages(e) \ {PackageOf(v)} : y = <<"anti", type, e, p>>
        BY <3>2, <3>4 DEF WantsBy
      <4>2. p \in Package \ {PackageOf(v)}
        BY <3>3, WorldFacts
      <4>3. \A w \in Satisfying(e) : ~Has(system, p, w)
        BY <1>6, <3>4, <4>2 DEF NothingExcluded
      <4>4. QED
        BY <3>3, <3>4, <4>1, <4>3, GrantedAnti
    <3>5. CASE type \notin Anti
      <4>1. y = RelationVertex(type, e) /\ type \in RelationType \ Anti
        BY <3>2, <3>3, <3>5 DEF WantsBy
      <4>2. type \notin Soft => type \in {"PreDepends", "Depends"}
        BY <4>1 DEF RelationType, Strong, Soft, Anti
      <4>3. type \in Soft \/ Satisfied(system, e)
        BY <1>6, <4>2 DEF DependenciesMet
      <4>4. QED
        BY <3>3, <4>1, <4>3, GrantedRelation
    <3>6. QED
      BY <3>4, <3>5
  <2>3. QED
    BY <1>6, <2>1, <2>2 DEF Wants
<1>7. QED
  BY <1>3, <1>4, <1>5, <1>6

LEMMA AllowedIsWorking ==
  ASSUME InputsOK, GraphOK, NEW system \in Systems
  PROVE  GraphAllows(system) <=> Works(system)
<1>1. \A v \in Version : (\A y : Wants(v, y) => Granted(system, y)) <=>
        DependenciesMet(system, v) /\ NothingExcluded(system, v) /\ Synchronized(system, v)
  BY WishesMeanRelations
<1>2. \A i \in DOMAIN requests :
        (\A y : RequestName(i, y) => Granted(system, y)) <=> RequestMet(system, requests[i])
  BY GrantedRequest
<1>3. GraphAllows(system) <=>
        /\ \A p \in Package : \A v \in Version : Has(system, p, v) => \A y : Wants(v, y) => Granted(system, y)
        /\ \A i \in DOMAIN requests : \A y : RequestName(i, y) => Granted(system, y)
  BY AllowsIff
<1>4. QED
  BY <1>1, <1>2, <1>3 DEF Works

-----------------------------------------------------------------------------
(* The graph grows while the inputs stay                                   *)

\* What depends on the inputs only is the same after a step.
LEMMA InputsStay ==
  ASSUME UNCHANGED <<world, options, requests>>
  PROVE  /\ Version' = Version /\ Package' = Package /\ Expression' = Expression
         /\ \A v : PackageOf(v)' = PackageOf(v)
         /\ \A p : VersionsOf(p)' = VersionsOf(p)
         /\ \A e : Satisfying(e)' = Satisfying(e)
         /\ \A p : CanBeRemoved(p)' <=> CanBeRemoved(p)
         /\ \A v, t, e : SoftIgnored(v, t, e)' <=> SoftIgnored(v, t, e)
         /\ DependencyGroups' = DependencyGroups
         /\ InputsOK' <=> InputsOK
<1>2. \A e : Satisfying(e)' = Satisfying(e)
  BY DEF Satisfying
<1>3. \A v, t, e : SoftIgnored(v, t, e)' <=> SoftIgnored(v, t, e)
  BY <1>2 DEF SoftIgnored, PackageOf
<1>4. QED
  BY <1>2, <1>3 DEF Version, Package, Expression, PackageOf, VersionsOf, CanBeRemoved, DependencyGroups, InputsOK

LEMMA SetsStay ==
  ASSUME UNCHANGED <<world, options, requests>>
  PROVE  /\ \A e : HitPackages(e)' = HitPackages(e)
         /\ \A s : SyncPackages(s)' = SyncPackages(s)
         /\ \A s : SameSource(s)' = SameSource(s)
         /\ InstalledPackages' = InstalledPackages
BY InputsStay DEF HitPackages, SyncPackages, SameSource, InstalledPackages

LEMMA RequestNamesStay ==
  ASSUME UNCHANGED <<world, options, requests>>
  PROVE  \A i, x : RequestName(i, x)' <=> RequestName(i, x)
BY SetsStay DEF RequestName

LEMMA MeaningStays ==
  ASSUME UNCHANGED <<world, options, requests>>
  PROVE  /\ \A x, T, P : Means(x, T, P)' <=> Means(x, T, P)
         /\ \A x : IsSoft(x)' <=> IsSoft(x)
<1>1. \A x, T, P : Means(x, T, P)' <=> Means(x, T, P)
  BY InputsStay, SetsStay DEF Means
<1>2. \A x : IsSoft(x)' <=> IsSoft(x)
  BY RequestNamesStay DEF IsSoft
<1>3. QED
  BY <1>1, <1>2

LEMMA WishesStay ==
  ASSUME UNCHANGED <<world, options, requests>>
  PROVE  /\ \A v, y : Wants(v, y)' <=> Wants(v, y)
         /\ \A e : LegitEdge(e)' <=> LegitEdge(e)
<1>1. \A v, t, e, y : WantsBy(v, t, e, y)' <=> WantsBy(v, t, e, y)
  BY InputsStay, SetsStay DEF WantsBy
<1>2. \A v, y : WantsSync(v, y)' <=> WantsSync(v, y)
  BY InputsStay, SetsStay DEF WantsSync
<1>3. \A v, y : Wants(v, y)' <=> Wants(v, y)
  BY <1>1, <1>2, InputsStay DEF Wants
<1>4. \A e : LegitEdge(e)' <=> LegitEdge(e)
  BY <1>3, InputsStay, RequestNamesStay, MeaningStays DEF LegitEdge
<1>5. QED
  BY <1>3, <1>4

LEMMA StateStays ==
  ASSUME UNCHANGED <<world, options, requests>>
  PROVE  /\ \A h : IsState(h)' <=> IsState(h)
         /\ \A h : RemovableOnly(h)' <=> RemovableOnly(h)
         /\ \A h, x, o : Complete(h, x, o)' <=> Complete(h, x, o)
         /\ \A h : Siblings(h)' <=> Siblings(h)
<1>1. \A h, x, T, P, o : Filled(h, x, T, P, o)' <=> Filled(h, x, T, P, o)
  BY InputsStay DEF Filled
<1>2. \A h, x, o : Complete(h, x, o)' <=> Complete(h, x, o)
  BY <1>1, MeaningStays DEF Complete
<1>3. \A h : Siblings(h)' <=> Siblings(h)
  BY InputsStay, SetsStay DEF Siblings
<1>4. \A h : IsState(h)' <=> IsState(h)
  BY InputsStay DEF IsState
<1>5. \A h : RemovableOnly(h)' <=> RemovableOnly(h)
  BY InputsStay DEF RemovableOnly
<1>6. QED
  BY <1>2, <1>3, <1>4, <1>5

LEMMA SoundnessStays ==
  ASSUME UNCHANGED <<world, options, requests>>
  PROVE  /\ \A h, o : Sound(h, o)' <=> Sound(h, o)
         /\ \A h, n : RequestsAdded(h, n)' <=> RequestsAdded(h, n)
         /\ \A h : RequestsDone(h)' <=> RequestsDone(h)
         /\ \A h, v : LinkedToAll(h, v)' <=> LinkedToAll(h, v)
<1>1. \A h, o : Sound(h, o)' <=> Sound(h, o)
  BY StateStays, WishesStay DEF Sound
<1>2. \A h, n : RequestsAdded(h, n)' <=> RequestsAdded(h, n)
  BY StateStays, WishesStay, InputsStay, RequestNamesStay DEF RequestsAdded
<1>3. \A h : RequestsDone(h)' <=> RequestsDone(h)
  BY RequestNamesStay DEF RequestsDone
<1>4. \A h, v : LinkedToAll(h, v)' <=> LinkedToAll(h, v)
  BY WishesStay DEF LinkedToAll, Linked
<1>5. QED
  BY <1>1, <1>2, <1>3, <1>4

\* Graphs are compared by their fields.
LEMMA SameFields ==
  ASSUME NEW g, NEW h, DOMAIN g = {"seen", "vertices", "edges"},
         g.seen = h.seen, g.vertices = h.vertices, g.edges = h.edges
  PROVE  /\ IsState(h) => IsState(g)
         /\ \A o : Sound(h, o) => Sound(g, o)
         /\ \A n : RequestsAdded(h, n) => RequestsAdded(g, n)
         /\ RequestsDone(h) => RequestsDone(g)
         /\ \A v : LinkedToAll(h, v) => LinkedToAll(g, v)
<1>1. IsState(h) => IsState(g)
  BY DEF IsState
<1>2. RemovableOnly(h) => RemovableOnly(g)
  BY DEF RemovableOnly
<1>3. \A x, T, P, o : Filled(h, x, T, P, o) => Filled(g, x, T, P, o)
  BY DEF Filled, Answered
<1>4. \A x : HasExcuse(h, x) => HasExcuse(g, x)
  BY DEF HasExcuse
<1>5. \A x, o : Complete(h, x, o) => Complete(g, x, o)
  BY <1>3, <1>4 DEF Complete
<1>6. Siblings(h) => Siblings(g)
  BY DEF Siblings
<1>7. \A o : Sound(h, o) => Sound(g, o)
  BY <1>1, <1>2, <1>5, <1>6 DEF Sound
<1>8. \A n : RequestsAdded(h, n) => RequestsAdded(g, n)
  BY <1>1, <1>2, <1>5 DEF RequestsAdded
<1>9. RequestsDone(h) => RequestsDone(g)
  BY DEF RequestsDone
<1>10. \A v : LinkedToAll(h, v) => LinkedToAll(g, v)
  BY DEF LinkedToAll, Linked
<1>11. QED
  BY <1>1, <1>7, <1>8, <1>9, <1>10

\* The graph that a step has made is the one of the next state.
LEMMA Stored ==
  ASSUME UNCHANGED <<world, options, requests>>, NEW h, Becomes(h)
  PROVE  /\ IsState(h) => IsState(Graph)'
         /\ Sound(h, FALSE) => Sound(Graph, FALSE)'
         /\ RequestsAdded(h, 0) => RequestsAdded(Graph, 0)'
         /\ RequestsDone(h) => RequestsDone(Graph)'
         /\ \A v : LinkedToAll(h, v) => LinkedToAll(Graph, v)'
<1>1. PICK g : g = Graph'
  OBVIOUS
<1>2. /\ DOMAIN g = {"seen", "vertices", "edges"}
      /\ g.seen = h.seen /\ g.vertices = h.vertices /\ g.edges = h.edges
  BY <1>1 DEF Graph, Becomes
<1>3. /\ IsState(h) => IsState(g)
      /\ Sound(h, FALSE) => Sound(g, FALSE)
      /\ RequestsAdded(h, 0) => RequestsAdded(g, 0)
      /\ RequestsDone(h) => RequestsDone(g)
      /\ \A v : LinkedToAll(h, v) => LinkedToAll(g, v)
  BY <1>2, SameFields
<1>4. IsState(h) => IsState(Graph)'
  BY <1>1, <1>3, StateStays
<1>5. Sound(h, FALSE) => Sound(Graph, FALSE)'
  BY <1>1, <1>3, SoundnessStays
<1>6. RequestsAdded(h, 0) => RequestsAdded(Graph, 0)'
  BY <1>1, <1>3, SoundnessStays
<1>7. RequestsDone(h) => RequestsDone(Graph)'
  BY <1>1, <1>3, SoundnessStays
<1>8. \A v : LinkedToAll(h, v) => LinkedToAll(Graph, v)'
  BY <1>1, <1>3, SoundnessStays
<1>9. QED
  BY <1>4, <1>5, <1>6, <1>7, <1>8

-----------------------------------------------------------------------------
(* The invariant                                                           *)

\* Requests come to a graph in which nobody depends on anybody, and after them
\* a vertex is complete as soon as it is there: it has been linked with all that
\* satisfies it, and so is every version unfolded with all that it wants.
GraphInv ==
  /\ InputsOK
  /\ stage \in {"fill", "requests", "initial", "search"}
  /\ IsState(Graph)
  /\ stage = "fill" => vertices = {} /\ edges = {} /\ \A v \in Version : seen[v] = "unknown"
  /\ stage = "requests" => RequestsAdded(Graph, 0)
  /\ stage \in {"initial", "search"} => Sound(Graph, FALSE) /\ RequestsDone(Graph)
  /\ InstalledAreVertices
  /\ stage # "search" => unfolded = {}
  /\ unfolded \subseteq Version
  /\ \A v \in unfolded : seen[v] = "vertex" /\ LinkedToAll(Graph, v)

\* The invariant, step by step.
LEMMA InvInit ==
  ASSUME Init
  PROVE  GraphInv
<1>1. InputsOK
  BY InputsAssumption DEF Init, InputsOK
<1>2. IsState(Graph)
  BY GraphFields DEF Init, IsState, Graph
<1>3. QED
  BY <1>1, <1>2 DEF Init, GraphInv, InstalledAreVertices

LEMMA InvFill ==
  ASSUME GraphInv, Fill
  PROVE  GraphInv'
<1>1. UNCHANGED <<world, options, requests, unfolded>> /\ stage = "fill" /\ stage' = "requests"
  BY DEF Fill
<1>2. PICK h : h = PopulatedAll(Graph)
  OBVIOUS
<1>3. Becomes(h)
  BY <1>2 DEF Fill, PopulatedAll
<1>4. RequestsAdded(h, 0) /\ \A v \in world.installed : h.seen[v] = "vertex"
  BY <1>1, <1>2, GraphFields, PopulatedAllFacts DEF GraphInv
<1>5. IsState(h)
  BY <1>4 DEF RequestsAdded
<1>6. IsState(Graph)' /\ RequestsAdded(Graph, 0)'
  BY <1>1, <1>3, <1>4, <1>5, Stored
<1>7. InstalledAreVertices'
  BY <1>1, <1>3, <1>4 DEF InstalledAreVertices, Becomes
<1>8. InputsOK' /\ unfolded' = {}
  BY <1>1, InputsStay DEF GraphInv
<1>9. QED
  BY <1>1, <1>6, <1>7, <1>8 DEF GraphInv

LEMMA InvAddRequests ==
  ASSUME GraphInv, AddRequests
  PROVE  GraphInv'
<1>1. UNCHANGED <<world, options, requests, unfolded>> /\ stage = "requests" /\ stage' = "initial"
  BY DEF AddRequests
<1>2. PICK h : h = AllRequests(Graph)
  OBVIOUS
<1>3. Becomes(h)
  BY <1>2 DEF AddRequests, RequestsFirst
<1>4. RequestsAdded(h, Len(requests)) /\ Grew(Graph, h, TRUE)
  BY <1>1, <1>2, AllRequestsFacts DEF GraphInv
<1>5. Sound(h, FALSE) /\ RequestsDone(h)
  BY <1>4, RequestedIsSound DEF GraphInv
<1>6. IsState(h)
  BY <1>5 DEF Sound
<1>7. IsState(Graph)' /\ Sound(Graph, FALSE)' /\ RequestsDone(Graph)'
  BY <1>1, <1>3, <1>5, <1>6, Stored
<1>8. InstalledAreVertices'
  <2>1. \A v \in world.installed : v \in Version /\ seen[v] = "vertex"
    BY <1>1, WorldFacts DEF GraphInv, InstalledAreVertices
  <2>2. \A v \in world.installed : h.seen[v] = "vertex"
    BY <1>4, <2>1, GraphFields DEF Grew
  <2>3. QED
    BY <1>1, <1>3, <2>2 DEF InstalledAreVertices, Becomes
<1>9. InputsOK' /\ unfolded' = {}
  BY <1>1, InputsStay DEF GraphInv
<1>10. QED
  BY <1>1, <1>7, <1>8, <1>9 DEF GraphInv

LEMMA InvUnfoldInitial ==
  ASSUME GraphInv, UnfoldInitial
  PROVE  GraphInv'
<1>1. /\ UNCHANGED <<world, options, requests>> /\ unfolded' = world.installed
      /\ stage = "initial" /\ stage' = "search"
  BY DEF UnfoldInitial
<1>2. PICK h : h = AllInstalled(Graph)
  OBVIOUS
<1>3. Becomes(h)
  BY <1>2 DEF UnfoldInitial
<1>4. Sound(Graph, FALSE) /\ RequestsDone(Graph) /\ InputsOK
  BY <1>1 DEF GraphInv
<1>5. Sound(h, FALSE) /\ Grew(Graph, h, FALSE) /\ \A v \in world.installed : LinkedToAll(h, v)
  BY <1>2, <1>4, AllInstalledFacts DEF Follows
<1>6. IsState(h) /\ RequestsDone(h)
  BY <1>4, <1>5 DEF Sound, RequestsDone, Grew
<1>7. /\ IsState(Graph)' /\ Sound(Graph, FALSE)' /\ RequestsDone(Graph)'
      /\ \A v : LinkedToAll(h, v) => LinkedToAll(Graph, v)'
  BY <1>1, <1>3, <1>5, <1>6, Stored
<1>8. \A v \in world.installed : v \in Version /\ seen'[v] = "vertex"
  <2>1. \A v \in world.installed : v \in Version /\ seen[v] = "vertex"
    BY <1>1, <1>4, WorldFacts DEF GraphInv, InstalledAreVertices
  <2>2. \A v \in world.installed : h.seen[v] = "vertex"
    BY <1>5, <2>1, GraphFields DEF Grew
  <2>3. QED
    BY <1>3, <2>1, <2>2 DEF Becomes
<1>9. InstalledAreVertices'
  BY <1>1, <1>8 DEF InstalledAreVertices
<1>10. InputsOK' /\ Version' = Version
  BY <1>1, <1>4, InputsStay
<1>11. \A v \in unfolded' : seen'[v] = "vertex" /\ LinkedToAll(Graph, v)'
  BY <1>1, <1>5, <1>7, <1>8
<1>12. unfolded' \subseteq Version'
  BY <1>1, <1>8, <1>10
<1>13. QED
  BY <1>1, <1>7, <1>9, <1>10, <1>11, <1>12 DEF GraphInv

LEMMA InvUnfoldElement ==
  ASSUME GraphInv, NEW v \in Version, UnfoldElement(v)
  PROVE  GraphInv'
<1>1. /\ UNCHANGED <<world, options, requests>> /\ unfolded' = unfolded \cup {v}
      /\ stage = "search" /\ stage' = "search" /\ seen[v] = "vertex"
  BY DEF UnfoldElement
<1>2. PICK h : h = UnfoldedInto(Graph, v)
  OBVIOUS
<1>3. Becomes(h)
  BY <1>2 DEF UnfoldElement
<1>4. Sound(Graph, FALSE) /\ RequestsDone(Graph) /\ InputsOK
  BY <1>1 DEF GraphInv
<1>5. Follows(Graph, h) /\ LinkedToAll(h, v)
  BY <1>2, <1>4, UnfoldedFacts
<1>6. Sound(h, FALSE) /\ Grew(Graph, h, FALSE)
  BY <1>5 DEF Follows
<1>7. IsState(h) /\ RequestsDone(h)
  BY <1>4, <1>6 DEF Sound, RequestsDone, Grew
<1>8. /\ IsState(Graph)' /\ Sound(Graph, FALSE)' /\ RequestsDone(Graph)'
      /\ \A w : LinkedToAll(h, w) => LinkedToAll(Graph, w)'
  BY <1>1, <1>3, <1>6, <1>7, Stored
<1>9. \A w \in Version : seen[w] = "vertex" => seen'[w] = "vertex"
  BY <1>3, <1>6, GraphFields DEF Grew, Becomes
<1>10. InputsOK' /\ Version' = Version
  BY <1>1, <1>4, InputsStay
<1>11. InstalledAreVertices'
  <2>1. \A w \in world.installed : w \in Version /\ seen[w] = "vertex"
    BY <1>1, <1>4, WorldFacts DEF GraphInv, InstalledAreVertices
  <2>2. QED
    BY <1>1, <1>9, <2>1 DEF InstalledAreVertices
<1>12. unfolded' \subseteq Version'
  BY <1>1, <1>10 DEF GraphInv
<1>13. ASSUME NEW w \in unfolded' PROVE seen'[w] = "vertex" /\ LinkedToAll(Graph, w)'
  <2>1. seen'[w] = "vertex"
    BY <1>1, <1>9 DEF GraphInv
  <2>2. LinkedToAll(h, w)
    <3>1. CASE w = v
      BY <1>5, <3>1
    <3>2. CASE w \in unfolded
      <4>1. LinkedToAll(Graph, w)
        BY <3>2 DEF GraphInv
      <4>2. QED
        BY <1>6, <4>1 DEF LinkedToAll, Linked, Grew
    <3>3. QED
      BY <1>1, <3>1, <3>2
  <2>3. QED
    BY <1>8, <2>1, <2>2
<1>14. QED
  BY <1>1, <1>8, <1>10, <1>11, <1>12, <1>13 DEF GraphInv

LEMMA InvStutter ==
  ASSUME GraphInv, UNCHANGED vars
  PROVE  GraphInv'
<1>1. UNCHANGED <<world, options, requests>> /\ UNCHANGED <<seen, vertices, edges, unfolded, stage>>
  BY DEF vars
<1>2. Becomes(Graph)
  BY <1>1, GraphFields DEF Becomes
<1>3. /\ IsState(Graph) => IsState(Graph)'
      /\ Sound(Graph, FALSE) => Sound(Graph, FALSE)'
      /\ RequestsAdded(Graph, 0) => RequestsAdded(Graph, 0)'
      /\ RequestsDone(Graph) => RequestsDone(Graph)'
      /\ \A v : LinkedToAll(Graph, v) => LinkedToAll(Graph, v)'
  BY <1>1, <1>2, Stored
<1>4. InputsOK' /\ Version' = Version
  BY <1>1, InputsStay DEF GraphInv
<1>5. InstalledAreVertices'
  BY <1>1 DEF InstalledAreVertices, GraphInv
<1>6. \A v \in unfolded' : seen'[v] = "vertex" /\ LinkedToAll(Graph, v)'
  BY <1>1, <1>3 DEF GraphInv
<1>7. QED
  BY <1>1, <1>3, <1>4, <1>5, <1>6 DEF GraphInv

\* In every reachable state the graph is as complete as its stage asks for.
THEOREM GraphInvariant == Spec => []GraphInv
<1>1. Init => GraphInv
  BY InvInit
<1>2. GraphInv /\ [Next]_vars => GraphInv'
  <2>1. SUFFICES ASSUME GraphInv, [Next]_vars PROVE GraphInv'
    OBVIOUS
  <2>2. CASE Fill
    BY <2>1, <2>2, InvFill
  <2>3. CASE AddRequests
    BY <2>1, <2>3, InvAddRequests
  <2>4. CASE UnfoldInitial
    BY <2>1, <2>4, InvUnfoldInitial
  <2>5. ASSUME NEW v \in Version, UnfoldElement(v) PROVE GraphInv'
    BY <2>1, <2>5, InvUnfoldElement
  <2>6. CASE UNCHANGED vars
    BY <2>1, <2>6, InvStutter
  <2>7. QED
    BY <2>1, <2>2, <2>3, <2>4, <2>5, <2>6 DEF Next
<1>3. QED
  BY <1>1, <1>2, PTL DEF Spec

\* No installed version is refused for an equal one, for any cache and whatever
\* is requested: the initial solution finds a vertex for each.
THEOREM InstalledVerticesHold == Spec => []InstalledAreVertices
<1>1. GraphInv => InstalledAreVertices
  BY DEF GraphInv
<1>2. QED
  BY <1>1, GraphInvariant, PTL

\* The graph allows the systems which the relations, the requests and the
\* synchronization allow and no others, for any cache, all options and requests
\* and every order of unfolding.
THEOREM GraphMeaningHolds == Spec => []GraphMeansDependencies
<1>1. GraphInv => GraphMeansDependencies
  <2>1. SUFFICES ASSUME GraphInv, stage = "search", NEW system \in Systems
                 PROVE  GraphAllows(system) <=> Works(system)
    BY DEF GraphMeansDependencies
  <2>2. InputsOK /\ GraphOK
    BY <2>1 DEF GraphInv, GraphOK
  <2>3. QED
    BY <2>1, <2>2, AllowedIsWorking
<1>2. QED
  BY <1>1, GraphInvariant, PTL
=============================================================================
