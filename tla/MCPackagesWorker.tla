-------------------------- MODULE MCPackagesWorker --------------------------
(***************************************************************************)
(* Instances of PackagesWorker for TLC: the scenarios which the tests in   *)
(* test/t/manage/worker/packages/dpkg schedule, systems for the other      *)
(* branches, and pairs of relations between two packages.                  *)
(***************************************************************************)
EXTENDS PackagesWorker

A1 == <<"a", 1>>    A2 == <<"a", 2>>
B1 == <<"b", 1>>    B2 == <<"b", 2>>
C1 == <<"c", 1>>    C2 == <<"c", 2>>

NoLine == [t \in DependencyTypes |-> <<>>]
PreDepends(line) == [NoLine EXCEPT !["PreDepends"] = line]
Depends(line) == [NoLine EXCEPT !["Depends"] = line]
Conflicts(line) == [NoLine EXCEPT !["Conflicts"] = line]
Breaks(line) == [NoLine EXCEPT !["Breaks"] = line]

(* a system of versions; a is marked as automatically installed *)
Sys(installed, target, relations) ==
    [packages |-> <<"a", "b", "c">>,
     installed |-> [p \in {Package(v) : v \in installed} |-> CHOOSE v \in installed : Package(v) = p],
     interim |-> {},
     purged |-> {},
     target |-> [p \in {Package(v) : v \in target} |-> CHOOSE v \in target : Package(v) = p],
     essential |-> {},
     reinstreq |-> {},
     relations |-> relations,
     sizes |-> [p \in {"a", "b", "c"} |-> 1],
     present |-> {},
     limit |-> 0,
     auto |-> {"a"} \cap {Package(v) : v \in installed},
     overrides |-> <<>>,
     asAuto |-> {}]

-----------------------------------------------------------------------------
(* tests *)
DependencyOfUnchanged ==
    Sys({A1, C1}, {B2, C1}, C1 :> Depends(<<{A1, B2}>>) @@ A1 :> Conflicts(<<{B2}>>))
Chained == Sys({C1}, {A2, B2}, A2 :> PreDepends(<<{B2}>>) @@ B2 :> Breaks(<<{C1}>>))
Lockstep == Sys({A1, B1}, {A2, B2}, A1 :> Depends(<<{B1}>>) @@ A2 :> Depends(<<{B2}>>))
LockstepPre == Sys({A1, B1}, {A2, B2}, A1 :> PreDepends(<<{B1}>>) @@ A2 :> PreDepends(<<{B2}>>))
Replaced == Sys({A1}, {A2, B2}, A2 :> Depends(<<{B2}>>) @@ B2 :> Conflicts(<<{A1}>>))
TestSystems == {DependencyOfUnchanged, Chained, Lockstep, LockstepPre, Replaced}

(* circles: of dependencies, of breaks, of conflicts and pre-dependencies *)
Circle == Sys({}, {A2, B2}, A2 :> Depends(<<{B2}>>) @@ B2 :> Depends(<<{A2}>>))
BreaksCircle ==
    [Sys({A1, B1}, {A2, B2}, A2 :> Breaks(<<{B1}>>) @@ B2 :> Breaks(<<{A1}>>)) EXCEPT !.essential = {"a", "b"}]
PreCircle == Sys({}, {A2, B2}, A2 :> PreDepends(<<{B2}>>) @@ B2 :> PreDepends(<<{A2}>>))
CircleSystems == {Circle, BreaksCircle, PreCircle}

(* packages that are essential or pseudo-essential, broken off, unpacked    *)
(* only, or to be purged                                                    *)
EssentialUpgrade ==
    [Sys({A1, B1}, {A2, B2}, A1 :> PreDepends(<<{B1}>>) @@ A2 :> PreDepends(<<{B2}>>) @@ B2 :> Depends(<<{A2}>>))
        EXCEPT !.essential = {"a"}]
EssentialRemoval == [Sys({A1, B1}, {B1}, <<>>) EXCEPT !.essential = {"a"}]
BrokenOff == [Sys({A1, B1}, {B2}, <<>>) EXCEPT !.reinstreq = {"a"}, !.interim = {"a"}]
UnpackedOnly == [Sys({A1, B1}, {A1, B2}, A1 :> Depends(<<{B2}>>)) EXCEPT !.interim = {"a", "b"}]
Purged == [Sys({A1}, {B2}, B2 :> Depends(<<{A1}>>)) EXCEPT !.purged = {"c"}, !.target = "a" :> A1]
StateSystems == {EssentialUpgrade, EssentialRemoval, BrokenOff, UnpackedOnly, Purged}

(* limits, archives that are there, marks *)
Upgrades == Sys({A1, B1, C1}, {A2, B2, C2}, A1 :> Depends(<<{B1}>>) @@ A2 :> Depends(<<{B2}>>))
LimitSystems ==
    {[Upgrades EXCEPT !.limit = n, !.present = present] : n \in 1..3, present \in {{}, {"b"}}} \cup
    {[Upgrades EXCEPT !.limit = 3, !.sizes = [p \in {"a", "b", "c"} |-> IF p = "c" THEN 2 ELSE 1]]}
MarkSystems ==
    {[Sys({A1, B1}, target, <<>>) EXCEPT !.overrides = overrides, !.asAuto = asAuto] :
        target \in {{A1, B1}, {A2, B1, C2}, {B1}},
        overrides \in {<<>>, "a" :> FALSE, "b" :> TRUE}, asAuto \in {{}, {"c"}}}

(* c and b2 meet two dependencies of a, b1 only the first of them *)
SharedTwice ==
    Sys({A1, B1, C1}, {A1, B2}, A1 :> Depends(<<{C1, B1, B2}, {C1, B2}>>) @@ C1 :> Depends(<<{B1}>>))

-----------------------------------------------------------------------------
(***************************************************************************)
(* The pairs of relations between two packages that change, one of them    *)
(* of a new version and without alternatives, under a limit of one         *)
(* archive, and of a dependency of an untouched package and another        *)
(* relation, as far as the old versions, and the new ones, can be          *)
(* installed together.                                                     *)
(***************************************************************************)
AllRelations(S) ==
    {<<v, type, x>> \in S \X DependencyTypes \X ((SUBSET S) \ {{}}) :
        \A w \in x : Package(w) # Package(v)}
Lines(some) ==
    [v \in {r[1] : r \in some} |-> [type \in DependencyTypes |->
        SetToSeq({r[3] : r \in {q \in some : q[1] = v /\ q[2] = type}})]]

Possible(sys) == Sound(sys, Installed(sys)) /\ Sound(sys, Range(sys.target))

Changes == {<<{A1, B1}, {A2, B2}>>, <<{A1}, {A2, B2}>>, <<{A1, B1}, {A2}>>, <<{A1}, {B2}>>}
PairSystems ==
    LET Simple(S, T) == {r \in AllRelations(S) : r[1] \in T /\ Cardinality(r[3]) = 1}
        Pairs(S, T) == {{r, q} : r \in AllRelations(S), q \in Simple(S, T)}
    IN  {sys \in UNION {{[Sys(c[1], c[2], Lines(pair)) EXCEPT !.limit = 1] : pair \in Pairs(c[1] \cup c[2], c[2])} :
                            c \in Changes} : Possible(sys)}
MediatedSystems ==
    {sys \in {Sys({C1} \cup c[1], {C1} \cup c[2], Lines({<<C1, "Depends", x>>, r})) :
                    c \in Changes, r \in AllRelations({A2, B2}),
                    x \in {y \in SUBSET {A1, A2, B1, B2} : Cardinality(y) > 1}} : Possible(sys)}

(* c stays and depends on b1 or a2; a is new, b is upgraded *)
ReplacedSystems == {[Sys({B1, C1}, {A2, B2, C1}, C1 :> Depends(<<{B1, A2}>>)) EXCEPT !.limit = 1]}

(* c was removed without cupt: its mark is still there *)
StaleMarkSystems == {[Sys({A1}, {A1, C2}, <<>>) EXCEPT !.auto = {"c"}]}

(* a2 needs b2 and b2 needs c1 first, b2 conflicts with a1, and c1, which is *)
(* unpacked only, depends on any a and breaks a1: when the worker gives up, c *)
(* has left the group.                                                       *)
Entangled ==
    [Sys({A1, C1}, {A2, B2, C1},
         A2 :> PreDepends(<<{B2}>>) @@
         B2 :> [PreDepends(<<{C1}>>) EXCEPT !["Conflicts"] = <<{A1}>>] @@
         C1 :> [Depends(<<{A1, A2}>>) EXCEPT !["Breaks"] = <<{A1}>>]) EXCEPT !.interim = {"c"}]

WorkerSystems ==
    TestSystems \cup CircleSystems \cup StateSystems \cup LimitSystems \cup MarkSystems \cup
    {SharedTwice, Entangled} \cup PairSystems \cup MediatedSystems \cup ReplacedSystems \cup StaleMarkSystems
=============================================================================
