-------------------------- MODULE MCNativeResolver --------------------------
(***************************************************************************)
(* Graphs for model checking NativeResolver.  Package a has version 1      *)
(* installed and 2 available, b versions 1 and 2 available, c version 1    *)
(* installed.  What the versions require and what satisfies it is chosen   *)
(* in every way a family of graphs allows.                                 *)
(***************************************************************************)
EXTENDS NativeResolver

A1 == <<"a", 1>>
A2 == <<"a", 2>>
B1 == <<"b", 1>>
B2 == <<"b", 2>>
C1 == <<"c", 1>>
A0 == <<"a", 0>>
B0 == <<"b", 0>>
C0 == <<"c", 0>>
Dummy == EmptyOf(User)

UW == <<"unsatisfied w", 1>>
US == <<"unsatisfied s", 1>>

Versions == {A1, A2, B1, B2, C1}
MCElements == Versions \cup {A0, B0, C0, Dummy, UW, US}

(* what the graphs of all families have in common *)
Graph(requires, satisfiers, priority) ==
    [packages |-> {"a", "b", "c", User},
     related |-> [f \in {"a", "b", "c", User} |->
                    CASE f = "a" -> <<A2, A1, A0>> [] f = "b" -> <<B2, B1, B0>>
                      [] f = "c" -> <<C1, C0>> [] f = User -> <<Dummy>>],
     requires |-> requires,
     satisfiers |-> satisfiers,
     priority |-> priority,
     anti |-> {},
     asAuto |-> DOMAIN satisfiers,
     installed |-> [f \in {"a", "c"} |-> 1],
     autoFlag |-> {},
     overrides |-> <<>>,
     never |-> {},
     ifNoRDepends |-> {},
     autoRemove |-> TRUE]

(***************************************************************************)
(* What each version requires: at most k of the relations in R, none that  *)
(* versions of its own package satisfy.  The dummy requires the request.   *)
(***************************************************************************)
Foreign(k, R, satisfiers, v) ==
    {S \in SUBSET R : /\ Cardinality(S) <= k
                      /\ \A r \in S : \A x \in Image(satisfiers[r]) : Family(x) # Family(v)}

Requirements(a1, a2, b1, b2, c1, request) ==
    [e \in MCElements |->
        CASE e = A1 -> a1 [] e = A2 -> a2 [] e = B1 -> b1 [] e = B2 -> b2 [] e = C1 -> c1
          [] e = Dummy -> request [] OTHER -> {}]

UpTo(k, R, satisfiers, request) ==
    LET OfPackage(v) == Foreign(k, R, satisfiers, v)
    IN  {Requirements(a1, a2, b1, b2, c1, request) :
            a1 \in OfPackage(A1), a2 \in OfPackage(A2), b1 \in OfPackage(B1),
            b2 \in OfPackage(B2), c1 \in OfPackage(C1)}

(***************************************************************************)
(* Hard: the user wants version 2 of a; d and e are dependencies, or e an  *)
(* anti relation on c; x is one on b (a conflict with version 1 of it).    *)
(***************************************************************************)
HardNames == {"want", "d", "e", "x"}
HardSatisfiers ==
    {[r \in HardNames |->
        CASE r = "want" -> <<A2>> [] r = "d" -> d [] r = "e" -> e [] r = "x" -> <<B2, B0>>] :
        d \in {<<B1, B2>>, <<B2, B1, C1>>}, e \in {<<>>, <<C0>>}}
HardPriority == [r \in HardNames |-> IF r = "want" THEN Must ELSE Strong]
Hard(requires, satisfiers) ==
    [Graph(requires, satisfiers, HardPriority) EXCEPT
        !.anti = {r \in HardNames : \E e \in Image(satisfiers[r]) : e[2] = 0},
        !.asAuto = @ \ {"want"}]
HardGraphs ==
    UNION {{Hard(q, s) : q \in UpTo(1, {"d", "e", "x"}, s, {"want"})} : s \in HardSatisfiers}

(* ... with up to two relations for each version of a and b, and version 1 *)
(* of b may be installed too, so that a dependency can lose one of two     *)
(* satisfiers *)
DenseGraphs ==
    UNION {{[Hard(q, s) EXCEPT !.installed = [f \in installed |-> 1]] :
                q \in {p \in UpTo(2, {"d", "e", "x"}, s, {"want"}) : p[C1] \subseteq {"x"}},
                installed \in {{"a", "c"}} \cup
                    {all \in {{"a", "b", "c"}} : s["e"] # <<>>}} : s \in HardSatisfiers}

(* ... where only the packages to be installed have dependencies *)
SmallGraphs == {g \in HardGraphs : g.requires[A1] = {} /\ g.requires[C1] = {}}

(* ... where a version may satisfy a dependency of its own *)
ProvidesGraphs ==
    LET satisfiers == [r \in HardNames |->
                          CASE r = "want" -> <<A2>> [] r = "d" -> <<A1, B1>>
                            [] r = "e" -> <<A2, A1>> [] r = "x" -> <<B2, B0>>]
        Any == {S \in SUBSET {"d", "e"} : Cardinality(S) <= 1}
    IN  {Hard(Requirements(a1, a2, b1, b2, c1, {"want"}), satisfiers) :
            a1 \in Any, a2 \in Any, b1 \in Any, b2 \in Any, c1 \in Any}

(***************************************************************************)
(* Soft: the user tries to get rid of version 1 of a and of c, in one      *)
(* request that may stay unsatisfied; s is a Recommends.                   *)
(***************************************************************************)
SoftNames == {"wa", "wc", "d", "s"}
SoftSatisfiers ==
    {[r \in SoftNames |->
        CASE r = "wa" -> <<UW, A2, A0>> [] r = "wc" -> <<UW, C0>> [] r = "d" -> d [] r = "s" -> x] :
        d \in {<<B1, B2>>, <<C1>>}, x \in {<<B1, US>>, <<B2, C1, US>>}}
SoftPriority ==
    [r \in SoftNames |-> CASE r \in {"wa", "wc"} -> Try [] r = "d" -> Strong [] r = "s" -> Recommends]
SoftGraphs ==
    {g \in UNION {{[Graph(q, x, SoftPriority) EXCEPT !.anti = {"wa", "wc"}, !.asAuto = {"d", "s"}] :
                    q \in UpTo(1, {"d", "s"}, x, {"wa", "wc"})} : x \in SoftSatisfiers} :
        g.requires[B1] = {} /\ g.requires[C1] = {}}

(* Both kinds, for the limits of the tree. *)
LimitGraphs == HardGraphs \cup SoftGraphs

(***************************************************************************)
(* Auto: version 1 of b is installed as well; what is automatic, what is   *)
(* protected and what the user overrides varies.                           *)
(***************************************************************************)
AutoNames == {"want", "d", "e", "x"}
AutoSatisfiers ==
    [r \in AutoNames |-> CASE r = "want" -> <<A2>> [] r = "d" -> <<B1, C1>>
                           [] r = "e" -> <<C1, B1, B2>> [] r = "x" -> <<B2, B0>>]
AutoGraphs ==
    {[Hard(q, AutoSatisfiers) EXCEPT
        !.installed = [f \in {"a", "b", "c"} |-> 1],
        !.autoFlag = auto, !.ifNoRDepends = protected.kept, !.never = protected.never, !.overrides = o] :
        q \in UNION {UpTo(1, {"d", "e", "x"}, AutoSatisfiers, request) : request \in {{}, {"want"}}},
        auto \in {{"b", "c"}, {"a", "b"}},
        protected \in {[kept |-> {}, never |-> {}], [kept |-> {"b", "c"}, never |-> {}],
                       [kept |-> {}, never |-> {"c"}]},
        o \in {<<>>, [f \in {"b"} |-> FALSE], [f \in {"c"} |-> TRUE]}}

(* the option no-remove protects a, which has no empty element then *)
NoRemoveGraphs ==
    {[g EXCEPT !.installed = [f \in {"a", "c"} |-> 1], !.related["a"] = <<A2, A1>>,
               !.autoFlag = {"c"}, !.overrides = [f \in {"a"} |-> TRUE]] :
        g \in UNION {{Hard(q, s) : q \in UpTo(1, {"d", "e", "x"}, s, {})} :
                        s \in {t \in HardSatisfiers : t["e"] # <<>>}}}

-----------------------------------------------------------------------------
(***************************************************************************)
(* What the runs start from.  No graph of these families needs 20          *)
(* solutions in the tree at once or 100 leaves.                            *)
(***************************************************************************)
Problem(graphs, types, solutions, leaves, changes) ==
    [graph : graphs,
     options : [type : types, maxSolutionCount : {solutions}, maxLeafCount : {leaves},
                scoreChanges : {changes}]]
Unlimited(graphs, types) == Problem(graphs, types, 20, 100, {0})

SearchProblems ==
    Unlimited(DenseGraphs, {"fair"}) \cup Unlimited(HardGraphs, {"full"})
        \cup Unlimited(ProvidesGraphs \cup NoRemoveGraphs \cup AutoGraphs, {"fair"})

ChoiceProblems ==
    Unlimited(SoftGraphs, {"fair", "full"})
        \cup Problem(SmallGraphs, {"full"}, 20, 100, {0, 1})
        \cup Problem(LimitGraphs, {"fair", "full"}, 2, 8, {0})
        \cup Problem(SmallGraphs \cup SoftGraphs, {"fair", "full"}, 6, 20, {0})

ProvidesProblems == Unlimited(ProvidesGraphs, {"fair"})
=============================================================================
