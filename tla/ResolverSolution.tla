-------------------------- MODULE ResolverSolution --------------------------
(***************************************************************************)
(* The data the native resolver searches over: the dependency graph and    *)
(* one candidate solution with its incrementally maintained set of broken  *)
(* relations.  Source: nativeresolver/solution.cpp, dependencygraph.cpp    *)
(* and the operators of impl.cpp that only read a solution.                *)
(*                                                                         *)
(* Everything here is a constant-level operator of a graph g and of a      *)
(* solution s, so that NativeResolver can run the search over many graphs  *)
(* and the proofs can speak of all of them.                                *)
(*                                                                         *)
(* A graph is taken as it stands once every element has been unfolded.     *)
(* The program unfolds lazily, but the element of every package entry is   *)
(* unfolded before the solution looks at it (prepareForResolving,          *)
(* p_applyAction) and the edges of an unfolded element never change.       *)
(***************************************************************************)
EXTENDS Integers, FiniteSets, Sequences

CONSTANT User        \* the package name of the dummy element, "<user requests>"

(***************************************************************************)
(* Elements.  A version element is <<package, n>> with n > 0; <<package,   *)
(* 0>> is the "not installed" element of the package and <<User, 0>> the   *)
(* dummy that requires what the user asked for.  An unsatisfied element is *)
(* <<name, 1>> with a name of its own.  Elements with the same first       *)
(* component share the family key: a solution holds one of them at most.   *)
(***************************************************************************)
Family(e) == e[1]
None == <<>>                               \* a null element pointer

Image(q) == {q[i] : i \in DOMAIN q}

(* the first of the elements of q that are in S, if there is one *)
FirstIn(q, S) == {q[i] : i \in {j \in DOMAIN q : q[j] \in S /\ \A k \in 1..j - 1 : q[k] \notin S}}

IsVersionElement(g, e) == Family(e) \in g.packages
IsEmptyElement(g, e) == IsVersionElement(g, e) /\ e[2] = 0

(* Type priorities, VertexTypePriority. *)
Suggests   == 1
Recommends == 2
Wish       == 3
Try        == 4
Strong     == 5
Must       == 6

(***************************************************************************)
(* The fields of a graph:                                                  *)
(*   packages    the families of version elements, User among them         *)
(*   related     package -> sequence of its elements, in creation order    *)
(*   requires    element -> set of its successor relations                 *)
(*   satisfiers  relation -> sequence of its successor elements            *)
(*   priority    relation -> type priority                                 *)
(*   anti        relations whose isAnti() holds                            *)
(*   asAuto      relations whose asAuto() holds                            *)
(*   installed   package -> the version the system has (__old_packages)    *)
(*   autoFlag    packages marked as automatically installed                *)
(*   overrides   package -> BOOLEAN (setAutomaticallyInstalledFlag)        *)
(*   never       packages essential or matching apt::neverautoremove       *)
(*   ifNoRDepends  packages matching no-autoremove-if-rdepends-exist       *)
(*   autoRemove  the option cupt::resolver::auto-remove                    *)
(***************************************************************************)
Relations(g) == DOMAIN g.satisfiers
Elements(g) == DOMAIN g.requires
Successors(g, r) == Image(g.satisfiers[r])
Predecessors(g, e) == {r \in Relations(g) : e \in Successors(g, r)}
Requires(g, e) == IF e = None THEN {} ELSE g.requires[e]
SatisfiedBy(g, e) == IF e = None THEN {} ELSE Predecessors(g, e)

EmptyOf(f) == <<f, 0>>

(***************************************************************************)
(* What the graph guarantees.                                              *)
(***************************************************************************)
(* Elements are pairs, and an unsatisfied one is not empty. *)
ElementsAreNamed(g) ==
    \A e \in Elements(g) : e = <<Family(e), e[2]>> /\ (IsVersionElement(g, e) \/ e[2] # 0)

(* Family keys: only a package has several elements, and not the dummy's. *)
AlternativesAreVersions(g) ==
    \A e, x \in Elements(g) : Family(e) = Family(x) /\ e # x => Family(e) \in g.packages \ {User}

(* Vertices and edges are added once. *)
HasNoDuplicates(q) == \A i, j \in DOMAIN q : q[i] = q[j] => i = j

RelatedAreElements(g) ==
    \A f \in g.packages : /\ g.related[f] \in Seq(Elements(g))
                          /\ HasNoDuplicates(g.related[f])
                          /\ \A e \in Image(g.related[f]) : Family(e) = f

SatisfiersAreElements(g) ==
    \A r \in Relations(g) : g.satisfiers[r] \in Seq(Elements(g)) /\ HasNoDuplicates(g.satisfiers[r])

(* A soft relation has an unsatisfied element, and no relation has two. *)
OneUnsatisfied(g) ==
    \A r \in Relations(g) : \A e, x \in Successors(g, r) :
        ~IsVersionElement(g, e) /\ ~IsVersionElement(g, x) => e = x

(* An anti relation asks a package not to have certain versions: it has    *)
(* none of them if it is not installed, and it may be, unless no-remove    *)
(* protects it.  No other relation is satisfied by an empty element.       *)
OnlyAntiAllowsRemoval(g) ==
    \A r \in Relations(g) : \A e \in Successors(g, r) :
        IF r \notin g.anti THEN ~IsEmptyElement(g, e)
        ELSE IsVersionElement(g, e) /\ EmptyOf(Family(e)) \in Image(g.related[Family(e)]) =>
                EmptyOf(Family(e)) \in Successors(g, r)

(* Only versions and the dummy require anything. *)
OnlyVersionsRequire(g) ==
    \A e \in Elements(g) : \A r \in g.requires[e] :
        r \in Relations(g) /\ IsVersionElement(g, e) /\ (e[2] = 0 => Family(e) = User)

(* A package has an empty element unless it is installed and no-remove     *)
(* protects it. *)
PackagesHaveElements(g) ==
    /\ User \in g.packages \ DOMAIN g.installed
    /\ \A f \in DOMAIN g.installed : f \in g.packages /\ <<f, g.installed[f]>> \in Elements(g)
    /\ \A f \in g.packages \ DOMAIN g.installed : EmptyOf(f) \in Elements(g)

IsGraph(g) ==
    /\ ElementsAreNamed(g)
    /\ AlternativesAreVersions(g)
    /\ RelatedAreElements(g)
    /\ SatisfiersAreElements(g)
    /\ OneUnsatisfied(g)
    /\ OnlyAntiAllowsRemoval(g)
    /\ OnlyVersionsRequire(g)
    /\ PackagesHaveElements(g)

-----------------------------------------------------------------------------
(***************************************************************************)
(* A solution: entries is a partial function from families, broken maps    *)
(* the broken relations to their priority (priority 0, the default of a    *)
(* removed record, is absence here).                                       *)
(***************************************************************************)
NoRelation == "none"
NoReason == [version |-> None, relation |-> NoRelation]

Entry(e, sticked, by, level) ==
    [element |-> e, sticked |-> sticked, autoremoved |-> FALSE,
     rejected |-> {}, by |-> by, level |-> level]

HasFamily(s, e) == Family(e) \in DOMAIN s.entries
EntryOf(s, e) == s.entries[Family(e)]
Present(s, e) == HasFamily(s, e) /\ EntryOf(s, e).element = e

PresentElements(s) == {s.entries[f].element : f \in DOMAIN s.entries}
Dependants(g, s, r) == {e \in PresentElements(s) : r \in Requires(g, e)}

(* verifyElement: an empty element nobody put there is virtually present *)
Verify(g, s, r) ==
    \E e \in Successors(g, r) :
        IF HasFamily(s, e) THEN EntryOf(s, e).element = e
                           ELSE IsEmptyElement(g, e)

(* simulateSetPackageEntry: what e would replace, and whether it may *)
Conflictor(g, s, e) ==
    IF HasFamily(s, e) THEN EntryOf(s, e).element
    ELSE IF IsVersionElement(g, e) /\ e[2] # 0 THEN EmptyOf(Family(e))
    ELSE None

Replaceable(s, e) ==
    HasFamily(s, e) => /\ ~EntryOf(s, e).sticked
                       /\ e \notin EntryOf(s, e).rejected

-----------------------------------------------------------------------------
(***************************************************************************)
(* p_updateBrokenSuccessors: newElement has just replaced oldElement in    *)
(* the entries of s, and s.broken still describes the solution before.     *)
(* The four sets are its four loops; the last one wins over the others.    *)
(***************************************************************************)

(* mutant: without reverseDependencyExists *)
NoLongerNeededByOld(g, s, old, new) ==
    {r \in Requires(g, old) \ Requires(g, new) : r \in DOMAIN s.broken}

NoLongerNeeded(g, s, old, new) ==
    {r \in Requires(g, old) \ Requires(g, new) :
        r \in DOMAIN s.broken /\ Dependants(g, s, r) = {}}

(* mutant: without verifyElement, the last loop repairs what new satisfies *)
NewlyRequiredUnverified(g, s, old, new) == Requires(g, new) \ Requires(g, old)

NewlyRequired(g, s, old, new) ==
    {r \in Requires(g, new) \ Requires(g, old) :
        r \in DOMAIN s.broken \/ ~Verify(g, s, r)}

(* mutant: another satisfier may be there *)
LostAnySatisfier(g, s, old, new) ==
    {r \in (SatisfiedBy(g, old) \ SatisfiedBy(g, new)) \ Requires(g, new) :
        Dependants(g, s, r) # {}}

LostSatisfier(g, s, old, new) ==
    {r \in (SatisfiedBy(g, old) \ SatisfiedBy(g, new)) \ Requires(g, new) :
        Dependants(g, s, r) # {} /\ ~Verify(g, s, r)}

Repaired(g, old, new) == SatisfiedBy(g, new) \ SatisfiedBy(g, old)

(* mutant: removed records with priority 0 count as broken *)
UpdatedBrokenWithRemoved(g, s, old, new, priority) ==
    LET required == NewlyRequired(g, s, old, new)
        lost     == LostSatisfier(g, s, old, new)
        left     == (DOMAIN s.broken \cup required \cup lost) \ Repaired(g, old, new)
    IN  [r \in left |->
            IF r \in NoLongerNeeded(g, s, old, new) THEN 0
            ELSE IF r \in lost \/ r \notin DOMAIN s.broken THEN priority
            ELSE IF r \in required /\ s.broken[r] < priority THEN priority
            ELSE s.broken[r]]

UpdatedBroken(g, s, old, new, priority) ==
    LET required == NewlyRequired(g, s, old, new)
        lost     == LostSatisfier(g, s, old, new)
        left     == ((DOMAIN s.broken \ NoLongerNeeded(g, s, old, new))
                        \cup required \cup lost) \ Repaired(g, old, new)
    IN  [r \in left |->
            IF r \in lost \/ r \notin DOMAIN s.broken THEN priority
            ELSE IF r \in required /\ s.broken[r] < priority THEN priority
            ELSE s.broken[r]]

-----------------------------------------------------------------------------
(***************************************************************************)
(* An action replaces old by new because relation by.relation of           *)
(* by.version is broken with the given priority; at is its position among  *)
(* its siblings and all has the positions and new elements of all of them, *)
(* nothing for a lone action.                                              *)
(***************************************************************************)
NewElements(all) == {x.new : x \in all}

(* mutant: the loop ends one element early *)
LongBefore(all, e) == {x.new : x \in {y \in all : \A z \in all : z.at <= y.at + 1 => z.new # e}}

Before(all, e) == {x.new : x \in {y \in all : \A z \in all : z.at <= y.at => z.new # e}}

IsUnsatisfied(g, e) == ~IsVersionElement(g, e)

(* mutant: siblings before and after are rejected *)
RejectedSiblings(g, a) == {e \in NewElements(a.all) : Family(e) # Family(a.new)}

(* setRejections: which new elements the solution gives up for good *)
Rejected(g, a) ==
    IF IsUnsatisfied(g, a.new) THEN NewElements(a.all)
    ELSE {e \in Before(a.all, a.new) : Family(e) # Family(a.new)}

(* setRejection for each of them *)
WithRejections(g, s, rejected) ==
    LET families == {Family(e) : e \in {x \in rejected : Conflictor(g, s, x) # None}}
        Of(f) == {e \in rejected : Family(e) = f}
    IN  [s EXCEPT !.entries =
            [f \in DOMAIN @ \cup families |->
                LET entry == IF f \in DOMAIN @ THEN @[f]
                             ELSE Entry(EmptyOf(f), FALSE, NoReason, 0)
                IN  IF f \in families
                    THEN [entry EXCEPT !.rejected = @ \cup Of(f)] ELSE entry]]

(* p_setPackageEntryFromAction *)
WithEntry(s, a) ==
    [s EXCEPT !.entries =
        [f \in DOMAIN @ \cup {Family(a.new)} |->
            IF f = Family(a.new)
            THEN Entry(a.new, a.priority > 0, a.by, s.level) ELSE @[f]]]

(* p_applyAction; the level was set by the caller *)
ApplyAction(g, s, a) ==
    LET changed == WithEntry(WithRejections(g, s, Rejected(g, a)), a)
    IN  [changed EXCEPT !.broken =
            UpdatedBroken(g, changed, a.old, a.new, a.priority + 1)]

-----------------------------------------------------------------------------
(* prepareForResolving: installed versions and the dummy, every relation   *)
(* of theirs that does not hold recorded with priority 1 *)
InitialEntries(g) ==
    [f \in DOMAIN g.installed \cup {User} |->
        IF f = User THEN Entry(EmptyOf(User), TRUE, NoReason, 0)
        ELSE Entry(<<f, g.installed[f]>>, FALSE, NoReason, 0)]

InitialSolution(g) ==
    LET s == [entries |-> InitialEntries(g), broken |-> <<>>, level |-> 0,
              id |-> 0, score |-> 0, finished |-> FALSE]
        bad == {r \in UNION {Requires(g, e) : e \in PresentElements(s)} : ~Verify(g, s, r)}
    IN  [s EXCEPT !.broken = [r \in bad |-> 1]]

-----------------------------------------------------------------------------
(***************************************************************************)
(* The possible actions for a broken pair, in the order in which           *)
(* __generate_possible_actions makes them.                                 *)
(***************************************************************************)
NewAction(at, old, new, by, priority) ==
    [at |-> at, old |-> old, new |-> new, by |-> by, priority |-> priority, all |-> {}]

(* isRelationMoreWide: r can be satisfied by something broken cannot be *)
IsMoreWide(g, s, r, broken) ==
    \E e \in Successors(g, r) \ Successors(g, broken) :
        Replaceable(s, e) \/ Conflictor(g, s, e) = e

(* __makes_sense_to_modify_package *)
MakesSense(g, s, candidate, broken) ==
    \A r \in Requires(g, candidate) :
        /\ r # broken
        /\ g.priority[r] >= g.priority[broken] => IsMoreWide(g, s, r, broken)

(* __add_actions_to_fix_dependency *)
FixActions(g, s, by) ==
    LET q == g.satisfiers[by.relation]
    IN  {NewAction(i, Conflictor(g, s, q[i]), q[i], by, s.broken[by.relation]) :
            i \in {j \in DOMAIN q : Replaceable(s, q[j])}}

(* __add_actions_to_modify_package_entry *)
ModifyActions(g, s, by) ==
    LET q == g.related[Family(by.version)]
        Better(e) == /\ ~EntryOf(s, by.version).sticked
                     /\ e # by.version
                     /\ e \notin EntryOf(s, by.version).rejected
                     /\ MakesSense(g, s, e, by.relation)
    IN  {NewAction(Len(g.satisfiers[by.relation]) + i, by.version, q[i], by, s.broken[by.relation]) :
            i \in {j \in DOMAIN q : Better(q[j])}}

(* __generate_possible_actions and __prepare_reject_requests *)
PossibleActions(g, s, by) ==
    LET actions == FixActions(g, s, by) \cup ModifyActions(g, s, by)
        all == IF Cardinality(actions) > 1 THEN {[at |-> a.at, new |-> a.new] : a \in actions} ELSE {}
    IN  {[a EXCEPT !.all = all] : a \in actions}

(* The comparison of __get_broken_pair up to its last two tie-breaks, the *)
(* failure count and the element id: any of the worst may be taken. *)
WorstBroken(g, s) ==
    LET NotBetter(r, q) == \/ g.priority[r] > g.priority[q]
                           \/ g.priority[r] = g.priority[q] /\ s.broken[r] >= s.broken[q]
    IN  {r \in DOMAIN s.broken : \A q \in DOMAIN s.broken : NotBetter(r, q)}

-----------------------------------------------------------------------------
(***************************************************************************)
(* processReasonElements: the present elements that explain why by had to  *)
(* be acted upon.  inserted is None for the pair that has just failed, or  *)
(* the element the action put in: then only decisions taken before it      *)
(* count.                                                                  *)
(***************************************************************************)
(* mutant: the order does not matter *)
ReasonElementsUnordered(g, s, by, inserted) ==
    {e \in {by.version} : Present(s, e)} \cup
    {Conflictor(g, s, e) : e \in {x \in Successors(g, by.relation) : ~Replaceable(s, x)}}

ReasonElements(g, s, by, inserted) ==
    {e \in {by.version} : Present(s, e)} \cup
    {c \in {Conflictor(g, s, e) : e \in {x \in Successors(g, by.relation) : ~Replaceable(s, x)}} :
        inserted # None =>
            EntryOf(s, c).level # 0 /\ EntryOf(s, inserted).level > EntryOf(s, c).level}

-----------------------------------------------------------------------------
(* What a solution is. *)
EntryType(g) ==
    [element : Elements(g), sticked : BOOLEAN, autoremoved : BOOLEAN,
     rejected : SUBSET Elements(g), level : Nat,
     by : [version : Elements(g) \cup {None}, relation : Relations(g) \cup {NoRelation}]]

IsSolution(g, s) ==
    /\ DOMAIN s = {"entries", "broken", "level", "id", "score", "finished"}
    /\ s.entries \in [DOMAIN s.entries -> EntryType(g)]
    /\ \A f \in DOMAIN s.entries : Family(s.entries[f].element) = f
    /\ DOMAIN g.installed \cup {User} \subseteq DOMAIN s.entries
    /\ DOMAIN s.broken \subseteq Relations(g)
    /\ \A r \in DOMAIN s.broken : s.broken[r] \in Nat \ {0}
    /\ s.level \in Nat /\ s.id \in Nat /\ s.score \in Int /\ s.finished \in BOOLEAN

(* The broken relations of a solution, recomputed from nothing. *)
BrokenRelations(g, s) ==
    {r \in UNION {Requires(g, e) : e \in PresentElements(s)} : ~Verify(g, s, r)}

(* No exchange of versions loses a dependency that both versions have and  *)
(* the old one satisfies itself.                                           *)
KeepsOwnDependencies(g) ==
    \A e, x \in Elements(g) : Family(e) = Family(x) /\ e # x =>
        \A r \in Requires(g, e) \cap Requires(g, x) :
            e \in Successors(g, r) => x \in Successors(g, r)

(* No version has a dependency that only other versions of its own package *)
(* satisfy. *)
NeedsNoOtherVersion(g) ==
    \A e, x \in Elements(g) : Family(e) = Family(x) /\ e # x =>
        \A r \in g.requires[e] : x \in Successors(g, r) => e \in Successors(g, r)
=============================================================================
