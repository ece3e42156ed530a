--------------------------- MODULE NativeResolver ---------------------------
(***************************************************************************)
(* The search of the native resolver (nativeresolver/impl.cpp): a tree of  *)
(* candidate solutions is grown from the installed system, one broken      *)
(* dependency at a time, until a solution without broken dependencies is   *)
(* cleaned of unneeded automatic packages, verified once more and offered  *)
(* to the user.                                                            *)
(*                                                                         *)
(* A prepared solution is an object shared by reference: it may sit in the *)
(* tree, be the parent of solutions that will be prepared later, or be the *)
(* initial solution that resolve() keeps over restarts.  heap maps the     *)
(* references in use to the objects.                                       *)
(*                                                                         *)
(* The score manager is abstracted to options.scoreChanges, any of which an *)
(* action may bring; the quality adjustment of a restart disappears in it. *)
(***************************************************************************)
EXTENDS ResolverSolution, Integers, FiniteSetsExt

CONSTANT Problems    \* what a run starts from: dependency graphs with options

(***************************************************************************)
(* The options: type is "fair" or "full" (cupt::resolver::type);           *)
(* maxSolutionCount and maxLeafCount are those of the same names.          *)
(***************************************************************************)
IsOptions(o) ==
    /\ o.type \in {"fair", "full"}
    /\ o.maxSolutionCount \in Nat
    /\ o.maxLeafCount \in Nat
    /\ o.scoreChanges \subseteq Int

ASSUME ProblemsAssumption == \A p \in Problems : IsGraph(p.graph) /\ IsOptions(p.options)

VARIABLES
    graph,      \* the input
    options,    \* the configuration
    heap,       \* reference -> prepared solution
    tree,       \* the solutions waiting for their turn (SolutionContainer)
    nextId,     \* SolutionStorage::__next_free_id
    anyFound,   \* __any_solution_was_found
    failTree,   \* DecisionFailTree::__fail_items
    offer,      \* the solution shown to the user, or NoOffer
    status      \* "resolving", "offering", or how resolve() ended

vars == <<graph, options, heap, tree, nextId, anyFound, failTree, offer, status>>

NoOffer == <<>>
NoAction == <<>>
Initial == 0           \* resolve() holds this reference all the time

Endings == {"yes", "no", "unable", "leaf limit", "internal error", "crash"}

-----------------------------------------------------------------------------
(***************************************************************************)
(* A node of the tree: ref is the solution itself if it is prepared, else  *)
(* its parent; id and score belong to an unprepared node (a prepared one   *)
(* has them in its object).                                                *)
(***************************************************************************)
PreparedNode(ref) == [ref |-> ref, action |-> NoAction, id |-> 0, score |-> 0]
IsPrepared(n) == n.action = NoAction

IdOf(h, n) == IF IsPrepared(n) THEN h[n.ref].id ELSE n.id
ScoreOf(h, n) == IF IsPrepared(n) THEN h[n.ref].score ELSE h[n.ref].score + n.score
IsFinished(h, n) == IsPrepared(n) /\ h[n.ref].finished

(* SolutionScoreLess *)
ScoreLess(h, m, n) ==
    \/ ScoreOf(h, m) < ScoreOf(h, n)
    \/ ScoreOf(h, m) = ScoreOf(h, n) /\ IdOf(h, m) > IdOf(h, n)

Best(h, t) == CHOOSE n \in t : \A m \in t \ {n} : ScoreLess(h, m, n)
Worst(h, t) == CHOOSE n \in t : \A m \in t \ {n} : ScoreLess(h, n, m)

(* mutant: the full chooser does not wait for the others *)
ChosenBest(h, t) == Best(h, t)

(* __fair_chooser and __full_chooser *)
Chosen(h, t) ==
    LET unfinished == {n \in t : ~IsFinished(h, n)}
    IN  IF options.type = "fair" \/ unfinished = {} THEN Best(h, t)
        ELSE Worst(h, unfinished)

(* prepareSolution: an unprepared node copies its parent and applies its action *)
Prepared(n) ==
    IF IsPrepared(n) THEN heap[n.ref]
    ELSE ApplyAction(graph,
            [heap[n.ref] EXCEPT !.id = n.id, !.score = @ + n.score,
                                !.level = @ + 1, !.finished = FALSE],
            n.action)

(* mutant: the child is prepared in place of its parent *)
RefOfParent(n) == n.ref

(* the reference of the chosen solution from here on *)
RefOf(n) ==
    IF IsPrepared(n) THEN n.ref
    ELSE CHOOSE ref \in 0..Cardinality(DOMAIN heap) : ref \notin DOMAIN heap

(* Shared pointers: an object lives while the tree or resolve() refers to it. *)
Store(h, ref, s) == [x \in DOMAIN h \cup {ref} |-> IF x = ref THEN s ELSE h[x]]
Live(h, t) == [x \in DOMAIN h \cap ({Initial} \cup {n.ref : n \in t}) |-> h[x]]

-----------------------------------------------------------------------------
(***************************************************************************)
(* __clean_automatically_installed                                         *)
(***************************************************************************)
OldPackage(f) == f \in DOMAIN graph.installed

(* p_computeTargetAutoStatus *)
TargetAutoStatus(s, e) ==
    LET f == Family(e)
    IN  IF f \in DOMAIN graph.overrides THEN graph.overrides[f]
        ELSE IF OldPackage(f) THEN f \in graph.autoFlag
        ELSE EntryOf(s, e).by.relation \in graph.asAuto

(* p_isCandidateForAutoRemoval and AutoRemovalPossibility::isAllowed *)
Removable(s, e) ==
    /\ IsVersionElement(graph, e) /\ ~IsEmptyElement(graph, e)
    /\ OldPackage(Family(e)) => graph.autoRemove /\ TargetAutoStatus(s, e)
    /\ Family(e) \notin graph.never

KeptIfRDepends(s, e) == Removable(s, e) /\ Family(e) \in graph.ifNoRDepends

(* mutant: the edges to packages with reverse dependencies are missing *)
KeptByFirst(s, r) ==
    LET here == Successors(graph, r) \cap PresentElements(s)
    IN  {x \in FirstIn(graph.satisfiers[r], here) : \A y \in here : Removable(s, y)}

(* the satisfiers of relation r that e keeps in the system *)
KeptBy(s, r) ==
    LET here == Successors(graph, r) \cap PresentElements(s)
    IN  {x \in here : KeptIfRDepends(s, x)} \cup
        {x \in FirstIn(graph.satisfiers[r], here) : \A y \in here : Removable(s, y)}

NeededBy(s, e) == UNION {KeptBy(s, r) : r \in Requires(graph, e) \ graph.anti}

(* what is reachable from the elements that may not be removed *)
Needed(s) ==
    LET all == PresentElements(s)
        Closed(kept) == /\ {e \in all : ~Removable(s, e)} \subseteq kept
                        /\ \A e \in kept : NeededBy(s, e) \subseteq kept
    IN  {e \in all : \A kept \in SUBSET all : Closed(kept) => e \in kept}

Unneeded(s) == PresentElements(s) \ Needed(s)

(* getCorrespondingEmptyElement has none for a package that the option *)
(* cupt::resolver::no-remove protects; setEmpty does not look. *)
CanBeEmptied(e) == EmptyOf(Family(e)) \in Image(graph.related[Family(e)])

Cleaned(s) ==
    [s EXCEPT !.entries =
        [f \in DOMAIN @ |->
            IF @[f].element \in Needed(s) THEN @[f]
            ELSE [Entry(EmptyOf(f), FALSE, NoReason, 0) EXCEPT !.autoremoved = TRUE]]]

(* __final_verify_solution *)
Verified(s) ==
    \A e \in PresentElements(s) : \A r \in Requires(graph, e) : Verify(graph, s, r)

-----------------------------------------------------------------------------
(***************************************************************************)
(* DecisionFailTree.  An item keeps the family keys its solution inserted, *)
(* level by level, and the elements of the decisions that led to the       *)
(* failure.                                                                *)
(***************************************************************************)
FamilyKey(f) == IF f \in graph.packages THEN graph.related[f][1] ELSE <<f, 1>>

InsertedElements(s) ==
    [level \in 1..s.level |->
        FamilyKey(CHOOSE f \in DOMAIN s.entries : s.entries[f].level = level)]

(* __get_decisions: the reasons of the reasons, down to the initial system *)
DecisionElements(s, by) ==
    LET Next(e) == {x \in ReasonElements(graph, s, EntryOf(s, e).by, e) :
                        EntryOf(s, x).by # NoReason}
        chain[n \in Nat] ==
            IF n = 0 THEN {x \in ReasonElements(graph, s, by, None) : EntryOf(s, x).by # NoReason}
            ELSE chain[n - 1] \cup UNION {Next(e) : e \in chain[n - 1]}
    IN  chain[s.level]

FailItem(s, by) == [inserted |-> InsertedElements(s), elements |-> DecisionElements(s, by)]

(* getDiversedElements; it has no answer when one sequence is a prefix of  *)
(* the other, and then reads past the end of a vector *)
Diverse(p, q) == \E i \in DOMAIN p \cap DOMAIN q : p[i] # q[i]
FirstDiverse(p, q) == Min({i \in DOMAIN p \cap DOMAIN q : p[i] # q[i]})

IsDominant(item, e) == e \notin item.elements

(* What the two vectors hold past their ends is anything, the elements of  *)
(* no decision included; only whether an item dominates depends on it.     *)
ExistingDominates(old, new) ==
    IF Diverse(old.inserted, new.inserted)
    THEN {IsDominant(old, old.inserted[FirstDiverse(old.inserted, new.inserted)])}
    ELSE BOOLEAN
NewDominates(old, new) ==
    IF Diverse(old.inserted, new.inserted)
    THEN {IsDominant(new, new.inserted[FirstDiverse(old.inserted, new.inserted)])}
    ELSE BOOLEAN

(* addFailedSolution *)
AddFailedSolution(item) ==
    \E existing \in [failTree -> BOOLEAN], dominant \in [failTree -> BOOLEAN] :
        /\ \A old \in failTree : /\ existing[old] \in ExistingDominates(old, item)
                                 /\ dominant[old] \in NewDominates(old, item)
        /\ failTree' =
              {old \in failTree : existing[old] \/ ~dominant[old]}
                \cup {new \in {item} : \A old \in failTree : ~existing[old]}

-----------------------------------------------------------------------------
Init ==
    /\ \E p \in Problems : graph = p.graph /\ options = p.options
    /\ heap = [x \in {Initial} |-> InitialSolution(graph)]
    /\ tree = {PreparedNode(Initial)}
    /\ nextId = 1
    /\ anyFound = FALSE
    /\ failTree = {}
    /\ offer = NoOffer
    /\ status = "resolving"

(* One turn of the loop of p_resolve2 takes node n out of the tree. *)
Turn(n) ==
    /\ status = "resolving"
    /\ tree # {}
    /\ n = Chosen(heap, tree)
    /\ UNCHANGED <<graph, options>>

(* __get_broken_pair: by is a worst broken relation with one who needs it *)
BrokenPair(s, by) ==
    /\ by.relation \in WorstBroken(graph, s)
    /\ by.version \in Dependants(graph, s, by.relation)

Pairs(s) == [version : PresentElements(s), relation : DOMAIN s.broken]

(* Nothing can be done about the broken dependency: the solution is dropped. *)
NoActions(n) ==
    /\ Turn(n)
    /\ \E by \in Pairs(Prepared(n)) :
        /\ BrokenPair(Prepared(n), by)
        /\ PossibleActions(graph, Prepared(n), by) = {}
        /\ IF anyFound THEN UNCHANGED failTree
           ELSE AddFailedSolution(FailItem(Prepared(n), by))
    /\ tree' = tree \ {n}
    /\ heap' = Live(heap, tree')
    /\ UNCHANGED <<nextId, anyFound, offer, status>>

TooMany(n, actions) == Cardinality(tree \ {n}) + Cardinality(actions) > options.maxSolutionCount

(* mutant: only the solution that does not fit is given up *)
HitSolutionTreeLimitPruning(n) ==
    /\ Turn(n)
    /\ \E by \in Pairs(Prepared(n)) :
        /\ BrokenPair(Prepared(n), by)
        /\ PossibleActions(graph, Prepared(n), by) # {}
        /\ TooMany(n, PossibleActions(graph, Prepared(n), by))
    /\ tree' = tree \ {n}
    /\ heap' = Live(heap, tree')
    /\ UNCHANGED <<nextId, anyFound, failTree, offer, status>>

(* mutant: each search counts its leaves from the beginning *)
HitSolutionTreeLimitAnew(n) ==
    /\ Turn(n)
    /\ \E by \in Pairs(Prepared(n)) :
        /\ BrokenPair(Prepared(n), by)
        /\ PossibleActions(graph, Prepared(n), by) # {}
        /\ TooMany(n, PossibleActions(graph, Prepared(n), by))
    /\ tree' = {PreparedNode(Initial)}
    /\ heap' = Live(heap, tree')
    /\ nextId' = 1
    /\ anyFound' = FALSE
    /\ failTree' = {}
    /\ UNCHANGED <<offer, status>>

(* HitSolutionTreeLimit: p_resolve2 starts again from the initial solution, *)
(* as the first search has left it. *)
HitSolutionTreeLimit(n) ==
    /\ Turn(n)
    /\ \E by \in Pairs(Prepared(n)) :
        /\ BrokenPair(Prepared(n), by)
        /\ PossibleActions(graph, Prepared(n), by) # {}
        /\ TooMany(n, PossibleActions(graph, Prepared(n), by))
    /\ tree' = {PreparedNode(Initial)}
    /\ heap' = Live(heap, tree')
    /\ anyFound' = FALSE
    /\ failTree' = {}
    /\ UNCHANGED <<nextId, offer, status>>

WithinLimit(n, actions) == actions # {} /\ ~TooMany(n, actions)

(* checkLeafLimit throws out of resolve() *)
HitLeafLimit(n) ==
    /\ Turn(n)
    /\ \E by \in Pairs(Prepared(n)) :
        /\ BrokenPair(Prepared(n), by)
        /\ WithinLimit(n, PossibleActions(graph, Prepared(n), by))
        /\ nextId + Cardinality(PossibleActions(graph, Prepared(n), by)) - 1 > options.maxLeafCount
    /\ status' = "leaf limit"
    /\ tree' = {}
    /\ heap' = Live(heap, tree')
    /\ UNCHANGED <<nextId, anyFound, failTree, offer>>

(* A single action is applied to the solution itself (fakeCloneSolution). *)
ApplyInPlace(n) ==
    /\ Turn(n)
    /\ nextId <= options.maxLeafCount
    /\ tree' = (tree \ {n}) \cup {PreparedNode(RefOf(n))}
    /\ \E by \in Pairs(Prepared(n)), change \in options.scoreChanges :
        LET s == Prepared(n)
            actions == PossibleActions(graph, s, by)
        IN  /\ BrokenPair(s, by)
            /\ Cardinality(actions) = 1
            /\ WithinLimit(n, actions)
            /\ \E a \in actions :
                heap' = Live(Store(heap, RefOf(n),
                            ApplyAction(graph,
                                [s EXCEPT !.id = nextId, !.level = @ + 1, !.score = @ + change],
                                a)), tree')
    /\ nextId' = nextId + 1
    /\ UNCHANGED <<anyFound, failTree, offer, status>>

(* Several actions: a child for each, to be prepared when it is chosen. *)
Branch(n) ==
    /\ Turn(n)
    /\ \E by \in Pairs(Prepared(n)) :
        LET s == Prepared(n)
            actions == PossibleActions(graph, s, by)
            Earlier(a) == {b \in actions : b.at < a.at}
        IN  /\ BrokenPair(s, by)
            /\ Cardinality(actions) > 1
            /\ WithinLimit(n, actions)
            /\ nextId + Cardinality(actions) - 1 <= options.maxLeafCount
            /\ \E change \in [actions -> options.scoreChanges] :
                tree' = (tree \ {n}) \cup
                    {[ref |-> RefOf(n), action |-> a,
                      id |-> nextId + Cardinality(Earlier(a)), score |-> change[a]] : a \in actions}
            /\ heap' = Live(Store(heap, RefOf(n), s), tree')
            /\ nextId' = nextId + Cardinality(actions)
    /\ UNCHANGED <<anyFound, failTree, offer, status>>

(* A finished solution goes back to the tree when the chooser prefers another. *)
Finished(n) == [Prepared(n) EXCEPT !.finished = TRUE]
WithFinished(n) == Store(heap, RefOf(n), Finished(n))
TreeWithFinished(n) == (tree \ {n}) \cup {PreparedNode(RefOf(n))}
IsSolved(n) == DOMAIN Prepared(n).broken = {}

Defer(n) ==
    /\ Turn(n)
    /\ IsSolved(n)
    /\ Chosen(WithFinished(n), TreeWithFinished(n)) # PreparedNode(RefOf(n))
    /\ tree' = TreeWithFinished(n)
    /\ heap' = Live(WithFinished(n), tree')
    /\ UNCHANGED <<nextId, anyFound, failTree, offer, status>>

(* Otherwise it is cleaned of what nobody needs ... *)
IsPreferred(n) ==
    /\ IsSolved(n)
    /\ Chosen(WithFinished(n), TreeWithFinished(n)) = PreparedNode(RefOf(n))
CanBeCleaned(n) == \A e \in Unneeded(Prepared(n)) : CanBeEmptied(e)

(* ... and offered, if it stands the final check. *)
Propose(n) ==
    /\ Turn(n)
    /\ IsPreferred(n)
    /\ CanBeCleaned(n)
    /\ Verified(Cleaned(Finished(n)))
    /\ offer' = Cleaned(Finished(n))
    /\ status' = "offering"
    /\ tree' = tree \ {n}
    /\ heap' = Live(Store(heap, RefOf(n), offer'), tree')
    /\ anyFound' = TRUE
    /\ failTree' = IF anyFound THEN failTree ELSE {}
    /\ UNCHANGED nextId

(* fatal2i of __final_verify_solution and of __get_broken_pair, the latter *)
(* for a broken relation that nobody present needs; setEmpty on a package  *)
(* that has no empty element.                                              *)
FailsCheck(n) ==
    \/ IsPreferred(n) /\ CanBeCleaned(n) /\ ~Verified(Cleaned(Finished(n)))
    \/ \E r \in WorstBroken(graph, Prepared(n)) : Dependants(graph, Prepared(n), r) = {}
Crashes(n) == IsPreferred(n) /\ ~CanBeCleaned(n)

Abort(n) ==
    /\ Turn(n)
    /\ FailsCheck(n) \/ Crashes(n)
    /\ status' = IF Crashes(n) THEN "crash" ELSE "internal error"
    /\ tree' = {}
    /\ heap' = Live(heap, tree')
    /\ UNCHANGED <<nextId, anyFound, failTree, offer>>

(* The user's answer, Resolver::UserAnswer. *)
Answer ==
    /\ status = "offering"
    /\ offer' = NoOffer
    /\ \/ status' = "yes"          \* Accept
       \/ status' = "no"           \* Abandon
       \/ status' = "resolving"    \* Decline
    /\ UNCHANGED <<graph, options, heap, tree, nextId, anyFound, failTree>>

(* The tree is empty. *)
GiveUp ==
    /\ status = "resolving"
    /\ tree = {}
    /\ status' = IF anyFound THEN "no" ELSE "unable"
    /\ UNCHANGED <<graph, options, heap, tree, nextId, anyFound, failTree, offer>>

TakeTurn ==
    \E n \in tree :
        \/ NoActions(n) \/ HitSolutionTreeLimit(n) \/ HitLeafLimit(n)
        \/ ApplyInPlace(n) \/ Branch(n)
        \/ Defer(n) \/ Propose(n) \/ Abort(n)

Next == TakeTurn \/ Answer \/ GiveUp

Safety == Init /\ [][Next]_vars

(* resolve() runs on, and the user answers what is asked. *)
Spec == Safety /\ WF_vars(Next)

(* The same, with ENABLED written out: a step is possible until resolve()  *)
(* has ended.  TLC evaluates this one much faster.                         *)
Ended == status \in Endings
FastSpec == Safety /\ ([]<>Ended \/ []<><<Next>>_vars)

-----------------------------------------------------------------------------
(***************************************************************************)
(* Properties.                                                             *)
(***************************************************************************)

(* The one type invariant. *)
TypeOK ==
    /\ Initial \in DOMAIN heap
    /\ \A ref \in DOMAIN heap : IsSolution(graph, heap[ref])
    /\ \A n \in tree : n.ref \in DOMAIN heap /\ n.id < nextId
    /\ offer # NoOffer => IsSolution(graph, offer)
    /\ (offer # NoOffer) = (status = "offering")
    /\ status \in {"resolving", "offering"} \cup Endings

(* No package is protected by cupt::resolver::no-remove. *)
AllCanBeEmptied(g) == \A f \in g.packages : EmptyOf(f) \in Image(g.related[f])

(* p_updateBrokenSuccessors never forgets a dependency that has become     *)
(* broken and never keeps one that holds again or that nobody needs any    *)
(* more, however the solution was reached.                                 *)
BrokenIsExact ==
    KeepsOwnDependencies(graph) =>
        \A ref \in DOMAIN heap : DOMAIN heap[ref].broken = BrokenRelations(graph, heap[ref])

(* One half of it holds for every graph: no relation is kept as broken     *)
(* that holds or that nobody needs, so the search never works on a phantom *)
(* and __get_broken_pair always finds somebody to blame; and none is left  *)
(* in a finished solution, which __pre_apply_action refuses to change.     *)
NoPhantomIsBroken ==
    \A ref \in DOMAIN heap :
        IF heap[ref].finished THEN DOMAIN heap[ref].broken = {}
        ELSE DOMAIN heap[ref].broken \subseteq BrokenRelations(graph, heap[ref])

(* The fatal2i checks of __get_broken_pair and __final_verify_solution are *)
(* never hit: what is offered satisfies every dependency of everything in  *)
(* it, also after the automatic packages have been cleaned away.           *)
FinalCheckHolds == status # "internal error"

(* Every package that is cleaned away has an empty element to take its     *)
(* place, the packages that no-remove protects included.                   *)
NeverCrashes == status # "crash"

(* Both, on the graphs where the code can keep them.                       *)
NoInternalError ==
    /\ KeepsOwnDependencies(graph) => FinalCheckHolds
    /\ AllCanBeEmptied(graph) => NeverCrashes

(* The tree and copy-on-write maps share parents: once a solution has      *)
(* unprepared children, nothing changes it under them.                     *)
ParentsAreFrozen ==
    [][\A n \in tree : ~IsPrepared(n) /\ n \in tree' => heap'[n.ref] = heap[n.ref]]_vars

(* What setRejections is for: two solutions in the tree can never grow     *)
(* into the same one, since one has decided for an element that the other  *)
(* has excluded.  It does not hold for a version that needs another        *)
(* version of its own package: to exchange it for that one is offered both *)
(* as a fix and as a modification, and the tree gets two of the same.      *)
Decided(s, e) == Present(s, e) /\ EntryOf(s, e).sticked
Excluded(s, e) == HasFamily(s, e) /\ ~Present(s, e) /\ ~Replaceable(s, e)
Apart(g, s, t) ==
    \E e \in Elements(g) : \/ Decided(s, e) /\ Excluded(t, e)
                           \/ Decided(t, e) /\ Excluded(s, e)
BranchesAreDisjoint ==
    NeedsNoOtherVersion(graph) =>
        \A m, n \in tree : m # n => Apart(graph, Prepared(m), Prepared(n))

(* The pruning of the search (sticked entries, rejections, actions that do *)
(* not make sense) loses no answer: "unable to resolve dependencies" is    *)
(* said only when no choice of versions satisfies every dependency, and    *)
(* then with at least one failure to explain it, though dominated failures *)
(* are dropped from the fail tree.                                         *)
Holds(g, pick, r) == \E e \in Successors(g, r) : IsUnsatisfied(g, e) \/ pick[Family(e)] = e
Solvable(g) ==
    \E pick \in [g.packages -> Elements(g)] :
        /\ \A f \in g.packages : pick[f] \in Image(g.related[f])
        /\ \A f \in g.packages : \A r \in Requires(g, pick[f]) : Holds(g, pick, r)
UnableOnlyIfUnsolvable ==
    status = "unable" => ~Solvable(graph) /\ failTree # {}

(* cupt(1) on the full resolver: solutions are suggested from the best to  *)
(* the worst, because none is left that could become better.               *)
FullOffersBestFirst ==
    [][status' = "offering" /\ status = "resolving" /\ options.type = "full" =>
        \A n \in tree' : IsFinished(heap', n) /\ ScoreOf(heap', n) <= offer'.score]_vars

(* The chain of reasons of a decision goes back in time: what an entry was *)
(* introduced by was in the solution before it, or __get_decisions loops   *)
(* for ever.  A reason is never an "unsatisfied" element, which            *)
(* __fillSuggestedPackageReasons would cast to a version vertex unseen.    *)
ReasonsGoBack ==
    \A ref \in DOMAIN heap : \A f \in DOMAIN heap[ref].entries :
        LET s == heap[ref]
            entry == s.entries[f]
        IN  entry.by # NoReason =>
                \A x \in ReasonElements(graph, s, entry.by, entry.element) :
                    IsVersionElement(graph, x) /\ EntryOf(s, x).level < entry.level

(* Cleaning is complete: cleaning an offered solution once more would      *)
(* remove nothing, though removals change what relations can lean on.  And *)
(* it spares what cupt.conf(5), no-autoremove-if-rdepends-exist, is for: a *)
(* package on that list stays as long as something that depends on it.     *)
NothingUnneededStays == status = "offering" => Needed(offer) = PresentElements(offer)

RDependsKeep ==
    [][status' = "offering" /\ status = "resolving" =>
        \A n \in tree \ tree' : n = Chosen(heap, tree) =>
            \A e \in PresentElements(offer') : \A r \in Requires(graph, e) \ graph.anti :
                \A x \in Successors(graph, r) :
                    KeptIfRDepends(Prepared(n), x) /\ Present(Prepared(n), x) => Present(offer', x)]_vars

CleansWhatIsUnneeded == []NothingUnneededStays /\ RDependsKeep

(* The search ends, whatever the user declines, if every choice fits an    *)
(* otherwise empty tree; and despite restarts, since each search that hits *)
(* the limit has used up leaves.                                           *)
EveryChoiceFits ==
    \A r \in Relations(graph), f \in graph.packages :
        Len(graph.satisfiers[r]) + Len(graph.related[f]) - 1 <= options.maxSolutionCount
Resolves == EveryChoiceFits => <>Ended
=============================================================================
