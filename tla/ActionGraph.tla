----------------------------- MODULE ActionGraph -----------------------------
(***************************************************************************)
(* How the worker schedules dpkg (internal/worker/packages.cpp): the tasks *)
(* of the user become inner actions (remove, unpack, configure), relations *)
(* between the versions become edges of a graph of actions, the graph is   *)
(* sorted into strongly connected groups, and groups which dpkg cannot do  *)
(* in one call are split, weaker and weaker edges being given up.          *)
(*                                                                         *)
(* A relation expression is the set of the versions which satisfy it.      *)
(*                                                                         *)
(* Where the code compares groups of equal priority by the order in which  *)
(* a depth-first search has found their members, any of them may be first. *)
(***************************************************************************)
EXTENDS Integers, SequencesExt, Functions

CONSTANT Systems     \* what a run starts from

(***************************************************************************)
(* A system.  A version is <<package, number>>.                            *)
(*   packages    the sequence of packages, in the order of their names     *)
(*   installed   package -> installed version, where there is one          *)
(*   interim     packages whose installed version is unpacked only         *)
(*   purged      packages not installed, to be purged of configuration     *)
(*   target      package -> version that the accepted offer wants          *)
(*   essential   essential packages                                        *)
(*   reinstreq   packages whose installation was broken off; they go       *)
(*   relations   version -> dependency type -> sequence of expressions     *)
(***************************************************************************)
DependencyTypes == {"PreDepends", "Depends", "Conflicts", "Breaks"}

Package(v) == v[1]
Packages(sys) == {sys.packages[i] : i \in DOMAIN sys.packages}
Installed(sys) == {sys.installed[p] : p \in DOMAIN sys.installed}

RelationLine(sys, v, type) ==
    IF v \in DOMAIN sys.relations THEN sys.relations[v][type] ELSE <<>>
RelationsOf(sys, v, type) == Range(RelationLine(sys, v, type))

SystemFields ==
    {"packages", "installed", "interim", "purged", "target", "essential", "reinstreq", "relations"}

IsSystem(sys) ==
    /\ SystemFields \subseteq DOMAIN sys
    /\ sys.packages \in Seq(Packages(sys)) \ {<<>>}
    /\ DOMAIN sys.installed \subseteq Packages(sys)
    /\ DOMAIN sys.target \subseteq Packages(sys)
    /\ sys.interim \subseteq DOMAIN sys.installed
    /\ sys.purged \subseteq Packages(sys) \ (DOMAIN sys.installed \cup DOMAIN sys.target)
    /\ (sys.essential \cup sys.reinstreq) \cap sys.purged = {}
    /\ sys.reinstreq \cap DOMAIN sys.target = {}
    /\ \A p \in DOMAIN sys.installed : Package(sys.installed[p]) = p
    /\ \A p \in DOMAIN sys.target : Package(sys.target[p]) = p
    /\ \A v \in DOMAIN sys.relations, type \in DependencyTypes :
            RelationLine(sys, v, type) \in Seq(RelationsOf(sys, v, type))

ASSUME SystemsAssumption == \A sys \in Systems : IsSystem(sys)

VARIABLES
    system,     \* the input
    graph,      \* the graph being sorted
    todo,       \* the packages to come of a pass over the graph
    order,      \* the groups which the running sort has selected
    item,       \* the group being split; at first, all actions
    waiting,    \* groups still to be looked at, each with the graph it is of
    sequence,   \* groups which are ready for dpkg
    status

vars == <<system, graph, todo, order, item, waiting, sequence, status>>

-----------------------------------------------------------------------------
(***************************************************************************)
(* __generate_action_preview, and actionsMapping of __fill_actions: what   *)
(* has to be done to a package.                                            *)
(***************************************************************************)
Task(sys, p) ==
    IF p \in DOMAIN sys.target
    THEN IF p \notin DOMAIN sys.installed THEN <<"unpack", "configure">>
         ELSE IF p \in sys.interim
              THEN IF sys.target[p] = sys.installed[p] THEN <<"configure">>
                   ELSE <<"unpack", "configure">>
              ELSE IF sys.target[p] = sys.installed[p] THEN <<>>
                   ELSE <<"remove", "unpack", "configure">>
    ELSE IF p \in DOMAIN sys.installed \cup sys.purged THEN <<"remove">>
    ELSE <<>>

Touched(sys, p) == Task(sys, p) # <<>>

(* getBinaryPackage(...)->getInstalledVersion(), or __get_fake_version_for_purge *)
RemovedVersion(sys, p) == IF p \in DOMAIN sys.installed THEN sys.installed[p] ELSE <<p, 0>>

ActionOf(sys, p, type) ==
    <<type, IF type = "remove" THEN RemovedVersion(sys, p) ELSE sys.target[p]>>

TypeOf(a) == a[1]
VersionOf(a) == a[2]
PackageOf(a) == Package(VersionOf(a))
TaskActions(sys) ==
    UNION {{ActionOf(sys, p, Task(sys, p)[i]) : i \in DOMAIN Task(sys, p)} : p \in Packages(sys)}

(* __create_virtual_actions: untouched packages get fake actions *)
Untouched(sys) == {sys.installed[p] : p \in {q \in DOMAIN sys.installed : ~Touched(sys, q)}}
FakeActions(sys) == {<<type, v>> : type \in {"remove", "configure"}, v \in Untouched(sys)}
IsFake(sys, a) == VersionOf(a) \in Untouched(sys)

(* __get_pseudo_essential_package_names *)
PseudoEssential(sys) ==
    LET Satisfying(v, types) ==
            (UNION {UNION RelationsOf(sys, v, type) : type \in types}) \cap Installed(sys)
        first == UNION {Satisfying(v, {"PreDepends"}) :
                            v \in {x \in Installed(sys) : Package(x) \in sys.essential}}
        wave[n \in Nat] ==
            IF n = 0 THEN first
            ELSE UNION {{v} \cup Satisfying(v, {"PreDepends", "Depends"}) : v \in wave[n - 1]}
    IN  {Package(v) : v \in wave[Cardinality(Installed(sys))]}

(* the edges between consecutive actions, and those which merge them *)
FundamentalEdges(sys) ==
    LET Steps(p) == {i \in DOMAIN Task(sys, p) : i > 1}
        Step(p, i) == <<ActionOf(sys, p, Task(sys, p)[i - 1]), ActionOf(sys, p, Task(sys, p)[i])>>
        Merged(p, i) ==
            \/ Task(sys, p)[i - 1] = "remove" /\ p \in sys.essential \cup PseudoEssential(sys)
            \/ Task(sys, p)[i - 1] = "unpack" /\ p \in PseudoEssential(sys)
        Back(e) == <<e[2], e[1]>>
    IN  (UNION {{Step(p, i) : i \in Steps(p)} : p \in Packages(sys)}) \cup
        (UNION {{Back(Step(p, i)) : i \in {j \in Steps(p) : Merged(p, j)}} : p \in Packages(sys)})

(***************************************************************************)
(* __fill_graph_dependencies: what an action demands of others, as type of *)
(* the dependency, of the other action, and whether the other comes before *)
(* it.                                                                     *)
(***************************************************************************)
UnpackDemands == {<<"PreDepends", "configure", "before">>,
                  <<"Conflicts", "remove", "before">>, <<"Breaks", "remove", "before">>}
RemoveDemands == {<<"PreDepends", "remove", "after">>, <<"Depends", "remove", "after">>,
                  <<"Conflicts", "unpack", "after">>, <<"Breaks", "unpack", "after">>,
                  <<"Breaks", "configure", "after">>}

Demands(actions, a) ==
    CASE TypeOf(a) = "unpack" -> UnpackDemands
      [] TypeOf(a) = "remove" -> RemoveDemands
      [] TypeOf(a) = "configure" ->
            {<<"Depends", "configure", "before">>} \cup
            (IF <<"unpack", VersionOf(a)>> \in actions THEN {} ELSE UnpackDemands)

(* __fill_action_dependencies, for one demand of action a *)
DependencyRecords(sys, actions, a, demand) ==
    LET type == demand[1]
        Others(expression) ==
            {b \in actions : /\ TypeOf(b) = demand[2] /\ VersionOf(b) \in expression
                             /\ ~(IsFake(sys, a) /\ IsFake(sys, b))}
        after == demand[3] = "after"
    IN  IF IsFake(sys, a) /\ type \notin {"PreDepends", "Depends"} THEN {}
        ELSE UNION {{[edge |-> IF after THEN <<a, b>> ELSE <<b, a>>,
                      info |-> [type |-> type, expression |-> x, reverse |-> after,
                                virtual |-> IsFake(sys, a) \/ IsFake(sys, b)]] :
                        b \in Others(x)} : x \in RelationsOf(sys, VersionOf(a), type)}

AllRecords(sys, actions) ==
    UNION {UNION {DependencyRecords(sys, actions, a, d) : d \in Demands(actions, a)} : a \in actions}

(***************************************************************************)
(* __expand_and_delete_virtual_edges: a dependency of an untouched version *)
(* that one action meets and another one stops meeting orders the two.     *)
(* Where they share several dependencies, the edge gets the first of them. *)
(***************************************************************************)
FirstShared(sys, v, records) ==
    LET Demander(r) == IF r.info.type \in {"PreDepends", "Depends"} THEN v ELSE VersionOf(r.edge[1])
        Line(r) == RelationLine(sys, Demander(r), r.info.type)
        Place(r) == Min({i \in DOMAIN Line(r) : Line(r)[i] = r.info.expression})
        Earlier(r, s) == IF r.info.type = s.info.type THEN Place(r) <= Place(s)
                         ELSE r.info.type = "Depends"
    IN  CHOOSE r \in records : \A s \in records : Earlier(r, s)

MultipliedRecords(sys, records) ==
    LET Into(v) == {r \in records : r.edge[2] = <<"configure", v>>}
        OutOf(v) == {r \in records : r.edge[1] = <<"remove", v>>}
        Shared(v, a, b) ==
            {r \in Into(v) : /\ r.edge[1] = a
                             /\ \E s \in OutOf(v) : /\ s.edge[2] = b
                                                    /\ s.info.type = r.info.type
                                                    /\ s.info.expression = r.info.expression}
        Pairs(v) == {ab \in {r.edge[1] : r \in Into(v)} \X {r.edge[2] : r \in OutOf(v)} :
                        ab[1] # ab[2] /\ Shared(v, ab[1], ab[2]) # {}}
    IN  UNION {{[edge |-> ab, info |-> FirstShared(sys, v, Shared(v, ab[1], ab[2])).info] :
                    ab \in Pairs(v)} : v \in Untouched(sys)}

-----------------------------------------------------------------------------
(***************************************************************************)
(* Graphs with attributes.  info maps every edge to its relation records;  *)
(* an edge of the set potential has been moved to another one; links are   *)
(* the pairs linkedFrom and linkedTo.                                      *)
(***************************************************************************)
Priority == 0
FromVirtual == 1
Soft == 2
Medium == 3
Hard == 4
Fundamental == 5

RecordLevel(r) ==
    CASE r.type = "Conflicts" -> Hard
      [] r.type = "Breaks" -> Medium
      [] r.type \in {"PreDepends", "Depends"} /\ r.virtual -> FromVirtual
      [] r.type \in {"PreDepends", "Depends"} /\ ~r.virtual /\ r.reverse -> Soft
      [] OTHER -> Hard

InfoLevel(info) == Max({Priority} \cup {RecordLevel(r) : r \in info})

(* Attribute::getLevel *)
LevelOf(g, e) == IF e \in g.fundamental THEN Fundamental ELSE InfoLevel(g.info[e])

Edges(g) == DOMAIN g.info
Predecessors(g, a) == {e[1] : e \in {x \in Edges(g) : x[2] = a}}
Successors(g, a) == {e[2] : e \in {x \in Edges(g) : x[1] = a}}

(* actions of the same package that follow one another *)
IsStep(a, b) ==
    /\ PackageOf(a) = PackageOf(b)
    /\ \/ TypeOf(a) = "remove" /\ TypeOf(b) = "unpack"
       \/ TypeOf(a) = "unpack" /\ TypeOf(b) = "configure"

(* __for_each_package_sequence: the actions around the unpacking of p *)
Unpacks(g, p) == \E a \in g.actions : TypeOf(a) = "unpack" /\ PackageOf(a) = p
UnpackOf(g, p) == CHOOSE a \in g.actions : TypeOf(a) = "unpack" /\ PackageOf(a) = p
FirstOf(g, p) ==
    LET u == UnpackOf(g, p)
        removals == {e[1] : e \in {x \in Edges(g) : x[2] = u /\ IsStep(x[1], u)}}
    IN  IF removals = {} THEN u ELSE CHOOSE a \in removals : TRUE
LastOf(g, p) ==
    LET u == UnpackOf(g, p)
        configures == {e[2] : e \in {x \in Edges(g) : x[1] = u /\ IsStep(u, x[2])}}
    IN  IF configures = {} THEN u ELSE CHOOSE a \in configures : TRUE

(* __build_actions_graph up to the iterations *)
FilledGraph(sys) ==
    LET actions == TaskActions(sys)
        records == AllRecords(sys, actions \cup FakeActions(sys))
        all == {r \in records \cup MultipliedRecords(sys, records) :
                    r.edge[1] \in actions /\ r.edge[2] \in actions}
        fundamental == FundamentalEdges(sys)
        priority == {<<ActionOf(sys, p, "configure"), ActionOf(sys, p, Head(Task(sys, p)))>> :
                        p \in {q \in Packages(sys) : Len(Task(sys, q)) > 1}}
    IN  [actions |-> actions,
         fundamental |-> fundamental,
         info |-> [e \in fundamental \cup priority \cup {r.edge : r \in all} |->
                        {r.info : r \in {x \in all : x.edge = e}}],
         potential |-> {},
         links |-> {}]

WithEdges(g, new) ==
    [g EXCEPT !.info = [e \in DOMAIN @ \cup new |-> IF e \in DOMAIN @ THEN @[e] ELSE {}]]

(* getReachableFrom *)
Reachable(g, a) ==
    LET reached[n \in Nat] ==
            IF n = 0 THEN {a}
            ELSE UNION {{b} \cup Successors(g, b) : b \in reached[n - 1]}
    IN  reached[Cardinality(g.actions)]

-----------------------------------------------------------------------------
(***************************************************************************)
(* __expand_linked_actions.  A chain that is done in one go may as well    *)
(* wait for, or be awaited by, what both its old and its new version allow:*)
(* such edges become virtual ones from the end of the chain to its start.  *)
(***************************************************************************)
CanBecomeVirtual(g, e, antagonist, reverse) ==
    /\ LevelOf(g, e) \notin {Priority, Fundamental}
    /\ \A r \in g.info[e] : r.reverse = reverse => VersionOf(antagonist) \in r.expression

FullyLinked(g, p) ==
    /\ TypeOf(FirstOf(g, p)) = "remove"
    /\ TypeOf(LastOf(g, p)) = "configure"
    /\ {<<FirstOf(g, p), UnpackOf(g, p)>>, <<UnpackOf(g, p), LastOf(g, p)>>} \subseteq g.links

ExpandChain(g, p) ==
    LET from == FirstOf(g, p)
        to == LastOf(g, p)
        moved == {e \in Edges(g) : e[2] = from /\ e[1] # to /\ CanBecomeVirtual(g, e, to, TRUE)} \cup
                 {e \in Edges(g) : e[1] = to /\ e[2] # from /\ CanBecomeVirtual(g, e, from, FALSE)}
        wide == WithEdges(g, {<<to, from>>})
        virtual == {[r EXCEPT !.virtual = TRUE] : r \in UNION {g.info[e] : e \in moved}}
    IN  IF ~FullyLinked(g, p) \/ moved = {} THEN g
        ELSE [wide EXCEPT
                !.info = [e \in DOMAIN @ \ moved |-> IF e = <<to, from>> THEN @[e] \cup virtual ELSE @[e]],
                !.potential = @ \cup {[at |-> <<to, from>>, edge |-> e, info |-> g.info[e]] : e \in moved}]

(***************************************************************************)
(* __set_priority_links: what the later actions of a chain wait for, its   *)
(* first action waits for too, unless that would make a cycle.             *)
(***************************************************************************)
LinkWithPriority(g, p) ==
    LET from == FirstOf(g, p)
        to == LastOf(g, p)
        late == {to} \cup ({UnpackOf(g, p)} \ {from})
        free == (UNION {Predecessors(g, a) : a \in late}) \ Reachable(g, from)
    IN  IF <<to, from>> \in Edges(g) THEN g ELSE WithEdges(g, {<<a, from>> : a \in free})

-----------------------------------------------------------------------------
(***************************************************************************)
(* topologicalSortOfStronglyConnectedComponents                            *)
(***************************************************************************)
Components(g) ==
    {{b \in g.actions : b \in Reachable(g, a) /\ a \in Reachable(g, b)} : a \in g.actions}

PackagesOf(actions) == {PackageOf(a) : a \in actions}

(* __set_action_priority; the unpacking after a removal is worth more *)
ActionPriority(sys, a) ==
    CASE TypeOf(a) = "remove" -> -5
      [] TypeOf(a) = "configure" -> 3
      [] TypeOf(a) = "unpack" -> IF Head(Task(sys, PackageOf(a))) = "remove" THEN 4 ELSE -2

(* __get_action_group_priority; the division of C++ rounds towards zero *)
GroupPriority(sys, group) ==
    LET sum == MapThenSumSet(LAMBDA a : ActionPriority(sys, a), group)
        size == Cardinality(PackagesOf(group))
    IN  IF sum >= 0 THEN sum \div size ELSE -((-sum) \div size)

Chosen(groups) == UNION Range(groups)

(* haveNoPredecessors *)
Selectable(g, groups) ==
    {c \in Components(g) : /\ c \cap Chosen(groups) = {}
                           /\ UNION {Predecessors(g, a) : a \in c} \subseteq c \cup Chosen(groups)}

-----------------------------------------------------------------------------
(***************************************************************************)
(* __link_actions: neighbours in the order found are linked                *)
(***************************************************************************)
SinglePackage(group) == Cardinality(PackagesOf(group)) = 1

(* mutant: links that are there count as new *)
NewLinksAgain(g, groups) ==
    UNION {{ab \in groups[i] \X g.actions :
                /\ ab[2] \in groups[i] \cup groups[Min({i + 1, Len(groups)})]
                /\ IsStep(ab[1], ab[2])} : i \in DOMAIN groups}

NewLinks(g, groups) ==
    LET Neighbours(i, a) ==
            IF i < Len(groups) /\ (IF TypeOf(a) = "remove"
                                   THEN SinglePackage(groups[i]) \/ SinglePackage(groups[i + 1])
                                   ELSE SinglePackage(groups[i]) /\ SinglePackage(groups[i + 1]))
            THEN groups[i] \cup groups[i + 1] ELSE groups[i]
    IN  (UNION {{ab \in groups[i] \X g.actions : ab[2] \in Neighbours(i, ab[1]) /\ IsStep(ab[1], ab[2])} :
                i \in DOMAIN groups}) \ g.links

Linked(g, links) ==
    [WithEdges(g, {<<l[2], l[1]>> : l \in links}) EXCEPT !.links = @ \cup links]

(***************************************************************************)
(* __build_mini_action_graph: the graph of one group without the edges     *)
(* below a level.  Giving up an edge brings the edges back that were moved *)
(* to it.                                                                  *)
(***************************************************************************)
Ignored(g, group, level) ==
    {e \in Edges(g) : {e[1], e[2]} \subseteq group /\ LevelOf(g, e) < level}

MiniGraph(g, group, level) ==
    LET Inside(e) == {e[1], e[2]} \subseteq group
        ignored == Ignored(g, group, level)
        kept == {e \in Edges(g) : Inside(e)} \ ignored
        strong == {m \in g.potential : Inside(m.edge) /\ InfoLevel(m.info) >= level}
        restored == {m \in strong : m.at \in ignored}
    IN  [actions |-> group,
         fundamental |-> g.fundamental \cap kept,
         info |-> [e \in kept \cup {m.edge : m \in restored} |->
                        (IF e \in kept THEN g.info[e] ELSE {}) \cup
                        UNION {m.info : m \in {x \in restored : x.edge = e}}],
         potential |-> {m \in strong : m.at \in kept},
         links |-> {}]

RemovedRelations(g, group, level) == {r.type : r \in UNION {g.info[e] : e \in Ignored(g, group, level)}}

(* __is_circular_action_subgroup_allowed *)
Allowed(group) ==
    \/ SinglePackage(group)
    \/ \A a \in group : TypeOf(a) = "configure"

(* mutant: breaks that are given up are not forced *)
ForceFlagsOfDepends(removed) ==
    IF removed \cap {"Depends", "PreDepends"} # {} THEN {"--force-depends"} ELSE {}

ForceFlags(removed) ==
    (IF removed \cap {"Depends", "PreDepends"} # {} THEN {"--force-depends"} ELSE {}) \cup
    (IF "Breaks" \in removed THEN {"--force-breaks"} ELSE {})

(* the groups of an order, as they go on to the next level of splitting *)
Subgroups(parent, g, groups) ==
    [i \in DOMAIN groups |->
        [actions |-> groups[i],
         flags |-> parent.flags \cup (IF Len(groups) > 1 THEN ForceFlags(parent.removed) ELSE {}),
         continued |-> parent.level - 1 > Priority /\ (i = Len(groups) => parent.continued),
         level |-> parent.level + 1,
         graph |-> g]]

(* __set_force_options_for_removals_if_needed *)
WithRemovalFlags(sys, group) ==
    LET unpacked == PackagesOf({a \in group.actions : TypeOf(a) = "unpack"})
        removed == PackagesOf({a \in group.actions : TypeOf(a) = "remove"}) \ unpacked
    IN  [group EXCEPT !.flags = @ \cup
            (IF removed \cap sys.reinstreq # {} THEN {"--force-remove-reinstreq"} ELSE {}) \cup
            (IF removed \cap sys.essential # {} THEN {"--force-remove-essential"} ELSE {})]

-----------------------------------------------------------------------------
EmptyGraph == [actions |-> {}, fundamental |-> {}, info |-> <<>>, potential |-> {}, links |-> {}]
Group(actions, flags, continued) == [actions |-> actions, flags |-> flags, continued |-> continued]
Item(group, level, removed) ==
    [actions |-> group.actions, flags |-> group.flags, continued |-> group.continued,
     level |-> level, removed |-> removed]

(* __build_actions_graph, up to the iterations *)
Started(sys) ==
    [graph |-> FilledGraph(sys), item |-> Item(Group(TaskActions(sys), {}, FALSE), Priority, {})]

Init ==
    /\ system \in Systems
    /\ graph = Started(system).graph
    /\ item = Started(system).item
    /\ todo = system.packages
    /\ order = <<>>
    /\ waiting = <<>>
    /\ sequence = <<>>
    /\ status = "expanding"

(* __for_each_package_sequence: one package after the other *)
ForNextPackage(F(_, _), this, next) ==
    /\ status = this
    /\ todo # <<>>
    /\ graph' = IF Unpacks(graph, Head(todo)) THEN F(graph, Head(todo)) ELSE graph
    /\ todo' = IF Tail(todo) = <<>> THEN system.packages ELSE Tail(todo)
    /\ status' = IF Tail(todo) = <<>> THEN next ELSE this
    /\ UNCHANGED <<system, item, order, waiting, sequence>>

(* an iteration of __iterate_over_graph begins with two such passes *)
Expand == ForNextPackage(ExpandChain, "expanding", "prioritising")
Prioritise == ForNextPackage(LinkWithPriority, "prioritising", "sorting")

(* __topological_sort_with_priorities selects one of the best groups *)
Select ==
    /\ status = "sorting"
    /\ \E c \in Selectable(graph, order) :
        /\ \A d \in Selectable(graph, order) : GroupPriority(system, d) <= GroupPriority(system, c)
        /\ order' = Append(order, c)
    /\ UNCHANGED <<system, graph, todo, item, waiting, sequence, status>>

Sorted == status = "sorting" /\ Chosen(order) = graph.actions

(* __link_actions has linked something: iterate *)
Link ==
    /\ Sorted
    /\ NewLinks(graph, order) # {}
    /\ graph' = Linked(graph, NewLinks(graph, order))
    /\ order' = <<>>
    /\ status' = "expanding"
    /\ UNCHANGED <<system, todo, item, waiting, sequence>>

(* mutant: the subgroups replace the groups which are still waiting *)
FinishForgetting ==
    /\ Sorted
    /\ NewLinks(graph, order) = {}
    /\ waiting' = Subgroups(item, graph, order)
    /\ status' = "splitting"
    /\ order' = <<>>
    /\ graph' = EmptyGraph
    /\ UNCHANGED <<system, todo, item, sequence>>

(* the iteration is over; the graph has not changed since the sort, and *)
(* sorting it once more gives the same groups *)
Finish ==
    /\ Sorted
    /\ NewLinks(graph, order) = {}
    /\ waiting' = Subgroups(item, graph, order) \o waiting
    /\ status' = "splitting"
    /\ order' = <<>>
    /\ graph' = EmptyGraph
    /\ UNCHANGED <<system, todo, item, sequence>>

(* __split_heterogeneous_actions leaves a group as it is *)
Keep ==
    /\ status = "splitting"
    /\ waiting # <<>>
    /\ LET w == Head(waiting)
       IN  /\ Allowed(w.actions)
           /\ sequence' = Append(sequence,
                    WithRemovalFlags(system, Group(w.actions, w.flags, w.continued)))
    /\ waiting' = Tail(waiting)
    /\ UNCHANGED <<system, graph, todo, order, item, status>>

(* ..., splits it with a mini graph *)
Split ==
    /\ status = "splitting"
    /\ waiting # <<>>
    /\ LET w == Head(waiting)
       IN  /\ ~Allowed(w.actions)
           /\ w.level <= Hard
           /\ graph' = MiniGraph(w.graph, w.actions, w.level)
           /\ item' = Item(w, w.level, RemovedRelations(w.graph, w.actions, w.level))
    /\ waiting' = Tail(waiting)
    /\ status' = "expanding"
    /\ UNCHANGED <<system, todo, order, sequence>>

(* mutant: one level too early *)
GiveUpEarly ==
    /\ status = "splitting"
    /\ waiting # <<>>
    /\ ~Allowed(Head(waiting).actions)
    /\ Head(waiting).level >= Hard
    /\ status' = "circular"
    /\ UNCHANGED <<system, graph, todo, order, item, waiting, sequence>>

(* ..., or "unable to schedule circular actions" *)
GiveUp ==
    /\ status = "splitting"
    /\ waiting # <<>>
    /\ ~Allowed(Head(waiting).actions)
    /\ Head(waiting).level > Hard
    /\ status' = "circular"
    /\ UNCHANGED <<system, graph, todo, order, item, waiting, sequence>>

Schedule ==
    /\ status = "splitting"
    /\ waiting = <<>>
    /\ status' = "scheduled"
    /\ UNCHANGED <<system, graph, todo, order, item, waiting, sequence>>

Next ==
    \/ Expand \/ Prioritise \/ Select \/ Link \/ Finish
    \/ Keep \/ Split \/ GiveUp \/ Schedule

(* one thread computes the schedule, and nothing makes it wait *)
Spec == Init /\ [][Next]_vars /\ WF_vars(Next)
=============================================================================
