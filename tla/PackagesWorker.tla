--------------------------- MODULE PackagesWorker ---------------------------
(***************************************************************************)
(* PackagesWorker::changeSystem (internal/worker/packages.cpp): the groups *)
(* that ActionGraph schedules are cut into changesets, and for every       *)
(* changeset the archives are downloaded, dpkg is called for one group     *)
(* after the other, and the archives are deleted.  Marks of packages as    *)
(* automatically installed are written between the calls of dpkg.  A hook, *)
(* a download, a write or dpkg may fail, and the process may be killed;    *)
(* then the user may ask for the same again.                               *)
(*                                                                         *)
(* A system (see ActionGraph) has also                                     *)
(*   sizes     package -> size of the archive of its target version        *)
(*   present   packages whose archive is in the directory already          *)
(*   limit     cupt::worker::archives-space-limit, 0 for none              *)
(*   auto      packages marked as automatically installed                  *)
(*   overrides package -> the mark the user has asked for                  *)
(*   asAuto    packages that would be marked when newly installed          *)
(***************************************************************************)
EXTENDS ActionGraph

CONSTANT MaxRuns     \* bound: how often the user starts cupt

ASSUME MaxRunsAssumption == MaxRuns \in Nat \ {0}

WorkerFields == {"sizes", "present", "limit", "auto", "overrides", "asAuto"}

IsWorkerSystem(sys) ==
    /\ WorkerFields \subseteq DOMAIN sys
    /\ sys.sizes \in [Packages(sys) -> Nat]
    /\ sys.limit \in Nat
    /\ sys.present \subseteq Packages(sys)

ASSUME WorkerSystemsAssumption == \A sys \in Systems : IsWorkerSystem(sys)

VARIABLES
    run,        \* the number of the run
    stage,      \* where changeSystem is
    changesets, \* changesets not begun
    groups,     \* groups of the running changeset not done yet
    fetched,    \* packages whose archives the running changeset has downloaded
    archives,   \* packages whose archives are in the directory
    dpkg,       \* package -> its version, and whether that is configured
    leftovers,  \* packages to be purged that still have configuration files
    auto        \* packages marked as automatically installed

workVars == <<run, stage, changesets, groups, fetched, archives, dpkg, leftovers, auto>>
allVars == <<vars, workVars>>

-----------------------------------------------------------------------------
(***************************************************************************)
(* dpkg.  It knows the packages unpacked and configured and refuses what   *)
(* it has not been forced to do.                                           *)
(***************************************************************************)
Unpacked == {dpkg[p].version : p \in DOMAIN dpkg}
Configured == {dpkg[p].version : p \in {q \in DOMAIN dpkg : dpkg[q].configured}}

Dependencies(sys, v) == RelationsOf(sys, v, "PreDepends") \cup RelationsOf(sys, v, "Depends")
Meets(versions, expression) == versions \cap expression # {}

RemovalRefused(p, flags) ==
    /\ p \in DOMAIN dpkg
    /\ \/ /\ "--force-depends" \notin flags
          /\ LET v == dpkg[p].version
             IN  \E q \in Configured \ {v} : \E x \in Dependencies(system, q) :
                    v \in x /\ ~Meets(Configured \ {v}, x)
       \/ "--force-remove-essential" \notin flags /\ p \in system.essential
       \/ "--force-remove-reinstreq" \notin flags /\ p \in system.reinstreq

UnpackRefused(v, flags) ==
    LET others == {x \in Unpacked : Package(x) # Package(v)}
    IN  \/ Package(v) \notin archives
        \/ /\ "--force-depends" \notin flags
           /\ \E x \in RelationsOf(system, v, "PreDepends") : ~Meets(others \cap Configured, x)
        \/ \E x \in RelationsOf(system, v, "Conflicts") : Meets(others, x)
        \/ \E q \in others : \E x \in RelationsOf(system, q, "Conflicts") : v \in x
        \/ /\ "--force-breaks" \notin flags
           /\ \E x \in RelationsOf(system, v, "Breaks") : Meets(others, x)

ConfigureRefused(versions, flags) ==
    \E v \in versions :
        \/ /\ "--force-depends" \notin flags
           /\ \E x \in Dependencies(system, v) : ~Meets(Configured \cup versions, x)
        \/ /\ "--force-breaks" \notin flags
           /\ \E q \in Unpacked : Package(q) # Package(v) /\ \E x \in RelationsOf(system, q, "Breaks") : v \in x

-----------------------------------------------------------------------------
(* a group of actions as one call of dpkg *)
Done(group, type) == {VersionOf(a) : a \in {x \in group.actions : TypeOf(x) = type}}

(* getCompoundActionType: the type of the last action *)
CompoundType(group) ==
    CASE Done(group, "configure") # {} -> "configure"
      [] Done(group, "configure") = {} /\ Done(group, "unpack") # {} -> "unpack"
      [] OTHER -> "remove"

Refused(group) ==
    \/ CompoundType(group) = "remove" /\ \E v \in Done(group, "remove") : RemovalRefused(Package(v), group.flags)
    \/ \E v \in Done(group, "unpack") : UnpackRefused(v, group.flags)
    \/ ConfigureRefused(Done(group, "configure"), group.flags)

(* what dpkg knows when a group is done as far as configured tells *)
AfterUnpacking(group) ==
    LET new == {Package(v) : v \in Done(group, "unpack")}
    IN  [p \in DOMAIN dpkg \cup new |->
            IF p \in new THEN [version |-> system.target[p], configured |-> FALSE] ELSE dpkg[p]]

After(group, configured) ==
    IF CompoundType(group) = "remove"
    THEN Restrict(dpkg, DOMAIN dpkg \ {Package(v) : v \in Done(group, "remove")})
    ELSE [p \in DOMAIN AfterUnpacking(group) |->
            IF AfterUnpacking(group)[p].version \in configured
            THEN [AfterUnpacking(group)[p] EXCEPT !.configured = TRUE] ELSE AfterUnpacking(group)[p]]

-----------------------------------------------------------------------------
(* __prepare_downloads: what is to be unpacked and not there *)
Downloads ==
    {p \in Packages(system) : "unpack" \in Range(Task(system, p)) /\ p \notin archives}

Size(downloads) == MapThenSumSet(LAMBDA p : system.sizes[p], downloads)

EmptyChangeset == [groups |-> <<>>, downloads |-> {}]

(* mutant: the packages configured are looked at before those unpacked *)
SplitIntoChangesetsTooLate ==
    LET Add(acc, g) ==
            LET unpacked == {Package(v) : v \in Done(g, "unpack")}
                open == (acc.open \ {Package(v) : v \in Done(g, "configure")}) \cup unpacked
                changeset == [groups |-> Append(acc.changeset.groups, g),
                              downloads |-> acc.changeset.downloads \cup (unpacked \cap Downloads)]
            IN  IF open = {} /\ ~g.continued
                THEN [open |-> {}, changeset |-> EmptyChangeset, found |-> Append(acc.found, changeset)]
                ELSE [open |-> open, changeset |-> changeset, found |-> acc.found]
    IN  FoldLeft(Add, [open |-> {}, changeset |-> EmptyChangeset, found |-> <<>>], sequence)

(***************************************************************************)
(* __split_action_groups_into_changesets: a changeset ends where every     *)
(* package unpacked has been configured, and the next group may come later.*)
(***************************************************************************)
SplitIntoChangesets ==
    LET Add(acc, g) ==
            LET unpacked == {Package(v) : v \in Done(g, "unpack")}
                open == (acc.open \cup unpacked) \ {Package(v) : v \in Done(g, "configure")}
                changeset == [groups |-> Append(acc.changeset.groups, g),
                              downloads |-> acc.changeset.downloads \cup (unpacked \cap Downloads)]
            IN  IF open = {} /\ ~g.continued
                THEN [open |-> {}, changeset |-> EmptyChangeset, found |-> Append(acc.found, changeset)]
                ELSE [open |-> open, changeset |-> changeset, found |-> acc.found]
    IN  FoldLeft(Add, [open |-> {}, changeset |-> EmptyChangeset, found |-> <<>>], sequence)

TooBig(changeset) == system.limit > 0 /\ Size(changeset.downloads) > system.limit

(* mutant: the changeset to be merged fits, the merged one may not *)
MergedBlindly(split) ==
    LET Merge(acc, next) ==
            LET both == [groups |-> Last(acc).groups \o next.groups,
                         downloads |-> Last(acc).downloads \cup next.downloads]
            IN  IF TooBig(next) THEN Append(acc, next) ELSE Append(Front(acc), both)
    IN  FoldLeft(Merge, <<EmptyChangeset>>, split)

(* __get_changesets: neighbours are merged as long as they fit *)
Merged(split) ==
    LET Merge(acc, next) ==
            LET both == [groups |-> Last(acc).groups \o next.groups,
                         downloads |-> Last(acc).downloads \cup next.downloads]
            IN  IF TooBig(both) THEN Append(acc, next) ELSE Append(Front(acc), both)
    IN  FoldLeft(Merge, <<EmptyChangeset>>, split)

-----------------------------------------------------------------------------
(***************************************************************************)
(* p_computeTargetAutoStatus of the resolver, and autoFlagChanges of       *)
(* __generate_action_preview: a package to be removed loses the mark, but  *)
(* for one that was not installed properly.                                *)
(***************************************************************************)
WantsAuto(sys, p) ==
    /\ p \in DOMAIN sys.target \cup sys.interim
    /\ IF p \in DOMAIN sys.overrides THEN sys.overrides[p]
       ELSE IF p \in DOMAIN sys.installed THEN p \in sys.auto
       ELSE p \in sys.asAuto

AutoFlagChanges(sys) ==
    {p \in DOMAIN sys.target \cup DOMAIN sys.installed \cup sys.purged :
        WantsAuto(sys, p) # (p \in sys.auto)}

(* __change_auto_status *)
MarkedBy(group) ==
    LET unpacked == {Package(v) : v \in Done(group, "unpack")}
        removed == {Package(v) : v \in Done(group, "remove")}
        changes == AutoFlagChanges(system)
    IN  (auto \cup {p \in unpacked \cap changes : WantsAuto(system, p)})
            \ {p \in removed \cap changes : ~WantsAuto(system, p)}

-----------------------------------------------------------------------------
WorkerInit ==
    /\ Init
    /\ run = 1
    /\ stage = "scheduling"
    /\ changesets = <<>>
    /\ groups = <<>>
    /\ fetched = {}
    /\ archives = system.present
    /\ dpkg = [p \in DOMAIN system.installed |->
                [version |-> system.installed[p], configured |-> p \notin system.interim]]
    /\ leftovers = system.purged
    /\ auto = system.auto

Compute ==
    /\ stage = "scheduling"
    /\ TaskActions(system) # {} \/ AutoFlagChanges(system) # {}
    /\ Next
    /\ UNCHANGED workVars

(* "nothing to do" *)
NothingToDo ==
    /\ stage = "scheduling"
    /\ TaskActions(system) = {} /\ AutoFlagChanges(system) = {}
    /\ stage' = "done"
    /\ UNCHANGED <<vars, run, changesets, groups, fetched, archives, dpkg, leftovers, auto>>

(* __get_changesets succeeds, or there is an error before anything is done *)
CutIntoChangesets ==
    /\ stage = "scheduling"
    /\ status = "scheduled"
    /\ LET split == SplitIntoChangesets
       IN  IF split.open # {} \/ \E i \in DOMAIN split.found : TooBig(split.found[i])
           THEN /\ stage' = IF split.open # {} THEN "left unconfigured" ELSE "unable to fit"
                /\ UNCHANGED changesets
           ELSE /\ stage' = "between"
                /\ changesets' = Merged(split.found)
    /\ UNCHANGED <<vars, run, groups, fetched, archives, dpkg, leftovers, auto>>

(* __do_downloads, within the limit of the changeset *)
StartChangeset ==
    /\ stage = "between"
    /\ changesets # <<>>
    /\ groups' = Head(changesets).groups
    /\ fetched' = Head(changesets).downloads
    /\ archives' = archives \cup fetched'
    /\ changesets' = Tail(changesets)
    /\ stage' = "before dpkg"
    /\ UNCHANGED <<vars, run, dpkg, leftovers, auto>>

(* "there were download errors" *)
DownloadsFail ==
    /\ stage = "between"
    /\ changesets # <<>>
    /\ \E got \in SUBSET Head(changesets).downloads :
        /\ got # Head(changesets).downloads
        /\ archives' = archives \cup got
    /\ stage' = "stopped"
    /\ UNCHANGED <<vars, run, changesets, groups, fetched, dpkg, leftovers, auto>>

(* mutant: only removals are marked before dpkg is called *)
MarkBeforeRemovals ==
    /\ stage = "before dpkg"
    /\ groups # <<>>
    /\ auto' = IF CompoundType(Head(groups)) = "remove" THEN MarkedBy(Head(groups)) ELSE auto
    /\ stage' = "dpkg"
    /\ UNCHANGED <<vars, run, changesets, groups, fetched, archives, dpkg, leftovers>>

(* p_processActionGroup: all but removals are marked before dpkg is called *)
MarkBefore ==
    /\ stage = "before dpkg"
    /\ groups # <<>>
    /\ auto' = IF CompoundType(Head(groups)) = "remove" THEN auto ELSE MarkedBy(Head(groups))
    /\ stage' = "dpkg"
    /\ UNCHANGED <<vars, run, changesets, groups, fetched, archives, dpkg, leftovers>>

DpkgSucceeds ==
    /\ stage = "dpkg"
    /\ ~Refused(Head(groups))
    /\ dpkg' = After(Head(groups), Done(Head(groups), "configure"))
    /\ leftovers' = leftovers \ {Package(v) : v \in Done(Head(groups), "remove")}
    /\ stage' = "after dpkg"
    /\ UNCHANGED <<vars, run, changesets, groups, fetched, archives, auto>>

DpkgRefuses ==
    /\ stage = "dpkg"
    /\ Refused(Head(groups))
    /\ stage' = "refused"
    /\ UNCHANGED <<vars, run, changesets, groups, fetched, archives, dpkg, leftovers, auto>>

(* a maintainer script fails: a package stays unpacked, or as it was *)
DpkgFails ==
    /\ stage = "dpkg"
    /\ ~Refused(Head(groups))
    /\ \/ /\ CompoundType(Head(groups)) = "configure"
          /\ \E some \in SUBSET Done(Head(groups), "configure") :
                /\ some # Done(Head(groups), "configure")
                /\ dpkg' = After(Head(groups), some)
       \/ /\ CompoundType(Head(groups)) = "remove"
          /\ dpkg' = [p \in DOMAIN dpkg |->
                        IF dpkg[p].version \in Done(Head(groups), "remove")
                        THEN [dpkg[p] EXCEPT !.configured = FALSE] ELSE dpkg[p]]
    /\ stage' = "stopped"
    /\ UNCHANGED <<vars, run, changesets, groups, fetched, archives, leftovers, auto>>

(* ..., removals afterwards *)
MarkAfter ==
    /\ stage = "after dpkg"
    /\ auto' = IF CompoundType(Head(groups)) = "remove" THEN MarkedBy(Head(groups)) ELSE auto
    /\ groups' = Tail(groups)
    /\ stage' = "before dpkg"
    /\ UNCHANGED <<vars, run, changesets, fetched, archives, dpkg, leftovers>>

(* __clean_downloads *)
FinishChangeset ==
    /\ stage = "before dpkg"
    /\ groups = <<>>
    /\ archives' = IF system.limit > 0 THEN archives \ fetched ELSE archives
    /\ fetched' = {}
    /\ stage' = "between"
    /\ UNCHANGED <<vars, run, changesets, groups, dpkg, leftovers, auto>>

(* an archive cannot be removed *)
CleaningFails ==
    /\ stage = "before dpkg"
    /\ groups = <<>>
    /\ system.limit > 0
    /\ \E gone \in SUBSET fetched : archives' = archives \ gone
    /\ stage' = "stopped"
    /\ UNCHANGED <<vars, run, changesets, groups, fetched, dpkg, leftovers, auto>>

(* __do_independent_auto_status_changes, which skips packages with a task *)
MarkIndependent ==
    /\ stage = "between"
    /\ changesets = <<>>
    /\ \E p \in {q \in AutoFlagChanges(system) : ~Touched(system, q)} :
        /\ (p \in auto) # WantsAuto(system, p)
        /\ auto' = IF WantsAuto(system, p) THEN auto \cup {p} ELSE auto \ {p}
    /\ UNCHANGED <<vars, run, stage, changesets, groups, fetched, archives, dpkg, leftovers>>

Complete ==
    /\ stage = "between"
    /\ changesets = <<>>
    /\ \A p \in AutoFlagChanges(system) : Touched(system, p) \/ (p \in auto) = WantsAuto(system, p)
    /\ stage' = "done"
    /\ UNCHANGED <<vars, run, changesets, groups, fetched, archives, dpkg, leftovers, auto>>

(* a hook, a write or the clean-up fails, or the process is killed *)
Stop ==
    /\ stage \in {"between", "before dpkg", "dpkg", "after dpkg"}
    /\ stage' = "stopped"
    /\ UNCHANGED <<vars, run, changesets, groups, fetched, archives, dpkg, leftovers, auto>>

(* the system as it is found when cupt is started *)
SystemNow ==
    [system EXCEPT
        !.installed = [p \in DOMAIN dpkg |-> dpkg[p].version],
        !.interim = {p \in DOMAIN dpkg : ~dpkg[p].configured},
        !.purged = leftovers,
        !.present = archives,
        !.auto = auto]

(* the user asks for the same once more *)
RunAgain ==
    /\ stage = "stopped"
    /\ run < MaxRuns
    /\ run' = run + 1
    /\ stage' = "scheduling"
    /\ system' = SystemNow
    /\ graph' = Started(SystemNow).graph
    /\ item' = Started(SystemNow).item
    /\ todo' = system.packages
    /\ order' = <<>>
    /\ waiting' = <<>>
    /\ sequence' = <<>>
    /\ status' = "expanding"
    /\ changesets' = <<>>
    /\ groups' = <<>>
    /\ fetched' = {}
    /\ UNCHANGED <<archives, dpkg, leftovers, auto>>

WorkerNext ==
    \/ Compute \/ NothingToDo \/ CutIntoChangesets \/ StartChangeset \/ DownloadsFail
    \/ MarkBefore \/ DpkgSucceeds \/ DpkgRefuses \/ DpkgFails \/ MarkAfter
    \/ FinishChangeset \/ CleaningFails \/ MarkIndependent \/ Complete \/ Stop \/ RunAgain

(* one thread computes a schedule, and nothing makes it wait *)
WorkerSpec == WorkerInit /\ [][WorkerNext]_allVars /\ WF_allVars(Compute \/ NothingToDo)

-----------------------------------------------------------------------------
(* versions that can be installed together *)
Sound(sys, versions) ==
    \A v \in versions :
        /\ \A x \in Dependencies(sys, v) : Meets(versions, x)
        /\ \A x \in RelationsOf(sys, v, "Conflicts") \cup RelationsOf(sys, v, "Breaks") :
                ~Meets({q \in versions : Package(q) # Package(v)}, x)

StartedSound == Sound(system, Installed(system)) /\ system.interim = {}

(* No dependency of an untouched version shares two versions with another. *)
OneDependencyShared ==
    \A v \in Untouched(system) : \A x, y \in Dependencies(system, v) :
        x # y => Cardinality((x \cap y) \ Untouched(system)) < 2

(* dpkg is never asked for something that it refuses: every call comes when *)
(* its relations are met, or with the option that makes dpkg ignore them.   *)
DpkgNeverRefuses == StartedSound /\ OneDependencyShared => stage # "refused"

(* "After each changeset is done, system is fully working in the sense of   *)
(* packages, i.e. all dependencies are met and there are no packages in     *)
(* interim states" (doc/tutorial.t2t): the packages that change work.  (For *)
(* a dependency of an untouched one the code does not see to it.)           *)
WorksBetweenChangesets ==
    /\ stage # "left unconfigured"
    /\ StartedSound /\ stage = "between" =>
        /\ Configured = Unpacked
        /\ \A v \in Unpacked \ Untouched(system) :
            /\ \A x \in Dependencies(system, v) : Meets(Unpacked, x)
            /\ \A x \in RelationsOf(system, v, "Conflicts") \cup RelationsOf(system, v, "Breaks") :
                    ~Meets({q \in Unpacked : Package(q) # Package(v)}, x)

(* The archives which a run has put into the directory never take more than *)
(* the limit.                                                               *)
LimitKept == system.limit > 0 => Size(archives \ system.present) <= system.limit

(* A run that ends well has done all that was asked for: no action got lost *)
(* between the groups, the subgroups and the changesets.                    *)
EndsAsWanted ==
    stage = "done" =>
        /\ DOMAIN dpkg = DOMAIN system.target
        /\ \A p \in DOMAIN dpkg : dpkg[p] = [version |-> system.target[p], configured |-> TRUE]
        /\ leftovers = {}

(* The worker gives a schedule up only where relations that cannot be        *)
(* ignored make a circle through several packages, in the group which it has *)
(* split last; the edges it adds itself, moves and brings back never make    *)
(* one.  (What is left when it gives up may be less than the circle: an edge *)
(* that was moved no longer keeps the others in the group, see Entangled.)   *)
HardEdges(sys) == {e \in Edges(FilledGraph(sys)) : LevelOf(FilledGraph(sys), e) >= Hard}
HardGraph(sys, actions) ==
    [actions |-> actions,
     info |-> [e \in {x \in HardEdges(sys) : {x[1], x[2]} \subseteq actions} |-> {}]]
HardCircle(sys, actions) == \E c \in Components(HardGraph(sys, actions)) : ~SinglePackage(c)
GivesUpOnlyOnHardCycles == status = "circular" => HardCircle(system, item.actions)

(* A package installed for the sake of others is never there without the    *)
(* mark, wherever a run breaks off: the next run would take it for one that *)
(* the user wants.                                                          *)
MarkedBeforeInstalled ==
    \A p \in DOMAIN dpkg \ DOMAIN system.installed :
        p \in system.asAuto /\ p \notin DOMAIN system.overrides => p \in auto

(* The computation of a schedule comes to an end. *)
SchedulingEnds == [](stage = "scheduling" => <>(status \in {"scheduled", "circular"} \/ stage # "scheduling"))
=============================================================================
