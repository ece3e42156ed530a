# Formal models of cupt

cupt is a package manager for Debian-like systems: a library (`cpp/lib`) with a
cache of package metadata, a dependency resolver and a worker that changes the
system, a console program (`cpp/console`) and download methods
(`cpp/downloadmethods`).  This directory holds TLA+ models of its algorithms and
processes, the TLC configurations which check them on small instances, and
proofs, checked by TLAPS, of what holds on every instance.

Paths below are relative to `src/cpp/lib/src/` unless they start with `src/`.

1. [The parts of the system](#the-parts-of-the-system)
2. [Modules](#modules)
3. [The download manager](#the-download-manager)
4. [The native resolver](#the-native-resolver)
5. [The resolver's graph](#the-resolvers-graph)
6. [Copy-on-write maps](#copy-on-write-maps)
7. [The packages worker](#the-packages-worker)
8. [The metadata update](#the-metadata-update)
9. [The package cache](#the-package-cache)
10. [Disagreements](#disagreements)
11. [Proofs](#proofs)
12. [What is not modelled](#what-is-not-modelled)
13. [What could follow](#what-could-follow)

## The parts of the system

A command such as `cupt install x` goes through the parts in this order: the
console handler reads the *configuration*, builds the *cache* (installed
versions from the *dpkg state*, available ones from the index files, sorted by
*pin*), hands requests to the *resolver*, shows its offers to the user, and
passes the accepted one to the *worker*.  The worker schedules *actions*, has
the *download manager* fetch archives (and, for `cupt update`, index files),
runs dpkg and keeps the flags of automatically installed packages.  Calls are
synchronous and in one process, except in the download manager, which forks, and
in `cupt update`, which has a thread for every entry of the sources list.

| Part | State | Operations | What is hard | What makes it correct |
|---|---|---|---|---|
| Download manager (`download/manager.cpp`, `internal/pipe.cpp`) | queues, active downloads, hold list, results in a worker process; sockets and pipes | `download()` from threads, one performer process per download, destructor | interleaving of processes, messages overtaking each other, crashes, retries, a limit on slots | each request is answered once; calls end; limit kept; success means a file; nothing outlives the parent |
| Resolver: solutions (`internal/nativeresolver/solution.cpp`) | entries and broken relations of a candidate, shared by reference | apply an action, clone, prepare lazily, reject, set empty | incremental update of broken relations; sharing | broken relations are exactly those that do not hold; parents never change |
| Resolver: search (`impl.cpp`, `decisionfailtree.cpp`, `autoremovalpossibility.cpp`) | tree of solutions, fail tree, counters | choose, branch, prune, restart, clean, verify, offer | pruning that loses answers, restarts, limits, order of scores | no internal error; "unable" only if unsolvable; search ends |
| Resolver: dependency graph (`dependencygraph.cpp`, `internal/graph.hpp`) | vertices for versions, relations, synchronisation; unfolded lazily | fill, unfold, add user requests | laziness, sharing of vertices by hash keys | edges say what relations mean |
| Resolver: copy-on-write maps (`cowmap.tpp`) | master and slave maps, added entries, fork counter | find, add, remove, copy, shift to master | copies share the additions of a parent which may still change | a copy equals an eager copy |
| Resolver: scores (`score.cpp`) | options | score of a change | signs and factors of priorities which may be negative | the preferred version is worth going to |
| Worker: packages (`internal/worker/packages.cpp`, `dpkg.cpp`, `setupandpreview.cpp`) | action graph, changesets, automatic flags | preview, schedule, download, run dpkg, mark, clean | cyclic dependencies, linked actions, failure between steps, archive space | dpkg is called in a legal order or with the force option; flags follow packages |
| Worker: metadata (`internal/worker/metadata.cpp`, `cachefiles.cpp`, `indexofindex.cpp`) | release, index and partial files on disk | update, alternatives, diffs, post actions, cleanup | threads which share release files, kills, partial files resumed by the next run, files moved before they are verified | success means current indexes; no file is mixed of two releases |
| Worker: snapshots (`internal/worker/snapshots.cpp`, `system/snapshots.cpp`) | snapshot directories | save, rename, remove, set up the resolver | failure between steps, process-wide working directory | a snapshot is complete or absent |
| Worker: archives, base, lock (`archives.cpp`, `base.cpp`, `internal/lock.cpp`) | archive files, lock files | clean, delete partial, lock | two processes | one holder at a time |
| Package cache (`internal/cacheimpl.cpp`, `pininfo.cpp`, `cache.cpp`, `cache/package.cpp`) | packages, provides, pins, remembered answers | read, get, satisfy, sort by priority, preferred version | laziness, remembered answers, merging of records in any order, pins of the installed version | a version is a build; answers do not depend on what was asked before; the policy settles |
| Cache data (`cache/relation.cpp`, `versionparse.cpp`, `tagparser.cpp`, `hashsums.cpp`) | - | parse, compare, match | text handling | relations match by version order |
| Version comparison (`common/compareversions.cpp`) | - | compare | borders of digits, tilde | a total order |
| dpkg state (`system/state.cpp`) | installed records | parse, query | many states of a package | what counts as installed |
| Configuration (`config.cpp`, `internal/configparser.cpp`) | scalars, lists | parse, get, set | precedence | last value wins, lists append |
| Files, hashes, logging (`file.cpp`, `internal/filesystem.cpp`, `hashsums.cpp`, `internal/logger.cpp`) | - | I/O | none of its own | - |
| Progress and methods (`download/progress.cpp`, `download/progresses/console.cpp`, `src/cpp/downloadmethods/`) | counters; transfers | notify; perform | - | - |
| Console: selectors (`src/cpp/console/functionselectors.cpp`, `selectors.cpp`) | memoised conversions | select versions | sorted lists merged and intersected, two orders of versions | a selection is the set that was asked for |
| Console: handlers (`src/cpp/console/`) | options | handlers | drives resolver and worker | - |

`PROJECT.json` lists for every part what is modelled, and under "hazards" every
place that is hard to test, with the properties which would catch it going wrong.

## Modules

| Module | What it is |
|---|---|
| `DownloadService` | what the calls of `download()` are promised |
| `DownloadManager` | worker, performers, clients and parent as one state machine; its properties; it implements `DownloadService` |
| `MCDownloadManager` | calls, entities and URIs for TLC |
| `DownloadManagerProofs` | the type invariant, the limit of slots, wake-ups, requests, writers and internal errors, for all constants |
| `DownloadServiceProofs` | the refinement of `DownloadService`, for all constants |
| `ResolverSolution` | constant-level: dependency graphs, solutions, actions |
| `NativeResolver` | the search over solutions as a state machine; its properties |
| `MCNativeResolver` | families of dependency graphs for TLC |
| `NativeResolverProofs` | lemmas about `ResolverSolution`; all safety properties of the search, for all graphs |
| `DependencyGraph`, `MCDependencyGraph` | how the graph is unfolded from the packages of the cache; worlds for TLC |
| `DependencyGraphProofs` | that the graph means what the packages say, for all worlds, options and requests |
| `PlainMaps` | what the solutions take their maps for |
| `CowMap`, `MCCowMap` | the copy-on-write maps, which implement `PlainMaps` |
| `CowMapProofs` | that refinement, for all maps, keys and data |
| `ActionGraph` | how actions are ordered, grouped and split for dpkg |
| `PackagesWorker` | extends it: changesets, downloads, dpkg, flags, failures, repeated runs; its properties |
| `MCPackagesWorker` | families of systems for TLC |
| `PackagesWorkerProofs` | that what was asked for is done, the limit, the marks, and that only hard circles are given up, for all systems |
| `MetadataUpdate`, `MCMetadataUpdate` | `cupt update` over several runs; sources for TLC |
| `MetadataUpdateProofs` | that files are never mixed up, and what success and failure of an update mean, for all sources and any number of runs |
| `VersionStrings` | how version strings are compared |
| `PackageCache` | extends it: reading, versions, pins, scores, answers to relation expressions |
| `FunctionSelectors`, `MCPackageCache` | extends the cache by queries; worlds and queries for TLC |
| `Loops` | induction over a loop written with `FoldLeft`, for proofs |

Every property of a passing run has a mutant: a wrong version of a definition,
which stands in the same module, is used by nothing, and makes TLC find the
property violated when it takes the place of the right one.  `PROJECT.json`
lists them.  Most extend the name of the right definition
(`HasFreeSlotOffByOne`); some also have a comment "mutant".

## The download manager

`DownloadManager` models `download/manager.cpp`.

The manager is a small distributed system.  The constructor forks a *worker*
process, which owns all the queues.  Every call of `download()` is a *client*
with a socket of its own to the worker; calls run in threads of the parent
process.  For every download the worker forks a *performer* process, which
reports through a pipe.  The destructor writes "exit" into a pipe of its own and
waits for the worker.

| Model | Code |
|---|---|
| `worker`, `exitFlag`, `workerQueue`, `done`, `activeDownloads`, `onHold`, `sizes`, `clientSockets` | the variables of `ManagerImpl` and of `worker()` in the worker process |
| `reaping` | the worker is inside `waitpid()` of `processPreliminaryResult` |
| `backlog` | connections which `accept()` has not returned yet |
| `process`, `pipe`, `placed` | performer processes, their pipes, complete files at target paths |
| `pc`, `unscheduled`, `remaining`, `waited`, `outcome` | local variables of the calls of `download()` |
| `inbox`, `outbox` | bytes under way on the client sockets |
| `parent`, `parentPipe` | the parent process and the pipe of the destructor |

One step of the worker is one turn of its loop: `pollAllInput` picks a message
(the internal queue first, then the parent pipe, the listening socket, the
clients, the performers) and the handler runs to its end.  Only `waitpid()`
splits a handler: `ProcessPreliminaryResult` ends with the reply, `Reap` is the
return of `waitpid()`.  Clients and performers interleave with the worker in
every way.

Faults: performers crash (`performer crashes`), `fork()` fails (`fork fails`),
`accept()` fails (`accept fails`), the parent process is killed at any point
(`parent dies`).  A write to a socket whose other end is closed ends the writer
with SIGPIPE, because the code installs no handler.

Abstractions: a result is `"ok"` or `"error"`; an entity stands for its target
path; a performer reports a wrong size at most once; the progress meter and the
messages which only feed it are left out; process and descriptor numbers are not
reused; a performer which was killed places no complete file.

`DownloadService` is all of this as the calls see it: a URI gets one result,
entities are answered once, a success needs a complete file behind one of the
URIs which is not taken away any more, and others hear of it only after the call
which downloaded it was content with it (its post action verifies hash sums).
`ImplementsService` maps it to the manager: `files` is `placed`, `result` is
`done`, `answer` is `outcome`, `call` is `pc`, where a call whose process died or
which the worker left is `lost`.  An internal error of worker or call has no
image, so that the refinement also says that the `fatal2i()` of both are
unreachable.  It says nothing of liveness, which `download_ends` checks.

### Runs

| Run | Question | Instance |
|---|---|---|
| `download_wide` | Are requests ever lost, answered twice, misdirected or left on hold; is a file written by one performer at a time; is all this the service? | 3 calls, 4 entities, 3 URIs, limit 2, a wrong size, crashes: 451 961 states |
| `download_ends` | Does every call end, does the worker exit when asked to, and does everything end after the parent? | 2 calls, 3 entities, 3 URIs, limit 1, a wrong size, crashes, the death of the parent, failures of `fork()` and `accept()`, fairness: 129 926 states |
| `download_fork_fails` | one of the disagreements below | 2 calls, failures of `fork()` |

With three URIs both limits make the hold list grow and shrink; limit 2 also lets
a download finish while another is active; entities share URIs across calls, so
that a request joins an active download or is answered from `done`; entities with
two URIs make clients retry.  More calls add no new way for a request to meet
another.

Deadlock is not checked: the system stops when all calls returned and the worker
exited.

Fairness: the worker and each client are processes or threads which the kernel
schedules (`WF` on their next step); every download method ends because
connections have timeouts, and a process which got SIGTERM ends (`WF` on
`FinishPerform` and `PerformerExit`).  Crashes, wrong sizes, new calls, and the
destructor are never forced to happen.

## The native resolver

`ResolverSolution` holds the data: a dependency graph `g` and one candidate
solution `s`, with the operators of `solution.cpp` and those of `impl.cpp` which
only read a solution.  `NativeResolver` is the loop of `p_resolve2` and what it
calls.

A *relation* vertex is broken if a present version needs it and none of its
satisfiers is present.  The program keeps the broken relations of a solution
incrementally: `p_updateBrokenSuccessors` runs four loops over the neighbours of
the element that goes and of the element that comes (`NoLongerNeeded`,
`NewlyRequired`, `LostSatisfier`, `Repaired`).  In every turn of the search the
chosen solution is either finished (nothing broken), or a worst broken relation
is picked and the possible actions against it are generated: one action changes
the solution in place, several create children which are prepared only when
their turn comes.

| Model | Code |
|---|---|
| `graph`, `options` | `DependencyGraph` after unfolding, with what `AutoRemovalPossibility` and the installed versions say; the configuration |
| `heap` | the `PreparedSolution` objects, by reference; `Initial` is the one `resolve()` holds |
| `tree` | `SolutionContainer`: prepared solutions, and unprepared ones as parent, action, id and score |
| `nextId`, `anyFound`, `failTree` | `__next_free_id`, `__any_solution_was_found`, `DecisionFailTree` |
| `offer`, `status` | the callback to the user and the ways in which `resolve()` ends |

| Action | Code (`impl.cpp`) |
|---|---|
| `NoActions` | nothing can be done: the solution is dropped and goes to the fail tree |
| `HitSolutionTreeLimit` | `max-solution-count` is exceeded: the whole search starts again |
| `HitLeafLimit` | `checkLeafLimit` throws |
| `ApplyInPlace`, `Branch` | `__pre_apply_actions_to_solution_tree` with one action, with several |
| `Defer`, `Propose` | a finished solution returns to the tree, or is cleaned, verified and offered |
| `Abort` | the internal errors of `__get_broken_pair` and `__final_verify_solution`, and the null pointer of `setEmpty` |
| `Answer`, `GiveUp` | the user's answer; the tree is empty |

Abstractions.

* Scores: every action may change the score by any of `options.scoreChanges`; so
  the search is right for every score manager, and the quality adjustment of a
  restart disappears in the choice.
* Ties between broken relations are broken in the code by counts of failures and
  by ids; the model takes any of the worst.  Ties between satisfiers keep the
  order of the graph, which the code depends on.
* The graph is taken unfolded.  The program unfolds an element before a solution
  with it is looked at, and the edges of an unfolded element never change.  How
  it is unfolded is in `DependencyGraph`.
* `IsGraph` states what the proofs need of a graph, each part by a name of its
  own: every element has a family, and what the relations and the list of
  alternatives of a package name are elements, each once; the alternatives of a
  package are its versions and its empty element; a relation has at most one
  unsatisfied element; an empty element satisfies only anti relations, and those
  as soon as it may be chosen; only versions and the dummy vertex of the user have
  dependencies; and packages have their elements.  `ProblemsAssumption` makes TLC
  evaluate it for every graph of the runs.
* A broken relation of priority 0, which the code's map keeps, is absence here.
* Where `getDiversedElements` reads past the end of a vector, whatever it may
  find is possible: each comparison yields any Boolean.

### Runs

| Run | Question | Instance |
|---|---|---|
| `resolver_search` | Do incremental data, branches, the final check, cleaning and the answer "unable" hold on all hard dependencies? | every way to give the versions of three packages up to two of two dependencies and a conflict; versions which satisfy dependencies of their own; combinations of automatic, protected and overridden packages: 50 327 states |
| `resolver_choices` | Do soft dependencies, scores, limits and restarts lose answers, change shared parents, or run for ever? | Recommends and requests that may stay unsatisfied; both choosers; trees of 2, 6 and 20 solutions; scores 0 and 1; fairness: 27 595 states |
| `resolver_provides` | one of the disagreements below | part of the first family |

Three packages are enough for a dependency whose satisfier conflicts with the
third package; two versions let upgrades exchange a dependency for another; a
tree of two solutions overflows on the second branch, one of six on none of the
first; 8 and 20 leaves let searches restart and the leaf limit be hit.

Fairness is `WF_vars(Next)`: `resolve()` is one thread, and the user answers in
the end.  `FastSpec` says the same with ENABLED replaced by what it means here
(`Ended`), because TLC evaluates it much faster.

`CleansWhatIsUnneeded` is about offers: cleaning one once more would remove
nothing, though every removal changes what relations can lean on, and a package
of the `no-autoremove-if-rdepends-exist` list stays as long as something depends
on it.  `ReasonsGoBack` says that the chain of reasons shown to the user has no
circle, which would make `__get_decisions` loop for ever.

Three properties hold only on some graphs, and say so.  `KeepsOwnDependencies`
excludes graphs where exchanging two versions of a package loses a dependency
which both have and only the old one satisfies (`BrokenIsExact` and one half of
`NoInternalError`); `AllCanBeEmptied` excludes packages protected by `no-remove`
(the other half); `NeedsNoOtherVersion` excludes versions with a dependency which
only other versions of their own package satisfy (`BranchesAreDisjoint`): to
exchange such a version for one of those is offered twice, as a fix and as a
modification, and the tree gets two children which are the same.  The runs check
the graphs outside of these conditions too, with all the other properties.

## The resolver's graph

`DependencyGraph` models `nativeresolver/dependencygraph.cpp`: how the graph that
`ResolverSolution` takes for its input comes from the packages of the cache.

| Model | Code |
|---|---|
| `world`, `options`, `requests` | what the cache says of versions, relations and sources; `cupt::resolver::*`; the user's relation expressions |
| `seen` | `__version_to_vertex_ptr`, with the remembered refusals |
| `vertices`, `edges` | the other vertices, and the edges of `Graph` |
| `unfolded` | `__unfolded_elements` |

| Action | Code |
|---|---|
| `Fill` | `fill`, `p_populatePackage` |
| `AddRequests` | `addUserRelationExpression` for every request |
| `UnfoldInitial` | `unfoldElement` for the installed versions (`prepareForResolving`) |
| `UnfoldElement` | `unfoldElement`, called by the search in any order |

A version becomes a vertex when it is first asked for, unless an equal version of
the same package (same version string, same relations) is one already; the
decision is kept.  Requests override it, and must come before anything is
unfolded.  `GraphMeansDependencies` compares the graph with the relations: of
every system that the search can come to, the graph rules out exactly those which
the packages' relations, the requests and the synchronization of sources rule
out, in every order of unfolding.  `InstalledAreVertices` says that no installed
version is refused for an equal one, which the stable sorting of `fill` is for.

Abstractions: a relation expression is the list of versions which satisfy it (the
question to `PackageCache`); the order of successors, which only the scores
depend on, names and reasons are left out.

`dependency_graph` explores 4 944 states from 240 worlds: four packages, one with
the same version installed and in the archive, one with two builds of a version
which differ in what they provide, sources with several binaries; all kinds of
relations, the three levels of synchronization, removal allowed or not; requests
to have, to avoid, and to try.  Deadlock is not checked: unfolding ends.

## Copy-on-write maps

`CowMap` models `nativeresolver/cowmap.tpp`.  A solution's map has entries of its
own (`added`) over the vector of another map (`master`) over the initial map.
Assigning a map to another one makes the new one a slave of the old (`AssignMaster`),
a second slave of the same master (`AssignSlave`), or, when the slaves have added
more than the master holds (`forkedCount`), merges both into a new master
(`AssignMerged`).  A vector stays as long as somebody points to it.

`PlainMaps` is what the solutions take this for: a copy has what the original had,
and changes are seen nowhere else.  The refinement maps `contents` to what `get()`
finds and `modified` to the keys of `foreachModifiedEntry()`.  It needs that a map
is not changed once it was copied, which is a guard of `Add`; that the resolver
keeps to this is `ParentsAreFrozen` in `NativeResolver`, proved for all graphs.

`cow_maps`: four maps and two keys, with symmetry: 9 159 states.  Four maps give a
master, two generations of slaves and a merged map.  Deadlock is not checked: the
maps are used up.

## The packages worker

`ActionGraph` models how `internal/worker/packages.cpp` turns the accepted offer
into calls of dpkg, `PackagesWorker` how `changeSystem` carries them out.

A task (install, upgrade, remove, purge, configure) becomes a chain of *inner
actions* (remove, unpack, configure).  The relations between the versions become
edges of a graph of actions, each with *records* of the relations behind it,
which give the edge a level: priority, from-virtual, soft, medium, hard,
fundamental.  A package which is not touched gets *fake* actions: an action
which meets a dependency of it and one which stops meeting it are ordered
through them.  The graph is sorted into strongly connected groups; neighbours in
the order are linked, and sorted again, until nothing new is linked.  A group
which dpkg cannot do in one call is split again, without its weakest edges, and
what was ignored becomes an option `--force-...`.

| Model | Code |
|---|---|
| `system` | the dpkg state, the versions and relations of the cache, the desired state, flags, the archive limit |
| `graph` | `GraphAndAttributes`: edges with relation records, edges moved to others (`potentialEdges`), links |
| `todo`, `order` | the loops of `__for_each_package_sequence` and of the topological sort |
| `item`, `waiting`, `sequence` | the recursion of `__split_heterogeneous_actions` and its result |
| `changesets`, `groups`, `fetched` | local variables of `changeSystem` |
| `archives`, `auto` | files in the archive directory; the extended states file |
| `dpkg`, `leftovers` | what dpkg knows (external) |

| Action | Code (`packages.cpp`) |
|---|---|
| `Expand`, `Prioritise` | one package of `__expand_linked_actions`, `__set_priority_links` |
| `Select` | the topological sort takes a best group out of those without predecessors |
| `Link`, `Finish` | `__link_actions` has linked something, or has not |
| `Keep`, `Split`, `GiveUp`, `Schedule` | the branches of `__split_heterogeneous_actions`, and its end |
| `Compute`, `NothingToDo`, `CutIntoChangesets` | `changeSystem` up to "changing the system" |
| `StartChangeset`, `DownloadsFail` | `__do_downloads` |
| `MarkBefore`, `DpkgSucceeds`, `DpkgRefuses`, `DpkgFails`, `MarkAfter` | `p_processActionGroup` |
| `FinishChangeset`, `CleaningFails` | `__clean_downloads` |
| `MarkIndependent`, `Complete` | `__do_independent_auto_status_changes` and the end |
| `Stop`, `RunAgain` | an exception or the end of the process between two steps; a second `cupt` |

Abstractions.

* A relation expression is the set of the versions which satisfy it.
* `GivesUpOnlyOnHardCycles` is about the relations inside of the group that was split
  last, not about the edges which the worker has left of them.
* Groups of equal priority are taken in any order; the code takes the one whose
  members a depth-first search has found first.
* dpkg is external: it refuses a call when a relation that it checks is not met
  and it was not forced, and keeps a package unpacked when a maintainer script
  fails.  Upgrades do not make it refuse because of dependants; it checks those
  of a package only when removing it.
* Downgrade and reinstallation are upgrades; hooks are steps which may fail.
* `reinstreq` packages are to be removed.

The schedules which the model computes for the scenarios in
`src/test/t/manage/worker/packages/dpkg` (a dependency of an unchanged package,
chained and lockstep upgrades, priorities) are those which the tests expect.

### Runs

| Run | Question | Instance |
|---|---|---|
| `worker` | Does dpkg accept every call, does what changes work between the changesets, is the archive limit kept, does nothing get lost on the way, are flags in time, does scheduling end? | the tests' scenarios, circles, essential, broken-off, half-done, replaced and purged packages, limits, flags, stale marks; all pairs of relations between two changing packages, one of the two of a new version and without alternatives, under a limit of one archive; every dependency of an untouched package on two of them with one more relation; one system where moved edges decide which packages stay in a group; failures at every step, two runs: 397 systems, 117 748 states |

Two packages which change and one which stays are enough for every kind of edge
and for edges through an untouched package; `sequence` has up to six groups.  A
second run starts from every state in which the first one may stop; a third one
would start from the same states.

Fairness is weak fairness of the steps that compute a schedule: one thread, and
nothing makes it wait.  Nothing is assumed of dpkg or the user.  Deadlock is not
checked: the program ends.

`DpkgNeverRefuses` holds under two conditions which it states.  The system was
sound when the run began (a system broken by a failed run may well need what the
worker does not know of), and no dependency of an untouched version shares two
versions with another (`OneDependencyShared`, see the disagreements).
`WorksBetweenChangesets` is about the packages which the changeset has changed:
their dependencies hold, and none is left unconfigured, when the next archives
are fetched.  For a package which is not touched the code does not care (see
there).

## The metadata update

`MetadataUpdate` models `cupt update` over several runs:
`internal/worker/metadata.cpp` with what it needs of `cachefiles.cpp` and
`indexofindex.cpp`.  One thread per entry of the sources list brings the release
file of its distribution up to date (`InRelease`, or `Release` and
`Release.gpg`), then the main index, then the translations, each in the best
variant that can be had: patches to the present file, a compressed file, a plain
one.  Entries of one distribution share its release files and, through the
download manager, their downloads.

| Model | Code |
|---|---|
| `published` | what the server has (external) |
| `release`, `newest`, `index` | files in the lists directory, and which of the two release files is the newer |
| `ioi`, `ioiFresh` | indexes of indexes: what they were made from, and whether their time allows the cache to use them |
| `partial` | the directory of partial downloads |
| `settled` | results in the download manager of the run, for the URIs which threads share |
| `pc`, `known`, `changed`, `sourceChanged`, `item`, `variant`, `succeeded` | local variables of the threads |
| `run`, `configured`, `options` | the process, its sources list and configuration |

| Action | Code (`metadata.cpp`) |
|---|---|
| `Start`, `PreparationFails` | `updateReleaseAndIndexData` up to the threads: hooks, directories, clearing of partial release files |
| `HashRelease`, `RequestRelease`, `ReleaseSettles`, `ReleaseAnswered` | `__downloadInRelease`, `__downloadRelease` with its signature: hash before, download, move and check, changed or not |
| `UpdateIndex`, `SkipVariant`, `RequestIndex` | `__update_index`: nothing to do, or the next alternative; stale partial files |
| `IndexDownloadFails`, `HashSumsMismatch`, `IndexDownloaded`, `DiffIndexDownloaded` | the post actions of `__download_index` |
| `PatchIndex` | `__download_and_apply_patches` |
| `GenerateIndexOfIndex` | `p_generateIndexesOfIndexes`, which a thread does when the rest is done |
| `Finish` | all threads joined, `__list_cleanup`, post-invoke hooks |
| `Kill`, `Publish` | the process ends between two steps; the server gets a new release |

Download methods resume (`src/cpp/downloadmethods/curl.cpp:203`, `wget.cpp:68`):
what a partial file is continued with is the present content of the URI, whatever
it is the beginning of.  A file put together of two releases is `Garbage`, and so
the model can say that no such file gets into the lists directory, where release
files have no hash sums to be verified by (`NothingIsMixedUp`).

Abstractions: a content is the number of the release which brought it; times of
modification are kept as far as they are compared.  The time of a release file may
be that of the download or one which the method took over from the server
(`MayBeNewer`); either way it is assumed that a later release has a later time than
an earlier one, so that only of two files of one release either may be the newer: a
server or a clock which goes backwards is not modelled.  A bad signature causes only a
warning in the code and has no step; hash algorithms, decompressors and the
contents of an index of index are left out.

`metadata_update`: two entries of one distribution, three files, three runs, one
kill, one failure, a new release at any moment, patches one release back, with
one of the entries removed from the sources list and put back: 474 017 states.
Two runs show what the first one leaves, a third that it costs no more than one
update; two releases give every kind of stale file.  Deadlock is not checked: the
runs are used up.

A partial file which is refused is removed, but for one case: a diff index whose
size is wrong never comes to the post action which would remove it
(`HashSumsMismatch`).  What counts for `FailsAtMostOnce` is that this costs only the
attempt to patch, since another variant of the index follows.

`FailsAtMostOnce` counts two failed updates in a row, nothing having disturbed
either, the second one with no entry the first one did not have (a new entry has
its own first failure to make).  It needs `ServerIsRight`: each distribution has
one of the two kinds of release files, and each entry its main index in a variant
that is not a patch; patches reach back only so far (`PatchesBack`).

## The package cache

`PackageCache` models the cache (`internal/cacheimpl.cpp`, `cache/package.cpp`,
`internal/pininfo.cpp` and what they read), `VersionStrings` the comparison of
versions, `FunctionSelectors` the console's queries
(`src/cpp/console/functionselectors.cpp`).

| Model | Code |
|---|---|
| `world` | the files: status of dpkg, sources list, release and index files, preferences, extended states, configuration |
| `position` | progress of the constructor of `Cache` through the sources list |
| `released` | `releaseInfoCache` |
| `pre`, `provided` | `preBinaryPackages`, `preSourcePackages`, `canProvide` |
| `packages`, `ids` | `binaryPackages`, `sourcePackages`: the packages made so far; the counter of ids |
| `answers` | `getSatisfyingVersionsCache` |
| `selection` | the result of a query |

| Action | Code |
|---|---|
| `ReadStatus` | `parseDpkgStatus` |
| `ProcessIndexEntry` | `processIndexEntry`, with the release file, its signature, date and limits |
| `getBinaryPackage` | the package of a name is made of the records read: `Package::getVersions`, `__merge_version` |
| `getSatisfyingVersions` | the answer to a relation expression is found and remembered |
| `selectVersions` | `selectAllVersions`, `selectBestVersions` of a query |

Records become versions when the package is first asked for; a version with the
same name as another one, but other hash sums, gets a suffix with an id.  What
depends on the order of indexes and questions is what the properties look at:
`VersionsAreBuilds` (a build is one version with all its sources, names of versions
differ, what is installed is found), `AnswersAreRight` (what is remembered for an
expression are the versions which meet it).  `PolicySettles` and `PolicyPays` relate
pins to the preferred version and to the resolver's scores: after an upgrade to the
preferred version there is nothing left to upgrade, and the resolver, left to its
scores, prefers what the policy prefers.  `SelectionsAreSets` compares a query's
result, built by merging and intersecting lists taken to be sorted, with the set
that it means.  `VersionsAreOrdered` compares the comparison of parts of versions,
character by character, with an order on keys.

Abstractions: texts are not parsed; a record is what one paragraph says.
Descriptions, translations and the syntax of pins, relations and queries are left
out, regular expressions are predicates, dpkg has one record per package, and a
source package has no name of a binary one.

`package_cache`: three binary packages (one of which others only provide) and a
source, with rebuilds of one version in several archives, builds for other
architectures, relations for some architectures only, sources without files,
half-installed, held and removed packages, an expired release and
one without signature, limits, a default release, preferences; five orders of the
sources list; two questions in every order; eleven queries: 10 955 states.  A third
question could only repeat what the second one does to the first.
`VersionsAreOrdered` takes all pairs of strings of up to two characters.
`cache_colon_any` is one of the disagreements.  Deadlock is not checked: the
questions are used up.

## Disagreements

What comments, documentation or the code's own checks say and the code does not
do.  With a run:

| Run | Where | What |
|---|---|---|
| `download_fork_fails` | `download/manager.cpp:565` | a failed `fork()` leaves an element with process number 0, and `kill(0, SIGTERM)` ends the whole process group |
| `resolver_provides` | `solution.cpp:282` | a dependency which the old version satisfied itself and the new one shares is not recorded as broken: internal error of the final check |
| `cache_colon_any` | `cache/relation.cpp:425` | the key of the remembered answers leaves out the architecture: `a:any` gets the answer of `a`, against `src/test/t/manage/resolver/multiarch/colon-any.t:13` |

Met while modelling, without a run of their own (where a property would be
violated by such a system, it says so, and the run leaves the system out):

* `internal/nativeresolver/solution.cpp:227`: cleaning empties a package which
  `no-remove` left without an empty element: null pointer (`AllCanBeEmptied`).
* `internal/nativeresolver/solution.cpp:581`: solutions which failed may have
  inserted the same family keys, against the stated precondition of
  `getDiversedElements`, which then reads past the end.
* `internal/worker/packages.cpp:699`: an order demanded by a dependency of an
  untouched package is recorded as not reverse, and given up without asking
  whether the new version meets the dependency: between two changesets it is not
  met, against `src/doc/tutorial.t2t:2179`.
* `internal/worker/packages.cpp:1928`: a package which is newly installed keeps a
  stale mark as automatically installed, against `src/doc/cupt.1.pod:817`.
* `internal/worker/metadata.cpp:603`: partial files of an older release are removed
  only when the release file has changed in the same run; one which a killed run
  left makes one update fail though the server is right (`FailsAtMostOnce` says
  that it is one).
* `internal/worker/metadata.cpp`: release files are moved to their place before
  they are checked; one that is refused stays.
* `src/cpp/console/functionselectors.cpp:87`: the lists which are merged are sorted
  by pin and then by text, the versions of a package by pin and then by version;
  where the two disagree (9 and 10), `not(...)` and `and(...)` lose or keep versions
  (`OrdersAgree` in `SelectionsAreSets`).
* `internal/cacheimpl.cpp:617`: what a release file is refused for depends on the
  first entry of its URI and distribution, though `trusted` and
  `check-valid-until` belong to an entry.
* `src/cpp/console/common.cpp:93`: the index of reverse dependencies looks at the
  last element of a list which is empty the first time.
* `cache/package.cpp:143`: ids which tell rebuilds apart (`^dhs0`) depend on
  which package was asked for first.
* `internal/cacheimpl.cpp:911`: a later record of the extended states with 0 does
  not take back the mark of an earlier one with 1.
* `download/manager.cpp:519`: a request for a URI which is done or active is
  answered from the URI alone; of two entities with one URI and two target paths
  both succeed, and one file is placed.
* `internal/worker/packages.cpp:555`: of several dependencies which two actions
  share, only the first becomes a record of the edge between them.  If the new
  version of a package meets all of them and the old one only the first, the
  edge moves into the upgrade, and a removal may come before the replacement:
  dpkg refuses it.  `SharedTwice` in `MCPackagesWorker` is such a system.
* `internal/worker/packages.cpp:1922,2066`: flags of packages which are only to
  be configured are neither changed with them nor independently.
* `internal/worker/packages.cpp:2144`: archives which a failed run has fetched
  under a limit are not deleted by the next one; they count as present.
* `download/manager.cpp:260,302`: when the worker aborts, a connection in the
  backlog of the listening socket is never refused, because the parent holds the
  socket too: that call of `download()` waits for ever.
* `src/cpp/lib/include/cupt/download/manager.hpp:74` calls an entity optional;
  `download()` (`manager.cpp:1057`) returns its failure like any other.
* `download/manager.cpp:992,1014`: two entities of one call with the same URI
  share one entry of `waitedUriToTargetPath`; the second reply is an internal
  error.
* `src/doc/cupt.1.pod:680` says that above `max-solution-count` the solutions
  with the worst scores are purged; the whole tree is dropped and the search
  restarts (`impl.cpp:957`).
* `src/doc/cupt.conf.5.pod:470` and `src/debian/changelog:3129` say that the
  removed first-good resolver is a fair one with `max-solution-count` 1; with
  that value a first branch restarts the search until the leaf limit.

## Proofs

TLAPS proves what follows for every value of the constants: any number of calls,
entities, URIs, threads, runs, packages and versions, every limit, every
combination of faults.  The 27 theorems are listed in `PROJECT.json`; with
their lemmas they make about 23 000 proof obligations.

### The download manager

* `TypeCorrect` (`TypeOK`).  The type invariant alone is not inductive:
  `scheduleDownload` takes the front of a list of URIs, which must not be empty.
  `TypeInv` adds that an entity whose first URI is still to be requested has URIs
  left and is not waited for.
* `SlotLimitHolds` and `NoWakeupIsLost` (`SlotLimit`, `NoLostWakeup`).  The
  inductive invariant is `TypeInv /\ SlotLimit /\ NoLostWakeup`; every step of
  the worker keeps the balance between free slots and wake-ups in the internal
  queue (`WakeUpsAppend` and `WakeUpsTail` count them).
* `RequestsAreSomewhere`, `TargetsHaveOneWriter` and `InternalErrorsAreUnreachable`
  (`EveryRequestIsSomewhere`, `OneWriterPerTarget`, and that a result arrives only
  for an active URI and a waited one).  They share `RequestInv`.  Its first half,
  `CallInv`, is about the calls alone: an entity is waited for under one URI, one
  of its own.  The second half, `WorkerInv`, holds while the worker runs: requests
  are counted in each of their places (`RequestsCounted`); a URI is acknowledged
  only by the one whose download was answered and is still active
  (`AcknowledgedOnce`), which is why no late "done" of a killed performer and no
  second acknowledgement meets an inactive URI; the target path of an active
  download is what its first waiter waits for (`TargetsAreWaited`), so that a
  second performer with this target would need the call to wait for two URIs of
  one entity (`OnePipePerTarget`).  None of these is inductive without the others.

  Hypothesis: `DistinctUris`, the entities of one call have no URI in common.
  `convertEntitiesToDownloads` refuses equal target paths, and the callers of
  `Manager::download` make the target path out of what distinguishes the URIs
  (the file name of an archive, the URI of an index).  A call which breaks the
  rule ends in an internal error, see the disagreements (`manager.cpp:992`).
* `DownloadsAreTheService` (`ImplementsService`), under the same hypothesis.  The
  steps of the service and what they rest on:

  | Step of the service | Step of the manager | Why the service allows it |
  |---|---|---|
  | `Begin`, `Return`, `Lose` | `Connect`; `Return`; `ReceiveEof`, `ClientDies` | a call does not forget an entity (`UnansweredWaits`) |
  | `Place` | `FinishPerform` with a file | what is being downloaded is waited for, even after the worker's death (`DownloadsAreWaited`) |
  | `Discard` | `ProcessProgressMessage` with a wrong size | the entity is still without outcome (`WaitedIsCurrent`) |
  | `Answer` | the `ReceiveReply` which concludes | replies are true when they are read (`RepliesAreTrue`); the URIs requested before the last one failed for good (`FailuresLast`) |
  | `Settle` | `ProcessFinalResult` | acknowledgements are true when they are handled (`AcksAreTrue`), and a URI which is active has no result yet (`ActiveIsNotDone`) |
  | stutter | everything else | an abort changes no call, because no internal error precedes it (`InternalErrorsAreUnreachable`) |

  `ServiceInv` is inductive relative to `RequestInv`.  It follows a result from the
  performer's file to its message (`FilesArePlaced`), to the reply
  (`RepliesAreTrue`), to the acknowledgement (`AcksAreTrue`) and to `done`; on the
  way a wrong size may overrule the performer, and then the client hears of a
  failure first and of nothing else (`Overruled`, `ToldOnce`).  What was said on
  the sockets must stay true after the worker's death, when calls go on reading
  and performers go on writing: this half does not mention the worker's queues,
  and the half that does (`ServingInv`) holds while it runs.

### The native resolver

The first part of `NativeResolverProofs` is about one solution.  Its main lemma: if
the broken relations described a solution before an exchange of one element, the
four loops of `p_updateBrokenSuccessors` make them describe it after.

* `TypeIsCorrect`, `NoPhantomIsEverBroken`, `BrokenStaysExact`, `ChecksAreNeverHit`
  and `ParentsStayFrozen` (`TypeOK`, `NoPhantomIsBroken`, `BrokenIsExact`,
  `NoInternalError`, `ParentsAreFrozen`).  One inductive invariant, `Inv`, carries
  all of them.  The search adds sharing to the lemma above: an unprepared node
  keeps an action that was computed from its parent, and is applied much later, so
  `GoodTree` says that the action still fits the parent, that the parent has not
  been finished, and that a prepared node, the only kind that is changed in place,
  shares its object with nobody.
* `CleaningIsRight` (`CleansWhatIsUnneeded`): the set of needed packages is the
  least one that is closed under what they lean on, and a removal takes nothing
  away that this set leans on.
* `SearchIsComplete` (`UnableOnlyIfUnsolvable`), by `Complete`: as long as nothing
  was found, every answer of the graph is compatible with some node of the tree,
  with its sticked entries and its rejections.  The lemma behind it: an answer
  which is compatible with a solution is compatible with one of the actions
  generated for a broken relation, because the answer satisfies the relation or
  does without the one who needs it.
* `BranchesStayDisjoint` (`BranchesAreDisjoint`), which is inductive itself on the
  graphs it speaks of: an action rejects for itself what the others before it have
  decided.
* `OffersBestFirst` (`FullOffersBestFirst`), by `Ranked`: ids are given out once,
  so that two solutions are never equal in the order of the tree.
* `ReasonsAlwaysGoBack` (`ReasonsGoBack`), by `Reasoned`: whoever caused an action
  is present in the parent, on a lower level than the action will be.

Hypotheses are those of the properties themselves: `IsGraph` of every graph,
`KeepsOwnDependencies`, `NeedsNoOtherVersion` and `AllCanBeEmptied` where the code
can keep the property only under them (see above).  Where an argument needs the first of
several (the first action which leads to an answer, the best node of a tree),
`HasLeast` gives it, from the well-foundedness of the natural numbers.

### The resolver's graph

* `GraphMeaningHolds` (`GraphMeansDependencies`) and `InstalledVerticesHold`
  (`InstalledAreVertices`), by `GraphInv`.  The properties say nothing of a vertex
  before a system has to do with it; the invariant says what each is there for, from
  the moment it is made.  `Means(x, T, P)`: vertex `x` asks for one of the versions
  `T` or for the absence of one of the packages `P`.  `Wants(v, y)`: version `v` asks
  for what `y` means.  Both are read off the packages alone, not off the graph.  Then
  the graph is `Sound` if
  * every vertex is `Complete`: each version that can answer it was asked for and,
    if it became a vertex, is linked; so is the absence, if it is allowed; and what
    is soft has its excuse;
  * every edge has a reason (`LegitEdge`): a wish of a version, a request, an answer
    or an excuse;
  * the vertices of one anti-relation, and those of one source, are there all or none
    (`Siblings`): the code asks whether it has met the expression, and takes its
    vertices for granted.

  Unfolding keeps it, and links the unfolded version with all it wants
  (`UnfoldedFacts`); a refusal is never taken back, so that a version refused before
  an edge to it was due stays refused (`Grew`).  Requests are the one place where it
  is taken back, which would leave a vertex incomplete which was made earlier.  This
  is why they come first: `RequestsAdded` says that there is nothing else by then, and
  that all a request asks for is a vertex.  Last, `AllowsIff` reads a sound graph as the search
  does, and `WishesMeanRelations` and `GrantedRequest` compare its answer with the
  relations and the requests.

  Vertices are made in loops within loops over relations, versions and packages.
  `Loops` has the rule for one loop, the lemma `LoopInduction`, with the body and what holds
  after n rounds as parameters of the module, and is instantiated for each of the
  nine.  It is proved from the definition of `FoldLeft`, by the least-member argument
  which is used for the worker too.

  There are no hypotheses but those on the constants.  An earlier form of `IsWorld` did not
  say that the source of a version is a pair; the proof asked for it, because names
  of vertices for synchronization are made of the two.

### The packages worker

* `WishesComeTrue` (`EndsAsWanted`).  The property says nothing until a run is over,
  so its invariant is about everything on the way there: the *line* of the groups
  which are still to be done, wherever they are.  While the schedule is computed it
  is the finished groups, the one being sorted or split, and the waiting ones
  (`SchedOK`); afterwards, the groups of the running changeset and those of the
  changesets to come (`WorkOK`).  `LineOK` says of a line that it has every action of
  the task (`Covers`) and that no action stands behind its successor in the task of
  its package (`Followed`): a removal before the unpacking, an unpacking before the
  configuring, or with it in one group.
  * Sorting keeps this, because a fundamental edge, which orders the actions of a
    package, survives all that happens to the graph (`GraphOK`: chains are
    expanded, priority edges are added, neighbours are linked, and a mini graph
    leaves out only what is below its level), and because a group is selected only
    after its predecessors (`SelectedInOrder`).  Splitting puts the subgroups in the
    place of their group (`FinerLine`).
  * Cutting keeps it: `SplitIsFlat` and `MergedIsFlat` say that the changesets, one
    after the other, are the schedule.
  * dpkg keeps it: `PendingOK` says what dpkg knows by what is *not* in the line any
    more (`Wanted`, `Gone`).  `GroupDone` is the step that takes a group away; it
    needs `Allowed` (a removal of an unwanted package never stands in a group which
    is not a removal, whose removals dpkg does not carry out) and `Followed` (a package
    is not unpacked again behind its configuring).
* `LimitHolds` (`LimitKept`), by `SpaceOK`: while a changeset runs, what it has
  downloaded covers all that is new in the directory, and fits; between changesets
  nothing is new.  That a part of what fits fits (`LessFits`) rests on `SumGrows`,
  which is about the sum of `MapThenSumSet` over any finite set.
* `MarksComeFirst` (`MarkedBeforeInstalled`), by `MarksOK`: the mark is there from
  the call of dpkg on that unpacks the package, and none of the three places that
  change marks takes it away.

* `GivesUpOnlyForCircles` (`GivesUpOnlyOnHardCycles`), in the last part of the module.
  The worker gives up when the last split, at the level of relations which cannot be
  ignored, leaves a group of several packages.  By then the graph is far from the
  relations: it has fake actions and virtual edges, their records were multiplied and
  moved, priorities and links were added, and mini graphs bring moved edges back.
  `CircleInv` says that nothing of it can make a circle:
  * every edge is `Sourced`: a hard edge, or one for the order of a task, is there
    only where the graph had one when it was filled.  An edge which is moved to the
    other end of a chain stands for dependencies only, and those are not hard there
    (`RecordFacts`, `VirtualRecord`, `ExpandChainSourced`); one which is brought back
    is brought back to where it was (`MiniGraphSourced`);
  * so, without a hard circle, the last graph's groups are single packages before
    anything is added to it (`LastGraph`), and they stay so (`AllSingle`).
    Reachability is the least set which no edge leaves (`ReachableFacts`).  The
    links lead back through a chain already when it is expanded (`WayBack`), so that
    no new way comes into being (`KnownWays`); priority edges come from outside of
    what their target reaches (`WaysFromOutside`); and links go back only to a
    neighbour in the order which is of the same package (`WaysToNeighbours`).

  The property was about another graph at first: the one which the worker has in
  hands when it gives up.  The proof did not get through, and for a reason, the
  system `Entangled` of `MCPackagesWorker`: there a moved edge lets a third package
  leave the group on a weaker level, so that the circle in hand is smaller than the
  one that is the cause.  It is about the relations inside of the group now.

One invariant, `WorkerInv`, carries the first three and is what the fourth rests on,
over the end of a run too: whatever a run leaves is a system that the next one can
start from (`SystemNowFacts`).
Schedules, changesets and sums are folds.  The library's induction theorems
cannot be used, but a set of natural numbers that has 0 and successors has all of
them, because the rest has no least member (`NatSetInduction`); the folds' defining
functions exist, and agree, by it (`SumExists`, `SplitExists`, `MergeExists`).

### The metadata update

* `NothingIsEverMixedUp` (`NothingIsMixedUp`).  The property alone is not
  inductive, because what is moved to its place was put together steps, or a
  killed run, before.  For release files, which have no hash sums, the invariant
  follows the partial file: nobody has asked for a URI, then there is no partial
  file (`CleanStart`, which the clearing at the start of a run establishes); or it
  is under way, then it is all of one release (`Unbroken`, because one thread asks
  and nobody else writes).  For indexes it says that a thread which looks at them
  has a release file to compare them with (`HasRelease`), whatever the other
  threads of the distribution replace it by.
* `SuccessIsCurrent` (`SuccessMeansCurrent`), by `SInv`: a thread comes to the
  indexes only after a release file of its distribution was answered in this run
  (`Answers`); then nobody replaces the one that counts, and what the thread has
  found current stays so (`Threads`).
* `StaleFilesCostOneUpdate` (`FailsAtMostOnce`), by `FInv`: when nothing disturbs
  the run, a variant of a main index which the server has is refused for one
  reason, the partial file of an older run, and each refusal removes the file (`Tried`;
  that of a diff index may stay, which is why the server must have something else); so a run that fails leaves to each entry an index that is current or a
  variant which cannot fail (`ReadyForNext`), and the next run, which asks for no
  further entry, finds it (`Certain`).  Hypothesis:
  `ServerIsRight` (see above), without which every update fails.

### Copy-on-write maps

* `CowMapsImplementPlainMaps` (`ActLikePlainMaps`): initial states map to initial
  states, and every step to one of `PlainMaps` or to a stutter.  The inductive
  invariant says that a master was copied, so that nobody writes to its vector any
  more: a write through a slave can change no other map, and a merged map has all
  that it had before.  That a map is not changed once it was copied, which
  `CowMap` takes for granted, is the theorem `ParentsStayFrozen`.

### Assumptions on constants

`ConstantsAssumption` of `DownloadManager` (each entity has an owner and at least
one URI; URIs are finitely many), `ProblemsAssumption` of `NativeResolver` (every
graph satisfies `IsGraph`), `CowMapAssumption` (keys are finitely many, "no entry"
is no entry) and `UpdateAssumption` of `MetadataUpdate` (entries have a main index,
no two of them share a file, there is a variant, releases have all contents, patches
reach back a number of releases), `SystemsAssumption` and `WorkerSystemsAssumption` of
the worker (packages are a finite list, versions belong to their packages, what is to
be purged is neither installed nor wanted, the lines of relations are sequences, sizes and the limit are natural numbers)
and `InputsAssumption` of `DependencyGraph` (packages and versions are finitely many,
every version belongs to one package and is in its list, the installed one first, a
source is a name with a version, relations and requests are about known expressions,
and there are three levels of synchronization).
TLC evaluates them in every run; the runs also satisfy `DistinctUris` and
`ServerIsRight`.

### Model-checked only

* liveness (`EveryCallReturns`, `WorkerExits`, `NothingOutlivesTheParent`,
  `Resolves`, `SchedulingEnds`), which rests on fairness and ENABLED;
* of the worker: that dpkg never refuses a call (`DpkgNeverRefuses`) and that packages
  work between changesets (`WorksBetweenChangesets`).  They depend on what the graph
  means for all relations of all packages at once, also for those which a split has
  ignored; and they hold only on systems of the kind that their hypotheses name;
* the package cache, whose versions, answers and comparisons are folds over texts and lists
  of sources; `VersionStrings` and the selectors are recursive operators, which exclude
  proofs from their modules and from those which extend them.

## What is not modelled

* Snapshots (`internal/worker/snapshots.cpp`): one procedure of file operations
  around `dpkg-repack`, without state that other parts share; a snapshot which
  breaks off leaves a temporary directory.
* Archives and locks (`archives.cpp`, `base.cpp`, `internal/lock.cpp`): file
  operations and one `flock()`.  Two processes at a time are not modelled; every
  model takes the lock for granted.
* Configuration (`config.cpp`, `internal/configparser.cpp`): a lexer and the names
  of options; the models take options as inputs.
* The syntax of index files, relations, pins and queries; files, hash algorithms,
  logging, progress meters and the download methods' protocols: input and output.
  What methods may report, and what they do to a partial file, is in
  `DownloadManager` and `MetadataUpdate`.
* The console's handlers: command lines and output.  Their requests are inputs of
  `DependencyGraph`, the user's answers steps of `NativeResolver`.
* Of modelled parts: hooks of the worker except that they may fail, triggers,
  simulation and download-only mode, the suggestions in an offer, localised
  descriptions.

`PROJECT.json` says it for every component; of the hazards listed there, those
without a property say why they have none.

## What could follow

* Composition: the worker and the update over `DownloadService` in place of their
  own downloads.
* A proof that dpkg never refuses a call, from what the edges of the graph mean.
* Snapshots with crashes between their steps, and two processes at the lock.
* Requests of the console (install, satisfy, build-dep) down to
  `DependencyGraph`'s requests.
