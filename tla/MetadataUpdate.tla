--------------------------- MODULE MetadataUpdate ---------------------------
(***************************************************************************)
(* `cupt update` (cpp/lib/src/internal/worker/metadata.cpp), with what it  *)
(* needs of cachefiles.cpp and indexofindex.cpp, over any number of runs.  *)
(*                                                                         *)
(* One thread per entry of sources.list brings the release file of its     *)
(* distribution up to date (InRelease, or Release and Release.gpg), then   *)
(* the main index, then the translations.  Threads share the release files *)
(* and one download manager, in which a URI has one result: the result of  *)
(* DownloadService.  A run may be killed between two steps; what it leaves *)
(* in the directory of partial downloads is resumed by the next one.       *)
(*                                                                         *)
(* A content is the number of the release which brought it.  Left out:     *)
(* simulation, logging, names; signatures which are wrong only cause       *)
(* warnings here.  Times of modification are kept as far as the code       *)
(* compares them.                                                          *)
(***************************************************************************)
EXTENDS Integers, Sequences, FiniteSets, TLC

CONSTANTS
  Entry,         \* entries of sources.list; an entry has a thread
  Distribution,
  DistributionOf,\* entry -> distribution
  File,          \* main indexes and translations
  FilesOf,       \* entry -> its main index and translations, in this order
  Content,       \* Content[f][r]: content of f in release r
  Variants,      \* the records of an index file, best first
  Offered,       \* what the server really has (see Partial)
  PatchesBack,   \* so many releases back the server has patches
  Options,       \* sets of "diffs", "index of index", "cleanup", "checks"
  Sources,       \* the sets of entries which the user configures
  MaxRelease, MaxRuns, MaxKills, MaxFailures  \* bounds of the exploration

VariantKind == {"diff", "compressed", "plain"}
ReleaseKind == {"InRelease", "Release", "Release.gpg"}

ASSUME UpdateAssumption ==
  /\ DistributionOf \in [Entry -> Distribution]
  /\ FilesOf \in [Entry -> Seq(File) \ {<<>>}]
  /\ Variants \in Seq(VariantKind) \ {<<>>}
  /\ Offered \subseteq (ReleaseKind \X Distribution) \cup (VariantKind \X File)
  /\ MaxRelease \in Nat \ {0} /\ PatchesBack \in Nat
  /\ Content \in [File -> [1..MaxRelease -> 1..MaxRelease]]
  /\ Sources \subseteq SUBSET Entry
  /\ \A e, g \in Entry : e # g =>
       \A i \in DOMAIN FilesOf[e], j \in DOMAIN FilesOf[g] : FilesOf[e][i] # FilesOf[g][j]

None == 0      \* no file
Garbage == -1  \* the beginning of one content and the end of another one

ReleaseFile == ReleaseKind \X Distribution
Partial == ReleaseFile \cup (VariantKind \X File)

VARIABLES
  published,     \* the release on the server
  release,       \* release files in the lists directory
  newest,        \* distribution -> which of InRelease and Release is newer
  index,         \* indexes and translations in the lists directory
  ioi,           \* indexes of indexes: what they were made from
  ioiFresh,      \* not older than the index itself
  partial,       \* the partial directory; a name stands for a URI as well
  run,           \* the process
  options, configured,
  settled,       \* results in the download manager of the run
  pc, known, changed, sourceChanged,             \* of the threads
  item, variant, succeeded,
  runs, kills, failures,                         \* what the bounds are for
  disturbed,     \* something failed, or was published, during or after the run
  failedBefore   \* the run before failed without being disturbed, with these entries

lists == <<release, newest, index, ioi, ioiFresh>>
flags == <<known, changed, sourceChanged>>
thread == <<pc, flags, item, variant, succeeded>>
bounds == <<runs, kills, failures>>
vars == <<published, lists, partial, run, options, configured, settled, thread,
          bounds, disturbed, failedBefore>>

Idle(value) == [e \in Entry |-> value]

Init ==
  /\ published = 1
  /\ release = [x \in ReleaseFile |-> None]
  /\ newest = [d \in Distribution |-> "InRelease"]
  /\ index = [f \in File |-> None]
  /\ ioi = [f \in File |-> None]
  /\ ioiFresh = [f \in File |-> FALSE]
  /\ partial = [x \in Partial |-> None]
  /\ run = "idle"
  /\ options \in Options
  /\ configured = {}
  /\ settled = [x \in ReleaseFile |-> "none"]
  /\ pc = Idle("idle")
  /\ known = Idle(None) /\ changed = Idle(FALSE) /\ sourceChanged = Idle(FALSE)
  /\ item = Idle(1) /\ variant = Idle(1) /\ succeeded = Idle(TRUE)
  /\ runs = 0 /\ kills = 0 /\ failures = 0
  /\ disturbed = FALSE
  /\ failedBefore = FALSE

-----------------------------------------------------------------------------
(* Downloads                                                               *)

\* Download methods continue a partial file, whatever it is the beginning of.
Resume(old, new) == IF old \in {None, new} THEN new ELSE Garbage

CanFail == failures < MaxFailures
Fail == failures' = failures + 1 /\ disturbed' = TRUE
NoFailure == UNCHANGED <<failures, disturbed>>

Goto(e, where) == pc' = [pc EXCEPT ![e] = where]

-----------------------------------------------------------------------------
(* __downloadInRelease and __downloadRelease                               *)

NameOf(e, kind) == <<kind, DistributionOf[e]>>

\* getPathOfMasterReleaseLikeList: the newer one of those that exist.
NewerFirst(d) ==
  LET other == IF newest[d] = "InRelease" THEN "Release" ELSE "InRelease"
  IN  IF release[<<newest[d], d>>] # None THEN newest[d] ELSE other
Master(d) == release[<<NewerFirst(d), d>>]

\* fillHashSumsIfPresent, before anything is asked for.
HashPlace(kind) == IF kind = "InRelease" THEN "hash InRelease" ELSE "hash Release"
HashRelease(e, kind) ==
  /\ pc[e] = HashPlace(kind)
  /\ known' = [known EXCEPT ![e] = release[NameOf(e, kind)]]
  /\ changed' = [changed EXCEPT ![e] = FALSE]
  /\ Goto(e, kind)
  /\ UNCHANGED <<published, lists, partial, run, options, configured, settled,
                 sourceChanged, item, variant, succeeded, bounds, disturbed, failedBefore>>

\* The first thread that wants a URI has it downloaded.
RequestRelease(e, kind) ==
  LET x == NameOf(e, kind)
  IN  /\ pc[e] = kind
      /\ settled[x] = "none"
      /\ settled' = [settled EXCEPT ![x] = "active"]
      /\ partial' = [partial EXCEPT ![x] =
                       IF x \in Offered THEN Resume(@, published) ELSE @]
      /\ UNCHANGED <<published, lists, run, options, configured, thread, bounds,
                     disturbed, failedBefore>>

\* getReleaseInfo: a required field is missing, or the release is out of date.
CheckRejects(x) == "checks" \in options /\ x[1] = "Release" /\ CanFail

\* A method may leave the time of the download or set that of the server.  Either
\* way the file of a later release is newer; of two of one release each may be.
MayBeNewer(x) ==
  {x[1]} \cup {kind \in {"InRelease", "Release"} : release[<<kind, x[2]>>] = partial[x]}

\* generateMovingSub, then the check: the file stays where it is when that fails.
DownloadedRelease(x) ==
  /\ release' = [release EXCEPT ![x] = partial[x]]
  /\ IF x[1] = "Release.gpg" THEN UNCHANGED newest
     ELSE \E kind \in MayBeNewer(x) : newest' = [newest EXCEPT ![x[2]] = kind]
  /\ UNCHANGED <<index, ioi, ioiFresh>>
  /\ \/ settled' = [settled EXCEPT ![x] = "ok"] /\ NoFailure
     \/ /\ CheckRejects(x)
        /\ settled' = [settled EXCEPT ![x] = "error"]
        /\ Fail

\* The temporary path is removed when it was not moved.
ReleaseSettles(x) ==
  /\ run = "running"
  /\ settled[x] = "active"
  /\ partial' = [partial EXCEPT ![x] = None]
  /\ \/ x \in Offered /\ DownloadedRelease(x)
     \/ /\ settled' = [settled EXCEPT ![x] = "error"]
        /\ UNCHANGED lists
        /\ IF x \in Offered THEN CanFail /\ Fail ELSE NoFailure
  /\ UNCHANGED <<published, run, options, configured, thread, runs, kills, failedBefore>>

\* What a thread does next when its release file is there, and when it is not.
AfterSuccess ==
  [kind \in ReleaseKind |-> IF kind = "Release" THEN "Release.gpg" ELSE "index"]
AfterError ==
  [kind \in ReleaseKind |->
     CASE kind = "InRelease" -> "hash Release"
       [] kind = "Release" -> "index of index"
       [] kind = "Release.gpg" -> "index"]

ReleaseAnswered(e, kind) ==
  LET x == NameOf(e, kind)
  IN  /\ pc[e] = kind
      /\ settled[x] \in {"ok", "error"}
      /\ IF settled[x] = "ok"
         THEN /\ Goto(e, AfterSuccess[kind])
              /\ changed' = IF kind = "Release.gpg" THEN changed
                            ELSE [changed EXCEPT ![e] = release[x] # known[e]]
              /\ UNCHANGED succeeded
         ELSE /\ Goto(e, AfterError[kind])
              /\ succeeded' = [succeeded EXCEPT ![e] = kind # "Release"]
              /\ UNCHANGED changed
      /\ UNCHANGED <<published, lists, partial, run, options, configured, settled, known,
                     sourceChanged, item, variant, bounds, disturbed, failedBefore>>

-----------------------------------------------------------------------------
(* __update_index and __download_index                                     *)

CurrentFile(e) == FilesOf[e][item[e]]
Wanted(e) == Content[CurrentFile(e)][Master(DistributionOf[e])]
Kind(e) == Variants[variant[e]]
Path(e) == <<Kind(e), CurrentFile(e)>>

\* The next translation, or the end of __update_release_and_index_data.
NextFile(e) ==
  /\ item' = [item EXCEPT ![e] = @ + 1]
  /\ variant' = [variant EXCEPT ![e] = 1]
  /\ Goto(e, IF item[e] < Len(FilesOf[e]) THEN "index" ELSE "index of index")

\* Only what the release file lists uncompressed can be found unchanged.
UnchangedRelease(e) == ~changed[e]
Unchanged(e) ==
  /\ \E i \in DOMAIN Variants : Variants[i] = "plain"
  /\ index[CurrentFile(e)] = Wanted(e)

\* getDownloadInfoFromRelease throws when the release file is not one: the
\* thread ends.  "changed" is that of the release file for the main index,
\* that of the main index for the translations.
UpdateIndex(e) ==
  /\ pc[e] = "index"
  /\ sourceChanged' = [sourceChanged EXCEPT ![e] = changed[e]]
  /\ \/ /\ Master(DistributionOf[e]) \notin 1..MaxRelease
        /\ succeeded' = [succeeded EXCEPT ![e] = FALSE]
        /\ Goto(e, "done")
        /\ UNCHANGED <<changed, item, variant>>
     \/ /\ Master(DistributionOf[e]) \in 1..MaxRelease
        /\ changed' = IF item[e] = 1 THEN [changed EXCEPT ![e] = ~Unchanged(e)] ELSE changed
        /\ UNCHANGED succeeded
        /\ IF Unchanged(e)
           THEN NextFile(e)
           ELSE Goto(e, "variant") /\ UNCHANGED <<item, variant>>
  /\ UNCHANGED <<published, lists, partial, run, options, configured, settled, known,
                 bounds, disturbed, failedBefore>>

\* The failure of a main index is one of the run, that of a translation is not.
NextVariant(e) ==
  IF variant[e] < Len(Variants)
  THEN /\ variant' = [variant EXCEPT ![e] = @ + 1]
       /\ Goto(e, "variant")
       /\ UNCHANGED <<item, succeeded>>
  ELSE IF item[e] = 1
  THEN /\ succeeded' = [succeeded EXCEPT ![e] = FALSE]
       /\ Goto(e, "index of index")
       /\ UNCHANGED <<item, variant>>
  ELSE NextFile(e) /\ UNCHANGED succeeded

Applicable(e) ==
  Kind(e) = "diff" => "diffs" \in options /\ index[CurrentFile(e)] # None

SkipVariant(e) ==
  /\ pc[e] = "variant"
  /\ ~Applicable(e)
  /\ NextVariant(e)
  /\ UNCHANGED <<published, lists, partial, run, options, configured, settled, flags,
                 bounds, disturbed, failedBefore>>

\* "here we check for outdated dangling indexes in partial directory"
StartPoint(e) == IF sourceChanged[e] THEN None ELSE partial[Path(e)]

RequestIndex(e) ==
  /\ pc[e] = "variant"
  /\ Applicable(e)
  /\ partial' = [partial EXCEPT ![Path(e)] =
                   IF Path(e) \in Offered
                   THEN Resume(StartPoint(e), Content[CurrentFile(e)][published])
                   ELSE StartPoint(e)]
  /\ Goto(e, "fetch")
  /\ UNCHANGED <<published, lists, run, options, configured, settled, flags,
                 item, variant, succeeded, bounds, disturbed, failedBefore>>

\* The temporary path of a file to be unpacked is removed in the end; that of a
\* diff index is not, unless its hash sums are wrong or patches are applied.
IndexDownloadFails(e) ==
  /\ pc[e] = "fetch"
  /\ IF Path(e) \in Offered THEN CanFail /\ Fail ELSE NoFailure
  /\ partial' = IF Kind(e) = "diff" THEN partial ELSE [partial EXCEPT ![Path(e)] = None]
  /\ NextVariant(e)
  /\ UNCHANGED <<published, lists, run, options, configured, settled, flags,
                 runs, kills, failedBefore>>

MismatchKept(e) == partial
MismatchRemoved(e) == [partial EXCEPT ![Path(e)] = None]

\* The download manager looks at the size first: what has a wrong one never comes
\* to the post action, which would remove a diff index.
HashSumsMismatch(e) ==
  /\ pc[e] = "fetch"
  /\ Path(e) \in Offered
  /\ partial[Path(e)] # Wanted(e)
  /\ \/ partial' = MismatchRemoved(e)
     \/ Kind(e) = "diff" /\ UNCHANGED partial
  /\ NextVariant(e)
  /\ UNCHANGED <<published, lists, run, options, configured, settled, flags,
                 bounds, disturbed, failedBefore>>

\* removeIndexOfIndex
IoiKept(f) == ioi
IoiRemoved(f) == [ioi EXCEPT ![f] = None]

\* A plain file may keep the time which the server told, the others are new.
ReplaceIndex(e) ==
  LET f == CurrentFile(e)
  IN  /\ index' = [index EXCEPT ![f] = partial[Path(e)]]
      /\ ioi' = IoiRemoved(f)
      /\ \E fresh \in IF Kind(e) = "plain" THEN BOOLEAN ELSE {FALSE} :
            ioiFresh' = [ioiFresh EXCEPT ![f] = fresh]
      /\ UNCHANGED <<release, newest>>

IndexDownloaded(e) ==
  /\ pc[e] = "fetch"
  /\ Path(e) \in Offered
  /\ Kind(e) # "diff"
  /\ partial[Path(e)] = Wanted(e)
  /\ ReplaceIndex(e)
  /\ partial' = [partial EXCEPT ![Path(e)] = None]
  /\ NextFile(e)
  /\ UNCHANGED <<published, run, options, configured, settled, flags, succeeded,
                 bounds, disturbed, failedBefore>>

DiffIndexDownloaded(e) ==
  /\ pc[e] = "fetch"
  /\ Kind(e) = "diff"
  /\ Path(e) \in Offered
  /\ partial[Path(e)] = Wanted(e)
  /\ Goto(e, "patch")
  /\ UNCHANGED <<published, lists, partial, run, options, configured, settled, flags,
                 item, variant, succeeded, bounds, disturbed, failedBefore>>

\* __download_and_apply_patches works on a copy; its end is one move, which
\* leaves the index of index alone.  "presumably the local index is too old"
PatchIndex(e) ==
  LET f == CurrentFile(e)
  IN  /\ pc[e] = "patch"
      /\ partial' = [partial EXCEPT ![Path(e)] = None]
      /\ \/ /\ Wanted(e) - index[f] \in 0..PatchesBack
            /\ index' = [index EXCEPT ![f] = Wanted(e)]
            /\ ioiFresh' = [ioiFresh EXCEPT ![f] = FALSE]
            /\ NextFile(e)
            /\ UNCHANGED <<release, newest, ioi, succeeded>>
            /\ NoFailure
         \/ /\ IF Wanted(e) - index[f] \in 0..PatchesBack THEN CanFail /\ Fail ELSE NoFailure
            /\ NextVariant(e)
            /\ UNCHANGED lists
      /\ UNCHANGED <<published, run, options, configured, settled, flags, runs,
                     kills, failedBefore>>

-----------------------------------------------------------------------------
(* p_metadataUpdateThread: p_generateIndexesOfIndexes                      *)

FileSet(e) == {FilesOf[e][i] : i \in DOMAIN FilesOf[e]}

GenerateIndexOfIndex(e) ==
  /\ pc[e] = "index of index"
  /\ LET made == IF "index of index" \in options
                 THEN {f \in FileSet(e) : index[f] # None} ELSE {}
     IN  /\ ioi' = [f \in File |-> IF f \in made THEN index[f] ELSE ioi[f]]
         /\ ioiFresh' = [f \in File |-> f \in made \/ ioiFresh[f]]
  /\ Goto(e, "done")
  /\ UNCHANGED <<published, release, newest, index, partial, run, options, configured,
                 settled, flags, item, variant, succeeded, bounds, disturbed,
                 failedBefore>>

ThreadStep(e) ==
  \/ \E kind \in {"InRelease", "Release"} : HashRelease(e, kind)
  \/ \E kind \in ReleaseKind : RequestRelease(e, kind) \/ ReleaseAnswered(e, kind)
  \/ UpdateIndex(e)
  \/ SkipVariant(e)
  \/ RequestIndex(e)
  \/ IndexDownloadFails(e)
  \/ HashSumsMismatch(e)
  \/ IndexDownloaded(e)
  \/ DiffIndexDownloaded(e)
  \/ PatchIndex(e)
  \/ GenerateIndexOfIndex(e)

-----------------------------------------------------------------------------
(* updateReleaseAndIndexData                                               *)

Stopped == run # "running"

\* "unconditional clearing of partial chunks of Release[.gpg] files"
Cleared == [x \in Partial |-> IF x[1] \in ReleaseKind THEN None ELSE partial[x]]

Start ==
  /\ Stopped
  /\ runs < MaxRuns
  /\ runs' = runs + 1
  /\ run' = "running"
  /\ configured' \in Sources
  /\ partial' = Cleared
  /\ settled' = [x \in ReleaseFile |-> "none"]
  /\ pc' = [e \in Entry |-> IF e \in configured' THEN "hash InRelease" ELSE "idle"]
  /\ known' = Idle(None) /\ changed' = Idle(FALSE) /\ sourceChanged' = Idle(FALSE)
  /\ item' = Idle(1) /\ variant' = Idle(1) /\ succeeded' = Idle(TRUE)
  /\ failedBefore' = (run = "failed" /\ ~disturbed /\ configured' \subseteq configured)
  /\ disturbed' = FALSE
  /\ UNCHANGED <<published, lists, options, kills, failures>>

\* A hook fails, or a directory cannot be made.
PreparationFails ==
  /\ Stopped
  /\ runs < MaxRuns
  /\ CanFail
  /\ runs' = runs + 1
  /\ run' = "failed"
  /\ Fail
  /\ failedBefore' = FALSE
  /\ UNCHANGED <<published, lists, partial, options, configured, settled, thread, kills>>

\* __list_cleanup: what belongs to no configured entry goes, and every index of
\* index when there should be none.
UsedReleases == {<<kind, DistributionOf[e]>> : kind \in ReleaseKind, e \in configured}
UsedFiles == UNION {FileSet(e) : e \in configured}
UsedIois == IF "index of index" \in options THEN UsedFiles ELSE {}

Keep(files, used) == [x \in DOMAIN files |-> IF x \in used THEN files[x] ELSE None]

ListCleanup ==
  IF "cleanup" \in options
  THEN /\ release' = Keep(release, UsedReleases)
       /\ index' = Keep(index, UsedFiles)
       /\ ioi' = Keep(ioi, UsedIois)
       /\ UNCHANGED <<newest, ioiFresh>>
  ELSE UNCHANGED lists

\* All threads are joined; post-invoke hooks come after the cleanup.
Finish ==
  /\ run = "running"
  /\ \A e \in configured : pc[e] = "done"
  /\ ListCleanup
  /\ run' = IF \A e \in configured : succeeded[e] THEN "succeeded" ELSE "failed"
  /\ pc' = Idle("idle")
  /\ UNCHANGED <<published, partial, options, configured, settled, flags, item,
                 variant, succeeded, bounds, disturbed, failedBefore>>

-----------------------------------------------------------------------------
(* The environment                                                         *)

Kill ==
  /\ run = "running"
  /\ kills < MaxKills
  /\ kills' = kills + 1
  /\ run' = "killed"
  /\ pc' = Idle("idle")
  /\ disturbed' = TRUE
  /\ UNCHANGED <<published, lists, partial, options, configured, settled, flags,
                 item, variant, succeeded, runs, failures, failedBefore>>

Publish ==
  /\ published < MaxRelease
  /\ published' = published + 1
  /\ disturbed' = TRUE
  /\ UNCHANGED <<lists, partial, run, options, configured, settled, thread, bounds,
                 failedBefore>>

Next ==
  \/ Start
  \/ PreparationFails
  \/ \E e \in Entry : ThreadStep(e)
  \/ \E x \in ReleaseFile : ReleaseSettles(x)
  \/ Finish
  \/ Kill
  \/ Publish

Spec == Init /\ [][Next]_vars

-----------------------------------------------------------------------------
(* Properties *)

\* An update which reports success leaves, for every configured entry, a main
\* index which is that of the release file the cache will use; whatever was
\* killed, failed or left behind before.  If nothing failed meanwhile and nothing
\* was published, it is the newest one.
SuccessMeansCurrent ==
  run = "succeeded" => \A e \in configured :
    LET master == Master(DistributionOf[e])
    IN  /\ master \in 1..MaxRelease
        /\ index[FilesOf[e][1]] = Content[FilesOf[e][1]][master]
        /\ ~disturbed => master = published

\* No file in the lists directory is put together of two releases, though
\* release files have no hash sums and downloads are resumed; and an index of
\* index which the cache would use describes the index beside it.
NothingIsMixedUp ==
  /\ \A x \in ReleaseFile : release[x] # Garbage
  /\ \A f \in File : index[f] # Garbage
  /\ \A f \in File : ioi[f] # None /\ index[f] # None /\ ioiFresh[f] => ioi[f] = index[f]

\* A partial file of an older release costs at most one update: two undisturbed
\* ones in a row do not both fail, if the second one has no further entries and
\* the server has what the entries need.
FailsAtMostOnce == run = "failed" /\ ~disturbed => ~failedBefore

\* The server has a release file of each distribution and, whole, each main index.
ServerIsRight ==
  /\ \A d \in Distribution : Offered \cap {<<"InRelease", d>>, <<"Release", d>>} # {}
  /\ \A e \in Entry : \E i \in DOMAIN Variants :
       Variants[i] # "diff" /\ <<Variants[i], FilesOf[e][1]>> \in Offered
=============================================================================
