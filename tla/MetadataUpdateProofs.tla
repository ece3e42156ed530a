----------------------- MODULE MetadataUpdateProofs -------------------------
(***************************************************************************)
(* No file in the lists directory is ever put together of two releases:    *)
(* for all sources lists, any number of threads and runs, and wherever     *)
(* runs are killed.                                                        *)
(*                                                                         *)
(* An index is safe because its hash sums are those of a release file, so  *)
(* that a thread which looks at indexes must have one (HasRelease).  A     *)
(* release file has no hash sums.  It is safe because its partial file is  *)
(* removed at the start of a run (CleanStart), and because in a run one    *)
(* thread downloads it, once (Unbroken).                                   *)
(***************************************************************************)
EXTENDS MetadataUpdate, TLAPS

Release == 1..MaxRelease

\* Where a thread may be, and where it looks at indexes.
AtIndexes == {"variant", "fetch", "patch"}
Place == AtIndexes \cup
  {"idle", "hash InRelease", "InRelease", "hash Release", "Release", "Release.gpg",
   "index", "index of index", "done"}

Typed ==
  /\ published \in Release
  /\ release \in [ReleaseFile -> Release \cup {None}]
  /\ newest \in [Distribution -> {"InRelease", "Release"}]
  /\ index \in [File -> Release \cup {None}]
  /\ ioi \in [File -> Release \cup {None}]
  /\ ioiFresh \in [File -> BOOLEAN]
  /\ partial \in [Partial -> Int]
  /\ settled \in [ReleaseFile -> {"none", "active", "ok", "error"}]
  /\ pc \in [Entry -> Place]
  /\ variant \in [Entry -> DOMAIN Variants]

\* What nobody has asked for in this run has no partial file.
CleanStart == \A x \in ReleaseFile : settled[x] = "none" => partial[x] = None

\* What is under way is all of one release.
Unbroken == \A x \in ReleaseFile : settled[x] = "active" /\ x \in Offered => partial[x] \in Release

\* A thread which looks at indexes has a release file to compare them with.
Known(d) == release[<<"InRelease", d>>] # None \/ release[<<"Release", d>>] # None
HasRelease == \A e \in Entry : pc[e] \in AtIndexes => Known(DistributionOf[e])

Fits(f) == ioi[f] # None /\ index[f] # None /\ ioiFresh[f] => ioi[f] = index[f]
IoiFits == \A f \in File : Fits(f)

IInv == Typed /\ CleanStart /\ Unbroken /\ HasRelease /\ IoiFits

-----------------------------------------------------------------------------
(* Release files and what they say                                         *)

\* Partial files of indexes are no release files.
LEMMA KindsDiffer ==
  /\ VariantKind \cap ReleaseKind = {}
  /\ ReleaseFile \subseteq Partial
  /\ \A e \in Entry : Typed => /\ Kind(e) \in VariantKind
                               /\ Path(e) \notin ReleaseFile
  /\ \A e \in Entry, kind \in ReleaseKind : NameOf(e, kind) \in ReleaseFile
  /\ \A x \in ReleaseFile : x[1] \in ReleaseKind /\ x[2] \in Distribution
<1>1. VariantKind \cap ReleaseKind = {}
  BY DEF VariantKind, ReleaseKind
<1>2. /\ ReleaseFile \subseteq Partial
      /\ \A x \in ReleaseFile : x[1] \in ReleaseKind /\ x[2] \in Distribution
  BY DEF ReleaseFile, Partial
<1>3. \A e \in Entry, kind \in ReleaseKind : NameOf(e, kind) \in ReleaseFile
  BY UpdateAssumption DEF ReleaseFile, NameOf
<1>4. \A e \in Entry : Typed => Kind(e) \in VariantKind
  BY UpdateAssumption DEF Typed, Kind
<1>5. \A e \in Entry : Path(e)[1] = Kind(e)
  BY DEF Path
<1> QED
  BY <1>1, <1>2, <1>3, <1>4, <1>5

\* The release file which counts is one that is there.
LEMMA MasterIsRelease ==
  ASSUME Typed, NEW d \in Distribution, Known(d)
  PROVE  Master(d) \in Release
<1>1. <<"InRelease", d>> \in ReleaseFile /\ <<"Release", d>> \in ReleaseFile
  BY DEF ReleaseFile, ReleaseKind
<1>2. newest[d] \in {"InRelease", "Release"}
  BY DEF Typed
<1> QED BY <1>1, <1>2 DEF Typed, Known, Master, NewerFirst

\* A thread at an index wants a content that a release brought.
LEMMA WantedIsRelease ==
  ASSUME IInv, NEW e \in Entry, pc[e] \in AtIndexes, CurrentFile(e) \in File
  PROVE  Wanted(e) \in Release
<1>1. DistributionOf[e] \in Distribution
  BY UpdateAssumption
<1>2. Master(DistributionOf[e]) \in Release
  BY <1>1, MasterIsRelease DEF IInv, HasRelease
<1> QED BY <1>2, UpdateAssumption DEF Wanted, Release

-----------------------------------------------------------------------------
(* Steps of a thread and its downloads                                     *)

\* What a step leaves alone when it only moves a thread on to another place
\* than an index.
LEMMA GoesOn ==
  ASSUME IInv, NEW e \in Entry, NEW where \in Place,
         pc' = [pc EXCEPT ![e] = where],
         where \in AtIndexes => Known(DistributionOf[e]),
         variant' \in [Entry -> DOMAIN Variants],
         UNCHANGED <<published, lists, partial, settled>>
  PROVE  IInv'
<1>1. Typed'
  BY DEF IInv, Typed, lists
<1>2. CleanStart' /\ Unbroken' /\ IoiFits'
  BY DEF IInv, lists, CleanStart, Unbroken, IoiFits, Fits
<1>3. HasRelease'
  BY DEF IInv, Typed, lists, HasRelease, Known
<1> QED BY <1>1, <1>2, <1>3 DEF IInv

LEMMA HashReleaseKeeps ==
  ASSUME IInv, NEW e \in Entry, NEW kind \in {"InRelease", "Release"}, HashRelease(e, kind)
  PROVE  IInv'
<1>1. kind \in Place /\ kind \notin AtIndexes
  BY DEF AtIndexes, Place
<1>2. pc' = [pc EXCEPT ![e] = kind] /\ UNCHANGED <<published, lists, partial, settled, variant>>
  BY DEF HashRelease, Goto
<1>3. variant' \in [Entry -> DOMAIN Variants]
  BY <1>2 DEF IInv, Typed
<1> QED BY <1>1, <1>2, <1>3, GoesOn

LEMMA RequestReleaseKeeps ==
  ASSUME IInv, NEW e \in Entry, NEW kind \in ReleaseKind, RequestRelease(e, kind)
  PROVE  IInv'
<1> DEFINE x == NameOf(e, kind)
<1>1. x \in ReleaseFile /\ x \in Partial
  BY KindsDiffer
<1>2. /\ settled[x] = "none"
      /\ settled' = [settled EXCEPT ![x] = "active"]
      /\ partial' = [partial EXCEPT ![x] = IF x \in Offered THEN Resume(@, published) ELSE @]
      /\ UNCHANGED <<published, lists, pc, variant>>
  BY DEF RequestRelease, thread
<1>3. partial[x] = None /\ published \in Release
  BY <1>1, <1>2 DEF IInv, CleanStart, Typed
<1>4. partial' = [partial EXCEPT ![x] = IF x \in Offered THEN published ELSE None]
  BY <1>1, <1>2, <1>3 DEF Resume
<1> HIDE DEF x
<1>5. Typed'
  <2>1. published \in Int /\ None \in Int
    BY <1>3, UpdateAssumption DEF Release, None
  <2>2. partial' \in [Partial -> Int]
    BY <1>1, <1>4, <2>1 DEF IInv, Typed
  <2>3. settled' \in [ReleaseFile -> {"none", "active", "ok", "error"}]
    BY <1>1, <1>2 DEF IInv, Typed
  <2> QED BY <1>2, <2>2, <2>3 DEF IInv, Typed, lists
<1>6. CleanStart' /\ Unbroken'
  BY <1>1, <1>2, <1>3, <1>4, KindsDiffer DEF IInv, Typed, CleanStart, Unbroken
<1>7. HasRelease' /\ IoiFits'
  BY <1>2 DEF IInv, lists, HasRelease, Known, IoiFits, Fits
<1> QED BY <1>5, <1>6, <1>7 DEF IInv

LEMMA ReleaseSettlesKeeps ==
  ASSUME IInv, NEW x \in ReleaseFile, ReleaseSettles(x)
  PROVE  IInv'
<1>1. x \in Partial /\ x[1] \in ReleaseKind /\ x[2] \in Distribution
  BY KindsDiffer
<1>2. /\ settled[x] = "active"
      /\ partial' = [partial EXCEPT ![x] = None]
      /\ UNCHANGED <<published, pc, variant>>
      /\ \/ x \in Offered /\ DownloadedRelease(x)
         \/ settled' = [settled EXCEPT ![x] = "error"] /\ UNCHANGED lists
  BY DEF ReleaseSettles, thread
<1>3. settled' \in [ReleaseFile -> {"none", "active", "ok", "error"}] /\ settled'[x] # "active"
      /\ settled'[x] # "none" /\ \A y \in ReleaseFile \ {x} : settled'[y] = settled[y]
  BY <1>2 DEF DownloadedRelease, IInv, Typed
<1>4. /\ release' \in [ReleaseFile -> Release \cup {None}]
      /\ newest' \in [Distribution -> {"InRelease", "Release"}]
      /\ \A y \in ReleaseFile : release[y] # None => release'[y] # None
      /\ UNCHANGED <<index, ioi, ioiFresh>>
  <2>1. CASE x \in Offered /\ DownloadedRelease(x)
    <3>1. partial[x] \in Release
      BY <2>1, <1>2 DEF IInv, Unbroken
    <3>2. newest' \in [Distribution -> {"InRelease", "Release"}]
      BY <2>1, <1>1 DEF DownloadedRelease, MayBeNewer, IInv, Typed, ReleaseKind
    <3>3. release' = [release EXCEPT ![x] = partial[x]] /\ UNCHANGED <<index, ioi, ioiFresh>>
      BY <2>1 DEF DownloadedRelease
    <3> QED BY <3>1, <3>2, <3>3 DEF IInv, Typed, Release, None
  <2>2. CASE UNCHANGED lists
    BY <2>2 DEF IInv, Typed, lists
  <2> QED BY <1>2, <2>1, <2>2
<1>5. Typed'
  BY <1>1, <1>2, <1>3, <1>4 DEF IInv, Typed, None
<1>6. CleanStart' /\ Unbroken'
  BY <1>1, <1>2, <1>3, KindsDiffer DEF IInv, Typed, CleanStart, Unbroken
<1>7. HasRelease'
  <2>1. \A d \in Distribution : Known(d) => Known(d)'
    BY <1>4 DEF Known, ReleaseFile, ReleaseKind
  <2> QED BY <2>1, <1>2, UpdateAssumption DEF IInv, HasRelease
<1>8. IoiFits'
  BY <1>4 DEF IInv, IoiFits, Fits
<1> QED BY <1>5, <1>6, <1>7, <1>8 DEF IInv

LEMMA ReleaseAnsweredKeeps ==
  ASSUME IInv, NEW e \in Entry, NEW kind \in ReleaseKind, ReleaseAnswered(e, kind)
  PROVE  IInv'
<1>1. UNCHANGED <<published, lists, partial, settled, variant>>
  BY DEF ReleaseAnswered
<1>2. \/ pc' = [pc EXCEPT ![e] = AfterSuccess[kind]]
      \/ pc' = [pc EXCEPT ![e] = AfterError[kind]]
  BY DEF ReleaseAnswered, Goto
<1>3. AfterSuccess[kind] \in Place \ AtIndexes /\ AfterError[kind] \in Place \ AtIndexes
  BY DEF AfterSuccess, AfterError, ReleaseKind, AtIndexes, Place
<1>4. variant' \in [Entry -> DOMAIN Variants]
  BY <1>1 DEF IInv, Typed
<1> QED BY <1>1, <1>2, <1>3, <1>4, GoesOn

-----------------------------------------------------------------------------
(* Steps at indexes                                                        *)

SameRelease == UNCHANGED <<published, release, newest, settled>>

\* No step at an index touches the partial file of a release file.
LEMMA IndexStepKeeps ==
  ASSUME IInv, NEW e \in Entry, NEW where \in Place,
         pc' = [pc EXCEPT ![e] = where],
         where \in AtIndexes => Known(DistributionOf[e]),
         variant' \in [Entry -> DOMAIN Variants],
         SameRelease,
         partial' \in [Partial -> Int],
         \A x \in ReleaseFile : partial'[x] = partial[x],
         index' \in [File -> Release \cup {None}],
         ioi' \in [File -> Release \cup {None}],
         ioiFresh' \in [File -> BOOLEAN],
         IoiFits'
  PROVE  IInv'
<1>1. Typed'
  BY DEF IInv, Typed, SameRelease
<1>2. CleanStart' /\ Unbroken'
  BY DEF IInv, SameRelease, CleanStart, Unbroken
<1>3. HasRelease'
  BY DEF IInv, Typed, SameRelease, HasRelease, Known
<1> QED BY <1>1, <1>2, <1>3 DEF IInv

LEMMA PartialRemoved ==
  ASSUME IInv, NEW e \in Entry, partial' = [partial EXCEPT ![Path(e)] = None]
  PROVE  partial' \in [Partial -> Int] /\ \A x \in ReleaseFile : partial'[x] = partial[x]
<1>1. None \in Int
  BY DEF None
<1>2. Path(e) \notin ReleaseFile /\ ReleaseFile \subseteq Partial
  BY KindsDiffer DEF IInv
<1> QED BY <1>1, <1>2 DEF IInv, Typed

\* A partial file of an index is written or removed, and a thread goes on.
LEMMA PartialStepKeeps ==
  ASSUME IInv, NEW e \in Entry, NEW where \in Place,
         pc' = [pc EXCEPT ![e] = where],
         where \in AtIndexes => Known(DistributionOf[e]),
         variant' \in [Entry -> DOMAIN Variants],
         SameRelease, UNCHANGED <<index, ioi, ioiFresh>>,
         NEW n \in Int,
         partial' = [partial EXCEPT ![Path(e)] = n] \/ UNCHANGED partial
  PROVE  IInv'
<1>1. partial' \in [Partial -> Int] /\ \A x \in ReleaseFile : partial'[x] = partial[x]
  BY KindsDiffer DEF IInv, Typed
<1>2. /\ index' \in [File -> Release \cup {None}]
      /\ ioi' \in [File -> Release \cup {None}]
      /\ ioiFresh' \in [File -> BOOLEAN]
  BY DEF IInv, Typed
<1>3. IoiFits'
  BY DEF IInv, IoiFits, Fits
<1> QED BY <1>1, <1>2, <1>3, IndexStepKeeps

LEMMA NextFileGoes ==
  ASSUME IInv, NEW e \in Entry, NextFile(e)
  PROVE  /\ variant' \in [Entry -> DOMAIN Variants]
         /\ \E where \in Place \ AtIndexes : pc' = [pc EXCEPT ![e] = where]
<1>1. 1 \in DOMAIN Variants
  BY UpdateAssumption
<1>2. variant' = [variant EXCEPT ![e] = 1]
  BY DEF NextFile
<1>3. \/ pc' = [pc EXCEPT ![e] = "index"]
      \/ pc' = [pc EXCEPT ![e] = "index of index"]
  BY DEF NextFile, Goto
<1>4. {"index", "index of index"} \subseteq Place \ AtIndexes
  BY DEF Place, AtIndexes
<1> QED BY <1>1, <1>2, <1>3, <1>4 DEF IInv, Typed

LEMMA NextVariantGoes ==
  ASSUME IInv, NEW e \in Entry, pc[e] \in AtIndexes, NextVariant(e)
  PROVE  /\ variant' \in [Entry -> DOMAIN Variants]
         /\ \E where \in Place : /\ pc' = [pc EXCEPT ![e] = where]
                                 /\ where \in AtIndexes => Known(DistributionOf[e])
<1>1. Known(DistributionOf[e])
  BY DEF IInv, HasRelease
<1>2. {"variant", "index of index"} \subseteq Place
  BY DEF Place, AtIndexes
<1>3. variant \in [Entry -> 1..Len(Variants)] /\ DOMAIN Variants = 1..Len(Variants)
      /\ Len(Variants) \in Nat
  <2>1. Variants \in Seq(VariantKind)
    BY UpdateAssumption
  <2>2. DOMAIN Variants = 1..Len(Variants) /\ Len(Variants) \in Nat
    BY <2>1
  <2> QED BY <2>2 DEF IInv, Typed
<1>4. CASE variant[e] < Len(Variants)
  <2>1. variant' = [variant EXCEPT ![e] = @ + 1] /\ pc' = [pc EXCEPT ![e] = "variant"]
    BY <1>4 DEF NextVariant, Goto
  <2>2. variant' \in [Entry -> 1..Len(Variants)]
    BY <1>3, <1>4, <2>1
  <2> QED BY <1>1, <1>2, <1>3, <2>1, <2>2
<1>5. CASE ~(variant[e] < Len(Variants)) /\ item[e] = 1
  BY <1>1, <1>2, <1>3, <1>5 DEF NextVariant, Goto
<1>6. CASE ~(variant[e] < Len(Variants)) /\ item[e] # 1
  BY <1>6, NextFileGoes DEF NextVariant
<1> QED BY <1>4, <1>5, <1>6

LEMMA UpdateIndexKeeps ==
  ASSUME IInv, NEW e \in Entry, UpdateIndex(e)
  PROVE  IInv'
<1>1. UNCHANGED <<published, lists, partial, settled>>
  BY DEF UpdateIndex
<1>2. CASE Master(DistributionOf[e]) \notin Release
  <2>1. pc' = [pc EXCEPT ![e] = "done"] /\ UNCHANGED variant
    BY <1>2 DEF UpdateIndex, Goto, Release
  <2>2. "done" \in Place \ AtIndexes /\ variant' \in [Entry -> DOMAIN Variants]
    BY <2>1 DEF Place, AtIndexes, IInv, Typed
  <2> QED BY <1>1, <2>1, <2>2, GoesOn
<1>3. CASE Master(DistributionOf[e]) \in Release
  <2>1. CASE Unchanged(e)
    BY <1>1, <1>3, <2>1, NextFileGoes, GoesOn DEF UpdateIndex, Release
  <2>2. CASE ~Unchanged(e)
    <3>1. pc' = [pc EXCEPT ![e] = "variant"] /\ UNCHANGED variant
      BY <1>3, <2>2 DEF UpdateIndex, Goto, Release
    <3>2. Known(DistributionOf[e])
      <4>1. Master(DistributionOf[e]) # None
        BY <1>3, UpdateAssumption DEF Release, None
      <4>2. newest[DistributionOf[e]] \in {"InRelease", "Release"}
        BY UpdateAssumption DEF IInv, Typed
      <4> QED BY <4>1, <4>2 DEF Master, NewerFirst, Known
    <3>3. "variant" \in Place /\ variant' \in [Entry -> DOMAIN Variants]
      BY <3>1 DEF Place, AtIndexes, IInv, Typed
    <3> QED BY <1>1, <3>1, <3>2, <3>3, GoesOn
  <2> QED BY <2>1, <2>2
<1> QED BY <1>2, <1>3

LEMMA SkipVariantKeeps ==
  ASSUME IInv, NEW e \in Entry, SkipVariant(e)
  PROVE  IInv'
<1>1. pc[e] \in AtIndexes /\ NextVariant(e) /\ UNCHANGED <<published, lists, partial, settled>>
  BY DEF SkipVariant, AtIndexes
<1> QED BY <1>1, NextVariantGoes, GoesOn

\* What a request makes of a partial file is some content, or a mixture.
LEMMA RequestIndexKeeps ==
  ASSUME IInv, NEW e \in Entry, RequestIndex(e)
  PROVE  IInv'
<1> DEFINE n == IF Path(e) \in Offered
                THEN Resume(StartPoint(e), Content[CurrentFile(e)][published])
                ELSE StartPoint(e)
<1>1. /\ pc[e] \in AtIndexes
      /\ pc' = [pc EXCEPT ![e] = "fetch"]
      /\ partial' = [partial EXCEPT ![Path(e)] = n]
      /\ UNCHANGED <<lists, variant>> /\ SameRelease
  BY DEF RequestIndex, AtIndexes, Goto, SameRelease, lists
<1>2. /\ "fetch" \in Place /\ Known(DistributionOf[e])
      /\ variant' \in [Entry -> DOMAIN Variants]
      /\ UNCHANGED <<index, ioi, ioiFresh>>
  BY <1>1 DEF Place, AtIndexes, IInv, HasRelease, Typed, lists
<1>3. CASE Path(e) \in Partial
  <2>1. partial[Path(e)] \in Int
    BY <1>3 DEF IInv, Typed
  <2>2. StartPoint(e) \in Int
    BY <2>1 DEF StartPoint, None
  <2>3. CASE Path(e) \in Offered
    <3>1. CurrentFile(e) \in File
      BY <2>3, UpdateAssumption, KindsDiffer DEF Path, IInv
    <3>2. Content[CurrentFile(e)][published] \in Int
      BY <3>1, UpdateAssumption DEF IInv, Typed, Release
    <3>3. n \in Int
      BY <2>2, <3>2 DEF Resume, Garbage
    <3> HIDE DEF n
    <3> QED BY <1>1, <1>2, <3>3, PartialStepKeeps
  <2>4. CASE Path(e) \notin Offered
    <3>1. n \in Int
      BY <2>2, <2>4
    <3> HIDE DEF n
    <3> QED BY <1>1, <1>2, <3>1, PartialStepKeeps
  <2> QED BY <2>3, <2>4
<1>4. CASE Path(e) \notin Partial
  <2> HIDE DEF n
  <2>1. partial' = partial
    BY <1>1, <1>4 DEF IInv, Typed
  <2>2. 0 \in Int
    OBVIOUS
  <2> QED BY <1>1, <1>2, <2>1, <2>2, PartialStepKeeps
<1> QED BY <1>3, <1>4

LEMMA IndexDownloadFailsKeeps ==
  ASSUME IInv, NEW e \in Entry, IndexDownloadFails(e)
  PROVE  IInv'
<1>1. /\ pc[e] \in AtIndexes /\ NextVariant(e)
      /\ SameRelease /\ UNCHANGED <<index, ioi, ioiFresh>>
      /\ partial' = [partial EXCEPT ![Path(e)] = None] \/ UNCHANGED partial
  BY DEF IndexDownloadFails, AtIndexes, SameRelease, lists
<1>2. None \in Int
  BY DEF None
<1> QED BY <1>1, <1>2, NextVariantGoes, PartialStepKeeps

LEMMA HashSumsMismatchKeeps ==
  ASSUME IInv, NEW e \in Entry, HashSumsMismatch(e)
  PROVE  IInv'
<1>1. /\ pc[e] \in AtIndexes /\ NextVariant(e)
      /\ SameRelease /\ UNCHANGED <<index, ioi, ioiFresh>>
      /\ partial' = [partial EXCEPT ![Path(e)] = None] \/ UNCHANGED partial
  BY DEF HashSumsMismatch, MismatchRemoved, AtIndexes, SameRelease, lists
<1>2. None \in Int
  BY DEF None
<1> QED BY <1>1, <1>2, NextVariantGoes, PartialStepKeeps

\* The new index has the hash sums of the release file; what described the old
\* one has been removed.
LEMMA IndexDownloadedKeeps ==
  ASSUME IInv, NEW e \in Entry, IndexDownloaded(e)
  PROVE  IInv'
<1> DEFINE f == CurrentFile(e)
<1>1. /\ pc[e] \in AtIndexes /\ NextFile(e) /\ SameRelease
      /\ partial[Path(e)] = Wanted(e)
      /\ partial' = [partial EXCEPT ![Path(e)] = None]
      /\ index' = [index EXCEPT ![f] = Wanted(e)]
      /\ ioi' = [ioi EXCEPT ![f] = None]
  BY DEF IndexDownloaded, ReplaceIndex, IoiRemoved, AtIndexes, SameRelease
<1>2. f \in File => Wanted(e) \in Release
  BY <1>1, WantedIsRelease
<1>3. ioiFresh' \in [File -> BOOLEAN] /\ \A g \in File \ {f} : ioiFresh'[g] = ioiFresh[g]
  BY DEF IndexDownloaded, ReplaceIndex, IInv, Typed
<1> HIDE DEF f
<1>4. index' \in [File -> Release \cup {None}] /\ ioi' \in [File -> Release \cup {None}]
  BY <1>1, <1>2 DEF IInv, Typed
<1>5. IoiFits'
  BY <1>1, <1>3 DEF IInv, Typed, IoiFits, Fits
<1>6. partial' \in [Partial -> Int] /\ \A x \in ReleaseFile : partial'[x] = partial[x]
  BY <1>1, PartialRemoved
<1> QED BY <1>1, <1>3, <1>4, <1>5, <1>6, NextFileGoes, IndexStepKeeps

LEMMA DiffIndexDownloadedKeeps ==
  ASSUME IInv, NEW e \in Entry, DiffIndexDownloaded(e)
  PROVE  IInv'
<1>1. /\ pc[e] \in AtIndexes /\ pc' = [pc EXCEPT ![e] = "patch"]
      /\ UNCHANGED <<published, lists, partial, settled, variant>>
  BY DEF DiffIndexDownloaded, AtIndexes, Goto
<1>2. /\ "patch" \in Place /\ Known(DistributionOf[e])
      /\ variant' \in [Entry -> DOMAIN Variants]
  BY <1>1 DEF Place, AtIndexes, IInv, HasRelease, Typed
<1> QED BY <1>1, <1>2, GoesOn

\* Patching leaves an index of index which is older than the index.
LEMMA PatchIndexKeeps ==
  ASSUME IInv, NEW e \in Entry, PatchIndex(e)
  PROVE  IInv'
<1> DEFINE f == CurrentFile(e)
<1>1. /\ pc[e] \in AtIndexes /\ UNCHANGED <<published, settled>>
      /\ partial' = [partial EXCEPT ![Path(e)] = None]
      /\ \/ /\ index' = [index EXCEPT ![f] = Wanted(e)]
            /\ ioiFresh' = [ioiFresh EXCEPT ![f] = FALSE]
            /\ NextFile(e)
            /\ UNCHANGED <<release, newest, ioi>>
         \/ NextVariant(e) /\ UNCHANGED lists
  BY DEF PatchIndex, AtIndexes
<1>2. f \in File => Wanted(e) \in Release
  BY <1>1, WantedIsRelease
<1> HIDE DEF f
<1>3. partial' \in [Partial -> Int] /\ \A x \in ReleaseFile : partial'[x] = partial[x]
  BY <1>1, PartialRemoved
<1>4. CASE /\ index' = [index EXCEPT ![f] = Wanted(e)]
           /\ ioiFresh' = [ioiFresh EXCEPT ![f] = FALSE]
           /\ NextFile(e)
           /\ UNCHANGED <<release, newest, ioi>>
  <2>1. /\ index' \in [File -> Release \cup {None}]
        /\ ioi' \in [File -> Release \cup {None}]
        /\ ioiFresh' \in [File -> BOOLEAN]
    BY <1>2, <1>4 DEF IInv, Typed
  <2>2. IoiFits'
    BY <1>4 DEF IInv, Typed, IoiFits, Fits
  <2>3. SameRelease
    BY <1>1, <1>4 DEF SameRelease
  <2> QED BY <1>3, <1>4, <2>1, <2>2, <2>3, NextFileGoes, IndexStepKeeps
<1>5. CASE NextVariant(e) /\ UNCHANGED lists
  <2>1. SameRelease /\ UNCHANGED <<index, ioi, ioiFresh>> /\ None \in Int
    BY <1>1, <1>5 DEF SameRelease, lists, None
  <2> QED BY <1>1, <1>5, <2>1, NextVariantGoes, PartialStepKeeps
<1> QED BY <1>1, <1>4, <1>5

LEMMA GenerateIndexOfIndexKeeps ==
  ASSUME IInv, NEW e \in Entry, GenerateIndexOfIndex(e)
  PROVE  IInv'
<1> DEFINE made == IF "index of index" \in options
                   THEN {f \in FileSet(e) : index[f] # None} ELSE {}
<1>1. /\ pc' = [pc EXCEPT ![e] = "done"] /\ SameRelease
      /\ ioi' = [f \in File |-> IF f \in made THEN index[f] ELSE ioi[f]]
      /\ ioiFresh' = [f \in File |-> f \in made \/ ioiFresh[f]]
      /\ UNCHANGED <<index, partial, variant>>
  BY DEF GenerateIndexOfIndex, Goto, SameRelease
<1> HIDE DEF made
<1>2. /\ "done" \in Place \ AtIndexes /\ variant' \in [Entry -> DOMAIN Variants]
      /\ partial' \in [Partial -> Int] /\ \A x \in ReleaseFile : partial'[x] = partial[x]
  BY <1>1 DEF Place, AtIndexes, IInv, Typed
<1>3. index' \in [File -> Release \cup {None}] /\ ioi' \in [File -> Release \cup {None}]
  BY <1>1 DEF IInv, Typed
<1>4. ioiFresh' \in [File -> BOOLEAN]
  BY <1>1
<1>5. IoiFits'
  BY <1>1 DEF IInv, IoiFits, Fits
<1> QED BY <1>1, <1>2, <1>3, <1>4, <1>5, IndexStepKeeps

-----------------------------------------------------------------------------
(* Runs                                                                    *)

LEMMA InitKeeps == Init => IInv
<1> SUFFICES ASSUME Init PROVE IInv
  OBVIOUS
<1>1. 1 \in Release /\ None \in Int /\ 1 \in DOMAIN Variants
  BY UpdateAssumption DEF Release, None
<1>2. "idle" \in Place \ AtIndexes /\ "InRelease" \in {"InRelease", "Release"}
  BY DEF Place, AtIndexes
<1>3. Typed
  BY <1>1, <1>2 DEF Init, Typed, Idle
<1>4. CleanStart /\ Unbroken /\ HasRelease /\ IoiFits
  BY <1>2 DEF Init, CleanStart, Unbroken, HasRelease, IoiFits, Fits, Idle, Partial
<1> QED BY <1>3, <1>4 DEF IInv

LEMMA StartKeeps == IInv /\ Start => IInv'
<1> SUFFICES ASSUME IInv, Start PROVE IInv'
  OBVIOUS
<1>1. /\ partial' = Cleared
      /\ settled' = [x \in ReleaseFile |-> "none"]
      /\ pc' = [e \in Entry |-> IF e \in configured' THEN "hash InRelease" ELSE "idle"]
      /\ variant' = [e \in Entry |-> 1]
      /\ UNCHANGED <<published, release, newest, index, ioi, ioiFresh>>
  BY DEF Start, Idle, lists
<1>2. \A x \in ReleaseFile : partial'[x] = None
  BY <1>1, KindsDiffer DEF Cleared
<1>3. Typed'
  <2>1. None \in Int /\ 1 \in DOMAIN Variants
    BY UpdateAssumption DEF None
  <2>2. partial' \in [Partial -> Int]
    BY <1>1, <2>1 DEF Cleared, IInv, Typed
  <2>3. pc' \in [Entry -> Place] /\ variant' \in [Entry -> DOMAIN Variants]
    BY <1>1, <2>1 DEF Place
  <2> QED BY <1>1, <2>2, <2>3 DEF IInv, Typed
<1>4. CleanStart' /\ Unbroken'
  BY <1>1, <1>2 DEF CleanStart, Unbroken
<1>5. HasRelease' /\ IoiFits'
  BY <1>1 DEF IInv, HasRelease, AtIndexes, IoiFits, Fits
<1> QED BY <1>3, <1>4, <1>5 DEF IInv

\* When a run ends, no thread is at an index.  Kept files are as they were.
LEMMA EndKeeps ==
  ASSUME IInv, pc' = Idle("idle"),
         UNCHANGED <<published, partial, settled, variant>>,
         UNCHANGED lists \/ ListCleanup
  PROVE  IInv'
<1>1. /\ release' \in [ReleaseFile -> Release \cup {None}]
      /\ index' \in [File -> Release \cup {None}]
      /\ ioi' \in [File -> Release \cup {None}]
      /\ UNCHANGED <<newest, ioiFresh>>
  BY DEF lists, ListCleanup, Keep, IInv, Typed
<1>2. \A f \in File : index'[f] \in {index[f], None} /\ ioi'[f] \in {ioi[f], None}
  BY DEF lists, ListCleanup, Keep, IInv, Typed
<1>3. Typed'
  BY <1>1 DEF IInv, Typed, Idle, Place
<1>4. CleanStart' /\ Unbroken' /\ HasRelease'
  BY DEF IInv, CleanStart, Unbroken, HasRelease, Idle, AtIndexes
<1>5. IoiFits'
  BY <1>1, <1>2 DEF IInv, IoiFits, Fits
<1> QED BY <1>3, <1>4, <1>5 DEF IInv

LEMMA ElsewhereKeeps ==
  ASSUME IInv, published' \in Release,
         UNCHANGED <<lists, partial, settled, pc, variant>>
  PROVE  IInv'
<1>1. Typed'
  BY DEF IInv, Typed, lists
<1>2. CleanStart' /\ Unbroken'
  BY DEF IInv, CleanStart, Unbroken
<1>3. HasRelease' /\ IoiFits'
  BY DEF IInv, HasRelease, Known, IoiFits, Fits, lists
<1> QED BY <1>1, <1>2, <1>3 DEF IInv

-----------------------------------------------------------------------------
(* The theorem                                                             *)

LEMMA NextKeeps == IInv /\ [Next]_vars => IInv'
<1> SUFFICES ASSUME IInv, [Next]_vars PROVE IInv'
  OBVIOUS
<1>0. published \in Release
  BY DEF IInv, Typed
<1>1. CASE Start
  BY <1>1, StartKeeps
<1>2. CASE PreparationFails
  BY <1>0, <1>2, ElsewhereKeeps DEF PreparationFails, thread
<1>3. ASSUME NEW e \in Entry, ThreadStep(e) PROVE IInv'
  <2>1. CASE \E kind \in {"InRelease", "Release"} : HashRelease(e, kind)
    BY <2>1, HashReleaseKeeps
  <2>2. CASE \E kind \in ReleaseKind : RequestRelease(e, kind) \/ ReleaseAnswered(e, kind)
    BY <2>2, RequestReleaseKeeps, ReleaseAnsweredKeeps
  <2>3. CASE UpdateIndex(e)
    BY <2>3, UpdateIndexKeeps
  <2>4. CASE SkipVariant(e)
    BY <2>4, SkipVariantKeeps
  <2>5. CASE RequestIndex(e)
    BY <2>5, RequestIndexKeeps
  <2>6. CASE IndexDownloadFails(e)
    BY <2>6, IndexDownloadFailsKeeps
  <2>7. CASE HashSumsMismatch(e)
    BY <2>7, HashSumsMismatchKeeps
  <2>8. CASE IndexDownloaded(e)
    BY <2>8, IndexDownloadedKeeps
  <2>9. CASE DiffIndexDownloaded(e)
    BY <2>9, DiffIndexDownloadedKeeps
  <2>10. CASE PatchIndex(e)
    BY <2>10, PatchIndexKeeps
  <2>11. CASE GenerateIndexOfIndex(e)
    BY <2>11, GenerateIndexOfIndexKeeps
  <2> QED
    BY <1>3, <2>1, <2>2, <2>3, <2>4, <2>5, <2>6, <2>7, <2>8, <2>9, <2>10, <2>11
       DEF ThreadStep
<1>4. ASSUME NEW x \in ReleaseFile, ReleaseSettles(x) PROVE IInv'
  BY <1>4, ReleaseSettlesKeeps
<1>5. CASE Finish
  BY <1>5, EndKeeps DEF Finish
<1>6. CASE Kill
  BY <1>6, EndKeeps DEF Kill
<1>7. CASE Publish
  <2>1. published' \in Release
    BY <1>0, <1>7, UpdateAssumption DEF Publish, Release
  <2> QED BY <1>7, <2>1, ElsewhereKeeps DEF Publish, thread
<1>8. CASE UNCHANGED vars
  BY <1>0, <1>8, ElsewhereKeeps DEF vars, thread
<1> QED BY <1>1, <1>2, <1>3, <1>4, <1>5, <1>6, <1>7, <1>8 DEF Next

LEMMA NothingMixed == IInv => NothingIsMixedUp
<1> SUFFICES ASSUME IInv PROVE NothingIsMixedUp
  OBVIOUS
<1>1. Garbage \notin Release \cup {None}
  BY UpdateAssumption DEF Garbage, Release, None
<1> QED BY <1>1 DEF IInv, Typed, IoiFits, Fits, NothingIsMixedUp

\* Whatever is killed, fails, is resumed or published while threads run: no
\* release file and no index is put together of two releases, and an index of
\* index which the cache would use describes the index beside it
\* (MetadataWorker::updateReleaseAndIndexData).
THEOREM NothingIsEverMixedUp == Spec => []NothingIsMixedUp
<1> QED BY InitKeeps, NextKeeps, NothingMixed, PTL DEF Spec

-----------------------------------------------------------------------------
(***************************************************************************)
(* What the success and the failure of an update mean, for all sources     *)
(* lists, files and variants and any number of threads and runs.           *)
(*                                                                         *)
(* Success: a thread comes to the indexes when a release file of its       *)
(* distribution was downloaded in this run; then no thread replaces the    *)
(* file which counts any more (Answered), so that the main index of a      *)
(* thread which went on stays that of this release (OnItsWay).             *)
(*                                                                         *)
(* Failure: when nothing goes wrong, a main index fails for one reason,    *)
(* the partial files which an older run left.  Each failure removes the    *)
(* file (Tried), so that the run leaves an entry a variant which cannot    *)
(* fail, or a main index that is current (Ready); the next run finds it    *)
(* (Certain).                                                              *)
(***************************************************************************)
InRel(d) == <<"InRelease", d>>
Rel(d) == <<"Release", d>>
Main(e) == FilesOf[e][1]

AtReleases == {"hash InRelease", "InRelease", "hash Release", "Release", "Release.gpg"}
AtEnd == {"index of index", "done"}

-----------------------------------------------------------------------------
(* The invariant for success                                               *)

\* What the download manager of this run says of a release file.
FileAnswered(x) ==
  /\ settled[x] = "ok" => /\ release[x] \in Release
                          /\ ~disturbed => release[x] = published
  /\ settled[x] = "active" /\ x \in Offered /\ ~disturbed => partial[x] = published

\* Release is asked for when InRelease has failed, so that one of them at most
\* is downloaded; it is the one which counts.
Answered(d) ==
  /\ settled[Rel(d)] # "none" => settled[InRel(d)] = "error"
  /\ settled[InRel(d)] = "ok" => Master(d) = release[InRel(d)]
  /\ settled[Rel(d)] = "ok" => Master(d) = release[Rel(d)]

Answers ==
  run = "running" => /\ \A x \in ReleaseFile : FileAnswered(x)
                     /\ \A d \in Distribution : Answered(d)

HasMaster(d) == settled[InRel(d)] = "ok" \/ settled[Rel(d)] = "ok"

\* The main index of an entry is that of the release file which counts.
MainIsCurrent(e) == index[Main(e)] = Content[Main(e)][Master(DistributionOf[e])]

OnItsWay(e) ==
  LET d == DistributionOf[e]
  IN  /\ pc[e] # "idle" => run = "running"
      /\ pc[e] \in AtReleases => item[e] = 1 /\ variant[e] = 1
      /\ pc[e] \in {"hash Release", "Release"} => settled[InRel(d)] = "error"
      /\ pc[e] = "Release.gpg" => settled[Rel(d)] = "ok"
      /\ pc[e] \in {"index"} \cup AtIndexes => item[e] \in DOMAIN FilesOf[e] /\ HasMaster(d)
      /\ pc[e] # "idle" /\ item[e] # 1 => HasMaster(d) /\ MainIsCurrent(e)
      /\ pc[e] \in AtEnd /\ succeeded[e] => item[e] # 1

Threads ==
  /\ item \in [Entry -> Nat \ {0}]
  /\ succeeded \in [Entry -> BOOLEAN]
  /\ configured \subseteq Entry
  /\ \A e \in Entry : OnItsWay(e)

SInv == IInv /\ Answers /\ Threads /\ SuccessMeansCurrent
-----------------------------------------------------------------------------
(* Release files which count, and steps which leave them alone             *)

LEMMA ReleaseNames ==
  ASSUME NEW d \in Distribution
  PROVE  InRel(d) \in ReleaseFile /\ Rel(d) \in ReleaseFile /\ InRel(d) # Rel(d)
BY DEF InRel, Rel, ReleaseFile, ReleaseKind

LEMMA EntryNames ==
  ASSUME NEW e \in Entry
  PROVE  /\ DistributionOf[e] \in Distribution
         /\ 1 \in DOMAIN FilesOf[e]
         /\ Main(e) \in File
         /\ DOMAIN FilesOf[e] = 1..Len(FilesOf[e]) /\ Len(FilesOf[e]) \in Nat
         /\ \A i \in DOMAIN FilesOf[e] : FilesOf[e][i] \in File
<1>1. DistributionOf[e] \in Distribution /\ FilesOf[e] \in Seq(File) /\ FilesOf[e] # <<>>
  BY UpdateAssumption
<1> QED BY <1>1 DEF Main

\* What was downloaded in this run is what the cache will use.
LEMMA MasterIsRight ==
  ASSUME IInv, Answers, run = "running", NEW d \in Distribution, HasMaster(d)
  PROVE  /\ Master(d) \in Release
         /\ ~disturbed => Master(d) = published
<1> DEFINE found(x) == release[x] \in Release /\ (~disturbed => release[x] = published)
<1>1. Answered(d) /\ FileAnswered(InRel(d)) /\ FileAnswered(Rel(d))
  BY ReleaseNames DEF Answers
<1>2. \/ Master(d) = release[InRel(d)] /\ found(InRel(d))
      \/ Master(d) = release[Rel(d)] /\ found(Rel(d))
  BY <1>1 DEF HasMaster, Answered, FileAnswered
<1> QED BY <1>2

\* A step of a thread which leaves release files and other threads alone.
Local(e) ==
  /\ UNCHANGED <<published, release, newest, settled, run, configured>>
  /\ ~disturbed' => ~disturbed
  /\ \A x \in ReleaseFile : partial'[x] = partial[x]
  /\ item' \in [Entry -> Nat \ {0}] /\ succeeded' \in [Entry -> BOOLEAN]
  /\ \A g \in Entry \ {e} :
       /\ pc'[g] = pc[g] /\ item'[g] = item[g] /\ variant'[g] = variant[g]
       /\ succeeded'[g] = succeeded[g] /\ index'[Main(g)] = index[Main(g)]

\* What the other threads see of a step: answers stay, and so does the release
\* file which counts.
LEMMA OthersGoOn ==
  ASSUME NEW e \in Entry, OnItsWay(e),
         pc'[e] = pc[e], item'[e] = item[e], variant'[e] = variant[e],
         succeeded'[e] = succeeded[e], run' = run,
         \A x \in ReleaseFile : settled[x] \in {"ok", "error"} => settled'[x] = settled[x],
         HasMaster(DistributionOf[e]) =>
           Master(DistributionOf[e])' = Master(DistributionOf[e]),
         index'[Main(e)] = index[Main(e)]
  PROVE  OnItsWay(e)'
<1> DEFINE d == DistributionOf[e]
<1>1. InRel(d) \in ReleaseFile /\ Rel(d) \in ReleaseFile
  BY ReleaseNames, EntryNames
<1>2. HasMaster(d) => HasMaster(d)' /\ Master(d)' = Master(d)
  BY <1>1 DEF HasMaster
<1>3. HasMaster(d) /\ MainIsCurrent(e) => MainIsCurrent(e)'
  BY <1>2 DEF MainIsCurrent
<1> QED BY <1>1, <1>2, <1>3 DEF OnItsWay

LEMMA LocalKeeps ==
  ASSUME SInv, NEW e \in Entry, pc[e] # "idle", Local(e), IInv', OnItsWay(e)'
  PROVE  SInv'
<1>1. run = "running" /\ run' = "running"
  BY DEF SInv, Threads, OnItsWay, Local
<1>2. Answers'
  <2>1. ASSUME NEW d \in Distribution PROVE Answered(d)'
    <3>1. Answered(d) /\ Master(d)' = Master(d)
      BY <1>1 DEF SInv, Answers, Local, Master, NewerFirst
    <3> QED BY <3>1 DEF Answered, Local
  <2> QED BY <1>1, <2>1 DEF SInv, Answers, FileAnswered, Local
<1>3. ASSUME NEW g \in Entry \ {e} PROVE OnItsWay(g)'
  <2>1. Master(DistributionOf[g])' = Master(DistributionOf[g])
    BY DEF Local, Master, NewerFirst
  <2>2. g \in Entry /\ OnItsWay(g)
    BY DEF SInv, Threads
  <2> QED BY <2>1, <2>2, OthersGoOn DEF Local
<1>4. Threads'
  BY <1>3 DEF SInv, Threads, Local
<1>5. SuccessMeansCurrent'
  BY <1>1 DEF SuccessMeansCurrent
<1> QED BY <1>2, <1>4, <1>5 DEF SInv

-----------------------------------------------------------------------------
(* Steps at release files                                                  *)

LEMMA HashReleaseOn ==
  ASSUME SInv, NEW e \in Entry, NEW kind \in {"InRelease", "Release"}, HashRelease(e, kind)
  PROVE  SInv'
<1>1. /\ pc[e] = HashPlace(kind) /\ pc' = [pc EXCEPT ![e] = kind]
      /\ UNCHANGED <<published, lists, partial, run, configured, settled, item, variant,
                     succeeded, disturbed>>
  BY DEF HashRelease, Goto
<1>2. /\ kind = "InRelease" => pc[e] = "hash InRelease"
      /\ kind = "Release" => pc[e] = "hash Release"
  BY <1>1 DEF HashPlace
<1>3. IInv'
  BY HashReleaseKeeps DEF SInv
<1>4. Local(e)
  BY <1>1 DEF Local, SInv, IInv, Typed, Threads, lists
<1>5. OnItsWay(e)'
  BY <1>1, <1>2 DEF SInv, IInv, Typed, Threads, OnItsWay, AtReleases, AtIndexes, AtEnd
<1> QED BY <1>2, <1>3, <1>4, <1>5, LocalKeeps

LEMMA ReleaseAnsweredOn ==
  ASSUME SInv, NEW e \in Entry, NEW kind \in ReleaseKind, ReleaseAnswered(e, kind)
  PROVE  SInv'
<1> DEFINE d == DistributionOf[e]
<1>1. /\ pc[e] = kind
      /\ UNCHANGED <<published, lists, partial, run, configured, settled, item, variant,
                     disturbed>>
      /\ \/ /\ settled[<<kind, d>>] = "ok" /\ pc' = [pc EXCEPT ![e] = AfterSuccess[kind]]
            /\ UNCHANGED succeeded
         \/ /\ settled[<<kind, d>>] = "error" /\ pc' = [pc EXCEPT ![e] = AfterError[kind]]
            /\ succeeded' = [succeeded EXCEPT ![e] = kind # "Release"]
  BY DEF ReleaseAnswered, Goto, NameOf
<1>2. IInv'
  BY ReleaseAnsweredKeeps DEF SInv
<1>3. Local(e)
  BY <1>1 DEF Local, SInv, IInv, Typed, Threads, lists
<1>4. pc[e] \in AtReleases /\ item[e] = 1 /\ variant[e] = 1 /\ 1 \in DOMAIN FilesOf[e]
  BY <1>1, EntryNames DEF ReleaseKind, AtReleases, SInv, Threads, OnItsWay
<1>5. OnItsWay(e)'
  <2>1. OnItsWay(e) /\ pc \in [Entry -> Place] /\ succeeded \in [Entry -> BOOLEAN]
    BY DEF SInv, IInv, Typed, Threads
  <2>2. CASE kind = "InRelease"
    BY <1>1, <1>4, <2>1, <2>2 DEF AfterSuccess, AfterError, ReleaseKind, OnItsWay,
       AtReleases, AtIndexes, AtEnd, HasMaster, InRel
  <2>3. CASE kind = "Release"
    BY <1>1, <1>4, <2>1, <2>3 DEF AfterSuccess, AfterError, ReleaseKind, OnItsWay,
       AtReleases, AtIndexes, AtEnd, HasMaster, Rel
  <2>4. CASE kind = "Release.gpg"
    BY <1>1, <1>4, <2>1, <2>4 DEF AfterSuccess, AfterError, ReleaseKind, OnItsWay,
       AtReleases, AtIndexes, AtEnd, HasMaster
  <2> QED BY <2>2, <2>3, <2>4 DEF ReleaseKind
<1> QED BY <1>1, <1>2, <1>3, <1>5, LocalKeeps DEF ReleaseKind

\* A request is for a file nobody has asked for; its partial file was empty.
LEMMA RequestReleaseOn ==
  ASSUME SInv, NEW e \in Entry, NEW kind \in ReleaseKind, RequestRelease(e, kind)
  PROVE  SInv'
<1> DEFINE x == NameOf(e, kind)
           d == DistributionOf[e]
<1>1. /\ pc[e] = kind /\ settled[x] = "none"
      /\ settled' = [settled EXCEPT ![x] = "active"]
      /\ partial' = [partial EXCEPT ![x] = IF x \in Offered THEN Resume(@, published) ELSE @]
      /\ UNCHANGED <<published, lists, run, configured, pc, item, variant, succeeded, disturbed>>
  BY DEF RequestRelease, thread
<1>2. x \in ReleaseFile /\ x \in Partial /\ x = <<kind, d>> /\ d \in Distribution
  BY KindsDiffer, EntryNames DEF NameOf
<1>3. IInv'
  BY RequestReleaseKeeps DEF SInv
<1>4. x \in Offered => partial'[x] = published
  BY <1>1, <1>2 DEF SInv, IInv, Typed, CleanStart, Resume
<1>5. run = "running" /\ run' = "running" /\ OnItsWay(e)
  BY <1>1 DEF SInv, Threads, OnItsWay, ReleaseKind
<1> HIDE DEF x
<1>6. /\ settled'[x] = "active"
      /\ \A y \in ReleaseFile \ {x} : settled'[y] = settled[y] /\ partial'[y] = partial[y]
  BY <1>1, <1>2, KindsDiffer DEF SInv, IInv, Typed
<1>7. Answers'
  <2>1. ASSUME NEW y \in ReleaseFile PROVE FileAnswered(y)'
    <3>1. FileAnswered(y)
      BY <1>5 DEF SInv, Answers
    <3>2. release'[y] = release[y] /\ published' = published /\ disturbed' = disturbed
      BY <1>1 DEF lists
    <3>3. CASE y = x
      BY <1>4, <1>6, <3>3, <3>2 DEF FileAnswered
    <3>4. CASE y # x
      BY <1>6, <3>1, <3>2, <3>4 DEF FileAnswered
    <3> QED BY <3>3, <3>4
  <2>2. ASSUME NEW c \in Distribution PROVE Answered(c)'
    <3>1. Answered(c) /\ Master(c)' = Master(c) /\ release' = release
      BY <1>1, <1>5 DEF SInv, Answers, lists, Master, NewerFirst
    <3>2. InRel(c) \in ReleaseFile /\ Rel(c) \in ReleaseFile /\ InRel(c) # Rel(c)
      BY ReleaseNames
    <3>3. CASE x = Rel(c)
      <4>1. kind = "Release" /\ c = d
        BY <1>2, <3>3 DEF Rel
      <4>2. settled[InRel(c)] = "error"
        BY <1>1, <1>5, <4>1 DEF OnItsWay
      <4> QED BY <1>6, <3>1, <3>2, <3>3, <4>2 DEF Answered
    <3>4. CASE x = InRel(c)
      BY <1>1, <1>6, <3>1, <3>2, <3>4 DEF Answered
    <3>5. CASE x \notin {Rel(c), InRel(c)}
      BY <1>6, <3>1, <3>2, <3>5 DEF Answered
    <3> QED BY <3>3, <3>4, <3>5
  <2> QED BY <2>1, <2>2 DEF Answers
<1>8. ASSUME NEW g \in Entry PROVE OnItsWay(g)'
  <2>1. \A y \in ReleaseFile : settled[y] \in {"ok", "error"} => settled'[y] = settled[y]
    BY <1>1, <1>6
  <2>2. Master(DistributionOf[g])' = Master(DistributionOf[g])
    BY <1>1 DEF lists, Master, NewerFirst
  <2>3. OnItsWay(g)
    BY DEF SInv, Threads
  <2> QED BY <1>1, <2>1, <2>2, <2>3, OthersGoOn DEF lists
<1>9. Threads'
  BY <1>1, <1>8 DEF SInv, Threads
<1> QED BY <1>3, <1>5, <1>7, <1>9 DEF SInv, SuccessMeansCurrent

\* A release file is replaced when no file of its distribution counts yet, or
\* by the signature, which does not count.
LEMMA ReleaseSettlesOn ==
  ASSUME SInv, NEW x \in ReleaseFile, ReleaseSettles(x)
  PROVE  SInv'
<1>1. /\ run = "running" /\ settled[x] = "active"
      /\ partial' = [partial EXCEPT ![x] = None]
      /\ UNCHANGED <<published, run, configured, pc, item, variant, succeeded>>
      /\ ~disturbed' => ~disturbed
      /\ \/ x \in Offered /\ DownloadedRelease(x)
         \/ settled' = [settled EXCEPT ![x] = "error"] /\ UNCHANGED lists
  BY DEF ReleaseSettles, DownloadedRelease, thread, Fail, NoFailure
<1>2. IInv'
  BY ReleaseSettlesKeeps DEF SInv
<1>3. /\ settled'[x] \in {"ok", "error"}
      /\ \A y \in ReleaseFile \ {x} : settled'[y] = settled[y] /\ partial'[y] = partial[y]
  BY <1>1, KindsDiffer DEF DownloadedRelease, SInv, IInv, Typed
<1>4. \/ settled'[x] = "error"
      \/ release'[x] \in Release /\ (~disturbed' => release'[x] = published')
  <2>1. FileAnswered(x)
    BY <1>1 DEF SInv, Answers
  <2>2. x \in Offered => partial[x] \in Release
    BY <1>1 DEF SInv, IInv, Unbroken
  <2>3. release \in [ReleaseFile -> Release \cup {None}]
    BY DEF SInv, IInv, Typed
  <2>4. CASE x \in Offered /\ DownloadedRelease(x)
    <3>1. release'[x] = partial[x]
      BY <2>3, <2>4 DEF DownloadedRelease
    <3> QED BY <1>1, <2>1, <2>2, <2>4, <3>1 DEF FileAnswered
  <2>5. CASE settled' = [settled EXCEPT ![x] = "error"]
    BY <2>5 DEF SInv, IInv, Typed
  <2> QED BY <1>1, <2>4, <2>5
<1>5. /\ UNCHANGED index
      /\ \A y \in ReleaseFile \ {x} : release'[y] = release[y]
      /\ \A c \in Distribution : newest'[c] # newest[c] => x[2] = c /\ x[1] # "Release.gpg"
  BY <1>1 DEF DownloadedRelease, lists, SInv, IInv, Typed
<1>6. ASSUME NEW c \in Distribution, settled'[x] = "ok", x \in {InRel(c), Rel(c)}
      PROVE  Master(c)' = release'[x]
  <2>1. InRel(c) \in ReleaseFile /\ Rel(c) \in ReleaseFile
    BY ReleaseNames
  <2>2. /\ x \in Offered /\ DownloadedRelease(x)
        /\ partial[x] \in Release
    BY <1>1, <1>6 DEF SInv, IInv, Typed, Unbroken
  <2>3. x[1] # "Release.gpg" /\ x[2] = c /\ x = <<x[1], c>>
    BY <1>6 DEF InRel, Rel
  <2>4. release' = [release EXCEPT ![x] = partial[x]]
    BY <2>2 DEF DownloadedRelease
  <2>5. PICK kind \in MayBeNewer(x) : newest' = [newest EXCEPT ![c] = kind]
    BY <2>2, <2>3 DEF DownloadedRelease
  <2>6. kind \in {"InRelease", "Release"} /\ <<kind, c>> \in ReleaseFile
    BY <1>6, <2>1 DEF MayBeNewer, InRel, Rel, ReleaseFile, ReleaseKind
  <2>7. release'[<<kind, c>>] = partial[x] /\ release'[x] = partial[x] /\ newest'[c] = kind
    BY <2>3, <2>4, <2>5, <2>6 DEF MayBeNewer, SInv, IInv, Typed
  <2>8. partial[x] # None
    BY <2>2 DEF None, Release
  <2> QED BY <2>7, <2>8 DEF Master, NewerFirst
<1>7. ASSUME NEW c \in Distribution
      PROVE  /\ Answered(c)'
             /\ HasMaster(c) => Master(c)' = Master(c)
  <2>1. Answered(c)
    BY <1>1 DEF SInv, Answers
  <2>2. InRel(c) \in ReleaseFile /\ Rel(c) \in ReleaseFile /\ InRel(c) # Rel(c)
    BY ReleaseNames
  <2>3. CASE x = InRel(c)
    <3>1. settled[Rel(c)] = "none" /\ ~HasMaster(c)
      BY <1>1, <2>1, <2>3 DEF Answered, HasMaster
    <3>2. settled'[Rel(c)] = "none"
      BY <1>3, <2>2, <2>3, <3>1
    <3>3. settled'[x] = "ok" => Master(c)' = release'[x]
      BY <1>6, <2>3
    <3> QED BY <2>3, <3>1, <3>2, <3>3 DEF Answered
  <2>4. CASE x = Rel(c)
    <3>1. settled[InRel(c)] = "error" /\ settled'[InRel(c)] = "error"
      BY <1>1, <1>3, <2>1, <2>2, <2>4 DEF Answered
    <3>2. settled'[x] = "ok" => Master(c)' = release'[x]
      BY <1>6, <2>4
    <3> QED BY <1>1, <2>4, <3>1, <3>2 DEF Answered, HasMaster
  <2>5. CASE x \notin {InRel(c), Rel(c)}
    <3>1. newest'[c] = newest[c]
      BY <1>5, <2>5, KindsDiffer DEF InRel, Rel, ReleaseFile, ReleaseKind
    <3>2. release'[InRel(c)] = release[InRel(c)] /\ release'[Rel(c)] = release[Rel(c)]
      BY <1>5, <2>2, <2>5
    <3>3. newest[c] \in {"InRelease", "Release"}
      BY DEF SInv, IInv, Typed
    <3>4. Master(c)' = Master(c)
      BY <3>1, <3>2, <3>3 DEF Master, NewerFirst, InRel, Rel
    <3> QED BY <1>3, <2>1, <2>2, <2>5, <3>2, <3>4 DEF Answered
  <2> QED BY <2>3, <2>4, <2>5
<1>8. ASSUME NEW y \in ReleaseFile PROVE FileAnswered(y)'
  <2>1. FileAnswered(y)
    BY <1>1 DEF SInv, Answers
  <2>2. CASE y = x
    BY <1>3, <1>4, <2>2 DEF FileAnswered
  <2>3. CASE y # x
    BY <1>1, <1>3, <1>5, <2>1, <2>3 DEF FileAnswered
  <2> QED BY <2>2, <2>3
<1>9. ASSUME NEW g \in Entry PROVE OnItsWay(g)'
  <2>1. \A y \in ReleaseFile : settled[y] \in {"ok", "error"} => settled'[y] = settled[y]
    BY <1>1, <1>3
  <2>2. OnItsWay(g) /\ DistributionOf[g] \in Distribution
    BY EntryNames DEF SInv, Threads
  <2> QED BY <1>1, <1>5, <1>7, <2>1, <2>2, OthersGoOn
<1>10. Answers' /\ Threads'
  BY <1>1, <1>7, <1>8, <1>9 DEF Answers, SInv, Threads
<1> QED BY <1>1, <1>2, <1>10 DEF SInv, SuccessMeansCurrent

-----------------------------------------------------------------------------
(* Steps at indexes                                                        *)

AtFiles == {"index"} \cup AtIndexes

\* Another entry's main index is another file.
LEMMA MainsApart ==
  ASSUME NEW e \in Entry, NEW g \in Entry \ {e}, item[e] \in DOMAIN FilesOf[e]
  PROVE  CurrentFile(e) # Main(g)
<1>1. 1 \in DOMAIN FilesOf[g]
  BY EntryNames
<1> QED BY <1>1, UpdateAssumption DEF CurrentFile, Main

\* A thread at a file has a release file, and it keeps it.
LEMMA AtFile ==
  ASSUME SInv, NEW e \in Entry, pc[e] \in AtFiles, Local(e)
  PROVE  /\ pc[e] # "idle" /\ run' = "running"
         /\ item[e] \in DOMAIN FilesOf[e] /\ item[e] \in Nat \ {0}
         /\ HasMaster(DistributionOf[e]) /\ HasMaster(DistributionOf[e])'
         /\ Master(DistributionOf[e])' = Master(DistributionOf[e])
         /\ (index'[Main(e)] = index[Main(e)] /\ item[e] # 1) => MainIsCurrent(e)'
<1>1. OnItsWay(e) /\ item[e] \in Nat \ {0}
  BY DEF SInv, Threads
<1>2. pc[e] # "idle" /\ pc[e] \in {"index"} \cup AtIndexes
  BY DEF AtFiles, AtIndexes
<1>3. HasMaster(DistributionOf[e]) => HasMaster(DistributionOf[e])'
  BY DEF Local, HasMaster
<1>4. Master(DistributionOf[e])' = Master(DistributionOf[e])
  BY DEF Local, Master, NewerFirst
<1> QED BY <1>1, <1>2, <1>3, <1>4 DEF OnItsWay, MainIsCurrent, Local

LEMMA NextFileOn ==
  ASSUME SInv, NEW e \in Entry, pc[e] \in AtFiles, Local(e),
         NextFile(e), UNCHANGED succeeded, MainIsCurrent(e)'
  PROVE  OnItsWay(e)'
<1>1. /\ item' = [item EXCEPT ![e] = @ + 1]
      /\ variant' = [variant EXCEPT ![e] = 1]
      /\ pc' = [pc EXCEPT ![e] = IF item[e] < Len(FilesOf[e]) THEN "index" ELSE "index of index"]
  BY DEF NextFile, Goto
<1>2. item[e] \in DOMAIN FilesOf[e] /\ item[e] \in Nat \ {0}
      /\ HasMaster(DistributionOf[e])' /\ run' = "running"
  BY AtFile
<1>3. DOMAIN FilesOf[e] = 1..Len(FilesOf[e]) /\ Len(FilesOf[e]) \in Nat
  BY EntryNames
<1>4. item'[e] = item[e] + 1 /\ item'[e] # 1
  <2>1. item \in [Entry -> Nat \ {0}]
    BY DEF SInv, Threads
  <2>2. item'[e] = item[e] + 1
    BY <1>1, <2>1
  <2> QED BY <1>2, <2>2
<1>5. \/ pc'[e] = "index" /\ item'[e] \in DOMAIN FilesOf[e]
      \/ pc'[e] = "index of index"
  <2>1. pc'[e] = IF item[e] < Len(FilesOf[e]) THEN "index" ELSE "index of index"
    BY <1>1 DEF SInv, IInv, Typed
  <2>2. item[e] < Len(FilesOf[e]) => item'[e] \in 1..Len(FilesOf[e])
    BY <1>2, <1>3, <1>4
  <2> QED BY <1>3, <2>1, <2>2
<1> QED BY <1>2, <1>4, <1>5 DEF OnItsWay, AtReleases, AtIndexes

\* A step from variant to variant of one file.
LEMMA SameFileOn ==
  ASSUME SInv, NEW e \in Entry, pc[e] \in AtFiles, Local(e), index'[Main(e)] = index[Main(e)],
         item'[e] = item[e], pc'[e] \in AtIndexes
  PROVE  OnItsWay(e)'
<1>1. pc'[e] \notin AtReleases \cup AtEnd
  BY DEF AtReleases, AtEnd, AtIndexes
<1>2. pc'[e] \notin {"hash Release", "Release", "Release.gpg"}
  BY <1>1 DEF AtReleases
<1> QED BY <1>1, <1>2, AtFile DEF OnItsWay

\* A thread which gives its main index up has not succeeded.
LEMMA GivesUpOn ==
  ASSUME SInv, NEW e \in Entry, pc[e] \in AtFiles, Local(e),
         item[e] = 1, item'[e] = 1, ~succeeded'[e], pc'[e] \in AtEnd
  PROVE  OnItsWay(e)'
<1>1. pc'[e] \notin AtReleases \cup {"index"} \cup AtIndexes
  BY DEF AtReleases, AtEnd, AtIndexes
<1>2. pc'[e] \notin {"hash Release", "Release", "Release.gpg"}
  BY <1>1 DEF AtReleases
<1> QED BY <1>1, <1>2, AtFile DEF OnItsWay

LEMMA NextVariantOn ==
  ASSUME SInv, NEW e \in Entry, pc[e] \in AtIndexes, Local(e),
         NextVariant(e), index'[Main(e)] = index[Main(e)]
  PROVE  OnItsWay(e)'
<1>1. pc[e] \in AtFiles /\ pc \in [Entry -> Place] /\ succeeded \in [Entry -> BOOLEAN]
  BY DEF AtFiles, SInv, IInv, Typed, Threads
<1>2. CASE variant[e] < Len(Variants)
  <2>1. pc'[e] = "variant" /\ item'[e] = item[e]
    BY <1>1, <1>2 DEF NextVariant, Goto
  <2> QED BY <1>1, <2>1, SameFileOn DEF AtIndexes
<1>3. CASE ~(variant[e] < Len(Variants)) /\ item[e] = 1
  <2>1. pc'[e] = "index of index" /\ item'[e] = 1 /\ ~succeeded'[e]
    BY <1>1, <1>3 DEF NextVariant, Goto
  <2> QED BY <1>1, <1>3, <2>1, GivesUpOn DEF AtEnd
<1>4. CASE ~(variant[e] < Len(Variants)) /\ item[e] # 1
  BY <1>1, <1>4, NextFileOn, AtFile DEF NextVariant
<1> QED BY <1>2, <1>3, <1>4

-----------------------------------------------------------------------------
(* Steps at indexes are local                                              *)

\* NextVariant and NextFile touch the thread's own position only.
LEMMA NextIsLocal ==
  ASSUME SInv, NEW e \in Entry, NextVariant(e) \/ (NextFile(e) /\ UNCHANGED succeeded)
  PROVE  /\ item' \in [Entry -> Nat \ {0}] /\ succeeded' \in [Entry -> BOOLEAN]
         /\ \A g \in Entry \ {e} :
              /\ pc'[g] = pc[g] /\ item'[g] = item[g]
              /\ variant'[g] = variant[g] /\ succeeded'[g] = succeeded[g]
<1>1. /\ pc \in [Entry -> Place] /\ variant \in [Entry -> DOMAIN Variants]
      /\ item \in [Entry -> Nat \ {0}] /\ succeeded \in [Entry -> BOOLEAN]
  BY DEF SInv, IInv, Typed, Threads
<1>2. CASE NextFile(e) /\ UNCHANGED succeeded
  <2>1. item[e] + 1 \in Nat \ {0}
    BY <1>1
  <2>2. item' = [item EXCEPT ![e] = item[e] + 1] /\ variant' = [variant EXCEPT ![e] = 1]
    BY <1>2 DEF NextFile
  <2>3. \A g \in Entry \ {e} : pc'[g] = pc[g]
    BY <1>1, <1>2 DEF NextFile, Goto
  <2> QED BY <1>1, <1>2, <2>1, <2>2, <2>3
<1>3. CASE NextVariant(e)
  <2>1. CASE NextFile(e) /\ UNCHANGED succeeded
    BY <1>2, <2>1
  <2>2. CASE /\ variant' = [variant EXCEPT ![e] = @ + 1]
             /\ Goto(e, "variant") /\ UNCHANGED <<item, succeeded>>
    BY <1>1, <2>2 DEF Goto
  <2>3. CASE /\ succeeded' = [succeeded EXCEPT ![e] = FALSE]
             /\ Goto(e, "index of index") /\ UNCHANGED <<item, variant>>
    BY <1>1, <2>3 DEF Goto
  <2> QED BY <1>3, <2>1, <2>2, <2>3 DEF NextVariant
<1> QED BY <1>2, <1>3

\* A partial file of an index is none of a release file.
LEMMA IndexPartial ==
  ASSUME SInv, NEW e \in Entry, NEW n,
         partial' = [partial EXCEPT ![Path(e)] = n] \/ UNCHANGED partial
  PROVE  \A x \in ReleaseFile : partial'[x] = partial[x]
<1>1. Path(e) \notin ReleaseFile /\ ReleaseFile \subseteq Partial
  BY KindsDiffer DEF SInv, IInv
<1> QED BY <1>1 DEF SInv, IInv, Typed

LEMMA UpdateIndexOn ==
  ASSUME SInv, NEW e \in Entry, UpdateIndex(e)
  PROVE  SInv'
<1>1. /\ pc[e] = "index" /\ pc[e] \in AtFiles
      /\ UNCHANGED <<published, lists, partial, run, configured, settled, disturbed>>
  BY DEF UpdateIndex, AtFiles
<1>2. IInv'
  BY UpdateIndexKeeps DEF SInv
<1>3. OnItsWay(e) /\ run = "running" /\ HasMaster(DistributionOf[e])
  BY <1>1 DEF SInv, Threads, OnItsWay
<1>4. Master(DistributionOf[e]) \in 1..MaxRelease
  BY <1>3, MasterIsRight, EntryNames DEF SInv, Release
<1>5. UNCHANGED succeeded
  BY <1>4 DEF UpdateIndex
<1>6. CASE Unchanged(e)
  <2>1. NextFile(e)
    BY <1>4, <1>6 DEF UpdateIndex
  <2>2. Local(e)
    BY <1>1, <1>5, <2>1, NextIsLocal DEF Local, lists
  <2>3. item[e] = 1 => MainIsCurrent(e)
    BY <1>6 DEF Unchanged, CurrentFile, Wanted, MainIsCurrent, Main
  <2>4. MainIsCurrent(e)'
    BY <1>1, <2>2, <2>3, AtFile DEF MainIsCurrent, lists
  <2> QED BY <1>1, <1>2, <1>5, <2>1, <2>2, <2>4, NextFileOn, LocalKeeps
<1>7. CASE ~Unchanged(e)
  <2>1. pc' = [pc EXCEPT ![e] = "variant"] /\ UNCHANGED <<item, variant>>
    BY <1>4, <1>7 DEF UpdateIndex, Goto
  <2>2. Local(e)
    BY <1>1, <1>5, <2>1 DEF Local, lists, SInv, IInv, Typed, Threads
  <2>3. pc'[e] \in AtIndexes
    BY <2>1 DEF AtIndexes, SInv, IInv, Typed
  <2> QED BY <1>1, <1>2, <2>1, <2>2, <2>3, SameFileOn, LocalKeeps DEF lists
<1> QED BY <1>6, <1>7

\* The variant does not do: it is not applicable, not there, or not the file.
LEMMA VariantFailsOn ==
  ASSUME SInv, NEW e \in Entry, pc[e] \in AtIndexes, NextVariant(e), IInv', NEW n,
         UNCHANGED <<published, lists, run, configured, settled>>,
         ~disturbed' => ~disturbed,
         partial' = [partial EXCEPT ![Path(e)] = n] \/ UNCHANGED partial
  PROVE  SInv'
<1>1. Local(e)
  BY NextIsLocal, IndexPartial DEF Local, lists
<1>2. pc[e] # "idle" /\ index' = index
  BY DEF AtIndexes, lists
<1> QED BY <1>1, <1>2, NextVariantOn, LocalKeeps

\* The variant does: the main index is that of the release file, whether this
\* was the main index or, after it, a translation.
LEMMA VariantDoesOn ==
  ASSUME SInv, NEW e \in Entry, pc[e] \in AtIndexes, NextFile(e), UNCHANGED succeeded, IInv',
         UNCHANGED <<published, release, newest, run, configured, settled, disturbed>>,
         partial' = [partial EXCEPT ![Path(e)] = None],
         index' = [index EXCEPT ![CurrentFile(e)] = Wanted(e)]
  PROVE  SInv'
<1>1. OnItsWay(e) /\ pc[e] \in AtFiles /\ pc[e] # "idle" /\ item[e] \in DOMAIN FilesOf[e]
  BY DEF SInv, Threads, OnItsWay, AtFiles, AtIndexes
<1>2. \A g \in Entry \ {e} : index'[Main(g)] = index[Main(g)]
  BY <1>1, MainsApart, EntryNames DEF SInv, IInv, Typed
<1>3. Local(e)
  BY <1>2, NextIsLocal, IndexPartial DEF Local
<1>4. MainIsCurrent(e)'
  <2>1. Main(e) \in File /\ index \in [File -> Release \cup {None}]
    BY EntryNames DEF SInv, IInv, Typed
  <2>2. Master(DistributionOf[e])' = Master(DistributionOf[e])
    BY <1>1, <1>3, AtFile
  <2>3. CASE CurrentFile(e) = Main(e)
    BY <2>1, <2>2, <2>3 DEF Wanted, MainIsCurrent
  <2>4. CASE CurrentFile(e) # Main(e)
    <3>1. item[e] # 1 /\ index'[Main(e)] = index[Main(e)]
      BY <2>1, <2>4 DEF CurrentFile, Main
    <3> QED BY <1>1, <1>3, <3>1, AtFile
  <2> QED BY <2>3, <2>4
<1> QED BY <1>1, <1>3, <1>4, NextFileOn, LocalKeeps

LEMMA SameVariantOn ==
  ASSUME SInv, NEW e \in Entry, pc[e] \in AtIndexes, IInv', NEW n,
         NEW where \in AtIndexes, pc' = [pc EXCEPT ![e] = where],
         UNCHANGED <<published, lists, run, configured, settled, item, variant, succeeded,
                     disturbed>>,
         partial' = [partial EXCEPT ![Path(e)] = n] \/ UNCHANGED partial
  PROVE  SInv'
<1>1. Local(e)
  BY IndexPartial DEF Local, lists, SInv, IInv, Typed, Threads
<1>2. pc[e] # "idle" /\ pc[e] \in AtFiles /\ pc'[e] \in AtIndexes /\ index' = index
  BY DEF AtIndexes, AtFiles, lists, SInv, IInv, Typed
<1> QED BY <1>1, <1>2, SameFileOn, LocalKeeps

LEMMA GenerateIndexOfIndexOn ==
  ASSUME SInv, NEW e \in Entry, GenerateIndexOfIndex(e)
  PROVE  SInv'
<1>1. /\ pc[e] = "index of index" /\ pc' = [pc EXCEPT ![e] = "done"]
      /\ UNCHANGED <<published, release, newest, index, partial, run, configured, settled,
                     item, variant, succeeded, disturbed>>
  BY DEF GenerateIndexOfIndex, Goto
<1>2. Local(e)
  BY <1>1 DEF Local, SInv, IInv, Typed, Threads
<1>3. Master(DistributionOf[e])' = Master(DistributionOf[e])
  BY <1>1 DEF Master, NewerFirst
<1>4. OnItsWay(e) /\ pc'[e] = "done"
  BY <1>1 DEF SInv, IInv, Typed, Threads
<1>5. HasMaster(DistributionOf[e]) => HasMaster(DistributionOf[e])'
  BY <1>1 DEF HasMaster
<1>6. MainIsCurrent(e) => MainIsCurrent(e)'
  BY <1>1, <1>3 DEF MainIsCurrent
<1>7. OnItsWay(e)'
  BY <1>1, <1>4, <1>5, <1>6 DEF OnItsWay, AtReleases, AtIndexes, AtEnd
<1> QED BY <1>1, <1>2, <1>7, LocalKeeps, GenerateIndexOfIndexKeeps DEF SInv

-----------------------------------------------------------------------------
(* Runs, and the theorem about success                                     *)

LEMMA ThreadStepOn ==
  ASSUME SInv, NEW e \in Entry, ThreadStep(e)
  PROVE  SInv'
<1>1. CASE \E kind \in {"InRelease", "Release"} : HashRelease(e, kind)
  BY <1>1, HashReleaseOn
<1>2. CASE \E kind \in ReleaseKind : RequestRelease(e, kind) \/ ReleaseAnswered(e, kind)
  BY <1>2, RequestReleaseOn, ReleaseAnsweredOn
<1>3. CASE UpdateIndex(e)
  BY <1>3, UpdateIndexOn
<1>4. CASE SkipVariant(e)
  BY <1>4, VariantFailsOn, SkipVariantKeeps DEF SkipVariant, SInv, AtIndexes
<1>5. CASE RequestIndex(e)
  <2>1. IInv' /\ pc[e] \in AtIndexes /\ "fetch" \in AtIndexes
    BY <1>5, RequestIndexKeeps DEF SInv, RequestIndex, AtIndexes
  <2>2. pc' = [pc EXCEPT ![e] = "fetch"]
        /\ UNCHANGED <<published, lists, run, configured, settled, item, variant, succeeded,
                       disturbed>>
    BY <1>5 DEF RequestIndex, Goto
  <2>3. \E n : partial' = [partial EXCEPT ![Path(e)] = n]
    BY <1>5 DEF RequestIndex
  <2> QED BY <2>1, <2>2, <2>3, SameVariantOn
<1>6. CASE IndexDownloadFails(e)
  <2>1. IInv' /\ pc[e] \in AtIndexes
    BY <1>6, IndexDownloadFailsKeeps DEF SInv, IndexDownloadFails, AtIndexes
  <2>2. /\ NextVariant(e) /\ UNCHANGED <<published, lists, run, configured, settled>>
        /\ partial' = [partial EXCEPT ![Path(e)] = None] \/ UNCHANGED partial
        /\ ~disturbed' => ~disturbed
    BY <1>6 DEF IndexDownloadFails, Fail, NoFailure
  <2> QED BY <2>1, <2>2, VariantFailsOn
<1>7. CASE HashSumsMismatch(e)
  <2>1. IInv' /\ pc[e] \in AtIndexes
    BY <1>7, HashSumsMismatchKeeps DEF SInv, HashSumsMismatch, AtIndexes
  <2> QED BY <1>7, <2>1, VariantFailsOn DEF HashSumsMismatch, MismatchRemoved
<1>8. CASE IndexDownloaded(e)
  <2>1. IInv' /\ pc[e] \in AtIndexes
    BY <1>8, IndexDownloadedKeeps DEF SInv, IndexDownloaded, AtIndexes
  <2> QED BY <1>8, <2>1, VariantDoesOn DEF IndexDownloaded, ReplaceIndex
<1>9. CASE DiffIndexDownloaded(e)
  <2>1. IInv' /\ pc[e] \in AtIndexes /\ "patch" \in AtIndexes
    BY <1>9, DiffIndexDownloadedKeeps DEF SInv, DiffIndexDownloaded, AtIndexes
  <2> QED BY <1>9, <2>1, SameVariantOn DEF DiffIndexDownloaded, Goto
<1>10. CASE PatchIndex(e)
  <2>1. IInv' /\ pc[e] \in AtIndexes
    BY <1>10, PatchIndexKeeps DEF SInv, PatchIndex, AtIndexes
  <2>2. /\ UNCHANGED <<published, run, configured, settled>>
        /\ partial' = [partial EXCEPT ![Path(e)] = None]
        /\ \/ /\ index' = [index EXCEPT ![CurrentFile(e)] = Wanted(e)]
              /\ NextFile(e)
              /\ UNCHANGED <<release, newest, succeeded, disturbed>>
           \/ NextVariant(e) /\ UNCHANGED lists /\ (~disturbed' => ~disturbed)
    BY <1>10 DEF PatchIndex, Fail, NoFailure
  <2> QED BY <2>1, <2>2, VariantDoesOn, VariantFailsOn
<1>11. CASE GenerateIndexOfIndex(e)
  BY <1>11, GenerateIndexOfIndexOn
<1> QED
  BY <1>1, <1>2, <1>3, <1>4, <1>5, <1>6, <1>7, <1>8, <1>9, <1>10, <1>11 DEF ThreadStep

\* When nobody runs, nothing is said but of the last run.
LEMMA StoppedOn ==
  ASSUME IInv', Threads, run' # "running", pc' = Idle("idle"), SuccessMeansCurrent',
         configured' = configured, item' = item, succeeded' = succeeded
  PROVE  SInv'
<1>1. \A e \in Entry : OnItsWay(e)'
  BY DEF OnItsWay, Idle, AtReleases, AtIndexes, AtEnd
<1> QED BY <1>1 DEF SInv, Answers, Threads

\* The cleanup keeps what the configured entries use.
LEMMA CleanupKeeps ==
  ASSUME IInv, ListCleanup, NEW e \in configured, configured \subseteq Entry
  PROVE  /\ Master(DistributionOf[e])' = Master(DistributionOf[e])
         /\ index'[Main(e)] = index[Main(e)]
<1> DEFINE d == DistributionOf[e]
<1>1. d \in Distribution /\ Main(e) \in File /\ Main(e) \in FileSet(e)
  BY EntryNames DEF FileSet, Main
<1>2. InRel(d) \in UsedReleases /\ Rel(d) \in UsedReleases
  BY DEF InRel, Rel, UsedReleases, ReleaseKind
<1>3. Main(e) \in UsedFiles
  BY <1>1 DEF UsedFiles
<1>4. /\ release'[InRel(d)] = release[InRel(d)] /\ release'[Rel(d)] = release[Rel(d)]
      /\ newest' = newest /\ index'[Main(e)] = index[Main(e)]
  BY <1>1, <1>2, <1>3, ReleaseNames DEF ListCleanup, Keep, lists, IInv, Typed
<1>5. newest[d] \in {"InRelease", "Release"}
  BY <1>1 DEF IInv, Typed
<1> QED BY <1>4, <1>5 DEF Master, NewerFirst, InRel, Rel

LEMMA FinishOn == SInv /\ Finish => SInv'
<1> SUFFICES ASSUME SInv, Finish PROVE SInv'
  OBVIOUS
<1>1. /\ run = "running" /\ \A e \in configured : pc[e] = "done"
      /\ ListCleanup /\ pc' = Idle("idle")
      /\ run' = IF \A e \in configured : succeeded[e] THEN "succeeded" ELSE "failed"
      /\ UNCHANGED <<published, partial, configured, settled, item, variant, succeeded, disturbed>>
  BY DEF Finish
<1>2. IInv'
  BY <1>1, EndKeeps DEF SInv
<1>3. ASSUME run' = "succeeded", NEW e \in configured
      PROVE  /\ Master(DistributionOf[e])' \in 1..MaxRelease
             /\ index'[FilesOf[e][1]] = Content[FilesOf[e][1]][Master(DistributionOf[e])']
             /\ ~disturbed' => Master(DistributionOf[e])' = published'
  <2>1. e \in Entry /\ OnItsWay(e) /\ pc[e] = "done" /\ succeeded[e]
    BY <1>1, <1>3 DEF SInv, Threads
  <2>2. HasMaster(DistributionOf[e]) /\ MainIsCurrent(e)
    BY <2>1 DEF OnItsWay, AtEnd
  <2>3. Master(DistributionOf[e]) \in Release
        /\ (~disturbed => Master(DistributionOf[e]) = published)
    BY <1>1, <2>1, <2>2, MasterIsRight, EntryNames DEF SInv
  <2>4. Master(DistributionOf[e])' = Master(DistributionOf[e])
        /\ index'[Main(e)] = index[Main(e)]
    BY <1>1, CleanupKeeps DEF SInv, Threads
  <2> QED BY <1>1, <2>2, <2>3, <2>4 DEF MainIsCurrent, Main, Release
<1>4. SuccessMeansCurrent'
  BY <1>1, <1>3 DEF SuccessMeansCurrent
<1>5. run' # "running"
  BY <1>1
<1> QED BY <1>1, <1>2, <1>4, <1>5, StoppedOn DEF SInv

LEMMA KillOn == SInv /\ Kill => SInv'
<1> SUFFICES ASSUME SInv, Kill PROVE SInv'
  OBVIOUS
<1>1. /\ run' = "killed" /\ pc' = Idle("idle")
      /\ UNCHANGED <<published, lists, partial, configured, settled, item, variant, succeeded>>
  BY DEF Kill
<1>2. IInv'
  BY <1>1, EndKeeps DEF SInv
<1> QED BY <1>1, <1>2, StoppedOn DEF SInv, SuccessMeansCurrent

LEMMA StartOn == SInv /\ Start => SInv'
<1> SUFFICES ASSUME SInv, Start PROVE SInv'
  OBVIOUS
<1>1. /\ run' = "running" /\ configured' \in Sources
      /\ settled' = [x \in ReleaseFile |-> "none"]
      /\ pc' = [e \in Entry |-> IF e \in configured' THEN "hash InRelease" ELSE "idle"]
      /\ item' = Idle(1) /\ variant' = Idle(1) /\ succeeded' = Idle(TRUE)
  BY DEF Start
<1>2. IInv'
  BY StartKeeps DEF SInv
<1>3. Answers'
  BY <1>1, ReleaseNames DEF Answers, FileAnswered, Answered
<1>4. \A e \in Entry : OnItsWay(e)'
  BY <1>1 DEF OnItsWay, Idle, AtReleases, AtIndexes, AtEnd
<1>5. Threads'
  <2>1. configured' \subseteq Entry
    BY <1>1, UpdateAssumption
  <2>2. item' \in [Entry -> Nat \ {0}] /\ succeeded' \in [Entry -> BOOLEAN]
    <3>1. 1 \in Nat \ {0} /\ TRUE \in BOOLEAN
      OBVIOUS
    <3> QED BY <1>1, <3>1, Zenon DEF Idle
  <2> QED BY <1>4, <2>1, <2>2 DEF Threads
<1> QED BY <1>1, <1>2, <1>3, <1>5 DEF SInv, SuccessMeansCurrent

\* What happens elsewhere disturbs the run.
LEMMA ElsewhereOn ==
  ASSUME SInv, IInv', disturbed',
         UNCHANGED <<lists, partial, configured, settled, pc, item, variant, succeeded>>,
         run' = run \/ (run # "running" /\ run' = "failed")
  PROVE  SInv'
<1>1. \A d : Master(d)' = Master(d)
  BY DEF lists, Master, NewerFirst
<1>2. Answers'
  BY <1>1 DEF SInv, Answers, FileAnswered, Answered, lists
<1>3. ASSUME NEW e \in Entry PROVE OnItsWay(e)'
  <2>1. OnItsWay(e)
    BY DEF SInv, Threads
  <2>2. CASE run' = run
    BY <1>1, <2>1, <2>2, OthersGoOn DEF lists
  <2>3. CASE run # "running"
    BY <2>1, <2>3 DEF OnItsWay, AtReleases, AtIndexes, AtEnd
  <2> QED BY <2>2, <2>3
<1>4. Threads'
  BY <1>3 DEF SInv, Threads
<1>5. SuccessMeansCurrent'
  BY <1>1 DEF SInv, SuccessMeansCurrent, lists
<1> QED BY <1>2, <1>4, <1>5 DEF SInv

LEMMA InitOn == Init => SInv
<1> SUFFICES ASSUME Init PROVE SInv
  OBVIOUS
<1>1. /\ run = "idle" /\ pc = Idle("idle") /\ configured = {}
      /\ item = Idle(1) /\ succeeded = Idle(TRUE)
  BY DEF Init
<1>2. \A e \in Entry : OnItsWay(e)
  BY <1>1 DEF OnItsWay, Idle, AtReleases, AtIndexes, AtEnd
<1>3. Threads
  BY <1>1, <1>2 DEF Threads, Idle
<1> QED BY <1>1, <1>3, InitKeeps DEF SInv, Answers, SuccessMeansCurrent

LEMMA NextOn == SInv /\ [Next]_vars => SInv'
<1> SUFFICES ASSUME SInv, [Next]_vars PROVE SInv'
  OBVIOUS
<1>1. IInv'
  BY NextKeeps DEF SInv
<1>2. CASE Start
  BY <1>2, StartOn
<1>3. CASE PreparationFails
  BY <1>1, <1>3, ElsewhereOn DEF PreparationFails, Fail, Stopped, thread
<1>4. CASE \E e \in Entry : ThreadStep(e)
  BY <1>4, ThreadStepOn
<1>5. CASE \E x \in ReleaseFile : ReleaseSettles(x)
  BY <1>5, ReleaseSettlesOn
<1>6. CASE Finish
  BY <1>6, FinishOn
<1>7. CASE Kill
  BY <1>7, KillOn
<1>8. CASE Publish
  BY <1>1, <1>8, ElsewhereOn DEF Publish, thread
<1>9. CASE UNCHANGED vars
  <2>1. \A d : Master(d)' = Master(d) /\ HasMaster(d)' = HasMaster(d)
    BY <1>9 DEF vars, lists, Master, NewerFirst, HasMaster
  <2>2. Answers'
    BY <1>9, <2>1 DEF SInv, Answers, FileAnswered, Answered, vars, lists
  <2>3. \A e \in Entry : OnItsWay(e)'
    <3> SUFFICES ASSUME NEW e \in Entry PROVE OnItsWay(e)'
      OBVIOUS
    <3>1. OnItsWay(e)
      BY DEF SInv, Threads
    <3> QED BY <1>9, <2>1, <3>1, OthersGoOn DEF vars, lists, thread
  <2>4. Threads' /\ SuccessMeansCurrent'
    BY <1>9, <2>1, <2>3 DEF SInv, Threads, SuccessMeansCurrent, vars, lists, thread
  <2> QED BY <1>1, <2>2, <2>4 DEF SInv
<1> QED BY <1>2, <1>3, <1>4, <1>5, <1>6, <1>7, <1>8, <1>9 DEF Next

\* An update which reports success leaves, for every configured entry, a main
\* index which is that of the release file the cache will use; if nothing failed
\* meanwhile and nothing was published, it is the newest one
\* (MetadataWorker::p_metadataUpdateThread, __update_release_and_index_data).
THEOREM SuccessIsCurrent == Spec => []SuccessMeansCurrent
<1>1. SInv => SuccessMeansCurrent
  BY DEF SInv
<1> QED BY <1>1, InitOn, NextOn, PTL DEF Spec

-----------------------------------------------------------------------------
(* The invariant for failure                                               *)

\* What a main index is in the newest release.
Newest(e) == Content[Main(e)][published]
IsNewest(e) == index[Main(e)] = Newest(e)
PlainListed == \E i \in DOMAIN Variants : Variants[i] = "plain"

\* A download which resumes this partial file gives what the release file says.
CleanPartial(e, i) == partial[<<Variants[i], Main(e)>>] \in {None, Newest(e)}

\* This variant cannot fail unless something goes wrong.
Sure(e, i) ==
  /\ <<Variants[i], Main(e)>> \in Offered
  /\ CleanPartial(e, i)
  /\ Variants[i] = "diff" => IsNewest(e) /\ "diffs" \in options

Ready(e) ==
  \/ IsNewest(e) /\ PlainListed
  \/ \E i \in DOMAIN Variants : Sure(e, i)

\* The variants before this one have failed; that removed their partial files.
Tried(e) ==
  pc[e] \in AtIndexes /\ item[e] = 1 =>
    \A i \in 1..(variant[e] - 1) :
      Variants[i] # "diff" /\ <<Variants[i], Main(e)>> \in Offered => CleanPartial(e, i)

\* In the run after an undisturbed failure.
Certain(e) ==
  /\ Ready(e) /\ succeeded[e]
  /\ pc[e] \in AtIndexes /\ item[e] = 1 =>
       \E i \in variant[e]..Len(Variants) : Sure(e, i)

\* Something was fetched into the partial file; diffs are an option.
InPlace(e) ==
  /\ pc[e] = "fetch" /\ Path(e) \in Offered => partial[Path(e)] # None
  /\ pc[e] \in {"fetch", "patch"} /\ Kind(e) = "diff" => "diffs" \in options
  /\ pc[e] = "patch" => Kind(e) = "diff" /\ Path(e) \in Offered
  /\ pc[e] = "index" => variant[e] = 1
  /\ pc[e] # "idle" => e \in configured

\* A thread whose run nothing has disturbed.
Quiet(e) ==
  /\ Tried(e)
  /\ pc[e] \in AtEnd \/ (pc[e] # "idle" /\ item[e] # 1) => Ready(e)
  /\ run = "running" /\ failedBefore /\ e \in configured => Certain(e)

\* Only what the server does not have is refused.
Refused == run = "running" => \A x \in ReleaseFile : settled[x] = "error" => x \notin Offered

ReadyForNext == run = "failed" => \A e \in configured : Ready(e)

FInv ==
  /\ \A e \in Entry : InPlace(e)
  /\ ~disturbed => Refused /\ ReadyForNext /\ \A e \in Entry : Quiet(e)
  /\ FailsAtMostOnce

-----------------------------------------------------------------------------
(* What stays ready                                                        *)

LEMMA SomeContent ==
  ASSUME IInv, NEW f \in File
  PROVE  Content[f][published] \in Release /\ Content[f][published] # None
<1>1. published \in Release /\ Content[f] \in [Release -> Release]
  BY UpdateAssumption DEF IInv, Typed, Release
<1>2. Content[f][published] \in Release
  BY <1>1
<1>3. None \notin Release
  BY DEF None, Release
<1> QED BY <1>2, <1>3

LEMMA VariantNames ==
  /\ DOMAIN Variants = 1..Len(Variants) /\ Len(Variants) \in Nat \ {0}
  /\ \A i \in DOMAIN Variants : Variants[i] \in VariantKind
<1>1. Variants \in Seq(VariantKind) /\ Variants # <<>>
  BY UpdateAssumption
<1> QED BY <1>1

LEMMA MainPartials ==
  ASSUME NEW e \in Entry, NEW i \in DOMAIN Variants
  PROVE  <<Variants[i], Main(e)>> \in Partial \ ReleaseFile
BY VariantNames, EntryNames DEF Partial, ReleaseFile, VariantKind, ReleaseKind

Cleaner(e) == \A i \in DOMAIN Variants : CleanPartial(e, i) => CleanPartial(e, i)'

LEMMA StaysReady ==
  ASSUME NEW e \in Entry, options' = options, Cleaner(e), IsNewest(e) => IsNewest(e)'
  PROVE  /\ \A i \in DOMAIN Variants : Sure(e, i) => Sure(e, i)'
         /\ Ready(e) => Ready(e)'
<1>1. ASSUME NEW i \in DOMAIN Variants, Sure(e, i) PROVE Sure(e, i)'
  BY <1>1 DEF Sure, Cleaner
<1> QED BY <1>1 DEF Ready

\* Removing a partial file, or resuming one, leaves clean files clean.
LEMMA RemovedIsCleaner ==
  ASSUME IInv, NEW e \in Entry, published' = published, NEW p,
         partial' = [partial EXCEPT ![p] = None] \/ UNCHANGED partial
  PROVE  Cleaner(e)
<1>1. ASSUME NEW i \in DOMAIN Variants, CleanPartial(e, i) PROVE CleanPartial(e, i)'
  <2>1. <<Variants[i], Main(e)>> \in Partial /\ partial \in [Partial -> Int]
    BY MainPartials DEF IInv, Typed
  <2>2. partial'[<<Variants[i], Main(e)>>] \in {None, partial[<<Variants[i], Main(e)>>]}
    BY <2>1
  <2> QED BY <1>1, <2>2 DEF CleanPartial, Newest
<1> QED BY <1>1 DEF Cleaner

LEMMA QuietStays ==
  ASSUME NEW e \in Entry, Quiet(e), UNCHANGED <<options, run, failedBefore, configured>>,
         pc'[e] \in AtIndexes => pc[e] \in AtIndexes, pc'[e] \in AtEnd => pc[e] \in AtEnd,
         pc'[e] # "idle" => pc[e] # "idle", item'[e] = item[e], variant'[e] = variant[e],
         succeeded'[e] = succeeded[e], variant[e] \in DOMAIN Variants,
         Cleaner(e), IsNewest(e) => IsNewest(e)'
  PROVE  Quiet(e)'
<1>1. /\ \A i \in DOMAIN Variants : Sure(e, i) => Sure(e, i)'
      /\ Ready(e) => Ready(e)'
  BY StaysReady
<1>2. variant[e]..Len(Variants) \subseteq DOMAIN Variants
      /\ 1..(variant[e] - 1) \subseteq DOMAIN Variants
  BY VariantNames
<1>3. Tried(e)'
  BY <1>2 DEF Quiet, Tried, Cleaner
<1>4. Certain(e) => Certain(e)'
  BY <1>1, <1>2 DEF Certain
<1> QED BY <1>1, <1>3, <1>4 DEF Quiet

\* What the other threads see of a step of a thread.
Aside(e) ==
  /\ UNCHANGED <<published, run, configured, options, failedBefore>>
  /\ ~disturbed' => ~disturbed
  /\ \A x \in ReleaseFile : settled'[x] = "error" => settled[x] = "error"
  /\ \A g \in Entry \ {e} :
       /\ pc'[g] = pc[g] /\ item'[g] = item[g] /\ variant'[g] = variant[g]
       /\ succeeded'[g] = succeeded[g] /\ index'[Main(g)] = index[Main(g)]
       /\ \A i \in DOMAIN FilesOf[g], kind \in VariantKind :
            partial'[<<kind, FilesOf[g][i]>>] = partial[<<kind, FilesOf[g][i]>>]

LEMMA AsideKeeps ==
  ASSUME SInv, FInv, NEW e \in Entry, pc[e] # "idle", Aside(e), InPlace(e)',
         ~disturbed' => Quiet(e)'
  PROVE  FInv'
<1>1. run = "running" /\ run' = "running"
  BY DEF SInv, Threads, OnItsWay, Aside
<1>2. ASSUME NEW g \in Entry PROVE InPlace(g)'
  <2>1. CASE g = e
    BY <2>1
  <2>2. CASE g # e
    <3>1. InPlace(g) /\ Kind(g)' = Kind(g) /\ Path(g)' = Path(g)
      BY <2>2 DEF FInv, Aside, Kind, Path, CurrentFile
    <3>2. pc[g] = "fetch" => item[g] \in DOMAIN FilesOf[g] /\ Kind(g) \in VariantKind
      BY KindsDiffer DEF SInv, IInv, Threads, OnItsWay, AtIndexes
    <3>3. pc[g] = "fetch" => partial'[Path(g)] = partial[Path(g)]
      BY <2>2, <3>2 DEF Aside, Path, CurrentFile
    <3> QED BY <2>2, <3>1, <3>3 DEF Aside, InPlace
  <2> QED BY <2>1, <2>2
<1>3. ASSUME ~disturbed', NEW g \in Entry PROVE Quiet(g)'
  <2>1. CASE g = e
    BY <1>3, <2>1
  <2>2. CASE g # e
    <3>1. Quiet(g) /\ variant[g] \in DOMAIN Variants
      BY <1>3 DEF FInv, Aside, SInv, IInv, Typed
    <3>2. 1 \in DOMAIN FilesOf[g]
      BY EntryNames
    <3>3. ASSUME NEW i \in DOMAIN Variants, CleanPartial(g, i) PROVE CleanPartial(g, i)'
      <4>1. partial'[<<Variants[i], Main(g)>>] = partial[<<Variants[i], Main(g)>>]
        BY <2>2, <3>2, VariantNames DEF Aside, Main
      <4> QED BY <3>3, <4>1 DEF CleanPartial, Newest, Aside
    <3>4. Cleaner(g) /\ (IsNewest(g) => IsNewest(g)')
      BY <2>2, <3>3 DEF Aside, Cleaner, IsNewest, Newest
    <3> QED BY <2>2, <3>1, <3>4, QuietStays DEF Aside
  <2> QED BY <2>1, <2>2
<1>4. ~disturbed' => Refused' /\ ReadyForNext'
  BY <1>1 DEF FInv, Aside, Refused, ReadyForNext
<1>5. FailsAtMostOnce'
  BY <1>1 DEF FailsAtMostOnce
<1> QED BY <1>2, <1>3, <1>4, <1>5 DEF FInv

-----------------------------------------------------------------------------
(* Steps at indexes                                                        *)

LEMMA FilesApart ==
  ASSUME NEW e \in Entry, NEW g \in Entry \ {e}, item[e] \in DOMAIN FilesOf[e],
         NEW i \in DOMAIN FilesOf[g]
  PROVE  CurrentFile(e) # FilesOf[g][i]
BY UpdateAssumption DEF CurrentFile

\* A step at an index stays aside.
LEMMA IndexStepAside ==
  ASSUME SInv, NEW e \in Entry, pc[e] \in AtFiles, NEW n,
         UNCHANGED <<published, run, configured, options, failedBefore, settled>>,
         ~disturbed' => ~disturbed,
         partial' = [partial EXCEPT ![Path(e)] = n] \/ UNCHANGED partial,
         index' = [index EXCEPT ![CurrentFile(e)] = Wanted(e)] \/ UNCHANGED index,
         \A g \in Entry \ {e} :
           /\ pc'[g] = pc[g] /\ item'[g] = item[g]
           /\ variant'[g] = variant[g] /\ succeeded'[g] = succeeded[g]
  PROVE  Aside(e)
<1>1. item[e] \in DOMAIN FilesOf[e]
  BY DEF SInv, Threads, OnItsWay, AtFiles
<1>2. ASSUME NEW g \in Entry \ {e} PROVE index'[Main(g)] = index[Main(g)]
  BY <1>1, MainsApart, EntryNames DEF SInv, IInv, Typed
<1>3. ASSUME NEW g \in Entry \ {e}, NEW i \in DOMAIN FilesOf[g], NEW kind \in VariantKind
      PROVE  partial'[<<kind, FilesOf[g][i]>>] = partial[<<kind, FilesOf[g][i]>>]
  <2>1. <<kind, FilesOf[g][i]>> # Path(e)
    BY <1>1, FilesApart DEF Path
  <2>2. <<kind, FilesOf[g][i]>> \in Partial /\ partial \in [Partial -> Int]
    BY EntryNames DEF Partial, SInv, IInv, Typed
  <2> QED BY <2>1, <2>2
<1> QED BY <1>2, <1>3 DEF Aside

\* Undisturbed, a thread at a file wants the newest one.
LEMMA WantsNewest ==
  ASSUME SInv, ~disturbed, NEW e \in Entry, pc[e] \in AtFiles
  PROVE  /\ Wanted(e) = Content[CurrentFile(e)][published]
         /\ item[e] = 1 => /\ CurrentFile(e) = Main(e) /\ Wanted(e) = Newest(e)
                           /\ Path(e) = <<Variants[variant[e]], Main(e)>>
<1>1. HasMaster(DistributionOf[e]) /\ run = "running"
  BY DEF SInv, Threads, OnItsWay, AtFiles, AtIndexes
<1>2. Master(DistributionOf[e]) = published
  BY <1>1, MasterIsRight, EntryNames DEF SInv
<1> QED BY <1>2 DEF Wanted, CurrentFile, Main, Newest, Path, Kind

\* A variant fails which was not sure to do, and leaves no stale partial file.
LEMMA VariantFailsQuiet ==
  ASSUME ServerIsRight, SInv, FInv, NEW e \in Entry, pc[e] \in AtIndexes, NextVariant(e),
         ~disturbed, UNCHANGED <<published, index, run, configured, options, failedBefore>>,
         partial' = [partial EXCEPT ![Path(e)] = None] \/ UNCHANGED partial,
         NEW v \in DOMAIN Variants, v = variant[e], item[e] = 1 => ~Sure(e, v),
         item[e] = 1 /\ Kind(e) # "diff" /\ Path(e) \in Offered => CleanPartial(e, v)'
  PROVE  Quiet(e)'
<1>1. /\ pc \in [Entry -> Place] /\ variant \in [Entry -> DOMAIN Variants]
      /\ item \in [Entry -> Nat \ {0}] /\ succeeded \in [Entry -> BOOLEAN]
      /\ variant[e] \in 1..Len(Variants) /\ Len(Variants) \in Nat \ {0}
      /\ DOMAIN Variants = 1..Len(Variants)
  BY VariantNames DEF SInv, IInv, Typed, Threads
<1>2. /\ Quiet(e) /\ run = "running" /\ e \in configured /\ pc[e] \in AtFiles
  BY DEF FInv, SInv, Threads, OnItsWay, AtIndexes, InPlace, AtFiles
<1>3. Cleaner(e) /\ IsNewest(e)' = IsNewest(e)
  BY RemovedIsCleaner DEF SInv, IsNewest, Newest
<1>4. /\ \A i \in DOMAIN Variants : Sure(e, i) => Sure(e, i)'
      /\ Ready(e) => Ready(e)'
  BY <1>3, StaysReady
<1>5. ASSUME item[e] = 1, NEW i \in 1..variant[e], Variants[i] # "diff",
             <<Variants[i], Main(e)>> \in Offered
      PROVE  CleanPartial(e, i)'
  <2>1. i \in DOMAIN Variants
    BY <1>1
  <2>2. CASE i = variant[e]
    BY <1>2, <1>5, <2>2, WantsNewest DEF Kind
  <2>3. CASE i # variant[e]
    <3>1. i \in 1..(variant[e] - 1)
      BY <1>1, <2>3
    <3> QED BY <1>2, <1>3, <1>5, <2>1, <3>1 DEF Quiet, Tried, Cleaner
  <2> QED BY <2>2, <2>3
<1>6. ASSUME item[e] = 1, failedBefore
      PROVE  \E i \in (variant[e] + 1)..Len(Variants) : Sure(e, i)'
  <2>1. PICK i \in variant[e]..Len(Variants) : Sure(e, i)
    BY <1>2, <1>6 DEF Quiet, Certain
  <2>2. i # variant[e]
    BY <1>6, <2>1
  <2>3. i \in (variant[e] + 1)..Len(Variants) /\ i \in DOMAIN Variants
    BY <1>1, <2>2
  <2> QED BY <1>4, <2>1, <2>3
<1>7. CASE variant[e] < Len(Variants)
  <2>1. /\ variant' = [variant EXCEPT ![e] = @ + 1] /\ pc' = [pc EXCEPT ![e] = "variant"]
        /\ UNCHANGED <<item, succeeded>>
    BY <1>7 DEF NextVariant, Goto
  <2>2. variant'[e] = variant[e] + 1 /\ pc'[e] = "variant" /\ variant'[e] - 1 = variant[e]
    BY <1>1, <2>1
  <2>3. Tried(e)'
    BY <1>5, <2>1, <2>2 DEF Tried
  <2>4. item[e] # 1 => Ready(e)'
    BY <1>2, <1>4 DEF Quiet, AtIndexes
  <2>5. failedBefore => Certain(e)'
    BY <1>2, <1>4, <1>6, <2>1, <2>2 DEF Certain, Quiet
  <2> QED BY <2>1, <2>2, <2>3, <2>4, <2>5 DEF Quiet, AtEnd
<1>8. CASE ~(variant[e] < Len(Variants)) /\ item[e] = 1
  <2>1. pc'[e] = "index of index" /\ item'[e] = item[e]
    BY <1>1, <1>8 DEF NextVariant, Goto
  <2>2. PICK i \in DOMAIN Variants :
          Variants[i] # "diff" /\ <<Variants[i], Main(e)>> \in Offered
    BY DEF ServerIsRight, Main
  <2>3. i \in 1..variant[e]
    BY <1>1, <1>8
  <2>4. Sure(e, i)'
    BY <1>5, <1>8, <2>2, <2>3 DEF Sure
  <2>5. Ready(e)'
    BY <2>4 DEF Ready
  <2>6. ~failedBefore
    BY <1>1, <1>6, <1>8
  <2> QED BY <2>1, <2>5, <2>6 DEF Quiet, Tried, AtIndexes
<1>9. CASE ~(variant[e] < Len(Variants)) /\ item[e] # 1
  <2>1. NextFile(e) /\ UNCHANGED succeeded
    BY <1>9 DEF NextVariant
  <2>2. pc'[e] \in {"index", "index of index"}
    BY <1>1, <2>1 DEF NextFile, Goto
  <2>3. Ready(e)'
    BY <1>2, <1>4, <1>9 DEF Quiet, AtIndexes
  <2>4. failedBefore => Certain(e)'
    BY <1>2, <2>1, <2>2, <2>3 DEF Quiet, Certain, AtIndexes
  <2> QED BY <2>2, <2>3, <2>4 DEF Quiet, Tried, AtIndexes
<1> QED BY <1>7, <1>8, <1>9

\* After a file was got, the thread has what makes it sure to get it again.
LEMMA NextFileQuiet ==
  ASSUME SInv, FInv, NEW e \in Entry, pc[e] \in AtFiles, NextFile(e), ~disturbed,
         UNCHANGED <<published, run, configured, options, failedBefore, succeeded>>,
         Ready(e)'
  PROVE  Quiet(e)' /\ InPlace(e)'
<1>1. pc \in [Entry -> Place] /\ variant \in [Entry -> DOMAIN Variants]
  BY DEF SInv, IInv, Typed
<1>2. /\ pc'[e] \in {"index", "index of index"} /\ variant'[e] = 1
      /\ pc[e] # "idle"
  BY <1>1 DEF NextFile, Goto, AtFiles, AtIndexes
<1>3. Quiet(e) /\ InPlace(e)
  BY DEF FInv
<1>4. run = "running" /\ failedBefore /\ e \in configured => Certain(e)'
  BY <1>2, <1>3 DEF Quiet, Certain, AtIndexes
<1> QED BY <1>2, <1>3, <1>4 DEF Quiet, Tried, InPlace, AtIndexes

LEMMA NextFileInPlace ==
  ASSUME SInv, FInv, NEW e \in Entry, pc[e] \in AtFiles, NextFile(e), UNCHANGED configured
  PROVE  InPlace(e)'
<1>1. pc \in [Entry -> Place] /\ variant \in [Entry -> DOMAIN Variants] /\ InPlace(e)
  BY DEF SInv, IInv, Typed, FInv
<1>2. /\ pc'[e] \in {"index", "index of index"} /\ variant'[e] = 1
      /\ pc[e] # "idle"
  BY <1>1 DEF NextFile, Goto, AtFiles, AtIndexes
<1> QED BY <1>1, <1>2 DEF InPlace

LEMMA NextVariantInPlace ==
  ASSUME SInv, FInv, NEW e \in Entry, pc[e] \in AtIndexes, NextVariant(e), UNCHANGED configured
  PROVE  InPlace(e)'
<1>1. pc \in [Entry -> Place] /\ InPlace(e) /\ pc[e] \in AtFiles /\ pc[e] # "idle"
  BY DEF SInv, IInv, Typed, FInv, AtFiles, AtIndexes
<1>2. CASE variant[e] < Len(Variants)
  BY <1>1, <1>2 DEF NextVariant, Goto, InPlace
<1>3. CASE ~(variant[e] < Len(Variants)) /\ item[e] = 1
  BY <1>1, <1>3 DEF NextVariant, Goto, InPlace
<1>4. CASE ~(variant[e] < Len(Variants)) /\ item[e] # 1
  BY <1>1, <1>4, NextFileInPlace DEF NextVariant
<1> QED BY <1>2, <1>3, <1>4

LEMMA VariantFailsKeeps ==
  ASSUME ServerIsRight, SInv, FInv, NEW e \in Entry, pc[e] \in AtIndexes, NextVariant(e),
         UNCHANGED <<published, index, run, configured, options, failedBefore, settled>>,
         ~disturbed' => ~disturbed,
         partial' = [partial EXCEPT ![Path(e)] = None] \/ UNCHANGED partial,
         ~disturbed' /\ item[e] = 1 =>
           \A v \in DOMAIN Variants : v = variant[e] =>
             /\ ~Sure(e, v)
             /\ Kind(e) # "diff" /\ Path(e) \in Offered => CleanPartial(e, v)'
  PROVE  FInv'
<1>1. Aside(e)
  BY NextIsLocal, IndexStepAside DEF AtFiles
<1>2. InPlace(e)' /\ pc[e] # "idle"
  BY NextVariantInPlace DEF AtIndexes
<1>3. ASSUME ~disturbed' PROVE Quiet(e)'
  <2>1. variant[e] \in DOMAIN Variants
    BY DEF SInv, IInv, Typed
  <2> QED BY <1>3, <2>1, VariantFailsQuiet
<1> QED BY <1>1, <1>2, <1>3, AsideKeeps

LEMMA SkipVariantQuiet ==
  ASSUME ServerIsRight, SInv, FInv, NEW e \in Entry, SkipVariant(e)
  PROVE  FInv'
<1>1. /\ pc[e] \in AtIndexes /\ NextVariant(e) /\ Kind(e) = "diff"
      /\ ~("diffs" \in options /\ index[CurrentFile(e)] # None)
      /\ UNCHANGED <<published, index, partial, run, configured, options, failedBefore, settled,
                     disturbed>>
  BY DEF SkipVariant, AtIndexes, Applicable, lists
<1>2. ASSUME ~disturbed, item[e] = 1, NEW v \in DOMAIN Variants, v = variant[e] PROVE ~Sure(e, v)
  <2>1. Newest(e) # None
    BY EntryNames, SomeContent DEF Newest, SInv
  <2> QED BY <1>1, <1>2, <2>1 DEF Sure, IsNewest, Kind, CurrentFile, Main
<1> QED BY <1>1, <1>2, VariantFailsKeeps

LEMMA IndexDownloadFailsQuiet ==
  ASSUME ServerIsRight, SInv, FInv, NEW e \in Entry, IndexDownloadFails(e)
  PROVE  FInv'
<1>1. /\ pc[e] \in AtIndexes /\ NextVariant(e)
      /\ UNCHANGED <<published, index, run, configured, options, failedBefore, settled>>
      /\ partial' = [partial EXCEPT ![Path(e)] = None] \/ UNCHANGED partial
      /\ ~disturbed' => ~disturbed /\ Path(e) \notin Offered
  BY DEF IndexDownloadFails, AtIndexes, lists, Fail, NoFailure
<1>2. ASSUME ~disturbed', item[e] = 1, NEW v \in DOMAIN Variants, v = variant[e] PROVE ~Sure(e, v)
  BY <1>1, <1>2 DEF Sure, Path, Kind, CurrentFile, Main
<1> QED BY <1>1, <1>2, VariantFailsKeeps

LEMMA HashSumsMismatchQuiet ==
  ASSUME ServerIsRight, SInv, FInv, NEW e \in Entry, HashSumsMismatch(e)
  PROVE  FInv'
<1>1. /\ pc[e] \in AtIndexes /\ pc[e] \in AtFiles /\ NextVariant(e)
      /\ partial[Path(e)] # Wanted(e)
      /\ UNCHANGED <<published, index, run, configured, options, failedBefore, settled, disturbed>>
      /\ partial' = [partial EXCEPT ![Path(e)] = None] \/ (Kind(e) = "diff" /\ UNCHANGED partial)
      /\ pc[e] = "fetch" /\ Path(e) \in Offered
  BY DEF HashSumsMismatch, MismatchRemoved, AtIndexes, AtFiles, lists
<1>2. ASSUME ~disturbed, item[e] = 1, NEW v \in DOMAIN Variants, v = variant[e]
      PROVE  ~Sure(e, v) /\ (Kind(e) # "diff" => CleanPartial(e, v)')
  <2>1. Path(e) = <<Variants[v], Main(e)>> /\ Wanted(e) = Newest(e)
    BY <1>1, <1>2, WantsNewest
  <2>2. partial[Path(e)] # None
    BY <1>1 DEF FInv, InPlace
  <2>3. ~Sure(e, v)
    BY <1>1, <2>1, <2>2 DEF Sure, CleanPartial
  <2>4. <<Variants[v], Main(e)>> \in Partial
    BY MainPartials
  <2>5. Kind(e) # "diff" => partial'[<<Variants[v], Main(e)>>] = None
    BY <1>1, <2>1, <2>4 DEF SInv, IInv, Typed
  <2> QED BY <2>3, <2>5 DEF CleanPartial
<1> QED BY <1>1, <1>2, VariantFailsKeeps

\* The main index or a translation was downloaded or patched.
LEMMA VariantDoesKeeps ==
  ASSUME SInv, FInv, NEW e \in Entry, pc[e] \in AtIndexes, NextFile(e), UNCHANGED succeeded,
         UNCHANGED <<published, run, configured, options, failedBefore, settled, disturbed>>,
         partial' = [partial EXCEPT ![Path(e)] = None],
         index' = [index EXCEPT ![CurrentFile(e)] = Wanted(e)],
         Path(e) \in Offered, Kind(e) = "diff" => "diffs" \in options
  PROVE  FInv'
<1>1. pc[e] \in AtFiles /\ pc[e] # "idle"
  BY DEF AtFiles, AtIndexes
<1>2. Aside(e)
  BY <1>1, NextIsLocal, IndexStepAside
<1>3. InPlace(e)'
  BY <1>1, NextFileInPlace
<1>4. ASSUME ~disturbed PROVE Ready(e)'
  <2>1. /\ Main(e) \in File /\ index \in [File -> Release \cup {None}]
        /\ variant[e] \in DOMAIN Variants /\ Quiet(e)
    BY <1>4, EntryNames DEF SInv, IInv, Typed, FInv
  <2>2. Wanted(e) = Content[CurrentFile(e)][published]
    BY <1>1, <1>4, WantsNewest
  <2>3. IsNewest(e) \/ CurrentFile(e) = Main(e) => IsNewest(e)'
    <3>1. index'[Main(e)] = IF CurrentFile(e) = Main(e) THEN Newest(e) ELSE index[Main(e)]
      BY <2>1, <2>2 DEF Newest
    <3> QED BY <3>1 DEF IsNewest, Newest
  <2>4. CASE item[e] = 1
    <3>1. Path(e) = <<Variants[variant[e]], Main(e)>> /\ CurrentFile(e) = Main(e)
      BY <1>1, <1>4, <2>4, WantsNewest
    <3>2. ASSUME NEW v \in DOMAIN Variants, v = variant[e] PROVE Sure(e, v)'
      <4>1. partial'[<<Variants[v], Main(e)>>] = None
        BY <3>1, <3>2, MainPartials DEF SInv, IInv, Typed
      <4> QED BY <2>3, <3>1, <3>2, <4>1 DEF Sure, CleanPartial, Kind
    <3> QED BY <2>1, <3>2 DEF Ready
  <2>5. CASE item[e] # 1
    <3>1. Ready(e)
      BY <1>1, <2>1, <2>5 DEF Quiet
    <3>2. Cleaner(e)
      BY RemovedIsCleaner DEF SInv
    <3> QED BY <2>3, <3>1, <3>2, StaysReady
  <2> QED BY <2>4, <2>5
<1>5. ~disturbed' => Quiet(e)'
  BY <1>1, <1>4, NextFileQuiet
<1> QED BY <1>1, <1>2, <1>3, <1>5, AsideKeeps

LEMMA UpdateIndexQuiet ==
  ASSUME SInv, FInv, NEW e \in Entry, UpdateIndex(e)
  PROVE  FInv'
<1>1. /\ pc[e] = "index" /\ pc[e] \in AtFiles
      /\ UNCHANGED <<published, lists, partial, run, configured, options, failedBefore, settled,
                     disturbed>>
  BY DEF UpdateIndex, AtFiles
<1>2. /\ OnItsWay(e) /\ run = "running" /\ HasMaster(DistributionOf[e]) /\ InPlace(e)
      /\ item[e] \in Nat \ {0}
  BY <1>1 DEF SInv, Threads, OnItsWay, FInv
<1>3. Master(DistributionOf[e]) \in 1..MaxRelease
  BY <1>2, MasterIsRight, EntryNames DEF SInv, Release
<1>4. UNCHANGED succeeded
  BY <1>3 DEF UpdateIndex
<1>5. Cleaner(e) /\ IsNewest(e)' = IsNewest(e)
  BY <1>1, RemovedIsCleaner DEF SInv, IsNewest, Newest, lists
<1>6. Ready(e) => Ready(e)'
  BY <1>1, <1>5, StaysReady
<1>7. CASE Unchanged(e)
  <2>1. NextFile(e)
    BY <1>3, <1>7 DEF UpdateIndex
  <2>2. Aside(e)
    BY <1>1, <1>4, <2>1, NextIsLocal, IndexStepAside DEF lists
  <2>3. ASSUME ~disturbed PROVE Ready(e)'
    <3>1. CASE item[e] = 1
      <4>1. IsNewest(e) /\ PlainListed
        BY <1>1, <1>7, <2>3, <3>1, WantsNewest DEF Unchanged, IsNewest, PlainListed
      <4> QED BY <1>6, <4>1 DEF Ready
    <3>2. CASE item[e] # 1
      BY <1>1, <1>6, <2>3, <3>2 DEF FInv, Quiet
    <3> QED BY <3>1, <3>2
  <2>4. ~disturbed' => Quiet(e)'
    BY <1>1, <1>4, <2>1, <2>3, NextFileQuiet
  <2>5. InPlace(e)'
    BY <1>1, <2>1, NextFileInPlace
  <2> QED BY <1>1, <2>2, <2>4, <2>5, AsideKeeps
<1>8. CASE ~Unchanged(e)
  <2>1. pc' = [pc EXCEPT ![e] = "variant"] /\ UNCHANGED <<item, variant>>
    BY <1>3, <1>8 DEF UpdateIndex, Goto
  <2>2. pc'[e] = "variant" /\ \A g \in Entry \ {e} : pc'[g] = pc[g]
    BY <2>1 DEF SInv, IInv, Typed
  <2>3. Aside(e)
    BY <1>1, <1>4, <2>1, <2>2, IndexStepAside DEF lists
  <2>4. InPlace(e)' /\ variant[e] = 1
    BY <1>1, <1>2, <2>2 DEF InPlace
  <2>5. ASSUME ~disturbed PROVE Quiet(e)'
    <3>1. Quiet(e) /\ (item[e] # 1 => Ready(e)')
      BY <1>1, <1>6, <2>5 DEF FInv, Quiet
    <3>2. Tried(e)'
      BY <2>1, <2>4 DEF Tried
    <3>3. ASSUME failedBefore, e \in configured PROVE Certain(e)'
      <4>1. Certain(e)
        BY <1>2, <3>1, <3>3 DEF Quiet
      <4>2. ASSUME item[e] = 1 PROVE \E i \in DOMAIN Variants : Sure(e, i)
        <5>1. ~(IsNewest(e) /\ PlainListed)
          BY <1>1, <1>8, <2>5, <4>2, WantsNewest DEF Unchanged, IsNewest, PlainListed
        <5> QED BY <4>1, <5>1 DEF Certain, Ready
      <4>3. item[e] = 1 => \E i \in 1..Len(Variants) : Sure(e, i)'
        BY <1>1, <1>5, <4>2, StaysReady, VariantNames
      <4> QED BY <1>4, <1>6, <2>1, <2>4, <4>1, <4>3 DEF Certain
    <3> QED BY <1>1, <2>1, <2>2, <3>1, <3>2, <3>3 DEF Quiet, AtEnd
  <2> QED BY <1>1, <2>3, <2>4, <2>5, AsideKeeps
<1> QED BY <1>7, <1>8

\* A request resumes a partial file or begins a new one.
LEMMA RequestIndexQuiet ==
  ASSUME SInv, FInv, NEW e \in Entry, RequestIndex(e)
  PROVE  FInv'
<1> DEFINE f == CurrentFile(e)
           n == IF Path(e) \in Offered
                THEN Resume(StartPoint(e), Content[f][published]) ELSE StartPoint(e)
<1>1. /\ pc[e] = "variant" /\ pc[e] \in AtFiles /\ Applicable(e) /\ pc' = [pc EXCEPT ![e] = "fetch"]
      /\ partial' = [partial EXCEPT ![Path(e)] = n]
      /\ UNCHANGED <<published, index, run, configured, options, failedBefore, settled, disturbed,
                     item, variant, succeeded>>
  BY DEF RequestIndex, AtFiles, AtIndexes, Goto, lists
<1>2. /\ pc \in [Entry -> Place] /\ variant[e] \in DOMAIN Variants /\ partial \in [Partial -> Int]
      /\ item[e] \in DOMAIN FilesOf[e]
  BY <1>1 DEF SInv, IInv, Typed, Threads, OnItsWay, AtIndexes
<1>3. f \in File /\ Kind(e) \in VariantKind /\ Path(e) = <<Kind(e), f>>
  BY <1>2, EntryNames, VariantNames DEF CurrentFile, Kind, Path
<1>4. Path(e) \in Partial /\ Content[f][published] \in Int \ {None}
  BY <1>3, SomeContent DEF Partial, SInv, Release
<1> HIDE DEF f
<1>5. /\ Path(e) \in Offered => n # None
      /\ partial[Path(e)] \in {None, Content[f][published]} => n \in {None, Content[f][published]}
  <2>1. StartPoint(e) \in {None, partial[Path(e)]}
    BY DEF StartPoint
  <2> QED BY <1>4, <2>1 DEF Resume, None, Garbage
<1>6. Aside(e)
  <2>1. \A g \in Entry \ {e} : pc'[g] = pc[g]
    BY <1>1, <1>2
  <2> HIDE DEF n
  <2> QED BY <1>1, <2>1, IndexStepAside
<1> HIDE DEF n
<1>7. partial'[Path(e)] = n /\ pc'[e] = "fetch"
  BY <1>1, <1>2, <1>4
<1>8. InPlace(e)'
  <2>1. Path(e)' = Path(e) /\ Kind(e)' = Kind(e)
    BY <1>1 DEF Path, Kind, CurrentFile
  <2>2. InPlace(e)
    BY DEF FInv
  <2> QED BY <1>1, <1>5, <1>7, <2>1, <2>2 DEF InPlace, Applicable
<1>9. Cleaner(e)
  <2> SUFFICES ASSUME NEW i \in DOMAIN Variants, CleanPartial(e, i) PROVE CleanPartial(e, i)'
    BY DEF Cleaner
  <2>1. CASE <<Variants[i], Main(e)>> = Path(e)
    <3>1. f = Main(e)
      BY <1>3, <2>1
    <3> QED BY <1>1, <1>5, <1>7, <2>1, <3>1 DEF CleanPartial, Newest
  <2>2. CASE <<Variants[i], Main(e)>> # Path(e)
    <3>1. partial'[<<Variants[i], Main(e)>>] = partial[<<Variants[i], Main(e)>>]
      BY <1>1, <1>2, <2>2, MainPartials
    <3> QED BY <1>1, <3>1 DEF CleanPartial, Newest
  <2> QED BY <2>1, <2>2
<1>10. ASSUME ~disturbed PROVE Quiet(e)'
  <2>1. Quiet(e) /\ (IsNewest(e) => IsNewest(e)')
    BY <1>1, <1>10 DEF FInv, IsNewest, Newest
  <2> QED BY <1>1, <1>2, <1>7, <1>9, <2>1, QuietStays DEF AtIndexes, AtEnd
<1> QED BY <1>1, <1>6, <1>8, <1>10, AsideKeeps

\* Steps which only move a thread on.
LEMMA MovesOnQuiet ==
  ASSUME SInv, FInv, NEW e \in Entry, pc[e] # "idle", NEW where, pc' = [pc EXCEPT ![e] = where],
         UNCHANGED <<published, index, partial, run, configured, options, failedBefore, settled,
                     disturbed, item, variant>>,
         succeeded' = [succeeded EXCEPT ![e] = TRUE] \/ UNCHANGED succeeded,
         where \in AtIndexes => pc[e] \in AtIndexes, where \in AtEnd => pc[e] \in AtEnd,
         InPlace(e)'
  PROVE  FInv'
<1>1. /\ pc \in [Entry -> Place] /\ variant[e] \in DOMAIN Variants
      /\ succeeded \in [Entry -> BOOLEAN]
  BY DEF SInv, IInv, Typed, Threads
<1>2. Aside(e)
  BY <1>1 DEF Aside
<1>3. Cleaner(e)
  BY DEF Cleaner, CleanPartial, Newest
<1>4. ASSUME ~disturbed PROVE Quiet(e)'
  <2>1. Quiet(e) /\ (IsNewest(e) => IsNewest(e)') /\ pc'[e] = where
    BY <1>1, <1>4 DEF FInv, IsNewest, Newest
  <2>2. CASE succeeded'[e] = succeeded[e]
    BY <1>1, <1>3, <2>1, <2>2, QuietStays
  <2>3. CASE succeeded'[e] = TRUE
    <3>1. \/ ~(run = "running" /\ failedBefore /\ e \in configured)
          \/ Certain(e) /\ succeeded[e] = TRUE
      BY <1>1, <2>1 DEF Quiet, Certain
    <3>2. CASE Certain(e) /\ succeeded[e] = TRUE
      BY <1>1, <1>3, <2>1, <2>3, <3>2, QuietStays
    <3>3. CASE ~(run = "running" /\ failedBefore /\ e \in configured)
      <4>1. Ready(e) => Ready(e)'
        BY <1>3, <2>1, StaysReady
      <4>2. 1..(variant[e] - 1) \subseteq DOMAIN Variants
        BY <1>1, VariantNames
      <4>3. Tried(e)'
        BY <1>3, <2>1, <4>2 DEF Quiet, Tried, Cleaner
      <4> QED BY <2>1, <3>3, <4>1, <4>3 DEF Quiet
    <3> QED BY <3>1, <3>2, <3>3
  <2> QED BY <1>1, <2>2, <2>3
<1> QED BY <1>2, <1>4, AsideKeeps

LEMMA DiffIndexDownloadedQuiet ==
  ASSUME SInv, FInv, NEW e \in Entry, DiffIndexDownloaded(e)
  PROVE  FInv'
<1>1. /\ pc[e] = "fetch" /\ pc[e] \in AtIndexes /\ Kind(e) = "diff" /\ Path(e) \in Offered
      /\ pc' = [pc EXCEPT ![e] = "patch"]
      /\ UNCHANGED <<published, index, partial, run, configured, options, failedBefore, settled,
                     disturbed, item, variant, succeeded>>
  BY DEF DiffIndexDownloaded, AtIndexes, Goto, lists
<1>2. Path(e)' = Path(e) /\ Kind(e)' = Kind(e) /\ InPlace(e) /\ pc'[e] = "patch"
  BY <1>1 DEF Path, Kind, CurrentFile, FInv, SInv, IInv, Typed
<1>3. InPlace(e)'
  BY <1>1, <1>2 DEF InPlace
<1> QED BY <1>1, <1>3, MovesOnQuiet DEF AtIndexes, AtEnd

LEMMA GenerateIndexOfIndexQuiet ==
  ASSUME SInv, FInv, NEW e \in Entry, GenerateIndexOfIndex(e)
  PROVE  FInv'
<1>1. /\ pc[e] = "index of index" /\ pc' = [pc EXCEPT ![e] = "done"]
      /\ UNCHANGED <<published, index, partial, run, configured, options, failedBefore, settled,
                     disturbed, item, variant, succeeded>>
  BY DEF GenerateIndexOfIndex, Goto
<1>2. InPlace(e) /\ pc'[e] = "done"
  BY <1>1 DEF FInv, SInv, IInv, Typed
<1>3. InPlace(e)'
  BY <1>1, <1>2 DEF InPlace
<1> QED BY <1>1, <1>3, MovesOnQuiet DEF AtIndexes, AtEnd

\* Patches of undisturbed runs apply to an index which they lead from.
LEMMA PatchIndexQuiet ==
  ASSUME ServerIsRight, SInv, FInv, NEW e \in Entry, PatchIndex(e)
  PROVE  FInv'
<1>1. /\ pc[e] = "patch" /\ pc[e] \in AtIndexes /\ pc[e] \in AtFiles
      /\ partial' = [partial EXCEPT ![Path(e)] = None]
      /\ UNCHANGED <<published, run, configured, options, failedBefore, settled>>
      /\ \/ /\ index' = [index EXCEPT ![CurrentFile(e)] = Wanted(e)]
            /\ NextFile(e) /\ UNCHANGED <<succeeded, disturbed>>
         \/ /\ NextVariant(e) /\ UNCHANGED index
            /\ ~disturbed' => ~disturbed /\ Wanted(e) - index[CurrentFile(e)] \notin 0..PatchesBack
  BY DEF PatchIndex, AtIndexes, AtFiles, Fail, NoFailure, lists
<1>2. Kind(e) = "diff" /\ Path(e) \in Offered /\ "diffs" \in options
  BY <1>1 DEF FInv, InPlace
<1>3. CASE /\ NextVariant(e) /\ UNCHANGED index
           /\ ~disturbed' => ~disturbed /\ Wanted(e) - index[CurrentFile(e)] \notin 0..PatchesBack
  <2>1. ASSUME ~disturbed', item[e] = 1, NEW v \in DOMAIN Variants, v = variant[e]
        PROVE  ~Sure(e, v)
    <3>1. Wanted(e) = Newest(e) /\ CurrentFile(e) = Main(e)
      BY <1>1, <1>3, <2>1, WantsNewest
    <3>2. Newest(e) \in Int
      BY EntryNames, SomeContent DEF Newest, SInv, Release
    <3>3. PatchesBack \in Nat
      BY UpdateAssumption
    <3>4. IsNewest(e) => Wanted(e) - index[CurrentFile(e)] \in 0..PatchesBack
      BY <3>1, <3>2, <3>3 DEF IsNewest
    <3> QED BY <1>2, <1>3, <2>1, <3>4 DEF Sure, Kind
  <2> QED BY <1>1, <1>2, <1>3, <2>1, VariantFailsKeeps
<1>4. CASE /\ index' = [index EXCEPT ![CurrentFile(e)] = Wanted(e)]
           /\ NextFile(e) /\ UNCHANGED <<succeeded, disturbed>>
  BY <1>1, <1>2, <1>4, VariantDoesKeeps
<1> QED BY <1>1, <1>3, <1>4

LEMMA IndexDownloadedQuiet ==
  ASSUME SInv, FInv, NEW e \in Entry, IndexDownloaded(e)
  PROVE  FInv'
BY VariantDoesKeeps DEF IndexDownloaded, ReplaceIndex, AtIndexes

-----------------------------------------------------------------------------
(* Steps at release files                                                  *)

LEMMA HashReleaseQuiet ==
  ASSUME SInv, FInv, NEW e \in Entry, NEW kind \in {"InRelease", "Release"}, HashRelease(e, kind)
  PROVE  FInv'
<1>1. /\ pc[e] \in {"hash InRelease", "hash Release"} /\ pc' = [pc EXCEPT ![e] = kind]
      /\ UNCHANGED <<published, index, partial, run, configured, options, failedBefore, settled,
                     disturbed, item, variant, succeeded>>
  BY DEF HashRelease, HashPlace, Goto, lists
<1>2. InPlace(e) /\ pc'[e] = kind
  BY <1>1 DEF FInv, SInv, IInv, Typed
<1>3. InPlace(e)'
  BY <1>1, <1>2 DEF InPlace
<1> QED BY <1>1, <1>3, MovesOnQuiet DEF AtIndexes, AtEnd

\* Partial files of release files are no concern of indexes.
LEMMA ReleasePartial ==
  ASSUME IInv, NEW x \in ReleaseFile, NEW n, partial' = [partial EXCEPT ![x] = n],
         NEW e \in Entry
  PROVE  /\ \A i \in DOMAIN FilesOf[e], kind \in VariantKind :
              partial'[<<kind, FilesOf[e][i]>>] = partial[<<kind, FilesOf[e][i]>>]
         /\ published' = published => Cleaner(e)
<1>1. ASSUME NEW i \in DOMAIN FilesOf[e], NEW kind \in VariantKind
      PROVE  partial'[<<kind, FilesOf[e][i]>>] = partial[<<kind, FilesOf[e][i]>>]
  <2>1. <<kind, FilesOf[e][i]>> \in Partial /\ partial \in [Partial -> Int]
    BY EntryNames DEF Partial, IInv, Typed
  <2>2. <<kind, FilesOf[e][i]>> # x
    BY DEF ReleaseFile, VariantKind, ReleaseKind
  <2> QED BY <2>1, <2>2
<1>2. ASSUME published' = published PROVE Cleaner(e)
  <2>1. ASSUME NEW i \in DOMAIN Variants
        PROVE  partial'[<<Variants[i], Main(e)>>] = partial[<<Variants[i], Main(e)>>]
    BY <1>1, VariantNames, EntryNames DEF Main
  <2> QED BY <1>2, <2>1 DEF Cleaner, CleanPartial, Newest
<1> QED BY <1>1, <1>2

LEMMA RequestReleaseQuiet ==
  ASSUME SInv, FInv, NEW e \in Entry, NEW kind \in ReleaseKind, RequestRelease(e, kind)
  PROVE  FInv'
<1> DEFINE x == NameOf(e, kind)
<1>1. /\ pc[e] = kind /\ settled' = [settled EXCEPT ![x] = "active"]
      /\ partial' = [partial EXCEPT ![x] = IF x \in Offered THEN Resume(@, published) ELSE @]
      /\ UNCHANGED <<published, index, run, configured, options, failedBefore, disturbed,
                     pc, item, variant, succeeded>>
  BY DEF RequestRelease, thread, lists
<1>2. x \in ReleaseFile
  BY KindsDiffer
<1> HIDE DEF x
<1>3. \A y \in ReleaseFile : settled'[y] = "error" => settled[y] = "error"
  BY <1>1, <1>2 DEF SInv, IInv, Typed
<1>4. \A g \in Entry : /\ \A i \in DOMAIN FilesOf[g], k \in VariantKind :
                            partial'[<<k, FilesOf[g][i]>>] = partial[<<k, FilesOf[g][i]>>]
                       /\ Cleaner(g)
  BY <1>1, <1>2, ReleasePartial DEF SInv
<1>5. Aside(e)
  BY <1>1, <1>3, <1>4 DEF Aside
<1>6. InPlace(e)'
  BY <1>1 DEF FInv, InPlace, ReleaseKind
<1>7. ASSUME ~disturbed PROVE Quiet(e)'
  <2>1. Quiet(e) /\ variant[e] \in DOMAIN Variants /\ (IsNewest(e) => IsNewest(e)')
    BY <1>1, <1>7 DEF FInv, SInv, IInv, Typed, IsNewest, Newest
  <2> QED BY <1>1, <1>4, <2>1, QuietStays
<1> QED BY <1>1, <1>5, <1>6, <1>7, AsideKeeps DEF ReleaseKind

\* Undisturbed, one of the two release files is there.
LEMMA ReleaseAnsweredQuiet ==
  ASSUME ServerIsRight, SInv, FInv, NEW e \in Entry, NEW kind \in ReleaseKind,
         ReleaseAnswered(e, kind)
  PROVE  FInv'
<1> DEFINE d == DistributionOf[e]
<1>1. /\ pc[e] = kind
      /\ UNCHANGED <<published, index, partial, run, configured, options, failedBefore, settled,
                     disturbed, item, variant>>
      /\ \/ /\ settled[<<kind, d>>] = "ok" /\ pc' = [pc EXCEPT ![e] = AfterSuccess[kind]]
            /\ UNCHANGED succeeded
         \/ /\ settled[<<kind, d>>] = "error" /\ pc' = [pc EXCEPT ![e] = AfterError[kind]]
            /\ succeeded' = [succeeded EXCEPT ![e] = kind # "Release"]
  BY DEF ReleaseAnswered, Goto, NameOf, lists
<1>2. /\ pc \in [Entry -> Place] /\ succeeded \in [Entry -> BOOLEAN]
      /\ InPlace(e) /\ OnItsWay(e) /\ variant[e] = 1 /\ pc[e] # "idle"
  BY <1>1 DEF SInv, IInv, Typed, Threads, FInv, OnItsWay, AtReleases, ReleaseKind
<1>3. CASE settled[<<kind, d>>] = "error" /\ kind = "Release"
  <2>1. pc'[e] = "index of index" /\ \A g \in Entry \ {e} : pc'[g] = pc[g] /\ succeeded'[g] = succeeded[g]
    BY <1>1, <1>2, <1>3 DEF AfterError, ReleaseKind
  <2>2. Aside(e)
    BY <1>1, <2>1 DEF Aside
  <2>3. InPlace(e)'
    BY <1>1, <1>2, <2>1 DEF InPlace
  <2>4. disturbed
    <3>1. settled[InRel(d)] = "error" /\ settled[Rel(d)] = "error" /\ run = "running"
      BY <1>1, <1>2, <1>3 DEF OnItsWay, Rel
    <3>2. InRel(d) \in Offered \/ Rel(d) \in Offered
      BY EntryNames DEF ServerIsRight, InRel, Rel
    <3> QED BY <3>1, <3>2, EntryNames, ReleaseNames DEF FInv, Refused
  <2> QED BY <1>1, <1>2, <2>2, <2>3, <2>4, AsideKeeps
<1>4. CASE ~(settled[<<kind, d>>] = "error" /\ kind = "Release")
  <2>1. PICK where \in {"hash Release", "Release.gpg", "index"} : pc' = [pc EXCEPT ![e] = where]
    BY <1>1, <1>4 DEF AfterSuccess, AfterError, ReleaseKind
  <2>2. succeeded' = [succeeded EXCEPT ![e] = TRUE] \/ UNCHANGED succeeded
    BY <1>1, <1>4
  <2>3. InPlace(e)'
    BY <1>1, <1>2, <2>1 DEF InPlace
  <2> QED BY <1>1, <1>2, <2>1, <2>2, <2>3, MovesOnQuiet DEF AtIndexes, AtEnd
<1> QED BY <1>3, <1>4

LEMMA ReleaseSettlesQuiet ==
  ASSUME SInv, FInv, NEW x \in ReleaseFile, ReleaseSettles(x)
  PROVE  FInv'
<1>1. /\ run = "running" /\ partial' = [partial EXCEPT ![x] = None]
      /\ UNCHANGED <<published, index, run, configured, options, failedBefore, pc, item, variant,
                     succeeded>>
      /\ ~disturbed' => ~disturbed
      /\ \/ settled' = [settled EXCEPT ![x] = "ok"]
         \/ settled' = [settled EXCEPT ![x] = "error"] /\ (x \notin Offered \/ disturbed')
  BY DEF ReleaseSettles, DownloadedRelease, thread, lists, Fail, NoFailure
<1>2. ~disturbed' => \A y \in ReleaseFile : settled'[y] = "error" =>
                       settled[y] = "error" \/ y \notin Offered
  BY <1>1 DEF SInv, IInv, Typed
<1>3. \A e \in Entry : /\ \A i \in DOMAIN FilesOf[e], k \in VariantKind :
                            partial'[<<k, FilesOf[e][i]>>] = partial[<<k, FilesOf[e][i]>>]
                       /\ Cleaner(e)
  BY <1>1, ReleasePartial DEF SInv
<1>4. ASSUME NEW e \in Entry PROVE InPlace(e)'
  <2>1. InPlace(e) /\ Kind(e)' = Kind(e) /\ Path(e)' = Path(e)
    BY <1>1 DEF FInv, Kind, Path, CurrentFile
  <2>2. pc[e] = "fetch" => item[e] \in DOMAIN FilesOf[e] /\ Kind(e) \in VariantKind
    BY KindsDiffer DEF SInv, IInv, Threads, OnItsWay, AtIndexes
  <2>3. pc[e] = "fetch" => partial'[Path(e)] = partial[Path(e)]
    BY <1>3, <2>2 DEF Path, CurrentFile
  <2> QED BY <1>1, <2>1, <2>3 DEF InPlace
<1>5. ASSUME ~disturbed', NEW e \in Entry PROVE Quiet(e)'
  <2>1. Quiet(e) /\ variant[e] \in DOMAIN Variants /\ (IsNewest(e) => IsNewest(e)')
    BY <1>1, <1>5 DEF FInv, SInv, IInv, Typed, IsNewest, Newest
  <2> QED BY <1>1, <1>3, <2>1, QuietStays
<1>6. ~disturbed' => Refused' /\ ReadyForNext'
  BY <1>1, <1>2 DEF FInv, Refused, ReadyForNext
<1> QED BY <1>1, <1>4, <1>5, <1>6 DEF FInv, FailsAtMostOnce

-----------------------------------------------------------------------------
(* Runs, and the theorem about failure                                     *)

LEMMA ThreadStepQuiet ==
  ASSUME ServerIsRight, SInv, FInv, NEW e \in Entry, ThreadStep(e)
  PROVE  FInv'
BY HashReleaseQuiet, RequestReleaseQuiet, ReleaseAnsweredQuiet, UpdateIndexQuiet,
   SkipVariantQuiet, RequestIndexQuiet, IndexDownloadFailsQuiet, HashSumsMismatchQuiet,
   IndexDownloadedQuiet, DiffIndexDownloadedQuiet, PatchIndexQuiet, GenerateIndexOfIndexQuiet
   DEF ThreadStep

\* The next run begins with what an undisturbed failure has left ready.
LEMMA StartQuiet == SInv /\ FInv /\ Start => FInv'
<1> SUFFICES ASSUME SInv, FInv, Start PROVE FInv'
  OBVIOUS
<1>1. /\ run' = "running" /\ partial' = Cleared
      /\ settled' = [x \in ReleaseFile |-> "none"]
      /\ pc' = [e \in Entry |-> IF e \in configured' THEN "hash InRelease" ELSE "idle"]
      /\ item' = Idle(1) /\ succeeded' = Idle(TRUE)
      /\ failedBefore' = (run = "failed" /\ ~disturbed /\ configured' \subseteq configured)
      /\ UNCHANGED <<published, index, options>>
  BY DEF Start, lists
<1>2. \A e \in Entry : InPlace(e)'
  BY <1>1 DEF InPlace
<1>3. \A e \in Entry : pc'[e] \notin AtIndexes \cup AtEnd /\ item'[e] = 1 /\ succeeded'[e]
  BY <1>1 DEF AtIndexes, AtEnd, Idle
<1>4. ASSUME NEW e \in Entry, Ready(e) PROVE Ready(e)'
  <2>1. ASSUME NEW i \in DOMAIN Variants
        PROVE  partial'[<<Variants[i], Main(e)>>] = partial[<<Variants[i], Main(e)>>]
    BY <1>1, MainPartials, VariantNames DEF Cleared, VariantKind, ReleaseKind
  <2>2. Cleaner(e)
    BY <1>1, <2>1 DEF Cleaner, CleanPartial, Newest
  <2>3. IsNewest(e) => IsNewest(e)'
    BY <1>1 DEF IsNewest, Newest
  <2> QED BY <1>1, <1>4, <2>2, <2>3, StaysReady
<1>5. ASSUME NEW e \in Entry PROVE Quiet(e)'
  <2>1. failedBefore' /\ e \in configured' => Ready(e)'
    BY <1>1, <1>4 DEF FInv, ReadyForNext
  <2> QED BY <1>3, <2>1 DEF Quiet, Tried, Certain
<1>6. Refused' /\ ReadyForNext' /\ FailsAtMostOnce'
  BY <1>1 DEF Refused, ReadyForNext, FailsAtMostOnce
<1> QED BY <1>2, <1>5, <1>6 DEF FInv

LEMMA FinishQuiet == SInv /\ FInv /\ Finish => FInv'
<1> SUFFICES ASSUME SInv, FInv, Finish PROVE FInv'
  OBVIOUS
<1>1. /\ run = "running" /\ \A e \in configured : pc[e] = "done"
      /\ ListCleanup /\ pc' = Idle("idle")
      /\ run' = IF \A e \in configured : succeeded[e] THEN "succeeded" ELSE "failed"
      /\ UNCHANGED <<published, partial, options, configured, settled, item, variant, succeeded,
                     disturbed, failedBefore>>
  BY DEF Finish
<1>2. \A e \in Entry : InPlace(e)' /\ pc'[e] = "idle"
  BY <1>1 DEF InPlace, Idle
<1>3. ASSUME ~disturbed, NEW e \in configured
      PROVE  Ready(e)' /\ (failedBefore => succeeded[e])
  <2>1. e \in Entry /\ Quiet(e) /\ pc[e] = "done"
    BY <1>1, <1>3 DEF FInv, SInv, Threads
  <2>2. index'[Main(e)] = index[Main(e)]
    BY <1>1, CleanupKeeps DEF SInv, Threads
  <2>3. Cleaner(e) /\ (IsNewest(e) => IsNewest(e)')
    BY <1>1, <2>2 DEF Cleaner, CleanPartial, Newest, IsNewest
  <2>4. Ready(e) => Ready(e)'
    BY <1>1, <2>1, <2>3, StaysReady
  <2> QED BY <1>1, <2>1, <2>4 DEF Quiet, AtEnd, Certain
<1>4. ~disturbed => ReadyForNext'
  BY <1>1, <1>3 DEF ReadyForNext
<1>5. FailsAtMostOnce'
  BY <1>1, <1>3 DEF FailsAtMostOnce
<1>6. Refused' /\ \A e \in Entry : Quiet(e)'
  BY <1>1, <1>2 DEF Refused, Quiet, Tried, AtIndexes, AtEnd
<1> QED BY <1>1, <1>2, <1>4, <1>5, <1>6 DEF FInv

LEMMA DisturbedQuiet ==
  ASSUME FInv, disturbed', UNCHANGED <<partial, options, configured, item, variant>>,
         pc' = Idle("idle") \/ UNCHANGED pc
  PROVE  FInv'
<1>1. ASSUME NEW e \in Entry PROVE InPlace(e)'
  <2>1. InPlace(e) /\ Kind(e)' = Kind(e) /\ Path(e)' = Path(e)
    BY DEF FInv, Kind, Path, CurrentFile
  <2> QED BY <2>1 DEF InPlace, Idle
<1> QED BY <1>1 DEF FInv, FailsAtMostOnce

LEMMA InitQuiet == Init => FInv
<1> SUFFICES ASSUME Init PROVE FInv
  OBVIOUS
<1>1. /\ run = "idle" /\ pc = Idle("idle") /\ item = Idle(1) /\ ~failedBefore
  BY DEF Init
<1>2. \A e \in Entry : pc[e] = "idle"
  BY <1>1 DEF Idle
<1> QED BY <1>1, <1>2 DEF FInv, InPlace, Refused, ReadyForNext, Quiet, Tried, AtIndexes, AtEnd,
     FailsAtMostOnce

LEMMA NextQuiet == ServerIsRight /\ SInv /\ FInv /\ [Next]_vars => FInv'
<1> SUFFICES ASSUME ServerIsRight, SInv, FInv, [Next]_vars PROVE FInv'
  OBVIOUS
<1>1. CASE Start
  BY <1>1, StartQuiet
<1>2. CASE PreparationFails
  BY <1>2, DisturbedQuiet DEF PreparationFails, Fail, thread
<1>3. CASE \E e \in Entry : ThreadStep(e)
  BY <1>3, ThreadStepQuiet
<1>4. CASE \E x \in ReleaseFile : ReleaseSettles(x)
  BY <1>4, ReleaseSettlesQuiet
<1>5. CASE Finish
  BY <1>5, FinishQuiet
<1>6. CASE Kill
  BY <1>6, DisturbedQuiet DEF Kill
<1>7. CASE Publish
  BY <1>7, DisturbedQuiet DEF Publish, thread
<1>8. CASE UNCHANGED vars
  <2>1. UNCHANGED <<published, index, partial, run, configured, options, failedBefore, settled,
                    disturbed, pc, item, variant, succeeded>>
    BY <1>8 DEF vars, lists, thread
  <2>2. ASSUME NEW e \in Entry PROVE InPlace(e)'
    BY <2>1 DEF FInv, InPlace, Kind, Path, CurrentFile
  <2>3. ASSUME NEW e \in Entry, ~disturbed PROVE Quiet(e)' /\ (Ready(e) => Ready(e)')
    <3>1. Cleaner(e) /\ (IsNewest(e) => IsNewest(e)')
      BY <2>1 DEF Cleaner, CleanPartial, Newest, IsNewest
    <3>2. Quiet(e) /\ variant[e] \in DOMAIN Variants
      BY <2>3 DEF FInv, SInv, IInv, Typed
    <3> QED BY <2>1, <3>1, <3>2, QuietStays, StaysReady
  <2>4. ~disturbed => Refused' /\ ReadyForNext'
    BY <2>1, <2>3 DEF FInv, Refused, ReadyForNext, SInv, Threads
  <2> QED BY <2>1, <2>2, <2>3, <2>4 DEF FInv, FailsAtMostOnce
<1> QED BY <1>1, <1>2, <1>3, <1>4, <1>5, <1>6, <1>7, <1>8 DEF Next

\* When the server has what the entries need, stale partial files cost one
\* update: after a failure nothing has disturbed, the next undisturbed update of
\* these entries succeeds (MetadataWorker::__download_index, __update_index).
THEOREM StaleFilesCostOneUpdate == ServerIsRight => (Spec => []FailsAtMostOnce)
<1> SUFFICES ASSUME ServerIsRight PROVE Spec => []FailsAtMostOnce
  OBVIOUS
<1>1. SInv /\ FInv /\ [Next]_vars => (SInv /\ FInv)'
  BY NextOn, NextQuiet
<1>2. SInv /\ FInv => FailsAtMostOnce
  BY DEF FInv
<1> QED BY <1>1, <1>2, InitOn, InitQuiet, PTL DEF Spec
=============================================================================
