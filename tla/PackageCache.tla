---------------------------- MODULE PackageCache -----------------------------
(***************************************************************************)
(* The cache (cache.cpp, internal/cacheimpl.cpp): it reads the status of   *)
(* dpkg, then the indexes of the sources list in their order, and from     *)
(* then on answers questions.  The versions of a package are made of the   *)
(* records read when somebody first asks for the package                   *)
(* (cache/package.cpp); preferences and releases give them pins            *)
(* (internal/pininfo.cpp), pins give the preferred version and the scores  *)
(* of the resolver (nativeresolver/score.cpp); answers to relation         *)
(* expressions are remembered by a key.                                    *)
(*                                                                         *)
(* A record is a build: what one paragraph of an index says.  Names of     *)
(* packages and values of attributes are model values, version strings are *)
(* sequences of characters.  What was read before an index turned out to   *)
(* be broken stays, so a broken index is a shorter one.                    *)
(***************************************************************************)
EXTENDS VersionStrings, Functions, FiniteSets

CONSTANTS
  Worlds,         \* what is on the disk, see below
  Expressions,    \* relation expressions that are asked for
  NameOrder,      \* the names of packages in alphabetical order
  SourceNames,    \* those of source packages
  MaxAsks,        \* bound: questions asked
  None,           \* no release
  Scores,         \* the options cupt::resolver::score::*
  VersionParts    \* parts of version strings to compare
(* A world is a record:                                                    *)
(*   status       sequence of [build, want, flag, status]                  *)
(*   lines        the sources list: sequence of                           *)
(*                [category, alias, trusted, checkValid, components], the  *)
(*                components being sequences of records                    *)
(*   releases     alias -> release, or None                              *)
(*   preferences  sequence of [conditions, priority]                       *)
(*   config       defaultRelease, limits and pin addendums,                *)
(*                ignoreExpiration                                         *)
(*   extended     sequence of [package, auto]                              *)

Binary == ToSet(NameOrder) \ SourceNames
Before(p, q) ==
  \E i, j \in DOMAIN NameOrder : i < j /\ NameOrder[i] = p /\ NameOrder[j] = q

VARIABLES
  world,
  position,     \* entries processed; -1: the status has not been read
  released,     \* releaseInfoCache: alias -> release, or None
  pre,          \* preBinaryPackages, preSourcePackages: name -> records read, as [build, release]
  provided,     \* canProvide: name -> packages, in the order met
  packages,     \* name -> versions, for the packages asked for
  ids,          \* idCounter
  answers,      \* key of an expression -> versions
  asks
vars == <<world, position, released, pre, provided, packages, ids, answers, asks>>

\* parseSourcesLists: a line of the sources list has an entry for every component.
IndexEntries ==
  FoldLeft(LAMBDA s, line : s \o [i \in DOMAIN line.components |->
             [alias |-> line.alias, trusted |-> line.trusted, checkValid |-> line.checkValid,
              records |-> line.components[i]]],
           <<>>, world.lines)

Ready == position = Len(IndexEntries)

-----------------------------------------------------------------------------
(* The status of dpkg (system/state.cpp)                                   *)

isBroken(record) == record.flag # "ok" \/ record.status = "half-installed"
packageHasFullEntryInfo(record) == record.status \notin {"not-installed", "config-files"}

\* createVersionSource
InstalledRelease(record) ==
  [archive |-> IF isBroken(record) THEN "improperly-installed" ELSE "installed",
   codename |-> "now", baseUri |-> "", verified |-> FALSE,
   notAutomatic |-> FALSE, butAutomaticUpgrades |-> FALSE]

getInstalledInfo(p) == SelectSeq(world.status, LAMBDA r : r.build.package = p)
getInstalledPackageNames ==
  {r.build.package : r \in {x \in Range(world.status) : packageHasFullEntryInfo(x)}}
BrokenPackage(p) == getInstalledInfo(p) # <<>> /\ isBroken(getInstalledInfo(p)[1])
Want(p) == IF getInstalledInfo(p) = <<>> THEN "unknown" ELSE getInstalledInfo(p)[1].want

\* processProvides
Provides(q, name, p) ==
  [q EXCEPT ![name] = IF p \in Range(@) THEN @ ELSE Append(@, p)]

\* A record goes to the records of its package and to the index of provides.
Read(r, b, release) ==
  [pre |-> [r.pre EXCEPT ![b.package] = Append(@, [build |-> b, release |-> release])],
   provided |-> FoldSet(LAMBDA x, q : Provides(q, x.package, b.package), r.provided, b.provides)]

parseDpkgStatus ==
  FoldLeft(LAMBDA r, x : IF packageHasFullEntryInfo(x) THEN Read(r, x.build, InstalledRelease(x)) ELSE r,
           [pre |-> pre, provided |-> provided], world.status)

ReadStatus ==
  /\ position = -1
  /\ pre' = parseDpkgStatus.pre
  /\ provided' = parseDpkgStatus.provided
  /\ position' = 0
  /\ UNCHANGED <<world, released, packages, ids, answers, asks>>

-----------------------------------------------------------------------------
(* Indexes                                                                 *)

\* verifySignature: the first message that says something about the signature counts.
NotGood == {"EXPSIG", "EXPKEYSIG", "REVKEYSIG", "BADSIG", "ERRSIG", "NODATA"}
verifySignature(r) ==
  \E i \in DOMAIN r.messages :
    r.messages[i] = "GOODSIG" /\ \A j \in 1..(i - 1) : r.messages[j] \notin NotGood \cup {"garbage"}

\* verifyReleaseValidityDate: a date that cannot be read is no reason.
HasExpired(r) == r.validUntil = "past" /\ ~world.config.ignoreExpiration

\* cachefiles::getReleaseInfo
getReleaseInfo(entry, r, verified) ==
  [archive |-> r.archive, codename |-> r.codename, baseUri |-> entry.alias, verified |-> verified,
   notAutomatic |-> r.notAutomatic, butAutomaticUpgrades |-> r.butAutomaticUpgrades]

\* getReleaseInfoNotCached: a release that is absent or has expired fails its
\* entry, one without a good signature does not.
ReleaseNotCached(entry) ==
  LET r == world.releases[entry.alias]
  IN  IF r = None THEN None
      ELSE IF entry.checkValid # "no" /\ HasExpired(r) THEN None
      ELSE getReleaseInfo(entry, r, IF entry.trusted = "default" THEN verifySignature(r) ELSE entry.trusted = "yes")

\* getReleaseInfo: the entries of a distribution share what the first one found.
ReleaseOf(entry) ==
  IF entry.alias \in DOMAIN released THEN released[entry.alias] ELSE ReleaseNotCached(entry)

\* ReleaseLimits::isExcluded
isExcluded(release) ==
  \E limit \in world.config.limits : limit.include # (release[limit.by] \in limit.values)

\* processIndexEntry
Indexed(entry, release) ==
  IF release = None THEN [pre |-> pre, provided |-> provided]
  ELSE IF isExcluded(release) THEN [pre |-> pre, provided |-> provided]
  ELSE FoldLeft(LAMBDA r, b : Read(r, b, release), [pre |-> pre, provided |-> provided], entry.records)

ProcessIndexEntry ==
  /\ position \in 0..(Len(IndexEntries) - 1)
  /\ LET entry == IndexEntries[position + 1]
         release == ReleaseOf(entry)
     IN  /\ released' = (entry.alias :> release) @@ released
         /\ pre' = Indexed(entry, release).pre
         /\ provided' = Indexed(entry, release).provided
  /\ position' = position + 1
  /\ UNCHANGED <<world, packages, ids, answers, asks>>

-----------------------------------------------------------------------------
(* Versions of a package (cache/package.cpp)                               *)

IsInstalled(v) == v.sources[1].baseUri = ""
Original(v) == getOriginalVersionString(v.string)
InstalledId == <<Suffix, 105>>
Id(n) == <<Suffix, 100, Zero + n>>

\* HashSums::match
match(hashes, others) ==
  LET common == DOMAIN hashes \cap DOMAIN others
  IN  common # {} /\ \A type \in common : hashes[type] = others[type]

\* The hashes of a source are those of its file, if it has one.
HasNoFile(b) == b.package \notin Binary /\ DOMAIN b.hashes = {}
areHashesEqual(b, c) == match(b.hashes, c.hashes) \/ (HasNoFile(b) /\ HasNoFile(c))

\* parseBinaryVersion, parseSourceVersion: what a paragraph leaves out
Parsed(b) ==
  [b EXCEPT !.sourceVersion = IF @ = <<>> THEN b.version ELSE @,
            !.architecture = IF @ = "" THEN "all" ELSE @]
ParsingFails(r) ==
  \/ r.build.version = <<>>
  \/ r.build.package \in Binary /\ r.release.baseUri # "" /\ DOMAIN r.build.hashes = {}
AsVersion(r, suffix) ==
  [package |-> r.build.package, string |-> r.build.version \o suffix, build |-> Parsed(r.build),
   sources |-> <<r.release>>]

\* p_mergeInstalledVersion, __merge_version.  m has the versions and the ids.
Rivals(m, r) ==
  {i \in DOMAIN m.versions :
     Original(m.versions[i]) = r.build.version /\ ~IsInstalled(m.versions[i])}
Equals(m, r) == {i \in Rivals(m, r) : areHashesEqual(m.versions[i].build, r.build)}
FirstClashOnly(m, r) ==
  {i \in Rivals(m, r) : i = Min(Rivals(m, r)) /\ areHashesEqual(m.versions[i].build, r.build)}
SameVersions(m, r) == Equals(m, r)

isArchitectureAppropriate(r) ==
  r.release.baseUri = "" \/ Parsed(r.build).architecture \in {"all", "native"}

\* addEntry: a record that cannot be parsed is left out.
Merge(m, r) ==
  IF ParsingFails(r) \/ ~isArchitectureAppropriate(r) THEN m
  ELSE IF r.release.baseUri = "" THEN
    IF m.versions = <<>> THEN [m EXCEPT !.versions = <<AsVersion(r, InstalledId)>>] ELSE m
  ELSE IF SameVersions(m, r) # {} THEN
    [m EXCEPT !.versions[Min(SameVersions(m, r))].sources = Append(@, r.release)]
  ELSE IF Rivals(m, r) # {} THEN
    [versions |-> Append(m.versions, AsVersion(r, Id(m.ids))), ids |-> m.ids + 1]
  ELSE [m EXCEPT !.versions = Append(@, AsVersion(r, <<>>))]

Merged(records, n) == FoldLeft(Merge, [versions |-> <<>>, ids |-> n], records)

\* preparePackage.  g has the packages and the ids.  The records of a package
\* that was made are never read again; pre keeps them for the properties.
WithPackage(g, p, m) == [packages |-> (p :> m.versions) @@ g.packages, ids |-> m.ids]
Prepare(g, p) ==
  IF p \in DOMAIN g.packages \/ pre[p] = <<>> THEN g
  ELSE WithPackage(g, p, Merged(pre[p], g.ids))

Cache == [packages |-> packages, ids |-> ids]
Becomes(g) == packages' = g.packages /\ ids' = g.ids
Versions(g, p) == IF p \in DOMAIN g.packages THEN g.packages[p] ELSE <<>>

getBinaryPackage(p) ==
  /\ Ready
  /\ asks < MaxAsks
  /\ p \notin DOMAIN packages
  /\ pre[p] # <<>>
  /\ Becomes(Prepare(Cache, p))
  /\ asks' = asks + 1
  /\ UNCHANGED <<world, position, released, pre, provided, answers>>

-----------------------------------------------------------------------------
(* Pins (internal/pininfo.cpp) and the preferred version                   *)

ReleasePriority(r) ==
  IF world.config.defaultRelease \in {r.archive, r.codename} THEN 990
  ELSE IF r.notAutomatic THEN
    1 + world.config.notAutomatic
      + (IF r.butAutomaticUpgrades THEN world.config.butAutomaticUpgrades ELSE 0)
  ELSE IF r.archive = "installed" THEN 100
  ELSE 500

\* adjustUsingPinSettings: the first record all of whose conditions match.
Matches(condition, v) ==
  CASE condition.on = "package" -> v.package \in condition.values
    [] condition.on = "source" -> v.package \in Binary /\ v.build.source \in condition.values
    [] condition.on = "version" -> Original(v) \in condition.values
    [] OTHER -> \E r \in Range(v.sources) : r[condition.on] \in condition.values
PinRecords(v) ==
  SelectSeq(world.preferences, LAMBDA x : \A i \in DOMAIN x.conditions : Matches(x.conditions[i], v))

getOriginalAptPin(v) ==
  IF PinRecords(v) # <<>> THEN PinRecords(v)[1].priority
  ELSE Max({0 + Min({0, world.config.notAutomatic})} \cup {ReleasePriority(r) : r \in Range(v.sources)})

\* getInstalledVersion: "we rely on the fact that installed version adds first"
AtMostOne(s) == IF s = <<>> THEN <<>> ELSE <<s[1]>>
Installed(versions) == SelectSeq(AtMostOne(versions), IsInstalled)

OwnPin(v, versions, want) ==
  LET now == Installed(versions)
      older == now # <<>> /\ compareVersionStrings(now[1].string, v.string) > 0
      held == now # <<>> /\ want = "hold" /\ IsInstalled(v)
  IN  getOriginalAptPin(v)
        + (IF older THEN world.config.downgrade ELSE 0)
        + (IF held THEN world.config.hold ELSE 0)
        + (IF \E r \in Range(v.sources) : r.verified THEN 1 ELSE 0)

\* computePin: the installed version is worth what the same version elsewhere is.
Alone(v, versions) == {v}
WithOthers(v, versions) ==
  IF IsInstalled(v) THEN {w \in Range(versions) : Original(w) = Original(v)} ELSE {v}
Counted(v, versions) == WithOthers(v, versions)
Pin(v, versions, want) == Max({OwnPin(w, versions, want) : w \in Counted(v, versions)})

\* getSortedVersionsWithPriorities, getPreferredVersion
LaterFirst(c, i, j) == c > 0 \/ (c = 0 /\ i < j)
Preferable(versions, pins, i, j) ==
  \/ pins[i] > pins[j]
  \/ /\ pins[i] = pins[j]
     /\ LaterFirst(compareVersionStrings(versions[i].string, versions[j].string), i, j)
Pins(versions, want) == Kept([i \in DOMAIN versions |-> Pin(versions[i], versions, want)])
Arranged(versions, order) == Kept([k \in DOMAIN order |-> versions[order[k]]])
ByPreference(versions, pins) ==
  Arranged(versions, Ranked(DOMAIN versions, LAMBDA i, j : Preferable(versions, pins, i, j)))
Sorted(versions, want) == ByPreference(versions, Pins(versions, want))
getPreferredVersion(versions, want) == Sorted(versions, want)[1]

-----------------------------------------------------------------------------
(* Scores (nativeresolver/score.cpp) of going from some versions to others,  *)
(* at most one each.                                                        *)

\* parseExtendedStates: a later record does not take a mark away.
automaticallyInstalled == {r.package : r \in {x \in Range(world.extended) : x.auto = 1}}

Percent(s, factor) == IF s * factor < 0 THEN -((-s * factor) \div 100) ELSE (s * factor) \div 100
DefaultPin == IF world.config.defaultRelease = "" THEN 500 ELSE 990

\* p_getFactoredVersionScore
VersionScore(weight, priority) ==
  LET s == IF priority < 0 THEN Percent(weight, Scores.priorityDowngrade) ELSE weight
      t == Percent(s, Scores.common)
  IN  IF t < 0 THEN Percent(t, Scores.negative) ELSE t

\* p_addVersionChangeClass
Automatic(original) == original[1].package \in automaticallyInstalled
Essential(original) == IF original[1].build.essential THEN Scores.removalOfEssential ELSE 0
AutoInstead(original) ==
  (IF Automatic(original) THEN Scores.removalOfAuto ELSE Scores.removal) + Essential(original)
AutoAsWell(original) ==
  Scores.removal + (IF Automatic(original) THEN Scores.removalOfAuto ELSE 0) + Essential(original)
RemovalClass(original) == AutoAsWell(original)
Direction(c) == IF c < 0 THEN Scores.upgrade ELSE IF c > 0 THEN Scores.downgrade ELSE 0
ChangeClass(original, supposed) ==
  IF original = <<>> THEN Scores.new
  ELSE IF supposed = <<>> THEN RemovalClass(original)
  ELSE Direction(compareVersionStrings(original[1].string, supposed[1].string))

\* p_addVersionChangeWeight, getScoreChangeValue
ScoreOf(original, supposed, pins) ==
  LET weight(vs) == IF vs = <<>> THEN 0 ELSE pins[vs[1]] - DefaultPin
      from == IF original = <<>> THEN 0 ELSE pins[original[1]]
      to == IF supposed = <<>> THEN DefaultPin ELSE pins[supposed[1]]
  IN  Scores.qualityAdjustment + VersionScore(weight(supposed) - weight(original), to - from)
        + ChangeClass(original, supposed)

-----------------------------------------------------------------------------
(* What satisfies a relation expression                                    *)

\* Relation::isSatisfiedBy
SatisfiedBy(relation, string) ==
  LET c == compareVersionStrings(string, relation.version)
  IN  CASE relation.type = "none" -> TRUE
        [] relation.type = "===" -> relation.version = string
        [] relation.type = ">=" -> c >= 0
        [] relation.type = "<<" -> c < 0
        [] relation.type = "<=" -> c <= 0
        [] relation.type = "=" -> c = 0
        [] relation.type = ">>" -> c > 0

\* versionSatisfiesRelation
ArchitectureFits(relation, v) ==
  CASE relation.architecture = "" -> TRUE
    [] relation.architecture = "any" -> v.build.multiarch = "allowed"
    [] relation.architecture = "native" -> v.build.multiarch = "foreign"
    [] OTHER -> FALSE

BrokenNow(v) == IsInstalled(v) /\ BrokenPackage(v.package)

Real(relation, v) ==
  /\ SatisfiedBy(relation, v.string) /\ ArchitectureFits(relation, v)
  /\ BrokenNow(v) => relation.type = "==="

\* providesChunkMatchesRelation
Virtual(relation, v) ==
  /\ ~BrokenNow(v)
  /\ \E x \in v.build.provides :
       /\ x.package = relation.package
       /\ relation.type = "none" \/ (x.version # <<>> /\ SatisfiedBy(relation, x.version))

\* addRealPackageSatisfyingVersions, addVirtualPackageSatisfyingVersions,
\* sortByPackageNameAndVersion: the text of versions decides, greater first.
Listed(v, w) ==
  Before(v.package, w.package) \/ (v.package = w.package /\ TextLess(w.string, v.string))
AsListed(s) ==
  Arranged(s, Ranked(DOMAIN s, LAMBDA i, j : Listed(s[i], s[j]) \/ (s[i] = s[j] /\ i < j)))
Found(g, relation) ==
  AsListed(FoldLeft(LAMBDA s, p : s \o SelectSeq(Versions(g, p), LAMBDA v : Virtual(relation, v)),
                    SelectSeq(Versions(g, relation.package), LAMBDA v : Real(relation, v)),
                    provided[relation.package]))

getSatisfyingVersionsNonCached(g, expression) ==
  FoldLeft(LAMBDA s, relation : s \o SelectSeq(Found(g, relation), LAMBDA v : v \notin Range(s)),
           <<>>, expression)

\* The packages which are made for that.
Touched(expression) ==
  FoldLeft(LAMBDA s, relation : Append(s, relation.package) \o provided[relation.package], <<>>, expression)
PrepareFor(g, expression) == FoldLeft(Prepare, g, Touched(expression))

\* RelationExpression::getHashString
WithoutVersions(expression) == [i \in DOMAIN expression |-> [expression[i] EXCEPT !.architecture = "", !.version = <<>>]]
HashString(expression) == [i \in DOMAIN expression |-> [expression[i] EXCEPT !.architecture = ""]]
getHashString(expression) == HashString(expression)

Remembers(g, expression) ==
  /\ Becomes(g)
  /\ answers' = (getHashString(expression) :> getSatisfyingVersionsNonCached(g, expression)) @@ answers

getSatisfyingVersions(expression) ==
  /\ Ready
  /\ asks < MaxAsks
  /\ getHashString(expression) \notin DOMAIN answers
  /\ Remembers(PrepareFor(Cache, expression), expression)
  /\ asks' = asks + 1
  /\ UNCHANGED <<world, position, released, pre, provided>>

-----------------------------------------------------------------------------
Init ==
  /\ world \in Worlds
  /\ position = -1
  /\ released = <<>>
  /\ pre = [p \in Range(NameOrder) |-> <<>>]
  /\ provided = [p \in Range(NameOrder) |-> <<>>]
  /\ packages = <<>>
  /\ ids = 0
  /\ answers = <<>>
  /\ asks = 0

Next ==
  \/ ReadStatus
  \/ ProcessIndexEntry
  \/ \E p \in Range(NameOrder) : getBinaryPackage(p)
  \/ \E expression \in Expressions : getSatisfyingVersions(expression)

-----------------------------------------------------------------------------
(* Properties *)

Everything == FoldLeft(Prepare, Cache, NameOrder)
AllVersions(g) == UNION {Range(Versions(g, p)) : p \in Range(NameOrder)}

\* What is remembered for an expression are the versions which meet one of its
\* relations by name or by what they provide, whatever was asked before
\* (CacheImpl::getSatisfyingVersions).
Meets(v, relation) == (v.package = relation.package /\ Real(relation, v)) \/ Virtual(relation, v)
WithoutIds(versions) == {[v EXCEPT !.string = Original(v)] : v \in versions}
Meeting(e, versions) == {v \in versions : v.package \in Binary /\ \E i \in DOMAIN e : Meets(v, e[i])}
AnswersAreRight ==
  Ready => \A e \in Expressions : getHashString(e) \in DOMAIN answers =>
    WithoutIds(Range(answers[getHashString(e)])) = WithoutIds(Meeting(e, AllVersions(Everything)))

\* In every order of indexes, a build is one version, which has all its sources
\* and no others, and versions of a package have different names
\* (Package::__merge_version); and a package which the state of the system lists
\* has its installed version in the only place where it is looked for
\* (Cache::getInstalledVersions, BinaryPackage::getInstalledVersion).
VersionsAreBuilds ==
  \A p \in DOMAIN packages :
    LET vs == packages[p]
        Of(r) == {i \in DOMAIN vs :
                    /\ Original(vs[i]) = r.build.version /\ r.release \in Range(vs[i].sources)
                    /\ IsInstalled(vs[i]) \/ areHashesEqual(vs[i].build, r.build)}
        mine == {r \in Range(pre[p]) : ~ParsingFails(r) /\ isArchitectureAppropriate(r)}
    IN  /\ IsInjective([i \in DOMAIN vs |-> vs[i].string])
        /\ \A r \in mine : Cardinality(Of(r)) = 1
        /\ \A r, s \in mine : Of(r) = Of(s) <=>
             \/ r = s
             \/ /\ "" \notin {r.release.baseUri, s.release.baseUri}
                /\ r.build.version = s.build.version /\ areHashesEqual(r.build, s.build)
        /\ p \in Binary => (p \in getInstalledPackageNames <=> Installed(vs) # <<>>)

\* Once the preferred version of a package is installed, it is preferred as it
\* is: a second upgrade finds nothing to do (CacheImpl::computePin).
AfterInstalling(p, v) ==
  Merged(<<[build |-> v.build, release |-> InstalledRelease([flag |-> "ok", status |-> "installed"])]>>
           \o SelectSeq(pre[p], LAMBDA r : r.release.baseUri # ""), 0).versions
StaysPreferred(p, v) ==
  IsInstalled(v) \/ IsInstalled(getPreferredVersion(AfterInstalling(p, v), "install"))
PolicySettles ==
  \A p \in DOMAIN packages \cap Binary :
    packages[p] # <<>> => StaysPreferred(p, getPreferredVersion(packages[p], Want(p)))

\* The resolver's scores agree with the policy: where the preferred version is
\* newer than the installed one, going there gains, and nothing that can be done
\* to the package, removing it included, is worth more
\* (ScoreManager::getVersionScoreChange, getScoreChangeValue).
PinOf(p) == Kept([v \in Range(packages[p]) |-> Pin(v, packages[p], Want(p))])
ScoresOf(now, choices, pins) == [s \in choices |-> ScoreOf(now, s, pins)]
BestIn(scores, s) == scores[s] > 0 /\ \A t \in DOMAIN scores : scores[s] >= scores[t]
UpgradePays(now, best, vs, pins) ==
  compareVersionStrings(now.string, best.string) < 0 =>
    BestIn(ScoresOf(<<now>>, {<<>>} \cup {<<v>> : v \in Range(vs)}, pins), <<best>>)
PolicyPays ==
  \A p \in DOMAIN packages \cap Binary : Installed(packages[p]) # <<>> =>
    UpgradePays(Installed(packages[p])[1], getPreferredVersion(packages[p], Want(p)), packages[p], PinOf(p))

\* Parts of version strings are ordered as their keys are: "~" before the end,
\* the end before digits, digits before letters, letters before the rest, and
\* numbers by their value (compareVersionStrings).
VersionsAreOrdered ==
  position = -1 => \A s, t \in VersionParts : ComparePart(s, t) = Meant(s, t)
=============================================================================
