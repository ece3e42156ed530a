--------------------------- MODULE MCPackageCache ---------------------------
(* The packages a and b, both from the source s; what c is only others say.  *)
(* The archives are u1 (stable), u2 (testing, which has a rebuild of a 2) and *)
(* u3 (experimental, not automatic).                                         *)
EXTENDS FunctionSelectors

One == <<49>>  Two == <<50>>  TwoRC == <<50, Tilde>>  Nine == <<57>>  Ten == <<49, 48>>

Relation(p, type, version) ==
  [package |-> p, architecture |-> "", type |-> type, version |-> version]
Named(p) == Relation(p, "none", <<>>)

Build(p, version, hash) ==
  [package |-> p, version |-> version, hashes |-> [sha |-> hash], architecture |-> "native",
   multiarch |-> "none", essential |-> FALSE, provides |-> {}, depends |-> <<>>,
   source |-> "s", sourceVersion |-> <<>>, binaries |-> {}]
a1 == [Build("a", One, "a1") EXCEPT !.architecture = "all", !.essential = TRUE]
a2 == [Build("a", Two, "a2") EXCEPT !.depends = << <<Relation("b", ">=", TwoRC), Named("c")>> >>]
a2x == [Build("a", Two, "a2x") EXCEPT !.multiarch = "foreign"]
a2y == [Build("a", Two, "a2y") EXCEPT !.depends = << <<Named("b")>> >>]
aRC == [Build("a", TwoRC, "aRC") EXCEPT !.multiarch = "allowed"]
aOther == [Build("a", One, "a1o") EXCEPT !.architecture = "other"]
aBare == [Build("a", Nine, "a9") EXCEPT !.architecture = "", !.hashes = <<>>]
b1 == [Build("b", One, "b1") EXCEPT !.provides = {[package |-> "c", version |-> One]}]
b2 == [Build("b", Two, "b2") EXCEPT !.provides = {[package |-> "c", version |-> <<>>], [package |-> "a", version |-> One]},
                                    !.depends = << <<Relation("a", "=", Two)>> >>]
b9 == Build("b", Nine, "b9")
b10 == [Build("b", Ten, "b10") EXCEPT !.depends = << <<Named("a")>> >>]
SourceBuild(version, hash, depends) ==
  [Build("s", version, hash) EXCEPT !.architecture = "all", !.depends = depends, !.binaries = {"a", "b"}]
For(r, architectures) ==
  << [package |-> r.package, architecture |-> r.architecture, type |-> r.type, version |-> r.version,
      architectures |-> architectures] >>
On(architecture) == [negative |-> FALSE, architecture |-> architecture]
NotOn(architecture) == [negative |-> TRUE, architecture |-> architecture]
s1 == SourceBuild(One, "s1", << For(Named("b"), <<On("other"), NotOn("native")>>), For(Named("c"), <<>>) >>)
s2 == SourceBuild(Two, "s2", << For(Named("a"), <<NotOn("other")>>), For(Named("b"), <<NotOn("other"), On("native")>>) >>)
sBare == [SourceBuild(Nine, "s9", << For(Named("b"), <<On("other"), On("native")>>) >>) EXCEPT !.hashes = <<>>]

Record(build, want, flag, status) == [build |-> build, want |-> want, flag |-> flag, status |-> status]
Systems ==
  { <<>>,
    << Record(a1, "install", "ok", "installed"), Record(b1, "install", "ok", "installed") >>,
    << Record(a2, "install", "ok", "half-installed"), Record(b1, "deinstall", "ok", "config-files") >>,
    << Record([b10 EXCEPT !.architecture = "other"], "install", "reinst-required", "unpacked"), Record(aRC, "hold", "ok", "triggers-pending") >> }

Line(category, alias, components) ==
  [category |-> category, alias |-> alias, trusted |-> "default", checkValid |-> "yes", components |-> components]
Stable == Line("binary", "u1", << <<a1>>, <<b1, aOther>> >>)
Testing == Line("binary", "u2", << <<a2, aRC, b2>> >>)
Rebuilt == Line("binary", "u2", << <<a2x, a2>> >>)
Local == Line("binary", "u3", << <<a2y, aBare, a1, b9, [b10 EXCEPT !.architecture = ""]>> >>)
Sources == Line("source", "u2", << <<s2, s1, sBare>> >>)
MoreSources == Line("source", "u1", << <<sBare>> >>)
Lists ==
  { <<Stable, Testing, Local>>, <<[Rebuilt EXCEPT !.trusted = "yes"], Local, Stable>>,
    <<Local, [Rebuilt EXCEPT !.checkValid = "no"], Testing>>, <<Sources, Stable, Testing>>,
    <<Local, Sources, MoreSources>> }

Release(archive, codename, notAutomatic) ==
  [archive |-> archive, codename |-> codename, validUntil |-> "none", messages |-> <<"KEY_CONSIDERED", "GOODSIG">>,
   notAutomatic |-> notAutomatic, butAutomaticUpgrades |-> FALSE]
Good == [u1 |-> Release("stable", "squeeze", FALSE), u2 |-> Release("testing", "wheezy", FALSE),
         u3 |-> Release("experimental", "experimental", TRUE)]
Bad == [Good EXCEPT !.u1 = None, !.u2.validUntil = "past", !.u3.butAutomaticUpgrades = TRUE, !.u3.messages = <<"ERRSIG", "GOODSIG">>]

NoLimits == [ignoreExpiration |-> FALSE, defaultRelease |-> "", limits |-> {}, notAutomatic |-> -5000,
             butAutomaticUpgrades |-> 4000, downgrade |-> -10000, hold |-> 10000]
Configs == {NoLimits, [NoLimits EXCEPT !.defaultRelease = "squeeze", !.limits = {[by |-> "archive", include |-> FALSE, values |-> {"testing"}]}]}

Preferences ==
  { <<>>,
    << [conditions |-> <<[on |-> "archive", values |-> {"experimental"}], [on |-> "package", values |-> {"a"}]>>, priority |-> 700],
       [conditions |-> <<[on |-> "source", values |-> {"s"}], [on |-> "version", values |-> {One}]>>, priority |-> 1200] >> }

World(status, lines, releases, config, preferences) ==
  [status |-> status, lines |-> lines, releases |-> releases, config |-> config,
   preferences |-> preferences, extended |-> <<[package |-> "b", auto |-> 1], [package |-> "a", auto |-> 0], [package |-> "b", auto |-> 0]>>]
SomeWorlds ==
  {World(s, l, Good, NoLimits, <<>>) : s \in Systems, l \in Lists}
    \cup {World(s, l, Bad, NoLimits, <<>>) : s \in Systems, l \in Lists}
    \cup {World(s, l, Good, c, p) : s \in Systems, l \in Lists, c \in Configs, p \in Preferences}

SomeExpressions ==
  { <<Named("c"), Relation("a", "<<", Two)>>, <<Relation("c", ">=", One)>>, <<Relation("c", ">=", Two)>>,
    <<Relation("a", "===", Two \o Id(0)), Relation("b", ">>", Nine)>>, <<Relation("a", "<=", One), Named("b")>> }
ColonAny == { <<Named("a")>>, << [Named("a") EXCEPT !.architecture = "any"] >> }

DefaultScores ==
  [common |-> 20, negative |-> 50, priorityDowngrade |-> 2200, new |-> 0, removal |-> -1800,
   removalOfEssential |-> -200000, removalOfAuto |-> 1500, upgrade |-> 20, downgrade |-> -800,
   qualityAdjustment |-> 0]

Names == <<"a", "b", "c", "s">>
NamesOfSources == {"s"}

Parts == UNION {[1..n -> {Tilde, Plus, Zero, 49, 97}] : n \in 0..2}

\* Queries
Match(on, values) == [op |-> "match", on |-> on, values |-> values]
Apply(op, q) == [op |-> op, args |-> <<q>>]
Xor(q, r) == [op |-> "xor", args |-> <<q, r>>]
NewerOnes == Match("text", {Two, TwoRC, Nine, Ten, Two \o Id(0)})
SomeQueries ==
  { Apply("not", Match("archive", {"stable"})), Apply("not", NewerOnes),
    Apply("best", Or(Match("codename", {"wheezy"}), Match("provides", {"c"}))),
    Xor(Match("trusted", {}), Match("package:automatically-installed", {})),
    OfDistribution({"a"}, "testing"), OfVersion({"a", "b"}, {Two, Nine}),
    Fmap("x", Match("installed", {}), <<"depends", "reverse-depends">>),
    Apply("reverse-build-depends", Wildcarded({"a", "b"})),
    Apply("source-to-binary", Apply("binary-to-source", NewerOnes)),
    Apply("build-depends", Match("version", {One, Two})),
    And(NewerOnes, WithInstalledDependencies("x", "y", Wildcarded({"b"}))) }
=============================================================================
