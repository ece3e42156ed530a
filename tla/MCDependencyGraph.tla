-------------------------- MODULE MCDependencyGraph -------------------------
(* Four packages.  b is installed, and so is a, of which the archive has the *)
(* same version and a newer one; c comes in two builds of one version that    *)
(* differ in what they provide; d is new and built from the source of b.      *)
EXTENDS DependencyGraph, TLC
CONSTANTS a, b, c, d, ai, a1, a2, bi, b2, c1, c1x, c2, d2,
          needsB, needsC, noC, noA2, likesD, exactC, wantA, breaksC, s1, s2, s3, one, two

NoRelations == [type \in RelationType |-> <<>>]
With(pairs) == pairs @@ NoRelations

RelationsOfA2 ==
  {With("Depends" :> <<needsB, needsC>>), With(("PreDepends" :> <<needsC>>) @@ ("Recommends" :> <<likesD>>)),
   With(("Breaks" :> <<noC>>) @@ ("Suggests" :> <<likesD>>)), With(("Recommends" :> <<needsC>>) @@ ("Depends" :> <<needsC>>))}

World(ofA2, ofC, auto) ==
  [versions |-> (a :> <<ai, a2, a1>>) @@ (b :> <<bi, b2>>) @@ (c :> IF ofC = NoRelations THEN <<c2, c1, c1x>> ELSE <<c2, c1x, c1>>) @@ (d :> <<d2>>),
   package |-> [v \in {ai, a1, a2, bi, b2, c1, c1x, c2, d2} |->
                  IF v \in {ai, a1, a2} THEN a ELSE IF v \in {bi, b2} THEN b ELSE IF v = d2 THEN d ELSE c],
   original |-> (ai :> one) @@ (a1 :> one) @@ (a2 :> two) @@ (bi :> one) @@ (b2 :> two)
                  @@ (c1 :> one) @@ (c1x :> one) @@ (c2 :> two) @@ (d2 :> two),
   relations |-> (ai :> With(("Recommends" :> <<likesD>>) @@ ("Depends" :> <<needsB>>)))
                   @@ (a1 :> With(("Recommends" :> <<likesD>>) @@ ("Depends" :> <<needsB>>)))
                   @@ (a2 :> ofA2) @@ (bi :> With("Breaks" :> <<breaksC>>)) @@ (b2 :> With("Conflicts" :> <<noA2>>))
                   @@ (c1 :> ofC) @@ (c1x :> ofC)
                   @@ (c2 :> With("Conflicts" :> <<noA2>>)) @@ (d2 :> With("Conflicts" :> <<noC>>)),
   satisfying |-> (needsB :> <<bi, b2>>) @@ (needsC :> <<c2, c1>>) @@ (noC :> <<c2, c1x>>)
                    @@ (noA2 :> <<a2, b2>>) @@ (likesD :> <<d2>>) @@ (exactC :> <<c1x>>)
                    @@ (wantA :> <<a2>>) @@ (breaksC :> <<c2>>),
   source |-> (ai :> <<s1, one>>) @@ (a1 :> <<s1, one>>) @@ (a2 :> <<s1, two>>)
                @@ (bi :> <<s2, one>>) @@ (b2 :> <<s2, two>>) @@ (d2 :> <<s2, two>>)
                @@ (c1 :> <<s3, one>>) @@ (c1x :> <<s3, one>>) @@ (c2 :> <<s3, two>>),
   binaries |-> (<<s1, one>> :> {a}) @@ (<<s1, two>> :> {a}) @@ (<<s2, one>> :> {b})
                  @@ (<<s2, two>> :> {b, d}) @@ (<<s3, one>> :> {c}) @@ (<<s3, two>> :> {}),
   installed |-> {ai, bi}, automatic |-> auto]

SomeWorlds == {World(r, s, auto) : r \in RelationsOfA2,
                 s \in {NoRelations, With("Depends" :> <<needsB>>)}, auto \in {{b}}}

SomeOptions ==
  {[noRemove |-> level = 2, keepRecommends |-> keep, keepSuggests |-> keep,
    installRecommends |-> level > 0, installSuggests |-> FALSE, synchronize |-> level] :
      keep \in BOOLEAN, level \in 0..2}

Want(e) == [expression |-> e, invert |-> FALSE, must |-> TRUE]
Avoid(e) == [expression |-> e, invert |-> TRUE, must |-> TRUE]
Try(e) == [expression |-> e, invert |-> FALSE, must |-> FALSE]
SomeRequests == {<<>>, <<Want(wantA)>>, <<Want(exactC), Try(wantA)>>, <<Avoid(needsC)>>,
                 <<Avoid(noA2), Want(exactC)>>}
=============================================================================
