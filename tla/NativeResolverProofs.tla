------------------------ MODULE NativeResolverProofs ------------------------
(***************************************************************************)
(* The search of the native resolver never works with wrong broken         *)
(* relations, for every dependency graph and every way to grow the tree.   *)
(*                                                                         *)
(* NoPhantomIsBroken and BrokenIsExact speak of prepared solutions.  They  *)
(* are kept only because every solution that waits to be prepared still    *)
(* fits the parent it was made for: its action exchanges an element that   *)
(* is in the parent, nobody has changed the parent since, and the parent   *)
(* is not finished.  That is the inductive invariant Inv.                  *)
(*                                                                         *)
(* The other properties need more, each an invariant of its own on top of  *)
(* Inv: Complete (no answer has been lost), BranchesAreDisjoint (itself    *)
(* inductive), Ranked (ids are unique) and Reasoned (every decision has    *)
(* its reason).  The theorems are at the end of the module.                *)
(***************************************************************************)
EXTENDS NativeResolver, FiniteSetTheorems, WellFoundedInduction, TLAPS

-----------------------------------------------------------------------------
(***************************************************************************)
(* One solution of the search: what applying an action to it does to its   *)
(* elements and to its broken relations.                                   *)
(***************************************************************************)

(* The element of family f in s, an empty one if the family is not there:  *)
(* what verifyElement looks at. *)
Here(s, f) == IF f \in DOMAIN s.entries THEN s.entries[f].element ELSE EmptyOf(f)

(* Relation r is required by an element that is here. *)
NeededIn(g, s, r) == \E e \in Elements(g) : Here(s, Family(e)) = e /\ r \in g.requires[e]

(* t has new where s has old, and agrees with s elsewhere. *)
Exchanges(g, s, t, old, new) ==
    /\ new \in Elements(g)
    /\ Here(s, Family(new)) # new
    /\ \A e \in Elements(g) :
        Here(t, Family(e)) = IF Family(e) = Family(new) THEN new ELSE Here(s, Family(e))
    /\ \/ old \in Elements(g) /\ old = Here(s, Family(new))
       \/ /\ old = None
          /\ \A e \in Elements(g) : Family(e) = Family(new) => Here(s, Family(e)) # e

-----------------------------------------------------------------------------
(* No element is the null pointer. *)
LEMMA NoneIsNoElement ==
    ASSUME NEW g, IsGraph(g)
    PROVE  None \notin Elements(g)
  <1>1. SUFFICES ASSUME None \in Elements(g) PROVE FALSE
    OBVIOUS
  <1>2. None = <<Family(None), None[2]>>
    BY <1>1 DEF IsGraph, ElementsAreNamed
  <1>3. Len(None) = 0 /\ Len(<<Family(None), None[2]>>) = 2
    BY DEF None
  <1>4. QED
    BY <1>2, <1>3

(* verifyElement looks at the elements that are here. *)
LEMMA VerifyIsHere ==
    ASSUME NEW g, IsGraph(g), NEW s, NEW r \in Relations(g)
    PROVE  Verify(g, s, r) <=> \E e \in Successors(g, r) : Here(s, Family(e)) = e
  <1>1. \A e \in Successors(g, r) : e \in Elements(g)
    BY DEF IsGraph, SatisfiersAreElements, Successors, Image
  <1>2. \A e \in Elements(g) : e = EmptyOf(Family(e)) <=> IsEmptyElement(g, e)
    BY DEF IsGraph, ElementsAreNamed, EmptyOf, IsEmptyElement
  <1>3. QED
    BY <1>1, <1>2 DEF Verify, Here, HasFamily, EntryOf

(* The present elements of a solution are elements of the graph, each      *)
(* the one of its family that is here. *)
LEMMA PresentIsHere ==
    ASSUME NEW g, NEW s, IsSolution(g, s), NEW e
    PROVE  /\ e \in PresentElements(s) =>
                e \in Elements(g) /\ Family(e) \in DOMAIN s.entries /\ Here(s, Family(e)) = e
           /\ Family(e) \in DOMAIN s.entries /\ Here(s, Family(e)) = e => e \in PresentElements(s)
  BY DEF IsSolution, EntryType, PresentElements, Here

(* What is here for a family belongs to it. *)
LEMMA HereHasFamily ==
    ASSUME NEW g, NEW s, IsSolution(g, s), NEW f
    PROVE  Family(Here(s, f)) = f
  BY DEF IsSolution, Here, EmptyOf, Family

(* What is needed has dependants among the present elements. *)
LEMMA NeededHasDependants ==
    ASSUME NEW g, IsGraph(g), NEW s, IsSolution(g, s), NEW r
    PROVE  Dependants(g, s, r) # {} <=> NeededIn(g, s, r)
  <1>1. ASSUME NEW e \in Dependants(g, s, r) PROVE NeededIn(g, s, r)
    <2>1. e \in PresentElements(s) /\ r \in Requires(g, e)
      BY <1>1 DEF Dependants
    <2>2. e \in Elements(g) /\ Here(s, Family(e)) = e
      BY <2>1, PresentIsHere
    <2>3. QED
      BY <2>1, <2>2, NoneIsNoElement DEF NeededIn, Requires
  <1>2. ASSUME NEW e \in Elements(g), Here(s, Family(e)) = e, r \in g.requires[e]
        PROVE  e \in Dependants(g, s, r)
    <2>1. IsVersionElement(g, e) /\ (e[2] = 0 => Family(e) = User)
      BY <1>2 DEF IsGraph, OnlyVersionsRequire
    <2>2. Family(e) \in DOMAIN s.entries
      <3>1. SUFFICES ASSUME Family(e) \notin DOMAIN s.entries PROVE FALSE
        OBVIOUS
      <3>2. e[2] = 0
        BY <1>2, <3>1 DEF Here, EmptyOf
      <3>3. QED
        BY <2>1, <3>1, <3>2 DEF IsSolution
    <2>3. e \in PresentElements(s)
      BY <1>2, <2>2, PresentIsHere
    <2>4. QED
      BY <1>2, <2>3, NoneIsNoElement DEF Dependants, Requires
  <1>3. QED
    BY <1>1, <1>2 DEF NeededIn

(* The broken relations of a solution. *)
LEMMA BrokenIsNeeded ==
    ASSUME NEW g, IsGraph(g), NEW s, IsSolution(g, s), NEW r
    PROVE  r \in BrokenRelations(g, s) <=>
                r \in Relations(g) /\ NeededIn(g, s, r) /\ ~Verify(g, s, r)
  <1>1. r \in BrokenRelations(g, s) <=> Dependants(g, s, r) # {} /\ ~Verify(g, s, r)
    BY DEF BrokenRelations, Dependants
  <1>2. NeededIn(g, s, r) => r \in Relations(g)
    BY DEF NeededIn, IsGraph, OnlyVersionsRequire
  <1>3. QED
    BY <1>1, <1>2, NeededHasDependants

-----------------------------------------------------------------------------
(* Whatever holds before an exchange and not after it was held by the old  *)
(* element, and the other way round. *)
LEMMA ExchangeVerifies ==
    ASSUME NEW g, IsGraph(g), NEW s, IsSolution(g, s), NEW t, NEW old, NEW new,
           Exchanges(g, s, t, old, new), NEW r \in Relations(g)
    PROVE  /\ Verify(g, t, r) => Verify(g, s, r) \/ new \in Successors(g, r)
           /\ Verify(g, s, r) => Verify(g, t, r) \/ r \in SatisfiedBy(g, old)
           /\ r \in SatisfiedBy(g, old) => Verify(g, s, r)
           /\ new \in Successors(g, r) => Verify(g, t, r)
  <1>1. \A e \in Successors(g, r) : e \in Elements(g)
    BY DEF IsGraph, SatisfiersAreElements, Successors, Image
  <1>2. Verify(g, s, r) <=> \E e \in Successors(g, r) : Here(s, Family(e)) = e
    BY VerifyIsHere
  <1>3. Verify(g, t, r) <=> \E e \in Successors(g, r) : Here(t, Family(e)) = e
    BY VerifyIsHere
  <1>4. r \in SatisfiedBy(g, old) <=> old # None /\ old \in Successors(g, r)
    BY DEF SatisfiedBy, Predecessors
  <1>5. Verify(g, t, r) => Verify(g, s, r) \/ new \in Successors(g, r)
    BY <1>1, <1>2, <1>3 DEF Exchanges
  <1>6. Verify(g, s, r) => Verify(g, t, r) \/ r \in SatisfiedBy(g, old)
    <2>1. SUFFICES ASSUME NEW e \in Successors(g, r), Here(s, Family(e)) = e, ~Verify(g, t, r)
                   PROVE  r \in SatisfiedBy(g, old)
      BY <1>2
    <2>2. e \in Elements(g) /\ Here(t, Family(e)) # e
      BY <1>1, <1>3, <2>1
    <2>3. Family(e) = Family(new)
      BY <2>1, <2>2 DEF Exchanges
    <2>4. old = e
      BY <2>1, <2>2, <2>3 DEF Exchanges
    <2>5. QED
      BY <1>4, <2>1, <2>2, <2>4, NoneIsNoElement
  <1>7. r \in SatisfiedBy(g, old) => Verify(g, s, r)
    <2>1. SUFFICES ASSUME old # None, old \in Successors(g, r) PROVE Verify(g, s, r)
      BY <1>4
    <2>2. old = Here(s, Family(new)) /\ old \in Elements(g)
      BY <2>1 DEF Exchanges
    <2>3. Here(s, Family(old)) = old
      BY <2>2, HereHasFamily DEF Exchanges
    <2>4. QED
      BY <1>2, <2>1, <2>3
  <1>8. new \in Successors(g, r) => Verify(g, t, r)
    BY <1>3 DEF Exchanges
  <1>9. QED
    BY <1>5, <1>6, <1>7, <1>8

(* Who needs a relation after an exchange. *)
LEMMA ExchangeNeeds ==
    ASSUME NEW g, IsGraph(g), NEW s, IsSolution(g, s), NEW t, NEW old, NEW new,
           Exchanges(g, s, t, old, new), NEW r
    PROVE  /\ NeededIn(g, s, r) => NeededIn(g, t, r) \/ r \in Requires(g, old) \ Requires(g, new)
           /\ NeededIn(g, t, r) => NeededIn(g, s, r) \/ r \in Requires(g, new)
           /\ r \in Requires(g, new) => NeededIn(g, t, r)
           /\ r \in Requires(g, old) => NeededIn(g, s, r)
  <1>1. new \in Elements(g) /\ Requires(g, new) = g.requires[new]
    BY NoneIsNoElement DEF Exchanges, Requires
  <1>2. old = None \/ (old \in Elements(g) /\ Here(s, Family(old)) = old)
    BY HereHasFamily DEF Exchanges
  <1>3. r \in Requires(g, old) <=> old # None /\ r \in g.requires[old]
    BY DEF Requires
  <1>4. r \in Requires(g, new) => NeededIn(g, t, r)
    BY <1>1 DEF Exchanges, NeededIn
  <1>5. r \in Requires(g, old) => NeededIn(g, s, r)
    BY <1>2, <1>3 DEF NeededIn
  <1>6. NeededIn(g, t, r) => NeededIn(g, s, r) \/ r \in Requires(g, new)
    BY <1>1 DEF Exchanges, NeededIn
  <1>7. NeededIn(g, s, r) => NeededIn(g, t, r) \/ r \in Requires(g, old) \ Requires(g, new)
    <2>1. SUFFICES ASSUME NEW e \in Elements(g), Here(s, Family(e)) = e, r \in g.requires[e],
                          ~NeededIn(g, t, r)
                   PROVE  r \in Requires(g, old) \ Requires(g, new)
      BY DEF NeededIn
    <2>2. Here(t, Family(e)) # e
      BY <2>1 DEF NeededIn
    <2>3. Family(e) = Family(new)
      BY <2>1, <2>2 DEF Exchanges
    <2>4. old = e
      BY <2>1, <2>3 DEF Exchanges
    <2>5. QED
      BY <1>3, <1>4, <2>1, <2>4, NoneIsNoElement
  <1>8. QED
    BY <1>4, <1>5, <1>6, <1>7

(* Where UpdatedBroken can have got a relation from. *)
LEMMA UpdatedBrokenDomain ==
    ASSUME NEW g, NEW t, NEW old, NEW new, NEW priority, NEW r
    PROVE  r \in DOMAIN UpdatedBroken(g, t, old, new, priority) <=>
                /\ \/ r \in DOMAIN t.broken \ NoLongerNeeded(g, t, old, new)
                   \/ r \in NewlyRequired(g, t, old, new)
                   \/ r \in LostSatisfier(g, t, old, new)
                /\ r \notin Repaired(g, old, new)
  BY DEF UpdatedBroken

(***************************************************************************)
(* p_updateBrokenSuccessors keeps no relation that holds or that nobody    *)
(* needs: if all that s had recorded was really broken, so is all that is  *)
(* recorded after the exchange.                                            *)
(***************************************************************************)
LEMMA UpdatedBrokenIsSound ==
    ASSUME NEW g, IsGraph(g), NEW s, IsSolution(g, s), NEW t, IsSolution(g, t),
           NEW old, NEW new, Exchanges(g, s, t, old, new), NEW priority,
           t.broken = s.broken, DOMAIN s.broken \subseteq BrokenRelations(g, s)
    PROVE  DOMAIN UpdatedBroken(g, t, old, new, priority) \subseteq BrokenRelations(g, t)
  <1> SUFFICES ASSUME NEW r \in DOMAIN UpdatedBroken(g, t, old, new, priority)
               PROVE  r \in BrokenRelations(g, t)
    OBVIOUS
  <1>1. r \notin Repaired(g, old, new)
    BY UpdatedBrokenDomain
  <1>2. CASE r \in DOMAIN s.broken \ NoLongerNeeded(g, t, old, new)
    <2>1. r \in Relations(g) /\ NeededIn(g, s, r) /\ ~Verify(g, s, r)
      BY <1>2, BrokenIsNeeded
    <2>2. ~Verify(g, t, r)
      <3>1. SUFFICES ASSUME Verify(g, t, r) PROVE FALSE
        OBVIOUS
      <3>2. new \in Successors(g, r) /\ r \notin SatisfiedBy(g, old)
        BY <2>1, <3>1, ExchangeVerifies
      <3>3. r \in SatisfiedBy(g, new)
        BY <2>1, <3>2, NoneIsNoElement DEF SatisfiedBy, Predecessors, Exchanges
      <3>4. QED
        BY <1>1, <3>2, <3>3 DEF Repaired
    <2>3. NeededIn(g, t, r)
      <3>1. SUFFICES ASSUME r \in Requires(g, old) \ Requires(g, new) PROVE NeededIn(g, t, r)
        BY <2>1, ExchangeNeeds
      <3>2. Dependants(g, t, r) # {}
        BY <1>2, <3>1 DEF NoLongerNeeded
      <3>3. QED
        BY <3>2, NeededHasDependants
    <2>4. QED
      BY <2>1, <2>2, <2>3, BrokenIsNeeded
  <1>3. CASE r \in NewlyRequired(g, t, old, new) /\ r \notin DOMAIN s.broken
    <2>1. r \in Requires(g, new) /\ ~Verify(g, t, r)
      BY <1>3 DEF NewlyRequired
    <2>2. NeededIn(g, t, r)
      BY <2>1, ExchangeNeeds
    <2>3. r \in Relations(g)
      BY <2>2 DEF NeededIn, IsGraph, OnlyVersionsRequire
    <2>4. QED
      BY <2>1, <2>2, <2>3, BrokenIsNeeded
  <1>4. CASE r \in LostSatisfier(g, t, old, new)
    <2>1. r \in Relations(g) /\ Dependants(g, t, r) # {} /\ ~Verify(g, t, r)
      BY <1>4 DEF LostSatisfier, SatisfiedBy, Predecessors
    <2>2. QED
      BY <2>1, NeededHasDependants, BrokenIsNeeded
  <1>5. CASE r \in NewlyRequired(g, t, old, new) \cap NoLongerNeeded(g, t, old, new)
    BY <1>5 DEF NewlyRequired, NoLongerNeeded
  <1>6. QED
    BY <1>2, <1>3, <1>4, <1>5, UpdatedBrokenDomain

(***************************************************************************)
(* ... and, if an exchange never loses a dependency that old and new have  *)
(* in common, forgets none that has become broken.                         *)
(***************************************************************************)
LEMMA UpdatedBrokenIsComplete ==
    ASSUME NEW g, IsGraph(g), KeepsOwnDependencies(g),
           NEW s, IsSolution(g, s), NEW t, IsSolution(g, t),
           NEW old, NEW new, Exchanges(g, s, t, old, new), NEW priority,
           t.broken = s.broken, BrokenRelations(g, s) \subseteq DOMAIN s.broken
    PROVE  BrokenRelations(g, t) \subseteq DOMAIN UpdatedBroken(g, t, old, new, priority)
  <1> SUFFICES ASSUME NEW r \in BrokenRelations(g, t)
               PROVE  r \in DOMAIN UpdatedBroken(g, t, old, new, priority)
    OBVIOUS
  <1>1. r \in Relations(g) /\ NeededIn(g, t, r) /\ ~Verify(g, t, r) /\ Dependants(g, t, r) # {}
    BY BrokenIsNeeded, NeededHasDependants
  <1>2. new \notin Successors(g, r)
    BY <1>1, ExchangeVerifies
  <1>3. r \notin SatisfiedBy(g, new)
    BY <1>2 DEF SatisfiedBy, Predecessors
  <1>4. CASE r \in DOMAIN s.broken
    <2>1. r \notin NoLongerNeeded(g, t, old, new)
      BY <1>1 DEF NoLongerNeeded
    <2>2. QED
      BY <1>3, <1>4, <2>1, UpdatedBrokenDomain DEF Repaired
  <1>5. CASE r \notin DOMAIN s.broken /\ r \in Requires(g, new) \ Requires(g, old)
    BY <1>1, <1>3, <1>5, UpdatedBrokenDomain DEF NewlyRequired, Repaired
  <1>6. CASE r \notin DOMAIN s.broken /\ r \notin Requires(g, new) \ Requires(g, old)
    <2>1. NeededIn(g, s, r)
      BY <1>1, <1>6, ExchangeNeeds
    <2>2. Verify(g, s, r)
      BY <1>1, <1>6, <2>1, BrokenIsNeeded
    <2>3. r \in SatisfiedBy(g, old)
      BY <1>1, <2>2, ExchangeVerifies
    <2>4. old \in Elements(g) /\ old \in Successors(g, r) /\ Family(old) = Family(new) /\ old # new
      BY <2>3, NoneIsNoElement, HereHasFamily DEF SatisfiedBy, Predecessors, Exchanges
    <2>5. r \notin Requires(g, old) \cap Requires(g, new)
      BY <1>2, <2>4 DEF KeepsOwnDependencies, Exchanges
    <2>6. r \in LostSatisfier(g, t, old, new)
      BY <1>1, <1>3, <1>6, <2>3, <2>5 DEF LostSatisfier
    <2>7. QED
      BY <1>3, <2>6, UpdatedBrokenDomain DEF Repaired
  <1>7. QED
    BY <1>4, <1>5, <1>6

-----------------------------------------------------------------------------
(* What makes an action an exchange: its new element is not here, its old  *)
(* one is, and it is made of elements of the graph.                        *)
Fits(g, s, a) ==
    /\ a.new \in Elements(g)
    /\ a.priority \in Nat
    /\ a.by \in [version : Elements(g) \cup {None}, relation : Relations(g) \cup {NoRelation}]
    /\ NewElements(a.all) \subseteq Elements(g)
    /\ Here(s, Family(a.new)) # a.new
    /\ \/ a.old \in Elements(g) /\ a.old = Here(s, Family(a.new))
       \/ /\ a.old = None
          /\ \A e \in Elements(g) : Family(e) = Family(a.new) => Here(s, Family(e)) # e

(* A package without an entry has an empty element. *)
LEMMA AbsentHasEmpty ==
    ASSUME NEW g, IsGraph(g), NEW s, IsSolution(g, s),
           NEW f \in g.packages, f \notin DOMAIN s.entries
    PROVE  EmptyOf(f) \in Elements(g)
  BY DEF IsGraph, PackagesHaveElements, IsSolution

(* simulateSetPackageEntry finds what an element that is not here replaces. *)
LEMMA ConflictorIsHere ==
    ASSUME NEW g, IsGraph(g), NEW s, IsSolution(g, s),
           NEW e \in Elements(g), Here(s, Family(e)) # e
    PROVE  \/ Conflictor(g, s, e) \in Elements(g) /\ Conflictor(g, s, e) = Here(s, Family(e))
           \/ /\ Conflictor(g, s, e) = None
              /\ \A x \in Elements(g) : Family(x) = Family(e) => Here(s, Family(x)) # x
  <1>1. CASE Family(e) \in DOMAIN s.entries
    BY <1>1 DEF Conflictor, HasFamily, EntryOf, Here, IsSolution, EntryType
  <1>2. CASE Family(e) \notin DOMAIN s.entries /\ IsVersionElement(g, e)
    <2>1. e[2] # 0
      BY <1>2 DEF IsGraph, ElementsAreNamed, Here, EmptyOf
    <2>2. EmptyOf(Family(e)) \in Elements(g)
      BY <1>2, AbsentHasEmpty DEF IsVersionElement
    <2>3. QED
      BY <1>2, <2>1, <2>2 DEF Conflictor, HasFamily, Here
  <1>3. CASE Family(e) \notin DOMAIN s.entries /\ ~IsVersionElement(g, e)
    <2>1. ASSUME NEW x \in Elements(g), Family(x) = Family(e) PROVE x[2] # 0
      BY <1>3, <2>1 DEF IsGraph, ElementsAreNamed, IsVersionElement
    <2>2. ASSUME NEW x \in Elements(g), Family(x) = Family(e) PROVE Here(s, Family(x)) # x
      BY <1>3, <2>1, <2>2 DEF Here, EmptyOf
    <2>3. QED
      BY <1>3, <2>2 DEF Conflictor, HasFamily
  <1>4. QED
    BY <1>1, <1>2, <1>3

(* All actions that are generated for a relation which is really broken fit. *)
LEMMA PossibleActionsFit ==
    ASSUME NEW g, IsGraph(g), NEW s, IsSolution(g, s),
           NEW by \in [version : PresentElements(s), relation : DOMAIN s.broken],
           by.version \in Dependants(g, s, by.relation),
           DOMAIN s.broken \subseteq BrokenRelations(g, s),
           NEW a \in PossibleActions(g, s, by)
    PROVE  Fits(g, s, a)
  <1> DEFINE Made == FixActions(g, s, by) \cup ModifyActions(g, s, by)
  <1>1. /\ by.version \in Elements(g) /\ Here(s, Family(by.version)) = by.version
        /\ by.relation \in g.requires[by.version]
    <2>1. by.version \in PresentElements(s) /\ by.relation \in Requires(g, by.version)
      BY DEF Dependants
    <2>2. by.version \in Elements(g) /\ Here(s, Family(by.version)) = by.version
      BY <2>1, PresentIsHere
    <2>3. QED
      BY <2>1, <2>2, NoneIsNoElement DEF Requires
  <1>2. by.relation \in Relations(g) /\ ~Verify(g, s, by.relation)
    BY BrokenIsNeeded
  <1>3. s.broken[by.relation] \in Nat
    BY DEF IsSolution
  <1>4. by \in [version : Elements(g) \cup {None}, relation : Relations(g) \cup {NoRelation}]
    BY <1>1, <1>2
  <1>5. ASSUME NEW m \in FixActions(g, s, by)
        PROVE  /\ m.new \in Elements(g) /\ m.priority \in Nat /\ m.by = by
               /\ Here(s, Family(m.new)) # m.new
               /\ \/ m.old \in Elements(g) /\ m.old = Here(s, Family(m.new))
                  \/ /\ m.old = None
                     /\ \A e \in Elements(g) : Family(e) = Family(m.new) => Here(s, Family(e)) # e
    <2>1. PICK i \in DOMAIN g.satisfiers[by.relation] :
            m = NewAction(i, Conflictor(g, s, g.satisfiers[by.relation][i]),
                          g.satisfiers[by.relation][i], by, s.broken[by.relation])
      BY <1>5 DEF FixActions
    <2> DEFINE e == g.satisfiers[by.relation][i]
    <2>2. e \in Elements(g) /\ e \in Successors(g, by.relation)
      BY <1>2 DEF IsGraph, SatisfiersAreElements, Successors, Image
    <2>3. m.new = e /\ m.old = Conflictor(g, s, e) /\ m.priority = s.broken[by.relation] /\ m.by = by
      BY <2>1 DEF NewAction
    <2>4. Here(s, Family(e)) # e
      BY <1>2, <2>2, VerifyIsHere
    <2> HIDE DEF e
    <2>5. QED
      BY <1>3, <2>2, <2>3, <2>4, ConflictorIsHere
  <1>6. ASSUME NEW m \in ModifyActions(g, s, by)
        PROVE  /\ m.new \in Elements(g) /\ m.priority \in Nat /\ m.by = by
               /\ Here(s, Family(m.new)) # m.new
               /\ m.old \in Elements(g) /\ m.old = Here(s, Family(m.new))
    <2> DEFINE q == g.related[Family(by.version)]
    <2>1. PICK i \in DOMAIN q :
            /\ m = NewAction(Len(g.satisfiers[by.relation]) + i, by.version, q[i], by,
                             s.broken[by.relation])
            /\ q[i] # by.version
      BY <1>6 DEF ModifyActions
    <2>2. Family(by.version) \in g.packages
      BY <1>1 DEF IsGraph, OnlyVersionsRequire, IsVersionElement
    <2>3. q[i] \in Elements(g) /\ Family(q[i]) = Family(by.version)
      BY <2>2 DEF IsGraph, RelatedAreElements, Image
    <2>4. m.new = q[i] /\ m.old = by.version /\ m.priority = s.broken[by.relation] /\ m.by = by
      BY <2>1 DEF NewAction
    <2>5. QED
      BY <1>1, <1>3, <2>1, <2>3, <2>4
  <1> DEFINE all == IF Cardinality(Made) > 1 THEN {[at |-> x.at, new |-> x.new] : x \in Made} ELSE {}
  <1>7. PICK m \in Made : a = [m EXCEPT !.all = all]
    BY DEF PossibleActions
  <1>8. DOMAIN m = {"at", "old", "new", "by", "priority", "all"}
    BY DEF FixActions, ModifyActions, NewAction
  <1>9. /\ a.new = m.new /\ a.old = m.old /\ a.by = m.by /\ a.priority = m.priority /\ a.all = all
    BY <1>7, <1>8
  <1>10. NewElements(a.all) \subseteq Elements(g)
    <2>1. NewElements(all) \subseteq {x.new : x \in Made}
      BY DEF NewElements
    <2> HIDE DEF all
    <2>2. QED
      BY <1>5, <1>6, <1>9, <2>1
  <1> HIDE DEF Made
  <1>11. m \in FixActions(g, s, by) \/ m \in ModifyActions(g, s, by)
    BY DEF Made
  <1>12. QED
    BY <1>4, <1>5, <1>6, <1>9, <1>10, <1>11 DEF Fits

(* setRejections changes nobody's element and no broken relation. *)
LEMMA RejectionsKeep ==
    ASSUME NEW g, IsGraph(g), NEW s, IsSolution(g, s), NEW R \in SUBSET Elements(g)
    PROVE  /\ IsSolution(g, WithRejections(g, s, R))
           /\ WithRejections(g, s, R).broken = s.broken
           /\ WithRejections(g, s, R).level = s.level
           /\ WithRejections(g, s, R).finished = s.finished
           /\ \A e \in Elements(g) : Here(WithRejections(g, s, R), Family(e)) = Here(s, Family(e))
  <1> DEFINE families == {Family(e) : e \in {x \in R : Conflictor(g, s, x) # None}}
             Of(f) == {e \in R : Family(e) = f}
             entry(f) == IF f \in DOMAIN s.entries THEN s.entries[f]
                         ELSE Entry(EmptyOf(f), FALSE, NoReason, 0)
             t == WithRejections(g, s, R)
  <1>1. t = [s EXCEPT !.entries = [f \in DOMAIN s.entries \cup families |->
                IF f \in families THEN [entry(f) EXCEPT !.rejected = entry(f).rejected \cup Of(f)]
                ELSE entry(f)]]
    <2>1. "entries" \in DOMAIN s
      BY DEF IsSolution
    <2>2. QED
      BY <2>1, Zenon DEF WithRejections
  <1>2. ASSUME NEW f \in DOMAIN s.entries \cup families
        PROVE  entry(f) \in EntryType(g) /\ entry(f).element = Here(s, f) /\ Family(entry(f).element) = f
    <2>1. CASE f \in DOMAIN s.entries
      BY <2>1 DEF IsSolution, EntryType, Here
    <2>2. CASE f \notin DOMAIN s.entries
      <3>1. PICK e \in R : f = Family(e) /\ Conflictor(g, s, e) # None
        BY <2>2
      <3>2. f \in g.packages
        BY <2>2, <3>1 DEF Conflictor, HasFamily, IsVersionElement
      <3>3. EmptyOf(f) \in Elements(g)
        BY <2>2, <3>2, AbsentHasEmpty
      <3>4. QED
        BY <2>2, <3>3 DEF Entry, EntryType, NoReason, Here, EmptyOf, Family
    <2>3. QED
      BY <2>1, <2>2
  <1>3. /\ DOMAIN t = DOMAIN s /\ t.broken = s.broken /\ t.level = s.level /\ t.finished = s.finished
        /\ t.id = s.id /\ t.score = s.score
        /\ t.entries = [f \in DOMAIN s.entries \cup families |->
                IF f \in families THEN [entry(f) EXCEPT !.rejected = entry(f).rejected \cup Of(f)]
                ELSE entry(f)]
    BY <1>1 DEF IsSolution
  <1> HIDE DEF families, entry, t
  <1>4. ASSUME NEW f \in DOMAIN t.entries
        PROVE  t.entries[f] \in EntryType(g) /\ t.entries[f].element = Here(s, f)
               /\ Family(t.entries[f].element) = f
    <2>1. f \in DOMAIN s.entries \cup families
      BY <1>3, <1>4
    <2>2. Of(f) \subseteq Elements(g)
      OBVIOUS
    <2> HIDE DEF Of
    <2>3. [entry(f) EXCEPT !.rejected = entry(f).rejected \cup Of(f)] \in EntryType(g)
          /\ [entry(f) EXCEPT !.rejected = entry(f).rejected \cup Of(f)].element = entry(f).element
      BY <1>2, <2>1, <2>2 DEF EntryType
    <2>4. t.entries[f] = entry(f)
          \/ t.entries[f] = [entry(f) EXCEPT !.rejected = entry(f).rejected \cup Of(f)]
      BY <1>3, <2>1
    <2>5. QED
      BY <1>2, <2>1, <2>3, <2>4
  <1>5. DOMAIN t.entries = DOMAIN s.entries \cup families
        /\ t.entries = [f \in DOMAIN t.entries |-> t.entries[f]]
    BY <1>3
  <1>6. t.entries \in [DOMAIN t.entries -> EntryType(g)]
    BY <1>4, <1>5
  <1>7. IsSolution(g, t)
    BY <1>3, <1>4, <1>5, <1>6 DEF IsSolution
  <1>8. ASSUME NEW e \in Elements(g) PROVE Here(t, Family(e)) = Here(s, Family(e))
    BY <1>4, <1>5 DEF Here
  <1>9. QED
    BY <1>3, <1>7, <1>8 DEF t

(* p_setPackageEntryFromAction puts the new element where the old one was. *)
LEMMA EntryExchanges ==
    ASSUME NEW g, IsGraph(g), NEW s, IsSolution(g, s), NEW a, Fits(g, s, a)
    PROVE  /\ IsSolution(g, WithEntry(s, a))
           /\ WithEntry(s, a).broken = s.broken
           /\ WithEntry(s, a).finished = s.finished
           /\ Exchanges(g, s, WithEntry(s, a), a.old, a.new)
  <1> DEFINE f == Family(a.new)
             put == Entry(a.new, a.priority > 0, a.by, s.level)
             t == WithEntry(s, a)
  <1>1. /\ DOMAIN t = DOMAIN s /\ t.broken = s.broken /\ t.level = s.level /\ t.finished = s.finished
        /\ t.id = s.id /\ t.score = s.score
        /\ t.entries = [x \in DOMAIN s.entries \cup {f} |-> IF x = f THEN put ELSE s.entries[x]]
    BY DEF WithEntry, IsSolution
  <1>2. put \in EntryType(g) /\ put.element = a.new
    BY DEF Fits, Entry, EntryType, IsSolution
  <1> HIDE DEF put, t
  <1>3. ASSUME NEW x \in DOMAIN t.entries
        PROVE  t.entries[x] \in EntryType(g) /\ Family(t.entries[x].element) = x
    BY <1>1, <1>2, <1>3 DEF IsSolution
  <1>4. t.entries \in [DOMAIN t.entries -> EntryType(g)]
    BY <1>1, <1>3
  <1>5. IsSolution(g, t)
    BY <1>1, <1>3, <1>4 DEF IsSolution
  <1>6. ASSUME NEW e \in Elements(g)
        PROVE  Here(t, Family(e)) = IF Family(e) = f THEN a.new ELSE Here(s, Family(e))
    BY <1>1, <1>2 DEF Here
  <1>7. Exchanges(g, s, t, a.old, a.new)
    BY <1>6 DEF Exchanges, Fits
  <1>8. QED
    BY <1>1, <1>5, <1>7 DEF t

(***************************************************************************)
(* p_applyAction, as a whole.                                              *)
(***************************************************************************)
LEMMA ApplyActionKeeps ==
    ASSUME NEW g, IsGraph(g), NEW s, IsSolution(g, s), ~s.finished, NEW a, Fits(g, s, a),
           DOMAIN s.broken \subseteq BrokenRelations(g, s)
    PROVE  /\ IsSolution(g, ApplyAction(g, s, a))
           /\ ~ApplyAction(g, s, a).finished
           /\ DOMAIN ApplyAction(g, s, a).broken \subseteq BrokenRelations(g, ApplyAction(g, s, a))
           /\ KeepsOwnDependencies(g) /\ BrokenRelations(g, s) \subseteq DOMAIN s.broken =>
                BrokenRelations(g, ApplyAction(g, s, a)) \subseteq DOMAIN ApplyAction(g, s, a).broken
  <1> DEFINE R == Rejected(g, a)
             w == WithRejections(g, s, R)
             t == WithEntry(w, a)
             broken == UpdatedBroken(g, t, a.old, a.new, a.priority + 1)
             u == ApplyAction(g, s, a)
  <1>1. R \in SUBSET Elements(g)
    BY DEF Rejected, Fits, NewElements, Before
  <1>2. /\ IsSolution(g, w) /\ w.broken = s.broken /\ ~w.finished
        /\ \A e \in Elements(g) : Here(w, Family(e)) = Here(s, Family(e))
    BY <1>1, RejectionsKeep
  <1> HIDE DEF R, w
  <1>3. Fits(g, w, a)
    BY <1>2 DEF Fits
  <1>4. /\ IsSolution(g, t) /\ t.broken = s.broken /\ ~t.finished
        /\ Exchanges(g, w, t, a.old, a.new)
    BY <1>2, <1>3, EntryExchanges
  <1>5. Exchanges(g, s, t, a.old, a.new)
    BY <1>2, <1>4 DEF Exchanges
  <1> HIDE DEF t
  <1>6. DOMAIN broken \subseteq BrokenRelations(g, t)
    BY <1>4, <1>5, UpdatedBrokenIsSound
  <1>7. KeepsOwnDependencies(g) /\ BrokenRelations(g, s) \subseteq DOMAIN s.broken =>
            BrokenRelations(g, t) \subseteq DOMAIN broken
    BY <1>4, <1>5, UpdatedBrokenIsComplete
  <1>8. \A r \in DOMAIN broken : broken[r] \in Nat \ {0}
    <2>1. a.priority + 1 \in Nat \ {0}
      BY DEF Fits
    <2>2. \A r \in DOMAIN t.broken : t.broken[r] \in Nat \ {0}
      BY <1>4 DEF IsSolution
    <2>3. QED
      BY <2>1, <2>2 DEF UpdatedBroken
  <1>9. u = [t EXCEPT !.broken = broken]
    BY DEF ApplyAction, t, w, R
  <1> HIDE DEF broken, u
  <1>10. /\ DOMAIN u = DOMAIN t /\ u.broken = broken /\ u.entries = t.entries
         /\ u.level = t.level /\ u.id = t.id /\ u.score = t.score /\ u.finished = t.finished
    BY <1>4, <1>9 DEF IsSolution
  <1>11. BrokenRelations(g, u) = BrokenRelations(g, t)
    BY <1>10 DEF BrokenRelations, PresentElements, Verify, HasFamily, EntryOf
  <1>12. DOMAIN broken \subseteq Relations(g)
    BY <1>4, <1>6, BrokenIsNeeded
  <1>13. IsSolution(g, u)
    BY <1>4, <1>8, <1>10, <1>12 DEF IsSolution
  <1>14. QED
    BY <1>4, <1>6, <1>7, <1>10, <1>11, <1>13 DEF u

(* What broken relations, elements and actions depend on. *)
LEMMA SameEntries ==
    ASSUME NEW g, NEW s, NEW t, t.entries = s.entries
    PROVE  /\ BrokenRelations(g, t) = BrokenRelations(g, s)
           /\ \A f : Here(t, f) = Here(s, f)
           /\ \A a : Fits(g, t, a) <=> Fits(g, s, a)
  <1>1. BrokenRelations(g, t) = BrokenRelations(g, s)
    BY DEF BrokenRelations, PresentElements, Verify, HasFamily, EntryOf
  <1>2. \A f : Here(t, f) = Here(s, f)
    BY DEF Here
  <1>3. QED
    BY <1>1, <1>2 DEF Fits

(* prepareForResolving starts from exactly what is broken. *)
LEMMA InitialIsExact ==
    ASSUME NEW g, IsGraph(g)
    PROVE  /\ IsSolution(g, InitialSolution(g))
           /\ ~InitialSolution(g).finished
           /\ DOMAIN InitialSolution(g).broken = BrokenRelations(g, InitialSolution(g))
  <1> DEFINE first == [entries |-> InitialEntries(g), broken |-> <<>>, level |-> 0,
                       id |-> 0, score |-> 0, finished |-> FALSE]
             bad == {r \in UNION {Requires(g, e) : e \in PresentElements(first)} : ~Verify(g, first, r)}
             s == InitialSolution(g)
  <1>1. s = [first EXCEPT !.broken = [r \in bad |-> 1]]
    BY DEF InitialSolution
  <1>2. /\ DOMAIN s = {"entries", "broken", "level", "id", "score", "finished"}
        /\ s.entries = InitialEntries(g) /\ s.broken = [r \in bad |-> 1]
        /\ s.level = 0 /\ s.id = 0 /\ s.score = 0 /\ s.finished = FALSE
    BY <1>1
  <1>3. bad = BrokenRelations(g, s)
    <2>1. first.entries = s.entries
      BY <1>2
    <2>2. bad = BrokenRelations(g, first)
      BY DEF BrokenRelations
    <2> HIDE DEF bad, first, s
    <2>3. QED
      BY <2>1, <2>2, SameEntries
  <1> HIDE DEF first, bad, s
  <1>4. DOMAIN InitialEntries(g) = DOMAIN g.installed \cup {User}
    BY DEF InitialEntries
  <1>5. ASSUME NEW f \in DOMAIN InitialEntries(g)
        PROVE  InitialEntries(g)[f] \in EntryType(g) /\ Family(InitialEntries(g)[f].element) = f
    <2>1. EmptyOf(User) \in Elements(g) /\ User \notin DOMAIN g.installed
      BY DEF IsGraph, PackagesHaveElements
    <2>2. f # User => <<f, g.installed[f]>> \in Elements(g)
      BY <1>4 DEF IsGraph, PackagesHaveElements
    <2>3. CASE f # User
      <3> DEFINE e == <<f, g.installed[f]>>
      <3>1. InitialEntries(g)[f] = [element |-> e, sticked |-> FALSE, autoremoved |-> FALSE,
                                    rejected |-> {}, by |-> NoReason, level |-> 0]
        BY <1>4, <2>3 DEF InitialEntries, Entry
      <3>2. e \in Elements(g) /\ Family(e) = f
        BY <2>2, <2>3 DEF Family
      <3> HIDE DEF e
      <3>3. QED
        BY <3>1, <3>2 DEF EntryType, NoReason
    <2>4. CASE f = User
      <3>1. InitialEntries(g)[f] = [element |-> EmptyOf(User), sticked |-> TRUE, autoremoved |-> FALSE,
                                    rejected |-> {}, by |-> NoReason, level |-> 0]
        BY <1>4, <2>4 DEF InitialEntries, Entry
      <3>2. Family(EmptyOf(User)) = f
        BY <2>4 DEF EmptyOf, Family
      <3>3. QED
        BY <2>1, <3>1, <3>2 DEF EntryType, NoReason
    <2>5. QED
      BY <2>3, <2>4
  <1>6. InitialEntries(g) \in [DOMAIN InitialEntries(g) -> EntryType(g)]
    BY <1>5 DEF InitialEntries
  <1>7. DOMAIN s.broken \subseteq Relations(g)
    <2>1. ASSUME NEW e \in PresentElements(s) PROVE Requires(g, e) \subseteq Relations(g)
      <3>1. e \in Elements(g)
        BY <1>2, <1>5, <2>1 DEF PresentElements, EntryType
      <3>2. QED
        BY <3>1, NoneIsNoElement DEF Requires, IsGraph, OnlyVersionsRequire
    <2>2. QED
      BY <1>2, <1>3, <2>1 DEF BrokenRelations
  <1>8. \A r \in DOMAIN s.broken : s.broken[r] \in Nat \ {0}
    BY <1>2
  <1>9. IsSolution(g, s)
    <2>1. s.entries \in [DOMAIN s.entries -> EntryType(g)]
          /\ \A f \in DOMAIN s.entries : Family(s.entries[f].element) = f
      BY <1>2, <1>5, <1>6
    <2>2. s.level \in Nat /\ s.id \in Nat /\ s.score \in Int
      BY <1>2
    <2>3. s.finished \in BOOLEAN
      BY <1>2
    <2>4. DOMAIN g.installed \cup {User} \subseteq DOMAIN s.entries
      BY <1>2, <1>4
    <2>5. QED
      BY <1>2, <1>7, <1>8, <2>1, <2>2, <2>3, <2>4 DEF IsSolution
  <1>10. QED
    BY <1>2, <1>3, <1>9 DEF s

-----------------------------------------------------------------------------
LEMMA ImageIsFinite ==
    ASSUME NEW f, IsFiniteSet(DOMAIN f)
    PROVE  IsFiniteSet({f[x] : x \in DOMAIN f})
  <1> DEFINE T == {f[x] : x \in DOMAIN f}
             h == [x \in DOMAIN f |-> f[x]]
  <1>1. h \in Surjection(DOMAIN f, T)
    BY DEF Surjection
  <1>2. QED
    BY <1>1, FS_Surjection, Zenon

(* There are finitely many actions, and each one is a record with a position. *)
LEMMA PossibleActionsAreFinite ==
    ASSUME NEW g, IsGraph(g), NEW s, IsSolution(g, s),
           NEW by \in [version : PresentElements(s), relation : DOMAIN s.broken],
           by.version \in Dependants(g, s, by.relation)
    PROVE  /\ IsFiniteSet(PossibleActions(g, s, by))
           /\ \A a \in PossibleActions(g, s, by) : a # <<>> /\ a.at \in Nat
  <1> DEFINE p == g.satisfiers[by.relation]
             q == g.related[Family(by.version)]
             priority == s.broken[by.relation]
             F == FixActions(g, s, by)
             M == ModifyActions(g, s, by)
             all == IF Cardinality(F \cup M) > 1
                    THEN {[at |-> a.at, new |-> a.new] : a \in F \cup M} ELSE {}
  <1>1. by.relation \in Relations(g) /\ Family(by.version) \in g.packages
    <2>1. by.version \in Elements(g) /\ by.relation \in g.requires[by.version]
      BY PresentIsHere, NoneIsNoElement DEF Dependants, Requires
    <2>2. QED
      BY <2>1 DEF IsGraph, OnlyVersionsRequire, IsVersionElement
  <1>2. p \in Seq(Elements(g)) /\ q \in Seq(Elements(g))
    BY <1>1 DEF IsGraph, SatisfiersAreElements, RelatedAreElements
  <1>3. IsFiniteSet(DOMAIN p) /\ IsFiniteSet(DOMAIN q)
    <2>1. /\ Len(p) \in Nat /\ DOMAIN p = 1..Len(p)
          /\ Len(q) \in Nat /\ DOMAIN q = 1..Len(q)
      BY <1>2
    <2> HIDE DEF p, q
    <2>2. \A n \in Nat : IsFiniteSet(1..n)
      BY FS_Interval
    <2>3. QED
      BY <2>1, <2>2
  <1>4. IsFiniteSet(F)
    <2> DEFINE f == [i \in {j \in DOMAIN p : Replaceable(s, p[j])} |->
                        NewAction(i, Conflictor(g, s, p[i]), p[i], by, priority)]
    <2>1. F = {f[i] : i \in DOMAIN f}
      BY DEF FixActions
    <2>2. DOMAIN f \in SUBSET DOMAIN p
      OBVIOUS
    <2> HIDE DEF f, p
    <2>3. QED
      BY <1>3, <2>1, <2>2, FS_Subset, ImageIsFinite
  <1>5. IsFiniteSet(M)
    <2> DEFINE Better(e) == /\ ~EntryOf(s, by.version).sticked
                            /\ e # by.version
                            /\ e \notin EntryOf(s, by.version).rejected
                            /\ MakesSense(g, s, e, by.relation)
               f == [i \in {j \in DOMAIN q : Better(q[j])} |->
                        NewAction(Len(p) + i, by.version, q[i], by, priority)]
    <2>1. M = {f[i] : i \in DOMAIN f}
      BY DEF ModifyActions
    <2>2. DOMAIN f \in SUBSET DOMAIN q
      OBVIOUS
    <2> HIDE DEF f, q
    <2>3. QED
      BY <1>3, <2>1, <2>2, FS_Subset, ImageIsFinite
  <1>6. IsFiniteSet(F \cup M)
    BY <1>4, <1>5, FS_Union
  <1>7. ASSUME NEW a \in F \cup M
        PROVE  "new" \in DOMAIN [a EXCEPT !.all = all] /\ [a EXCEPT !.all = all].at \in Nat
    <2>1. Len(p) \in Nat /\ DOMAIN p = 1..Len(p) /\ DOMAIN q = 1..Len(q) /\ Len(q) \in Nat
      BY <1>2
    <2>2. DOMAIN a = {"at", "old", "new", "by", "priority", "all"}
      BY DEF FixActions, ModifyActions, NewAction
    <2>3. a.at \in DOMAIN p \/ \E i \in DOMAIN q : a.at = Len(p) + i
      BY DEF FixActions, ModifyActions, NewAction
    <2> HIDE DEF p, q, all, F, M
    <2>4. a.at \in Nat
      BY <2>1, <2>3
    <2>5. QED
      BY <2>2, <2>4
  <1>8. PossibleActions(g, s, by) = {[a EXCEPT !.all = all] : a \in F \cup M}
    BY DEF PossibleActions
  <1> HIDE DEF F, M, all
  <1>9. IsFiniteSet(PossibleActions(g, s, by))
    <2> DEFINE f == [a \in F \cup M |-> [a EXCEPT !.all = all]]
    <2>1. PossibleActions(g, s, by) = {f[a] : a \in DOMAIN f} /\ DOMAIN f = F \cup M
      BY <1>8
    <2> HIDE DEF f
    <2>2. QED
      BY <1>6, <2>1, ImageIsFinite
  <1>10. ASSUME NEW a \in PossibleActions(g, s, by) PROVE a # <<>> /\ a.at \in Nat
    <2>1. "new" \in DOMAIN a /\ a.at \in Nat
      BY <1>7, <1>8
    <2>2. DOMAIN <<>> = {}
      OBVIOUS
    <2>3. QED
      BY <2>1, <2>2
  <1>11. QED
    BY <1>9, <1>10

-----------------------------------------------------------------------------
(* A set of natural numbers has a least one. *)
LEMMA HasLeast ==
    ASSUME NEW J \in SUBSET Nat, J # {}
    PROVE  \E j \in J : \A k \in J : j <= k
  <1>1. PICK R : R = {p \in Nat \X Nat : p[1] < p[2]}
    OBVIOUS
  <1>2. R = OpToRel(<, Nat)
    BY <1>1 DEF OpToRel
  <1>3. IsWellFoundedOn(R, Nat)
    BY <1>2, NatLessThanWellFounded
  <1>4. PICK j \in J : \A k \in J : ~(<<k, j>> \in R)
    BY <1>3, WFMin
  <1>5. ASSUME NEW k \in J PROVE j <= k
    <2>1. <<k, j>> \notin R
      BY <1>4
    <2>2. k \in Nat /\ j \in Nat
      OBVIOUS
    <2>3. QED
      BY <1>1, <2>1, <2>2
  <1>6. QED
    BY <1>5

(* FirstIn finds one of the elements, if there is any. *)
LEMMA FirstInFinds ==
    ASSUME NEW T, NEW q \in Seq(T), NEW S, NEW x \in Image(q) \cap S
    PROVE  \E y \in FirstIn(q, S) : y \in Image(q) \cap S
  <1> DEFINE J == {j \in DOMAIN q : q[j] \in S}
  <1>1. DOMAIN q = 1..Len(q) /\ Len(q) \in Nat
    OBVIOUS
  <1>2. J \in SUBSET Nat /\ J # {}
    BY <1>1 DEF Image
  <1>3. PICK j \in J : \A k \in J : j <= k
    BY <1>2, HasLeast
  <1>4. ASSUME NEW k \in 1..j - 1 PROVE q[k] \notin S
    <2>1. k \in DOMAIN q /\ ~(j <= k)
      BY <1>1
    <2>2. QED
      BY <1>3, <2>1
  <1>5. q[j] \in FirstIn(q, S)
    BY <1>4 DEF FirstIn
  <1>6. QED
    BY <1>5 DEF Image

-----------------------------------------------------------------------------
(***************************************************************************)
(* What p_applyAction does to every entry.                                 *)
(***************************************************************************)
EntryIn(s, f) == IF f \in DOMAIN s.entries THEN s.entries[f] ELSE Entry(EmptyOf(f), FALSE, NoReason, 0)

RejectedFamilies(g, s, a) == {Family(e) : e \in {x \in Rejected(g, a) : Conflictor(g, s, x) # None}}

(* u has the new element of a for its family, and is s with more rejections *)
(* elsewhere. *)
Applied(g, s, a, u) ==
    /\ u.level = s.level
    /\ DOMAIN u.entries = DOMAIN s.entries \cup {Family(a.new)} \cup RejectedFamilies(g, s, a)
    /\ u.entries[Family(a.new)] = Entry(a.new, a.priority > 0, a.by, s.level)
    /\ \A f \in DOMAIN u.entries \ {Family(a.new)} :
        /\ f \notin DOMAIN s.entries => f \in g.packages
        /\ u.entries[f].element = EntryIn(s, f).element
        /\ u.entries[f].sticked = EntryIn(s, f).sticked
        /\ u.entries[f].by = EntryIn(s, f).by
        /\ u.entries[f].level = EntryIn(s, f).level
        /\ u.entries[f].rejected = EntryIn(s, f).rejected \cup {e \in Rejected(g, a) : Family(e) = f}

LEMMA ActionIsApplied ==
    ASSUME NEW g, IsGraph(g), NEW s, IsSolution(g, s), NEW a, Fits(g, s, a)
    PROVE  Applied(g, s, a, ApplyAction(g, s, a))
  <1> DEFINE R == Rejected(g, a)
             families == RejectedFamilies(g, s, a)
             Of(f) == {e \in R : Family(e) = f}
             w == WithRejections(g, s, R)
             t == WithEntry(w, a)
             u == ApplyAction(g, s, a)
             put == Entry(a.new, a.priority > 0, a.by, s.level)
             entry(f) == EntryIn(s, f)
  <1>1. w = [s EXCEPT !.entries = [f \in DOMAIN s.entries \cup families |->
                IF f \in families THEN [entry(f) EXCEPT !.rejected = entry(f).rejected \cup Of(f)]
                ELSE entry(f)]]
    <2>1. "entries" \in DOMAIN s
      BY DEF IsSolution
    <2>2. QED
      BY <2>1, Zenon DEF WithRejections, EntryIn, RejectedFamilies
  <1>2. R \in SUBSET Elements(g)
    BY DEF Rejected, Fits, NewElements, Before
  <1>3. IsSolution(g, w) /\ w.level = s.level
    BY <1>2, RejectionsKeep
  <1>4. u = [t EXCEPT !.broken = UpdatedBroken(g, t, a.old, a.new, a.priority + 1)]
    BY DEF ApplyAction
  <1>5. /\ DOMAIN w.entries = DOMAIN s.entries \cup families
        /\ \A f \in DOMAIN w.entries :
              w.entries[f] = IF f \in families
                             THEN [entry(f) EXCEPT !.rejected = entry(f).rejected \cup Of(f)]
                             ELSE entry(f)
    BY <1>1 DEF IsSolution
  <1> HIDE DEF w
  <1>6. /\ DOMAIN t = DOMAIN w /\ t.level = w.level
        /\ t.entries = [x \in DOMAIN w.entries \cup {Family(a.new)} |->
                            IF x = Family(a.new) THEN Entry(a.new, a.priority > 0, a.by, w.level)
                            ELSE w.entries[x]]
    BY <1>3 DEF WithEntry, IsSolution
  <1> HIDE DEF t
  <1>7. u.level = t.level /\ u.entries = t.entries
    BY <1>3, <1>4, <1>6 DEF IsSolution
  <1> HIDE DEF u, families
  <1>8. ASSUME NEW f \in families PROVE f \in DOMAIN s.entries \/ f \in g.packages
    <2>1. PICK e \in R : f = Family(e) /\ Conflictor(g, s, e) # None
      BY <1>8 DEF families, RejectedFamilies
    <2>2. QED
      BY <2>1 DEF Conflictor, HasFamily, IsVersionElement
  <1>9. ASSUME NEW f \in DOMAIN s.entries, f \notin families PROVE Of(f) = {}
    <2>1. SUFFICES ASSUME NEW e \in R, Family(e) = f PROVE FALSE
      OBVIOUS
    <2>2. Conflictor(g, s, e) = None
      BY <1>9, <2>1 DEF families, RejectedFamilies
    <2>3. Conflictor(g, s, e) \in Elements(g)
      BY <1>9, <2>1 DEF Conflictor, HasFamily, EntryOf, IsSolution, EntryType
    <2>4. QED
      BY <2>2, <2>3, NoneIsNoElement
  <1>10. ASSUME NEW f \in DOMAIN s.entries \cup families
         PROVE  /\ DOMAIN entry(f) = {"element", "sticked", "autoremoved", "rejected", "by", "level"}
                /\ entry(f).rejected \cup {} = entry(f).rejected
    <2>1. f \in DOMAIN s.entries => s.entries[f] \in EntryType(g)
      BY DEF IsSolution
    <2>2. QED
      BY <2>1 DEF EntryIn, Entry, EntryType
  <1>11. ASSUME NEW f \in DOMAIN u.entries \ {Family(a.new)}
         PROVE  /\ f \notin DOMAIN s.entries => f \in g.packages
                /\ u.entries[f].element = entry(f).element
                /\ u.entries[f].sticked = entry(f).sticked
                /\ u.entries[f].by = entry(f).by
                /\ u.entries[f].level = entry(f).level
                /\ u.entries[f].rejected = entry(f).rejected \cup Of(f)
    <2>1. f \in DOMAIN w.entries /\ u.entries[f] = w.entries[f]
      BY <1>6, <1>7
    <2>2. f \in DOMAIN s.entries \cup families
      BY <1>5, <2>1
    <2> HIDE DEF entry, Of
    <2>3. CASE f \in families
      <3>1. u.entries[f] = [entry(f) EXCEPT !.rejected = entry(f).rejected \cup Of(f)]
        BY <1>5, <2>1, <2>3
      <3>2. f \notin DOMAIN s.entries => f \in g.packages
        BY <1>8, <2>3
      <3>3. QED
        BY <1>10, <2>2, <3>1, <3>2
    <2>4. CASE f \notin families
      <3>1. u.entries[f] = entry(f) /\ Of(f) = {}
        BY <1>5, <1>9, <2>1, <2>2, <2>4
      <3>2. QED
        BY <1>10, <2>2, <2>4, <3>1
    <2>5. QED
      BY <2>3, <2>4
  <1>12. DOMAIN u.entries = DOMAIN s.entries \cup {Family(a.new)} \cup families
    BY <1>5, <1>6, <1>7
  <1>13. u.entries[Family(a.new)] = put /\ u.level = s.level
    BY <1>3, <1>6, <1>7
  <1> HIDE DEF entry, put
  <1>14. QED
    BY <1>11, <1>12, <1>13 DEF Applied, entry, put, families, u

(***************************************************************************)
(* The actions that are generated.  Each one is a fix or a modification;   *)
(* their positions differ, and each of them knows all of them unless it is *)
(* alone.                                                                  *)
(***************************************************************************)
ActionsAre(g, s, by, actions) ==
    /\ \A a \in actions : /\ a.by = by /\ a.priority = s.broken[by.relation]
                          /\ Replaceable(s, a.new)
                          /\ a.at \in Nat
                          /\ a.all = {} => actions = {a}
                          /\ a.all # {} => a.all = {[at |-> b.at, new |-> b.new] : b \in actions}
    /\ \A a, b \in actions : a.at = b.at => a = b
    /\ \A a \in actions :
            \/ \E i \in DOMAIN g.satisfiers[by.relation] :
                    a.at = i /\ a.new = g.satisfiers[by.relation][i]
            \/ \E i \in DOMAIN g.related[Family(by.version)] :
                    /\ a.at = Len(g.satisfiers[by.relation]) + i
                    /\ a.new = g.related[Family(by.version)][i] /\ a.new # by.version
    /\ \A e \in Successors(g, by.relation) : Replaceable(s, e) => \E a \in actions : a.new = e
    /\ \A e \in Image(g.related[Family(by.version)]) :
            /\ ~EntryOf(s, by.version).sticked /\ e # by.version
            /\ e \notin EntryOf(s, by.version).rejected
            /\ MakesSense(g, s, e, by.relation)
            => \E a \in actions : a.new = e

LEMMA PossibleActionsAre ==
    ASSUME NEW g, IsGraph(g), NEW s, IsSolution(g, s),
           NEW by \in [version : PresentElements(s), relation : DOMAIN s.broken],
           by.version \in Dependants(g, s, by.relation)
    PROVE  ActionsAre(g, s, by, PossibleActions(g, s, by))
  <1> DEFINE p == g.satisfiers[by.relation]
             q == g.related[Family(by.version)]
             priority == s.broken[by.relation]
             Better(e) == /\ ~EntryOf(s, by.version).sticked
                          /\ e # by.version
                          /\ e \notin EntryOf(s, by.version).rejected
                          /\ MakesSense(g, s, e, by.relation)
             F == FixActions(g, s, by)
             M == ModifyActions(g, s, by)
             Made == F \cup M
             place(a) == [at |-> a.at, new |-> a.new]
             all == IF Cardinality(Made) > 1 THEN {place(a) : a \in Made} ELSE {}
             known(a) == [a EXCEPT !.all = all]
             alone(a) == [a EXCEPT !.all = {}]
             actions == PossibleActions(g, s, by)
  <1>1. by.relation \in Relations(g) /\ Family(by.version) \in g.packages
        /\ by.version \in PresentElements(s)
    <2>1. by.version \in Elements(g) /\ by.relation \in g.requires[by.version]
      BY PresentIsHere, NoneIsNoElement DEF Dependants, Requires
    <2>2. QED
      BY <2>1 DEF IsGraph, OnlyVersionsRequire, IsVersionElement
  <1>2. p \in Seq(Elements(g)) /\ q \in Seq(Elements(g))
    BY <1>1 DEF IsGraph, SatisfiersAreElements, RelatedAreElements
  <1>3. actions = {known(a) : a \in Made}
    BY DEF PossibleActions
  <1>4. \A a \in F : \E i \in DOMAIN p :
            /\ a = NewAction(i, Conflictor(g, s, p[i]), p[i], by, priority)
            /\ Replaceable(s, p[i])
    BY DEF FixActions
  <1>5. \A a \in M : \E i \in DOMAIN q :
            a = NewAction(Len(p) + i, by.version, q[i], by, priority) /\ Better(q[i])
    BY DEF ModifyActions
  <1>6. \A i \in DOMAIN p : Replaceable(s, p[i]) =>
            NewAction(i, Conflictor(g, s, p[i]), p[i], by, priority) \in F
    BY DEF FixActions
  <1>7. \A i \in DOMAIN q : Better(q[i]) => NewAction(Len(p) + i, by.version, q[i], by, priority) \in M
    BY DEF ModifyActions
  <1>8. \A e \in Image(q) : Better(e) => Replaceable(s, e)
    <2>1. \A e \in Image(q) : Family(e) = Family(by.version)
      BY <1>1 DEF IsGraph, RelatedAreElements
    <2>2. QED
      BY <2>1 DEF Replaceable, EntryOf
  <1>9. DOMAIN p = 1..Len(p) /\ Len(p) \in Nat /\ DOMAIN q = 1..Len(q) /\ Len(q) \in Nat
    BY <1>2
  <1> HIDE DEF F, M, Better, p, q, priority
  <1>10. ASSUME NEW a \in Made
         PROVE  /\ a.by = by /\ a.priority = priority /\ Replaceable(s, a.new) /\ a.at \in Nat
                /\ DOMAIN a = {"at", "old", "new", "by", "priority", "all"} /\ a.all = {}
    <2>1. CASE a \in F
      BY <1>4, <1>9, <2>1 DEF NewAction
    <2>2. CASE a \in M
      BY <1>5, <1>8, <1>9, <2>2 DEF NewAction, Image
    <2>3. QED
      BY <2>1, <2>2
  <1>11. ASSUME NEW a \in Made, NEW b \in Made, a.at = b.at PROVE a = b
    <2>1. ASSUME NEW i \in DOMAIN p, NEW j \in DOMAIN q PROVE i # Len(p) + j
      BY <1>9
    <2>2. CASE a \in F /\ b \in F
      BY <1>4, <1>11, <2>2 DEF NewAction
    <2>3. CASE a \in M /\ b \in M
      <3>1. PICK i \in DOMAIN q : a = NewAction(Len(p) + i, by.version, q[i], by, priority)
        BY <1>5, <2>3
      <3>2. PICK j \in DOMAIN q : b = NewAction(Len(p) + j, by.version, q[j], by, priority)
        BY <1>5, <2>3
      <3>3. Len(p) + i = Len(p) + j
        BY <1>11, <3>1, <3>2 DEF NewAction
      <3>4. i = j
        BY <1>9, <3>3
      <3>5. QED
        BY <3>1, <3>2, <3>4
    <2>4. CASE (a \in F /\ b \in M) \/ (a \in M /\ b \in F)
      BY <1>4, <1>5, <1>11, <2>1, <2>4 DEF NewAction
    <2>5. QED
      BY <2>2, <2>3, <2>4
  <1>12. /\ Cardinality(Made) > 1 => all = {place(a) : a \in Made}
         /\ ~(Cardinality(Made) > 1) => all = {}
    OBVIOUS
  <1> HIDE DEF Made, all, actions
  <1>13. ASSUME NEW m \in Made
         PROVE  /\ known(m).by = m.by /\ known(m).priority = m.priority
                /\ known(m).new = m.new /\ known(m).at = m.at
                /\ known(m).all = all /\ place(known(m)) = place(m)
                /\ alone(known(m)) = m
    <2>1. DOMAIN m = {"at", "old", "new", "by", "priority", "all"} /\ m.all = {}
      BY <1>10
    <2>2. m = [x \in DOMAIN m |-> m[x]]
      BY <1>4, <1>5 DEF NewAction, Made
    <2>3. QED
      BY <2>1, <2>2
  <1> HIDE DEF known, alone, place
  <1>14. ASSUME all = {}, NEW a \in Made, NEW b \in Made PROVE a = b
    <2>1. SUFFICES ASSUME a # b PROVE FALSE
      OBVIOUS
    <2>2. IsFiniteSet(Made)
      <3> DEFINE f == [x \in actions |-> alone(x)]
      <3>1. IsFiniteSet(actions)
        BY PossibleActionsAreFinite DEF actions
      <3>2. Made = {alone(x) : x \in actions}
        BY <1>3, <1>13
      <3>3. IsFiniteSet(DOMAIN f) /\ Made = {f[x] : x \in DOMAIN f}
        BY <3>1, <3>2
      <3> HIDE DEF f
      <3>4. QED
        BY <3>3, ImageIsFinite
    <2>3. Cardinality(Made) \in Nat
      BY <2>2, FS_CardinalityType
    <2>4. {a, b} \in SUBSET Made /\ Cardinality({a, b}) = 2
      <3>1. IsFiniteSet({a}) /\ Cardinality({a}) = 1
        BY FS_Singleton
      <3>2. {a, b} = {a} \cup {b} /\ b \notin {a}
        BY <2>1
      <3>3. Cardinality({a} \cup {b}) = Cardinality({a}) + 1
        BY <3>1, <3>2, FS_AddElement
      <3>4. QED
        BY <3>1, <3>2, <3>3
    <2>5. Cardinality({a, b}) <= Cardinality(Made)
      BY <2>2, <2>4, FS_Subset
    <2>6. all = {place(x) : x \in Made}
      BY <1>12, <2>3, <2>4, <2>5
    <2>7. QED
      BY <1>14, <2>6
  <1>15. all # {} => all = {place(b) : b \in actions}
    <2>1. SUFFICES ASSUME all # {} PROVE all = {place(b) : b \in actions}
      OBVIOUS
    <2>2. all = {place(a) : a \in Made}
      BY <1>12, <2>1
    <2>3. ASSUME NEW b \in actions
          PROVE  \E a \in Made : place(b) = place(a)
      BY <1>3, <1>13
    <2>4. ASSUME NEW a \in Made
          PROVE  \E b \in actions : place(b) = place(a)
      BY <1>3, <1>13
    <2>5. QED
      BY <2>2, <2>3, <2>4
  <1>16. ASSUME NEW a \in actions
         PROVE  /\ a.by = by /\ a.priority = priority /\ Replaceable(s, a.new) /\ a.at \in Nat
                /\ a.all = {} => actions = {a}
                /\ a.all # {} => a.all = {place(b) : b \in actions}
    <2>1. PICK m \in Made : a = known(m)
      BY <1>3
    <2>2. a.by = m.by /\ a.priority = m.priority /\ a.new = m.new /\ a.at = m.at /\ a.all = all
      BY <1>13, <2>1
    <2>3. a.all = {} => actions = {a}
      BY <1>3, <1>14, <2>1, <2>2
    <2>4. QED
      BY <1>10, <1>15, <2>2, <2>3
  <1>17. ASSUME NEW a \in actions, NEW b \in actions, a.at = b.at PROVE a = b
    BY <1>3, <1>11, <1>13, <1>17
  <1>18. ASSUME NEW e \in Successors(g, by.relation), Replaceable(s, e)
         PROVE  \E a \in actions : a.new = e
    <2>1. PICK i \in DOMAIN p : e = p[i]
      BY DEF Successors, Image, p
    <2>2. NewAction(i, Conflictor(g, s, p[i]), p[i], by, priority) \in Made
      BY <1>6, <1>18, <2>1 DEF Made
    <2>3. NewAction(i, Conflictor(g, s, p[i]), p[i], by, priority).new = e
      BY <2>1 DEF NewAction
    <2>4. QED
      BY <1>3, <1>13, <2>2, <2>3
  <1>19. ASSUME NEW e \in Image(q), Better(e)
         PROVE  \E a \in actions : a.new = e
    <2>1. PICK i \in DOMAIN q : e = q[i]
      BY DEF Image
    <2>2. NewAction(Len(p) + i, by.version, q[i], by, priority) \in Made
      BY <1>7, <1>19, <2>1 DEF Made
    <2>3. NewAction(Len(p) + i, by.version, q[i], by, priority).new = e
      BY <2>1 DEF NewAction
    <2>4. QED
      BY <1>3, <1>13, <2>2, <2>3
  <1>20. ASSUME NEW a \in actions
         PROVE  \/ \E i \in DOMAIN p : a.at = i /\ a.new = p[i]
                \/ \E i \in DOMAIN q : a.at = Len(p) + i /\ a.new = q[i] /\ a.new # by.version
    <2>1. PICK m \in Made : a = known(m)
      BY <1>3
    <2>2. a.at = m.at /\ a.new = m.new
      BY <1>13, <2>1
    <2>3. CASE m \in F
      BY <1>4, <2>2, <2>3 DEF NewAction
    <2>4. CASE m \in M
      BY <1>5, <2>2, <2>4 DEF NewAction, Better
    <2>5. QED
      BY <2>3, <2>4 DEF Made
  <1>21. QED
    BY <1>16, <1>17, <1>18, <1>19, <1>20 DEF p, ActionsAre, Better, place, q, priority, actions

-----------------------------------------------------------------------------
(***************************************************************************)
(* The search.                                                             *)
(***************************************************************************)

(* What the invariants say of one prepared solution. *)
Good(g, s) ==
    /\ IsSolution(g, s)
    /\ IF s.finished THEN DOMAIN s.broken = {} ELSE DOMAIN s.broken \subseteq BrokenRelations(g, s)
    /\ KeepsOwnDependencies(g) => BrokenRelations(g, s) \subseteq DOMAIN s.broken

GoodHeap(g, h) ==
    /\ IsFiniteSet(DOMAIN h)
    /\ Initial \in DOMAIN h
    /\ \A ref \in DOMAIN h : Good(g, h[ref])

(* Node n of the tree refers to solution s and has an id below limit. *)
GoodNode(g, s, n, limit) ==
    /\ n.id \in Nat /\ n.id < limit
    /\ IsPrepared(n) => n = PreparedNode(n.ref)
    /\ ~IsPrepared(n) => n.score \in Int /\ ~s.finished /\ Fits(g, s, n.action)

GoodTree(g, h, t, limit) ==
    /\ \A n \in t : n.ref \in DOMAIN h /\ GoodNode(g, h[n.ref], n, limit)
    /\ \A m, n \in t : IsPrepared(m) /\ m.ref = n.ref => m = n

Inv ==
    /\ IsGraph(graph)
    /\ IsOptions(options)
    /\ nextId \in Nat \ {0}
    /\ GoodHeap(graph, heap)
    /\ GoodTree(graph, heap, tree, nextId)
    /\ offer # NoOffer => IsSolution(graph, offer)
    /\ (offer # NoOffer) = (status = "offering")
    /\ status \in {"resolving", "offering"} \cup Endings

-----------------------------------------------------------------------------
(* Forgetting objects and nodes does no harm. *)
LEMMA LiveKeeps ==
    ASSUME NEW g, NEW h, GoodHeap(g, h), NEW t, NEW limit \in Nat \ {0}, GoodTree(g, h, t, limit),
           NEW t2, t2 \subseteq t \/ t2 = {PreparedNode(Initial)}
    PROVE  GoodHeap(g, Live(h, t2)) /\ GoodTree(g, Live(h, t2), t2, limit)
  <1> DEFINE l == Live(h, t2)
  <1>1. /\ DOMAIN l = DOMAIN h \cap ({Initial} \cup {n.ref : n \in t2})
        /\ \A ref \in DOMAIN l : l[ref] = h[ref]
    BY DEF Live
  <1>2. GoodHeap(g, l)
    BY <1>1, FS_Subset DEF GoodHeap
  <1>3. CASE t2 \subseteq t
    BY <1>1, <1>2, <1>3 DEF GoodTree
  <1>4. CASE t2 = {PreparedNode(Initial)}
    <2>1. PreparedNode(Initial).ref = Initial /\ IsPrepared(PreparedNode(Initial))
          /\ PreparedNode(Initial).id = 0
      BY DEF PreparedNode, IsPrepared
    <2>2. GoodNode(g, l[Initial], PreparedNode(Initial), limit)
      BY <2>1 DEF GoodNode
    <2>3. QED
      BY <1>2, <1>4, <2>1, <2>2 DEF GoodTree, GoodHeap
  <1>5. QED
    BY <1>2, <1>3, <1>4

-----------------------------------------------------------------------------
(* Preparing a node gives a good solution. *)
LEMMA PreparedIsGood ==
    ASSUME Inv, NEW n \in tree
    PROVE  Good(graph, Prepared(n)) /\ (~IsPrepared(n) => ~Prepared(n).finished)
  <1>1. /\ n.ref \in DOMAIN heap /\ Good(graph, heap[n.ref])
        /\ GoodNode(graph, heap[n.ref], n, nextId) /\ IsGraph(graph)
    BY DEF Inv, GoodTree, GoodHeap
  <1>2. CASE IsPrepared(n)
    BY <1>1, <1>2 DEF Prepared
  <1>3. CASE ~IsPrepared(n)
    <2> DEFINE p == heap[n.ref]
               s == [p EXCEPT !.id = n.id, !.score = @ + n.score, !.level = @ + 1, !.finished = FALSE]
    <2>1. IsSolution(graph, p) /\ n.id \in Nat /\ n.score \in Int /\ ~p.finished
          /\ Fits(graph, p, n.action)
      BY <1>1, <1>3 DEF Good, GoodNode
    <2>2. /\ s.entries = p.entries /\ s.broken = p.broken /\ ~s.finished
          /\ IsSolution(graph, s)
      BY <2>1 DEF IsSolution
    <2>3. Prepared(n) = ApplyAction(graph, s, n.action)
      BY <1>3 DEF Prepared
    <2> HIDE DEF s
    <2>4. BrokenRelations(graph, s) = BrokenRelations(graph, p) /\ Fits(graph, s, n.action)
      BY <2>1, <2>2, SameEntries
    <2>5. /\ DOMAIN s.broken \subseteq BrokenRelations(graph, s)
          /\ KeepsOwnDependencies(graph) => BrokenRelations(graph, s) \subseteq DOMAIN s.broken
      BY <1>1, <2>1, <2>2, <2>4 DEF Good
    <2>6. QED
      BY <1>1, <2>2, <2>3, <2>4, <2>5, ApplyActionKeeps DEF Good
  <1>4. QED
    BY <1>2, <1>3

(* The reference it is stored under is its own or a new one. *)
LEMMA RefIsFresh ==
    ASSUME Inv, NEW n \in tree
    PROVE  (IsPrepared(n) /\ RefOf(n) = n.ref) \/ (~IsPrepared(n) /\ RefOf(n) \notin DOMAIN heap)
  <1> DEFINE D == DOMAIN heap
             c == Cardinality(D)
  <1>1. IsFiniteSet(D) /\ c \in Nat
    BY FS_CardinalityType DEF Inv, GoodHeap
  <1>2. \E ref \in 0..c : ref \notin D
    <2>1. SUFFICES ASSUME 0..c \in SUBSET D PROVE FALSE
      OBVIOUS
    <2>2. Cardinality(0..c) = c + 1
      BY <1>1, FS_Interval
    <2>3. Cardinality(0..c) <= c
      BY <1>1, <2>1, FS_Subset
    <2>4. QED
      BY <1>1, <2>2, <2>3
  <1> DEFINE new == CHOOSE ref \in 0..c : ref \notin D
  <1>3. new \notin D
    BY <1>2
  <1>4. RefOf(n) = IF IsPrepared(n) THEN n.ref ELSE new
    BY DEF RefOf
  <1>5. QED
    BY <1>3, <1>4

(* A broken pair of a prepared node, and what can be done about it. *)
LEMMA BrokenPairActs ==
    ASSUME Inv, NEW n \in tree, NEW by \in Pairs(Prepared(n)), BrokenPair(Prepared(n), by)
    PROVE  /\ ~Prepared(n).finished
           /\ IsFiniteSet(PossibleActions(graph, Prepared(n), by))
           /\ \A a \in PossibleActions(graph, Prepared(n), by) :
                a # NoAction /\ a.at \in Nat /\ Fits(graph, Prepared(n), a)
  <1> DEFINE s == Prepared(n)
  <1>1. Good(graph, s) /\ IsGraph(graph)
    BY PreparedIsGood DEF Inv
  <1>2. /\ by \in [version : PresentElements(s), relation : DOMAIN s.broken]
        /\ by.version \in Dependants(graph, s, by.relation)
    BY DEF Pairs, BrokenPair
  <1> HIDE DEF s
  <1>3. ~s.finished /\ IsSolution(graph, s) /\ DOMAIN s.broken \subseteq BrokenRelations(graph, s)
    BY <1>1, <1>2 DEF Good
  <1>4. \A a \in PossibleActions(graph, s, by) : Fits(graph, s, a)
    BY <1>1, <1>2, <1>3, PossibleActionsFit
  <1>5. /\ IsFiniteSet(PossibleActions(graph, s, by))
        /\ \A a \in PossibleActions(graph, s, by) : a # NoAction /\ a.at \in Nat
    BY <1>1, <1>2, <1>3, PossibleActionsAreFinite DEF NoAction
  <1>6. QED
    BY <1>3, <1>4, <1>5 DEF s

(* Marking a solved solution as finished, and cleaning it. *)
LEMMA FinishedIsGood ==
    ASSUME Inv, NEW n \in tree, IsSolved(n)
    PROVE  Good(graph, Finished(n)) /\ Finished(n).finished = TRUE
           /\ DOMAIN Finished(n).broken = {}
  <1> DEFINE s == Prepared(n)
  <1>1. IsSolution(graph, s) /\ DOMAIN s.broken = {}
        /\ (KeepsOwnDependencies(graph) => BrokenRelations(graph, s) = {})
    BY PreparedIsGood DEF Good, IsSolved
  <1> DEFINE t == Finished(n)
  <1>2. t = [s EXCEPT !.finished = TRUE]
    BY DEF Finished
  <1> HIDE DEF s, t
  <1>3. /\ IsSolution(graph, t) /\ t.finished = TRUE /\ DOMAIN t.broken = {}
        /\ t.entries = s.entries
    BY <1>1, <1>2 DEF IsSolution
  <1>4. BrokenRelations(graph, t) = BrokenRelations(graph, s)
    BY <1>3, SameEntries
  <1>5. QED
    BY <1>1, <1>3, <1>4 DEF Good, t

(* Cleaning keeps what may not be removed and what a kept element needs. *)
LEMMA NeededIsClosed ==
    ASSUME NEW s
    PROVE  /\ Needed(s) \subseteq PresentElements(s)
           /\ \A e \in PresentElements(s) : ~Removable(s, e) => e \in Needed(s)
           /\ \A e \in Needed(s) : NeededBy(s, e) \subseteq Needed(s)
  <1> DEFINE all == PresentElements(s)
             Closed(kept) == /\ {e \in all : ~Removable(s, e)} \subseteq kept
                             /\ \A e \in kept : NeededBy(s, e) \subseteq kept
  <1>1. Needed(s) = {e \in all : \A kept \in SUBSET all : Closed(kept) => e \in kept}
    BY DEF Needed
  <1>2. \A e : NeededBy(s, e) \subseteq all
    BY DEF NeededBy, KeptBy, FirstIn
  <1>3. ASSUME NEW e \in Needed(s), NEW x \in NeededBy(s, e) PROVE x \in Needed(s)
    <2>1. ASSUME NEW kept \in SUBSET all, Closed(kept) PROVE x \in kept
      <3>1. e \in kept
        BY <1>1, <1>3, <2>1
      <3>2. QED
        BY <1>3, <2>1, <3>1
    <2> HIDE DEF Closed
    <2>2. QED
      BY <1>1, <1>2, <1>3, <2>1
  <1>4. \A e \in all : ~Removable(s, e) => e \in Needed(s)
    BY <1>1
  <1> HIDE DEF Closed
  <1>5. QED
    BY <1>1, <1>3, <1>4

(* What cleaning makes of the entries: it keeps those of the needed        *)
(* elements, and whatever it puts in requires nothing. *)
LEMMA CleanedElements ==
    ASSUME IsGraph(graph), NEW s, IsSolution(graph, s), \A e \in Unneeded(s) : CanBeEmptied(e)
    PROVE  /\ DOMAIN Cleaned(s).entries = DOMAIN s.entries
           /\ PresentElements(s) \subseteq Elements(graph)
           /\ \A z \in Needed(s) : Present(Cleaned(s), z) /\ EntryOf(Cleaned(s), z) = EntryOf(s, z)
           /\ \A y \in PresentElements(s) \ Needed(s) :
                    /\ Removable(s, y) /\ CanBeEmptied(y)
                    /\ Present(Cleaned(s), EmptyOf(Family(y)))
           /\ \A e \in PresentElements(Cleaned(s)) \ Needed(s) :
                    IsEmptyElement(graph, e) /\ Requires(graph, e) = {}
  <1> DEFINE c == Cleaned(s)
             all == PresentElements(s)
             empty(f) == [Entry(EmptyOf(f), FALSE, NoReason, 0) EXCEPT !.autoremoved = TRUE]
  <1>1. /\ \A f \in DOMAIN s.entries : Family(s.entries[f].element) = f
        /\ DOMAIN s = {"entries", "broken", "level", "id", "score", "finished"}
        /\ all \subseteq Elements(graph)
    BY DEF IsSolution, EntryType, PresentElements
  <1>2. \A f : Family(EmptyOf(f)) = f /\ EmptyOf(f)[2] = 0 /\ empty(f).element = EmptyOf(f)
    BY DEF Family, EmptyOf, Entry
  <1>3. /\ DOMAIN c.entries = DOMAIN s.entries
        /\ \A f \in DOMAIN s.entries :
              c.entries[f] = IF s.entries[f].element \in Needed(s) THEN s.entries[f] ELSE empty(f)
    BY <1>1 DEF Cleaned
  <1>4. Needed(s) \subseteq all /\ \A e \in all : ~Removable(s, e) => e \in Needed(s)
    BY NeededIsClosed
  <1> HIDE DEF c, empty
  <1>5. ASSUME NEW z \in Needed(s) PROVE Present(c, z) /\ EntryOf(c, z) = EntryOf(s, z)
    <2>1. PICK f \in DOMAIN s.entries : s.entries[f].element = z
      BY <1>4, <1>5 DEF PresentElements
    <2>2. Family(z) = f
      BY <1>1, <2>1
    <2>3. QED
      BY <1>3, <1>5, <2>1, <2>2 DEF HasFamily, EntryOf, Present
  <1>6. ASSUME NEW y \in all \ Needed(s)
        PROVE  Removable(s, y) /\ CanBeEmptied(y) /\ Present(c, EmptyOf(Family(y)))
    <2>1. PICK f \in DOMAIN s.entries : s.entries[f].element = y
      BY <1>6 DEF PresentElements
    <2>2. Family(y) = f
      BY <1>1, <2>1
    <2>3. y \in Unneeded(s)
      BY <1>6 DEF Unneeded
    <2>4. QED
      BY <1>2, <1>3, <1>4, <1>6, <2>1, <2>2, <2>3 DEF HasFamily, EntryOf, Present
  <1>7. ASSUME NEW e \in PresentElements(c) \ Needed(s)
        PROVE  IsEmptyElement(graph, e) /\ Requires(graph, e) = {}
    <2>1. PICK f \in DOMAIN s.entries : e = c.entries[f].element
      BY <1>3 DEF PresentElements
    <2> DEFINE x == s.entries[f].element
    <2>2. x \in all /\ x \in Elements(graph) /\ Family(x) = f
      BY <1>1 DEF PresentElements
    <2>3. x \notin Needed(s) /\ e = EmptyOf(f)
      BY <1>2, <1>3, <1>7, <2>1
    <2>4. Removable(s, x) /\ CanBeEmptied(x)
      BY <1>6, <2>2, <2>3
    <2>5. f \in graph.packages /\ ~(x[2] = 0)
      BY <2>2, <2>4 DEF Removable, IsVersionElement, IsEmptyElement
    <2>6. e \in Elements(graph) /\ e # None
      <3>1. e \in Elements(graph)
        BY <2>2, <2>3, <2>4, <2>5 DEF CanBeEmptied, IsGraph, RelatedAreElements, Image
      <3>2. QED
        BY <3>1, NoneIsNoElement
    <2>7. e[2] = 0 /\ Family(e) = f
      BY <1>2, <2>3
    <2>8. f # User
      <3>1. SUFFICES ASSUME f = User PROVE FALSE
        OBVIOUS
      <3>2. x = EmptyOf(User)
        BY <1>2, <2>2, <3>1 DEF IsGraph, AlternativesAreVersions, PackagesHaveElements
      <3>3. QED
        BY <1>2, <2>5, <3>2
    <2>9. Requires(graph, e) = {}
      BY <2>6, <2>7, <2>8 DEF IsGraph, OnlyVersionsRequire, Requires
    <2>10. QED
      BY <2>5, <2>7, <2>9 DEF IsEmptyElement, IsVersionElement
  <1>8. QED
    BY <1>1, <1>3, <1>5, <1>6, <1>7 DEF c

(* No dependency of what stays is lost by cleaning: of the elements that   *)
(* satisfy one at least one stays, and an anti relation does not mind that *)
(* a package goes.                                                         *)
LEMMA CleaningVerifies ==
    ASSUME IsGraph(graph), NEW s, IsSolution(graph, s), BrokenRelations(graph, s) = {},
           \A e \in Unneeded(s) : CanBeEmptied(e)
    PROVE  Verified(Cleaned(s)) /\ BrokenRelations(graph, Cleaned(s)) = {}
  <1> DEFINE c == Cleaned(s)
             all == PresentElements(s)
  <1>1. /\ Needed(s) \subseteq all
        /\ \A e \in all : ~Removable(s, e) => e \in Needed(s)
        /\ \A e \in Needed(s) : NeededBy(s, e) \subseteq Needed(s)
    BY NeededIsClosed
  <1>2. /\ DOMAIN c.entries = DOMAIN s.entries
        /\ all \subseteq Elements(graph)
        /\ \A z \in Needed(s) : Present(c, z)
        /\ \A y \in all \ Needed(s) :
                Removable(s, y) /\ CanBeEmptied(y) /\ Present(c, EmptyOf(Family(y)))
        /\ \A e \in PresentElements(c) \ Needed(s) : Requires(graph, e) = {}
    BY CleanedElements
  <1> HIDE DEF c
  <1>3. ASSUME NEW r \in Relations(graph), NEW z \in Successors(graph, r), Present(c, z)
        PROVE  Verify(graph, c, r)
    BY <1>3 DEF Verify, Present
  <1>4. ASSUME NEW e \in PresentElements(c), NEW r \in Requires(graph, e) PROVE Verify(graph, c, r)
    <2>1. e \in Needed(s) /\ e \in all /\ e \in Elements(graph)
      BY <1>1, <1>2, <1>4
    <2>2. Verify(graph, s, r)
      BY <1>4, <2>1 DEF BrokenRelations
    <2>3. r \in Relations(graph)
      BY <1>4, <2>1, NoneIsNoElement DEF IsGraph, OnlyVersionsRequire, Requires
    <2>4. PICK y \in Successors(graph, r) :
                IF HasFamily(s, y) THEN EntryOf(s, y).element = y ELSE IsEmptyElement(graph, y)
      BY <2>2 DEF Verify
    <2>5. CASE ~HasFamily(s, y)
      <3>1. ~HasFamily(c, y)
        BY <1>2, <2>5 DEF HasFamily
      <3>2. QED
        BY <2>4, <2>5, <3>1 DEF Verify
    <2>6. CASE HasFamily(s, y) /\ y \in Needed(s)
      BY <1>2, <1>3, <2>3, <2>6
    <2>7. CASE HasFamily(s, y) /\ y \notin Needed(s)
      <3>1. y \in all
        BY <2>4, <2>7 DEF PresentElements, HasFamily, EntryOf
      <3>2. CASE r \in graph.anti
        <4>1. Removable(s, y) /\ CanBeEmptied(y) /\ Present(c, EmptyOf(Family(y)))
          BY <1>2, <2>7, <3>1
        <4>2. EmptyOf(Family(y)) \in Successors(graph, r)
          BY <2>3, <3>2, <4>1 DEF IsGraph, OnlyAntiAllowsRemoval, CanBeEmptied, Removable
        <4>3. QED
          BY <1>3, <2>3, <4>1, <4>2
      <3>3. CASE r \notin graph.anti
        <4> DEFINE q == graph.satisfiers[r]
                   here == Successors(graph, r) \cap all
        <4>1. \E z \in here : z \in Needed(s)
          <5>1. CASE \E z \in here : ~Removable(s, z)
            BY <1>1, <5>1
          <5>2. CASE \A z \in here : Removable(s, z)
            <6>1. q \in Seq(Elements(graph)) /\ Image(q) = Successors(graph, r)
              BY <2>3 DEF IsGraph, SatisfiersAreElements, Successors
            <6>2. y \in Image(q) \cap here
              BY <2>4, <3>1, <6>1
            <6> HIDE DEF q, here
            <6>3. PICK z \in FirstIn(q, here) : z \in Image(q) \cap here
              BY <6>1, <6>2, FirstInFinds
            <6>4. z \in KeptBy(s, r)
              BY <5>2, <6>3 DEF KeptBy, q, here
            <6>5. z \in NeededBy(s, e)
              BY <1>4, <3>3, <6>4 DEF NeededBy
            <6>6. QED
              BY <1>1, <2>1, <6>3, <6>5
          <5>3. QED
            BY <5>1, <5>2
        <4>2. QED
          BY <1>2, <1>3, <2>3, <4>1
      <3>4. QED
        BY <3>2, <3>3
    <2>8. QED
      BY <2>5, <2>6, <2>7
  <1>5. QED
    BY <1>4 DEF Verified, BrokenRelations, c

(* Whatever may not be removed, or is needed, before cleaning is so after  *)
(* it: a second cleaning would remove nothing. *)
LEMMA CleaningIsComplete ==
    ASSUME IsGraph(graph), NEW s, IsSolution(graph, s), \A e \in Unneeded(s) : CanBeEmptied(e)
    PROVE  Needed(Cleaned(s)) = PresentElements(Cleaned(s))
  <1> DEFINE c == Cleaned(s)
             all == PresentElements(s)
             every == PresentElements(c)
  <1>1. /\ Needed(s) \subseteq all
        /\ \A e \in all : ~Removable(s, e) => e \in Needed(s)
        /\ \A e \in Needed(s) : NeededBy(s, e) \subseteq Needed(s)
    BY NeededIsClosed
  <1>2. /\ all \subseteq Elements(graph)
        /\ \A z \in Needed(s) : Present(c, z) /\ EntryOf(c, z) = EntryOf(s, z)
        /\ \A e \in every \ Needed(s) : IsEmptyElement(graph, e)
    BY CleanedElements
  <1> HIDE DEF c
  <1>3. \A z \in Needed(s) : z \in every
    BY <1>2 DEF Present, PresentElements, HasFamily, EntryOf
  <1>4. \A z \in Needed(s) : /\ Removable(c, z) <=> Removable(s, z)
                             /\ KeptIfRDepends(c, z) <=> KeptIfRDepends(s, z)
    BY <1>2 DEF Removable, KeptIfRDepends, TargetAutoStatus
  <1>5. \A e \in every : ~Removable(c, e) => e \in Needed(c)
    BY NeededIsClosed
  <1>6. \A e \in Needed(c) : NeededBy(c, e) \subseteq Needed(c)
    BY NeededIsClosed
  <1>7. ASSUME NEW z \in Needed(s), NEW r \in Requires(graph, z) \ graph.anti
        PROVE  KeptBy(s, r) \subseteq KeptBy(c, r)
    <2> DEFINE q == graph.satisfiers[r]
               here == Successors(graph, r) \cap all
               left == Successors(graph, r) \cap every
    <2>1. r \in Relations(graph)
      BY <1>1, <1>2, <1>7, NoneIsNoElement DEF IsGraph, OnlyVersionsRequire, Requires
    <2>2. left \subseteq here /\ left \subseteq Needed(s)
      BY <1>1, <1>2, <1>7, <2>1 DEF IsGraph, OnlyAntiAllowsRemoval
    <2>3. KeptBy(s, r) \subseteq Needed(s)
      BY <1>1, <1>7 DEF NeededBy
    <2>4. ASSUME NEW x \in KeptBy(s, r) PROVE x \in KeptBy(c, r)
      <3>1. x \in Needed(s) /\ x \in every /\ x \in here
        BY <1>3, <2>3, <2>4 DEF KeptBy, FirstIn
      <3>2. x \in left
        BY <3>1
      <3>3. CASE KeptIfRDepends(s, x)
        BY <1>4, <3>1, <3>2, <3>3 DEF KeptBy
      <3>4. CASE x \in FirstIn(q, here) /\ \A y \in here : Removable(s, y)
        <4>1. x \in FirstIn(q, left)
          BY <2>2, <3>2, <3>4 DEF FirstIn
        <4>2. \A y \in left : Removable(c, y)
          BY <1>4, <2>2, <3>4
        <4>3. QED
          BY <4>1, <4>2 DEF KeptBy
      <3>5. QED
        BY <2>4, <3>3, <3>4 DEF KeptBy
    <2>5. QED
      BY <2>4
  <1>8. ASSUME NEW kept \in SUBSET every,
               {e \in every : ~Removable(c, e)} \subseteq kept,
               \A e \in kept : NeededBy(c, e) \subseteq kept
        PROVE  Needed(s) \subseteq kept
    <2> DEFINE both == kept \cap Needed(s)
    <2>1. both \in SUBSET all
      BY <1>1
    <2>2. {e \in all : ~Removable(s, e)} \subseteq both
      BY <1>1, <1>3, <1>4, <1>8
    <2>3. ASSUME NEW e \in both PROVE NeededBy(s, e) \subseteq both
      <3>1. NeededBy(s, e) \subseteq NeededBy(c, e)
        BY <1>7 DEF NeededBy
      <3>2. QED
        BY <1>1, <1>8, <3>1
    <2> HIDE DEF both
    <2>4. Needed(s) \subseteq both
      BY <2>1, <2>2, <2>3 DEF Needed
    <2>5. QED
      BY <2>4 DEF both
  <1>9. Needed(s) \subseteq Needed(c)
    BY <1>3, <1>8 DEF Needed
  <1>10. \A e \in every \ Needed(s) : e \in Needed(c)
    BY <1>2, <1>5 DEF Removable
  <1>11. Needed(c) \subseteq every
    BY NeededIsClosed
  <1>12. QED
    BY <1>9, <1>10, <1>11 DEF c

(* A package on the list of no-autoremove-if-rdepends-exist is kept by     *)
(* whatever is kept and depends on it. *)
LEMMA CleaningSpares ==
    ASSUME IsGraph(graph), NEW s, IsSolution(graph, s), \A e \in Unneeded(s) : CanBeEmptied(e),
           NEW e \in PresentElements(Cleaned(s)), NEW r \in Requires(graph, e) \ graph.anti,
           NEW x \in Successors(graph, r), KeptIfRDepends(s, x), Present(s, x)
    PROVE  Present(Cleaned(s), x)
  <1>1. e \in Needed(s)
    BY CleanedElements
  <1>2. x \in KeptBy(s, r)
    BY DEF KeptBy, Present, PresentElements, HasFamily, EntryOf
  <1>3. x \in Needed(s)
    BY <1>1, <1>2, NeededIsClosed DEF NeededBy
  <1>4. QED
    BY <1>3, CleanedElements

(* Cleaning a finished solution decides as it would before it was marked. *)
LEMMA FinishedLooksTheSame ==
    ASSUME Inv, NEW n \in tree, IsSolved(n)
    PROVE  /\ Finished(n).entries = Prepared(n).entries
           /\ Unneeded(Finished(n)) = Unneeded(Prepared(n))
           /\ \A e : /\ Present(Finished(n), e) <=> Present(Prepared(n), e)
                     /\ KeptIfRDepends(Finished(n), e) <=> KeptIfRDepends(Prepared(n), e)
  <1>1. Finished(n).entries = Prepared(n).entries
    <2>1. IsSolution(graph, Prepared(n))
      BY PreparedIsGood DEF Good
    <2>2. QED
      BY <2>1 DEF Finished, IsSolution
  <1>2. Unneeded(Finished(n)) = Unneeded(Prepared(n))
    BY <1>1 DEF Unneeded, Needed, PresentElements, Removable, TargetAutoStatus, NeededBy, KeptBy,
                KeptIfRDepends, EntryOf
  <1>3. QED
    BY <1>1, <1>2 DEF Present, HasFamily, EntryOf, KeptIfRDepends, Removable, TargetAutoStatus

(* What is stored when it is offered. *)
LEMMA CleanedIsGood ==
    ASSUME Inv, NEW n \in tree, IsSolved(n), CanBeCleaned(n)
    PROVE  /\ Good(graph, Cleaned(Finished(n))) /\ Cleaned(Finished(n)) # NoOffer
           /\ KeepsOwnDependencies(graph) => Verified(Cleaned(Finished(n)))
  <1> DEFINE s == Finished(n)
             c == Cleaned(s)
             empty(f) == [Entry(EmptyOf(f), FALSE, NoReason, 0) EXCEPT !.autoremoved = TRUE]
  <1>1. IsSolution(graph, s) /\ s.finished = TRUE /\ DOMAIN s.broken = {} /\ IsGraph(graph)
    BY FinishedIsGood DEF Good, Inv
  <1>3. Unneeded(s) = Unneeded(Prepared(n))
    BY FinishedLooksTheSame
  <1>4. c = [s EXCEPT !.entries = [f \in DOMAIN s.entries |->
                IF s.entries[f].element \in Needed(s) THEN s.entries[f] ELSE empty(f)]]
    BY DEF Cleaned
  <1> HIDE DEF s, c
  <1>5. ASSUME NEW f \in DOMAIN s.entries, s.entries[f].element \notin Needed(s)
        PROVE  empty(f) \in EntryType(graph) /\ Family(empty(f).element) = f
    <2> DEFINE e == s.entries[f].element
    <2>1. e \in Unneeded(s) /\ Family(e) = f
      BY <1>1, <1>5 DEF Unneeded, PresentElements, IsSolution
    <2>2. Removable(s, e)
      BY <2>1 DEF Unneeded, Needed
    <2>3. f \in graph.packages
      BY <2>1, <2>2 DEF Removable, IsVersionElement
    <2>4. EmptyOf(f) \in Image(graph.related[f])
      BY <1>3, <2>1 DEF CanBeCleaned, CanBeEmptied
    <2>5. EmptyOf(f) \in Elements(graph)
      BY <1>1, <2>3, <2>4 DEF IsGraph, RelatedAreElements, Image
    <2> DEFINE x == Entry(EmptyOf(f), FALSE, NoReason, 0)
    <2>6. x \in EntryType(graph) /\ x.element = EmptyOf(f)
      BY <2>5 DEF Entry, EntryType, NoReason
    <2> HIDE DEF x
    <2>7. [x EXCEPT !.autoremoved = TRUE] \in EntryType(graph)
          /\ [x EXCEPT !.autoremoved = TRUE].element = EmptyOf(f)
      BY <2>6 DEF EntryType
    <2>8. Family(EmptyOf(f)) = f
      BY DEF Family, EmptyOf
    <2>9. QED
      BY <2>7, <2>8 DEF x
  <1>6. /\ DOMAIN c = DOMAIN s /\ c.broken = s.broken /\ c.level = s.level /\ c.id = s.id
        /\ c.score = s.score /\ c.finished = s.finished
        /\ c.entries = [f \in DOMAIN s.entries |->
                IF s.entries[f].element \in Needed(s) THEN s.entries[f] ELSE empty(f)]
    BY <1>1, <1>4 DEF IsSolution
  <1> HIDE DEF empty
  <1>7. DOMAIN c.entries = DOMAIN s.entries
        /\ \A f \in DOMAIN c.entries : c.entries[f] \in EntryType(graph) /\ Family(c.entries[f].element) = f
    BY <1>1, <1>5, <1>6 DEF IsSolution
  <1>8. c.entries \in [DOMAIN c.entries -> EntryType(graph)]
    BY <1>6, <1>7
  <1>9. IsSolution(graph, c)
    BY <1>1, <1>6, <1>7, <1>8 DEF IsSolution
  <1>10. c # NoOffer
    <2>1. "entries" \in DOMAIN c /\ DOMAIN NoOffer = {}
      BY <1>9 DEF IsSolution, NoOffer
    <2>2. QED
      BY <2>1
  <1>11. ASSUME KeepsOwnDependencies(graph)
         PROVE  Verified(c) /\ BrokenRelations(graph, c) = {}
    <2>1. BrokenRelations(graph, s) = {}
      BY <1>1, <1>11, FinishedIsGood DEF Good, s
    <2>2. \A e \in Unneeded(s) : CanBeEmptied(e)
      BY <1>3 DEF CanBeCleaned
    <2>3. QED
      BY <1>1, <2>1, <2>2, CleaningVerifies DEF c
  <1>12. DOMAIN c.broken = {} /\ c.finished = TRUE
    BY <1>1, <1>6
  <1>13. Good(graph, c)
    BY <1>9, <1>11, <1>12 DEF Good
  <1>14. QED
    BY <1>10, <1>11, <1>13 DEF s, c

-----------------------------------------------------------------------------
LEMMA InitInv == Init => Inv
  <1> SUFFICES ASSUME Init PROVE Inv
    OBVIOUS
  <1>1. IsGraph(graph) /\ IsOptions(options)
    BY ProblemsAssumption DEF Init
  <1>2. DOMAIN heap = {Initial} /\ heap[Initial] = InitialSolution(graph)
    BY DEF Init
  <1>3. GoodHeap(graph, heap)
    <2>1. Good(graph, InitialSolution(graph))
      BY <1>1, InitialIsExact DEF Good
    <2>2. QED
      BY <1>2, <2>1, FS_Singleton DEF GoodHeap
  <1>4. GoodTree(graph, heap, tree, nextId)
    <2>1. tree = {PreparedNode(Initial)} /\ nextId = 1
      BY DEF Init
    <2>2. PreparedNode(Initial).ref = Initial /\ PreparedNode(Initial).id = 0
          /\ IsPrepared(PreparedNode(Initial))
      BY DEF PreparedNode, IsPrepared
    <2>3. GoodNode(graph, heap[Initial], PreparedNode(Initial), 1)
      BY <2>2 DEF GoodNode
    <2>4. QED
      BY <1>2, <2>1, <2>2, <2>3 DEF GoodTree
  <1>5. QED
    BY <1>1, <1>3, <1>4 DEF Init, Inv

(* What a step does to solutions that the tree goes on referring to. *)
Frozen == \A n \in tree : ~IsPrepared(n) /\ n \in tree' => heap'[n.ref] = heap[n.ref]

(* A prepared node that refers to a good solution. *)
LEMMA PreparedNodeIsGood ==
    ASSUME NEW g, NEW u, NEW r, NEW limit \in Nat \ {0}
    PROVE  PreparedNode(r).ref = r /\ IsPrepared(PreparedNode(r)) /\ GoodNode(g, u, PreparedNode(r), limit)
  BY DEF PreparedNode, IsPrepared, GoodNode

(***************************************************************************)
(* The steps that keep objects as they are.                                *)
(***************************************************************************)
LEMMA ForgettingKeeps ==
    ASSUME Inv, heap' = Live(heap, tree'), UNCHANGED <<graph, options, nextId>>,
           tree' \subseteq tree \/ tree' = {PreparedNode(Initial)}
    PROVE  /\ IsGraph(graph') /\ IsOptions(options') /\ nextId' \in Nat \ {0}
           /\ GoodHeap(graph', heap') /\ GoodTree(graph', heap', tree', nextId')
           /\ Frozen
  <1>1. GoodHeap(graph, heap') /\ GoodTree(graph, heap', tree', nextId)
    BY LiveKeeps DEF Inv
  <1>2. Frozen
    <2>1. SUFFICES ASSUME NEW n \in tree, n \in tree' PROVE heap'[n.ref] = heap[n.ref]
      BY DEF Frozen
    <2>2. n.ref \in DOMAIN heap
      BY DEF Inv, GoodTree
    <2>3. QED
      BY <2>1, <2>2 DEF Live
  <1>3. QED
    BY <1>1, <1>2 DEF Inv

(***************************************************************************)
(* The steps that store solution u in place of the chosen node n.          *)
(***************************************************************************)
LEMMA StoringKeeps ==
    ASSUME Inv, NEW n \in tree, NEW u, Good(graph, u), NEW K, tree' = (tree \ {n}) \cup K,
           heap' = Live(Store(heap, RefOf(n), u), tree'),
           UNCHANGED <<graph, options>>, nextId' \in Nat, nextId <= nextId',
           \A m \in K : m.ref = RefOf(n) /\ GoodNode(graph, u, m, nextId'),
           \A m, x \in K : IsPrepared(m) => m = x
    PROVE  /\ IsGraph(graph') /\ IsOptions(options') /\ nextId' \in Nat \ {0}
           /\ GoodHeap(graph', heap') /\ GoodTree(graph', heap', tree', nextId')
           /\ Frozen
  <1> DEFINE r == RefOf(n)
             w == Store(heap, r, u)
             l == heap'
  <1>1. /\ (IsPrepared(n) /\ r = n.ref) \/ (~IsPrepared(n) /\ r \notin DOMAIN heap)
        /\ GoodHeap(graph, heap) /\ GoodTree(graph, heap, tree, nextId) /\ nextId \in Nat
    BY RefIsFresh DEF Inv
  <1>2. /\ DOMAIN w = DOMAIN heap \cup {r} /\ w[r] = u
        /\ \A ref \in DOMAIN heap : ref # r => w[ref] = heap[ref]
    BY DEF Store
  <1> HIDE DEF r, w
  <1>3. /\ DOMAIN l = DOMAIN w \cap ({Initial} \cup {m.ref : m \in tree'})
        /\ \A ref \in DOMAIN l : l[ref] = w[ref]
    BY DEF Live, w, r
  <1> HIDE DEF l
  <1>4. GoodHeap(graph, l)
    <2>1. IsFiniteSet(DOMAIN w)
      BY <1>1, <1>2, FS_AddElement DEF GoodHeap
    <2>2. QED
      BY <1>1, <1>2, <1>3, <2>1, FS_Subset DEF GoodHeap
  <1>5. ASSUME NEW m \in tree \ {n}
        PROVE  m.ref \in DOMAIN heap /\ m.ref # r /\ m.ref \in DOMAIN l /\ l[m.ref] = heap[m.ref]
    <2>1. m.ref \in DOMAIN heap /\ m.ref # r /\ m \in tree'
      BY <1>1 DEF GoodTree
    <2>2. QED
      BY <1>2, <1>3, <2>1
  <1>6. ASSUME NEW m \in K PROVE m.ref = r /\ m.ref \in DOMAIN l /\ l[m.ref] = u
    <2>1. m.ref = r /\ m \in tree'
      BY DEF r
    <2>2. QED
      BY <1>2, <1>3, <2>1
  <1>7. ASSUME NEW m \in tree' PROVE m.ref \in DOMAIN l /\ GoodNode(graph, l[m.ref], m, nextId')
    <2>1. CASE m \in K
      BY <1>6, <2>1
    <2>2. CASE m \in tree \ {n}
      <3>1. GoodNode(graph, l[m.ref], m, nextId)
        BY <1>1, <1>5, <2>2 DEF GoodTree
      <3>2. QED
        BY <1>1, <1>5, <2>2, <3>1 DEF GoodNode
    <2>3. QED
      BY <2>1, <2>2
  <1>8. ASSUME NEW m \in tree', NEW x \in tree', IsPrepared(m), m.ref = x.ref PROVE m = x
    <2>1. CASE m \in K /\ x \in K
      BY <1>8, <2>1
    <2>2. CASE m \in tree \ {n} /\ x \in tree \ {n}
      BY <1>1, <1>8, <2>2 DEF GoodTree
    <2>3. QED
      BY <1>5, <1>6, <1>8, <2>1, <2>2
  <1>9. GoodTree(graph, l, tree', nextId')
    BY <1>7, <1>8 DEF GoodTree
  <1>10. Frozen
    <2>1. SUFFICES ASSUME ~IsPrepared(n), n \in tree' PROVE FALSE
      BY <1>5 DEF Frozen, l
    <2>2. n.ref \in DOMAIN heap /\ n.ref = r
      BY <1>1, <1>6, <2>1 DEF GoodTree
    <2>3. QED
      BY <1>1, <2>1, <2>2
  <1>11. QED
    BY <1>4, <1>9, <1>10 DEF Inv, l

LEMMA ApplyInPlaceKeeps ==
    ASSUME Inv, NEW n \in tree, ApplyInPlace(n)
    PROVE  Inv' /\ Frozen
  <1>1. PICK by \in Pairs(Prepared(n)), change \in options.scoreChanges :
            /\ BrokenPair(Prepared(n), by)
            /\ \E a \in PossibleActions(graph, Prepared(n), by) :
                heap' = Live(Store(heap, RefOf(n),
                            ApplyAction(graph,
                                [Prepared(n) EXCEPT !.id = nextId, !.level = @ + 1, !.score = @ + change],
                                a)), tree')
    BY DEF ApplyInPlace
  <1>2. PICK a \in PossibleActions(graph, Prepared(n), by) :
            heap' = Live(Store(heap, RefOf(n),
                        ApplyAction(graph,
                            [Prepared(n) EXCEPT !.id = nextId, !.level = @ + 1, !.score = @ + change],
                            a)), tree')
    BY <1>1
  <1> DEFINE p == Prepared(n)
             s == [p EXCEPT !.id = nextId, !.level = @ + 1, !.score = @ + change]
             u == ApplyAction(graph, s, a)
             K == {PreparedNode(RefOf(n))}
  <1>3. Good(graph, p) /\ ~p.finished /\ Fits(graph, p, a) /\ IsGraph(graph)
    BY <1>1, PreparedIsGood, BrokenPairActs DEF Inv
  <1>4. nextId \in Nat /\ change \in Int
    BY DEF Inv, IsOptions
  <1> HIDE DEF p
  <1>5. s.entries = p.entries /\ s.broken = p.broken /\ ~s.finished /\ IsSolution(graph, s)
    BY <1>3, <1>4 DEF Good, IsSolution
  <1> HIDE DEF s
  <1>6. BrokenRelations(graph, s) = BrokenRelations(graph, p) /\ Fits(graph, s, a)
    BY <1>3, <1>5, SameEntries
  <1>7. Good(graph, u)
    BY <1>3, <1>5, <1>6, ApplyActionKeeps DEF Good
  <1>8. heap' = Live(Store(heap, RefOf(n), u), tree')
    BY <1>2 DEF s, p
  <1> HIDE DEF u
  <1>9. /\ UNCHANGED <<graph, options, offer, status>> /\ tree' = (tree \ {n}) \cup K
        /\ nextId' = nextId + 1 /\ nextId' \in Nat \ {0} /\ nextId <= nextId'
    BY <1>4 DEF ApplyInPlace, Turn
  <1>10. \A m \in K : m.ref = RefOf(n) /\ GoodNode(graph, u, m, nextId')
    BY <1>9, PreparedNodeIsGood
  <1>11. \A m, x \in K : IsPrepared(m) => m = x
    OBVIOUS
  <1> HIDE DEF K
  <1>12. QED
    BY <1>11, <1>7, <1>8, <1>9, <1>10, StoringKeeps DEF Inv

LEMMA BranchKeeps ==
    ASSUME Inv, NEW n \in tree, Branch(n)
    PROVE  Inv' /\ Frozen
  <1> DEFINE s == Prepared(n)
             actions(by) == PossibleActions(graph, s, by)
             Earlier(by, a) == {b \in actions(by) : b.at < a.at}
             K(by, change) == {[ref |-> RefOf(n), action |-> a,
                                id |-> nextId + Cardinality(Earlier(by, a)), score |-> change[a]] :
                                    a \in actions(by)}
  <1>1. PICK by \in Pairs(s) :
            /\ BrokenPair(s, by)
            /\ \E change \in [actions(by) -> options.scoreChanges] :
                tree' = (tree \ {n}) \cup K(by, change)
            /\ heap' = Live(Store(heap, RefOf(n), s), tree')
            /\ nextId' = nextId + Cardinality(actions(by))
    BY DEF Branch
  <1>2. PICK change \in [actions(by) -> options.scoreChanges] :
            tree' = (tree \ {n}) \cup K(by, change)
    BY <1>1
  <1>3. /\ Good(graph, s) /\ ~s.finished
        /\ IsFiniteSet(actions(by))
        /\ \A a \in actions(by) : a # NoAction /\ a.at \in Nat /\ Fits(graph, s, a)
    BY <1>1, PreparedIsGood, BrokenPairActs
  <1> HIDE DEF s
  <1>4. nextId \in Nat \ {0} /\ Cardinality(actions(by)) \in Nat
    BY <1>3, FS_CardinalityType DEF Inv
  <1> HIDE DEF actions
  <1>5. ASSUME NEW a \in actions(by)
        PROVE  Cardinality(Earlier(by, a)) \in Nat /\ Cardinality(Earlier(by, a)) < Cardinality(actions(by))
    <2>1. Earlier(by, a) \in SUBSET actions(by)
      OBVIOUS
    <2>2. Earlier(by, a) # actions(by)
      <3>1. SUFFICES ASSUME a.at < a.at PROVE FALSE
        OBVIOUS
      <3>2. QED
        BY <3>1, <1>3
    <2> HIDE DEF Earlier
    <2>3. QED
      BY <1>3, <1>4, <2>1, <2>2, FS_Subset, FS_CardinalityType
  <1> HIDE DEF Earlier
  <1>6. ASSUME NEW m \in K(by, change)
        PROVE  m.ref = RefOf(n) /\ ~IsPrepared(m) /\ GoodNode(graph, s, m, nextId')
    <2>1. PICK a \in actions(by) :
                m = [ref |-> RefOf(n), action |-> a,
                     id |-> nextId + Cardinality(Earlier(by, a)), score |-> change[a]]
      OBVIOUS
    <2>2. m.ref = RefOf(n) /\ m.action = a /\ m.id = nextId + Cardinality(Earlier(by, a))
          /\ m.score = change[a]
      BY <2>1
    <2>3. m.id \in Nat /\ m.id < nextId'
      BY <1>1, <1>4, <1>5, <2>2
    <2>4. m.score \in Int
      BY <2>2 DEF Inv, IsOptions
    <2>5. ~IsPrepared(m)
      BY <1>3, <2>2 DEF IsPrepared
    <2>6. QED
      BY <1>3, <2>2, <2>3, <2>4, <2>5 DEF GoodNode
  <1> HIDE DEF K
  <1>7. UNCHANGED <<graph, options, offer, status>> /\ nextId' \in Nat /\ nextId <= nextId'
    BY <1>1, <1>4 DEF Branch, Turn
  <1>8. QED
    BY <1>1, <1>2, <1>3, <1>6, <1>7, StoringKeeps DEF Inv

LEMMA DeferKeeps ==
    ASSUME Inv, NEW n \in tree, Defer(n)
    PROVE  Inv' /\ Frozen
  <1> DEFINE K == {PreparedNode(RefOf(n))}
  <1>1. /\ UNCHANGED <<graph, options, nextId, offer, status>> /\ tree' = (tree \ {n}) \cup K
        /\ heap' = Live(Store(heap, RefOf(n), Finished(n)), tree') /\ IsSolved(n)
        /\ nextId' \in Nat \ {0} /\ nextId <= nextId'
    BY DEF Defer, Turn, TreeWithFinished, WithFinished, Inv
  <1>2. Good(graph, Finished(n))
    BY <1>1, FinishedIsGood
  <1>3. \A m \in K : m.ref = RefOf(n) /\ GoodNode(graph, Finished(n), m, nextId')
    BY <1>1, PreparedNodeIsGood
  <1>4. \A m, x \in K : IsPrepared(m) => m = x
    OBVIOUS
  <1> HIDE DEF K
  <1>5. QED
    BY <1>4, <1>1, <1>2, <1>3, StoringKeeps DEF Inv

LEMMA ProposeKeeps ==
    ASSUME Inv, NEW n \in tree, Propose(n)
    PROVE  Inv' /\ Frozen
  <1> DEFINE K == {}
  <1>1. /\ UNCHANGED <<graph, options, nextId>> /\ tree' = (tree \ {n}) \cup K
        /\ offer' = Cleaned(Finished(n)) /\ status' = "offering"
        /\ heap' = Live(Store(heap, RefOf(n), offer'), tree')
        /\ nextId' \in Nat \ {0} /\ nextId <= nextId'
    BY DEF Propose, Turn, Inv
  <1>2. Good(graph, offer') /\ offer' # NoOffer
    <2>1. IsSolved(n) /\ CanBeCleaned(n)
      BY DEF Propose, IsPreferred
    <2>2. QED
      BY <1>1, <2>1, CleanedIsGood
  <1>3. /\ IsGraph(graph') /\ IsOptions(options') /\ nextId' \in Nat \ {0}
        /\ GoodHeap(graph', heap') /\ GoodTree(graph', heap', tree', nextId')
        /\ Frozen
    <2>1. \A m \in K : FALSE
      OBVIOUS
    <2> HIDE DEF K
    <2>2. QED
      BY <1>1, <1>2, <2>1, StoringKeeps
  <1>4. IsSolution(graph', offer')
    BY <1>1, <1>2 DEF Good
  <1>5. QED
    BY <1>1, <1>2, <1>3, <1>4 DEF Inv

LEMMA StepKeepsInv ==
    ASSUME Inv, [Next]_vars
    PROVE  Inv' /\ Frozen
  <1>1. CASE UNCHANGED vars
    BY <1>1 DEF vars, Inv, Frozen
  <1>2. ASSUME NEW n \in tree, NoActions(n) PROVE Inv' /\ Frozen
    <2>1. /\ heap' = Live(heap, tree') /\ UNCHANGED <<graph, options, nextId, offer, status>>
          /\ tree' \subseteq tree
      BY <1>2 DEF NoActions, Turn
    <2>2. QED
      BY <2>1, ForgettingKeeps DEF Inv
  <1>3. ASSUME NEW n \in tree, HitSolutionTreeLimit(n) PROVE Inv' /\ Frozen
    <2>1. /\ heap' = Live(heap, tree') /\ UNCHANGED <<graph, options, nextId, offer, status>>
          /\ tree' = {PreparedNode(Initial)}
      BY <1>3 DEF HitSolutionTreeLimit, Turn
    <2>2. QED
      BY <2>1, ForgettingKeeps DEF Inv
  <1>4. ASSUME NEW n \in tree, HitLeafLimit(n) \/ Abort(n) PROVE Inv' /\ Frozen
    <2>1. /\ heap' = Live(heap, tree') /\ UNCHANGED <<graph, options, nextId, offer>>
          /\ tree' \subseteq tree /\ status = "resolving" /\ status' \in Endings
      BY <1>4 DEF HitLeafLimit, Abort, Turn, Endings
    <2>2. status # "offering" /\ status' # "offering"
      BY <2>1 DEF Endings
    <2>3. QED
      BY <2>1, <2>2, ForgettingKeeps DEF Inv
  <1>5. ASSUME Answer \/ GiveUp PROVE Inv' /\ Frozen
    <2>1. /\ UNCHANGED <<graph, options, heap, tree, nextId>>
          /\ Frozen
      BY <1>5 DEF Answer, GiveUp, Frozen
    <2>2. /\ offer' # NoOffer => IsSolution(graph, offer')
          /\ (offer' # NoOffer) = (status' = "offering")
          /\ status' \in {"resolving", "offering"} \cup Endings
      <3>1. CASE Answer
        BY <3>1 DEF Answer, Endings
      <3>2. CASE GiveUp
        <4>1. UNCHANGED offer /\ status = "resolving" /\ status' \in {"no", "unable"}
          BY <3>2 DEF GiveUp
        <4>2. QED
          BY <4>1 DEF Endings, Inv
      <3>3. QED
        BY <1>5, <3>1, <3>2
    <2>3. QED
      BY <2>1, <2>2 DEF Inv
  <1>6. QED
    BY <1>1, <1>2, <1>3, <1>4, <1>5, ApplyInPlaceKeeps, BranchKeeps, DeferKeeps, ProposeKeeps
    DEF Next, TakeTurn

(* No step fails a check of the program, on the graphs where the code can  *)
(* keep it: somebody present needs every broken relation, what is cleaned  *)
(* away has an empty element, and what is left of a solved solution is     *)
(* solved.                                                                 *)
LEMMA ChecksHold ==
    ASSUME Inv, NEW n \in tree
    PROVE  /\ KeepsOwnDependencies(graph) => ~FailsCheck(n)
           /\ AllCanBeEmptied(graph) => ~Crashes(n)
  <1> DEFINE s == Prepared(n)
  <1>1. Good(graph, s) /\ IsGraph(graph)
    BY PreparedIsGood DEF Inv
  <1>2. ASSUME NEW r \in WorstBroken(graph, s) PROVE Dependants(graph, s, r) # {}
    <2>1. r \in BrokenRelations(graph, s)
      BY <1>1, <1>2 DEF WorstBroken, Good
    <2>2. QED
      BY <2>1 DEF BrokenRelations, Dependants
  <1>3. ASSUME KeepsOwnDependencies(graph), IsPreferred(n), CanBeCleaned(n)
        PROVE  Verified(Cleaned(Finished(n)))
    BY <1>3, CleanedIsGood DEF IsPreferred
  <1>4. ASSUME AllCanBeEmptied(graph), NEW e \in Unneeded(s) PROVE CanBeEmptied(e)
    <2>1. Removable(s, e)
      BY <1>4, NeededIsClosed DEF Unneeded
    <2>2. QED
      BY <1>4, <2>1 DEF Removable, IsVersionElement, AllCanBeEmptied, CanBeEmptied
  <1>5. QED
    BY <1>2, <1>3, <1>4 DEF FailsCheck, Crashes, CanBeCleaned

(* How resolve() ends badly. *)
LEMMA BadEndings ==
    ASSUME Inv, [Next]_vars, status' \in {"internal error", "crash"}
    PROVE  \/ status' = status
           \/ \E n \in tree : FailsCheck(n) /\ status' = "internal error"
           \/ \E n \in tree : Crashes(n) /\ status' = "crash"
  <1>1. CASE UNCHANGED vars
    BY <1>1 DEF vars
  <1>2. CASE Answer
    BY <1>2 DEF Answer
  <1>3. CASE GiveUp
    BY <1>3 DEF GiveUp
  <1>4. ASSUME NEW n \in tree, Abort(n)
        PROVE  \/ FailsCheck(n) /\ status' = "internal error"
               \/ Crashes(n) /\ status' = "crash"
    BY <1>4 DEF Abort
  <1>5. ASSUME NEW n \in tree,
               \/ NoActions(n) \/ HitSolutionTreeLimit(n) \/ HitLeafLimit(n)
               \/ ApplyInPlace(n) \/ Branch(n) \/ Defer(n) \/ Propose(n)
        PROVE  status' = status
    BY <1>5 DEF NoActions, HitSolutionTreeLimit, HitLeafLimit, ApplyInPlace, Branch, Defer, Propose, Turn
  <1>6. QED
    BY <1>1, <1>2, <1>3, <1>4, <1>5 DEF Next, TakeTurn

(* How a solution comes to be offered. *)
LEMMA Offered ==
    ASSUME Inv, [Next]_vars, status' = "offering"
    PROVE  UNCHANGED vars \/ \E n \in tree : Propose(n)
  <1>1. ASSUME NEW n \in tree, HitLeafLimit(n) \/ Abort(n) PROVE FALSE
    BY <1>1 DEF HitLeafLimit, Abort
  <1>2. ASSUME Answer \/ GiveUp PROVE FALSE
    BY <1>2 DEF Answer, GiveUp
  <1>3. ASSUME NEW n \in tree,
               \/ NoActions(n) \/ HitSolutionTreeLimit(n)
               \/ ApplyInPlace(n) \/ Branch(n) \/ Defer(n)
        PROVE  FALSE
    BY <1>3 DEF NoActions, HitSolutionTreeLimit, ApplyInPlace, Branch, Defer, Turn
  <1>4. QED
    BY <1>1, <1>2, <1>3 DEF Next, TakeTurn

LEMMA StepCleans ==
    ASSUME Inv, NothingUnneededStays, [Next]_vars
    PROVE  /\ NothingUnneededStays'
           /\ status' = "offering" /\ status = "resolving" =>
                \A n \in tree \ tree' : n = Chosen(heap, tree) =>
                    \A e \in PresentElements(offer') : \A r \in Requires(graph, e) \ graph.anti :
                        \A x \in Successors(graph, r) :
                            KeptIfRDepends(Prepared(n), x) /\ Present(Prepared(n), x) => Present(offer', x)
  <1>1. CASE UNCHANGED vars
    <2>1. UNCHANGED <<graph, offer, status>>
      BY <1>1 DEF vars
    <2>2. Needed(offer)' = Needed(offer)
      BY <2>1 DEF Needed, PresentElements, Removable, TargetAutoStatus, OldPackage, NeededBy, KeptBy,
                  KeptIfRDepends, EntryOf
    <2>3. PresentElements(offer)' = PresentElements(offer)
      BY <2>1 DEF PresentElements
    <2>4. QED
      BY <2>1, <2>2, <2>3 DEF NothingUnneededStays
  <1>2. CASE \E n \in tree : Propose(n)
    <2>1. PICK n \in tree : Propose(n)
      BY <1>2
    <2> DEFINE s == Finished(n)
    <2>2. /\ offer' = Cleaned(s) /\ UNCHANGED graph /\ n = Chosen(heap, tree)
          /\ IsSolved(n) /\ CanBeCleaned(n)
      BY <2>1 DEF Propose, Turn, IsPreferred
    <2>3. IsGraph(graph) /\ IsSolution(graph, s) /\ \A e \in Unneeded(s) : CanBeEmptied(e)
      BY <2>2, FinishedIsGood, FinishedLooksTheSame DEF Good, Inv, CanBeCleaned
    <2>4. \A x : /\ Present(s, x) <=> Present(Prepared(n), x)
                /\ KeptIfRDepends(s, x) <=> KeptIfRDepends(Prepared(n), x)
      BY <2>2, FinishedLooksTheSame
    <2> HIDE DEF s
    <2> DEFINE c == Cleaned(s)
    <2>5. Needed(c) = PresentElements(c)
      BY <2>3, CleaningIsComplete
    <2>6. \A e \in PresentElements(c) : \A r \in Requires(graph, e) \ graph.anti :
            \A x \in Successors(graph, r) : KeptIfRDepends(s, x) /\ Present(s, x) => Present(c, x)
      BY <2>3, CleaningSpares
    <2> HIDE DEF c
    <2>7. c = offer'
      BY <2>2 DEF c
    <2>8. Needed(offer)' = Needed(c)
      BY <2>2, <2>7 DEF Needed, PresentElements, Removable, TargetAutoStatus, OldPackage, NeededBy,
                        KeptBy, KeptIfRDepends, EntryOf
    <2>9. PresentElements(offer)' = PresentElements(c)
      BY <2>7 DEF PresentElements
    <2>10. NothingUnneededStays'
      BY <2>5, <2>8, <2>9 DEF NothingUnneededStays
    <2>11. QED
      BY <2>2, <2>4, <2>6, <2>7, <2>10
  <1>3. CASE status' # "offering"
    BY <1>3 DEF NothingUnneededStays
  <1>4. QED
    BY <1>1, <1>2, <1>3, Offered

LEMMA StepKeepsChecks ==
    ASSUME Inv, NoInternalError, [Next]_vars
    PROVE  NoInternalError'
  <1>1. UNCHANGED graph
    BY DEF Next, vars, TakeTurn, Answer, GiveUp, NoActions, HitSolutionTreeLimit, HitLeafLimit,
           ApplyInPlace, Branch, Defer, Propose, Abort, Turn
  <1>2. ASSUME KeepsOwnDependencies(graph) PROVE status' # "internal error"
    BY <1>2, ChecksHold, BadEndings DEF NoInternalError, FinalCheckHolds
  <1>3. ASSUME AllCanBeEmptied(graph) PROVE status' # "crash"
    BY <1>3, ChecksHold, BadEndings DEF NoInternalError, NeverCrashes
  <1>4. QED
    BY <1>1, <1>2, <1>3 DEF NoInternalError, FinalCheckHolds, NeverCrashes

LEMMA Invariance == Safety => []Inv
  <1>1. Inv /\ [Next]_vars => Inv'
    BY StepKeepsInv
  <1>2. QED
    BY InitInv, <1>1, PTL DEF Safety

-----------------------------------------------------------------------------
(***************************************************************************)
(* The search loses no answer.  An answer picks an element for every       *)
(* package, as Solvable says.  A solution can still become it if what is   *)
(* sticked is what the answer picks, and nothing the answer picks has been *)
(* rejected.                                                               *)
(***************************************************************************)
Answers(g) ==
    {pick \in [g.packages -> Elements(g)] :
        /\ \A f \in g.packages : pick[f] \in Image(g.related[f])
        /\ \A f \in g.packages : \A r \in Requires(g, pick[f]) : Holds(g, pick, r)}

Compatible(g, s, pick) ==
    \A f \in DOMAIN s.entries \cap g.packages :
        /\ s.entries[f].sticked => s.entries[f].element = pick[f]
        /\ pick[f] \notin s.entries[f].rejected

(* Something can be done about a broken dependency that an answer allows.  *)
LEMMA AnswerHasAction ==
    ASSUME NEW g, IsGraph(g), NEW s, IsSolution(g, s),
           NEW by \in [version : PresentElements(s), relation : DOMAIN s.broken],
           by.version \in Dependants(g, s, by.relation),
           DOMAIN s.broken \subseteq BrokenRelations(g, s),
           NEW pick \in Answers(g), Compatible(g, s, pick)
    PROVE  \E a \in PossibleActions(g, s, by) : IsUnsatisfied(g, a.new) \/ pick[Family(a.new)] = a.new
  <1> DEFINE v == by.version
             r == by.relation
             f == Family(by.version)
             actions == PossibleActions(g, s, by)
             Wanted(e) == IsUnsatisfied(g, e) \/ pick[Family(e)] = e
  <1> SUFFICES \E a \in actions : Wanted(a.new)
    OBVIOUS
  <1>1. /\ v \in Elements(g) /\ Here(s, f) = v /\ f \in DOMAIN s.entries /\ s.entries[f].element = v
        /\ r \in g.requires[v]
    <2>1. v \in PresentElements(s) /\ r \in Requires(g, v)
      BY DEF Dependants
    <2>2. v \in Elements(g) /\ f \in DOMAIN s.entries /\ Here(s, f) = v
      BY <2>1, PresentIsHere
    <2>3. QED
      BY <2>1, <2>2, NoneIsNoElement DEF Requires, Here
  <1>2. f \in g.packages
    BY <1>1 DEF IsGraph, OnlyVersionsRequire, IsVersionElement
  <1>3. r \in Relations(g) /\ ~Verify(g, s, r)
    BY BrokenIsNeeded
  <1>4. ActionsAre(g, s, by, actions)
    BY PossibleActionsAre
  <1> HIDE DEF actions
  <1>5. pick[f] \in Elements(g) /\ pick[f] \in Image(g.related[f])
        /\ \A q \in g.requires[pick[f]] : q \in Relations(g) /\ Holds(g, pick, q)
    BY <1>2, NoneIsNoElement DEF Answers, Requires, IsGraph, OnlyVersionsRequire
  <1>6. ASSUME NEW q \in Relations(g), NEW e \in Successors(g, q), Wanted(e)
        PROVE  Replaceable(s, e) \/ Present(s, e)
    <2>1. SUFFICES ASSUME HasFamily(s, e), EntryOf(s, e).element # e PROVE Replaceable(s, e)
      BY DEF Replaceable, Present
    <2>2. e \in Elements(g)
      BY DEF IsGraph, SatisfiersAreElements, Successors, Image
    <2> DEFINE x == EntryOf(s, e).element
    <2>3. x \in Elements(g) /\ Family(x) = Family(e)
      BY <2>1 DEF HasFamily, EntryOf, IsSolution, EntryType
    <2>4. Family(e) \in g.packages
      BY <2>1, <2>2, <2>3 DEF IsGraph, AlternativesAreVersions
    <2>5. pick[Family(e)] = e
      BY <1>6, <2>4 DEF IsUnsatisfied, IsVersionElement
    <2>6. QED
      BY <2>1, <2>4, <2>5 DEF Compatible, Replaceable, HasFamily, EntryOf
  <1>7. ASSUME NEW e \in Successors(g, r), Wanted(e) PROVE \E a \in actions : Wanted(a.new)
    <2>1. ~Present(s, e)
      BY <1>3 DEF Verify, Present
    <2>2. Replaceable(s, e)
      BY <1>3, <1>6, <1>7, <2>1
    <2>3. PICK a \in actions : a.new = e
      BY <1>4, <2>2 DEF ActionsAre
    <2>4. QED
      BY <1>7, <2>3
  <1>8. ASSUME Holds(g, pick, r) PROVE \E a \in actions : Wanted(a.new)
    BY <1>7, <1>8 DEF Holds
  <1>9. CASE pick[f] = v
    BY <1>1, <1>5, <1>8, <1>9
  <1>10. CASE pick[f] # v /\ MakesSense(g, s, pick[f], r)
    <2>1. ~s.entries[f].sticked /\ pick[f] \notin s.entries[f].rejected
      BY <1>1, <1>2, <1>10 DEF Compatible
    <2>2. PICK a \in actions : a.new = pick[f]
      BY <1>4, <1>5, <1>10, <2>1 DEF ActionsAre, EntryOf
    <2>3. Family(pick[f]) = f
      BY <1>2, <1>5 DEF IsGraph, RelatedAreElements
    <2>4. QED
      BY <2>2, <2>3
  <1>11. CASE ~MakesSense(g, s, pick[f], r)
    <2>1. PICK q \in Requires(g, pick[f]) : q = r \/ ~IsMoreWide(g, s, q, r)
      BY <1>11 DEF MakesSense
    <2>2. q \in Relations(g) /\ Holds(g, pick, q)
      BY <1>5, <2>1, NoneIsNoElement DEF Requires
    <2>3. CASE q = r
      BY <1>8, <2>2, <2>3
    <2>4. CASE ~IsMoreWide(g, s, q, r)
      <3>1. PICK e \in Successors(g, q) : Wanted(e)
        BY <2>2 DEF Holds
      <3>2. CASE e \in Successors(g, r)
        BY <1>7, <3>1, <3>2
      <3>3. CASE e \notin Successors(g, r)
        <4>1. ~Replaceable(s, e) /\ Conflictor(g, s, e) # e
          BY <2>4, <3>3 DEF IsMoreWide
        <4>2. Present(s, e)
          BY <1>6, <2>2, <3>1, <4>1
        <4>3. QED
          BY <4>1, <4>2 DEF Present, Conflictor
      <3>4. QED
        BY <3>2, <3>3
    <2>5. QED
      BY <2>1, <2>3, <2>4
  <1>12. QED
    BY <1>9, <1>10, <1>11

(* ... and one of the ways leads on to the answer: the first one that the  *)
(* answer picks, since what has been tried before is only what the answer  *)
(* does not pick; or else leaving the dependency unsatisfied, since then   *)
(* the answer picks none of the others.                                    *)
LEMMA AnswerSurvives ==
    ASSUME NEW g, IsGraph(g), NEW s, IsSolution(g, s),
           NEW by \in [version : PresentElements(s), relation : DOMAIN s.broken],
           by.version \in Dependants(g, s, by.relation),
           DOMAIN s.broken \subseteq BrokenRelations(g, s),
           NEW pick \in Answers(g), Compatible(g, s, pick)
    PROVE  \E a \in PossibleActions(g, s, by) : \A t :
                IsSolution(g, t) /\ t.entries = s.entries => Compatible(g, ApplyAction(g, t, a), pick)
  <1> DEFINE actions == PossibleActions(g, s, by)
             Picked(a) == ~IsUnsatisfied(g, a.new) /\ pick[Family(a.new)] = a.new
             J == {a.at : a \in {b \in actions : Picked(b)}}
  <1>1. ActionsAre(g, s, by, actions) /\ \A a \in actions : Fits(g, s, a)
    BY PossibleActionsAre, PossibleActionsFit
  <1>2. \E a \in actions : IsUnsatisfied(g, a.new) \/ pick[Family(a.new)] = a.new
    BY AnswerHasAction
  <1> HIDE DEF actions
  <1>3. PICK a \in actions :
            /\ IsUnsatisfied(g, a.new) \/ pick[Family(a.new)] = a.new
            /\ \A e \in Rejected(g, a) : Family(e) \in g.packages => pick[Family(e)] # e
    <2>1. CASE J = {}
      <3>1. PICK a \in actions : IsUnsatisfied(g, a.new)
        BY <1>2, <2>1
      <3>2. \A b \in actions : ~Picked(b)
        BY <2>1
      <3>3. ASSUME NEW e \in Rejected(g, a) PROVE \E b \in actions : b.new = e
        <4>1. e \in NewElements(a.all)
          BY <3>1, <3>3 DEF Rejected
        <4>2. PICK x \in a.all : x.new = e
          BY <4>1 DEF NewElements
        <4>3. a.all = {[at |-> b.at, new |-> b.new] : b \in actions}
          BY <1>1, <4>2 DEF ActionsAre
        <4>4. QED
          BY <4>2, <4>3
      <3>4. QED
        BY <3>1, <3>2, <3>3 DEF IsUnsatisfied, IsVersionElement
    <2>2. CASE J # {}
      <3>1. J \in SUBSET Nat
        BY <1>1 DEF ActionsAre
      <3>2. PICK j \in J : \A k \in J : j <= k
        BY <2>2, <3>1, HasLeast
      <3>3. PICK a \in actions : Picked(a) /\ a.at = j
        OBVIOUS
      <3>4. ASSUME NEW e \in Rejected(g, a), Family(e) \in g.packages, pick[Family(e)] = e PROVE FALSE
        <4>1. e \in Before(a.all, a.new)
          BY <3>3, <3>4 DEF Rejected
        <4>2. PICK x \in a.all : x.new = e /\ \A z \in a.all : z.at <= x.at => z.new # a.new
          BY <4>1 DEF Before
        <4>3. a.all = {[at |-> b.at, new |-> b.new] : b \in actions}
          BY <1>1, <4>2 DEF ActionsAre
        <4>4. PICK b \in actions : x = [at |-> b.at, new |-> b.new]
          BY <4>2, <4>3
        <4>5. Picked(b) /\ x.at = b.at
          BY <3>4, <4>2, <4>4 DEF IsUnsatisfied, IsVersionElement
        <4>6. ~(a.at <= b.at)
          <5>1. [at |-> a.at, new |-> a.new] \in a.all
            BY <4>3
          <5>2. QED
            BY <4>2, <4>5, <5>1
        <4>7. b.at \in J /\ j <= b.at
          BY <3>2, <4>5
        <4>8. QED
          BY <3>3, <4>6, <4>7
      <3>5. QED
        BY <3>3, <3>4
    <2>3. QED
      BY <2>1, <2>2
  <1>4. ASSUME NEW t, IsSolution(g, t), t.entries = s.entries
        PROVE  Compatible(g, ApplyAction(g, t, a), pick)
    <2> DEFINE u == ApplyAction(g, t, a)
    <2>1. Applied(g, t, a, u)
      BY <1>1, <1>4, SameEntries, ActionIsApplied
    <2> HIDE DEF u
    <2>2. ASSUME NEW f \in DOMAIN u.entries \cap g.packages
          PROVE  /\ u.entries[f].sticked => u.entries[f].element = pick[f]
                 /\ pick[f] \notin u.entries[f].rejected
      <3>1. CASE f = Family(a.new)
        <4>1. u.entries[f] = Entry(a.new, a.priority > 0, a.by, t.level)
          BY <2>1, <3>1 DEF Applied
        <4>2. u.entries[f].element = a.new /\ u.entries[f].rejected = {}
          BY <4>1 DEF Entry
        <4>3. QED
          BY <1>3, <2>2, <3>1, <4>2 DEF IsUnsatisfied, IsVersionElement
      <3>2. CASE f # Family(a.new)
        <4>1. /\ u.entries[f].element = EntryIn(s, f).element
              /\ u.entries[f].sticked = EntryIn(s, f).sticked
              /\ u.entries[f].rejected = EntryIn(s, f).rejected \cup {e \in Rejected(g, a) : Family(e) = f}
          BY <1>4, <2>1, <2>2, <3>2 DEF Applied, EntryIn
        <4>2. /\ EntryIn(s, f).sticked => EntryIn(s, f).element = pick[f]
              /\ pick[f] \notin EntryIn(s, f).rejected
          BY <2>2 DEF Compatible, EntryIn, Entry
        <4>3. pick[f] \notin {e \in Rejected(g, a) : Family(e) = f}
          BY <1>3, <2>2
        <4>4. QED
          BY <4>1, <4>2, <4>3
      <3>3. QED
        BY <3>1, <3>2
    <2>3. QED
      BY <2>2 DEF Compatible, u
  <1>5. QED
    BY <1>4 DEF actions

(***************************************************************************)
(* Until a solution is found the tree has one, for every answer, that can  *)
(* still become it; and so has the initial solution, which a restart goes  *)
(* back to though steps have been applied to it in place.                  *)
(***************************************************************************)
PreparedFrom(g, s, n) ==
    IF IsPrepared(n) THEN s
    ELSE ApplyAction(g,
            [s EXCEPT !.id = n.id, !.score = @ + n.score, !.level = @ + 1, !.finished = FALSE],
            n.action)

Hopeful(g, s, pick) == s.finished \/ Compatible(g, s, pick)

AnswersLeft(g, h, t) ==
    \A pick \in Answers(g) : \E n \in t : Hopeful(g, PreparedFrom(g, h[n.ref], n), pick)

Complete ==
    /\ anyFound \in BOOLEAN
    /\ status = "offering" => anyFound = TRUE
    /\ \A pick \in Answers(graph) : Hopeful(graph, heap[Initial], pick)
    /\ status = "resolving" /\ anyFound = FALSE => AnswersLeft(graph, heap, tree)
    /\ status = "resolving" /\ anyFound = FALSE /\ tree = {} => failTree # {}
    /\ status = "unable" => Answers(graph) = {} /\ failTree # {}

(* The initial solution keeps nothing the user has not asked for. *)
LEMMA InitialAllowsAnswers ==
    ASSUME NEW g, IsGraph(g), NEW pick \in Answers(g)
    PROVE  Compatible(g, InitialSolution(g), pick)
  <1> DEFINE s == InitialSolution(g)
  <1>1. s.entries = InitialEntries(g)
    BY DEF InitialSolution
  <1> HIDE DEF s
  <1>2. ASSUME NEW f \in DOMAIN s.entries \cap g.packages
        PROVE  /\ s.entries[f].sticked => s.entries[f].element = pick[f]
               /\ pick[f] \notin s.entries[f].rejected
    <2>1. f \in DOMAIN g.installed \cup {User}
      BY <1>1, <1>2 DEF InitialEntries
    <2>2. CASE f # User
      BY <1>1, <2>1, <2>2 DEF InitialEntries, Entry
    <2>3. CASE f = User
      <3>1. s.entries[f] = Entry(EmptyOf(User), TRUE, NoReason, 0)
        BY <1>1, <2>3 DEF InitialEntries
      <3>2. s.entries[f].element = EmptyOf(User) /\ s.entries[f].rejected = {}
        BY <3>1 DEF Entry
      <3>3. pick[User] \in Elements(g) /\ Family(pick[User]) = User
        BY <1>2, <2>3 DEF Answers, IsGraph, RelatedAreElements
      <3>4. EmptyOf(User) \in Elements(g) /\ Family(EmptyOf(User)) = User
        BY DEF IsGraph, PackagesHaveElements, EmptyOf, Family
      <3>5. pick[User] = EmptyOf(User)
        BY <3>3, <3>4 DEF IsGraph, AlternativesAreVersions
      <3>6. QED
        BY <2>3, <3>2, <3>5
    <2>4. QED
      BY <2>2, <2>3
  <1>3. QED
    BY <1>2 DEF Compatible, s

LEMMA InitComplete == Init => Complete
  <1> SUFFICES ASSUME Init PROVE Complete
    OBVIOUS
  <1>1. IsGraph(graph) /\ anyFound = FALSE /\ status = "resolving" /\ tree = {PreparedNode(Initial)}
        /\ heap[Initial] = InitialSolution(graph)
    BY ProblemsAssumption DEF Init
  <1>2. \A pick \in Answers(graph) : Hopeful(graph, heap[Initial], pick)
    BY <1>1, InitialAllowsAnswers DEF Hopeful
  <1>3. AnswersLeft(graph, heap, tree)
    <2>1. PreparedNode(Initial).ref = Initial /\ IsPrepared(PreparedNode(Initial))
      BY DEF PreparedNode, IsPrepared
    <2>2. QED
      BY <1>1, <1>2, <2>1 DEF AnswersLeft, PreparedFrom
  <1>4. QED
    BY <1>1, <1>2, <1>3 DEF Complete

(* A chosen node that an answer still fits has a way on to it. *)
LEMMA HopeGoesOn ==
    ASSUME Inv, NEW n \in tree, NEW by \in Pairs(Prepared(n)), BrokenPair(Prepared(n), by),
           NEW pick \in Answers(graph), Hopeful(graph, Prepared(n), pick)
    PROVE  \E a \in PossibleActions(graph, Prepared(n), by) : \A t :
                IsSolution(graph, t) /\ t.entries = Prepared(n).entries =>
                    Hopeful(graph, ApplyAction(graph, t, a), pick)
  <1> DEFINE s == Prepared(n)
  <1>1. Good(graph, s) /\ IsGraph(graph) /\ ~s.finished
    BY PreparedIsGood, BrokenPairActs DEF Inv
  <1>2. /\ by \in [version : PresentElements(s), relation : DOMAIN s.broken]
        /\ by.version \in Dependants(graph, s, by.relation)
    BY DEF Pairs, BrokenPair
  <1>3. Compatible(graph, s, pick)
    BY <1>1 DEF Hopeful
  <1> HIDE DEF s
  <1>4. IsSolution(graph, s) /\ DOMAIN s.broken \subseteq BrokenRelations(graph, s)
    BY <1>1 DEF Good
  <1>5. \E a \in PossibleActions(graph, s, by) : \A t :
            IsSolution(graph, t) /\ t.entries = s.entries => Compatible(graph, ApplyAction(graph, t, a), pick)
    BY <1>1, <1>2, <1>3, <1>4, AnswerSurvives
  <1>6. QED
    BY <1>5 DEF Hopeful, s

(* The steps that keep objects as they are. *)
LEMMA ForgettingKeepsHope ==
    ASSUME Inv, Complete, heap' = Live(heap, tree'), UNCHANGED graph,
           tree' \subseteq tree \/ tree' = {PreparedNode(Initial)}
    PROVE  /\ \A pick \in Answers(graph') : Hopeful(graph', heap'[Initial], pick)
           /\ \A m \in tree \cap tree' : heap'[m.ref] = heap[m.ref]
           /\ tree' = {PreparedNode(Initial)} => AnswersLeft(graph', heap', tree')
  <1>1. Initial \in DOMAIN heap /\ \A m \in tree : m.ref \in DOMAIN heap
    BY DEF Inv, GoodHeap, GoodTree
  <1>2. heap'[Initial] = heap[Initial] /\ \A m \in tree \cap tree' : heap'[m.ref] = heap[m.ref]
    BY <1>1 DEF Live
  <1>3. \A pick \in Answers(graph') : Hopeful(graph', heap'[Initial], pick)
    BY <1>2 DEF Complete
  <1>4. ASSUME tree' = {PreparedNode(Initial)} PROVE AnswersLeft(graph', heap', tree')
    <2>1. PreparedNode(Initial).ref = Initial /\ IsPrepared(PreparedNode(Initial))
      BY DEF PreparedNode, IsPrepared
    <2>2. QED
      BY <1>3, <1>4, <2>1 DEF AnswersLeft, PreparedFrom
  <1>5. QED
    BY <1>2, <1>3, <1>4

(* Where the objects are after solution u has been stored in place of the  *)
(* chosen node n. *)
LEMMA StoredOrKept ==
    ASSUME Inv, NEW n \in tree, NEW u, NEW K, tree' = (tree \ {n}) \cup K,
           heap' = Live(Store(heap, RefOf(n), u), tree'), \A m \in K : m.ref = RefOf(n)
    PROVE  /\ \A m \in tree \ {n} : heap'[m.ref] = heap[m.ref]
           /\ \A m \in K : heap'[m.ref] = u
           /\ heap'[Initial] = IF RefOf(n) = Initial THEN u ELSE heap[Initial]
           /\ RefOf(n) = Initial => Prepared(n) = heap[Initial]
  <1> DEFINE r == RefOf(n)
             w == Store(heap, r, u)
  <1>1. /\ (IsPrepared(n) /\ r = n.ref) \/ (~IsPrepared(n) /\ r \notin DOMAIN heap)
        /\ Initial \in DOMAIN heap
        /\ \A m \in tree : m.ref \in DOMAIN heap
        /\ \A m, x \in tree : IsPrepared(m) /\ m.ref = x.ref => m = x
    BY RefIsFresh DEF Inv, GoodHeap, GoodTree
  <1>2. /\ DOMAIN w = DOMAIN heap \cup {r} /\ w[r] = u
        /\ \A ref \in DOMAIN heap : ref # r => w[ref] = heap[ref]
    BY DEF Store
  <1> HIDE DEF r, w
  <1>3. /\ DOMAIN heap' = DOMAIN w \cap ({Initial} \cup {m.ref : m \in tree'})
        /\ \A ref \in DOMAIN heap' : heap'[ref] = w[ref]
    BY DEF Live, w, r
  <1>4. ASSUME NEW m \in tree \ {n} PROVE heap'[m.ref] = heap[m.ref]
    <2>1. m.ref \in DOMAIN heap /\ m.ref # r /\ m \in tree'
      BY <1>1
    <2>2. QED
      BY <1>2, <1>3, <2>1
  <1>5. ASSUME NEW m \in K PROVE heap'[m.ref] = u
    <2>1. m.ref = r /\ m \in tree'
      BY DEF r
    <2>2. QED
      BY <1>2, <1>3, <2>1
  <1>6. heap'[Initial] = IF r = Initial THEN u ELSE heap[Initial]
    BY <1>1, <1>2, <1>3
  <1>7. r = Initial => Prepared(n) = heap[Initial]
    BY <1>1 DEF Prepared
  <1>8. QED
    BY <1>4, <1>5, <1>6, <1>7 DEF r

(* The steps that store solution u in place of the chosen node n. *)
LEMMA StoringKeepsHope ==
    ASSUME Inv, Complete, NEW n \in tree, NEW u, NEW K, tree' = (tree \ {n}) \cup K,
           heap' = Live(Store(heap, RefOf(n), u), tree'), UNCHANGED graph,
           \A m \in K : m.ref = RefOf(n),
           \A pick \in Answers(graph) : Hopeful(graph, Prepared(n), pick) => Hopeful(graph, u, pick)
    PROVE  /\ \A pick \in Answers(graph') : Hopeful(graph', heap'[Initial], pick)
           /\ /\ AnswersLeft(graph, heap, tree)
              /\ \A pick \in Answers(graph) : Hopeful(graph, Prepared(n), pick) =>
                    \E m \in K : Hopeful(graph, PreparedFrom(graph, u, m), pick)
              => AnswersLeft(graph', heap', tree')
  <1>0. /\ \A m \in tree \ {n} : heap'[m.ref] = heap[m.ref]
        /\ \A m \in K : heap'[m.ref] = u
        /\ heap'[Initial] = IF RefOf(n) = Initial THEN u ELSE heap[Initial]
        /\ RefOf(n) = Initial => Prepared(n) = heap[Initial]
    BY StoredOrKept
  <1>1. /\ \A m \in tree \ {n} : heap'[m.ref] = heap[m.ref] /\ m \in tree'
        /\ \A m \in K : heap'[m.ref] = u /\ m \in tree'
        /\ heap'[Initial] = IF RefOf(n) = Initial THEN u ELSE heap[Initial]
        /\ RefOf(n) = Initial => Prepared(n) = heap[Initial]
    BY <1>0
  <1>2. \A pick \in Answers(graph') : Hopeful(graph', heap'[Initial], pick)
    BY <1>1 DEF Complete
  <1>3. ASSUME AnswersLeft(graph, heap, tree), NEW pick \in Answers(graph),
               Hopeful(graph, Prepared(n), pick) =>
                    \E m \in K : Hopeful(graph, PreparedFrom(graph, u, m), pick)
        PROVE  \E m \in tree' : Hopeful(graph, PreparedFrom(graph, heap'[m.ref], m), pick)
    <2>1. PICK x \in tree : Hopeful(graph, PreparedFrom(graph, heap[x.ref], x), pick)
      BY <1>3 DEF AnswersLeft
    <2>2. CASE x = n
      <3>1. PreparedFrom(graph, heap[n.ref], n) = Prepared(n)
        BY DEF PreparedFrom, Prepared
      <3>2. PICK m \in K : Hopeful(graph, PreparedFrom(graph, u, m), pick)
        BY <1>3, <2>1, <2>2, <3>1
      <3>3. QED
        BY <1>1, <3>2
    <2>3. CASE x # n
      BY <1>1, <2>1, <2>3
    <2>4. QED
      BY <2>2, <2>3
  <1>4. QED
    BY <1>2, <1>3 DEF AnswersLeft

(* A failure is never without an explanation: what would displace all      *)
(* others is put in their place. *)
LEMMA FailuresStay ==
    ASSUME NEW item, AddFailedSolution(item)
    PROVE  failTree' # {}
  <1>1. PICK existing \in [failTree -> BOOLEAN], dominant \in [failTree -> BOOLEAN] :
            failTree' = {old \in failTree : existing[old] \/ ~dominant[old]}
                            \cup {new \in {item} : \A old \in failTree : ~existing[old]}
    BY DEF AddFailedSolution
  <1>2. CASE \A old \in failTree : ~existing[old]
    BY <1>1, <1>2
  <1>3. CASE \E old \in failTree : existing[old]
    BY <1>1, <1>3
  <1>4. QED
    BY <1>2, <1>3

LEMMA NoActionsIsComplete ==
    ASSUME Inv, Complete, NEW n \in tree, NoActions(n)
    PROVE  Complete'
  <1>1. /\ heap' = Live(heap, tree') /\ UNCHANGED <<graph, anyFound, status>> /\ status = "resolving"
        /\ tree' = tree \ {n}
    BY DEF NoActions, Turn
  <1>2. /\ \A pick \in Answers(graph') : Hopeful(graph', heap'[Initial], pick)
        /\ \A m \in tree \cap tree' : heap'[m.ref] = heap[m.ref]
    BY <1>1, ForgettingKeepsHope
  <1>3. PICK by \in Pairs(Prepared(n)) :
            /\ BrokenPair(Prepared(n), by)
            /\ PossibleActions(graph, Prepared(n), by) = {}
            /\ IF anyFound THEN UNCHANGED failTree ELSE AddFailedSolution(FailItem(Prepared(n), by))
    BY DEF NoActions
  <1>4. \A pick \in Answers(graph) : ~Hopeful(graph, Prepared(n), pick)
    BY <1>3, HopeGoesOn
  <1>5. PreparedFrom(graph, heap[n.ref], n) = Prepared(n)
    BY DEF PreparedFrom, Prepared
  <1>6. ASSUME anyFound = FALSE PROVE AnswersLeft(graph', heap', tree') /\ failTree' # {}
    <2>1. AnswersLeft(graph, heap, tree)
      BY <1>1, <1>6 DEF Complete
    <2>2. AnswersLeft(graph', heap', tree')
      BY <1>1, <1>2, <1>4, <1>5, <2>1 DEF AnswersLeft
    <2>3. QED
      BY <1>3, <1>6, <2>2, FailuresStay
  <1>7. QED
    BY <1>1, <1>2, <1>6 DEF Complete

LEMMA ApplyInPlaceIsComplete ==
    ASSUME Inv, Complete, NEW n \in tree, ApplyInPlace(n)
    PROVE  Complete'
  <1> DEFINE p == Prepared(n)
             K == {PreparedNode(RefOf(n))}
  <1>1. PICK by \in Pairs(p), change \in options.scoreChanges :
            /\ BrokenPair(p, by)
            /\ Cardinality(PossibleActions(graph, p, by)) = 1
            /\ \E a \in PossibleActions(graph, p, by) :
                heap' = Live(Store(heap, RefOf(n),
                            ApplyAction(graph,
                                [p EXCEPT !.id = nextId, !.level = @ + 1, !.score = @ + change],
                                a)), tree')
    BY DEF ApplyInPlace
  <1> DEFINE actions == PossibleActions(graph, p, by)
             t == [p EXCEPT !.id = nextId, !.level = @ + 1, !.score = @ + change]
  <1>2. PICK a \in actions : heap' = Live(Store(heap, RefOf(n), ApplyAction(graph, t, a)), tree')
    BY <1>1
  <1>3. IsFiniteSet(actions) /\ Good(graph, p)
    BY <1>1, PreparedIsGood, BrokenPairActs
  <1>4. actions = {a}
    <2>1. Cardinality(actions) = 1
      BY <1>1
    <2> HIDE DEF actions
    <2>2. Cardinality({a}) = 1 /\ {a} \in SUBSET actions
      BY FS_Singleton
    <2>3. QED
      BY <1>3, <2>1, <2>2, FS_Subset
  <1>5. nextId \in Nat /\ change \in Int
    BY DEF Inv, IsOptions
  <1>6. IsSolution(graph, t) /\ t.entries = p.entries
    <2>1. IsSolution(graph, p)
      BY <1>3 DEF Good
    <2> HIDE DEF p
    <2>2. QED
      BY <1>5, <2>1 DEF IsSolution
  <1> HIDE DEF t, actions
  <1> DEFINE u == ApplyAction(graph, t, a)
  <1>7. ASSUME NEW pick \in Answers(graph), Hopeful(graph, p, pick) PROVE Hopeful(graph, u, pick)
    <2>1. PICK b \in actions : \A x : IsSolution(graph, x) /\ x.entries = p.entries =>
                    Hopeful(graph, ApplyAction(graph, x, b), pick)
      BY <1>1, <1>7, HopeGoesOn DEF actions
    <2>2. QED
      BY <1>4, <1>6, <2>1
  <1>8. /\ UNCHANGED <<graph, status, anyFound>> /\ status = "resolving"
        /\ tree' = (tree \ {n}) \cup K
    BY DEF ApplyInPlace, Turn
  <1>9. \A m \in K : m.ref = RefOf(n) /\ PreparedFrom(graph, u, m) = u
    BY DEF PreparedNode, IsPrepared, PreparedFrom
  <1>10. K # {}
    OBVIOUS
  <1> HIDE DEF u, K, p
  <1>11. /\ \A pick \in Answers(graph') : Hopeful(graph', heap'[Initial], pick)
         /\ AnswersLeft(graph, heap, tree) => AnswersLeft(graph', heap', tree')
    BY <1>2, <1>7, <1>8, <1>9, <1>10, StoringKeepsHope DEF u, p
  <1>12. tree' # {}
    BY <1>8, <1>10
  <1>13. QED
    BY <1>8, <1>11, <1>12 DEF Complete

LEMMA BranchIsComplete ==
    ASSUME Inv, Complete, NEW n \in tree, Branch(n)
    PROVE  Complete'
  <1> DEFINE s == Prepared(n)
             actions(by) == PossibleActions(graph, s, by)
             Earlier(by, a) == {b \in actions(by) : b.at < a.at}
             node(by, change, a) == [ref |-> RefOf(n), action |-> a,
                                     id |-> nextId + Cardinality(Earlier(by, a)), score |-> change[a]]
  <1>1. PICK by \in Pairs(s) :
            /\ BrokenPair(s, by)
            /\ WithinLimit(n, actions(by))
            /\ \E change \in [actions(by) -> options.scoreChanges] :
                tree' = (tree \ {n}) \cup {node(by, change, a) : a \in actions(by)}
            /\ heap' = Live(Store(heap, RefOf(n), s), tree')
    BY DEF Branch
  <1>2. PICK change \in [actions(by) -> options.scoreChanges] :
            tree' = (tree \ {n}) \cup {node(by, change, a) : a \in actions(by)}
    BY <1>1
  <1> DEFINE K == {node(by, change, a) : a \in actions(by)}
  <1>3. /\ Good(graph, s)
        /\ IsFiniteSet(actions(by))
        /\ \A a \in actions(by) : a # NoAction
    BY <1>1, PreparedIsGood, BrokenPairActs
  <1>4. actions(by) # {}
    BY <1>1 DEF WithinLimit
  <1>5. ASSUME NEW a \in actions(by)
        PROVE  node(by, change, a).score \in Int /\ node(by, change, a).id \in Nat
    <2>1. Earlier(by, a) \in SUBSET actions(by)
      OBVIOUS
    <2> HIDE DEF Earlier, actions
    <2>2. Cardinality(Earlier(by, a)) \in Nat
      BY <1>3, <2>1, FS_Subset, FS_CardinalityType
    <2>3. QED
      BY <2>2 DEF Inv, IsOptions
  <1> HIDE DEF Earlier
  <1>6. \A a \in actions(by) : node(by, change, a).ref = RefOf(n) /\ node(by, change, a).action = a
    OBVIOUS
  <1> HIDE DEF node, s, actions
  <1>7. ASSUME NEW pick \in Answers(graph), Hopeful(graph, s, pick)
        PROVE  \E m \in K : Hopeful(graph, PreparedFrom(graph, s, m), pick)
    <2>1. PICK a \in actions(by) : \A t : IsSolution(graph, t) /\ t.entries = s.entries =>
                    Hopeful(graph, ApplyAction(graph, t, a), pick)
      BY <1>1, <1>7, HopeGoesOn DEF s, actions
    <2> DEFINE m == node(by, change, a)
               t == [s EXCEPT !.id = m.id, !.score = @ + m.score, !.level = @ + 1, !.finished = FALSE]
    <2>2. m.action = a /\ ~IsPrepared(m) /\ m.score \in Int /\ m.id \in Nat
      BY <1>3, <1>5, <1>6 DEF IsPrepared
    <2> HIDE DEF m
    <2>3. IsSolution(graph, t) /\ t.entries = s.entries
      BY <1>3, <2>2 DEF Good, IsSolution
    <2>4. PreparedFrom(graph, s, m) = ApplyAction(graph, t, a)
      BY <2>2 DEF PreparedFrom
    <2> HIDE DEF t
    <2>5. QED
      BY <2>1, <2>3, <2>4 DEF m
  <1>8. UNCHANGED <<graph, status, anyFound>> /\ status = "resolving"
    BY DEF Branch, Turn
  <1>9. \A m \in K : m.ref = RefOf(n)
    BY <1>6
  <1>10. K # {}
    BY <1>4
  <1>11. tree' = (tree \ {n}) \cup K
    BY <1>2
  <1> HIDE DEF K
  <1>12. /\ \A pick \in Answers(graph') : Hopeful(graph', heap'[Initial], pick)
         /\ AnswersLeft(graph, heap, tree) => AnswersLeft(graph', heap', tree')
    BY <1>1, <1>7, <1>8, <1>9, <1>11, StoringKeepsHope DEF s
  <1>13. tree' # {}
    BY <1>10, <1>11
  <1>14. QED
    BY <1>8, <1>12, <1>13 DEF Complete

LEMMA DeferIsComplete ==
    ASSUME Inv, Complete, NEW n \in tree, Defer(n)
    PROVE  Complete'
  <1> DEFINE K == {PreparedNode(RefOf(n))}
             u == Finished(n)
  <1>1. /\ UNCHANGED <<graph, status, anyFound>> /\ status = "resolving"
        /\ tree' = (tree \ {n}) \cup K
        /\ heap' = Live(Store(heap, RefOf(n), u), tree') /\ IsSolved(n)
    BY DEF Defer, Turn, TreeWithFinished, WithFinished
  <1>2. u.finished = TRUE
    BY <1>1, FinishedIsGood
  <1>3. \A m \in K : m.ref = RefOf(n) /\ PreparedFrom(graph, u, m) = u
    BY DEF PreparedNode, IsPrepared, PreparedFrom
  <1>4. K # {}
    OBVIOUS
  <1> HIDE DEF u, K
  <1>5. \A pick \in Answers(graph) : Hopeful(graph, u, pick)
    BY <1>2 DEF Hopeful
  <1>6. /\ \A pick \in Answers(graph') : Hopeful(graph', heap'[Initial], pick)
        /\ AnswersLeft(graph, heap, tree) => AnswersLeft(graph', heap', tree')
    BY <1>1, <1>3, <1>4, <1>5, StoringKeepsHope
  <1>7. tree' # {}
    BY <1>1, <1>4
  <1>8. QED
    BY <1>1, <1>6, <1>7 DEF Complete

LEMMA ProposeIsComplete ==
    ASSUME Inv, Complete, NEW n \in tree, Propose(n)
    PROVE  Complete'
  <1> DEFINE u == Cleaned(Finished(n))
             K == {}
  <1>1. /\ UNCHANGED graph /\ status' = "offering" /\ anyFound' = TRUE
        /\ tree' = (tree \ {n}) \cup K
        /\ heap' = Live(Store(heap, RefOf(n), u), tree') /\ IsSolved(n)
    BY DEF Propose, Turn, IsPreferred
  <1>2. u.finished = TRUE
    <2>1. Finished(n).finished = TRUE /\ IsSolution(graph, Finished(n))
      BY <1>1, FinishedIsGood DEF Good
    <2>2. QED
      BY <2>1 DEF Cleaned, IsSolution
  <1>3. \A m \in K : m.ref = RefOf(n)
    OBVIOUS
  <1> HIDE DEF u, K
  <1>4. \A pick \in Answers(graph) : Hopeful(graph, u, pick)
    BY <1>2 DEF Hopeful
  <1>5. \A pick \in Answers(graph') : Hopeful(graph', heap'[Initial], pick)
    BY <1>1, <1>3, <1>4, StoringKeepsHope
  <1>6. QED
    BY <1>1, <1>5 DEF Complete

LEMMA StepKeepsComplete ==
    ASSUME Inv, Complete, [Next]_vars
    PROVE  Complete'
  <1>1. CASE UNCHANGED vars
    BY <1>1 DEF vars, Complete, AnswersLeft
  <1>2. ASSUME NEW n \in tree, HitSolutionTreeLimit(n) PROVE Complete'
    <2>1. /\ heap' = Live(heap, tree') /\ UNCHANGED <<graph, status>> /\ status = "resolving"
          /\ tree' = {PreparedNode(Initial)} /\ anyFound' = FALSE
      BY <1>2 DEF HitSolutionTreeLimit, Turn
    <2>2. /\ \A pick \in Answers(graph') : Hopeful(graph', heap'[Initial], pick)
          /\ AnswersLeft(graph', heap', tree')
      BY <2>1, ForgettingKeepsHope
    <2>3. QED
      BY <2>1, <2>2 DEF Complete
  <1>3. ASSUME NEW n \in tree, HitLeafLimit(n) \/ Abort(n) PROVE Complete'
    <2>1. /\ heap' = Live(heap, tree') /\ UNCHANGED <<graph, anyFound>>
          /\ tree' = {} /\ status' \in {"leaf limit", "internal error", "crash"}
      BY <1>3 DEF HitLeafLimit, Abort, Turn
    <2>2. \A pick \in Answers(graph') : Hopeful(graph', heap'[Initial], pick)
      BY <2>1, ForgettingKeepsHope
    <2>3. QED
      BY <2>1, <2>2 DEF Complete
  <1>4. ASSUME Answer PROVE Complete'
    <2>1. /\ status = "offering" /\ status' \in {"yes", "no", "resolving"}
          /\ UNCHANGED <<graph, heap, tree, anyFound, failTree>>
      BY <1>4 DEF Answer
    <2>2. QED
      BY <2>1 DEF Complete
  <1>5. ASSUME GiveUp PROVE Complete'
    <2>1. /\ status = "resolving" /\ tree = {} /\ UNCHANGED <<graph, heap, tree, anyFound, failTree>>
          /\ status' = IF anyFound THEN "no" ELSE "unable"
      BY <1>5 DEF GiveUp
    <2>2. anyFound = FALSE => Answers(graph) = {} /\ failTree # {}
      BY <2>1 DEF Complete, AnswersLeft
    <2>3. QED
      BY <2>1, <2>2 DEF Complete
  <1>6. QED
    BY <1>1, <1>2, <1>3, <1>4, <1>5, NoActionsIsComplete, ApplyInPlaceIsComplete, BranchIsComplete,
       DeferIsComplete, ProposeIsComplete
    DEF Next, TakeTurn

-----------------------------------------------------------------------------
(***************************************************************************)
(* No two branches of the search can meet.                                 *)
(***************************************************************************)

(* The actions for one dependency put in different elements, if its        *)
(* version cannot be helped by another version of the same package.        *)
LEMMA NewElementsDiffer ==
    ASSUME NEW g, IsGraph(g), NeedsNoOtherVersion(g), NEW s, IsSolution(g, s),
           NEW by \in [version : PresentElements(s), relation : DOMAIN s.broken],
           by.version \in Dependants(g, s, by.relation),
           DOMAIN s.broken \subseteq BrokenRelations(g, s),
           NEW a \in PossibleActions(g, s, by), NEW b \in PossibleActions(g, s, by), a # b
    PROVE  /\ a.new # b.new
           /\ IsUnsatisfied(g, a.new) => ~IsUnsatisfied(g, b.new)
  <1> DEFINE p == g.satisfiers[by.relation]
             q == g.related[Family(by.version)]
             v == by.version
             r == by.relation
  <1>1. v \in Elements(g) /\ Here(s, Family(v)) = v /\ r \in g.requires[v]
    <2>1. v \in PresentElements(s) /\ r \in Requires(g, v)
      BY DEF Dependants
    <2>2. v \in Elements(g) /\ Here(s, Family(v)) = v
      BY <2>1, PresentIsHere
    <2>3. QED
      BY <2>1, <2>2, NoneIsNoElement DEF Requires
  <1>2. r \in Relations(g) /\ Family(v) \in g.packages
    BY <1>1 DEF IsGraph, OnlyVersionsRequire, IsVersionElement
  <1>3. v \notin Successors(g, r)
    BY <1>1, <1>2, VerifyIsHere, BrokenIsNeeded
  <1>4. /\ HasNoDuplicates(p) /\ HasNoDuplicates(q)
        /\ \A i \in DOMAIN p : p[i] \in Successors(g, r) /\ p[i] \in Elements(g)
        /\ \A i \in DOMAIN q : q[i] \in Elements(g) /\ Family(q[i]) = Family(v)
    BY <1>2 DEF IsGraph, SatisfiersAreElements, RelatedAreElements, Successors, Image
  <1> DEFINE Fixes(x) == \E i \in DOMAIN p : x.at = i /\ x.new = p[i]
             Modifies(x) == \E i \in DOMAIN q : x.at = Len(p) + i /\ x.new = q[i] /\ x.new # v
  <1>5. /\ Fixes(a) \/ Modifies(a)
        /\ Fixes(b) \/ Modifies(b)
        /\ a.at # b.at
    BY PossibleActionsAre DEF ActionsAre
  <1> HIDE DEF p, q
  <1>6. \A x : Modifies(x) => Family(x.new) = Family(v) /\ x.new \in Elements(g) /\ x.new # v
    BY <1>4
  <1>7. \A x : Fixes(x) => x.new \in Successors(g, r)
    BY <1>4
  <1>8. ASSUME a.new = b.new PROVE FALSE
    <2>1. CASE Fixes(a) /\ Fixes(b)
      BY <1>4, <1>5, <1>8, <2>1 DEF HasNoDuplicates
    <2>2. CASE Modifies(a) /\ Modifies(b)
      BY <1>4, <1>5, <1>8, <2>2 DEF HasNoDuplicates
    <2>3. CASE (Fixes(a) /\ Modifies(b)) \/ (Fixes(b) /\ Modifies(a))
      <3>1. a.new \in Successors(g, r) /\ Family(a.new) = Family(v) /\ a.new \in Elements(g) /\ a.new # v
        BY <1>6, <1>7, <1>8, <2>3
      <3>2. QED
        BY <1>1, <1>3, <3>1 DEF NeedsNoOtherVersion
    <2> HIDE DEF Fixes, Modifies
    <2>4. QED
      BY <1>5, <2>1, <2>2, <2>3
  <1>9. ASSUME IsUnsatisfied(g, a.new), IsUnsatisfied(g, b.new) PROVE FALSE
    <2>1. ~Modifies(a) /\ ~Modifies(b)
      BY <1>2, <1>6, <1>9 DEF IsUnsatisfied, IsVersionElement
    <2> HIDE DEF Fixes, Modifies
    <2>2. a.new \in Successors(g, r) /\ b.new \in Successors(g, r)
      BY <1>5, <1>7, <2>1
    <2>3. a.new = b.new
      BY <1>2, <1>9, <2>2 DEF IsUnsatisfied, IsGraph, OneUnsatisfied
    <2>4. QED
      BY <1>8, <2>3
  <1>10. QED
    BY <1>8, <1>9

(* What an action has put in is decided; what was decided or excluded      *)
(* before stays so; and what is rejected is excluded.                      *)
LEMMA DecisionsStay ==
    ASSUME NEW g, IsGraph(g), NEW s, IsSolution(g, s), NEW a, Fits(g, s, a),
           Replaceable(s, a.new), a.priority > 0
    PROVE  /\ Decided(ApplyAction(g, s, a), a.new)
           /\ \A e : Decided(s, e) => Decided(ApplyAction(g, s, a), e)
           /\ \A e : Excluded(s, e) => Excluded(ApplyAction(g, s, a), e)
           /\ \A e : Family(e) = Family(a.new) /\ e # a.new => Excluded(ApplyAction(g, s, a), e)
           /\ \A e \in Rejected(g, a) :
                e \in Elements(g) /\ Family(e) # Family(a.new) /\ Here(s, Family(e)) # e
                    /\ (~IsVersionElement(g, e) => HasFamily(s, e))
                    => Excluded(ApplyAction(g, s, a), e)
  <1> DEFINE u == ApplyAction(g, s, a)
  <1>1. Applied(g, s, a, u)
    BY ActionIsApplied
  <1> HIDE DEF u
  <1>2. /\ Family(a.new) \in DOMAIN u.entries
        /\ u.entries[Family(a.new)].element = a.new
        /\ u.entries[Family(a.new)].sticked
        /\ u.entries[Family(a.new)].rejected = {}
    <2>1. u.entries[Family(a.new)] = Entry(a.new, a.priority > 0, a.by, s.level)
          /\ Family(a.new) \in DOMAIN u.entries
      BY <1>1 DEF Applied
    <2>2. (a.priority > 0) = TRUE
      OBVIOUS
    <2>3. u.entries[Family(a.new)] = Entry(a.new, TRUE, a.by, s.level)
      BY <2>1, <2>2
    <2>4. QED
      BY <2>1, <2>3 DEF Entry
  <1>3. ASSUME NEW f \in DOMAIN s.entries, f # Family(a.new)
        PROVE  /\ f \in DOMAIN u.entries
               /\ u.entries[f].element = s.entries[f].element
               /\ u.entries[f].sticked = s.entries[f].sticked
               /\ s.entries[f].rejected \subseteq u.entries[f].rejected
    BY <1>1, <1>3 DEF Applied, EntryIn
  <1>4. ASSUME NEW e, Decided(s, e) PROVE Decided(u, e)
    <2>1. Family(e) \in DOMAIN s.entries /\ s.entries[Family(e)].sticked
          /\ s.entries[Family(e)].element = e
      BY <1>4 DEF Decided, Present, HasFamily, EntryOf
    <2>2. Family(e) # Family(a.new)
      BY <2>1 DEF Replaceable, HasFamily, EntryOf
    <2>3. QED
      BY <1>3, <2>1, <2>2 DEF Decided, Present, HasFamily, EntryOf
  <1>5. ASSUME NEW e, Family(e) = Family(a.new), e # a.new PROVE Excluded(u, e)
    BY <1>2, <1>5 DEF Excluded, Present, HasFamily, EntryOf, Replaceable
  <1>6. ASSUME NEW e, Excluded(s, e) PROVE Excluded(u, e)
    <2>1. Family(e) \in DOMAIN s.entries /\ s.entries[Family(e)].element # e
          /\ (s.entries[Family(e)].sticked \/ e \in s.entries[Family(e)].rejected)
      BY <1>6 DEF Excluded, Present, HasFamily, EntryOf, Replaceable
    <2>2. CASE Family(e) = Family(a.new)
      <3>1. e # a.new
        BY <2>1, <2>2 DEF Replaceable, HasFamily, EntryOf
      <3>2. QED
        BY <1>5, <2>2, <3>1
    <2>3. CASE Family(e) # Family(a.new)
      BY <1>3, <2>1, <2>3 DEF Excluded, Present, HasFamily, EntryOf, Replaceable
    <2>4. QED
      BY <2>2, <2>3
  <1>7. ASSUME NEW e \in Rejected(g, a), e \in Elements(g), Family(e) # Family(a.new),
               Here(s, Family(e)) # e, ~IsVersionElement(g, e) => HasFamily(s, e)
        PROVE  Excluded(u, e)
    <2> DEFINE f == Family(e)
    <2>1. Conflictor(g, s, e) # None
      <3>1. SUFFICES ASSUME Conflictor(g, s, e) = None PROVE FALSE
        OBVIOUS
      <3>2. ~HasFamily(s, e)
        <4>1. SUFFICES ASSUME HasFamily(s, e) PROVE FALSE
          OBVIOUS
        <4>2. Conflictor(g, s, e) \in Elements(g)
          BY <4>1 DEF Conflictor, HasFamily, EntryOf, IsSolution, EntryType
        <4>3. QED
          BY <3>1, <4>2, NoneIsNoElement
      <3>3. IsVersionElement(g, e)
        BY <1>7, <3>2
      <3>4. e[2] # 0
        BY <1>7, <3>2 DEF IsGraph, ElementsAreNamed, Here, HasFamily, EmptyOf
      <3>5. Conflictor(g, s, e) = EmptyOf(f) /\ EmptyOf(f) \in Elements(g)
        BY <3>2, <3>3, <3>4, AbsentHasEmpty DEF Conflictor, HasFamily, IsVersionElement
      <3>6. QED
        BY <3>1, <3>5, NoneIsNoElement
    <2>2. f \in DOMAIN u.entries
      BY <1>1, <2>1 DEF Applied, RejectedFamilies
    <2>3. /\ u.entries[f].element = EntryIn(s, f).element
          /\ e \in u.entries[f].rejected
      BY <1>1, <1>7, <2>2 DEF Applied
    <2>4. EntryIn(s, f).element # e
      BY <1>7 DEF EntryIn, Here, Entry
    <2>5. QED
      BY <2>2, <2>3, <2>4 DEF Excluded, Present, HasFamily, EntryOf, Replaceable
  <1>8. Decided(u, a.new)
    BY <1>2 DEF Decided, Present, HasFamily, EntryOf
  <1>9. QED
    BY <1>4, <1>5, <1>6, <1>7, <1>8 DEF u

(* Two actions for one dependency lead to solutions that cannot meet. *)
LEMMA SiblingsAreApart ==
    ASSUME NEW g, IsGraph(g), NeedsNoOtherVersion(g), NEW s, IsSolution(g, s),
           NEW by \in [version : PresentElements(s), relation : DOMAIN s.broken],
           by.version \in Dependants(g, s, by.relation),
           DOMAIN s.broken \subseteq BrokenRelations(g, s),
           NEW a \in PossibleActions(g, s, by), NEW b \in PossibleActions(g, s, by), a.at < b.at,
           NEW t, IsSolution(g, t), t.entries = s.entries,
           NEW u, IsSolution(g, u), u.entries = s.entries
    PROVE  Apart(g, ApplyAction(g, t, a), ApplyAction(g, u, b))
  <1> DEFINE actions == PossibleActions(g, s, by)
             A == ApplyAction(g, t, a)
             B == ApplyAction(g, u, b)
  <1> SUFFICES Apart(g, A, B)
    OBVIOUS
  <1>1. ActionsAre(g, s, by, actions)
    BY PossibleActionsAre
  <1>2. Fits(g, s, a) /\ Fits(g, s, b)
    BY PossibleActionsFit
  <1>3. a # b /\ a.at \in Nat /\ b.at \in Nat
    BY <1>1 DEF ActionsAre
  <1>4. \A c \in actions : c # b => c.new # b.new
    BY NewElementsDiffer
  <1>5. a.new # b.new /\ (IsUnsatisfied(g, a.new) => ~IsUnsatisfied(g, b.new))
    BY <1>3, NewElementsDiffer
  <1> HIDE DEF actions
  <1>6. a \in actions /\ b \in actions
    BY DEF actions
  <1>7. a.priority > 0 /\ b.priority > 0
    BY <1>1, <1>6 DEF ActionsAre, IsSolution
  <1>8. /\ Replaceable(t, a.new) /\ Replaceable(u, b.new)
        /\ \A e : Here(t, Family(e)) = Here(s, Family(e)) /\ Here(u, Family(e)) = Here(s, Family(e))
        /\ Fits(g, t, a) /\ Fits(g, u, b)
    <2>1. Replaceable(s, a.new) /\ Replaceable(s, b.new)
      BY <1>1, <1>6 DEF ActionsAre
    <2>2. Replaceable(t, a.new) /\ Replaceable(u, b.new)
      BY <2>1 DEF Replaceable, HasFamily, EntryOf
    <2>3. /\ \A f : Here(t, f) = Here(s, f) /\ Here(u, f) = Here(s, f)
          /\ Fits(g, t, a) /\ Fits(g, u, b)
      BY <1>2, SameEntries
    <2>4. QED
      BY <2>2, <2>3
  <1>9. /\ Decided(A, a.new)
        /\ \A e : Family(e) = Family(a.new) /\ e # a.new => Excluded(A, e)
        /\ \A e \in Rejected(g, a) :
                e \in Elements(g) /\ Family(e) # Family(a.new) /\ Here(s, Family(e)) # e
                    /\ (~IsVersionElement(g, e) => HasFamily(t, e))
                    => Excluded(A, e)
    BY <1>7, <1>8, DecisionsStay
  <1>10. /\ Decided(B, b.new)
         /\ \A e \in Rejected(g, b) :
                e \in Elements(g) /\ Family(e) # Family(b.new) /\ Here(s, Family(e)) # e
                    /\ (~IsVersionElement(g, e) => HasFamily(u, e))
                    => Excluded(B, e)
    BY <1>7, <1>8, DecisionsStay
  <1> HIDE DEF A, B
  <1>11. /\ a.new \in Elements(g) /\ Here(s, Family(a.new)) # a.new
         /\ b.new \in Elements(g) /\ Here(s, Family(b.new)) # b.new
    BY <1>2 DEF Fits
  <1>12. /\ a.all = {[at |-> c.at, new |-> c.new] : c \in actions}
         /\ b.all = {[at |-> c.at, new |-> c.new] : c \in actions}
    BY <1>1, <1>3, <1>6 DEF ActionsAre
  <1>13. CASE Family(a.new) = Family(b.new)
    BY <1>5, <1>9, <1>10, <1>11, <1>13 DEF Apart
  <1>14. CASE Family(a.new) # Family(b.new) /\ IsUnsatisfied(g, a.new)
    <2>1. [at |-> b.at, new |-> b.new] \in a.all
      BY <1>6, <1>12
    <2>2. b.new \in NewElements(a.all)
      BY <2>1 DEF NewElements
    <2>3. b.new \in Rejected(g, a)
      BY <1>14, <2>2 DEF Rejected
    <2>4. IsVersionElement(g, b.new)
      BY <1>5, <1>14 DEF IsUnsatisfied
    <2>5. Excluded(A, b.new)
      BY <1>9, <1>11, <1>14, <2>3, <2>4
    <2>6. QED
      BY <1>10, <1>11, <2>5 DEF Apart
  <1>15. CASE Family(a.new) # Family(b.new) /\ ~IsUnsatisfied(g, a.new)
    <2>1. [at |-> a.at, new |-> a.new] \in b.all
      BY <1>6, <1>12
    <2>2. a.new \in NewElements(b.all)
      BY <2>1 DEF NewElements
    <2>3. a.new \in Before(b.all, b.new)
      <3>1. ASSUME NEW z \in b.all, z.at <= a.at PROVE z.new # b.new
        <4>1. PICK c \in actions : z = [at |-> c.at, new |-> c.new]
          BY <1>12
        <4>2. c.at \in Nat /\ c.at <= a.at
          BY <1>1, <3>1, <4>1 DEF ActionsAre
        <4>3. c # b
          BY <1>3, <4>2
        <4>4. QED
          BY <1>4, <4>1, <4>3
      <3> DEFINE x == [at |-> a.at, new |-> a.new]
      <3>2. x.at = a.at /\ x.new = a.new /\ x \in b.all
        BY <2>1
      <3> HIDE DEF x
      <3>3. \A z \in b.all : z.at <= x.at => z.new # b.new
        BY <3>1, <3>2
      <3>4. QED
        BY <3>2, <3>3 DEF Before
    <2>4. a.new \in Rejected(g, b)
      BY <1>15, <2>2, <2>3 DEF Rejected
    <2>5. IsVersionElement(g, a.new)
      BY <1>15 DEF IsUnsatisfied
    <2>6. Excluded(B, a.new)
      BY <1>10, <1>11, <1>15, <2>4, <2>5
    <2>7. QED
      BY <1>9, <1>11, <2>6 DEF Apart
  <1>16. QED
    BY <1>13, <1>14, <1>15

Stays(s, t) == \A e : /\ Decided(s, e) => Decided(t, e)
                      /\ Excluded(s, e) => Excluded(t, e)

(* The steps that keep objects as they are. *)
LEMMA ForgettingKeepsApart ==
    ASSUME Inv, BranchesAreDisjoint, heap' = Live(heap, tree'), UNCHANGED graph,
           tree' \subseteq tree \/ tree' = {PreparedNode(Initial)}
    PROVE  BranchesAreDisjoint'
  <1>1. CASE tree' = {PreparedNode(Initial)}
    BY <1>1 DEF BranchesAreDisjoint
  <1>2. CASE tree' \subseteq tree
    <2>1. ASSUME NEW m \in tree' PROVE Prepared(m)' = Prepared(m)
      <3>1. m \in tree /\ m.ref \in DOMAIN heap
        BY <1>2 DEF Inv, GoodTree
      <3>2. heap'[m.ref] = heap[m.ref]
        BY <3>1 DEF Live
      <3>3. QED
        BY <3>2 DEF Prepared
    <2>2. QED
      BY <1>2, <2>1 DEF BranchesAreDisjoint
  <1>3. QED
    BY <1>1, <1>2

(* The children K of s, whose shared solution is u, decide what s decides and are apart. *)
KeepsApart(s, u, K) ==
    /\ \A m \in K : Stays(s, PreparedFrom(graph, u, m))
    /\ NeedsNoOtherVersion(graph) => \A m, x \in K :
            m # x => Apart(graph, PreparedFrom(graph, u, m), PreparedFrom(graph, u, x))

(* The steps that store solution u in place of the chosen node n. *)
LEMMA StoringKeepsApart ==
    ASSUME Inv, BranchesAreDisjoint, NEW n \in tree, NEW u, NEW K, tree' = (tree \ {n}) \cup K,
           heap' = Live(Store(heap, RefOf(n), u), tree'), UNCHANGED graph,
           \A m \in K : m.ref = RefOf(n), KeepsApart(Prepared(n), u, K)
    PROVE  BranchesAreDisjoint'
  <1>1. /\ \A m \in tree \ {n} : heap'[m.ref] = heap[m.ref]
        /\ \A m \in K : heap'[m.ref] = u
        /\ heap'[Initial] = IF RefOf(n) = Initial THEN u ELSE heap[Initial]
        /\ RefOf(n) = Initial => Prepared(n) = heap[Initial]
    BY StoredOrKept
  <1> SUFFICES ASSUME NeedsNoOtherVersion(graph), NEW m \in tree', NEW x \in tree', m # x
               PROVE  Apart(graph, Prepared(m)', Prepared(x)')
    BY DEF BranchesAreDisjoint
  <1>2. \A y \in tree \ {n} : Prepared(y)' = Prepared(y)
    BY <1>1 DEF Prepared
  <1>3. \A y \in K : Prepared(y)' = PreparedFrom(graph, u, y)
    BY <1>1 DEF Prepared, PreparedFrom
  <1>4. \A y \in tree \ {n} : Apart(graph, Prepared(y), Prepared(n)) /\ Apart(graph, Prepared(n), Prepared(y))
    BY DEF BranchesAreDisjoint
  <1>5. ASSUME NEW y \in tree \ {n}, NEW k \in K
        PROVE  Apart(graph, Prepared(y), PreparedFrom(graph, u, k))
               /\ Apart(graph, PreparedFrom(graph, u, k), Prepared(y))
    BY <1>4 DEF Apart, Stays, KeepsApart
  <1>6. CASE m \in tree \ {n} /\ x \in tree \ {n}
    BY <1>2, <1>6 DEF BranchesAreDisjoint
  <1>7. CASE m \in K /\ x \in K
    BY <1>3, <1>7 DEF KeepsApart
  <1>8. CASE m \in tree \ {n} /\ x \in K
    BY <1>2, <1>3, <1>5, <1>8
  <1>9. CASE m \in K /\ x \in tree \ {n}
    BY <1>2, <1>3, <1>5, <1>9
  <1>10. QED
    BY <1>6, <1>7, <1>8, <1>9

(* What is done to the chosen node keeps what it has decided. *)
LEMMA ActingStays ==
    ASSUME Inv, NEW n \in tree, NEW by \in Pairs(Prepared(n)), BrokenPair(Prepared(n), by),
           NEW a \in PossibleActions(graph, Prepared(n), by),
           NEW t, IsSolution(graph, t), t.entries = Prepared(n).entries
    PROVE  Stays(Prepared(n), ApplyAction(graph, t, a))
  <1> DEFINE s == Prepared(n)
  <1>1. IsGraph(graph) /\ IsSolution(graph, s) /\ Fits(graph, s, a)
    BY PreparedIsGood, BrokenPairActs DEF Inv, Good
  <1>2. /\ by \in [version : PresentElements(s), relation : DOMAIN s.broken]
        /\ by.version \in Dependants(graph, s, by.relation)
    BY DEF Pairs, BrokenPair
  <1> HIDE DEF s
  <1>3. ActionsAre(graph, s, by, PossibleActions(graph, s, by))
    BY <1>1, <1>2, PossibleActionsAre
  <1>4. Replaceable(s, a.new) /\ a.priority = s.broken[by.relation]
    BY <1>3 DEF ActionsAre, s
  <1>5. a.priority > 0
    BY <1>1, <1>2, <1>4 DEF IsSolution
  <1>6. Fits(graph, t, a) /\ Replaceable(t, a.new)
    BY <1>1, <1>4, SameEntries DEF Replaceable, HasFamily, EntryOf, s
  <1>7. \A e : /\ Decided(t, e) => Decided(ApplyAction(graph, t, a), e)
               /\ Excluded(t, e) => Excluded(ApplyAction(graph, t, a), e)
    BY <1>1, <1>5, <1>6, DecisionsStay
  <1>8. \A e : (Decided(t, e) <=> Decided(s, e)) /\ (Excluded(t, e) <=> Excluded(s, e))
    BY DEF Decided, Excluded, Present, HasFamily, EntryOf, Replaceable, s
  <1>9. QED
    BY <1>7, <1>8 DEF Stays, s

LEMMA ApplyInPlaceKeepsApart ==
    ASSUME Inv, BranchesAreDisjoint, NEW n \in tree, ApplyInPlace(n)
    PROVE  BranchesAreDisjoint'
  <1> DEFINE p == Prepared(n)
             K == {PreparedNode(RefOf(n))}
  <1>1. PICK by \in Pairs(p), change \in options.scoreChanges :
            /\ BrokenPair(p, by)
            /\ \E a \in PossibleActions(graph, p, by) :
                heap' = Live(Store(heap, RefOf(n),
                            ApplyAction(graph,
                                [p EXCEPT !.id = nextId, !.level = @ + 1, !.score = @ + change],
                                a)), tree')
    BY DEF ApplyInPlace
  <1> DEFINE t == [p EXCEPT !.id = nextId, !.level = @ + 1, !.score = @ + change]
  <1>2. PICK a \in PossibleActions(graph, p, by) :
            heap' = Live(Store(heap, RefOf(n), ApplyAction(graph, t, a)), tree')
    BY <1>1
  <1>3. nextId \in Nat /\ change \in Int
    BY DEF Inv, IsOptions
  <1>4. IsSolution(graph, t) /\ t.entries = p.entries
    <2>1. IsSolution(graph, p)
      BY PreparedIsGood DEF Good
    <2> HIDE DEF p
    <2>2. QED
      BY <1>3, <2>1 DEF IsSolution
  <1> HIDE DEF t
  <1> DEFINE u == ApplyAction(graph, t, a)
  <1>5. Stays(p, u)
    BY <1>1, <1>4, ActingStays
  <1>6. UNCHANGED graph /\ tree' = (tree \ {n}) \cup K
    BY DEF ApplyInPlace, Turn
  <1>7. \A m \in K : m.ref = RefOf(n) /\ PreparedFrom(graph, u, m) = u
    BY DEF PreparedNode, IsPrepared, PreparedFrom
  <1>8. \A m, x \in K : m = x
    OBVIOUS
  <1> HIDE DEF u, K
  <1>9. QED
    <2>1. KeepsApart(Prepared(n), u, K) /\ \A m \in K : m.ref = RefOf(n)
      BY <1>5, <1>7, <1>8 DEF KeepsApart
    <2>2. QED
      BY <1>2, <1>6, <2>1, StoringKeepsApart DEF u

LEMMA BranchKeepsApart ==
    ASSUME Inv, BranchesAreDisjoint, NEW n \in tree, Branch(n)
    PROVE  BranchesAreDisjoint'
  <1> DEFINE s == Prepared(n)
             actions(by) == PossibleActions(graph, s, by)
             Earlier(by, a) == {b \in actions(by) : b.at < a.at}
             node(by, change, a) == [ref |-> RefOf(n), action |-> a,
                                     id |-> nextId + Cardinality(Earlier(by, a)), score |-> change[a]]
             copy(m) == [s EXCEPT !.id = m.id, !.score = @ + m.score, !.level = @ + 1, !.finished = FALSE]
  <1>1. PICK by \in Pairs(s) :
            /\ BrokenPair(s, by)
            /\ \E change \in [actions(by) -> options.scoreChanges] :
                tree' = (tree \ {n}) \cup {node(by, change, a) : a \in actions(by)}
            /\ heap' = Live(Store(heap, RefOf(n), s), tree')
    BY DEF Branch
  <1>2. PICK change \in [actions(by) -> options.scoreChanges] :
            tree' = (tree \ {n}) \cup {node(by, change, a) : a \in actions(by)}
    BY <1>1
  <1> DEFINE K == {node(by, change, a) : a \in actions(by)}
  <1>3. /\ Good(graph, s) /\ IsGraph(graph)
        /\ IsFiniteSet(actions(by))
        /\ \A a \in actions(by) : a # NoAction /\ a.at \in Nat
    BY <1>1, PreparedIsGood, BrokenPairActs DEF Inv
  <1>4. ASSUME NEW a \in actions(by)
        PROVE  LET m == node(by, change, a)
               IN  /\ m.ref = RefOf(n) /\ m.action = a /\ ~IsPrepared(m)
                   /\ IsSolution(graph, copy(m)) /\ copy(m).entries = s.entries
                   /\ PreparedFrom(graph, s, m) = ApplyAction(graph, copy(m), a)
    <2>1. Earlier(by, a) \in SUBSET actions(by)
      OBVIOUS
    <2> HIDE DEF Earlier, actions
    <2>2. Cardinality(Earlier(by, a)) \in Nat
      BY <1>3, <2>1, FS_Subset, FS_CardinalityType
    <2> DEFINE m == node(by, change, a)
    <2>3. m.score \in Int /\ m.id \in Nat
      BY <2>2 DEF Inv, IsOptions
    <2>4. m.ref = RefOf(n) /\ m.action = a /\ ~IsPrepared(m)
      BY <1>3 DEF IsPrepared
    <2> HIDE DEF m, s
    <2>5. IsSolution(graph, copy(m)) /\ copy(m).entries = s.entries
      BY <1>3, <2>3 DEF Good, IsSolution
    <2>6. PreparedFrom(graph, s, m) = ApplyAction(graph, copy(m), a)
      BY <2>4 DEF PreparedFrom
    <2>7. QED
      BY <2>4, <2>5, <2>6 DEF m
  <1> HIDE DEF node, copy
  <1>5. ASSUME NEW m \in K PROVE m.ref = RefOf(n) /\ Stays(s, PreparedFrom(graph, s, m))
    <2>1. PICK a \in actions(by) : m = node(by, change, a)
      OBVIOUS
    <2>2. Stays(s, ApplyAction(graph, copy(m), a))
      BY <1>1, <1>4, <2>1, ActingStays
    <2>3. QED
      BY <1>4, <2>1, <2>2
  <1>6. ASSUME NeedsNoOtherVersion(graph), NEW m \in K, NEW x \in K, m # x
        PROVE  Apart(graph, PreparedFrom(graph, s, m), PreparedFrom(graph, s, x))
    <2>1. PICK a \in actions(by) : m = node(by, change, a)
      OBVIOUS
    <2>2. PICK b \in actions(by) : x = node(by, change, b)
      OBVIOUS
    <2>3. /\ by \in [version : PresentElements(s), relation : DOMAIN s.broken]
          /\ by.version \in Dependants(graph, s, by.relation)
      BY <1>1 DEF Pairs, BrokenPair
    <2>4. IsSolution(graph, s) /\ DOMAIN s.broken \subseteq BrokenRelations(graph, s)
      BY <1>1, <1>3, BrokenPairActs DEF Good
    <2> DEFINE A == ApplyAction(graph, copy(m), a)
               B == ApplyAction(graph, copy(x), b)
    <2>5. /\ IsSolution(graph, copy(m)) /\ copy(m).entries = s.entries
          /\ IsSolution(graph, copy(x)) /\ copy(x).entries = s.entries
          /\ PreparedFrom(graph, s, m) = A /\ PreparedFrom(graph, s, x) = B
      BY <1>4, <2>1, <2>2
    <2> HIDE DEF s
    <2>6. a.at < b.at => Apart(graph, A, B)
      BY <1>3, <1>6, <2>3, <2>4, <2>5, SiblingsAreApart
    <2>7. b.at < a.at => Apart(graph, B, A)
      BY <1>3, <1>6, <2>3, <2>4, <2>5, SiblingsAreApart
    <2>8. a.at < b.at \/ b.at < a.at
      <3>1. a # b
        BY <1>6, <2>1, <2>2
      <3>2. ActionsAre(graph, s, by, actions(by))
        BY <1>3, <2>3, <2>4, PossibleActionsAre
      <3>3. a.at # b.at
        BY <3>1, <3>2 DEF ActionsAre
      <3>4. a.at \in Nat /\ b.at \in Nat
        BY <1>3
      <3>5. QED
        BY <3>3, <3>4
    <2> HIDE DEF A, B
    <2>9. QED
      BY <2>5, <2>6, <2>7, <2>8 DEF Apart
  <1>7. UNCHANGED graph
    BY DEF Branch, Turn
  <1>8. tree' = (tree \ {n}) \cup K
    BY <1>2
  <1> HIDE DEF K
  <1>9. QED
    <2>1. KeepsApart(s, s, K) /\ \A m \in K : m.ref = RefOf(n)
      BY <1>5, <1>6 DEF KeepsApart
    <2>2. QED
      BY <1>1, <1>7, <1>8, <2>1, StoringKeepsApart DEF s

LEMMA FinishingKeepsApart ==
    ASSUME Inv, BranchesAreDisjoint, NEW n \in tree, Defer(n) \/ Propose(n)
    PROVE  BranchesAreDisjoint'
  <1>1. CASE Defer(n)
    <2> DEFINE K == {PreparedNode(RefOf(n))}
               u == Finished(n)
    <2>1. /\ UNCHANGED graph /\ tree' = (tree \ {n}) \cup K
          /\ heap' = Live(Store(heap, RefOf(n), u), tree') /\ IsSolved(n)
      BY <1>1 DEF Defer, Turn, TreeWithFinished, WithFinished
    <2>2. \A m \in K : m.ref = RefOf(n) /\ PreparedFrom(graph, u, m) = u
      BY DEF PreparedNode, IsPrepared, PreparedFrom
    <2>3. Stays(Prepared(n), u)
      BY <2>1, FinishedLooksTheSame DEF Stays, Decided, Excluded, Present, HasFamily, EntryOf, Replaceable
    <2>4. \A m, x \in K : m = x
      OBVIOUS
    <2> HIDE DEF u, K
    <2>5. KeepsApart(Prepared(n), u, K) /\ \A m \in K : m.ref = RefOf(n)
      BY <2>2, <2>3, <2>4 DEF KeepsApart
    <2>6. QED
      BY <2>1, <2>5, StoringKeepsApart
  <1>2. CASE Propose(n)
    <2> DEFINE K == {}
    <2>1. /\ UNCHANGED graph /\ tree' = (tree \ {n}) \cup K
          /\ heap' = Live(Store(heap, RefOf(n), offer'), tree')
      BY <1>2 DEF Propose, Turn
    <2>2. \A m \in K : FALSE
      OBVIOUS
    <2> HIDE DEF K
    <2>3. KeepsApart(Prepared(n), offer', K) /\ \A m \in K : m.ref = RefOf(n)
      BY <2>2 DEF KeepsApart
    <2>4. QED
      BY <2>1, <2>3, StoringKeepsApart
  <1>3. QED
    BY <1>1, <1>2

LEMMA StepKeepsApart ==
    ASSUME Inv, BranchesAreDisjoint, [Next]_vars
    PROVE  BranchesAreDisjoint'
  <1>1. CASE UNCHANGED vars \/ Answer \/ GiveUp
    <2>1. UNCHANGED <<graph, heap, tree>>
      BY <1>1 DEF vars, Answer, GiveUp
    <2>2. \A m : Prepared(m)' = Prepared(m)
      BY <2>1 DEF Prepared
    <2>3. QED
      BY <2>1, <2>2 DEF BranchesAreDisjoint
  <1>2. ASSUME NEW n \in tree, NoActions(n) \/ HitSolutionTreeLimit(n) \/ HitLeafLimit(n) \/ Abort(n)
        PROVE  BranchesAreDisjoint'
    <2>1. /\ heap' = Live(heap, tree') /\ UNCHANGED graph
          /\ tree' \subseteq tree \/ tree' = {PreparedNode(Initial)}
      BY <1>2 DEF NoActions, HitSolutionTreeLimit, HitLeafLimit, Abort, Turn
    <2>2. QED
      BY <2>1, ForgettingKeepsApart
  <1>3. QED
    BY <1>1, <1>2, ApplyInPlaceKeepsApart, BranchKeepsApart, FinishingKeepsApart DEF Next, TakeTurn

-----------------------------------------------------------------------------
(***************************************************************************)
(* The order of the offers.  Best and Worst CHOOSE a node; there is one to *)
(* choose because the tree is finite and the ids of its nodes differ, so   *)
(* that SolutionScoreLess is a total order on them.                        *)
(***************************************************************************)

(* A total order on a finite set has a last element. *)
LEMMA HasLast ==
    ASSUME NEW t, IsFiniteSet(t), t # {}, NEW R,
           \A m, n \in t : m # n => <<m, n>> \in R \/ <<n, m>> \in R,
           \A m, n, x \in t : <<m, n>> \in R /\ <<n, x>> \in R => <<m, x>> \in R,
           \A m \in t : <<m, m>> \notin R
    PROVE  \E n \in t : \A m \in t \ {n} : <<m, n>> \in R
  <1> DEFINE Above(n) == {m \in t : <<n, m>> \in R}
             J == {Cardinality(Above(n)) : n \in t}
  <1>0. \A n \in t : Above(n) \in SUBSET t
    OBVIOUS
  <1>1. \A n \in t : IsFiniteSet(Above(n)) /\ Cardinality(Above(n)) \in Nat
    <2> HIDE DEF Above
    <2>1. QED
      BY <1>0, FS_Subset, FS_CardinalityType
  <1>2. J \in SUBSET Nat /\ J # {}
    <2> HIDE DEF Above
    <2>1. QED
      BY <1>1
  <1> HIDE DEF J
  <1>3. PICK j \in J : \A k \in J : j <= k
    BY <1>2, HasLeast
  <1>4. PICK n \in t : j = Cardinality(Above(n))
    BY DEF J
  <1>5. ASSUME NEW m \in t \ {n} PROVE <<m, n>> \in R
    <2>1. SUFFICES ASSUME <<m, n>> \notin R PROVE FALSE
      OBVIOUS
    <2>2. m \in Above(n) /\ m \notin Above(m)
      BY <2>1
    <2>3. Above(m) \subseteq Above(n)
      BY <2>2
    <2> HIDE DEF Above
    <2>4. Cardinality(Above(n)) <= Cardinality(Above(m))
      BY <1>3, <1>4 DEF J
    <2>5. /\ Cardinality(Above(m)) <= Cardinality(Above(n))
          /\ Cardinality(Above(m)) = Cardinality(Above(n)) => Above(m) = Above(n)
      BY <1>1, <2>3, FS_Subset
    <2>6. Cardinality(Above(m)) = Cardinality(Above(n))
      BY <1>1, <2>4, <2>5
    <2>7. QED
      BY <2>2, <2>5, <2>6
  <1>6. QED
    BY <1>5

Ordered(h, t) ==
    /\ IsFiniteSet(t)
    /\ \A n \in t : ScoreOf(h, n) \in Int /\ IdOf(h, n) \in Nat
    /\ \A m, n \in t : IdOf(h, m) = IdOf(h, n) => m = n

LEMMA BestAndWorst ==
    ASSUME NEW h, NEW t, Ordered(h, t), t # {}
    PROVE  /\ Best(h, t) \in t /\ \A m \in t \ {Best(h, t)} : ScoreLess(h, m, Best(h, t))
           /\ Worst(h, t) \in t /\ \A m \in t \ {Worst(h, t)} : ScoreLess(h, Worst(h, t), m)
  <1> DEFINE R == {p \in t \X t : ScoreLess(h, p[1], p[2])}
             B == {p \in t \X t : ScoreLess(h, p[2], p[1])}
  <1>1. \A m, n \in t : m # n => ScoreLess(h, m, n) \/ ScoreLess(h, n, m)
    BY DEF Ordered, ScoreLess
  <1>2. \A m, n, x \in t : ScoreLess(h, m, n) /\ ScoreLess(h, n, x) => ScoreLess(h, m, x)
    BY DEF Ordered, ScoreLess
  <1>3. \A m \in t : ~ScoreLess(h, m, m)
    BY DEF Ordered, ScoreLess
  <1>4. \A m, n \in t : /\ <<m, n>> \in R <=> ScoreLess(h, m, n)
                        /\ <<m, n>> \in B <=> ScoreLess(h, n, m)
    OBVIOUS
  <1>5. IsFiniteSet(t)
    BY DEF Ordered
  <1> HIDE DEF R, B
  <1>6. /\ \A m, n \in t : m # n => <<m, n>> \in R \/ <<n, m>> \in R
        /\ \A m, n, x \in t : <<m, n>> \in R /\ <<n, x>> \in R => <<m, x>> \in R
        /\ \A m \in t : <<m, m>> \notin R
    BY <1>1, <1>2, <1>3, <1>4
  <1>7. /\ \A m, n \in t : m # n => <<m, n>> \in B \/ <<n, m>> \in B
        /\ \A m, n, x \in t : <<m, n>> \in B /\ <<n, x>> \in B => <<m, x>> \in B
        /\ \A m \in t : <<m, m>> \notin B
    BY <1>1, <1>2, <1>3, <1>4
  <1>8. \E n \in t : \A m \in t \ {n} : <<m, n>> \in R
    BY <1>5, <1>6, HasLast
  <1>9. \E n \in t : \A m \in t \ {n} : <<m, n>> \in B
    BY <1>5, <1>7, HasLast
  <1>10. \E n \in t : \A m \in t \ {n} : ScoreLess(h, m, n)
    BY <1>4, <1>8
  <1>11. \E n \in t : \A m \in t \ {n} : ScoreLess(h, n, m)
    BY <1>4, <1>9
  <1>12. QED
    BY <1>10, <1>11 DEF Best, Worst

(* Every id is given out once. *)
Ranked ==
    /\ IsFiniteSet(tree)
    /\ heap[Initial].id < nextId
    /\ \A n \in tree : IdOf(heap, n) < nextId
    /\ \A m, n \in tree : IdOf(heap, m) = IdOf(heap, n) => m = n

LEMMA InitRanked == Init => Ranked
  <1> SUFFICES ASSUME Init PROVE Ranked
    OBVIOUS
  <1>1. heap[Initial].id = 0 /\ nextId = 1 /\ tree = {PreparedNode(Initial)}
    BY DEF Init, InitialSolution
  <1>2. IdOf(heap, PreparedNode(Initial)) = 0
    BY <1>1 DEF IdOf, IsPrepared, PreparedNode
  <1>3. IsFiniteSet(tree)
    BY <1>1, FS_Singleton
  <1>4. QED
    BY <1>1, <1>2, <1>3 DEF Ranked

LEMMA ForgettingKeepsRanks ==
    ASSUME Inv, Ranked, heap' = Live(heap, tree'), nextId' = nextId,
           tree' \subseteq tree \/ tree' = {PreparedNode(Initial)}
    PROVE  Ranked'
  <1>1. Initial \in DOMAIN heap /\ \A n \in tree : n.ref \in DOMAIN heap
    BY DEF Inv, GoodHeap, GoodTree
  <1>2. /\ DOMAIN heap' = DOMAIN heap \cap ({Initial} \cup {n.ref : n \in tree'})
        /\ \A ref \in DOMAIN heap' : heap'[ref] = heap[ref]
    BY DEF Live
  <1>3. heap'[Initial].id < nextId'
    BY <1>1, <1>2 DEF Ranked
  <1>4. CASE tree' \subseteq tree
    <2>1. \A n \in tree' : n \in tree /\ heap'[n.ref] = heap[n.ref]
      BY <1>1, <1>2, <1>4
    <2>2. \A n \in tree' : n \in tree /\ IdOf(heap', n) = IdOf(heap, n)
      BY <2>1 DEF IdOf
    <2>3. IsFiniteSet(tree')
      BY <1>4, FS_Subset DEF Ranked
    <2>4. QED
      BY <1>3, <2>2, <2>3 DEF Ranked
  <1>5. CASE tree' = {PreparedNode(Initial)}
    <2>1. IdOf(heap', PreparedNode(Initial)) = heap'[Initial].id
      BY DEF IdOf, IsPrepared, PreparedNode
    <2>2. IsFiniteSet(tree')
      BY <1>5, FS_Singleton
    <2>3. QED
      BY <1>3, <1>5, <2>1, <2>2 DEF Ranked
  <1>6. QED
    BY <1>4, <1>5

(* The children K of a node with solution u have ids of their own: the *)
(* node's or new ones. *)
NewIds(id, u, K, limit) ==
    LET ident(m) == IF IsPrepared(m) THEN u.id ELSE m.id
    IN  /\ u.id = id \/ u.id \in nextId..limit - 1
        /\ \A m \in K : ident(m) = id \/ ident(m) \in nextId..limit - 1
        /\ \A m, x \in K : ident(m) = ident(x) => m = x

LEMMA StoringKeepsRanks ==
    ASSUME Inv, Ranked, NEW n \in tree, NEW u, NEW K, tree' = (tree \ {n}) \cup K,
           heap' = Live(Store(heap, RefOf(n), u), tree'),
           \A m \in K : m.ref = RefOf(n),
           IsFiniteSet(K), nextId' \in Nat, nextId <= nextId',
           NewIds(IdOf(heap, n), u, K, nextId')
    PROVE  Ranked'
  <1>1. /\ \A m \in tree \ {n} : heap'[m.ref] = heap[m.ref]
        /\ \A m \in K : heap'[m.ref] = u
        /\ heap'[Initial] = IF RefOf(n) = Initial THEN u ELSE heap[Initial]
        /\ RefOf(n) = Initial => Prepared(n) = heap[Initial]
    BY StoredOrKept
  <1> DEFINE id == IdOf(heap, n)
             ident(m) == IF IsPrepared(m) THEN u.id ELSE m.id
  <1>2. /\ u.id = id \/ u.id \in nextId..nextId' - 1
        /\ \A m \in K : ident(m) = id \/ ident(m) \in nextId..nextId' - 1
        /\ \A m, x \in K : ident(m) = ident(x) => m = x
    BY DEF NewIds
  <1>3. /\ \A m \in tree \ {n} : IdOf(heap', m) = IdOf(heap, m)
        /\ \A m \in K : IdOf(heap', m) = ident(m)
    BY <1>1 DEF IdOf
  <1>4. /\ nextId \in Nat /\ heap[Initial].id \in Nat
        /\ \A m \in tree : IdOf(heap, m) \in Nat
    <2>1. \A m \in tree : m.id \in Nat /\ m.ref \in DOMAIN heap
      BY DEF Inv, GoodTree, GoodNode
    <2>2. Initial \in DOMAIN heap /\ \A ref \in DOMAIN heap : heap[ref].id \in Nat
      BY DEF Inv, GoodHeap, Good, IsSolution
    <2>3. QED
      BY <2>1, <2>2 DEF Inv, IdOf
  <1>5. /\ heap[Initial].id < nextId
        /\ \A m \in tree : IdOf(heap, m) < nextId
        /\ \A m \in tree \ {n} : IdOf(heap, m) # id
        /\ \A m, x \in tree : IdOf(heap, m) = IdOf(heap, x) => m = x
    BY DEF Ranked
  <1> HIDE DEF ident, id
  <1>6. id \in Nat /\ id < nextId
    BY <1>4, <1>5 DEF id
  <1>7. heap'[Initial].id < nextId'
    BY <1>1, <1>2, <1>4, <1>5, <1>6
  <1>8. ASSUME NEW m \in tree' PROVE IdOf(heap', m) < nextId'
    <2>1. CASE m \in tree \ {n}
      <3>1. IdOf(heap', m) \in Nat /\ IdOf(heap', m) < nextId
        BY <1>3, <1>4, <1>5, <2>1
      <3>2. QED
        BY <1>4, <3>1
    <2>2. CASE m \in K
      BY <1>2, <1>3, <1>4, <1>6, <2>2
    <2>3. QED
      BY <2>1, <2>2
  <1>9. ASSUME NEW m \in tree \ {n}, NEW x \in K PROVE IdOf(heap', m) # IdOf(heap', x)
    <2>1. IdOf(heap', m) = IdOf(heap, m) /\ IdOf(heap', x) = ident(x)
      BY <1>3
    <2>2. IdOf(heap, m) \in Nat /\ IdOf(heap, m) < nextId /\ IdOf(heap, m) # id
      BY <1>4, <1>5
    <2>3. ident(x) = id \/ ident(x) \in nextId..nextId' - 1
      BY <1>2
    <2>4. QED
      BY <1>4, <2>1, <2>2, <2>3
  <1>10. ASSUME NEW m \in tree', NEW x \in tree', IdOf(heap', m) = IdOf(heap', x) PROVE m = x
    <2>1. CASE m \in tree \ {n} /\ x \in tree \ {n}
      BY <1>3, <1>5, <1>10, <2>1
    <2>2. CASE m \in K /\ x \in K
      BY <1>2, <1>3, <1>10, <2>2
    <2>3. QED
      BY <1>9, <1>10, <2>1, <2>2
  <1>11. IsFiniteSet(tree')
    BY FS_Difference, FS_Union, FS_Singleton DEF Ranked
  <1>12. QED
    BY <1>7, <1>8, <1>10, <1>11 DEF Ranked

(* Applying an action, finishing and cleaning leave id and score alone. *)
LEMMA ApplyActionKeepsId ==
    ASSUME NEW s, IsSolution(graph, s), NEW a
    PROVE  ApplyAction(graph, s, a).id = s.id /\ ApplyAction(graph, s, a).score = s.score
  <1> DEFINE w == WithRejections(graph, s, Rejected(graph, a))
             c == WithEntry(w, a)
  <1>1. DOMAIN w = DOMAIN s /\ w.id = s.id /\ w.score = s.score
    BY DEF WithRejections, IsSolution
  <1> HIDE DEF w
  <1>2. DOMAIN c = DOMAIN s /\ c.id = s.id /\ c.score = s.score
    BY <1>1 DEF WithEntry, IsSolution
  <1> HIDE DEF c
  <1>3. ApplyAction(graph, s, a) =
            [c EXCEPT !.broken = UpdatedBroken(graph, c, a.old, a.new, a.priority + 1)]
    BY DEF ApplyAction, c, w
  <1>4. QED
    BY <1>2, <1>3 DEF IsSolution

LEMMA PreparedKeepsId ==
    ASSUME Inv, NEW n \in tree
    PROVE  Prepared(n).id = IdOf(heap, n) /\ Prepared(n).score = ScoreOf(heap, n)
  <1>1. /\ n.ref \in DOMAIN heap /\ IsSolution(graph, heap[n.ref])
        /\ ~IsPrepared(n) => n.score \in Int /\ n.id \in Nat
    BY DEF Inv, GoodTree, GoodNode, GoodHeap, Good
  <1>2. CASE IsPrepared(n)
    BY <1>2 DEF Prepared, IdOf, ScoreOf
  <1>3. CASE ~IsPrepared(n)
    <2> DEFINE p == heap[n.ref]
               s == [p EXCEPT !.id = n.id, !.score = @ + n.score, !.level = @ + 1, !.finished = FALSE]
    <2>1. IsSolution(graph, s) /\ s.id = n.id /\ s.score = p.score + n.score
      BY <1>1, <1>3 DEF IsSolution
    <2>2. Prepared(n) = ApplyAction(graph, s, n.action)
      BY <1>3 DEF Prepared
    <2> HIDE DEF s
    <2>3. QED
      BY <1>3, <2>1, <2>2, ApplyActionKeepsId DEF IdOf, ScoreOf
  <1>4. QED
    BY <1>2, <1>3

LEMMA FinishingKeepsId ==
    ASSUME Inv, NEW n \in tree
    PROVE  /\ Finished(n).id = IdOf(heap, n) /\ Finished(n).score = ScoreOf(heap, n)
           /\ Finished(n).finished = TRUE
           /\ Cleaned(Finished(n)).id = IdOf(heap, n)
           /\ Cleaned(Finished(n)).score = ScoreOf(heap, n)
  <1> DEFINE s == Prepared(n)
             t == Finished(n)
  <1>1. DOMAIN s = {"entries", "broken", "level", "id", "score", "finished"}
        /\ s.id = IdOf(heap, n) /\ s.score = ScoreOf(heap, n)
    BY PreparedIsGood, PreparedKeepsId DEF Good, IsSolution
  <1>2. t = [s EXCEPT !.finished = TRUE]
    BY DEF Finished
  <1> HIDE DEF s, t
  <1>3. DOMAIN t = DOMAIN s /\ t.id = s.id /\ t.score = s.score /\ t.finished = TRUE
    BY <1>1, <1>2
  <1>4. Cleaned(t).id = t.id /\ Cleaned(t).score = t.score
    BY <1>1, <1>3 DEF Cleaned
  <1>5. QED
    BY <1>1, <1>3, <1>4 DEF t

LEMMA ApplyInPlaceKeepsRanks ==
    ASSUME Inv, Ranked, NEW n \in tree, ApplyInPlace(n)
    PROVE  Ranked'
  <1> DEFINE p == Prepared(n)
             K == {PreparedNode(RefOf(n))}
  <1>1. PICK by \in Pairs(p), change \in options.scoreChanges :
            \E a \in PossibleActions(graph, p, by) :
                heap' = Live(Store(heap, RefOf(n),
                            ApplyAction(graph,
                                [p EXCEPT !.id = nextId, !.level = @ + 1, !.score = @ + change],
                                a)), tree')
    BY DEF ApplyInPlace
  <1> DEFINE t == [p EXCEPT !.id = nextId, !.level = @ + 1, !.score = @ + change]
  <1>2. PICK a \in PossibleActions(graph, p, by) :
            heap' = Live(Store(heap, RefOf(n), ApplyAction(graph, t, a)), tree')
    BY <1>1
  <1>3. nextId \in Nat /\ change \in Int
    BY DEF Inv, IsOptions
  <1>4. IsSolution(graph, t) /\ t.id = nextId
    <2>1. IsSolution(graph, p)
      BY PreparedIsGood DEF Good
    <2> HIDE DEF p
    <2>2. QED
      BY <1>3, <2>1 DEF IsSolution
  <1> HIDE DEF t
  <1> DEFINE u == ApplyAction(graph, t, a)
  <1>5. u.id = nextId
    BY <1>4, ApplyActionKeepsId
  <1>6. tree' = (tree \ {n}) \cup K /\ nextId' = nextId + 1
    BY DEF ApplyInPlace, Turn
  <1>7. \A m \in K : m.ref = RefOf(n) /\ IsPrepared(m)
    BY DEF PreparedNode, IsPrepared
  <1>8. (\A m, x \in K : m = x) /\ IsFiniteSet(K)
    BY FS_Singleton
  <1> HIDE DEF u, K
  <1>9. NewIds(IdOf(heap, n), u, K, nextId')
    BY <1>3, <1>5, <1>6, <1>7, <1>8 DEF NewIds
  <1>10. nextId' \in Nat /\ nextId <= nextId' /\ \A m \in K : m.ref = RefOf(n)
    BY <1>3, <1>6, <1>7
  <1>11. QED
    BY <1>2, <1>6, <1>8, <1>9, <1>10, StoringKeepsRanks DEF u

LEMMA BranchKeepsRanks ==
    ASSUME Inv, Ranked, NEW n \in tree, Branch(n)
    PROVE  Ranked'
  <1> DEFINE s == Prepared(n)
             actions(by) == PossibleActions(graph, s, by)
             Earlier(by, a) == {b \in actions(by) : b.at < a.at}
             node(by, change, a) == [ref |-> RefOf(n), action |-> a,
                                     id |-> nextId + Cardinality(Earlier(by, a)), score |-> change[a]]
  <1>1. PICK by \in Pairs(s) :
            /\ BrokenPair(s, by)
            /\ \E change \in [actions(by) -> options.scoreChanges] :
                tree' = (tree \ {n}) \cup {node(by, change, a) : a \in actions(by)}
            /\ heap' = Live(Store(heap, RefOf(n), s), tree')
            /\ nextId' = nextId + Cardinality(actions(by))
    BY DEF Branch
  <1>2. PICK change \in [actions(by) -> options.scoreChanges] :
            tree' = (tree \ {n}) \cup {node(by, change, a) : a \in actions(by)}
    BY <1>1
  <1> DEFINE K == {node(by, change, a) : a \in actions(by)}
             A == actions(by)
             before(a) == Cardinality({b \in A : b.at < a.at})
  <1>3. /\ Good(graph, s) /\ IsGraph(graph)
        /\ IsFiniteSet(A)
        /\ \A a \in A : a # NoAction /\ a.at \in Nat
    BY <1>1, PreparedIsGood, BrokenPairActs DEF Inv
  <1>4. \A a, b \in A : a.at = b.at => a = b
    <2>1. /\ by \in [version : PresentElements(s), relation : DOMAIN s.broken]
          /\ by.version \in Dependants(graph, s, by.relation)
      BY <1>1 DEF Pairs, BrokenPair
    <2>2. IsSolution(graph, s)
      BY <1>3 DEF Good
    <2> HIDE DEF s
    <2>3. QED
      BY <1>3, <2>1, <2>2, PossibleActionsAre DEF ActionsAre
  <1>5. Cardinality(A) \in Nat /\ nextId \in Nat
    BY <1>3, FS_CardinalityType DEF Inv
  <1>6. /\ \A a \in A : /\ node(by, change, a).id = nextId + before(a)
                        /\ node(by, change, a).ref = RefOf(n)
                        /\ ~IsPrepared(node(by, change, a))
        /\ K = {node(by, change, a) : a \in A}
    BY <1>3 DEF IsPrepared
  <1> HIDE DEF A
  <1>7. ASSUME NEW a \in A PROVE before(a) \in Nat /\ before(a) < Cardinality(A)
    <2> DEFINE E == {b \in A : b.at < a.at}
    <2>1. E \in SUBSET A /\ a \notin E
      BY <1>3
    <2> HIDE DEF E
    <2>2. /\ Cardinality(E) \in Nat
          /\ Cardinality(E) <= Cardinality(A)
          /\ Cardinality(A) = Cardinality(E) => A = E
      BY <1>3, <2>1, FS_Subset, FS_CardinalityType
    <2>3. Cardinality(E) \in Nat /\ Cardinality(E) < Cardinality(A)
      BY <1>5, <2>1, <2>2
    <2>4. QED
      BY <2>3 DEF E
  <1>8. ASSUME NEW a \in A, NEW b \in A, a.at < b.at PROVE before(a) < before(b)
    <2> DEFINE E == {x \in A : x.at < a.at}
               F == {x \in A : x.at < b.at}
    <2>1. E \in SUBSET F /\ a \in F /\ a \notin E /\ F \in SUBSET A
      BY <1>3, <1>8
    <2> HIDE DEF E, F
    <2>2. IsFiniteSet(F)
      BY <1>3, <2>1, FS_Subset
    <2>3. /\ Cardinality(E) <= Cardinality(F)
          /\ Cardinality(F) = Cardinality(E) => F = E
      BY <2>1, <2>2, FS_Subset
    <2>4. Cardinality(E) \in Nat /\ Cardinality(F) \in Nat
      BY <1>7 DEF E, F
    <2>5. Cardinality(E) < Cardinality(F)
      BY <2>1, <2>3, <2>4
    <2>6. QED
      BY <2>5 DEF E, F
  <1> HIDE DEF before
  <1>9. ASSUME NEW a \in A, NEW b \in A, nextId + before(a) = nextId + before(b) PROVE a = b
    <2>1. before(a) = before(b)
      BY <1>5, <1>7, <1>9
    <2>2. ~(a.at < b.at) /\ ~(b.at < a.at)
      BY <1>7, <1>8, <2>1
    <2>3. QED
      BY <1>3, <1>4, <2>2
  <1>10. IsFiniteSet(K)
    <2> DEFINE f == [a \in A |-> node(by, change, a)]
    <2> HIDE DEF node
    <2>1. f \in Surjection(A, K)
      BY <1>6 DEF Surjection
    <2>2. QED
      BY <1>3, <2>1, FS_Surjection
  <1> HIDE DEF node, K
  <1>11. s.id = IdOf(heap, n)
    BY PreparedKeepsId
  <1>12. NewIds(IdOf(heap, n), s, K, nextId')
    <2>1. \A m \in K : ~IsPrepared(m) /\ m.id \in nextId..nextId' - 1
      BY <1>1, <1>5, <1>6, <1>7 DEF A
    <2>2. \A m, x \in K : m.id = x.id => m = x
      BY <1>6, <1>9
    <2>3. QED
      BY <1>11, <2>1, <2>2 DEF NewIds
  <1>13. nextId' \in Nat /\ nextId <= nextId' /\ \A m \in K : m.ref = RefOf(n)
    BY <1>1, <1>5, <1>6 DEF A
  <1>14. tree' = (tree \ {n}) \cup K /\ heap' = Live(Store(heap, RefOf(n), s), tree')
    BY <1>1, <1>2 DEF K
  <1> HIDE DEF s
  <1>15. QED
    BY <1>10, <1>12, <1>13, <1>14, StoringKeepsRanks

LEMMA FinishingKeepsRanks ==
    ASSUME Inv, Ranked, NEW n \in tree, Defer(n) \/ Propose(n)
    PROVE  Ranked'
  <1>0. nextId \in Nat
    BY DEF Inv
  <1>1. CASE Defer(n)
    <2> DEFINE K == {PreparedNode(RefOf(n))}
               u == Finished(n)
    <2>1. /\ nextId' = nextId /\ tree' = (tree \ {n}) \cup K
          /\ heap' = Live(Store(heap, RefOf(n), u), tree')
      BY <1>1 DEF Defer, Turn, TreeWithFinished, WithFinished
    <2>2. \A m \in K : m.ref = RefOf(n) /\ IsPrepared(m)
      BY DEF PreparedNode, IsPrepared
    <2>3. u.id = IdOf(heap, n)
      BY FinishingKeepsId
    <2>4. (\A m, x \in K : m = x) /\ IsFiniteSet(K)
      BY FS_Singleton
    <2> HIDE DEF u, K
    <2>5. NewIds(IdOf(heap, n), u, K, nextId') /\ \A m \in K : m.ref = RefOf(n)
      BY <2>2, <2>3, <2>4 DEF NewIds
    <2>6. nextId' \in Nat /\ nextId <= nextId'
      BY <1>0, <2>1
    <2>7. QED
      BY <2>1, <2>4, <2>5, <2>6, StoringKeepsRanks
  <1>2. CASE Propose(n)
    <2> DEFINE K == {}
    <2>1. /\ nextId' = nextId /\ tree' = (tree \ {n}) \cup K
          /\ heap' = Live(Store(heap, RefOf(n), offer'), tree')
      BY <1>2 DEF Propose, Turn
    <2>2. (\A m \in K : FALSE) /\ IsFiniteSet(K)
      BY FS_EmptySet
    <2>3. offer'.id = IdOf(heap, n)
      BY <1>2, FinishingKeepsId DEF Propose
    <2> HIDE DEF K
    <2>4. NewIds(IdOf(heap, n), offer', K, nextId') /\ \A m \in K : m.ref = RefOf(n)
      BY <2>2, <2>3 DEF NewIds
    <2>5. nextId' \in Nat /\ nextId <= nextId'
      BY <1>0, <2>1
    <2>6. QED
      BY <2>1, <2>2, <2>4, <2>5, StoringKeepsRanks
  <1>3. QED
    BY <1>1, <1>2

LEMMA StepKeepsRanks ==
    ASSUME Inv, Ranked, [Next]_vars
    PROVE  Ranked'
  <1>1. CASE UNCHANGED vars \/ Answer \/ GiveUp
    <2>1. UNCHANGED <<heap, tree, nextId>>
      BY <1>1 DEF vars, Answer, GiveUp
    <2>2. QED
      BY <2>1 DEF Ranked, IdOf
  <1>2. ASSUME NEW n \in tree, NoActions(n) \/ HitSolutionTreeLimit(n) \/ HitLeafLimit(n) \/ Abort(n)
        PROVE  Ranked'
    <2>1. /\ heap' = Live(heap, tree') /\ nextId' = nextId
          /\ tree' \subseteq tree \/ tree' = {PreparedNode(Initial)}
      BY <1>2 DEF NoActions, HitSolutionTreeLimit, HitLeafLimit, Abort, Turn
    <2>2. QED
      BY <2>1, ForgettingKeepsRanks
  <1>3. QED
    BY <1>1, <1>2, ApplyInPlaceKeepsRanks, BranchKeepsRanks, FinishingKeepsRanks DEF Next, TakeTurn

(* In the full mode what is proposed is the last unfinished solution: then *)
(* the chooser takes the best of all of them. *)
LEMMA ProposesBest ==
    ASSUME Inv, Ranked, NEW n \in tree, Propose(n), options.type = "full"
    PROVE  \A m \in tree' : IsFinished(heap', m) /\ ScoreOf(heap', m) <= offer'.score
  <1> DEFINE r == RefOf(n)
             u == Finished(n)
             h == Store(heap, r, u)
             p == PreparedNode(r)
             t == (tree \ {n}) \cup {p}
             K == {}
  <1>1. /\ tree' = tree \ {n} /\ heap' = Live(Store(heap, r, offer'), tree')
        /\ Chosen(h, t) = p /\ offer' = Cleaned(u)
    BY DEF Propose, IsPreferred, WithFinished, TreeWithFinished
  <1>2. /\ (IsPrepared(n) /\ r = n.ref) \/ (~IsPrepared(n) /\ r \notin DOMAIN heap)
        /\ \A m \in tree : m.ref \in DOMAIN heap
        /\ \A m, x \in tree : IsPrepared(m) /\ m.ref = x.ref => m = x
    BY RefIsFresh DEF Inv, GoodTree
  <1>3. p.ref = r /\ IsPrepared(p)
    BY DEF PreparedNode, IsPrepared
  <1>4. /\ u.id = IdOf(heap, n) /\ u.score = ScoreOf(heap, n) /\ u.finished = TRUE
        /\ offer'.score = ScoreOf(heap, n)
    BY <1>1, FinishingKeepsId
  <1>5. /\ \A m \in tree \ {n} : m.ref # r /\ m.ref \in DOMAIN heap
        /\ \A ref \in DOMAIN heap : ref # r => h[ref] = heap[ref]
        /\ h[r] = u
    BY <1>2 DEF Store
  <1> HIDE DEF h, u, p, r
  <1>6. \A m \in tree \ {n} : h[m.ref] = heap[m.ref] /\ m # p
    BY <1>3, <1>5
  <1>7. \A m \in tree \ {n} : /\ IdOf(h, m) = IdOf(heap, m) /\ ScoreOf(h, m) = ScoreOf(heap, m)
                              /\ IsFinished(h, m) <=> IsFinished(heap, m)
    BY <1>6 DEF IdOf, ScoreOf, IsFinished
  <1>8. IdOf(h, p) = IdOf(heap, n) /\ ScoreOf(h, p) = ScoreOf(heap, n) /\ IsFinished(h, p)
    BY <1>3, <1>4, <1>5 DEF IdOf, ScoreOf, IsFinished
  <1>9. \A m \in tree : IdOf(heap, m) \in Nat /\ ScoreOf(heap, m) \in Int
    <2>1. ASSUME NEW m \in tree
          PROVE  /\ m.ref \in DOMAIN heap /\ m.id \in Nat /\ (~IsPrepared(m) => m.score \in Int)
                 /\ heap[m.ref].id \in Nat /\ heap[m.ref].score \in Int
      BY DEF Inv, GoodTree, GoodNode, GoodHeap, Good, IsSolution
    <2>2. QED
      BY <2>1 DEF IdOf, ScoreOf
  <1>10. Ordered(h, t)
    <2>1. IsFiniteSet(t)
      BY FS_Difference, FS_Union, FS_Singleton DEF Ranked
    <2>2. \A m \in t : m \in tree \ {n} \/ m = p
      OBVIOUS
    <2>3. \A m, x \in tree : IdOf(heap, m) = IdOf(heap, x) => m = x
      BY DEF Ranked
    <2> HIDE DEF t
    <2>4. \A m, x \in t : IdOf(h, m) = IdOf(h, x) => m = x
      BY <1>7, <1>8, <2>2, <2>3
    <2>5. \A m \in t : ScoreOf(h, m) \in Int /\ IdOf(h, m) \in Nat
      BY <1>7, <1>8, <1>9, <2>2
    <2>6. QED
      BY <2>1, <2>4, <2>5 DEF Ordered
  <1> DEFINE unfinished == {m \in t : ~IsFinished(h, m)}
  <1>11. p \in t /\ unfinished \in SUBSET t /\ p \notin unfinished
         /\ \A m \in tree \ {n} : m \in t
    BY <1>8
  <1> HIDE DEF t
  <1>12. unfinished = {}
    <2>1. SUFFICES ASSUME unfinished # {} PROVE FALSE
      OBVIOUS
    <2>2. Chosen(h, t) = Worst(h, unfinished)
      BY <2>1 DEF Chosen
    <2>3. IsFiniteSet(unfinished)
      BY <1>10, FS_Subset DEF Ordered
    <2> HIDE DEF unfinished
    <2>4. Ordered(h, unfinished)
      BY <1>10, <1>11, <2>3 DEF Ordered
    <2>5. Worst(h, unfinished) \in unfinished
      BY <2>1, <2>4, BestAndWorst
    <2>6. QED
      BY <1>1, <1>11, <2>2, <2>5
  <1>13. Chosen(h, t) = Best(h, t)
    BY <1>12 DEF Chosen
  <1>14. \A m \in t : IsFinished(h, m)
    BY <1>12
  <1> HIDE DEF unfinished
  <1>15. \A m \in t \ {p} : ScoreLess(h, m, p)
    BY <1>1, <1>10, <1>11, <1>13, BestAndWorst
  <1>16. \A m \in tree \ {n} : heap'[m.ref] = heap[m.ref]
    <2>1. tree' = (tree \ {n}) \cup K /\ \A m \in K : m.ref = RefOf(n)
      BY <1>1
    <2> HIDE DEF K
    <2>2. heap' = Live(Store(heap, RefOf(n), offer'), tree')
      BY <1>1 DEF r
    <2>3. QED
      BY <2>1, <2>2, StoredOrKept
  <1>17. ASSUME NEW m \in tree' PROVE IsFinished(heap', m) /\ ScoreOf(heap', m) <= offer'.score
    <2>1. m \in tree \ {n} /\ m \in t \ {p}
      BY <1>1, <1>6, <1>11, <1>17
    <2>2. IsFinished(h, m) /\ ScoreLess(h, m, p)
      BY <1>14, <1>15, <2>1
    <2>3. ScoreOf(heap', m) = ScoreOf(heap, m) /\ (IsFinished(heap', m) <=> IsFinished(heap, m))
      BY <1>16, <2>1 DEF ScoreOf, IsFinished
    <2>4. ScoreOf(heap, m) <= ScoreOf(heap, n)
      BY <1>7, <1>8, <1>9, <2>1, <2>2 DEF ScoreLess
    <2>5. QED
      BY <1>4, <1>7, <2>1, <2>2, <2>3, <2>4
  <1>18. QED
    BY <1>17

-----------------------------------------------------------------------------
(***************************************************************************)
(* The reasons.  The element that needed a decision is there, from an      *)
(* earlier level, until an element that stays for good takes its place;    *)
(* and while the solution grows no satisfier of the relation is there that *)
(* is older than the decision, or the relation would not have been broken. *)
(* Cleaning puts in empty elements, of level 0, when no more reasons are   *)
(* looked for.                                                             *)
(***************************************************************************)
Explained(g, s, entry) ==
    LET v == entry.by.version
        satisfiers == Successors(g, entry.by.relation)
    IN  /\ v \in Elements(g) /\ entry.by.relation \in g.requires[v]
        /\ Present(s, v) => EntryOf(s, v).level < entry.level
        /\ \A x \in satisfiers :
                Present(s, x) /\ EntryOf(s, x).level # 0 => EntryOf(s, x).level >= entry.level
        /\ ~s.finished =>
                /\ Present(s, v) \/ (HasFamily(s, v) /\ EntryOf(s, v).sticked)
                /\ \A x \in satisfiers :
                        Here(s, Family(x)) = x => HasFamily(s, x) /\ EntryOf(s, x).level >= entry.level

AllExplained(g, s) ==
    \A f \in DOMAIN s.entries : s.entries[f].by # NoReason => Explained(g, s, s.entries[f])

Backed(g, s) ==
    /\ \A f \in DOMAIN s.entries : s.entries[f].level <= s.level
    /\ AllExplained(g, s)

(* What action a was made for. *)
Caused(g, s, a) ==
    /\ a.by.version \in Dependants(g, s, a.by.relation)
    /\ a.by.relation \in DOMAIN s.broken
    /\ a.priority > 0
    /\ Replaceable(s, a.new)

Reasoned ==
    /\ \A ref \in DOMAIN heap : Backed(graph, heap[ref])
    /\ \A n \in tree : ~IsPrepared(n) => Caused(graph, heap[n.ref], n.action)

LEMMA BackedIsRight ==
    ASSUME NEW g, IsGraph(g), NEW s, IsSolution(g, s), Backed(g, s),
           NEW f \in DOMAIN s.entries, s.entries[f].by # NoReason,
           NEW x \in ReasonElements(g, s, s.entries[f].by, s.entries[f].element)
    PROVE  IsVersionElement(g, x) /\ EntryOf(s, x).level < s.entries[f].level
  <1> DEFINE entry == s.entries[f]
             v == entry.by.version
             e == entry.element
  <1>1. Explained(g, s, entry) /\ Family(e) = f /\ e \in Elements(g)
    BY DEF Backed, AllExplained, IsSolution, EntryType
  <1>2. v \in Elements(g) /\ entry.by.relation \in g.requires[v] /\ entry.by.relation \in Relations(g)
    BY <1>1 DEF Explained, IsGraph, OnlyVersionsRequire
  <1>3. e # None /\ EntryOf(s, e) = entry
    BY <1>1, NoneIsNoElement DEF EntryOf
  <1>4. CASE x = v /\ Present(s, v)
    <2>1. IsVersionElement(g, v)
      BY <1>2 DEF IsGraph, OnlyVersionsRequire
    <2>2. QED
      BY <1>1, <1>4, <2>1 DEF Explained
  <1>5. ASSUME NEW y \in Successors(g, entry.by.relation), ~Replaceable(s, y),
               x = Conflictor(g, s, y),
               EntryOf(s, x).level # 0 /\ entry.level > EntryOf(s, x).level
        PROVE  IsVersionElement(g, x) /\ EntryOf(s, x).level < entry.level
    <2>1. HasFamily(s, y) /\ x = EntryOf(s, y).element
      BY <1>5 DEF Replaceable, Conflictor
    <2>2. y \in Elements(g) /\ x \in Elements(g) /\ Family(x) = Family(y)
      <3> DEFINE r == entry.by.relation
      <3>1. r \in Relations(g) /\ y \in Image(g.satisfiers[r])
        BY <1>2, <1>5 DEF Successors
      <3>2. g.satisfiers[r] \in Seq(Elements(g))
        BY <3>1 DEF IsGraph, SatisfiersAreElements
      <3> HIDE DEF r
      <3>3. y \in Elements(g)
        BY <3>1, <3>2 DEF Image
      <3>4. Family(y) \in DOMAIN s.entries /\ x = s.entries[Family(y)].element
        BY <2>1 DEF HasFamily, EntryOf
      <3>5. QED
        BY <3>3, <3>4 DEF IsSolution, EntryType
    <2>3. entry.level \in Nat /\ EntryOf(s, x).level \in Nat /\ Present(s, x)
      BY <2>1, <2>2 DEF IsSolution, EntryType, HasFamily, EntryOf, Present
    <2>4. SUFFICES ASSUME ~IsVersionElement(g, x) PROVE FALSE
      BY <1>5, <2>3
    <2>5. x = y
      BY <2>2, <2>4 DEF IsGraph, AlternativesAreVersions, IsVersionElement
    <2>6. EntryOf(s, x).level >= entry.level
      BY <1>1, <1>5, <2>3, <2>5 DEF Explained
    <2>7. QED
      BY <1>5, <2>3, <2>6
  <1>6. \/ x = v /\ Present(s, v)
        \/ \E y \in Successors(g, entry.by.relation) :
                /\ ~Replaceable(s, y) /\ x = Conflictor(g, s, y)
                /\ EntryOf(s, x).level # 0 /\ entry.level > EntryOf(s, x).level
    BY <1>3 DEF ReasonElements
  <1>7. QED
    BY <1>4, <1>5, <1>6

LEMMA InitReasoned == Init => Reasoned
  <1> SUFFICES ASSUME Init PROVE Reasoned
    OBVIOUS
  <1>1. /\ DOMAIN heap = {Initial} /\ heap[Initial] = InitialSolution(graph)
        /\ \A n \in tree : IsPrepared(n)
    BY DEF Init, IsPrepared, PreparedNode
  <1>2. InitialSolution(graph).entries = InitialEntries(graph) /\ InitialSolution(graph).level = 0
    BY DEF InitialSolution
  <1>3. \A f \in DOMAIN InitialEntries(graph) :
            InitialEntries(graph)[f].by = NoReason /\ InitialEntries(graph)[f].level = 0
    BY DEF InitialEntries, Entry
  <1>4. Backed(graph, InitialSolution(graph))
    BY <1>2, <1>3 DEF Backed, AllExplained
  <1>5. QED
    BY <1>1, <1>4 DEF Reasoned

(* Applying an action on a level above all others. *)
LEMMA ActingKeepsReasons ==
    ASSUME NEW g, IsGraph(g), NEW s, IsSolution(g, s), ~s.finished, AllExplained(g, s),
           \A f \in DOMAIN s.entries : s.entries[f].level < s.level,
           DOMAIN s.broken \subseteq BrokenRelations(g, s),
           NEW a, Fits(g, s, a), Caused(g, s, a)
    PROVE  Backed(g, ApplyAction(g, s, a))
  <1> DEFINE u == ApplyAction(g, s, a)
             f0 == Family(a.new)
             v == a.by.version
             r == a.by.relation
  <1>1. Applied(g, s, a, u)
    BY ActionIsApplied
  <1> HIDE DEF u
  <1>2. /\ u.level = s.level /\ s.level \in Nat
        /\ f0 \in DOMAIN u.entries /\ DOMAIN s.entries \subseteq DOMAIN u.entries
        /\ u.entries[f0].element = a.new /\ u.entries[f0].sticked = TRUE
        /\ u.entries[f0].by = a.by /\ u.entries[f0].level = s.level
    <2>1. (a.priority > 0) = TRUE
      BY DEF Caused
    <2>2. /\ u.level = s.level
          /\ DOMAIN u.entries = DOMAIN s.entries \cup {f0} \cup RejectedFamilies(g, s, a)
          /\ u.entries[f0] = Entry(a.new, a.priority > 0, a.by, s.level)
      BY <1>1 DEF Applied
    <2>3. u.entries[f0] = Entry(a.new, TRUE, a.by, s.level)
      BY <2>1, <2>2
    <2>4. /\ u.entries[f0].element = a.new /\ u.entries[f0].sticked = TRUE
          /\ u.entries[f0].by = a.by /\ u.entries[f0].level = s.level
      BY <2>3 DEF Entry
    <2>5. s.level \in Nat
      BY DEF IsSolution
    <2>6. QED
      BY <2>2, <2>4, <2>5
  <1>3. ASSUME NEW f \in DOMAIN u.entries, f # f0, f \notin DOMAIN s.entries
        PROVE  /\ u.entries[f].element = EmptyOf(f) /\ u.entries[f].by = NoReason
               /\ u.entries[f].level = 0
    BY <1>1, <1>3 DEF Applied, EntryIn, Entry
  <1>4. ASSUME NEW f \in DOMAIN s.entries, f # f0
        PROVE  /\ u.entries[f].element = s.entries[f].element
               /\ u.entries[f].by = s.entries[f].by
               /\ u.entries[f].sticked = s.entries[f].sticked
               /\ u.entries[f].level = s.entries[f].level
    <2>1. f \in DOMAIN u.entries
      BY <1>2, <1>4
    <2>2. QED
      BY <1>1, <1>4, <2>1 DEF Applied, EntryIn
  <1>5. \A f \in DOMAIN s.entries :
            s.entries[f].level \in Nat /\ Family(s.entries[f].element) = f
    BY DEF IsSolution, EntryType
  <1>6. Here(u, f0) = a.new /\ \A f : f # f0 => Here(u, f) = Here(s, f)
    BY <1>2, <1>3, <1>4 DEF Here
  <1>7. Here(s, f0) # a.new
    BY DEF Fits
  <1>8. \A f \in DOMAIN u.entries : u.entries[f].level <= u.level
    BY <1>2, <1>3, <1>4, <1>5
  <1>9. \A e : Present(u, e) => Here(u, Family(e)) = e
    BY DEF Present, Here, HasFamily, EntryOf
  <1>10. ASSUME NEW f \in DOMAIN u.entries, u.entries[f].by # NoReason, f # f0
         PROVE  Explained(g, u, u.entries[f])
    <2>1. f \in DOMAIN s.entries /\ u.entries[f].by = s.entries[f].by
          /\ u.entries[f].level = s.entries[f].level
      BY <1>3, <1>4, <1>10
    <2> DEFINE w == s.entries[f].by.version
               q == s.entries[f].by.relation
               level == s.entries[f].level
    <2>2. Explained(g, s, s.entries[f])
      BY <1>10, <2>1 DEF AllExplained
    <2>3. level \in Nat /\ level < s.level
      BY <1>5, <2>1
    <2>4. /\ w \in Elements(g) /\ q \in g.requires[w]
          /\ Present(s, w) => EntryOf(s, w).level < level
          /\ Present(s, w) \/ (HasFamily(s, w) /\ EntryOf(s, w).sticked)
          /\ \A x \in Successors(g, q) :
                Here(s, Family(x)) = x => HasFamily(s, x) /\ EntryOf(s, x).level >= level
      BY <2>2 DEF Explained
    <2> HIDE DEF w, q, level
    <2>5. HasFamily(s, w)
      BY <2>4 DEF Present
    <2>6. /\ Present(u, w) => EntryOf(u, w).level < level
          /\ Present(u, w) \/ (HasFamily(u, w) /\ EntryOf(u, w).sticked)
      <3>1. CASE Family(w) = f0
        <4>1. HasFamily(u, w) /\ EntryOf(u, w).sticked = TRUE /\ EntryOf(u, w).element = a.new
          BY <1>2, <3>1 DEF HasFamily, EntryOf
        <4>2. SUFFICES ASSUME a.new = w PROVE FALSE
          BY <4>1 DEF Present
        <4>3. ~Present(s, w)
          BY <1>7, <3>1, <4>2 DEF Present, Here, HasFamily, EntryOf
        <4>4. QED
          BY <2>4, <2>5, <4>2, <4>3 DEF Caused, Replaceable
      <3>2. CASE Family(w) # f0
        <4>1. /\ HasFamily(u, w) /\ EntryOf(u, w).element = EntryOf(s, w).element
              /\ EntryOf(u, w).sticked = EntryOf(s, w).sticked
              /\ EntryOf(u, w).level = EntryOf(s, w).level
          BY <1>2, <1>4, <2>5, <3>2 DEF HasFamily, EntryOf
        <4>2. QED
          BY <2>4, <2>5, <4>1 DEF Present
      <3>3. QED
        BY <3>1, <3>2
    <2>7. ASSUME NEW x \in Successors(g, q), Here(u, Family(x)) = x
          PROVE  HasFamily(u, x) /\ EntryOf(u, x).level >= level
      <3>1. CASE Family(x) = f0
        BY <1>2, <2>3, <3>1 DEF HasFamily, EntryOf
      <3>2. CASE Family(x) # f0
        <4>1. HasFamily(s, x) /\ EntryOf(s, x).level >= level
          BY <1>6, <2>4, <2>7, <3>2
        <4>2. QED
          BY <1>2, <1>4, <3>2, <4>1 DEF HasFamily, EntryOf
      <3>3. QED
        BY <3>1, <3>2
    <2>8. u.entries[f].by.version = w /\ u.entries[f].by.relation = q /\ u.entries[f].level = level
      BY <2>1 DEF w, q, level
    <2>9. QED
      BY <1>9, <2>4, <2>6, <2>7, <2>8 DEF Explained
  <1>11. Explained(g, u, u.entries[f0])
    <2>1. r \in BrokenRelations(g, s) /\ v \in PresentElements(s) /\ r \in Requires(g, v)
      BY DEF Caused, Dependants
    <2>2. v \in Elements(g) /\ Family(v) \in DOMAIN s.entries /\ Here(s, Family(v)) = v
      BY <2>1, PresentIsHere
    <2>3. r \in g.requires[v] /\ r \in Relations(g)
      BY <2>1, <2>2, NoneIsNoElement DEF Requires, IsGraph, OnlyVersionsRequire
    <2>4. \A x \in Successors(g, r) : Here(s, Family(x)) # x
      BY <2>1, <2>3, VerifyIsHere DEF BrokenRelations
    <2>5. /\ Present(u, v) => EntryOf(u, v).level < s.level
          /\ Present(u, v) \/ (HasFamily(u, v) /\ EntryOf(u, v).sticked)
      <3>1. CASE Family(v) = f0
        <4>1. HasFamily(u, v) /\ EntryOf(u, v).sticked = TRUE /\ EntryOf(u, v).element # v
          BY <1>2, <1>7, <2>2, <3>1 DEF HasFamily, EntryOf
        <4>2. QED
          BY <4>1 DEF Present
      <3>2. CASE Family(v) # f0
        <4>1. /\ HasFamily(u, v) /\ EntryOf(u, v).element = v
              /\ EntryOf(u, v).level = s.entries[Family(v)].level
          BY <1>2, <1>4, <2>2, <3>2 DEF HasFamily, EntryOf, Here
        <4>2. QED
          BY <2>2, <4>1 DEF Present
      <3>3. QED
        BY <3>1, <3>2
    <2>6. ASSUME NEW x \in Successors(g, r), Here(u, Family(x)) = x
          PROVE  HasFamily(u, x) /\ EntryOf(u, x).level >= s.level
      <3>1. Family(x) = f0
        BY <1>6, <2>4, <2>6
      <3>2. QED
        BY <1>2, <3>1 DEF HasFamily, EntryOf
    <2>7. ASSUME NEW x \in Successors(g, r), Present(u, x) PROVE EntryOf(u, x).level >= s.level
      BY <1>9, <2>6, <2>7
    <2>8. /\ u.entries[f0].by.version = v /\ u.entries[f0].by.relation = r
          /\ u.entries[f0].level = s.level
      BY <1>2
    <2> HIDE DEF v, r
    <2>9. QED
      BY <2>2, <2>3, <2>5, <2>6, <2>7, <2>8 DEF Explained
  <1>12. QED
    BY <1>8, <1>10, <1>11 DEF Backed, AllExplained, u

(* Cleaning a finished solution keeps its reasons in order. *)
LEMMA CleaningKeepsReasons ==
    ASSUME IsGraph(graph), NEW s, IsSolution(graph, s), s.finished = TRUE, Backed(graph, s),
           \A e \in Unneeded(s) : CanBeEmptied(e)
    PROVE  Backed(graph, Cleaned(s))
  <1> DEFINE c == Cleaned(s)
             empty(f) == [Entry(EmptyOf(f), FALSE, NoReason, 0) EXCEPT !.autoremoved = TRUE]
  <1>1. /\ DOMAIN s = {"entries", "broken", "level", "id", "score", "finished"}
        /\ s.level \in Nat
        /\ \A f \in DOMAIN s.entries : /\ s.entries[f].element \in Elements(graph)
                                       /\ Family(s.entries[f].element) = f
                                       /\ s.entries[f].level \in Nat
    BY DEF IsSolution, EntryType
  <1>2. /\ DOMAIN c.entries = DOMAIN s.entries
        /\ \A f \in DOMAIN s.entries :
              c.entries[f] = IF s.entries[f].element \in Needed(s) THEN s.entries[f] ELSE empty(f)
        /\ c.level = s.level /\ c.finished = TRUE
    BY <1>1 DEF Cleaned
  <1>3. \A f : empty(f).element = EmptyOf(f) /\ empty(f).by = NoReason /\ empty(f).level = 0
    BY DEF Entry
  <1>4. \A e : Family(e) \in DOMAIN s.entries /\ Family(EmptyOf(Family(e))) = Family(e)
               => /\ EntryOf(c, e) = EntryOf(s, e) /\ Present(c, e) => Present(s, e)
                  /\ EntryOf(c, e) # EntryOf(s, e) => EntryOf(c, e) = empty(Family(e))
    BY <1>2 DEF EntryOf, Present, HasFamily
  <1> HIDE DEF c, empty
  <1>5. \A f \in DOMAIN c.entries : c.entries[f].level <= c.level
    BY <1>1, <1>2, <1>3 DEF Backed
  <1>6. ASSUME NEW f \in DOMAIN c.entries, c.entries[f].by # NoReason
        PROVE  Explained(graph, c, c.entries[f])
    <2> DEFINE v == s.entries[f].by.version
               q == s.entries[f].by.relation
               level == s.entries[f].level
    <2>1. c.entries[f] = s.entries[f] /\ f \in DOMAIN s.entries
      BY <1>2, <1>3, <1>6
    <2>2. Explained(graph, s, s.entries[f])
      BY <1>6, <2>1 DEF Backed, AllExplained
    <2>3. /\ v \in Elements(graph) /\ q \in graph.requires[v]
          /\ Present(s, v) => EntryOf(s, v).level < level
          /\ \A x \in Successors(graph, q) :
                Present(s, x) /\ EntryOf(s, x).level # 0 => EntryOf(s, x).level >= level
      BY <2>2 DEF Explained
    <2>4. c.entries[f].by.version = v /\ c.entries[f].by.relation = q /\ c.entries[f].level = level
      BY <2>1
    <2> HIDE DEF v, q, level
    <2>5. ASSUME Present(c, v) PROVE EntryOf(c, v).level < level
      <3>1. Family(v) \in DOMAIN s.entries /\ c.entries[Family(v)].element = v
        BY <1>2, <2>5 DEF Present, HasFamily, EntryOf
      <3>2. CASE c.entries[Family(v)] = s.entries[Family(v)]
        BY <2>3, <3>1, <3>2 DEF Present, HasFamily, EntryOf
      <3>3. CASE c.entries[Family(v)] # s.entries[Family(v)]
        <4> DEFINE y == s.entries[Family(v)].element
        <4>1. v = EmptyOf(Family(v)) /\ y \notin Needed(s)
          BY <1>2, <1>3, <3>1, <3>3
        <4>2. v[2] = 0
          BY <4>1 DEF EmptyOf
        <4>3. Family(v) = User
          BY <2>3, <4>2 DEF IsGraph, OnlyVersionsRequire
        <4>4. y \in Elements(graph) /\ Family(y) = User /\ y \in PresentElements(s)
          BY <1>1, <3>1, <4>3 DEF PresentElements
        <4>5. y = v
          BY <2>3, <4>3, <4>4 DEF IsGraph, AlternativesAreVersions
        <4>6. ~Removable(s, y)
          BY <4>2, <4>3, <4>5 DEF Removable, IsEmptyElement
        <4>7. QED
          BY <4>1, <4>4, <4>6, NeededIsClosed
      <3>4. QED
        BY <3>2, <3>3
    <2>6. ASSUME NEW x \in Successors(graph, q), Present(c, x), EntryOf(c, x).level # 0
          PROVE  EntryOf(c, x).level >= level
      <3>1. Family(x) \in DOMAIN s.entries /\ c.entries[Family(x)].element = x
            /\ c.entries[Family(x)].level # 0
        BY <1>2, <2>6 DEF Present, HasFamily, EntryOf
      <3>2. c.entries[Family(x)] = s.entries[Family(x)]
        BY <1>2, <1>3, <3>1
      <3>3. QED
        BY <2>3, <3>1, <3>2 DEF Present, HasFamily, EntryOf
    <2>7. QED
      BY <1>2, <2>3, <2>4, <2>5, <2>6 DEF Explained
  <1>7. QED
    BY <1>5, <1>6 DEF Backed, AllExplained, c

(* Reasons depend on the entries, and on whether the solution grows on. *)
LEMMA SameReasons ==
    ASSUME NEW g, NEW s, NEW t, t.entries = s.entries, t.finished = s.finished \/ t.finished = TRUE,
           AllExplained(g, s)
    PROVE  AllExplained(g, t)
  <1>1. ASSUME NEW entry, Explained(g, s, entry) PROVE Explained(g, t, entry)
    BY <1>1 DEF Explained, Present, HasFamily, EntryOf, Here
  <1>2. QED
    BY <1>1 DEF AllExplained

(* Preparing a node and acting on its solution once more. *)
LEMMA CopyKeepsReasons ==
    ASSUME IsGraph(graph), NEW p, Good(graph, p), ~p.finished, Backed(graph, p),
           NEW s, s.entries = p.entries, s.broken = p.broken, s.finished = FALSE,
           s.level = p.level + 1, IsSolution(graph, s),
           NEW a, Fits(graph, p, a), Caused(graph, p, a)
    PROVE  Backed(graph, ApplyAction(graph, s, a))
  <1>1. /\ \A f \in DOMAIN p.entries : p.entries[f].level \in Nat
        /\ p.level \in Nat /\ p.finished = FALSE
        /\ DOMAIN p.broken \subseteq BrokenRelations(graph, p)
    BY DEF Good, IsSolution, EntryType
  <1>2. \A f \in DOMAIN s.entries : s.entries[f].level < s.level
    BY <1>1 DEF Backed
  <1>3. AllExplained(graph, s)
    BY <1>1, SameReasons DEF Backed
  <1>4. Fits(graph, s, a) /\ DOMAIN s.broken \subseteq BrokenRelations(graph, s)
    BY <1>1, SameEntries
  <1>5. Caused(graph, s, a)
    BY DEF Caused, Dependants, PresentElements, Replaceable, HasFamily, EntryOf
  <1>6. QED
    BY <1>2, <1>3, <1>4, <1>5, ActingKeepsReasons

LEMMA PreparedIsBacked ==
    ASSUME Inv, Reasoned, NEW n \in tree
    PROVE  Backed(graph, Prepared(n))
  <1>1. /\ n.ref \in DOMAIN heap /\ Good(graph, heap[n.ref]) /\ IsGraph(graph)
        /\ GoodNode(graph, heap[n.ref], n, nextId)
        /\ Backed(graph, heap[n.ref])
        /\ ~IsPrepared(n) => Caused(graph, heap[n.ref], n.action)
    BY DEF Inv, GoodTree, GoodHeap, Reasoned
  <1>2. CASE IsPrepared(n)
    BY <1>1, <1>2 DEF Prepared
  <1>3. CASE ~IsPrepared(n)
    <2> DEFINE p == heap[n.ref]
               s == [p EXCEPT !.id = n.id, !.score = @ + n.score, !.level = @ + 1, !.finished = FALSE]
    <2>1. IsSolution(graph, p) /\ n.id \in Nat /\ n.score \in Int /\ ~p.finished
          /\ Fits(graph, p, n.action) /\ Caused(graph, p, n.action)
      BY <1>1, <1>3 DEF Good, GoodNode
    <2>2. /\ s.entries = p.entries /\ s.broken = p.broken /\ s.finished = FALSE
          /\ s.level = p.level + 1 /\ IsSolution(graph, s)
      BY <2>1 DEF IsSolution
    <2>3. Prepared(n) = ApplyAction(graph, s, n.action)
      BY <1>3 DEF Prepared
    <2> HIDE DEF s
    <2>4. Good(graph, p) /\ Backed(graph, p)
      BY <1>1
    <2> HIDE DEF p
    <2>5. QED
      BY <1>1, <2>1, <2>2, <2>3, <2>4, CopyKeepsReasons
  <1>4. QED
    BY <1>2, <1>3

(* What is done about a broken pair has a reason. *)
LEMMA ActionsAreCaused ==
    ASSUME Inv, NEW n \in tree, NEW by \in Pairs(Prepared(n)), BrokenPair(Prepared(n), by),
           NEW a \in PossibleActions(graph, Prepared(n), by)
    PROVE  Caused(graph, Prepared(n), a)
  <1> DEFINE s == Prepared(n)
  <1>1. IsGraph(graph) /\ IsSolution(graph, s)
    BY PreparedIsGood DEF Inv, Good
  <1>2. /\ by \in [version : PresentElements(s), relation : DOMAIN s.broken]
        /\ by.version \in Dependants(graph, s, by.relation)
    BY DEF Pairs, BrokenPair
  <1> HIDE DEF s
  <1>3. ActionsAre(graph, s, by, PossibleActions(graph, s, by))
    BY <1>1, <1>2, PossibleActionsAre
  <1>4. Replaceable(s, a.new) /\ a.by = by /\ a.priority = s.broken[by.relation]
    BY <1>3 DEF ActionsAre, s
  <1>5. a.priority > 0
    BY <1>1, <1>2, <1>4 DEF IsSolution
  <1>6. QED
    BY <1>2, <1>4, <1>5 DEF Caused, s

LEMMA ForgettingKeepsReasons ==
    ASSUME Inv, Reasoned, heap' = Live(heap, tree'), UNCHANGED graph,
           tree' \subseteq tree \/ tree' = {PreparedNode(Initial)}
    PROVE  Reasoned'
  <1>1. /\ DOMAIN heap' \subseteq DOMAIN heap
        /\ \A ref \in DOMAIN heap' : heap'[ref] = heap[ref]
    BY DEF Live
  <1>2. \A ref \in DOMAIN heap' : Backed(graph, heap'[ref])
    BY <1>1 DEF Reasoned
  <1>3. ASSUME NEW m \in tree', ~IsPrepared(m) PROVE Caused(graph, heap'[m.ref], m.action)
    <2>1. m \in tree
      BY <1>3 DEF IsPrepared, PreparedNode
    <2>2. m.ref \in DOMAIN heap
      BY <2>1 DEF Inv, GoodTree
    <2>3. heap'[m.ref] = heap[m.ref]
      BY <2>2 DEF Live
    <2>4. QED
      BY <1>3, <2>1, <2>3 DEF Reasoned
  <1>4. QED
    BY <1>2, <1>3 DEF Reasoned

LEMMA StoringKeepsReasons ==
    ASSUME Inv, Reasoned, NEW n \in tree, NEW u, NEW K, tree' = (tree \ {n}) \cup K,
           heap' = Live(Store(heap, RefOf(n), u), tree'), UNCHANGED graph,
           \A m \in K : m.ref = RefOf(n), Backed(graph, u),
           \A m \in K : ~IsPrepared(m) => Caused(graph, u, m.action)
    PROVE  Reasoned'
  <1>1. /\ \A m \in tree \ {n} : heap'[m.ref] = heap[m.ref]
        /\ \A m \in K : heap'[m.ref] = u
        /\ heap'[Initial] = IF RefOf(n) = Initial THEN u ELSE heap[Initial]
        /\ RefOf(n) = Initial => Prepared(n) = heap[Initial]
    BY StoredOrKept
  <1>2. \A ref \in DOMAIN heap' : heap'[ref] = u \/ (ref \in DOMAIN heap /\ heap'[ref] = heap[ref])
    BY DEF Live, Store
  <1>3. \A ref \in DOMAIN heap' : Backed(graph, heap'[ref])
    BY <1>2 DEF Reasoned
  <1>4. \A m \in tree' : ~IsPrepared(m) => Caused(graph, heap'[m.ref], m.action)
    BY <1>1 DEF Reasoned
  <1>5. QED
    BY <1>3, <1>4 DEF Reasoned

LEMMA ApplyInPlaceKeepsReasons ==
    ASSUME Inv, Reasoned, NEW n \in tree, ApplyInPlace(n)
    PROVE  Reasoned'
  <1> DEFINE p == Prepared(n)
             K == {PreparedNode(RefOf(n))}
  <1>1. PICK by \in Pairs(p), change \in options.scoreChanges :
            /\ BrokenPair(p, by)
            /\ \E a \in PossibleActions(graph, p, by) :
                heap' = Live(Store(heap, RefOf(n),
                            ApplyAction(graph,
                                [p EXCEPT !.id = nextId, !.level = @ + 1, !.score = @ + change],
                                a)), tree')
    BY DEF ApplyInPlace
  <1> DEFINE t == [p EXCEPT !.id = nextId, !.level = @ + 1, !.score = @ + change]
  <1>2. PICK a \in PossibleActions(graph, p, by) :
            heap' = Live(Store(heap, RefOf(n), ApplyAction(graph, t, a)), tree')
    BY <1>1
  <1>3. nextId \in Nat /\ change \in Int
    BY DEF Inv, IsOptions
  <1>4. /\ IsGraph(graph) /\ Good(graph, p) /\ ~p.finished /\ Backed(graph, p)
        /\ Fits(graph, p, a) /\ Caused(graph, p, a)
    BY <1>1, PreparedIsGood, PreparedIsBacked, BrokenPairActs, ActionsAreCaused DEF Inv
  <1>5. /\ t.entries = p.entries /\ t.broken = p.broken /\ t.finished = FALSE
        /\ t.level = p.level + 1 /\ IsSolution(graph, t)
    <2> HIDE DEF p
    <2>1. QED
      BY <1>3, <1>4 DEF Good, IsSolution
  <1> HIDE DEF t, p
  <1> DEFINE u == ApplyAction(graph, t, a)
  <1>6. Backed(graph, u)
    BY <1>4, <1>5, CopyKeepsReasons
  <1>7. UNCHANGED graph /\ tree' = (tree \ {n}) \cup K
    BY DEF ApplyInPlace, Turn
  <1>8. (\A m \in K : m.ref = RefOf(n)) /\ \A m \in K : ~IsPrepared(m) => Caused(graph, u, m.action)
    BY DEF PreparedNode, IsPrepared
  <1>9. heap' = Live(Store(heap, RefOf(n), u), tree')
    BY <1>2
  <1> HIDE DEF u, K
  <1>10. QED
    BY <1>6, <1>7, <1>8, <1>9, StoringKeepsReasons

LEMMA BranchKeepsReasons ==
    ASSUME Inv, Reasoned, NEW n \in tree, Branch(n)
    PROVE  Reasoned'
  <1> DEFINE s == Prepared(n)
             actions(by) == PossibleActions(graph, s, by)
             Earlier(by, a) == {b \in actions(by) : b.at < a.at}
             node(by, change, a) == [ref |-> RefOf(n), action |-> a,
                                     id |-> nextId + Cardinality(Earlier(by, a)), score |-> change[a]]
  <1>1. PICK by \in Pairs(s) :
            /\ BrokenPair(s, by)
            /\ \E change \in [actions(by) -> options.scoreChanges] :
                tree' = (tree \ {n}) \cup {node(by, change, a) : a \in actions(by)}
            /\ heap' = Live(Store(heap, RefOf(n), s), tree')
    BY DEF Branch
  <1>2. PICK change \in [actions(by) -> options.scoreChanges] :
            tree' = (tree \ {n}) \cup {node(by, change, a) : a \in actions(by)}
    BY <1>1
  <1> DEFINE K == {node(by, change, a) : a \in actions(by)}
  <1>3. \A a \in actions(by) : Caused(graph, s, a)
    BY <1>1, ActionsAreCaused
  <1>4. \A a \in actions(by) : node(by, change, a).ref = RefOf(n) /\ node(by, change, a).action = a
    OBVIOUS
  <1> HIDE DEF node, s, actions
  <1>5. (\A m \in K : m.ref = RefOf(n)) /\ \A m \in K : ~IsPrepared(m) => Caused(graph, s, m.action)
    BY <1>3, <1>4
  <1>6. Backed(graph, s)
    BY PreparedIsBacked DEF s
  <1>7. UNCHANGED graph /\ tree' = (tree \ {n}) \cup K /\ heap' = Live(Store(heap, RefOf(n), s), tree')
    BY <1>1, <1>2 DEF Branch, Turn
  <1> HIDE DEF K
  <1>8. QED
    BY <1>5, <1>6, <1>7, StoringKeepsReasons

LEMMA FinishingKeepsReasons ==
    ASSUME Inv, Reasoned, NEW n \in tree, Defer(n) \/ Propose(n)
    PROVE  Reasoned'
  <1> DEFINE s == Prepared(n)
             u == Finished(n)
  <1>1. IsSolved(n)
    BY DEF Defer, Propose, IsPreferred
  <1>2. u = [s EXCEPT !.finished = TRUE] /\ Backed(graph, s) /\ IsSolution(graph, s)
        /\ Good(graph, u) /\ IsGraph(graph)
    BY <1>1, PreparedIsBacked, PreparedIsGood, FinishedIsGood DEF Finished, Good, Inv
  <1> HIDE DEF s, u
  <1>3. u.entries = s.entries /\ u.finished = TRUE /\ u.level = s.level
    BY <1>2 DEF IsSolution
  <1>4. Backed(graph, u)
    BY <1>2, <1>3, SameReasons DEF Backed
  <1>5. CASE Defer(n)
    <2> DEFINE K == {PreparedNode(RefOf(n))}
    <2>1. /\ UNCHANGED graph /\ tree' = (tree \ {n}) \cup K
          /\ heap' = Live(Store(heap, RefOf(n), u), tree')
      BY <1>5 DEF Defer, Turn, TreeWithFinished, WithFinished, u
    <2>2. (\A m \in K : m.ref = RefOf(n)) /\ \A m \in K : ~IsPrepared(m) => Caused(graph, u, m.action)
      BY DEF PreparedNode, IsPrepared
    <2> HIDE DEF K
    <2>3. QED
      BY <1>4, <2>1, <2>2, StoringKeepsReasons
  <1>6. CASE Propose(n)
    <2> DEFINE K == {}
    <2>1. /\ UNCHANGED graph /\ tree' = (tree \ {n}) \cup K /\ offer' = Cleaned(u)
          /\ heap' = Live(Store(heap, RefOf(n), offer'), tree')
          /\ \A e \in Unneeded(s) : CanBeEmptied(e)
      BY <1>6 DEF Propose, Turn, CanBeCleaned, u, s
    <2>2. \A e \in Unneeded(u) : CanBeEmptied(e)
      <3>1. Unneeded(u) = Unneeded(s)
        BY <1>1, FinishedLooksTheSame DEF u, s
      <3>2. QED
        BY <2>1, <3>1
    <2>3. Backed(graph, offer')
      BY <1>2, <1>3, <1>4, <2>1, <2>2, CleaningKeepsReasons DEF Good
    <2>4. (\A m \in K : m.ref = RefOf(n)) /\ \A m \in K : ~IsPrepared(m) => Caused(graph, offer', m.action)
      OBVIOUS
    <2> HIDE DEF K
    <2>5. QED
      BY <2>1, <2>3, <2>4, StoringKeepsReasons
  <1>7. QED
    BY <1>5, <1>6

LEMMA StepKeepsReasons ==
    ASSUME Inv, Reasoned, [Next]_vars
    PROVE  Reasoned'
  <1>1. CASE UNCHANGED vars \/ Answer \/ GiveUp
    <2>1. UNCHANGED <<graph, heap, tree>>
      BY <1>1 DEF vars, Answer, GiveUp
    <2>2. QED
      BY <2>1 DEF Reasoned
  <1>2. ASSUME NEW n \in tree, NoActions(n) \/ HitSolutionTreeLimit(n) \/ HitLeafLimit(n) \/ Abort(n)
        PROVE  Reasoned'
    <2>1. /\ heap' = Live(heap, tree') /\ UNCHANGED graph
          /\ tree' \subseteq tree \/ tree' = {PreparedNode(Initial)}
      BY <1>2 DEF NoActions, HitSolutionTreeLimit, HitLeafLimit, Abort, Turn
    <2>2. QED
      BY <2>1, ForgettingKeepsReasons
  <1>3. QED
    BY <1>1, <1>2, ApplyInPlaceKeepsReasons, BranchKeepsReasons, FinishingKeepsReasons
    DEF Next, TakeTurn

-----------------------------------------------------------------------------
(* Every solution, in the tree or offered, is made of elements of the      *)
(* graph, one for each family, and never without what was installed. *)
THEOREM TypeIsCorrect == Safety => []TypeOK
  <1>1. Inv => TypeOK
    BY DEF Inv, TypeOK, GoodHeap, Good, GoodTree, GoodNode
  <1>2. QED
    BY Invariance, <1>1, PTL

(* p_updateBrokenSuccessors never keeps a relation that holds or that      *)
(* nobody needs, whatever the graph is. *)
THEOREM NoPhantomIsEverBroken == Safety => []NoPhantomIsBroken
  <1>1. Inv => NoPhantomIsBroken
    BY DEF Inv, NoPhantomIsBroken, GoodHeap, Good
  <1>2. QED
    BY Invariance, <1>1, PTL

(* p_updateBrokenSuccessors never forgets a relation that is broken, if    *)
(* no exchange loses a dependency that both versions have; finished and    *)
(* cleaned solutions have none. *)
THEOREM BrokenStaysExact == Safety => []BrokenIsExact
  <1>1. Inv => BrokenIsExact
    BY DEF Inv, BrokenIsExact, GoodHeap, Good
  <1>2. QED
    BY Invariance, <1>1, PTL

(* The internal checks of the program are never hit: a broken relation is  *)
(* needed by somebody, and what is offered after cleaning satisfies every  *)
(* dependency of everything in it; and cleaning never meets a package      *)
(* without an empty element, unless no-remove protects one.                *)
THEOREM ChecksAreNeverHit == Safety => []NoInternalError
  <1>1. Init => NoInternalError
    BY DEF Init, NoInternalError, FinalCheckHolds, NeverCrashes
  <1>2. Inv /\ NoInternalError /\ [Next]_vars => NoInternalError'
    BY StepKeepsChecks
  <1>3. QED
    BY Invariance, <1>1, <1>2, PTL DEF Safety

(* What is offered has been cleaned completely, and of a package on the    *)
(* list of no-autoremove-if-rdepends-exist nothing is cleaned away while   *)
(* something that depends on it stays. *)
THEOREM CleaningIsRight == Safety => CleansWhatIsUnneeded
  <1>1. Init => NothingUnneededStays
    BY DEF Init, NothingUnneededStays
  <1>2. Inv /\ NothingUnneededStays /\ [Next]_vars => NothingUnneededStays'
    BY StepCleans
  <1>3. Safety => []NothingUnneededStays
    BY Invariance, <1>1, <1>2, PTL DEF Safety
  <1>4. Inv /\ NothingUnneededStays /\ [Next]_vars =>
          [status' = "offering" /\ status = "resolving" =>
            \A n \in tree \ tree' : n = Chosen(heap, tree) =>
                \A e \in PresentElements(offer') : \A r \in Requires(graph, e) \ graph.anti :
                    \A x \in Successors(graph, r) :
                        KeptIfRDepends(Prepared(n), x) /\ Present(Prepared(n), x) => Present(offer', x)]_vars
    BY StepCleans
  <1>5. QED
    BY Invariance, <1>3, <1>4, PTL DEF Safety, CleansWhatIsUnneeded, RDependsKeep

(* "Unable to resolve dependencies" is said only when no choice of         *)
(* versions satisfies every dependency, and with a failure to explain it:  *)
(* neither sticked entries nor rejections nor actions that do not make     *)
(* sense nor restarts lose an answer. *)
THEOREM SearchIsComplete == Safety => []UnableOnlyIfUnsolvable
  <1>1. Safety => []Complete
    <2>1. Inv /\ Complete /\ [Next]_vars => Complete'
      BY StepKeepsComplete
    <2>2. QED
      BY Invariance, InitComplete, <2>1, PTL DEF Safety
  <1>2. Complete => UnableOnlyIfUnsolvable
    BY DEF Complete, UnableOnlyIfUnsolvable, Solvable, Answers
  <1>3. QED
    BY <1>1, <1>2, PTL

(* Two solutions of the tree can never become the same one, on the graphs  *)
(* where no version needs another version of its own package.              *)
THEOREM BranchesStayDisjoint == Safety => []BranchesAreDisjoint
  <1>1. Init => BranchesAreDisjoint
    BY DEF Init, BranchesAreDisjoint
  <1>2. Inv /\ BranchesAreDisjoint /\ [Next]_vars => BranchesAreDisjoint'
    BY StepKeepsApart
  <1>3. QED
    BY Invariance, <1>1, <1>2, PTL DEF Safety

(* Nobody changes a solution while its children wait to be prepared, which *)
(* is why the copy-on-write maps may share it. *)
THEOREM ParentsStayFrozen == Safety => ParentsAreFrozen
  <1>1. Inv /\ [Next]_vars =>
            [\A n \in tree : ~IsPrepared(n) /\ n \in tree' => heap'[n.ref] = heap[n.ref]]_vars
    BY StepKeepsInv DEF Frozen
  <1>2. QED
    BY Invariance, <1>1, PTL DEF Safety, ParentsAreFrozen

(* On the full resolver nothing that is still in the tree is better than   *)
(* what is offered, and nothing in it can become better.                   *)
THEOREM OffersBestFirst == Safety => FullOffersBestFirst
  <1>1. Inv /\ Ranked /\ [Next]_vars =>
            [status' = "offering" /\ status = "resolving" /\ options.type = "full" =>
                \A n \in tree' : IsFinished(heap', n) /\ ScoreOf(heap', n) <= offer'.score]_vars
    <2> SUFFICES ASSUME Inv, Ranked, Next, status' = "offering", status = "resolving",
                        options.type = "full"
                 PROVE  \A n \in tree' : IsFinished(heap', n) /\ ScoreOf(heap', n) <= offer'.score
      OBVIOUS
    <2>1. \E n \in tree : Propose(n)
      BY DEF Next, TakeTurn, Answer, GiveUp, NoActions, HitSolutionTreeLimit, HitLeafLimit,
             ApplyInPlace, Branch, Defer, Abort
    <2>2. QED
      BY <2>1, ProposesBest
  <1>2. Inv /\ Ranked /\ [Next]_vars => Ranked'
    BY StepKeepsRanks
  <1>3. QED
    BY Invariance, InitRanked, <1>1, <1>2, PTL DEF Safety, FullOffersBestFirst

(* The chain of reasons of every decision goes back in time, so that       *)
(* __get_decisions ends, and names versions only. *)
THEOREM ReasonsAlwaysGoBack == Safety => []ReasonsGoBack
  <1>1. Inv /\ Reasoned => ReasonsGoBack
    <2> SUFFICES ASSUME Inv, Reasoned, NEW ref \in DOMAIN heap, NEW f \in DOMAIN heap[ref].entries,
                        heap[ref].entries[f].by # NoReason,
                        NEW x \in ReasonElements(graph, heap[ref], heap[ref].entries[f].by,
                                                 heap[ref].entries[f].element)
                 PROVE  /\ IsVersionElement(graph, x)
                        /\ EntryOf(heap[ref], x).level < heap[ref].entries[f].level
      BY DEF ReasonsGoBack
    <2>1. IsGraph(graph) /\ IsSolution(graph, heap[ref]) /\ Backed(graph, heap[ref])
      BY DEF Inv, GoodHeap, Good, Reasoned
    <2>2. QED
      BY <2>1, BackedIsRight
  <1>2. Inv /\ Reasoned /\ [Next]_vars => Reasoned'
    BY StepKeepsReasons
  <1>3. QED
    BY Invariance, InitReasoned, <1>1, <1>2, PTL DEF Safety
=============================================================================
