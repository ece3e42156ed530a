---------------------------- MODULE CowMapProofs ----------------------------
(***************************************************************************)
(* The copy-on-write maps implement plain ones, for every number of maps,  *)
(* every finite set of keys and all data.  The invariant this needs: a     *)
(* vector which somebody has for a master belongs to a map which was       *)
(* copied, and is therefore not changed any more; and a map which was not  *)
(* made yet is empty.                                                      *)
(***************************************************************************)
EXTENDS CowMap, FiniteSetTheorems, TLAPS

MasterIsOriginal == \A m \in Map : master[m] # NoMap => master[m] \in originals
FreshIsEmpty == \A m \in Map \ created : added[m] = Nothing /\ master[m] = NoMap
CowInv == CowTypeOK /\ MasterIsOriginal /\ FreshIsEmpty

\* The size of a vector is a number.
LEMMA SizeIsNat == ASSUME NEW entries PROVE Size(entries) \in Nat
<1>1. IsFiniteSet(Key) BY CowMapAssumption
<1>2. {k \in Key : entries[k] # Absent} \subseteq Key OBVIOUS
<1>3. IsFiniteSet({k \in Key : entries[k] # Absent}) BY <1>1, <1>2, FS_Subset
<1> QED BY <1>3, FS_CardinalityType DEF Size

\* Over is a function of entries.
LEMMA OverType ==
  ASSUME NEW new \in [Key -> Entry], NEW old \in [Key -> Entry]
  PROVE  Over(new, old) \in [Key -> Entry]
BY DEF Over

LEMMA MasterEntriesType ==
  ASSUME CowTypeOK, NEW m \in Map PROVE MasterEntries(m) \in [Key -> Entry]
BY DEF CowTypeOK, MasterEntries, Nothing, Entry

\* The invariant holds initially.
LEMMA CowInvInit == Init => CowInv
BY CowMapAssumption
   DEF Init, CowInv, CowTypeOK, MasterIsOriginal, FreshIsEmpty, Nothing, Entry

\* ... and a change of a map keeps it,
LEMMA CowInvAdd ==
  ASSUME CowInv, NEW m \in Map, NEW k \in Key, NEW d \in Data, Add(m, k, d)
  PROVE  CowInv'
<1>1. CowTypeOK' BY DEF CowInv, CowTypeOK, Add, Entry
<1>2. MasterIsOriginal' BY DEF CowInv, MasterIsOriginal, Add
<1>3. FreshIsEmpty' BY DEF CowInv, CowTypeOK, FreshIsEmpty, Add
<1> QED BY <1>1, <1>2, <1>3 DEF CowInv

\* ... and so does a copy.
LEMMA CowInvAssign ==
  ASSUME CowInv, NEW m \in Map, NEW parent \in Map, Assign(m, parent)
  PROVE  CowInv'
<1> USE DEF CowInv, NewMap
<1>1. CASE AssignMaster(m, parent)
  <2>1. CowTypeOK' BY <1>1 DEF AssignMaster, CowTypeOK
  <2>2. MasterIsOriginal' BY <1>1 DEF AssignMaster, CowTypeOK, MasterIsOriginal
  <2>3. FreshIsEmpty' BY <1>1 DEF AssignMaster, CowTypeOK, FreshIsEmpty
  <2> QED BY <2>1, <2>2, <2>3
<1>2. CASE AssignSlave(m, parent)
  <2>0. Size(added[parent]) \in Nat BY SizeIsNat
  <2>1. CowTypeOK' BY <1>2, <2>0 DEF AssignSlave, CowTypeOK, Forks
  <2>2. MasterIsOriginal' BY <1>2 DEF AssignSlave, CowTypeOK, MasterIsOriginal
  <2>3. FreshIsEmpty' BY <1>2 DEF AssignSlave, CowTypeOK, FreshIsEmpty
  <2> QED BY <2>1, <2>2, <2>3
<1>3. CASE AssignMerged(m, parent)
  <2>0. Over(added[parent], MasterEntries(parent)) \in [Key -> Entry]
    BY OverType, MasterEntriesType DEF CowTypeOK
  <2>1. CowTypeOK' BY <1>3, <2>0 DEF AssignMerged, CowTypeOK, ForksReset
  <2>2. MasterIsOriginal' BY <1>3 DEF AssignMerged, CowTypeOK, MasterIsOriginal
  <2>3. FreshIsEmpty' BY <1>3 DEF AssignMerged, CowTypeOK, FreshIsEmpty
  <2> QED BY <2>1, <2>2, <2>3
<1> QED BY <1>1, <1>2, <1>3 DEF Assign

LEMMA CowInvNext == CowInv /\ [Next]_vars => CowInv'
<1> SUFFICES ASSUME CowInv, [Next]_vars PROVE CowInv'
  OBVIOUS
<1>1. ASSUME NEW m \in Map, NEW k \in Key, NEW d \in Data, Add(m, k, d) PROVE CowInv'
  BY <1>1, CowInvAdd
<1>2. ASSUME NEW m \in Map, NEW k \in Key, Remove(m, k) PROVE CowInv'
  BY <1>2, CowInvAdd, CowMapAssumption DEF Remove
<1>3. ASSUME NEW m \in Map, NEW parent \in Map, Assign(m, parent) PROVE CowInv'
  BY <1>3, CowInvAssign
<1>4. CASE UNCHANGED vars
  BY <1>4 DEF vars, CowInv, CowTypeOK, MasterIsOriginal, FreshIsEmpty, Nothing
<1> QED BY <1>1, <1>2, <1>3, <1>4 DEF Next

\* Types are kept.
LEMMA CowTypesHold == Spec => []CowTypeOK
<1>1. CowInv => CowTypeOK BY DEF CowInv
<1> QED BY <1>1, CowInvInit, CowInvNext, PTL DEF Spec

-----------------------------------------------------------------------------
(* The refinement *)

\* A map which was just made is an initial one (CowMap::setInitialMap).
LEMMA InitIsPlain == Init => Plain!PlainInit
<1> SUFFICES ASSUME Init PROVE Plain!PlainInit
  OBVIOUS
<1>1. PICK m \in Map : created = {m} BY DEF Init
<1>2. added[m] = Nothing /\ MasterEntries(m) = Nothing
  BY DEF Init, MasterEntries
<1>3. ASSUME NEW k \in Key PROVE Get(m, k) = Initial[k]
  BY <1>2 DEF Get, Nothing
<1>4. [k \in Key |-> Get(m, k)] = Initial
  BY <1>3, CowMapAssumption
<1>5. Modified(m) = {} BY <1>2 DEF Modified, Over, Nothing
<1>6. contentsOf = [x \in {m} |-> Initial] BY <1>1, <1>4 DEF contentsOf
<1>7. modifiedOf = [x \in {m} |-> {}] BY <1>1, <1>5 DEF modifiedOf
<1>8. originals = {} BY DEF Init
<1> QED BY <1>6, <1>7, <1>8 DEF Plain!PlainInit

\* A vector which nobody changes looks the same from everywhere.
LEMMA SameVectorsSameMap ==
  ASSUME NEW x, added'[x] = added[x], MasterEntries(x)' = MasterEntries(x)
  PROVE  /\ \A k \in Key : Get(x, k)' = Get(x, k)
         /\ Modified(x)' = Modified(x)
<1>1. \A k \in Key : Get(x, k)' = Get(x, k) BY DEF Get
<1>2. Modified(x)' = Modified(x) BY DEF Modified, Over
<1> QED BY <1>1, <1>2

\* A change of a map is a change of the plain one.
LEMMA AddIsPlain ==
  ASSUME CowInv, NEW m \in Map, NEW k \in Key, NEW d \in Data, Add(m, k, d)
  PROVE  Plain!PlainSet(m, k, d)
<1> USE DEF CowInv
<1>1. m \in created /\ m \notin originals /\ created' = created BY DEF Add
<1>2. d # Absent BY CowMapAssumption
<1>3. added'[m] = [added[m] EXCEPT ![k] = d] BY DEF Add, CowTypeOK
<1>4. MasterEntries(m)' = MasterEntries(m)
  BY <1>1 DEF Add, CowTypeOK, MasterIsOriginal, MasterEntries
<1>5. ASSUME NEW x \in created, x # m
      PROVE  added'[x] = added[x] /\ MasterEntries(x)' = MasterEntries(x)
  BY <1>1, <1>5 DEF Add, CowTypeOK, MasterIsOriginal, MasterEntries
<1>6. [j \in Key |-> Get(m, j)'] = [[j \in Key |-> Get(m, j)] EXCEPT ![k] = d]
  <2>1. ASSUME NEW j \in Key, j # k PROVE Get(m, j)' = Get(m, j)
    <3>1. added'[m][j] = added[m][j] BY <1>3, <2>1 DEF CowTypeOK
    <3> QED BY <3>1, <1>4 DEF Get
  <2>2. Get(m, k)' = d
    <3>1. added'[m][k] = d BY <1>3 DEF CowTypeOK
    <3> QED BY <3>1, <1>2 DEF Get
  <2> QED BY <2>1, <2>2
<1>7. Modified(m)' = Modified(m) \cup {k}
  <2>1. added[m] \in [Key -> Entry] BY DEF CowTypeOK
  <2> QED BY <2>1, <1>2, <1>3, <1>4 DEF Modified, Over
<1>8. contentsOf' = [contentsOf EXCEPT ![m] = [@ EXCEPT ![k] = d]]
  <2>1. ASSUME NEW x \in created, x # m
        PROVE  [j \in Key |-> Get(x, j)'] = [j \in Key |-> Get(x, j)]
    <3>1. added'[x] = added[x] /\ MasterEntries(x)' = MasterEntries(x) BY <1>5, <2>1
    <3> QED BY <3>1, SameVectorsSameMap
  <2>2. contentsOf' = [x \in created |-> [j \in Key |-> Get(x, j)']]
    BY <1>1 DEF contentsOf
  <2> QED BY <1>1, <1>6, <2>1, <2>2 DEF contentsOf
<1>9. modifiedOf' = [modifiedOf EXCEPT ![m] = @ \cup {k}]
  <2>1. ASSUME NEW x \in created, x # m PROVE Modified(x)' = Modified(x)
    BY <1>5, <2>1, SameVectorsSameMap
  <2>2. modifiedOf' = [x \in created |-> Modified(x)'] BY <1>1 DEF modifiedOf
  <2> QED BY <1>1, <1>7, <2>1, <2>2 DEF modifiedOf
<1>10. DOMAIN contentsOf = created BY DEF contentsOf
<1>11. UNCHANGED originals BY DEF Add
<1> QED BY <1>1, <1>8, <1>9, <1>10, <1>11 DEF Plain!PlainSet

\* A copy has what its parent has, whichever of the three ways makes it.
LEMMA CopyIsEqual ==
  ASSUME CowInv, NEW m \in Map, NEW parent \in Map, Assign(m, parent)
  PROVE  /\ \A k \in Key : Get(m, k)' = Get(parent, k)
         /\ Modified(m)' = Modified(parent)
<1> USE DEF CowInv, NewMap
<1>1. CASE AssignMaster(m, parent)
  <2>1. added'[m] = Nothing /\ MasterEntries(m)' = added[parent]
    BY <1>1, CowMapAssumption DEF AssignMaster, CowTypeOK, FreshIsEmpty, MasterEntries
  <2>2. MasterEntries(parent) = Nothing BY <1>1 DEF AssignMaster, MasterEntries
  <2> QED BY <2>1, <2>2 DEF Get, Modified, Over, Nothing
<1>2. CASE AssignSlave(m, parent)
  <2>1. added'[m] = added[parent] BY <1>2 DEF AssignSlave, CowTypeOK
  <2>2. master[parent] \in created /\ master[parent] # m
    BY <1>2 DEF AssignSlave, CowTypeOK, MasterIsOriginal
  <2>3. MasterEntries(m)' = MasterEntries(parent)
    BY <1>2, <2>2, CowMapAssumption DEF AssignSlave, CowTypeOK, MasterEntries
  <2> QED BY <2>1, <2>3 DEF Get, Modified, Over
<1>3. CASE AssignMerged(m, parent)
  <2>1. added'[m] = Over(added[parent], MasterEntries(parent))
    BY <1>3 DEF AssignMerged, CowTypeOK
  <2>2. MasterEntries(m)' = Nothing
    BY <1>3 DEF AssignMerged, CowTypeOK, FreshIsEmpty, MasterEntries
  <2> QED BY <2>1, <2>2 DEF Get, Modified, Over, Nothing
<1> QED BY <1>1, <1>2, <1>3 DEF Assign

\* A copy touches no vector of the maps that exist already.
LEMMA CopyIsHarmless ==
  ASSUME CowInv, NEW m \in Map, NEW parent \in Map, Assign(m, parent),
         NEW x \in created
  PROVE  added'[x] = added[x] /\ MasterEntries(x)' = MasterEntries(x)
<1>1. x # m /\ master[x] # m
  BY CowMapAssumption DEF CowInv, CowTypeOK, MasterIsOriginal, Assign, AssignMaster, AssignSlave,
         AssignMerged, NewMap
<1>2. x \in Map BY DEF CowInv, CowTypeOK
<1>3. added'[x] = added[x] /\ master'[x] = master[x]
  BY <1>1, <1>2 DEF CowInv, CowTypeOK, Assign, AssignMaster, AssignSlave, AssignMerged, NewMap
<1>4. master[x] # NoMap => added'[master[x]] = added[master[x]]
  BY <1>1, <1>2 DEF CowInv, CowTypeOK, Assign, AssignMaster, AssignSlave, AssignMerged, NewMap
<1> QED BY <1>3, <1>4 DEF MasterEntries

LEMMA AssignIsPlain ==
  ASSUME CowInv, NEW m \in Map, NEW parent \in Map, Assign(m, parent)
  PROVE  Plain!PlainCopy(m, parent)
<1>1. /\ parent \in created /\ m \notin created
      /\ created' = created \cup {m}
      /\ originals' = originals \cup {parent}
  BY DEF Assign, AssignMaster, AssignSlave, AssignMerged, NewMap
<1>2. ASSUME NEW x \in created
      PROVE  [k \in Key |-> Get(x, k)'] = [k \in Key |-> Get(x, k)]
             /\ Modified(x)' = Modified(x)
  <2>1. added'[x] = added[x] /\ MasterEntries(x)' = MasterEntries(x) BY CopyIsHarmless
  <2> QED BY <2>1, SameVectorsSameMap
<1>3. [k \in Key |-> Get(m, k)'] = [k \in Key |-> Get(parent, k)]
      /\ Modified(m)' = Modified(parent)
  BY CopyIsEqual
<1>4. contentsOf' = [x \in created \cup {m} |-> [k \in Key |-> Get(x, k)']]
      /\ modifiedOf' = [x \in created \cup {m} |-> Modified(x)']
  BY <1>1 DEF contentsOf, modifiedOf
<1>5. contentsOf' = [x \in created \cup {m} |->
                       IF x = m THEN contentsOf[parent] ELSE contentsOf[x]]
  BY <1>1, <1>2, <1>3, <1>4 DEF contentsOf
<1>6. modifiedOf' = [x \in created \cup {m} |->
                       IF x = m THEN modifiedOf[parent] ELSE modifiedOf[x]]
  BY <1>1, <1>2, <1>3, <1>4 DEF modifiedOf
<1>7. DOMAIN contentsOf = created BY DEF contentsOf
<1> QED BY <1>1, <1>5, <1>6, <1>7 DEF Plain!PlainCopy

LEMMA NextIsPlain ==
  CowInv /\ [Next]_vars => [Plain!PlainNext]_(Plain!plainVars)
<1> SUFFICES ASSUME CowInv, [Next]_vars
             PROVE  Plain!PlainNext \/ UNCHANGED Plain!plainVars
  OBVIOUS
<1>1. ASSUME NEW m \in Map, NEW k \in Key, NEW d \in Data, Add(m, k, d)
      PROVE  Plain!PlainNext
  BY <1>1, AddIsPlain DEF Plain!PlainNext
<1>2. ASSUME NEW m \in Map, NEW k \in Key, Remove(m, k) PROVE Plain!PlainNext
  BY <1>2, AddIsPlain, CowMapAssumption DEF Remove, Plain!PlainNext
<1>3. ASSUME NEW m \in Map, NEW parent \in Map, Assign(m, parent) PROVE Plain!PlainNext
  BY <1>3, AssignIsPlain DEF Plain!PlainNext
<1>4. CASE UNCHANGED vars
  BY <1>4 DEF vars, Plain!plainVars, contentsOf, modifiedOf, Get, Modified, Over, MasterEntries
<1> QED BY <1>1, <1>2, <1>3, <1>4 DEF Next

\* Solutions which share vectors behave as if each had maps of its own
\* (CowMap::operator=, get, foreachModifiedEntry).
THEOREM CowMapsImplementPlainMaps == Spec => ActLikePlainMaps
<1>1. Init => Plain!PlainInit BY InitIsPlain
<1>2. CowInv /\ [Next]_vars => [Plain!PlainNext]_(Plain!plainVars) BY NextIsPlain
<1> QED BY <1>1, <1>2, CowInvInit, CowInvNext, PTL DEF Spec, ActLikePlainMaps, Plain!PlainSpec
=============================================================================
