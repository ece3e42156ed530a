------------------------------ MODULE CowMap --------------------------------
(***************************************************************************)
(* The copy-on-write maps of the resolver's solutions (nativeresolver/     *)
(* cowmap.tpp over the sorted vectors of solution.cpp).  A map has entries *)
(* of its own (p_added) over shared ones (p_master) over the initial ones. *)
(* A vector is named by the map which was made with it: that of another    *)
(* map may become the master.  Vectors live as long as somebody points to  *)
(* them, so that maps are never destroyed here.                            *)
(***************************************************************************)
EXTENDS Naturals, FiniteSets

CONSTANTS
  Map, Key, Data,
  Removed,       \* the default value, which remove() writes
  Absent, NoMap, \* no entry; no master
  Initial        \* the initial map: [Key -> Data \cup {Absent}]

ASSUME CowMapAssumption ==
  /\ Absent \notin Data
  /\ NoMap \notin Map
  /\ Removed \in Data
  /\ Initial \in [Key -> Data \cup {Absent}]
  /\ IsFiniteSet(Key)

VARIABLES
  created,       \* maps made so far
  originals,     \* those which were assigned to another one
  added,         \* p_added: map -> the entries in its vector
  master,        \* p_master: map -> whose vector
  forkedCount    \* of the vector
vars == <<created, originals, added, master, forkedCount>>

Entry == Data \cup {Absent}
Nothing == [k \in Key |-> Absent]

CowTypeOK ==
  /\ created \subseteq Map
  /\ originals \subseteq created
  /\ added \in [Map -> [Key -> Entry]]
  /\ master \in [Map -> Map \cup {NoMap}]
  /\ forkedCount \in [Map -> Nat]

\* The maps of the initial solution: setInitialMap.
Init ==
  /\ \E m \in Map : created = {m}
  /\ originals = {}
  /\ added = [m \in Map |-> Nothing]
  /\ master = [m \in Map |-> NoMap]
  /\ forkedCount = [m \in Map |-> 0]

\* The vector below: nullMap when there is no master.
MasterEntries(m) == IF master[m] = NoMap THEN Nothing ELSE added[master[m]]

\* cowMapForeach: the first entries win.
OldWins(new, old) == [k \in Key |-> IF old[k] # Absent THEN old[k] ELSE new[k]]
Over(new, old) == [k \in Key |-> IF new[k] # Absent THEN new[k] ELSE old[k]]

Size(entries) == Cardinality({k \in Key : entries[k] # Absent})

Get(m, k) ==
  IF added[m][k] # Absent THEN added[m][k]
  ELSE IF MasterEntries(m)[k] # Absent THEN MasterEntries(m)[k]
  ELSE Initial[k]

\* foreachModifiedEntry
Modified(m) == {k \in Key : Over(added[m], MasterEntries(m))[k] # Absent}

\* A map which was copied is not changed any more.
Add(m, k, d) ==
  /\ m \in created \ originals
  /\ added' = [added EXCEPT ![m] = [@ EXCEPT ![k] = d]]
  /\ UNCHANGED <<created, originals, master, forkedCount>>

Remove(m, k) == Add(m, k, Removed)

NewMap(m, parent) ==
  /\ parent \in created
  /\ m \in Map \ created
  /\ created' = created \cup {m}
  /\ originals' = originals \cup {parent}

\* "parent is a master mix, build a slave on top of it"
AssignMaster(m, parent) ==
  /\ master[parent] = NoMap
  /\ NewMap(m, parent)
  /\ master' = [master EXCEPT ![m] = parent]
  /\ UNCHANGED <<added, forkedCount>>

Forks(parent) == forkedCount[master[parent]] + Size(added[parent])
Overdiverted(parent) == Forks(parent) > Size(MasterEntries(parent))

\* "build new slave mix from current"
AssignSlave(m, parent) ==
  /\ master[parent] # NoMap
  /\ ~Overdiverted(parent)
  /\ NewMap(m, parent)
  /\ master' = [master EXCEPT ![m] = master[parent]]
  /\ added' = [added EXCEPT ![m] = added[parent]]
  /\ forkedCount' = [forkedCount EXCEPT ![master[parent]] = Forks(parent)]

ForksReset(parent) == [forkedCount EXCEPT ![master[parent]] = 0]

\* "parent mix is overdiverted, build new master one"
AssignMerged(m, parent) ==
  /\ master[parent] # NoMap
  /\ Overdiverted(parent)
  /\ NewMap(m, parent)
  /\ added' = [added EXCEPT ![m] = Over(added[parent], MasterEntries(parent))]
  /\ forkedCount' = ForksReset(parent)
  /\ UNCHANGED master

Assign(m, parent) ==
  AssignMaster(m, parent) \/ AssignSlave(m, parent) \/ AssignMerged(m, parent)

Next ==
  \/ \E m \in Map, k \in Key, d \in Data : Add(m, k, d)
  \/ \E m \in Map, k \in Key : Remove(m, k)
  \/ \E m, parent \in Map : Assign(m, parent)

Spec == Init /\ [][Next]_vars

-----------------------------------------------------------------------------
(* Properties *)

contentsOf == [m \in created |-> [k \in Key |-> Get(m, k)]]
modifiedOf == [m \in created |-> Modified(m)]

Plain == INSTANCE PlainMaps WITH
  contents <- contentsOf, modified <- modifiedOf

\* The maps behave as if every solution had one of its own (CowMap::operator=
\* shares vectors between a solution and its descendants): no change is seen in
\* another solution, none is lost when a master is replaced.
ActLikePlainMaps == Plain!PlainSpec
=============================================================================
