----------------------------- MODULE PlainMaps ------------------------------
(***************************************************************************)
(* What the resolver takes the maps of its solutions for: every solution   *)
(* has maps of its own; a copy has what the original had when it was made, *)
(* and a change of one map is seen in no other one.  An original is not    *)
(* changed any more (ParentsAreFrozen in ResolverSolution).                *)
(***************************************************************************)
CONSTANTS
  Map, Key, Data,
  Absent,        \* what a map has for a key without an entry
  Initial        \* the entries of the installed system: [Key -> Data \cup {Absent}]

VARIABLES
  contents,      \* [map -> [key -> entry]] of the maps that exist
  modified,      \* [map -> set of keys] which are not just those of Initial
  originals      \* maps that were copied
plainVars == <<contents, modified, originals>>

PlainInit ==
  \E m \in Map :
    /\ contents = [x \in {m} |-> Initial]
    /\ modified = [x \in {m} |-> {}]
    /\ originals = {}

PlainSet(m, k, d) ==
  /\ m \in DOMAIN contents \ originals
  /\ contents' = [contents EXCEPT ![m] = [@ EXCEPT ![k] = d]]
  /\ modified' = [modified EXCEPT ![m] = @ \cup {k}]
  /\ UNCHANGED originals

PlainCopy(m, parent) ==
  /\ parent \in DOMAIN contents
  /\ m \notin DOMAIN contents
  /\ contents' = [x \in DOMAIN contents \cup {m} |->
                    IF x = m THEN contents[parent] ELSE contents[x]]
  /\ modified' = [x \in DOMAIN contents \cup {m} |->
                    IF x = m THEN modified[parent] ELSE modified[x]]
  /\ originals' = originals \cup {parent}

PlainNext ==
  \/ \E m \in Map, k \in Key, d \in Data : PlainSet(m, k, d)
  \/ \E m, parent \in Map : PlainCopy(m, parent)

PlainSpec == PlainInit /\ [][PlainNext]_plainVars
=============================================================================
