------------------------------ MODULE MCCowMap ------------------------------
EXTENDS CowMap, TLC
CONSTANTS installed, removed
Symmetry == Permutations(Map)
SomeInitial == [k \in Key |-> IF k = CHOOSE x \in Key : TRUE THEN installed ELSE Absent]
=============================================================================
