-------------------------------- MODULE Loops -------------------------------
(***************************************************************************)
(* Induction over a loop.  A loop over a sequence is written with FoldLeft *)
(* (a recursive function on the subsets of the sequence's domain, which    *)
(* takes the greatest member away).  Whoever instantiates this module says  *)
(* what a round does and what holds after n rounds, and may then conclude  *)
(* that it holds at the end if the first round finds it and every round    *)
(* keeps it.                                                               *)
(***************************************************************************)
EXTENDS Integers, Sequences, Folds, WellFoundedInduction, TLAPS

CONSTANTS
  Round(_, _, _),    \* parameters of the loop, what there is, member of the sequence
  Holds(_, _, _)     \* parameters, rounds done, what there is

Greatest(S) == CHOOSE x \in S : \A y \in S : x >= y

\* FoldLeft of the round, as SequencesExt defines it.
Loop(par, base, seq) ==
  MapThenFoldSet(LAMBDA x, acc : Round(par, acc, x), base, LAMBDA i : seq[i], LAMBDA S : Greatest(S), DOMAIN seq)

IsSeq(s) == s \in Seq({s[i] : i \in DOMAIN s})

LEMMA SeqFacts ==
  ASSUME NEW s, IsSeq(s)
  PROVE  Len(s) \in Nat /\ DOMAIN s = 1 .. Len(s)
<1>1. s \in Seq({s[i] : i \in DOMAIN s})
  BY DEF IsSeq
<1>2. QED
  BY <1>1

-----------------------------------------------------------------------------
\* A set of natural numbers with 0 and with the successors of its members has
\* them all, for the rest would have a least member.
LEMMA NatSetInduction ==
  ASSUME NEW S, 0 \in S, \A n \in Nat : n \in S => n + 1 \in S
  PROVE  Nat \subseteq S
<1> SUFFICES ASSUME Nat \ S # {} PROVE FALSE
  OBVIOUS
<1> DEFINE R == OpToRel(<, Nat)
<1>1. IsWellFoundedOn(R, Nat)
  BY NatLessThanWellFounded
<1>2. \A m, n \in Nat : m < n => <<m, n>> \in R
  BY DEF OpToRel
<1> HIDE DEF R
<1>3. PICK n \in Nat \ S : \A m \in Nat \ S : <<m, n>> \notin R
  BY <1>1, WFMin
<1>4. n # 0 /\ n - 1 \in Nat /\ n - 1 < n /\ n - 1 + 1 = n
  BY <1>3
<1>5. n - 1 \in S
  BY <1>2, <1>3, <1>4
<1>6. QED
  BY <1>3, <1>4, <1>5

LEMMA GreatestFacts ==
  ASSUME NEW n \in Nat, NEW s \in SUBSET (1 .. n), s # {}
  PROVE  Greatest(s) \in s /\ \A y \in s : y <= Greatest(s)
<1> DEFINE T == {n - y : y \in s}
           R == OpToRel(<, Nat)
<1>1. \A y \in s : y \in Nat /\ n - y \in Nat
  OBVIOUS
<1>2. T \subseteq Nat /\ T # {}
  BY <1>1
<1>3. IsWellFoundedOn(R, Nat)
  BY NatLessThanWellFounded
<1>4. \A j, k \in Nat : j < k => <<j, k>> \in R
  BY DEF OpToRel
<1> HIDE DEF R
<1>5. \E k \in T : \A j \in T : <<j, k>> \notin R
  <2> HIDE DEF T
  <2>1. QED
    BY <1>2, <1>3, WFMin
<1>6. PICK x \in s : \A y \in s : <<n - y, n - x>> \notin R
  BY <1>5
<1> HIDE DEF T
<1>7. ASSUME NEW y \in s PROVE x >= y
  <2>1. ~(n - y < n - x)
    BY <1>1, <1>4, <1>6
  <2>2. QED
    BY <1>1, <2>1
<1>8. Greatest(s) \in s /\ \A y \in s : Greatest(s) >= y
  BY <1>7 DEF Greatest
<1>9. QED
  BY <1>1, <1>8

LEMMA WithoutGreatest ==
  ASSUME NEW n \in Nat, NEW s \in SUBSET (1 .. n + 1), s # {}
  PROVE  s \ {Greatest(s)} \in SUBSET (1 .. n)
<1>1. PICK m \in Nat : m = n + 1
  OBVIOUS
<1>2. Greatest(s) \in s /\ \A y \in s : y <= Greatest(s)
  BY <1>1, GreatestFacts
<1>3. ASSUME NEW y \in s, y # Greatest(s) PROVE y \in 1 .. n
  <2>1. y \in 1 .. n + 1 /\ Greatest(s) \in 1 .. n + 1 /\ y <= Greatest(s)
    BY <1>2
  <2>2. QED
    BY <1>3, <2>1
<1>4. QED
  BY <1>3

LEMMA GreatestOfInterval ==
  ASSUME NEW n \in Nat
  PROVE  Greatest(1 .. n + 1) = n + 1 /\ (1 .. n + 1) \ {n + 1} = 1 .. n /\ 1 .. n + 1 # {}
<1> DEFINE s == 1 .. n + 1
<1>1. s # {} /\ n + 1 \in s /\ n + 1 \in Nat /\ s \in SUBSET (1 .. n + 1) /\ s \ {n + 1} = 1 .. n
  OBVIOUS
<1>2. Greatest(s) \in s /\ n + 1 <= Greatest(s)
  <2> HIDE DEF s
  <2>1. QED
    BY <1>1, GreatestFacts
<1>3. Greatest(s) = n + 1
  BY <1>2
<1>4. QED
  BY <1>1, <1>3

-----------------------------------------------------------------------------
\* The function which the fold defines, on one of the sets.
Value(par, base, seq, f, s) ==
  IF s = {} THEN base ELSE Round(par, f[s \ {Greatest(s)}], seq[Greatest(s)])

LEMMA LoopIsChosen ==
  ASSUME NEW par, NEW base, NEW seq
  PROVE  Loop(par, base, seq) =
            (CHOOSE f : f = [s \in SUBSET DOMAIN seq |-> Value(par, base, seq, f, s)])[DOMAIN seq]
BY DEF Loop, MapThenFoldSet, Value

LEMMA ValuesExist ==
  ASSUME NEW par, NEW base, NEW seq, NEW m \in Nat
  PROVE  \E f : f = [s \in SUBSET (1 .. m) |-> Value(par, base, seq, f, s)]
<1> DEFINE V(f, s) == Value(par, base, seq, f, s)
           T == {n \in Nat : \E f : f = [s \in SUBSET (1 .. n) |-> V(f, s)]}
<1>1. 0 \in T
  <2> DEFINE f == [s \in SUBSET (1 .. 0) |-> base]
  <2>1. f = [s \in SUBSET (1 .. 0) |-> V(f, s)]
    BY DEF Value
  <2>2. QED
    BY <2>1
<1>2. ASSUME NEW n \in Nat, n \in T PROVE n + 1 \in T
  <2>1. PICK f : f = [s \in SUBSET (1 .. n) |-> V(f, s)]
    BY <1>2
  <2> DEFINE g == [s \in SUBSET (1 .. n + 1) |-> V(f, s)]
  <2>2. \A s \in SUBSET (1 .. n) : s \in SUBSET (1 .. n + 1)
    OBVIOUS
  <2>3. \A s \in SUBSET (1 .. n) : g[s] = f[s]
    BY <2>1, <2>2
  <2>4. ASSUME NEW s \in SUBSET (1 .. n + 1)
        PROVE  V(f, s) = V(g, s)
    <3> HIDE DEF g
    <3>1. s # {} => s \ {Greatest(s)} \in SUBSET (1 .. n)
      BY WithoutGreatest
    <3>2. QED
      BY <2>3, <3>1 DEF Value
  <2>5. \E h : h = [s \in SUBSET (1 .. n + 1) |-> V(h, s)]
    <3> DEFINE h == g
    <3>1. h = [s \in SUBSET (1 .. n + 1) |-> V(f, s)]
      OBVIOUS
    <3>2. \A s \in SUBSET (1 .. n + 1) : V(f, s) = V(h, s)
      BY <2>4
    <3> HIDE DEF h
    <3>3. h = [s \in SUBSET (1 .. n + 1) |-> V(h, s)]
      BY <3>1, <3>2
    <3>4. QED
      BY <3>3
  <2>6. QED
    BY <2>5
<1>3. Nat \subseteq T
  <2> HIDE DEF T
  <2>1. QED
    BY <1>1, <1>2, NatSetInduction
<1>4. QED
  BY <1>3

Runs(par, base, seq, acc) ==
  /\ acc[0] = base
  /\ \A i \in 1 .. Len(seq) : acc[i] = Round(par, acc[i - 1], seq[i])
  /\ Loop(par, base, seq) = acc[Len(seq)]

LEMMA LoopRuns ==
  ASSUME NEW par, NEW base, NEW seq, IsSeq(seq)
  PROVE  \E acc : Runs(par, base, seq, acc)
<1>1. Len(seq) \in Nat /\ DOMAIN seq = 1 .. Len(seq)
  BY SeqFacts
<1>2. PICK f : f = (CHOOSE h : h = [s \in SUBSET (1 .. Len(seq)) |-> Value(par, base, seq, h, s)])
  OBVIOUS
<1>3. f = [s \in SUBSET (1 .. Len(seq)) |-> Value(par, base, seq, f, s)]
  BY <1>1, <1>2, ValuesExist
<1>4. Loop(par, base, seq) = f[1 .. Len(seq)]
  BY <1>1, <1>2, LoopIsChosen
<1> DEFINE acc == [i \in 0 .. Len(seq) |-> f[1 .. i]]
<1>5. acc[0] = base
  <2>1. 1 .. 0 = {} /\ {} \in SUBSET (1 .. Len(seq)) /\ 0 \in 0 .. Len(seq)
    BY <1>1
  <2>2. f[{}] = base
    BY <1>3, <2>1 DEF Value
  <2>3. QED
    BY <2>1, <2>2
<1>6. ASSUME NEW i \in 1 .. Len(seq)
      PROVE  acc[i] = Round(par, acc[i - 1], seq[i])
  <2>1. PICK n \in Nat : n + 1 = i /\ i - 1 = n
    BY <1>1
  <2>2. i \in 0 .. Len(seq) /\ n \in 0 .. Len(seq) /\ 1 .. i \in SUBSET (1 .. Len(seq))
    BY <1>1, <2>1
  <2>3. Greatest(1 .. i) = i /\ (1 .. i) \ {i} = 1 .. n /\ 1 .. i # {}
    BY <2>1, GreatestOfInterval
  <2>4. f[1 .. i] = Round(par, f[1 .. n], seq[i])
    BY <1>3, <2>2, <2>3 DEF Value
  <2>5. QED
    BY <2>1, <2>2, <2>4
<1>7. acc[Len(seq)] = f[1 .. Len(seq)]
  BY <1>1
<1> HIDE DEF acc
<1>8. Runs(par, base, seq, acc)
  BY <1>4, <1>5, <1>6, <1>7 DEF Runs
<1>9. QED
  BY <1>8

-----------------------------------------------------------------------------
\* What holds before the first round and is kept by every round holds at the end.
LEMMA LoopInduction ==
  \A par, base, seq :
    /\ IsSeq(seq)
    /\ Holds(par, 0, base)
    /\ \A i \in 1 .. Len(seq) : \A acc :
          Holds(par, i - 1, acc) => Holds(par, i, Round(par, acc, seq[i]))
    => Holds(par, Len(seq), Loop(par, base, seq))
<1> SUFFICES ASSUME NEW par, NEW base, NEW seq, IsSeq(seq), Holds(par, 0, base),
                    \A i \in 1 .. Len(seq) : \A acc :
                        Holds(par, i - 1, acc) => Holds(par, i, Round(par, acc, seq[i]))
             PROVE  Holds(par, Len(seq), Loop(par, base, seq))
  OBVIOUS
<1>0. PICK acc : Runs(par, base, seq, acc)
  BY LoopRuns
<1>1. /\ acc[0] = base
      /\ \A i \in 1 .. Len(seq) : acc[i] = Round(par, acc[i - 1], seq[i])
      /\ Loop(par, base, seq) = acc[Len(seq)]
  BY <1>0 DEF Runs
<1>2. Len(seq) \in Nat
  BY SeqFacts
<1> DEFINE T == {n \in Nat : n <= Len(seq) => Holds(par, n, acc[n])}
<1>3. 0 \in T
  BY <1>1
<1>4. ASSUME NEW n \in Nat, n \in T PROVE n + 1 \in T
  <2>1. CASE n + 1 <= Len(seq)
    <3>1. PICK i \in 1 .. Len(seq) : i = n + 1 /\ i - 1 = n
      BY <1>2, <2>1
    <3>2. Holds(par, i - 1, acc[i - 1])
      BY <1>4, <2>1, <3>1
    <3>3. Holds(par, i, acc[i])
      BY <1>1, <3>2
    <3>4. QED
      BY <3>1, <3>3
  <2>2. CASE ~(n + 1 <= Len(seq))
    BY <2>2
  <2>3. QED
    BY <2>1, <2>2
<1>5. Nat \subseteq T
  <2> HIDE DEF T
  <2>1. QED
    BY <1>3, <1>4, NatSetInduction
<1>6. QED
  BY <1>1, <1>2, <1>5
=============================================================================
