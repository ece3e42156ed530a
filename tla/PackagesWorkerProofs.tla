------------------------ MODULE PackagesWorkerProofs ------------------------
(***************************************************************************)
(* For every system, any relations and any number of runs, wherever they   *)
(* break off: a run which ends well has done all that was asked for, the   *)
(* archives stay within the limit, and no package that is installed for    *)
(* the sake of others is there without its mark.                           *)
(***************************************************************************)
EXTENDS PackagesWorker, FiniteSetTheorems, SequenceTheorems, WellFoundedInduction, NaturalsInduction, TLAPS

-----------------------------------------------------------------------------
(***************************************************************************)
(* Induction.  A set of natural numbers with 0 and with the successors of  *)
(* its members has them all, for the rest would have a least member.       *)
(***************************************************************************)
LEMMA NatSetInduction ==
  ASSUME NEW S, 0 \in S, \A n \in Nat : n \in S => n + 1 \in S
  PROVE  Nat \subseteq S
<1> SUFFICES ASSUME Nat \ S # {} PROVE FALSE
  OBVIOUS
<1>1. IsWellFoundedOn(OpToRel(<, Nat), Nat)
  BY NatLessThanWellFounded
<1> DEFINE R == OpToRel(<, Nat)
<1>2. \A m, n \in Nat : m < n => <<m, n>> \in R
  BY DEF OpToRel
<1> HIDE DEF R
<1>3. IsWellFoundedOn(R, Nat)
  BY <1>1 DEF R
<1>4. PICK n \in Nat \ S : \A m \in Nat \ S : <<m, n>> \notin R
  BY <1>3, WFMin
<1>5. n \in Nat /\ n # 0 /\ n - 1 \in Nat /\ n - 1 < n /\ n - 1 + 1 = n
  OBVIOUS
<1>6. n - 1 \in S
  BY <1>2, <1>4, <1>5
<1>7. QED
  BY <1>4, <1>5, <1>6

-----------------------------------------------------------------------------
(***************************************************************************)
(* Sequences of elements whose type does not matter.                       *)
(***************************************************************************)
IsSeq(s) == s \in Seq({s[i] : i \in DOMAIN s})

LEMMA SeqIsSeq ==
  ASSUME NEW S, NEW s \in Seq(S)
  PROVE  IsSeq(s)
<1>1. s \in [1 .. Len(s) -> {s[i] : i \in DOMAIN s}] /\ Len(s) \in Nat
  BY LenProperties
<1>2. QED
  BY <1>1 DEF IsSeq

LEMMA SeqFacts ==
  ASSUME NEW s, IsSeq(s)
  PROVE  /\ Len(s) \in Nat
         /\ DOMAIN s = 1 .. Len(s)
         /\ s = <<>> <=> Len(s) = 0
<1>1. s \in Seq({s[i] : i \in DOMAIN s})
  BY DEF IsSeq
<1>2. QED
  BY <1>1, LenProperties, EmptySeq

LEMMA AppendFacts ==
  ASSUME NEW s, IsSeq(s), NEW x
  PROVE  /\ IsSeq(Append(s, x))
         /\ Len(Append(s, x)) = Len(s) + 1
         /\ \A i \in 1 .. Len(s) : Append(s, x)[i] = s[i]
         /\ Append(s, x)[Len(s) + 1] = x
<1> DEFINE T == {s[i] : i \in DOMAIN s} \cup {x}
<1>1. s \in Seq(T)
  BY SeqMonotonic DEF IsSeq
<1>2. x \in T
  OBVIOUS
<1> HIDE DEF T
<1>3. /\ Append(s, x) \in Seq(T)
      /\ Len(Append(s, x)) = Len(s) + 1
      /\ \A i \in 1 .. Len(s) : Append(s, x)[i] = s[i]
      /\ Append(s, x)[Len(s) + 1] = x
  BY <1>1, <1>2, AppendProperties
<1>4. QED
  BY <1>3, SeqIsSeq

LEMMA TailFacts ==
  ASSUME NEW s, IsSeq(s), s # <<>>
  PROVE  /\ IsSeq(Tail(s))
         /\ Len(Tail(s)) = Len(s) - 1
         /\ \A i \in 1 .. Len(s) - 1 : Tail(s)[i] = s[i + 1]
         /\ Head(s) = s[1]
         /\ Len(s) \in Nat \ {0}
<1> DEFINE T == {s[i] : i \in DOMAIN s}
<1>1. s \in Seq(T)
  BY DEF IsSeq
<1> HIDE DEF T
<1>2. /\ Tail(s) \in Seq(T)
      /\ Len(Tail(s)) = Len(s) - 1
      /\ \A i \in 1 .. Len(Tail(s)) : Tail(s)[i] = s[i + 1]
  BY <1>1, HeadTailProperties
<1>3. Len(s) \in Nat \ {0}
  BY <1>1, EmptySeq
<1>4. Head(s) = s[1]
  BY <1>1
<1>5. QED
  BY <1>2, <1>3, <1>4, SeqIsSeq

LEMMA ConcatFacts ==
  ASSUME NEW s, NEW t, IsSeq(s), IsSeq(t)
  PROVE  /\ IsSeq(s \o t)
         /\ Len(s \o t) = Len(s) + Len(t)
         /\ \A i \in 1 .. Len(s) : (s \o t)[i] = s[i]
         /\ \A i \in 1 .. Len(t) : (s \o t)[Len(s) + i] = t[i]
         /\ \A i \in 1 .. Len(s) + Len(t) : (s \o t)[i] = IF i <= Len(s) THEN s[i] ELSE t[i - Len(s)]
<1> DEFINE T == {s[i] : i \in DOMAIN s} \cup {t[i] : i \in DOMAIN t}
<1>1. s \in Seq(T) /\ t \in Seq(T)
  BY SeqMonotonic DEF IsSeq
<1> HIDE DEF T
<1>2. /\ s \o t \in Seq(T)
      /\ Len(s \o t) = Len(s) + Len(t)
      /\ \A i \in 1 .. Len(s) + Len(t) : (s \o t)[i] = IF i <= Len(s) THEN s[i] ELSE t[i - Len(s)]
  BY <1>1, ConcatProperties
<1>3. Len(s) \in Nat /\ Len(t) \in Nat
  BY SeqFacts
<1>4. \A i \in 1 .. Len(s) : (s \o t)[i] = s[i]
  BY <1>2, <1>3
<1>5. ASSUME NEW i \in 1 .. Len(t)
      PROVE  (s \o t)[Len(s) + i] = t[i]
  <2>1. Len(s) + i \in 1 .. Len(s) + Len(t) /\ ~(Len(s) + i <= Len(s)) /\ Len(s) + i - Len(s) = i
    BY <1>3
  <2>2. QED
    BY <1>2, <2>1
<1>6. QED
  BY <1>2, <1>4, <1>5, SeqIsSeq

\* Append(Front(s), x) replaces the last element.
LEMMA FrontFacts ==
  ASSUME NEW s, IsSeq(s), s # <<>>, NEW x
  PROVE  /\ IsSeq(Append(Front(s), x))
         /\ Len(Append(Front(s), x)) = Len(s)
         /\ \A i \in 1 .. Len(s) - 1 : Append(Front(s), x)[i] = s[i]
         /\ Append(Front(s), x)[Len(s)] = x
<1>1. Len(s) \in Nat \ {0} /\ DOMAIN s = 1 .. Len(s)
  BY SeqFacts
<1> DEFINE T == {s[i] : i \in DOMAIN s}
<1>2. Front(s) = SubSeq(s, 1, Len(s) - 1)
  BY DEF Front
<1>3. \A i \in 1 .. Len(s) - 1 : s[i] \in T
  BY <1>1
<1> HIDE DEF T
<1>4. Len(s) - 1 \in Int
  BY <1>1
<1>5. /\ SubSeq(s, 1, Len(s) - 1) \in Seq(T)
      /\ Len(SubSeq(s, 1, Len(s) - 1)) = Len(s) - 1
      /\ \A i \in 1 .. Len(s) - 1 : SubSeq(s, 1, Len(s) - 1)[i] = s[i]
  <2>1. /\ SubSeq(s, 1, Len(s) - 1) \in Seq(T)
        /\ Len(SubSeq(s, 1, Len(s) - 1)) = IF 1 <= Len(s) - 1 THEN Len(s) - 1 - 1 + 1 ELSE 0
        /\ \A i \in 1 .. Len(s) - 1 - 1 + 1 : SubSeq(s, 1, Len(s) - 1)[i] = s[1 + i - 1]
    BY <1>3, <1>4, SubSeqProperties
  <2>2. QED
    BY <1>1, <2>1
<1> DEFINE f == Front(s)
<1>6. IsSeq(f) /\ Len(f) = Len(s) - 1 /\ \A i \in 1 .. Len(s) - 1 : f[i] = s[i]
  BY <1>2, <1>5, SeqIsSeq
<1> HIDE DEF f
<1>7. /\ IsSeq(Append(f, x))
      /\ Len(Append(f, x)) = Len(f) + 1
      /\ \A i \in 1 .. Len(f) : Append(f, x)[i] = f[i]
      /\ Append(f, x)[Len(f) + 1] = x
  BY <1>6, AppendFacts
<1>8. QED
  BY <1>1, <1>6, <1>7 DEF f
-----------------------------------------------------------------------------
(***************************************************************************)
(* Sums.  MapThenSumSet is a recursive function on the subsets of its      *)
(* argument; such functions exist and agree, so that the order in which    *)
(* the elements are taken does not matter.                                 *)
(***************************************************************************)
Some(s) == CHOOSE x \in s : TRUE
Sum(w, set) == MapThenSumSet(LAMBDA p : w[p], set)
SumStep(w, f, s) == IF s = {} THEN 0 ELSE w[Some(s)] + f[s \ {Some(s)}]
IsSum(f, w, set) == f = [s \in SUBSET set |-> SumStep(w, f, s)]

LEMMA SomeIsMember == \A s : s # {} => Some(s) \in s
BY DEF Some

LEMMA SumIsChosen ==
  ASSUME NEW w, NEW set
  PROVE  Sum(w, set) = (CHOOSE f : IsSum(f, w, set))[set]
BY DEF Sum, MapThenSumSet, MapThenFoldSet, IsSum, SumStep, Some

LEMMA SmallerSet ==
  ASSUME NEW P, IsFiniteSet(P), NEW s \in SUBSET P, NEW x \in s
  PROVE  /\ Cardinality(s) \in Nat \ {0}
         /\ s \ {x} \in SUBSET P
         /\ Cardinality(s \ {x}) = Cardinality(s) - 1
<1>1. IsFiniteSet(s)
  BY FS_Subset
<1>2. Cardinality(s) \in Nat /\ (Cardinality(s) = 0 <=> s = {})
  BY <1>1, FS_CardinalityType, FS_EmptySet
<1>3. Cardinality(s \ {x}) = Cardinality(s) - 1
  BY <1>1, FS_RemoveElement
<1>4. QED
  BY <1>2, <1>3

LEMMA SumExists ==
  ASSUME NEW P, IsFiniteSet(P), NEW w
  PROVE  \E f : IsSum(f, w, P)
<1> DEFINE Small(n) == {s \in SUBSET P : Cardinality(s) <= n}
           T == {n \in Nat : \E f : f = [s \in Small(n) |-> SumStep(w, f, s)]}
<1>1. 0 \in T
  <2> DEFINE f == [s \in Small(0) |-> 0]
  <2>1. ASSUME NEW s \in Small(0) PROVE s = {}
    <3>1. IsFiniteSet(s)
      BY FS_Subset
    <3>2. Cardinality(s) \in Nat /\ Cardinality(s) <= 0
      BY <3>1, FS_CardinalityType
    <3>3. QED
      BY <3>1, <3>2, FS_EmptySet
  <2>2. f = [s \in Small(0) |-> SumStep(w, f, s)]
    BY <2>1 DEF SumStep
  <2>3. QED
    BY <2>2
<1>2. ASSUME NEW n \in Nat, n \in T PROVE n + 1 \in T
  <2>1. PICK f : f = [s \in Small(n) |-> SumStep(w, f, s)]
    BY <1>2
  <2> DEFINE g == [s \in Small(n + 1) |-> SumStep(w, f, s)]
  <2>2. ASSUME NEW s \in Small(n + 1), s # {}
        PROVE  s \ {Some(s)} \in Small(n)
    <3>1. Some(s) \in s
      BY <2>2, SomeIsMember
    <3>2. /\ Cardinality(s) \in Nat \ {0}
          /\ s \ {Some(s)} \in SUBSET P
          /\ Cardinality(s \ {Some(s)}) = Cardinality(s) - 1
      BY <3>1, SmallerSet
    <3>3. Cardinality(s) <= n + 1
      OBVIOUS
    <3>4. Cardinality(s \ {Some(s)}) <= n
      BY <3>2, <3>3
    <3>5. QED
      BY <3>2, <3>4
  <2>3. ASSUME NEW s \in Small(n) PROVE s \in Small(n + 1)
    <3>1. IsFiniteSet(s)
      BY FS_Subset
    <3>2. Cardinality(s) \in Nat /\ Cardinality(s) <= n
      BY <3>1, FS_CardinalityType
    <3>3. QED
      BY <3>2
  <2>4. \A s \in Small(n) : g[s] = f[s]
    <3> HIDE DEF Small
    <3>1. \A s \in Small(n) : f[s] = SumStep(w, f, s)
      BY <2>1
    <3>2. \A s \in Small(n) : g[s] = SumStep(w, f, s)
      BY <2>3
    <3>3. QED
      BY <3>1, <3>2
  <2>5. \A s \in Small(n + 1) : SumStep(w, f, s) = SumStep(w, g, s)
    <3> HIDE DEF g, Small
    <3>1. QED
      BY <2>2, <2>4 DEF SumStep
  <2>6. g = [s \in Small(n + 1) |-> SumStep(w, g, s)]
    <3> DEFINE h == g
    <3>1. h = [s \in Small(n + 1) |-> SumStep(w, f, s)]
      OBVIOUS
    <3>2. \A s \in Small(n + 1) : SumStep(w, f, s) = SumStep(w, h, s)
      BY <2>5
    <3> HIDE DEF h, Small
    <3>3. h = [s \in Small(n + 1) |-> SumStep(w, h, s)]
      BY <3>1, <3>2
    <3>4. QED
      BY <3>3 DEF h
  <2>7. \E h : h = [s \in Small(n + 1) |-> SumStep(w, h, s)]
    BY <2>6
  <2>8. QED
    BY <2>7
<1>3. Nat \subseteq T
  <2> HIDE DEF T
  <2>1. QED
    BY <1>1, <1>2, NatSetInduction
<1>4. Cardinality(P) \in Nat
  BY FS_CardinalityType
<1>5. Small(Cardinality(P)) = SUBSET P
  BY FS_Subset
<1>6. PICK f : f = [s \in Small(Cardinality(P)) |-> SumStep(w, f, s)]
  BY <1>3, <1>4
<1> HIDE DEF Small
<1>7. IsSum(f, w, P)
  BY <1>5, <1>6 DEF IsSum
<1>8. QED
  BY <1>7

\* Two sums agree where both are defined.
LEMMA SumsAgree ==
  ASSUME NEW P, IsFiniteSet(P), NEW w, NEW A \in SUBSET P, NEW B \in SUBSET P,
         NEW f, NEW g, IsSum(f, w, A), IsSum(g, w, B), NEW S \in SUBSET (A \cap B)
  PROVE  f[S] = g[S]
<1> DEFINE T == {n \in Nat : \A s \in SUBSET (A \cap B) : Cardinality(s) = n => f[s] = g[s]}
<1>1. \A s \in SUBSET (A \cap B) : f[s] = SumStep(w, f, s) /\ g[s] = SumStep(w, g, s)
  BY DEF IsSum
<1>2. 0 \in T
  <2>1. ASSUME NEW s \in SUBSET (A \cap B), Cardinality(s) = 0 PROVE f[s] = g[s]
    <3>1. s = {}
      BY <2>1, FS_Subset, FS_EmptySet
    <3>2. QED
      BY <1>1, <3>1 DEF SumStep
  <2>2. QED
    BY <2>1
<1>3. ASSUME NEW n \in Nat, n \in T PROVE n + 1 \in T
  <2>1. ASSUME NEW s \in SUBSET (A \cap B), Cardinality(s) = n + 1 PROVE f[s] = g[s]
    <3>1. s # {}
      BY <2>1, FS_EmptySet
    <3>2. Some(s) \in s /\ s \in SUBSET P
      BY <3>1, SomeIsMember
    <3>3. Cardinality(s \ {Some(s)}) = Cardinality(s) - 1
      BY <3>2, SmallerSet
    <3>4. Cardinality(s \ {Some(s)}) = n /\ s \ {Some(s)} \in SUBSET (A \cap B)
      BY <2>1, <3>3
    <3>5. f[s \ {Some(s)}] = g[s \ {Some(s)}]
      BY <1>3, <3>4
    <3>6. QED
      BY <1>1, <3>1, <3>5 DEF SumStep
  <2>2. QED
    BY <2>1
<1>4. Nat \subseteq T
  <2> HIDE DEF T
  <2>1. QED
    BY <1>2, <1>3, NatSetInduction
<1>5. IsFiniteSet(S)
  BY FS_Subset
<1>6. Cardinality(S) \in Nat
  BY <1>5, FS_CardinalityType
<1>7. QED
  BY <1>4, <1>6

LEMMA SumUnfolds ==
  ASSUME NEW P, IsFiniteSet(P), NEW w, NEW S \in SUBSET P
  PROVE  Sum(w, S) = IF S = {} THEN 0 ELSE w[Some(S)] + Sum(w, S \ {Some(S)})
<1>1. PICK F : F = [A \in SUBSET P |-> CHOOSE f : IsSum(f, w, A)]
  OBVIOUS
<1>2. ASSUME NEW A \in SUBSET P
      PROVE  IsSum(F[A], w, A) /\ Sum(w, A) = F[A][A]
  <2>1. IsFiniteSet(A)
    BY FS_Subset
  <2>2. \E f : IsSum(f, w, A)
    BY <2>1, SumExists
  <2>3. IsSum(CHOOSE f : IsSum(f, w, A), w, A)
    BY <2>2
  <2>4. QED
    BY <1>1, <2>3, SumIsChosen
<1>3. F[S][S] = SumStep(w, F[S], S)
  <2>1. F[S] = [s \in SUBSET S |-> SumStep(w, F[S], s)]
    BY <1>2 DEF IsSum
  <2>2. QED
    BY <2>1
<1>4. CASE S = {}
  BY <1>2, <1>3, <1>4 DEF SumStep
<1>5. CASE S # {}
  <2> DEFINE R == S \ {Some(S)}
  <2>1. R \in SUBSET P /\ R \in SUBSET (S \cap R)
    OBVIOUS
  <2>2. Sum(w, S) = w[Some(S)] + F[S][R]
    BY <1>2, <1>3, <1>5 DEF SumStep
  <2> HIDE DEF R
  <2>3. F[S][R] = F[R][R]
    <3>1. PICK f, g : f = F[S] /\ g = F[R]
      OBVIOUS
    <3>2. IsSum(f, w, S) /\ IsSum(g, w, R)
      BY <1>2, <2>1, <3>1
    <3>3. f[R] = g[R]
      BY <2>1, <3>2, SumsAgree
    <3>4. QED
      BY <3>1, <3>3
  <2>4. Sum(w, S) = w[Some(S)] + Sum(w, R)
    BY <1>2, <2>1, <2>2, <2>3
  <2>5. QED
    BY <1>5, <2>4 DEF R
<1>6. QED
  BY <1>4, <1>5

LEMMA SumIsNat ==
  ASSUME NEW P, IsFiniteSet(P), NEW w \in [P -> Nat], NEW S \in SUBSET P
  PROVE  Sum(w, S) \in Nat
<1> DEFINE T == {n \in Nat : \A s \in SUBSET P : Cardinality(s) = n => Sum(w, s) \in Nat}
<1>1. 0 \in T
  <2>1. ASSUME NEW s \in SUBSET P, Cardinality(s) = 0 PROVE Sum(w, s) \in Nat
    <3>1. s = {}
      BY <2>1, FS_Subset, FS_EmptySet
    <3>2. Sum(w, s) = 0
      BY <3>1, SumUnfolds
    <3>3. QED
      BY <3>2
  <2>2. QED
    BY <2>1
<1>2. ASSUME NEW n \in Nat, n \in T PROVE n + 1 \in T
  <2>1. ASSUME NEW s \in SUBSET P, Cardinality(s) = n + 1 PROVE Sum(w, s) \in Nat
    <3>1. s # {}
      BY <2>1, FS_EmptySet
    <3>2. Some(s) \in s
      BY <3>1, SomeIsMember
    <3>3. Cardinality(s \ {Some(s)}) = Cardinality(s) - 1
      BY <3>2, SmallerSet
    <3>4. Cardinality(s \ {Some(s)}) = n /\ s \ {Some(s)} \in SUBSET P
      BY <2>1, <3>3
    <3>5. Sum(w, s \ {Some(s)}) \in Nat
      BY <1>2, <3>4
    <3>6. Sum(w, s) = w[Some(s)] + Sum(w, s \ {Some(s)})
      BY <3>1, SumUnfolds
    <3>7. w[Some(s)] \in Nat
      BY <3>2
    <3>8. QED
      BY <3>5, <3>6, <3>7
  <2>2. QED
    BY <2>1
<1>3. Nat \subseteq T
  <2> HIDE DEF T
  <2>1. QED
    BY <1>1, <1>2, NatSetInduction
<1>4. IsFiniteSet(S)
  BY FS_Subset
<1>5. Cardinality(S) \in Nat
  BY <1>4, FS_CardinalityType
<1>6. QED
  BY <1>3, <1>5

\* Any element may be taken first.
LEMMA SumOfRest ==
  ASSUME NEW P, IsFiniteSet(P), NEW w \in [P -> Nat], NEW S \in SUBSET P, NEW e \in S
  PROVE  Sum(w, S) = w[e] + Sum(w, S \ {e})
<1> DEFINE Good(s) == \A x \in s : Sum(w, s) = w[x] + Sum(w, s \ {x})
           T == {n \in Nat : \A s \in SUBSET P : Cardinality(s) = n => Good(s)}
<1>1. 0 \in T
  <2>1. ASSUME NEW s \in SUBSET P, Cardinality(s) = 0 PROVE Good(s)
    <3>1. s = {}
      BY <2>1, FS_Subset, FS_EmptySet
    <3>2. QED
      BY <3>1
  <2> HIDE DEF Good
  <2>2. QED
    BY <2>1
<1>2. ASSUME NEW n \in Nat, n \in T PROVE n + 1 \in T
  <2>1. ASSUME NEW s \in SUBSET P, Cardinality(s) = n + 1, NEW x \in s
        PROVE  Sum(w, s) = w[x] + Sum(w, s \ {x})
    <3>1. PICK c : c = Some(s)
      OBVIOUS
    <3>2. c \in s
      BY <3>1, SomeIsMember
    <3>3. Sum(w, s) = w[c] + Sum(w, s \ {c})
      BY <3>1, SumUnfolds
    <3>4. CASE c = x
      BY <3>3, <3>4
    <3>5. CASE c # x
      <4>1. Cardinality(s \ {c}) = Cardinality(s) - 1 /\ Cardinality(s \ {x}) = Cardinality(s) - 1
        BY <3>2, SmallerSet
      <4>2. /\ Cardinality(s \ {c}) = n /\ s \ {c} \in SUBSET P
            /\ Cardinality(s \ {x}) = n /\ s \ {x} \in SUBSET P
        BY <2>1, <4>1
      <4>3. Sum(w, s \ {c}) = w[x] + Sum(w, (s \ {c}) \ {x})
        BY <1>2, <3>5, <4>2
      <4>4. Sum(w, s \ {x}) = w[c] + Sum(w, (s \ {x}) \ {c})
        BY <1>2, <3>2, <3>5, <4>2
      <4>5. (s \ {c}) \ {x} = (s \ {x}) \ {c}
        OBVIOUS
      <4> DEFINE rest == Sum(w, (s \ {x}) \ {c})
      <4>6. rest \in Nat
        BY SumIsNat
      <4>7. w[c] \in Nat /\ w[x] \in Nat
        BY <3>2
      <4>8. Sum(w, s) = w[c] + (w[x] + rest) /\ Sum(w, s \ {x}) = w[c] + rest
        BY <3>3, <4>3, <4>4, <4>5
      <4> HIDE DEF rest
      <4>9. w[c] + (w[x] + rest) = w[x] + (w[c] + rest)
        BY <4>6, <4>7
      <4>10. QED
        BY <4>8, <4>9
    <3>6. QED
      BY <3>4, <3>5
  <2>2. \A s \in SUBSET P : Cardinality(s) = n + 1 => Good(s)
    BY <2>1
  <2> HIDE DEF Good
  <2>3. QED
    BY <2>2
<1>3. Nat \subseteq T
  <2> HIDE DEF T
  <2>1. QED
    BY <1>1, <1>2, NatSetInduction
<1>4. IsFiniteSet(S)
  BY FS_Subset
<1>5. Cardinality(S) \in Nat
  BY <1>4, FS_CardinalityType
<1>6. Good(S)
  <2> HIDE DEF Good
  <2>1. QED
    BY <1>3, <1>5
<1>7. QED
  BY <1>6

LEMMA SumGrows ==
  ASSUME NEW P, IsFiniteSet(P), NEW w \in [P -> Nat], NEW B \in SUBSET P, NEW A \in SUBSET B
  PROVE  Sum(w, A) <= Sum(w, B)
<1> DEFINE Good(s) == Sum(w, A) <= Sum(w, s)
           T == {n \in Nat : \A s \in SUBSET P : A \subseteq s /\ Cardinality(s) = n => Good(s)}
<1>0. Sum(w, A) \in Nat
  BY SumIsNat
<1>1. 0 \in T
  <2>1. ASSUME NEW s \in SUBSET P, A \subseteq s, Cardinality(s) = 0 PROVE Good(s)
    <3>1. s = {}
      BY <2>1, FS_Subset, FS_EmptySet
    <3>2. s = A
      BY <2>1, <3>1
    <3>3. QED
      BY <1>0, <3>2
  <2> HIDE DEF Good
  <2>2. QED
    BY <2>1
<1>2. ASSUME NEW n \in Nat, n \in T PROVE n + 1 \in T
  <2>1. ASSUME NEW s \in SUBSET P, A \subseteq s, Cardinality(s) = n + 1
        PROVE  Good(s)
    <3>1. CASE s = A
      BY <1>0, <3>1
    <3>2. CASE s # A
      <4>1. PICK x \in s : x \notin A
        BY <2>1, <3>2
      <4>2. Cardinality(s \ {x}) = Cardinality(s) - 1
        BY SmallerSet
      <4>3. Cardinality(s \ {x}) = n /\ s \ {x} \in SUBSET P /\ A \subseteq s \ {x}
        BY <2>1, <4>1, <4>2
      <4>4. Good(s \ {x})
        <5> HIDE DEF Good
        <5>1. QED
          BY <1>2, <4>3
      <4>5. Sum(w, s) = w[x] + Sum(w, s \ {x})
        BY SumOfRest
      <4>6. w[x] \in Nat /\ Sum(w, s \ {x}) \in Nat
        BY <4>3, SumIsNat
      <4>7. QED
        BY <1>0, <4>4, <4>5, <4>6
    <3>3. QED
      BY <3>1, <3>2
  <2> HIDE DEF Good
  <2>2. QED
    BY <2>1
<1>3. Nat \subseteq T
  <2> HIDE DEF T
  <2>1. QED
    BY <1>1, <1>2, NatSetInduction
<1>4. IsFiniteSet(B)
  BY FS_Subset
<1>5. Cardinality(B) \in Nat
  BY <1>4, FS_CardinalityType
<1>6. Good(B)
  <2> HIDE DEF Good
  <2>1. QED
    BY <1>3, <1>5
<1>7. QED
  BY <1>6
-----------------------------------------------------------------------------
(***************************************************************************)
(* Folds.  FoldLeft is a recursive function on the subsets of the domain   *)
(* of a sequence, which takes the greatest member away; its values on the  *)
(* sets 1 .. i are the steps of the loop.                                  *)
(***************************************************************************)
LEMMA MaxFacts ==
  ASSUME NEW n \in Nat, NEW s \in SUBSET (1 .. n), s # {}
  PROVE  Max(s) \in s /\ \A y \in s : y <= Max(s)
<1>1. \A y \in s : y \in Nat /\ n - y \in Nat
  OBVIOUS
<1> DEFINE T == {n - y : y \in s}
<1>2. T \subseteq Nat /\ T # {}
  BY <1>1
<1>3. PICK R : R = OpToRel(<, Nat)
  OBVIOUS
<1>4. IsWellFoundedOn(R, Nat)
  BY <1>3, NatLessThanWellFounded
<1>5. \A j, k \in Nat : j < k => <<j, k>> \in R
  BY <1>3 DEF OpToRel
<1>6. \E k \in T : \A j \in T : <<j, k>> \notin R
  <2> HIDE DEF T
  <2>1. QED
    BY <1>2, <1>4, WFMin
<1>7. PICK x \in s : \A y \in s : <<n - y, n - x>> \notin R
  BY <1>6
<1>8. ASSUME NEW y \in s PROVE x >= y
  <2>1. ~(n - y < n - x)
    BY <1>1, <1>5, <1>7
  <2>2. x \in Nat /\ y \in Nat
    BY <1>1
  <2>3. QED
    BY <2>1, <2>2
<1>9. Max(s) \in s /\ \A y \in s : Max(s) >= y
  BY <1>8 DEF Max
<1> HIDE DEF T
<1>10. Max(s) \in Nat /\ \A y \in s : y \in Nat
  BY <1>1, <1>9
<1>11. QED
  BY <1>9, <1>10

LEMMA WithoutMax ==
  ASSUME NEW n \in Nat, NEW s \in SUBSET (1 .. n + 1), s # {}
  PROVE  s \ {Max(s)} \in SUBSET (1 .. n)
<1>1. PICK m \in Nat : m = n + 1
  OBVIOUS
<1>2. Max(s) \in s /\ \A y \in s : y <= Max(s)
  BY <1>1, MaxFacts
<1>3. ASSUME NEW y \in s, y # Max(s) PROVE y \in 1 .. n
  <2>1. y \in 1 .. n + 1 /\ Max(s) \in 1 .. n + 1 /\ y <= Max(s)
    BY <1>2
  <2>2. QED
    BY <1>3, <2>1
<1>4. QED
  BY <1>3

LEMMA MaxOfInterval ==
  ASSUME NEW n \in Nat
  PROVE  Max(1 .. n + 1) = n + 1 /\ (1 .. n + 1) \ {n + 1} = 1 .. n /\ 1 .. n + 1 # {}
<1>1. 1 .. n + 1 # {} /\ n + 1 \in 1 .. n + 1 /\ n + 1 \in Nat
  OBVIOUS
<1>2. Max(1 .. n + 1) \in 1 .. n + 1 /\ n + 1 <= Max(1 .. n + 1)
  <2> DEFINE s == 1 .. n + 1
  <2>1. s \in SUBSET (1 .. n + 1) /\ s # {} /\ n + 1 \in s
    BY <1>1
  <2> HIDE DEF s
  <2>2. Max(s) \in s /\ \A y \in s : y <= Max(s)
    BY <1>1, <2>1, MaxFacts
  <2>3. QED
    BY <2>1, <2>2 DEF s
<1>3. Max(1 .. n + 1) = n + 1
  BY <1>2
<1>4. QED
  BY <1>3

(* the step of __split_action_groups_into_changesets *)
AddGroup(acc, g) ==
    LET unpacked == {Package(v) : v \in Done(g, "unpack")}
        open == (acc.open \cup unpacked) \ {Package(v) : v \in Done(g, "configure")}
        changeset == [groups |-> Append(acc.changeset.groups, g),
                      downloads |-> acc.changeset.downloads \cup (unpacked \cap Downloads)]
    IN  IF open = {} /\ ~g.continued
        THEN [open |-> {}, changeset |-> EmptyChangeset, found |-> Append(acc.found, changeset)]
        ELSE [open |-> open, changeset |-> changeset, found |-> acc.found]
SplitStart == [open |-> {}, changeset |-> EmptyChangeset, found |-> <<>>]
SplitStep(f, s) == IF s = {} THEN SplitStart ELSE AddGroup(f[s \ {Max(s)}], sequence[Max(s)])

LEMMA SplitIsChosen ==
  SplitIntoChangesets = (CHOOSE f : f = [s \in SUBSET DOMAIN sequence |-> SplitStep(f, s)])[DOMAIN sequence]
BY DEF SplitIntoChangesets, FoldLeft, MapThenFoldSet, SplitStep, SplitStart, AddGroup

LEMMA SplitExists ==
  ASSUME NEW m \in Nat
  PROVE  \E f : f = [s \in SUBSET (1 .. m) |-> SplitStep(f, s)]
<1> DEFINE T == {n \in Nat : \E f : f = [s \in SUBSET (1 .. n) |-> SplitStep(f, s)]}
<1>1. 0 \in T
  <2> DEFINE f == [s \in SUBSET (1 .. 0) |-> SplitStart]
  <2>1. f = [s \in SUBSET (1 .. 0) |-> SplitStep(f, s)]
    BY DEF SplitStep
  <2>2. QED
    BY <2>1
<1>2. ASSUME NEW n \in Nat, n \in T PROVE n + 1 \in T
  <2>1. PICK f : f = [s \in SUBSET (1 .. n) |-> SplitStep(f, s)]
    BY <1>2
  <2> DEFINE g == [s \in SUBSET (1 .. n + 1) |-> SplitStep(f, s)]
  <2>2. \A s \in SUBSET (1 .. n) : s \in SUBSET (1 .. n + 1)
    OBVIOUS
  <2>3. \A s \in SUBSET (1 .. n) : g[s] = f[s]
    BY <2>1, <2>2
  <2>4. ASSUME NEW s \in SUBSET (1 .. n + 1)
        PROVE  SplitStep(f, s) = SplitStep(g, s)
    <3> HIDE DEF g
    <3>1. s # {} => s \ {Max(s)} \in SUBSET (1 .. n)
      BY WithoutMax
    <3>2. QED
      BY <2>3, <3>1 DEF SplitStep
  <2>5. g = [s \in SUBSET (1 .. n + 1) |-> SplitStep(g, s)]
    <3> DEFINE h == g
    <3>1. h = [s \in SUBSET (1 .. n + 1) |-> SplitStep(f, s)]
      OBVIOUS
    <3>2. \A s \in SUBSET (1 .. n + 1) : SplitStep(f, s) = SplitStep(h, s)
      BY <2>4
    <3> HIDE DEF h
    <3>3. h = [s \in SUBSET (1 .. n + 1) |-> SplitStep(h, s)]
      BY <3>1, <3>2
    <3>4. QED
      BY <3>3 DEF h
  <2>6. \E h : h = [s \in SUBSET (1 .. n + 1) |-> SplitStep(h, s)]
    BY <2>5
  <2>7. QED
    BY <2>6
<1>3. Nat \subseteq T
  <2> HIDE DEF T
  <2>1. QED
    BY <1>1, <1>2, NatSetInduction
<1>4. QED
  BY <1>3

LEMMA SplitRuns ==
  ASSUME IsSeq(sequence)
  PROVE  \E acc : /\ acc[0] = SplitStart
                  /\ \A i \in 1 .. Len(sequence) : acc[i] = AddGroup(acc[i - 1], sequence[i])
                  /\ SplitIntoChangesets = acc[Len(sequence)]
<1>1. Len(sequence) \in Nat /\ DOMAIN sequence = 1 .. Len(sequence)
  BY SeqFacts
<1>2. PICK f : f = (CHOOSE h : h = [s \in SUBSET (1 .. Len(sequence)) |-> SplitStep(h, s)])
  OBVIOUS
<1>3. f = [s \in SUBSET (1 .. Len(sequence)) |-> SplitStep(f, s)]
  BY <1>1, <1>2, SplitExists
<1>4. SplitIntoChangesets = f[1 .. Len(sequence)]
  BY <1>1, <1>2, SplitIsChosen
<1> DEFINE acc == [i \in 0 .. Len(sequence) |-> f[1 .. i]]
<1>5. acc[0] = SplitStart
  <2>1. 1 .. 0 = {} /\ {} \in SUBSET (1 .. Len(sequence)) /\ 0 \in 0 .. Len(sequence)
    BY <1>1
  <2>2. f[{}] = SplitStart
    BY <1>3, <2>1 DEF SplitStep
  <2>3. QED
    BY <2>1, <2>2
<1>6. ASSUME NEW i \in 1 .. Len(sequence)
      PROVE  acc[i] = AddGroup(acc[i - 1], sequence[i])
  <2>1. PICK n \in Nat : n + 1 = i /\ i - 1 = n
    BY <1>1
  <2>2. i \in 0 .. Len(sequence) /\ n \in 0 .. Len(sequence) /\ 1 .. i \in SUBSET (1 .. Len(sequence))
    BY <1>1, <2>1
  <2>3. Max(1 .. i) = i /\ (1 .. i) \ {i} = 1 .. n /\ 1 .. i # {}
    BY <2>1, MaxOfInterval
  <2>4. f[1 .. i] = AddGroup(f[1 .. n], sequence[i])
    BY <1>3, <2>2, <2>3 DEF SplitStep
  <2>5. QED
    BY <2>1, <2>2, <2>4
<1>7. acc[Len(sequence)] = f[1 .. Len(sequence)]
  BY <1>1
<1> HIDE DEF acc
<1>8. QED
  BY <1>4, <1>5, <1>6, <1>7

(* the step of __get_changesets *)
MergeNext(acc, next) ==
    LET both == [groups |-> Last(acc).groups \o next.groups,
                 downloads |-> Last(acc).downloads \cup next.downloads]
    IN  IF TooBig(both) THEN Append(acc, next) ELSE Append(Front(acc), both)
MergeStep(split, f, s) == IF s = {} THEN <<EmptyChangeset>> ELSE MergeNext(f[s \ {Max(s)}], split[Max(s)])

LEMMA MergedIsChosen ==
  ASSUME NEW split
  PROVE  Merged(split) =
            (CHOOSE f : f = [s \in SUBSET DOMAIN split |-> MergeStep(split, f, s)])[DOMAIN split]
BY DEF Merged, FoldLeft, MapThenFoldSet, MergeStep, MergeNext

LEMMA MergeExists ==
  ASSUME NEW split, NEW m \in Nat
  PROVE  \E f : f = [s \in SUBSET (1 .. m) |-> MergeStep(split, f, s)]
<1> DEFINE T == {n \in Nat : \E f : f = [s \in SUBSET (1 .. n) |-> MergeStep(split, f, s)]}
<1>1. 0 \in T
  <2> DEFINE f == [s \in SUBSET (1 .. 0) |-> <<EmptyChangeset>>]
  <2>1. f = [s \in SUBSET (1 .. 0) |-> MergeStep(split, f, s)]
    BY DEF MergeStep
  <2>2. QED
    BY <2>1
<1>2. ASSUME NEW n \in Nat, n \in T PROVE n + 1 \in T
  <2>1. PICK f : f = [s \in SUBSET (1 .. n) |-> MergeStep(split, f, s)]
    BY <1>2
  <2> DEFINE g == [s \in SUBSET (1 .. n + 1) |-> MergeStep(split, f, s)]
  <2>2. \A s \in SUBSET (1 .. n) : s \in SUBSET (1 .. n + 1)
    OBVIOUS
  <2>3. \A s \in SUBSET (1 .. n) : g[s] = f[s]
    BY <2>1, <2>2
  <2>4. ASSUME NEW s \in SUBSET (1 .. n + 1)
        PROVE  MergeStep(split, f, s) = MergeStep(split, g, s)
    <3> HIDE DEF g
    <3>1. s # {} => s \ {Max(s)} \in SUBSET (1 .. n)
      BY WithoutMax
    <3>2. QED
      BY <2>3, <3>1 DEF MergeStep
  <2>5. g = [s \in SUBSET (1 .. n + 1) |-> MergeStep(split, g, s)]
    <3> DEFINE h == g
    <3>1. h = [s \in SUBSET (1 .. n + 1) |-> MergeStep(split, f, s)]
      OBVIOUS
    <3>2. \A s \in SUBSET (1 .. n + 1) : MergeStep(split, f, s) = MergeStep(split, h, s)
      BY <2>4
    <3> HIDE DEF h
    <3>3. h = [s \in SUBSET (1 .. n + 1) |-> MergeStep(split, h, s)]
      BY <3>1, <3>2
    <3>4. QED
      BY <3>3 DEF h
  <2>6. \E h : h = [s \in SUBSET (1 .. n + 1) |-> MergeStep(split, h, s)]
    BY <2>5
  <2>7. QED
    BY <2>6
<1>3. Nat \subseteq T
  <2> HIDE DEF T
  <2>1. QED
    BY <1>1, <1>2, NatSetInduction
<1>4. QED
  BY <1>3

LEMMA MergeRuns ==
  ASSUME NEW split, IsSeq(split)
  PROVE  \E acc : /\ acc[0] = <<EmptyChangeset>>
                  /\ \A i \in 1 .. Len(split) : acc[i] = MergeNext(acc[i - 1], split[i])
                  /\ Merged(split) = acc[Len(split)]
<1>1. Len(split) \in Nat /\ DOMAIN split = 1 .. Len(split)
  BY SeqFacts
<1>2. PICK f : f = (CHOOSE h : h = [s \in SUBSET (1 .. Len(split)) |-> MergeStep(split, h, s)])
  OBVIOUS
<1>3. f = [s \in SUBSET (1 .. Len(split)) |-> MergeStep(split, f, s)]
  BY <1>1, <1>2, MergeExists
<1>4. Merged(split) = f[1 .. Len(split)]
  BY <1>1, <1>2, MergedIsChosen
<1> DEFINE acc == [i \in 0 .. Len(split) |-> f[1 .. i]]
<1>5. acc[0] = <<EmptyChangeset>>
  <2>1. 1 .. 0 = {} /\ {} \in SUBSET (1 .. Len(split)) /\ 0 \in 0 .. Len(split)
    BY <1>1
  <2>2. f[{}] = <<EmptyChangeset>>
    BY <1>3, <2>1 DEF MergeStep
  <2>3. QED
    BY <2>1, <2>2
<1>6. ASSUME NEW i \in 1 .. Len(split)
      PROVE  acc[i] = MergeNext(acc[i - 1], split[i])
  <2>1. PICK n \in Nat : n + 1 = i /\ i - 1 = n
    BY <1>1
  <2>2. i \in 0 .. Len(split) /\ n \in 0 .. Len(split) /\ 1 .. i \in SUBSET (1 .. Len(split))
    BY <1>1, <2>1
  <2>3. Max(1 .. i) = i /\ (1 .. i) \ {i} = 1 .. n /\ 1 .. i # {}
    BY <2>1, MaxOfInterval
  <2>4. f[1 .. i] = MergeNext(f[1 .. n], split[i])
    BY <1>3, <2>2, <2>3 DEF MergeStep
  <2>5. QED
    BY <2>1, <2>2, <2>4
<1>7. acc[Len(split)] = f[1 .. Len(split)]
  BY <1>1
<1> HIDE DEF acc
<1>8. QED
  BY <1>4, <1>5, <1>6, <1>7
-----------------------------------------------------------------------------
(***************************************************************************)
(* Flat(cs, R): the groups of the changesets cs, one changeset after the   *)
(* other, are the sequence R; b[i] is the number of the groups of the      *)
(* first i changesets.                                                     *)
(***************************************************************************)
IsRun(part, R, from, to) ==
    /\ IsSeq(part)
    /\ to = from + Len(part)
    /\ \A j \in 1 .. Len(part) : part[j] = R[from + j]

Cuts(b, cs, R) ==
    /\ b \in [0 .. Len(cs) -> 0 .. Len(R)]
    /\ b[0] = 0
    /\ b[Len(cs)] = Len(R)
    /\ \A i \in 1 .. Len(cs) : IsRun(cs[i].groups, R, b[i - 1], b[i])

Flat(cs, R) == \E b : Cuts(b, cs, R)

Prefix(s, n) == [i \in 1 .. n |-> s[i]]

LEMMA SeqsEqual ==
  ASSUME NEW s, NEW t, IsSeq(s), IsSeq(t), Len(s) = Len(t), \A i \in 1 .. Len(s) : s[i] = t[i]
  PROVE  s = t
<1> DEFINE T == {s[i] : i \in DOMAIN s} \cup {t[i] : i \in DOMAIN t}
<1>1. s \in Seq(T) /\ t \in Seq(T)
  BY SeqMonotonic DEF IsSeq
<1> HIDE DEF T
<1>2. QED
  BY <1>1, SeqEqual

LEMMA BuiltSeq ==
  ASSUME NEW n \in Nat, NEW f, f = [i \in 1 .. n |-> f[i]]
  PROVE  IsSeq(f) /\ Len(f) = n
<1>1. f \in [1 .. n -> {f[i] : i \in 1 .. n}]
  OBVIOUS
<1>2. f \in Seq({f[i] : i \in 1 .. n})
  BY <1>1, SeqDef
<1>3. DOMAIN f = 1 .. n /\ DOMAIN f = 1 .. Len(f) /\ Len(f) \in Nat
  BY <1>2, LenProperties
<1>4. Len(f) = n
  BY <1>3
<1>5. QED
  BY <1>2, <1>4, SeqIsSeq

LEMMA PrefixFacts ==
  ASSUME NEW s, NEW n \in Nat
  PROVE  IsSeq(Prefix(s, n)) /\ Len(Prefix(s, n)) = n /\ \A i \in 1 .. n : Prefix(s, n)[i] = s[i]
<1> DEFINE f == Prefix(s, n)
<1>1. f = [i \in 1 .. n |-> f[i]] /\ \A i \in 1 .. n : f[i] = s[i]
  BY DEF Prefix
<1> HIDE DEF f
<1>2. IsSeq(f) /\ Len(f) = n
  BY <1>1, BuiltSeq
<1>3. QED
  BY <1>1, <1>2 DEF f

LEMMA FullPrefix ==
  ASSUME NEW s, IsSeq(s)
  PROVE  Prefix(s, Len(s)) = s
<1>1. Len(s) \in Nat
  BY SeqFacts
<1>2. IsSeq(Prefix(s, Len(s))) /\ Len(Prefix(s, Len(s))) = Len(s)
      /\ \A i \in 1 .. Len(s) : Prefix(s, Len(s))[i] = s[i]
  BY <1>1, PrefixFacts
<1>3. QED
  BY <1>2, SeqsEqual

LEMMA EmptyFacts == IsSeq(<<>>) /\ Len(<<>>) = 0
<1>1. <<>> \in Seq({})
  BY EmptySeq
<1>2. QED
  BY <1>1, SeqIsSeq, EmptySeq

LEMMA FlatEmpty ==
  /\ Flat(<<>>, <<>>)
  /\ \A R : IsSeq(R) /\ Flat(<<>>, R) => R = <<>>
<1>1. Len(<<>>) = 0
  BY EmptyFacts
<1>2. Cuts([i \in {0} |-> 0], <<>>, <<>>)
  BY <1>1 DEF Cuts
<1>3. ASSUME NEW R, IsSeq(R), Flat(<<>>, R) PROVE R = <<>>
  <2>1. PICK b : Cuts(b, <<>>, R)
    BY <1>3 DEF Flat
  <2>2. Len(R) = 0
    BY <1>1, <2>1 DEF Cuts
  <2>3. QED
    BY <1>3, <2>2, SeqFacts
<1>4. QED
  BY <1>2, <1>3 DEF Flat

\* One more changeset at the end.
LEMMA FlatAppend ==
  ASSUME NEW cs, NEW R, NEW c, IsSeq(cs), IsSeq(R), IsSeq(c.groups), Flat(cs, R)
  PROVE  Flat(Append(cs, c), R \o c.groups)
<1>1. PICK b : Cuts(b, cs, R)
  BY DEF Flat
<1> DEFINE ds == Append(cs, c)
           t == c.groups
           Q == R \o t
           d == [i \in 0 .. Len(cs) + 1 |-> IF i <= Len(cs) THEN b[i] ELSE Len(R) + Len(t)]
<1>2. /\ Len(ds) = Len(cs) + 1
      /\ \A i \in 1 .. Len(cs) : ds[i] = cs[i]
      /\ ds[Len(cs) + 1] = c
  BY AppendFacts
<1>3. /\ Len(Q) = Len(R) + Len(t)
      /\ \A i \in 1 .. Len(R) : Q[i] = R[i]
      /\ \A i \in 1 .. Len(t) : Q[Len(R) + i] = t[i]
  BY ConcatFacts
<1>4. Len(cs) \in Nat /\ Len(R) \in Nat /\ Len(t) \in Nat
  BY SeqFacts
<1> HIDE DEF ds, Q
<1>5. b \in [0 .. Len(cs) -> 0 .. Len(R)] /\ b[0] = 0 /\ b[Len(cs)] = Len(R)
  BY <1>1 DEF Cuts
<1>6. /\ d \in [0 .. Len(ds) -> 0 .. Len(Q)]
      /\ d[0] = 0
      /\ d[Len(ds)] = Len(Q)
  BY <1>2, <1>3, <1>4, <1>5
<1>7. ASSUME NEW i \in 1 .. Len(ds)
      PROVE  IsRun(ds[i].groups, Q, d[i - 1], d[i])
  <2>1. CASE i = Len(cs) + 1
    <3>1. ds[i].groups = t /\ d[i] = Len(R) + Len(t)
      BY <1>2, <1>4, <2>1
    <3>2. i - 1 = Len(cs) /\ i - 1 \in 0 .. Len(cs) + 1 /\ i - 1 <= Len(cs)
      BY <1>4, <2>1
    <3>3. d[i - 1] = Len(R)
      BY <1>5, <3>2
    <3> HIDE DEF d
    <3>4. QED
      BY <1>3, <3>1, <3>3 DEF IsRun
  <2>2. CASE i # Len(cs) + 1
    <3>1. i \in 1 .. Len(cs) /\ i <= Len(cs) /\ i - 1 <= Len(cs) /\ {i, i - 1} \subseteq 0 .. Len(cs)
      BY <1>2, <1>4, <2>2
    <3>2. d[i] = b[i] /\ d[i - 1] = b[i - 1] /\ ds[i] = cs[i]
      BY <1>2, <1>4, <3>1
    <3>3. IsRun(cs[i].groups, R, b[i - 1], b[i])
      BY <1>1, <3>1 DEF Cuts
    <3> DEFINE part == cs[i].groups
    <3>4. IsSeq(part) /\ b[i] = b[i - 1] + Len(part) /\ \A j \in 1 .. Len(part) : part[j] = R[b[i - 1] + j]
      BY <3>3 DEF IsRun
    <3>5. Len(part) \in Nat /\ b[i] \in 0 .. Len(R) /\ b[i - 1] \in 0 .. Len(R)
      BY <1>5, <3>1, <3>4, SeqFacts
    <3> HIDE DEF d, part
    <3>6. \A j \in 1 .. Len(part) : b[i - 1] + j \in 1 .. Len(R)
      BY <1>4, <3>4, <3>5
    <3>7. \A j \in 1 .. Len(part) : part[j] = Q[b[i - 1] + j]
      BY <1>3, <3>4, <3>6
    <3>8. IsRun(part, Q, b[i - 1], b[i])
      BY <3>4, <3>7 DEF IsRun
    <3>9. QED
      BY <3>2, <3>8 DEF part
  <2>3. QED
    BY <2>1, <2>2
<1> HIDE DEF d
<1>8. Cuts(d, ds, Q)
  BY <1>6, <1>7 DEF Cuts
<1>9. QED
  BY <1>8 DEF Flat, ds, Q

\* The last changeset gets more groups.
LEMMA FlatGrow ==
  ASSUME NEW cs, NEW R, NEW t, NEW c, IsSeq(cs), cs # <<>>, IsSeq(R), IsSeq(t),
         c.groups = cs[Len(cs)].groups \o t, Flat(cs, R)
  PROVE  Flat(Append(Front(cs), c), R \o t)
<1>1. PICK b : Cuts(b, cs, R)
  BY DEF Flat
<1> DEFINE ds == Append(Front(cs), c)
           Q == R \o t
           old == cs[Len(cs)].groups
           d == [i \in 0 .. Len(cs) |-> IF i < Len(cs) THEN b[i] ELSE Len(R) + Len(t)]
<1>2. /\ Len(ds) = Len(cs)
      /\ \A i \in 1 .. Len(cs) - 1 : ds[i] = cs[i]
      /\ ds[Len(cs)] = c
  BY FrontFacts
<1>3. /\ Len(Q) = Len(R) + Len(t)
      /\ \A i \in 1 .. Len(R) : Q[i] = R[i]
      /\ \A i \in 1 .. Len(t) : Q[Len(R) + i] = t[i]
  BY ConcatFacts
<1>4. Len(cs) \in Nat /\ Len(cs) # 0 /\ Len(R) \in Nat /\ Len(t) \in Nat
  BY SeqFacts
<1> HIDE DEF ds, Q
<1>5. b \in [0 .. Len(cs) -> 0 .. Len(R)] /\ b[0] = 0 /\ b[Len(cs)] = Len(R)
  BY <1>1 DEF Cuts
<1>6. /\ d \in [0 .. Len(ds) -> 0 .. Len(Q)]
      /\ d[0] = 0
      /\ d[Len(ds)] = Len(Q)
  BY <1>2, <1>3, <1>4, <1>5
<1>7. ASSUME NEW i \in 1 .. Len(ds)
      PROVE  IsRun(ds[i].groups, Q, d[i - 1], d[i])
  <2>1. i \in 1 .. Len(cs) /\ i - 1 \in 0 .. Len(cs) /\ i - 1 < Len(cs) /\ i \in 0 .. Len(cs)
    BY <1>2, <1>4
  <2> DEFINE part == cs[i].groups
  <2>2. IsRun(part, R, b[i - 1], b[i])
    BY <1>1, <2>1 DEF Cuts
  <2>3. IsSeq(part) /\ b[i] = b[i - 1] + Len(part) /\ \A j \in 1 .. Len(part) : part[j] = R[b[i - 1] + j]
    BY <2>2 DEF IsRun
  <2>4. Len(part) \in Nat /\ b[i] \in 0 .. Len(R) /\ b[i - 1] \in 0 .. Len(R)
    BY <1>5, <2>1, <2>3, SeqFacts
  <2>5. \A j \in 1 .. Len(part) : part[j] = Q[b[i - 1] + j]
    <3> HIDE DEF part
    <3>1. \A j \in 1 .. Len(part) : b[i - 1] + j \in 1 .. Len(R)
      BY <1>4, <2>3, <2>4
    <3>2. QED
      BY <1>3, <2>3, <3>1
  <2>6. d[i - 1] = b[i - 1]
    BY <2>1
  <2>7. CASE i = Len(cs)
    <3>1. ds[i].groups = old \o t /\ part = old /\ d[i] = Len(R) + Len(t) /\ b[i] = Len(R)
      BY <1>2, <1>4, <1>5, <2>7
    <3> HIDE DEF d, part, old
    <3>2. /\ IsSeq(old \o t)
          /\ Len(old \o t) = Len(old) + Len(t)
          /\ \A j \in 1 .. Len(old) + Len(t) : (old \o t)[j] = IF j <= Len(old) THEN old[j] ELSE t[j - Len(old)]
      BY <2>3, <3>1, ConcatFacts
    <3>3. Len(old) \in Nat /\ Len(R) = b[i - 1] + Len(old)
      BY <2>3, <2>4, <3>1
    <3>4. ASSUME NEW j \in 1 .. Len(old) + Len(t)
          PROVE  (old \o t)[j] = Q[b[i - 1] + j]
      <4>1. CASE j <= Len(old)
        BY <2>5, <3>1, <3>2, <4>1
      <4>2. CASE ~(j <= Len(old))
        <5>1. j - Len(old) \in 1 .. Len(t) /\ Len(R) + (j - Len(old)) = b[i - 1] + j
          BY <1>4, <2>4, <3>3, <4>2
        <5>2. QED
          BY <1>3, <3>2, <4>2, <5>1
      <4>3. QED
        BY <4>1, <4>2
    <3>5. d[i] = b[i - 1] + Len(old \o t)
      BY <1>4, <2>4, <3>1, <3>2, <3>3
    <3>6. IsRun(old \o t, Q, b[i - 1], d[i])
      BY <3>2, <3>4, <3>5 DEF IsRun
    <3>7. QED
      BY <2>6, <3>1, <3>6
  <2>8. CASE i # Len(cs)
    <3>1. i \in 1 .. Len(cs) - 1 /\ i < Len(cs)
      BY <1>4, <2>1, <2>8
    <3>2. ds[i].groups = part /\ d[i] = b[i]
      BY <1>2, <2>1, <3>1
    <3> HIDE DEF d, part
    <3>3. QED
      BY <2>3, <2>5, <2>6, <3>2 DEF IsRun
  <2>9. QED
    BY <2>7, <2>8
<1> HIDE DEF d
<1>8. Cuts(d, ds, Q)
  BY <1>6, <1>7 DEF Cuts
<1>9. QED
  BY <1>8 DEF Flat, ds, Q

\* The first changeset is taken.
LEMMA FlatTail ==
  ASSUME NEW cs, NEW R, IsSeq(cs), cs # <<>>, IsSeq(R), Flat(cs, R)
  PROVE  /\ IsSeq(Head(cs).groups)
         /\ \E Q : IsSeq(Q) /\ R = Head(cs).groups \o Q /\ Flat(Tail(cs), Q)
<1>1. PICK b : Cuts(b, cs, R)
  BY DEF Flat
<1>2. /\ IsSeq(Tail(cs))
      /\ Len(Tail(cs)) = Len(cs) - 1
      /\ \A i \in 1 .. Len(cs) - 1 : Tail(cs)[i] = cs[i + 1]
      /\ Head(cs) = cs[1]
      /\ Len(cs) \in Nat \ {0}
  BY TailFacts
<1>3. b \in [0 .. Len(cs) -> 0 .. Len(R)] /\ b[0] = 0 /\ b[Len(cs)] = Len(R)
  BY <1>1 DEF Cuts
<1>4. Len(R) \in Nat
  BY SeqFacts
<1> DEFINE part == Head(cs).groups
           n == Len(part)
<1>5. IsRun(part, R, b[0], b[1])
  <2>1. 1 \in 1 .. Len(cs) /\ 1 - 1 = 0
    BY <1>2
  <2>2. QED
    BY <1>1, <1>2, <2>1 DEF Cuts
<1>6. IsSeq(part) /\ n \in Nat /\ b[1] = n /\ \A j \in 1 .. n : part[j] = R[j]
  <2>1. IsSeq(part) /\ b[1] = 0 + n /\ \A j \in 1 .. n : part[j] = R[0 + j]
    BY <1>3, <1>5 DEF IsRun
  <2>2. n \in Nat
    BY <2>1, SeqFacts
  <2>3. \A j \in 1 .. n : 0 + j = j
    OBVIOUS
  <2>4. QED
    BY <2>1, <2>2, <2>3
<1>7. n <= Len(R)
  BY <1>2, <1>3, <1>6
<1> HIDE DEF part, n
<1> DEFINE Q == [j \in 1 .. Len(R) - n |-> R[n + j]]
           d == [i \in 0 .. Len(cs) - 1 |-> b[i + 1] - n]
<1>8. IsSeq(Q) /\ Len(Q) = Len(R) - n
  <2>1. Len(R) - n \in Nat
    BY <1>4, <1>6, <1>7
  <2>2. Q = [j \in 1 .. Len(R) - n |-> Q[j]]
    OBVIOUS
  <2> HIDE DEF Q
  <2>3. QED
    BY <2>1, <2>2, BuiltSeq
<1>9. R = part \o Q
  <2>1. \A j \in 1 .. Len(R) - n : Q[j] = R[n + j]
    OBVIOUS
  <2> HIDE DEF Q
  <2>2. /\ IsSeq(part \o Q)
        /\ Len(part \o Q) = n + Len(Q)
        /\ \A i \in 1 .. n + Len(Q) : (part \o Q)[i] = IF i <= n THEN part[i] ELSE Q[i - n]
    BY <1>6, <1>8, ConcatFacts DEF n
  <2>3. n + Len(Q) = Len(R)
    BY <1>4, <1>6, <1>8
  <2>4. ASSUME NEW i \in 1 .. Len(R) PROVE (part \o Q)[i] = R[i]
    <3>1. CASE i <= n
      BY <1>6, <2>2, <2>3, <3>1
    <3>2. CASE ~(i <= n)
      <4>1. i - n \in 1 .. Len(R) - n /\ n + (i - n) = i
        BY <1>4, <1>6, <3>2
      <4>2. QED
        BY <2>1, <2>2, <2>3, <3>2, <4>1
    <3>3. QED
      BY <3>1, <3>2
  <2>5. QED
    BY <2>2, <2>3, <2>4, SeqsEqual
<1>10. \A i \in 1 .. Len(cs) : b[i] \in Nat /\ b[i] <= Len(R) /\ b[i] >= n
  <2> DEFINE T == {k \in Nat : k + 1 <= Len(cs) => b[k + 1] >= n}
  <2>1. 0 \in T
    BY <1>6
  <2>2. ASSUME NEW k \in Nat, k \in T PROVE k + 1 \in T
    <3> SUFFICES ASSUME k + 1 + 1 <= Len(cs) PROVE b[k + 1 + 1] >= n
      OBVIOUS
    <3>1. k + 1 + 1 \in 1 .. Len(cs) /\ k + 1 + 1 - 1 = k + 1 /\ k + 1 \in 0 .. Len(cs) /\ k + 1 <= Len(cs)
      BY <1>2
    <3>2. IsRun(cs[k + 1 + 1].groups, R, b[k + 1], b[k + 1 + 1])
      BY <1>1, <3>1 DEF Cuts
    <3>3. Len(cs[k + 1 + 1].groups) \in Nat /\ b[k + 1 + 1] = b[k + 1] + Len(cs[k + 1 + 1].groups)
      BY <3>2, SeqFacts DEF IsRun
    <3>4. b[k + 1] \in Nat /\ b[k + 1] >= n
      BY <1>3, <2>2, <3>1
    <3>5. QED
      BY <1>6, <3>3, <3>4
  <2>3. Nat \subseteq T
    <3> HIDE DEF T
    <3>1. QED
      BY <2>1, <2>2, NatSetInduction
  <2>4. ASSUME NEW i \in 1 .. Len(cs) PROVE b[i] \in Nat /\ b[i] <= Len(R) /\ b[i] >= n
    <3>1. i - 1 \in Nat /\ i - 1 + 1 = i /\ i <= Len(cs) /\ i \in 0 .. Len(cs)
      BY <1>2
    <3>2. b[i] >= n
      BY <2>3, <3>1
    <3>3. QED
      BY <1>3, <1>4, <3>1, <3>2
  <2>5. QED
    BY <2>4
<1>11. /\ d \in [0 .. Len(Tail(cs)) -> 0 .. Len(Q)]
       /\ d[0] = 0
       /\ d[Len(Tail(cs))] = Len(Q)
  <2>1. \A i \in 0 .. Len(cs) - 1 : i + 1 \in 1 .. Len(cs)
    BY <1>2
  <2>2. ASSUME NEW i \in 0 .. Len(cs) - 1 PROVE b[i + 1] - n \in 0 .. Len(Q)
    <3>1. b[i + 1] \in Nat /\ b[i + 1] <= Len(R) /\ b[i + 1] >= n
      BY <1>10, <2>1
    <3> HIDE DEF Q
    <3>2. QED
      BY <1>4, <1>6, <1>8, <3>1
  <2>3. 0 \in 0 .. Len(cs) - 1 /\ 0 + 1 = 1 /\ b[1] - n = 0
    BY <1>2, <1>6
  <2>4. Len(cs) - 1 \in 0 .. Len(cs) - 1 /\ Len(cs) - 1 + 1 = Len(cs)
    BY <1>2
  <2> HIDE DEF Q
  <2>5. QED
    BY <1>2, <1>3, <1>8, <2>2, <2>3, <2>4
<1>12. ASSUME NEW i \in 1 .. Len(Tail(cs))
       PROVE  IsRun(Tail(cs)[i].groups, Q, d[i - 1], d[i])
  <2>1. i \in 1 .. Len(cs) - 1
    BY <1>2
  <2>2. i + 1 \in 1 .. Len(cs) /\ i \in 0 .. Len(cs) - 1 /\ i - 1 \in 0 .. Len(cs) - 1 /\ i - 1 + 1 = i
        /\ i + 1 - 1 = i /\ i \in 1 .. Len(cs)
    BY <1>2, <2>1
  <2>3. d[i] = b[i + 1] - n /\ d[i - 1] = b[i] - n /\ Tail(cs)[i] = cs[i + 1]
    BY <1>2, <2>1, <2>2
  <2>4. PICK p : p = cs[i + 1].groups
    OBVIOUS
  <2>5. IsRun(p, R, b[i], b[i + 1])
    BY <1>1, <2>2, <2>4 DEF Cuts
  <2>6. IsSeq(p) /\ Len(p) \in Nat /\ b[i + 1] = b[i] + Len(p) /\ \A j \in 1 .. Len(p) : p[j] = R[b[i] + j]
    BY <2>5, SeqFacts DEF IsRun
  <2>7. b[i] \in Nat /\ b[i] >= n /\ b[i + 1] \in Nat /\ b[i + 1] <= Len(R)
    BY <1>10, <2>2
  <2>8. ASSUME NEW j \in 1 .. Len(p) PROVE p[j] = Q[(b[i] - n) + j]
    <3>1. (b[i] - n) + j \in 1 .. Len(R) - n /\ n + ((b[i] - n) + j) = b[i] + j
      BY <1>4, <1>6, <2>6, <2>7
    <3>2. QED
      BY <2>6, <3>1
  <2>9. b[i + 1] - n = (b[i] - n) + Len(p)
    BY <1>6, <2>6, <2>7
  <2> HIDE DEF d, Q
  <2>10. IsRun(p, Q, b[i] - n, b[i + 1] - n)
    BY <2>6, <2>8, <2>9 DEF IsRun
  <2>11. QED
    BY <2>3, <2>4, <2>10
<1> HIDE DEF d, Q
<1>13. Cuts(d, Tail(cs), Q)
  BY <1>11, <1>12 DEF Cuts
<1>14. QED
  BY <1>6, <1>8, <1>9, <1>13 DEF Flat, part
-----------------------------------------------------------------------------
(***************************************************************************)
(* The changesets are made of the scheduled groups, all of them and in     *)
(* their order.                                                            *)
(***************************************************************************)
LEMMA EmptyFits ==
  ASSUME system.limit \in Nat
  PROVE  Size({}) = 0 /\ ~TooBig(EmptyChangeset)
<1>1. Sum(system.sizes, {}) = 0
  BY FS_EmptySet, SumUnfolds
<1>2. Size({}) = 0
  BY <1>1 DEF Size, Sum
<1>3. QED
  BY <1>2 DEF TooBig, EmptyChangeset

\* What the loop over the groups has found, and what it is putting together.
SplitSoFar(acc, i) ==
    /\ IsSeq(acc.found)
    /\ IsSeq(acc.changeset.groups)
    /\ acc.changeset.downloads \subseteq Downloads
    /\ \A k \in DOMAIN acc.found : acc.found[k].downloads \subseteq Downloads
    /\ \E R : IsSeq(R) /\ Flat(acc.found, R) /\ Prefix(sequence, i) = R \o acc.changeset.groups
    /\ (i > 0 => acc.open = {} /\ ~sequence[i].continued) => acc.changeset.groups = <<>>

LEMMA SplitStarts == SplitSoFar(SplitStart, 0)
<1>1. Prefix(sequence, 0) = <<>>
  BY PrefixFacts, SeqFacts
<1>2. <<>> \o <<>> = <<>>
  OBVIOUS
<1>3. DOMAIN <<>> = {}
  BY EmptyFacts, SeqFacts
<1>4. QED
  BY <1>1, <1>2, <1>3, EmptyFacts, FlatEmpty DEF SplitSoFar, SplitStart, EmptyChangeset

LEMMA SplitGoesOn ==
  ASSUME IsSeq(sequence), NEW i \in Nat, i + 1 <= Len(sequence), NEW acc, SplitSoFar(acc, i)
  PROVE  SplitSoFar(AddGroup(acc, sequence[i + 1]), i + 1)
<1> DEFINE g == sequence[i + 1]
           unpacked == {Package(v) : v \in Done(g, "unpack")}
           open == (acc.open \cup unpacked) \ {Package(v) : v \in Done(g, "configure")}
           old == acc.changeset.groups
           new == Append(old, g)
           downloads == acc.changeset.downloads \cup (unpacked \cap Downloads)
           changeset == [groups |-> new, downloads |-> downloads]
           next == AddGroup(acc, g)
<1>1. next = IF open = {} /\ ~g.continued
             THEN [open |-> {}, changeset |-> EmptyChangeset, found |-> Append(acc.found, changeset)]
             ELSE [open |-> open, changeset |-> changeset, found |-> acc.found]
  BY DEF AddGroup
<1>2. downloads \subseteq Downloads
  BY DEF SplitSoFar
<1> HIDE DEF unpacked, open, downloads, next
<1>3. /\ IsSeq(acc.found) /\ IsSeq(old)
      /\ \A k \in DOMAIN acc.found : acc.found[k].downloads \subseteq Downloads
  BY DEF SplitSoFar
<1>4. PICK R : IsSeq(R) /\ Flat(acc.found, R) /\ Prefix(sequence, i) = R \o old
  BY DEF SplitSoFar
<1> HIDE DEF old
<1>5. /\ IsSeq(new)
      /\ Len(new) = Len(old) + 1
      /\ \A k \in 1 .. Len(old) : new[k] = old[k]
      /\ new[Len(old) + 1] = g
  BY <1>3, AppendFacts
<1>6. Prefix(sequence, i + 1) = R \o new
  <2>1. /\ IsSeq(R \o old)
        /\ Len(R \o old) = Len(R) + Len(old)
        /\ \A k \in 1 .. Len(R) + Len(old) : (R \o old)[k] = IF k <= Len(R) THEN R[k] ELSE old[k - Len(R)]
    BY <1>3, <1>4, ConcatFacts
  <2> HIDE DEF new
  <2>2. /\ IsSeq(R \o new)
        /\ Len(R \o new) = Len(R) + Len(new)
        /\ \A k \in 1 .. Len(R) + Len(new) : (R \o new)[k] = IF k <= Len(R) THEN R[k] ELSE new[k - Len(R)]
    BY <1>4, <1>5, ConcatFacts
  <2>3. /\ IsSeq(Prefix(sequence, i)) /\ Len(Prefix(sequence, i)) = i
        /\ \A k \in 1 .. i : Prefix(sequence, i)[k] = sequence[k]
    BY PrefixFacts
  <2>4. /\ IsSeq(Prefix(sequence, i + 1)) /\ Len(Prefix(sequence, i + 1)) = i + 1
        /\ \A k \in 1 .. i + 1 : Prefix(sequence, i + 1)[k] = sequence[k]
    BY PrefixFacts
  <2>5. Len(R) \in Nat /\ Len(old) \in Nat
    BY <1>3, <1>4, SeqFacts
  <2>6. i = Len(R) + Len(old)
    BY <1>4, <2>1, <2>3
  <2>7. Len(R \o new) = i + 1
    BY <1>5, <2>2, <2>5, <2>6
  <2>8. ASSUME NEW k \in 1 .. i + 1 PROVE (R \o new)[k] = sequence[k]
    <3>1. CASE k = i + 1
      <4>1. k \in 1 .. Len(R) + Len(new) /\ ~(k <= Len(R)) /\ k - Len(R) = Len(old) + 1
        BY <1>5, <2>5, <2>6, <3>1
      <4>2. QED
        BY <1>5, <2>2, <3>1, <4>1
    <3>2. CASE k # i + 1
      <4>1. k \in 1 .. i /\ k \in 1 .. Len(R) + Len(old) /\ k \in 1 .. Len(R) + Len(new)
        BY <1>5, <2>5, <2>6, <3>2
      <4>2. sequence[k] = IF k <= Len(R) THEN R[k] ELSE old[k - Len(R)]
        BY <1>4, <2>1, <2>3, <4>1
      <4>3. ~(k <= Len(R)) => k - Len(R) \in 1 .. Len(old)
        BY <2>5, <4>1
      <4>4. QED
        BY <1>5, <2>2, <4>1, <4>2, <4>3
    <3>3. QED
      BY <3>1, <3>2
  <2>9. QED
    BY <2>2, <2>4, <2>7, <2>8, SeqsEqual
<1> HIDE DEF g, new
<1>7. CASE open = {} /\ ~g.continued
  <2>1. /\ next.changeset = EmptyChangeset
        /\ next.found = Append(acc.found, changeset)
        /\ changeset.groups = new /\ changeset.downloads = downloads
    BY <1>1, <1>7
  <2> HIDE DEF changeset
  <2>2. /\ IsSeq(next.found)
        /\ Len(next.found) = Len(acc.found) + 1
        /\ \A k \in 1 .. Len(acc.found) : next.found[k] = acc.found[k]
        /\ next.found[Len(acc.found) + 1] = changeset
    BY <1>3, <2>1, AppendFacts
  <2>3. Flat(next.found, R \o new)
    BY <1>3, <1>4, <1>5, <2>1, FlatAppend
  <2>4. IsSeq(R \o new)
    BY <1>4, <1>5, ConcatFacts
  <2>5. (R \o new) \o <<>> = R \o new
    <3> DEFINE Q == R \o new
    <3>1. Q \in Seq({Q[k] : k \in DOMAIN Q})
      BY <2>4 DEF IsSeq
    <3> HIDE DEF Q
    <3>2. Q \o <<>> = Q
      BY <3>1, ConcatEmptySeq
    <3>3. QED
      BY <3>2 DEF Q
  <2>6. \A k \in DOMAIN next.found : next.found[k].downloads \subseteq Downloads
    <3>1. Len(acc.found) \in Nat /\ DOMAIN acc.found = 1 .. Len(acc.found) /\ DOMAIN next.found = 1 .. Len(acc.found) + 1
      BY <1>3, <2>2, SeqFacts
    <3>2. \A k \in DOMAIN next.found : k \in DOMAIN acc.found \/ k = Len(acc.found) + 1
      BY <3>1
    <3>3. QED
      BY <1>2, <1>3, <2>1, <2>2, <3>1, <3>2
  <2>7. next.changeset.groups = <<>> /\ next.changeset.downloads = {}
    BY <2>1 DEF EmptyChangeset
  <2>8. QED
    BY <1>6, <2>2, <2>3, <2>4, <2>5, <2>6, <2>7, EmptyFacts DEF SplitSoFar, next, g
<1>8. CASE ~(open = {} /\ ~g.continued)
  <2>1. /\ next.found = acc.found /\ next.changeset.groups = new /\ next.changeset.downloads = downloads
        /\ next.open = open
    BY <1>1, <1>8
  <2>2. ~(i + 1 > 0 => next.open = {} /\ ~sequence[i + 1].continued)
    BY <1>8, <2>1 DEF g
  <2>3. QED
    BY <1>2, <1>3, <1>4, <1>5, <1>6, <2>1, <2>2 DEF SplitSoFar, next, g
<1>9. QED
  BY <1>7, <1>8

\* No group is lost between the schedule and the changesets.
LEMMA SplitIsFlat ==
  ASSUME IsSeq(sequence), sequence # <<>> => ~sequence[Len(sequence)].continued,
         SplitIntoChangesets.open = {}
  PROVE  /\ IsSeq(SplitIntoChangesets.found)
         /\ Flat(SplitIntoChangesets.found, sequence)
         /\ \A k \in DOMAIN SplitIntoChangesets.found :
                SplitIntoChangesets.found[k].downloads \subseteq Downloads
<1>1. PICK acc : /\ acc[0] = SplitStart
                 /\ \A i \in 1 .. Len(sequence) : acc[i] = AddGroup(acc[i - 1], sequence[i])
                 /\ SplitIntoChangesets = acc[Len(sequence)]
  BY SplitRuns
<1> DEFINE T == {n \in Nat : n <= Len(sequence) => SplitSoFar(acc[n], n)}
<1>2. 0 \in T
  BY <1>1, SplitStarts
<1>3. ASSUME NEW n \in Nat, n \in T PROVE n + 1 \in T
  <2> SUFFICES ASSUME n + 1 <= Len(sequence) PROVE SplitSoFar(acc[n + 1], n + 1)
    OBVIOUS
  <2>1. Len(sequence) \in Nat
    BY SeqFacts
  <2>2. n + 1 \in 1 .. Len(sequence) /\ n + 1 - 1 = n /\ n <= Len(sequence)
    BY <2>1
  <2>3. acc[n + 1] = AddGroup(acc[n], sequence[n + 1])
    BY <1>1, <2>2
  <2>4. SplitSoFar(acc[n], n)
    BY <1>3, <2>2
  <2>5. QED
    BY <2>3, <2>4, SplitGoesOn
<1>4. Nat \subseteq T
  <2> HIDE DEF T
  <2>1. QED
    BY <1>2, <1>3, NatSetInduction
<1>5. Len(sequence) \in Nat /\ (sequence = <<>> <=> Len(sequence) = 0)
  BY SeqFacts
<1>6. SplitSoFar(SplitIntoChangesets, Len(sequence))
  BY <1>1, <1>4, <1>5
<1>7. SplitIntoChangesets.changeset.groups = <<>>
  BY <1>5, <1>6 DEF SplitSoFar
<1>8. PICK R : IsSeq(R) /\ Flat(SplitIntoChangesets.found, R) /\ Prefix(sequence, Len(sequence)) = R \o <<>>
  BY <1>6, <1>7 DEF SplitSoFar
<1>9. R \o <<>> = R
  BY <1>8, ConcatEmptySeq DEF IsSeq
<1>10. R = sequence
  BY <1>8, <1>9, FullPrefix
<1>11. QED
  BY <1>6, <1>8, <1>10 DEF SplitSoFar

\* Merging keeps the groups, their order, and what is to be downloaded.
MergedSoFar(acc, R, D) ==
    /\ IsSeq(acc)
    /\ acc # <<>>
    /\ Flat(acc, R)
    /\ \A k \in DOMAIN acc : ~TooBig(acc[k]) /\ acc[k].downloads \subseteq D

LEMMA MergeStarts ==
  ASSUME system.limit \in Nat, NEW D
  PROVE  MergedSoFar(<<EmptyChangeset>>, <<>>, D)
<1> DEFINE cs == <<EmptyChangeset>>
<1>1. cs \in Seq({EmptyChangeset}) /\ Len(cs) = 1 /\ cs[1] = EmptyChangeset /\ DOMAIN cs = {1} /\ cs # <<>>
  OBVIOUS
<1>2. IsSeq(cs)
  BY <1>1, SeqIsSeq
<1>3. Append(<<>>, EmptyChangeset) = cs
  OBVIOUS
<1>4. EmptyChangeset.groups = <<>> /\ EmptyChangeset.downloads = {}
  BY DEF EmptyChangeset
<1>5. <<>> \o <<>> = <<>>
  OBVIOUS
<1> HIDE DEF cs
<1>6. Flat(cs, <<>>)
  BY <1>3, <1>4, <1>5, EmptyFacts, FlatEmpty, FlatAppend
<1>7. \A k \in DOMAIN cs : ~TooBig(cs[k]) /\ cs[k].downloads \subseteq D
  BY <1>1, <1>4, EmptyFits
<1>8. QED
  BY <1>1, <1>2, <1>6, <1>7 DEF MergedSoFar, cs

LEMMA MergeGoesOn ==
  ASSUME NEW acc, NEW R, NEW D, NEW next, IsSeq(R), MergedSoFar(acc, R, D),
         IsSeq(next.groups), ~TooBig(next), next.downloads \subseteq D
  PROVE  MergedSoFar(MergeNext(acc, next), R \o next.groups, D)
<1>1. IsSeq(acc) /\ acc # <<>> /\ Flat(acc, R)
      /\ \A k \in DOMAIN acc : ~TooBig(acc[k]) /\ acc[k].downloads \subseteq D
  BY DEF MergedSoFar
<1>2. Len(acc) \in Nat \ {0} /\ DOMAIN acc = 1 .. Len(acc)
  BY <1>1, SeqFacts
<1>3. Last(acc) = acc[Len(acc)]
  BY DEF Last
<1> DEFINE both == [groups |-> Last(acc).groups \o next.groups,
                    downloads |-> Last(acc).downloads \cup next.downloads]
           new == MergeNext(acc, next)
<1>4. new = IF TooBig(both) THEN Append(acc, next) ELSE Append(Front(acc), both)
  BY DEF MergeNext
<1>5. both.groups = acc[Len(acc)].groups \o next.groups /\ both.downloads \subseteq D
  <2>1. acc[Len(acc)].downloads \subseteq D
    BY <1>1, <1>2
  <2>2. QED
    BY <1>3, <2>1
<1> HIDE DEF both, new
<1>6. CASE TooBig(both)
  <2>1. new = Append(acc, next)
    BY <1>4, <1>6
  <2>2. /\ IsSeq(new)
        /\ Len(new) = Len(acc) + 1
        /\ \A k \in 1 .. Len(acc) : new[k] = acc[k]
        /\ new[Len(acc) + 1] = next
    BY <1>1, <2>1, AppendFacts
  <2>3. Flat(new, R \o next.groups)
    BY <1>1, <2>1, FlatAppend
  <2>4. DOMAIN new = 1 .. Len(acc) + 1 /\ Len(new) # 0
    BY <1>2, <2>2, SeqFacts
  <2>5. \A k \in DOMAIN new : k \in DOMAIN acc \/ k = Len(acc) + 1
    BY <1>2, <2>4
  <2>6. \A k \in DOMAIN new : ~TooBig(new[k]) /\ new[k].downloads \subseteq D
    BY <1>1, <1>2, <2>2, <2>5
  <2>7. new # <<>>
    BY <2>2, <2>4, SeqFacts
  <2>8. QED
    BY <2>2, <2>3, <2>6, <2>7 DEF MergedSoFar, new
<1>7. CASE ~TooBig(both)
  <2>1. new = Append(Front(acc), both)
    BY <1>4, <1>7
  <2>2. /\ IsSeq(new)
        /\ Len(new) = Len(acc)
        /\ \A k \in 1 .. Len(acc) - 1 : new[k] = acc[k]
        /\ new[Len(acc)] = both
    BY <1>1, <2>1, FrontFacts
  <2>3. Flat(new, R \o next.groups)
    BY <1>1, <1>5, <2>1, FlatGrow
  <2>4. DOMAIN new = 1 .. Len(acc) /\ Len(new) # 0
    BY <1>2, <2>2, SeqFacts
  <2>5. \A k \in DOMAIN new : (k \in 1 .. Len(acc) - 1 /\ k \in DOMAIN acc) \/ k = Len(acc)
    BY <1>2, <2>4
  <2>6. \A k \in DOMAIN new : ~TooBig(new[k]) /\ new[k].downloads \subseteq D
    BY <1>1, <1>5, <1>7, <2>2, <2>5
  <2>7. new # <<>>
    BY <2>2, <2>4, SeqFacts
  <2>8. QED
    BY <2>2, <2>3, <2>6, <2>7 DEF MergedSoFar, new
<1>8. QED
  BY <1>6, <1>7

LEMMA MergedIsFlat ==
  ASSUME system.limit \in Nat, NEW split, NEW R, NEW D, IsSeq(split), IsSeq(R), Flat(split, R),
         \A k \in DOMAIN split : ~TooBig(split[k]) /\ split[k].downloads \subseteq D
  PROVE  MergedSoFar(Merged(split), R, D)
<1>1. PICK acc : /\ acc[0] = <<EmptyChangeset>>
                 /\ \A i \in 1 .. Len(split) : acc[i] = MergeNext(acc[i - 1], split[i])
                 /\ Merged(split) = acc[Len(split)]
  BY MergeRuns
<1>2. PICK b : Cuts(b, split, R)
  BY DEF Flat
<1>3. b \in [0 .. Len(split) -> 0 .. Len(R)] /\ b[0] = 0 /\ b[Len(split)] = Len(R)
  BY <1>2 DEF Cuts
<1>4. Len(split) \in Nat /\ DOMAIN split = 1 .. Len(split) /\ Len(R) \in Nat
  BY SeqFacts
<1> DEFINE T == {n \in Nat : n <= Len(split) => MergedSoFar(acc[n], Prefix(R, b[n]), D)}
<1>5. 0 \in T
  <2>1. Prefix(R, 0) = <<>>
    BY PrefixFacts, SeqFacts
  <2>2. QED
    BY <1>1, <1>3, <2>1, MergeStarts
<1>6. ASSUME NEW n \in Nat, n \in T PROVE n + 1 \in T
  <2> SUFFICES ASSUME n + 1 <= Len(split) PROVE MergedSoFar(acc[n + 1], Prefix(R, b[n + 1]), D)
    OBVIOUS
  <2>1. n + 1 \in 1 .. Len(split) /\ n + 1 - 1 = n /\ n <= Len(split) /\ {n, n + 1} \subseteq 0 .. Len(split)
    BY <1>4
  <2>2. PICK next : next = split[n + 1]
    OBVIOUS
  <2>3. acc[n + 1] = MergeNext(acc[n], next)
    BY <1>1, <2>1, <2>2
  <2>4. MergedSoFar(acc[n], Prefix(R, b[n]), D)
    BY <1>6, <2>1
  <2>5. ~TooBig(next) /\ next.downloads \subseteq D
    BY <1>4, <2>1, <2>2
  <2> DEFINE p == next.groups
  <2>6. IsRun(p, R, b[n], b[n + 1])
    BY <1>2, <2>1, <2>2 DEF Cuts
  <2>7. IsSeq(p) /\ b[n + 1] = b[n] + Len(p) /\ \A j \in 1 .. Len(p) : p[j] = R[b[n] + j]
    BY <2>6 DEF IsRun
  <2>8. Len(p) \in Nat /\ b[n] \in Nat /\ b[n + 1] \in Nat
    BY <1>3, <1>4, <2>1, <2>7, SeqFacts
  <2>9. Prefix(R, b[n]) \o p = Prefix(R, b[n + 1])
    <3> HIDE DEF p
    <3>1. IsSeq(Prefix(R, b[n])) /\ Len(Prefix(R, b[n])) = b[n] /\ \A i \in 1 .. b[n] : Prefix(R, b[n])[i] = R[i]
      BY <2>8, PrefixFacts
    <3>2. /\ IsSeq(Prefix(R, b[n + 1])) /\ Len(Prefix(R, b[n + 1])) = b[n + 1]
          /\ \A i \in 1 .. b[n + 1] : Prefix(R, b[n + 1])[i] = R[i]
      BY <2>8, PrefixFacts
    <3> DEFINE q == Prefix(R, b[n])
    <3>3. IsSeq(q) /\ Len(q) = b[n] /\ \A i \in 1 .. b[n] : q[i] = R[i]
      BY <3>1
    <3> HIDE DEF q
    <3>4. /\ IsSeq(q \o p)
          /\ Len(q \o p) = Len(q) + Len(p)
          /\ \A i \in 1 .. Len(q) + Len(p) : (q \o p)[i] = IF i <= Len(q) THEN q[i] ELSE p[i - Len(q)]
      BY <2>7, <3>3, ConcatFacts
    <3>5. ASSUME NEW i \in 1 .. b[n + 1] PROVE (q \o p)[i] = R[i]
      <4>1. i \in 1 .. Len(q) + Len(p)
        BY <2>7, <3>3
      <4>2. CASE i <= b[n]
        BY <3>3, <3>4, <4>1, <4>2
      <4>3. CASE ~(i <= b[n])
        <5>1. i - b[n] \in 1 .. Len(p) /\ b[n] + (i - b[n]) = i
          BY <2>7, <2>8, <4>3
        <5>2. QED
          BY <2>7, <3>3, <3>4, <4>1, <4>3, <5>1
      <4>4. QED
        BY <4>2, <4>3
    <3>6. q \o p = Prefix(R, b[n + 1])
      <4> DEFINE u == Prefix(R, b[n + 1])
                 v == q \o p
      <4>1. IsSeq(u) /\ IsSeq(v) /\ Len(u) = b[n + 1] /\ Len(v) = b[n + 1]
        BY <2>7, <3>2, <3>3, <3>4
      <4>2. \A i \in 1 .. Len(v) : v[i] = u[i]
        BY <3>2, <3>5, <4>1
      <4> HIDE DEF u, v
      <4>3. v = u
        BY <4>1, <4>2, SeqsEqual
      <4>4. QED
        BY <4>3 DEF u, v
    <3>7. QED
      BY <3>6 DEF q
  <2>10. IsSeq(Prefix(R, b[n]))
    BY <2>8, PrefixFacts
  <2>11. MergedSoFar(MergeNext(acc[n], next), Prefix(R, b[n]) \o next.groups, D)
    BY <2>4, <2>5, <2>7, <2>10, MergeGoesOn
  <2>12. QED
    BY <2>3, <2>9, <2>11
<1>7. Nat \subseteq T
  <2> HIDE DEF T
  <2>1. QED
    BY <1>5, <1>6, NatSetInduction
<1>8. QED
  BY <1>1, <1>3, <1>4, <1>7, FullPrefix
-----------------------------------------------------------------------------
(***************************************************************************)
(* The schedule.  Line is what has been scheduled, what is being split,    *)
(* and what waits, in the order in which dpkg will do it; at any time it   *)
(* has all actions of the tasks, none before the ones it follows           *)
(* (LineOK).  Splitting keeps this because the edges of a task are         *)
(* fundamental: no pass over the graph moves or gives them up (GraphOK),   *)
(* and the sort respects them (OrderOK).                                   *)
(***************************************************************************)
TaskSteps(sys) ==
    UNION {{<<ActionOf(sys, p, Task(sys, p)[i - 1]), ActionOf(sys, p, Task(sys, p)[i])>> :
                i \in {j \in DOMAIN Task(sys, p) : j > 1}} : p \in Packages(sys)}

Covers(sys, L) == \A a \in TaskActions(sys) : \E i \in DOMAIN L : a \in L[i].actions
Followed(sys, L) ==
    \A e \in TaskSteps(sys) : \A i \in DOMAIN L :
        e[1] \in L[i].actions => \E j \in DOMAIN L : i <= j /\ e[2] \in L[j].actions

LineOK(sys, L) ==
    /\ IsSeq(L)
    /\ \A i \in DOMAIN L : L[i].actions \subseteq TaskActions(sys)
    /\ Covers(sys, L)
    /\ Followed(sys, L)
    /\ L # <<>> => ~L[Len(L)].continued

Line3(s, x, t) == (s \o <<x>>) \o t

Computing == status \in {"expanding", "prioritising", "sorting"}

GraphOK(sys, g) ==
    /\ {"actions", "fundamental", "info", "potential", "links"} \subseteq DOMAIN g
    /\ \A e \in TaskSteps(sys) : e[1] \in g.actions /\ e[2] \in g.actions => e \in g.fundamental /\ e \in Edges(g)

OrderOK(g, o) ==
    /\ IsSeq(o)
    /\ \A i \in DOMAIN o : o[i] \subseteq g.actions
    /\ \A i \in DOMAIN o : \A e \in Edges(g) : e[2] \in o[i] => \E j \in DOMAIN o : j <= i /\ e[1] \in o[j]
    /\ \A i, j \in DOMAIN o : i # j => o[i] \cap o[j] = {}

WaitingOK(sys, w) == GraphOK(sys, w.graph) /\ w.actions \subseteq w.graph.actions /\ w.level \in Nat

SchedOK ==
    /\ status \in {"expanding", "prioritising", "sorting", "splitting", "circular", "scheduled"}
    /\ IsSeq(sequence) /\ IsSeq(waiting)
    /\ LineOK(system, IF Computing THEN Line3(sequence, item, waiting) ELSE sequence \o waiting)
    /\ Computing =>
        /\ GraphOK(system, graph) /\ graph.actions = item.actions /\ OrderOK(graph, order)
        /\ item.level \in Nat
        /\ item.actions = {} => sequence = <<>> /\ waiting = <<>>
    /\ status # "sorting" => order = <<>>
    /\ status = "scheduled" => waiting = <<>>
    /\ \A i \in DOMAIN waiting : WaitingOK(system, waiting[i])
    /\ \A i \in DOMAIN sequence : Allowed(sequence[i].actions)

\* Where the elements of a line are.
LEMMA Line3Facts ==
  ASSUME NEW s, NEW x, NEW t, IsSeq(s), IsSeq(t)
  PROVE  /\ IsSeq(Line3(s, x, t))
         /\ Len(Line3(s, x, t)) = Len(s) + 1 + Len(t)
         /\ \A i \in 1 .. Len(s) : Line3(s, x, t)[i] = s[i]
         /\ Line3(s, x, t)[Len(s) + 1] = x
         /\ \A i \in 1 .. Len(t) : Line3(s, x, t)[Len(s) + 1 + i] = t[i]
<1> DEFINE u == <<x>>
           v == s \o u
<1>1. IsSeq(u) /\ Len(u) = 1 /\ u[1] = x
  <2>1. u \in Seq({x}) /\ Len(u) = 1 /\ u[1] = x
    OBVIOUS
  <2>2. QED
    BY <2>1, SeqIsSeq
<1> HIDE DEF u
<1>2. /\ IsSeq(v)
      /\ Len(v) = Len(s) + Len(u)
      /\ \A i \in 1 .. Len(s) : v[i] = s[i]
      /\ \A i \in 1 .. Len(u) : v[Len(s) + i] = u[i]
  <2>1. IsSeq(u)
    BY <1>1
  <2>2. QED
    BY <2>1, ConcatFacts
<1>3. Len(s) \in Nat /\ Len(t) \in Nat
  BY SeqFacts
<1> HIDE DEF v
<1>4. Len(v) = Len(s) + 1 /\ v[Len(s) + 1] = x
  BY <1>1, <1>2
<1>5. /\ IsSeq(v \o t)
      /\ Len(v \o t) = Len(v) + Len(t)
      /\ \A i \in 1 .. Len(v) : (v \o t)[i] = v[i]
      /\ \A i \in 1 .. Len(t) : (v \o t)[Len(v) + i] = t[i]
  <2>1. IsSeq(v)
    BY <1>2
  <2>2. QED
    BY <2>1, ConcatFacts
<1>6. \A i \in 1 .. Len(s) : i \in 1 .. Len(v)
  BY <1>3, <1>4
<1>7. Len(s) + 1 \in 1 .. Len(v)
  BY <1>3, <1>4
<1>8. QED
  BY <1>2, <1>4, <1>5, <1>6, <1>7 DEF Line3, v, u

\* The first of those that wait may be shown by itself.
LEMMA LineOfWaiting ==
  ASSUME NEW s, NEW t, IsSeq(s), IsSeq(t), t # <<>>
  PROVE  s \o t = Line3(s, Head(t), Tail(t))
<1> DEFINE h == Head(t)
           r == Tail(t)
           L == Line3(s, h, r)
           M == s \o t
<1>1. /\ IsSeq(r) /\ Len(r) = Len(t) - 1
      /\ \A i \in 1 .. Len(t) - 1 : r[i] = t[i + 1]
      /\ h = t[1] /\ Len(t) \in Nat \ {0}
  BY TailFacts
<1> HIDE DEF h, r
<1>2. /\ IsSeq(L) /\ Len(L) = Len(s) + 1 + Len(r)
      /\ \A i \in 1 .. Len(s) : L[i] = s[i]
      /\ L[Len(s) + 1] = h
      /\ \A i \in 1 .. Len(r) : L[Len(s) + 1 + i] = r[i]
  <2>1. IsSeq(r)
    BY <1>1
  <2>2. QED
    BY <2>1, Line3Facts
<1>3. /\ IsSeq(M) /\ Len(M) = Len(s) + Len(t)
      /\ \A i \in 1 .. Len(s) : M[i] = s[i]
      /\ \A i \in 1 .. Len(t) : M[Len(s) + i] = t[i]
  BY ConcatFacts
<1>4. Len(s) \in Nat
  BY SeqFacts
<1> HIDE DEF L, M
<1>5. ASSUME NEW i \in 1 .. Len(M) PROVE M[i] = L[i]
  <2>1. CASE i <= Len(s)
    BY <1>2, <1>3, <1>4, <2>1
  <2>2. CASE i = Len(s) + 1
    <3>1. 1 \in 1 .. Len(t)
      BY <1>1
    <3>2. QED
      BY <1>1, <1>2, <1>3, <2>2, <3>1
  <2>3. CASE ~(i <= Len(s)) /\ i # Len(s) + 1
    <3>1. PICK k \in 1 .. Len(r) : i = Len(s) + 1 + k /\ k + 1 \in 1 .. Len(t) /\ Len(s) + (k + 1) = i
      <4>1. i - Len(s) - 1 \in 1 .. Len(r)
        BY <1>1, <1>3, <1>4, <2>3
      <4>2. i = Len(s) + 1 + (i - Len(s) - 1) /\ i - Len(s) - 1 + 1 \in 1 .. Len(t)
            /\ Len(s) + (i - Len(s) - 1 + 1) = i
        BY <1>1, <1>3, <1>4, <2>3
      <4>3. QED
        BY <4>1, <4>2
    <3>2. L[i] = r[k] /\ M[i] = t[k + 1]
      BY <1>2, <1>3, <3>1
    <3>3. QED
      BY <1>1, <3>1, <3>2
  <2>4. QED
    BY <2>1, <2>2, <2>3
<1>6. Len(M) = Len(L)
  BY <1>1, <1>2, <1>3, <1>4
<1>7. M = L
  BY <1>2, <1>3, <1>5, <1>6, SeqsEqual
<1>8. QED
  BY <1>7 DEF L, M, h, r

\* What a line is worth does not depend on flags.
LEMMA SameLine ==
  ASSUME NEW sys, NEW s, NEW x, NEW y, NEW t, IsSeq(s), IsSeq(t), LineOK(sys, Line3(s, x, t)),
         y.actions = x.actions, y.continued = x.continued
  PROVE  LineOK(sys, Line3(s, y, t))
<1> DEFINE L == Line3(s, x, t)
           M == Line3(s, y, t)
<1>1. Len(s) \in Nat /\ Len(t) \in Nat
  BY SeqFacts
<1>2. /\ IsSeq(L) /\ Len(L) = Len(s) + 1 + Len(t)
      /\ \A i \in 1 .. Len(s) : L[i] = s[i]
      /\ L[Len(s) + 1] = x
      /\ \A i \in 1 .. Len(t) : L[Len(s) + 1 + i] = t[i]
  BY Line3Facts
<1>3. /\ IsSeq(M) /\ Len(M) = Len(s) + 1 + Len(t)
      /\ \A i \in 1 .. Len(s) : M[i] = s[i]
      /\ M[Len(s) + 1] = y
      /\ \A i \in 1 .. Len(t) : M[Len(s) + 1 + i] = t[i]
  BY Line3Facts
<1>4. LineOK(sys, L)
  OBVIOUS
<1> HIDE DEF L, M
<1>5. DOMAIN L = 1 .. Len(L) /\ DOMAIN M = 1 .. Len(L) /\ Len(M) = Len(L)
  BY <1>2, <1>3, SeqFacts
<1>6. ASSUME NEW i \in 1 .. Len(L) PROVE M[i].actions = L[i].actions /\ M[i].continued = L[i].continued
  <2>1. CASE i <= Len(s)
    BY <1>1, <1>2, <1>3, <2>1
  <2>2. CASE i = Len(s) + 1
    BY <1>2, <1>3, <2>2
  <2>3. CASE ~(i <= Len(s)) /\ i # Len(s) + 1
    <3>1. i - Len(s) - 1 \in 1 .. Len(t) /\ i = Len(s) + 1 + (i - Len(s) - 1)
      BY <1>1, <1>2, <2>3
    <3>2. QED
      BY <1>2, <1>3, <3>1
  <2>4. QED
    BY <2>1, <2>2, <2>3
<1>7. L # <<>> /\ M # <<>> /\ Len(L) \in 1 .. Len(L)
  BY <1>1, <1>2, <1>3, SeqFacts
<1>8. \A i \in DOMAIN M : M[i].actions \subseteq TaskActions(sys)
  BY <1>4, <1>5, <1>6 DEF LineOK
<1>9. Covers(sys, M)
  BY <1>4, <1>5, <1>6 DEF LineOK, Covers
<1>10. Followed(sys, M)
  BY <1>4, <1>5, <1>6 DEF LineOK, Followed
<1>11. ~M[Len(M)].continued
  BY <1>4, <1>5, <1>6, <1>7 DEF LineOK
<1>12. QED
  BY <1>3, <1>8, <1>9, <1>10, <1>11 DEF LineOK, M

\* One element gives way to the groups it is split into.
LEMMA FinerLine ==
  ASSUME NEW sys, NEW s, NEW x, NEW t, NEW o, IsSeq(s), IsSeq(t), IsSeq(o), LineOK(sys, Line3(s, x, t)),
         \A i \in DOMAIN o : o[i].actions \subseteq x.actions,
         \A a \in x.actions : \E i \in DOMAIN o : a \in o[i].actions,
         \A e \in TaskSteps(sys) : \A i \in DOMAIN o :
            e[1] \in o[i].actions /\ e[2] \in x.actions => \E j \in DOMAIN o : i <= j /\ e[2] \in o[j].actions,
         o # <<>> => (o[Len(o)].continued => x.continued),
         o = <<>> => s = <<>> /\ t = <<>>
  PROVE  LineOK(sys, s \o (o \o t))
<1> DEFINE L == Line3(s, x, t)
           q == o \o t
           M == s \o q
<1>1. Len(s) \in Nat /\ Len(t) \in Nat /\ Len(o) \in Nat /\ DOMAIN o = 1 .. Len(o)
  BY SeqFacts
<1>2. /\ IsSeq(L) /\ Len(L) = Len(s) + 1 + Len(t)
      /\ \A i \in 1 .. Len(s) : L[i] = s[i]
      /\ L[Len(s) + 1] = x
      /\ \A i \in 1 .. Len(t) : L[Len(s) + 1 + i] = t[i]
  BY Line3Facts
<1>3. /\ IsSeq(q) /\ Len(q) = Len(o) + Len(t)
      /\ \A i \in 1 .. Len(o) : q[i] = o[i]
      /\ \A i \in 1 .. Len(t) : q[Len(o) + i] = t[i]
  BY ConcatFacts
<1> HIDE DEF q
<1>4. /\ IsSeq(M) /\ Len(M) = Len(s) + Len(q)
      /\ \A i \in 1 .. Len(s) : M[i] = s[i]
      /\ \A i \in 1 .. Len(q) : M[Len(s) + i] = q[i]
  BY <1>3, ConcatFacts
<1>5. LineOK(sys, L)
  OBVIOUS
<1> HIDE DEF L, M
<1>6. Len(M) = Len(s) + Len(o) + Len(t)
  BY <1>1, <1>3, <1>4
<1>7. DOMAIN L = 1 .. Len(L) /\ DOMAIN M = 1 .. Len(M)
  BY <1>2, <1>4, SeqFacts
<1>8. \A i \in 1 .. Len(s) : i \in DOMAIN L /\ i \in DOMAIN M /\ M[i] = L[i]
  BY <1>1, <1>2, <1>4, <1>6, <1>7
<1>9. \A k \in 1 .. Len(o) : Len(s) + k \in DOMAIN M /\ M[Len(s) + k] = o[k]
  <2>1. \A k \in 1 .. Len(o) : k \in 1 .. Len(q) /\ Len(s) + k \in 1 .. Len(M)
    BY <1>1, <1>3, <1>6
  <2>2. QED
    BY <1>3, <1>4, <1>7, <2>1
<1>10. ASSUME NEW k \in 1 .. Len(t)
       PROVE  /\ Len(s) + Len(o) + k \in DOMAIN M
              /\ Len(s) + 1 + k \in DOMAIN L
              /\ M[Len(s) + Len(o) + k] = L[Len(s) + 1 + k]
  <2>1. /\ Len(o) + k \in 1 .. Len(q) /\ Len(s) + (Len(o) + k) = Len(s) + Len(o) + k
        /\ Len(s) + Len(o) + k \in 1 .. Len(M) /\ Len(s) + 1 + k \in 1 .. Len(L)
    BY <1>1, <1>2, <1>3, <1>6
  <2>2. QED
    BY <1>2, <1>3, <1>4, <1>7, <2>1
<1>11. ASSUME NEW i \in DOMAIN M
       PROVE  \/ i \in 1 .. Len(s)
              \/ \E k \in 1 .. Len(o) : i = Len(s) + k
              \/ \E k \in 1 .. Len(t) : i = Len(s) + Len(o) + k
  <2>1. CASE i > Len(s) /\ i <= Len(s) + Len(o)
    <3>1. i - Len(s) \in 1 .. Len(o) /\ i = Len(s) + (i - Len(s))
      BY <1>1, <1>7, <2>1
    <3>2. QED
      BY <3>1
  <2>2. CASE i > Len(s) + Len(o)
    <3>1. i - Len(s) - Len(o) \in 1 .. Len(t) /\ i = Len(s) + Len(o) + (i - Len(s) - Len(o))
      BY <1>1, <1>6, <1>7, <2>2
    <3>2. QED
      BY <3>1
  <2>3. CASE i <= Len(s)
    BY <1>1, <1>7, <2>3
  <2>4. QED
    BY <1>1, <1>7, <2>1, <2>2, <2>3
<1>12. ASSUME NEW i \in DOMAIN L
       PROVE  \/ i \in 1 .. Len(s)
              \/ i = Len(s) + 1
              \/ \E k \in 1 .. Len(t) : i = Len(s) + 1 + k
  <2>1. CASE i > Len(s) + 1
    <3>0. i \in Nat /\ i <= Len(s) + 1 + Len(t)
      BY <1>1, <1>2, <1>7
    <3>1. i - Len(s) - 1 \in 1 .. Len(t) /\ i = Len(s) + 1 + (i - Len(s) - 1)
      BY <1>1, <2>1, <3>0
    <3>2. QED
      BY <3>1
  <2>2. QED
    BY <1>1, <1>7, <2>1
<1>13. Len(s) + 1 \in DOMAIN L
  BY <1>1, <1>2, <1>7
<1>14. \A i \in DOMAIN M : M[i].actions \subseteq TaskActions(sys)
  <2>1. \A i \in DOMAIN L : L[i].actions \subseteq TaskActions(sys)
    BY <1>5 DEF LineOK
  <2>2. x.actions \subseteq TaskActions(sys)
    BY <1>2, <1>13, <2>1
  <2> SUFFICES ASSUME NEW i \in DOMAIN M PROVE M[i].actions \subseteq TaskActions(sys)
    OBVIOUS
  <2>3. CASE i \in 1 .. Len(s)
    BY <1>8, <2>1, <2>3
  <2>4. CASE \E k \in 1 .. Len(o) : i = Len(s) + k
    <3>1. PICK k \in 1 .. Len(o) : i = Len(s) + k
      BY <2>4
    <3>2. M[i].actions \subseteq x.actions
      BY <1>1, <1>9, <3>1
    <3>3. QED
      BY <2>2, <3>2
  <2>5. CASE \E k \in 1 .. Len(t) : i = Len(s) + Len(o) + k
    BY <1>10, <2>1, <2>5
  <2>6. QED
    BY <1>11, <2>3, <2>4, <2>5
<1>15. Covers(sys, M)
  <2> SUFFICES ASSUME NEW a \in TaskActions(sys) PROVE \E i \in DOMAIN M : a \in M[i].actions
    BY DEF Covers
  <2>1. PICK i \in DOMAIN L : a \in L[i].actions
    BY <1>5 DEF LineOK, Covers
  <2>2. CASE i \in 1 .. Len(s)
    BY <1>8, <2>1, <2>2
  <2>3. CASE i = Len(s) + 1
    <3>1. PICK k \in DOMAIN o : a \in o[k].actions
      BY <1>2, <2>1, <2>3
    <3>2. QED
      BY <1>1, <1>9, <3>1
  <2>4. CASE \E k \in 1 .. Len(t) : i = Len(s) + 1 + k
    BY <1>10, <2>1, <2>4
  <2>5. QED
    BY <1>12, <2>2, <2>3, <2>4
<1>16. Followed(sys, M)
  <2> SUFFICES ASSUME NEW e \in TaskSteps(sys), NEW i \in DOMAIN M, e[1] \in M[i].actions
               PROVE  \E j \in DOMAIN M : i <= j /\ e[2] \in M[j].actions
    BY DEF Followed
  <2>0. \A h \in DOMAIN L : e[1] \in L[h].actions => \E j \in DOMAIN L : h <= j /\ e[2] \in L[j].actions
    BY <1>5 DEF LineOK, Followed
  <2>1. ASSUME NEW k \in 1 .. Len(t), e[2] \in L[Len(s) + 1 + k].actions, i <= Len(s) + Len(o) + k
        PROVE  \E j \in DOMAIN M : i <= j /\ e[2] \in M[j].actions
    BY <1>10, <2>1
  <2>2. CASE i \in 1 .. Len(s)
    <3>1. PICK j \in DOMAIN L : i <= j /\ e[2] \in L[j].actions
      BY <1>8, <2>0, <2>2
    <3>2. CASE j \in 1 .. Len(s)
      BY <1>8, <3>1, <3>2
    <3>3. CASE j = Len(s) + 1
      <4>1. PICK k \in DOMAIN o : e[2] \in o[k].actions
        BY <1>2, <3>1, <3>3
      <4>2. i <= Len(s) + k
        BY <1>1, <2>2
      <4>3. QED
        BY <1>1, <1>9, <4>1, <4>2
    <3>4. CASE \E k \in 1 .. Len(t) : j = Len(s) + 1 + k
      <4>1. PICK k \in 1 .. Len(t) : j = Len(s) + 1 + k
        BY <3>4
      <4>2. i <= Len(s) + Len(o) + k
        BY <1>1, <2>2
      <4>3. QED
        BY <2>1, <3>1, <4>1, <4>2
    <3>5. QED
      BY <1>12, <3>2, <3>3, <3>4
  <2>3. ASSUME NEW k \in 1 .. Len(o), i = Len(s) + k
        PROVE  \E j \in DOMAIN M : i <= j /\ e[2] \in M[j].actions
    <3>1. e[1] \in o[k].actions
      BY <1>9, <2>3
    <3>2. e[1] \in L[Len(s) + 1].actions
      BY <1>1, <1>2, <3>1
    <3>3. PICK j \in DOMAIN L : Len(s) + 1 <= j /\ e[2] \in L[j].actions
      BY <1>13, <2>0, <3>2
    <3>4. CASE j = Len(s) + 1
      <4>1. PICK l \in DOMAIN o : k <= l /\ e[2] \in o[l].actions
        BY <1>1, <1>2, <3>1, <3>3, <3>4
      <4>2. i <= Len(s) + l
        BY <1>1, <2>3, <4>1
      <4>3. QED
        BY <1>1, <1>9, <4>1, <4>2
    <3>5. CASE \E l \in 1 .. Len(t) : j = Len(s) + 1 + l
      <4>1. PICK l \in 1 .. Len(t) : j = Len(s) + 1 + l
        BY <3>5
      <4>2. i <= Len(s) + Len(o) + l
        BY <1>1, <2>3
      <4>3. QED
        BY <2>1, <3>3, <4>1, <4>2
    <3>6. j \notin 1 .. Len(s)
      BY <1>1, <1>7, <3>3
    <3>7. QED
      BY <1>12, <3>4, <3>5, <3>6
  <2>4. ASSUME NEW k \in 1 .. Len(t), i = Len(s) + Len(o) + k
        PROVE  \E j \in DOMAIN M : i <= j /\ e[2] \in M[j].actions
    <3>1. PICK j \in DOMAIN L : Len(s) + 1 + k <= j /\ e[2] \in L[j].actions
      BY <1>10, <2>0, <2>4
    <3>2. PICK l \in 1 .. Len(t) : j = Len(s) + 1 + l
      <4>1. j \notin 1 .. Len(s) /\ j # Len(s) + 1
        BY <1>1, <1>7, <3>1
      <4>2. QED
        BY <1>12, <4>1
    <3>3. i <= Len(s) + Len(o) + l
      BY <1>1, <2>4, <3>1, <3>2
    <3>4. QED
      BY <2>1, <3>1, <3>2, <3>3
  <2>5. QED
    BY <1>11, <2>2, <2>3, <2>4
<1>17. ASSUME M # <<>> PROVE ~M[Len(M)].continued
  <2>0. ~L[Len(L)].continued
    <3>1. L # <<>>
      BY <1>1, <1>2, SeqFacts
    <3>2. QED
      BY <1>5, <3>1 DEF LineOK
  <2>1. CASE t # <<>>
    <3>1. Len(t) \in 1 .. Len(t)
      BY <1>1, <2>1, SeqFacts
    <3>2. M[Len(M)] = L[Len(L)]
      BY <1>2, <1>6, <1>10, <3>1
    <3>3. QED
      BY <2>0, <3>2
  <2>2. CASE t = <<>>
    <3>1. Len(t) = 0
      BY <2>2, SeqFacts
    <3>2. o # <<>>
      <4> SUFFICES ASSUME o = <<>> PROVE FALSE
        OBVIOUS
      <4>1. Len(o) = 0 /\ s = <<>> /\ Len(s) = 0
        BY SeqFacts
      <4>2. Len(M) = 0
        BY <1>6, <3>1, <4>1
      <4>3. QED
        BY <1>4, <1>17, <4>2, SeqFacts
    <3>3. Len(o) \in 1 .. Len(o)
      BY <1>1, <3>2, SeqFacts
    <3>4. M[Len(M)] = o[Len(o)] /\ L[Len(L)] = x
      BY <1>1, <1>2, <1>6, <1>9, <3>1, <3>3
    <3>5. QED
      BY <2>0, <3>2, <3>4
  <2>3. QED
    BY <2>1, <2>2
<1>18. LineOK(sys, M)
  BY <1>4, <1>14, <1>15, <1>16, <1>17 DEF LineOK
<1>19. QED
  BY <1>18 DEF M, q
-----------------------------------------------------------------------------
(***************************************************************************)
(* What the passes do to a graph.                                          *)
(***************************************************************************)
LEMMA StepsAreFundamental == \A sys : TaskSteps(sys) \subseteq FundamentalEdges(sys)
BY DEF TaskSteps, FundamentalEdges

LEMMA FilledGraphOK ==
  ASSUME NEW sys
  PROVE  GraphOK(sys, FilledGraph(sys)) /\ FilledGraph(sys).actions = TaskActions(sys)
<1> DEFINE g == FilledGraph(sys)
<1>1. /\ {"actions", "fundamental", "info", "potential", "links"} \subseteq DOMAIN g
      /\ g.actions = TaskActions(sys)
      /\ g.fundamental = FundamentalEdges(sys)
  BY DEF FilledGraph
<1>2. FundamentalEdges(sys) \subseteq Edges(g)
  BY DEF FilledGraph, Edges
<1>3. QED
  BY <1>1, <1>2, StepsAreFundamental DEF GraphOK

LEMMA WithEdgesOK ==
  ASSUME NEW sys, NEW g, NEW new, GraphOK(sys, g)
  PROVE  GraphOK(sys, WithEdges(g, new)) /\ WithEdges(g, new).actions = g.actions
<1> DEFINE h == WithEdges(g, new)
<1>1. {"actions", "fundamental", "info", "potential", "links"} \subseteq DOMAIN g
  BY DEF GraphOK
<1>2. /\ DOMAIN h = DOMAIN g
      /\ h.actions = g.actions /\ h.fundamental = g.fundamental
      /\ Edges(h) = Edges(g) \cup new
  BY <1>1 DEF WithEdges, Edges
<1> HIDE DEF h
<1>3. GraphOK(sys, h)
  BY <1>2 DEF GraphOK
<1>4. QED
  BY <1>2, <1>3 DEF h

\* A fundamental edge is not moved.
LEMMA ExpandChainOK ==
  ASSUME NEW sys, NEW g, NEW p, GraphOK(sys, g)
  PROVE  GraphOK(sys, ExpandChain(g, p)) /\ ExpandChain(g, p).actions = g.actions
<1> DEFINE from == FirstOf(g, p)
           to == LastOf(g, p)
           moved == {e \in Edges(g) : e[2] = from /\ e[1] # to /\ CanBecomeVirtual(g, e, to, TRUE)} \cup
                    {e \in Edges(g) : e[1] = to /\ e[2] # from /\ CanBecomeVirtual(g, e, from, FALSE)}
           wide == WithEdges(g, {<<to, from>>})
           virtual == {[r EXCEPT !.virtual = TRUE] : r \in UNION {g.info[e] : e \in moved}}
           h == [wide EXCEPT
                    !.info = [e \in DOMAIN @ \ moved |-> IF e = <<to, from>> THEN @[e] \cup virtual ELSE @[e]],
                    !.potential = @ \cup {[at |-> <<to, from>>, edge |-> e, info |-> g.info[e]] : e \in moved}]
<1>1. ExpandChain(g, p) = IF ~FullyLinked(g, p) \/ moved = {} THEN g ELSE h
  BY DEF ExpandChain
<1>2. \A e \in moved : e \notin g.fundamental
  BY DEF CanBecomeVirtual, LevelOf
<1>3. GraphOK(sys, wide) /\ wide.actions = g.actions
  BY WithEdgesOK
<1>4. wide.fundamental = g.fundamental
  <2>1. {"actions", "fundamental", "info", "potential", "links"} \subseteq DOMAIN g
    BY DEF GraphOK
  <2>2. QED
    BY <2>1 DEF WithEdges
<1> HIDE DEF moved, wide, virtual
<1>5. {"actions", "fundamental", "info", "potential", "links"} \subseteq DOMAIN wide
  BY <1>3 DEF GraphOK
<1>6. /\ DOMAIN h = DOMAIN wide
      /\ h.actions = wide.actions /\ h.fundamental = wide.fundamental
      /\ Edges(h) = Edges(wide) \ moved
  BY <1>5 DEF Edges
<1> HIDE DEF h
<1>7. GraphOK(sys, h) /\ h.actions = g.actions
  <2>1. \A e \in TaskSteps(sys) :
            e[1] \in h.actions /\ e[2] \in h.actions => e \in wide.fundamental /\ e \in Edges(wide)
    BY <1>3, <1>6 DEF GraphOK
  <2>2. \A e \in TaskSteps(sys) :
            e[1] \in h.actions /\ e[2] \in h.actions => e \in h.fundamental /\ e \in Edges(h)
    BY <1>2, <1>4, <1>6, <2>1
  <2>3. QED
    BY <1>3, <1>5, <1>6, <2>2 DEF GraphOK
<1>8. QED
  BY <1>1, <1>7

LEMMA LinkWithPriorityOK ==
  ASSUME NEW sys, NEW g, NEW p, GraphOK(sys, g)
  PROVE  GraphOK(sys, LinkWithPriority(g, p)) /\ LinkWithPriority(g, p).actions = g.actions
<1>1. PICK new : LinkWithPriority(g, p) \in {g, WithEdges(g, new)}
  BY DEF LinkWithPriority
<1>2. QED
  BY <1>1, WithEdgesOK

LEMMA LinkedOK ==
  ASSUME NEW sys, NEW g, NEW links, GraphOK(sys, g)
  PROVE  GraphOK(sys, Linked(g, links)) /\ Linked(g, links).actions = g.actions
<1> DEFINE wide == WithEdges(g, {<<l[2], l[1]>> : l \in links})
           h == [wide EXCEPT !.links = @ \cup links]
<1>1. GraphOK(sys, wide) /\ wide.actions = g.actions
  BY WithEdgesOK
<1>2. Linked(g, links) = h
  BY DEF Linked
<1> HIDE DEF wide
<1>3. {"actions", "fundamental", "info", "potential", "links"} \subseteq DOMAIN wide
  BY <1>1 DEF GraphOK
<1>4. /\ DOMAIN h = DOMAIN wide
      /\ h.actions = wide.actions /\ h.fundamental = wide.fundamental /\ h.info = wide.info
  BY <1>3
<1> HIDE DEF h
<1>5. GraphOK(sys, h) /\ h.actions = g.actions
  BY <1>1, <1>4 DEF GraphOK, Edges
<1>6. QED
  BY <1>2, <1>5

\* No level is above the fundamental one.
LEMMA MiniGraphOK ==
  ASSUME NEW sys, NEW g, NEW group, NEW level \in Nat, GraphOK(sys, g), group \subseteq g.actions, level <= Hard
  PROVE  GraphOK(sys, MiniGraph(g, group, level)) /\ MiniGraph(g, group, level).actions = group
<1> DEFINE h == MiniGraph(g, group, level)
           kept == {e \in Edges(g) : {e[1], e[2]} \subseteq group} \ Ignored(g, group, level)
<1>1. /\ {"actions", "fundamental", "info", "potential", "links"} \subseteq DOMAIN h
      /\ h.actions = group
      /\ h.fundamental = g.fundamental \cap kept
  BY DEF MiniGraph
<1>2. kept \subseteq Edges(h)
  BY DEF MiniGraph, Edges
<1>3. ASSUME NEW e \in TaskSteps(sys), e[1] \in group, e[2] \in group
      PROVE  e \in g.fundamental /\ e \in kept
  <2>1. e \in g.fundamental /\ e \in Edges(g)
    BY <1>3 DEF GraphOK
  <2>2. ~(LevelOf(g, e) < level)
    BY <2>1 DEF LevelOf, Hard, Fundamental
  <2>3. e \notin Ignored(g, group, level)
    BY <2>2 DEF Ignored
  <2>4. QED
    BY <1>3, <2>1, <2>3
<1> HIDE DEF h, kept
<1>4. GraphOK(sys, h)
  BY <1>1, <1>2, <1>3 DEF GraphOK
<1>5. QED
  BY <1>1, <1>4 DEF h

LEMMA NothingInOrder == \A g : OrderOK(g, <<>>)
<1>1. DOMAIN <<>> = {}
  BY EmptyFacts, SeqFacts
<1>2. QED
  BY <1>1, EmptyFacts DEF OrderOK

LEMMA ChosenFacts ==
  ASSUME NEW o, NEW a
  PROVE  a \in Chosen(o) <=> \E i \in DOMAIN o : a \in o[i]
BY DEF Chosen, Range

\* The sort keeps the order.
LEMMA SelectedInOrder ==
  ASSUME NEW g, NEW o, OrderOK(g, o), NEW c \in Selectable(g, o)
  PROVE  OrderOK(g, Append(o, c))
<1> DEFINE q == Append(o, c)
<1>1. IsSeq(o)
  BY DEF OrderOK
<1>2. /\ IsSeq(q) /\ Len(q) = Len(o) + 1
      /\ \A i \in 1 .. Len(o) : q[i] = o[i]
      /\ q[Len(o) + 1] = c
  BY <1>1, AppendFacts
<1> HIDE DEF q
<1>3. Len(o) \in Nat /\ DOMAIN o = 1 .. Len(o) /\ DOMAIN q = 1 .. Len(o) + 1
  BY <1>1, <1>2, SeqFacts
<1>4. \A i \in DOMAIN q : i \in DOMAIN o \/ i = Len(o) + 1
  BY <1>3
<1>5. c \in Components(g) /\ c \cap Chosen(o) = {}
      /\ UNION {Predecessors(g, a) : a \in c} \subseteq c \cup Chosen(o)
  BY DEF Selectable
<1>6. c \subseteq g.actions
  BY <1>5 DEF Components
<1>7. \A i \in DOMAIN q : q[i] \subseteq g.actions
  BY <1>2, <1>3, <1>4, <1>6 DEF OrderOK
<1>8. ASSUME NEW i \in DOMAIN q, NEW e \in Edges(g), e[2] \in q[i]
      PROVE  \E j \in DOMAIN q : j <= i /\ e[1] \in q[j]
  <2>1. CASE i \in DOMAIN o
    <3>1. e[2] \in o[i]
      BY <1>2, <1>3, <1>8, <2>1
    <3>2. PICK j \in DOMAIN o : j <= i /\ e[1] \in o[j]
      BY <2>1, <3>1 DEF OrderOK
    <3>3. j \in DOMAIN q /\ q[j] = o[j]
      BY <1>2, <1>3, <3>2
    <3>4. QED
      BY <3>2, <3>3
  <2>2. CASE i = Len(o) + 1
    <3>1. e[2] \in c
      BY <1>2, <1>8, <2>2
    <3>2. e[1] \in Predecessors(g, e[2])
      BY DEF Predecessors
    <3>3. e[1] \in c \/ e[1] \in Chosen(o)
      BY <1>5, <3>1, <3>2
    <3>4. CASE e[1] \in c
      BY <1>2, <1>3, <2>2, <3>4
    <3>5. CASE e[1] \in Chosen(o)
      <4>1. PICK j \in DOMAIN o : e[1] \in o[j]
        BY <3>5, ChosenFacts
      <4>2. j \in DOMAIN q /\ q[j] = o[j] /\ j <= i
        BY <1>2, <1>3, <2>2, <4>1
      <4>3. QED
        BY <4>1, <4>2
    <3>6. QED
      BY <3>3, <3>4, <3>5
  <2>3. QED
    BY <1>4, <2>1, <2>2
<1>9. ASSUME NEW i \in DOMAIN q, NEW j \in DOMAIN q, i # j
      PROVE  q[i] \cap q[j] = {}
  <2>1. \A k \in DOMAIN o : o[k] \cap c = {} /\ q[k] = o[k]
    BY <1>2, <1>3, <1>5, ChosenFacts
  <2>2. \A k, l \in DOMAIN o : k # l => o[k] \cap o[l] = {}
    BY DEF OrderOK
  <2>3. QED
    BY <1>2, <1>4, <1>9, <2>1, <2>2
<1>10. OrderOK(g, q)
  BY <1>2, <1>7, <1>8, <1>9 DEF OrderOK
<1>11. QED
  BY <1>10 DEF q
-----------------------------------------------------------------------------
(* The schedule at its start, and at every step of its computation. *)
LEMMA StartedOK ==
  ASSUME NEW sys
  PROVE  /\ LineOK(sys, Line3(<<>>, Started(sys).item, <<>>))
         /\ GraphOK(sys, Started(sys).graph)
         /\ Started(sys).graph.actions = Started(sys).item.actions
         /\ Started(sys).item.level \in Nat
<1> DEFINE x == Started(sys).item
           L == Line3(<<>>, x, <<>>)
<1>1. x.actions = TaskActions(sys) /\ x.continued = FALSE /\ x.level = 0
  BY DEF Started, Item, Group, Priority
<1>2. IsSeq(<<>>) /\ Len(<<>>) = 0
  BY EmptyFacts
<1> HIDE DEF x
<1>3. IsSeq(L) /\ Len(L) = Len(<<>>) + 1 + Len(<<>>) /\ L[Len(<<>>) + 1] = x
  BY <1>2, Line3Facts
<1> HIDE DEF L
<1>4. Len(L) = 1 /\ L[1] = x
  BY <1>2, <1>3
<1>5. DOMAIN L = {1}
  BY <1>3, <1>4, SeqFacts
<1>6. Covers(sys, L)
  BY <1>1, <1>4, <1>5 DEF Covers
<1>7. \A e \in TaskSteps(sys) : e[2] \in TaskActions(sys)
  BY DEF TaskSteps, TaskActions
<1>8. Followed(sys, L)
  BY <1>1, <1>4, <1>5, <1>7 DEF Followed
<1>9. LineOK(sys, L)
  BY <1>1, <1>3, <1>4, <1>5, <1>6, <1>8 DEF LineOK
<1>10. Started(sys).graph = FilledGraph(sys)
  BY DEF Started
<1>11. QED
  BY <1>1, <1>9, <1>10, FilledGraphOK DEF x, L

LEMMA InitIsScheduling ==
  ASSUME Init
  PROVE  SchedOK
<1>1. DOMAIN <<>> = {}
  BY EmptyFacts, SeqFacts
<1>2. /\ graph = Started(system).graph /\ item = Started(system).item
      /\ order = <<>> /\ waiting = <<>> /\ sequence = <<>> /\ status = "expanding"
  BY DEF Init
<1>3. LineOK(system, IF Computing THEN Line3(sequence, item, waiting) ELSE sequence \o waiting)
  BY <1>2, StartedOK DEF Computing
<1>4. QED
  BY <1>1, <1>2, <1>3, StartedOK, EmptyFacts, NothingInOrder DEF SchedOK

LEMMA RestartIsScheduling ==
  ASSUME RunAgain
  PROVE  SchedOK'
<1>1. DOMAIN <<>> = {}
  BY EmptyFacts, SeqFacts
<1>2. /\ graph' = Started(system').graph /\ item' = Started(system').item
      /\ order' = <<>> /\ waiting' = <<>> /\ sequence' = <<>> /\ status' = "expanding"
  BY DEF RunAgain
<1>3. LineOK(system', IF Computing' THEN Line3(sequence', item', waiting') ELSE sequence' \o waiting')
  BY <1>2, StartedOK DEF Computing
<1>4. QED
  BY <1>1, <1>2, <1>3, StartedOK, EmptyFacts, NothingInOrder DEF SchedOK

\* A pass over the graph, or its new links, leave the groups alone.
LEMMA GraphChanges ==
  ASSUME SchedOK, Computing, GraphOK(system, graph'), graph'.actions = graph.actions,
         status' \in {"expanding", "prioritising", "sorting"}, order' = <<>>,
         UNCHANGED <<system, item, waiting, sequence>>
  PROVE  SchedOK'
<1>1. LineOK(system, Line3(sequence, item, waiting))
  BY DEF SchedOK
<1>2. Computing'
  BY DEF Computing
<1>3. LineOK(system', IF Computing' THEN Line3(sequence', item', waiting') ELSE sequence' \o waiting')
  BY <1>1, <1>2
<1>4. OrderOK(graph', order')
  BY NothingInOrder
<1>5. QED
  BY <1>3, <1>4 DEF SchedOK

LEMMA ExpandKeeps ==
  ASSUME SchedOK, Expand
  PROVE  SchedOK'
<1>1. /\ status = "expanding" /\ UNCHANGED <<system, item, order, waiting, sequence>>
      /\ graph' = IF Unpacks(graph, Head(todo)) THEN ExpandChain(graph, Head(todo)) ELSE graph
      /\ status' \in {"expanding", "prioritising"}
  BY DEF Expand, ForNextPackage
<1>2. Computing /\ order' = <<>>
  BY <1>1 DEF Computing, SchedOK
<1>3. GraphOK(system, graph)
  BY <1>2 DEF SchedOK
<1>4. GraphOK(system, graph') /\ graph'.actions = graph.actions
  BY <1>1, <1>3, ExpandChainOK
<1>5. QED
  BY <1>1, <1>2, <1>4, GraphChanges

LEMMA PrioritiseKeeps ==
  ASSUME SchedOK, Prioritise
  PROVE  SchedOK'
<1>1. /\ status = "prioritising" /\ UNCHANGED <<system, item, order, waiting, sequence>>
      /\ graph' = IF Unpacks(graph, Head(todo)) THEN LinkWithPriority(graph, Head(todo)) ELSE graph
      /\ status' \in {"prioritising", "sorting"}
  BY DEF Prioritise, ForNextPackage
<1>2. Computing /\ order' = <<>>
  BY <1>1 DEF Computing, SchedOK
<1>3. GraphOK(system, graph)
  BY <1>2 DEF SchedOK
<1>4. GraphOK(system, graph') /\ graph'.actions = graph.actions
  BY <1>1, <1>3, LinkWithPriorityOK
<1>5. QED
  BY <1>1, <1>2, <1>4, GraphChanges

LEMMA SelectKeeps ==
  ASSUME SchedOK, Select
  PROVE  SchedOK'
<1>1. status = "sorting" /\ UNCHANGED <<system, graph, item, waiting, sequence, status>>
  BY DEF Select
<1>2. PICK c \in Selectable(graph, order) : order' = Append(order, c)
  BY DEF Select
<1>3. Computing /\ Computing'
  BY <1>1 DEF Computing
<1>4. OrderOK(graph, order)
  BY <1>3 DEF SchedOK
<1>5. OrderOK(graph, order')
  BY <1>2, <1>4, SelectedInOrder
<1>6. LineOK(system', IF Computing' THEN Line3(sequence', item', waiting') ELSE sequence' \o waiting')
  BY <1>1, <1>3 DEF SchedOK
<1>7. QED
  BY <1>1, <1>3, <1>5, <1>6 DEF SchedOK

LEMMA LinkKeeps ==
  ASSUME SchedOK, Link
  PROVE  SchedOK'
<1>1. /\ status = "sorting" /\ status' = "expanding" /\ order' = <<>>
      /\ UNCHANGED <<system, item, waiting, sequence>>
      /\ graph' = Linked(graph, NewLinks(graph, order))
  BY DEF Link, Sorted
<1>2. Computing
  BY <1>1 DEF Computing
<1>3. GraphOK(system, graph)
  BY <1>2 DEF SchedOK
<1>4. GraphOK(system, graph') /\ graph'.actions = graph.actions
  BY <1>1, <1>3, LinkedOK
<1>5. QED
  BY <1>1, <1>2, <1>4, GraphChanges

LEMMA FinishKeeps ==
  ASSUME SchedOK, Finish
  PROVE  SchedOK'
<1> DEFINE o == Subgroups(item, graph, order)
<1>1. /\ status = "sorting" /\ status' = "splitting" /\ order' = <<>>
      /\ Chosen(order) = graph.actions
      /\ waiting' = o \o waiting
      /\ UNCHANGED <<system, item, sequence>>
  BY DEF Finish, Sorted
<1>2. Computing /\ ~Computing'
  BY <1>1 DEF Computing
<1>3. /\ IsSeq(sequence) /\ IsSeq(waiting)
      /\ LineOK(system, Line3(sequence, item, waiting))
      /\ GraphOK(system, graph) /\ graph.actions = item.actions /\ OrderOK(graph, order)
      /\ item.level \in Nat
      /\ (item.actions = {} => sequence = <<>> /\ waiting = <<>>)
      /\ (\A i \in DOMAIN waiting : WaitingOK(system, waiting[i]))
      /\ (\A i \in DOMAIN sequence : Allowed(sequence[i].actions))
  BY <1>2 DEF SchedOK
<1>4. IsSeq(order) /\ Len(order) \in Nat /\ DOMAIN order = 1 .. Len(order)
  BY <1>3, SeqFacts DEF OrderOK
<1>5. /\ o = [i \in 1 .. Len(order) |-> o[i]]
      /\ \A i \in DOMAIN order : /\ o[i].actions = order[i] /\ o[i].graph = graph
                                 /\ o[i].level = item.level + 1
                                 /\ (i = Len(order) => (o[i].continued => item.continued))
  BY <1>4 DEF Subgroups
<1> HIDE DEF o
<1>6. IsSeq(o) /\ Len(o) = Len(order)
  BY <1>4, <1>5, BuiltSeq
<1>7. DOMAIN o = DOMAIN order
  BY <1>4, <1>6, SeqFacts
<1>8. \A i \in DOMAIN o : o[i].actions \subseteq item.actions
  BY <1>3, <1>5, <1>7 DEF OrderOK
<1>9. ASSUME NEW a \in item.actions
      PROVE  \E i \in DOMAIN o : a \in o[i].actions
  <2>1. a \in Chosen(order)
    BY <1>1, <1>3, <1>9
  <2>2. PICK i \in DOMAIN order : a \in order[i]
    BY <2>1, ChosenFacts
  <2>3. o[i].actions = order[i]
    BY <1>5, <2>2
  <2>4. QED
    BY <1>7, <2>2, <2>3
<1>10. ASSUME NEW e \in TaskSteps(system), NEW i \in DOMAIN o, e[1] \in o[i].actions, e[2] \in item.actions
       PROVE  \E j \in DOMAIN o : i <= j /\ e[2] \in o[j].actions
  <2>1. PICK j \in DOMAIN o : e[2] \in o[j].actions
    BY <1>9, <1>10
  <2>2. e \in Edges(graph)
    BY <1>3, <1>8, <1>10 DEF GraphOK
  <2>3. PICK k \in DOMAIN order : k <= j /\ e[1] \in order[k]
    BY <1>3, <1>5, <1>7, <2>1, <2>2 DEF OrderOK
  <2>4. k = i
    BY <1>3, <1>5, <1>7, <1>10, <2>3 DEF OrderOK
  <2>5. QED
    BY <2>1, <2>3, <2>4
<1>11. o # <<>> => (o[Len(o)].continued => item.continued)
  <2> SUFFICES ASSUME o # <<>> PROVE o[Len(o)].continued => item.continued
    OBVIOUS
  <2>1. Len(order) \in DOMAIN order
    BY <1>4, <1>6, SeqFacts
  <2>2. QED
    BY <1>5, <1>6, <2>1
<1>12. o = <<>> => sequence = <<>> /\ waiting = <<>>
  <2> SUFFICES ASSUME o = <<>> PROVE item.actions = {}
    BY <1>3
  <2>1. DOMAIN o = {}
    BY EmptyFacts, SeqFacts
  <2>2. QED
    BY <1>9, <2>1
<1>13. LineOK(system, sequence \o (o \o waiting))
  BY <1>3, <1>6, <1>8, <1>9, <1>10, <1>11, <1>12, FinerLine
<1>14. \A i \in DOMAIN o : WaitingOK(system, o[i])
  <2>1. item.level + 1 \in Nat
    BY <1>3
  <2>2. QED
    BY <1>3, <1>5, <1>7, <1>8, <2>1 DEF WaitingOK
<1>15. IsSeq(waiting') /\ \A i \in DOMAIN waiting' : WaitingOK(system, waiting'[i])
  <2> DEFINE q == o \o waiting
  <2>1. /\ IsSeq(q) /\ Len(q) = Len(o) + Len(waiting)
        /\ \A i \in 1 .. Len(o) + Len(waiting) : q[i] = IF i <= Len(o) THEN o[i] ELSE waiting[i - Len(o)]
    BY <1>3, <1>6, ConcatFacts
  <2> HIDE DEF q
  <2>2. Len(o) \in Nat /\ Len(waiting) \in Nat /\ DOMAIN o = 1 .. Len(o)
        /\ DOMAIN waiting = 1 .. Len(waiting) /\ DOMAIN q = 1 .. Len(o) + Len(waiting)
    BY <1>3, <1>6, <2>1, SeqFacts
  <2>3. \A i \in DOMAIN q : (i <= Len(o) => i \in DOMAIN o) /\ (~(i <= Len(o)) => i - Len(o) \in DOMAIN waiting)
    BY <2>2
  <2>4. \A i \in DOMAIN q : WaitingOK(system, q[i])
    BY <1>3, <1>14, <2>1, <2>2, <2>3
  <2>5. QED
    BY <1>1, <2>1, <2>4 DEF q
<1>16. LineOK(system', IF Computing' THEN Line3(sequence', item', waiting') ELSE sequence' \o waiting')
  BY <1>1, <1>2, <1>13
<1>17. QED
  BY <1>1, <1>2, <1>3, <1>15, <1>16 DEF SchedOK

\* What Keep and Split take from the front of the queue.
LEMMA TakesWaiting ==
  ASSUME SchedOK, status = "splitting", waiting # <<>>
  PROVE  /\ LineOK(system, Line3(sequence, Head(waiting), Tail(waiting)))
         /\ WaitingOK(system, Head(waiting))
         /\ IsSeq(Tail(waiting))
         /\ \A i \in DOMAIN Tail(waiting) : WaitingOK(system, Tail(waiting)[i])
<1>1. /\ IsSeq(sequence) /\ IsSeq(waiting)
      /\ LineOK(system, sequence \o waiting)
      /\ \A i \in DOMAIN waiting : WaitingOK(system, waiting[i])
  BY DEF SchedOK, Computing
<1>2. sequence \o waiting = Line3(sequence, Head(waiting), Tail(waiting))
  BY <1>1, LineOfWaiting
<1>3. /\ IsSeq(Tail(waiting)) /\ Len(Tail(waiting)) = Len(waiting) - 1
      /\ \A i \in 1 .. Len(waiting) - 1 : Tail(waiting)[i] = waiting[i + 1]
      /\ Head(waiting) = waiting[1] /\ Len(waiting) \in Nat \ {0}
  BY <1>1, TailFacts
<1>4. DOMAIN waiting = 1 .. Len(waiting) /\ DOMAIN Tail(waiting) = 1 .. Len(waiting) - 1
  BY <1>1, <1>3, SeqFacts
<1>5. 1 \in DOMAIN waiting /\ \A i \in DOMAIN Tail(waiting) : i + 1 \in DOMAIN waiting
  BY <1>3, <1>4
<1>6. QED
  BY <1>1, <1>2, <1>3, <1>4, <1>5

LEMMA KeepKeeps ==
  ASSUME SchedOK, Keep
  PROVE  SchedOK'
<1> DEFINE w == Head(waiting)
           r == Tail(waiting)
           y == WithRemovalFlags(system, Group(w.actions, w.flags, w.continued))
<1>1. /\ status = "splitting" /\ waiting # <<>> /\ Allowed(w.actions)
      /\ sequence' = Append(sequence, y) /\ waiting' = r
      /\ UNCHANGED <<system, order, status>>
  BY DEF Keep
<1>2. y.actions = w.actions /\ y.continued = w.continued
  BY DEF WithRemovalFlags, Group
<1>3. /\ LineOK(system, Line3(sequence, w, r)) /\ IsSeq(r)
      /\ \A i \in DOMAIN r : WaitingOK(system, r[i])
  BY <1>1, TakesWaiting
<1>4. IsSeq(sequence) /\ \A i \in DOMAIN sequence : Allowed(sequence[i].actions)
  BY DEF SchedOK
<1> HIDE DEF w, r, y
<1>5. LineOK(system, Line3(sequence, y, r))
  BY <1>2, <1>3, <1>4, SameLine
<1>6. sequence' = sequence \o <<y>>
  <2> DEFINE S == {sequence[i] : i \in DOMAIN sequence} \cup {y}
  <2>1. sequence \in Seq(S) /\ y \in S
    BY <1>4, SeqMonotonic DEF IsSeq
  <2> HIDE DEF S
  <2>2. Append(sequence, y) = sequence \o <<y>>
    BY <2>1, AppendIsConcat
  <2>3. QED
    BY <1>1, <2>2
<1>7. LineOK(system, sequence' \o waiting')
  BY <1>1, <1>5, <1>6 DEF Line3
<1>8. /\ IsSeq(sequence') /\ Len(sequence') = Len(sequence) + 1
      /\ \A i \in 1 .. Len(sequence) : sequence'[i] = sequence[i]
      /\ sequence'[Len(sequence) + 1] = y
  BY <1>1, <1>4, AppendFacts
<1>9. Len(sequence) \in Nat /\ DOMAIN sequence = 1 .. Len(sequence) /\ DOMAIN sequence' = 1 .. Len(sequence) + 1
  BY <1>4, <1>8, SeqFacts
<1>10. \A i \in DOMAIN sequence' : i \in DOMAIN sequence \/ i = Len(sequence) + 1
  BY <1>9
<1>11. \A i \in DOMAIN sequence' : Allowed(sequence'[i].actions)
  BY <1>1, <1>2, <1>4, <1>8, <1>9, <1>10
<1>12. ~Computing' /\ order' = <<>>
  BY <1>1 DEF Computing, SchedOK
<1>13. LineOK(system', IF Computing' THEN Line3(sequence', item', waiting') ELSE sequence' \o waiting')
  BY <1>1, <1>7, <1>12
<1>14. QED
  BY <1>1, <1>3, <1>8, <1>11, <1>12, <1>13 DEF SchedOK

LEMMA SplitKeeps ==
  ASSUME SchedOK, Split
  PROVE  SchedOK'
<1> DEFINE w == Head(waiting)
           r == Tail(waiting)
<1>1. /\ status = "splitting" /\ status' = "expanding" /\ waiting # <<>> /\ waiting' = r
      /\ ~Allowed(w.actions) /\ w.level <= Hard
      /\ graph' = MiniGraph(w.graph, w.actions, w.level)
      /\ item' = Item(w, w.level, RemovedRelations(w.graph, w.actions, w.level))
      /\ UNCHANGED <<system, order, sequence>>
  BY DEF Split
<1>2. item'.actions = w.actions /\ item'.continued = w.continued /\ item'.level = w.level
  BY <1>1 DEF Item
<1>3. /\ LineOK(system, Line3(sequence, w, r)) /\ IsSeq(r) /\ WaitingOK(system, w)
      /\ \A i \in DOMAIN r : WaitingOK(system, r[i])
  BY <1>1, TakesWaiting
<1>4. IsSeq(sequence) /\ (\A i \in DOMAIN sequence : Allowed(sequence[i].actions)) /\ order = <<>>
  BY <1>1 DEF SchedOK
<1> HIDE DEF w, r
<1>5. LineOK(system, Line3(sequence, item', r))
  BY <1>2, <1>3, <1>4, SameLine
<1>6. GraphOK(system, graph') /\ graph'.actions = w.actions
  <2> DEFINE g == w.graph
             chosen == w.actions
             level == w.level
  <2>1. GraphOK(system, g) /\ chosen \subseteq g.actions /\ level \in Nat
    BY <1>3 DEF WaitingOK
  <2>2. level <= Hard
    BY <1>1
  <2>3. graph' = MiniGraph(g, chosen, level)
    BY <1>1
  <2> HIDE DEF g, chosen, level
  <2>4. GraphOK(system, MiniGraph(g, chosen, level)) /\ MiniGraph(g, chosen, level).actions = chosen
    BY <2>1, <2>2, MiniGraphOK
  <2>5. GraphOK(system, graph') /\ graph'.actions = chosen
    BY <2>3, <2>4
  <2>6. QED
    BY <2>5 DEF chosen
<1>7. item'.actions # {}
  BY <1>1, <1>2 DEF Allowed
<1>8. Computing' /\ order' = <<>>
  BY <1>1, <1>4 DEF Computing
<1>9. OrderOK(graph', order')
  BY <1>8, NothingInOrder
<1>10. item'.level \in Nat
  BY <1>2, <1>3 DEF WaitingOK
<1>11. LineOK(system', IF Computing' THEN Line3(sequence', item', waiting') ELSE sequence' \o waiting')
  BY <1>1, <1>5, <1>8
<1>12. QED
  BY <1>1, <1>2, <1>3, <1>4, <1>6, <1>7, <1>8, <1>9, <1>10, <1>11 DEF SchedOK

LEMMA ComputationKeeps ==
  ASSUME SchedOK, Next
  PROVE  SchedOK'
<1>1. CASE Expand
  BY <1>1, ExpandKeeps
<1>2. CASE Prioritise
  BY <1>2, PrioritiseKeeps
<1>3. CASE Select
  BY <1>3, SelectKeeps
<1>4. CASE Link
  BY <1>4, LinkKeeps
<1>5. CASE Finish
  BY <1>5, FinishKeeps
<1>6. CASE Keep
  BY <1>6, KeepKeeps
<1>7. CASE Split
  BY <1>7, SplitKeeps
<1>8. CASE GiveUp
  <2>1. status = "splitting" /\ status' = "circular"
        /\ UNCHANGED <<system, graph, order, item, waiting, sequence>>
    BY <1>8 DEF GiveUp
  <2>2. QED
    BY <2>1 DEF SchedOK, Computing
<1>9. CASE Schedule
  <2>1. status = "splitting" /\ status' = "scheduled" /\ waiting = <<>>
        /\ UNCHANGED <<system, graph, order, item, waiting, sequence>>
    BY <1>9 DEF Schedule
  <2>2. QED
    BY <2>1 DEF SchedOK, Computing
<1>10. QED
  BY <1>1, <1>2, <1>3, <1>4, <1>5, <1>6, <1>7, <1>8, <1>9 DEF Next

-----------------------------------------------------------------------------
(***************************************************************************)
(* The task of a package and its actions.                                  *)
(***************************************************************************)
LEMMA TaskIs ==
  ASSUME NEW sys, NEW p
  PROVE  /\ Task(sys, p) \in {<<>>, <<"remove">>, <<"configure">>, <<"unpack", "configure">>,
                              <<"remove", "unpack", "configure">>}
         /\ \A i \in DOMAIN Task(sys, p) :
                /\ Task(sys, p)[i] \in {"remove", "unpack", "configure"}
                /\ Task(sys, p)[i] = "remove" => p \in DOMAIN sys.installed \cup sys.purged
                /\ Task(sys, p)[i] # "remove" => p \in DOMAIN sys.target
BY DEF Task

LEMMA PackageOfAction ==
  ASSUME NEW sys, IsSystem(sys), NEW p, NEW type, type = "remove" \/ p \in DOMAIN sys.target
  PROVE  TypeOf(ActionOf(sys, p, type)) = type /\ PackageOf(ActionOf(sys, p, type)) = p
<1>1. TypeOf(ActionOf(sys, p, type)) = type
  BY DEF ActionOf, TypeOf
<1>2. CASE type = "remove"
  <2>1. Package(RemovedVersion(sys, p)) = p
    BY DEF RemovedVersion, Package, IsSystem
  <2>2. VersionOf(ActionOf(sys, p, type)) = RemovedVersion(sys, p)
    BY <1>2 DEF ActionOf, VersionOf
  <2>3. QED
    BY <1>1, <2>1, <2>2 DEF PackageOf
<1>3. CASE type # "remove"
  <2>1. VersionOf(ActionOf(sys, p, type)) = sys.target[p]
    BY <1>3 DEF ActionOf, VersionOf
  <2>2. Package(sys.target[p]) = p
    BY <1>3 DEF IsSystem
  <2>3. QED
    BY <1>1, <2>1, <2>2 DEF PackageOf
<1>4. QED
  BY <1>2, <1>3

LEMMA ActionIs ==
  ASSUME NEW sys, IsSystem(sys), NEW a \in TaskActions(sys)
  PROVE  /\ PackageOf(a) \in Packages(sys)
         /\ TypeOf(a) \in {"remove", "unpack", "configure"}
         /\ a = ActionOf(sys, PackageOf(a), TypeOf(a))
         /\ TypeOf(a) # "remove" => PackageOf(a) \in DOMAIN sys.target
         /\ \E i \in DOMAIN Task(sys, PackageOf(a)) : Task(sys, PackageOf(a))[i] = TypeOf(a)
<1>1. PICK p \in Packages(sys) : \E i \in DOMAIN Task(sys, p) : a = ActionOf(sys, p, Task(sys, p)[i])
  BY DEF TaskActions
<1>2. PICK i \in DOMAIN Task(sys, p) : a = ActionOf(sys, p, Task(sys, p)[i])
  BY <1>1
<1> DEFINE type == Task(sys, p)[i]
<1>3. /\ type \in {"remove", "unpack", "configure"}
      /\ type # "remove" => p \in DOMAIN sys.target
  BY <1>2, TaskIs
<1>4. a = ActionOf(sys, p, type) /\ type = Task(sys, p)[i]
  BY <1>2
<1> HIDE DEF type
<1>5. TypeOf(a) = type /\ PackageOf(a) = p
  BY <1>3, <1>4, PackageOfAction
<1>6. QED
  BY <1>2, <1>3, <1>4, <1>5

LEMMA TaskHasAction ==
  ASSUME NEW sys, NEW p \in Packages(sys), NEW i \in DOMAIN Task(sys, p)
  PROVE  ActionOf(sys, p, Task(sys, p)[i]) \in TaskActions(sys)
BY DEF TaskActions

LEMMA TaskHasStep ==
  ASSUME NEW sys, NEW p \in Packages(sys), NEW i \in DOMAIN Task(sys, p), i > 1
  PROVE  <<ActionOf(sys, p, Task(sys, p)[i - 1]), ActionOf(sys, p, Task(sys, p)[i])>> \in TaskSteps(sys)
BY DEF TaskSteps

\* Unpacking is followed by configuring, and the removal of what is wanted
\* by unpacking.
LEMMA UnpackThenConfigure ==
  ASSUME NEW sys, IsSystem(sys), NEW p \in DOMAIN sys.target,
         ActionOf(sys, p, "unpack") \in TaskActions(sys)
  PROVE  <<ActionOf(sys, p, "unpack"), ActionOf(sys, p, "configure")>> \in TaskSteps(sys)
<1> DEFINE a == ActionOf(sys, p, "unpack")
<1>1. TypeOf(a) = "unpack" /\ PackageOf(a) = p
  BY PackageOfAction
<1>2. a \in TaskActions(sys)
  OBVIOUS
<1> HIDE DEF a
<1>3. PackageOf(a) \in Packages(sys) /\ \E i \in DOMAIN Task(sys, PackageOf(a)) : Task(sys, PackageOf(a))[i] = TypeOf(a)
  BY <1>2, ActionIs
<1>4. p \in Packages(sys) /\ \E i \in DOMAIN Task(sys, p) : Task(sys, p)[i] = "unpack"
  BY <1>1, <1>3
<1>5. Task(sys, p) \in {<<"unpack", "configure">>, <<"remove", "unpack", "configure">>}
  BY <1>4, TaskIs
<1>6. PICK i \in DOMAIN Task(sys, p) : i > 1 /\ Task(sys, p)[i - 1] = "unpack" /\ Task(sys, p)[i] = "configure"
  <2>1. CASE Task(sys, p) = <<"unpack", "configure">>
    <3>1. 2 \in DOMAIN Task(sys, p) /\ Task(sys, p)[2] = "configure"
      BY <2>1
    <3>2. 2 - 1 = 1 /\ 2 > 1
      OBVIOUS
    <3>3. Task(sys, p)[2 - 1] = "unpack"
      BY <2>1, <3>2
    <3>4. QED
      BY <3>1, <3>2, <3>3
  <2>2. CASE Task(sys, p) = <<"remove", "unpack", "configure">>
    <3>1. 3 \in DOMAIN Task(sys, p) /\ Task(sys, p)[3] = "configure"
      BY <2>2
    <3>2. 3 - 1 = 2 /\ 3 > 1
      OBVIOUS
    <3>3. Task(sys, p)[3 - 1] = "unpack"
      BY <2>2, <3>2
    <3>4. QED
      BY <3>1, <3>2, <3>3
  <2>3. QED
    BY <1>5, <2>1, <2>2
<1>7. <<ActionOf(sys, p, Task(sys, p)[i - 1]), ActionOf(sys, p, Task(sys, p)[i])>> \in TaskSteps(sys)
  BY <1>4, <1>6, TaskHasStep
<1>8. QED
  BY <1>6, <1>7

LEMMA RemoveThenUnpack ==
  ASSUME NEW sys, IsSystem(sys), NEW p \in DOMAIN sys.target,
         ActionOf(sys, p, "remove") \in TaskActions(sys)
  PROVE  <<ActionOf(sys, p, "remove"), ActionOf(sys, p, "unpack")>> \in TaskSteps(sys)
<1> DEFINE a == ActionOf(sys, p, "remove")
<1>1. TypeOf(a) = "remove" /\ PackageOf(a) = p
  BY PackageOfAction
<1>2. a \in TaskActions(sys)
  OBVIOUS
<1> HIDE DEF a
<1>3. PackageOf(a) \in Packages(sys) /\ \E i \in DOMAIN Task(sys, PackageOf(a)) : Task(sys, PackageOf(a))[i] = TypeOf(a)
  BY <1>2, ActionIs
<1>4. p \in Packages(sys) /\ \E i \in DOMAIN Task(sys, p) : Task(sys, p)[i] = "remove"
  BY <1>1, <1>3
<1>5. Task(sys, p) = <<"remove", "unpack", "configure">>
  <2>1. Task(sys, p) # <<"remove">>
    BY DEF Task
  <2>2. QED
    BY <1>4, <2>1, TaskIs
<1>6. 2 \in DOMAIN Task(sys, p) /\ 2 > 1 /\ Task(sys, p)[2 - 1] = "remove" /\ Task(sys, p)[2] = "unpack"
  BY <1>5
<1>7. <<ActionOf(sys, p, Task(sys, p)[2 - 1]), ActionOf(sys, p, Task(sys, p)[2])>> \in TaskSteps(sys)
  BY <1>4, <1>6, TaskHasStep
<1>8. QED
  BY <1>6, <1>7

-----------------------------------------------------------------------------
(***************************************************************************)
(* What a call of dpkg does for one group.                                 *)
(***************************************************************************)
UnpackedBy(g) == {Package(v) : v \in Done(g, "unpack")}
RemovedBy(g) == {Package(v) : v \in Done(g, "remove")}

LEMMA GroupFacts ==
  ASSUME NEW sys, IsSystem(sys), NEW g, g.actions \subseteq TaskActions(sys)
  PROVE  /\ UnpackedBy(g) = {p \in DOMAIN sys.target : ActionOf(sys, p, "unpack") \in g.actions}
         /\ \A p \in DOMAIN sys.target :
                sys.target[p] \in Done(g, "configure") <=> ActionOf(sys, p, "configure") \in g.actions
         /\ \A p : p \in RemovedBy(g) <=> ActionOf(sys, p, "remove") \in g.actions
<1>1. ASSUME NEW a \in g.actions
      PROVE  /\ a = ActionOf(sys, PackageOf(a), TypeOf(a))
             /\ TypeOf(a) # "remove" => PackageOf(a) \in DOMAIN sys.target
  BY <1>1, ActionIs
<1>2. ASSUME NEW p, NEW type, type = "remove" \/ p \in DOMAIN sys.target
      PROVE  TypeOf(ActionOf(sys, p, type)) = type /\ PackageOf(ActionOf(sys, p, type)) = p
  BY <1>2, PackageOfAction
<1>3. ASSUME NEW p, NEW type
      PROVE  (\E v \in Done(g, type) : p = Package(v)) <=> \E a \in g.actions : TypeOf(a) = type /\ PackageOf(a) = p
  BY DEF Done, PackageOf
<1>4. \A p : p \in UnpackedBy(g) <=> \E a \in g.actions : TypeOf(a) = "unpack" /\ PackageOf(a) = p
  BY <1>3 DEF UnpackedBy
<1>5. \A p : p \in RemovedBy(g) <=> \E a \in g.actions : TypeOf(a) = "remove" /\ PackageOf(a) = p
  BY <1>3 DEF RemovedBy
<1>6. \A p : p \in UnpackedBy(g) <=> p \in DOMAIN sys.target /\ ActionOf(sys, p, "unpack") \in g.actions
  BY <1>1, <1>2, <1>4
<1>7. \A p : p \in RemovedBy(g) <=> ActionOf(sys, p, "remove") \in g.actions
  BY <1>1, <1>2, <1>5
<1>8. ASSUME NEW p \in DOMAIN sys.target
      PROVE  sys.target[p] \in Done(g, "configure") <=> ActionOf(sys, p, "configure") \in g.actions
  <2>1. VersionOf(ActionOf(sys, p, "configure")) = sys.target[p] /\ TypeOf(ActionOf(sys, p, "configure")) = "configure"
    BY DEF ActionOf, VersionOf, TypeOf
  <2>2. Package(sys.target[p]) = p
    BY DEF IsSystem
  <2>3. ASSUME sys.target[p] \in Done(g, "configure")
        PROVE  ActionOf(sys, p, "configure") \in g.actions
    <3>1. PICK a \in g.actions : TypeOf(a) = "configure" /\ VersionOf(a) = sys.target[p]
      BY <2>3 DEF Done
    <3>2. PackageOf(a) = p
      BY <2>2, <3>1 DEF PackageOf
    <3>3. QED
      BY <1>1, <3>1, <3>2
  <2>4. ASSUME ActionOf(sys, p, "configure") \in g.actions
        PROVE  sys.target[p] \in Done(g, "configure")
    BY <2>1, <2>4 DEF Done
  <2>5. QED
    BY <2>3, <2>4
<1>9. QED
  BY <1>6, <1>7, <1>8

LEMMA TypeOfGroup ==
  ASSUME NEW g
  PROVE  /\ CompoundType(g) = "remove" => Done(g, "configure") = {} /\ Done(g, "unpack") = {}
         /\ CompoundType(g) # "remove" => \E a \in g.actions : TypeOf(a) \in {"configure", "unpack"}
<1>1. CASE Done(g, "configure") # {}
  <2>1. CompoundType(g) = "configure"
    BY <1>1 DEF CompoundType
  <2>2. QED
    BY <1>1, <2>1 DEF Done
<1>2. CASE Done(g, "configure") = {} /\ Done(g, "unpack") # {}
  <2>1. CompoundType(g) = "unpack"
    BY <1>2 DEF CompoundType
  <2>2. QED
    BY <1>2, <2>1 DEF Done
<1>3. CASE Done(g, "configure") = {} /\ Done(g, "unpack") = {}
  <2>1. CompoundType(g) = "remove"
    BY <1>3 DEF CompoundType
  <2>2. QED
    BY <1>3, <2>1
<1>4. QED
  BY <1>1, <1>2, <1>3

LEMMA AfterRemoval ==
  ASSUME NEW g, NEW configured, CompoundType(g) = "remove"
  PROVE  /\ DOMAIN After(g, configured) = DOMAIN dpkg \ RemovedBy(g)
         /\ \A p \in DOMAIN dpkg \ RemovedBy(g) : After(g, configured)[p] = dpkg[p]
BY DEF After, Restrict, RemovedBy

\* the entry r is what the unpacking leaves, and new what the configuring does
EntryMade(g, configured, p, r, new) ==
    /\ p \in UnpackedBy(g) => r = [version |-> system.target[p], configured |-> FALSE]
    /\ p \notin UnpackedBy(g) => p \in DOMAIN dpkg /\ r = dpkg[p]
    /\ r.version \in configured => new = [r EXCEPT !.configured = TRUE]
    /\ r.version \notin configured => new = r

LEMMA AfterOthers ==
  ASSUME NEW g, NEW configured, CompoundType(g) # "remove"
  PROVE  /\ DOMAIN After(g, configured) = DOMAIN dpkg \cup UnpackedBy(g)
         /\ \A p \in DOMAIN dpkg \cup UnpackedBy(g) : \E r : EntryMade(g, configured, p, r, After(g, configured)[p])
<1> DEFINE f == AfterUnpacking(g)
<1>1. /\ DOMAIN f = DOMAIN dpkg \cup UnpackedBy(g)
      /\ \A p \in DOMAIN dpkg \cup UnpackedBy(g) :
            f[p] = IF p \in UnpackedBy(g) THEN [version |-> system.target[p], configured |-> FALSE] ELSE dpkg[p]
  BY DEF AfterUnpacking, UnpackedBy
<1>2. After(g, configured) = [p \in DOMAIN f |-> IF f[p].version \in configured THEN [f[p] EXCEPT !.configured = TRUE] ELSE f[p]]
  BY DEF After
<1> HIDE DEF f
<1>3. DOMAIN After(g, configured) = DOMAIN dpkg \cup UnpackedBy(g)
  BY <1>1, <1>2
<1>4. ASSUME NEW p \in DOMAIN dpkg \cup UnpackedBy(g)
      PROVE  \E r : EntryMade(g, configured, p, r, After(g, configured)[p])
  <2>1. After(g, configured)[p] = IF f[p].version \in configured THEN [f[p] EXCEPT !.configured = TRUE] ELSE f[p]
    BY <1>1, <1>2
  <2>2. EntryMade(g, configured, p, f[p], After(g, configured)[p])
    BY <1>1, <2>1 DEF EntryMade
  <2>3. QED
    BY <2>2
<1>5. QED
  BY <1>3, <1>4

(***************************************************************************)
(* What is known of dpkg while groups are pending: a version which is not  *)
(* to be unpacked any more is there, one which is not to be configured any *)
(* more is configured, and what is not wanted is there only if its removal *)
(* is to come.                                                             *)
(***************************************************************************)
Acts(L) == UNION {L[i].actions : i \in DOMAIN L}

IsEntry(r) == r = [version |-> r.version, configured |-> r.configured] /\ r.configured \in BOOLEAN

DpkgOK ==
    /\ DOMAIN dpkg \subseteq DOMAIN system.installed \cup DOMAIN system.target
    /\ \A p \in DOMAIN dpkg : IsEntry(dpkg[p]) /\ Package(dpkg[p].version) = p
    /\ leftovers \subseteq system.purged

Wanted(L) ==
    \A p \in DOMAIN system.target :
        ActionOf(system, p, "unpack") \notin Acts(L) =>
            /\ p \in DOMAIN dpkg
            /\ dpkg[p].version = system.target[p]
            /\ ActionOf(system, p, "configure") \notin Acts(L) => dpkg[p].configured = TRUE

Gone(L) ==
    \A p \in (DOMAIN dpkg \cup leftovers) \ DOMAIN system.target : ActionOf(system, p, "remove") \in Acts(L)

PendingOK(L) ==
    /\ IsSeq(L)
    /\ \A i \in DOMAIN L : L[i].actions \subseteq TaskActions(system) /\ Allowed(L[i].actions)
    /\ Followed(system, L)
    /\ Wanted(L)
    /\ Gone(L)

LEMMA RestOfLine ==
  ASSUME NEW L, IsSeq(L), L # <<>>
  PROVE  /\ Acts(L) = Head(L).actions \cup Acts(Tail(L))
         /\ \A i \in DOMAIN Tail(L) : i + 1 \in DOMAIN L /\ Tail(L)[i] = L[i + 1]
         /\ 1 \in DOMAIN L /\ Head(L) = L[1]
<1> DEFINE T == Tail(L)
<1>1. /\ IsSeq(T)
      /\ Len(T) = Len(L) - 1
      /\ \A i \in 1 .. Len(L) - 1 : T[i] = L[i + 1]
      /\ Head(L) = L[1]
      /\ Len(L) \in Nat \ {0}
  BY TailFacts
<1>2. DOMAIN L = 1 .. Len(L)
  BY SeqFacts
<1> HIDE DEF T
<1>3. DOMAIN T = 1 .. Len(L) - 1
  BY <1>1, SeqFacts
<1>4. \A i \in DOMAIN T : i + 1 \in DOMAIN L /\ T[i] = L[i + 1]
  BY <1>1, <1>2, <1>3
<1>5. \A i \in DOMAIN L : i # 1 => i - 1 \in DOMAIN T /\ T[i - 1] = L[i]
  <2>1. ASSUME NEW i \in DOMAIN L, i # 1 PROVE i - 1 \in DOMAIN T /\ T[i - 1] = L[i]
    <3>1. i - 1 \in 1 .. Len(L) - 1 /\ (i - 1) + 1 = i
      BY <1>1, <1>2, <2>1
    <3>2. QED
      BY <1>1, <1>3, <3>1
  <2>2. QED
    BY <2>1
<1>6. 1 \in DOMAIN L
  BY <1>1, <1>2
<1>7. Acts(L) = L[1].actions \cup Acts(T)
  BY <1>4, <1>5, <1>6 DEF Acts
<1>8. QED
  BY <1>1, <1>4, <1>6, <1>7 DEF T

\* The steps of a package that begin in a line end there, and not earlier.
LEMMA FollowedInRest ==
  ASSUME NEW sys, NEW L, IsSeq(L), L # <<>>, Followed(sys, L), NEW e \in TaskSteps(sys)
  PROVE  /\ Followed(sys, Tail(L))
         /\ e[1] \in Head(L).actions => e[2] \in Head(L).actions \cup Acts(Tail(L))
         /\ e[1] \in Acts(Tail(L)) => e[2] \in Acts(Tail(L))
<1> DEFINE T == Tail(L)
<1>1. /\ \A i \in DOMAIN T : i + 1 \in DOMAIN L /\ T[i] = L[i + 1]
      /\ 1 \in DOMAIN L /\ Head(L) = L[1]
      /\ Acts(L) = Head(L).actions \cup Acts(T)
  BY RestOfLine
<1>2. /\ DOMAIN L = 1 .. Len(L) /\ Len(L) \in Nat \ {0} /\ Len(T) = Len(L) - 1 /\ IsSeq(T)
  BY TailFacts, SeqFacts
<1> HIDE DEF T
<1>3. DOMAIN T = 1 .. Len(L) - 1
  BY <1>2, SeqFacts
<1>4. ASSUME NEW x \in TaskSteps(sys), NEW i \in DOMAIN T, x[1] \in T[i].actions
      PROVE  \E j \in DOMAIN T : i <= j /\ x[2] \in T[j].actions
  <2>1. i + 1 \in DOMAIN L /\ x[1] \in L[i + 1].actions
    BY <1>1, <1>4
  <2>2. PICK k \in DOMAIN L : i + 1 <= k /\ x[2] \in L[k].actions
    BY <2>1 DEF Followed
  <2>3. k - 1 \in DOMAIN T /\ i <= k - 1 /\ (k - 1) + 1 = k
    BY <1>2, <1>3, <2>2
  <2>4. T[k - 1] = L[k]
    BY <1>1, <2>3
  <2>5. QED
    BY <2>2, <2>3, <2>4
<1>5. Followed(sys, T)
  BY <1>4 DEF Followed
<1>6. e[1] \in Head(L).actions => e[2] \in Acts(L)
  BY <1>1 DEF Followed, Acts
<1>7. e[1] \in Acts(T) => e[2] \in Acts(T)
  BY <1>4 DEF Acts
<1>8. QED
  BY <1>1, <1>5, <1>6, <1>7 DEF T

LEMMA PackagesAreFinite ==
  ASSUME NEW sys, IsSystem(sys)
  PROVE  IsFiniteSet(Packages(sys))
<1> DEFINE s == sys.packages
<1>1. IsSeq(s)
  BY SeqIsSeq DEF IsSystem
<1> HIDE DEF s
<1>2. Len(s) \in Nat /\ DOMAIN s = 1 .. Len(s)
  BY <1>1, SeqFacts
<1>3. IsFiniteSet(DOMAIN s)
  <2>1. 1 \in Int /\ Len(s) \in Int
    BY <1>2
  <2>2. IsFiniteSet(1 .. Len(s))
    BY <2>1, FS_Interval
  <2>3. QED
    BY <1>2, <2>2
<1>4. IsFiniteSet({s[i] : i \in DOMAIN s})
  <2> DEFINE T == {s[i] : i \in DOMAIN s}
             f == [i \in DOMAIN s |-> s[i]]
  <2>1. f \in Surjection(DOMAIN s, T)
    BY DEF Surjection
  <2> HIDE DEF f, T
  <2>2. IsFiniteSet(T)
    BY <1>3, <2>1, FS_Surjection
  <2>3. QED
    BY <2>2 DEF T
<1>5. QED
  BY <1>4 DEF s, Packages

\* A group in which a removal meets another type of action is of one package.
LEMMA MixedGroup ==
  ASSUME NEW sys, IsSystem(sys), NEW A \in SUBSET TaskActions(sys), Allowed(A), NEW a \in A, NEW b \in A,
         TypeOf(a) # "configure"
  PROVE  PackageOf(a) = PackageOf(b)
<1>1. Cardinality(PackagesOf(A)) = 1
  BY DEF Allowed, SinglePackage
<1>2. PackagesOf(A) \subseteq Packages(sys)
  BY ActionIs DEF PackagesOf
<1>3. IsFiniteSet(PackagesOf(A))
  BY <1>2, PackagesAreFinite, FS_Subset
<1>4. PICK x : PackagesOf(A) = {x}
  BY <1>1, <1>3, FS_Singleton
<1>5. PackageOf(a) \in PackagesOf(A) /\ PackageOf(b) \in PackagesOf(A)
  BY DEF PackagesOf
<1>6. QED
  BY <1>4, <1>5

LEMMA EntryFacts ==
  /\ \A v : \A c \in BOOLEAN : IsEntry([version |-> v, configured |-> c])
  /\ \A r : IsEntry(r) => [r EXCEPT !.configured = TRUE] = [version |-> r.version, configured |-> TRUE]
  /\ \A r : IsEntry(r) => [r EXCEPT !.configured = FALSE] = [version |-> r.version, configured |-> FALSE]
<1>1. \A v : \A c \in BOOLEAN : IsEntry([version |-> v, configured |-> c])
  BY DEF IsEntry
<1>2. ASSUME NEW v, NEW c, NEW d
      PROVE  [[version |-> v, configured |-> c] EXCEPT !.configured = d] = [version |-> v, configured |-> d]
  OBVIOUS
<1>3. ASSUME NEW r, IsEntry(r), NEW d
      PROVE  [r EXCEPT !.configured = d] = [version |-> r.version, configured |-> d]
  <2>1. r = [version |-> r.version, configured |-> r.configured]
    BY <1>3 DEF IsEntry
  <2> DEFINE v == r.version
             c == r.configured
  <2>2. r = [version |-> v, configured |-> c]
    BY <2>1
  <2> HIDE DEF v, c
  <2>3. [r EXCEPT !.configured = d] = [version |-> v, configured |-> d]
    BY <1>2, <2>2
  <2>4. QED
    BY <2>3 DEF v
<1>4. \A r : IsEntry(r) => [r EXCEPT !.configured = TRUE] = [version |-> r.version, configured |-> TRUE]
  BY <1>3
<1>5. \A r : IsEntry(r) => [r EXCEPT !.configured = FALSE] = [version |-> r.version, configured |-> FALSE]
  BY <1>3
<1>6. QED
  BY <1>1, <1>4, <1>5, Zenon

\* What dpkg knows of a package after a call that is no removal.
NewEntry(g, configured, p, new) ==
    /\ IsEntry(new) /\ Package(new.version) = p
    /\ p \in UnpackedBy(g) => new.version = system.target[p]
    /\ p \notin UnpackedBy(g) => /\ p \in DOMAIN dpkg /\ new.version = dpkg[p].version
                                 /\ dpkg[p].configured = TRUE => new.configured = TRUE
    /\ new.version \in configured => new.configured = TRUE

LEMMA AfterVersions ==
  ASSUME IsSystem(system), DpkgOK, NEW g, g.actions \subseteq TaskActions(system), NEW configured,
         CompoundType(g) # "remove"
  PROVE  \A p \in DOMAIN After(g, configured) : NewEntry(g, configured, p, After(g, configured)[p])
<1> DEFINE f == After(g, configured)
<1>1. /\ DOMAIN f = DOMAIN dpkg \cup UnpackedBy(g)
      /\ \A p \in DOMAIN dpkg \cup UnpackedBy(g) : \E r : EntryMade(g, configured, p, r, f[p])
  BY AfterOthers
<1> HIDE DEF f
<1>2. UnpackedBy(g) = {p \in DOMAIN system.target : ActionOf(system, p, "unpack") \in g.actions}
  BY GroupFacts
<1>3. ASSUME NEW p \in DOMAIN f
      PROVE  /\ IsEntry(f[p]) /\ Package(f[p].version) = p
             /\ p \in UnpackedBy(g) => f[p].version = system.target[p]
             /\ p \notin UnpackedBy(g) => /\ p \in DOMAIN dpkg /\ f[p].version = dpkg[p].version
                                          /\ dpkg[p].configured = TRUE => f[p].configured = TRUE
             /\ f[p].version \in configured => f[p].configured = TRUE
  <2>1. PICK r : /\ p \in UnpackedBy(g) => r = [version |-> system.target[p], configured |-> FALSE]
                 /\ p \notin UnpackedBy(g) => p \in DOMAIN dpkg /\ r = dpkg[p]
                 /\ r.version \in configured => f[p] = [r EXCEPT !.configured = TRUE]
                 /\ r.version \notin configured => f[p] = r
    BY <1>1, <1>3 DEF EntryMade
  <2>2. /\ IsEntry(r) /\ Package(r.version) = p
        /\ p \in UnpackedBy(g) => r.version = system.target[p]
    <3>1. CASE p \in UnpackedBy(g)
      <4>1. Package(system.target[p]) = p
        BY <1>2, <3>1 DEF IsSystem
      <4>2. r = [version |-> system.target[p], configured |-> FALSE]
        BY <2>1, <3>1
      <4>3. r.version = system.target[p]
        BY <4>2
      <4>4. QED
        BY <4>1, <4>2, <4>3, EntryFacts
    <3>2. CASE p \notin UnpackedBy(g)
      BY <2>1, <3>2 DEF DpkgOK
    <3>3. QED
      BY <3>1, <3>2
  <2>3. /\ IsEntry(f[p]) /\ f[p].version = r.version
        /\ r.configured = TRUE => f[p].configured = TRUE
        /\ r.version \in configured => f[p].configured = TRUE
    <3>1. CASE r.version \in configured
      <4>1. f[p] = [version |-> r.version, configured |-> TRUE]
        BY <2>1, <2>2, <3>1, EntryFacts
      <4>2. f[p].version = r.version /\ f[p].configured = TRUE
        BY <4>1
      <4>3. QED
        BY <4>1, <4>2, EntryFacts
    <3>2. CASE r.version \notin configured
      BY <2>1, <2>2, <3>2
    <3>3. QED
      BY <3>1, <3>2
  <2>4. QED
    BY <2>1, <2>2, <2>3
<1>4. QED
  BY <1>3 DEF f, NewEntry

LEMMA AfterOK ==
  ASSUME IsSystem(system), DpkgOK, NEW g, g.actions \subseteq TaskActions(system), NEW configured,
         UNCHANGED system, dpkg' = After(g, configured), leftovers' \subseteq leftovers
  PROVE  DpkgOK'
<1>1. leftovers' \subseteq system'.purged
  BY DEF DpkgOK
<1>2. CASE CompoundType(g) = "remove"
  <2> DEFINE f == After(g, configured)
  <2>1. DOMAIN f = DOMAIN dpkg \ RemovedBy(g) /\ \A p \in DOMAIN dpkg \ RemovedBy(g) : f[p] = dpkg[p]
    BY <1>2, AfterRemoval
  <2>2. dpkg' = f
    OBVIOUS
  <2> HIDE DEF f
  <2>3. QED
    BY <1>1, <2>1, <2>2 DEF DpkgOK
<1>3. CASE CompoundType(g) # "remove"
  <2> DEFINE f == After(g, configured)
  <2>1. ASSUME NEW p \in DOMAIN f
        PROVE  IsEntry(f[p]) /\ Package(f[p].version) = p
    <3>1. NewEntry(g, configured, p, f[p])
      BY <1>3, <2>1, AfterVersions
    <3>2. QED
      BY <3>1 DEF NewEntry
  <2>2. DOMAIN f = DOMAIN dpkg \cup UnpackedBy(g)
    BY <1>3, AfterOthers
  <2>3. UnpackedBy(g) \subseteq DOMAIN system.target
    BY GroupFacts
  <2>4. dpkg' = f
    OBVIOUS
  <2> HIDE DEF f
  <2>5. QED
    BY <1>1, <2>1, <2>2, <2>3, <2>4 DEF DpkgOK
<1>4. QED
  BY <1>2, <1>3

\* A call of dpkg that succeeds takes the first of the pending groups away.
LEMMA GroupDone ==
  ASSUME IsSystem(system), DpkgOK, NEW L, L # <<>>, PendingOK(L), UNCHANGED system,
         dpkg' = After(Head(L), Done(Head(L), "configure")),
         leftovers' = leftovers \ RemovedBy(Head(L))
  PROVE  PendingOK(Tail(L))'
<1> DEFINE g == Head(L)
           T == Tail(L)
           U(p) == ActionOf(system, p, "unpack")
           C(p) == ActionOf(system, p, "configure")
           R(p) == ActionOf(system, p, "remove")
           f == After(g, Done(g, "configure"))
<1>1. /\ IsSeq(L) /\ Followed(system, L) /\ Wanted(L) /\ Gone(L)
      /\ \A i \in DOMAIN L : L[i].actions \subseteq TaskActions(system) /\ Allowed(L[i].actions)
  BY DEF PendingOK
<1>2. /\ Acts(L) = g.actions \cup Acts(T)
      /\ \A i \in DOMAIN T : i + 1 \in DOMAIN L /\ T[i] = L[i + 1]
      /\ 1 \in DOMAIN L /\ g = L[1]
  BY <1>1, RestOfLine
<1>3. IsSeq(T)
  BY <1>1, TailFacts
<1>4. /\ g.actions \subseteq TaskActions(system) /\ Allowed(g.actions)
      /\ \A i \in DOMAIN T : T[i].actions \subseteq TaskActions(system) /\ Allowed(T[i].actions)
  BY <1>1, <1>2
<1>5. Acts(T) \subseteq TaskActions(system)
  BY <1>4 DEF Acts
<1>6. \A e \in TaskSteps(system) : /\ e[1] \in g.actions => e[2] \in g.actions \cup Acts(T)
                                   /\ e[1] \in Acts(T) => e[2] \in Acts(T)
  BY <1>1, FollowedInRest
<1>7. ASSUME NEW e \in TaskSteps(system), NEW i \in DOMAIN T, e[1] \in T[i].actions
      PROVE  \E j \in DOMAIN T : i <= j /\ e[2] \in T[j].actions
  <2>1. Followed(system, T)
    BY <1>1, <1>7, FollowedInRest
  <2>2. QED
    BY <1>7, <2>1 DEF Followed
<1>8. Followed(system, T)
  BY <1>7 DEF Followed
<1>9. /\ UnpackedBy(g) = {p \in DOMAIN system.target : U(p) \in g.actions}
      /\ \A p \in DOMAIN system.target : system.target[p] \in Done(g, "configure") <=> C(p) \in g.actions
      /\ \A p : p \in RemovedBy(g) <=> R(p) \in g.actions
  BY <1>4, GroupFacts
<1>10. ASSUME NEW p \in DOMAIN system.target, U(p) \in TaskActions(system)
       PROVE  /\ U(p) \in g.actions => C(p) \in g.actions \cup Acts(T)
              /\ U(p) \in Acts(T) => C(p) \in Acts(T)
  <2>1. <<U(p), C(p)>> \in TaskSteps(system)
    BY <1>10, UnpackThenConfigure
  <2>2. QED
    BY <1>6, <2>1
<1>11. ASSUME NEW p \in DOMAIN system.target, R(p) \in g.actions
       PROVE  U(p) \in g.actions \cup Acts(T)
  <2>1. <<R(p), U(p)>> \in TaskSteps(system)
    BY <1>4, <1>11, RemoveThenUnpack
  <2>2. QED
    BY <1>6, <1>11, <2>1
<1>12. dpkg' = f /\ leftovers' = leftovers \ RemovedBy(g) /\ system' = system
  OBVIOUS
<1>13. CASE CompoundType(g) = "remove"
  <2>1. DOMAIN f = DOMAIN dpkg \ RemovedBy(g) /\ \A p \in DOMAIN dpkg \ RemovedBy(g) : f[p] = dpkg[p]
    BY <1>13, AfterRemoval
  <2>2. Done(g, "configure") = {} /\ Done(g, "unpack") = {}
    BY <1>13, TypeOfGroup
  <2>3. UnpackedBy(g) = {}
    BY <2>2 DEF UnpackedBy
  <2> HIDE DEF f, U, C, R, T, g
  <2>4. ASSUME NEW p \in DOMAIN system.target, U(p) \notin Acts(T)
        PROVE  /\ p \in DOMAIN f /\ f[p].version = system.target[p]
               /\ C(p) \notin Acts(T) => f[p].configured = TRUE
    <3>1. U(p) \notin g.actions /\ C(p) \notin g.actions
      BY <1>9, <2>2, <2>3
    <3>2. p \notin RemovedBy(g)
      BY <1>9, <1>11, <2>4, <3>1
    <3>3. /\ p \in DOMAIN dpkg /\ dpkg[p].version = system.target[p]
          /\ C(p) \notin Acts(T) => dpkg[p].configured = TRUE
      BY <1>1, <1>2, <2>4, <3>1 DEF Wanted, U, C
    <3>4. QED
      BY <2>1, <3>2, <3>3
  <2>5. ASSUME NEW p \in (DOMAIN f \cup leftovers') \ DOMAIN system.target
        PROVE  R(p) \in Acts(T)
    <3>1. p \in DOMAIN dpkg \cup leftovers /\ p \notin RemovedBy(g)
      BY <1>12, <2>1, <2>5
    <3>2. R(p) \in Acts(L)
      BY <1>1, <2>5, <3>1 DEF Gone, R
    <3>3. QED
      BY <1>2, <1>9, <3>1, <3>2
  <2>6. Wanted(T)'
    BY <1>12, <2>4 DEF Wanted, U, C, T
  <2>7. Gone(T)'
    BY <1>12, <2>5 DEF Gone, R, T
  <2>8. QED
    BY <1>3, <1>4, <1>8, <1>12, <2>6, <2>7 DEF PendingOK, T
<1>14. CASE CompoundType(g) # "remove"
  <2>1. \A p \in DOMAIN f : NewEntry(g, Done(g, "configure"), p, f[p])
    BY <1>4, <1>14, AfterVersions
  <2>2. DOMAIN f = DOMAIN dpkg \cup UnpackedBy(g)
    BY <1>14, AfterOthers
  <2>3. PICK b \in g.actions : TypeOf(b) \in {"configure", "unpack"}
    BY <1>14, TypeOfGroup
  <2> HIDE DEF f, U, C, R, T, g
  <2>4. ASSUME NEW p \in DOMAIN system.target, U(p) \notin Acts(T)
        PROVE  /\ p \in DOMAIN f /\ f[p].version = system.target[p]
               /\ C(p) \notin Acts(T) => f[p].configured = TRUE
    <3>1. CASE U(p) \in g.actions
      <4>1. p \in UnpackedBy(g)
        BY <1>9, <3>1
      <4>2. p \in DOMAIN f /\ f[p].version = system.target[p]
        BY <2>1, <2>2, <4>1 DEF NewEntry
      <4>3. ASSUME C(p) \notin Acts(T) PROVE f[p].configured = TRUE
        <5>1. C(p) \in g.actions
          BY <1>4, <1>10, <3>1, <4>3
        <5>2. f[p].version \in Done(g, "configure")
          BY <1>9, <4>2, <5>1
        <5>3. QED
          BY <2>1, <4>2, <5>2 DEF NewEntry
      <4>4. QED
        BY <4>2, <4>3
    <3>2. CASE U(p) \notin g.actions
      <4>1. p \notin UnpackedBy(g)
        BY <1>9, <3>2
      <4>2. U(p) \notin Acts(L)
        BY <1>2, <2>4, <3>2
      <4>3. /\ p \in DOMAIN dpkg /\ dpkg[p].version = system.target[p]
            /\ C(p) \notin Acts(L) => dpkg[p].configured = TRUE
        BY <1>1, <4>2 DEF Wanted, U, C
      <4>4. p \in DOMAIN f /\ f[p].version = system.target[p]
        BY <2>1, <2>2, <4>1, <4>3 DEF NewEntry
      <4>5. ASSUME C(p) \notin Acts(T) PROVE f[p].configured = TRUE
        <5>1. CASE C(p) \in g.actions
          <6>1. f[p].version \in Done(g, "configure")
            BY <1>9, <4>4, <5>1
          <6>2. QED
            BY <2>1, <4>4, <6>1 DEF NewEntry
        <5>2. CASE C(p) \notin g.actions
          <6>1. dpkg[p].configured = TRUE
            BY <1>2, <4>3, <4>5, <5>2
          <6>2. QED
            BY <2>1, <4>1, <4>4, <6>1 DEF NewEntry
        <5>3. QED
          BY <5>1, <5>2
      <4>6. QED
        BY <4>4, <4>5
    <3>3. QED
      BY <3>1, <3>2
  <2>5. ASSUME NEW p \in (DOMAIN f \cup leftovers') \ DOMAIN system.target
        PROVE  R(p) \in Acts(T)
    <3>1. p \in DOMAIN dpkg \cup leftovers
      BY <1>9, <1>12, <2>2, <2>5
    <3>2. R(p) \in Acts(L)
      BY <1>1, <2>5, <3>1 DEF Gone, R
    <3>3. ASSUME R(p) \in g.actions PROVE FALSE
      <4>1. TypeOf(R(p)) = "remove" /\ PackageOf(R(p)) = p
        BY PackageOfAction DEF R
      <4>2. g.actions \in SUBSET TaskActions(system)
        BY <1>4
      <4>3. TypeOf(R(p)) # "configure"
        BY <4>1
      <4>4. PackageOf(R(p)) = PackageOf(b)
        BY <1>4, <2>3, <3>3, <4>2, <4>3, MixedGroup
      <4>5. PackageOf(b) \in DOMAIN system.target
        BY <1>4, <2>3, ActionIs
      <4>6. QED
        BY <2>5, <4>1, <4>4, <4>5
    <3>4. QED
      BY <1>2, <3>2, <3>3
  <2>6. Wanted(T)'
    BY <1>12, <2>4 DEF Wanted, U, C, T
  <2>7. Gone(T)'
    BY <1>12, <2>5 DEF Gone, R, T
  <2>8. QED
    BY <1>3, <1>4, <1>8, <1>12, <2>6, <2>7 DEF PendingOK, T
<1>15. QED
  BY <1>13, <1>14

-----------------------------------------------------------------------------
(***************************************************************************)
(* The beginning and the end of a run.                                     *)
(***************************************************************************)
\* dpkg is as the run has found it
AsFound ==
    /\ DOMAIN dpkg = DOMAIN system.installed
    /\ \A p \in DOMAIN dpkg : /\ dpkg[p].version = system.installed[p]
                              /\ dpkg[p].configured = (p \notin system.interim)
    /\ leftovers = system.purged

LEMMA WantedAtStart ==
  ASSUME IsSystem(system), AsFound, NEW L, TaskActions(system) \subseteq Acts(L)
  PROVE  Wanted(L) /\ Gone(L)
<1>1. ASSUME NEW p \in DOMAIN system.target, ActionOf(system, p, "unpack") \notin Acts(L)
      PROVE  /\ p \in DOMAIN dpkg
             /\ dpkg[p].version = system.target[p]
             /\ ActionOf(system, p, "configure") \notin Acts(L) => dpkg[p].configured = TRUE
  <2>1. p \in Packages(system)
    BY DEF IsSystem
  <2>2. \A i \in DOMAIN Task(system, p) : ActionOf(system, p, Task(system, p)[i]) \in Acts(L)
    BY <2>1, TaskHasAction
  <2>3. Task(system, p) \in {<<>>, <<"configure">>}
    <3>1. Task(system, p) # <<"remove">>
      BY DEF Task
    <3>2. Task(system, p) # <<"unpack", "configure">>
      <4>1. SUFFICES ASSUME Task(system, p) = <<"unpack", "configure">> PROVE FALSE
        OBVIOUS
      <4>2. 1 \in DOMAIN Task(system, p) /\ Task(system, p)[1] = "unpack"
        BY <4>1
      <4>3. QED
        BY <1>1, <2>2, <4>2
    <3>3. Task(system, p) # <<"remove", "unpack", "configure">>
      <4>1. SUFFICES ASSUME Task(system, p) = <<"remove", "unpack", "configure">> PROVE FALSE
        OBVIOUS
      <4>2. 2 \in DOMAIN Task(system, p) /\ Task(system, p)[2] = "unpack"
        BY <4>1
      <4>3. QED
        BY <1>1, <2>2, <4>2
    <3>4. QED
      BY <3>1, <3>2, <3>3, TaskIs
  <2>4. p \in DOMAIN system.installed /\ system.target[p] = system.installed[p]
    BY <1>1, <2>3 DEF Task
  <2>5. ASSUME ActionOf(system, p, "configure") \notin Acts(L)
        PROVE  p \notin system.interim
    <3>1. Task(system, p) # <<"configure">>
      <4>1. SUFFICES ASSUME Task(system, p) = <<"configure">> PROVE FALSE
        OBVIOUS
      <4>2. 1 \in DOMAIN Task(system, p) /\ Task(system, p)[1] = "configure"
        BY <4>1
      <4>3. QED
        BY <2>2, <2>5, <4>2
    <3>2. QED
      BY <1>1, <2>3, <2>4, <3>1 DEF Task
  <2>6. QED
    BY <2>4, <2>5 DEF AsFound
<1>2. ASSUME NEW p \in (DOMAIN dpkg \cup leftovers) \ DOMAIN system.target
      PROVE  ActionOf(system, p, "remove") \in Acts(L)
  <2>1. p \in DOMAIN system.installed \cup system.purged /\ p \in Packages(system)
    BY <1>2 DEF AsFound, IsSystem
  <2>2. Task(system, p) = <<"remove">>
    BY <1>2, <2>1 DEF Task
  <2>3. 1 \in DOMAIN Task(system, p) /\ Task(system, p)[1] = "remove"
    BY <2>2
  <2>4. QED
    BY <2>1, <2>3, TaskHasAction
<1>3. QED
  BY <1>1, <1>2 DEF Wanted, Gone

LEMMA NothingPending ==
  ASSUME IsSystem(system), DpkgOK, Wanted(<<>>), Gone(<<>>)
  PROVE  /\ DOMAIN dpkg = DOMAIN system.target
         /\ \A p \in DOMAIN dpkg : dpkg[p] = [version |-> system.target[p], configured |-> TRUE]
         /\ leftovers = {}
<1>1. Acts(<<>>) = {}
  BY DEF Acts
<1>2. \A p \in DOMAIN system.target : /\ p \in DOMAIN dpkg /\ dpkg[p].version = system.target[p]
                                      /\ dpkg[p].configured = TRUE
  BY <1>1 DEF Wanted
<1>3. (DOMAIN dpkg \cup leftovers) \subseteq DOMAIN system.target
  BY <1>1 DEF Gone
<1>4. leftovers \cap DOMAIN system.target = {}
  BY DEF DpkgOK, IsSystem
<1>5. \A p \in DOMAIN dpkg : dpkg[p] = [version |-> dpkg[p].version, configured |-> dpkg[p].configured]
  BY DEF DpkgOK, IsEntry
<1>6. QED
  BY <1>2, <1>3, <1>4, <1>5

-----------------------------------------------------------------------------
(***************************************************************************)
(* The archives and the limit.  While a changeset runs, what it has        *)
(* downloaded covers all that is new in the directory, and fits; between   *)
(* changesets nothing is new.                                              *)
(***************************************************************************)
SystemOK == IsSystem(system) /\ IsWorkerSystem(system)

Fits(downloads) == system.limit > 0 => Sum(system.sizes, downloads) <= system.limit

ChangesetsFit ==
    \A i \in DOMAIN changesets :
        Fits(changesets[i].downloads) /\ changesets[i].downloads \subseteq Packages(system)

SpaceOK ==
    /\ archives \subseteq Packages(system)
    /\ Fits(archives \ system.present)
    /\ stage \in {"scheduling", "between"} => (system.limit > 0 => archives \subseteq system.present)
    /\ stage \in {"before dpkg", "dpkg", "after dpkg"} =>
        /\ system.limit > 0 => archives \ system.present \subseteq fetched
        /\ fetched \subseteq Packages(system)
        /\ Fits(fetched)
    /\ ChangesetsFit

LEMMA NothingFits ==
  ASSUME SystemOK
  PROVE  Fits({})
<1>1. Sum(system.sizes, {}) = 0
  BY FS_EmptySet, SumUnfolds
<1>2. system.limit \in Nat
  BY DEF SystemOK, IsWorkerSystem
<1>3. QED
  BY <1>1, <1>2 DEF Fits

LEMMA LessFits ==
  ASSUME SystemOK, NEW B \in SUBSET Packages(system), NEW A \in SUBSET B, Fits(B)
  PROVE  Fits(A)
<1> DEFINE P == Packages(system)
           w == system.sizes
<1>1. IsFiniteSet(P) /\ w \in [P -> Nat] /\ system.limit \in Nat
  BY PackagesAreFinite DEF SystemOK, IsWorkerSystem
<1>2. B \in SUBSET P /\ A \in SUBSET P
  OBVIOUS
<1> HIDE DEF P, w
<1>3. Sum(w, A) <= Sum(w, B)
  BY <1>1, <1>2, SumGrows
<1>4. Sum(w, A) \in Nat /\ Sum(w, B) \in Nat
  BY <1>1, <1>2, SumIsNat
<1>5. system.limit > 0 => Sum(w, B) <= system.limit
  BY DEF Fits, w
<1>6. system.limit > 0 => Sum(w, A) <= system.limit
  BY <1>1, <1>3, <1>4, <1>5
<1>7. QED
  BY <1>6 DEF Fits, w

LEMMA SmallFits ==
  ASSUME SystemOK, NEW c, ~TooBig(c), c.downloads \subseteq Packages(system)
  PROVE  Fits(c.downloads)
<1> DEFINE w == system.sizes
           d == c.downloads
<1>1. IsFiniteSet(Packages(system)) /\ w \in [Packages(system) -> Nat] /\ system.limit \in Nat
  BY PackagesAreFinite DEF SystemOK, IsWorkerSystem
<1>2. d \in SUBSET Packages(system)
  OBVIOUS
<1>3. Size(c.downloads) = Sum(w, d)
  BY DEF Size, Sum
<1>4. system.limit > 0 => ~(Sum(w, d) > system.limit)
  BY <1>3 DEF TooBig
<1> HIDE DEF w, d
<1>5. Sum(w, d) \in Nat
  BY <1>1, <1>2, SumIsNat
<1>6. system.limit > 0 => Sum(w, d) <= system.limit
  BY <1>1, <1>4, <1>5
<1>7. QED
  BY <1>6 DEF Fits, w, d

LEMMA LimitKeptIsFitting == LimitKept <=> Fits(archives \ system.present)
BY DEF LimitKept, Fits, Size, Sum

\* Only what is taken out of the directory, or put into it, matters.
LEMMA SpaceStays ==
  ASSUME SystemOK, SpaceOK, UNCHANGED <<system, fetched, changesets>>,
         archives' \subseteq archives,
         stage' \in {"scheduling", "between"} => stage \in {"scheduling", "between"},
         stage' \in {"before dpkg", "dpkg", "after dpkg"} => stage \in {"before dpkg", "dpkg", "after dpkg"}
  PROVE  SpaceOK'
<1> DEFINE d == archives' \ system.present
<1>1. /\ archives \subseteq Packages(system)
      /\ Fits(archives \ system.present)
  BY DEF SpaceOK
<1>2. d \in SUBSET (archives \ system.present) /\ archives \ system.present \in SUBSET Packages(system)
  BY <1>1
<1> HIDE DEF d
<1>3. Fits(d)
  BY <1>1, <1>2, LessFits
<1>4. Fits(archives \ system.present)'
  BY <1>3 DEF Fits, d
<1>5. ChangesetsFit'
  BY DEF SpaceOK, ChangesetsFit, Fits
<1>6. Fits(fetched) => Fits(fetched)'
  BY DEF Fits
<1>7. QED
  BY <1>4, <1>5, <1>6 DEF SpaceOK

-----------------------------------------------------------------------------
(***************************************************************************)
(* The groups that are pending: those left of the running changeset, and   *)
(* those of the changesets to come.                                        *)
(***************************************************************************)
Working == stage \in {"between", "before dpkg", "dpkg", "after dpkg"}
GroupsLeft == IF stage = "after dpkg" THEN Tail(groups) ELSE groups

WorkOK ==
    Working =>
        /\ IsSeq(changesets) /\ IsSeq(groups)
        /\ stage = "between" => groups = <<>>
        /\ stage \in {"dpkg", "after dpkg"} => groups # <<>>
        /\ \E R : IsSeq(R) /\ Flat(changesets, R) /\ PendingOK(GroupsLeft \o R)

LEMMA ConcatEmpty ==
  ASSUME NEW s, IsSeq(s)
  PROVE  s \o <<>> = s /\ <<>> \o s = s
<1> DEFINE T == {s[i] : i \in DOMAIN s}
<1>1. s \in Seq(T)
  BY DEF IsSeq
<1> HIDE DEF T
<1>2. QED
  BY <1>1

LEMMA ConcatHead ==
  ASSUME NEW s, NEW t, IsSeq(s), IsSeq(t), s # <<>>
  PROVE  s \o t # <<>> /\ Head(s \o t) = Head(s) /\ Tail(s \o t) = Tail(s) \o t
<1> DEFINE T == {s[i] : i \in DOMAIN s} \cup {t[i] : i \in DOMAIN t}
<1>1. s \in Seq(T) /\ t \in Seq(T)
  BY SeqMonotonic DEF IsSeq
<1> HIDE DEF T
<1>2. s \o t # <<>> /\ Head(s \o t) = Head(s) /\ Tail(s \o t) = Tail(s) \o t
  BY <1>1
<1>3. QED
  BY <1>2

LEMMA CutsWell ==
  ASSUME SystemOK, SchedOK, AsFound, CutIntoChangesets, stage' = "between"
  PROVE  /\ IsSeq(changesets') /\ IsSeq(sequence)
         /\ Flat(changesets', sequence)
         /\ PendingOK(sequence)
         /\ \A i \in DOMAIN changesets' :
                ~TooBig(changesets'[i]) /\ changesets'[i].downloads \subseteq Packages(system)
<1> DEFINE split == SplitIntoChangesets
<1>1. /\ status = "scheduled" /\ split.open = {} /\ changesets' = Merged(split.found)
      /\ \A i \in DOMAIN split.found : ~TooBig(split.found[i])
  BY DEF CutIntoChangesets
<1>2. /\ waiting = <<>> /\ ~Computing /\ IsSeq(sequence)
      /\ \A i \in DOMAIN sequence : Allowed(sequence[i].actions)
  BY <1>1 DEF SchedOK, Computing
<1>3. LineOK(system, sequence)
  <2>1. sequence \o waiting = sequence
    BY <1>2, ConcatEmpty
  <2>2. LineOK(system, sequence \o waiting)
    BY <1>2 DEF SchedOK
  <2>3. QED
    BY <2>1, <2>2
<1>4. sequence # <<>> => ~sequence[Len(sequence)].continued
  BY <1>3 DEF LineOK
<1>5. IsSeq(split.found) /\ Flat(split.found, sequence) /\ \A k \in DOMAIN split.found : split.found[k].downloads \subseteq Downloads
  BY <1>1, <1>2, <1>4, SplitIsFlat
<1> DEFINE found == split.found
           D == Downloads
           R == sequence
<1>6. IsSeq(found) /\ IsSeq(R) /\ Flat(found, R) /\ \A k \in DOMAIN found : ~TooBig(found[k]) /\ found[k].downloads \subseteq D
  BY <1>1, <1>2, <1>5
<1>7. system.limit \in Nat
  BY DEF SystemOK, IsWorkerSystem
<1>8. D \subseteq Packages(system)
  BY DEF Downloads
<1>9. changesets' = Merged(found)
  BY <1>1
<1> HIDE DEF split, found, D, R
<1>10. MergedSoFar(Merged(found), R, D)
  BY <1>6, <1>7, MergedIsFlat
<1>11. /\ IsSeq(changesets') /\ Flat(changesets', R)
       /\ \A i \in DOMAIN changesets' : ~TooBig(changesets'[i]) /\ changesets'[i].downloads \subseteq D
  BY <1>9, <1>10 DEF MergedSoFar
<1>12. PendingOK(sequence)
  <2>1. TaskActions(system) \subseteq Acts(sequence)
    BY <1>3 DEF LineOK, Covers, Acts
  <2>2. Wanted(sequence) /\ Gone(sequence)
    BY <2>1, WantedAtStart DEF SystemOK
  <2>3. QED
    BY <1>2, <1>3, <2>2 DEF PendingOK, LineOK
<1>13. QED
  BY <1>2, <1>8, <1>11, <1>12 DEF R

-----------------------------------------------------------------------------
(***************************************************************************)
(* The marks.  A package that comes for the sake of others has its mark    *)
(* when it is installed, and from the call of dpkg on that unpacks it.     *)
(***************************************************************************)
ForOthers(p) ==
    /\ p \in DOMAIN system.target /\ p \notin DOMAIN system.installed
    /\ p \in system.asAuto /\ p \notin DOMAIN system.overrides

MarksOK ==
    /\ \A p : ForOthers(p) /\ p \in system.auto \cup DOMAIN dpkg => p \in auto
    /\ stage = "dpkg" /\ CompoundType(Head(groups)) # "remove" =>
            \A p \in UnpackedBy(Head(groups)) : ForOthers(p) => p \in auto

LEMMA MarksWanted ==
  ASSUME NEW p, ForOthers(p)
  PROVE  /\ WantsAuto(system, p)
         /\ p \notin system.auto => p \in AutoFlagChanges(system)
BY DEF ForOthers, WantsAuto, AutoFlagChanges

LEMMA MarkedByKeeps ==
  ASSUME NEW g, NEW p, ForOthers(p), p \in auto \/ (p \in UnpackedBy(g) /\ p \notin system.auto)
  PROVE  p \in MarkedBy(g)
<1>1. WantsAuto(system, p) /\ (p \notin system.auto => p \in AutoFlagChanges(system))
  BY MarksWanted
<1>2. QED
  BY <1>1 DEF MarkedBy, UnpackedBy

LEMMA MarksStay ==
  ASSUME MarksOK, UNCHANGED system, stage' # "dpkg",
         \A p : ForOthers(p) /\ p \in auto => p \in auto',
         \A p \in DOMAIN dpkg' : ForOthers(p) => p \in DOMAIN dpkg \cup auto
  PROVE  MarksOK'
BY DEF MarksOK, ForOthers

-----------------------------------------------------------------------------
(***************************************************************************)
(* The inductive invariant, and what every action does to it.              *)
(***************************************************************************)
WorkerInv ==
    /\ SystemOK
    /\ DpkgOK
    /\ stage = "scheduling" => SchedOK /\ AsFound /\ groups = <<>>
    /\ WorkOK
    /\ SpaceOK
    /\ MarksOK
    /\ EndsAsWanted

LEMMA InvAtStart == WorkerInit => WorkerInv
<1> SUFFICES ASSUME WorkerInit PROVE WorkerInv
  OBVIOUS
<1>1. /\ system \in Systems /\ Init /\ stage = "scheduling" /\ changesets = <<>> /\ groups = <<>>
      /\ archives = system.present /\ leftovers = system.purged /\ auto = system.auto
      /\ dpkg = [p \in DOMAIN system.installed |->
                    [version |-> system.installed[p], configured |-> p \notin system.interim]]
  BY DEF WorkerInit, Init
<1>2. SystemOK
  BY <1>1, SystemsAssumption, WorkerSystemsAssumption DEF SystemOK
<1>3. AsFound
  BY <1>1 DEF AsFound
<1>4. DpkgOK
  <2>1. \A p \in DOMAIN dpkg : dpkg[p] = [version |-> system.installed[p], configured |-> p \notin system.interim]
    BY <1>1
  <2>2. ASSUME NEW p \in DOMAIN dpkg PROVE IsEntry(dpkg[p])
    <3> DEFINE v == system.installed[p]
               c == p \notin system.interim
    <3>1. dpkg[p] = [version |-> v, configured |-> c] /\ c \in BOOLEAN
      BY <2>1, <2>2
    <3> HIDE DEF v, c
    <3>2. QED
      BY <3>1, EntryFacts
  <2>3. \A p \in DOMAIN dpkg : Package(dpkg[p].version) = p
    BY <1>2, <1>3 DEF AsFound, SystemOK, IsSystem
  <2>4. QED
    BY <1>3, <2>2, <2>3 DEF DpkgOK, AsFound
<1>5. SchedOK
  BY <1>1, InitIsScheduling
<1>6. SpaceOK
  <2>1. archives \ system.present = {}
    BY <1>1
  <2>2. DOMAIN changesets = {}
    BY <1>1
  <2>3. Fits({})
    BY <1>2, NothingFits
  <2>4. Fits(archives \ system.present)
    BY <2>1, <2>3
  <2>5. archives \subseteq Packages(system)
    BY <1>1, <1>2 DEF SystemOK, IsWorkerSystem
  <2>6. QED
    BY <1>1, <2>2, <2>4, <2>5 DEF SpaceOK, ChangesetsFit
<1>7. MarksOK
  BY <1>1, <1>3 DEF MarksOK, ForOthers, AsFound
<1>8. WorkOK /\ EndsAsWanted
  BY <1>1 DEF WorkOK, Working, EndsAsWanted
<1>9. QED
  BY <1>1, <1>2, <1>3, <1>4, <1>5, <1>6, <1>7, <1>8 DEF WorkerInv

LEMMA NextKeepsSystem == Next => UNCHANGED system
BY DEF Next, Expand, Prioritise, ForNextPackage, Select, Link, Finish, Keep, Split, GiveUp, Schedule

LEMMA DpkgStays ==
  ASSUME DpkgOK, UNCHANGED <<system, dpkg, leftovers>>
  PROVE  DpkgOK'
BY DEF DpkgOK

LEMMA InvAfterCompute ==
  ASSUME WorkerInv, Compute
  PROVE  WorkerInv'
<1>1. /\ stage = "scheduling" /\ stage' = stage /\ Next
      /\ UNCHANGED <<changesets, groups, fetched, archives, dpkg, leftovers, auto>>
  BY DEF Compute, workVars
<1>2. system' = system
  BY <1>1, NextKeepsSystem
<1>3. SchedOK' /\ AsFound' /\ groups' = <<>>
  BY <1>1, <1>2, ComputationKeeps DEF WorkerInv, AsFound
<1>4. SystemOK' /\ DpkgOK'
  BY <1>1, <1>2, DpkgStays DEF WorkerInv, SystemOK
<1>5. SpaceOK'
  BY <1>1, <1>2, SpaceStays DEF WorkerInv
<1>6. MarksOK'
  BY <1>1, <1>2, MarksStay DEF WorkerInv
<1>7. WorkOK' /\ EndsAsWanted'
  BY <1>1 DEF WorkOK, Working, EndsAsWanted
<1>8. QED
  BY <1>3, <1>4, <1>5, <1>6, <1>7 DEF WorkerInv

\* A run that breaks off leaves something that the next one can start from.
LEMMA InvAfterBreak ==
  ASSUME WorkerInv, UNCHANGED <<system, changesets, auto>>, DpkgOK',
         stage' \in {"stopped", "refused", "left unconfigured", "unable to fit"},
         archives' \subseteq Packages(system), Fits(archives' \ system.present),
         \A p \in DOMAIN dpkg' : ForOthers(p) => p \in DOMAIN dpkg \cup auto
  PROVE  WorkerInv'
<1>1. SystemOK'
  BY DEF WorkerInv, SystemOK
<1>2. SpaceOK'
  <2>1. ChangesetsFit'
    BY DEF WorkerInv, SpaceOK, ChangesetsFit, Fits
  <2>2. Fits(archives \ system.present)'
    BY DEF Fits
  <2>3. QED
    BY <2>1, <2>2 DEF SpaceOK
<1>3. MarksOK'
  BY MarksStay DEF WorkerInv
<1>4. WorkOK' /\ EndsAsWanted'
  BY DEF WorkOK, Working, EndsAsWanted
<1>5. QED
  BY <1>1, <1>2, <1>3, <1>4 DEF WorkerInv

LEMMA PendingStays ==
  ASSUME NEW L, PendingOK(L), UNCHANGED <<system, dpkg, leftovers>>
  PROVE  PendingOK(L)'
BY DEF PendingOK, Wanted, Gone

LEMMA WorkOKAfter ==
  ASSUME NEW R, NEW K, IsSeq(R), Flat(changesets', R),
         K = (IF stage' = "after dpkg" THEN Tail(groups') ELSE groups') \o R,
         PendingOK(K)', IsSeq(changesets'), IsSeq(groups'),
         stage' = "between" => groups' = <<>>,
         stage' \in {"dpkg", "after dpkg"} => groups' # <<>>
  PROVE  WorkOK'
BY DEF WorkOK, Working, GroupsLeft, PendingOK, Wanted, Gone

\* What is known while changesets are worked on.
LEMMA WorkIs ==
  ASSUME WorkOK, Working
  PROVE  /\ IsSeq(changesets) /\ IsSeq(groups)
         /\ stage = "between" => groups = <<>>
         /\ stage \in {"dpkg", "after dpkg"} => groups # <<>>
         /\ \E R, K : /\ IsSeq(R) /\ Flat(changesets, R) /\ PendingOK(K) /\ K = GroupsLeft \o R
BY DEF WorkOK

LEMMA InvAfterNothingToDo ==
  ASSUME WorkerInv, NothingToDo
  PROVE  WorkerInv'
<1>1. /\ stage = "scheduling" /\ stage' = "done" /\ TaskActions(system) = {}
      /\ UNCHANGED <<system, changesets, groups, fetched, archives, dpkg, leftovers, auto>>
  BY DEF NothingToDo, vars
<1>2. SystemOK /\ DpkgOK /\ AsFound
  BY <1>1 DEF WorkerInv
<1>3. Wanted(<<>>) /\ Gone(<<>>)
  BY <1>1, <1>2, WantedAtStart DEF SystemOK
<1>4. /\ DOMAIN dpkg = DOMAIN system.target
      /\ \A p \in DOMAIN dpkg : dpkg[p] = [version |-> system.target[p], configured |-> TRUE]
      /\ leftovers = {}
  BY <1>2, <1>3, NothingPending DEF SystemOK
<1>5. EndsAsWanted'
  BY <1>1, <1>4 DEF EndsAsWanted
<1>6. SystemOK' /\ DpkgOK' /\ SpaceOK' /\ MarksOK'
  BY <1>1, DpkgStays, SpaceStays, MarksStay DEF WorkerInv, SystemOK
<1>7. WorkOK'
  BY <1>1 DEF WorkOK, Working
<1>8. QED
  BY <1>1, <1>5, <1>6, <1>7 DEF WorkerInv

LEMMA InvAfterComplete ==
  ASSUME WorkerInv, Complete
  PROVE  WorkerInv'
<1>1. /\ stage = "between" /\ stage' = "done" /\ changesets = <<>>
      /\ UNCHANGED <<system, changesets, groups, fetched, archives, dpkg, leftovers, auto>>
  BY DEF Complete, vars
<1>2. SystemOK /\ DpkgOK /\ Working
  BY <1>1 DEF WorkerInv, Working
<1>3. PICK R, K : IsSeq(R) /\ Flat(changesets, R) /\ PendingOK(K) /\ K = GroupsLeft \o R
  BY <1>2, WorkIs DEF WorkerInv
<1>4. groups = <<>>
  BY <1>1, <1>2, WorkIs DEF WorkerInv
<1>5. R = <<>>
  <2>1. PICK b : Cuts(b, <<>>, R)
    BY <1>1, <1>3 DEF Flat
  <2>2. Len(R) = 0
    BY <2>1, EmptyFacts DEF Cuts
  <2>3. QED
    BY <1>3, <2>2, SeqFacts
<1>6. K = <<>>
  BY <1>1, <1>3, <1>4, <1>5, ConcatEmpty DEF GroupsLeft
<1>7. Wanted(<<>>) /\ Gone(<<>>)
  BY <1>3, <1>6 DEF PendingOK
<1>8. /\ DOMAIN dpkg = DOMAIN system.target
      /\ \A p \in DOMAIN dpkg : dpkg[p] = [version |-> system.target[p], configured |-> TRUE]
      /\ leftovers = {}
  BY <1>2, <1>7, NothingPending DEF SystemOK
<1>9. EndsAsWanted'
  BY <1>1, <1>8 DEF EndsAsWanted
<1>10. SystemOK' /\ DpkgOK' /\ SpaceOK' /\ MarksOK'
  BY <1>1, DpkgStays, SpaceStays, MarksStay DEF WorkerInv, SystemOK
<1>11. WorkOK'
  BY <1>1 DEF WorkOK, Working
<1>12. QED
  BY <1>1, <1>9, <1>10, <1>11 DEF WorkerInv

LEMMA InvAfterCut ==
  ASSUME WorkerInv, CutIntoChangesets
  PROVE  WorkerInv'
<1>1. /\ stage = "scheduling"
      /\ stage' \in {"left unconfigured", "unable to fit", "between"}
      /\ stage' # "between" => changesets' = changesets
      /\ UNCHANGED <<system, groups, fetched, archives, dpkg, leftovers, auto>>
  BY DEF CutIntoChangesets, vars
<1>2. /\ SystemOK /\ DpkgOK /\ SchedOK /\ AsFound /\ groups = <<>> /\ SpaceOK /\ MarksOK
  BY <1>1 DEF WorkerInv
<1>3. DpkgOK'
  BY <1>1, <1>2, DpkgStays
<1>4. CASE stage' # "between"
  <2>1. archives' \subseteq Packages(system) /\ Fits(archives' \ system.present)
    BY <1>1, <1>2 DEF SpaceOK
  <2>2. QED
    BY <1>1, <1>3, <1>4, <2>1, InvAfterBreak
<1>5. CASE stage' = "between"
  <2>1. /\ IsSeq(changesets') /\ IsSeq(sequence) /\ Flat(changesets', sequence) /\ PendingOK(sequence)
        /\ \A i \in DOMAIN changesets' : ~TooBig(changesets'[i]) /\ changesets'[i].downloads \subseteq Packages(system)
    BY <1>2, <1>5, CutsWell
  <2>2. WorkOK'
    <3> DEFINE R == sequence
    <3>1. PendingOK(R)
      BY <2>1
    <3> HIDE DEF R
    <3>2. PICK K : K = R
      OBVIOUS
    <3>3. PendingOK(K)'
      BY <1>1, <3>1, <3>2, PendingStays
    <3>4. K = (IF stage' = "after dpkg" THEN Tail(groups') ELSE groups') \o K
      BY <1>1, <1>2, <1>5, <2>1, <3>2, ConcatEmpty DEF R
    <3>5. IsSeq(K) /\ Flat(changesets', K) /\ IsSeq(groups')
      BY <1>1, <1>2, <2>1, <3>2, EmptyFacts DEF R
    <3>6. QED
      BY <1>1, <1>2, <1>5, <2>1, <3>3, <3>4, <3>5, WorkOKAfter
  <2>3. SpaceOK'
    <3>1. ASSUME NEW i \in DOMAIN changesets'
          PROVE  Fits(changesets'[i].downloads) /\ changesets'[i].downloads \subseteq Packages(system)
      <4>1. ~TooBig(changesets'[i]) /\ changesets'[i].downloads \subseteq Packages(system)
        BY <2>1, <3>1
      <4> DEFINE c == changesets'[i]
      <4>2. ~TooBig(c) /\ c.downloads \subseteq Packages(system)
        BY <4>1
      <4> HIDE DEF c
      <4>3. Fits(c.downloads)
        BY <1>2, <4>2, SmallFits
      <4>4. QED
        BY <4>1, <4>3 DEF c
    <3>2. ChangesetsFit'
      BY <1>1, <3>1 DEF ChangesetsFit, Fits
    <3>3. Fits(archives \ system.present)'
      BY <1>1, <1>2 DEF SpaceOK, Fits
    <3>4. QED
      BY <1>1, <1>2, <1>5, <3>2, <3>3 DEF SpaceOK
  <2>4. MarksOK' /\ SystemOK'
    BY <1>1, <1>2, <1>5, MarksStay DEF SystemOK
  <2>5. EndsAsWanted'
    BY <1>5 DEF EndsAsWanted
  <2>6. QED
    BY <1>3, <1>5, <2>2, <2>3, <2>4, <2>5 DEF WorkerInv
<1>6. QED
  BY <1>4, <1>5

\* the first changeset fits
LEMMA FirstChangeset ==
  ASSUME SpaceOK, IsSeq(changesets), changesets # <<>>
  PROVE  Fits(Head(changesets).downloads) /\ Head(changesets).downloads \subseteq Packages(system)
<1>1. Head(changesets) = changesets[1] /\ 1 \in DOMAIN changesets
  BY RestOfLine
<1>2. QED
  BY <1>1 DEF SpaceOK, ChangesetsFit

LEMMA InvAfterStartChangeset ==
  ASSUME WorkerInv, StartChangeset
  PROVE  WorkerInv'
<1>1. /\ stage = "between" /\ stage' = "before dpkg" /\ changesets # <<>>
      /\ groups' = Head(changesets).groups /\ fetched' = Head(changesets).downloads
      /\ archives' = archives \cup fetched' /\ changesets' = Tail(changesets)
      /\ UNCHANGED <<system, dpkg, leftovers, auto>>
  BY DEF StartChangeset, vars
<1>2. SystemOK /\ DpkgOK /\ WorkOK /\ SpaceOK /\ MarksOK /\ Working
  BY <1>1 DEF WorkerInv, Working
<1>3. IsSeq(changesets) /\ groups = <<>>
  BY <1>1, <1>2, WorkIs
<1>4. PICK R, K : IsSeq(R) /\ Flat(changesets, R) /\ PendingOK(K) /\ K = GroupsLeft \o R
  BY <1>2, WorkIs
<1>5. K = R
  BY <1>1, <1>3, <1>4, ConcatEmpty DEF GroupsLeft
<1>6. /\ IsSeq(Head(changesets).groups)
      /\ \E Q : IsSeq(Q) /\ R = Head(changesets).groups \o Q /\ Flat(Tail(changesets), Q)
  BY <1>1, <1>3, <1>4, FlatTail
<1>7. PICK Q : IsSeq(Q) /\ R = groups' \o Q /\ Flat(changesets', Q)
  BY <1>1, <1>6
<1>8. IsSeq(groups') /\ IsSeq(changesets')
  BY <1>1, <1>3, <1>6, TailFacts
<1>9. PendingOK(K)'
  BY <1>1, <1>4, PendingStays
<1>10. K = (IF stage' = "after dpkg" THEN Tail(groups') ELSE groups') \o Q
  BY <1>1, <1>5, <1>7
<1>11. WorkOK'
  BY <1>1, <1>7, <1>8, <1>9, <1>10, WorkOKAfter
<1>12. SpaceOK'
  <2>1. Fits(fetched') /\ fetched' \subseteq Packages(system)
    BY <1>1, <1>2, <1>3, FirstChangeset
  <2>2. system.limit > 0 => archives' \ system.present \subseteq fetched'
    BY <1>1, <1>2 DEF SpaceOK
  <2>3. Fits(archives' \ system.present)
    <3>1. CASE system.limit > 0
      <4>1. fetched' \in SUBSET Packages(system) /\ archives' \ system.present \in SUBSET fetched'
        BY <2>1, <2>2, <3>1
      <4> DEFINE B == fetched'
                 A == archives' \ system.present
      <4>2. B \in SUBSET Packages(system) /\ A \in SUBSET B /\ Fits(B)
        BY <2>1, <4>1
      <4> HIDE DEF A, B
      <4>3. Fits(A)
        BY <1>2, <4>2, LessFits
      <4>4. QED
        BY <4>3 DEF A
    <3>2. CASE ~(system.limit > 0)
      BY <3>2 DEF Fits
    <3>3. QED
      BY <3>1, <3>2
  <2>4. Fits(archives \ system.present)' /\ Fits(fetched)'
    BY <1>1, <2>1, <2>3 DEF Fits
  <2>5. ChangesetsFit'
    <3> DEFINE T == Tail(changesets)
    <3>1. \A i \in DOMAIN T : i + 1 \in DOMAIN changesets /\ T[i] = changesets[i + 1]
      BY <1>1, <1>3, RestOfLine
    <3>2. changesets' = T
      BY <1>1
    <3> HIDE DEF T
    <3>3. \A i \in DOMAIN changesets : Fits(changesets[i].downloads) /\ changesets[i].downloads \subseteq Packages(system)
      BY <1>2 DEF SpaceOK, ChangesetsFit
    <3>4. \A i \in DOMAIN T : Fits(T[i].downloads) /\ T[i].downloads \subseteq Packages(system)
      BY <3>1, <3>3
    <3>5. QED
      BY <1>1, <3>2, <3>4 DEF ChangesetsFit, Fits
  <2>6. archives' \subseteq Packages(system')
    BY <1>1, <1>2, <2>1 DEF SpaceOK
  <2>7. QED
    BY <1>1, <2>1, <2>2, <2>4, <2>5, <2>6 DEF SpaceOK
<1>13. DpkgOK' /\ SystemOK' /\ MarksOK' /\ EndsAsWanted'
  BY <1>1, <1>2, DpkgStays, MarksStay DEF SystemOK, EndsAsWanted
<1>14. QED
  BY <1>1, <1>11, <1>12, <1>13 DEF WorkerInv

LEMMA InvAfterDownloadsFail ==
  ASSUME WorkerInv, DownloadsFail
  PROVE  WorkerInv'
<1>1. /\ stage = "between" /\ stage' = "stopped" /\ changesets # <<>>
      /\ UNCHANGED <<system, changesets, dpkg, leftovers, auto>>
  BY DEF DownloadsFail, vars
<1>2. PICK got \in SUBSET Head(changesets).downloads : archives' = archives \cup got
  BY DEF DownloadsFail
<1>3. SystemOK /\ DpkgOK /\ WorkOK /\ SpaceOK /\ Working
  BY <1>1 DEF WorkerInv, Working
<1>4. IsSeq(changesets)
  BY <1>3, WorkIs
<1> DEFINE B == Head(changesets).downloads
           A == archives' \ system.present
<1>5. Fits(B) /\ B \in SUBSET Packages(system)
  BY <1>1, <1>3, <1>4, FirstChangeset
<1>6. archives' \subseteq Packages(system)
  BY <1>2, <1>3, <1>5 DEF SpaceOK
<1>7. Fits(A)
  <2>1. CASE system.limit > 0
    <3>1. A \in SUBSET B
      BY <1>1, <1>2, <1>3, <2>1 DEF SpaceOK
    <3> HIDE DEF A, B
    <3>2. QED
      BY <1>3, <1>5, <3>1, LessFits
  <2>2. CASE ~(system.limit > 0)
    BY <2>2 DEF Fits
  <2>3. QED
    BY <2>1, <2>2
<1>8. DpkgOK'
  BY <1>1, <1>3, DpkgStays
<1>9. QED
  BY <1>1, <1>6, <1>7, <1>8, InvAfterBreak

LEMMA InvAfterMarkBefore ==
  ASSUME WorkerInv, MarkBefore
  PROVE  WorkerInv'
<1> DEFINE g == Head(groups)
<1>1. /\ stage = "before dpkg" /\ stage' = "dpkg" /\ groups # <<>>
      /\ auto' = IF CompoundType(g) = "remove" THEN auto ELSE MarkedBy(g)
      /\ UNCHANGED <<system, changesets, groups, fetched, archives, dpkg, leftovers>>
  BY DEF MarkBefore, vars
<1>2. SystemOK /\ DpkgOK /\ WorkOK /\ SpaceOK /\ MarksOK /\ Working
  BY <1>1 DEF WorkerInv, Working
<1>3. IsSeq(changesets) /\ IsSeq(groups)
  BY <1>2, WorkIs
<1>4. PICK R, K : IsSeq(R) /\ Flat(changesets, R) /\ PendingOK(K) /\ K = GroupsLeft \o R
  BY <1>2, WorkIs
<1>5. K = (IF stage' = "after dpkg" THEN Tail(groups') ELSE groups') \o R
  BY <1>1, <1>4 DEF GroupsLeft
<1>6. PendingOK(K)'
  BY <1>1, <1>4, PendingStays
<1>7. WorkOK'
  BY <1>1, <1>3, <1>4, <1>5, <1>6, WorkOKAfter
<1>8. MarksOK'
  <2>1. \A p : ForOthers(p) /\ p \in system.auto \cup DOMAIN dpkg => p \in auto
    BY <1>2 DEF MarksOK
  <2> HIDE DEF g
  <2>2. \A p : ForOthers(p) /\ p \in auto => p \in auto'
    BY <1>1, MarkedByKeeps
  <2>3. ASSUME CompoundType(g) # "remove", NEW p \in UnpackedBy(g), ForOthers(p)
        PROVE  p \in auto'
    <3>1. p \in auto \/ p \notin system.auto
      BY <2>1, <2>3
    <3>2. p \in MarkedBy(g)
      BY <2>3, <3>1, MarkedByKeeps
    <3>3. QED
      BY <1>1, <2>3, <3>2
  <2>4. g = Head(groups')
    BY <1>1 DEF g
  <2>5. QED
    BY <1>1, <2>1, <2>2, <2>3, <2>4 DEF MarksOK, ForOthers
<1>9. SpaceOK'
  BY <1>1, <1>2, SpaceStays
<1>10. DpkgOK' /\ SystemOK' /\ EndsAsWanted'
  BY <1>1, <1>2, DpkgStays DEF SystemOK, EndsAsWanted
<1>11. QED
  BY <1>1, <1>7, <1>8, <1>9, <1>10 DEF WorkerInv

\* The group which dpkg is called for is the first of those pending.
LEMMA RunningGroup ==
  ASSUME WorkOK, stage = "dpkg"
  PROVE  /\ IsSeq(changesets) /\ IsSeq(groups) /\ groups # <<>>
         /\ Head(groups).actions \subseteq TaskActions(system)
         /\ \E R, K : /\ IsSeq(R) /\ Flat(changesets, R) /\ PendingOK(K) /\ K # <<>>
                      /\ Head(K) = Head(groups) /\ Tail(K) = Tail(groups) \o R
<1>1. Working
  BY DEF Working
<1>2. IsSeq(changesets) /\ IsSeq(groups) /\ groups # <<>>
  BY <1>1, WorkIs
<1>3. PICK R, K : IsSeq(R) /\ Flat(changesets, R) /\ PendingOK(K) /\ K = GroupsLeft \o R
  BY <1>1, WorkIs
<1>4. K = groups \o R
  BY <1>3 DEF GroupsLeft
<1>5. K # <<>> /\ Head(K) = Head(groups) /\ Tail(K) = Tail(groups) \o R
  BY <1>2, <1>3, <1>4, ConcatHead
<1>6. Head(K).actions \subseteq TaskActions(system)
  <2>1. IsSeq(K) /\ \A i \in DOMAIN K : K[i].actions \subseteq TaskActions(system)
    BY <1>3 DEF PendingOK
  <2>2. 1 \in DOMAIN K /\ Head(K) = K[1]
    BY <1>5, <2>1, RestOfLine
  <2>3. QED
    BY <2>1, <2>2
<1>7. QED
  BY <1>2, <1>3, <1>5, <1>6

LEMMA NewHasMark ==
  ASSUME MarksOK, stage = "dpkg", NEW configured, NEW p \in DOMAIN After(Head(groups), configured), ForOthers(p)
  PROVE  p \in DOMAIN dpkg \cup auto
<1>1. CASE CompoundType(Head(groups)) = "remove"
  BY <1>1, AfterRemoval
<1>2. CASE CompoundType(Head(groups)) # "remove"
  <2>1. p \in DOMAIN dpkg \cup UnpackedBy(Head(groups))
    BY <1>2, AfterOthers
  <2>2. p \in UnpackedBy(Head(groups)) => p \in auto
    BY <1>2 DEF MarksOK
  <2>3. QED
    BY <2>1, <2>2
<1>3. QED
  BY <1>1, <1>2

LEMMA InvAfterDpkgSucceeds ==
  ASSUME WorkerInv, DpkgSucceeds
  PROVE  WorkerInv'
<1> DEFINE g == Head(groups)
<1>1. /\ stage = "dpkg" /\ stage' = "after dpkg"
      /\ dpkg' = After(g, Done(g, "configure"))
      /\ leftovers' = leftovers \ RemovedBy(g)
      /\ UNCHANGED <<system, changesets, groups, fetched, archives, auto>>
  BY DEF DpkgSucceeds, vars, RemovedBy
<1>2. SystemOK /\ DpkgOK /\ WorkOK /\ SpaceOK /\ MarksOK /\ IsSystem(system)
  BY <1>1 DEF WorkerInv, SystemOK
<1>3. /\ IsSeq(changesets) /\ IsSeq(groups) /\ groups # <<>>
      /\ g.actions \subseteq TaskActions(system)
  BY <1>1, <1>2, RunningGroup
<1>4. PICK R, K : /\ IsSeq(R) /\ Flat(changesets, R) /\ PendingOK(K) /\ K # <<>>
                  /\ Head(K) = g /\ Tail(K) = Tail(groups) \o R
  BY <1>1, <1>2, RunningGroup
<1>5. PICK T : T = Tail(K)
  OBVIOUS
<1>6. PendingOK(T)'
  <2>1. PendingOK(Tail(K))'
    BY <1>1, <1>2, <1>4, GroupDone
  <2>2. QED
    BY <1>5, <2>1 DEF PendingOK, Wanted, Gone
<1>7. T = (IF stage' = "after dpkg" THEN Tail(groups') ELSE groups') \o R
  BY <1>1, <1>4, <1>5
<1>8. WorkOK'
  BY <1>1, <1>3, <1>4, <1>6, <1>7, WorkOKAfter
<1>9. DpkgOK'
  BY <1>1, <1>2, <1>3, AfterOK
<1>10. MarksOK'
  <2>1. \A p \in DOMAIN dpkg' : ForOthers(p) => p \in DOMAIN dpkg \cup auto
    BY <1>1, <1>2, NewHasMark
  <2>2. QED
    BY <1>1, <1>2, <2>1, MarksStay
<1>11. SpaceOK'
  BY <1>1, <1>2, SpaceStays
<1>12. SystemOK' /\ EndsAsWanted'
  BY <1>1, <1>2 DEF SystemOK, EndsAsWanted
<1>13. QED
  BY <1>1, <1>8, <1>9, <1>10, <1>11, <1>12 DEF WorkerInv

LEMMA InvAfterDpkgFails ==
  ASSUME WorkerInv, DpkgFails
  PROVE  WorkerInv'
<1> DEFINE g == Head(groups)
<1>1. /\ stage = "dpkg" /\ stage' = "stopped"
      /\ UNCHANGED <<system, changesets, groups, fetched, archives, leftovers, auto>>
  BY DEF DpkgFails, vars
<1>2. SystemOK /\ DpkgOK /\ WorkOK /\ SpaceOK /\ MarksOK /\ IsSystem(system)
  BY <1>1 DEF WorkerInv, SystemOK
<1>3. g.actions \subseteq TaskActions(system)
  BY <1>1, <1>2, RunningGroup
<1>4. archives' \subseteq Packages(system) /\ Fits(archives' \ system.present)
  BY <1>1, <1>2 DEF SpaceOK
<1>5. DpkgOK' /\ \A p \in DOMAIN dpkg' : ForOthers(p) => p \in DOMAIN dpkg \cup auto
  <2>1. CASE \E some \in SUBSET Done(g, "configure") : dpkg' = After(g, some)
    <3>1. PICK some : dpkg' = After(g, some)
      BY <2>1
    <3>2. DpkgOK'
      BY <1>1, <1>2, <1>3, <3>1, AfterOK
    <3>3. \A p \in DOMAIN dpkg' : ForOthers(p) => p \in DOMAIN dpkg \cup auto
      BY <1>1, <1>2, <3>1, NewHasMark
    <3>4. QED
      BY <3>2, <3>3
  <2>2. CASE dpkg' = [p \in DOMAIN dpkg |-> IF dpkg[p].version \in Done(g, "remove")
                                           THEN [dpkg[p] EXCEPT !.configured = FALSE] ELSE dpkg[p]]
    <3>1. DOMAIN dpkg' = DOMAIN dpkg
      BY <2>2
    <3>2. ASSUME NEW p \in DOMAIN dpkg'
          PROVE  IsEntry(dpkg'[p]) /\ Package(dpkg'[p].version) = p
      <4>1. IsEntry(dpkg[p]) /\ Package(dpkg[p].version) = p
        BY <1>2, <3>1, <3>2 DEF DpkgOK
      <4>2. CASE dpkg[p].version \in Done(g, "remove")
        <5> DEFINE v == dpkg[p].version
        <5>1. dpkg'[p] = [dpkg[p] EXCEPT !.configured = FALSE]
          BY <2>2, <3>1, <3>2, <4>2
        <5>2. [dpkg[p] EXCEPT !.configured = FALSE] = [version |-> v, configured |-> FALSE]
          BY <4>1, EntryFacts
        <5>3. dpkg'[p] = [version |-> v, configured |-> FALSE] /\ Package(v) = p
          BY <4>1, <5>1, <5>2
        <5> HIDE DEF v
        <5>4. IsEntry([version |-> v, configured |-> FALSE])
          BY EntryFacts
        <5>5. QED
          BY <5>3, <5>4
      <4>3. CASE dpkg[p].version \notin Done(g, "remove")
        <5>1. dpkg'[p] = dpkg[p]
          BY <2>2, <3>1, <3>2, <4>3
        <5>2. QED
          BY <4>1, <5>1
      <4>4. QED
        BY <4>2, <4>3
    <3>3. QED
      BY <1>1, <1>2, <3>1, <3>2 DEF DpkgOK
  <2>3. QED
    BY <2>1, <2>2 DEF DpkgFails
<1>6. QED
  BY <1>1, <1>4, <1>5, InvAfterBreak

LEMMA InvAfterStops ==
  ASSUME WorkerInv, DpkgRefuses \/ Stop \/ CleaningFails
  PROVE  WorkerInv'
<1>1. /\ stage' \in {"stopped", "refused"} /\ archives' \subseteq archives
      /\ UNCHANGED <<system, changesets, auto, dpkg, leftovers>>
  BY DEF DpkgRefuses, Stop, CleaningFails, vars
<1>2. SystemOK /\ DpkgOK /\ SpaceOK
  BY DEF WorkerInv
<1>3. archives' \subseteq Packages(system)
  BY <1>1, <1>2 DEF SpaceOK
<1>4. Fits(archives' \ system.present)
  <2> DEFINE A == archives' \ system.present
             B == archives \ system.present
  <2>1. Fits(B) /\ B \in SUBSET Packages(system) /\ A \in SUBSET B
    BY <1>1, <1>2 DEF SpaceOK
  <2> HIDE DEF A, B
  <2>2. Fits(A)
    BY <1>2, <2>1, LessFits
  <2>3. QED
    BY <2>2 DEF A
<1>5. DpkgOK'
  BY <1>1, <1>2, DpkgStays
<1>6. \A p \in DOMAIN dpkg' : ForOthers(p) => p \in DOMAIN dpkg \cup auto
  BY <1>1
<1>7. QED
  BY <1>1, <1>3, <1>4, <1>5, <1>6, InvAfterBreak

LEMMA InvAfterMarkAfter ==
  ASSUME WorkerInv, MarkAfter
  PROVE  WorkerInv'
<1>1. /\ stage = "after dpkg" /\ stage' = "before dpkg" /\ groups' = Tail(groups)
      /\ auto' = IF CompoundType(Head(groups)) = "remove" THEN MarkedBy(Head(groups)) ELSE auto
      /\ UNCHANGED <<system, changesets, fetched, archives, dpkg, leftovers>>
  BY DEF MarkAfter, vars
<1>2. SystemOK /\ DpkgOK /\ WorkOK /\ SpaceOK /\ MarksOK /\ Working
  BY <1>1 DEF WorkerInv, Working
<1>3. IsSeq(changesets) /\ IsSeq(groups) /\ groups # <<>>
  BY <1>1, <1>2, WorkIs
<1>4. PICK R, K : IsSeq(R) /\ Flat(changesets, R) /\ PendingOK(K) /\ K = GroupsLeft \o R
  BY <1>2, WorkIs
<1>5. K = (IF stage' = "after dpkg" THEN Tail(groups') ELSE groups') \o R
  BY <1>1, <1>4 DEF GroupsLeft
<1>6. PendingOK(K)'
  BY <1>1, <1>4, PendingStays
<1>7. IsSeq(groups')
  BY <1>1, <1>3, TailFacts
<1>8. WorkOK'
  BY <1>1, <1>3, <1>4, <1>5, <1>6, <1>7, WorkOKAfter
<1>9. MarksOK'
  <2>1. \A p : ForOthers(p) /\ p \in auto => p \in auto'
    BY <1>1, MarkedByKeeps
  <2>2. QED
    BY <1>1, <1>2, <2>1, MarksStay
<1>10. SpaceOK'
  BY <1>1, <1>2, SpaceStays
<1>11. DpkgOK' /\ SystemOK' /\ EndsAsWanted'
  BY <1>1, <1>2, DpkgStays DEF SystemOK, EndsAsWanted
<1>12. QED
  BY <1>1, <1>8, <1>9, <1>10, <1>11 DEF WorkerInv

LEMMA InvAfterFinishChangeset ==
  ASSUME WorkerInv, FinishChangeset
  PROVE  WorkerInv'
<1>1. /\ stage = "before dpkg" /\ stage' = "between" /\ groups = <<>> /\ fetched' = {}
      /\ archives' = IF system.limit > 0 THEN archives \ fetched ELSE archives
      /\ UNCHANGED <<system, changesets, groups, dpkg, leftovers, auto>>
  BY DEF FinishChangeset, vars
<1>2. SystemOK /\ DpkgOK /\ WorkOK /\ SpaceOK /\ MarksOK /\ Working
  BY <1>1 DEF WorkerInv, Working
<1>3. IsSeq(changesets) /\ IsSeq(groups)
  BY <1>2, WorkIs
<1>4. PICK R, K : IsSeq(R) /\ Flat(changesets, R) /\ PendingOK(K) /\ K = GroupsLeft \o R
  BY <1>2, WorkIs
<1>5. K = (IF stage' = "after dpkg" THEN Tail(groups') ELSE groups') \o R
  BY <1>1, <1>4 DEF GroupsLeft
<1>6. PendingOK(K)'
  BY <1>1, <1>4, PendingStays
<1>7. WorkOK'
  BY <1>1, <1>3, <1>4, <1>5, <1>6, WorkOKAfter
<1>8. SpaceOK'
  <2>1. system.limit > 0 => archives' \subseteq system.present
    BY <1>1, <1>2 DEF SpaceOK
  <2>2. Fits(archives' \ system.present)
    <3>1. CASE system.limit > 0
      <4>1. archives' \ system.present = {}
        BY <2>1, <3>1
      <4>2. Fits({})
        BY <1>2, NothingFits
      <4>3. QED
        BY <4>1, <4>2
    <3>2. CASE ~(system.limit > 0)
      BY <3>2 DEF Fits
    <3>3. QED
      BY <3>1, <3>2
  <2>3. Fits(archives \ system.present)'
    BY <1>1, <2>2 DEF Fits
  <2>4. archives' \subseteq Packages(system)
    BY <1>1, <1>2 DEF SpaceOK
  <2>5. ChangesetsFit'
    BY <1>1, <1>2 DEF SpaceOK, ChangesetsFit, Fits
  <2>6. QED
    BY <1>1, <2>1, <2>3, <2>4, <2>5 DEF SpaceOK
<1>9. DpkgOK' /\ SystemOK' /\ MarksOK' /\ EndsAsWanted'
  BY <1>1, <1>2, DpkgStays, MarksStay DEF SystemOK, EndsAsWanted
<1>10. QED
  BY <1>1, <1>7, <1>8, <1>9 DEF WorkerInv

LEMMA InvAfterMarkIndependent ==
  ASSUME WorkerInv, MarkIndependent
  PROVE  WorkerInv'
<1>1. /\ stage = "between" /\ stage' = stage
      /\ UNCHANGED <<system, changesets, groups, fetched, archives, dpkg, leftovers>>
  BY DEF MarkIndependent, vars
<1>2. PICK q : auto' = IF WantsAuto(system, q) THEN auto \cup {q} ELSE auto \ {q}
  BY DEF MarkIndependent
<1>3. SystemOK /\ DpkgOK /\ WorkOK /\ SpaceOK /\ MarksOK /\ Working
  BY <1>1 DEF WorkerInv, Working
<1>4. IsSeq(changesets) /\ IsSeq(groups) /\ groups = <<>>
  BY <1>1, <1>3, WorkIs
<1>5. PICK R, K : IsSeq(R) /\ Flat(changesets, R) /\ PendingOK(K) /\ K = GroupsLeft \o R
  BY <1>3, WorkIs
<1>6. K = (IF stage' = "after dpkg" THEN Tail(groups') ELSE groups') \o R
  BY <1>1, <1>5 DEF GroupsLeft
<1>7. PendingOK(K)'
  BY <1>1, <1>5, PendingStays
<1>8. WorkOK'
  BY <1>1, <1>4, <1>5, <1>6, <1>7, WorkOKAfter
<1>9. MarksOK'
  <2>1. \A p : ForOthers(p) /\ p \in auto => p \in auto'
    BY <1>2, MarksWanted
  <2>2. QED
    BY <1>1, <1>3, <2>1, MarksStay
<1>10. SpaceOK'
  BY <1>1, <1>3, SpaceStays
<1>11. DpkgOK' /\ SystemOK' /\ EndsAsWanted'
  BY <1>1, <1>3, DpkgStays DEF SystemOK, EndsAsWanted
<1>12. QED
  BY <1>1, <1>8, <1>9, <1>10, <1>11 DEF WorkerInv

\* What a run leaves behind is a system again.
LEMMA SystemNowFacts ==
  ASSUME SystemOK
  PROVE  /\ DOMAIN SystemNow = DOMAIN system
         /\ \A f \in DOMAIN system \ {"installed", "interim", "purged", "present", "auto"} : SystemNow[f] = system[f]
         /\ SystemNow.installed = [p \in DOMAIN dpkg |-> dpkg[p].version]
         /\ SystemNow.interim = {p \in DOMAIN dpkg : ~dpkg[p].configured}
         /\ SystemNow.purged = leftovers /\ SystemNow.present = archives /\ SystemNow.auto = auto
<1>1. {"installed", "interim", "purged", "present", "auto"} \subseteq DOMAIN system
  BY DEF SystemOK, IsSystem, IsWorkerSystem, SystemFields, WorkerFields
<1>2. QED
  BY <1>1 DEF SystemNow

LEMMA InvAfterRunAgain ==
  ASSUME WorkerInv, RunAgain
  PROVE  WorkerInv'
<1> DEFINE s == SystemNow
<1>1. /\ stage' = "scheduling" /\ system' = s
      /\ changesets' = <<>> /\ groups' = <<>> /\ fetched' = {}
      /\ UNCHANGED <<archives, dpkg, leftovers, auto>>
  BY DEF RunAgain
<1>2. SystemOK /\ DpkgOK /\ SpaceOK
  BY DEF WorkerInv
<1>3. /\ DOMAIN s = DOMAIN system
      /\ \A f \in DOMAIN system \ {"installed", "interim", "purged", "present", "auto"} : s[f] = system[f]
      /\ s.installed = [p \in DOMAIN dpkg |-> dpkg[p].version]
      /\ s.interim = {p \in DOMAIN dpkg : ~dpkg[p].configured}
      /\ s.purged = leftovers /\ s.present = archives /\ s.auto = auto
  BY <1>2, SystemNowFacts
<1> HIDE DEF s
<1>4. /\ s.packages = system.packages /\ s.target = system.target /\ s.essential = system.essential
      /\ s.reinstreq = system.reinstreq /\ s.sizes = system.sizes /\ s.limit = system.limit
      /\ s.relations = system.relations
  BY <1>2, <1>3 DEF SystemOK, IsSystem, IsWorkerSystem, SystemFields, WorkerFields
<1>5. Packages(s) = Packages(system)
  BY <1>4 DEF Packages
<1>6. DOMAIN s.installed = DOMAIN dpkg /\ \A p \in DOMAIN dpkg : s.installed[p] = dpkg[p].version
  BY <1>3
<1>7. IsSystem(s)
  <2>1. /\ SystemFields \subseteq DOMAIN s
        /\ s.packages \in Seq(Packages(s)) \ {<<>>}
        /\ DOMAIN s.target \subseteq Packages(s)
        /\ s.reinstreq \cap DOMAIN s.target = {}
        /\ \A p \in DOMAIN s.target : Package(s.target[p]) = p
    BY <1>2, <1>3, <1>4, <1>5 DEF SystemOK, IsSystem
  <2>2. /\ DOMAIN s.installed \subseteq Packages(s)
        /\ s.interim \subseteq DOMAIN s.installed
        /\ \A p \in DOMAIN s.installed : Package(s.installed[p]) = p
    BY <1>2, <1>3, <1>5, <1>6 DEF SystemOK, IsSystem, DpkgOK
  <2>3. /\ s.purged \subseteq Packages(s) \ (DOMAIN s.installed \cup DOMAIN s.target)
        /\ (s.essential \cup s.reinstreq) \cap s.purged = {}
    BY <1>2, <1>3, <1>4, <1>5, <1>6 DEF SystemOK, IsSystem, DpkgOK
  <2>4. \A v \in DOMAIN s.relations, type \in DependencyTypes :
            RelationLine(s, v, type) \in Seq(RelationsOf(s, v, type))
    <3>1. \A v, type : RelationLine(s, v, type) = RelationLine(system, v, type)
      BY <1>4 DEF RelationLine
    <3>2. QED
      BY <1>2, <1>4, <3>1 DEF SystemOK, IsSystem, RelationsOf
  <2>5. QED
    BY <2>1, <2>2, <2>3, <2>4 DEF IsSystem
<1>8. IsWorkerSystem(s)
  BY <1>2, <1>3, <1>4, <1>5 DEF SystemOK, IsWorkerSystem, SpaceOK
<1>9. SystemOK'
  BY <1>1, <1>7, <1>8 DEF SystemOK
<1>10. DpkgOK'
  BY <1>1, <1>2, <1>3, <1>6 DEF DpkgOK
<1>11. SchedOK'
  BY RestartIsScheduling
<1>12. AsFound'
  <2>1. \A p \in DOMAIN dpkg : dpkg[p].configured \in BOOLEAN
    BY <1>2 DEF DpkgOK, IsEntry
  <2>2. \A p \in DOMAIN dpkg : dpkg[p].configured = (p \notin s.interim)
    BY <1>3, <2>1
  <2>3. QED
    BY <1>1, <1>3, <1>6, <2>2 DEF AsFound
<1>13. SpaceOK'
  <2>1. Fits({})
    BY <1>2, NothingFits
  <2>2. (archives \ system.present)' = {}
    BY <1>1, <1>3
  <2>3. Fits(archives \ system.present)'
    BY <1>1, <1>4, <2>1, <2>2 DEF Fits
  <2>4. DOMAIN changesets' = {}
    BY <1>1
  <2>5. QED
    BY <1>1, <1>2, <1>3, <1>5, <2>3, <2>4 DEF SpaceOK, ChangesetsFit
<1>14. MarksOK'
  BY <1>1, <1>3, <1>6 DEF MarksOK, ForOthers
<1>15. WorkOK' /\ EndsAsWanted'
  BY <1>1 DEF WorkOK, Working, EndsAsWanted
<1>16. QED
  BY <1>1, <1>9, <1>10, <1>11, <1>12, <1>13, <1>14, <1>15 DEF WorkerInv

LEMMA InvUnchanged ==
  ASSUME WorkerInv, UNCHANGED allVars
  PROVE  WorkerInv'
<1>1. UNCHANGED <<system, graph, todo, order, item, waiting, sequence, status, run, stage, changesets, groups,
                  fetched, archives, dpkg, leftovers, auto>>
  BY DEF allVars, vars, workVars
<1>2. SystemOK' /\ DpkgOK' /\ SpaceOK' /\ MarksOK' /\ EndsAsWanted'
  BY <1>1, DpkgStays, SpaceStays DEF WorkerInv, SystemOK, MarksOK, ForOthers, EndsAsWanted
<1>3. stage' = "scheduling" => SchedOK' /\ AsFound' /\ groups' = <<>>
  BY <1>1 DEF WorkerInv, SchedOK, AsFound, Computing
<1>4. WorkOK'
  BY <1>1 DEF WorkerInv, WorkOK, Working, GroupsLeft, PendingOK, Wanted, Gone
<1>5. QED
  BY <1>2, <1>3, <1>4 DEF WorkerInv

LEMMA InvAfterNext ==
  ASSUME WorkerInv, [WorkerNext]_allVars
  PROVE  WorkerInv'
<1>1. CASE Compute
  BY <1>1, InvAfterCompute
<1>2. CASE NothingToDo
  BY <1>2, InvAfterNothingToDo
<1>3. CASE CutIntoChangesets
  BY <1>3, InvAfterCut
<1>4. CASE StartChangeset
  BY <1>4, InvAfterStartChangeset
<1>5. CASE DownloadsFail
  BY <1>5, InvAfterDownloadsFail
<1>6. CASE MarkBefore
  BY <1>6, InvAfterMarkBefore
<1>7. CASE DpkgSucceeds
  BY <1>7, InvAfterDpkgSucceeds
<1>8. CASE DpkgRefuses \/ Stop \/ CleaningFails
  BY <1>8, InvAfterStops
<1>9. CASE DpkgFails
  BY <1>9, InvAfterDpkgFails
<1>10. CASE MarkAfter
  BY <1>10, InvAfterMarkAfter
<1>11. CASE FinishChangeset
  BY <1>11, InvAfterFinishChangeset
<1>12. CASE MarkIndependent
  BY <1>12, InvAfterMarkIndependent
<1>13. CASE Complete
  BY <1>13, InvAfterComplete
<1>14. CASE RunAgain
  BY <1>14, InvAfterRunAgain
<1>15. CASE UNCHANGED allVars
  BY <1>15, InvUnchanged
<1>16. QED
  BY <1>1, <1>2, <1>3, <1>4, <1>5, <1>6, <1>7, <1>8, <1>9, <1>10, <1>11, <1>12, <1>13, <1>14, <1>15 DEF WorkerNext

LEMMA Inductive == WorkerSpec => []WorkerInv
<1>1. WorkerInv /\ [WorkerNext]_allVars => WorkerInv'
  BY InvAfterNext
<1>2. QED
  BY InvAtStart, <1>1, PTL DEF WorkerSpec

-----------------------------------------------------------------------------
\* For every system, any relations and any number of runs: the archives which
\* a run has put into the directory never take more than the limit, whatever
\* has been merged into one changeset and wherever downloads or the cleaning
\* break off.
THEOREM LimitHolds == WorkerSpec => []LimitKept
<1>1. WorkerInv => LimitKept
  BY LimitKeptIsFitting DEF WorkerInv, SpaceOK
<1>2. QED
  BY Inductive, <1>1, PTL

\* A package installed for the sake of others is never there without its mark,
\* however often and wherever runs break off.
THEOREM MarksComeFirst == WorkerSpec => []MarkedBeforeInstalled
<1>1. WorkerInv => MarkedBeforeInstalled
  BY DEF WorkerInv, MarksOK, ForOthers, DpkgOK, MarkedBeforeInstalled
<1>2. QED
  BY Inductive, <1>1, PTL

\* A run that ends well has done all that was asked for: no action gets lost
\* or comes too early on its way through the sorts, the splits into subgroups,
\* the cut into changesets, their merging and the calls of dpkg.
THEOREM WishesComeTrue == WorkerSpec => []EndsAsWanted
<1>1. WorkerInv => EndsAsWanted
  BY DEF WorkerInv
<1>2. QED
  BY Inductive, <1>1, PTL

-----------------------------------------------------------------------------
(***************************************************************************)
(* For every system and any relations: when the worker gives a schedule    *)
(* up, there is a circle of relations which cannot be ignored.             *)
(***************************************************************************)

-----------------------------------------------------------------------------
(***************************************************************************)
(* What can be reached in a graph.  Reachable is computed in as many waves *)
(* as there are actions; it is the least set with a that no edge leaves.   *)
(***************************************************************************)
EdgesInside(g) ==
    \A e \in Edges(g) : e = <<e[1], e[2]>> /\ e[1] \in g.actions /\ e[2] \in g.actions
IsFiniteGraph(g) == EdgesInside(g) /\ IsFiniteSet(g.actions)
Closed(g, S) == \A e \in Edges(g) : e[1] \in S => e[2] \in S
NextWave(g, S) == UNION {{b} \cup Successors(g, b) : b \in S}
AreWaves(g, a, f) == f = [n \in Nat |-> IF n = 0 THEN {a} ELSE NextWave(g, f[n - 1])]

LEMMA ReachableIsChosen ==
  \A g, a : Reachable(g, a) = (CHOOSE f : AreWaves(g, a, f))[Cardinality(g.actions)]
BY DEF Reachable, AreWaves, NextWave

LEMMA NextWaveFacts ==
  ASSUME NEW g, NEW S
  PROVE  /\ S \subseteq NextWave(g, S)
         /\ Closed(g, S) <=> NextWave(g, S) = S
         /\ \A T : S \subseteq T /\ Closed(g, T) => NextWave(g, S) \subseteq T
         /\ \A c : c \in NextWave(g, S) <=> \E b \in S : c = b \/ \E e \in Edges(g) : e[1] = b /\ e[2] = c
<1>1. \A b, c : c \in Successors(g, b) <=> \E e \in Edges(g) : e[1] = b /\ e[2] = c
  BY DEF Successors
<1>2. \A c : c \in NextWave(g, S) <=> \E b \in S : c = b \/ c \in Successors(g, b)
  BY DEF NextWave
<1>3. \A c : c \in NextWave(g, S) <=> \E b \in S : c = b \/ \E e \in Edges(g) : e[1] = b /\ e[2] = c
  BY <1>1, <1>2
<1> HIDE DEF NextWave
<1>4. S \subseteq NextWave(g, S)
  BY <1>3
<1>5. \A T : S \subseteq T /\ Closed(g, T) => NextWave(g, S) \subseteq T
  BY <1>3 DEF Closed
<1>6. NextWave(g, S) = S => Closed(g, S)
  BY <1>3 DEF Closed
<1>7. QED
  BY <1>3, <1>4, <1>5, <1>6

Trails(g, a, n) ==
    {q \in [0 .. n -> g.actions] :
        q[0] = a /\ \A i \in 1 .. n : q[i] = q[i - 1] \/ <<q[i - 1], q[i]>> \in Edges(g)}

LEMMA WavesExist ==
  ASSUME NEW g, NEW a \in g.actions, EdgesInside(g)
  PROVE  \E f : AreWaves(g, a, f)
<1> DEFINE V == g.actions
           E == Edges(g)
           f == [n \in Nat |-> {q[n] : q \in Trails(g, a, n)}]
<1>1. f[0] = {a}
  <2>1. [i \in 0 .. 0 |-> a] \in Trails(g, a, 0)
    BY DEF Trails
  <2>2. \A q \in Trails(g, a, 0) : q[0] = a
    BY DEF Trails
  <2>3. QED
    BY <2>1, <2>2
<1>2. ASSUME NEW n \in Nat, n # 0
      PROVE  f[n] = NextWave(g, f[n - 1])
  <2>1. n - 1 \in Nat /\ n - 1 \in 0 .. n /\ n \in 0 .. n /\ n \in 1 .. n
    BY <1>2
  <2>2. f[n] = {q[n] : q \in Trails(g, a, n)} /\ f[n - 1] = {q[n - 1] : q \in Trails(g, a, n - 1)}
    BY <2>1
  <2> HIDE DEF f
  <2>3. ASSUME NEW c \in f[n]
        PROVE  c \in NextWave(g, f[n - 1])
    <3>1. PICK q \in Trails(g, a, n) : c = q[n]
      BY <2>2, <2>3
    <3>2. /\ q \in [0 .. n -> V] /\ q[0] = a
          /\ \A i \in 1 .. n : q[i] = q[i - 1] \/ <<q[i - 1], q[i]>> \in E
      BY <3>1 DEF Trails
    <3> DEFINE r == [i \in 0 .. n - 1 |-> q[i]]
    <3>3. /\ r \in [0 .. n - 1 -> V] /\ r[0] = a /\ r[n - 1] = q[n - 1]
          /\ \A i \in 1 .. n - 1 : r[i] = q[i] /\ r[i - 1] = q[i - 1] /\ i \in 1 .. n
      BY <2>1, <3>2
    <3> HIDE DEF r
    <3>4. r \in Trails(g, a, n - 1)
      BY <3>2, <3>3 DEF Trails
    <3>5. q[n - 1] \in f[n - 1]
      BY <2>2, <3>3, <3>4
    <3>6. q[n] = q[n - 1] \/ <<q[n - 1], q[n]>> \in E
      BY <2>1, <3>2
    <3>7. QED
      BY <3>1, <3>5, <3>6, NextWaveFacts
  <2>4. ASSUME NEW c \in NextWave(g, f[n - 1])
        PROVE  c \in f[n]
    <3>1. PICK b \in f[n - 1] : c = b \/ \E e \in E : e[1] = b /\ e[2] = c
      BY <2>4, NextWaveFacts
    <3>2. c = b \/ <<b, c>> \in E
      BY <3>1 DEF EdgesInside
    <3>3. PICK q \in Trails(g, a, n - 1) : b = q[n - 1]
      BY <2>2, <3>1
    <3>4. /\ q \in [0 .. n - 1 -> V] /\ q[0] = a
          /\ \A i \in 1 .. n - 1 : q[i] = q[i - 1] \/ <<q[i - 1], q[i]>> \in E
      BY <3>3 DEF Trails
    <3>5. b \in V /\ c \in V
      BY <2>1, <3>2, <3>3, <3>4 DEF EdgesInside
    <3> DEFINE r == [i \in 0 .. n |-> IF i = n THEN c ELSE q[i]]
    <3>6. r \in [0 .. n -> V]
      BY <2>1, <3>4, <3>5
    <3>7. /\ r[n] = c /\ r[n - 1] = b /\ r[0] = a
          /\ \A i \in 1 .. n : i # n => i \in 1 .. n - 1 /\ r[i] = q[i] /\ r[i - 1] = q[i - 1]
      BY <1>2, <2>1, <3>3, <3>4
    <3> HIDE DEF r
    <3>8. \A i \in 1 .. n : r[i] = r[i - 1] \/ <<r[i - 1], r[i]>> \in E
      BY <3>2, <3>4, <3>7
    <3>9. r \in Trails(g, a, n)
      BY <3>6, <3>7, <3>8 DEF Trails
    <3>10. QED
      BY <2>2, <3>7, <3>9
  <2>5. QED
    BY <2>3, <2>4
<1>3. f = [n \in Nat |-> IF n = 0 THEN {a} ELSE NextWave(g, f[n - 1])]
  <2>1. f = [n \in Nat |-> f[n]]
    OBVIOUS
  <2> HIDE DEF f
  <2>2. [n \in Nat |-> f[n]] = [n \in Nat |-> IF n = 0 THEN {a} ELSE NextWave(g, f[n - 1])]
    BY <1>1, <1>2
  <2>3. QED
    BY <2>1, <2>2
<1> HIDE DEF f
<1>4. QED
  BY <1>3 DEF AreWaves

\* As long as a wave is not closed, the next one has one action more.
LEMMA ReachableFacts ==
  ASSUME NEW g, NEW a \in g.actions, IsFiniteGraph(g)
  PROVE  /\ a \in Reachable(g, a)
         /\ Reachable(g, a) \subseteq g.actions
         /\ Closed(g, Reachable(g, a))
         /\ \A S : a \in S /\ Closed(g, S) => Reachable(g, a) \subseteq S
<1> DEFINE f == CHOOSE h : AreWaves(g, a, h)
           N == Cardinality(g.actions)
<1>1. AreWaves(g, a, f)
  BY WavesExist DEF IsFiniteGraph
<1>2. Reachable(g, a) = f[N]
  BY ReachableIsChosen
<1> HIDE DEF f
<1>3. f[0] = {a} /\ \A n \in Nat : n + 1 \in Nat /\ n + 1 # 0 /\ (n + 1) - 1 = n
  BY <1>1 DEF AreWaves
<1>4. ASSUME NEW n \in Nat
      PROVE  f[n + 1] = NextWave(g, f[n])
  BY <1>1, <1>3 DEF AreWaves
<1>5. N \in Nat
  BY FS_CardinalityType DEF IsFiniteGraph
<1>6. ASSUME NEW S, a \in S, Closed(g, S)
      PROVE  \A n \in Nat : f[n] \subseteq S
  <2> DEFINE T == {n \in Nat : f[n] \subseteq S}
  <2>1. 0 \in T
    BY <1>3, <1>6
  <2>2. \A n \in Nat : n \in T => n + 1 \in T
    BY <1>4, <1>6, NextWaveFacts
  <2> HIDE DEF T
  <2>3. Nat \subseteq T
    BY <2>1, <2>2, NatSetInduction
  <2>4. QED
    BY <2>3 DEF T
<1>7. \A n \in Nat : f[n] \subseteq g.actions
  <2>1. Closed(g, g.actions)
    BY DEF Closed, IsFiniteGraph, EdgesInside
  <2>2. QED
    BY <1>6, <2>1
<1>8. \A n \in Nat : IsFiniteSet(f[n]) /\ Cardinality(f[n]) \in Nat /\ Cardinality(f[n]) <= N
  BY <1>7, FS_Subset, FS_CardinalityType DEF IsFiniteGraph
<1>9. \A n \in Nat : a \in f[n] /\ (Closed(g, f[n]) \/ Cardinality(f[n]) >= n + 1)
  <2> DEFINE T == {n \in Nat : a \in f[n] /\ (Closed(g, f[n]) \/ Cardinality(f[n]) >= n + 1)}
  <2>1. 0 \in T
    <3>1. Cardinality({a}) = 1
      BY FS_Singleton
    <3>2. QED
      BY <1>3, <3>1
  <2>2. ASSUME NEW n \in Nat, n \in T
        PROVE  n + 1 \in T
    <3>1. f[n] \subseteq f[n + 1] /\ (Closed(g, f[n]) <=> f[n + 1] = f[n])
      BY <1>4, NextWaveFacts
    <3>2. CASE Closed(g, f[n])
      BY <1>3, <2>2, <3>1, <3>2
    <3>3. CASE ~Closed(g, f[n])
      <4>1. IsFiniteSet(f[n + 1]) /\ Cardinality(f[n + 1]) \in Nat /\ Cardinality(f[n]) \in Nat
        BY <1>3, <1>8
      <4>2. Cardinality(f[n]) < Cardinality(f[n + 1])
        BY <3>1, <3>3, <4>1, FS_Subset
      <4>3. Cardinality(f[n]) >= n + 1
        BY <2>2, <3>3
      <4>4. Cardinality(f[n + 1]) >= (n + 1) + 1
        BY <4>1, <4>2, <4>3
      <4>5. QED
        BY <1>3, <2>2, <3>1, <4>4
    <3>4. QED
      BY <3>2, <3>3
  <2> HIDE DEF T
  <2>3. Nat \subseteq T
    BY <2>1, <2>2, NatSetInduction
  <2>4. QED
    BY <2>3 DEF T
<1>10. Closed(g, f[N])
  BY <1>5, <1>8, <1>9
<1>11. QED
  BY <1>2, <1>5, <1>6, <1>7, <1>9, <1>10

LEMMA ReachedOnwards ==
  ASSUME NEW g, IsFiniteGraph(g), NEW a \in g.actions, NEW b \in Reachable(g, a)
  PROVE  b \in g.actions /\ Reachable(g, b) \subseteq Reachable(g, a)
<1>1. b \in g.actions /\ Closed(g, Reachable(g, a))
  BY ReachableFacts
<1>2. QED
  BY <1>1, ReachableFacts

\* Actions that wait for each other are of one package.
Mutual(g, a, b) == b \in Reachable(g, a) /\ a \in Reachable(g, b)
AllSingle(g) == \A a, b \in g.actions : Mutual(g, a, b) => PackageOf(a) = PackageOf(b)

-----------------------------------------------------------------------------
(***************************************************************************)
(* What may happen to the edges of such a graph.                           *)
(***************************************************************************)
\* Edges go, or lead where others have led already.
LEMMA KnownWays ==
  ASSUME NEW g, NEW h, IsFiniteGraph(g), IsFiniteGraph(h), h.actions = g.actions, AllSingle(g),
         \A e \in Edges(h) : e \in Edges(g) \/ e[2] \in Reachable(g, e[1])
  PROVE  AllSingle(h)
<1>1. ASSUME NEW a \in g.actions
      PROVE  Reachable(h, a) \subseteq Reachable(g, a)
  <2> DEFINE R == Reachable(g, a)
  <2>1. a \in R /\ Closed(g, R)
    BY ReachableFacts
  <2>2. \A b \in R : Reachable(g, b) \subseteq R
    BY ReachedOnwards
  <2> HIDE DEF R
  <2>3. Closed(h, R)
    BY <2>1, <2>2 DEF Closed
  <2>4. Reachable(h, a) \subseteq R
    BY <1>1, <2>1, <2>3, ReachableFacts
  <2>5. QED
    BY <2>4 DEF R
<1>2. QED
  BY <1>1 DEF AllSingle, Mutual

\* New edges to an action come from where it does not lead.
LEMMA WaysFromOutside ==
  ASSUME NEW g, NEW h, IsFiniteGraph(g), IsFiniteGraph(h), h.actions = g.actions, AllSingle(g),
         NEW to \in g.actions,
         \A e \in Edges(h) : e \in Edges(g) \/ (e[2] = to /\ e[1] \notin Reachable(g, to))
  PROVE  AllSingle(h)
<1> DEFINE F == Reachable(g, to)
<1>1. to \in F /\ Closed(g, F)
  BY ReachableFacts
<1>2. \A a \in F : a \in g.actions /\ Reachable(g, a) \subseteq F
  BY ReachedOnwards
<1> HIDE DEF F
<1>3. ASSUME NEW a \in F
      PROVE  Reachable(h, a) \subseteq Reachable(g, a)
  <2> DEFINE R == Reachable(g, a)
  <2>1. a \in R /\ Closed(g, R) /\ R \subseteq F
    BY <1>2, ReachableFacts
  <2> HIDE DEF R
  <2>2. Closed(h, R)
    BY <2>1 DEF Closed, F
  <2>3. Reachable(h, a) \subseteq R
    BY <1>2, <2>1, <2>2, ReachableFacts
  <2>4. QED
    BY <2>3 DEF R
<1>4. ASSUME NEW a \in g.actions
      PROVE  Reachable(h, a) \subseteq Reachable(g, a) \cup F
  <2> DEFINE R == Reachable(g, a)
  <2>1. a \in R /\ Closed(g, R)
    BY ReachableFacts
  <2> HIDE DEF R
  <2>2. Closed(h, R \cup F)
    BY <1>1, <2>1 DEF Closed
  <2>3. Reachable(h, a) \subseteq R \cup F
    BY <1>4, <2>1, <2>2, ReachableFacts
  <2>4. QED
    BY <2>3 DEF R
<1>5. ASSUME NEW a \in g.actions, NEW b \in g.actions, Mutual(h, a, b)
      PROVE  Mutual(g, a, b)
  <2>1. a \in F => b \in F
    BY <1>2, <1>3, <1>5 DEF Mutual
  <2>2. b \in F => a \in F
    BY <1>2, <1>3, <1>5 DEF Mutual
  <2>3. CASE a \in F /\ b \in F
    BY <1>3, <1>5, <2>3 DEF Mutual
  <2>4. CASE a \notin F /\ b \notin F
    BY <1>4, <1>5, <2>4 DEF Mutual
  <2>5. QED
    BY <2>1, <2>2, <2>3, <2>4
<1>6. QED
  BY <1>5 DEF AllSingle

\* Actions are put in a row, of which no edge but those new ones leads back,
\* to a neighbour of the same package.
SamePackage(A, B) == \A a \in A, b \in B : PackageOf(a) = PackageOf(b)

LEMMA WaysToNeighbours ==
  ASSUME NEW g, NEW h, IsFiniteGraph(g), IsFiniteGraph(h), h.actions = g.actions,
         NEW o, IsSeq(o), \A i \in DOMAIN o : o[i] # {} /\ SamePackage(o[i], o[i]),
         NEW at \in [g.actions -> DOMAIN o], \A a \in g.actions : a \in o[at[a]],
         \A i \in DOMAIN o : \A a \in o[i] : a \in g.actions /\ at[a] = i,
         \A e \in Edges(h) :
            \/ at[e[1]] <= at[e[2]]
            \/ at[e[1]] = at[e[2]] + 1 /\ SamePackage(o[at[e[2]]], o[at[e[1]]])
  PROVE  AllSingle(h)
<1> DEFINE Joined(k) == SamePackage(o[k], o[k + 1])
           Above(a) == {b \in g.actions : \A k \in at[b] .. at[a] - 1 : Joined(k)}
<1>1. \A a \in g.actions : at[a] \in 1 .. Len(o) /\ at[a] \in Nat /\ Len(o) \in Nat /\ DOMAIN o = 1 .. Len(o)
  BY SeqFacts
<1>2. ASSUME NEW a \in g.actions
      PROVE  Reachable(h, a) \subseteq Above(a)
  <2>1. a \in Above(a)
    BY <1>1
  <2>2. ASSUME NEW e \in Edges(h), e[1] \in Above(a)
        PROVE  e[2] \in Above(a)
    <3>1. e[1] \in g.actions /\ e[2] \in g.actions
      BY DEF IsFiniteGraph, EdgesInside
    <3>2. \A k \in at[e[1]] .. at[a] - 1 : Joined(k)
      BY <2>2
    <3>3. at[a] \in Nat /\ at[e[1]] \in Nat /\ at[e[2]] \in Nat
      BY <1>1, <3>1
    <3>4. CASE at[e[1]] <= at[e[2]]
      <4>1. \A k \in at[e[2]] .. at[a] - 1 : k \in at[e[1]] .. at[a] - 1
        BY <3>3, <3>4
      <4>2. QED
        BY <3>1, <3>2, <4>1
    <3>5. CASE at[e[1]] = at[e[2]] + 1 /\ SamePackage(o[at[e[2]]], o[at[e[1]]])
      <4>1. \A k \in at[e[2]] .. at[a] - 1 : k = at[e[2]] \/ k \in at[e[1]] .. at[a] - 1
        BY <3>3, <3>5
      <4>2. Joined(at[e[2]])
        BY <3>5
      <4>3. \A k \in at[e[2]] .. at[a] - 1 : Joined(k)
        BY <3>2, <4>1, <4>2
      <4>4. QED
        BY <3>1, <4>3
    <3>6. QED
      BY <3>4, <3>5
  <2> HIDE DEF Above
  <2>3. Closed(h, Above(a))
    BY <2>2 DEF Closed
  <2>4. QED
    BY <1>2, <2>1, <2>3, ReachableFacts
<1>3. ASSUME NEW a \in g.actions, NEW b \in g.actions, b \in Above(a), at[b] <= at[a]
      PROVE  PackageOf(a) = PackageOf(b)
  <2> DEFINE T == {n \in Nat : at[b] + n <= at[a] => SamePackage(o[at[b]], o[at[b] + n])}
  <2>1. at[a] \in Nat /\ at[b] \in Nat /\ at[b] \in DOMAIN o /\ at[a] \in DOMAIN o /\ at[a] - at[b] \in Nat
    BY <1>1, <1>3
  <2>2. 0 \in T
    <3>1. at[b] + 0 = at[b]
      BY <2>1
    <3>2. QED
      BY <2>1, <3>1
  <2>3. ASSUME NEW n \in Nat, n \in T
        PROVE  n + 1 \in T
    <3> SUFFICES ASSUME at[b] + (n + 1) <= at[a] PROVE SamePackage(o[at[b]], o[at[b] + (n + 1)])
      OBVIOUS
    <3>1. /\ at[b] + n \in at[b] .. at[a] - 1 /\ (at[b] + n) + 1 = at[b] + (n + 1)
          /\ at[b] + n <= at[a] /\ at[b] + n \in DOMAIN o
      BY <1>1, <2>1
    <3>2. SamePackage(o[at[b] + n], o[at[b] + (n + 1)])
      BY <1>3, <3>1
    <3>3. SamePackage(o[at[b]], o[at[b] + n]) /\ o[at[b] + n] # {}
      BY <2>3, <3>1
    <3>4. QED
      BY <3>2, <3>3 DEF SamePackage
  <2> HIDE DEF T
  <2>4. Nat \subseteq T
    BY <2>2, <2>3, NatSetInduction
  <2>5. at[b] + (at[a] - at[b]) = at[a] /\ at[a] <= at[a]
    BY <2>1
  <2>6. SamePackage(o[at[b]], o[at[a]])
    BY <2>1, <2>4, <2>5 DEF T
  <2>7. QED
    BY <2>6 DEF SamePackage
<1>4. ASSUME NEW a \in g.actions, NEW b \in g.actions, Mutual(h, a, b)
      PROVE  PackageOf(a) = PackageOf(b)
  <2>1. b \in Above(a) /\ a \in Above(b)
    BY <1>2, <1>4 DEF Mutual
  <2>2. at[b] <= at[a] \/ at[a] <= at[b]
    BY <1>1
  <2> HIDE DEF Above
  <2>3. QED
    BY <1>3, <2>1, <2>2
<1>5. QED
  BY <1>4 DEF AllSingle

-----------------------------------------------------------------------------
(***************************************************************************)
(* Groups of actions which wait for each other.                            *)
(***************************************************************************)
LEMMA ActionsAreFinite ==
  ASSUME NEW sys, IsSystem(sys)
  PROVE  IsFiniteSet(TaskActions(sys))
<1> DEFINE Types == {"remove", "unpack", "configure"}
           P == Packages(sys) \X Types
           T == {ActionOf(sys, x[1], x[2]) : x \in P}
           f == [x \in P |-> ActionOf(sys, x[1], x[2])]
<1>1. IsFiniteSet(Types)
  <2>1. IsFiniteSet({"remove"}) /\ IsFiniteSet({"unpack"}) /\ IsFiniteSet({"configure"})
    BY FS_Singleton
  <2>2. IsFiniteSet({"remove"} \cup {"unpack"})
    BY <2>1, FS_Union
  <2>3. IsFiniteSet(({"remove"} \cup {"unpack"}) \cup {"configure"})
    BY <2>1, <2>2, FS_Union
  <2>4. ({"remove"} \cup {"unpack"}) \cup {"configure"} = Types
    OBVIOUS
  <2>5. QED
    BY <2>3, <2>4
<1>2. IsFiniteSet(P)
  BY <1>1, PackagesAreFinite, FS_Product
<1>3. f \in Surjection(P, T)
  BY DEF Surjection
<1>4. IsFiniteSet(T)
  <2> HIDE DEF f, T, P
  <2>1. QED
    BY <1>2, <1>3, FS_Surjection
<1>5. TaskActions(sys) \subseteq T
  <2>1. ASSUME NEW a \in TaskActions(sys)
        PROVE  a \in T
    <3>1. <<PackageOf(a), TypeOf(a)>> \in P /\ a = ActionOf(sys, PackageOf(a), TypeOf(a))
      BY ActionIs
    <3>2. QED
      BY <3>1
  <2>2. QED
    BY <2>1
<1>6. QED
  BY <1>4, <1>5, FS_Subset

LEMMA SingleMeansSame ==
  ASSUME NEW c, IsFiniteSet(c), c # {}
  PROVE  SinglePackage(c) <=> SamePackage(c, c)
<1> DEFINE T == {PackageOf(a) : a \in c}
           f == [a \in c |-> PackageOf(a)]
<1>1. f \in Surjection(c, T)
  BY DEF Surjection
<1>2. IsFiniteSet(T)
  <2> HIDE DEF f, T
  <2>1. QED
    BY <1>1, FS_Surjection
<1>3. PackagesOf(c) = T
  BY DEF PackagesOf
<1>4. ASSUME SinglePackage(c)
      PROVE  SamePackage(c, c)
  <2>1. PICK x : T = {x}
    <3> HIDE DEF T
    <3>1. QED
      BY <1>2, <1>3, <1>4, FS_Singleton DEF SinglePackage
  <2>2. QED
    BY <2>1 DEF SamePackage
<1>5. ASSUME SamePackage(c, c)
      PROVE  SinglePackage(c)
  <2>1. PICK a \in c : TRUE
    OBVIOUS
  <2>2. T = {PackageOf(a)}
    BY <1>5 DEF SamePackage
  <2> HIDE DEF T
  <2>3. QED
    BY <1>3, <2>2, FS_Singleton DEF SinglePackage
<1>6. QED
  BY <1>4, <1>5

LEMMA ComponentIs ==
  ASSUME NEW g, IsFiniteGraph(g)
  PROVE  /\ \A c \in Components(g) : \E a \in g.actions : c = {b \in g.actions : Mutual(g, a, b)}
         /\ \A a \in g.actions : {b \in g.actions : Mutual(g, a, b)} \in Components(g)
         /\ \A c \in Components(g) : c # {} /\ IsFiniteSet(c) /\ c \subseteq g.actions
<1>1. Components(g) = {{b \in g.actions : Mutual(g, a, b)} : a \in g.actions}
  BY DEF Components, Mutual
<1>2. \A a \in g.actions : Mutual(g, a, a)
  BY ReachableFacts DEF Mutual
<1>3. ASSUME NEW c \in Components(g)
      PROVE  c # {} /\ c \subseteq g.actions
  <2>1. PICK a \in g.actions : c = {b \in g.actions : Mutual(g, a, b)}
    BY <1>1
  <2>2. a \in c
    BY <1>2, <2>1
  <2>3. QED
    BY <2>1, <2>2
<1>4. \A c \in Components(g) : IsFiniteSet(c)
  BY <1>3, FS_Subset DEF IsFiniteGraph
<1>5. QED
  BY <1>1, <1>3, <1>4

LEMMA SingleComponents ==
  ASSUME NEW g, IsFiniteGraph(g)
  PROVE  AllSingle(g) <=> \A c \in Components(g) : SinglePackage(c)
<1>1. ASSUME AllSingle(g), NEW c \in Components(g)
      PROVE  SinglePackage(c)
  <2>1. PICK a \in g.actions : c = {b \in g.actions : Mutual(g, a, b)}
    BY ComponentIs
  <2>2. SamePackage(c, c)
    BY <1>1, <2>1 DEF AllSingle, SamePackage
  <2>3. QED
    BY <2>2, ComponentIs, SingleMeansSame
<1>2. ASSUME \A c \in Components(g) : SinglePackage(c), NEW a \in g.actions, NEW b \in g.actions, Mutual(g, a, b)
      PROVE  PackageOf(a) = PackageOf(b)
  <2> DEFINE c == {x \in g.actions : Mutual(g, a, x)}
  <2>1. c \in Components(g)
    BY ComponentIs
  <2>2. a \in c /\ b \in c
    BY <1>2, ReachableFacts DEF Mutual
  <2> HIDE DEF c
  <2>3. SamePackage(c, c)
    BY <1>2, <2>1, ComponentIs, SingleMeansSame
  <2>4. QED
    BY <2>2, <2>3 DEF SamePackage
<1>3. QED
  BY <1>1, <1>2 DEF AllSingle

-----------------------------------------------------------------------------
(***************************************************************************)
(* Levels of edges.                                                        *)
(***************************************************************************)
LEMMA RecordLevelIs ==
  ASSUME NEW r
  PROVE  /\ RecordLevel(r) \in {FromVirtual, Soft, Medium, Hard}
         /\ r.type \in {"PreDepends", "Depends"} /\ r.virtual => RecordLevel(r) # Hard
BY DEF RecordLevel, FromVirtual, Soft, Medium, Hard

\* An edge has the level of the hardest of its relations.
LEMMA InfoLevelIs ==
  ASSUME NEW info
  PROVE  /\ InfoLevel(info) \in 0 .. Hard
         /\ InfoLevel(info) >= Hard <=> \E r \in info : RecordLevel(r) = Hard
<1> DEFINE S == {RecordLevel(r) : r \in info}
           T == {Priority} \cup S
<1>1. \A y \in T : y \in Int /\ 0 <= y /\ y <= 4
  BY RecordLevelIs DEF Priority, FromVirtual, Soft, Medium, Hard
<1>2. InfoLevel(info) = Max(T)
  BY DEF InfoLevel
<1>3. Priority \in T
  OBVIOUS
<1>4. Hard = 4 /\ Priority = 0
  BY DEF Hard, Priority
<1>5. (\E r \in info : RecordLevel(r) = Hard) <=> 4 \in T
  BY <1>4
<1> HIDE DEF T, S
<1>6. \E x \in T : \A y \in T : x >= y
  <2>1. 4 \in T \/ 3 \in T \/ 2 \in T \/ 1 \in T \/ 0 \in T
    BY <1>3 DEF Priority
  <2>2. \A y \in T : y \in {0, 1, 2, 3, 4}
    BY <1>1
  <2>3. QED
    BY <2>1, <2>2
<1>7. Max(T) \in T /\ \A y \in T : Max(T) >= y
  BY <1>6 DEF Max
<1>8. Max(T) \in Int /\ 0 <= Max(T) /\ Max(T) <= 4
  BY <1>1, <1>7
<1>9. Max(T) >= 4 <=> 4 \in T
  BY <1>7, <1>8
<1>10. QED
  BY <1>2, <1>5, <1>8, <1>9 DEF Hard

LEMMA LevelIs ==
  ASSUME NEW g, NEW e
  PROVE  /\ LevelOf(g, e) \in 0 .. Fundamental
         /\ LevelOf(g, e) >= Hard <=> e \in g.fundamental \/ \E r \in g.info[e] : RecordLevel(r) = Hard
<1>1. CASE e \in g.fundamental
  BY <1>1 DEF LevelOf, Fundamental, Hard
<1>2. CASE e \notin g.fundamental
  <2>1. LevelOf(g, e) = InfoLevel(g.info[e])
    BY <1>2 DEF LevelOf
  <2>2. QED
    BY <1>2, <2>1, InfoLevelIs DEF Fundamental, Hard
<1>3. QED
  BY <1>1, <1>2

-----------------------------------------------------------------------------
(***************************************************************************)
(* Where relations put edges.  A relation which leads into a removal or    *)
(* out of a configuring is a dependency: a conflict or a breaks of one     *)
(* version with another orders a removal before something else.            *)
(***************************************************************************)
IsDependency(type) == type \in {"PreDepends", "Depends"}
ActionTypes == {"remove", "unpack", "configure"}
HasFields(info) == {"type", "expression", "reverse", "virtual"} \subseteq DOMAIN info

LEMMA TypesOfActions ==
  ASSUME NEW sys, IsSystem(sys), NEW a \in TaskActions(sys) \cup FakeActions(sys)
  PROVE  TypeOf(a) \in ActionTypes
<1>1. CASE a \in TaskActions(sys)
  BY <1>1, ActionIs DEF ActionTypes
<1>2. CASE a \in FakeActions(sys)
  BY <1>2 DEF FakeActions, ActionTypes, TypeOf
<1>3. QED
  BY <1>1, <1>2

Record(sys, a, b, d, x) ==
    [edge |-> IF d[3] = "after" THEN <<a, b>> ELSE <<b, a>>,
     info |-> [type |-> d[1], expression |-> x, reverse |-> d[3] = "after",
               virtual |-> IsFake(sys, a) \/ IsFake(sys, b)]]

LEMMA RecordIs ==
  ASSUME NEW sys, NEW A, NEW r \in AllRecords(sys, A)
  PROVE  \E a \in A, b \in A : \E d \in Demands(A, a) : \E x \in RelationsOf(sys, VersionOf(a), d[1]) :
            /\ r = Record(sys, a, b, d, x)
            /\ TypeOf(b) = d[2]
            /\ IsFake(sys, a) => IsDependency(d[1])
<1>1. PICK a \in A : r \in UNION {DependencyRecords(sys, A, a, d) : d \in Demands(A, a)}
  BY DEF AllRecords
<1>2. PICK d \in Demands(A, a) : r \in DependencyRecords(sys, A, a, d)
  BY <1>1
<1> DEFINE Others(x) == {b \in A : /\ TypeOf(b) = d[2] /\ VersionOf(b) \in x
                                   /\ ~(IsFake(sys, a) /\ IsFake(sys, b))}
<1>3. /\ IsFake(sys, a) => IsDependency(d[1])
      /\ r \in UNION {{Record(sys, a, b, d, x) : b \in Others(x)} : x \in RelationsOf(sys, VersionOf(a), d[1])}
  BY <1>2 DEF DependencyRecords, IsDependency, Record
<1>4. PICK x \in RelationsOf(sys, VersionOf(a), d[1]) : r \in {Record(sys, a, b, d, x) : b \in Others(x)}
  BY <1>3
<1>5. PICK b \in Others(x) : r = Record(sys, a, b, d, x)
  BY <1>4
<1>6. QED
  BY <1>3, <1>5

LEMMA DemandIs ==
  ASSUME NEW A, NEW a, TypeOf(a) \in ActionTypes, NEW d \in Demands(A, a)
  PROVE  /\ TypeOf(a) = "unpack" => d \in UnpackDemands
         /\ TypeOf(a) = "remove" => d \in RemoveDemands
         /\ TypeOf(a) = "configure" => d = <<"Depends", "configure", "before">> \/ d \in UnpackDemands
BY DEF Demands, ActionTypes

\* For the relations between two versions: what ends an edge, and whose line
\* the relation is in.
LEMMA RecordFacts ==
  ASSUME NEW sys, IsSystem(sys), NEW r \in AllRecords(sys, TaskActions(sys) \cup FakeActions(sys))
  PROVE  /\ r.edge = <<r.edge[1], r.edge[2]>> /\ HasFields(r.info)
         /\ TypeOf(r.edge[1]) = "remove" \/ TypeOf(r.edge[1]) = "configure"
         /\ TypeOf(r.edge[2]) = "remove" => IsDependency(r.info.type)
         /\ TypeOf(r.edge[1]) = "configure" => IsDependency(r.info.type)
         /\ r.info.type \in DependencyTypes
         /\ TypeOf(r.edge[2]) = "configure" /\ VersionOf(r.edge[2]) \in Untouched(sys) =>
              /\ TypeOf(r.edge[1]) = "remove" => r.info.type = "Breaks"
              /\ r.info.expression \in
                    RelationsOf(sys, IF IsDependency(r.info.type) THEN VersionOf(r.edge[2]) ELSE VersionOf(r.edge[1]),
                                r.info.type)
<1> DEFINE A == TaskActions(sys) \cup FakeActions(sys)
<1>1. PICK a \in A, b \in A : \E d \in Demands(A, a) : \E x \in RelationsOf(sys, VersionOf(a), d[1]) :
            /\ r = Record(sys, a, b, d, x)
            /\ TypeOf(b) = d[2]
            /\ IsFake(sys, a) => IsDependency(d[1])
  BY RecordIs
<1>2. PICK d \in Demands(A, a) : \E x \in RelationsOf(sys, VersionOf(a), d[1]) :
            /\ r = Record(sys, a, b, d, x)
            /\ TypeOf(b) = d[2]
            /\ IsFake(sys, a) => IsDependency(d[1])
  BY <1>1
<1>3. PICK x \in RelationsOf(sys, VersionOf(a), d[1]) :
            /\ r = Record(sys, a, b, d, x)
            /\ TypeOf(b) = d[2]
            /\ IsFake(sys, a) => IsDependency(d[1])
  BY <1>2
<1>4. TypeOf(a) \in ActionTypes
  BY TypesOfActions
<1>5. /\ TypeOf(a) = "unpack" => d \in UnpackDemands
      /\ TypeOf(a) = "remove" => d \in RemoveDemands
      /\ TypeOf(a) = "configure" => d = <<"Depends", "configure", "before">> \/ d \in UnpackDemands
  BY <1>2, <1>4, DemandIs
<1> HIDE DEF A
<1>6. /\ d[3] = "after" => r.edge = <<a, b>>
      /\ d[3] = "before" => r.edge = <<b, a>>
      /\ r.info.type = d[1] /\ r.info.expression = x /\ HasFields(r.info)
  BY <1>3 DEF Record, HasFields
<1>7. d[3] = "after" \/ d[3] = "before"
  BY <1>4, <1>5 DEF UnpackDemands, RemoveDemands, ActionTypes
<1>8. CASE d[3] = "after"
  <2>1. r.edge[1] = a /\ r.edge[2] = b /\ r.edge = <<r.edge[1], r.edge[2]>>
    BY <1>6, <1>8
  <2>2. TypeOf(a) = "remove" /\ d \in RemoveDemands
    BY <1>4, <1>5, <1>8 DEF UnpackDemands, RemoveDemands, ActionTypes
  <2>3. /\ d[2] = "remove" => IsDependency(d[1])
        /\ d[2] = "configure" => d[1] = "Breaks"
        /\ d[1] \in DependencyTypes
    BY <2>2 DEF RemoveDemands, IsDependency, DependencyTypes
  <2>4. ~IsDependency("Breaks")
    BY DEF IsDependency
  <2>5. QED
    BY <1>3, <1>6, <2>1, <2>2, <2>3, <2>4
<1>9. CASE d[3] = "before"
  <2>1. r.edge[1] = b /\ r.edge[2] = a /\ r.edge = <<r.edge[1], r.edge[2]>>
    BY <1>6, <1>9
  <2>2. TypeOf(a) # "remove" /\ (d = <<"Depends", "configure", "before">> \/ d \in UnpackDemands)
    BY <1>4, <1>5, <1>9 DEF RemoveDemands, ActionTypes
  <2>3. /\ d[2] = "configure" => IsDependency(d[1])
        /\ d[2] = "remove" => ~IsDependency(d[1])
        /\ d[2] \in {"remove", "configure"}
        /\ d[1] \in DependencyTypes
    BY <2>2 DEF UnpackDemands, IsDependency, DependencyTypes
  <2>4. VersionOf(a) \in Untouched(sys) => IsDependency(d[1])
    BY <1>3 DEF IsFake
  <2>5. QED
    BY <1>3, <1>6, <2>1, <2>2, <2>3, <2>4
<1>10. QED
  BY <1>7, <1>8, <1>9

-----------------------------------------------------------------------------
(***************************************************************************)
(* Edges between what does and what undoes a dependency of an untouched    *)
(* version: the relation they get is one of those which they stand for.    *)
(***************************************************************************)
LEMMA LeastNumber ==
  ASSUME NEW S, S \subseteq Nat, S # {}
  PROVE  \E n \in S : \A m \in S : n <= m
<1> DEFINE R == OpToRel(<, Nat)
<1>1. IsWellFoundedOn(R, Nat)
  BY NatLessThanWellFounded
<1>2. \A m, n \in Nat : m < n => <<m, n>> \in R
  BY DEF OpToRel
<1> HIDE DEF R
<1>3. PICK n \in S : \A m \in S : <<m, n>> \notin R
  BY <1>1, WFMin
<1>4. \A m \in S : ~(m < n) /\ m \in Nat /\ n \in Nat
  BY <1>2, <1>3
<1>5. QED
  BY <1>3, <1>4

LineFor(sys, v, r) ==
    RelationLine(sys, IF r.info.type \in {"PreDepends", "Depends"} THEN v ELSE VersionOf(r.edge[1]), r.info.type)
PlaceOf(sys, v, r) == Min({i \in DOMAIN LineFor(sys, v, r) : LineFor(sys, v, r)[i] = r.info.expression})
Sooner(sys, v, r, s) ==
    IF r.info.type = s.info.type THEN PlaceOf(sys, v, r) <= PlaceOf(sys, v, s)
    ELSE r.info.type = "Depends"

LEMMA FirstSharedIs ==
  \A sys, v, S : FirstShared(sys, v, S) = CHOOSE r \in S : \A s \in S : Sooner(sys, v, r, s)
BY DEF FirstShared, Sooner, PlaceOf, LineFor

LEMMA PlaceIsNumber ==
  ASSUME NEW sys, IsSystem(sys), NEW v \in Untouched(sys),
         NEW r \in AllRecords(sys, TaskActions(sys) \cup FakeActions(sys)), r.edge[2] = <<"configure", v>>
  PROVE  PlaceOf(sys, v, r) \in Nat
<1> DEFINE w == IF r.info.type \in {"PreDepends", "Depends"} THEN v ELSE VersionOf(r.edge[1])
           type == r.info.type
           L == RelationLine(sys, w, type)
           S == {i \in DOMAIN L : L[i] = r.info.expression}
<1>1. TypeOf(r.edge[2]) = "configure" /\ VersionOf(r.edge[2]) = v
  BY DEF TypeOf, VersionOf
<1>2. r.info.expression \in RelationsOf(sys, w, type) /\ type \in DependencyTypes
  BY <1>1, RecordFacts DEF IsDependency
<1>3. PlaceOf(sys, v, r) = Min(S)
  BY DEF PlaceOf, LineFor
<1> HIDE DEF w, type
<1>4. IsSeq(L)
  <2>1. CASE w \in DOMAIN sys.relations
    <3>1. L \in Seq(RelationsOf(sys, w, type))
      BY <1>2, <2>1 DEF IsSystem
    <3> HIDE DEF L
    <3>2. QED
      BY <3>1, SeqIsSeq
  <2>2. CASE w \notin DOMAIN sys.relations
    BY <2>2, EmptyFacts DEF RelationLine
  <2>3. QED
    BY <2>1, <2>2
<1>5. r.info.expression \in Range(L)
  BY <1>2 DEF RelationsOf
<1> HIDE DEF L
<1>6. S \subseteq Nat /\ S # {}
  BY <1>4, <1>5, SeqFacts DEF Range
<1> HIDE DEF S
<1>7. Min(S) \in S
  BY <1>6, LeastNumber DEF Min
<1>8. QED
  BY <1>3, <1>6, <1>7

\* A configuring makes the version of an edge that leads to it a dependency,
\* a removal does so by breaks: they are all of one kind.
LEMMA FirstSharedIsShared ==
  ASSUME NEW sys, IsSystem(sys), NEW v \in Untouched(sys), NEW a, NEW S, S # {},
         \A r \in S : r \in AllRecords(sys, TaskActions(sys) \cup FakeActions(sys)) /\ r.edge = <<a, <<"configure", v>>>>
  PROVE  FirstShared(sys, v, S) \in S
<1> DEFINE place(r) == PlaceOf(sys, v, r)
<1>1. \A r \in S : r.edge[1] = a /\ r.edge[2] = <<"configure", v>> /\ place(r) \in Nat
  BY PlaceIsNumber
<1>2. TypeOf(<<"configure", v>>) = "configure" /\ VersionOf(<<"configure", v>>) = v
  BY DEF TypeOf, VersionOf
<1>3. \/ \A r \in S : r.info.type = "Breaks"
      \/ \A r \in S : r.info.type \in {"PreDepends", "Depends"}
  <2>1. \A r \in S : /\ TypeOf(a) = "remove" \/ TypeOf(a) = "configure"
                     /\ TypeOf(a) = "remove" => r.info.type = "Breaks"
                     /\ TypeOf(a) = "configure" => r.info.type \in {"PreDepends", "Depends"}
    BY <1>1, <1>2, RecordFacts DEF IsDependency
  <2>2. QED
    BY <2>1
<1>4. ASSUME NEW T, T # {}, T \subseteq S
      PROVE  \E r \in T : \A s \in T : place(r) <= place(s)
  <2> DEFINE N == {place(r) : r \in T}
  <2>1. N \subseteq Nat /\ N # {}
    BY <1>1, <1>4
  <2>2. \E n \in N : \A m \in N : n <= m
    <3> HIDE DEF N
    <3>1. QED
      BY <2>1, LeastNumber
  <2>3. QED
    BY <2>2
<1> HIDE DEF place
<1>5. \E r \in S : \A s \in S : Sooner(sys, v, r, s)
  <2>1. CASE \A r \in S : r.info.type = "Breaks"
    <3>1. PICK r \in S : \A s \in S : place(r) <= place(s)
      BY <1>4
    <3>2. QED
      BY <2>1, <3>1 DEF Sooner, place
  <2>2. CASE \A r \in S : r.info.type \in {"PreDepends", "Depends"}
    <3> DEFINE T == {r \in S : r.info.type = "Depends"}
    <3>1. CASE T = {}
      <4>1. PICK r \in S : \A s \in S : place(r) <= place(s)
        BY <1>4
      <4>2. \A s \in S : s.info.type = "PreDepends"
        BY <2>2, <3>1
      <4>3. QED
        BY <4>1, <4>2 DEF Sooner, place
    <3>2. CASE T # {}
      <4>1. PICK r \in T : \A s \in T : place(r) <= place(s)
        BY <1>4, <3>2
      <4>2. \A s \in S : s.info.type = "Depends" => s \in T
        OBVIOUS
      <4>3. QED
        BY <4>1, <4>2 DEF Sooner, place
    <3>3. QED
      BY <3>1, <3>2
  <2>3. QED
    BY <1>3, <2>1, <2>2
<1>6. QED
  BY <1>5, FirstSharedIs

-----------------------------------------------------------------------------
(***************************************************************************)
(* Where edges come from.  Whatever the passes add, move and bring back,   *)
(* an edge is fundamental or has a hard relation only where the graph had  *)
(* such an edge at first; and what is moved are dependencies.              *)
(***************************************************************************)
RecordsOK(sys, e, info) ==
    \A r \in info :
        /\ HasFields(r)
        /\ RecordLevel(r) = Hard => e \in HardEdges(sys)
        /\ TypeOf(e[2]) = "remove" \/ TypeOf(e[1]) = "configure" => IsDependency(r.type)

Sourced(sys, g) ==
    /\ EdgesInside(g)
    /\ g.actions \subseteq TaskActions(sys)
    /\ g.fundamental \subseteq FundamentalEdges(sys)
    /\ \A e \in Edges(g) : RecordsOK(sys, e, g.info[e])
    /\ \A m \in g.potential : m.edge = <<m.edge[1], m.edge[2]>> /\ RecordsOK(sys, m.edge, m.info)

LEMMA SourcedIsFinite ==
  ASSUME NEW sys, IsSystem(sys), NEW g, Sourced(sys, g)
  PROVE  IsFiniteGraph(g)
BY ActionsAreFinite, FS_Subset DEF Sourced, IsFiniteGraph

MadeFrom(sys, records, m, v, r, s, S) ==
    /\ m.edge = <<r.edge[1], s.edge[2]>>
    /\ m.info = FirstShared(sys, v, S).info
    /\ S # {}
    /\ \A q \in S : /\ q \in records /\ q.edge[1] = r.edge[1] /\ q.edge[2] = <<"configure", v>>
                    /\ \E t \in records : t.edge[2] = s.edge[2] /\ t.info.type = q.info.type

LEMMA MultipliedIs ==
  ASSUME NEW sys, NEW records, NEW m \in MultipliedRecords(sys, records)
  PROVE  \E v \in Untouched(sys), r \in records, s \in records : \E S : MadeFrom(sys, records, m, v, r, s, S)
<1> DEFINE Into(v) == {r \in records : r.edge[2] = <<"configure", v>>}
           OutOf(v) == {r \in records : r.edge[1] = <<"remove", v>>}
           Shared(v, a, b) ==
               {r \in Into(v) : /\ r.edge[1] = a
                                /\ \E s \in OutOf(v) : /\ s.edge[2] = b
                                                       /\ s.info.type = r.info.type
                                                       /\ s.info.expression = r.info.expression}
           Pairs(v) == {ab \in {r.edge[1] : r \in Into(v)} \X {r.edge[2] : r \in OutOf(v)} :
                           ab[1] # ab[2] /\ Shared(v, ab[1], ab[2]) # {}}
           Made(v) == {[edge |-> ab, info |-> FirstShared(sys, v, Shared(v, ab[1], ab[2])).info] : ab \in Pairs(v)}
<1>1. m \in UNION {Made(v) : v \in Untouched(sys)}
  BY DEF MultipliedRecords
<1>2. PICK v \in Untouched(sys) : m \in Made(v)
  BY <1>1
<1>3. PICK ab \in Pairs(v) : m = [edge |-> ab, info |-> FirstShared(sys, v, Shared(v, ab[1], ab[2])).info]
  BY <1>2
<1>4. /\ m.edge = ab /\ m.info = FirstShared(sys, v, Shared(v, ab[1], ab[2])).info
      /\ Shared(v, ab[1], ab[2]) # {}
      /\ ab \in {r.edge[1] : r \in Into(v)} \X {r.edge[2] : r \in OutOf(v)}
  BY <1>3
<1>5. PICK r \in Into(v), s \in OutOf(v) : ab = <<r.edge[1], s.edge[2]>>
  BY <1>4
<1>6. ab[1] = r.edge[1] /\ ab[2] = s.edge[2]
  BY <1>5
<1>7. \A q \in Shared(v, ab[1], ab[2]) :
         /\ q \in records /\ q.edge[1] = ab[1] /\ q.edge[2] = <<"configure", v>>
         /\ \E t \in records : t.edge[2] = ab[2] /\ t.info.type = q.info.type
  OBVIOUS
<1>8. r \in records /\ s \in records
  BY <1>5
<1> DEFINE S == Shared(v, ab[1], ab[2])
<1>9. MadeFrom(sys, records, m, v, r, s, S)
  <2> HIDE DEF Into, OutOf, Shared, Pairs, Made
  <2>1. QED
    BY <1>4, <1>5, <1>6, <1>7 DEF MadeFrom
<1> HIDE DEF S
<1>10. QED
  BY <1>8, <1>9

LEMMA AnyRecord ==
  ASSUME NEW sys, IsSystem(sys), NEW records, records = AllRecords(sys, TaskActions(sys) \cup FakeActions(sys)),
         NEW m \in records \cup MultipliedRecords(sys, records)
  PROVE  /\ m.edge = <<m.edge[1], m.edge[2]>> /\ HasFields(m.info)
         /\ TypeOf(m.edge[2]) = "remove" \/ TypeOf(m.edge[1]) = "configure" => IsDependency(m.info.type)
<1>1. CASE m \in records
  BY <1>1, RecordFacts
<1>2. CASE m \in MultipliedRecords(sys, records)
  <2>1. PICK v \in Untouched(sys), r \in records, s \in records : \E S : MadeFrom(sys, records, m, v, r, s, S)
    BY <1>2, MultipliedIs
  <2>10. PICK S : MadeFrom(sys, records, m, v, r, s, S)
    BY <2>1
  <2>3. FirstShared(sys, v, S) \in S
    <3> DEFINE a == r.edge[1]
    <3>1. S # {} /\ \A q \in S : q \in records /\ q.edge[1] = a /\ q.edge[2] = <<"configure", v>>
      BY <2>10 DEF MadeFrom
    <3> HIDE DEF a
    <3>2. \A q \in S : /\ q \in AllRecords(sys, TaskActions(sys) \cup FakeActions(sys))
                      /\ q.edge = <<a, <<"configure", v>>>>
      BY <3>1, RecordFacts
    <3>3. QED
      BY <3>1, <3>2, FirstSharedIsShared
  <2> DEFINE q == FirstShared(sys, v, S)
  <2>4. q \in S /\ m.info = q.info
    BY <2>3, <2>10 DEF MadeFrom
  <2> HIDE DEF q
  <2>5. PICK t \in records : t.edge[2] = s.edge[2] /\ t.info.type = q.info.type
    BY <2>4, <2>10 DEF MadeFrom
  <2>6. q \in records /\ q.edge[1] = r.edge[1]
    BY <2>4, <2>10 DEF MadeFrom
  <2>7. m.edge = <<r.edge[1], s.edge[2]>> /\ m.edge[1] = r.edge[1] /\ m.edge[2] = s.edge[2]
    BY <2>10 DEF MadeFrom
  <2>8. HasFields(q.info) /\ (TypeOf(q.edge[1]) = "configure" => IsDependency(q.info.type))
    BY <2>6, RecordFacts
  <2>9. TypeOf(t.edge[2]) = "remove" => IsDependency(t.info.type)
    BY <2>5, RecordFacts
  <2>11. QED
    BY <2>4, <2>5, <2>6, <2>7, <2>8, <2>9
<1>3. QED
  BY <1>1, <1>2

LEMMA StepEdges ==
  ASSUME NEW sys, NEW e \in FundamentalEdges(sys)
  PROVE  e = <<e[1], e[2]>> /\ e[1] \in TaskActions(sys) /\ e[2] \in TaskActions(sys)
<1> DEFINE Steps(p) == {i \in DOMAIN Task(sys, p) : i > 1}
           Step(p, i) == <<ActionOf(sys, p, Task(sys, p)[i - 1]), ActionOf(sys, p, Task(sys, p)[i])>>
           Back(x) == <<x[2], x[1]>>
<1>1. \E p \in Packages(sys) : \E i \in Steps(p) : e = Step(p, i) \/ e = Back(Step(p, i))
  <2> DEFINE Doubled(p, i) ==
                 \/ Task(sys, p)[i - 1] = "remove" /\ p \in sys.essential \cup PseudoEssential(sys)
                 \/ Task(sys, p)[i - 1] = "unpack" /\ p \in PseudoEssential(sys)
             Forth(p) == {Step(p, i) : i \in Steps(p)}
             Again(p) == {Back(Step(p, i)) : i \in {j \in Steps(p) : Doubled(p, j)}}
  <2>1. e \in (UNION {Forth(p) : p \in Packages(sys)}) \cup (UNION {Again(p) : p \in Packages(sys)})
    BY DEF FundamentalEdges
  <2>5. \/ \E p \in Packages(sys) : e \in Forth(p)
        \/ \E p \in Packages(sys) : e \in Again(p)
    <3> HIDE DEF Forth, Again
    <3>1. CASE e \in UNION {Forth(p) : p \in Packages(sys)}
      BY <3>1, Zenon
    <3>2. CASE e \in UNION {Again(p) : p \in Packages(sys)}
      BY <3>2, Zenon
    <3>3. QED
      BY <2>1, <3>1, <3>2, Zenon
  <2>2. PICK p \in Packages(sys) : e \in Forth(p) \/ e \in Again(p)
    BY <2>5, Zenon
  <2>3. \E i \in Steps(p) : e = Step(p, i) \/ e = Back(Step(p, i))
    BY <2>2
  <2>4. QED
    BY <2>3
<1>6. PICK p \in Packages(sys) : \E i \in Steps(p) : e = Step(p, i) \/ e = Back(Step(p, i))
  BY <1>1
<1>2. PICK i \in Steps(p) : e = Step(p, i) \/ e = Back(Step(p, i))
  BY <1>6
<1>3. i \in DOMAIN Task(sys, p) /\ i - 1 \in DOMAIN Task(sys, p)
  <2>1. Task(sys, p) \in {<<>>, <<"remove">>, <<"configure">>, <<"unpack", "configure">>,
                          <<"remove", "unpack", "configure">>}
    BY TaskIs
  <2>2. DOMAIN Task(sys, p) \in {{}, 1 .. 1, 1 .. 2, 1 .. 3}
    BY <2>1
  <2>3. i \in DOMAIN Task(sys, p) /\ i > 1
    BY <1>2
  <2>4. QED
    BY <2>2, <2>3
<1>4. ActionOf(sys, p, Task(sys, p)[i - 1]) \in TaskActions(sys) /\ ActionOf(sys, p, Task(sys, p)[i]) \in TaskActions(sys)
  BY <1>3, TaskHasAction
<1>5. QED
  BY <1>2, <1>4

\* The edge from the end of a task to its beginning.
LEMMA TaskEnds ==
  ASSUME NEW sys, NEW p \in Packages(sys), Len(Task(sys, p)) > 1
  PROVE  ActionOf(sys, p, "configure") \in TaskActions(sys) /\ ActionOf(sys, p, Head(Task(sys, p))) \in TaskActions(sys)
<1>1. Task(sys, p) \in {<<"unpack", "configure">>, <<"remove", "unpack", "configure">>}
  BY TaskIs
<1>2. \E i, j \in DOMAIN Task(sys, p) : Task(sys, p)[i] = "configure" /\ Task(sys, p)[j] = Head(Task(sys, p))
  <2>1. CASE Task(sys, p) = <<"unpack", "configure">>
    <3>1. 2 \in DOMAIN Task(sys, p) /\ Task(sys, p)[2] = "configure"
      BY <2>1
    <3>2. 1 \in DOMAIN Task(sys, p) /\ Task(sys, p)[1] = Head(Task(sys, p))
      BY <2>1
    <3>3. QED
      BY <3>1, <3>2
  <2>2. CASE Task(sys, p) = <<"remove", "unpack", "configure">>
    <3>1. 3 \in DOMAIN Task(sys, p) /\ Task(sys, p)[3] = "configure"
      BY <2>2
    <3>2. 1 \in DOMAIN Task(sys, p) /\ Task(sys, p)[1] = Head(Task(sys, p))
      BY <2>2
    <3>3. QED
      BY <3>1, <3>2
  <2>3. QED
    BY <1>1, <2>1, <2>2
<1>3. QED
  BY <1>2, TaskHasAction

RecordsFirst(sys) == AllRecords(sys, TaskActions(sys) \cup FakeActions(sys))
EdgeRecords(sys) ==
    {r \in RecordsFirst(sys) \cup MultipliedRecords(sys, RecordsFirst(sys)) :
        r.edge[1] \in TaskActions(sys) /\ r.edge[2] \in TaskActions(sys)}
PriorityEdges(sys) ==
    {<<ActionOf(sys, p, "configure"), ActionOf(sys, p, Head(Task(sys, p)))>> :
        p \in {q \in Packages(sys) : Len(Task(sys, q)) > 1}}

LEMMA FilledGraphIs ==
  ASSUME NEW sys
  PROVE  /\ FilledGraph(sys).actions = TaskActions(sys)
         /\ FilledGraph(sys).fundamental = FundamentalEdges(sys)
         /\ FilledGraph(sys).potential = {}
         /\ \A e \in Edges(FilledGraph(sys)) :
              /\ e \in FundamentalEdges(sys) \/ e \in PriorityEdges(sys) \/ \E r \in EdgeRecords(sys) : r.edge = e
              /\ \A i \in FilledGraph(sys).info[e] : \E r \in EdgeRecords(sys) : r.edge = e /\ r.info = i
         /\ FundamentalEdges(sys) \subseteq Edges(FilledGraph(sys))
<1> DEFINE info == [e \in FundamentalEdges(sys) \cup PriorityEdges(sys) \cup {r.edge : r \in EdgeRecords(sys)} |->
                       {r.info : r \in {x \in EdgeRecords(sys) : x.edge = e}}]
<1>1. FilledGraph(sys).info = info
  BY DEF FilledGraph, RecordsFirst, EdgeRecords, PriorityEdges
<1>2. Edges(FilledGraph(sys)) = FundamentalEdges(sys) \cup PriorityEdges(sys) \cup {r.edge : r \in EdgeRecords(sys)}
  BY <1>1 DEF Edges
<1>3. \A e \in Edges(FilledGraph(sys)) :
         \A i \in FilledGraph(sys).info[e] : \E r \in EdgeRecords(sys) : r.edge = e /\ r.info = i
  BY <1>1, <1>2
<1>4. QED
  BY <1>2, <1>3 DEF FilledGraph

\* At first every edge is where it comes from.
LEMMA FilledIsSourced ==
  ASSUME NEW sys, IsSystem(sys)
  PROVE  Sourced(sys, FilledGraph(sys))
<1> DEFINE g == FilledGraph(sys)
<1>1. /\ g.actions = TaskActions(sys) /\ g.fundamental = FundamentalEdges(sys) /\ g.potential = {}
      /\ \A e \in Edges(g) :
           /\ e \in FundamentalEdges(sys) \/ e \in PriorityEdges(sys) \/ \E r \in EdgeRecords(sys) : r.edge = e
           /\ \A i \in g.info[e] : \E r \in EdgeRecords(sys) : r.edge = e /\ r.info = i
  BY FilledGraphIs
<1>2. \A r \in EdgeRecords(sys) :
         /\ r.edge = <<r.edge[1], r.edge[2]>> /\ HasFields(r.info)
         /\ r.edge[1] \in TaskActions(sys) /\ r.edge[2] \in TaskActions(sys)
         /\ TypeOf(r.edge[2]) = "remove" \/ TypeOf(r.edge[1]) = "configure" => IsDependency(r.info.type)
  BY AnyRecord DEF EdgeRecords, RecordsFirst
<1>3. \A e \in PriorityEdges(sys) : e = <<e[1], e[2]>> /\ e[1] \in TaskActions(sys) /\ e[2] \in TaskActions(sys)
  BY TaskEnds DEF PriorityEdges
<1> HIDE DEF g
<1>4. EdgesInside(g)
  <2> SUFFICES ASSUME NEW e \in Edges(g)
               PROVE  e = <<e[1], e[2]>> /\ e[1] \in TaskActions(sys) /\ e[2] \in TaskActions(sys)
    BY <1>1 DEF EdgesInside
  <2>1. CASE e \in FundamentalEdges(sys)
    BY <2>1, StepEdges
  <2>2. CASE e \in PriorityEdges(sys)
    BY <1>3, <2>2
  <2>3. CASE \E r \in EdgeRecords(sys) : r.edge = e
    BY <1>2, <2>3
  <2>4. QED
    BY <1>1, <2>1, <2>2, <2>3
<1>5. ASSUME NEW e \in Edges(g), NEW i \in g.info[e]
      PROVE  /\ HasFields(i)
             /\ RecordLevel(i) = Hard => e \in HardEdges(sys)
             /\ TypeOf(e[2]) = "remove" \/ TypeOf(e[1]) = "configure" => IsDependency(i.type)
  <2>1. RecordLevel(i) = Hard => LevelOf(g, e) >= Hard
    BY <1>5, LevelIs
  <2>2. PICK r \in EdgeRecords(sys) : r.edge = e /\ r.info = i
    BY <1>1, <1>5
  <2>3. QED
    BY <1>2, <1>5, <2>1, <2>2 DEF HardEdges, g
<1>6. QED
  BY <1>1, <1>4, <1>5 DEF Sourced, RecordsOK, g

-----------------------------------------------------------------------------
(***************************************************************************)
(* The passes keep the edges where they come from.                         *)
(***************************************************************************)
HasGraphFields(g) == {"actions", "fundamental", "info", "potential", "links"} \subseteq DOMAIN g
PairsInside(g, E) == \A e \in E : e = <<e[1], e[2]>> /\ e[1] \in g.actions /\ e[2] \in g.actions

LEMMA WithEdgesIs ==
  ASSUME NEW g, NEW new, HasGraphFields(g)
  PROVE  /\ HasGraphFields(WithEdges(g, new))
         /\ WithEdges(g, new).actions = g.actions
         /\ WithEdges(g, new).fundamental = g.fundamental
         /\ WithEdges(g, new).potential = g.potential
         /\ WithEdges(g, new).links = g.links
         /\ Edges(WithEdges(g, new)) = Edges(g) \cup new
         /\ \A e \in Edges(g) : WithEdges(g, new).info[e] = g.info[e]
         /\ \A e \in new \ Edges(g) : WithEdges(g, new).info[e] = {}
BY DEF WithEdges, Edges, HasGraphFields

LEMMA WithEdgesSourced ==
  ASSUME NEW sys, NEW g, Sourced(sys, g), HasGraphFields(g), NEW new, PairsInside(g, new)
  PROVE  Sourced(sys, WithEdges(g, new))
<1> DEFINE h == WithEdges(g, new)
<1>1. /\ h.actions = g.actions /\ h.fundamental = g.fundamental /\ h.potential = g.potential
      /\ Edges(h) = Edges(g) \cup new
      /\ \A e \in Edges(g) : h.info[e] = g.info[e]
      /\ \A e \in new \ Edges(g) : h.info[e] = {}
  BY WithEdgesIs
<1> HIDE DEF h
<1>2. EdgesInside(h)
  BY <1>1 DEF Sourced, EdgesInside, PairsInside
<1>3. \A e \in Edges(h) : RecordsOK(sys, e, h.info[e])
  <2>1. \A e : RecordsOK(sys, e, {})
    BY DEF RecordsOK
  <2>2. \A e \in Edges(g) : RecordsOK(sys, e, g.info[e])
    BY DEF Sourced
  <2>3. QED
    BY <1>1, <2>1, <2>2
<1>4. QED
  BY <1>1, <1>2, <1>3 DEF Sourced, h

\* The ends of the chain of a package.
LEMMA ChainEnds ==
  ASSUME NEW g, EdgesInside(g), NEW p, Unpacks(g, p)
  PROVE  /\ UnpackOf(g, p) \in g.actions /\ PackageOf(UnpackOf(g, p)) = p
         /\ FirstOf(g, p) \in g.actions /\ PackageOf(FirstOf(g, p)) = p
         /\ LastOf(g, p) \in g.actions /\ PackageOf(LastOf(g, p)) = p
<1> DEFINE u == UnpackOf(g, p)
           removals == {e[1] : e \in {x \in Edges(g) : x[2] = u /\ IsStep(x[1], u)}}
           configures == {e[2] : e \in {x \in Edges(g) : x[1] = u /\ IsStep(u, x[2])}}
<1>1. u \in g.actions /\ PackageOf(u) = p
  BY DEF UnpackOf, Unpacks
<1>2. /\ FirstOf(g, p) = IF removals = {} THEN u ELSE CHOOSE a \in removals : TRUE
      /\ LastOf(g, p) = IF configures = {} THEN u ELSE CHOOSE a \in configures : TRUE
  BY DEF FirstOf, LastOf
<1> HIDE DEF u
<1>3. \A a \in removals : a \in g.actions /\ PackageOf(a) = p
  BY <1>1 DEF EdgesInside, IsStep
<1>4. \A a \in configures : a \in g.actions /\ PackageOf(a) = p
  BY <1>1 DEF EdgesInside, IsStep
<1> HIDE DEF removals, configures
<1>5. QED
  BY <1>1, <1>2, <1>3, <1>4 DEF u

\* What has become virtual is not hard.
LEMMA VirtualRecord ==
  ASSUME NEW r, HasFields(r), IsDependency(r.type)
  PROVE  LET v == [r EXCEPT !.virtual = TRUE] IN HasFields(v) /\ IsDependency(v.type) /\ RecordLevel(v) # Hard
<1> DEFINE v == [r EXCEPT !.virtual = TRUE]
<1>1. DOMAIN v = DOMAIN r /\ v.virtual = TRUE /\ v.type = r.type
  BY DEF HasFields
<1> HIDE DEF v
<1>2. RecordLevel(v) # Hard
  BY <1>1, RecordLevelIs DEF IsDependency
<1>3. HasFields(v) /\ IsDependency(v.type)
  BY <1>1 DEF HasFields
<1>4. QED
  BY <1>2, <1>3 DEF v

MovedEdges(g, from, to) ==
    {e \in Edges(g) : e[2] = from /\ e[1] # to /\ CanBecomeVirtual(g, e, to, TRUE)} \cup
    {e \in Edges(g) : e[1] = to /\ e[2] # from /\ CanBecomeVirtual(g, e, from, FALSE)}
VirtualOnes(g, moved) == {[r EXCEPT !.virtual = TRUE] : r \in UNION {g.info[e] : e \in moved}}

LEMMA ExpandChainIs ==
  ASSUME NEW g, HasGraphFields(g), NEW p, NEW from, NEW to, from = FirstOf(g, p), to = LastOf(g, p),
         NEW moved, moved = MovedEdges(g, from, to)
  PROVE  \/ ExpandChain(g, p) = g
         \/ /\ FullyLinked(g, p)
            /\ HasGraphFields(ExpandChain(g, p))
            /\ ExpandChain(g, p).actions = g.actions
            /\ ExpandChain(g, p).fundamental = g.fundamental
            /\ ExpandChain(g, p).links = g.links
            /\ Edges(ExpandChain(g, p)) = (Edges(g) \cup {<<to, from>>}) \ moved
            /\ \A e \in Edges(ExpandChain(g, p)) :
                  \A r \in ExpandChain(g, p).info[e] :
                     (e \in Edges(g) /\ r \in g.info[e]) \/ (e = <<to, from>> /\ r \in VirtualOnes(g, moved))
            /\ \A m \in ExpandChain(g, p).potential :
                  m \in g.potential \/ (m.edge \in moved /\ m.info = g.info[m.edge])
<1> DEFINE wide == WithEdges(g, {<<to, from>>})
           virtual == VirtualOnes(g, moved)
           h == [wide EXCEPT
                    !.info = [e \in DOMAIN @ \ moved |-> IF e = <<to, from>> THEN @[e] \cup virtual ELSE @[e]],
                    !.potential = @ \cup {[at |-> <<to, from>>, edge |-> e, info |-> g.info[e]] : e \in moved}]
<1>1. ExpandChain(g, p) = IF ~FullyLinked(g, p) \/ moved = {} THEN g ELSE h
  BY DEF ExpandChain, MovedEdges, VirtualOnes
<1>2. /\ HasGraphFields(wide)
      /\ wide.actions = g.actions
      /\ wide.fundamental = g.fundamental
      /\ wide.potential = g.potential
      /\ wide.links = g.links
      /\ Edges(wide) = Edges(g) \cup {<<to, from>>}
      /\ \A e \in Edges(g) : wide.info[e] = g.info[e]
      /\ \A e \in {<<to, from>>} \ Edges(g) : wide.info[e] = {}
  BY WithEdgesIs
<1> HIDE DEF wide, virtual
<1>3. /\ DOMAIN h = DOMAIN wide
      /\ h.actions = wide.actions /\ h.fundamental = wide.fundamental /\ h.links = wide.links
      /\ h.info = [e \in Edges(wide) \ moved |->
                     IF e = <<to, from>> THEN wide.info[e] \cup virtual ELSE wide.info[e]]
      /\ h.potential = wide.potential \cup {[at |-> <<to, from>>, edge |-> e, info |-> g.info[e]] : e \in moved}
  BY <1>2 DEF HasGraphFields, Edges
<1> HIDE DEF h
<1>4. Edges(h) = Edges(wide) \ moved
  BY <1>3 DEF Edges
<1>5. \A e \in Edges(h) : \A r \in h.info[e] :
         (e \in Edges(g) /\ r \in g.info[e]) \/ (e = <<to, from>> /\ r \in virtual)
  BY <1>2, <1>3, <1>4
<1>6. \A m \in h.potential : m \in g.potential \/ (m.edge \in moved /\ m.info = g.info[m.edge])
  BY <1>2, <1>3
<1>7. QED
  BY <1>1, <1>2, <1>3, <1>4, <1>5, <1>6 DEF HasGraphFields, virtual

LEMMA ExpandChainSourced ==
  ASSUME NEW sys, NEW g, Sourced(sys, g), HasGraphFields(g), NEW p, Unpacks(g, p)
  PROVE  Sourced(sys, ExpandChain(g, p))
<1> DEFINE from == FirstOf(g, p)
           to == LastOf(g, p)
           moved == MovedEdges(g, from, to)
           h == ExpandChain(g, p)
<1>1. CASE h = g
  BY <1>1
<1>2. CASE h # g
  <2>1. /\ FullyLinked(g, p)
        /\ h.actions = g.actions /\ h.fundamental = g.fundamental
        /\ Edges(h) = (Edges(g) \cup {<<to, from>>}) \ moved
        /\ \A e \in Edges(h) : \A r \in h.info[e] :
              (e \in Edges(g) /\ r \in g.info[e]) \/ (e = <<to, from>> /\ r \in VirtualOnes(g, moved))
        /\ \A m \in h.potential : m \in g.potential \/ (m.edge \in moved /\ m.info = g.info[m.edge])
    BY <1>2, ExpandChainIs
  <2>2. /\ EdgesInside(g) /\ \A e \in Edges(g) : RecordsOK(sys, e, g.info[e])
        /\ from \in g.actions /\ to \in g.actions
    BY ChainEnds DEF Sourced
  <2>3. TypeOf(from) = "remove" /\ TypeOf(to) = "configure"
    BY <2>1 DEF FullyLinked
  <2>4. \A e \in moved : e \in Edges(g) /\ (e[2] = from \/ e[1] = to)
    BY DEF MovedEdges
  <2>5. \A r \in VirtualOnes(g, moved) : HasFields(r) /\ IsDependency(r.type) /\ RecordLevel(r) # Hard
    <3> SUFFICES ASSUME NEW e \in moved, NEW r \in g.info[e]
                 PROVE  LET v == [r EXCEPT !.virtual = TRUE]
                        IN  HasFields(v) /\ IsDependency(v.type) /\ RecordLevel(v) # Hard
      BY DEF VirtualOnes
    <3>1. HasFields(r) /\ IsDependency(r.type)
      BY <2>2, <2>3, <2>4 DEF RecordsOK
    <3>2. QED
      BY <3>1, VirtualRecord
  <2> HIDE DEF moved, h
  <2>6. \A e \in Edges(h) : RecordsOK(sys, e, h.info[e])
    <3> SUFFICES ASSUME NEW e \in Edges(h), NEW r \in h.info[e]
                 PROVE  /\ HasFields(r)
                        /\ RecordLevel(r) = Hard => e \in HardEdges(sys)
                        /\ TypeOf(e[2]) = "remove" \/ TypeOf(e[1]) = "configure" => IsDependency(r.type)
      BY DEF RecordsOK
    <3>1. CASE e \in Edges(g) /\ r \in g.info[e]
      BY <2>2, <3>1 DEF RecordsOK
    <3>2. CASE r \in VirtualOnes(g, moved)
      BY <2>5, <3>2
    <3>3. QED
      BY <2>1, <3>1, <3>2
  <2> HIDE DEF from, to
  <2>7. EdgesInside(h)
    BY <2>1, <2>2 DEF EdgesInside
  <2>8. \A m \in h.potential : m.edge = <<m.edge[1], m.edge[2]>> /\ RecordsOK(sys, m.edge, m.info)
    BY <2>1, <2>2, <2>4 DEF EdgesInside, Sourced
  <2>9. QED
    BY <2>1, <2>6, <2>7, <2>8 DEF Sourced, h
<1>3. QED
  BY <1>1, <1>2

LEMMA LinkWithPriorityIs ==
  ASSUME NEW g, EdgesInside(g), NEW p, Unpacks(g, p)
  PROVE  \/ LinkWithPriority(g, p) = g
         \/ \E new : /\ LinkWithPriority(g, p) = WithEdges(g, new)
                     /\ PairsInside(g, new)
                     /\ \A e \in new : e[2] = FirstOf(g, p) /\ e[1] \notin Reachable(g, FirstOf(g, p))
<1> DEFINE from == FirstOf(g, p)
           to == LastOf(g, p)
           late == {to} \cup ({UnpackOf(g, p)} \ {from})
           free == (UNION {Predecessors(g, a) : a \in late}) \ Reachable(g, from)
           new == {<<a, from>> : a \in free}
<1>1. LinkWithPriority(g, p) = IF <<to, from>> \in Edges(g) THEN g ELSE WithEdges(g, new)
  BY DEF LinkWithPriority
<1>2. from \in g.actions
  BY ChainEnds
<1>3. \A a \in free : a \in g.actions /\ a \notin Reachable(g, from)
  BY DEF Predecessors, EdgesInside
<1> HIDE DEF from, to, free
<1>4. \A e \in new : e = <<e[1], e[2]>> /\ e[1] \in g.actions /\ e[2] = from /\ e[1] \notin Reachable(g, from)
  BY <1>3
<1>5. PairsInside(g, new)
  BY <1>2, <1>4 DEF PairsInside
<1> HIDE DEF new
<1>6. QED
  BY <1>1, <1>4, <1>5 DEF from

LEMMA LinkedIs ==
  ASSUME NEW g, HasGraphFields(g), NEW links
  PROVE  LET new == {<<l[2], l[1]>> : l \in links}
         IN  /\ Linked(g, links).actions = g.actions
             /\ Linked(g, links).fundamental = g.fundamental
             /\ Linked(g, links).potential = g.potential
             /\ Linked(g, links).links = g.links \cup links
             /\ Linked(g, links).info = WithEdges(g, new).info
<1> DEFINE new == {<<l[2], l[1]>> : l \in links}
           wide == WithEdges(g, new)
<1>1. /\ HasGraphFields(wide) /\ wide.actions = g.actions /\ wide.fundamental = g.fundamental
      /\ wide.potential = g.potential /\ wide.links = g.links
  BY WithEdgesIs
<1>2. Linked(g, links) = [wide EXCEPT !.links = @ \cup links]
  BY DEF Linked
<1> HIDE DEF wide
<1>3. QED
  BY <1>1, <1>2 DEF HasGraphFields, wide

-----------------------------------------------------------------------------
(***************************************************************************)
(* Circles.  Where no circle joins two packages, none of the passes makes  *)
(* one: a chain becomes a step back only where its links lead back anyway, *)
(* what its first action waits for is not reached from there, and links    *)
(* join neighbours of one package.                                         *)
(***************************************************************************)
ChainEdge(g, p) ==
    \E from, to \in g.actions :
        /\ TypeOf(from) = "remove" /\ TypeOf(to) = "configure"
        /\ PackageOf(from) = p /\ PackageOf(to) = p
        /\ <<to, from>> \in Edges(g)
LinksOK(g) ==
    \A l \in g.links : IsStep(l[1], l[2]) /\ (<<l[2], l[1]>> \in Edges(g) \/ ChainEdge(g, PackageOf(l[1])))

LEMMA MoreEdgesKeepLinks ==
  ASSUME NEW g, LinksOK(g), NEW h, h.actions = g.actions, Edges(g) \subseteq Edges(h), h.links = g.links
  PROVE  LinksOK(h)
BY DEF LinksOK, ChainEdge

LEMMA OneOfAKind ==
  ASSUME NEW sys, IsSystem(sys), NEW g, Sourced(sys, g), NEW a \in g.actions, NEW b \in g.actions,
         PackageOf(a) = PackageOf(b), TypeOf(a) = TypeOf(b)
  PROVE  a = b
BY ActionIs DEF Sourced

LEMMA WayBack ==
  ASSUME NEW sys, IsSystem(sys), NEW g, Sourced(sys, g), LinksOK(g), NEW p, Unpacks(g, p), FullyLinked(g, p)
  PROVE  FirstOf(g, p) \in Reachable(g, LastOf(g, p))
<1> DEFINE from == FirstOf(g, p)
           to == LastOf(g, p)
           u == UnpackOf(g, p)
<1>1. IsFiniteGraph(g) /\ EdgesInside(g)
  BY SourcedIsFinite DEF Sourced
<1>2. /\ u \in g.actions /\ PackageOf(u) = p
      /\ from \in g.actions /\ PackageOf(from) = p
      /\ to \in g.actions /\ PackageOf(to) = p
  BY <1>1, ChainEnds
<1>3. TypeOf(from) = "remove" /\ TypeOf(to) = "configure" /\ <<from, u>> \in g.links /\ <<u, to>> \in g.links
  BY DEF FullyLinked
<1> HIDE DEF from, to, u
<1>4. \/ ChainEdge(g, p)
      \/ <<u, from>> \in Edges(g) /\ <<to, u>> \in Edges(g)
  BY <1>2, <1>3 DEF LinksOK
<1>5. to \in Reachable(g, to) /\ Closed(g, Reachable(g, to))
  BY <1>1, <1>2, ReachableFacts
<1>6. CASE ChainEdge(g, p)
  <2>1. PICK a \in g.actions, b \in g.actions :
            /\ TypeOf(a) = "remove" /\ TypeOf(b) = "configure"
            /\ PackageOf(a) = p /\ PackageOf(b) = p
            /\ <<b, a>> \in Edges(g)
    BY <1>6 DEF ChainEdge
  <2>2. a = from /\ b = to
    BY <1>2, <1>3, <2>1, OneOfAKind
  <2>3. QED
    BY <1>5, <2>1, <2>2 DEF Closed, from, to
<1>7. CASE <<u, from>> \in Edges(g) /\ <<to, u>> \in Edges(g)
  BY <1>5, <1>7 DEF Closed, from, to
<1>8. QED
  BY <1>4, <1>6, <1>7

LEMMA ExpandChainKeeps ==
  ASSUME NEW sys, IsSystem(sys), NEW g, Sourced(sys, g), LinksOK(g), HasGraphFields(g), NEW p, Unpacks(g, p)
  PROVE  /\ LinksOK(ExpandChain(g, p))
         /\ AllSingle(g) => AllSingle(ExpandChain(g, p))
<1> DEFINE from == FirstOf(g, p)
           to == LastOf(g, p)
           moved == MovedEdges(g, from, to)
           h == ExpandChain(g, p)
<1>1. CASE h = g
  BY <1>1
<1>2. CASE h # g
  <2>1. /\ FullyLinked(g, p)
        /\ h.actions = g.actions /\ h.links = g.links
        /\ Edges(h) = (Edges(g) \cup {<<to, from>>}) \ moved
    BY <1>2, ExpandChainIs
  <2>2. /\ from \in g.actions /\ PackageOf(from) = p /\ TypeOf(from) = "remove"
        /\ to \in g.actions /\ PackageOf(to) = p /\ TypeOf(to) = "configure"
    BY <2>1, ChainEnds DEF Sourced, FullyLinked
  <2>3. \A e \in moved : (e[2] = from /\ e[1] # to) \/ (e[1] = to /\ e[2] # from)
    BY DEF MovedEdges
  <2>4. IsFiniteGraph(g) /\ IsFiniteGraph(h)
    <3>1. Sourced(sys, h)
      BY ExpandChainSourced
    <3>2. QED
      BY <3>1, SourcedIsFinite
  <2>5. from \in Reachable(g, to)
    BY <2>1, WayBack
  <2> HIDE DEF moved, h, from, to
  <2>6. <<to, from>> \in Edges(h)
    BY <2>1, <2>3
  <2>7. ChainEdge(h, p)
    BY <2>1, <2>2, <2>6 DEF ChainEdge
  <2>8. ASSUME NEW q, ChainEdge(g, q)
        PROVE  ChainEdge(h, q)
    <3>1. PICK a \in g.actions, b \in g.actions :
              /\ TypeOf(a) = "remove" /\ TypeOf(b) = "configure"
              /\ PackageOf(a) = q /\ PackageOf(b) = q
              /\ <<b, a>> \in Edges(g)
      BY <2>8 DEF ChainEdge
    <3>2. CASE <<b, a>> \in moved
      <4>1. a = from \/ b = to
        BY <2>3, <3>2
      <4>2. q = p
        BY <2>2, <3>1, <4>1
      <4>3. QED
        BY <2>7, <4>2
    <3>3. CASE <<b, a>> \notin moved
      BY <2>1, <3>1, <3>3 DEF ChainEdge
    <3>4. QED
      BY <3>2, <3>3
  <2>9. LinksOK(h)
    <3> SUFFICES ASSUME NEW l \in g.links
                 PROVE  IsStep(l[1], l[2]) /\ (<<l[2], l[1]>> \in Edges(h) \/ ChainEdge(h, PackageOf(l[1])))
      BY <2>1 DEF LinksOK
    <3>1. IsStep(l[1], l[2]) /\ (<<l[2], l[1]>> \in Edges(g) \/ ChainEdge(g, PackageOf(l[1])))
      BY DEF LinksOK
    <3>2. CASE <<l[2], l[1]>> \in moved
      <4>1. l[1] = from \/ l[2] = to
        BY <2>3, <3>2
      <4>2. PackageOf(l[1]) = p
        BY <2>2, <3>1, <4>1 DEF IsStep
      <4>3. QED
        BY <2>7, <3>1, <4>2
    <3>3. CASE <<l[2], l[1]>> \notin moved
      BY <2>1, <2>8, <3>1, <3>3
    <3>4. QED
      BY <3>2, <3>3
  <2>10. AllSingle(g) => AllSingle(h)
    <3>1. \A e \in Edges(h) : e \in Edges(g) \/ e[2] \in Reachable(g, e[1])
      BY <2>1, <2>5
    <3>2. QED
      BY <2>1, <2>4, <3>1, KnownWays
  <2>11. QED
    BY <2>9, <2>10 DEF h
<1>3. QED
  BY <1>1, <1>2

LEMMA LinkWithPriorityKeeps ==
  ASSUME NEW sys, IsSystem(sys), NEW g, Sourced(sys, g), LinksOK(g), HasGraphFields(g), NEW p, Unpacks(g, p)
  PROVE  /\ Sourced(sys, LinkWithPriority(g, p))
         /\ LinksOK(LinkWithPriority(g, p))
         /\ AllSingle(g) => AllSingle(LinkWithPriority(g, p))
<1> DEFINE from == FirstOf(g, p)
           h == LinkWithPriority(g, p)
<1>1. EdgesInside(g)
  BY DEF Sourced
<1>2. CASE h = g
  BY <1>2
<1>3. CASE h # g
  <2>1. PICK new : /\ h = WithEdges(g, new)
                   /\ PairsInside(g, new)
                   /\ \A e \in new : e[2] = from /\ e[1] \notin Reachable(g, from)
    BY <1>1, <1>3, LinkWithPriorityIs
  <2>2. from \in g.actions
    BY <1>1, ChainEnds
  <2> HIDE DEF h, from
  <2>3. Sourced(sys, h)
    BY <2>1, WithEdgesSourced
  <2>4. IsFiniteGraph(g) /\ IsFiniteGraph(h)
    BY <2>3, SourcedIsFinite
  <2>5. h.actions = g.actions /\ h.links = g.links /\ Edges(h) = Edges(g) \cup new
    BY <2>1, WithEdgesIs
  <2>6. LinksOK(h)
    BY <2>5, MoreEdgesKeepLinks
  <2>7. AllSingle(g) => AllSingle(h)
    BY <2>1, <2>2, <2>4, <2>5, WaysFromOutside
  <2>8. QED
    BY <2>3, <2>6, <2>7 DEF h
<1>4. QED
  BY <1>2, <1>3

LEMMA NewLinksAre ==
  ASSUME NEW g, NEW o, NEW l \in NewLinks(g, o)
  PROVE  /\ l[2] \in g.actions /\ IsStep(l[1], l[2])
         /\ \E i \in DOMAIN o : l[1] \in o[i] /\ (l[2] \in o[i] \/ (i < Len(o) /\ l[2] \in o[i + 1]))
<1> DEFINE Neighbours(i, a) ==
               IF i < Len(o) /\ (IF TypeOf(a) = "remove"
                                 THEN SinglePackage(o[i]) \/ SinglePackage(o[i + 1])
                                 ELSE SinglePackage(o[i]) /\ SinglePackage(o[i + 1]))
               THEN o[i] \cup o[i + 1] ELSE o[i]
           Found(i) == {ab \in o[i] \X g.actions : ab[2] \in Neighbours(i, ab[1]) /\ IsStep(ab[1], ab[2])}
<1>1. l \in UNION {Found(i) : i \in DOMAIN o}
  BY DEF NewLinks
<1>2. PICK i \in DOMAIN o : l \in Found(i)
  <2> HIDE DEF Found
  <2>1. QED
    BY <1>1
<1>3. l \in o[i] \X g.actions /\ l[2] \in Neighbours(i, l[1]) /\ IsStep(l[1], l[2])
  BY <1>2
<1>4. l[1] \in o[i] /\ l[2] \in g.actions
  BY <1>3
<1>5. l[2] \in o[i] \/ (i < Len(o) /\ l[2] \in o[i + 1])
  BY <1>3
<1>6. QED
  BY <1>3, <1>4, <1>5

LEMMA LinkedKeeps ==
  ASSUME NEW sys, IsSystem(sys), NEW g, Sourced(sys, g), LinksOK(g), HasGraphFields(g),
         NEW o, OrderOK(g, o), Chosen(o) = g.actions, \A i \in DOMAIN o : o[i] \in Components(g)
  PROVE  /\ Sourced(sys, Linked(g, NewLinks(g, o)))
         /\ LinksOK(Linked(g, NewLinks(g, o)))
         /\ AllSingle(g) => AllSingle(Linked(g, NewLinks(g, o)))
<1> DEFINE links == NewLinks(g, o)
           new == {<<l[2], l[1]>> : l \in links}
           wide == WithEdges(g, new)
           h == Linked(g, links)
<1>1. /\ h.actions = g.actions /\ h.fundamental = g.fundamental /\ h.potential = g.potential
      /\ h.links = g.links \cup links /\ h.info = wide.info
  BY LinkedIs
<1>2. /\ wide.actions = g.actions /\ wide.fundamental = g.fundamental /\ wide.potential = g.potential
      /\ Edges(wide) = Edges(g) \cup new
  BY WithEdgesIs
<1>3. \A l \in links :
         /\ l[2] \in g.actions /\ IsStep(l[1], l[2])
         /\ \E i \in DOMAIN o : l[1] \in o[i] /\ (l[2] \in o[i] \/ (i < Len(o) /\ l[2] \in o[i + 1]))
  BY NewLinksAre
<1>4. \A i \in DOMAIN o : o[i] \subseteq g.actions
  BY DEF OrderOK
<1>5. PairsInside(g, new)
  BY <1>3, <1>4 DEF PairsInside
<1>6. Sourced(sys, wide)
  BY <1>5, WithEdgesSourced
<1> HIDE DEF h, wide, links
<1>7. Edges(h) = Edges(g) \cup new
  BY <1>1, <1>2 DEF Edges
<1>8. Sourced(sys, h)
  <2>1. Edges(h) = Edges(wide)
    BY <1>1 DEF Edges
  <2> HIDE DEF new
  <2>2. QED
    BY <1>1, <1>2, <1>6, <2>1 DEF Sourced, EdgesInside
<1>9. LinksOK(h)
  <2> SUFFICES ASSUME NEW l \in h.links
               PROVE  IsStep(l[1], l[2]) /\ (<<l[2], l[1]>> \in Edges(h) \/ ChainEdge(h, PackageOf(l[1])))
    BY DEF LinksOK
  <2>1. CASE l \in links
    BY <1>3, <1>7, <2>1
  <2>2. CASE l \in g.links
    BY <1>1, <1>7, <2>2 DEF LinksOK, ChainEdge
  <2>3. QED
    BY <1>1, <2>1, <2>2
<1>10. ASSUME AllSingle(g)
       PROVE  AllSingle(h)
  <2>1. IsFiniteGraph(g) /\ IsFiniteGraph(h)
    BY <1>8, SourcedIsFinite
  <2>2. IsSeq(o) /\ Len(o) \in Nat /\ DOMAIN o = 1 .. Len(o)
    BY SeqFacts DEF OrderOK
  <2>3. \A i \in DOMAIN o : o[i] # {} /\ SamePackage(o[i], o[i])
    <3> SUFFICES ASSUME NEW i \in DOMAIN o
                 PROVE  o[i] # {} /\ SamePackage(o[i], o[i])
      OBVIOUS
    <3>1. o[i] # {} /\ IsFiniteSet(o[i])
      BY <2>1, ComponentIs
    <3>2. SinglePackage(o[i])
      BY <1>10, <2>1, SingleComponents
    <3>3. QED
      BY <3>1, <3>2, SingleMeansSame
  <2> DEFINE at == [a \in g.actions |-> CHOOSE i \in DOMAIN o : a \in o[i]]
  <2>4. /\ at \in [g.actions -> DOMAIN o]
        /\ \A a \in g.actions : a \in o[at[a]]
    BY ChosenFacts
  <2>5. \A i \in DOMAIN o : \A a \in o[i] : a \in g.actions /\ at[a] = i
    <3> SUFFICES ASSUME NEW i \in DOMAIN o, NEW a \in o[i]
                 PROVE  a \in g.actions /\ at[a] = i
      OBVIOUS
    <3>1. a \in g.actions
      BY <1>4
    <3>2. at[a] \in DOMAIN o /\ a \in o[at[a]]
      BY <2>4, <3>1
    <3>3. \A j, k \in DOMAIN o : j # k => o[j] \cap o[k] = {}
      BY DEF OrderOK
    <3> HIDE DEF at
    <3>4. QED
      BY <3>1, <3>2, <3>3
  <2> HIDE DEF at
  <2>6. ASSUME NEW e \in Edges(g)
        PROVE  at[e[1]] <= at[e[2]]
    <3>1. e[2] \in g.actions
      BY DEF Sourced, EdgesInside
    <3>2. e[2] \in o[at[e[2]]] /\ at[e[2]] \in DOMAIN o
      BY <2>4, <3>1
    <3>3. PICK j \in DOMAIN o : j <= at[e[2]] /\ e[1] \in o[j]
      BY <2>6, <3>2 DEF OrderOK
    <3>4. at[e[1]] = j
      BY <2>5, <3>3
    <3>5. QED
      BY <3>3, <3>4
  <2>7. ASSUME NEW l \in links
        PROVE  \/ at[l[2]] <= at[l[1]]
               \/ at[l[2]] = at[l[1]] + 1 /\ SamePackage(o[at[l[1]]], o[at[l[2]]])
    <3>1. PICK i \in DOMAIN o : l[1] \in o[i] /\ (l[2] \in o[i] \/ (i < Len(o) /\ l[2] \in o[i + 1]))
      BY <1>3, <2>7
    <3>2. at[l[1]] = i /\ i \in 1 .. Len(o)
      BY <2>2, <2>5, <3>1
    <3>3. CASE l[2] \in o[i]
      <4>1. at[l[2]] = i
        BY <2>5, <3>3
      <4>2. QED
        BY <2>2, <3>2, <4>1
    <3>4. CASE i < Len(o) /\ l[2] \in o[i + 1]
      <4>1. i + 1 \in DOMAIN o
        BY <2>2, <3>2, <3>4
      <4>2. at[l[2]] = i + 1
        BY <2>5, <3>4, <4>1
      <4>3. PackageOf(l[1]) = PackageOf(l[2])
        BY <1>3, <2>7 DEF IsStep
      <4>4. SamePackage(o[i], o[i + 1])
        BY <2>3, <3>1, <3>4, <4>1, <4>3 DEF SamePackage
      <4>5. QED
        BY <3>2, <4>2, <4>4
    <3>5. QED
      BY <3>1, <3>3, <3>4
  <2>8. \A e \in Edges(h) :
           \/ at[e[1]] <= at[e[2]]
           \/ at[e[1]] = at[e[2]] + 1 /\ SamePackage(o[at[e[2]]], o[at[e[1]]])
    BY <1>7, <2>6, <2>7
  <2>9. QED
    BY <1>1, <2>1, <2>2, <2>3, <2>4, <2>5, <2>8, WaysToNeighbours
<1>11. QED
  BY <1>8, <1>9, <1>10 DEF h, links

-----------------------------------------------------------------------------
(***************************************************************************)
(* The graph of one group without the edges below a level.                 *)
(***************************************************************************)
LEMMA MiniGraphIs ==
  ASSUME NEW g, NEW group, NEW level
  PROVE  LET mini == MiniGraph(g, group, level)
             Kept(e) == e \in Edges(g) /\ e[1] \in group /\ e[2] \in group /\ ~(LevelOf(g, e) < level)
             Strong(m) == /\ m \in g.potential /\ m.edge[1] \in group /\ m.edge[2] \in group
                          /\ InfoLevel(m.info) >= level
         IN  /\ mini.actions = group /\ mini.fundamental \subseteq g.fundamental /\ mini.links = {}
             /\ \A e \in Edges(mini) : Kept(e) \/ \E m : Strong(m) /\ m.edge = e
             /\ \A e \in Edges(mini) : \A r \in mini.info[e] :
                    (Kept(e) /\ r \in g.info[e]) \/ \E m : Strong(m) /\ m.edge = e /\ r \in m.info
             /\ mini.potential \subseteq g.potential
<1> DEFINE mini == MiniGraph(g, group, level)
           Inside(e) == {e[1], e[2]} \subseteq group
           ignored == Ignored(g, group, level)
           kept == {e \in Edges(g) : Inside(e)} \ ignored
           strong == {m \in g.potential : Inside(m.edge) /\ InfoLevel(m.info) >= level}
           restored == {m \in strong : m.at \in ignored}
<1>1. /\ mini.actions = group /\ mini.fundamental = g.fundamental \cap kept /\ mini.links = {}
      /\ mini.info = [e \in kept \cup {m.edge : m \in restored} |->
                        (IF e \in kept THEN g.info[e] ELSE {}) \cup
                        UNION {m.info : m \in {x \in restored : x.edge = e}}]
      /\ mini.potential = {m \in strong : m.at \in kept}
  BY DEF MiniGraph
<1>2. \A e \in kept : e \in Edges(g) /\ e[1] \in group /\ e[2] \in group /\ ~(LevelOf(g, e) < level)
  BY DEF Ignored
<1>3. \A m \in strong : m \in g.potential /\ m.edge[1] \in group /\ m.edge[2] \in group /\ InfoLevel(m.info) >= level
  OBVIOUS
<1>4. restored \subseteq strong /\ strong \subseteq g.potential
  OBVIOUS
<1> HIDE DEF mini, kept, strong, restored
<1>5. Edges(mini) = kept \cup {m.edge : m \in restored}
  BY <1>1 DEF Edges
<1>6. \A e \in Edges(mini) : \A r \in mini.info[e] :
         (e \in kept /\ r \in g.info[e]) \/ \E m \in restored : m.edge = e /\ r \in m.info
  BY <1>1, <1>5
<1>7. \A e \in Edges(mini) : e \in kept \/ \E m \in restored : m.edge = e
  BY <1>5
<1>8. QED
  BY <1>1, <1>2, <1>3, <1>4, <1>6, <1>7 DEF mini

LEMMA MiniGraphSourced ==
  ASSUME NEW sys, NEW g, Sourced(sys, g), NEW group, group \subseteq g.actions, NEW level
  PROVE  /\ Sourced(sys, MiniGraph(g, group, level))
         /\ LinksOK(MiniGraph(g, group, level))
<1> DEFINE mini == MiniGraph(g, group, level)
           Kept(e) == e \in Edges(g) /\ e[1] \in group /\ e[2] \in group /\ ~(LevelOf(g, e) < level)
           Strong(m) == /\ m \in g.potential /\ m.edge[1] \in group /\ m.edge[2] \in group
                        /\ InfoLevel(m.info) >= level
<1>1. /\ mini.actions = group /\ mini.fundamental \subseteq g.fundamental /\ mini.links = {}
      /\ \A e \in Edges(mini) : Kept(e) \/ \E m : Strong(m) /\ m.edge = e
      /\ \A e \in Edges(mini) : \A r \in mini.info[e] :
             (Kept(e) /\ r \in g.info[e]) \/ \E m : Strong(m) /\ m.edge = e /\ r \in m.info
      /\ mini.potential \subseteq g.potential
  BY MiniGraphIs
<1> HIDE DEF mini
<1>2. /\ EdgesInside(g) /\ g.actions \subseteq TaskActions(sys) /\ g.fundamental \subseteq FundamentalEdges(sys)
      /\ \A e \in Edges(g) : RecordsOK(sys, e, g.info[e])
      /\ \A m \in g.potential : m.edge = <<m.edge[1], m.edge[2]>> /\ RecordsOK(sys, m.edge, m.info)
  BY DEF Sourced
<1>3. EdgesInside(mini)
  <2> SUFFICES ASSUME NEW e \in Edges(mini)
               PROVE  e = <<e[1], e[2]>> /\ e[1] \in group /\ e[2] \in group
    BY <1>1 DEF EdgesInside
  <2>1. CASE Kept(e)
    BY <1>2, <2>1 DEF EdgesInside
  <2>2. CASE \E m : Strong(m) /\ m.edge = e
    <3>1. PICK m : Strong(m) /\ m.edge = e
      BY <2>2
    <3>2. QED
      BY <1>2, <3>1
  <2>3. QED
    BY <1>1, <2>1, <2>2
<1>4. \A e \in Edges(mini) : RecordsOK(sys, e, mini.info[e])
  <2> SUFFICES ASSUME NEW e \in Edges(mini), NEW r \in mini.info[e]
               PROVE  /\ HasFields(r)
                      /\ RecordLevel(r) = Hard => e \in HardEdges(sys)
                      /\ TypeOf(e[2]) = "remove" \/ TypeOf(e[1]) = "configure" => IsDependency(r.type)
    BY DEF RecordsOK
  <2>1. CASE Kept(e) /\ r \in g.info[e]
    <3>1. RecordsOK(sys, e, g.info[e])
      BY <1>2, <2>1
    <3>2. QED
      BY <2>1, <3>1 DEF RecordsOK
  <2>2. CASE \E m : Strong(m) /\ m.edge = e /\ r \in m.info
    <3>1. PICK m : Strong(m) /\ m.edge = e /\ r \in m.info
      BY <2>2
    <3>2. RecordsOK(sys, m.edge, m.info)
      BY <1>2, <3>1
    <3>3. QED
      BY <3>1, <3>2 DEF RecordsOK
  <2>3. QED
    BY <1>1, <2>1, <2>2
<1>5. Sourced(sys, mini)
  BY <1>1, <1>2, <1>3, <1>4 DEF Sourced
<1>6. LinksOK(mini)
  BY <1>1 DEF LinksOK
<1>7. QED
  BY <1>5, <1>6 DEF mini

LEMMA FundamentalIsHard ==
  ASSUME NEW sys
  PROVE  FundamentalEdges(sys) \subseteq HardEdges(sys)
<1> DEFINE g == FilledGraph(sys)
<1>1. g.fundamental = FundamentalEdges(sys) /\ FundamentalEdges(sys) \subseteq Edges(g)
  BY FilledGraphIs
<1> HIDE DEF g
<1>2. \A e \in g.fundamental : LevelOf(g, e) >= Hard
  BY LevelIs
<1>3. QED
  BY <1>1, <1>2 DEF HardEdges, g

\* What is left at the last level are edges which were hard at first.
LEMMA LastGraph ==
  ASSUME NEW sys, IsSystem(sys), NEW g, Sourced(sys, g), NEW group, group \subseteq g.actions,
         ~HardCircle(sys, group)
  PROVE  AllSingle(MiniGraph(g, group, Hard))
<1> DEFINE mini == MiniGraph(g, group, Hard)
           hard == HardGraph(sys, group)
           Kept(e) == e \in Edges(g) /\ e[1] \in group /\ e[2] \in group /\ ~(LevelOf(g, e) < Hard)
           Strong(m) == /\ m \in g.potential /\ m.edge[1] \in group /\ m.edge[2] \in group
                        /\ InfoLevel(m.info) >= Hard
<1>1. /\ mini.actions = group
      /\ \A e \in Edges(mini) : Kept(e) \/ \E m : Strong(m) /\ m.edge = e
  BY MiniGraphIs
<1>2. IsFiniteGraph(mini)
  BY MiniGraphSourced, SourcedIsFinite
<1>3. hard.actions = group /\ Edges(hard) = {e \in HardEdges(sys) : e[1] \in group /\ e[2] \in group}
  BY DEF HardGraph, Edges
<1> HIDE DEF mini, hard
<1>4. IsFiniteGraph(hard)
  <2>1. \A e \in HardEdges(sys) : e = <<e[1], e[2]>>
    BY FilledIsSourced DEF HardEdges, Sourced, EdgesInside
  <2>2. IsFiniteSet(group)
    BY <1>1, <1>2 DEF IsFiniteGraph
  <2>3. QED
    BY <1>3, <2>1, <2>2 DEF IsFiniteGraph, EdgesInside
<1>5. AllSingle(hard)
  <2>1. \A c \in Components(hard) : SinglePackage(c)
    BY DEF HardCircle, hard
  <2>2. QED
    BY <1>4, <2>1, SingleComponents
<1>6. \A e \in Edges(mini) : e \in Edges(hard)
  <2> SUFFICES ASSUME NEW e \in Edges(mini)
               PROVE  e \in HardEdges(sys) /\ e[1] \in group /\ e[2] \in group
    BY <1>3
  <2>1. CASE Kept(e)
    <3>1. LevelOf(g, e) >= Hard
      BY <2>1, LevelIs DEF Hard, Fundamental
    <3>2. e \in g.fundamental \/ \E r \in g.info[e] : RecordLevel(r) = Hard
      BY <3>1, LevelIs
    <3>3. RecordsOK(sys, e, g.info[e]) /\ g.fundamental \subseteq HardEdges(sys)
      BY <2>1, FundamentalIsHard DEF Sourced
    <3>4. QED
      BY <2>1, <3>2, <3>3 DEF RecordsOK
  <2>2. CASE \E m : Strong(m) /\ m.edge = e
    <3>1. PICK m : Strong(m) /\ m.edge = e
      BY <2>2
    <3>2. RecordsOK(sys, m.edge, m.info)
      BY <3>1 DEF Sourced
    <3>3. \E r \in m.info : RecordLevel(r) = Hard
      BY <3>1, InfoLevelIs
    <3>4. QED
      BY <3>1, <3>2, <3>3 DEF RecordsOK
  <2>3. QED
    BY <1>1, <2>1, <2>2
<1>7. AllSingle(mini)
  BY <1>1, <1>2, <1>3, <1>4, <1>5, <1>6, KnownWays
<1>8. QED
  BY <1>7 DEF mini

-----------------------------------------------------------------------------
(***************************************************************************)
(* The invariant: once the last level is split and there was no circle of  *)
(* hard relations, no circle joins two packages in the graph being sorted, *)
(* and nothing that is left waiting has to be split any further.           *)
(***************************************************************************)
GraphSourced ==
    /\ Sourced(system, graph)
    /\ LinksOK(graph)
    /\ item.level = Hard /\ ~HardCircle(system, item.actions) => AllSingle(graph)

CircleInv ==
    /\ item.level \in Priority .. Hard
    /\ Computing => /\ GraphSourced
                    /\ \A i \in DOMAIN order : order[i] \in Components(graph)
                    /\ \A i \in DOMAIN waiting : waiting[i].level <= item.level
    /\ \A i \in DOMAIN waiting : Sourced(system, waiting[i].graph)
    /\ \A i, j \in DOMAIN waiting : i <= j => waiting[j].level <= waiting[i].level
    /\ status = "splitting" => \A i \in DOMAIN waiting : waiting[i].level > Hard =>
            (~HardCircle(system, item.actions) => SinglePackage(waiting[i].actions))
    /\ GivesUpOnlyOnHardCycles

LEMMA GraphChangesCircles ==
  ASSUME SchedOK, CircleInv, Computing, GraphSourced', order' = <<>>,
         status' \in {"expanding", "prioritising", "sorting"}, UNCHANGED <<system, item, waiting>>
  PROVE  CircleInv'
<1>1. DOMAIN order' = {}
  BY EmptyFacts, SeqFacts
<1>2. status' # "splitting" /\ status' # "circular"
  OBVIOUS
<1>3. QED
  BY <1>1, <1>2 DEF CircleInv, Computing, GivesUpOnlyOnHardCycles

LEMMA ExpandKeepsCircles ==
  ASSUME IsSystem(system), SchedOK, CircleInv, Expand
  PROVE  CircleInv'
<1>1. /\ status = "expanding" /\ UNCHANGED <<system, item, order, waiting>>
      /\ graph' = IF Unpacks(graph, Head(todo)) THEN ExpandChain(graph, Head(todo)) ELSE graph
      /\ status' \in {"expanding", "prioritising"}
  BY DEF Expand, ForNextPackage
<1>2. Computing /\ order' = <<>>
  BY <1>1 DEF Computing, SchedOK
<1>3. GraphSourced /\ HasGraphFields(graph)
  BY <1>2 DEF CircleInv, SchedOK, GraphOK, HasGraphFields
<1>4. Sourced(system, graph') /\ LinksOK(graph') /\ (AllSingle(graph) => AllSingle(graph'))
  BY <1>1, <1>3, ExpandChainSourced, ExpandChainKeeps DEF GraphSourced
<1>5. GraphSourced'
  BY <1>1, <1>3, <1>4 DEF GraphSourced
<1>6. QED
  BY <1>1, <1>2, <1>5, GraphChangesCircles

LEMMA PrioritiseKeepsCircles ==
  ASSUME IsSystem(system), SchedOK, CircleInv, Prioritise
  PROVE  CircleInv'
<1>1. /\ status = "prioritising" /\ UNCHANGED <<system, item, order, waiting>>
      /\ graph' = IF Unpacks(graph, Head(todo)) THEN LinkWithPriority(graph, Head(todo)) ELSE graph
      /\ status' \in {"prioritising", "sorting"}
  BY DEF Prioritise, ForNextPackage
<1>2. Computing /\ order' = <<>>
  BY <1>1 DEF Computing, SchedOK
<1>3. GraphSourced /\ HasGraphFields(graph)
  BY <1>2 DEF CircleInv, SchedOK, GraphOK, HasGraphFields
<1>4. Sourced(system, graph') /\ LinksOK(graph') /\ (AllSingle(graph) => AllSingle(graph'))
  BY <1>1, <1>3, LinkWithPriorityKeeps DEF GraphSourced
<1>5. GraphSourced'
  BY <1>1, <1>3, <1>4 DEF GraphSourced
<1>6. QED
  BY <1>1, <1>2, <1>5, GraphChangesCircles

LEMMA SelectKeepsCircles ==
  ASSUME SchedOK, CircleInv, Select
  PROVE  CircleInv'
<1>1. status = "sorting" /\ UNCHANGED <<system, graph, item, waiting, status>>
  BY DEF Select
<1>2. PICK c \in Selectable(graph, order) : order' = Append(order, c)
  BY DEF Select
<1>3. Computing
  BY <1>1 DEF Computing
<1>4. IsSeq(order)
  BY <1>3 DEF SchedOK, OrderOK
<1>5. /\ IsSeq(order') /\ Len(order') = Len(order) + 1
      /\ \A i \in 1 .. Len(order) : order'[i] = order[i]
      /\ order'[Len(order) + 1] = c
  BY <1>2, <1>4, AppendFacts
<1>6. Len(order) \in Nat /\ DOMAIN order = 1 .. Len(order) /\ DOMAIN order' = 1 .. Len(order) + 1
  BY <1>4, <1>5, SeqFacts
<1>7. c \in Components(graph)
  BY <1>2 DEF Selectable
<1>8. \A i \in DOMAIN order' : i \in DOMAIN order \/ i = Len(order) + 1
  BY <1>6
<1>9. \A i \in DOMAIN order : order[i] \in Components(graph)
  BY <1>3 DEF CircleInv
<1>10. \A i \in DOMAIN order' : order'[i] \in Components(graph)
  BY <1>5, <1>6, <1>7, <1>8, <1>9
<1>11. Components(graph') = Components(graph)
  BY <1>1
<1>12. QED
  BY <1>1, <1>10, <1>11 DEF CircleInv, Computing, GraphSourced, GivesUpOnlyOnHardCycles

LEMMA LinkKeepsCircles ==
  ASSUME IsSystem(system), SchedOK, CircleInv, Link
  PROVE  CircleInv'
<1>1. /\ status = "sorting" /\ status' = "expanding" /\ order' = <<>>
      /\ UNCHANGED <<system, item, waiting>>
      /\ graph' = Linked(graph, NewLinks(graph, order)) /\ Chosen(order) = graph.actions
  BY DEF Link, Sorted
<1>2. Computing
  BY <1>1 DEF Computing
<1>3. /\ GraphSourced /\ HasGraphFields(graph) /\ OrderOK(graph, order)
      /\ \A i \in DOMAIN order : order[i] \in Components(graph)
  BY <1>2 DEF CircleInv, SchedOK, GraphOK, HasGraphFields
<1>4. Sourced(system, graph') /\ LinksOK(graph') /\ (AllSingle(graph) => AllSingle(graph'))
  BY <1>1, <1>3, LinkedKeeps DEF GraphSourced
<1>5. GraphSourced'
  BY <1>1, <1>3, <1>4 DEF GraphSourced
<1>6. QED
  BY <1>1, <1>2, <1>5, GraphChangesCircles

LEMMA FinishKeepsCircles ==
  ASSUME IsSystem(system), SchedOK, CircleInv, Finish
  PROVE  CircleInv'
<1> DEFINE o == Subgroups(item, graph, order)
           q == o \o waiting
<1>1. /\ status = "sorting" /\ status' = "splitting" /\ waiting' = q
      /\ UNCHANGED <<system, item>>
  BY DEF Finish, Sorted
<1>2. Computing /\ ~Computing'
  BY <1>1 DEF Computing
<1>3. /\ GraphSourced /\ item.level \in Priority .. Hard
      /\ \A i \in DOMAIN order : order[i] \in Components(graph)
      /\ \A i \in DOMAIN waiting : Sourced(system, waiting[i].graph) /\ waiting[i].level <= item.level
      /\ \A i, j \in DOMAIN waiting : i <= j => waiting[j].level <= waiting[i].level
  BY <1>2 DEF CircleInv
<1>4. IsSeq(waiting) /\ OrderOK(graph, order) /\ \A i \in DOMAIN waiting : waiting[i].level \in Nat
  BY <1>2 DEF SchedOK, WaitingOK
<1>5. IsSeq(order) /\ Len(order) \in Nat /\ DOMAIN order = 1 .. Len(order)
  BY <1>4, SeqFacts DEF OrderOK
<1>6. /\ o = [i \in 1 .. Len(order) |-> o[i]]
      /\ \A i \in DOMAIN order : o[i].actions = order[i] /\ o[i].graph = graph /\ o[i].level = item.level + 1
  BY <1>5 DEF Subgroups
<1> HIDE DEF o
<1>7. IsSeq(o) /\ Len(o) = Len(order)
  BY <1>5, <1>6, BuiltSeq
<1>8. /\ IsSeq(q) /\ Len(q) = Len(o) + Len(waiting)
      /\ \A i \in 1 .. Len(o) + Len(waiting) : q[i] = IF i <= Len(o) THEN o[i] ELSE waiting[i - Len(o)]
  BY <1>4, <1>7, ConcatFacts
<1> HIDE DEF q
<1>9. /\ Len(o) \in Nat /\ Len(waiting) \in Nat /\ DOMAIN o = 1 .. Len(o)
      /\ DOMAIN waiting = 1 .. Len(waiting) /\ DOMAIN q = 1 .. Len(o) + Len(waiting)
  BY <1>4, <1>7, <1>8, SeqFacts
<1>10. \A i \in DOMAIN q :
          \/ i <= Len(o) /\ i \in DOMAIN order /\ q[i] = o[i]
          \/ ~(i <= Len(o)) /\ i - Len(o) \in DOMAIN waiting /\ q[i] = waiting[i - Len(o)]
  BY <1>5, <1>7, <1>8, <1>9
<1>11. item.level \in Nat /\ item.level <= Hard /\ Hard \in Nat
  BY <1>3 DEF Priority, Hard
<1>12. \A i \in DOMAIN q : Sourced(system, q[i].graph)
  BY <1>3, <1>6, <1>10 DEF GraphSourced
<1>13. ASSUME NEW i \in DOMAIN q, NEW j \in DOMAIN q, i <= j
       PROVE  q[j].level <= q[i].level
  <2>1. CASE i <= Len(o) /\ j <= Len(o)
    <3>1. q[i].level = item.level + 1 /\ q[j].level = item.level + 1
      BY <1>6, <1>10, <2>1
    <3>2. item.level + 1 \in Nat
      BY <1>11
    <3>3. QED
      BY <3>1, <3>2
  <2>2. CASE i <= Len(o) /\ ~(j <= Len(o))
    <3>1. q[i].level = item.level + 1
      BY <1>6, <1>10, <2>2
    <3>2. q[j].level <= item.level /\ q[j].level \in Nat
      BY <1>3, <1>4, <1>10, <2>2
    <3>3. QED
      BY <1>11, <3>1, <3>2
  <2>3. CASE ~(i <= Len(o)) /\ ~(j <= Len(o))
    <3>1. i - Len(o) <= j - Len(o)
      BY <1>9, <1>13
    <3>2. QED
      BY <1>3, <1>10, <2>3, <3>1
  <2>4. CASE ~(i <= Len(o)) /\ j <= Len(o)
    BY <1>9, <1>13, <2>4
  <2>5. QED
    BY <2>1, <2>2, <2>3, <2>4
<1>14. ASSUME NEW i \in DOMAIN q, q[i].level > Hard, ~HardCircle(system, item.actions)
       PROVE  SinglePackage(q[i].actions)
  <2>1. CASE i <= Len(o)
    <3>1. i \in DOMAIN order /\ q[i].level = item.level + 1 /\ q[i].actions = order[i]
      BY <1>6, <1>10, <2>1
    <3>2. item.level = Hard
      BY <1>11, <1>14, <3>1
    <3>3. AllSingle(graph) /\ IsFiniteGraph(graph)
      BY <1>3, <1>14, <3>2, SourcedIsFinite DEF GraphSourced
    <3>4. QED
      BY <1>3, <3>1, <3>3, SingleComponents
  <2>2. CASE ~(i <= Len(o))
    <3>1. q[i].level <= item.level /\ q[i].level \in Nat
      BY <1>3, <1>4, <1>10, <2>2
    <3>2. QED
      BY <1>11, <1>14, <3>1
  <2>3. QED
    BY <2>1, <2>2
<1>15. status' # "circular"
  BY <1>1
<1>16. QED
  BY <1>1, <1>2, <1>3, <1>12, <1>13, <1>14, <1>15 DEF CircleInv, GivesUpOnlyOnHardCycles

\* What Keep and Split leave in the queue.
LEMMA RestOfWaiting ==
  ASSUME SchedOK, CircleInv, waiting # <<>>
  PROVE  /\ 1 \in DOMAIN waiting /\ Head(waiting) = waiting[1]
         /\ \A i \in DOMAIN Tail(waiting) : i + 1 \in DOMAIN waiting /\ Tail(waiting)[i] = waiting[i + 1]
         /\ \A i \in DOMAIN Tail(waiting) : Sourced(system, Tail(waiting)[i].graph)
         /\ \A i \in DOMAIN Tail(waiting) : Tail(waiting)[i].level <= Head(waiting).level
         /\ \A i, j \in DOMAIN Tail(waiting) : i <= j => Tail(waiting)[j].level <= Tail(waiting)[i].level
<1> DEFINE r == Tail(waiting)
<1>1. IsSeq(waiting)
  BY DEF SchedOK
<1>2. /\ IsSeq(r) /\ Len(r) = Len(waiting) - 1
      /\ \A i \in 1 .. Len(waiting) - 1 : r[i] = waiting[i + 1]
      /\ Head(waiting) = waiting[1] /\ Len(waiting) \in Nat \ {0}
  BY <1>1, TailFacts
<1> HIDE DEF r
<1>3. DOMAIN waiting = 1 .. Len(waiting) /\ DOMAIN r = 1 .. Len(waiting) - 1
  BY <1>1, <1>2, SeqFacts
<1>4. 1 \in DOMAIN waiting /\ \A i \in DOMAIN r : i + 1 \in DOMAIN waiting /\ r[i] = waiting[i + 1] /\ i \in Nat
  BY <1>2, <1>3
<1>5. /\ \A i \in DOMAIN waiting : Sourced(system, waiting[i].graph)
      /\ \A i, j \in DOMAIN waiting : i <= j => waiting[j].level <= waiting[i].level
  BY DEF CircleInv
<1>6. \A i \in DOMAIN r : r[i].level <= Head(waiting).level
  <2> SUFFICES ASSUME NEW i \in DOMAIN r PROVE r[i].level <= Head(waiting).level
    OBVIOUS
  <2>1. 1 <= i + 1
    BY <1>4
  <2>2. QED
    BY <1>2, <1>4, <1>5, <2>1
<1>7. \A i, j \in DOMAIN r : i <= j => r[j].level <= r[i].level
  <2> SUFFICES ASSUME NEW i \in DOMAIN r, NEW j \in DOMAIN r, i <= j PROVE r[j].level <= r[i].level
    OBVIOUS
  <2>1. i + 1 <= j + 1
    BY <1>4
  <2>2. QED
    BY <1>4, <1>5, <2>1
<1>8. QED
  BY <1>2, <1>4, <1>5, <1>6, <1>7 DEF r

LEMMA KeepKeepsCircles ==
  ASSUME SchedOK, CircleInv, Keep
  PROVE  CircleInv'
<1> DEFINE r == Tail(waiting)
<1>1. status = "splitting" /\ waiting # <<>> /\ waiting' = r /\ UNCHANGED <<system, item, status>>
  BY DEF Keep
<1>2. /\ \A i \in DOMAIN r : i + 1 \in DOMAIN waiting /\ r[i] = waiting[i + 1]
      /\ \A i \in DOMAIN r : Sourced(system, r[i].graph)
      /\ \A i, j \in DOMAIN r : i <= j => r[j].level <= r[i].level
  BY <1>1, RestOfWaiting
<1> HIDE DEF r
<1>3. ~Computing'
  BY <1>1 DEF Computing
<1>4. \A i \in DOMAIN r : r[i].level > Hard =>
         (~HardCircle(system, item.actions) => SinglePackage(r[i].actions))
  BY <1>1, <1>2 DEF CircleInv
<1>5. item.level \in Priority .. Hard
  BY DEF CircleInv
<1>6. QED
  BY <1>1, <1>2, <1>3, <1>4, <1>5 DEF CircleInv, GivesUpOnlyOnHardCycles

LEMMA SplitKeepsCircles ==
  ASSUME IsSystem(system), SchedOK, CircleInv, Split
  PROVE  CircleInv'
<1> DEFINE w == Head(waiting)
           r == Tail(waiting)
<1>1. /\ status = "splitting" /\ status' = "expanding" /\ waiting # <<>> /\ waiting' = r /\ w.level <= Hard
      /\ graph' = MiniGraph(w.graph, w.actions, w.level)
      /\ item' = Item(w, w.level, RemovedRelations(w.graph, w.actions, w.level))
      /\ UNCHANGED <<system, order>>
  BY DEF Split
<1>2. item'.actions = w.actions /\ item'.level = w.level
  BY <1>1 DEF Item
<1>3. /\ 1 \in DOMAIN waiting /\ w = waiting[1]
      /\ \A i \in DOMAIN r : Sourced(system, r[i].graph)
      /\ \A i \in DOMAIN r : r[i].level <= w.level
      /\ \A i, j \in DOMAIN r : i <= j => r[j].level <= r[i].level
  BY <1>1, RestOfWaiting
<1> HIDE DEF r, w
<1>4. /\ w.actions \subseteq w.graph.actions /\ w.level \in Nat
      /\ Sourced(system, w.graph)
  BY <1>3 DEF CircleInv, SchedOK, WaitingOK
<1>5. order' = <<>>
  BY <1>1 DEF SchedOK
<1>6. DOMAIN order' = {}
  BY <1>5, EmptyFacts, SeqFacts
<1>7. Sourced(system, graph') /\ LinksOK(graph')
  BY <1>1, <1>4, MiniGraphSourced
<1>8. w.level = Hard /\ ~HardCircle(system, w.actions) => AllSingle(graph')
  BY <1>1, <1>4, LastGraph
<1>9. GraphSourced'
  BY <1>1, <1>2, <1>7, <1>8 DEF GraphSourced
<1>10. item'.level \in Priority .. Hard
  BY <1>1, <1>2, <1>4 DEF Priority, Hard
<1>11. status' # "splitting" /\ status' # "circular"
  BY <1>1
<1>12. QED
  BY <1>1, <1>2, <1>3, <1>6, <1>9, <1>10, <1>11 DEF CircleInv, GivesUpOnlyOnHardCycles

LEMMA ComputationKeepsCircles ==
  ASSUME IsSystem(system), SchedOK, CircleInv, Next
  PROVE  CircleInv'
<1>1. CASE Expand
  BY <1>1, ExpandKeepsCircles
<1>2. CASE Prioritise
  BY <1>2, PrioritiseKeepsCircles
<1>3. CASE Select
  BY <1>3, SelectKeepsCircles
<1>4. CASE Link
  BY <1>4, LinkKeepsCircles
<1>5. CASE Finish
  BY <1>5, FinishKeepsCircles
<1>6. CASE Keep
  BY <1>6, KeepKeepsCircles
<1>7. CASE Split
  BY <1>7, SplitKeepsCircles
<1>8. CASE GiveUp
  <2> DEFINE w == Head(waiting)
  <2>1. /\ status = "splitting" /\ status' = "circular" /\ waiting # <<>>
        /\ ~Allowed(w.actions) /\ w.level > Hard
        /\ UNCHANGED <<system, graph, order, item, waiting>>
    BY <1>8 DEF GiveUp
  <2>2. 1 \in DOMAIN waiting /\ w = waiting[1]
    BY <2>1, RestOfWaiting
  <2> HIDE DEF w
  <2>3. ~SinglePackage(w.actions)
    BY <2>1 DEF Allowed
  <2>4. HardCircle(system, item.actions)
    BY <2>1, <2>2, <2>3 DEF CircleInv
  <2>5. GivesUpOnlyOnHardCycles'
    BY <2>1, <2>4 DEF GivesUpOnlyOnHardCycles
  <2>6. ~Computing'
    BY <2>1 DEF Computing
  <2>7. QED
    BY <2>1, <2>5, <2>6 DEF CircleInv
<1>9. CASE Schedule
  <2>1. status = "splitting" /\ status' = "scheduled" /\ UNCHANGED <<system, graph, order, item, waiting>>
    BY <1>9 DEF Schedule
  <2>2. ~Computing' /\ status' # "splitting" /\ status' # "circular"
    BY <2>1 DEF Computing
  <2>3. QED
    BY <2>1, <2>2 DEF CircleInv, GivesUpOnlyOnHardCycles
<1>10. QED
  BY <1>1, <1>2, <1>3, <1>4, <1>5, <1>6, <1>7, <1>8, <1>9 DEF Next

LEMMA StartedIsSourced ==
  ASSUME NEW sys, IsSystem(sys)
  PROVE  /\ Sourced(sys, Started(sys).graph) /\ LinksOK(Started(sys).graph)
         /\ Started(sys).item.level = Priority
<1>1. Started(sys).graph = FilledGraph(sys) /\ Started(sys).item.level = Priority
  BY DEF Started, Item
<1>2. FilledGraph(sys).links = {}
  BY DEF FilledGraph
<1>3. Sourced(sys, FilledGraph(sys))
  BY FilledIsSourced
<1>4. QED
  BY <1>1, <1>2, <1>3 DEF LinksOK

LEMMA CirclesAtStart ==
  ASSUME IsSystem(system), graph = Started(system).graph, item = Started(system).item,
         order = <<>>, waiting = <<>>, status = "expanding"
  PROVE  CircleInv
<1>1. Sourced(system, graph) /\ LinksOK(graph) /\ item.level = Priority
  BY StartedIsSourced
<1>2. GraphSourced
  BY <1>1 DEF GraphSourced, Priority, Hard
<1>3. DOMAIN order = {} /\ DOMAIN waiting = {}
  BY EmptyFacts, SeqFacts
<1>4. item.level \in Priority .. Hard
  BY <1>1 DEF Priority, Hard
<1>5. QED
  BY <1>2, <1>3, <1>4 DEF CircleInv, GivesUpOnlyOnHardCycles

LEMMA CirclesUnchanged ==
  ASSUME CircleInv, UNCHANGED vars
  PROVE  CircleInv'
BY DEF CircleInv, GraphSourced, Computing, GivesUpOnlyOnHardCycles, vars

LEMMA CirclesAfterRestart ==
  ASSUME WorkerInv', RunAgain
  PROVE  CircleInv'
<1>1. /\ graph' = Started(system').graph /\ item' = Started(system').item
      /\ order' = <<>> /\ waiting' = <<>> /\ status' = "expanding"
  BY DEF RunAgain
<1>2. IsSystem(system')
  BY DEF WorkerInv, SystemOK
<1>3. Sourced(system', graph') /\ LinksOK(graph') /\ item'.level = Priority
  BY <1>1, <1>2, StartedIsSourced
<1>4. GraphSourced'
  BY <1>3 DEF GraphSourced, Priority, Hard
<1>5. DOMAIN order' = {} /\ DOMAIN waiting' = {}
  BY <1>1, EmptyFacts, SeqFacts
<1>6. item'.level \in Priority .. Hard
  BY <1>3 DEF Priority, Hard
<1>7. QED
  BY <1>1, <1>4, <1>5, <1>6 DEF CircleInv, GivesUpOnlyOnHardCycles

LEMMA WorkerKeepsCircles ==
  ASSUME WorkerInv, WorkerInv', CircleInv, [WorkerNext]_allVars
  PROVE  CircleInv'
<1>1. CASE Compute
  BY <1>1, ComputationKeepsCircles DEF Compute, WorkerInv, SystemOK
<1>2. CASE RunAgain
  BY <1>2, CirclesAfterRestart
<1>3. CASE UNCHANGED vars
  BY <1>3, CirclesUnchanged
<1>4. CASE WorkerNext /\ ~Compute /\ ~RunAgain
  <2>1. UNCHANGED vars
    BY <1>4 DEF WorkerNext, NothingToDo, CutIntoChangesets, StartChangeset, DownloadsFail, MarkBefore,
                DpkgSucceeds, DpkgRefuses, DpkgFails, MarkAfter, FinishChangeset, CleaningFails,
                MarkIndependent, Complete, Stop
  <2>2. QED
    BY <2>1, CirclesUnchanged
<1>5. QED
  BY <1>1, <1>2, <1>3, <1>4 DEF allVars

\* For every system, any relations and any number of runs: the worker gives a
\* schedule up only where relations that cannot be ignored make a circle
\* through several packages, in the group which it has split last.  No edge
\* that it adds for the order of a task, links, moves to the end of a chain or
\* brings back makes dpkg's work look impossible.
THEOREM GivesUpOnlyForCircles == WorkerSpec => []GivesUpOnlyOnHardCycles
<1>1. WorkerInit => CircleInv
  BY InvAtStart, CirclesAtStart DEF WorkerInit, Init, WorkerInv, SystemOK
<1>2. WorkerInv /\ WorkerInv' /\ CircleInv /\ [WorkerNext]_allVars => CircleInv'
  BY WorkerKeepsCircles
<1>3. CircleInv => GivesUpOnlyOnHardCycles
  BY DEF CircleInv
<1>4. QED
  BY Inductive, <1>1, <1>2, <1>3, PTL DEF WorkerSpec
=============================================================================
