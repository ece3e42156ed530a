---------------------------- MODULE VersionStrings ---------------------------
(***************************************************************************)
(* How version strings are compared (common/compareversions.cpp).  A       *)
(* string is a sequence of character codes.  Epoch, upstream version and   *)
(* revision are compared in turn, the latter two by runs of digits and of  *)
(* other characters.  A suffix which Cupt gave to a version to tell it     *)
(* from others of the same name takes no part.                             *)
(***************************************************************************)
EXTENDS Integers, Sequences, SequencesExt, FiniteSets, FiniteSetsExt, TLC

Tilde == 126  Plus == 43  Dash == 45  Dot == 46  Colon == 58  Suffix == 94
Zero == 48

IsDigit(c) == c \in 48..57
IsAlpha(c) == c \in (65..90) \cup (97..122)

\* A function is itself; TLC keeps the values of this one.
Kept(f) == f @@ <<>>

\* A finite set as the sequence in which a strict total order puts it.
Ranked(S, before(_, _)) ==
  Kept([k \in 1..Cardinality(S) |-> CHOOSE x \in S : Cardinality({y \in S : before(y, x)}) = k - 1])

Places(s, c) == {i \in DOMAIN s : s[i] = c}
OriginalLength(s) ==
  IF Places(s, Suffix) = {} THEN Len(s) ELSE Min(Places(s, Suffix)) - 1
getOriginalVersionString(s) == SubSeq(s, 1, OriginalLength(s))

\* __divide_versions_parts
Upstream(s) ==
  SubSeq(s, IF Places(s, Colon) = {} THEN 1 ELSE Min(Places(s, Colon)) + 1,
            IF Places(s, Dash) = {} THEN OriginalLength(s) ELSE Max(Places(s, Dash)) - 1)
Revision(s) ==
  IF Places(s, Dash) = {} THEN <<>>
  ELSE SubSeq(s, Max(Places(s, Dash)) + 1, OriginalLength(s))
Epoch(s) ==
  IF Places(s, Colon) = {} THEN 0
  ELSE FoldLeft(LAMBDA n, c : 10 * n + c - Zero, 0, SubSeq(s, 1, Min(Places(s, Colon)) - 1))

Sign(smaller) == IF smaller THEN -1 ELSE 1

\* __get_modified_ascii_value: "all alphas sort before others"
Weight(c) == IF IsAlpha(c) THEN c - 1000 ELSE c

\* The outcome of string mode at the first place where it stops.
ByWeight(c, d) == IsDigit(c) \/ (~IsDigit(d) /\ Weight(c) < Weight(d))
TildeFirst(c, d) == c = Tilde \/ (d # Tilde /\ ByWeight(c, d))
BeforeInString(c, d) == TildeFirst(c, d)

\* __consume_number
From(s, i) == SubSeq(s, i, Len(s))
WithoutZeroes(s) == From(s, Min({i \in 1..(Len(s) + 1) : i > Len(s) \/ s[i] # Zero}))
Digits(s) == SubSeq(s, 1, Min({i \in 1..(Len(s) + 1) : i > Len(s) \/ ~IsDigit(s[i])}) - 1)

RECURSIVE TextLess(_, _)
TextLess(s, t) ==
  \/ s = <<>> /\ t # <<>>
  \/ /\ s # <<>> /\ t # <<>>
     /\ s[1] < t[1] \/ (s[1] = t[1] /\ TextLess(Tail(s), Tail(t)))

\* The longer number is the greater; l and r start at the first digit that counts.
RECURSIVE ComparePart(_, _)
CompareNumbers(l, r, ln, rn) ==
  IF Len(ln) # Len(rn) THEN Sign(Len(ln) < Len(rn))
  ELSE IF ln # rn THEN Sign(TextLess(ln, rn))
  ELSE ComparePart(From(l, Len(ln) + 1), From(r, Len(rn) + 1))
NumberMode(l, r) == CompareNumbers(l, r, Digits(l), Digits(r))

\* __compare_version_part
Stop(l, r) ==
  Min({i \in 1..(Len(l) + Len(r) + 1) :
         \/ i > Len(l) \/ i > Len(r)
         \/ l[i] # r[i] \/ IsDigit(l[i])})
CompareAt(l, r, stop) ==
  IF stop > Len(l) /\ stop > Len(r) THEN 0
  ELSE IF stop > Len(r) THEN Sign(l[stop] = Tilde)
  ELSE IF stop > Len(l) THEN Sign(r[stop] # Tilde)
  ELSE IF IsDigit(l[stop]) /\ IsDigit(r[stop])
       THEN NumberMode(WithoutZeroes(From(l, stop)), WithoutZeroes(From(r, stop)))
  ELSE Sign(BeforeInString(l[stop], r[stop]))
ComparePart(l, r) == CompareAt(l, r, Stop(l, r))

\* A missing revision is "0".
OrZero(s) == IF s = <<>> THEN <<Zero>> ELSE s

Divided(s) == << Epoch(s), Upstream(s), OrZero(Revision(s)) >>
FirstOf(upstreamThenRevision) ==
  upstreamThenRevision[IF upstreamThenRevision[2] # 0 THEN 2 ELSE 3]
CompareDivided(l, r) ==
  IF l[1] # r[1] THEN Sign(l[1] < r[1])
  ELSE FirstOf([k \in 2..3 |-> ComparePart(l[k], r[k])])
compareVersionStrings(l, r) == CompareDivided(Divided(l), Divided(r))

-----------------------------------------------------------------------------
(* The order meant: the policy of Debian describes it by alternating parts; *)
(* here it is given by keys which are compared place by place.              *)

RECURSIVE Keys(_)
Keys(s) ==
  IF s = <<>> THEN << <<1, 0>> >>
  ELSE IF IsDigit(s[1])
       THEN << <<2, FoldLeft(LAMBDA n, c : 10 * n + c - Zero, 0, Digits(s))>> >>
              \o Keys(From(s, Len(Digits(s)) + 1))
  ELSE << <<IF s[1] = Tilde THEN 0 ELSE IF IsAlpha(s[1]) THEN 3 ELSE 4, s[1]>> >> \o Keys(Tail(s))

KeyLess(k, l) == k[1] < l[1] \/ (k[1] = l[1] /\ k[2] < l[2])
Meant(s, t) ==
  LET k == Keys(s)
      l == Keys(t)
      differ == {i \in DOMAIN k \cap DOMAIN l : k[i] # l[i]}
  IN  IF differ = {} THEN 0 ELSE Sign(KeyLess(k[Min(differ)], l[Min(differ)]))
=============================================================================
