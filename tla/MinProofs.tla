------------------------------ MODULE MinProofs -----------------------------
(* Least and greatest elements, for "the first rule that matches" and "the *)
(* first word that ends the name"; what it is to begin or to end a         *)
(* sequence, for networks, cgroups and wildcards.                          *)
EXTENDS Integers, FiniteSetsExt, SequencesExt, SequenceTheorems, WellFoundedInduction, TLAPS

----------------------------------------------------------------------------
(* Least and greatest elements.                                            *)

\* A non-empty set of naturals has a least element, which Min is.
LEMMA MinIsLeast ==
  ASSUME NEW S \in SUBSET Nat, S # {}
  PROVE  Min(S) \in S /\ \A k \in S : Min(S) <= k
<1>1. PICK m \in S : \A k \in S : ~ (<<k, m>> \in OpToRel(<, Nat))
  BY WFMin, NatLessThanWellFounded
<1>2. \A k \in S : ~ (k < m)
  BY <1>1 DEF OpToRel
<1>3. \A k \in S : m <= k
  BY <1>2
<1> QED BY <1>3 DEF Min

\* A non-empty set of naturals up to n has a greatest element, which Max is.
LEMMA MaxIsGreatest ==
  ASSUME NEW n \in Nat, NEW S \in SUBSET (0..n), S # {}
  PROVE  Max(S) \in S /\ \A k \in S : k <= Max(S)
<1> DEFINE bounds == {b \in 0..n : \A k \in S : k <= b}
           top    == Min(bounds)
<1>1. n \in bounds /\ bounds \in SUBSET Nat
  OBVIOUS
<1> HIDE DEF bounds
<1>2. top \in bounds /\ \A b \in bounds : top <= b
  BY <1>1, MinIsLeast
<1>3. top \in 0..n /\ \A k \in S : k <= top
  BY <1>2 DEF bounds
<1> HIDE DEF top
<1>4. top \in S
  <2> SUFFICES ASSUME top \notin S PROVE FALSE
    OBVIOUS
  <2>1. \A k \in S : k <= top - 1
    BY <1>3
  <2>2. top - 1 \in 0..n
    <3>1. PICK k \in S : TRUE
      OBVIOUS
    <3>2. k \in 0..n /\ k <= top - 1
      BY <2>1
    <3> QED BY <1>3, <3>2
  <2>3. top - 1 \in bounds
    BY <2>1, <2>2 DEF bounds
  <2> QED BY <1>2, <1>3, <2>3
<1>5. \A k \in S : top >= k
  BY <1>3
<1>6. S \subseteq Nat
  OBVIOUS
<1>7. Max(S) \in S /\ \A k \in S : Max(S) >= k
  BY <1>4, <1>5 DEF Max
<1> QED BY <1>6, <1>7

----------------------------------------------------------------------------
(* Beginnings and ends of sequences.                                       *)

\* A function on the numbers up to n is a sequence of n elements.
LEMMA FunctionIsSeq ==
  ASSUME NEW S, NEW n \in Nat, NEW f \in [1..n -> S]
  PROVE  f \in Seq(S) /\ Len(f) = n
<1>1. f \in Seq(S)
  BY SeqDef, Zenon
<1> QED BY <1>1, LenProperties

\* A sequence begins another when its elements are the first of the other.
LEMMA PrefixIsPointwise ==
  ASSUME NEW S, NEW s \in Seq(S), NEW t \in Seq(S)
  PROVE  IsPrefix(s, t) <=> Len(s) <= Len(t) /\ \A i \in 1..Len(s) : s[i] = t[i]
<1> DEFINE n == Len(s)
           u == SubSeq(t, 1, n)
<1>1. n \in Nat /\ Len(t) \in Nat /\ SubSeq(s, 1, n) = s
  BY LenProperties, SubSeqFull
<1>2. SUFFICES ASSUME n <= Len(t)
               PROVE  s = u <=> \A i \in 1..n : s[i] = t[i]
  BY <1>1 DEF IsPrefix
<1>3. u \in Seq(S) /\ Len(u) = n /\ \A i \in 1..n : u[i] = t[i]
  <2>1. \A i \in 1..n : t[i] \in S
    BY <1>1, <1>2, ElementOfSeq
  <2>2. /\ u \in Seq(S) /\ Len(u) = IF 1 <= n THEN n - 1 + 1 ELSE 0
        /\ \A i \in 1..(n - 1 + 1) : u[i] = t[1 + i - 1]
    BY <1>1, <2>1, SubSeqProperties
  <2>3. \A i \in 1..n : i \in 1..(n - 1 + 1) /\ 1 + i - 1 = i
    BY <1>1
  <2> HIDE DEF u
  <2> QED BY <1>1, <2>2, <2>3
<1> HIDE DEF u
<1>4. (\A i \in 1..n : s[i] = u[i]) => s = u
  BY <1>3, SeqEqual
<1> QED BY <1>3, <1>4

\* A sequence read backwards.
LEMMA ReverseIs ==
  ASSUME NEW S, NEW s \in Seq(S)
  PROVE  /\ Reverse(s) \in Seq(S) /\ Len(Reverse(s)) = Len(s)
         /\ \A i \in 1..Len(s) : Reverse(s)[i] = s[(Len(s) - i) + 1]
<1> DEFINE n == Len(s)
           r == Reverse(s)
<1>1. n \in Nat
  BY LenProperties
<1>2. r = [i \in 1..n |-> s[(n - i) + 1]]
  BY DEF Reverse
<1>3. \A i \in 1..n : s[(n - i) + 1] \in S
  <2>1. \A i \in 1..n : (n - i) + 1 \in 1..n
    BY <1>1
  <2> QED BY <1>1, <2>1, ElementOfSeq
<1>4. r \in [1..n -> S]
  BY <1>2, <1>3
<1> HIDE DEF n, r
<1>5. r \in Seq(S) /\ Len(r) = n
  BY <1>1, <1>4, SeqDef, LenProperties
<1> QED BY <1>2, <1>5 DEF n, r

\* A sequence ends another that is longer when its elements are the last of the
\* other.
LEMMA SuffixIsPointwise ==
  ASSUME NEW S, NEW s \in Seq(S), NEW t \in Seq(S)
  PROVE  IsStrictSuffix(s, t)
           <=> Len(s) < Len(t) /\ \A i \in 1..Len(s) : s[i] = t[(Len(t) - Len(s)) + i]
<1> DEFINE n == Len(s)
           m == Len(t)
           rs == Reverse(s)
           rt == Reverse(t)
           same == \A i \in 1..n : s[i] = t[(m - n) + i]
<1>1. n \in Nat /\ m \in Nat
  BY LenProperties
<1>2. /\ rs \in Seq(S) /\ Len(rs) = n /\ \A i \in 1..n : rs[i] = s[(n - i) + 1]
      /\ rt \in Seq(S) /\ Len(rt) = m /\ \A i \in 1..m : rt[i] = t[(m - i) + 1]
  BY ReverseIs
<1> HIDE DEF rs, rt
<1>3. IsPrefix(rs, rt) <=> n <= m /\ \A i \in 1..n : rs[i] = rt[i]
  BY <1>2, PrefixIsPointwise
<1>4. ASSUME n <= m PROVE (\A i \in 1..n : rs[i] = rt[i]) <=> same
  <2>1. \A i \in 1..n : /\ i \in 1..m /\ (n - i) + 1 \in 1..n
                        /\ (m - n) + ((n - i) + 1) = (m - i) + 1
                        /\ (n - ((n - i) + 1)) + 1 = i
    BY <1>1, <1>4
  <2>2. ASSUME same, NEW i \in 1..n PROVE rs[i] = rt[i]
    <3>1. s[(n - i) + 1] = t[(m - n) + ((n - i) + 1)]
      BY <2>1, <2>2
    <3> QED BY <1>2, <2>1, <3>1
  <2>3. ASSUME \A i \in 1..n : rs[i] = rt[i], NEW i \in 1..n PROVE s[i] = t[(m - n) + i]
    <3> DEFINE k == (n - i) + 1
    <3>1. /\ k \in 1..n /\ k \in 1..m /\ (n - k) + 1 = i /\ (m - k) + 1 = (m - n) + i
      BY <1>1, <1>4
    <3> HIDE DEF k
    <3>2. rs[k] = rt[k] /\ rs[k] = s[(n - k) + 1] /\ rt[k] = t[(m - k) + 1]
      BY <1>2, <2>3, <3>1
    <3> QED BY <3>1, <3>2
  <2> QED BY <2>2, <2>3
<1>5. n = m /\ same => s = t
  <2> SUFFICES ASSUME n = m, same PROVE s = t
    OBVIOUS
  <2>1. \A i \in 1..n : (m - n) + i = i
    BY <1>1
  <2>2. \A i \in 1..n : s[i] = t[i]
    BY <2>1
  <2> QED BY <2>2, SeqEqual
<1>6. n < m => s # t
  BY <1>1
<1>7. IsStrictSuffix(s, t) <=> IsPrefix(rs, rt) /\ s # t
  BY DEF IsStrictSuffix, IsSuffix, rs, rt
<1> HIDE DEF n, m, same
<1>8. n <= m /\ ~ (n = m) <=> n < m
  BY <1>1
<1>9. n < m => n <= m
  BY <1>1
<1>10. IsStrictSuffix(s, t) <=> n < m /\ same
  BY <1>3, <1>4, <1>5, <1>6, <1>7, <1>8, <1>9
<1> QED BY <1>10 DEF n, m, same
=============================================================================
