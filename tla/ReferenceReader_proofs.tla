------------------------ MODULE ReferenceReader_proofs ------------------------
(***************************************************************************)
(* Proofs about ReferenceReader and the codec it reads with, for every      *)
(* number of experts, capacity, shard, format and sequence of calls.        *)
(***************************************************************************)
EXTENDS ReferenceReader, SequenceTheorems, FiniteSetTheorems, WellFoundedInduction, TLAPS

-----------------------------------------------------------------------------
(* Sequences: taking an element out and adding one at the end                *)

Injective(s) == \A i, j \in 1..Len(s) : s[i] = s[j] => i = j
EndsWith(r, c) == /\ Len(c) <= Len(r)
                  /\ \A i \in 1..Len(c) : c[i] = r[Len(r) - Len(c) + i]

LEMMA MoveToEnd ==
    ASSUME NEW S, NEW s \in Seq(S), NEW i \in 1..Len(s), NEW e \in S
    PROVE  /\ Append(RemoveAt(s, i), e) \in Seq(S)
           /\ Len(Append(RemoveAt(s, i), e)) = Len(s)
           /\ \A k \in 1..Len(s) :
                 Append(RemoveAt(s, i), e)[k] =
                     IF k < i THEN s[k] ELSE IF k < Len(s) THEN s[k + 1] ELSE e
<1> DEFINE a == SubSeq(s, 1, i - 1)
           b == SubSeq(s, i + 1, Len(s))
<1>1. Len(s) \in Nat /\ \A k \in 1..Len(s) : s[k] \in S
  BY LenProperties, ElementOfSeq
<1>2. /\ a \in Seq(S) /\ Len(a) = i - 1
      /\ \A k \in 1..(i - 1) : a[k] = s[k]
  <2>1. \A k \in 1..(i - 1) : s[k] \in S
    BY <1>1
  <2>2. 1 \in Int /\ i - 1 \in Int
    BY <1>1
  <2> HIDE DEF a
  <2>3. /\ SubSeq(s, 1, i - 1) \in Seq(S)
        /\ Len(SubSeq(s, 1, i - 1)) = IF 1 <= i - 1 THEN i - 1 - 1 + 1 ELSE 0
        /\ \A k \in 1..(i - 1 - 1 + 1) : SubSeq(s, 1, i - 1)[k] = s[1 + k - 1]
    BY <2>1, <2>2, SubSeqProperties
  <2> QED
    BY <1>1, <2>3 DEF a
<1>3. /\ b \in Seq(S) /\ Len(b) = Len(s) - i
      /\ \A k \in 1..(Len(s) - i) : b[k] = s[i + k]
  <2>1. \A k \in (i + 1)..Len(s) : s[k] \in S
    BY <1>1
  <2>2. i + 1 \in Int /\ Len(s) \in Int
    BY <1>1
  <2> HIDE DEF b
  <2>3. /\ SubSeq(s, i + 1, Len(s)) \in Seq(S)
        /\ Len(SubSeq(s, i + 1, Len(s))) = IF i + 1 <= Len(s) THEN Len(s) - (i + 1) + 1 ELSE 0
        /\ \A k \in 1..(Len(s) - (i + 1) + 1) : SubSeq(s, i + 1, Len(s))[k] = s[i + 1 + k - 1]
    BY <2>1, <2>2, SubSeqProperties
  <2> QED
    BY <1>1, <2>3 DEF b
<1> HIDE DEF a, b
<1>4. /\ a \o b \in Seq(S) /\ Len(a \o b) = Len(s) - 1
      /\ \A k \in 1..(Len(s) - 1) : (a \o b)[k] = IF k < i THEN s[k] ELSE s[k + 1]
  <2>1. /\ a \o b \in Seq(S)
        /\ Len(a \o b) = Len(a) + Len(b)
        /\ \A k \in 1..(Len(a) + Len(b)) :
              (a \o b)[k] = IF k <= Len(a) THEN a[k] ELSE b[k - Len(a)]
    BY <1>2, <1>3, ConcatProperties
  <2>2. Len(a \o b) = Len(s) - 1
    BY <1>1, <1>2, <1>3, <2>1
  <2>3. ASSUME NEW k \in 1..(Len(s) - 1)
        PROVE  (a \o b)[k] = IF k < i THEN s[k] ELSE s[k + 1]
    <3>1. (a \o b)[k] = IF k <= Len(a) THEN a[k] ELSE b[k - Len(a)]
      BY <1>1, <2>1, <2>2
    <3>2. CASE k < i
      BY <1>1, <1>2, <3>1, <3>2
    <3>3. CASE ~(k < i)
      <4>1. k - Len(a) \in 1..(Len(s) - i) /\ i + (k - Len(a)) = k + 1 /\ ~(k <= Len(a))
        BY <1>1, <1>2, <3>3
      <4> QED
        BY <1>3, <3>1, <3>3, <4>1
    <3> QED
      BY <3>2, <3>3
  <2> QED
    BY <2>1, <2>2, <2>3
<1>5. RemoveAt(s, i) = a \o b
  BY DEF RemoveAt, a, b
<1>6. /\ Append(a \o b, e) \in Seq(S)
      /\ Len(Append(a \o b, e)) = Len(a \o b) + 1
      /\ \A k \in 1..Len(a \o b) : Append(a \o b, e)[k] = (a \o b)[k]
      /\ Append(a \o b, e)[Len(a \o b) + 1] = e
  BY <1>4, AppendProperties
<1>7. Len(Append(a \o b, e)) = Len(s)
  BY <1>1, <1>4, <1>6
<1>8. ASSUME NEW k \in 1..Len(s)
      PROVE  Append(a \o b, e)[k] = IF k < i THEN s[k] ELSE IF k < Len(s) THEN s[k + 1] ELSE e
  <2>1. CASE k < Len(s)
    <3>1. k \in 1..(Len(s) - 1) /\ k \in 1..Len(a \o b)
      BY <1>1, <1>4, <2>1
    <3> QED
      BY <1>4, <1>6, <2>1, <3>1
  <2>2. CASE ~(k < Len(s))
    <3>1. k = Len(s) /\ ~(k < i) /\ k = Len(a \o b) + 1
      BY <1>1, <1>4, <2>2
    <3> QED
      BY <1>6, <2>2, <3>1
  <2> QED
    BY <2>1, <2>2
<1> QED
  BY <1>5, <1>6, <1>7, <1>8

LEMMA RemoveFirstOf ==
    ASSUME NEW S, NEW s \in Seq(S), Injective(s), NEW e
    PROVE  /\ \A i \in 1..Len(s) : s[i] = e => RemoveFirst(s, e) = RemoveAt(s, i)
           /\ (\A i \in 1..Len(s) : s[i] # e) => RemoveFirst(s, e) = s
<1>1. ASSUME NEW i \in 1..Len(s), s[i] = e
      PROVE  RemoveFirst(s, e) = RemoveAt(s, i)
  <2>1. {k \in 1..Len(s) : s[k] = e} = {i}
    BY <1>1 DEF Injective
  <2>2. Min({i}) = i
    BY LenProperties DEF Min
  <2>3. SelectInSeq(s, LAMBDA v : v = e) = i
    BY <2>1, <2>2 DEF SelectInSeq
  <2> QED
    BY <1>1, <2>3 DEF RemoveFirst
<1>2. ASSUME \A i \in 1..Len(s) : s[i] # e
      PROVE  RemoveFirst(s, e) = s
  BY <1>2 DEF RemoveFirst
<1> QED
  BY <1>1, <1>2

\* What is touched is the last one, and a sequence stays the end of another one when
\* the same element is touched in both: one that it holds, or one that it does not.
Touch(s, e) == Append(RemoveFirst(s, e), e)

LEMMA TouchIn ==
    ASSUME NEW S, NEW r \in Seq(S), Injective(r), NEW i \in 1..Len(r), NEW e, e = r[i]
    PROVE  /\ Touch(r, e) \in Seq(S) /\ Len(Touch(r, e)) = Len(r)
           /\ \A k \in 1..Len(r) :
                 Touch(r, e)[k] = IF k < i THEN r[k] ELSE IF k < Len(r) THEN r[k + 1] ELSE e
<1>1. RemoveFirst(r, e) = RemoveAt(r, i)
  BY RemoveFirstOf
<1>2. e \in S
  BY ElementOfSeq
<1> QED
  BY <1>1, <1>2, MoveToEnd DEF Touch

LEMMA TouchOut ==
    ASSUME NEW S, NEW r \in Seq(S), Injective(r), NEW e \in S, \A i \in 1..Len(r) : r[i] # e
    PROVE  /\ Touch(r, e) \in Seq(S) /\ Len(Touch(r, e)) = Len(r) + 1
           /\ \A k \in 1..(Len(r) + 1) : Touch(r, e)[k] = IF k <= Len(r) THEN r[k] ELSE e
<1>1. RemoveFirst(r, e) = r
  BY RemoveFirstOf
<1>2. Len(r) \in Nat
  BY LenProperties
<1>3. /\ Append(r, e) \in Seq(S)
      /\ Len(Append(r, e)) = Len(r) + 1
      /\ \A k \in 1..Len(r) : Append(r, e)[k] = r[k]
      /\ Append(r, e)[Len(r) + 1] = e
  BY AppendProperties
<1>4. ASSUME NEW k \in 1..(Len(r) + 1)
      PROVE  Append(r, e)[k] = IF k <= Len(r) THEN r[k] ELSE e
  BY <1>2, <1>3
<1> QED
  BY <1>1, <1>3, <1>4 DEF Touch

LEMMA TouchTyped ==
    ASSUME NEW S, NEW r \in Seq(S), Injective(r), NEW e \in S
    PROVE  Touch(r, e) \in Seq(S) /\ Injective(Touch(r, e))
<1>1. Len(r) \in Nat
  BY LenProperties
<1>2. CASE \E i \in 1..Len(r) : r[i] = e
  <2>1. PICK i \in 1..Len(r) : e = r[i]
    BY <1>2
  <2>2. /\ Touch(r, e) \in Seq(S) /\ Len(Touch(r, e)) = Len(r)
        /\ \A k \in 1..Len(r) :
              Touch(r, e)[k] = IF k < i THEN r[k] ELSE IF k < Len(r) THEN r[k + 1] ELSE r[i]
    BY <2>1, TouchIn
  <2>3. ASSUME NEW j \in 1..Len(r), NEW k \in 1..Len(r), Touch(r, e)[j] = Touch(r, e)[k]
        PROVE  j = k
    <3> DEFINE at(n) == IF n < i THEN n ELSE IF n < Len(r) THEN n + 1 ELSE i
    <3>1. \A n \in 1..Len(r) : at(n) \in 1..Len(r) /\ Touch(r, e)[n] = r[at(n)]
      BY <1>1, <2>2
    <3>2. at(j) = at(k)
      BY <2>3, <3>1 DEF Injective
    <3> QED
      BY <1>1, <3>2
  <2> QED
    BY <2>2, <2>3 DEF Injective
<1>3. CASE \A i \in 1..Len(r) : r[i] # e
  <2>1. /\ Touch(r, e) \in Seq(S) /\ Len(Touch(r, e)) = Len(r) + 1
        /\ \A k \in 1..(Len(r) + 1) : Touch(r, e)[k] = IF k <= Len(r) THEN r[k] ELSE e
    BY <1>3, TouchOut
  <2>2. ASSUME NEW j \in 1..(Len(r) + 1), NEW k \in 1..(Len(r) + 1),
               Touch(r, e)[j] = Touch(r, e)[k]
        PROVE  j = k
    <3>1. Touch(r, e)[j] = (IF j <= Len(r) THEN r[j] ELSE e)
            /\ Touch(r, e)[k] = IF k <= Len(r) THEN r[k] ELSE e
      BY <2>1
    <3>2. (j <= Len(r) => j \in 1..Len(r)) /\ (k <= Len(r) => k \in 1..Len(r))
            /\ (~(j <= Len(r)) => j = Len(r) + 1) /\ (~(k <= Len(r)) => k = Len(r) + 1)
      BY <1>1
    <3> QED
      BY <1>3, <2>2, <3>1, <3>2 DEF Injective
  <2> QED
    BY <2>1, <2>2 DEF Injective
<1> QED
  BY <1>2, <1>3

LEMMA TouchedStays ==
    ASSUME NEW S, NEW r \in Seq(S), Injective(r), NEW c \in Seq(S), EndsWith(r, c),
           NEW i \in 1..Len(c), NEW e, e = c[i]
    PROVE  EndsWith(Touch(r, e), Append(RemoveAt(c, i), e))
<1> DEFINE j == Len(r) - Len(c) + i
<1>1. Len(r) \in Nat /\ Len(c) \in Nat /\ e \in S
  BY LenProperties, ElementOfSeq
<1>2. j \in 1..Len(r) /\ e = r[j]
  BY <1>1 DEF EndsWith
<1> HIDE DEF j
<1>3. /\ Len(Touch(r, e)) = Len(r)
      /\ \A k \in 1..Len(r) :
            Touch(r, e)[k] = IF k < j THEN r[k] ELSE IF k < Len(r) THEN r[k + 1] ELSE e
  BY <1>2, TouchIn
<1>4. /\ Len(Append(RemoveAt(c, i), e)) = Len(c)
      /\ \A k \in 1..Len(c) :
            Append(RemoveAt(c, i), e)[k] = IF k < i THEN c[k] ELSE IF k < Len(c) THEN c[k + 1] ELSE e
  <2> HIDE <1>2, <1>3
  <2>1. c \in Seq(S) /\ i \in 1..Len(c) /\ e \in S
    BY <1>1
  <2> QED
    BY ONLY <2>1, MoveToEnd
<1>5. ASSUME NEW k \in 1..Len(c)
      PROVE  Append(RemoveAt(c, i), e)[k] = Touch(r, e)[Len(r) - Len(c) + k]
  <2> DEFINE n == Len(r) - Len(c) + k
  <2>1. n \in 1..Len(r) /\ (n < j <=> k < i) /\ (n < Len(r) <=> k < Len(c))
          /\ n + 1 = Len(r) - Len(c) + (k + 1)
    BY <1>1 DEF EndsWith, j
  <2>2. c[k] = r[n] /\ (k < Len(c) => c[k + 1] = r[n + 1])
    <3>1. k < Len(c) => k + 1 \in 1..Len(c)
      BY <1>1
    <3> QED
      BY <2>1, <3>1 DEF EndsWith
  <2> HIDE DEF n
  <2>3. Append(RemoveAt(c, i), e)[k] = Touch(r, e)[n]
    BY <1>3, <1>4, <2>1, <2>2
  <2> QED
    BY <2>3 DEF n
<1> QED
  BY <1>1, <1>3, <1>4, <1>5 DEF EndsWith

LEMMA TouchedComes ==
    ASSUME NEW S, NEW r \in Seq(S), Injective(r), NEW c \in Seq(S), EndsWith(r, c),
           NEW e \in S, \A i \in 1..Len(c) : c[i] # e
    PROVE  EndsWith(Touch(r, e), Append(c, e))
<1>1. Len(r) \in Nat /\ Len(c) \in Nat /\ Len(c) <= Len(r)
  BY LenProperties DEF EndsWith
<1>2. /\ Len(Append(c, e)) = Len(c) + 1
      /\ \A k \in 1..Len(c) : Append(c, e)[k] = c[k]
      /\ Append(c, e)[Len(c) + 1] = e
  BY AppendProperties
<1>3. CASE \E j \in 1..Len(r) : r[j] = e
  <2>1. PICK j \in 1..Len(r) : e = r[j]
    BY <1>3
  <2>2. j <= Len(r) - Len(c)
    <3>1. ASSUME j > Len(r) - Len(c) PROVE FALSE
      <4>1. j - (Len(r) - Len(c)) \in 1..Len(c) /\ Len(r) - Len(c) + (j - (Len(r) - Len(c))) = j
        BY <1>1, <3>1
      <4> QED
        BY <2>1, <4>1 DEF EndsWith
    <3> QED
      BY <1>1, <3>1
  <2>3. /\ Len(Touch(r, e)) = Len(r)
        /\ \A k \in 1..Len(r) :
              Touch(r, e)[k] = IF k < j THEN r[k] ELSE IF k < Len(r) THEN r[k + 1] ELSE e
    BY <2>1, TouchIn
  <2>4. Len(Append(c, e)) <= Len(Touch(r, e))
    BY <1>1, <1>2, <2>2, <2>3
  <2>5. ASSUME NEW k \in 1..Len(Append(c, e))
        PROVE  Append(c, e)[k] = Touch(r, e)[Len(Touch(r, e)) - Len(Append(c, e)) + k]
    <3> DEFINE n == Len(r) - (Len(c) + 1) + k
    <3>1. n \in 1..Len(r) /\ ~(n < j) /\ (n < Len(r) <=> k <= Len(c)) /\ n + 1 = Len(r) - Len(c) + k
      BY <1>1, <1>2, <2>2
    <3>2. Touch(r, e)[n] = IF k <= Len(c) THEN r[Len(r) - Len(c) + k] ELSE e
      BY <2>3, <3>1
    <3>3. (k <= Len(c) => k \in 1..Len(c)) /\ (~(k <= Len(c)) => k = Len(c) + 1)
      BY <1>1, <1>2
    <3>4. k <= Len(c) => c[k] = r[Len(r) - Len(c) + k]
      BY <3>3 DEF EndsWith
    <3>5. Append(c, e)[k] = Touch(r, e)[n]
      BY <1>2, <3>2, <3>3, <3>4
    <3> QED
      BY <1>2, <2>3, <3>5
  <2> QED
    BY <2>4, <2>5 DEF EndsWith
<1>4. CASE \A j \in 1..Len(r) : r[j] # e
  <2>1. /\ Len(Touch(r, e)) = Len(r) + 1
        /\ \A k \in 1..(Len(r) + 1) : Touch(r, e)[k] = IF k <= Len(r) THEN r[k] ELSE e
    BY <1>4, TouchOut
  <2>2. ASSUME NEW k \in 1..Len(Append(c, e))
        PROVE  Append(c, e)[k] = Touch(r, e)[Len(Touch(r, e)) - Len(Append(c, e)) + k]
    <3> DEFINE n == Len(r) - Len(c) + k
    <3>1. n \in 1..(Len(r) + 1) /\ (n <= Len(r) <=> k <= Len(c))
            /\ Len(Touch(r, e)) - Len(Append(c, e)) + k = n
      BY <1>1, <1>2, <2>1
    <3>2. (k <= Len(c) => k \in 1..Len(c)) /\ (~(k <= Len(c)) => k = Len(c) + 1)
      BY <1>1, <1>2
    <3>3. k <= Len(c) => c[k] = r[n]
      BY <3>2 DEF EndsWith
    <3> HIDE DEF n
    <3>4. Touch(r, e)[n] = IF k <= Len(c) THEN r[n] ELSE e
      BY <2>1, <3>1
    <3> QED
      BY <1>2, <3>1, <3>2, <3>3, <3>4
  <2> QED
    BY <1>1, <1>2, <2>1, <2>2 DEF EndsWith
<1> QED
  BY <1>3, <1>4

-----------------------------------------------------------------------------
(* Induction                                                                 *)

\* A set of numbers that holds 0 and the successor of each of its numbers holds
\* them all: otherwise there is a least one it does not hold.
LEMMA SetInduction ==
    ASSUME NEW S \in SUBSET Nat, 0 \in S, \A n \in S : n + 1 \in S
    PROVE  S = Nat
<1> DEFINE R == {ss \in Nat \X Nat : ss[1] < ss[2]}
           T == Nat \ S
<1>1. IsWellFoundedOn(R, Nat)
  BY NatLessThanWellFounded DEF OpToRel
<1>2. ASSUME T # {} PROVE FALSE
  <2>1. T \subseteq Nat
    OBVIOUS
  <2> HIDE DEF R, T
  <2>2. PICK m \in T : \A k \in T : <<k, m>> \notin R
    BY <1>1, <1>2, <2>1, WFMin
  <2> USE DEF T
  <2>3. m \in Nat \ {0} /\ m - 1 \in Nat /\ m - 1 + 1 = m
    BY <2>2
  <2>4. m - 1 \notin S
    BY <2>2, <2>3
  <2>5. <<m - 1, m>> \in R
    BY <2>3 DEF R
  <2> QED
    BY <2>2, <2>3, <2>4, <2>5
<1> QED
  BY <1>2

\* A function of numbers that begins in a set and leaves it nowhere stays in it.
LEMMA StaysIn ==
    ASSUME NEW n \in Nat, NEW Q, NEW h, h[0] \in Q,
           \A l \in 1..n : h[l - 1] \in Q => h[l] \in Q
    PROVE  \A l \in 0..n : h[l] \in Q
<1> DEFINE T == {k \in Nat : k <= n => h[k] \in Q}
<1>1. 0 \in T
  OBVIOUS
<1>2. ASSUME NEW k \in T PROVE k + 1 \in T
  <2>1. k + 1 <= n => k + 1 \in 1..n /\ k + 1 - 1 = k /\ k <= n
    OBVIOUS
  <2> QED
    BY <2>1
<1>3. T \in SUBSET Nat
  OBVIOUS
<1> HIDE DEF T
<1>4. T = Nat
  BY <1>1, <1>2, <1>3, SetInduction
<1> QED
  BY <1>4 DEF T

\* Every step from a number to the next one is taken by a function.
FollowsUpTo(f, q, step, k) ==
    /\ f[0] = q
    /\ \A l \in 1..k : f[l] = step[l][f[l - 1]]

LEMMA RecursionExists ==
    ASSUME NEW n \in Nat, NEW Q, NEW q \in Q, NEW step \in [1..n -> [Q -> Q]]
    PROVE  \E f \in [0..n -> Q] : FollowsUpTo(f, q, step, n)
<1> DEFINE Exist(k) == \E f \in [0..k -> Q] : FollowsUpTo(f, q, step, k)
           T == {k \in Nat : k <= n => Exist(k)}
<1> HIDE DEF Exist
<1>1. 0 \in T
  <2> DEFINE f == [l \in 0..0 |-> q]
  <2>1. f \in [0..0 -> Q] /\ FollowsUpTo(f, q, step, 0)
    BY DEF FollowsUpTo
  <2> QED
    BY <2>1 DEF Exist
<1>2. ASSUME NEW k \in T PROVE k + 1 \in T
  <2> SUFFICES ASSUME k + 1 <= n PROVE Exist(k + 1)
    OBVIOUS
  <2>1. k \in Nat /\ k + 1 \in 1..n /\ Exist(k)
    OBVIOUS
  <2>2. PICK f \in [0..k -> Q] : FollowsUpTo(f, q, step, k)
    BY <2>1 DEF Exist
  <2> DEFINE g == [l \in 0..(k + 1) |-> IF l = k + 1 THEN step[k + 1][f[k]] ELSE f[l]]
  <2>3. g \in [0..(k + 1) -> Q]
    <3>1. step[k + 1] \in [Q -> Q] /\ f[k] \in Q
      BY <2>1
    <3> QED
      BY <2>1, <3>1
  <2>4. g[0] = q
    BY <2>1, <2>2 DEF FollowsUpTo
  <2>5. ASSUME NEW l \in 1..(k + 1) PROVE g[l] = step[l][g[l - 1]]
    <3>1. g[l - 1] = f[l - 1]
      BY <2>1
    <3>2. CASE l = k + 1
      BY <2>1, <3>1, <3>2
    <3>3. CASE l # k + 1
      <4>1. l \in 1..k /\ g[l] = f[l]
        BY <2>1, <3>3
      <4> QED
        BY <2>2, <3>1, <4>1 DEF FollowsUpTo
    <3> QED
      BY <3>2, <3>3
  <2> HIDE DEF g
  <2> QED
    BY <2>3, <2>4, <2>5 DEF Exist, FollowsUpTo
<1>3. T \in SUBSET Nat
  OBVIOUS
<1> HIDE DEF T
<1>4. T = Nat
  BY <1>1, <1>2, <1>3, SetInduction
<1> QED
  BY <1>4 DEF T, Exist

-----------------------------------------------------------------------------
(* Distinct                                                                  *)

Unless(q, x) == IF Contains(q, x) THEN q ELSE Append(q, x)

LEMMA UnlessKeeps ==
    ASSUME NEW S, NEW q \in Seq(S), Injective(q), NEW x \in S
    PROVE  Unless(q, x) \in Seq(S) /\ Injective(Unless(q, x))
<1>1. CASE Contains(q, x)
  BY <1>1 DEF Unless
<1>2. CASE ~Contains(q, x)
  <2>1. Len(q) \in Nat
    BY LenProperties
  <2>2. \A i \in 1..Len(q) : q[i] # x
    BY <1>2 DEF Contains
  <2>3. /\ Append(q, x) \in Seq(S)
        /\ Len(Append(q, x)) = Len(q) + 1
        /\ \A k \in 1..Len(q) : Append(q, x)[k] = q[k]
        /\ Append(q, x)[Len(q) + 1] = x
    BY AppendProperties
  <2>4. ASSUME NEW j \in 1..(Len(q) + 1), NEW k \in 1..(Len(q) + 1),
               Append(q, x)[j] = Append(q, x)[k]
        PROVE  j = k
    <3>1. (j \in 1..Len(q) \/ j = Len(q) + 1) /\ (k \in 1..Len(q) \/ k = Len(q) + 1)
      BY <2>1
    <3> QED
      BY <2>2, <2>3, <2>4, <3>1 DEF Injective
  <2> QED
    BY <1>2, <2>3, <2>4 DEF Unless, Injective
<1> QED
  BY <1>1, <1>2

LEMMA SeenExists ==
    ASSUME NEW S, NEW s \in Seq(S)
    PROVE  \E f : f = [l \in 0..Len(s) |-> IF l = 0 THEN <<>> ELSE Unless(f[l - 1], s[l])]
<1> DEFINE Q == {q \in Seq(S) : Injective(q)}
           step == [l \in 1..Len(s) |-> [q \in Q |-> Unless(q, s[l])]]
<1>1. Len(s) \in Nat /\ \A l \in 1..Len(s) : s[l] \in S
  BY LenProperties, ElementOfSeq
<1>2. <<>> \in Q
  BY EmptySeq DEF Injective
<1>3. \A l \in 1..Len(s) : \A q \in Q : Unless(q, s[l]) \in Q
  BY <1>1, UnlessKeeps
<1> HIDE DEF Q
<1>4. step \in [1..Len(s) -> [Q -> Q]]
  BY <1>3
<1> HIDE DEF step
<1>5. PICK f \in [0..Len(s) -> Q] : FollowsUpTo(f, <<>>, step, Len(s))
  BY <1>1, <1>2, <1>4, RecursionExists
<1>6. ASSUME NEW l \in 0..Len(s)
      PROVE  f[l] = IF l = 0 THEN <<>> ELSE Unless(f[l - 1], s[l])
  <2>1. CASE l = 0
    BY <1>5, <2>1 DEF FollowsUpTo
  <2>2. CASE l # 0
    <3>1. l \in 1..Len(s) /\ f[l - 1] \in Q
      BY <1>1, <2>2
    <3> QED
      BY <1>5, <2>2, <3>1 DEF FollowsUpTo, step
  <2> QED
    BY <2>1, <2>2
<1> QED
  BY <1>6

\* The ids of a call are each asked for once.
LEMMA DistinctIsInjective ==
    ASSUME NEW S, NEW s \in Seq(S)
    PROVE  Distinct(s) \in Seq(S) /\ Injective(Distinct(s))
<1>0. Len(s) \in Nat
  BY LenProperties
<1>1. PICK f : f = [l \in 0..Len(s) |-> IF l = 0 THEN <<>> ELSE Unless(f[l - 1], s[l])]
  BY SeenExists
<1>2. PICK g : /\ g = [l \in 0..Len(s) |-> IF l = 0 THEN <<>> ELSE Unless(g[l - 1], s[l])]
               /\ Distinct(s) = g[Len(s)]
  BY <1>1 DEF Distinct, Unless
<1> DEFINE Q == {q \in Seq(S) : Injective(q)}
<1>3. g[0] \in Q
  <2>1. g[0] = <<>>
    BY <1>0, <1>2
  <2> QED
    BY <2>1, EmptySeq DEF Injective
<1>4. ASSUME NEW l \in 1..Len(s), g[l - 1] \in Q PROVE g[l] \in Q
  <2>1. g[l] = Unless(g[l - 1], s[l]) /\ s[l] \in S
    BY <1>0, <1>2, ElementOfSeq
  <2> QED
    BY <1>4, <2>1, UnlessKeeps
<1>5. g[Len(s)] \in Q
  <2> HIDE DEF Q
  <2> QED
    <3>1. \A l \in 1..Len(s) : g[l - 1] \in Q => g[l] \in Q
      BY <1>4
    <3>2. \A l \in 0..Len(s) : g[l] \in Q
      BY <1>0, <1>3, <3>1, StaysIn
    <3> QED
      BY <1>0, <3>2
<1> QED
  BY <1>2, <1>5

-----------------------------------------------------------------------------
(* The inductive invariant of the cache                                      *)

\* Of the experts of a call, those already ensured.
DoneOf(a, t) == SubSeq(a, 1, Len(a) - Len(t))
IdsOf(c) == [i \in 1..Len(c) |-> c[i].expert]
CacheIds == IdsOf(cache)

CallTyped ==
    /\ sample \in Samples
    /\ recent \in Seq(Ids) /\ Injective(recent)
    /\ asked \in Seq(Ids) /\ Injective(asked) /\ Len(asked) <= Capacity
    /\ todo \in Seq(Ids)

\* What an expert's tensors are is of no concern here.
CacheTyped == \E S : cache \in Seq(S) /\ \A x \in S : x.expert \in Ids

LoadTyped ==
    \E A, T : load \in [expert : Ids \union {-1}, range : Nat \ {0}, got : Seq(A),
                        begun : BOOLEAN, tensors : T, before : T]

TodoIsRest == EndsWith(asked, todo)
DoneIsRecent == EndsWith(recent, DoneOf(asked, todo)) /\ Len(DoneOf(asked, todo)) <= Len(cache)
CacheIsRecent == EndsWith(recent, CacheIds) /\ Len(cache) <= Capacity

\* A load is of the next expert of the call, there is room for it and it is not resident.
LoadIsMiss ==
    Loading => /\ todo # <<>> /\ load.expert = Head(todo)
               /\ Len(cache) < Capacity
               /\ \A i \in 1..Len(cache) : cache[i].expert # load.expert

LruInv == /\ CallTyped /\ CacheTyped /\ LoadTyped
          /\ TodoIsRest /\ DoneIsRecent /\ CacheIsRecent /\ LoadIsMiss

-----------------------------------------------------------------------------
(* Calls                                                                     *)

LEMMA EmptyEnd == ASSUME NEW S, NEW a \in Seq(S) PROVE EndsWith(a, <<>>) /\ EndsWith(a, a)
<1>1. Len(a) \in Nat
  BY LenProperties
<1> QED
  BY <1>1 DEF EndsWith

LEMMA DoneTyped ==
    ASSUME NEW S, NEW a \in Seq(S), NEW t \in Seq(S), EndsWith(a, t)
    PROVE  /\ DoneOf(a, t) \in Seq(S) /\ Len(DoneOf(a, t)) = Len(a) - Len(t)
           /\ \A i \in 1..(Len(a) - Len(t)) : DoneOf(a, t)[i] = a[i]
<1>1. Len(a) \in Nat /\ Len(t) \in Nat /\ Len(t) <= Len(a)
  BY LenProperties DEF EndsWith
<1>2. \A i \in 1..(Len(a) - Len(t)) : a[i] \in S
  BY <1>1, ElementOfSeq
<1> DEFINE n == Len(a) - Len(t)
<1>3. 1 \in Int /\ n \in Int
  BY <1>1
<1> HIDE DEF n
<1>4. \A i \in 1..n : a[i] \in S
  BY <1>2 DEF n
<1>5. /\ SubSeq(a, 1, n) \in Seq(S)
      /\ Len(SubSeq(a, 1, n)) = IF 1 <= n THEN n - 1 + 1 ELSE 0
      /\ \A i \in 1..(n - 1 + 1) : SubSeq(a, 1, n)[i] = a[1 + i - 1]
  BY <1>3, <1>4, SubSeqProperties
<1>6. \A i \in 1..n : SubSeq(a, 1, n)[i] = a[i]
  BY <1>3, <1>5
<1>7. Len(SubSeq(a, 1, n)) = n
  BY <1>1, <1>3, <1>5 DEF n
<1> QED
  BY <1>5, <1>6, <1>7 DEF DoneOf, n

LEMMA NoneDone == ASSUME NEW S, NEW a \in Seq(S) PROVE DoneOf(a, a) = <<>>
<1>1. EndsWith(a, a) /\ Len(a) - Len(a) = 0
  BY EmptyEnd, LenProperties
<1>2. DoneOf(a, a) \in Seq(S) /\ Len(DoneOf(a, a)) = 0
  BY <1>1, DoneTyped
<1> QED
  BY <1>2

\* The next expert of a call is none of those it has got.
LEMMA NextOfCall ==
    ASSUME NEW S, NEW a \in Seq(S), Injective(a), NEW t \in Seq(S), EndsWith(a, t), t # <<>>
    PROVE  /\ Head(t) \in S /\ Tail(t) \in Seq(S) /\ EndsWith(a, Tail(t))
           /\ DoneOf(a, Tail(t)) = Append(DoneOf(a, t), Head(t))
           /\ \A i \in 1..Len(DoneOf(a, t)) : DoneOf(a, t)[i] # Head(t)
           /\ Len(DoneOf(a, t)) < Len(a)
<1>1. Len(a) \in Nat /\ Len(t) \in Nat \ {0} /\ Len(t) <= Len(a)
  BY LenProperties, EmptySeq DEF EndsWith
<1>2. /\ Head(t) \in S /\ Tail(t) \in Seq(S) /\ Len(Tail(t)) = Len(t) - 1
      /\ \A i \in 1..Len(Tail(t)) : Tail(t)[i] = t[i + 1]
  BY HeadTailProperties
<1>3. EndsWith(a, Tail(t))
  <2>1. Len(Tail(t)) <= Len(a)
    BY <1>1, <1>2
  <2>2. ASSUME NEW i \in 1..Len(Tail(t))
        PROVE  Tail(t)[i] = a[Len(a) - Len(Tail(t)) + i]
    <3>1. i + 1 \in 1..Len(t) /\ Len(a) - Len(t) + (i + 1) = Len(a) - Len(Tail(t)) + i
      BY <1>1, <1>2
    <3> QED
      BY <1>2, <3>1 DEF EndsWith
  <2> QED
    BY <2>1, <2>2 DEF EndsWith
<1> DEFINE d == DoneOf(a, t)
           x == DoneOf(a, Tail(t))
<1>4. /\ d \in Seq(S) /\ Len(d) = Len(a) - Len(t)
      /\ \A i \in 1..(Len(a) - Len(t)) : d[i] = a[i]
  BY DoneTyped
<1>5. /\ x \in Seq(S) /\ Len(x) = Len(a) - Len(Tail(t))
      /\ \A i \in 1..(Len(a) - Len(Tail(t))) : x[i] = a[i]
  BY <1>2, <1>3, DoneTyped
<1>6. Head(t) = a[Len(a) - Len(t) + 1]
  <2>1. Head(t) = t[1] /\ 1 \in 1..Len(t)
    BY <1>1
  <2> QED
    BY <2>1 DEF EndsWith
<1> HIDE DEF d, x
<1>7. /\ Append(d, Head(t)) \in Seq(S)
      /\ Len(Append(d, Head(t))) = Len(d) + 1
      /\ \A i \in 1..Len(d) : Append(d, Head(t))[i] = d[i]
      /\ Append(d, Head(t))[Len(d) + 1] = Head(t)
  <2> HIDE DEF x, d
  <2>1. d \in Seq(S) /\ Head(t) \in S
    BY <1>2, <1>4
  <2> QED
    BY ONLY <2>1, AppendProperties
<1>8. x = Append(d, Head(t))
  <2>1. Len(x) = Len(Append(d, Head(t)))
    BY <1>1, <1>2, <1>4, <1>5, <1>7
  <2>2. ASSUME NEW i \in 1..Len(x) PROVE x[i] = Append(d, Head(t))[i]
    <3>0. Len(x) = Len(d) + 1 /\ Len(d) \in Nat
      BY <1>1, <1>2, <1>4, <1>5
    <3>1. i \in 1..Len(d) \/ i = Len(d) + 1
      BY <3>0
    <3>2. x[i] = a[i]
      BY <1>5
    <3>3. CASE i \in 1..Len(d)
      BY <1>4, <1>7, <3>2, <3>3
    <3>4. CASE i = Len(d) + 1
      BY <1>4, <1>6, <1>7, <3>2, <3>4
    <3> QED
      BY <3>1, <3>3, <3>4
  <2> QED
    BY <1>5, <1>7, <2>1, <2>2, SeqEqual
<1>9. \A i \in 1..Len(d) : d[i] # Head(t)
  <2>1. ASSUME NEW i \in 1..Len(d), d[i] = Head(t) PROVE FALSE
    <3>1. i \in 1..Len(a) /\ Len(a) - Len(t) + 1 \in 1..Len(a) /\ i # Len(a) - Len(t) + 1
      BY <1>1, <1>4
    <3>2. a[i] = a[Len(a) - Len(t) + 1]
      BY <1>4, <1>6, <2>1
    <3> QED
      BY <3>1, <3>2 DEF Injective
  <2> QED
    BY <2>1
<1>10. Len(d) < Len(a)
  BY <1>1, <1>4
<1> QED
  BY <1>2, <1>3, <1>8, <1>9, <1>10 DEF d, x

-----------------------------------------------------------------------------
(* The steps that keep it                                                    *)

LEMMA IdsOfTyped ==
    ASSUME NEW S, NEW c \in Seq(S), \A x \in S : x.expert \in Ids
    PROVE  /\ IdsOf(c) \in Seq(Ids) /\ Len(IdsOf(c)) = Len(c)
           /\ \A i \in 1..Len(c) : IdsOf(c)[i] = c[i].expert
<1>1. Len(c) \in Nat /\ \A i \in 1..Len(c) : c[i] \in S
  BY LenProperties, ElementOfSeq
<1>2. \A i \in 1..Len(c) : c[i].expert \in Ids
  BY <1>1
<1> QED
  BY <1>1, <1>2 DEF IdsOf

LEMMA CacheIdsTyped == CacheTyped => /\ CacheIds \in Seq(Ids) /\ Len(CacheIds) = Len(cache)
                                     /\ Len(cache) \in Nat
                                     /\ \A i \in 1..Len(cache) : CacheIds[i] = cache[i].expert
  BY IdsOfTyped, LenProperties DEF CacheTyped, CacheIds

LEMMA CapacityTyped == Capacity \in Nat \ {0}
  BY ReaderAssumption

LEMMA LruInit == Init => LruInv
<1> SUFFICES ASSUME Init PROVE LruInv
  OBVIOUS
<1>1. \A S : <<>> \in Seq(S) /\ Injective(<<>>) /\ Len(<<>>) = 0
  BY EmptySeq DEF Injective
<1>2. CallTyped
  BY <1>1, ReaderAssumption DEF Init, CallTyped
<1>3. CacheTyped
  BY <1>1 DEF Init, CacheTyped
<1>4. LoadTyped
  <2>1. NotLoading \in [expert : Ids \union {-1}, range : Nat \ {0}, got : Seq({}),
                        begun : BOOLEAN, tensors : {NoTensors, 0}, before : {NoTensors, 0}]
    BY <1>1 DEF NotLoading
  <2> QED
    BY <2>1 DEF Init, LoadTyped
<1>5. EndsWith(<<>>, <<>>)
  BY <1>1 DEF EndsWith
<1>6. CacheIds = <<>>
  BY <1>1 DEF Init, CacheIds, IdsOf
<1>7. DoneOf(<<>>, <<>>) = <<>>
  BY <1>1, NoneDone
<1>8. TodoIsRest /\ DoneIsRecent /\ CacheIsRecent
  BY <1>1, <1>5, <1>6, <1>7, ReaderAssumption DEF Init, TodoIsRest, DoneIsRecent, CacheIsRecent
<1>9. LoadIsMiss
  BY DEF Init, LoadIsMiss, Loading, NotLoading, Ids
<1> QED
  BY <1>2, <1>3, <1>4, <1>8, <1>9 DEF LruInv

\* A call begins with nothing done, and ends with all of it.
LEMMA EnsureStep ==
    ASSUME LruInv, NEW route \in Routes(sample), Ensure(route)
    PROVE  LruInv'
<1>1. UNCHANGED <<sample, lru, load>> /\ asked = <<>>
  BY DEF Ensure, Idle, shard
<1>2. CASE UNCHANGED <<asked, todo>>
  BY <1>1, <1>2 DEF LruInv, CallTyped, CacheTyped, LoadTyped, TodoIsRest, DoneIsRecent,
     CacheIsRecent, LoadIsMiss, Loading, CacheIds, IdsOf, lru
<1>3. CASE ~(Len(Distinct(route)) > Capacity) /\ asked' = Distinct(route) /\ todo' = Distinct(route)
  <2> DEFINE d == Distinct(route)
  <2>1. route \in Seq(Ids)
    BY SamplesAssumption DEF LruInv, CallTyped
  <2>2. d \in Seq(Ids) /\ Injective(d) /\ Len(d) \in Nat
    BY <2>1, DistinctIsInjective, LenProperties
  <2> HIDE DEF d
  <2>3. Len(d) <= Capacity
    BY <1>3, <2>2, ReaderAssumption DEF d
  <2>4. asked' = d /\ todo' = d
    BY <1>3 DEF d
  <2>5. CallTyped'
    BY <1>1, <2>2, <2>3, <2>4 DEF LruInv, CallTyped, lru
  <2>6. CacheTyped' /\ LoadTyped' /\ CacheIsRecent'
    BY <1>1 DEF LruInv, CacheTyped, LoadTyped, CacheIsRecent, CacheIds, IdsOf, lru
  <2>7. TodoIsRest'
    BY <2>2, <2>4, EmptyEnd DEF TodoIsRest
  <2>8. DoneIsRecent'
    <3>1. DoneOf(d, d) = <<>>
      BY <2>2, NoneDone
    <3>2. recent \in Seq(Ids) /\ Len(cache) \in Nat
      BY CacheIdsTyped, LenProperties DEF LruInv, CallTyped
    <3>3. EndsWith(recent, <<>>) /\ Len(<<>>) <= Len(cache)
      BY <3>2, EmptyEnd, EmptySeq
    <3> QED
      BY <1>1, <2>4, <3>1, <3>3 DEF DoneIsRecent, lru
  <2>9. LoadIsMiss'
    <3>1. todo = <<>>
      BY <1>1, EmptySeq DEF LruInv, CallTyped, TodoIsRest, EndsWith
    <3> QED
      BY <1>1, <3>1 DEF LruInv, LoadIsMiss, Loading
  <2> QED
    BY <2>5, <2>6, <2>7, <2>8, <2>9 DEF LruInv
<1> QED
  BY <1>2, <1>3 DEF Ensure

\* A call that ends, or that a load leaves with an exception, has no more experts to get.
LEMMA CallEnds ==
    ASSUME LruInv, UNCHANGED <<sample, lru>>, asked' = <<>>, todo' = <<>>,
           (load' = load /\ ~Loading) \/ load' = NotLoading
    PROVE  LruInv'
<1>1. \A S : <<>> \in Seq(S) /\ Injective(<<>>) /\ Len(<<>>) = 0
  BY EmptySeq DEF Injective
<1>2. CallTyped'
  BY <1>1, ReaderAssumption DEF LruInv, CallTyped, lru
<1>3. CacheTyped' /\ CacheIsRecent'
  BY DEF LruInv, CacheTyped, CacheIsRecent, CacheIds, IdsOf, lru
<1>4. LoadTyped' /\ ~Loading'
  <2>1. NotLoading \in [expert : Ids \union {-1}, range : Nat \ {0}, got : Seq({}),
                        begun : BOOLEAN, tensors : {NoTensors, 0}, before : {NoTensors, 0}]
    BY <1>1 DEF NotLoading
  <2>2. NotLoading.expert \notin Ids
    BY DEF NotLoading, Ids
  <2>3. CASE load' = load /\ ~Loading
    BY <2>3 DEF LruInv, LoadTyped, Loading
  <2>4. CASE load' = NotLoading
    BY <2>1, <2>2, <2>4 DEF LoadTyped, Loading
  <2> QED
    BY <2>3, <2>4
<1>5. EndsWith(<<>>, <<>>)
  BY <1>1 DEF EndsWith
<1>6. DoneOf(<<>>, <<>>) = <<>>
  BY <1>1, NoneDone
<1>7. EndsWith(recent, <<>>) /\ 0 <= Len(cache)
  BY EmptyEnd, CacheIdsTyped, LenProperties DEF LruInv, CallTyped
<1>8. TodoIsRest' /\ DoneIsRecent'
  BY <1>1, <1>5, <1>6, <1>7 DEF TodoIsRest, DoneIsRecent, lru
<1> QED
  BY <1>2, <1>3, <1>4, <1>8 DEF LruInv, LoadIsMiss

\* A step of a load keeps the expert.
LEMMA LoadGoesOn ==
    ASSUME LruInv, UNCHANGED <<sample, lru, asked, todo>>, LoadTyped', load'.expert = load.expert
    PROVE  LruInv'
<1>1. CallTyped' /\ CacheTyped' /\ TodoIsRest' /\ DoneIsRecent' /\ CacheIsRecent'
  BY DEF LruInv, CallTyped, CacheTyped, TodoIsRest, DoneIsRecent, CacheIsRecent, CacheIds, IdsOf, lru
<1>2. LoadIsMiss'
  BY DEF LruInv, LoadIsMiss, Loading, lru
<1> QED
  BY <1>1, <1>2 DEF LruInv

\* What a hit moves to the end of the cache is the most recent one everywhere, and
\* was not among those the call has got.
LEMMA HitStep == ASSUME LruInv, Hit PROVE LruInv' /\ Len(cache') = Len(cache)
<1> DEFINE e == Head(todo)
<1>1. UNCHANGED <<sample, asked, load>> /\ todo # <<>> /\ ~Loading
        /\ recent' = Touch(recent, e) /\ todo' = Tail(todo)
  BY DEF Hit, shard, Touched, Touch
<1>2. PICK i \in DOMAIN cache : cache[i].expert = e /\ cache' = Append(RemoveAt(cache, i), cache[i])
  BY DEF Hit
<1>3. PICK S : cache \in Seq(S) /\ \A x \in S : x.expert \in Ids
  BY DEF LruInv, CacheTyped
<1>4. Len(cache) \in Nat /\ DOMAIN cache = 1..Len(cache) /\ i \in 1..Len(cache)
  BY <1>2, <1>3, LenProperties
<1>5. CacheIds \in Seq(Ids) /\ Len(CacheIds) = Len(cache) /\ e = CacheIds[i]
  BY <1>2, <1>4, CacheIdsTyped DEF LruInv
<1>6. /\ e \in Ids /\ Tail(todo) \in Seq(Ids) /\ EndsWith(asked, Tail(todo))
      /\ DoneOf(asked, Tail(todo)) = Append(DoneOf(asked, todo), e)
      /\ \A k \in 1..Len(DoneOf(asked, todo)) : DoneOf(asked, todo)[k] # e
  BY <1>1, NextOfCall DEF LruInv, CallTyped, TodoIsRest
<1> HIDE DEF e
<1>7. CallTyped'
  <2>1. Touch(recent, e) \in Seq(Ids) /\ Injective(Touch(recent, e))
    BY <1>6, TouchTyped DEF LruInv, CallTyped
  <2> QED
    BY <1>1, <1>6, <2>1 DEF LruInv, CallTyped
<1>8. /\ cache' \in Seq(S) /\ Len(cache') = Len(cache)
      /\ \A k \in 1..Len(cache) :
            cache'[k] = IF k < i THEN cache[k] ELSE IF k < Len(cache) THEN cache[k + 1] ELSE cache[i]
  <2>1. cache[i] \in S
    BY <1>3, <1>4, ElementOfSeq
  <2>2. PICK c \in Seq(S) : c = cache
    BY <1>3
  <2>3. PICK x \in S : x = c[i]
    BY <2>1, <2>2
  <2>4. i \in 1..Len(c)
    BY <1>4, <2>2
  <2>5. /\ Append(RemoveAt(c, i), x) \in Seq(S)
        /\ Len(Append(RemoveAt(c, i), x)) = Len(c)
        /\ \A k \in 1..Len(c) :
              Append(RemoveAt(c, i), x)[k] = IF k < i THEN c[k] ELSE IF k < Len(c) THEN c[k + 1] ELSE x
    BY ONLY <2>4, MoveToEnd
  <2> QED
    BY <1>2, <2>2, <2>3, <2>5
<1>9. CacheTyped'
  BY <1>3, <1>8 DEF CacheTyped
<1>10. CacheIds' = Append(RemoveAt(CacheIds, i), e)
  <2>1. PICK c \in Seq(Ids) : c = CacheIds
    BY <1>5
  <2>2. i \in 1..Len(c)
    BY <1>4, <1>5, <2>1
  <2>3. /\ Append(RemoveAt(c, i), e) \in Seq(Ids)
        /\ Len(Append(RemoveAt(c, i), e)) = Len(c)
        /\ \A k \in 1..Len(c) :
              Append(RemoveAt(c, i), e)[k] = IF k < i THEN c[k] ELSE IF k < Len(c) THEN c[k + 1] ELSE e
    BY ONLY <1>6, <2>2, MoveToEnd
  <2>4. /\ CacheIds' \in Seq(Ids) /\ Len(CacheIds') = Len(cache')
        /\ \A k \in 1..Len(cache') : CacheIds'[k] = cache'[k].expert
    BY <1>3, <1>8, IdsOfTyped DEF CacheIds
  <2>5. ASSUME NEW k \in 1..Len(c)
        PROVE  CacheIds'[k] = Append(RemoveAt(c, i), e)[k]
    <3>1. CacheIds'[k] = cache'[k].expert
      BY <1>5, <1>8, <2>1, <2>4
    <3>2. \A n \in 1..Len(cache) : c[n] = cache[n].expert
      BY <2>1, CacheIdsTyped DEF LruInv
    <3>3. k \in 1..Len(cache) /\ (k < Len(cache) => k + 1 \in 1..Len(cache))
      BY <1>4, <1>5, <2>1
    <3> QED
      BY <1>2, <1>4, <1>5, <1>8, <2>1, <2>3, <3>1, <3>2, <3>3
  <2> QED
    BY <1>5, <1>8, <2>1, <2>3, <2>4, <2>5, SeqEqual
<1>11. CacheIsRecent'
  <2>1. EndsWith(Touch(recent, e), Append(RemoveAt(CacheIds, i), e))
    BY <1>4, <1>5, TouchedStays DEF LruInv, CallTyped, CacheIsRecent
  <2> QED
    BY <1>1, <1>8, <1>10, <2>1 DEF LruInv, CacheIsRecent
<1> DEFINE d == DoneOf(asked, todo)
<1>12. d \in Seq(Ids) /\ Len(d) \in Nat /\ EndsWith(recent, d) /\ Len(d) <= Len(cache)
  BY DoneTyped, LenProperties DEF LruInv, CallTyped, TodoIsRest, DoneIsRecent
<1> HIDE DEF d
<1>13. EndsWith(Touch(recent, e), Append(d, e))
  BY <1>6, <1>12, TouchedComes DEF LruInv, CallTyped, d
<1>14. Len(d) + 1 <= Len(cache)
  <2>1. ASSUME Len(d) = Len(cache) PROVE FALSE
    <3>1. d[i] = recent[Len(recent) - Len(d) + i]
      BY <1>4, <1>12, <2>1 DEF EndsWith
    <3>2. CacheIds[i] = recent[Len(recent) - Len(d) + i]
      BY <1>4, <1>5, <2>1 DEF LruInv, CacheIsRecent, EndsWith
    <3> QED
      BY <1>4, <1>5, <1>6, <2>1, <3>1, <3>2 DEF d
  <2> QED
    BY <1>4, <1>12, <2>1
<1>15. DoneIsRecent'
  <2>1. Len(Append(d, e)) = Len(d) + 1
    BY <1>6, <1>12, AppendProperties
  <2> QED
    BY <1>1, <1>6, <1>8, <1>13, <1>14, <2>1 DEF DoneIsRecent, d
<1> QED
  BY <1>1, <1>6, <1>7, <1>8, <1>9, <1>11, <1>15
  DEF LruInv, LoadTyped, TodoIsRest, LoadIsMiss, Loading

\* What a miss evicts is the least recent one, and none of those the call has got.
LEMMA MissStep == ASSUME LruInv, Miss PROVE LruInv'
<1> DEFINE e == Head(todo)
<1>1. UNCHANGED <<sample, asked, todo, recent>> /\ todo # <<>> /\ ~Loading
  BY DEF Miss, shard
<1>2. load' = [NotLoading EXCEPT !.expert = e, !.before = reads.bytes]
  BY DEF Miss
<1>3. PICK S : cache \in Seq(S) /\ \A x \in S : x.expert \in Ids
  BY DEF LruInv, CacheTyped
<1>4. Len(cache) \in Nat /\ DOMAIN cache = 1..Len(cache)
  BY <1>3, LenProperties
<1>5. CacheIds \in Seq(Ids) /\ Len(CacheIds) = Len(cache)
  BY CacheIdsTyped DEF LruInv
<1>6. /\ e \in Ids /\ Len(DoneOf(asked, todo)) < Len(asked)
  BY <1>1, NextOfCall DEF LruInv, CallTyped, TodoIsRest
<1>7. /\ Len(DoneOf(asked, todo)) \in Nat /\ Len(asked) \in Nat /\ Len(recent) \in Nat
  BY DoneTyped, LenProperties DEF LruInv, CallTyped, TodoIsRest
<1> HIDE DEF e
<1>8. PICK n \in {0, 1} : /\ cache' \in Seq(S) /\ Len(cache') = Len(cache) - n /\ n <= Len(cache)
                          /\ \A i \in 1..Len(cache') : cache'[i] = cache[i + n]
                          /\ n = 1 <=> Len(cache) = Capacity
  <2>1. CASE Len(cache) = Capacity
    <3>1. cache' = Tail(cache) /\ cache # <<>>
      BY <2>1, EmptySeq, ReaderAssumption DEF Miss
    <3>2. /\ cache' \in Seq(S) /\ Len(cache') = Len(cache) - 1
          /\ \A i \in 1..Len(cache') : cache'[i] = cache[i + 1]
      BY <1>3, <3>1, HeadTailProperties
    <3> QED
      BY <1>4, <2>1, <3>2, ReaderAssumption
  <2>2. CASE Len(cache) # Capacity
    <3>1. cache' = cache
      BY <2>2 DEF Miss
    <3>2. /\ cache' \in Seq(S) /\ Len(cache') = Len(cache) - 0 /\ 0 <= Len(cache)
          /\ \A i \in 1..Len(cache') : cache'[i] = cache[i + 0]
          /\ 0 = 1 <=> Len(cache) = Capacity
      BY <1>3, <1>4, <2>2, <3>1
    <3> QED
      BY <3>2
  <2> QED
    BY <2>1, <2>2
<1>85. /\ Len(cache') \in Nat /\ Len(cache') <= Len(cache)
       /\ Len(cache) = Capacity => Len(cache') < Len(cache)
  <2>1. CASE n = 0
    BY <1>4, <1>8, <2>1
  <2>2. CASE n = 1
    BY <1>4, <1>8, <2>2
  <2> QED
    BY <2>1, <2>2
<1>86. \A m \in Nat : /\ (Len(cache) <= m /\ Len(cache) # m) => Len(cache) < m
                      /\ Len(cache) <= m => Len(cache') <= m
                      /\ Len(cache) < m => Len(cache') < m
  <2>1. PICK a \in Nat : a = Len(cache)
    BY <1>4
  <2>2. PICK b \in Nat : b = Len(cache')
    BY <1>85
  <2>3. b <= a
    BY <1>85, <2>1, <2>2
  <2>4. \A m \in Nat : (a <= m /\ a # m => a < m) /\ (a <= m => b <= m) /\ (a < m => b < m)
    BY <2>3
  <2> QED
    BY <2>1, <2>2, <2>4
<1>9. CallTyped' /\ CacheTyped' /\ TodoIsRest'
  BY <1>1, <1>3, <1>8 DEF LruInv, CallTyped, CacheTyped, TodoIsRest
<1>10. LoadTyped'
  <2>1. <<>> \in Seq({})
    BY EmptySeq
  <2>2. PICK b : b = reads.bytes
    OBVIOUS
  <2>3. load' = [expert |-> e, range |-> 1, got |-> <<>>, begun |-> FALSE,
                 tensors |-> NoTensors, before |-> b]
    BY <1>2, <2>2 DEF NotLoading
  <2>4. load' \in [expert : Ids \union {-1}, range : Nat \ {0}, got : Seq({}), begun : BOOLEAN,
                   tensors : {NoTensors, b}, before : {NoTensors, b}]
    BY <1>6, <2>1, <2>3
  <2> QED
    BY <2>4 DEF LoadTyped
<1>11. /\ CacheIds' \in Seq(Ids) /\ Len(CacheIds') = Len(cache')
       /\ \A i \in 1..Len(cache') : CacheIds'[i] = cache'[i].expert
  BY <1>3, <1>8, IdsOfTyped DEF CacheIds
<1>12. \A i \in 1..Len(cache') : i + n \in 1..Len(cache) /\ CacheIds'[i] = CacheIds[i + n]
  <2> TAKE i \in 1..Len(cache')
  <2>1. i + n \in 1..Len(cache)
    BY <1>4, <1>8
  <2> QED
    BY <1>8, <1>11, <2>1, CacheIdsTyped DEF LruInv
<1>13. CacheIsRecent'
  <2>0. Len(cache) <= Capacity /\ Len(cache) <= Len(recent)
    BY <1>5 DEF LruInv, CacheIsRecent, EndsWith
  <2>1. Len(cache') <= Capacity /\ Len(CacheIds') <= Len(recent)
    BY <1>7, <1>86, <1>11, <2>0, CapacityTyped
  <2>2. ASSUME NEW i \in 1..Len(CacheIds')
        PROVE  CacheIds'[i] = recent[Len(recent) - Len(CacheIds') + i]
    <3>1. i + n \in 1..Len(CacheIds) /\ CacheIds'[i] = CacheIds[i + n]
      BY <1>5, <1>11, <1>12
    <3>2. Len(recent) - Len(CacheIds) + (i + n) = Len(recent) - Len(CacheIds') + i
      BY <1>4, <1>5, <1>7, <1>8, <1>11
    <3> QED
      BY <3>1, <3>2 DEF LruInv, CacheIsRecent, EndsWith
  <2> QED
    BY <1>1, <2>1, <2>2 DEF CacheIsRecent, EndsWith
<1>14. DoneIsRecent'
  <2>0. Len(asked) <= Capacity /\ Len(DoneOf(asked, todo)) <= Len(cache)
    BY DEF LruInv, CallTyped, DoneIsRecent
  <2>1. Len(DoneOf(asked, todo)) <= Len(cache')
    <3>1. CASE Len(cache) = Capacity
      <4>1. Len(cache') = Len(cache) - 1
        BY <1>8, <3>1
      <4> QED
        BY <1>4, <1>6, <1>7, <2>0, <3>1, <4>1, CapacityTyped
    <3>2. CASE Len(cache) # Capacity
      <4>1. n = 0
        BY <1>8, <3>2
      <4>2. Len(cache') = Len(cache) - 0
        BY <1>8, <4>1
      <4>3. Len(cache') = Len(cache)
        BY <1>4, <4>2
      <4> QED
        BY <2>0, <4>3
    <3> QED
      BY <3>1, <3>2
  <2> QED
    BY <1>1, <2>1 DEF LruInv, DoneIsRecent
<1>15. LoadIsMiss'
  <2>1. load'.expert = e
    BY <1>2 DEF NotLoading
  <2>2. Len(cache') < Capacity
    <3>1. Len(cache) <= Capacity
      BY DEF LruInv, CacheIsRecent
    <3> QED
      BY <1>4, <1>85, <1>86, <3>1, CapacityTyped
  <2>3. \A i \in 1..Len(cache') : cache'[i].expert # e
    <3>1. \A i \in 1..Len(cache) : cache[i].expert # e
      BY <1>4 DEF Miss, Resident, e
    <3> QED
      BY <1>8, <1>12, <3>1
  <2> QED
    BY <1>1, <2>1, <2>2, <2>3 DEF LoadIsMiss, e
<1> QED
  BY <1>9, <1>10, <1>13, <1>14, <1>15 DEF LruInv

\* What has been loaded takes the room that was made for it.
LEMMA LoadEnds ==
    ASSUME LruInv, Loading, UNCHANGED <<sample, asked>>, NEW x, x.expert = load.expert,
           cache' = Append(cache, x), recent' = Touched(load.expert), todo' = Tail(todo),
           load' = NotLoading
    PROVE  LruInv'
<1> DEFINE e == load.expert
<1>1. /\ todo # <<>> /\ e = Head(todo) /\ Len(cache) < Capacity
      /\ \A i \in 1..Len(cache) : cache[i].expert # e
  BY DEF LruInv, LoadIsMiss
<1>2. PICK S : cache \in Seq(S) /\ \A y \in S : y.expert \in Ids
  BY DEF LruInv, CacheTyped
<1>3. Len(cache) \in Nat /\ DOMAIN cache = 1..Len(cache)
  BY <1>2, LenProperties
<1>4. CacheIds \in Seq(Ids) /\ Len(CacheIds) = Len(cache) /\ \A i \in 1..Len(cache) : CacheIds[i] # e
  BY <1>1, CacheIdsTyped DEF LruInv
<1>5. /\ e \in Ids /\ Tail(todo) \in Seq(Ids) /\ EndsWith(asked, Tail(todo))
      /\ DoneOf(asked, Tail(todo)) = Append(DoneOf(asked, todo), e)
      /\ \A k \in 1..Len(DoneOf(asked, todo)) : DoneOf(asked, todo)[k] # e
  BY <1>1, NextOfCall DEF LruInv, CallTyped, TodoIsRest
<1>6. recent' = Touch(recent, e)
  BY DEF Touched, Touch
<1> HIDE DEF e
<1>7. CallTyped'
  <2>1. Touch(recent, e) \in Seq(Ids) /\ Injective(Touch(recent, e))
    BY <1>5, TouchTyped DEF LruInv, CallTyped
  <2> QED
    BY <1>5, <1>6, <2>1 DEF LruInv, CallTyped
<1>8. /\ cache' \in Seq(S \union {x}) /\ Len(cache') = Len(cache) + 1
      /\ \A k \in 1..Len(cache) : cache'[k] = cache[k]
      /\ cache'[Len(cache) + 1] = x
  <2>1. cache \in Seq(S \union {x}) /\ x \in S \union {x}
    BY <1>2, SeqMonotonic
  <2>2. PICK c \in Seq(S \union {x}) : c = cache
    BY <2>1
  <2>3. PICK y \in S \union {x} : y = x
    OBVIOUS
  <2>4. /\ Append(c, y) \in Seq(S \union {x})
        /\ Len(Append(c, y)) = Len(c) + 1
        /\ \A k \in 1..Len(c) : Append(c, y)[k] = c[k]
        /\ Append(c, y)[Len(c) + 1] = y
    BY ONLY AppendProperties
  <2> QED
    BY <2>2, <2>3, <2>4
<1>9. CacheTyped'
  <2>1. \A y \in S \union {x} : y.expert \in Ids
    BY <1>2, <1>5 DEF e
  <2> QED
    BY <1>8, <2>1 DEF CacheTyped
<1>10. CacheIds' = Append(CacheIds, e)
  <2>1. /\ Append(CacheIds, e) \in Seq(Ids)
        /\ Len(Append(CacheIds, e)) = Len(CacheIds) + 1
        /\ \A k \in 1..Len(CacheIds) : Append(CacheIds, e)[k] = CacheIds[k]
        /\ Append(CacheIds, e)[Len(CacheIds) + 1] = e
    <3>1. CacheIds \in Seq(Ids) /\ e \in Ids
      BY <1>4, <1>5
    <3> QED
      BY ONLY <3>1, AppendProperties
  <2>2. /\ CacheIds' \in Seq(Ids) /\ Len(CacheIds') = Len(cache')
        /\ \A k \in 1..Len(cache') : CacheIds'[k] = cache'[k].expert
    <3>1. \A y \in S \union {x} : y.expert \in Ids
      BY <1>2, <1>5 DEF e
    <3> QED
      BY <1>8, <3>1, IdsOfTyped DEF CacheIds
  <2>3. ASSUME NEW k \in 1..(Len(cache) + 1)
        PROVE  CacheIds'[k] = Append(CacheIds, e)[k]
    <3>1. CacheIds'[k] = cache'[k].expert
      BY <1>3, <1>8, <2>2
    <3>2. k \in 1..Len(cache) \/ k = Len(cache) + 1
      BY <1>3
    <3>3. CASE k \in 1..Len(cache)
      BY <1>4, <1>8, <2>1, <3>1, <3>3, CacheIdsTyped DEF LruInv
    <3>4. CASE k = Len(cache) + 1
      BY <1>4, <1>8, <2>1, <3>1, <3>4 DEF e
    <3> QED
      BY <3>2, <3>3, <3>4
  <2> QED
    BY <1>4, <1>8, <2>1, <2>2, <2>3, SeqEqual
<1>11. CacheIsRecent'
  <2>1. EndsWith(Touch(recent, e), Append(CacheIds, e))
    BY <1>4, <1>5, TouchedComes DEF LruInv, CallTyped, CacheIsRecent
  <2> QED
    BY <1>1, <1>3, <1>6, <1>8, <1>10, <2>1, CapacityTyped DEF CacheIsRecent
<1> DEFINE d == DoneOf(asked, todo)
<1>12. d \in Seq(Ids) /\ Len(d) \in Nat /\ EndsWith(recent, d) /\ Len(d) <= Len(cache)
  BY DoneTyped, LenProperties DEF LruInv, CallTyped, TodoIsRest, DoneIsRecent
<1> HIDE DEF d
<1>13. DoneIsRecent'
  <2>1. EndsWith(Touch(recent, e), Append(d, e))
    BY <1>5, <1>12, TouchedComes DEF LruInv, CallTyped, d
  <2>2. Len(Append(d, e)) = Len(d) + 1
    BY <1>5, <1>12, AppendProperties
  <2>3. Len(Append(d, e)) <= Len(cache')
    BY <1>3, <1>8, <1>12, <2>2
  <2> QED
    BY <1>5, <1>6, <2>1, <2>3 DEF DoneIsRecent, d
<1>14. LoadTyped' /\ ~Loading'
  <2>1. NotLoading \in [expert : Ids \union {-1}, range : Nat \ {0}, got : Seq({}),
                        begun : BOOLEAN, tensors : {NoTensors, 0}, before : {NoTensors, 0}]
    BY EmptySeq DEF NotLoading
  <2>2. NotLoading.expert \notin Ids
    BY DEF NotLoading, Ids
  <2> QED
    BY <2>1, <2>2 DEF LoadTyped, Loading
<1> QED
  BY <1>5, <1>7, <1>9, <1>11, <1>13, <1>14 DEF LruInv, TodoIsRest, LoadIsMiss

-----------------------------------------------------------------------------
(* Finite sets of numbers                                                    *)

LEMMA MinExists ==
    ASSUME NEW F \in SUBSET Nat, F # {}
    PROVE  Min(F) \in F /\ \A y \in F : Min(F) <= y
<1> DEFINE R == {p \in Nat \X Nat : p[1] < p[2]}
<1>1. IsWellFoundedOn(R, Nat)
  BY NatLessThanWellFounded DEF OpToRel
<1> HIDE DEF R
<1>2. PICK x \in F : \A y \in F : <<y, x>> \notin R
  BY <1>1, WFMin
<1>3. ASSUME NEW y \in F PROVE x <= y
  <2>1. x \in Nat /\ y \in Nat /\ <<y, x>> \notin R
    BY <1>2
  <2> QED
    BY <2>1 DEF R
<1> QED
  BY <1>3 DEF Min

LEMMA MaxExists ==
    ASSUME NEW F \in SUBSET Nat, IsFiniteSet(F), F # {}
    PROVE  Max(F) \in F /\ \A y \in F : Max(F) >= y
<1> DEFINE T == {n \in Nat : \A G \in SUBSET Nat :
                    IsFiniteSet(G) /\ Cardinality(G) = n /\ G # {} => \E x \in G : \A y \in G : x >= y}
<1>1. 0 \in T
  BY FS_EmptySet
<1>2. ASSUME NEW n \in T PROVE n + 1 \in T
  <2> SUFFICES ASSUME NEW G \in SUBSET Nat, IsFiniteSet(G), Cardinality(G) = n + 1, G # {}
               PROVE  \E x \in G : \A y \in G : x >= y
    OBVIOUS
  <2>1. PICK z \in G : TRUE
    OBVIOUS
  <2>2. IsFiniteSet(G \ {z}) /\ Cardinality(G \ {z}) = n
    <3>1. IsFiniteSet(G \ {z}) /\ Cardinality(G \ {z}) = Cardinality(G) - 1
      BY FS_RemoveElement
    <3> QED
      BY <3>1
  <2>3. CASE G \ {z} = {}
    BY <2>1, <2>3
  <2>4. CASE G \ {z} # {}
    <3>1. PICK x \in G \ {z} : \A y \in G \ {z} : x >= y
      BY <2>2, <2>4
    <3>2. CASE x >= z
      BY <3>1, <3>2
    <3>3. CASE ~(x >= z)
      <4>1. \A y \in G : z >= y
        BY <3>1, <3>3
      <4> QED
        BY <4>1
    <3> QED
      BY <3>2, <3>3
  <2> QED
    BY <2>3, <2>4
<1>3. T \in SUBSET Nat
  OBVIOUS
<1> HIDE DEF T
<1>4. T = Nat
  BY <1>1, <1>2, <1>3, SetInduction
<1>5. \E x \in F : \A y \in F : x >= y
  BY <1>4, FS_CardinalityType DEF T
<1> QED
  BY <1>5 DEF Max

\* Of finitely many things with different offsets, one has a given number of others before it.
Placed(G) == /\ IsFiniteSet(G) /\ \A x \in G : x.offset \in Nat
             /\ \A x, y \in G : x.offset = y.offset => x = y
HasRank(G, j) == \E x \in G : Cardinality({y \in G : y.offset < x.offset}) = j

LEMMA RankExists ==
    ASSUME NEW F, Placed(F), NEW k \in Nat, k < Cardinality(F)
    PROVE  HasRank(F, k)
<1> DEFINE T == {n \in Nat : \A G : Placed(G) /\ Cardinality(G) = n =>
                    \A j \in Nat : j < n => HasRank(G, j)}
<1>1. 0 \in T
  OBVIOUS
<1>2. ASSUME NEW n \in T PROVE n + 1 \in T
  <2> SUFFICES ASSUME NEW G, Placed(G), Cardinality(G) = n + 1, NEW j \in Nat, j < n + 1
               PROVE  HasRank(G, j)
    OBVIOUS
  <2>1. n \in Nat
    OBVIOUS
  <2>0. /\ IsFiniteSet(G) /\ \A x \in G : x.offset \in Nat
        /\ \A x, y \in G : x.offset = y.offset => x = y
    BY DEF Placed
  <2> DEFINE offsets == {x.offset : x \in G}
  <2>2. offsets \in SUBSET Nat /\ IsFiniteSet(offsets) /\ offsets # {}
    <3>1. [x \in G |-> x.offset] \in Surjection(G, offsets)
      BY DEF Surjection
    <3>2. G # {}
      BY <2>0, <2>1, FS_EmptySet
    <3> HIDE DEF offsets
    <3>3. IsFiniteSet(offsets)
      BY <2>0, <3>1, FS_Surjection
    <3> QED
      BY <2>0, <3>2, <3>3 DEF offsets
  <2> HIDE DEF offsets
  <2>3. PICK m \in offsets : \A y \in offsets : m >= y
    BY <2>2, MaxExists
  <2>4. PICK z \in G : z.offset = m
    BY DEF offsets
  <2>5. \A y \in G : y # z => y.offset < z.offset
    <3> SUFFICES ASSUME NEW y \in G, y # z PROVE y.offset < z.offset
      OBVIOUS
    <3>1. y.offset \in offsets /\ y.offset \in Nat /\ z.offset \in Nat /\ y.offset # z.offset
      BY <2>0 DEF offsets
    <3> QED
      BY <2>3, <2>4, <3>1
  <2> DEFINE H == G \ {z}
  <2>6. Placed(H) /\ Cardinality(H) = n
    <3>1. IsFiniteSet(H) /\ Cardinality(H) = Cardinality(G) - 1
      BY <2>0, FS_RemoveElement
    <3>2. Cardinality(H) = n
      BY <2>1, <3>1
    <3> QED
      BY <2>0, <3>1, <3>2 DEF Placed
  <2>7. CASE j < n
    <3>1. PICK x \in H : Cardinality({y \in H : y.offset < x.offset}) = j
      <4>1. \A i \in Nat : i < n => HasRank(H, i)
        BY <2>1, <2>6
      <4> QED
        BY <2>7, <4>1 DEF HasRank
    <3>2. {y \in G : y.offset < x.offset} = {y \in H : y.offset < x.offset}
      <4>1. ~(z.offset < x.offset)
        <5>1. x.offset < z.offset /\ x.offset \in Nat /\ z.offset \in Nat
          BY <2>0, <2>5
        <5> QED
          BY <5>1
      <4> QED
        BY <4>1
    <3> QED
      BY <3>1, <3>2 DEF HasRank
  <2>8. CASE ~(j < n)
    <3>1. {y \in G : y.offset < z.offset} = H
      <4>1. ~(z.offset < z.offset)
        BY <2>0
      <4> QED
        BY <2>5, <4>1
    <3>2. j = n
      BY <2>1, <2>8
    <3> QED
      BY <2>6, <3>1, <3>2 DEF HasRank
  <2> QED
    BY <2>7, <2>8
<1>3. T \in SUBSET Nat
  OBVIOUS
<1> HIDE DEF T
<1>5. T = Nat
  BY <1>1, <1>2, <1>3, SetInduction
<1>6. Cardinality(F) \in Nat
  BY FS_CardinalityType DEF Placed
<1> QED
  BY <1>5, <1>6 DEF T

-----------------------------------------------------------------------------
(* The ranges of a plan                                                      *)

Sound(ranges) == \A i \in 1..Len(ranges) : ranges[i].offset \in Nat /\ ranges[i].length \in Nat \ {0}

\* A range has the tensors that begin in it, and ends where one of them all does.
IsRange(T, r) ==
    /\ r.offset \in Nat /\ r.length \in Nat \ {0}
    /\ r.tensors = {t \in T : r.offset <= t.offset /\ t.offset < r.offset + r.length}
    /\ \E t \in T : t.offset + t.length = r.offset + r.length
RangesOf(T, ranges) ==
    /\ Len(ranges) \in Nat /\ DOMAIN ranges = 1..Len(ranges)
    /\ \A i \in 1..Len(ranges) : IsRange(T, ranges[i])

\* coalesce_source_ranges: no range is empty, each has every tensor that begins in it,
\* and it ends where one of them all ends.
LEMMA CoalesceRanges ==
    ASSUME NEW T, IsFiniteSet(T), \A t \in T : t.offset \in Nat /\ t.length \in Nat \ {0}
    PROVE  RangesOf(T, Coalesce(T))
<1> DEFINE ends == {t.offset + t.length : t \in T}
           starts == {t.offset : t \in T}
           after(first) == {x \in ends : x > first /\ x \notin starts}
           Run(first) ==
               LET last == Min(after(first))
               IN  [offset |-> first, length |-> last - first,
                    tensors |-> {t \in T : first <= t.offset /\ t.offset < last}]
           runs == {Run(first) : first \in starts \ ends}
<1>1. ends \in SUBSET Nat /\ IsFiniteSet(ends)
  <2>1. [t \in T |-> t.offset + t.length] \in Surjection(T, ends)
    BY DEF Surjection
  <2>2. ends \in SUBSET Nat
    OBVIOUS
  <2> HIDE DEF ends
  <2> QED
    BY <2>1, <2>2, FS_Surjection
<1>2. starts \in SUBSET Nat /\ IsFiniteSet(starts)
  <2>1. [t \in T |-> t.offset] \in Surjection(T, starts)
    BY DEF Surjection
  <2>2. starts \in SUBSET Nat
    OBVIOUS
  <2> HIDE DEF starts
  <2> QED
    BY <2>1, <2>2, FS_Surjection
<1>3. ASSUME NEW first \in starts
      PROVE  /\ Min(after(first)) \in Nat /\ Min(after(first)) > first
             /\ Min(after(first)) \in ends
  <2>1. PICK t \in T : t.offset = first
    OBVIOUS
  <2>2. t.offset + t.length \in ends /\ t.offset + t.length > first
    BY <2>1
  <2>3. ASSUME NEW s \in starts PROVE \E x \in ends : x > s
    <3>1. PICK u \in T : u.offset = s
      OBVIOUS
    <3>2. u.offset + u.length \in ends /\ u.offset + u.length > s
      BY <3>1
    <3> QED
      BY <3>2
  <2> HIDE DEF ends, starts
  <2>4. Max(ends) \in ends /\ \A y \in ends : Max(ends) >= y
    BY <1>1, <2>2, MaxExists
  <2>5. first \in Nat /\ Max(ends) \in Nat
    BY <1>1, <1>2, <2>4
  <2>6. Max(ends) > first
    <3>1. t.offset + t.length \in Nat /\ Max(ends) >= t.offset + t.length
      BY <1>1, <2>2, <2>4
    <3> QED
      BY <2>2, <2>5, <3>1
  <2>7. Max(ends) \notin starts
    BY <1>1, <2>3, <2>4, <2>5
  <2>8. after(first) \in SUBSET Nat /\ after(first) # {}
    BY <1>1, <2>4, <2>6, <2>7
  <2>9. Min(after(first)) \in after(first)
    <3> HIDE DEF after
    <3> QED
      BY <2>8, MinExists
  <2> QED
    BY <1>1, <2>9
<1> HIDE DEF ends, starts, after
<1>4. Placed(runs)
  <2>1. IsFiniteSet(starts \ ends)
    BY <1>2, FS_Difference
  <2>2. [first \in starts \ ends |-> Run(first)] \in Surjection(starts \ ends, runs)
    BY DEF Surjection
  <2>3. \A x \in runs : x.offset \in starts /\ x = Run(x.offset)
    OBVIOUS
  <2> HIDE DEF runs, Run
  <2>4. IsFiniteSet(runs)
    BY <2>1, <2>2, FS_Surjection
  <2>5. \A x, y \in runs : x.offset = y.offset => x = y
    BY <2>3
  <2> QED
    BY <1>2, <2>3, <2>4, <2>5 DEF Placed
<1>5. \A x \in runs : IsRange(T, x)
  <2> SUFFICES ASSUME NEW first \in starts
               PROVE  IsRange(T, Run(first))
    OBVIOUS
  <2>1. first \in Nat /\ Min(after(first)) \in Nat /\ Min(after(first)) > first
    BY <1>2, <1>3
  <2>2. PICK last \in Nat : last = Min(after(first)) /\ last > first
    BY <2>1
  <2>3. PICK u \in T : u.offset + u.length = last
    BY <1>3, <2>2 DEF ends
  <2>4. /\ Run(first).offset = first /\ Run(first).length = last - first
        /\ Run(first).tensors = {t \in T : first <= t.offset /\ t.offset < last}
    BY <2>2
  <2>5. first + (last - first) = last /\ last - first \in Nat \ {0}
    BY <2>1, <2>2
  <2> HIDE DEF Run
  <2> QED
    BY <2>1, <2>3, <2>4, <2>5 DEF IsRange
<1>6. Coalesce(T) = [i \in 1..Cardinality(runs) |->
                        CHOOSE x \in runs : Cardinality({r \in runs : r.offset < x.offset}) = i - 1]
  BY DEF Coalesce, ends, starts, after
<1> HIDE DEF runs
<1>7. Cardinality(runs) \in Nat
  BY <1>4, FS_CardinalityType DEF Placed
<1>8. Len(Coalesce(T)) = Cardinality(runs)
  BY <1>6, <1>7
<1>9. ASSUME NEW i \in 1..Cardinality(runs)
      PROVE  Coalesce(T)[i] \in runs
  <2>1. i - 1 \in Nat /\ i - 1 < Cardinality(runs)
    BY <1>7
  <2>2. \E x \in runs : Cardinality({r \in runs : r.offset < x.offset}) = i - 1
    BY <1>4, <2>1, RankExists DEF HasRank
  <2> QED
    BY <1>6, <2>2
<1>10. DOMAIN Coalesce(T) = 1..Cardinality(runs)
  BY <1>6
<1> QED
  BY <1>5, <1>7, <1>8, <1>9, <1>10 DEF RangesOf

\* The offsets of pieces that follow each other.
OffsetsUpTo(f, c, k) == f = [i \in 1..k |-> IF i = 1 THEN 0 ELSE f[i - 1] + c[i - 1]]

LEMMA OffsetsExist ==
    ASSUME NEW n \in Nat, NEW c \in [1..n -> Nat]
    PROVE  \E f : OffsetsUpTo(f, c, n)
<1> DEFINE step == [l \in 1..n |-> [x \in Nat |-> x + c[l]]]
<1>1. step \in [1..n -> [Nat -> Nat]]
  OBVIOUS
<1> HIDE DEF step
<1>2. PICK g \in [0..n -> Nat] : FollowsUpTo(g, 0, step, n)
  BY <1>1, RecursionExists
<1> DEFINE f == [i \in 1..n |-> g[i - 1]]
<1>3. ASSUME NEW i \in 1..n
      PROVE  f[i] = IF i = 1 THEN 0 ELSE f[i - 1] + c[i - 1]
  <2>1. CASE i = 1
    BY <1>2, <2>1 DEF FollowsUpTo
  <2>2. CASE i # 1
    <3>1. i - 1 \in 1..n /\ g[i - 1 - 1] \in Nat
      BY <2>2
    <3> QED
      BY <1>2, <2>2, <3>1 DEF FollowsUpTo, step
  <2> QED
    BY <2>1, <2>2
<1>4. f = [i \in 1..n |-> f[i]]
  OBVIOUS
<1> HIDE DEF f
<1>5. f = [i \in 1..n |-> IF i = 1 THEN 0 ELSE f[i - 1] + c[i - 1]]
  BY <1>3, <1>4
<1> QED
  BY <1>5 DEF OffsetsUpTo

LEMMA OffsetsTyped ==
    ASSUME NEW n \in Nat, NEW c \in [1..n -> Nat], NEW f, OffsetsUpTo(f, c, n)
    PROVE  \A i \in 1..n : f[i] \in Nat
<1> DEFINE h == [l \in 0..n |-> IF l = 0 THEN 0 ELSE f[l]]
<1>1. ASSUME NEW l \in 1..n, h[l - 1] \in Nat PROVE h[l] \in Nat
  <2>1. f[l] = IF l = 1 THEN 0 ELSE f[l - 1] + c[l - 1]
    BY DEF OffsetsUpTo
  <2>2. l # 1 => l - 1 \in 1..n /\ h[l - 1] = f[l - 1]
    OBVIOUS
  <2> QED
    BY <1>1, <2>1, <2>2
<1>2. h[0] \in Nat
  OBVIOUS
<1>3. \A l \in 1..n : h[l] = f[l]
  OBVIOUS
<1> HIDE DEF h
<1>4. \A l \in 0..n : h[l] \in Nat
  BY <1>1, <1>2, StaysIn
<1> QED
  BY <1>3, <1>4

-----------------------------------------------------------------------------
(* Pieces of sequences, and of files                                         *)

\* The sequence b is in a, after the first at elements.
PieceAt(a, at, b) ==
    /\ at + Len(b) <= Len(a)
    /\ \A k \in 1..Len(b) : a[at + k] = b[k]

\* A piece is what SubSeq cuts out at its place.
LEMMA PieceIsSubSeq ==
    ASSUME NEW S, NEW a \in Seq(S), NEW b \in Seq(S), NEW at \in Nat, PieceAt(a, at, b)
    PROVE  SubSeq(a, at + 1, at + Len(b)) = b
<1>1. PICK n \in Nat : n = Len(b)
  BY LenProperties
<1>2. PICK m \in Nat : m = Len(a) /\ at + n <= m
  BY <1>1, LenProperties DEF PieceAt
<1>3. \A i \in (at + 1)..(at + n) : a[i] \in S
  <2>1. \A i \in (at + 1)..(at + n) : i \in 1..Len(a)
    BY <1>2
  <2> QED
    BY <2>1, ElementOfSeq
<1>4. PICK c : c = SubSeq(a, at + 1, at + n)
  OBVIOUS
<1>5. /\ c \in Seq(S)
      /\ Len(c) = IF at + 1 <= at + n THEN at + n - (at + 1) + 1 ELSE 0
      /\ \A i \in 1..(at + n - (at + 1) + 1) : c[i] = a[at + 1 + i - 1]
  <2>1. at + 1 \in Int /\ at + n \in Int
    OBVIOUS
  <2> QED
    BY <1>3, <1>4, <2>1, SubSeqProperties
<1>6. Len(c) = n
  BY <1>5
<1>7. ASSUME NEW i \in 1..n PROVE c[i] = b[i]
  <2>1. i \in 1..(at + n - (at + 1) + 1) /\ at + 1 + i - 1 = at + i
    OBVIOUS
  <2>2. c[i] = a[at + i]
    BY <1>5, <2>1
  <2> QED
    BY <1>1, <2>2 DEF PieceAt
<1>8. c = b
  BY <1>1, <1>5, <1>6, <1>7, SeqEqual
<1> QED
  BY <1>1, <1>4, <1>8

\* A piece of a slice that has it all.
LEMMA PieceOfSlice ==
    ASSUME NEW S, NEW a \in Seq(S), NEW b \in Seq(S), NEW at \in Nat, PieceAt(a, at, b),
           NEW first \in Nat, NEW last \in Nat,
           first <= at, at + Len(b) <= last, last <= Len(a)
    PROVE  SubSeq(SubSeq(a, first + 1, last), at - first + 1, at - first + Len(b)) = b
<1>1. PICK n \in Nat : n = Len(b)
  BY LenProperties
<1>2. PICK m \in Nat : m = Len(a)
  BY LenProperties
<1>3. \A i \in (first + 1)..last : a[i] \in S
  <2>1. \A i \in (first + 1)..last : i \in 1..Len(a)
    BY <1>2
  <2> QED
    BY <2>1, ElementOfSeq
<1>4. PICK c : c = SubSeq(a, first + 1, last)
  OBVIOUS
<1>5. /\ c \in Seq(S)
      /\ Len(c) = IF first + 1 <= last THEN last - (first + 1) + 1 ELSE 0
      /\ \A i \in 1..(last - (first + 1) + 1) : c[i] = a[first + 1 + i - 1]
  <2>1. first + 1 \in Int /\ last \in Int
    OBVIOUS
  <2> QED
    BY <1>3, <1>4, <2>1, SubSeqProperties
<1>6. PICK d \in Nat : d = at - first
  OBVIOUS
<1>7. Len(c) = last - first
  BY <1>1, <1>5
<1>8. d + n <= Len(c)
  BY <1>1, <1>6, <1>7
<1>9. ASSUME NEW k \in 1..n PROVE c[d + k] = b[k]
  <2>1. d + k \in 1..(last - (first + 1) + 1) /\ first + 1 + (d + k) - 1 = at + k
    BY <1>1, <1>6
  <2>2. c[d + k] = a[first + 1 + (d + k) - 1]
    BY <1>5, <2>1
  <2> QED
    BY <1>1, <2>1, <2>2 DEF PieceAt
<1>10. PieceAt(c, d, b)
  BY <1>1, <1>8, <1>9 DEF PieceAt
<1>11. SubSeq(c, d + 1, d + Len(b)) = b
  BY <1>5, <1>10, PieceIsSubSeq
<1> QED
  BY <1>4, <1>6, <1>11

\* Each of the flattened sequences is at its offset.
FlattenGrows(g, s) ==
    /\ FlattenSeq(s) = g[Len(s)]
    /\ g[1] = s[1]
    /\ \A i \in 2..Len(s) : g[i] = g[i - 1] \o s[i]

\* Flattening appends one sequence after the other.
LEMMA FlattenFollows ==
    ASSUME NEW S, NEW n \in Nat \ {0}, NEW s \in [1..n -> Seq(S)]
    PROVE  \E g : FlattenGrows(g, s)
<1> DEFINE step == [l \in 1..n |-> [q \in Seq(S) |-> q \o s[l]]]
<1>0. Len(s) = n /\ Len(s) # 0
  OBVIOUS
<1>1. step \in [1..n -> [Seq(S) -> Seq(S)]]
  <2>1. ASSUME NEW l \in 1..n, NEW q \in Seq(S) PROVE q \o s[l] \in Seq(S)
    <3>1. s[l] \in Seq(S)
      OBVIOUS
    <3> QED
      BY <3>1, ConcatProperties
  <2> QED
    BY <2>1
<1>2. <<>> \in Seq(S)
  BY EmptySeq
<1> HIDE DEF step
<1>3. PICK h \in [0..n -> Seq(S)] : FollowsUpTo(h, <<>>, step, n)
  BY <1>1, <1>2, RecursionExists
<1> DEFINE Follows(g) == g = [i \in 1..Len(s) |-> IF i = 1 THEN s[i] ELSE g[i - 1] \o s[i]]
           f == [i \in 1..n |-> h[i]]
<1>4. ASSUME NEW i \in 1..n PROVE f[i] = IF i = 1 THEN s[i] ELSE f[i - 1] \o s[i]
  <2>1. i - 1 \in 0..n /\ h[i - 1] \in Seq(S) /\ s[i] \in Seq(S)
    OBVIOUS
  <2>2. h[i] = h[i - 1] \o s[i]
    BY <1>3, <2>1 DEF FollowsUpTo, step
  <2>3. CASE i = 1
    <3>1. h[0] = <<>>
      BY <1>3 DEF FollowsUpTo
    <3>2. <<>> \o s[i] = s[i]
      BY <2>1, ConcatEmptySeq
    <3>3. i - 1 = 0
      BY <2>3
    <3>4. h[i] = s[i]
      BY ONLY <2>2, <3>1, <3>2, <3>3
    <3> QED
      BY <2>3, <3>4
  <2>4. CASE i # 1
    <3>1. i - 1 \in 1..n
      BY <2>4
    <3> QED
      BY <2>2, <2>4, <3>1
  <2> QED
    BY <2>3, <2>4
<1>5. Follows(f)
  <2>1. f = [i \in 1..n |-> f[i]]
    OBVIOUS
  <2> HIDE DEF f
  <2>2. f = [i \in 1..n |-> IF i = 1 THEN s[i] ELSE f[i - 1] \o s[i]]
    BY <1>4, <2>1
  <2> QED
    BY <1>0, <2>2
<1> HIDE DEF f
<1>6. PICK g : Follows(g) /\ FlattenSeq(s) = g[Len(s)]
  <2> DEFINE flatten[i \in 1..Len(s)] == IF i = 1 THEN s[i] ELSE flatten[i - 1] \o s[i]
  <2>1. FlattenSeq(s) = IF Len(s) = 0 THEN s ELSE flatten[Len(s)]
    BY DEF FlattenSeq
  <2>2. flatten = [i \in 1..Len(s) |-> IF i = 1 THEN s[i] ELSE flatten[i - 1] \o s[i]]
    BY <1>5
  <2> HIDE DEF flatten
  <2>3. Follows(flatten)
    BY <2>2
  <2> HIDE DEF Follows
  <2> QED
    BY <1>0, <2>1, <2>3
<1>7. g[1] = s[1]
  BY <1>0, <1>6
<1>8. \A i \in 2..Len(s) : g[i] = g[i - 1] \o s[i]
  <2>1. \A i \in 2..n : i \in 1..n /\ i # 1
    OBVIOUS
  <2> QED
    BY <1>0, <1>6, <2>1
<1> QED
  BY <1>6, <1>7, <1>8 DEF FlattenGrows

\* The first sequences, each at its offset.
PiecesUpTo(a, f, s, l) == \A i \in 1..l : PieceAt(a, f[i], s[i])

\* In what is flattened, each sequence is as many elements in as the lengths before it sum to.
LEMMA FlattenPieces ==
    ASSUME NEW S, NEW n \in Nat \ {0}, NEW s \in [1..n -> Seq(S)],
           NEW f, OffsetsUpTo(f, [i \in 1..n |-> Len(s[i])], n)
    PROVE  FlattenSeq(s) \in Seq(S) /\ PiecesUpTo(FlattenSeq(s), f, s, n)
<1>1. PICK c \in [1..n -> Nat] : c = [i \in 1..n |-> Len(s[i])]
  <2>1. ASSUME NEW i \in 1..n PROVE Len(s[i]) \in Nat
    <3>1. s[i] \in Seq(S)
      OBVIOUS
    <3> QED
      BY <3>1, LenProperties
  <2> QED
    BY <2>1
<1>2. OffsetsUpTo(f, c, n) /\ \A i \in 1..n : f[i] \in Nat
  BY <1>1, OffsetsTyped
<1>3. PICK g : FlattenGrows(g, s)
  BY FlattenFollows
<1>4. Len(s) = n
  OBVIOUS
<1>0. \A i \in 2..n : g[i] = g[i - 1] \o s[i]
  BY <1>3, <1>4 DEF FlattenGrows
<1> DEFINE Good(l) == /\ g[l] \in Seq(S) /\ Len(g[l]) = f[l] + c[l]
                      /\ PiecesUpTo(g[l], f, s, l)
           T == {l \in Nat : l + 1 <= n => Good(l + 1)}
<1>5. f[1] = 0 /\ \A i \in 2..n : f[i] = f[i - 1] + c[i - 1]
  <2>1. f = [i \in 1..n |-> IF i = 1 THEN 0 ELSE f[i - 1] + c[i - 1]]
    BY <1>2 DEF OffsetsUpTo
  <2>2. 1 \in 1..n /\ \A i \in 2..n : i \in 1..n /\ i # 1
    OBVIOUS
  <2> QED
    BY <2>1, <2>2
<1>6. Good(1)
  <2>1. g[1] = s[1] /\ s[1] \in Seq(S) /\ c[1] = Len(s[1]) /\ c[1] \in Nat
    BY <1>1, <1>3 DEF FlattenGrows
  <2>2. PieceAt(s[1], 0, s[1])
    <3>1. \A k \in 1..Len(s[1]) : 0 + k = k
      BY <2>1
    <3> QED
      BY <2>1, <3>1 DEF PieceAt
  <2>3. \A i \in 1..1 : i = 1
    OBVIOUS
  <2> QED
    BY <1>5, <2>1, <2>2, <2>3 DEF PiecesUpTo
<1>7. ASSUME NEW l \in Nat \ {0}, l + 1 <= n, Good(l) PROVE Good(l + 1)
  <2>1. l + 1 \in 2..n /\ l + 1 - 1 = l /\ l \in 1..n /\ l + 1 \in 1..n
    BY <1>7
  <2>2. PICK p \in Seq(S), q \in Seq(S), t \in Seq(S) : p = g[l] /\ q = s[l + 1] /\ t = g[l + 1]
                                                       /\ t = p \o q
    <3>1. g[l] \in Seq(S) /\ s[l + 1] \in Seq(S)
      BY <1>7, <2>1
    <3>2. g[l + 1] = g[l] \o s[l + 1]
      <4>1. PICK j \in 2..n : j = l + 1 /\ j - 1 = l
        BY <2>1
      <4>2. g[j] = g[j - 1] \o s[j]
        BY <1>0
      <4> QED
        BY ONLY <4>1, <4>2
    <3> QED
      BY <3>1, <3>2, ConcatProperties
  <2>3. PICK m \in Nat, k \in Nat : m = Len(p) /\ k = Len(q)
    BY LenProperties
  <2>4. /\ Len(t) = m + k
        /\ \A i \in 1..(m + k) : t[i] = IF i <= m THEN p[i] ELSE q[i - m]
    <3>1. /\ Len(p \o q) = Len(p) + Len(q)
          /\ \A i \in 1..(Len(p) + Len(q)) : (p \o q)[i] = IF i <= Len(p) THEN p[i] ELSE q[i - Len(p)]
      BY ConcatProperties
    <3> QED
      BY ONLY <2>2, <2>3, <3>1
  <2>5. c[l + 1] = k /\ f[l + 1] = m
    <3>1. f[l + 1] = f[l] + c[l]
      <4>1. PICK j \in 2..n : j = l + 1 /\ j - 1 = l
        BY <2>1
      <4>2. f[j] = f[j - 1] + c[j - 1]
        BY <1>5
      <4> QED
        BY ONLY <4>1, <4>2
    <3> QED
      BY <1>1, <1>7, <2>1, <2>2, <2>3, <3>1
  <2>6. PieceAt(t, m, q)
    <3>1. ASSUME NEW i \in 1..k PROVE t[m + i] = q[i]
      <4>1. m + i \in 1..(m + k) /\ ~(m + i <= m) /\ m + i - m = i
        OBVIOUS
      <4> QED
        BY <2>4, <4>1
    <3>2. m + Len(q) <= Len(t)
      BY <2>3, <2>4
    <3>3. \A i \in 1..Len(q) : t[m + i] = q[i]
      BY <2>3, <3>1
    <3> QED
      BY <3>2, <3>3 DEF PieceAt
  <2>7. ASSUME NEW i \in 1..l PROVE PieceAt(t, f[i], s[i])
    <3>1. PieceAt(p, f[i], s[i])
      BY <1>7, <2>2 DEF PiecesUpTo
    <3>2. PICK at \in Nat, len \in Nat : at = f[i] /\ len = Len(s[i])
      <4>1. i \in 1..n
        BY <2>1
      <4> QED
        BY <1>1, <1>2, <4>1
    <3>3. at + len <= m /\ \A j \in 1..len : p[at + j] = s[i][j]
      BY <2>3, <3>1, <3>2 DEF PieceAt
    <3>4. ASSUME NEW j \in 1..len PROVE t[at + j] = s[i][j]
      <4>1. at + j \in 1..(m + k) /\ at + j <= m
        BY <3>3
      <4> QED
        BY <2>4, <3>3, <4>1
    <3>5. at + len <= m + k
      BY <3>3
    <3> QED
      BY <2>4, <3>2, <3>4, <3>5 DEF PieceAt
  <2>8. PiecesUpTo(t, f, s, l + 1)
    <3> SUFFICES ASSUME NEW i \in 1..(l + 1) PROVE PieceAt(t, f[i], s[i])
      BY DEF PiecesUpTo
    <3>1. i \in 1..l \/ i = l + 1
      OBVIOUS
    <3> QED
      BY <2>2, <2>5, <2>6, <2>7, <3>1
  <2> QED
    BY <2>2, <2>4, <2>5, <2>8
<1> HIDE DEF Good
<1>8. 0 \in T
  <2>1. 0 + 1 = 1
    OBVIOUS
  <2> QED
    BY <1>6, <2>1
<1>9. ASSUME NEW l \in T PROVE l + 1 \in T
  <2>1. l \in Nat /\ l + 1 \in Nat \ {0} /\ (l + 1 + 1 <= n => l + 1 <= n)
    OBVIOUS
  <2> QED
    BY <1>7, <2>1
<1>10. T \in SUBSET Nat
  OBVIOUS
<1> HIDE DEF T
<1>11. T = Nat
  BY <1>8, <1>9, <1>10, SetInduction
<1>12. Good(n)
  <2>1. n - 1 \in T /\ n - 1 + 1 = n /\ n <= n
    BY <1>11
  <2> QED
    BY <2>1 DEF T
<1> QED
  BY <1>3, <1>4, <1>12 DEF Good, FlattenGrows

\* Of pieces that follow each other, an earlier one ends where a later one begins, or before.
LEMMA OffsetsIncrease ==
    ASSUME NEW n \in Nat, NEW c \in [1..n -> Nat], NEW f, OffsetsUpTo(f, c, n),
           NEW i \in 1..n, NEW j \in 1..n, i < j
    PROVE  f[i] + c[i] <= f[j]
<1>1. \A k \in 1..n : f[k] \in Nat
  BY OffsetsTyped
<1>2. \A k \in 2..n : f[k] = f[k - 1] + c[k - 1]
  <2>1. f = [k \in 1..n |-> IF k = 1 THEN 0 ELSE f[k - 1] + c[k - 1]]
    BY DEF OffsetsUpTo
  <2>2. \A k \in 2..n : k \in 1..n /\ k # 1
    OBVIOUS
  <2> QED
    BY <2>1, <2>2
<1> DEFINE T == {l \in Nat : i + 1 + l <= n => f[i] + c[i] <= f[i + 1 + l]}
<1>3. 0 \in T
  <2>1. i + 1 + 0 = i + 1 /\ i + 1 - 1 = i /\ i + 1 \in 2..n
    OBVIOUS
  <2> QED
    BY <1>1, <1>2, <2>1
<1>4. ASSUME NEW l \in T PROVE l + 1 \in T
  <2> SUFFICES ASSUME i + 1 + (l + 1) <= n PROVE f[i] + c[i] <= f[i + 1 + (l + 1)]
    OBVIOUS
  <2>1. PICK k \in 2..n : k = i + 1 + (l + 1) /\ k - 1 = i + 1 + l /\ k - 1 \in 1..n
    OBVIOUS
  <2>2. f[i] + c[i] <= f[k - 1]
    BY <2>1
  <2>3. f[k] = f[k - 1] + c[k - 1]
    BY <1>2
  <2>4. f[k - 1] \in Nat /\ c[k - 1] \in Nat /\ f[i] \in Nat /\ c[i] \in Nat
    BY <1>1, <2>1
  <2>5. f[i] + c[i] <= f[k]
    BY <2>2, <2>3, <2>4
  <2> QED
    BY <2>1, <2>5
<1>5. T \in SUBSET Nat
  OBVIOUS
<1> HIDE DEF T
<1>6. T = Nat
  BY <1>3, <1>4, <1>5, SetInduction
<1>7. j - i - 1 \in T /\ i + 1 + (j - i - 1) = j /\ j <= n
  BY <1>6
<1> QED
  BY <1>7 DEF T

\* A third of the scales of an expert are those of one component.
LEMMA ScalesTyped ==
    ASSUME NEW scales \in Seq(Byte), NEW m \in Nat \ {0}, Len(scales) = 3 * m,
           NEW c \in {"down_proj", "gate_proj", "up_proj"}
    PROVE  ScalesOf(scales, c) \in Seq(Byte) /\ Len(ScalesOf(scales, c)) = m
<1> DEFINE k == CHOOSE i \in 1..3 : RecordComponents[i] = c
           n == Len(scales) \div 3
<1>1. k \in 1..3
  <2>1. \E i \in 1..3 : RecordComponents[i] = c
    <3>1. /\ RecordComponents[1] = "gate_proj" /\ RecordComponents[2] = "down_proj"
          /\ RecordComponents[3] = "up_proj"
      BY DEF RecordComponents
    <3> QED
      BY <3>1
  <2> QED
    BY <2>1
<1>2. n = m
  OBVIOUS
<1>3. ScalesOf(scales, c) = SubSeq(scales, (k - 1) * m + 1, k * m)
  BY <1>2 DEF ScalesOf
<1> HIDE DEF k, n
<1>4. PICK lo \in 1..Len(scales), hi \in 1..Len(scales) :
          lo = (k - 1) * m + 1 /\ hi = k * m /\ hi - lo + 1 = m
  <2>1. CASE k = 1
    BY <2>1
  <2>2. CASE k = 2
    BY <2>2
  <2>3. CASE k = 3
    BY <2>3
  <2> QED
    BY <1>1, <2>1, <2>2, <2>3
<1>5. Len(scales) \in Nat /\ \A i \in lo..hi : scales[i] \in Byte
  BY LenProperties, ElementOfSeq
<1>6. /\ SubSeq(scales, lo, hi) \in Seq(Byte)
      /\ Len(SubSeq(scales, lo, hi)) = IF lo <= hi THEN hi - lo + 1 ELSE 0
  <2>1. lo \in Int /\ hi \in Int
    OBVIOUS
  <2> QED
    BY <1>5, <2>1, SubSeqProperties
<1>7. lo <= hi
  BY <1>4
<1> QED
  BY <1>3, <1>4, <1>6, <1>7

-----------------------------------------------------------------------------
(* A native shard: the plan of an expert                                     *)

\* What a cell of a native shard can be.
AllTensors == UNION {TensorsOf(e) : e \in Ids}
Cells == Byte \union {WeightCell(t) : t \in AllTensors}

\* A tensor of an expert is named by its component and its part.
LEMMA TensorFields ==
    ASSUME NEW e, NEW t \in TensorsOf(e)
    PROVE  /\ t = Tensor(e, t.component, t.part)
           /\ t.expert = e
           /\ t.component \in {"down_proj", "gate_proj", "up_proj"}
           /\ t.part \in {"weight_packed", "weight_scale"}
<1>1. ToSet(Components) = {"down_proj", "gate_proj", "up_proj"}
  <2>1. /\ DOMAIN Components = 1..3 /\ Components[1] = "down_proj"
        /\ Components[2] = "gate_proj" /\ Components[3] = "up_proj"
    BY DEF Components
  <2> QED
    BY <2>1 DEF ToSet
<1>2. ToSet(Parts) = {"weight_packed", "weight_scale"}
  <2>1. DOMAIN Parts = 1..2 /\ Parts[1] = "weight_packed" /\ Parts[2] = "weight_scale"
    BY DEF Parts
  <2> QED
    BY <2>1 DEF ToSet
<1>3. PICK c \in {"down_proj", "gate_proj", "up_proj"}, p \in {"weight_packed", "weight_scale"} :
          t = Tensor(e, c, p)
  BY <1>1, <1>2 DEF TensorsOf
<1> QED
  BY <1>3 DEF Tensor

\* What a checkpoint has of a tensor is a sequence of cells that is not empty.
LEMMA OriginalTyped ==
    ASSUME sample \in Samples, NEW e \in Ids, NEW t \in TensorsOf(e)
    PROVE  /\ Original(t) \in Seq(Cells)
           /\ Len(Original(t)) \in Nat \ {0}
<1>1. /\ t.expert = e
      /\ t.component \in {"down_proj", "gate_proj", "up_proj"}
      /\ t.part \in {"weight_packed", "weight_scale"}
  BY TensorFields
<1>2. CASE t.part = "weight_scale"
  <2>1. Original(t) = ScalesOf(sample.scales[e], t.component)
    BY <1>1, <1>2 DEF Original
  <2>2. sample.scales[e] \in Seq(Byte)
    BY SamplesAssumption
  <2>3. PICK m \in 1..Len(sample.scales[e]) : Len(sample.scales[e]) = 3 * m
    BY SamplesAssumption
  <2>4. m \in Nat \ {0}
    OBVIOUS
  <2>5. PICK scales \in Seq(Byte) : scales = sample.scales[e]
    BY <2>2
  <2>6. Original(t) \in Seq(Byte) /\ Len(Original(t)) = m
    BY <1>1, <2>1, <2>3, <2>4, <2>5, ScalesTyped
  <2>7. Byte \subseteq Cells
    BY DEF Cells
  <2>8. Original(t) \in Seq(Cells)
    BY <2>6, <2>7, SeqMonotonic
  <2> QED
    BY <2>4, <2>6, <2>8
<1>3. CASE t.part # "weight_scale"
  <2>1. Original(t) = <<WeightCell(t)>>
    BY <1>3 DEF Original
  <2>2. PICK w \in Cells : w = WeightCell(t)
    BY DEF Cells, AllTensors
  <2>3. <<w>> \in Seq(Cells) /\ Len(<<w>>) = 1
    OBVIOUS
  <2> QED
    BY <2>1, <2>2, <2>3
<1> QED
  BY <1>2, <1>3

\* The tensors of an expert in a native shard, where they are in the file.
Sizes == [i \in 1..Len(sample.order) |-> Len(Original(sample.order[i]))]
TensorAt(f, i) == [name |-> sample.order[i], length |-> Len(Original(sample.order[i])),
                   offset |-> f[i]]
TensorsAt(f, e) ==
    {TensorAt(f, i) : i \in {j \in 1..Len(sample.order) : sample.order[j].expert = e}}
NativeAt(f, e) == /\ OffsetsUpTo(f, Sizes, Len(sample.order))
                  /\ NativeSource(e).ranges = Coalesce(TensorsAt(f, e))

\* Every tensor of the order of a shard has a length.
LEMMA SizesTyped ==
    ASSUME sample \in Samples
    PROVE  /\ Len(sample.order) \in Nat
           /\ sample.order \in [1..Len(sample.order) -> AllTensors]
           /\ Sizes \in [1..Len(sample.order) -> Nat \ {0}]
<1>1. sample.order \in Seq(AllTensors)
  BY SamplesAssumption DEF AllTensors
<1>2. Len(sample.order) \in Nat /\ sample.order \in [1..Len(sample.order) -> AllTensors]
  BY <1>1, LenProperties
<1>3. ASSUME NEW i \in 1..Len(sample.order) PROVE Len(Original(sample.order[i])) \in Nat \ {0}
  <2>1. PICK e \in Ids : sample.order[i] \in TensorsOf(e)
    BY <1>2 DEF AllTensors
  <2> QED
    BY <2>1, OriginalTyped
<1> QED
  BY <1>2, <1>3 DEF Sizes

\* The header of a native shard puts its tensors one after the other.
LEMMA NativePlaced ==
    ASSUME sample \in Samples, NEW e \in Ids
    PROVE  \E f : NativeAt(f, e)
<1>1. PICK n \in Nat : n = Len(sample.order)
  BY SizesTyped
<1>2. DOMAIN sample.order = 1..n /\ Sizes \in [1..n -> Nat]
  BY <1>1, SizesTyped
<1>3. PICK f : OffsetsUpTo(f, Sizes, n)
  BY <1>2, OffsetsExist
<1>4. f = [i \in 1..n |-> IF i = 1 THEN 0 ELSE f[i - 1] + Len(Original(sample.order[i - 1]))]
  <2>1. f = [i \in 1..n |-> IF i = 1 THEN 0 ELSE f[i - 1] + Sizes[i - 1]]
    BY <1>3 DEF OffsetsUpTo
  <2>2. \A i \in 1..n : i # 1 => Sizes[i - 1] = Len(Original(sample.order[i - 1]))
    BY <1>1 DEF Sizes
  <2> QED
    BY <2>1, <2>2
<1> DEFINE Follows(g) ==
               g = [i \in 1..Len(sample.order) |->
                       IF i = 1 THEN 0 ELSE g[i - 1] + Len(Original(sample.order[i - 1]))]
<1>5. PICK g : Follows(g) /\ NativeSource(e).ranges = Coalesce(TensorsAt(g, e))
  <2> DEFINE off[i \in 1..Len(sample.order)] ==
                 IF i = 1 THEN 0 ELSE off[i - 1] + Len(Original(sample.order[i - 1]))
  <2>1. NativeSource(e).ranges =
            Coalesce({[name |-> sample.order[i], length |-> Len(Original(sample.order[i])),
                       offset |-> off[i]] :
                        i \in {j \in DOMAIN sample.order : sample.order[j].expert = e}})
    BY DEF NativeSource
  <2>2. off = [i \in 1..Len(sample.order) |->
                  IF i = 1 THEN 0 ELSE off[i - 1] + Len(Original(sample.order[i - 1]))]
    BY <1>1, <1>4
  <2> HIDE DEF off
  <2>3. Follows(off)
    BY <2>2
  <2>4. NativeSource(e).ranges = Coalesce(TensorsAt(off, e))
    BY <1>1, <1>2, <2>1 DEF TensorsAt, TensorAt
  <2> HIDE DEF Follows
  <2> QED
    BY <2>3, <2>4
<1>6. OffsetsUpTo(g, Sizes, n)
  <2>1. \A i \in 1..n : i # 1 => Sizes[i - 1] = Len(Original(sample.order[i - 1]))
    BY <1>1 DEF Sizes
  <2>2. g = [i \in 1..n |-> IF i = 1 THEN 0 ELSE g[i - 1] + Len(Original(sample.order[i - 1]))]
    BY <1>1, <1>5
  <2>3. g = [i \in 1..n |-> IF i = 1 THEN 0 ELSE g[i - 1] + Sizes[i - 1]]
    BY <2>1, <2>2
  <2> QED
    BY <2>3 DEF OffsetsUpTo
<1> QED
  BY <1>1, <1>5, <1>6 DEF NativeAt

\* The plan of an expert has ranges of the tensors that are its own.
LEMMA NativeRanges ==
    ASSUME sample \in Samples, NEW e \in Ids, NEW f, NativeAt(f, e)
    PROVE  RangesOf(TensorsAt(f, e), NativeSource(e).ranges)
<1>1. PICK n \in Nat : n = Len(sample.order)
  BY SizesTyped
<1> DEFINE J == {j \in 1..n : sample.order[j].expert = e}
           T == {TensorAt(f, i) : i \in J}
<1>2. TensorsAt(f, e) = T
  BY <1>1 DEF TensorsAt
<1>3. IsFiniteSet(T)
  <2>1. IsFiniteSet(1..n)
    BY FS_Interval
  <2>2. J \in SUBSET (1..n)
    OBVIOUS
  <2>3. [i \in J |-> TensorAt(f, i)] \in Surjection(J, T)
    BY DEF Surjection
  <2> HIDE DEF J, T
  <2>4. IsFiniteSet(J)
    BY <2>1, <2>2, FS_Subset
  <2> QED
    BY <2>3, <2>4, FS_Surjection
<1>4. ASSUME NEW i \in 1..n
      PROVE  TensorAt(f, i).offset \in Nat /\ TensorAt(f, i).length \in Nat \ {0}
  <2>1. f[i] \in Nat
    <3>1. Sizes \in [1..n -> Nat]
      BY <1>1, SizesTyped
    <3>2. OffsetsUpTo(f, Sizes, n)
      BY <1>1 DEF NativeAt
    <3> QED
      BY <3>1, <3>2, OffsetsTyped
  <2>2. Len(Original(sample.order[i])) \in Nat \ {0}
    <3>1. Sizes[i] \in Nat \ {0} /\ Sizes[i] = Len(Original(sample.order[i]))
      BY <1>1, SizesTyped DEF Sizes
    <3> QED
      BY <3>1
  <2> QED
    BY <2>1, <2>2 DEF TensorAt
<1>5. \A t \in T : t.offset \in Nat /\ t.length \in Nat \ {0}
  BY <1>4
<1> HIDE DEF T
<1>6. RangesOf(T, Coalesce(T))
  BY <1>3, <1>5, CoalesceRanges
<1> QED
  BY <1>2, <1>6 DEF NativeAt

\* Coalesced tensors make ranges that are not empty.
LEMMA NativeSound ==
    ASSUME sample \in Samples, NEW e \in Ids
    PROVE  Sound(NativeSource(e).ranges)
<1>1. PICK f : NativeAt(f, e)
  BY NativePlaced
<1>2. RangesOf(TensorsAt(f, e), NativeSource(e).ranges)
  BY <1>1, NativeRanges
<1> QED
  BY <1>2 DEF Sound, RangesOf, IsRange

\* The file of a native shard, and what a range of it has.
NativeFile == Flatten(sample.order, Original)

Content(range) == SubSeq(file, range.offset + 1, range.offset + range.length)
SlicesAreTrue(range) ==
    \A t \in DOMAIN SlicesOf(range, Content(range)) :
        SlicesOf(range, Content(range))[t] = Original(t)

\* Cut out of a range by its offset in it, a tensor is what the header says is there.
LEMMA NativeSlices ==
    ASSUME sample \in Samples, file = NativeFile, NEW e \in Ids,
           NEW k \in 1..Len(NativeSource(e).ranges)
    PROVE  SlicesAreTrue(NativeSource(e).ranges[k])
<1> SUFFICES ASSUME NEW r, r = NativeSource(e).ranges[k], NEW got, got = Content(r),
                    NEW t \in DOMAIN SlicesOf(r, got)
             PROVE  SlicesOf(r, got)[t] = Original(t)
  BY DEF SlicesAreTrue
<1>0. got = SubSeq(file, r.offset + 1, r.offset + r.length)
  BY DEF Content
<1>1. PICK n \in Nat : n = Len(sample.order)
  BY SizesTyped
<1>2. PICK f : NativeAt(f, e)
  BY NativePlaced
<1>3. IsRange(TensorsAt(f, e), r)
  BY <1>2, NativeRanges DEF RangesOf
<1>4. DOMAIN SlicesOf(r, got) = {x.name : x \in r.tensors}
  BY DEF SlicesOf
<1>5. PICK placed \in r.tensors :
          /\ placed.name = t
          /\ SlicesOf(r, got)[t] = SubSeq(got, placed.offset - r.offset + 1,
                                          placed.offset - r.offset + placed.length)
  <2> DEFINE p == CHOOSE x \in r.tensors : x.name = t
  <2>1. p \in r.tensors /\ p.name = t
    BY <1>4
  <2>2. SlicesOf(r, got)[t] = SubSeq(got, p.offset - r.offset + 1, p.offset - r.offset + p.length)
    BY <1>4 DEF SlicesOf
  <2> HIDE DEF p
  <2> QED
    BY <2>1, <2>2
<1>6. PICK last \in Nat : last = r.offset + r.length
  BY <1>3 DEF IsRange
<1>7. /\ r.offset \in Nat
      /\ placed \in TensorsAt(f, e) /\ r.offset <= placed.offset /\ placed.offset < last
      /\ \E u \in TensorsAt(f, e) : u.offset + u.length = last
  BY <1>3, <1>6 DEF IsRange
<1>8. PICK i \in 1..n : placed = TensorAt(f, i)
  BY <1>1, <1>7 DEF TensorsAt
<1>9. PICK j \in 1..n : f[j] + Len(Original(sample.order[j])) = last
  <2>1. PICK j \in 1..n : TensorAt(f, j).offset + TensorAt(f, j).length = last
    BY <1>1, <1>7 DEF TensorsAt
  <2> QED
    BY <2>1 DEF TensorAt
<1> DEFINE s == [l \in 1..n |-> Original(sample.order[l])]
<1>10. s \in [1..n -> Seq(Cells)]
  <2>1. ASSUME NEW l \in 1..n PROVE Original(sample.order[l]) \in Seq(Cells)
    <3>1. PICK x \in Ids : sample.order[l] \in TensorsOf(x)
      BY <1>1, SizesTyped DEF AllTensors
    <3> QED
      BY <3>1, OriginalTyped
  <2> QED
    BY <2>1
<1>11. /\ OffsetsUpTo(f, Sizes, n) /\ Sizes \in [1..n -> Nat]
       /\ Sizes = [l \in 1..n |-> Len(s[l])]
       /\ Sizes[i] = Len(s[i]) /\ Sizes[j] = Len(s[j])
  BY <1>1, <1>2, SizesTyped DEF NativeAt, Sizes
<1>12. file = FlattenSeq(s)
  <2>1. DOMAIN sample.order = 1..n
    BY <1>1, SizesTyped
  <2> QED
    BY <2>1 DEF NativeFile, Flatten
<1>13. n \in Nat \ {0}
  BY <1>8
<1>14. s[i] = Original(t) /\ s[j] = Original(sample.order[j])
       /\ placed.offset = f[i] /\ placed.length = Len(s[i])
  BY <1>5, <1>8 DEF TensorAt
<1> HIDE DEF s
<1>15. file \in Seq(Cells) /\ PieceAt(file, f[i], s[i]) /\ PieceAt(file, f[j], s[j])
  <2>1. FlattenSeq(s) \in Seq(Cells) /\ PiecesUpTo(FlattenSeq(s), f, s, n)
    <3>1. OffsetsUpTo(f, [l \in 1..n |-> Len(s[l])], n)
      BY <1>11
    <3> QED
      BY <1>10, <1>13, <3>1, FlattenPieces
  <2> QED
    BY <1>12, <2>1 DEF PiecesUpTo
<1>16. f[i] \in Nat /\ f[j] \in Nat /\ Len(s[i]) \in Nat /\ Len(s[j]) \in Nat
  <2>1. \A l \in 1..n : f[l] \in Nat
    BY <1>11, OffsetsTyped
  <2> QED
    BY <1>11, <2>1
<1>17. f[j] + Len(s[j]) = last
  BY <1>9, <1>14
<1>18. f[i] + Len(s[i]) <= last
  <2>1. CASE j < i
    <3>1. f[j] + Sizes[j] <= f[i]
      BY <1>11, <2>1, OffsetsIncrease
    <3>2. f[j] + Len(s[j]) <= f[i] /\ f[i] < last
      BY <1>7, <1>11, <1>14, <3>1
    <3> QED
      BY <1>16, <1>17, <3>2
  <2>2. CASE i < j
    <3>1. f[i] + Sizes[i] <= f[j]
      BY <1>11, <2>2, OffsetsIncrease
    <3>2. f[i] + Len(s[i]) <= f[j]
      BY <1>11, <3>1
    <3> QED
      BY <1>16, <1>17, <3>2
  <2>3. CASE i = j
    BY <1>16, <1>17, <2>3
  <2> QED
    BY <2>1, <2>2, <2>3
<1>19. last <= Len(file)
  BY <1>15, <1>17 DEF PieceAt
<1>20. SubSeq(SubSeq(file, r.offset + 1, last), f[i] - r.offset + 1,
              f[i] - r.offset + Len(s[i])) = s[i]
  <2>1. r.offset <= f[i] /\ s[i] \in Seq(Cells)
    BY <1>7, <1>10, <1>14
  <2> QED
    BY <1>7, <1>15, <1>16, <1>18, <1>19, <2>1, PieceOfSlice
<1> QED
  BY <1>0, <1>5, <1>6, <1>14, <1>20

-----------------------------------------------------------------------------
(* The records of the codec                                                  *)

LEMMA DivFacts ==
    ASSUME NEW a \in Int, NEW b \in Nat \ {0}
    PROVE  /\ a \div b \in Int
           /\ (a \div b) * b <= a
           /\ a < (a \div b) * b + b
OBVIOUS

LEMMA TimesMonotonic ==
    ASSUME NEW x \in Int, NEW y \in Int, NEW b \in Nat, x <= y
    PROVE  x * b <= y * b /\ x * b \in Int /\ y * b \in Int
OBVIOUS

LEMMA DivIs ==
    ASSUME NEW a \in Int, NEW b \in Nat \ {0}, NEW q \in Int, q * b <= a, a < q * b + b
    PROVE  a \div b = q
<1> DEFINE d == a \div b
<1>1. d \in Int /\ d * b <= a /\ a < d * b + b
  BY DivFacts
<1> HIDE DEF d
<1>2. q * b \in Int /\ d * b \in Int
  BY <1>1
<1>3. ASSUME d < q PROVE FALSE
  <2>1. d + 1 <= q /\ d + 1 \in Int /\ (d + 1) * b = d * b + b
    BY <1>1, <1>3
  <2>2. (d + 1) * b <= q * b
    BY <2>1, TimesMonotonic
  <2> QED
    BY <1>1, <1>2, <2>1, <2>2
<1>4. ASSUME q < d PROVE FALSE
  <2>1. q + 1 <= d /\ q + 1 \in Int /\ (q + 1) * b = q * b + b
    BY <1>1, <1>4
  <2>2. (q + 1) * b <= d * b
    BY <1>1, <2>1, TimesMonotonic
  <2> QED
    BY <1>1, <1>2, <2>1, <2>2
<1>5. d = q
  BY <1>1, <1>3, <1>4
<1> QED
  BY <1>5 DEF d

LEMMA CeilDivTyped == ASSUME NEW a \in Nat, NEW b \in Nat \ {0} PROVE CeilDiv(a, b) \in Nat
<1>1. a + b - 1 \in Nat /\ (a + b - 1) \div b \in Int /\ a + b - 1 < ((a + b - 1) \div b) * b + b
  BY DivFacts
<1>2. ASSUME (a + b - 1) \div b < 0 PROVE FALSE
  <2> DEFINE q == (a + b - 1) \div b
  <2>1. q \in Int /\ q <= -1
    BY <1>1, <1>2
  <2> HIDE DEF q
  <2>2. q * b <= (-1) * b /\ q * b \in Int
    BY <2>1, TimesMonotonic
  <2> QED
    BY <1>1, <2>2 DEF q
<1> QED
  BY <1>1, <1>2 DEF CeilDiv

\* Packing half as many codes into a byte takes as many bytes as packing bits of twice the length.
LEMMA CeilDivDouble ==
    ASSUME NEW a \in Nat, NEW b \in Nat \ {0}
    PROVE  CeilDiv(a, b) = CeilDiv(a * 2, 2 * b)
<1> DEFINE q == (a + b - 1) \div b
<1>1. q \in Int /\ q * b <= a + b - 1 /\ a + b - 1 < q * b + b /\ q * b \in Int
  BY DivFacts
<1> HIDE DEF q
<1>2. q * (2 * b) = 2 * (q * b)
  BY <1>1
<1>3. q * (2 * b) <= a * 2 + 2 * b - 1 /\ a * 2 + 2 * b - 1 < q * (2 * b) + 2 * b
  BY <1>1, <1>2
<1>4. (a * 2 + 2 * b - 1) \div (2 * b) = q
  <2>1. a * 2 + 2 * b - 1 \in Int /\ 2 * b \in Nat \ {0}
    OBVIOUS
  <2> QED
    BY <1>1, <1>3, <2>1, DivIs
<1> QED
  BY <1>4 DEF CeilDiv, q

-----------------------------------------------------------------------------
(* Codes packed into bytes, and taken out of them                            *)

\* A digit comes off a number by division and remainder.
LEMMA DigitComesOff ==
    ASSUME NEW base \in {2, 4}, NEW x \in Nat, NEW d \in 0..(base - 1)
    PROVE  /\ base * x + d \in Nat
           /\ (base * x + d) \div base = x
           /\ (base * x + d) % base = d
<1>1. CASE base = 2
  BY <1>1
<1>2. CASE base = 4
  BY <1>2
<1> QED
  BY <1>1, <1>2

\* The bytes of Pack and the shifts of Unpack, for n digits d of a base.
LastAre(last, d, base, n) ==
    last = [k \in 0..n |-> IF k = 0 THEN 0 ELSE base * last[k - 1] + d[k]]
ShiftsAre(shifted, byte, base, n) ==
    shifted = [k \in 0..n |-> IF k = 0 THEN byte ELSE shifted[k - 1] \div base]

DigitsShow(shifted, d, base, n) == \A k \in 0..(n - 1) : shifted[k] % base = d[n - k]

\* The two functions exist: what a byte has become after each of its digits, and what
\* shifting it by one more digit leaves.
LEMMA LastExist ==
    ASSUME NEW base \in {2, 4}, NEW n \in Nat, NEW d \in [1..n -> 0..(base - 1)]
    PROVE  \E last \in [0..n -> Nat] : LastAre(last, d, base, n)
<1> DEFINE step == [l \in 1..n |-> [x \in Nat |-> base * x + d[l]]]
<1>1. step \in [1..n -> [Nat -> Nat]]
  <2>1. ASSUME NEW l \in 1..n, NEW x \in Nat PROVE base * x + d[l] \in Nat
    <3>1. d[l] \in 0..(base - 1)
      OBVIOUS
    <3> QED
      BY <3>1, DigitComesOff
  <2> QED
    BY <2>1
<1> HIDE DEF step
<1>2. PICK f \in [0..n -> Nat] : FollowsUpTo(f, 0, step, n)
  BY <1>1, RecursionExists
<1>3. ASSUME NEW k \in 0..n PROVE f[k] = IF k = 0 THEN 0 ELSE base * f[k - 1] + d[k]
  <2>1. CASE k = 0
    BY <1>2, <2>1 DEF FollowsUpTo
  <2>2. CASE k # 0
    <3>1. k \in 1..n /\ k - 1 \in 0..n
      BY <2>2
    <3>2. f[k] = step[k][f[k - 1]] /\ f[k - 1] \in Nat
      BY <1>2, <3>1 DEF FollowsUpTo
    <3> QED
      BY <2>2, <3>1, <3>2 DEF step
  <2> QED
    BY <2>1, <2>2
<1>4. f = [k \in 0..n |-> IF k = 0 THEN 0 ELSE base * f[k - 1] + d[k]]
  BY <1>3
<1> QED
  BY <1>4 DEF LastAre

\* What has been packed of a byte is a number that fits into it.
LEMMA LastTyped ==
    ASSUME NEW base \in {2, 4}, NEW n \in Nat, NEW d \in [1..n -> 0..(base - 1)],
           NEW last, LastAre(last, d, base, n)
    PROVE  /\ \A k \in 0..n : last[k] \in Nat
           /\ \A k \in 1..n : last[k] = base * last[k - 1] + d[k]
<1>1. last[0] = 0 /\ \A k \in 1..n : last[k] = base * last[k - 1] + d[k]
  <2>1. last = [k \in 0..n |-> IF k = 0 THEN 0 ELSE base * last[k - 1] + d[k]]
    BY DEF LastAre
  <2>2. 0 \in 0..n /\ \A k \in 1..n : k \in 0..n /\ k # 0
    OBVIOUS
  <2> QED
    BY <2>1, <2>2
<1>2. ASSUME NEW k \in 1..n, last[k - 1] \in Nat PROVE last[k] \in Nat
  <2>1. d[k] \in 0..(base - 1)
    OBVIOUS
  <2> QED
    BY <1>1, <1>2, <2>1, DigitComesOff
<1>3. \A k \in 1..n : last[k - 1] \in Nat => last[k] \in Nat
  BY <1>2
<1>4. last[0] \in Nat
  BY <1>1
<1> QED
  BY <1>1, <1>3, <1>4, StaysIn

LEMMA ShiftsExist ==
    ASSUME NEW base \in {2, 4}, NEW n \in Nat, NEW byte \in Nat
    PROVE  \E shifted : ShiftsAre(shifted, byte, base, n)
<1> DEFINE step == [l \in 1..n |-> [x \in Nat |-> x \div base]]
<1>1. step \in [1..n -> [Nat -> Nat]]
  <2>1. ASSUME NEW x \in Nat PROVE x \div base \in Nat
    <3>1. CASE base = 2
      BY <3>1
    <3>2. CASE base = 4
      BY <3>2
    <3> QED
      BY <3>1, <3>2
  <2> QED
    BY <2>1
<1> HIDE DEF step
<1>2. PICK f \in [0..n -> Nat] : FollowsUpTo(f, byte, step, n)
  BY <1>1, RecursionExists
<1>3. ASSUME NEW k \in 0..n PROVE f[k] = IF k = 0 THEN byte ELSE f[k - 1] \div base
  <2>1. CASE k = 0
    BY <1>2, <2>1 DEF FollowsUpTo
  <2>2. CASE k # 0
    <3>1. k \in 1..n /\ k - 1 \in 0..n
      BY <2>2
    <3>2. f[k] = step[k][f[k - 1]] /\ f[k - 1] \in Nat
      BY <1>2, <3>1 DEF FollowsUpTo
    <3> QED
      BY <2>2, <3>1, <3>2 DEF step
  <2> QED
    BY <2>1, <2>2
<1>4. f = [k \in 0..n |-> IF k = 0 THEN byte ELSE f[k - 1] \div base]
  BY <1>3
<1> QED
  BY <1>4 DEF ShiftsAre

\* Shifting the packed byte brings each digit down in turn, the last one packed first.
LEMMA ShiftsBringDigits ==
    ASSUME NEW base \in {2, 4}, NEW n \in Nat, NEW d \in [1..n -> 0..(base - 1)],
           NEW last, LastAre(last, d, base, n),
           NEW shifted, ShiftsAre(shifted, last[n], base, n)
    PROVE  DigitsShow(shifted, d, base, n)
<1>1. /\ \A k \in 0..n : last[k] \in Nat
      /\ \A k \in 1..n : last[k] = base * last[k - 1] + d[k]
  BY LastTyped, ZenonT(30)
<1>2. shifted[0] = last[n] /\ \A k \in 1..n : shifted[k] = shifted[k - 1] \div base
  <2>1. shifted = [k \in 0..n |-> IF k = 0 THEN last[n] ELSE shifted[k - 1] \div base]
    BY DEF ShiftsAre
  <2>2. 0 \in 0..n /\ \A k \in 1..n : k \in 0..n /\ k # 0
    OBVIOUS
  <2> QED
    BY <2>1, <2>2
<1>3. ASSUME NEW k \in 0..(n - 1)
      PROVE  /\ last[n - k] \div base = last[n - (k + 1)]
             /\ last[n - k] % base = d[n - k]
  <2>1. n - k \in 1..n /\ n - k - 1 \in 0..n /\ n - k - 1 = n - (k + 1)
    OBVIOUS
  <2>2. PICK x \in Nat, y \in 0..(base - 1) : x = last[n - k - 1] /\ y = d[n - k]
    BY <1>1, <2>1
  <2>3. last[n - k] = base * x + y
    BY <1>1, <2>1, <2>2
  <2>4. (base * x + y) \div base = x /\ (base * x + y) % base = y
    BY DigitComesOff
  <2>5. last[n - (k + 1)] = x
    BY <2>1, <2>2
  <2> QED
    BY <2>2, <2>3, <2>4, <2>5
<1> DEFINE T == {k \in Nat : k <= n => shifted[k] = last[n - k]}
<1>4. 0 \in T
  BY <1>2
<1>5. ASSUME NEW k \in T PROVE k + 1 \in T
  <2> SUFFICES ASSUME k + 1 <= n PROVE shifted[k + 1] = last[n - (k + 1)]
    OBVIOUS
  <2>1. k \in 0..(n - 1) /\ k + 1 \in 1..n /\ k + 1 - 1 = k /\ shifted[k] = last[n - k]
    OBVIOUS
  <2> QED
    BY <1>2, <1>3, <2>1
<1>6. T \in SUBSET Nat
  OBVIOUS
<1> HIDE DEF T
<1>7. T = Nat
  BY <1>4, <1>5, <1>6, SetInduction
<1>8. ASSUME NEW k \in 0..(n - 1) PROVE shifted[k] = last[n - k]
  <2>1. k \in T /\ k <= n
    BY <1>7
  <2> QED
    BY <2>1 DEF T
<1> QED
  BY <1>3, <1>8 DEF DigitsShow

\* Division and remainder of a number by the number of codes in a byte.
LEMMA DivMod ==
    ASSUME NEW a \in Nat, NEW b \in Nat \ {0}
    PROVE  \E q \in Nat, r \in 0..(b - 1) : q = a \div b /\ r = a % b /\ a = q * b + r
<1>1. PICK q \in Nat : q = a \div b
  <2>1. a \div b \in Int /\ a \div b >= 0
    OBVIOUS
  <2> QED
    BY <2>1
<1>2. a % b = a - q * b
  BY <1>1
<1>3. PICK r \in 0..(b - 1) : r = a % b
  <2>1. a % b \in Int /\ a % b >= 0 /\ a % b < b
    OBVIOUS
  <2> QED
    BY <2>1
<1>4. PICK p \in Int : p = q * b
  OBVIOUS
<1>5. r = a - p
  BY <1>2, <1>3, <1>4
<1>6. a = p + r
  BY <1>5
<1>7. a = q * b + r
  BY ONLY <1>4, <1>6
<1> QED
  BY ONLY <1>1, <1>3, <1>7

\* A byte holds a whole number of codes of one bit or of two.
LEMMA CodesPerByte ==
    ASSUME NEW bits \in {1, 2}
    PROVE  /\ ByteBits \div bits \in Nat \ {0}
           /\ 2^bits \in {2, 4}
<1>1. ByteBits \in Nat \ {0} /\ ByteBits % 2 = 0
  BY CodecAssumption
<1>2. CASE bits = 1
  <2>1. 2^1 = 2
    OBVIOUS
  <2> QED
    BY <1>1, <1>2, <2>1
<1>3. CASE bits = 2
  <2>1. 2^2 = 4
    OBVIOUS
  <2> QED
    BY <1>1, <1>3, <2>1
<1> QED
  BY <1>2, <1>3

\* The code at position i is in byte (i - 1) div n, at place (i - 1) % n of it.
LEMMA PlaceOfCode ==
    ASSUME NEW len \in Nat, NEW n \in Nat \ {0}, NEW i \in 1..len
    PROVE  \E j \in 1..CeilDiv(len, n), r \in 0..(n - 1) :
               j = (i - 1) \div n + 1 /\ r = (i - 1) % n /\ j * n - (n - r) + 1 = i
<1>1. i - 1 \in Nat
  OBVIOUS
<1>2. PICK q \in Nat, r \in 0..(n - 1) : /\ q = (i - 1) \div n /\ r = (i - 1) % n
                                        /\ i - 1 = q * n + r
  BY <1>1, DivMod
<1>3. PICK m \in Int : m = CeilDiv(len, n) /\ len + n - 1 < m * n + n
  BY DivFacts DEF CeilDiv
<1>4. q * n \in Int /\ m * n \in Int /\ (q + 1) * n = q * n + n
  OBVIOUS
<1>5. q + 1 <= m
  <2> SUFFICES ASSUME m <= q PROVE FALSE
    BY <1>2, <1>3
  <2>1. m * n <= q * n
    BY TimesMonotonic
  <2> QED
    BY <1>2, <1>3, <1>4, <2>1
<1>6. (q + 1) * n - (n - r) + 1 = i
  BY <1>2, <1>4
<1>7. q + 1 \in 1..m
  BY <1>5
<1>8. PICK j \in 1..m : j = q + 1
  BY <1>7
<1> QED
  BY <1>2, <1>3, <1>6, <1>8

\* decode_mode_a takes out of each byte the codes that encode_mode_a put into it.
LEMMA UnpackUndoesPack ==
    ASSUME NEW len \in Nat, NEW bits \in {1, 2}, NEW codes \in [1..len -> 0..(2^bits - 1)]
    PROVE  /\ Len(Pack(codes, bits)) = CeilDiv(len, ByteBits \div bits)
           /\ Unpack(Pack(codes, bits), bits, len) = codes
<1> DEFINE n == ByteBits \div bits
<1>1. n \in Nat \ {0}
  BY CodesPerByte
<1>2. PICK base \in {2, 4} : base = 2^bits
  BY CodesPerByte
<1>3. Len(codes) = len
  OBVIOUS
<1>4. PICK m \in Nat : m = CeilDiv(len, n)
  BY <1>1, CeilDivTyped
<1> DEFINE code(i) == IF i <= Len(codes) THEN codes[i] ELSE 0
           digits(j) == [k \in 1..n |-> code(j * n - k + 1)]
           LastOf(j) ==
               LET last[k \in 0..n] ==
                       IF k = 0 THEN 0 ELSE 2^bits * last[k - 1] + code(j * n - k + 1)
               IN  last
           ShiftsOf(byte) ==
               LET shifted[k \in 0..n] == IF k = 0 THEN byte ELSE shifted[k - 1] \div 2^bits
               IN  shifted
           bytes == Pack(codes, bits)
<1>5. bytes = [j \in 1..m |-> LastOf(j)[n]]
  BY <1>3, <1>4 DEF Pack
<1> HIDE DEF bytes
<1>6. Unpack(bytes, bits, len)
          = [i \in 1..len |-> ShiftsOf(bytes[(i - 1) \div n + 1])[(i - 1) % n] % 2^bits]
  BY DEF Unpack
<1> HIDE DEF n
<1> USE <1>1
<1>7. ASSUME NEW j \in 1..m
      PROVE  digits(j) \in [1..n -> 0..(base - 1)] /\ LastAre(LastOf(j), digits(j), base, n)
  <2>1. ASSUME NEW k \in 1..n PROVE code(j * n - k + 1) \in 0..(base - 1)
    <3>1. j * n - k + 1 \in Nat \ {0}
      <4>1. 1 * n <= j * n /\ j * n \in Int
        BY TimesMonotonic
      <4> QED
        BY <4>1
    <3>2. PICK i \in Nat \ {0} : i = j * n - k + 1
      BY <3>1
    <3>3. code(i) \in 0..(base - 1)
      <4>1. CASE i <= len
        BY <1>2, <1>3, <4>1
      <4>2. CASE ~(i <= len)
        BY <1>3, <4>2
      <4> QED
        BY <4>1, <4>2
    <3> QED
      BY <3>2, <3>3
  <2> HIDE DEF code
  <2>2. digits(j) \in [1..n -> 0..(base - 1)]
    BY <2>1
  <2>3. \A k \in 1..n : digits(j)[k] = code(j * n - k + 1)
    OBVIOUS
  <2> HIDE DEF digits
  <2>4. PICK f \in [0..n -> Nat] : LastAre(f, digits(j), base, n)
    BY <2>2, LastExist
  <2>5. f = [k \in 0..n |-> IF k = 0 THEN 0 ELSE base * f[k - 1] + code(j * n - k + 1)]
    <3>1. f = [k \in 0..n |-> IF k = 0 THEN 0 ELSE base * f[k - 1] + digits(j)[k]]
      BY <2>4 DEF LastAre
    <3>2. ASSUME NEW k \in 0..n
          PROVE  f[k] = IF k = 0 THEN 0 ELSE base * f[k - 1] + code(j * n - k + 1)
      <4>1. k # 0 => k \in 1..n
        OBVIOUS
      <4> QED
        BY <2>3, <3>1, <4>1
    <3> QED
      BY <2>4, <3>2
  <2> DEFINE last[k \in 0..n] == IF k = 0 THEN 0 ELSE 2^bits * last[k - 1] + code(j * n - k + 1)
  <2>6. LastOf(j) = last
    OBVIOUS
  <2> HIDE DEF LastOf
  <2>7. f = [k \in 0..n |-> IF k = 0 THEN 0 ELSE 2^bits * f[k - 1] + code(j * n - k + 1)]
    BY <1>2, <2>5
  <2>8. last = [k \in 0..n |-> IF k = 0 THEN 0 ELSE 2^bits * last[k - 1] + code(j * n - k + 1)]
    BY <2>7
  <2> HIDE DEF last
  <2>9. last = [k \in 0..n |-> IF k = 0 THEN 0 ELSE base * last[k - 1] + digits(j)[k]]
    BY <1>2, <2>3, <2>8
  <2>10. LastAre(LastOf(j), digits(j), base, n)
    BY <2>6, <2>9 DEF LastAre
  <2> QED
    BY <2>2, <2>10
<1>8. ASSUME NEW byte \in Nat
      PROVE  ShiftsAre(ShiftsOf(byte), byte, base, n)
  <2>1. PICK g : ShiftsAre(g, byte, base, n)
    BY ShiftsExist
  <2>2. g = [k \in 0..n |-> IF k = 0 THEN byte ELSE g[k - 1] \div base]
    BY <2>1 DEF ShiftsAre
  <2>3. ShiftsOf(byte) = [k \in 0..n |-> IF k = 0 THEN byte ELSE ShiftsOf(byte)[k - 1] \div base]
    BY <1>2, <2>2
  <2> HIDE DEF ShiftsOf
  <2> QED
    BY <2>3 DEF ShiftsAre
<1>9. \A j, k \in Int : k \in 1..n => digits(j)[k] = code(j * n - k + 1)
  OBVIOUS
<1> HIDE DEF LastOf, ShiftsOf, digits, bytes
<1>10. ASSUME NEW i \in 1..len
       PROVE  ShiftsOf(bytes[(i - 1) \div n + 1])[(i - 1) % n] % 2^bits = codes[i]
  <2>1. PICK j \in 1..m, r \in 0..(n - 1) :
            j = (i - 1) \div n + 1 /\ r = (i - 1) % n /\ j * n - (n - r) + 1 = i
    BY <1>4, PlaceOfCode
  <2>2. bytes[j] = LastOf(j)[n]
    BY <1>5
  <2>3. LastOf(j)[n] \in Nat
    <3>1. n \in 0..n
      OBVIOUS
    <3> QED
      BY <1>7, <3>1, LastTyped
  <2>4. ShiftsAre(ShiftsOf(bytes[j]), LastOf(j)[n], base, n)
    BY <1>8, <2>2, <2>3
  <2>5. \A k \in 0..(n - 1) : ShiftsOf(bytes[j])[k] % base = digits(j)[n - k]
    <3>1. PICK d : d = digits(j)
      OBVIOUS
    <3>2. PICK last : last = LastOf(j)
      OBVIOUS
    <3>3. PICK shifted : shifted = ShiftsOf(bytes[j])
      OBVIOUS
    <3>4. d \in [1..n -> 0..(base - 1)] /\ LastAre(last, d, base, n)
      BY <1>7, <3>1, <3>2
    <3>5. ShiftsAre(shifted, last[n], base, n)
      BY <2>4, <3>2, <3>3
    <3>6. n \in Nat
      BY <1>1
    <3>7. \A k \in 0..(n - 1) : shifted[k] % base = d[n - k]
      <4>1. DigitsShow(shifted, d, base, n)
        BY <3>4, <3>5, <3>6, ShiftsBringDigits
      <4> QED
        BY <4>1 DEF DigitsShow
    <3> QED
      BY <3>1, <3>3, <3>7
  <2>6. ShiftsOf(bytes[j])[r] % base = digits(j)[n - r]
    BY <2>5
  <2>7. n - r \in 1..n
    OBVIOUS
  <2>8. digits(j)[n - r] = code(i)
    <3>1. digits(j)[n - r] = code(j * n - (n - r) + 1)
      <4>1. j \in Int /\ n - r \in Int
        OBVIOUS
      <4> HIDE DEF code
      <4> QED
        BY <1>9, <2>7, <4>1
    <3> QED
      BY <2>1, <3>1
  <2>9. code(i) = codes[i]
    BY <1>3
  <2> QED
    BY <1>2, <2>1, <2>6, <2>8, <2>9
<1>11. Unpack(bytes, bits, len) = codes
  <2>1. Unpack(bytes, bits, len) = [i \in 1..len |-> codes[i]]
    BY <1>6, <1>10
  <2> QED
    BY <2>1
<1>12. Len(bytes) = m
  BY <1>5
<1> QED
  BY <1>4, <1>11, <1>12 DEF bytes, n

-----------------------------------------------------------------------------
(* The exceptions, and the records                                           *)

\* Positions as a function of how much of the sequence has been looked at.
PositionsGrow(g, s, values) ==
    /\ g \in [0..Len(s) -> Seq(Nat)]
    /\ Positions(s, values) = g[Len(s)]
    /\ g[0] = <<>>
    /\ \A i \in 1..Len(s) :
          g[i] = IF s[i] \in values THEN g[i - 1] ELSE Append(g[i - 1], i - 1)

\* The positions of a sequence are those of one element less, and perhaps one more.
LEMMA PositionsFollow ==
    ASSUME NEW S, NEW s \in Seq(S), NEW values
    PROVE  \E g : PositionsGrow(g, s, values)
<1> DEFINE Skip(q, l) == IF s[l] \in values THEN q ELSE Append(q, l - 1)
           step == [l \in 1..Len(s) |-> [q \in Seq(Nat) |-> Skip(q, l)]]
<1>1. Len(s) \in Nat
  BY LenProperties
<1>2. ASSUME NEW l \in 1..Len(s), NEW q \in Seq(Nat) PROVE Skip(q, l) \in Seq(Nat)
  <2>1. l - 1 \in Nat
    BY <1>1
  <2>2. Append(q, l - 1) \in Seq(Nat)
    BY <2>1, AppendProperties
  <2> QED
    BY <2>2
<1>3. step \in [1..Len(s) -> [Seq(Nat) -> Seq(Nat)]]
  <2> HIDE DEF Skip
  <2> QED
    BY <1>2
<1>4. <<>> \in Seq(Nat)
  BY EmptySeq
<1> HIDE DEF step
<1>5. PICK f \in [0..Len(s) -> Seq(Nat)] : FollowsUpTo(f, <<>>, step, Len(s))
  BY <1>1, <1>3, <1>4, RecursionExists
<1> DEFINE Follows(g) ==
               g = [i \in 0..Len(s) |->
                       IF i = 0 THEN <<>>
                       ELSE IF s[i] \in values THEN g[i - 1] ELSE Append(g[i - 1], i - 1)]
<1>6. Follows(f)
  <2>1. ASSUME NEW i \in 0..Len(s)
        PROVE  f[i] = IF i = 0 THEN <<>>
                      ELSE IF s[i] \in values THEN f[i - 1] ELSE Append(f[i - 1], i - 1)
    <3>1. CASE i = 0
      BY <1>5, <3>1 DEF FollowsUpTo
    <3>2. CASE i # 0
      <4>1. i \in 1..Len(s) /\ f[i - 1] \in Seq(Nat)
        BY <1>1, <3>2
      <4>2. f[i] = Skip(f[i - 1], i)
        BY <1>5, <4>1 DEF FollowsUpTo, step
      <4> QED
        BY <3>2, <4>2
    <3> QED
      BY <3>1, <3>2
  <2> QED
    BY <2>1
<1>7. PICK g : Follows(g) /\ Positions(s, values) = g[Len(s)]
  BY <1>6 DEF Positions
<1>8. g[0] = <<>>
  BY <1>1, <1>7
<1>9. ASSUME NEW l \in 1..Len(s)
      PROVE  g[l] = Skip(g[l - 1], l) /\ (g[l - 1] \in Seq(Nat) => g[l] \in Seq(Nat))
  <2>0. l \in 0..Len(s) /\ l # 0
    BY <1>1
  <2>1. g[l] = Skip(g[l - 1], l)
    BY <1>7, <2>0
  <2> HIDE DEF Skip
  <2> QED
    BY <1>2, <2>1
<1>10. \A l \in 0..Len(s) : g[l] \in Seq(Nat)
  <2>1. \A l \in 1..Len(s) : g[l - 1] \in Seq(Nat) => g[l] \in Seq(Nat)
    BY <1>9
  <2>2. g[0] \in Seq(Nat)
    BY <1>4, <1>8
  <2> QED
    BY <1>1, <2>1, <2>2, StaysIn
<1>11. g \in [0..Len(s) -> Seq(Nat)]
  BY <1>7, <1>10
<1> QED
  BY <1>7, <1>8, <1>9, <1>11 DEF PositionsGrow

\* The positions are those of the values that are left out.
PositionsOf(p, s, values, l) ==
    /\ p \in Seq(Nat)
    /\ \A k \in 1..Len(p) : p[k] + 1 \in 1..l /\ s[p[k] + 1] \notin values
    /\ \A i \in 1..l : s[i] \notin values => \E k \in 1..Len(p) : p[k] = i - 1

LEMMA PositionsRight ==
    ASSUME NEW S, NEW s \in Seq(S), NEW values
    PROVE  PositionsOf(Positions(s, values), s, values, Len(s))
<1>1. PICK n \in Nat : n = Len(s)
  BY LenProperties
<1>0. PICK g : PositionsGrow(g, s, values)
  BY PositionsFollow
<1>2. /\ g \in [0..n -> Seq(Nat)]
      /\ Positions(s, values) = g[n]
      /\ g[0] = <<>>
      /\ \A i \in 1..n : g[i] = IF s[i] \in values THEN g[i - 1] ELSE Append(g[i - 1], i - 1)
  BY <1>0, <1>1 DEF PositionsGrow
<1> DEFINE T == {l \in Nat : l <= n => PositionsOf(g[l], s, values, l)}
<1>3. 0 \in T
  BY <1>2, EmptySeq DEF PositionsOf
<1>4. ASSUME NEW l \in T PROVE l + 1 \in T
  <2> SUFFICES ASSUME l + 1 <= n PROVE PositionsOf(g[l + 1], s, values, l + 1)
    OBVIOUS
  <2>1. l \in Nat /\ l + 1 \in 1..n /\ l + 1 - 1 = l /\ l \in 0..n /\ PositionsOf(g[l], s, values, l)
    OBVIOUS
  <2>2. g[l + 1] = IF s[l + 1] \in values THEN g[l] ELSE Append(g[l], l)
    BY <1>2, <2>1
  <2>3. CASE s[l + 1] \in values
    <3>1. g[l + 1] = g[l]
      BY <2>2, <2>3
    <3>2. ASSUME NEW i \in 1..(l + 1), s[i] \notin values PROVE i \in 1..l
      BY <2>1, <2>3, <3>2
    <3>3. \A x \in 1..l : x \in 1..(l + 1)
      BY <2>1
    <3> QED
      BY <2>1, <3>1, <3>2, <3>3 DEF PositionsOf
  <2>4. CASE s[l + 1] \notin values
    <3>1. PICK p \in Seq(Nat) : p = g[l]
      BY <2>1 DEF PositionsOf
    <3>2. PICK m \in Nat : m = Len(p)
      BY LenProperties
    <3>3. PICK q : q = g[l + 1]
      OBVIOUS
    <3>4. /\ q \in Seq(Nat) /\ Len(q) = m + 1
          /\ \A k \in 1..m : q[k] = p[k]
          /\ q[m + 1] = l
      <4>1. q = Append(p, l) /\ l \in Nat
        BY <2>1, <2>2, <2>4, <3>1, <3>3
      <4> QED
        BY <3>2, <4>1, AppendProperties
    <3>5. ASSUME NEW k \in 1..(m + 1)
          PROVE  q[k] + 1 \in 1..(l + 1) /\ s[q[k] + 1] \notin values
      <4>1. CASE k = m + 1
        BY <2>1, <2>4, <3>4, <4>1
      <4>2. CASE k # m + 1
        <5>1. k \in 1..m
          BY <4>2
        <5>2. p[k] + 1 \in 1..l /\ s[p[k] + 1] \notin values
          BY <2>1, <3>1, <3>2, <5>1 DEF PositionsOf
        <5>3. q[k] = p[k]
          BY <3>4, <5>1
        <5> QED
          BY <2>1, <5>2, <5>3
      <4> QED
        BY <4>1, <4>2
    <3>6. ASSUME NEW i \in 1..(l + 1), s[i] \notin values
          PROVE  \E k \in 1..(m + 1) : q[k] = i - 1
      <4>1. CASE i = l + 1
        <5>1. m + 1 \in 1..(m + 1) /\ i - 1 = l
          BY <2>1, <4>1
        <5> QED
          BY <3>4, <5>1
      <4>2. CASE i # l + 1
        <5>1. i \in 1..l
          BY <2>1, <4>2
        <5>2. PICK k \in 1..m : p[k] = i - 1
          BY <2>1, <3>1, <3>2, <3>6, <5>1 DEF PositionsOf
        <5>3. k \in 1..(m + 1) /\ q[k] = i - 1
          BY <3>4, <5>2
        <5> QED
          BY <5>3
      <4> QED
        BY <4>1, <4>2
    <3> QED
      BY <3>3, <3>4, <3>5, <3>6 DEF PositionsOf
  <2> QED
    BY <2>3, <2>4
<1>5. T \in SUBSET Nat
  OBVIOUS
<1> HIDE DEF T
<1>6. T = Nat
  BY <1>3, <1>4, <1>5, SetInduction
<1>7. PositionsOf(g[n], s, values, n)
  <2>1. n \in T /\ n <= n
    BY <1>6
  <2> QED
    BY <2>1 DEF T
<1> QED
  BY <1>1, <1>2, <1>7

\* What encode_mode_a returns, whatever the palette and the sizes of the candidates.
RecordOf(s, r) ==
    /\ r.raw = Len(s) /\ r.positions \in Seq(Nat) /\ Len(r.primary) \in Nat
    /\ IF r.codec = "raw" THEN r.primary = s /\ r.positions = <<>>
       ELSE Len(r.primary) = CeilDiv(r.raw * Bits(r.codec), ByteBits)

LEMMA CandidateSound ==
    ASSUME NEW s \in Seq(Byte), NEW palette, NEW bits \in {1, 2}
    PROVE  RecordOf(s, Candidate(s, palette, bits))
<1> DEFINE r == Candidate(s, palette, bits)
           known == {palette[k] : k \in 1..2^bits}
           codes == [i \in 1..Len(s) |->
                       IF s[i] \in known THEN (CHOOSE k \in 1..2^bits : palette[k] = s[i]) - 1 ELSE 0]
<1>1. Len(s) \in Nat /\ Len(codes) = Len(s)
  BY LenProperties
<1>2. /\ r.raw = Len(s) /\ r.positions = Positions(s, known)
      /\ r.primary = Pack(codes, bits)
      /\ r.codec = IF bits = 1 THEN "one_bit" ELSE "two_bit"
  BY DEF Candidate, Record
<1> HIDE DEF codes, known, r
<1>3. r.positions \in Seq(Nat)
  BY <1>2, PositionsRight DEF PositionsOf
<1>4. PICK half \in Nat \ {0} : ByteBits = 2 * half /\ ByteBits \div 2 = half
  <2>1. ByteBits \in Nat \ {0} /\ ByteBits % 2 = 0
    BY CodecAssumption
  <2>2. ByteBits = 2 * (ByteBits \div 2) /\ ByteBits \div 2 \in Nat \ {0}
    BY <2>1
  <2> QED
    BY <2>2
<1>5. ByteBits \div bits \in Nat \ {0}
  BY <1>4
<1>6. Len(Pack(codes, bits)) = CeilDiv(Len(s), ByteBits \div bits)
  <2>1. PICK base \in {2, 4} : base = 2^bits
    BY CodesPerByte
  <2>2. ASSUME NEW i \in 1..Len(s) PROVE codes[i] \in 0..(base - 1)
    <3> DEFINE place == CHOOSE k \in 1..2^bits : palette[k] = s[i]
    <3>1. codes[i] = IF s[i] \in known THEN place - 1 ELSE 0
      BY DEF codes
    <3>2. s[i] \in known => place \in 1..base
      BY <2>1 DEF known
    <3> HIDE DEF place
    <3> QED
      BY <3>1, <3>2
  <2>3. codes \in [1..Len(s) -> 0..(2^bits - 1)]
    <3>1. codes = [i \in 1..Len(s) |-> codes[i]]
      BY DEF codes
    <3> QED
      BY <2>1, <2>2, <3>1
  <2> QED
    BY <1>1, <2>3, UnpackUndoesPack
<1>7. CeilDiv(Len(s), ByteBits \div bits) = CeilDiv(r.raw * Bits(r.codec), ByteBits)
  <2>1. CASE bits = 1
    <3>1. Bits(r.codec) = 1 /\ r.raw * 1 = Len(s) /\ ByteBits \div 1 = ByteBits
      BY <1>1, <1>2, <1>4, <2>1 DEF Bits
    <3> QED
      BY <2>1, <3>1
  <2>2. CASE bits = 2
    <3>1. Bits(r.codec) = 2
      BY <1>2, <2>2 DEF Bits
    <3> QED
      BY <1>1, <1>2, <1>4, <2>2, <3>1, CeilDivDouble
  <2> QED
    BY <2>1, <2>2
<1>8. Len(r.primary) \in Nat
  BY <1>1, <1>2, <1>5, <1>6, CeilDivTyped
<1>9. r.codec # "raw"
  BY <1>2
<1> QED
  BY <1>2, <1>3, <1>6, <1>7, <1>8, <1>9 DEF RecordOf, r

LEMMA EncodeSound == ASSUME NEW s \in Seq(Byte) PROVE RecordOf(s, Encode(s))
<1> DEFINE palette == Palette(s)
           raw == Record("raw", palette, Len(s), s, <<>>, <<>>)
<1>1. Encode(s) \in {Candidate(s, palette, 1), Candidate(s, palette, 2), raw}
  BY DEF Encode
<1> HIDE DEF palette
<1>2. RecordOf(s, raw)
  BY LenProperties, EmptySeq DEF RecordOf, Record
<1>3. RecordOf(s, Candidate(s, palette, 1)) /\ RecordOf(s, Candidate(s, palette, 2))
  BY CandidateSound
<1> QED
  BY <1>1, <1>2, <1>3

\* A record of codes decodes to the scales that it was made of.
LEMMA CandidateDecodes ==
    ASSUME NEW s \in Seq(Byte), NEW palette, NEW bits \in {1, 2}
    PROVE  Decode(Candidate(s, palette, bits)) = s
<1>1. PICK len \in Nat : len = Len(s)
  BY LenProperties
<1>2. PICK base \in {2, 4} : base = 2^bits
  BY CodesPerByte
<1> DEFINE r == Candidate(s, palette, bits)
           known == {palette[k] : k \in 1..2^bits}
           place(x) == CHOOSE k \in 1..2^bits : palette[k] = x
           codes == [i \in 1..Len(s) |-> IF s[i] \in known THEN place(s[i]) - 1 ELSE 0]
           positions == Positions(s, known)
<1>3. /\ r.raw = len /\ r.positions = positions
      /\ r.palette = palette
      /\ r.primary = Pack(codes, bits)
      /\ r.codec = IF bits = 1 THEN "one_bit" ELSE "two_bit"
      /\ r.values = [i \in 1..Len(positions) |-> s[positions[i] + 1]]
  BY <1>1 DEF Candidate, Record
<1>4. ASSUME NEW x \in known PROVE place(x) \in 1..base /\ palette[place(x)] = x
  BY <1>2
<1>5. ASSUME NEW i \in 1..len
      PROVE  /\ codes[i] \in 0..(base - 1)
             /\ s[i] \in known => palette[codes[i] + 1] = s[i]
  <2>1. codes[i] = IF s[i] \in known THEN place(s[i]) - 1 ELSE 0
    BY <1>1
  <2> HIDE DEF known, place, codes
  <2>2. CASE s[i] \in known
    <3>1. PICK k \in 1..base : k = place(s[i]) /\ palette[k] = s[i]
      BY <1>4, <2>2
    <3>2. codes[i] = k - 1 /\ k - 1 + 1 = k
      BY <2>1, <2>2, <3>1
    <3> QED
      BY <3>1, <3>2
  <2>3. CASE s[i] \notin known
    BY <2>1, <2>3
  <2> QED
    BY <2>2, <2>3
<1>6. codes \in [1..len -> 0..(base - 1)]
  <2>1. codes = [i \in 1..len |-> codes[i]]
    BY <1>1
  <2> HIDE DEF codes
  <2> QED
    BY <1>5, <2>1
<1>7. PositionsOf(positions, s, known, len)
  BY <1>1, PositionsRight
<1> HIDE DEF r, known, place, codes, positions
<1>8. Unpack(r.primary, Bits(r.codec), r.raw) = codes
  <2>1. Bits(r.codec) = bits
    BY <1>3 DEF Bits
  <2>2. codes \in [1..len -> 0..(2^bits - 1)]
    BY <1>2, <1>6
  <2>3. Unpack(Pack(codes, bits), bits, len) = codes
    BY <2>2, UnpackUndoesPack
  <2> QED
    BY <1>3, <2>1, <2>3
<1>9. r.codec # "raw"
  BY <1>3
<1> DEFINE exception(p) == {k \in 1..Len(r.positions) : r.positions[k] = p}
           scale(i) == IF exception(i - 1) = {} THEN r.palette[codes[i] + 1]
                       ELSE r.values[CHOOSE k \in exception(i - 1) : TRUE]
<1>10. Decode(r) = [i \in 1..r.raw |-> scale(i)]
  BY <1>8, <1>9 DEF Decode
<1>11. ASSUME NEW i \in 1..len
       PROVE  s[i] = scale(i)
  <2>1. CASE exception(i - 1) = {}
    <3>1. s[i] \in known
      BY <1>3, <1>7, <2>1 DEF PositionsOf
    <3> QED
      BY <1>3, <1>5, <2>1, <3>1
  <2>2. CASE exception(i - 1) # {}
    <3>1. PICK k : k = CHOOSE x \in exception(i - 1) : TRUE
      OBVIOUS
    <3>2. k \in exception(i - 1)
      BY <2>2, <3>1
    <3>3. k \in 1..Len(positions) /\ positions[k] = i - 1
      BY <1>3, <3>2
    <3>4. r.values[k] = s[i - 1 + 1]
      BY <1>3, <3>3
    <3>5. i - 1 + 1 = i
      OBVIOUS
    <3> HIDE DEF exception
    <3> QED
      BY <2>2, <3>1, <3>4, <3>5
  <2> QED
    BY <2>1, <2>2
<1> HIDE DEF exception, scale
<1>12. Decode(r) = [i \in 1..len |-> s[i]]
  BY <1>3, <1>10, <1>11
<1>13. s = [i \in 1..len |-> s[i]]
  BY <1>1, LenProperties
<1> QED
  BY <1>12, <1>13 DEF r

\* decode_mode_a gives back the scales that encode_mode_a was given, whatever they are.
THEOREM DecodeUndoesEncode == ASSUME NEW s \in Seq(Byte) PROVE Decode(Encode(s)) = s
<1> DEFINE palette == Palette(s)
           raw == Record("raw", palette, Len(s), s, <<>>, <<>>)
<1>1. Encode(s) \in {Candidate(s, palette, 1), Candidate(s, palette, 2), raw}
  BY DEF Encode
<1> HIDE DEF palette
<1>2. Decode(raw) = s
  BY DEF Decode, Record
<1>3. Decode(Candidate(s, palette, 1)) = s /\ Decode(Candidate(s, palette, 2)) = s
  BY CandidateDecodes
<1> QED
  BY <1>1, <1>2, <1>3

LEMMA EncodedBytesTyped ==
    ASSUME NEW s, NEW r, RecordOf(s, r)
    PROVE  EncodedBytes(r) \in Nat \ {0} /\ Payload(r) \in Nat
<1>1. Len(r.primary) \in Nat /\ Len(r.positions) \in Nat
  BY LenProperties DEF RecordOf
<1>2. ExceptionBytes \in Nat \ {0} /\ HeaderBytes \in Nat \ {0}
  BY CodecAssumption
<1>3. ExceptionBytes * Len(r.positions) \in Nat
  BY <1>1, <1>2
<1>4. Payload(r) \in Nat
  BY <1>1, <1>3 DEF Payload
<1>5. \A a \in Nat \ {0}, b \in Nat : a + b \in Nat \ {0}
  OBVIOUS
<1> HIDE DEF Payload
<1> QED
  BY <1>2, <1>4, <1>5 DEF EncodedBytes

-----------------------------------------------------------------------------
(* A converted shard: the cells of an expert                                 *)

\* What a cell of any shard can be: record bytes are numbers.
AllCells == Nat \union Cells

WeightsOf(e) == Flatten(RecordComponents, LAMBDA c : Original(Tensor(e, c, "weight_packed")))
WeightAt(e, k) == WeightCell(Tensor(e, RecordComponents[k], "weight_packed"))

\* The packed weights of an expert are in the order of the record components.
LEMMA WeightsPlaced ==
    ASSUME NEW e \in Ids
    PROVE  /\ WeightsOf(e) \in Seq(AllCells)
           /\ \A k \in 1..3 : WeightAt(e, k) \in AllCells
           /\ \A k \in 1..3 : PieceAt(WeightsOf(e), k - 1, <<WeightAt(e, k)>>)
<1> DEFINE s == [k \in 1..3 |-> <<WeightAt(e, k)>>]
           f == [k \in 1..3 |-> k - 1]
<1>1. /\ DOMAIN RecordComponents = 1..3
      /\ \A k \in 1..3 : RecordComponents[k] \in ToSet(Components)
  <2>1. RecordComponents[1] = "gate_proj" /\ RecordComponents[2] = "down_proj"
          /\ RecordComponents[3] = "up_proj" /\ DOMAIN RecordComponents = 1..3
    BY DEF RecordComponents
  <2>2. Components[1] = "down_proj" /\ Components[2] = "gate_proj"
          /\ Components[3] = "up_proj" /\ DOMAIN Components = 1..3
    BY DEF Components
  <2>3. "gate_proj" \in ToSet(Components) /\ "down_proj" \in ToSet(Components)
          /\ "up_proj" \in ToSet(Components)
    BY <2>2 DEF ToSet
  <2> QED
    BY <2>1, <2>3
<1>2. \A k \in 1..3 : WeightAt(e, k) \in AllCells
  <2>1. "weight_packed" \in ToSet(Parts)
    <3>1. Parts[1] = "weight_packed" /\ DOMAIN Parts = 1..2
      BY DEF Parts
    <3> QED
      BY <3>1 DEF ToSet
  <2>2. \A k \in 1..3 : Tensor(e, RecordComponents[k], "weight_packed") \in TensorsOf(e)
    BY <1>1, <2>1 DEF TensorsOf
  <2> QED
    BY <2>2 DEF WeightAt, AllCells, Cells, AllTensors
<1>3. WeightsOf(e) = FlattenSeq(s)
  <2>1. \A c : Original(Tensor(e, c, "weight_packed")) = <<WeightCell(Tensor(e, c, "weight_packed"))>>
    BY DEF Original, Tensor
  <2> QED
    BY <1>1, <2>1 DEF WeightsOf, WeightAt, Flatten
<1>4. s \in [1..3 -> Seq(AllCells)] /\ \A k \in 1..3 : Len(s[k]) = 1 /\ s[k] = <<WeightAt(e, k)>>
  <2>1. ASSUME NEW k \in 1..3 PROVE <<WeightAt(e, k)>> \in Seq(AllCells)
    <3>1. PICK w \in AllCells : w = WeightAt(e, k)
      BY <1>2
    <3>2. <<w>> \in Seq(AllCells)
      OBVIOUS
    <3> QED
      BY <3>1, <3>2
  <2> QED
    BY <2>1
<1> HIDE DEF s
<1>5. OffsetsUpTo(f, [k \in 1..3 |-> Len(s[k])], 3)
  <2> DEFINE c == [k \in 1..3 |-> Len(s[k])]
  <2>2. \A i \in 1..3 : f[i] = IF i = 1 THEN 0 ELSE f[i - 1] + c[i - 1]
    <3>1. c[1] = 1 /\ c[2] = 1 /\ c[3] = 1
      BY <1>4
    <3>2. f[1] = 0 /\ f[2] = 1 /\ f[3] = 2
      OBVIOUS
    <3> HIDE DEF c, f
    <3> QED
      BY <3>1, <3>2
  <2>3. f = [i \in 1..3 |-> f[i]]
    OBVIOUS
  <2> HIDE DEF f, c
  <2>4. f = [i \in 1..3 |-> IF i = 1 THEN 0 ELSE f[i - 1] + c[i - 1]]
    BY <2>2, <2>3
  <2>5. OffsetsUpTo(f, c, 3)
    BY <2>4 DEF OffsetsUpTo
  <2> QED
    BY <2>5 DEF c
<1>6. \A k \in 1..3 : f[k] = k - 1
  OBVIOUS
<1> HIDE DEF f
<1>7. FlattenSeq(s) \in Seq(AllCells) /\ PiecesUpTo(FlattenSeq(s), f, s, 3)
  <2>1. 3 \in Nat \ {0}
    OBVIOUS
  <2> QED
    BY <1>4, <1>5, <2>1, FlattenPieces
<1> QED
  BY <1>2, <1>3, <1>4, <1>6, <1>7 DEF PiecesUpTo

\* A converted expert is its record, then its weights.
LEMMA CellsPlaced ==
    ASSUME NEW e \in Ids, NEW s, NEW r, RecordOf(s, r)
    PROVE  /\ ScaleXCells(e, r) \in Seq(AllCells)
           /\ Len(ScaleXCells(e, r)) = EncodedBytes(r) + Len(WeightsOf(e))
           /\ PieceAt(ScaleXCells(e, r), EncodedBytes(r), WeightsOf(e))
<1>1. PICK b \in Nat \ {0} : b = EncodedBytes(r)
  BY EncodedBytesTyped
<1>2. RecordCells(e, b) \in Seq(AllCells) /\ Len(RecordCells(e, b)) = b
  <2>1. ASSUME NEW k \in 1..b PROVE 10000 * (e + 1) + k \in AllCells
    BY DEF Ids, AllCells
  <2>2. RecordCells(e, b) \in [1..b -> AllCells]
    BY <2>1 DEF RecordCells
  <2> QED
    BY <2>2
<1>3. WeightsOf(e) \in Seq(AllCells)
  BY WeightsPlaced
<1>4. ScaleXCells(e, r) = RecordCells(e, b) \o WeightsOf(e)
  BY <1>1 DEF ScaleXCells, WeightsOf
<1>5. PICK n \in Nat : n = Len(WeightsOf(e))
  BY <1>3, LenProperties
<1>6. PICK a, w : a = RecordCells(e, b) /\ w = WeightsOf(e)
  OBVIOUS
<1>7. /\ a \o w \in Seq(AllCells) /\ Len(a \o w) = b + n
      /\ \A k \in 1..(b + n) : (a \o w)[k] = IF k <= b THEN a[k] ELSE w[k - b]
  <2>1. a \in Seq(AllCells) /\ w \in Seq(AllCells) /\ Len(a) = b /\ Len(w) = n
    BY <1>2, <1>3, <1>5, <1>6
  <2>2. /\ a \o w \in Seq(AllCells) /\ Len(a \o w) = Len(a) + Len(w)
        /\ \A k \in 1..(Len(a) + Len(w)) :
              (a \o w)[k] = IF k <= Len(a) THEN a[k] ELSE w[k - Len(a)]
    BY <2>1, ConcatProperties
  <2> QED
    BY <2>1, <2>2
<1>8. \A k \in 1..n : (a \o w)[b + k] = w[k]
  <2>1. \A k \in 1..n : b + k \in 1..(b + n) /\ ~(b + k <= b) /\ b + k - b = k
    OBVIOUS
  <2> QED
    BY <1>7, <2>1
<1>9. PieceAt(a \o w, b, w)
  BY <1>5, <1>6, <1>7, <1>8 DEF PieceAt
<1> QED
  BY <1>1, <1>4, <1>5, <1>6, <1>7, <1>9

\* Decoded, they are the tensors the expert had.
LEMMA ScaleXDecoded ==
    ASSUME sample \in Samples, NEW e \in Ids, NEW r, r = Encode(sample.scales[e]),
           NEW got, got = ScaleXCells(e, r), NEW t \in TensorsOf(e)
    PROVE  Decoded(e, r, got)[t] = Original(t)
<1>1. sample.scales[e] \in Seq(Byte)
  BY SamplesAssumption
<1>2. RecordOf(sample.scales[e], r) /\ Decode(r) = sample.scales[e]
  <2>1. PICK s \in Seq(Byte) : s = sample.scales[e]
    BY <1>1
  <2> QED
    BY <2>1, EncodeSound, DecodeUndoesEncode
<1>3. /\ t = Tensor(e, t.component, t.part) /\ t.expert = e
      /\ t.component \in {"down_proj", "gate_proj", "up_proj"}
      /\ t.part \in {"weight_packed", "weight_scale"}
  BY TensorFields
<1> DEFINE weights == SubSeq(got, EncodedBytes(r) + 1, Len(got))
           k == CHOOSE i \in 1..3 : RecordComponents[i] = t.component
<1>4. Decoded(e, r, got)[t] = IF t.part = "weight_scale" THEN ScalesOf(Decode(r), t.component)
                              ELSE SubSeq(weights, k, k)
  BY DEF Decoded
<1>5. k \in 1..3 /\ RecordComponents[k] = t.component
  <2>1. \E i \in 1..3 : RecordComponents[i] = t.component
    <3>1. /\ RecordComponents[1] = "gate_proj" /\ RecordComponents[2] = "down_proj"
          /\ RecordComponents[3] = "up_proj"
      BY DEF RecordComponents
    <3> QED
      BY <1>3, <3>1
  <2> QED
    BY <2>1
<1> HIDE DEF k
<1>6. CASE t.part = "weight_scale"
  BY <1>2, <1>3, <1>4, <1>6 DEF Original
<1>7. CASE t.part # "weight_scale"
  <2>1. PICK b \in Nat \ {0} : b = EncodedBytes(r)
    BY <1>2, EncodedBytesTyped
  <2>2. /\ got \in Seq(AllCells) /\ Len(got) = b + Len(WeightsOf(e))
        /\ PieceAt(got, b, WeightsOf(e))
    BY <1>2, <2>1, CellsPlaced
  <2>3. PICK w \in Seq(AllCells) : w = WeightsOf(e)
    BY WeightsPlaced
  <2>4. weights = w
    <3>1. SubSeq(got, b + 1, b + Len(w)) = w
      BY <2>2, <2>3, PieceIsSubSeq
    <3> QED
      BY <2>1, <2>2, <2>3, <3>1
  <2>5. PICK c \in AllCells : c = WeightAt(e, k) /\ PieceAt(w, k - 1, <<c>>)
    BY <1>5, <2>3, WeightsPlaced
  <2>6. SubSeq(w, k, k) = <<c>>
    <3>1. <<c>> \in Seq(AllCells) /\ Len(<<c>>) = 1
      OBVIOUS
    <3>2. PICK at \in Nat : at = k - 1 /\ at + 1 = k
      BY <1>5
    <3>3. SubSeq(w, at + 1, at + Len(<<c>>)) = <<c>>
      BY <2>5, <3>1, <3>2, PieceIsSubSeq
    <3> QED
      BY <3>1, <3>2, <3>3
  <2>7. c = WeightCell(t)
    <3>1. t.part = "weight_packed"
      BY <1>3, <1>7
    <3> QED
      BY <1>3, <1>5, <2>5, <3>1 DEF WeightAt
  <2> HIDE DEF weights
  <2> QED
    BY <1>4, <1>7, <2>4, <2>6, <2>7 DEF Original
<1> QED
  BY <1>6, <1>7

\* A record has fields: it is not the empty one of a native source.
LEMMA RecordIsSome == \A a, b, c, d, e, f : Record(a, b, c, d, e, f) # <<>>
<1> SUFFICES ASSUME NEW a, NEW b, NEW c, NEW d, NEW e, NEW f
             PROVE  Record(a, b, c, d, e, f) # <<>>
  OBVIOUS
<1>1. "codec" \in DOMAIN Record(a, b, c, d, e, f)
  BY DEF Record
<1>2. DOMAIN <<>> = {}
  OBVIOUS
<1> QED
  BY <1>1, <1>2

\* encode_mode_a always returns a record.
LEMMA EncodeIsSome == ASSUME NEW s PROVE Encode(s) # <<>>
BY RecordIsSome DEF Encode, Candidate

\* Where the file has an expert of a converted shard.
RangeHolds(range, cells) ==
    /\ range.offset \in Nat /\ range.length = Len(cells)
    /\ SubSeq(file, range.offset + 1, range.offset + range.length) = cells
HoldsAlone(ranges, cells) ==
    \E range : ranges = <<range>> /\ RangeHolds(range, cells)

\* In a converted shard the cells of an expert are where its one range is.
LEMMA ScaleXPlaced ==
    ASSUME NEW S, NEW cells, \A x \in Ids : cells[x] \in Seq(S),
           file = FlattenSeq([i \in 1..Experts |-> cells[i - 1]]), NEW e \in Ids, NEW record
    PROVE  HoldsAlone(ScaleXSource(e, cells, record).ranges, cells[e])
<1>1. PICK n \in Nat \ {0} : n = Experts /\ Ids = 0..(n - 1)
  BY ReaderAssumption DEF Ids
<1> DEFINE s == [i \in 1..n |-> cells[i - 1]]
           Follows(g) == g = [i \in 1..Experts |-> IF i = 1 THEN 0 ELSE g[i - 1] + Len(cells[i - 2])]
           At(g) == [offset |-> g[e + 1], length |-> Len(cells[e]), tensors |-> {}]
<1>2. s \in [1..n -> Seq(S)]
  <2>1. ASSUME NEW i \in 1..n PROVE cells[i - 1] \in Seq(S)
    <3>1. i - 1 \in Ids
      BY <1>1
    <3> QED
      BY <3>1
  <2> QED
    BY <2>1
<1>3. file = FlattenSeq(s)
  BY <1>1
<1>4. \A i \in 1..n : s[i] = cells[i - 1]
  OBVIOUS
<1> HIDE DEF s
<1>5. PICK c \in [1..n -> Nat] : c = [i \in 1..n |-> Len(s[i])]
  <2>1. ASSUME NEW i \in 1..n PROVE Len(s[i]) \in Nat
    <3>1. s[i] \in Seq(S)
      BY <1>2
    <3> QED
      BY <3>1, LenProperties
  <2> QED
    BY <2>1
<1>6. \A i \in 1..n : i # 1 => c[i - 1] = Len(cells[i - 2])
  <2>1. ASSUME NEW i \in 1..n, i # 1 PROVE c[i - 1] = Len(cells[i - 2])
    <3>1. PICK j \in 1..n : j = i - 1 /\ j - 1 = i - 2
      BY <2>1
    <3>2. c[j] = Len(cells[j - 1])
      BY <1>4, <1>5
    <3> QED
      BY <3>1, <3>2
  <2> QED
    BY <2>1
<1>7. PICK g : Follows(g) /\ ScaleXSource(e, cells, record).ranges = <<At(g)>>
  <2>1. PICK f : f = [i \in 1..n |-> IF i = 1 THEN 0 ELSE f[i - 1] + c[i - 1]]
    BY OffsetsExist DEF OffsetsUpTo
  <2>2. f = [i \in 1..n |-> IF i = 1 THEN 0 ELSE f[i - 1] + Len(cells[i - 2])]
    BY <1>6, <2>1
  <2> DEFINE off[i \in 1..Experts] == IF i = 1 THEN 0 ELSE off[i - 1] + Len(cells[i - 2])
  <2>3. ScaleXSource(e, cells, record).ranges
            = <<[offset |-> off[e + 1], length |-> Len(cells[e]), tensors |-> {}]>>
    BY DEF ScaleXSource
  <2>4. off = [i \in 1..Experts |-> IF i = 1 THEN 0 ELSE off[i - 1] + Len(cells[i - 2])]
    BY <1>1, <2>2
  <2> HIDE DEF off
  <2>5. Follows(off)
    BY <2>4
  <2>6. ScaleXSource(e, cells, record).ranges = <<At(off)>>
    BY <2>3
  <2> HIDE DEF Follows, At
  <2> QED
    BY <2>5, <2>6
<1>8. OffsetsUpTo(g, c, n)
  <2>1. g = [i \in 1..n |-> IF i = 1 THEN 0 ELSE g[i - 1] + Len(cells[i - 2])]
    BY <1>1, <1>7
  <2>2. g = [i \in 1..n |-> IF i = 1 THEN 0 ELSE g[i - 1] + c[i - 1]]
    BY <1>6, <2>1
  <2> QED
    BY <2>2 DEF OffsetsUpTo
<1>9. FlattenSeq(s) \in Seq(S) /\ PiecesUpTo(FlattenSeq(s), g, s, n)
  <2>1. OffsetsUpTo(g, [i \in 1..n |-> Len(s[i])], n)
    BY <1>5, <1>8
  <2> QED
    BY <1>2, <2>1, FlattenPieces
<1>10. PICK j \in 1..n : j = e + 1 /\ j - 1 = e
  BY <1>1
<1>11. g[j] \in Nat /\ PieceAt(file, g[j], s[j]) /\ s[j] = cells[e]
  <2>1. g[j] \in Nat
    BY <1>8, OffsetsTyped
  <2>2. s[j] = cells[e]
    BY <1>4, <1>10
  <2> QED
    BY <1>3, <1>9, <2>1, <2>2 DEF PiecesUpTo
<1>12. SubSeq(file, g[j] + 1, g[j] + Len(cells[e])) = cells[e]
  <2>1. file \in Seq(S) /\ s[j] \in Seq(S)
    BY <1>2, <1>3, <1>9
  <2>2. SubSeq(file, g[j] + 1, g[j] + Len(s[j])) = s[j]
    BY <1>11, <2>1, PieceIsSubSeq
  <2> QED
    BY <1>11, <2>2
<1>13. RangeHolds(At(g), cells[e])
  BY <1>10, <1>11, <1>12 DEF RangeHolds
<1> QED
  BY <1>7, <1>13 DEF HoldsAlone

-----------------------------------------------------------------------------
(* Both                                                                      *)

\* Every range of every expert of a layer is somewhere and has something in it.
PlanIsSound == \A e \in Ids : Sound(plan[e].ranges)

\* The record of an expert is what encode_mode_a made of its scales, and a
\* converted layer has them all.
PlanIsEncoded ==
    \/ \A e \in Ids : plan[e].record = <<>>
    \/ \A e \in Ids : /\ plan[e].record = Encode(sample.scales[e])
                      /\ Indexable(plan[e].record)

LEMMA ShardSound == ASSUME sample \in Samples, Shard PROVE PlanIsSound /\ PlanIsEncoded
<1>1. CASE plan = [e \in Ids |-> NativeSource(e)]
  <2>1. ASSUME NEW e \in Ids PROVE Sound(plan[e].ranges) /\ plan[e].record = <<>>
    <3>1. plan[e] = NativeSource(e)
      BY <1>1
    <3>2. NativeSource(e).record = <<>>
      BY DEF NativeSource
    <3> QED
      BY <3>1, <3>2, NativeSound
  <2> QED
    BY <2>1 DEF PlanIsSound, PlanIsEncoded
<1>2. ASSUME NEW records, records = [e \in Ids |-> Encode(sample.scales[e])],
             NEW cells, cells = [e \in Ids |-> ScaleXCells(e, records[e])],
             \A e \in Ids : Indexable(records[e]),
             file = FlattenSeq([i \in 1..Experts |-> cells[i - 1]]),
             plan = [e \in Ids |-> ScaleXSource(e, cells, records[e])]
      PROVE  PlanIsSound /\ PlanIsEncoded
  <2>1. ASSUME NEW e \in Ids PROVE cells[e] \in Seq(AllCells) /\ Len(cells[e]) \in Nat \ {0}
    <3>1. sample.scales[e] \in Seq(Byte)
      BY SamplesAssumption
    <3>2. RecordOf(sample.scales[e], records[e])
      BY <1>2, <3>1, EncodeSound
    <3>3. cells[e] = ScaleXCells(e, records[e])
      BY <1>2
    <3>4. PICK b \in Nat \ {0} : b = EncodedBytes(records[e])
      BY <3>2, EncodedBytesTyped
    <3>5. Len(WeightsOf(e)) \in Nat
      BY WeightsPlaced, LenProperties
    <3>6. cells[e] \in Seq(AllCells) /\ Len(cells[e]) = b + Len(WeightsOf(e))
      BY <3>2, <3>3, <3>4, CellsPlaced
    <3> QED
      BY <3>5, <3>6
  <2>2. ASSUME NEW e \in Ids
        PROVE  /\ Sound(plan[e].ranges)
               /\ plan[e].record = Encode(sample.scales[e]) /\ Indexable(plan[e].record)
    <3>1. plan[e] = ScaleXSource(e, cells, records[e])
      BY <1>2
    <3>2. ScaleXSource(e, cells, records[e]).record = records[e]
      BY DEF ScaleXSource
    <3>3. Sound(ScaleXSource(e, cells, records[e]).ranges)
      <4>1. HoldsAlone(ScaleXSource(e, cells, records[e]).ranges, cells[e])
        <5>1. \A x \in Ids : cells[x] \in Seq(AllCells)
          BY <2>1
        <5>2. file = FlattenSeq([i \in 1..Experts |-> cells[i - 1]]) /\ e \in Ids
          BY <1>2
        <5> QED
          BY ONLY <5>1, <5>2, ScaleXPlaced
      <4>2. PICK r : ScaleXSource(e, cells, records[e]).ranges = <<r>> /\ RangeHolds(r, cells[e])
        BY <4>1 DEF HoldsAlone
      <4>3. Len(<<r>>) = 1 /\ <<r>>[1] = r
        OBVIOUS
      <4> QED
        BY <2>1, <4>2, <4>3 DEF Sound, RangeHolds
    <3>4. records[e] = Encode(sample.scales[e]) /\ Indexable(records[e])
      BY <1>2
    <3> QED
      BY <3>1, <3>2, <3>3, <3>4
  <2> QED
    BY <2>2 DEF PlanIsSound, PlanIsEncoded
<1> QED
  BY <1>1, <1>2 DEF Shard

-----------------------------------------------------------------------------
(* The counters                                                              *)

CountersTyped ==
    /\ hits \in Nat /\ misses \in Nat /\ evictions \in Nat /\ failed \in Nat /\ short \in Nat
    /\ reads \in [loads : Nat, logical : Nat, system : Nat, bytes : Nat]

LoadsCounted ==
    /\ reads.loads = misses - failed - (IF Loading THEN 1 ELSE 0)
    /\ reads.loads = evictions + Len(cache)

\* While nothing went wrong, what has been read of a range is nothing or all of it.
ReadsCounted ==
    short = 0 /\ failed = 0 =>
        IF Loading /\ load.begun
        THEN IF load.got = <<>> THEN reads.system = reads.logical - 1
             ELSE reads.system = reads.logical /\ Remaining = 0
        ELSE reads.system = reads.logical

RangeIsOfPlan == Loading /\ load.begun => load.range <= Len(Source.ranges)

CountInv == CountersTyped /\ LoadsCounted /\ ReadsCounted /\ RangeIsOfPlan

IInv == LruInv /\ CountInv /\ PlanIsSound /\ PlanIsEncoded

LEMMA ReadsFields ==
    ASSUME CountersTyped
    PROVE  \E l, g, s, b \in Nat : reads = [loads |-> l, logical |-> g, system |-> s, bytes |-> b]
<1>1. /\ reads = [loads |-> reads.loads, logical |-> reads.logical,
                  system |-> reads.system, bytes |-> reads.bytes]
      /\ reads.loads \in Nat /\ reads.logical \in Nat /\ reads.system \in Nat /\ reads.bytes \in Nat
  BY DEF CountersTyped
<1> QED
  BY <1>1

LEMMA CountInit == Init => IInv
<1> SUFFICES ASSUME Init PROVE IInv
  OBVIOUS
<1>1. ~Loading /\ NotLoading.begun = FALSE
  BY DEF Init, Loading, NotLoading, Ids
<1>2. LruInv
  BY LruInit
<1>3. Len(cache) = 0
  BY EmptySeq DEF Init
<1>4. CountInv
  <2>1. reads = [loads |-> 0, logical |-> 0, system |-> 0, bytes |-> 0]
    BY DEF Init
  <2>2. /\ reads \in [loads : Nat, logical : Nat, system : Nat, bytes : Nat]
        /\ reads.loads = 0 /\ reads.logical = 0 /\ reads.system = 0
    BY <2>1
  <2>3. hits = 0 /\ misses = 0 /\ evictions = 0 /\ failed = 0 /\ short = 0
    BY DEF Init
  <2>4. CountersTyped
    BY <2>2, <2>3 DEF CountersTyped
  <2>5. LoadsCounted
    <3>1. misses - failed - 0 = 0 /\ evictions + Len(cache) = 0
      BY <1>3, <2>3
    <3> QED
      BY <1>1, <2>2, <3>1 DEF LoadsCounted
  <2>6. ReadsCounted /\ RangeIsOfPlan
    BY <1>1, <2>2 DEF ReadsCounted, RangeIsOfPlan
  <2> QED
    BY <2>4, <2>5, <2>6 DEF CountInv
<1>5. PlanIsSound /\ PlanIsEncoded
  BY ShardSound DEF Init
<1> QED
  BY <1>2, <1>4, <1>5 DEF IInv

\* Where a range is, and what is read of it.
LEMMA WantedTyped ==
    ASSUME IInv, Loading, load.begun
    PROVE  Wanted.offset \in Nat /\ Wanted.length \in Nat \ {0}
<1>1. load.expert \in Ids /\ load.range \in 1..Len(plan[load.expert].ranges)
  <2>1. load.range \in Nat \ {0} /\ load.range <= Len(plan[load.expert].ranges)
    BY DEF IInv, LruInv, LoadTyped, CountInv, RangeIsOfPlan, Source
  <2> QED
    BY <2>1 DEF Loading
<1>2. Sound(plan[load.expert].ranges)
  BY <1>1 DEF IInv, PlanIsSound
<1> QED
  BY <1>1, <1>2 DEF Sound, Wanted, Source

\* A load that raises is over, and was a miss.
LEMMA RaiseStep ==
    ASSUME IInv, Loading, Raise, UNCHANGED sample,
           reads' \in [loads : Nat, logical : Nat, system : Nat, bytes : Nat],
           reads'.loads = reads.loads
    PROVE  LruInv' /\ CountInv'
<1>1. UNCHANGED lru /\ UNCHANGED short /\ failed' = failed + 1
      /\ asked' = <<>> /\ todo' = <<>> /\ load' = NotLoading
  BY DEF Raise
<1>2. LruInv'
  BY <1>1, CallEnds DEF IInv
<1>3. ~Loading'
  BY <1>1 DEF Loading, NotLoading, Ids
<1>4. CountersTyped'
  BY <1>1 DEF IInv, CountInv, CountersTyped, lru
<1>5. LoadsCounted'
  BY <1>1, <1>3 DEF IInv, CountInv, CountersTyped, LoadsCounted, lru
<1>6. failed' # 0
  BY <1>1 DEF IInv, CountInv, CountersTyped
<1> QED
  BY <1>2, <1>3, <1>4, <1>5, <1>6 DEF CountInv, ReadsCounted, RangeIsOfPlan

\* The steps of a call that read nothing.
LEMMA QuietStep ==
    ASSUME IInv, LruInv', UNCHANGED <<plan, load, reads, misses, evictions, failed, short>>,
           hits' \in Nat, Len(cache') = Len(cache)
    PROVE  CountInv'
<1>1. CountersTyped'
  BY DEF IInv, CountInv, CountersTyped
<1>2. LoadsCounted'
  BY DEF IInv, CountInv, LoadsCounted, Loading
<1>3. ReadsCounted'
  BY DEF IInv, CountInv, ReadsCounted, Loading, Remaining, Wanted, Source
<1>4. RangeIsOfPlan'
  BY DEF IInv, CountInv, RangeIsOfPlan, Loading, Source
<1> QED
  BY <1>1, <1>2, <1>3, <1>4 DEF CountInv

LEMMA HitCounts == ASSUME IInv, Hit PROVE LruInv' /\ CountInv'
<1>1. LruInv' /\ Len(cache') = Len(cache)
  BY HitStep DEF IInv
<1>2. hits' \in Nat
  BY DEF Hit, IInv, CountInv, CountersTyped
<1> QED
  BY <1>1, <1>2, QuietStep DEF Hit, shard

\* What is loaded next has not been counted as a load yet, and what it evicts is.
LEMMA MissCounts == ASSUME IInv, Miss PROVE LruInv' /\ CountInv'
<1>1. LruInv'
  BY MissStep DEF IInv
<1>2. /\ UNCHANGED <<reads, hits, failed, short>> /\ misses' = misses + 1 /\ ~Loading
      /\ load' = [NotLoading EXCEPT !.expert = Head(todo), !.before = reads.bytes]
      /\ todo # <<>>
  BY DEF Miss
<1>3. load'.expert = Head(todo) /\ load'.begun = FALSE
  BY <1>2 DEF NotLoading
<1>4. Loading'
  <2>1. Head(todo) \in Ids
    BY <1>2, HeadTailProperties DEF IInv, LruInv, CallTyped
  <2> QED
    BY <1>3, <2>1 DEF Loading
<1>5. PICK S : cache \in Seq(S)
  BY DEF IInv, LruInv, CacheTyped
<1>6. PICK a \in Nat : a = Len(cache)
  BY <1>5, LenProperties
<1>7. evictions' \in Nat /\ evictions' + Len(cache') = evictions + a
  <2>1. CASE Len(cache) = Capacity
    <3>1. cache' = Tail(cache) /\ evictions' = evictions + 1 /\ cache # <<>>
      BY <2>1, EmptySeq, ReaderAssumption DEF Miss
    <3>2. Len(cache') = a - 1
      BY <1>5, <1>6, <3>1, HeadTailProperties
    <3> QED
      BY <1>6, <3>1, <3>2 DEF IInv, CountInv, CountersTyped
  <2>2. CASE Len(cache) # Capacity
    BY <1>6, <2>2 DEF Miss, IInv, CountInv, CountersTyped
  <2> QED
    BY <2>1, <2>2
<1>8. CountersTyped'
  BY <1>2, <1>7 DEF IInv, CountInv, CountersTyped
<1>9. LoadsCounted'
  BY <1>2, <1>4, <1>6, <1>7 DEF IInv, CountInv, CountersTyped, LoadsCounted
<1>10. ReadsCounted' /\ RangeIsOfPlan'
  BY <1>2, <1>3 DEF IInv, CountInv, ReadsCounted, RangeIsOfPlan
<1> QED
  BY <1>1, <1>8, <1>9, <1>10 DEF CountInv

LEMMA BeginCounts == ASSUME IInv, BeginRange PROVE LruInv' /\ CountInv'
<1>1. /\ Loading /\ ~load.begun /\ load.range <= Len(Source.ranges)
      /\ UNCHANGED <<sample, plan>>
  BY DEF BeginRange, Raise, shard
<1>2. CASE Raise /\ UNCHANGED reads
  BY <1>1, <1>2, RaiseStep DEF IInv, CountInv, CountersTyped
<1>3. CASE /\ load' = [load EXCEPT !.begun = TRUE, !.got = <<>>]
           /\ reads' = [reads EXCEPT !.logical = @ + 1]
           /\ UNCHANGED <<shard, lru, asked, todo, closed, calls, failed, short>>
  <2>1. PICK A, T : load \in [expert : Ids \union {-1}, range : Nat \ {0}, got : Seq(A),
                              begun : BOOLEAN, tensors : T, before : T]
    BY DEF IInv, LruInv, LoadTyped
  <2>2. /\ load' \in [expert : Ids \union {-1}, range : Nat \ {0}, got : Seq(A),
                      begun : BOOLEAN, tensors : T, before : T]
        /\ load'.expert = load.expert /\ load'.range = load.range
        /\ load'.begun = TRUE /\ load'.got = <<>>
    BY <1>3, <2>1, EmptySeq
  <2>3. /\ reads' \in [loads : Nat, logical : Nat, system : Nat, bytes : Nat]
        /\ reads'.loads = reads.loads /\ reads'.system = reads.system
        /\ reads'.logical = reads.logical + 1
    BY <1>3 DEF IInv, CountInv, CountersTyped
  <2>4. LruInv'
    BY <1>1, <1>3, <2>2, LoadGoesOn DEF IInv, LoadTyped
  <2>5. Loading'
    BY <1>1, <2>2 DEF Loading
  <2>6. CountersTyped'
    BY <1>3, <2>3 DEF IInv, CountInv, CountersTyped, lru
  <2>7. LoadsCounted'
    BY <1>1, <1>3, <2>3, <2>5 DEF IInv, CountInv, LoadsCounted, lru
  <2>8. ReadsCounted'
    <3>1. short = 0 /\ failed = 0 => reads.system = reads.logical
      BY <1>1 DEF IInv, CountInv, ReadsCounted
    <3>2. reads.logical \in Nat
      BY DEF IInv, CountInv, CountersTyped
    <3> QED
      BY <1>3, <2>2, <2>3, <2>5, <3>1, <3>2 DEF ReadsCounted
  <2>9. RangeIsOfPlan'
    BY <1>1, <2>2 DEF RangeIsOfPlan, Source
  <2> QED
    BY <2>4, <2>6, <2>7, <2>8, <2>9 DEF CountInv
<1> QED
  BY <1>2, <1>3 DEF BeginRange

\* A pread that is not short gets all of the range, in one read.
LEMMA PreadCounts == ASSUME IInv, NEW n \in 1..Len(file), Pread(n) PROVE LruInv' /\ CountInv'
<1>1. /\ Loading /\ load.begun /\ n <= Remaining
      /\ UNCHANGED <<sample, plan, lru, asked, todo, failed>>
      /\ reads' = [reads EXCEPT !.system = @ + 1, !.bytes = @ + n]
      /\ short' = short + (IF n < Remaining THEN 1 ELSE 0)
  BY DEF Pread, shard
<1>2. PICK A, T : load \in [expert : Ids \union {-1}, range : Nat \ {0}, got : Seq(A),
                            begun : BOOLEAN, tensors : T, before : T]
  BY DEF IInv, LruInv, LoadTyped
<1>3. PICK off \in Nat, len \in Nat \ {0}, a \in Nat :
          off = Wanted.offset /\ len = Wanted.length /\ a = Len(load.got)
  BY <1>1, <1>2, WantedTyped, LenProperties
<1>4. n \in Nat \ {0} /\ Remaining = len - a /\ n <= len - a
  BY <1>1, <1>3 DEF Remaining
<1> DEFINE piece == SubSeq(file, off + a + 1, off + a + n)
           B == A \union {file[i] : i \in (off + a + 1)..(off + a + n)}
<1>5. load' = [load EXCEPT !.got = @ \o piece]
  BY <1>3 DEF Pread
<1>6. piece \in Seq(B) /\ Len(piece) = n
  <2>1. off + a + 1 \in Int /\ off + a + n \in Int /\ off + a + 1 <= off + a + n
        /\ off + a + n - (off + a + 1) + 1 = n
    BY <1>4
  <2>2. \A i \in (off + a + 1)..(off + a + n) : file[i] \in B
    OBVIOUS
  <2> HIDE DEF B
  <2> QED
    BY <2>1, <2>2, SubSeqProperties
<1>7. PICK got \in Seq(B) : got = load.got
  <2>1. load.got \in Seq(A) /\ A \subseteq B
    BY <1>2
  <2> HIDE DEF B
  <2> QED
    BY <2>1
<1> HIDE DEF piece, B
<1>8. got \o piece \in Seq(B) /\ Len(got \o piece) = a + n
  BY <1>3, <1>6, <1>7, ConcatProperties
<1>9. /\ load' \in [expert : Ids \union {-1}, range : Nat \ {0}, got : Seq(B),
                    begun : BOOLEAN, tensors : T, before : T]
      /\ load'.expert = load.expert /\ load'.range = load.range
      /\ load'.begun = load.begun /\ load'.got = got \o piece
  BY <1>2, <1>5, <1>7, <1>8
<1>10. LruInv'
  BY <1>1, <1>9, LoadGoesOn DEF IInv, LoadTyped
<1>11. /\ reads' \in [loads : Nat, logical : Nat, system : Nat, bytes : Nat]
       /\ reads'.loads = reads.loads /\ reads'.system = reads.system + 1
       /\ reads'.logical = reads.logical
  <2>1. PICK l, g, s, b \in Nat : reads = [loads |-> l, logical |-> g, system |-> s, bytes |-> b]
    BY ReadsFields DEF IInv, CountInv
  <2>2. reads' = [loads |-> l, logical |-> g, system |-> s + 1, bytes |-> b + n]
    BY <1>1, <2>1
  <2> QED
    BY <1>4, <2>1, <2>2
<1>12. Loading' /\ load'.begun
  BY <1>1, <1>9 DEF Loading
<1>13. CountersTyped'
  <2>1. short' \in Nat
    BY <1>1 DEF IInv, CountInv, CountersTyped
  <2> QED
    BY <1>1, <1>11, <2>1 DEF IInv, CountInv, CountersTyped, lru
<1>14. LoadsCounted'
  BY <1>1, <1>11, <1>12 DEF IInv, CountInv, LoadsCounted, lru
<1>15. Remaining' = len - (a + n)
  BY <1>1, <1>3, <1>8, <1>9 DEF Remaining, Wanted, Source
<1>16. ReadsCounted'
  <2> SUFFICES ASSUME short' = 0, failed' = 0
               PROVE  load'.got # <<>> /\ reads'.system = reads'.logical /\ Remaining' = 0
    BY <1>12 DEF ReadsCounted
  <2>1. short = 0 /\ failed = 0 /\ n = len - a
    BY <1>1, <1>4 DEF IInv, CountInv, CountersTyped
  <2>2. load'.got # <<>>
    BY <1>4, <1>8, <1>9, EmptySeq
  <2>3. load.got = <<>> /\ reads.system = reads.logical - 1
    BY <1>1, <1>4, <2>1 DEF IInv, CountInv, ReadsCounted
  <2>4. reads.logical \in Nat
    BY DEF IInv, CountInv, CountersTyped
  <2> QED
    BY <1>11, <1>15, <2>1, <2>2, <2>3, <2>4
<1>17. RangeIsOfPlan'
  BY <1>1, <1>9 DEF IInv, CountInv, RangeIsOfPlan, Loading, Source
<1> QED
  BY <1>10, <1>13, <1>14, <1>16, <1>17 DEF CountInv

LEMMA PreadFailsCounts == ASSUME IInv, PreadFails PROVE LruInv' /\ CountInv'
<1>1. Loading /\ Raise /\ UNCHANGED sample
  BY DEF PreadFails, Raise, shard
<1>2. PICK end \in 0..1 : reads' = [reads EXCEPT !.system = @ + end]
  BY DEF PreadFails
<1>3. /\ reads' \in [loads : Nat, logical : Nat, system : Nat, bytes : Nat]
      /\ reads'.loads = reads.loads
  BY <1>2 DEF IInv, CountInv, CountersTyped
<1> QED
  BY <1>1, <1>3, RaiseStep

LEMMA EndRangeCounts == ASSUME IInv, EndRange PROVE LruInv' /\ CountInv'
<1>1. Loading /\ load.begun /\ Remaining = 0 /\ UNCHANGED <<sample, plan>>
  BY DEF EndRange, Raise, shard
<1>2. CASE Raise /\ UNCHANGED reads
  BY <1>1, <1>2, RaiseStep DEF IInv, CountInv, CountersTyped
<1>3. ASSUME NEW tensors,
             load' = [load EXCEPT !.begun = FALSE, !.range = @ + 1, !.tensors = Joined(@, tensors)],
             UNCHANGED <<shard, lru, asked, todo, reads, closed, calls, failed, short>>
      PROVE  LruInv' /\ CountInv'
  <2>1. PICK A, T : load \in [expert : Ids \union {-1}, range : Nat \ {0}, got : Seq(A),
                              begun : BOOLEAN, tensors : T, before : T]
    BY DEF IInv, LruInv, LoadTyped
  <2> DEFINE merged == Joined(load.tensors, tensors)
             U == T \union {merged}
  <2>2. /\ load' \in [expert : Ids \union {-1}, range : Nat \ {0}, got : Seq(A),
                      begun : BOOLEAN, tensors : U, before : U]
        /\ load'.expert = load.expert /\ load'.begun = FALSE
    <3>1. load' = [load EXCEPT !.begun = FALSE, !.range = @ + 1, !.tensors = merged]
      BY <1>3
    <3>2. T \subseteq U /\ merged \in U
      OBVIOUS
    <3> HIDE DEF merged, U
    <3>3. load.range + 1 \in Nat \ {0}
      BY <2>1
    <3> QED
      BY <2>1, <3>1, <3>2, <3>3
  <2> HIDE DEF U
  <2>3. LruInv'
    BY <1>1, <1>3, <2>2, LoadGoesOn DEF IInv, LoadTyped
  <2>4. Loading'
    BY <1>1, <2>2 DEF Loading
  <2>5. CountersTyped' /\ LoadsCounted'
    BY <1>1, <1>3, <2>4 DEF IInv, CountInv, CountersTyped, LoadsCounted, lru
  <2>6. ReadsCounted'
    <3>1. load.got # <<>>
      <4>1. Wanted.length \in Nat \ {0}
        BY <1>1, WantedTyped
      <4>2. Len(load.got) = Wanted.length
        <5>1. Len(load.got) \in Nat
          BY <2>1, LenProperties
        <5> QED
          BY <1>1, <4>1, <5>1 DEF Remaining
      <4> QED
        BY <4>1, <4>2, EmptySeq
    <3>2. short = 0 /\ failed = 0 => reads.system = reads.logical
      BY <1>1, <3>1 DEF IInv, CountInv, ReadsCounted
    <3> QED
      BY <1>3, <2>2, <3>2 DEF ReadsCounted
  <2>7. RangeIsOfPlan'
    BY <2>2 DEF RangeIsOfPlan
  <2> QED
    BY <2>3, <2>5, <2>6, <2>7 DEF CountInv
<1> QED
  BY <1>2, <1>3 DEF EndRange

LEMMA EndLoadCounts == ASSUME IInv, EndLoad PROVE LruInv' /\ CountInv'
<1>1. Loading /\ ~load.begun /\ UNCHANGED <<sample, plan>>
  BY DEF EndLoad, Raise, shard
<1>2. CASE Raise /\ UNCHANGED reads
  BY <1>1, <1>2, RaiseStep DEF IInv, CountInv, CountersTyped
<1> DEFINE x == [expert |-> load.expert, tensors |-> load.tensors,
                 bytes |-> reads.bytes - load.before]
<1>3. CASE /\ cache' = Append(cache, x)
           /\ recent' = Touched(load.expert)
           /\ reads' = [reads EXCEPT !.loads = @ + 1]
           /\ todo' = Tail(todo)
           /\ load' = NotLoading
           /\ UNCHANGED <<shard, hits, misses, evictions, asked, closed, calls, failed, short>>
  <2>1. x.expert = load.expert
    OBVIOUS
  <2>2. PICK S : cache \in Seq(S)
    BY DEF IInv, LruInv, CacheTyped
  <2> HIDE DEF x
  <2>3. LruInv'
    BY <1>1, <1>3, <2>1, LoadEnds DEF IInv
  <2>4. PICK a \in Nat : a = Len(cache) /\ Len(cache') = a + 1
    <3>1. cache \in Seq(S \union {x})
      BY <2>2
    <3> QED
      BY <1>3, <3>1, AppendProperties, LenProperties
  <2>5. ~Loading'
    BY <1>3 DEF Loading, NotLoading, Ids
  <2>6. /\ reads' \in [loads : Nat, logical : Nat, system : Nat, bytes : Nat]
        /\ reads'.loads = reads.loads + 1 /\ reads'.system = reads.system
        /\ reads'.logical = reads.logical
    <3>1. PICK l, g, s, b \in Nat : reads = [loads |-> l, logical |-> g, system |-> s, bytes |-> b]
      BY ReadsFields DEF IInv, CountInv
    <3>2. reads' = [loads |-> l + 1, logical |-> g, system |-> s, bytes |-> b]
      BY <1>3, <3>1
    <3> QED
      BY <3>1, <3>2
  <2>7. CountersTyped'
    BY <1>3, <2>6 DEF IInv, CountInv, CountersTyped
  <2>8. LoadsCounted'
    <3>1. /\ reads.loads = misses - failed - 1 /\ reads.loads = evictions + a
          /\ misses \in Nat /\ failed \in Nat /\ evictions \in Nat
      BY <1>1, <2>4 DEF IInv, CountInv, CountersTyped, LoadsCounted
    <3>2. UNCHANGED <<misses, failed, evictions>>
      BY <1>3
    <3> QED
      BY <2>4, <2>5, <2>6, <3>1, <3>2 DEF LoadsCounted
  <2>9. ReadsCounted' /\ RangeIsOfPlan'
    BY <1>1, <1>3, <2>5, <2>6 DEF IInv, CountInv, ReadsCounted, RangeIsOfPlan
  <2> QED
    BY <2>3, <2>7, <2>8, <2>9 DEF CountInv
<1> QED
  BY <1>2, <1>3 DEF EndLoad

-----------------------------------------------------------------------------
(* Theorems                                                                  *)

\* The inductive invariant: the cache is the most recent end of the history, a call
\* is its part done and the rest, a load is of the next expert, which is not
\* resident, and the counters agree with both.
THEOREM Invariance == Spec => []IInv
<1>1. Init => IInv
  BY CountInit
<1>2. IInv /\ [Next]_vars => IInv'
  <2> SUFFICES ASSUME IInv, [Next]_vars PROVE IInv'
    OBVIOUS
  <2>1. UNCHANGED <<sample, plan>>
    BY DEF Next, vars, shard, Ensure, Hit, Miss, Return, BeginRange, Pread, PreadFails, EndRange,
           EndLoad, CloseReader, Raise
  <2>2. PlanIsSound' /\ PlanIsEncoded'
    BY <2>1 DEF IInv, PlanIsSound, PlanIsEncoded
  <2>3. LruInv' /\ CountInv'
    <3>1. ASSUME NEW route \in Routes(sample), Ensure(route) PROVE LruInv' /\ CountInv'
      <4>1. LruInv'
        BY <3>1, EnsureStep DEF IInv
      <4>2. hits' \in Nat
        BY <3>1 DEF Ensure, lru, IInv, CountInv, CountersTyped
      <4> QED
        BY <3>1, <4>1, <4>2, QuietStep DEF Ensure, lru, shard
    <3>2. CASE Hit
      BY <3>2, HitCounts
    <3>3. CASE Miss
      BY <3>3, MissCounts
    <3>4. CASE Return
      <4>1. /\ UNCHANGED <<sample, plan, lru, todo, load, reads, failed, short>>
            /\ asked' = <<>> /\ todo = <<>>
        BY <3>4 DEF Return, shard
      <4>2. ~Loading
        BY <4>1 DEF IInv, LruInv, LoadIsMiss
      <4>3. LruInv'
        BY <4>1, <4>2, CallEnds DEF IInv
      <4>4. hits' \in Nat
        BY <4>1 DEF lru, IInv, CountInv, CountersTyped
      <4> QED
        BY <4>1, <4>3, <4>4, QuietStep DEF lru
    <3>5. CASE BeginRange
      BY <3>5, BeginCounts
    <3>6. ASSUME NEW n \in 1..Len(file), Pread(n) PROVE LruInv' /\ CountInv'
      BY <3>6, PreadCounts
    <3>7. CASE PreadFails
      BY <3>7, PreadFailsCounts
    <3>8. CASE EndRange
      BY <3>8, EndRangeCounts
    <3>9. CASE EndLoad
      BY <3>9, EndLoadCounts
    <3>10. CASE CloseReader \/ UNCHANGED vars
      <4>1. UNCHANGED <<sample, plan, lru, asked, todo, load, reads, failed, short>>
        BY <3>10 DEF CloseReader, vars, shard
      <4>2. LruInv'
        <5>1. LoadTyped' /\ load'.expert = load.expert
          BY <4>1 DEF IInv, LruInv, LoadTyped
        <5> QED
          BY <4>1, <5>1, LoadGoesOn DEF IInv
      <4>3. hits' \in Nat
        BY <4>1 DEF lru, IInv, CountInv, CountersTyped
      <4> QED
        BY <4>1, <4>2, <4>3, QuietStep DEF lru
    <3> QED
      BY <3>1, <3>2, <3>3, <3>4, <3>5, <3>6, <3>7, <3>8, <3>9, <3>10 DEF Next
  <2> QED
    BY <2>2, <2>3 DEF IInv
<1> QED
  BY <1>1, <1>2, PTL DEF Spec

\* The variables have their types, and the cache never holds more than its capacity.
THEOREM TypeCorrect == Spec => []TypeOK
<1> DEFINE CallsTyped == calls \in Nat /\ closed \in BOOLEAN
<1>1. Init => CallsTyped
  <2>1. Init => calls = 0 /\ closed = FALSE
    BY DEF Init
  <2>2. 0 \in Nat
    OBVIOUS
  <2> QED
    BY <2>1, <2>2
<1>2. CallsTyped /\ [Next]_vars => CallsTyped'
  <2> SUFFICES ASSUME CallsTyped, [Next]_vars PROVE CallsTyped'
    OBVIOUS
  <2>1. ASSUME NEW route \in Routes(sample), Ensure(route) PROVE CallsTyped'
    BY <2>1 DEF Ensure
  <2>2. CASE CloseReader
    BY <2>2 DEF CloseReader
  <2>3. CASE Hit \/ Miss \/ Return \/ UNCHANGED vars
    BY <2>3 DEF Hit, Miss, Return, vars
  <2>4. ASSUME NEW n \in 1..Len(file), Pread(n) PROVE CallsTyped'
    BY <2>4 DEF Pread
  <2>5. CASE BeginRange
    <3>1. closed' = closed /\ calls' = calls
      BY <2>5 DEF BeginRange, Raise
    <3> QED
      BY <3>1
  <2>6. CASE PreadFails \/ EndRange
    BY <2>6 DEF PreadFails, EndRange, Raise
  <2>7. CASE EndLoad
    BY <2>7 DEF EndLoad, Raise
  <2> QED
    BY <2>1, <2>2, <2>3, <2>4, <2>5, <2>6, <2>7 DEF Next
<1>3. IInv /\ CallsTyped => TypeOK
  <2> SUFFICES ASSUME IInv, CallsTyped PROVE TypeOK
    OBVIOUS
  <2>1. CallTyped /\ CacheTyped /\ LoadTyped /\ CountersTyped /\ Len(cache) <= Capacity
    BY DEF IInv, LruInv, CountInv, CacheIsRecent
  <2>2. PICK S : cache \in Seq(S) /\ \A x \in S : x.expert \in Ids
    BY <2>1 DEF CacheTyped
  <2>3. Len(cache) \in Nat /\ \A i \in 1..Len(cache) : cache[i] \in S
    BY <2>2, LenProperties, ElementOfSeq
  <2>4. Len(cache) \in 0..Capacity
    BY <2>1, <2>3, ReaderAssumption
  <2>5. load.expert \in Ids \union {-1} /\ load.range \in Nat \ {0} /\ load.begun \in BOOLEAN
    BY <2>1 DEF LoadTyped
  <2> QED
    BY <2>1, <2>2, <2>3, <2>4, <2>5 DEF TypeOK, CallTyped, CountersTyped
<1>4. Spec => []CallsTyped
  BY <1>1, <1>2, PTL DEF Spec
<1> QED
  BY <1>3, <1>4, Invariance, PTL

\* A sequence that another one ends with is its suffix.
LEMMA EndIsSuffix ==
    ASSUME NEW S, NEW s \in Seq(S), NEW t \in Seq(S), EndsWith(t, s)
    PROVE  IsSuffix(s, t)
<1>1. PICK m \in Nat, n \in Nat : m = Len(s) /\ n = Len(t)
  BY LenProperties
<1>2. m <= n /\ \A i \in 1..m : s[i] = t[n - m + i]
  BY <1>1 DEF EndsWith
<1> DEFINE rs == [i \in 1..m |-> s[m - i + 1]]
           rt == [i \in 1..n |-> t[n - i + 1]]
<1>3. Reverse(s) = rs /\ Reverse(t) = rt
  BY <1>1 DEF Reverse
<1>4. Len(rs) = m /\ Len(rt) = n
  OBVIOUS
<1>5. rs \in Seq(S) /\ rt \in Seq(S)
  <2>1. \A i \in 1..m : m - i + 1 \in 1..m /\ s[m - i + 1] \in S
    BY <1>1
  <2>2. \A i \in 1..n : n - i + 1 \in 1..n /\ t[n - i + 1] \in S
    BY <1>1
  <2> QED
    BY <2>1, <2>2
<1>6. ASSUME NEW i \in 1..m PROVE rs[i] = rt[i]
  <2>1. m - i + 1 \in 1..m /\ n - i + 1 = n - m + (m - i + 1) /\ i \in 1..n
    BY <1>2
  <2> QED
    BY <1>2, <2>1
<1> HIDE DEF rs, rt
<1>7. /\ Len(SubSeq(rs, 1, m)) = m /\ SubSeq(rs, 1, m) \in Seq(S)
      /\ \A i \in 1..m : SubSeq(rs, 1, m)[i] = rs[i]
  <2>1. \A i \in 1..m : rs[i] \in S
    BY <1>4, <1>5
  <2>2. \A i \in 1..(m - 1 + 1) : 1 + i - 1 = i
    OBVIOUS
  <2> QED
    BY <2>1, <2>2, SubSeqProperties
<1>8. /\ Len(SubSeq(rt, 1, m)) = m /\ SubSeq(rt, 1, m) \in Seq(S)
      /\ \A i \in 1..m : SubSeq(rt, 1, m)[i] = rt[i]
  <2>1. \A i \in 1..m : rt[i] \in S
    BY <1>2, <1>4, <1>5
  <2>2. \A i \in 1..(m - 1 + 1) : 1 + i - 1 = i
    OBVIOUS
  <2> QED
    BY <2>1, <2>2, SubSeqProperties
<1>9. SubSeq(rs, 1, m) = SubSeq(rt, 1, m)
  BY <1>6, <1>7, <1>8, SeqEqual
<1> QED
  BY <1>2, <1>3, <1>4, <1>9 DEF IsSuffix, IsPrefix

\* When ensure returns, all it was asked for is resident, and the cache holds the most
\* recently used experts (ServesItsRequest).
THEOREM RequestCorrect == Spec => []ServesItsRequest
<1>1. IInv => ServesItsRequest
  <2> SUFFICES ASSUME IInv PROVE ServesItsRequest
    OBVIOUS
  <2>1. CacheIds \in Seq(Ids) /\ recent \in Seq(Ids) /\ EndsWith(recent, CacheIds) /\ Len(cache) <= Capacity
    BY CacheIdsTyped DEF IInv, LruInv, CallTyped, CacheIsRecent
  <2>2. PICK S : cache \in Seq(S)
    BY DEF IInv, LruInv, CacheTyped
  <2>3. Len(cache) \in Nat /\ DOMAIN cache = 1..Len(cache)
    BY <2>2, LenProperties
  <2>4. [i \in DOMAIN cache |-> cache[i].expert] = CacheIds
    BY <2>3 DEF CacheIds, IdsOf
  <2>5. IsSuffix([i \in DOMAIN cache |-> cache[i].expert], recent)
    BY <2>1, <2>4, EndIsSuffix
  <2>6. ASSUME todo = <<>> PROVE ToSet(asked) \subseteq Resident
    <3>1. asked \in Seq(Ids) /\ Len(asked) \in Nat /\ DOMAIN asked = 1..Len(asked) /\ Len(recent) \in Nat
      BY LenProperties DEF IInv, LruInv, CallTyped
    <3>2. DoneOf(asked, <<>>) = asked
      <4>1. Len(asked) - Len(<<>>) = Len(asked)
        BY <3>1, EmptySeq
      <4> QED
        BY <3>1, <4>1, SubSeqFull DEF DoneOf
    <3>3. EndsWith(recent, asked) /\ Len(asked) <= Len(cache)
      BY <2>6, <3>2 DEF IInv, LruInv, DoneIsRecent
    <3>4. PICK a \in Nat, c \in Nat, r \in Nat : a = Len(asked) /\ c = Len(cache) /\ r = Len(recent)
      BY <2>3, <3>1
    <3>5. Len(CacheIds) = c /\ \A i \in 1..c : CacheIds[i] = cache[i].expert
      BY <3>4, CacheIdsTyped DEF IInv, LruInv
    <3>6. ASSUME NEW i \in 1..a PROVE asked[i] \in Resident
      <4>1. c - a + i \in 1..c /\ r - a + i = r - c + (c - a + i)
        BY <3>3, <3>4
      <4>2. asked[i] = recent[r - a + i]
        BY <3>3, <3>4 DEF EndsWith
      <4>3. CacheIds[c - a + i] = recent[r - c + (c - a + i)]
        BY <2>1, <3>4, <3>5, <4>1 DEF EndsWith
      <4>4. asked[i] = cache[c - a + i].expert
        BY <3>5, <4>1, <4>2, <4>3
      <4> QED
        BY <2>3, <3>4, <4>1, <4>4 DEF Resident
    <3> QED
      BY <3>1, <3>4, <3>6 DEF ToSet
  <2> QED
    BY <2>1, <2>5, <2>6 DEF ServesItsRequest
<1> QED
  BY <1>1, Invariance, PTL

\* Hits, misses, evictions, loads and reads tell one story, also after loads that
\* failed (CountersAddUp).
THEOREM CountersCorrect == Spec => []CountersAddUp
<1>1. IInv => CountersAddUp
  BY DEF IInv, CountInv, LoadsCounted, ReadsCounted, CountersAddUp
<1> QED
  BY <1>1, Invariance, PTL

-----------------------------------------------------------------------------
(* The rows of an indexed layer                                              *)

\* Positions of which each is before the next one are in order.
LEMMA IncreasingOrder ==
    ASSUME NEW r, r.positions \in Seq(Nat), Increasing(r), NEW m \in Nat, m = Len(r.positions)
    PROVE  \A i, j \in 1..m : i < j => r.positions[i] < r.positions[j]
<1> DEFINE p == r.positions
           T == {k \in Nat : \A i \in 1..m : i + k + 1 \in 1..m => p[i] < p[i + k + 1]}
<1>1. \A i \in 1..m : p[i] \in Nat
  BY ElementOfSeq
<1>2. \A i \in 2..m : p[i - 1] < p[i]
  BY DEF Increasing
<1> HIDE DEF p
<1>3. 0 \in T
  <2>1. ASSUME NEW i \in 1..m, i + 1 \in 1..m PROVE p[i] < p[i + 1]
    <3>1. i + 1 \in 2..m /\ (i + 1) - 1 = i
      BY <2>1
    <3> QED
      BY <1>2, <3>1
  <2> QED
    BY <2>1
<1>4. ASSUME NEW k \in T PROVE k + 1 \in T
  <2>1. ASSUME NEW i \in 1..m, i + (k + 1) + 1 \in 1..m PROVE p[i] < p[i + (k + 1) + 1]
    <3>1. i + k + 1 \in 1..m /\ i + (k + 1) + 1 \in 2..m /\ (i + (k + 1) + 1) - 1 = i + k + 1
      BY <2>1
    <3>2. p[i] < p[i + k + 1]
      BY <3>1
    <3>3. p[i + k + 1] < p[i + (k + 1) + 1]
      BY <1>2, <3>1
    <3>4. p[i] \in Nat /\ p[i + k + 1] \in Nat /\ p[i + (k + 1) + 1] \in Nat
      BY <1>1, <2>1, <3>1
    <3> QED
      BY <3>2, <3>3, <3>4
  <2> QED
    BY <2>1
<1>5. T \in SUBSET Nat
  OBVIOUS
<1> HIDE DEF T
<1>6. T = Nat
  BY <1>3, <1>4, <1>5, SetInduction
<1>7. ASSUME NEW i \in 1..m, NEW j \in 1..m, i < j PROVE p[i] < p[j]
  <2>1. j - i - 1 \in Nat /\ i + (j - i - 1) + 1 = j
    BY <1>7
  <2>2. j - i - 1 \in T
    BY <1>6, <2>1
  <2>3. i + (j - i - 1) + 1 \in 1..m => p[i] < p[i + (j - i - 1) + 1]
    BY <2>2 DEF T
  <2> QED
    BY <2>1, <2>3
<1> QED
  BY <1>7 DEF p

\* Those before a boundary are the first ones, as many as they are.
Ordered(p) == \A i, j \in 1..Len(p) : i < j => p[i] < p[j]
Under(p, b) == {i \in 1..Len(p) : p[i] < b}
FirstAre(p, b, c) == c \in 0..Len(p) /\ \A i \in 1..Len(p) : (i <= c <=> p[i] < b)

LEMMA FirstOnes ==
    ASSUME NEW p \in Seq(Nat), Ordered(p), NEW b \in Nat
    PROVE  FirstAre(p, b, Cardinality(Under(p, b)))
<1>0. PICK m \in Nat, D \in SUBSET Nat :
        m = Len(p) /\ D = Under(p, b) /\ D = {i \in 1..m : p[i] < b}
  <2>1. PICK m \in Nat : m = Len(p)
    BY LenProperties
  <2>2. Under(p, b) = {i \in 1..m : p[i] < b}
    BY <2>1 DEF Under
  <2>3. {i \in 1..m : p[i] < b} \in SUBSET Nat
    OBVIOUS
  <2> QED
    BY ONLY <2>1, <2>2, <2>3
<1>1. D \in SUBSET Nat /\ IsFiniteSet(D)
  <2>1. IsFiniteSet(1..m) /\ D \in SUBSET (1..m)
    BY <1>0, FS_Interval
  <2>2. D \in SUBSET Nat
    BY <1>0
  <2> QED
    BY <2>1, <2>2, FS_Subset
<1>2. CASE D = {}
  <2>1. Cardinality(D) = 0
    BY <1>2, FS_EmptySet
  <2>2. \A i \in 1..m : ~(i <= 0) /\ ~(p[i] < b)
    BY <1>0, <1>2
  <2>3. FirstAre(p, b, 0)
    BY <1>0, <2>2 DEF FirstAre
  <2> QED
    BY <1>0, <2>1, <2>3
<1>3. CASE D # {}
  <2>1. PICK x \in D : \A y \in D : x >= y
    BY <1>1, <1>3, MaxExists
  <2>2. D = 1..x
    <3>1. ASSUME NEW i \in 1..x PROVE i \in D
      <4>1. i \in 1..m /\ p[i] \in Nat /\ p[x] \in Nat
        <5>1. i \in 1..m /\ x \in 1..m
          BY <1>0
        <5> QED
          BY <1>0, <5>1, ElementOfSeq
      <4>2. p[x] < b /\ x \in 1..m
        BY <1>0
      <4>3. CASE i = x
        BY <4>3
      <4>4. CASE i < x
        <5>1. p[i] < p[x]
          BY <1>0, <4>1, <4>2, <4>4 DEF Ordered
        <5> QED
          BY <1>0, <4>1, <4>2, <5>1
      <4> QED
        BY <4>1, <4>2, <4>3, <4>4
    <3>2. ASSUME NEW i \in D PROVE i \in 1..x
      BY <1>0, <2>1
    <3> QED
      BY <3>1, <3>2
  <2>3. Cardinality(1..x) = x
    <3>1. x \in Int /\ 1 \in Int /\ 1 <= x
      BY <1>0
    <3>2. Cardinality(1..x) = x - 1 + 1
      BY <3>1, FS_Interval
    <3> QED
      BY <3>1, <3>2
  <2>4. x \in 1..m
    BY <1>0
  <2>5. \A i \in 1..m : (i \in D <=> p[i] < b)
    BY <1>0
  <2>6. Cardinality(D) = x
    BY <2>2, <2>3
  <2>7. \A i \in 1..m : (i <= x <=> p[i] < b)
    BY <2>2, <2>4, <2>5
  <2>8. FirstAre(p, b, x)
    BY <1>0, <2>4, <2>7 DEF FirstAre
  <2> QED
    BY <1>0, <2>6, <2>8
<1> QED
  BY <1>2, <1>3

\* The directory of a record: between two entries lie the exceptions of a tile.
LEMMA DirectoryIsRight ==
    ASSUME NEW s \in Seq(Byte), NEW r, RecordOf(s, r), Indexable(r)
    PROVE  /\ \A t \in 1..Tiles(r.raw) :
                 {i \in DOMAIN r.positions : TilePrefix(r)[t - 1] < i /\ i <= TilePrefix(r)[t]}
                   = {i \in DOMAIN r.positions : r.positions[i] \div TileScales = t - 1}
           /\ DOMAIN TilePrefix(r) = 0..Tiles(r.raw) /\ Tiles(r.raw) \in Nat
           /\ \A t \in 0..Tiles(r.raw) : TilePrefix(r)[t] <= MaxDirectory
<1> DEFINE p == r.positions
           prefix == TilePrefix(r)
<1>1. PICK raw \in Nat, m \in Nat : raw = r.raw /\ m = Len(p) /\ DOMAIN p = 1..m
  BY LenProperties DEF RecordOf
<1>2. p \in Seq(Nat) /\ m <= MaxDirectory /\ MaxDirectory \in Nat /\ TileScales \in Nat \ {0}
  BY <1>1, CodecAssumption DEF RecordOf, Indexable
<1>3. PICK n \in Nat : n = Tiles(raw)
  BY <1>2, CeilDivTyped DEF Tiles
<1>4. \A i, j \in 1..m : i < j => p[i] < p[j]
  BY <1>1, <1>2, IncreasingOrder DEF Indexable
<1>5. \A i \in 1..m : p[i] \in Nat /\ p[i] < raw
  <2>1. ASSUME NEW i \in 1..m PROVE p[i] \in Nat /\ p[i] < raw
    <3>1. p[i] \in Nat /\ p[m] \in Nat /\ m \in 1..m
      BY <1>1, <1>2, ElementOfSeq
    <3>2. p # <<>>
      BY <1>1, EmptySeq
    <3>3. p[m] < raw
      BY <1>1, <3>2 DEF Indexable, Increasing
    <3>4. i = m \/ p[i] < p[m]
      BY <1>4, <3>1
    <3> QED
      BY <3>1, <3>3, <3>4
  <2> QED
    BY <2>1
<1> DEFINE b(t) == IF t * TileScales < raw THEN t * TileScales ELSE raw
<1>6. prefix = [t \in 0..n |-> Cardinality({i \in 1..m : p[i] < b(t)})]
  BY <1>1, <1>3 DEF TilePrefix
<1> HIDE DEF prefix, p
<1>7. ASSUME NEW t \in 0..n
      PROVE  /\ prefix[t] \in 0..m
             /\ \A i \in 1..m : (i <= prefix[t] <=> p[i] < t * TileScales)
  <2>1. t * TileScales \in Nat /\ b(t) \in Nat
    BY <1>2
  <2>2. PICK x \in Nat, y \in Nat : x = t * TileScales /\ y = IF x < raw THEN x ELSE raw
    BY <2>1
  <2>3. prefix[t] = Cardinality({i \in 1..m : p[i] < y})
    BY <1>6, <2>2
  <2>4. prefix[t] \in 0..m /\ \A i \in 1..m : (i <= prefix[t] <=> p[i] < y)
    <3>1. prefix[t] = Cardinality(Under(p, y))
      BY <1>1, <2>3 DEF Under
    <3>2. Ordered(p)
      BY <1>1, <1>4 DEF Ordered
    <3>3. FirstAre(p, y, prefix[t])
      BY <1>2, <3>1, <3>2, FirstOnes
    <3> QED
      BY <1>1, <3>3 DEF FirstAre
  <2>5. \A i \in 1..m : (p[i] < y <=> p[i] < x)
    BY <1>5, <2>2
  <2> QED
    BY <2>2, <2>4, <2>5
<1>8. ASSUME NEW t \in 1..n, NEW i \in 1..m
      PROVE  (prefix[t - 1] < i /\ i <= prefix[t]) <=> p[i] \div TileScales = t - 1
  <2>1. t - 1 \in 0..n /\ t \in 0..n
    OBVIOUS
  <2>2. PICK k \in Nat, w \in Nat \ {0}, x \in Nat : k = t - 1 /\ w = TileScales /\ x = p[i]
    <3>1. t - 1 \in Nat /\ p[i] \in Nat
      BY <1>5
    <3> QED
      BY <1>2, <3>1
  <2>3. k * w \in Nat /\ t * w = k * w + w
    BY <2>2
  <2>4. prefix[t - 1] \in Nat /\ (i <= prefix[t - 1] <=> x < k * w)
    BY <1>7, <2>1, <2>2
  <2>5. i <= prefix[t] <=> x < k * w + w
    BY <1>7, <2>1, <2>2, <2>3
  <2>6. (k * w <= x /\ x < k * w + w) <=> x \div w = k
    <3>1. ASSUME k * w <= x, x < k * w + w PROVE x \div w = k
      BY <3>1, DivIs
    <3>2. ASSUME x \div w = k PROVE k * w <= x /\ x < k * w + w
      BY <3>2, DivFacts
    <3> QED
      BY <3>1, <3>2
  <2>7. prefix[t - 1] < i <=> k * w <= x
    BY <2>3, <2>4
  <2> QED
    BY <2>2, <2>5, <2>6, <2>7
<1>9. ASSUME NEW t \in 1..n
      PROVE  {i \in DOMAIN p : prefix[t - 1] < i /\ i <= prefix[t]}
               = {i \in DOMAIN p : p[i] \div TileScales = t - 1}
  BY <1>1, <1>8
<1>10. \A t \in 0..n : prefix[t] <= MaxDirectory
  BY <1>2, <1>7
<1>11. DOMAIN prefix = 0..n
  BY <1>6
<1> QED
  BY <1>1, <1>3, <1>9, <1>10, <1>11 DEF prefix, p

\* The directory of a row, with the record, fills what was reckoned for it, and the
\* slot has room for the row of every expert (RowsAreIndexed).
LEMMA RowsFit ==
    ASSUME IInv, IsScaleX, NEW e \in Ids
    PROVE  LET record == plan[e].record
           IN  /\ RecordOf(sample.scales[e], record) /\ Indexable(record)
               /\ PaddedBytes(record) + 2 * (Tiles(record.raw) + 1) <= SlotRowBytes
<1>1. 0 \in Ids
  BY ReaderAssumption DEF Ids
<1>2. \A x \in Ids : plan[x].record = Encode(sample.scales[x]) /\ Indexable(plan[x].record)
  BY <1>1 DEF IInv, PlanIsEncoded, IsScaleX
<1>3. ASSUME NEW x \in Ids PROVE RecordOf(sample.scales[x], plan[x].record)
  <2>1. sample.scales[x] \in Seq(Byte)
    BY SamplesAssumption DEF IInv, LruInv, CallTyped
  <2> QED
    BY <1>2, <2>1, EncodeSound
<1> DEFINE size(x) == RowBytes(EncodedBytes(plan[x].record), plan[x].record.raw)
           F == {size(x) : x \in Ids}
<1>4. ASSUME NEW x \in Ids
      PROVE  /\ size(x) \in Nat
             /\ size(x) = PaddedBytes(plan[x].record) + 2 * (Tiles(plan[x].record.raw) + 1)
  <2>1. EncodedBytes(plan[x].record) \in Nat /\ plan[x].record.raw \in Nat
    <3>1. sample.scales[x] \in Seq(Byte)
      BY SamplesAssumption DEF IInv, LruInv, CallTyped
    <3>2. plan[x].record.raw = Len(sample.scales[x])
      BY <1>3 DEF RecordOf
    <3>3. EncodedBytes(plan[x].record) \in Nat
      BY <1>3, EncodedBytesTyped
    <3> QED
      BY <3>1, <3>2, <3>3, LenProperties
  <2>2. Tiles(plan[x].record.raw) \in Nat
    BY <2>1, CodecAssumption, CeilDivTyped DEF Tiles
  <2>3. PICK a \in Nat, t \in Nat : a = EncodedBytes(plan[x].record) /\ t = Tiles(plan[x].record.raw)
    BY <2>1, <2>2
  <2>4. size(x) = a + (a % 2) + 2 * (t + 1) /\ PaddedBytes(plan[x].record) = a + (a % 2)
    BY <2>3 DEF RowBytes, PaddedBytes
  <2>5. a + (a % 2) + 2 * (t + 1) \in Nat
    OBVIOUS
  <2> QED
    BY <2>3, <2>4, <2>5
<1>5. F \in SUBSET Nat /\ F # {} /\ size(e) \in F
  BY <1>4
<1>6. IsFiniteSet(F)
  <2>1. IsFiniteSet(Ids)
    BY ReaderAssumption, FS_Interval DEF Ids
  <2>2. [x \in Ids |-> size(x)] \in Surjection(Ids, F)
    BY DEF Surjection
  <2> HIDE DEF F
  <2> QED
    BY <2>1, <2>2, FS_Surjection
<1>7. SlotRowBytes = Max(F)
  BY DEF SlotRowBytes
<1> HIDE DEF F, size
<1>8. size(e) <= Max(F)
  <2>1. Max(F) \in Nat /\ size(e) \in Nat /\ Max(F) >= size(e)
    BY <1>5, <1>6, MaxExists
  <2> QED
    BY <2>1
<1> QED
  BY <1>2, <1>3, <1>4, <1>7, <1>8

\* In a converted layer the directory of every row names the exceptions of each tile
\* and every row fits the slot (RowsAreIndexed).
THEOREM RowsCorrect == Spec => []RowsAreIndexed
<1>1. IInv => RowsAreIndexed
  <2> SUFFICES ASSUME IInv, IsScaleX, NEW e \in Ids
               PROVE  LET record == plan[e].record
                          prefix == TilePrefix(record)
                          row == PaddedBytes(record) + 2 * Cardinality(DOMAIN prefix)
                      IN  /\ Decodable(record)
                          /\ \A t \in 1..Tiles(record.raw) :
                                 {i \in DOMAIN record.positions : prefix[t - 1] < i /\ i <= prefix[t]}
                                   = {i \in DOMAIN record.positions :
                                        record.positions[i] \div TileScales = t - 1}
                          /\ \A t \in DOMAIN prefix : prefix[t] <= MaxDirectory
                          /\ row <= SlotRowBytes
    BY DEF RowsAreIndexed
  <2>1. PICK r : r = plan[e].record
    OBVIOUS
  <2>2. /\ RecordOf(sample.scales[e], r) /\ Indexable(r)
        /\ PaddedBytes(r) + 2 * (Tiles(r.raw) + 1) <= SlotRowBytes
    BY <2>1, RowsFit
  <2>3. sample.scales[e] \in Seq(Byte)
    BY SamplesAssumption DEF IInv, LruInv, CallTyped
  <2>4. /\ \A t \in 1..Tiles(r.raw) :
              {i \in DOMAIN r.positions : TilePrefix(r)[t - 1] < i /\ i <= TilePrefix(r)[t]}
                = {i \in DOMAIN r.positions : r.positions[i] \div TileScales = t - 1}
        /\ DOMAIN TilePrefix(r) = 0..Tiles(r.raw) /\ Tiles(r.raw) \in Nat
        /\ \A t \in 0..Tiles(r.raw) : TilePrefix(r)[t] <= MaxDirectory
    BY <2>2, <2>3, DirectoryIsRight
  <2>5. Decodable(r)
    BY <2>2 DEF RecordOf, Indexable, Decodable
  <2>6. Cardinality(0..Tiles(r.raw)) = Tiles(r.raw) + 1
    <3>1. PICK n \in Nat : n = Tiles(r.raw)
      BY <2>4
    <3>2. Cardinality(0..n) = n + 1
      BY FS_Interval
    <3> QED
      BY <3>1, <3>2
  <2> QED
    BY <2>1, <2>2, <2>4, <2>5, <2>6
<1> QED
  BY <1>1, Invariance, PTL

-----------------------------------------------------------------------------
(* A fold from the left                                                      *)

\* What MapThenFoldSet says of the subsets of 1..n, the largest element being the
\* one that is folded last.
FoldsOn(g, base, step, n) ==
    \A s \in SUBSET (1..n) : g[s] = IF s = {} THEN base ELSE step[Max(s)][g[s \ {Max(s)}]]

\* The greatest of a set of indices.
LEMMA MaxIs ==
    ASSUME NEW k \in Nat, NEW s \in SUBSET (1..k), k \in s
    PROVE  Max(s) = k
<1>1. \A y \in s : k >= y
  OBVIOUS
<1>2. k \in s /\ \A x \in s : (\A y \in s : x >= y) => x = k
  <2>1. ASSUME NEW x \in s, \A y \in s : x >= y PROVE x = k
    <3>1. x >= k /\ k >= x
      BY <1>1, <2>1
    <3> QED
      BY <3>1
  <2> QED
    BY <2>1
<1> QED
  BY <1>1, <1>2 DEF Max

\* A set of indices that is not empty has a greatest one.
LEMMA MaxOfSome ==
    ASSUME NEW n \in Nat, NEW s \in SUBSET (1..n), s # {}
    PROVE  Max(s) \in s
<1>1. IsFiniteSet(1..n)
  BY FS_Interval
<1>2. IsFiniteSet(s)
  BY <1>1, FS_Subset
<1>3. s \in SUBSET Nat
  OBVIOUS
<1> QED
  BY <1>2, <1>3, MaxExists

\* The fold exists, and stays in the set its steps stay in.
LEMMA FoldExists ==
    ASSUME NEW n \in Nat, NEW Q, NEW base \in Q, NEW step \in [1..n -> [Q -> Q]]
    PROVE  \E g \in [SUBSET (1..n) -> Q] : FoldsOn(g, base, step, n)
<1> DEFINE Exist(k) == \E g \in [SUBSET (1..k) -> Q] : FoldsOn(g, base, step, k)
           T == {k \in Nat : k <= n => Exist(k)}
<1> HIDE DEF Exist
<1>1. 0 \in T
  <2> DEFINE g == [s \in SUBSET (1..0) |-> base]
  <2>1. \A s \in SUBSET (1..0) : s = {}
    OBVIOUS
  <2>2. g \in [SUBSET (1..0) -> Q] /\ \A s \in SUBSET (1..0) : g[s] = base
    OBVIOUS
  <2> HIDE DEF g
  <2>3. FoldsOn(g, base, step, 0)
    BY <2>1, <2>2 DEF FoldsOn
  <2>4. Exist(0)
    BY <2>2, <2>3 DEF Exist
  <2> QED
    BY <2>4
<1>2. ASSUME NEW k \in T PROVE k + 1 \in T
  <2> SUFFICES ASSUME k + 1 <= n PROVE Exist(k + 1)
    OBVIOUS
  <2>1. k \in Nat /\ k + 1 \in 1..n /\ Exist(k)
    OBVIOUS
  <2>2. PICK f \in [SUBSET (1..k) -> Q] : FoldsOn(f, base, step, k)
    BY <2>1 DEF Exist
  <2>3. step[k + 1] \in [Q -> Q]
    BY <2>1
  <2> DEFINE g == [s \in SUBSET (1..(k + 1)) |->
                      IF k + 1 \in s THEN step[k + 1][f[s \ {k + 1}]] ELSE f[s]]
  <2>4. \A s \in SUBSET (1..(k + 1)) : s \ {k + 1} \in SUBSET (1..k)
    BY <2>1
  <2>5. \A s \in SUBSET (1..(k + 1)) : k + 1 \notin s => s \in SUBSET (1..k)
    BY <2>1
  <2>6. g \in [SUBSET (1..(k + 1)) -> Q]
    <3>1. ASSUME NEW s \in SUBSET (1..(k + 1))
          PROVE  (IF k + 1 \in s THEN step[k + 1][f[s \ {k + 1}]] ELSE f[s]) \in Q
      <4>1. CASE k + 1 \in s
        <5>1. f[s \ {k + 1}] \in Q
          BY <2>4
        <5> QED
          BY <2>3, <4>1, <5>1
      <4>2. CASE k + 1 \notin s
        BY <2>5, <4>2
      <4> QED
        BY <4>1, <4>2
    <3> QED
      BY <3>1
  <2>7. ASSUME NEW s \in SUBSET (1..(k + 1))
        PROVE  g[s] = IF s = {} THEN base ELSE step[Max(s)][g[s \ {Max(s)}]]
    <3>1. CASE k + 1 \in s
      <4>1. Max(s) = k + 1
        <5>1. k + 1 \in Nat
          OBVIOUS
        <5> QED
          BY <3>1, <5>1, MaxIs
      <4>2. g[s \ {k + 1}] = f[s \ {k + 1}]
        <5>1. s \ {k + 1} \in SUBSET (1..(k + 1)) /\ k + 1 \notin s \ {k + 1}
          OBVIOUS
        <5> QED
          BY <5>1
      <4> QED
        BY <3>1, <4>1, <4>2
    <3>2. CASE k + 1 \notin s
      <4>1. s \in SUBSET (1..k) /\ g[s] = f[s]
        BY <2>5, <3>2
      <4>2. s # {} => g[s \ {Max(s)}] = f[s \ {Max(s)}]
        <5>1. s \ {Max(s)} \in SUBSET (1..(k + 1)) /\ k + 1 \notin s \ {Max(s)}
          BY <3>2
        <5> QED
          BY <5>1
      <4>3. f[s] = IF s = {} THEN base ELSE step[Max(s)][f[s \ {Max(s)}]]
        BY <2>2, <4>1 DEF FoldsOn
      <4> HIDE DEF g
      <4> QED
        BY <4>1, <4>2, <4>3
    <3> QED
      BY <3>1, <3>2
  <2> HIDE DEF g
  <2>8. FoldsOn(g, base, step, k + 1)
    BY <2>7 DEF FoldsOn
  <2> QED
    BY <2>6, <2>8 DEF Exist
<1>3. T \in SUBSET Nat
  OBVIOUS
<1> HIDE DEF T
<1>4. T = Nat
  BY <1>1, <1>2, <1>3, SetInduction
<1>5. Exist(n)
  <2>1. n \in T
    BY <1>4
  <2> QED
    BY <2>1 DEF T
<1> QED
  BY <1>5 DEF Exist

-----------------------------------------------------------------------------
(* The bytes of the ranges of an expert                                      *)

\* Those of the first ranges.
BytesUpTo(ranges) ==
    LET upTo[k \in 0..Len(ranges)] == IF k = 0 THEN 0 ELSE upTo[k - 1] + ranges[k].length
    IN  upTo

HasLengths(ranges) ==
    /\ Len(ranges) \in Nat /\ DOMAIN ranges = 1..Len(ranges)
    /\ \A i \in 1..Len(ranges) : ranges[i].length \in Nat

\* Folded, they are those of the ranges up to the last.
LEMMA BytesGrow ==
    ASSUME NEW ranges, HasLengths(ranges)
    PROVE  /\ BytesUpTo(ranges)[0] = 0
           /\ \A k \in 1..Len(ranges) :
                 BytesUpTo(ranges)[k] = BytesUpTo(ranges)[k - 1] + ranges[k].length
           /\ \A k \in 0..Len(ranges) : BytesUpTo(ranges)[k] \in Nat
           /\ BytesOf(ranges) = BytesUpTo(ranges)[Len(ranges)]
<1>1. PICK n \in Nat : n = Len(ranges)
  BY DEF HasLengths
<1> DEFINE step == [k \in 1..n |-> [sum \in Nat |-> sum + ranges[k].length]]
<1>2. step \in [1..n -> [Nat -> Nat]]
  <2>1. \A k \in 1..n : ranges[k].length \in Nat
    BY <1>1 DEF HasLengths
  <2> QED
    BY <2>1
<1>3. \A k \in 1..n, sum \in Nat : step[k][sum] = sum + ranges[k].length
  OBVIOUS
<1> HIDE DEF step
<1> DEFINE Follows(f) ==
               f = [k \in 0..Len(ranges) |-> IF k = 0 THEN 0 ELSE f[k - 1] + ranges[k].length]
<1>4. \E f : Follows(f)
  <2>1. PICK f \in [0..n -> Nat] : FollowsUpTo(f, 0, step, n)
    BY <1>2, RecursionExists
  <2>2. \A k \in 0..n : f[k] = IF k = 0 THEN 0 ELSE f[k - 1] + ranges[k].length
    <3>1. ASSUME NEW k \in 1..n PROVE f[k] = f[k - 1] + ranges[k].length
      <4>1. f[k - 1] \in Nat /\ f[k] = step[k][f[k - 1]]
        BY <2>1 DEF FollowsUpTo
      <4> QED
        BY <1>3, <4>1
    <3>2. \A k \in 0..n : k = 0 \/ k \in 1..n
      OBVIOUS
    <3>3. f[0] = 0
      BY <2>1 DEF FollowsUpTo
    <3> QED
      BY <3>1, <3>2, <3>3
  <2>3. f = [k \in 0..n |-> f[k]]
    OBVIOUS
  <2>4. f = [k \in 0..n |-> IF k = 0 THEN 0 ELSE f[k - 1] + ranges[k].length]
    BY <2>2, <2>3
  <2>5. Follows(f)
    BY <1>1, <2>4
  <2> HIDE DEF Follows
  <2> QED
    BY <2>5
<1>5. Follows(BytesUpTo(ranges))
  <2> DEFINE upTo[k \in 0..Len(ranges)] == IF k = 0 THEN 0 ELSE upTo[k - 1] + ranges[k].length
  <2>1. BytesUpTo(ranges) = upTo
    BY DEF BytesUpTo
  <2>2. Follows(upTo)
    BY <1>4
  <2> QED
    BY <2>1, <2>2
<1>6. PICK f : f = BytesUpTo(ranges)
  OBVIOUS
<1>7. f[0] = 0 /\ \A k \in 1..n : f[k] = f[k - 1] + ranges[k].length
  <2>1. f = [k \in 0..n |-> IF k = 0 THEN 0 ELSE f[k - 1] + ranges[k].length]
    BY <1>1, <1>5, <1>6
  <2> QED
    BY <2>1
<1>8. \A k \in 0..n : f[k] \in Nat
  <2>1. \A k \in 1..n : f[k - 1] \in Nat => f[k] \in Nat
    BY <1>1, <1>7 DEF HasLengths
  <2>2. f[0] \in Nat
    BY <1>7
  <2> QED
    BY <2>1, <2>2, StaysIn
<1> DEFINE Folds(g) ==
               g = [s \in SUBSET (DOMAIN ranges) |->
                       IF s = {} THEN 0
                       ELSE LET x == Max(s) IN g[s \ {x}] + ranges[x].length]
<1>9. PICK g : Folds(g) /\ BytesOf(ranges) = g[1..n]
  <2> DEFINE iter[s \in SUBSET (DOMAIN ranges)] ==
                 IF s = {} THEN 0
                 ELSE LET x == Max(s) IN iter[s \ {x}] + ranges[x].length
  <2>1. BytesOf(ranges) = iter[DOMAIN ranges]
    BY DEF BytesOf, FoldLeft, MapThenFoldSet
  <2>2. DOMAIN ranges = 1..n
    BY <1>1 DEF HasLengths
  <2>3. \E g : Folds(g)
    <3>1. PICK g \in [SUBSET (1..n) -> Nat] : FoldsOn(g, 0, step, n)
      BY <1>2, FoldExists
    <3>2. ASSUME NEW s \in SUBSET (1..n)
          PROVE  g[s] = IF s = {} THEN 0
                        ELSE LET x == Max(s) IN g[s \ {x}] + ranges[x].length
      <4>1. CASE s = {}
        BY <3>1, <4>1 DEF FoldsOn
      <4>2. CASE s # {}
        <5>1. Max(s) \in s
          BY <4>2, MaxOfSome
        <5>2. Max(s) \in 1..n /\ s \ {Max(s)} \in SUBSET (1..n)
          BY <5>1
        <5>3. g[s \ {Max(s)}] \in Nat
          BY <5>2
        <5>4. g[s] = step[Max(s)][g[s \ {Max(s)}]]
          BY <3>1, <4>2 DEF FoldsOn
        <5>5. g[s] = g[s \ {Max(s)}] + ranges[Max(s)].length
          BY <1>3, <5>2, <5>3, <5>4
        <5> QED
          BY <4>2, <5>5
      <4> QED
        BY <4>1, <4>2
    <3>3. g = [s \in SUBSET (1..n) |-> g[s]]
      OBVIOUS
    <3>4. Folds(g)
      BY <2>2, <3>2, <3>3
    <3> HIDE DEF Folds
    <3> QED
      BY <3>4
  <2>4. Folds(iter)
    BY <2>3
  <2> HIDE DEF iter, Folds
  <2> QED
    BY <2>1, <2>2, <2>4
<1>10. \A k \in 0..n : g[1..k] = f[k]
  <2>1. DOMAIN ranges = 1..n
    BY <1>1 DEF HasLengths
  <2>2. g[{}] = 0
    BY <1>9, <2>1
  <2>3. ASSUME NEW k \in 1..n PROVE g[1..k] = g[1..(k - 1)] + ranges[k].length
    <3>1. 1..k \in SUBSET (1..n) /\ 1..k # {} /\ (1..k) \ {k} = 1..(k - 1)
      OBVIOUS
    <3>2. Max(1..k) = k
      <4>1. k \in Nat /\ k \in 1..k /\ 1..k \in SUBSET (1..k)
        OBVIOUS
      <4> QED
        BY <4>1, MaxIs
    <3> QED
      BY <1>9, <2>1, <3>1, <3>2
  <2> DEFINE Agree == {k \in Nat : k <= n => g[1..k] = f[k]}
  <2>4. 0 \in Agree
    <3>1. 1..0 = {}
      OBVIOUS
    <3> QED
      BY <1>7, <2>2, <3>1
  <2>5. ASSUME NEW k \in Agree PROVE k + 1 \in Agree
    <3> SUFFICES ASSUME k + 1 <= n PROVE g[1..(k + 1)] = f[k + 1]
      OBVIOUS
    <3>1. PICK j \in 1..n : j = k + 1 /\ j - 1 = k
      OBVIOUS
    <3>2. g[1..k] = f[k]
      OBVIOUS
    <3>3. g[1..j] = g[1..k] + ranges[j].length /\ f[j] = f[k] + ranges[j].length
      BY <1>7, <2>3, <3>1
    <3> QED
      BY <3>1, <3>2, <3>3
  <2>6. Agree \in SUBSET Nat
    OBVIOUS
  <2> HIDE DEF Agree
  <2>7. Agree = Nat
    BY <2>4, <2>5, <2>6, SetInduction
  <2> QED
    BY <2>7 DEF Agree
<1>11. BytesOf(ranges) = f[n]
  <2>1. n \in 0..n
    OBVIOUS
  <2>2. g[1..n] = f[n]
    BY <1>10, <2>1
  <2> QED
    BY <1>9, <2>2
<1> QED
  BY <1>1, <1>6, <1>7, <1>8, <1>11

-----------------------------------------------------------------------------
(* What a complete range is turned into                                      *)

\* What a load makes of all the cells of a range is what these tensors were.
ReadOf(e, range) ==
    IF IsScaleX THEN Decoded(e, plan[e].record, Content(range)) ELSE SlicesOf(range, Content(range))
PlanIsTrue ==
    \A e \in Ids :
        /\ HasLengths(plan[e].ranges)
        /\ \A k \in 1..Len(plan[e].ranges) : \A t \in DOMAIN ReadOf(e, plan[e].ranges[k]) :
              ReadOf(e, plan[e].ranges[k])[t] = Original(t)

\* So it is of a native shard.
LEMMA NativeIsTrue ==
    ASSUME sample \in Samples, file = NativeFile,
           plan = [e \in Ids |-> NativeSource(e)]
    PROVE  PlanIsTrue
<1>1. 0 \in Ids
  BY ReaderAssumption DEF Ids
<1>2. ~IsScaleX
  BY <1>1 DEF IsScaleX, NativeSource
<1>3. ASSUME NEW e \in Ids PROVE HasLengths(plan[e].ranges)
  <2>1. plan[e].ranges = NativeSource(e).ranges
    BY <1>3
  <2>2. PICK f : NativeAt(f, e)
    BY NativePlaced
  <2>3. RangesOf(TensorsAt(f, e), plan[e].ranges)
    BY <2>1, <2>2, NativeRanges
  <2> QED
    BY <2>3 DEF RangesOf, IsRange, HasLengths
<1>4. ASSUME NEW e \in Ids, NEW k \in 1..Len(plan[e].ranges),
             NEW t \in DOMAIN ReadOf(e, plan[e].ranges[k])
      PROVE  ReadOf(e, plan[e].ranges[k])[t] = Original(t)
  <2>1. plan[e].ranges = NativeSource(e).ranges
    OBVIOUS
  <2>2. PICK r : r = plan[e].ranges[k]
    OBVIOUS
  <2>3. ReadOf(e, r) = SlicesOf(r, Content(r))
    BY <1>2 DEF ReadOf
  <2>4. SlicesAreTrue(r)
    BY <2>1, <2>2, NativeSlices
  <2> QED
    BY <2>2, <2>3, <2>4 DEF SlicesAreTrue
<1> QED
  BY <1>3, <1>4 DEF PlanIsTrue

\* And so it is of a converted one, whatever codec each record has.
LEMMA ConvertedIsTrue ==
    ASSUME sample \in Samples,
           NEW records, records = [e \in Ids |-> Encode(sample.scales[e])],
           NEW cells, cells = [e \in Ids |-> ScaleXCells(e, records[e])],
           file = FlattenSeq([i \in 1..Experts |-> cells[i - 1]]),
           plan = [e \in Ids |-> ScaleXSource(e, cells, records[e])]
    PROVE  PlanIsTrue
<1>1. 0 \in Ids
  BY ReaderAssumption DEF Ids
<1>2. ASSUME NEW e \in Ids
      PROVE  plan[e].record = records[e] /\ records[e] = Encode(sample.scales[e])
  <2>1. plan[e] = ScaleXSource(e, cells, records[e])
    OBVIOUS
  <2> QED
    BY <2>1 DEF ScaleXSource
<1>3. IsScaleX
  BY <1>1, <1>2, EncodeIsSome DEF IsScaleX
<1>4. ASSUME NEW e \in Ids PROVE cells[e] = ScaleXCells(e, records[e]) /\ cells[e] \in Seq(AllCells)
  <2>1. sample.scales[e] \in Seq(Byte)
    BY SamplesAssumption
  <2>2. RecordOf(sample.scales[e], records[e])
    BY <1>2, <2>1, EncodeSound
  <2>3. cells[e] = ScaleXCells(e, records[e])
    OBVIOUS
  <2> QED
    BY <2>2, <2>3, CellsPlaced
<1>5. ASSUME NEW e \in Ids
      PROVE  \E r : plan[e].ranges = <<r>> /\ RangeHolds(r, cells[e])
  <2>1. HoldsAlone(ScaleXSource(e, cells, records[e]).ranges, cells[e])
    <3>1. \A x \in Ids : cells[x] \in Seq(AllCells)
      BY <1>4
    <3>2. file = FlattenSeq([i \in 1..Experts |-> cells[i - 1]]) /\ e \in Ids
      OBVIOUS
    <3> QED
      BY ONLY <3>1, <3>2, ScaleXPlaced
  <2>2. plan[e] = ScaleXSource(e, cells, records[e])
    OBVIOUS
  <2> QED
    BY <2>1, <2>2 DEF HoldsAlone
<1>6. ASSUME NEW e \in Ids
      PROVE  /\ HasLengths(plan[e].ranges)
             /\ \A k \in 1..Len(plan[e].ranges) : \A t \in DOMAIN ReadOf(e, plan[e].ranges[k]) :
                   ReadOf(e, plan[e].ranges[k])[t] = Original(t)
  <2>1. PICK r : plan[e].ranges = <<r>> /\ RangeHolds(r, cells[e])
    BY <1>5
  <2>2. Len(<<r>>) = 1 /\ DOMAIN <<r>> = 1..1 /\ <<r>>[1] = r
    OBVIOUS
  <2>3. Len(cells[e]) \in Nat
    BY <1>4, LenProperties
  <2>4. HasLengths(plan[e].ranges)
    <3>1. \A i \in 1..1 : <<r>>[i].length \in Nat
      BY <2>1, <2>2, <2>3 DEF RangeHolds
    <3> QED
      BY <2>1, <2>2, <3>1 DEF HasLengths
  <2>5. ReadOf(e, r) = Decoded(e, records[e], cells[e])
    BY <1>2, <1>3, <2>1 DEF ReadOf, RangeHolds, Content
  <2>6. ASSUME NEW t \in TensorsOf(e) PROVE ReadOf(e, r)[t] = Original(t)
    <3>1. Decoded(e, records[e], cells[e])[t] = Original(t)
      BY <1>2, <1>4, ScaleXDecoded
    <3> QED
      BY <2>5, <3>1
  <2>7. DOMAIN ReadOf(e, r) = TensorsOf(e)
    BY <2>5 DEF Decoded
  <2>8. \A k \in 1..Len(plan[e].ranges) : plan[e].ranges[k] = r
    BY <2>1, <2>2
  <2> QED
    BY <2>4, <2>6, <2>7, <2>8
<1> QED
  BY <1>6 DEF PlanIsTrue

\* Every shard a reader is opened on has a plan that is true.
LEMMA ShardIsTrue == ASSUME sample \in Samples, Shard PROVE PlanIsTrue
BY NativeIsTrue, ConvertedIsTrue DEF Shard, NativeFile

-----------------------------------------------------------------------------
(* What is read is what was there before any conversion                      *)

\* What has been read of a range is its beginning; what has been made of the ranges
\* before it is right, and their bytes are counted.
LoadIsTrue ==
    Loading =>
        /\ load.range <= Len(Source.ranges) + 1
        /\ load.tensors = [t \in DOMAIN load.tensors |-> Original(t)]
        /\ load.begun =>
              /\ load.got = SubSeq(file, Wanted.offset + 1, Wanted.offset + Len(load.got))
              /\ Len(load.got) <= Wanted.length
        /\ load.before \in Nat
        /\ reads.bytes = load.before + BytesUpTo(Source.ranges)[load.range - 1]
                             + (IF load.begun THEN Len(load.got) ELSE 0)

TruthInv == PlanIsTrue /\ LoadIsTrue /\ CacheHoldsTheOriginals

\* A part of a file that is empty, and two parts of which one follows the other.
LEMMA NoPart == ASSUME NEW s, NEW o \in Nat PROVE SubSeq(s, o + 1, o) = <<>>
<1>1. \A k \in (o + 1)..o : s[k] \in {}
  OBVIOUS
<1>2. o + 1 \in Int /\ o \in Int
  OBVIOUS
<1>3. SubSeq(s, o + 1, o) \in Seq({}) /\ Len(SubSeq(s, o + 1, o)) = IF o + 1 <= o THEN o - (o + 1) + 1 ELSE 0
  BY <1>1, <1>2, SubSeqProperties
<1>4. Len(SubSeq(s, o + 1, o)) = 0
  BY <1>3
<1> QED
  BY <1>3, <1>4, EmptySeq

\* A part of a file and the part that follows it are one part.
LEMMA PartsJoin ==
    ASSUME NEW s, NEW o \in Nat, NEW a \in Nat, NEW n \in Nat
    PROVE  /\ SubSeq(s, o + 1, o + a) \o SubSeq(s, o + a + 1, o + a + n)
                = SubSeq(s, o + 1, o + a + n)
           /\ Len(SubSeq(s, o + 1, o + a + n)) = a + n
<1> DEFINE B == {s[i] : i \in (o + 1)..(o + a + n)}
<1>1. PICK x : x = SubSeq(s, o + 1, o + a)
  OBVIOUS
<1>2. PICK y : y = SubSeq(s, o + a + 1, o + a + n)
  OBVIOUS
<1>3. PICK z : z = SubSeq(s, o + 1, o + a + n)
  OBVIOUS
<1>4. /\ \A k \in (o + 1)..(o + a) : s[k] \in B
      /\ \A k \in (o + a + 1)..(o + a + n) : s[k] \in B
      /\ \A k \in (o + 1)..(o + a + n) : s[k] \in B
  OBVIOUS
<1>5. o + 1 \in Int /\ o + a \in Int /\ o + a + 1 \in Int /\ o + a + n \in Int
  OBVIOUS
<1> HIDE DEF B
<1>6. x \in Seq(B) /\ Len(x) = a /\ \A k \in 1..a : x[k] = s[o + k]
  <2>1. /\ x \in Seq(B)
        /\ Len(x) = IF o + 1 <= o + a THEN o + a - (o + 1) + 1 ELSE 0
        /\ \A k \in 1..(o + a - (o + 1) + 1) : x[k] = s[o + 1 + k - 1]
    BY <1>1, <1>4, <1>5, SubSeqProperties
  <2>2. o + a - (o + 1) + 1 = a /\ (o + 1 <= o + a <=> a # 0)
    OBVIOUS
  <2>3. \A k \in 1..a : o + 1 + k - 1 = o + k
    OBVIOUS
  <2> QED
    BY <2>1, <2>2, <2>3
<1>7. y \in Seq(B) /\ Len(y) = n /\ \A k \in 1..n : y[k] = s[o + a + k]
  <2>1. /\ y \in Seq(B)
        /\ Len(y) = IF o + a + 1 <= o + a + n THEN o + a + n - (o + a + 1) + 1 ELSE 0
        /\ \A k \in 1..(o + a + n - (o + a + 1) + 1) : y[k] = s[o + a + 1 + k - 1]
    BY <1>2, <1>4, <1>5, SubSeqProperties
  <2>2. o + a + n - (o + a + 1) + 1 = n /\ (o + a + 1 <= o + a + n <=> n # 0)
    OBVIOUS
  <2>3. \A k \in 1..n : o + a + 1 + k - 1 = o + a + k
    OBVIOUS
  <2> QED
    BY <2>1, <2>2, <2>3
<1>8. z \in Seq(B) /\ Len(z) = a + n /\ \A k \in 1..(a + n) : z[k] = s[o + k]
  <2>1. /\ z \in Seq(B)
        /\ Len(z) = IF o + 1 <= o + a + n THEN o + a + n - (o + 1) + 1 ELSE 0
        /\ \A k \in 1..(o + a + n - (o + 1) + 1) : z[k] = s[o + 1 + k - 1]
    BY <1>3, <1>4, <1>5, SubSeqProperties
  <2>2. o + a + n - (o + 1) + 1 = a + n /\ (o + 1 <= o + a + n <=> a + n # 0)
    OBVIOUS
  <2>3. \A k \in 1..(a + n) : o + 1 + k - 1 = o + k
    OBVIOUS
  <2> QED
    BY <2>1, <2>2, <2>3
<1>9. /\ x \o y \in Seq(B) /\ Len(x \o y) = a + n
      /\ \A k \in 1..(a + n) : (x \o y)[k] = IF k <= a THEN x[k] ELSE y[k - a]
  <2>1. /\ x \o y \in Seq(B) /\ Len(x \o y) = Len(x) + Len(y)
        /\ \A k \in 1..(Len(x) + Len(y)) :
              (x \o y)[k] = IF k <= Len(x) THEN x[k] ELSE y[k - Len(x)]
    BY <1>6, <1>7, ConcatProperties
  <2> QED
    BY <1>6, <1>7, <2>1
<1>10. ASSUME NEW k \in 1..(a + n) PROVE (x \o y)[k] = z[k]
  <2>1. CASE k <= a
    <3>1. k \in 1..a
      BY <2>1
    <3> QED
      BY <1>6, <1>8, <1>9, <2>1, <3>1
  <2>2. CASE ~(k <= a)
    <3>1. PICK j \in 1..n : j = k - a /\ o + a + j = o + k
      BY <2>2
    <3> QED
      BY <1>7, <1>8, <1>9, <2>2, <3>1
  <2> QED
    BY <2>1, <2>2
<1>11. x \o y = z
  BY <1>8, <1>9, <1>10, SeqEqual
<1> QED
  BY <1>1, <1>2, <1>3, <1>8, <1>11

\* Nothing writes the shard or the plan.
LEMMA SameShard ==
    ASSUME UNCHANGED shard
    PROVE  /\ \A t : Original(t)' = Original(t)
           /\ \A e, range : ReadOf(e, range)' = ReadOf(e, range)
           /\ PlanIsTrue => PlanIsTrue'
<1>1. sample' = sample /\ file' = file /\ plan' = plan
  BY DEF shard
<1>2. \A t : Original(t)' = Original(t)
  BY <1>1 DEF Original
<1>3. \A e, range : ReadOf(e, range)' = ReadOf(e, range)
  BY <1>1 DEF ReadOf, Content, IsScaleX
<1>4. PlanIsTrue => PlanIsTrue'
  BY <1>1, <1>2, <1>3 DEF PlanIsTrue
<1> QED
  BY <1>2, <1>3, <1>4

\* A cache that only has what it had.
LEMMA OnlyOld ==
    ASSUME CacheHoldsTheOriginals, UNCHANGED shard,
           \A i \in DOMAIN cache' : \E j \in DOMAIN cache : cache'[i] = cache[j]
    PROVE  CacheHoldsTheOriginals'
<1>1. plan' = plan /\ \A t : Original(t)' = Original(t)
  BY SameShard DEF shard
<1> DEFINE Right(x) ==
               /\ x.tensors = [t \in TensorsOf(x.expert) |-> Original(t)]
               /\ x.bytes = BytesOf(plan[x.expert].ranges)
           RightNext(x) ==
               /\ x.tensors = [t \in TensorsOf(x.expert) |-> Original(t)']
               /\ x.bytes = BytesOf(plan'[x.expert].ranges)
<1>2. \A x : Right(x) => RightNext(x)
  BY <1>1
<1>3. \A j \in DOMAIN cache : Right(cache[j])
  BY DEF CacheHoldsTheOriginals
<1>4. \A i \in DOMAIN cache' : RightNext(cache'[i])
  <2> HIDE DEF Right, RightNext
  <2> QED
    BY <1>2, <1>3
<1> QED
  BY <1>4 DEF CacheHoldsTheOriginals

\* An empty cache and no load make nothing false.
LEMMA TruthInit == Init => TruthInv
<1> SUFFICES ASSUME Init PROVE TruthInv
  OBVIOUS
<1>1. PlanIsTrue
  BY ShardIsTrue DEF Init
<1>2. ~Loading
  BY DEF Init, Loading, NotLoading, Ids
<1>3. DOMAIN cache = {}
  BY DEF Init
<1> QED
  BY <1>1, <1>2, <1>3 DEF TruthInv, LoadIsTrue, CacheHoldsTheOriginals

\* A load that raises leaves the cache as it is.
LEMMA RaiseTruth == ASSUME TruthInv, Raise PROVE TruthInv'
<1>1. UNCHANGED shard /\ UNCHANGED cache /\ load' = NotLoading
  BY DEF Raise, lru
<1>2. ~Loading'
  BY <1>1 DEF Loading, NotLoading, Ids
<1>3. PlanIsTrue'
  BY <1>1, SameShard DEF TruthInv
<1>4. CacheHoldsTheOriginals'
  BY <1>1, OnlyOld DEF TruthInv
<1> QED
  BY <1>2, <1>3, <1>4 DEF TruthInv, LoadIsTrue

\* Steps that concern neither the load nor what it reads, and put nothing new in the cache.
LEMMA OtherTruth ==
    ASSUME TruthInv, UNCHANGED <<shard, load, reads>>,
           \A i \in DOMAIN cache' : \E j \in DOMAIN cache : cache'[i] = cache[j]
    PROVE  TruthInv'
<1>1. PlanIsTrue' /\ CacheHoldsTheOriginals'
  BY SameShard, OnlyOld DEF TruthInv
<1>2. LoadIsTrue'
  <2>1. plan' = plan /\ file' = file /\ load' = load /\ reads' = reads
          /\ \A t : Original(t)' = Original(t)
    BY SameShard DEF shard
  <2> QED
    BY <2>1 DEF TruthInv, LoadIsTrue, Loading, Source, Wanted
<1> QED
  BY <1>1, <1>2 DEF TruthInv

\* A hit moves what is cached.
LEMMA HitTruth == ASSUME IInv, TruthInv, Hit PROVE TruthInv'
<1>1. PICK i \in DOMAIN cache : cache' = Append(RemoveAt(cache, i), cache[i])
  BY DEF Hit
<1>2. PICK S : cache \in Seq(S)
  BY DEF IInv, LruInv, CacheTyped
<1>3. PICK c \in Seq(S) : c = cache
  BY <1>2
<1>4. DOMAIN c = 1..Len(c) /\ Len(c) \in Nat /\ i \in 1..Len(c)
  BY <1>3, LenProperties
<1>5. PICK e \in S : e = c[i]
  BY <1>4, ElementOfSeq
<1>6. /\ cache' \in Seq(S) /\ Len(cache') = Len(c)
      /\ \A k \in 1..Len(c) :
            cache'[k] = IF k < i THEN c[k] ELSE IF k < Len(c) THEN c[k + 1] ELSE e
  <2>1. c \in Seq(S) /\ i \in 1..Len(c) /\ e \in S
    BY <1>4
  <2>2. /\ Append(RemoveAt(c, i), e) \in Seq(S)
        /\ Len(Append(RemoveAt(c, i), e)) = Len(c)
        /\ \A k \in 1..Len(c) :
              Append(RemoveAt(c, i), e)[k] =
                  IF k < i THEN c[k] ELSE IF k < Len(c) THEN c[k + 1] ELSE e
    BY ONLY <2>1, MoveToEnd
  <2>3. cache' = Append(RemoveAt(c, i), e)
    BY <1>1, <1>3, <1>5
  <2> QED
    BY ONLY <2>2, <2>3
<1>7. DOMAIN cache' = 1..Len(c)
  BY <1>6, LenProperties
<1>8. ASSUME NEW k \in DOMAIN cache' PROVE \E j \in DOMAIN cache : cache'[k] = cache[j]
  <2> DEFINE j == IF k < i THEN k ELSE IF k < Len(c) THEN k + 1 ELSE i
  <2>1. j \in 1..Len(c)
    BY <1>4, <1>7
  <2>2. cache'[k] = c[j]
    BY <1>5, <1>6, <1>7
  <2> HIDE DEF j
  <2> QED
    BY <1>3, <1>4, <2>1, <2>2
<1> QED
  BY <1>8, OtherTruth DEF Hit

\* A miss begins a load: of no bytes, counted from those that were read before.
LEMMA MissTruth == ASSUME IInv, TruthInv, Miss PROVE TruthInv'
<1>1. PICK S : cache \in Seq(S)
  BY DEF IInv, LruInv, CacheTyped
<1>2. ASSUME NEW i \in DOMAIN cache' PROVE \E j \in DOMAIN cache : cache'[i] = cache[j]
  <2>1. CASE UNCHANGED cache
    BY <2>1
  <2>2. CASE cache' = Tail(cache) /\ Len(cache) = Capacity
    <3>1. Len(cache) \in Nat \ {0} /\ DOMAIN cache = 1..Len(cache)
      BY <1>1, <2>2, CapacityTyped, LenProperties
    <3>2. cache # <<>>
      BY <1>1, <3>1, EmptySeq
    <3>3. /\ Tail(cache) \in Seq(S) /\ Len(Tail(cache)) = Len(cache) - 1
          /\ \A k \in 1..Len(Tail(cache)) : Tail(cache)[k] = cache[k + 1]
      BY <1>1, <3>2, HeadTailProperties
    <3>4. i \in 1..(Len(cache) - 1)
      BY <2>2, <3>3, LenProperties
    <3>5. i + 1 \in DOMAIN cache /\ cache'[i] = cache[i + 1]
      BY <2>2, <3>1, <3>3, <3>4
    <3> QED
      BY <3>5
  <2> QED
    BY <2>1, <2>2 DEF Miss
<1>3. UNCHANGED shard
  BY DEF Miss
<1>4. PlanIsTrue' /\ CacheHoldsTheOriginals'
  BY <1>2, <1>3, SameShard, OnlyOld DEF TruthInv
<1>5. load' = [NotLoading EXCEPT !.expert = Head(todo), !.before = reads.bytes] /\ UNCHANGED reads
  BY DEF Miss
<1>6. /\ load'.expert = Head(todo) /\ load'.before = reads.bytes
      /\ load'.range = 1 /\ load'.begun = FALSE /\ load'.tensors = NoTensors
  BY <1>5 DEF NotLoading
<1>7. ASSUME Loading' PROVE LoadIsTrue'
  <2>1. PICK ranges : ranges = plan[load'.expert].ranges
    OBVIOUS
  <2>2. Source'.ranges = ranges
    BY <1>3, <2>1 DEF Source, shard
  <2>3. HasLengths(ranges)
    BY <1>7, <2>1 DEF Loading, TruthInv, PlanIsTrue
  <2>4. BytesUpTo(ranges)[0] = 0 /\ Len(ranges) \in Nat
    BY <2>3, BytesGrow DEF HasLengths
  <2>5. load'.tensors = [t \in DOMAIN load'.tensors |-> Original(t)']
    <3>1. DOMAIN NoTensors = {} /\ NoTensors = [t \in {} |-> <<>>]
      BY DEF NoTensors
    <3> QED
      BY <1>6, <3>1
  <2>6. reads.bytes \in Nat
    BY DEF IInv, CountInv, CountersTyped
  <2>7. load'.range <= Len(ranges) + 1
    BY <1>6, <2>4
  <2>8. reads'.bytes = load'.before + BytesUpTo(ranges)[load'.range - 1]
                             + (IF load'.begun THEN Len(load'.got) ELSE 0)
    BY <1>5, <1>6, <2>4, <2>6
  <2> QED
    BY <1>5, <1>6, <2>2, <2>5, <2>6, <2>7, <2>8 DEF LoadIsTrue
<1> QED
  BY <1>4, <1>7 DEF TruthInv, LoadIsTrue

\* A range begins with none of its cells.
LEMMA BeginTruth == ASSUME IInv, TruthInv, BeginRange PROVE TruthInv'
<1>1. Loading /\ ~load.begun /\ load.range <= Len(Source.ranges)
  BY DEF BeginRange
<1>2. CASE Raise
  BY <1>2, RaiseTruth
<1>3. CASE /\ load' = [load EXCEPT !.begun = TRUE, !.got = <<>>]
           /\ reads' = [reads EXCEPT !.logical = @ + 1]
           /\ UNCHANGED <<shard, lru, asked, todo, closed, calls, failed, short>>
  <2>1. PICK A, T : load \in [expert : Ids \union {-1}, range : Nat \ {0}, got : Seq(A),
                              begun : BOOLEAN, tensors : T, before : T]
    BY DEF IInv, LruInv, LoadTyped
  <2>2. /\ load'.expert = load.expert /\ load'.range = load.range /\ load'.before = load.before
        /\ load'.begun = TRUE /\ load'.got = <<>> /\ load'.tensors = load.tensors
    BY <1>3, <2>1
  <2>3. reads'.bytes = reads.bytes /\ reads.bytes \in Nat
    BY <1>3 DEF IInv, CountInv, CountersTyped
  <2>4. UNCHANGED shard /\ UNCHANGED cache
    BY <1>3 DEF lru
  <2>5. PlanIsTrue' /\ CacheHoldsTheOriginals'
    BY <2>4, SameShard, OnlyOld DEF TruthInv
  <2>6. PICK r : r = Wanted /\ r = Wanted'
    BY <2>2, <2>4 DEF Wanted, Source, shard
  <2>7. r.offset \in Nat /\ r.length \in Nat
    <3>1. Sound(Source.ranges)
      BY <1>1 DEF IInv, PlanIsSound, Loading, Source
    <3>2. load.range \in 1..Len(Source.ranges)
      BY <1>1, <2>1
    <3> QED
      BY <2>6, <3>1, <3>2 DEF Wanted, Sound
  <2>8. Len(<<>>) = 0 /\ <<>> = SubSeq(file, r.offset + 1, r.offset + 0)
    <3>1. PICK o \in Nat : o = r.offset /\ o + 0 = o
      BY <2>7
    <3> QED
      BY <3>1, NoPart
  <2>9. /\ load.range <= Len(Source.ranges) + 1
        /\ load.tensors = [t \in DOMAIN load.tensors |-> Original(t)]
        /\ load.before \in Nat
        /\ reads.bytes = load.before + BytesUpTo(Source.ranges)[load.range - 1] + 0
    BY <1>1 DEF TruthInv, LoadIsTrue
  <2>10. file' = file /\ Source' = Source /\ \A t : Original(t)' = Original(t)
    BY <2>2, <2>4, SameShard DEF Source, shard
  <2>11. load'.tensors = [t \in DOMAIN load'.tensors |-> Original(t)']
    BY <2>2, <2>9, <2>10
  <2>12. /\ load'.got = SubSeq(file', Wanted'.offset + 1, Wanted'.offset + Len(load'.got))
         /\ Len(load'.got) = 0 /\ Len(load'.got) <= Wanted'.length
    BY <2>2, <2>6, <2>7, <2>8, <2>10
  <2>13. LoadIsTrue'
    BY <2>2, <2>3, <2>9, <2>10, <2>11, <2>12 DEF LoadIsTrue
  <2> QED
    BY <2>5, <2>13 DEF TruthInv
<1> QED
  BY <1>2, <1>3 DEF BeginRange

\* A read that came back short goes on where it ended: what has been read is still a
\* beginning of the range, and no longer than it.
LEMMA PreadTruth == ASSUME IInv, TruthInv, NEW n \in 1..Len(file), Pread(n) PROVE TruthInv'
<1>1. /\ Loading /\ load.begun /\ n <= Remaining
      /\ UNCHANGED shard /\ UNCHANGED cache
      /\ reads' = [reads EXCEPT !.system = @ + 1, !.bytes = @ + n]
  BY DEF Pread, lru
<1>2. PICK A, T : load \in [expert : Ids \union {-1}, range : Nat \ {0}, got : Seq(A),
                            begun : BOOLEAN, tensors : T, before : T]
  BY DEF IInv, LruInv, LoadTyped
<1>3. PICK r : r = Wanted
  OBVIOUS
<1>4. PICK o \in Nat, len \in Nat, a \in Nat : o = r.offset /\ len = r.length /\ a = Len(load.got)
  BY <1>1, <1>2, <1>3, WantedTyped, LenProperties
<1>5. n \in Nat /\ a + n <= len
  BY <1>1, <1>3, <1>4 DEF Remaining
<1>6. load' = [load EXCEPT !.got = @ \o SubSeq(file, o + a + 1, o + a + n)]
  BY <1>3, <1>4 DEF Pread
<1>7. /\ load'.expert = load.expert /\ load'.range = load.range /\ load'.before = load.before
      /\ load'.begun = load.begun /\ load'.tensors = load.tensors
      /\ load'.got = load.got \o SubSeq(file, o + a + 1, o + a + n)
  BY <1>2, <1>6
<1>8. /\ load.range <= Len(Source.ranges) + 1
      /\ load.tensors = [t \in DOMAIN load.tensors |-> Original(t)]
      /\ load.got = SubSeq(file, o + 1, o + a)
      /\ load.before \in Nat
      /\ reads.bytes = load.before + BytesUpTo(Source.ranges)[load.range - 1] + a
  BY <1>1, <1>3, <1>4 DEF TruthInv, LoadIsTrue
<1>9. load'.got = SubSeq(file, o + 1, o + (a + n)) /\ Len(load'.got) = a + n
  <2>1. o + (a + n) = o + a + n
    OBVIOUS
  <2> QED
    <3>1. /\ SubSeq(file, o + 1, o + a) \o SubSeq(file, o + a + 1, o + a + n)
               = SubSeq(file, o + 1, o + a + n)
          /\ Len(SubSeq(file, o + 1, o + a + n)) = a + n
      BY <1>5, PartsJoin
    <3> QED
      BY <1>7, <1>8, <2>1, <3>1
<1>10. reads'.bytes = reads.bytes + n /\ reads.bytes \in Nat
  BY <1>1 DEF IInv, CountInv, CountersTyped
<1>11. /\ file' = file /\ Source' = Source /\ Wanted' = r
       /\ \A t : Original(t)' = Original(t)
  BY <1>1, <1>3, <1>7, SameShard DEF Source, Wanted, shard
<1>12. BytesUpTo(Source.ranges)[load.range - 1] \in Nat
  <2>1. HasLengths(Source.ranges)
    BY <1>1 DEF TruthInv, PlanIsTrue, Source, Loading
  <2>2. load.range - 1 \in 0..Len(Source.ranges)
    <3>1. load.range \in Nat \ {0} /\ load.range <= Len(Source.ranges) + 1
            /\ Len(Source.ranges) \in Nat
      BY <1>2, <1>8, <2>1 DEF HasLengths
    <3> QED
      BY <3>1
  <2> QED
    BY <2>1, <2>2, BytesGrow
<1>13. reads'.bytes = load.before + BytesUpTo(Source.ranges)[load.range - 1] + (a + n)
  BY <1>5, <1>8, <1>10, <1>12
<1>14. load'.tensors = [t \in DOMAIN load'.tensors |-> Original(t)']
  BY <1>7, <1>8, <1>11
<1>15. LoadIsTrue'
  BY <1>1, <1>4, <1>5, <1>7, <1>8, <1>9, <1>11, <1>13, <1>14 DEF LoadIsTrue
<1>16. PlanIsTrue' /\ CacheHoldsTheOriginals'
  BY <1>1, SameShard, OnlyOld DEF TruthInv
<1> QED
  BY <1>15, <1>16 DEF TruthInv

\* What a finished range adds is right too.
LEMMA JoinIsTrue ==
    ASSUME NEW f, f = [t \in DOMAIN f |-> Original(t)],
           NEW g, \A t \in DOMAIN g : g[t] = Original(t)
    PROVE  Joined(f, g) = [t \in DOMAIN Joined(f, g) |-> Original(t)]
<1>1. DOMAIN Joined(f, g) = (DOMAIN f) \union (DOMAIN g)
  BY DEF Joined
<1>2. \A t \in DOMAIN f : f[t] = Original(t)
  <2> DEFINE h == [t \in DOMAIN f |-> Original(t)]
  <2>1. \A t \in DOMAIN f : h[t] = Original(t)
    OBVIOUS
  <2> QED
    BY <2>1
<1>3. ASSUME NEW t \in (DOMAIN f) \union (DOMAIN g)
      PROVE  (IF t \in DOMAIN g THEN g[t] ELSE f[t]) = Original(t)
  BY <1>2
<1> QED
  BY <1>1, <1>3 DEF Joined

\* A range that is complete is cut or decoded; its bytes are those of one range more.
LEMMA EndRangeTruth == ASSUME IInv, TruthInv, EndRange PROVE TruthInv'
<1>1. Loading /\ load.begun /\ Remaining = 0
  BY DEF EndRange
<1>2. CASE Raise
  BY <1>2, RaiseTruth
<1> DEFINE tensors == IF IsScaleX THEN Decoded(load.expert, Source.record, load.got)
                      ELSE SlicesOf(Wanted, load.got)
<1>3. CASE /\ load' = [load EXCEPT !.begun = FALSE, !.range = @ + 1, !.tensors = Joined(@, tensors)]
           /\ UNCHANGED <<shard, lru, asked, todo, reads, closed, calls, failed, short>>
  <2>1. PICK A, T : load \in [expert : Ids \union {-1}, range : Nat \ {0}, got : Seq(A),
                              begun : BOOLEAN, tensors : T, before : T]
    BY DEF IInv, LruInv, LoadTyped
  <2>2. PICK made : made = tensors
    OBVIOUS
  <2> HIDE DEF tensors
  <2>3. /\ load'.expert = load.expert /\ load'.range = load.range + 1
        /\ load'.before = load.before /\ load'.begun = FALSE
        /\ load'.tensors = Joined(load.tensors, made)
    BY <1>3, <2>1, <2>2
  <2>4. UNCHANGED shard /\ UNCHANGED cache /\ reads' = reads
    BY <1>3 DEF lru
  <2>5. PICK r : r = Wanted
    OBVIOUS
  <2>6. PICK a \in Nat, k \in Nat \ {0} : a = Len(load.got) /\ k = load.range
    BY <2>1, LenProperties
  <2>7. PICK ranges : ranges = Source.ranges /\ HasLengths(ranges)
    BY <1>1 DEF TruthInv, PlanIsTrue, Source, Loading
  <2>8. k \in 1..Len(ranges) /\ r = ranges[k]
    BY <1>1, <2>5, <2>6, <2>7 DEF IInv, CountInv, RangeIsOfPlan, Wanted, HasLengths
  <2>9. a = r.length
    <3>1. r.length \in Nat /\ r.length - a = 0
      BY <1>1, <2>5, <2>6, <2>7, <2>8 DEF Remaining, HasLengths
    <3> QED
      BY <3>1
  <2>10. /\ load.tensors = [t \in DOMAIN load.tensors |-> Original(t)]
         /\ load.got = SubSeq(file, r.offset + 1, r.offset + a)
         /\ load.before \in Nat
         /\ reads.bytes = load.before + BytesUpTo(ranges)[k - 1] + a
    BY <1>1, <2>5, <2>6, <2>7 DEF TruthInv, LoadIsTrue
  <2>11. made = ReadOf(load.expert, r)
    BY <2>2, <2>5, <2>9, <2>10 DEF tensors, ReadOf, Content, Source
  <2>12. \A t \in DOMAIN made : made[t] = Original(t)
    BY <1>1, <2>7, <2>8, <2>11 DEF TruthInv, PlanIsTrue, Loading, Source
  <2>13. file' = file /\ Source' = Source /\ \A t : Original(t)' = Original(t)
    BY <2>3, <2>4, SameShard DEF Source, shard
  <2>14. load'.tensors = [t \in DOMAIN load'.tensors |-> Original(t)']
    <3>1. PICK f : f = load.tensors
      OBVIOUS
    <3>2. f = [t \in DOMAIN f |-> Original(t)]
      BY <2>10, <3>1
    <3>3. Joined(f, made) = [t \in DOMAIN Joined(f, made) |-> Original(t)]
      BY ONLY <2>12, <3>2, JoinIsTrue
    <3> QED
      BY <2>3, <2>13, <3>1, <3>3
  <2>15. reads'.bytes = load'.before + BytesUpTo(ranges)[load'.range - 1] + 0
    <3>1. BytesUpTo(ranges)[k] = BytesUpTo(ranges)[k - 1] + ranges[k].length
            /\ BytesUpTo(ranges)[k - 1] \in Nat /\ BytesUpTo(ranges)[k] \in Nat
      <4>1. k - 1 \in 0..Len(ranges) /\ k \in 0..Len(ranges)
        BY <2>7, <2>8 DEF HasLengths
      <4> QED
        BY <2>7, <2>8, <4>1, BytesGrow
    <3>2. load'.range - 1 = k
      BY <2>3, <2>6
    <3>3. PICK old \in Nat, new \in Nat :
             old = BytesUpTo(ranges)[k - 1] /\ new = BytesUpTo(ranges)[k]
      BY <3>1
    <3>4. PICK before \in Nat : before = load.before
      BY <2>10
    <3>5. ranges[k].length = a /\ new = old + a
      BY <2>8, <2>9, <3>1, <3>3
    <3>6. reads'.bytes = before + old + a
      BY <2>4, <2>10, <3>3, <3>4
    <3>7. reads'.bytes = before + new + 0
      BY <3>5, <3>6
    <3> QED
      BY <2>3, <3>2, <3>3, <3>4, <3>7
  <2>16. load'.range <= Len(ranges) + 1
    BY <2>3, <2>6, <2>7, <2>8 DEF HasLengths
  <2>17. LoadIsTrue'
    BY <2>3, <2>7, <2>10, <2>13, <2>14, <2>15, <2>16 DEF LoadIsTrue
  <2>18. PlanIsTrue' /\ CacheHoldsTheOriginals'
    BY <2>4, SameShard, OnlyOld DEF TruthInv
  <2> QED
    BY <2>17, <2>18 DEF TruthInv
<1> QED
  BY <1>2, <1>3 DEF EndRange

\* A load that ends has read all the ranges: what it caches is right and counted.
LEMMA EndLoadTruth == ASSUME IInv, TruthInv, EndLoad PROVE TruthInv'
<1>1. Loading /\ ~load.begun /\ load.range > Len(Source.ranges)
  BY DEF EndLoad
<1>2. CASE Raise
  BY <1>2, RaiseTruth
<1> DEFINE x == [expert |-> load.expert, tensors |-> load.tensors,
                 bytes |-> reads.bytes - load.before]
<1>3. CASE /\ DOMAIN load.tensors = TensorsOf(load.expert)
           /\ cache' = Append(cache, x)
           /\ load' = NotLoading
           /\ UNCHANGED shard
  <2>1. ~Loading'
    BY <1>3 DEF Loading, NotLoading, Ids
  <2>2. PlanIsTrue'
    BY <1>3, SameShard DEF TruthInv
  <2>3. plan' = plan /\ \A t : Original(t)' = Original(t)
    BY <1>3, SameShard DEF shard
  <2>4. PICK ranges : ranges = Source.ranges /\ HasLengths(ranges)
    BY <1>1 DEF TruthInv, PlanIsTrue, Source, Loading
  <2>5. PICK n \in Nat : n = Len(ranges)
    BY <2>4 DEF HasLengths
  <2>6. load.range \in Nat \ {0}
    BY DEF IInv, LruInv, LoadTyped
  <2>7. /\ load.range <= n + 1
        /\ load.tensors = [t \in DOMAIN load.tensors |-> Original(t)]
        /\ load.before \in Nat
        /\ reads.bytes = load.before + BytesUpTo(ranges)[load.range - 1] + 0
    BY <1>1, <2>4, <2>5 DEF TruthInv, LoadIsTrue
  <2>8. load.range - 1 = n
    BY <1>1, <2>4, <2>5, <2>6, <2>7
  <2>9. BytesUpTo(ranges)[n] \in Nat /\ BytesOf(ranges) = BytesUpTo(ranges)[n]
    <3>1. n \in 0..Len(ranges)
      BY <2>5
    <3> QED
      BY <2>4, <2>5, <3>1, BytesGrow
  <2>10. /\ x.expert = load.expert
         /\ x.tensors = [t \in TensorsOf(x.expert) |-> Original(t)]
         /\ x.bytes = BytesOf(plan[x.expert].ranges)
    <3>1. reads.bytes - load.before = BytesOf(ranges)
      BY <2>7, <2>8, <2>9
    <3>2. x.bytes = BytesOf(ranges)
      BY <3>1
    <3> QED
      BY <1>3, <2>4, <2>7, <3>2 DEF Source
  <2> HIDE DEF x
  <2>11. PICK S : cache \in Seq(S)
    BY DEF IInv, LruInv, CacheTyped
  <2>12. /\ DOMAIN cache = 1..Len(cache) /\ Len(cache) \in Nat
         /\ DOMAIN cache' = 1..(Len(cache) + 1)
         /\ \A k \in 1..Len(cache) : cache'[k] = cache[k]
         /\ cache'[Len(cache) + 1] = x
    <3>1. PICK c \in Seq(S \union {x}) : c = cache
      BY <2>11
    <3>2. x \in S \union {x}
      OBVIOUS
    <3>3. /\ Append(c, x) \in Seq(S \union {x}) /\ Len(Append(c, x)) = Len(c) + 1
          /\ \A k \in 1..Len(c) : Append(c, x)[k] = c[k]
          /\ Append(c, x)[Len(c) + 1] = x
      BY <3>2, AppendProperties
    <3> QED
      BY <1>3, <3>1, <3>3, LenProperties
  <2> DEFINE Right(y) ==
                 /\ y.tensors = [t \in TensorsOf(y.expert) |-> Original(t)]
                 /\ y.bytes = BytesOf(plan[y.expert].ranges)
             RightNext(y) ==
                 /\ y.tensors = [t \in TensorsOf(y.expert) |-> Original(t)']
                 /\ y.bytes = BytesOf(plan'[y.expert].ranges)
  <2>13. \A y : Right(y) => RightNext(y)
    BY <2>3
  <2>14. Right(x) /\ \A k \in DOMAIN cache : Right(cache[k])
    BY <2>10 DEF TruthInv, CacheHoldsTheOriginals
  <2>15. \A k \in DOMAIN cache' : RightNext(cache'[k])
    <3> HIDE DEF Right, RightNext
    <3>1. ASSUME NEW k \in 1..(Len(cache) + 1) PROVE RightNext(cache'[k])
      <4>1. CASE k = Len(cache) + 1
        BY <2>12, <2>13, <2>14, <4>1
      <4>2. CASE k # Len(cache) + 1
        <5>1. k \in 1..Len(cache)
          BY <2>12, <4>2
        <5> QED
          BY <2>12, <2>13, <2>14, <5>1
      <4> QED
        BY <4>1, <4>2
    <3> QED
      BY <2>12, <3>1
  <2>16. CacheHoldsTheOriginals'
    BY <2>15 DEF CacheHoldsTheOriginals
  <2> QED
    BY <2>1, <2>2, <2>16 DEF TruthInv, LoadIsTrue
<1> QED
  BY <1>2, <1>3 DEF EndLoad

\* Whatever was loaded, over however many preads, from a native shard or a converted one,
\* the tensors of every cached expert are those the original checkpoint had, and its bytes
\* are those of its ranges (NativeExpertReader.load, decode_mode_a).
THEOREM OriginalsCorrect == Spec => []CacheHoldsTheOriginals
<1>1. Init => TruthInv
  BY TruthInit
<1>2. IInv /\ TruthInv /\ [Next]_vars => TruthInv'
  <2> SUFFICES ASSUME IInv, TruthInv, [Next]_vars PROVE TruthInv'
    OBVIOUS
  <2>1. ASSUME NEW route \in Routes(sample), Ensure(route) PROVE TruthInv'
    BY <2>1, OtherTruth DEF Ensure, lru
  <2>2. CASE Hit
    BY <2>2, HitTruth
  <2>3. CASE Miss
    BY <2>3, MissTruth
  <2>4. CASE Return
    BY <2>4, OtherTruth DEF Return, lru
  <2>5. CASE BeginRange
    BY <2>5, BeginTruth
  <2>6. ASSUME NEW n \in 1..Len(file), Pread(n) PROVE TruthInv'
    BY <2>6, PreadTruth
  <2>7. CASE PreadFails
    BY <2>7, RaiseTruth DEF PreadFails
  <2>8. CASE EndRange
    BY <2>8, EndRangeTruth
  <2>9. CASE EndLoad
    BY <2>9, EndLoadTruth
  <2>10. CASE CloseReader
    BY <2>10, OtherTruth DEF CloseReader, lru
  <2>11. CASE UNCHANGED vars
    BY <2>11, OtherTruth DEF vars, lru
  <2> QED
    BY <2>1, <2>2, <2>3, <2>4, <2>5, <2>6, <2>7, <2>8, <2>9, <2>10, <2>11 DEF Next
<1>3. TruthInv => CacheHoldsTheOriginals
  BY DEF TruthInv
<1> QED
  BY <1>1, <1>2, <1>3, Invariance, PTL DEF Spec
=============================================================================
