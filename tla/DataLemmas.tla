----------------------------- MODULE DataLemmas -----------------------------
(***************************************************************************)
(* Facts about data that the proofs share: induction over a range of       *)
(* numbers and what it says of a loop; what a send and a receive do to the *)
(* elements of a queue, and what becomes of a queue whose first element    *)
(* somebody has in hand.                                                   *)
(***************************************************************************)
EXTENDS Integers, Sequences, Functions, FiniteSetTheorems, WellFoundedInduction, TLAPS

-----------------------------------------------------------------------------
(* Induction, in a form without an operator parameter: from the            *)
(* well-founded order of the natural numbers, a least number; from it,     *)
(* induction over a set; and from that the existence of the function a     *)
(* loop computes, which is what the equation of a recursive function needs.*)

LEMMA LeastNatural ==
  ASSUME NEW S \in SUBSET Nat, S # {}
  PROVE  \E m \in S : \A n \in S : m <= n
<1> DEFINE R == OpToRel(<, Nat)
<1>1. IsWellFoundedOn(R, Nat) BY NatLessThanWellFounded
<1>2. \A x, y \in Nat : x < y => <<x, y>> \in R BY DEF OpToRel
<1> HIDE DEF R
<1>3. PICK m \in S : \A n \in S : ~(<<n, m>> \in R) BY <1>1, WFMin
<1>4. ASSUME NEW n \in S PROVE m <= n
  <2>1. m \in Nat /\ n \in Nat OBVIOUS
  <2>2. ~(n < m) BY <1>2, <1>3, <2>1
  <2> QED BY <2>1, <2>2
<1> QED BY <1>4

LEMMA Induction ==
  ASSUME NEW n \in Nat, NEW S, 0 \in S, \A k \in 1..n : k - 1 \in S => k \in S
  PROVE  0..n \subseteq S
<1> SUFFICES ASSUME (0..n) \ S # {} PROVE FALSE OBVIOUS
<1> DEFINE T == (0..n) \ S
<1>0. T \in SUBSET Nat /\ T # {} OBVIOUS
<1>1. PICK m \in T : \A k \in T : m <= k
  <2> HIDE DEF T
  <2> QED BY <1>0, LeastNatural
<1>2. m \in 1..n /\ m - 1 \in 0..n BY <1>1
<1>3. m - 1 \in S BY <1>1, <1>2
<1> QED BY <1>1, <1>2, <1>3

\* Of finitely many things, one has the least value.
LEMMA LeastOfFinite ==
  ASSUME NEW U, IsFiniteSet(U), U # {}, NEW v \in [U -> Int]
  PROVE  \E m \in U : \A u \in U : v[m] <= v[u]
<1>0. PICK n \in Nat : ExistsSurjection(1..n, U) BY FS_NatSurjection
<1>1. PICK s \in [1..n -> U] : \A u \in U : \E i \in 1..n : s[i] = u
  BY <1>0 DEF ExistsSurjection, Surjection
<1> DEFINE Least(k) == k = 0 \/ \E i \in 1..k : \A j \in 1..k : v[s[i]] <= v[s[j]]
           S == {k \in 0..n : Least(k)}
<1>2. 0 \in S OBVIOUS
<1>3. ASSUME NEW k \in 1..n, k - 1 \in S PROVE k \in S
  <2>0. \A i \in 1..n : v[s[i]] \in Int BY <1>1
  <2>1. CASE k = 1 BY <2>0, <2>1
  <2>2. CASE k # 1
    <3>1. PICK i \in 1..(k - 1) : \A j \in 1..(k - 1) : v[s[i]] <= v[s[j]] BY <1>3, <2>2
    <3>2. i \in 1..k /\ k \in 1..k /\ \A j \in 1..k : j \in 1..(k - 1) \/ j = k BY <3>1
    <3>3. CASE v[s[i]] <= v[s[k]] BY <2>0, <3>1, <3>2, <3>3
    <3>4. CASE ~(v[s[i]] <= v[s[k]])
      <4>1. \A j \in 1..k : v[s[k]] <= v[s[j]] BY <2>0, <3>1, <3>2, <3>4
      <4> QED BY <3>2, <4>1
    <3> QED BY <3>3, <3>4
  <2> QED BY <2>1, <2>2
<1>4. n \in S
  <2> HIDE DEF S
  <2>1. 0..n \subseteq S BY <1>2, <1>3, Induction
  <2> QED BY <2>1
<1>5. n # 0 BY <1>1
<1>6. PICK i \in 1..n : \A j \in 1..n : v[s[i]] <= v[s[j]] BY <1>4, <1>5
<1>7. ASSUME NEW u \in U PROVE v[s[i]] <= v[u]
  <2>1. PICK j \in 1..n : s[j] = u BY <1>1
  <2> QED BY <1>6, <2>1
<1> QED BY <1>1, <1>6, <1>7

\* f[k] is what a loop has computed after k of its n rounds.
Loops(f, n, S, base, step) ==
  /\ f \in [0..n -> S]
  /\ f[0] = base
  /\ \A k \in 1..n : f[k] = step[k][f[k - 1]]

LEMMA Recursion ==
  ASSUME NEW n \in Nat, NEW S, NEW base \in S, NEW step \in [1..n -> [S -> S]]
  PROVE  \E f : Loops(f, n, S, base, step)
<1> DEFINE Computes(f, m) == f[0] = base /\ \A k \in 1..m : f[k] = step[k][f[k - 1]]
           Reached == {m \in 0..n : \E f \in [0..m -> S] : Computes(f, m)}
<1>1. 0 \in Reached
  <2> DEFINE f == [k \in 0..0 |-> base]
  <2>1. f \in [0..0 -> S] /\ f[0] = base OBVIOUS
  <2> HIDE DEF f
  <2>2. Computes(f, 0) BY <2>1
  <2> HIDE DEF Computes
  <2> QED BY <2>1, <2>2
<1>2. ASSUME NEW m \in 1..n, m - 1 \in Reached PROVE m \in Reached
  <2>1. PICK f \in [0..(m - 1) -> S] : Computes(f, m - 1) BY <1>2
  <2> DEFINE g == [k \in 0..m |-> IF k = m THEN step[m][f[m - 1]] ELSE f[k]]
  <2>2. f[m - 1] \in S /\ step[m][f[m - 1]] \in S BY <2>1
  <2>3. g \in [0..m -> S] BY <2>1, <2>2
  <2>4. g[0] = base BY <2>1
  <2>5. ASSUME NEW k \in 1..m PROVE g[k] = step[k][g[k - 1]]
    <3>1. k - 1 \in 0..(m - 1) /\ g[k - 1] = f[k - 1] OBVIOUS
    <3>2. CASE k = m
      <4>1. g[k] = step[m][f[m - 1]] BY <3>2
      <4> QED BY <3>1, <3>2, <4>1
    <3>3. CASE k # m
      <4>1. k \in 1..(m - 1) /\ g[k] = f[k] BY <3>3
      <4> QED BY <2>1, <3>1, <4>1
    <3> QED BY <3>2, <3>3
  <2> HIDE DEF g
  <2>6. Computes(g, m) BY <2>4, <2>5
  <2> HIDE DEF Computes
  <2> QED BY <2>3, <2>6
<1>3. n \in Reached
  <2> HIDE DEF Reached
  <2>1. 0..n \subseteq Reached BY <1>1, <1>2, Induction
  <2> QED BY <2>1
<1> QED BY <1>3 DEF Loops

-----------------------------------------------------------------------------
(* What is in a queue.                                                     *)

LEMMA RangeAppend ==
  ASSUME NEW S, NEW s \in Seq(S), NEW e \in S
  PROVE  Range(Append(s, e)) = Range(s) \cup {e}
<1>1. /\ DOMAIN Append(s, e) = DOMAIN s \cup {Len(s) + 1}
      /\ \A i \in DOMAIN s : Append(s, e)[i] = s[i]
      /\ Append(s, e)[Len(s) + 1] = e
  OBVIOUS
<1> QED BY <1>1 DEF Range

LEMMA RangeHeadTail ==
  ASSUME NEW S, NEW s \in Seq(S), s # <<>>
  PROVE  Range(s) = {Head(s)} \cup Range(Tail(s))
<1>1. /\ DOMAIN s = 1..Len(s) /\ Len(s) \in Nat \ {0}
      /\ DOMAIN Tail(s) = 1..(Len(s) - 1)
      /\ Head(s) = s[1]
      /\ \A i \in 1..(Len(s) - 1) : Tail(s)[i] = s[i + 1]
  OBVIOUS
<1>2. \A i \in 1..Len(s) : i = 1 \/ (i - 1) \in 1..(Len(s) - 1)
  BY <1>1
<1>3. Range(s) \subseteq {Head(s)} \cup Range(Tail(s))
  <2> SUFFICES ASSUME NEW i \in 1..Len(s)
               PROVE  s[i] \in {Head(s)} \cup Range(Tail(s))
    BY <1>1 DEF Range
  <2>1. CASE i = 1 BY <2>1, <1>1
  <2>2. CASE i # 1
    <3>1. (i - 1) \in DOMAIN Tail(s) /\ Tail(s)[i - 1] = s[i]
      BY <2>2, <1>1, <1>2
    <3> QED BY <3>1 DEF Range
  <2> QED BY <2>1, <2>2
<1>4. {Head(s)} \cup Range(Tail(s)) \subseteq Range(s)
  <2>1. Head(s) \in Range(s) BY <1>1 DEF Range
  <2>2. ASSUME NEW i \in 1..(Len(s) - 1) PROVE Tail(s)[i] \in Range(s)
    <3>1. i + 1 \in DOMAIN s /\ s[i + 1] = Tail(s)[i] BY <1>1
    <3> QED BY <3>1 DEF Range
  <2> QED BY <2>1, <2>2, <1>1 DEF Range
<1> QED BY <1>3, <1>4

-----------------------------------------------------------------------------
(* No element twice.                                                       *)

NoDuplicates(q) == \A i, j \in DOMAIN q : q[i] = q[j] => i = j

LEMMA AppendKeepsDistinct ==
  ASSUME NEW S, NEW q \in Seq(S), NEW e \in S, NoDuplicates(q), e \notin Range(q)
  PROVE  NoDuplicates(Append(q, e))
<1>1. /\ DOMAIN Append(q, e) = DOMAIN q \cup {Len(q) + 1}
      /\ \A i \in DOMAIN q : Append(q, e)[i] = q[i]
      /\ Append(q, e)[Len(q) + 1] = e
  OBVIOUS
<1> QED BY <1>1 DEF NoDuplicates, Range

LEMMA TailKeepsDistinct ==
  ASSUME NEW S, NEW q \in Seq(S), q # <<>>, NoDuplicates(q)
  PROVE  NoDuplicates(Tail(q)) /\ Head(q) \notin Range(Tail(q))
<1>1. /\ DOMAIN q = 1..Len(q) /\ Len(q) \in Nat \ {0}
      /\ DOMAIN Tail(q) = 1..(Len(q) - 1)
      /\ Head(q) = q[1]
      /\ \A i \in 1..(Len(q) - 1) : Tail(q)[i] = q[i + 1]
  OBVIOUS
<1>2. ASSUME NEW i \in 1..(Len(q) - 1), NEW j \in 1..(Len(q) - 1),
             Tail(q)[i] = Tail(q)[j]
      PROVE  i = j
  <2>1. i + 1 \in DOMAIN q /\ j + 1 \in DOMAIN q /\ q[i + 1] = q[j + 1]
    BY <1>1, <1>2
  <2>2. i + 1 = j + 1 BY <2>1 DEF NoDuplicates
  <2> QED BY <2>2
<1>3. ASSUME NEW i \in 1..(Len(q) - 1) PROVE Tail(q)[i] # Head(q)
  <2>1. i + 1 \in DOMAIN q /\ 1 \in DOMAIN q /\ i + 1 # 1 BY <1>1
  <2> QED BY <1>1, <2>1 DEF NoDuplicates
<1> QED BY <1>1, <1>2, <1>3 DEF NoDuplicates, Range

-----------------------------------------------------------------------------
(* A queue with its first element in hand.                                 *)

LEMMA SameQueue ==
  ASSUME NEW S, NEW q \in Seq(S), NEW r \in Seq(S), Len(q) = Len(r),
         \A i \in 1..Len(q) : q[i] = r[i]
  PROVE  q = r
<1>1. q \in [1..Len(q) -> S] /\ r \in [1..Len(q) -> S]
  OBVIOUS
<1> QED BY <1>1

LEMMA InHandFirst ==
  ASSUME NEW S, NEW e \in S, NEW q \in Seq(S)
  PROVE  /\ <<e>> \o q \in Seq(S)
         /\ <<e>> \o q # <<>>
         /\ Head(<<e>> \o q) = e
         /\ Tail(<<e>> \o q) = q
<1> DEFINE w == <<e>> \o q
<1>1. /\ w \in Seq(S) /\ Len(w) = Len(q) + 1 /\ w[1] = e
      /\ \A i \in 1..Len(q) : w[i + 1] = q[i]
  OBVIOUS
<1>2. w # <<>> BY <1>1
<1>3. Tail(w) \in Seq(S) /\ Len(Tail(w)) = Len(q)
      /\ \A i \in 1..Len(q) : Tail(w)[i] = q[i]
  <2> HIDE DEF w
  <2> QED BY <1>1, <1>2
<1>4. Tail(w) = q
  <2> HIDE DEF w
  <2> QED BY <1>3, SameQueue
<1> QED BY <1>1, <1>2, <1>4

LEMMA RangeInHand ==
  ASSUME NEW S, NEW e \in S, NEW q \in Seq(S)
  PROVE  Range(<<e>> \o q) = {e} \cup Range(q)
<1> DEFINE w == <<e>> \o q
<1>1. w \in Seq(S) /\ w # <<>> /\ Head(w) = e /\ Tail(w) = q
  BY InHandFirst
<1> HIDE DEF w
<1>2. Range(w) = {e} \cup Range(q) BY <1>1, RangeHeadTail
<1> QED BY <1>2 DEF w

LEMMA TakenInHand ==
  ASSUME NEW S, NEW q \in Seq(S), q # <<>>
  PROVE  <<Head(q)>> \o Tail(q) = q
<1> DEFINE w == <<Head(q)>> \o Tail(q)
<1>1. /\ Head(q) \in S /\ Tail(q) \in Seq(S) /\ Len(Tail(q)) = Len(q) - 1
      /\ Head(q) = q[1] /\ Len(q) \in Nat \ {0}
      /\ \A i \in 1..(Len(q) - 1) : Tail(q)[i] = q[i + 1]
  OBVIOUS
<1>2. /\ w \in Seq(S) /\ Len(w) = Len(q) /\ w[1] = q[1]
      /\ \A i \in 2..Len(q) : w[i] = Tail(q)[i - 1]
  BY <1>1
<1>3. \A i \in 1..Len(q) : w[i] = q[i]
  <2> SUFFICES ASSUME NEW i \in 1..Len(q) PROVE w[i] = q[i]
    OBVIOUS
  <2>1. CASE i = 1 BY <1>2, <2>1
  <2>2. CASE i # 1
    <3>1. i \in 2..Len(q) /\ i - 1 \in 1..(Len(q) - 1) BY <1>1, <2>2
    <3> HIDE DEF w
    <3> QED BY <3>1, <1>1, <1>2
  <2> QED BY <2>1, <2>2
<1> HIDE DEF w
<1>4. w = q BY <1>2, <1>3, SameQueue
<1> QED BY <1>4 DEF w

LEMMA QueueBehind ==
  ASSUME NEW S, NEW d \in S, NEW e \in S, NEW q \in Seq(S)
  PROVE  <<d>> \o Append(q, e) = Append(<<d>> \o q, e)
<1> DEFINE w == <<d>> \o Append(q, e)
           v == Append(<<d>> \o q, e)
<1>1. /\ w \in Seq(S) /\ v \in Seq(S)
      /\ Len(w) = Len(q) + 2 /\ Len(v) = Len(q) + 2 /\ Len(q) \in Nat
  OBVIOUS
<1>2. \A i \in 1..(Len(q) + 2) : w[i] = v[i]
  <2> SUFFICES ASSUME NEW i \in 1..(Len(q) + 2) PROVE w[i] = v[i]
    OBVIOUS
  <2>1. CASE i = 1 BY <2>1
  <2>2. CASE i \in 2..(Len(q) + 1) BY <2>2
  <2>3. CASE i = Len(q) + 2 BY <2>3
  <2> QED BY <1>1, <2>1, <2>2, <2>3
<1> HIDE DEF w, v
<1>3. w = v BY <1>1, <1>2, SameQueue
<1> QED BY <1>3 DEF w, v

-----------------------------------------------------------------------------
(* Sequences that grow.                                                    *)

\* An element more, in a concatenation and in a beginning of a sequence.
LEMMA ConcatAppend ==
  ASSUME NEW S, NEW q \in Seq(S), NEW r \in Seq(S), NEW e \in S
  PROVE  /\ q \o Append(r, e) = Append(q \o r, e)
         /\ q \o <<e>> = Append(q, e)
<1>1. q \o Append(r, e) = Append(q \o r, e)
  <2> DEFINE v == q \o Append(r, e)
             w == Append(q \o r, e)
  <2>1. v \in Seq(S) /\ w \in Seq(S) /\ Len(v) = Len(w) /\ Len(w) = Len(q) + Len(r) + 1
    OBVIOUS
  <2>2. ASSUME NEW i \in 1..(Len(q) + Len(r) + 1) PROVE v[i] = w[i]
    <3>1. CASE i \in 1..Len(q) BY <3>1
    <3>2. CASE i \in (Len(q) + 1)..(Len(q) + Len(r))
      <4>1. i - Len(q) \in 1..Len(r) BY <3>2
      <4> QED BY <3>2, <4>1
    <3>3. CASE i = Len(q) + Len(r) + 1 BY <3>3
    <3> QED BY <3>1, <3>2, <3>3
  <2> HIDE DEF v, w
  <2>3. v = w BY <2>1, <2>2, SameQueue
  <2> QED BY <2>3 DEF v, w
<1>2. q \o <<e>> = Append(q, e)
  <2> DEFINE v == q \o <<e>>
             w == Append(q, e)
  <2>1. /\ v \in Seq(S) /\ w \in Seq(S) /\ Len(v) = Len(w)
        /\ \A i \in 1..Len(v) : v[i] = w[i]
    OBVIOUS
  <2> HIDE DEF v, w
  <2>2. v = w BY <2>1, SameQueue
  <2> QED BY <2>2 DEF v, w
<1> QED BY <1>1, <1>2

LEMMA BeginningGrows ==
  ASSUME NEW S, NEW q \in Seq(S), NEW k \in 1..Len(q)
  PROVE  /\ SubSeq(q, 1, k) = Append(SubSeq(q, 1, k - 1), q[k])
         /\ SubSeq(q, 1, k - 1) \in Seq(S)
<1> DEFINE v == SubSeq(q, 1, k)
           b == SubSeq(q, 1, k - 1)
           w == Append(b, q[k])
<1>1. /\ v \in Seq(S) /\ Len(v) = k /\ \A i \in 1..k : v[i] = q[i]
      /\ b \in Seq(S) /\ Len(b) = k - 1 /\ \A i \in 1..(k - 1) : b[i] = q[i]
  OBVIOUS
<1> HIDE DEF v, b
<1>2. /\ w \in Seq(S) /\ Len(w) = k /\ w[k] = q[k]
      /\ \A i \in 1..(k - 1) : w[i] = q[i]
  BY <1>1
<1> HIDE DEF w
<1>3. \A i \in 1..k : v[i] = w[i] BY <1>1, <1>2
<1>4. v = w BY <1>1, <1>2, <1>3, SameQueue
<1> QED BY <1>1, <1>4 DEF v, w, b
=============================================================================
