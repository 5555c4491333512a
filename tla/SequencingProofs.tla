-------------------------- MODULE SequencingProofs --------------------------
(***************************************************************************)
(* Lemmas about Sequencing's operators: what a sum of one number more is,  *)
(* what appending, taking the tail and concatenating do to an increasing   *)
(* sequence and its members, and what InOrder chooses.                     *)
(***************************************************************************)
EXTENDS Sequencing, WellFoundedInduction, FiniteSetTheorems, SequenceTheorems, TLAPS

(***************************************************************************)
(* Induction over the naturals, for a set of numbers.  It follows from the *)
(* well-foundedness of < and, unlike the library's theorems on induction,  *)
(* takes no operator as a parameter.                                       *)
(***************************************************************************)
LEMMA SetInduction ==
  ASSUME NEW S \in SUBSET Nat, 0 \in S, \A n \in S : n + 1 \in S
  PROVE  S = Nat
<1> DEFINE R == OpToRel(<, Nat)
<1> SUFFICES ASSUME Nat \ S # {} PROVE FALSE
  OBVIOUS
<1>1. IsWellFoundedOn(R, Nat)
  BY NatLessThanWellFounded, Zenon
<1>2. \A x, y \in Nat : y < x => <<y, x>> \in R
  BY DEF OpToRel
<1> HIDE DEF R
<1>3. PICK x \in Nat \ S : \A y \in Nat \ S : ~(<<y, x>> \in R)
  BY WFMin, <1>1
<1>4. x # 0 /\ x - 1 \in Nat /\ x - 1 < x /\ x = (x - 1) + 1
  BY <1>3
<1>5. <<x - 1, x>> \in R
  BY <1>2, <1>3, <1>4
<1>6. x - 1 \in S
  BY <1>3, <1>4, <1>5
<1>7. (x - 1) + 1 \in S
  BY <1>6
<1> QED
  BY <1>3, <1>4, <1>7

-----------------------------------------------------------------------------
(* Prefix sums. *)

PrefixSums(g, u, n) == g = [i \in 0..n |-> IF i = 0 THEN 0 ELSE g[i - 1] + u[i]]

(***************************************************************************)
(* The recursive function in Sum exists.                                   *)
(***************************************************************************)
LEMMA SumsExist ==
  ASSUME NEW u
  PROVE  \A n \in Nat : \E g : PrefixSums(g, u, n)
<1> DEFINE S == {n \in Nat : \E g : PrefixSums(g, u, n)}
<1>1. 0 \in S
  <2> DEFINE g == [i \in 0..0 |-> 0]
  <2>1. PrefixSums(g, u, 0)
    BY DEF PrefixSums
  <2> QED
    BY <2>1
<1>2. ASSUME NEW n \in S
      PROVE  n + 1 \in S
  <2>1. PICK g : PrefixSums(g, u, n)
    OBVIOUS
  <2> DEFINE h == [i \in 0..(n + 1) |-> IF i = n + 1 THEN g[n] + u[n + 1] ELSE g[i]]
  <2>2. n \in Nat
    OBVIOUS
  <2>3. \A i \in 0..n : h[i] = g[i]
    BY <2>2
  <2>4. h[n + 1] = h[n] + u[n + 1]
    BY <2>2, <2>3
  <2>5. \A i \in 0..n : g[i] = IF i = 0 THEN 0 ELSE g[i - 1] + u[i]
    BY <2>1 DEF PrefixSums
  <2>6. ASSUME NEW i \in 0..(n + 1)
        PROVE  h[i] = IF i = 0 THEN 0 ELSE h[i - 1] + u[i]
    <3>1. CASE i = n + 1
      BY <2>2, <2>4, <3>1
    <3>2. CASE i \in 0..n
      <4>1. i # 0 => i - 1 \in 0..n
        BY <3>2, <2>2
      <4> HIDE DEF h
      <4> QED
        BY <2>3, <2>5, <3>2, <4>1
    <3> QED
      BY <2>2, <3>1, <3>2
  <2>7. PrefixSums(h, u, n + 1)
    <3>1. h = [i \in 0..(n + 1) |-> h[i]]
      OBVIOUS
    <3> HIDE DEF h
    <3> QED
      BY <2>6, <3>1 DEF PrefixSums
  <2> QED
    BY <2>2, <2>7
<1>3. S = Nat
  <2> HIDE DEF S
  <2>1. S \in SUBSET Nat
    BY DEF S
  <2> QED
    BY <1>1, <1>2, <2>1, SetInduction
<1> QED
  BY <1>3

(***************************************************************************)
(* Prefix sums over sequences that agree up to there agree.                *)
(***************************************************************************)
LEMMA SumsAgree ==
  ASSUME NEW u, NEW v, NEW g, NEW h, NEW m \in Nat, NEW n \in Nat,
         PrefixSums(g, u, m), PrefixSums(h, v, n),
         NEW k \in Nat, k <= m, k <= n, \A i \in 1..k : u[i] = v[i]
  PROVE  g[k] = h[k]
<1> DEFINE S == {i \in Nat : i <= k => g[i] = h[i]}
<1>1. \A i \in 0..m : g[i] = IF i = 0 THEN 0 ELSE g[i - 1] + u[i]
  BY DEF PrefixSums
<1>2. \A i \in 0..n : h[i] = IF i = 0 THEN 0 ELSE h[i - 1] + v[i]
  BY DEF PrefixSums
<1>3. 0 \in S
  BY <1>1, <1>2
<1>4. ASSUME NEW i \in S
      PROVE  i + 1 \in S
  <2> SUFFICES ASSUME i + 1 <= k PROVE g[i + 1] = h[i + 1]
    OBVIOUS
  <2>1. i \in Nat /\ g[i] = h[i] /\ u[i + 1] = v[i + 1]
    OBVIOUS
  <2>2. i + 1 \in 0..m /\ i + 1 \in 0..n /\ i + 1 # 0 /\ (i + 1) - 1 = i
    BY <2>1
  <2>3. g[i + 1] = g[(i + 1) - 1] + u[i + 1] /\ h[i + 1] = h[(i + 1) - 1] + v[i + 1]
    BY <1>1, <1>2, <2>2
  <2> QED
    BY <2>1, <2>2, <2>3
<1>5. S = Nat
  <2> HIDE DEF S
  <2>1. S \in SUBSET Nat
    BY DEF S
  <2> QED
    BY <1>3, <1>4, <2>1, SetInduction
<1> QED
  BY <1>5

LEMMA SumDef ==
  ASSUME NEW u, NEW n \in Nat
  PROVE  \E g : PrefixSums(g, u, n) /\ Sum(u, n) = g[n]
<1> DEFINE g == CHOOSE f : f = [i \in 0..n |-> IF i = 0 THEN 0 ELSE f[i - 1] + u[i]]
<1>1. \E f : f = [i \in 0..n |-> IF i = 0 THEN 0 ELSE f[i - 1] + u[i]]
  BY SumsExist DEF PrefixSums
<1>2. g = [i \in 0..n |-> IF i = 0 THEN 0 ELSE g[i - 1] + u[i]]
  BY <1>1
<1>3. Sum(u, n) = g[n]
  BY DEF Sum
<1> QED
  BY <1>2, <1>3 DEF PrefixSums

(***************************************************************************)
(* The sum of nothing, and of one number more.                             *)
(***************************************************************************)
LEMMA SumOfNone ==
  ASSUME NEW u
  PROVE  Sum(u, 0) = 0
BY SumDef DEF PrefixSums

LEMMA SumOfMore ==
  ASSUME NEW u, NEW n \in Nat
  PROVE  Sum(u, n + 1) = Sum(u, n) + u[n + 1]
<1>1. PICK g : PrefixSums(g, u, n) /\ Sum(u, n) = g[n]
  BY SumDef
<1>2. PICK h : PrefixSums(h, u, n + 1) /\ Sum(u, n + 1) = h[n + 1]
  BY SumDef
<1>3. g[n] = h[n]
  BY <1>1, <1>2, SumsAgree
<1>4. h[n + 1] = h[n] + u[n + 1]
  BY <1>2 DEF PrefixSums
<1> QED
  BY <1>1, <1>2, <1>3, <1>4

(***************************************************************************)
(* A sum depends on its summands only.                                     *)
(***************************************************************************)
LEMMA SumOfSame ==
  ASSUME NEW u, NEW v, NEW n \in Nat, \A i \in 1..n : u[i] = v[i]
  PROVE  Sum(u, n) = Sum(v, n)
<1>1. PICK g : PrefixSums(g, u, n) /\ Sum(u, n) = g[n]
  BY SumDef
<1>2. PICK h : PrefixSums(h, v, n) /\ Sum(v, n) = h[n]
  BY SumDef
<1> QED
  BY <1>1, <1>2, SumsAgree

(***************************************************************************)
(* A sum of naturals is one.                                               *)
(***************************************************************************)
LEMMA SumIsNatural ==
  ASSUME NEW u, NEW n \in Nat, \A i \in 1..n : u[i] \in Nat
  PROVE  Sum(u, n) \in Nat
<1> DEFINE S == {i \in Nat : i <= n => Sum(u, i) \in Nat}
<1>1. 0 \in S
  BY SumOfNone
<1>2. ASSUME NEW i \in S
      PROVE  i + 1 \in S
  <2>1. i \in Nat /\ Sum(u, i + 1) = Sum(u, i) + u[i + 1]
    BY SumOfMore
  <2> QED
    BY <2>1
<1>3. S = Nat
  <2> HIDE DEF S
  <2>1. S \in SUBSET Nat
    BY DEF S
  <2> QED
    BY <1>1, <1>2, <2>1, SetInduction
<1> QED
  BY <1>3

(***************************************************************************)
(* A sum taken from the other end.                                         *)
(***************************************************************************)
LEMMA SumOfRest ==
  ASSUME NEW n \in Nat, NEW u, NEW v,
         \A i \in 1..(n + 1) : u[i] \in Nat, \A i \in 1..n : v[i] = u[i + 1]
  PROVE  Sum(u, n + 1) = u[1] + Sum(v, n)
<1> DEFINE S == {i \in Nat : i <= n => Sum(u, i + 1) = u[1] + Sum(v, i)}
<1>1. 0 \in S
  <2>1. Sum(u, 0) = 0 /\ Sum(v, 0) = 0 /\ Sum(u, 0 + 1) = Sum(u, 0) + u[0 + 1]
    BY SumOfNone, SumOfMore
  <2>2. 1 \in 1..(n + 1)
    OBVIOUS
  <2>3. u[1] \in Nat
    BY <2>2
  <2> QED
    BY <2>1, <2>3
<1>2. ASSUME NEW i \in S
      PROVE  i + 1 \in S
  <2> SUFFICES ASSUME i + 1 <= n PROVE Sum(u, (i + 1) + 1) = u[1] + Sum(v, i + 1)
    OBVIOUS
  <2>1. i \in Nat /\ i + 1 \in Nat /\ Sum(u, i + 1) = u[1] + Sum(v, i)
    OBVIOUS
  <2>2. /\ Sum(u, (i + 1) + 1) = Sum(u, i + 1) + u[(i + 1) + 1]
        /\ Sum(v, i + 1) = Sum(v, i) + v[i + 1]
    BY <2>1, SumOfMore
  <2>3. v[i + 1] = u[(i + 1) + 1] /\ u[(i + 1) + 1] \in Nat /\ u[1] \in Nat
    BY <2>1
  <2>4. Sum(v, i) \in Nat
    <3>1. \A j \in 1..i : v[j] \in Nat
      <4> TAKE j \in 1..i
      <4>1. j \in 1..n /\ j + 1 \in 1..(n + 1)
        BY <2>1
      <4> QED
        BY <4>1
    <3> QED
      BY <2>1, <3>1, SumIsNatural
  <2> QED
    BY <2>1, <2>2, <2>3, <2>4
<1>3. S = Nat
  <2> HIDE DEF S
  <2>1. S \in SUBSET Nat
    BY DEF S
  <2> QED
    BY <1>1, <1>2, <2>1, SetInduction
<1> QED
  BY <1>3

-----------------------------------------------------------------------------
(* Sequences of numbers. *)

(***************************************************************************)
(* Appending a number above all the others keeps a sequence increasing.    *)
(***************************************************************************)
LEMMA IncreasingAppend ==
  ASSUME NEW s \in Seq(Nat), NEW n \in Nat,
         Increasing(s), \A i \in 1..Len(s) : s[i] < n
  PROVE  Increasing(Append(s, n))
  BY DEF Increasing

(***************************************************************************)
(* A tail of an increasing sequence is increasing, and the head is below   *)
(* all of it.                                                              *)
(***************************************************************************)
LEMMA IncreasingTail ==
  ASSUME NEW s \in Seq(Nat), s # <<>>, Increasing(s)
  PROVE  /\ Increasing(Tail(s))
         /\ \A i \in 1..Len(Tail(s)) : Head(s) < Tail(s)[i]
<1>1. /\ Tail(s) \in Seq(Nat)
      /\ Len(Tail(s)) = Len(s) - 1
      /\ \A i \in 1..Len(Tail(s)) : Tail(s)[i] = s[i + 1]
  BY HeadTailProperties
<1>2. Len(s) \in Nat /\ Head(s) = s[1]
  OBVIOUS
<1>3. \A i \in 1..Len(Tail(s)) : i + 1 \in 1..Len(s)
  BY <1>1, <1>2
<1> QED
  BY <1>1, <1>2, <1>3 DEF Increasing

(***************************************************************************)
(* The members of an appended-to sequence.                                 *)
(***************************************************************************)
LEMMA AppendMembers ==
  ASSUME NEW s \in Seq(Nat), NEW n \in Nat, NEW i \in 1..Len(Append(s, n))
  PROVE  \/ i \in 1..Len(s) /\ Append(s, n)[i] = s[i]
         \/ Append(s, n)[i] = n
  OBVIOUS

(***************************************************************************)
(* Every member of a tail is a member of the sequence.                     *)
(***************************************************************************)
LEMMA TailMembers ==
  ASSUME NEW s \in Seq(Nat), s # <<>>, NEW i \in 1..Len(Tail(s))
  PROVE  \E j \in 1..Len(s) : Tail(s)[i] = s[j]
<1>1. i + 1 \in 1..Len(s) /\ Tail(s)[i] = s[i + 1]
  BY HeadTailProperties
<1> QED
  BY <1>1

(***************************************************************************)
(* Appending adds one member.                                              *)
(***************************************************************************)
LEMMA AppendSet ==
  ASSUME NEW s \in Seq(Nat), NEW n \in Nat
  PROVE  Members(Append(s, n)) = Members(s) \cup {n}
<1> USE DEF Members
<1>1. /\ DOMAIN s = 1..Len(s) /\ Len(s) \in Nat
      /\ DOMAIN Append(s, n) = 1..(Len(s) + 1)
      /\ \A i \in 1..Len(s) : Append(s, n)[i] = s[i]
      /\ Append(s, n)[Len(s) + 1] = n
  OBVIOUS
<1> QED
  BY <1>1

(***************************************************************************)
(* A non-empty sequence holds its head and what its tail holds.            *)
(***************************************************************************)
LEMMA TailSet ==
  ASSUME NEW s \in Seq(Nat), s # <<>>
  PROVE  Members(s) = Members(Tail(s)) \cup {Head(s)}
<1> USE DEF Members
<1>1. /\ DOMAIN s = 1..Len(s) /\ Len(s) \in Nat \ {0}
      /\ Tail(s) \in Seq(Nat) /\ Len(Tail(s)) = Len(s) - 1
      /\ DOMAIN Tail(s) = 1..(Len(s) - 1)
      /\ \A i \in 1..(Len(s) - 1) : Tail(s)[i] = s[i + 1]
      /\ Head(s) = s[1]
  BY HeadTailProperties
<1>2. ASSUME NEW i \in 1..Len(s)
      PROVE  s[i] \in Members(Tail(s)) \cup {Head(s)}
  <2>1. CASE i = 1
    BY <1>1, <2>1
  <2>2. CASE i # 1
    <3>1. i - 1 \in 1..(Len(s) - 1) /\ Tail(s)[i - 1] = s[i]
      BY <1>1, <2>2
    <3> QED
      BY <1>1, <3>1
  <2> QED
    BY <2>1, <2>2
<1>3. ASSUME NEW j \in 1..(Len(s) - 1)
      PROVE  Tail(s)[j] \in Members(s)
  BY <1>1
<1>4. Head(s) \in Members(s)
  BY <1>1
<1> QED
  BY <1>1, <1>2, <1>3, <1>4

(***************************************************************************)
(* The parts of a concatenation.                                           *)
(***************************************************************************)
LEMMA ConcatSet ==
  ASSUME NEW s \in Seq(Nat), NEW t \in Seq(Nat)
  PROVE  Members(s \o t) = Members(s) \cup Members(t)
<1>1. /\ s \o t \in Seq(Nat) /\ Len(s \o t) = Len(s) + Len(t)
      /\ \A i \in 1..(Len(s) + Len(t)) : (s \o t)[i] = IF i <= Len(s) THEN s[i] ELSE t[i - Len(s)]
  BY ConcatProperties
<1>2. DOMAIN s = 1..Len(s) /\ DOMAIN t = 1..Len(t) /\ DOMAIN (s \o t) = 1..(Len(s) + Len(t))
  BY <1>1
<1>3. Len(s) \in Nat /\ Len(t) \in Nat
  OBVIOUS
<1>4. ASSUME NEW i \in 1..(Len(s) + Len(t))
      PROVE  (s \o t)[i] \in Members(s) \cup Members(t)
  <2>1. CASE i <= Len(s)
    <3>1. i \in DOMAIN s /\ (s \o t)[i] = s[i]
      BY <1>1, <1>2, <1>3, <2>1
    <3> QED
      BY <3>1 DEF Members
  <2>2. CASE ~(i <= Len(s))
    <3>1. i - Len(s) \in 1..Len(t)
      BY <1>3, <2>2
    <3> QED
      BY <1>1, <1>2, <2>2, <3>1 DEF Members
  <2> QED
    BY <2>1, <2>2
<1>5. ASSUME NEW i \in 1..Len(s)
      PROVE  s[i] \in Members(s \o t)
  <2>1. i \in 1..(Len(s) + Len(t)) /\ (s \o t)[i] = s[i]
    BY <1>1, <1>3
  <2> QED
    BY <1>2, <2>1 DEF Members
<1>6. ASSUME NEW i \in 1..Len(t)
      PROVE  t[i] \in Members(s \o t)
  <2>1. i + Len(s) \in 1..(Len(s) + Len(t)) /\ ~(i + Len(s) <= Len(s)) /\ (i + Len(s)) - Len(s) = i
    BY <1>3
  <2>2. (s \o t)[i + Len(s)] = t[i]
    BY <1>1, <2>1
  <2> QED
    BY <1>2, <2>1, <2>2 DEF Members
<1>7. Members(s \o t) = {(s \o t)[i] : i \in 1..(Len(s) + Len(t))}
  BY <1>2 DEF Members
<1>8. Members(s) = {s[i] : i \in 1..Len(s)} /\ Members(t) = {t[i] : i \in 1..Len(t)}
  BY <1>2 DEF Members
<1> QED
  BY <1>4, <1>5, <1>6, <1>7, <1>8

(***************************************************************************)
(* A concatenation is increasing when both parts are and one is below the  *)
(* other.                                                                  *)
(***************************************************************************)
LEMMA IncreasingConcat ==
  ASSUME NEW s \in Seq(Nat), NEW t \in Seq(Nat), Increasing(s), Increasing(t), Below(s, t)
  PROVE  Increasing(s \o t)
<1>1. /\ Len(s \o t) = Len(s) + Len(t)
      /\ \A i \in 1..(Len(s) + Len(t)) : (s \o t)[i] = IF i <= Len(s) THEN s[i] ELSE t[i - Len(s)]
  BY ConcatProperties
<1>2. Len(s) \in Nat /\ Len(t) \in Nat
  OBVIOUS
<1>3. ASSUME NEW i \in 1..(Len(s) + Len(t)), NEW j \in 1..(Len(s) + Len(t)), i < j
      PROVE  (s \o t)[i] < (s \o t)[j]
  <2>1. CASE j <= Len(s)
    BY <1>1, <1>2, <1>3, <2>1 DEF Increasing
  <2>2. CASE i <= Len(s) /\ ~(j <= Len(s))
    <3>1. i \in 1..Len(s) /\ j - Len(s) \in 1..Len(t)
      BY <1>2, <2>2
    <3> QED
      BY <1>1, <2>2, <3>1 DEF Below
  <2>3. CASE ~(i <= Len(s))
    <3>1. /\ i - Len(s) \in 1..Len(t) /\ j - Len(s) \in 1..Len(t) /\ i - Len(s) < j - Len(s)
          /\ ~(j <= Len(s))
      BY <1>2, <1>3, <2>3
    <3> QED
      BY <1>1, <2>3, <3>1 DEF Increasing
  <2> QED
    BY <2>1, <2>2, <2>3
<1> QED
  BY <1>1, <1>3 DEF Increasing

(***************************************************************************)
(* One sequence is below another when its members are.                     *)
(***************************************************************************)
LEMMA BelowMembers ==
  ASSUME NEW s \in Seq(Nat), NEW t \in Seq(Nat)
  PROVE  Below(s, t) <=> \A m \in Members(s), n \in Members(t) : m < n
<1>1. DOMAIN s = 1..Len(s) /\ DOMAIN t = 1..Len(t)
  OBVIOUS
<1>2. Members(s) = {s[i] : i \in 1..Len(s)} /\ Members(t) = {t[i] : i \in 1..Len(t)}
  BY <1>1 DEF Members
<1>3. ASSUME Below(s, t), NEW m \in Members(s), NEW n \in Members(t)
      PROVE  m < n
  BY <1>2, <1>3 DEF Below
<1>4. ASSUME \A m \in Members(s), n \in Members(t) : m < n
      PROVE  Below(s, t)
  BY <1>2, <1>4 DEF Below
<1> QED
  BY <1>3, <1>4

-----------------------------------------------------------------------------
(* Members of a set in order. *)

\* s has the members of S in order.
Orders(s, S) == Increasing(s) /\ Members(s) = S /\ Len(s) = Cardinality(S)

LEMMA OrderNone == Orders(<<>>, {}) /\ <<>> \in Seq(Nat)
<1>1. Cardinality({}) = 0
  BY FS_EmptySet
<1> QED
  BY <1>1 DEF Orders, Increasing, Members

LEMMA OrderOneMore ==
  ASSUME NEW S \in SUBSET Nat, IsFiniteSet(S), NEW s \in Seq(Nat), Orders(s, S),
         NEW n \in Nat, \A i \in S : i < n
  PROVE  Orders(Append(s, n), S \cup {n}) /\ Append(s, n) \in Seq(Nat)
<1>1. \A i \in 1..Len(s) : s[i] \in S
  BY DEF Orders, Members
<1>2. Increasing(Append(s, n))
  BY <1>1, IncreasingAppend DEF Orders
<1>3. Members(Append(s, n)) = S \cup {n}
  BY AppendSet DEF Orders
<1>4. Cardinality(S \cup {n}) = Cardinality(S) + 1
  <2>1. n \notin S
    OBVIOUS
  <2> QED
    BY <2>1, FS_AddElement
<1>5. Len(Append(s, n)) = Len(s) + 1
  OBVIOUS
<1> QED
  BY <1>2, <1>3, <1>4, <1>5 DEF Orders

(***************************************************************************)
(* Every bounded set of numbers has its members in order.                  *)
(***************************************************************************)
LEMMA OrderExists ==
  ASSUME NEW S \in SUBSET Nat
  PROVE  \A n \in Nat : \E s \in Seq(Nat) : Orders(s, S \cap 0..n)
<1> DEFINE Good == {n \in Nat : \E s \in Seq(Nat) : Orders(s, S \cap 0..n)}
<1>1. 0 \in Good
  <2>1. CASE 0 \in S
    <3>1. S \cap 0..0 = {} \cup {0}
      BY <2>1
    <3>2. {} \in SUBSET Nat /\ IsFiniteSet({})
      BY FS_EmptySet
    <3>3. Orders(Append(<<>>, 0), {} \cup {0}) /\ Append(<<>>, 0) \in Seq(Nat)
      BY <3>2, OrderNone, OrderOneMore
    <3> QED
      BY <3>1, <3>3
  <2>2. CASE 0 \notin S
    <3>1. S \cap 0..0 = {}
      BY <2>2
    <3> QED
      BY <3>1, OrderNone
  <2> QED
    BY <2>1, <2>2
<1>2. ASSUME NEW n \in Good
      PROVE  n + 1 \in Good
  <2>1. n \in Nat
    OBVIOUS
  <2>2. PICK s \in Seq(Nat) : Orders(s, S \cap 0..n)
    OBVIOUS
  <2>3. CASE n + 1 \in S
    <3>1. S \cap 0..(n + 1) = (S \cap 0..n) \cup {n + 1}
      BY <2>1, <2>3
    <3>2. IsFiniteSet(0..n)
      BY <2>1, FS_Interval
    <3>3. IsFiniteSet(S \cap 0..n)
      BY <3>2, FS_Intersection
    <3>4. S \cap 0..n \in SUBSET Nat /\ \A i \in S \cap 0..n : i < n + 1
      BY <2>1
    <3>5. Orders(Append(s, n + 1), (S \cap 0..n) \cup {n + 1}) /\ Append(s, n + 1) \in Seq(Nat)
      BY <2>1, <2>2, <3>3, <3>4, OrderOneMore
    <3> QED
      BY <2>1, <3>1, <3>5
  <2>4. CASE n + 1 \notin S
    <3>1. S \cap 0..(n + 1) = S \cap 0..n
      BY <2>1, <2>4
    <3>2. Orders(s, S \cap 0..(n + 1))
      BY <2>2, <3>1, Zenon
    <3> QED
      BY <2>1, <3>2
  <2> QED
    BY <2>3, <2>4
<1>3. Good = Nat
  <2> HIDE DEF Good
  <2>1. Good \in SUBSET Nat
    BY DEF Good
  <2> QED
    BY <1>1, <1>2, <2>1, SetInduction
<1> QED
  BY <1>3

(***************************************************************************)
(* What InOrder chooses.                                                   *)
(***************************************************************************)
LEMMA InOrderIs ==
  ASSUME NEW S \in SUBSET Nat, NEW n \in Nat, \A i \in S : i <= n
  PROVE  InOrder(S) \in Seq(Nat) /\ Increasing(InOrder(S)) /\ Members(InOrder(S)) = S
<1>1. S \cap 0..n = S
  <2>1. \A i \in S : i \in 0..n
    OBVIOUS
  <2> QED
    BY <2>1, Zenon
<1>2. PICK s \in Seq(Nat) : Orders(s, S)
  BY <1>1, OrderExists
<1>3. Len(s) \in Nat /\ DOMAIN s = 1..Len(s) /\ s \in [1..Len(s) -> Nat]
  OBVIOUS
<1>4. \A i \in 1..Len(s) : s[i] \in S
  BY <1>2, <1>3 DEF Orders, Members
<1>5. s \in [1..Cardinality(S) -> S] /\ Increasing(s) /\ Members(s) = S
  BY <1>2, <1>3, <1>4 DEF Orders
<1>6. /\ InOrder(S) \in [1..Cardinality(S) -> S]
      /\ Increasing(InOrder(S)) /\ Members(InOrder(S)) = S
  BY <1>5 DEF InOrder
<1>7. Cardinality(S) \in Nat
  BY <1>2, <1>3 DEF Orders
<1>8. InOrder(S) \in [1..Cardinality(S) -> Nat]
  BY <1>6
<1> QED
  BY <1>6, <1>7, <1>8, SeqDef
=============================================================================
