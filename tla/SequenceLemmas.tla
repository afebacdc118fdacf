--------------------------- MODULE SequenceLemmas ---------------------------
(***************************************************************************)
(* A queue of this system is a sequence without repetitions, and most of   *)
(* what matters about one is the set of items linked in it.  These lemmas  *)
(* say what each operation on a queue does to that set, and when the       *)
(* result is free of repetitions.  The last ones are about loops that run  *)
(* a number of turns (module Loops): the states after each turn exist, and *)
(* what holds of 0 and is kept by a turn holds of all.                     *)
(***************************************************************************)
EXTENDS Integers, SequencesExt, SequenceTheorems, FiniteSetTheorems,
        WellFoundedInduction, TLAPS

(* A sequence is known by its length and elements.                         *)
LEMMA InSeq ==
  ASSUME NEW S, NEW s \in Seq(S)
  PROVE  /\ Len(s) \in Nat /\ DOMAIN s = 1..Len(s)
         /\ \A i \in 1..Len(s) : s[i] \in S
         /\ ToSet(s) = {s[i] : i \in 1..Len(s)}
         /\ ToSet(s) \subseteq S
<1>1. Len(s) \in Nat /\ DOMAIN s = 1..Len(s)
  BY LenProperties
<1>2. \A i \in 1..Len(s) : s[i] \in S
  BY ElementOfSeq
<1> QED
  BY <1>1, <1>2 DEF ToSet

LEMMA SeqOfItsSet ==
  ASSUME NEW S, NEW s \in Seq(S), NEW T, ToSet(s) \subseteq T
  PROVE  s \in Seq(T)
<1>1. /\ Len(s) \in Nat
      /\ s \in [1..Len(s) -> S]
      /\ \A i \in 1..Len(s) : s[i] \in T
  BY LenProperties, InSeq
<1>2. s \in [1..Len(s) -> T]
  BY <1>1
<1> QED
  BY <1>1, <1>2, SeqDef

LEMMA EmptyQueue ==
  /\ ToSet(<<>>) = {}
  /\ IsInjective(<<>>)
  /\ \A S : <<>> \in Seq(S)
  /\ \A S : \A s \in Seq(S) : ToSet(s) = {} <=> s = <<>>
<1>1. Len(<<>>) = 0 /\ \A S : <<>> \in Seq(S)
  BY EmptySeq
<1>2. ToSet(<<>>) = {}
  BY DEF ToSet
<1>3. IsInjective(<<>>)
  BY DEF IsInjective
<1>4. ASSUME NEW S, NEW s \in Seq(S), s # <<>>
      PROVE  ToSet(s) # {}
  <2>1. Len(s) \in Nat \ {0}
    BY <1>4, EmptySeq
  <2>2. s[1] \in ToSet(s)
    BY <2>1, InSeq
  <2> QED
    BY <2>2
<1> QED
  BY <1>1, <1>2, <1>3, <1>4

LEMMA OneInQueue ==
  ASSUME NEW x
  PROVE  /\ ToSet(<<x>>) = {x} /\ IsInjective(<<x>>)
         /\ \A S : x \in S => <<x>> \in Seq(S)
  BY DEF ToSet, IsInjective

LEMMA ConcatQueue ==
  ASSUME NEW S, NEW s \in Seq(S), NEW t \in Seq(S)
  PROVE  /\ s \o t \in Seq(S)
         /\ ToSet(s \o t) = ToSet(s) \cup ToSet(t)
         /\ IsInjective(s \o t) <=> /\ IsInjective(s) /\ IsInjective(t)
                                    /\ ToSet(s) \cap ToSet(t) = {}
<1> DEFINE m == Len(s)
           n == Len(t)
           u == s \o t
<1>1. /\ m \in Nat /\ DOMAIN s = 1..m /\ ToSet(s) = {s[i] : i \in 1..m}
      /\ n \in Nat /\ DOMAIN t = 1..n /\ ToSet(t) = {t[i] : i \in 1..n}
  BY InSeq
<1>2. /\ u \in Seq(S) /\ Len(u) = m + n
      /\ \A i \in 1..(m + n) : u[i] = IF i <= m THEN s[i] ELSE t[i - m]
  BY ConcatProperties
<1>3. DOMAIN u = 1..(m + n) /\ ToSet(u) = {u[i] : i \in 1..(m + n)}
  BY <1>2, InSeq
<1> HIDE DEF m, n, u
<1>4. \A i \in 1..m : i \in 1..(m + n) /\ u[i] = s[i]
  BY <1>1, <1>2
<1>5. \A j \in 1..n : m + j \in 1..(m + n) /\ u[m + j] = t[j]
  <2> SUFFICES ASSUME NEW j \in 1..n
               PROVE  m + j \in 1..(m + n) /\ u[m + j] = t[j]
    OBVIOUS
  <2>1. m + j \in 1..(m + n) /\ ~(m + j <= m) /\ (m + j) - m = j
    BY <1>1
  <2> QED
    BY <2>1, <1>2
<1>6. \A i \in 1..(m + n) : (i \in 1..m) \/ (i - m \in 1..n /\ i = m + (i - m))
  BY <1>1
<1>7. ToSet(u) = ToSet(s) \cup ToSet(t)
  <2>1. ASSUME NEW x \in ToSet(u)
        PROVE  x \in ToSet(s) \cup ToSet(t)
    <3>1. PICK i \in 1..(m + n) : x = u[i]
      BY <1>3
    <3>2. CASE i \in 1..m
      BY <3>1, <3>2, <1>1, <1>4
    <3>3. CASE i - m \in 1..n /\ i = m + (i - m)
      <4>1. x = t[i - m]
        BY <3>1, <3>3, <1>5
      <4> QED
        BY <4>1, <3>3, <1>1
    <3> QED
      BY <3>2, <3>3, <1>6
  <2>2. ToSet(s) \subseteq ToSet(u)
    BY <1>1, <1>3, <1>4
  <2>3. ToSet(t) \subseteq ToSet(u)
    BY <1>1, <1>3, <1>5
  <2> QED
    BY <2>1, <2>2, <2>3
<1>8. ASSUME IsInjective(u)
      PROVE  IsInjective(s) /\ IsInjective(t) /\ ToSet(s) \cap ToSet(t) = {}
  <2>1. IsInjective(s)
    BY <1>8, <1>1, <1>3, <1>4 DEF IsInjective
  <2>2. ASSUME NEW i \in 1..n, NEW j \in 1..n, t[i] = t[j]
        PROVE  i = j
    <3>1. m + i = m + j
      BY <2>2, <1>8, <1>3, <1>5 DEF IsInjective
    <3> QED
      BY <3>1, <1>1
  <2>3. IsInjective(t)
    BY <2>2, <1>1 DEF IsInjective
  <2>4. ASSUME NEW i \in 1..m, NEW j \in 1..n
        PROVE  s[i] # t[j]
    <3>1. i # m + j
      BY <1>1
    <3> QED
      BY <3>1, <1>8, <1>3, <1>4, <1>5 DEF IsInjective
  <2> QED
    BY <2>1, <2>3, <2>4, <1>1
<1>9. ASSUME IsInjective(s), IsInjective(t), ToSet(s) \cap ToSet(t) = {}
      PROVE  IsInjective(u)
  <2> SUFFICES ASSUME NEW i \in 1..(m + n), NEW j \in 1..(m + n), u[i] = u[j]
               PROVE  i = j
    BY <1>3 DEF IsInjective
  <2>1. CASE i \in 1..m /\ j \in 1..m
    BY <2>1, <1>9, <1>1, <1>4 DEF IsInjective
  <2>2. CASE i - m \in 1..n /\ i = m + (i - m) /\ j - m \in 1..n /\ j = m + (j - m)
    <3>1. t[i - m] = t[j - m]
      BY <2>2, <1>5
    <3>2. i - m = j - m
      BY <3>1, <2>2, <1>9, <1>1 DEF IsInjective
    <3> QED
      BY <3>2, <2>2
  <2>3. CASE i \in 1..m /\ j - m \in 1..n /\ j = m + (j - m)
    <3>1. s[i] = t[j - m]
      BY <2>3, <1>4, <1>5
    <3> QED
      BY <3>1, <2>3, <1>9, <1>1
  <2>4. CASE j \in 1..m /\ i - m \in 1..n /\ i = m + (i - m)
    <3>1. s[j] = t[i - m]
      BY <2>4, <1>4, <1>5
    <3> QED
      BY <3>1, <2>4, <1>9, <1>1
  <2> QED
    BY <2>1, <2>2, <2>3, <2>4, <1>6
<1> QED
  BY <1>2, <1>7, <1>8, <1>9 DEF u

LEMMA AppendQueue ==
  ASSUME NEW S, NEW s \in Seq(S), NEW x \in S
  PROVE  /\ Append(s, x) \in Seq(S) /\ Append(s, x) # <<>>
         /\ ToSet(Append(s, x)) = ToSet(s) \cup {x}
         /\ IsInjective(Append(s, x)) <=> IsInjective(s) /\ x \notin ToSet(s)
<1>1. Append(s, x) \in Seq(S) /\ Append(s, x) # <<>>
  BY AppendProperties
<1>2. Append(s, x) = s \o <<x>>
  BY AppendIsConcat
<1> DEFINE t == <<x>>
<1>3. t \in Seq(S) /\ ToSet(t) = {x} /\ IsInjective(t)
  BY OneInQueue
<1> HIDE DEF t
<1>4. /\ ToSet(s \o t) = ToSet(s) \cup {x}
      /\ IsInjective(s \o t) <=> IsInjective(s) /\ x \notin ToSet(s)
  BY <1>3, ConcatQueue
<1> QED
  BY <1>1, <1>2, <1>4 DEF t

(* What an operation that takes the item at position i out of s leaves.    *)
LEMMA RemoveFromQueue ==
  ASSUME NEW S, NEW s \in Seq(S), NEW i \in 1..Len(s)
  PROVE  /\ RemoveAt(s, i) \in Seq(S)
         /\ IsInjective(s) => /\ IsInjective(RemoveAt(s, i))
                             /\ ToSet(RemoveAt(s, i)) = ToSet(s) \ {s[i]}
<1> DEFINE n == Len(s)
           p == SubSeq(s, 1, i - 1)
           q == SubSeq(s, i + 1, n)
<1>1. /\ n \in Nat /\ DOMAIN s = 1..n /\ ToSet(s) = {s[j] : j \in 1..n}
      /\ \A j \in 1..n : s[j] \in S
      /\ i \in 1..n
  BY InSeq
<1>2. /\ p \in Seq(S) /\ Len(p) = i - 1
      /\ \A j \in 1..(i - 1) : p[j] = s[j]
  BY <1>1, SubSeqProperties
<1>3. /\ q \in Seq(S) /\ Len(q) = n - i
      /\ \A j \in 1..(n - i) : q[j] = s[j + i]
  <2> HIDE DEF n
  <2>1. /\ i + 1 \in Int /\ n \in Int
        /\ \A j \in (i + 1)..n : j \in 1..n
        /\ n - (i + 1) + 1 = n - i /\ (n - i = 0 <=> i + 1 > n)
    BY <1>1
  <2>2. /\ q \in Seq(S)
        /\ Len(q) = IF i + 1 <= n THEN n - (i + 1) + 1 ELSE 0
        /\ \A j \in 1..(n - (i + 1) + 1) : q[j] = s[(i + 1) + j - 1]
    <3>1. \A j \in (i + 1)..n : s[j] \in S
      BY <2>1, <1>1
    <3> QED
      BY <2>1, <3>1, SubSeqProperties
  <2> HIDE DEF q
  <2>3. \A j \in 1..(n - i) : (i + 1) + j - 1 = j + i
    BY <1>1
  <2>4. Len(q) = n - i
    BY <1>1, <2>1, <2>2
  <2> QED
    BY <2>1, <2>2, <2>3, <2>4
<1>4. RemoveAt(s, i) = p \o q
  BY DEF RemoveAt
<1> HIDE DEF p, q
<1>5. ToSet(p) = {s[j] : j \in 1..(i - 1)} /\ DOMAIN p = 1..(i - 1)
  BY <1>2, InSeq
<1>6. ToSet(q) = {s[j + i] : j \in 1..(n - i)} /\ DOMAIN q = 1..(n - i)
  <2>1. DOMAIN q = 1..(n - i) /\ ToSet(q) = {q[j] : j \in 1..(n - i)}
    BY <1>3, InSeq
  <2> QED
    BY <1>3, <2>1
<1> HIDE DEF n
<1>7. ASSUME IsInjective(s)
      PROVE  IsInjective(p) /\ IsInjective(q) /\ ToSet(p) \cap ToSet(q) = {}
  <2>1. \A j, k \in 1..n : s[j] = s[k] => j = k
    BY <1>1, <1>7 DEF IsInjective
  <2>2. \A j \in 1..(i - 1) : j \in 1..n /\ j < i
    BY <1>1
  <2>3. \A j \in 1..(n - i) : j + i \in 1..n /\ j + i > i
    BY <1>1
  <2>4. IsInjective(p)
    BY <1>2, <1>5, <2>1, <2>2 DEF IsInjective
  <2>5. ASSUME NEW j \in 1..(n - i), NEW k \in 1..(n - i), q[j] = q[k]
        PROVE  j = k
    <3>1. j + i = k + i
      BY <1>3, <2>1, <2>3, <2>5
    <3> QED
      BY <3>1, <1>1
  <2>6. ASSUME NEW j \in 1..(i - 1), NEW k \in 1..(n - i)
        PROVE  s[j] # s[k + i]
    <3>1. j # k + i
      BY <2>2, <2>3
    <3> QED
      BY <3>1, <2>1, <2>2, <2>3
  <2> QED
    BY <2>4, <2>5, <2>6, <1>5, <1>6 DEF IsInjective
<1>8. ASSUME IsInjective(s)
      PROVE  ToSet(p) \cup ToSet(q) = ToSet(s) \ {s[i]}
  <2>1. \A j, k \in 1..n : s[j] = s[k] => j = k
    BY <1>1, <1>8 DEF IsInjective
  <2>2. ASSUME NEW x \in ToSet(p) PROVE x \in ToSet(s) \ {s[i]}
    <3>1. PICK j \in 1..(i - 1) : x = s[j]
      BY <1>5, <2>2
    <3>2. j \in 1..n /\ j # i
      BY <1>1
    <3> QED
      BY <3>1, <3>2, <2>1, <1>1
  <2>3. ASSUME NEW x \in ToSet(q) PROVE x \in ToSet(s) \ {s[i]}
    <3>1. PICK j \in 1..(n - i) : x = s[j + i]
      BY <1>6, <2>3
    <3>2. j + i \in 1..n /\ j + i # i
      BY <1>1
    <3> QED
      BY <3>1, <3>2, <2>1, <1>1
  <2>4. ASSUME NEW x \in ToSet(s) \ {s[i]} PROVE x \in ToSet(p) \cup ToSet(q)
    <3>1. PICK j \in 1..n : x = s[j] /\ j # i
      BY <1>1, <2>4
    <3>2. CASE j < i
      BY <3>1, <3>2, <1>5
    <3>3. CASE j > i
      <4>1. j - i \in 1..(n - i) /\ (j - i) + i = j
        BY <3>1, <3>3, <1>1
      <4> QED
        BY <4>1, <3>1, <1>6
    <3> QED
      BY <3>1, <3>2, <3>3
  <2> QED
    BY <2>2, <2>3, <2>4
<1> QED
  BY <1>2, <1>3, <1>4, <1>7, <1>8, ConcatQueue

LEMMA HeadTailQueue ==
  ASSUME NEW S, NEW s \in Seq(S), s # <<>>
  PROVE  /\ Head(s) \in ToSet(s) /\ Tail(s) \in Seq(S)
         /\ IsInjective(s) => /\ IsInjective(Tail(s))
                             /\ ToSet(Tail(s)) = ToSet(s) \ {Head(s)}
<1>1. Len(s) \in Nat \ {0} /\ 1 \in 1..Len(s)
  BY EmptySeq
<1>2. Head(s) = s[1] /\ s[1] \in ToSet(s)
  BY <1>1, InSeq
<1>3. Tail(s) = SubSeq(s, 2, Len(s)) /\ Tail(s) \in Seq(S)
  BY TailIsSubSeq, HeadTailProperties
<1>4. SubSeq(s, 1, 0) = <<>>
  BY SubSeqEmpty
<1>5. RemoveAt(s, 1) = Tail(s)
  BY <1>3, <1>4, ConcatEmptySeq DEF RemoveAt
<1> QED
  BY <1>1, <1>2, <1>3, <1>5, RemoveFromQueue

LEMMA FrontLastQueue ==
  ASSUME NEW S, NEW s \in Seq(S), s # <<>>
  PROVE  /\ Last(s) \in ToSet(s) /\ Front(s) \in Seq(S)
         /\ IsInjective(s) => /\ IsInjective(Front(s))
                             /\ ToSet(Front(s)) = ToSet(s) \ {Last(s)}
<1> DEFINE n == Len(s)
<1>1. n \in Nat \ {0} /\ n \in 1..n
  BY EmptySeq
<1>2. Last(s) = s[n] /\ s[n] \in ToSet(s)
  BY <1>1, InSeq DEF Last
<1>3. Front(s) = SubSeq(s, 1, n - 1) /\ Front(s) \in Seq(S)
  <2>1. \A i \in 1..(n - 1) : s[i] \in S
    BY <1>1, InSeq
  <2> QED
    BY <1>1, <2>1, SubSeqProperties DEF Front
<1>4. SubSeq(s, n + 1, n) = <<>>
  BY <1>1, SubSeqEmpty
<1>5. RemoveAt(s, n) = Front(s)
  BY <1>3, <1>4, ConcatEmptySeq DEF RemoveAt
<1> QED
  BY <1>1, <1>2, <1>3, <1>5, RemoveFromQueue

(* A queue without repetitions is as long as it has items.                 *)
LEMMA QueueLength ==
  ASSUME NEW S, NEW s \in Seq(S), IsInjective(s)
  PROVE  IsFiniteSet(ToSet(s)) /\ Cardinality(ToSet(s)) = Len(s)
<1>1. /\ Len(s) \in Nat /\ s \in [1..Len(s) -> ToSet(s)]
      /\ DOMAIN s = 1..Len(s) /\ ToSet(s) = {s[i] : i \in 1..Len(s)}
  BY LenProperties, InSeq
<1>2. s \in Injection(1..Len(s), ToSet(s))
  BY <1>1 DEF Injection
<1>3. s \in Surjection(1..Len(s), ToSet(s))
  BY <1>1 DEF Surjection
<1>4. ExistsBijection(1..Len(s), ToSet(s))
  BY <1>2, <1>3 DEF ExistsBijection, Bijection
<1> QED
  BY <1>1, <1>4, FS_NatBijection, FS_CountingElements

-----------------------------------------------------------------------------
(* Induction, for a set of numbers.                                        *)
LEMMA NatInSet ==
  ASSUME NEW S, 0 \in S, \A n \in Nat : n \in S => n + 1 \in S
  PROVE  Nat \subseteq S
<1> SUFFICES ASSUME Nat \ S # {}
             PROVE  FALSE
  OBVIOUS
<1>1. PICK x \in Nat \ S : \A y \in Nat \ S : <<y, x>> \notin OpToRel(<, Nat)
  <2>1. IsWellFoundedOn(OpToRel(<, Nat), Nat)
    BY NatLessThanWellFounded
  <2> QED
    BY <2>1, WFMin
<1>2. x # 0 /\ x \in Nat
  OBVIOUS
<1>3. x - 1 \in Nat /\ x - 1 < x
  BY <1>2
<1>4. <<x - 1, x>> \in OpToRel(<, Nat)
  BY <1>2, <1>3 DEF OpToRel
<1>5. x - 1 \in S
  BY <1>1, <1>3, <1>4
<1>6. (x - 1) + 1 = x
  BY <1>2
<1> QED
  BY <1>3, <1>5, <1>6

(* What a loop passes through exists.                                      *)
CanRun(X, s, turn, n) ==
  \E g \in [0..n -> X] : g[0] = s /\ \A k \in 1..n : g[k] = turn[g[k - 1]]

LEMMA LoopRuns == \A X : \A s \in X, turn \in [X -> X], n \in Nat : CanRun(X, s, turn, n)
<1> SUFFICES ASSUME NEW X, NEW s \in X, NEW turn \in [X -> X], NEW n \in Nat
             PROVE  \E g \in [0..n -> X] : g[0] = s /\ \A k \in 1..n : g[k] = turn[g[k - 1]]
  BY DEF CanRun
<1> DEFINE Run(m, g) == g[0] = s /\ \A k \in 1..m : g[k] = turn[g[k - 1]]
           S == {m \in Nat : \E g \in [0..m -> X] : Run(m, g)}
<1>1. 0 \in S
  <2>1. [i \in 0..0 |-> s] \in [0..0 -> X] /\ Run(0, [i \in 0..0 |-> s])
    OBVIOUS
  <2> QED
    BY <2>1
<1>2. ASSUME NEW m \in Nat, m \in S
      PROVE  m + 1 \in S
  <2>1. PICK g \in [0..m -> X] : Run(m, g)
    BY <1>2
  <2> DEFINE f == [i \in 0..(m + 1) |-> IF i <= m THEN g[i] ELSE turn[g[m]]]
  <2>2. f \in [0..(m + 1) -> X]
    OBVIOUS
  <2>3. f[0] = s
    BY <2>1
  <2>4. ASSUME NEW k \in 1..(m + 1)
        PROVE  f[k] = turn[f[k - 1]]
    <3>1. CASE k <= m
      <4>1. k \in 1..m /\ k \in 0..(m + 1) /\ k - 1 \in 0..(m + 1) /\ k - 1 <= m
        BY <3>1
      <4>2. f[k] = g[k] /\ f[k - 1] = g[k - 1]
        BY <4>1
      <4> QED
        BY <4>1, <4>2, <2>1
    <3>2. CASE k = m + 1
      BY <3>2
    <3> QED
      BY <3>1, <3>2
  <2> HIDE DEF f
  <2>5. Run(m + 1, f)
    BY <2>3, <2>4
  <2> QED
    BY <2>2, <2>5
<1> HIDE DEF S
<1>3. n \in S
  BY <1>1, <1>2, NatInSet
<1> QED
  BY <1>3 DEF S
=============================================================================
