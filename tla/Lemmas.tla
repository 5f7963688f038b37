--------------------------------- MODULE Lemmas ------------------------------
(***************************************************************************)
(* What the proofs about several modules share: induction and definition   *)
(* by recursion over the natural numbers, stated with sets and functions,  *)
(* for what the code computes in a loop; what operations on a list do to   *)
(* its elements; prefixes of sequences, and the match of a key with the    *)
(* prefix cache.                                                           *)
(***************************************************************************)
EXTENDS Integers, SequencesExt, Selection, PrefixTree,
        SequenceTheorems, FiniteSetTheorems, WellFoundedInduction, TLAPS

(* A set that has 0 and the successor of each of its numbers has them all. *)
LEMMA SetInduction ==
    ASSUME NEW S, 0 \in S, \A n \in Nat : n \in S => n + 1 \in S
    PROVE  Nat \subseteq S
<1> DEFINE T == {n \in Nat : n \notin S}
<1>1. SUFFICES ASSUME T # {} PROVE FALSE
  OBVIOUS
<1>2. PICK x \in T : \A y \in T : ~(<<y, x>> \in OpToRel(<, Nat))
  <2>1. T \subseteq Nat
    OBVIOUS
  <2> HIDE DEF T
  <2> QED BY <1>1, <2>1, NatLessThanWellFounded, WFMin, Zenon
<1>3. \A y \in T : ~(y < x)
  BY <1>2 DEF OpToRel
<1>4. x \in Nat /\ x # 0
  OBVIOUS
<1>5. x - 1 \in Nat /\ x - 1 < x /\ x - 1 + 1 = x
  BY <1>4
<1>6. x - 1 \in S
  BY <1>3, <1>5
<1> QED
  BY <1>5, <1>6

(* The values of a variable over n turns of a loop: turn gives the next     *)
(* one from the number of the turn and the current value.                   *)
IsRun(f, T, base, n, turn) ==
    /\ f \in [0 .. n -> T]
    /\ f[0] = base
    /\ \A i \in 1 .. n : f[i] = turn[<<i, f[i - 1]>>]

(* A loop of n turns that keeps a variable in T has a run. *)
LEMMA LoopRuns ==
    ASSUME NEW T, NEW base \in T, NEW n \in Nat, NEW turn \in [(1 .. n) \X T -> T]
    PROVE  \E f : IsRun(f, T, base, n, turn)
<1> DEFINE Run(k, f) == f[0] = base /\ \A i \in 1 .. k : f[i] = turn[<<i, f[i - 1]>>]
           S == {k \in Nat : k <= n => \E f \in [0 .. k -> T] : Run(k, f)}
<1>1. 0 \in S
  <2>1. Run(0, [i \in 0 .. 0 |-> base])
    OBVIOUS
  <2> QED BY <2>1
<1>2. ASSUME NEW k \in Nat, k \in S
      PROVE  k + 1 \in S
  <2>1. SUFFICES ASSUME k + 1 <= n
                 PROVE  \E f \in [0 .. k + 1 -> T] : Run(k + 1, f)
    OBVIOUS
  <2>2. PICK f \in [0 .. k -> T] : Run(k, f)
    BY <1>2, <2>1
  <2> DEFINE g == [i \in 0 .. k + 1 |-> IF i = k + 1 THEN turn[<<k + 1, f[k]>>] ELSE f[i]]
  <2>3. turn[<<k + 1, f[k]>>] \in T
    <3>1. k + 1 \in 1 .. n /\ f[k] \in T
      BY <2>1
    <3> QED BY <3>1
  <2>4. g \in [0 .. k + 1 -> T]
    BY <2>3
  <2>5. \A i \in 0 .. k : g[i] = f[i]
    OBVIOUS
  <2>6. g[k + 1] = turn[<<k + 1, g[k]>>]
    <3>1. k \in 0 .. k /\ k + 1 \in 0 .. k + 1 /\ g[k] = f[k]
      BY <2>5
    <3> QED BY <3>1
  <2>7. ASSUME NEW i \in 1 .. k + 1
        PROVE  g[i] = turn[<<i, g[i - 1]>>]
    <3>1. CASE i = k + 1
      BY <2>6, <3>1
    <3>2. CASE i # k + 1
      <4>1. i \in 1 .. k /\ i \in 0 .. k /\ i - 1 \in 0 .. k
        BY <3>2
      <4> QED BY <2>2, <2>5, <4>1
    <3> QED BY <3>1, <3>2
  <2>8. Run(k + 1, g)
    <3>1. g[0] = f[0] /\ f[0] = base
      BY <2>2, <2>5
    <3> QED BY <2>7, <3>1
  <2> QED BY <2>4, <2>8
<1>3. n \in S
  <2> HIDE DEF S
  <2> QED BY <1>1, <1>2, SetInduction
<1> QED
  BY <1>3 DEF IsRun

(* What a filter over a list returns: the elements of s that are in S, each *)
(* as often as s has it.                                                    *)
IsKept(k, T, s, S) ==
    /\ k \in Seq(T)
    /\ ToSet(k) = ToSet(s) \cap S
    /\ IsInjective(s) => IsInjective(k)

LEMMA KeptIs ==
    ASSUME NEW T, NEW s \in Seq(T), NEW S
    PROVE  IsKept(Kept(s, S), T, s, S)
<1> DEFINE n == Len(s)
           Keep(q, a) == IF a \in S THEN Append(q, a) ELSE q
           turn == [p \in (1 .. n) \X Seq(T) |-> Keep(p[2], s[p[1]])]
           Body(f) == [i \in 0 .. n |-> IF i = 0 THEN <<>> ELSE Keep(f[i - 1], s[i])]
           kept == CHOOSE f : f = Body(f)
<1>1. n \in Nat /\ DOMAIN s = 1 .. n /\ \A i \in 1 .. n : s[i] \in T
  OBVIOUS
<1>2. \A a \in T, q \in Seq(T) : Keep(q, a) \in Seq(T)
  OBVIOUS
<1>3. Kept(s, S) = kept[n]
  BY DEF Kept
<1>4. <<>> \in Seq(T)
  OBVIOUS
<1> HIDE DEF Keep
<1>5. turn \in [(1 .. n) \X Seq(T) -> Seq(T)]
  BY <1>1, <1>2
<1>6. PICK f : IsRun(f, Seq(T), <<>>, n, turn)
  <2> HIDE DEF n, turn
  <2> QED BY <1>1, <1>4, <1>5, LoopRuns, Zenon
<1>7. f \in [0 .. n -> Seq(T)] /\ f[0] = <<>>
  BY <1>6 DEF IsRun
<1>8. ASSUME NEW i \in 1 .. n
      PROVE  i - 1 \in 0 .. n /\ f[i] = Keep(f[i - 1], s[i])
  <2>1. i - 1 \in 0 .. n
    BY <1>1
  <2>2. f[i - 1] \in Seq(T)
    BY <1>7, <2>1
  <2>3. f[i] = turn[<<i, f[i - 1]>>]
    BY <1>6 DEF IsRun
  <2>4. turn[<<i, f[i - 1]>>] = Keep(f[i - 1], s[i])
    BY <2>2
  <2> QED BY <2>1, <2>3, <2>4
<1>9. f = Body(f)
  <2> HIDE DEF turn
  <2>1. f = [i \in 0 .. n |-> f[i]]
    BY <1>7
  <2>2. \A i \in 0 .. n : f[i] = Body(f)[i]
    <3>1. ASSUME NEW i \in 0 .. n, i # 0 PROVE i \in 1 .. n
      BY <1>1, <3>1
    <3> QED BY <1>7, <1>8, <3>1
  <2> QED BY <2>1, <2>2
<1>10. kept = Body(kept)
  BY <1>9
<1>11. kept[0] = <<>> /\ \A i \in 1 .. n : kept[i] = Keep(kept[i - 1], s[i])
  <2>1. 0 \in 0 .. n /\ \A i \in 1 .. n : i \in 0 .. n /\ i # 0
    BY <1>1
  <2>2. \A i \in 0 .. n : kept[i] = IF i = 0 THEN <<>> ELSE Keep(kept[i - 1], s[i])
    <3> HIDE DEF kept, n
    <3> QED BY <1>10
  <2> HIDE DEF kept, n
  <2> QED BY <2>1, <2>2
<1> HIDE DEF kept, turn, Body
<1> DEFINE Upto(i) == {s[j] : j \in 1 .. i}
           Good(i) == /\ kept[i] \in Seq(T)
                      /\ ToSet(kept[i]) = Upto(i) \cap S
                      /\ IsInjective(s) => IsInjective(kept[i])
           I == {i \in Nat : i <= n => Good(i)}
<1>12. 0 \in I
  <2>1. ToSet(<<>>) = {} /\ IsInjective(<<>>) /\ Upto(0) = {}
    BY DEF ToSet, IsInjective
  <2> QED BY <1>4, <1>11, <2>1
<1>13. ASSUME NEW i \in Nat, i \in I
      PROVE  i + 1 \in I
  <2>1. SUFFICES ASSUME i + 1 <= n PROVE Good(i + 1)
    OBVIOUS
  <2>2. Good(i) /\ i + 1 \in 1 .. n /\ i + 1 - 1 = i
    BY <1>1, <1>13, <2>1
  <2> DEFINE k == kept[i]
             a == s[i + 1]
  <2>3. kept[i + 1] = IF a \in S THEN Append(k, a) ELSE k
    BY <1>11, <2>2 DEF Keep
  <2>4. Upto(i + 1) = Upto(i) \cup {a}
    BY <2>2
  <2>5. a \in T
    BY <1>1, <2>2
  <2>6. CASE a \notin S
    BY <2>2, <2>3, <2>4, <2>6
  <2>7. CASE a \in S
    <3>1. k \in Seq(T) /\ kept[i + 1] = Append(k, a) /\ Append(k, a) \in Seq(T)
      BY <2>2, <2>3, <2>5, <2>7
    <3>2. ToSet(Append(k, a)) = ToSet(k) \cup {a}
      <4> HIDE DEF k, a
      <4>1. /\ DOMAIN k = 1 .. Len(k) /\ Len(k) \in Nat
            /\ DOMAIN Append(k, a) = 1 .. Len(k) + 1
            /\ \A j \in 1 .. Len(k) : Append(k, a)[j] = k[j]
            /\ Append(k, a)[Len(k) + 1] = a
        BY <3>1
      <4> QED BY <4>1 DEF ToSet
    <3>3. ASSUME IsInjective(s) PROVE IsInjective(Append(k, a))
      <4>1. a \notin Upto(i)
        BY <1>1, <2>2, <3>3 DEF IsInjective
      <4>2. a \notin ToSet(k) /\ IsInjective(k)
        BY <2>2, <3>3, <4>1
      <4> HIDE DEF k, a
      <4>3. /\ DOMAIN k = 1 .. Len(k) /\ Len(k) \in Nat
            /\ DOMAIN Append(k, a) = 1 .. Len(k) + 1
            /\ \A j \in 1 .. Len(k) : Append(k, a)[j] = k[j]
            /\ Append(k, a)[Len(k) + 1] = a
        BY <3>1
      <4> QED BY <4>2, <4>3 DEF IsInjective, ToSet
    <3> QED BY <2>2, <2>4, <2>7, <3>1, <3>2, <3>3
  <2> QED BY <2>6, <2>7
<1>14. n \in I
  <2> HIDE DEF I
  <2> QED BY <1>1, <1>12, <1>13, SetInduction
<1>15. Upto(n) = ToSet(s)
  BY <1>1 DEF ToSet
<1> QED
  BY <1>1, <1>3, <1>14, <1>15 DEF IsKept
-----------------------------------------------------------------------------
(* What the operations on a list do to its elements, and that they keep a  *)
(* list without repetitions so.                                            *)

LEMMA AppendIs ==
    ASSUME NEW T, NEW s \in Seq(T), NEW a \in T
    PROVE  /\ Append(s, a) \in Seq(T)
           /\ ToSet(Append(s, a)) = ToSet(s) \cup {a}
           /\ IsInjective(s) /\ a \notin ToSet(s) => IsInjective(Append(s, a))
<1>1. Append(s, a) \in Seq(T)
  OBVIOUS
<1>2. /\ DOMAIN s = 1 .. Len(s) /\ Len(s) \in Nat
      /\ DOMAIN Append(s, a) = 1 .. Len(s) + 1
      /\ \A j \in 1 .. Len(s) : Append(s, a)[j] = s[j]
      /\ Append(s, a)[Len(s) + 1] = a
  OBVIOUS
<1>3. ToSet(Append(s, a)) = ToSet(s) \cup {a}
  BY <1>2 DEF ToSet
<1>4. IsInjective(s) /\ a \notin ToSet(s) => IsInjective(Append(s, a))
  BY <1>2 DEF ToSet, IsInjective
<1> QED BY <1>1, <1>3, <1>4

LEMMA ConcatIs ==
    ASSUME NEW T, NEW s \in Seq(T), NEW t \in Seq(T)
    PROVE  /\ s \o t \in Seq(T)
           /\ ToSet(s \o t) = ToSet(s) \cup ToSet(t)
           /\ IsInjective(s) /\ IsInjective(t) /\ ToSet(s) \cap ToSet(t) = {}
                => IsInjective(s \o t)
<1> DEFINE u == s \o t
           m == Len(s)
           n == Len(t)
<1>1. s \o t \in Seq(T)
  OBVIOUS
<1>2. /\ DOMAIN s = 1 .. m /\ m \in Nat /\ DOMAIN t = 1 .. n /\ n \in Nat
      /\ DOMAIN u = 1 .. m + n
      /\ \A j \in 1 .. m : u[j] = s[j]
      /\ \A j \in 1 .. m + n : j > m => u[j] = t[j - m]
  OBVIOUS
<1> HIDE DEF u, m, n
<1>3. \A j \in DOMAIN u : j \in 1 .. m \/ (j - m \in 1 .. n /\ j > m)
  BY <1>2
<1>4. ToSet(u) = ToSet(s) \cup ToSet(t)
  <2>1. ToSet(u) \subseteq ToSet(s) \cup ToSet(t)
    BY <1>2, <1>3 DEF ToSet
  <2>2. \A j \in 1 .. m : j \in 1 .. m + n
    BY <1>2
  <2>3. ToSet(s) \subseteq ToSet(u)
    BY <1>2, <2>2 DEF ToSet
  <2>4. \A j \in 1 .. n : j + m \in 1 .. m + n /\ j + m > m /\ j + m - m = j
    BY <1>2
  <2>5. ToSet(t) \subseteq ToSet(u)
    <3> SUFFICES ASSUME NEW j \in 1 .. n PROVE t[j] \in ToSet(u)
      BY <1>2 DEF ToSet
    <3>1. u[j + m] = t[j] /\ j + m \in DOMAIN u
      BY <1>2, <2>4
    <3> QED BY <3>1 DEF ToSet
  <2> QED BY <2>1, <2>3, <2>5
<1>5. ASSUME IsInjective(s), IsInjective(t), ToSet(s) \cap ToSet(t) = {}
      PROVE  IsInjective(u)
  <2>1. SUFFICES ASSUME NEW i \in DOMAIN u, NEW j \in DOMAIN u, u[i] = u[j]
                 PROVE  i = j
    BY DEF IsInjective
  <2>2. \A a \in 1 .. m, b \in 1 .. n : s[a] # t[b]
    BY <1>2, <1>5 DEF ToSet
  <2>3. CASE i \in 1 .. m /\ j \in 1 .. m
    BY <1>2, <1>5, <2>1, <2>3 DEF IsInjective
  <2>4. CASE i - m \in 1 .. n /\ i > m /\ j - m \in 1 .. n /\ j > m
    <3>1. t[i - m] = t[j - m]
      BY <1>2, <2>1, <2>4
    <3>2. i - m = j - m
      BY <1>2, <1>5, <2>4, <3>1 DEF IsInjective
    <3> QED BY <1>2, <3>2
  <2>5. CASE i \in 1 .. m /\ j - m \in 1 .. n /\ j > m
    BY <1>2, <2>1, <2>2, <2>5
  <2>6. CASE j \in 1 .. m /\ i - m \in 1 .. n /\ i > m
    BY <1>2, <2>1, <2>2, <2>6
  <2> QED BY <1>3, <2>3, <2>4, <2>5, <2>6
<1> QED BY <1>1, <1>4, <1>5 DEF u

(* A list cut in two. *)
LEMMA SplitIs ==
    ASSUME NEW T, NEW s \in Seq(T), NEW n \in 0 .. Len(s)
    PROVE  /\ SubSeq(s, 1, n) \in Seq(T) /\ Len(SubSeq(s, 1, n)) = n
           /\ \A i \in 1 .. n : SubSeq(s, 1, n)[i] = s[i]
           /\ SubSeq(s, n + 1, Len(s)) \in Seq(T)
           /\ ToSet(s) = ToSet(SubSeq(s, 1, n)) \cup ToSet(SubSeq(s, n + 1, Len(s)))
           /\ ToSet(SubSeq(s, 1, n)) = {s[i] : i \in 1 .. n}
           /\ IsInjective(s) =>
                 /\ IsInjective(SubSeq(s, 1, n))
                 /\ IsInjective(SubSeq(s, n + 1, Len(s)))
                 /\ ToSet(SubSeq(s, 1, n)) \cap ToSet(SubSeq(s, n + 1, Len(s))) = {}
<1> DEFINE m == Len(s)
           a == SubSeq(s, 1, n)
           b == SubSeq(s, n + 1, m)
<1>1. n \in Nat /\ m \in Nat /\ n <= m /\ DOMAIN s = 1 .. m
  OBVIOUS
<1>2. a \in Seq(T) /\ b \in Seq(T) /\ Len(a) = n
  BY <1>1
<1>3. /\ DOMAIN a = 1 .. n
      /\ \A i \in 1 .. n : a[i] = s[i]
      /\ DOMAIN b = 1 .. m - n
      /\ \A i \in 1 .. m - n : b[i] = s[n + i]
  BY <1>1
<1> HIDE DEF a, b, m
<1>4. /\ \A i \in 1 .. n : i \in 1 .. m
      /\ \A i \in 1 .. m - n : n + i \in 1 .. m /\ n + i > n
      /\ \A i \in 1 .. m : i \in 1 .. n \/ (i - n \in 1 .. m - n /\ n + (i - n) = i)
  BY <1>1
<1>5. ToSet(s) = ToSet(a) \cup ToSet(b)
  <2>1. ToSet(s) \subseteq ToSet(a) \cup ToSet(b)
    <3> SUFFICES ASSUME NEW i \in 1 .. m PROVE s[i] \in ToSet(a) \cup ToSet(b)
      BY <1>1 DEF ToSet
    <3>1. CASE i \in 1 .. n
      BY <1>3, <3>1 DEF ToSet
    <3>2. CASE i - n \in 1 .. m - n /\ n + (i - n) = i
      BY <1>3, <3>2 DEF ToSet
    <3> QED BY <1>4, <3>1, <3>2
  <2>2. ToSet(a) \subseteq ToSet(s)
    BY <1>1, <1>3, <1>4 DEF ToSet
  <2>3. ToSet(b) \subseteq ToSet(s)
    <3> SUFFICES ASSUME NEW i \in 1 .. m - n PROVE b[i] \in ToSet(s)
      BY <1>3 DEF ToSet
    <3>1. b[i] = s[n + i] /\ n + i \in DOMAIN s
      BY <1>1, <1>3, <1>4
    <3> QED BY <3>1 DEF ToSet
  <2> QED BY <2>1, <2>2, <2>3
<1>6. ToSet(a) = {s[i] : i \in 1 .. n}
  BY <1>3 DEF ToSet
<1>7. ASSUME IsInjective(s)
      PROVE  IsInjective(a) /\ IsInjective(b) /\ ToSet(a) \cap ToSet(b) = {}
  <2>1. IsInjective(a)
    BY <1>1, <1>3, <1>4, <1>7 DEF IsInjective
  <2>2. IsInjective(b)
    <3> SUFFICES ASSUME NEW i \in 1 .. m - n, NEW j \in 1 .. m - n, b[i] = b[j]
                 PROVE  i = j
      BY <1>3 DEF IsInjective
    <3>1. s[n + i] = s[n + j]
      BY <1>3
    <3>2. n + i = n + j
      BY <1>1, <1>4, <1>7, <3>1 DEF IsInjective
    <3> QED BY <1>1, <3>2
  <2>3. \A i \in 1 .. n, j \in 1 .. m - n : a[i] # b[j]
    <3> SUFFICES ASSUME NEW i \in 1 .. n, NEW j \in 1 .. m - n, a[i] = b[j]
                 PROVE  FALSE
      OBVIOUS
    <3>1. s[i] = s[n + j]
      BY <1>3
    <3>2. i = n + j
      BY <1>1, <1>4, <1>7, <3>1 DEF IsInjective
    <3> QED BY <1>1, <3>2
  <2> QED BY <1>3, <2>1, <2>2, <2>3 DEF ToSet
<1> QED BY <1>2, <1>3, <1>5, <1>6, <1>7 DEF a, b, m

(* What Python's pop takes from the end of a list, and what it leaves. *)
LEMMA PopIs ==
    ASSUME NEW T, NEW s \in Seq(T), s # <<>>
    PROVE  /\ Last(s) \in ToSet(s) /\ Front(s) \in Seq(T)
           /\ ToSet(s) = ToSet(Front(s)) \cup {Last(s)}
           /\ IsInjective(s) => IsInjective(Front(s)) /\ Last(s) \notin ToSet(Front(s))
<1> DEFINE m == Len(s)
           f == Front(s)
<1>1. m \in Nat /\ m > 0 /\ DOMAIN s = 1 .. m
  <2>1. m \in Nat /\ DOMAIN s = 1 .. m
    OBVIOUS
  <2>2. m # 0
    OBVIOUS
  <2> QED BY <2>1, <2>2
<1>2. f \in Seq(T) /\ DOMAIN f = 1 .. m - 1 /\ \A i \in 1 .. m - 1 : f[i] = s[i]
  BY <1>1 DEF Front
<1>3. Last(s) = s[m]
  BY DEF Last
<1> HIDE DEF m
<1>4. /\ m \in 1 .. m
      /\ \A i \in 1 .. m - 1 : i \in 1 .. m /\ i # m
      /\ \A i \in 1 .. m : i = m \/ i \in 1 .. m - 1
  BY <1>1
<1> HIDE DEF f
<1>5. ToSet(s) = ToSet(f) \cup {s[m]} /\ s[m] \in ToSet(s)
  BY <1>1, <1>2, <1>4 DEF ToSet
<1>6. IsInjective(s) => IsInjective(f) /\ s[m] \notin ToSet(f)
  BY <1>1, <1>2, <1>4 DEF ToSet, IsInjective
<1> QED BY <1>2, <1>3, <1>5, <1>6 DEF f
-----------------------------------------------------------------------------
(* A prefix of k is determined by its length. *)
LEMMA PrefixShape ==
    ASSUME NEW B, NEW k \in Seq(B), NEW p \in PrefixesOf(k)
    PROVE  /\ p \in Seq(B)
           /\ Len(p) \in 1 .. Len(k)
           /\ p = SubSeq(k, 1, Len(p))
<1>1. PICK n \in 1 .. Len(k) : p = SubSeq(k, 1, n)
  BY DEF PrefixesOf
<1>2. \A i \in 1 .. n : k[i] \in B
  BY <1>1, ElementOfSeq
<1>3. p \in Seq(B) /\ Len(p) = n
  BY <1>1, <1>2, SubSeqProperties
<1> QED
  BY <1>1, <1>3

(* Prefixes are transitive: the prefixes of a prefix are prefixes. *)
LEMMA PrefixTransitive ==
    ASSUME NEW B, NEW k \in Seq(B), NEW p \in PrefixesOf(k)
    PROVE  PrefixesOf(p) \subseteq PrefixesOf(k)
<1> SUFFICES ASSUME NEW q \in PrefixesOf(p)
             PROVE  q \in PrefixesOf(k)
  OBVIOUS
<1>1. /\ p \in Seq(B) /\ Len(p) \in 1 .. Len(k) /\ p = SubSeq(k, 1, Len(p))
      /\ Len(q) \in 1 .. Len(p) /\ q = SubSeq(p, 1, Len(q))
  BY PrefixShape
<1>2. Len(k) \in Nat
  BY LenProperties
<1>3. SubSeq(SubSeq(k, 1, Len(p)), 1, Len(q)) = SubSeq(k, 1, Len(q))
  <2>1. /\ Len(p) \in 1 .. Len(k) /\ 1 \in 1 .. Len(k)
        /\ Len(q) \in 1 .. Len(p) - 1 + 1 /\ 1 \in 1 .. Len(p) - 1 + 1
    BY <1>1, <1>2
  <2> DEFINE i == 1  j == Len(p)  m == 1  n == Len(q)
  <2>2. SubSeq(SubSeq(k, i, j), m, n) = SubSeq(k, i + m - 1, i + n - 1)
    <3> HIDE DEF i, j, m, n
    <3>1. i \in 1 .. Len(k) /\ j \in 1 .. Len(k) /\ m \in 1 .. j - i + 1 /\ n \in 1 .. j - i + 1
      BY <2>1 DEF i, j, m, n
    <3> QED BY <3>1, SubSeqOfSubSeq
  <2>3. 1 + 1 - 1 = 1 /\ 1 + Len(q) - 1 = Len(q)
    BY <1>1, <1>2
  <2> QED
    BY <2>2, <2>3
<1>4. Len(q) \in 1 .. Len(k)
  BY <1>1, <1>2
<1> QED
  BY <1>1, <1>3, <1>4 DEF PrefixesOf

(* A block sequence has finitely many prefixes. *)
LEMMA PrefixesFinite ==
    ASSUME NEW B, NEW k \in Seq(B)
    PROVE  IsFiniteSet(PrefixesOf(k))
<1> DEFINE f == [n \in 1 .. Len(k) |-> SubSeq(k, 1, n)]
<1>1. f \in Surjection(1 .. Len(k), PrefixesOf(k))
  BY DEF Surjection, PrefixesOf
<1>2. IsFiniteSet(1 .. Len(k))
  BY FS_Interval, LenProperties
<1> QED
  BY <1>1, <1>2, FS_Surjection

(* Cardinalities of a disjoint union and of a difference with a subset. *)
LEMMA DisjointUnion ==
    ASSUME NEW S, NEW T, IsFiniteSet(S), IsFiniteSet(T), S \cap T = {}
    PROVE  Cardinality(S \cup T) = Cardinality(S) + Cardinality(T)
<1>1. Cardinality(S \cup T) = Cardinality(S) + Cardinality(T) - Cardinality(S \cap T)
  BY FS_Union
<1>2. Cardinality(S \cap T) = 0
  BY FS_EmptySet
<1>3. Cardinality(S) \in Nat /\ Cardinality(T) \in Nat
  BY FS_CardinalityType
<1> QED
  BY <1>1, <1>2, <1>3

LEMMA SubsetDifference ==
    ASSUME NEW S, NEW T, IsFiniteSet(S), T \subseteq S
    PROVE  Cardinality(S \ T) = Cardinality(S) - Cardinality(T)
<1>1. S \cap T = T
  OBVIOUS
<1> QED
  BY <1>1, FS_Difference

(* The match of a key exists, and everything it matches is cached: the walk *)
(* down the tree stops at the first block that has no child.               *)
LEMMA MatchIs ==
    ASSUME NEW f, NEW ids, Len(ids) \in Nat
    PROVE  /\ MatchLen(f, ids) \in 0 .. Len(ids)
           /\ MatchesUpTo(f, ids, MatchLen(f, ids))
<1> DEFINE n == Len(ids)
           In(m) == SubSeq(ids, 1, m) \in DOMAIN f
           S == {m \in Nat : m <= n => \A i \in 1 .. m : In(i)}
<1>1. SUFFICES \E m \in 0 .. n : MatchesUpTo(f, ids, m)
  BY DEF MatchLen
<1> HIDE DEF In
<1>2. CASE \A i \in 1 .. n : In(i)
  <2>1. n \in 0 .. n /\ ~(n < n)
    OBVIOUS
  <2>2. MatchesUpTo(f, ids, n)
    BY <1>2, <2>1 DEF MatchesUpTo, In
  <2> QED BY <2>1, <2>2
<1>3. CASE ~ \A i \in 1 .. n : In(i)
  <2>1. 0 \in S
    OBVIOUS
  <2>2. ~(Nat \subseteq S)
    BY <1>3
  <2>3. PICK m \in Nat : m \in S /\ m + 1 \notin S
    <3> HIDE DEF S
    <3> QED BY <2>1, <2>2, SetInduction
  <2>4. m + 1 <= n
    BY <2>3
  <2>5. m \in 0 .. n /\ m < n /\ \A i \in 1 .. m : In(i)
    BY <2>3, <2>4
  <2>6. ~In(m + 1)
    <3>1. \A i \in 1 .. m + 1 : i = m + 1 \/ i \in 1 .. m
      BY <2>5
    <3> QED BY <2>3, <2>4, <2>5, <3>1
  <2>7. MatchesUpTo(f, ids, m)
    BY <2>5, <2>6 DEF MatchesUpTo, In
  <2> QED BY <2>5, <2>7
<1> QED BY <1>2, <1>3

(* So the prefixes of a matched key are cached. *)
LEMMA MatchedIsCached ==
    ASSUME NEW f, NEW B, NEW ids \in Seq(B)
    PROVE  PrefixesOf(SubSeq(ids, 1, MatchLen(f, ids))) \subseteq DOMAIN f
<1> DEFINE m == MatchLen(f, ids)
           k == SubSeq(ids, 1, m)
<1>1. Len(ids) \in Nat
  OBVIOUS
<1>2. m \in 0 .. Len(ids) /\ MatchesUpTo(f, ids, m)
  BY <1>1, MatchIs
<1> HIDE DEF m
<1>3. k \in Seq(B) /\ Len(k) = m
  BY <1>1, <1>2
<1>4. SUFFICES ASSUME NEW n \in 1 .. Len(k)
               PROVE  SubSeq(k, 1, n) \in DOMAIN f
  BY DEF PrefixesOf, m
<1>5. n \in 1 .. m /\ m \in 1 .. Len(ids) /\ m \in Nat /\ n \in Nat
  BY <1>1, <1>2, <1>3
<1>6. SubSeq(k, 1, n) = SubSeq(ids, 1, n)
  <2>1. k \in PrefixesOf(ids)
    BY <1>5 DEF PrefixesOf
  <2>2. SubSeq(k, 1, n) \in PrefixesOf(k)
    BY <1>3, <1>5 DEF PrefixesOf
  <2>3. SubSeq(k, 1, n) \in PrefixesOf(ids)
    BY <2>1, <2>2, PrefixTransitive
  <2>4. Len(SubSeq(k, 1, n)) = n
    BY <1>3, <1>5
  <2>5. SubSeq(k, 1, n) = SubSeq(ids, 1, Len(SubSeq(k, 1, n)))
    BY <2>3, PrefixShape
  <2> QED BY <2>4, <2>5
<1> QED BY <1>2, <1>5, <1>6 DEF MatchesUpTo
-----------------------------------------------------------------------------
(* Locks.  The live requests L with their Request objects q hold locks on  *)
(* the prefix cache c with the reference counts r.                          *)

HeldBy(L, q, k) == {u \in L : k \in PrefixesOf(q[u].handle)}

Held(L, q, c, r) ==
    /\ IsFiniteSet(L) /\ DOMAIN r = DOMAIN c
    /\ \A u \in L : PrefixesOf(q[u].handle) \subseteq DOMAIN r
    /\ \A k \in DOMAIN r : r[k] = Cardinality(HeldBy(L, q, k))

LEMMA HeldNat ==
    ASSUME NEW L, NEW q, NEW k, IsFiniteSet(L)
    PROVE  IsFiniteSet(HeldBy(L, q, k)) /\ Cardinality(HeldBy(L, q, k)) \in Nat
<1>1. HeldBy(L, q, k) \in SUBSET L
  BY DEF HeldBy
<1>2. IsFiniteSet(HeldBy(L, q, k))
  BY <1>1, FS_Subset
<1> QED BY <1>2, FS_CardinalityType

(* Counters and rows do not matter, only the handles do. *)
LEMMA SameHandles ==
    ASSUME NEW L, NEW q, NEW p, NEW c, NEW r, Held(L, q, c, r),
           \A u \in L : p[u].handle = q[u].handle
    PROVE  Held(L, p, c, r)
<1>1. \A k : HeldBy(L, p, k) = HeldBy(L, q, k)
  BY DEF HeldBy
<1> QED BY <1>1 DEF Held

(* What is inserted is not locked by anyone. *)
LEMMA InsertHeld ==
    ASSUME NEW L, NEW q, NEW c, NEW r, Held(L, q, c, r), NEW key, NEW pages
    PROVE  /\ Held(L, q, InsertPages(c, key, pages), InsertRefs(c, r, key))
           /\ PrefixesOf(key) \subseteq DOMAIN InsertRefs(c, r, key)
<1> DEFINE d == InsertPages(c, key, pages)
           s == InsertRefs(c, r, key)
<1>1. /\ DOMAIN s = DOMAIN d /\ DOMAIN s = DOMAIN c \cup PrefixesOf(key)
      /\ \A k \in DOMAIN s : s[k] = IF k \in DOMAIN c THEN r[k] ELSE 0
  BY DEF InsertPages, InsertRefs
<1> HIDE DEF d, s
<1>2. \A k \in DOMAIN s : k \notin DOMAIN r => HeldBy(L, q, k) = {}
  BY DEF Held, HeldBy
<1>3. \A k \in DOMAIN s : s[k] = Cardinality(HeldBy(L, q, k))
  BY <1>1, <1>2, FS_EmptySet DEF Held
<1> QED BY <1>1, <1>3 DEF Held, d, s

LEMMA UnlockHeld ==
    ASSUME NEW L, NEW q, NEW c, NEW r, Held(L, q, c, r), NEW u \in L
    PROVE  /\ Held(L \ {u}, q, c, UnlockRefs(r, q[u].handle))
           /\ DOMAIN UnlockRefs(r, q[u].handle) = DOMAIN r
<1> DEFINE s == UnlockRefs(r, q[u].handle)
<1>1. /\ DOMAIN s = DOMAIN r
      /\ \A k \in DOMAIN r : s[k] = IF k \in PrefixesOf(q[u].handle) THEN r[k] - 1 ELSE r[k]
  BY DEF UnlockRefs
<1> HIDE DEF s
<1>2. IsFiniteSet(L) /\ IsFiniteSet(L \ {u})
  BY FS_RemoveElement DEF Held
<1>3. ASSUME NEW k \in DOMAIN r PROVE s[k] = Cardinality(HeldBy(L \ {u}, q, k))
  <2>1. r[k] = Cardinality(HeldBy(L, q, k)) /\ IsFiniteSet(HeldBy(L, q, k))
    BY <1>2, HeldNat DEF Held
  <2>2. CASE k \in PrefixesOf(q[u].handle)
    <3>1. u \in HeldBy(L, q, k) /\ HeldBy(L \ {u}, q, k) = HeldBy(L, q, k) \ {u}
      BY <2>2 DEF HeldBy
    <3>2. Cardinality(HeldBy(L \ {u}, q, k)) = Cardinality(HeldBy(L, q, k)) - 1
      BY <2>1, <3>1, FS_RemoveElement
    <3> QED BY <1>1, <2>1, <2>2, <3>2
  <2>3. CASE k \notin PrefixesOf(q[u].handle)
    <3>1. HeldBy(L \ {u}, q, k) = HeldBy(L, q, k)
      BY <2>3 DEF HeldBy
    <3> QED BY <1>1, <2>1, <2>3, <3>1
  <2> QED BY <2>2, <2>3
<1> QED BY <1>1, <1>2, <1>3 DEF Held, s

LEMMA LockHeld ==
    ASSUME NEW L, NEW q, NEW c, NEW r, Held(L, q, c, r),
           NEW u, u \notin L, NEW p, NEW key, p[u].handle = key,
           \A v \in L : p[v].handle = q[v].handle,
           PrefixesOf(key) \subseteq DOMAIN r
    PROVE  Held(L \cup {u}, p, c, LockRefs(r, key))
<1> DEFINE s == LockRefs(r, key)
<1>1. /\ DOMAIN s = DOMAIN r
      /\ \A k \in DOMAIN r : s[k] = IF k \in PrefixesOf(key) THEN r[k] + 1 ELSE r[k]
  BY DEF LockRefs
<1> HIDE DEF s
<1>2. IsFiniteSet(L) /\ IsFiniteSet(L \cup {u})
  BY FS_AddElement DEF Held
<1>3. ASSUME NEW k \in DOMAIN r PROVE s[k] = Cardinality(HeldBy(L \cup {u}, p, k))
  <2>1. r[k] = Cardinality(HeldBy(L, q, k)) /\ IsFiniteSet(HeldBy(L, q, k))
    BY <1>2, HeldNat DEF Held
  <2>2. CASE k \in PrefixesOf(key)
    <3>1. u \notin HeldBy(L, q, k) /\ HeldBy(L \cup {u}, p, k) = HeldBy(L, q, k) \cup {u}
      BY <2>2 DEF HeldBy
    <3>2. Cardinality(HeldBy(L \cup {u}, p, k)) = Cardinality(HeldBy(L, q, k)) + 1
      BY <2>1, <3>1, FS_AddElement
    <3> QED BY <1>1, <2>1, <2>2, <3>2
  <2>3. CASE k \notin PrefixesOf(key)
    <3>1. HeldBy(L \cup {u}, p, k) = HeldBy(L, q, k)
      BY <2>3 DEF HeldBy
    <3> QED BY <1>1, <2>1, <2>3, <3>1
  <2> QED BY <2>2, <2>3
<1>4. \A v \in L \cup {u} : PrefixesOf(p[v].handle) \subseteq DOMAIN s
  BY <1>1 DEF Held
<1> QED BY <1>1, <1>2, <1>3, <1>4 DEF Held, s

(* A prefix is inserted, and a holder's lock moves to it. *)
LEMMA RelockHeld ==
    ASSUME NEW L, NEW q, NEW c, NEW r, Held(L, q, c, r), NEW u \in L,
           NEW p, NEW key, p[u].handle = key, NEW pages,
           \A v \in L : v # u => p[v].handle = q[v].handle
    PROVE  Held(L, p, InsertPages(c, key, pages),
                LockRefs(UnlockRefs(InsertRefs(c, r, key), q[u].handle), key))
<1> DEFINE d == InsertPages(c, key, pages)
           s == InsertRefs(c, r, key)
           t == UnlockRefs(s, q[u].handle)
           M == L \ {u}
<1>1. Held(L, q, d, s) /\ PrefixesOf(key) \subseteq DOMAIN s
  BY InsertHeld
<1> HIDE DEF d, s
<1>2. Held(M, q, d, t) /\ DOMAIN t = DOMAIN s
  BY <1>1, UnlockHeld
<1>3. u \notin M /\ \A v \in M : p[v].handle = q[v].handle
  OBVIOUS
<1>4. PrefixesOf(key) \subseteq DOMAIN t
  BY <1>1, <1>2
<1>5. M \cup {u} = L
  OBVIOUS
<1> HIDE DEF t, M
<1>6. Held(M \cup {u}, p, d, LockRefs(t, key))
  BY <1>2, <1>3, <1>4, LockHeld
<1> QED BY <1>5, <1>6 DEF d, s, t

(* Only what nobody has locked is evicted. *)
LEMMA EvictHeld ==
    ASSUME NEW L, NEW q, NEW c, NEW r, Held(L, q, c, r), NEW S, S \subseteq Evictable(r)
    PROVE  Held(L, q, Without(c, S), Without(r, S))
<1> DEFINE d == Without(c, S)
           s == Without(r, S)
<1>1. /\ DOMAIN d = DOMAIN c \ S /\ DOMAIN s = DOMAIN r \ S
      /\ \A k \in DOMAIN s : s[k] = r[k]
  BY DEF Without
<1> HIDE DEF d, s
<1>2. ASSUME NEW u \in L, NEW k \in PrefixesOf(q[u].handle) PROVE k \notin S
  <2>1. k \in DOMAIN r /\ r[k] = Cardinality(HeldBy(L, q, k)) /\ IsFiniteSet(HeldBy(L, q, k))
    BY HeldNat DEF Held
  <2>2. HeldBy(L, q, k) # {}
    BY DEF HeldBy
  <2>3. r[k] # 0
    BY <2>1, <2>2, FS_EmptySet
  <2> QED BY <2>3 DEF Evictable
<1> QED BY <1>1, <1>2 DEF Held, d, s
=============================================================================
