------------------------- MODULE RequestStreamProofs --------------------------
(***************************************************************************)
(* Proofs about the streams of RequestPipeline: what the clients receive,  *)
(* for every number of clients and workers and all texts.                  *)
(***************************************************************************)
EXTENDS RequestPipelineProofs

(* Replies of rank 0, and what the detokenizer makes of them. *)
Message == [uid : Client, from : Nat, to : Nat, finished : BOOLEAN]

TokenReply ==
    {a \in Message : a.to <= OutLen[a.uid] /\ (a.finished => a.to = OutLen[a.uid])}

TextReply ==
    {a \in Message : /\ a.from >= 1
                     /\ a.finished => \A c \in a.to + 1 .. TextLen(a.uid) : HeldBack(a.uid, c)}
-----------------------------------------------------------------------------
(* What can be shown of a text. *)

(* A set of numbers with a bound has a largest one. *)
LEMMA LargestIs ==
    ASSUME NEW b \in Nat, NEW S \in SUBSET (0 .. b), S # {}
    PROVE  Max(S) \in S /\ \A x \in S : x <= Max(S)
<1> DEFINE Q == {n \in Nat : \A i \in 0 .. n : b - i \in S => \E y \in S : \A x \in S : x <= y}
<1>1. 0 \in Q
  BY SMTT(20)
<1>2. ASSUME NEW n \in Nat, n \in Q PROVE n + 1 \in Q
  <2> SUFFICES ASSUME NEW i \in 0 .. n + 1, b - i \in S
               PROVE  \E y \in S : \A x \in S : x <= y
    OBVIOUS
  <2>1. CASE \E j \in 0 .. n : b - j \in S
    BY <1>2, <2>1
  <2>2. CASE \A j \in 0 .. n : b - j \notin S
    <3>1. ASSUME NEW x \in S PROVE x <= b - i
      <4>1. x \in 0 .. b
        OBVIOUS
      <4>2. b - x \in Nat /\ b - (b - x) = x
        BY <4>1
      <4>3. ~(b - x \in 0 .. n)
        BY <2>2, <4>2
      <4>4. b - x > n
        BY <4>2, <4>3
      <4> QED BY <4>1, <4>4
    <3> QED BY <3>1
  <2> QED BY <2>1, <2>2
<1>3. Nat \subseteq Q
  <2> HIDE DEF Q
  <2> QED BY <1>1, <1>2, SetInduction
<1>4. PICK z \in S : TRUE
  OBVIOUS
<1>5. b - z \in Nat /\ b - (b - z) = z
  OBVIOUS
<1>6. b - z \in Q /\ b - z \in 0 .. b - z
  BY <1>3, <1>5
<1>7. \E y \in S : \A x \in S : x <= y
  BY <1>4, <1>5, <1>6
<1>8. \E y \in S : \A x \in S : y >= x
  BY <1>7
<1>9. Max(S) \in S /\ \A x \in S : Max(S) >= x
  BY <1>8, Zenon DEF Max
<1> QED
  BY <1>9

(* The characters of a text. *)
LEMMA TextIs ==
    ASSUME ClientsAssumption, TextAssumption, NEW u \in Client
    PROVE  /\ OutLen[u] \in Nat \ {0} /\ TextLen(u) \in Nat /\ Complete[u][0] = 0
           /\ \A n \in 0 .. OutLen[u] : Complete[u][n] \in Nat
           /\ \A m, n \in 0 .. OutLen[u] : m <= n => Complete[u][m] <= Complete[u][n]
<1>1. OutLen[u] \in Nat \ {0}
  BY DEF ClientsAssumption
<1>2. Complete[u] \in [0 .. OutLen[u] -> Nat] /\ Complete[u][0] = 0
  BY DEF TextAssumption
<1>3. \A m, n \in 0 .. OutLen[u] : m <= n => Complete[u][m] <= Complete[u][n]
  BY DEF TextAssumption
<1>4. TextLen(u) \in Nat
  BY <1>1, <1>2 DEF TextLen
<1> QED
  BY <1>1, <1>2, <1>3, <1>4

(* What can be shown lies between what was sent before and what is there,   *)
(* and what is not shown at the end is held back.                           *)
LEMMA ShownIs ==
    ASSUME ClientsAssumption, TextAssumption, NEW u \in Client,
           NEW n \in 0 .. OutLen[u], NEW e \in 0 .. n
    PROVE  /\ Shown(u, e, n) \in Nat
           /\ Complete[u][e] <= Shown(u, e, n) /\ Shown(u, e, n) <= Complete[u][n]
           /\ n \notin PartialAt[u] => Shown(u, e, n) = Complete[u][n]
           /\ n = OutLen[u] => \A c \in Shown(u, e, n) + 1 .. TextLen(u) : HeldBack(u, c)
<1> DEFINE first == Complete[u][e]
           end   == Complete[u][n]
           words == {c \in first + 1 .. end : Kind[u][c] = "space"}
           S     == {first} \cup words
<1>1. /\ first \in Nat /\ end \in Nat /\ first <= end
      /\ OutLen[u] \in Nat
  BY TextIs
<1>2. Shown(u, e, n) = IF n \notin PartialAt[u] \/ (end > first /\ Kind[u][end] = "cjk") THEN end
                       ELSE Max(S)
  BY DEF Shown
<1>3. TextLen(u) = Complete[u][OutLen[u]]
  BY DEF TextLen
<1>4. S \in SUBSET (0 .. end) /\ S # {} /\ first \in S
  <2> HIDE DEF first, end
  <2> QED BY <1>1
<1>5. Max(S) \in S /\ \A x \in S : x <= Max(S)
  <2> HIDE DEF S, end
  <2> QED BY <1>1, <1>4, LargestIs
<1>6. Max(S) \in Nat /\ first <= Max(S) /\ Max(S) <= end
  <2> HIDE DEF S, end, first
  <2>1. PICK x \in S : x = Max(S)
    BY <1>5
  <2>2. x \in 0 .. end /\ first <= x
    BY <1>4, <1>5, <2>1
  <2> QED BY <1>1, <2>1, <2>2
<1>7. ASSUME n = OutLen[u], NEW c \in Shown(u, e, n) + 1 .. TextLen(u)
      PROVE  HeldBack(u, c)
  <2>1. end = TextLen(u)
    BY <1>3, <1>7
  <2> HIDE DEF first, end
  <2>2. Shown(u, e, n) # end
    BY <1>1, <1>7, <2>1
  <2>3. n \in PartialAt[u] /\ ~(end > first /\ Kind[u][end] = "cjk") /\ Shown(u, e, n) = Max(S)
    BY <1>2, <2>2
  <2>4. c \in Nat /\ first < c /\ c <= end /\ Max(S) < c
    <3> HIDE DEF S
    <3> QED BY <1>1, <1>6, <1>7, <2>1, <2>3
  <2>5. Kind[u][end] # "cjk"
    BY <1>1, <2>3, <2>4
  <2>6. ASSUME NEW k \in c .. end PROVE Kind[u][k] # "space"
    <3>1. k \in first + 1 .. end /\ Max(S) < k
      <4> HIDE DEF S
      <4> QED BY <1>1, <1>6, <2>4
    <3>2. k \notin S
      <4> HIDE DEF S
      <4> QED BY <1>1, <1>5, <1>6, <3>1
    <3> QED BY <3>1, <3>2
  <2> QED BY <1>7, <2>1, <2>3, <2>5, <2>6 DEF HeldBack
<1> HIDE DEF first, end, S
<1>8. /\ Shown(u, e, n) \in Nat /\ first <= Shown(u, e, n) /\ Shown(u, e, n) <= end
      /\ n \notin PartialAt[u] => Shown(u, e, n) = end
  BY <1>1, <1>2, <1>6
<1> QED
  BY <1>7, <1>8 DEF first, end
-----------------------------------------------------------------------------
(* The detokenizer's account of a text: what it has sent of the part behind *)
(* end is what could be shown of that part at some time.                    *)
Status(u, s) ==
    /\ s.end \in Nat /\ s.decoded \in 0 .. OutLen[u] /\ s.end <= s.decoded /\ s.sent \in Nat
    /\ Complete[u][s.end] + s.sent <= Complete[u][s.decoded]
    /\ \/ s.sent = 0
       \/ \E m \in PartialAt[u] :
             s.end <= m /\ m <= s.decoded /\ Complete[u][s.end] + s.sent = Shown(u, s.end, m)

LEMMA StatusStart ==
    ASSUME ClientsAssumption, TextAssumption, NEW u \in Client
    PROVE  Status(u, [end |-> 0, decoded |-> 0, sent |-> 0])
<1>1. OutLen[u] \in Nat \ {0} /\ Complete[u][0] = 0
  BY TextIs
<1> QED
  BY <1>1 DEF Status

(* What two steps of the detokenizer show, when it never shrinks. *)
LEMMA ShownGrows ==
    ASSUME ClientsAssumption, TextAssumption, NEW u \in Client, RepeatFree(u), NEW s, Status(u, s),
           NEW n \in 0 .. OutLen[u], s.decoded <= n
    PROVE  Complete[u][s.end] + s.sent <= Shown(u, s.end, n)
<1>1. /\ s.end \in Nat /\ s.decoded \in 0 .. OutLen[u] /\ s.end <= s.decoded /\ s.sent \in Nat
      /\ OutLen[u] \in Nat
  BY TextIs DEF Status
<1>2. s.end \in 0 .. n
  BY <1>1
<1>3. CASE s.sent = 0
  <2>1. Complete[u][s.end] <= Shown(u, s.end, n)
    BY <1>2, ShownIs
  <2>2. Complete[u][s.end] \in Nat
    BY <1>1, TextIs
  <2> QED BY <1>3, <2>1, <2>2
<1>4. ASSUME NEW m \in PartialAt[u], s.end <= m, m <= s.decoded,
             Complete[u][s.end] + s.sent = Shown(u, s.end, m)
      PROVE  Complete[u][s.end] + s.sent <= Shown(u, s.end, n)
  <2>1. m \in 1 .. OutLen[u]
    BY DEF TextAssumption
  <2>2. s.end \in 0 .. m /\ n \in m .. OutLen[u]
    BY <1>1, <1>4, <2>1
  <2>3. Shown(u, s.end, m) <= Shown(u, s.end, n)
    BY <2>2 DEF RepeatFree
  <2> QED BY <1>4, <2>3
<1> QED
  BY <1>3, <1>4 DEF Status

(* One step of it, with a reply that continues what was decoded.            *)
LEMMA StatusStep ==
    ASSUME ClientsAssumption, TextAssumption, NEW m \in TokenReply, Status(m.uid, Before(m.uid)),
           m.from = Before(m.uid).decoded + 1, Before(m.uid).decoded <= m.to
    PROVE  LET u == m.uid
               s == Before(u)
               x == Complete[u][s.end] + s.sent
               y == Shown(u, s.end, m.to)
               t == After(m)
           IN  /\ x \in Nat /\ y \in 0 .. TextLen(u) /\ (RepeatFree(u) => x <= y)
               /\ Increment(m) = [uid |-> u, from |-> x + 1, to |-> y, finished |-> m.finished]
               /\ Increment(m) \in TextReply
               /\ Status(u, t) /\ t.decoded = m.to /\ Complete[u][t.end] + t.sent = y
<1>1. PICK u \in Client : u = m.uid
  BY DEF TokenReply, Message
<1>2. PICK s : s = Before(u)
  OBVIOUS
<1>3. PICK e, d, n : e = s.end /\ d = s.decoded /\ n = m.to
  OBVIOUS
<1>4. /\ e \in Nat /\ d \in 0 .. OutLen[u] /\ e <= d /\ s.sent \in Nat
      /\ n \in 0 .. OutLen[u] /\ d <= n /\ m.from = d + 1 /\ m.finished \in BOOLEAN
      /\ m.finished => n = OutLen[u]
      /\ OutLen[u] \in Nat
  BY <1>1, <1>2, <1>3, TextIs DEF Status, TokenReply, Message
<1>5. e \in 0 .. n
  BY <1>4
<1>6. Decoded(m) = n
  <2>1. Decoded(m) = d + n - (d + 1) + 1
    BY <1>1, <1>2, <1>3, <1>4 DEF Decoded
  <2> QED BY <1>4, <2>1
<1>7. PICK first, end, y : first = Complete[u][e] /\ end = Complete[u][n] /\ y = Shown(u, e, n)
  OBVIOUS
<1>8. /\ first \in Nat /\ end \in Nat /\ y \in Nat /\ first <= y /\ y <= end
      /\ n \notin PartialAt[u] => y = end
      /\ n = OutLen[u] => \A c \in y + 1 .. TextLen(u) : HeldBack(u, c)
  <2>1. first \in Nat /\ end \in Nat
    <3>1. e \in 0 .. OutLen[u]
      BY <1>4
    <3>2. \A i \in 0 .. OutLen[u] : Complete[u][i] \in Nat
      BY TextIs
    <3> QED BY <1>4, <1>7, <3>1, <3>2
  <2>2. /\ y \in Nat /\ first <= y /\ y <= end
        /\ n \notin PartialAt[u] => y = end
    <3>1. Shown(u, e, n) \in Nat
      BY <1>4, <1>5, ShownIs, Zenon
    <3>2. Complete[u][e] <= Shown(u, e, n) /\ Shown(u, e, n) <= Complete[u][n]
      BY <1>4, <1>5, ShownIs, Zenon
    <3>3. n \notin PartialAt[u] => Shown(u, e, n) = Complete[u][n]
      BY <1>4 DEF Shown
    <3> QED BY <1>7, <3>1, <3>2, <3>3, Zenon
  <2>3. n = OutLen[u] => \A c \in Shown(u, e, n) + 1 .. TextLen(u) : HeldBack(u, c)
    BY <1>4, <1>5, ShownIs, Zenon
  <2>4. n = OutLen[u] => \A c \in y + 1 .. TextLen(u) : HeldBack(u, c)
    BY <1>7, <2>3, Zenon
  <2> QED BY <2>1, <2>2, <2>4
<1>9. end <= TextLen(u) /\ TextLen(u) \in Nat
  <2>1. OutLen[u] \in 0 .. OutLen[u]
    BY <1>4
  <2> QED BY <1>4, <1>7, <2>1, TextIs DEF TextLen
<1>10. y \in 0 .. TextLen(u) /\ first + s.sent \in Nat
  BY <1>4, <1>8, <1>9
<1>11. RepeatFree(u) => first + s.sent <= y
  <2>1. Status(u, s)
    BY <1>1, <1>2
  <2> QED BY <1>3, <1>4, <1>7, <2>1, ShownGrows
<1>12. Increment(m) = [uid |-> u, from |-> first + s.sent + 1, to |-> y, finished |-> m.finished]
  BY <1>1, <1>2, <1>3, <1>6, <1>7 DEF Increment
<1>13. Increment(m) \in TextReply
  <2>1. first + s.sent + 1 \in Nat /\ first + s.sent + 1 >= 1
    BY <1>10
  <2>2. PICK f : f = Increment(m)
    OBVIOUS
  <2>3. f.uid = u /\ f.from = first + s.sent + 1 /\ f.to = y /\ f.finished = m.finished
    BY <1>12, <2>2
  <2>4. f \in Message
    BY <1>4, <1>8, <1>12, <2>1, <2>2 DEF Message
  <2>5. f.finished => \A c \in f.to + 1 .. TextLen(f.uid) : HeldBack(f.uid, c)
    BY <1>4, <1>8, <2>3
  <2> QED BY <2>1, <2>2, <2>3, <2>4, <2>5 DEF TextReply
<1>14. PICK t : t = After(m)
  OBVIOUS
<1>15. Status(u, t) /\ t.decoded = n /\ Complete[u][t.end] + t.sent = y
  <2>1. t = IF n \notin PartialAt[u] /\ end > first
            THEN [end |-> n, decoded |-> n, sent |-> 0]
            ELSE [end |-> e, decoded |-> n, sent |-> y - first]
    BY <1>1, <1>2, <1>3, <1>6, <1>7, <1>14 DEF After
  <2>2. CASE n \notin PartialAt[u] /\ end > first
    <3>1. t.end = n /\ t.decoded = n /\ t.sent = 0
      BY <2>1, <2>2
    <3>2. Complete[u][t.end] = end /\ Complete[u][t.decoded] = end /\ end + 0 = end /\ y = end
      BY <1>7, <1>8, <2>2, <3>1
    <3>3. n <= n /\ n \in Nat
      BY <1>4
    <3> QED BY <1>4, <1>8, <3>1, <3>2, <3>3 DEF Status
  <2>3. CASE ~(n \notin PartialAt[u] /\ end > first)
    <3>1. t.end = e /\ t.decoded = n /\ t.sent = y - first
      BY <2>1, <2>3
    <3>2. t.sent \in Nat /\ first + t.sent = y
      BY <1>8, <3>1
    <3>3. t.sent = 0 \/ n \in PartialAt[u]
      BY <1>8, <2>3, <3>1
    <3>4. e <= n /\ n <= n
      BY <1>4
    <3> QED BY <1>4, <1>7, <1>8, <3>1, <3>2, <3>3, <3>4 DEF Status
  <2> QED BY <2>2, <2>3
<1> QED
  BY <1>1, <1>2, <1>3, <1>7, <1>10, <1>11, <1>12, <1>13, <1>14, <1>15
-----------------------------------------------------------------------------
(* Replies on their way. *)

Own(u) == {a \in TextReply : a.uid = u}

(* A batch has at most one reply for a user. *)
Batches(R) == {B \in SUBSET R : \A a, b \in B : a.uid = b.uid => a = b}

(* A reply of rank 0 takes the tokens of user u from x to y; the last one   *)
(* is said to be the last.                                                  *)
Decodes(a, u, x, y) ==
    a.from = x + 1 /\ x <= a.to /\ y = IF a.finished THEN OutLen[u] + 1 ELSE a.to

(* A reply of the detokenizer takes the text from x to y, and may repeat    *)
(* what was sent.                                                           *)
Sends(a, u, x, y) ==
    /\ a.from <= x + 1 /\ y = IF a.to > x THEN a.to ELSE x
    /\ RepeatFree(u) => a.from = x + 1 /\ x <= a.to

Piece(replies, u, x, y, kind) ==
    \/ x = y /\ \A a \in replies : a.uid # u
    \/ \E a \in replies :
          /\ a.uid = u
          /\ IF kind = "token" THEN Decodes(a, u, x, y) ELSE Sends(a, u, x, y)

(* A queue of batches takes user u from x to y, position by position. *)
Limit(u, kind) == IF kind = "token" THEN OutLen[u] + 1 ELSE TextLen(u)

Way(batches, u, x, y, kind) ==
    \E p \in [0 .. Len(batches) -> 0 .. Limit(u, kind)] :
        /\ p[0] = x /\ p[Len(batches)] = y
        /\ \A i \in 1 .. Len(batches) : Piece(batches[i], u, p[i - 1], p[i], kind)

NoWord(batches, u) == \A i \in 1 .. Len(batches) : \A a \in batches[i] : a.uid # u

LEMMA WayNone ==
    ASSUME NEW S, NEW q \in Seq(S), NEW u, NEW k, NEW x \in 0 .. Limit(u, k), NoWord(q, u)
    PROVE  Way(q, u, x, x, k)
<1> DEFINE p == [i \in 0 .. Len(q) |-> x]
<1>1. Len(q) \in Nat
  BY LenProperties
<1>2. p \in [0 .. Len(q) -> 0 .. Limit(u, k)] /\ p[0] = x /\ p[Len(q)] = x
  BY <1>1
<1>3. \A i \in 1 .. Len(q) : Piece(q[i], u, p[i - 1], p[i], k)
  BY <1>1 DEF NoWord, Piece
<1> QED
  BY <1>2, <1>3 DEF Way

LEMMA WayEmpty ==
    ASSUME NEW u, NEW k, NEW x, NEW y, Way(<<>>, u, x, y, k)
    PROVE  x = y
  BY DEF Way

LEMMA WayAppend ==
    ASSUME NEW S, NEW q \in Seq(S), NEW B \in S, NEW u, NEW k, NEW x, NEW y, NEW z \in 0 .. Limit(u, k),
           Way(q, u, x, y, k), Piece(B, u, y, z, k)
    PROVE  Way(Append(q, B), u, x, z, k)
<1> DEFINE n == Len(q)
           q1 == Append(q, B)
<1>1. PICK p \in [0 .. n -> 0 .. Limit(u, k)] :
         p[0] = x /\ p[n] = y /\ \A i \in 1 .. n : Piece(q[i], u, p[i - 1], p[i], k)
  BY DEF Way
<1>2. n \in Nat /\ Len(q1) = n + 1 /\ q1[n + 1] = B /\ \A i \in 1 .. n : q1[i] = q[i]
  BY LenProperties, AppendProperties
<1> DEFINE p1 == [i \in 0 .. n + 1 |-> IF i = n + 1 THEN z ELSE p[i]]
<1>3. /\ p1 \in [0 .. n + 1 -> 0 .. Limit(u, k)] /\ p1[n + 1] = z
      /\ \A i \in 0 .. n : p1[i] = p[i]
  BY <1>2
<1> HIDE DEF n, q1, p1
<1>4. p1[0] = x /\ p1[n] = y
  BY <1>1, <1>2, <1>3
<1>5. ASSUME NEW i \in 1 .. n + 1
      PROVE  Piece(q1[i], u, p1[i - 1], p1[i], k)
  <2>1. CASE i = n + 1
    <3>1. i - 1 = n
      BY <1>2, <2>1
    <3> QED BY <1>2, <1>3, <1>4, <2>1, <3>1
  <2>2. CASE i # n + 1
    <3>1. i \in 1 .. n /\ i \in 0 .. n /\ i - 1 \in 0 .. n
      BY <1>2, <2>2
    <3>2. q1[i] = q[i] /\ p1[i] = p[i] /\ p1[i - 1] = p[i - 1]
      BY <1>2, <1>3, <3>1
    <3> QED BY <1>1, <3>1, <3>2
  <2> QED BY <2>1, <2>2
<1> QED
  BY <1>2, <1>3, <1>4, <1>5 DEF Way, q1

LEMMA WayHead ==
    ASSUME NEW S, NEW q \in Seq(S), q # <<>>, NEW u, NEW k, NEW x, NEW z, Way(q, u, x, z, k)
    PROVE  \E y \in 0 .. Limit(u, k) : Piece(Head(q), u, x, y, k) /\ Way(Tail(q), u, y, z, k)
<1> DEFINE n == Len(q)
           q1 == Tail(q)
<1>1. PICK p \in [0 .. n -> 0 .. Limit(u, k)] :
         p[0] = x /\ p[n] = z /\ \A i \in 1 .. n : Piece(q[i], u, p[i - 1], p[i], k)
  BY DEF Way
<1>2. /\ n \in Nat \ {0} /\ Len(q1) = n - 1 /\ \A i \in 1 .. n - 1 : q1[i] = q[i + 1]
      /\ Head(q) = q[1]
  BY LenProperties, EmptySeq, HeadTailProperties
<1> DEFINE p1 == [i \in 0 .. n - 1 |-> p[i + 1]]
<1>3. p1 \in [0 .. n - 1 -> 0 .. Limit(u, k)] /\ \A i \in 0 .. n - 1 : p1[i] = p[i + 1]
  BY <1>2
<1> HIDE DEF n, q1, p1
<1>4. p1[0] = p[1] /\ p1[n - 1] = z
  BY <1>1, <1>2, <1>3
<1>5. p[1] \in 0 .. Limit(u, k) /\ Piece(Head(q), u, x, p[1], k)
  <2>1. 1 \in 1 .. n /\ 1 \in 0 .. n /\ 1 - 1 = 0
    BY <1>2
  <2>2. Piece(q[1], u, p[1 - 1], p[1], k)
    BY <1>1, <2>1
  <2> QED BY <1>1, <1>2, <2>1, <2>2
<1>6. ASSUME NEW i \in 1 .. n - 1
      PROVE  Piece(q1[i], u, p1[i - 1], p1[i], k)
  <2>1. i + 1 \in 1 .. n /\ i \in 0 .. n - 1 /\ i - 1 \in 0 .. n - 1 /\ i + 1 - 1 = i /\ i - 1 + 1 = i
    BY <1>2
  <2>2. Piece(q[i + 1], u, p[i], p[i + 1], k)
    BY <1>1, <2>1
  <2>3. q1[i] = q[i + 1] /\ p1[i] = p[i + 1] /\ p1[i - 1] = p[i]
    BY <1>2, <1>3, <2>1
  <2> QED BY <2>2, <2>3
<1>7. Way(q1, u, p[1], z, k)
  BY <1>2, <1>3, <1>4, <1>6 DEF Way
<1> QED
  BY <1>5, <1>7 DEF q1

(* Replies one by one. *)
Singles(q) == [i \in 1 .. Len(q) |-> {q[i]}]

LEMMA SinglesIs ==
    ASSUME NEW S, NEW q \in Seq(S)
    PROVE  /\ Singles(q) \in Seq(SUBSET S) /\ Len(Singles(q)) = Len(q)
           /\ \A i \in 1 .. Len(q) : Singles(q)[i] = {q[i]}
<1>1. Len(q) \in Nat /\ \A i \in 1 .. Len(q) : q[i] \in S
  BY LenProperties, ElementOfSeq
<1>2. Singles(q) \in [1 .. Len(q) -> SUBSET S]
  BY <1>1 DEF Singles
<1> QED
  BY <1>1, <1>2 DEF Singles

LEMMA SinglesAppend ==
    ASSUME NEW S, NEW q \in Seq(S), NEW a \in S
    PROVE  Singles(Append(q, a)) = Append(Singles(q), {a})
<1> DEFINE q1 == Append(q, a)
           s1 == Append(Singles(q), {a})
<1>1. /\ Len(q) \in Nat /\ q1 \in Seq(S) /\ Len(q1) = Len(q) + 1 /\ q1[Len(q) + 1] = a
      /\ \A i \in 1 .. Len(q) : q1[i] = q[i]
  BY LenProperties, AppendProperties
<1>2. Singles(q) \in Seq(SUBSET S) /\ {a} \in SUBSET S /\ Len(Singles(q)) = Len(q)
  BY SinglesIs
<1>3. /\ s1 \in Seq(SUBSET S) /\ Len(s1) = Len(q) + 1 /\ s1[Len(q) + 1] = {a}
      /\ \A i \in 1 .. Len(q) : s1[i] = Singles(q)[i]
  <2>1. /\ s1 \in Seq(SUBSET S) /\ Len(s1) = Len(Singles(q)) + 1 /\ s1[Len(Singles(q)) + 1] = {a}
        /\ \A i \in 1 .. Len(Singles(q)) : s1[i] = Singles(q)[i]
    BY <1>2, AppendProperties
  <2> QED BY <1>2, <2>1
<1> HIDE DEF q1, s1
<1>4. Singles(q1) \in Seq(SUBSET S) /\ Len(Singles(q1)) = Len(q) + 1
  BY <1>1, SinglesIs
<1>5. \A i \in 1 .. Len(q) + 1 : Singles(q1)[i] = s1[i]
  <2> TAKE i \in 1 .. Len(q) + 1
  <2>1. Singles(q1)[i] = {q1[i]}
    BY <1>1, SinglesIs
  <2>2. CASE i = Len(q) + 1
    BY <1>1, <1>3, <2>1, <2>2
  <2>3. CASE i # Len(q) + 1
    <3>1. i \in 1 .. Len(q)
      BY <1>1, <2>3
    <3>2. Singles(q)[i] = {q[i]}
      BY <3>1, SinglesIs
    <3> QED BY <1>1, <1>3, <2>1, <3>1, <3>2
  <2> QED BY <2>2, <2>3
<1>6. Singles(q1) = s1
  BY <1>3, <1>4, <1>5, SeqEqual
<1> QED
  BY <1>6 DEF q1, s1

LEMMA SinglesTail ==
    ASSUME NEW S, NEW q \in Seq(S), q # <<>>
    PROVE  /\ Singles(q) # <<>> /\ Head(Singles(q)) = {Head(q)}
           /\ Singles(Tail(q)) = Tail(Singles(q))
<1> DEFINE q1 == Tail(q)
           s == Singles(q)
<1>1. /\ Len(q) \in Nat \ {0} /\ q1 \in Seq(S) /\ Len(q1) = Len(q) - 1
      /\ Head(q) = q[1] /\ \A i \in 1 .. Len(q1) : q1[i] = q[i + 1]
  BY LenProperties, EmptySeq, HeadTailProperties
<1>2. /\ s \in Seq(SUBSET S) /\ Len(s) = Len(q) /\ \A i \in 1 .. Len(q) : s[i] = {q[i]}
  BY SinglesIs
<1> HIDE DEF q1, s
<1>3. s # <<>> /\ Head(s) = {Head(q)}
  BY <1>1, <1>2, EmptySeq
<1>4. /\ Tail(s) \in Seq(SUBSET S) /\ Len(Tail(s)) = Len(s) - 1
      /\ \A i \in 1 .. Len(Tail(s)) : Tail(s)[i] = s[i + 1]
  BY <1>2, <1>3, HeadTailProperties
<1>5. /\ Singles(q1) \in Seq(SUBSET S) /\ Len(Singles(q1)) = Len(q1)
      /\ \A i \in 1 .. Len(q1) : Singles(q1)[i] = {q1[i]}
  BY <1>1, SinglesIs
<1>6. \A i \in 1 .. Len(q1) : Singles(q1)[i] = Tail(s)[i]
  <2> TAKE i \in 1 .. Len(q1)
  <2>1. i + 1 \in 1 .. Len(q) /\ i \in 1 .. Len(Tail(s))
    BY <1>1, <1>2, <1>4
  <2> QED BY <1>1, <1>2, <1>4, <1>5, <2>1
<1>7. Singles(q1) = Tail(s)
  BY <1>1, <1>2, <1>4, <1>5, <1>6, SeqEqual
<1> QED
  BY <1>3, <1>7 DEF q1, s

LEMMA SinglesEmpty == Singles(<<>>) = <<>>
  BY DEF Singles

(* Replies of one user in a batch, at most one, as a sequence. *)
LEMMA OneToSeq ==
    ASSUME NEW a
    PROVE  SetToSeq({a}) = <<a>>
<1>1. Cardinality({a}) = 1
  BY FS_Singleton
<1>2. ASSUME NEW f \in [1 .. 1 -> {a}] PROVE f = <<a>>
  <2>1. f[1] = a /\ f = [i \in 1 .. 1 |-> f[i]]
    OBVIOUS
  <2> QED BY <2>1
<1>3. <<a>> \in [1 .. 1 -> {a}] /\ IsInjective(<<a>>)
  BY DEF IsInjective
<1> QED
  BY <1>1, <1>2, <1>3 DEF SetToSeq

LEMMA NoneToSeq == SetToSeq({}) = <<>>
<1>1. Cardinality({}) = 0
  BY FS_EmptySet
<1>2. ASSUME NEW f \in [1 .. 0 -> {}] PROVE f = <<>>
  OBVIOUS
<1>3. <<>> \in [1 .. 0 -> {}] /\ IsInjective(<<>>)
  BY DEF IsInjective
<1> QED
  BY <1>1, <1>2, <1>3 DEF SetToSeq
-----------------------------------------------------------------------------
(* What has been received. *)

LEMMA PositionsAre ==
    ASSUME NEW k \in Nat, NEW n \in Nat
    PROVE  LET p == Positions(k + 1, k + n)
           IN  p \in Seq(Int) /\ Len(p) = n /\ \A i \in 1 .. n : p[i] = k + i
<1>1. k + n - (k + 1) + 1 = n /\ \A i \in 1 .. n : k + 1 + i - 1 = k + i /\ k + i \in Int
  OBVIOUS
<1>2. Positions(k + 1, k + n) = [i \in 1 .. n |-> k + i]
  BY <1>1 DEF Positions
<1> DEFINE p == [i \in 1 .. n |-> k + i]
<1>3. p \in Seq(Int) /\ Len(p) = n /\ \A i \in 1 .. n : p[i] = k + i
  BY <1>1
<1> QED
  BY <1>2, <1>3

LEMMA PositionsNone == Positions(1, 0) = <<>>
<1>1. 0 + 1 = 1 /\ 0 + 0 = 0
  OBVIOUS
<1>2. Positions(0 + 1, 0 + 0) \in Seq(Int) /\ Len(Positions(0 + 1, 0 + 0)) = 0
  BY PositionsAre
<1> QED
  BY <1>1, <1>2, EmptySeq

LEMMA PositionsJoin ==
    ASSUME NEW x \in Nat, NEW y \in Nat, x <= y
    PROVE  Positions(1, x) \o Positions(x + 1, y) = Positions(1, y)
<1> DEFINE p == Positions(1, x)
           q == Positions(x + 1, y)
           r == Positions(1, y)
<1>1. p \in Seq(Int) /\ Len(p) = x /\ \A i \in 1 .. x : p[i] = 0 + i
  <2>1. Positions(0 + 1, 0 + x) = p
    BY DEF Positions
  <2> QED BY <2>1, PositionsAre
<1>2. q \in Seq(Int) /\ Len(q) = y - x /\ \A i \in 1 .. y - x : q[i] = x + i
  <2>1. y - x \in Nat /\ x + (y - x) = y
    OBVIOUS
  <2>2. LET s == Positions(x + 1, x + (y - x))
        IN  s \in Seq(Int) /\ Len(s) = y - x /\ \A i \in 1 .. y - x : s[i] = x + i
    BY <2>1, PositionsAre
  <2> QED BY <2>1, <2>2, Zenon
<1>3. r \in Seq(Int) /\ Len(r) = y /\ \A i \in 1 .. y : r[i] = 0 + i
  <2>1. Positions(0 + 1, 0 + y) = r
    BY DEF Positions
  <2> QED BY <2>1, PositionsAre
<1> HIDE DEF p, q, r
<1>4. /\ p \o q \in Seq(Int) /\ Len(p \o q) = Len(p) + Len(q)
      /\ \A i \in 1 .. Len(p) + Len(q) : (p \o q)[i] = IF i <= Len(p) THEN p[i] ELSE q[i - Len(p)]
  BY <1>1, <1>2, ConcatProperties, Zenon
<1> DEFINE w == p \o q
<1> HIDE DEF w
<1>5. w \in Seq(Int) /\ Len(w) = y /\ \A i \in 1 .. y : w[i] = IF i <= x THEN p[i] ELSE q[i - x]
  <2>1. Len(p) + Len(q) = y
    BY <1>1, <1>2
  <2> QED BY <1>1, <1>4, <2>1 DEF w
<1>6. \A i \in 1 .. y : w[i] = i
  <2> TAKE i \in 1 .. y
  <2>1. CASE i <= x
    BY <1>1, <1>5, <2>1
  <2>2. CASE ~(i <= x)
    <3>1. i - x \in 1 .. y - x /\ x + (i - x) = i
      BY <2>2
    <3> QED BY <1>2, <1>5, <2>2, <3>1
  <2> QED BY <2>1, <2>2
<1>7. w = r
  BY <1>3, <1>5, <1>6, SeqEqual
<1> QED
  BY <1>7 DEF w, p, q, r

(* The characters received: s has the first g of them. *)
Gapless(s) == \A i \in 1 .. Len(s) : s[i] > 1 => \E j \in 1 .. i - 1 : s[j] = s[i] - 1
Covers(s, g) == \A c \in 1 .. g : \E i \in 1 .. Len(s) : s[i] = c

LEMMA CoversMore ==
    ASSUME NEW s \in Seq(Nat), Gapless(s), NEW g \in Nat, Covers(s, g),
           NEW from \in 1 .. g + 1, NEW to \in Nat, NEW y \in Nat, y = IF to > g THEN to ELSE g
    PROVE  LET w == s \o Positions(from, to)
           IN  w \in Seq(Nat) /\ Gapless(w) /\ Covers(w, y)
<1> DEFINE w == s \o Positions(from, to)
<1>1. CASE from > to
  <2>1. 1 .. to - from + 1 = {}
    BY <1>1
  <2>2. Positions(from, to) = <<>>
    BY <2>1 DEF Positions
  <2>3. w = s /\ y = g
    BY <1>1, <2>2, ConcatEmptySeq
  <2> QED BY <2>3
<1>2. CASE from <= to
  <2> DEFINE n == to - from + 1
             p == Positions(from, to)
             l == Len(s)
  <2>1. n \in Nat /\ p \in Seq(Int) /\ Len(p) = n /\ \A i \in 1 .. n : p[i] = from - 1 + i
    <3>1. from - 1 \in Nat /\ n \in Nat /\ from - 1 + 1 = from /\ from - 1 + n = to
      BY <1>2
    <3>2. LET q == Positions(from - 1 + 1, from - 1 + n)
          IN  q \in Seq(Int) /\ Len(q) = n /\ \A i \in 1 .. n : q[i] = from - 1 + i
      BY <3>1, PositionsAre
    <3> HIDE DEF n
    <3> QED BY <3>1, <3>2
  <2>2. p \in Seq(Nat)
    <3>1. p = [i \in 1 .. n |-> from + i - 1]
      BY DEF Positions
    <3>2. \A i \in 1 .. n : from + i - 1 \in Nat
      BY <1>2
    <3> HIDE DEF n
    <3>3. [i \in 1 .. n |-> from + i - 1] \in Seq(Nat)
      BY <2>1, <3>2
    <3> QED BY <3>1, <3>3
  <2> HIDE DEF p
  <2>3. /\ w \in Seq(Nat) /\ Len(w) = l + n /\ l \in Nat
        /\ \A i \in 1 .. l + n : w[i] = IF i <= l THEN s[i] ELSE p[i - l]
    <3>1. /\ s \o p \in Seq(Nat) /\ Len(s \o p) = Len(s) + Len(p)
          /\ \A i \in 1 .. Len(s) + Len(p) : (s \o p)[i] = IF i <= Len(s) THEN s[i] ELSE p[i - Len(s)]
      BY <2>2, ConcatProperties, Zenon
    <3>2. Len(s) \in Nat
      BY LenProperties
    <3> QED BY <2>1, <3>1, <3>2 DEF p
  <2> HIDE DEF w, l, n
  <2>4. \A i \in 1 .. l : w[i] = s[i] /\ i \in 1 .. l + n
    BY <2>1, <2>3
  <2>5. ASSUME NEW i \in 1 .. n PROVE l + i \in 1 .. l + n /\ w[l + i] = from - 1 + i
    <3>1. l + i \in 1 .. l + n /\ ~(l + i <= l) /\ l + i - l = i
      BY <2>1, <2>3
    <3> QED BY <2>1, <2>3, <3>1
  <2>6. \A c \in 1 .. g : \E i \in 1 .. l : s[i] = c
    BY DEF Covers, l
  <2>7. Covers(w, y)
    <3> SUFFICES ASSUME NEW c \in 1 .. y PROVE \E i \in 1 .. l + n : w[i] = c
      BY <2>3 DEF Covers
    <3>1. CASE c \in 1 .. g
      BY <2>4, <2>6, <3>1
    <3>2. CASE c \notin 1 .. g
      <4>1. c - from + 1 \in 1 .. n /\ from - 1 + (c - from + 1) = c
        BY <3>2 DEF n
      <4> QED BY <2>5, <4>1
    <3> QED BY <3>1, <3>2
  <2>8. Gapless(w)
    <3> SUFFICES ASSUME NEW i \in 1 .. l + n, w[i] > 1
                 PROVE  \E j \in 1 .. i - 1 : w[j] = w[i] - 1
      BY <2>3 DEF Gapless
    <3>1. CASE i \in 1 .. l
      <4>1. PICK j \in 1 .. i - 1 : s[j] = s[i] - 1
        BY <2>4, <3>1 DEF Gapless, l
      <4>2. j \in 1 .. l
        BY <2>3, <3>1
      <4> QED BY <2>4, <3>1, <4>1, <4>2
    <3>2. CASE i = l + 1
      <4>1. w[i] = from
        <5>1. 1 \in 1 .. n /\ from - 1 + 1 = from
          BY <1>2 DEF n
        <5> QED BY <2>5, <3>2, <5>1
      <4>2. from - 1 \in 1 .. g
        BY <4>1
      <4>3. PICK j \in 1 .. l : s[j] = from - 1
        BY <2>6, <4>2
      <4>4. j \in 1 .. i - 1
        BY <2>3, <3>2
      <4> QED BY <2>4, <4>1, <4>3, <4>4
    <3>3. CASE i \notin 1 .. l /\ i # l + 1
      <4>1. /\ i - l \in 1 .. n /\ i - l - 1 \in 1 .. n /\ l + (i - l) = i /\ l + (i - l - 1) = i - 1
            /\ i - 1 \in 1 .. i - 1 /\ from - 1 + (i - l - 1) = from - 1 + (i - l) - 1
        BY <2>1, <2>3, <3>3
      <4>2. w[i] = from - 1 + (i - l) /\ w[i - 1] = from - 1 + (i - l - 1)
        BY <2>5, <4>1
      <4> QED BY <4>1, <4>2
    <3> QED BY <3>1, <3>2, <3>3
  <2> QED BY <2>3, <2>7, <2>8 DEF w
<1> QED
  BY <1>1, <1>2

LEMMA CoversNone == <<>> \in Seq(Nat) /\ Gapless(<<>>) /\ Covers(<<>>, 0)
  BY DEF Gapless, Covers
-----------------------------------------------------------------------------
(* The streams. *)

(* The characters that user u has received are the first g of its text. *)
Has(u, g) ==
    /\ got[u] \in Seq(Nat) /\ Gapless(got[u]) /\ Covers(got[u], g)
    /\ RepeatFree(u) => got[u] = Positions(1, g)

(* The detokenizer has seen the first a tokens of user u, and sent the      *)
(* first d characters.                                                      *)
DecodedTo(u, a) ==
    IF u \in DOMAIN decodeMap
    THEN decodeMap[u].decoded = a /\ Status(u, decodeMap[u])
    ELSE a \in {0, OutLen[u] + 1}

SentTo(u, a, d) ==
    IF u \in DOMAIN decodeMap
    THEN LET x == Complete[u][decodeMap[u].end] + decodeMap[u].sent
         IN  x <= d /\ (RepeatFree(u) => d = x)
    ELSE a # OutLen[u] + 1 => d = 0

(* The text of a user, cut where it is on its way: b tokens committed by a  *)
(* rank with the requests t, the first a of them seen by the detokenizer,   *)
(* the first d characters of these sent on, and the first g received.       *)
FrontOf(u, a) ==
    /\ u \in DOMAIN ackMap
    /\ \E g, b, c, d \in 0 .. TextLen(u) :
          /\ Has(u, g)
          /\ Way(Singles(taken[u]), u, g, b, "text")
          /\ Way(Singles(ackMap[u]), u, b, c, "text")
          /\ Way(toFrontend, u, c, d, "text")
          /\ SentTo(u, a, d)

StreamOf(u, t) ==
    \E a, b \in 0 .. OutLen[u] + 1 :
        /\ Way(toDetokenizer, u, a, b, "token")
        /\ u \in DOMAIN t => t[u] = b
        /\ DecodedTo(u, a)
        /\ phase[u] = "waiting" => FrontOf(u, a)

PrefixOf(u) ==
    /\ NoGap(u)
    /\ got[u] = Positions(1, Len(got[u])) \/ ~RepeatFree(u)
    /\ phase[u] = "done" => AllReceived(u)

Streams == \A u \in Client : StreamOf(u, live[0]) /\ PrefixOf(u)

-----------------------------------------------------------------------------
(* The tables of the frontend and of the detokenizer, and the replies       *)
(* between them.                                                            *)

FrontTypes ==
    /\ phase \in [Client -> {"new", "waiting", "done", "gone"}]
    /\ DOMAIN ackMap \subseteq {u \in Client : phase[u] # "new"}
    /\ \A u \in DOMAIN ackMap : ackMap[u] \in Seq(Own(u))
    /\ DOMAIN taken = Client /\ DOMAIN got = Client
    /\ \A u \in Client : taken[u] \in Seq(Own(u))
    /\ event \subseteq DOMAIN ackMap
    /\ \A u \in Client :
          /\ taken[u] # <<>> => u \in DOMAIN ackMap /\ phase[u] # "gone"
          /\ phase[u] = "waiting" => u \in DOMAIN ackMap
    /\ aborting \subseteq {u \in Client : phase[u] = "gone"}
    /\ toDetokenizer \in Seq(Batches(TokenReply)) /\ toFrontend \in Seq(Batches(TextReply))
    /\ DOMAIN decodeMap \subseteq Client

LEMMA ReplyType ==
    ASSUME ClientsAssumption, NEW t \in Table, NEW res \in Results, NEW us \in SUBSET Client
    PROVE  Reply(t, res, us) \in Batches(TokenReply)
<1> DEFINE Of(u) == [uid |-> u, from |-> t[u] + 1, to |-> NextLen(t, res, u),
                     finished |-> Finished(t, res, us, u)]
<1>1. Reply(t, res, us) = {Of(u) : u \in DOMAIN res \cap DOMAIN t}
  BY DEF Reply
<1>2. ASSUME NEW u \in DOMAIN res \cap DOMAIN t
      PROVE  Of(u) \in TokenReply
  <2>1. /\ NextLen(t, res, u) \in Nat /\ t[u] \in Nat /\ NextLen(t, res, u) <= OutLen[u]
        /\ u \in Client
    BY NextLenIs, TableIs
  <2>2. /\ Finished(t, res, us, u) \in BOOLEAN
        /\ Finished(t, res, us, u) => NextLen(t, res, u) = OutLen[u]
    BY DEF Finished
  <2>3. Of(u) \in Message
    BY <2>1, <2>2 DEF Message
  <2>4. /\ Of(u).to = NextLen(t, res, u) /\ Of(u).uid = u
        /\ Of(u).finished <=> Finished(t, res, us, u)
    OBVIOUS
  <2> QED BY <2>1, <2>2, <2>3, <2>4 DEF TokenReply
<1>3. \A u, v : Of(u).uid = Of(v).uid => Of(u) = Of(v)
  OBVIOUS
<1> QED
  BY <1>1, <1>2, <1>3 DEF Batches

LEMMA SendResultType ==
    ASSUME ClientsAssumption, NEW t \in Table, NEW res \in Results, NEW us \in SUBSET Client,
           toDetokenizer \in Seq(Batches(TokenReply)), SendResult(Reply(t, res, us))
    PROVE  toDetokenizer' \in Seq(Batches(TokenReply))
  BY ReplyType DEF SendResult

LEMMA TypesSame ==
    ASSUME FrontTypes, toDetokenizer' \in Seq(Batches(TokenReply)),
           UNCHANGED <<frontend, toFrontend, decodeMap>>
    PROVE  FrontTypes'
  BY DEF FrontTypes, frontend

LEMMA NewUserTypes ==
    ASSUME FrontTypes, NEW u \in Client, NewUser(u)
    PROVE  FrontTypes'
<1>1. /\ phase[u] = "new" /\ phase' = [phase EXCEPT ![u] = "waiting"]
      /\ ackMap' = Put(ackMap, u, <<>>)
      /\ UNCHANGED <<event, taken, got, aborting, toDetokenizer, toFrontend, decodeMap>>
  BY DEF NewUser
<1>2. DOMAIN ackMap' = DOMAIN ackMap \cup {u}
  BY <1>1 DEF Put
<1>3. \A v \in DOMAIN ackMap' : ackMap'[v] = IF v = u THEN <<>> ELSE ackMap[v]
  BY <1>1 DEF Put
<1>4. \A v \in Client : phase'[v] = IF v = u THEN "waiting" ELSE phase[v]
  BY <1>1 DEF FrontTypes
<1>5. <<>> \in Seq(Own(u))
  OBVIOUS
<1> QED
  BY <1>1, <1>2, <1>3, <1>4, <1>5 DEF FrontTypes

(* The replies that listen appends for one user. *)
LEMMA RepliesOf ==
    ASSUME NEW R, NEW B \in Batches(R), NEW u
    PROVE  \/ /\ \A a \in B : a.uid # u
              /\ {a \in B : a.uid = u} = {}
           \/ \E a \in B : a.uid = u /\ {b \in B : b.uid = u} = {a}
  BY DEF Batches

LEMMA ListenIs ==
    ASSUME FrontTypes, Listen
    PROVE  /\ toFrontend # <<>> /\ toFrontend' = Tail(toFrontend)
           /\ Head(toFrontend) \in Batches(TextReply)
           /\ toFrontend' \in Seq(Batches(TextReply))
           /\ DOMAIN ackMap' = DOMAIN ackMap
           /\ \A u \in DOMAIN ackMap :
                 \/ ackMap'[u] = ackMap[u] /\ \A a \in Head(toFrontend) : a.uid # u
                 \/ \E a \in Head(toFrontend) : a.uid = u /\ ackMap'[u] = Append(ackMap[u], a)
           /\ event' \subseteq DOMAIN ackMap
<1> DEFINE replies == {a \in Head(toFrontend) : a.uid \in DOMAIN ackMap}
<1>1. /\ toFrontend # <<>> /\ toFrontend' = Tail(toFrontend)
      /\ ackMap' = [u \in DOMAIN ackMap |-> ackMap[u] \o SetToSeq({a \in replies : a.uid = u})]
      /\ event' = event \cup {a.uid : a \in replies}
  BY DEF Listen
<1>2. Head(toFrontend) \in Batches(TextReply) /\ toFrontend' \in Seq(Batches(TextReply))
  BY <1>1, HeadTailProperties DEF FrontTypes
<1>3. ASSUME NEW u \in DOMAIN ackMap
      PROVE  \/ ackMap'[u] = ackMap[u] /\ \A a \in Head(toFrontend) : a.uid # u
             \/ \E a \in Head(toFrontend) : a.uid = u /\ ackMap'[u] = Append(ackMap[u], a)
  <2>1. {a \in replies : a.uid = u} = {a \in Head(toFrontend) : a.uid = u}
    OBVIOUS
  <2>2. ackMap[u] \in Seq(Own(u))
    BY DEF FrontTypes
  <2>3. ackMap'[u] = ackMap[u] \o SetToSeq({a \in Head(toFrontend) : a.uid = u})
    BY <1>1, <2>1
  <2>4. CASE /\ \A a \in Head(toFrontend) : a.uid # u
             /\ {a \in Head(toFrontend) : a.uid = u} = {}
    <3>1. ackMap'[u] = ackMap[u] \o <<>>
      BY <2>3, <2>4, NoneToSeq
    <3> QED BY <2>2, <2>4, <3>1, ConcatEmptySeq
  <2>5. ASSUME NEW a \in Head(toFrontend), a.uid = u, {b \in Head(toFrontend) : b.uid = u} = {a}
        PROVE  ackMap'[u] = Append(ackMap[u], a)
    <3>1. ackMap'[u] = ackMap[u] \o <<a>>
      BY <2>3, <2>5, OneToSeq
    <3>2. a \in Own(u)
      BY <1>2, <2>5 DEF Batches, Own
    <3> QED BY <2>2, <3>1, <3>2, AppendIsConcat
  <2> QED BY <1>2, <2>4, <2>5, RepliesOf
<1>4. event' \subseteq DOMAIN ackMap
  BY <1>1 DEF FrontTypes
<1> QED
  BY <1>1, <1>2, <1>3, <1>4

LEMMA ListenTypes ==
    ASSUME FrontTypes, Listen
    PROVE  FrontTypes'
<1>1. \A u \in DOMAIN ackMap' : ackMap'[u] \in Seq(Own(u))
  <2> TAKE u \in DOMAIN ackMap'
  <2>1. ackMap[u] \in Seq(Own(u)) /\ \A a \in Head(toFrontend) : a.uid = u => a \in Own(u)
    BY ListenIs DEF FrontTypes, Batches, Own
  <2>2. \A a \in Own(u) : Append(ackMap[u], a) \in Seq(Own(u))
    BY <2>1, AppendProperties
  <2> QED BY <2>1, <2>2, ListenIs
<1> QED
  BY <1>1, ListenIs DEF Listen, FrontTypes

LEMMA WakeTypes ==
    ASSUME FrontTypes, NEW u \in Client, Wake(u)
    PROVE  FrontTypes'
<1>1. /\ phase[u] = "waiting" /\ u \in event /\ event' = event \ {u}
      /\ taken' = [taken EXCEPT ![u] = ackMap[u]] /\ ackMap' = [ackMap EXCEPT ![u] = <<>>]
      /\ UNCHANGED <<phase, got, aborting, toDetokenizer, toFrontend, decodeMap>>
  BY DEF Wake, queues
<1>2. u \in DOMAIN ackMap /\ ackMap[u] \in Seq(Own(u))
  BY <1>1 DEF FrontTypes
<1>3. /\ DOMAIN ackMap' = DOMAIN ackMap
      /\ \A v \in DOMAIN ackMap : ackMap'[v] = IF v = u THEN <<>> ELSE ackMap[v]
  BY <1>1, <1>2
<1>4. /\ DOMAIN taken' = Client
      /\ \A v \in Client : taken'[v] = IF v = u THEN ackMap[u] ELSE taken[v]
  BY <1>1, <1>2 DEF FrontTypes
<1>5. <<>> \in Seq(Own(u))
  OBVIOUS
<1> QED
  BY <1>1, <1>2, <1>3, <1>4, <1>5 DEF FrontTypes

LEMMA YieldTypes ==
    ASSUME FrontTypes, NEW u \in Client, Yield(u)
    PROVE  FrontTypes'
<1>1. /\ phase[u] = "waiting" /\ taken[u] # <<>>
      /\ taken' = [taken EXCEPT ![u] = Tail(@)] /\ DOMAIN got' = DOMAIN got
      /\ phase' = [phase EXCEPT ![u] = IF Head(taken[u]).finished THEN "done" ELSE @]
      /\ UNCHANGED <<ackMap, event, aborting, toDetokenizer, toFrontend, decodeMap>>
  BY DEF Yield, queues
<1>2. Tail(taken[u]) \in Seq(Own(u))
  BY <1>1, HeadTailProperties DEF FrontTypes
<1>3. /\ DOMAIN taken' = Client /\ taken'[u] \in Seq(Own(u))
      /\ \A v \in Client : v # u => taken'[v] = taken[v]
  BY <1>1, <1>2 DEF FrontTypes
<1>4. /\ phase' \in [Client -> {"new", "waiting", "done", "gone"}]
      /\ phase'[u] \in {"waiting", "done"} /\ \A v \in Client : v # u => phase'[v] = phase[v]
  BY <1>1 DEF FrontTypes
<1>5. u \in DOMAIN ackMap
  BY <1>1 DEF FrontTypes
<1> QED
  BY <1>1, <1>3, <1>4, <1>5 DEF FrontTypes

LEMMA DisconnectTypes ==
    ASSUME FrontTypes, NEW u \in Client, Disconnect(u)
    PROVE  FrontTypes'
<1>1. /\ phase[u] = "waiting" /\ phase' = [phase EXCEPT ![u] = "gone"]
      /\ taken' = [taken EXCEPT ![u] = <<>>] /\ aborting' = aborting \cup {u}
      /\ UNCHANGED <<ackMap, event, got, toDetokenizer, toFrontend, decodeMap>>
  BY DEF Disconnect, queues
<1>2. /\ DOMAIN taken' = Client /\ <<>> \in Seq(Own(u))
      /\ \A v \in Client : taken'[v] = IF v = u THEN <<>> ELSE taken[v]
  BY <1>1 DEF FrontTypes
<1>3. /\ phase' \in [Client -> {"new", "waiting", "done", "gone"}]
      /\ \A v \in Client : phase'[v] = IF v = u THEN "gone" ELSE phase[v]
  BY <1>1 DEF FrontTypes
<1> QED
  BY <1>1, <1>2, <1>3 DEF FrontTypes

LEMMA AbortUserTypes ==
    ASSUME FrontTypes, NEW u \in Client, AbortUser(u)
    PROVE  FrontTypes'
<1>1. /\ u \in aborting /\ aborting' = aborting \ {u}
      /\ ackMap' = [v \in DOMAIN ackMap \ {u} |-> ackMap[v]] /\ event' = event \ {u}
      /\ UNCHANGED <<phase, taken, got, toDetokenizer, toFrontend, decodeMap>>
  BY DEF AbortUser
<1>2. /\ DOMAIN ackMap' = DOMAIN ackMap \ {u}
      /\ \A v \in DOMAIN ackMap' : ackMap'[v] = ackMap[v]
  BY <1>1
<1>3. phase[u] = "gone" /\ taken[u] = <<>>
  BY <1>1 DEF FrontTypes
<1> QED
  BY <1>1, <1>2, <1>3 DEF FrontTypes

(* What the detokenizer does with one batch, user by user. *)
LEMMA DetokenizeIs ==
    ASSUME ClientsAssumption, FrontTypes, Detokenize
    PROVE  LET B == Head(toDetokenizer)
           IN  /\ B \in Batches(TokenReply) /\ toDetokenizer # <<>>
               /\ toDetokenizer' = Tail(toDetokenizer)
               /\ toFrontend' = Append(toFrontend, {Increment(a) : a \in B})
               /\ \A u : (\A a \in B : a.uid # u) =>
                     /\ u \in DOMAIN decodeMap' <=> u \in DOMAIN decodeMap
                     /\ u \in DOMAIN decodeMap => decodeMap'[u] = decodeMap[u]
               /\ \A a \in B :
                     /\ a.uid \in DOMAIN decodeMap' <=> ~a.finished
                     /\ ~a.finished => decodeMap'[a.uid] = After(a)
<1> DEFINE B == Head(toDetokenizer)
           Of(u) == CHOOSE a \in B : a.uid = u
           us    == {a.uid : a \in B}
           ends  == {a.uid : a \in {a \in B : a.finished}}
<1>1. /\ toDetokenizer # <<>> /\ toDetokenizer' = Tail(toDetokenizer)
      /\ toFrontend' = Append(toFrontend, {Increment(a) : a \in B})
      /\ decodeMap' = [u \in (DOMAIN decodeMap \cup us) \ ends |->
                         IF u \in us THEN After(Of(u)) ELSE decodeMap[u]]
  BY DEF Detokenize
<1>2. B \in Batches(TokenReply)
  BY <1>1, HeadTailProperties DEF FrontTypes
<1>3. ASSUME NEW a \in B
      PROVE  a.uid \in us /\ Of(a.uid) = a /\ (a.uid \in ends <=> a.finished)
  <2>1. \A b \in B : b.uid = a.uid => b = a
    BY <1>2 DEF Batches
  <2>2. Of(a.uid) = a
    BY <2>1
  <2> QED BY <2>1, <2>2
<1>4. ASSUME NEW u, \A a \in B : a.uid # u
      PROVE  u \notin us /\ u \notin ends
  BY <1>4
<1> HIDE DEF B, Of, us, ends
<1>5. ASSUME NEW u, \A a \in B : a.uid # u
      PROVE  /\ u \in DOMAIN decodeMap' <=> u \in DOMAIN decodeMap
             /\ u \in DOMAIN decodeMap => decodeMap'[u] = decodeMap[u]
  BY <1>1, <1>4, <1>5
<1>6. ASSUME NEW a \in B
      PROVE  /\ a.uid \in DOMAIN decodeMap' <=> ~a.finished
             /\ ~a.finished => decodeMap'[a.uid] = After(a)
  <2>1. a.uid \in us /\ Of(a.uid) = a /\ (a.uid \in ends <=> a.finished)
    BY <1>3
  <2>2. a.uid \in DOMAIN decodeMap' <=> ~a.finished
    BY <1>1, <2>1
  <2>3. ASSUME ~a.finished
        PROVE  decodeMap'[a.uid] = After(a)
    <3>1. decodeMap'[a.uid] = After(Of(a.uid))
      BY <1>1, <2>1, <2>3
    <3> QED BY <2>1, <3>1
  <2> QED BY <2>2, <2>3
<1> QED
  BY <1>1, <1>2, <1>5, <1>6 DEF B

(* A reply continues what the detokenizer has seen.                         *)
LEMMA NextReplyIs ==
    ASSUME ClientsAssumption, TextAssumption, FrontTypes, toDetokenizer # <<>>,
           NEW u \in Client, NEW t, StreamOf(u, t), NEW m \in Head(toDetokenizer), m.uid = u
    PROVE  /\ m \in TokenReply /\ Status(u, Before(u))
           /\ m.from = Before(u).decoded + 1 /\ Before(u).decoded <= m.to
<1>1. PICK a \in 0 .. OutLen[u] + 1, b \in 0 .. OutLen[u] + 1 :
        Way(toDetokenizer, u, a, b, "token") /\ DecodedTo(u, a)
  BY DEF StreamOf
<1>2. toDetokenizer \in Seq(Batches(TokenReply)) /\ Head(toDetokenizer) \in Batches(TokenReply)
  BY HeadTailProperties DEF FrontTypes
<1>3. PICK y : Piece(Head(toDetokenizer), u, a, y, "token")
  BY <1>1, <1>2, WayHead
<1>4. m \in TokenReply /\ \A n \in Head(toDetokenizer) : n.uid = u => n = m
  BY <1>2 DEF Batches
<1>5. Decodes(m, u, a, y)
  BY <1>3, <1>4 DEF Piece
<1>6. m.from = a + 1 /\ a <= m.to /\ m.to <= OutLen[u] /\ m.to \in Nat /\ OutLen[u] \in Nat
  BY <1>4, <1>5, TextIs DEF Decodes, TokenReply, Message
<1>7. a <= OutLen[u]
  BY <1>6
<1>8. Before(u).decoded = a /\ Status(u, Before(u))
  <2>1. CASE u \in DOMAIN decodeMap
    BY <1>1, <2>1 DEF Before, DecodedTo
  <2>2. CASE u \notin DOMAIN decodeMap
    <3>1. a = 0
      BY <1>1, <1>6, <1>7, <2>2 DEF DecodedTo
    <3>2. Before(u) = [end |-> 0, decoded |-> 0, sent |-> 0]
      BY <2>2 DEF Before
    <3> QED BY <3>1, <3>2, StatusStart
  <2> QED BY <2>1, <2>2
<1> QED
  BY <1>4, <1>6, <1>8

LEMMA IncrementType ==
    ASSUME ClientsAssumption, TextAssumption, FrontTypes, Streams, toDetokenizer # <<>>,
           NEW m \in Head(toDetokenizer)
    PROVE  m \in TokenReply /\ Increment(m) \in TextReply /\ Increment(m).uid = m.uid
<1>1. m \in TokenReply /\ m.uid \in Client
  BY HeadTailProperties DEF FrontTypes, Batches, TokenReply, Message
<1>2. StreamOf(m.uid, live[0])
  BY <1>1 DEF Streams
<1>3. Increment(m) \in TextReply
  BY <1>1, <1>2, NextReplyIs, StatusStep
<1>4. Increment(m).uid = m.uid
  BY DEF Increment
<1> QED
  BY <1>1, <1>3, <1>4

LEMMA DetokenizeTypes ==
    ASSUME ClientsAssumption, TextAssumption, FrontTypes, Streams, Detokenize
    PROVE  FrontTypes'
<1> DEFINE B == Head(toDetokenizer)
           C == {Increment(a) : a \in B}
<1>1. /\ B \in Batches(TokenReply) /\ toDetokenizer' = Tail(toDetokenizer)
      /\ toDetokenizer # <<>> /\ toFrontend' = Append(toFrontend, C)
      /\ UNCHANGED frontend
  BY DetokenizeIs DEF Detokenize
<1>2. B \subseteq TokenReply /\ \A a, b \in B : a.uid = b.uid => a = b
  BY <1>1 DEF Batches
<1>3. \A a \in B : Increment(a) \in TextReply /\ Increment(a).uid = a.uid
  BY <1>1, IncrementType
<1>4. C \in Batches(TextReply)
  BY <1>2, <1>3 DEF Batches
<1>5. toDetokenizer' \in Seq(Batches(TokenReply)) /\ toFrontend' \in Seq(Batches(TextReply))
  BY <1>1, <1>4, HeadTailProperties, AppendProperties DEF FrontTypes
<1>6. ASSUME NEW u \in DOMAIN decodeMap'
      PROVE  u \in Client
  <2>1. CASE \A a \in B : a.uid # u
    BY <2>1, <1>6, DetokenizeIs DEF FrontTypes
  <2>2. ASSUME NEW a \in B, a.uid = u PROVE u \in Client
    BY <1>2, <2>2 DEF TokenReply, Message
  <2> QED BY <2>1, <2>2
<1> QED
  BY <1>1, <1>5, <1>6 DEF FrontTypes, frontend

LEMMA InitFront ==
    ASSUME Init
    PROVE  FrontTypes
  BY DEF Init, FrontTypes

(* Rank 0 answers from what it keeps. *)
LEMMA RankTypesOf0 ==
    ASSUME ClientsAssumption, RankInv
    PROVE  /\ 0 \in Rank /\ live[0] \in Table /\ last[0] \in Results /\ raw \in Seq(UserMessage)
           /\ Processed(live[0], raw) \in Table /\ batch[0] \in SUBSET Client
  BY ProcessedType DEF RankInv, RankTypes, Rank

LEMMA ReceiveRank0Is ==
    ASSUME ReceiveRank0, NEW t, t = Processed(live[0], raw)
    PROVE  /\ \/ /\ live' = [live EXCEPT ![0] = Settled(t, last[0], {})]
                 /\ SendResult(Reply(t, last[0], {}))
              \/ live' = [live EXCEPT ![0] = t] /\ UNCHANGED toDetokenizer
           /\ raw' = <<>> /\ \A w \in Tokenizer : toBackend[w] = <<>>
           /\ UNCHANGED <<args, frontend, toTokenizer, toBackend, toFrontend, decodeMap>>
  BY DEF ReceiveRank0, Receive

LEMMA ForwardIs ==
    ASSUME GroupAssumption, RankInv, Forward
    PROVE  /\ live'[0] = Settled(live[0], last[0], batch[0])
           /\ SendResult(Reply(live[0], last[0], batch[0]))
           /\ UNCHANGED <<args, frontend, toTokenizer, toBackend, toFrontend, raw, decodeMap>>
  BY GroupIs DEF Forward

LEMMA RankStepTypes ==
    ASSUME ClientsAssumption, GroupAssumption, RankInv, FrontTypes, NEW r \in Rank, RankStep(r)
    PROVE  FrontTypes'
<1>1. toDetokenizer \in Seq(Batches(TokenReply))
  BY DEF FrontTypes
<1>2. CASE ReceiveRank0
  <2>1. toDetokenizer' \in Seq(Batches(TokenReply))
    BY <1>1, <1>2, ReceiveRank0Is, RankTypesOf0, SendResultType
  <2> QED BY <1>2, <2>1, ReceiveRank0Is, TypesSame
<1>3. CASE StepRank0
  BY <1>1, <1>3, TypesSame DEF StepRank0
<1>4. ASSUME NEW t \in Tokenizer, Drain(t) PROVE FrontTypes'
  BY <1>1, <1>4, TypesSame DEF Drain
<1>5. CASE ReceiveRank1(r)
  <2>1. UNCHANGED <<frontend, toFrontend, decodeMap>> /\ UNCHANGED toDetokenizer
    BY <1>5 DEF ReceiveRank1, Receive
  <2> QED BY <1>1, <2>1, TypesSame
<1>6. CASE StepRank1(r)
  BY <1>1, <1>6, TypesSame DEF StepRank1
<1> QED
  BY <1>2, <1>3, <1>4, <1>5, <1>6 DEF RankStep

LEMMA NextKeepsTypes ==
    ASSUME ClientsAssumption, TextAssumption, GroupAssumption, RankInv, FrontTypes, Streams, [Next]_vars
    PROVE  FrontTypes'
<1>1. ASSUME UNCHANGED <<frontend, toFrontend, decodeMap, toDetokenizer>>
      PROVE  FrontTypes'
  BY <1>1, TypesSame DEF FrontTypes
<1>2. CASE UNCHANGED vars
  BY <1>1, <1>2 DEF vars, queues
<1>3. CASE Clients
  BY <1>3, NewUserTypes, DisconnectTypes DEF Clients
<1>4. CASE Frontend
  BY <1>4, ListenTypes, WakeTypes, YieldTypes, AbortUserTypes DEF Frontend
<1>5. ASSUME NEW t \in Tokenizer, Tokenize(t) PROVE FrontTypes'
  BY <1>1, <1>5 DEF Tokenize
<1>6. CASE Workers
  BY <1>5, <1>6, DetokenizeTypes DEF Workers
<1>7. CASE Forward
  <2>1. toDetokenizer' \in Seq(Batches(TokenReply))
    BY <1>7, ForwardIs, RankTypesOf0, SendResultType DEF FrontTypes
  <2> QED BY <1>7, <2>1, ForwardIs, TypesSame
<1>8. ASSUME NEW p \in Process, Start(p) PROVE FrontTypes'
  BY <1>1, <1>8 DEF Start, queues
<1>9. CASE Idle
  BY <1>2, <1>9 DEF Idle
<1> QED
  BY <1>2, <1>3, <1>4, <1>6, <1>7, <1>8, <1>9, RankStepTypes DEF Next
-----------------------------------------------------------------------------
(* A request is sent once, and nothing is known of it before it arrives.    *)

Fresh(u) ==
    /\ got[u] = <<>> /\ taken[u] = <<>> /\ (u \in DOMAIN ackMap => ackMap[u] = <<>>)
    /\ NoWord(toFrontend, u) /\ NoWord(toDetokenizer, u)
    /\ u \notin DOMAIN decodeMap /\ u \notin DOMAIN live[0]

Holds(queue, u) == \E i \in 1 .. Len(queue) : queue[i] = TokenizeMsg(u)

InTokenizer(u) == \E t \in Tokenizer : Holds(toTokenizer[t], u)
InBackend(u)   == \E t \in Tokenizer : Holds(toBackend[t], u)

OnePlace(u) ==
    \A s, t \in Tokenizer : \A i \in 1 .. Len(toTokenizer[s]), j \in 1 .. Len(toTokenizer[t]) :
        toTokenizer[s][i] = TokenizeMsg(u) /\ toTokenizer[t][j] = TokenizeMsg(u) => s = t /\ i = j

OnTheWay(u) == InTokenizer(u) \/ InBackend(u) \/ Holds(raw, u)

LEMMA HoldsAppend ==
    ASSUME NEW S, NEW q \in Seq(S), NEW m \in S, NEW u
    PROVE  Holds(Append(q, m), u) <=> Holds(q, u) \/ m = TokenizeMsg(u)
<1> DEFINE q1 == Append(q, m)
<1>1. /\ Len(q) \in Nat /\ Len(q1) = Len(q) + 1 /\ q1[Len(q) + 1] = m
      /\ \A i \in 1 .. Len(q) : q1[i] = q[i]
  BY LenProperties, AppendProperties
<1> HIDE DEF q1
<1>2. 1 .. Len(q) + 1 = 1 .. Len(q) \cup {Len(q) + 1}
  BY <1>1
<1>3. Holds(q1, u) <=> Holds(q, u) \/ m = TokenizeMsg(u)
  BY <1>1, <1>2 DEF Holds
<1> QED
  BY <1>3 DEF q1

LEMMA HoldsHead ==
    ASSUME NEW S, NEW q \in Seq(S), q # <<>>, NEW u
    PROVE  Holds(q, u) <=> Holds(Tail(q), u) \/ Head(q) = TokenizeMsg(u)
<1> DEFINE q1 == Tail(q)
<1>1. /\ Len(q) \in Nat \ {0} /\ Head(q) = q[1] /\ Len(q1) = Len(q) - 1
      /\ \A i \in 1 .. Len(q) - 1 : q1[i] = q[i + 1]
  BY LenProperties, EmptySeq, HeadTailProperties
<1> HIDE DEF q1
<1>2. ASSUME Holds(q1, u) PROVE Holds(q, u)
  <2>1. PICK i \in 1 .. Len(q) - 1 : q1[i] = TokenizeMsg(u)
    BY <1>1, <1>2 DEF Holds
  <2>2. i + 1 \in 1 .. Len(q) /\ q[i + 1] = TokenizeMsg(u)
    BY <1>1, <2>1
  <2> QED BY <2>2 DEF Holds
<1>3. ASSUME Holds(q, u) PROVE Holds(q1, u) \/ Head(q) = TokenizeMsg(u)
  <2>1. PICK i \in 1 .. Len(q) : q[i] = TokenizeMsg(u)
    BY <1>3 DEF Holds
  <2>2. CASE i = 1
    BY <1>1, <2>1, <2>2
  <2>3. CASE i # 1
    <3>1. i - 1 \in 1 .. Len(q) - 1 /\ q1[i - 1] = q[i]
      BY <1>1, <2>3
    <3> QED BY <1>1, <2>1, <3>1 DEF Holds
  <2> QED BY <2>2, <2>3
<1>4. Head(q) = TokenizeMsg(u) => Holds(q, u)
  <2>1. 1 \in 1 .. Len(q)
    BY <1>1
  <2> QED BY <1>1, <2>1 DEF Holds
<1> QED
  BY <1>2, <1>3, <1>4 DEF q1

LEMMA HoldsEmpty == \A u : ~Holds(<<>>, u)
  BY DEF Holds

LEMMA NoWordTail ==
    ASSUME NEW S, NEW q \in Seq(S), q # <<>>, NEW u, NoWord(q, u)
    PROVE  NoWord(Tail(q), u) /\ \A a \in Head(q) : a.uid # u
<1>1. /\ Len(q) \in Nat \ {0} /\ Head(q) = q[1] /\ Len(Tail(q)) = Len(q) - 1
      /\ \A i \in 1 .. Len(q) - 1 : Tail(q)[i] = q[i + 1] /\ i + 1 \in 1 .. Len(q)
  BY LenProperties, EmptySeq, HeadTailProperties
<1>2. 1 \in 1 .. Len(q)
  BY <1>1
<1> QED
  BY <1>1, <1>2 DEF NoWord

LEMMA NoWordAppend ==
    ASSUME NEW S, NEW q \in Seq(S), NEW B \in S, NEW u, NoWord(q, u), \A a \in B : a.uid # u
    PROVE  NoWord(Append(q, B), u)
<1>1. /\ Len(q) \in Nat /\ Len(Append(q, B)) = Len(q) + 1 /\ Append(q, B)[Len(q) + 1] = B
      /\ \A i \in 1 .. Len(q) : Append(q, B)[i] = q[i]
  BY LenProperties, AppendProperties
<1>2. 1 .. Len(q) + 1 = 1 .. Len(q) \cup {Len(q) + 1}
  BY <1>1
<1> QED
  BY <1>1, <1>2 DEF NoWord

LEMMA NoWordEmpty == \A u : NoWord(<<>>, u)
  BY DEF NoWord

(* A request that rank 0 does not know gets no reply. *)
LEMMA NoReply ==
    ASSUME ClientsAssumption, NEW t \in Table, NEW res \in Results, NEW us \in SUBSET Client,
           NEW u, u \notin DOMAIN t,
           toDetokenizer \in Seq(Batches(TokenReply)), NoWord(toDetokenizer, u),
           SendResult(Reply(t, res, us))
    PROVE  NoWord(toDetokenizer', u) /\ u \notin DOMAIN Settled(t, res, us)
<1>1. \A a \in Reply(t, res, us) : a.uid # u
  BY DEF Reply
<1>2. Reply(t, res, us) \in Batches(TokenReply)
  BY ReplyType
<1>3. u \notin DOMAIN Settled(t, res, us)
  <2>1. DOMAIN Settled(t, res, us) \subseteq DOMAIN t
    BY DEF Settled
  <2> QED BY <2>1
<1> QED
  BY <1>1, <1>2, <1>3, NoWordAppend DEF SendResult

LEMMA FreshStays ==
    ASSUME ClientsAssumption, TextAssumption, GroupAssumption, RankInv, FrontTypes, Streams, [Next]_vars,
           NEW u \in Client, Fresh(u), raw' = <<>> => ~Holds(raw, u)
    PROVE  Fresh(u)'
<1>1. ASSUME UNCHANGED <<ackMap, taken, got, toFrontend, toDetokenizer, decodeMap>>,
             live'[0] = live[0]
      PROVE  Fresh(u)'
  BY <1>1 DEF Fresh
<1>2. /\ got[u] = <<>> /\ taken[u] = <<>> /\ (u \in DOMAIN ackMap => ackMap[u] = <<>>)
      /\ NoWord(toFrontend, u) /\ NoWord(toDetokenizer, u)
      /\ u \notin DOMAIN decodeMap /\ u \notin DOMAIN live[0]
  BY DEF Fresh
<1>3. CASE UNCHANGED vars
  BY <1>1, <1>3 DEF vars, queues, frontend, ranks
<1>4. ASSUME NEW v \in Client, NewUser(v) PROVE Fresh(u)'
  <2>1. /\ ackMap' = Put(ackMap, v, <<>>)
        /\ UNCHANGED <<taken, got, toFrontend, toDetokenizer, decodeMap, live>>
    BY <1>4 DEF NewUser, ranks
  <2>2. u \in DOMAIN ackMap' => ackMap'[u] = <<>>
    BY <1>2, <2>1 DEF Put
  <2> QED BY <1>2, <2>1, <2>2 DEF Fresh
<1>5. ASSUME NEW v \in Client, Disconnect(v) PROVE Fresh(u)'
  <2>1. /\ taken' = [taken EXCEPT ![v] = <<>>]
        /\ UNCHANGED <<ackMap, got, toFrontend, toDetokenizer, decodeMap, live>>
    BY <1>5 DEF Disconnect, queues, ranks
  <2>2. taken'[u] = <<>>
    BY <1>2, <2>1 DEF FrontTypes
  <2> QED BY <1>2, <2>1, <2>2 DEF Fresh
<1>6. CASE Listen
  <2>1. NoWord(toFrontend', u) /\ \A a \in Head(toFrontend) : a.uid # u
    <3>1. /\ toFrontend \in Seq(Batches(TextReply)) /\ toFrontend # <<>>
          /\ toFrontend' = Tail(toFrontend)
      BY <1>6, ListenIs DEF FrontTypes
    <3>2. NoWord(Tail(toFrontend), u) /\ \A a \in Head(toFrontend) : a.uid # u
      BY <1>2, <3>1, NoWordTail, Zenon
    <3> QED BY <3>1, <3>2
  <2>2. u \in DOMAIN ackMap' => ackMap'[u] = <<>>
    BY <1>2, <1>6, <2>1, ListenIs
  <2> QED BY <1>2, <1>6, <2>1, <2>2 DEF Fresh, Listen, ranks
<1>7. ASSUME NEW v \in Client, Wake(v) PROVE Fresh(u)'
  <2>1. /\ taken' = [taken EXCEPT ![v] = ackMap[v]] /\ ackMap' = [ackMap EXCEPT ![v] = <<>>]
        /\ UNCHANGED <<got, toFrontend, toDetokenizer, decodeMap, live>>
        /\ v \in DOMAIN ackMap
    BY <1>7 DEF Wake, queues, ranks, FrontTypes
  <2>2. taken'[u] = <<>>
    BY <1>2, <2>1 DEF FrontTypes
  <2>3. u \in DOMAIN ackMap' => ackMap'[u] = <<>>
    BY <1>2, <2>1
  <2> QED BY <1>2, <2>1, <2>2, <2>3 DEF Fresh
<1>8. ASSUME NEW v \in Client, Yield(v) PROVE Fresh(u)'
  <2>1. v # u
    BY <1>2, <1>8 DEF Yield
  <2>2. /\ taken' = [taken EXCEPT ![v] = Tail(@)]
        /\ got' = [got EXCEPT ![v] = @ \o Positions(Head(taken[v]).from, Head(taken[v]).to)]
        /\ UNCHANGED <<ackMap, toFrontend, toDetokenizer, decodeMap, live>>
    BY <1>8 DEF Yield, queues, ranks
  <2>3. taken'[u] = <<>> /\ got'[u] = <<>>
    BY <1>2, <2>1, <2>2 DEF FrontTypes
  <2> QED BY <1>2, <2>2, <2>3 DEF Fresh
<1>9. ASSUME NEW v \in Client, AbortUser(v) PROVE Fresh(u)'
  <2>1. /\ ackMap' = [w \in DOMAIN ackMap \ {v} |-> ackMap[w]]
        /\ UNCHANGED <<taken, got, toFrontend, toDetokenizer, decodeMap, live>>
    BY <1>9 DEF AbortUser, ranks
  <2> QED BY <1>2, <2>1 DEF Fresh
<1>10. ASSUME NEW t \in Tokenizer, Tokenize(t) PROVE Fresh(u)'
  BY <1>1, <1>10 DEF Tokenize, frontend, ranks
<1>11. CASE Detokenize
  <2>1. NoWord(toDetokenizer', u) /\ \A a \in Head(toDetokenizer) : a.uid # u
    <3>1. /\ toDetokenizer \in Seq(Batches(TokenReply)) /\ toDetokenizer # <<>>
          /\ toDetokenizer' = Tail(toDetokenizer)
      BY <1>11, DetokenizeIs DEF FrontTypes
    <3>2. NoWord(Tail(toDetokenizer), u) /\ \A a \in Head(toDetokenizer) : a.uid # u
      BY <1>2, <3>1, NoWordTail, Zenon
    <3> QED BY <3>1, <3>2
  <2>2. u \notin DOMAIN decodeMap'
    BY <1>2, <1>11, <2>1, DetokenizeIs
  <2> DEFINE C == {Increment(a) : a \in Head(toDetokenizer)}
  <2>3. C \in Batches(TextReply) /\ \A a \in C : a.uid # u
    <3>1. toDetokenizer # <<>>
      BY <1>11, DetokenizeIs
    <3>2. \A a \in Head(toDetokenizer) : Increment(a) \in TextReply /\ Increment(a).uid = a.uid
      BY <3>1, IncrementType
    <3>3. \A a, b \in Head(toDetokenizer) : a.uid = b.uid => a = b
      BY <1>11, DetokenizeIs DEF Batches
    <3> QED BY <2>1, <3>2, <3>3 DEF Batches
  <2>4. toFrontend' = Append(toFrontend, C)
    BY <1>11, DetokenizeIs
  <2> HIDE DEF C
  <2>5. NoWord(toFrontend', u)
    BY <1>2, <2>3, <2>4, NoWordAppend DEF FrontTypes
  <2>6. UNCHANGED <<ackMap, taken, got, live>>
    BY <1>11 DEF Detokenize, frontend, ranks
  <2> QED BY <1>2, <2>1, <2>2, <2>5, <2>6 DEF Fresh
<1>12. CASE Forward
  <2>1. NoWord(toDetokenizer', u) /\ u \notin DOMAIN live'[0]
    <3>1. PICK t, res, us : t = live[0] /\ res = last[0] /\ us = batch[0]
      OBVIOUS
    <3>2. t \in Table /\ res \in Results /\ us \in SUBSET Client
      BY <3>1, RankTypesOf0
    <3>3. live'[0] = Settled(t, res, us) /\ SendResult(Reply(t, res, us)) /\ u \notin DOMAIN t
      BY <1>2, <1>12, <3>1, ForwardIs
    <3>4. toDetokenizer \in Seq(Batches(TokenReply))
      BY DEF FrontTypes
    <3>5. NoWord(toDetokenizer', u) /\ u \notin DOMAIN Settled(t, res, us)
      BY <1>2, <3>2, <3>3, <3>4, NoReply
    <3> QED BY <3>3, <3>5
  <2> QED BY <1>2, <1>12, <2>1, ForwardIs DEF Fresh, frontend
<1>13. CASE ReceiveRank0
  <2> DEFINE t == Processed(live[0], raw)
  <2>1. t \in Table /\ last[0] \in Results /\ raw \in Seq(UserMessage) /\ live[0] \in Table
    BY RankTypesOf0
  <2>2. u \notin DOMAIN t
    BY <1>2, <1>13, <2>1, ReceiveRank0Is, ProcessedType DEF Holds
  <2>3. DOMAIN live = Rank /\ 0 \in Rank
    BY DEF RankInv, RankTypes, Rank
  <2> HIDE DEF t
  <2>4. \/ live' = [live EXCEPT ![0] = Settled(t, last[0], {})] /\ SendResult(Reply(t, last[0], {}))
        \/ live' = [live EXCEPT ![0] = t] /\ UNCHANGED toDetokenizer
    BY <1>13, ReceiveRank0Is DEF t
  <2>5. NoWord(toDetokenizer', u) /\ u \notin DOMAIN live'[0]
    <3>1. PICK res, us : res = last[0] /\ us = {}
      OBVIOUS
    <3>2. res \in Results /\ us \in SUBSET Client
      BY <2>1, <3>1
    <3>3. CASE live' = [live EXCEPT ![0] = Settled(t, res, us)] /\ SendResult(Reply(t, res, us))
      <4>1. live'[0] = Settled(t, res, us)
        BY <2>3, <3>3
      <4>2. toDetokenizer \in Seq(Batches(TokenReply))
        BY DEF FrontTypes
      <4>3. NoWord(toDetokenizer', u) /\ u \notin DOMAIN Settled(t, res, us)
        BY <1>2, <2>1, <2>2, <3>2, <3>3, <4>2, NoReply
      <4> QED BY <4>1, <4>3
    <3>4. CASE live' = [live EXCEPT ![0] = t] /\ UNCHANGED toDetokenizer
      BY <1>2, <2>2, <2>3, <3>4
    <3> QED BY <2>4, <3>1, <3>3, <3>4
  <2> QED BY <1>2, <1>13, <2>5, ReceiveRank0Is DEF Fresh, frontend
<1>14. CASE StepRank0
  BY <1>1, <1>14 DEF StepRank0, frontend
<1>15. ASSUME NEW t \in Tokenizer, Drain(t) PROVE Fresh(u)'
  BY <1>1, <1>15 DEF Drain, frontend
<1>16. ASSUME NEW r \in Rank, ReceiveRank1(r) PROVE Fresh(u)'
  <2>1. UNCHANGED <<frontend, toFrontend, toDetokenizer, decodeMap>> /\ live'[0] = live[0]
    <3>1. /\ r # 0 /\ UNCHANGED <<frontend, toFrontend, decodeMap>>
          /\ Receive(r, SubSeq(pub[r], 1, Head(counts[r])))
      BY <1>16 DEF ReceiveRank1
    <3>2. UNCHANGED toDetokenizer /\ \E f : live' = [live EXCEPT ![r] = f]
      BY <3>1 DEF Receive
    <3> QED BY <3>1, <3>2
  <2> QED BY <1>1, <2>1 DEF frontend
<1>17. ASSUME NEW r \in Rank, StepRank1(r) PROVE Fresh(u)'
  BY <1>1, <1>17 DEF StepRank1, frontend
<1>18. ASSUME NEW p \in Process, Start(p) PROVE Fresh(u)'
  BY <1>1, <1>18 DEF Start, queues, frontend, ranks
<1>19. CASE Clients
  BY <1>4, <1>5, <1>19 DEF Clients
<1>20. CASE Frontend
  BY <1>6, <1>7, <1>8, <1>9, <1>20 DEF Frontend
<1>21. CASE Workers
  BY <1>10, <1>11, <1>21 DEF Workers
<1>22. ASSUME NEW r \in Rank, RankStep(r) PROVE Fresh(u)'
  BY <1>13, <1>14, <1>15, <1>16, <1>17, <1>22 DEF RankStep
<1>23. CASE Idle
  BY <1>3, <1>23 DEF Idle
<1> QED
  BY <1>3, <1>12, <1>18, <1>19, <1>20, <1>21, <1>22, <1>23 DEF Next

(* A message that a worker receives. *)
LEMMA SendOneIs ==
    ASSUME RankTypes, NEW msg \in UserMessage, SendOne(msg), NEW u \in Client
    PROVE  /\ InTokenizer(u)' <=> InTokenizer(u) \/ msg = TokenizeMsg(u)
           /\ OnePlace(u) /\ (msg = TokenizeMsg(u) => ~InTokenizer(u)) => OnePlace(u)'
<1>1. PICK t \in Tokenizer : toTokenizer' = [toTokenizer EXCEPT ![t] = Append(@, msg)]
  BY DEF SendOne
<1>2. \A s \in Tokenizer : toTokenizer[s] \in Seq(UserMessage)
  BY DEF RankTypes
<1>3. \A s \in Tokenizer : toTokenizer'[s] = IF s = t THEN Append(toTokenizer[t], msg) ELSE toTokenizer[s]
  BY <1>1 DEF RankTypes
<1>4. Holds(Append(toTokenizer[t], msg), u) <=> Holds(toTokenizer[t], u) \/ msg = TokenizeMsg(u)
  BY <1>2, HoldsAppend
<1>5. InTokenizer(u)' <=> InTokenizer(u) \/ msg = TokenizeMsg(u)
  BY <1>3, <1>4 DEF InTokenizer
<1> DEFINE n == Len(toTokenizer[t])
<1>6. /\ n \in Nat /\ Len(toTokenizer'[t]) = n + 1 /\ toTokenizer'[t][n + 1] = msg
      /\ \A i \in 1 .. n : toTokenizer'[t][i] = toTokenizer[t][i]
  <2>1. toTokenizer'[t] = Append(toTokenizer[t], msg) /\ toTokenizer[t] \in Seq(UserMessage)
    BY <1>2, <1>3
  <2>2. /\ n \in Nat /\ Len(Append(toTokenizer[t], msg)) = n + 1
        /\ Append(toTokenizer[t], msg)[n + 1] = msg
        /\ \A i \in 1 .. n : Append(toTokenizer[t], msg)[i] = toTokenizer[t][i]
    BY <2>1, LenProperties, AppendProperties
  <2> HIDE DEF n
  <2> QED BY <2>1, <2>2
<1> HIDE DEF n
<1>7. ASSUME NEW s \in Tokenizer, NEW i \in 1 .. Len(toTokenizer'[s])
      PROVE  \/ i \in 1 .. Len(toTokenizer[s]) /\ toTokenizer'[s][i] = toTokenizer[s][i]
             \/ s = t /\ i = n + 1 /\ toTokenizer'[s][i] = msg
  BY <1>3, <1>6, <1>7 DEF n
<1>8. ASSUME OnePlace(u), msg = TokenizeMsg(u) => ~InTokenizer(u)
      PROVE  OnePlace(u)'
  <2> SUFFICES ASSUME NEW s \in Tokenizer, NEW w \in Tokenizer, NEW i \in 1 .. Len(toTokenizer'[s]),
                      NEW j \in 1 .. Len(toTokenizer'[w]), toTokenizer'[s][i] = TokenizeMsg(u),
                      toTokenizer'[w][j] = TokenizeMsg(u)
               PROVE  s = w /\ i = j
    BY DEF OnePlace, TokenizeMsg
  <2>1. CASE msg = TokenizeMsg(u)
    <3>1. \A r \in Tokenizer : \A k \in 1 .. Len(toTokenizer[r]) : toTokenizer[r][k] # TokenizeMsg(u)
      BY <1>8, <2>1 DEF InTokenizer, Holds
    <3>2. s = t /\ i = n + 1
      BY <1>7, <3>1
    <3>3. w = t /\ j = n + 1
      BY <1>7, <3>1
    <3> QED BY <3>2, <3>3
  <2>2. CASE msg # TokenizeMsg(u)
    <3>1. i \in 1 .. Len(toTokenizer[s]) /\ toTokenizer'[s][i] = toTokenizer[s][i]
      BY <1>7, <2>2
    <3>2. j \in 1 .. Len(toTokenizer[w]) /\ toTokenizer'[w][j] = toTokenizer[w][j]
      BY <1>7, <2>2
    <3> QED BY <1>8, <3>1, <3>2 DEF OnePlace
  <2> QED BY <2>1, <2>2
<1> QED
  BY <1>5, <1>8

(* A message that a worker passes on. *)
LEMMA TokenizeIs ==
    ASSUME RankTypes, NEW t \in Tokenizer, Tokenize(t), NEW u \in Client
    PROVE  LET msg == Head(toTokenizer[t])
           IN  /\ InTokenizer(u) <=> InTokenizer(u)' \/ msg = TokenizeMsg(u)
               /\ InBackend(u)' <=> InBackend(u) \/ msg = TokenizeMsg(u)
               /\ OnePlace(u) => OnePlace(u)' /\ (InTokenizer(u)' => msg # TokenizeMsg(u))
<1> DEFINE msg == Head(toTokenizer[t])
           n == Len(toTokenizer[t])
<1>1. /\ toTokenizer[t] # <<>>
      /\ toBackend' = [toBackend EXCEPT ![t] = Append(@, msg)]
      /\ toTokenizer' = [toTokenizer EXCEPT ![t] = Tail(@)]
  BY DEF Tokenize
<1>2. \A s \in Tokenizer : toTokenizer[s] \in Seq(UserMessage) /\ toBackend[s] \in Seq(UserMessage)
  BY DEF RankTypes
<1>3. /\ \A s \in Tokenizer : toTokenizer'[s] = IF s = t THEN Tail(toTokenizer[t]) ELSE toTokenizer[s]
      /\ \A s \in Tokenizer : toBackend'[s] = IF s = t THEN Append(toBackend[t], msg) ELSE toBackend[s]
  BY <1>1 DEF RankTypes
<1>4. Holds(toTokenizer[t], u) <=> Holds(Tail(toTokenizer[t]), u) \/ msg = TokenizeMsg(u)
  BY <1>1, <1>2, HoldsHead
<1>5. msg \in UserMessage
  BY <1>1, <1>2, HeadTailProperties
<1>6. Holds(Append(toBackend[t], msg), u) <=> Holds(toBackend[t], u) \/ msg = TokenizeMsg(u)
  BY <1>2, <1>5, HoldsAppend
<1>7. /\ n \in Nat \ {0} /\ msg = toTokenizer[t][1] /\ Len(toTokenizer'[t]) = n - 1
      /\ \A i \in 1 .. n - 1 : toTokenizer'[t][i] = toTokenizer[t][i + 1]
  <2>1. /\ toTokenizer'[t] = Tail(toTokenizer[t]) /\ toTokenizer[t] \in Seq(UserMessage)
        /\ toTokenizer[t] # <<>>
    BY <1>1, <1>2, <1>3
  <2>2. /\ n \in Nat \ {0} /\ msg = toTokenizer[t][1] /\ Len(Tail(toTokenizer[t])) = n - 1
        /\ \A i \in 1 .. n - 1 : Tail(toTokenizer[t])[i] = toTokenizer[t][i + 1]
    BY <2>1, LenProperties, EmptySeq, HeadTailProperties
  <2> HIDE DEF n, msg
  <2> QED BY <2>1, <2>2
<1> HIDE DEF msg, n
<1>8. InTokenizer(u) <=> InTokenizer(u)' \/ msg = TokenizeMsg(u)
  BY <1>3, <1>4 DEF InTokenizer
<1>9. InBackend(u)' <=> InBackend(u) \/ msg = TokenizeMsg(u)
  BY <1>3, <1>6 DEF InBackend
<1>10. ASSUME NEW s \in Tokenizer, NEW i \in 1 .. Len(toTokenizer'[s])
       PROVE  \/ s # t /\ i \in 1 .. Len(toTokenizer[s]) /\ toTokenizer'[s][i] = toTokenizer[s][i]
              \/ /\ s = t /\ i + 1 \in 1 .. Len(toTokenizer[s]) /\ i + 1 # 1
                 /\ toTokenizer'[s][i] = toTokenizer[s][i + 1]
  <2>1. CASE s = t
    <3>1. i \in 1 .. n - 1
      BY <1>7, <1>10, <2>1
    <3>2. i + 1 \in 1 .. n /\ i + 1 # 1
      BY <1>7, <3>1
    <3> QED BY <1>7, <2>1, <3>1, <3>2 DEF n
  <2>2. CASE s # t
    BY <1>3, <1>10, <2>2
  <2> QED BY <2>1, <2>2
<1>11. ASSUME OnePlace(u)
       PROVE  OnePlace(u)'
  <2> SUFFICES ASSUME NEW s \in Tokenizer, NEW w \in Tokenizer, NEW i \in 1 .. Len(toTokenizer'[s]),
                      NEW j \in 1 .. Len(toTokenizer'[w]), toTokenizer'[s][i] = TokenizeMsg(u),
                      toTokenizer'[w][j] = TokenizeMsg(u)
               PROVE  s = w /\ i = j
    BY DEF OnePlace, TokenizeMsg
  <2>0. i \in Int /\ j \in Int
    OBVIOUS
  <2>1. PICK k \in 1 .. Len(toTokenizer[s]) : k = (IF s = t THEN i + 1 ELSE i) /\ toTokenizer[s][k] = TokenizeMsg(u)
    BY <1>10
  <2>2. PICK l \in 1 .. Len(toTokenizer[w]) : l = (IF w = t THEN j + 1 ELSE j) /\ toTokenizer[w][l] = TokenizeMsg(u)
    BY <1>10
  <2>3. s = w /\ k = l
    BY <1>11, <2>1, <2>2 DEF OnePlace
  <2> QED BY <2>0, <2>1, <2>2, <2>3
<1>12. ASSUME OnePlace(u), InTokenizer(u)'
       PROVE  msg # TokenizeMsg(u)
  <2>1. PICK s \in Tokenizer : \E i \in 1 .. Len(toTokenizer'[s]) : toTokenizer'[s][i] = TokenizeMsg(u)
    BY <1>12 DEF InTokenizer, Holds, TokenizeMsg
  <2>2. PICK i \in 1 .. Len(toTokenizer[s]) : toTokenizer[s][i] = TokenizeMsg(u) /\ ~(s = t /\ i = 1)
    BY <1>10, <2>1
  <2>3. 1 \in 1 .. Len(toTokenizer[t])
    BY <1>7 DEF n
  <2> QED BY <1>7, <1>12, <2>2, <2>3 DEF OnePlace
<1> QED
  BY <1>8, <1>9, <1>11, <1>12 DEF msg

(* A message that rank 0 drains. *)
LEMMA DrainIs ==
    ASSUME RankTypes, NEW t \in Tokenizer, Drain(t), NEW u \in Client
    PROVE  InBackend(u)' \/ Holds(raw, u)' <=> InBackend(u) \/ Holds(raw, u)
<1> DEFINE msg == Head(toBackend[t])
<1>1. /\ toBackend[t] # <<>> /\ raw' = Append(raw, msg)
      /\ toBackend' = [toBackend EXCEPT ![t] = Tail(@)]
  BY DEF Drain
<1>2. raw \in Seq(UserMessage) /\ \A s \in Tokenizer : toBackend[s] \in Seq(UserMessage)
  BY DEF RankTypes
<1>3. \A s \in Tokenizer : toBackend'[s] = IF s = t THEN Tail(toBackend[t]) ELSE toBackend[s]
  BY <1>1 DEF RankTypes
<1>4. Holds(toBackend[t], u) <=> Holds(Tail(toBackend[t]), u) \/ msg = TokenizeMsg(u)
  BY <1>1, <1>2, HoldsHead
<1>5. msg \in UserMessage
  BY <1>1, <1>2, HeadTailProperties
<1>6. Holds(raw', u) <=> Holds(raw, u) \/ msg = TokenizeMsg(u)
  BY <1>1, <1>2, <1>5, HoldsAppend
<1> HIDE DEF msg
<1> QED
  BY <1>3, <1>4, <1>6 DEF InBackend

(* Who is fresh after a step was so before it, and rank 0 has not taken his *)
(* message.                                                                 *)
Early(u) == phase[u] = "new" \/ OnTheWay(u)

OnceFor(u) ==
    /\ OnePlace(u)
    /\ InTokenizer(u) => ~InBackend(u) /\ ~Holds(raw, u)
    /\ OnTheWay(u) => phase[u] # "new"

LEMMA QueuesSame ==
    ASSUME UNCHANGED <<toTokenizer, toBackend, raw>>, NEW u \in Client, OnceFor(u),
           phase'[u] = "new" <=> phase[u] = "new"
    PROVE  /\ OnceFor(u)'
           /\ Early(u)' => Early(u) /\ (raw' = <<>> => ~Holds(raw, u))
<1>1. OnePlace(u)' <=> OnePlace(u)
  BY DEF OnePlace, TokenizeMsg
<1>2. /\ InTokenizer(u)' <=> InTokenizer(u)
      /\ InBackend(u)' <=> InBackend(u)
      /\ Holds(raw, u)' <=> Holds(raw, u)
  BY DEF InTokenizer, InBackend, Holds, TokenizeMsg
<1>3. raw' = <<>> => ~Holds(raw, u)
  BY HoldsEmpty
<1> QED
  BY <1>1, <1>2, <1>3 DEF OnTheWay, OnceFor, Early

LEMMA OnceStays ==
    ASSUME ClientsAssumption, GroupAssumption, RankInv, FrontTypes, [Next]_vars,
           NEW u \in Client, OnceFor(u)
    PROVE  /\ OnceFor(u)'
           /\ Early(u)' => Early(u) /\ (raw' = <<>> => ~Holds(raw, u))
<1> DEFINE Goal == /\ OnceFor(u)'
                   /\ Early(u)' => Early(u) /\ (raw' = <<>> => ~Holds(raw, u))
<1> SUFFICES Goal
  OBVIOUS
<1>1. RankTypes
  BY DEF RankInv
<1>2. ASSUME UNCHANGED <<toTokenizer, toBackend, raw>>, phase'[u] = "new" <=> phase[u] = "new"
      PROVE  Goal
  BY <1>2, QueuesSame
<1>3. ASSUME UNCHANGED <<toBackend, raw>>, NEW msg \in UserMessage, SendOne(msg),
             phase'[u] = "new" => phase[u] = "new" /\ msg # TokenizeMsg(u),
             msg = TokenizeMsg(u) => phase[u] = "new"
      PROVE  Goal
  <2>1. /\ InTokenizer(u)' <=> InTokenizer(u) \/ msg = TokenizeMsg(u)
        /\ OnePlace(u) /\ (msg = TokenizeMsg(u) => ~InTokenizer(u)) => OnePlace(u)'
    BY <1>1, <1>3, SendOneIs
  <2>2. (InBackend(u)' <=> InBackend(u)) /\ (Holds(raw, u)' <=> Holds(raw, u))
    BY <1>3 DEF InBackend, Holds, TokenizeMsg
  <2>3. raw' = <<>> => ~Holds(raw, u)
    BY <1>3, HoldsEmpty
  <2> HIDE DEF Goal
  <2>4. OnceFor(u)'
    BY <1>3, <2>1, <2>2 DEF OnceFor, OnTheWay
  <2>5. Early(u)' => Early(u)
    BY <1>3, <2>1, <2>2 DEF Early, OnTheWay
  <2> QED BY <2>3, <2>4, <2>5 DEF Goal
<1>4. CASE UNCHANGED vars
  BY <1>2, <1>4 DEF vars, queues, ranks, frontend
<1>5. ASSUME NEW v \in Client, NewUser(v) PROVE Goal
  <2>1. /\ phase[v] = "new" /\ phase' = [phase EXCEPT ![v] = "waiting"]
        /\ SendOne(TokenizeMsg(v)) /\ UNCHANGED <<toBackend, raw>>
    BY <1>5 DEF NewUser, ranks
  <2>2. TokenizeMsg(v) \in UserMessage /\ (TokenizeMsg(v) = TokenizeMsg(u) => v = u)
    BY DEF TokenizeMsg, UserMessage
  <2>3. phase'[u] = IF u = v THEN "waiting" ELSE phase[u]
    BY <2>1 DEF FrontTypes
  <2> HIDE DEF Goal
  <2> QED BY <1>3, <2>1, <2>2, <2>3
<1>6. ASSUME NEW v \in Client, Disconnect(v) PROVE Goal
  <2>1. /\ phase[v] = "waiting" /\ phase' = [phase EXCEPT ![v] = "gone"]
        /\ UNCHANGED <<toTokenizer, toBackend, raw>>
    BY <1>6 DEF Disconnect, queues, ranks
  <2>2. phase'[u] = IF u = v THEN "gone" ELSE phase[u]
    BY <2>1 DEF FrontTypes
  <2> HIDE DEF Goal
  <2> QED BY <1>2, <2>1, <2>2
<1>7. CASE Listen
  BY <1>2, <1>7 DEF Listen, ranks
<1>8. ASSUME NEW v \in Client, Wake(v) PROVE Goal
  BY <1>2, <1>8 DEF Wake, queues, ranks
<1>9. ASSUME NEW v \in Client, Yield(v) PROVE Goal
  <2>1. /\ phase[v] = "waiting"
        /\ phase' = [phase EXCEPT ![v] = IF Head(taken[v]).finished THEN "done" ELSE @]
        /\ UNCHANGED <<toTokenizer, toBackend, raw>>
    BY <1>9 DEF Yield, queues, ranks
  <2>2. phase'[u] = "new" <=> phase[u] = "new"
    BY <2>1 DEF FrontTypes
  <2> HIDE DEF Goal
  <2> QED BY <1>2, <2>1, <2>2
<1>10. ASSUME NEW v \in Client, AbortUser(v) PROVE Goal
  <2>1. SendOne(AbortMsg(v)) /\ UNCHANGED <<phase, toBackend, raw>>
    BY <1>10 DEF AbortUser, ranks
  <2>2. AbortMsg(v) \in UserMessage /\ AbortMsg(v) # TokenizeMsg(u)
    BY DEF AbortMsg, TokenizeMsg, UserMessage
  <2> HIDE DEF Goal
  <2> QED BY <1>3, <2>1, <2>2
<1>11. ASSUME NEW t \in Tokenizer, Tokenize(t) PROVE Goal
  <2>1. UNCHANGED <<phase, raw>>
    BY <1>11 DEF Tokenize, frontend, ranks
  <2>2. Holds(raw, u)' <=> Holds(raw, u)
    BY <2>1 DEF Holds, TokenizeMsg
  <2>3. raw' = <<>> => ~Holds(raw, u)
    BY <2>1, HoldsEmpty
  <2> DEFINE sent == Head(toTokenizer[t]) = TokenizeMsg(u)
  <2>4. /\ InTokenizer(u) <=> InTokenizer(u)' \/ sent
        /\ InBackend(u)' <=> InBackend(u) \/ sent
        /\ OnePlace(u) => OnePlace(u)' /\ (InTokenizer(u)' => ~sent)
    BY <1>1, <1>11, TokenizeIs
  <2> HIDE DEF Goal, sent
  <2>5. OnceFor(u)'
    BY <2>1, <2>2, <2>4 DEF OnceFor, OnTheWay
  <2>6. Early(u)' => Early(u)
    BY <2>1, <2>2, <2>4 DEF Early, OnTheWay
  <2> QED BY <2>3, <2>5, <2>6 DEF Goal
<1>12. ASSUME NEW t \in Tokenizer, Drain(t) PROVE Goal
  <2>1. UNCHANGED <<phase, toTokenizer>>
    BY <1>12 DEF Drain, frontend
  <2>2. (InTokenizer(u)' <=> InTokenizer(u)) /\ (OnePlace(u)' <=> OnePlace(u))
    BY <2>1 DEF InTokenizer, Holds, OnePlace, TokenizeMsg
  <2>3. InBackend(u)' \/ Holds(raw, u)' <=> InBackend(u) \/ Holds(raw, u)
    BY <1>1, <1>12, DrainIs
  <2>4. raw' # <<>>
    <3>1. /\ raw' = Append(raw, Head(toBackend[t])) /\ raw \in Seq(UserMessage)
          /\ toBackend[t] \in Seq(UserMessage) /\ toBackend[t] # <<>>
      BY <1>1, <1>12 DEF Drain, RankTypes
    <3>2. Head(toBackend[t]) \in UserMessage
      BY <3>1, HeadTailProperties
    <3> QED BY <3>1, <3>2, AppendProperties
  <2> HIDE DEF Goal
  <2>5. OnceFor(u)'
    BY <2>1, <2>2, <2>3 DEF OnceFor, OnTheWay
  <2>6. Early(u)' => Early(u)
    BY <2>1, <2>2, <2>3 DEF Early, OnTheWay
  <2> QED BY <2>4, <2>5, <2>6 DEF Goal
<1>13. CASE Detokenize
  BY <1>2, <1>13 DEF Detokenize, frontend, ranks
<1>14. CASE Forward
  BY <1>2, <1>14 DEF Forward, frontend
<1>15. CASE ReceiveRank0
  <2>1. /\ UNCHANGED <<phase, toTokenizer, toBackend>> /\ raw' = <<>>
        /\ \A t \in Tokenizer : toBackend[t] = <<>>
    BY <1>15, ReceiveRank0Is DEF frontend
  <2>2. (InTokenizer(u)' <=> InTokenizer(u)) /\ (OnePlace(u)' <=> OnePlace(u))
    BY <2>1 DEF InTokenizer, Holds, OnePlace, TokenizeMsg
  <2>3. ~InBackend(u)' /\ ~Holds(raw, u)'
    BY <2>1, HoldsEmpty DEF InBackend, Holds
  <2> HIDE DEF Goal
  <2>4. OnceFor(u)'
    BY <2>1, <2>2, <2>3 DEF OnceFor, OnTheWay
  <2>5. Early(u)' => Early(u) /\ ~Holds(raw, u)
    BY <2>1, <2>2, <2>3 DEF Early, OnTheWay, OnceFor
  <2> QED BY <2>4, <2>5 DEF Goal
<1>16. CASE StepRank0
  BY <1>2, <1>16 DEF StepRank0, frontend
<1>17. ASSUME NEW r \in Rank, ReceiveRank1(r) \/ StepRank1(r) PROVE Goal
  BY <1>2, <1>17 DEF ReceiveRank1, StepRank1, frontend
<1>18. ASSUME NEW p \in Process, Start(p) PROVE Goal
  BY <1>2, <1>18 DEF Start, queues, frontend, ranks
<1>19. CASE Clients
  BY <1>5, <1>6, <1>19 DEF Clients
<1>20. CASE Frontend
  BY <1>7, <1>8, <1>9, <1>10, <1>20 DEF Frontend
<1>21. CASE Workers
  BY <1>11, <1>13, <1>21 DEF Workers
<1>22. ASSUME NEW r \in Rank, RankStep(r) PROVE Goal
  BY <1>12, <1>15, <1>16, <1>17, <1>22 DEF RankStep
<1>23. CASE Idle
  BY <1>4, <1>23 DEF Idle
<1> HIDE DEF Goal
<1> QED
  BY <1>4, <1>14, <1>18, <1>19, <1>20, <1>21, <1>22, <1>23 DEF Next

FreshBefore == \A u \in Client : OnceFor(u) /\ (Early(u) => Fresh(u))

LEMMA InitFresh ==
    ASSUME Init
    PROVE  FreshBefore
<1> SUFFICES ASSUME NEW u \in Client
             PROVE  OnceFor(u) /\ Fresh(u)
  BY DEF FreshBefore
<1>1. /\ \A t \in Tokenizer : toTokenizer[t] = <<>> /\ toBackend[t] = <<>>
      /\ raw = <<>>
  BY DEF Init
<1>2. ~InTokenizer(u) /\ ~InBackend(u) /\ ~Holds(raw, u)
  BY <1>1, HoldsEmpty DEF InTokenizer, InBackend
<1>3. OnePlace(u)
  BY <1>1 DEF OnePlace
<1>4. Fresh(u)
  BY NoWordEmpty DEF Init, Fresh, Rank
<1> QED
  BY <1>2, <1>3, <1>4 DEF OnceFor, OnTheWay

LEMMA FreshBeforeStays ==
    ASSUME ClientsAssumption, TextAssumption, GroupAssumption, RankInv, FrontTypes, Streams, FreshBefore,
           [Next]_vars
    PROVE  FreshBefore'
<1> SUFFICES ASSUME NEW u \in Client
             PROVE  (OnceFor(u) /\ (Early(u) => Fresh(u)))'
  BY DEF FreshBefore
<1>1. OnceFor(u) /\ (Early(u) => Fresh(u))
  BY DEF FreshBefore
<1> QED
  BY <1>1, OnceStays, FreshStays
-----------------------------------------------------------------------------
LEMMA SinglesFree ==
    ASSUME NEW u
    PROVE  Singles(<<>>) \in Seq(SUBSET {}) /\ NoWord(Singles(<<>>), u)
<1>1. <<>> \in Seq(SUBSET {})
  OBVIOUS
<1> QED
  BY <1>1, SinglesEmpty, NoWordEmpty

LEMMA LimitIs ==
    ASSUME NEW u
    PROVE  Limit(u, "token") = OutLen[u] + 1 /\ Limit(u, "text") = TextLen(u)
  BY DEF Limit

LEMMA HasNone ==
    ASSUME NEW u, got[u] = <<>>
    PROVE  Has(u, 0)
  BY PositionsNone, CoversNone DEF Has

LEMMA FreshStream ==
    ASSUME ClientsAssumption, TextAssumption, FrontTypes, NEW u \in Client, Fresh(u),
           NEW t, u \in DOMAIN t => t[u] = 0
    PROVE  StreamOf(u, t)
<1>1. 0 \in 0 .. OutLen[u] + 1 /\ 0 \in 0 .. TextLen(u)
  <2>1. OutLen[u] \in Nat /\ TextLen(u) \in Nat
    BY TextIs
  <2> QED BY <2>1
<1>2. /\ got[u] = <<>> /\ taken[u] = <<>> /\ (u \in DOMAIN ackMap => ackMap[u] = <<>>)
      /\ NoWord(toFrontend, u) /\ NoWord(toDetokenizer, u) /\ u \notin DOMAIN decodeMap
  BY DEF Fresh
<1>3. Way(toDetokenizer, u, 0, 0, "token")
  BY <1>1, <1>2, WayNone, LimitIs DEF FrontTypes
<1>4. Way(toFrontend, u, 0, 0, "text")
  BY <1>1, <1>2, WayNone, LimitIs DEF FrontTypes
<1>5. Way(Singles(<<>>), u, 0, 0, "text")
  BY <1>1, SinglesFree, WayNone, LimitIs
<1>6. ASSUME phase[u] = "waiting" PROVE FrontOf(u, 0)
  <2>1. u \in DOMAIN ackMap /\ ackMap[u] = <<>>
    BY <1>2, <1>6 DEF FrontTypes
  <2>2. Has(u, 0) /\ SentTo(u, 0, 0)
    BY <1>2, HasNone DEF SentTo
  <2> QED BY <1>1, <1>2, <1>4, <1>5, <2>1, <2>2 DEF FrontOf
<1>7. DecodedTo(u, 0)
  BY <1>2 DEF DecodedTo
<1> QED
  BY <1>1, <1>2, <1>3, <1>6, <1>7 DEF StreamOf

LEMMA FreshPrefix ==
    ASSUME NEW u, got[u] = <<>>, phase[u] # "done"
    PROVE  PrefixOf(u)
<1>1. Len(<<>>) = 0
  OBVIOUS
<1> QED
  BY <1>1, PositionsNone DEF PrefixOf, NoGap

(* A step that leaves the stream of u alone. *)
LEMMA StreamSame ==
    ASSUME NEW u, NEW t, StreamOf(u, t),
           UNCHANGED <<toDetokenizer, toFrontend, decodeMap>>,
           phase'[u] = "waiting" =>
              /\ phase[u] = "waiting" /\ u \in DOMAIN ackMap'
              /\ ackMap'[u] = ackMap[u] /\ taken'[u] = taken[u] /\ got'[u] = got[u]
    PROVE  StreamOf(u, t)'
<1>1. PICK a \in 0 .. OutLen[u] + 1, b \in 0 .. OutLen[u] + 1 :
        /\ Way(toDetokenizer, u, a, b, "token")
        /\ u \in DOMAIN t => t[u] = b
        /\ DecodedTo(u, a)
        /\ phase[u] = "waiting" => FrontOf(u, a)
  BY DEF StreamOf
<1>2. Way(toDetokenizer', u, a, b, "token")
  BY <1>1
<1>3. ASSUME phase'[u] = "waiting" PROVE FrontOf(u, a)'
  BY <1>1, <1>3 DEF FrontOf, Has, SentTo
<1>4. DecodedTo(u, a)'
  BY <1>1 DEF DecodedTo
<1> QED
  BY <1>1, <1>2, <1>3, <1>4 DEF StreamOf

(* Rank 0 commits what a batch has computed, and says so. *)
LEMMA SettleStream ==
    ASSUME ClientsAssumption, FrontTypes, NEW t \in Table, NEW res \in Results,
           NEW us \in SUBSET Client, NEW u \in Client,
           StreamOf(u, t), SendResult(Reply(t, res, us)), UNCHANGED <<frontend, toFrontend, decodeMap>>,
           NEW t1, t1 = Settled(t, res, us)
    PROVE  StreamOf(u, t1)'
<1> DEFINE reply == Reply(t, res, us)
<1>1. PICK a \in 0 .. OutLen[u] + 1, b \in 0 .. OutLen[u] + 1 :
        /\ Way(toDetokenizer, u, a, b, "token")
        /\ u \in DOMAIN t => t[u] = b
        /\ DecodedTo(u, a)
        /\ phase[u] = "waiting" => FrontOf(u, a)
  BY DEF StreamOf
<1>2. reply \in Batches(TokenReply) /\ toDetokenizer \in Seq(Batches(TokenReply))
  BY ReplyType DEF FrontTypes
<1>3. /\ u \in DOMAIN t1 => u \in DOMAIN t /\ (u \in DOMAIN res => ~Finished(t, res, us, u))
      /\ u \in DOMAIN t1 => t1[u] = IF u \in DOMAIN res THEN NextLen(t, res, u) ELSE t[u]
  BY SettledShape
<1>4. PICK c \in 0 .. OutLen[u] + 1 :
        /\ Piece(reply, u, b, c, "token") /\ (u \in DOMAIN t1 => t1[u] = c)
        /\ reply = {} => c = b
  <2>1. CASE u \in DOMAIN res \cap DOMAIN t
    <3>1. PICK n, f : n = NextLen(t, res, u) /\ f = Finished(t, res, us, u)
      OBVIOUS
    <3>2. PICK a1 : a1 = [uid |-> u, from |-> b + 1, to |-> n, finished |-> f]
      OBVIOUS
    <3>3. /\ a1.uid = u /\ a1.from = b + 1 /\ a1.to = n /\ a1.finished = f
      BY <3>2
    <3>4. a1 \in reply
      BY <1>1, <2>1, <3>1, <3>2 DEF Reply
    <3>5. n \in Nat /\ b <= n /\ n <= OutLen[u] /\ OutLen[u] \in Nat
      BY <1>1, <2>1, <3>1, NextLenIs
    <3> DEFINE c == IF f THEN OutLen[u] + 1 ELSE n
    <3>6. c \in 0 .. OutLen[u] + 1 /\ (u \in DOMAIN t1 => t1[u] = c)
      BY <1>3, <2>1, <3>1, <3>5
    <3>7. Decodes(a1, u, b, c)
      BY <3>3, <3>5 DEF Decodes
    <3> HIDE DEF c, reply
    <3>8. Piece(reply, u, b, c, "token")
      BY <3>3, <3>4, <3>7 DEF Piece
    <3> QED BY <3>4, <3>6, <3>8
  <2>2. CASE u \notin DOMAIN res \cap DOMAIN t
    <3>1. \A r \in reply : r.uid # u
      BY <2>2 DEF Reply
    <3> HIDE DEF reply
    <3>2. Piece(reply, u, b, b, "token")
      BY <3>1 DEF Piece
    <3> QED BY <1>1, <1>3, <2>2, <3>2
  <2> QED BY <2>1, <2>2
<1>5. Way(toDetokenizer', u, a, c, "token")
  <2>1. toDetokenizer' = IF reply = {} THEN toDetokenizer ELSE Append(toDetokenizer, reply)
    BY DEF SendResult
  <2> HIDE DEF reply
  <2>2. Way(Append(toDetokenizer, reply), u, a, c, "token")
    BY <1>1, <1>2, <1>4, WayAppend, LimitIs
  <2> QED BY <1>1, <1>4, <2>1, <2>2
<1>6. ASSUME phase'[u] = "waiting" PROVE FrontOf(u, a)'
  BY <1>1, <1>6 DEF FrontOf, frontend, Has, SentTo
<1>7. DecodedTo(u, a)'
  BY <1>1 DEF DecodedTo
<1> QED
  BY <1>1, <1>4, <1>5, <1>6, <1>7 DEF StreamOf, frontend

LEMMA ListenStream ==
    ASSUME ClientsAssumption, FrontTypes, NEW u \in Client, NEW t, StreamOf(u, t), Listen
    PROVE  StreamOf(u, t)'
<1>1. PICK a \in 0 .. OutLen[u] + 1, b \in 0 .. OutLen[u] + 1 :
        /\ Way(toDetokenizer, u, a, b, "token")
        /\ u \in DOMAIN t => t[u] = b
        /\ DecodedTo(u, a)
        /\ phase[u] = "waiting" => FrontOf(u, a)
  BY DEF StreamOf
<1>2. /\ UNCHANGED <<phase, taken, got, toDetokenizer, decodeMap>>
      /\ DOMAIN ackMap' = DOMAIN ackMap /\ toFrontend' = Tail(toFrontend) /\ toFrontend # <<>>
      /\ toFrontend \in Seq(Batches(TextReply))
  BY ListenIs DEF Listen, FrontTypes
<1>3. ASSUME phase'[u] = "waiting" PROVE FrontOf(u, a)'
  <2>1. FrontOf(u, a) /\ u \in DOMAIN ackMap
    BY <1>1, <1>2, <1>3 DEF FrontOf
  <2>2. PICK g \in 0 .. TextLen(u), e \in 0 .. TextLen(u), c \in 0 .. TextLen(u), d \in 0 .. TextLen(u) :
          /\ Has(u, g)
          /\ Way(Singles(taken[u]), u, g, e, "text")
          /\ Way(Singles(ackMap[u]), u, e, c, "text")
          /\ Way(toFrontend, u, c, d, "text")
          /\ SentTo(u, a, d)
    BY <2>1 DEF FrontOf
  <2>3. PICK y \in 0 .. TextLen(u) :
           Piece(Head(toFrontend), u, c, y, "text") /\ Way(toFrontend', u, y, d, "text")
    BY <1>2, <2>2, WayHead, LimitIs
  <2>4. Way(Singles(ackMap'[u]), u, e, y, "text")
    <3>1. CASE ackMap'[u] = ackMap[u] /\ \A m \in Head(toFrontend) : m.uid # u
      <4>1. c = y
        BY <2>3, <3>1 DEF Piece
      <4> QED BY <2>2, <3>1, <4>1
    <3>2. ASSUME NEW m \in Head(toFrontend), m.uid = u, ackMap'[u] = Append(ackMap[u], m)
          PROVE  Way(Singles(ackMap'[u]), u, e, y, "text")
      <4>1. \A n \in Head(toFrontend) : n.uid = u => n = m
        BY <3>2, ListenIs DEF Batches
      <4>2. Piece({m}, u, c, y, "text")
        BY <2>3, <3>2, <4>1 DEF Piece
      <4>3. m \in Own(u) /\ ackMap[u] \in Seq(Own(u))
        BY <2>1, <3>2, ListenIs DEF Own, Batches, FrontTypes
      <4>4. Singles(ackMap[u]) \in Seq(SUBSET Own(u)) /\ {m} \in SUBSET Own(u)
        BY <4>3, SinglesIs
      <4>5. Way(Append(Singles(ackMap[u]), {m}), u, e, y, "text")
        BY <2>2, <2>3, <4>2, <4>4, WayAppend, LimitIs
      <4>6. Singles(Append(ackMap[u], m)) = Append(Singles(ackMap[u]), {m})
        BY <4>3, SinglesAppend, ZenonT(40)
      <4> QED BY <3>2, <4>5, <4>6, Zenon
    <3>3. \/ ackMap'[u] = ackMap[u] /\ \A m \in Head(toFrontend) : m.uid # u
          \/ \E m \in Head(toFrontend) : m.uid = u /\ ackMap'[u] = Append(ackMap[u], m)
      BY <2>1, ListenIs, Zenon
    <3> QED BY <3>1, <3>2, <3>3, Zenon
  <2>5. Has(u, g)' /\ SentTo(u, a, d)'
    BY <1>2, <2>2 DEF Has, SentTo
  <2> QED BY <1>2, <2>1, <2>2, <2>3, <2>4, <2>5 DEF FrontOf
<1>4. DecodedTo(u, a)'
  BY <1>1, <1>2 DEF DecodedTo
<1> QED
  BY <1>1, <1>2, <1>3, <1>4 DEF StreamOf

LEMMA WakeStream ==
    ASSUME ClientsAssumption, FrontTypes, NEW u \in Client, NEW t, StreamOf(u, t), Wake(u)
    PROVE  StreamOf(u, t)'
<1>1. PICK a \in 0 .. OutLen[u] + 1, b \in 0 .. OutLen[u] + 1 :
        /\ Way(toDetokenizer, u, a, b, "token")
        /\ u \in DOMAIN t => t[u] = b
        /\ DecodedTo(u, a)
        /\ phase[u] = "waiting" => FrontOf(u, a)
  BY DEF StreamOf
<1>2. /\ UNCHANGED <<phase, got, toDetokenizer, toFrontend, decodeMap>>
      /\ taken[u] = <<>> /\ u \in DOMAIN ackMap
      /\ taken' = [taken EXCEPT ![u] = ackMap[u]] /\ ackMap' = [ackMap EXCEPT ![u] = <<>>]
  BY DEF Wake, queues, FrontTypes
<1>3. taken'[u] = ackMap[u] /\ ackMap'[u] = <<>> /\ u \in DOMAIN ackMap'
  BY <1>2 DEF FrontTypes
<1>4. ASSUME phase'[u] = "waiting" PROVE FrontOf(u, a)'
  <2>1. PICK g \in 0 .. TextLen(u), e \in 0 .. TextLen(u), c \in 0 .. TextLen(u), d \in 0 .. TextLen(u) :
          /\ Has(u, g)
          /\ Way(Singles(taken[u]), u, g, e, "text")
          /\ Way(Singles(ackMap[u]), u, e, c, "text")
          /\ Way(toFrontend, u, c, d, "text")
          /\ SentTo(u, a, d)
    BY <1>1, <1>2, <1>4 DEF FrontOf
  <2>2. g = e
    BY <1>2, <2>1, SinglesEmpty, WayEmpty
  <2>3. Way(Singles(<<>>), u, c, c, "text")
    BY <2>1, SinglesFree, WayNone, LimitIs
  <2>4. Has(u, g)' /\ SentTo(u, a, d)'
    BY <1>2, <2>1 DEF Has, SentTo
  <2> QED BY <1>2, <1>3, <2>1, <2>2, <2>3, <2>4 DEF FrontOf
<1>5. DecodedTo(u, a)'
  BY <1>1, <1>2 DEF DecodedTo
<1> QED
  BY <1>1, <1>2, <1>4, <1>5 DEF StreamOf

LEMMA YieldStream ==
    ASSUME ClientsAssumption, FrontTypes, NEW u \in Client, NEW t, StreamOf(u, t), Yield(u)
    PROVE  StreamOf(u, t)' /\ PrefixOf(u)'
<1>1. PICK a \in 0 .. OutLen[u] + 1, b \in 0 .. OutLen[u] + 1 :
        /\ Way(toDetokenizer, u, a, b, "token")
        /\ u \in DOMAIN t => t[u] = b
        /\ DecodedTo(u, a)
        /\ phase[u] = "waiting" => FrontOf(u, a)
  BY DEF StreamOf
<1> DEFINE m == Head(taken[u])
<1>2. /\ UNCHANGED <<ackMap, toDetokenizer, toFrontend, decodeMap>>
      /\ phase[u] = "waiting" /\ taken[u] # <<>> /\ taken[u] \in Seq(Own(u))
      /\ got' = [got EXCEPT ![u] = @ \o Positions(m.from, m.to)]
      /\ taken' = [taken EXCEPT ![u] = Tail(@)]
      /\ phase' = [phase EXCEPT ![u] = IF m.finished THEN "done" ELSE @]
  BY DEF Yield, queues, FrontTypes
<1>3. /\ taken'[u] = Tail(taken[u]) /\ got'[u] = got[u] \o Positions(m.from, m.to)
      /\ phase'[u] = IF m.finished THEN "done" ELSE "waiting"
  BY <1>2 DEF FrontTypes
<1>4. m \in Own(u) /\ Singles(taken[u]) \in Seq(SUBSET Own(u))
  BY <1>2, HeadTailProperties, SinglesIs
<1>5. /\ Singles(taken[u]) # <<>> /\ Head(Singles(taken[u])) = {m}
      /\ Singles(taken'[u]) = Tail(Singles(taken[u]))
  BY <1>2, <1>3, SinglesTail
<1>6. PICK g \in 0 .. TextLen(u), e \in 0 .. TextLen(u), c \in 0 .. TextLen(u), d \in 0 .. TextLen(u) :
        /\ Has(u, g)
        /\ Way(Singles(taken[u]), u, g, e, "text")
        /\ Way(Singles(ackMap[u]), u, e, c, "text")
        /\ Way(toFrontend, u, c, d, "text")
        /\ SentTo(u, a, d)
  BY <1>1, <1>2 DEF FrontOf
<1> HIDE DEF m
<1>7. PICK y \in 0 .. TextLen(u) :
         Piece({m}, u, g, y, "text") /\ Way(Singles(taken'[u]), u, y, e, "text")
  <2>1. \E y \in 0 .. Limit(u, "text") : /\ Piece(Head(Singles(taken[u])), u, g, y, "text")
                                         /\ Way(Tail(Singles(taken[u])), u, y, e, "text")
    BY <1>4, <1>5, <1>6, WayHead, Zenon
  <2> QED BY <1>5, <2>1, LimitIs
<1>8. /\ m.from \in 1 .. g + 1 /\ m.to \in Nat /\ y = (IF m.to > g THEN m.to ELSE g)
      /\ RepeatFree(u) => m.from = g + 1 /\ g <= m.to
      /\ m.finished => \A c1 \in m.to + 1 .. TextLen(u) : HeldBack(u, c1)
      /\ g \in Nat /\ y \in Nat
  <2>1. /\ m.uid = u /\ m.from \in Nat /\ m.from >= 1 /\ m.to \in Nat
        /\ m.finished => \A c1 \in m.to + 1 .. TextLen(u) : HeldBack(u, c1)
    BY <1>4 DEF Own, TextReply, Message
  <2>2. Sends(m, u, g, y)
    BY <1>7, <2>1 DEF Piece
  <2>3. g \in Nat /\ y \in Nat
    OBVIOUS
  <2>4. /\ m.from <= g + 1 /\ y = (IF m.to > g THEN m.to ELSE g)
        /\ RepeatFree(u) => m.from = g + 1 /\ g <= m.to
    BY <2>2 DEF Sends
  <2>5. m.from \in 1 .. g + 1
    BY <2>1, <2>3, <2>4
  <2> QED BY <2>1, <2>3, <2>4, <2>5
<1>9. Has(u, y)'
  <2>1. PICK s : s = got[u]
    OBVIOUS
  <2>2. /\ s \in Seq(Nat) /\ Gapless(s) /\ Covers(s, g)
        /\ RepeatFree(u) => s = Positions(1, g)
    BY <1>6, <2>1 DEF Has
  <2>3. PICK w : w = s \o Positions(m.from, m.to)
    OBVIOUS
  <2>4. w \in Seq(Nat) /\ Gapless(w) /\ Covers(w, y)
    BY <1>8, <2>2, <2>3, CoversMore
  <2>5. ASSUME RepeatFree(u) PROVE w = Positions(1, y)
    <3>1. s = Positions(1, g) /\ m.from = g + 1 /\ m.to = y /\ g <= y
      BY <1>8, <2>2, <2>5
    <3>2. w = Positions(1, g) \o Positions(g + 1, y)
      BY <2>3, <3>1, Zenon
    <3> QED BY <1>8, <3>1, <3>2, PositionsJoin
  <2>6. got'[u] = w
    BY <1>3, <2>1, <2>3
  <2> QED BY <2>4, <2>5, <2>6 DEF Has
<1>10. ASSUME phase'[u] = "waiting" PROVE FrontOf(u, a)'
  <2>1. u \in DOMAIN ackMap'
    BY <1>2 DEF FrontTypes
  <2>2. SentTo(u, a, d)'
    BY <1>2, <1>6 DEF SentTo
  <2> QED BY <1>2, <1>6, <1>7, <1>9, <2>1, <2>2 DEF FrontOf
<1>11. DecodedTo(u, a)'
  BY <1>1, <1>2 DEF DecodedTo
<1>12. StreamOf(u, t)'
  BY <1>1, <1>2, <1>10, <1>11 DEF StreamOf
<1>13. got'[u] = Positions(1, Len(got'[u])) \/ ~RepeatFree(u)
  <2>1. ASSUME RepeatFree(u) PROVE got'[u] = Positions(1, Len(got'[u]))
    <3>1. got'[u] = Positions(1, y)
      BY <1>9, <2>1 DEF Has
    <3>2. Len(Positions(0 + 1, 0 + y)) = y
      BY <1>8, PositionsAre
    <3>3. 0 + 1 = 1 /\ 0 + y = y
      BY <1>8
    <3>4. Len(Positions(1, y)) = y
      BY <3>2, <3>3
    <3> QED BY <3>1, <3>4
  <2> QED BY <2>1
<1>14. NoGap(u)'
  BY <1>9 DEF Has, Gapless, NoGap
<1>15. ASSUME phase'[u] = "done" PROVE AllReceived(u)'
  <2>1. m.finished
    BY <1>3, <1>15
  <2>2. PICK w : w = got'[u]
    OBVIOUS
  <2>3. w \in Seq(Nat) /\ Covers(w, y)
    BY <1>9, <2>2 DEF Has
  <2>4. ASSUME NEW c1 \in 1 .. TextLen(u) PROVE c1 \in Range(w) \/ HeldBack(u, c1)
    <3>1. CASE c1 \in 1 .. y
      <4>1. PICK i \in 1 .. Len(w) : w[i] = c1
        BY <2>3, <3>1 DEF Covers
      <4>2. i \in DOMAIN w
        BY <2>3, LenProperties
      <4> QED BY <4>1, <4>2 DEF Range
    <3>2. CASE c1 \notin 1 .. y
      <4>1. c1 \in m.to + 1 .. TextLen(u)
        BY <1>8, <3>2
      <4> QED BY <1>8, <2>1, <4>1
    <3> QED BY <3>1, <3>2
  <2> QED BY <2>2, <2>4 DEF AllReceived
<1> QED
  BY <1>12, <1>13, <1>14, <1>15 DEF PrefixOf

LEMMA DetokenizeStream ==
    ASSUME ClientsAssumption, TextAssumption, FrontTypes, Streams, NEW u \in Client,
           NEW t, StreamOf(u, t), Detokenize
    PROVE  StreamOf(u, t)'
<1> DEFINE B == Head(toDetokenizer)
           C == {Increment(m) : m \in B}
<1>1. PICK a \in 0 .. OutLen[u] + 1, b \in 0 .. OutLen[u] + 1 :
        /\ Way(toDetokenizer, u, a, b, "token")
        /\ u \in DOMAIN t => t[u] = b
        /\ DecodedTo(u, a)
        /\ phase[u] = "waiting" => FrontOf(u, a)
  BY DEF StreamOf
<1>2. /\ UNCHANGED frontend /\ toDetokenizer # <<>> /\ B \in Batches(TokenReply)
      /\ toDetokenizer' = Tail(toDetokenizer) /\ toFrontend' = Append(toFrontend, C)
      /\ toDetokenizer \in Seq(Batches(TokenReply)) /\ toFrontend \in Seq(Batches(TextReply))
  BY DetokenizeIs DEF Detokenize, FrontTypes
<1>3. PICK y \in 0 .. OutLen[u] + 1 :
         Piece(B, u, a, y, "token") /\ Way(toDetokenizer', u, y, b, "token")
  BY <1>1, <1>2, WayHead, LimitIs
<1>4. C \in Batches(TextReply) /\ \A m \in B : m \in TokenReply /\ Increment(m).uid = m.uid
  <2>1. \A m, n \in B : m.uid = n.uid => m = n
    BY <1>2 DEF Batches
  <2>2. \A m \in B : m \in TokenReply /\ Increment(m) \in TextReply /\ Increment(m).uid = m.uid
    BY <1>2, IncrementType
  <2> HIDE DEF B
  <2> QED BY <2>1, <2>2 DEF Batches
<1>5. CASE \A m \in B : m.uid # u
  <2>1. a = y
    BY <1>3, <1>5 DEF Piece
  <2>2. /\ u \in DOMAIN decodeMap' <=> u \in DOMAIN decodeMap
        /\ u \in DOMAIN decodeMap => decodeMap'[u] = decodeMap[u]
    BY <1>5, DetokenizeIs
  <2>3. \A m \in C : m.uid # u
    BY <1>4, <1>5
  <2> HIDE DEF B, C
  <2>4. ASSUME phase'[u] = "waiting" PROVE FrontOf(u, a)'
    <3>1. PICK g \in 0 .. TextLen(u), e \in 0 .. TextLen(u), c \in 0 .. TextLen(u), d \in 0 .. TextLen(u) :
            /\ u \in DOMAIN ackMap /\ Has(u, g)
            /\ Way(Singles(taken[u]), u, g, e, "text")
            /\ Way(Singles(ackMap[u]), u, e, c, "text")
            /\ Way(toFrontend, u, c, d, "text")
            /\ SentTo(u, a, d)
      BY <1>1, <1>2, <2>4 DEF FrontOf, frontend
    <3>2. Way(toFrontend', u, c, d, "text")
      <4>1. Piece(C, u, d, d, "text")
        BY <2>3 DEF Piece
      <4> QED BY <1>2, <1>4, <3>1, <4>1, WayAppend, LimitIs
    <3>3. Has(u, g)'
      BY <1>2, <3>1 DEF Has, frontend
    <3>4. SentTo(u, a, d)'
      BY <2>2, <3>1 DEF SentTo
    <3> QED BY <1>2, <3>1, <3>2, <3>3, <3>4 DEF FrontOf, frontend
  <2>5. DecodedTo(u, a)'
    BY <1>1, <2>2 DEF DecodedTo
  <2> QED BY <1>1, <1>2, <1>3, <2>1, <2>4, <2>5 DEF StreamOf, frontend
<1>6. ASSUME NEW m \in B, m.uid = u
      PROVE  StreamOf(u, t)'
  <2>1. Decodes(m, u, a, y)
    <3>1. \A n \in B : n.uid = u => n = m
      BY <1>2, <1>6 DEF Batches
    <3> HIDE DEF B
    <3> QED BY <1>3, <1>6, <3>1 DEF Piece
  <2>2. PICK s : s = Before(u)
    OBVIOUS
  <2>3. m \in TokenReply /\ Status(u, s) /\ m.from = s.decoded + 1 /\ s.decoded <= m.to
    BY <1>2, <1>6, <2>2, NextReplyIs
  <2>4. PICK x, z : x = Complete[u][s.end] + s.sent /\ z = Shown(u, s.end, m.to)
    OBVIOUS
  <2>5. PICK f, v : f = Increment(m) /\ v = After(m)
    OBVIOUS
  <2>6. /\ x \in Nat /\ z \in 0 .. TextLen(u) /\ (RepeatFree(u) => x <= z)
        /\ f = [uid |-> u, from |-> x + 1, to |-> z, finished |-> m.finished]
        /\ Status(u, v) /\ v.decoded = m.to /\ Complete[u][v.end] + v.sent = z
    BY <1>6, <2>2, <2>3, <2>4, <2>5, StatusStep
  <2>7. f \in C /\ f.uid = u /\ f.from = x + 1 /\ f.to = z
    <3>1. f \in C
      BY <1>6, <2>5
    <3> HIDE DEF B, C
    <3> QED BY <2>6, <3>1
  <2>8. /\ m.finished \in BOOLEAN /\ y = (IF m.finished THEN OutLen[u] + 1 ELSE m.to)
        /\ m.to \in Nat /\ m.to <= OutLen[u] /\ OutLen[u] \in Nat /\ a <= m.to
    BY <1>6, <2>1, <2>3, TextIs DEF Decodes, TokenReply, Message
  <2>9. /\ u \in DOMAIN decodeMap' <=> ~m.finished
        /\ ~m.finished => decodeMap'[u] = v
    BY <1>6, <2>5, DetokenizeIs
  <2>10. DecodedTo(u, y)'
    BY <2>6, <2>8, <2>9 DEF DecodedTo
  <2> HIDE DEF B, C
  <2>11. ASSUME phase'[u] = "waiting" PROVE FrontOf(u, y)'
    <3>1. PICK g \in 0 .. TextLen(u), e \in 0 .. TextLen(u), c \in 0 .. TextLen(u), d \in 0 .. TextLen(u) :
            /\ u \in DOMAIN ackMap /\ Has(u, g)
            /\ Way(Singles(taken[u]), u, g, e, "text")
            /\ Way(Singles(ackMap[u]), u, e, c, "text")
            /\ Way(toFrontend, u, c, d, "text")
            /\ SentTo(u, a, d)
      BY <1>1, <1>2, <2>11 DEF FrontOf, frontend
    <3>2. x <= d /\ (RepeatFree(u) => d = x)
      <4>1. CASE u \in DOMAIN decodeMap
        BY <2>2, <2>4, <3>1, <4>1 DEF SentTo, Before
      <4>2. CASE u \notin DOMAIN decodeMap
        <5>1. d = 0
          BY <2>8, <3>1, <4>2 DEF SentTo
        <5>2. s.end = 0 /\ s.sent = 0
          BY <2>2, <4>2 DEF Before
        <5>3. Complete[u][0] = 0
          BY TextIs
        <5> QED BY <2>4, <5>1, <5>2, <5>3
      <4> QED BY <4>1, <4>2
    <3> DEFINE d1 == IF z > d THEN z ELSE d
    <3>3. d1 \in 0 .. TextLen(u) /\ z <= d1 /\ (RepeatFree(u) => d1 = z) /\ d1 \in Nat
      BY <2>6, <3>2
    <3>4. Sends(f, u, d, d1)
      BY <2>6, <2>7, <3>2 DEF Sends
    <3> HIDE DEF d1
    <3>5. Piece(C, u, d, d1, "text")
      BY <2>7, <3>4 DEF Piece
    <3>6. Way(toFrontend', u, c, d1, "text")
      BY <1>2, <1>4, <3>1, <3>3, <3>5, WayAppend, LimitIs
    <3>7. SentTo(u, y, d1)'
      BY <2>6, <2>8, <2>9, <3>3 DEF SentTo
    <3>8. Has(u, g)'
      BY <1>2, <3>1 DEF Has, frontend
    <3> QED BY <1>2, <3>1, <3>3, <3>6, <3>7, <3>8 DEF FrontOf, frontend
  <2> QED BY <1>1, <1>3, <2>10, <2>11 DEF StreamOf
<1> QED
  BY <1>5, <1>6

-----------------------------------------------------------------------------
(* Together *)

StreamInv == RankInv /\ FrontTypes /\ FreshBefore /\ Streams

(* Rank 0 adds a request that it has been sent to what it keeps. *)
LEMMA ArrivalStream ==
    ASSUME ClientsAssumption, TextAssumption, StreamInv, NEW u \in Client
    PROVE  StreamOf(u, Processed(live[0], raw))
<1> DEFINE t == Processed(live[0], raw)
<1>1. StreamOf(u, live[0]) /\ OnceFor(u) /\ (Early(u) => Fresh(u)) /\ FrontTypes
  BY DEF StreamInv, Streams, FreshBefore
<1>2. /\ live[0] \in Table /\ raw \in Seq(UserMessage)
  BY RankTypesOf0 DEF StreamInv
<1>3. \A v \in DOMAIN t : \/ v \in DOMAIN live[0] /\ t[v] = live[0][v]
                          \/ t[v] = 0 /\ \E i \in 1 .. Len(raw) : raw[i] = TokenizeMsg(v)
  BY <1>2, ProcessedType
<1> HIDE DEF t
<1>4. CASE Holds(raw, u)
  <2>1. Fresh(u) /\ u \notin DOMAIN live[0]
    BY <1>1, <1>4 DEF Early, OnTheWay, Fresh
  <2>2. u \in DOMAIN t => t[u] = 0
    BY <1>3, <2>1
  <2> QED BY <1>1, <2>1, <2>2, FreshStream DEF t
<1>5. CASE ~Holds(raw, u)
  <2>1. u \in DOMAIN t => u \in DOMAIN live[0] /\ t[u] = live[0][u]
    BY <1>3, <1>5 DEF Holds
  <2>2. StreamOf(u, t)
    BY <1>1, <2>1 DEF StreamOf
  <2> QED BY <2>2 DEF t
<1> QED
  BY <1>4, <1>5

LEMMA PrefixSame ==
    ASSUME NEW u, PrefixOf(u), got'[u] = got[u], phase'[u] = "done" => phase[u] = "done"
    PROVE  PrefixOf(u)'
  BY DEF PrefixOf, NoGap, AllReceived

LEMMA StreamsStay ==
    ASSUME ClientsAssumption, TextAssumption, GroupAssumption, StreamInv, FrontTypes', FreshBefore', [Next]_vars,
           NEW u \in Client
    PROVE  (StreamOf(u, live[0]) /\ PrefixOf(u))'
<1> DEFINE Goal == (StreamOf(u, live[0]) /\ PrefixOf(u))'
<1> SUFFICES Goal
  OBVIOUS
<1>1. StreamOf(u, live[0]) /\ PrefixOf(u) /\ FrontTypes /\ RankInv /\ Streams
  BY DEF StreamInv, Streams
<1>2. PICK t : t = live[0]
  OBVIOUS
<1>3. StreamOf(u, t)
  BY <1>1, <1>2
<1>4. ASSUME StreamOf(u, t)', live'[0] = t, PrefixOf(u)' PROVE Goal
  BY <1>4
<1>5. ASSUME UNCHANGED <<frontend, toDetokenizer, toFrontend, decodeMap>>, live'[0] = live[0]
      PROVE  Goal
  <2>1. StreamOf(u, t)'
    <3>1. phase'[u] = "waiting" => u \in DOMAIN ackMap'
      BY DEF FrontTypes
    <3> QED BY <1>3, <1>5, <3>1, StreamSame DEF frontend
  <2>2. PrefixOf(u)'
    BY <1>1, <1>5, PrefixSame DEF frontend
  <2> QED BY <1>2, <1>4, <1>5, <2>1, <2>2
<1>6. CASE UNCHANGED vars
  BY <1>5, <1>6 DEF vars, queues, ranks
<1>7. ASSUME UNCHANGED <<toDetokenizer, toFrontend, decodeMap, live>>, got'[u] = got[u],
             phase'[u] = phase[u] \/ phase'[u] = "gone",
             phase'[u] = "waiting" => ackMap'[u] = ackMap[u] /\ taken'[u] = taken[u]
      PROVE  Goal
  <2>1. phase'[u] = "waiting" => u \in DOMAIN ackMap'
    BY DEF FrontTypes
  <2>2. StreamOf(u, t)'
    BY <1>3, <1>7, <2>1, StreamSame
  <2>3. PrefixOf(u)'
    BY <1>1, <1>7, PrefixSame
  <2> HIDE DEF Goal
  <2> QED BY <1>2, <1>4, <1>7, <2>2, <2>3
<1> HIDE DEF Goal
<1>8. ASSUME NEW v \in Client, NewUser(v) PROVE Goal
  <2>1. /\ phase[v] = "new" /\ phase' = [phase EXCEPT ![v] = "waiting"]
        /\ ackMap' = Put(ackMap, v, <<>>)
        /\ UNCHANGED <<taken, got, toDetokenizer, toFrontend, decodeMap, live>>
    BY <1>8 DEF NewUser, ranks
  <2>2. CASE u = v
    <3>1. Fresh(u)
      BY <2>1, <2>2 DEF StreamInv, FreshBefore, Early
    <3>2. /\ got[u] = <<>> /\ taken[u] = <<>> /\ NoWord(toFrontend, u) /\ u \notin DOMAIN decodeMap
      BY <3>1 DEF Fresh
    <3>3. phase'[u] = "waiting" /\ u \in DOMAIN ackMap' /\ ackMap'[u] = <<>>
      BY <1>1, <2>1, <2>2 DEF FrontTypes, Put
    <3>4. 0 \in 0 .. TextLen(u)
      <4>1. TextLen(u) \in Nat
        BY TextIs
      <4> QED BY <4>1
    <3>5. Way(toFrontend, u, 0, 0, "text")
      BY <1>1, <3>2, <3>4, WayNone, LimitIs DEF FrontTypes
    <3>6. Way(Singles(<<>>), u, 0, 0, "text")
      BY <3>4, SinglesFree, WayNone, LimitIs
    <3>7. Has(u, 0)'
      BY <2>1, <3>2, HasNone DEF Has
    <3>8. \A a : SentTo(u, a, 0)'
      BY <2>1, <3>2 DEF SentTo
    <3>9. \A a : FrontOf(u, a)'
      BY <2>1, <3>2, <3>3, <3>4, <3>5, <3>6, <3>7, <3>8 DEF FrontOf
    <3>10. \A a : DecodedTo(u, a) => DecodedTo(u, a)'
      BY <2>1 DEF DecodedTo
    <3>11. StreamOf(u, t)'
      BY <1>3, <2>1, <3>9, <3>10 DEF StreamOf
    <3>12. PrefixOf(u)'
      BY <1>1, <2>1, <3>3, PrefixSame
    <3> QED BY <1>2, <1>4, <2>1, <3>11, <3>12
  <2>3. CASE u # v
    <3>1. phase'[u] = phase[u]
      BY <1>1, <2>1, <2>3 DEF FrontTypes
    <3>2. phase'[u] = "waiting" => ackMap'[u] = ackMap[u]
      BY <1>1, <2>1, <2>3, <3>1 DEF FrontTypes, Put
    <3> QED BY <1>7, <2>1, <3>1, <3>2
  <2> QED BY <2>2, <2>3
<1>9. ASSUME NEW v \in Client, Disconnect(v) PROVE Goal
  <2>1. /\ phase' = [phase EXCEPT ![v] = "gone"] /\ taken' = [taken EXCEPT ![v] = <<>>]
        /\ UNCHANGED <<ackMap, got, toDetokenizer, toFrontend, decodeMap, live>>
    BY <1>9 DEF Disconnect, queues, ranks
  <2>2. (phase'[u] = phase[u] /\ taken'[u] = taken[u]) \/ phase'[u] = "gone"
    BY <1>1, <2>1 DEF FrontTypes
  <2> QED BY <1>7, <2>1, <2>2
<1>10. CASE Listen
  <2>1. UNCHANGED <<phase, got, live>>
    BY <1>10 DEF Listen, ranks
  <2>2. StreamOf(u, t)' /\ PrefixOf(u)'
    BY <1>1, <1>3, <1>10, <2>1, ListenStream, PrefixSame
  <2> QED BY <1>2, <1>4, <2>1, <2>2
<1>11. ASSUME NEW v \in Client, Wake(v) PROVE Goal
  <2>1. /\ taken' = [taken EXCEPT ![v] = ackMap[v]] /\ ackMap' = [ackMap EXCEPT ![v] = <<>>]
        /\ UNCHANGED <<phase, got, toDetokenizer, toFrontend, decodeMap, live>>
    BY <1>11 DEF Wake, queues, ranks
  <2>2. CASE u = v
    <3>1. StreamOf(u, t)' /\ PrefixOf(u)'
      BY <1>1, <1>3, <1>11, <2>1, <2>2, WakeStream, PrefixSame
    <3> QED BY <1>2, <1>4, <2>1, <3>1
  <2>3. CASE u # v
    <3>1. taken'[u] = taken[u]
      BY <1>1, <2>1, <2>3 DEF FrontTypes
    <3>2. ackMap'[u] = ackMap[u]
      BY <2>1, <2>3
    <3> QED BY <1>7, <2>1, <3>1, <3>2
  <2> QED BY <2>2, <2>3
<1>12. ASSUME NEW v \in Client, Yield(v) PROVE Goal
  <2>1. /\ taken' = [taken EXCEPT ![v] = Tail(@)]
        /\ got' = [got EXCEPT ![v] = @ \o Positions(Head(taken[v]).from, Head(taken[v]).to)]
        /\ phase' = [phase EXCEPT ![v] = IF Head(taken[v]).finished THEN "done" ELSE @]
        /\ UNCHANGED <<ackMap, toDetokenizer, toFrontend, decodeMap, live>>
    BY <1>12 DEF Yield, queues, ranks
  <2>2. CASE u = v
    <3>1. StreamOf(u, t)' /\ PrefixOf(u)'
      BY <1>1, <1>3, <1>12, <2>2, YieldStream
    <3> QED BY <1>2, <1>4, <2>1, <3>1
  <2>3. CASE u # v
    <3>1. taken'[u] = taken[u] /\ got'[u] = got[u] /\ phase'[u] = phase[u]
      BY <1>1, <2>1, <2>3 DEF FrontTypes
    <3> QED BY <1>7, <2>1, <3>1
  <2> QED BY <2>2, <2>3
<1>13. ASSUME NEW v \in Client, AbortUser(v) PROVE Goal
  <2>1. /\ v \in aborting /\ ackMap' = [w \in DOMAIN ackMap \ {v} |-> ackMap[w]]
        /\ UNCHANGED <<phase, taken, got, toDetokenizer, toFrontend, decodeMap, live>>
    BY <1>13 DEF AbortUser, ranks
  <2>2. ASSUME phase[u] = "waiting" PROVE ackMap'[u] = ackMap[u]
    <3>1. u # v /\ u \in DOMAIN ackMap
      BY <1>1, <2>1, <2>2 DEF FrontTypes
    <3> QED BY <2>1, <3>1
  <2> QED BY <1>7, <2>1, <2>2
<1>14. ASSUME NEW w \in Tokenizer, Tokenize(w) PROVE Goal
  BY <1>5, <1>14 DEF Tokenize, ranks
<1>15. CASE Detokenize
  <2>1. UNCHANGED <<phase, got, live>>
    BY <1>15 DEF Detokenize, frontend, ranks
  <2>2. StreamOf(u, t)' /\ PrefixOf(u)'
    BY <1>1, <1>3, <1>15, <2>1, DetokenizeStream, PrefixSame
  <2> QED BY <1>2, <1>4, <2>1, <2>2
<1>16. PICK res : res = last[0]
  OBVIOUS
<1>17. t \in Table /\ res \in Results /\ 0 \in Rank
  BY <1>1, <1>2, <1>16, RankTypesOf0
<1>18. ASSUME NEW s \in Table, NEW us \in SUBSET Client, StreamOf(u, s),
              live'[0] = Settled(s, res, us), SendResult(Reply(s, res, us)),
              UNCHANGED <<frontend, toFrontend, decodeMap>>
       PROVE  Goal
  <2>2. PICK w : w = Settled(s, res, us)
    OBVIOUS
  <2>3. StreamOf(u, w)' /\ live'[0] = w
    BY <1>1, <1>17, <1>18, <2>2, SettleStream
  <2>4. PrefixOf(u)'
    BY <1>1, <1>18, PrefixSame DEF frontend
  <2> QED BY <2>3, <2>4 DEF Goal
<1>19. CASE Forward
  <2>1. PICK us : us = batch[0]
    OBVIOUS
  <2>2. /\ live'[0] = Settled(t, res, us) /\ SendResult(Reply(t, res, us))
        /\ UNCHANGED <<frontend, toFrontend, decodeMap>>
    BY <1>1, <1>2, <1>16, <1>19, <2>1, ForwardIs
  <2>3. us \in SUBSET Client
    BY <1>1, <2>1, RankTypesOf0
  <2> QED BY <1>3, <1>17, <1>18, <2>2, <2>3
<1>20. CASE ReceiveRank0
  <2>1. PICK s : s = Processed(live[0], raw)
    OBVIOUS
  <2>2. StreamOf(u, s) /\ s \in Table
    BY <1>1, <2>1, ArrivalStream, RankTypesOf0
  <2>3. /\ \/ live' = [live EXCEPT ![0] = Settled(s, last[0], {})] /\ SendResult(Reply(s, last[0], {}))
           \/ live' = [live EXCEPT ![0] = s] /\ UNCHANGED toDetokenizer
        /\ UNCHANGED <<frontend, toFrontend, decodeMap>>
    BY <1>20, <2>1, ReceiveRank0Is
  <2>4. DOMAIN live = Rank
    BY <1>1 DEF RankInv, RankTypes
  <2>5. CASE live' = [live EXCEPT ![0] = Settled(s, last[0], {})] /\ SendResult(Reply(s, last[0], {}))
    <3>1. live'[0] = Settled(s, res, {}) /\ SendResult(Reply(s, res, {}))
      BY <1>16, <1>17, <2>4, <2>5
    <3> QED BY <1>18, <2>2, <2>3, <3>1
  <2>6. CASE live' = [live EXCEPT ![0] = s] /\ UNCHANGED toDetokenizer
    <3>1. live'[0] = s
      BY <1>17, <2>4, <2>6
    <3>2. phase'[u] = "waiting" => u \in DOMAIN ackMap'
      BY DEF FrontTypes
    <3>3. StreamOf(u, s)' /\ PrefixOf(u)'
      BY <1>1, <2>2, <2>3, <2>6, <3>2, StreamSame, PrefixSame DEF frontend
    <3> QED BY <3>1, <3>3 DEF Goal
  <2> QED BY <2>3, <2>5, <2>6
<1>21. CASE StepRank0
  BY <1>5, <1>21 DEF StepRank0
<1>22. ASSUME NEW w \in Tokenizer, Drain(w) PROVE Goal
  BY <1>5, <1>22 DEF Drain
<1>23. ASSUME NEW r \in Rank, ReceiveRank1(r) PROVE Goal
  <2>1. /\ r # 0 /\ UNCHANGED <<frontend, toFrontend, decodeMap>>
        /\ Receive(r, SubSeq(pub[r], 1, Head(counts[r])))
    BY <1>23 DEF ReceiveRank1
  <2>2. UNCHANGED toDetokenizer /\ \E f : live' = [live EXCEPT ![r] = f]
    BY <2>1 DEF Receive
  <2>3. live'[0] = live[0]
    BY <2>1, <2>2
  <2> QED BY <1>5, <2>1, <2>2, <2>3
<1>24. ASSUME NEW r \in Rank, StepRank1(r) PROVE Goal
  BY <1>5, <1>24 DEF StepRank1
<1>25. ASSUME NEW p \in Process, Start(p) PROVE Goal
  BY <1>5, <1>25 DEF Start, queues, ranks
<1>26. CASE Clients
  BY <1>8, <1>9, <1>26 DEF Clients
<1>27. CASE Frontend
  BY <1>10, <1>11, <1>12, <1>13, <1>27 DEF Frontend
<1>28. CASE Workers
  BY <1>14, <1>15, <1>28 DEF Workers
<1>29. ASSUME NEW r \in Rank, RankStep(r) PROVE Goal
  BY <1>20, <1>21, <1>22, <1>23, <1>24, <1>29 DEF RankStep
<1>30. CASE Idle
  BY <1>6, <1>30 DEF Idle
<1> QED
  BY <1>6, <1>19, <1>25, <1>26, <1>27, <1>28, <1>29, <1>30 DEF Next

THEOREM StreamsFollow == Spec => []StreamInv
<1>1. ASSUME Init PROVE StreamInv
  <2>1. RankInv /\ FrontTypes /\ FreshBefore
    BY <1>1, InitRanks, InitFront, InitFresh, ClientsAssumption, GroupAssumption
  <2>2. ASSUME NEW u \in Client PROVE StreamOf(u, live[0]) /\ PrefixOf(u)
    <3>1. phase[u] = "new" /\ live[0] = <<>> /\ got[u] = <<>>
      BY <1>1 DEF Init, Rank
    <3>2. Fresh(u)
      BY <2>1, <3>1 DEF FreshBefore, Early
    <3>3. u \in DOMAIN live[0] => live[0][u] = 0
      BY <3>1
    <3> QED BY <2>1, <3>1, <3>2, <3>3, FreshStream, FreshPrefix, ClientsAssumption, TextAssumption
  <2> QED BY <2>1, <2>2 DEF StreamInv, Streams
<1>2. ASSUME StreamInv, [Next]_vars PROVE StreamInv'
  <2>1. RankInv' /\ FrontTypes' /\ FreshBefore'
    BY <1>2, NextKeepsRanks, NextKeepsTypes, FreshBeforeStays, ClientsAssumption,
       TextAssumption, GroupAssumption DEF StreamInv, Streams
  <2>2. ASSUME NEW u \in Client PROVE (StreamOf(u, live[0]) /\ PrefixOf(u))'
    BY <1>2, <2>1, StreamsStay, ClientsAssumption, TextAssumption, GroupAssumption
  <2> QED BY <2>1, <2>2 DEF StreamInv, Streams
<1> QED
  BY <1>1, <1>2, PTL DEF Spec

(* A client receives the text of its own request from the start and without *)
(* a gap, no character twice unless what can be shown of the text shrinks,  *)
(* and when its stream ends it has everything but what is held back         *)
(* (api_server.py:116-158, tokenizer.py:43-84): for every number of clients,*)
(* workers, tokens and characters.                                          *)
THEOREM StreamsUnbroken == Spec => []StreamUnbroken
<1>1. StreamInv => StreamUnbroken
  BY DEF StreamInv, Streams, PrefixOf, StreamUnbroken
<1> QED
  BY <1>1, StreamsFollow, PTL

(* Type correctness: the tables know who they may know, a rank keeps no     *)
(* more tokens of a request than it has, and the detokenizer has sent no    *)
(* more of a text than it has decoded.                                      *)
THEOREM PipelineTypesHold == Spec => []TypeOK
<1>1. ASSUME StreamInv PROVE TypeOK
  <2>1. RankInv /\ FrontTypes
    BY <1>1 DEF StreamInv
  <2>2. \A r \in Rank : /\ DOMAIN live[r] \subseteq Client \ tooLong
                        /\ \A u \in DOMAIN live[r] : live[r][u] <= OutLen[u]
    <3> TAKE r \in Rank
    <3>1. live[r] \in Table
      BY <2>1 DEF RankInv, RankTypes
    <3> QED BY <3>1, TableIs
  <2>3. ASSUME NEW u \in DOMAIN decodeMap
        PROVE  LET s == decodeMap[u] IN
               /\ s.end <= s.decoded /\ s.decoded <= OutLen[u]
               /\ Complete[u][s.end] + s.sent <= Complete[u][s.decoded]
    <3>1. u \in Client
      BY <2>1, <2>3 DEF FrontTypes
    <3>2. Status(u, decodeMap[u])
      BY <1>1, <2>3, <3>1 DEF StreamInv, Streams, StreamOf, DecodedTo
    <3> QED BY <3>2 DEF Status
  <2> QED BY <2>1, <2>2, <2>3 DEF TypeOK, FrontTypes, RankInv, RankTypes, NotAhead
<1> QED
  BY <1>1, StreamsFollow, PTL
=============================================================================
