------------------------ MODULE RequestPipelineProofs -------------------------
(***************************************************************************)
(* Proofs about RequestPipeline for every number of clients and workers,   *)
(* all texts, and both sizes of the group.                                 *)
(***************************************************************************)
EXTENDS RequestPipeline, Lemmas

(* Parts of a sequence that may be empty. *)
LEMMA PartOfFirst ==
    ASSUME NEW S, NEW s \in Seq(S), NEW t \in Seq(S), NEW a \in Nat, NEW b \in 0 .. Len(s)
    PROVE  SubSeq(s \o t, a + 1, b) = SubSeq(s, a + 1, b)
<1>1. Len(s) \in Nat
  BY LenProperties
<1>2. CASE b < a + 1
  BY <1>1, <1>2, SubSeqEmpty
<1>3. CASE a + 1 <= b
  <2>1. a + 1 \in 1 .. Len(s) /\ b \in 1 .. Len(s)
    BY <1>1, <1>3
  <2> QED BY <2>1, SubSeqOfConcat1
<1> QED
  BY <1>1, <1>2, <1>3

LEMMA PartIsSecond ==
    ASSUME NEW S, NEW s \in Seq(S), NEW t \in Seq(S)
    PROVE  SubSeq(s \o t, Len(s) + 1, Len(s) + Len(t)) = t
<1> DEFINE p == SubSeq(s \o t, Len(s) + 1, Len(s) + Len(t))
<1>1. Len(s) \in Nat /\ Len(t) \in Nat
  BY LenProperties
<1>2. \A i \in Len(s) + 1 .. Len(s) + Len(t) : (s \o t)[i] = t[i - Len(s)] /\ (s \o t)[i] \in S
  <2> TAKE i \in Len(s) + 1 .. Len(s) + Len(t)
  <2>1. i - Len(s) \in 1 .. Len(t)
    BY <1>1
  <2> QED BY <1>1, <2>1, ConcatProperties, ElementOfSeq
<1>3. /\ p \in Seq(S)
      /\ Len(p) = Len(t)
      /\ \A i \in 1 .. Len(t) : p[i] = (s \o t)[Len(s) + i]
  BY <1>1, <1>2, SubSeqProperties
<1>4. \A i \in 1 .. Len(t) : p[i] = t[i]
  <2> TAKE i \in 1 .. Len(t)
  <2>1. Len(s) + i \in Len(s) + 1 .. Len(s) + Len(t) /\ Len(s) + i - Len(s) = i
    BY <1>1
  <2> QED BY <1>2, <1>3, <2>1
<1> HIDE DEF p
<1>5. p = t
  BY <1>3, <1>4, SeqEqual
<1> QED
  BY <1>5 DEF p

LEMMA PairOfOnes ==
    ASSUME NEW S, NEW a \in S, NEW b \in S
    PROVE  <<a>> \o <<b>> = <<a, b>>
<1> DEFINE p == <<a>> \o <<b>>  q == <<a, b>>
<1>1. <<a>> \in Seq(S) /\ <<b>> \in Seq(S) /\ q \in Seq(S) /\ Len(<<a>>) = 1 /\ Len(<<b>>) = 1
  OBVIOUS
<1>2. p \in Seq(S) /\ Len(p) = 2 /\ p[1] = a /\ p[2] = b
  <2>1. /\ p \in Seq(S) /\ Len(p) = 1 + 1
        /\ \A i \in 1 .. 1 + 1 : p[i] = IF i <= 1 THEN <<a>>[i] ELSE <<b>>[i - 1]
    BY <1>1, ConcatProperties
  <2>2. p[1] = <<a>>[1] /\ p[2] = <<b>>[1]
    <3> HIDE DEF p
    <3> QED BY <2>1
  <2> QED BY <2>1, <2>2
<1>3. Len(q) = 2 /\ q[1] = a /\ q[2] = b
  OBVIOUS
<1> HIDE DEF p, q
<1>4. p = q
  <2>1. \A i \in 1 .. Len(p) : p[i] = q[i]
    BY <1>2, <1>3
  <2> QED BY <1>1, <1>2, <1>3, <2>1, SeqEqual
<1> QED
  BY <1>4 DEF p, q

LEMMA PartOfRest ==
    ASSUME NEW S, NEW s \in Seq(S), NEW n \in 0 .. Len(s), NEW a \in Nat, NEW b \in 0 .. Len(s) - n
    PROVE  SubSeq(SubSeq(s, n + 1, Len(s)), a + 1, b) = SubSeq(s, n + a + 1, n + b)
<1> DEFINE r == SubSeq(s, n + 1, Len(s))
<1>1. Len(s) \in Nat
  BY LenProperties
<1>2. CASE b < a + 1
  <2>1. SubSeq(r, a + 1, b) = <<>>
    BY <1>1, <1>2, SubSeqEmpty
  <2>2. SubSeq(s, n + a + 1, n + b) = <<>>
    BY <1>1, <1>2, SubSeqEmpty
  <2> QED BY <2>1, <2>2
<1>3. CASE a + 1 <= b
  <2>1. /\ n + 1 \in 1 .. Len(s) /\ Len(s) \in 1 .. Len(s)
        /\ a + 1 \in 1 .. Len(s) - (n + 1) + 1 /\ b \in 1 .. Len(s) - (n + 1) + 1
    BY <1>1, <1>3
  <2>2. SubSeq(SubSeq(s, n + 1, Len(s)), a + 1, b) = SubSeq(s, n + 1 + (a + 1) - 1, n + 1 + b - 1)
    BY <2>1, SubSeqOfSubSeq
  <2>3. n + 1 + (a + 1) - 1 = n + a + 1 /\ n + 1 + b - 1 = n + b
    BY <1>1
  <2> QED BY <2>2, <2>3
<1> QED
  BY <1>1, <1>2, <1>3

UserMessage == [type : {"user", "abort"}, uid : Client]

(* What a rank keeps of its requests: those that fit, none beyond its end.   *)
Table ==
    {f \in UNION {[D -> Nat] : D \in SUBSET (Client \ tooLong)} :
        \A u \in DOMAIN f : f[u] <= OutLen[u]}

(* What a batch computes for its requests. *)
Results == UNION {[D -> 1 .. MaxStep] : D \in SUBSET Client}

LEMMA TableIs ==
    ASSUME NEW f
    PROVE  f \in Table <=>
              /\ DOMAIN f \subseteq Client \ tooLong
              /\ f = [u \in DOMAIN f |-> f[u]]
              /\ \A u \in DOMAIN f : f[u] \in Nat /\ f[u] <= OutLen[u]
<1>1. ASSUME f \in Table
      PROVE  /\ DOMAIN f \subseteq Client \ tooLong
             /\ f = [u \in DOMAIN f |-> f[u]]
             /\ \A u \in DOMAIN f : f[u] \in Nat /\ f[u] <= OutLen[u]
  <2>1. PICK D \in SUBSET (Client \ tooLong) : f \in [D -> Nat]
    BY <1>1 DEF Table
  <2> QED BY <1>1, <2>1 DEF Table
<1>2. ASSUME DOMAIN f \subseteq Client \ tooLong,
             f = [u \in DOMAIN f |-> f[u]],
             \A u \in DOMAIN f : f[u] \in Nat /\ f[u] <= OutLen[u]
      PROVE  f \in Table
  <2>1. f \in [DOMAIN f -> Nat]
    BY <1>2
  <2> QED BY <1>2, <2>1 DEF Table
<1> QED
  BY <1>1, <1>2

(* One message keeps the table; it adds at most its own request.            *)
LEMMA ProcessOneMsgType ==
    ASSUME ClientsAssumption, NEW t \in Table, NEW msg \in UserMessage
    PROVE  /\ ProcessOneMsg(t, msg) \in Table
           /\ \A u \in DOMAIN ProcessOneMsg(t, msg) :
                 \/ u \in DOMAIN t /\ ProcessOneMsg(t, msg)[u] = t[u]
                 \/ ProcessOneMsg(t, msg)[u] = 0 /\ msg = TokenizeMsg(u)
<1> DEFINE p == ProcessOneMsg(t, msg)
<1>1. CASE msg.type = "user" /\ msg.uid \in tooLong
  BY <1>1 DEF ProcessOneMsg
<1>2. CASE msg.type = "user" /\ msg.uid \notin tooLong
  <2>1. p = [u \in DOMAIN t \cup {msg.uid} |-> IF u = msg.uid THEN 0 ELSE t[u]]
    BY <1>2 DEF ProcessOneMsg, Put
  <2>2. msg.uid \in Client /\ 0 <= OutLen[msg.uid]
    BY DEF UserMessage, ClientsAssumption
  <2>3. p \in Table
    BY <2>1, <2>2, <1>2, TableIs
  <2>4. msg = TokenizeMsg(msg.uid)
    BY <1>2 DEF TokenizeMsg, UserMessage
  <2> QED BY <2>1, <2>3, <2>4
<1>3. CASE msg.type = "abort"
  <2>1. p = [u \in DOMAIN t \ {msg.uid} |-> t[u]]
    BY <1>3 DEF ProcessOneMsg
  <2>2. p \in Table
    BY <2>1, TableIs
  <2> QED BY <2>1, <2>2
<1> QED
  BY <1>1, <1>2, <1>3 DEF UserMessage

(* So do the messages of a turn, handled one after the other.               *)
LEMMA ProcessedType ==
    ASSUME ClientsAssumption, NEW t \in Table, NEW msgs \in Seq(UserMessage)
    PROVE  /\ Processed(t, msgs) \in Table
           /\ \A u \in DOMAIN Processed(t, msgs) :
                 \/ u \in DOMAIN t /\ Processed(t, msgs)[u] = t[u]
                 \/ /\ Processed(t, msgs)[u] = 0
                    /\ \E i \in 1 .. Len(msgs) : msgs[i] = TokenizeMsg(u)
<1> DEFINE n == Len(msgs)
           turn == [x \in (1 .. n) \X Table |-> ProcessOneMsg(x[2], msgs[x[1]])]
           Body(f) == [i \in 0 .. n |-> IF i = 0 THEN t ELSE ProcessOneMsg(f[i - 1], msgs[i])]
           after == CHOOSE f : f = Body(f)
<1>1. n \in Nat /\ \A i \in 1 .. n : msgs[i] \in UserMessage
  BY ElementOfSeq, LenProperties
<1>2. turn \in [(1 .. n) \X Table -> Table]
  BY <1>1, ProcessOneMsgType
<1>3. PICK f : IsRun(f, Table, t, n, turn)
  <2>1. n \in Nat
    BY <1>1
  <2> HIDE DEF n, turn
  <2> QED BY <2>1, <1>2, LoopRuns, Zenon
<1>4. \A i \in 1 .. n : i - 1 \in 0 .. n /\ f[i] = ProcessOneMsg(f[i - 1], msgs[i])
  <2> SUFFICES ASSUME NEW i \in 1 .. n
               PROVE  i - 1 \in 0 .. n /\ f[i] = ProcessOneMsg(f[i - 1], msgs[i])
    OBVIOUS
  <2>1. i - 1 \in 0 .. n /\ f[i - 1] \in Table
    BY <1>1, <1>3, SMTT(30) DEF IsRun
  <2> QED BY <1>3, <2>1 DEF IsRun
<1>5. f = Body(f)
  BY <1>1, <1>3, <1>4 DEF IsRun
<1>6. after = Body(after)
  BY <1>5
<1>7. after[0] = t /\ \A i \in 1 .. n : after[i] = ProcessOneMsg(after[i - 1], msgs[i])
  <2> HIDE DEF after
  <2> QED BY <1>1, <1>6
<1>8. Processed(t, msgs) = after[n]
  BY DEF Processed
<1> DEFINE Good(i) ==
      /\ after[i] \in Table
      /\ \A u \in DOMAIN after[i] :
            \/ u \in DOMAIN t /\ after[i][u] = t[u]
            \/ after[i][u] = 0 /\ \E j \in 1 .. n : msgs[j] = TokenizeMsg(u)
           S == {i \in Nat : i <= n => Good(i)}
<1> HIDE DEF after
<1>9. 0 \in S
  BY <1>7
<1>10. ASSUME NEW i \in Nat, i \in S
       PROVE  i + 1 \in S
  <2>1. SUFFICES ASSUME i + 1 <= n PROVE Good(i + 1)
    OBVIOUS
  <2>2. Good(i) /\ i + 1 \in 1 .. n
    BY <1>1, <1>10, <2>1
  <2>3. after[i + 1] = ProcessOneMsg(after[i], msgs[i + 1])
    BY <1>7, <2>2
  <2> QED BY <1>1, <2>2, <2>3, ProcessOneMsgType
<1>11. n \in S
  <2> HIDE DEF S
  <2> QED BY <1>1, <1>9, <1>10, SetInduction
<1> QED
  BY <1>1, <1>8, <1>11
-----------------------------------------------------------------------------
(* What a rank does is a function of its state and of what it is told.      *)

RankState ==
    [pc : {"recv", "step", "forward"}, live : Table, batch : SUBSET Client, last : Results]

At(r) == [pc |-> pc[r], live |-> live[r], batch |-> batch[r], last |-> last[r]]

Published == UserMessage \cup {Probs} \cup {Draft(us) : us \in SUBSET Client}

(* A rank in state s that takes part in Receive(r, msgs). *)
Received(s, msgs) ==
    LET requests == Processed(s.live, msgs)
        prefill  == Pending(requests, s.last)
        decode   == Running(requests, s.last)
    IN  IF prefill \cup decode = {}
        THEN [pc |-> s.pc, live |-> Settled(requests, s.last, {}), batch |-> s.batch, last |-> <<>>]
        ELSE [pc    |-> IF prefill = {} /\ speculating THEN "step" ELSE "forward",
              live  |-> requests,
              batch |-> IF prefill # {} THEN prefill ELSE decode,
              last  |-> s.last]

(* The messages of one broadcast take a rank from s to t. *)
Link(s, msgs, t) ==
    \/ s.pc = "recv" /\ msgs \in Seq(UserMessage) /\ t = Received(s, msgs)
    \/ /\ s.pc = "step" /\ msgs \in {<<Draft(s.batch)>>, <<Draft(s.batch), Probs>>}
       /\ t = [s EXCEPT !.pc = "forward"]

(* The broadcasts, of cs messages each, of the messages ms take it from s   *)
(* to t: h has the states in between, o how many messages were taken.       *)
Steps(h, o, s, cs, ms, t) ==
    /\ h \in [0 .. Len(cs) -> RankState] /\ o \in [0 .. Len(cs) -> Nat]
    /\ h[0] = s /\ h[Len(cs)] = t
    /\ o[0] = 0 /\ o[Len(cs)] = Len(ms)
    /\ \A i \in 1 .. Len(cs) :
          /\ o[i] = o[i - 1] + cs[i] /\ o[i] <= Len(ms)
          /\ Link(h[i - 1], SubSeq(ms, o[i - 1] + 1, o[i]), h[i])

Leads(s, cs, ms, t) == \E h, o : Steps(h, o, s, cs, ms, t)

LEMMA LeadsNothing ==
    ASSUME NEW s \in RankState
    PROVE  Leads(s, <<>>, <<>>, s)
<1> DEFINE h == [i \in 0 .. 0 |-> s]
           o == [i \in 0 .. 0 |-> 0]
<1>1. Steps(h, o, s, <<>>, <<>>, s)
  BY DEF Steps
<1> QED
  BY <1>1 DEF Leads

LEMMA LeadsEmpty ==
    ASSUME NEW s, NEW t, NEW ms \in Seq(Published), Leads(s, <<>>, ms, t)
    PROVE  ms = <<>> /\ s = t /\ s \in RankState
<1>1. PICK h, o : Steps(h, o, s, <<>>, ms, t)
  BY DEF Leads
<1>2. Len(ms) = 0 /\ s = t /\ s \in RankState
  BY <1>1 DEF Steps
<1> QED
  BY <1>2, EmptySeq

(* One more broadcast at the end. *)
LEMMA LeadsAppend ==
    ASSUME NEW s, NEW t, NEW w \in RankState, NEW cs \in Seq(Nat), NEW ms \in Seq(Published),
           NEW m \in Seq(Published), Leads(s, cs, ms, t), Link(t, m, w)
    PROVE  Leads(s, Append(cs, Len(m)), ms \o m, w)
<1> DEFINE n == Len(cs)
           cs1 == Append(cs, Len(m))
           ms1 == ms \o m
<1>1. PICK h, o : Steps(h, o, s, cs, ms, t)
  BY DEF Leads
<1>2. /\ n \in Nat /\ Len(m) \in Nat /\ Len(ms) \in Nat
      /\ Len(cs1) = n + 1 /\ cs1[n + 1] = Len(m) /\ \A i \in 1 .. n : cs1[i] = cs[i]
      /\ ms1 \in Seq(Published) /\ Len(ms1) = Len(ms) + Len(m)
  BY LenProperties, AppendProperties, ConcatProperties
<1> DEFINE h1 == [i \in 0 .. n + 1 |-> IF i = n + 1 THEN w ELSE h[i]]
           o1 == [i \in 0 .. n + 1 |-> IF i = n + 1 THEN Len(ms1) ELSE o[i]]
<1>3. /\ h1 \in [0 .. n + 1 -> RankState] /\ o1 \in [0 .. n + 1 -> Nat]
      /\ \A i \in 0 .. n : h1[i] = h[i] /\ o1[i] = o[i]
      /\ h1[n + 1] = w /\ o1[n + 1] = Len(ms1)
      /\ h1[0] = s /\ o1[0] = 0
  BY <1>1, <1>2 DEF Steps
<1>4. SubSeq(ms1, Len(ms) + 1, Len(ms1)) = m
  <2>1. SubSeq(ms1, Len(ms) + 1, Len(ms) + Len(m)) = m
    BY PartIsSecond
  <2> QED BY <1>2, <2>1
<1>5. \A a \in Nat, b \in 0 .. Len(ms) : SubSeq(ms1, a + 1, b) = SubSeq(ms, a + 1, b)
  BY PartOfFirst
<1> HIDE DEF h1, o1, cs1, ms1
<1>6. ASSUME NEW i \in 1 .. n + 1
      PROVE  /\ o1[i] = o1[i - 1] + cs1[i] /\ o1[i] <= Len(ms1)
             /\ Link(h1[i - 1], SubSeq(ms1, o1[i - 1] + 1, o1[i]), h1[i])
  <2>1. CASE i = n + 1
    <3>1. i - 1 = n /\ n \in 0 .. n /\ o1[n] = Len(ms) /\ h1[n] = t
      BY <1>1, <1>2, <1>3, <2>1 DEF Steps
    <3>2. /\ o1[i] = Len(ms1) /\ h1[i] = w /\ cs1[i] = Len(m)
          /\ o1[i - 1] = Len(ms) /\ h1[i - 1] = t
      BY <1>2, <1>3, <2>1, <3>1
    <3>3. o1[i] = o1[i - 1] + cs1[i] /\ o1[i] <= Len(ms1)
      BY <1>2, <3>2
    <3>4. SubSeq(ms1, o1[i - 1] + 1, o1[i]) = m
      BY <1>4, <3>2
    <3> QED BY <3>2, <3>3, <3>4
  <2>2. CASE i # n + 1
    <3>1. i \in 1 .. n /\ i \in 0 .. n /\ i - 1 \in 0 .. n
      BY <1>2, <2>2
    <3>2. /\ o[i] = o[i - 1] + cs[i] /\ o[i] <= Len(ms) /\ o[i - 1] \in Nat /\ o[i] \in Nat
          /\ Link(h[i - 1], SubSeq(ms, o[i - 1] + 1, o[i]), h[i]) /\ cs[i] \in Nat
      BY <1>1, <3>1, ElementOfSeq DEF Steps
    <3>3. SubSeq(ms1, o[i - 1] + 1, o[i]) = SubSeq(ms, o[i - 1] + 1, o[i])
      <4>1. o[i] \in 0 .. Len(ms)
        BY <1>2, <3>2
      <4> QED BY <1>5, <3>2, <4>1
    <3>4. o1[i - 1] = o[i - 1] /\ o1[i] = o[i] /\ h1[i - 1] = h[i - 1] /\ h1[i] = h[i] /\ cs1[i] = cs[i]
      BY <1>2, <1>3, <3>1
    <3>5. o1[i] <= Len(ms1)
      BY <1>2, <3>2, <3>4
    <3> QED BY <3>2, <3>3, <3>4, <3>5
  <2> QED BY <2>1, <2>2
<1>7. Steps(h1, o1, s, cs1, ms1, w)
  BY <1>2, <1>3, <1>6 DEF Steps
<1> QED
  BY <1>7 DEF Leads, cs1, ms1

LEMMA Offset ==
    ASSUME NEW k \in Nat, NEW x \in Nat, NEW bound \in Nat, k <= x, x <= bound
    PROVE  x - k \in 0 .. bound - k /\ x - k \in Nat /\ k + (x - k) = x
  OBVIOUS

(* The first broadcast, and what is left when it has been taken. *)
LEMMA LeadsHead ==
    ASSUME NEW s, NEW t, NEW cs \in Seq(Nat), NEW ms \in Seq(Published), cs # <<>>,
           Leads(s, cs, ms, t)
    PROVE  /\ Head(cs) \in 0 .. Len(ms)
           /\ \E w \in RankState :
                 /\ Link(s, SubSeq(ms, 1, Head(cs)), w)
                 /\ Leads(w, Tail(cs), SubSeq(ms, Head(cs) + 1, Len(ms)), t)
<1> DEFINE n == Len(cs)
           k == Head(cs)
           cs1 == Tail(cs)
           ms1 == SubSeq(ms, k + 1, Len(ms))
<1>1. PICK h, o : Steps(h, o, s, cs, ms, t)
  BY DEF Leads
<1>2. /\ n \in Nat \ {0} /\ Len(ms) \in Nat /\ k = cs[1] /\ k \in Nat
      /\ Len(cs1) = n - 1 /\ \A i \in 1 .. n - 1 : cs1[i] = cs[i + 1]
  BY LenProperties, EmptySeq, HeadTailProperties
<1>3. o[0] = 0 /\ o[1] = k /\ k <= Len(ms) /\ h[0] = s /\ h[1] \in RankState
      /\ Link(s, SubSeq(ms, 1, k), h[1])
  <2>1. 1 \in 1 .. n /\ 0 \in 0 .. n /\ 1 \in 0 .. n
    BY <1>2
  <2>2. o[1] = o[0] + cs[1] /\ o[1] <= Len(ms) /\ Link(h[0], SubSeq(ms, o[0] + 1, o[1]), h[1])
    BY <1>1, <2>1 DEF Steps
  <2>3. o[0] = 0 /\ h[0] = s /\ h[1] \in RankState
    BY <1>1, <2>1 DEF Steps
  <2> QED BY <1>2, <2>2, <2>3
<1>4. \A i \in k + 1 .. Len(ms) : ms[i] \in Published
  BY <1>2, ElementOfSeq
<1>5. Len(ms1) = Len(ms) - k
  BY <1>2, <1>3, <1>4, SubSeqProperties
<1>6. \A a \in Nat, b \in 0 .. Len(ms) - k : SubSeq(ms1, a + 1, b) = SubSeq(ms, k + a + 1, k + b)
  <2>1. k \in 0 .. Len(ms)
    BY <1>2, <1>3
  <2> HIDE DEF k
  <2> QED BY <2>1, PartOfRest
<1>7. ASSUME NEW i \in 0 .. n
      PROVE  /\ o[i] \in Nat /\ h[i] \in RankState
             /\ i > 0 => /\ o[i] = o[i - 1] + cs[i] /\ o[i] <= Len(ms)
                         /\ Link(h[i - 1], SubSeq(ms, o[i - 1] + 1, o[i]), h[i])
  <2>1. o[i] \in Nat /\ h[i] \in RankState
    BY <1>1 DEF Steps
  <2>2. ASSUME i > 0 PROVE i \in 1 .. n
    BY <1>2, <2>2
  <2> QED BY <1>1, <2>1, <2>2 DEF Steps
<1>8. \A i \in 1 .. n : cs[i] \in Nat
  BY ElementOfSeq
(* No broadcast takes a message back. *)
<1>9. \A i \in 1 .. n : k <= o[i]
  <2> DEFINE S == {j \in Nat : j + 1 <= n => k <= o[j + 1]}
  <2>1. 0 \in S
    BY <1>2, <1>3
  <2>2. ASSUME NEW j \in Nat, j \in S PROVE j + 1 \in S
    <3>1. SUFFICES ASSUME j + 1 + 1 <= n PROVE k <= o[j + 1 + 1]
      OBVIOUS
    <3>2. k <= o[j + 1] /\ o[j + 1] \in Nat
      BY <1>2, <1>7, <2>2, <3>1
    <3>3. j + 1 + 1 \in 1 .. n /\ j + 1 + 1 \in 0 .. n /\ j + 1 + 1 > 0 /\ j + 1 + 1 - 1 = j + 1
      BY <1>2, <3>1
    <3>4. o[j + 1 + 1] = o[j + 1] + cs[j + 1 + 1] /\ cs[j + 1 + 1] \in Nat
      BY <1>7, <1>8, <3>3
    <3> QED BY <1>2, <3>2, <3>4
  <2>3. Nat \subseteq S
    <3> HIDE DEF S
    <3> QED BY <2>1, <2>2, SetInduction
  <2> TAKE i \in 1 .. n
  <2>4. i - 1 \in S /\ i - 1 + 1 = i
    BY <1>2, <2>3, SMTT(30)
  <2> QED BY <2>4
<1> DEFINE h1 == [i \in 0 .. n - 1 |-> h[i + 1]]
           o1 == [i \in 0 .. n - 1 |-> o[i + 1] - k]
<1>10. \A i \in 0 .. n - 1 : i + 1 \in 1 .. n /\ i + 1 \in 0 .. n
  BY <1>2
<1>11. h1 \in [0 .. n - 1 -> RankState] /\ o1 \in [0 .. n - 1 -> Nat]
  <2>1. ASSUME NEW i \in 0 .. n - 1
        PROVE  h[i + 1] \in RankState /\ o[i + 1] - k \in Nat
    <3> HIDE DEF n, k
    <3> QED BY <1>2, <1>7, <1>9, <1>10
  <2> QED BY <2>1
<1>12. h1[0] = h[1] /\ h1[n - 1] = t /\ o1[0] = 0 /\ o1[n - 1] = Len(ms1)
  <2>1. h[n] = t /\ o[n] = Len(ms)
    BY <1>1 DEF Steps
  <2> QED BY <1>2, <1>3, <1>5, <2>1
<1>13. ASSUME NEW i \in 1 .. n - 1
       PROVE  /\ o1[i] = o1[i - 1] + cs1[i] /\ o1[i] <= Len(ms1)
              /\ Link(h1[i - 1], SubSeq(ms1, o1[i - 1] + 1, o1[i]), h1[i])
  <2>1. i + 1 \in 0 .. n /\ i + 1 > 0 /\ i + 1 - 1 = i /\ i \in 0 .. n /\ i \in 1 .. n /\ i + 1 \in 1 .. n
    BY <1>2
  <2>2. /\ o[i + 1] = o[i] + cs[i + 1] /\ o[i + 1] <= Len(ms)
        /\ Link(h[i], SubSeq(ms, o[i] + 1, o[i + 1]), h[i + 1])
        /\ o[i] \in Nat /\ o[i + 1] \in Nat /\ k <= o[i] /\ k <= o[i + 1]
    BY <1>7, <1>9, <2>1
  <2>3. /\ h1[i - 1] = h[i] /\ h1[i] = h[i + 1] /\ o1[i - 1] = o[i] - k /\ o1[i] = o[i + 1] - k
        /\ cs1[i] = cs[i + 1]
    BY <1>2, <2>1
  <2>4. Len(ms) \in Nat /\ k \in Nat /\ cs[i + 1] \in Nat /\ n \in Nat /\ i \in Nat
    BY <1>2, <1>8, <2>1
  <2> HIDE DEF h1, o1, ms1, cs1, k, n
  <2>5. /\ o1[i - 1] \in Nat /\ o1[i] \in 0 .. Len(ms) - k
        /\ k + o1[i - 1] + 1 = o[i] + 1 /\ k + o1[i] = o[i + 1]
        /\ o1[i] = o1[i - 1] + cs1[i]
    <3>1. o[i] <= Len(ms)
      BY <2>2, <2>4
    <3>2. /\ o[i] - k \in 0 .. Len(ms) - k /\ k + (o[i] - k) = o[i]
          /\ o[i + 1] - k \in 0 .. Len(ms) - k /\ k + (o[i + 1] - k) = o[i + 1]
          /\ o[i] - k \in Nat
      BY <2>2, <2>4, <3>1, Offset
    <3>3. o[i + 1] - k = o[i] - k + cs[i + 1]
      BY <2>2, <2>4, SMTT(30)
    <3> QED BY <2>3, <3>2, <3>3
  <2>6. SubSeq(ms1, o1[i - 1] + 1, o1[i]) = SubSeq(ms, o[i] + 1, o[i + 1])
    BY <1>6, <2>5
  <2>7. o1[i] <= Len(ms1)
    BY <1>5, <2>4, <2>5
  <2> QED BY <2>2, <2>3, <2>5, <2>6, <2>7
<1>14. Steps(h1, o1, h[1], cs1, ms1, t)
  <2> HIDE DEF h1, o1, ms1, cs1
  <2> QED BY <1>2, <1>11, <1>12, <1>13 DEF Steps
<1>15. Leads(h[1], cs1, ms1, t)
  <2> HIDE DEF h1, o1, ms1, cs1
  <2> QED BY <1>14 DEF Leads
<1> QED
  BY <1>2, <1>3, <1>15
-----------------------------------------------------------------------------
(* The results of a batch keep the table. *)
LEMMA SettledShape ==
    ASSUME NEW t \in Table, NEW res \in Results, NEW us \in SUBSET Client,
           NEW f, f = Settled(t, res, us)
    PROVE  /\ \A u : u \in DOMAIN f <=>
                       u \in DOMAIN t /\ (u \in DOMAIN res => ~Finished(t, res, us, u))
           /\ \A u \in DOMAIN f : f[u] = IF u \in DOMAIN res THEN NextLen(t, res, u) ELSE t[u]
           /\ f = [u \in DOMAIN f |-> f[u]]
<1> DEFINE reply == Reply(t, res, us)
           ended == {a.uid : a \in {a \in reply : a.finished}}
<1>1. ended = {u \in DOMAIN res \cap DOMAIN t : Finished(t, res, us, u)}
  <2>1. ASSUME NEW u \in ended
        PROVE  u \in DOMAIN res \cap DOMAIN t /\ Finished(t, res, us, u)
    <3>1. PICK a \in reply : a.finished /\ a.uid = u
      OBVIOUS
    <3>2. PICK v \in DOMAIN res \cap DOMAIN t :
             a = [uid |-> v, from |-> t[v] + 1, to |-> NextLen(t, res, v),
                  finished |-> Finished(t, res, us, v)]
      BY DEF Reply
    <3>3. v = u /\ Finished(t, res, us, v)
      BY <3>1, <3>2
    <3> QED BY <3>3
  <2>2. ASSUME NEW u \in DOMAIN res \cap DOMAIN t, Finished(t, res, us, u)
        PROVE  u \in ended
    <3> DEFINE a == [uid |-> u, from |-> t[u] + 1, to |-> NextLen(t, res, u),
                     finished |-> Finished(t, res, us, u)]
    <3>1. a \in reply /\ a.finished /\ a.uid = u
      BY <2>2 DEF Reply
    <3> QED BY <3>1
  <2> QED BY <2>1, <2>2
<1>2. Settled(t, res, us) =
        [u \in DOMAIN t \ ended |-> IF u \in DOMAIN res THEN NextLen(t, res, u) ELSE t[u]]
  BY DEF Settled
<1> QED
  BY <1>1, <1>2

LEMMA NextLenIs ==
    ASSUME ClientsAssumption, NEW t \in Table, NEW res \in Results,
           NEW u \in DOMAIN res \cap DOMAIN t
    PROVE  /\ NextLen(t, res, u) \in Nat /\ t[u] \in Nat /\ OutLen[u] \in Nat
           /\ t[u] <= NextLen(t, res, u) /\ NextLen(t, res, u) <= OutLen[u]
<1>1. t[u] \in Nat /\ t[u] <= OutLen[u] /\ OutLen[u] \in Nat
  BY TableIs DEF ClientsAssumption
<1>2. res[u] \in Nat \ {0}
  BY DEF Results
<1> QED
  BY <1>1, <1>2 DEF NextLen, Lesser

LEMMA SettledType ==
    ASSUME ClientsAssumption, NEW t \in Table, NEW res \in Results, NEW us \in SUBSET Client
    PROVE  Settled(t, res, us) \in Table
<1>1. PICK f : f = Settled(t, res, us)
  OBVIOUS
<1>2. /\ \A u : u \in DOMAIN f <=>
                  u \in DOMAIN t /\ (u \in DOMAIN res => ~Finished(t, res, us, u))
      /\ \A u \in DOMAIN f : f[u] = IF u \in DOMAIN res THEN NextLen(t, res, u) ELSE t[u]
      /\ f = [u \in DOMAIN f |-> f[u]]
  BY <1>1, SettledShape
<1>3. ASSUME NEW u \in DOMAIN f
      PROVE  f[u] \in Nat /\ f[u] <= OutLen[u] /\ u \in Client \ tooLong
  <2>1. u \in DOMAIN t /\ u \in Client \ tooLong
    BY <1>2, TableIs
  <2>2. CASE u \in DOMAIN res
    <3>1. f[u] = NextLen(t, res, u)
      BY <1>2, <2>2
    <3>2. NextLen(t, res, u) \in Nat /\ NextLen(t, res, u) <= OutLen[u]
      BY <2>1, <2>2, NextLenIs
    <3> QED BY <2>1, <3>1, <3>2
  <2>3. CASE u \notin DOMAIN res
    BY <1>2, <2>1, <2>3, TableIs
  <2> QED BY <2>2, <2>3
<1>4. f \in Table
  BY <1>2, <1>3, TableIs
<1> QED
  BY <1>1, <1>4

LEMMA NoResults == <<>> \in Results
  BY DEF Results

LEMMA ReceivedType ==
    ASSUME ClientsAssumption, NEW s \in RankState, NEW msgs \in Seq(UserMessage)
    PROVE  Received(s, msgs) \in RankState
<1> DEFINE requests == Processed(s.live, msgs)
<1>1. requests \in Table /\ s.last \in Results /\ s.batch \in SUBSET Client
  BY ProcessedType DEF RankState
<1>2. DOMAIN requests \in SUBSET Client
  BY <1>1, TableIs
<1>3. /\ Pending(requests, s.last) \in SUBSET Client
      /\ Running(requests, s.last) \in SUBSET Client
  BY <1>2 DEF Pending, Running
<1>4. Settled(requests, s.last, {}) \in Table
  BY <1>1, SettledType
<1> HIDE DEF requests
<1> QED
  BY <1>1, <1>3, <1>4, NoResults DEF Received, RankState, requests

LEMMA LinkType ==
    ASSUME ClientsAssumption, NEW s \in RankState, NEW m, NEW t, Link(s, m, t)
    PROVE  t \in RankState
  BY ReceivedType DEF Link, RankState

(* All this depends on the arguments of the server only. *)
LEMMA SettledStays ==
    ASSUME speculating' = speculating, NEW t, NEW res, NEW us
    PROVE  Settled(t, res, us)' = Settled(t, res, us)
<1>1. ASSUME NEW u PROVE Finished(t, res, us, u)' = Finished(t, res, us, u)
  BY DEF Finished, Stale
<1>2. Reply(t, res, us)' = Reply(t, res, us)
  BY <1>1 DEF Reply
<1> QED
  BY <1>2 DEF Settled

LEMMA LeadsStays ==
    ASSUME UNCHANGED args, NEW s, NEW cs, NEW ms, NEW t
    PROVE  Leads(s, cs, ms, t)' <=> Leads(s, cs, ms, t)
<1>1. speculating' = speculating /\ tooLong' = tooLong
  BY DEF args
<1>2. Table' = Table
  BY <1>1 DEF Table
<1>3. RankState' = RankState
  BY <1>2 DEF RankState
<1>4. ASSUME NEW a, NEW m PROVE Processed(a, m)' = Processed(a, m)
  BY <1>1 DEF Processed, ProcessOneMsg
<1>5. ASSUME NEW a, NEW m PROVE Received(a, m)' = Received(a, m)
  BY <1>1, <1>4, SettledStays DEF Received, Running
<1>6. ASSUME NEW a, NEW m, NEW b PROVE Link(a, m, b)' <=> Link(a, m, b)
  BY <1>5 DEF Link
<1> QED
  BY <1>3, <1>6 DEF Leads, Steps
-----------------------------------------------------------------------------
(* A rank that is behind follows rank 0: what it has been told and has not  *)
(* taken yet is what takes it where rank 0 is.                              *)

RankTypes ==
    /\ size \in Sizes
    /\ pc \in [Rank -> {"recv", "step", "forward"}] /\ live \in [Rank -> Table]
    /\ batch \in [Rank -> SUBSET Client] /\ last \in [Rank -> Results]
    /\ counts \in [Rank -> Seq(Nat)] /\ pub \in [Rank -> Seq(Published)]
    /\ raw \in Seq(UserMessage)
    /\ toTokenizer \in [Tokenizer -> Seq(UserMessage)]
    /\ toBackend \in [Tokenizer -> Seq(UserMessage)]

Following == \A r \in Others : Leads(At(r), counts[r], pub[r], At(0))

NotAhead ==
    /\ \A r \in Rank : Len(counts[r]) <= MaxCounts
    /\ \A r \in Rank \ Group : counts[r] = <<>>

RankInv == RankTypes /\ Following /\ NotAhead

LEMMA TypesStay ==
    ASSUME UNCHANGED args
    PROVE  Table' = Table /\ RankState' = RankState /\ Group' = Group /\ Others' = Others
<1>1. Table' = Table
  BY DEF Table, args
<1> QED
  BY <1>1 DEF RankState, Group, Others, args

LEMMA GroupIs ==
    ASSUME GroupAssumption, RankInv
    PROVE  0 \in Group /\ Group \subseteq Rank /\ Others \subseteq Rank \ {0}
  BY DEF GroupAssumption, RankInv, RankTypes, Group, Others, Rank

LEMMA UserMessagesPublished == Seq(UserMessage) \subseteq Seq(Published)
<1> SUFFICES ASSUME NEW s \in Seq(UserMessage)
             PROVE  s \in Seq(Published)
  OBVIOUS
<1>1. Len(s) \in Nat /\ s \in [1 .. Len(s) -> UserMessage]
  BY LenProperties
<1>2. s \in [1 .. Len(s) -> Published]
  BY <1>1 DEF Published
<1> QED
  BY <1>1, <1>2

LEMMA AtType ==
    ASSUME RankTypes, NEW r \in Rank
    PROVE  At(r) \in RankState
  BY DEF RankTypes, At, RankState

(* What is left alone. *)
LEMMA RanksRest ==
    ASSUME RankInv, UNCHANGED <<args, counts, pub, pc, live, batch, last>>,
           raw' \in Seq(UserMessage), toTokenizer' \in [Tokenizer -> Seq(UserMessage)],
           toBackend' \in [Tokenizer -> Seq(UserMessage)]
    PROVE  RankInv'
<1>1. Table' = Table /\ Group' = Group /\ Others' = Others /\ size' = size
  BY TypesStay DEF args
<1>2. RankTypes'
  BY <1>1 DEF RankInv, RankTypes
<1>3. Following'
  <2> SUFFICES ASSUME NEW r \in Others
               PROVE  Leads(At(r), counts[r], pub[r], At(0))'
    BY <1>1 DEF Following
  <2>1. Leads(At(r), counts[r], pub[r], At(0))
    BY DEF RankInv, Following
  <2>2. /\ At(r)' = At(r) /\ At(0)' = At(0) /\ counts[r]' = counts[r] /\ pub[r]' = pub[r]
    BY DEF At
  <2>3. Leads(At(r), counts[r], pub[r], At(0))' <=> Leads(At(r)', counts[r]', pub[r]', At(0)')
    BY <2>2, LeadsStays
  <2> QED BY <2>1, <2>2, <2>3
<1>4. NotAhead'
  BY <1>1 DEF RankInv, NotAhead
<1> QED
  BY <1>2, <1>3, <1>4 DEF RankInv

(* A rank that receives goes where Received says; the others stay. *)
LEMMA ReceiveIs ==
    ASSUME ClientsAssumption, RankTypes, NEW r \in Rank, pc[r] = "recv",
           NEW msgs \in Seq(UserMessage), Receive(r, msgs)
    PROVE  /\ At(r)' = Received(At(r), msgs)
           /\ \A q \in Rank \ {r} : At(q)' = At(q)
           /\ pc' \in [Rank -> {"recv", "step", "forward"}] /\ live' \in [Rank -> Table]
           /\ batch' \in [Rank -> SUBSET Client] /\ last' \in [Rank -> Results]
<1> DEFINE requests == Processed(live[r], msgs)
           prefill  == Pending(requests, last[r])
           decode   == Running(requests, last[r])
<1>1. At(r) \in RankState
  BY AtType
<1>2. Received(At(r), msgs) \in RankState
  BY <1>1, ReceivedType
<1>3. At(r).pc = "recv" /\ At(r).live = live[r] /\ At(r).batch = batch[r] /\ At(r).last = last[r]
  BY DEF At
<1>4. /\ pc \in [Rank -> {"recv", "step", "forward"}] /\ live \in [Rank -> Table]
      /\ batch \in [Rank -> SUBSET Client] /\ last \in [Rank -> Results]
  BY DEF RankTypes
<1>5. CASE prefill \cup decode = {}
  <2>1. Received(At(r), msgs) =
          [pc |-> "recv", live |-> Settled(requests, last[r], {}), batch |-> batch[r], last |-> <<>>]
    BY <1>3, <1>5 DEF Received
  <2>2. /\ live' = [live EXCEPT ![r] = Settled(requests, last[r], {})]
        /\ last' = [last EXCEPT ![r] = <<>>] /\ pc' = pc /\ batch' = batch
    BY <1>5 DEF Receive
  <2>3. Settled(requests, last[r], {}) \in Table
    BY <1>2, <2>1 DEF RankState
  <2> HIDE DEF requests
  <2> QED BY <1>4, <2>1, <2>2, <2>3, NoResults DEF At
<1>6. CASE prefill \cup decode # {}
  <2> DEFINE us == IF prefill # {} THEN prefill ELSE decode
             next == IF prefill = {} /\ speculating THEN "step" ELSE "forward"
  <2>1. Received(At(r), msgs) =
          [pc |-> next, live |-> requests, batch |-> us, last |-> last[r]]
    BY <1>3, <1>6 DEF Received
  <2>2. /\ live' = [live EXCEPT ![r] = requests] /\ batch' = [batch EXCEPT ![r] = us]
        /\ pc' = [pc EXCEPT ![r] = next] /\ last' = last
    BY <1>6 DEF Receive
  <2>3. requests \in Table /\ us \in SUBSET Client
    BY <1>2, <2>1 DEF RankState
  <2>4. next \in {"recv", "step", "forward"}
    OBVIOUS
  <2> HIDE DEF requests, us, next
  <2> QED BY <1>4, <2>1, <2>2, <2>3, <2>4 DEF At
<1> QED
  BY <1>5, <1>6

(* Rank 0 goes on and tells the others what they need to follow. *)
LEMMA BroadcastKeeps ==
    ASSUME ClientsAssumption, GroupAssumption, RankInv, UNCHANGED args,
           NEW msgs \in Seq(Published), MayBroadcast, Broadcast(msgs),
           Link(At(0), msgs, At(0)'), \A r \in Others : At(r)' = At(r)
    PROVE  /\ counts' \in [Rank -> Seq(Nat)] /\ pub' \in [Rank -> Seq(Published)]
           /\ Following' /\ NotAhead'
<1>1. RankTypes /\ 0 \in Rank
  BY DEF RankInv, Rank
<1>2. Others' = Others /\ Group' = Group /\ Others \subseteq Rank \ {0} /\ Group \subseteq Rank
  BY TypesStay, GroupIs
<1>3. At(0) \in RankState /\ At(0)' \in RankState
  BY <1>1, AtType, LinkType
<1>4. Len(msgs) \in Nat
  BY LenProperties
<1>5. /\ \A r \in Others : counts'[r] = Append(counts[r], Len(msgs)) /\ pub'[r] = pub[r] \o msgs
      /\ \A r \in Rank \ Others : counts'[r] = counts[r] /\ pub'[r] = pub[r]
      /\ counts' = [r \in Rank |-> counts'[r]] /\ pub' = [r \in Rank |-> pub'[r]]
  BY <1>2 DEF Broadcast
<1>6. ASSUME NEW r \in Rank
      PROVE  counts[r] \in Seq(Nat) /\ pub[r] \in Seq(Published) /\ Len(counts[r]) \in Nat
  BY <1>1, LenProperties DEF RankTypes
<1>7. ASSUME NEW r \in Rank
      PROVE  counts'[r] \in Seq(Nat) /\ pub'[r] \in Seq(Published)
  <2>1. CASE r \in Others
    <3>1. counts[r] \in Seq(Nat) /\ pub[r] \in Seq(Published)
      BY <1>6
    <3>2. Append(counts[r], Len(msgs)) \in Seq(Nat)
      BY <1>4, <3>1, AppendProperties
    <3>3. pub[r] \o msgs \in Seq(Published)
      BY <3>1, ConcatProperties
    <3> QED BY <1>5, <2>1, <3>2, <3>3
  <2>2. CASE r \notin Others
    BY <1>5, <1>6, <2>2
  <2> QED BY <2>1, <2>2
<1>8. Following'
  <2> SUFFICES ASSUME NEW r \in Others
               PROVE  Leads(At(r), counts[r], pub[r], At(0))'
    BY <1>2 DEF Following
  <2>1. Leads(At(r), counts[r], pub[r], At(0)) /\ r \in Rank
    BY <1>2 DEF RankInv, Following
  <2>2. Leads(At(r), Append(counts[r], Len(msgs)), pub[r] \o msgs, At(0)')
    BY <1>3, <1>6, <2>1, LeadsAppend
  <2>3. Leads(At(r)', counts'[r], pub'[r], At(0)')
    BY <1>5, <2>2
  <2> QED BY <2>3, LeadsStays
<1>9. NotAhead'
  <2>1. ASSUME NEW r \in Rank
        PROVE  Len(counts'[r]) <= MaxCounts
    <3>1. CASE r \in Others
      <4>1. Len(counts[r]) < MaxCounts
        BY <3>1 DEF MayBroadcast
      <4>2. Len(counts'[r]) = Len(counts[r]) + 1
        BY <1>4, <1>5, <1>6, <3>1, AppendProperties
      <4>3. MaxCounts \in Nat
        BY DEF GroupAssumption
      <4> QED BY <1>6, <4>1, <4>2, <4>3
    <3>2. CASE r \notin Others
      BY <1>5, <3>2 DEF RankInv, NotAhead
    <3> QED BY <3>1, <3>2
  <2>2. ASSUME NEW r \in Rank \ Group
        PROVE  counts'[r] = <<>>
    BY <1>5 DEF RankInv, NotAhead, Others
  <2> QED BY <1>2, <2>1, <2>2 DEF NotAhead
<1> QED
  BY <1>5, <1>7, <1>8, <1>9

LEMMA ReceiveRank0Keeps ==
    ASSUME ClientsAssumption, GroupAssumption, RankInv, ReceiveRank0
    PROVE  RankInv'
<1>1. /\ pc[0] = "recv" /\ Receive(0, raw) /\ Broadcast(raw) /\ MayBroadcast /\ raw' = <<>>
      /\ UNCHANGED args /\ toTokenizer' = toTokenizer /\ toBackend' = toBackend
  BY DEF ReceiveRank0
<1>2. RankTypes /\ 0 \in Rank /\ raw \in Seq(UserMessage) /\ raw \in Seq(Published)
  BY UserMessagesPublished DEF RankInv, RankTypes, Rank
<1>3. /\ At(0)' = Received(At(0), raw)
      /\ \A q \in Rank \ {0} : At(q)' = At(q)
      /\ pc' \in [Rank -> {"recv", "step", "forward"}] /\ live' \in [Rank -> Table]
      /\ batch' \in [Rank -> SUBSET Client] /\ last' \in [Rank -> Results]
  BY <1>1, <1>2, ReceiveIs
<1>4. Link(At(0), raw, At(0)')
  BY <1>1, <1>2, <1>3 DEF Link, At
<1>5. \A r \in Others : At(r)' = At(r)
  BY <1>3, GroupIs
<1>6. /\ counts' \in [Rank -> Seq(Nat)] /\ pub' \in [Rank -> Seq(Published)]
      /\ Following' /\ NotAhead'
  BY <1>1, <1>2, <1>4, <1>5, BroadcastKeeps
<1>7. raw' \in Seq(UserMessage)
  BY <1>1, EmptySeq
<1>8. Table' = Table /\ size' = size
  BY <1>1, TypesStay DEF args
<1>9. RankTypes'
  BY <1>1, <1>2, <1>3, <1>6, <1>7, <1>8 DEF RankTypes
<1> QED
  BY <1>6, <1>9 DEF RankInv

LEMMA StepRank0Keeps ==
    ASSUME ClientsAssumption, GroupAssumption, RankInv, StepRank0
    PROVE  RankInv'
<1>1. /\ pc[0] = "step" /\ MayBroadcast /\ pc' = [pc EXCEPT ![0] = "forward"]
      /\ UNCHANGED args /\ UNCHANGED <<toTokenizer, toBackend, raw, live, batch, last>>
  BY DEF StepRank0
<1>2. PICK probs \in {<<>>, <<Probs>>} : Broadcast(<<Draft(batch[0])>> \o probs)
  BY DEF StepRank0
<1> DEFINE msgs == <<Draft(batch[0])>> \o probs
<1>3. RankTypes /\ 0 \in Rank
  BY DEF RankInv, Rank
<1>4. Draft(batch[0]) \in Published /\ Probs \in Published
  BY <1>3 DEF RankTypes, Published
<1>5. msgs \in Seq(Published) /\ msgs \in {<<Draft(batch[0])>>, <<Draft(batch[0]), Probs>>}
  <2>1. CASE probs = <<>>
    BY <1>4, <2>1
  <2>2. CASE probs = <<Probs>>
    <3>1. msgs = <<Draft(batch[0]), Probs>>
      BY <1>4, <2>2, PairOfOnes
    <3>2. <<Draft(batch[0]), Probs>> \in Seq(Published)
      BY <1>4
    <3> QED BY <3>1, <3>2
  <2> QED BY <1>2, <2>1, <2>2
<1>6. /\ pc' \in [Rank -> {"recv", "step", "forward"}]
      /\ At(0)' = [At(0) EXCEPT !.pc = "forward"]
      /\ \A r \in Others : At(r)' = At(r)
  <2>1. pc \in [Rank -> {"recv", "step", "forward"}] /\ Others \subseteq Rank \ {0}
    BY <1>3, GroupIs DEF RankTypes
  <2>2. /\ pc' \in [Rank -> {"recv", "step", "forward"}]
        /\ pc'[0] = "forward" /\ \A r \in Others : pc'[r] = pc[r]
    BY <1>1, <1>3, <2>1
  <2>3. At(0)' = [At(0) EXCEPT !.pc = "forward"]
    BY <1>1, <2>2 DEF At
  <2>4. \A r \in Others : At(r)' = At(r)
    BY <1>1, <2>2 DEF At
  <2> QED BY <2>2, <2>3, <2>4
<1>7. Link(At(0), msgs, At(0)')
  <2>1. At(0).pc = "step" /\ At(0).batch = batch[0]
    BY <1>1 DEF At
  <2> QED BY <1>5, <1>6, <2>1 DEF Link
<1> HIDE DEF msgs
<1>8. Broadcast(msgs)
  BY <1>2 DEF msgs
<1>9. /\ counts' \in [Rank -> Seq(Nat)] /\ pub' \in [Rank -> Seq(Published)]
      /\ Following' /\ NotAhead'
  BY <1>1, <1>5, <1>6, <1>7, <1>8, BroadcastKeeps
<1>10. Table' = Table /\ size' = size
  BY <1>1, TypesStay DEF args
<1>11. RankTypes'
  BY <1>1, <1>3, <1>6, <1>9, <1>10 DEF RankTypes
<1> QED
  BY <1>9, <1>11 DEF RankInv

(* Rank r takes the messages of one broadcast, and does what rank 0 did     *)
(* with them.                                                               *)
LEMMA TakeKeeps ==
    ASSUME ClientsAssumption, GroupAssumption, RankInv, UNCHANGED args, NEW r \in Rank, r # 0,
           counts[r] # <<>>, Take(r, Head(counts[r])), \A q \in Rank \ {r} : At(q)' = At(q),
           \A w : Link(At(r), SubSeq(pub[r], 1, Head(counts[r])), w) => At(r)' = w
    PROVE  /\ counts' \in [Rank -> Seq(Nat)] /\ pub' \in [Rank -> Seq(Published)]
           /\ Following' /\ NotAhead'
<1> DEFINE n == Head(counts[r])
<1>1. RankTypes /\ 0 \in Rank
  BY DEF RankInv, Rank
<1>2. Others' = Others /\ Group' = Group /\ Others \subseteq Rank \ {0} /\ r \in Others
  BY TypesStay, GroupIs DEF RankInv, NotAhead, Others
<1>3. Leads(At(r), counts[r], pub[r], At(0)) /\ counts[r] \in Seq(Nat) /\ pub[r] \in Seq(Published)
  BY <1>1, <1>2 DEF RankInv, Following, RankTypes
<1>4. /\ n \in 0 .. Len(pub[r])
      /\ \E w \in RankState :
            /\ Link(At(r), SubSeq(pub[r], 1, n), w)
            /\ Leads(w, Tail(counts[r]), SubSeq(pub[r], n + 1, Len(pub[r])), At(0))
  BY <1>3, LeadsHead
<1>5. Leads(At(r)', Tail(counts[r]), SubSeq(pub[r], n + 1, Len(pub[r])), At(0))
  BY <1>4
<1>6. /\ counts' = [counts EXCEPT ![r] = Tail(@)]
      /\ pub' = [pub EXCEPT ![r] = SubSeq(@, n + 1, Len(@))]
  BY DEF Take
<1>7. Tail(counts[r]) \in Seq(Nat) /\ Len(Tail(counts[r])) = Len(counts[r]) - 1
  BY <1>3, HeadTailProperties
<1>8. SubSeq(pub[r], n + 1, Len(pub[r])) \in Seq(Published)
  <2>1. Len(pub[r]) \in Nat /\ n \in Nat
    BY <1>3, <1>4, LenProperties
  <2>2. \A i \in n + 1 .. Len(pub[r]) : pub[r][i] \in Published
    BY <1>3, <2>1, ElementOfSeq
  <2> QED BY <2>1, <2>2, SubSeqProperties
<1>9. counts \in [Rank -> Seq(Nat)] /\ pub \in [Rank -> Seq(Published)]
  BY <1>1 DEF RankTypes
<1> HIDE DEF n
<1>10. counts' \in [Rank -> Seq(Nat)] /\ pub' \in [Rank -> Seq(Published)]
  BY <1>6, <1>7, <1>8, <1>9
<1>11. Following'
  <2> SUFFICES ASSUME NEW q \in Others
               PROVE  Leads(At(q), counts[q], pub[q], At(0))'
    BY <1>2 DEF Following
  <2>1. At(0)' = At(0)
    BY <1>1
  <2>2. CASE q = r
    <3>1. counts'[r] = Tail(counts[r]) /\ pub'[r] = SubSeq(pub[r], n + 1, Len(pub[r]))
      BY <1>6, <1>9
    <3>2. Leads(At(r)', counts'[r], pub'[r], At(0)')
      BY <1>5, <2>1, <3>1
    <3> QED BY <2>2, <3>2, LeadsStays
  <2>3. CASE q # r
    <3>1. counts'[q] = counts[q] /\ pub'[q] = pub[q] /\ At(q)' = At(q)
      BY <1>2, <1>6, <1>9, <2>3
    <3>2. Leads(At(q), counts[q], pub[q], At(0))
      BY DEF RankInv, Following
    <3>3. Leads(At(q)', counts'[q], pub'[q], At(0)')
      BY <2>1, <3>1, <3>2
    <3> QED BY <3>3, LeadsStays
  <2> QED BY <2>2, <2>3
<1>12. NotAhead'
  <2>1. \A q \in Rank : Len(counts[q]) <= MaxCounts /\ Len(counts[q]) \in Nat
    BY <1>9, LenProperties DEF RankInv, NotAhead
  <2>2. MaxCounts \in Nat
    BY DEF GroupAssumption
  <2>3. \A q \in Rank : Len(counts'[q]) <= MaxCounts
    BY <1>6, <1>7, <1>9, <2>1, <2>2
  <2>4. \A q \in Rank \ Group : counts'[q] = <<>>
    BY <1>2, <1>6, <1>9 DEF RankInv, NotAhead, Others
  <2> QED BY <1>2, <2>3, <2>4 DEF NotAhead
<1> QED
  BY <1>10, <1>11, <1>12

(* What rank r finds was published for its state. *)
LEMMA TakenFits ==
    ASSUME ClientsAssumption, GroupAssumption, RankInv, NEW r \in Rank, r # 0, counts[r] # <<>>
    PROVE  \E w \in RankState : Link(At(r), SubSeq(pub[r], 1, Head(counts[r])), w)
<1>1. r \in Others
  BY DEF RankInv, NotAhead, Others
<1>2. Leads(At(r), counts[r], pub[r], At(0)) /\ counts[r] \in Seq(Nat) /\ pub[r] \in Seq(Published)
  BY <1>1 DEF RankInv, Following, RankTypes
<1> QED
  BY <1>2, LeadsHead

LEMMA ReceiveRank1Keeps ==
    ASSUME ClientsAssumption, GroupAssumption, RankInv, NEW r \in Rank, ReceiveRank1(r)
    PROVE  RankInv'
<1> DEFINE msgs == SubSeq(pub[r], 1, Head(counts[r]))
<1>1. /\ pc[r] = "recv" /\ r # 0 /\ counts[r] # <<>>
      /\ Take(r, Head(counts[r])) /\ Receive(r, msgs)
      /\ UNCHANGED args /\ UNCHANGED <<toTokenizer, toBackend, raw>>
  BY DEF ReceiveRank1
<1>2. RankTypes
  BY DEF RankInv
<1>3. At(r).pc = "recv"
  BY <1>1 DEF At
<1>4. msgs \in Seq(UserMessage)
  BY <1>1, <1>3, TakenFits DEF Link
<1>5. /\ At(r)' = Received(At(r), msgs)
      /\ \A q \in Rank \ {r} : At(q)' = At(q)
      /\ pc' \in [Rank -> {"recv", "step", "forward"}] /\ live' \in [Rank -> Table]
      /\ batch' \in [Rank -> SUBSET Client] /\ last' \in [Rank -> Results]
  <2> HIDE DEF msgs
  <2> QED BY <1>1, <1>2, <1>4, ReceiveIs
<1>6. \A w : Link(At(r), msgs, w) => At(r)' = w
  BY <1>3, <1>5 DEF Link
<1>7. /\ counts' \in [Rank -> Seq(Nat)] /\ pub' \in [Rank -> Seq(Published)]
      /\ Following' /\ NotAhead'
  BY <1>1, <1>5, <1>6, TakeKeeps
<1>8. Table' = Table /\ size' = size
  BY <1>1, TypesStay DEF args
<1>9. RankTypes'
  BY <1>1, <1>2, <1>5, <1>7, <1>8 DEF RankTypes
<1> QED
  BY <1>7, <1>9 DEF RankInv

LEMMA StepRank1Keeps ==
    ASSUME ClientsAssumption, GroupAssumption, RankInv, NEW r \in Rank, StepRank1(r)
    PROVE  RankInv'
<1> DEFINE msgs == SubSeq(pub[r], 1, Head(counts[r]))
<1>1. /\ pc[r] = "step" /\ r # 0 /\ counts[r] # <<>>
      /\ Take(r, Head(counts[r])) /\ pc' = [pc EXCEPT ![r] = "forward"]
      /\ UNCHANGED args /\ UNCHANGED <<toTokenizer, toBackend, raw, live, batch, last>>
  BY DEF StepRank1
<1>2. RankTypes
  BY DEF RankInv
<1>3. At(r).pc = "step"
  BY <1>1 DEF At
<1>4. /\ pc' \in [Rank -> {"recv", "step", "forward"}]
      /\ pc'[r] = "forward" /\ \A q \in Rank \ {r} : pc'[q] = pc[q]
  BY <1>1, <1>2 DEF RankTypes
<1>5. At(r)' = [At(r) EXCEPT !.pc = "forward"] /\ \A q \in Rank \ {r} : At(q)' = At(q)
  BY <1>1, <1>4 DEF At
<1>6. \A w : Link(At(r), msgs, w) => At(r)' = w
  BY <1>3, <1>5 DEF Link
<1>7. /\ counts' \in [Rank -> Seq(Nat)] /\ pub' \in [Rank -> Seq(Published)]
      /\ Following' /\ NotAhead'
  BY <1>1, <1>5, <1>6, TakeKeeps
<1>8. Table' = Table /\ size' = size
  BY <1>1, TypesStay DEF args
<1>9. RankTypes'
  BY <1>1, <1>2, <1>4, <1>7, <1>8 DEF RankTypes
<1> QED
  BY <1>7, <1>9 DEF RankInv

(* A rank that waits in the forward pass has taken everything. *)
LEMMA ForwardIsLevel ==
    ASSUME ClientsAssumption, GroupAssumption, RankInv, NEW r \in Others, pc[r] = "forward"
    PROVE  counts[r] = <<>> /\ pub[r] = <<>> /\ At(r) = At(0)
<1>1. r \in Rank \ {0}
  BY GroupIs
<1>2. counts[r] = <<>>
  <2>1. SUFFICES ASSUME counts[r] # <<>> PROVE FALSE
    OBVIOUS
  <2>2. PICK w : Link(At(r), SubSeq(pub[r], 1, Head(counts[r])), w)
    BY <1>1, <2>1, TakenFits
  <2>3. At(r).pc = "forward"
    BY DEF At
  <2> QED BY <2>2, <2>3 DEF Link
<1>3. Leads(At(r), <<>>, pub[r], At(0)) /\ pub[r] \in Seq(Published)
  BY <1>1, <1>2 DEF RankInv, RankTypes, Following
<1> QED
  BY <1>2, <1>3, LeadsEmpty

LEMMA ForwardKeeps ==
    ASSUME ClientsAssumption, GroupAssumption, RankInv, Forward
    PROVE  RankInv'
<1>1. PICK n \in [batch[0] -> 1 .. MaxStep] :
         last' = [r \in Rank |-> IF r \in Group THEN n ELSE last[r]]
  BY DEF Forward
<1>2. /\ \A r \in Group : pc[r] = "forward"
      /\ live' = [r \in Rank |-> IF r \in Group THEN Settled(live[r], last[r], batch[r]) ELSE live[r]]
      /\ batch' = [r \in Rank |-> IF r \in Group THEN {} ELSE batch[r]]
      /\ pc' = [r \in Rank |-> IF r \in Group THEN "recv" ELSE pc[r]]
      /\ UNCHANGED args /\ UNCHANGED <<toTokenizer, toBackend, counts, pub, raw>>
  BY DEF Forward
<1>3. RankTypes /\ 0 \in Rank /\ 0 \in Group /\ Group \subseteq Rank
  BY GroupIs DEF RankInv, Rank
<1>4. Table' = Table /\ size' = size /\ Group' = Group /\ Others' = Others
  BY <1>2, TypesStay DEF args
<1>5. n \in Results
  BY <1>1, <1>3 DEF RankTypes, Results
<1>6. \A r \in Rank : Settled(live[r], last[r], batch[r]) \in Table
  BY <1>3, SettledType DEF RankTypes
<1>7. RankTypes'
  <2>1. last' \in [Rank -> Results]
    BY <1>1, <1>3, <1>5 DEF RankTypes
  <2>2. live' \in [Rank -> Table]
    BY <1>2, <1>3, <1>6 DEF RankTypes
  <2>3. batch' \in [Rank -> SUBSET Client] /\ pc' \in [Rank -> {"recv", "step", "forward"}]
    BY <1>2, <1>3 DEF RankTypes
  <2> QED BY <1>2, <1>3, <1>4, <2>1, <2>2, <2>3 DEF RankTypes
<1>8. Following'
  <2> SUFFICES ASSUME NEW r \in Others
               PROVE  Leads(At(r), counts[r], pub[r], At(0))'
    BY <1>4 DEF Following
  <2>1. r \in Group /\ r \in Rank
    BY <1>3 DEF Others
  <2>2. counts[r] = <<>> /\ pub[r] = <<>> /\ At(r) = At(0)
    BY <1>2, <2>1, ForwardIsLevel
  <2>3. live[r] = live[0] /\ last[r] = last[0] /\ batch[r] = batch[0]
    BY <2>2 DEF At
  <2>4. At(r)' = At(0)'
    BY <1>1, <1>2, <1>3, <2>1, <2>3 DEF At
  <2>5. At(0)' \in RankState
    <3>1. At(0)' \in RankState'
      BY <1>3, <1>7 DEF RankTypes, At, RankState
    <3> QED BY <1>2, <3>1, TypesStay
  <2>6. Leads(At(r)', counts'[r], pub'[r], At(0)')
    BY <1>2, <2>2, <2>4, <2>5, LeadsNothing
  <2> QED BY <1>2, <2>6, LeadsStays
<1>9. NotAhead'
  BY <1>2, <1>4 DEF RankInv, NotAhead
<1> QED
  BY <1>7, <1>8, <1>9 DEF RankInv

(* Messages of users come from the clients only. *)
LEMMA SendOneKeeps ==
    ASSUME RankInv, NEW msg \in UserMessage, SendOne(msg),
           UNCHANGED <<args, toBackend, counts, pub, ranks>>
    PROVE  RankInv'
<1>1. PICK t \in Tokenizer : toTokenizer' = [toTokenizer EXCEPT ![t] = Append(@, msg)]
  BY DEF SendOne
<1>2. toTokenizer' \in [Tokenizer -> Seq(UserMessage)]
  BY <1>1 DEF RankInv, RankTypes
<1> QED
  BY <1>2, RanksRest DEF ranks, RankInv, RankTypes

LEMMA TokenizeKeeps ==
    ASSUME RankInv, NEW t \in Tokenizer, Tokenize(t)
    PROVE  RankInv'
<1>1. toTokenizer[t] \in Seq(UserMessage) /\ toTokenizer[t] # <<>> /\ toBackend[t] \in Seq(UserMessage)
  BY DEF Tokenize, RankInv, RankTypes
<1>2. Head(toTokenizer[t]) \in UserMessage /\ Tail(toTokenizer[t]) \in Seq(UserMessage)
  BY <1>1, HeadTailProperties
<1>3. /\ toBackend' \in [Tokenizer -> Seq(UserMessage)]
      /\ toTokenizer' \in [Tokenizer -> Seq(UserMessage)]
  BY <1>1, <1>2 DEF Tokenize, RankInv, RankTypes
<1> QED
  BY <1>3, RanksRest DEF Tokenize, ranks, RankInv, RankTypes

LEMMA DrainKeeps ==
    ASSUME RankInv, NEW t \in Tokenizer, Drain(t)
    PROVE  RankInv'
<1>1. toBackend[t] \in Seq(UserMessage) /\ toBackend[t] # <<>> /\ raw \in Seq(UserMessage)
  BY DEF Drain, RankInv, RankTypes
<1>2. Head(toBackend[t]) \in UserMessage /\ Tail(toBackend[t]) \in Seq(UserMessage)
  BY <1>1, HeadTailProperties
<1>3. raw' \in Seq(UserMessage) /\ toBackend' \in [Tokenizer -> Seq(UserMessage)]
  BY <1>1, <1>2 DEF Drain, RankInv, RankTypes
<1> QED
  BY <1>3, RanksRest DEF Drain, RankInv, RankTypes

LEMMA InitRanks ==
    ASSUME ClientsAssumption, GroupAssumption, Init
    PROVE  RankInv
<1>1. <<>> \in Table
  <2>1. DOMAIN <<>> = {} /\ <<>> \in [{} -> Nat]
    OBVIOUS
  <2> QED BY <2>1 DEF Table
<1>2. RankTypes
  BY <1>1, NoResults DEF Init, RankTypes
<1>3. NotAhead
  BY DEF Init, NotAhead, GroupAssumption, Rank
<1>4. Following
  <2> SUFFICES ASSUME NEW r \in Others
               PROVE  Leads(At(r), counts[r], pub[r], At(0))
    BY DEF Following
  <2>1. r \in Rank /\ 0 \in Rank
    BY DEF Init, Others, Group, Rank, GroupAssumption
  <2>2. At(r) = At(0) /\ counts[r] = <<>> /\ pub[r] = <<>>
    BY <2>1 DEF Init, At
  <2>3. At(0) \in RankState
    BY <1>2, <2>1, AtType
  <2> QED BY <2>2, <2>3, LeadsNothing
<1> QED
  BY <1>2, <1>3, <1>4 DEF RankInv

LEMMA NextKeepsRanks ==
    ASSUME ClientsAssumption, GroupAssumption, RankInv, [Next]_vars
    PROVE  RankInv'
<1>1. ASSUME UNCHANGED <<args, toTokenizer, toBackend, counts, pub, ranks>>
      PROVE  RankInv'
  BY <1>1, RanksRest DEF ranks, RankInv, RankTypes
<1>2. CASE UNCHANGED vars
  BY <1>1, <1>2 DEF vars, queues
<1>3. ASSUME NEW u \in Client, NewUser(u)
      PROVE  RankInv'
  <2>1. TokenizeMsg(u) \in UserMessage
    BY DEF TokenizeMsg, UserMessage
  <2> QED BY <1>3, <2>1, SendOneKeeps DEF NewUser
<1>4. ASSUME NEW u \in Client, Disconnect(u)
      PROVE  RankInv'
  BY <1>1, <1>4 DEF Disconnect, queues
<1>5. CASE Listen
  BY <1>1, <1>5 DEF Listen
<1>6. ASSUME NEW u \in Client, Wake(u) \/ Yield(u)
      PROVE  RankInv'
  BY <1>1, <1>6 DEF Wake, Yield, queues
<1>7. ASSUME NEW u \in Client, AbortUser(u)
      PROVE  RankInv'
  <2>1. AbortMsg(u) \in UserMessage
    BY DEF AbortMsg, UserMessage
  <2> QED BY <1>7, <2>1, SendOneKeeps DEF AbortUser
<1>8. CASE Detokenize
  BY <1>1, <1>8 DEF Detokenize
<1>9. ASSUME NEW p \in Process, Start(p)
      PROVE  RankInv'
  BY <1>1, <1>9 DEF Start, queues
<1>10. ASSUME NEW r \in Rank, RankStep(r)
       PROVE  RankInv'
  BY <1>10, ReceiveRank0Keeps, StepRank0Keeps, DrainKeeps, ReceiveRank1Keeps, StepRank1Keeps
     DEF RankStep
<1>11. CASE Clients
  BY <1>3, <1>4, <1>11 DEF Clients
<1>12. CASE Frontend
  BY <1>5, <1>6, <1>7, <1>12 DEF Frontend
<1>13. CASE Workers
  BY <1>8, <1>13, TokenizeKeeps DEF Workers
<1>14. CASE Forward
  BY <1>14, ForwardKeeps
<1>15. CASE Idle
  BY <1>2, <1>15 DEF Idle
<1> QED
  BY <1>2, <1>9, <1>10, <1>11, <1>12, <1>13, <1>14, <1>15 DEF Next

THEOREM RanksFollow == Spec => []RankInv
<1>1. Init => RankInv
  BY InitRanks, ClientsAssumption, GroupAssumption
<1>2. RankInv /\ [Next]_vars => RankInv'
  BY NextKeepsRanks, ClientsAssumption, GroupAssumption
<1> QED
  BY <1>1, <1>2, PTL DEF Spec

LEMMA LevelRanksAgree ==
    ASSUME GroupAssumption, RankInv
    PROVE  RanksAgree
<1> SUFFICES ASSUME NEW r \in Others, counts[r] = <<>>
             PROVE  /\ pub[r] = <<>>
                    /\ "forward" \in {pc[0], pc[r]} => pc[r] = pc[0] /\ batch[r] = batch[0]
  BY DEF RanksAgree
<1>1. Leads(At(r), <<>>, pub[r], At(0)) /\ pub[r] \in Seq(Published)
  BY GroupIs DEF RankInv, Following, RankTypes
<1>2. pub[r] = <<>> /\ At(r) = At(0)
  BY <1>1, LeadsEmpty
<1> QED
  BY <1>2 DEF At

(* Every rank takes part in the same collective: one that has taken all     *)
(* broadcasts has the batch of rank 0 and no message over                   *)
(* (io.py:107-140, 153-190).                                                *)
THEOREM RanksAlwaysAgree == Spec => []RanksAgree
<1>1. RankInv => RanksAgree
  BY LevelRanksAgree, GroupAssumption
<1> QED
  BY <1>1, RanksFollow, PTL

(* The assertions about a broadcast of drafts hold: one or two messages,    *)
(* and a draft for each request of the rank's own batch (io.py:173-190).    *)
DraftsFit ==
    \A r \in Others :
        pc[r] = "step" /\ counts[r] # <<>> =>
            /\ Head(counts[r]) \in {1, 2}
            /\ Head(pub[r]) = Draft(batch[r])

THEOREM DraftsAlwaysFit == Spec => []DraftsFit
<1>1. ASSUME RankInv PROVE DraftsFit
  <2> SUFFICES ASSUME NEW r \in Others, pc[r] = "step", counts[r] # <<>>
               PROVE  Head(counts[r]) \in {1, 2} /\ Head(pub[r]) = Draft(batch[r])
    BY DEF DraftsFit
  <2> DEFINE n == Head(counts[r])
             msgs == SubSeq(pub[r], 1, n)
  <2>1. r \in Rank /\ r # 0
    BY <1>1, GroupIs, GroupAssumption
  <2>2. pub[r] \in Seq(Published) /\ counts[r] \in Seq(Nat) /\ Leads(At(r), counts[r], pub[r], At(0))
    BY <1>1, <2>1 DEF RankInv, RankTypes, Following
  <2>3. n \in 0 .. Len(pub[r]) /\ Len(pub[r]) \in Nat
    BY <2>2, LeadsHead, LenProperties
  <2>4. PICK w : Link(At(r), msgs, w)
    BY <1>1, <2>1, TakenFits, ClientsAssumption, GroupAssumption
  <2>5. At(r).pc = "step" /\ At(r).batch = batch[r]
    BY DEF At
  <2>6. msgs \in {<<Draft(batch[r])>>, <<Draft(batch[r]), Probs>>}
    <3> HIDE DEF msgs
    <3> QED BY <2>4, <2>5 DEF Link
  <2>7. Len(msgs) = n /\ (n >= 1 => msgs[1] = pub[r][1])
    <3>1. \A i \in 1 .. n : pub[r][i] \in Published
      BY <2>2, <2>3, ElementOfSeq
    <3>2. Len(msgs) = IF 1 <= n THEN n - 1 + 1 ELSE 0
      BY <2>3, <3>1, SubSeqProperties
    <3>3. \A i \in 1 .. n - 1 + 1 : msgs[i] = pub[r][1 + i - 1]
      BY <2>3, <3>1, SubSeqProperties
    <3> HIDE DEF msgs, n
    <3> QED BY <2>3, <3>2, <3>3
  <2>8. Len(msgs) \in {1, 2} /\ msgs[1] = Draft(batch[r])
    <3> HIDE DEF msgs
    <3> QED BY <2>6
  <2> HIDE DEF msgs, n
  <2>9. n \in {1, 2} /\ pub[r][1] = Draft(batch[r])
    BY <2>7, <2>8
  <2>10. Head(pub[r]) = pub[r][1]
    BY <2>2
  <2> QED BY <2>9, <2>10 DEF n
<1> QED
  BY <1>1, RanksFollow, PTL
=============================================================================
