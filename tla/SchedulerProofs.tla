--------------------------- MODULE SchedulerProofs --------------------------
(***************************************************************************)
(* The life of a request in the overlap loop, for any requests, sizes and  *)
(* budgets.  Between its arrival and its end a request is in exactly one   *)
(* place: pending, in a prefill batch whose result was not read yet,       *)
(* running, or finished and about to be freed.  From that it follows who   *)
(* holds a row and a lock, when a request may still be told a token, and   *)
(* how many tokens it has when it is told that it finished.  The second    *)
(* half is about the pages: who has one, and what a row reads.             *)
(***************************************************************************)
EXTENDS Scheduler, Lemmas

(* The entries of batch b behind the first i. *)
Remaining(b, i) == IF b = NoReq THEN {} ELSE {b.reqs[j] : j \in i + 1 .. Len(b.reqs)}

Whole(u) == [uid |-> u, chunked |-> FALSE]

(* The requests behind the first i of b that its results will be given to:  *)
(* those that are prefilled to their end and not aborted, those that decode. *)
Prefilled(b, i, gone) ==
    {u \in Uid \ gone : b.phase = "prefill" /\ Whole(u) \in Remaining(b, i)}
Decoding(b, i) ==
    {u \in Uid : b.phase = "decode" /\ Whole(u) \in Remaining(b, i)}

OnceIn(b) ==
    b # NoReq => \A i, j \in 1 .. Len(b.reqs) : b.reqs[i].uid = b.reqs[j].uid => i = j
-----------------------------------------------------------------------------
(* What remains of a batch. *)

LEMMA EntryOf ==
    ASSUME NEW b \in Batch, NEW j \in 1 .. Len(b.reqs)
    PROVE  /\ b.reqs \in Seq([uid : Uid, chunked : BOOLEAN]) /\ Len(b.reqs) \in Nat
           /\ b.reqs[j].uid \in Uid /\ b.reqs[j].chunked \in BOOLEAN
           /\ ~b.reqs[j].chunked => b.reqs[j] = Whole(b.reqs[j].uid)
<1>1. b.reqs \in Seq([uid : Uid, chunked : BOOLEAN]) /\ Len(b.reqs) \in Nat
  BY DEF Batch
<1>2. b.reqs[j] \in [uid : Uid, chunked : BOOLEAN]
  BY <1>1, ElementOfSeq
<1> QED BY <1>1, <1>2 DEF Whole

LEMMA NoneRemain ==
    ASSUME NEW gone, NEW i
    PROVE  Prefilled(NoReq, i, gone) = {} /\ Decoding(NoReq, i) = {}
BY DEF Prefilled, Decoding, Remaining

LEMMA NoneRemainAtEnd ==
    ASSUME NoReqAssumption, NEW b \in Batch, NEW gone
    PROVE  /\ Prefilled(b, Len(b.reqs), gone) = {}
           /\ Decoding(b, Len(b.reqs)) = {}
<1>1. b # NoReq /\ Len(b.reqs) \in Nat
  BY DEF Batch, NoReqAssumption
<1>2. \A n \in Nat : n + 1 .. n = {}
  OBVIOUS
<1>3. Remaining(b, Len(b.reqs)) = {}
  BY <1>1, <1>2 DEF Remaining
<1> QED BY <1>3 DEF Prefilled, Decoding

(* Entry e of b is read, behind the first i. *)
NextIs(b, i, gone, e) ==
    /\ e.uid \in Uid
    /\ Prefilled(b, i, gone) = Prefilled(b, i + 1, gone) \cup
         (IF b.phase = "prefill" /\ ~e.chunked THEN {e.uid} \ gone ELSE {})
    /\ Decoding(b, i) = Decoding(b, i + 1) \cup
         (IF b.phase = "decode" /\ ~e.chunked THEN {e.uid} ELSE {})
    /\ OnceIn(b) => e.uid \notin Prefilled(b, i + 1, gone) \cup Decoding(b, i + 1)

LEMMA NextRemains ==
    ASSUME NoReqAssumption, NEW b \in Batch, NEW i \in Nat, i < Len(b.reqs), NEW gone
    PROVE  NextIs(b, i, gone, b.reqs[i + 1])
<1> DEFINE n == Len(b.reqs)
           e == b.reqs[i + 1]
<1>1. b # NoReq /\ n \in Nat
  BY DEF Batch, NoReqAssumption
<1>2. i + 1 \in 1 .. n /\ i + 1 .. n = {i + 1} \cup (i + 1 + 1 .. n)
  BY <1>1
<1>3. Remaining(b, i) = {e} \cup Remaining(b, i + 1)
  BY <1>1, <1>2 DEF Remaining
<1>4. e.uid \in Uid /\ (~e.chunked => e = Whole(e.uid))
  BY <1>2, EntryOf
<1>5. ASSUME NEW u, Whole(u) = e
      PROVE  e.uid = u /\ ~e.chunked
  BY <1>5 DEF Whole
<1>6. ASSUME OnceIn(b), NEW u, Whole(u) \in Remaining(b, i + 1)
      PROVE  u # e.uid
  <2>1. PICK j \in i + 1 + 1 .. n : b.reqs[j] = Whole(u)
    BY <1>1, <1>6 DEF Remaining
  <2>2. j \in 1 .. n /\ j # i + 1
    BY <1>1, <2>1
  <2>3. b.reqs[j].uid = u
    BY <2>1 DEF Whole
  <2> HIDE DEF n
  <2> QED BY <1>1, <1>2, <1>6, <2>2, <2>3 DEF OnceIn, n
<1> HIDE DEF e
<1>7. Prefilled(b, i, gone) = Prefilled(b, i + 1, gone) \cup
         (IF b.phase = "prefill" /\ ~e.chunked THEN {e.uid} \ gone ELSE {})
  BY <1>3, <1>4, <1>5 DEF Prefilled
<1>8. Decoding(b, i) = Decoding(b, i + 1) \cup
         (IF b.phase = "decode" /\ ~e.chunked THEN {e.uid} ELSE {})
  BY <1>3, <1>4, <1>5 DEF Decoding
<1>9. OnceIn(b) => e.uid \notin Prefilled(b, i + 1, gone) \cup Decoding(b, i + 1)
  BY <1>6 DEF Prefilled, Decoding
<1> QED BY <1>4, <1>7, <1>8, <1>9 DEF e, NextIs

(* A batch is formed of the requests us, of which those in part are chunks. *)
Formed(kind, us, part) ==
    [phase |-> kind,
     reqs  |-> [i \in 1 .. Len(us) |-> [uid |-> us[i], chunked |-> us[i] \in part]]]

IsBatchOf(b, kind, us, part, gone) ==
    /\ b \in Batch /\ b # NoReq /\ OnceIn(b)
    /\ Prefilled(b, 0, gone) = IF kind = "prefill" THEN ToSet(us) \ (part \cup gone) ELSE {}
    /\ Decoding(b, 0) = IF kind = "decode" THEN ToSet(us) \ part ELSE {}

LEMMA FormedIs ==
    ASSUME NoReqAssumption, NEW kind \in {"prefill", "decode"}, NEW us \in Seq(Uid),
           IsInjective(us), NEW part, NEW gone
    PROVE  IsBatchOf(Formed(kind, us, part), kind, us, part, gone)
<1> DEFINE n == Len(us)
           b == Formed(kind, us, part)
           entry(i) == [uid |-> us[i], chunked |-> us[i] \in part]
<1>1. n \in Nat /\ DOMAIN us = 1 .. n /\ \A i \in 1 .. n : us[i] \in Uid
  OBVIOUS
<1>2. b = [phase |-> kind, reqs |-> [i \in 1 .. n |-> entry(i)]]
  BY DEF Formed
<1>3. \A i \in 1 .. n : entry(i) \in [uid : Uid, chunked : BOOLEAN]
  BY <1>1
<1>4. b.reqs \in Seq([uid : Uid, chunked : BOOLEAN])
  <2> HIDE DEF entry, n, b
  <2>1. b.reqs \in [1 .. n -> [uid : Uid, chunked : BOOLEAN]]
    BY <1>2, <1>3
  <2> DEFINE S == [uid : Uid, chunked : BOOLEAN]
             q == b.reqs
  <2> HIDE DEF S, q
  <2>2. q \in [1 .. n -> S]
    BY <2>1 DEF S, q
  <2>3. q \in Seq(S)
    BY <1>1, <2>2
  <2> QED BY <2>3 DEF S, q
<1>5. b \in Batch
  <2> HIDE DEF b
  <2>1. b = [phase |-> b.phase, reqs |-> b.reqs] /\ b.phase = kind
    BY <1>2
  <2> QED BY <1>4, <2>1 DEF Batch
<1>6. b # NoReq
  BY <1>5 DEF NoReqAssumption
<1>7. Len(b.reqs) = n /\ \A i \in 1 .. n : b.reqs[i] = entry(i)
  <2> HIDE DEF entry
  <2> QED BY <1>1, <1>2
<1> HIDE DEF b
<1>8. OnceIn(b)
  <2> SUFFICES ASSUME NEW i \in 1 .. n, NEW j \in 1 .. n, b.reqs[i].uid = b.reqs[j].uid
               PROVE  i = j
    BY <1>7 DEF OnceIn
  <2>1. us[i] = us[j]
    <3>1. entry(i).uid = us[i] /\ entry(j).uid = us[j]
      OBVIOUS
    <3> HIDE DEF entry, n
    <3> QED BY <1>7, <3>1
  <2> HIDE DEF n
  <2> QED BY <1>1, <2>1 DEF IsInjective
<1>9. ASSUME NEW u
      PROVE  Whole(u) \in Remaining(b, 0) <=> u \in ToSet(us) /\ u \notin part
  <2>1. 0 + 1 .. Len(b.reqs) = 1 .. n
    BY <1>7
  <2>2. Remaining(b, 0) = {entry(i) : i \in 1 .. n}
    <3> HIDE DEF entry
    <3> QED BY <1>6, <1>7, <2>1 DEF Remaining
  <2>3. \A i \in 1 .. n : Whole(u) = entry(i) <=> u = us[i] /\ us[i] \notin part
    <3> SUFFICES ASSUME NEW i \in 1 .. n
                 PROVE  Whole(u) = entry(i) <=> u = us[i] /\ us[i] \notin part
      OBVIOUS
    <3>1. ASSUME Whole(u) = entry(i) PROVE u = us[i] /\ us[i] \notin part
      <4>1. Whole(u).uid = entry(i).uid /\ Whole(u).chunked = entry(i).chunked
        BY <3>1
      <4> QED BY <4>1 DEF Whole
    <3>2. ASSUME u = us[i], us[i] \notin part PROVE Whole(u) = entry(i)
      <4>1. (us[i] \in part) = FALSE
        BY <3>2
      <4> QED BY <3>2, <4>1 DEF Whole
    <3> QED BY <3>1, <3>2
  <2> QED BY <1>1, <2>2, <2>3 DEF ToSet
<1>10. ToSet(us) \subseteq Uid
  BY <1>1 DEF ToSet
<1>11. b.phase = kind
  BY <1>2
<1>12. Prefilled(b, 0, gone) = IF kind = "prefill" THEN ToSet(us) \ (part \cup gone) ELSE {}
  BY <1>9, <1>10, <1>11 DEF Prefilled
<1>13. Decoding(b, 0) = IF kind = "decode" THEN ToSet(us) \ part ELSE {}
  BY <1>9, <1>10, <1>11 DEF Decoding
<1> QED BY <1>5, <1>6, <1>8, <1>12, <1>13 DEF b, IsBatchOf
-----------------------------------------------------------------------------
(* Where a request is.                                                      *)

Waiting  == ToSet(pend)                     \* pending
Active   == ToSet(running)                  \* running
Arriving == Prefilled(last, idx, aborted)   \* prefilled, its first token not read
Launched == Prefilled(batch, 0, aborted)    \* its prefill was launched just now
Stepping == Decoding(last, idx)             \* a token of the last batch not read
Stepped  == Decoding(batch, 0)              \* a step was launched just now

IsRequest(r) ==
    /\ r = [row |-> r.row, cached |-> r.cached, device |-> r.device, handle |-> r.handle]
    /\ r.row \in Row /\ r.cached \in Int /\ r.device \in Int

Types ==
    /\ pend \in Seq(Uid) /\ running \in Seq(Uid) /\ freeRows \in Seq(Row)
    /\ last = NoReq \/ last \in Batch
    /\ batch = NoReq \/ batch \in Batch
    /\ idx \in Nat /\ (last # NoReq => idx <= Len(last.reqs))
    /\ inflight = <<inflight[1], inflight[2]>>
    /\ req = [u \in Uid |-> req[u]] /\ live \subseteq Uid
    /\ \A u \in live : IsRequest(req[u])
    /\ gen \in [Uid -> Seq(Token)] /\ sent \subseteq Uid
    /\ adder.n \in Nat /\ adder.budget \in Int

(* No list and no batch has a request twice. *)
Once == IsInjective(pend) /\ IsInjective(running) /\ OnceIn(last) /\ OnceIn(batch)

(* The places exclude each other, and the live requests are those that are *)
(* somewhere, a pending request only if a chunk of it was prefilled.        *)
Places ==
    /\ Waiting \cap (Active \cup newFin \cup Arriving \cup Launched) = {}
    /\ Active \cap (newFin \cup Arriving \cup Launched) = {}
    /\ newFin \cap (Arriving \cup Launched) = {}
    /\ Arriving \cap Launched = {}
    /\ Active \cup newFin \cup Arriving \cup Launched \subseteq live
    /\ live \subseteq Waiting \cup Active \cup newFin \cup Arriving \cup Launched

(* What the sets of uids that the managers keep may hold. *)
Known ==
    /\ Waiting \cup live \subseteq sent \ aborted
    /\ aborted \subseteq sent
    /\ inflight[2] \cup Stepping \cup Stepped \subseteq sent
    /\ (inflight[2] \cup Stepping \cup Stepped) \cap (Waiting \cup Arriving \cup Launched) = {}
    /\ ended \cap (Waiting \cup Active \cup Arriving \cup Launched) = {}
    /\ finished \subseteq ended /\ newFin \subseteq ended /\ ended \subseteq sent
    /\ Stepped # {} => inflight[2] = Stepped

(* What the phase of the loop says about them. *)
Phases ==
    /\ pc \in {"idle", "recv", "admit"} => batch = NoReq /\ idx = 0
    /\ pc \in {"idle", "recv", "admit"} \/ last = NoReq => newFin = {}
    /\ inflPre \ Waiting = IF pc \in {"idle", "recv"} THEN Arriving ELSE Launched
    /\ pc = "admit" => /\ adder.n <= Len(pend)
                       /\ inflPre = {pend[i] : i \in 1 .. adder.n}
                       /\ inflPre \subseteq live
    /\ pc = "free" => last # NoReq /\ idx = Len(last.reqs)

(* The tokens of a running request that were launched and not read yet. *)
StepsDue(u) == (IF u \in Stepping THEN 1 ELSE 0) + (IF u \in Stepped THEN 1 ELSE 0)

Counts ==
    /\ \A u \in Waiting \cup live : InputLen(u) < MaxSeqLen
    /\ \A u \in (Uid \ sent) \cup Waiting \cup Arriving \cup Launched : gen[u] = <<>>
    /\ \A u \in live : req[u].device <= MaxDeviceLen(u)
    /\ \A u \in live \cap Waiting : req[u].device <= InputLen(u)
    /\ \A u \in Arriving \cup Launched : req[u].device = InputLen(u)
    /\ \A u \in Active : req[u].device = InputLen(u) + Len(gen[u]) + StepsDue(u)

(* The free rows and the rows of the live requests are all rows, each once. *)
Rows ==
    /\ IsInjective(freeRows)
    /\ \A u \in live : req[u].row \notin ToSet(freeRows)
    /\ \A u, v \in live : req[u].row = req[v].row => u = v
    /\ \A r \in Row : r \in ToSet(freeRows) \/ \E u \in live : req[u].row = r

LifeInv ==
    /\ Types /\ Once /\ Places /\ Known /\ Phases /\ Counts /\ Rows
    /\ FinishedMeansComplete
-----------------------------------------------------------------------------
LEMMA Lengths ==
    ASSUME SizesAssumption, RequestsAssumption, NEW u \in Uid, InputLen(u) < MaxSeqLen
    PROVE  /\ InputLen(u) \in Nat \ {0}
           /\ OutputLen(u) \in Nat \ {0}
           /\ MaxDeviceLen(u) \in Nat /\ MaxDeviceLen(u) = InputLen(u) + OutputLen(u)
<1>1. InputLen(u) \in Nat \ {0}
  <2>1. Prompt[u] \in Seq(ToSet(Prompt[u])) /\ Prompt[u] # <<>>
    BY DEF RequestsAssumption
  <2> QED BY <2>1, EmptySeq, LenProperties DEF InputLen
<1>2. MaxTokens[u] \in Nat \ {0} /\ MaxSeqLen \in Nat
  BY DEF RequestsAssumption, SizesAssumption
<1> QED BY <1>1, <1>2 DEF OutputLen, MaxDeviceLen, Lesser

(* A request whose counters are updated is a request with the same row. *)
LEMMA Updated ==
    ASSUME NEW r, IsRequest(r), NEW c \in Int, NEW d \in Int
    PROVE  LET q == [r EXCEPT !.device = d, !.cached = c] IN
           /\ IsRequest(q) /\ q.row = r.row /\ q.device = d /\ q.handle = r.handle
<1> DEFINE q == [r EXCEPT !.device = d, !.cached = c]
<1>1. r = [row |-> r.row, cached |-> r.cached, device |-> r.device, handle |-> r.handle]
  BY DEF IsRequest
<1>2. DOMAIN r = {"row", "cached", "device", "handle"}
  BY <1>1
<1>3. /\ q.row = r.row /\ q.device = d /\ q.cached = c /\ q.handle = r.handle
      /\ DOMAIN q = {"row", "cached", "device", "handle"}
      /\ q = [x \in DOMAIN q |-> q[x]]
  BY <1>2
<1> HIDE DEF q
<1>4. q = [row |-> q.row, cached |-> q.cached, device |-> q.device, handle |-> q.handle]
  BY <1>3
<1>5. r.row \in Row
  BY DEF IsRequest
<1> QED BY <1>3, <1>4, <1>5 DEF IsRequest, q

LEMMA Advanced ==
    ASSUME NEW r, IsRequest(r), NEW c \in Int
    PROVE  LET q == [r EXCEPT !.cached = c] IN
           /\ IsRequest(q) /\ q.row = r.row /\ q.device = r.device /\ q.handle = r.handle
<1> DEFINE q == [r EXCEPT !.cached = c]
<1>1. r = [row |-> r.row, cached |-> r.cached, device |-> r.device, handle |-> r.handle]
  BY DEF IsRequest
<1>2. DOMAIN r = {"row", "cached", "device", "handle"}
  BY <1>1
<1>3. /\ q.row = r.row /\ q.device = r.device /\ q.cached = c /\ q.handle = r.handle
      /\ DOMAIN q = {"row", "cached", "device", "handle"}
      /\ q = [x \in DOMAIN q |-> q[x]]
  BY <1>2
<1> HIDE DEF q
<1>4. q = [row |-> q.row, cached |-> q.cached, device |-> q.device, handle |-> q.handle]
  BY <1>3
<1>5. r.row \in Row /\ r.device \in Int
  BY DEF IsRequest
<1> QED BY <1>3, <1>4, <1>5 DEF IsRequest, q

LEMMA Rehandled ==
    ASSUME NEW r, IsRequest(r), NEW k
    PROVE  LET q == [r EXCEPT !.handle = k] IN
           /\ IsRequest(q) /\ q.row = r.row /\ q.device = r.device
<1> DEFINE q == [r EXCEPT !.handle = k]
<1>1. r = [row |-> r.row, cached |-> r.cached, device |-> r.device, handle |-> r.handle]
  BY DEF IsRequest
<1>2. DOMAIN r = {"row", "cached", "device", "handle"}
  BY <1>1
<1>3. /\ q.row = r.row /\ q.device = r.device /\ q.cached = r.cached /\ q.handle = k
      /\ DOMAIN q = {"row", "cached", "device", "handle"}
      /\ q = [x \in DOMAIN q |-> q[x]]
  BY <1>2
<1> HIDE DEF q
<1>4. q = [row |-> q.row, cached |-> q.cached, device |-> q.device, handle |-> q.handle]
  BY <1>3
<1>5. r.row \in Row /\ r.device \in Int /\ r.cached \in Int
  BY DEF IsRequest
<1> QED BY <1>3, <1>4, <1>5 DEF IsRequest, q

LEMMA InitLife ==
    ASSUME SizesAssumption, RequestsAssumption, NoReqAssumption, Init
    PROVE  LifeInv
<1>1. /\ pend = <<>> /\ running = <<>> /\ last = NoReq /\ batch = NoReq /\ newFin = {}
      /\ live = {} /\ ended = {} /\ aborted = {} /\ sent = {} /\ inflPre = {} /\ finished = {}
      /\ inflight = <<{}, {}>> /\ pc = "idle" /\ idx = 0
  BY DEF Init
<1>2. Waiting = {} /\ Active = {}
  BY <1>1 DEF Waiting, Active, ToSet
<1>3. Arriving = {} /\ Launched = {} /\ Stepping = {} /\ Stepped = {}
  BY <1>1, NoneRemain DEF Arriving, Launched, Stepping, Stepped
<1>4. NumRows \in Nat
  BY DEF SizesAssumption
<1>5. freeRows = [i \in 1 .. NumRows |-> i - 1]
  BY DEF Init
<1>6. /\ freeRows \in Seq(Row) /\ IsInjective(freeRows)
      /\ \A r \in Row : r \in ToSet(freeRows)
  <2>1. DOMAIN freeRows = 1 .. NumRows /\ \A i \in 1 .. NumRows : freeRows[i] = i - 1
    BY <1>5
  <2>2. freeRows \in [1 .. NumRows -> Row]
    BY <1>4, <1>5 DEF Row
  <2>3. freeRows \in Seq(Row)
    BY <1>4, <2>2
  <2>4. IsInjective(freeRows)
    BY <1>4, <2>1 DEF IsInjective
  <2>5. \A r \in Row : r + 1 \in 1 .. NumRows /\ r + 1 - 1 = r
    BY <1>4 DEF Row
  <2>6. ASSUME NEW r \in Row PROVE freeRows[r + 1] = r
    <3>1. r \in Int /\ r + 1 \in 1 .. NumRows
      BY <1>4 DEF Row
    <3>2. \A i \in 1 .. NumRows : freeRows[i] = i - 1
      BY <2>1
    <3> QED BY <3>1, <3>2
  <2> QED BY <2>1, <2>3, <2>4, <2>5, <2>6 DEF ToSet
<1>7. Types
  <2>1. <<>> \in Seq(Uid) /\ <<>> \in Seq(Token)
    OBVIOUS
  <2>2. /\ req = [u \in Uid |-> NoReq] /\ gen = [u \in Uid |-> <<>>]
        /\ adder = [budget |-> 0, reserved |-> 0, n |-> 0]
    BY DEF Init
  <2>3. adder.n = 0 /\ adder.budget = 0 /\ inflight = <<inflight[1], inflight[2]>>
    BY <1>1, <2>2
  <2>4. req = [u \in Uid |-> req[u]] /\ gen \in [Uid -> Seq(Token)]
    BY <2>1, <2>2
  <2> QED BY <1>1, <1>6, <2>1, <2>3, <2>4 DEF Types
<1>8. Once
  BY <1>1 DEF Once, OnceIn, IsInjective
<1>9. Places /\ Known /\ Phases
  BY <1>1, <1>2, <1>3 DEF Places, Known, Phases
<1>10. Counts /\ Rows /\ FinishedMeansComplete
  <2>1. \A u \in Uid : gen[u] = <<>>
    BY DEF Init
  <2> QED BY <1>1, <1>2, <1>3, <1>6, <2>1 DEF Counts, Rows, FinishedMeansComplete
<1> QED BY <1>7, <1>8, <1>9, <1>10 DEF LifeInv
-----------------------------------------------------------------------------
(* Receiving messages. *)

LEMMA SetTypes ==
    ASSUME LifeInv
    PROVE  /\ Waiting \subseteq Uid /\ Active \subseteq Uid /\ newFin \subseteq Uid
           /\ Arriving \subseteq Uid /\ Launched \subseteq Uid
           /\ Stepping \subseteq Uid /\ Stepped \subseteq Uid
<1>1. Waiting \subseteq Uid /\ Active \subseteq Uid
  <2>1. pend \in Seq(Uid) /\ running \in Seq(Uid)
    BY DEF LifeInv, Types
  <2>2. \A s \in Seq(Uid) : ToSet(s) \subseteq Uid
    BY DEF ToSet
  <2> QED BY <2>1, <2>2 DEF Waiting, Active
<1>2. newFin \subseteq live /\ live \subseteq Uid
  BY DEF LifeInv, Types, Places
<1> QED BY <1>1, <1>2 DEF Arriving, Launched, Stepping, Stepped, Prefilled, Decoding

(* The parts of a step that leave the batches alone. *)
LEMMA SameBatches ==
    ASSUME UNCHANGED <<last, batch, idx>>
    PROVE  /\ Stepping' = Stepping /\ Stepped' = Stepped
           /\ (OnceIn(last) <=> OnceIn(last)') /\ (OnceIn(batch) <=> OnceIn(batch)')
           /\ UNCHANGED aborted => Arriving' = Arriving /\ Launched' = Launched
           /\ \A u : aborted' = aborted \cup {u} =>
                 Arriving' = Arriving \ {u} /\ Launched' = Launched \ {u}
<1>1. Stepping' = Stepping /\ Stepped' = Stepped
  BY DEF Stepping, Stepped
<1>2. (OnceIn(last) <=> OnceIn(last)') /\ (OnceIn(batch) <=> OnceIn(batch)')
  BY DEF OnceIn
<1>3. UNCHANGED aborted => Arriving' = Arriving /\ Launched' = Launched
  BY DEF Arriving, Launched
<1>4. ASSUME NEW u, aborted' = aborted \cup {u}
      PROVE  Arriving' = Arriving \ {u} /\ Launched' = Launched \ {u}
  <2>1. /\ Arriving' = Prefilled(last, idx, aborted \cup {u})
        /\ Launched' = Prefilled(batch, 0, aborted \cup {u})
    BY <1>4 DEF Arriving, Launched
  <2>2. /\ Prefilled(last, idx, aborted \cup {u}) = Prefilled(last, idx, aborted) \ {u}
        /\ Prefilled(batch, 0, aborted \cup {u}) = Prefilled(batch, 0, aborted) \ {u}
    BY DEF Prefilled
  <2> QED BY <2>1, <2>2 DEF Arriving, Launched
<1> QED BY <1>1, <1>2, <1>3, <1>4

LEMMA RecvUserLife ==
    ASSUME SizesAssumption, RequestsAssumption, LifeInv, NEW u \in Uid, RecvUser(u)
    PROVE  LifeInv'
<1>1. /\ pc \in {"idle", "recv"} /\ pc' = "recv"
      /\ u \notin sent /\ sent' = sent \cup {u}
      /\ UNCHANGED <<ended, inflPre, adder, running, inflight, finished, req, live, gen,
                     aborted, last, batch, idx, newFin, freeRows>>
  BY DEF RecvUser, Receive, decode, request, memory
<1>2. \/ InputLen(u) >= MaxSeqLen /\ pend' = pend
      \/ ~(InputLen(u) >= MaxSeqLen) /\ pend' = Append(pend, u)
  BY DEF RecvUser
<1>3. /\ Arriving' = Arriving /\ Launched' = Launched /\ Stepping' = Stepping
      /\ Stepped' = Stepped /\ Active' = Active
      /\ (OnceIn(last) <=> OnceIn(last)') /\ (OnceIn(batch) <=> OnceIn(batch)')
  BY <1>1, SameBatches DEF Active
<1>4. u \notin Waiting /\ u \notin live /\ u \notin aborted /\ u \notin ended
  BY <1>1 DEF LifeInv, Known
<1>5. PICK new \in SUBSET {u} : /\ Waiting' = Waiting \cup new /\ pend' \in Seq(Uid)
                               /\ IsInjective(pend') /\ \A v \in new : InputLen(v) < MaxSeqLen
  <2>1. pend \in Seq(Uid) /\ IsInjective(pend)
    BY DEF LifeInv, Types, Once
  <2>2. CASE InputLen(u) >= MaxSeqLen /\ pend' = pend
    <3>1. {} \in SUBSET {u} /\ Waiting' = Waiting \cup {}
      BY <2>2 DEF Waiting
    <3> QED BY <2>1, <2>2, <3>1
  <2>3. CASE ~(InputLen(u) >= MaxSeqLen) /\ pend' = Append(pend, u)
    <3>1. /\ Append(pend, u) \in Seq(Uid)
          /\ ToSet(Append(pend, u)) = ToSet(pend) \cup {u}
          /\ IsInjective(Append(pend, u))
      BY <1>4, <2>1, AppendIs DEF Waiting
    <3>2. InputLen(u) < MaxSeqLen
      <4>1. Prompt[u] \in Seq(ToSet(Prompt[u]))
        BY DEF RequestsAssumption
      <4>2. InputLen(u) \in Nat /\ MaxSeqLen \in Nat
        BY <4>1, LenProperties DEF InputLen, SizesAssumption
      <4> QED BY <2>3, <4>2
    <3> QED BY <2>3, <3>1, <3>2 DEF Waiting
  <2> QED BY <1>2, <2>2, <2>3
<1>6. Types' /\ Once'
  BY <1>1, <1>3, <1>5 DEF LifeInv, Types, Once, IsRequest
<1>7. Places' /\ Known'
  BY <1>1, <1>3, <1>4, <1>5 DEF LifeInv, Places, Known
<1>8. Phases'
  BY <1>1, <1>3, <1>4, <1>5 DEF LifeInv, Places, Known, Phases
<1>9. Counts'
  BY <1>1, <1>3, <1>4, <1>5 DEF LifeInv, Counts, InputLen, OutputLen, MaxDeviceLen, StepsDue
<1>10. Rows' /\ FinishedMeansComplete'
  BY <1>1 DEF LifeInv, Rows, FinishedMeansComplete
<1> QED BY <1>6, <1>7, <1>8, <1>9, <1>10 DEF LifeInv

(* Freeing a request gives its row back and nothing else. *)
LEMMA FreedRows ==
    ASSUME LifeInv, NEW u \in live, NEW isInflight, FreeReqResources(u, isInflight)
    PROVE  /\ live' = live \ {u} /\ req' = req
           /\ freeRows' \in Seq(Row) /\ Rows'
<1> DEFINE row == req[u].row
<1>1. live' = live \ {u} /\ req' = req /\ freeRows' = Append(freeRows, row)
  BY DEF FreeReqResources
<1>2. /\ freeRows \in Seq(Row) /\ row \in Row /\ IsInjective(freeRows)
      /\ row \notin ToSet(freeRows)
  BY DEF LifeInv, Types, IsRequest, Rows
<1>3. /\ freeRows' \in Seq(Row) /\ ToSet(freeRows') = ToSet(freeRows) \cup {row}
      /\ IsInjective(freeRows')
  BY <1>1, <1>2, AppendIs
<1>4. Rows'
  BY <1>1, <1>3 DEF LifeInv, Rows
<1> QED BY <1>1, <1>3, <1>4

(* A list without one request. *)
LEMMA WithoutOne ==
    ASSUME NEW s \in Seq(Uid), NEW u
    PROVE  /\ Kept(s, Uid \ {u}) \in Seq(Uid)
           /\ ToSet(Kept(s, Uid \ {u})) = ToSet(s) \ {u}
           /\ IsInjective(s) => IsInjective(Kept(s, Uid \ {u}))
<1>1. IsKept(Kept(s, Uid \ {u}), Uid, s, Uid \ {u})
  BY KeptIs
<1>2. ToSet(s) \subseteq Uid
  BY DEF ToSet
<1> QED BY <1>1, <1>2 DEF IsKept

(* Whatever it was doing, an aborted request is in no place afterwards. *)
LEMMA AbortDoes ==
    ASSUME LifeInv, NEW u \in Uid, RecvAbort(u)
    PROVE  /\ pc \in {"idle", "recv"} /\ pc' = "recv"
           /\ aborted' = aborted \cup {u} /\ u \in sent
           /\ UNCHANGED <<sent, ended, adder, finished, gen, last, batch, idx, newFin, req>>
           /\ pend' \in Seq(Uid) /\ IsInjective(pend') /\ Waiting' = Waiting \ {u}
           /\ running' \in Seq(Uid) /\ IsInjective(running') /\ Active' = Active \ {u}
           /\ inflPre' = inflPre \ {u}
           /\ inflight' = <<inflight'[1], inflight'[2]>> /\ inflight'[2] \subseteq inflight[2]
           /\ live' = live \ {u} /\ freeRows' \in Seq(Row) /\ Rows'
<1>1. /\ pc \in {"idle", "recv"} /\ pc' = "recv"
      /\ aborted' = aborted \cup {u} /\ u \in sent
      /\ UNCHANGED <<sent, ended, adder, finished, gen, last, batch, idx, newFin>>
  BY DEF RecvAbort, Receive, client
<1>2. /\ pend \in Seq(Uid) /\ IsInjective(pend) /\ running \in Seq(Uid) /\ IsInjective(running)
      /\ inflight = <<inflight[1], inflight[2]>> /\ freeRows \in Seq(Row) /\ Rows
  BY DEF LifeInv, Types, Once
<1>3. [inflight EXCEPT ![2] = @ \ {u}] = <<inflight[1], inflight[2] \ {u}>>
  BY <1>2
<1> DEFINE Lists == /\ pend' \in Seq(Uid) /\ IsInjective(pend') /\ Waiting' = Waiting \ {u}
                    /\ running' \in Seq(Uid) /\ IsInjective(running') /\ Active' = Active \ {u}
           Pairs == /\ inflPre' = inflPre \ {u}
                    /\ inflight' = <<inflight'[1], inflight'[2]>>
                    /\ inflight'[2] \subseteq inflight[2]
           Freed == req' = req /\ live' = live \ {u} /\ freeRows' \in Seq(Row) /\ Rows'
<1>4. newFin = {} /\ batch = NoReq /\ inflPre \ Waiting = Arriving
  BY <1>1 DEF LifeInv, Phases
<1>5. Launched = {}
  BY <1>4, NoneRemain DEF Launched
<1>6. CASE AbortPending(u)
  <2>1. /\ u \in Waiting /\ pend' = Kept(pend, Uid \ {u}) /\ running' = running
        /\ inflPre' = inflPre \ {u}
    BY <1>6 DEF AbortPending, Waiting
  <2>2. u \notin Active
    BY <2>1 DEF LifeInv, Places
  <2>3. Lists
    BY <1>2, <2>1, <2>2, WithoutOne DEF Waiting, Active
  <2>4. CASE u \in live
    <3>1. FreeReqResources(u, u \in inflPre) /\ inflight' = inflight
      BY <1>6, <2>4 DEF AbortPending
    <3>2. Freed
      BY <2>4, <3>1, FreedRows
    <3> QED BY <1>1, <1>2, <2>1, <2>3, <3>1, <3>2
  <2>5. CASE u \notin live
    <3>1. /\ inflight' = <<inflight[1], inflight[2] \ {u}>>
          /\ UNCHANGED <<req, live, freeRows>>
      BY <1>3, <1>6, <2>5 DEF AbortPending, memory
    <3>2. Freed
      BY <1>2, <2>5, <3>1 DEF Rows
    <3> QED BY <1>1, <2>1, <2>3, <3>1, <3>2
  <2> QED BY <2>4, <2>5
<1>7. CASE AbortPrefilled(u)
  <2>1. /\ u \notin Waiting /\ u \in inflPre /\ inflPre' = inflPre \ {u}
        /\ FreeReqResources(u, TRUE) /\ UNCHANGED <<pend, running, inflight>>
    BY <1>7 DEF AbortPrefilled, Waiting
  <2>2. u \in live /\ u \notin Active
    BY <1>4, <2>1 DEF LifeInv, Places
  <2>3. Freed
    BY <2>1, <2>2, FreedRows
  <2>4. Lists
    BY <1>2, <2>1, <2>2 DEF Waiting, Active
  <2> QED BY <1>1, <1>2, <2>1, <2>3, <2>4
<1>8. CASE AbortRunning(u)
  <2>1. /\ u \notin Waiting /\ u \notin inflPre /\ UNCHANGED <<pend, inflPre>>
        /\ inflight' = <<inflight[1], inflight[2] \ {u}>>
        /\ running' = Kept(running, Uid \ {u})
    BY <1>3, <1>8 DEF AbortRunning, Waiting
  <2>2. Lists
    BY <1>2, <2>1, WithoutOne DEF Waiting, Active
  <2>3. CASE u \in Active
    <3>1. FreeReqResources(u, u \in inflight[2])
      BY <1>8, <2>3 DEF AbortRunning, Active
    <3>2. u \in live
      BY <2>3 DEF LifeInv, Places
    <3>3. Freed
      BY <3>1, <3>2, FreedRows
    <3> QED BY <1>1, <2>1, <2>2, <3>3
  <2>4. CASE u \notin Active
    <3>1. UNCHANGED <<req, live, freeRows>>
      BY <1>8, <2>4 DEF AbortRunning, Active, memory
    <3>2. u \notin live
      BY <1>4, <1>5, <2>1, <2>4 DEF LifeInv, Places
    <3>3. Freed
      BY <1>2, <3>1, <3>2 DEF Rows
    <3> QED BY <1>1, <2>1, <2>2, <3>3
  <2> QED BY <2>3, <2>4
<1> QED BY <1>6, <1>7, <1>8 DEF RecvAbort

LEMMA RecvAbortLife ==
    ASSUME LifeInv, NEW u \in Uid, RecvAbort(u)
    PROVE  LifeInv'
<1>1. /\ pc \in {"idle", "recv"} /\ pc' = "recv"
      /\ aborted' = aborted \cup {u} /\ u \in sent
      /\ UNCHANGED <<sent, ended, adder, finished, gen, last, batch, idx, newFin, req>>
      /\ pend' \in Seq(Uid) /\ IsInjective(pend') /\ Waiting' = Waiting \ {u}
      /\ running' \in Seq(Uid) /\ IsInjective(running') /\ Active' = Active \ {u}
      /\ inflPre' = inflPre \ {u}
      /\ inflight' = <<inflight'[1], inflight'[2]>> /\ inflight'[2] \subseteq inflight[2]
      /\ live' = live \ {u} /\ freeRows' \in Seq(Row) /\ Rows'
  BY AbortDoes
<1>2. /\ Arriving' = Arriving \ {u} /\ Launched' = Launched \ {u}
      /\ Stepping' = Stepping /\ Stepped' = Stepped
      /\ (OnceIn(last) <=> OnceIn(last)') /\ (OnceIn(batch) <=> OnceIn(batch)')
  BY <1>1, SameBatches
<1>3. Stepped = {}
  <2>1. batch = NoReq
    BY <1>1 DEF LifeInv, Phases
  <2> QED BY <2>1, NoneRemain DEF Stepped
<1>4. Types'
  BY <1>1 DEF LifeInv, Types, IsRequest
<1>5. Once'
  BY <1>1, <1>2 DEF LifeInv, Once
<1>6. Places'
  <2>1. newFin = {}
    BY <1>1 DEF LifeInv, Phases
  <2> QED BY <1>1, <1>2, <2>1 DEF LifeInv, Places
<1>7. Known'
  BY <1>1, <1>2, <1>3 DEF LifeInv, Known
<1>8. Phases'
  BY <1>1, <1>2 DEF LifeInv, Phases
<1>9. Counts'
  BY <1>1, <1>2 DEF LifeInv, Counts, StepsDue, MaxDeviceLen, InputLen, OutputLen
<1>10. FinishedMeansComplete'
  BY <1>1 DEF LifeInv, FinishedMeansComplete
<1> QED BY <1>1, <1>4, <1>5, <1>6, <1>7, <1>8, <1>9, <1>10 DEF LifeInv
-----------------------------------------------------------------------------
(* Scheduling. *)

LEMMA StartScheduleLife ==
    ASSUME SizesAssumption, LifeInv, StartSchedule
    PROVE  LifeInv'
<1>1. /\ pc = "recv" /\ pc' = "admit" /\ inflPre' = {} /\ batch' = NoReq
      /\ adder' = [budget |-> PrefillBudget, reserved |-> ReservedSize, n |-> 0]
      /\ UNCHANGED <<sent, ended, pend, running, inflight, finished, req, live, gen, aborted,
                     last, idx, newFin, freeRows>>
  BY DEF StartSchedule, client, decode, request, memory
<1>2. batch = NoReq /\ Launched = {}
  <2>1. batch = NoReq
    BY <1>1 DEF LifeInv, Phases
  <2> QED BY <2>1, NoneRemain DEF Launched
<1>3. /\ Arriving' = Arriving /\ Launched' = Launched /\ Stepping' = Stepping
      /\ Stepped' = Stepped /\ Active' = Active /\ Waiting' = Waiting
      /\ (OnceIn(last) <=> OnceIn(last)') /\ (OnceIn(batch) <=> OnceIn(batch)')
  BY <1>1, <1>2, SameBatches DEF Active, Waiting
<1>4. adder'.n = 0 /\ adder'.budget \in Int
  BY <1>1 DEF SizesAssumption
<1>5. Types' /\ Once'
  BY <1>1, <1>2, <1>3, <1>4 DEF LifeInv, Types, Once, IsRequest
<1>6. Places' /\ Known'
  BY <1>1, <1>3 DEF LifeInv, Places, Known
<1>7. Phases'
  <2>1. {pend[i] : i \in 1 .. 0} = {} /\ Len(pend) \in Nat
    <3>1. pend \in Seq(Uid)
      BY DEF LifeInv, Types
    <3> QED BY <3>1
  <2> QED BY <1>1, <1>2, <1>3, <1>4, <2>1 DEF LifeInv, Phases
<1>8. Counts'
  BY <1>1, <1>3 DEF LifeInv, Counts, StepsDue, MaxDeviceLen, InputLen, OutputLen
<1>9. Rows' /\ FinishedMeansComplete'
  BY <1>1 DEF LifeInv, Rows, FinishedMeansComplete
<1> QED BY <1>5, <1>6, <1>7, <1>8, <1>9 DEF LifeInv

(* A chunk never reaches behind the prompt. *)
LEMMA AddOneDoes ==
    ASSUME SizesAssumption, RequestsAssumption, LifeInv,
           pc = "admit", adder.n < Len(pend),
           NEW u, u = pend[adder.n + 1],
           NEW row \in Row, NEW handle, NEW from \in Int,
           AddOne(u, row, handle, from)
    PROVE  /\ u \in Waiting /\ u \in Uid
           /\ req' = [v \in Uid |-> req'[v]]
           /\ \A v \in Uid : v # u => req'[v] = req[v]
           /\ IsRequest(req'[u]) /\ req'[u].row = row /\ req'[u].device <= InputLen(u)
           /\ req'[u].handle = handle
           /\ adder'.n = adder.n + 1 /\ adder'.n <= Len(pend) /\ adder'.budget \in Int
           /\ inflPre' = inflPre \cup {u} /\ live' = live \cup {u}
<1> DEFINE remain == InputLen(u) - from
           chunk  == Lesser(adder.budget, remain)
<1>0. pend \in Seq(Uid)
  BY DEF LifeInv, Types
<1>1. Len(pend) \in Nat /\ adder.n \in Nat /\ adder.budget \in Int /\ DOMAIN pend = 1 .. Len(pend)
  BY <1>0, LenProperties DEF LifeInv, Types
<1>2. adder.n + 1 \in 1 .. Len(pend)
  <2> PICK m, n : m = adder.n /\ n = Len(pend)
    OBVIOUS
  <2>1. m \in Nat /\ n \in Nat /\ m < n
    BY <1>1
  <2>2. m + 1 \in 1 .. n
    BY <2>1
  <2> QED BY <2>2
<1>3. u \in Uid /\ u \in Waiting
  <2>1. u \in Uid
    BY <1>0, <1>2, ElementOfSeq
  <2>2. u \in Waiting
    BY <1>1, <1>2 DEF Waiting, ToSet
  <2> QED BY <2>1, <2>2
<1>4. InputLen(u) \in Int
  <2>1. InputLen(u) < MaxSeqLen
    BY <1>3 DEF LifeInv, Counts
  <2>2. InputLen(u) \in Nat \ {0}
    BY <1>3, <2>1, Lengths
  <2> QED BY <2>2
<1>5. /\ req' = [req EXCEPT ![u] = [row |-> row, cached |-> from, device |-> from + chunk,
                                    handle |-> handle]]
      /\ adder' = [budget   |-> adder.budget - chunk,
                   reserved |-> adder.reserved + AlignCeil(remain + OutputLen(u)),
                   n        |-> adder.n + 1]
      /\ inflPre' = inflPre \cup {u} /\ live' = live \cup {u}
  BY DEF AddOne
<1>6. chunk \in Int /\ from + chunk <= InputLen(u)
  <2> PICK a, b : a = adder.budget /\ b = InputLen(u)
    OBVIOUS
  <2>1. a \in Int /\ b \in Int /\ chunk = Lesser(a, b - from)
    BY <1>1, <1>4
  <2>2. Lesser(a, b - from) \in Int /\ from + Lesser(a, b - from) <= b
    BY <2>1, SMTT(30) DEF Lesser
  <2> QED BY <2>1, <2>2
<1> HIDE DEF chunk
<1>7. req = [v \in Uid |-> req[v]]
  BY DEF LifeInv, Types
<1>8. /\ req' = [v \in Uid |-> req'[v]]
      /\ \A v \in Uid : v # u => req'[v] = req[v]
      /\ req'[u] = [row |-> row, cached |-> from, device |-> from + chunk, handle |-> handle]
  BY <1>3, <1>5, <1>7
<1>9. IsRequest(req'[u]) /\ req'[u].row = row /\ req'[u].device <= InputLen(u)
      /\ req'[u].handle = handle
  BY <1>6, <1>8 DEF IsRequest
<1>10. adder'.n = adder.n + 1 /\ adder'.budget \in Int
  BY <1>1, <1>5, <1>6
<1> QED BY <1>2, <1>3, <1>5, <1>8, <1>9, <1>10

LEMMA BlocksIs ==
    ASSUME SizesAssumption, NEW ids, Len(ids) \in Nat
    PROVE  /\ Len(ids) \div PageSize \in Nat
           /\ Blocks(ids) \in Seq(ToSet(Blocks(ids)))
           /\ Len(Blocks(ids)) = Len(ids) \div PageSize
<1> DEFINE n == Len(ids) \div PageSize
           block(i) == SubSeq(ids, (i - 1) * PageSize + 1, i * PageSize)
           b == [i \in 1 .. n |-> block(i)]
<1>1. n \in Nat
  BY DEF SizesAssumption
<1>2. Blocks(ids) = b
  BY DEF Blocks
<1> HIDE DEF block, n
<1>3. b \in [1 .. n -> ToSet(b)]
  BY DEF ToSet
<1>4. b \in Seq(ToSet(b)) /\ Len(b) = n
  <2> DEFINE S == ToSet(b)
  <2> HIDE DEF b, S
  <2>1. b \in [1 .. n -> S]
    BY <1>3 DEF S
  <2>2. b \in Seq(S) /\ Len(b) = n
    BY <1>1, <2>1
  <2> QED BY <2>2 DEF S
<1> QED BY <1>1, <1>2, <1>4 DEF n

(* What a new request matches is cached. *)
LEMMA MatchKeyIs ==
    ASSUME SizesAssumption, RequestsAssumption, NEW u \in Uid
    PROVE  /\ Len(MatchKey(u)) * PageSize \in Int
           /\ PrefixesOf(MatchKey(u)) \subseteq DOMAIN cached
<1> DEFINE ids == Blocks(SubSeq(Prompt[u], 1, InputLen(u) - 1))
           m == MatchLen(cached, ids)
<1>1. Prompt[u] \in Seq(ToSet(Prompt[u])) /\ InputLen(u) \in Nat
  <2>1. Prompt[u] \in Seq(ToSet(Prompt[u]))
    BY DEF RequestsAssumption
  <2> QED BY <2>1, LenProperties DEF InputLen
<1>2. Len(SubSeq(Prompt[u], 1, InputLen(u) - 1)) \in Nat
  <2>1. SubSeq(Prompt[u], 1, InputLen(u) - 1) \in Seq(ToSet(Prompt[u]))
    BY <1>1 DEF InputLen
  <2> QED BY <2>1, LenProperties
<1>3. ids \in Seq(ToSet(ids)) /\ Len(ids) \in Nat
  BY <1>2, BlocksIs
<1> HIDE DEF ids
<1>4. m \in 0 .. Len(ids)
  BY <1>3, MatchIs
<1>5. PrefixesOf(SubSeq(ids, 1, m)) \subseteq DOMAIN cached
  BY <1>3, MatchedIsCached
<1> HIDE DEF m
<1>6. Len(SubSeq(ids, 1, m)) = m /\ m \in Nat
  BY <1>3, <1>4
<1>7. MatchKey(u) = SubSeq(ids, 1, m)
  BY DEF MatchKey, ids, m
<1>8. m * PageSize \in Int
  BY <1>6 DEF SizesAssumption
<1> QED BY <1>5, <1>6, <1>7, <1>8

(* The next pending request is admitted: it becomes live if it was not. *)
LEMMA AdmitLife ==
    ASSUME SizesAssumption, RequestsAssumption, LifeInv,
           pc = "admit", adder.n < Len(pend),
           NEW u, u = pend[adder.n + 1],
           NEW row \in Row, NEW handle, NEW from \in Int,
           AddOne(u, row, handle, from),
           UNCHANGED <<pc, sent, ended, pend, running, inflight, finished, gen, aborted,
                       last, batch, idx, newFin>>,
           freeRows' \in Seq(Row), Rows'
    PROVE  LifeInv'
<1>1. /\ u \in Waiting /\ u \in Uid
      /\ req' = [v \in Uid |-> req'[v]]
      /\ \A v \in Uid : v # u => req'[v] = req[v]
      /\ IsRequest(req'[u]) /\ req'[u].device <= InputLen(u)
      /\ adder'.n = adder.n + 1 /\ adder'.n <= Len(pend) /\ adder'.budget \in Int
      /\ inflPre' = inflPre \cup {u} /\ live' = live \cup {u}
  BY AddOneDoes, SMTT(30)
<1>2. /\ Arriving' = Arriving /\ Launched' = Launched /\ Stepping' = Stepping
      /\ Stepped' = Stepped /\ Active' = Active /\ Waiting' = Waiting
      /\ (OnceIn(last) <=> OnceIn(last)') /\ (OnceIn(batch) <=> OnceIn(batch)')
  BY SameBatches DEF Active, Waiting
<1>3. adder.n \in Nat
  BY DEF LifeInv, Types
<1>4. Types'
  <2>1. \A v \in live' : IsRequest(req[v]') 
    BY <1>1 DEF LifeInv, Types
  <2>2. adder'.n \in Nat
    BY <1>1, <1>3, SMTT(30)
  <2> QED BY <1>1, <2>1, <2>2 DEF LifeInv, Types, IsRequest
<1>5. Once' /\ Places' /\ Known'
  <2>1. Once'
    BY <1>2 DEF LifeInv, Once
  <2>2. Places'
    BY <1>1, <1>2 DEF LifeInv, Places
  <2>3. Known'
    <3>1. Waiting' \cup live' = Waiting \cup live
      BY <1>1, <1>2
    <3> QED BY <1>2, <3>1 DEF LifeInv, Known
  <2> QED BY <2>1, <2>2, <2>3
<1>6. Phases'
  <2>1. {pend[i] : i \in 1 .. adder.n + 1} = {pend[i] : i \in 1 .. adder.n} \cup {u}
    <3>1. 1 .. adder.n + 1 = 1 .. adder.n \cup {adder.n + 1}
      BY <1>3
    <3> QED BY <3>1
  <2>2. inflPre' = {pend'[i] : i \in 1 .. adder'.n} /\ inflPre' \subseteq live'
    <3>1. pend' = pend /\ adder'.n = adder.n + 1
      BY <1>1
    <3>2. {pend'[i] : i \in 1 .. adder'.n} = {pend[i] : i \in 1 .. adder.n + 1}
      BY <3>1
    <3>3. inflPre = {pend[i] : i \in 1 .. adder.n} /\ inflPre \subseteq live
      BY DEF LifeInv, Phases
    <3> QED BY <1>1, <2>1, <3>2, <3>3
  <2>3. inflPre' \ Waiting' = Launched'
    BY <1>1, <1>2 DEF LifeInv, Phases
  <2> QED BY <1>1, <2>2, <2>3 DEF LifeInv, Phases
<1>7. Counts'
  <2>1. u \notin Active \cup Arriving \cup Launched
    BY <1>1 DEF LifeInv, Places
  <2>2. InputLen(u) < MaxSeqLen
    BY <1>1 DEF LifeInv, Counts
  <2>3. InputLen(u) \in Nat /\ MaxDeviceLen(u) \in Nat /\ InputLen(u) <= MaxDeviceLen(u)
    <3>1. u \in Uid
      BY <1>1
    <3>2. /\ InputLen(u) \in Nat \ {0} /\ OutputLen(u) \in Nat \ {0}
          /\ MaxDeviceLen(u) = InputLen(u) + OutputLen(u)
      BY <2>2, <3>1, Lengths
    <3> QED BY <3>2
  <2>4. req'[u].device \in Int
    BY <1>1 DEF IsRequest
  <2>5. req'[u].device <= MaxDeviceLen(u)
    BY <1>1, <2>3, <2>4, SMTT(30)
  <2>6. Waiting \subseteq Uid /\ Active \subseteq Uid /\ Arriving \subseteq Uid
        /\ Launched \subseteq Uid /\ live \subseteq Uid
    BY SetTypes DEF LifeInv, Types
  <2>7. \A v : /\ InputLen(v)' = InputLen(v) /\ MaxDeviceLen(v)' = MaxDeviceLen(v)
               /\ StepsDue(v)' = StepsDue(v)
    BY <1>2 DEF InputLen, MaxDeviceLen, OutputLen, StepsDue
  <2> QED BY <1>1, <1>2, <2>1, <2>2, <2>5, <2>6, <2>7 DEF LifeInv, Counts
<1>8. FinishedMeansComplete'
  BY DEF LifeInv, FinishedMeansComplete
<1> QED BY <1>4, <1>5, <1>6, <1>7, <1>8 DEF LifeInv

LEMMA SameRows ==
    ASSUME LifeInv, live' = live, freeRows' = freeRows,
           \A v \in live : req'[v].row = req[v].row
    PROVE  Rows'
<1>1. \A v, w \in live : req'[v].row = req'[w].row => v = w
  BY DEF LifeInv, Rows
<1>2. \A v \in live : req'[v].row \notin ToSet(freeRows)
  BY DEF LifeInv, Rows
<1>3. ASSUME NEW r \in Row, r \notin ToSet(freeRows)
      PROVE  \E v \in live : req'[v].row = r
  <2>1. PICK v \in live : req[v].row = r
    BY <1>3 DEF LifeInv, Rows
  <2>2. req'[v].row = r
    BY <2>1
  <2> QED BY <2>2
<1> QED BY <1>1, <1>2, <1>3 DEF LifeInv, Rows

LEMMA AdmitChunkLife ==
    ASSUME SizesAssumption, RequestsAssumption, LifeInv, AdmitChunk
    PROVE  LifeInv'
<1>. PICK u : u = pend[adder.n + 1]
  OBVIOUS
<1>. PICK row, handle, from : row = req[u].row /\ handle = req[u].handle /\ from = req[u].cached
  OBVIOUS
<1>1. /\ pc = "admit" /\ adder.n < Len(pend) /\ u \in live
      /\ AddOne(u, row, handle, from)
      /\ UNCHANGED <<pc, sent, ended, pend, running, inflight, finished, gen, aborted,
                     last, batch, idx, newFin, freeRows>>
  BY DEF AdmitChunk, IsChunk, client, decode, loop, memory
<1>2. row \in Row /\ from \in Int
  BY <1>1 DEF LifeInv, Types, IsRequest
<1>3. freeRows' \in Seq(Row)
  BY <1>1 DEF LifeInv, Types
<1>4. /\ u \in Uid
      /\ \A v \in Uid : v # u => req'[v] = req[v]
      /\ req'[u].row = row
      /\ live' = live \cup {u}
  <2>1. u = pend[adder.n + 1]
    OBVIOUS
  <2>2. row \in Row
    BY <1>2
  <2>3. from \in Int
    BY <1>2
  <2>4. pc = "admit" /\ adder.n < Len(pend) /\ AddOne(u, row, handle, from)
    BY <1>1
  <2> QED BY <2>1, <2>2, <2>3, <2>4, AddOneDoes
<1>5. Rows'
  <2>1. live' = live /\ live \subseteq Uid
    BY <1>1, <1>4 DEF LifeInv, Types
  <2>2. \A v \in live : req'[v].row = req[v].row
    BY <1>4, <2>1
  <2>3. freeRows' = freeRows
    BY <1>1
  <2> QED BY <2>1, <2>2, <2>3, SameRows
<1> QED BY <1>1, <1>2, <1>3, <1>5, AdmitLife

LEMMA AdmitNewLife ==
    ASSUME SizesAssumption, RequestsAssumption, LifeInv, AdmitNew
    PROVE  LifeInv'
<1> PICK u : u = pend[adder.n + 1]
  OBVIOUS
<1> PICK key, row : key = MatchKey(u) /\ row = Last(freeRows)
  OBVIOUS
<1> PICK from : from = Len(key) * PageSize
  OBVIOUS
<1>1. /\ pc = "admit" /\ adder.n < Len(pend) /\ u \notin Waiting \cap live
      /\ freeRows # <<>> /\ freeRows' = Front(freeRows)
      /\ AddOne(u, row, key, from)
      /\ UNCHANGED <<pc, sent, ended, pend, running, inflight, finished, gen, aborted,
                     last, batch, idx, newFin>>
  BY DEF AdmitNew, CanAdmit, IsChunk, client, decode, loop, Waiting
<1>2. /\ freeRows \in Seq(Row) /\ IsInjective(freeRows)
  BY DEF LifeInv, Types, Rows
<1>3. /\ row \in ToSet(freeRows) /\ freeRows' \in Seq(Row)
      /\ ToSet(freeRows) = ToSet(freeRows') \cup {row}
      /\ IsInjective(freeRows') /\ row \notin ToSet(freeRows')
  BY <1>1, <1>2, PopIs
<1>4. row \in Row
  BY <1>2, <1>3 DEF ToSet
<1>5. u \in Uid
  <2>1. Len(pend) \in Nat /\ adder.n \in Nat
    BY LenProperties DEF LifeInv, Types
  <2>2. adder.n + 1 \in 1 .. Len(pend)
    BY <1>1, <2>1
  <2> QED BY <2>2, ElementOfSeq DEF LifeInv, Types
<1>6. from \in Int
  BY <1>5, MatchKeyIs
<1>7. /\ \A v \in Uid : v # u => req'[v] = req[v]
      /\ u \in Waiting /\ req'[u].row = row /\ live' = live \cup {u}
  BY <1>1, <1>4, <1>6, AddOneDoes
<1>8. Rows'
  <2>1. u \notin live /\ live \subseteq Uid
    BY <1>1, <1>7 DEF LifeInv, Types
  <2>2. \A v \in live : req'[v].row = req[v].row
    BY <1>7, <2>1
  <2>3. \A v \in live' : v = u \/ v \in live
    BY <1>7
  <2>4. \A v \in live' : req'[v].row \notin ToSet(freeRows')
    <3> SUFFICES ASSUME NEW v \in live' PROVE req'[v].row \notin ToSet(freeRows')
      OBVIOUS
    <3>1. CASE v = u
      BY <1>3, <1>7, <3>1
    <3>2. CASE v \in live
      <4>1. req[v].row \notin ToSet(freeRows)
        BY <3>2 DEF LifeInv, Rows
      <4> QED BY <1>3, <2>2, <3>2, <4>1
    <3> QED BY <2>3, <3>1, <3>2
  <2>5. \A v \in live : req'[v].row # row
    BY <1>3, <2>2 DEF LifeInv, Rows
  <2>6. \A v, w \in live : req'[v].row = req'[w].row => v = w
    BY <2>2 DEF LifeInv, Rows
  <2>7. \A v, w \in live' : req'[v].row = req'[w].row => v = w
    BY <1>7, <2>3, <2>5, <2>6
  <2>8. \A r \in Row : r \in ToSet(freeRows') \/ \E v \in live' : req'[v].row = r
    <3> SUFFICES ASSUME NEW r \in Row, r \notin ToSet(freeRows')
                 PROVE  \E v \in live' : req'[v].row = r
      OBVIOUS
    <3>1. CASE r = row
      BY <1>7, <3>1
    <3>2. CASE r # row
      <4>1. PICK v \in live : req[v].row = r
        BY <1>3, <3>2 DEF LifeInv, Rows
      <4>2. req'[v].row = r /\ v \in live'
        BY <1>7, <2>2, <4>1
      <4> QED BY <4>2
    <3> QED BY <3>1, <3>2
  <2> QED BY <1>3, <2>4, <2>7, <2>8 DEF Rows
<1> QED BY <1>1, <1>3, <1>4, <1>6, <1>8, AdmitLife

(* A prefill batch is launched: its chunks stay at the head of the queue,   *)
(* the requests that are prefilled to their end leave it.                   *)
LEMMA LaunchPrefillDoes ==
    ASSUME NoReqAssumption, LifeInv, LaunchPrefill
    PROVE  \E part \in SUBSET inflPre :
           /\ part = {u \in inflPre : Unfinished(u)}
           /\ pend' \in Seq(Uid) /\ IsInjective(pend')
           /\ Waiting' \cap inflPre = part /\ Waiting' \subseteq Waiting
           /\ Waiting \subseteq Waiting' \cup inflPre
           /\ batch' \in Batch /\ batch' # NoReq /\ OnceIn(batch')
           /\ Launched' = inflPre \ part /\ Stepped' = {}
<1> DEFINE us == SubSeq(pend, 1, adder.n)
           rest == SubSeq(pend, adder.n + 1, Len(pend))
           part == {u \in ToSet(us) : Unfinished(u)}
<1>1. /\ pc = "admit" /\ aborted' = aborted
      /\ pend' = Kept(us, part) \o rest
      /\ batch' = [phase |-> "prefill", reqs |-> [i \in 1 .. Len(us) |-> Entry(us[i])]]
  BY DEF LaunchPrefill, AdmissionOver
<1>2. pend \in Seq(Uid) /\ IsInjective(pend) /\ Waiting = ToSet(pend)
  BY DEF LifeInv, Types, Once, Waiting
<1>3. adder.n \in 0 .. Len(pend) /\ inflPre = {pend[i] : i \in 1 .. adder.n}
  <2>1. adder.n <= Len(pend) /\ inflPre = {pend[i] : i \in 1 .. adder.n}
    BY <1>1 DEF LifeInv, Phases
  <2>2. adder.n \in Nat /\ Len(pend) \in Nat
    BY LenProperties DEF LifeInv, Types
  <2> QED BY <2>1, <2>2
<1>4. /\ us \in Seq(Uid) /\ rest \in Seq(Uid)
      /\ ToSet(us) = inflPre /\ Waiting = ToSet(us) \cup ToSet(rest)
      /\ IsInjective(us) /\ IsInjective(rest) /\ ToSet(us) \cap ToSet(rest) = {}
  BY <1>2, <1>3, SplitIs
<1> HIDE DEF us, rest
<1>5. part = {u \in inflPre : Unfinished(u)} /\ part \subseteq inflPre
  BY <1>4
<1>6. IsKept(Kept(us, part), Uid, us, part)
  BY <1>4, KeptIs
<1>7. /\ Kept(us, part) \in Seq(Uid) /\ ToSet(Kept(us, part)) = part
      /\ IsInjective(Kept(us, part))
  BY <1>4, <1>6 DEF IsKept
<1>8. /\ pend' \in Seq(Uid) /\ IsInjective(pend') /\ Waiting' = part \cup ToSet(rest)
  <2>1. ToSet(Kept(us, part)) \cap ToSet(rest) = {}
    BY <1>4, <1>7
  <2> HIDE DEF part
  <2>2. /\ Kept(us, part) \o rest \in Seq(Uid) /\ IsInjective(Kept(us, part) \o rest)
        /\ ToSet(Kept(us, part) \o rest) = part \cup ToSet(rest)
    BY <1>4, <1>7, <2>1, ConcatIs
  <2> QED BY <1>1, <2>2 DEF Waiting
<1>9. batch' = Formed("prefill", us, part)
  <2>1. Len(us) \in Nat /\ DOMAIN us = 1 .. Len(us)
    BY <1>4
  <2>2. \A i \in 1 .. Len(us) : us[i] \in ToSet(us)
    BY <2>1 DEF ToSet
  <2>3. \A i \in 1 .. Len(us) : Unfinished(us[i]) = (us[i] \in part)
    BY <2>2 DEF Unfinished
  <2> HIDE DEF part
  <2>4. [i \in 1 .. Len(us) |-> Entry(us[i])]
          = [i \in 1 .. Len(us) |-> [uid |-> us[i], chunked |-> us[i] \in part]]
    BY <2>3 DEF Entry
  <2> QED BY <1>1, <2>4 DEF Formed
<1>10. /\ batch' \in Batch /\ batch' # NoReq /\ OnceIn(batch')
       /\ Prefilled(batch', 0, aborted) = ToSet(us) \ (part \cup aborted)
       /\ Decoding(batch', 0) = {}
  <2> HIDE DEF part
  <2>1. IsBatchOf(Formed("prefill", us, part), "prefill", us, part, aborted)
    BY <1>4, FormedIs
  <2> QED BY <1>9, <2>1 DEF IsBatchOf
<1>11. Launched' = inflPre \ part /\ Stepped' = {}
  <2>1. ToSet(us) \cap aborted = {}
    BY <1>4 DEF LifeInv, Known
  <2> QED BY <1>1, <1>4, <1>10, <2>1 DEF Launched, Stepped
<1> HIDE DEF part
<1>12. /\ Waiting' \cap inflPre = part /\ Waiting' \subseteq Waiting
       /\ Waiting \subseteq Waiting' \cup inflPre
  BY <1>4, <1>5, <1>8
<1> QED BY <1>5, <1>8, <1>10, <1>11, <1>12

LEMMA LaunchPrefillLife ==
    ASSUME SizesAssumption, RequestsAssumption, NoReqAssumption, LifeInv, LaunchPrefill
    PROVE  LifeInv'
<1>1. /\ pc = "admit" /\ pc' = "process"
      /\ UNCHANGED <<sent, ended, inflPre, adder, running, inflight, finished, live, gen,
                     aborted, last, idx, newFin, freeRows>>
  BY DEF LaunchPrefill, AdmissionOver, client, decode
<1>2. PICK part \in SUBSET inflPre :
           /\ part = {u \in inflPre : Unfinished(u)}
           /\ pend' \in Seq(Uid) /\ IsInjective(pend')
           /\ Waiting' \cap inflPre = part /\ Waiting' \subseteq Waiting
           /\ Waiting \subseteq Waiting' \cup inflPre
           /\ batch' \in Batch /\ batch' # NoReq /\ OnceIn(batch')
           /\ Launched' = inflPre \ part /\ Stepped' = {}
  BY LaunchPrefillDoes
<1>3. /\ batch = NoReq /\ newFin = {} /\ Launched = {} /\ Stepped = {}
      /\ inflPre \subseteq Waiting /\ inflPre \subseteq live
  <2>1. batch = NoReq /\ newFin = {}
    BY <1>1 DEF LifeInv, Phases
  <2>2. Launched = {} /\ Stepped = {}
    BY <2>1, NoneRemain DEF Launched, Stepped
  <2> QED BY <1>1, <2>1, <2>2 DEF LifeInv, Phases
<1>4. /\ Arriving' = Arriving /\ Stepping' = Stepping /\ Active' = Active
      /\ (OnceIn(last) <=> OnceIn(last)')
  BY <1>1 DEF Arriving, Stepping, Active, OnceIn
<1>5. /\ req' = [u \in Uid |-> req'[u]]
      /\ \A u \in live : /\ IsRequest(req'[u]) /\ req'[u].device = req[u].device
                         /\ req'[u].row = req[u].row
  <2>1. \E S : req' = [u \in Uid |-> IF u \in S THEN [req[u] EXCEPT !.cached = req[u].device]
                                     ELSE req[u]]
    BY DEF LaunchPrefill
  <2>2. PICK S : req' = [u \in Uid |-> IF u \in S THEN [req[u] EXCEPT !.cached = req[u].device]
                                       ELSE req[u]]
    BY <2>1
  <2>3. ASSUME NEW u \in live
        PROVE  /\ IsRequest(req'[u]) /\ req'[u].device = req[u].device
               /\ req'[u].row = req[u].row
    <3>1. u \in Uid /\ IsRequest(req[u])
      BY DEF LifeInv, Types
    <3>2. req'[u] = IF u \in S THEN [req[u] EXCEPT !.cached = req[u].device] ELSE req[u]
      BY <2>2, <3>1
    <3>3. req[u].device \in Int
      BY <3>1 DEF IsRequest
    <3> QED BY <3>1, <3>2, <3>3, Advanced
  <2> QED BY <2>2, <2>3
<1>6. Types'
  <2>1. \A u \in live' : IsRequest(req[u])'
    BY <1>1, <1>5 DEF IsRequest
  <2> QED BY <1>1, <1>2, <1>5, <2>1 DEF LifeInv, Types
<1>7. Once'
  BY <1>1, <1>2, <1>4 DEF LifeInv, Once, OnceIn
<1>8. Places'
  BY <1>1, <1>2, <1>3, <1>4 DEF LifeInv, Places
<1>9. Known'
  <2>1. Waiting' \cup live' \subseteq Waiting \cup live /\ Launched' \subseteq Waiting
    BY <1>1, <1>2, <1>3
  <2>2. inflight'[2] = inflight[2]
    BY <1>1
  <2> QED BY <1>1, <1>2, <1>3, <1>4, <2>1, <2>2 DEF LifeInv, Known
<1>10. Phases'
  BY <1>1, <1>2, <1>3, <1>4 DEF LifeInv, Phases
<1>11. Counts'
  <2>1. \A u \in Launched' : req[u].device = InputLen(u) /\ gen[u] = <<>>
    <3> SUFFICES ASSUME NEW u \in Launched'
                 PROVE  req[u].device = InputLen(u) /\ gen[u] = <<>>
      OBVIOUS
    <3>1. u \in Waiting /\ u \in live /\ ~Unfinished(u)
      BY <1>2, <1>3
    <3>2. gen[u] = <<>> /\ req[u].device <= InputLen(u)
      BY <3>1 DEF LifeInv, Counts
    <3>3. u \in Uid /\ req[u].device \in Int /\ InputLen(u) < MaxSeqLen
      BY <3>1 DEF LifeInv, Types, IsRequest, Counts
    <3>4. InputLen(u) \in Int
      BY <3>3, Lengths
    <3> QED BY <3>1, <3>2, <3>3, <3>4 DEF Unfinished
  <2>2. \A u : /\ InputLen(u)' = InputLen(u) /\ MaxDeviceLen(u)' = MaxDeviceLen(u)
               /\ StepsDue(u)' = StepsDue(u)
    BY <1>2, <1>3, <1>4 DEF InputLen, MaxDeviceLen, OutputLen, StepsDue
  <2>3. Active \cup Arriving \subseteq live /\ Launched' \subseteq live
    BY <1>2, <1>3 DEF LifeInv, Places
  <2> QED BY <1>1, <1>2, <1>3, <1>4, <1>5, <2>1, <2>2, <2>3 DEF LifeInv, Counts
<1>12. Rows'
  BY <1>1, <1>5, SameRows
<1>13. FinishedMeansComplete'
  BY <1>1 DEF LifeInv, FinishedMeansComplete
<1> QED BY <1>6, <1>7, <1>8, <1>9, <1>10, <1>11, <1>12, <1>13 DEF LifeInv

(* The decode batch: running requests that still need a token, each once. *)
LEMMA DecodeBatchIs ==
    ASSUME SizesAssumption, LifeInv
    PROVE  /\ DecodeBatch \in Seq(Uid) /\ IsInjective(DecodeBatch)
           /\ \A u \in ToSet(DecodeBatch) : u \in Active /\ CanDecode(u)
<1> DEFINE waiting == Kept(running, Uid \ inflight[2])
           recent  == Kept(running, inflight[2])
           able    == Kept(waiting \o recent, {u \in ToSet(running) : CanDecode(u)})
           n       == Lesser(DecodeBudget, Len(able))
<1>1. running \in Seq(Uid) /\ IsInjective(running)
  BY DEF LifeInv, Types, Once
<1>2. /\ IsKept(waiting, Uid, running, Uid \ inflight[2])
      /\ IsKept(recent, Uid, running, inflight[2])
  BY <1>1, KeptIs
<1> DEFINE C == {u \in ToSet(running) : CanDecode(u)}
<1> HIDE DEF waiting, recent
<1>3. /\ waiting \o recent \in Seq(Uid) /\ IsInjective(waiting \o recent)
  <2>1. /\ waiting \in Seq(Uid) /\ recent \in Seq(Uid)
        /\ IsInjective(waiting) /\ IsInjective(recent)
        /\ ToSet(waiting) \cap ToSet(recent) = {}
    BY <1>1, <1>2 DEF IsKept
  <2> QED BY <2>1, ConcatIs
<1>4. IsKept(able, Uid, waiting \o recent, C)
  <2> HIDE DEF C
  <2> QED BY <1>3, KeptIs DEF C
<1> HIDE DEF able
<1>5. able \in Seq(Uid) /\ IsInjective(able) /\ ToSet(able) \subseteq C
  <2> HIDE DEF C
  <2> QED BY <1>3, <1>4 DEF IsKept
<1>6. n \in 0 .. Len(able)
  <2>1. Len(able) \in Nat /\ DecodeBudget \in Nat
    BY <1>5, LenProperties DEF SizesAssumption
  <2> QED BY <2>1 DEF Lesser
<1> HIDE DEF n, C
<1>7. /\ SubSeq(able, 1, n) \in Seq(Uid) /\ IsInjective(SubSeq(able, 1, n))
      /\ ToSet(SubSeq(able, 1, n)) \subseteq ToSet(able)
  BY <1>5, <1>6, SplitIs
<1>8. DecodeBatch = SubSeq(able, 1, n)
  BY DEF DecodeBatch, able, n, waiting, recent
<1> QED BY <1>5, <1>7, <1>8 DEF C, Active

LEMMA LaunchDecodeDoes ==
    ASSUME SizesAssumption, NoReqAssumption, LifeInv, LaunchDecode
    PROVE  \E S \in SUBSET Active :
           /\ \A u \in S : CanDecode(u)
           /\ inflight' = <<inflight[2], S>>
           /\ batch' = NoReq \/ batch' \in Batch
           /\ OnceIn(batch') /\ Launched' = {} /\ Stepped' = S
           /\ req' = [u \in Uid |-> req'[u]]
           /\ \A u \in Uid :
                 req'[u] = IF u \in S
                           THEN [req[u] EXCEPT !.device = @ + 1, !.cached = req[u].device]
                           ELSE req[u]
           /\ live' = live /\ freeRows' = freeRows
<1> DEFINE us == DecodeBatch
<1>1. us \in Seq(Uid) /\ IsInjective(us) /\ \A u \in ToSet(us) : u \in Active /\ CanDecode(u)
  BY DecodeBatchIs
<1>2. inflight' = <<inflight[2], ToSet(us)>> /\ aborted' = aborted
  BY DEF LaunchDecode
<1>3. CASE us = <<>>
  <2>1. batch' = NoReq /\ req' = req /\ live' = live /\ freeRows' = freeRows
    BY <1>3 DEF LaunchDecode, memory
  <2>2. ToSet(us) = {}
    BY <1>3 DEF ToSet
  <2>3. Launched' = {} /\ Stepped' = {}
    BY <2>1, NoneRemain DEF Launched, Stepped
  <2>4. req' = [u \in Uid |-> req'[u]]
    BY <2>1 DEF LifeInv, Types
  <2> HIDE DEF us
  <2> QED BY <1>1, <1>2, <2>1, <2>2, <2>3, <2>4 DEF OnceIn
<1>4. CASE us # <<>>
  <2>1. /\ batch' = [phase |-> "decode",
                     reqs  |-> [i \in 1 .. Len(us) |-> [uid |-> us[i], chunked |-> FALSE]]]
        /\ req' = [u \in Uid |-> IF u \in ToSet(us)
                     THEN [req[u] EXCEPT !.device = @ + 1, !.cached = req[u].device]
                     ELSE req[u]]
        /\ live' = live /\ freeRows' = freeRows
    BY <1>4 DEF LaunchDecode
  <2> HIDE DEF us
  <2>2. batch' = Formed("decode", us, {})
    <3>1. \A i : (us[i] \in {}) = FALSE
      OBVIOUS
    <3> QED BY <2>1, <3>1 DEF Formed
  <2>3. IsBatchOf(batch', "decode", us, {}, aborted)
    BY <1>1, <2>2, FormedIs
  <2>4. Launched' = {} /\ Stepped' = ToSet(us)
    BY <1>2, <2>3 DEF IsBatchOf, Launched, Stepped
  <2>5. batch' \in Batch /\ OnceIn(batch')
    BY <2>3 DEF IsBatchOf
  <2> QED BY <1>1, <1>2, <2>1, <2>4, <2>5
<1> QED BY <1>3, <1>4

LEMMA LaunchDecodeLife ==
    ASSUME SizesAssumption, RequestsAssumption, NoReqAssumption, LifeInv, LaunchDecode
    PROVE  LifeInv'
<1>1. /\ pc = "admit" /\ pc' = "process" /\ adder.n = 0
      /\ UNCHANGED <<sent, ended, pend, inflPre, adder, running, finished, gen, aborted,
                     last, idx, newFin>>
  BY DEF LaunchDecode, AdmissionOver, client, prefill
<1>2. PICK S \in SUBSET Active :
           /\ \A u \in S : CanDecode(u)
           /\ inflight' = <<inflight[2], S>>
           /\ batch' = NoReq \/ batch' \in Batch
           /\ OnceIn(batch') /\ Launched' = {} /\ Stepped' = S
           /\ req' = [u \in Uid |-> req'[u]]
           /\ \A u \in Uid :
                 req'[u] = IF u \in S
                           THEN [req[u] EXCEPT !.device = @ + 1, !.cached = req[u].device]
                           ELSE req[u]
           /\ live' = live /\ freeRows' = freeRows
  BY LaunchDecodeDoes
<1>3. /\ batch = NoReq /\ newFin = {} /\ Launched = {} /\ Stepped = {} /\ inflPre = {}
  <2>1. batch = NoReq /\ newFin = {} /\ inflPre = {pend[i] : i \in 1 .. 0}
    BY <1>1 DEF LifeInv, Phases
  <2>2. Launched = {} /\ Stepped = {}
    BY <2>1, NoneRemain DEF Launched, Stepped
  <2> QED BY <2>1, <2>2
<1>4. /\ Arriving' = Arriving /\ Stepping' = Stepping /\ Active' = Active /\ Waiting' = Waiting
      /\ (OnceIn(last) <=> OnceIn(last)')
  BY <1>1 DEF Arriving, Stepping, Active, Waiting, OnceIn
<1>5. Active \subseteq live /\ live \subseteq Uid
  BY DEF LifeInv, Places, Types
<1>6. ASSUME NEW u \in S
      PROVE  /\ IsRequest(req'[u]) /\ req'[u].device = req[u].device + 1
             /\ req'[u].row = req[u].row
  <2>1. u \in Uid /\ IsRequest(req[u])
    BY <1>5 DEF LifeInv, Types
  <2>2. req'[u] = [req[u] EXCEPT !.device = req[u].device + 1, !.cached = req[u].device]
    BY <1>2, <2>1
  <2>3. req[u].device \in Int
    BY <2>1 DEF IsRequest
  <2>4. PICK r, c, d : r = req[u] /\ c = r.device /\ d = r.device + 1
    OBVIOUS
  <2>5. IsRequest(r) /\ c \in Int /\ d \in Int
    BY <2>1, <2>3, <2>4
  <2>6. LET q == [r EXCEPT !.device = d, !.cached = c] IN
        IsRequest(q) /\ q.row = r.row /\ q.device = d /\ q.handle = r.handle
    BY <2>5, Updated
  <2> QED BY <2>2, <2>4, <2>6
<1>7. ASSUME NEW u \in live, u \notin S
      PROVE  IsRequest(req'[u]) /\ req'[u] = req[u]
  BY <1>2, <1>5, <1>7 DEF LifeInv, Types, IsRequest
<1>8. Types'
  <2>1. \A u \in live' : IsRequest(req[u])'
    BY <1>2, <1>6, <1>7 DEF IsRequest
  <2>2. inflight' = <<inflight'[1], inflight'[2]>>
    BY <1>2
  <2> QED BY <1>1, <1>2, <2>1, <2>2 DEF LifeInv, Types
<1>9. Once'
  BY <1>1, <1>2, <1>4 DEF LifeInv, Once, OnceIn
<1>10. Places'
  BY <1>1, <1>2, <1>3, <1>4 DEF LifeInv, Places
<1>11. Known'
  <2>1. inflight'[2] = S
    BY <1>2
  <2>2. S \subseteq sent /\ S \cap (Waiting \cup Arriving) = {}
    BY <1>5 DEF LifeInv, Known, Places
  <2> QED BY <1>1, <1>2, <1>3, <1>4, <2>1, <2>2 DEF LifeInv, Known
<1>12. Phases'
  BY <1>1, <1>2, <1>3, <1>4 DEF LifeInv, Phases
<1>13. Counts'
  <2>1. \A u : InputLen(u)' = InputLen(u) /\ MaxDeviceLen(u)' = MaxDeviceLen(u)
    BY DEF InputLen, MaxDeviceLen, OutputLen
  <2>2. \A u \in live : req'[u].device <= MaxDeviceLen(u)
    <3> SUFFICES ASSUME NEW u \in live PROVE req'[u].device <= MaxDeviceLen(u)
      OBVIOUS
    <3>1. CASE u \in S
      <4>1. InputLen(u) < MaxSeqLen /\ u \in Uid /\ req[u].device \in Int
        BY <1>5 DEF LifeInv, Counts, Types, IsRequest
      <4>2. MaxDeviceLen(u) \in Nat
        BY <4>1, Lengths
      <4>3. MaxDeviceLen(u) - req[u].device > 0
        BY <1>2, <3>1 DEF CanDecode, RemainLen
      <4>4. req'[u].device = req[u].device + 1
        BY <1>6, <3>1
      <4> PICK d, m : d = req[u].device /\ m = MaxDeviceLen(u)
        OBVIOUS
      <4>5. d + 1 <= m
        BY <4>1, <4>2, <4>3, SMTT(30)
      <4> QED BY <4>4, <4>5
    <3>2. CASE u \notin S
      BY <1>7, <3>2 DEF LifeInv, Counts
    <3> QED BY <3>1, <3>2
  <2>3. (Waiting \cup Arriving) \cap S = {} /\ Arriving \subseteq live
    BY DEF LifeInv, Places
  <2>4. \A u \in Active : req'[u].device = InputLen(u) + Len(gen[u]) + StepsDue(u)'
    <3> SUFFICES ASSUME NEW u \in Active
                 PROVE  req'[u].device = InputLen(u) + Len(gen[u]) + StepsDue(u)'
      OBVIOUS
    <3>1. req[u].device = InputLen(u) + Len(gen[u]) + StepsDue(u)
      BY DEF LifeInv, Counts
    <3>2. StepsDue(u) = (IF u \in Stepping THEN 1 ELSE 0)
      BY <1>3 DEF StepsDue
    <3>3. StepsDue(u)' = (IF u \in Stepping THEN 1 ELSE 0) + (IF u \in S THEN 1 ELSE 0)
      BY <1>2, <1>4 DEF StepsDue
    <3>4. InputLen(u) < MaxSeqLen /\ u \in Uid /\ u \in live
      BY <1>5 DEF LifeInv, Counts
    <3>5. InputLen(u) \in Nat /\ Len(gen[u]) \in Nat
      BY <3>4, Lengths, LenProperties DEF LifeInv, Types
    <3>6. req'[u].device = req[u].device + (IF u \in S THEN 1 ELSE 0)
      <4>1. CASE u \in S
        BY <1>6, <4>1
      <4>2. CASE u \notin S
        BY <1>7, <3>1, <3>2, <3>4, <3>5, <4>2
      <4> QED BY <4>1, <4>2
    <3> DEFINE a == IF u \in Stepping THEN 1 ELSE 0
               b == IF u \in S THEN 1 ELSE 0
    <3>7. a \in Int /\ b \in Int
      OBVIOUS
    <3> QED BY <3>1, <3>2, <3>3, <3>5, <3>6, <3>7, SMTT(30)
  <2>5. \A u \in live : u \notin S => req'[u] = req[u]
    BY <1>7
  <2> QED BY <1>1, <1>2, <1>4, <2>1, <2>2, <2>3, <2>4, <2>5 DEF LifeInv, Counts
<1>14. Rows'
  BY <1>2, <1>6, <1>7, SameRows
<1>15. FinishedMeansComplete'
  BY <1>1 DEF LifeInv, FinishedMeansComplete
<1> QED BY <1>8, <1>9, <1>10, <1>11, <1>12, <1>13, <1>14, <1>15 DEF LifeInv
-----------------------------------------------------------------------------
(* Processing results. *)

LEMMA SkipResultLife ==
    ASSUME NoReqAssumption, LifeInv, SkipResult
    PROVE  LifeInv'
<1> DEFINE e == last.reqs[idx + 1]
<1>1. /\ pc = "process" /\ last # NoReq /\ idx < Len(last.reqs) /\ Skipped(e)
      /\ idx' = idx + 1
      /\ UNCHANGED <<pc, sent, ended, pend, inflPre, adder, running, inflight, finished, req,
                     live, gen, aborted, last, batch, newFin, freeRows>>
  BY DEF SkipResult, Processing, Current, client, prefill, decode, request, memory
<1>2. last \in Batch /\ idx \in Nat /\ Len(last.reqs) \in Nat
  BY <1>1, LenProperties DEF LifeInv, Types, Batch
<1>3. /\ Arriving = Arriving' \cup
           (IF last.phase = "prefill" /\ ~e.chunked THEN {e.uid} \ aborted ELSE {})
      /\ Stepping = Stepping' \cup (IF last.phase = "decode" /\ ~e.chunked THEN {e.uid} ELSE {})
  <2>1. NextIs(last, idx, aborted, last.reqs[idx + 1])
    BY <1>1, <1>2, NextRemains
  <2> QED BY <1>1, <2>1 DEF Arriving, Stepping, NextIs
<1>4. last.phase \in {"prefill", "decode"}
  BY <1>2 DEF Batch
<1>5. Skipped(e) => e.chunked \/ e.uid \in aborted
                      \/ (last.phase = "decode" /\ e.uid \notin Active)
  BY DEF Skipped, Active
<1> HIDE DEF e
<1>6. Arriving' = Arriving
  BY <1>1, <1>3, <1>4, <1>5
<1>7. Stepping' \subseteq Stepping /\ Stepping' \cap Active = Stepping \cap Active
  <2>1. aborted \cap Active = {}
    BY DEF LifeInv, Known, Places
  <2> QED BY <1>1, <1>3, <1>4, <1>5, <2>1
<1>8. /\ Launched' = Launched /\ Stepped' = Stepped /\ Active' = Active /\ Waiting' = Waiting
      /\ (OnceIn(last) <=> OnceIn(last)') /\ (OnceIn(batch) <=> OnceIn(batch)')
  BY <1>1 DEF Launched, Stepped, Active, Waiting, OnceIn
<1>9. Types'
  <2>1. idx' \in Nat /\ idx' <= Len(last.reqs)
    BY <1>1, <1>2
  <2>2. \A u \in live' : IsRequest(req[u])'
    BY <1>1 DEF LifeInv, Types, IsRequest
  <2> QED BY <1>1, <2>1, <2>2 DEF LifeInv, Types
<1>10. Once' /\ Places'
  BY <1>1, <1>6, <1>8 DEF LifeInv, Once, Places
<1>11. Known'
  BY <1>1, <1>6, <1>7, <1>8 DEF LifeInv, Known
<1>12. Phases'
  BY <1>1, <1>6, <1>8 DEF LifeInv, Phases
<1>13. Counts'
  <2>1. \A u : InputLen(u)' = InputLen(u) /\ MaxDeviceLen(u)' = MaxDeviceLen(u)
    BY DEF InputLen, MaxDeviceLen, OutputLen
  <2>2. \A u \in Active : StepsDue(u)' = StepsDue(u)
    BY <1>7, <1>8 DEF StepsDue
  <2> QED BY <1>1, <1>6, <1>8, <2>1, <2>2 DEF LifeInv, Counts
<1>14. Rows' /\ FinishedMeansComplete'
  BY <1>1 DEF LifeInv, Rows, FinishedMeansComplete
<1> QED BY <1>9, <1>10, <1>11, <1>12, <1>13, <1>14 DEF LifeInv

LEMMA EndProcessLife ==
    ASSUME LifeInv, EndProcess
    PROVE  LifeInv'
<1>1. /\ pc = "process" /\ pc' = "free" /\ last # NoReq /\ idx = Len(last.reqs)
      /\ inflight' = [inflight EXCEPT ![1] = {}] /\ finished' = newFin
      /\ UNCHANGED <<sent, ended, pend, inflPre, adder, running, req, live, gen, aborted,
                     last, batch, idx, newFin, freeRows>>
  BY DEF EndProcess, client, prefill, request
<1>2. inflight = <<inflight[1], inflight[2]>>
  BY DEF LifeInv, Types
<1>3. inflight' = <<{}, inflight[2]>>
  BY <1>1, <1>2
<1>4. inflight'[2] = inflight[2] /\ inflight' = <<inflight'[1], inflight'[2]>>
  BY <1>3
<1>5. /\ Arriving' = Arriving /\ Stepping' = Stepping /\ Active' = Active /\ Waiting' = Waiting
      /\ Launched' = Launched /\ Stepped' = Stepped
      /\ (OnceIn(last) <=> OnceIn(last)') /\ (OnceIn(batch) <=> OnceIn(batch)')
  BY <1>1, SameBatches DEF Active, Waiting
<1>6. Types'
  <2>1. \A u \in live' : IsRequest(req[u])'
    BY <1>1 DEF LifeInv, Types, IsRequest
  <2> QED BY <1>1, <1>4, <2>1 DEF LifeInv, Types
<1>7. Once' /\ Places'
  BY <1>1, <1>5 DEF LifeInv, Once, Places
<1>8. Known'
  BY <1>1, <1>4, <1>5 DEF LifeInv, Known
<1>9. Phases'
  BY <1>1, <1>5 DEF LifeInv, Phases
<1>10. Counts'
  BY <1>1, <1>5 DEF LifeInv, Counts, StepsDue, InputLen, MaxDeviceLen, OutputLen
<1>11. Rows' /\ FinishedMeansComplete'
  BY <1>1 DEF LifeInv, Rows, FinishedMeansComplete
<1> QED BY <1>6, <1>7, <1>8, <1>9, <1>10, <1>11 DEF LifeInv

LEMMA FreeFinishedLife ==
    ASSUME NoReqAssumption, LifeInv, NEW u \in Uid, FreeFinished(u)
    PROVE  LifeInv'
<1>1. /\ pc = "free" /\ u \in newFin /\ FreeReqResources(u, FALSE)
      /\ newFin' = newFin \ {u}
      /\ UNCHANGED <<pc, sent, ended, pend, inflPre, adder, running, inflight, finished, gen,
                     aborted, last, batch, idx>>
  BY DEF FreeFinished, client, prefill, decode
<1>2. u \in live
  BY <1>1 DEF LifeInv, Places
<1>3. live' = live \ {u} /\ req' = req /\ freeRows' \in Seq(Row) /\ Rows'
  BY <1>1, <1>2, FreedRows
<1>4. /\ Arriving' = Arriving /\ Stepping' = Stepping /\ Active' = Active /\ Waiting' = Waiting
      /\ Launched' = Launched /\ Stepped' = Stepped
      /\ (OnceIn(last) <=> OnceIn(last)') /\ (OnceIn(batch) <=> OnceIn(batch)')
  BY <1>1, SameBatches DEF Active, Waiting
<1>5. Types'
  <2>1. \A v \in live' : IsRequest(req[v])'
    BY <1>3 DEF LifeInv, Types, IsRequest
  <2> QED BY <1>1, <1>3, <2>1 DEF LifeInv, Types
<1>6. Once' /\ Places' /\ Known'
  <2>1. Once'
    BY <1>1, <1>4 DEF LifeInv, Once
  <2>2. Places'
    BY <1>1, <1>3, <1>4 DEF LifeInv, Places
  <2>3. Known'
    BY <1>1, <1>3, <1>4 DEF LifeInv, Known
  <2> QED BY <2>1, <2>2, <2>3
<1>7. Phases'
  BY <1>1, <1>3, <1>4 DEF LifeInv, Phases
<1>8. Counts'
  BY <1>1, <1>3, <1>4 DEF LifeInv, Counts, StepsDue, InputLen, MaxDeviceLen, OutputLen
<1>9. FinishedMeansComplete'
  BY <1>1 DEF LifeInv, FinishedMeansComplete
<1> QED BY <1>3, <1>5, <1>6, <1>7, <1>8, <1>9 DEF LifeInv

LEMMA NextIterationLife ==
    ASSUME NoReqAssumption, LifeInv, NextIteration
    PROVE  LifeInv'
<1>1. /\ (pc = "free" /\ newFin = {}) \/ (pc = "process" /\ last = NoReq)
      /\ pc' \in {"idle", "recv"} /\ last' = batch /\ batch' = NoReq /\ idx' = 0
      /\ UNCHANGED <<sent, ended, pend, inflPre, adder, running, inflight, finished, req,
                     live, gen, aborted, newFin, freeRows>>
  BY DEF NextIteration, client, prefill, decode, request, memory
<1>2. newFin = {} /\ Arriving = {} /\ Stepping = {}
  <2>1. CASE pc = "free" /\ newFin = {}
    <3>1. last \in Batch /\ idx = Len(last.reqs)
      BY <2>1 DEF LifeInv, Phases, Types
    <3> QED BY <2>1, <3>1, NoneRemainAtEnd DEF Arriving, Stepping
  <2>2. CASE last = NoReq
    BY <2>2, NoneRemain DEF Arriving, Stepping, LifeInv, Phases
  <2> QED BY <1>1, <2>1, <2>2
<1>3. Arriving' = Launched /\ Stepping' = Stepped /\ Launched' = {} /\ Stepped' = {}
      /\ Active' = Active /\ Waiting' = Waiting
  BY <1>1, NoneRemain DEF Arriving, Stepping, Launched, Stepped, Active, Waiting
<1>4. Types'
  <2>1. \A v \in live' : IsRequest(req[v])'
    BY <1>1 DEF LifeInv, Types, IsRequest
  <2>2. last' # NoReq => idx' <= Len(last'.reqs)
    BY <1>1, LenProperties DEF LifeInv, Types, Batch
  <2> QED BY <1>1, <2>1, <2>2 DEF LifeInv, Types
<1>5. Once'
  BY <1>1 DEF LifeInv, Once, OnceIn
<1>6. Places'
  BY <1>1, <1>2, <1>3 DEF LifeInv, Places
<1>7. Known'
  BY <1>1, <1>2, <1>3 DEF LifeInv, Known
<1>8. Phases'
  <2>1. inflPre \ Waiting = Launched
    BY <1>1 DEF LifeInv, Phases
  <2> QED BY <1>1, <1>2, <1>3, <2>1 DEF Phases
<1>9. Counts'
  <2>1. \A u : InputLen(u)' = InputLen(u) /\ MaxDeviceLen(u)' = MaxDeviceLen(u)
               /\ StepsDue(u)' = (IF u \in Stepped THEN 1 ELSE 0)
               /\ StepsDue(u) = (IF u \in Stepped THEN 1 ELSE 0)
    BY <1>2, <1>3 DEF InputLen, MaxDeviceLen, OutputLen, StepsDue
  <2>2. \A u : StepsDue(u)' = StepsDue(u)
    BY <2>1
  <2> QED BY <1>1, <1>2, <1>3, <2>1, <2>2 DEF LifeInv, Counts
<1>10. Rows' /\ FinishedMeansComplete'
  BY <1>1 DEF LifeInv, Rows, FinishedMeansComplete
<1> QED BY <1>4, <1>5, <1>6, <1>7, <1>8, <1>9, <1>10 DEF LifeInv

(* What reading a token of a request does, whatever comes of it. *)
ReadsOf(u, token) ==
    /\ u \in Uid /\ u \in live /\ u \notin ended /\ u \notin aborted /\ u \notin finished
    /\ \/ /\ last.phase = "prefill" /\ u \in Arriving /\ u \notin inflight[2]
          /\ Arriving' = Arriving \ {u} /\ Stepping = {} /\ Stepping' = {}
       \/ /\ last.phase = "decode" /\ u \in Active /\ u \in Stepping
          /\ Arriving' = Arriving /\ Stepping' = Stepping \ {u}
    /\ gen' = [gen EXCEPT ![u] = Append(@, token)]
    /\ req' = [v \in Uid |-> req'[v]]
    /\ \A v \in Uid : v # u => req'[v] = req[v]
    /\ IsRequest(req'[u]) /\ req'[u].row = req[u].row /\ req'[u].device = DeviceAfter(u)

LEMMA ProcessResultReads ==
    ASSUME NoReqAssumption, LifeInv, NEW token \in Token, ProcessResult(token),
           NEW u, u = Current.uid
    PROVE  ReadsOf(u, token)
<1> DEFINE e == last.reqs[idx + 1]
           d == DeviceAfter(u)
           grown == [req EXCEPT ![u].device = d, ![u].cached = d - 1]
<1>1. /\ pc = "process" /\ last # NoReq /\ idx < Len(last.reqs) /\ ~Skipped(e)
      /\ u = e.uid /\ idx' = idx + 1
      /\ gen' = [gen EXCEPT ![u] = Append(@, token)]
      /\ UNCHANGED <<last, aborted>>
      /\ req' = grown \/ \E key : req' = [grown EXCEPT ![u].handle = key]
  BY DEF ProcessResult, Processing, Current
<1>2. last \in Batch /\ idx \in Nat /\ Len(last.reqs) \in Nat /\ OnceIn(last)
  BY <1>1, LenProperties DEF LifeInv, Types, Batch, Once
<1>3. /\ e.uid \in Uid
      /\ Arriving = Arriving' \cup
           (IF last.phase = "prefill" /\ ~e.chunked THEN {e.uid} \ aborted ELSE {})
      /\ Stepping = Stepping' \cup (IF last.phase = "decode" /\ ~e.chunked THEN {e.uid} ELSE {})
      /\ e.uid \notin Arriving' \cup Stepping'
  <2>1. NextIs(last, idx, aborted, last.reqs[idx + 1])
    BY <1>1, <1>2, NextRemains
  <2> QED BY <1>1, <1>2, <2>1 DEF Arriving, Stepping, NextIs
<1>4. last.phase \in {"prefill", "decode"}
  BY <1>2 DEF Batch
<1>5. ~e.chunked /\ u \notin aborted /\ (last.phase = "decode" => u \in Active)
  BY <1>1 DEF Skipped, Active
<1> HIDE DEF e
<1>6. last.phase = "prefill" => /\ u \in Arriving /\ Arriving' = Arriving \ {u}
                                /\ Stepping = {} /\ Stepping' = {}
  <2>1. last.phase = "prefill" => Stepping = {} /\ Stepping' = {}
    BY <1>1 DEF Stepping, Decoding
  <2> QED BY <1>1, <1>3, <1>5, <2>1
<1>7. last.phase = "decode" => /\ u \in Active /\ u \in Stepping
                               /\ Arriving' = Arriving /\ Stepping' = Stepping \ {u}
  BY <1>1, <1>3, <1>4, <1>5
<1>8. u \in Uid /\ u \in live /\ u \notin ended /\ u \notin finished
  <2>1. u \in Arriving \cup Active
    BY <1>4, <1>6, <1>7
  <2> QED BY <1>1, <1>3, <2>1 DEF LifeInv, Places, Known
<1>9. u \in Arriving => u \notin inflight[2]
  BY DEF LifeInv, Known
<1>10. IsRequest(req[u]) /\ d \in Int /\ req = [v \in Uid |-> req[v]]
  <2>1. IsRequest(req[u]) /\ req = [v \in Uid |-> req[v]]
    BY <1>8 DEF LifeInv, Types
  <2>2. req[u].device \in Int
    BY <2>1 DEF IsRequest
  <2>3. DeviceAfter(u) \in Int
    BY <2>2 DEF DeviceAfter
  <2> QED BY <2>1, <2>3
<1> HIDE DEF d
<1>11. /\ DOMAIN grown = Uid /\ grown = [v \in Uid |-> grown[v]]
       /\ grown[u] = [req[u] EXCEPT !.device = d, !.cached = d - 1]
       /\ \A v \in Uid : v # u => grown[v] = req[v]
  <2>1. DOMAIN req = Uid
    BY <1>10
  <2> QED BY <1>8, <2>1
<1>12. /\ IsRequest(grown[u]) /\ grown[u].row = req[u].row /\ grown[u].device = d
  <2>1. PICK r, c : r = req[u] /\ c = d - 1
    OBVIOUS
  <2>2. PICK dd : dd = d
    OBVIOUS
  <2>3. IsRequest(r) /\ c \in Int /\ dd \in Int
    BY <1>10, <2>1, <2>2
  <2>4. LET q == [r EXCEPT !.device = dd, !.cached = c] IN
        IsRequest(q) /\ q.row = r.row /\ q.device = dd /\ q.handle = r.handle
    BY <2>3, Updated
  <2> HIDE DEF grown
  <2> QED BY <1>11, <2>1, <2>2, <2>4
<1> HIDE DEF grown
<1>13. /\ req' = [v \in Uid |-> req'[v]]
       /\ \A v \in Uid : v # u => req'[v] = req[v]
       /\ IsRequest(req'[u]) /\ req'[u].row = req[u].row /\ req'[u].device = d
  <2>1. CASE req' = grown
    BY <1>8, <1>11, <1>12, <2>1
  <2>2. CASE \E key : req' = [grown EXCEPT ![u].handle = key]
    <3>1. PICK key : req' = [grown EXCEPT ![u].handle = key]
      BY <2>2
    <3>2. req'[u] = [grown[u] EXCEPT !.handle = key]
      BY <1>8, <1>11, <3>1
    <3>3. IsRequest(req'[u]) /\ req'[u].row = grown[u].row /\ req'[u].device = grown[u].device
      <4>1. PICK r : r = grown[u]
        OBVIOUS
      <4> QED BY <1>12, <3>2, <4>1, Rehandled
    <3>4. req' = [v \in Uid |-> req'[v]] /\ \A v \in Uid : v # u => req'[v] = grown[v]
      BY <1>11, <3>1
    <3> QED BY <1>11, <1>12, <3>3, <3>4
  <2> QED BY <1>1, <2>1, <2>2
<1> QED BY <1>1, <1>4, <1>5, <1>6, <1>7, <1>8, <1>9, <1>13 DEF ReadsOf, d

(* Reading a token: how many the request has then. *)
LEMMA TokensRead ==
    ASSUME SizesAssumption, RequestsAssumption, LifeInv,
           NEW token \in Token, NEW u, ReadsOf(u, token)
    PROVE  /\ gen' \in [Uid -> Seq(Token)] /\ \A v \in Uid : v # u => gen'[v] = gen[v]
           /\ Len(gen'[u]) = Len(gen[u]) + 1 /\ gen'[u] # <<>> /\ Last(gen'[u]) = token
           /\ req'[u].device <= MaxDeviceLen(u)
           /\ last.phase = "prefill" => req'[u].device = InputLen(u) + Len(gen'[u])
           /\ last.phase = "decode" =>
                req'[u].device = InputLen(u) + Len(gen'[u]) + (IF u \in Stepped THEN 1 ELSE 0)
           /\ last.phase = "prefill" /\ ~IsFinished(u, token) => DeviceAfter(u) < MaxDeviceLen(u)
           /\ IsFinished(u, token) => \/ Len(gen'[u]) = OutputLen(u)
                                      \/ token = Eos /\ u \notin IgnoreEos
<1>1. u \in Uid /\ u \in live /\ gen \in [Uid -> Seq(Token)] /\ gen[u] \in Seq(Token)
      /\ gen' = [gen EXCEPT ![u] = Append(@, token)]
  BY DEF ReadsOf, LifeInv, Types
<1>2. gen'[u] = Append(gen[u], token) /\ \A v \in Uid : v # u => gen'[v] = gen[v]
  BY <1>1
<1>3. gen' \in [Uid -> Seq(Token)]
  <2>1. Append(gen[u], token) \in Seq(Token)
    BY <1>1
  <2> QED BY <1>1, <2>1
<1>4. PICK old : old = gen[u]
  OBVIOUS
<1>5. /\ Len(Append(old, token)) = Len(old) + 1 /\ Append(old, token) # <<>>
      /\ Last(Append(old, token)) = token /\ Len(old) \in Nat
  <2>1. old \in Seq(Token)
    BY <1>1, <1>4
  <2> QED BY <2>1, SMTT(30) DEF Last
<1>6. /\ Len(gen'[u]) = Len(gen[u]) + 1 /\ gen'[u] # <<>> /\ Last(gen'[u]) = token
      /\ Len(gen[u]) \in Nat
  BY <1>2, <1>4, <1>5
<1>7. InputLen(u) < MaxSeqLen /\ req[u].device <= MaxDeviceLen(u)
  BY <1>1 DEF LifeInv, Counts
<1>8. /\ InputLen(u) \in Nat /\ OutputLen(u) \in Nat /\ OutputLen(u) >= 1
      /\ MaxDeviceLen(u) = InputLen(u) + OutputLen(u)
  BY <1>1, <1>7, Lengths
<1>9. req[u].device \in Int /\ req'[u].device = DeviceAfter(u)
  BY <1>1 DEF LifeInv, Types, IsRequest, ReadsOf
<1> DEFINE n == Len(gen[u])
           m == Len(gen'[u])
           lead == IF u \in inflight[2] THEN 1 ELSE 0
           ahead == IF u \in Stepped THEN 1 ELSE 0
           done == MaxDeviceLen(u) - (DeviceAfter(u) - lead) <= 0
<1>10. IsFinished(u, token) <=> done \/ (token = Eos /\ u \notin IgnoreEos)
  BY DEF IsFinished
<1>11. lead \in {0, 1} /\ ahead \in {0, 1}
  OBVIOUS
<1>12. CASE last.phase = "prefill"
  <2>1. u \in Arriving /\ u \notin inflight[2]
    BY <1>12 DEF ReadsOf
  <2>2. req[u].device = InputLen(u) /\ gen[u] = <<>>
    BY <2>1 DEF LifeInv, Counts
  <2>3. n = 0 /\ lead = 0 /\ DeviceAfter(u) = req[u].device + 1
    BY <1>12, <2>1, <2>2 DEF DeviceAfter
  <2> HIDE DEF n, lead
  <2>4. DeviceAfter(u) = InputLen(u) + m /\ m = 1
    BY <1>6, <1>8, <2>2, <2>3 DEF n
  <2> HIDE DEF m
  <2>5. DeviceAfter(u) <= MaxDeviceLen(u)
    BY <1>8, <2>4
  <2>6. done => m = OutputLen(u)
    BY <1>8, <2>3, <2>4
  <2>7. ~done => DeviceAfter(u) < MaxDeviceLen(u)
    BY <1>8, <2>3, <2>4
  <2> HIDE DEF done
  <2> QED BY <1>2, <1>3, <1>6, <1>9, <1>10, <1>12, <2>4, <2>5, <2>6, <2>7 DEF m
<1>13. CASE last.phase = "decode"
  <2>1. u \in Active /\ u \in Stepping
    BY <1>13 DEF ReadsOf
  <2>2. req[u].device = InputLen(u) + n + StepsDue(u) /\ StepsDue(u) = 1 + ahead
    BY <2>1 DEF LifeInv, Counts, StepsDue
  <2>3. DeviceAfter(u) = req[u].device + 0
    BY <1>13 DEF DeviceAfter
  <2>4. ahead = 1 => lead = 1
    BY DEF LifeInv, Known
  <2> HIDE DEF lead, ahead, n, m
  <2>5. m = n + 1 /\ n \in Nat
    BY <1>6 DEF n, m
  <2>6. DeviceAfter(u) = req[u].device
    BY <1>9, <2>3
  <2>7. DeviceAfter(u) = InputLen(u) + m + ahead
    BY <1>8, <1>11, <2>2, <2>5, <2>6
  <2>8. DeviceAfter(u) <= MaxDeviceLen(u)
    BY <1>7, <2>6
  <2>9. done => m = OutputLen(u)
    BY <1>8, <1>11, <2>4, <2>5, <2>7, <2>8
  <2> HIDE DEF done
  <2> QED BY <1>2, <1>3, <1>6, <1>9, <1>10, <1>13, <2>7, <2>8, <2>9 DEF m, ahead
<1> QED BY <1>12, <1>13 DEF ReadsOf

(* The list of running requests after that. *)
LEMMA RunningAfter ==
    ASSUME SizesAssumption, RequestsAssumption, NoReqAssumption, LifeInv,
           NEW token \in Token, ProcessResult(token), NEW u, u = Current.uid
    PROVE  /\ running' \in Seq(Uid) /\ IsInjective(running')
           /\ ended' = IF IsFinished(u, token) THEN ended \cup {u} ELSE ended
           /\ newFin' = IF IsFinished(u, token) THEN newFin \cup {u} ELSE newFin
           /\ Active' = IF IsFinished(u, token) THEN Active \ {u} ELSE Active \cup {u}
<1>1. ReadsOf(u, token)
  BY ProcessResultReads
<1>2. u \in Uid /\ u \notin finished
  BY <1>1 DEF ReadsOf
<1>3. running \in Seq(Uid) /\ IsInjective(running) /\ Active = ToSet(running)
  BY DEF LifeInv, Types, Once, Active
<1> DEFINE fin == IsFinished(u, token)
           stays == ~fin /\ last.phase = "prefill"
<1>4. /\ ended' = IF fin THEN ended \cup {u} ELSE ended
      /\ newFin' = IF fin THEN newFin \cup {u} ELSE newFin
      /\ running' = IF fin THEN Kept(running, Uid \ {u})
                    ELSE IF stays /\ DeviceAfter(u) < MaxDeviceLen(u) THEN Append(running, u)
                    ELSE running
  BY <1>2 DEF ProcessResult
<1>5. last.phase = "prefill" /\ ~fin => DeviceAfter(u) < MaxDeviceLen(u)
  BY <1>1, TokensRead
<1> HIDE DEF fin
<1>6. CASE fin
  BY <1>3, <1>4, <1>6, WithoutOne DEF Active, fin
<1>7. CASE ~fin /\ last.phase = "prefill"
  <2>1. running' = Append(running, u)
    BY <1>4, <1>5, <1>7
  <2>2. u \notin Active
    <3>1. u \in Arriving
      BY <1>1, <1>7 DEF ReadsOf
    <3> QED BY <3>1 DEF LifeInv, Places
  <2>3. /\ Append(running, u) \in Seq(Uid) /\ IsInjective(Append(running, u))
        /\ ToSet(Append(running, u)) = ToSet(running) \cup {u}
    BY <1>2, <1>3, <2>2, AppendIs
  <2> QED BY <1>3, <1>4, <1>7, <2>1, <2>3 DEF Active, fin
<1>8. CASE ~fin /\ last.phase = "decode"
  <2>1. running' = running /\ u \in Active
    BY <1>1, <1>4, <1>8 DEF ReadsOf
  <2> QED BY <1>3, <1>4, <1>8, <2>1 DEF Active, fin
<1> QED BY <1>1, <1>6, <1>7, <1>8 DEF ReadsOf

LEMMA ProcessResultLife ==
    ASSUME SizesAssumption, RequestsAssumption, NoReqAssumption, LifeInv,
           NEW token \in Token, ProcessResult(token)
    PROVE  LifeInv'
<1>0. PICK u : u = Current.uid
  OBVIOUS
<1>1. /\ pc = "process" /\ last # NoReq /\ idx < Len(last.reqs) /\ idx' = idx + 1
      /\ UNCHANGED <<pc, sent, pend, inflPre, adder, inflight, finished, live, aborted,
                     last, batch, freeRows>>
  BY DEF ProcessResult, Processing, prefill
<1>2. ReadsOf(u, token)
  BY <1>0, ProcessResultReads
<1>3. /\ running' \in Seq(Uid) /\ IsInjective(running')
      /\ ended' = IF IsFinished(u, token) THEN ended \cup {u} ELSE ended
      /\ newFin' = IF IsFinished(u, token) THEN newFin \cup {u} ELSE newFin
      /\ Active' = IF IsFinished(u, token) THEN Active \ {u} ELSE Active \cup {u}
  BY <1>0, RunningAfter
<1>4. /\ gen' \in [Uid -> Seq(Token)] /\ \A v \in Uid : v # u => gen'[v] = gen[v]
      /\ gen'[u] # <<>> /\ Last(gen'[u]) = token
      /\ req'[u].device <= MaxDeviceLen(u)
      /\ last.phase = "prefill" => req'[u].device = InputLen(u) + Len(gen'[u])
      /\ last.phase = "decode" =>
           req'[u].device = InputLen(u) + Len(gen'[u]) + (IF u \in Stepped THEN 1 ELSE 0)
      /\ IsFinished(u, token) => \/ Len(gen'[u]) = OutputLen(u)
                                 \/ token = Eos /\ u \notin IgnoreEos
  BY <1>2, TokensRead
<1>5. /\ Launched' = Launched /\ Stepped' = Stepped /\ Waiting' = Waiting
      /\ (OnceIn(last) <=> OnceIn(last)') /\ (OnceIn(batch) <=> OnceIn(batch)')
  BY <1>1 DEF Launched, Stepped, Waiting, OnceIn
<1>6. /\ u \in Uid /\ u \in live /\ u \notin ended /\ u \notin aborted
      /\ Arriving' \subseteq Arriving /\ u \notin Arriving' /\ Arriving \subseteq Arriving' \cup {u}
      /\ u \in Arriving \cup Active
      /\ Stepping' \subseteq Stepping /\ Stepping \subseteq Stepping' \cup {u} /\ u \notin Stepping'
      /\ u \in Arriving => u \notin Stepped /\ last.phase = "prefill"
      /\ u \in Active => last.phase = "decode"
  <2>1. Active \cap Arriving = {} /\ Arriving \cap Stepped = {}
    BY DEF LifeInv, Places, Known
  <2> QED BY <1>2, <2>1 DEF ReadsOf
<1>7. /\ req' = [v \in Uid |-> req'[v]]
      /\ \A v \in Uid : v # u => req'[v] = req[v]
      /\ IsRequest(req'[u]) /\ req'[u].row = req[u].row
  BY <1>2 DEF ReadsOf
<1>8. live \subseteq Uid /\ Waiting \subseteq Uid /\ Launched \subseteq Uid
      /\ Arriving \subseteq Uid /\ Active \subseteq Uid
  BY SetTypes DEF LifeInv, Types
<1>9. Types'
  <2>1. idx' \in Nat /\ idx' <= Len(last.reqs)
    <3>1. last \in Batch /\ idx \in Nat
      BY <1>1 DEF LifeInv, Types
    <3>2. Len(last.reqs) \in Nat
      BY <3>1, LenProperties DEF Batch
    <3> QED BY <1>1, <3>1, <3>2
  <2>2. \A v \in live' : IsRequest(req[v])'
    <3> SUFFICES ASSUME NEW v \in live PROVE IsRequest(req'[v])
      BY <1>1 DEF IsRequest
    <3>1. CASE v = u
      BY <1>7, <3>1
    <3>2. CASE v # u
      BY <1>7, <1>8, <3>2 DEF LifeInv, Types
    <3> QED BY <3>1, <3>2
  <2> QED BY <1>1, <1>3, <1>4, <1>7, <2>1, <2>2 DEF LifeInv, Types
<1>10. Once'
  BY <1>1, <1>3, <1>5 DEF LifeInv, Once
<1> DEFINE fin == IsFinished(u, token)
<1> HIDE DEF fin
<1>11. /\ ended' = IF fin THEN ended \cup {u} ELSE ended
       /\ newFin' = IF fin THEN newFin \cup {u} ELSE newFin
       /\ Active' = IF fin THEN Active \ {u} ELSE Active \cup {u}
  BY <1>3 DEF fin
<1>12. u \notin Waiting \cup Launched \cup newFin
  BY <1>6 DEF LifeInv, Places
<1>13. Places'
  <2>1. /\ Waiting' \cap (Active' \cup newFin' \cup Arriving' \cup Launched') = {}
        /\ newFin' \cap (Arriving' \cup Launched') = {}
    BY <1>5, <1>6, <1>11, <1>12 DEF LifeInv, Places
  <2>2. /\ Active' \cap (newFin' \cup Arriving' \cup Launched') = {}
        /\ Arriving' \cap Launched' = {}
    BY <1>5, <1>6, <1>11, <1>12 DEF LifeInv, Places
  <2>3. /\ Active' \cup newFin' \cup Arriving' \cup Launched' \subseteq live'
        /\ live' \subseteq Waiting' \cup Active' \cup newFin' \cup Arriving' \cup Launched'
    BY <1>1, <1>5, <1>6, <1>11 DEF LifeInv, Places
  <2> QED BY <2>1, <2>2, <2>3 DEF Places
<1>14. Known'
  <2>1. /\ Waiting' \cup live' \subseteq sent' \ aborted' /\ aborted' \subseteq sent'
        /\ inflight'[2] \cup Stepping' \cup Stepped' \subseteq sent'
        /\ (inflight'[2] \cup Stepping' \cup Stepped')
               \cap (Waiting' \cup Arriving' \cup Launched') = {}
        /\ Stepped' # {} => inflight'[2] = Stepped'
    BY <1>1, <1>5, <1>6 DEF LifeInv, Known
  <2>2. ended' \cap (Waiting' \cup Active' \cup Arriving' \cup Launched') = {}
    BY <1>5, <1>6, <1>11, <1>12 DEF LifeInv, Known
  <2>3. finished' \subseteq ended' /\ newFin' \subseteq ended' /\ ended' \subseteq sent'
    BY <1>1, <1>6, <1>11 DEF LifeInv, Known
  <2> QED BY <2>1, <2>2, <2>3 DEF Known
<1>15. Phases'
  BY <1>1, <1>5 DEF LifeInv, Phases
<1>16. Counts'
  <2>1. \A v : InputLen(v)' = InputLen(v) /\ MaxDeviceLen(v)' = MaxDeviceLen(v)
    BY DEF InputLen, MaxDeviceLen, OutputLen
  <2>2. \A v \in Waiting' \cup live' : InputLen(v) < MaxSeqLen
    BY <1>1, <1>5 DEF LifeInv, Counts
  <2>3. \A v \in (Uid \ sent') \cup Waiting' \cup Arriving' \cup Launched' : gen'[v] = <<>>
    <3> SUFFICES ASSUME NEW v \in (Uid \ sent) \cup Waiting \cup Arriving' \cup Launched
                 PROVE  gen'[v] = <<>>
      BY <1>1, <1>5
    <3>1. v # u
      BY <1>6, <1>12 DEF LifeInv, Known
    <3>2. v \in Uid /\ gen[v] = <<>>
      BY <1>6, <1>8 DEF LifeInv, Counts
    <3> QED BY <1>4, <3>1, <3>2
  <2>4. \A v \in live' : req'[v].device <= MaxDeviceLen(v)
    BY <1>1, <1>4, <1>7, <1>8 DEF LifeInv, Counts
  <2>5. \A v \in live' \cap Waiting' : req'[v].device <= InputLen(v)
    BY <1>1, <1>5, <1>7, <1>8, <1>12 DEF LifeInv, Counts
  <2>6. \A v \in Arriving' \cup Launched' : req'[v].device = InputLen(v)
    BY <1>5, <1>6, <1>7, <1>8, <1>12 DEF LifeInv, Counts
  <2>7. \A v \in Active' : req'[v].device = InputLen(v) + Len(gen'[v]) + StepsDue(v)'
    <3> SUFFICES ASSUME NEW v \in Active'
                 PROVE  req'[v].device = InputLen(v) + Len(gen'[v]) + StepsDue(v)'
      OBVIOUS
    <3>1. CASE v = u
      <4>1. StepsDue(u)' = IF u \in Stepped THEN 1 ELSE 0
        BY <1>5, <1>6 DEF StepsDue
      <4>2. InputLen(u) < MaxSeqLen /\ Len(gen'[u]) \in Nat
        BY <1>4, <1>6, LenProperties DEF LifeInv, Counts
      <4>3. InputLen(u) \in Int
        BY <1>6, <4>2, Lengths
      <4>4. CASE u \in Arriving
        <5>1. StepsDue(u)' = 0 /\ req'[u].device = InputLen(u) + Len(gen'[u])
          BY <1>4, <1>6, <4>1, <4>4
        <5> QED BY <3>1, <4>2, <4>3, <5>1
      <4>5. CASE u \in Active
        BY <1>4, <1>6, <3>1, <4>1, <4>5
      <4> QED BY <1>6, <4>4, <4>5
    <3>2. CASE v # u
      <4>1. v \in Active /\ v \in Uid
        BY <1>8, <1>11, <3>2
      <4>2. StepsDue(v)' = StepsDue(v)
        BY <1>5, <1>6, <3>2 DEF StepsDue
      <4>3. req'[v] = req[v] /\ gen'[v] = gen[v]
        BY <1>4, <1>7, <3>2, <4>1
      <4> QED BY <4>1, <4>2, <4>3 DEF LifeInv, Counts
    <3> QED BY <3>1, <3>2
  <2> QED BY <2>1, <2>2, <2>3, <2>4, <2>5, <2>6, <2>7 DEF Counts
<1>17. Rows'
  <2>1. \A v \in live : req'[v].row = req[v].row
    BY <1>7, <1>8
  <2> QED BY <1>1, <2>1, SameRows
<1>18. FinishedMeansComplete'
  <2> SUFFICES ASSUME NEW v \in ended'
               PROVE  \/ Len(gen'[v]) = OutputLen(v)
                      \/ gen'[v] # <<>> /\ Last(gen'[v]) = Eos /\ v \notin IgnoreEos
    BY DEF FinishedMeansComplete, OutputLen, InputLen
  <2>1. CASE v = u
    <3>1. IsFinished(u, token)
      BY <1>3, <1>6, <2>1
    <3> QED BY <1>4, <2>1, <3>1
  <2>2. CASE v # u
    <3>1. v \in ended /\ v \in Uid
      BY <1>11, <2>2 DEF LifeInv, Known, Types
    <3>2. gen'[v] = gen[v]
      BY <1>4, <2>2, <3>1
    <3> QED BY <2>2, <3>1, <3>2 DEF LifeInv, FinishedMeansComplete
  <2> QED BY <2>1, <2>2
<1> QED BY <1>9, <1>10, <1>13, <1>14, <1>15, <1>16, <1>17, <1>18 DEF LifeInv
-----------------------------------------------------------------------------
(* Every step. *)

LEMMA StutterLife ==
    ASSUME LifeInv, UNCHANGED vars
    PROVE  LifeInv'
<1>1. UNCHANGED <<sent, ended, pend, inflPre, adder, running, inflight, finished, req, live,
                  gen, aborted, pc, last, batch, idx, newFin, freeRows>>
  BY DEF vars, client, prefill, decode, request, loop, memory
<1>2. /\ Arriving' = Arriving /\ Launched' = Launched /\ Stepping' = Stepping
      /\ Stepped' = Stepped /\ Active' = Active /\ Waiting' = Waiting
      /\ (OnceIn(last) <=> OnceIn(last)') /\ (OnceIn(batch) <=> OnceIn(batch)')
  BY <1>1, SameBatches DEF Active, Waiting
<1>3. Types' /\ Once'
  BY <1>1, <1>2 DEF LifeInv, Types, Once, IsRequest
<1>4. Places' /\ Known' /\ Phases'
  BY <1>1, <1>2 DEF LifeInv, Places, Known, Phases
<1>5. Counts'
  BY <1>1, <1>2 DEF LifeInv, Counts, StepsDue, MaxDeviceLen, InputLen, OutputLen
<1>6. Rows' /\ FinishedMeansComplete'
  BY <1>1 DEF LifeInv, Rows, FinishedMeansComplete
<1> QED BY <1>3, <1>4, <1>5, <1>6 DEF LifeInv

LEMMA NextLife ==
    ASSUME SizesAssumption, RequestsAssumption, NoReqAssumption, LifeInv, [Next]_vars
    PROVE  LifeInv'
<1>1. ASSUME NEW u \in Uid, RecvUser(u) PROVE LifeInv'
  BY <1>1, RecvUserLife
<1>2. ASSUME NEW u \in Uid, RecvAbort(u) PROVE LifeInv'
  BY <1>2, RecvAbortLife
<1>3. CASE StartSchedule
  BY <1>3, StartScheduleLife
<1>4. CASE AdmitChunk
  BY <1>4, AdmitChunkLife
<1>5. CASE AdmitNew
  BY <1>5, AdmitNewLife
<1>6. CASE LaunchPrefill
  BY <1>6, LaunchPrefillLife
<1>7. CASE LaunchDecode
  BY <1>7, LaunchDecodeLife
<1>8. CASE SkipResult
  BY <1>8, SkipResultLife
<1>9. ASSUME NEW token \in Token, ProcessResult(token) PROVE LifeInv'
  BY <1>9, ProcessResultLife
<1>10. CASE EndProcess
  BY <1>10, EndProcessLife
<1>11. ASSUME NEW u \in Uid, FreeFinished(u) PROVE LifeInv'
  BY <1>11, FreeFinishedLife
<1>12. CASE NextIteration
  BY <1>12, NextIterationLife
<1>13. CASE Blocked \/ UNCHANGED vars
  BY <1>13, StutterLife DEF Blocked
<1> QED
  BY <1>1, <1>2, <1>3, <1>4, <1>5, <1>6, <1>7, <1>8, <1>9, <1>10, <1>11, <1>12, <1>13
  DEF Next, Schedule, Process

(* The life of a request: in every reachable state it is in at most one of *)
(* the places that the managers and the two batches make up, has a row     *)
(* exactly while it is in one, and its counters say how many of its tokens *)
(* were launched and read.                                                 *)
THEOREM LifeFollows == Spec => []LifeInv
<1>1. Init => LifeInv
  BY InitLife, SizesAssumption, RequestsAssumption, NoReqAssumption
<1>2. LifeInv /\ [Next]_vars => LifeInv'
  BY NextLife, SizesAssumption, RequestsAssumption, NoReqAssumption
<1> QED BY <1>1, <1>2, PTL DEF Spec

(* FinishedMeansComplete: a request whose finished reply was sent has all  *)
(* the tokens it asked for or ended with Eos, although its next step may   *)
(* have been launched before that token was read.                          *)
THEOREM FinishedAlwaysComplete == Spec => []FinishedMeansComplete
<1>1. LifeInv => FinishedMeansComplete
  BY DEF LifeInv
<1> QED BY <1>1, LifeFollows, PTL

(* RowsConserved: a row of the page table is free once or belongs to one   *)
(* live request, whatever the order of admission, finish and abort.        *)
THEOREM RowsAlwaysConserved == Spec => []RowsConserved
<1>1. ASSUME LifeInv PROVE RowsConserved
  <2> SUFFICES ASSUME NEW r \in Row
               PROVE  Occurrences(freeRows, r) + Cardinality({u \in live : req[u].row = r}) = 1
    BY DEF RowsConserved
  <2>1. Rows
    BY <1>1 DEF LifeInv
  <2> DEFINE at   == {i \in DOMAIN freeRows : freeRows[i] = r}
             mine == {u \in live : req[u].row = r}
  <2>2. CASE r \in ToSet(freeRows)
    <3>1. PICK i \in DOMAIN freeRows : freeRows[i] = r
      BY <2>2 DEF ToSet
    <3>2. at = {i} /\ mine = {}
      BY <2>1, <2>2, <3>1 DEF Rows, IsInjective
    <3> HIDE DEF at, mine
    <3>3. Cardinality(at) = 1 /\ Cardinality(mine) = 0
      BY <3>2, FS_Singleton, FS_EmptySet
    <3> QED BY <3>3 DEF Occurrences, at, mine
  <2>3. CASE r \notin ToSet(freeRows)
    <3>1. PICK u \in live : req[u].row = r
      BY <2>1, <2>3 DEF Rows
    <3>2. at = {} /\ mine = {u}
      BY <2>1, <2>3, <3>1 DEF Rows, ToSet
    <3> HIDE DEF at, mine
    <3>3. Cardinality(at) = 0 /\ Cardinality(mine) = 1
      BY <3>2, FS_Singleton, FS_EmptySet
    <3> QED BY <3>3 DEF Occurrences, at, mine
  <2> QED BY <2>2, <2>3
<1> QED BY <1>1, LifeFollows, PTL

(* SilentAfterEnd: nothing is replied to a request after its finished      *)
(* reply or its abort; a result in flight for it is dropped when read.     *)
LEMMA SilentStep ==
    ASSUME NoReqAssumption, LifeInv, [Next]_vars
    PROVE  \A u \in ended \cup aborted : gen'[u] = gen[u]
<1>1. ASSUME NEW token \in Token, ProcessResult(token)
      PROVE  \A u \in ended \cup aborted : gen'[u] = gen[u]
  <2>1. PICK u : u = Current.uid
    OBVIOUS
  <2>2. ReadsOf(u, token)
    BY <1>1, <2>1, ProcessResultReads
  <2>3. u \notin ended \cup aborted /\ gen' = [gen EXCEPT ![u] = Append(@, token)]
    BY <2>2 DEF ReadsOf
  <2>4. ended \cup aborted \subseteq Uid /\ DOMAIN gen = Uid
    BY DEF LifeInv, Types, Known
  <2> QED BY <2>3, <2>4
<1>2. ASSUME NEW u \in Uid, RecvUser(u) \/ RecvAbort(u) \/ FreeFinished(u)
      PROVE  gen' = gen
  BY <1>2 DEF RecvUser, RecvAbort, FreeFinished, request
<1>3. CASE StartSchedule \/ AdmitChunk \/ AdmitNew
  BY <1>3 DEF StartSchedule, AdmitChunk, AdmitNew, request
<1>4. CASE LaunchPrefill \/ LaunchDecode
  BY <1>4 DEF LaunchPrefill, LaunchDecode
<1>5. CASE SkipResult \/ EndProcess \/ NextIteration
  BY <1>5 DEF SkipResult, EndProcess, NextIteration, request
<1>6. CASE Blocked \/ UNCHANGED vars
  BY <1>6 DEF Blocked, vars, request
<1> QED
  BY <1>1, <1>2, <1>3, <1>4, <1>5, <1>6 DEF Next, Schedule, Process

THEOREM SilentAlways == Spec => SilentAfterEnd
<1>1. LifeInv /\ [Next]_vars => [\A u \in ended \cup aborted : gen'[u] = gen[u]]_vars
  BY SilentStep, NoReqAssumption
<1> QED BY <1>1, LifeFollows, PTL DEF Spec, SilentAfterEnd
-----------------------------------------------------------------------------
(* Locks *)

(* The handle of every live request is cached, and the reference counts    *)
(* are the live requests that hold them.                                    *)
Locks == Held(live, req, cached, ref)

(* A finished or aborted request gives its lock back. *)
LEMMA FreeLocks ==
    ASSUME Locks, NEW u \in live, NEW isInflight, FreeReqResources(u, isInflight)
    PROVE  Locks'
<1> PICK L, q, c, r, key, pages :
       /\ L = live /\ q = req /\ c = cached /\ r = ref /\ key = InsertKey(u)
       /\ pages = PagesOfRow(req[u].row, 0, Len(key))
  OBVIOUS
<1>1. /\ live' = live \ {u} /\ req' = req
      /\ cached' = InsertPages(c, key, pages)
      /\ ref' = UnlockRefs(InsertRefs(c, r, key), q[u].handle)
  BY DEF FreeReqResources, CacheReq
<1>2. Held(L, q, c, r) /\ u \in L
  BY DEF Locks
<1> PICK d, s : d = InsertPages(c, key, pages) /\ s = InsertRefs(c, r, key)
  OBVIOUS
<1>3. Held(L, q, d, s)
  BY <1>2, InsertHeld
<1>4. Held(L \ {u}, q, d, UnlockRefs(s, q[u].handle))
  BY <1>2, <1>3, UnlockHeld
<1> QED BY <1>1, <1>4 DEF Locks

LEMMA AllocateLocks ==
    ASSUME Locks, NEW us, AllocatePaged(us), live' = live,
           \A u \in live : req'[u].handle = req[u].handle
    PROVE  Locks'
<1> PICK L, q, p, c, r : L = live /\ q = req /\ p = req' /\ c = cached /\ r = ref
  OBVIOUS
<1>1. PICK S \in SUBSET Evictable(r) : cached' = Without(c, S) /\ ref' = Without(r, S)
  BY DEF AllocatePaged
<1>2. Held(L, q, c, r) /\ \A u \in L : p[u].handle = q[u].handle
  BY DEF Locks
<1>3. Held(L, q, Without(c, S), Without(r, S))
  BY <1>2, EvictHeld
<1> PICK d, s : d = Without(c, S) /\ s = Without(r, S)
  OBVIOUS
<1>4. Held(L, p, d, s)
  BY <1>2, <1>3, SameHandles
<1> QED BY <1>1, <1>4 DEF Locks

LEMMA AbortLocks ==
    ASSUME LifeInv, Locks, NEW u \in Uid, RecvAbort(u)
    PROVE  Locks'
<1>1. pc \in {"idle", "recv"}
  BY DEF RecvAbort, Receive
<1>2. CASE UNCHANGED <<req, live, memory>>
  BY <1>2 DEF Locks, memory
<1>3. ASSUME u \in live, NEW isInflight, FreeReqResources(u, isInflight) PROVE Locks'
  BY <1>3, FreeLocks
<1>4. CASE AbortPending(u)
  BY <1>2, <1>3, <1>4 DEF AbortPending
<1>5. CASE AbortPrefilled(u)
  <2>1. u \in inflPre /\ u \notin Waiting /\ FreeReqResources(u, TRUE)
    BY <1>5 DEF AbortPrefilled, Waiting
  <2>2. u \in live
    BY <1>1, <2>1 DEF LifeInv, Phases, Places
  <2> QED BY <1>3, <2>1, <2>2
<1>6. CASE AbortRunning(u)
  <2>1. CASE u \in Active
    <3>1. FreeReqResources(u, u \in inflight[2])
      BY <1>6, <2>1 DEF AbortRunning, Active
    <3>2. u \in live
      BY <2>1 DEF LifeInv, Places
    <3> QED BY <1>3, <3>1, <3>2
  <2>2. CASE u \notin Active
    BY <1>2, <1>6, <2>2 DEF AbortRunning, Active
  <2> QED BY <2>1, <2>2
<1> QED BY <1>4, <1>5, <1>6 DEF RecvAbort

(* The next chunk of a request goes on under the lock it has. *)
LEMMA AdmitChunkLocks ==
    ASSUME SizesAssumption, RequestsAssumption, LifeInv, Locks, AdmitChunk
    PROVE  Locks'
<1> PICK u : u = pend[adder.n + 1]
  OBVIOUS
<1> PICK row, handle, from : row = req[u].row /\ handle = req[u].handle /\ from = req[u].cached
  OBVIOUS
<1>1. /\ pc = "admit" /\ adder.n < Len(pend) /\ u \in live
      /\ AddOne(u, row, handle, from) /\ UNCHANGED <<cached, ref>>
  BY DEF AdmitChunk, IsChunk, memory
<1>2. row \in Row
  BY <1>1 DEF LifeInv, Types, IsRequest
<1>3. from \in Int
  BY <1>1 DEF LifeInv, Types, IsRequest
<1>4. /\ \A v \in Uid : v # u => req'[v] = req[v]
      /\ req'[u].handle = handle /\ live' = live \cup {u}
  BY <1>1, <1>2, <1>3, AddOneDoes, SMTT(30)
<1>5. live' = live /\ \A v \in live : req'[v].handle = req[v].handle
  <2>1. live \subseteq Uid
    BY DEF LifeInv, Types
  <2> QED BY <1>1, <1>4, <2>1
<1> PICK L, q, p, c, r : L = live /\ q = req /\ p = req' /\ c = cached /\ r = ref
  OBVIOUS
<1>6. Held(L, q, c, r) /\ \A v \in L : p[v].handle = q[v].handle
  BY <1>5 DEF Locks
<1>7. Held(L, p, c, r)
  BY <1>6, SameHandles
<1> QED BY <1>1, <1>5, <1>7 DEF Locks

(* A new request locks what it matched. *)
LEMMA AdmitNewLocks ==
    ASSUME SizesAssumption, RequestsAssumption, LifeInv, Locks, AdmitNew
    PROVE  Locks'
<1> PICK u : u = pend[adder.n + 1]
  OBVIOUS
<1> PICK key, row : key = MatchKey(u) /\ row = Last(freeRows)
  OBVIOUS
<1> PICK from : from = Len(key) * PageSize
  OBVIOUS
<1>1. /\ pc = "admit" /\ adder.n < Len(pend) /\ u \notin Waiting \cap live
      /\ freeRows # <<>> /\ AddOne(u, row, key, from)
      /\ cached' = cached /\ ref' = LockRefs(ref, key)
  BY DEF AdmitNew, CanAdmit, IsChunk, Waiting
<1>2. row \in Row
  <2>1. freeRows \in Seq(Row) /\ IsInjective(freeRows)
    BY DEF LifeInv, Types, Rows
  <2>2. row \in ToSet(freeRows)
    BY <1>1, <2>1, PopIs
  <2> QED BY <2>1, <2>2 DEF ToSet
<1>3. u \in Uid
  <2>1. Len(pend) \in Nat /\ adder.n \in Nat
    BY LenProperties DEF LifeInv, Types
  <2>2. adder.n + 1 \in 1 .. Len(pend)
    BY <1>1, <2>1
  <2> QED BY <2>2, ElementOfSeq DEF LifeInv, Types
<1>4. from \in Int
  BY <1>3, MatchKeyIs
<1>5. PrefixesOf(key) \subseteq DOMAIN cached
  BY <1>3, MatchKeyIs
<1>6. /\ \A v \in Uid : v # u => req'[v] = req[v]
      /\ u \in Waiting /\ req'[u].handle = key /\ live' = live \cup {u}
  BY <1>1, <1>2, <1>4, AddOneDoes
<1>7. u \notin live /\ \A v \in live : req'[v].handle = req[v].handle
  <2>1. live \subseteq Uid
    BY DEF LifeInv, Types
  <2> QED BY <1>1, <1>6, <2>1
<1>8. PICK L, q, p, c, r : L = live /\ q = req /\ p = req' /\ c = cached /\ r = ref
  OBVIOUS
<1>9. /\ Held(L, q, c, r) /\ u \notin L /\ p[u].handle = key
      /\ \A v \in L : p[v].handle = q[v].handle
      /\ PrefixesOf(key) \subseteq DOMAIN r
  BY <1>5, <1>6, <1>7, <1>8 DEF Locks, Held
<1>10. Held(L \cup {u}, p, c, LockRefs(r, key))
  BY <1>9, LockHeld, ZenonT(40)
<1> QED BY <1>1, <1>6, <1>8, <1>10 DEF Locks

LEMMA LaunchPrefillLocks ==
    ASSUME LifeInv, Locks, LaunchPrefill
    PROVE  Locks'
<1> PICK us : us = SubSeq(pend, 1, adder.n)
  OBVIOUS
<1>1. /\ AllocatePaged(us) /\ live' = live
      /\ req' = [u \in Uid |->
                   IF u \in ToSet(us) THEN [req[u] EXCEPT !.cached = req[u].device] ELSE req[u]]
  BY DEF LaunchPrefill
<1>2. ASSUME NEW u \in live PROVE req'[u].handle = req[u].handle
  <2>1. u \in Uid /\ IsRequest(req[u])
    BY DEF LifeInv, Types
  <2>2. PICK r, d : r = req[u] /\ d = req[u].device
    OBVIOUS
  <2>3. IsRequest(r) /\ d \in Int
    BY <2>1, <2>2 DEF IsRequest
  <2>4. [r EXCEPT !.cached = d].handle = r.handle
    BY <2>3, Advanced
  <2> QED BY <1>1, <2>1, <2>2, <2>4
<1> QED BY <1>1, <1>2, AllocateLocks

LEMMA LaunchDecodeLocks ==
    ASSUME LifeInv, Locks, LaunchDecode
    PROVE  Locks'
<1> PICK us : us = DecodeBatch
  OBVIOUS
<1>1. CASE us = <<>>
  BY <1>1 DEF LaunchDecode, memory, Locks
<1>2. CASE us # <<>>
  <2>1. /\ AllocatePaged(us) /\ live' = live
        /\ req' = [u \in Uid |->
                     IF u \in ToSet(us)
                     THEN [req[u] EXCEPT !.device = @ + 1, !.cached = req[u].device]
                     ELSE req[u]]
    BY <1>2 DEF LaunchDecode
  <2>2. ASSUME NEW u \in live PROVE req'[u].handle = req[u].handle
    <3>1. u \in Uid /\ IsRequest(req[u])
      BY DEF LifeInv, Types
    <3>2. PICK r, c, d : r = req[u] /\ c = req[u].device /\ d = req[u].device + 1
      OBVIOUS
    <3>3. IsRequest(r) /\ c \in Int /\ d \in Int
      BY <3>1, <3>2 DEF IsRequest
    <3>4. [r EXCEPT !.device = d, !.cached = c].handle = r.handle
      BY <3>3, Updated
    <3>5. u \in ToSet(us) => req'[u] = [r EXCEPT !.device = d, !.cached = c]
      BY <2>1, <3>1, <3>2
    <3> QED BY <2>1, <3>1, <3>2, <3>4, <3>5
  <2> QED BY <2>1, <2>2, AllocateLocks
<1> QED BY <1>1, <1>2

(* The handle of the request whose token is read: after prefill, if it is  *)
(* not finished, the prompt it just inserted, and the old one otherwise.    *)
LEMMA HandleAfter ==
    ASSUME NoReqAssumption, LifeInv, NEW token \in Token, ProcessResult(token),
           NEW u, u = Current.uid
    PROVE  LET stays == ~(IsFinished(u, token) /\ u \notin finished) /\ last.phase = "prefill"
           IN  /\ u \in live
               /\ \A v \in live : v # u => req'[v].handle = req[v].handle
               /\ stays => CacheReq(u, FALSE) /\ req'[u].handle = InsertKey(u)
               /\ ~stays => UNCHANGED <<cached, ref>> /\ req'[u].handle = req[u].handle
<1> DEFINE stays == ~(IsFinished(u, token) /\ u \notin finished) /\ last.phase = "prefill"
           d == DeviceAfter(u)
           grown == [req EXCEPT ![u].device = d, ![u].cached = d - 1]
<1>1. /\ u \in live /\ u \in Uid
      /\ \A v \in Uid : v # u => req'[v] = req[v]
  <2>1. ReadsOf(u, token)
    BY ProcessResultReads
  <2> QED BY <2>1 DEF ReadsOf
<1>2. \A v \in live : v # u => req'[v].handle = req[v].handle
  BY <1>1 DEF LifeInv, Types
<1>3. /\ stays => CacheReq(u, FALSE) /\ req' = [grown EXCEPT ![u].handle = InsertKey(u)]
      /\ ~stays => UNCHANGED <<cached, ref>> /\ req' = grown
  BY DEF ProcessResult
<1> HIDE DEF stays
<1>4. IsRequest(req[u]) /\ DOMAIN req = Uid
  BY <1>1 DEF LifeInv, Types
<1>5. d \in Int
  <2>1. req[u].device \in Int
    BY <1>4 DEF IsRequest
  <2> QED BY <2>1 DEF DeviceAfter
<1> HIDE DEF d
<1>6. /\ DOMAIN grown = Uid
      /\ grown[u] = [req[u] EXCEPT !.device = d, !.cached = d - 1]
  BY <1>1, <1>4
<1> HIDE DEF grown
<1>7. IsRequest(grown[u]) /\ grown[u].handle = req[u].handle
  <2>1. PICK r, c, e : r = req[u] /\ c = d - 1 /\ e = d
    OBVIOUS
  <2>2. IsRequest(r) /\ c \in Int /\ e \in Int
    BY <1>4, <1>5, <2>1
  <2>3. LET q == [r EXCEPT !.device = e, !.cached = c] IN
        IsRequest(q) /\ q.row = r.row /\ q.device = e /\ q.handle = r.handle
    BY <2>2, Updated
  <2> QED BY <1>6, <2>1, <2>3
<1>8. ASSUME NEW key, req' = [grown EXCEPT ![u].handle = key] PROVE req'[u].handle = key
  <2>1. req'[u] = [grown[u] EXCEPT !.handle = key]
    BY <1>1, <1>6, <1>8
  <2>2. "handle" \in DOMAIN grown[u]
    <3>1. grown[u] = [row |-> grown[u].row, cached |-> grown[u].cached,
                      device |-> grown[u].device, handle |-> grown[u].handle]
      BY <1>7 DEF IsRequest
    <3> QED BY <3>1
  <2> QED BY <2>1, <2>2
<1> QED BY <1>1, <1>2, <1>3, <1>7, <1>8 DEF stays

(* After prefill the lock of what was matched at admission becomes a lock  *)
(* of what was inserted.                                                   *)
LEMMA ProcessResultLocks ==
    ASSUME NoReqAssumption, LifeInv, Locks, NEW token \in Token, ProcessResult(token)
    PROVE  Locks'
<1> PICK u : u = Current.uid
  OBVIOUS
<1> DEFINE stays == ~(IsFinished(u, token) /\ u \notin finished) /\ last.phase = "prefill"
<1>1. /\ u \in live
      /\ \A v \in live : v # u => req'[v].handle = req[v].handle
      /\ stays => CacheReq(u, FALSE) /\ req'[u].handle = InsertKey(u)
      /\ ~stays => UNCHANGED <<cached, ref>> /\ req'[u].handle = req[u].handle
  BY HandleAfter
<1>2. live' = live
  BY DEF ProcessResult
<1> HIDE DEF stays
<1> PICK L, q, p, c, r, key, pages :
       /\ L = live /\ q = req /\ p = req' /\ c = cached /\ r = ref /\ key = InsertKey(u)
       /\ pages = PagesOfRow(req[u].row, 0, Len(key))
  OBVIOUS
<1>3. Held(L, q, c, r) /\ u \in L /\ \A v \in L : v # u => p[v].handle = q[v].handle
  BY <1>1 DEF Locks
<1>4. CASE stays
  <2>1. /\ cached' = InsertPages(c, key, pages)
        /\ ref' = LockRefs(UnlockRefs(InsertRefs(c, r, key), q[u].handle), key)
        /\ p[u].handle = key
    BY <1>1, <1>4 DEF CacheReq
  <2>2. Held(L, p, InsertPages(c, key, pages),
             LockRefs(UnlockRefs(InsertRefs(c, r, key), q[u].handle), key))
    BY <1>3, <2>1, RelockHeld
  <2> QED BY <1>2, <2>1, <2>2 DEF Locks
<1>5. CASE ~stays
  <2>1. \A v \in L : p[v].handle = q[v].handle
    BY <1>1, <1>5
  <2>2. Held(L, p, c, r)
    BY <1>3, <2>1, SameHandles
  <2> QED BY <1>1, <1>2, <1>5, <2>2 DEF Locks
<1> QED BY <1>4, <1>5

LEMMA InitLocks ==
    ASSUME Init
    PROVE  Locks
<1>1. /\ live = {} /\ cached = [k \in {} |-> 0] /\ ref = [k \in {} |-> 0]
  BY DEF Init
<1> QED BY <1>1, FS_EmptySet DEF Locks, Held

LEMMA NextLocks ==
    ASSUME SizesAssumption, RequestsAssumption, NoReqAssumption, LifeInv, Locks, [Next]_vars
    PROVE  Locks'
<1>1. CASE UNCHANGED <<req, live, memory>>
  BY <1>1 DEF Locks, memory
<1>2. ASSUME NEW u \in Uid, RecvUser(u) PROVE Locks'
  BY <1>1, <1>2 DEF RecvUser, request
<1>3. ASSUME NEW u \in Uid, RecvAbort(u) PROVE Locks'
  BY <1>3, AbortLocks
<1>4. CASE AdmitChunk
  BY <1>4, AdmitChunkLocks
<1>5. CASE AdmitNew
  BY <1>5, AdmitNewLocks
<1>6. CASE LaunchPrefill
  BY <1>6, LaunchPrefillLocks
<1>7. CASE LaunchDecode
  BY <1>7, LaunchDecodeLocks
<1>8. ASSUME NEW token \in Token, ProcessResult(token) PROVE Locks'
  BY <1>8, ProcessResultLocks
<1>9. ASSUME NEW u \in Uid, FreeFinished(u) PROVE Locks'
  <2>1. u \in live /\ FreeReqResources(u, FALSE)
    BY <1>9 DEF FreeFinished, LifeInv, Places
  <2> QED BY <2>1, FreeLocks
<1>10. CASE StartSchedule \/ SkipResult \/ NextIteration \/ Blocked \/ UNCHANGED vars
  BY <1>1, <1>10 DEF StartSchedule, SkipResult, NextIteration, Blocked, vars, request, memory
<1>11. CASE EndProcess
  BY <1>11 DEF EndProcess, request, Locks
<1> QED
  BY <1>2, <1>3, <1>4, <1>5, <1>6, <1>7, <1>8, <1>9, <1>10, <1>11 DEF Next, Schedule, Process

THEOREM LocksFollow == Spec => [](LifeInv /\ Locks)
<1>1. Init => LifeInv /\ Locks
  BY InitLife, InitLocks, SizesAssumption, RequestsAssumption, NoReqAssumption
<1>2. LifeInv /\ Locks /\ [Next]_vars => (LifeInv /\ Locks)'
  BY NextLife, NextLocks, SizesAssumption, RequestsAssumption, NoReqAssumption
<1> QED BY <1>1, <1>2, PTL DEF Spec

(* LocksMatchRequests: a cached prefix is referenced exactly as often as   *)
(* live requests hold it, over any order of admission, insertion, eviction,*)
(* finish and abort.                                                       *)
THEOREM LocksAlwaysMatch == Spec => []LocksMatchRequests
<1>1. Locks => LocksMatchRequests
  BY DEF Locks, Held, HeldBy, LocksMatchRequests
<1> QED BY <1>1, LocksFollow, PTL

LEMMA HeldPrefixes ==
    ASSUME Locks, NEW u \in live, NEW k \in PrefixesOf(req[u].handle)
    PROVE  k \in DOMAIN cached /\ ref[k] > 0
<1>1. PICK H : H = HeldBy(live, req, k)
  OBVIOUS
<1>2. k \in DOMAIN ref /\ k \in DOMAIN cached /\ ref[k] = Cardinality(H) /\ IsFiniteSet(live)
  BY <1>1 DEF Locks, Held
<1>3. IsFiniteSet(H) /\ Cardinality(H) \in Nat
  BY <1>1, <1>2, HeldNat
<1>4. u \in H
  BY <1>1 DEF HeldBy
<1>5. Cardinality(H) # 0
  BY <1>3, <1>4, FS_EmptySet
<1> QED BY <1>2, <1>3, <1>5

(* What a live request holds is in the cache, and no eviction can take it: *)
(* the parts of RowReadsCache that two equal requests in flight leave true.*)
HeldPrefixesStay ==
    \A u \in live : \A k \in PrefixesOf(req[u].handle) : k \in DOMAIN cached /\ ref[k] > 0

THEOREM HeldPrefixesAlwaysStay == Spec => []HeldPrefixesStay
<1>1. Locks => HeldPrefixesStay
  BY HeldPrefixes DEF HeldPrefixesStay
<1> QED BY <1>1, LocksFollow, PTL
-----------------------------------------------------------------------------
(* Blocking.                                                                *)

IdleMeansEmpty ==
    pc = "idle" => last = NoReq /\ pend = <<>> /\ running = <<>>

LEMMA NextIdle ==
    ASSUME IdleMeansEmpty, [Next]_vars
    PROVE  IdleMeansEmpty'
<1>1. CASE NextIteration
  BY <1>1 DEF NextIteration, prefill, decode, IdleMeansEmpty
<1>2. CASE Blocked \/ UNCHANGED vars
  BY <1>2 DEF Blocked, vars, loop, prefill, decode, IdleMeansEmpty
<1>3. ASSUME NEW u \in Uid, RecvUser(u) \/ RecvAbort(u) \/ FreeFinished(u)
      PROVE  pc' # "idle"
  BY <1>3 DEF RecvUser, RecvAbort, FreeFinished, Receive
<1>4. CASE StartSchedule \/ AdmitChunk \/ AdmitNew \/ LaunchPrefill \/ LaunchDecode
  BY <1>4 DEF StartSchedule, AdmitChunk, AdmitNew, LaunchPrefill, LaunchDecode, loop,
              IdleMeansEmpty
<1>5. ASSUME NEW token \in Token, ProcessResult(token) PROVE pc' # "idle"
  BY <1>5 DEF ProcessResult, Processing
<1>6. CASE SkipResult \/ EndProcess
  BY <1>6 DEF SkipResult, EndProcess, Processing, IdleMeansEmpty
<1> QED
  BY <1>1, <1>2, <1>3, <1>4, <1>5, <1>6 DEF Next, Schedule, Process, IdleMeansEmpty

(* The integrity check before the loop blocks, but for the pages: nothing  *)
(* is live, every row is free and no lock is left behind.                  *)
NothingHeldWhenIdle ==
    pc = "idle" => /\ live = {}
                   /\ Len(freeRows) = NumRows
                   /\ \A k \in DOMAIN ref : ref[k] = 0

LEMMA AllRowsFree ==
    ASSUME SizesAssumption, NEW s \in Seq(Row), IsInjective(s), \A r \in Row : r \in ToSet(s)
    PROVE  Len(s) = NumRows
<1>1. Len(s) \in Nat /\ DOMAIN s = 1 .. Len(s) /\ s \in [1 .. Len(s) -> Row]
  BY LenProperties
<1>2. s \in Bijection(1 .. Len(s), Row)
  BY <1>1 DEF Bijection, Injection, Surjection, IsInjective, ToSet
<1>3. IsFiniteSet(1 .. Len(s)) /\ Cardinality(1 .. Len(s)) = Len(s)
  <2> PICK n : n = Len(s)
    OBVIOUS
  <2>1. n \in Nat /\ n \in Int /\ 1 \in Int
    BY <1>1
  <2>2. /\ IsFiniteSet(1 .. n)
        /\ Cardinality(1 .. n) = IF 1 > n THEN 0 ELSE n - 1 + 1
    BY <2>1, FS_Interval
  <2>3. Cardinality(1 .. n) = n
    BY <2>1, <2>2
  <2> QED BY <2>2, <2>3
<1>4. Cardinality(Row) = NumRows
  <2>1. NumRows \in Nat \ {0}
    BY DEF SizesAssumption
  <2>2. Cardinality(0 .. NumRows - 1) = IF 0 > NumRows - 1 THEN 0 ELSE NumRows - 1 - 0 + 1
    BY <2>1, FS_Interval
  <2> QED BY <2>1, <2>2 DEF Row
<1>5. Cardinality(1 .. Len(s)) = Cardinality(Row)
  BY <1>2, <1>3, FS_Bijection DEF ExistsBijection
<1> QED BY <1>3, <1>4, <1>5

THEOREM IdleAlwaysHoldsNothing == Spec => []NothingHeldWhenIdle
<1>1. Init => IdleMeansEmpty
  BY DEF Init, IdleMeansEmpty
<1>2. IdleMeansEmpty /\ [Next]_vars => IdleMeansEmpty'
  BY NextIdle
<1>3. ASSUME LifeInv, Locks, IdleMeansEmpty, pc = "idle"
      PROVE  live = {} /\ Len(freeRows) = NumRows /\ \A k \in DOMAIN ref : ref[k] = 0
  <2>1. /\ last = NoReq /\ batch = NoReq /\ newFin = {} /\ pend = <<>> /\ running = <<>>
    BY <1>3 DEF IdleMeansEmpty, LifeInv, Phases
  <2>2. Waiting = {} /\ Active = {} /\ Arriving = {} /\ Launched = {}
    BY <2>1, NoneRemain DEF Waiting, Active, Arriving, Launched, ToSet
  <2>3. live = {}
    BY <1>3, <2>1, <2>2 DEF LifeInv, Places
  <2>4. Len(freeRows) = NumRows
    <3>1. /\ freeRows \in Seq(Row) /\ IsInjective(freeRows)
          /\ \A r \in Row : r \in ToSet(freeRows)
      BY <1>3, <2>3 DEF LifeInv, Types, Rows
    <3> PICK s : s = freeRows
      OBVIOUS
    <3>2. Len(s) = NumRows
      BY <3>1, AllRowsFree, SizesAssumption
    <3> QED BY <3>2
  <2>5. \A k \in DOMAIN ref : HeldBy(live, req, k) = {}
    BY <2>3 DEF HeldBy
  <2>6. \A k \in DOMAIN ref : ref[k] = 0
    BY <1>3, <2>5, FS_EmptySet DEF Locks, Held
  <2> QED BY <2>3, <2>4, <2>6
<1>4. LifeInv /\ Locks /\ IdleMeansEmpty => NothingHeldWhenIdle
  BY <1>3 DEF NothingHeldWhenIdle
<1> QED BY <1>1, <1>2, <1>4, LocksFollow, PTL DEF Spec
-----------------------------------------------------------------------------
(* The pages.                                                               *)
(*                                                                          *)
(* Two steps of the loop give back pages that are still named or were never *)
(* allocated.  Without them every page is in one place, and without the     *)
(* second a row reads what the cache holds, in every instance.              *)

(* A running request is aborted while a step of it is in flight and its     *)
(* cached length fills its last page: _free_req_resources then gives back   *)
(* an entry of the row that no allocation has written.                      *)
AbortsAtPageEnd ==
    \E u \in Active \cap inflight[2] : u \in aborted' /\ req[u].cached % PageSize = 0

(* A prefilled request gives back pages that another one cached meanwhile,  *)
(* to which its row goes on pointing.                                       *)
GivesBackDuplicates == \E token \in Token : ProcessResult(token) /\ lazy' # lazy

(* Page i of the row of u, the pages of the cache, and those u has alone. *)
RowPage(u, i) == pageTable[req[u].row][i]
CachedPages   == {cached[k] : k \in DOMAIN cached}
OwnPages(u)   == {RowPage(u, i) : i \in OwnIndices(u)}
Columns       == 0 .. DivCeil(MaxSeqLen) - 1

(* The tables have their shapes, and hold pages. *)
Tables ==
    /\ pageTable = [r \in Row |-> [p \in Columns |-> pageTable[r][p]]]
    /\ \A r \in Row : \A p \in Columns : pageTable[r][p] \in Page
    /\ free \in Seq(Page) /\ lazy \in Seq(Page)
    /\ CachedPages \subseteq Page
    /\ PrefixClosedSet(DOMAIN cached) /\ IsFiniteSet(DOMAIN cached)

(* Block i of the tokens of a request that the host has. *)
BlockOf(ids, i) == SubSeq(ids, (i - 1) * PageSize + 1, i * PageSize)

(* A handle is made of the first full pages of what the host has. *)
HandleIs(u) ==
    /\ Len(req[u].handle) \in Nat
    /\ req[u].handle = [i \in 1 .. Len(req[u].handle) |-> BlockOf(HostIds(u), i)]
    /\ Len(req[u].handle) * PageSize <= req[u].cached
    /\ Len(req[u].handle) * PageSize <= Len(HostIds(u))

(* How far a request is computed, and allocated: one token less than its  *)
(* device length once its first token was read, all of it before, but for *)
(* the chunk that is being admitted.                                      *)
Extents ==
    /\ \A u \in live : /\ 0 <= req[u].cached /\ req[u].cached <= req[u].device
                         /\ 1 <= req[u].device
    /\ \A u \in Active \cup newFin : req[u].cached = req[u].device - 1
    /\ \A u \in live \ (Active \cup newFin) :
          req[u].cached = req[u].device \/ (pc = "admit" /\ u \in inflPre)
    /\ \A u \in live : HandleIs(u)

(* A page is free, on its way to be, cached, or alone in one row: nowhere *)
(* twice, and nowhere else.                                               *)
Owned ==
    /\ IsInjective(free) /\ IsInjective(lazy)
    /\ \A k, m \in DOMAIN cached : cached[k] = cached[m] => k = m
    /\ \A u \in live : \A i, j \in OwnIndices(u) : RowPage(u, i) = RowPage(u, j) => i = j
    /\ ToSet(free) \cap ToSet(lazy) = {}
    /\ CachedPages \cap (ToSet(free) \cup ToSet(lazy)) = {}
    /\ \A u \in live : OwnPages(u) \cap (ToSet(free) \cup ToSet(lazy) \cup CachedPages) = {}
    /\ \A u, v \in live : u # v => OwnPages(u) \cap OwnPages(v) = {}
    /\ \A p \in Page : p \in ToSet(free) \cup ToSet(lazy) \cup CachedPages
                          \/ \E u \in live : p \in OwnPages(u)

(* Pages wait to be freed only while the results of a batch are read. *)
Lazily == pc # "process" \/ last = NoReq => lazy = <<>>

-----------------------------------------------------------------------------
(* How many pages a length takes. *)

(* Whole pages. *)
LEMMA DivIs ==
    ASSUME SizesAssumption, NEW c \in Nat
    PROVE  /\ c \div PageSize \in Nat
           /\ (c \div PageSize) * PageSize <= c
           /\ c < (c \div PageSize + 1) * PageSize
<1> PICK p : p = PageSize
  OBVIOUS
<1>1. p \in Nat \ {0}
  BY DEF SizesAssumption
<1>2. c \div p \in Nat /\ (c \div p) * p <= c /\ c < (c \div p + 1) * p
  BY <1>1
<1> QED BY <1>2

(* Products with the page size are ordered as their factors. *)
LEMMA Multiples ==
    ASSUME SizesAssumption, NEW a \in Nat, NEW b \in Nat
    PROVE  /\ a <= b => a * PageSize <= b * PageSize
           /\ a * PageSize < b * PageSize => a < b
           /\ a * PageSize \in Nat
           /\ (a + 1) * PageSize = a * PageSize + PageSize
<1> PICK p : p = PageSize
  OBVIOUS
<1>1. p \in Nat \ {0}
  BY DEF SizesAssumption
<1>2. a <= b => a * p <= b * p
  BY <1>1
<1>3. a * p < b * p => a < b
  BY <1>1
<1> QED BY <1>1, <1>2, <1>3

(* How many pages hold c tokens. *)
LEMMA CeilIs ==
    ASSUME SizesAssumption, NEW c \in Nat
    PROVE  /\ DivCeil(c) \in Nat
           /\ c <= DivCeil(c) * PageSize
           /\ \A n \in Nat : c <= n * PageSize => DivCeil(c) <= n
           /\ \A n \in Nat : n * PageSize <= c => n <= DivCeil(c)
           /\ \A n \in Nat : n * PageSize < c => n < DivCeil(c)
<1> PICK p, q : p = PageSize /\ q = DivCeil(c)
  OBVIOUS
<1>1. p \in Nat \ {0} /\ q = (c + p - 1) \div p
  BY DEF SizesAssumption, DivCeil
<1>2. PICK x : x = c + p - 1
  OBVIOUS
<1>3. x \in Nat
  BY <1>1, <1>2
<1>4. q \in Nat /\ q * p <= x /\ x < (q + 1) * p
  BY <1>1, <1>2, <1>3
<1>5. (q + 1) * p = q * p + p
  BY <1>1, <1>4
<1>6. c <= q * p /\ q * p < c + p
  BY <1>1, <1>2, <1>4, <1>5
<1>7. ASSUME NEW n \in Nat, c <= n * p PROVE q <= n
  <2>1. q * p < n * p + p
    BY <1>1, <1>4, <1>6, <1>7
  <2>2. q * p < (n + 1) * p
    BY <1>1, <2>1
  <2>3. q < n + 1
    BY <1>1, <1>4, <2>2
  <2> QED BY <1>4, <2>3
<1>8. ASSUME NEW n \in Nat, n * p <= c PROVE n <= q
  BY <1>1, <1>4, <1>6, <1>8
<1>9. ASSUME NEW n \in Nat, n * p < c PROVE n < q
  BY <1>1, <1>4, <1>6, <1>9
<1> QED BY <1>4, <1>6, <1>7, <1>8, <1>9

LEMMA CeilGrows ==
    ASSUME SizesAssumption, NEW a \in Nat, NEW b \in Nat, a <= b
    PROVE  DivCeil(a) <= DivCeil(b) /\ a \div PageSize <= DivCeil(b)
<1> PICK p, q, x, d : p = PageSize /\ q = DivCeil(b) /\ x = DivCeil(a) /\ d = a \div PageSize
  OBVIOUS
<1>1. q \in Nat /\ b <= q * p /\ p \in Nat
  BY CeilIs DEF SizesAssumption
<1>2. a <= q * p
  <2> PICK m : m = q * p
    OBVIOUS
  <2>1. m \in Nat
    BY <1>1
  <2> QED BY <1>1, <2>1
<1>3. x <= q
  BY <1>1, <1>2, CeilIs
<1>4. d \in Nat /\ d * p <= a
  BY DivIs
<1>5. d * p <= b
  <2> PICK m : m = d * p
    OBVIOUS
  <2>1. m \in Nat
    BY <1>1, <1>4
  <2> QED BY <1>4, <2>1
<1>6. d <= q
  BY <1>4, <1>5, CeilIs
<1> QED BY <1>3, <1>6

LEMMA CeilOfWhole ==
    ASSUME SizesAssumption, NEW n \in Nat
    PROVE  DivCeil(n * PageSize) = n
<1> PICK c : c = n * PageSize
  OBVIOUS
<1>1. c \in Nat /\ PageSize \in Nat
  BY DEF SizesAssumption
<1>2. DivCeil(c) <= n /\ n <= DivCeil(c) /\ DivCeil(c) \in Nat
  BY <1>1, CeilIs
<1> QED BY <1>2

LEMMA ColumnsIs ==
    ASSUME SizesAssumption
    PROVE  DivCeil(MaxSeqLen) \in Nat \ {0}
<1>1. MaxSeqLen \in Nat /\ 0 < MaxSeqLen
  BY DEF SizesAssumption
<1>2. 0 * PageSize = 0
  BY DEF SizesAssumption
<1>3. 0 < DivCeil(MaxSeqLen) /\ DivCeil(MaxSeqLen) \in Nat
  BY <1>1, <1>2, CeilIs
<1> QED BY <1>3

-----------------------------------------------------------------------------
(* How a batch shares out the pages that it needs. *)

(* Consecutive slices: s[i] ends slice i, the first begins behind 0. *)
LEMMA SlicesGrow ==
    ASSUME NEW n \in Nat, NEW s \in [0 .. n -> Nat], \A i \in 1 .. n : s[i - 1] <= s[i],
           NEW i \in 0 .. n, NEW j \in 0 .. n, i <= j
    PROVE  s[i] <= s[j]
<1> DEFINE I == {k \in Nat : i + k <= n => s[i] <= s[i + k]}
<1>1. 0 \in I
  BY DEF I
<1>2. ASSUME NEW k \in Nat, k \in I
      PROVE  k + 1 \in I
  <2>1. SUFFICES ASSUME i + (k + 1) <= n PROVE s[i] <= s[i + (k + 1)]
    OBVIOUS
  <2>2. i + (k + 1) \in 1 .. n /\ i + (k + 1) - 1 = i + k /\ i + k \in 0 .. n /\ i + k <= n
    BY <2>1
  <2>3. s[i + k] <= s[i + (k + 1)] /\ s[i] <= s[i + k]
    BY <1>2, <2>2
  <2> PICK a, b, c : a = s[i] /\ b = s[i + k] /\ c = s[i + (k + 1)]
    OBVIOUS
  <2>4. a \in Nat /\ b \in Nat /\ c \in Nat
    <3>1. i + (k + 1) \in 0 .. n
      BY <2>2
    <3> QED BY <2>2, <3>1
  <2> QED BY <2>3, <2>4
<1>3. j - i \in I
  <2>1. j - i \in Nat
    OBVIOUS
  <2> HIDE DEF I
  <2> QED BY <1>1, <1>2, <2>1, SetInduction
<1>4. i + (j - i) = j /\ j <= n
  OBVIOUS
<1> QED BY <1>3, <1>4

(* Every page of the whole is in the slice of one request. *)
LEMMA SlicesCover ==
    ASSUME NEW n \in Nat, NEW s \in [0 .. n -> Nat], s[0] = 0, NEW m \in 1 .. s[n]
    PROVE  \E i \in 1 .. n : s[i - 1] < m /\ m <= s[i]
<1>1. SUFFICES ASSUME \A i \in 1 .. n : ~(s[i - 1] < m /\ m <= s[i]) PROVE FALSE
  OBVIOUS
<1> DEFINE I == {k \in Nat : k <= n => s[k] < m}
<1>2. 0 \in I
  OBVIOUS
<1>3. ASSUME NEW k \in Nat, k \in I
      PROVE  k + 1 \in I
  <2>1. SUFFICES ASSUME k + 1 <= n PROVE s[k + 1] < m
    OBVIOUS
  <2>2. k + 1 \in 1 .. n /\ k + 1 - 1 = k /\ k + 1 \in 0 .. n /\ k \in 0 .. n
    BY <2>1
  <2>3. ~(m <= s[k + 1])
    BY <1>1, <1>3, <2>2
  <2> PICK a : a = s[k + 1]
    OBVIOUS
  <2>4. a \in Nat /\ m \in Int
    BY <2>2
  <2> QED BY <2>3, <2>4
<1>4. n \in I
  <2> HIDE DEF I
  <2> QED BY <1>2, <1>3, SetInduction
<1>5. s[n] \in Nat
  OBVIOUS
<1> QED BY <1>4, <1>5

(* The pages of a batch, request by request. *)
LEMMA PagesBeforeIs ==
    ASSUME NEW us \in Seq(Uid), \A u \in ToSet(us) : NeededPages(u) \in Nat
    PROVE  \E s \in [0 .. Len(us) -> Nat] :
              /\ s[0] = 0
              /\ \A i \in 1 .. Len(us) : s[i] = s[i - 1] + NeededPages(us[i])
              /\ \A i \in 0 .. Len(us) : PagesBefore(us, i) = s[i]
<1> DEFINE n == Len(us)
           need(i) == NeededPages(us[i])
           turn == [p \in (1 .. n) \X Nat |-> p[2] + need(p[1])]
           Body(f) == [i \in 0 .. n |-> IF i = 0 THEN 0 ELSE f[i - 1] + need(i)]
           pages == CHOOSE f : f = Body(f)
<1>1. n \in Nat /\ DOMAIN us = 1 .. n
  OBVIOUS
<1>2. \A i \in 1 .. n : need(i) \in Nat
  BY <1>1 DEF ToSet
<1>3. \A i : PagesBefore(us, i) = pages[i]
  BY DEF PagesBefore
<1> HIDE DEF need
<1>4. turn \in [(1 .. n) \X Nat -> Nat]
  BY <1>2
<1>5. PICK f : IsRun(f, Nat, 0, n, turn)
  <2> HIDE DEF n, turn
  <2> QED BY <1>1, <1>4, LoopRuns, Zenon
<1>6. f \in [0 .. n -> Nat] /\ f[0] = 0
  BY <1>5 DEF IsRun
<1>7. ASSUME NEW i \in 1 .. n
      PROVE  f[i] = f[i - 1] + need(i)
  <2>1. i - 1 \in 0 .. n
    BY <1>1
  <2>2. f[i - 1] \in Nat
    BY <1>6, <2>1
  <2>3. f[i] = turn[<<i, f[i - 1]>>]
    BY <1>5 DEF IsRun
  <2> QED BY <2>2, <2>3
<1>8. f = Body(f)
  <2> HIDE DEF turn
  <2>1. f = [i \in 0 .. n |-> f[i]]
    BY <1>6
  <2>2. \A i \in 0 .. n : f[i] = Body(f)[i]
    <3>1. ASSUME NEW i \in 0 .. n, i # 0 PROVE i \in 1 .. n
      BY <1>1, <3>1
    <3> QED BY <1>6, <1>7, <3>1
  <2> QED BY <2>1, <2>2
<1>9. pages = Body(pages)
  BY <1>8
<1>10. DOMAIN pages = 0 .. n /\ pages = [i \in 0 .. n |-> pages[i]]
  <2> HIDE DEF pages
  <2> QED BY <1>9
<1>11. pages[0] = 0 /\ \A i \in 1 .. n : pages[i] = pages[i - 1] + need(i)
  <2>1. 0 \in 0 .. n /\ \A i \in 1 .. n : i \in 0 .. n /\ i # 0
    BY <1>1
  <2>2. \A i \in 0 .. n : pages[i] = IF i = 0 THEN 0 ELSE pages[i - 1] + need(i)
    <3> HIDE DEF pages, n
    <3> QED BY <1>9
  <2> HIDE DEF pages, n
  <2> QED BY <2>1, <2>2
<1> HIDE DEF pages, turn, Body
<1> DEFINE I == {i \in Nat : i <= n => pages[i] \in Nat}
<1>12. 0 \in I
  BY <1>11
<1>13. ASSUME NEW i \in Nat, i \in I
       PROVE  i + 1 \in I
  <2>1. SUFFICES ASSUME i + 1 <= n PROVE pages[i + 1] \in Nat
    OBVIOUS
  <2>2. i + 1 \in 1 .. n /\ i + 1 - 1 = i /\ pages[i] \in Nat
    BY <1>1, <1>13, <2>1
  <2>3. pages[i + 1] = pages[i] + need(i + 1) /\ need(i + 1) \in Nat
    BY <1>2, <1>11, <2>2
  <2> QED BY <2>2, <2>3
<1>14. Nat \subseteq I
  <2> HIDE DEF I
  <2> QED BY <1>12, <1>13, SetInduction
<1>15. pages \in [0 .. n -> Nat]
  <2>1. \A i \in 0 .. n : pages[i] \in Nat
    BY <1>1, <1>14
  <2> QED BY <1>10, <2>1
<1> QED BY <1>3, <1>11, <1>15 DEF need

(* A finite set as a list. *)
LEMMA SetToSeqIs ==
    ASSUME NEW S, IsFiniteSet(S)
    PROVE  /\ SetToSeq(S) \in Seq(S) /\ Len(SetToSeq(S)) = Cardinality(S)
           /\ IsInjective(SetToSeq(S)) /\ ToSet(SetToSeq(S)) = S
<1> PICK n : n = Cardinality(S)
  OBVIOUS
<1>1. n \in Nat /\ \E f : f \in Bijection(1 .. n, S)
  BY FS_CardinalityType DEF ExistsBijection
<1>2. PICK f : f \in Bijection(1 .. n, S)
  BY <1>1
<1>3. f \in [1 .. n -> S] /\ IsInjective(f)
  BY <1>2 DEF Bijection, Injection, Surjection, IsInjective
<1>4. SetToSeq(S) = CHOOSE g \in [1 .. n -> S] : IsInjective(g)
  BY DEF SetToSeq
<1>5. SetToSeq(S) \in [1 .. n -> S] /\ IsInjective(SetToSeq(S))
  BY <1>3, <1>4
<1> PICK q : q = SetToSeq(S)
  OBVIOUS
<1>6. q \in Injection(1 .. n, S)
  BY <1>5 DEF Injection, IsInjective
<1>7. Cardinality(1 .. n) = n /\ IsFiniteSet(1 .. n)
  <2>1. n \in Int /\ 1 \in Int
    BY <1>1
  <2>2. IsFiniteSet(1 .. n) /\ Cardinality(1 .. n) = IF 1 > n THEN 0 ELSE n - 1 + 1
    BY <2>1, FS_Interval
  <2> QED BY <1>1, <2>2
<1>8. q \in Surjection(1 .. n, S)
  BY <1>6, <1>7, FS_Injection
<1>9. q \in Seq(S) /\ Len(q) = n /\ DOMAIN q = 1 .. n
  BY <1>1, <1>5
<1>10. ToSet(q) = S
  BY <1>8, <1>9 DEF Surjection, ToSet
<1> QED BY <1>5, <1>9, <1>10

-----------------------------------------------------------------------------
(* What a request inserts, and what of it is cached. *)

(* The tokens of a request that the host has begin with its prompt. *)
LEMMA HostIs ==
    ASSUME RequestsAssumption, NEW u \in Uid, gen \in [Uid -> Seq(Token)]
    PROVE  /\ HostIds(u) \in Seq(ToSet(Prompt[u]) \cup Token)
           /\ Len(HostIds(u)) = InputLen(u) + Len(gen[u])
           /\ InputLen(u) \in Nat /\ Len(gen[u]) \in Nat
           /\ \A i \in 1 .. InputLen(u) : HostIds(u)[i] = Prompt[u][i]
<1> PICK p, g, X : p = Prompt[u] /\ g = gen[u] /\ X = ToSet(Prompt[u]) \cup Token
  OBVIOUS
<1>1. p \in Seq(X) /\ g \in Seq(X)
  <2>1. Prompt[u] \in Seq(ToSet(Prompt[u])) /\ gen[u] \in Seq(Token)
    BY DEF RequestsAssumption
  <2> QED BY <2>1
<1>2. /\ p \o g \in Seq(X) /\ Len(p \o g) = Len(p) + Len(g)
      /\ Len(p) \in Nat /\ Len(g) \in Nat
      /\ \A i \in 1 .. Len(p) : (p \o g)[i] = p[i]
  BY <1>1
<1> QED BY <1>2 DEF HostIds, InputLen

(* A part of a prefix is a part of the whole. *)
LEMMA PartOfPrefix ==
    ASSUME NEW B, NEW s \in Seq(B), NEW n \in 0 .. Len(s),
           NEW a \in 1 .. n, NEW b \in 1 .. n
    PROVE  SubSeq(SubSeq(s, 1, n), a, b) = SubSeq(s, a, b)
<1> PICK one : one = 1
  OBVIOUS
<1>1. /\ one \in 1 .. Len(s) /\ n \in 1 .. Len(s)
      /\ a \in 1 .. n - one + 1 /\ b \in 1 .. n - one + 1
  OBVIOUS
<1>2. SubSeq(SubSeq(s, one, n), a, b) = SubSeq(s, one + a - 1, one + b - 1)
  BY <1>1, SubSeqOfSubSeq
<1>3. one + a - 1 = a /\ one + b - 1 = b
  OBVIOUS
<1> QED BY <1>2, <1>3

LEMMA BlocksOfPrefix ==
    ASSUME SizesAssumption, NEW B, NEW ids \in Seq(B), NEW n \in 0 .. Len(ids)
    PROVE  /\ Blocks(SubSeq(ids, 1, n)) = [i \in 1 .. n \div PageSize |-> BlockOf(ids, i)]
           /\ n \div PageSize \in Nat /\ (n \div PageSize) * PageSize <= n
<1> PICK p, q, L : p = PageSize /\ q = n \div PageSize /\ L = Len(ids)
  OBVIOUS
<1>1. n \in Nat /\ p \in Nat \ {0} /\ L \in Nat /\ n <= L
  BY DEF SizesAssumption
<1>2. q \in Nat /\ q * p <= n
  BY <1>1, DivIs
<1>3. /\ SubSeq(ids, 1, n) \in Seq(B) /\ Len(SubSeq(ids, 1, n)) = n
      /\ \A j \in 1 .. n : SubSeq(ids, 1, n)[j] = ids[j]
  BY SplitIs
<1>4. ASSUME NEW i \in 1 .. q
      PROVE  SubSeq(SubSeq(ids, 1, n), (i - 1) * p + 1, i * p) = BlockOf(ids, i)
  <2> PICK a, b : a = (i - 1) * p + 1 /\ b = i * p
    OBVIOUS
  <2>1. a \in Nat /\ b \in Nat /\ 1 <= a /\ b <= n
    <3>1. i \in Nat /\ i - 1 \in Nat /\ i <= q
      BY <1>2
    <3>2. (i - 1) * p \in Nat /\ i * p \in Nat /\ i * p <= q * p /\ q * p \in Nat
      BY <1>1, <1>2, <3>1, Multiples
    <3> QED BY <1>1, <1>2, <3>2
  <2>2. SubSeq(SubSeq(ids, 1, n), a, b) = SubSeq(ids, a, b)
    <3>1. b \in 1 .. n /\ a \in 1 .. n
      <4>1. (i - 1) * p + 1 <= i * p
        <5>1. i \in Nat /\ i * p = (i - 1) * p + p /\ (i - 1) * p \in Nat
          BY <1>1
        <5> QED BY <1>1, <5>1
      <4> QED BY <1>1, <2>1, <4>1
    <3> QED BY <1>1, <3>1, PartOfPrefix
  <2> QED BY <2>2 DEF BlockOf
<1> QED BY <1>2, <1>3, <1>4 DEF Blocks, BlockOf

(* The beginning of a list that is given by its elements. *)
LEMMA PrefixIs ==
    ASSUME NEW B, NEW k \in Seq(B), NEW n \in 0 .. Len(k)
    PROVE  SubSeq(k, 1, n) = [i \in 1 .. n |-> k[i]]
OBVIOUS

(* What of a key is cached is a prefix of it. *)
LEMMA MatchSplits ==
    ASSUME NEW c, NEW B, NEW key \in Seq(B), PrefixClosedSet(DOMAIN c)
    PROVE  /\ MatchLen(c, key) \in 0 .. Len(key)
           /\ \A m \in 1 .. Len(key) : SubSeq(key, 1, m) \in DOMAIN c <=> m <= MatchLen(c, key)
           /\ \A n \in 0 .. Len(key) :
                 PrefixesOf(SubSeq(key, 1, n)) \subseteq DOMAIN c => n <= MatchLen(c, key)
<1> PICK M, L : M = MatchLen(c, key) /\ L = Len(key)
  OBVIOUS
<1>1. L \in Nat /\ M \in 0 .. L /\ MatchesUpTo(c, key, M)
  BY MatchIs
<1>2. ASSUME NEW m \in 1 .. L, M < m, NEW S, PrefixesOf(SubSeq(key, 1, m)) \subseteq S
      PROVE  SubSeq(key, 1, M + 1) \in S
  <2>1. /\ SubSeq(SubSeq(key, 1, m), 1, M + 1) = SubSeq(key, 1, M + 1)
        /\ M + 1 \in 1 .. Len(SubSeq(key, 1, m))
    BY <1>1, <1>2
  <2> QED BY <1>2, <2>1 DEF PrefixesOf
<1>3. M < L => SubSeq(key, 1, M + 1) \notin DOMAIN c
  BY <1>1 DEF MatchesUpTo
<1>4. ASSUME NEW m \in 1 .. L
      PROVE  SubSeq(key, 1, m) \in DOMAIN c <=> m <= M
  <2>1. m <= M => SubSeq(key, 1, m) \in DOMAIN c
    BY <1>1 DEF MatchesUpTo
  <2>2. ASSUME M < m, SubSeq(key, 1, m) \in DOMAIN c PROVE FALSE
    <3>1. PrefixesOf(SubSeq(key, 1, m)) \subseteq DOMAIN c
      BY <2>2 DEF PrefixClosedSet
    <3> QED BY <1>1, <1>2, <1>3, <2>2, <3>1
  <2> QED BY <1>1, <2>1, <2>2
<1>5. ASSUME NEW n \in 0 .. L, PrefixesOf(SubSeq(key, 1, n)) \subseteq DOMAIN c
      PROVE  n <= M
  <2>1. SUFFICES ASSUME M < n PROVE FALSE
    BY <1>1
  <2>2. n \in 1 .. L
    BY <1>1, <2>1
  <2> QED BY <1>1, <1>2, <1>3, <1>5, <2>1, <2>2
<1> QED BY <1>1, <1>4, <1>5

(* What inserting a key adds to the cache. *)
Distinct(c) == \A k, m \in DOMAIN c : c[k] = c[m] => k = m

(* Pages lo .. hi of a list are different and not in the cache. *)
Unused(c, pages, lo, hi) ==
    /\ \A m \in lo .. hi : pages[m] \notin {c[k] : k \in DOMAIN c}
    /\ \A m, n \in lo .. hi : pages[m] = pages[n] => m = n

(* What insertion does to a cache that holds the first M pages of the key. *)
Inserted(c, key, pages, M, d) ==
    /\ PrefixClosedSet(DOMAIN d)
    /\ Distinct(c) /\ Unused(c, pages, M + 1, Len(key)) => Distinct(d)
    /\ DOMAIN c \subseteq DOMAIN d /\ \A k \in DOMAIN c : d[k] = c[k]
    /\ {d[k] : k \in DOMAIN d} = {c[k] : k \in DOMAIN c} \cup {pages[m] : m \in M + 1 .. Len(key)}
    /\ \A m \in M + 1 .. Len(key) : SubSeq(key, 1, m) \in DOMAIN d /\ d[SubSeq(key, 1, m)] = pages[m]

LEMMA InsertDoes ==
    ASSUME NEW c, NEW B, NEW key \in Seq(B), PrefixClosedSet(DOMAIN c),
           NEW pages, NEW M, M = MatchLen(c, key)
    PROVE  Inserted(c, key, pages, M, InsertPages(c, key, pages))
<1> PICK d, L : d = InsertPages(c, key, pages) /\ L = Len(key)
  OBVIOUS
<1>1. /\ DOMAIN d = DOMAIN c \cup PrefixesOf(key)
      /\ \A k \in DOMAIN d : d[k] = IF k \in DOMAIN c THEN c[k] ELSE pages[Len(k)]
  BY DEF InsertPages
<1>2. /\ L \in Nat /\ M \in 0 .. L
      /\ \A m \in 1 .. L : SubSeq(key, 1, m) \in DOMAIN c <=> m <= M
  BY MatchSplits
<1>3. \A m \in 1 .. L : Len(SubSeq(key, 1, m)) = m
  BY <1>2
<1>4. \A k \in DOMAIN d : k \in DOMAIN c \/ \E m \in M + 1 .. L : k = SubSeq(key, 1, m)
  <2>1. \A m \in 1 .. L : m <= M \/ m \in M + 1 .. L
    BY <1>2
  <2> SUFFICES ASSUME NEW k \in DOMAIN d, k \notin DOMAIN c
               PROVE  \E m \in M + 1 .. L : k = SubSeq(key, 1, m)
    OBVIOUS
  <2>2. PICK m \in 1 .. L : k = SubSeq(key, 1, m)
    BY <1>1 DEF PrefixesOf
  <2>3. m \in M + 1 .. L
    BY <1>2, <2>1, <2>2
  <2> QED BY <2>2, <2>3
<1>5. ASSUME NEW m \in M + 1 .. L
      PROVE  /\ SubSeq(key, 1, m) \in DOMAIN d /\ d[SubSeq(key, 1, m)] = pages[m]
             /\ SubSeq(key, 1, m) \notin DOMAIN c
  <2>1. m \in 1 .. L /\ ~(m <= M)
    BY <1>2
  <2>2. SubSeq(key, 1, m) \in PrefixesOf(key) /\ SubSeq(key, 1, m) \notin DOMAIN c
    BY <1>2, <2>1 DEF PrefixesOf
  <2> QED BY <1>1, <1>3, <2>1, <2>2
<1>6. PrefixClosedSet(DOMAIN d)
  <2>1. ASSUME NEW k \in PrefixesOf(key) PROVE PrefixesOf(k) \subseteq PrefixesOf(key)
    BY <2>1, PrefixTransitive
  <2> QED BY <1>1, <2>1 DEF PrefixClosedSet
<1>7. ASSUME Distinct(c), Unused(c, pages, M + 1, L)
      PROVE  Distinct(d)
  <2> SUFFICES ASSUME NEW k \in DOMAIN d, NEW j \in DOMAIN d, d[k] = d[j]
               PROVE  k = j
    BY DEF Distinct
  <2>0. /\ \A m \in M + 1 .. L : pages[m] \notin {c[i] : i \in DOMAIN c}
        /\ \A m, n \in M + 1 .. L : pages[m] = pages[n] => m = n
    BY <1>7 DEF Unused
  <2>1. CASE k \in DOMAIN c /\ j \in DOMAIN c
    BY <1>1, <1>7, <2>1 DEF Distinct
  <2>2. CASE k \in DOMAIN c /\ j \notin DOMAIN c
    <3>1. PICK n \in M + 1 .. L : j = SubSeq(key, 1, n)
      BY <1>4, <2>2
    <3>2. d[j] = pages[n] /\ d[k] = c[k]
      BY <1>1, <1>5, <2>2, <3>1
    <3> QED BY <2>0, <2>2, <3>2
  <2>3. CASE k \notin DOMAIN c /\ j \in DOMAIN c
    <3>1. PICK m \in M + 1 .. L : k = SubSeq(key, 1, m)
      BY <1>4, <2>3
    <3>2. d[k] = pages[m] /\ d[j] = c[j]
      BY <1>1, <1>5, <2>3, <3>1
    <3> QED BY <2>0, <2>3, <3>2
  <2>4. CASE k \notin DOMAIN c /\ j \notin DOMAIN c
    <3>1. PICK m \in M + 1 .. L : k = SubSeq(key, 1, m)
      BY <1>4, <2>4
    <3>2. PICK n \in M + 1 .. L : j = SubSeq(key, 1, n)
      BY <1>4, <2>4
    <3>3. pages[m] = pages[n]
      BY <1>5, <3>1, <3>2
    <3> QED BY <2>0, <3>1, <3>2, <3>3
  <2> QED BY <2>1, <2>2, <2>3, <2>4
<1>8. {d[k] : k \in DOMAIN d} = {c[k] : k \in DOMAIN c} \cup {pages[m] : m \in M + 1 .. L}
  <2>1. ASSUME NEW k \in DOMAIN d
        PROVE  d[k] \in {c[j] : j \in DOMAIN c} \cup {pages[m] : m \in M + 1 .. L}
    <3>1. CASE k \in DOMAIN c
      BY <1>1, <3>1
    <3>2. CASE k \notin DOMAIN c
      <4>1. PICK m \in M + 1 .. L : k = SubSeq(key, 1, m)
        BY <1>4, <3>2
      <4> QED BY <1>5, <4>1
    <3> QED BY <3>1, <3>2
  <2>2. ASSUME NEW k \in DOMAIN c PROVE \E j \in DOMAIN d : c[k] = d[j]
    BY <1>1, <2>2
  <2>3. ASSUME NEW m \in M + 1 .. L PROVE \E j \in DOMAIN d : pages[m] = d[j]
    BY <1>5, <2>3
  <2> QED BY <2>1, <2>2, <2>3
<1>9. \A k \in DOMAIN c : k \in DOMAIN d /\ d[k] = c[k]
  BY <1>1
<1> HIDE DEF Inserted
<1>10. Inserted(c, key, pages, M, d)
  <2>1. \A m \in M + 1 .. Len(key) : SubSeq(key, 1, m) \in DOMAIN d /\ d[SubSeq(key, 1, m)] = pages[m]
    BY <1>5
  <2>2. Distinct(c) /\ Unused(c, pages, M + 1, Len(key)) => Distinct(d)
    BY <1>7
  <2>3. {d[k] : k \in DOMAIN d} = {c[k] : k \in DOMAIN c} \cup {pages[m] : m \in M + 1 .. Len(key)}
    BY <1>8
  <2>4. DOMAIN c \subseteq DOMAIN d /\ \A k \in DOMAIN c : d[k] = c[k]
    BY <1>9
  <2> QED BY <1>6, <2>1, <2>2, <2>3, <2>4 DEF Inserted
<1> QED BY <1>10

(* The lengths of a live request, in tokens and in pages. *)
LEMMA LensOf ==
    ASSUME SizesAssumption, RequestsAssumption, LifeInv, Extents, NEW u \in live
    PROVE  /\ u \in Uid /\ req[u].row \in Row
           /\ req[u].cached \in Nat /\ req[u].device \in Nat
           /\ req[u].cached <= req[u].device /\ req[u].device <= MaxSeqLen
           /\ DivCeil(req[u].cached) \in Nat /\ DivCeil(req[u].device) \in Nat
           /\ DivCeil(req[u].cached) <= DivCeil(req[u].device)
           /\ DivCeil(req[u].device) <= DivCeil(MaxSeqLen)
<1>1. /\ u \in Uid /\ req[u].row \in Row /\ req[u].cached \in Int /\ req[u].device \in Int
  BY DEF LifeInv, Types, IsRequest
<1>2. 0 <= req[u].cached /\ req[u].cached <= req[u].device
  BY DEF Extents
<1>3. InputLen(u) < MaxSeqLen /\ req[u].device <= MaxDeviceLen(u)
  BY DEF LifeInv, Counts
<1>4. MaxDeviceLen(u) <= MaxSeqLen /\ MaxDeviceLen(u) \in Nat /\ MaxSeqLen \in Nat
  <2>1. /\ InputLen(u) \in Nat /\ OutputLen(u) \in Nat /\ MaxSeqLen \in Nat
        /\ MaxDeviceLen(u) = InputLen(u) + OutputLen(u)
    BY <1>1, <1>3, Lengths DEF SizesAssumption
  <2>2. MaxTokens[u] \in Nat
    BY <1>1 DEF RequestsAssumption
  <2>3. OutputLen(u) <= MaxSeqLen - InputLen(u)
    BY <2>1, <2>2 DEF OutputLen, Lesser
  <2> QED BY <2>1, <2>3
<1>c. PICK c, d, m, x : c = req[u].cached /\ d = req[u].device /\ m = MaxDeviceLen(u)
                        /\ x = MaxSeqLen
  OBVIOUS
<1>5. c \in Nat /\ d \in Nat /\ c <= d /\ d <= x
  <2>1. /\ c \in Int /\ d \in Int /\ m \in Nat /\ 0 <= c /\ c <= d /\ d <= m
        /\ m <= x /\ x \in Nat
    BY <1>1, <1>2, <1>3, <1>4, <1>c
  <2> QED BY <2>1
<1>6. /\ DivCeil(c) \in Nat /\ DivCeil(d) \in Nat
      /\ DivCeil(c) <= DivCeil(d) /\ DivCeil(d) <= DivCeil(MaxSeqLen)
  BY <1>4, <1>5, <1>c, CeilIs, CeilGrows
<1> QED BY <1>1, <1>5, <1>6, <1>c

(* The key that a live request inserts, and how much of it is in the cache: *)
(* its handle of h pages at least.                                          *)
KeyOf(u, key, h, M, n) ==
    /\ key = InsertKey(u) /\ key \in Seq(ToSet(key))
    /\ h = Len(req[u].handle) /\ M = MatchLen(cached, key) /\ n = DivCeil(req[u].cached)
    /\ h \in Nat /\ M \in Nat /\ Len(key) \in Nat /\ n \in Nat
    /\ h <= M /\ M <= Len(key) /\ Len(key) <= n /\ n <= DivCeil(MaxSeqLen)
    /\ key = [i \in 1 .. Len(key) |-> BlockOf(HostIds(u), i)]
    /\ Len(key) * PageSize <= req[u].cached /\ Len(key) * PageSize <= Len(HostIds(u))
    /\ req[u].handle = SubSeq(key, 1, h)

LEMMA KeyIs ==
    ASSUME SizesAssumption, RequestsAssumption, LifeInv, Locks, Tables, Extents, NEW u \in live
    PROVE  \E key, h, M, n : KeyOf(u, key, h, M, n)
<1> PICK key, h, M, n : /\ key = InsertKey(u) /\ h = Len(req[u].handle)
                        /\ M = MatchLen(cached, key) /\ n = DivCeil(req[u].cached)
  OBVIOUS
<1> PICK c, ids : c = req[u].cached /\ ids = HostIds(u)
  OBVIOUS
<1>1. u \in Uid /\ c \in Nat /\ n \in Nat /\ n <= DivCeil(MaxSeqLen)
  <2>1. DivCeil(MaxSeqLen) \in Nat
    BY ColumnsIs
  <2> QED BY <2>1, LensOf
<1>2. PICK B : ids \in Seq(B) /\ Len(ids) \in Nat
  <2>1. ids \in Seq(ToSet(Prompt[u]) \cup Token)
    BY <1>1, HostIs DEF LifeInv, Types
  <2> QED BY <2>1, LenProperties
<1> PICK x : x = Len(ids)
  OBVIOUS
<1> PICK t : t = Lesser(c, x)
  OBVIOUS
<1>3. t \in 0 .. x /\ t \in Nat /\ t <= c /\ t <= x /\ x \in Nat
  <2>1. c \in Nat /\ x \in Nat
    BY <1>1, <1>2
  <2> QED BY <2>1 DEF Lesser
<1>L. PICK L : L = t \div PageSize
  OBVIOUS
<1>4. L \in Nat /\ L * PageSize <= t /\ key = [i \in 1 .. L |-> BlockOf(ids, i)]
  <2>1. key = Blocks(SubSeq(ids, 1, t))
    BY DEF InsertKey
  <2> QED BY <1>2, <1>3, <1>L, <2>1, BlocksOfPrefix
<1>5. key \in Seq(ToSet(key)) /\ Len(key) = L
  <2>1. key \in [1 .. L -> ToSet(key)] /\ DOMAIN key = 1 .. L
    BY <1>4 DEF ToSet
  <2> PICK S : S = ToSet(key)
    OBVIOUS
  <2>2. key \in [1 .. L -> S]
    BY <2>1
  <2>3. L \in Nat
    BY <1>4
  <2>4. key \in Seq(S) /\ Len(key) = L
    BY <2>1, <2>2, <2>3
  <2> QED BY <2>4
<1>6. L * PageSize <= c /\ L * PageSize <= Len(ids) /\ L <= n
  <2>m. PICK m : m = L * PageSize
    OBVIOUS
  <2>1. m \in Nat
    BY <1>4, <2>m DEF SizesAssumption
  <2>2. m <= c /\ m <= Len(ids)
    <3>1. m <= t /\ t <= c /\ t <= x /\ t \in Nat /\ c \in Nat /\ x \in Nat
      BY <1>1, <1>2, <1>3, <1>4, <2>m
    <3>2. m <= c /\ m <= x
      BY <2>1, <3>1
    <3> QED BY <3>2
  <2>3. L <= n
    BY <1>1, <1>4, <2>2, <2>m, CeilIs
  <2> QED BY <2>2, <2>3, <2>m
<1>7. /\ h \in Nat /\ req[u].handle = [i \in 1 .. h |-> BlockOf(ids, i)]
      /\ h * PageSize <= c /\ h * PageSize <= Len(ids)
  BY DEF Extents, HandleIs
<1>y. PICK y, z : y = h * PageSize /\ z = (L + 1) * PageSize
  OBVIOUS
<1>8. h <= L
  <2>1. L + 1 \in Nat /\ L \in Nat /\ h \in Nat
    BY <1>4, <1>7
  <2>2. y \in Nat /\ z \in Nat
    BY <2>1, <1>y, Multiples
  <2>3. y <= t /\ t < z
    <3>1. y <= c /\ y <= x
      BY <1>7, <1>y
    <3>2. y <= t
      BY <3>1 DEF Lesser
    <3> QED BY <1>3, <1>L, <1>y, <3>2, DivIs
  <2>4. y < z
    BY <1>3, <2>2, <2>3
  <2>5. h < L + 1
    BY <2>1, <2>4, <1>y, Multiples
  <2> QED BY <2>1, <2>5
<1>9. req[u].handle = SubSeq(key, 1, h)
  <2>1. h \in 0 .. Len(key)
    BY <1>4, <1>5, <1>7, <1>8
  <2>2. SubSeq(key, 1, h) = [i \in 1 .. h |-> key[i]]
    BY <1>5, <2>1, PrefixIs
  <2>3. \A i \in 1 .. h : key[i] = BlockOf(ids, i)
    <3>1. L \in Nat /\ h \in Nat /\ h <= L /\ key = [i \in 1 .. L |-> BlockOf(ids, i)]
      BY <1>4, <1>7, <1>8
    <3>2. \A i \in 1 .. h : i \in 1 .. L
      BY <3>1
    <3> QED BY <3>1, <3>2
  <2>4. [i \in 1 .. h |-> key[i]] = [i \in 1 .. h |-> BlockOf(ids, i)]
    BY <2>3, Zenon
  <2> QED BY <1>7, <2>2, <2>4
<1>10. M \in 0 .. L /\ h <= M
  <2>1. PrefixesOf(SubSeq(key, 1, h)) \subseteq DOMAIN cached
    BY <1>9 DEF Locks, Held
  <2>2. h \in 0 .. Len(key) /\ PrefixClosedSet(DOMAIN cached)
    <3>1. L \in Nat /\ h \in Nat /\ h <= L /\ Len(key) = L
      BY <1>4, <1>5, <1>7, <1>8
    <3> QED BY <3>1 DEF Tables
  <2> QED BY <1>5, <2>1, <2>2, MatchSplits
<1>11. KeyOf(u, key, h, M, n)
  <2>1. M \in Nat /\ M <= L /\ L \in Nat
    BY <1>4, <1>10
  <2>2. Len(key) = L /\ key \in Seq(ToSet(key))
    BY <1>5
  <2>3. /\ h <= M /\ h \in Nat /\ n \in Nat /\ L <= n /\ n <= DivCeil(MaxSeqLen)
        /\ L * PageSize <= c /\ L * PageSize <= x
    BY <1>1, <1>6, <1>7, <1>10
  <2>4. key = [i \in 1 .. Len(key) |-> BlockOf(HostIds(u), i)]
    BY <1>4, <2>2
  <2> QED BY <1>9, <2>1, <2>2, <2>3, <2>4 DEF KeyOf
<1> QED BY <1>11

(* Pages of a row, as a list. *)
ListsPages(q, r, lo, hi) ==
    /\ q \in Seq(Page) /\ Len(q) = hi - lo
    /\ \A i \in 1 .. hi - lo : q[i] = pageTable[r][lo + i - 1]
    /\ ToSet(q) = {pageTable[r][i] : i \in lo .. hi - 1}
    /\ (\A i, j \in lo .. hi - 1 : pageTable[r][i] = pageTable[r][j] => i = j) => IsInjective(q)

LEMMA PagesOfRowIs ==
    ASSUME Tables, NEW r \in Row, NEW lo \in Nat, NEW hi \in Nat,
           lo <= hi, hi <= DivCeil(MaxSeqLen), DivCeil(MaxSeqLen) \in Nat
    PROVE  ListsPages(PagesOfRow(r, lo, hi), r, lo, hi)
<1> PICK q, t, k : q = PagesOfRow(r, lo, hi) /\ t = pageTable[r] /\ k = hi - lo
  OBVIOUS
<1>1. k \in Nat /\ q = [i \in 1 .. k |-> t[lo + i - 1]]
  BY DEF PagesOfRow
<1>2. \A i \in lo .. hi - 1 : t[i] \in Page
  <2>1. \A i \in lo .. hi - 1 : i \in Columns
    BY DEF Columns
  <2> QED BY <2>1 DEF Tables
<1>3. \A i \in 1 .. k : lo + i - 1 \in lo .. hi - 1
  BY <1>1
<1>4. \A i \in lo .. hi - 1 : i - lo + 1 \in 1 .. k /\ lo + (i - lo + 1) - 1 = i
  BY <1>1
<1>5. q \in [1 .. k -> Page]
  BY <1>1, <1>2, <1>3
<1>6. q \in Seq(Page) /\ Len(q) = k /\ DOMAIN q = 1 .. k
  BY <1>1, <1>5
<1>7. ToSet(q) = {t[i] : i \in lo .. hi - 1}
  <2>1. \A i \in lo .. hi - 1 : t[i] = q[i - lo + 1]
    BY <1>1, <1>4
  <2>2. ASSUME NEW i \in lo .. hi - 1 PROVE t[i] \in ToSet(q)
    BY <1>4, <1>6, <2>1, <2>2 DEF ToSet
  <2>3. ASSUME NEW x \in ToSet(q) PROVE x \in {t[i] : i \in lo .. hi - 1}
    <3>1. PICK i \in 1 .. k : x = q[i]
      BY <1>6, <2>3 DEF ToSet
    <3>2. x = t[lo + i - 1]
      BY <1>1, <3>1
    <3> QED BY <1>3, <3>2
  <2> QED BY <2>2, <2>3
<1>8. ASSUME \A i, j \in lo .. hi - 1 : t[i] = t[j] => i = j
      PROVE  IsInjective(q)
  <2>1. ASSUME NEW i \in 1 .. k, NEW j \in 1 .. k, q[i] = q[j]
        PROVE  i = j
    <3>1. t[lo + i - 1] = t[lo + j - 1]
      BY <1>1, <2>1
    <3>2. lo + i - 1 = lo + j - 1
      BY <1>3, <1>8, <3>1
    <3> QED BY <3>2
  <2> QED BY <1>6, <2>1 DEF IsInjective
<1>9. ListsPages(q, r, lo, hi)
  BY <1>1, <1>6, <1>7, <1>8 DEF ListsPages
<1> QED BY <1>9

-----------------------------------------------------------------------------
(* What a request gives back. *)

(* The pages lo .. hi - 1 of the row of u. *)
Span(u, lo, hi) == {RowPage(u, i) : i \in lo .. hi - 1}

(* The pages of a request behind its handle, in three parts. *)
LEMMA OwnSplits ==
    ASSUME Owned, NEW u \in live, NEW key, NEW h, NEW M, NEW n, KeyOf(u, key, h, M, n)
    PROVE  LET L == Len(key) IN
           /\ OwnPages(u) = Span(u, h, M) \cup Span(u, M, L) \cup Span(u, L, n)
           /\ Span(u, h, M) \cap Span(u, M, L) = {}
           /\ Span(u, h, M) \cap Span(u, L, n) = {}
           /\ Span(u, M, L) \cap Span(u, L, n) = {}
           /\ \A i, j \in h .. n - 1 : RowPage(u, i) = RowPage(u, j) => i = j
           /\ \A i \in h .. n - 1 : RowPage(u, i) \in OwnPages(u)
<1>L. PICK L : L = Len(key)
  OBVIOUS
<1>1. h \in Nat /\ M \in Nat /\ L \in Nat /\ n \in Nat /\ h <= M /\ M <= L /\ L <= n
  BY <1>L DEF KeyOf
<1>2. OwnIndices(u) = h .. n - 1
  BY DEF OwnIndices, KeyOf
<1>3. OwnPages(u) = {RowPage(u, i) : i \in h .. n - 1}
  BY <1>2 DEF OwnPages
<1>4. \A i, j \in h .. n - 1 : RowPage(u, i) = RowPage(u, j) => i = j
  BY <1>2 DEF Owned
<1>5. /\ \A i : i \in h .. n - 1 <=> i \in h .. M - 1 \/ i \in M .. L - 1 \/ i \in L .. n - 1
      /\ \A i : ~(i \in h .. M - 1 /\ i \in M .. L - 1)
      /\ \A i : ~(i \in h .. M - 1 /\ i \in L .. n - 1)
      /\ \A i : ~(i \in M .. L - 1 /\ i \in L .. n - 1)
  BY <1>1
<1> DEFINE P == h .. M - 1
           Q == M .. L - 1
           R == L .. n - 1
           A == h .. n - 1
<1>6. /\ \A i : i \in A <=> i \in P \/ i \in Q \/ i \in R
      /\ \A i : ~(i \in P /\ i \in Q) /\ ~(i \in P /\ i \in R) /\ ~(i \in Q /\ i \in R)
      /\ \A i, j \in A : RowPage(u, i) = RowPage(u, j) => i = j
      /\ OwnPages(u) = {RowPage(u, i) : i \in A}
      /\ Span(u, h, M) = {RowPage(u, i) : i \in P}
      /\ Span(u, M, L) = {RowPage(u, i) : i \in Q}
      /\ Span(u, L, n) = {RowPage(u, i) : i \in R}
  BY <1>3, <1>4, <1>5 DEF Span
<1> HIDE DEF P, Q, R, A
<1>7. /\ OwnPages(u) = Span(u, h, M) \cup Span(u, M, L) \cup Span(u, L, n)
      /\ Span(u, h, M) \cap Span(u, M, L) = {}
      /\ Span(u, h, M) \cap Span(u, L, n) = {}
      /\ Span(u, M, L) \cap Span(u, L, n) = {}
      /\ \A i \in A : RowPage(u, i) \in OwnPages(u)
  BY <1>6
<1> QED BY <1>7, <1>4, <1>L DEF A

(* Inserting the key of u adds the pages of its row that are not cached yet. *)
LEMMA InsertKeyDoes ==
    ASSUME Tables, NEW u \in live, NEW key, NEW h, NEW M, NEW n, KeyOf(u, key, h, M, n),
           cached' = InsertPages(cached, key, PagesOfRow(req[u].row, 0, Len(key)))
    PROVE  /\ PrefixClosedSet(DOMAIN cached') /\ IsFiniteSet(DOMAIN cached')
           /\ DOMAIN cached \subseteq DOMAIN cached' /\ \A k \in DOMAIN cached : cached'[k] = cached[k]
           /\ CachedPages' = CachedPages \cup Span(u, M, Len(key))
           /\ \A m \in M + 1 .. Len(key) : /\ SubSeq(key, 1, m) \in DOMAIN cached'
                                           /\ cached'[SubSeq(key, 1, m)] = RowPage(u, m - 1)
           /\ Owned => \A k, m \in DOMAIN cached' : cached'[k] = cached'[m] => k = m
<1>L. PICK L, pages : L = Len(key) /\ pages = PagesOfRow(req[u].row, 0, Len(key))
  OBVIOUS
<1>1. /\ h \in Nat /\ M \in Nat /\ L \in Nat /\ n \in Nat /\ h <= M /\ M <= L /\ L <= n
      /\ M = MatchLen(cached, key) /\ key \in Seq(ToSet(key))
  BY <1>L DEF KeyOf
<1>2. pages = [i \in 1 .. L |-> RowPage(u, i - 1)]
  <2>1. pages = [i \in 1 .. L - 0 |-> pageTable[req[u].row][0 + i - 1]]
    BY <1>L DEF PagesOfRow
  <2>2. L - 0 = L /\ \A i \in 1 .. L : 0 + i - 1 = i - 1
    BY <1>1
  <2> QED BY <2>1, <2>2 DEF RowPage
<1>3. \A m \in M + 1 .. L : pages[m] = RowPage(u, m - 1) /\ m - 1 \in M .. L - 1 /\ m - 1 \in h .. n - 1
  BY <1>1, <1>2
<1>4. ASSUME Owned
      PROVE  Distinct(cached) /\ Unused(cached, pages, M + 1, L)
  <2>1. /\ \A i, j \in h .. n - 1 : RowPage(u, i) = RowPage(u, j) => i = j
        /\ \A i \in h .. n - 1 : RowPage(u, i) \in OwnPages(u)
    BY <1>4, OwnSplits
  <2>2. \A m \in M + 1 .. L : pages[m] \notin {cached[k] : k \in DOMAIN cached}
    BY <1>3, <1>4, <2>1 DEF Owned, CachedPages
  <2>3. ASSUME NEW i \in M + 1 .. L, NEW j \in M + 1 .. L, pages[i] = pages[j]
        PROVE  i = j
    <3>1. i - 1 = j - 1
      BY <1>3, <2>1, <2>3
    <3> QED BY <3>1
  <2> QED BY <1>4, <2>2, <2>3 DEF Owned, Distinct, Unused
<1>7. Inserted(cached, key, pages, M, cached')
  <2>1. PrefixClosedSet(DOMAIN cached)
    BY DEF Tables
  <2>2. cached' = InsertPages(cached, key, pages)
    BY <1>L
  <2>4. Inserted(cached, key, pages, M, InsertPages(cached, key, pages))
    BY <1>1, <2>1, InsertDoes
  <2> QED BY <2>2, <2>4
<1>8. {pages[m] : m \in M + 1 .. L} = Span(u, M, L)
  <2>1. \A i \in M .. L - 1 : i + 1 \in M + 1 .. L /\ i + 1 - 1 = i
    BY <1>1
  <2>2. ASSUME NEW i \in M .. L - 1 PROVE RowPage(u, i) \in {pages[m] : m \in M + 1 .. L}
    <3>1. pages[i + 1] = RowPage(u, i + 1 - 1)
      BY <1>3, <2>1
    <3> QED BY <2>1, <3>1
  <2> QED BY <1>3, <2>2 DEF Span
<1>9. CachedPages' = CachedPages \cup Span(u, M, L)
  BY <1>7, <1>8, <1>L DEF Inserted, CachedPages
<1>10. Owned => \A k, m \in DOMAIN cached' : cached'[k] = cached'[m] => k = m
  BY <1>4, <1>7, <1>L DEF Inserted, Distinct
<1>11. IsFiniteSet(DOMAIN cached')
  <2>1. PICK c, k : c = cached /\ k = key
    OBVIOUS
  <2>2. DOMAIN cached' = DOMAIN c \cup PrefixesOf(k)
    BY <2>1 DEF InsertPages
  <2>3. IsFiniteSet(DOMAIN c) /\ IsFiniteSet(PrefixesOf(k))
    BY <1>1, <2>1, PrefixesFinite DEF Tables
  <2> QED BY <2>2, <2>3, FS_Union
<1> QED BY <1>3, <1>7, <1>9, <1>10, <1>11, <1>L DEF Inserted

(* What is given back, as lists. *)
LEMMA GivenBack ==
    ASSUME SizesAssumption, RequestsAssumption, LifeInv, Extents, Tables, NEW u \in live,
           NEW key, NEW h, NEW M, NEW n, KeyOf(u, key, h, M, n)
    PROVE  /\ AlreadyCached(u) \in Seq(Page) /\ ToSet(AlreadyCached(u)) = Span(u, h, M)
           /\ AlreadyCached(u) = <<>> => h = M
           /\ TailPages(u) \in Seq(Page) /\ ToSet(TailPages(u)) = Span(u, Len(key), n)
           /\ Owned => IsInjective(AlreadyCached(u)) /\ IsInjective(TailPages(u))
<1>L. PICK L, r, D : L = Len(key) /\ r = req[u].row /\ D = DivCeil(MaxSeqLen)
  OBVIOUS
<1>1. /\ h \in Nat /\ M \in Nat /\ L \in Nat /\ n \in Nat /\ h <= M /\ M <= L /\ L <= n
      /\ n <= D /\ D \in Nat
  <2>1. DivCeil(MaxSeqLen) \in Nat
    BY ColumnsIs
  <2> QED BY <2>1, <1>L DEF KeyOf
<1>2. r \in Row
  BY <1>L, LensOf
<1>3. AlreadyCached(u) = PagesOfRow(r, h, M) /\ TailPages(u) = PagesOfRow(r, L, n)
  BY <1>L DEF KeyOf, AlreadyCached, TailPages
<1>4. ListsPages(PagesOfRow(r, h, M), r, h, M) /\ ListsPages(PagesOfRow(r, L, n), r, L, n)
  <2>1. M <= DivCeil(MaxSeqLen) /\ n <= DivCeil(MaxSeqLen) /\ DivCeil(MaxSeqLen) \in Nat
    BY <1>1, <1>L
  <2>2. ListsPages(PagesOfRow(r, h, M), r, h, M)
    BY <1>1, <1>2, <2>1, PagesOfRowIs
  <2>3. ListsPages(PagesOfRow(r, L, n), r, L, n)
    BY <1>1, <1>2, <2>1, PagesOfRowIs
  <2> QED BY <2>2, <2>3
<1>5. ASSUME Owned
      PROVE  /\ \A i, j \in h .. M - 1 : pageTable[r][i] = pageTable[r][j] => i = j
             /\ \A i, j \in L .. n - 1 : pageTable[r][i] = pageTable[r][j] => i = j
  <2>1. /\ \A i \in h .. M - 1 : i \in h .. n - 1
        /\ \A i \in L .. n - 1 : i \in h .. n - 1
    BY <1>1
  <2>2. \A i, j \in h .. n - 1 : RowPage(u, i) = RowPage(u, j) => i = j
    BY <1>5, OwnSplits
  <2>3. \A i, j \in h .. n - 1 : pageTable[r][i] = pageTable[r][j] => i = j
    BY <2>2, <1>L DEF RowPage
  <2> QED BY <2>1, <2>3
<1>6. Span(u, h, M) = {pageTable[r][i] : i \in h .. M - 1} /\ Span(u, L, n) = {pageTable[r][i] : i \in L .. n - 1}
  BY <1>L DEF Span, RowPage
<1>7. PagesOfRow(r, h, M) = <<>> => h = M
  <2>1. Len(<<>>) = 0 /\ Len(PagesOfRow(r, h, M)) = M - h
    BY <1>4 DEF ListsPages
  <2> QED BY <1>1, <2>1
<1>8. Owned => IsInjective(PagesOfRow(r, h, M)) /\ IsInjective(PagesOfRow(r, L, n))
  BY <1>4, <1>5 DEF ListsPages
<1> QED BY <1>3, <1>4, <1>6, <1>7, <1>8, <1>L DEF ListsPages

LEMMA SpanPages ==
    ASSUME SizesAssumption, RequestsAssumption, LifeInv, Tables, Extents, NEW u \in live,
           NEW key, NEW h, NEW M, NEW n, KeyOf(u, key, h, M, n)
    PROVE  Span(u, M, Len(key)) \subseteq Page
<1>1. PICK r, L : r = req[u].row /\ L = Len(key)
  OBVIOUS
<1>2. /\ M \in Nat /\ L \in Nat /\ n \in Nat /\ M <= L /\ L <= n
      /\ n <= DivCeil(MaxSeqLen) /\ DivCeil(MaxSeqLen) \in Nat
  BY <1>1, ColumnsIs DEF KeyOf
<1>3. r \in Row
  BY <1>1, LensOf
<1>4. \A i \in M .. L - 1 : i \in Columns
  BY <1>2 DEF Columns
<1>5. \A i \in M .. L - 1 : pageTable[r][i] \in Page
  BY <1>3, <1>4 DEF Tables
<1> QED BY <1>1, <1>5 DEF Span, RowPage

(* Whatever is given back, the tables stay well-formed. *)
LEMMA InflightIs ==
    ASSUME SizesAssumption, RequestsAssumption, LifeInv, Extents, Tables, NEW u \in live,
           NEW isInflight
    PROVE  /\ InflightPages(u, isInflight) \in Seq(Page)
           /\ DivCeil(req[u].cached) = DivCeil(req[u].device) \/ ~isInflight
                 => InflightPages(u, isInflight) = <<>>
<1>1. PICK r, lo, hi : /\ r = req[u].row /\ lo = DivCeil(req[u].cached)
                       /\ hi = DivCeil(req[u].device)
  OBVIOUS
<1>2. r \in Row /\ lo \in Nat /\ hi \in Nat /\ lo <= hi /\ hi <= DivCeil(MaxSeqLen)
  BY <1>1, LensOf
<1>3. PICK q : q = PagesOfRow(r, lo, hi)
  OBVIOUS
<1>4. ListsPages(q, r, lo, hi)
  BY <1>2, <1>3, PagesOfRowIs, ColumnsIs
<1>5. InflightPages(u, isInflight) = IF isInflight THEN q ELSE <<>>
  BY <1>1, <1>3 DEF InflightPages
<1>6. q \in Seq(Page) /\ Len(q) = hi - lo
  BY <1>4 DEF ListsPages
<1>7. lo = hi => q = <<>>
  <2>1. lo = hi => Len(q) = 0
    BY <1>2, <1>6
  <2> QED BY <1>6, <2>1, EmptySeq
<1> QED BY <1>1, <1>5, <1>6, <1>7

LEMMA FreeTables ==
    ASSUME SizesAssumption, RequestsAssumption, LifeInv, Locks, Tables, Extents,
           NEW u \in live, NEW isInflight, FreeReqResources(u, isInflight)
    PROVE  Tables'
<1>1. PICK key : \E h, M, n : KeyOf(u, key, h, M, n)
  BY KeyIs
<1>2. PICK h : \E M, n : KeyOf(u, key, h, M, n)
  BY <1>1
<1>3. PICK M : \E n : KeyOf(u, key, h, M, n)
  BY <1>2
<1>4. PICK n : KeyOf(u, key, h, M, n)
  BY <1>3
<1>5. /\ cached' = InsertPages(cached, key, PagesOfRow(req[u].row, 0, Len(key)))
      /\ free' = free \o InflightPages(u, isInflight) \o AlreadyCached(u) \o TailPages(u)
      /\ lazy' = lazy /\ pageTable' = pageTable
  BY <1>4 DEF FreeReqResources, CacheReq, KeyOf
<1>6. /\ PrefixClosedSet(DOMAIN cached') /\ IsFiniteSet(DOMAIN cached')
      /\ CachedPages' = CachedPages \cup Span(u, M, Len(key))
  BY <1>4, <1>5, InsertKeyDoes
<1>7. Span(u, M, Len(key)) \subseteq Page
  BY <1>4, SpanPages
<1>8. free' \in Seq(Page)
  <2>1. PICK f, i, a, c : /\ f = free /\ i = InflightPages(u, isInflight)
                          /\ a = AlreadyCached(u) /\ c = TailPages(u)
    OBVIOUS
  <2>2. f \in Seq(Page) /\ i \in Seq(Page) /\ a \in Seq(Page) /\ c \in Seq(Page)
    BY <1>4, <2>1, GivenBack, InflightIs DEF Tables
  <2>3. f \o i \in Seq(Page)
    BY <2>2
  <2>4. (f \o i) \o a \in Seq(Page)
    BY <2>2, <2>3
  <2>5. ((f \o i) \o a) \o c \in Seq(Page)
    BY <2>2, <2>4
  <2> QED BY <1>5, <2>1, <2>5
<1> QED BY <1>5, <1>6, <1>7, <1>8 DEF Tables

(* A request's row and pages are given back. *)
LEMMA FreeOwned ==
    ASSUME SizesAssumption, RequestsAssumption, LifeInv, Locks, Tables, Extents, Owned,
           NEW u \in live, NEW isInflight, FreeReqResources(u, isInflight),
           InflightPages(u, isInflight) = <<>>
    PROVE  Owned'
<1>1. PICK key : \E h, M, n : KeyOf(u, key, h, M, n)
  BY KeyIs
<1>2. PICK h : \E M, n : KeyOf(u, key, h, M, n)
  BY <1>1
<1>3. PICK M : \E n : KeyOf(u, key, h, M, n)
  BY <1>2
<1>4. PICK n : KeyOf(u, key, h, M, n)
  BY <1>3
<1> DEFINE L == Len(key)
           A == Span(u, h, M)
           B == Span(u, M, L)
           C == Span(u, L, n)
<1>5. /\ OwnPages(u) = A \cup B \cup C
      /\ A \cap B = {} /\ A \cap C = {} /\ B \cap C = {}
  BY <1>4, OwnSplits
<1>6. /\ cached' = InsertPages(cached, key, PagesOfRow(req[u].row, 0, Len(key)))
      /\ free' = free \o <<>> \o AlreadyCached(u) \o TailPages(u)
      /\ live' = live \ {u} /\ req' = req /\ lazy' = lazy /\ pageTable' = pageTable
  BY <1>4 DEF FreeReqResources, CacheReq, KeyOf
<1>7. /\ PrefixClosedSet(DOMAIN cached')
      /\ \A k, m \in DOMAIN cached' : cached'[k] = cached'[m] => k = m
      /\ CachedPages' = CachedPages \cup B
  BY <1>4, <1>6, InsertKeyDoes
<1>8. /\ AlreadyCached(u) \in Seq(Page) /\ IsInjective(AlreadyCached(u))
      /\ ToSet(AlreadyCached(u)) = A
      /\ TailPages(u) \in Seq(Page) /\ IsInjective(TailPages(u))
      /\ ToSet(TailPages(u)) = C
  BY <1>4, GivenBack
<1>9. OwnPages(u) \cap (ToSet(free) \cup ToSet(lazy) \cup CachedPages) = {}
  BY DEF Owned
<1> HIDE DEF A, B, C
<1>10. /\ free' \in Seq(Page) /\ ToSet(free') = ToSet(free) \cup A \cup C /\ IsInjective(free')
  <2>1. free \in Seq(Page) /\ IsInjective(free)
    BY DEF Tables, Owned
  <2>2. free \o <<>> = free
    BY <2>1
  <2> PICK f, a, c : f = free /\ a = AlreadyCached(u) /\ c = TailPages(u)
    OBVIOUS
  <2>3. /\ f \o a \in Seq(Page) /\ ToSet(f \o a) = ToSet(f) \cup ToSet(a) /\ IsInjective(f \o a)
    <3>1. ToSet(f) \cap ToSet(a) = {}
      BY <1>5, <1>8, <1>9
    <3> QED BY <1>8, <2>1, <3>1, ConcatIs
  <2>4. PICK g : g = f \o a
    OBVIOUS
  <2>5. g \o c \in Seq(Page) /\ ToSet(g \o c) = ToSet(g) \cup ToSet(c) /\ IsInjective(g \o c)
    <3>1. ToSet(g) \cap ToSet(c) = {}
      BY <1>5, <1>8, <1>9, <2>3, <2>4
    <3>2. /\ g \in Seq(Page) /\ IsInjective(g) /\ c \in Seq(Page) /\ IsInjective(c)
      BY <1>8, <2>3, <2>4
    <3> QED BY <3>1, <3>2, ConcatIs
  <2>6. free' = g \o c
    BY <1>6, <2>2, <2>4
  <2> QED BY <1>8, <2>3, <2>4, <2>5, <2>6
<1>11. \A v \in live' : v \in live /\ v # u /\ OwnPages(v)' = OwnPages(v)
  BY <1>6 DEF OwnPages, OwnIndices, RowPage
<1>14. Owned'
  <2>1. IsInjective(free') /\ IsInjective(lazy')
    BY <1>6, <1>10 DEF Owned
  <2>2. \A v \in live' : \A i, j \in OwnIndices(v)' : RowPage(v, i)' = RowPage(v, j)' => i = j
    <3>1. \A v \in live' : v \in live /\ OwnIndices(v)' = OwnIndices(v)
      BY <1>6 DEF OwnIndices
    <3>2. \A v, i : RowPage(v, i)' = RowPage(v, i)
      BY <1>6 DEF RowPage
    <3>3. \A v \in live : \A i, j \in OwnIndices(v) : RowPage(v, i) = RowPage(v, j) => i = j
      BY DEF Owned
    <3> QED BY <3>1, <3>2, <3>3
  <2>3. ToSet(free') \cap ToSet(lazy') = {}
    BY <1>5, <1>6, <1>9, <1>10 DEF Owned
  <2>4. CachedPages' \cap (ToSet(free') \cup ToSet(lazy')) = {}
    BY <1>5, <1>6, <1>7, <1>9, <1>10 DEF Owned
  <2>5. \A v \in live' : OwnPages(v)' \cap (ToSet(free') \cup ToSet(lazy') \cup CachedPages') = {}
    BY <1>5, <1>6, <1>7, <1>10, <1>11 DEF Owned
  <2>6. \A v, w \in live' : v # w => OwnPages(v)' \cap OwnPages(w)' = {}
    BY <1>11 DEF Owned
  <2>7. ASSUME NEW p \in Page
        PROVE  p \in ToSet(free') \cup ToSet(lazy') \cup CachedPages'
                  \/ \E v \in live' : p \in OwnPages(v)'
    <3>1. CASE p \in ToSet(free) \cup ToSet(lazy) \cup CachedPages
      BY <1>6, <1>7, <1>10, <3>1
    <3>2. CASE p \in OwnPages(u)
      BY <1>5, <1>7, <1>10, <3>2
    <3>3. CASE \E v \in live : v # u /\ p \in OwnPages(v)
      BY <1>6, <1>11, <3>3
    <3> QED BY <3>1, <3>2, <3>3 DEF Owned
  <2> QED BY <1>7, <2>1, <2>2, <2>3, <2>4, <2>5, <2>6, <2>7 DEF Owned
<1> QED BY <1>14

-----------------------------------------------------------------------------
(* What a launch writes. *)

(* The pages of u end before From, and after its next launch before Upto. *)
From(u)  == DivCeil(req[u].cached)
Upto(u)  == DivCeil(req[u].device)

(* The table that _write_page_table leaves: the pages allocated for a       *)
(* request fill its row from where it ended, everything else stays.         *)
Written(us, s, allocated, table) ==
    /\ table = [r \in Row |-> [p \in Columns |-> table[r][p]]]
    /\ \A i \in 1 .. Len(us) : \A p \in From(us[i]) .. Upto(us[i]) - 1 :
          table[req[us[i]].row][p] = allocated[s[i - 1] + p - From(us[i]) + 1]
    /\ \A v \in live : \A p \in Columns :
          v \notin ToSet(us) \/ p < From(v) => table[req[v].row][p] = RowPage(v, p)
    /\ \A r \in Row : \A p \in Columns :
          \/ table[r][p] = pageTable[r][p]
          \/ \E i \in 1 .. Len(us) : r = req[us[i]].row /\ p \in From(us[i]) .. Upto(us[i]) - 1

LEMMA Within ==
    ASSUME NEW a \in Nat, NEW b \in Nat, NEW d \in Nat, b <= d, NEW p \in a .. b - 1
    PROVE  p \in 0 .. d - 1
  OBVIOUS

LEMMA OneBefore ==
    ASSUME NEW n \in Nat, NEW i \in 1 .. n
    PROVE  i - 1 \in 0 .. n
  OBVIOUS

LEMMA WrittenIs ==
    ASSUME SizesAssumption, RequestsAssumption, LifeInv, Tables, Extents,
           NEW us \in Seq(Uid), IsInjective(us), ToSet(us) \subseteq live,
           NEW s, \A i \in 0 .. Len(us) : PagesBefore(us, i) = s[i], NEW allocated
    PROVE  Written(us, s, allocated, WritePageTable(us, allocated))
<1> DEFINE Mine(r, p) == {i \in 1 .. Len(us) : /\ req[us[i]].row = r
                                               /\ p \in From(us[i]) .. Upto(us[i]) - 1}
           At(i, p) == allocated[PagesBefore(us, i - 1) + p - From(us[i]) + 1]
           Value(r, p) == IF Mine(r, p) = {} THEN pageTable[r][p]
                          ELSE At(CHOOSE i \in Mine(r, p) : TRUE, p)
<1>1. PICK table : table = WritePageTable(us, allocated)
  OBVIOUS
<1>2. \A r \in Row : DOMAIN pageTable[r] = Columns
  BY DEF Tables
<1>3. table = [r \in Row |-> [p \in Columns |-> Value(r, p)]]
  <2>1. table = [r \in Row |-> [p \in DOMAIN pageTable[r] |-> Value(r, p)]]
    BY <1>1 DEF WritePageTable, From, Upto
  <2> HIDE DEF Value
  <2> QED BY <1>2, <2>1, SMTT(30)
<1>4. \A r \in Row : \A p \in Columns : table[r][p] = Value(r, p)
  <2> HIDE DEF Value
  <2> QED BY <1>3
<1>5. Len(us) \in Nat /\ DOMAIN us = 1 .. Len(us) /\ \A i \in 1 .. Len(us) : us[i] \in ToSet(us)
  BY DEF ToSet
<1>6. ASSUME NEW i \in 1 .. Len(us), NEW j \in 1 .. Len(us), req[us[i]].row = req[us[j]].row
      PROVE  i = j
  <2>1. us[i] \in live /\ us[j] \in live
    BY <1>5
  <2>2. us[i] = us[j]
    BY <1>6, <2>1 DEF LifeInv, Rows
  <2> QED BY <1>5, <2>2 DEF IsInjective
<1>7. \A v \in live : req[v].row \in Row
  BY LensOf
<1>8. ASSUME NEW i \in 1 .. Len(us), NEW p \in From(us[i]) .. Upto(us[i]) - 1
      PROVE  table[req[us[i]].row][p] = allocated[s[i - 1] + p - From(us[i]) + 1]
  <2>1. us[i] \in live /\ req[us[i]].row \in Row
    BY <1>5, <1>7
  <2>2. p \in Columns
    <3>1. PICK a, b, d : a = From(us[i]) /\ b = Upto(us[i]) /\ d = DivCeil(MaxSeqLen)
      OBVIOUS
    <3>2. a \in Nat /\ b \in Nat /\ b <= d /\ d \in Nat
      <4>1. DivCeil(MaxSeqLen) \in Nat
        BY ColumnsIs
      <4> QED BY <2>1, <3>1, <4>1, LensOf DEF From, Upto
    <3>3. p \in a .. b - 1
      BY <3>1
    <3>4. p \in 0 .. d - 1
      BY <3>2, <3>3, Within
    <3> QED BY <3>1, <3>4 DEF Columns
  <2>3. Mine(req[us[i]].row, p) = {i}
    BY <1>6
  <2>4. (CHOOSE j \in Mine(req[us[i]].row, p) : TRUE) = i
    BY <2>3
  <2>5. table[req[us[i]].row][p] = At(i, p)
    <3>1. table[req[us[i]].row][p] = Value(req[us[i]].row, p)
      BY <1>4, <2>1, <2>2
    <3> HIDE DEF Mine, At
    <3> QED BY <2>3, <2>4, <3>1
  <2>6. i - 1 \in 0 .. Len(us)
    BY <1>5, OneBefore
  <2>7. PagesBefore(us, i - 1) = s[i - 1]
    BY <2>6
  <2> QED BY <2>5, <2>7
<1>9. ASSUME NEW v \in live, NEW p \in Columns, v \notin ToSet(us) \/ p < From(v)
      PROVE  table[req[v].row][p] = RowPage(v, p)
  <2>1. Mine(req[v].row, p) = {}
    <3> SUFFICES ASSUME NEW i \in 1 .. Len(us), req[us[i]].row = req[v].row,
                        p \in From(us[i]) .. Upto(us[i]) - 1
                 PROVE  FALSE
      OBVIOUS
    <3>1. us[i] \in ToSet(us) /\ us[i] \in live
      BY <1>5
    <3>2. us[i] = v
      BY <3>1 DEF LifeInv, Rows
    <3>3. p \in Int /\ From(v) <= p
      BY <3>2 DEF Columns
    <3>4. From(v) \in Nat
      BY LensOf DEF From
    <3> QED BY <1>9, <3>1, <3>2, <3>3, <3>4
  <2>2. req[v].row \in Row
    BY <1>7
  <2> HIDE DEF Mine, At
  <2> QED BY <1>4, <2>1, <2>2 DEF RowPage
<1>10. ASSUME NEW r \in Row, NEW p \in Columns
       PROVE  \/ table[r][p] = pageTable[r][p]
              \/ \E i \in 1 .. Len(us) : r = req[us[i]].row /\ p \in From(us[i]) .. Upto(us[i]) - 1
  <2>1. CASE Mine(r, p) = {}
    <3> HIDE DEF Mine, At
    <3> QED BY <1>4, <2>1
  <2>2. CASE Mine(r, p) # {}
    BY <2>2
  <2> QED BY <2>1, <2>2
<1>11. table = [r \in Row |-> [p \in Columns |-> table[r][p]]]
  <2> HIDE DEF Value
  <2> QED BY <1>3
<1>12. Written(us, s, allocated, table)
  <2> HIDE DEF Mine, At, Value
  <2> QED BY <1>8, <1>9, <1>10, <1>11, Zenon DEF Written
<1> QED BY <1>1, <1>12

(* What allocation is given: a list of live requests, each once, and what   *)
(* those before each of them need.                                          *)
Sliced(us, s) ==
    /\ us \in Seq(Uid) /\ IsInjective(us) /\ ToSet(us) \subseteq live
    /\ s \in [0 .. Len(us) -> Nat] /\ s[0] = 0
    /\ \A i \in 1 .. Len(us) : s[i] = s[i - 1] + (Upto(us[i]) - From(us[i]))
    /\ \A i \in 0 .. Len(us) : PagesBefore(us, i) = s[i]

LEMMA SlicedIs ==
    ASSUME SizesAssumption, RequestsAssumption, LifeInv, Extents,
           NEW us \in Seq(Uid), IsInjective(us), ToSet(us) \subseteq live
    PROVE  \E s : Sliced(us, s)
<1>1. \A u \in ToSet(us) : NeededPages(u) \in Nat /\ NeededPages(u) = Upto(u) - From(u)
  <2> TAKE u \in ToSet(us)
  <2>1. From(u) \in Nat /\ Upto(u) \in Nat /\ From(u) <= Upto(u)
    BY LensOf DEF From, Upto
  <2>2. NeededPages(u) = Upto(u) - From(u)
    BY DEF NeededPages, From, Upto
  <2>3. PICK a, b : a = From(u) /\ b = Upto(u)
    OBVIOUS
  <2>4. b - a \in Nat
    BY <2>1, <2>3
  <2> QED BY <2>2, <2>3, <2>4
<1>2. \E s \in [0 .. Len(us) -> Nat] :
        /\ s[0] = 0
        /\ \A i \in 1 .. Len(us) : s[i] = s[i - 1] + NeededPages(us[i])
        /\ \A i \in 0 .. Len(us) : PagesBefore(us, i) = s[i]
  BY <1>1, PagesBeforeIs
<1>3. \A i \in 1 .. Len(us) : us[i] \in ToSet(us)
  BY DEF ToSet
<1> QED BY <1>1, <1>2, <1>3 DEF Sliced

(* Page m of those allocated is for index i of the row of v. *)
Fresh(us, s, v, i, m) ==
    /\ v \in live /\ i \in From(v) .. Upto(v) - 1
    /\ \E a \in 1 .. Len(us) : /\ v = us[a] /\ m = s[a - 1] + i - From(v) + 1
                               /\ s[a - 1] < m /\ m <= s[a]

LEMMA SliceOnce ==
    ASSUME NEW n \in Nat, NEW s \in [0 .. n -> Nat], \A i \in 1 .. n : s[i - 1] <= s[i],
           NEW a \in 1 .. n, NEW b \in 1 .. n, NEW m \in Int,
           s[a - 1] < m, m <= s[a], s[b - 1] < m, m <= s[b]
    PROVE  a = b
<1>1. ASSUME NEW c \in 1 .. n, NEW d \in 1 .. n, c < d, m <= s[c], s[d - 1] < m
      PROVE  FALSE
  <2>1. c \in 0 .. n /\ d - 1 \in 0 .. n /\ c <= d - 1
    BY <1>1
  <2>2. s[c] <= s[d - 1]
    BY <2>1, SlicesGrow
  <2>3. s[c] \in Nat /\ s[d - 1] \in Nat
    BY <2>1
  <2> QED BY <1>1, <2>2, <2>3
<1>2. a < b \/ b < a \/ a = b
  OBVIOUS
<1> QED BY <1>1, <1>2

LEMMA SlicedTypes ==
    ASSUME SizesAssumption, RequestsAssumption, LifeInv, Extents, NEW us, NEW s, Sliced(us, s)
    PROVE  /\ Len(us) \in Nat /\ s \in [0 .. Len(us) -> Nat]
           /\ \A i \in 1 .. Len(us) : us[i] \in live
           /\ \A i \in 1 .. Len(us) : s[i - 1] <= s[i]
           /\ \A v \in live : From(v) \in Nat /\ Upto(v) \in Nat /\ From(v) <= Upto(v)
           /\ \A v \in live : Upto(v) <= DivCeil(MaxSeqLen)
<1>1. Len(us) \in Nat /\ s \in [0 .. Len(us) -> Nat]
  BY DEF Sliced
<1>2. \A v \in live : /\ From(v) \in Nat /\ Upto(v) \in Nat /\ From(v) <= Upto(v)
                      /\ Upto(v) <= DivCeil(MaxSeqLen)
  BY LensOf DEF From, Upto
<1>3. \A i \in 1 .. Len(us) : us[i] \in live
  BY DEF Sliced, ToSet
<1>4. ASSUME NEW i \in 1 .. Len(us)
      PROVE  s[i - 1] <= s[i]
  <2>1. s[i] = s[i - 1] + (Upto(us[i]) - From(us[i]))
    BY DEF Sliced
  <2>2. PICK a, b, c, d : a = s[i] /\ b = s[i - 1] /\ c = Upto(us[i]) /\ d = From(us[i])
    OBVIOUS
  <2>3. i - 1 \in 0 .. Len(us) /\ i \in 0 .. Len(us)
    BY <1>1
  <2>4. a \in Nat /\ b \in Nat
    BY <1>1, <2>2, <2>3
  <2>5. c \in Nat /\ d \in Nat /\ d <= c
    BY <1>2, <1>3, <2>2
  <2>6. a = b + (c - d)
    BY <2>1, <2>2
  <2>7. b <= a
    BY <2>4, <2>5, <2>6
  <2> QED BY <2>2, <2>7
<1> QED BY <1>1, <1>2, <1>3, <1>4

LEMMA SameOffset ==
    ASSUME NEW x \in Nat, NEW f \in Nat
    PROVE  \A k, l \in Int : x + k - f + 1 = x + l - f + 1 => k = l
  OBVIOUS

LEMMA FreshOnce ==
    ASSUME SizesAssumption, RequestsAssumption, LifeInv, Extents, NEW us, NEW s, Sliced(us, s),
           NEW v, NEW i, NEW w, NEW j, NEW m, Fresh(us, s, v, i, m), Fresh(us, s, w, j, m)
    PROVE  v = w /\ i = j
<1>1. PICK a \in 1 .. Len(us) : /\ v = us[a] /\ m = s[a - 1] + i - From(v) + 1
                                /\ s[a - 1] < m /\ m <= s[a]
  BY DEF Fresh
<1>2. PICK b \in 1 .. Len(us) : /\ w = us[b] /\ m = s[b - 1] + j - From(w) + 1
                                /\ s[b - 1] < m /\ m <= s[b]
  BY DEF Fresh
<1>3. PICK n, f, x : n = Len(us) /\ f = From(v) /\ x = s[a - 1]
  OBVIOUS
<1>4. n \in Nat /\ s \in [0 .. n -> Nat] /\ \A e \in 1 .. n : s[e - 1] <= s[e]
  BY <1>3, SlicedTypes
<1>5. v \in live /\ i \in Int /\ j \in Int
  BY DEF Fresh
<1>6. f \in Nat
  BY <1>3, <1>5, SlicedTypes
<1>7. a \in 1 .. n /\ b \in 1 .. n
  BY <1>3
<1>8. x \in Nat
  <2>1. a - 1 \in 0 .. n
    BY <1>4, <1>7
  <2> QED BY <1>3, <1>4, <2>1
<1>9. m = x + i - f + 1
  BY <1>1, <1>3
<1>10. m \in Int
  BY <1>5, <1>6, <1>8, <1>9
<1>11. a = b
  BY <1>1, <1>2, <1>4, <1>7, <1>10, SliceOnce
<1>12. v = w
  BY <1>1, <1>2, <1>11
<1>13. m = x + j - f + 1
  BY <1>2, <1>3, <1>11, <1>12
<1>14. \A k, l \in Int : x + k - f + 1 = x + l - f + 1 => k = l
  BY <1>6, <1>8, SameOffset
<1>15. x + i - f + 1 = x + j - f + 1
  BY <1>9, <1>13
<1>16. i = j
  BY <1>5, <1>14, <1>15
<1> QED BY <1>12, <1>16

LEMMA FreshAll ==
    ASSUME SizesAssumption, RequestsAssumption, LifeInv, Extents, NEW us, NEW s, Sliced(us, s),
           NEW m \in 1 .. s[Len(us)]
    PROVE  \E v, i : Fresh(us, s, v, i, m)
<1>1. PICK n : n = Len(us)
  OBVIOUS
<1>2. n \in Nat /\ s \in [0 .. n -> Nat] /\ \A e \in 1 .. n : s[e - 1] <= s[e]
  BY <1>1, SlicedTypes
<1>3. s[0] = 0 /\ m \in 1 .. s[n]
  BY <1>1 DEF Sliced
<1>4. PICK a \in 1 .. n : s[a - 1] < m /\ m <= s[a]
  BY <1>2, <1>3, SlicesCover
<1>5. PICK v : v = us[a]
  OBVIOUS
<1>6. v \in live
  BY <1>1, <1>5, SlicedTypes
<1>7. PICK f, g, x, y : f = From(v) /\ g = Upto(v) /\ x = s[a - 1] /\ y = s[a]
  OBVIOUS
<1>8. f \in Nat /\ g \in Nat /\ f <= g
  BY <1>6, <1>7, SlicedTypes
<1>9. x \in Nat /\ y \in Nat
  <2>1. a - 1 \in 0 .. n /\ a \in 0 .. n
    BY <1>2
  <2> QED BY <1>2, <1>7, <2>1
<1>10. y = x + (g - f)
  BY <1>1, <1>5, <1>7 DEF Sliced
<1>11. m \in Int /\ x < m /\ m <= y
  BY <1>4, <1>7
<1>12. PICK i : i = m - x - 1 + f
  OBVIOUS
<1>13. i \in f .. g - 1
  BY <1>8, <1>9, <1>10, <1>11, <1>12
<1>14. m = x + i - f + 1
  BY <1>8, <1>9, <1>11, <1>12
<1> QED BY <1>1, <1>4, <1>5, <1>6, <1>7, <1>13, <1>14 DEF Fresh

(* The pages of the indices behind those it had are fresh, one each. *)
LEMMA FreshAt ==
    ASSUME SizesAssumption, RequestsAssumption, LifeInv, Extents, NEW us, NEW s, Sliced(us, s),
           NEW v \in ToSet(us), NEW i \in From(v) .. Upto(v) - 1,
           NEW allocated, NEW table, Written(us, s, allocated, table)
    PROVE  \E m \in 1 .. s[Len(us)] : /\ Fresh(us, s, v, i, m)
                                      /\ table[req[v].row][i] = allocated[m]
<1>1. PICK n : n = Len(us)
  OBVIOUS
<1>2. n \in Nat /\ s \in [0 .. n -> Nat] /\ \A e \in 1 .. n : s[e - 1] <= s[e]
  BY <1>1, SlicedTypes
<1>3. PICK a \in 1 .. n : v = us[a]
  BY <1>1 DEF ToSet, Sliced
<1>4. v \in live
  BY DEF Sliced
<1>5. PICK f, g, x, y, z : f = From(v) /\ g = Upto(v) /\ x = s[a - 1] /\ y = s[a] /\ z = s[n]
  OBVIOUS
<1>6. f \in Nat /\ g \in Nat /\ f <= g
  BY <1>4, <1>5, SlicedTypes
<1>7. x \in Nat /\ y \in Nat /\ z \in Nat /\ y <= z
  <2>1. a - 1 \in 0 .. n /\ a \in 0 .. n /\ n \in 0 .. n /\ a <= n
    BY <1>2
  <2> QED BY <1>2, <1>5, <2>1, SlicesGrow
<1>8. y = x + (g - f)
  BY <1>1, <1>3, <1>5 DEF Sliced
<1>9. i \in f .. g - 1
  BY <1>5
<1>10. PICK m : m = x + i - f + 1
  OBVIOUS
<1>11. m \in 1 .. z /\ x < m /\ m <= y
  BY <1>6, <1>7, <1>8, <1>9, <1>10
<1>12. table[req[v].row][i] = allocated[s[a - 1] + i - From(us[a]) + 1]
  BY <1>1, <1>3 DEF Written
<1>13. table[req[v].row][i] = allocated[m]
  BY <1>3, <1>5, <1>10, <1>12
<1>14. Fresh(us, s, v, i, m)
  BY <1>1, <1>3, <1>4, <1>5, <1>10, <1>11 DEF Fresh
<1> QED BY <1>1, <1>5, <1>11, <1>13, <1>14

(* A set and its image under a map that keeps its elements apart. *)
LEMMA ImageSize ==
    ASSUME NEW c, NEW S, NEW T, IsFiniteSet(T), \A k \in S : c[k] \in T,
           \A k, m \in S : c[k] = c[m] => k = m
    PROVE  /\ IsFiniteSet(S)
           /\ IsFiniteSet({c[k] : k \in S})
           /\ Cardinality({c[k] : k \in S}) = Cardinality(S)
<1> DEFINE I == {c[k] : k \in S}
           f == [k \in S |-> c[k]]
<1>1. f \in [S -> T] /\ \A k, m \in S : f[k] = f[m] => k = m
  OBVIOUS
<1>2. f \in Injection(S, T)
  BY <1>1 DEF Injection, IsInjective
<1>3. IsFiniteSet(S)
  BY <1>2, FS_Injection
<1>4. f \in [S -> I] /\ (\A k, m \in S : f[k] = f[m] => k = m) /\ \A t \in I : \E k \in S : f[k] = t
  BY <1>1
<1>5. f \in Bijection(S, I)
  <2> HIDE DEF f, I
  <2> QED BY <1>4 DEF Bijection, Injection, Surjection, IsInjective
<1>6. ExistsBijection(S, I)
  BY <1>5 DEF ExistsBijection
<1> QED BY <1>3, <1>6, FS_Bijection

(* The pages of evicted prefixes, one for each. *)
LEMMA EvictedAre ==
    ASSUME NEW S, IsFiniteSet(S), NEW T, \A k \in S : cached[k] \in T
    PROVE  /\ EvictedPages(S) \in Seq(T) /\ Len(EvictedPages(S)) = Cardinality(S)
           /\ ToSet(EvictedPages(S)) = {cached[k] : k \in S}
           /\ (\A k, m \in S : cached[k] = cached[m] => k = m) => IsInjective(EvictedPages(S))
<1> PICK keys, t, c : keys = SetToSeq(S) /\ t = EvictedPages(S) /\ c = cached
  OBVIOUS
<1>1. keys \in Seq(S) /\ Len(keys) = Cardinality(S) /\ IsInjective(keys) /\ ToSet(keys) = S
  BY SetToSeqIs
<1>2. t = [i \in DOMAIN keys |-> c[keys[i]]]
  BY DEF EvictedPages
<1>3. PICK n : n = Len(keys)
  OBVIOUS
<1>4. n \in Nat /\ DOMAIN keys = 1 .. n
  BY <1>1, <1>3
<1>5. \A i \in 1 .. n : keys[i] \in S /\ t[i] = c[keys[i]]
  BY <1>1, <1>2, <1>4
<1>6. t \in Seq(T) /\ Len(t) = n /\ DOMAIN t = 1 .. n
  <2>1. \A i \in 1 .. n : c[keys[i]] \in T
    BY <1>5
  <2>2. t = [i \in 1 .. n |-> c[keys[i]]]
    BY <1>2, <1>4
  <2> QED BY <1>4, <2>1, <2>2
<1>7. ToSet(t) = {c[k] : k \in S}
  <2>1. \A k \in S : \E i \in 1 .. n : keys[i] = k
    BY <1>1, <1>4 DEF ToSet
  <2> QED BY <1>5, <1>6, <2>1 DEF ToSet
<1>8. ASSUME \A k, m \in S : c[k] = c[m] => k = m
      PROVE  IsInjective(t)
  <2>1. \A i, j \in 1 .. n : t[i] = t[j] => keys[i] = keys[j]
    BY <1>5, <1>8
  <2> QED BY <1>1, <1>4, <1>6, <2>1 DEF IsInjective
<1> QED BY <1>1, <1>3, <1>6, <1>7, <1>8

(* The free pages, and behind them those that the eviction frees. *)
PoolOf(S) == free \o EvictedPages(S)

(* The pool has what is needed, and no page twice if pages have one place. *)
PoolHas(S, need, pool) ==
    /\ pool \in Seq(Page)
    /\ ToSet(pool) = ToSet(free) \cup {cached[k] : k \in S}
    /\ need <= Len(pool)
    /\ S \subseteq DOMAIN cached /\ PrefixClosedSet(DOMAIN cached \ S)

LEMMA PoolIs ==
    ASSUME SizesAssumption, Tables, Locks,
           NEW S \in SUBSET Evictable(ref), NEW need \in Nat, EvictsFor(need, S)
    PROVE  PoolHas(S, need, PoolOf(S)) /\ (Owned => IsInjective(PoolOf(S)))
<1> DEFINE T == {cached[k] : k \in S}
<1>1. DOMAIN ref = DOMAIN cached
  BY DEF Locks, Held
<1>2. S \subseteq DOMAIN cached
  BY <1>1 DEF Evictable
<1>3. IsFiniteSet(S)
  BY <1>2, FS_Subset DEF Tables
<1>4. \A k \in S : cached[k] \in Page
  BY <1>2 DEF Tables, CachedPages
<1>5. T \subseteq Page /\ T \subseteq CachedPages
  BY <1>2, <1>4 DEF CachedPages
<1>6. PICK t : t = EvictedPages(S)
  OBVIOUS
<1>7. t \in Seq(Page) /\ Len(t) = Cardinality(S) /\ ToSet(t) = T
  BY <1>3, <1>4, <1>6, EvictedAre
<1>8. free \in Seq(Page)
  BY DEF Tables
<1>9. PICK pool : pool = free \o t
  OBVIOUS
<1>10. pool \in Seq(Page) /\ ToSet(pool) = ToSet(free) \cup T
  <2> HIDE DEF T
  <2> QED BY <1>7, <1>8, <1>9, ConcatIs
<1>11. ASSUME Owned
       PROVE  IsInjective(pool)
  <2>1. IsInjective(t)
    <3>1. \A k, m \in S : cached[k] = cached[m] => k = m
      BY <1>2, <1>11 DEF Owned
    <3> QED BY <1>3, <1>4, <1>6, <3>1, EvictedAre
  <2>2. IsInjective(free) /\ ToSet(free) \cap T = {}
    BY <1>5, <1>11 DEF Owned
  <2> HIDE DEF T
  <2> QED BY <1>7, <1>8, <1>9, <2>1, <2>2, ConcatIs
<1>14. Len(pool) = Len(free) + Cardinality(S) /\ Len(free) \in Nat /\ Cardinality(S) \in Nat
  <2>1. free \in Seq(Page) /\ t \in Seq(Page)
    BY <1>7, <1>8
  <2>2. Len(pool) = Len(free) + Len(t) /\ Len(free) \in Nat
    BY <1>9, <2>1, SMT
  <2>3. Cardinality(S) \in Nat /\ Len(t) = Cardinality(S)
    BY <1>3, <1>7, FS_CardinalityType
  <2> QED BY <2>2, <2>3
<1>15. need <= Len(pool)
  <2>1. PICK a, b, p : a = Len(free) /\ b = Cardinality(S) /\ p = Len(pool)
    OBVIOUS
  <2>2. a \in Nat /\ b \in Nat /\ p = a + b
    BY <1>14, <2>1
  <2>3. need - a > 0 => b >= need - a
    BY <2>1 DEF EvictsFor, Shortfall
  <2>4. need <= p
    BY <2>2, <2>3
  <2> QED BY <2>1, <2>4
<1>16. PrefixClosedSet(DOMAIN cached \ S)
  <2>1. CASE Shortfall(need) > 0
    BY <1>1, <2>1 DEF EvictsFor, IsEviction
  <2>2. CASE ~(Shortfall(need) > 0)
    <3>1. S = {}
      BY <2>2 DEF EvictsFor
    <3>2. DOMAIN cached \ S = DOMAIN cached
      BY <3>1
    <3> QED BY <3>2 DEF Tables
  <2> QED BY <2>1, <2>2
<1>17. pool = PoolOf(S)
  BY <1>6, <1>9 DEF PoolOf
<1> QED BY <1>2, <1>10, <1>11, <1>15, <1>16, <1>17 DEF PoolHas

(* The first pages of the pool go to the rows, the others stay free. *)
Dealt(S, need, allocated, rest) ==
    /\ rest \in Seq(Page) /\ IsInjective(rest)
    /\ \A m \in 1 .. need : allocated[m] \in (ToSet(free) \cup {cached[k] : k \in S}) \ ToSet(rest)
    /\ \A m, n \in 1 .. need : allocated[m] = allocated[n] => m = n
    /\ ToSet(rest) \subseteq ToSet(free) \cup {cached[k] : k \in S}
    /\ \A p \in ToSet(free) \cup {cached[k] : k \in S} :
          p \in ToSet(rest) \/ \E m \in 1 .. need : allocated[m] = p
    /\ \A m \in 1 .. need : allocated[m] \in Page

(* Whatever it has, it deals pages. *)
Drawn(need, allocated, rest) ==
    rest \in Seq(Page) /\ \A m \in 1 .. need : allocated[m] \in Page

LEMMA DrawnIs ==
    ASSUME NEW S, NEW need \in Nat, NEW pool, PoolHas(S, need, pool)
    PROVE  Drawn(need, SubSeq(pool, 1, need), SubSeq(pool, need + 1, Len(pool)))
<1>1. pool \in Seq(Page) /\ need <= Len(pool)
  BY DEF PoolHas
<1>2. need \in 0 .. Len(pool)
  BY <1>1
<1>3. PICK a, r : a = SubSeq(pool, 1, need) /\ r = SubSeq(pool, need + 1, Len(pool))
  OBVIOUS
<1>4. a \in Seq(Page) /\ Len(a) = need /\ r \in Seq(Page)
  BY <1>1, <1>2, <1>3, SplitIs, Zenon
<1>5. \A m \in 1 .. need : a[m] \in Page
  BY <1>4
<1> QED BY <1>3, <1>4, <1>5 DEF Drawn

LEMMA DealtIs ==
    ASSUME NEW S, NEW need \in Nat, NEW pool, PoolHas(S, need, pool), IsInjective(pool)
    PROVE  Dealt(S, need, SubSeq(pool, 1, need), SubSeq(pool, need + 1, Len(pool)))
<1> DEFINE T == ToSet(free) \cup {cached[k] : k \in S}
<1>1. pool \in Seq(Page) /\ IsInjective(pool) /\ ToSet(pool) = T /\ need \in 0 .. Len(pool)
  <2>1. pool \in Seq(Page) /\ need <= Len(pool)
    BY DEF PoolHas
  <2>2. Len(pool) \in Nat
    BY <2>1
  <2> QED BY <2>1, <2>2 DEF PoolHas
<1>2. PICK a, r : a = SubSeq(pool, 1, need) /\ r = SubSeq(pool, need + 1, Len(pool))
  OBVIOUS
<1> HIDE DEF T
<1>3. /\ a \in Seq(Page) /\ Len(a) = need /\ r \in Seq(Page)
      /\ ToSet(pool) = ToSet(a) \cup ToSet(r)
      /\ IsInjective(a) /\ IsInjective(r) /\ ToSet(a) \cap ToSet(r) = {}
  <2>1. pool \in Seq(Page) /\ need \in 0 .. Len(pool) /\ IsInjective(pool)
    BY <1>1
  <2>2. a \in Seq(Page) /\ Len(a) = need /\ r \in Seq(Page)
    BY <1>2, <2>1, SplitIs, Zenon
  <2>3. ToSet(pool) = ToSet(a) \cup ToSet(r)
    BY <1>2, <2>1, SplitIs, Zenon
  <2>4. IsInjective(a) /\ IsInjective(r) /\ ToSet(a) \cap ToSet(r) = {}
    BY <1>2, <2>1, SplitIs, Zenon
  <2> QED BY <2>2, <2>3, <2>4
<1>4. DOMAIN a = 1 .. need
  BY <1>3
<1>5. \A m \in 1 .. need : a[m] \in ToSet(a) /\ a[m] \in Page
  BY <1>3, <1>4 DEF ToSet
<1>6. \A p \in ToSet(a) : \E m \in 1 .. need : a[m] = p
  BY <1>4 DEF ToSet
<1>7. \A m, n \in 1 .. need : a[m] = a[n] => m = n
  BY <1>3, <1>4 DEF IsInjective
<1>8. \A m \in 1 .. need : a[m] \in T \ ToSet(r)
  BY <1>1, <1>3, <1>5
<1>9. ToSet(r) \subseteq T /\ \A p \in T : p \in ToSet(r) \/ \E m \in 1 .. need : a[m] = p
  BY <1>1, <1>3, <1>6
<1> USE DEF T
<1>10. Dealt(S, need, a, r)
  BY <1>3, <1>5, <1>7, <1>8, <1>9, Zenon DEF Dealt
<1> QED BY <1>2, <1>10

(* What a launch does to the requests besides allocating for those in us.   *)
Launches(us) ==
    /\ live' = live /\ lazy' = lazy /\ pc' = "process"
    /\ \A u \in live : req'[u].row = req[u].row /\ req'[u].handle = req[u].handle
    /\ \A u \in ToSet(us) : req'[u].cached = req[u].device
    /\ \A u \in live \ ToSet(us) : req'[u].cached = req[u].cached

(* An allocation for the batch us: it evicts S and deals out `allocated`. *)
Deals(us, s, S, need, allocated) ==
    /\ Sliced(us, s) /\ need = s[Len(us)] /\ need \in Nat
    /\ Written(us, s, allocated, pageTable')
    /\ Drawn(need, allocated, free') /\ (Owned => Dealt(S, need, allocated, free'))
    /\ cached' = Without(cached, S) /\ S \subseteq Evictable(ref)
    /\ S \subseteq DOMAIN cached /\ PrefixClosedSet(DOMAIN cached \ S)

LEMMA AllocateDeals ==
    ASSUME SizesAssumption, RequestsAssumption, LifeInv, Locks, Tables, Extents,
           NEW us \in Seq(Uid), IsInjective(us), ToSet(us) \subseteq live, AllocatePaged(us)
    PROVE  \E s, S, need, allocated : Deals(us, s, S, need, allocated)
<1>1. PICK s : Sliced(us, s)
  BY SlicedIs
<1>2. PICK n : n = Len(us)
  OBVIOUS
<1>3. n \in Nat /\ s \in [0 .. n -> Nat]
  BY <1>1, <1>2, SlicedTypes
<1>4. n \in 0 .. n
  BY <1>3
<1>5. PICK need : need = s[n]
  OBVIOUS
<1>6. need \in Nat /\ PagesBefore(us, Len(us)) = need
  BY <1>1, <1>2, <1>3, <1>4, <1>5 DEF Sliced
<1>7. PICK S \in SUBSET Evictable(ref) :
        LET pool == free \o EvictedPages(S) IN
        /\ EvictsFor(need, S)
        /\ free' = SubSeq(pool, need + 1, Len(pool))
        /\ pageTable' = WritePageTable(us, SubSeq(pool, 1, need))
        /\ cached' = Without(cached, S)
  BY <1>6 DEF AllocatePaged
<1>8. PICK pool : pool = PoolOf(S)
  OBVIOUS
<1>9. /\ EvictsFor(need, S) /\ cached' = Without(cached, S)
      /\ free' = SubSeq(pool, need + 1, Len(pool))
      /\ pageTable' = WritePageTable(us, SubSeq(pool, 1, need))
  BY <1>7, <1>8 DEF PoolOf
<1>10. PoolHas(S, need, pool) /\ (Owned => IsInjective(pool))
  BY <1>6, <1>8, <1>9, PoolIs
<1>11. PICK allocated : allocated = SubSeq(pool, 1, need)
  OBVIOUS
<1>12. Drawn(need, allocated, free') /\ (Owned => Dealt(S, need, allocated, free'))
  BY <1>6, <1>9, <1>10, <1>11, DrawnIs, DealtIs
<1>13. \A i \in 0 .. Len(us) : PagesBefore(us, i) = s[i]
  BY <1>1 DEF Sliced
<1>14. Written(us, s, allocated, pageTable')
  BY <1>9, <1>11, <1>13, WrittenIs
<1>15. S \subseteq DOMAIN cached /\ PrefixClosedSet(DOMAIN cached \ S)
  BY <1>10 DEF PoolHas
<1>16. Deals(us, s, S, need, allocated)
  BY <1>1, <1>2, <1>5, <1>6, <1>9, <1>12, <1>14, <1>15 DEF Deals
<1> QED BY <1>16

(* The pages of the requests' private parts before and after. *)
Cells(us, s, need, allocated) ==
    /\ \A v \in live : \A i \in OwnIndices(v) :
          i \in OwnIndices(v)' /\ RowPage(v, i)' = RowPage(v, i)
    /\ \A v \in live : \A i \in OwnIndices(v)' :
          \/ i \in OwnIndices(v) /\ RowPage(v, i)' = RowPage(v, i)
          \/ \E m \in 1 .. need : Fresh(us, s, v, i, m) /\ RowPage(v, i)' = allocated[m]
    /\ \A v, i, m : Fresh(us, s, v, i, m) =>
          v \in live /\ i \in OwnIndices(v)' /\ RowPage(v, i)' = allocated[m]

LEMMA OwnRange ==
    ASSUME SizesAssumption, RequestsAssumption, LifeInv, Extents, NEW v \in live
    PROVE  /\ OwnIndices(v) = Len(req[v].handle) .. From(v) - 1
           /\ Len(req[v].handle) \in Nat /\ From(v) \in Nat /\ Upto(v) \in Nat
           /\ Len(req[v].handle) <= From(v) /\ From(v) <= Upto(v)
           /\ Upto(v) <= DivCeil(MaxSeqLen)
<1>1. Len(req[v].handle) \in Nat /\ Len(req[v].handle) * PageSize <= req[v].cached
  BY DEF Extents, HandleIs
<1>2. req[v].cached \in Nat
  BY LensOf
<1>3. Len(req[v].handle) <= From(v)
  BY <1>1, <1>2, CeilIs DEF From
<1>4. From(v) \in Nat /\ Upto(v) \in Nat /\ From(v) <= Upto(v) /\ Upto(v) <= DivCeil(MaxSeqLen)
  BY LensOf DEF From, Upto
<1>5. OwnIndices(v) = Len(req[v].handle) .. From(v) - 1
  BY DEF OwnIndices, From
<1> QED BY <1>1, <1>3, <1>4, <1>5

LEMMA CellsAfter ==
    ASSUME SizesAssumption, RequestsAssumption, LifeInv, Extents,
           NEW us, NEW s, NEW S, NEW need, NEW allocated, Deals(us, s, S, need, allocated),
           Launches(us)
    PROVE  Cells(us, s, need, allocated)
<1>1. Sliced(us, s) /\ need = s[Len(us)] /\ Written(us, s, allocated, pageTable')
  BY DEF Deals
<1>2. ToSet(us) \subseteq live
  BY <1>1 DEF Sliced
<1>3. ASSUME NEW v \in live
      PROVE  OwnIndices(v)' = Len(req[v].handle) .. (IF v \in ToSet(us) THEN Upto(v) ELSE From(v)) - 1
  BY DEF OwnIndices, Launches, From, Upto
<1>4. ASSUME NEW v \in live, NEW i
      PROVE  RowPage(v, i)' = pageTable'[req[v].row][i]
  BY DEF RowPage, Launches
<1>5. ASSUME NEW v \in live, NEW i \in OwnIndices(v)
      PROVE  i \in OwnIndices(v)' /\ RowPage(v, i)' = RowPage(v, i)
  <2>1. PICK h, f, g, d : /\ h = Len(req[v].handle) /\ f = From(v) /\ g = Upto(v)
                          /\ d = DivCeil(MaxSeqLen)
    OBVIOUS
  <2>2. h \in Nat /\ f \in Nat /\ g \in Nat /\ h <= f /\ f <= g /\ g <= d /\ d \in Nat
    BY <2>1, OwnRange, ColumnsIs
  <2>3. i \in h .. f - 1
    BY <2>1, OwnRange
  <2>4. i \in h .. g - 1 /\ i \in 0 .. d - 1 /\ i < f
    BY <2>2, <2>3
  <2>5. i \in OwnIndices(v)'
    BY <1>3, <2>1, <2>3, <2>4
  <2>6. i \in Columns /\ i < From(v)
    BY <2>1, <2>4 DEF Columns
  <2>7. pageTable'[req[v].row][i] = RowPage(v, i)
    BY <1>1, <2>6 DEF Written
  <2> QED BY <1>4, <2>5, <2>7
<1>6. ASSUME NEW v, NEW i, NEW m, Fresh(us, s, v, i, m)
      PROVE  v \in live /\ i \in OwnIndices(v)' /\ RowPage(v, i)' = allocated[m]
  <2>1. v \in live /\ i \in From(v) .. Upto(v) - 1
    BY <1>6 DEF Fresh
  <2>2. PICK a \in 1 .. Len(us) : v = us[a] /\ m = s[a - 1] + i - From(v) + 1
    BY <1>6 DEF Fresh
  <2>3. v \in ToSet(us)
    BY <1>1, <2>2 DEF ToSet, Sliced
  <2>4. PICK h, f, g : h = Len(req[v].handle) /\ f = From(v) /\ g = Upto(v)
    OBVIOUS
  <2>5. h \in Nat /\ f \in Nat /\ g \in Nat /\ h <= f
    BY <2>1, <2>4, OwnRange
  <2>6. i \in f .. g - 1
    BY <2>1, <2>4
  <2>7. i \in h .. g - 1
    BY <2>5, <2>6
  <2>8. i \in OwnIndices(v)'
    BY <1>3, <2>1, <2>3, <2>4, <2>7
  <2>9. pageTable'[req[us[a]].row][i] = allocated[s[a - 1] + i - From(us[a]) + 1]
    BY <1>1, <2>1, <2>2 DEF Written
  <2> QED BY <1>4, <2>1, <2>2, <2>8, <2>9
<1>7. ASSUME NEW v \in live, NEW i \in OwnIndices(v)', i \notin OwnIndices(v)
      PROVE  \E m \in 1 .. need : Fresh(us, s, v, i, m) /\ RowPage(v, i)' = allocated[m]
  <2>1. PICK h, f, g : h = Len(req[v].handle) /\ f = From(v) /\ g = Upto(v)
    OBVIOUS
  <2>2. h \in Nat /\ f \in Nat /\ g \in Nat /\ h <= f /\ f <= g
    BY <2>1, OwnRange
  <2>3. i \notin h .. f - 1
    BY <1>7, <2>1, OwnRange
  <2>4. i \in h .. (IF v \in ToSet(us) THEN g ELSE f) - 1
    BY <1>3, <2>1
  <2>5. v \in ToSet(us)
    BY <2>3, <2>4
  <2>6. i \in f .. g - 1
    BY <2>2, <2>3, <2>4, <2>5
  <2>7. i \in From(v) .. Upto(v) - 1
    BY <2>1, <2>6
  <2>8. \E m \in 1 .. s[Len(us)] : Fresh(us, s, v, i, m) /\ pageTable'[req[v].row][i] = allocated[m]
    BY <1>1, <2>5, <2>7, FreshAt
  <2> QED BY <1>1, <1>4, <2>8
<1> QED BY <1>5, <1>6, <1>7 DEF Cells

LEMMA AllocatedTables ==
    ASSUME SizesAssumption, RequestsAssumption, LifeInv, Tables, Extents,
           NEW us, NEW s, NEW S, NEW need, NEW allocated, Deals(us, s, S, need, allocated),
           Launches(us)
    PROVE  Tables'
<1>1. /\ Sliced(us, s) /\ need = s[Len(us)] /\ Written(us, s, allocated, pageTable')
      /\ Drawn(need, allocated, free')
      /\ cached' = Without(cached, S) /\ PrefixClosedSet(DOMAIN cached \ S)
  BY DEF Deals
<1>2. pageTable' = [r \in Row |-> [p \in Columns |-> pageTable'[r][p]]]
  BY <1>1 DEF Written
<1>3. ASSUME NEW r \in Row, NEW p \in Columns
      PROVE  pageTable'[r][p] \in Page
  <2>1. CASE pageTable'[r][p] = pageTable[r][p]
    BY <2>1 DEF Tables
  <2>2. CASE \E i \in 1 .. Len(us) : r = req[us[i]].row /\ p \in From(us[i]) .. Upto(us[i]) - 1
    <3>1. PICK i \in 1 .. Len(us) : r = req[us[i]].row /\ p \in From(us[i]) .. Upto(us[i]) - 1
      BY <2>2
    <3>2. us[i] \in ToSet(us)
      BY <1>1 DEF ToSet, Sliced
    <3>3. PICK v, table : v = us[i] /\ table = pageTable'
      OBVIOUS
    <3>4. v \in ToSet(us) /\ p \in From(v) .. Upto(v) - 1 /\ Written(us, s, allocated, table)
      BY <1>1, <3>1, <3>2, <3>3
    <3>5. \E m \in 1 .. s[Len(us)] : Fresh(us, s, v, p, m) /\ table[req[v].row][p] = allocated[m]
      BY <1>1, <3>4, FreshAt
    <3>6. PICK m \in 1 .. need : pageTable'[req[us[i]].row][p] = allocated[m]
      BY <1>1, <3>3, <3>5
    <3> QED BY <1>1, <3>1, <3>6 DEF Drawn
  <2> QED BY <1>1, <2>1, <2>2 DEF Written
<1>4. free' \in Seq(Page) /\ lazy' \in Seq(Page) /\ pc' = "process"
  BY <1>1 DEF Drawn, Launches, Tables
<1>5. CachedPages' \subseteq Page /\ PrefixClosedSet(DOMAIN cached') /\ IsFiniteSet(DOMAIN cached')
  <2>1. DOMAIN cached' = DOMAIN cached \ S /\ \A k \in DOMAIN cached' : cached'[k] = cached[k]
    BY <1>1 DEF Without
  <2>2. CachedPages' \subseteq CachedPages
    BY <2>1 DEF CachedPages
  <2>3. IsFiniteSet(DOMAIN cached')
    BY <2>1, FS_Subset DEF Tables
  <2> QED BY <1>1, <2>1, <2>2, <2>3 DEF Tables
<1>6. Columns' = Columns /\ Row' = Row /\ Page' = Page
  OBVIOUS
<1> QED BY <1>2, <1>3, <1>4, <1>5 DEF Tables, Columns

(* The pages dealt out go to one row each. *)
LEMMA AllocatedOwned ==
    ASSUME SizesAssumption, RequestsAssumption, LifeInv, Tables, Extents, Owned,
           NEW us, NEW s, NEW S, NEW need, NEW allocated, Deals(us, s, S, need, allocated),
           Launches(us)
    PROVE  Owned'
<1>1. /\ Sliced(us, s) /\ need = s[Len(us)] /\ need \in Nat
      /\ Dealt(S, need, allocated, free')
      /\ cached' = Without(cached, S) /\ S \subseteq DOMAIN cached
      /\ Cells(us, s, need, allocated)
  BY CellsAfter DEF Deals
<1>2. live' = live /\ lazy' = lazy
  BY DEF Launches
<1>3. PICK T : T = {cached[k] : k \in S}
  OBVIOUS
<1>4. T \subseteq CachedPages
  BY <1>1, <1>3 DEF CachedPages
<1>5. DOMAIN cached' = DOMAIN cached \ S /\ \A k \in DOMAIN cached' : cached'[k] = cached[k]
  BY <1>1 DEF Without
<1>6. CachedPages' = CachedPages \ T
  <2>1. \A k \in DOMAIN cached \ S : cached[k] \notin T
    BY <1>1, <1>3 DEF Owned
  <2>2. CachedPages' \subseteq CachedPages \ T
    BY <1>5, <2>1 DEF CachedPages
  <2>3. CachedPages \ T \subseteq CachedPages'
    <3> SUFFICES ASSUME NEW k \in DOMAIN cached, cached[k] \notin T
                 PROVE  cached[k] \in CachedPages'
      BY DEF CachedPages
    <3>1. k \in DOMAIN cached'
      BY <1>3, <1>5
    <3> QED BY <1>5, <3>1 DEF CachedPages
  <2> QED BY <2>2, <2>3
<1>7. PICK F, R, Z : F = ToSet(free) /\ R = ToSet(free') /\ Z = ToSet(lazy)
  OBVIOUS
<1>8. /\ IsInjective(free') /\ R \subseteq F \cup T
      /\ \A m \in 1 .. need : allocated[m] \in (F \cup T) \ R
      /\ \A m, n \in 1 .. need : allocated[m] = allocated[n] => m = n
      /\ \A p \in F \cup T : p \in R \/ \E m \in 1 .. need : allocated[m] = p
  BY <1>1, <1>3, <1>7 DEF Dealt
<1>9. /\ (F \cup T) \cap Z = {} /\ CachedPages' \cap (F \cup Z \cup T) = {}
      /\ \A v \in live : OwnPages(v) \cap (F \cup T \cup Z \cup CachedPages) = {}
  BY <1>4, <1>6, <1>7 DEF Owned
<1>10. \A v \in live : \A i \in OwnIndices(v) : RowPage(v, i) \in OwnPages(v)
  BY DEF OwnPages
<1>11. ASSUME NEW v \in live, NEW p \in OwnPages(v)'
       PROVE  \/ p \in OwnPages(v)
              \/ \E i, m : m \in 1 .. need /\ Fresh(us, s, v, i, m) /\ p = allocated[m]
  <2>1. PICK i \in OwnIndices(v)' : p = RowPage(v, i)'
    BY DEF OwnPages
  <2> QED BY <1>1, <1>10, <2>1 DEF Cells
<1>12. ASSUME NEW v \in live, NEW i \in OwnIndices(v)', NEW j \in OwnIndices(v)',
              RowPage(v, i)' = RowPage(v, j)'
       PROVE  i = j
  <2>1. \/ i \in OwnIndices(v) /\ RowPage(v, i)' = RowPage(v, i)
        \/ \E m \in 1 .. need : Fresh(us, s, v, i, m) /\ RowPage(v, i)' = allocated[m]
    BY <1>1 DEF Cells
  <2>2. \/ j \in OwnIndices(v) /\ RowPage(v, j)' = RowPage(v, j)
        \/ \E m \in 1 .. need : Fresh(us, s, v, j, m) /\ RowPage(v, j)' = allocated[m]
    BY <1>1 DEF Cells
  <2>3. CASE i \in OwnIndices(v) /\ RowPage(v, i)' = RowPage(v, i)
    <3>1. RowPage(v, i)' \notin F \cup T
      BY <1>9, <1>10, <2>3
    <3>2. RowPage(v, j)' = RowPage(v, j) /\ j \in OwnIndices(v)
      BY <1>8, <1>12, <2>2, <3>1
    <3> QED BY <1>12, <2>3, <3>2 DEF Owned
  <2>4. CASE \E m \in 1 .. need : Fresh(us, s, v, i, m) /\ RowPage(v, i)' = allocated[m]
    <3>1. PICK m \in 1 .. need : Fresh(us, s, v, i, m) /\ RowPage(v, i)' = allocated[m]
      BY <2>4
    <3>2. RowPage(v, j)' \in F \cup T
      BY <1>8, <1>12, <3>1
    <3>3. ~(j \in OwnIndices(v) /\ RowPage(v, j)' = RowPage(v, j))
      BY <1>9, <1>10, <3>2
    <3>4. PICK n \in 1 .. need : Fresh(us, s, v, j, n) /\ RowPage(v, j)' = allocated[n]
      BY <2>2, <3>3
    <3>5. m = n
      BY <1>8, <1>12, <3>1, <3>4
    <3> QED BY <1>1, <3>1, <3>4, <3>5, FreshOnce
  <2> QED BY <2>1, <2>3, <2>4
<1>13. ASSUME NEW v \in live, NEW w \in live, v # w
       PROVE  OwnPages(v)' \cap OwnPages(w)' = {}
  <2> SUFFICES ASSUME NEW p, p \in OwnPages(v)', p \in OwnPages(w)'
               PROVE  FALSE
    OBVIOUS
  <2>1. CASE p \in OwnPages(v)
    <3>1. p \notin F \cup T
      BY <1>9, <2>1
    <3>2. p \in OwnPages(w)
      BY <1>8, <1>11, <3>1
    <3> QED BY <1>13, <2>1, <3>2 DEF Owned
  <2>2. CASE \E i, m : m \in 1 .. need /\ Fresh(us, s, v, i, m) /\ p = allocated[m]
    <3>1. PICK i, m : m \in 1 .. need /\ Fresh(us, s, v, i, m) /\ p = allocated[m]
      BY <2>2
    <3>2. p \notin OwnPages(w)
      BY <1>8, <1>9, <3>1
    <3>3. PICK j, n : n \in 1 .. need /\ Fresh(us, s, w, j, n) /\ p = allocated[n]
      BY <1>11, <3>2
    <3>4. m = n
      BY <1>8, <3>1, <3>3
    <3> QED BY <1>1, <1>13, <3>1, <3>3, <3>4, FreshOnce
  <2> QED BY <1>11, <2>1, <2>2
<1>14. ASSUME NEW v \in live
       PROVE  OwnPages(v)' \cap (R \cup Z \cup CachedPages') = {}
  <2> SUFFICES ASSUME NEW p \in OwnPages(v)'
               PROVE  p \notin R \cup Z \cup CachedPages'
    OBVIOUS
  <2>1. CASE p \in OwnPages(v)
    BY <1>6, <1>8, <1>9, <2>1
  <2>2. CASE \E i, m : m \in 1 .. need /\ Fresh(us, s, v, i, m) /\ p = allocated[m]
    BY <1>8, <1>9, <2>2
  <2> QED BY <1>11, <2>1, <2>2
<1>15. ASSUME NEW p \in Page
       PROVE  p \in R \cup Z \cup CachedPages' \/ \E v \in live : p \in OwnPages(v)'
  <2>1. CASE p \in F \cup T
    <3>1. p \in R \/ \E m \in 1 .. need : allocated[m] = p
      BY <1>8, <2>1
    <3>2. CASE \E m \in 1 .. need : allocated[m] = p
      <4>1. PICK m \in 1 .. need : allocated[m] = p
        BY <3>2
      <4>2. PICK v, i : Fresh(us, s, v, i, m)
        BY <1>1, <4>1, FreshAll
      <4>3. v \in live /\ i \in OwnIndices(v)' /\ RowPage(v, i)' = p
        BY <1>1, <4>1, <4>2 DEF Cells
      <4>4. p \in OwnPages(v)'
        BY <4>3 DEF OwnPages
      <4> QED BY <4>3, <4>4
    <3> QED BY <3>1, <3>2
  <2>2. CASE \E v \in live : p \in OwnPages(v)
    <3>1. PICK v \in live : p \in OwnPages(v)
      BY <2>2
    <3>2. PICK i \in OwnIndices(v) : p = RowPage(v, i)
      BY <3>1 DEF OwnPages
    <3>3. i \in OwnIndices(v)' /\ RowPage(v, i)' = p
      BY <1>1, <3>2 DEF Cells
    <3>4. p \in OwnPages(v)'
      BY <3>3 DEF OwnPages
    <3> QED BY <3>4
  <2>3. p \in F \cup Z \cup CachedPages \/ \E v \in live : p \in OwnPages(v)
    BY <1>7 DEF Owned
  <2> QED BY <1>6, <2>1, <2>2, <2>3
<1>16. \A k, m \in DOMAIN cached' : cached'[k] = cached'[m] => k = m
  BY <1>5 DEF Owned
<1>17. R \cap Z = {} /\ CachedPages' \cap (R \cup Z) = {}
  BY <1>8, <1>9
<1>18. IsInjective(lazy')
  BY <1>2 DEF Owned
<1>19. ToSet(free)' = R /\ ToSet(lazy)' = Z
  BY <1>2, <1>7
<1> QED BY <1>2, <1>8, <1>12, <1>13, <1>14, <1>15, <1>16, <1>17, <1>18, <1>19 DEF Owned

-----------------------------------------------------------------------------
(* The steps that leave the lengths of the requests alone. *)

(* What holds of the tables and lengths, whoever owns a page. *)
Layout == Tables /\ Extents /\ Lazily

(* Steps that change no page. *)
LEMMA KeptTables ==
    ASSUME Tables, UNCHANGED <<free, lazy, cached, pageTable>>
    PROVE  Tables'
  BY DEF Tables, CachedPages

LEMMA KeptOwned ==
    ASSUME Owned, UNCHANGED <<free, lazy, cached, pageTable, live>>,
           \A v \in live : req'[v].row = req[v].row /\ OwnIndices(v)' = OwnIndices(v)
    PROVE  Owned'
<1>1. \A v \in live : \A i : RowPage(v, i)' = RowPage(v, i)
  BY DEF RowPage
<1>2. \A v \in live : OwnPages(v)' = OwnPages(v)
  BY <1>1 DEF OwnPages
<1>3. CachedPages' = CachedPages
  BY DEF CachedPages
<1>4. \A v \in live' : \A i, j \in OwnIndices(v)' : RowPage(v, i)' = RowPage(v, j)' => i = j
  BY <1>1 DEF Owned
<1>5. \A k, m \in DOMAIN cached' : cached'[k] = cached'[m] => k = m
  BY DEF Owned
<1>6. /\ IsInjective(free)' /\ IsInjective(lazy)'
      /\ (ToSet(free) \cap ToSet(lazy) = {})'
      /\ (CachedPages \cap (ToSet(free) \cup ToSet(lazy)) = {})'
  BY <1>3 DEF Owned
<1>7. /\ \A v \in live' : OwnPages(v)' \cap (ToSet(free') \cup ToSet(lazy') \cup CachedPages') = {}
      /\ \A v, w \in live' : v # w => OwnPages(v)' \cap OwnPages(w)' = {}
  BY <1>2, <1>3 DEF Owned
<1>8. \A p \in Page : p \in ToSet(free') \cup ToSet(lazy') \cup CachedPages'
                          \/ \E v \in live' : p \in OwnPages(v)'
  BY <1>2, <1>3 DEF Owned
<1> QED BY <1>4, <1>5, <1>6, <1>7, <1>8 DEF Owned

LEMMA KeptExtents ==
    ASSUME Extents, req' = req, gen' = gen, live' \subseteq live,
           Active' \cup newFin' \subseteq Active \cup newFin,
           live' \cap (Active \cup newFin) \subseteq Active' \cup newFin',
           pc # "admit" \/ (pc' = "admit" /\ inflPre \subseteq inflPre')
    PROVE  Extents'
<1>1. \A v : HostIds(v)' = HostIds(v)
  BY DEF HostIds
<1>2. \A v : HandleIs(v) => HandleIs(v)'
  BY <1>1 DEF HandleIs, BlockOf
<1>3. \A v \in live' : HandleIs(v)'
  BY <1>2 DEF Extents
<1>4. \A v \in live' \ (Active' \cup newFin') :
         req'[v].cached = req'[v].device \/ (pc' = "admit" /\ v \in inflPre')
  BY DEF Extents
<1>5. \A v \in live' : /\ 0 <= req'[v].cached /\ req'[v].cached <= req'[v].device
                       /\ 1 <= req'[v].device
  BY DEF Extents
<1>6. \A v \in Active' \cup newFin' : req'[v].cached = req'[v].device - 1
  BY DEF Extents
<1> QED BY <1>3, <1>4, <1>5, <1>6 DEF Extents

(* Only the first token of a page needs another page. *)
LEMMA CeilOfNext ==
    ASSUME SizesAssumption, NEW c \in Nat, NEW d \in Nat, c = d - 1, c % PageSize # 0
    PROVE  DivCeil(c) = DivCeil(d)
<1> PICK z, q, r : z = PageSize /\ q = c \div z /\ r = c % z
  OBVIOUS
<1>1. z \in Nat \ {0}
  BY DEF SizesAssumption
<1>2. q \in Nat /\ r \in 1 .. z - 1 /\ c = q * z + r
  BY <1>1
<1>3. PICK w : w = (q + 1) * z
  OBVIOUS
<1>4. w = q * z + z /\ w \in Nat
  BY <1>1, <1>2, <1>3
<1>5. c <= w /\ d <= w /\ q * z < c /\ q * z < d
  <2>1. PICK m : m = q * z
    OBVIOUS
  <2>2. m \in Nat
    BY <1>1, <1>2, <2>1
  <2>3. c = m + r /\ w = m + z
    <3>1. c = m + r
      BY <1>2, <2>1
    <3>2. w = m + z
      BY <1>4, <2>1
    <3> QED BY <3>1, <3>2
  <2>4. c <= w /\ d <= w /\ m < c /\ m < d
    BY <1>1, <1>2, <2>2, <2>3
  <2> QED BY <2>1, <2>4
<1>6. DivCeil(c) <= q + 1 /\ q < DivCeil(c) /\ DivCeil(c) \in Nat
  BY <1>2, <1>3, <1>5, CeilIs
<1>7. DivCeil(d) <= q + 1 /\ q < DivCeil(d) /\ DivCeil(d) \in Nat
  BY <1>2, <1>3, <1>5, CeilIs
<1> QED BY <1>2, <1>6, <1>7

LEMMA RecvUserLayout ==
    ASSUME Layout, NEW u \in Uid, RecvUser(u)
    PROVE  Layout' /\ (Owned => Owned')
<1>1. /\ UNCHANGED <<running, inflPre, req, live, gen, last, newFin, free, lazy, cached, pageTable>>
      /\ pc \in {"idle", "recv"} /\ pc' = "recv"
  BY DEF RecvUser, Receive, decode, request, memory
<1>2. Active' = Active
  BY <1>1 DEF Active
<1>3. Tables'
  BY <1>1, KeptTables DEF Layout
<1>4. Extents'
  BY <1>1, <1>2, KeptExtents DEF Layout
<1>5. Lazily'
  BY <1>1 DEF Layout, Lazily
<1>6. \A v : OwnIndices(v)' = OwnIndices(v)
  BY <1>1 DEF OwnIndices
<1>7. Owned => Owned'
  BY <1>1, <1>6, KeptOwned
<1> QED BY <1>3, <1>4, <1>5, <1>7 DEF Layout

(* An abort frees a live request, or there is nothing to free. *)
LEMMA AbortFrees ==
    ASSUME LifeInv, NEW u \in Uid, RecvAbort(u)
    PROVE  \/ u \in live /\ \E isInflight : FreeReqResources(u, isInflight)
                                           /\ (isInflight /\ u \in Active => u \in inflight[2])
           \/ u \notin live /\ UNCHANGED <<live, req, free, lazy, cached, pageTable>>
<1>1. pc \in {"idle", "recv"}
  BY AbortDoes
<1>2. newFin = {} /\ batch = NoReq /\ inflPre \ Waiting = Arriving
  BY <1>1 DEF LifeInv, Phases
<1>3. Launched = {}
  BY <1>2, NoneRemain DEF Launched
<1>4. CASE AbortPending(u)
  <2>1. u \notin Active
    BY <1>4 DEF AbortPending, LifeInv, Places, Waiting
  <2>2. CASE u \in live
    BY <1>4, <2>1, <2>2 DEF AbortPending
  <2>3. CASE u \notin live
    BY <1>4, <2>3 DEF AbortPending, memory
  <2> QED BY <2>2, <2>3
<1>5. CASE AbortPrefilled(u)
  <2>1. u \in inflPre \ Waiting /\ FreeReqResources(u, TRUE)
    BY <1>5 DEF AbortPrefilled, Waiting
  <2>2. u \in live /\ u \notin Active
    BY <1>2, <2>1 DEF LifeInv, Places
  <2> QED BY <2>1, <2>2
<1>6. CASE AbortRunning(u)
  <2>1. CASE u \in Active
    <3>1. PICK b : b = (u \in inflight[2])
      OBVIOUS
    <3>2. FreeReqResources(u, b)
      BY <1>6, <2>1, <3>1 DEF AbortRunning, Active
    <3>3. u \in live
      BY <2>1 DEF LifeInv, Places
    <3>4. b /\ u \in Active => u \in inflight[2]
      BY <3>1
    <3> QED BY <3>2, <3>3, <3>4, Zenon
  <2>2. CASE u \notin Active
    <3>1. UNCHANGED <<live, req, free, lazy, cached, pageTable>>
      BY <1>6, <2>2 DEF AbortRunning, Active, memory
    <3>2. u \notin Waiting /\ u \notin inflPre
      BY <1>6 DEF AbortRunning, Waiting
    <3>3. u \notin live
      BY <1>2, <1>3, <2>2, <3>2 DEF LifeInv, Places
    <3> QED BY <3>1, <3>3
  <2> QED BY <2>1, <2>2
<1> QED BY <1>4, <1>5, <1>6 DEF RecvAbort

(* This is the step that may lose the pages, and when it does not. *)
LEMMA RecvAbortLayout ==
    ASSUME SizesAssumption, RequestsAssumption, LifeInv, Locks, Layout,
           NEW u \in Uid, RecvAbort(u)
    PROVE  Layout' /\ (Owned /\ ~AbortsAtPageEnd => Owned')
<1>1. /\ pc \in {"idle", "recv"} /\ pc' = "recv" /\ aborted' = aborted \cup {u}
      /\ UNCHANGED <<gen, last, newFin, req>>
      /\ Active' = Active \ {u} /\ live' = live \ {u}
  BY AbortDoes
<1>2. newFin = {}
  BY <1>1 DEF LifeInv, Phases
<1>3. Extents'
  <2>1. Active' \cup newFin' \subseteq Active \cup newFin
    BY <1>1
  <2>2. live' \cap (Active \cup newFin) \subseteq Active' \cup newFin'
    BY <1>1, <1>2
  <2> QED BY <1>1, <2>1, <2>2, KeptExtents DEF Layout
<1>4. lazy = <<>>
  BY <1>1 DEF Layout, Lazily
<1>5. CASE u \notin live /\ UNCHANGED <<live, req, free, lazy, cached, pageTable>>
  <2>1. Tables'
    BY <1>5, KeptTables DEF Layout
  <2>2. \A v : OwnIndices(v)' = OwnIndices(v)
    BY <1>5 DEF OwnIndices
  <2>3. Owned => Owned'
    BY <1>5, <2>2, KeptOwned
  <2>4. Lazily'
    BY <1>4, <1>5 DEF Lazily
  <2> QED BY <1>3, <2>1, <2>3, <2>4 DEF Layout
<1>6. CASE u \in live /\ \E isInflight : FreeReqResources(u, isInflight)
                                         /\ (isInflight /\ u \in Active => u \in inflight[2])
  <2>1. PICK isInflight : FreeReqResources(u, isInflight)
                          /\ (isInflight /\ u \in Active => u \in inflight[2])
    BY <1>6
  <2>2. Tables'
    BY <1>6, <2>1, FreeTables DEF Layout
  <2>3. Lazily'
    BY <1>4, <2>1 DEF Lazily, FreeReqResources
  <2>4. ASSUME Owned, ~AbortsAtPageEnd
        PROVE  Owned'
    <3>1. DivCeil(req[u].cached) = DivCeil(req[u].device) \/ ~isInflight
      <4>1. CASE u \in Active /\ isInflight
        <5>1. u \in inflight[2] /\ u \in aborted'
          BY <1>1, <2>1, <4>1
        <5>2. req[u].cached % PageSize # 0
          BY <2>4, <4>1, <5>1 DEF AbortsAtPageEnd
        <5>3. req[u].cached = req[u].device - 1 /\ req[u].cached \in Nat /\ req[u].device \in Nat
          BY <1>6, <4>1, LensOf DEF Layout, Extents
        <5> QED BY <5>2, <5>3, CeilOfNext
      <4>2. CASE u \notin Active
        <5>1. req[u].cached = req[u].device
          BY <1>1, <1>2, <1>6, <4>2 DEF Layout, Extents
        <5> QED BY <5>1
      <4> QED BY <4>1, <4>2
    <3>2. InflightPages(u, isInflight) = <<>>
      BY <1>6, <3>1, InflightIs DEF Layout
    <3> QED BY <1>6, <2>1, <2>4, <3>2, FreeOwned DEF Layout
  <2> QED BY <1>3, <2>2, <2>3, <2>4 DEF Layout
<1> QED BY <1>5, <1>6, AbortFrees

LEMMA StartScheduleLayout ==
    ASSUME Layout, StartSchedule
    PROVE  Layout' /\ (Owned => Owned')
<1>1. /\ UNCHANGED <<running, req, live, gen, last, newFin, free, lazy, cached, pageTable>>
      /\ pc = "recv" /\ pc' = "admit"
  BY DEF StartSchedule, decode, request, memory
<1>2. Active' = Active
  BY <1>1 DEF Active
<1>3. Tables'
  BY <1>1, KeptTables DEF Layout
<1>4. Extents'
  BY <1>1, <1>2, KeptExtents DEF Layout
<1>5. Lazily'
  BY <1>1 DEF Layout, Lazily
<1>6. \A v : OwnIndices(v)' = OwnIndices(v)
  BY <1>1 DEF OwnIndices
<1>7. Owned => Owned'
  BY <1>1, <1>6, KeptOwned
<1> QED BY <1>3, <1>4, <1>5, <1>7 DEF Layout

LEMMA SkipResultLayout ==
    ASSUME Layout, SkipResult
    PROVE  Layout' /\ (Owned => Owned')
<1>1. /\ UNCHANGED <<running, req, live, gen, last, newFin, free, lazy, cached, pageTable>>
      /\ pc = "process" /\ pc' = pc
  BY DEF SkipResult, Processing, decode, request, memory
<1>2. Active' = Active
  BY <1>1 DEF Active
<1>3. Tables'
  BY <1>1, KeptTables DEF Layout
<1>4. Extents'
  BY <1>1, <1>2, KeptExtents DEF Layout
<1>5. Lazily'
  BY <1>1 DEF Layout, Lazily
<1>6. \A v : OwnIndices(v)' = OwnIndices(v)
  BY <1>1 DEF OwnIndices
<1>7. Owned => Owned'
  BY <1>1, <1>6, KeptOwned
<1> QED BY <1>3, <1>4, <1>5, <1>7 DEF Layout

LEMMA NextIterationLayout ==
    ASSUME Layout, NextIteration
    PROVE  Layout' /\ (Owned => Owned')
<1>1. /\ UNCHANGED <<running, req, live, gen, newFin, free, lazy, cached, pageTable>>
      /\ pc = "free" \/ (pc = "process" /\ last = NoReq)
  BY DEF NextIteration, decode, request, memory
<1>2. Active' = Active
  BY <1>1 DEF Active
<1>3. Tables'
  BY <1>1, KeptTables DEF Layout
<1>4. Extents'
  BY <1>1, <1>2, KeptExtents DEF Layout
<1>5. Lazily'
  BY <1>1 DEF Layout, Lazily
<1>6. \A v : OwnIndices(v)' = OwnIndices(v)
  BY <1>1 DEF OwnIndices
<1>7. Owned => Owned'
  BY <1>1, <1>6, KeptOwned
<1> QED BY <1>3, <1>4, <1>5, <1>7 DEF Layout

LEMMA StutterLayout ==
    ASSUME Layout, UNCHANGED vars
    PROVE  Layout' /\ (Owned => Owned')
<1>1. /\ UNCHANGED <<running, inflPre, req, live, gen, last, newFin, free, lazy, cached, pageTable>>
      /\ pc' = pc
  BY DEF vars, client, prefill, decode, request, loop, memory
<1>2. Active' = Active
  BY <1>1 DEF Active
<1>3. Tables'
  BY <1>1, KeptTables DEF Layout
<1>4. Extents'
  BY <1>1, <1>2, KeptExtents DEF Layout
<1>5. Lazily'
  BY <1>1 DEF Layout, Lazily
<1>6. \A v : OwnIndices(v)' = OwnIndices(v)
  BY <1>1 DEF OwnIndices
<1>7. Owned => Owned'
  BY <1>1, <1>6, KeptOwned
<1> QED BY <1>3, <1>4, <1>5, <1>7 DEF Layout

LEMMA FreeFinishedLayout ==
    ASSUME SizesAssumption, RequestsAssumption, NoReqAssumption, LifeInv, Locks, Layout,
           NEW u \in Uid, FreeFinished(u)
    PROVE  Layout' /\ (Owned => Owned')
<1>1. /\ pc = "free" /\ pc' = pc /\ u \in newFin /\ newFin' = newFin \ {u}
      /\ FreeReqResources(u, FALSE) /\ UNCHANGED <<running, gen, last>>
  BY DEF FreeFinished, decode
<1>2. u \in live /\ u \notin Active
  BY <1>1 DEF LifeInv, Places
<1>3. live' = live \ {u} /\ req' = req /\ lazy' = lazy
  BY <1>1 DEF FreeReqResources
<1>4. Active' = Active
  BY <1>1 DEF Active
<1>5. Tables'
  BY <1>1, <1>2, FreeTables DEF Layout
<1>6. Extents'
  <2>1. Active' \cup newFin' \subseteq Active \cup newFin
    BY <1>1, <1>4
  <2>2. live' \cap (Active \cup newFin) \subseteq Active' \cup newFin'
    BY <1>1, <1>3, <1>4
  <2> QED BY <1>1, <1>3, <2>1, <2>2, KeptExtents DEF Layout
<1>7. Lazily'
  BY <1>1, <1>3 DEF Layout, Lazily
<1>8. InflightPages(u, FALSE) = <<>>
  BY DEF InflightPages
<1>9. Owned => Owned'
  BY <1>1, <1>2, <1>8, FreeOwned DEF Layout
<1> QED BY <1>5, <1>6, <1>7, <1>9 DEF Layout

LEMMA EndProcessLayout ==
    ASSUME LifeInv, Layout, EndProcess
    PROVE  Layout' /\ (Owned => Owned')
<1>1. /\ UNCHANGED <<running, req, live, gen, last, newFin, cached, pageTable>>
      /\ pc = "process" /\ pc' = "free" /\ free' = free \o lazy /\ lazy' = <<>>
  BY DEF EndProcess, request
<1>2. Active' = Active
  BY <1>1 DEF Active
<1>3. /\ free \in Seq(Page) /\ lazy \in Seq(Page)
  BY DEF Layout, Tables
<1>4. free' \in Seq(Page) /\ ToSet(free') = ToSet(free) \cup ToSet(lazy)
  BY <1>1, <1>3, ConcatIs
<1>5. <<>> \in Seq(Page) /\ ToSet(lazy') = {} /\ IsInjective(lazy')
  BY <1>1 DEF ToSet, IsInjective
<1>6. Tables'
  BY <1>1, <1>4, <1>5 DEF Layout, Tables, CachedPages
<1>7. Extents'
  BY <1>1, <1>2, KeptExtents DEF Layout
<1>8. Lazily'
  BY <1>1 DEF Lazily
<1>9. ASSUME Owned
      PROVE  Owned'
  <2>1. IsInjective(free')
    BY <1>1, <1>3, <1>9, ConcatIs DEF Owned
  <2>2. \A v : OwnIndices(v)' = OwnIndices(v)
    BY <1>1 DEF OwnIndices
  <2>3. \A v, i : RowPage(v, i)' = RowPage(v, i)
    BY <1>1 DEF RowPage
  <2>4. \A v : OwnPages(v)' = OwnPages(v)
    BY <2>2, <2>3 DEF OwnPages
  <2>5. CachedPages' = CachedPages
    BY <1>1 DEF CachedPages
  <2>6. \A v \in live' : \A i, j \in OwnIndices(v)' : RowPage(v, i)' = RowPage(v, j)' => i = j
    BY <1>1, <1>9, <2>2, <2>3 DEF Owned
  <2>7. \A k, m \in DOMAIN cached' : cached'[k] = cached'[m] => k = m
    BY <1>1, <1>9 DEF Owned
  <2>8. /\ ToSet(free') \cap ToSet(lazy') = {}
        /\ CachedPages' \cap (ToSet(free') \cup ToSet(lazy')) = {}
    BY <1>4, <1>5, <1>9, <2>5 DEF Owned
  <2>9. /\ \A v \in live' : OwnPages(v)' \cap (ToSet(free') \cup ToSet(lazy') \cup CachedPages') = {}
        /\ \A v, w \in live' : v # w => OwnPages(v)' \cap OwnPages(w)' = {}
    BY <1>1, <1>4, <1>5, <1>9, <2>4, <2>5 DEF Owned
  <2>10. \A p \in Page : p \in ToSet(free') \cup ToSet(lazy') \cup CachedPages'
                            \/ \E v \in live' : p \in OwnPages(v)'
    BY <1>1, <1>4, <1>5, <1>9, <2>4, <2>5 DEF Owned
  <2> QED BY <1>5, <2>1, <2>6, <2>7, <2>8, <2>9, <2>10 DEF Owned
<1> QED BY <1>6, <1>7, <1>8, <1>9 DEF Layout

-----------------------------------------------------------------------------
(* Admission. *)

LEMMA NextPending ==
    ASSUME LifeInv, pc = "admit", adder.n < Len(pend), NEW u, u = pend[adder.n + 1]
    PROVE  u \in Waiting /\ u \in Uid /\ u \notin inflPre
<1>1. pend \in Seq(Uid) /\ IsInjective(pend) /\ adder.n \in Nat
  BY DEF LifeInv, Types, Once
<1>2. PICK n, m : n = adder.n /\ m = Len(pend)
  OBVIOUS
<1>3. n \in Nat /\ m \in Nat /\ n < m /\ DOMAIN pend = 1 .. m
  BY <1>1, <1>2
<1>4. n + 1 \in 1 .. m /\ \A i \in 1 .. n : i \in 1 .. m /\ i # n + 1
  BY <1>3
<1>5. u \in Uid /\ u \in Waiting
  BY <1>1, <1>2, <1>3, <1>4 DEF Waiting, ToSet
<1>6. inflPre = {pend[i] : i \in 1 .. n}
  BY <1>2 DEF LifeInv, Phases
<1>7. \A i \in 1 .. n : pend[i] # u
  BY <1>1, <1>2, <1>3, <1>4 DEF IsInjective
<1> QED BY <1>5, <1>6, <1>7

LEMMA LeastOfTwo ==
    ASSUME NEW a \in Int, a > 0, NEW b \in Int, NEW from \in Nat, from <= b,
           from < b \/ 1 <= from
    PROVE  /\ from <= from + Lesser(a, b - from) /\ 1 <= from + Lesser(a, b - from)
           /\ Lesser(a, b - from) \in Nat
  BY DEF Lesser

(* A chunk that is admitted has a token at least. *)
LEMMA AddOneGrows ==
    ASSUME SizesAssumption, RequestsAssumption, LifeInv,
           pc = "admit", adder.n < Len(pend), NEW u, u = pend[adder.n + 1],
           NEW row, NEW handle, NEW from \in Nat, AddOne(u, row, handle, from),
           adder.budget > 0, from <= InputLen(u), from < InputLen(u) \/ 1 <= from
    PROVE  /\ \A v \in Uid : v # u => req'[v] = req[v]
           /\ req'[u].row = row /\ req'[u].handle = handle /\ req'[u].cached = from
           /\ from <= req'[u].device /\ 1 <= req'[u].device
           /\ inflPre' = inflPre \cup {u} /\ live' = live \cup {u}
<1>1. u \in Waiting /\ u \in Uid
  BY NextPending
<1>2. InputLen(u) \in Nat
  <2>1. InputLen(u) < MaxSeqLen
    BY <1>1 DEF LifeInv, Counts
  <2> QED BY <1>1, <2>1, Lengths
<1>3. adder.budget \in Int
  BY DEF LifeInv, Types
<1>4. PICK chunk : chunk = Lesser(adder.budget, InputLen(u) - from)
  OBVIOUS
<1>5. chunk \in Nat /\ from <= from + chunk /\ 1 <= from + chunk
  <2>1. PICK a, b : a = adder.budget /\ b = InputLen(u)
    OBVIOUS
  <2>2. a \in Int /\ a > 0 /\ b \in Int /\ from <= b /\ (from < b \/ 1 <= from)
    BY <1>2, <1>3, <2>1
  <2>3. chunk = Lesser(a, b - from)
    BY <1>4, <2>1
  <2> QED BY <2>2, <2>3, LeastOfTwo
<1>6. /\ req' = [req EXCEPT ![u] = [row |-> row, cached |-> from, device |-> from + chunk,
                                    handle |-> handle]]
      /\ inflPre' = inflPre \cup {u} /\ live' = live \cup {u}
  BY <1>4 DEF AddOne
<1>7. req = [v \in Uid |-> req[v]]
  BY DEF LifeInv, Types
<1>8. /\ \A v \in Uid : v # u => req'[v] = req[v]
      /\ req'[u] = [row |-> row, cached |-> from, device |-> from + chunk, handle |-> handle]
  BY <1>1, <1>6, <1>7
<1> QED BY <1>5, <1>6, <1>8

LEMMA AdmitExtents ==
    ASSUME SizesAssumption, RequestsAssumption, LifeInv, Extents,
           pc = "admit", adder.n < Len(pend), NEW u, u = pend[adder.n + 1],
           NEW row, NEW handle, NEW from \in Nat, AddOne(u, row, handle, from),
           adder.budget > 0, from <= InputLen(u), from < InputLen(u) \/ 1 <= from,
           UNCHANGED <<pc, running, newFin, gen>>, HandleIs(u)'
    PROVE  Extents'
<1>1. u \in Waiting /\ u \in Uid /\ live \subseteq Uid
  BY NextPending DEF LifeInv, Types
<1>2. /\ \A v \in Uid : v # u => req'[v] = req[v]
      /\ req'[u].cached = from /\ from <= req'[u].device /\ 1 <= req'[u].device
      /\ inflPre' = inflPre \cup {u} /\ live' = live \cup {u}
  BY AddOneGrows
<1>3. newFin = {} /\ u \notin Active
  BY <1>1 DEF LifeInv, Phases, Places
<1>4. Active' = Active /\ Active \subseteq live
  BY DEF Active, LifeInv, Places
<1>5. \A v \in live' : /\ 0 <= req'[v].cached /\ req'[v].cached <= req'[v].device
                       /\ 1 <= req'[v].device
  <2> SUFFICES ASSUME NEW v \in live'
               PROVE  /\ 0 <= req'[v].cached /\ req'[v].cached <= req'[v].device
                      /\ 1 <= req'[v].device
    OBVIOUS
  <2>1. CASE v = u
    BY <1>2, <2>1
  <2>2. CASE v # u
    BY <1>1, <1>2, <2>2 DEF Extents
  <2> QED BY <2>1, <2>2
<1>6. \A v \in Active' \cup newFin' : req'[v].cached = req'[v].device - 1
  <2> SUFFICES ASSUME NEW v \in Active
               PROVE  req'[v].cached = req'[v].device - 1
    BY <1>3, <1>4
  <2>1. v # u /\ v \in Uid
    BY <1>1, <1>3, <1>4
  <2> QED BY <1>2, <2>1 DEF Extents
<1>7. \A v \in live' \ (Active' \cup newFin') :
         req'[v].cached = req'[v].device \/ (pc' = "admit" /\ v \in inflPre')
  <2> SUFFICES ASSUME NEW v \in live', v \notin Active \cup newFin, v \notin inflPre'
               PROVE  req'[v].cached = req'[v].device
    BY <1>4
  <2>1. v # u /\ v \in live /\ v \notin inflPre
    BY <1>2
  <2> QED BY <1>1, <1>2, <2>1 DEF Extents
<1>8. \A v \in live' : HandleIs(v)'
  <2> SUFFICES ASSUME NEW v \in live', v # u
               PROVE  HandleIs(v)'
    OBVIOUS
  <2>1. v \in live /\ req'[v] = req[v] /\ HostIds(v)' = HostIds(v)
    BY <1>1, <1>2 DEF HostIds
  <2>2. HandleIs(v)
    BY <2>1 DEF Extents
  <2> QED BY <2>1, <2>2 DEF HandleIs, BlockOf
<1> QED BY <1>5, <1>6, <1>7, <1>8 DEF Extents

LEMMA AdmitChunkLayout ==
    ASSUME SizesAssumption, RequestsAssumption, LifeInv, Layout, AdmitChunk
    PROVE  Layout' /\ (Owned => Owned')
<1>1. PICK u : u = pend[adder.n + 1]
  OBVIOUS
<1>2. PICK row, handle, from : row = req[u].row /\ handle = req[u].handle /\ from = req[u].cached
  OBVIOUS
<1>3. /\ pc = "admit" /\ adder.n < Len(pend) /\ u \in live /\ AddOne(u, row, handle, from)
      /\ adder.budget > 0
      /\ UNCHANGED <<pc, last, running, newFin, gen, free, lazy, cached, pageTable>>
  BY <1>1, <1>2 DEF AdmitChunk, CanAdmit, IsChunk, decode, loop, memory
<1>4. u \in Waiting /\ u \in Uid /\ u \notin inflPre
  BY <1>1, <1>3, NextPending
<1>5. newFin = {} /\ u \notin Active
  BY <1>3, <1>4 DEF LifeInv, Phases, Places
<1>6. req[u].cached = req[u].device /\ 1 <= req[u].device /\ req[u].cached \in Nat
  BY <1>3, <1>4, <1>5, LensOf DEF Layout, Extents
<1>7. req[u].device <= InputLen(u)
  BY <1>3, <1>4 DEF LifeInv, Counts
<1>8. from \in Nat /\ 1 <= from /\ from <= InputLen(u)
  BY <1>2, <1>6, <1>7
<1>9. /\ \A v \in Uid : v # u => req'[v] = req[v]
      /\ req'[u].row = row /\ req'[u].handle = handle /\ req'[u].cached = from
      /\ live' = live \cup {u}
  BY <1>1, <1>3, <1>8, AddOneGrows
<1>10. HandleIs(u)'
  <2>1. HostIds(u)' = HostIds(u) /\ HandleIs(u)
    BY <1>3 DEF HostIds, Layout, Extents
  <2> QED BY <1>2, <1>9, <2>1 DEF HandleIs, BlockOf
<1>11. Extents'
  BY <1>1, <1>3, <1>8, <1>10, AdmitExtents DEF Layout
<1>12. Tables'
  BY <1>3, KeptTables DEF Layout
<1>13. Lazily'
  BY <1>3 DEF Layout, Lazily
<1>14. live' = live /\ \A v \in live : /\ req'[v].row = req[v].row
                                       /\ OwnIndices(v)' = OwnIndices(v)
  <2>1. live \subseteq Uid
    BY DEF LifeInv, Types
  <2>2. \A v \in live : /\ req'[v].row = req[v].row /\ req'[v].handle = req[v].handle
                        /\ req'[v].cached = req[v].cached
    BY <1>2, <1>9, <2>1
  <2> QED BY <1>3, <1>9, <2>2 DEF OwnIndices
<1>15. Owned => Owned'
  BY <1>3, <1>14, KeptOwned
<1> QED BY <1>11, <1>12, <1>13, <1>15 DEF Layout

(* The match of a new request: blocks of its prompt, short of its end.      *)
MatchedAs(u, key) ==
    /\ Len(key) \in Nat /\ key \in Seq(ToSet(key))
    /\ key = [i \in 1 .. Len(key) |-> BlockOf(HostIds(u), i)]
    /\ Len(key) * PageSize \in Nat /\ Len(key) * PageSize < InputLen(u)
    /\ Len(HostIds(u)) = InputLen(u) /\ InputLen(u) \in Nat
    /\ Len(key) <= DivCeil(MaxSeqLen)
    /\ PrefixesOf(key) \subseteq DOMAIN cached

LEMMA MatchKeyBlocks ==
    ASSUME SizesAssumption, RequestsAssumption, LifeInv, NEW u \in Waiting, u \in Uid
    PROVE  MatchedAs(u, MatchKey(u))
<1>1. gen[u] = <<>> /\ InputLen(u) < MaxSeqLen
  BY DEF LifeInv, Counts
<1>2. Prompt[u] \in Seq(ToSet(Prompt[u])) /\ InputLen(u) \in Nat \ {0}
  BY <1>1, Lengths DEF RequestsAssumption
<1>3. HostIds(u) = Prompt[u]
  BY <1>1, <1>2 DEF HostIds
<1>4. PICK B, ids, k : B = ToSet(Prompt[u]) /\ ids = Prompt[u] /\ k = InputLen(u) - 1
  OBVIOUS
<1>5. ids \in Seq(B) /\ k \in 0 .. Len(ids) /\ Len(ids) = k + 1 /\ k \in Nat
  <2>1. PICK l : l = InputLen(u)
    OBVIOUS
  <2>2. l \in Nat \ {0} /\ k = l - 1 /\ Len(ids) = l
    BY <1>2, <1>4, <2>1 DEF InputLen
  <2> QED BY <1>2, <1>4, <2>2
<1>6. PICK blocks, q : blocks = Blocks(SubSeq(ids, 1, k)) /\ q = k \div PageSize
  OBVIOUS
<1>7. blocks = [i \in 1 .. q |-> BlockOf(ids, i)] /\ q \in Nat /\ q * PageSize <= k
  BY <1>5, <1>6, BlocksOfPrefix
<1>8. PICK T : T = {BlockOf(ids, i) : i \in 1 .. q}
  OBVIOUS
<1>9. blocks \in Seq(T) /\ Len(blocks) = q
  BY <1>7, <1>8
<1>10. PICK m : m = MatchLen(cached, blocks)
  OBVIOUS
<1>11. m \in 0 .. q /\ PrefixesOf(SubSeq(blocks, 1, m)) \subseteq DOMAIN cached
  BY <1>9, <1>10, MatchIs, MatchedIsCached, <1>7
<1>12. PICK key : key = SubSeq(blocks, 1, m)
  OBVIOUS
<1>13. key = MatchKey(u)
  BY <1>4, <1>6, <1>10, <1>12 DEF MatchKey
<1>14. key = [i \in 1 .. m |-> blocks[i]]
  BY <1>9, <1>11, <1>12, PrefixIs
<1>15. Len(key) = m /\ m \in Nat /\ m <= q
  BY <1>7, <1>11, <1>14
<1>16. key = [i \in 1 .. m |-> BlockOf(ids, i)]
  <2>1. \A i \in 1 .. m : i \in 1 .. q
    BY <1>7, <1>15
  <2>2. \A i \in 1 .. m : blocks[i] = BlockOf(ids, i)
    BY <1>7, <2>1
  <2> QED BY <1>14, <2>2
<1>17. key \in Seq(ToSet(key))
  <2>1. \A i \in 1 .. m : key[i] \in ToSet(key)
    BY <1>14, <1>15 DEF ToSet
  <2> QED BY <1>14, <1>15, <2>1
<1>18. m * PageSize \in Nat /\ m * PageSize < InputLen(u) /\ m <= DivCeil(MaxSeqLen)
  <2>1. m * PageSize <= q * PageSize /\ m * PageSize \in Nat /\ q * PageSize \in Nat
    BY <1>7, <1>15, Multiples
  <2>2. PICK a, b, l : a = m * PageSize /\ b = q * PageSize /\ l = InputLen(u)
    OBVIOUS
  <2>3. a \in Nat /\ b \in Nat /\ a <= b /\ b <= k /\ k = l - 1 /\ l \in Nat /\ l < MaxSeqLen
    BY <1>1, <1>2, <1>4, <1>7, <2>1, <2>2
  <2>4. MaxSeqLen \in Nat
    BY DEF SizesAssumption
  <2>5. a < l /\ a <= MaxSeqLen
    BY <1>5, <2>3, <2>4
  <2>6. m <= DivCeil(MaxSeqLen)
    BY <1>15, <2>2, <2>4, <2>5, CeilIs
  <2> QED BY <2>2, <2>3, <2>5, <2>6
<1>19. MatchedAs(u, key)
  BY <1>2, <1>3, <1>4, <1>11, <1>12, <1>15, <1>16, <1>17, <1>18 DEF MatchedAs, InputLen
<1> QED BY <1>13, <1>19

(* What the admission of a new request does: its row was free, the pages of *)
(* its match are copied into it, and no other live row changes.             *)
Admits(u, row, key) ==
    /\ u \in Waiting /\ u \in Uid /\ u \notin live /\ row \in Row
    /\ MatchedAs(u, key)
    /\ live' = live \cup {u}
    /\ UNCHANGED <<pc, last, running, newFin, gen, free, lazy, cached>>
    /\ \A v \in live : req'[v] = req[v] /\ req[v].row # row
    /\ req'[u].row = row /\ req'[u].handle = key /\ req'[u].cached = Len(key) * PageSize
    /\ pageTable' = [r \in Row |-> [p \in Columns |->
                        IF r = row /\ p < Len(key) THEN cached[SubSeq(key, 1, p + 1)]
                        ELSE pageTable[r][p]]]

LEMMA AdmitNewDoes ==
    ASSUME SizesAssumption, RequestsAssumption, LifeInv, Tables, Extents, AdmitNew
    PROVE  Extents' /\ \E u, row, key : Admits(u, row, key)
<1>1. PICK u : u = pend[adder.n + 1]
  OBVIOUS
<1>2. PICK row, key : row = Last(freeRows) /\ key = MatchKey(u)
  OBVIOUS
<1>3. PICK from : from = Len(key) * PageSize
  OBVIOUS
<1>4. /\ pc = "admit" /\ adder.n < Len(pend) /\ u \notin Waiting \cap live
      /\ adder.budget > 0 /\ freeRows # <<>> /\ AddOne(u, row, key, from)
      /\ UNCHANGED <<pc, last, running, newFin, gen, free, lazy, cached>>
      /\ pageTable' = [pageTable EXCEPT ![row] =
            [p \in DOMAIN @ |-> IF p < Len(key) THEN MatchedPages(cached, key)[p + 1] ELSE @[p]]]
  BY <1>1, <1>2, <1>3 DEF AdmitNew, CanAdmit, IsChunk, decode, loop, Waiting
<1>5. u \in Waiting /\ u \in Uid /\ u \notin live /\ live \subseteq Uid
  BY <1>1, <1>4, NextPending DEF LifeInv, Types
<1>6. row \in Row /\ \A v \in live : req[v].row # row
  <2>1. freeRows \in Seq(Row) /\ IsInjective(freeRows)
    BY DEF LifeInv, Types, Rows
  <2>2. row \in ToSet(freeRows)
    BY <1>2, <1>4, <2>1, PopIs
  <2> QED BY <2>1, <2>2 DEF ToSet, LifeInv, Rows
<1>7. MatchedAs(u, key)
  BY <1>2, <1>5, MatchKeyBlocks
<1>8. from \in Nat /\ from < InputLen(u) /\ from <= InputLen(u)
  <2>1. PICK l : l = InputLen(u)
    OBVIOUS
  <2>2. from \in Nat /\ from < l /\ l \in Nat
    BY <1>3, <1>7, <2>1 DEF MatchedAs
  <2>3. from <= l
    BY <2>2
  <2> QED BY <2>1, <2>2, <2>3
<1>9. /\ \A v \in Uid : v # u => req'[v] = req[v]
      /\ req'[u].row = row /\ req'[u].handle = key /\ req'[u].cached = from
      /\ live' = live \cup {u}
  BY <1>1, <1>4, <1>8, AddOneGrows
<1>10. HandleIs(u)'
  <2>1. HostIds(u)' = HostIds(u)
    BY <1>4 DEF HostIds
  <2>2. /\ Len(key) \in Nat /\ key = [i \in 1 .. Len(key) |-> BlockOf(HostIds(u), i)]
    BY <1>7 DEF MatchedAs
  <2>3. Len(key) * PageSize <= from /\ Len(key) * PageSize <= Len(HostIds(u))
    <3>1. Len(HostIds(u)) = InputLen(u)
      BY <1>7 DEF MatchedAs
    <3> QED BY <1>3, <1>8, <3>1
  <2> QED BY <1>9, <2>1, <2>2, <2>3 DEF HandleIs, BlockOf
<1>11. Extents'
  BY <1>1, <1>4, <1>8, <1>10, AdmitExtents
<1>12. pageTable' = [r \in Row |-> [p \in Columns |->
                        IF r = row /\ p < Len(key) THEN cached[SubSeq(key, 1, p + 1)]
                        ELSE pageTable[r][p]]]
  <2>1. PICK n, t, f : /\ n = Len(key) /\ t = pageTable /\ f = MatchedPages(cached, key)
    OBVIOUS
  <2>2. t = [r \in Row |-> [p \in Columns |-> t[r][p]]]
    BY <2>1 DEF Tables
  <2>3. n \in Nat /\ f = [i \in 1 .. n |-> cached[SubSeq(key, 1, i)]]
    BY <1>7, <2>1 DEF MatchedAs, MatchedPages
  <2>4. DOMAIN t[row] = Columns
    BY <1>6, <2>2
  <2>5. PICK g : g = [p \in Columns |-> IF p < n THEN f[p + 1] ELSE t[row][p]]
    OBVIOUS
  <2>6. pageTable' = [t EXCEPT ![row] = g]
    <3>1. pageTable' = [t EXCEPT ![row] = [p \in DOMAIN @ |-> IF p < n THEN f[p + 1] ELSE @[p]]]
      BY <1>4, <2>1
    <3>2. pageTable' = [t EXCEPT ![row] =
                           [p \in DOMAIN t[row] |-> IF p < n THEN f[p + 1] ELSE t[row][p]]]
      BY <3>1
    <3> QED BY <2>4, <2>5, <3>2
  <2>7. \A p \in Columns : p < n => f[p + 1] = cached[SubSeq(key, 1, p + 1)]
    <3>1. \A p \in Columns : p < n => p + 1 \in 1 .. n
      BY <2>3 DEF Columns
    <3> QED BY <2>3, <3>1
  <2>8. pageTable' = [r \in Row |-> IF r = row THEN g ELSE t[r]]
    <3>1. t = [r \in Row |-> t[r]]
      BY <2>2
    <3> QED BY <1>6, <2>6, <3>1
  <2>9. g = [p \in Columns |-> IF p < n THEN cached[SubSeq(key, 1, p + 1)] ELSE t[row][p]]
    BY <2>5, <2>7
  <2>10. ASSUME NEW r \in Row
         PROVE  (IF r = row THEN g ELSE t[r]) =
                [p \in Columns |-> IF r = row /\ p < n THEN cached[SubSeq(key, 1, p + 1)]
                                   ELSE t[r][p]]
    <3>1. CASE r = row
      BY <2>9, <3>1
    <3>2. CASE r # row
      <4>1. t[r] = [p \in Columns |-> t[r][p]]
        BY <2>2
      <4> QED BY <3>2, <4>1
    <3> QED BY <3>1, <3>2
  <2>11. [r \in Row |-> IF r = row THEN g ELSE t[r]] =
         [r \in Row |-> [p \in Columns |-> IF r = row /\ p < n THEN cached[SubSeq(key, 1, p + 1)]
                                           ELSE t[r][p]]]
    BY <2>10, Zenon
  <2> QED BY <2>1, <2>8, <2>11
<1>13. \A v \in live : req'[v] = req[v]
  BY <1>5, <1>9
<1>14. Admits(u, row, key)
  BY <1>3, <1>4, <1>5, <1>6, <1>7, <1>9, <1>12, <1>13 DEF Admits
<1> QED BY <1>11, <1>14

(* A new request owns no page yet, and reads its match. *)
LEMMA AdmittedRows ==
    ASSUME NEW u, NEW row, NEW key, Admits(u, row, key), Tables,
           SizesAssumption, RequestsAssumption, LifeInv, Extents
    PROVE  /\ \A v \in live : \A p \in Columns : RowPage(v, p)' = RowPage(v, p)
           /\ \A p \in Columns : p < Len(key) => RowPage(u, p)' = cached[SubSeq(key, 1, p + 1)]
           /\ \A v \in live : OwnIndices(v)' = OwnIndices(v) /\ OwnIndices(v) \subseteq Columns
           /\ OwnIndices(u)' = {}
<1>1. /\ \A v \in live : req'[v] = req[v] /\ req[v].row # row
      /\ req'[u].row = row /\ req'[u].handle = key /\ req'[u].cached = Len(key) * PageSize
      /\ pageTable' = [r \in Row |-> [p \in Columns |->
                        IF r = row /\ p < Len(key) THEN cached[SubSeq(key, 1, p + 1)]
                        ELSE pageTable[r][p]]]
      /\ row \in Row /\ Len(key) \in Nat
  BY DEF Admits, MatchedAs
<1>2. \A r \in Row : \A p \in Columns :
         pageTable'[r][p] = IF r = row /\ p < Len(key) THEN cached[SubSeq(key, 1, p + 1)]
                            ELSE pageTable[r][p]
  BY <1>1, Zenon
<1>3. ASSUME NEW v \in live
      PROVE  /\ \A p \in Columns : RowPage(v, p)' = RowPage(v, p)
             /\ OwnIndices(v)' = OwnIndices(v) /\ OwnIndices(v) \subseteq Columns
  <2>1. req'[v] = req[v] /\ req[v].row # row /\ req[v].row \in Row
    BY <1>1, LensOf
  <2>2. \A p \in Columns : RowPage(v, p)' = RowPage(v, p)
    BY <1>2, <2>1 DEF RowPage
  <2>3. OwnIndices(v)' = OwnIndices(v)
    BY <2>1 DEF OwnIndices
  <2>4. OwnIndices(v) \subseteq Columns
    <3>1. PICK h, f, d : h = Len(req[v].handle) /\ f = From(v) /\ d = DivCeil(MaxSeqLen)
      OBVIOUS
    <3>2. h \in Nat /\ f \in Nat /\ d \in Nat /\ f <= d
      <4>1. PICK g : g = Upto(v)
        OBVIOUS
      <4>2. h \in Nat /\ f \in Nat /\ d \in Nat /\ f <= g /\ g <= d /\ g \in Nat
        BY <3>1, <4>1, OwnRange, ColumnsIs
      <4> QED BY <4>2
    <3>3. \A i \in h .. f - 1 : i \in 0 .. d - 1
      BY <3>2
    <3> QED BY <3>1, <3>3, OwnRange DEF Columns
  <2> QED BY <2>2, <2>3, <2>4
<1>4. \A p \in Columns : p < Len(key) => RowPage(u, p)' = cached[SubSeq(key, 1, p + 1)]
  BY <1>1, <1>2 DEF RowPage
<1>5. OwnIndices(u)' = {}
  <2>1. PICK n : n = Len(key)
    OBVIOUS
  <2>2. DivCeil(n * PageSize) = n /\ n \in Nat
    BY <1>1, <2>1, CeilOfWhole
  <2>3. OwnIndices(u)' = n .. DivCeil(n * PageSize) - 1
    BY <1>1, <2>1 DEF OwnIndices
  <2>4. n .. n - 1 = {}
    BY <2>2
  <2> QED BY <2>2, <2>3, <2>4
<1> QED BY <1>3, <1>4, <1>5

LEMMA AdmitNewLayout ==
    ASSUME SizesAssumption, RequestsAssumption, LifeInv, Layout, AdmitNew
    PROVE  Layout' /\ (Owned => Owned')
<1>1. Extents' /\ \E u, row, key : Admits(u, row, key)
  BY AdmitNewDoes DEF Layout
<1>2. PICK u, row, key : Admits(u, row, key)
  BY <1>1
<1>3. /\ \A v \in live : \A p \in Columns : RowPage(v, p)' = RowPage(v, p)
      /\ \A p \in Columns : p < Len(key) => RowPage(u, p)' = cached[SubSeq(key, 1, p + 1)]
      /\ \A v \in live : OwnIndices(v)' = OwnIndices(v) /\ OwnIndices(v) \subseteq Columns
      /\ OwnIndices(u)' = {}
  BY <1>2, AdmittedRows DEF Layout
<1>4. /\ UNCHANGED <<pc, last, free, lazy, cached>> /\ live' = live \cup {u}
      /\ pageTable' = [r \in Row |-> [p \in Columns |->
                        IF r = row /\ p < Len(key) THEN cached[SubSeq(key, 1, p + 1)]
                        ELSE pageTable[r][p]]]
      /\ PrefixesOf(key) \subseteq DOMAIN cached /\ Len(key) \in Nat /\ u \notin live
  BY <1>2 DEF Admits, MatchedAs
<1>5. Lazily'
  BY <1>4 DEF Layout, Lazily
<1>6. Tables'
  <2>1. pageTable' = [r \in Row |-> [p \in Columns |-> pageTable'[r][p]]]
    BY <1>4
  <2>2. ASSUME NEW r \in Row, NEW p \in Columns
        PROVE  pageTable'[r][p] \in Page
    <3>1. pageTable'[r][p] = IF r = row /\ p < Len(key) THEN cached[SubSeq(key, 1, p + 1)]
                             ELSE pageTable[r][p]
      BY <1>4
    <3>2. ASSUME p < Len(key) PROVE cached[SubSeq(key, 1, p + 1)] \in Page
      <4>1. p + 1 \in 1 .. Len(key)
        BY <1>4, <3>2 DEF Columns
      <4>2. SubSeq(key, 1, p + 1) \in DOMAIN cached
        BY <1>4, <4>1 DEF PrefixesOf
      <4> QED BY <4>2 DEF Layout, Tables, CachedPages
    <3>3. pageTable[r][p] \in Page
      BY DEF Layout, Tables
    <3> QED BY <3>1, <3>2, <3>3
  <2> QED BY <1>4, <2>1, <2>2 DEF Layout, Tables, CachedPages
<1>7. ASSUME Owned
      PROVE  Owned'
  <2>1. \A v \in live : \A i \in OwnIndices(v) : RowPage(v, i)' = RowPage(v, i)
    BY <1>3
  <2>2. \A v \in live : OwnPages(v)' = OwnPages(v)
    <3> TAKE v \in live
    <3>1. OwnIndices(v)' = OwnIndices(v) /\ \A i \in OwnIndices(v) : RowPage(v, i)' = RowPage(v, i)
      BY <1>3, <2>1
    <3> QED BY <3>1 DEF OwnPages
  <2>3. OwnPages(u)' = {}
    BY <1>3 DEF OwnPages
  <2>4. CachedPages' = CachedPages
    BY <1>4 DEF CachedPages
  <2>5. \A v \in live' : v = u \/ v \in live
    BY <1>4
  <2>6. \A v \in live' : \A i, j \in OwnIndices(v)' : RowPage(v, i)' = RowPage(v, j)' => i = j
    <3> SUFFICES ASSUME NEW v \in live', NEW i \in OwnIndices(v)', NEW j \in OwnIndices(v)',
                        RowPage(v, i)' = RowPage(v, j)'
                 PROVE  i = j
      OBVIOUS
    <3>1. v # u
      BY <1>3
    <3>2. v \in live /\ i \in OwnIndices(v) /\ j \in OwnIndices(v)
      BY <1>3, <2>5, <3>1
    <3>3. RowPage(v, i) = RowPage(v, j)
      BY <2>1, <3>2
    <3> QED BY <1>7, <3>2, <3>3 DEF Owned
  <2>7. \A k, m \in DOMAIN cached' : cached'[k] = cached'[m] => k = m
    BY <1>4, <1>7 DEF Owned
  <2>8. /\ IsInjective(free') /\ IsInjective(lazy') /\ ToSet(free') \cap ToSet(lazy') = {}
        /\ CachedPages' \cap (ToSet(free') \cup ToSet(lazy')) = {}
    BY <1>4, <1>7, <2>4 DEF Owned
  <2>9. \A v \in live' : OwnPages(v)' \cap (ToSet(free') \cup ToSet(lazy') \cup CachedPages') = {}
    BY <1>4, <1>7, <2>2, <2>3, <2>4, <2>5 DEF Owned
  <2>10. \A v, w \in live' : v # w => OwnPages(v)' \cap OwnPages(w)' = {}
    BY <1>7, <2>2, <2>3, <2>5 DEF Owned
  <2>11. \A p \in Page : p \in ToSet(free') \cup ToSet(lazy') \cup CachedPages'
                            \/ \E v \in live' : p \in OwnPages(v)'
    BY <1>4, <1>7, <2>2, <2>4 DEF Owned
  <2> QED BY <2>6, <2>7, <2>8, <2>9, <2>10, <2>11 DEF Owned
<1> QED BY <1>1, <1>5, <1>6, <1>7 DEF Layout

-----------------------------------------------------------------------------
(* Launch. *)

(* A batch is launched for the requests us. *)
Starts(us) ==
    /\ us \in Seq(Uid) /\ IsInjective(us) /\ ToSet(us) \subseteq live
    /\ pc = "admit" /\ AllocatePaged(us) /\ Launches(us) /\ inflPre \subseteq ToSet(us)
    /\ UNCHANGED <<running, newFin, gen, last>>
    /\ \A v \in live : req'[v].device = IF v \in ToSet(us) \cap Active THEN req[v].device + 1
                                        ELSE req[v].device

LEMMA StartsExtents ==
    ASSUME SizesAssumption, RequestsAssumption, LifeInv, Extents, NEW us, Starts(us)
    PROVE  Extents'
<1>1. /\ live' = live /\ gen' = gen /\ newFin' = newFin /\ pc = "admit"
      /\ Active' = Active /\ inflPre \subseteq ToSet(us)
      /\ \A v \in live : /\ req'[v].row = req[v].row /\ req'[v].handle = req[v].handle
                         /\ req'[v].device = IF v \in ToSet(us) \cap Active THEN req[v].device + 1
                                             ELSE req[v].device
      /\ \A v \in ToSet(us) : v \in live /\ req'[v].cached = req[v].device
      /\ \A v \in live \ ToSet(us) : req'[v].cached = req[v].cached
  BY DEF Starts, Launches, Active
<1>2. newFin = {} /\ Active \subseteq live
  BY <1>1 DEF LifeInv, Phases, Places
<1>3. ASSUME NEW v \in live
      PROVE  /\ 0 <= req'[v].cached /\ req'[v].cached <= req'[v].device
             /\ 1 <= req'[v].device /\ req[v].cached <= req'[v].cached
             /\ v \in Active => req'[v].cached = req'[v].device - 1
             /\ v \notin Active => req'[v].cached = req'[v].device
  <2>1. PICK c, d : c = req[v].cached /\ d = req[v].device
    OBVIOUS
  <2>2. c \in Nat /\ d \in Nat /\ c <= d /\ 1 <= d
    BY <2>1, LensOf DEF Extents
  <2>3. v \in Active => c = d - 1
    BY <2>1 DEF Extents
  <2>4. v \notin Active /\ v \notin ToSet(us) => c = d
    BY <1>1, <1>2, <2>1 DEF Extents
  <2>5. CASE v \in ToSet(us) /\ v \in Active
    <3>1. req'[v].cached = d /\ req'[v].device = d + 1
      BY <1>1, <2>1, <2>5
    <3> QED BY <2>1, <2>2, <2>5, <3>1
  <2>6. CASE v \in ToSet(us) /\ v \notin Active
    <3>1. req'[v].cached = d /\ req'[v].device = d
      BY <1>1, <2>1, <2>6
    <3> QED BY <2>1, <2>2, <2>6, <3>1
  <2>7. CASE v \notin ToSet(us)
    <3>1. req'[v].cached = c /\ req'[v].device = d
      BY <1>1, <2>1, <2>7
    <3> QED BY <2>1, <2>2, <2>3, <2>4, <2>7, <3>1
  <2> QED BY <2>5, <2>6, <2>7
<1>4. ASSUME NEW v \in live
      PROVE  HandleIs(v)'
  <2>1. HandleIs(v) /\ HostIds(v)' = HostIds(v) /\ req'[v].handle = req[v].handle
    BY <1>1 DEF Extents, HostIds
  <2>2. PICK a, b, c : a = Len(req[v].handle) * PageSize /\ b = req[v].cached /\ c = req'[v].cached
    OBVIOUS
  <2>3. PICK h : h = Len(req[v].handle)
    OBVIOUS
  <2>4. a = h * PageSize /\ h \in Nat /\ a <= b
    BY <2>1, <2>2, <2>3 DEF HandleIs
  <2>5. a \in Nat
    BY <2>4, Multiples
  <2>6. b \in Nat /\ b <= c /\ c \in Int
    <3>1. req'[v].cached = req[v].device \/ req'[v].cached = req[v].cached
      BY <1>1
    <3> QED BY <1>3, <2>2, <3>1, LensOf
  <2>7. a <= c
    BY <2>4, <2>5, <2>6
  <2> QED BY <2>1, <2>2, <2>7 DEF HandleIs, BlockOf
<1>5. \A v \in Active' \cup newFin' : req'[v].cached = req'[v].device - 1
  BY <1>1, <1>2, <1>3
<1>6. \A v \in live' \ (Active' \cup newFin') :
         req'[v].cached = req'[v].device \/ (pc' = "admit" /\ v \in inflPre')
  BY <1>1, <1>3
<1>7. \A v \in live' : /\ 0 <= req'[v].cached /\ req'[v].cached <= req'[v].device
                       /\ 1 <= req'[v].device
  BY <1>1, <1>3
<1>8. \A v \in live' : HandleIs(v)'
  BY <1>1, <1>4
<1> QED BY <1>5, <1>6, <1>7, <1>8 DEF Extents

LEMMA StartsLayout ==
    ASSUME SizesAssumption, RequestsAssumption, LifeInv, Locks, Layout, NEW us, Starts(us)
    PROVE  Layout' /\ (Owned => Owned')
<1>1. /\ us \in Seq(Uid) /\ IsInjective(us) /\ ToSet(us) \subseteq live
      /\ AllocatePaged(us) /\ Launches(us) /\ pc = "admit" /\ last' = last
  BY DEF Starts
<1>2. Tables /\ Extents
  BY DEF Layout
<1>3. \E s, S, need, allocated : Deals(us, s, S, need, allocated)
  BY <1>1, <1>2, AllocateDeals
<1>4. PICK s, S, need, allocated : Deals(us, s, S, need, allocated)
  BY <1>3
<1>5. Tables'
  BY <1>1, <1>2, <1>4, AllocatedTables
<1>6. Owned => Owned'
  BY <1>1, <1>2, <1>4, AllocatedOwned
<1>7. Extents'
  BY <1>2, StartsExtents
<1>8. Lazily'
  BY <1>1 DEF Layout, Lazily, Launches
<1> QED BY <1>5, <1>6, <1>7, <1>8 DEF Layout

LEMMA LaunchPrefillStarts ==
    ASSUME LifeInv, LaunchPrefill
    PROVE  \E us : Starts(us)
<1>1. PICK us : us = SubSeq(pend, 1, adder.n)
  OBVIOUS
<1>2. /\ pc = "admit" /\ pc' = "process" /\ AllocatePaged(us)
      /\ UNCHANGED <<running, newFin, gen, last, live, lazy>>
      /\ req' = [u \in Uid |-> IF u \in ToSet(us) THEN [req[u] EXCEPT !.cached = req[u].device]
                               ELSE req[u]]
  BY <1>1 DEF LaunchPrefill, AdmissionOver, decode
<1>3. pend \in Seq(Uid) /\ IsInjective(pend)
  BY DEF LifeInv, Types, Once
<1>4. adder.n \in 0 .. Len(pend) /\ inflPre = {pend[i] : i \in 1 .. adder.n}
  <2>1. adder.n <= Len(pend) /\ inflPre = {pend[i] : i \in 1 .. adder.n}
    BY <1>2 DEF LifeInv, Phases
  <2>2. adder.n \in Nat /\ Len(pend) \in Nat
    BY LenProperties DEF LifeInv, Types
  <2> QED BY <2>1, <2>2
<1>5. us \in Seq(Uid) /\ IsInjective(us) /\ ToSet(us) = inflPre
  BY <1>1, <1>3, <1>4, SplitIs
<1>6. inflPre \subseteq live /\ inflPre \cap Active = {} /\ live \subseteq Uid
  BY <1>2 DEF LifeInv, Phases, Places, Types
<1>7. ASSUME NEW v \in live
      PROVE  /\ req'[v].row = req[v].row /\ req'[v].handle = req[v].handle
             /\ req'[v].device = req[v].device
             /\ v \in ToSet(us) => req'[v].cached = req[v].device
             /\ v \notin ToSet(us) => req'[v].cached = req[v].cached
  <2>1. v \in Uid /\ IsRequest(req[v])
    BY <1>6 DEF LifeInv, Types
  <2>2. req'[v] = IF v \in ToSet(us) THEN [req[v] EXCEPT !.cached = req[v].device] ELSE req[v]
    BY <1>2, <2>1
  <2>3. PICK r : r = req[v]
    OBVIOUS
  <2>4. r = [row |-> r.row, cached |-> r.cached, device |-> r.device, handle |-> r.handle]
    BY <2>1, <2>3 DEF IsRequest
  <2>5. PICK q : q = [r EXCEPT !.cached = r.device]
    OBVIOUS
  <2>6. q.row = r.row /\ q.handle = r.handle /\ q.device = r.device /\ q.cached = r.device
    BY <2>4, <2>5
  <2> QED BY <2>2, <2>3, <2>5, <2>6
<1>8. Launches(us)
  BY <1>2, <1>5, <1>6, <1>7 DEF Launches
<1>9. Starts(us)
  BY <1>2, <1>5, <1>6, <1>7, <1>8 DEF Starts
<1> QED BY <1>9

LEMMA LaunchDecodeStarts ==
    ASSUME SizesAssumption, LifeInv, LaunchDecode
    PROVE  \/ \E us : Starts(us)
           \/ /\ UNCHANGED <<req, live, free, lazy, cached, pageTable, running, newFin, gen, last>>
              /\ pc = "admit" /\ inflPre = {}
<1>1. /\ pc = "admit" /\ pc' = "process" /\ adder.n = 0
      /\ UNCHANGED <<running, newFin, gen, last>>
  BY DEF LaunchDecode, AdmissionOver
<1>2. inflPre = {}
  <2>1. inflPre = {pend[i] : i \in 1 .. 0}
    BY <1>1 DEF LifeInv, Phases
  <2> QED BY <2>1
<1>3. PICK us : us = DecodeBatch
  OBVIOUS
<1>4. us \in Seq(Uid) /\ IsInjective(us) /\ ToSet(us) \subseteq Active
  BY <1>3, DecodeBatchIs
<1>5. Active \subseteq live /\ live \subseteq Uid
  BY DEF LifeInv, Places, Types
<1>6. CASE us = <<>>
  <2>1. UNCHANGED <<req, live, memory>>
    BY <1>3, <1>6 DEF LaunchDecode
  <2> QED BY <1>1, <1>2, <2>1 DEF memory
<1>7. CASE us # <<>>
  <2>1. /\ AllocatePaged(us) /\ UNCHANGED <<live, lazy>>
        /\ req' = [u \in Uid |-> IF u \in ToSet(us)
                     THEN [req[u] EXCEPT !.device = @ + 1, !.cached = req[u].device]
                     ELSE req[u]]
    BY <1>3, <1>7 DEF LaunchDecode
  <2>2. ASSUME NEW v \in live
        PROVE  /\ req'[v].row = req[v].row /\ req'[v].handle = req[v].handle
               /\ v \in ToSet(us) => req'[v].cached = req[v].device /\ req'[v].device = req[v].device + 1
               /\ v \notin ToSet(us) => req'[v].cached = req[v].cached /\ req'[v].device = req[v].device
    <3>1. v \in Uid /\ IsRequest(req[v])
      BY <1>5 DEF LifeInv, Types
    <3>2. req'[v] = IF v \in ToSet(us)
                    THEN [req[v] EXCEPT !.device = @ + 1, !.cached = req[v].device] ELSE req[v]
      BY <2>1, <3>1
    <3>3. PICK r : r = req[v]
      OBVIOUS
    <3>4. r = [row |-> r.row, cached |-> r.cached, device |-> r.device, handle |-> r.handle]
      BY <3>1, <3>3 DEF IsRequest
    <3>5. PICK q : q = [r EXCEPT !.device = @ + 1, !.cached = r.device]
      OBVIOUS
    <3>6. q.row = r.row /\ q.handle = r.handle
      BY <3>4, <3>5
    <3>7. q.device = r.device + 1 /\ q.cached = r.device
      BY <3>4, <3>5, SMTT(30)
    <3> QED BY <3>2, <3>3, <3>5, <3>6, <3>7
  <2>3. Launches(us)
    BY <1>1, <1>4, <1>5, <2>1, <2>2 DEF Launches
  <2>4. Starts(us)
    BY <1>1, <1>2, <1>4, <1>5, <2>1, <2>2, <2>3 DEF Starts
  <2> QED BY <2>4
<1> QED BY <1>6, <1>7

LEMMA LaunchPrefillLayout ==
    ASSUME SizesAssumption, RequestsAssumption, LifeInv, Locks, Layout, LaunchPrefill
    PROVE  Layout' /\ (Owned => Owned')
<1>1. \E us : Starts(us)
  BY LaunchPrefillStarts
<1>2. PICK us : Starts(us)
  BY <1>1
<1> QED BY <1>2, StartsLayout

LEMMA LaunchDecodeLayout ==
    ASSUME SizesAssumption, RequestsAssumption, LifeInv, Locks, Layout, LaunchDecode
    PROVE  Layout' /\ (Owned => Owned')
<1>1. CASE \E us : Starts(us)
  <2>1. PICK us : Starts(us)
    BY <1>1
  <2> QED BY <2>1, StartsLayout
<1>2. CASE /\ UNCHANGED <<req, live, free, lazy, cached, pageTable, running, newFin, gen, last>>
           /\ pc = "admit" /\ inflPre = {}
  <2>1. Active' = Active
    BY <1>2 DEF Active
  <2>2. Tables'
    BY <1>2, KeptTables DEF Layout
  <2>3. Extents'
    <3>1. \A v : HostIds(v)' = HostIds(v)
      BY <1>2 DEF HostIds
    <3>2. \A v : HandleIs(v) => HandleIs(v)'
      BY <1>2, <3>1 DEF HandleIs, BlockOf
    <3>3. \A v \in live' : HandleIs(v)'
      BY <1>2, <3>2 DEF Layout, Extents
    <3> QED BY <1>2, <2>1, <3>3 DEF Layout, Extents
  <2>4. Lazily'
    BY <1>2 DEF Layout, Lazily
  <2>5. \A v : OwnIndices(v)' = OwnIndices(v)
    BY <1>2 DEF OwnIndices
  <2>6. Owned => Owned'
    BY <1>2, <2>5, KeptOwned
  <2> QED BY <2>2, <2>3, <2>4, <2>6 DEF Layout
<1> QED BY <1>1, <1>2, LaunchDecodeStarts

-----------------------------------------------------------------------------
(* Reading a token. *)

(* A block of a list stays when the list grows. *)
LEMMA BlockStays ==
    ASSUME SizesAssumption, NEW B, NEW s \in Seq(B), NEW x \in B, NEW h \in Nat,
           h * PageSize <= Len(s)
    PROVE  \A i \in 1 .. h : BlockOf(Append(s, x), i) = BlockOf(s, i)
<1> PICK p, L : p = PageSize /\ L = Len(s)
  OBVIOUS
<1>1. p \in Nat \ {0} /\ L \in Nat /\ h * p <= L
  BY DEF SizesAssumption
<1>t. PICK t : t = Append(s, x)
  OBVIOUS
<1>2. /\ t \in Seq(B) /\ Len(t) = L + 1
      /\ \A j \in 1 .. L : t[j] = s[j]
  BY <1>t
<1>3. ASSUME NEW i \in 1 .. h
      PROVE  SubSeq(t, (i - 1) * p + 1, i * p) = SubSeq(s, (i - 1) * p + 1, i * p)
  <2>1. i \in Nat /\ i - 1 \in Nat /\ i <= h
    OBVIOUS
  <2>2. (i - 1) * p \in Nat /\ i * p \in Nat /\ i * p <= h * p /\ h * p \in Nat
    BY <1>1, <2>1, Multiples
  <2>3. PICK a, b : a = (i - 1) * p + 1 /\ b = i * p
    OBVIOUS
  <2>4. a \in Nat /\ 1 <= a /\ b \in Nat /\ b <= L
    <3>1. PICK c, d : c = (i - 1) * p /\ d = h * p
      OBVIOUS
    <3>2. c \in Nat /\ d \in Nat /\ b \in Nat /\ b <= d /\ d <= L /\ a = c + 1
      BY <1>1, <2>2, <2>3, <3>1
    <3> QED BY <1>1, <3>2
  <2>5. \A j \in 1 .. b - a + 1 : t[a + j - 1] = s[a + j - 1]
    <3>1. \A j \in 1 .. b - a + 1 : a + j - 1 \in 1 .. L
      BY <1>1, <2>4
    <3> QED BY <1>2, <3>1
  <2>6. SubSeq(t, a, b) = [j \in 1 .. b - a + 1 |-> t[a + j - 1]]
    BY <1>2, <2>4
  <2>7. SubSeq(s, a, b) = [j \in 1 .. b - a + 1 |-> s[a + j - 1]]
    BY <2>4
  <2>8. SubSeq(t, a, b) = SubSeq(s, a, b)
    BY <2>5, <2>6, <2>7, Zenon
  <2> QED BY <2>3, <2>8
<1> QED BY <1>3, <1>t DEF BlockOf

(* The counters of the request whose token is read. *)
LEMMA CachedAfter ==
    ASSUME NoReqAssumption, LifeInv, NEW token \in Token, ProcessResult(token),
           NEW u, u = Current.uid
    PROVE  req'[u].cached = DeviceAfter(u) - 1
<1> DEFINE stays == ~(IsFinished(u, token) /\ u \notin finished) /\ last.phase = "prefill"
           d == DeviceAfter(u)
           grown == [req EXCEPT ![u].device = d, ![u].cached = d - 1]
<1>1. u \in live /\ u \in Uid
  <2>1. ReadsOf(u, token)
    BY ProcessResultReads
  <2> QED BY <2>1 DEF ReadsOf
<1>3. /\ stays => req' = [grown EXCEPT ![u].handle = InsertKey(u)]
      /\ ~stays => req' = grown
  BY DEF ProcessResult
<1> HIDE DEF stays
<1>4. IsRequest(req[u]) /\ DOMAIN req = Uid
  BY <1>1 DEF LifeInv, Types
<1>5. d \in Int
  <2>1. req[u].device \in Int
    BY <1>4 DEF IsRequest
  <2> QED BY <2>1 DEF DeviceAfter
<1> HIDE DEF d
<1>6. /\ DOMAIN grown = Uid
      /\ grown[u] = [req[u] EXCEPT !.device = d, !.cached = d - 1]
  BY <1>1, <1>4
<1> HIDE DEF grown
<1>7. DOMAIN grown[u] = {"row", "cached", "device", "handle"} /\ grown[u].cached = d - 1
  <2>1. PICK r, c, e : r = req[u] /\ c = d - 1 /\ e = d
    OBVIOUS
  <2>2. r = [row |-> r.row, cached |-> r.cached, device |-> r.device, handle |-> r.handle]
    BY <1>4, <2>1 DEF IsRequest
  <2>3. DOMAIN r = {"row", "cached", "device", "handle"}
    BY <2>2
  <2>4. grown[u] = [r EXCEPT !.device = e, !.cached = c]
    BY <1>6, <2>1
  <2>5. DOMAIN grown[u] = DOMAIN r /\ grown[u].cached = c
    BY <2>3, <2>4
  <2> QED BY <2>1, <2>3, <2>5
<1>8. ASSUME NEW key, req' = [grown EXCEPT ![u].handle = key] PROVE req'[u].cached = d - 1
  <2>1. req'[u] = [grown[u] EXCEPT !.handle = key]
    BY <1>1, <1>6, <1>8
  <2> QED BY <1>7, <2>1
<1>9. CASE stays
  BY <1>3, <1>8, <1>9 DEF d
<1>10. CASE ~stays
  BY <1>3, <1>7, <1>10 DEF d
<1> QED BY <1>9, <1>10

(* What reading a token of u leaves of the counters, and of u's handle. *)
Reads(u, fin, stays) ==
    /\ u \in Uid /\ u \in live /\ live' = live /\ live \subseteq Uid
    /\ \A v \in Uid : v # u => req'[v] = req[v] /\ HostIds(v)' = HostIds(v)
    /\ req'[u].row = req[u].row
    /\ req[u].cached \in Nat /\ req'[u].cached = req[u].cached
    /\ req'[u].device = req'[u].cached + 1
    /\ newFin' = IF fin THEN newFin \cup {u} ELSE newFin
    /\ Active' = IF fin THEN Active \ {u} ELSE Active \cup {u}
    /\ \A i \in Nat : i * PageSize <= Len(HostIds(u))
          => /\ i * PageSize <= Len(HostIds(u)')
             /\ \A j \in 1 .. i : BlockOf(HostIds(u), j)' = BlockOf(HostIds(u), j)
    /\ UNCHANGED <<pc, last, inflPre, free, pageTable>>
    /\ stays => /\ CacheReq(u, FALSE) /\ req'[u].handle = InsertKey(u)
                /\ lazy' = lazy \o AlreadyCached(u)
    /\ ~stays => UNCHANGED <<cached, lazy>> /\ req'[u].handle = req[u].handle

LEMMA ReadsIs ==
    ASSUME SizesAssumption, RequestsAssumption, NoReqAssumption, LifeInv, Extents,
           NEW token \in Token, ProcessResult(token), NEW u, u = Current.uid
    PROVE  \E fin, stays : Reads(u, fin, stays)
<1>1. ReadsOf(u, token)
  BY ProcessResultReads
<1>2. PICK stays : stays = (~(IsFinished(u, token) /\ u \notin finished) /\ last.phase = "prefill")
  OBVIOUS
<1>3. PICK fin : fin = IsFinished(u, token)
  OBVIOUS
<1>4. /\ pc = "process"
      /\ UNCHANGED <<pc, last, inflPre, free, pageTable, live>>
      /\ stays => lazy' = lazy \o AlreadyCached(u)
      /\ ~stays => lazy' = lazy
  <2>1. /\ pc = "process"
        /\ UNCHANGED <<pc, last, inflPre, free, pageTable, live>>
    BY DEF ProcessResult, Processing, prefill
  <2>2. /\ (~(IsFinished(u, token) /\ u \notin finished) /\ last.phase = "prefill")
               => lazy' = lazy \o AlreadyCached(u)
        /\ ~(~(IsFinished(u, token) /\ u \notin finished) /\ last.phase = "prefill")
               => lazy' = lazy
    BY DEF ProcessResult
  <2> QED BY <1>2, <2>1, <2>2, Zenon
<1>5. /\ stays => CacheReq(u, FALSE) /\ req'[u].handle = InsertKey(u)
      /\ ~stays => UNCHANGED <<cached, ref>> /\ req'[u].handle = req[u].handle
  BY <1>2, HandleAfter
<1>6. /\ newFin' = IF fin THEN newFin \cup {u} ELSE newFin
      /\ Active' = IF fin THEN Active \ {u} ELSE Active \cup {u}
  <2>1. /\ newFin' = IF IsFinished(u, token) THEN newFin \cup {u} ELSE newFin
        /\ Active' = IF IsFinished(u, token) THEN Active \ {u} ELSE Active \cup {u}
    BY RunningAfter
  <2> QED BY <1>3, <2>1
<1>7. /\ u \in Uid /\ u \in live /\ live \subseteq Uid /\ gen \in [Uid -> Seq(Token)]
      /\ gen' = [gen EXCEPT ![u] = Append(@, token)]
      /\ \A v \in Uid : v # u => req'[v] = req[v]
      /\ req'[u].row = req[u].row /\ req'[u].device = DeviceAfter(u)
  BY <1>1 DEF ReadsOf, LifeInv, Types
<1>8. req'[u].cached = DeviceAfter(u) - 1
  BY CachedAfter
<1>9. req[u].cached \in Nat /\ req[u].device \in Nat
  BY <1>7, LensOf
<1>10. req'[u].cached = req[u].cached /\ req'[u].device = req'[u].cached + 1
  <2>1. CASE last.phase = "prefill" /\ u \in Arriving
    <3>1. u \notin Active \cup newFin
      BY <2>1 DEF LifeInv, Places
    <3>2. req[u].cached = req[u].device
      BY <1>4, <1>7, <3>1 DEF Extents
    <3>3. DeviceAfter(u) = req[u].device + 1
      BY <2>1 DEF DeviceAfter
    <3> QED BY <1>7, <1>8, <1>9, <3>2, <3>3
  <2>2. CASE last.phase = "decode" /\ u \in Active
    <3>1. req[u].cached = req[u].device - 1
      BY <2>2 DEF Extents
    <3>3. DeviceAfter(u) = req[u].device
      BY <1>9, <2>2 DEF DeviceAfter
    <3>4. PICK c, d, e, f : /\ c = req[u].cached /\ d = req[u].device
                            /\ e = req'[u].cached /\ f = req'[u].device
      OBVIOUS
    <3>5. f = d /\ e = d - 1
      BY <1>7, <1>8, <3>3, <3>4
    <3>6. c \in Nat /\ d \in Nat /\ c = d - 1
      BY <1>9, <3>1, <3>4
    <3>7. e = c /\ f = e + 1
      BY <3>5, <3>6
    <3> QED BY <3>4, <3>7
  <2> QED BY <1>1, <2>1, <2>2 DEF ReadsOf
<1>11. /\ gen' \in [Uid -> Seq(Token)] /\ gen'[u] = Append(gen[u], token)
       /\ \A v \in Uid : v # u => gen'[v] = gen[v]
  BY <1>7
<1>12. \A v \in Uid : v # u => HostIds(v)' = HostIds(v)
  BY <1>11 DEF HostIds
<1>B. PICK B : B = ToSet(Prompt[u]) \cup Token
  OBVIOUS
<1>13. HostIds(u) \in Seq(B) /\ token \in B
  BY <1>7, <1>B, HostIs
<1>14. HostIds(u)' = Append(HostIds(u), token)
  <2>1. PICK p, g, h : p = Prompt[u] /\ g = gen[u] /\ h = gen'[u]
    OBVIOUS
  <2>2. p \in Seq(B) /\ g \in Seq(B) /\ token \in B
    <3>1. Prompt[u] \in Seq(ToSet(Prompt[u])) /\ gen[u] \in Seq(Token)
      BY <1>7 DEF RequestsAssumption
    <3> QED BY <1>B, <2>1, <3>1
  <2>3. p \o Append(g, token) = Append(p \o g, token)
    BY <2>2
  <2> QED BY <1>11, <2>1, <2>3 DEF HostIds
<1>15. ASSUME NEW i \in Nat, i * PageSize <= Len(HostIds(u))
       PROVE  /\ i * PageSize <= Len(HostIds(u)')
              /\ \A j \in 1 .. i : BlockOf(HostIds(u), j)' = BlockOf(HostIds(u), j)
  <2>1. PICK m, s, t : m = i * PageSize /\ s = HostIds(u) /\ t = HostIds(u)'
    OBVIOUS
  <2>2. s \in Seq(B) /\ t = Append(s, token)
    BY <1>13, <1>14, <2>1
  <2>3. Len(t) = Len(s) + 1 /\ Len(s) \in Nat
    BY <1>13, <2>2
  <2>4. m \in Int /\ m <= Len(s)
    BY <1>15, <2>1 DEF SizesAssumption
  <2>5. m <= Len(t)
    BY <2>3, <2>4
  <2>6. \A j \in 1 .. i : BlockOf(t, j) = BlockOf(s, j)
    BY <1>13, <1>15, <2>1, <2>2, BlockStays
  <2> QED BY <2>1, <2>5, <2>6 DEF BlockOf
<1>16. Reads(u, fin, stays)
  BY <1>4, <1>5, <1>6, <1>7, <1>9, <1>10, <1>12, <1>15 DEF Reads
<1> QED BY <1>16

(* The lengths after a token is read. *)
LEMMA ReadsExtents ==
    ASSUME SizesAssumption, RequestsAssumption, LifeInv, Locks, Tables, Extents,
           NEW u, NEW fin, NEW stays, Reads(u, fin, stays)
    PROVE  Extents'
<1>1. /\ u \in Uid /\ u \in live /\ live' = live /\ live \subseteq Uid
      /\ \A v \in Uid : v # u => req'[v] = req[v] /\ HostIds(v)' = HostIds(v)
      /\ req[u].cached \in Nat /\ req'[u].cached = req[u].cached
      /\ req'[u].device = req'[u].cached + 1
      /\ newFin' = (IF fin THEN newFin \cup {u} ELSE newFin)
      /\ Active' = (IF fin THEN Active \ {u} ELSE Active \cup {u})
      /\ pc' = pc /\ inflPre' = inflPre
  BY DEF Reads
<1>2. \A v \in live' : /\ 0 <= req'[v].cached /\ req'[v].cached <= req'[v].device
                       /\ 1 <= req'[v].device
  <2> SUFFICES ASSUME NEW v \in live
               PROVE  /\ 0 <= req'[v].cached /\ req'[v].cached <= req'[v].device
                      /\ 1 <= req'[v].device
    BY <1>1
  <2>1. CASE v = u
    <3>1. PICK c, d : c = req'[u].cached /\ d = req'[u].device
      OBVIOUS
    <3>2. c \in Nat /\ d = c + 1
      BY <1>1, <3>1
    <3>3. 0 <= c /\ c <= d /\ 1 <= d
      BY <3>2
    <3> QED BY <2>1, <3>1, <3>3
  <2>2. CASE v # u
    <3>1. req'[v] = req[v]
      BY <1>1, <2>2
    <3> QED BY <3>1 DEF Extents
  <2> QED BY <2>1, <2>2
<1>3. \A v : v # u => (v \in Active' \cup newFin' <=> v \in Active \cup newFin)
  BY <1>1
<1>4. u \in Active' \cup newFin'
  BY <1>1
<1>5. \A v \in Active' \cup newFin' : req'[v].cached = req'[v].device - 1
  <2> SUFFICES ASSUME NEW v \in Active' \cup newFin'
               PROVE  req'[v].cached = req'[v].device - 1
    OBVIOUS
  <2>1. CASE v = u
    <3>1. PICK c, d : c = req'[u].cached /\ d = req'[u].device
      OBVIOUS
    <3>2. c \in Nat /\ d = c + 1
      BY <1>1, <3>1
    <3>3. c = d - 1
      BY <3>2
    <3> QED BY <2>1, <3>1, <3>3
  <2>2. CASE v # u
    <3>1. v \in Active \cup newFin
      BY <1>3, <2>2
    <3>2. v \in Uid
      BY <1>1, <3>1 DEF LifeInv, Places
    <3> QED BY <1>1, <2>2, <3>1, <3>2 DEF Extents
  <2> QED BY <2>1, <2>2
<1>6. \A v \in live' \ (Active' \cup newFin') :
         req'[v].cached = req'[v].device \/ (pc' = "admit" /\ v \in inflPre')
  <2> SUFFICES ASSUME NEW v \in live, v \notin Active' \cup newFin'
               PROVE  req'[v].cached = req'[v].device \/ (pc' = "admit" /\ v \in inflPre')
    BY <1>1
  <2>1. v # u
    BY <1>4
  <2>2. v \in live \ (Active \cup newFin) /\ req'[v] = req[v]
    BY <1>1, <1>3, <2>1
  <2> QED BY <1>1, <2>2 DEF Extents
<1>7. HandleIs(u)'
  <2>1. CASE stays
    <3>1. PICK key : \E h, M, n : KeyOf(u, key, h, M, n)
      BY <1>1, KeyIs
    <3>2. PICK h : \E M, n : KeyOf(u, key, h, M, n)
      BY <3>1
    <3>3. PICK M : \E n : KeyOf(u, key, h, M, n)
      BY <3>2
    <3>4. PICK n : KeyOf(u, key, h, M, n)
      BY <3>3
    <3>5. PICK L : L = Len(key)
      OBVIOUS
    <3>6. /\ L \in Nat /\ key = [i \in 1 .. L |-> BlockOf(HostIds(u), i)]
          /\ L * PageSize <= req[u].cached /\ L * PageSize <= Len(HostIds(u))
          /\ key = InsertKey(u)
      BY <3>4, <3>5 DEF KeyOf
    <3>7. req'[u].handle = key
      BY <2>1, <3>6 DEF Reads
    <3>8. /\ L * PageSize <= Len(HostIds(u)')
          /\ \A j \in 1 .. L : BlockOf(HostIds(u), j)' = BlockOf(HostIds(u), j)
      BY <3>6 DEF Reads
    <3>9. key = [i \in 1 .. L |-> BlockOf(HostIds(u), i)']
      BY <3>6, <3>8, Zenon
    <3>10. Len(req'[u].handle) = L
      BY <3>5, <3>7
    <3> QED BY <1>1, <3>6, <3>7, <3>8, <3>9, <3>10 DEF HandleIs
  <2>2. CASE ~stays
    <3>1. PICK h : h = Len(req[u].handle)
      OBVIOUS
    <3>2. /\ h \in Nat /\ req[u].handle = [i \in 1 .. h |-> BlockOf(HostIds(u), i)]
          /\ h * PageSize <= req[u].cached /\ h * PageSize <= Len(HostIds(u))
      BY <1>1, <3>1 DEF Extents, HandleIs
    <3>3. req'[u].handle = req[u].handle
      BY <2>2 DEF Reads
    <3>4. /\ h * PageSize <= Len(HostIds(u)')
          /\ \A j \in 1 .. h : BlockOf(HostIds(u), j)' = BlockOf(HostIds(u), j)
      BY <3>2 DEF Reads
    <3>5. [i \in 1 .. h |-> BlockOf(HostIds(u), i)] = [i \in 1 .. h |-> BlockOf(HostIds(u), i)']
      BY <3>4, Zenon
    <3> QED BY <1>1, <3>1, <3>2, <3>3, <3>4, <3>5 DEF HandleIs
  <2> QED BY <2>1, <2>2
<1>8. \A v \in live' : HandleIs(v)'
  <2> SUFFICES ASSUME NEW v \in live, v # u
               PROVE  HandleIs(v)'
    BY <1>1, <1>7
  <2>1. req'[v] = req[v] /\ HostIds(v)' = HostIds(v)
    BY <1>1
  <2>2. HandleIs(v)
    BY DEF Extents
  <2> QED BY <2>1, <2>2 DEF HandleIs, BlockOf
<1> QED BY <1>2, <1>5, <1>6, <1>8 DEF Extents

(* A prefilled request keeps the pages behind what it inserted. *)
LEMMA StaysOwned ==
    ASSUME SizesAssumption, RequestsAssumption, LifeInv, Locks, Tables, Extents,
           NEW u, NEW fin, NEW stays, Reads(u, fin, stays), stays
    PROVE  Tables' /\ (Owned => Owned')
<1>0. u \in live
  BY DEF Reads
<1>1. PICK key : \E h, M, n : KeyOf(u, key, h, M, n)
  BY <1>0, KeyIs
<1>2. PICK h : \E M, n : KeyOf(u, key, h, M, n)
  BY <1>1
<1>3. PICK M : \E n : KeyOf(u, key, h, M, n)
  BY <1>2
<1>4. PICK n : KeyOf(u, key, h, M, n)
  BY <1>3
<1> DEFINE L == Len(key)
           A == Span(u, h, M)
           B == Span(u, M, L)
           C == Span(u, L, n)
<1>6. /\ cached' = InsertPages(cached, key, PagesOfRow(req[u].row, 0, Len(key)))
      /\ lazy' = lazy \o AlreadyCached(u) /\ req'[u].handle = key
      /\ live' = live /\ free' = free /\ pageTable' = pageTable
      /\ \A v \in live : v # u => req'[v] = req[v]
      /\ req'[u].row = req[u].row /\ req'[u].cached = req[u].cached
  BY <1>4 DEF Reads, CacheReq, KeyOf
<1>7. /\ PrefixClosedSet(DOMAIN cached') /\ IsFiniteSet(DOMAIN cached')
      /\ CachedPages' = CachedPages \cup B
      /\ Owned => \A k, m \in DOMAIN cached' : cached'[k] = cached'[m] => k = m
  BY <1>0, <1>4, <1>6, InsertKeyDoes
<1>8. /\ AlreadyCached(u) \in Seq(Page) /\ ToSet(AlreadyCached(u)) = A
      /\ Owned => IsInjective(AlreadyCached(u))
  BY <1>0, <1>4, GivenBack
<1>9. B \subseteq Page
  BY <1>0, <1>4, SpanPages
<1>10. lazy \in Seq(Page) /\ lazy' \in Seq(Page) /\ ToSet(lazy') = ToSet(lazy) \cup A
  <2>1. lazy \in Seq(Page)
    BY DEF Tables
  <2> PICK f, a : f = lazy /\ a = AlreadyCached(u)
    OBVIOUS
  <2>2. f \o a \in Seq(Page) /\ ToSet(f \o a) = ToSet(f) \cup ToSet(a)
    BY <1>8, <2>1, ConcatIs
  <2> QED BY <1>6, <1>8, <2>1, <2>2
<1>11. Tables'
  BY <1>6, <1>7, <1>9, <1>10 DEF Tables
<1>12. \A v \in live : \A i : RowPage(v, i)' = RowPage(v, i)
  BY <1>6 DEF RowPage
<1>13. \A v \in live : v # u => OwnIndices(v)' = OwnIndices(v) /\ OwnPages(v)' = OwnPages(v)
  <2>1. \A v \in live : v # u => OwnIndices(v)' = OwnIndices(v)
    BY <1>6 DEF OwnIndices
  <2> QED BY <1>12, <2>1 DEF OwnPages
<1>14. OwnIndices(u)' = L .. n - 1 /\ OwnPages(u)' = C
  <2>1. OwnIndices(u)' = L .. n - 1
    BY <1>4, <1>6 DEF OwnIndices, KeyOf
  <2>2. \A i : RowPage(u, i)' = RowPage(u, i)
    BY <1>0, <1>12
  <2> QED BY <2>1, <2>2 DEF OwnPages, Span
<1>15. \A i \in L .. n - 1 : i \in h .. n - 1
  <2>1. h \in Nat /\ L \in Nat /\ n \in Nat /\ h <= L
    <3>1. h \in Nat /\ M \in Nat /\ L \in Nat /\ n \in Nat /\ h <= M /\ M <= L
      BY <1>4 DEF KeyOf
    <3> QED BY <3>1
  <2> QED BY <2>1
<1>16. ASSUME Owned PROVE Owned'
  <2>5. /\ OwnPages(u) = A \cup B \cup C
        /\ A \cap B = {} /\ A \cap C = {} /\ B \cap C = {}
        /\ \A i, j \in h .. n - 1 : RowPage(u, i) = RowPage(u, j) => i = j
    BY <1>0, <1>4, <1>16, OwnSplits
  <2>6. OwnPages(u) \cap (ToSet(free) \cup ToSet(lazy) \cup CachedPages) = {}
    BY <1>0, <1>16 DEF Owned
  <2>7. \A i, j \in L .. n - 1 : RowPage(u, i) = RowPage(u, j) => i = j
    BY <1>15, <2>5
  <2> HIDE DEF A, B, C, L
  <2>8. IsInjective(lazy')
    <3>1. IsInjective(lazy)
      BY <1>16 DEF Owned
    <3> PICK f, a : f = lazy /\ a = AlreadyCached(u)
      OBVIOUS
    <3>2. ToSet(f) \cap ToSet(a) = {} /\ IsInjective(a)
      BY <1>8, <1>16, <2>5, <2>6
    <3>3. IsInjective(f \o a)
      BY <1>8, <1>10, <3>1, <3>2, ConcatIs
    <3> QED BY <1>6, <3>3
  <2>9. \A v \in live' : \A i, j \in OwnIndices(v)' : RowPage(v, i)' = RowPage(v, j)' => i = j
    <3> SUFFICES ASSUME NEW v \in live, NEW i \in OwnIndices(v)', NEW j \in OwnIndices(v)',
                        RowPage(v, i)' = RowPage(v, j)'
                 PROVE  i = j
      BY <1>6
    <3>1. RowPage(v, i) = RowPage(v, j)
      BY <1>12
    <3>2. CASE v = u
      BY <1>14, <2>7, <3>1, <3>2
    <3>3. CASE v # u
      BY <1>13, <1>16, <3>1, <3>3 DEF Owned
    <3> QED BY <3>2, <3>3
  <2>10. \A v \in live : OwnPages(v)' \subseteq OwnPages(v)
    BY <1>13, <1>14, <2>5
  <2>11. ToSet(free') \cap ToSet(lazy') = {}
    BY <1>6, <1>10, <1>16, <2>5, <2>6 DEF Owned
  <2>12. CachedPages' \cap (ToSet(free') \cup ToSet(lazy')) = {}
    BY <1>6, <1>7, <1>10, <1>16, <2>5, <2>6 DEF Owned
  <2>13. \A v \in live' : OwnPages(v)' \cap (ToSet(free') \cup ToSet(lazy') \cup CachedPages') = {}
    <3> SUFFICES ASSUME NEW v \in live
                 PROVE  OwnPages(v)' \cap (ToSet(free') \cup ToSet(lazy') \cup CachedPages') = {}
      BY <1>6
    <3>1. CASE v = u
      BY <1>6, <1>7, <1>10, <1>14, <2>5, <2>6, <3>1
    <3>2. CASE v # u
      <4>1. OwnPages(v) \cap OwnPages(u) = {}
        BY <1>0, <1>16, <3>2 DEF Owned
      <4>2. OwnPages(v) \cap (ToSet(free) \cup ToSet(lazy) \cup CachedPages) = {}
        BY <1>16 DEF Owned
      <4> QED BY <1>6, <1>7, <1>10, <1>13, <2>5, <3>2, <4>1, <4>2
    <3> QED BY <3>1, <3>2
  <2>14. \A v, w \in live' : v # w => OwnPages(v)' \cap OwnPages(w)' = {}
    BY <1>6, <1>16, <2>10 DEF Owned
  <2>15. ASSUME NEW p \in Page
         PROVE  p \in ToSet(free') \cup ToSet(lazy') \cup CachedPages'
                   \/ \E v \in live' : p \in OwnPages(v)'
    <3>1. CASE p \in ToSet(free) \cup ToSet(lazy) \cup CachedPages
      BY <1>6, <1>7, <1>10, <3>1
    <3>2. CASE p \in OwnPages(u)
      BY <1>0, <1>6, <1>7, <1>10, <1>14, <2>5, <3>2
    <3>3. CASE \E v \in live : v # u /\ p \in OwnPages(v)
      BY <1>6, <1>13, <3>3
    <3> QED BY <1>16, <3>1, <3>2, <3>3 DEF Owned
  <2>16. IsInjective(free')
    BY <1>6, <1>16 DEF Owned
  <2> QED BY <1>7, <1>16, <2>8, <2>9, <2>11, <2>12, <2>13, <2>14, <2>15, <2>16 DEF Owned
<1> QED BY <1>11, <1>16

LEMMA ProcessResultLayout ==
    ASSUME SizesAssumption, RequestsAssumption, NoReqAssumption, LifeInv, Locks, Layout,
           NEW token \in Token, ProcessResult(token)
    PROVE  Layout' /\ (Owned => Owned')
<1>0. PICK u : u = Current.uid
  OBVIOUS
<1>1. PICK fin : \E stays : Reads(u, fin, stays)
  BY <1>0, ReadsIs DEF Layout
<1>2. PICK stays : Reads(u, fin, stays)
  BY <1>1
<1>3. Extents'
  BY <1>2, ReadsExtents DEF Layout
<1>4. Lazily'
  BY DEF ProcessResult, Processing, Lazily
<1>5. CASE stays
  <2>1. Tables' /\ (Owned => Owned')
    BY <1>2, <1>5, StaysOwned DEF Layout
  <2> QED BY <1>3, <1>4, <2>1 DEF Layout
<1>6. CASE ~stays
  <2>1. /\ UNCHANGED <<free, lazy, cached, pageTable, live>>
        /\ u \in live
        /\ \A v \in live : v # u => req'[v] = req[v]
        /\ req'[u].row = req[u].row /\ req'[u].cached = req[u].cached
        /\ req'[u].handle = req[u].handle
    BY <1>2, <1>6 DEF Reads
  <2>2. Tables'
    BY <2>1, KeptTables DEF Layout
  <2>3. \A v \in live : req'[v].row = req[v].row /\ OwnIndices(v)' = OwnIndices(v)
    BY <2>1 DEF OwnIndices
  <2>4. Owned => Owned'
    BY <2>1, <2>3, KeptOwned
  <2> QED BY <1>3, <1>4, <2>2, <2>4 DEF Layout
<1> QED BY <1>5, <1>6

-----------------------------------------------------------------------------
(* Every step. *)

(* The invariant of the pages. *)
PagesInv == LifeInv /\ Locks /\ Layout /\ Owned /\ IdleMeansEmpty

LEMMA InitLayout ==
    ASSUME SizesAssumption, Init
    PROVE  Layout /\ Owned
<1>1. /\ pc = "idle" /\ live = {} /\ running = <<>> /\ newFin = {} /\ lazy = <<>>
      /\ free = [i \in 1 .. NumPages |-> i - 1]
      /\ cached = [k \in {} |-> 0]
      /\ pageTable = [r \in Row |-> [p \in 0 .. DivCeil(MaxSeqLen) - 1 |-> 0]]
  BY DEF Init
<1>2. NumPages \in Nat \ {0}
  BY DEF SizesAssumption
<1>3. /\ free \in Seq(Page) /\ \A p \in Page : p \in ToSet(free)
      /\ IsInjective(free)
  <2>1. PICK n : n = NumPages
    OBVIOUS
  <2>2. n \in Nat /\ free = [i \in 1 .. n |-> i - 1]
    BY <1>1, <1>2, <2>1
  <2>3. \A i \in 1 .. n : i - 1 \in 0 .. n - 1
    BY <2>2
  <2>4. free \in Seq(0 .. n - 1) /\ DOMAIN free = 1 .. n
    BY <2>2, <2>3
  <2>5. IsInjective(free)
    BY <2>2 DEF IsInjective
  <2>6. ASSUME NEW p \in 0 .. n - 1 PROVE p \in ToSet(free)
    <3>1. p + 1 \in 1 .. n /\ p + 1 - 1 = p
      BY <2>2
    <3>2. free[p + 1] = p
      BY <2>2, <3>1
    <3> QED BY <2>4, <3>1, <3>2 DEF ToSet
  <2> QED BY <2>1, <2>4, <2>5, <2>6 DEF Page
<1>4. ToSet(lazy) = {} /\ IsInjective(lazy) /\ lazy \in Seq(Page)
  BY <1>1 DEF ToSet, IsInjective
<1>5. CachedPages = {} /\ PrefixClosedSet(DOMAIN cached) /\ IsFiniteSet(DOMAIN cached)
  BY <1>1, FS_EmptySet DEF CachedPages, PrefixClosedSet
<1>6. Tables
  <2>1. 0 \in Page
    BY <1>2 DEF Page
  <2>2. \A r \in Row : \A p \in Columns : pageTable[r][p] = 0
    BY <1>1 DEF Columns
  <2>3. pageTable = [r \in Row |-> [p \in Columns |-> pageTable[r][p]]]
    <3>1. PICK t : t = pageTable
      OBVIOUS
    <3>2. t = [r \in Row |-> [p \in Columns |-> 0]]
      BY <1>1, <3>1 DEF Columns
    <3>3. t = [r \in Row |-> [p \in Columns |-> t[r][p]]]
      BY <3>2
    <3> QED BY <3>1, <3>3
  <2> QED BY <1>3, <1>4, <1>5, <2>1, <2>2, <2>3 DEF Tables
<1>7. Active = {}
  BY <1>1 DEF Active, ToSet
<1>8. Extents /\ Lazily
  BY <1>1, <1>7 DEF Extents, Lazily
<1>9. Owned
  BY <1>1, <1>3, <1>4, <1>5 DEF Owned
<1> QED BY <1>6, <1>8, <1>9 DEF Layout

LEMMA NextLayout ==
    ASSUME SizesAssumption, RequestsAssumption, NoReqAssumption, LifeInv, Locks, Layout,
           [Next]_vars
    PROVE  Layout' /\ (Owned /\ ~AbortsAtPageEnd => Owned')
<1>2. ASSUME NEW u \in Uid, RecvUser(u) PROVE Layout' /\ (Owned => Owned')
  BY <1>2, RecvUserLayout
<1>3. ASSUME NEW u \in Uid, RecvAbort(u)
      PROVE  Layout' /\ (Owned /\ ~AbortsAtPageEnd => Owned')
  BY <1>3, RecvAbortLayout
<1>4. CASE StartSchedule
  BY <1>4, StartScheduleLayout
<1>5. CASE AdmitChunk
  BY <1>5, AdmitChunkLayout
<1>6. CASE AdmitNew
  BY <1>6, AdmitNewLayout
<1>7. CASE LaunchPrefill
  BY <1>7, LaunchPrefillLayout
<1>8. CASE LaunchDecode
  BY <1>8, LaunchDecodeLayout
<1>9. CASE SkipResult
  BY <1>9, SkipResultLayout
<1>10. ASSUME NEW token \in Token, ProcessResult(token) PROVE Layout' /\ (Owned => Owned')
  BY <1>10, ProcessResultLayout
<1>11. CASE EndProcess
  BY <1>11, EndProcessLayout
<1>12. ASSUME NEW u \in Uid, FreeFinished(u) PROVE Layout' /\ (Owned => Owned')
  BY <1>12, FreeFinishedLayout
<1>13. CASE NextIteration
  BY <1>13, NextIterationLayout
<1>14. CASE Blocked \/ UNCHANGED vars
  BY <1>14, StutterLayout DEF Blocked
<1> QED
  BY <1>2, <1>3, <1>4, <1>5, <1>6, <1>7, <1>8, <1>9, <1>10, <1>11, <1>12, <1>13, <1>14
  DEF Next, Schedule, Process

LEMMA NextPages ==
    ASSUME SizesAssumption, RequestsAssumption, NoReqAssumption, PagesInv,
           [Next /\ ~AbortsAtPageEnd]_vars
    PROVE  PagesInv'
<1>1. LifeInv /\ Locks /\ Layout /\ Owned /\ IdleMeansEmpty
  BY DEF PagesInv
<1>2. LifeInv' /\ Locks' /\ IdleMeansEmpty'
  BY <1>1, NextLife, NextLocks, NextIdle
<1>3. Layout'
  BY <1>1, NextLayout
<1>4. Owned'
  <2>1. CASE Next /\ ~AbortsAtPageEnd
    BY <1>1, <2>1, NextLayout
  <2>2. CASE UNCHANGED vars
    BY <1>1, <2>2, StutterLayout
  <2> QED BY <2>1, <2>2
<1> QED BY <1>2, <1>3, <1>4 DEF PagesInv

LEMMA InitPages ==
    ASSUME SizesAssumption, RequestsAssumption, NoReqAssumption, Init
    PROVE  PagesInv
<1>1. IdleMeansEmpty
  BY DEF Init, IdleMeansEmpty
<1> QED BY <1>1, InitLife, InitLocks, InitLayout DEF PagesInv

(* The shape of the tables and the lengths of the requests, whatever is aborted. *)
THEOREM LayoutFollows == Spec => [](LifeInv /\ Locks /\ Layout)
<1>1. Init => Layout
  BY InitLayout, SizesAssumption
<1>2. LifeInv /\ Locks /\ Layout /\ [Next]_vars => Layout'
  BY NextLayout, SizesAssumption, RequestsAssumption, NoReqAssumption
<1> QED BY <1>1, <1>2, LocksFollow, PTL DEF Spec

(* The invariant of the pages, in every behaviour in which no request is *)
(* aborted at the end of a page while its step is in flight.             *)
THEOREM PagesFollow == Init /\ [][Next /\ ~AbortsAtPageEnd]_vars => []PagesInv
<1>1. Init => PagesInv
  BY InitPages, SizesAssumption, RequestsAssumption, NoReqAssumption
<1>2. PagesInv /\ [Next /\ ~AbortsAtPageEnd]_vars => PagesInv'
  BY NextPages, SizesAssumption, RequestsAssumption, NoReqAssumption
<1> QED BY <1>1, <1>2, PTL

(* How often a page is in a list that has nothing twice. *)
LEMMA OccursOnce ==
    ASSUME NEW T, NEW s \in Seq(T), IsInjective(s), NEW p
    PROVE  Occurrences(s, p) = IF p \in ToSet(s) THEN 1 ELSE 0
<1> DEFINE at == {i \in DOMAIN s : s[i] = p}
<1>1. CASE p \in ToSet(s)
  <2>1. PICK i \in DOMAIN s : s[i] = p
    BY <1>1 DEF ToSet
  <2>2. at = {i}
    BY <2>1 DEF IsInjective
  <2> HIDE DEF at
  <2>3. Cardinality(at) = 1
    BY <2>2, FS_Singleton
  <2> QED BY <1>1, <2>3 DEF Occurrences, at
<1>2. CASE p \notin ToSet(s)
  <2>1. at = {}
    BY <1>2 DEF ToSet
  <2> HIDE DEF at
  <2>2. Cardinality(at) = 0
    BY <2>1, FS_EmptySet
  <2> QED BY <1>2, <2>2 DEF Occurrences, at
<1> QED BY <1>1, <1>2

LEMMA OneOrNone ==
    ASSUME NEW S, \A x, y \in S : x = y
    PROVE  Cardinality(S) = IF S = {} THEN 0 ELSE 1
<1>1. CASE S = {}
  BY <1>1, FS_EmptySet
<1>2. CASE S # {}
  <2>1. PICK x : x \in S
    BY <1>2
  <2>2. S = {x}
    BY <2>1
  <2> QED BY <1>2, <2>2, FS_Singleton
<1> QED BY <1>1, <1>2

(* The four places count each page once. *)
LEMMA OwnedPages ==
    ASSUME SizesAssumption, RequestsAssumption, PagesInv
    PROVE  PagesConserved
<1>0. LifeInv /\ Extents /\ Tables /\ Owned
  BY DEF PagesInv, Layout
<1> SUFFICES ASSUME NEW p \in Page
    PROVE  Occurrences(free, p) + Occurrences(lazy, p)
             + Cardinality({k \in DOMAIN cached : cached[k] = p})
             + Cardinality({x \in live \X (0 .. DivCeil(MaxSeqLen)) :
                          x[2] \in OwnIndices(x[1]) /\ pageTable[req[x[1]].row][x[2]] = p}) = 1
  BY DEF PagesConserved
<1> DEFINE f == Occurrences(free, p)
           l == Occurrences(lazy, p)
           K == {k \in DOMAIN cached : cached[k] = p}
           X == {x \in live \X (0 .. DivCeil(MaxSeqLen)) :
                   x[2] \in OwnIndices(x[1]) /\ pageTable[req[x[1]].row][x[2]] = p}
           mine == \E u \in live : p \in OwnPages(u)
<1>1. /\ f = IF p \in ToSet(free) THEN 1 ELSE 0
      /\ l = IF p \in ToSet(lazy) THEN 1 ELSE 0
  <2>1. /\ free \in Seq(Page) /\ IsInjective(free) /\ lazy \in Seq(Page) /\ IsInjective(lazy)
    BY <1>0 DEF Tables, Owned
  <2> QED BY <2>1, OccursOnce
<1>2. Cardinality(K) = IF p \in CachedPages THEN 1 ELSE 0
  <2>1. \A k, m \in K : k = m
    BY <1>0 DEF Owned
  <2>2. p \in CachedPages <=> K # {}
    BY DEF CachedPages
  <2> HIDE DEF K
  <2> QED BY <2>1, <2>2, OneOrNone
<1>3. Cardinality(X) = IF mine THEN 1 ELSE 0
  <2>1. \A x \in X : /\ x = <<x[1], x[2]>> /\ x[1] \in live /\ x[2] \in OwnIndices(x[1])
                     /\ RowPage(x[1], x[2]) = p /\ p \in OwnPages(x[1])
    BY DEF RowPage, OwnPages
  <2>2. ASSUME NEW x \in X, NEW y \in X PROVE x = y
    <3>1. x[1] = y[1]
      BY <1>0, <2>1 DEF Owned
    <3>2. x[2] = y[2]
      BY <1>0, <2>1, <3>1 DEF Owned
    <3> QED BY <2>1, <3>1, <3>2
  <2>3. ASSUME mine PROVE X # {}
    <3>1. PICK u \in live : p \in OwnPages(u)
      BY <2>3
    <3>2. PICK i \in OwnIndices(u) : RowPage(u, i) = p
      BY <3>1 DEF OwnPages
    <3>3. i \in 0 .. DivCeil(MaxSeqLen)
      <4>1. PICK h, n, D : /\ h = Len(req[u].handle) /\ n = DivCeil(req[u].cached)
                           /\ D = DivCeil(MaxSeqLen)
        OBVIOUS
      <4>2. h \in Nat /\ n \in Nat /\ n <= D /\ D \in Nat
        <5>1. HandleIs(u)
          BY <1>0, <3>1 DEF Extents
        <5>2. /\ n \in Nat /\ DivCeil(req[u].device) \in Nat /\ D \in Nat
              /\ n <= DivCeil(req[u].device) /\ DivCeil(req[u].device) <= D
          BY <1>0, <3>1, <4>1, LensOf, ColumnsIs
        <5> QED BY <4>1, <5>1, <5>2 DEF HandleIs
      <4>3. i \in h .. n - 1
        BY <3>2, <4>1 DEF OwnIndices
      <4> QED BY <4>1, <4>2, <4>3
    <3>4. <<u, i>> \in X
      BY <3>1, <3>2, <3>3 DEF RowPage
    <3> QED BY <3>4
  <2>4. mine <=> X # {}
    BY <2>1, <2>3
  <2> HIDE DEF X, mine
  <2> QED BY <2>2, <2>4, OneOrNone
<1>4. /\ p \in ToSet(free) \cup ToSet(lazy) \cup CachedPages \/ mine
      /\ ~(p \in ToSet(free) /\ p \in ToSet(lazy))
      /\ ~(p \in CachedPages /\ p \in ToSet(free) \cup ToSet(lazy))
      /\ ~(mine /\ p \in ToSet(free) \cup ToSet(lazy) \cup CachedPages)
  BY <1>0 DEF Owned
<1> HIDE DEF f, l, K, X, mine
<1>5. f + l + Cardinality(K) + Cardinality(X) = 1
  BY <1>1, <1>2, <1>3, <1>4
<1> QED BY <1>5 DEF f, l, K, X

(* With no live request the free and the cached pages are all pages. *)
LEMMA AllPagesIdle ==
    ASSUME SizesAssumption, Tables, Lazily, Owned, live = {}, pc = "idle"
    PROVE  Len(free) + Cardinality(DOMAIN cached) = NumPages
<1>1. lazy = <<>>
  BY DEF Lazily
<1>2. Page = ToSet(free) \cup CachedPages /\ ToSet(free) \cap CachedPages = {}
  <2>1. ToSet(lazy) = {}
    BY <1>1 DEF ToSet
  <2>2. ToSet(free) \subseteq Page /\ CachedPages \subseteq Page
    <3>1. free \in Seq(Page)
      BY DEF Tables
    <3> QED BY <3>1 DEF Tables, ToSet
  <2> QED BY <2>1, <2>2 DEF Owned
<1>3. IsFiniteSet(Page) /\ Cardinality(Page) = NumPages
  <2>1. PICK n : n = NumPages
    OBVIOUS
  <2>2. n \in Nat \ {0}
    BY <2>1 DEF SizesAssumption
  <2>3. PICK m : m = n - 1
    OBVIOUS
  <2>4. m \in Int /\ 0 \in Int /\ ~(0 > m) /\ m - 0 + 1 = n
    BY <2>2, <2>3
  <2>5. IsFiniteSet(0 .. m) /\ Cardinality(0 .. m) = IF 0 > m THEN 0 ELSE m - 0 + 1
    BY <2>4, FS_Interval
  <2> QED BY <2>1, <2>3, <2>4, <2>5 DEF Page
<1>4. IsFiniteSet(ToSet(free)) /\ Cardinality(ToSet(free)) = Len(free) /\ Len(free) \in Nat
  <2>1. PICK s, n : s = free /\ n = Len(free)
    OBVIOUS
  <2>2. s \in Seq(Page) /\ IsInjective(s)
    BY <2>1 DEF Tables, Owned
  <2>3. n \in Nat /\ DOMAIN s = 1 .. n /\ \A i \in 1 .. n : s[i] \in Page
    BY <2>1, <2>2
  <2>4. \A i, j \in 1 .. n : s[i] = s[j] => i = j
    BY <2>2, <2>3 DEF IsInjective
  <2>5. ToSet(s) = {s[i] : i \in 1 .. n}
    BY <2>3 DEF ToSet
  <2>P. PICK P, I : P = Page /\ I = 1 .. n
    OBVIOUS
  <2>6. /\ IsFiniteSet({s[i] : i \in 1 .. n})
        /\ Cardinality({s[i] : i \in 1 .. n}) = Cardinality(1 .. n)
    <3>1. IsFiniteSet(P) /\ (\A i \in I : s[i] \in P) /\ \A i, j \in I : s[i] = s[j] => i = j
      BY <1>3, <2>3, <2>4, <2>P
    <3>2. IsFiniteSet({s[i] : i \in I}) /\ Cardinality({s[i] : i \in I}) = Cardinality(I)
      BY <3>1, ImageSize
    <3> QED BY <2>P, <3>2
  <2>7. Cardinality(1 .. n) = n
    <3>1. n \in Int /\ 1 \in Int
      BY <2>3
    <3>2. Cardinality(1 .. n) = IF 1 > n THEN 0 ELSE n - 1 + 1
      BY <3>1, FS_Interval
    <3> QED BY <2>3, <3>2
  <2> QED BY <2>1, <2>3, <2>5, <2>6, <2>7
<1>5. IsFiniteSet(CachedPages) /\ Cardinality(CachedPages) = Cardinality(DOMAIN cached)
  <2>1. \A k \in DOMAIN cached : cached[k] \in Page
    BY DEF Tables, CachedPages
  <2>2. \A k, m \in DOMAIN cached : cached[k] = cached[m] => k = m
    BY DEF Owned
  <2>c. PICK c, S, P : c = cached /\ S = DOMAIN cached /\ P = Page
    OBVIOUS
  <2>3. IsFiniteSet(P) /\ (\A k \in S : c[k] \in P) /\ \A k, m \in S : c[k] = c[m] => k = m
    BY <1>3, <2>1, <2>2, <2>c
  <2>4. /\ IsFiniteSet({c[k] : k \in S})
        /\ Cardinality({c[k] : k \in S}) = Cardinality(S)
    BY <2>3, ImageSize
  <2> QED BY <2>4, <2>c DEF CachedPages
<1>6. Cardinality(Page) = Cardinality(ToSet(free)) + Cardinality(CachedPages)
  BY <1>2, <1>4, <1>5, DisjointUnion
<1> QED BY <1>3, <1>4, <1>5, <1>6

LEMMA IdleIntegrity ==
    ASSUME PagesInv, NothingHeldWhenIdle
    PROVE  IntegrityWhenIdle
<1> SUFFICES ASSUME pc = "idle"
             PROVE  /\ Len(free) + Cardinality(DOMAIN cached) = NumPages
                    /\ Len(freeRows) = NumRows
                    /\ \A k \in DOMAIN ref : ref[k] = 0
  BY DEF IntegrityWhenIdle
<1>1. live = {} /\ Len(freeRows) = NumRows /\ \A k \in DOMAIN ref : ref[k] = 0
  BY DEF NothingHeldWhenIdle
<1>2. Len(free) + Cardinality(DOMAIN cached) = NumPages
  BY <1>1, AllPagesIdle, SizesAssumption DEF PagesInv, Layout
<1> QED BY <1>1, <1>2

-----------------------------------------------------------------------------
(* What a row reads. *)

(* The part of a row up to the handle reads the cache. *)
RowReads(u) ==
    \A i \in 1 .. Len(req[u].handle) :
       RowPage(u, i - 1) = cached[SubSeq(req[u].handle, 1, i)]

RowsRead == \A u \in live : RowReads(u)

(* The handle of a request covers columns that its launches do not write. *)
LEMMA HandleSpan ==
    ASSUME SizesAssumption, RequestsAssumption, LifeInv, Extents, NEW u \in live
    PROVE  /\ Len(req[u].handle) \in Nat
           /\ \A i \in 1 .. Len(req[u].handle) :
                 /\ i - 1 \in Columns /\ i - 1 < From(u)
                 /\ SubSeq(req[u].handle, 1, i) \in PrefixesOf(req[u].handle)
<1>1. PICK h, f, D : h = Len(req[u].handle) /\ f = From(u) /\ D = DivCeil(MaxSeqLen)
  OBVIOUS
<1>2. h \in Nat /\ f \in Nat /\ D \in Nat /\ h <= f /\ f <= D
  <2>1. Upto(u) \in Nat /\ f <= Upto(u) /\ Upto(u) <= D
    BY <1>1, OwnRange
  <2>2. h \in Nat /\ f \in Nat /\ h <= f /\ D \in Nat
    BY <1>1, OwnRange, ColumnsIs
  <2> QED BY <2>1, <2>2
<1>3. \A i \in 1 .. h : i - 1 \in 0 .. D - 1 /\ i - 1 < f
  BY <1>2
<1> QED BY <1>1, <1>2, <1>3 DEF Columns, PrefixesOf

(* A request whose handle, row and cached prefixes stay reads the cache on. *)
LEMMA StillReads ==
    ASSUME SizesAssumption, RequestsAssumption, LifeInv, Extents, RowsRead, NEW u \in live,
           req'[u].handle = req[u].handle,
           \A k \in PrefixesOf(req[u].handle) : cached'[k] = cached[k],
           \A p \in Columns : p < From(u) => RowPage(u, p)' = RowPage(u, p)
    PROVE  RowReads(u)'
<1>1. /\ \A i \in 1 .. Len(req[u].handle) :
            /\ i - 1 \in Columns /\ i - 1 < From(u)
            /\ SubSeq(req[u].handle, 1, i) \in PrefixesOf(req[u].handle)
  BY HandleSpan
<1>2. \A i \in 1 .. Len(req[u].handle) : RowPage(u, i - 1) = cached[SubSeq(req[u].handle, 1, i)]
  BY DEF RowsRead, RowReads
<1>3. ASSUME NEW i \in 1 .. Len(req[u].handle)
      PROVE  RowPage(u, i - 1)' = cached'[SubSeq(req[u].handle, 1, i)]
  BY <1>1, <1>2
<1> QED BY <1>3 DEF RowReads, RowPage

LEMMA KeptReads ==
    ASSUME RowsRead, UNCHANGED <<cached, pageTable>>, live' \subseteq live,
           \A v \in live' : req'[v].row = req[v].row /\ req'[v].handle = req[v].handle
    PROVE  RowsRead'
  BY DEF RowsRead, RowReads, RowPage

LEMMA FreeReads ==
    ASSUME SizesAssumption, RequestsAssumption, LifeInv, Locks, Tables, Extents, RowsRead,
           NEW u \in live, NEW isInflight, FreeReqResources(u, isInflight)
    PROVE  RowsRead'
<1>1. PICK key : \E h, M, n : KeyOf(u, key, h, M, n)
  BY KeyIs
<1>2. PICK h : \E M, n : KeyOf(u, key, h, M, n)
  BY <1>1
<1>3. PICK M : \E n : KeyOf(u, key, h, M, n)
  BY <1>2
<1>4. PICK n : KeyOf(u, key, h, M, n)
  BY <1>3
<1>5. /\ cached' = InsertPages(cached, key, PagesOfRow(req[u].row, 0, Len(key)))
      /\ live' = live \ {u} /\ req' = req /\ pageTable' = pageTable
  BY <1>4 DEF FreeReqResources, CacheReq, KeyOf
<1>6. \A k \in DOMAIN cached : cached'[k] = cached[k]
  BY <1>4, <1>5, InsertKeyDoes
<1> SUFFICES ASSUME NEW v \in live PROVE RowReads(v)'
  BY <1>5 DEF RowsRead
<1>7. \A k \in PrefixesOf(req[v].handle) : cached'[k] = cached[k]
  BY <1>6, HeldPrefixes
<1>8. \A p : RowPage(v, p)' = RowPage(v, p)
  BY <1>5 DEF RowPage
<1> QED BY <1>5, <1>7, <1>8, StillReads

LEMMA AbortReads ==
    ASSUME SizesAssumption, RequestsAssumption, LifeInv, Locks, Layout, RowsRead,
           NEW u \in Uid, RecvAbort(u)
    PROVE  RowsRead'
<1>1. CASE u \in live /\ \E isInflight : FreeReqResources(u, isInflight)
  BY <1>1, FreeReads DEF Layout
<1>2. CASE UNCHANGED <<live, req, free, lazy, cached, pageTable>>
  BY <1>2, KeptReads
<1> QED BY <1>1, <1>2, AbortFrees

LEMMA AdmitChunkReads ==
    ASSUME LifeInv, RowsRead, AdmitChunk
    PROVE  RowsRead'
<1>1. PICK u : u = pend[adder.n + 1]
  OBVIOUS
<1>2. PICK row, handle, from : row = req[u].row /\ handle = req[u].handle /\ from = req[u].cached
  OBVIOUS
<1>3. u \in live /\ AddOne(u, row, handle, from) /\ UNCHANGED <<cached, pageTable>>
  BY <1>1, <1>2 DEF AdmitChunk, IsChunk, memory
<1>4. /\ live' = live /\ live \subseteq Uid /\ req = [v \in Uid |-> req[v]]
      /\ \E d : req' = [req EXCEPT ![u] = [row |-> row, cached |-> from, device |-> d,
                                           handle |-> handle]]
  BY <1>3 DEF AddOne, LifeInv, Types
<1>5. \A v \in live : req'[v].row = req[v].row /\ req'[v].handle = req[v].handle
  BY <1>2, <1>3, <1>4
<1> QED BY <1>3, <1>4, <1>5, KeptReads

LEMMA AdmitNewReads ==
    ASSUME SizesAssumption, RequestsAssumption, LifeInv, Layout, RowsRead, AdmitNew
    PROVE  RowsRead'
<1>1. Extents' /\ \E u, row, key : Admits(u, row, key)
  BY AdmitNewDoes DEF Layout
<1>2. PICK u, row, key : Admits(u, row, key)
  BY <1>1
<1>3. /\ \A v \in live : \A p \in Columns : RowPage(v, p)' = RowPage(v, p)
      /\ \A p \in Columns : p < Len(key) => RowPage(u, p)' = cached[SubSeq(key, 1, p + 1)]
  BY <1>2, AdmittedRows DEF Layout
<1>4. /\ cached' = cached /\ live' = live \cup {u} /\ \A v \in live : req'[v] = req[v]
      /\ req'[u].handle = key /\ Len(key) \in Nat /\ Len(key) <= DivCeil(MaxSeqLen)
  BY <1>2 DEF Admits, MatchedAs
<1>5. \A v \in live : RowReads(v)'
  BY <1>3, <1>4, StillReads DEF Layout
<1>6. RowReads(u)'
  <2>1. PICK L, D : L = Len(key) /\ D = DivCeil(MaxSeqLen)
    OBVIOUS
  <2>2. L \in Nat /\ D \in Nat /\ L <= D
    BY <1>4, <2>1, ColumnsIs
  <2>3. ASSUME NEW i \in 1 .. L
        PROVE  RowPage(u, i - 1)' = cached'[SubSeq(key, 1, i)]
    <3>1. i - 1 \in 0 .. D - 1 /\ i - 1 < L /\ i - 1 + 1 = i
      BY <2>2
    <3>2. i - 1 \in Columns
      BY <2>1, <3>1 DEF Columns
    <3>3. RowPage(u, i - 1)' = cached[SubSeq(key, 1, i - 1 + 1)]
      BY <1>3, <2>1, <3>1, <3>2
    <3> QED BY <1>4, <3>1, <3>3
  <2> QED BY <1>4, <2>1, <2>3 DEF RowReads, RowPage
<1> QED BY <1>4, <1>5, <1>6 DEF RowsRead

LEMMA StartsReads ==
    ASSUME SizesAssumption, RequestsAssumption, LifeInv, Locks, Layout, Owned, RowsRead,
           NEW us, Starts(us)
    PROVE  RowsRead'
<1>1. \E s, S, need, allocated : Deals(us, s, S, need, allocated)
  BY AllocateDeals DEF Starts, Layout
<1>2. PICK s, S, need, allocated : Deals(us, s, S, need, allocated)
  BY <1>1
<1>3. /\ Written(us, s, allocated, pageTable')
      /\ cached' = Without(cached, S) /\ S \subseteq Evictable(ref)
  BY <1>2 DEF Deals
<1>4. live' = live /\ \A v \in live : req'[v].row = req[v].row /\ req'[v].handle = req[v].handle
  BY DEF Starts, Launches
<1> SUFFICES ASSUME NEW v \in live PROVE RowReads(v)'
  BY <1>4 DEF RowsRead
<1>5. \A k \in PrefixesOf(req[v].handle) : cached'[k] = cached[k]
  <2> SUFFICES ASSUME NEW k \in PrefixesOf(req[v].handle) PROVE cached'[k] = cached[k]
    OBVIOUS
  <2>1. k \in DOMAIN cached /\ ref[k] > 0
    BY HeldPrefixes
  <2>2. k \notin S
    BY <1>3, <2>1 DEF Evictable
  <2> QED BY <1>3, <2>1, <2>2 DEF Without
<1>6. \A p \in Columns : p < From(v) => RowPage(v, p)' = RowPage(v, p)
  <2>1. \A p \in Columns : p < From(v) => pageTable'[req[v].row][p] = RowPage(v, p)
    BY <1>3 DEF Written
  <2> QED BY <1>4, <2>1 DEF RowPage
<1> QED BY <1>4, <1>5, <1>6, StillReads DEF Layout

(* A request that gives back no duplicate has inserted its own pages. *)
LEMMA ProcessResultReadsCache ==
    ASSUME SizesAssumption, RequestsAssumption, NoReqAssumption, LifeInv, Locks, Layout, RowsRead,
           NEW token \in Token, ProcessResult(token), lazy' = lazy
    PROVE  RowsRead'
<1>0. PICK u : u = Current.uid
  OBVIOUS
<1>1. PICK fin : \E stays : Reads(u, fin, stays)
  BY <1>0, ReadsIs DEF Layout
<1>2. PICK stays : Reads(u, fin, stays)
  BY <1>1
<1>3. /\ u \in live /\ live' = live /\ live \subseteq Uid /\ pageTable' = pageTable
      /\ \A v \in Uid : v # u => req'[v] = req[v]
      /\ req'[u].row = req[u].row
  BY <1>2 DEF Reads
<1>4. \A v \in live : \A p : RowPage(v, p)' = RowPage(v, p)
  BY <1>3 DEF RowPage
<1>5. CASE ~stays
  <2>1. cached' = cached /\ req'[u].handle = req[u].handle
    BY <1>2, <1>5 DEF Reads
  <2>2. \A v \in live' : req'[v].row = req[v].row /\ req'[v].handle = req[v].handle
    BY <1>3, <2>1
  <2> QED BY <1>3, <2>1, <2>2, KeptReads
<1>6. CASE stays
  <2>1. PICK key : \E h, M, n : KeyOf(u, key, h, M, n)
    BY <1>3, KeyIs DEF Layout
  <2>2. PICK h : \E M, n : KeyOf(u, key, h, M, n)
    BY <2>1
  <2>3. PICK M : \E n : KeyOf(u, key, h, M, n)
    BY <2>2
  <2>4. PICK n : KeyOf(u, key, h, M, n)
    BY <2>3
  <2>5. /\ cached' = InsertPages(cached, key, PagesOfRow(req[u].row, 0, Len(key)))
        /\ lazy' = lazy \o AlreadyCached(u) /\ req'[u].handle = key
    BY <1>2, <1>6, <2>4 DEF Reads, CacheReq, KeyOf
  <2>6. /\ \A k \in DOMAIN cached : cached'[k] = cached[k]
        /\ \A m \in M + 1 .. Len(key) : cached'[SubSeq(key, 1, m)] = RowPage(u, m - 1)
    BY <1>3, <2>4, <2>5, InsertKeyDoes DEF Layout
  <2>7. h = M
    <3>1. AlreadyCached(u) \in Seq(Page) /\ (AlreadyCached(u) = <<>> => h = M)
      BY <1>3, <2>4, GivenBack DEF Layout
    <3>2. lazy \in Seq(Page)
      BY DEF Layout, Tables
    <3> PICK f, a : f = lazy /\ a = AlreadyCached(u)
      OBVIOUS
    <3>3. f \in Seq(Page) /\ a \in Seq(Page) /\ f \o a = f
      BY <2>5, <3>1, <3>2
    <3>4. Len(f) + Len(a) = Len(f) /\ Len(f) \in Nat /\ Len(a) \in Nat
      <4>1. Len(f \o a) = Len(f) + Len(a) /\ Len(f) \in Nat /\ Len(a) \in Nat
        BY <3>3
      <4> QED BY <3>3, <4>1
    <3>5. Len(a) = 0
      BY <3>4
    <3> QED BY <3>1, <3>3, <3>5, EmptySeq
  <2>8. ASSUME NEW v \in live, v # u PROVE RowReads(v)'
    <3>1. req'[v].handle = req[v].handle
      BY <1>3, <2>8
    <3>2. \A k \in PrefixesOf(req[v].handle) : cached'[k] = cached[k]
      BY <2>6, HeldPrefixes
    <3> QED BY <1>4, <3>1, <3>2, StillReads DEF Layout
  <2>9. RowReads(u)'
    <3>1. PICK L, B : L = Len(key) /\ B = ToSet(key)
      OBVIOUS
    <3>2. /\ h \in Nat /\ L \in Nat /\ h <= L /\ key \in Seq(B) /\ h = Len(req[u].handle)
          /\ req[u].handle = SubSeq(key, 1, h)
      <4>1. /\ h \in Nat /\ M \in Nat /\ L \in Nat /\ h <= M /\ M <= L
        BY <2>4, <3>1 DEF KeyOf
      <4>2. h <= L
        BY <4>1
      <4> QED BY <2>4, <3>1, <4>1, <4>2 DEF KeyOf
    <3>3. ASSUME NEW i \in 1 .. L
          PROVE  RowPage(u, i - 1)' = cached'[SubSeq(key, 1, i)]
      <4>1. CASE i \in 1 .. h
        <5>1. SubSeq(req[u].handle, 1, i) = SubSeq(key, 1, i)
          <6>1. h \in 0 .. L /\ 1 \in 1 .. h
            BY <3>2, <4>1
          <6> QED BY <3>1, <3>2, <4>1, <6>1, PartOfPrefix
        <5>2. RowPage(u, i - 1) = cached[SubSeq(req[u].handle, 1, i)]
          BY <1>3, <3>2, <4>1 DEF RowsRead, RowReads
        <5>3. SubSeq(req[u].handle, 1, i) \in PrefixesOf(req[u].handle)
          BY <3>2, <4>1 DEF PrefixesOf
        <5>4. SubSeq(req[u].handle, 1, i) \in DOMAIN cached
          BY <1>3, <5>3, HeldPrefixes
        <5> QED BY <1>3, <1>4, <2>6, <5>1, <5>2, <5>4
      <4>2. CASE i \in h + 1 .. L
        <5>1. cached'[SubSeq(key, 1, i)] = RowPage(u, i - 1)
          BY <2>6, <2>7, <3>1, <4>2
        <5> QED BY <1>3, <1>4, <5>1
      <4>3. i \in 1 .. h \/ i \in h + 1 .. L
        BY <3>2
      <4> QED BY <4>1, <4>2, <4>3
    <3> QED BY <2>5, <3>1, <3>3 DEF RowReads, RowPage
  <2> QED BY <1>3, <2>8, <2>9 DEF RowsRead
<1> QED BY <1>5, <1>6

LEMMA NextReads ==
    ASSUME SizesAssumption, RequestsAssumption, NoReqAssumption, PagesInv, RowsRead,
           [Next /\ ~AbortsAtPageEnd /\ ~GivesBackDuplicates]_vars
    PROVE  RowsRead'
<1>0. LifeInv /\ Locks /\ Layout /\ Owned
  BY DEF PagesInv
<1>1. CASE UNCHANGED <<live, req, cached, pageTable>>
  BY <1>1, KeptReads
<1>2. ASSUME NEW u \in Uid, RecvUser(u) PROVE RowsRead'
  BY <1>1, <1>2 DEF RecvUser, request, memory
<1>3. ASSUME NEW u \in Uid, RecvAbort(u) PROVE RowsRead'
  BY <1>0, <1>3, AbortReads
<1>4. CASE StartSchedule \/ SkipResult \/ EndProcess \/ NextIteration \/ Blocked \/ UNCHANGED vars
  BY <1>1, <1>4
  DEF StartSchedule, SkipResult, EndProcess, NextIteration, Blocked, vars, request, memory
<1>5. CASE AdmitChunk
  BY <1>0, <1>5, AdmitChunkReads
<1>6. CASE AdmitNew
  BY <1>0, <1>6, AdmitNewReads
<1>7. CASE LaunchPrefill
  <2>1. \E us : Starts(us)
    BY <1>0, <1>7, LaunchPrefillStarts DEF Layout
  <2>2. PICK us : Starts(us)
    BY <2>1
  <2> QED BY <1>0, <2>2, StartsReads
<1>8. CASE LaunchDecode
  <2>1. CASE \E us : Starts(us)
    <3>1. PICK us : Starts(us)
      BY <2>1
    <3> QED BY <1>0, <3>1, StartsReads
  <2>2. CASE UNCHANGED <<live, req, cached, pageTable>>
    BY <1>1, <2>2
  <2> QED BY <1>0, <1>8, <2>1, <2>2, LaunchDecodeStarts DEF Layout
<1>9. ASSUME NEW token \in Token, ProcessResult(token), ~GivesBackDuplicates PROVE RowsRead'
  <2>1. lazy' = lazy
    BY <1>9 DEF GivesBackDuplicates
  <2> QED BY <1>0, <1>9, <2>1, ProcessResultReadsCache
<1>10. ASSUME NEW u \in Uid, FreeFinished(u) PROVE RowsRead'
  <2>1. u \in live /\ FreeReqResources(u, FALSE)
    BY <1>0, <1>10 DEF FreeFinished, LifeInv, Places
  <2> QED BY <1>0, <2>1, FreeReads DEF Layout
<1> QED
  BY <1>2, <1>3, <1>4, <1>5, <1>6, <1>7, <1>8, <1>9, <1>10 DEF Next, Schedule, Process

LEMMA ReadsTheCache ==
    ASSUME SizesAssumption, RequestsAssumption, PagesInv, RowsRead
    PROVE  RowReadsCache /\ ValidRegionNotFree
<1>0. LifeInv /\ Locks /\ Tables /\ Extents /\ Owned
  BY DEF PagesInv, Layout
<1>1. ASSUME NEW u \in live, NEW i \in 1 .. Len(req[u].handle)
      PROVE  LET k == SubSeq(req[u].handle, 1, i) IN
             k \in DOMAIN cached /\ ref[k] > 0 /\ pageTable[req[u].row][i - 1] = cached[k]
  <2>1. SubSeq(req[u].handle, 1, i) \in PrefixesOf(req[u].handle)
    BY DEF PrefixesOf
  <2>2. RowPage(u, i - 1) = cached[SubSeq(req[u].handle, 1, i)]
    BY DEF RowsRead, RowReads
  <2> QED BY <1>0, <2>1, <2>2, HeldPrefixes DEF RowPage
<1>2. ASSUME NEW u \in live, NEW i \in 0 .. DivCeil(req[u].cached) - 1
      PROVE  Occurrences(free, pageTable[req[u].row][i]) = 0
  <2>1. RowPage(u, i) \notin ToSet(free)
    <3>1. PICK h, f : h = Len(req[u].handle) /\ f = DivCeil(req[u].cached)
      OBVIOUS
    <3>2. h \in Nat /\ f \in Nat /\ OwnIndices(u) = h .. f - 1
      BY <1>0, <3>1, OwnRange DEF From
    <3>3. CASE i + 1 \in 1 .. h
      <4>1. i + 1 - 1 = i
        BY <3>2
      <4>2. RowPage(u, i) = cached[SubSeq(req[u].handle, 1, i + 1)]
        BY <1>1, <3>1, <3>3, <4>1 DEF RowPage
      <4>3. RowPage(u, i) \in CachedPages
        BY <1>1, <3>1, <3>3, <4>2 DEF CachedPages
      <4> QED BY <1>0, <4>3 DEF Owned
    <3>4. CASE i \in OwnIndices(u)
      <4>1. RowPage(u, i) \in OwnPages(u)
        BY <3>4 DEF OwnPages
      <4> QED BY <1>0, <4>1 DEF Owned
    <3>5. i + 1 \in 1 .. h \/ i \in OwnIndices(u)
      BY <3>1, <3>2
    <3> QED BY <3>3, <3>4, <3>5
  <2>2. free \in Seq(Page) /\ IsInjective(free)
    BY <1>0 DEF Tables, Owned
  <2> QED BY <2>1, <2>2, OccursOnce DEF RowPage
<1> QED BY <1>1, <1>2 DEF RowReadsCache, ValidRegionNotFree

LEMMA InitReads ==
    ASSUME Init
    PROVE  RowsRead
  BY DEF Init, RowsRead

(* Without aborts there is none at the end of a page. *)
LEMMA NoAborts ==
    ASSUME LifeInv, Aborters = {}, [Next]_vars
    PROVE  [Next /\ ~AbortsAtPageEnd]_vars
<1>1. aborted' = aborted
  <2>1. ~\E u \in Uid : RecvAbort(u)
    BY DEF RecvAbort
  <2>2. ASSUME NEW u \in Uid, RecvUser(u) \/ FreeFinished(u) PROVE aborted' = aborted
    BY <2>2 DEF RecvUser, FreeFinished, request
  <2>3. CASE StartSchedule \/ AdmitChunk \/ AdmitNew \/ LaunchPrefill \/ LaunchDecode
    BY <2>3 DEF StartSchedule, AdmitChunk, AdmitNew, LaunchPrefill, LaunchDecode, request
  <2>4. ASSUME NEW token \in Token, ProcessResult(token) PROVE aborted' = aborted
    BY <2>4 DEF ProcessResult
  <2>5. CASE SkipResult \/ EndProcess \/ NextIteration \/ Blocked \/ UNCHANGED vars
    BY <2>5 DEF SkipResult, EndProcess, NextIteration, Blocked, vars, request
  <2> QED BY <2>1, <2>2, <2>3, <2>4, <2>5 DEF Next, Schedule, Process
<1>2. Active \cap aborted = {}
  BY DEF LifeInv, Places, Known
<1> QED BY <1>1, <1>2 DEF AbortsAtPageEnd

(* PagesConserved: a page is in one place, over any order of admission,     *)
(* launch, result, eviction, finish and abort, but for an abort in flight   *)
(* at the end of a page, which frees a page that the request does not have. *)
THEOREM PagesAlwaysConserved ==
    Init /\ [][Next /\ ~AbortsAtPageEnd]_vars => []PagesConserved
<1>1. PagesInv => PagesConserved
  BY OwnedPages, SizesAssumption, RequestsAssumption
<1> QED BY <1>1, PagesFollow, PTL

(* IntegrityWhenIdle: the integrity check before the loop blocks succeeds *)
(* in the same behaviours: an abort in flight at the end of a page is the *)
(* only step that can make it fail.                                       *)
THEOREM IntegrityAlwaysHolds ==
    Init /\ [][Next /\ ~AbortsAtPageEnd]_vars => []IntegrityWhenIdle
<1>1. [Next /\ ~AbortsAtPageEnd]_vars => [Next]_vars
  OBVIOUS
<1>2. PagesInv /\ NothingHeldWhenIdle => IntegrityWhenIdle
  BY IdleIntegrity
<1>3. Init /\ [][Next /\ ~AbortsAtPageEnd]_vars => Spec
  BY <1>1, PTL DEF Spec
<1> QED BY <1>2, <1>3, PagesFollow, IdleAlwaysHoldsNothing, PTL

(* PagesConserved and IntegrityWhenIdle need no exclusion if clients abort *)
(* nothing: duplicates that are given back are not lost either.            *)
THEOREM PagesWithoutAborts ==
    ASSUME Aborters = {}
    PROVE  Spec => [](PagesConserved /\ IntegrityWhenIdle)
<1>1. LifeInv /\ [Next]_vars => [Next /\ ~AbortsAtPageEnd]_vars
  BY NoAborts
<1>2. Spec => Init /\ [][Next /\ ~AbortsAtPageEnd]_vars
  BY <1>1, LifeFollows, PTL DEF Spec
<1> QED BY <1>2, PagesAlwaysConserved, IntegrityAlwaysHolds, PTL

(* Together with them the rows, if no page is given back as a duplicate.    *)
THEOREM RowsFollow ==
    Init /\ [][Next /\ ~AbortsAtPageEnd /\ ~GivesBackDuplicates]_vars => [](PagesInv /\ RowsRead)
<1>1. Init => PagesInv /\ RowsRead
  BY InitPages, InitReads, SizesAssumption, RequestsAssumption, NoReqAssumption
<1>2. [Next /\ ~AbortsAtPageEnd /\ ~GivesBackDuplicates]_vars => [Next /\ ~AbortsAtPageEnd]_vars
  OBVIOUS
<1>3. PagesInv /\ RowsRead /\ [Next /\ ~AbortsAtPageEnd /\ ~GivesBackDuplicates]_vars
         => (PagesInv /\ RowsRead)'
  BY <1>2, NextPages, NextReads, SizesAssumption, RequestsAssumption, NoReqAssumption
<1> QED BY <1>1, <1>3, PTL

(* RowReadsCache: a live row has, up to its handle, the pages that the cache *)
(* holds for the request's tokens, all of them locked for it: an eviction,  *)
(* an insertion or a launch for others never changes what attention reads.  *)
THEOREM RowsAlwaysRead ==
    Init /\ [][Next /\ ~AbortsAtPageEnd /\ ~GivesBackDuplicates]_vars => []RowReadsCache
<1>1. PagesInv /\ RowsRead => RowReadsCache
  BY ReadsTheCache, SizesAssumption, RequestsAssumption
<1> QED BY <1>1, RowsFollow, PTL

(* ValidRegionNotFree: no page that attention may read of a live row is in  *)
(* the free list, so that none can be given to another request.             *)
THEOREM RegionAlwaysValid ==
    Init /\ [][Next /\ ~AbortsAtPageEnd /\ ~GivesBackDuplicates]_vars => []ValidRegionNotFree
<1>1. PagesInv /\ RowsRead => ValidRegionNotFree
  BY ReadsTheCache, SizesAssumption, RequestsAssumption
<1> QED BY <1>1, RowsFollow, PTL

-----------------------------------------------------------------------------
(* Types. *)

(* What TypeOK says beyond the invariants above. *)
Kinds ==
    /\ pc \in {"idle", "recv", "admit", "process", "free"}
    /\ dropped \subseteq sent
    /\ inflight[1] \subseteq Uid

LEMMA NextKinds ==
    ASSUME LifeInv, Kinds, [Next]_vars
    PROVE  Kinds'
<1>1. inflight = <<inflight[1], inflight[2]>> /\ inflight[2] \subseteq Uid
  BY DEF LifeInv, Types, Known
<1>2. ASSUME NEW u \in Uid, RecvUser(u) PROVE Kinds'
  BY <1>2 DEF RecvUser, Receive, decode, Kinds
<1>3. ASSUME NEW u \in Uid, RecvAbort(u) PROVE Kinds'
  <2>1. pc' = "recv" /\ UNCHANGED <<dropped, sent>>
    BY <1>3 DEF RecvAbort, Receive, client
  <2>2. inflight' = inflight \/ inflight' = [inflight EXCEPT ![2] = @ \ {u}]
    BY <1>3 DEF RecvAbort, AbortPending, AbortPrefilled, AbortRunning
  <2>3. inflight'[1] = inflight[1]
    <3>1. PICK a, b : inflight = <<a, b>>
      BY <1>1
    <3> QED BY <2>2, <3>1
  <2> QED BY <2>1, <2>3 DEF Kinds
<1>4. CASE StartSchedule \/ AdmitChunk \/ AdmitNew \/ LaunchPrefill
  BY <1>4 DEF StartSchedule, AdmitChunk, AdmitNew, LaunchPrefill, client, decode, loop, Kinds
<1>5. CASE LaunchDecode
  <2>1. /\ pc' = "process" /\ UNCHANGED <<dropped, sent>>
        /\ inflight' = <<inflight[2], ToSet(DecodeBatch)>>
    BY <1>5 DEF LaunchDecode, client
  <2>2. inflight'[1] = inflight[2]
    <3>1. PICK a, b : a = inflight[2] /\ b = ToSet(DecodeBatch)
      OBVIOUS
    <3> QED BY <2>1, <3>1
  <2> QED BY <1>1, <2>1, <2>2 DEF Kinds
<1>6. CASE SkipResult \/ NextIteration \/ Blocked \/ UNCHANGED vars
  BY <1>6 DEF SkipResult, NextIteration, Blocked, vars, client, decode, loop, Kinds
<1>7. ASSUME NEW token \in Token, ProcessResult(token) PROVE Kinds'
  BY <1>7 DEF ProcessResult, Kinds
<1>8. CASE EndProcess
  <2>1. /\ pc' = "free" /\ UNCHANGED <<dropped, sent>>
        /\ inflight' = [inflight EXCEPT ![1] = {}]
    BY <1>8 DEF EndProcess, client
  <2>2. inflight'[1] = {}
    <3>1. PICK a, b : inflight = <<a, b>>
      BY <1>1
    <3> QED BY <2>1, <3>1
  <2> QED BY <2>1, <2>2 DEF Kinds
<1>9. ASSUME NEW u \in Uid, FreeFinished(u) PROVE Kinds'
  BY <1>9 DEF FreeFinished, client, decode, Kinds
<1> QED BY <1>2, <1>3, <1>4, <1>5, <1>6, <1>7, <1>8, <1>9 DEF Next, Schedule, Process

LEMMA InvTypes ==
    ASSUME SizesAssumption, RequestsAssumption, LifeInv, Locks, Layout, Kinds
    PROVE  TypeOK
<1>0. LifeInv /\ Locks /\ Tables /\ Extents
  BY DEF Layout
<1>1. /\ Waiting \subseteq Uid /\ Active \subseteq Uid /\ Arriving \subseteq Uid
      /\ Launched \subseteq Uid /\ sent \subseteq Uid
  BY <1>0, SetTypes DEF LifeInv, Types
<1>2. /\ ended \subseteq sent /\ aborted \subseteq sent /\ finished \subseteq Uid
      /\ newFin \subseteq Uid /\ inflight[2] \subseteq Uid
  BY <1>0, <1>1 DEF LifeInv, Known
<1>3. inflPre \subseteq Uid
  BY <1>0, <1>1 DEF LifeInv, Phases
<1>4. adder.n \in 0 .. Len(pend) \/ pc # "admit"
  <2>1. adder.n \in Nat /\ pend \in Seq(Uid) /\ (pc = "admit" => adder.n <= Len(pend))
    BY <1>0 DEF LifeInv, Types, Phases
  <2>2. Len(pend) \in Nat
    BY <2>1
  <2> QED BY <2>1, <2>2
<1>5. inflight \in Seq(SUBSET Uid) /\ Len(inflight) = 2
  <2>1. PICK a, b : a = inflight[1] /\ b = inflight[2]
    OBVIOUS
  <2>2. inflight = <<a, b>> /\ a \in SUBSET Uid /\ b \in SUBSET Uid
    BY <1>0, <1>2, <2>1 DEF LifeInv, Types, Kinds
  <2>3. <<a, b>> \in Seq(SUBSET Uid) /\ Len(<<a, b>>) = 2
    BY <2>2
  <2> QED BY <2>2, <2>3
<1>6. ASSUME NEW u \in live
      PROVE  /\ req[u].row \in Row
             /\ req[u].cached \in 0 .. MaxDeviceLen(u)
             /\ req[u].device \in 1 .. MaxDeviceLen(u)
  <2>1. PICK c, d, m : c = req[u].cached /\ d = req[u].device /\ m = MaxDeviceLen(u)
    OBVIOUS
  <2>2. u \in Uid /\ req[u].row \in Row /\ c \in Nat /\ d \in Nat /\ c <= d
    BY <1>0, <2>1, LensOf
  <2>3. 1 <= d /\ d <= m
    BY <1>0, <2>1 DEF Extents, LifeInv, Counts
  <2>4. m \in Nat
    <3>1. InputLen(u) < MaxSeqLen
      BY <1>0 DEF LifeInv, Counts
    <3> QED BY <2>1, <2>2, <3>1, Lengths
  <2>5. c \in 0 .. m /\ d \in 1 .. m
    BY <2>2, <2>3, <2>4
  <2> QED BY <2>1, <2>2, <2>5
<1>7. DOMAIN cached = DOMAIN ref /\ \A k \in DOMAIN cached : cached[k] \in Page /\ ref[k] \in Nat
  <2>1. DOMAIN cached = DOMAIN ref /\ IsFiniteSet(live)
        /\ \A k \in DOMAIN ref : ref[k] = Cardinality(HeldBy(live, req, k))
    BY <1>0 DEF Locks, Held
  <2>2. \A k \in DOMAIN cached : cached[k] \in Page
    BY <1>0 DEF Tables, CachedPages
  <2>3. \A k \in DOMAIN ref : ref[k] \in Nat
    BY <2>1, HeldNat
  <2> QED BY <2>1, <2>2, <2>3
<1>8. free \in Seq(Page) /\ lazy \in Seq(Page)
  BY <1>0 DEF Tables
<1>9. /\ pend \in Seq(Uid) /\ running \in Seq(Uid) /\ freeRows \in Seq(Row) /\ live \subseteq Uid
      /\ gen \in [Uid -> Seq(Token)] /\ (last = NoReq \/ last \in Batch)
      /\ (batch = NoReq \/ batch \in Batch) /\ idx \in Nat
  BY <1>0 DEF LifeInv, Types
<1>10. pc \in {"idle", "recv", "admit", "process", "free"} /\ dropped \subseteq sent
  BY DEF Kinds
<1> QED BY <1>2, <1>3, <1>4, <1>5, <1>6, <1>7, <1>8, <1>9, <1>10 DEF TypeOK

(* TypeOK: every variable keeps its type, also behind the second finding:   *)
(* the free list, the page table and the cache hold pages of the pool only, *)
(* and the lengths of a live request stay within its prompt and output.     *)
THEOREM TypesAlwaysHold == Spec => []TypeOK
<1>1. Init => Kinds
  BY DEF Init, Kinds
<1>2. LifeInv /\ Kinds /\ [Next]_vars => Kinds'
  BY NextKinds
<1>3. LifeInv /\ Locks /\ Layout /\ Kinds => TypeOK
  BY InvTypes, SizesAssumption, RequestsAssumption
<1> QED BY <1>1, <1>2, <1>3, LayoutFollows, PTL DEF Spec
=============================================================================
