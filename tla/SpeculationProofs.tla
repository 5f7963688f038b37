--------------------------- MODULE SpeculationProofs --------------------------
(***************************************************************************)
(* Proofs about Speculation for any requests, rows, drafts per round,      *)
(* window and budget, and both kinds of data plane: what the target writes *)
(* behind the last token of a request continues its text; the drafter's    *)
(* rings hold the windows of those who have the rows; a step fits the      *)
(* buffers; and the two processes fit on the device.                       *)
(***************************************************************************)
EXTENDS Speculation, Lemmas

Working == {"recv", "step", "process"}

Batches == [phase : {"none", "prefill", "verify"}, uids : Seq(Uid)]

(* The types of what the induction is about. *)
Types ==
    /\ tpc \in {"boot", "load", "connect", "join", "ack"} \cup Working
    /\ dpc \in {"wait", "load", "hello", "join", "loop"}
    /\ status \in [Uid -> {"new", "pending", "prefill", "running", "finished", "aborted"}]
    /\ DOMAIN req = Uid /\ DOMAIN vstate = Row
    /\ pend \in Seq(Uid) /\ running \in Seq(Uid)
    /\ freeRows \in Seq(Row)
    /\ batch \in Batches /\ last \in Batches /\ idx \in Nat
    /\ toDrafter \in Seq(ToSet(toDrafter)) /\ fromDrafter \in Seq(ToSet(fromDrafter))

(* The lists of the target have the requests they are for, once. *)
Lists ==
    /\ ToSet(pend) = {u \in Uid : status[u] = "pending"}
    /\ ToSet(running) = {u \in Uid : status[u] = "running"}
    /\ IsInjective(pend) /\ IsInjective(running) /\ IsInjective(freeRows)
    /\ IsInjective(batch.uids) /\ IsInjective(last.uids)

(* A request that finished with its prefill keeps its row until the        *)
(* iteration ends.                                                         *)
Finishing ==
    {u \in ToSet(last.uids) :
       tpc = "process" /\ last.phase = "prefill" /\ status[u] = "finished"}

Holders == {u \in Uid : status[u] \in {"prefill", "running"}} \cup Finishing

Numbers == [row : Row, cached : Nat, device : Nat]

(* A row is free or one request has it. *)
Rows ==
    /\ \A u \in Holders : req[u] \in Numbers /\ req[u].row \notin ToSet(freeRows)
    /\ \A u, v \in Holders : req[u].row = req[v].row => u = v

(* The requests of a prefill batch that were not processed yet. *)
Prefills ==
    /\ tpc # "process" /\ last.phase = "prefill" =>
         \A u \in ToSet(last.uids) : status[u] \in {"prefill", "aborted"}
    /\ batch.phase = "prefill" =>
         /\ \A u \in ToSet(batch.uids) : status[u] = "prefill"
         /\ last.phase = "prefill" => ToSet(last.uids) \cap ToSet(batch.uids) = {}

(* The requests of a round whose results have not been read. *)
RoundOf(b) ==
    {u \in Uid : b.phase = "verify" /\ u \in ToSet(b.uids) /\ status[u] = "running"}

(* What is in flight is known to be so, and nothing else is ahead of its   *)
(* last token.                                                             *)
Flights ==
    /\ tpc = "recv" => batch = NoBatch /\ RoundOf(last) \subseteq inflight[2]
    /\ tpc # "recv" => RoundOf(batch) \subseteq inflight[2]
    /\ tpc = "process" \/ batch.phase # "prefill"
    /\ tpc = "step" => batch.phase = "verify"
    /\ batch.phase = "verify" => \A u \in ToSet(batch.uids) : status[u] = "running"
    /\ \A u \in Uid : status[u] = "prefill" =>
         req[u].cached = PromptLen[u] /\ req[u].device = PromptLen[u]
    /\ \A u \in Uid : status[u] = "running" =>
         /\ req[u].cached < req[u].device
         /\ u \notin RoundOf(last) \cup RoundOf(batch) => req[u].device = req[u].cached + 1

(* The two processes during startup. *)
Startup ==
    /\ tpc \notin Working =>
         /\ \A u \in Uid : status[u] = "new"
         /\ batch = NoBatch /\ last = NoBatch
         /\ fromDrafter = <<>> \/ (dpc = "loop" /\ tpc \in {"join", "ack"})
    /\ tpc \in {"boot", "load", "connect"} =>
         dpc \in {"wait", "load", "hello"} /\ toDrafter = <<>>
    /\ tpc \in {"join", "ack"} =>
         toDrafter = IF dpc \in {"wait", "load", "hello"} THEN <<HandshakeMsg>> ELSE <<>>
    /\ dpc = "loop" \/ tpc \notin Working
    /\ dpc # "loop" => fromDrafter = <<>>
    /\ dpc = "loop" /\ tpc \in {"join", "ack"} => Len(fromDrafter) = 1

(* A list of positions that ends at p. *)
Ends(s, p) == s \in Seq(Int) /\ s # <<>> /\ s[Len(s)] = p

Carried(u) == vstate[req[u].row].pos

Greeting(m, u) == m.type = "init" /\ m.uid = u

(* The drafter has been told of the request, and knows it. *)
Met(u) == u \in DOMAIN states /\ \A m \in ToSet(toDrafter) : ~Greeting(m, u)

(* The messages on their way: a request is greeted when it starts to run   *)
(* and removed after it ran.  No other is known to the drafter.            *)
Mail ==
    /\ \A u \in DOMAIN states : u \in Uid /\ status[u] \in {"running", "finished", "aborted"}
    /\ \A m \in ToSet(toDrafter) :
       /\ m.type \in {"handshake", "init", "remove", "step"}
       /\ m.type = "init" =>
            /\ m.uid \in Uid
            /\ status[m.uid] \in {"running", "finished", "aborted"}
            /\ Ends(m.pos, PromptLen[m.uid])
       /\ m.type = "remove" =>
            m.uid \in Uid /\ status[m.uid] \in {"finished", "aborted"}

(* The drafter's window ends at the last committed token once the rows that *)
(* the target still carries for the request are behind it.                 *)
Known(u) ==
    /\ DOMAIN vstate[req[u].row] = {"pos", "hid", "drafts"}
    /\ IF Carried(u) = <<>>
       THEN /\ req[u].cached = PromptLen[u]
            /\ u \in DOMAIN states => Ends(states[u].window, PromptLen[u])
            /\ u \in DOMAIN states \/ \E m \in ToSet(toDrafter) : Greeting(m, u)
       ELSE Ends(Carried(u), req[u].cached) /\ Met(u)

Windows ==
    /\ \A u \in DOMAIN states : "window" \in DOMAIN states[u] /\ states[u].window \in Seq(Int)
    /\ \A u \in Uid : status[u] = "running" => Known(u)
    /\ \A u \in RoundOf(last) : Met(u)
    /\ tpc = "process" => \A u \in RoundOf(batch) : Met(u)

(* What is drafted for the requests of a round: the positions between the  *)
(* last committed token and the end of what is allocated.                  *)
Continues(drafts, u) == drafts = Positions(req[u].cached + 1, req[u].device - 1)

IsRequestOf(r, u) ==
    /\ r.uid = u
    /\ r.n = req[u].device - 1 - req[u].cached
    /\ r.pos = Carried(u)

(* The step of the round that the target waits for, last in the queue.     *)
Asked ==
    LET n == Len(toDrafter) IN
    /\ fromDrafter = <<>>
    /\ n > 0 /\ toDrafter[n].type = "step"
    /\ \A i \in 1 .. n : toDrafter[i].type = "step" => i = n
    /\ DOMAIN toDrafter[n].reqs = DOMAIN batch.uids
    /\ \A i \in DOMAIN batch.uids : IsRequestOf(toDrafter[n].reqs[i], batch.uids[i])

Answered ==
    /\ toDrafter = <<>>
    /\ Len(fromDrafter) = 1
    /\ \A u \in ToSet(batch.uids) :
         u \in DOMAIN states /\ Continues(Head(fromDrafter).drafts[u], u)

Rounds ==
    /\ tpc = "step" => Asked \/ Answered
    /\ tpc \in {"recv", "process"} =>
         fromDrafter = <<>> /\ \A m \in ToSet(toDrafter) : m.type \in {"init", "remove"}
    /\ tpc = "step" => \A m \in ToSet(toDrafter) : m.type \in {"init", "remove", "step"}
    /\ tpc = "process" => \A u \in RoundOf(batch) : Continues(vstate[req[u].row].drafts, u)

DraftInv ==
    /\ Types /\ Lists /\ Rows /\ Prefills /\ Flights
    /\ Startup /\ Mail /\ Windows /\ Rounds
-----------------------------------------------------------------------------
(* Queues: a list of messages is a list of the messages it has. *)
LEMMA OwnList ==
    ASSUME NEW S, NEW s \in Seq(S)
    PROVE  /\ s \in Seq(ToSet(s)) /\ ToSet(s) \subseteq S
           /\ DOMAIN s = 1 .. Len(s) /\ Len(s) \in Nat
<1>1. DOMAIN s = 1 .. Len(s) /\ Len(s) \in Nat /\ \A i \in 1 .. Len(s) : s[i] \in S
  OBVIOUS
<1>2. \A i \in 1 .. Len(s) : s[i] \in ToSet(s)
  BY <1>1 DEF ToSet
<1>3. ToSet(s) \subseteq S
  BY <1>1 DEF ToSet
<1>4. s = [i \in 1 .. Len(s) |-> s[i]]
  OBVIOUS
<1>5. [i \in 1 .. Len(s) |-> s[i]] \in Seq(ToSet(s))
  BY <1>1, <1>2, IsASeq
<1> QED
  BY <1>1, <1>3, <1>4, <1>5

LEMMA QueueAppend ==
    ASSUME NEW q, q \in Seq(ToSet(q)), NEW m, NEW r, r = Append(q, m)
    PROVE  /\ r \in Seq(ToSet(r)) /\ ToSet(r) = ToSet(q) \cup {m}
           /\ Len(r) = Len(q) + 1 /\ r[Len(r)] = m
           /\ \A i \in 1 .. Len(q) : r[i] = q[i]
<1> DEFINE T == ToSet(q) \cup {m}
<1>1. q \in Seq(T) /\ m \in T
  <2>1. DOMAIN q = 1 .. Len(q) /\ Len(q) \in Nat
    OBVIOUS
  <2>2. \A i \in 1 .. Len(q) : q[i] \in T
    BY <2>1 DEF ToSet
  <2>3. q = [i \in 1 .. Len(q) |-> q[i]]
    OBVIOUS
  <2> HIDE DEF T
  <2>4. q \in Seq(T)
    BY <2>1, <2>2, <2>3, IsASeq
  <2> QED BY <2>4 DEF T
<1>2. r \in Seq(T) /\ ToSet(r) = ToSet(q) \cup {m}
  BY <1>1, AppendIs
<1>3. Len(r) = Len(q) + 1 /\ r[Len(q) + 1] = m /\ \A i \in 1 .. Len(q) : r[i] = q[i]
  BY <1>1, AppendProperties
<1> QED
  BY <1>2, <1>3, OwnList

LEMMA QueueConcat ==
    ASSUME NEW q, q \in Seq(ToSet(q)), NEW S, NEW t \in Seq(S), NEW r, r = q \o t
    PROVE  r \in Seq(ToSet(r)) /\ ToSet(r) = ToSet(q) \cup ToSet(t)
<1> DEFINE T == ToSet(q) \cup S
<1>1. q \in Seq(T) /\ t \in Seq(T)
  <2>1. /\ DOMAIN q = 1 .. Len(q) /\ Len(q) \in Nat /\ DOMAIN t = 1 .. Len(t) /\ Len(t) \in Nat
        /\ \A i \in 1 .. Len(t) : t[i] \in S
    OBVIOUS
  <2>2. (\A i \in 1 .. Len(q) : q[i] \in T) /\ (\A i \in 1 .. Len(t) : t[i] \in T)
    BY <2>1 DEF ToSet
  <2>3. q = [i \in 1 .. Len(q) |-> q[i]] /\ t = [i \in 1 .. Len(t) |-> t[i]]
    OBVIOUS
  <2> HIDE DEF T
  <2>4. q \in Seq(T)
    BY <2>1, <2>2, <2>3, IsASeq
  <2>5. t \in Seq(T)
    BY <2>1, <2>2, <2>3, IsASeq
  <2> QED BY <2>4, <2>5
<1> HIDE DEF T
<1>2. r \in Seq(T) /\ ToSet(r) = ToSet(q) \cup ToSet(t)
  BY <1>1, ConcatIs
<1> QED
  BY <1>2, OwnList

IsTail(t, q) ==
    /\ t \in Seq(ToSet(t)) /\ ToSet(q) = {Head(q)} \cup ToSet(t)
    /\ Head(q) = q[1] /\ Len(t) = Len(q) - 1 /\ Len(q) \in Nat \ {0}
    /\ \A i \in 1 .. Len(t) : t[i] = q[i + 1]

LEMMA QueueTail ==
    ASSUME NEW q, q \in Seq(ToSet(q)), q # <<>>
    PROVE  IsTail(Tail(q), q)
<1> DEFINE t == Tail(q)
<1>1. /\ DOMAIN q = 1 .. Len(q) /\ Len(q) \in Nat /\ Len(q) # 0
  OBVIOUS
<1>2. /\ t \in Seq(ToSet(q)) /\ Len(t) = Len(q) - 1 /\ Head(q) = q[1]
      /\ \A i \in 1 .. Len(t) : t[i] = q[i + 1]
  BY <1>1, HeadTailProperties
<1>3. t \in Seq(ToSet(t)) /\ ToSet(t) \subseteq ToSet(q) /\ DOMAIN t = 1 .. Len(t)
  BY <1>2, OwnList
<1>4. ASSUME NEW m \in ToSet(q)
      PROVE  m = Head(q) \/ m \in ToSet(t)
  <2>1. PICK i \in 1 .. Len(q) : m = q[i]
    BY <1>1 DEF ToSet
  <2>2. CASE i = 1
    BY <1>2, <2>1, <2>2
  <2>3. CASE i # 1
    <3>1. i - 1 \in 1 .. Len(t) /\ i - 1 + 1 = i
      BY <1>1, <1>2, <2>3
    <3>2. t[i - 1] = m
      BY <1>2, <2>1, <3>1
    <3> QED BY <1>3, <3>1, <3>2 DEF ToSet
  <2> QED BY <2>2, <2>3
<1>5. Head(q) \in ToSet(q)
  BY <1>1, <1>2 DEF ToSet
<1> QED
  BY <1>1, <1>2, <1>3, <1>4, <1>5 DEF IsTail
-----------------------------------------------------------------------------
(* Frames: what a step that leaves the tables of the target alone keeps.   *)
LEMMA TargetFrame ==
    ASSUME DraftInv, UNCHANGED target
    PROVE  Lists' /\ Rows' /\ Prefills' /\ Flights'
<1> USE DEF DraftInv, target, work
<1>1. Lists'
  BY DEF Lists
<1>2. Rows'
  BY DEF Rows, Holders, Finishing
<1>3. Prefills'
  BY DEF Prefills
<1>4. Flights'
  BY DEF Flights, RoundOf
<1> QED
  BY <1>1, <1>2, <1>3, <1>4

LEMMA StartFrame ==
    ASSUME DraftInv, tpc \notin Working, tpc' \notin {"step", "process"}, UNCHANGED work
    PROVE  Lists' /\ Rows' /\ Prefills' /\ Flights'
<1> USE DEF DraftInv, work
<1>0. /\ \A u \in Uid : status[u] = "new"
      /\ batch = NoBatch /\ last = NoBatch
  BY DEF Startup
<1>1. Lists'
  BY DEF Lists
<1>2. Rows'
  BY <1>0 DEF Rows, Holders, Finishing, NoBatch
<1>3. Prefills'
  BY <1>0 DEF Prefills, NoBatch
<1>4. Flights'
  BY <1>0 DEF Flights, RoundOf, NoBatch
<1> QED
  BY <1>1, <1>2, <1>3, <1>4
-----------------------------------------------------------------------------
THEOREM DraftInvInit == Init => DraftInv
<1> SUFFICES ASSUME Init PROVE DraftInv
  OBVIOUS
<1> USE DEF Init
<1>1. /\ ToSet(<<>>) = {} /\ IsInjective(<<>>) /\ <<>> \in Seq(Uid) /\ <<>> \in Seq(ToSet(<<>>))
      /\ DOMAIN <<>> = {}
  <2>1. <<>> \in Seq(ToSet(<<>>)) /\ <<>> \in Seq(Uid) /\ DOMAIN <<>> = {}
    OBVIOUS
  <2> QED BY <2>1 DEF ToSet, IsInjective
<1>2. NumRows \in Nat /\ NumRows > 0
  BY SizesAssumption
<1>3. freeRows \in Seq(Row) /\ IsInjective(freeRows)
  <2>1. \A i \in 1 .. NumRows : i - 1 \in Row
    BY <1>2 DEF Row
  <2>2. freeRows \in Seq(Row)
    BY <1>2, <2>1, IsASeq
  <2>3. IsInjective(freeRows)
    BY <1>2 DEF IsInjective
  <2> QED BY <2>2, <2>3
<1>4. NoBatch \in Batches
  BY <1>1 DEF NoBatch, Batches
<1>5. Types
  BY <1>1, <1>3, <1>4 DEF Types, Row
<1>6. Lists
  BY <1>1, <1>3 DEF Lists, NoBatch
<1>7. Rows /\ Prefills
  BY <1>1 DEF Rows, Holders, Finishing, Prefills, NoBatch
<1>8. Flights /\ Startup
  BY <1>1 DEF Flights, RoundOf, NoBatch, Startup, Working
<1>9. Mail /\ Windows /\ Rounds
  BY <1>1 DEF Mail, Windows, Known, Rounds, RoundOf, NoBatch, Working
<1> QED
  BY <1>5, <1>6, <1>7, <1>8, <1>9 DEF DraftInv
-----------------------------------------------------------------------------
(* Startup: no request is known before both ends are connected.            *)

(* What is said about requests holds while all of them are new. *)
LEMMA NothingKnown ==
    ASSUME DraftInv, UNCHANGED work, DOMAIN states' \subseteq DOMAIN states,
           \A u \in DOMAIN states' : states'[u] = states[u],
           \A u \in Uid : status[u] = "new", batch = NoBatch, last = NoBatch
    PROVE  Windows'
<1> USE DEF DraftInv, work
<1>1. RoundOf(last)' = {} /\ RoundOf(batch)' = {}
  BY DEF RoundOf, NoBatch
<1>2. \A u \in DOMAIN states' : "window" \in DOMAIN states'[u] /\ states'[u].window \in Seq(Int)
  BY DEF Windows, Known
<1> QED
  BY <1>1, <1>2 DEF Windows, Known

LEMMA TargetStarts ==
    ASSUME DraftInv, MeasureBaseline \/ SizeCache \/ SendHandshake \/ JoinTarget \/ RecvAck
    PROVE  DraftInv'
<1> USE DEF DraftInv
<1>1. /\ tpc \notin Working /\ tpc' \notin {"step", "process"}
      /\ UNCHANGED <<work, drafter>> /\ tpc' \in {"load", "connect", "join", "ack", "recv"}
  BY DEF MeasureBaseline, SizeCache, SendHandshake, JoinTarget, RecvAck, Working
<1>2. /\ \A u \in Uid : status[u] = "new"
      /\ batch = NoBatch /\ last = NoBatch
  BY <1>1 DEF Startup
<1>3. Lists' /\ Rows' /\ Prefills' /\ Flights'
  BY <1>1, StartFrame
<1>4. Windows'
  BY <1>1, <1>2, NothingKnown DEF drafter
<1>5. Types' /\ Startup' /\ Mail' /\ Rounds'
  <2>1. CASE MeasureBaseline \/ SizeCache \/ JoinTarget
    <3>1. UNCHANGED channel /\ tpc' \notin Working
      BY <2>1 DEF MeasureBaseline, SizeCache, JoinTarget, Working
    <3>2. Types'
      BY <1>1, <3>1 DEF Types, work, drafter, channel, Working
    <3>3. Mail'
      BY <1>1, <3>1 DEF Mail, work, drafter, channel
    <3>4. Rounds'
      BY <3>1 DEF Rounds, Working
    <3>5. Startup'
      BY <1>1, <2>1, <3>1 DEF Startup, work, drafter, channel, MeasureBaseline, SizeCache, JoinTarget, Working
    <3> QED BY <3>2, <3>3, <3>4, <3>5
  <2>2. CASE SendHandshake
    <3>1. /\ tpc = "connect" /\ tpc' = "join" /\ toDrafter = <<>> /\ dpc \in {"wait", "load", "hello"}
          /\ toDrafter' = Append(toDrafter, HandshakeMsg) /\ fromDrafter' = fromDrafter /\ fromDrafter = <<>>
      BY <2>2 DEF SendHandshake, Startup, Working
    <3>2. toDrafter' \in Seq(ToSet(toDrafter')) /\ toDrafter' = <<HandshakeMsg>> /\ ToSet(toDrafter') = {HandshakeMsg}
      <4>1. ToSet(toDrafter) = {}
        BY <3>1 DEF ToSet
      <4>2. toDrafter \in Seq(ToSet(toDrafter))
        BY DEF Types
      <4>3. toDrafter' \in Seq(ToSet(toDrafter')) /\ ToSet(toDrafter') = ToSet(toDrafter) \cup {HandshakeMsg}
        BY <3>1, <4>2, QueueAppend
      <4>4. Append(<<>>, HandshakeMsg) = <<HandshakeMsg>>
        OBVIOUS
      <4> QED BY <3>1, <4>1, <4>3, <4>4
    <3>3. Types'
      BY <1>1, <3>1, <3>2 DEF Types, work, drafter
    <3>4. Mail'
      BY <1>1, <3>2 DEF Mail, HandshakeMsg, work, drafter
    <3>5. Rounds' /\ Startup'
      BY <1>1, <1>2, <3>1, <3>2 DEF Rounds, Startup, Working, work, drafter
    <3> QED BY <3>3, <3>4, <3>5
  <2>3. CASE RecvAck
    <3>1. /\ tpc = "ack" /\ tpc' = "recv" /\ fromDrafter # <<>> /\ fromDrafter' = Tail(fromDrafter)
          /\ toDrafter' = toDrafter
      BY <2>3 DEF RecvAck
    <3>2. dpc = "loop" /\ toDrafter = <<>> /\ Len(fromDrafter) = 1
      BY <3>1 DEF Startup, Types
    <3>3. fromDrafter' \in Seq(ToSet(fromDrafter')) /\ Len(fromDrafter') = 0
      <4>1. fromDrafter \in Seq(ToSet(fromDrafter))
        BY DEF Types
      <4>2. fromDrafter' \in Seq(ToSet(fromDrafter')) /\ Len(fromDrafter') = Len(fromDrafter) - 1
        BY <3>1, <4>1, QueueTail DEF IsTail
      <4> QED BY <3>2, <4>2
    <3>4. fromDrafter' = <<>> /\ ToSet(toDrafter') = {}
      <4>1. fromDrafter' = <<>>
        BY <3>3, EmptySeq
      <4> QED BY <3>1, <3>2, <4>1 DEF ToSet
    <3>5. Types'
      BY <1>1, <3>1, <3>3 DEF Types, work, drafter, Working
    <3>6. Mail'
      BY <1>1, <3>4 DEF Mail, work, drafter
    <3>7. RoundOf(batch)' = {}
      BY <1>1, <1>2 DEF RoundOf, NoBatch, work
    <3>8. Rounds' /\ Startup'
      BY <1>1, <1>2, <3>1, <3>2, <3>4, <3>7 DEF Rounds, Startup, Working, work, drafter
    <3> QED BY <3>5, <3>6, <3>8
  <2> QED BY <2>1, <2>2, <2>3
<1> QED
  BY <1>3, <1>4, <1>5
-----------------------------------------------------------------------------
(* The drafter. *)
LEMMA DrafterStarts ==
    ASSUME DraftInv, StartDrafter \/ DrafterReady \/ RecvHandshake \/ JoinDrafter
    PROVE  DraftInv'
<1> USE DEF DraftInv
<1>1. /\ UNCHANGED target /\ states' = states /\ tpc \notin Working
      /\ dpc # "loop" /\ dpc' \in {"load", "hello", "join", "loop"}
  BY DEF StartDrafter, DrafterReady, RecvHandshake, JoinDrafter, Startup
<1>2. /\ \A u \in Uid : status[u] = "new"
      /\ batch = NoBatch /\ last = NoBatch
  BY <1>1 DEF Startup
<1>3. Lists' /\ Rows' /\ Prefills' /\ Flights'
  BY <1>1, TargetFrame
<1>4. Windows'
  BY <1>1, <1>2, NothingKnown DEF target
<1>5. Rounds'
  BY <1>1 DEF Rounds, target, Working
<1>6. Types' /\ Startup' /\ Mail'
  <2>1. CASE StartDrafter \/ DrafterReady
    <3>1. UNCHANGED channel /\ dpc' \in {"load", "hello"} /\ dpc \in {"wait", "load"}
      BY <2>1 DEF StartDrafter, DrafterReady
    <3>2. Types'
      BY <1>1, <3>1 DEF Types, work, target, channel
    <3>3. Mail'
      BY <1>1, <3>1 DEF Mail, work, target, channel
    <3>4. Startup'
      BY <1>1, <3>1 DEF Startup, work, target, channel
    <3> QED BY <3>2, <3>3, <3>4
  <2>2. CASE RecvHandshake
    <3>1. /\ dpc = "hello" /\ toDrafter # <<>> /\ toDrafter' = Tail(toDrafter) /\ dpc' = "join"
          /\ fromDrafter' = fromDrafter
      BY <2>2 DEF RecvHandshake
    <3>2. tpc \in {"join", "ack"} /\ toDrafter = <<HandshakeMsg>>
      BY <1>1, <3>1 DEF Startup, Types
    <3>3. toDrafter' = <<>> /\ <<>> \in Seq(ToSet(<<>>)) /\ ToSet(<<>>) = {}
      BY <3>1, <3>2 DEF ToSet
    <3>4. Types'
      BY <1>1, <3>1, <3>3 DEF Types, work, target
    <3>5. Mail'
      BY <1>1, <3>3 DEF Mail, work, target
    <3>6. Startup'
      BY <1>1, <1>2, <3>1, <3>2, <3>3 DEF Startup, work, target
    <3> QED BY <3>4, <3>5, <3>6
  <2>3. CASE JoinDrafter
    <3>1. /\ dpc = "join" /\ fromDrafter' = Append(fromDrafter, [type |-> "ack"]) /\ dpc' = "loop"
          /\ toDrafter' = toDrafter
      BY <2>3 DEF JoinDrafter
    <3>2. tpc \in {"join", "ack"} /\ toDrafter = <<>> /\ fromDrafter = <<>>
      BY <1>1, <3>1 DEF Startup, Types
    <3>3. fromDrafter' \in Seq(ToSet(fromDrafter')) /\ Len(fromDrafter') = 1
      <4>1. fromDrafter \in Seq(ToSet(fromDrafter)) /\ Len(fromDrafter) = 0
        BY <3>2 DEF Types
      <4>2. /\ fromDrafter' \in Seq(ToSet(fromDrafter'))
            /\ Len(fromDrafter') = Len(fromDrafter) + 1
        BY <3>1, <4>1, QueueAppend
      <4> QED BY <4>1, <4>2
    <3>4. Types'
      BY <1>1, <3>1, <3>3 DEF Types, work, target
    <3>5. Mail'
      BY <1>1, <3>1 DEF Mail, work, target
    <3>6. Startup'
      BY <1>1, <1>2, <3>1, <3>2, <3>3 DEF Startup, work, target
    <3> QED BY <3>4, <3>5, <3>6
  <2> QED BY <2>1, <2>2, <2>3
<1> QED
  BY <1>3, <1>4, <1>5, <1>6

(* A message that is no step is taken: those behind it keep their places.   *)
LEMMA MessageTaken ==
    ASSUME DraftInv, dpc = "loop", toDrafter # <<>>, Head(toDrafter).type # "step",
           toDrafter' = Tail(toDrafter), UNCHANGED <<target, fromDrafter, dpc>>,
           \A u \in DOMAIN states' : u \in DOMAIN states \/ Greeting(Head(toDrafter), u)
    PROVE  /\ tpc \in Working /\ Types' /\ Lists' /\ Rows' /\ Prefills' /\ Flights'
           /\ Startup' /\ Mail' /\ Rounds'
           /\ ToSet(toDrafter) = {Head(toDrafter)} \cup ToSet(toDrafter')
           /\ Head(toDrafter).type \in {"init", "remove"}
<1>0. toDrafter \in Seq(ToSet(toDrafter))
  BY DEF DraftInv, Types
<1>1. /\ toDrafter' \in Seq(ToSet(toDrafter')) /\ ToSet(toDrafter) = {Head(toDrafter)} \cup ToSet(toDrafter')
      /\ Head(toDrafter) = toDrafter[1]
      /\ Len(toDrafter') = Len(toDrafter) - 1 /\ Len(toDrafter) \in Nat \ {0}
      /\ \A i \in 1 .. Len(toDrafter') : toDrafter'[i] = toDrafter[i + 1]
  <2>1. IsTail(Tail(toDrafter), toDrafter)
    BY <1>0, QueueTail
  <2> QED BY <2>1 DEF IsTail
<1> USE DEF DraftInv
<1>2. tpc \in Working
  BY DEF Startup, Types
<1>3. Lists' /\ Rows' /\ Prefills' /\ Flights'
  BY TargetFrame
<1>4. Types'
  BY <1>1 DEF Types, target, work
<1>5. Startup'
  BY <1>2 DEF Startup, target, work, Working
<1>6. Mail'
  BY <1>1 DEF Mail, Greeting, target, work
<1>7. Head(toDrafter).type \in {"init", "remove"}
  BY <1>1, <1>2 DEF Rounds, Working
<1>8. CASE tpc = "step"
  <2>1. Asked
    BY <1>8 DEF Rounds, Answered
  <2>2. PICK n, step : n = Len(toDrafter) /\ step = toDrafter[n]
    OBVIOUS
  <2>3. /\ n > 0 /\ step.type = "step" /\ fromDrafter = <<>>
        /\ \A i \in 1 .. n : toDrafter[i].type = "step" => i = n
        /\ DOMAIN step.reqs = DOMAIN batch.uids
        /\ \A i \in DOMAIN batch.uids : IsRequestOf(step.reqs[i], batch.uids[i])
    BY <2>1, <2>2 DEF Asked
  <2>4. n \in Nat /\ n # 1 /\ n > 1 /\ n - 1 = Len(toDrafter')
    <3>1. n # 1
      BY <1>1, <2>2, <2>3
    <3> QED BY <1>1, <2>2, <3>1
  <2>5. toDrafter'[n - 1] = step
    <3>1. n - 1 \in 1 .. Len(toDrafter') /\ n - 1 + 1 = n
      BY <2>4
    <3> QED BY <1>1, <2>2, <3>1
  <2>6. \A i \in 1 .. n - 1 : toDrafter'[i].type = "step" => i = n - 1
    <3> TAKE i \in 1 .. n - 1
    <3>1. i + 1 \in 1 .. n /\ toDrafter'[i] = toDrafter[i + 1]
      BY <1>1, <2>4
    <3>2. toDrafter[i + 1].type = "step" => i + 1 = n
      BY <2>3, <3>1
    <3> QED BY <2>4, <3>1, <3>2
  <2>7. \A i \in DOMAIN batch.uids : IsRequestOf(step.reqs[i], batch.uids[i])'
    BY <2>3 DEF IsRequestOf, Carried, target, work
  <2>8. Asked'
    <3>1. fromDrafter' = <<>> /\ batch' = batch
      BY <2>3 DEF target, work
    <3> QED BY <2>3, <2>4, <2>5, <2>6, <2>7, <3>1 DEF Asked, IsRequestOf, Carried
  <2> QED BY <1>1, <1>2, <1>3, <1>4, <1>5, <1>6, <1>7, <1>8, <2>8 DEF Rounds, target
<1>9. CASE tpc # "step"
  <2>1. Rounds'
    BY <1>1, <1>9 DEF Rounds, target, work, RoundOf, Continues
  <2> QED BY <1>1, <1>2, <1>3, <1>4, <1>5, <1>6, <1>7, <2>1
<1> QED
  BY <1>8, <1>9

LEMMA GreetingTaken ==
    ASSUME DraftInv, DraftInit
    PROVE  DraftInv'
<1> USE DEF DraftInv
<1> DEFINE msg == Head(toDrafter)
<1>1. /\ dpc = "loop" /\ toDrafter # <<>> /\ msg.type = "init"
      /\ toDrafter' = Tail(toDrafter) /\ UNCHANGED <<target, fromDrafter, dpc>>
      /\ states' = [u \in DOMAIN states \cup {msg.uid} |->
                      IF u = msg.uid THEN NewState(msg, Received(msg.input)) ELSE states[u]]
  BY DEF DraftInit
<1>2. /\ DOMAIN states' = {msg.uid} \cup DOMAIN states
      /\ states'[msg.uid] = NewState(msg, Received(msg.input))
      /\ \A u \in DOMAIN states : u # msg.uid => states'[u] = states[u]
  BY <1>1
<1>3. /\ tpc \in Working /\ Types' /\ Lists' /\ Rows' /\ Prefills' /\ Flights'
      /\ Startup' /\ Mail' /\ Rounds'
      /\ ToSet(toDrafter) = {msg} \cup ToSet(toDrafter')
  BY <1>1, <1>2, MessageTaken DEF Greeting
<1>4. msg.uid \in Uid /\ Ends(msg.pos, PromptLen[msg.uid])
  BY <1>1, <1>3 DEF Mail
<1>5. "window" \in DOMAIN states'[msg.uid] /\ states'[msg.uid].window = msg.pos
  BY <1>2 DEF NewState
<1> HIDE DEF msg
<1>6. \A u \in DOMAIN states' : "window" \in DOMAIN states'[u] /\ states'[u].window \in Seq(Int)
  BY <1>2, <1>4, <1>5 DEF Windows, Known, Ends
<1>7. \A u \in Uid : Met(u) => Met(u)'
  BY <1>1, <1>2, <1>3 DEF Met, Greeting
<1>8. ASSUME NEW u \in Uid, status[u] = "running"
      PROVE  /\ DOMAIN vstate[req[u].row] = {"pos", "hid", "drafts"}
             /\ IF Carried(u) = <<>>
                THEN /\ req[u].cached = PromptLen[u]
                     /\ u \in DOMAIN states' => Ends(states'[u].window, PromptLen[u])
                     /\ u \in DOMAIN states' \/ \E m \in ToSet(toDrafter') : Greeting(m, u)
                ELSE Ends(Carried(u), req[u].cached) /\ Met(u)'
  <2>1. CASE Carried(u) = <<>>
    <3>1. u \in DOMAIN states' => Ends(states'[u].window, PromptLen[u])
      BY <1>2, <1>4, <1>5, <1>8, <2>1 DEF Windows, Known
    <3>2. u \in DOMAIN states' \/ \E m \in ToSet(toDrafter') : Greeting(m, u)
      BY <1>2, <1>3, <1>8, <2>1 DEF Windows, Known, Greeting
    <3> QED BY <1>8, <2>1, <3>1, <3>2 DEF Windows, Known
  <2>2. CASE Carried(u) # <<>>
    BY <1>7, <1>8, <2>2 DEF Windows, Known
  <2> QED BY <2>1, <2>2
<1>9. Windows'
  BY <1>1, <1>6, <1>7, <1>8 DEF Windows, Known, target, work, RoundOf, Carried
<1> QED
  BY <1>3, <1>9

LEMMA RemovalTaken ==
    ASSUME DraftInv, DraftRemove
    PROVE  DraftInv'
<1> USE DEF DraftInv
<1> DEFINE msg == Head(toDrafter)
<1>1. /\ dpc = "loop" /\ toDrafter # <<>> /\ msg.type = "remove"
      /\ toDrafter' = Tail(toDrafter) /\ UNCHANGED <<target, fromDrafter, dpc>>
      /\ states' = [u \in DOMAIN states \ {msg.uid} |-> states[u]]
  BY DEF DraftRemove
<1>2. /\ DOMAIN states' = DOMAIN states \ {msg.uid}
      /\ \A u \in DOMAIN states' : states'[u] = states[u]
  BY <1>1
<1>3. /\ tpc \in Working /\ Types' /\ Lists' /\ Rows' /\ Prefills' /\ Flights'
      /\ Startup' /\ Mail' /\ Rounds'
      /\ ToSet(toDrafter) = {msg} \cup ToSet(toDrafter')
  BY <1>1, <1>2, MessageTaken DEF Greeting
<1>4. msg.uid \in Uid /\ status[msg.uid] \in {"finished", "aborted"}
  BY <1>1, <1>3 DEF Mail
<1> HIDE DEF msg
<1>6. \A u \in DOMAIN states' : "window" \in DOMAIN states'[u] /\ states'[u].window \in Seq(Int)
  BY <1>2 DEF Windows, Known
<1>7. \A u \in Uid : status[u] = "running" => u # msg.uid /\ (Met(u) => Met(u)')
  BY <1>2, <1>3, <1>4 DEF Met, Greeting
<1>8. ASSUME NEW u \in Uid, status[u] = "running"
      PROVE  /\ DOMAIN vstate[req[u].row] = {"pos", "hid", "drafts"}
             /\ IF Carried(u) = <<>>
                THEN /\ req[u].cached = PromptLen[u]
                     /\ u \in DOMAIN states' => Ends(states'[u].window, PromptLen[u])
                     /\ u \in DOMAIN states' \/ \E m \in ToSet(toDrafter') : Greeting(m, u)
                ELSE Ends(Carried(u), req[u].cached) /\ Met(u)'
  <2>1. CASE Carried(u) = <<>>
    <3>1. u \in DOMAIN states' => Ends(states'[u].window, PromptLen[u])
      BY <1>2, <1>8, <2>1 DEF Windows, Known
    <3>2. u \in DOMAIN states' \/ \E m \in ToSet(toDrafter') : Greeting(m, u)
      BY <1>1, <1>2, <1>3, <1>7, <1>8, <2>1 DEF Windows, Known, Greeting
    <3> QED BY <1>8, <2>1, <3>1, <3>2 DEF Windows, Known
  <2>2. CASE Carried(u) # <<>>
    BY <1>7, <1>8, <2>2 DEF Windows, Known
  <2> QED BY <2>1, <2>2
<1>9. Windows'
  <2>1. \A u \in RoundOf(last) \cup RoundOf(batch) : u \in Uid /\ status[u] = "running"
    BY DEF RoundOf
  <2> QED BY <1>1, <1>6, <1>7, <1>8, <2>1 DEF Windows, Known, target, work, RoundOf, Carried
<1> QED
  BY <1>3, <1>9


(* A window that is extended and cut ends where the extension ends. *)
LEMMA WindowEnds ==
    ASSUME NEW w \in Seq(Int), NEW p \in Seq(Int), NEW c,
           IF p = <<>> THEN Ends(w, c) ELSE Ends(p, c)
    PROVE  Ends(SubSeq(w \o p, Greater(0, Len(w \o p) - Window) + 1, Len(w \o p)), c)
<1>1. PICK q, n, k : q = w \o p /\ n = Len(q) /\ k = Greater(0, n - Window) + 1
  OBVIOUS
<1>2. /\ Len(w) \in Nat /\ Len(p) \in Nat /\ q \in Seq(Int) /\ n = Len(w) + Len(p)
      /\ \A i \in 1 .. Len(w) + Len(p) : q[i] = IF i <= Len(w) THEN w[i] ELSE p[i - Len(w)]
  BY <1>1, ConcatProperties, LenProperties
<1>3. n \in Nat /\ n > 0 /\ q[n] = c
  <2>1. CASE p = <<>>
    <3>1. q = w
      BY <1>1, <2>1, ConcatEmptySeq
    <3>2. w # <<>> /\ w[Len(w)] = c
      BY <2>1 DEF Ends
    <3>3. Len(w) > 0
      BY <1>2, <3>2, EmptySeq
    <3> QED BY <1>1, <1>2, <3>1, <3>2, <3>3
  <2>2. CASE p # <<>>
    <3>1. p[Len(p)] = c
      BY <2>2 DEF Ends
    <3>2. Len(p) > 0
      BY <1>2, <2>2, EmptySeq
    <3>3. n \in 1 .. Len(w) + Len(p) /\ ~(n <= Len(w)) /\ n - Len(w) = Len(p)
      BY <1>2, <3>2
    <3>4. q[n] = p[n - Len(w)]
      BY <1>2, <3>3
    <3> QED BY <1>2, <3>1, <3>2, <3>3, <3>4
  <2> QED BY <2>1, <2>2
<1>4. k \in Int /\ 1 <= k /\ k <= n
  <2>1. Window \in Nat
    BY SizesAssumption
  <2>2. Greater(0, n - Window) \in Int /\ 0 <= Greater(0, n - Window) /\ Greater(0, n - Window) < n
    BY <1>3, <2>1, SizesAssumption DEF Greater
  <2> QED BY <1>1, <1>3, <2>2
<1>5. PICK s : s = SubSeq(q, k, n)
  OBVIOUS
<1>6. s \in Seq(Int) /\ Len(s) = n - k + 1 /\ \A i \in 1 .. n - k + 1 : s[i] = q[k + i - 1]
  <2>1. \A i \in k .. n : q[i] \in Int
    BY <1>1, <1>2, <1>4, ElementOfSeq
  <2> QED BY <1>3, <1>4, <1>5, <2>1, SubSeqProperties
<1>7. s[Len(s)] = c
  <2>1. n - k + 1 \in 1 .. n - k + 1 /\ k + (n - k + 1) - 1 = n
    BY <1>3, <1>4
  <2> QED BY <1>3, <1>6, <2>1
<1>8. s # <<>>
  BY <1>3, <1>4, <1>6, EmptySeq
<1> QED
  BY <1>1, <1>5, <1>6, <1>7, <1>8 DEF Ends

(* The step the drafter takes is the one the target waits for, and the     *)
(* last message in the queue.                                              *)
LEMMA RoundIs ==
    ASSUME DraftInv, dpc = "loop", toDrafter # <<>>, NEW msg, msg = Head(toDrafter), msg.type = "step"
    PROVE  /\ tpc = "step" /\ Asked /\ fromDrafter = <<>>
           /\ Tail(toDrafter) = <<>> /\ ToSet(<<>>) = {} /\ ToSet(toDrafter) = {msg}
           /\ DOMAIN msg.reqs = DOMAIN batch.uids
           /\ \A i \in DOMAIN batch.uids : IsRequestOf(msg.reqs[i], batch.uids[i])
           /\ \A u \in ToSet(batch.uids) : u \in Uid /\ status[u] = "running"
           /\ \A u \in Uid : status[u] = "running" => u \in DOMAIN states /\ Carried(u) \in Seq(Int)
<1> DEFINE rest == Tail(toDrafter)
<1>1. toDrafter \in Seq(ToSet(toDrafter))
  BY DEF DraftInv, Types
<1>2. IsTail(rest, toDrafter)
  BY <1>1, QueueTail
<1> HIDE DEF rest
<1>3. tpc = "step" /\ Asked
  <2>1. tpc \in Working
    BY DEF DraftInv, Startup, Types
  <2>2. msg \in ToSet(toDrafter)
    BY <1>2 DEF IsTail
  <2>3. tpc = "step"
    BY <2>1, <2>2 DEF DraftInv, Rounds, Working
  <2> QED BY <2>3 DEF DraftInv, Rounds, Answered
<1>4. /\ fromDrafter = <<>> /\ Len(toDrafter) = 1
      /\ DOMAIN msg.reqs = DOMAIN batch.uids
      /\ \A i \in DOMAIN batch.uids : IsRequestOf(msg.reqs[i], batch.uids[i])
  <2>1. 1 \in 1 .. Len(toDrafter) /\ toDrafter[1] = msg
    <3>1. Len(toDrafter) \in Nat \ {0} /\ Head(toDrafter) = toDrafter[1]
      BY <1>2 DEF IsTail
    <3> QED BY <3>1
  <2>2. Len(toDrafter) = 1
    BY <1>3, <2>1 DEF Asked
  <2> QED BY <1>3, <2>1, <2>2 DEF Asked
<1>5. rest = <<>> /\ ToSet(<<>>) = {} /\ ToSet(toDrafter) = {msg}
  <2>1. Len(rest) = 0 /\ rest \in Seq(ToSet(rest))
    BY <1>2, <1>4 DEF IsTail
  <2>2. rest = <<>>
    BY <2>1, EmptySeq
  <2>3. ToSet(<<>>) = {}
    BY DEF ToSet
  <2> QED BY <1>2, <2>2, <2>3 DEF IsTail
<1>6. \A u \in ToSet(batch.uids) : u \in Uid /\ status[u] = "running"
  BY <1>3 DEF DraftInv, Flights, Lists, Types, Batches, ToSet
<1>7. \A u \in Uid : status[u] = "running" => u \in DOMAIN states /\ Carried(u) \in Seq(Int)
  BY <1>5, EmptySeq DEF DraftInv, Windows, Known, Met, Greeting, Ends
<1> QED
  BY <1>3, <1>4, <1>5, <1>6, <1>7 DEF rest

LEMMA StepTaken ==
    ASSUME DraftInv, DraftStep
    PROVE  DraftInv'
<1> DEFINE msg   == Head(toDrafter)
           hid   == IF msg.input > 0 THEN Received(msg.input) ELSE <<>>
           now   == Windowed(msg.reqs, hid)
           asked == [u \in {msg.reqs[i].uid : i \in DOMAIN msg.reqs} |->
                       LET i == CHOOSE i \in DOMAIN msg.reqs : msg.reqs[i].uid = u
                       IN  msg.reqs[i].n]
<1>0. /\ dpc = "loop" /\ toDrafter # <<>> /\ msg.type = "step"
      /\ \E active : states' = [u \in DOMAIN states |->
                           IF u \in active
                           THEN [now[u] EXCEPT !.pending = <<>>, !.ready = TRUE]
                           ELSE now[u]]
      /\ fromDrafter' = Append(fromDrafter,
                [type   |-> "reply",
                 drafts |-> [u \in DOMAIN asked |-> Proposed(now[u], asked[u])]])
      /\ toDrafter' = Tail(toDrafter)
      /\ UNCHANGED <<target, dpc>>
  BY DEF DraftStep
<1>1. /\ msg = Head(toDrafter)
      /\ now = Windowed(msg.reqs, hid)
      /\ asked = [u \in {msg.reqs[i].uid : i \in DOMAIN msg.reqs} |->
                    LET i == CHOOSE i \in DOMAIN msg.reqs : msg.reqs[i].uid = u IN msg.reqs[i].n]
  OBVIOUS
<1> HIDE DEF msg, hid, now, asked
<1>2. toDrafter \in Seq(ToSet(toDrafter))
  BY DEF DraftInv, Types
<1>3. IsTail(toDrafter', toDrafter)
  BY <1>0, <1>1, <1>2, QueueTail
<1>4. tpc = "step" /\ Asked
  BY <1>0, <1>1, RoundIs
<1>5. /\ fromDrafter = <<>>
      /\ DOMAIN msg.reqs = DOMAIN batch.uids
      /\ \A i \in DOMAIN batch.uids : IsRequestOf(msg.reqs[i], batch.uids[i])
  BY <1>0, <1>1, RoundIs
<1>6. toDrafter' = <<>> /\ ToSet(toDrafter') = {} /\ ToSet(toDrafter) = {msg}
  BY <1>0, <1>1, RoundIs
<1>7. \A u \in ToSet(batch.uids) : u \in Uid /\ status[u] = "running"
  BY <1>0, <1>1, RoundIs
<1>8. \A u \in Uid : status[u] = "running" => u \in DOMAIN states
  BY <1>0, <1>1, RoundIs
<1>9. \A u \in Uid : status[u] = "running" =>
         /\ Carried(u) \in Seq(Int)
         /\ states[u].window \in Seq(Int) /\ "window" \in DOMAIN states[u]
         /\ IF Carried(u) = <<>> THEN Ends(states[u].window, req[u].cached)
                                 ELSE Ends(Carried(u), req[u].cached)
  BY <1>8, EmptySeq DEF DraftInv, Windows, Known, Ends
<1>10. \A u \in DOMAIN states : DOMAIN now[u] = DOMAIN states[u]
  BY <1>0, <1>1 DEF Windowed, UpdateWindow
<1>11. DOMAIN states' = DOMAIN states /\ \A u \in DOMAIN states :
         /\ "window" \in DOMAIN states'[u] /\ states'[u].window = now[u].window
  BY <1>0, <1>1, <1>10 DEF DraftInv, Windows, Known
<1>12. \A u \in DOMAIN states : u \notin ToSet(batch.uids) => now[u] = states[u]
  <2>1. \A u : (\E i \in DOMAIN msg.reqs : msg.reqs[i].uid = u) => u \in ToSet(batch.uids)
    BY <1>5 DEF IsRequestOf, ToSet
  <2> QED BY <1>0, <1>1, <2>1 DEF Windowed
<1>13. ASSUME NEW u \in ToSet(batch.uids)
       PROVE  /\ u \in DOMAIN asked /\ asked[u] = req[u].device - 1 - req[u].cached
              /\ Ends(now[u].window, req[u].cached)
  <2>1. PICK i \in DOMAIN msg.reqs : i = CHOOSE j \in DOMAIN msg.reqs : msg.reqs[j].uid = u
    <3>1. \E i \in DOMAIN msg.reqs : msg.reqs[i].uid = u
      BY <1>5, <1>13 DEF IsRequestOf, ToSet
    <3> QED BY <3>1
  <2>2. msg.reqs[i].uid = u
    <3>1. \E j \in DOMAIN msg.reqs : msg.reqs[j].uid = u
      BY <1>5, <1>13 DEF IsRequestOf, ToSet
    <3> QED BY <2>1, <3>1
  <2>3. msg.reqs[i].n = req[u].device - 1 - req[u].cached /\ msg.reqs[i].pos = Carried(u)
    <3>1. PICK r, v : r = msg.reqs[i] /\ v = batch.uids[i]
      OBVIOUS
    <3>2. IsRequestOf(r, v)
      BY <1>5, <3>1
    <3>3. r.uid = v /\ r.n = req[v].device - 1 - req[v].cached /\ r.pos = Carried(v)
      BY <3>2 DEF IsRequestOf
    <3> QED BY <2>2, <3>1, <3>3
  <2>4. u \in DOMAIN asked /\ asked[u] = msg.reqs[i].n
    BY <1>0, <1>1, <2>1, <2>2
  <2>5. u \in DOMAIN states
    BY <1>7, <1>8
  <2>6. \E h : now[u] = UpdateWindow(states[u], u, Carried(u), h)
    BY <1>0, <1>1, <2>1, <2>2, <2>3, <2>5 DEF Windowed
  <2>7. PICK w : w = states[u].window /\ w \in Seq(Int) /\ "window" \in DOMAIN states[u]
    BY <1>7, <1>9
  <2>8. now[u].window = SubSeq(w \o Carried(u), Greater(0, Len(w \o Carried(u)) - Window) + 1,
                               Len(w \o Carried(u)))
    BY <2>6, <2>7 DEF UpdateWindow
  <2>9. Ends(now[u].window, req[u].cached)
    <3>1. Carried(u) \in Seq(Int) /\ IF Carried(u) = <<>> THEN Ends(w, req[u].cached)
                                                         ELSE Ends(Carried(u), req[u].cached)
      BY <1>7, <1>9, <2>7
    <3> QED BY <2>7, <2>8, <3>1, WindowEnds
  <2> QED BY <2>3, <2>4, <2>9
<1>14. ASSUME NEW u \in ToSet(batch.uids)
       PROVE  Proposed(now[u], asked[u]) = Positions(req[u].cached + 1, req[u].device - 1)
  <2>1. req[u].cached \in Nat /\ req[u].device \in Nat
    BY <1>7 DEF DraftInv, Rows, Holders, Numbers
  <2>2. PICK c, d : c = req[u].cached /\ d = req[u].device
    OBVIOUS
  <2>3. now[u].window[Len(now[u].window)] = c /\ asked[u] = d - 1 - c
    BY <1>13, <2>2 DEF Ends
  <2>4. c + (d - 1 - c) = d - 1
    BY <2>1, <2>2
  <2> QED BY <2>2, <2>3, <2>4 DEF Proposed
<1>15. /\ fromDrafter' \in Seq(ToSet(fromDrafter')) /\ Len(fromDrafter') = 1
       /\ \A u \in ToSet(batch.uids) :
            Head(fromDrafter').drafts[u] = Positions(req[u].cached + 1, req[u].device - 1)
  <2>1. PICK m : m = [type |-> "reply", drafts |-> [u \in DOMAIN asked |-> Proposed(now[u], asked[u])]]
    OBVIOUS
  <2>2. fromDrafter' = <<m>>
    <3>1. fromDrafter' = Append(<<>>, m)
      BY <1>0, <1>1, <1>5, <2>1
    <3>2. Append(<<>>, m) = <<m>>
      OBVIOUS
    <3> QED BY <3>1, <3>2
  <2>3. <<m>> \in Seq({m}) /\ Len(<<m>>) = 1 /\ Head(<<m>>) = m
    OBVIOUS
  <2>4. fromDrafter' \in Seq(ToSet(fromDrafter'))
    BY <2>2, <2>3, OwnList
  <2> QED BY <1>13, <1>14, <2>1, <2>2, <2>3, <2>4
<1>16. Lists' /\ Rows' /\ Prefills' /\ Flights'
  BY <1>0, <1>1, TargetFrame
<1>17. Types'
  BY <1>0, <1>1, <1>3, <1>15 DEF DraftInv, Types, target, work, IsTail
<1>18. Startup' /\ Mail'
  BY <1>0, <1>1, <1>4, <1>6, <1>11 DEF DraftInv, Startup, Working, Mail, target, work
<1>19. Rounds'
  <2>1. Answered'
    BY <1>0, <1>1, <1>6, <1>7, <1>8, <1>11, <1>15 DEF Answered, Continues, target, work
  <2> QED BY <1>0, <1>1, <1>4, <1>6, <2>1 DEF Rounds, target
<1>20. Windows'
  <2>1. \A u \in DOMAIN states' : "window" \in DOMAIN states'[u] /\ states'[u].window \in Seq(Int)
    BY <1>11, <1>12, <1>13 DEF DraftInv, Windows, Known, Ends
  <2>2. \A u \in Uid : status[u] = "running" => Met(u)'
    BY <1>6, <1>8, <1>11 DEF Met
  <2>3. ASSUME NEW u \in Uid, status[u] = "running"
        PROVE  /\ DOMAIN vstate[req[u].row] = {"pos", "hid", "drafts"}
               /\ IF Carried(u) = <<>>
                  THEN /\ req[u].cached = PromptLen[u]
                       /\ u \in DOMAIN states' => Ends(states'[u].window, PromptLen[u])
                       /\ u \in DOMAIN states' \/ \E m \in ToSet(toDrafter') : Greeting(m, u)
                  ELSE Ends(Carried(u), req[u].cached) /\ Met(u)'
    <3>1. CASE Carried(u) = <<>>
      <4>1. Ends(states'[u].window, PromptLen[u])
        BY <1>8, <1>9, <1>11, <1>12, <1>13, <2>3, <3>1 DEF DraftInv, Windows, Known
      <4> QED BY <1>8, <1>11, <2>3, <3>1, <4>1 DEF DraftInv, Windows, Known
    <3>2. CASE Carried(u) # <<>>
      BY <2>2, <2>3, <3>2 DEF DraftInv, Windows, Known
    <3> QED BY <3>1, <3>2
  <2>4. \A u \in RoundOf(last) \cup RoundOf(batch) : u \in Uid /\ status[u] = "running"
    BY DEF RoundOf
  <2> QED BY <1>0, <1>1, <2>1, <2>2, <2>3, <2>4 DEF Windows, Known, target, work, RoundOf, Carried
<1> QED
  BY <1>16, <1>17, <1>18, <1>19, <1>20 DEF DraftInv
-----------------------------------------------------------------------------
(* The target.  Steps that give up rows, and steps that leave what the     *)
(* drafter knows as it is.                                                 *)
LEMMA OnlyStarts ==
    ASSUME DraftInv, tpc \in Working, tpc' \in Working, dpc' = dpc
    PROVE  Startup' /\ dpc = "loop"
BY DEF DraftInv, Startup, Types, Working

LEMMA RowsGivenUp ==
    ASSUME Rows, Holders' \subseteq Holders,
           \A u \in Holders' : req'[u] \in Numbers /\ req'[u].row = req[u].row,
           \A r \in ToSet(freeRows') :
              r \in ToSet(freeRows) \/ \E u \in Holders \ Holders' : r = req[u].row
    PROVE  Rows'
<1>1. \A u \in Holders' : req'[u].row \notin ToSet(freeRows')
  BY DEF Rows
<1>2. \A u, v \in Holders' : req'[u].row = req'[v].row => u = v
  BY DEF Rows
<1> QED
  BY <1>1, <1>2 DEF Rows

(* Every request that runs on is carried as before, but for those in S.     *)
LEMMA KnownStay ==
    ASSUME DraftInv, states' = states, NEW S,
           \A u \in Uid \ S : status'[u] = "running" =>
              /\ status[u] = "running"
              /\ req'[u].cached = req[u].cached
              /\ Carried(u)' = Carried(u)
              /\ DOMAIN vstate'[req'[u].row] = DOMAIN vstate[req[u].row],
           ToSet(toDrafter) \subseteq ToSet(toDrafter'),
           \A m \in ToSet(toDrafter') \ ToSet(toDrafter) : m.type = "init" => m.uid \in S,
           \A u \in Uid \cap S : status'[u] = "running" => Known(u)',
           \A u \in RoundOf(last)' : Met(u)',
           tpc' = "process" => \A u \in RoundOf(batch)' : Met(u)'
    PROVE  Windows'
<1>1. \A u \in Uid \ S : Met(u) => Met(u)'
  BY DEF Met, Greeting
<1>2. ASSUME NEW u \in Uid \ S, status'[u] = "running"
      PROVE  Known(u)'
  <2>1. Known(u)
    BY <1>2 DEF DraftInv, Windows
  <2>2. /\ req'[u].cached = req[u].cached /\ Carried(u)' = Carried(u)
        /\ DOMAIN vstate'[req'[u].row] = DOMAIN vstate[req[u].row]
    BY <1>2
  <2>3. CASE Carried(u) = <<>>
    <3>1. u \in DOMAIN states' => Ends(states'[u].window, PromptLen[u])
      BY <2>1, <2>3 DEF Known
    <3>2. u \in DOMAIN states' \/ \E m \in ToSet(toDrafter') : Greeting(m, u)
      BY <2>1, <2>3 DEF Known
    <3> QED BY <2>1, <2>2, <2>3, <3>1, <3>2 DEF Known
  <2>4. CASE Carried(u) # <<>>
    BY <1>1, <2>1, <2>2, <2>4 DEF Known
  <2> QED BY <2>3, <2>4
<1>3. \A u \in DOMAIN states' : "window" \in DOMAIN states'[u] /\ states'[u].window \in Seq(Int)
  BY DEF DraftInv, Windows
<1> QED
  BY <1>2, <1>3 DEF Windows

LEMMA MailStays ==
    ASSUME DraftInv, ToSet(toDrafter') \subseteq ToSet(toDrafter), states' = states,
           \A u \in Uid : status[u] \in {"running", "finished", "aborted"} =>
                status'[u] \in {"running", "finished", "aborted"},
           \A u \in Uid : status[u] \in {"finished", "aborted"} => status'[u] = status[u]
    PROVE  Mail'
BY DEF DraftInv, Mail

LEMMA UserReceived ==
    ASSUME DraftInv, NEW u \in Uid, RecvUser(u)
    PROVE  DraftInv'
<1>1. /\ tpc = "recv" /\ status[u] = "new"
      /\ status' = [status EXCEPT ![u] = "pending"]
      /\ pend' = Append(pend, u)
      /\ UNCHANGED <<tpc, req, freeRows, running, inflight, batch, last, idx, vstate,
                     toDrafter, fromDrafter, dpc, states>>
  BY DEF RecvUser, channel, drafter
<1>2. status \in [Uid -> {"new", "pending", "prefill", "running", "finished", "aborted"}]
  BY DEF DraftInv, Types
<1>3. /\ status' \in [Uid -> {"new", "pending", "prefill", "running", "finished", "aborted"}]
      /\ status'[u] = "pending" /\ \A v \in Uid : v # u => status'[v] = status[v]
  BY <1>1, <1>2
<1>4. /\ pend' \in Seq(Uid) /\ ToSet(pend') = ToSet(pend) \cup {u} /\ IsInjective(pend')
  <2>1. pend \in Seq(Uid) /\ u \notin ToSet(pend) /\ IsInjective(pend)
    BY <1>1 DEF DraftInv, Types, Lists
  <2> QED BY <1>1, <2>1, AppendIs
<1>5. Types'
  BY <1>1, <1>3, <1>4 DEF DraftInv, Types
<1>6. Lists'
  BY <1>1, <1>3, <1>4 DEF DraftInv, Lists
<1>7. Holders' = Holders /\ RoundOf(last)' = RoundOf(last) /\ RoundOf(batch)' = RoundOf(batch)
  BY <1>1, <1>3 DEF Holders, Finishing, RoundOf
<1>8. Rows'
  BY <1>1, <1>7 DEF DraftInv, Rows
<1>9. Prefills'
  BY <1>1, <1>3 DEF DraftInv, Prefills, Types, Batches, ToSet, Flights, NoBatch
<1>10. Flights'
  BY <1>1, <1>3, <1>7 DEF DraftInv, Flights
<1>11. Startup'
  BY <1>1, OnlyStarts DEF Working
<1>12. Mail'
  BY <1>1, <1>3, MailStays
<1>13. Windows'
  <2>1. \A v \in Uid : Met(v) => Met(v)'
    BY <1>1 DEF Met
  <2>2. \A v \in Uid : status'[v] = "running" => status[v] = "running"
    BY <1>3
  <2>3. \A v \in Uid : Carried(v)' = Carried(v)
    BY <1>1 DEF Carried
  <2>4. \A v \in RoundOf(last)' : Met(v)'
    BY <1>7, <2>1 DEF DraftInv, Windows, RoundOf
  <2>5. PICK S : S = {}
    OBVIOUS
  <2>6. \A v \in Uid \ S : status'[v] = "running" =>
              /\ status[v] = "running" /\ req'[v].cached = req[v].cached
              /\ Carried(v)' = Carried(v)
              /\ DOMAIN vstate'[req'[v].row] = DOMAIN vstate[req[v].row]
    BY <1>1, <2>2, <2>3
  <2>7. /\ ToSet(toDrafter) \subseteq ToSet(toDrafter')
        /\ \A m \in ToSet(toDrafter') \ ToSet(toDrafter) : m.type = "init" => m.uid \in S
        /\ \A v \in Uid \cap S : status'[v] = "running" => Known(v)'
        /\ states' = states /\ tpc' # "process"
    BY <1>1, <2>5
  <2> QED BY <2>4, <2>6, <2>7, KnownStay
<1>14. Rounds'
  BY <1>1 DEF DraftInv, Rounds
<1> QED
  BY <1>5, <1>6, <1>8, <1>9, <1>10, <1>11, <1>12, <1>13, <1>14 DEF DraftInv


LEMMA AllStay ==
    ASSUME DraftInv, states' = states,
           \A u \in Uid : status'[u] = "running" =>
              /\ status[u] = "running"
              /\ req'[u].cached = req[u].cached
              /\ Carried(u)' = Carried(u)
              /\ DOMAIN vstate'[req'[u].row] = DOMAIN vstate[req[u].row],
           ToSet(toDrafter) \subseteq ToSet(toDrafter'),
           \A m \in ToSet(toDrafter') \ ToSet(toDrafter) : m.type # "init",
           \A u \in RoundOf(last)' : Met(u),
           tpc' = "process" => \A u \in RoundOf(batch)' : Met(u)
    PROVE  Windows'
<1>1. PICK S : S = {}
  OBVIOUS
<1>2. /\ \A u \in Uid \ S : status'[u] = "running" =>
            /\ status[u] = "running" /\ req'[u].cached = req[u].cached
            /\ Carried(u)' = Carried(u)
            /\ DOMAIN vstate'[req'[u].row] = DOMAIN vstate[req[u].row]
      /\ \A m \in ToSet(toDrafter') \ ToSet(toDrafter) : m.type = "init" => m.uid \in S
      /\ \A u \in Uid \cap S : status'[u] = "running" => Known(u)'
  BY <1>1
<1>3. \A u : Met(u) => Met(u)'
  BY DEF Met, Greeting
<1>4. \A u \in RoundOf(last)' : Met(u)'
  BY <1>3
<1>5. tpc' = "process" => \A u \in RoundOf(batch)' : Met(u)'
  BY <1>3
<1> QED
  BY <1>2, <1>4, <1>5, KnownStay

(* The removals of a list of requests are behind what was in the queue.     *)
LEMMA RemovesSent ==
    ASSUME DraftInv, NEW us \in Seq(Uid), SendRemoves(us)
    PROVE  /\ toDrafter' \in Seq(ToSet(toDrafter')) /\ ToSet(toDrafter) \subseteq ToSet(toDrafter')
           /\ \A m \in ToSet(toDrafter') \ ToSet(toDrafter) :
                 m.type = "remove" /\ m.uid \in ToSet(us)
           /\ fromDrafter' = fromDrafter
<1> DEFINE removes == [i \in DOMAIN us |-> RemoveMsg(us[i])]
<1>1. toDrafter' = toDrafter \o removes /\ fromDrafter' = fromDrafter
  BY DEF SendRemoves
<1>2. toDrafter \in Seq(ToSet(toDrafter))
  BY DEF DraftInv, Types
<1>3. removes \in Seq({RemoveMsg(u) : u \in ToSet(us)})
  <2>1. DOMAIN us = 1 .. Len(us) /\ Len(us) \in Nat
    OBVIOUS
  <2>2. \A i \in 1 .. Len(us) : RemoveMsg(us[i]) \in {RemoveMsg(u) : u \in ToSet(us)}
    BY <2>1 DEF ToSet
  <2> QED BY <2>1, <2>2, IsASeq
<1> HIDE DEF removes
<1>4. ToSet(removes) \subseteq {RemoveMsg(u) : u \in ToSet(us)}
  BY <1>3, OwnList
<1>5. toDrafter' \in Seq(ToSet(toDrafter')) /\ ToSet(toDrafter') = ToSet(toDrafter) \cup ToSet(removes)
  BY <1>1, <1>2, <1>3, QueueConcat
<1>6. \A m \in ToSet(removes) : m.type = "remove" /\ m.uid \in ToSet(us)
  BY <1>4 DEF RemoveMsg
<1> QED
  BY <1>1, <1>5, <1>6

LEMMA PrefillAborted ==
    ASSUME DraftInv, NEW u \in Uid, AbortPrefill(u)
    PROVE  DraftInv'
<1>1. /\ tpc = "recv" /\ status[u] \in {"pending", "prefill"}
      /\ status' = [status EXCEPT ![u] = "aborted"]
      /\ pend' = Kept(pend, Uid \ {u})
      /\ freeRows' = IF status[u] = "prefill" THEN Append(freeRows, req[u].row) ELSE freeRows
      /\ UNCHANGED <<tpc, req, running, inflight, batch, last, idx, vstate,
                     toDrafter, fromDrafter, dpc, states>>
  BY DEF AbortPrefill, channel, drafter
<1>2. status \in [Uid -> {"new", "pending", "prefill", "running", "finished", "aborted"}]
  BY DEF DraftInv, Types
<1>3. /\ status' \in [Uid -> {"new", "pending", "prefill", "running", "finished", "aborted"}]
      /\ status'[u] = "aborted" /\ \A v \in Uid : v # u => status'[v] = status[v]
  BY <1>1, <1>2
<1>4. /\ pend' \in Seq(Uid) /\ ToSet(pend') = ToSet(pend) \cap (Uid \ {u}) /\ IsInjective(pend')
  <2>1. pend \in Seq(Uid) /\ IsInjective(pend)
    BY DEF DraftInv, Types, Lists
  <2> QED BY <1>1, <2>1, KeptIs DEF IsKept
<1>5. Holders' = Holders \ {u} /\ (status[u] = "prefill" => u \in Holders)
  BY <1>1, <1>3 DEF Holders, Finishing
<1>6. /\ freeRows' \in Seq(Row) /\ IsInjective(freeRows')
      /\ \A r \in ToSet(freeRows') :
            r \in ToSet(freeRows) \/ \E v \in Holders \ Holders' : r = req[v].row
  <2>1. freeRows \in Seq(Row) /\ IsInjective(freeRows)
    BY DEF DraftInv, Types, Lists
  <2>2. CASE status[u] = "prefill"
    <3>1. req[u].row \in Row /\ req[u].row \notin ToSet(freeRows)
      BY <1>5, <2>2 DEF DraftInv, Rows, Numbers
    <3>2. /\ freeRows' \in Seq(Row) /\ IsInjective(freeRows')
          /\ ToSet(freeRows') = ToSet(freeRows) \cup {req[u].row}
      BY <1>1, <2>1, <2>2, <3>1, AppendIs
    <3> QED BY <1>5, <2>2, <3>2
  <2>3. CASE status[u] # "prefill"
    BY <1>1, <2>1, <2>3
  <2> QED BY <2>2, <2>3
<1>7. Types'
  BY <1>1, <1>3, <1>4, <1>6 DEF DraftInv, Types
<1>8. Lists'
  BY <1>1, <1>3, <1>4, <1>6 DEF DraftInv, Lists
<1>9. Rows'
  <2>1. \A v \in Holders' : req'[v] \in Numbers /\ req'[v].row = req[v].row
    BY <1>1, <1>5 DEF DraftInv, Rows
  <2>2. Rows /\ Holders' \subseteq Holders
    BY <1>5 DEF DraftInv
  <2> QED BY <1>6, <2>1, <2>2, RowsGivenUp
<1>10. RoundOf(last)' = RoundOf(last) /\ RoundOf(batch)' = RoundOf(batch)
  BY <1>1, <1>3 DEF RoundOf
<1>11. Prefills'
  BY <1>1, <1>3 DEF DraftInv, Prefills, Types, Batches, ToSet, Flights, NoBatch
<1>12. Flights'
  BY <1>1, <1>3, <1>10 DEF DraftInv, Flights
<1>13. Startup'
  BY <1>1, OnlyStarts DEF Working
<1>14. Mail'
  BY <1>1, <1>3, MailStays
<1>15. Windows'
  <2>1. \A v \in Uid : status'[v] = "running" => status[v] = "running"
    BY <1>3
  <2>2. \A v \in Uid : Carried(v)' = Carried(v)
    BY <1>1 DEF Carried
  <2>3. \A v \in RoundOf(last)' : Met(v)
    BY <1>10 DEF DraftInv, Windows
  <2> QED BY <1>1, <2>1, <2>2, <2>3, AllStay
<1>16. Rounds'
  BY <1>1 DEF DraftInv, Rounds
<1> QED
  BY <1>7, <1>8, <1>9, <1>11, <1>12, <1>13, <1>14, <1>15, <1>16 DEF DraftInv

LEMMA RunAborted ==
    ASSUME DraftInv, NEW u \in Uid, AbortRunning(u)
    PROVE  DraftInv'
<1>1. /\ tpc = "recv" /\ status[u] = "running"
      /\ status' = [status EXCEPT ![u] = "aborted"]
      /\ running' = Kept(running, Uid \ {u})
      /\ inflight' = <<inflight[1], inflight[2] \ {u}>>
      /\ vstate' = [vstate EXCEPT ![req[u].row] = NoState]
      /\ freeRows' = Append(freeRows, req[u].row)
      /\ SendRemoves(<<u>>)
      /\ UNCHANGED <<tpc, req, pend, batch, last, idx, dpc, states>>
  BY DEF AbortRunning, drafter
<1>2. status \in [Uid -> {"new", "pending", "prefill", "running", "finished", "aborted"}]
  BY DEF DraftInv, Types
<1>3. /\ status' \in [Uid -> {"new", "pending", "prefill", "running", "finished", "aborted"}]
      /\ status'[u] = "aborted" /\ \A v \in Uid : v # u => status'[v] = status[v]
  BY <1>1, <1>2
<1>4. /\ running' \in Seq(Uid) /\ ToSet(running') = ToSet(running) \cap (Uid \ {u}) /\ IsInjective(running')
  <2>1. running \in Seq(Uid) /\ IsInjective(running)
    BY DEF DraftInv, Types, Lists
  <2> QED BY <1>1, <2>1, KeptIs DEF IsKept
<1>5. Holders' = Holders \ {u} /\ u \in Holders
  BY <1>1, <1>3 DEF Holders, Finishing
<1>6. /\ freeRows' \in Seq(Row) /\ IsInjective(freeRows')
      /\ ToSet(freeRows') = ToSet(freeRows) \cup {req[u].row}
  <2>1. freeRows \in Seq(Row) /\ IsInjective(freeRows)
    BY DEF DraftInv, Types, Lists
  <2>2. req[u].row \in Row /\ req[u].row \notin ToSet(freeRows)
    BY <1>5 DEF DraftInv, Rows, Numbers
  <2> QED BY <1>1, <2>1, <2>2, AppendIs
<1>7. /\ toDrafter' \in Seq(ToSet(toDrafter')) /\ ToSet(toDrafter) \subseteq ToSet(toDrafter')
      /\ \A m \in ToSet(toDrafter') \ ToSet(toDrafter) : m.type = "remove" /\ m.uid = u
      /\ fromDrafter' = fromDrafter
  <2>1. PICK us : us = <<u>>
    OBVIOUS
  <2>2. us \in Seq(Uid) /\ ToSet(us) = {u}
    BY <2>1 DEF ToSet
  <2> QED BY <1>1, <2>1, <2>2, RemovesSent
<1>8. Types'
  BY <1>1, <1>3, <1>4, <1>6, <1>7 DEF DraftInv, Types
<1>9. Lists'
  BY <1>1, <1>3, <1>4, <1>6 DEF DraftInv, Lists
<1>10. Rows'
  <2>1. \A v \in Holders' : req'[v] \in Numbers /\ req'[v].row = req[v].row
    BY <1>1, <1>5 DEF DraftInv, Rows
  <2>2. Rows /\ Holders' \subseteq Holders
    BY <1>5 DEF DraftInv
  <2>3. \A r \in ToSet(freeRows') :
            r \in ToSet(freeRows) \/ \E v \in Holders \ Holders' : r = req[v].row
    BY <1>5, <1>6
  <2> QED BY <2>1, <2>2, <2>3, RowsGivenUp
<1>11. RoundOf(last)' = RoundOf(last) \ {u} /\ RoundOf(batch)' = RoundOf(batch) \ {u}
  BY <1>1, <1>3 DEF RoundOf
<1>12. Prefills'
  BY <1>1, <1>3 DEF DraftInv, Prefills, Types, Batches, ToSet, Flights, NoBatch
<1>13. Flights'
  BY <1>1, <1>3, <1>11 DEF DraftInv, Flights, NoBatch
<1>14. Startup'
  BY <1>1, OnlyStarts DEF Working
<1>15. Mail'
  BY <1>1, <1>3, <1>7 DEF DraftInv, Mail
<1>16. Windows'
  <2>1. \A v \in Uid : status'[v] = "running" =>
            /\ status[v] = "running" /\ req'[v].cached = req[v].cached
            /\ Carried(v)' = Carried(v) /\ DOMAIN vstate'[req'[v].row] = DOMAIN vstate[req[v].row]
    <3>1. ASSUME NEW v \in Uid, status'[v] = "running"
          PROVE  status[v] = "running" /\ vstate'[req[v].row] = vstate[req[v].row]
      <4>1. v # u /\ status[v] = "running" /\ v \in Holders
        BY <1>3, <3>1 DEF Holders
      <4>2. req[v].row # req[u].row /\ req[v].row \in Row
        BY <1>5, <4>1 DEF DraftInv, Rows, Numbers
      <4> QED BY <1>1, <4>1, <4>2 DEF DraftInv, Types
    <3> QED BY <1>1, <3>1 DEF Carried
  <2>2. \A v \in RoundOf(last)' : Met(v)
    BY <1>11 DEF DraftInv, Windows
  <2>3. \A m \in ToSet(toDrafter') \ ToSet(toDrafter) : m.type # "init"
    BY <1>7
  <2> QED BY <1>1, <1>7, <2>1, <2>2, <2>3, AllStay
<1>17. Rounds'
  BY <1>1, <1>7 DEF DraftInv, Rounds
<1> QED
  BY <1>8, <1>9, <1>10, <1>12, <1>13, <1>14, <1>15, <1>16, <1>17 DEF DraftInv


(* When the results of a batch are about to be read, none was.              *)
LEMMA NoneFinishing ==
    ASSUME DraftInv, tpc \in {"recv", "step"}, tpc' = "process", status' = status, last' = last,
           \A u \in Uid : (req'[u] \in Numbers /\ req'[u].row = req[u].row) \/ u \notin Holders,
           freeRows' = freeRows
    PROVE  Holders' = Holders /\ Finishing = {} /\ Rows'
<1>1. Finishing = {} /\ Finishing' = {}
  BY DEF DraftInv, Prefills, Finishing
<1>2. Holders' = Holders /\ Holders \subseteq Uid
  BY <1>1 DEF Holders
<1>3. Rows
  BY DEF DraftInv
<1> QED
  BY <1>1, <1>2, <1>3 DEF Rows

LEMMA NothingScheduled ==
    ASSUME DraftInv, ScheduleNothing
    PROVE  DraftInv'
<1>1. /\ tpc = "recv" /\ tpc' = "process" /\ batch' = NoBatch /\ idx' = 0
      /\ UNCHANGED <<status, req, pend, freeRows, running, last, vstate,
                     toDrafter, fromDrafter, dpc, states>>
  BY DEF ScheduleNothing, channel, drafter
<1>2. /\ NoBatch \in Batches /\ IsInjective(NoBatch.uids) /\ NoBatch.phase = "none"
      /\ NoBatch.uids = <<>>
  BY DEF NoBatch, Batches, IsInjective
<1>3. Types'
  BY <1>1, <1>2 DEF DraftInv, Types, Working
<1>4. Lists'
  BY <1>1, <1>2 DEF DraftInv, Lists
<1>5. Rows'
  <2>1. \A u \in Uid : (req'[u] \in Numbers /\ req'[u].row = req[u].row) \/ u \notin Holders
    BY <1>1 DEF DraftInv, Rows
  <2> QED BY <1>1, <2>1, NoneFinishing
<1>6. RoundOf(last)' = RoundOf(last) /\ RoundOf(batch)' = {}
  BY <1>1, <1>2 DEF RoundOf
<1>7. Prefills'
  BY <1>1, <1>2 DEF DraftInv, Prefills
<1>8. Flights'
  <2>1. RoundOf(batch) = {}
    BY <1>1, <1>2 DEF DraftInv, Flights, RoundOf
  <2> QED BY <1>1, <1>2, <1>6, <2>1 DEF DraftInv, Flights
<1>9. Startup'
  BY <1>1, OnlyStarts DEF Working
<1>10. Mail'
  BY <1>1, MailStays
<1>11. Windows'
  <2>1. \A v \in Uid : Carried(v)' = Carried(v)
    BY <1>1 DEF Carried
  <2>2. \A v \in RoundOf(last)' : Met(v)
    BY <1>6 DEF DraftInv, Windows
  <2> QED BY <1>1, <1>6, <2>1, <2>2, AllStay
<1>12. Rounds'
  BY <1>1, <1>6 DEF DraftInv, Rounds
<1> QED
  BY <1>3, <1>4, <1>5, <1>7, <1>8, <1>9, <1>10, <1>11, <1>12 DEF DraftInv

LEMMA PrefillSkipped ==
    ASSUME DraftInv, SkipPrefill
    PROVE  DraftInv'
<1>1. /\ tpc = "process" /\ idx' = idx + 1
      /\ UNCHANGED <<tpc, status, req, pend, freeRows, running, inflight, batch, last, vstate,
                     toDrafter, fromDrafter, dpc, states>>
  BY DEF SkipPrefill, channel, drafter
<1>2. Types'
  BY <1>1 DEF DraftInv, Types
<1>3. Lists' /\ Prefills'
  BY <1>1 DEF DraftInv, Lists, Prefills
<1>4. Rows'
  BY <1>1 DEF DraftInv, Rows, Holders, Finishing
<1>5. Flights'
  BY <1>1 DEF DraftInv, Flights, RoundOf
<1>6. Startup' /\ Mail'
  BY <1>1 DEF DraftInv, Startup, Mail
<1>7. Windows'
  BY <1>1 DEF DraftInv, Windows, Known, Met, Carried, RoundOf
<1>8. Rounds'
  BY <1>1 DEF DraftInv, Rounds, RoundOf, Continues
<1> QED
  BY <1>2, <1>3, <1>4, <1>5, <1>6, <1>7, <1>8 DEF DraftInv

LEMMA DraftsReceived ==
    ASSUME DraftInv, RecvDrafts
    PROVE  DraftInv'
<1>1. PICK reply :
        /\ tpc = "step" /\ fromDrafter # <<>> /\ reply = Head(fromDrafter).drafts
        /\ vstate' = [r \in Row |->
             LET mine == {u \in ToSet(batch.uids) : req[u].row = r} IN
             IF mine = {} THEN vstate[r]
             ELSE [vstate[r] EXCEPT !.drafts = reply[CHOOSE u \in mine : TRUE]]]
        /\ fromDrafter' = Tail(fromDrafter)
        /\ tpc' = "process" /\ idx' = 0
        /\ UNCHANGED <<status, req, pend, freeRows, running, inflight, batch, last,
                       toDrafter, dpc, states>>
  BY DEF RecvDrafts, drafter
<1>2. Answered
  BY <1>1 DEF DraftInv, Rounds, Asked
<1>3. /\ batch.phase = "verify" /\ RoundOf(batch) = ToSet(batch.uids)
      /\ \A u \in ToSet(batch.uids) : u \in Uid /\ status[u] = "running" /\ u \in Holders
  <2>1. \A u \in ToSet(batch.uids) : u \in Uid /\ status[u] = "running"
    BY <1>1 DEF DraftInv, Flights, Types, Batches, ToSet
  <2> QED BY <1>1, <2>1 DEF DraftInv, Flights, RoundOf, Holders
<1>4. fromDrafter' = <<>> /\ fromDrafter' \in Seq(ToSet(fromDrafter'))
  <2>1. IsTail(fromDrafter', fromDrafter)
    BY <1>1, QueueTail DEF DraftInv, Types
  <2>2. Len(fromDrafter') = 0 /\ fromDrafter' \in Seq(ToSet(fromDrafter'))
    BY <1>2, <2>1 DEF IsTail, Answered
  <2> QED BY <2>2, EmptySeq
<1>5. ASSUME NEW u \in Uid, status[u] = "running"
      PROVE  /\ DOMAIN vstate'[req[u].row] = DOMAIN vstate[req[u].row]
             /\ vstate'[req[u].row].pos = vstate[req[u].row].pos
             /\ u \in ToSet(batch.uids) => vstate'[req[u].row].drafts = reply[u]
  <2>1. u \in Holders /\ req[u].row \in Row
    BY <1>5 DEF DraftInv, Rows, Holders, Numbers
  <2>2. PICK r, mine : r = req[u].row /\ mine = {v \in ToSet(batch.uids) : req[v].row = r}
    OBVIOUS
  <2>3. vstate'[r] = IF mine = {} THEN vstate[r]
                     ELSE [vstate[r] EXCEPT !.drafts = reply[CHOOSE v \in mine : TRUE]]
    BY <1>1, <2>1, <2>2
  <2>4. mine \subseteq {u} /\ (u \in ToSet(batch.uids) => mine = {u})
    BY <1>3, <2>1, <2>2 DEF DraftInv, Rows
  <2>5. DOMAIN vstate[r] = {"pos", "hid", "drafts"}
    BY <1>5, <2>2 DEF DraftInv, Windows, Known
  <2>6. CASE mine = {}
    BY <2>2, <2>3, <2>4, <2>6
  <2>7. CASE mine # {}
    <3>1. mine = {u} /\ (CHOOSE v \in mine : TRUE) = u
      BY <2>4, <2>7
    <3>2. vstate'[r] = [vstate[r] EXCEPT !.drafts = reply[u]]
      BY <2>3, <3>1
    <3> QED BY <2>2, <2>5, <3>2
  <2> QED BY <2>6, <2>7
<1>6. Types'
  BY <1>1, <1>4 DEF DraftInv, Types, Working
<1>7. Lists' /\ Prefills'
  BY <1>1, <1>3 DEF DraftInv, Lists, Prefills
<1>8. Rows'
  <2>1. \A u \in Uid : (req'[u] \in Numbers /\ req'[u].row = req[u].row) \/ u \notin Holders
    BY <1>1 DEF DraftInv, Rows
  <2> QED BY <1>1, <2>1, NoneFinishing
<1>9. RoundOf(last)' = RoundOf(last) /\ RoundOf(batch)' = RoundOf(batch)
  BY <1>1 DEF RoundOf
<1>10. Flights'
  BY <1>1, <1>9 DEF DraftInv, Flights
<1>11. Startup'
  BY <1>1, OnlyStarts DEF Working
<1>12. Mail'
  BY <1>1, MailStays
<1>13. Windows'
  <2>1. \A u \in RoundOf(last)' : Met(u)
    BY <1>9 DEF DraftInv, Windows
  <2>2. \A u \in RoundOf(batch)' : Met(u)
    <3>1. ToSet(toDrafter) = {}
      BY <1>2 DEF Answered, ToSet
    <3> QED BY <1>2, <1>3, <1>9, <3>1 DEF Answered, Met
  <2> QED BY <1>1, <1>5, <2>1, <2>2, AllStay DEF Carried
<1>14. Rounds'
  <2>1. ToSet(toDrafter) = {}
    BY <1>2 DEF Answered, ToSet
  <2>2. \A u \in RoundOf(batch)' : Continues(vstate[req[u].row].drafts, u)'
    <3>1. ASSUME NEW u \in RoundOf(batch)
          PROVE  vstate'[req[u].row].drafts = Positions(req[u].cached + 1, req[u].device - 1)
      <4>1. u \in ToSet(batch.uids)
        BY <1>3, <3>1
      <4>2. vstate'[req[u].row].drafts = reply[u]
        BY <1>3, <1>5, <4>1
      <4>3. reply[u] = Positions(req[u].cached + 1, req[u].device - 1)
        BY <1>1, <1>2, <4>1 DEF Answered, Continues
      <4> QED BY <4>2, <4>3
    <3> QED BY <1>1, <1>9, <3>1 DEF Continues
  <2> QED BY <1>1, <1>4, <2>1, <2>2 DEF Rounds
<1> QED
  BY <1>6, <1>7, <1>8, <1>10, <1>11, <1>12, <1>13, <1>14 DEF DraftInv


(* The requests of a round are running and none of them is in flight.       *)
LEMMA CandidatesAre ==
    ASSUME DraftInv
    PROVE  /\ Candidates \in Seq(Uid) /\ IsInjective(Candidates)
           /\ ToSet(Candidates) \subseteq ToSet(running) \ inflight[2]
<1> DEFINE idle == Kept(running, Uid \ inflight[2])
           n    == Lesser(Len(idle), (TokenBudget + K - 1) \div K)
<1>1. /\ idle \in Seq(Uid) /\ ToSet(idle) = ToSet(running) \cap (Uid \ inflight[2])
      /\ IsInjective(idle)
  <2>1. running \in Seq(Uid) /\ IsInjective(running)
    BY DEF DraftInv, Types, Lists
  <2> QED BY <2>1, KeptIs DEF IsKept
<1>2. Candidates = SubSeq(idle, 1, n)
  BY DEF Candidates
<1>3. n \in 0 .. Len(idle)
  <2>1. PICK b, m : b = TokenBudget + K - 1 /\ m = Len(idle)
    OBVIOUS
  <2>2. K \in Nat \ {0} /\ b \in Nat /\ m \in Nat
    <3>1. K \in Nat \ {0} /\ TokenBudget \in Nat
      BY SizesAssumption
    <3>2. m \in Nat
      BY <1>1, <2>1, LenProperties
    <3> QED BY <2>1, <3>1, <3>2
  <2>3. b \div K \in Nat
    BY <2>2
  <2>4. Lesser(m, b \div K) \in 0 .. m
    BY <2>2, <2>3 DEF Lesser
  <2> QED BY <2>1, <2>4
<1> HIDE DEF idle, n
<1>4. /\ SubSeq(idle, 1, n) \in Seq(Uid) /\ IsInjective(SubSeq(idle, 1, n))
      /\ ToSet(idle) = ToSet(SubSeq(idle, 1, n)) \cup ToSet(SubSeq(idle, n + 1, Len(idle)))
  BY <1>1, <1>3, SplitIs
<1> QED
  BY <1>1, <1>2, <1>4

LEMMA RoundScheduled ==
    ASSUME DraftInv, ScheduleVerify
    PROVE  DraftInv'
<1>1. PICK us, msg :
        /\ us = Candidates /\ msg = StepMsg(us)
        /\ tpc = "recv" /\ tpc' = "step"
        /\ inflight' = <<inflight[2], ToSet(us)>>
        /\ batch' = [phase |-> "verify", uids |-> us]
        /\ req' = [u \in Uid |-> IF u \in ToSet(us)
                                 THEN [req[u] EXCEPT !.device = @ + Drafts(u)]
                                 ELSE req[u]]
        /\ toDrafter' = Append(toDrafter, msg)
        /\ UNCHANGED <<status, pend, freeRows, running, last, idx, vstate, fromDrafter, dpc, states>>
  BY DEF ScheduleVerify, Send, drafter
<1>2. /\ us \in Seq(Uid) /\ IsInjective(us) /\ ToSet(us) \subseteq Uid
      /\ \A u \in ToSet(us) : status[u] = "running" /\ u \in ToSet(running) \ inflight[2]
  BY <1>1, CandidatesAre DEF DraftInv, Lists
<1>3. RoundOf(batch) = {} /\ RoundOf(last) \subseteq inflight[2]
  BY <1>1 DEF DraftInv, Flights, RoundOf, NoBatch
<1>4. ASSUME NEW u \in ToSet(us)
      PROVE  /\ req[u] \in Numbers /\ req[u].device = req[u].cached + 1
             /\ Drafts(u) \in Nat
             /\ req'[u] = [req[u] EXCEPT !.device = @ + Drafts(u)]
  <2>1. u \in Uid /\ status[u] = "running" /\ u \in Holders
    BY <1>2 DEF Holders
  <2>2. req[u] \in Numbers
    BY <2>1 DEF DraftInv, Rows
  <2>3. u \notin RoundOf(last) \cup RoundOf(batch)
    BY <1>2, <1>3
  <2>4. req[u].device = req[u].cached + 1
    BY <2>1, <2>3 DEF DraftInv, Flights
  <2>5. Drafts(u) \in Nat
    <3>1. PICK r : r = RemainLen(u)
      OBVIOUS
    <3>2. r \in Int
      BY <2>1, <2>2, <3>1, RequestsAssumption DEF RemainLen, MaxDeviceLen, Numbers
    <3>3. K \in Nat
      BY SizesAssumption
    <3> QED BY <3>1, <3>2, <3>3 DEF Drafts, Lesser
  <2> QED BY <1>1, <2>1, <2>2, <2>4, <2>5
<1>5. \A u \in ToSet(us) :
        /\ req'[u] \in Numbers /\ req'[u].row = req[u].row /\ req'[u].cached = req[u].cached
        /\ req'[u].device = req[u].cached + 1 + Drafts(u)
  <2> TAKE u \in ToSet(us)
  <2>1. PICK q, d : q = req[u] /\ d = Drafts(u)
    OBVIOUS
  <2>2. /\ q \in [row : Row, cached : Nat, device : Nat] /\ q.device = q.cached + 1 /\ d \in Nat
        /\ req'[u] = [q EXCEPT !.device = @ + d]
    BY <1>4, <2>1 DEF Numbers
  <2>3. /\ req'[u] \in [row : Row, cached : Nat, device : Nat]
        /\ req'[u].row = q.row /\ req'[u].cached = q.cached /\ req'[u].device = q.cached + 1 + d
    BY <2>2
  <2> QED BY <2>1, <2>3 DEF Numbers
<1>6. \A u \in Uid \ ToSet(us) : req'[u] = req[u]
  BY <1>1
<1>7. \A u \in Holders : req'[u] \in Numbers /\ req'[u].row = req[u].row /\ req'[u].cached = req[u].cached
  <2>1. Holders \subseteq Uid
    BY DEF Holders, Finishing, DraftInv, Types, Batches, ToSet
  <2> QED BY <1>5, <1>6, <2>1 DEF DraftInv, Rows
<1>8. /\ toDrafter' \in Seq(ToSet(toDrafter'))
      /\ ToSet(toDrafter') = ToSet(toDrafter) \cup {msg}
      /\ Len(toDrafter') = Len(toDrafter) + 1 /\ toDrafter'[Len(toDrafter) + 1] = msg
      /\ \A i \in 1 .. Len(toDrafter) : toDrafter'[i] = toDrafter[i]
  <2>1. toDrafter \in Seq(ToSet(toDrafter))
    BY DEF DraftInv, Types
  <2>2. PICK q, r : q = toDrafter /\ r = toDrafter'
    OBVIOUS
  <2>3. q \in Seq(ToSet(q)) /\ r = Append(q, msg)
    BY <1>1, <2>1, <2>2
  <2>4. r \in Seq(ToSet(r)) /\ ToSet(r) = ToSet(q) \cup {msg}
    BY <2>3, QueueAppend
  <2>5. /\ Len(r) = Len(q) + 1 /\ r[Len(q) + 1] = msg
        /\ \A i \in 1 .. Len(q) : r[i] = q[i]
    BY <2>3, AppendProperties
  <2> QED BY <2>2, <2>4, <2>5
<1>9. msg.type = "step" /\ msg.reqs = [i \in DOMAIN us |-> StepReq(us[i])]
  BY <1>1 DEF StepMsg
<1>10. batch' \in Batches /\ batch'.phase = "verify" /\ batch'.uids = us
  BY <1>1, <1>2 DEF Batches
<1>11. Types'
  BY <1>1, <1>8, <1>10 DEF DraftInv, Types, Working
<1>12. Lists'
  BY <1>1, <1>2, <1>10 DEF DraftInv, Lists
<1>13. RoundOf(last)' = RoundOf(last) /\ RoundOf(batch)' = ToSet(us)
  BY <1>1, <1>2, <1>10 DEF RoundOf
<1>14. Rows'
  <2>1. Holders' = Holders
    BY <1>1 DEF Holders, Finishing
  <2>2. Rows
    BY DEF DraftInv
  <2> QED BY <1>1, <1>7, <2>1, <2>2, RowsGivenUp
<1>15. Prefills'
  BY <1>1, <1>10 DEF DraftInv, Prefills
<1>16. Flights'
  <2>1. RoundOf(batch)' \subseteq inflight'[2]
    BY <1>1, <1>13
  <2>2. \A u \in Uid : status[u] = "prefill" =>
          req'[u].cached = PromptLen[u] /\ req'[u].device = PromptLen[u]
    BY <1>2, <1>6 DEF DraftInv, Flights
  <2>3. ASSUME NEW u \in Uid, status[u] = "running"
        PROVE  /\ req'[u].cached < req'[u].device
               /\ u \notin ToSet(us) => req'[u] = req[u]
    <3>1. CASE u \in ToSet(us)
      <4>1. PICK c, d : c = req[u].cached /\ d = Drafts(u)
        OBVIOUS
      <4>2. /\ c \in Nat /\ d \in Nat /\ req'[u].cached = c /\ req'[u].device = c + 1 + d
        BY <1>4, <1>5, <3>1, <4>1 DEF Numbers
      <4> QED BY <3>1, <4>2
    <3>2. CASE u \notin ToSet(us)
      BY <1>6, <2>3, <3>2 DEF DraftInv, Flights
    <3> QED BY <3>1, <3>2
  <2>4. \A u \in Uid : status[u] = "running" =>
          (u \notin RoundOf(last)' \cup RoundOf(batch)' => req'[u].device = req'[u].cached + 1)
    BY <1>3, <1>13, <2>3 DEF DraftInv, Flights
  <2> QED BY <1>1, <1>2, <1>10, <2>1, <2>2, <2>3, <2>4 DEF Flights
<1>17. Startup'
  BY <1>1, OnlyStarts DEF Working
<1>18. Mail'
  BY <1>1, <1>8, <1>9 DEF DraftInv, Mail
<1>19. \A u \in Uid : status[u] = "running" =>
          req'[u].cached = req[u].cached /\ req'[u].row = req[u].row
  BY <1>7 DEF Holders
<1>20. Windows'
  <2>1. \A v \in Uid : status'[v] = "running" =>
            /\ status[v] = "running" /\ req'[v].cached = req[v].cached
            /\ Carried(v)' = Carried(v) /\ DOMAIN vstate'[req'[v].row] = DOMAIN vstate[req[v].row]
    BY <1>1, <1>19 DEF Carried
  <2>2. \A v \in RoundOf(last)' : Met(v)
    BY <1>13 DEF DraftInv, Windows
  <2>3. /\ ToSet(toDrafter) \subseteq ToSet(toDrafter')
        /\ \A m \in ToSet(toDrafter') \ ToSet(toDrafter) : m.type # "init"
    BY <1>8, <1>9
  <2> QED BY <1>1, <2>1, <2>2, <2>3, AllStay
<1>21. Rounds'
  <2>1. \A m \in ToSet(toDrafter) : m.type \in {"init", "remove"}
    BY <1>1 DEF DraftInv, Rounds
  <2>2. PICK n : n = Len(toDrafter) + 1 /\ n \in Nat /\ n > 0 /\ n = Len(toDrafter')
    <3>1. Len(toDrafter) \in Nat
      BY LenProperties DEF DraftInv, Types
    <3> QED BY <1>8, <3>1
  <2>3. \A i \in 1 .. n : toDrafter'[i].type = "step" => i = n
    <3> SUFFICES ASSUME NEW i \in 1 .. n, i # n PROVE toDrafter'[i].type # "step"
      OBVIOUS
    <3>1. i \in 1 .. Len(toDrafter) /\ DOMAIN toDrafter = 1 .. Len(toDrafter)
      BY <2>2 DEF DraftInv, Types
    <3>2. toDrafter[i] \in ToSet(toDrafter)
      BY <3>1 DEF ToSet
    <3> QED BY <1>8, <2>1, <3>1, <3>2
  <2>4. \A i \in DOMAIN us : IsRequestOf(msg.reqs[i], us[i])'
    <3> SUFFICES ASSUME NEW i \in DOMAIN us PROVE IsRequestOf(msg.reqs[i], us[i])'
      OBVIOUS
    <3>1. PICK u : u = us[i] /\ u \in ToSet(us)
      BY DEF ToSet
    <3>2. msg.reqs[i] = StepReq(u)
      BY <1>9, <3>1
    <3>3. PICK c, d : c = req[u].cached /\ d = Drafts(u)
      OBVIOUS
    <3>4. /\ c \in Nat /\ d \in Nat /\ req'[u].cached = c /\ req'[u].device = c + 1 + d
          /\ req'[u].row = req[u].row
      BY <1>4, <1>5, <3>1, <3>3 DEF Numbers
    <3>5. d = req'[u].device - 1 - req'[u].cached
      BY <3>4
    <3> QED BY <1>1, <3>1, <3>2, <3>3, <3>4, <3>5 DEF IsRequestOf, StepReq, Carried
  <2>5. fromDrafter' = <<>> /\ toDrafter'[n] = msg
    BY <1>1, <1>8, <2>2 DEF DraftInv, Rounds
  <2>6. Asked'
    BY <1>9, <1>10, <2>2, <2>3, <2>4, <2>5 DEF Asked
  <2>7. \A m \in ToSet(toDrafter') : m.type \in {"init", "remove", "step"}
    BY <1>8, <1>9, <2>1
  <2> QED BY <1>1, <2>6, <2>7 DEF Rounds
<1> QED
  BY <1>11, <1>12, <1>14, <1>15, <1>16, <1>17, <1>18, <1>20, <1>21 DEF DraftInv

LEMMA PrefillScheduled ==
    ASSUME DraftInv, NEW n, SchedulePrefill(n)
    PROVE  DraftInv'
<1> DEFINE us == SubSeq(pend, 1, n)
           at == [u \in ToSet(us) |-> CHOOSE i \in 1 .. n : us[i] = u]
<1>0. /\ us = SubSeq(pend, 1, n)
      /\ at = [u \in ToSet(us) |-> CHOOSE i \in 1 .. n : us[i] = u]
  OBVIOUS
<1>1. /\ tpc = "recv" /\ tpc' = "process" /\ idx' = 0
      /\ n \in 1 .. Lesser(Len(pend), Len(freeRows))
      /\ batch' = [phase |-> "prefill", uids |-> us]
      /\ status' = [u \in Uid |-> IF u \in ToSet(us) THEN "prefill" ELSE status[u]]
      /\ req' = [u \in Uid |->
                   IF u \in ToSet(us)
                   THEN [row |-> freeRows[Len(freeRows) + 1 - at[u]],
                         cached |-> PromptLen[u], device |-> PromptLen[u]]
                   ELSE req[u]]
      /\ freeRows' = SubSeq(freeRows, 1, Len(freeRows) - n)
      /\ pend' = SubSeq(pend, n + 1, Len(pend))
      /\ UNCHANGED <<running, inflight, last, vstate, toDrafter, fromDrafter, dpc, states>>
  BY DEF SchedulePrefill, channel, drafter
<1> HIDE DEF us, at
<1>2. PICK p, f : p = Len(pend) /\ f = Len(freeRows)
  OBVIOUS
<1>3. p \in Nat /\ f \in Nat /\ n \in Nat /\ 1 <= n /\ n <= p /\ n <= f
  <2>1. p \in Nat /\ f \in Nat
    BY <1>2, LenProperties DEF DraftInv, Types
  <2> QED BY <1>1, <1>2, <2>1 DEF Lesser
<1>4. /\ us \in Seq(Uid) /\ Len(us) = n /\ IsInjective(us)
      /\ pend' \in Seq(Uid) /\ IsInjective(pend')
      /\ ToSet(pend) = ToSet(us) \cup ToSet(pend') /\ ToSet(us) \cap ToSet(pend') = {}
  <2>1. pend \in Seq(Uid) /\ IsInjective(pend) /\ n \in 0 .. Len(pend)
    BY <1>2, <1>3 DEF DraftInv, Types, Lists
  <2> QED BY <1>0, <1>1, <2>1, SplitIs
<1>5. \A u \in ToSet(us) : u \in Uid /\ status[u] = "pending"
  BY <1>4 DEF DraftInv, Lists
<1>6. \A u \in ToSet(us) : at[u] \in 1 .. n /\ us[at[u]] = u
  <2> TAKE u \in ToSet(us)
  <2>1. \E i \in 1 .. n : us[i] = u
    <3>1. DOMAIN us = 1 .. n
      BY <1>4
    <3> QED BY <3>1 DEF ToSet
  <2> QED BY <1>0, <2>1
<1>7. /\ freeRows \in Seq(Row) /\ IsInjective(freeRows)
      /\ DOMAIN freeRows = 1 .. f /\ \A i \in 1 .. f : freeRows[i] \in Row
  <2>1. freeRows \in Seq(Row) /\ IsInjective(freeRows)
    BY DEF DraftInv, Types, Lists
  <2> QED BY <1>2, <2>1
<1>8. /\ freeRows' \in Seq(Row) /\ IsInjective(freeRows')
      /\ ToSet(freeRows') = {freeRows[i] : i \in 1 .. f - n}
      /\ ToSet(freeRows') \subseteq ToSet(freeRows)
  <2>1. PICK k, s, g : k = f - n /\ s = freeRows /\ g = freeRows'
    OBVIOUS
  <2>2. k \in 0 .. Len(s) /\ s \in Seq(Row) /\ g = SubSeq(s, 1, k) /\ IsInjective(s)
    BY <1>1, <1>2, <1>3, <1>7, <2>1
  <2>3. /\ SubSeq(s, 1, k) \in Seq(Row) /\ ToSet(SubSeq(s, 1, k)) = {s[i] : i \in 1 .. k}
        /\ ToSet(s) = ToSet(SubSeq(s, 1, k)) \cup ToSet(SubSeq(s, k + 1, Len(s)))
    BY <2>2, SplitIs
  <2>4. IsInjective(SubSeq(s, 1, k))
    BY <2>2, SplitIs
  <2> QED BY <2>1, <2>2, <2>3, <2>4
<1>9. ASSUME NEW u \in ToSet(us)
      PROVE  /\ req'[u] \in Numbers /\ req'[u].row = freeRows[f + 1 - at[u]]
             /\ f + 1 - at[u] \in 1 .. f /\ f + 1 - at[u] > f - n
             /\ req'[u].cached = PromptLen[u] /\ req'[u].device = PromptLen[u]
  <2>1. PICK a : a = at[u] /\ a \in 1 .. n
    BY <1>6
  <2>2. f + 1 - a \in 1 .. f /\ f + 1 - a > f - n
    BY <1>3, <2>1
  <2>3. PromptLen[u] \in Nat
    BY <1>5, RequestsAssumption
  <2>4. req'[u] = [row |-> freeRows[f + 1 - a], cached |-> PromptLen[u], device |-> PromptLen[u]]
    BY <1>1, <1>2, <1>5, <2>1
  <2> QED BY <1>7, <2>1, <2>2, <2>3, <2>4 DEF Numbers
<1>10. \A u \in Uid \ ToSet(us) : req'[u] = req[u] /\ status'[u] = status[u]
  BY <1>1
<1>11. \A u \in ToSet(us) : status'[u] = "prefill"
  BY <1>1, <1>5
<1>12. /\ batch' \in Batches /\ batch'.phase = "prefill" /\ batch'.uids = us
  BY <1>1, <1>4 DEF Batches
<1>13. /\ DOMAIN req' = Uid
       /\ status' \in [Uid -> {"new", "pending", "prefill", "running", "finished", "aborted"}]
  BY <1>1 DEF DraftInv, Types
<1>14. Types'
  BY <1>1, <1>4, <1>8, <1>12, <1>13 DEF DraftInv, Types, Working
<1>15. Lists'
  <2>1. ToSet(pend') = {u \in Uid : status'[u] = "pending"}
    BY <1>4, <1>10, <1>11 DEF DraftInv, Lists
  <2>2. ToSet(running') = {u \in Uid : status'[u] = "running"}
    BY <1>1, <1>5, <1>10, <1>11 DEF DraftInv, Lists
  <2> QED BY <1>1, <1>4, <1>8, <1>12, <2>1, <2>2 DEF DraftInv, Lists
<1>16. Finishing = {} /\ Finishing' = {}
  <2>1. \A u \in ToSet(last.uids) : u \in Uid
    BY DEF DraftInv, Types, Batches, ToSet
  <2> QED BY <1>1, <1>10, <1>11, <2>1 DEF DraftInv, Prefills, Finishing
<1>17. Holders' = Holders \cup ToSet(us) /\ Holders \cap ToSet(us) = {} /\ Holders \subseteq Uid
  BY <1>5, <1>10, <1>11, <1>16 DEF Holders
<1>18. Rows'
  <2>1. \A u \in Holders : /\ req'[u] = req[u] /\ req[u] \in Numbers
                           /\ req[u].row \notin ToSet(freeRows)
    BY <1>10, <1>17 DEF DraftInv, Rows
  <2>2. \A u \in ToSet(us) : req'[u].row \in ToSet(freeRows)
    BY <1>7, <1>9 DEF ToSet
  <2>3. \A u \in ToSet(us) : req'[u].row \notin ToSet(freeRows')
    <3> SUFFICES ASSUME NEW u \in ToSet(us), NEW i \in 1 .. f - n,
                        freeRows[f + 1 - at[u]] = freeRows[i]
                 PROVE  FALSE
      BY <1>8, <1>9
    <3>1. i \in 1 .. f
      BY <1>3
    <3>2. f + 1 - at[u] = i
      BY <1>7, <1>9, <3>1 DEF IsInjective
    <3> QED BY <1>3, <1>9, <3>2
  <2>4. \A u, v \in ToSet(us) : req'[u].row = req'[v].row => u = v
    <3> SUFFICES ASSUME NEW u \in ToSet(us), NEW v \in ToSet(us),
                        freeRows[f + 1 - at[u]] = freeRows[f + 1 - at[v]]
                 PROVE  u = v
      BY <1>9
    <3>1. f + 1 - at[u] = f + 1 - at[v]
      BY <1>7, <1>9 DEF IsInjective
    <3>2. at[u] \in Int /\ at[v] \in Int
      BY <1>6
    <3>3. at[u] = at[v]
      BY <1>3, <3>1, <3>2
    <3> QED BY <1>6, <3>3
  <2>5. \A u \in Holders' : req'[u] \in Numbers /\ req'[u].row \notin ToSet(freeRows')
    BY <1>8, <1>9, <1>17, <2>1, <2>3
  <2>6. \A u, v \in Holders' : req'[u].row = req'[v].row => u = v
    BY <1>17, <2>1, <2>2, <2>4 DEF DraftInv, Rows
  <2> QED BY <2>5, <2>6 DEF Rows
<1>19. Prefills'
  <2>1. last.phase = "prefill" => ToSet(last.uids) \cap ToSet(us) = {}
    BY <1>1, <1>5 DEF DraftInv, Prefills
  <2> QED BY <1>1, <1>11, <1>12, <2>1 DEF Prefills
<1>20. RoundOf(last)' = RoundOf(last) /\ RoundOf(batch)' = {} /\ RoundOf(batch) = {}
  <2>1. RoundOf(batch) = {}
    BY <1>1 DEF DraftInv, Flights, RoundOf, NoBatch
  <2>2. RoundOf(last)' = RoundOf(last)
    BY <1>1, <1>5, <1>10, <1>11 DEF RoundOf
  <2> QED BY <1>12, <2>1, <2>2 DEF RoundOf
<1>21. Flights'
  <2>1. \A u \in Uid : status'[u] = "prefill" =>
           req'[u].cached = PromptLen[u] /\ req'[u].device = PromptLen[u]
    BY <1>9, <1>10 DEF DraftInv, Flights
  <2>2. \A u \in Uid : status'[u] = "running" => status[u] = "running" /\ req'[u] = req[u]
    BY <1>10, <1>11
  <2> QED BY <1>1, <1>20, <2>1, <2>2 DEF DraftInv, Flights
<1>22. Startup'
  BY <1>1, OnlyStarts DEF Working
<1>23. Mail'
  <2>1. \A u \in Uid : status[u] \in {"running", "finished", "aborted"} => status'[u] = status[u]
    BY <1>5, <1>10
  <2> QED BY <1>1, <2>1, MailStays
<1>24. Windows'
  <2>1. \A v \in Uid : status'[v] = "running" =>
            /\ status[v] = "running" /\ req'[v].cached = req[v].cached
            /\ Carried(v)' = Carried(v) /\ DOMAIN vstate'[req'[v].row] = DOMAIN vstate[req[v].row]
    BY <1>1, <1>10, <1>11 DEF Carried
  <2>2. \A v \in RoundOf(last)' : Met(v)
    BY <1>20 DEF DraftInv, Windows
  <2> QED BY <1>1, <1>20, <2>1, <2>2, AllStay
<1>25. Rounds'
  BY <1>1, <1>20 DEF DraftInv, Rounds
<1> QED
  BY <1>14, <1>15, <1>18, <1>19, <1>21, <1>22, <1>23, <1>24, <1>25 DEF DraftInv


LEMMA PositionsEnd ==
    ASSUME NEW lo \in Int, NEW hi \in Int, lo <= hi
    PROVE  /\ Ends(Positions(lo, hi), hi) /\ Positions(lo, hi) \in Seq(Int)
           /\ Positions(lo, hi) # <<>> /\ Len(Positions(lo, hi)) = hi - lo + 1
<1>1. PICK n, s : n = hi - lo + 1 /\ s = Positions(lo, hi)
  OBVIOUS
<1>2. n \in Nat /\ n \in 1 .. n /\ lo + n - 1 = hi
  BY <1>1
<1>3. s = [i \in 1 .. n |-> lo + i - 1]
  BY <1>1 DEF Positions
<1>4. \A i \in 1 .. n : lo + i - 1 \in Int
  BY <1>2
<1>5. s \in Seq(Int) /\ Len(s) = n
  <2>1. s \in Seq(Int)
    BY <1>2, <1>3, <1>4, IsASeq
  <2> QED BY <1>2, <1>3, <2>1
<1>6. s[Len(s)] = hi
  BY <1>2, <1>3, <1>5
<1>7. s # <<>>
  BY <1>2, <1>5
<1> QED
  BY <1>1, <1>5, <1>6, <1>7 DEF Ends

(* What reading the result of a prompt changes in any case.                 *)
PromptRead(u) ==
    /\ tpc = "process" /\ last.phase = "prefill" /\ u \in ToSet(last.uids)
    /\ status[u] = "prefill"
    /\ req' = [req EXCEPT ![u].device = @ + 1]
    /\ idx' = idx + 1
    /\ UNCHANGED <<tpc, pend, freeRows, inflight, batch, last, dpc, states>>

(* It goes on, or it ends with its first token.                             *)
PromptGoesOn(u) ==
    /\ status' = [status EXCEPT ![u] = "running"]
    /\ toDrafter' = Append(toDrafter, InitMsg(u)) /\ fromDrafter' = fromDrafter
    /\ running' = Append(running, u)
    /\ vstate' = [vstate EXCEPT ![req[u].row] =
                    [pos |-> <<>>, hid |-> <<>>, drafts |-> <<>>]]

PromptEnds(u) ==
    /\ status' = [status EXCEPT ![u] = "finished"]
    /\ SendRemoves(<<u>>)
    /\ UNCHANGED <<running, vstate>>

LEMMA PromptCases ==
    ASSUME DraftInv, NEW u, NEW eos, ProcessPrefill(u, eos)
    PROVE  PromptRead(u) /\ (PromptGoesOn(u) \/ PromptEnds(u))
<1>1. u \in ToSet(last.uids)
  <2>1. PICK s, i : s = last.uids /\ i = idx /\ s \in Seq(Uid) /\ i \in Nat /\ i < Len(s) /\ u = s[i + 1]
    BY DEF DraftInv, Types, Batches, ProcessPrefill
  <2>2. i + 1 \in 1 .. Len(s) /\ DOMAIN s = 1 .. Len(s)
    BY <2>1
  <2> QED BY <2>1, <2>2 DEF ToSet
<1>2. PromptRead(u)
  BY <1>1 DEF ProcessPrefill, PromptRead, drafter
<1>3. PromptGoesOn(u) \/ PromptEnds(u)
  BY DEF ProcessPrefill, PromptGoesOn, PromptEnds, Send
<1> QED
  BY <1>2, <1>3

LEMMA PromptReadKeeps ==
    ASSUME DraftInv, NEW u \in Uid, PromptRead(u), NEW x \in {"running", "finished"},
           status' = [status EXCEPT ![u] = x]
    PROVE  /\ status' \in [Uid -> {"new", "pending", "prefill", "running", "finished", "aborted"}]
           /\ status'[u] = x /\ \A v \in Uid : v # u => status'[v] = status[v]
           /\ req[u] \in Numbers /\ req[u].cached = PromptLen[u] /\ req[u].device = PromptLen[u]
           /\ req'[u] \in Numbers /\ req'[u].row = req[u].row
           /\ req'[u].cached = PromptLen[u] /\ req'[u].device = PromptLen[u] + 1
           /\ \A v \in Uid : v # u => req'[v] = req[v]
           /\ DOMAIN req' = Uid /\ PromptLen[u] \in Nat
           /\ RoundOf(last)' = {} /\ RoundOf(batch)' = RoundOf(batch) /\ u \notin RoundOf(batch)
           /\ Rows' /\ Prefills' /\ Startup'
           /\ \A v \in Uid : status[v] = "running" => v # u /\ req[v].row # req[u].row
<1>1. status \in [Uid -> {"new", "pending", "prefill", "running", "finished", "aborted"}]
      /\ status[u] = "prefill" /\ DOMAIN req = Uid /\ u \in Holders
  BY DEF DraftInv, Types, PromptRead, Holders
<1>2. /\ status' \in [Uid -> {"new", "pending", "prefill", "running", "finished", "aborted"}]
      /\ status'[u] = x /\ \A v \in Uid : v # u => status'[v] = status[v]
  BY <1>1
<1>3. PICK q : q = req[u] /\ q \in [row : Row, cached : Nat, device : Nat]
               /\ q.cached = PromptLen[u] /\ q.device = PromptLen[u]
  BY <1>1 DEF DraftInv, Rows, Numbers, Flights
<1>4. req'[u] = [q EXCEPT !.device = @ + 1] /\ \A v \in Uid : v # u => req'[v] = req[v]
  BY <1>1, <1>3 DEF PromptRead
<1>5. /\ req'[u] \in [row : Row, cached : Nat, device : Nat] /\ req'[u].row = q.row
      /\ req'[u].cached = PromptLen[u] /\ req'[u].device = PromptLen[u] + 1
  BY <1>3, <1>4
<1>6. DOMAIN req' = Uid /\ PromptLen[u] \in Nat
  BY <1>1, <1>3 DEF PromptRead
<1>7. Holders' = Holders /\ Holders \subseteq Uid
  <2>1. ToSet(last.uids) \subseteq Uid
    BY DEF DraftInv, Types, Batches, ToSet
  <2>2. Finishing \subseteq Uid /\ Finishing' = Finishing \cup (IF x = "finished" THEN {u} ELSE {})
    BY <1>1, <1>2, <2>1 DEF Finishing, PromptRead
  <2> QED BY <1>1, <1>2, <2>2 DEF Holders
<1>8. Rows'
  <2>1. Rows
    BY DEF DraftInv
  <2>2. \A v \in Holders' : req'[v] \in Numbers /\ req'[v].row = req[v].row
    BY <1>3, <1>4, <1>5, <1>7, <2>1 DEF Rows, Numbers
  <2>3. freeRows' = freeRows
    BY DEF PromptRead
  <2> QED BY <1>7, <2>1, <2>2, <2>3, RowsGivenUp
<1>9. Prefills'
  <2>1. \A v \in ToSet(batch.uids) : v \in Uid
    BY DEF DraftInv, Types, Batches, ToSet
  <2>2. batch.phase = "prefill" => \A v \in ToSet(batch.uids) : v # u /\ status[v] = "prefill"
    BY DEF DraftInv, Prefills, PromptRead
  <2> QED BY <1>2, <2>1, <2>2 DEF DraftInv, Prefills, PromptRead
<1>10. batch.phase = "verify" => u \notin ToSet(batch.uids)
  BY <1>1 DEF DraftInv, Flights
<1>11. RoundOf(last)' = {} /\ RoundOf(batch)' = RoundOf(batch) /\ u \notin RoundOf(batch)
  BY <1>1, <1>2, <1>10 DEF RoundOf, PromptRead
<1>12. Startup'
  BY OnlyStarts DEF Working, PromptRead
<1>13. \A v \in Uid : status[v] = "running" => v # u /\ req[v].row # req[u].row
  BY <1>1 DEF DraftInv, Rows, Holders
<1> QED
  BY <1>2, <1>3, <1>4, <1>5, <1>6, <1>8, <1>9, <1>11, <1>12, <1>13 DEF Numbers

LEMMA PromptEnded ==
    ASSUME DraftInv, NEW u \in Uid, PromptRead(u), PromptEnds(u)
    PROVE  DraftInv'
<1>1. status' = [status EXCEPT ![u] = "finished"] /\ running' = running /\ vstate' = vstate
  BY DEF PromptEnds
<1>2. /\ status' \in [Uid -> {"new", "pending", "prefill", "running", "finished", "aborted"}]
      /\ status'[u] = "finished" /\ \A v \in Uid : v # u => status'[v] = status[v]
      /\ \A v \in Uid : v # u => req'[v] = req[v]
      /\ DOMAIN req' = Uid
      /\ RoundOf(last)' = {} /\ RoundOf(batch)' = RoundOf(batch) /\ u \notin RoundOf(batch)
      /\ Rows' /\ Prefills' /\ Startup'
  BY <1>1, PromptReadKeeps
<1>3. /\ tpc = "process" /\ status[u] = "prefill" /\ idx' = idx + 1
      /\ UNCHANGED <<tpc, pend, freeRows, inflight, batch, last, dpc, states>>
  BY DEF PromptRead
<1>4. /\ toDrafter' \in Seq(ToSet(toDrafter')) /\ ToSet(toDrafter) \subseteq ToSet(toDrafter')
      /\ \A m \in ToSet(toDrafter') \ ToSet(toDrafter) : m.type = "remove" /\ m.uid = u
      /\ fromDrafter' = fromDrafter
  <2>1. PICK us : us = <<u>>
    OBVIOUS
  <2>2. us \in Seq(Uid) /\ ToSet(us) = {u}
    BY <2>1 DEF ToSet
  <2>3. SendRemoves(us)
    BY <2>1 DEF PromptEnds
  <2> QED BY <2>2, <2>3, RemovesSent
<1>5. Types'
  BY <1>1, <1>2, <1>3, <1>4 DEF DraftInv, Types
<1>6. Lists'
  BY <1>1, <1>2, <1>3 DEF DraftInv, Lists
<1>7. Flights'
  <2>1. batch.phase = "verify" => \A v \in ToSet(batch.uids) : v # u /\ v \in Uid
    <3>1. ToSet(batch.uids) \subseteq Uid
      BY DEF DraftInv, Types, Batches, ToSet
    <3> QED BY <1>3, <3>1 DEF DraftInv, Flights
  <2>2. RoundOf(last) = {}
    BY DEF RoundOf, PromptRead
  <2> QED BY <1>2, <1>3, <2>1, <2>2 DEF DraftInv, Flights
<1>8. Mail'
  BY <1>2, <1>3, <1>4 DEF DraftInv, Mail
<1>9. Windows'
  <2>1. \A v \in Uid : status'[v] = "running" =>
            /\ status[v] = "running" /\ req'[v].cached = req[v].cached
            /\ Carried(v)' = Carried(v) /\ DOMAIN vstate'[req'[v].row] = DOMAIN vstate[req[v].row]
    BY <1>1, <1>2 DEF Carried
  <2>2. \A v \in RoundOf(batch)' : Met(v)
    BY <1>2, <1>3 DEF DraftInv, Windows
  <2>3. \A m \in ToSet(toDrafter') \ ToSet(toDrafter) : m.type # "init"
    BY <1>4
  <2> QED BY <1>2, <1>3, <1>4, <2>1, <2>2, <2>3, AllStay
<1>10. Rounds'
  <2>1. \A v \in RoundOf(batch) : req'[v] = req[v]
    BY <1>2 DEF RoundOf
  <2> QED BY <1>1, <1>2, <1>3, <1>4, <2>1 DEF DraftInv, Rounds, Continues
<1> QED
  BY <1>2, <1>5, <1>6, <1>7, <1>8, <1>9, <1>10 DEF DraftInv

LEMMA PromptContinued ==
    ASSUME DraftInv, NEW u \in Uid, PromptRead(u), PromptGoesOn(u)
    PROVE  DraftInv'
<1>1. /\ status' = [status EXCEPT ![u] = "running"] /\ running' = Append(running, u)
      /\ toDrafter' = Append(toDrafter, InitMsg(u)) /\ fromDrafter' = fromDrafter
      /\ vstate' = [vstate EXCEPT ![req[u].row] =
                      [pos |-> <<>>, hid |-> <<>>, drafts |-> <<>>]]
  BY DEF PromptGoesOn
<1>2. /\ status' \in [Uid -> {"new", "pending", "prefill", "running", "finished", "aborted"}]
      /\ status'[u] = "running" /\ \A v \in Uid : v # u => status'[v] = status[v]
      /\ req[u] \in Numbers
      /\ req'[u].row = req[u].row
      /\ req'[u].cached = PromptLen[u] /\ req'[u].device = PromptLen[u] + 1
      /\ \A v \in Uid : v # u => req'[v] = req[v]
      /\ DOMAIN req' = Uid /\ PromptLen[u] \in Nat
      /\ RoundOf(last)' = {} /\ RoundOf(batch)' = RoundOf(batch) /\ u \notin RoundOf(batch)
      /\ Rows' /\ Prefills' /\ Startup'
      /\ \A v \in Uid : status[v] = "running" => v # u /\ req[v].row # req[u].row
  BY <1>1, PromptReadKeeps
<1>3. /\ tpc = "process" /\ status[u] = "prefill" /\ idx' = idx + 1
      /\ UNCHANGED <<tpc, pend, freeRows, inflight, batch, last, dpc, states>>
  BY DEF PromptRead
<1>4. PICK msg : msg = InitMsg(u)
  OBVIOUS
<1>5. msg.type = "init" /\ msg.uid = u /\ Ends(msg.pos, PromptLen[u])
  <2>1. PICK p, w, r : p = PromptLen[u] /\ w = Window /\ r = PromptRows[u]
    OBVIOUS
  <2>2. p \in Nat /\ w \in Nat \ {0} /\ r \in Nat \ {0}
    BY <1>2, <2>1, SizesAssumption, RequestsAssumption
  <2>3. p + 1 - Lesser(w, r) \in Int /\ p + 1 - Lesser(w, r) <= p
    BY <2>2 DEF Lesser
  <2>4. Ends(Positions(p + 1 - Lesser(w, r), p), p)
    BY <2>2, <2>3, PositionsEnd
  <2>5. msg.type = "init" /\ msg.uid = u /\ msg.pos = InitPositions(u)
    BY <1>4 DEF InitMsg
  <2> QED BY <2>1, <2>4, <2>5 DEF InitPositions
<1>6. toDrafter' \in Seq(ToSet(toDrafter')) /\ ToSet(toDrafter') = ToSet(toDrafter) \cup {msg}
  <2>1. toDrafter \in Seq(ToSet(toDrafter))
    BY DEF DraftInv, Types
  <2> QED BY <1>1, <1>4, <2>1, QueueAppend
<1>7. /\ running' \in Seq(Uid) /\ ToSet(running') = ToSet(running) \cup {u} /\ IsInjective(running')
  <2>1. running \in Seq(Uid) /\ u \notin ToSet(running) /\ IsInjective(running)
    BY <1>3 DEF DraftInv, Types, Lists
  <2> QED BY <1>1, <2>1, AppendIs
<1>8. /\ DOMAIN vstate' = Row
      /\ vstate'[req'[u].row] = [pos |-> <<>>, hid |-> <<>>, drafts |-> <<>>]
      /\ \A v \in Uid : status[v] = "running" => vstate'[req'[v].row] = vstate[req[v].row]
  <2>1. DOMAIN vstate = Row /\ req[u].row \in Row
    BY <1>2 DEF DraftInv, Types, Numbers
  <2>2. \A v \in Uid : status[v] = "running" => req[v].row \in Row
    BY DEF DraftInv, Rows, Holders, Numbers
  <2> QED BY <1>1, <1>2, <2>1, <2>2
<1>9. Types'
  BY <1>1, <1>2, <1>3, <1>6, <1>7, <1>8 DEF DraftInv, Types
<1>10. Lists'
  BY <1>1, <1>2, <1>3, <1>7 DEF DraftInv, Lists
<1>11. Flights'
  <2>1. batch.phase = "verify" => \A v \in ToSet(batch.uids) : v # u /\ v \in Uid
    <3>1. ToSet(batch.uids) \subseteq Uid
      BY DEF DraftInv, Types, Batches, ToSet
    <3> QED BY <1>3, <3>1 DEF DraftInv, Flights
  <2>2. RoundOf(last) = {}
    BY DEF RoundOf, PromptRead
  <2>3. req'[u].cached < req'[u].device /\ req'[u].device = req'[u].cached + 1
    BY <1>2
  <2>4. \A v \in Uid : status'[v] = "running" =>
          /\ req'[v].cached < req'[v].device
          /\ v \notin RoundOf(last)' \cup RoundOf(batch)' => req'[v].device = req'[v].cached + 1
    BY <1>2, <2>2, <2>3 DEF DraftInv, Flights
  <2>5. \A v \in Uid : status'[v] = "prefill" =>
          req'[v].cached = PromptLen[v] /\ req'[v].device = PromptLen[v]
    BY <1>2 DEF DraftInv, Flights
  <2> QED BY <1>2, <1>3, <2>1, <2>4, <2>5 DEF DraftInv, Flights
<1>12. Mail'
  BY <1>2, <1>3, <1>5, <1>6 DEF DraftInv, Mail
<1>13. Windows'
  <2>1. PICK S : S = {u}
    OBVIOUS
  <2>2. \A v \in Uid \ S : status'[v] = "running" =>
            /\ status[v] = "running" /\ req'[v].cached = req[v].cached
            /\ Carried(v)' = Carried(v) /\ DOMAIN vstate'[req'[v].row] = DOMAIN vstate[req[v].row]
    BY <1>2, <1>8, <2>1 DEF Carried
  <2>3. Known(u)'
    <3>1. DOMAIN vstate'[req'[u].row] = {"pos", "hid", "drafts"} /\ Carried(u)' = <<>>
      BY <1>8 DEF Carried
    <3>2. u \notin DOMAIN states'
      BY <1>3 DEF DraftInv, Mail
    <3>3. \E m \in ToSet(toDrafter') : Greeting(m, u)
      BY <1>5, <1>6 DEF Greeting
    <3> QED BY <1>2, <3>1, <3>2, <3>3 DEF Known
  <2>4. \A v \in RoundOf(batch)' : Met(v)'
    <3>1. \A v \in RoundOf(batch) : Met(v) /\ v # u
      BY <1>2, <1>3 DEF DraftInv, Windows
    <3> QED BY <1>2, <1>3, <1>5, <1>6, <3>1 DEF Met, Greeting
  <2>5. /\ ToSet(toDrafter) \subseteq ToSet(toDrafter')
        /\ \A m \in ToSet(toDrafter') \ ToSet(toDrafter) : m.type = "init" => m.uid \in S
        /\ \A v \in Uid \cap S : status'[v] = "running" => Known(v)'
        /\ \A v \in RoundOf(last)' : Met(v)'
    BY <1>2, <1>5, <1>6, <2>1, <2>3
  <2> QED BY <1>3, <2>2, <2>4, <2>5, KnownStay
<1>14. Rounds'
  <2>1. \A v \in RoundOf(batch) : req'[v] = req[v] /\ vstate'[req'[v].row] = vstate[req[v].row]
    BY <1>2, <1>8 DEF RoundOf
  <2>2. \A v \in RoundOf(batch)' : Continues(vstate[req[v].row].drafts, v)'
    <3>1. \A v \in RoundOf(batch) : Continues(vstate[req[v].row].drafts, v)
      BY <1>3 DEF DraftInv, Rounds
    <3> QED BY <1>2, <2>1, <3>1 DEF Continues
  <2>3. fromDrafter' = <<>> /\ \A m \in ToSet(toDrafter') : m.type \in {"init", "remove"}
    BY <1>1, <1>3, <1>5, <1>6 DEF DraftInv, Rounds
  <2> QED BY <1>3, <2>2, <2>3 DEF Rounds
<1> QED
  BY <1>2, <1>9, <1>10, <1>11, <1>12, <1>13, <1>14 DEF DraftInv

LEMMA PrefillProcessed ==
    ASSUME DraftInv, NEW u \in Uid, NEW eos, ProcessPrefill(u, eos)
    PROVE  DraftInv'
BY PromptCases, PromptEnded, PromptContinued


(* The rows of a set of requests are put back, in some order, once each.    *)
LEMMA RowsReleased ==
    ASSUME DraftInv, NEW S, S \subseteq Holders, Released(S)
    PROVE  /\ freeRows' \in Seq(Row) /\ IsInjective(freeRows')
           /\ \A r \in ToSet(freeRows') : r \in ToSet(freeRows) \/ \E u \in S : r = req[u].row
<1> DEFINE rowOf == [u \in S |-> req[u].row]
<1>1. rowOf \in Injection(S, Row)
  <2>1. /\ \A u \in S : req[u].row \in Row
        /\ \A u, v \in S : req[u].row = req[v].row => u = v
    BY DEF DraftInv, Rows, Numbers
  <2> QED BY <2>1 DEF Injection, IsInjective
<1>2. IsFiniteSet(S)
  <2>1. IsFiniteSet(Row)
    <3>1. NumRows - 1 \in Int
      BY SizesAssumption
    <3> QED BY <3>1, FS_Interval DEF Row
  <2> QED BY <1>1, <2>1, FS_Injection
<1>3. PICK n : n = Cardinality(S) /\ n \in Nat
  BY <1>2, FS_CardinalityType
<1>4. PICK order \in SetToSeqs(S) :
        freeRows' = freeRows \o [i \in DOMAIN order |-> req[order[i]].row]
  BY DEF Released
<1>5. order \in [1 .. n -> S] /\ \A i, j \in 1 .. n : i # j => order[i] # order[j]
  BY <1>3, <1>4 DEF SetToSeqs
<1>6. PICK t : t = [i \in 1 .. n |-> req[order[i]].row]
  OBVIOUS
<1>7. freeRows' = freeRows \o t
  BY <1>4, <1>5, <1>6
<1>8. \A i \in 1 .. n : order[i] \in S /\ t[i] = req[order[i]].row /\ t[i] \in Row
  BY <1>5, <1>6 DEF DraftInv, Rows, Numbers
<1>9. t \in Seq(Row) /\ DOMAIN t = 1 .. n
  <2>1. \A i \in 1 .. n : req[order[i]].row \in Row
    BY <1>6, <1>8
  <2>2. t \in Seq(Row)
    BY <1>3, <1>6, <2>1, IsASeq
  <2> QED BY <1>6, <2>2
<1>10. IsInjective(t)
  <2> SUFFICES ASSUME NEW i \in 1 .. n, NEW j \in 1 .. n, t[i] = t[j] PROVE i = j
    BY <1>9 DEF IsInjective
  <2>1. order[i] = order[j]
    BY <1>8 DEF DraftInv, Rows
  <2> QED BY <1>5, <2>1
<1>11. \A r \in ToSet(t) : \E u \in S : r = req[u].row
  BY <1>8, <1>9 DEF ToSet
<1>12. ToSet(freeRows) \cap ToSet(t) = {}
  BY <1>11 DEF DraftInv, Rows
<1>13. freeRows \in Seq(Row) /\ IsInjective(freeRows)
  BY DEF DraftInv, Types, Lists
<1>14. /\ freeRows' \in Seq(Row) /\ ToSet(freeRows') = ToSet(freeRows) \cup ToSet(t)
       /\ IsInjective(freeRows')
  BY <1>7, <1>9, <1>10, <1>12, <1>13, ConcatIs
<1> QED
  BY <1>11, <1>14

LEMMA IterationEnded ==
    ASSUME DraftInv, EndIteration
    PROVE  DraftInv'
<1>1. /\ tpc = "process" /\ tpc' = "recv" /\ last' = batch /\ batch' = NoBatch
      /\ last = NoBatch \/ last.phase = "prefill"
      /\ inflight'[2] = inflight[2]
      /\ UNCHANGED <<status, req, pend, running, idx, vstate, toDrafter, fromDrafter, dpc, states>>
  BY DEF EndIteration, channel, drafter
<1>2. /\ NoBatch \in Batches /\ IsInjective(NoBatch.uids) /\ NoBatch.phase = "none"
      /\ NoBatch.uids = <<>> /\ ToSet(NoBatch.uids) = {}
  BY DEF NoBatch, Batches, IsInjective, ToSet
<1>3. Finishing' = {} /\ Finishing \subseteq Holders /\ Released(Finishing)
  <2>1. Finishing = {u \in ToSet(last.uids) : status[u] = "finished"}
    BY <1>1, <1>2 DEF Finishing
  <2>2. Released(Finishing)
    BY <2>1 DEF EndIteration
  <2>3. Finishing' = {}
    BY <1>1 DEF Finishing
  <2> QED BY <2>2, <2>3 DEF Holders
<1>4. /\ freeRows' \in Seq(Row) /\ IsInjective(freeRows')
      /\ \A r \in ToSet(freeRows') :
            r \in ToSet(freeRows) \/ \E u \in Finishing : r = req[u].row
  BY <1>3, RowsReleased
<1>5. Holders' = Holders \ Finishing
  BY <1>1, <1>3 DEF Holders, Finishing
<1>6. Types'
  BY <1>1, <1>2, <1>4 DEF DraftInv, Types, Working
<1>7. Lists'
  BY <1>1, <1>2, <1>4 DEF DraftInv, Lists
<1>8. Rows'
  <2>1. Rows
    BY DEF DraftInv
  <2>2. \A u \in Holders' : req'[u] \in Numbers /\ req'[u].row = req[u].row
    BY <1>1, <1>5, <2>1 DEF Rows
  <2>3. \A r \in ToSet(freeRows') :
            r \in ToSet(freeRows) \/ \E u \in Holders \ Holders' : r = req[u].row
    BY <1>3, <1>4, <1>5
  <2> QED BY <1>5, <2>1, <2>2, <2>3, RowsGivenUp
<1>9. Prefills'
  BY <1>1, <1>2 DEF DraftInv, Prefills
<1>10. RoundOf(last)' = RoundOf(batch) /\ RoundOf(batch)' = {} /\ RoundOf(last) = {}
  BY <1>1, <1>2 DEF RoundOf
<1>11. Flights'
  <2>1. RoundOf(batch) \subseteq inflight'[2]
    BY <1>1 DEF DraftInv, Flights
  <2> QED BY <1>1, <1>2, <1>10, <2>1 DEF DraftInv, Flights
<1>12. Startup'
  BY <1>1, OnlyStarts DEF Working
<1>13. Mail'
  BY <1>1, MailStays
<1>14. Windows'
  <2>1. \A v \in RoundOf(last)' : Met(v)
    BY <1>1, <1>10 DEF DraftInv, Windows
  <2>2. \A v \in Uid : Carried(v)' = Carried(v)
    BY <1>1 DEF Carried
  <2> QED BY <1>1, <2>1, <2>2, AllStay
<1>15. Rounds'
  BY <1>1 DEF DraftInv, Rounds
<1> QED
  BY <1>6, <1>7, <1>8, <1>9, <1>11, <1>12, <1>13, <1>14, <1>15 DEF DraftInv

(* What reading the results of a round comes to: the requests in done end, *)
(* the others of the round carry rows that end with their last token.      *)
RoundRead(done) ==
    /\ tpc = "process" /\ last.phase = "verify" /\ done \subseteq RoundOf(last)
    /\ DOMAIN req' = Uid /\ DOMAIN vstate' = Row
    /\ \A u \in Uid \ RoundOf(last) :
          /\ req'[u] = req[u]
          /\ status[u] = "running" => vstate'[req[u].row] = vstate[req[u].row]
    /\ \A u \in RoundOf(last) :
          /\ req'[u] \in Numbers /\ req'[u].row = req[u].row
          /\ req'[u].device = req'[u].cached + 1
          /\ u \notin done => /\ DOMAIN vstate'[req[u].row] = {"pos", "hid", "drafts"}
                              /\ Ends(vstate'[req[u].row].pos, req'[u].cached)
                              /\ Len(vstate'[req[u].row].pos) <= K + 1
    /\ status' = [u \in Uid |-> IF u \in done THEN "finished" ELSE status[u]]
    /\ running' = Kept(running, Uid \ done)
    /\ SendRemoves(Kept(last.uids, done))
    /\ Released(done)
    /\ inflight' = <<{}, inflight[2]>>
    /\ last' = batch /\ batch' = NoBatch /\ tpc' = "recv"
    /\ UNCHANGED <<pend, idx, dpc, states>>

LEMMA RoundIsRead ==
    ASSUME DraftInv, NEW eos, NEW accepted \in [1 .. Len(last.uids) -> 0 .. K],
           ProcessVerify(accepted, eos)
    PROVE  \E done : RoundRead(done)
<1> DEFINE us      == last.uids
           live    == {i \in DOMAIN us : status[us[i]] = "running"}
           at(u)   == CHOOSE i \in DOMAIN us : us[i] = u
           next(u) == req[u].cached + accepted[at(u)] + 1
           done    == {us[i] : i \in {i \in live :
                          us[i] \in eos \/ next(us[i]) + 1 >= MaxDeviceLen(us[i])}}
           mine(r) == {i \in live : req[us[i]].row = r}
           one(r)  == CHOOSE i \in mine(r) : TRUE
<1>1. /\ tpc = "process" /\ last.phase = "verify"
      /\ req' = [u \in Uid |-> IF u \in {us[i] : i \in live}
                               THEN [req[u] EXCEPT !.cached = next(u), !.device = next(u) + 1]
                               ELSE req[u]]
      /\ vstate' = [r \in Row |->
           IF mine(r) = {} THEN vstate[r]
           ELSE IF us[one(r)] \in done THEN NoState ELSE Carry(us, accepted, one(r))]
      /\ status' = [u \in Uid |-> IF u \in done THEN "finished" ELSE status[u]]
      /\ running' = Kept(running, Uid \ done)
      /\ SendRemoves(Kept(us, done))
      /\ Released(done)
      /\ inflight' = <<{}, inflight[2]>>
      /\ last' = batch /\ batch' = NoBatch /\ tpc' = "recv"
      /\ UNCHANGED <<pend, idx, dpc, states>>
  BY DEF ProcessVerify, drafter
<1>2. done \subseteq {us[i] : i \in live}
  OBVIOUS
<1>3. /\ us = last.uids /\ live = {i \in DOMAIN us : status[us[i]] = "running"}
      /\ \A u : at(u) = CHOOSE i \in DOMAIN us : us[i] = u
      /\ \A u : next(u) = req[u].cached + accepted[at(u)] + 1
      /\ \A r : mine(r) = {i \in live : req[us[i]].row = r}
      /\ \A r : one(r) = CHOOSE i \in mine(r) : TRUE
  OBVIOUS
<1> HIDE DEF us, live, at, next, done, mine, one
<1>4. us \in Seq(Uid) /\ IsInjective(us) /\ DOMAIN us = 1 .. Len(us) /\ \A i \in DOMAIN us : us[i] \in Uid
  <2>1. us \in Seq(Uid) /\ IsInjective(us)
    BY <1>3 DEF DraftInv, Types, Batches, Lists
  <2> QED BY <2>1
<1>5. {us[i] : i \in live} = RoundOf(last)
  BY <1>1, <1>3, <1>4 DEF RoundOf, ToSet
<1>6. \A i \in live : at(us[i]) = i /\ us[i] \in RoundOf(last) /\ i \in DOMAIN us
  <2> TAKE i \in live
  <2>1. i \in DOMAIN us /\ us[i] \in RoundOf(last)
    BY <1>3, <1>5
  <2>2. PICK x : x = us[i]
    OBVIOUS
  <2>3. at(x) \in DOMAIN us /\ us[at(x)] = x
    BY <1>3, <2>1, <2>2
  <2>4. at(x) = i
    BY <1>4, <2>1, <2>2, <2>3 DEF IsInjective
  <2> QED BY <2>1, <2>2, <2>4
<1>7. ASSUME NEW u \in RoundOf(last)
      PROVE  /\ u \in Uid /\ u \in Holders /\ status[u] = "running"
             /\ req'[u] \in Numbers /\ req'[u].row = req[u].row
             /\ req'[u].device = req'[u].cached + 1
             /\ u \notin done => /\ DOMAIN vstate'[req[u].row] = {"pos", "hid", "drafts"}
                                 /\ Ends(vstate'[req[u].row].pos, req'[u].cached)
                                 /\ Len(vstate'[req[u].row].pos) <= K + 1
  <2>1. u \in Uid /\ u \in Holders /\ status[u] = "running"
    BY DEF RoundOf, Holders
  <2>2. PICK i \in live : u = us[i] /\ i \in DOMAIN us /\ at(u) = i
    BY <1>5, <1>6
  <2>3. PICK q, a, c : q = req[u] /\ a = accepted[i] /\ c = req[u].cached
    OBVIOUS
  <2>4. q \in [row : Row, cached : Nat, device : Nat] /\ c \in Nat /\ q.cached = c /\ q.row \in Row
    BY <2>1, <2>3 DEF DraftInv, Rows, Numbers
  <2>5. a \in Nat /\ a <= K
    <3>1. i \in 1 .. Len(last.uids) /\ K \in Nat
      BY <1>3, <1>4, <2>2, SizesAssumption
    <3>2. a \in 0 .. K
      BY <2>3, <3>1
    <3> QED BY <3>1, <3>2
  <2>6. next(u) = c + a + 1 /\ next(u) \in Nat
    BY <1>3, <2>2, <2>3, <2>4, <2>5
  <2>7. req'[u] = [q EXCEPT !.cached = next(u), !.device = next(u) + 1]
    BY <1>1, <2>1, <2>2, <2>3
  <2>8. /\ req'[u] \in [row : Row, cached : Nat, device : Nat] /\ req'[u].row = q.row
        /\ req'[u].cached = next(u) /\ req'[u].device = next(u) + 1
    <3>1. PICK n : n = next(u) /\ n \in Nat
      BY <2>6
    <3>2. req'[u] = [q EXCEPT !.cached = n, !.device = n + 1]
      BY <2>7, <3>1
    <3>3. PICK a1, b1 : a1 = q.row /\ b1 = q.device /\ a1 \in Row /\ b1 \in Nat
      BY <2>4
    <3>4. q = [row |-> a1, cached |-> c, device |-> b1]
      BY <2>4, <3>3
    <3>5. req'[u] = [row |-> a1, cached |-> n, device |-> n + 1]
      BY <3>2, <3>4
    <3>6. n + 1 \in Nat
      BY <3>1
    <3>7. /\ req'[u] \in [row : Row, cached : Nat, device : Nat] /\ req'[u].row = q.row
          /\ req'[u].cached = n /\ req'[u].device = n + 1
      BY <3>1, <3>3, <3>5, <3>6
    <3> QED BY <3>1, <3>7
  <2>9. ASSUME u \notin done
        PROVE  /\ DOMAIN vstate'[req[u].row] = {"pos", "hid", "drafts"}
               /\ Ends(vstate'[req[u].row].pos, req'[u].cached)
               /\ Len(vstate'[req[u].row].pos) <= K + 1
    <3>1. PICK r : r = q.row /\ r \in Row
      BY <2>4
    <3>2. mine(r) = {i}
      <4>1. \A j \in live : us[j] \in Holders /\ j \in DOMAIN us
        BY <1>6 DEF RoundOf, Holders
      <4>2. \A j \in live : req[us[j]].row = r => us[j] = u
        BY <2>1, <2>3, <3>1, <4>1 DEF DraftInv, Rows
      <4>3. \A j \in live : us[j] = u => j = i
        BY <1>4, <2>2, <4>1 DEF IsInjective
      <4>4. mine(r) = {j \in live : req[us[j]].row = r}
        BY <1>3
      <4> QED BY <2>2, <2>3, <3>1, <4>2, <4>3, <4>4
    <3>3. one(r) = i /\ mine(r) # {}
      <4>1. one(r) = CHOOSE j \in mine(r) : TRUE
        BY <1>3
      <4> QED BY <3>2, <4>1
    <3>4. vstate'[q.row] = IF us[i] \in done THEN NoState ELSE Carry(us, accepted, i)
      BY <1>1, <3>1, <3>3
    <3>5. vstate'[q.row] = Carry(us, accepted, i)
      BY <2>2, <2>9, <3>4
    <3>6. /\ DOMAIN vstate'[q.row] = {"pos", "hid", "drafts"}
          /\ vstate'[q.row].pos = Positions(c + 1, c + a + 1)
      BY <2>2, <2>3, <3>5 DEF Carry
    <3>7. /\ Ends(Positions(c + 1, c + a + 1), c + a + 1)
          /\ Len(Positions(c + 1, c + a + 1)) <= K + 1
      <4>1. PICK lo, hi : lo = c + 1 /\ hi = c + a + 1
        OBVIOUS
      <4>2. lo \in Int /\ hi \in Int /\ lo <= hi /\ hi - lo + 1 = a + 1
        BY <2>4, <2>5, <4>1
      <4>3. Ends(Positions(lo, hi), hi) /\ Len(Positions(lo, hi)) = a + 1
        BY <4>2, PositionsEnd
      <4>4. a + 1 <= K + 1
        BY <2>5, SizesAssumption
      <4> QED BY <4>1, <4>3, <4>4
    <3> QED BY <2>3, <2>6, <2>8, <3>6, <3>7
  <2> QED BY <2>1, <2>3, <2>6, <2>8, <2>9 DEF Numbers
<1>8. ASSUME NEW u \in Uid \ RoundOf(last)
      PROVE  /\ req'[u] = req[u]
             /\ status[u] = "running" => vstate'[req[u].row] = vstate[req[u].row]
  <2>1. req'[u] = req[u]
    BY <1>1, <1>5, <1>8
  <2>2. ASSUME status[u] = "running"
        PROVE  vstate'[req[u].row] = vstate[req[u].row]
    <3>1. u \in Holders /\ req[u].row \in Row
      BY <1>8, <2>2 DEF DraftInv, Rows, Holders, Numbers
    <3>2. PICK r : r = req[u].row /\ r \in Row
      BY <3>1
    <3>3. mine(r) = {}
      <4>1. \A j \in live : us[j] \in Holders /\ us[j] # u
        BY <1>6, <1>8 DEF RoundOf, Holders
      <4>2. mine(r) = {j \in live : req[us[j]].row = r}
        BY <1>3
      <4> QED BY <3>1, <3>2, <4>1, <4>2 DEF DraftInv, Rows
    <3> QED BY <1>1, <3>2, <3>3
  <2> QED BY <2>1, <2>2
<1>9. RoundRead(done)
  <2>1. DOMAIN req' = Uid /\ DOMAIN vstate' = Row /\ done \subseteq RoundOf(last)
    BY <1>1, <1>2, <1>5
  <2> QED BY <1>1, <1>3, <1>7, <1>8, <2>1 DEF RoundRead
<1> QED
  BY <1>9

LEMMA RoundProcessed ==
    ASSUME DraftInv, NEW done, RoundRead(done)
    PROVE  DraftInv'
<1>1. /\ tpc = "process" /\ last.phase = "verify" /\ done \subseteq RoundOf(last)
      /\ DOMAIN req' = Uid /\ DOMAIN vstate' = Row
      /\ \A u \in Uid \ RoundOf(last) :
            /\ req'[u] = req[u]
            /\ status[u] = "running" => vstate'[req[u].row] = vstate[req[u].row]
      /\ \A u \in RoundOf(last) :
            /\ req'[u] \in Numbers /\ req'[u].row = req[u].row
            /\ req'[u].device = req'[u].cached + 1
      /\ \A u \in RoundOf(last) \ done :
            /\ DOMAIN vstate'[req[u].row] = {"pos", "hid", "drafts"}
            /\ Ends(vstate'[req[u].row].pos, req'[u].cached)
      /\ status' = [u \in Uid |-> IF u \in done THEN "finished" ELSE status[u]]
      /\ running' = Kept(running, Uid \ done)
      /\ inflight' = <<{}, inflight[2]>>
      /\ last' = batch /\ batch' = NoBatch /\ tpc' = "recv"
      /\ UNCHANGED <<pend, idx, dpc, states>>
  BY DEF RoundRead
<1>2. /\ NoBatch \in Batches /\ IsInjective(NoBatch.uids) /\ NoBatch.phase = "none"
      /\ NoBatch.uids = <<>> /\ ToSet(NoBatch.uids) = {}
  BY DEF NoBatch, Batches, IsInjective, ToSet
<1>3. \A u \in RoundOf(last) : u \in Uid /\ status[u] = "running" /\ u \in Holders
  BY DEF RoundOf, Holders
<1>4. /\ status' \in [Uid -> {"new", "pending", "prefill", "running", "finished", "aborted"}]
      /\ \A u \in done : status'[u] = "finished" /\ status[u] = "running" /\ u \in Uid
      /\ \A u \in Uid \ done : status'[u] = status[u]
  <2>1. status \in [Uid -> {"new", "pending", "prefill", "running", "finished", "aborted"}]
    BY DEF DraftInv, Types
  <2> QED BY <1>1, <1>3, <2>1
<1>5. /\ running' \in Seq(Uid) /\ ToSet(running') = ToSet(running) \cap (Uid \ done)
      /\ IsInjective(running')
  <2>1. running \in Seq(Uid) /\ IsInjective(running)
    BY DEF DraftInv, Types, Lists
  <2> QED BY <1>1, <2>1, KeptIs DEF IsKept
<1>6. /\ toDrafter' \in Seq(ToSet(toDrafter')) /\ ToSet(toDrafter) \subseteq ToSet(toDrafter')
      /\ \A m \in ToSet(toDrafter') \ ToSet(toDrafter) : m.type = "remove" /\ m.uid \in done
      /\ fromDrafter' = fromDrafter
  <2>1. PICK ends : ends = Kept(last.uids, done)
    OBVIOUS
  <2>2. last.uids \in Seq(Uid)
    BY DEF DraftInv, Types, Batches
  <2>3. ends \in Seq(Uid) /\ ToSet(ends) \subseteq done
    BY <2>1, <2>2, KeptIs DEF IsKept
  <2>4. SendRemoves(ends)
    BY <2>1 DEF RoundRead
  <2> QED BY <2>3, <2>4, RemovesSent
<1>7. Finishing = {} /\ Finishing' = {}
  BY <1>1 DEF Finishing
<1>8. Holders' = Holders \ done /\ done \subseteq Holders /\ Holders \subseteq Uid
  BY <1>1, <1>3, <1>4, <1>7 DEF Holders
<1>9. /\ freeRows' \in Seq(Row) /\ IsInjective(freeRows')
      /\ \A r \in ToSet(freeRows') :
            r \in ToSet(freeRows) \/ \E u \in done : r = req[u].row
  BY <1>8, RowsReleased DEF RoundRead
<1>10. Types'
  BY <1>1, <1>2, <1>4, <1>5, <1>6, <1>9 DEF DraftInv, Types, Working
<1>11. Lists'
  BY <1>1, <1>2, <1>4, <1>5, <1>9 DEF DraftInv, Lists
<1>12. Rows'
  <2>1. Rows
    BY DEF DraftInv
  <2>2. \A u \in Holders' : req'[u] \in Numbers /\ req'[u].row = req[u].row
    BY <1>1, <1>8, <2>1 DEF Rows
  <2>3. \A r \in ToSet(freeRows') :
            r \in ToSet(freeRows) \/ \E u \in Holders \ Holders' : r = req[u].row
    BY <1>8, <1>9
  <2> QED BY <1>8, <2>1, <2>2, <2>3, RowsGivenUp
<1>13. Prefills'
  <2>1. ToSet(batch.uids) \subseteq Uid
    BY DEF DraftInv, Types, Batches, ToSet
  <2>2. batch.phase = "prefill" => \A u \in ToSet(batch.uids) : status'[u] = "prefill"
    BY <1>4, <2>1 DEF DraftInv, Prefills
  <2> QED BY <1>1, <1>2, <2>2 DEF Prefills
<1>14. RoundOf(last)' = RoundOf(batch) \ done /\ RoundOf(batch)' = {}
  BY <1>1, <1>2, <1>4 DEF RoundOf
<1>15. \A u \in Uid : status'[u] = "running" => status[u] = "running" /\ u \notin done
  BY <1>4
<1>16. Flights'
  <2>1. RoundOf(batch) \subseteq inflight'[2]
    BY <1>1 DEF DraftInv, Flights
  <2>2. \A u \in Uid : status'[u] = "prefill" =>
          req'[u].cached = PromptLen[u] /\ req'[u].device = PromptLen[u]
    BY <1>1, <1>3, <1>4 DEF DraftInv, Flights
  <2>3. ASSUME NEW u \in Uid, status'[u] = "running"
        PROVE  /\ req'[u].cached < req'[u].device
               /\ u \notin RoundOf(batch) => req'[u].device = req'[u].cached + 1
    <3>1. CASE u \in RoundOf(last)
      <4>1. PICK c, d : c = req'[u].cached /\ d = req'[u].device
        OBVIOUS
      <4>2. c \in Nat /\ d = c + 1
        BY <1>1, <3>1, <4>1 DEF Numbers
      <4> QED BY <4>1, <4>2
    <3>2. CASE u \notin RoundOf(last)
      BY <1>1, <1>15, <2>3, <3>2 DEF DraftInv, Flights
    <3> QED BY <3>1, <3>2
  <2> QED BY <1>1, <1>2, <1>14, <1>15, <2>1, <2>2, <2>3 DEF Flights
<1>17. Startup'
  BY <1>1, OnlyStarts DEF Working
<1>18. Mail'
  BY <1>1, <1>4, <1>6 DEF DraftInv, Mail
<1>19. Windows'
  <2>1. PICK S : S = RoundOf(last)
    OBVIOUS
  <2>2. \A v \in Uid \ S : status'[v] = "running" =>
            /\ status[v] = "running" /\ req'[v].cached = req[v].cached
            /\ Carried(v)' = Carried(v) /\ DOMAIN vstate'[req'[v].row] = DOMAIN vstate[req[v].row]
    BY <1>1, <1>15, <2>1 DEF Carried
  <2>3. \A v : Met(v) => Met(v)'
    BY <1>1, <1>6 DEF Met, Greeting
  <2>4. ASSUME NEW v \in S, status'[v] = "running"
        PROVE  Known(v)'
    <3>1. v \in RoundOf(last) \ done
      BY <1>3, <1>15, <2>1, <2>4
    <3>2. DOMAIN vstate'[req'[v].row] = {"pos", "hid", "drafts"} /\ Ends(Carried(v)', req'[v].cached)
      BY <1>1, <3>1 DEF Carried
    <3>3. Met(v)'
      BY <2>3, <3>1 DEF DraftInv, Windows
    <3>4. Carried(v)' # <<>>
      BY <3>2 DEF Ends
    <3> QED BY <3>2, <3>3, <3>4 DEF Known
  <2>5. \A v \in RoundOf(last)' : Met(v)'
    BY <1>1, <1>14, <2>3 DEF DraftInv, Windows
  <2>6. /\ ToSet(toDrafter) \subseteq ToSet(toDrafter')
        /\ \A m \in ToSet(toDrafter') \ ToSet(toDrafter) : m.type = "init" => m.uid \in S
        /\ \A v \in Uid \cap S : status'[v] = "running" => Known(v)'
        /\ states' = states /\ tpc' # "process"
    BY <1>1, <1>6, <2>4
  <2> QED BY <2>2, <2>5, <2>6, KnownStay
<1>20. Rounds'
  BY <1>1, <1>6 DEF DraftInv, Rounds
<1> QED
  BY <1>10, <1>11, <1>12, <1>13, <1>16, <1>17, <1>18, <1>19, <1>20 DEF DraftInv
-----------------------------------------------------------------------------
LEMMA DraftInvStep ==
    ASSUME DraftInv, [Next]_vars
    PROVE  DraftInv'
<1>1. CASE UNCHANGED vars
  <2>1. UNCHANGED <<target, toDrafter, fromDrafter, dpc, states>>
    BY <1>1 DEF vars, channel, drafter
  <2>2. Lists' /\ Rows' /\ Prefills' /\ Flights'
    BY <2>1, TargetFrame
  <2>3. Types' /\ Startup' /\ Mail'
    BY <2>1 DEF DraftInv, Types, Startup, Mail, target, work
  <2>4. Windows'
    BY <2>1 DEF DraftInv, Windows, Known, Met, Carried, RoundOf, target, work
  <2>5. Rounds'
    <3>1. Asked => Asked'
      BY <2>1 DEF Asked, IsRequestOf, Carried, target, work
    <3>2. Answered => Answered'
      BY <2>1 DEF Answered, Continues, target, work
    <3> QED BY <2>1, <3>1, <3>2 DEF DraftInv, Rounds, RoundOf, Continues, target, work
  <2> QED BY <2>2, <2>3, <2>4, <2>5 DEF DraftInv
<1>2. CASE RecvMessage
  BY <1>2, UserReceived, PrefillAborted, RunAborted DEF RecvMessage
<1>3. CASE Target
  <2>1. CASE MeasureBaseline \/ SizeCache \/ SendHandshake \/ JoinTarget \/ RecvAck
    BY <2>1, TargetStarts
  <2>2. CASE \E n \in 1 .. Cardinality(Uid) : SchedulePrefill(n)
    BY <2>2, PrefillScheduled
  <2>3. CASE ScheduleVerify \/ ScheduleNothing \/ RecvDrafts \/ SkipPrefill \/ EndIteration
    BY <2>3, RoundScheduled, NothingScheduled, DraftsReceived, PrefillSkipped, IterationEnded
  <2>4. CASE \E u \in Uid, eos \in BOOLEAN : ProcessPrefill(u, eos)
    BY <2>4, PrefillProcessed
  <2>5. CASE \E result \in Results : ProcessVerify(result.accepted, result.eos)
    <3>1. PICK result \in Results : ProcessVerify(result.accepted, result.eos)
      BY <2>5
    <3>2. result.accepted \in [1 .. Len(last.uids) -> 0 .. K]
      BY <3>1 DEF Results
    <3> QED BY <3>1, <3>2, RoundIsRead, RoundProcessed
  <2> QED BY <1>3, <2>1, <2>2, <2>3, <2>4, <2>5 DEF Target
<1>4. CASE Drafter
  BY <1>4, DrafterStarts, GreetingTaken, StepTaken, RemovalTaken DEF Drafter
<1>5. CASE Blocked
  BY <1>1, <1>5 DEF Blocked
<1> QED
  BY <1>1, <1>2, <1>3, <1>4, <1>5 DEF Next

(* The target and the drafter agree on every request all the time: the     *)
(* drafter's window and the rows that the target still carries end at the  *)
(* last token that was committed (verify.py:129-187, 208-247).             *)
THEOREM DraftsFollow == Spec => []DraftInv
<1>1. Init => DraftInv
  BY DraftInvInit
<1>2. DraftInv /\ [Next]_vars => DraftInv'
  BY DraftInvStep
<1> QED
  BY <1>1, <1>2, PTL DEF Spec

(* The drafts a verify batch is launched with are for the positions behind *)
(* the last committed token, as many as were asked for (verify.py:158-187). *)
THEOREM DraftsAlwaysContinue == Spec => []DraftsContinue
<1>1. ASSUME DraftInv
      PROVE  DraftsContinue
  <2> SUFFICES ASSUME tpc = "process", batch.phase = "verify",
                      NEW u \in ToSet(batch.uids) \cap ToSet(running)
               PROVE  vstate[req[u].row].drafts = Positions(req[u].cached + 1, req[u].device - 1)
    BY DEF DraftsContinue
  <2>1. u \in RoundOf(batch)
    BY <1>1 DEF DraftInv, Lists, RoundOf
  <2> QED BY <1>1, <2>1 DEF DraftInv, Rounds, Continues
<1>2. DraftInv => DraftsContinue
  BY <1>1
<1> QED
  BY <1>2, DraftsFollow, PTL
-----------------------------------------------------------------------------
(* Memory.  The drafter allocates between two measurements of the target.  *)
DrafterLoaded == dpc \notin {"wait", "load"}

MemoryInv ==
    /\ tpc = "boot" => "start" \notin signals
    /\ Shared /\ "start" \notin signals => dpc = "wait"
    /\ "ready" \in signals => DrafterLoaded
    /\ tpc \in {"boot", "load"} =>
         free = IF Shared /\ DrafterLoaded THEN Memory - DrafterBytes ELSE Memory
    /\ tpc # "boot" => baseline = Memory
    /\ tpc \notin {"boot", "load"} => free \in Nat /\ (Shared => DrafterLoaded)

(* Whole pages of a budget that has room for the least number take no more. *)
LEMMA PagesFit ==
    ASSUME NEW b \in Int, NEW s \in Nat \ {0}, NEW n \in Nat, n * s <= b
    PROVE  Greater(n, b \div s) \in Nat /\ Greater(n, b \div s) * s <= b
<1>1. 0 <= n * s
  OBVIOUS
<1>2. b \in Nat
  BY <1>1
<1>3. b \div s \in Nat /\ (b \div s) * s <= b
  BY <1>2
<1> QED
  BY <1>3 DEF Greater

LEMMA CacheSized ==
    ASSUME MemoryInv, SizeCache, (Ratio * Memory) \div 100 + PageBytes <= Memory
    PROVE  free' \in Nat
<1> DEFINE share == (Ratio * Memory) \div 100
           slot  == PageBytes + StateBytes
           now   == free - Weights
           rest  == share - (Memory - now) - NumDraftStates * StateBytes
<1>1. /\ {Memory, Ratio, Weights, DrafterBytes, PageBytes, StateBytes} \subseteq Nat \ {0}
      /\ K \in Nat \ {0} /\ NumRows \in Nat \ {0}
  BY SizesAssumption
<1>2. free \in Int /\ baseline = Memory
  <2>1. tpc = "load"
    BY DEF SizeCache
  <2>2. baseline = Memory /\ free \in {Memory, Memory - DrafterBytes}
    BY <2>1 DEF MemoryInv
  <2>3. Memory \in Int /\ Memory - DrafterBytes \in Int
    BY <1>1
  <2> QED BY <2>2, <2>3
<1>3. PICK d : d = NumDraftStates /\ d \in Nat
  <2>1. NumRows * (K + 1) \in Nat
    BY <1>1
  <2> QED BY <2>1 DEF NumDraftStates
<1>4. PICK h : h = share /\ h \in Int /\ h + PageBytes <= Memory
  <2>1. Ratio * Memory \in Nat
    BY <1>1
  <2>2. share \in Int
    BY <2>1
  <2> QED BY <2>2
<1>5. PICK w : w = now /\ w \in Int
  BY <1>1, <1>2
<1>6. /\ d <= (h - (Memory - w) - 2 * slot) \div StateBytes
      /\ pages' = Greater(2, rest \div slot)
      /\ free' = w - PoolBytes(pages')
  BY <1>2, <1>3, <1>4, <1>5 DEF SizeCache, EnoughMemory, DetermineNumPages, Loaded, MinPages
<1>7. 2 * slot <= rest /\ rest \in Int /\ slot \in Nat \ {0}
  <2>1. PICK a : a = h - (Memory - w) - 2 * slot /\ a \in Int
    BY <1>1, <1>4, <1>5
  <2>2. d * StateBytes <= a
    <3>1. a \div StateBytes \in Int /\ (a \div StateBytes) * StateBytes <= a
      BY <1>1, <2>1
    <3>2. d * StateBytes <= (a \div StateBytes) * StateBytes
      BY <1>1, <1>3, <1>6, <2>1, <3>1
    <3>3. d * StateBytes \in Int /\ (a \div StateBytes) * StateBytes \in Int
      BY <1>1, <1>3, <3>1
    <3> QED BY <2>1, <3>1, <3>2, <3>3
  <2>3. d * StateBytes \in Int
    BY <1>1, <1>3
  <2> QED BY <1>1, <1>3, <1>4, <1>5, <2>1, <2>2, <2>3
<1>8. pages' \in Nat /\ pages' * slot <= rest
  BY <1>6, <1>7, PagesFit
<1>9. PoolBytes(pages') = pages' * slot + PageBytes + d * StateBytes
  BY <1>1, <1>3, <1>8 DEF PoolBytes
<1>10. free' = w - (pages' * slot + PageBytes + d * StateBytes)
  BY <1>6, <1>9
<1>11. pages' * slot \in Int /\ d * StateBytes \in Int
  BY <1>1, <1>3, <1>8
<1> QED
  BY <1>1, <1>3, <1>4, <1>5, <1>7, <1>8, <1>10, <1>11

LEMMA MemoryStep ==
    ASSUME MemoryInv, Types, [Next]_vars, (Ratio * Memory) \div 100 + PageBytes <= Memory
    PROVE  MemoryInv'
<1>1. CASE MeasureBaseline
  BY <1>1, SizesAssumption DEF MeasureBaseline, MemoryInv, drafter, DrafterLoaded, Shared
<1>2. CASE StartDrafter
  BY <1>2 DEF StartDrafter, MemoryInv, startup, target, memory, DrafterLoaded, Shared
<1>3. CASE DrafterReady
  <2>1. /\ dpc = "load" /\ dpc' = "hello" /\ UNCHANGED <<plane, baseline, tpc>>
        /\ ~DrafterLoaded /\ DrafterLoaded' /\ Shared' = Shared
        /\ "start" \in signals' <=> "start" \in signals
        /\ free' = IF Shared THEN free - DrafterBytes ELSE free
    BY <1>3 DEF DrafterReady, target, DrafterLoaded, Shared
  <2>2. CASE ~Shared
    BY <2>1, <2>2 DEF MemoryInv
  <2>3. CASE Shared
    <3>1. tpc = "load" /\ free = Memory
      BY <2>1, <2>3 DEF MemoryInv
    <3> QED BY <2>1, <2>3, <3>1 DEF MemoryInv
  <2> QED BY <2>2, <2>3
<1>4. CASE SizeCache
  <2>1. free' \in Nat
    BY <1>4, CacheSized
  <2> QED BY <1>4, <2>1 DEF SizeCache, MemoryInv, drafter, DrafterLoaded, Shared
<1>5. CASE SendHandshake \/ JoinTarget \/ RecvAck
  BY <1>5 DEF SendHandshake, JoinTarget, RecvAck, MemoryInv, startup, memory, drafter, DrafterLoaded, Shared
<1>6. CASE RecvHandshake \/ JoinDrafter
  BY <1>6 DEF RecvHandshake, JoinDrafter, MemoryInv, startup, memory, target, DrafterLoaded, Shared
<1>7. ASSUME UNCHANGED startup, dpc' = dpc, tpc' = tpc \/ (tpc \in Working /\ tpc' \in Working)
      PROVE  MemoryInv'
  BY <1>7 DEF MemoryInv, startup, memory, Working, DrafterLoaded, Shared
<1>8. CASE RecvMessage
  <2>1. UNCHANGED startup /\ dpc' = dpc /\ tpc' = tpc
    BY <1>8 DEF RecvMessage, RecvUser, AbortPrefill, AbortRunning, drafter
  <2> QED BY <1>7, <2>1
<1>9. CASE \/ \E n \in 1 .. Cardinality(Uid) : SchedulePrefill(n)
           \/ ScheduleVerify \/ ScheduleNothing \/ RecvDrafts
  <2>1. UNCHANGED startup /\ dpc' = dpc /\ tpc \in Working /\ tpc' \in Working
    BY <1>9 DEF SchedulePrefill, ScheduleVerify, ScheduleNothing, RecvDrafts, drafter, Working
  <2> QED BY <1>7, <2>1
<1>10. CASE \/ \E u \in Uid, eos \in BOOLEAN : ProcessPrefill(u, eos)
            \/ SkipPrefill
            \/ \E result \in Results : ProcessVerify(result.accepted, result.eos)
            \/ EndIteration
  <2>1. UNCHANGED startup /\ dpc' = dpc /\ tpc \in Working /\ tpc' \in Working
    BY <1>10 DEF ProcessPrefill, SkipPrefill, ProcessVerify, EndIteration, drafter, Working
  <2> QED BY <1>7, <2>1
<1>11. CASE DraftInit \/ DraftStep \/ DraftRemove
  <2>1. UNCHANGED startup /\ dpc' = dpc /\ tpc' = tpc
    BY <1>11 DEF DraftInit, DraftStep, DraftRemove, target
  <2> QED BY <1>7, <2>1
<1>12. CASE Blocked \/ UNCHANGED vars
  <2>1. UNCHANGED startup /\ dpc' = dpc /\ tpc' = tpc
    BY <1>12 DEF Blocked, vars, drafter, target
  <2> QED BY <1>7, <2>1
<1> QED
  BY <1>1, <1>2, <1>3, <1>4, <1>5, <1>6, <1>8, <1>9, <1>10, <1>11, <1>12 DEF Next, Target, Drafter

(* Two processes that allocate on one device do not take more than it has, *)
(* whatever the order of their steps, if the share that is left to others  *)
(* by memory_ratio has room for the padding page (engine.py:80-112,        *)
(* 247-307).                                                               *)
THEOREM MemoryAlwaysAccounted ==
    ASSUME (Ratio * Memory) \div 100 + PageBytes <= Memory, DrafterBytes <= Memory
    PROVE  Spec => []MemoryAccounted
<1>1. Init => MemoryInv
  BY DEF Init, MemoryInv, DrafterLoaded
<1>2. MemoryInv /\ DraftInv /\ [Next]_vars => MemoryInv'
  BY MemoryStep DEF DraftInv
<1>3. MemoryInv => MemoryAccounted
  <2>1. Memory \in Nat /\ DrafterBytes \in Nat
    BY SizesAssumption
  <2> QED BY <2>1 DEF MemoryInv, MemoryAccounted
<1> QED
  BY <1>1, <1>2, <1>3, DraftsFollow, PTL DEF Spec
-----------------------------------------------------------------------------
(* The size of a step.                                                      *)

(* A sum of numbers up to b is a number of times b at most.                 *)
LEMMA SumBounded ==
    ASSUME NEW b \in Nat, NEW s \in Seq(0 .. b)
    PROVE  SumOf(s) \in Nat /\ SumOf(s) <= Len(s) * b
<1> DEFINE n == Len(s)
           turn == [p \in (1 .. n) \X Nat |-> p[2] + s[p[1]]]
           Body(f) == [i \in 0 .. n |-> IF i = 0 THEN 0 ELSE f[i - 1] + s[i]]
           sum == CHOOSE f : f = Body(f)
<1>1. n \in Nat /\ DOMAIN s = 1 .. n /\ \A i \in 1 .. n : s[i] \in Nat /\ s[i] <= b
  OBVIOUS
<1>2. SumOf(s) = sum[n]
  BY DEF SumOf
<1>3. turn \in [(1 .. n) \X Nat -> Nat]
  BY <1>1
<1>4. PICK f : IsRun(f, Nat, 0, n, turn)
  <2> HIDE DEF n, turn
  <2> QED BY <1>1, <1>3, LoopRuns, Zenon
<1>5. f \in [0 .. n -> Nat] /\ f[0] = 0
  BY <1>4 DEF IsRun
<1>6. ASSUME NEW i \in 1 .. n
      PROVE  f[i] = f[i - 1] + s[i]
  <2>1. i - 1 \in 0 .. n /\ f[i - 1] \in Nat
    <3>1. i - 1 \in 0 .. n
      BY <1>1
    <3> QED BY <1>5, <3>1
  <2>2. f[i] = turn[<<i, f[i - 1]>>]
    BY <1>4 DEF IsRun
  <2> QED BY <2>1, <2>2
<1>7. f = Body(f)
  <2> HIDE DEF turn
  <2>1. f = [i \in 0 .. n |-> f[i]]
    BY <1>5
  <2>2. \A i \in 0 .. n : f[i] = Body(f)[i]
    <3>1. ASSUME NEW i \in 0 .. n, i # 0 PROVE i \in 1 .. n
      BY <1>1, <3>1
    <3> QED BY <1>5, <1>6, <3>1
  <2> QED BY <2>1, <2>2
<1>8. sum = Body(sum)
  BY <1>7
<1>9. sum[0] = 0 /\ \A i \in 1 .. n : sum[i] = sum[i - 1] + s[i]
  <2>1. 0 \in 0 .. n /\ \A i \in 1 .. n : i \in 0 .. n /\ i # 0
    BY <1>1
  <2>2. \A i \in 0 .. n : sum[i] = IF i = 0 THEN 0 ELSE sum[i - 1] + s[i]
    <3> HIDE DEF sum, n
    <3> QED BY <1>8
  <2> HIDE DEF sum, n
  <2> QED BY <2>1, <2>2
<1> HIDE DEF sum, turn, Body
<1> DEFINE I == {i \in Nat : i <= n => sum[i] \in Nat /\ sum[i] <= i * b}
<1>10. 0 \in I
  BY <1>9
<1>11. ASSUME NEW i \in Nat, i \in I
       PROVE  i + 1 \in I
  <2>1. SUFFICES ASSUME i + 1 <= n PROVE sum[i + 1] \in Nat /\ sum[i + 1] <= (i + 1) * b
    OBVIOUS
  <2>2. i + 1 \in 1 .. n /\ i + 1 - 1 = i /\ sum[i] \in Nat /\ sum[i] <= i * b
    BY <1>1, <1>11, <2>1
  <2>3. PICK x, y : x = sum[i] /\ y = s[i + 1]
    OBVIOUS
  <2>4. sum[i + 1] = x + y
    BY <1>9, <2>2, <2>3
  <2>5. x \in Nat /\ x <= i * b /\ y \in Nat /\ y <= b
    BY <1>1, <2>2, <2>3
  <2>6. (i + 1) * b = i * b + b /\ i * b \in Nat
    OBVIOUS
  <2> QED BY <2>4, <2>5, <2>6
<1>12. n \in I
  <2> HIDE DEF I
  <2> QED BY <1>1, <1>10, <1>11, SetInduction
<1> QED
  BY <1>1, <1>2, <1>12

(* A running request carries the rows of one round. *)
CarryFits(u) == Len(Carried(u)) <= K + 1

Sized(m) ==
    /\ Cardinality({k \in DOMAIN m.reqs : m.reqs[k].n > 0}) <= MaxBatch
    /\ m.input <= MaxHiddenRows
    /\ m.output <= MaxProbRows

StepInv ==
    /\ \A m \in ToSet(toDrafter) : m.type = "step" => Sized(m)
    /\ \A u \in Uid : status[u] = "running" => CarryFits(u)

(* A batch has no more requests than the buffers were made for: each has a *)
(* row of its own, and the budget ends with whole requests.                *)
LEMMA BatchFits ==
    ASSUME DraftInv, TokenBudget % K = 0
    PROVE  Len(Candidates) \in Nat /\ Len(Candidates) <= MaxBatch
<1>1. /\ Candidates \in Seq(Uid) /\ IsInjective(Candidates)
      /\ ToSet(Candidates) \subseteq ToSet(running)
  BY CandidatesAre
<1>2. PICK us, n : us = Candidates /\ n = Len(us) /\ n \in Nat /\ DOMAIN us = 1 .. n
  BY <1>1
<1>3. \A i \in 1 .. n : us[i] \in Holders
  BY <1>1, <1>2 DEF DraftInv, Lists, Holders, ToSet
<1>4. n <= NumRows
  <2> DEFINE row == [i \in 1 .. n |-> req[us[i]].row]
  <2>1. row \in Injection(1 .. n, Row)
    <3>1. row \in [1 .. n -> Row]
      BY <1>3 DEF DraftInv, Rows, Numbers
    <3>2. ASSUME NEW i \in 1 .. n, NEW j \in 1 .. n, row[i] = row[j]
          PROVE  i = j
      <4>1. us[i] = us[j]
        BY <1>3, <3>2 DEF DraftInv, Rows
      <4> QED BY <1>1, <1>2, <4>1 DEF IsInjective
    <3> QED BY <3>1, <3>2 DEF Injection, IsInjective
  <2>2. IsFiniteSet(Row) /\ Cardinality(Row) = NumRows
    <3>1. NumRows \in Nat \ {0}
      BY SizesAssumption
    <3>2. 0 \in Int /\ NumRows - 1 \in Int /\ ~(0 > NumRows - 1) /\ NumRows - 1 - 0 + 1 = NumRows
      BY <3>1
    <3> QED BY <3>2, FS_Interval DEF Row
  <2>3. Cardinality(1 .. n) = n
    <3>1. 1 \in Int /\ n \in Int
      BY <1>2
    <3>2. Cardinality(1 .. n) = IF 1 > n THEN 0 ELSE n - 1 + 1
      BY <3>1, FS_Interval
    <3> QED BY <1>2, <3>2
  <2> HIDE DEF row
  <2> QED BY <2>1, <2>2, <2>3, FS_Injection
<1>5. n <= TokenBudget \div K
  <2>1. PICK b, k, t : b = TokenBudget /\ k = K /\ t = (b + k - 1) \div k
    OBVIOUS
  <2>2. b \in Nat /\ k \in Nat \ {0} /\ b % k = 0
    BY <2>1, SizesAssumption
  <2>3. t = b \div k
    BY <2>1, <2>2
  <2> DEFINE idle == Kept(running, Uid \ inflight[2])
  <2>4. us = SubSeq(idle, 1, Lesser(Len(idle), t))
    BY <1>2, <2>1 DEF Candidates
  <2>5. idle \in Seq(Uid)
    <3>1. running \in Seq(Uid)
      BY DEF DraftInv, Types
    <3> QED BY <3>1, KeptIs DEF IsKept
  <2> HIDE DEF idle
  <2>6. PICK m : m = Lesser(Len(idle), t) /\ m \in Nat /\ m <= t /\ m <= Len(idle)
    <3>1. Len(idle) \in Nat
      BY <2>5
    <3>2. t \in Nat
      BY <2>2, <2>3
    <3> QED BY <3>1, <3>2 DEF Lesser
  <2>7. Len(us) = m
    BY <2>4, <2>5, <2>6
  <2> QED BY <1>2, <2>1, <2>3, <2>6, <2>7
<1> QED
  BY <1>2, <1>4, <1>5 DEF MaxBatch, Lesser

LEMMA StepSized ==
    ASSUME DraftInv, StepInv, TokenBudget % K = 0,
           NEW us, us = Candidates, NEW m, m = StepMsg(us)
    PROVE  Sized(m)
<1>1. PICK n : n = Len(us) /\ n \in Nat /\ n <= MaxBatch /\ us \in Seq(Uid) /\ DOMAIN us = 1 .. n
               /\ ToSet(us) \subseteq ToSet(running)
  BY BatchFits, CandidatesAre
<1>2. K \in Nat \ {0} /\ Window \in Nat /\ MaxBatch \in Nat
  <2>1. K \in Nat \ {0} /\ Window \in Nat /\ NumRows \in Nat /\ TokenBudget \in Nat
    BY SizesAssumption
  <2>2. TokenBudget \div K \in Nat
    BY <2>1
  <2> QED BY <2>1, <2>2 DEF MaxBatch, Lesser
<1>3. ASSUME NEW u \in ToSet(us)
      PROVE  /\ Len(Carried(u)) \in 0 .. K + 1
             /\ Drafts(u) \in 0 .. K
  <2>1. u \in Uid /\ status[u] = "running" /\ u \in Holders
    BY <1>1 DEF DraftInv, Lists, Holders
  <2>2. Carried(u) \in Seq(Int)
    <3>1. Known(u)
      BY <2>1 DEF DraftInv, Windows
    <3>2. Carried(u) = <<>> => Carried(u) \in Seq(Int)
      OBVIOUS
    <3> QED BY <3>1, <3>2 DEF Known, Ends
  <2>3. Len(Carried(u)) \in Nat /\ Len(Carried(u)) <= K + 1
    BY <2>1, <2>2 DEF StepInv, CarryFits
  <2>4. PICK r : r = RemainLen(u)
    OBVIOUS
  <2>5. r \in Int
    BY <2>1, <2>4, RequestsAssumption DEF DraftInv, Rows, RemainLen, MaxDeviceLen, Numbers
  <2>6. Drafts(u) \in 0 .. K
    BY <1>2, <2>4, <2>5 DEF Drafts, Lesser
  <2> QED BY <1>2, <2>3, <2>6
<1> DEFINE reqs == [i \in DOMAIN us |-> StepReq(us[i])]
           ins  == [i \in DOMAIN us |-> Len(reqs[i].pos)]
           outs == [i \in DOMAIN us |-> IF reqs[i].sampling THEN reqs[i].n ELSE 0]
<1>4. m.reqs = reqs /\ m.input = SumOf(ins) /\ m.output = SumOf(outs)
  BY DEF StepMsg
<1>5. \A i \in 1 .. n :
         us[i] \in ToSet(us) /\ reqs[i].pos = Carried(us[i]) /\ reqs[i].n = Drafts(us[i])
  BY <1>1 DEF StepReq, Carried, ToSet
<1>6. ins \in Seq(0 .. K + 1) /\ Len(ins) = n /\ outs \in Seq(0 .. K) /\ Len(outs) = n
  <2>1. \A i \in 1 .. n : Len(reqs[i].pos) \in 0 .. K + 1
    BY <1>3, <1>5
  <2>2. \A i \in 1 .. n : (IF reqs[i].sampling THEN reqs[i].n ELSE 0) \in 0 .. K
    <3>1. 0 \in 0 .. K
      BY <1>2
    <3> QED BY <1>3, <1>5, <3>1
  <2> HIDE DEF reqs
  <2>3. ins = [i \in 1 .. n |-> Len(reqs[i].pos)]
    BY <1>1
  <2>4. outs = [i \in 1 .. n |-> IF reqs[i].sampling THEN reqs[i].n ELSE 0]
    BY <1>1
  <2>5. ins \in Seq(0 .. K + 1) /\ Len(ins) = n
    <3>1. ins \in Seq(0 .. K + 1)
      BY <1>1, <2>1, <2>3, IsASeq
    <3> QED BY <1>1, <2>3, <3>1
  <2>6. outs \in Seq(0 .. K) /\ Len(outs) = n
    <3>1. outs \in Seq(0 .. K)
      BY <1>1, <2>2, <2>4, IsASeq
    <3> QED BY <1>1, <2>4, <3>1
  <2> QED BY <2>5, <2>6
<1>7. Cardinality({k \in DOMAIN m.reqs : m.reqs[k].n > 0}) <= MaxBatch
  <2>1. PICK S : S = {k \in DOMAIN m.reqs : m.reqs[k].n > 0} /\ S \in SUBSET (1 .. n)
    <3>1. DOMAIN m.reqs = 1 .. n
      BY <1>1, <1>4
    <3> QED BY <3>1
  <2>2. 1 \in Int /\ n \in Int
    BY <1>1
  <2>3. IsFiniteSet(1 .. n) /\ Cardinality(1 .. n) = IF 1 > n THEN 0 ELSE n - 1 + 1
    BY <2>2, FS_Interval
  <2>4. Cardinality(S) <= Cardinality(1 .. n) /\ Cardinality(S) \in Nat
    BY <2>1, <2>3, FS_Subset, FS_CardinalityType
  <2>5. Cardinality(1 .. n) = n
    BY <1>1, <2>3
  <2> QED BY <1>1, <1>2, <2>1, <2>4, <2>5
<1> HIDE DEF reqs, ins, outs
<1>8. m.input \in Nat /\ m.input <= n * (K + 1)
  <2>1. PICK b : b = K + 1 /\ b \in Nat
    BY <1>2
  <2>2. ins \in Seq(0 .. b)
    BY <1>6, <2>1
  <2>3. SumOf(ins) \in Nat /\ SumOf(ins) <= Len(ins) * b
    BY <2>1, <2>2, SumBounded
  <2> QED BY <1>4, <1>6, <2>1, <2>3
<1>9. m.output \in Nat /\ m.output <= n * K
  BY <1>2, <1>4, <1>6, SumBounded
<1>10. m.input <= MaxHiddenRows /\ m.output <= MaxProbRows
  <2>1. PICK b, k, w, x, y : b = MaxBatch /\ k = K /\ w = Window /\ x = m.input /\ y = m.output
    OBVIOUS
  <2>2. /\ b \in Nat /\ k \in Nat /\ w \in Nat /\ n \in Nat /\ n <= b
        /\ x \in Nat /\ y \in Nat /\ x <= n * (k + 1) /\ y <= n * k
    BY <1>1, <1>2, <1>8, <1>9, <2>1
  <2>3. n * (k + 1) <= b * (k + 1) /\ n * k <= b * k /\ b * (k + 1) \in Nat /\ b * k \in Nat
        /\ n * (k + 1) \in Nat /\ n * k \in Nat
    BY <2>2
  <2>4. b * (k + 1) <= Greater(w, b * (k + 1))
    BY <2>2, <2>3 DEF Greater
  <2>5. Greater(w, b * (k + 1)) \in Nat
    BY <2>2, <2>3 DEF Greater
  <2> QED BY <2>1, <2>2, <2>3, <2>4, <2>5 DEF MaxHiddenRows, MaxProbRows
<1> QED
  BY <1>7, <1>10 DEF Sized

(* A step that sends no other step and leaves what is carried for the      *)
(* requests that go on.                                                    *)
LEMMA SizesStay ==
    ASSUME StepInv,
           \A m \in ToSet(toDrafter') \ ToSet(toDrafter) : m.type # "step",
           \A u \in Uid : status'[u] = "running" =>
              \/ status[u] = "running" /\ Carried(u)' = Carried(u)
              \/ CarryFits(u)'
    PROVE  StepInv'
<1>1. \A m \in ToSet(toDrafter') : m.type = "step" => Sized(m)
  BY DEF StepInv
<1>2. \A u \in Uid : status'[u] = "running" => CarryFits(u)'
  BY DEF StepInv, CarryFits
<1> QED
  BY <1>1, <1>2 DEF StepInv

LEMMA StepInvStep ==
    ASSUME StepInv, DraftInv, DraftInv', [Next]_vars, TokenBudget % K = 0
    PROVE  StepInv'
<1> DEFINE Quiet == \A m \in ToSet(toDrafter') \ ToSet(toDrafter) : m.type # "step"
<1>1. CASE UNCHANGED <<target, toDrafter>>
  BY <1>1, SizesStay DEF target, work, Carried
<1>2. ASSUME UNCHANGED target, IsTail(toDrafter', toDrafter)
      PROVE  StepInv'
  <2>1. Quiet
    BY <1>2 DEF IsTail
  <2> QED BY <1>2, <2>1, SizesStay DEF target, work, Carried
<1>3. toDrafter \in Seq(ToSet(toDrafter)) /\ DOMAIN req = Uid
  BY DEF DraftInv, Types
<1>4. CASE MeasureBaseline \/ SizeCache \/ SendHandshake \/ JoinTarget \/ RecvAck
  <2>1. UNCHANGED work /\ (UNCHANGED toDrafter \/ toDrafter' = Append(toDrafter, HandshakeMsg))
    BY <1>4 DEF MeasureBaseline, SizeCache, SendHandshake, JoinTarget, RecvAck, channel
  <2>2. ToSet(toDrafter') \subseteq ToSet(toDrafter) \cup {HandshakeMsg}
    BY <1>3, <2>1, QueueAppend
  <2>3. Quiet
    BY <2>2 DEF HandshakeMsg
  <2> QED BY <2>1, <2>3, SizesStay DEF work, Carried
<1>5. CASE StartDrafter \/ DrafterReady \/ JoinDrafter
  BY <1>1, <1>5 DEF StartDrafter, DrafterReady, JoinDrafter, channel
<1>6. CASE RecvHandshake \/ DraftInit \/ DraftStep \/ DraftRemove
  <2>1. UNCHANGED target /\ toDrafter # <<>> /\ toDrafter' = Tail(toDrafter)
    BY <1>6 DEF RecvHandshake, DraftInit, DraftStep, DraftRemove
  <2> QED BY <1>2, <1>3, <2>1, QueueTail
<1>7. CASE ScheduleNothing \/ SkipPrefill \/ EndIteration
  <2>1. UNCHANGED <<status, req, vstate, toDrafter>>
    BY <1>7 DEF ScheduleNothing, SkipPrefill, EndIteration, channel
  <2> QED BY <2>1, SizesStay DEF Carried
<1>8. ASSUME NEW u \in Uid, RecvUser(u) \/ AbortPrefill(u)
      PROVE  StepInv'
  <2>1. UNCHANGED <<req, vstate, toDrafter>>
    BY <1>8 DEF RecvUser, AbortPrefill, channel
  <2>2. status' = [status EXCEPT ![u] = "pending"] \/ status' = [status EXCEPT ![u] = "aborted"]
    BY <1>8 DEF RecvUser, AbortPrefill
  <2>3. \A v \in Uid : status'[v] = "running" => status[v] = "running"
    BY <2>2 DEF DraftInv, Types
  <2> QED BY <2>1, <2>3, SizesStay DEF Carried
<1>9. ASSUME NEW u \in Uid, AbortRunning(u)
      PROVE  StepInv'
  <2>1. /\ status[u] = "running" /\ status' = [status EXCEPT ![u] = "aborted"] /\ req' = req
        /\ vstate' = [vstate EXCEPT ![req[u].row] = NoState] /\ SendRemoves(<<u>>)
    BY <1>9 DEF AbortRunning
  <2>2. \A v \in Uid : status'[v] = "running" => status[v] = "running" /\ v # u
    BY <2>1 DEF DraftInv, Types
  <2>3. \A v \in Uid : status'[v] = "running" => req[v].row # req[u].row /\ req[v].row \in Row
    BY <2>1, <2>2 DEF DraftInv, Rows, Holders, Numbers
  <2>4. \A v \in Uid : status'[v] = "running" => Carried(v)' = Carried(v)
    BY <2>1, <2>3 DEF DraftInv, Types, Carried
  <2>5. Quiet
    <3>1. <<u>> \in Seq(Uid)
      OBVIOUS
    <3>2. PICK us : us = <<u>> /\ us \in Seq(Uid)
      BY <3>1
    <3> QED BY <2>1, <3>2, RemovesSent
  <2> QED BY <2>2, <2>4, <2>5, SizesStay
<1>10. ASSUME NEW n \in 1 .. Cardinality(Uid), SchedulePrefill(n)
       PROVE  StepInv'
  <2> DEFINE us == ToSet(SubSeq(pend, 1, n))
  <2>1. /\ status' = [v \in Uid |-> IF v \in us THEN "prefill" ELSE status[v]]
        /\ \A v \in Uid \ us : req'[v] = req[v]
        /\ UNCHANGED <<vstate, toDrafter>>
    BY <1>10 DEF SchedulePrefill, channel
  <2> HIDE DEF us
  <2>2. \A v \in Uid : status'[v] = "running" => status[v] = "running" /\ req'[v] = req[v]
    BY <2>1
  <2> QED BY <2>1, <2>2, SizesStay DEF Carried
<1>11. CASE ScheduleVerify
  <2>1. PICK us, m :
          /\ us = Candidates /\ m = StepMsg(us)
          /\ req' = [u \in Uid |-> IF u \in ToSet(us)
                                   THEN [req[u] EXCEPT !.device = @ + Drafts(u)]
                                   ELSE req[u]]
          /\ toDrafter' = Append(toDrafter, m)
          /\ UNCHANGED <<status, vstate>>
    BY <1>11 DEF ScheduleVerify, Send
  <2>2. Sized(m)
    BY <2>1, StepSized
  <2>3. ToSet(toDrafter') = ToSet(toDrafter) \cup {m}
    BY <1>3, <2>1, QueueAppend
  <2>4. ASSUME NEW u \in Uid, status[u] = "running"
        PROVE  Carried(u)' = Carried(u)
    <3>1. req[u] \in Numbers
      BY <2>4 DEF DraftInv, Rows, Holders
    <3>2. PICK q, d : q = req[u] /\ d = Drafts(u)
      OBVIOUS
    <3>3. req'[u] = [q EXCEPT !.device = @ + d] \/ req'[u] = q
      BY <2>1, <3>2
    <3>4. req'[u].row = q.row
      BY <3>1, <3>2, <3>3 DEF Numbers
    <3> QED BY <2>1, <3>2, <3>4 DEF Carried
  <2> QED BY <2>1, <2>2, <2>3, <2>4 DEF StepInv, CarryFits
<1>12. CASE RecvDrafts
  <2>1. PICK reply :
          /\ vstate' = [r \in Row |->
               LET mine == {u \in ToSet(batch.uids) : req[u].row = r} IN
               IF mine = {} THEN vstate[r]
               ELSE [vstate[r] EXCEPT !.drafts = reply[CHOOSE u \in mine : TRUE]]]
          /\ UNCHANGED <<status, req, toDrafter>>
    BY <1>12 DEF RecvDrafts
  <2>2. ASSUME NEW u \in Uid, status[u] = "running"
        PROVE  Carried(u)' = Carried(u)
    <3>1. PICK r : r = req[u].row /\ r \in Row
      BY <2>2 DEF DraftInv, Rows, Holders, Numbers
    <3>2. DOMAIN vstate[r] = {"pos", "hid", "drafts"}
      BY <2>2, <3>1 DEF DraftInv, Windows, Known
    <3>3. PICK x : vstate'[r] = vstate[r] \/ vstate'[r] = [vstate[r] EXCEPT !.drafts = x]
      BY <2>1, <3>1
    <3>4. vstate'[r].pos = vstate[r].pos
      BY <3>2, <3>3
    <3> QED BY <2>1, <3>1, <3>4 DEF Carried
  <2> QED BY <2>1, <2>2, SizesStay
<1>13. ASSUME NEW u \in Uid, NEW eos \in BOOLEAN, ProcessPrefill(u, eos)
       PROVE  StepInv'
  <2>1. PromptRead(u) /\ (PromptGoesOn(u) \/ PromptEnds(u))
    BY <1>13, PromptCases
  <2>2. CASE PromptEnds(u)
    <3>1. Quiet
      <4>1. <<u>> \in Seq(Uid)
        OBVIOUS
      <4>2. PICK us : us = <<u>> /\ us \in Seq(Uid)
        BY <4>1
      <4> QED BY <2>2, <4>2, RemovesSent DEF PromptEnds
    <3>2. \A v \in Uid : status'[v] = "running" => status[v] = "running" /\ v # u
      BY <2>2 DEF PromptEnds, DraftInv, Types
    <3>3. \A v \in Uid : v # u => req'[v] = req[v]
      BY <1>3, <2>1 DEF PromptRead
    <3> QED BY <2>2, <3>1, <3>2, <3>3, SizesStay DEF PromptEnds, Carried
  <2>3. CASE PromptGoesOn(u)
    <3>1. /\ status' = [status EXCEPT ![u] = "running"]
          /\ req'[u].row = req[u].row /\ req[u].row \in Row
          /\ \A v \in Uid : v # u => status'[v] = status[v] /\ req'[v] = req[v]
          /\ \A v \in Uid : status[v] = "running" => req[v].row # req[u].row
      BY <2>1, <2>3, PromptReadKeeps DEF PromptGoesOn, Numbers
    <3>2. ToSet(toDrafter') = ToSet(toDrafter) \cup {InitMsg(u)}
      BY <1>3, <2>3, QueueAppend DEF PromptGoesOn
    <3>3. Quiet
      BY <3>2 DEF InitMsg
    <3>4. /\ DOMAIN vstate = Row
          /\ vstate' = [vstate EXCEPT ![req[u].row] =
                          [pos |-> <<>>, hid |-> <<>>, drafts |-> <<>>]]
      BY <2>3 DEF PromptGoesOn, DraftInv, Types
    <3>5. CarryFits(u)'
      <4>1. Carried(u)' = <<>>
        BY <3>1, <3>4 DEF Carried
      <4>2. Len(<<>>) = 0 /\ K \in Nat
        BY SizesAssumption
      <4> QED BY <4>1, <4>2 DEF CarryFits
    <3>6. \A v \in Uid : v # u /\ status[v] = "running" => Carried(v)' = Carried(v)
      BY <3>1, <3>4 DEF Carried
    <3> QED BY <3>1, <3>3, <3>5, <3>6, SizesStay
  <2> QED BY <2>1, <2>2, <2>3
<1>14. ASSUME NEW result \in Results, ProcessVerify(result.accepted, result.eos)
       PROVE  StepInv'
  <2>1. result.accepted \in [1 .. Len(last.uids) -> 0 .. K]
    BY <1>14 DEF Results
  <2>2. PICK done : RoundRead(done)
    BY <1>14, <2>1, RoundIsRead
  <2>3. PICK ends : ends = Kept(last.uids, done) /\ ends \in Seq(Uid) /\ SendRemoves(ends)
    <3>1. last.uids \in Seq(Uid)
      BY DEF DraftInv, Types, Batches
    <3> QED BY <2>2, <3>1, KeptIs DEF IsKept, RoundRead
  <2>4. Quiet
    BY <2>3, RemovesSent
  <2>5. \A v \in Uid : status'[v] = "running" => status[v] = "running" /\ v \notin done
    BY <2>2 DEF RoundRead
  <2>6. ASSUME NEW v \in Uid, status'[v] = "running"
        PROVE  Carried(v)' = Carried(v) \/ CarryFits(v)'
    <3>1. CASE v \in RoundOf(last)
      BY <2>2, <2>5, <2>6, <3>1 DEF RoundRead, CarryFits, Carried
    <3>2. CASE v \notin RoundOf(last)
      BY <2>2, <2>5, <2>6, <3>2 DEF RoundRead, Carried
    <3> QED BY <3>1, <3>2
  <2> QED BY <2>4, <2>5, <2>6, SizesStay
<1>15. CASE RecvMessage
  BY <1>8, <1>9, <1>15 DEF RecvMessage
<1>16. CASE Target
  <2>1. CASE \E n \in 1 .. Cardinality(Uid) : SchedulePrefill(n)
    BY <1>10, <2>1
  <2>2. CASE \E u \in Uid, eos \in BOOLEAN : ProcessPrefill(u, eos)
    BY <1>13, <2>2
  <2>3. CASE \E result \in Results : ProcessVerify(result.accepted, result.eos)
    BY <1>14, <2>3
  <2> QED BY <1>4, <1>7, <1>11, <1>12, <1>16, <2>1, <2>2, <2>3 DEF Target
<1>17. CASE Drafter
  BY <1>5, <1>6, <1>17 DEF Drafter
<1>18. CASE Blocked \/ UNCHANGED vars
  BY <1>1, <1>18 DEF Blocked, vars, channel
<1> QED
  BY <1>15, <1>16, <1>17, <1>18 DEF Next

(* A round always fits the buffers and the pool it is sent to, whatever    *)
(* was accepted before and whichever requests share it, if the budget of a *)
(* batch is a multiple of the drafts per request, as by default            *)
(* (scheduler/config.py:50-67, verify.py:111-126, data_plane.py:33-41).    *)
THEOREM StepsAlwaysFit ==
    ASSUME TokenBudget % K = 0
    PROVE  Spec => []StepFits
<1>1. Init => StepInv
  BY DEF Init, StepInv, ToSet
<1>2. StepInv /\ DraftInv /\ DraftInv' /\ [Next]_vars => StepInv'
  BY StepInvStep
<1>3. StepInv => StepFits
  BY DEF StepInv, StepFits, Sized, ToSet
<1> QED
  BY <1>1, <1>2, <1>3, DraftsFollow, PTL DEF Spec
-----------------------------------------------------------------------------
(* What the rings of the drafter hold.  A row is used by one request after *)
(* another: the messages on their way say who leaves it and who comes.     *)
IsRemoval(m, u) == m.type = "remove" /\ m.uid = u

Removed(q, u, lo, hi) == \E k \in lo .. hi : IsRemoval(q[k], u)

(* Who comes to a row comes after who has it left, in the order of the queue. *)
InTurns(q, known) ==
    /\ \A u, v \in DOMAIN known : known[u].row = known[v].row => u = v
    /\ \A i \in 1 .. Len(q) : q[i].type = "init" =>
         /\ \A u \in DOMAIN known : known[u].row = q[i].row => Removed(q, u, 1, i - 1)
         /\ \A j \in 1 .. i - 1 : q[j].type = "init" /\ q[j].row = q[i].row =>
              Removed(q, q[j].uid, j + 1, i - 1)

(* Who has not left runs in the row the drafter was told of. *)
Tenants == {<<u, req[u].row>> : u \in {u \in Uid : status[u] = "running"}}

Current(q, known, tenants) ==
    /\ \A u \in DOMAIN known : Removed(q, u, 1, Len(q)) \/ <<u, known[u].row>> \in tenants
    /\ \A i \in 1 .. Len(q) : q[i].type = "init" =>
         Removed(q, q[i].uid, i + 1, Len(q)) \/ <<q[i].uid, q[i].row>> \in tenants

GreetingFits(m) == m.row \in Row /\ m.pos \in Seq(Int) /\ Len(m.pos) <= Window

RingOver(V) ==
    [head : 0 .. Window - 1, len : 0 .. Window, slot : [0 .. Window - 1 -> V]]

IsRing(ring) == ring \in RingOver({ring.slot[c] : c \in 0 .. Window - 1})

IsState(state) ==
    /\ state = [row |-> state.row, window |-> state.window, ready |-> state.ready,
                pending |-> state.pending]
    /\ state.row \in Row /\ state.ready \in BOOLEAN /\ state.window \in Seq(Int)
    /\ state.pending \in Seq(ToSet(state.pending))

Token(ring, i) == ring.slot[(ring.head + i - 1) % Window].token

(* The window of a request is what is in its ring with what waits to be    *)
(* put there, as far as it goes back.                                      *)
Holds(ring, state, u) ==
    LET n == IF state.ready THEN ring.len ELSE 0
        m == Len(state.pending)
        w == Len(state.window)
    IN  /\ w = Lesser(Window, n + m)
        /\ \A k \in 0 .. w - 1 :
             <<u, state.window[w - k]>> =
               IF k < m THEN state.pending[m - k].token ELSE Token(ring, n - (k - m))

RingInv ==
    /\ DOMAIN pool = Row /\ \A r \in Row : IsRing(pool[r])
    /\ \A u \in DOMAIN states : IsState(states[u])
    /\ \A m \in ToSet(toDrafter) : m.type = "init" => GreetingFits(m)
    /\ InTurns(toDrafter, states) /\ Current(toDrafter, states, Tenants)
    /\ \A u \in DOMAIN states : Holds(pool[states[u].row], states[u], u)

-----------------------------------------------------------------------------
(* A place in the ring is one of two turns. *)
LEMMA Wrap ==
    ASSUME NEW w \in Nat \ {0}, NEW a \in 0 .. 2 * w - 1
    PROVE  a % w = IF a < w THEN a ELSE a - w
<1>1. CASE a < w
  BY <1>1
<1>2. CASE ~(a < w)
  <2>1. PICK d, m : d = a \div w /\ m = a % w
    OBVIOUS
  <2>2. d \in Int /\ m \in 0 .. w - 1 /\ a = w * d + m
    BY <2>1
  <2>3. d = 1
    <3>1. CASE d <= 0
      <4>1. w * d <= 0
        BY <2>2, <3>1
      <4> QED BY <1>2, <2>2, <4>1
    <3>2. CASE d >= 2
      <4>1. w * d >= w * 2
        BY <2>2, <3>2
      <4> QED BY <2>2, <4>1
    <3> QED BY <2>2, <3>1, <3>2
  <2> QED BY <1>2, <2>1, <2>2, <2>3
<1> QED
  BY <1>1, <1>2

(* The slot of the i-th row of a ring that starts at h. *)
Place(h, i) == IF h + i - 1 < Window THEN h + i - 1 ELSE h + i - 1 - Window

LEMMA TokenAt ==
    ASSUME NEW V, NEW ring \in RingOver(V), NEW i \in 1 .. Window
    PROVE  /\ Token(ring, i) = ring.slot[Place(ring.head, i)].token
           /\ (ring.head + i - 1) % Window = Place(ring.head, i)
           /\ Place(ring.head, i) \in 0 .. Window - 1
<1>1. PICK w, h : w = Window /\ h = ring.head
  OBVIOUS
<1>2. w \in Nat \ {0} /\ h \in 0 .. w - 1 /\ i \in 1 .. w
  BY <1>1, SizesAssumption DEF RingOver
<1>3. PICK a : a = h + i - 1 /\ a \in 0 .. 2 * w - 1
  BY <1>2
<1>4. a % w = IF a < w THEN a ELSE a - w
  BY <1>2, <1>3, Wrap
<1>5. (h + i - 1) % w = Place(h, i) /\ Place(h, i) \in 0 .. w - 1
  BY <1>1, <1>2, <1>3, <1>4 DEF Place
<1> QED
  BY <1>1, <1>5 DEF Token

LEMMA PutIs ==
    ASSUME NEW V, NEW ring \in RingOver(V), NEW e \in V, NEW new, new = Put(ring, e)
    PROVE  /\ new \in RingOver(V) /\ new.len = Lesser(Window, ring.len + 1)
           /\ Token(new, new.len) = e.token
           /\ \A k \in 1 .. new.len - 1 : Token(new, new.len - k) = Token(ring, ring.len - (k - 1))
<1>1. PICK w, h, l, s : w = Window /\ h = ring.head /\ l = ring.len /\ s = ring.slot
  OBVIOUS
<1>2. /\ w \in Nat \ {0} /\ h \in 0 .. w - 1 /\ l \in 0 .. w /\ s \in [0 .. w - 1 -> V]
      /\ ring = [head |-> h, len |-> l, slot |-> s]
  BY <1>1, SizesAssumption DEF RingOver
<1>a. w \in Nat \ {0} /\ h \in 0 .. w - 1 /\ l \in 0 .. w
  BY <1>2
<1>b. \A f, i : Place(f, i) = IF f + i - 1 < w THEN f + i - 1 ELSE f + i - 1 - w
  BY <1>1 DEF Place
<1>c. s \in [0 .. w - 1 -> V]
  BY <1>2
<1>d. RingOver(V) = [head : 0 .. w - 1, len : 0 .. w, slot : [0 .. w - 1 -> V]]
  BY <1>1 DEF RingOver
<1>3. CASE l < w
  <2>1. PICK p : p = (h + l) % w /\ p = Place(h, l + 1) /\ p \in 0 .. w - 1
    <3>1. l + 1 \in 1 .. w /\ h + (l + 1) - 1 = h + l
      BY <1>2, <1>3
    <3> QED BY <1>1, <1>2, <3>1, TokenAt
  <2>2. new = [head |-> h, len |-> l + 1, slot |-> [s EXCEPT ![p] = e]]
    <3>1. new = [ring EXCEPT !.len = @ + 1, !.slot[(ring.head + ring.len) % Window] = e]
      BY <1>1, <1>3 DEF Put
    <3>2. new = [ring EXCEPT !.len = l + 1, !.slot[p] = e]
      BY <1>1, <2>1, <3>1
    <3> QED BY <1>2, <3>2
  <2>3. PICK t : t = [s EXCEPT ![p] = e] /\ t \in [0 .. w - 1 -> V]
                 /\ t[p] = e /\ \A q \in 0 .. w - 1 : q # p => t[q] = s[q]
    <3>1. p \in 0 .. w - 1
      BY <2>1
    <3>2. /\ [s EXCEPT ![p] = e] \in [0 .. w - 1 -> V] /\ [s EXCEPT ![p] = e][p] = e
          /\ \A q \in 0 .. w - 1 : q # p => [s EXCEPT ![p] = e][q] = s[q]
      BY <1>c, <3>1
    <3> QED BY <3>2
  <2>4. new \in RingOver(V) /\ new.len = l + 1 /\ new.head = h /\ new.slot = t
    <3>1. l + 1 \in 0 .. w
      BY <1>a, <1>3
    <3>2. new = [head |-> h, len |-> l + 1, slot |-> t]
      BY <2>2, <2>3
    <3> QED BY <1>a, <1>d, <2>3, <3>1, <3>2
  <2>5. \A i \in 1 .. l + 1 : Token(new, i) = t[Place(h, i)].token
    <3>1. \A i \in 1 .. l + 1 : i \in 1 .. Window
      BY <1>1, <1>2, <1>3
    <3> QED BY <2>4, <3>1, TokenAt
  <2>6. \A i \in 1 .. l : Token(ring, i) = s[Place(h, i)].token /\ Place(h, i) \in 0 .. w - 1
    <3>1. \A i \in 1 .. l : i \in 1 .. Window
      BY <1>1, <1>2, <1>3
    <3> QED BY <1>1, <3>1, TokenAt
  <2>7. \A i \in 1 .. l : Place(h, i) # p
    <3>1. p = IF h + (l + 1) - 1 < w THEN h + (l + 1) - 1 ELSE h + (l + 1) - 1 - w
      BY <1>b, <2>1
    <3> TAKE i \in 1 .. l
    <3>2. Place(h, i) = IF h + i - 1 < w THEN h + i - 1 ELSE h + i - 1 - w
      BY <1>b
    <3> QED BY <1>a, <1>3, <3>1, <3>2
  <2>8. \A i \in 1 .. l : Token(new, i) = Token(ring, i)
    <3> TAKE i \in 1 .. l
    <3>1. i \in 1 .. l + 1
      BY <1>2
    <3>2. t[Place(h, i)] = s[Place(h, i)]
      BY <2>3, <2>6, <2>7
    <3> QED BY <2>5, <2>6, <3>1, <3>2
  <2>9. Token(new, l + 1) = e.token
    <3>1. l + 1 \in 1 .. l + 1
      BY <1>2
    <3> QED BY <2>1, <2>3, <2>5, <3>1
  <2>10. \A k \in 1 .. l : l + 1 - k \in 1 .. l /\ l + 1 - k = l - (k - 1)
    BY <1>2
  <2>11. new.len = Lesser(w, l + 1) /\ new.len - 1 = l
    BY <1>a, <1>3, <2>4 DEF Lesser
  <2>12. \A k \in 1 .. l : Token(new, l + 1 - k) = Token(ring, l - (k - 1))
    <3> TAKE k \in 1 .. l
    <3>1. PICK i : i = l + 1 - k /\ i \in 1 .. l /\ i = l - (k - 1)
      BY <2>10
    <3> QED BY <2>8, <3>1
  <2>13. Token(new, new.len) = e.token
    BY <2>4, <2>9
  <2>14. \A k \in 1 .. new.len - 1 : Token(new, new.len - k) = Token(ring, ring.len - (k - 1))
    <3>1. new.len - 1 = l /\ new.len = l + 1 /\ ring.len = l
      BY <1>1, <2>4, <2>11
    <3>2. PICK n : n = new.len /\ n - 1 = l /\ n = l + 1
      BY <3>1
    <3>3. ASSUME NEW k \in 1 .. l
          PROVE  Token(new, n - k) = Token(ring, l - (k - 1))
      <4>1. PICK i : i = l + 1 - k /\ i = n - k
        BY <1>a, <3>2
      <4>2. Token(new, i) = Token(ring, l - (k - 1))
        BY <2>12, <4>1
      <4> QED BY <4>1, <4>2
    <3> QED BY <3>1, <3>2, <3>3
  <2>15. new.len = Lesser(Window, ring.len + 1)
    BY <1>1, <2>11
  <2> QED BY <2>4, <2>13, <2>14, <2>15
<1>4. CASE ~(l < w)
  <2>1. l = w
    BY <1>2, <1>4
  <2>2. PICK g : g = (h + 1) % w /\ g = (IF h + 1 < w THEN h + 1 ELSE h + 1 - w) /\ g \in 0 .. w - 1
    <3>1. h + 1 \in 0 .. 2 * w - 1
      BY <1>2
    <3>2. PICK a : a = h + 1 /\ a \in 0 .. 2 * w - 1
      BY <3>1
    <3>3. a % w = IF a < w THEN a ELSE a - w
      BY <1>a, <3>2, Wrap
    <3> QED BY <1>a, <3>2, <3>3
  <2>3. new = [head |-> g, len |-> w, slot |-> [s EXCEPT ![h] = e]]
    <3>1. new = [ring EXCEPT !.head = (@ + 1) % Window, !.slot[ring.head] = e]
      BY <1>1, <1>4 DEF Put
    <3>2. new = [ring EXCEPT !.head = g, !.slot[h] = e]
      BY <1>1, <2>2, <3>1
    <3> QED BY <1>2, <2>1, <3>2
  <2>4. PICK t : t = [s EXCEPT ![h] = e] /\ t \in [0 .. w - 1 -> V]
                 /\ t[h] = e /\ \A q \in 0 .. w - 1 : q # h => t[q] = s[q]
    <3>1. /\ [s EXCEPT ![h] = e] \in [0 .. w - 1 -> V] /\ [s EXCEPT ![h] = e][h] = e
          /\ \A q \in 0 .. w - 1 : q # h => [s EXCEPT ![h] = e][q] = s[q]
      BY <1>a, <1>c
    <3> QED BY <3>1
  <2>5. new \in RingOver(V) /\ new.len = w /\ new.head = g /\ new.slot = t
    <3>1. w \in 0 .. w
      BY <1>a
    <3>2. new = [head |-> g, len |-> w, slot |-> t]
      BY <2>3, <2>4
    <3> QED BY <1>d, <2>2, <2>4, <3>1, <3>2
  <2>6. \A i \in 1 .. w : Token(new, i) = t[Place(g, i)].token
    BY <1>1, <2>5, TokenAt
  <2>7. \A i \in 1 .. w : Token(ring, i) = s[Place(h, i)].token /\ Place(h, i) \in 0 .. w - 1
    BY <1>1, TokenAt
  <2>8. \A i \in 1 .. w - 1 : Place(g, i) = Place(h, i + 1) /\ Place(h, i + 1) # h
    <3> TAKE i \in 1 .. w - 1
    <3>1. /\ Place(g, i) = IF g + i - 1 < w THEN g + i - 1 ELSE g + i - 1 - w
          /\ Place(h, i + 1) = IF h + (i + 1) - 1 < w THEN h + (i + 1) - 1 ELSE h + (i + 1) - 1 - w
      BY <1>b
    <3> QED BY <1>a, <2>2, <3>1
  <2>9. \A i \in 1 .. w - 1 : Token(new, i) = Token(ring, i + 1)
    <3> TAKE i \in 1 .. w - 1
    <3>1. i \in 1 .. w /\ i + 1 \in 1 .. w
      BY <1>2
    <3>2. t[Place(g, i)] = s[Place(h, i + 1)]
      BY <2>4, <2>7, <2>8, <3>1
    <3> QED BY <2>6, <2>7, <3>1, <3>2
  <2>10. Token(new, w) = e.token
    <3>1. w \in 1 .. w /\ Place(g, w) = h
      <4>1. Place(g, w) = IF g + w - 1 < w THEN g + w - 1 ELSE g + w - 1 - w
        BY <1>b
      <4> QED BY <1>a, <2>2, <4>1
    <3> QED BY <2>4, <2>6, <3>1
  <2>11. \A k \in 1 .. w - 1 : w - k \in 1 .. w - 1 /\ w - k + 1 = w - (k - 1)
    BY <1>2
  <2>12. new.len = Lesser(w, l + 1)
    BY <1>2, <2>1, <2>5 DEF Lesser
  <2>13. \A k \in 1 .. w - 1 : Token(new, w - k) = Token(ring, w - (k - 1))
    <3> TAKE k \in 1 .. w - 1
    <3>1. PICK i : i = w - k /\ i \in 1 .. w - 1 /\ i + 1 = w - (k - 1)
      BY <2>11
    <3> QED BY <2>9, <3>1
  <2> QED BY <1>1, <2>1, <2>5, <2>10, <2>12, <2>13
<1> QED
  BY <1>3, <1>4

LEMMA RingTypes ==
    /\ \A ring : IsRing(ring) => \A V : {ring.slot[c] : c \in 0 .. Window - 1} \subseteq V => ring \in RingOver(V)
    /\ \A V : \A ring \in RingOver(V) :
         IsRing(ring) /\ ring.len \in Nat /\ ring.len <= Window /\ Emptied(ring) \in RingOver(V) /\ Emptied(ring).len = 0
<1>0. Window \in Nat \ {0}
  BY SizesAssumption
<1>1. ASSUME NEW ring, IsRing(ring), NEW V, {ring.slot[c] : c \in 0 .. Window - 1} \subseteq V
      PROVE  ring \in RingOver(V)
  BY <1>1 DEF IsRing, RingOver
<1>2. ASSUME NEW V, NEW ring \in RingOver(V)
      PROVE  /\ IsRing(ring) /\ ring.len \in Nat /\ ring.len <= Window
             /\ Emptied(ring) \in RingOver(V) /\ Emptied(ring).len = 0
  <2>1. PICK h, l, s : /\ ring = [head |-> h, len |-> l, slot |-> s]
                       /\ h \in 0 .. Window - 1 /\ l \in 0 .. Window /\ s \in [0 .. Window - 1 -> V]
    BY DEF RingOver
  <2>2. l \in Nat /\ l <= Window /\ 0 \in 0 .. Window - 1 /\ 0 \in 0 .. Window
    BY <1>0, <2>1
  <2>3. Emptied(ring) = [head |-> 0, len |-> 0, slot |-> s]
    <3>1. Emptied(ring) = [[head |-> h, len |-> l, slot |-> s] EXCEPT !.head = 0, !.len = 0]
      BY <2>1 DEF Emptied
    <3> QED BY <3>1
  <2>4. s \in [0 .. Window - 1 -> {s[c] : c \in 0 .. Window - 1}]
    BY <2>1
  <2>5. IsRing(ring)
    BY <2>1, <2>4 DEF IsRing, RingOver
  <2> QED BY <2>1, <2>2, <2>3, <2>5 DEF RingOver
<1> QED
  BY <1>1, <1>2

(* What was in a ring is there no longer than a window.                     *)
LEMMA FilledIs ==
    ASSUME NEW ring, IsRing(ring), NEW state, IsState(state), NEW new, new = Filled(ring, state),
           NEW n, n = IF state.ready THEN ring.len ELSE 0, NEW m, m = Len(state.pending)
    PROVE  /\ IsRing(new) /\ new.len = Lesser(Window, n + m)
           /\ \A k \in 0 .. new.len - 1 :
                Token(new, new.len - k) =
                  IF k < m THEN state.pending[m - k].token ELSE Token(ring, n - (k - m))
<1> DEFINE p == state.pending
           V == {ring.slot[c] : c \in 0 .. Window - 1} \cup ToSet(p)
           start == IF state.ready THEN ring ELSE Emptied(ring)
           turn == [x \in (1 .. m) \X RingOver(V) |-> Put(x[2], p[x[1]])]
           Body(f) == [i \in 0 .. m |-> IF i = 0 THEN start ELSE Put(f[i - 1], p[i])]
           filled == CHOOSE f : f = Body(f)
<1>1. /\ m \in Nat /\ DOMAIN p = 1 .. m /\ Window \in Nat \ {0}
      /\ \A i \in 1 .. m : p[i] \in V
  <2>1. p \in Seq(ToSet(p))
    BY DEF IsState
  <2>2. m \in Nat /\ DOMAIN p = 1 .. m /\ \A i \in 1 .. m : p[i] \in ToSet(p)
    BY <2>1
  <2> QED BY <2>2, SizesAssumption
<1>2. /\ ring \in RingOver(V) /\ start \in RingOver(V) /\ start.len = n /\ n \in Nat /\ n <= Window
      /\ \A i \in 1 .. n : Token(start, i) = Token(ring, i)
  <2>1. {ring.slot[c] : c \in 0 .. Window - 1} \subseteq V
    OBVIOUS
  <2> HIDE DEF V
  <2>2. ring \in RingOver(V)
    BY <2>1, RingTypes
  <2>3. ring.len \in Nat /\ ring.len <= Window /\ Emptied(ring) \in RingOver(V) /\ Emptied(ring).len = 0
    BY <2>2, RingTypes
  <2>4. CASE state.ready
    BY <2>2, <2>3, <2>4
  <2>5. CASE ~state.ready
    BY <1>1, <2>2, <2>3, <2>5
  <2> QED BY <2>4, <2>5
<1>3. new = filled[m]
  BY DEF Filled
<1> HIDE DEF V, p, start
<1>4. turn \in [(1 .. m) \X RingOver(V) -> RingOver(V)]
  <2>1. ASSUME NEW i \in 1 .. m, NEW r \in RingOver(V) PROVE Put(r, p[i]) \in RingOver(V)
    BY <1>1, PutIs
  <2> QED BY <2>1
<1>5. PICK f : IsRun(f, RingOver(V), start, m, turn)
  <2> HIDE DEF turn
  <2> QED BY <1>1, <1>2, <1>4, LoopRuns, Zenon
<1>6. f \in [0 .. m -> RingOver(V)] /\ f[0] = start
  BY <1>5 DEF IsRun
<1>7. ASSUME NEW i \in 1 .. m
      PROVE  f[i] = Put(f[i - 1], p[i])
  <2>1. i - 1 \in 0 .. m
    BY <1>1
  <2>2. f[i - 1] \in RingOver(V)
    BY <1>6, <2>1
  <2>3. f[i] = turn[<<i, f[i - 1]>>]
    BY <1>5 DEF IsRun
  <2> QED BY <2>2, <2>3
<1>8. f = Body(f)
  <2> HIDE DEF turn
  <2>1. f = [i \in 0 .. m |-> f[i]]
    BY <1>6
  <2>2. \A i \in 0 .. m : f[i] = Body(f)[i]
    <3>1. ASSUME NEW i \in 0 .. m, i # 0 PROVE i \in 1 .. m
      BY <1>1, <3>1
    <3> QED BY <1>6, <1>7, <3>1
  <2> QED BY <2>1, <2>2
<1>9. filled = Body(filled)
  BY <1>8
<1>10. filled[0] = start /\ \A i \in 1 .. m : filled[i] = Put(filled[i - 1], p[i])
  <2>1. 0 \in 0 .. m /\ \A i \in 1 .. m : i \in 0 .. m /\ i # 0
    BY <1>1
  <2>2. \A i \in 0 .. m : filled[i] = IF i = 0 THEN start ELSE Put(filled[i - 1], p[i])
    <3> HIDE DEF filled
    <3> QED BY <1>9
  <2> HIDE DEF filled
  <2> QED BY <2>1, <2>2
<1> HIDE DEF filled, turn, Body
<1> DEFINE Good(i) ==
             /\ filled[i] \in RingOver(V) /\ filled[i].len = Lesser(Window, n + i)
             /\ \A k \in 0 .. filled[i].len - 1 :
                  Token(filled[i], filled[i].len - k) =
                    IF k < i THEN p[i - k].token ELSE Token(ring, n - (k - i))
           I == {i \in Nat : i <= m => Good(i)}
<1>11. 0 \in I
  <2>1. filled[0].len = Lesser(Window, n + 0)
    BY <1>1, <1>2, <1>10 DEF Lesser
  <2>2. \A k \in 0 .. n - 1 : n - k \in 1 .. n /\ ~(k < 0) /\ n - (k - 0) = n - k
    BY <1>2
  <2>3. \A k \in 0 .. n - 1 : Token(start, n - k) = Token(ring, n - (k - 0))
    BY <1>2, <2>2
  <2> QED BY <1>2, <1>10, <2>1, <2>2, <2>3
<1>12. ASSUME NEW i \in Nat, i \in I
       PROVE  i + 1 \in I
  <2>1. SUFFICES ASSUME i + 1 <= m PROVE Good(i + 1)
    OBVIOUS
  <2>2. Good(i) /\ i + 1 \in 1 .. m /\ i + 1 - 1 = i
    BY <1>1, <1>12, <2>1
  <2>3. PICK old, r, l, e : old = filled[i] /\ r = filled[i + 1] /\ l = old.len /\ e = p[i + 1]
    OBVIOUS
  <2>4. r = Put(old, e) /\ old \in RingOver(V) /\ e \in V
    BY <1>1, <1>10, <2>2, <2>3
  <2>5. /\ r \in RingOver(V) /\ r.len = Lesser(Window, l + 1) /\ Token(r, r.len) = e.token
        /\ \A k \in 1 .. r.len - 1 : Token(r, r.len - k) = Token(old, l - (k - 1))
    BY <2>3, <2>4, PutIs
  <2>6. PICK w, t : w = Window /\ t = r.len
    OBVIOUS
  <2>7. w \in Nat \ {0} /\ l = Lesser(w, n + i) /\ t = Lesser(w, l + 1)
    BY <1>1, <2>2, <2>3, <2>5, <2>6
  <2>8. t = Lesser(w, n + (i + 1)) /\ t \in Nat /\ l \in Nat /\ t <= l + 1
    <3>1. n \in Nat
      BY <1>2
    <3>2. PICK a : a = n + i /\ a \in Nat /\ n + (i + 1) = a + 1
      BY <3>1
    <3>3. l = IF w < a THEN w ELSE a
      BY <2>7, <3>2 DEF Lesser
    <3>4. t = IF w < l + 1 THEN w ELSE l + 1
      BY <2>7 DEF Lesser
    <3>5. w \in Nat \ {0}
      BY <2>7
    <3>6. l \in Nat /\ t \in Nat /\ t <= l + 1 /\ t = IF w < a + 1 THEN w ELSE a + 1
      BY <3>2, <3>3, <3>4, <3>5
    <3> QED BY <3>2, <3>6 DEF Lesser
  <2>9. ASSUME NEW k \in 0 .. t - 1
        PROVE  Token(r, t - k) = IF k < i + 1 THEN p[i + 1 - k].token ELSE Token(ring, n - (k - (i + 1)))
    <3>1. CASE k = 0
      <4>1. t - k = t /\ i + 1 - k = i + 1 /\ k < i + 1
        BY <2>8, <3>1
      <4> QED BY <2>3, <2>5, <2>6, <4>1
    <3>2. CASE k # 0
      <4>1. PICK j : j = k - 1 /\ j \in 0 .. l - 1 /\ k \in 1 .. t - 1
        BY <2>8, <3>2
      <4>2. Token(r, t - k) = Token(old, l - j)
        BY <2>5, <2>6, <4>1
      <4>3. Token(old, l - j) = IF j < i THEN p[i - j].token ELSE Token(ring, n - (j - i))
        BY <2>2, <2>3, <4>1
      <4>4. /\ j < i <=> k < i + 1
            /\ i - j = i + 1 - k /\ n - (j - i) = n - (k - (i + 1))
        BY <1>2, <4>1
      <4> QED BY <4>2, <4>3, <4>4
    <3> QED BY <3>1, <3>2
  <2>10. filled[i + 1].len = Lesser(Window, n + (i + 1)) /\ filled[i + 1] \in RingOver(V)
    BY <2>3, <2>5, <2>6, <2>8
  <2> QED BY <2>3, <2>6, <2>9, <2>10
<1>13. m \in I
  <2> HIDE DEF I
  <2> QED BY <1>1, <1>11, <1>12, SetInduction
<1>14. Good(m)
  BY <1>1, <1>13
<1>15. IsRing(new)
  BY <1>3, <1>14, RingTypes
<1> QED
  BY <1>3, <1>14, <1>15 DEF p

LEMMA EntriesAre ==
    ASSUME NEW u, NEW pos \in Seq(Int), NEW hid, NEW e, e = Entries(u, pos, hid)
    PROVE  /\ e \in Seq(ToSet(e)) /\ Len(e) = Len(pos)
           /\ \A i \in 1 .. Len(pos) : e[i].token = <<u, pos[i]>>
<1>1. PICK n : n = Len(pos) /\ n \in Nat /\ DOMAIN pos = 1 .. n
  OBVIOUS
<1>2. e = [i \in 1 .. n |-> [token |-> <<u, pos[i]>>, hidden |-> hid[i]]]
  BY <1>1 DEF Entries
<1> DEFINE S == {[token |-> <<u, pos[i]>>, hidden |-> hid[i]] : i \in 1 .. n}
<1>3. e \in Seq(S)
  <2>1. \A i \in 1 .. n : e[i] \in S
    BY <1>2
  <2>2. e = [i \in 1 .. n |-> e[i]]
    BY <1>2
  <2> HIDE DEF S
  <2> QED BY <1>1, <2>1, <2>2, IsASeq
<1> HIDE DEF S
<1>4. Len(e) = n
  BY <1>1, <1>2, <1>3
<1>5. e \in Seq(ToSet(e))
  BY <1>3, OwnList
<1> QED
  BY <1>1, <1>2, <1>4, <1>5

(* A round moves the window as far as what waits for the ring. *)
LEMMA WindowHolds ==
    ASSUME NEW ring, NEW u, NEW state, IsState(state), Holds(ring, state, u),
           NEW n, n = (IF state.ready THEN ring.len ELSE 0), n \in Nat,
           NEW pos \in Seq(Int), NEW hid, NEW new, new = UpdateWindow(state, u, pos, hid)
    PROVE  IsState(new) /\ new.row = state.row /\ Holds(ring, new, u)
<1>1. PICK w, p, a, s : w = state.window /\ p = state.pending /\ a = Entries(u, pos, hid) /\ s = w \o pos
  OBVIOUS
<1>2. PICK l, m, c : l = Len(w) /\ m = Len(p) /\ c = Len(pos)
  OBVIOUS
<1>3. w \in Seq(Int) /\ p \in Seq(ToSet(p)) /\ l \in Nat /\ m \in Nat /\ c \in Nat
  <2>1. w \in Seq(Int) /\ p \in Seq(ToSet(p))
    BY <1>1 DEF IsState
  <2> QED BY <1>2, <2>1
<1>4. /\ s \in Seq(Int) /\ Len(s) = l + c
      /\ \A i \in 1 .. l + c : s[i] = IF i <= l THEN w[i] ELSE pos[i - l]
  BY <1>1, <1>2, <1>3, ConcatProperties
<1>5. a \in Seq(ToSet(a)) /\ Len(a) = c /\ \A i \in 1 .. c : a[i].token = <<u, pos[i]>>
  <2>1. PICK h : h = hid
    OBVIOUS
  <2>2. a = Entries(u, pos, h)
    BY <1>1, <2>1
  <2>3. a \in Seq(ToSet(a)) /\ Len(a) = Len(pos) /\ \A i \in 1 .. Len(pos) : a[i].token = <<u, pos[i]>>
    <3>1. \A f : f = Entries(u, pos, h) => f \in Seq(ToSet(f)) /\ Len(f) = Len(pos)
                                         /\ \A i \in 1 .. Len(pos) : f[i].token = <<u, pos[i]>>
      BY EntriesAre
    <3> QED BY <2>2, <3>1
  <2> QED BY <1>2, <2>3
<1>6. PICK q : q = p \o a
  OBVIOUS
<1>7. /\ q \in Seq(ToSet(q)) /\ Len(q) = m + c
      /\ \A i \in 1 .. m + c : q[i] = IF i <= m THEN p[i] ELSE a[i - m]
  <2>1. q \in Seq(ToSet(q))
    BY <1>3, <1>5, <1>6, QueueConcat
  <2>2. PICK T : T = ToSet(p) \cup ToSet(a)
    OBVIOUS
  <2>3. p \in Seq(T) /\ a \in Seq(T)
    BY <1>3, <1>5, <2>2
  <2>4. /\ Len(q) = Len(p) + Len(a)
        /\ \A i \in 1 .. Len(p) + Len(a) : q[i] = IF i <= Len(p) THEN p[i] ELSE a[i - Len(p)]
    BY <1>6, <2>3, ConcatProperties
  <2> QED BY <1>2, <1>5, <2>1, <2>4
<1>8. PICK W, b : W = Window /\ b = Greater(0, Len(s) - W) + 1
  OBVIOUS
<1>9. W \in Nat \ {0} /\ b \in Nat /\ b = (IF 0 < l + c - W THEN l + c - W ELSE 0) + 1
  <2>1. W \in Nat \ {0}
    BY <1>8, SizesAssumption
  <2>2. PICK t : t = l + c - W /\ t \in Int
    BY <1>3, <2>1
  <2>3. b = Greater(0, t) + 1
    <3>1. Len(s) - W = t
      <4>1. Len(s) = l + c
        BY <1>4
      <4> QED BY <1>3, <2>1, <2>2, <4>1
    <3> QED BY <1>8, <3>1
  <2>4. b = (IF 0 < t THEN t ELSE 0) + 1
    BY <2>3 DEF Greater
  <2> QED BY <1>3, <2>1, <2>2, <2>4
<1>10. PICK x : x = SubSeq(s, b, l + c)
  OBVIOUS
<1>11. PICK z : z = IF W < l + c THEN W ELSE l + c
  OBVIOUS
<1>a. l \in Nat /\ m \in Nat /\ c \in Nat
  BY <1>3
<1>12. z \in Nat /\ z = l + c - b + 1 /\ 1 <= b /\ b <= l + c + 1
  BY <1>3, <1>9, <1>11
<1>13. x \in Seq(Int) /\ Len(x) = z /\ \A i \in 1 .. z : x[i] = s[b + i - 1]
  <2>1. PICK t : t = l + c /\ t \in Nat /\ z = t - b + 1 /\ b <= t + 1
    <3>1. l + c \in Nat /\ z = (l + c) - b + 1 /\ b <= (l + c) + 1
      BY <1>a, <1>9, <1>12
    <3> QED BY <3>1
  <2>2. \A i \in b .. t : s[i] \in Int
    <3>1. \A i \in b .. t : i \in 1 .. Len(s)
      BY <1>4, <1>9, <1>12, <2>1
    <3> QED BY <1>4, <3>1
  <2>3. b \in Int /\ t \in Int
    BY <1>9, <2>1
  <2>4. /\ x \in Seq(Int) /\ Len(x) = IF b <= t THEN t - b + 1 ELSE 0
        /\ \A i \in 1 .. t - b + 1 : x[i] = s[b + i - 1]
    <3>1. x = SubSeq(s, b, t)
      BY <1>10, <2>1
    <3> QED BY <2>2, <2>3, <3>1, SubSeqProperties
  <2>5. Len(x) = z
    <3>1. z = IF b <= t THEN t - b + 1 ELSE 0
      BY <2>1, <2>3
    <3> QED BY <2>4, <3>1
  <2> QED BY <2>1, <2>4, <2>5
<1>14. new = [row |-> state.row, window |-> x, ready |-> state.ready, pending |-> q]
  <2>1. new = [state EXCEPT !.window = x, !.pending = @ \o a]
    BY <1>1, <1>4, <1>8, <1>10 DEF UpdateWindow
  <2>2. state = [row |-> state.row, window |-> w, ready |-> state.ready, pending |-> p]
    BY <1>1 DEF IsState
  <2>3. new = [[row |-> state.row, window |-> w, ready |-> state.ready, pending |-> p]
                 EXCEPT !.window = x, !.pending = q]
    BY <1>1, <1>6, <2>1, <2>2
  <2> QED BY <2>3
<1>15. /\ l = (IF W < n + m THEN W ELSE n + m)
       /\ \A k \in 0 .. l - 1 :
            <<u, w[l - k]>> = IF k < m THEN p[m - k].token ELSE Token(ring, n - (k - m))
  BY <1>1, <1>2, <1>8 DEF Holds, Lesser
<1>16. z = IF W < n + (m + c) THEN W ELSE n + (m + c)
  <2>1. l = IF W < n + m THEN W ELSE n + m
    BY <1>15
  <2>2. W \in Nat \ {0}
    BY <1>9
  <2>3. PICK g : g = n + m /\ g \in Nat
    BY <1>a
  <2>4. l = (IF W < g THEN W ELSE g) /\ n + (m + c) = g + c
    BY <1>a, <2>1, <2>3
  <2>5. z = IF W < g + c THEN W ELSE g + c
    <3>1. CASE W < g
      <4>1. l = W
        BY <2>4, <3>1
      <4> QED BY <1>a, <1>11, <2>2, <2>3, <3>1, <4>1
    <3>2. CASE ~(W < g)
      <4>1. l = g
        BY <2>4, <3>2
      <4> QED BY <1>11, <4>1
    <3> QED BY <3>1, <3>2
  <2> QED BY <2>4, <2>5
<1>17. ASSUME NEW k \in 0 .. z - 1
       PROVE  <<u, x[z - k]>> =
                IF k < m + c THEN q[m + c - k].token ELSE Token(ring, n - (k - (m + c)))
  <2>1. x[z - k] = s[l + c - k] /\ l + c - k \in 1 .. l + c
    <3>1. PICK i : i = z - k /\ i \in 1 .. z /\ b + i - 1 = l + c - k /\ l + c - k \in 1 .. l + c
      BY <1>3, <1>9, <1>12
    <3> QED BY <1>13, <3>1
  <2>2. CASE k < c
    <3>1. PICK i : i = c - k /\ i \in 1 .. c
      BY <1>3, <2>2
    <3>2. /\ l + c - k = l + i /\ ~(l + i <= l) /\ l + i - l = i
          /\ m + c - k = m + i /\ ~(m + i <= m) /\ m + i - m = i /\ k < m + c /\ m + i \in 1 .. m + c
      BY <1>3, <3>1
    <3>3. s[l + i] = pos[i]
      <4>0. l + i \in 1 .. l + c /\ ~(l + i <= l) /\ l + i - l = i
        BY <1>a, <3>1
      <4>1. PICK t : t = l + i /\ t \in 1 .. l + c /\ ~(t <= l) /\ t - l = i
        BY <1>a, <3>1, <4>0
      <4>2. s[t] = pos[t - l]
        BY <1>4, <4>1
      <4> QED BY <4>1, <4>2
    <3>4. q[m + i] = a[i]
      <4>0. m + i \in 1 .. m + c /\ ~(m + i <= m) /\ m + i - m = i
        BY <1>a, <3>1
      <4>1. PICK t : t = m + i /\ t \in 1 .. m + c /\ ~(t <= m) /\ t - m = i
        BY <1>a, <3>1, <4>0
      <4>2. q[t] = a[t - m]
        BY <1>7, <4>1
      <4> QED BY <4>1, <4>2
    <3> QED BY <1>5, <2>1, <3>1, <3>2, <3>3, <3>4
  <2>3. CASE ~(k < c)
    <3>1. PICK j : j = k - c /\ j \in Nat
      BY <1>3, <2>3
    <3>2. /\ j \in 0 .. l - 1 /\ l + c - k = l - j /\ l - j <= l
          /\ k < m + c <=> j < m
          /\ n - (k - (m + c)) = n - (j - m) /\ m + c - k = m - j
      <4>1. k \in Nat /\ l + c - k \in 1 .. l + c
        BY <1>12, <2>1
      <4> QED BY <1>3, <3>1, <4>1
    <3>3. s[l + c - k] = w[l - j]
      BY <1>4, <2>1, <3>2
    <3>4. j < m => q[m - j] = p[m - j]
      <4>1. j < m => m - j \in 1 .. m + c /\ m - j <= m
        BY <1>3, <3>1
      <4> QED BY <1>7, <4>1
    <3> QED BY <1>15, <2>1, <3>2, <3>3, <3>4
  <2> QED BY <2>2, <2>3
<1>18. IsState(new) /\ new.row = state.row
  BY <1>7, <1>13, <1>14 DEF IsState
<1>19. Holds(ring, new, u)
  <2>1. new.window = x /\ new.pending = q /\ new.ready = state.ready
    BY <1>14
  <2>2. Len(x) = Lesser(Window, n + Len(q))
    BY <1>7, <1>8, <1>13, <1>16 DEF Lesser
  <2>3. \A k \in 0 .. Len(x) - 1 :
          <<u, x[Len(x) - k]>> =
            IF k < Len(q) THEN q[Len(q) - k].token ELSE Token(ring, n - (k - Len(q)))
    <3>1. Len(x) = z /\ Len(q) = m + c
      BY <1>7, <1>13
    <3>2. PICK g, h : g = Len(x) /\ h = Len(q)
      OBVIOUS
    <3>3. g = z /\ h = m + c
      BY <3>1, <3>2
    <3>4. \A k \in 0 .. g - 1 :
            <<u, x[g - k]>> = IF k < h THEN q[h - k].token ELSE Token(ring, n - (k - h))
      BY <1>a, <1>17, <3>3
    <3> QED BY <3>2, <3>4
  <2> QED BY <2>1, <2>2, <2>3 DEF Holds
<1> QED
  BY <1>18, <1>19

LEMMA NewHolds ==
    ASSUME NEW msg, GreetingFits(msg), NEW hid, NEW ring, NEW new, new = NewState(msg, hid)
    PROVE  IsState(new) /\ new.row = msg.row /\ Holds(ring, new, msg.uid)
<1>1. PICK p, a, l : p = msg.pos /\ a = Entries(msg.uid, p, hid) /\ l = Len(p)
  OBVIOUS
<1>2. p \in Seq(Int) /\ l \in Nat /\ l <= Window /\ msg.row \in Row /\ Window \in Nat
  BY <1>1, SizesAssumption DEF GreetingFits
<1>3. a \in Seq(ToSet(a)) /\ Len(a) = l /\ \A i \in 1 .. l : a[i].token = <<msg.uid, p[i]>>
  BY <1>1, <1>2, EntriesAre
<1>4. new = [row |-> msg.row, window |-> p, ready |-> FALSE, pending |-> a]
  BY <1>1 DEF NewState
<1>5. IsState(new) /\ new.row = msg.row
  BY <1>2, <1>3, <1>4 DEF IsState
<1>6. l = Lesser(Window, 0 + l)
  BY <1>2 DEF Lesser
<1>7. \A k \in 0 .. l - 1 : k < l /\ l - k \in 1 .. l
  BY <1>2
<1>8. \A k \in 0 .. l - 1 : <<msg.uid, p[l - k]>> = a[l - k].token
  BY <1>3, <1>7
<1>9. Holds(ring, new, msg.uid)
  <2>1. new.window = p /\ new.pending = a /\ ~new.ready /\ Len(p) = l /\ Len(a) = l
    BY <1>1, <1>3, <1>4
  <2>2. Len(new.window) = Lesser(Window, 0 + Len(new.pending))
    BY <1>6, <2>1
  <2>3. \A k \in 0 .. Len(new.window) - 1 :
          /\ k < Len(new.pending)
          /\ <<msg.uid, new.window[Len(new.window) - k]>> = new.pending[Len(new.pending) - k].token
    BY <1>7, <1>8, <2>1
  <2> QED BY <2>1, <2>2, <2>3 DEF Holds
<1> QED
  BY <1>5, <1>9

(* After a draft everything that waited is in the ring. *)
Drafted(state) == [state EXCEPT !.pending = <<>>, !.ready = TRUE]

LEMMA DraftedHolds ==
    ASSUME NEW ring, IsRing(ring), NEW u, NEW state, IsState(state), Holds(ring, state, u),
           NEW r, r = Filled(ring, state),
           NEW new, new = Drafted(state)
    PROVE  IsRing(r) /\ IsState(new) /\ new.row = state.row /\ Holds(r, new, u)
<1>1. PICK n, m, w, p : /\ n = (IF state.ready THEN ring.len ELSE 0)
                        /\ m = Len(state.pending) /\ w = state.window /\ p = state.pending
  OBVIOUS
<1>2. /\ IsRing(r) /\ r.len = Lesser(Window, n + m)
      /\ \A k \in 0 .. r.len - 1 :
           Token(r, r.len - k) = IF k < m THEN p[m - k].token ELSE Token(ring, n - (k - m))
  BY <1>1, FilledIs
<1>3. new = [row |-> state.row, window |-> w, ready |-> TRUE, pending |-> <<>>]
  <2>1. state = [row |-> state.row, window |-> w, ready |-> state.ready, pending |-> p]
    BY <1>1 DEF IsState
  <2>2. new = [[row |-> state.row, window |-> w, ready |-> state.ready, pending |-> p]
                 EXCEPT !.pending = <<>>, !.ready = TRUE]
    BY <2>1 DEF Drafted
  <2> QED BY <2>2
<1>4. <<>> \in Seq(ToSet(<<>>)) /\ Len(<<>>) = 0
  OBVIOUS
<1>5. IsState(new) /\ new.row = state.row
  BY <1>1, <1>3, <1>4 DEF IsState
<1>6. /\ Len(w) = Lesser(Window, n + m)
      /\ \A k \in 0 .. Len(w) - 1 :
           <<u, w[Len(w) - k]>> = IF k < m THEN p[m - k].token ELSE Token(ring, n - (k - m))
  BY <1>1 DEF Holds
<1>7. PICK l : l = r.len /\ l \in Nat /\ l <= Window /\ l = Len(w)
  <2>1. r.len \in Nat /\ r.len <= Window
    BY <1>2, RingTypes DEF IsRing
  <2> QED BY <1>2, <1>6, <2>1
<1>8. l = Lesser(Window, l + 0)
  <2>1. Window \in Nat
    BY SizesAssumption
  <2> QED BY <1>7, <2>1 DEF Lesser
<1>9. ASSUME NEW k \in 0 .. l - 1
      PROVE  <<u, w[l - k]>> = Token(r, l - (k - 0)) /\ ~(k < 0)
  <2>1. l - (k - 0) = l - k /\ ~(k < 0)
    BY <1>7
  <2>2. <<u, w[l - k]>> = Token(r, l - k)
    BY <1>2, <1>6, <1>7
  <2> QED BY <2>1, <2>2
<1>10. Holds(r, new, u)
  <2>1. new.window = w /\ new.pending = <<>> /\ new.ready = TRUE /\ Len(<<>>) = 0
    BY <1>3, <1>4
  <2>2. Len(w) = Lesser(Window, r.len + 0)
    BY <1>7, <1>8
  <2>3. \A k \in 0 .. Len(w) - 1 : ~(k < 0) /\ <<u, w[Len(w) - k]>> = Token(r, r.len - (k - 0))
    BY <1>7, <1>9
  <2> QED BY <2>1, <2>2, <2>3 DEF Holds
<1> QED
  BY <1>1, <1>2, <1>5, <1>10

(* The head of the queue is taken, and what it says done. *)
LEMMA TurnTaken ==
    ASSUME NEW q, NEW t, IsTail(t, q), NEW known, NEW next, NEW tenants,
           InTurns(q, known), Current(q, known, tenants), NEW m, m = Head(q),
           \A u \in DOMAIN next :
              \/ u \in DOMAIN known /\ next[u].row = known[u].row /\ ~IsRemoval(m, u)
              \/ m.type = "init" /\ u = m.uid /\ next[u].row = m.row
    PROVE  InTurns(t, next) /\ Current(t, next, tenants)
<1>1. PICK n : n = Len(t) /\ n \in Nat /\ Len(q) = n + 1 /\ m = q[1]
               /\ \A i \in 1 .. n : t[i] = q[i + 1]
  BY DEF IsTail
<1>2. ASSUME NEW u, NEW i \in 1 .. n, NEW j \in 0 .. n, Removed(q, u, i + 1, j + 1)
      PROVE  Removed(t, u, i, j)
  <2>1. PICK k \in i + 1 .. j + 1 : IsRemoval(q[k], u)
    BY <1>2 DEF Removed
  <2>2. PICK l : l = k - 1 /\ l \in i .. j /\ l \in 1 .. n /\ l + 1 = k
    BY <1>1
  <2>3. t[l] = q[k]
    BY <1>1, <2>2
  <2> QED BY <2>1, <2>2, <2>3 DEF Removed
<1>3. ASSUME NEW u, NEW j \in 0 .. n, Removed(q, u, 1, j + 1), ~IsRemoval(m, u)
      PROVE  Removed(t, u, 1, j)
  <2>1. PICK k \in 1 .. j + 1 : IsRemoval(q[k], u)
    BY <1>3 DEF Removed
  <2>2. k # 1
    BY <1>1, <1>3, <2>1
  <2>3. PICK l : l = k - 1 /\ l \in 1 .. j /\ l \in 1 .. n /\ l + 1 = k
    BY <1>1, <2>2
  <2>4. t[l] = q[k]
    BY <1>1, <2>3
  <2> QED BY <2>1, <2>3, <2>4 DEF Removed
<1>4. \A u : ~Removed(q, u, 1, 1 - 1)
  <2>1. \A k \in 1 .. 1 - 1 : FALSE
    OBVIOUS
  <2> QED BY <2>1 DEF Removed
<1>5. \A i \in 1 .. n : i + 1 \in 1 .. n + 1 /\ (i + 1) - 1 = i /\ i - 1 \in 0 .. n /\ (i - 1) + 1 = i
  BY <1>1
<1>6. ASSUME NEW u \in DOMAIN next, NEW v \in DOMAIN next, next[u].row = next[v].row
      PROVE  u = v
  <2>1. \A w \in DOMAIN known : m.type = "init" => known[w].row # m.row
    <3>1. 1 \in 1 .. Len(q)
      BY <1>1
    <3> QED BY <1>1, <1>4, <3>1 DEF InTurns
  <2> QED BY <1>6, <2>1 DEF InTurns
<1>7. ASSUME NEW i \in 1 .. n, t[i].type = "init", NEW u \in DOMAIN next, next[u].row = t[i].row
      PROVE  Removed(t, u, 1, i - 1)
  <2>1. q[i + 1] = t[i] /\ i + 1 \in 1 .. Len(q) /\ (i + 1) - 1 = i /\ i - 1 \in 0 .. n
    BY <1>1, <1>5
  <2>2. CASE u \in DOMAIN known /\ next[u].row = known[u].row /\ ~IsRemoval(m, u)
    <3>1. Removed(q, u, 1, (i + 1) - 1)
      BY <1>7, <2>1, <2>2 DEF InTurns
    <3>2. Removed(q, u, 1, (i - 1) + 1)
      BY <1>5, <2>1, <3>1
    <3> QED BY <1>3, <2>1, <2>2, <3>2
  <2>3. CASE m.type = "init" /\ u = m.uid /\ next[u].row = m.row
    <3>1. 1 \in 1 .. (i + 1) - 1 /\ q[1] = m
      BY <1>1
    <3>2. Removed(q, u, 1 + 1, (i + 1) - 1)
      BY <1>7, <2>1, <2>3, <3>1 DEF InTurns
    <3>3. Removed(q, u, 1 + 1, (i - 1) + 1)
      BY <1>5, <2>1, <3>2
    <3>4. 1 \in 1 .. n
      BY <1>1
    <3> QED BY <1>2, <2>1, <3>3, <3>4
  <2> QED BY <2>2, <2>3
<1>8. ASSUME NEW i \in 1 .. n, t[i].type = "init", NEW j \in 1 .. i - 1,
             t[j].type = "init", t[j].row = t[i].row
      PROVE  Removed(t, t[j].uid, j + 1, i - 1)
  <2>1. q[i + 1] = t[i] /\ i + 1 \in 1 .. Len(q) /\ (i + 1) - 1 = i /\ i - 1 \in 0 .. n
    BY <1>1, <1>5
  <2>2. j \in 1 .. n /\ j + 1 \in 1 .. n /\ j + 1 \in 1 .. (i + 1) - 1
    BY <1>1
  <2>3. q[j + 1] = t[j]
    BY <1>1, <2>2
  <2>4. Removed(q, t[j].uid, (j + 1) + 1, (i + 1) - 1)
    BY <1>8, <2>1, <2>2, <2>3 DEF InTurns
  <2>5. Removed(q, t[j].uid, (j + 1) + 1, (i - 1) + 1)
    BY <1>5, <2>1, <2>4
  <2> QED BY <1>2, <2>1, <2>2, <2>5
<1>9. InTurns(t, next)
  BY <1>1, <1>6, <1>7, <1>8 DEF InTurns
<1>10. n \in 0 .. n
  BY <1>1
<1>11. ASSUME NEW u \in DOMAIN next
       PROVE  Removed(t, u, 1, n) \/ <<u, next[u].row>> \in tenants
  <2>1. CASE u \in DOMAIN known /\ next[u].row = known[u].row /\ ~IsRemoval(m, u)
    <3>1. Removed(q, u, 1, n + 1) \/ <<u, known[u].row>> \in tenants
      BY <1>1, <2>1 DEF Current
    <3> QED BY <1>3, <1>10, <2>1, <3>1
  <2>2. CASE m.type = "init" /\ u = m.uid /\ next[u].row = m.row
    <3>1. 1 \in 1 .. n + 1 /\ q[1] = m
      BY <1>1
    <3>2. Removed(q, u, 1 + 1, n + 1) \/ <<u, m.row>> \in tenants
      BY <1>1, <2>2, <3>1 DEF Current
    <3>3. ASSUME Removed(q, u, 1 + 1, n + 1)
          PROVE  Removed(t, u, 1, n)
      <4>1. n # 0
        BY <1>1, <3>3 DEF Removed
      <4>2. 1 \in 1 .. n
        BY <1>1, <4>1
      <4> QED BY <1>2, <1>10, <3>3, <4>2
    <3> QED BY <2>2, <3>2, <3>3
  <2> QED BY <2>1, <2>2
<1>12. ASSUME NEW i \in 1 .. n, t[i].type = "init"
       PROVE  Removed(t, t[i].uid, i + 1, n) \/ <<t[i].uid, t[i].row>> \in tenants
  <2>1. q[i + 1] = t[i] /\ i + 1 \in 1 .. n + 1
    BY <1>1, <1>5
  <2>2. Removed(q, t[i].uid, (i + 1) + 1, n + 1) \/ <<t[i].uid, t[i].row>> \in tenants
    BY <1>1, <1>12, <2>1 DEF Current
  <2>3. ASSUME Removed(q, t[i].uid, (i + 1) + 1, n + 1)
        PROVE  Removed(t, t[i].uid, i + 1, n)
    <3>1. i # n
      BY <1>1, <2>3 DEF Removed
    <3>2. i + 1 \in 1 .. n
      BY <1>1, <3>1
    <3> QED BY <1>2, <1>10, <2>3, <3>2
  <2> QED BY <2>2, <2>3
<1>13. Current(t, next, tenants)
  BY <1>1, <1>11, <1>12 DEF Current
<1> QED
  BY <1>9, <1>13

(* Messages that greet nobody come behind those in the queue.               *)
Extends(r, q) ==
    /\ Len(q) \in Nat /\ Len(r) \in Nat /\ Len(q) <= Len(r)
    /\ \A i \in 1 .. Len(q) : r[i] = q[i]
    /\ \A i \in Len(q) + 1 .. Len(r) : r[i].type # "init"

LEMMA TurnsStay ==
    ASSUME NEW q, NEW r, Extends(r, q), NEW known, NEW tenants, NEW later,
           InTurns(q, known), Current(q, known, tenants),
           \A u, x : <<u, x>> \in tenants =>
              <<u, x>> \in later \/ Removed(r, u, Len(q) + 1, Len(r))
    PROVE  InTurns(r, known) /\ Current(r, known, later)
<1>1. PICK n, l : n = Len(q) /\ l = Len(r)
  OBVIOUS
<1>2. /\ n \in Nat /\ l \in Nat /\ n <= l /\ \A i \in 1 .. n : r[i] = q[i]
      /\ \A i \in 1 .. l : r[i].type = "init" => i \in 1 .. n
  <2>1. n \in Nat /\ l \in Nat /\ n <= l
    BY <1>1 DEF Extends
  <2>2. \A i \in 1 .. l : i \in 1 .. n \/ i \in n + 1 .. l
    BY <2>1
  <2> QED BY <1>1, <2>1, <2>2 DEF Extends
<1>3. ASSUME NEW u, NEW i \in Nat, 1 <= i, NEW j \in Int, j <= n, Removed(q, u, i, j)
      PROVE  Removed(r, u, i, j)
  <2>1. PICK k \in i .. j : IsRemoval(q[k], u)
    BY <1>3 DEF Removed
  <2>2. k \in 1 .. n
    BY <1>2, <1>3
  <2> QED BY <1>2, <2>1, <2>2 DEF Removed
<1>4. ASSUME NEW u, NEW i \in Nat, 1 <= i, i <= n + 1,
             Removed(q, u, i, n) \/ Removed(r, u, n + 1, l)
      PROVE  Removed(r, u, i, l)
  <2>1. CASE Removed(q, u, i, n)
    <3>1. PICK k \in i .. n : IsRemoval(q[k], u)
      BY <2>1 DEF Removed
    <3>2. k \in 1 .. n /\ k \in i .. l
      BY <1>2, <1>4
    <3> QED BY <1>2, <3>1, <3>2 DEF Removed
  <2>2. CASE Removed(r, u, n + 1, l)
    <3>1. PICK k \in n + 1 .. l : IsRemoval(r[k], u)
      BY <2>2 DEF Removed
    <3>2. k \in i .. l
      BY <1>2, <1>4
    <3> QED BY <3>1, <3>2 DEF Removed
  <2> QED BY <1>4, <2>1, <2>2
<1>5. \A u, x : <<u, x>> \in tenants => <<u, x>> \in later \/ Removed(r, u, n + 1, l)
  BY <1>1
<1>6. \A i \in 1 .. n : /\ i \in Nat /\ 1 <= i /\ i + 1 \in Nat /\ 1 <= i + 1 /\ i + 1 <= n + 1
                       /\ i - 1 \in Int /\ i - 1 <= n /\ \A j \in 1 .. i - 1 : j \in 1 .. n
  BY <1>2
<1>7. InTurns(r, known)
  <2>1. ASSUME NEW i \in 1 .. n, r[i].type = "init", NEW u \in DOMAIN known, known[u].row = r[i].row
        PROVE  Removed(r, u, 1, i - 1)
    <3>1. Removed(q, u, 1, i - 1)
      BY <1>1, <1>2, <2>1 DEF InTurns
    <3> QED BY <1>3, <1>6, <3>1
  <2>2. ASSUME NEW i \in 1 .. n, r[i].type = "init", NEW j \in 1 .. i - 1, r[j].type = "init",
               r[j].row = r[i].row
        PROVE  Removed(r, r[j].uid, j + 1, i - 1)
    <3>1. j \in 1 .. n
      BY <1>6
    <3>2. Removed(q, r[j].uid, j + 1, i - 1)
      BY <1>1, <1>2, <2>2, <3>1 DEF InTurns
    <3> QED BY <1>3, <1>6, <3>1, <3>2
  <2> QED BY <1>1, <1>2, <2>1, <2>2 DEF InTurns
<1>8. Current(r, known, later)
  <2>1. ASSUME NEW u \in DOMAIN known
        PROVE  Removed(r, u, 1, l) \/ <<u, known[u].row>> \in later
    <3>1. Removed(q, u, 1, n) \/ <<u, known[u].row>> \in tenants
      BY <1>1 DEF Current
    <3>2. 1 \in Nat /\ 1 <= 1 /\ 1 <= n + 1
      BY <1>2
    <3> QED BY <1>4, <1>5, <3>1, <3>2
  <2>2. ASSUME NEW i \in 1 .. n, r[i].type = "init"
        PROVE  Removed(r, r[i].uid, i + 1, l) \/ <<r[i].uid, r[i].row>> \in later
    <3>1. Removed(q, r[i].uid, i + 1, n) \/ <<r[i].uid, r[i].row>> \in tenants
      BY <1>1, <1>2, <2>2 DEF Current
    <3> QED BY <1>4, <1>5, <1>6, <3>1
  <2> QED BY <1>1, <1>2, <2>1, <2>2 DEF Current
<1> QED
  BY <1>7, <1>8

(* A greeting is sent for a row that nobody has. *)
LEMMA NewTurn ==
    ASSUME NEW q, NEW r, NEW m, Len(q) \in Nat, Len(r) = Len(q) + 1, r[Len(r)] = m,
           \A i \in 1 .. Len(q) : r[i] = q[i],
           NEW known, NEW tenants, NEW later,
           InTurns(q, known), Current(q, known, tenants),
           \A u, x : <<u, x>> \in tenants => <<u, x>> \in later /\ x # m.row,
           <<m.uid, m.row>> \in later
    PROVE  InTurns(r, known) /\ Current(r, known, later)
<1>1. PICK n : n = Len(q) /\ n \in Nat /\ Len(r) = n + 1 /\ r[n + 1] = m /\ \A i \in 1 .. n : r[i] = q[i]
  OBVIOUS
<1>2. ASSUME NEW u, NEW i \in Nat, 1 <= i, NEW j \in Int, j <= n, NEW k \in Int, j <= k, Removed(q, u, i, j)
      PROVE  Removed(r, u, i, k)
  <2>1. PICK p \in i .. j : IsRemoval(q[p], u)
    BY <1>2 DEF Removed
  <2>2. p \in 1 .. n /\ p \in i .. k
    BY <1>1, <1>2
  <2> QED BY <1>1, <2>1, <2>2 DEF Removed
<1>3. \A i \in 1 .. n + 1 : i \in 1 .. n \/ i = n + 1
  BY <1>1
<1>4. \A i \in 1 .. n : /\ i \in Nat /\ 1 <= i /\ i + 1 \in Nat /\ 1 <= i + 1
                       /\ i - 1 \in Int /\ i - 1 <= n /\ i - 1 <= i - 1
                       /\ \A j \in 1 .. i - 1 : j \in 1 .. n
  BY <1>1
<1>5. n \in Int /\ n <= n /\ n + 1 \in Int /\ n <= n + 1 /\ (n + 1) - 1 = n /\ 1 \in Nat /\ 1 <= 1
  BY <1>1
<1>6. InTurns(r, known)
  <2>1. ASSUME NEW i \in 1 .. n + 1, r[i].type = "init",
               NEW u \in DOMAIN known, known[u].row = r[i].row
        PROVE  Removed(r, u, 1, i - 1)
    <3>1. CASE i \in 1 .. n
      <4>1. Removed(q, u, 1, i - 1)
        BY <1>1, <2>1, <3>1 DEF InTurns
      <4> QED BY <1>2, <1>4, <1>5, <3>1, <4>1
    <3>2. CASE i = n + 1
      <4>1. Removed(q, u, 1, n)
        BY <1>1, <2>1, <3>2 DEF Current
      <4>2. Removed(r, u, 1, n)
        BY <1>2, <1>5, <4>1
      <4> QED BY <1>5, <3>2, <4>2
    <3> QED BY <1>3, <3>1, <3>2
  <2>2. ASSUME NEW i \in 1 .. n + 1, r[i].type = "init", NEW j \in 1 .. i - 1, r[j].type = "init",
               r[j].row = r[i].row
        PROVE  Removed(r, r[j].uid, j + 1, i - 1)
    <3>1. CASE i \in 1 .. n
      <4>1. j \in 1 .. n
        BY <1>4, <3>1
      <4>2. Removed(q, r[j].uid, j + 1, i - 1)
        BY <1>1, <2>2, <3>1, <4>1 DEF InTurns
      <4> QED BY <1>2, <1>4, <3>1, <4>1, <4>2
    <3>2. CASE i = n + 1
      <4>1. j \in 1 .. n
        BY <1>5, <3>2
      <4>2. Removed(q, r[j].uid, j + 1, n)
        BY <1>1, <2>2, <3>2, <4>1 DEF Current
      <4>3. Removed(r, r[j].uid, j + 1, n)
        BY <1>2, <1>4, <1>5, <4>1, <4>2
      <4> QED BY <1>5, <3>2, <4>3
    <3> QED BY <1>3, <3>1, <3>2
  <2>3. \A u, v \in DOMAIN known : known[u].row = known[v].row => u = v
    BY DEF InTurns
  <2> QED BY <1>1, <2>1, <2>2, <2>3 DEF InTurns
<1>7. Current(r, known, later)
  <2>1. ASSUME NEW u \in DOMAIN known
        PROVE  Removed(r, u, 1, n + 1) \/ <<u, known[u].row>> \in later
    <3>1. Removed(q, u, 1, n) \/ <<u, known[u].row>> \in tenants
      BY <1>1 DEF Current
    <3> QED BY <1>2, <1>5, <3>1
  <2>2. ASSUME NEW i \in 1 .. n + 1, r[i].type = "init"
        PROVE  Removed(r, r[i].uid, i + 1, n + 1) \/ <<r[i].uid, r[i].row>> \in later
    <3>1. CASE i \in 1 .. n
      <4>1. Removed(q, r[i].uid, i + 1, n) \/ <<r[i].uid, r[i].row>> \in tenants
        BY <1>1, <2>2, <3>1 DEF Current
      <4> QED BY <1>2, <1>4, <1>5, <3>1, <4>1
    <3>2. CASE i = n + 1
      BY <1>1, <3>2
    <3> QED BY <1>3, <3>1, <3>2
  <2> QED BY <1>1, <2>1, <2>2 DEF Current
<1> QED
  BY <1>6, <1>7

(* Nobody comes, and who goes is removed. *)
LEMMA RingsStay ==
    ASSUME RingInv, DraftInv, DraftInv', UNCHANGED <<states, pool>>, Extends(toDrafter', toDrafter),
           \A u \in Uid : status[u] = "running" =>
              \/ status'[u] = "running" /\ req'[u].row = req[u].row
              \/ Removed(toDrafter', u, Len(toDrafter) + 1, Len(toDrafter'))
    PROVE  RingInv'
<1>1. PICK q, r : q = toDrafter /\ r = toDrafter' /\ q \in Seq(ToSet(q)) /\ r \in Seq(ToSet(r))
  BY DEF DraftInv, Types
<1>2. Extends(r, q)
  BY <1>1
<1>3. \A u, x : <<u, x>> \in Tenants => <<u, x>> \in Tenants' \/ Removed(r, u, Len(q) + 1, Len(r))
  <2>1. ASSUME NEW u, NEW x, <<u, x>> \in Tenants
        PROVE  <<u, x>> \in Tenants' \/ Removed(r, u, Len(q) + 1, Len(r))
    <3>1. u \in Uid /\ status[u] = "running" /\ x = req[u].row
      BY <2>1 DEF Tenants
    <3> QED BY <1>1, <3>1 DEF Tenants
  <2> QED BY <2>1
<1>4. InTurns(r, states) /\ Current(r, states, Tenants')
  <2>1. InTurns(q, states) /\ Current(q, states, Tenants)
    BY <1>1 DEF RingInv
  <2>2. PICK known, tenants, later : known = states /\ tenants = Tenants /\ later = Tenants'
    OBVIOUS
  <2>3. InTurns(q, known) /\ Current(q, known, tenants)
    BY <2>1, <2>2
  <2>4. \A u, x : <<u, x>> \in tenants => <<u, x>> \in later \/ Removed(r, u, Len(q) + 1, Len(r))
    BY <1>3, <2>2
  <2>5. InTurns(r, known) /\ Current(r, known, later)
    BY <1>2, <2>3, <2>4, TurnsStay
  <2> QED BY <2>2, <2>5
<1>5. ASSUME NEW m \in ToSet(r), m.type = "init"
      PROVE  GreetingFits(m)
  <2>1. DOMAIN q = 1 .. Len(q) /\ DOMAIN r = 1 .. Len(r) /\ Len(q) \in Nat /\ Len(r) \in Nat
    BY <1>1
  <2>2. PICK i \in 1 .. Len(r) : m = r[i]
    BY <2>1 DEF ToSet
  <2>3. i \in 1 .. Len(q)
    <3>1. i \in 1 .. Len(q) \/ i \in Len(q) + 1 .. Len(r)
      BY <2>1
    <3> QED BY <1>2, <1>5, <2>2, <3>1 DEF Extends
  <2>4. m \in ToSet(q)
    BY <1>2, <2>1, <2>2, <2>3 DEF ToSet, Extends
  <2> QED BY <1>1, <1>5, <2>4 DEF RingInv
<1> QED
  BY <1>1, <1>4, <1>5 DEF RingInv

LEMMA RemovalsBehind ==
    ASSUME DraftInv, NEW us \in Seq(Uid), SendRemoves(us)
    PROVE  /\ Extends(toDrafter', toDrafter)
           /\ \A u \in ToSet(us) : Removed(toDrafter', u, Len(toDrafter) + 1, Len(toDrafter'))
<1> DEFINE removes == [i \in DOMAIN us |-> RemoveMsg(us[i])]
<1>1. toDrafter' = toDrafter \o removes
  BY DEF SendRemoves
<1>2. PICK q, r, n : q = toDrafter /\ r = toDrafter' /\ n = Len(us) /\ n \in Nat /\ DOMAIN us = 1 .. n
                     /\ q \in Seq(ToSet(q))
  <2>1. toDrafter \in Seq(ToSet(toDrafter))
    BY DEF DraftInv, Types
  <2>2. Len(us) \in Nat /\ DOMAIN us = 1 .. Len(us)
    OBVIOUS
  <2> QED BY <2>1, <2>2
<1>3. /\ removes \in Seq({RemoveMsg(u) : u \in ToSet(us)}) /\ Len(removes) = n
      /\ \A i \in 1 .. n : removes[i] = RemoveMsg(us[i])
  <2>1. \A i \in 1 .. n : RemoveMsg(us[i]) \in {RemoveMsg(u) : u \in ToSet(us)}
    BY <1>2 DEF ToSet
  <2>2. removes \in Seq({RemoveMsg(u) : u \in ToSet(us)})
    BY <1>2, <2>1, IsASeq
  <2> QED BY <1>2, <2>2
<1> HIDE DEF removes
<1>4. PICK l : l = Len(q) /\ l \in Nat
  BY <1>2
<1>5. Len(r) = l + n /\ \A i \in 1 .. l + n : r[i] = IF i <= l THEN q[i] ELSE removes[i - l]
  <2>1. PICK T : T = ToSet(q) \cup {RemoveMsg(u) : u \in ToSet(us)}
    OBVIOUS
  <2>2. q \in Seq(T) /\ removes \in Seq(T)
    BY <1>2, <1>3, <2>1
  <2>3. /\ Len(r) = Len(q) + Len(removes)
        /\ \A i \in 1 .. Len(q) + Len(removes) : r[i] = IF i <= Len(q) THEN q[i] ELSE removes[i - Len(q)]
    BY <1>1, <1>2, <2>2, ConcatProperties
  <2> QED BY <1>3, <1>4, <2>3
<1>6. \A i \in 1 .. n : r[l + i] = RemoveMsg(us[i])
  <2> TAKE i \in 1 .. n
  <2>1. PICK j : j = l + i /\ j \in 1 .. l + n /\ ~(j <= l) /\ j - l = i
    BY <1>2, <1>4
  <2>2. r[j] = removes[j - l]
    BY <1>5, <2>1
  <2> QED BY <1>3, <2>1, <2>2
<1>7. \A j \in l + 1 .. l + n : r[j].type # "init"
  <2> TAKE j \in l + 1 .. l + n
  <2>1. PICK i \in 1 .. n : j = l + i
    <3>1. j - l \in 1 .. n /\ j = l + (j - l)
      BY <1>2, <1>4
    <3> QED BY <3>1
  <2>2. r[j] = RemoveMsg(us[i])
    BY <1>6, <2>1
  <2>3. RemoveMsg(us[i]).type = "remove"
    BY DEF RemoveMsg
  <2> QED BY <2>2, <2>3
<1>8. Extends(r, q)
  <2>1. \A i \in 1 .. l : i \in 1 .. l + n /\ i <= l
    BY <1>2, <1>4
  <2>2. l + n \in Nat /\ l <= l + n
    BY <1>2, <1>4
  <2> QED BY <1>4, <1>5, <1>7, <2>1, <2>2 DEF Extends
<1>9. ASSUME NEW u \in ToSet(us)
      PROVE  Removed(r, u, l + 1, l + n)
  <2>1. PICK i \in 1 .. n : us[i] = u
    BY <1>2 DEF ToSet
  <2>2. PICK j : j = l + i /\ j \in l + 1 .. l + n
    BY <1>2, <1>4
  <2>3. r[j] = RemoveMsg(u)
    BY <1>6, <2>1, <2>2
  <2> QED BY <2>2, <2>3 DEF Removed, IsRemoval, RemoveMsg
<1> QED
  BY <1>2, <1>4, <1>5, <1>8, <1>9

LEMMA OneBehind ==
    ASSUME DraftInv, NEW m, m.type # "init", toDrafter' = Append(toDrafter, m)
    PROVE  Extends(toDrafter', toDrafter)
<1>1. PICK q, r, n : q = toDrafter /\ r = toDrafter' /\ n = Len(q) /\ n \in Nat /\ q \in Seq(ToSet(q))
  <2>1. toDrafter \in Seq(ToSet(toDrafter))
    BY DEF DraftInv, Types
  <2> QED BY <2>1
<1>2. Len(r) = n + 1 /\ r[n + 1] = m /\ \A i \in 1 .. n : r[i] = q[i]
  BY <1>1, QueueAppend
<1>3. n + 1 \in Nat /\ n <= n + 1 /\ \A i \in n + 1 .. n + 1 : i = n + 1
  BY <1>1
<1> QED
  BY <1>1, <1>2, <1>3 DEF Extends

(* What a message that is taken leaves behind. *)
LEMMA RingsTaken ==
    ASSUME RingInv, DraftInv, toDrafter # <<>>, toDrafter' = Tail(toDrafter), UNCHANGED target,
           NEW m, m = Head(toDrafter),
           \A u \in DOMAIN states' :
              \/ u \in DOMAIN states /\ states'[u].row = states[u].row /\ ~IsRemoval(m, u)
              \/ m.type = "init" /\ u = m.uid /\ states'[u].row = m.row,
           DOMAIN pool' = Row /\ \A r \in Row : IsRing(pool'[r]),
           \A u \in DOMAIN states' : IsState(states'[u]) /\ Holds(pool'[states'[u].row], states'[u], u)
    PROVE  RingInv'
<1>1. toDrafter \in Seq(ToSet(toDrafter))
  BY DEF DraftInv, Types
<1>2. IsTail(toDrafter', toDrafter)
  BY <1>1, QueueTail
<1>3. Tenants' = Tenants
  BY DEF Tenants, target, work
<1>4. PICK q, t, known, next, tenants :
        /\ q = toDrafter /\ t = toDrafter' /\ known = states /\ next = states' /\ tenants = Tenants
  OBVIOUS
<1>5. InTurns(q, known) /\ Current(q, known, tenants)
  BY <1>4 DEF RingInv
<1>6. InTurns(t, next) /\ Current(t, next, tenants)
  BY <1>2, <1>4, <1>5, TurnTaken
<1>7. ToSet(toDrafter') \subseteq ToSet(toDrafter)
  BY <1>2 DEF IsTail
<1> QED
  BY <1>3, <1>4, <1>6, <1>7 DEF RingInv

(* A row is handed to a new request: the old one's rows are not its own.    *)
LEMMA RingsGreeted ==
    ASSUME RingInv, DraftInv, DraftInit
    PROVE  RingInv'
<1>1. PICK m, h :
        /\ m = Head(toDrafter) /\ m.type = "init" /\ toDrafter # <<>> /\ toDrafter' = Tail(toDrafter)
        /\ states' = [u \in DOMAIN states \cup {m.uid} |-> IF u = m.uid THEN NewState(m, h) ELSE states[u]]
        /\ UNCHANGED <<target, pool>>
  BY DEF DraftInit
<1>2. GreetingFits(m)
  <2>1. IsTail(toDrafter', toDrafter)
    BY <1>1, QueueTail DEF DraftInv, Types
  <2> QED BY <1>1, <2>1 DEF RingInv, IsTail
<1>3. ASSUME NEW u \in DOMAIN states'
      PROVE  /\ \/ u \in DOMAIN states /\ states'[u].row = states[u].row /\ ~IsRemoval(m, u)
                \/ m.type = "init" /\ u = m.uid /\ states'[u].row = m.row
             /\ IsState(states'[u]) /\ Holds(pool'[states'[u].row], states'[u], u)
  <2>1. CASE u = m.uid
    <3>1. PICK s, r : s = NewState(m, h) /\ r = pool[s.row]
      OBVIOUS
    <3>2. IsState(s) /\ s.row = m.row /\ Holds(r, s, m.uid)
      BY <1>2, <3>1, NewHolds
    <3>3. states'[u] = s
      BY <1>1, <2>1, <3>1
    <3> QED BY <1>1, <2>1, <3>1, <3>2, <3>3
  <2>2. CASE u # m.uid
    <3>1. u \in DOMAIN states /\ states'[u] = states[u] /\ ~IsRemoval(m, u)
      BY <1>1, <2>2 DEF IsRemoval
    <3> QED BY <1>1, <3>1 DEF RingInv
  <2> QED BY <2>1, <2>2
<1>4. \A r \in Row : IsRing(pool'[r])
  BY <1>1 DEF RingInv
<1>5. DOMAIN pool' = Row
  BY <1>1 DEF RingInv
<1>6. \A u \in DOMAIN states' :
         \/ u \in DOMAIN states /\ states'[u].row = states[u].row /\ ~IsRemoval(m, u)
         \/ m.type = "init" /\ u = m.uid /\ states'[u].row = m.row
  BY <1>3
<1>7. \A u \in DOMAIN states' : IsState(states'[u]) /\ Holds(pool'[states'[u].row], states'[u], u)
  BY <1>3
<1>8. toDrafter # <<>> /\ toDrafter' = Tail(toDrafter) /\ UNCHANGED target /\ m = Head(toDrafter)
  BY <1>1
<1> QED
  BY <1>4, <1>5, <1>6, <1>7, <1>8, RingsTaken

LEMMA RingsLeft ==
    ASSUME RingInv, DraftInv, DraftRemove \/ RecvHandshake
    PROVE  RingInv'
<1>1. PICK m :
        /\ m = Head(toDrafter) /\ toDrafter # <<>> /\ toDrafter' = Tail(toDrafter)
        /\ UNCHANGED <<target, pool>>
        /\ \A u \in DOMAIN states' : u \in DOMAIN states /\ states'[u] = states[u] /\ ~IsRemoval(m, u)
  <2>1. CASE DraftRemove
    BY <2>1 DEF DraftRemove, IsRemoval
  <2>2. CASE RecvHandshake
    <3>1. Head(toDrafter) = HandshakeMsg
      <4>1. dpc = "hello" /\ toDrafter # <<>>
        BY <2>2 DEF RecvHandshake
      <4>2. tpc \in {"join", "ack"} /\ toDrafter = <<HandshakeMsg>>
        BY <4>1 DEF DraftInv, Startup, Types, Working
      <4> QED BY <4>2
    <3>2. PICK m : m = Head(toDrafter) /\ m = HandshakeMsg
      BY <3>1
    <3>3. \A u : ~IsRemoval(m, u)
      BY <3>2 DEF IsRemoval, HandshakeMsg
    <3>4. toDrafter # <<>> /\ toDrafter' = Tail(toDrafter) /\ UNCHANGED <<target, states, pool>>
      BY <2>2 DEF RecvHandshake
    <3> QED BY <3>2, <3>3, <3>4
  <2> QED BY <2>1, <2>2
<1>2. \A r \in Row : IsRing(pool'[r])
  BY <1>1 DEF RingInv
<1>3. \A u \in DOMAIN states' : IsState(states'[u]) /\ Holds(pool'[states'[u].row], states'[u], u)
  BY <1>1 DEF RingInv
<1>4. DOMAIN pool' = Row
  BY <1>1 DEF RingInv
<1> QED
  BY <1>1, <1>2, <1>3, <1>4, RingsTaken

(* A step puts what waits into the rings of the requests that draft.        *)
LEMMA RingsFilled ==
    ASSUME RingInv, DraftInv, DraftStep
    PROVE  RingInv'
<1> DEFINE msg    == Head(toDrafter)
           hid    == IF msg.input > 0 THEN Received(msg.input) ELSE <<>>
           now    == Windowed(msg.reqs, hid)
           asked  == [u \in {msg.reqs[i].uid : i \in DOMAIN msg.reqs} |->
                        LET i == CHOOSE i \in DOMAIN msg.reqs : msg.reqs[i].uid = u
                        IN  msg.reqs[i].n]
           active == {u \in DOMAIN asked : asked[u] > 0}
<1>0. /\ dpc = "loop" /\ toDrafter # <<>> /\ msg.type = "step"
      /\ states' = [u \in DOMAIN states |->
                      IF u \in active
                      THEN [now[u] EXCEPT !.pending = <<>>, !.ready = TRUE]
                      ELSE now[u]]
      /\ pool' = [r \in Row |->
                    LET mine == {u \in active : now[u].row = r} IN
                    IF mine = {} THEN pool[r]
                    ELSE LET u == CHOOSE u \in mine : TRUE IN Filled(pool[r], now[u])]
      /\ toDrafter' = Tail(toDrafter)
      /\ UNCHANGED target
  BY DEF DraftStep
<1>1. /\ msg = Head(toDrafter) /\ now = Windowed(msg.reqs, hid)
      /\ \A u \in active : \E i \in DOMAIN msg.reqs : msg.reqs[i].uid = u
  OBVIOUS
<1> HIDE DEF msg, hid, now, asked, active
<1>2. /\ DOMAIN msg.reqs = DOMAIN batch.uids
      /\ \A i \in DOMAIN batch.uids : IsRequestOf(msg.reqs[i], batch.uids[i])
      /\ \A u \in ToSet(batch.uids) : u \in Uid /\ status[u] = "running"
      /\ \A u \in Uid : status[u] = "running" => u \in DOMAIN states /\ Carried(u) \in Seq(Int)
  BY <1>0, <1>1, RoundIs
<1>3. ASSUME NEW i \in DOMAIN msg.reqs
      PROVE  msg.reqs[i].uid \in DOMAIN states /\ msg.reqs[i].pos \in Seq(Int)
  <2>1. PICK r, v : r = msg.reqs[i] /\ v = batch.uids[i] /\ IsRequestOf(r, v) /\ v \in ToSet(batch.uids)
    BY <1>2 DEF ToSet
  <2>2. r.uid = v /\ r.pos = Carried(v)
    BY <2>1 DEF IsRequestOf
  <2> QED BY <1>2, <2>1, <2>2
<1>4. active \subseteq DOMAIN states
  BY <1>1, <1>3
<1>5. \A u \in DOMAIN states : IsState(states[u]) /\ Holds(pool[states[u].row], states[u], u)
  BY DEF RingInv
<1>6. ASSUME NEW u \in DOMAIN states
      PROVE  /\ IsState(now[u]) /\ now[u].row = states[u].row
             /\ IsRing(pool[now[u].row]) /\ Holds(pool[now[u].row], now[u], u)
  <2>1. PICK s, ring : s = states[u] /\ ring = pool[s.row]
    OBVIOUS
  <2>2. IsState(s) /\ Holds(ring, s, u) /\ IsRing(ring)
    <3>1. s.row \in Row
      BY <1>5, <2>1 DEF IsState
    <3> QED BY <1>5, <2>1, <3>1 DEF RingInv
  <2>3. CASE now[u] = s
    BY <2>1, <2>2, <2>3
  <2>4. CASE \E i \in DOMAIN msg.reqs : \E h : now[u] = UpdateWindow(s, u, msg.reqs[i].pos, h)
    <3>0. PICK i \in DOMAIN msg.reqs : \E h : now[u] = UpdateWindow(s, u, msg.reqs[i].pos, h)
      BY <2>4
    <3>1. PICK h : now[u] = UpdateWindow(s, u, msg.reqs[i].pos, h)
      BY <3>0
    <3>2. PICK pos, new : pos = msg.reqs[i].pos /\ new = now[u] /\ pos \in Seq(Int)
      BY <1>3
    <3>3. new = UpdateWindow(s, u, pos, h)
      BY <3>1, <3>2
    <3>4. PICK n : n = (IF s.ready THEN ring.len ELSE 0) /\ n \in Nat
      BY <2>2, RingTypes DEF IsRing
    <3>5. IsState(new) /\ new.row = s.row /\ Holds(ring, new, u)
      BY <2>2, <3>2, <3>3, <3>4, WindowHolds
    <3> QED BY <2>1, <2>2, <3>2, <3>5
  <2>5. now[u] = s \/ \E i \in DOMAIN msg.reqs : \E h : now[u] = UpdateWindow(s, u, msg.reqs[i].pos, h)
    BY <1>1, <2>1 DEF Windowed
  <2> QED BY <2>3, <2>4, <2>5
<1>7. \A u, v \in DOMAIN states : now[u].row = now[v].row => u = v
  <2>1. \A u, v \in DOMAIN states : states[u].row = states[v].row => u = v
    BY DEF RingInv, InTurns
  <2> QED BY <1>6, <2>1
<1>8. ASSUME NEW u \in active
      PROVE  /\ IsState(states'[u]) /\ states'[u].row = now[u].row
             /\ IsRing(pool'[now[u].row]) /\ Holds(pool'[now[u].row], states'[u], u)
  <2>1. PICK s, ring, new : /\ s = now[u] /\ ring = pool[s.row]
                            /\ new = [s EXCEPT !.pending = <<>>, !.ready = TRUE]
    OBVIOUS
  <2>2. IsState(s) /\ IsRing(ring) /\ Holds(ring, s, u) /\ s.row \in Row
    BY <1>4, <1>6, <2>1 DEF IsState
  <2>3. /\ IsRing(Filled(ring, s)) /\ IsState(new) /\ new.row = s.row
        /\ Holds(Filled(ring, s), new, u)
    <3>1. new = Drafted(s)
      BY <2>1 DEF Drafted
    <3>2. PICK full : full = Filled(ring, s)
      OBVIOUS
    <3>3. IsRing(full) /\ IsState(new) /\ new.row = s.row /\ Holds(full, new, u)
      BY <2>2, <3>1, <3>2, DraftedHolds
    <3> QED BY <3>2, <3>3
  <2>4. states'[u] = new
    BY <1>0, <1>4, <2>1
  <2>5. {v \in active : now[v].row = s.row} = {u}
    BY <1>4, <1>7, <2>1
  <2>6. pool'[s.row] = Filled(ring, s)
    <3>1. (CHOOSE v \in {u} : TRUE) = u
      OBVIOUS
    <3> QED BY <1>0, <2>1, <2>2, <2>5, <3>1
  <2> QED BY <2>1, <2>3, <2>4, <2>6
<1>9. ASSUME NEW u \in DOMAIN states \ active
      PROVE  states'[u] = now[u] /\ pool'[now[u].row] = pool[now[u].row]
  <2>1. now[u].row \in Row
    BY <1>6 DEF IsState
  <2>2. {v \in active : now[v].row = now[u].row} = {}
    BY <1>4, <1>7
  <2> QED BY <1>0, <2>1, <2>2
<1>10. DOMAIN states' = DOMAIN states /\ DOMAIN pool' = Row
  BY <1>0
<1>11. \A u \in DOMAIN states' : IsState(states'[u]) /\ Holds(pool'[states'[u].row], states'[u], u)
  BY <1>6, <1>8, <1>9, <1>10
<1>12. ASSUME NEW r \in Row
       PROVE  IsRing(pool'[r])
  <2>1. CASE \E u \in active : now[u].row = r
    BY <1>8, <2>1
  <2>2. CASE ~\E u \in active : now[u].row = r
    <3>1. {u \in active : now[u].row = r} = {}
      BY <2>2
    <3>2. pool'[r] = pool[r]
      BY <1>0, <3>1
    <3> QED BY <3>2 DEF RingInv
  <2> QED BY <2>1, <2>2
<1>13. \A u \in DOMAIN states' :
          u \in DOMAIN states /\ states'[u].row = states[u].row /\ ~IsRemoval(msg, u)
  <2>1. \A u : ~IsRemoval(msg, u)
    BY <1>0 DEF IsRemoval
  <2>2. \A u \in DOMAIN states : states'[u].row = now[u].row
    BY <1>8, <1>9
  <2> QED BY <1>6, <1>10, <2>1, <2>2
<1>14. toDrafter # <<>> /\ toDrafter' = Tail(toDrafter) /\ UNCHANGED target /\ msg = Head(toDrafter)
  BY <1>0, <1>1
<1>15. \A u \in DOMAIN states' :
         \/ u \in DOMAIN states /\ states'[u].row = states[u].row /\ ~IsRemoval(msg, u)
         \/ msg.type = "init" /\ u = msg.uid /\ states'[u].row = msg.row
  BY <1>13
<1>16. DOMAIN pool' = Row /\ \A r \in Row : IsRing(pool'[r])
  BY <1>10, <1>12
<1> QED
  BY <1>11, <1>14, <1>15, <1>16, RingsTaken

(* make_init_message sends at most a window, for a row that was just given. *)
LEMMA RingsAwaited ==
    ASSUME RingInv, DraftInv, DraftInv', NEW u \in Uid, PromptRead(u), PromptGoesOn(u),
           UNCHANGED <<states, pool>>
    PROVE  RingInv'
<1>1. /\ status' = [status EXCEPT ![u] = "running"] /\ status[u] = "prefill"
      /\ toDrafter' = Append(toDrafter, InitMsg(u))
  BY DEF PromptRead, PromptGoesOn
<1>2. /\ status'[u] = "running" /\ req'[u].row = req[u].row /\ req[u].row \in Row
      /\ \A v \in Uid : v # u => status'[v] = status[v] /\ req'[v] = req[v]
      /\ \A v \in Uid : status[v] = "running" => req[v].row # req[u].row
  <2>1. u \in Holders /\ \A v \in Uid : status[v] = "running" => v \in Holders /\ v # u
    BY <1>1 DEF Holders
  <2>2. \A v \in Uid : status[v] = "running" => req[v].row # req[u].row
    BY <2>1 DEF DraftInv, Rows
  <2> QED BY <1>1, <2>2, PromptReadKeeps DEF Numbers
<1>3. PICK q, r, m, n : /\ q = toDrafter /\ r = toDrafter' /\ m = InitMsg(u) /\ n = Len(q)
                        /\ q \in Seq(ToSet(q)) /\ n \in Nat
  <2>1. toDrafter \in Seq(ToSet(toDrafter))
    BY DEF DraftInv, Types
  <2> QED BY <2>1
<1>4. /\ Len(r) = n + 1 /\ r[Len(r)] = m /\ ToSet(r) = ToSet(q) \cup {m}
      /\ \A i \in 1 .. n : r[i] = q[i]
  <2>1. r = Append(q, m)
    BY <1>1, <1>3
  <2>2. Len(r) = Len(q) + 1 /\ r[Len(r)] = m
    BY <1>3, <2>1, QueueAppend
  <2>4. ToSet(r) = ToSet(q) \cup {m}
    BY <1>3, <2>1, QueueAppend
  <2>3. \A i \in 1 .. Len(q) : r[i] = q[i]
    BY <1>3, <2>1, QueueAppend
  <2> QED BY <1>3, <2>2, <2>3, <2>4
<1>5. m.type = "init" /\ m.uid = u /\ m.row = req[u].row /\ m.pos = InitPositions(u)
  BY <1>3 DEF InitMsg
<1>6. GreetingFits(m)
  <2>1. PICK l, x, w : l = PromptLen[u] /\ x = PromptRows[u] /\ w = Window
    OBVIOUS
  <2>2. l \in Nat /\ x \in Nat /\ w \in Nat /\ x <= l /\ 0 < w
    BY <2>1, SizesAssumption, RequestsAssumption
  <2>3. PICK y : y = Lesser(w, x) /\ y \in Nat /\ y <= w /\ y <= l
    BY <2>2 DEF Lesser
  <2>4. PICK f : f = l + 1 - y /\ f \in Int /\ l - f + 1 = y
    BY <2>2, <2>3
  <2>5. InitPositions(u) = [i \in 1 .. y |-> f + i - 1]
    BY <2>1, <2>3, <2>4 DEF InitPositions, Positions
  <2>6. \A i \in 1 .. y : f + i - 1 \in Int
    BY <2>4
  <2>7. [i \in 1 .. y |-> f + i - 1] \in Seq(Int)
    BY <2>3, <2>6, IsASeq
  <2>8. Len([i \in 1 .. y |-> f + i - 1]) = y
    BY <2>3
  <2> QED BY <1>2, <1>5, <2>1, <2>3, <2>5, <2>7, <2>8 DEF GreetingFits
<1>7. InTurns(r, states) /\ Current(r, states, Tenants')
  <2>1. PICK known, tenants, later : known = states /\ tenants = Tenants /\ later = Tenants'
    OBVIOUS
  <2>2. InTurns(q, known) /\ Current(q, known, tenants)
    BY <1>3, <2>1 DEF RingInv
  <2>3. ASSUME NEW v, NEW x, <<v, x>> \in tenants
        PROVE  <<v, x>> \in later /\ x # m.row
    <3>1. v \in Uid /\ status[v] = "running" /\ x = req[v].row
      BY <2>1, <2>3 DEF Tenants
    <3>2. v # u
      BY <1>1, <3>1
    <3> QED BY <1>2, <1>5, <2>1, <3>1, <3>2 DEF Tenants
  <2>4. <<m.uid, m.row>> \in later
    BY <1>2, <1>5, <2>1 DEF Tenants
  <2>5. InTurns(r, known) /\ Current(r, known, later)
    BY <1>3, <1>4, <2>2, <2>3, <2>4, NewTurn
  <2> QED BY <2>1, <2>5
<1> QED
  BY <1>3, <1>4, <1>6, <1>7 DEF RingInv

LEMMA RingInvStep ==
    ASSUME RingInv, DraftInv, DraftInv', [Next]_vars
    PROVE  RingInv'
<1>1. Extends(toDrafter, toDrafter)
  <2>1. PICK q : q = toDrafter /\ q \in Seq(ToSet(q))
    BY DEF DraftInv, Types
  <2>2. Len(q) \in Nat /\ Len(q) <= Len(q) /\ \A i \in Len(q) + 1 .. Len(q) : FALSE
    BY <2>1
  <2> QED BY <2>1, <2>2 DEF Extends
<1>2. ASSUME UNCHANGED <<states, pool, toDrafter>>,
             \A u \in Uid : status[u] = "running" => status'[u] = "running" /\ req'[u].row = req[u].row
      PROVE  RingInv'
  <2>1. Extends(toDrafter', toDrafter)
    BY <1>1, <1>2
  <2> QED BY <1>2, <2>1, RingsStay
<1>3. CASE UNCHANGED <<status, req, states, pool, toDrafter>>
  BY <1>2, <1>3
<1>4. CASE MeasureBaseline \/ SizeCache \/ JoinTarget \/ RecvAck \/ StartDrafter \/ DrafterReady \/ JoinDrafter
  <2>1. UNCHANGED <<status, req, states, pool, toDrafter>>
    BY <1>4 DEF MeasureBaseline, SizeCache, JoinTarget, RecvAck, StartDrafter, DrafterReady, JoinDrafter,
                target, work, channel, drafter
  <2> QED BY <1>3, <2>1
<1>5. CASE SendHandshake
  <2>1. toDrafter' = Append(toDrafter, HandshakeMsg) /\ UNCHANGED <<status, req, states, pool>>
    BY <1>5 DEF SendHandshake, work, drafter
  <2>2. HandshakeMsg.type # "init"
    BY DEF HandshakeMsg
  <2>3. Extends(toDrafter', toDrafter)
    BY <2>1, <2>2, OneBehind
  <2> QED BY <2>1, <2>3, RingsStay
<1>6. CASE ScheduleNothing \/ SkipPrefill \/ EndIteration \/ RecvDrafts
  <2>1. UNCHANGED <<status, req, states, pool, toDrafter>>
    BY <1>6 DEF ScheduleNothing, SkipPrefill, EndIteration, RecvDrafts, channel, drafter
  <2> QED BY <1>3, <2>1
<1>7. ASSUME NEW u \in Uid, RecvUser(u) \/ AbortPrefill(u)
      PROVE  RingInv'
  <2>1. UNCHANGED <<req, states, pool, toDrafter>> /\ status[u] # "running"
    BY <1>7 DEF RecvUser, AbortPrefill, channel, drafter
  <2>2. status' = [status EXCEPT ![u] = "pending"] \/ status' = [status EXCEPT ![u] = "aborted"]
    BY <1>7 DEF RecvUser, AbortPrefill
  <2>3. \A v \in Uid : status[v] = "running" => status'[v] = "running"
    BY <2>1, <2>2 DEF DraftInv, Types
  <2> QED BY <1>2, <2>1, <2>3
<1>8. ASSUME NEW u \in Uid, SendRemoves(<<u>>), UNCHANGED <<states, pool>>,
             \A v \in Uid : v # u => status'[v] = status[v] /\ req'[v].row = req[v].row
      PROVE  RingInv'
  <2>1. <<u>> \in Seq(Uid) /\ ToSet(<<u>>) = {u}
    <3>1. <<u>> \in Seq(Uid)
      OBVIOUS
    <3>2. ToSet(<<u>>) = {u}
      BY DEF ToSet
    <3> QED BY <3>1, <3>2
  <2>2. PICK us : us = <<u>> /\ us \in Seq(Uid) /\ ToSet(us) = {u}
    BY <2>1
  <2>3. /\ Extends(toDrafter', toDrafter)
        /\ Removed(toDrafter', u, Len(toDrafter) + 1, Len(toDrafter'))
    BY <1>8, <2>2, RemovalsBehind
  <2> QED BY <1>8, <2>3, RingsStay
<1>9. ASSUME NEW u \in Uid, AbortRunning(u)
      PROVE  RingInv'
  <2>1. /\ status' = [status EXCEPT ![u] = "aborted"] /\ req' = req /\ SendRemoves(<<u>>)
        /\ UNCHANGED <<states, pool>>
    BY <1>9 DEF AbortRunning, drafter
  <2>2. \A v \in Uid : v # u => status'[v] = status[v]
    BY <2>1 DEF DraftInv, Types
  <2> QED BY <1>8, <2>1, <2>2
<1>10. ASSUME NEW n \in 1 .. Cardinality(Uid), SchedulePrefill(n)
       PROVE  RingInv'
  <2> DEFINE us == ToSet(SubSeq(pend, 1, n))
  <2>1. /\ status' = [v \in Uid |-> IF v \in us THEN "prefill" ELSE status[v]]
        /\ \A v \in Uid \ us : req'[v] = req[v]
        /\ UNCHANGED <<states, pool, toDrafter>>
    BY <1>10 DEF SchedulePrefill, channel, drafter
  <2>2. us \subseteq ToSet(pend)
    <3>1. PICK p : p = pend /\ p \in Seq(Uid)
      BY DEF DraftInv, Types
    <3>2. n \in 0 .. Len(p)
      <4>1. n \in 1 .. Lesser(Len(p), Len(freeRows)) /\ Len(p) \in Nat /\ Len(freeRows) \in Nat
        <5>1. freeRows \in Seq(Row)
          BY DEF DraftInv, Types
        <5> QED BY <1>10, <3>1, <5>1 DEF SchedulePrefill
      <4> QED BY <4>1 DEF Lesser
    <3>3. ToSet(SubSeq(p, 1, n)) \subseteq ToSet(p)
      BY <3>1, <3>2, SplitIs
    <3> QED BY <3>1, <3>3
  <2> HIDE DEF us
  <2>3. \A v \in Uid : status[v] = "running" => v \notin us
    BY <2>2 DEF DraftInv, Lists
  <2>4. \A v \in Uid : status[v] = "running" => status'[v] = "running" /\ req'[v] = req[v]
    BY <2>1, <2>3
  <2> QED BY <1>2, <2>1, <2>4
<1>11. CASE ScheduleVerify
  <2>1. PICK us, m :
          /\ m.type = "step"
          /\ req' = [u \in Uid |-> IF u \in ToSet(us)
                                   THEN [req[u] EXCEPT !.device = @ + Drafts(u)]
                                   ELSE req[u]]
          /\ toDrafter' = Append(toDrafter, m)
          /\ UNCHANGED <<status, states, pool>>
    BY <1>11 DEF ScheduleVerify, Send, StepMsg, drafter
  <2>2. ASSUME NEW u \in Uid, status[u] = "running"
        PROVE  req'[u].row = req[u].row
    <3>1. req[u] \in Numbers
      BY <2>2 DEF DraftInv, Rows, Holders
    <3>2. PICK q, d : q = req[u] /\ d = Drafts(u)
      OBVIOUS
    <3>3. req'[u] = [q EXCEPT !.device = @ + d] \/ req'[u] = q
      BY <2>1, <3>2
    <3> QED BY <3>1, <3>2, <3>3 DEF Numbers
  <2>3. Extends(toDrafter', toDrafter)
    BY <2>1, OneBehind
  <2> QED BY <2>1, <2>2, <2>3, RingsStay
<1>12. ASSUME NEW u \in Uid, NEW eos \in BOOLEAN, ProcessPrefill(u, eos)
       PROVE  RingInv'
  <2>1. PromptRead(u) /\ (PromptGoesOn(u) \/ PromptEnds(u)) /\ UNCHANGED <<states, pool>>
    BY <1>12, PromptCases DEF ProcessPrefill, drafter
  <2>2. CASE PromptEnds(u)
    <3>1. SendRemoves(<<u>>) /\ status' = [status EXCEPT ![u] = "finished"]
      BY <2>2 DEF PromptEnds
    <3>2. \A v \in Uid : v # u => status'[v] = status[v] /\ req'[v] = req[v]
      BY <2>1, <3>1, PromptReadKeeps
    <3> QED BY <1>8, <2>1, <3>1, <3>2
  <2> QED BY <2>1, <2>2, RingsAwaited
<1>13. ASSUME NEW result \in Results, ProcessVerify(result.accepted, result.eos)
       PROVE  RingInv'
  <2>1. result.accepted \in [1 .. Len(last.uids) -> 0 .. K]
    BY <1>13 DEF Results
  <2>2. PICK done : RoundRead(done)
    BY <1>13, <2>1, RoundIsRead
  <2>3. PICK ends : ends \in Seq(Uid) /\ SendRemoves(ends) /\ done \subseteq ToSet(ends)
    <3>1. last.uids \in Seq(Uid)
      BY DEF DraftInv, Types, Batches
    <3>2. Kept(last.uids, done) \in Seq(Uid) /\ ToSet(Kept(last.uids, done)) = ToSet(last.uids) \cap done
      BY <3>1, KeptIs DEF IsKept
    <3>3. done \subseteq ToSet(last.uids) /\ SendRemoves(Kept(last.uids, done))
      BY <2>2 DEF RoundRead, RoundOf
    <3> QED BY <3>2, <3>3
  <2>4. /\ Extends(toDrafter', toDrafter)
        /\ \A u \in done : Removed(toDrafter', u, Len(toDrafter) + 1, Len(toDrafter'))
    BY <2>3, RemovalsBehind
  <2>5. \A u \in Uid : status[u] = "running" /\ u \notin done => status'[u] = "running"
    BY <2>2 DEF RoundRead
  <2>6. \A u \in Uid : req'[u].row = req[u].row
    BY <2>2 DEF RoundRead
  <2>7. UNCHANGED <<states, pool>>
    BY <1>13 DEF ProcessVerify, drafter
  <2> QED BY <2>4, <2>5, <2>6, <2>7, RingsStay
<1>14. CASE RecvHandshake \/ DraftInit \/ DraftStep \/ DraftRemove
  BY <1>14, RingsLeft, RingsGreeted, RingsFilled
<1>15. CASE RecvMessage
  BY <1>7, <1>9, <1>15 DEF RecvMessage
<1>16. CASE Target
  <2>1. CASE \E n \in 1 .. Cardinality(Uid) : SchedulePrefill(n)
    BY <1>10, <2>1
  <2>2. CASE \E u \in Uid, eos \in BOOLEAN : ProcessPrefill(u, eos)
    BY <1>12, <2>2
  <2>3. CASE \E result \in Results : ProcessVerify(result.accepted, result.eos)
    BY <1>13, <2>3
  <2> QED BY <1>4, <1>5, <1>6, <1>11, <1>16, <2>1, <2>2, <2>3 DEF Target
<1>17. CASE Drafter
  BY <1>4, <1>14, <1>17 DEF Drafter
<1>18. CASE Blocked \/ UNCHANGED vars
  BY <1>3, <1>18 DEF Blocked, vars, target, work, channel, drafter
<1> QED
  BY <1>15, <1>16, <1>17, <1>18 DEF Next

LEMMA RingInvInit == Init => RingInv
<1> SUFFICES ASSUME Init PROVE RingInv
  OBVIOUS
<1>1. toDrafter = <<>> /\ DOMAIN states = {} /\ ToSet(toDrafter) = {} /\ \A i \in 1 .. Len(toDrafter) : FALSE
  BY DEF Init, ToSet
<1>2. DOMAIN pool = Row /\ \A r \in Row :
         pool[r] = [head |-> 0, len |-> 0, slot |-> [c \in 0 .. Window - 1 |-> Junk]]
  BY DEF Init
<1>3. ASSUME NEW r \in Row
      PROVE  IsRing(pool[r])
  <2>1. PICK s : s = [c \in 0 .. Window - 1 |-> Junk]
    OBVIOUS
  <2>2. 0 \in 0 .. Window - 1 /\ 0 \in 0 .. Window
    BY SizesAssumption
  <2>3. s \in [0 .. Window - 1 -> {Junk}]
    BY <2>1
  <2>4. pool[r] \in RingOver({Junk})
    BY <1>2, <2>1, <2>2, <2>3 DEF RingOver
  <2> QED BY <2>4, RingTypes
<1> QED
  BY <1>1, <1>2, <1>3 DEF RingInv, InTurns, Current

(* What the drafter attends to is the request's own window, in order, and  *)
(* nothing of a request that had the row before it, however the messages   *)
(* of the two overtake what the target does (pool.py:102-121,              *)
(* engine.py:124-127).                                                     *)
THEOREM PoolAlwaysHoldsWindow == Spec => []PoolHoldsWindow
<1>1. ASSUME RingInv
      PROVE  PoolHoldsWindow
  <2> SUFFICES ASSUME NEW u \in DOMAIN states, states[u].ready, states[u].pending = <<>>,
                      NEW ring, ring = Chronological(pool[states[u].row])
               PROVE  [i \in DOMAIN ring |-> ring[i].token] = Genuine(u, states[u].window)
    BY DEF PoolHoldsWindow
  <2>1. PICK p, w, n : p = pool[states[u].row] /\ w = states[u].window /\ n = p.len
    OBVIOUS
  <2>2. /\ IsRing(p) /\ w \in Seq(Int) /\ Holds(p, states[u], u)
    BY <1>1, <2>1 DEF RingInv, IsState
  <2>3. n \in Nat /\ n <= Window
    <3>1. PICK V : p \in RingOver(V)
      BY <2>2 DEF IsRing
    <3>2. p.len \in Nat /\ p.len <= Window
      BY <3>1, RingTypes
    <3> QED BY <2>1, <3>2
  <2>4. /\ Len(w) = Lesser(Window, n + 0)
        /\ \A k \in 0 .. Len(w) - 1 : ~(k < 0) => <<u, w[Len(w) - k]>> = Token(p, n - (k - 0))
    <3>1. Len(<<>>) = 0
      OBVIOUS
    <3> QED BY <2>1, <2>2, <3>1 DEF Holds
  <2>5. Len(w) = n
    <3>1. Window \in Nat
      BY SizesAssumption
    <3> QED BY <2>3, <2>4, <3>1 DEF Lesser
  <2>6. \A i \in 1 .. n : <<u, w[i]>> = Token(p, i)
    <3> TAKE i \in 1 .. n
    <3>1. PICK k : k = n - i /\ k \in 0 .. n - 1 /\ ~(k < 0) /\ n - k = i /\ n - (k - 0) = i
      BY <2>3
    <3> QED BY <2>4, <2>5, <3>1
  <2>7. ring = [i \in 1 .. n |-> p.slot[(p.head + i - 1) % Window]]
    BY <2>1 DEF Chronological
  <2>8. \A i \in 1 .. n : ring[i].token = <<u, w[i]>>
    BY <2>6, <2>7 DEF Token
  <2>9. DOMAIN ring = 1 .. n /\ DOMAIN w = 1 .. n
    BY <2>2, <2>5, <2>7
  <2> QED BY <2>1, <2>8, <2>9 DEF Genuine
<1>2. RingInv => PoolHoldsWindow
  BY <1>1
<1>3. RingInv /\ DraftInv /\ DraftInv' /\ [Next]_vars => RingInv'
  BY RingInvStep
<1> QED
  BY <1>2, <1>3, RingInvInit, DraftsFollow, PTL DEF Spec
=============================================================================
