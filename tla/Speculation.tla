---------------------------- MODULE Speculation -----------------------------
(***************************************************************************)
(* Speculative decoding across two processes: the target scheduler with    *)
(* its VerifyManager and SpeculatorClient, and the speculator process with *)
(* its runner, draft manager, engine and DraftKVPool.  They share a FIFO   *)
(* of messages in each direction and a data plane for hidden states and    *)
(* probabilities: NCCL when the drafter has a device of its own            *)
(* (dt_separation), else one buffer in shared memory and a queue of row    *)
(* counts ("local", CUDA IPC or shared CPU memory).                        *)
(*                                                                         *)
(* A target row of hidden states is <<uid, p>>: the state that predicts    *)
(* the token at position p of the committed text, or Junk, if it was       *)
(* computed behind a rejected draft.  Which drafts the target accepts and  *)
(* where it stops is chosen when it reads the results of a round.  Pages   *)
(* and recurrent states are the business of Scheduler and StateSlots.      *)
(***************************************************************************)
EXTENDS Integers, FiniteSets, SequencesExt, Selection

CONSTANTS
    Uid,            \* requests
    PromptLen,      \* Uid -> length of the prompt
    PromptRows,     \* Uid -> rows of its last prefill chunk
    MaxTokens,      \* Uid -> tokens to generate
    Sampling,       \* requests that are not greedy: their drafts need probabilities
    IgnoreEos,      \* requests that do not end at an EOS
    Aborters,       \* requests that a client may abort
    K,              \* num_draft_tokens
    Window,         \* window_size of the drafter
    TokenBudget,    \* decode_batch_budget
    NumRows,        \* max_running_req
    Planes,         \* data planes: subset of {"nccl", "local"}
    Memory,         \* of the target's device
    Ratio,          \* memory_ratio, in percent
    Weights,        \* memory of the target's model
    DrafterBytes,   \* and of the whole drafter
    PageBytes,      \* of a KV page
    StateBytes,     \* of a slot of the linear state
    NoState, NoReq, Junk

ASSUME SizesAssumption ==
    /\ {K, Window, TokenBudget, NumRows} \subseteq Nat \ {0}
    /\ TokenBudget >= K         \* MTPSpeculatorConfig.validate
    /\ Window >= K + 1          \* append_persistent_batch asserts it of every round
    /\ Planes \subseteq {"nccl", "local"}
    /\ {Memory, Ratio, Weights, DrafterBytes, PageBytes, StateBytes} \subseteq Nat \ {0}
ASSUME RequestsAssumption ==
    /\ {PromptLen, PromptRows, MaxTokens} \subseteq [Uid -> Nat \ {0}]
    /\ \A u \in Uid : PromptRows[u] <= PromptLen[u]
    /\ Sampling \cup IgnoreEos \cup Aborters \subseteq Uid

Row == 0 .. NumRows - 1

Lesser(i, j)  == IF i < j THEN i ELSE j
Greater(i, j) == IF i < j THEN j ELSE i

VARIABLES
    plane, signals, \* the data plane, and the startup events that have been set
    free,           \* free memory on the target's device
    baseline, pages, \* the target's first measurement, and num_pages
    \* target: scheduler loop and VerifyManager
    tpc,            \* where the target is
    status,         \* uid -> its place in the life of a request
    req,            \* uid -> [row, cached, device], or NoReq
    pend,           \* pending requests, in order
    freeRows,       \* _free_slots
    running,        \* running_reqs, in insertion order
    inflight,       \* inflight_uids: <<last, next>>
    batch, last,    \* the batch of this and of the previous iteration: [phase, uids]
    idx,            \* requests of a prefill batch already processed
    vstate,         \* _state_table: row -> [pos, hid, drafts], or NoState
    \* between the processes
    toDrafter, fromDrafter,
    hiddenQ,        \* transfers of hidden states not received yet: [rows, value]
    buffer,         \* the shared buffer of a local plane
    overrun,        \* history: rows were published before the previous were received
    probsQ,         \* transfers of probabilities: their number of rows
    \* speculator process
    dpc,
    states,         \* MTPDraftManager.states: uid -> record
    pool            \* DraftKVPool: row -> [head, len, slot]

memory  == <<free, baseline, pages>>
startup == <<plane, signals, memory>>
work    == <<status, req, pend, freeRows, running, inflight, batch, last, idx, vstate>>
target  == <<tpc, work>>
channel == <<toDrafter, fromDrafter, hiddenQ, buffer, overrun, probsQ>>
drafter == <<dpc, states, pool>>
vars    == <<startup, target, channel, drafter>>

NoBatch == [phase |-> "none", uids |-> <<>>]

(* Mutant: a request counts with its bonus row. *)
MaxBatchWithBonus == Lesser(NumRows, TokenBudget \div (K + 1))

(* DataPlaneSizes and the size of the drafter's scratch region. *)
MaxBatch      == Lesser(NumRows, TokenBudget \div K)
MaxHiddenRows == Greater(Window, MaxBatch * (K + 1))
MaxProbRows   == MaxBatch * K

MaxDeviceLen(u) == PromptLen[u] + MaxTokens[u]
RemainLen(u)    == MaxDeviceLen(u) - req[u].device
ExtendLen(u)    == req[u].device - req[u].cached

(* The positions lo .. hi in order, and the genuine hidden rows for them.   *)
Positions(lo, hi) == [i \in 1 .. hi - lo + 1 |-> lo + i - 1]
Genuine(u, pos)   == [i \in DOMAIN pos |-> <<u, pos[i]>>]

SumOf(s) ==
    LET sum[i \in 0 .. Len(s)] == IF i = 0 THEN 0 ELSE sum[i - 1] + s[i]
    IN  sum[Len(s)]

Init ==
    /\ plane \in Planes
    /\ signals = {}
    /\ free = Memory /\ baseline = 0 /\ pages = 0
    /\ tpc = "boot" /\ dpc = "wait"
    /\ status = [u \in Uid |-> "new"]
    /\ req = [u \in Uid |-> NoReq]
    /\ pend = <<>> /\ running = <<>>
    /\ freeRows = [i \in 1 .. NumRows |-> i - 1]
    /\ inflight = <<{}, {}>>
    /\ batch = NoBatch /\ last = NoBatch /\ idx = 0
    /\ vstate = [r \in Row |-> NoState]
    /\ toDrafter = <<>> /\ fromDrafter = <<>> /\ hiddenQ = <<>> /\ probsQ = <<>>
    /\ buffer = [i \in 1 .. MaxHiddenRows |-> Junk] /\ overrun = FALSE
    /\ states = <<>>
    /\ pool = [r \in Row |->
                 [head |-> 0, len |-> 0, slot |-> [c \in 0 .. Window - 1 |-> Junk]]]
-----------------------------------------------------------------------------
(* Startup: the engines, the handshake, and the two ends of the data plane. *)

Shared == plane = "local"

(* The target measures the free memory before the drafter may allocate.     *)
MeasureBaseline ==
    /\ tpc = "boot"
    /\ tpc' = "load"
    /\ baseline' = free
    /\ signals' = signals \cup {"start"}
    /\ UNCHANGED <<plane, free, pages, work, channel, drafter>>

StartDrafter ==
    /\ dpc = "wait"
    /\ Shared => "start" \in signals
    /\ dpc' = "load"
    /\ UNCHANGED <<startup, target, channel, states, pool>>

(* The engine, its pool and the shared buffers of prepare_rank1 are         *)
(* allocated, then on_engine_ready.                                         *)
DrafterReady ==
    /\ dpc = "load"
    /\ dpc' = "hello"
    /\ free' = IF Shared THEN free - DrafterBytes ELSE free
    /\ signals' = signals \cup {"buffers", "ready"}
    /\ UNCHANGED <<plane, baseline, pages, target, channel, states, pool>>

(* _determine_num_pages for a hybrid model: the budget is a share of what   *)
(* was free at first, less what is in use now, less the states that         *)
(* verification reserves (make_reserve).                                    *)
NumDraftStates == NumRows * (K + 1)
MinPages       == 2

DetermineNumPages(now) ==
    LET budget == (Ratio * baseline) \div 100 - (baseline - now) - NumDraftStates * StateBytes
    IN  Greater(MinPages, budget \div (PageBytes + StateBytes))

Loaded == free - Weights

EnoughMemory ==
    NumDraftStates <= ((Ratio * baseline) \div 100 - (baseline - Loaded)
                           - MinPages * (PageBytes + StateBytes)) \div StateBytes

(* What the pools take: the pages, one more for padding, and the states.    *)
PoolBytes(n) == (n + 1) * PageBytes + (n + NumDraftStates) * StateBytes

(* Mutant: the drafter may not have allocated yet. *)
SizeCacheAtOnce ==
    /\ tpc = "load"
    /\ Assert(EnoughMemory, "Not enough memory for speculator states")
    /\ EnoughMemory
    /\ pages' = DetermineNumPages(Loaded)
    /\ free' = Loaded - PoolBytes(pages')
    /\ tpc' = "connect"
    /\ UNCHANGED <<plane, signals, baseline, work, channel, drafter>>

(* The model is loaded and the cache sized with what the drafter has left;  *)
(* the process ends if that is not enough.                                  *)
SizeCache ==
    /\ tpc = "load"
    /\ Shared => "ready" \in signals
    /\ Assert(EnoughMemory, "Not enough memory for speculator states")
    /\ EnoughMemory
    /\ pages' = DetermineNumPages(Loaded)
    /\ free' = Loaded - PoolBytes(pages')
    /\ tpc' = "connect"
    /\ UNCHANGED <<plane, signals, baseline, work, channel, drafter>>

HandshakeMsg == [type |-> "handshake"]

SendHandshake ==
    /\ tpc = "connect"
    /\ toDrafter' = Append(toDrafter, HandshakeMsg)
    /\ tpc' = "join"
    /\ UNCHANGED <<startup, work, fromDrafter, hiddenQ, buffer, overrun, probsQ, drafter>>

RecvHandshake ==
    /\ dpc = "hello" /\ toDrafter # <<>>
    /\ Assert(Head(toDrafter) = HandshakeMsg, "expected SpeculatorHandshakeMsg")
    /\ toDrafter' = Tail(toDrafter)
    /\ dpc' = "join"
    /\ UNCHANGED <<startup, target, fromDrafter, hiddenQ, buffer, overrun, probsQ, states, pool>>

(* init_rank0: a local plane takes the buffers and answers with its event;  *)
(* NCCL waits for the other rank.                                           *)
JoinTarget ==
    /\ tpc = "join"
    /\ IF Shared THEN "buffers" \in signals ELSE dpc \in {"join", "loop"}
    /\ signals' = signals \cup {"event"}
    /\ tpc' = "ack"
    /\ UNCHANGED <<plane, memory, work, channel, drafter>>

(* init_rank1, and the acknowledgement of the handshake. *)
JoinDrafter ==
    /\ dpc = "join"
    /\ IF Shared THEN "event" \in signals ELSE tpc \in {"join", "ack"}
    /\ fromDrafter' = Append(fromDrafter, [type |-> "ack"])
    /\ dpc' = "loop"
    /\ UNCHANGED <<startup, target, toDrafter, hiddenQ, buffer, overrun, probsQ, states, pool>>

RecvAck ==
    /\ tpc = "ack" /\ fromDrafter # <<>>
    /\ Assert(Head(fromDrafter).type = "ack", "expected SpeculatorHandshakeAckMsg")
    /\ fromDrafter' = Tail(fromDrafter)
    /\ tpc' = "recv"
    /\ UNCHANGED <<startup, work, toDrafter, hiddenQ, buffer, overrun, probsQ, drafter>>
-----------------------------------------------------------------------------
(* The data plane.  A transfer of hidden states is in order with the       *)
(* message it belongs to.                                                  *)

(* send_hidden: NCCL moves the rows themselves, a local plane overwrites    *)
(* the head of the buffer and announces how many rows it wrote.             *)
Transfer(value) == [rows |-> Len(value), value |-> IF plane = "nccl" THEN value ELSE <<>>]

Overwritten(value) ==
    IF plane = "nccl"
    THEN buffer
    ELSE value \o SubSeq(buffer, Len(value) + 1, Len(buffer))

(* recv_hidden(n): what the drafter finds.                                  *)
Received(n) == IF plane = "nccl" THEN Head(hiddenQ).value ELSE SubSeq(buffer, 1, n)

(* MainSpeculatorClient.init and step: the message, then the rows, if any.  *)
Send(msg, value) ==
    /\ toDrafter' = Append(toDrafter, msg)
    /\ hiddenQ' = IF value = <<>> THEN hiddenQ ELSE Append(hiddenQ, Transfer(value))
    /\ buffer' = IF value = <<>> THEN buffer ELSE Overwritten(value)
    /\ overrun' = (overrun \/ (Shared /\ value # <<>> /\ hiddenQ # <<>>))
    /\ UNCHANGED <<fromDrafter, probsQ>>

RemoveMsg(u) == [type |-> "remove", uid |-> u]

(* SpeculatorClient.remove: no rows and no answer. *)
SendRemoves(us) ==
    /\ toDrafter' = toDrafter \o [i \in DOMAIN us |-> RemoveMsg(us[i])]
    /\ UNCHANGED <<fromDrafter, hiddenQ, buffer, overrun, probsQ>>
-----------------------------------------------------------------------------
(* Target: receiving and scheduling *)

RecvUser(u) ==
    /\ tpc = "recv" /\ status[u] = "new"
    /\ status' = [status EXCEPT ![u] = "pending"]
    /\ pend' = Append(pend, u)
    /\ UNCHANGED <<startup, tpc, req, freeRows, running, inflight, batch, last, idx, vstate,
                   channel, drafter>>

(* An abort of a request that is not running: PrefillManager.abort_req.     *)
AbortPrefill(u) ==
    /\ tpc = "recv" /\ u \in Aborters
    /\ status[u] \in {"pending", "prefill"}
    /\ status' = [status EXCEPT ![u] = "aborted"]
    /\ pend' = Kept(pend, Uid \ {u})
    /\ freeRows' = IF status[u] = "prefill" THEN Append(freeRows, req[u].row) ELSE freeRows
    /\ UNCHANGED <<startup, tpc, req, running, inflight, batch, last, idx, vstate,
                   channel, drafter>>

(* VerifyManager.abort_req: the request leaves every table at once, also    *)
(* when its round is in flight.                                             *)
AbortRunning(u) ==
    /\ tpc = "recv" /\ u \in Aborters
    /\ status[u] = "running"
    /\ status' = [status EXCEPT ![u] = "aborted"]
    /\ running' = Kept(running, Uid \ {u})
    /\ inflight' = <<inflight[1], inflight[2] \ {u}>>
    /\ vstate' = [vstate EXCEPT ![req[u].row] = NoState]
    /\ freeRows' = Append(freeRows, req[u].row)
    /\ SendRemoves(<<u>>)
    /\ UNCHANGED <<startup, tpc, req, pend, batch, last, idx, drafter>>

Busy == last # NoBatch \/ pend # <<>> \/ running # <<>>

(* Nothing to do: receive_msg blocks. *)
Blocked ==
    /\ tpc = "recv" /\ ~Busy
    /\ UNCHANGED vars

(* PrefillManager.schedule_next_batch: the first n pending requests, as     *)
(* many as there are rows and token budget; the admission tests are those   *)
(* of Scheduler.  Launching computes [0, PromptLen) and                     *)
(* complete_to_device_len moves cached_len.                                 *)
SchedulePrefill(n) ==
    /\ tpc = "recv"
    /\ n \in 1 .. Lesser(Len(pend), Len(freeRows))
    /\ LET us     == SubSeq(pend, 1, n)
           row(u) == freeRows[Len(freeRows) + 1 - CHOOSE i \in 1 .. n : us[i] = u]
       IN  /\ batch' = [phase |-> "prefill", uids |-> us]
           /\ status' = [u \in Uid |-> IF u \in ToSet(us) THEN "prefill" ELSE status[u]]
           /\ req' = [u \in Uid |->
                        IF u \in ToSet(us)
                        THEN [row |-> row(u), cached |-> PromptLen[u], device |-> PromptLen[u]]
                        ELSE req[u]]
    /\ freeRows' = SubSeq(freeRows, 1, Len(freeRows) - n)
    /\ pend' = SubSeq(pend, n + 1, Len(pend))
    /\ tpc' = "process" /\ idx' = 0
    /\ UNCHANGED <<startup, running, inflight, last, vstate, channel, drafter>>

(* No prefill: nothing is pending, or the head of the list gets no row.     *)
NoPrefill == pend = <<>> \/ freeRows = <<>>

(* An iteration is skipped when requests outside the batch in flight could  *)
(* join those in it for a larger batch.                                     *)
SkipsIteration ==
    LET flying == Cardinality(inflight[2]) IN
    0 < flying * K /\ flying * K < TokenBudget /\ Len(running) > flying

(* Running requests not in flight, in order, until the budget is used up:   *)
(* the last one may exceed it.                                              *)
Candidates ==
    LET idle == Kept(running, Uid \ inflight[2])
    IN  SubSeq(idle, 1, Lesser(Len(idle), (TokenBudget + K - 1) \div K))

Drafts(u) == IF RemainLen(u) > 0 THEN Lesser(K, RemainLen(u) - 1) ELSE 0

StepReq(u) ==
    [uid |-> u, n |-> Drafts(u), pos |-> vstate[req[u].row].pos, sampling |-> u \in Sampling]

StepMsg(us) ==
    LET reqs == [i \in DOMAIN us |-> StepReq(us[i])] IN
    [type |-> "step", reqs |-> reqs,
     input  |-> SumOf([i \in DOMAIN us |-> Len(reqs[i].pos)]),
     output |-> SumOf([i \in DOMAIN us |-> IF reqs[i].sampling THEN reqs[i].n ELSE 0])]

(* VerifyManager.schedule_next_batch up to the blocking client.step.        *)
ScheduleVerify ==
    /\ tpc = "recv" /\ Busy /\ NoPrefill
    /\ ~SkipsIteration /\ Candidates # <<>>
    /\ LET us == Candidates IN
       /\ inflight' = <<inflight[2], ToSet(us)>>
       /\ batch' = [phase |-> "verify", uids |-> us]
       /\ req' = [u \in Uid |-> IF u \in ToSet(us)
                                THEN [req[u] EXCEPT !.device = @ + Drafts(u)]
                                ELSE req[u]]
       /\ Send(StepMsg(us), FlattenSeq([i \in DOMAIN us |-> vstate[req[us[i]].row].hid]))
    /\ tpc' = "step"
    /\ UNCHANGED <<startup, status, pend, freeRows, running, last, idx, vstate, drafter>>

(* Mutant: the test comes before the sets are rotated. *)
ScheduleNothingUnrotated ==
    /\ tpc = "recv" /\ Busy /\ NoPrefill
    /\ SkipsIteration \/ Candidates = <<>>
    /\ batch' = NoBatch
    /\ tpc' = "process" /\ idx' = 0
    /\ UNCHANGED <<startup, status, req, pend, freeRows, running, inflight, last, vstate,
                   channel, drafter>>

(* The iteration launches no batch. *)
ScheduleNothing ==
    /\ tpc = "recv" /\ Busy /\ NoPrefill
    /\ SkipsIteration \/ Candidates = <<>>
    /\ inflight' = <<inflight[2], {}>>
    /\ batch' = NoBatch
    /\ tpc' = "process" /\ idx' = 0
    /\ UNCHANGED <<startup, status, req, pend, freeRows, running, last, vstate,
                   channel, drafter>>

(* The answer of the drafter: the probabilities, if any were asked for,     *)
(* then the drafts, which fill the row behind the last token.               *)
RecvDrafts ==
    /\ tpc = "step" /\ fromDrafter # <<>>
    /\ LET asked == SumOf([i \in DOMAIN batch.uids |->
                             IF batch.uids[i] \in Sampling THEN ExtendLen(batch.uids[i]) - 1 ELSE 0])
           reply == Head(fromDrafter).drafts
       IN  /\ IF asked > 0
              THEN probsQ # <<>> /\ probsQ' = Tail(probsQ)
              ELSE probsQ' = probsQ
           /\ vstate' = [r \in Row |->
                LET mine == {u \in ToSet(batch.uids) : req[u].row = r} IN
                IF mine = {} THEN vstate[r]
                ELSE [vstate[r] EXCEPT !.drafts = reply[CHOOSE u \in mine : TRUE]]]
    /\ fromDrafter' = Tail(fromDrafter)
    /\ tpc' = "process" /\ idx' = 0
    /\ UNCHANGED <<startup, status, req, pend, freeRows, running, inflight, batch, last,
                   toDrafter, hiddenQ, buffer, overrun, drafter>>
-----------------------------------------------------------------------------
(* Target: reading results *)

(* make_init_message: the last rows of the prefill, at most a window.       *)
InitPositions(u) ==
    Positions(PromptLen[u] + 1 - Lesser(Window, PromptRows[u]), PromptLen[u])

InitMsg(u) ==
    [type |-> "init", uid |-> u, row |-> req[u].row, pos |-> InitPositions(u),
     input |-> Len(InitPositions(u))]

(* ARManagerBase.process for one request of a prefill batch, with           *)
(* on_prefill_done when it goes on and _finish_req when it does not.        *)
ProcessPrefill(u, eos) ==
    /\ tpc = "process" /\ last.phase = "prefill" /\ idx < Len(last.uids)
    /\ u = last.uids[idx + 1] /\ status[u] = "prefill"
    /\ eos => u \notin IgnoreEos
    /\ LET finish == MaxTokens[u] = 1 \/ eos IN
       /\ status' = [status EXCEPT ![u] = IF finish THEN "finished" ELSE "running"]
       /\ req' = [req EXCEPT ![u].device = @ + 1]
       /\ IF finish
          THEN /\ SendRemoves(<<u>>)
               /\ UNCHANGED <<running, vstate>>
          ELSE /\ Send(InitMsg(u), Genuine(u, InitPositions(u)))
               /\ running' = Append(running, u)
               /\ vstate' = [vstate EXCEPT ![req[u].row] =
                               [pos |-> <<>>, hid |-> <<>>, drafts |-> <<>>]]
    /\ idx' = idx + 1
    /\ UNCHANGED <<startup, tpc, pend, freeRows, inflight, batch, last, drafter>>

(* A request aborted while its prefill was in flight. *)
SkipPrefill ==
    /\ tpc = "process" /\ last.phase = "prefill" /\ idx < Len(last.uids)
    /\ status[last.uids[idx + 1]] # "prefill"
    /\ idx' = idx + 1
    /\ UNCHANGED <<startup, tpc, status, req, pend, freeRows, running, inflight, batch, last,
                   vstate, channel, drafter>>

(* The hidden rows of a verify batch, request after request; accepted[i]    *)
(* drafts of the i-th request were accepted, and the rows behind are Junk.  *)
RowsOf(u, accepted) ==
    [j \in 1 .. ExtendLen(u) |-> IF j <= accepted + 1 THEN <<u, req[u].cached + j>> ELSE Junk]

BatchRows(us, accepted) == FlattenSeq([i \in DOMAIN us |-> RowsOf(us[i], accepted[i])])

(* Mutant: the rows of a request aborted in flight are not skipped over. *)
RowStartOfLive(us, i) ==
    SumOf([k \in 1 .. i - 1 |-> IF status[us[k]] = "running" THEN ExtendLen(us[k]) ELSE 0])

(* Where the rows of the i-th request start. *)
RowStart(us, i) == SumOf([k \in 1 .. i - 1 |-> ExtendLen(us[k])])

(* set_carry: positions and hidden rows of the tokens a round committed.    *)
Carry(us, accepted, i) ==
    LET start == RowStart(us, i) IN
    [pos    |-> Positions(req[us[i]].cached + 1, req[us[i]].cached + accepted[i] + 1),
     hid    |-> SubSeq(BatchRows(us, accepted), start + 1, start + accepted[i] + 1),
     drafts |-> vstate[req[us[i]].row].drafts]

(* _process_last_data frees the rows of a set of requests, in any order.    *)
Released(us) ==
    \E order \in SetToSeqs(us) :
        freeRows' = freeRows \o [i \in DOMAIN order |-> req[order[i]].row]

(* VerifyManager.process: accepted[i] drafts of the i-th request and one    *)
(* token more are committed; it ends there with Eos, or at its limit.       *)
ProcessVerify(accepted, eos) ==
    /\ tpc = "process" /\ last.phase = "verify"
    /\ LET us      == last.uids
           live    == {i \in DOMAIN us : status[us[i]] = "running"}
           at(u)   == CHOOSE i \in DOMAIN us : us[i] = u
           next(u) == req[u].cached + accepted[at(u)] + 1
           done    == {us[i] : i \in {i \in live :
                          us[i] \in eos \/ next(us[i]) + 1 >= MaxDeviceLen(us[i])}}
       IN  /\ \A i \in DOMAIN us :
                IF i \in live THEN accepted[i] < ExtendLen(us[i])
                              ELSE accepted[i] = 0 /\ us[i] \notin eos
           /\ req' = [u \in Uid |-> IF u \in {us[i] : i \in live}
                                    THEN [req[u] EXCEPT !.cached = next(u), !.device = next(u) + 1]
                                    ELSE req[u]]
           /\ vstate' = [r \in Row |->
                LET mine == {i \in live : req[us[i]].row = r} IN
                IF mine = {} THEN vstate[r]
                ELSE LET i == CHOOSE i \in mine : TRUE IN
                     IF us[i] \in done THEN NoState ELSE Carry(us, accepted, i)]
           /\ status' = [u \in Uid |-> IF u \in done THEN "finished" ELSE status[u]]
           /\ running' = Kept(running, Uid \ done)
           /\ SendRemoves(Kept(us, done))
           /\ Released(done)
    /\ inflight' = <<{}, inflight[2]>>
    /\ last' = batch /\ batch' = NoBatch
    /\ tpc' = "recv"
    /\ UNCHANGED <<startup, pend, idx, drafter>>

(* The end of an iteration whose results were those of a prefill, or none:  *)
(* the rows of the requests that finished are free.                         *)
EndIteration ==
    /\ tpc = "process"
    /\ \/ last = NoBatch
       \/ last.phase = "prefill" /\ idx = Len(last.uids)
    /\ Released({u \in ToSet(last.uids) : status[u] = "finished"})
    /\ inflight' = IF last = NoBatch THEN inflight ELSE <<{}, inflight[2]>>
    /\ last' = batch /\ batch' = NoBatch
    /\ tpc' = "recv"
    /\ UNCHANGED <<startup, status, req, pend, running, idx, vstate, channel, drafter>>
-----------------------------------------------------------------------------
(* Drafter: SpeculatorRunner.run_forever, one message at a time *)

(* Mutant: a full ring keeps its head. *)
PutAtHead(ring, entry) ==
    IF ring.len < Window
    THEN [ring EXCEPT !.len = @ + 1, !.slot[(ring.head + ring.len) % Window] = entry]
    ELSE [ring EXCEPT !.slot[ring.head] = entry]

(* Mutant: the test for a full ring is off by one. *)
PutOneMore(ring, entry) ==
    IF ring.len <= Window
    THEN [ring EXCEPT !.len = @ + 1, !.slot[(ring.head + ring.len) % Window] = entry]
    ELSE [ring EXCEPT !.head = (@ + 1) % Window, !.slot[ring.head] = entry]

(* _append_columns and store: the next slot of a row's ring, or its oldest. *)
Put(ring, entry) ==
    IF ring.len < Window
    THEN [ring EXCEPT !.len = @ + 1, !.slot[(ring.head + ring.len) % Window] = entry]
    ELSE [ring EXCEPT !.head = (@ + 1) % Window, !.slot[ring.head] = entry]

Emptied(ring) == [ring EXCEPT !.head = 0, !.len = 0]

(* persistent_indices: a row's valid slots in chronological order.          *)
Chronological(ring) == [i \in 1 .. ring.len |-> ring.slot[(ring.head + i - 1) % Window]]

(* A row of the drafter: a token, and the hidden state it arrived with.    *)
Entries(u, pos, hid) == [i \in DOMAIN pos |-> [token |-> <<u, pos[i]>>, hidden |-> hid[i]]]

(* Mutant: the window is not extended. *)
PendingOnly(state, u, pos, hid) ==
    [state EXCEPT !.pending = @ \o Entries(u, pos, hid)]

(* MTPState.update_window: the window keeps the last rows only.             *)
UpdateWindow(state, u, pos, hid) ==
    LET window == state.window \o pos IN
    [state EXCEPT
       !.window  = SubSeq(window, Greater(0, Len(window) - Window) + 1, Len(window)),
       !.pending = @ \o Entries(u, pos, hid)]

(* MTPDraftManager.init. *)
NewState(msg, hid) ==
    [row |-> msg.row, window |-> msg.pos, ready |-> FALSE,
     pending |-> Entries(msg.uid, msg.pos, hid)]

DraftInit ==
    /\ dpc = "loop" /\ toDrafter # <<>> /\ Head(toDrafter).type = "init"
    /\ hiddenQ # <<>>
    /\ LET msg == Head(toDrafter) IN
       states' = [u \in DOMAIN states \cup {msg.uid} |->
                    IF u = msg.uid THEN NewState(msg, Received(msg.input)) ELSE states[u]]
    /\ toDrafter' = Tail(toDrafter) /\ hiddenQ' = Tail(hiddenQ)
    /\ UNCHANGED <<startup, target, fromDrafter, buffer, overrun, probsQ, dpc, pool>>

(* MTPDraftManager.step: the rows of each request are cut from the tensor   *)
(* in message order.                                                        *)
Windowed(reqs, hid) ==
    LET start(i) == SumOf([k \in 1 .. i - 1 |-> Len(reqs[k].pos)]) IN
    [u \in DOMAIN states |->
        IF \E i \in DOMAIN reqs : reqs[i].uid = u
        THEN LET i == CHOOSE i \in DOMAIN reqs : reqs[i].uid = u IN
             UpdateWindow(states[u], u, reqs[i].pos,
                          SubSeq(hid, start(i) + 1, start(i) + Len(reqs[i].pos)))
        ELSE states[u]]

(* MTPEngine.draft: the pending rows of every request that drafts go into   *)
(* its ring, which is emptied before the first time.                        *)
Filled(ring, state) ==
    LET filled[i \in 0 .. Len(state.pending)] ==
            IF i = 0 THEN IF state.ready THEN ring ELSE Emptied(ring)
            ELSE Put(filled[i - 1], state.pending[i])
    IN  filled[Len(state.pending)]

(* The draft loop: n tokens, each behind the one before it, from the last   *)
(* token of the window on.                                                  *)
Proposed(state, n) ==
    LET latest == state.window[Len(state.window)] IN Positions(latest + 1, latest + n)

DraftStep ==
    /\ dpc = "loop" /\ toDrafter # <<>> /\ Head(toDrafter).type = "step"
    /\ Head(toDrafter).input > 0 => hiddenQ # <<>>
    /\ LET msg     == Head(toDrafter)
           hid     == IF msg.input > 0 THEN Received(msg.input) ELSE <<>>
           now     == Windowed(msg.reqs, hid)
           asked   == [u \in {msg.reqs[i].uid : i \in DOMAIN msg.reqs} |->
                         LET i == CHOOSE i \in DOMAIN msg.reqs : msg.reqs[i].uid = u
                         IN  msg.reqs[i].n]
           active  == {u \in DOMAIN asked : asked[u] > 0}
       IN  /\ Assert(\A u \in active : Len(now[u].pending) \in 1 .. Window,
                     "every MTP round must carry at least one row, and at most a window")
           /\ states' = [u \in DOMAIN states |->
                           IF u \in active
                           THEN [now[u] EXCEPT !.pending = <<>>, !.ready = TRUE]
                           ELSE now[u]]
           /\ pool' = [r \in Row |->
                         LET mine == {u \in active : now[u].row = r} IN
                         IF mine = {} THEN pool[r]
                         ELSE LET u == CHOOSE u \in mine : TRUE IN Filled(pool[r], now[u])]
           /\ fromDrafter' = Append(fromDrafter,
                [type   |-> "reply",
                 drafts |-> [u \in DOMAIN asked |-> Proposed(now[u], asked[u])]])
           /\ probsQ' = IF msg.output > 0 THEN Append(probsQ, msg.output) ELSE probsQ
           /\ hiddenQ' = IF msg.input > 0 THEN Tail(hiddenQ) ELSE hiddenQ
    /\ toDrafter' = Tail(toDrafter)
    /\ UNCHANGED <<startup, target, buffer, overrun, dpc>>

DraftRemove ==
    /\ dpc = "loop" /\ toDrafter # <<>> /\ Head(toDrafter).type = "remove"
    /\ states' = [u \in DOMAIN states \ {Head(toDrafter).uid} |-> states[u]]
    /\ toDrafter' = Tail(toDrafter)
    /\ UNCHANGED <<startup, target, fromDrafter, hiddenQ, buffer, overrun, probsQ, dpc, pool>>
-----------------------------------------------------------------------------
(* Specification *)

RecvMessage ==
    \E u \in Uid : RecvUser(u) \/ AbortPrefill(u) \/ AbortRunning(u)

Results == IF tpc = "process" /\ last.phase = "verify"
           THEN [accepted : [1 .. Len(last.uids) -> 0 .. K],
                 eos      : SUBSET (ToSet(last.uids) \ IgnoreEos)]
           ELSE {}

Target ==
    \/ MeasureBaseline \/ SizeCache \/ SendHandshake \/ JoinTarget \/ RecvAck
    \/ \E n \in 1 .. Cardinality(Uid) : SchedulePrefill(n)
    \/ ScheduleVerify \/ ScheduleNothing \/ RecvDrafts
    \/ \E u \in Uid, eos \in BOOLEAN : ProcessPrefill(u, eos)
    \/ SkipPrefill
    \/ \E result \in Results : ProcessVerify(result.accepted, result.eos)
    \/ EndIteration

Drafter ==
    \/ StartDrafter \/ DrafterReady \/ RecvHandshake \/ JoinDrafter
    \/ DraftInit \/ DraftStep \/ DraftRemove

Next == RecvMessage \/ Blocked \/ Target \/ Drafter

Spec == Init /\ [][Next]_vars

(* The loop of each process goes on as long as it has something to do.      *)
FairSpec == Spec /\ WF_vars(Target) /\ WF_vars(Drafter)
-----------------------------------------------------------------------------
(* Properties *)

(* Types, and lengths that agree with the place of a request in its life.   *)
TypeOK ==
    /\ plane \in Planes
    /\ status \in [Uid -> {"new", "pending", "prefill", "running", "finished", "aborted"}]
    /\ ToSet(pend) = {u \in Uid : status[u] = "pending"}
    /\ ToSet(running) = {u \in Uid : status[u] = "running"}
    /\ inflight \in Seq(SUBSET Uid) /\ Len(inflight) = 2
    /\ batch.uids \in Seq(Uid) /\ last.uids \in Seq(Uid)
    /\ freeRows \in Seq(Row) /\ IsInjective(freeRows)
    /\ \A u \in ToSet(running) :
          /\ req[u].row \in Row \ ToSet(freeRows) /\ vstate[req[u].row] # NoState
          /\ PromptLen[u] <= req[u].cached /\ req[u].cached < req[u].device
          /\ req[u].device <= MaxDeviceLen(u)
    /\ DOMAIN states \subseteq Uid
    /\ \A r \in Row : pool[r].head \in 0 .. Window - 1 /\ pool[r].len \in 0 .. Window
    /\ Len(buffer) = MaxHiddenRows

(* The drafts a verify batch is launched with continue the text the target  *)
(* has committed: exactly the positions behind its last token, and as many  *)
(* as were asked for, whatever was accepted, aborted or begun meanwhile     *)
(* (verify.py:158-187 trusts the reply for a uid blindly).                  *)
DraftsContinue ==
    tpc = "process" /\ batch.phase = "verify" =>
        \A u \in ToSet(batch.uids) \cap ToSet(running) :
            vstate[req[u].row].drafts = Positions(req[u].cached + 1, req[u].device - 1)

(* What the drafter attends to when it drafts for a request is its window,  *)
(* in order: the ring of its row holds the request's own last tokens and    *)
(* nothing of the request that had the row before (pool.py:102-121,         *)
(* engine.py:124-127).  Rows that wait for the next draft are not in it.    *)
PoolHoldsWindow ==
    \A u \in DOMAIN states :
        states[u].ready /\ states[u].pending = <<>> =>
            LET ring == Chronological(pool[states[u].row]) IN
            [i \in DOMAIN ring |-> ring[i].token] = Genuine(u, states[u].window)

(* Every row the drafter keeps came with the hidden state of its own token, *)
(* also when rounds are cut, requests of a batch are aborted in flight, and *)
(* the rows of a batch belong to several requests (verify.py:208-247).      *)
(* Only an overrun of a local plane breaks it: two transfers published      *)
(* before the drafter copied the first, which no acknowledgement prevents   *)
(* (data_plane.py:293-307).                                                 *)
HiddenRight ==
    ~overrun => \A u \in DOMAIN states :
        LET ring == Chronological(pool[states[u].row])
            right(entry) == entry.hidden = entry.token
        IN  /\ \A i \in DOMAIN states[u].pending : right(states[u].pending[i])
            /\ states[u].ready => \A i \in DOMAIN ring : right(ring[i])

(* A step fits what the drafter and the transport were built for: the       *)
(* scratch rows of the pool and the buffers, sized by another formula than  *)
(* the one that ends the batch (verify.py:126, mtp/engine.py:80,            *)
(* data_plane.py:33-41).  It holds when K divides TokenBudget.              *)
StepFits ==
    \A i \in DOMAIN toDrafter :
        toDrafter[i].type = "step" =>
            LET msg == toDrafter[i] IN
            /\ Cardinality({k \in DOMAIN msg.reqs : msg.reqs[k].n > 0}) <= MaxBatch
            /\ msg.input <= MaxHiddenRows
            /\ msg.output <= MaxProbRows

(* The target and the drafter fit on the device they share, although each   *)
(* allocates in a process of its own: the target sizes its cache by what is *)
(* free between two events (engine.py:80-112, 247-307,                      *)
(* speculator/server.py:117-121).                                           *)
MemoryAccounted == free >= 0

(* Every request that was sent ends or is aborted: the two processes never  *)
(* wait for each other for ever, and no running request is passed over      *)
(* (verify.py:111-124).                                                     *)
EveryRequestEnds ==
    \A u \in Uid : status[u] = "pending" ~> status[u] \in {"finished", "aborted"}
=============================================================================
