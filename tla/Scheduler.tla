----------------------------- MODULE Scheduler ------------------------------
(***************************************************************************)
(* The overlap loop of one scheduler process serving a dense (non-hybrid)  *)
(* model without speculation: scheduler.py with its prefill, decode,       *)
(* cache and table managers.                                               *)
(*                                                                         *)
(* One iteration of overlap_loop receives messages, schedules and launches *)
(* the next batch, and only then processes the results of the batch that   *)
(* the previous iteration launched:                                        *)
(*                                                                         *)
(*   "idle"    blocked in receive_msg: there is nothing to do              *)
(*   "recv"    _process_one_msg, any number of times                       *)
(*   "admit"   PrefillManager.schedule_next_batch, one request at a time,  *)
(*             then the launch of a prefill or a decode batch              *)
(*   "process" ARManagerBase.process, one request of the batch at a time   *)
(*   "free"    _free_req_resources of the requests that finished           *)
(*                                                                         *)
(* The loop runs in one thread, so splitting an iteration into these steps *)
(* adds no behaviour.  The GPU executes batches in launch order; the token *)
(* it samples for a request is chosen when the scheduler reads it.         *)
(***************************************************************************)
EXTENDS PrefixTree, Selection, SequencesExt

CONSTANTS
    Uid,            \* requests
    Prompt,         \* Uid -> the token ids of its prompt
    MaxTokens,      \* Uid -> max_tokens of its sampling parameters
    After,          \* Uid -> requests that end or are aborted before it is sent
    Aborters,       \* requests that a client may abort
    IgnoreEos,      \* requests that ignore the end of sequence
    Token, Eos,     \* what the model may sample, and the end of sequence
    PageSize, NumPages, NumRows,
    MaxSeqLen,      \* engine.max_seq_len
    PrefillBudget,  \* max_prefill_tokens
    DecodeBudget,   \* decode_batch_budget
    NoReq           \* not a request, not a batch

ASSUME SizesAssumption ==
    /\ {PageSize, NumPages, NumRows, MaxSeqLen, PrefillBudget, DecodeBudget} \subseteq Nat \ {0}
ASSUME RequestsAssumption ==
    /\ DOMAIN Prompt = Uid
    /\ \A u \in Uid : Prompt[u] \in Seq(ToSet(Prompt[u])) /\ Prompt[u] # <<>>
    /\ MaxTokens \in [Uid -> Nat \ {0}]
    /\ After \in [Uid -> SUBSET Uid]
    /\ Aborters \subseteq Uid /\ IgnoreEos \subseteq Uid

Page == 0 .. NumPages - 1
Row  == 0 .. NumRows - 1

DivCeil(n)   == (n + PageSize - 1) \div PageSize
AlignCeil(n) == DivCeil(n) * PageSize

VARIABLES
    pc,
    \* the client side
    sent,       \* requests sent
    ended,      \* requests whose finished reply was sent
    dropped,    \* requests refused without a reply
    \* PrefillManager
    pend,       \* pending_list
    inflPre,    \* the uids of inflight_reqs
    adder,      \* PrefillAdder: [budget, reserved, n], n requests admitted
    \* ARManagerBase
    running,    \* running_reqs, in insertion order
    inflight,   \* inflight_uids: <<last, next>>
    finished,   \* finished_reqs
    \* Request objects
    req,        \* uid -> [row, cached, device, handle], or NoReq before it has one
    live,       \* requests that hold a row, pages and a lock
    gen,        \* uid -> the tokens appended to its host input_ids
    aborted,    \* requests whose aborted flag is set
    \* the batches of the loop
    last,       \* last_data: [phase, reqs], or NoReq
    batch,      \* the batch launched in this iteration, or NoReq
    idx,        \* requests of `last` already processed
    newFin,     \* new_finished: finished and not freed yet
    \* CacheManager and TableManager
    free,       \* free_pages
    lazy,       \* pages freed inside lazy_free_region
    cached, ref,\* the prefix cache
    pageTable,  \* row -> page index -> page
    freeRows    \* _free_slots

client  == <<sent, ended, dropped>>
prefill == <<pend, inflPre, adder>>
decode  == <<running, inflight, finished>>
request == <<req, live, gen, aborted>>
loop    == <<pc, last, batch, idx, newFin>>
memory  == <<free, lazy, cached, ref, pageTable, freeRows>>
vars    == <<client, prefill, decode, request, loop, memory>>
-----------------------------------------------------------------------------
(* Requests *)

Lesser(i, j) == IF i < j THEN i ELSE j

InputLen(u)     == Len(Prompt[u])
OutputLen(u)    == Lesser(MaxTokens[u], MaxSeqLen - InputLen(u))
MaxDeviceLen(u) == InputLen(u) + OutputLen(u)
RemainLen(u)    == MaxDeviceLen(u) - req[u].device

(* Mutant: a request decodes on after its last token. *)
CanDecodeForEver(u) == u \notin aborted

CanDecode(u) == RemainLen(u) > 0 /\ u \notin aborted

(* The host input_ids of a request that has been prefilled to its end. *)
HostIds(u) == Prompt[u] \o gen[u]

(* The full pages of a token sequence: what the radix tree indexes. *)
Blocks(ids) ==
    [i \in 1 .. Len(ids) \div PageSize |-> SubSeq(ids, (i - 1) * PageSize + 1, i * PageSize)]

(* A pending request with a chunk launched before: it has its row already. *)
IsChunk(u) == u \in ToSet(pend) \cap live

(* Sums of the lengths reserved for requests that will still grow. *)
Reserved(S) == FoldSet(LAMBDA u, sum : sum + AlignCeil(RemainLen(u)), 0, S)

(* available_size, in tokens. *)
AvailableSize == (Cardinality(Evictable(ref)) + Len(free)) * PageSize
-----------------------------------------------------------------------------
(* CacheManager *)

(* The pages of row r with index lo .. hi - 1, in order. *)
PagesOfRow(r, lo, hi) == [i \in 1 .. hi - lo |-> pageTable[r][lo + i - 1]]

NeededPages(u) == DivCeil(req[u].device) - DivCeil(req[u].cached)

(* _allocate: if the free list does not suffice, the shortfall is evicted.  *)
Shortfall(need) == need - Len(free)

EvictsFor(need, S) ==
    IF Shortfall(need) > 0
    THEN IsEviction(ref, S) /\ Cardinality(S) >= Shortfall(need)
    ELSE S = {}

(* What an eviction gives back: the pages of its prefixes, in some order. *)
EvictedPages(S) == LET keys == SetToSeq(S) IN [i \in DOMAIN keys |-> cached[keys[i]]]

(* The pages that the first n requests of a batch need. *)
PagesBefore(us, n) ==
    LET pages[i \in 0 .. Len(us)] ==
            IF i = 0 THEN 0 ELSE pages[i - 1] + NeededPages(us[i])
    IN  pages[n]

(* _write_page_table: the allocated pages, in order, become the pages with  *)
(* index DivCeil(cached) .. DivCeil(device) - 1 of each request's row.      *)
WritePageTable(us, allocated) ==
    [r \in Row |-> [p \in DOMAIN pageTable[r] |->
        LET mine == {i \in 1 .. Len(us) :
                       /\ req[us[i]].row = r
                       /\ p \in DivCeil(req[us[i]].cached) .. DivCeil(req[us[i]].device) - 1}
        IN  IF mine = {}
            THEN pageTable[r][p]
            ELSE LET i == CHOOSE i \in mine : TRUE
                 IN  allocated[PagesBefore(us, i - 1) + p - DivCeil(req[us[i]].cached) + 1]]]

(* allocate_paged: pages for [cached, device) of every request of the       *)
(* batch, from the head of the free list.  The launch of a batch is only    *)
(* possible when the eviction it needs succeeds (ReservationsHold).         *)
AllocatePaged(us) ==
    LET need == PagesBefore(us, Len(us)) IN
    \E S \in SUBSET Evictable(ref) :
       LET pool == free \o EvictedPages(S) IN
       /\ EvictsFor(need, S)
       /\ free' = SubSeq(pool, need + 1, Len(pool))
       /\ pageTable' = WritePageTable(us, SubSeq(pool, 1, need))
       /\ cached' = Without(cached, S)
       /\ ref' = Without(ref, S)

(* The full pages of [0, cached_len): what cache_req inserts. *)
InsertKey(u) == Blocks(SubSeq(HostIds(u), 1, Lesser(req[u].cached, Len(HostIds(u)))))

(* Mutant: the pages matched at admission are given back, too. *)
AlreadyCachedFromStart(u) == PagesOfRow(req[u].row, 0, MatchLen(cached, InsertKey(u)))

AlreadyCached(u) ==
    LET key == InsertKey(u) IN
    PagesOfRow(req[u].row, Len(req[u].handle), MatchLen(cached, key))

(* Mutant: an incomplete last page is not given back. *)
TailPagesRoundedDown(u) == PagesOfRow(req[u].row, Len(InsertKey(u)), req[u].cached \div PageSize)

TailPages(u) == PagesOfRow(req[u].row, Len(InsertKey(u)), DivCeil(req[u].cached))

(* Mutant: a finished request keeps its lock. *)
CacheReqKeepsLock(u, isFinished) ==
    LET key == InsertKey(u) IN
    /\ cached' = InsertPages(cached, key, PagesOfRow(req[u].row, 0, Len(key)))
    /\ ref' = LockRefs(InsertRefs(cached, ref, key), IF isFinished THEN <<>> ELSE key)

(* Mutant: the prefix inserted after prefill is not locked. *)
CacheReqNeverLocks(u, isFinished) ==
    LET key == InsertKey(u) IN
    /\ cached' = InsertPages(cached, key, PagesOfRow(req[u].row, 0, Len(key)))
    /\ ref' = UnlockRefs(InsertRefs(cached, ref, key), req[u].handle)

(* cache_req: insert the key, release the old handle, and give back the     *)
(* pages that were cached by others meanwhile; on finish the incomplete     *)
(* last page too, otherwise lock the new handle.                            *)
CacheReq(u, isFinished) ==
    LET key      == InsertKey(u)
        pages    == PagesOfRow(req[u].row, 0, Len(key))
        unlocked == UnlockRefs(InsertRefs(cached, ref, key), req[u].handle)
    IN  /\ cached' = InsertPages(cached, key, pages)
        /\ ref' = IF isFinished THEN unlocked ELSE LockRefs(unlocked, key)

(* Mutant: the page that cached_len ends in counts as in flight. *)
InflightPagesRoundedDown(u, isInflight) ==
    IF isInflight
    THEN PagesOfRow(req[u].row, req[u].cached \div PageSize, DivCeil(req[u].device))
    ELSE <<>>

InflightPages(u, isInflight) ==
    IF isInflight
    THEN PagesOfRow(req[u].row, DivCeil(req[u].cached), DivCeil(req[u].device))
    ELSE <<>>

(* Mutant: the row stays taken. *)
FreeReqButNotItsRow(u, isInflight) ==
    /\ CacheReq(u, TRUE)
    /\ free' = free \o InflightPages(u, isInflight) \o AlreadyCached(u) \o TailPages(u)
    /\ live' = live \ {u}
    /\ UNCHANGED <<req, lazy, pageTable, freeRows>>

(* _free_req_resources: the pages of an aborted request's in-flight step,  *)
(* then the row, then the cached part.                                     *)
FreeReqResources(u, isInflight) ==
    /\ CacheReq(u, TRUE)
    /\ free' = free \o InflightPages(u, isInflight) \o AlreadyCached(u) \o TailPages(u)
    /\ freeRows' = Append(freeRows, req[u].row)
    /\ live' = live \ {u}
    /\ UNCHANGED <<req, lazy, pageTable>>
-----------------------------------------------------------------------------
(* Receiving messages *)

(* A message is taken in the loop's receiving phase; if the loop is blocked *)
(* in receive_msg, the message lets it run.                                 *)
Receive == pc \in {"idle", "recv"} /\ pc' = "recv"

RecvUser(u) ==
    /\ Receive
    /\ u \notin sent
    /\ After[u] \subseteq ended \cup aborted
    /\ sent' = sent \cup {u}
    /\ IF InputLen(u) >= MaxSeqLen
       THEN dropped' = dropped \cup {u} /\ UNCHANGED pend
       ELSE pend' = Append(pend, u) /\ UNCHANGED dropped
    /\ UNCHANGED <<ended, inflPre, adder, decode, request, last, batch, idx, newFin, memory>>

(* PrefillManager.abort_req, a pending request: the chunks it has in the   *)
(* cache, if any, are released.                                            *)
AbortPending(u) ==
    /\ u \in ToSet(pend)
    /\ pend' = Kept(pend, Uid \ {u})
    /\ inflPre' = inflPre \ {u}
    /\ IF u \in live
       THEN FreeReqResources(u, u \in inflPre) /\ UNCHANGED inflight
       ELSE inflight' = [inflight EXCEPT ![2] = @ \ {u}] /\ UNCHANGED <<req, live, memory>>
    /\ UNCHANGED running

(* PrefillManager.abort_req, a request whose prefill is in flight. *)
AbortPrefilled(u) ==
    /\ u \notin ToSet(pend)
    /\ u \in inflPre
    /\ inflPre' = inflPre \ {u}
    /\ FreeReqResources(u, TRUE)
    /\ UNCHANGED <<pend, running, inflight>>

(* ARManagerBase.abort_req. *)
AbortRunning(u) ==
    /\ u \notin ToSet(pend) \cup inflPre
    /\ inflight' = [inflight EXCEPT ![2] = @ \ {u}]
    /\ running' = Kept(running, Uid \ {u})
    /\ IF u \in ToSet(running)
       THEN FreeReqResources(u, u \in inflight[2])
       ELSE UNCHANGED <<req, live, memory>>
    /\ UNCHANGED <<pend, inflPre>>

RecvAbort(u) ==
    /\ Receive
    /\ u \in (sent \cap Aborters) \ aborted
    /\ AbortPending(u) \/ AbortPrefilled(u) \/ AbortRunning(u)
    /\ aborted' = aborted \cup {u}
    /\ UNCHANGED <<client, adder, finished, gen, last, batch, idx, newFin>>
-----------------------------------------------------------------------------
(* Scheduling *)

(* The worst case of every admitted request, processed or still in flight. *)
ReservedSize == Reserved(ToSet(running)) + Reserved(inflPre)

StartSchedule ==
    /\ pc = "recv"
    /\ adder' = [budget   |-> PrefillBudget,
                 reserved |-> ReservedSize,
                 n        |-> 0]
    /\ inflPre' = {}
    /\ batch' = NoReq
    /\ pc' = "admit"
    /\ UNCHANGED <<client, pend, decode, request, last, idx, newFin, memory>>

(* _try_allocate_one: a row is free and the request's worst case, on top of *)
(* what is reserved, fits into what is available once its match is locked.  *)
MatchKey(u) ==
    LET ids == Blocks(SubSeq(Prompt[u], 1, InputLen(u) - 1)) IN
    SubSeq(ids, 1, MatchLen(cached, ids))

EstimatedLen(u) == AlignCeil(InputLen(u) - Len(MatchKey(u)) * PageSize + OutputLen(u))

(* Mutant: no second test after the match is locked. *)
FitsBeforeLock(u) == EstimatedLen(u) + adder.reserved <= AvailableSize

Fits(u) ==
    LET lockedNow == Cardinality(PrefixesOf(MatchKey(u)) \cap Evictable(ref)) * PageSize
    IN  EstimatedLen(u) + adder.reserved <= AvailableSize - lockedNow

CanAdmit(u) ==
    /\ adder.budget > 0
    /\ IsChunk(u) \/ (freeRows # <<>> /\ Fits(u))

(* _add_one_req: the next chunk, as large as the budget allows. *)
AddOne(u, row, handle, from) ==
    LET remain == InputLen(u) - from
        chunk  == Lesser(adder.budget, remain)
    IN  /\ req' = [req EXCEPT ![u] = [row    |-> row,
                                      cached |-> from,
                                      device |-> from + chunk,
                                      handle |-> handle]]
        /\ adder' = [budget   |-> adder.budget - chunk,
                     reserved |-> adder.reserved + AlignCeil(remain + OutputLen(u)),
                     n        |-> adder.n + 1]
        /\ inflPre' = inflPre \cup {u}
        /\ live' = live \cup {u}

(* try_add_one for a request whose earlier chunks are already launched. *)
AdmitChunk ==
    /\ pc = "admit" /\ adder.n < Len(pend)
    /\ LET u == pend[adder.n + 1] IN
          /\ IsChunk(u)
          /\ CanAdmit(u)
          /\ AddOne(u, req[u].row, req[u].handle, req[u].cached)
    /\ UNCHANGED <<client, pend, decode, gen, aborted, loop, memory>>

(* try_add_one for a new request: match and lock its cached prefix, take a *)
(* row and copy the matched pages into it.                                 *)
AdmitNew ==
    /\ pc = "admit" /\ adder.n < Len(pend)
    /\ LET u   == pend[adder.n + 1]
           key == MatchKey(u)
           row == Last(freeRows)
       IN /\ ~IsChunk(u)
          /\ CanAdmit(u)
          /\ AddOne(u, row, key, Len(key) * PageSize)
          /\ ref' = LockRefs(ref, key)
          /\ freeRows' = Front(freeRows)
          /\ pageTable' = [pageTable EXCEPT ![row] =
                [p \in DOMAIN @ |-> IF p < Len(key) THEN MatchedPages(cached, key)[p + 1] ELSE @[p]]]
    /\ UNCHANGED <<client, pend, decode, gen, aborted, loop, free, lazy, cached>>

AdmissionOver ==
    /\ pc = "admit"
    /\ adder.n < Len(pend) => ~CanAdmit(pend[adder.n + 1])

(* A ChunkedRequest is skipped by process; only the last of a batch is one. *)
Unfinished(u) == req[u].device < InputLen(u)
Entry(u) == [uid |-> u, chunked |-> Unfinished(u)]

(* A prefill batch was formed: it is launched, and every request in it      *)
(* counts as computed to its device_len (advance_for_next_schedule).        *)
LaunchPrefill ==
    LET us == SubSeq(pend, 1, adder.n) IN
    /\ AdmissionOver
    /\ adder.n > 0
    /\ AllocatePaged(us)
    /\ pend' = Kept(us, {u \in ToSet(us) : Unfinished(u)}) \o SubSeq(pend, adder.n + 1, Len(pend))
    /\ batch' = [phase |-> "prefill", reqs |-> [i \in 1 .. Len(us) |-> Entry(us[i])]]
    /\ req' = [u \in Uid |->
                 IF u \in ToSet(us) THEN [req[u] EXCEPT !.cached = req[u].device] ELSE req[u]]
    /\ pc' = "process"
    /\ UNCHANGED <<client, inflPre, adder, decode, live, gen, aborted, last, idx, newFin,
                   lazy, freeRows>>

(* DecodeManager.schedule_next_batch: the requests that were not in the     *)
(* last batch come first, up to the budget.                                 *)
DecodeBatch ==
    LET waiting == Kept(running, Uid \ inflight[2])
        recent  == Kept(running, inflight[2])
        able    == Kept(waiting \o recent, {u \in ToSet(running) : CanDecode(u)})
    IN  SubSeq(able, 1, Lesser(DecodeBudget, Len(able)))

(* No prefill batch: a decode batch is launched if any request can decode,  *)
(* and its counters advance at once (advance_for_overlap).                  *)
LaunchDecode ==
    /\ AdmissionOver
    /\ adder.n = 0
    /\ inflight' = <<inflight[2], ToSet(DecodeBatch)>>
    /\ IF DecodeBatch = <<>>
       THEN batch' = NoReq /\ UNCHANGED <<req, live, memory>>
       ELSE /\ AllocatePaged(DecodeBatch)
            /\ batch' = [phase |-> "decode",
                         reqs  |-> [i \in 1 .. Len(DecodeBatch) |->
                                      [uid |-> DecodeBatch[i], chunked |-> FALSE]]]
            /\ req' = [u \in Uid |->
                 IF u \in ToSet(DecodeBatch)
                 THEN [req[u] EXCEPT !.device = @ + 1, !.cached = req[u].device]
                 ELSE req[u]]
            /\ UNCHANGED <<live, lazy, freeRows>>
    /\ pc' = "process"
    /\ UNCHANGED <<client, prefill, running, finished, gen, aborted, last, idx, newFin>>
-----------------------------------------------------------------------------
(* Processing the results of the previous batch *)

Processing == pc = "process" /\ last # NoReq /\ idx < Len(last.reqs)
Current    == last.reqs[idx + 1]

(* Mutant: a result in flight for a finished request is processed. *)
SkippedIfAborted(e) == e.chunked \/ e.uid \in aborted

Skipped(e) ==
    \/ e.chunked
    \/ e.uid \in aborted
    \/ last.phase = "decode" /\ e.uid \notin ToSet(running)

SkipResult ==
    /\ Processing
    /\ Skipped(Current)
    /\ idx' = idx + 1
    /\ UNCHANGED <<client, prefill, decode, request, pc, last, batch, newFin, memory>>

(* complete_n(1), after prefill only: a decode step advanced at its launch. *)
DeviceAfter(u) == req[u].device + (IF last.phase = "prefill" THEN 1 ELSE 0)

(* Mutant: the step in flight counts as a token received. *)
IsFinishedOnDevice(u, token) ==
    \/ MaxDeviceLen(u) - DeviceAfter(u) <= 0
    \/ token = Eos /\ u \notin IgnoreEos

IsFinished(u, token) ==
    \/ MaxDeviceLen(u) - (DeviceAfter(u) - (IF u \in inflight[2] THEN 1 ELSE 0)) <= 0
    \/ token = Eos /\ u \notin IgnoreEos

(* The token of one request is appended and replied.  A finished request   *)
(* leaves the running set; a prefilled one that is not finished joins it   *)
(* and its prompt enters the prefix cache.                                 *)
ProcessResult(token) ==
    LET u == Current.uid
        stops == IsFinished(u, token) /\ u \notin finished
        stays == ~stops /\ last.phase = "prefill"
        grown == [req EXCEPT ![u].device = DeviceAfter(u), ![u].cached = DeviceAfter(u) - 1]
    IN
    /\ Processing
    /\ ~Skipped(Current)
    /\ gen' = [gen EXCEPT ![u] = Append(@, token)]
    /\ ended' = IF IsFinished(u, token) THEN ended \cup {u} ELSE ended
    /\ newFin' = IF stops THEN newFin \cup {u} ELSE newFin
    /\ running' = IF stops THEN Kept(running, Uid \ {u})
                  ELSE IF stays /\ DeviceAfter(u) < MaxDeviceLen(u) THEN Append(running, u)
                  ELSE running
    /\ IF stays
       THEN /\ CacheReq(u, FALSE)
            /\ lazy' = lazy \o AlreadyCached(u)
            /\ req' = [grown EXCEPT ![u].handle = InsertKey(u)]
       ELSE /\ req' = grown
            /\ UNCHANGED <<lazy, cached, ref>>
    /\ idx' = idx + 1
    /\ UNCHANGED <<sent, dropped, prefill, inflight, finished, live, aborted,
                   pc, last, batch, free, pageTable, freeRows>>

(* The end of process: the lazily freed pages reach the free list. *)
EndProcess ==
    /\ pc = "process"
    /\ last # NoReq /\ idx = Len(last.reqs)
    /\ free' = free \o lazy
    /\ lazy' = <<>>
    /\ inflight' = [inflight EXCEPT ![1] = {}]
    /\ finished' = newFin
    /\ pc' = "free"
    /\ UNCHANGED <<client, prefill, running, request, last, batch, idx, newFin,
                   cached, ref, pageTable, freeRows>>

FreeFinished(u) ==
    /\ pc = "free"
    /\ u \in newFin
    /\ FreeReqResources(u, FALSE)
    /\ newFin' = newFin \ {u}
    /\ UNCHANGED <<client, prefill, decode, gen, aborted, pc, last, batch, idx>>

(* The launched batch becomes last_data of the next iteration, which blocks *)
(* in receive_msg, after an integrity check, when nothing is left to do.    *)
NextIteration ==
    /\ \/ pc = "free" /\ newFin = {}
       \/ pc = "process" /\ last = NoReq
    /\ last' = batch
    /\ batch' = NoReq
    /\ idx' = 0
    /\ pc' = IF batch = NoReq /\ pend = <<>> /\ running = <<>> THEN "idle" ELSE "recv"
    /\ UNCHANGED <<client, prefill, decode, request, newFin, memory>>

(* receive_msg waits until a message arrives, for ever if none does. *)
Blocked == pc = "idle" /\ UNCHANGED vars

Schedule == StartSchedule \/ AdmitChunk \/ AdmitNew \/ LaunchPrefill \/ LaunchDecode
Process  == SkipResult \/ (\E t \in Token : ProcessResult(t)) \/ EndProcess
              \/ (\E u \in Uid : FreeFinished(u)) \/ NextIteration

Init ==
    /\ pc = "idle"
    /\ sent = {} /\ ended = {} /\ dropped = {}
    /\ pend = <<>> /\ inflPre = {} /\ adder = [budget |-> 0, reserved |-> 0, n |-> 0]
    /\ running = <<>> /\ inflight = <<{}, {}>> /\ finished = {}
    /\ req = [u \in Uid |-> NoReq]
    /\ live = {}
    /\ gen = [u \in Uid |-> <<>>]
    /\ aborted = {}
    /\ last = NoReq /\ batch = NoReq /\ idx = 0 /\ newFin = {}
    /\ free = [i \in 1 .. NumPages |-> i - 1]
    /\ lazy = <<>>
    /\ cached = [k \in {} |-> 0] /\ ref = [k \in {} |-> 0]
    /\ pageTable = [r \in Row |-> [p \in 0 .. DivCeil(MaxSeqLen) - 1 |-> 0]]
    /\ freeRows = [i \in 1 .. NumRows |-> i - 1]

Next ==
    \/ \E u \in Uid : RecvUser(u)
    \/ \E u \in Uid : RecvAbort(u)
    \/ Schedule
    \/ Process
    \/ Blocked

Spec == Init /\ [][Next]_vars

(* The loop never stops; clients owe it nothing. *)
FairSpec == Spec /\ WF_vars(Schedule) /\ WF_vars(Process)
-----------------------------------------------------------------------------
(* Properties *)

Batch == [phase : {"prefill", "decode"}, reqs : Seq([uid : Uid, chunked : BOOLEAN])]

ASSUME NoReqAssumption == NoReq \notin Batch

(* Every variable has its type. *)
TypeOK ==
    /\ pc \in {"idle", "recv", "admit", "process", "free"}
    /\ ended \subseteq sent /\ dropped \subseteq sent /\ aborted \subseteq sent
    /\ pend \in Seq(Uid) /\ inflPre \subseteq Uid
    /\ adder.n \in 0 .. Len(pend) \/ pc # "admit"
    /\ running \in Seq(Uid)
    /\ inflight \in Seq(SUBSET Uid) /\ Len(inflight) = 2 /\ finished \subseteq Uid
    /\ \A u \in live : /\ req[u].row \in Row
                       /\ req[u].cached \in 0 .. MaxDeviceLen(u)
                       /\ req[u].device \in 1 .. MaxDeviceLen(u)
    /\ live \subseteq Uid /\ gen \in [Uid -> Seq(Token)]
    /\ last = NoReq \/ last \in Batch
    /\ batch = NoReq \/ batch \in Batch
    /\ idx \in Nat /\ newFin \subseteq Uid
    /\ free \in Seq(Page) /\ lazy \in Seq(Page) /\ freeRows \in Seq(Row)
    /\ DOMAIN cached = DOMAIN ref
    /\ \A k \in DOMAIN cached : cached[k] \in Page /\ ref[k] \in Nat

(* The pages a request owns alone: behind its handle, up to what has been   *)
(* allocated for [0, cached_len).                                           *)
OwnIndices(u) == Len(req[u].handle) .. DivCeil(req[u].cached) - 1

Occurrences(s, p) == Cardinality({i \in DOMAIN s : s[i] = p})

(* Every KV page is in exactly one place: once in the free list (or on its  *)
(* way there), or under one prefix of the cache, or in one private part of  *)
(* one live request's row.  Nothing is leaked, freed twice or given to two  *)
(* requests, over any interleaving of admission, overlap, finish and abort. *)
PagesConserved ==
    \A p \in Page :
       Occurrences(free, p) + Occurrences(lazy, p)
         + Cardinality({k \in DOMAIN cached : cached[k] = p})
         + Cardinality({x \in live \X (0 .. DivCeil(MaxSeqLen)) :
                          x[2] \in OwnIndices(x[1]) /\ pageTable[req[x[1]].row][x[2]] = p})
         = 1

(* check_integrity, run whenever the loop is about to block: no page is     *)
(* missing, and no lock is left behind.                                     *)
IntegrityWhenIdle ==
    pc = "idle" =>
            /\ Len(free) + Cardinality(DOMAIN cached) = NumPages
            /\ Len(freeRows) = NumRows
            /\ \A k \in DOMAIN ref : ref[k] = 0

(* The first part of a live row, up to its handle, is what the prefix cache *)
(* holds for the request's tokens: attention over [0, cached_len) reads     *)
(* pages that are locked for it.                                            *)
RowReadsCache ==
    \A u \in live : \A i \in 1 .. Len(req[u].handle) :
       LET k == SubSeq(req[u].handle, 1, i) IN
       /\ k \in DOMAIN cached
       /\ ref[k] > 0
       /\ pageTable[req[u].row][i - 1] = cached[k]

(* cache.py:106, "[0, req.cached_len) This part is valid for attention      *)
(* kernel read/write": no page of that part of a live row is free.          *)
ValidRegionNotFree ==
    pc = "recv" =>
      \A u \in live : \A i \in 0 .. DivCeil(req[u].cached) - 1 :
         Occurrences(free, pageTable[req[u].row][i]) = 0

(* Reference counts are exactly the handles of the live requests.           *)
LocksMatchRequests ==
    \A k \in DOMAIN ref : ref[k] = Cardinality({u \in live : k \in PrefixesOf(req[u].handle)})

(* A row of the page table belongs to one live request or is free.          *)
RowsConserved ==
    \A r \in Row :
       Occurrences(freeRows, r) + Cardinality({u \in live : req[u].row = r}) = 1

(* Admission control never over-commits: what is available covers, all      *)
(* together, the pages that the admitted requests will ever still need, so  *)
(* that the RuntimeError of _allocate is unreachable.  The code tests it    *)
(* only when a request is admitted, and lets prefixes be shared, inserted   *)
(* twice, locked and evicted in between.                                    *)
Demand(u) == DivCeil(MaxDeviceLen(u) - 1) - DivCeil(req[u].cached)

ReservationsHold ==
    FoldSet(LAMBDA u, sum : sum + Demand(u), 0, live \ newFin)
       <= Len(free) + Len(lazy) + Cardinality(Evictable(ref))

(* A request that was told that it finished got max_tokens tokens or Eos,   *)
(* although its next step was launched before the last one was read.  The   *)
(* converse is EventuallyEnded, and does not hold (ar.py:102).              *)
FinishedMeansComplete ==
    \A u \in ended :
       \/ Len(gen[u]) = OutputLen(u)
       \/ gen[u] # <<>> /\ Last(gen[u]) = Eos /\ u \notin IgnoreEos

(* Nothing is replied to a request after its finished reply or its abort,   *)
(* although its next decode step may be in flight by then.                  *)
SilentAfterEnd ==
    [][\A u \in ended \cup aborted : gen'[u] = gen[u]]_vars

(* Every request that is accepted and not aborted gets its finished reply.  *)
EventuallyEnded ==
    \A u \in Uid : (u \in sent) ~> (u \in ended \cup aborted \cup dropped)
=============================================================================
