---------------------------- MODULE ForwardPass -----------------------------
(***************************************************************************)
(* One forward pass of the engine: Engine.prepare_batch, the metadata of   *)
(* the attention backend, the captured CUDA graphs and their buffers, the  *)
(* attention kernel's view of the KV cache, the sampler, and the tokens    *)
(* that return to the token pool.  The rows a batch needs have been        *)
(* allocated (Scheduler shows that); here the page table is constant.      *)
(*                                                                         *)
(* Token p of request u is <<u, p>>; an entry of the KV cache that holds   *)
(* its key and value is <<u, p>> too, and so is the prediction of it.      *)
(* Whatever was computed from the wrong inputs is Junk, and a draft that   *)
(* the target will not choose is <<Wrong, p>>.  All indices start at 0 as  *)
(* in the code; At(s, i) is s[i] of the code.                              *)
(***************************************************************************)
EXTENDS Integers, FiniteSets, SequencesExt

CONSTANTS
    Requests,       \* uids, positive numbers
    PromptLen, OutputLen, \* Requests -> Nat
    NumRows,        \* max_running_req
    MaxSeqLen,      \* columns of the page table, aligned_max_seq_len
    PageSize,
    K,              \* num_draft_tokens
    GraphLists,     \* cuda_graph_bs: the sets of batch sizes to consider
    Wrong, Nobody   \* no request's uid

ASSUME TablesAssumption ==
    /\ {NumRows, MaxSeqLen, PageSize, K} \subseteq Nat \ {0}
    /\ MaxSeqLen % PageSize = 0     \* FACaptureData has MaxSeqLen \div PageSize columns
    /\ \A u \in Requests : PromptLen[u] + OutputLen[u] <= MaxSeqLen
    /\ \A bs \in GraphLists : bs \subseteq Nat \ {0}
    /\ Requests \subseteq Nat \ {0} /\ {Wrong, Nobody} \subseteq Int \ Requests

VARIABLES
    engine,     \* [prefill, decode]: backends ("paged" or "ragged"); graphs; speculating
    capture,    \* CaptureData: what a captured graph reads of the metadata
    reqs,       \* table row -> the request that has it
    unused,     \* requests that have not arrived
    tokenPool, kv
forwardVars == <<engine, capture, reqs, unused, tokenPool, kv>>

Junk == <<Nobody, 0>>
Token(u, p) == <<u, p>>
NoRequest == [uid |-> Nobody, row |-> NumRows, cached |-> 0, device |-> 0, chunked |-> FALSE]

At(s, i) == s[i + 1]
Ints(from, to) == [i \in 1 .. to - from |-> from + i - 1]
Cumulative(s) == [i \in 1 .. Len(s) + 1 |-> FoldSeq(LAMBDA x, y : x + y, 0, SubSeq(s, 1, i - 1))]
Largest(s) == FoldSeq(LAMBDA x, y : IF x > y THEN x ELSE y, 0, s)
Overlay(new, old) == new \o SubSeq(old, Len(new) + 1, Len(old))

ExtendLen(req) == req.device - req.cached
MaxDeviceLen(req) == PromptLen[req.uid] + OutputLen[req.uid]
CanDecode(req) == ~req.chunked /\ req.device < MaxDeviceLen(req)

\* The page table: raw locations.  The pages of the rows alternate; every column
\* of the dummy request's row is the first location of the dummy page.
PagesPerRow == MaxSeqLen \div PageSize
DummyLoc == NumRows * MaxSeqLen
RowLoc(row, p) ==
    ((p \div PageSize) * NumRows + NumRows - 1 - row) * PageSize + (p % PageSize)
\* Mutant: the dummy row is not filled.
PageTableUnfilled(row, p) == IF row = NumRows THEN 0 ELSE RowLoc(row, p)
PageTable(row, p) == IF row = NumRows THEN DummyLoc ELSE RowLoc(row, p)
Locations == 0 .. DummyLoc + PageSize - 1

-----------------------------------------------------------------------------
\* Startup: backends, dummy request, capture of the graphs.
DummyReq == [uid |-> Nobody, row |-> NumRows, cached |-> 0, device |-> 1, chunked |-> FALSE]

MaxGraphBs == Largest(SetToSeq(engine.graphs))

CaptureData(bs) ==
    [seqLens |-> [i \in 1 .. bs |-> 1],
     cuK     |-> Ints(0, bs + 1),
     cuQ     |-> Ints(0, bs + 1),
     table   |-> [i \in 1 .. bs |-> [c \in 1 .. PagesPerRow |-> 0]],
     \* prepare_for_capture of the ragged backend plans for dummy requests
     indices |-> [i \in 1 .. bs * MaxSeqLen |->
                     IF engine.decode = "ragged" /\ i <= bs THEN DummyLoc ELSE 0]]

ForwardInit ==
    /\ engine \in [prefill : {"paged", "ragged"}, decode : {"paged", "ragged"},
                   graphs : GraphLists, speculating : BOOLEAN]
    /\ engine.speculating => engine.graphs = {}     \* speculative_skip_graphs
    /\ capture = CaptureData(MaxGraphBs)
    /\ reqs = [r \in 0 .. NumRows - 1 |-> NoRequest]
    /\ unused = Requests
    /\ tokenPool = [r \in 0 .. NumRows |-> [c \in 0 .. MaxSeqLen - 1 |-> Junk]]
    /\ kv = [l \in Locations |-> Junk]

-----------------------------------------------------------------------------
\* A batch is its phase and its requests, in order.
CanUseCudaGraph(batch) == batch.phase = "decode" /\ Len(batch.reqs) <= MaxGraphBs

\* GraphRunner.pad_batch: padded_reqs
Padded(batch) ==
    IF CanUseCudaGraph(batch)
    THEN LET size == CHOOSE bs \in engine.graphs :
                         /\ bs >= Len(batch.reqs)
                         /\ \A other \in engine.graphs : other >= Len(batch.reqs) => bs <= other
         IN  batch.reqs \o [i \in 1 .. size - Len(batch.reqs) |-> DummyReq]
    ELSE batch.reqs

MakePositions(padded) ==
    FlattenSeq([i \in DOMAIN padded |-> Ints(padded[i].cached, padded[i].device)])

MakeInputTuple(padded) ==
    LET rows      == FlattenSeq([i \in DOMAIN padded |->
                         [j \in 1 .. ExtendLen(padded[i]) |-> padded[i].row]])
        positions == MakePositions(padded)
    IN  [k \in DOMAIN positions |-> <<rows[k], positions[k]>>]

\* Column -1 is the last one.
MakeWriteTuple(batch) ==
    IF batch.phase = "verify" THEN <<>>
    ELSE [i \in DOMAIN batch.reqs |->
             LET req == batch.reqs[i]
             IN  <<req.row, IF CanDecode(req) THEN req.device ELSE MaxSeqLen - 1>>]

\* prepare_metadata of both backends: cu_seqlens_q and cu_seqlens_k.
CuSeqlensQ(padded) ==
    LET seqlensQ == [i \in DOMAIN padded |-> ExtendLen(padded[i])]
    IN  IF Largest(seqlensQ) = 1 THEN Ints(0, Len(padded) + 1)
        ELSE IF \A i \in DOMAIN padded : padded[i].cached = 0
        THEN Cumulative([i \in DOMAIN padded |-> padded[i].device])
        ELSE Cumulative(seqlensQ)

PagedMetadata(padded) ==
    LET seqlensK == [i \in DOMAIN padded |-> padded[i].device]
        columns  == (Largest(seqlensK) + PageSize - 1) \div PageSize
    IN  [cuQ     |-> CuSeqlensQ(padded),
         cuK     |-> Cumulative(seqlensK),
         seqLens |-> seqlensK,
         table   |-> [i \in DOMAIN padded |-> [c \in 1 .. columns |->
                         PageTable(padded[i].row, (c - 1) * PageSize) \div PageSize]],
         indices |-> <<>>]

RaggedMetadata(padded) ==
    LET seqlensK == [i \in DOMAIN padded |-> padded[i].device]
    IN  [cuQ     |-> CuSeqlensQ(padded),
         cuK     |-> Cumulative(seqlensK),
         seqLens |-> <<>>,
         table   |-> <<>>,
         indices |-> FlattenSeq([i \in DOMAIN padded |->
                         [p \in 1 .. padded[i].device |-> PageTable(padded[i].row, p - 1)]])]

Metadata(kind, padded) ==
    IF kind = "paged" THEN PagedMetadata(padded) ELSE RaggedMetadata(padded)

\* HybridBackend.prepare_metadata and forward
BackendOf(batch) == IF batch.phase = "prefill" THEN engine.prefill ELSE engine.decode

\* Mutant: the lengths stay those of an earlier replay.
ReplayPagedStale(meta) ==
    [capture EXCEPT
        !.cuK   = Overlay(meta.cuK, @),
        !.table = Overlay([i \in DOMAIN meta.table |-> Overlay(meta.table[i], @[i])], @)]

\* FlashAttentionBackend.prepare_for_replay: into the front of the buffers.
ReplayPaged(meta) ==
    [capture EXCEPT
        !.cuK     = Overlay(meta.cuK, @),
        !.seqLens = Overlay(meta.seqLens, @),
        !.table   = Overlay([i \in DOMAIN meta.table |-> Overlay(meta.table[i], @[i])], @)]

\* FlashInferBackend.prepare_for_replay: plan copies into the graph wrapper's buffers.
ReplayRagged(meta) ==
    [capture EXCEPT !.cuK = Overlay(meta.cuK, @), !.indices = Overlay(meta.indices, @)]

Replayed(kind, meta) == IF kind = "paged" THEN ReplayPaged(meta) ELSE ReplayRagged(meta)

-----------------------------------------------------------------------------
\* The kernels.  Keys of a sequence, and where the cache has its k-th.
KeyLen(kind, meta, i) ==
    IF kind = "paged" THEN At(meta.seqLens, i) ELSE At(meta.cuK, i + 1) - At(meta.cuK, i)

KeyLoc(kind, meta, i, k) ==
    IF kind = "paged"
    THEN At(At(meta.table, i), k \div PageSize) * PageSize + (k % PageSize)
    ELSE At(meta.indices, At(meta.cuK, i) + k)

\* store_kv: keys and values of the batch's tokens, rotated by their positions.
StoreKV(cache, ids, positions, outLoc) ==
    [l \in Locations |->
        LET writers == {k \in DOMAIN outLoc : outLoc[k] = l}
        IN  IF writers = {} THEN cache[l]
            ELSE LET k == CHOOSE w \in writers : \A v \in writers : v <= w
                 IN  IF ids[k][2] = positions[k] THEN ids[k] ELSE Junk]

\* Causal attention aligns the queries of a sequence with its last keys: query
\* row q of sequence i predicts the next token if it sees all before, in order.
Attend(kind, meta, cache, ids, i, q) ==
    LET last == KeyLen(kind, meta, i) - (At(meta.cuQ, i + 1) - q)
        uid  == At(ids, q)[1]
    IN  IF /\ last >= 0 /\ uid \in Requests /\ At(ids, q) = Token(uid, last)
           /\ \A k \in 0 .. last : cache[KeyLoc(kind, meta, i, k)] = Token(uid, k)
        THEN Token(uid, last + 1) ELSE Junk

\* One prediction per query row of the first bs sequences.
Outputs(kind, meta, cache, ids, bs) ==
    FlattenSeq([i \in 1 .. bs |->
        [j \in 1 .. meta.cuQ[i + 1] - meta.cuQ[i] |->
            Attend(kind, meta, cache, ids, i - 1, meta.cuQ[i] + j - 1)]])

\* ParallelLMHead picks a prefill's last rows by get_last_indices.
Logits(batch, meta, outputs) ==
    IF batch.phase = "prefill"
    THEN [i \in DOMAIN batch.reqs |-> At(outputs, meta.cuQ[i + 1] - 1)]
    ELSE outputs

\* prepare_batch and forward_batch, from a token pool and a cache: the new
\* cache and capture buffers, and the predictions.
Pass(batch, pool, cache) ==
    LET padded    == Padded(batch)
        kind      == BackendOf(batch)
        graph     == CanUseCudaGraph(batch)
        meta      == Metadata(kind, padded)
        buffers   == IF graph THEN Replayed(kind, meta) ELSE capture
        read      == IF graph THEN buffers ELSE meta
        positions == MakePositions(padded)
        inputs    == MakeInputTuple(padded)
        outLoc    == [k \in DOMAIN inputs |-> PageTable(inputs[k][1], inputs[k][2])]
        ids       == [k \in DOMAIN inputs |-> pool[inputs[k][1]][inputs[k][2]]]
        stored    == StoreKV(cache, ids, positions, outLoc)
    IN  [kv |-> stored, capture |-> buffers,
         next |-> Logits(batch, read, Outputs(kind, read, stored, ids, Len(padded)))]

-----------------------------------------------------------------------------
\* Cells <<row, column>> of the token pool set to tokens.
Written(pool, cells, tokens) ==
    [r \in DOMAIN pool |-> [c \in DOMAIN pool[r] |->
        IF <<r, c>> \in ToSet(cells)
        THEN tokens[CHOOSE i \in DOMAIN cells : cells[i] = <<r, c>>] ELSE pool[r][c]]]

Running == {r \in DOMAIN reqs : /\ reqs[r] # NoRequest /\ ~reqs[r].chunked
                                /\ CanDecode(reqs[r])}
Orders(rows) == {s \in SeqOf(rows, NumRows) : s # <<>> /\ IsInjective(s)}

Advanced(batch, new) ==
    [r \in DOMAIN reqs |->
        IF \E i \in DOMAIN batch.reqs : batch.reqs[i].row = r
        THEN new[CHOOSE i \in DOMAIN batch.reqs : batch.reqs[i].row = r] ELSE reqs[r]]

\* Request.complete_n
CompleteN(req, n) == [req EXCEPT !.device = @ + n, !.cached = req.device + n - 1]

\* PrefillAdder: the request of a row arrives, some pages of its prompt matched
\* in the prefix cache, or goes on after a chunk; this batch computes it up to d.
UpTo(req, d) == [req EXCEPT !.device = d, !.chunked = d < PromptLen[req.uid]]
Arrived(u, r, c) == [NoRequest EXCEPT !.uid = u, !.row = r, !.cached = c]
Staged(r) ==
    LET fresh == {Arrived(u, r, n * PageSize) : u \in unused, n \in 0 .. PagesPerRow}
        from  == IF reqs[r] = NoRequest THEN fresh
                 ELSE IF reqs[r].chunked THEN {reqs[r]} ELSE {}
    IN  UNION {{UpTo(req, d) : d \in req.cached + 1 .. PromptLen[req.uid]} : req \in from}

Prefill(staged) ==
    LET batch  == [phase |-> "prefill", reqs |-> staged]
        cells  == FlattenSeq([i \in DOMAIN staged |->
                      [c \in 1 .. staged[i].device |-> <<staged[i].row, c - 1>>]])
        tokens == FlattenSeq([i \in DOMAIN staged |->
                      [c \in 1 .. staged[i].device |-> Token(staged[i].uid, c - 1)]])
        pool   == Written(tokenPool, cells, tokens)
        \* what the prefix cache holds in the matched pages
        cache  == [l \in Locations |->
                      LET own == {k \in DOMAIN cells :
                                      /\ PageTable(cells[k][1], cells[k][2]) = l
                                      /\ \E i \in DOMAIN staged :
                                            /\ staged[i].row = cells[k][1]
                                            /\ cells[k][2] < staged[i].cached}
                      IN  IF own # {} /\ reqs[cells[CHOOSE k \in own : TRUE][1]] = NoRequest
                          THEN tokens[CHOOSE k \in own : TRUE] ELSE kv[l]]
        pass   == Pass(batch, pool, cache)
    IN  /\ tokenPool' = Written(pool, MakeWriteTuple(batch), pass.next)
        /\ kv' = pass.kv /\ capture' = pass.capture
        \* complete_to_device_len; process then completes all but the chunked by 1
        /\ reqs' = Advanced(batch, [i \in DOMAIN staged |->
               IF staged[i].chunked THEN [staged[i] EXCEPT !.cached = staged[i].device]
               ELSE CompleteN(staged[i], 1)])
        /\ unused' = unused \ {staged[i].uid : i \in DOMAIN staged}
        /\ UNCHANGED engine

PrefillSome ==
    \E rows \in Orders(DOMAIN reqs) :
        \E staged \in [DOMAIN rows -> UNION {Staged(r) : r \in ToSet(rows)}] :
            /\ \A i \in DOMAIN rows : staged[i] \in Staged(rows[i])
            /\ \A i, j \in DOMAIN rows : i # j => staged[i].uid # staged[j].uid
            /\ Prefill(staged)

\* The decode batch; advance_for_overlap follows before the next is prepared.
Decode(rows) ==
    LET batch == [phase |-> "decode", reqs |-> [i \in DOMAIN rows |-> reqs[rows[i]]]]
        pass  == Pass(batch, tokenPool, kv)
    IN  /\ ~engine.speculating
        /\ tokenPool' = Written(tokenPool, MakeWriteTuple(batch), pass.next)
        /\ kv' = pass.kv /\ capture' = pass.capture
        /\ reqs' = Advanced(batch, [i \in DOMAIN rows |-> CompleteN(batch.reqs[i], 1)])
        /\ UNCHANGED <<engine, unused>>

-----------------------------------------------------------------------------
\* Speculative decoding: the drafts are prepared by VerifyManager.schedule_next_batch.
Pad == Token(Nobody, -1)
NumDrafts(req) ==
    LET remain == MaxDeviceLen(req) - req.device
    IN  IF remain = 0 THEN 0 ELSE IF K < remain - 1 THEN K ELSE remain - 1

\* Sampler.reject_sample: per request, the accepted drafts, a token of the
\* target, and padding.  A sampled acceptance is a choice of drafts as well.
RejectSample(batch, drafts, next) ==
    LET begin == Cumulative([i \in DOMAIN batch.reqs |-> ExtendLen(batch.reqs[i])])
    IN  [i \in DOMAIN batch.reqs |->
            LET num      == ExtendLen(batch.reqs[i]) - 1
                target   == SubSeq(next, begin[i] + 1, begin[i] + num + 1)
                accepted == CHOOSE n \in 0 .. num :
                                /\ \A j \in 1 .. n : target[j] = drafts[i][j]
                                /\ n < num => target[n + 1] # drafts[i][n + 1]
            IN  [j \in 1 .. K + 1 |-> IF j <= accepted THEN drafts[i][j]
                                      ELSE IF j = accepted + 1 THEN target[j] ELSE Pad]]

\* VerifyManager.process counts by comparing with its own drafts.
SampledTokens(extendToken, drafts) ==
    LET differ == {j \in DOMAIN drafts : extendToken[j] # drafts[j]}
        count  == IF differ = {} THEN Len(drafts) + 1
                  ELSE CHOOSE j \in differ : \A i \in differ : j <= i
    IN  SubSeq(extendToken, 1, count)

Verify(rows, drafts) ==
    LET batch   == [phase |-> "verify", reqs |-> [i \in DOMAIN rows |->
                       LET req == reqs[rows[i]]
                       IN  [req EXCEPT !.device = req.cached + NumDrafts(req) + 1]]]
        cells   == FlattenSeq([i \in DOMAIN rows |-> [j \in 1 .. Len(drafts[i]) |->
                       <<rows[i], reqs[rows[i]].cached + j>>]])
        pool    == Written(tokenPool, cells, FlattenSeq(drafts))
        pass    == Pass(batch, pool, kv)
        extend  == RejectSample(batch, drafts, pass.next)
        sampled == [i \in DOMAIN rows |-> SampledTokens(extend[i], drafts[i])]
        done    == [i \in DOMAIN rows |->
                       CompleteN([batch.reqs[i] EXCEPT !.device = @ - NumDrafts(reqs[rows[i]])],
                                 Len(sampled[i]))]
    IN  /\ engine.speculating
        /\ kv' = pass.kv /\ capture' = pass.capture
        /\ tokenPool' = Written(pool, [i \in DOMAIN rows |-> <<rows[i], done[i].cached>>],
                                [i \in DOMAIN rows |-> Last(sampled[i])])
        /\ reqs' = Advanced(batch, done)
        /\ UNCHANGED <<engine, unused>>

\* A draft is the target's next token or another one.
Drafted(req) == [1 .. NumDrafts(req) -> BOOLEAN]
DraftTokens(req, right) ==
    [j \in DOMAIN right |-> Token(IF right[j] THEN req.uid ELSE Wrong, req.cached + j)]

VerifySome ==
    \E rows \in Orders(Running) :
        \E right \in [DOMAIN rows -> UNION {Drafted(reqs[r]) : r \in ToSet(rows)}] :
            /\ \A i \in DOMAIN rows : right[i] \in Drafted(reqs[rows[i]])
            /\ Verify(rows, [i \in DOMAIN rows |-> DraftTokens(reqs[rows[i]], right[i])])

\* A request ends or is aborted: its row is free, what it wrote stays.
Leave(r) ==
    /\ reqs[r] # NoRequest
    /\ reqs' = [reqs EXCEPT ![r] = NoRequest]
    /\ UNCHANGED <<engine, capture, unused, tokenPool, kv>>

ForwardNext ==
    \/ PrefillSome
    \/ \E rows \in Orders(Running) : Decode(rows)
    \/ VerifySome
    \/ \E r \in DOMAIN reqs : Leave(r)

Admitted == {r \in DOMAIN reqs : reqs[r] # NoRequest}

(* Every token of a request, the ones of its prompt, the ones that were    *)
(* sampled, accepted or corrected for it, and the one its next pass feeds  *)
(* the model, is the one the model gives after all the tokens before it:   *)
(* in every order of batches, chunks, matched prefixes and verify rounds,  *)
(* on each backend, with and without padding and graph replay, each query  *)
(* row read its own request up to its own position, and the sampled tokens *)
(* went back where the next pass looks for them.                           *)
TokensFollow ==
    \A r \in Admitted : \A c \in 0 .. reqs[r].device - 1 :
        tokenPool[r][c] = Token(reqs[r].uid, c)

(* The cache holds the keys and values of every token a request counts as  *)
(* cached: no padding row, graph capture, rejected draft or neighbour in   *)
(* the batch has written over them.                                        *)
CacheHolds ==
    \A r \in Admitted : \A c \in 0 .. reqs[r].cached - 1 :
        kv[PageTable(r, c)] = Token(reqs[r].uid, c)
=============================================================================
