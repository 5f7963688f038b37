# Verification of pico-sglang

TLA+ models of the pico-sglang serving runtime (`src/python/picosgl`), the TLC runs that check them on
small instances, and theorems about them that TLAPS proves for every value of the constants.

## 1. The system

pico-sglang serves a language model. A request passes through several processes, connected by ZMQ queues:

    client -> API server -> tokenizer worker(s) -> scheduler rank 0 -> detokenizer -> API server -> client
                                                     |      |
                                      other TP ranks (PUB)  speculator process (drafts)

The scheduler process holds what is hard: a loop in one thread that overlaps the GPU's execution of one
batch with the bookkeeping of the previous one, above a paged KV cache whose pages are shared between
requests through a prefix tree with reference counts.

### Inventory

| Component (`src/python/picosgl/`) | State | Operations | What makes it correct |
|---|---|---|---|
| Prefix cache contract (`cache/base.py`) | cached prefixes and their pages, reference counts, evictable and protected size | `match_prefix`, `insert_prefix`, `lock_handle`, `unlock_handle`, `evict`, `check_integrity` | a locked prefix is never evicted; the counters are exact; no page is cached twice |
| Radix prefix cache (`cache/radix_prefix_cache.py`) | tree of nodes with key, pages, `ref_count`, timestamp | the same, with `_tree_walk`, `split_at`, a heap of leaves | it implements the contract while it splits nodes below handles; eviction is LRU |
| Naive cache, factory (`cache/naive_prefix_cache.py`, `cache/__init__.py`) | none | every match is empty | nothing is retained |
| Cache manager (`scheduler/cache.py`) | `free_pages`, `free_states`, lazy free list, page table, state table, `verify_reserve_states` | `match_req`, `lock`, `unlock`, `allocate_paged`, `allocate_state`, `cache_req`, `lazy_free_region`, `state_commit_verify`, `check_integrity` | each page and each state slot is in exactly one place; a checkpoint is the state of its prefix |
| Scheduler loop (`scheduler/scheduler.py`) | `last_data`, the current batch, new and old finished sets | `overlap_loop`, `_process_one_msg`, `_schedule_next_batch`, `_forward`, `_process_last_data`, `_free_req_resources` | resources are freed once, after their last use in flight; one reply per token |
| Prefill manager (`scheduler/prefill.py`) | `pending_list`, `inflight_reqs`, `PrefillAdder` budgets | `add_one_req`, `schedule_next_batch`, `advance_for_next_schedule`, `abort_req` | admission never over-commits pages or rows; a chunk keeps its resources |
| AR and decode managers (`scheduler/ar.py`, `decode.py`) | `running_reqs`, `inflight_uids`, `finished_reqs` | `schedule_next_batch`, `process`, `abort_req` | each request ends exactly when it should, and does end |
| Requests and batches (`core.py`) | `cached_len`, `device_len`, `max_device_len`, `input_ids`, handle, aborted flag | `advance_for_overlap`, `append_host`, `can_decode` | the lengths agree with what the GPU has written |
| Table manager (`scheduler/table.py`) | free rows, page table, token pool | `allocate`, `free` | a row has one owner |
| Verify manager (`scheduler/verify.py`) | running and in-flight requests, drafts, hidden states | `schedule_next_batch`, `process`, `on_prefill_done`, `abort_req` | accepted prefixes are committed, rejected drafts leave nothing behind |
| Scheduler I/O (`scheduler/io.py`) | ZMQ sockets, gloo group | `receive_msg` (rank 0 broadcasts a count over gloo, then the raw messages over PUB; the others SUB), `send_result` | all ranks handle the same messages in the same iteration |
| Engine (`engine/`) | KV pool, linear state pool, CUDA graphs, the memory budget | `_determine_num_pages`, `prepare_batch`, `forward_batch`, `pad_batch`, `replay`, `sample`, `reject_sample` | batches execute in launch order; each query row reads its own request; padding touches nobody; the device's memory suffices |
| Attention backends (`layers/attention_backend/`) | metadata, capture buffers | `prepare_metadata`, `prepare_for_capture`, `prepare_for_replay`, `forward` | a replay reads nothing stale |
| Linear attention backend (`layers/linear_attention_backend/`) | state slots | prefill, decode and verify passes | a pass reads the state of exactly the tokens before it |
| Speculator client, server, runner (`speculator/`) | start and ready events, in-flight step | handshake, `init`, `step`, `remove`; a step sends a message and hidden states and blocks for the probabilities | request and reply stay paired; drafts belong to the request they are used for |
| Speculator data plane (`speculator/data_plane.py`) | one buffer for each direction, a generation | publish and receive over NCCL, CUDA IPC or shared memory | a buffer is not overwritten before it was read |
| Drafters (`speculator/drafters/`; MTP and EAGLE3, one protocol) | draft states with window and pending rows; `DraftKVPool`: heads and lengths of per-row circular windows, scratch slots | `init`, `step`, `remove`, `draft`; `reset`, `append_persistent_batch`, `scratch_slots`, `store` | a row's window holds the last accepted tokens, each with its own hidden row |
| Messages and queues (`message/`) | ZMQ PUSH/PULL and PUB/SUB | encode, decode, put, get | FIFO per sender |
| Tokenizer and detokenizer workers (`tokenizer/`) | `decode_map` per uid | tokenize, forward aborts, detokenize increments | no text is lost at a boundary; entries are released |
| API server (`server/api_server.py`) | `uid_counter`, `ack_map`, `event_map` | new request, `listen`, `wait_for_ack`, `stream_with_cancellation`, `abort_user` | each reply reaches its request; ended requests leave nothing |
| Launcher, arguments (`server/launch.py`, `args.py`) | processes, ready queue | start, wait for acknowledgements | everything is ready before requests flow |
| Offline LLM (`llm/llm.py`) | pending requests, results | `generate` | the scheduler with in-process messages |
| Distributed wrappers (`distributed/`), pools (`cache/kv`, `cache/linear`) | process groups, tensors | collectives, `store_kv`, indexing | - |
| Weight loading, tensor-parallel layers (`models/weight.py`, `layers/`) | merge and expert buffers, parameters | `load_weight`, `_shard_tensor`, `load_state_dict` | together the ranks have the whole model, each part once and with its partners |
| Fused experts (`layers/moe_backend/`, `kernel/moe.py`) | none | alignment, two grouped products, the sum | each routed pair is computed once |
| Models, norms, rotary embeddings, other kernels | weights | numerics | - |

### How they interact, and what is hard

* **Overlap.** An iteration launches a batch *before* it reads the results of the previous one. A request
  that just finished, or was aborted, may have one more step in flight; its lengths were advanced at
  launch (`advance_for_overlap`), its tokens arrive one iteration later. Each decision on the host
  (finish, free, cache) is made from state that is one step ahead of the tokens.
* **Sharing.** Requests that share a prefix share pages. A page moves between the free list, a request and
  the tree; `cache_req` unlocks the old handle, inserts, frees the duplicates and locks the new one, while other
  requests hold handles into nodes that may be split.
* **Limits.** Pages, rows, prefill and decode budgets, state slots. Admission promises pages that are
  allocated many iterations later, and an allocation that fails is an exception in the loop.
* **Aborts** reach a request while it is pending, between chunks, in flight, or running.
* **Long prompts** are prefilled in chunks, which occupy the head of the pending list.
* **Speculation** advances a request by one to K + 1 tokens per round. A hybrid model also has recurrent states,
  which cannot be cut back: the commit of a round picks the right slot by index operations only.
* **Processes.** Aborts may overtake their request when there are several tokenizers; replies may arrive
  for clients that left; a late subscriber misses broadcasts; a shared buffer is overwritten without an
  acknowledgement.

The hazards, each with its line and the properties that watch it, are listed in `PROJECT.json`.

## 2. The modules

    PrefixTree        pure operators on prefix maps           (no state)
    Selection         keeping some elements of a list         (no state)
      PrefixCache     the contract of a prefix cache          abstract specification
        PrefixCacheProofs                                     its theorems
        RadixCache    the radix tree                          refines PrefixCache
      Scheduler       the overlap loop of a dense model       uses the contract's operators
        SchedulerProofs                                       its theorems
      StateSlots      the hybrid half of the cache manager    uses the contract's operators
        StateSlotsProofs                                      its theorems: where the slots are
          StateContentsProofs                                 and what they contain
    Speculation       target and drafter processes            keeps lists with Selection
      SpeculationProofs                                       its theorems
    RequestPipeline   API server, tokenizers, ranks, detokenizer
      RequestPipelineProofs                                   theorems about the ranks
        RequestStreamProofs                                   theorems about the clients
    Division          div_ceil and div_even
      WeightLoading   the checkpoint and the layers of a tensor-parallel group
      FusedExperts    the blocks of the mixture-of-experts kernels
    ForwardPass       one engine: batches, metadata, graphs, tokens
      MCEngine        runs WeightLoading, ForwardPass and FusedExperts side by side
    Lemmas            lists, loops, prefixes, finite sets     for the modules of proofs

Each module looks at the system at the level where its question is decided. `Scheduler` has the pages and the
bookkeeping of one rank; what a batch computes is a token chosen freely. `ForwardPass` takes pages and rows as
allocated and follows each token through tables and kernels. `Speculation` and `RequestPipeline` have several processes
and reduce the scheduler to the order in which it takes messages, launches batches and reads results. What one
module assumes, another shows: the free rows of `Speculation` and `ForwardPass` are those of `Scheduler`, the lengths
of a round those of `StateSlots`, and the commits of `RequestPipeline` with a speculator those of `Speculation`. Without
one, `RequestPipeline` repeats the finish rule of `Scheduler`, the stale `inflight_uids` included, since
finding 1 decides who is answered.

`PrefixTree` holds the operators of the contract (match, insert, lock, unlock, legal evictions) on a map from
prefixes to pages and a map from prefixes to reference counts. `PrefixCache`, `Scheduler` and `StateSlots` use
the same operators, so that what is proved and checked about the contract concerns the cache the schedulers use.
`RadixCache` justifies using the contract in place of the tree.

### PrefixTree, PrefixCache

A node of the tree is *a cached prefix*: a non-empty sequence of blocks, a block being the tokens of one page.
`cached` maps it to its page, `ref` to its reference count. (The radix tree keeps a path of prefixes in one
node; they have one count.) `handle[c]` is the prefix that request `c` has locked, `cur` the handle returned by the
last match or insert. `cur` is valid until the next call that changes the tree: the callers in `scheduler/` use
a handle at once or lock it. One action for each method: `MatchPrefix`, `InsertPrefix`, `LockHandle`,
`UnlockHandle`, `Evict`. `Evict(size)` removes any set of unreferenced prefixes that leaves the rest closed
under prefixes and is large enough; which one is the implementation's choice. The running counters
`evictable_size` and `protected_size` are variables, as in the code, since they are what admission reads.

### RadixCache

`nodes` maps node ids to `[parent, key, pages, ref, ts]`, as `RadixTreeNode`. `TreeWalk` follows full nodes, stamps
them, and splits the node in which the match ends (`split_at`: the head is a new node and takes over the reference
count, the tail keeps the identity that handles point to). `Victims` is the heap of `evict`: leaves without a
reference, oldest first, a parent joining when its last child goes. Timestamps are dense ranks: only their order
matters. `Abstract` maps a tree to the contract's maps by spelling out the path to every position in every node;
`RefinesPrefixCache` says that every step is a contract step or a stutter. `MaxNodes` bounds the tree.

### Scheduler

One rank serving a dense model without speculation. `pc` is the place in `overlap_loop`:

| Action | Code |
|---|---|
| `RecvUser`, `RecvAbort` | `_process_one_msg`: a too long prompt is dropped; an abort is looked up in the prefill manager, then in the decode manager, and its resources are freed at once or by the result in flight |
| `StartSchedule`, `AdmitChunk`, `AdmitNew`, `LaunchPrefill` | `PrefillManager.schedule_next_batch` and `PrefillAdder`: test, lock, test again, take a row, cut a chunk; allocation and `advance_for_overlap` |
| `LaunchDecode` | `DecodeManager.schedule_next_batch`: requests not in flight first, decode budget, `inflight_uids` renewed |
| `SkipResult`, `ProcessResult`, `EndProcess` | `ARManagerBase.process` in its `lazy_free_region`, one request of the batch a step |
| `FreeFinished`, `NextIteration` | `_free_req_resources` for each finished request, then `last_data` and the test for an idle loop |
| `Blocked` | the blocking `receive_msg`, with `check_integrity` before |

The model keeps the lengths, the host tokens, every page by name in the free list, the lazy list, the tree and the page
table, the free rows, the pending and the running list in order. The sampled token is chosen when the
scheduler reads it; the loop is one thread, so splitting an iteration into steps adds no behaviour. Left out: the
copies between token pool, streams and tensors, sampling parameters except `max_tokens` and `ignore_eos`, the
profiler, `ExitMsg`.

### StateSlots

The linear-attention states of a hybrid model. Each page that is cached or allocated owns a slot, which holds the
state after its last token; with speculation each row has K + 1 reserve slots, one per candidate token. The variable
`state` records *which tokens* the state in a slot has consumed, `Junk` if there is no telling, so
that properties can say which state a pass reads. `Prefill`, `Decode`, `LaunchVerify` allocate and run a pass;
`PrefillDone`, `ProcessVerify` (with `state_commit_verify`) and `Release` are the host side. `speculating` is
chosen in `Init`. Requests take their steps in any order, more than the loop allows. Pages are only counted here:
which page is which is the business of `Scheduler`, and the abort of a request in flight gives back the slots it
allocated and no other page. Assumed: `KernelChunk <= PageSize` (`engine/engine.py:447` makes the page size of a hybrid
model a multiple of the chunk, 64) and `Drafts + 1 < PageSize`.

### Speculation

Two processes, `tpc` and `dpc`, two FIFOs of messages and a data plane, which is chosen in `Init`: `nccl` moves
rows in order, `local` (CUDA IPC or shared CPU memory) overwrites the head of one buffer and queues how many
rows it wrote.

| Action | Code |
|---|---|
| `MeasureBaseline`, `StartDrafter`, `DrafterReady`, `SizeCache` | the two engines start on one device: events before and after the drafter's allocation, and `_determine_num_pages` |
| `SendHandshake`, `RecvHandshake`, `JoinTarget`, `JoinDrafter`, `RecvAck` | `MainSpeculatorClient.__init__`, `run_forever`, the two ends of the data plane |
| `RecvUser`, `AbortPrefill`, `AbortRunning`, `SchedulePrefill` | the loop, with `VerifyManager.abort_req`, which drops a request at once while its round is in flight |
| `ScheduleVerify`, `ScheduleNothing`, `RecvDrafts` | `VerifyManager.schedule_next_batch`: the skipped iteration, the candidates, the number of drafts of each, `client.step` and its answer |
| `ProcessPrefill`, `SkipPrefill`, `ProcessVerify`, `EndIteration` | `process`: `on_prefill_done` with `client.init`, the committed tokens, the rows carried to the next step, finished requests |
| `DraftInit`, `DraftStep`, `DraftRemove` | `SpeculatorRunner.run_forever` with the draft manager, `MTPEngine.draft` and `DraftKVPool` |

A row of hidden states is `<<uid, p>>`, the state that predicts the token at position `p`, or `Junk` behind a rejected
draft. Which drafts are accepted and which requests end with an EOS is chosen when the results are read. The
free rows are a stack, as in the table manager, so that a row is used again at once. EAGLE3 has the same
manager, messages and pool as MTP; only the width of its rows differs. The skipped iteration, the budget and the buffer
sizes have the code's three formulas: `Candidates` rounds up, `MaxBatch` rounds down.

### RequestPipeline

A request is its uid and generates the tokens `1 .. OutLen`. `NewUser`, `Listen`, `Wake`, `Yield`, `Disconnect` and
`AbortUser` are the asyncio tasks of `FrontendManager`, cut where they await; `Tokenize(t)` a worker, which gets its
messages from a PUSH socket's free choice; `Drain`, `ReceiveRank0`, `ReceiveRank1` the receives of `scheduler/io.py`;
`StepRank0`, `StepRank1` the broadcast of drafts and probabilities; `Forward` the collective forward pass with the
results of the previous iteration. The size of the group, whether the server speculates, and which prompts are too long
are chosen in `Init`. `MaxCounts` bounds how far rank 0 may be ahead.
A disconnect after the last token has been yielded is left out: the response is over, and the abort finds nothing.

`Reply`, `Finished` and `Settled` are `process` of `scheduler/ar.py`: a client of `EosEnds` ends with Eos, the others at
`max_tokens`. Without a speculator the second kind is finished only if its uid is not taken to be in flight
(`Stale`): a prefill launched in the same iteration leaves `inflight_uids` as it was, the reply says that more is to come, and the
request stays with the rank, which never decodes it again (`CanDecode`).

The text of a request is a sequence of characters, named by their positions: `Complete[u][n]` of them are complete
after `n` tokens, and after the tokens of `PartialAt` the text ends inside another one. `Detokenize` keeps `prefix_end`,
`len(decoded_ids)` and `partial_sent` for each request (`decodeMap`); `prefix_begin`, the `prefix_end` before, only gives the
tokenizer its context. `Shown` is what `_find_printable_text` lets pass, for which a character is a CJK one, a space or
another (`Kind`): everything up to a CJK character at the end, else up to the last space. `Increment` is what is sent,
`new_text[partial_sent:]`, and `After` what is remembered: whole text is done with, else `partial_sent` becomes the length of what can be
shown *now*. An increment is empty if what can be shown is shorter than what was sent.

### WeightLoading, ForwardPass, FusedExperts

Three parts of the engine that share no variable; `MCEngine` gives each its own behaviours (`part`).

`WeightLoading`: a tensor is the sequence of its slices (heads, neurons, vocabulary rows) along the dimension that is
split. `LoadTensor(key)` reads any tensor that is left (the order is that of the files) on all ranks: `ShardTensor`, the
merge groups, the experts' buffer. `LoadStateDict` compares sizes with those of the constructors. `HeadTerms`,
`DeltaTerms`, `NeuronTerms`, `Lookup` and `VocabLogits` say which slices a rank's kernels combine.

`ForwardPass`: token `p` of request `u` is `<<u, p>>`, and so are its entry in the KV cache and the prediction of it;
whatever was computed from wrong inputs is `Junk`. `Prefill`, `Decode` and `Verify` build a batch as the managers do and
run `Pass`: `Padded`, positions and input tuples, `PagedMetadata` (FlashAttention) or `RaggedMetadata` (FlashInfer),
the front of the capture buffers overwritten for a replay, `StoreKV`, attention as "the query at position p sees
exactly the tokens before it", the logits a phase picks, and the write back to the token pool, at column -1 when
there is none to write. `RejectSample` and `SampledTokens` are the two places that count accepted drafts.

`FusedExperts`: `RunExperts` runs one layer for one choice of the router: `Aligned` sorts the pairs by expert and pads
them to blocks, `Block` is the grouped order of the programs, `Program` the cells a program writes, `SumReduce` the last kernel.
External, and taken from how the code calls them: the sorted pairs of `moe_align_block_size`, the alignment of queries
and keys in the attention kernels, `Tensor.chunk`, the router's choice.

## 3. The runs

| Run | Instance | What it shows |
|---|---|---|
| `prefix_cache` | 2 requests, 4 pages; the contract with inputs of 1 and 2 blocks that share a block; the tree with at most 7 nodes and inputs that are prefixes of each other or fork | the contract's invariants under every order of its calls; the tree implements the contract through splits; LRU order; handles keep their length. Pages and requests are symmetric: no property tells them apart |
| `overlap` | 3 requests, page size 2, 5 pages, 2 rows, prefill budget 2, decode budget 1, no aborts | chunked prefill, a matched prefix, evictions, a budget that leaves out a running request, Eos at any step |
| `aborts` | 3 requests, page size 4, 4 pages, 3 rows, budgets 3 and 2, each may be aborted at any time | no page, row or lock is leaked or freed twice, also when two requests insert the same prefix |
| `queue` | 3 requests and 1 row, one with a prompt that is too long and one that asks for more tokens than fit, fair | requests that wait for a row get it and finish |
| `state_slots` | 2 rows, page size 3, 4 pages, 1 draft, 3 requests, both with and without speculation | slots are neither lost nor shared; checkpoints and baselines are the state of exactly their tokens |
| `speculation` | 3 requests in 3 rows, 2 drafts, window 3, budget 4, both planes, 2 sampled requests, one that may be aborted, fair | drafts continue the text, hidden rows stay with their tokens, windows, buffers and memory suffice, every request ends |
| `pipeline` | 2 clients, 2 tokenizers, 1 or 2 ranks, with and without speculation, fair | texts arrive without a gap, ranks agree, clients are answered |
| `engine` | groups of 2 and 4, vocabularies of 6 and 8; 3 requests in 2 rows, every pair of backends, graphs of 1 or 2, 2 drafts; up to 4 tokens, 2 of 3 experts | the layers compose, tokens follow, the cache holds, each pair is computed once |
| `lost_finish`, `decode_abort`, `twin_prefixes` | 2 requests each | findings, section 5 |
| `text_twice` | 1 client, 6 tokens, 4 characters | finding 4, section 5 |

**Properties.** `PagesConserved` counts the places of each page: free list, lazy list, tree, private part of a row. It
is the loop invariant from which `check_integrity` (`IntegrityWhenIdle`) follows, and holds in every intermediate step.
`RowReadsCache` relates the page table to the tree: what a live row reads up to its handle is the locked prefix of
its tokens. `ReservationsHold` is the promise behind admission: what is free or evictable covers all that admitted
requests can still ask for, so that the exception of `_allocate` is unreachable.
`LocksMatchRequests` says the counts are the live handles. `FinishedMeansComplete` and `SilentAfterEnd` are about the
token in flight when a request ends: whoever is told that it finished has all tokens, and nothing follows. (That whoever has all
tokens is told so is `EventuallyEnded`, which finding 1 breaks.) In `StateSlots`, `SlotsConserved` counts the places of each slot,
`CheckpointsExact` says that what the tree offers for a prefix is the state of that prefix, `BaselineExact` that the next
round starts from the accepted tokens, and `StatesSuffice` that `free_states[0]` exists whenever the code takes it.

In `Speculation`, `DraftsContinue` says that the drafts of a round are for exactly the positions behind the last
committed token; `PoolHoldsWindow` that the drafter's ring holds the last tokens of the request that owns the row, in
order; `HiddenRight` that each of these rows came with the hidden state of its own token; `StepFits` that a step fits
the scratch rows and the buffers; `MemoryAccounted` that what the two processes allocate is there. In
`RequestPipeline`, `StreamUnbroken` says that a client receives its own text from the start and without a gap
(`NoGap`); that it receives no character twice, if what can be shown of the text never shrinks (`RepeatFree`); and that it has
all of it when its stream ends, but for what `HeldBack` names: a text that is cut by `max_tokens` inside a character loses,
with the incomplete one, the characters behind the last space or CJK character. `NothingTwice` is what a test expects of every text, and
does not hold (finding 4). `RanksAgree` says that a rank that has taken every broadcast is where rank 0
is, with the same batch and no message over; `EveryClientAnswered` that connected clients get their last reply, except that
without a speculator a client that `max_tokens` ends may, by finding 1, wait for it for ever, and then has received its whole text.
In the
engine, `LayersCompose` compares what all ranks combine with the whole model, `TokensFollow` says that each token a
request has follows from all tokens before it, `CacheHolds` that nothing writes over the keys and values a request
counts on, and `PairsOnce` that the programs of the expert kernels cover each cell once, with the right expert and row.

`HiddenRight` excludes behaviours with an overrun, which the history variable `overrun` marks. Without the exclusion TLC
finds this: two requests of one prefill batch are announced to the drafter, the rows of the second overwrite
the shared buffer before the drafter has copied the first. `StepFits` holds because K divides the budget of the
instance; `MTPSpeculatorConfig.validate` asks only for a budget of at least K, and with another one `Candidates` has one
request more than `MaxBatch` and the drafter's assertion fails (`speculator/drafters/mtp/engine.py:116`).
`MemoryAccounted` is about the automatic sizing of a hybrid model. `LayersCompose` lets loading fail where the group does
not divide the vocabulary: the last rank's shard is shorter than its layer.

**Bounds and why they are enough.** Page sizes of 2 to 4 give pages that are partly filled, exactly filled and crossed by
a step. Pages are scarce enough that admission refuses, evicts and protects a match; rows are fewer than requests in
`overlap` and `queue`. Three requests are enough for one that shares, one that evicts and one that waits. The budgets
are smaller than the prompts, so that chunks happen, and smaller than the number of running requests, so that a
running request is left out of a batch. With one draft and pages of three tokens, rounds end before, at and behind the
end of a page and refill passes start inside one. `MaxSeqLen`, `MaxNodes` and `MaxRequests` are the only
artificial limits, the first of which the engine has too. In `state_slots` texts share their first page, so that a
request continues from another's checkpoint.

In `speculation` rounds commit one to three tokens, the window (K + 1, the least the pool accepts) wraps in every request
that goes on, the budget admits two of three requests, so that requests wait for a batch and iterations are skipped, and
`u1` is not sampled, so that its steps have no probabilities. Rows are given back and taken by later requests. In
`pipeline` the text of each client ends inside a character after two of its tokens, once in the middle of the output, where what can be
shown shrinks, and once at the end of it; one client ends with Eos and the other at `max_tokens`, so that with a prefill of one
beside the last result of the other both finish rules are met; two workers let an abort overtake its request; a rank lags by up to two broadcasts. In `engine` the group of 4
replicates 2 KV heads, the vocabulary of 6 is divided by 2 and not by 4; the requests have chunked prompts, matched prefixes,
rounds of every length, rows that are used again, graphs that are larger than the batch; the blocks of the experts do
not divide what they tile and the last group of blocks is cut short.

`aborts` uses requests that never decode across the end of a page, and `overlap` no concurrent twins: the two code
paths that would break these runs are the findings, which have runs of their own.

**Fairness.** `run_forever` iterates for ever and no step of it waits for anything but messages when it is
idle, so `FairSpec` assumes weak fairness of `Schedule` and of `Process`. Clients owe nothing: no fairness for
`RecvUser`, `RecvAbort`. Weak fairness of the two suffices because `pc` alternates between them. The GPU
finishes each batch: the scheduler's wait for a result is part of `Process`. `Speculation` assumes weak fairness of each
process (`Target`, `Drafter`), whose loops go on while they have a message or work; none of the clients, nor of what is
accepted. One WF for a whole process suffices, since a process has one thread. `RequestPipeline` assumes it of the
frontend and the workers together, of each rank, and of the collective: the event loop runs every task that is ready,
ranks poll, and a forward pass ends. Weak fairness of the disjunction of frontend and workers suffices because their queues
are finite and each of their steps empties one a little. Nothing is assumed of `Start`, `NewUser` and `Disconnect`:
`EveryClientAnswered` speaks of clients that a started server accepted. The engine run has no liveness property.

**Mutants.** A definition commented `Mutant:` is a model definition with a plausible mistake in it (a dropped guard, a
lost update, an off-by-one). No specification uses it; `PROJECT.json` lists, for each property of each run, one that
makes TLC find the property violated.

**Deadlock** is checked in every run but `engine`, where loading ends and an experts' layer is the last step of its
behaviour. A server with nothing to do is in `Blocked` or `Idle`, steps that change nothing.

## 4. What is proved

A run checks a property on an instance; these theorems state it for every value of the constants that satisfies the
assumptions below.

**PrefixCacheProofs**, for any set of requests and pages and any inputs:

* `TypeCorrect`, `AlwaysPrefixClosed`, `AlwaysPagesDistinct`, `RefCountsExact`, `LockedHandlesCached`,
  `CountersAlwaysExact`: the six invariants of `PrefixCache` (no run checks `PrefixClosed`: the inductive invariant needs it);
* `ProtectedAlwaysStays`: no step removes or replaces the page of a referenced prefix.

`IInv` is the conjunction of the six, since none but the type is inductive alone. An insert keeps
`RefCountsHolders` only because a locked handle is wholly cached (`HandlesCached`), so that new nodes have no holder;
an unlock keeps counts natural numbers only because they count holders (`LockedIsReferenced`);
an eviction keeps `HandlesCached` only because what a handle covers is referenced; and `CountersExact` needs all
of them to know how many nodes change sides.

**SchedulerProofs**, for any requests, page size, numbers of pages and rows, and budgets:

* `FinishedAlwaysComplete`, `SilentAlways`: what a client is told about its request when a step is launched before the
  last token is read;
* `RowsAlwaysConserved`: a row of the page table is free once or belongs to one live request;
* `LocksAlwaysMatch`: the reference counts of the tree are the live handles, over any admission, insertion, eviction and abort;
* `HeldPrefixesAlwaysStay`: what a live request holds is cached and referenced. It is what is true of `RowReadsCache` with
  equal requests in flight (finding 3);
* `IdleAlwaysHoldsNothing`: an idle loop has no live request, all rows and no lock: `check_integrity` without its
  page count, which finding 2 breaks;
* `PagesAlwaysConserved`, `IntegrityAlwaysHolds`: every page is in exactly one place, and `check_integrity` succeeds,
  in every behaviour without a step `AbortsAtPageEnd`, the abort of finding 2;
* `PagesWithoutAborts`: the two hold in every behaviour if clients abort nothing, with equal requests in flight as well;
* `RowsAlwaysRead`, `RegionAlwaysValid`: a row reads the cache up to its handle and nothing that is free, in every
  behaviour that has neither that abort nor a step `GivesBackDuplicates`, the release of finding 3;
* `TypesAlwaysHold`: the type invariant, whatever is aborted.

Findings 2 and 3 are counterexamples to the page properties in instances that have these steps, so that the properties cannot be
theorems of `Spec`. The hypotheses exclude these two steps and nothing else, so that together with the findings the theorems say:
there is no third way to lose a page, to give one to two requests or to read the wrong one. `PagesWithoutAborts` is
what they say about `Spec` itself.

The argument has three layers. `LifeInv` (`LifeFollows`) follows a request through the loop. `Places` says that it is
in at most one of five places: pending with a chunk done, in the prefill batch that was launched, in the one whose results are
read, running, or finished and about to be freed; the batches are counted from the result that is read next (`Remaining`).
`Phases` ties these sets to the point the loop is at, `Known` to the sets of uids that
the managers keep, `Once` excludes repetitions in lists and batches. `Counts` says how far `device` is ahead of the tokens read:
by the steps of the request in the two batches. From it `FinishedMeansComplete` is inductive, and `Rows` because
a row is given back exactly when a request leaves its last place. `SilentAfterEnd` follows since a request that ended is in no
place that is given a token. The second layer, `Locks`, is over `live`, `req`, `cached` and `ref` only and uses
`LifeInv` for who is live: an insertion adds nodes nobody holds, a relock of the finished prompt moves one holder
from the old handle to the new one (`RelockHeld`), an eviction takes unreferenced leaves.

The third layer is about pages. `Layout` (`LayoutFollows`) holds in every behaviour. `Tables` says that the tables have their
shapes and hold pages, `Extents` how far each request is computed: a running one has a token that is launched and not yet
computed (`cached = device - 1`), all others are computed up to their device length, but for the chunk that is being admitted;
a handle is made of the first full pages of the request's own tokens (`HandleIs`). `Lazily` says that the lazy list is empty but
while results are read. From these the pages a row has alone, `OwnIndices`, are known at every point: behind the handle, up to
what is computed. `PagesInv` (`PagesFollow`) adds `Owned`: the free list, the lazy list, the cache and these private parts share no
page and are all pages.

Three facts carry the induction. An allocation deals: what it takes from the free list and the evicted pages is cut into consecutive
slices, one for each request of the batch, which fill the row behind its old extent and nothing else (`WrittenIs`,
`AllocateDeals`); for this `PagesBefore` is stated as a recursive function. A release splits: the private part of a row
falls into the pages of which the tree has another copy, those the tree takes and the tail behind them (`KeyOf`, `OwnSplits`), so that
a page goes to a list or to the tree or stays in the row. And an abort in flight gives back what the token in flight has been
allocated, which is nothing as long as that token needs no page of its own (`CeilOfNext`); where it does, the step is `AbortsAtPageEnd`.

`RowsRead` says that the part of a row up to the handle is the cache's. The keys are held, so no eviction takes them; an
insertion replaces no entry of the cache (`InsertKeyDoes`); and the next handle of a request reads the cache if all that it
inserts is new, since then the pages are its own (`RowsFollow`).

**StateSlotsProofs**, for any finitely many rows, any texts up to a longest one, any page size, number of pages and drafts,
with and without speculation:

* `SlotsAlwaysConserved`: a linear-state slot is free, under a cached prefix, in a column of one row, or in one row's verify
  reserve, and never in two of these places; none is lost;
* `StatesAlwaysSuffice`: an allocation that gets its pages finds as many state slots, and a commit that refills the reserve finds
  one, although `allocate_state` evicts nothing and `free_states[0]` is taken without a test;
* `SlotTypesHold`: the type invariant.

`SlotInv` (`SlotsFollow`) is what an operator needs to know before it may reason about the slots of a row. `Columns` says
which columns have a slot: from the handle up to the page of the last committed token, where a request that had a
verify round may lack the last one, its state being in the reserve (`SlotsEnd`). `Apart` says that the free slots, the tree, and
the columns and reserves of all rows share no slot and are all of them; `TreeOnce` and `RowOnce` that no place has one twice.
`PagesCounted` counts pages the same way: free, cached, and allocated by one request. The two counts together give
that there are at least as many free slots as free pages, hence `StatesSuffice`. Every action moves slots
between the free slots, the tree and *one* row, and pages likewise, so a step is split into what it does to its row
(`RowStep`) and that the rest keeps apart (`MovesApart`, `PagesMove`). The commit of a round has the most cases: the
swap (`SwapIs`), the refill (`RefillIs`, `FreshIs`) and the pin are each a permutation of the row's slots and at
most one free one (`CommitMoves`). A finished prompt hands columns to the tree and gives back the duplicates (`ColumnsSplit`,
`CachedSlots`). `TreeTypes` carries that the tree is closed under prefixes and `Locks` that a handle is cached, so that the
columns before the handle are the tree's.

**StateContentsProofs**, on top of it and for the same constants:

* `CheckpointsAlwaysExact`: the slot of a cached page holds the state after exactly the tokens of the page's prefix;
* `BaselinesAlwaysExact`: the next chunk, decode step or round of a request starts from the state after its cached tokens.

A slot contains the tokens its state has consumed, so the two say that no step continues a state that is stale or of another
text. `ContentInv` (`ContentsFollow`) says where each state is that a later step may read. The columns of the handle are
those of the tree (`Borrowed`), so that their contents are the tree's business; a full page behind the handle holds its own
prefix (`PagesExact`), since any of them may be cached at a release; before its first round a request has its state in
its last page (`PageState`), between two rounds in candidate 0, or in the page that the last round ended at (`BaseState`),
and during a round the accepted candidates are those of the tokens they stand for (`CandidatesExact`). Three facts carry the induction.
A step writes only slots that its own row owns (`Untouched`), which by `SlotInv` neither the tree nor another row has:
a handle's slot is never written, although the row has it in a column (`OthersKeep`, `TreeKeeps`). A step that writes starts from
the state of the cached tokens (`BaselineIs`), so that what it leaves at the end of each page is right
(`ColumnsWritten`); a commit writes nothing, and the pin, the refill and the swap leave each state in a place that asks for
it (`CommitContents`). And the tree speaks of blocks where a request speaks of tokens: the tokens of the first n blocks are
the first n pages (`TokensOf`), which is what makes a checkpoint cached by one request right for another one
(`CacheContents`, `AdmitContents`).

**RequestPipelineProofs** and **RequestStreamProofs**, for any clients, workers and texts, and groups of one or two ranks:

* `RanksAlwaysAgree`: a rank that has taken every broadcast has the batch of rank 0 and no message over;
* `DraftsAlwaysFit`: the assertions about a broadcast of drafts hold;
* `StreamsUnbroken`: a client receives its text from the start and without a gap, no character twice unless what can be shown of
  it shrinks, and everything but what is held back when its stream ends;
* `PipelineTypesHold`: the type invariant.

`RankInv` (`RanksFollow`) says that the broadcasts a rank has not taken lead it, message by message, to the state of rank 0
(`Leads`): `Received` is a function of the state and the messages, so every rank computes the same batch. `StreamInv`
(`StreamsFollow`) cuts what a client is due at the places where it is on its way. Each queue of batches is a `Way` from one position
to the next, and a step moves a batch from the end of one way to the beginning of the other. Between rank 0 and the detokenizer
the positions count tokens (`Decodes`), with one more for a last reply; behind it, in the queue of the frontend, in `ack_map`
and in the asyncio queue, they count characters (`Sends`). A `Sends` may start before the position it continues, so that it
repeats, but not behind it, so that there is no gap; if the text is `RepeatFree` it starts exactly there. `Status` joins the two: the detokenizer
has sent of the part behind `prefix_end` what could be shown of it at some earlier time, which a later step can show too if
nothing shrinks (`ShownGrows`, `StatusStep`). What the client has is `Gapless` and `Covers` all positions up to the
one reached (`CoversMore`). A request that is still in front of the scheduler has nothing on any way and is there
once (`FreshBefore`).

**SpeculationProofs**, for any requests, prompts, rows, budget, window and drafts per round, both kinds of plane, and any aborts:

* `DraftsAlwaysContinue`: what a verify batch is launched with behind the last committed token of a request are the positions
  that follow it, as many as the request was given room for;
* `PoolAlwaysHoldsWindow`: the ring a request drafts from holds its own last tokens in order, and nothing of a request that had
  the row before;
* `StepsAlwaysFit`, if K divides the budget of a batch: every step has no more requests, hidden rows and probabilities than the
  scratch region and the buffers were made for. The default budget is a multiple of K (`scheduler/config.py:50-67`); with
  one that is not, the statement is false (section 3);
* `MemoryAlwaysAccounted`, if the share that `memory_ratio` leaves to others has room for the padding page and the drafter fits on
  the device at all: the two processes never take more memory than there is.

`DraftInv` (`DraftsFollow`) is the agreement of two processes that see the same request at different times. The
messages on their way are part of the state of a request: it is greeted when it starts to run and removed after it ran, and the
drafter knows no other (`Mail`). `Known` says where the drafter's window ends: at the last committed token, once the rows that the target
still carries for the request are appended to it; while nothing is carried the request is fresh from its prompt, and the
greeting may still be in the queue. This is what `step` keeps, since it cuts the window at its front (`WindowEnds`). `Rounds` is the
half-duplex of the protocol: while the target waits, either its step is the last message in the queue and nobody
has answered (`Asked`), or the queue is empty and one answer is there (`Answered`); outside of the wait the queue has no step, so that an
abort or a greeting is never overtaken by an answer it should have prevented. `Flights` says that only what is in a round
whose results have not been read may be ahead of its last token by more than one, and that the scheduler knows all of these as in
flight; without it a request could be put into a second round before the first was read. `Rows` and `Finishing` say that a row has
one request, also the row of a request that ended with its prompt and is freed only at the end of the iteration: a batch
writes drafts and rows to carry by row (`RoundIsRead`, `DraftsReceived`). `Startup` carries the handshake up to the point where all of this
begins.

`RingInv` is about rows that change hands while messages are on their way. `Holds` cuts the window of a request at what is in its ring
and what waits to be put there (`pending`), counted from the end, so that an append to both, a cut of the window at its front
and a fill that overwrites the oldest slot keep it (`WindowHolds`, `FilledIs`, `PutIs`). That the ring is still the
request's own needs the queue: `InTurns` says that no two requests the drafter knows share a row, and that whoever is
greeted for a row finds everybody who had it before removed earlier in the queue; `Current` says that who is not removed by the
queue still runs in the row the drafter was told of. A row is given away on the target long before the drafter hears of it, and
these two are what an append, a removal and a greeting keep (`TurnsStay`, `NewTurn`) and what taking the head of the queue
hands on (`TurnTaken`).

`StepInv` bounds what a step may carry: a request that runs carries the rows of one round (`CarryFits`: at most K drafts are
accepted), the requests of a batch have different rows and are cut off at the budget (`BatchFits`), so that the sums over them are bounded by
the numbers from which `DataPlaneSizes` is computed (`SumBounded`). `MemoryInv` follows the two measurements: the baseline
is taken before the drafter may allocate, since it waits for `start`, and the cache is sized after the drafter has allocated,
since the target waits for `ready`; both hold for a shared device only, and on a device of its own the drafter changes
nothing. The assertion that the reserved states fit is what makes the budget of the pages big enough for its minimum (`CacheSized`).

**Lemmas** holds what these proofs share: what the operations on a list do to its elements and that they keep it free of
repetitions, the prefixes of a sequence, cardinalities, what a match finds (`MatchIs`), and that insertion, lock, relock, unlock and
eviction keep counts and holders together (the lemmas about `Held`), which the two cache clients share. Loops over a list are stated as
recursive functions with the values they pass through as an existential witness; `LoopRuns` shows that a loop
that keeps a variable in a set has a run, by induction in the form of a set that is closed under successor
(`SetInduction`), which needs no operator parameter. The models state such loops the same way where a proof needs them
(`Kept` for the list comprehensions of the managers, `SumOf` for their sums, `Filled` for the ring, `Processed` for `_process_one_msg`).

Assumptions, all in the modules that declare the constants and evaluated in every run: sizes are positive; there are
finitely many requests and pages in `PrefixCache`; prompts are non-empty sequences; placeholders (`NoHandle`, `NoReq`) are not
values of what they stand for; a group has at most two ranks and at least one tokenizer; of a text (`TextAssumption`), that later
tokens complete no fewer characters, that a character begun stays incomplete until a token completes it, and that Eos has no
text. For `StateSlots`: there are finitely
many rows and a longest text (`max_running_req` and `max_seq_len`), `KernelChunk <= PageSize` and `Drafts + 1 < PageSize`.

Model-checked only:

* liveness (`EventuallyEnded`, `EveryRequestEnds`, `EveryClientAnswered`): fairness is beyond the prover;
* `RadixCache` with its refinement: its paths and its heap are RECURSIVE operators;
* `WeightLoading`, `ForwardPass`, `FusedExperts`: they compare nested folds over sequences, which no backend unfolds;
* in `Scheduler`, `ReservationsHold`, which compares a sum over all admitted requests of what they may still need with what is
  free or evictable: each step changes one summand and the cached side by rounded amounts, and the sum over a set has no
  induction here;
* in `Speculation`, `HiddenRight`, which cuts the rows of several requests from one tensor,
  and `TypeOK`, whose buffer keeps its length only if `StepFits`; outside the hypotheses of their theorems, `StepFits` and
  `MemoryAccounted` are not promised by what the code asserts.

## 5. Findings

1. **A request is never reported as finished** (`scheduler/ar.py:102`, run `lost_finish`). `inflight_uids` is renewed only
   by `DecodeManager.schedule_next_batch`. If a prefill is scheduled in the iteration that reads the last token of
   a request, its uid still counts as in flight, the finish is put off to a decode result that never comes, as
   `can_decode` is false: the request keeps its row and pages and the client waits.
2. **An abort in flight frees a page that is not the request's** (`scheduler/scheduler.py:185-193`, run `decode_abort`). The
   range is computed from lengths that `advance_for_overlap` has already moved; at the end of a page it names an entry of
   the row that no allocation has written. No other step loses a page or gives it to two (`PagesAlwaysConserved`).
3. **Pages are freed while a row names them** (`scheduler/cache.py:131`, run `twin_prefixes`). When two requests
   prefill the same prefix at once, the second gives back its duplicates, but its row still points to them. With
   the second finding it is the only cause of a row that reads what it should not (`RowsAlwaysRead`, `RegionAlwaysValid`).

4. **Text is sent twice** (`tokenizer/tokenizer.py:77-80`, run `text_twice`). While the text ends inside a character,
   `partial_sent` is set to the length of what can be shown, also when that is less than what was sent. A
   CJK character is shown at once; when an emoji follows and the first bytes of the next, nothing can be shown any more,
   `partial_sent` is 0, and the CJK character is sent again with the rest. Without such a text nothing is sent twice (`StreamsUnbroken`).

The runs quote what the repository says in `PROJECT.json`.

## 6. Not modelled, and the plan

Not modelled:

* **Numerics**: model definitions, norms, rotary embeddings, the gated delta rule, the arithmetic of the kernels, the
  values of logits and probabilities, temperature sampling. A sampled acceptance is a free choice of accepted drafts.
* **The draft models' inside**: scratch slots, attention metadata and CUDA graphs of a draft loop; `Speculation` has what goes
  into the loop and what must come out.
* **TRTLLM attention** (`layers/attention_backend/trtllm.py`): its metadata are those of FlashAttention. It calls the kernel for
  single queries for everything that is not a prefill, verify batches included; whether that kernel accepts several queries
  of a request is for its library to say. The planning of FlashInfer (`_initialize_metadata_once`) is modelled by its
  result. `TablesAssumption` has a table of whole pages: the capture table rounds its columns down, a batch's rounds up.
* **GPU streams**: batches and copies run in launch order, so that the hazard at `scheduler/prefill.py:73` has no property.
  The page table is as wide as whole pages, which leaves out `scheduler/cache.py:340`.
* **Formatting and I/O**: codecs, HTTP routes, the shell, arguments, logging, profiling, process entry, `ExitMsg`, NCCL wrappers. PUB/SUB
  is reliable: a subscriber that is late (`scheduler/io.py:122`) is a hazard without a property.
* **Offline use** (`llm/llm.py`): the scheduler with all requests queued at the start, which `Scheduler` covers. The naive prefix cache
  has no state.
* **Failures of processes**: the code restarts nothing and persists nothing; the end of a process is the end of the server.
