----------------------------- MODULE StateSlots -----------------------------
(***************************************************************************)
(* The linear-attention state slots of a hybrid model: the hybrid half of  *)
(* the cache manager (scheduler/cache.py) with the forward passes that     *)
(* read and write the slots (layers/linear_attention_backend/base.py).     *)
(*                                                                         *)
(* Every cached page owns one slot, which holds the recurrent state after  *)
(* the last token of the page.  A request without speculation advances the *)
(* slot of the page it is in.  With speculation a verify round writes one  *)
(* state per candidate token into the K + 1 reserve slots of the request's *)
(* row, and the commit decides, by index operations only, which of them    *)
(* becomes the checkpoint of a page and which the next baseline.           *)
(*                                                                         *)
(* What a slot holds is the sequence of tokens that its state has consumed,*)
(* so that the properties can say which state a step reads.  Requests take *)
(* their steps in any order; a row runs one request after another.  Which  *)
(* free slot is handed out does not matter and is left to a choice; pages  *)
(* are counted (Scheduler.tla follows them one by one).                    *)
(***************************************************************************)
EXTENDS PrefixTree, FiniteSetsExt

CONSTANTS
    Row,            \* rows of the state table
    Text,           \* sequence of token ids: a request up to its last token
    Prompt,         \* Text -> the length of its prompt
    PageSize,
    NumPages,       \* also the number of slots that are not reserved
    Drafts,         \* K, the number of draft tokens
    KernelChunk,    \* 64, the chunk of the prefill kernel
    MaxRequests,    \* bound on the requests of one run
    NoSlot, NoReq, Junk

ASSUME SizesAssumption ==
    /\ {PageSize, NumPages, Drafts, KernelChunk, MaxRequests} \subseteq Nat \ {0}
    /\ KernelChunk <= PageSize     \* page_size is a multiple of 64
    /\ Drafts + 1 < PageSize
    /\ IsFiniteSet(Row)

Token == UNION {{t[i] : i \in DOMAIN t} : t \in Text}

ASSUME TextAssumption ==
    /\ Text \subseteq Seq(Token)
    /\ \A t \in Text : Prompt[t] \in 1 .. Len(t) - 1
    /\ \E t \in Text : \A u \in Text : Len(u) <= Len(t)    \* max_seq_len bounds them

DivCeil(n) == (n + PageSize - 1) \div PageSize

Lesser(i, j) == IF i < j THEN i ELSE j

VARIABLES
    speculating,    \* the server was started with a speculator
    admitted,       \* how many requests were admitted so far
    req,            \* row -> its request, or NoReq
    tree, ref,      \* cached prefix -> its state slot, its ref_count
    freePages,      \* the number of free KV pages
    freeStates,     \* free_states
    table,          \* state_table: row -> page column -> slot, or NoSlot
    reserve,        \* state_table behind draft_offset: row -> 0 .. K -> slot
    state           \* slot -> the tokens it holds the state of, or Junk

vars == <<speculating, admitted, req, tree, ref, freePages, freeStates, table, reserve, state>>

Column    == 0 .. DivCeil(Max({Len(t) : t \in Text})) - 1
Candidate == IF speculating THEN 0 .. Drafts ELSE {}
Slot      == 0 .. NumPages + Cardinality(Row) * (Drafts + 1) - 1
Live      == {r \in Row : req[r] # NoReq}

Request == [text     : Text,
            cached   : Nat,
            handle   : Seq(Seq(Token)),
            inflight : Nat,
            accepted : Nat,
            running  : BOOLEAN,
            baseline : Slot \cup {NoSlot}]

ASSUME NothingAssumption == NoReq \notin Request /\ NoSlot \notin Slot
-----------------------------------------------------------------------------
(* Requests *)

PromptLen(r) == Prompt[req[r].text]
MaxLen(r)    == Len(req[r].text)    \* max_device_len
Prefix(r, n) == SubSeq(req[r].text, 1, n)

(* The full pages of a token sequence: what the radix tree indexes. *)
Blocks(ids) ==
    [i \in 1 .. Len(ids) \div PageSize |-> SubSeq(ids, (i - 1) * PageSize + 1, i * PageSize)]

Key(r) == Blocks(Prefix(r, req[r].cached))

(* Tokens that have pages: the drafts of a round in flight included. *)
AllocatedLen(r) == req[r].cached + req[r].inflight

(* The pages that a request may still need: the scheduler admits a request  *)
(* only when those of all live requests are covered (ReservationsHold in    *)
(* Scheduler.tla).                                                          *)
Demand(t, len) == DivCeil(Len(t) - 1) - DivCeil(len)
ReservedPages  == MapThenSumSet(LAMBDA r : Demand(req[r].text, AllocatedLen(r)), Live)

(* The pages whose state the tokens [from, to) advance. *)
PagesOf(from, to) == from \div PageSize .. (to - 1) \div PageSize
-----------------------------------------------------------------------------
(* Allocation *)

(* _allocate evicts what the free pages do not cover; a page and its slot   *)
(* leave the cache together.                                                *)
EvictsFor(need, S) ==
    IF need > freePages
    THEN IsEviction(ref, S) /\ Cardinality(S) >= need - freePages
    ELSE S = {}

(* allocate_state: the columns without a slot from the page in which the    *)
(* first kernel chunk behind `cached` ends.  The page before it, if it is   *)
(* passed over, has had its slot since an earlier step.                     *)
UnsetColumns(r, to) ==
    LET first == (Lesser(req[r].cached + KernelChunk, to) - 1) \div PageSize
    IN  {p \in first .. (to - 1) \div PageSize : table[r][p] = NoSlot}

Assignments(pages, slots) == {f \in [pages -> slots] : \A p, q \in pages : f[p] = f[q] => p = q}

(* allocate_paged and allocate_state for the tokens [cached, to). *)
Allocate(r, to) ==
    LET need == DivCeil(to) - DivCeil(req[r].cached) IN
    \E S \in SUBSET Evictable(ref) :
       LET pool    == freeStates \cup {tree[k] : k \in S}
           columns == UnsetColumns(r, to)
           given   == CHOOSE f \in Assignments(columns, pool) : TRUE
       IN  /\ EvictsFor(need, S)
           /\ Assignments(columns, pool) # {}
           /\ tree' = Without(tree, S)
           /\ ref' = Without(ref, S)
           /\ freePages' = freePages + Cardinality(S) - need
           /\ freeStates' = pool \ {given[p] : p \in columns}
           /\ table' = [table EXCEPT ![r] =
                 [p \in Column |-> IF p \in columns THEN given[p] ELSE @[p]]]

(* allocate_paged for a verify round: the states go to the reserve. *)
AllocatePages(r, to) ==
    LET need == DivCeil(to) - DivCeil(req[r].cached) IN
    \E S \in SUBSET Evictable(ref) :
       /\ EvictsFor(need, S)
       /\ tree' = Without(tree, S)
       /\ ref' = Without(ref, S)
       /\ freePages' = freePages + Cardinality(S) - need
       /\ freeStates' = freeStates \cup {tree[k] : k \in S}
-----------------------------------------------------------------------------
(* Forward passes *)

(* The slot that holds the state a prefill or decode step continues. *)
PageSlot(r, len) == table[r][(len - 1) \div PageSize]

(* What a state becomes when it consumes the tokens [from, to) of a request;*)
(* it is only good for them if it holds all that comes before.              *)
Advance(r, from, to, old) == IF old = Prefix(r, from) THEN Prefix(r, to) ELSE Junk

(* _forward_prefill and _forward_decode: the state of each page, at its end *)
(* or at the end of the step, is written to the slot of its column.         *)
WritesColumns(r, to) ==
    LET from == req[r].cached
        old  == IF from = 0 THEN <<>> ELSE state[PageSlot(r, from)]
        at(p) == Lesser(to, (p + 1) * PageSize)
    IN  state' = [s \in Slot |->
           LET mine == {p \in PagesOf(from, to) : table'[r][p] = s}
           IN  IF mine = {} THEN state[s] ELSE Advance(r, from, at(Max(mine)), old)]

(* _forward_verify: candidate j goes to reserve slot j; it is of use only   *)
(* if all drafts before it are accepted.                                    *)
WritesReserve(r, baseline, n, accepted) ==
    LET C == req[r].cached IN
    state' = [s \in Slot |->
        LET mine == {j \in 0 .. n - 1 : reserve[r][j] = s}
        IN  IF mine = {} THEN state[s]
            ELSE IF Max(mine) < accepted
            THEN Advance(r, C, C + Max(mine) + 1, state[baseline])
            ELSE Junk]
-----------------------------------------------------------------------------
(* The life of a request *)

(* _try_allocate_one: the matched pages' slots are borrowed. *)
Admit(r, t) ==
    LET ids    == Blocks(SubSeq(t, 1, Prompt[t] - 1))
        key    == SubSeq(ids, 1, MatchLen(tree, ids))
        locked == LockRefs(ref, key)
    IN  /\ req[r] = NoReq
        /\ admitted < MaxRequests
        /\ admitted' = admitted + 1
        /\ Demand(t, Len(key) * PageSize) + ReservedPages
              <= freePages + Cardinality(Evictable(locked))
        /\ ref' = locked
        /\ req' = [req EXCEPT ![r] = [text     |-> t,
                                      cached   |-> Len(key) * PageSize,
                                      handle   |-> key,
                                      inflight |-> 0,
                                      accepted |-> 0,
                                      running  |-> FALSE,
                                      baseline |-> NoSlot]]
        /\ table' = [table EXCEPT ![r] =
              [p \in Column |-> IF p < Len(key) THEN MatchedPages(tree, key)[p + 1] ELSE @[p]]]
        /\ UNCHANGED <<speculating, tree, freePages, freeStates, reserve, state>>

(* A prefill chunk up to token `to` is launched. *)
Prefill(r, to) ==
    /\ req[r] # NoReq /\ ~req[r].running
    /\ to \in req[r].cached + 1 .. PromptLen(r)
    /\ Allocate(r, to)
    /\ WritesColumns(r, to)
    /\ req' = [req EXCEPT ![r].cached = to]
    /\ UNCHANGED <<speculating, admitted, reserve>>

(* One decode step, for the token behind the cached ones. *)
Decode(r) ==
    /\ ~speculating
    /\ req[r] # NoReq /\ req[r].running
    /\ req[r].cached + 1 < MaxLen(r)
    /\ Allocate(r, req[r].cached + 1)
    /\ WritesColumns(r, req[r].cached + 1)
    /\ req' = [req EXCEPT ![r].cached = @ + 1]
    /\ UNCHANGED <<speculating, admitted, reserve>>

(* A verify round is launched: `n` tokens of which `accepted` will turn out *)
(* to be right.  The first round starts from the slot prefill left.         *)
LaunchVerify(r, accepted) ==
    LET n == Lesser(Drafts + 1, MaxLen(r) - req[r].cached - 1)
        baseline == IF req[r].baseline = NoSlot THEN PageSlot(r, req[r].cached)
                    ELSE req[r].baseline
    IN  /\ speculating
        /\ req[r] # NoReq /\ req[r].running /\ req[r].inflight = 0
        /\ accepted \in 1 .. n
        /\ AllocatePages(r, req[r].cached + n)
        /\ WritesReserve(r, baseline, n, accepted)
        /\ req' = [req EXCEPT ![r].inflight = n, ![r].accepted = accepted,
                              ![r].baseline = baseline]
        /\ UNCHANGED <<speculating, admitted, table, reserve>>

(* state_commit_verify.  If the accepted tokens reach the end of page P,    *)
(* the state there is pinned to the page's column, the slot that the column *)
(* had is freed and the reserve refilled.                                   *)
CommitPage(r) == (req[r].cached - 1) \div PageSize
PageEnd(r)    == (CommitPage(r) + 1) * PageSize

(* Mutant: a page that ends with the last accepted token is not pinned. *)
PinsBefore(r) == req[r].cached < PageEnd(r) /\ PageEnd(r) < req[r].cached + req[r].accepted

Pins(r) == req[r].cached < PageEnd(r) /\ PageEnd(r) <= req[r].cached + req[r].accepted

(* Mutant: one too late. *)
BoundaryLate(r) == Lesser(PageEnd(r) - req[r].cached, req[r].accepted - 1)

(* The candidate that is the last token of page P. *)
Boundary(r) == PageEnd(r) - 1 - req[r].cached

Old(r)   == {table[r][CommitPage(r)]} \ {NoSlot}
Fresh(r) == CHOOSE s \in freeStates \cup Old(r) : TRUE

(* Mutant: the pinned slot stays in the reserve, too. *)
NotRefilled(r) == reserve[r]

(* The reserve once the boundary candidate has been pinned. *)
Refilled(r) ==
    IF Pins(r) THEN [reserve[r] EXCEPT ![Boundary(r)] = Fresh(r)] ELSE reserve[r]

(* The last accepted state becomes candidate 0, the next baseline, unless   *)
(* it was pinned: then the page's slot is the baseline.                     *)
Swapped(f, j) == [f EXCEPT ![0] = f[j], ![j] = f[0]]

(* Mutant: the baseline is overwritten by the next round. *)
EndsAtPageNever(r) == FALSE

EndsAtPage(r) == Pins(r) /\ Boundary(r) = req[r].accepted - 1

(* Mutant: the slot of page P is forgotten. *)
CommitStatesLeaking(r) ==
    /\ table' = IF Pins(r)
                THEN [table EXCEPT ![r][CommitPage(r)] = reserve[r][Boundary(r)]]
                ELSE table
    /\ freeStates' = IF Pins(r) THEN freeStates \ {Fresh(r)} ELSE freeStates
    /\ reserve' = [reserve EXCEPT ![r] =
          IF EndsAtPage(r) THEN Refilled(r) ELSE Swapped(Refilled(r), req[r].accepted - 1)]

CommitStates(r) ==
    /\ table' = IF Pins(r)
                THEN [table EXCEPT ![r][CommitPage(r)] = reserve[r][Boundary(r)]]
                ELSE table
    /\ freeStates' = IF Pins(r) THEN (freeStates \cup Old(r)) \ {Fresh(r)} ELSE freeStates
    /\ reserve' = [reserve EXCEPT ![r] =
          IF EndsAtPage(r) THEN Refilled(r) ELSE Swapped(Refilled(r), req[r].accepted - 1)]

NextBaseline(r) ==
    IF EndsAtPage(r) THEN reserve[r][Boundary(r)] ELSE Refilled(r)[req[r].accepted - 1]

(* VerifyManager.process: the accepted states are committed and the pages   *)
(* of rejected drafts go back.                                              *)
ProcessVerify(r) ==
    LET C == req[r].cached + req[r].accepted IN
    /\ req[r] # NoReq /\ req[r].inflight > 0
    /\ CommitStates(r)
    /\ freePages' = freePages + DivCeil(AllocatedLen(r)) - DivCeil(C)
    /\ req' = [req EXCEPT ![r].cached = C, ![r].inflight = 0, ![r].accepted = 0,
                          ![r].baseline = NextBaseline(r)]
    /\ UNCHANGED <<speculating, admitted, tree, ref, state>>

(* cache_req and _cache_req_state: the full pages enter the tree with their *)
(* slots, and the slots of pages that others cached meanwhile are freed.    *)
OwnSlots(r, lo, hi) == {table[r][p] : p \in lo .. hi - 1} \ {NoSlot}

Cache(r) ==
    LET key == Key(r) IN
    tree' = InsertPages(tree, key, [i \in 1 .. Len(key) |-> table[r][i - 1]])

(* The prompt is prefilled: the request keeps the new handle, and its       *)
(* columns are re-pointed to the slots of the tree.                         *)
Repointed(r) ==
    LET slots == MatchedPages(tree', Key(r)) IN
    [table EXCEPT ![r] = [p \in Column |-> IF p < Len(slots) THEN slots[p + 1] ELSE @[p]]]

PrefillDone(r) ==
    LET key     == Key(r)
        matched == MatchLen(tree, key)
    IN  /\ req[r] # NoReq /\ ~req[r].running
        /\ req[r].cached = PromptLen(r)
        /\ PromptLen(r) + 1 < MaxLen(r)
        /\ Cache(r)
        /\ ref' = LockRefs(UnlockRefs(InsertRefs(tree, ref, key), req[r].handle), key)
        /\ freePages' = freePages + matched - Len(req[r].handle)
        /\ freeStates' = freeStates \cup OwnSlots(r, Len(req[r].handle), matched)
        /\ table' = Repointed(r)
        /\ req' = [req EXCEPT ![r].running = TRUE, ![r].handle = key]
        /\ UNCHANGED <<speculating, admitted, reserve, state>>

(* The request is finished or aborted, between chunks, while it runs or     *)
(* with a verify round in flight (_free_req_resources): its page columns    *)
(* are wiped, its reserve stays with the row.                               *)
Release(r) ==
    LET key     == Key(r)
        matched == MatchLen(tree, key)
    IN  /\ req[r] # NoReq
        /\ Cache(r)
        /\ ref' = UnlockRefs(InsertRefs(tree, ref, key), req[r].handle)
        /\ freePages' = freePages + (matched - Len(req[r].handle))
                          + (DivCeil(AllocatedLen(r)) - Len(key))
        /\ freeStates' = freeStates
              \cup OwnSlots(r, Len(req[r].handle), matched)
              \cup OwnSlots(r, Len(key), DivCeil(req[r].cached))
        /\ table' = [table EXCEPT ![r] = [p \in Column |-> NoSlot]]
        /\ req' = [req EXCEPT ![r] = NoReq]
        /\ UNCHANGED <<speculating, admitted, reserve, state>>

Init ==
    /\ speculating \in BOOLEAN
    /\ admitted = 0
    /\ req = [r \in Row |-> NoReq]
    /\ tree = [k \in {} |-> 0] /\ ref = [k \in {} |-> 0]
    /\ freePages = NumPages
    /\ freeStates = 0 .. NumPages - 1
    /\ table = [r \in Row |-> [p \in Column |-> NoSlot]]
    /\ LET place == CHOOSE f \in [Row -> 0 .. Cardinality(Row) - 1] :
                       \A q, r \in Row : f[q] = f[r] => q = r
       IN  reserve = [r \in Row |->
                        [j \in Candidate |-> NumPages + place[r] * (Drafts + 1) + j]]
    /\ state = [s \in Slot |-> Junk]

(* No request is left: the scheduler waits. *)
Idle == Live = {} /\ UNCHANGED vars

Next ==
    \/ Idle
    \/ \E r \in Row :
       \/ \E t \in Text : Admit(r, t)
       \/ \E to \in 1 .. Max({Len(t) : t \in Text}) : Prefill(r, to)
       \/ PrefillDone(r)
       \/ Decode(r)
       \/ \E accepted \in 1 .. Drafts + 1 : LaunchVerify(r, accepted)
       \/ ProcessVerify(r)
       \/ Release(r)

Spec == Init /\ [][Next]_vars
-----------------------------------------------------------------------------
(* Properties *)

(* Every variable has its type. *)
TypeOK ==
    /\ \A r \in Live : req[r].cached \in 0 .. MaxLen(r) - 1
    /\ DOMAIN tree = DOMAIN ref
    /\ \A k \in DOMAIN tree : tree[k] \in Slot /\ ref[k] \in Nat
    /\ freePages \in 0 .. NumPages /\ freeStates \subseteq Slot
    /\ table \in [Row -> [Column -> Slot \cup {NoSlot}]]
    /\ reserve \in [Row -> [Candidate -> Slot]]

(* Where a slot can be besides the free list: under a prefix of the tree,   *)
(* in a column that a live row owns, or in a verify reserve.                *)
Places ==
    {<<"tree", k>> : k \in DOMAIN tree}
      \cup {<<"page", x[1], x[2]>> : x \in
              {y \in Live \X Column : y[2] >= Len(req[y[1]].handle) /\ table[y[1]][y[2]] # NoSlot}}
      \cup {<<"reserve", x[1], x[2]>> : x \in Row \X Candidate}

SlotAt(place) ==
    CASE place[1] = "tree"    -> tree[place[2]]
      [] place[1] = "page"    -> table[place[2]][place[3]]
      [] place[1] = "reserve" -> reserve[place[2]][place[3]]

UsedSlots == {SlotAt(a) : a \in Places}

(* Every slot is in exactly one place, through pins, swaps, refills,        *)
(* re-points, evictions and the reuse of rows: what check_integrity asks    *)
(* for when the scheduler is idle holds of every moment.                    *)
SlotsConserved ==
    /\ \A a, b \in Places : SlotAt(a) = SlotAt(b) => a = b
    /\ freeStates \cap UsedSlots = {}
    /\ Cardinality(freeStates) + Cardinality(Places)
         = NumPages + (IF speculating THEN Cardinality(Row) * (Drafts + 1) ELSE 0)

(* The checkpoint of a cached page holds the state after exactly the tokens *)
(* of its prefix: a request that matches the prefix continues from the      *)
(* right state, however many rounds, swaps and evictions came before.       *)
Tokens(k) == [i \in 1 .. Len(k) * PageSize |->
                 k[(i - 1) \div PageSize + 1][((i - 1) % PageSize) + 1]]

CheckpointsExact == \A k \in DOMAIN tree : state[tree[k]] = Tokens(k)

(* The state that the next step of a request starts from is the state after *)
(* its cached tokens, whether it is in a page, in the reserve or in the     *)
(* tree.                                                                    *)
NextSlot(r) ==
    IF req[r].baseline = NoSlot THEN PageSlot(r, req[r].cached) ELSE req[r].baseline

BaselineExact ==
    \A r \in Live : req[r].cached > 0 /\ req[r].inflight = 0 =>
       state[NextSlot(r)] = Prefix(r, req[r].cached)

(* Whenever the pages of a step can be allocated, evicting what they need,  *)
(* there are slots for them, too: allocate_state never evicts on its own.   *)
(* And free_states[0], which the refill of the reserve takes without a      *)
(* test, exists, although nothing reserves it.                              *)
SlotsAfterEviction(need) ==
    Cardinality(freeStates) + (IF need > freePages THEN need - freePages ELSE 0)

StatesSuffice ==
    \A r \in Live :
       /\ ~(speculating /\ req[r].running) =>
             \A to \in req[r].cached + 1 .. MaxLen(r) - 1 :
                Cardinality(UnsetColumns(r, to))
                  <= SlotsAfterEviction(DivCeil(to) - DivCeil(req[r].cached))
       /\ req[r].inflight > 0 /\ Pins(r) => freeStates \cup Old(r) # {}
=============================================================================
