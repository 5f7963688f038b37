--------------------------- MODULE WeightLoading ----------------------------
(***************************************************************************)
(* load_weight and the layers it fills: every rank of a tensor-parallel    *)
(* group reads the whole checkpoint, one tensor at a time in the order in  *)
(* which the files list them, keeps its own shard, merges projections and  *)
(* stacks experts, and loads the result into layers that were built for    *)
(* the sizes the configuration gives.  The ranks read the same files, so   *)
(* one step reads a tensor on all of them.                                 *)
(*                                                                         *)
(* A tensor is the sequence of its slices along the dimension that is      *)
(* split: <<name, expert, i>> is the i-th head, neuron or vocabulary row   *)
(* of the full tensor.  The other dimensions are left out.                 *)
(***************************************************************************)
EXTENDS Division, FiniteSetsExt, SequencesExt

CONSTANTS
    QHeads, KVHeads,        \* full attention: query heads and KV heads
    KeyHeads, ValueHeads,   \* gated delta: key heads and value heads
    Experts, Neurons,       \* experts of a MoE layer, and neurons of each
    TpSizes, VocabSizes     \* the group sizes and vocabularies to consider

ASSUME LayersAssumption ==
    /\ {QHeads, KVHeads, KeyHeads, ValueHeads, Experts, Neurons} \subseteq Nat \ {0}
    /\ TpSizes \cup VocabSizes \subseteq Nat \ {0}
    /\ QHeads % KVHeads = 0 /\ ValueHeads % KeyHeads = 0
\* Any other group is refused by an assertion when the layers are built.
ASSUME BuildableAssumption ==
    \A n \in TpSizes :
        /\ DividesEven(KVHeads, n, TRUE)
        /\ \A size \in {QHeads, KeyHeads, ValueHeads, Neurons} :
               DividesEven(size, n, FALSE)

VARIABLES
    tp, vocab,              \* size of the group and of the vocabulary
    unread,                 \* tensors of the checkpoint still to be read
    mergeBuf, expertBuf,    \* load_weight's buffers
    stateDict,              \* what it has yielded: key -> rank -> tensor
    loading                 \* "reading", "loaded" or "failed"
loadVars == <<tp, vocab, unread, mergeBuf, expertBuf, stateDict, loading>>

None == -1
Rank == 0 .. tp - 1
Dense == {"q", "k", "v", "o", "in_proj_qkv", "out_proj", "embed_tokens"}
Key == [name : Dense, expert : {None}]
           \cup [name : {"gate", "up", "down"}, expert : 0 .. Experts - 1]

Slices(name, expert, size) == [i \in 1 .. size |-> <<name, expert, i - 1>>]

\* The full tensor under a key of the checkpoint.
Tensor(key) ==
    CASE key.name \in {"q", "o"} -> Slices(key.name, None, QHeads)
      [] key.name \in {"k", "v"} -> Slices(key.name, None, KVHeads)
      [] key.name = "in_proj_qkv" ->
             Slices("lq", None, KeyHeads) \o Slices("lk", None, KeyHeads)
                 \o Slices("lv", None, ValueHeads)
      [] key.name = "out_proj" -> Slices("out_proj", None, ValueHeads)
      [] key.name = "embed_tokens" -> Slices("embed_tokens", None, vocab)
      [] OTHER -> Slices(key.name, key.expert, Neurons)

Lowest(i, j) == IF i < j THEN i ELSE j

\* torch: value.chunk(n)[r]
Chunk(value, r, n) ==
    LET size == DivCeil(Len(value), n)
    IN  SubSeq(value, r * size + 1, Lowest((r + 1) * size, Len(value)))

\* Mutant: the replicas of a KV head are dealt out in turn.
ShardTensorInTurn(key, value, r, n) ==
    CASE key.name = "in_proj_qkv" ->
             LET part(first, size) == Chunk(SubSeq(value, first + 1, first + size), r, n)
             IN  part(0, KeyHeads) \o part(KeyHeads, KeyHeads)
                     \o part(2 * KeyHeads, ValueHeads)
      [] key.name \in {"k", "v"} /\ KVHeads < n ->
             SubSeq(value, (r % KVHeads) + 1, (r % KVHeads) + 1)
      [] OTHER -> Chunk(value, r, n)

ShardTensor(key, value, r, n) ==
    CASE key.name = "in_proj_qkv" ->
             LET part(first, size) == Chunk(SubSeq(value, first + 1, first + size), r, n)
             IN  part(0, KeyHeads) \o part(KeyHeads, KeyHeads)
                     \o part(2 * KeyHeads, ValueHeads)
      [] key.name \in {"k", "v"} /\ KVHeads < n ->
             LET head == (r * KVHeads) \div n IN SubSeq(value, head + 1, head + 1)
      [] key.name = "embed_tokens" ->
             LET size == DivCeil(Len(value), n)
             IN  SubSeq(value, r * size + 1, Lowest((r + 1) * size, Len(value)))
      [] OTHER -> Chunk(value, r, n)

\* The projections that are merged with this one, in their order in the result.
Slots(name) ==
    IF name \in {"q", "k", "v"} THEN <<"q", "k", "v">>
    ELSE IF name \in {"gate", "up"} THEN <<"gate", "up">> ELSE <<>>

Fused(name) ==
    IF name \in {"q", "k", "v"} THEN "qkv"
    ELSE IF name \in {"gate", "up"} THEN "gate_up" ELSE name

Put1(f, key, value) == (key :> value) @@ f
Get1(f, key) == IF key \in DOMAIN f THEN f[key] ELSE <<>>
Drop1(f, key) == [k \in DOMAIN f \ {key} |-> f[k]]

LoadInit ==
    /\ tp \in TpSizes /\ vocab \in VocabSizes
    /\ unread = Key
    /\ mergeBuf = <<>> /\ expertBuf = <<>> /\ stateDict = <<>>
    /\ loading = "reading"

\* A merged or unmerged tensor leaves the loader, or waits for its fellow experts.
Yielded(key, value) ==
    IF key.expert = None
    THEN stateDict' = Put1(stateDict, key.name, value) /\ UNCHANGED expertBuf
    ELSE LET slots == Put1(Get1(expertBuf, key.name), key.expert, value)
         IN  IF Cardinality(DOMAIN slots) # Experts
             THEN expertBuf' = Put1(expertBuf, key.name, slots) /\ UNCHANGED stateDict
             ELSE /\ expertBuf' = Drop1(expertBuf, key.name)
                  /\ stateDict' = Put1(stateDict, key.name,
                         [r \in Rank |-> [e \in 1 .. Experts |-> slots[e - 1][r]]])

LoadTensor(key) ==
    /\ loading = "reading"
    /\ unread' = unread \ {key}
    /\ LET shard  == [r \in Rank |-> ShardTensor(key, Tensor(key), r, tp)]
           merged == [key EXCEPT !.name = Fused(key.name)]
           all    == Slots(key.name)
           slots  == Put1(Get1(mergeBuf, merged), key.name, shard)
       IN  IF all = <<>>
           THEN Yielded(key, shard) /\ UNCHANGED mergeBuf
           ELSE IF \E i \in DOMAIN all : all[i] \notin DOMAIN slots
           THEN /\ mergeBuf' = Put1(mergeBuf, merged, slots)
                /\ UNCHANGED <<expertBuf, stateDict>>
           ELSE /\ mergeBuf' = Drop1(mergeBuf, merged)
                /\ Yielded(merged, [r \in Rank |->
                       FlattenSeq([i \in DOMAIN all |-> slots[all[i]][r]])])
    /\ UNCHANGED <<tp, vocab, loading>>

-----------------------------------------------------------------------------
\* The layers.  Heads and neurons of one rank, as the constructors compute them.
LocalQ == DivEven(QHeads, tp, FALSE)
LocalKV == DivEven(KVHeads, tp, TRUE)
LocalKey == DivEven(KeyHeads, tp, FALSE)
LocalValue == DivEven(ValueHeads, tp, FALSE)
LocalNeurons == DivEven(Neurons, tp, FALSE)
NumEmbeddingsTp == DivCeil(vocab, tp)

\* VocabParallelEmbedding.vocab_range: the first row of a rank, and their number.
VocabRange(r) ==
    LET start == NumEmbeddingsTp * r
    IN  <<start, Lowest(start + NumEmbeddingsTp, vocab) - start>>

\* The size of each parameter along the dimension that is split.
ParamSize(name) ==
    CASE name = "qkv"          -> LocalQ + 2 * LocalKV
      [] name = "o"            -> LocalQ
      [] name = "in_proj_qkv"  -> DivEven(2 * KeyHeads + ValueHeads, tp, FALSE)
      [] name = "out_proj"     -> LocalValue
      [] name = "embed_tokens" -> NumEmbeddingsTp

ShapesMatch(r) ==
    /\ \A name \in {Fused(n) : n \in Dense} : Len(stateDict[name][r]) = ParamSize(name)
    /\ \A e \in 1 .. Experts : /\ Len(stateDict["gate_up"][r][e]) = 2 * LocalNeurons
                               /\ Len(stateDict["down"][r][e]) = LocalNeurons

LoadStateDict ==
    /\ loading = "reading" /\ unread = {}
    /\ loading' = IF /\ mergeBuf = <<>> /\ expertBuf = <<>>
                     /\ \A r \in Rank : ShapesMatch(r)
                  THEN "loaded" ELSE "failed"
    /\ UNCHANGED <<tp, vocab, unread, mergeBuf, expertBuf, stateDict>>

LoadNext == (\E key \in unread : LoadTensor(key)) \/ LoadStateDict

-----------------------------------------------------------------------------
\* What a rank computes with its parameters, one entry per local head or neuron.
\* The kernels give KV head j \div (LocalQ \div LocalKV) to query head j.
HeadTerms(r) ==
    LET qkv == stateDict["qkv"][r]
        o   == stateDict["o"][r]
    IN  [j \in 1 .. LocalQ |->
            LET kv == ((j - 1) \div (LocalQ \div LocalKV)) + 1
            IN  <<qkv[j], qkv[LocalQ + kv], qkv[LocalQ + LocalKV + kv], o[j]>>]

\* GatedDeltaNet: value head j goes with key head j \div (value heads \div key heads).
DeltaTerms(r) ==
    LET qkv == stateDict["in_proj_qkv"][r]
        out == stateDict["out_proj"][r]
    IN  [j \in 1 .. LocalValue |->
            LET key == ((j - 1) \div (LocalValue \div LocalKey)) + 1
            IN  <<qkv[key], qkv[LocalKey + key], qkv[2 * LocalKey + j], out[j]>>]

\* silu_and_mul pairs neuron i of the first half with neuron i of the second.
NeuronTerms(e, r) ==
    [i \in 1 .. LocalNeurons |->
        <<stateDict["gate_up"][r][e][i], stateDict["gate_up"][r][e][LocalNeurons + i],
          stateDict["down"][r][e][i]>>]

\* masked_index_kernel: the row a rank adds for token t; position is a size_t.
Lookup(t, r) ==
    LET position == t - VocabRange(r)[1]
    IN  IF 0 <= position /\ position < VocabRange(r)[2]
        THEN <<stateDict["embed_tokens"][r][position + 1]>> ELSE <<>>

\* ParallelLMHead: the ranks' logits side by side, cut to the vocabulary.
VocabLogits == SubSeq(FlattenSeq([i \in 1 .. tp |-> stateDict["embed_tokens"][i - 1]]), 1, vocab)

OverRanks(terms(_)) == FlattenSeq([i \in 1 .. tp |-> terms(i - 1)])

(* However the checkpoint orders its tensors and however many ranks share  *)
(* them, the layers compute the full model: together the ranks have every  *)
(* query head once, with the keys and values of its group and its columns  *)
(* of o_proj; every value head of a gated delta layer with the query and   *)
(* key of its group; every neuron of every expert with its gate, its up    *)
(* and its down column; every row of the vocabulary answers one lookup     *)
(* and gives one logit, at its place.  Loading fails for no group but one  *)
(* that does not divide the vocabulary.                                    *)
LayersCompose ==
    /\ loading = "failed" => vocab % tp # 0
    /\ loading = "loaded" =>
        /\ OverRanks(HeadTerms) = [h \in 1 .. QHeads |->
               LET g == (h - 1) \div (QHeads \div KVHeads)
               IN  <<<<"q", None, h - 1>>, <<"k", None, g>>, <<"v", None, g>>,
                     <<"o", None, h - 1>>>>]
        /\ OverRanks(DeltaTerms) = [h \in 1 .. ValueHeads |->
               LET g == (h - 1) \div (ValueHeads \div KeyHeads)
               IN  <<<<"lq", None, g>>, <<"lk", None, g>>, <<"lv", None, h - 1>>,
                     <<"out_proj", None, h - 1>>>>]
        /\ \A e \in 0 .. Experts - 1 :
               OverRanks(LAMBDA r : NeuronTerms(e + 1, r)) = [i \in 1 .. Neurons |->
                   <<<<"gate", e, i - 1>>, <<"up", e, i - 1>>, <<"down", e, i - 1>>>>]
        /\ \A t \in 0 .. vocab - 1 :
               OverRanks(LAMBDA r : Lookup(t, r)) = <<<<"embed_tokens", None, t>>>>
        /\ VocabLogits = Slices("embed_tokens", None, vocab)
=============================================================================
