---------------------------- MODULE FusedExperts ----------------------------
(***************************************************************************)
(* The fused mixture-of-experts layer: fused_experts_impl and the blocks   *)
(* of work its two kernels hand to their programs.  A pair is a token and  *)
(* one of the TopK experts it is routed to; pair f belongs to token        *)
(* f \div TopK.  A cell <<f, c>> is column c of the row of pair f in the   *)
(* output of a matrix product; what is written there is the row of the     *)
(* input and the expert it was multiplied with.                            *)
(***************************************************************************)
EXTENDS Division, FiniteSetsExt, SequencesExt

CONSTANTS
    TopK, NumExperts, MaxTokens,
    Intermediate, Hidden,       \* N of the two products: 2 * Intermediate and Hidden
    SmallConfig, LargeConfig    \* BLOCK_SIZE_M, BLOCK_SIZE_N and GROUP_SIZE_M

ASSUME ExpertsAssumption ==
    /\ {TopK, NumExperts, MaxTokens, Intermediate, Hidden} \subseteq Nat \ {0}
    /\ TopK <= NumExperts
    /\ {SmallConfig, LargeConfig} \subseteq [blockM : Nat \ {0}, blockN : Nat \ {0},
                                             groupM : Nat \ {0}]

VARIABLES
    routing,    \* pair -> expert: topk_ids, flattened
    product1, product2, \* what the programs of the two products wrote
    summed      \* token -> the pairs moe_sum_reduce added up
expertVars == <<routing, product1, product2, summed>>

ExpertsInit == routing = <<>> /\ product1 = {} /\ product2 = {} /\ summed = <<>>

\* get_default_config
Config(tokens) == IF tokens <= NumExperts THEN SmallConfig ELSE LargeConfig

\* moe_align_block_size of sgl_kernel: the pairs of each expert, padded to whole
\* blocks with the number of pairs; then, up to the length of the buffer,
\* whatever the allocation held.
Aligned(ids, block) ==
    LET pairsOf(e) == SetToSortSeq({f \in DOMAIN ids : ids[f] = e}, LAMBDA f, g : f < g)
        padded(e)  == LET s == pairsOf(e)
                      IN  s \o [i \in 1 .. (DivCeil(Len(s), block) * block) - Len(s) |->
                                   Cardinality(DOMAIN ids)]
    IN  [sorted  |-> FlattenSeq([e \in 1 .. NumExperts |-> padded(e - 1)]),
         experts |-> FlattenSeq([e \in 1 .. NumExperts |->
                         [b \in 1 .. DivCeil(Len(pairsOf(e - 1)), block) |-> e - 1]]),
         length  |-> Cardinality(DOMAIN ids) + (NumExperts + 1) * (block - 1)]

\* Mutant: the last group counts as full.
BlockOfFullGroup(pid, numM, numN, groupM) ==
    LET inGroup == groupM * numN
    IN  [m |-> (pid \div inGroup) * groupM + ((pid % inGroup) % groupM),
         n |-> (pid % inGroup) \div groupM]

\* The block a program computes, in the grouped order of fused_moe_kernel.
Block(pid, numM, numN, groupM) ==
    LET inGroup == groupM * numN
        first   == (pid \div inGroup) * groupM
        size    == IF numM - first < groupM THEN numM - first ELSE groupM
    IN  [m |-> first + ((pid % inGroup) % size), n |-> (pid % inGroup) \div size]

\* fused_moe_kernel: what program pid writes.  Rows of A are f \div topK.
Program(pid, aligned, cfg, n, pairs, topK) ==
    LET numM  == DivCeil(aligned.length, cfg.blockM)
        block == Block(pid, numM, DivCeil(n, cfg.blockN), cfg.groupM)
        rows  == {aligned.sorted[i] : i \in block.m * cfg.blockM + 1 .. (block.m + 1) * cfg.blockM}
        cols  == block.n * cfg.blockN .. ((block.n + 1) * cfg.blockN) - 1
    IN  IF block.m * cfg.blockM >= Len(aligned.sorted) THEN {}
        ELSE {[cell |-> <<f, c>>, pid |-> pid, row |-> f \div topK,
               col |-> c % n, expert |-> aligned.experts[block.m + 1]] :
                  f \in {g \in rows : g < pairs}, c \in {d \in cols : d < n}}

\* fused_moe_kernel_triton: the programs of the grid.
Launch(aligned, cfg, n, pairs, topK) ==
    LET grid == DivCeil(aligned.length, cfg.blockM) * DivCeil(n, cfg.blockN)
    IN  UNION {Program(pid, aligned, cfg, n, pairs, topK) : pid \in 0 .. grid - 1}

\* moe_sum_reduce_kernel over the output of the second product.
SumReduce(tokens) == [t \in 0 .. tokens - 1 |-> {t * TopK + k : k \in 0 .. TopK - 1}]

\* A layer's experts, for what the router chose (topk_softmax: distinct experts).
RunExperts(ids) ==
    LET pairs   == Cardinality(DOMAIN ids)
        tokens  == pairs \div TopK
        cfg     == Config(tokens)
        aligned == Aligned(ids, cfg.blockM)
    IN  /\ routing' = ids
        /\ product1' = Launch(aligned, cfg, 2 * Intermediate, pairs, TopK)
        /\ product2' = Launch(aligned, cfg, Hidden, pairs, 1)
        /\ summed' = SumReduce(tokens)

Routings ==
    UNION {{ids \in [0 .. (tokens * TopK) - 1 -> 0 .. NumExperts - 1] :
               \A f, g \in DOMAIN ids : f < g /\ f \div TopK = g \div TopK => ids[f] # ids[g]} :
           tokens \in 1 .. MaxTokens}

\* A pass keeps nothing for the next: one is as good as many.
ExpertsNext == routing = <<>> /\ \E ids \in Routings : RunExperts(ids)

(* Whatever the router chooses, every cell of both products is written by  *)
(* exactly one program, with the weights of the expert the pair was routed *)
(* to and the input row of its token (of the pair itself, in the second),  *)
(* and the last kernel sums the pairs of a token and no others.            *)
PairsOnce ==
    routing # <<>> =>
        LET pairs == DOMAIN routing
            Once(product, columns, topK) ==
                /\ \A w \in product : w.expert = routing[w.cell[1]]
                                      /\ w.row = w.cell[1] \div topK /\ w.col = w.cell[2]
                /\ Cardinality(product) = Cardinality(pairs) * columns
                /\ {w.cell : w \in product} = pairs \X (0 .. columns - 1)
        IN  /\ Once(product1, 2 * Intermediate, TopK)
            /\ Once(product2, Hidden, 1)
            /\ \A t \in DOMAIN summed : summed[t] = {f \in pairs : f \div TopK = t}
            /\ UNION {summed[t] : t \in DOMAIN summed} = pairs
=============================================================================
