--------------------------- MODULE MCPrefixCache ----------------------------
(***************************************************************************)
(* The contract of the prefix cache and the radix tree that keeps it, each *)
(* in behaviours of its own, for two requests.  The contract is called     *)
(* with prefixes of two block sequences that share a block; the tree with  *)
(* sequences that share one block or a whole input, so that matches split  *)
(* nodes at every position.                                                *)
(***************************************************************************)
EXTENDS PrefixCache, TLC

CONSTANTS a, b

MCBlock    == {a, b}
MCInputs   == {<<a>>, <<a, a>>, <<a, b>>, <<b, a>>}
TreeInputs == {<<a>>, <<a, a, b>>, <<a, b>>}
TreeNodes  == 7
MCSymmetry == Permutations(Page) \cup Permutations(Client)

VARIABLES part, nodes, treeHandle, treeCur, treeEvictable, treeProtected
treeVars == <<nodes, treeHandle, treeCur, treeEvictable, treeProtected>>

Tree == INSTANCE RadixCache WITH
    Inputs <- TreeInputs, MaxNodes <- TreeNodes,
    handle <- treeHandle, cur <- treeCur,
    evictable <- treeEvictable, protected <- treeProtected

MCInit == part \in {"contract", "tree"} /\ Init /\ Tree!Init

MCNext ==
    \/ part = "contract" /\ Next /\ UNCHANGED <<part, treeVars>>
    \/ part = "tree" /\ Tree!Next /\ UNCHANGED <<part, vars>>

MCSpec == MCInit /\ [][MCNext]_<<part, vars, treeVars>>

\* The properties of RadixCache: the tree is a prefix cache, a handle keeps
\* denoting its prefix while nodes split, and eviction takes the oldest leaves.
RefinesPrefixCache == Tree!RefinesPrefixCache
HandlesExact       == Tree!HandlesExact
EvictsOldest       == Tree!EvictsOldest
=============================================================================
