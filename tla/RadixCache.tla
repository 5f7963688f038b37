----------------------------- MODULE RadixCache -----------------------------
(***************************************************************************)
(* The radix tree of cache/radix_prefix_cache.py: nodes that hold runs of  *)
(* blocks, split on a partial match, reference counts along the path of a  *)
(* locked handle, and eviction of unreferenced leaves in least-recently-   *)
(* used order.                                                             *)
(*                                                                         *)
(* A node's children are the nodes whose parent it is.  The code indexes   *)
(* them by their first block in a dict.  An entry of a node's page         *)
(* sequence stands for one value slot of the node per page: the KV page,   *)
(* and in a HybridRadixTreeNode the linear-state slot that goes with it.   *)
(*                                                                         *)
(* time.monotonic_ns() is abstracted to ranks: only the order of the       *)
(* timestamps matters to the eviction heap, so they are renumbered         *)
(* 0, 1, 2, ... after every walk.                                          *)
(***************************************************************************)
EXTENDS Integers, Sequences, FiniteSets, SequencesExt

CONSTANTS
    Block, Page, Client, Inputs, NoHandle,
    MaxNodes    \* bound on the nodes of the tree, the root included

VARIABLES
    nodes,      \* node id -> [parent, key, pages, ref, ts]
    handle,     \* client -> [node, len], the handle it has locked, or NoHandle
    cur,        \* the handle returned last, or NoHandle once evicted
    evictable,  \* evictable_size, in pages
    protected   \* protected_size, in pages

vars == <<nodes, handle, cur, evictable, protected>>

Root   == 0
NodeId == 0 .. MaxNodes - 1

RootNode == [parent |-> Root, key |-> <<>>, pages |-> <<>>, ref |-> 1, ts |-> 0]

Children(N, n) == {m \in DOMAIN N \ {Root} : N[m].parent = n}
Leaves(N)      == {n \in DOMAIN N \ {Root} : Children(N, n) = {}}

RECURSIVE PathOf(_, _)
PathOf(N, n) ==
    IF n = Root THEN <<>> ELSE PathOf(N, N[n].parent) \o N[n].key

(* The nodes on the way from n to the root, without the root. *)
Ancestors(N, n) ==
    {m \in DOMAIN N \ {Root} : IsPrefix(PathOf(N, m), PathOf(N, n))}

FreshNode(N) == CHOOSE i \in NodeId \ DOMAIN N : \A j \in NodeId \ DOMAIN N : i <= j

Now(N) == Cardinality({N[n].ts : n \in DOMAIN N})

Renumber(N) ==
    [n \in DOMAIN N |-> [N[n] EXCEPT
        !.ts = Cardinality({t \in {N[m].ts : m \in DOMAIN N} : t < N[n].ts})]]

(* fast_compare_key: the number of leading blocks two sequences share. *)
CommonLen(s, t) == Len(LongestCommonPrefix({s, t}))

(* Mutant: the new node does not inherit the reference count. *)
SplitAtUnreferenced(N, n, pos) ==
    LET f == FreshNode(N) IN
    [m \in DOMAIN N \cup {f} |->
        IF m = f THEN [N[n] EXCEPT !.key = SubSeq(@, 1, pos), !.pages = SubSeq(@, 1, pos), !.ref = 0]
        ELSE IF m = n THEN [N[n] EXCEPT !.parent = f, !.key = SubSeq(@, pos + 1, Len(@)),
                                        !.pages = SubSeq(@, pos + 1, Len(@))]
        ELSE N[m]]

(* Mutant: the new node takes the rest, the old node keeps the first part. *)
SplitAtSwapped(N, n, pos) ==
    LET f == FreshNode(N) IN
    [m \in DOMAIN N \cup {f} |->
        IF m = f THEN [N[n] EXCEPT !.parent = n, !.key = SubSeq(@, pos + 1, Len(@)),
                                   !.pages = SubSeq(@, pos + 1, Len(@))]
        ELSE IF m = n THEN [N[n] EXCEPT !.key = SubSeq(@, 1, pos), !.pages = SubSeq(@, 1, pos)]
        ELSE IF N[m].parent = n THEN [N[m] EXCEPT !.parent = f] ELSE N[m]]

(* split_at: a new node takes the first pos blocks, the reference count and *)
(* the place under the parent; the old node keeps its identity and the rest *)
(* of the blocks.                                                           *)
SplitAt(N, n, pos) ==
    LET head == [parent |-> N[n].parent,
                 key    |-> SubSeq(N[n].key, 1, pos),
                 pages  |-> SubSeq(N[n].pages, 1, pos),
                 ref    |-> N[n].ref,
                 ts     |-> N[n].ts]
        f == FreshNode(N)
    IN  [m \in DOMAIN N \cup {f} |->
            IF m = f THEN head
            ELSE IF m = n
                 THEN [N[n] EXCEPT !.parent = f,
                                   !.key    = SubSeq(@, pos + 1, Len(@)),
                                   !.pages  = SubSeq(@, pos + 1, Len(@))]
                 ELSE N[m]]

Touch(N, S, tic) == [n \in DOMAIN N |-> IF n \in S THEN [N[n] EXCEPT !.ts = tic] ELSE N[n]]

(* _tree_walk: descend through the fully matched nodes; if the next child  *)
(* matches in part, split it and end on its first half.  Every node        *)
(* reached gets the timestamp of the walk.                                 *)
TreeWalk(N, ids) ==
    LET full    == {n \in DOMAIN N : IsPrefix(PathOf(N, n), ids)}
        last    == CHOOSE n \in full : \A m \in full : Len(PathOf(N, m)) <= Len(PathOf(N, n))
        rest    == SubSeq(ids, Len(PathOf(N, last)) + 1, Len(ids))
        partial == {n \in Children(N, last) : CommonLen(N[n].key, rest) > 0}
        touched == Touch(N, full \ {Root}, Now(N))
    IN  IF partial = {}
        THEN [nodes |-> touched, node |-> last, len |-> Len(ids) - Len(rest)]
        ELSE LET child == CHOOSE n \in partial : TRUE
                 match == CommonLen(N[child].key, rest)
                 f     == FreshNode(N)
             IN  [nodes |-> Touch(SplitAt(touched, child, match), {f}, Now(N)),
                  node  |-> f,
                  len   |-> Len(ids) - Len(rest) + match]

HandleOf(n, len) == [node |-> n, len |-> len]

Init ==
    /\ nodes = [n \in {Root} |-> RootNode]
    /\ handle = [c \in Client |-> NoHandle]
    /\ cur = NoHandle
    /\ evictable = 0
    /\ protected = 0

MatchPrefix(ids) ==
    LET walk == TreeWalk(nodes, ids) IN
    /\ Cardinality(DOMAIN nodes) + 1 < MaxNodes
    /\ nodes' = Renumber(walk.nodes)
    /\ cur' = HandleOf(walk.node, walk.len)
    /\ UNCHANGED <<handle, evictable, protected>>

(* The pages of the tree, and those a caller still owns. *)
UsedPages(N) == UNION {ToSet(N[n].pages) : n \in DOMAIN N}

InsertPrefix(ids, pages) ==
    LET walk == TreeWalk(nodes, ids)
        f    == FreshNode(walk.nodes)
        leaf == [parent |-> walk.node,
                 key    |-> SubSeq(ids, walk.len + 1, Len(ids)),
                 pages  |-> SubSeq(pages, walk.len + 1, Len(ids)),
                 ref    |-> 0,
                 ts     |-> Now(walk.nodes) + 1]
    IN
    /\ Cardinality(DOMAIN nodes) + 2 < MaxNodes
    /\ ToSet(leaf.pages) \cap UsedPages(nodes) = {}
    /\ Cardinality(ToSet(leaf.pages)) = Len(leaf.pages)
    /\ IF walk.len # Len(ids)
       THEN /\ nodes' = Renumber([n \in DOMAIN walk.nodes \cup {f} |->
                                    IF n = f THEN leaf ELSE walk.nodes[n]])
            /\ evictable' = evictable + Len(leaf.key)
            /\ cur' = HandleOf(f, Len(ids))
       ELSE /\ nodes' = Renumber(walk.nodes)
            /\ cur' = HandleOf(walk.node, Len(ids))
            /\ UNCHANGED evictable
    /\ UNCHANGED <<handle, protected>>

(* The summed length of a set of nodes. *)
LengthOf(N, S) == FoldSet(LAMBDA n, sum : sum + Len(N[n].key), 0, S)

LockHandle(c) ==
    LET path  == Ancestors(nodes, cur.node)
        fresh == {n \in path : nodes[n].ref = 0}
    IN
    /\ cur # NoHandle
    /\ handle[c] = NoHandle
    /\ nodes' = [n \in DOMAIN nodes |->
                    IF n \in path THEN [nodes[n] EXCEPT !.ref = @ + 1] ELSE nodes[n]]
    /\ evictable' = evictable - LengthOf(nodes, fresh)
    /\ protected' = protected + LengthOf(nodes, fresh)
    /\ handle' = [handle EXCEPT ![c] = cur]
    /\ UNCHANGED cur

UnlockHandle(c) ==
    LET path     == Ancestors(nodes, handle[c].node)
        released == {n \in path : nodes[n].ref = 1}
    IN
    /\ handle[c] # NoHandle
    /\ nodes' = [n \in DOMAIN nodes |->
                    IF n \in path THEN [nodes[n] EXCEPT !.ref = @ - 1] ELSE nodes[n]]
    /\ evictable' = evictable + LengthOf(nodes, released)
    /\ protected' = protected - LengthOf(nodes, released)
    /\ handle' = [handle EXCEPT ![c] = NoHandle]
    /\ UNCHANGED cur

(* Mutant: any unreferenced leaf may be popped. *)
VictimsInAnyOrder(N) == {n \in Leaves(N) : N[n].ref = 0}

(* The next victim is the unreferenced leaf with the least timestamp; its  *)
(* parent joins the heap when it is left without children and unreferenced. *)
Victims(N) ==
    LET heap == {n \in Leaves(N) : N[n].ref = 0}
    IN  {n \in heap : \A m \in heap : N[n].ts <= N[m].ts}

(* The trees that popping the heap until `size` is reached can leave. *)
RECURSIVE EvictFrom(_, _)
EvictFrom(N, size) ==
    IF size <= 0
    THEN {N}
    ELSE UNION {EvictFrom([m \in DOMAIN N \ {n} |-> N[m]], size - Len(N[n].key)) :
                   n \in Victims(N)}

Evict(size) ==
    /\ size <= evictable
    /\ \E N \in EvictFrom(nodes, size) :
          /\ nodes' = Renumber(N)
          /\ evictable' = evictable - LengthOf(nodes, DOMAIN nodes \ DOMAIN N)
    /\ cur' = NoHandle
    /\ UNCHANGED <<handle, protected>>

Next ==
    \/ \E ids \in Inputs : MatchPrefix(ids)
    \/ \E ids \in Inputs : \E pages \in [1 .. Len(ids) -> Page] :
          InsertPrefix(ids, pages)
    \/ \E c \in Client : LockHandle(c)
    \/ \E c \in Client : UnlockHandle(c)
    \/ \E size \in 1 .. Cardinality(Page) : Evict(size)

Spec == Init /\ [][Next]_vars
-----------------------------------------------------------------------------
(* What the nodes stand for: every run of blocks of a node is cached block *)
(* by block, each under the prefix that ends with it.                      *)
Positions == UNION {{<<n, i>> : i \in 1 .. Len(nodes[n].key)} : n \in DOMAIN nodes}
PrefixAt(p) == PathOf(nodes, nodes[p[1]].parent) \o SubSeq(nodes[p[1]].key, 1, p[2])

PositionOf(k) == CHOOSE p \in Positions : PrefixAt(p) = k
CachedPrefixes == {PrefixAt(p) : p \in Positions}

CachedPages == [k \in CachedPrefixes |-> LET p == PositionOf(k) IN nodes[p[1]].pages[p[2]]]
CachedRefs  == [k \in CachedPrefixes |-> nodes[PositionOf(k)[1]].ref]

PrefixOf(h) == IF h = NoHandle THEN NoHandle ELSE PathOf(nodes, h.node)

Abstract == INSTANCE PrefixCache WITH
    cached    <- CachedPages,
    ref       <- CachedRefs,
    handle    <- [c \in Client |-> PrefixOf(handle[c])],
    cur       <- PrefixOf(cur)

(* The radix tree is a prefix cache: splits, timestamps and the order of   *)
(* evictions are invisible to the cache manager.                           *)
RefinesPrefixCache == Abstract!Spec

(* A handle keeps denoting the prefix it was issued for while other        *)
(* requests split nodes on its path: get_matched_indices returns           *)
(* cached_len indices.                                                     *)
HandlesExact ==
    \A h \in {handle[c] : c \in Client} \cup {cur} :
       h # NoHandle => Len(PathOf(nodes, h.node)) = h.len

(* Eviction is least-recently-used: a leaf that could have been evicted    *)
(* and was not is no older than anything that was.                         *)
EvictsOldest ==
    [][\A n \in Leaves(nodes) : \A m \in DOMAIN nodes :
          (nodes[n].ref = 0 /\ n \in DOMAIN nodes' /\ m \notin DOMAIN nodes')
             => nodes[m].ts <= nodes[n].ts]_vars
=============================================================================
