----------------------------- MODULE PrefixTree -----------------------------
(***************************************************************************)
(* The prefix cache as data: a finite map from cached prefixes to pages.   *)
(*                                                                         *)
(* A prefix is a sequence of blocks.  A block is the content of one full   *)
(* KV page (page_size token ids), the unit by which the radix tree         *)
(* indexes its children (_get_key_fn).  `cached` maps a prefix to the KV   *)
(* page that holds its last block, `ref` maps it to the ref_count of the   *)
(* tree node that holds it.  Sizes are counted in pages; the code counts   *)
(* tokens, which is page_size times as many.                               *)
(***************************************************************************)
EXTENDS Integers, Sequences, FiniteSets

(* The prefixes of k that a page of the cache may hold: all but the empty *)
(* one, which is the root of the tree and holds no page.                  *)
PrefixesOf(k) == {SubSeq(k, 1, n) : n \in 1 .. Len(k)}

(* A prefix is only reachable through its own prefixes. *)
PrefixClosedSet(S) == \A k \in S : PrefixesOf(k) \subseteq S

(* The walk over blocks `ids` matches exactly n of them. *)
MatchesUpTo(cached, ids, n) ==
    /\ \A m \in 1 .. n : SubSeq(ids, 1, m) \in DOMAIN cached
    /\ n < Len(ids) => SubSeq(ids, 1, n + 1) \notin DOMAIN cached

(* The length of the match, in blocks. *)
MatchLen(cached, ids) ==
    CHOOSE n \in 0 .. Len(ids) : MatchesUpTo(cached, ids, n)

(* The pages of a cached prefix, in order (get_matched_indices). *)
MatchedPages(cached, k) == [i \in 1 .. Len(k) |-> cached[SubSeq(k, 1, i)]]

(* insert_prefix: the prefixes of ids that are not cached yet are added    *)
(* with the caller's pages, unreferenced; those that are cached keep the   *)
(* page they have.                                                         *)
Missing(cached, ids) == PrefixesOf(ids) \ DOMAIN cached

(* Mutant: the caller's pages replace those that are cached. *)
InsertPagesReplacing(cached, ids, pages) ==
    [k \in DOMAIN cached \cup PrefixesOf(ids) |->
        IF k \in PrefixesOf(ids) THEN pages[Len(k)] ELSE cached[k]]

InsertPages(cached, ids, pages) ==
    [k \in DOMAIN cached \cup PrefixesOf(ids) |->
        IF k \in DOMAIN cached THEN cached[k] ELSE pages[Len(k)]]

(* Mutant: a new prefix counts as referenced. *)
InsertRefsHeld(cached, ref, ids) ==
    [k \in DOMAIN cached \cup PrefixesOf(ids) |->
        IF k \in DOMAIN cached THEN ref[k] ELSE 1]

InsertRefs(cached, ref, ids) ==
    [k \in DOMAIN cached \cup PrefixesOf(ids) |->
        IF k \in DOMAIN cached THEN ref[k] ELSE 0]

(* Mutant: only the last node of the path is counted. *)
LockLastRef(ref, h) == [k \in DOMAIN ref |-> IF k = h THEN ref[k] + 1 ELSE ref[k]]

(* lock_handle walks from the node of the handle to the root. *)
LockRefs(ref, h) ==
    [k \in DOMAIN ref |-> IF k \in PrefixesOf(h) THEN ref[k] + 1 ELSE ref[k]]

UnlockRefs(ref, h) ==
    [k \in DOMAIN ref |-> IF k \in PrefixesOf(h) THEN ref[k] - 1 ELSE ref[k]]

(* Mutant: a node with one reference counts as free. *)
EvictableWithOne(ref) == {k \in DOMAIN ref : ref[k] <= 1}

Evictable(ref) == {k \in DOMAIN ref : ref[k] = 0}
Protected(ref) == {k \in DOMAIN ref : ref[k] # 0}

(* What evict may take: unreferenced prefixes, and with one of them every *)
(* cached prefix that extends it (only leaves are popped).                *)
IsEviction(ref, S) ==
    /\ S \subseteq Evictable(ref)
    /\ PrefixClosedSet(DOMAIN ref \ S)

Without(f, S) == [k \in DOMAIN f \ S |-> f[k]]
=============================================================================
