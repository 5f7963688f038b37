---------------------------- MODULE PrefixCache -----------------------------
(***************************************************************************)
(* What a prefix cache promises to the cache manager: the contract that    *)
(* cache/base.py states and RadixPrefixCache implements.                   *)
(*                                                                         *)
(* One caller, the scheduler thread, calls the operations one at a time.   *)
(* A client is a request: it holds at most one locked handle               *)
(* (Request.cache_handle).  A handle is the prefix it denotes.  match and  *)
(* insert return a handle that is not locked yet; it stays usable until    *)
(* the next eviction.                                                      *)
(***************************************************************************)
EXTENDS PrefixTree

CONSTANTS
    Block,      \* contents of one page of tokens
    Page,       \* KV pages
    Client,     \* requests that lock handles
    Inputs,     \* the block sequences that clients match and insert
    NoHandle    \* not a handle

ASSUME BlocksAssumption == Inputs \subseteq Seq(Block)
ASSUME ClientAssumption == IsFiniteSet(Client)
ASSUME PageAssumption   == IsFiniteSet(Page)
ASSUME HandleAssumption == NoHandle \notin Seq(Block)

VARIABLES
    cached,     \* cached prefix -> its page
    ref,        \* cached prefix -> ref_count
    handle,     \* client -> the handle it has locked, or NoHandle
    cur,        \* the handle returned last, or NoHandle once evicted
    evictable,  \* evictable_size, in pages
    protected   \* protected_size, in pages

vars == <<cached, ref, handle, cur, evictable, protected>>

Used == {cached[k] : k \in DOMAIN cached}

Init ==
    /\ cached = [k \in {} |-> 0]
    /\ ref = [k \in {} |-> 0]
    /\ handle = [c \in Client |-> NoHandle]
    /\ cur = NoHandle
    /\ evictable = 0
    /\ protected = 0

(* match_prefix: the longest cached prefix of ids. *)
MatchPrefix(ids) ==
    /\ \E n \in 0 .. Len(ids) :
          /\ MatchesUpTo(cached, ids, n)
          /\ cur' = SubSeq(ids, 1, n)
    /\ UNCHANGED <<cached, ref, handle, evictable, protected>>

(* insert_prefix: `pages` are the caller's pages for the whole of ids.  The *)
(* caller owns those behind the matched part, so none of them is in the     *)
(* tree, and no page is passed twice.                                       *)
InsertPrefix(ids, pages) ==
    LET new == {Len(k) : k \in Missing(cached, ids)} IN
    /\ \A i \in new : pages[i] \notin Used
    /\ \A i, j \in new : pages[i] = pages[j] => i = j
    /\ cached' = InsertPages(cached, ids, pages)
    /\ ref' = InsertRefs(cached, ref, ids)
    /\ evictable' = evictable + Cardinality(Missing(cached, ids))
    /\ cur' = ids
    /\ UNCHANGED <<handle, protected>>

(* lock_handle(handle): the client locks the handle it was just given. *)
LockHandle(c) ==
    LET fresh == PrefixesOf(cur) \cap Evictable(ref) IN
    /\ cur # NoHandle
    /\ handle[c] = NoHandle
    /\ handle' = [handle EXCEPT ![c] = cur]
    /\ ref' = LockRefs(ref, cur)
    /\ evictable' = evictable - Cardinality(fresh)
    /\ protected' = protected + Cardinality(fresh)
    /\ UNCHANGED <<cached, cur>>

(* Mutant: every page of the handle becomes evictable. *)
UnlockHandleWhole(c) ==
    /\ handle[c] # NoHandle
    /\ handle' = [handle EXCEPT ![c] = NoHandle]
    /\ ref' = UnlockRefs(ref, handle[c])
    /\ evictable' = evictable + Len(handle[c])
    /\ protected' = protected - Len(handle[c])
    /\ UNCHANGED <<cached, cur>>

(* lock_handle(handle, unlock=True). *)
UnlockHandle(c) ==
    LET released == PrefixesOf(handle[c]) \cap Evictable(UnlockRefs(ref, handle[c]))
    IN
    /\ handle[c] # NoHandle
    /\ handle' = [handle EXCEPT ![c] = NoHandle]
    /\ ref' = UnlockRefs(ref, handle[c])
    /\ evictable' = evictable + Cardinality(released)
    /\ protected' = protected - Cardinality(released)
    /\ UNCHANGED <<cached, cur>>

(* evict(size): at least `size` pages leave the cache.  Handles that were  *)
(* returned but not locked are void from here on.                          *)
Evict(size) ==
    /\ size <= evictable
    /\ \E S \in SUBSET Evictable(ref) :
          /\ IsEviction(ref, S)
          /\ Cardinality(S) >= size
          /\ cached' = Without(cached, S)
          /\ ref' = Without(ref, S)
          /\ evictable' = evictable - Cardinality(S)
    /\ cur' = NoHandle
    /\ UNCHANGED <<handle, protected>>

Next ==
    \/ \E ids \in Inputs : MatchPrefix(ids)
    \/ \E ids \in Inputs : \E pages \in [1 .. Len(ids) -> Page] :
          InsertPrefix(ids, pages)
    \/ \E c \in Client : LockHandle(c)
    \/ \E c \in Client : UnlockHandle(c)
    \/ \E size \in 1 .. Cardinality(Page) : Evict(size)

Spec == Init /\ [][Next]_vars
-----------------------------------------------------------------------------
Handles == Seq(Block) \cup {NoHandle}

(* Every variable has its type: prefixes are block sequences, pages are    *)
(* pages, reference counts and sizes are integers.                         *)
TypeOK ==
    /\ DOMAIN cached \subseteq Seq(Block)
    /\ IsFiniteSet(DOMAIN cached)
    /\ cached \in [DOMAIN cached -> Page]
    /\ ref \in [DOMAIN cached -> Nat]
    /\ handle \in [Client -> Handles]
    /\ cur \in Handles
    /\ evictable \in Int
    /\ protected \in Int

(* A cached prefix can be reached from the root: all its own prefixes are  *)
(* cached (what _tree_walk and get_matched_indices rely on).               *)
PrefixClosed == PrefixClosedSet(DOMAIN cached)

(* No KV page is stored under two prefixes: two requests with different    *)
(* prefixes never read the same page.                                      *)
PagesDistinct ==
    \A j, k \in DOMAIN cached : cached[j] = cached[k] => j = k

(* ref_count counts the locked handles that go through the node, over any  *)
(* interleaving of locks, unlocks, inserts and evictions.                  *)
Holders(k) == {c \in Client : handle[c] # NoHandle /\ k \in PrefixesOf(handle[c])}

RefCountsHolders == \A k \in DOMAIN cached : ref[k] = Cardinality(Holders(k))

(* The whole prefix of a locked handle is in the cache: locked prefixes    *)
(* survive every eviction.  So does a handle returned since the last one.  *)
HandlesCached ==
    /\ \A c \in Client :
          handle[c] # NoHandle => PrefixesOf(handle[c]) \subseteq DOMAIN cached
    /\ cur # NoHandle => PrefixesOf(cur) \subseteq DOMAIN cached

(* The running counters agree with the tree, as check_integrity demands;   *)
(* available_size and with it admission control are computed from them.    *)
CountersExact ==
    /\ evictable = Cardinality(Evictable(ref))
    /\ protected = Cardinality(Protected(ref))

(* A step never takes the page of a referenced prefix away or replaces it: *)
(* what a running request reads stays where it is.                         *)
ProtectedStays ==
    [][\A k \in DOMAIN cached :
          ref[k] > 0 => k \in DOMAIN cached' /\ cached'[k] = cached[k]]_vars
=============================================================================
