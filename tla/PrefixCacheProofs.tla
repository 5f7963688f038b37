------------------------- MODULE PrefixCacheProofs --------------------------
(***************************************************************************)
(* Proofs about PrefixCache for every set of blocks, pages, clients and    *)
(* inputs.                                                                 *)
(***************************************************************************)
EXTENDS PrefixCache, Lemmas

(* The invariant is inductive as a whole: the counters need exact reference *)
(* counts, the counts need the handles' prefixes in the cache, and those    *)
(* need evictions to keep it prefix-closed.                                 *)
IInv ==
    /\ TypeOK
    /\ PrefixClosed
    /\ PagesDistinct
    /\ HandlesCached
    /\ RefCountsHolders
    /\ CountersExact

LEMMA HoldersFinite == \A k : IsFiniteSet(Holders(k))
<1> SUFFICES ASSUME NEW k PROVE IsFiniteSet(Holders(k))
  OBVIOUS
<1>1. Holders(k) \in SUBSET Client
  BY DEF Holders
<1> QED
  BY <1>1, FS_Subset, ClientAssumption

LEMMA RefTypes ==
    ASSUME TypeOK
    PROVE  /\ DOMAIN ref = DOMAIN cached
           /\ Evictable(ref) \subseteq DOMAIN cached
           /\ IsFiniteSet(Evictable(ref))
           /\ IsFiniteSet(Protected(ref))
           /\ Cardinality(Evictable(ref)) \in Nat
           /\ Cardinality(Protected(ref)) \in Nat
<1>1. DOMAIN ref = DOMAIN cached
  BY DEF TypeOK
<1>2. /\ Evictable(ref) \in SUBSET DOMAIN cached
      /\ Protected(ref) \in SUBSET DOMAIN cached
  BY <1>1 DEF Evictable, Protected
<1>3. IsFiniteSet(DOMAIN cached)
  BY DEF TypeOK
<1>4. IsFiniteSet(Evictable(ref)) /\ IsFiniteSet(Protected(ref))
  BY <1>2, <1>3, FS_Subset
<1> QED
  BY <1>1, <1>2, <1>4, FS_CardinalityType

LEMMA InitInv == Init => IInv
<1> SUFFICES ASSUME Init PROVE IInv
  OBVIOUS
<1>1. DOMAIN cached = {} /\ DOMAIN ref = {}
  BY DEF Init
<1>2. IsFiniteSet(DOMAIN cached)
  BY <1>1, FS_EmptySet
<1>3. TypeOK
  BY <1>1, <1>2 DEF Init, TypeOK, Handles
<1>4. Evictable(ref) = {} /\ Protected(ref) = {}
  BY <1>1 DEF Evictable, Protected
<1>5. CountersExact
  BY <1>4, FS_EmptySet DEF Init, CountersExact
<1>6. PrefixClosed /\ PagesDistinct /\ HandlesCached /\ RefCountsHolders
  BY <1>1 DEF Init, PrefixClosed, PrefixClosedSet, PagesDistinct, HandlesCached,
     RefCountsHolders
<1> QED
  BY <1>3, <1>5, <1>6 DEF IInv

(* Holders only depends on the locked handles. *)
LEMMA HoldersUnchanged ==
    ASSUME handle' = handle
    PROVE  \A k : Holders(k)' = Holders(k)
BY DEF Holders

LEMMA MatchStep ==
    ASSUME IInv, NEW ids \in Inputs, MatchPrefix(ids)
    PROVE  IInv'
<1>1. PICK n \in 0 .. Len(ids) : MatchesUpTo(cached, ids, n) /\ cur' = SubSeq(ids, 1, n)
  BY DEF MatchPrefix
<1>2. ids \in Seq(Block) /\ Len(ids) \in Nat
  BY BlocksAssumption, LenProperties
<1>3. cur' \in Seq(Block) /\ Len(cur') = n
  <2>1. \A i \in 1 .. n : ids[i] \in Block
    BY <1>2, ElementOfSeq
  <2> QED
    BY <1>1, <1>2, <2>1, SubSeqProperties
<1>4. PrefixesOf(cur') \subseteq DOMAIN cached
  <2> SUFFICES ASSUME NEW p \in PrefixesOf(cur') PROVE p \in DOMAIN cached
    OBVIOUS
  <2>1. Len(p) \in 1 .. n
    BY <1>3, PrefixShape
  <2>2. p \in PrefixesOf(ids) /\ p = SubSeq(ids, 1, Len(p))
    <3>1. CASE n = 0
      BY <3>1, <2>1
    <3>2. CASE n # 0
      <4>1. cur' \in PrefixesOf(ids)
        BY <1>1, <1>2, <3>2 DEF PrefixesOf
      <4>2. p \in PrefixesOf(ids)
        BY <4>1, <1>2, PrefixTransitive
      <4> QED
        BY <4>2, <1>2, PrefixShape
    <3> QED
      BY <3>1, <3>2
  <2> QED
    BY <1>1, <2>1, <2>2 DEF MatchesUpTo
<1>5. UNCHANGED <<cached, ref, handle, evictable, protected>>
  BY DEF MatchPrefix
<1>6. TypeOK'
  BY <1>3, <1>5 DEF IInv, TypeOK, Handles
<1>7. HandlesCached'
  BY <1>4, <1>5 DEF IInv, HandlesCached
<1>8. (PrefixClosed /\ PagesDistinct /\ RefCountsHolders /\ CountersExact)'
  BY <1>5 DEF IInv, PrefixClosed, PagesDistinct, RefCountsHolders, Holders, CountersExact
<1> QED
  BY <1>6, <1>7, <1>8 DEF IInv

LEMMA InsertStep ==
    ASSUME IInv, NEW ids \in Inputs, NEW pages \in [1 .. Len(ids) -> Page],
           InsertPrefix(ids, pages)
    PROVE  IInv'
<1> DEFINE new == Missing(cached, ids)
<1>1. /\ ids \in Seq(Block) /\ Len(ids) \in Nat
      /\ IsFiniteSet(PrefixesOf(ids))
      /\ \A k \in PrefixesOf(ids) : k \in Seq(Block) /\ Len(k) \in 1 .. Len(ids)
                                  /\ k = SubSeq(ids, 1, Len(k))
  BY BlocksAssumption, LenProperties, PrefixesFinite, PrefixShape
<1>2. /\ TypeOK /\ DOMAIN ref = DOMAIN cached
      /\ IsFiniteSet(Evictable(ref)) /\ Cardinality(Evictable(ref)) \in Nat
  BY RefTypes DEF IInv
<1>3. /\ cached' = InsertPages(cached, ids, pages)
      /\ ref' = InsertRefs(cached, ref, ids)
      /\ evictable' = evictable + Cardinality(new)
      /\ cur' = ids /\ handle' = handle /\ protected' = protected
      /\ \A i \in {Len(k) : k \in new} : pages[i] \notin Used
      /\ \A i, j \in {Len(k) : k \in new} : pages[i] = pages[j] => i = j
  BY DEF InsertPrefix
<1>4. /\ DOMAIN cached' = DOMAIN cached \cup PrefixesOf(ids)
      /\ DOMAIN ref' = DOMAIN cached'
      /\ \A k \in DOMAIN cached : cached'[k] = cached[k] /\ ref'[k] = ref[k]
      /\ \A k \in new : cached'[k] = pages[Len(k)] /\ ref'[k] = 0
  BY <1>3 DEF InsertPages, InsertRefs, Missing
<1>5. /\ new \subseteq PrefixesOf(ids) /\ new \cap DOMAIN cached = {}
      /\ DOMAIN cached' = DOMAIN cached \cup new
      /\ IsFiniteSet(new) /\ Cardinality(new) \in Nat
  <2>1. new \in SUBSET PrefixesOf(ids)
    BY DEF Missing
  <2> QED
    BY <1>1, <1>4, <2>1, FS_Subset, FS_CardinalityType DEF Missing
<1>6. TypeOK'
  <2>1. IsFiniteSet(DOMAIN cached')
    <3>1. IsFiniteSet(DOMAIN cached) /\ IsFiniteSet(PrefixesOf(ids))
      BY <1>1, <1>2 DEF TypeOK
    <3>2. IsFiniteSet(DOMAIN cached \cup PrefixesOf(ids))
      BY <3>1, FS_Union
    <3> QED
      BY <3>2, <1>4
  <2>2. cached' \in [DOMAIN cached' -> Page]
    <3>1. \A k \in DOMAIN cached' : cached'[k] \in Page
      BY <1>1, <1>2, <1>4, <1>5 DEF TypeOK
    <3> QED
      BY <3>1, <1>3 DEF InsertPages
  <2>3. ref' \in [DOMAIN cached' -> Nat]
    <3>1. \A k \in DOMAIN ref' : ref'[k] \in Nat
      <4>1. \A k \in DOMAIN cached : ref[k] \in Nat
        BY <1>2 DEF TypeOK
      <4>2. \A k \in DOMAIN cached : ref'[k] \in Nat
        BY <4>1, <1>4
      <4>3. \A k \in new : ref'[k] \in Nat
        BY <1>4
      <4> QED
        BY <4>2, <4>3, <1>4, <1>5
    <3> QED
      BY <3>1, <1>3, <1>4 DEF InsertRefs
  <2>4. evictable' \in Int
    BY <1>2, <1>3, <1>5 DEF TypeOK
  <2> QED
    BY <1>1, <1>2, <1>3, <1>4, <2>1, <2>2, <2>3, <2>4 DEF TypeOK, Handles
<1>7. PrefixClosed'
  <2> SUFFICES ASSUME NEW k \in DOMAIN cached' PROVE PrefixesOf(k) \subseteq DOMAIN cached'
    BY DEF PrefixClosed, PrefixClosedSet
  <2>1. CASE k \in DOMAIN cached
    BY <2>1, <1>4 DEF IInv, PrefixClosed, PrefixClosedSet
  <2>2. CASE k \in PrefixesOf(ids)
    BY <2>2, <1>1, <1>4, PrefixTransitive
  <2> QED
    BY <2>1, <2>2, <1>4
<1>8. PagesDistinct'
  <2> SUFFICES ASSUME NEW j \in DOMAIN cached', NEW k \in DOMAIN cached',
                      cached'[j] = cached'[k]
               PROVE  j = k
    BY DEF PagesDistinct
  <2>1. \A k1 \in DOMAIN cached : cached'[k1] \in Used
    BY <1>4 DEF Used
  <2>2. \A k1 \in new : cached'[k1] \notin Used
    BY <1>3, <1>4
  <2>3. CASE j \in DOMAIN cached
    BY <2>1, <2>2, <2>3, <1>4, <1>5 DEF IInv, PagesDistinct
  <2>4. CASE j \in new
    <3>1. k \in new
      BY <2>1, <2>2, <2>4, <1>5
    <3>2. Len(j) = Len(k)
      BY <3>1, <2>4, <1>3, <1>4, SMTT(30)
    <3> QED
      BY <3>1, <3>2, <2>4, <1>1, <1>5
  <2> QED
    BY <2>3, <2>4, <1>5
<1>9. HandlesCached'
  BY <1>3, <1>4 DEF IInv, HandlesCached
<1>10. RefCountsHolders'
  <2> SUFFICES ASSUME NEW k \in DOMAIN cached' PROVE ref'[k] = Cardinality(Holders(k))
    BY <1>3, HoldersUnchanged DEF RefCountsHolders
  <2>1. CASE k \in DOMAIN cached
    BY <2>1, <1>4 DEF IInv, RefCountsHolders
  <2>2. CASE k \in new
    <3>1. Holders(k) = {}
      BY <2>2, <1>5 DEF Holders, IInv, HandlesCached
    <3> QED
      BY <2>2, <3>1, <1>4, FS_EmptySet
  <2> QED
    BY <2>1, <2>2, <1>5
<1>11. CountersExact'
  <2>1. Evictable(ref)' = Evictable(ref) \cup new
    BY <1>2, <1>4, <1>5 DEF Evictable
  <2>2. Evictable(ref) \cap new = {}
    BY <1>2, <1>5 DEF Evictable
  <2>3. Cardinality(Evictable(ref) \cup new) = Cardinality(Evictable(ref)) + Cardinality(new)
    BY <1>2, <1>5, <2>2, DisjointUnion
  <2>4. Protected(ref)' = Protected(ref)
    BY <1>2, <1>4, <1>5 DEF Protected
  <2> QED
    BY <1>3, <2>1, <2>3, <2>4 DEF IInv, CountersExact
<1> QED
  BY <1>6, <1>7, <1>8, <1>9, <1>10, <1>11 DEF IInv

LEMMA LockStep ==
    ASSUME IInv, NEW c \in Client, LockHandle(c)
    PROVE  IInv'
<1> DEFINE path == PrefixesOf(cur)
           fresh == path \cap Evictable(ref)
<1>1. /\ cur # NoHandle /\ handle[c] = NoHandle
      /\ handle' = [handle EXCEPT ![c] = cur]
      /\ ref' = LockRefs(ref, cur)
      /\ evictable' = evictable - Cardinality(fresh)
      /\ protected' = protected + Cardinality(fresh)
      /\ cached' = cached /\ cur' = cur
  BY DEF LockHandle
<1>2. /\ TypeOK /\ DOMAIN ref = DOMAIN cached
      /\ Evictable(ref) \subseteq DOMAIN cached
      /\ IsFiniteSet(Evictable(ref)) /\ Cardinality(Evictable(ref)) \in Nat
      /\ IsFiniteSet(Protected(ref)) /\ Cardinality(Protected(ref)) \in Nat
  BY RefTypes DEF IInv
<1>3. /\ DOMAIN ref' = DOMAIN ref
      /\ \A k \in DOMAIN ref : ref[k] \in Nat
      /\ \A k \in DOMAIN ref : ref'[k] = IF k \in path THEN ref[k] + 1 ELSE ref[k]
  BY <1>1, <1>2 DEF LockRefs, TypeOK
<1>4. /\ fresh \in SUBSET Evictable(ref)
      /\ IsFiniteSet(fresh) /\ Cardinality(fresh) \in Nat
  BY <1>2, FS_Subset, FS_CardinalityType
<1>5. TypeOK'
  <2>1. handle' \in [Client -> Handles]
    BY <1>1, <1>2 DEF TypeOK
  <2>2. ref' \in [DOMAIN cached' -> Nat]
    <3>1. \A k \in DOMAIN ref' : ref'[k] \in Nat
      BY <1>3
    <3> QED
      BY <3>1, <1>1, <1>2, <1>3 DEF LockRefs
  <2>3. evictable' \in Int /\ protected' \in Int
    BY <1>1, <1>2, <1>4 DEF TypeOK
  <2> QED
    BY <1>1, <1>2, <2>1, <2>2, <2>3 DEF TypeOK
<1>6. (PrefixClosed /\ PagesDistinct)'
  BY <1>1 DEF IInv, PrefixClosed, PagesDistinct
<1>7. HandlesCached'
  BY <1>1, <1>2 DEF IInv, HandlesCached, TypeOK
<1>8. RefCountsHolders'
  <2> SUFFICES ASSUME NEW k \in DOMAIN cached
               PROVE  ref'[k] = Cardinality(Holders(k)')
    BY <1>1 DEF RefCountsHolders
  <2>1. /\ ref[k] = Cardinality(Holders(k)) /\ IsFiniteSet(Holders(k))
        /\ c \notin Holders(k)
    BY <1>1, HoldersFinite DEF IInv, RefCountsHolders, Holders
  <2>2. Holders(k)' = IF k \in path THEN Holders(k) \cup {c} ELSE Holders(k)
    BY <1>1, <1>2 DEF Holders, TypeOK
  <2>3. Cardinality(Holders(k) \cup {c}) = Cardinality(Holders(k)) + 1
    BY <2>1, FS_AddElement
  <2> QED
    BY <1>2, <1>3, <2>1, <2>2, <2>3
<1>9. CountersExact'
  <2>1. Evictable(ref)' = Evictable(ref) \ fresh
    BY <1>3 DEF Evictable
  <2>2. Protected(ref)' = Protected(ref) \cup fresh
    BY <1>1, <1>2, <1>3 DEF Evictable, Protected, IInv, HandlesCached
  <2>3. Evictable(ref) \cap fresh = fresh /\ Protected(ref) \cap fresh = {}
    BY DEF Evictable, Protected
  <2>4. Cardinality(Evictable(ref) \ fresh) = Cardinality(Evictable(ref)) - Cardinality(fresh)
    BY <1>2, <1>4, SubsetDifference
  <2>5. Cardinality(Protected(ref) \cup fresh) = Cardinality(Protected(ref)) + Cardinality(fresh)
    BY <1>2, <1>4, <2>3, DisjointUnion
  <2> QED
    BY <1>1, <2>1, <2>2, <2>4, <2>5 DEF IInv, CountersExact
<1> QED
  BY <1>5, <1>6, <1>7, <1>8, <1>9 DEF IInv

(* Every prefix of a locked handle is referenced. *)
LEMMA LockedIsReferenced ==
    ASSUME IInv, NEW c \in Client, handle[c] # NoHandle, NEW k \in PrefixesOf(handle[c])
    PROVE  k \in DOMAIN cached /\ ref[k] \in Nat \ {0}
<1>1. k \in DOMAIN cached
  BY DEF IInv, HandlesCached
<1>2. c \in Holders(k) /\ IsFiniteSet(Holders(k))
  BY HoldersFinite DEF Holders
<1>3. Cardinality(Holders(k)) # 0
  BY <1>2, FS_EmptySet
<1>4. ref[k] = Cardinality(Holders(k)) /\ ref[k] \in Nat
  BY <1>1 DEF IInv, RefCountsHolders, TypeOK
<1> QED
  BY <1>1, <1>3, <1>4

LEMMA UnlockStep ==
    ASSUME IInv, NEW c \in Client, UnlockHandle(c)
    PROVE  IInv'
<1> DEFINE path == PrefixesOf(handle[c])
           released == path \cap Evictable(UnlockRefs(ref, handle[c]))
<1>1. /\ handle[c] # NoHandle
      /\ handle' = [handle EXCEPT ![c] = NoHandle]
      /\ ref' = UnlockRefs(ref, handle[c])
      /\ evictable' = evictable + Cardinality(released)
      /\ protected' = protected - Cardinality(released)
      /\ cached' = cached /\ cur' = cur
  BY DEF UnlockHandle
<1>2. /\ TypeOK /\ DOMAIN ref = DOMAIN cached
      /\ IsFiniteSet(Evictable(ref)) /\ Cardinality(Evictable(ref)) \in Nat
      /\ IsFiniteSet(Protected(ref)) /\ Cardinality(Protected(ref)) \in Nat
  BY RefTypes DEF IInv
<1>3. /\ DOMAIN ref' = DOMAIN ref
      /\ \A k \in DOMAIN ref : ref[k] \in Nat
      /\ \A k \in DOMAIN ref : ref'[k] = IF k \in path THEN ref[k] - 1 ELSE ref[k]
  BY <1>1, <1>2 DEF UnlockRefs, TypeOK
<1>4. /\ path \subseteq DOMAIN cached
      /\ \A k \in path : ref[k] \in Nat \ {0}
  BY <1>1, LockedIsReferenced
<1>5. released = {k \in path : ref'[k] = 0}
  BY <1>1, <1>2, <1>3, <1>4 DEF Evictable
<1>6. /\ released \in SUBSET Protected(ref)
      /\ IsFiniteSet(released) /\ Cardinality(released) \in Nat
  <2>1. released \in SUBSET Protected(ref)
    BY <1>2, <1>4, <1>5 DEF Protected
  <2> QED
    BY <2>1, <1>2, FS_Subset, FS_CardinalityType
<1>7. TypeOK'
  <2>1. handle' \in [Client -> Handles]
    BY <1>1, <1>2 DEF TypeOK, Handles
  <2>2. ref' \in [DOMAIN cached' -> Nat]
    <3>1. \A k \in DOMAIN ref' : ref'[k] \in Nat
      BY <1>3, <1>4
    <3> QED
      BY <3>1, <1>1, <1>2, <1>3 DEF UnlockRefs
  <2>3. evictable' \in Int /\ protected' \in Int
    BY <1>1, <1>2, <1>6 DEF TypeOK
  <2> QED
    BY <1>1, <1>2, <2>1, <2>2, <2>3 DEF TypeOK
<1>8. (PrefixClosed /\ PagesDistinct)'
  BY <1>1 DEF IInv, PrefixClosed, PagesDistinct
<1>9. HandlesCached'
  BY <1>1, <1>2 DEF IInv, HandlesCached, TypeOK
<1>10. RefCountsHolders'
  <2> SUFFICES ASSUME NEW k \in DOMAIN cached
               PROVE  ref'[k] = Cardinality(Holders(k)')
    BY <1>1 DEF RefCountsHolders
  <2>1. /\ ref[k] = Cardinality(Holders(k)) /\ IsFiniteSet(Holders(k))
        /\ c \in Holders(k) <=> k \in path
    BY <1>1, HoldersFinite DEF IInv, RefCountsHolders, Holders
  <2>2. Holders(k)' = Holders(k) \ {c}
    BY <1>1, <1>2 DEF Holders, TypeOK
  <2>3. Cardinality(Holders(k) \ {c}) =
          IF c \in Holders(k) THEN Cardinality(Holders(k)) - 1 ELSE Cardinality(Holders(k))
    BY <2>1, FS_RemoveElement
  <2> QED
    BY <1>2, <1>3, <2>1, <2>2, <2>3
<1>11. CountersExact'
  <2>1. Evictable(ref)' = Evictable(ref) \cup released
    BY <1>2, <1>3, <1>4, <1>5 DEF Evictable
  <2>2. Protected(ref)' = Protected(ref) \ released
    BY <1>2, <1>3, <1>4, <1>5 DEF Protected
  <2>3. Evictable(ref) \cap released = {}
    BY <1>6 DEF Evictable, Protected
  <2>4. Cardinality(Evictable(ref) \cup released) = Cardinality(Evictable(ref)) + Cardinality(released)
    BY <1>2, <1>6, <2>3, DisjointUnion
  <2>5. Cardinality(Protected(ref) \ released) = Cardinality(Protected(ref)) - Cardinality(released)
    BY <1>2, <1>6, SubsetDifference
  <2> QED
    BY <1>1, <2>1, <2>2, <2>4, <2>5 DEF IInv, CountersExact
<1> QED
  BY <1>7, <1>8, <1>9, <1>10, <1>11 DEF IInv

LEMMA EvictStep ==
    ASSUME IInv, NEW size, Evict(size)
    PROVE  IInv'
<1>1. PICK S \in SUBSET Evictable(ref) :
         /\ IsEviction(ref, S)
         /\ cached' = Without(cached, S)
         /\ ref' = Without(ref, S)
         /\ evictable' = evictable - Cardinality(S)
  BY DEF Evict
<1>2. handle' = handle /\ protected' = protected /\ cur' = NoHandle
  BY DEF Evict
<1>3. /\ TypeOK /\ DOMAIN ref = DOMAIN cached
      /\ Evictable(ref) \subseteq DOMAIN cached
      /\ IsFiniteSet(Evictable(ref)) /\ Cardinality(Evictable(ref)) \in Nat
  BY RefTypes DEF IInv
<1>4. /\ DOMAIN cached' = DOMAIN cached \ S
      /\ DOMAIN ref' = DOMAIN cached \ S
      /\ \A k \in DOMAIN cached' : cached'[k] = cached[k] /\ ref'[k] = ref[k]
  BY <1>1, <1>3 DEF Without
<1>5. IsFiniteSet(S) /\ Cardinality(S) \in Nat
  BY <1>3, FS_Subset, FS_CardinalityType
<1>6. TypeOK'
  <2>1. IsFiniteSet(DOMAIN cached')
    <3>1. DOMAIN cached' \in SUBSET DOMAIN cached /\ IsFiniteSet(DOMAIN cached)
      BY <1>3, <1>4 DEF TypeOK
    <3> QED
      BY <3>1, FS_Subset
  <2>2. cached' \in [DOMAIN cached' -> Page] /\ ref' \in [DOMAIN cached' -> Nat]
    BY <1>1, <1>3, <1>4 DEF TypeOK, Without
  <2>3. evictable' \in Int
    BY <1>1, <1>3, <1>5 DEF TypeOK
  <2> QED
    BY <1>2, <1>3, <1>4, <2>1, <2>2, <2>3 DEF TypeOK, Handles
<1>7. PrefixClosed'
  BY <1>1, <1>3, <1>4 DEF IsEviction, PrefixClosed
<1>8. PagesDistinct'
  BY <1>4 DEF IInv, PagesDistinct
<1>9. HandlesCached'
  <2> SUFFICES ASSUME NEW c \in Client, handle[c] # NoHandle, NEW k \in PrefixesOf(handle[c])
               PROVE  k \in DOMAIN cached'
    BY <1>2 DEF HandlesCached
  <2>1. k \in DOMAIN cached /\ ref[k] # 0
    BY LockedIsReferenced
  <2>2. k \notin S
    BY <2>1 DEF Evictable
  <2> QED
    BY <2>1, <2>2, <1>4
<1>10. RefCountsHolders'
  BY <1>2, <1>4, HoldersUnchanged DEF IInv, RefCountsHolders
<1>11. CountersExact'
  <2>1. Evictable(ref)' = Evictable(ref) \ S
    BY <1>3, <1>4 DEF Evictable
  <2>2. Protected(ref)' = Protected(ref)
    BY <1>1, <1>3, <1>4 DEF Protected, Evictable
  <2>3. Cardinality(Evictable(ref) \ S) = Cardinality(Evictable(ref)) - Cardinality(S)
    BY <1>3, <1>5, SubsetDifference
  <2> QED
    BY <1>1, <1>2, <2>1, <2>2, <2>3 DEF IInv, CountersExact
<1> QED
  BY <1>6, <1>7, <1>8, <1>9, <1>10, <1>11 DEF IInv

LEMMA NextInv == IInv /\ [Next]_vars => IInv'
<1> SUFFICES ASSUME IInv, [Next]_vars PROVE IInv'
  OBVIOUS
<1>1. CASE \E ids \in Inputs : MatchPrefix(ids)
  BY <1>1, MatchStep
<1>2. CASE \E ids \in Inputs : \E pages \in [1 .. Len(ids) -> Page] : InsertPrefix(ids, pages)
  BY <1>2, InsertStep
<1>3. CASE \E c \in Client : LockHandle(c)
  BY <1>3, LockStep
<1>4. CASE \E c \in Client : UnlockHandle(c)
  BY <1>4, UnlockStep
<1>5. CASE \E size \in 1 .. Cardinality(Page) : Evict(size)
  BY <1>5, EvictStep
<1>6. CASE UNCHANGED vars
  BY <1>6 DEF vars, IInv, TypeOK, PrefixClosed, PagesDistinct, HandlesCached,
     RefCountsHolders, Holders, CountersExact
<1> QED
  BY <1>1, <1>2, <1>3, <1>4, <1>5, <1>6 DEF Next

(* The inductive invariant holds in every reachable state of the prefix     *)
(* cache; the theorems below name the parts of it.                          *)
THEOREM Invariance == Spec => []IInv
<1>1. Init => IInv
  BY InitInv
<1>2. IInv /\ [Next]_vars => IInv'
  BY NextInv
<1> QED
  BY <1>1, <1>2, PTL DEF Spec

(* Prefixes stay block sequences, pages pages and counts natural numbers.   *)
THEOREM TypeCorrect == Spec => []TypeOK
<1>1. IInv => TypeOK
  BY DEF IInv
<1> QED
  BY <1>1, Invariance, PTL

(* Matched prefixes can always be walked to the root, page by page: the     *)
(* tree walk of match_prefix never leaves a gap (RadixPrefixCache).         *)
THEOREM AlwaysPrefixClosed == Spec => []PrefixClosed
<1>1. IInv => PrefixClosed
  BY DEF IInv
<1> QED
  BY <1>1, Invariance, PTL

(* No KV page is cached under two prefixes.                                 *)
THEOREM AlwaysPagesDistinct == Spec => []PagesDistinct
<1>1. IInv => PagesDistinct
  BY DEF IInv
<1> QED
  BY <1>1, Invariance, PTL

(* ref_count is the number of locked handles through a node.                *)
THEOREM RefCountsExact == Spec => []RefCountsHolders
<1>1. IInv => RefCountsHolders
  BY DEF IInv
<1> QED
  BY <1>1, Invariance, PTL

(* A locked handle's whole prefix is in the cache, whatever was evicted.    *)
THEOREM LockedHandlesCached == Spec => []HandlesCached
<1>1. IInv => HandlesCached
  BY DEF IInv
<1> QED
  BY <1>1, Invariance, PTL

(* check_integrity never raises: evictable_size and protected_size are the  *)
(* sizes of the unreferenced and of the referenced part of the tree.        *)
THEOREM CountersAlwaysExact == Spec => []CountersExact
<1>1. IInv => CountersExact
  BY DEF IInv
<1> QED
  BY <1>1, Invariance, PTL

(* A referenced prefix keeps its page: no operation evicts or replaces what *)
(* a locked handle stands for.                                              *)
THEOREM ProtectedAlwaysStays == Spec => ProtectedStays
<1> DEFINE Stays == \A k \in DOMAIN cached :
                       ref[k] > 0 => k \in DOMAIN cached' /\ cached'[k] = cached[k]
<1>1. IInv /\ [Next]_vars => [Stays]_vars
  <2> SUFFICES ASSUME IInv, Next PROVE Stays
    OBVIOUS
  <2>1. CASE \E ids \in Inputs : MatchPrefix(ids)
    BY <2>1 DEF MatchPrefix
  <2>2. CASE \E ids \in Inputs : \E pages \in [1 .. Len(ids) -> Page] : InsertPrefix(ids, pages)
    BY <2>2 DEF InsertPrefix, InsertPages
  <2>3. CASE \E c \in Client : LockHandle(c)
    BY <2>3 DEF LockHandle
  <2>4. CASE \E c \in Client : UnlockHandle(c)
    BY <2>4 DEF UnlockHandle
  <2>5. CASE \E size \in 1 .. Cardinality(Page) : Evict(size)
    BY <2>5 DEF Evict, Without, Evictable, IInv, TypeOK
  <2> QED
    BY <2>1, <2>2, <2>3, <2>4, <2>5 DEF Next
<1> QED
  BY <1>1, Invariance, PTL DEF Spec, ProtectedStays
=============================================================================
