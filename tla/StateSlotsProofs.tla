--------------------------- MODULE StateSlotsProofs ---------------------------
(***************************************************************************)
(* Where the state slots of a hybrid model are, for any rows, texts, page  *)
(* sizes and numbers of drafts.  Every slot is free, under a prefix of the *)
(* tree, in a page column that a request owns, or in the verify reserve of *)
(* a row, and in one of these only; and there are as many free slots as    *)
(* free pages, so that a step which gets its pages gets its slots.         *)
(***************************************************************************)
EXTENDS StateSlots, Lemmas

(* The slots that the engine made. *)
AllSlots == IF speculating THEN Slot ELSE 0 .. NumPages - 1

HandleLen(r) == IF req[r] = NoReq THEN 0 ELSE Len(req[r].handle)

(* The columns of a row whose slots are its own, not borrowed from the tree. *)
Owned(r) == {p \in Column : p >= HandleLen(r) /\ table[r][p] # NoSlot}

TreeSlots       == {tree[k] : k \in DOMAIN tree}
PageSlots(r)    == {table[r][p] : p \in Owned(r)}
ReserveSlots(r) == {reserve[r][j] : j \in Candidate}

(* The pages behind the handle that a row has allocated. *)
PagesEnd(r) == IF req[r] = NoReq THEN 0 ELSE DivCeil(AllocatedLen(r))
Allocated   == {cell \in Row \X Nat : HandleLen(cell[1]) <= cell[2] /\ cell[2] < PagesEnd(cell[1])}

(* Before its first verify round every page of a request has a slot, after *)
(* it the full ones have: the state behind them is in the reserve.         *)
SlotsEnd(r) ==
    IF speculating /\ req[r].running THEN req[r].cached \div PageSize ELSE DivCeil(req[r].cached)

Types ==
    /\ speculating \in BOOLEAN
    /\ req = [r \in Row |-> req[r]] /\ \A r \in Live : req[r] \in Request
    /\ table \in [Row -> [Column -> Slot \cup {NoSlot}]]
    /\ reserve \in [Row -> [Candidate -> Slot]]
    /\ freePages \in Nat

(* Whatever is cached can be reached from the root. *)
TreeTypes ==
    /\ DOMAIN tree \subseteq Seq(Seq(Token)) \ {<<>>} /\ IsFiniteSet(DOMAIN tree)
    /\ PrefixClosedSet(DOMAIN tree)

Lengths(r) ==
    /\ req[r].cached < MaxLen(r)
    /\ req[r].handle = SubSeq(Blocks(req[r].text), 1, Len(req[r].handle))
    /\ Len(req[r].handle) * PageSize <= req[r].cached
    /\ req[r].running => req[r].cached > 0
    /\ req[r].inflight <= Drafts + 1 /\ req[r].cached + req[r].inflight < MaxLen(r)
    /\ req[r].accepted <= req[r].inflight
    /\ req[r].inflight > 0 => speculating /\ req[r].running /\ req[r].accepted > 0

(* Behind the handle, the pages of a request have slots as far as its      *)
(* states are in pages; a row without a request has none.                   *)
Columns(r) ==
    IF req[r] = NoReq THEN \A p \in Column : table[r][p] = NoSlot
    ELSE \A p \in Column :
            /\ HandleLen(r) <= p /\ p < SlotsEnd(r) => table[r][p] # NoSlot
            /\ DivCeil(req[r].cached) <= p => table[r][p] = NoSlot

(* No place has a slot twice. *)
TreeOnce == \A k, l \in DOMAIN tree : tree[k] = tree[l] => k = l

RowOnce(r) ==
    /\ \A p, q \in Owned(r) : table[r][p] = table[r][q] => p = q
    /\ \A i, j \in Candidate : reserve[r][i] = reserve[r][j] => i = j

RowInv(r) == Columns(r) /\ RowOnce(r) /\ (req[r] # NoReq => Lengths(r))

(* The places share no slot, and there is no other. *)
RowSlots(r) == PageSlots(r) \cup ReserveSlots(r)

Disjoint(F, T, P, R) ==
    F \cap T = {} /\ F \cap P = {} /\ F \cap R = {} /\ T \cap P = {} /\ T \cap R = {} /\ P \cap R = {}

Apart ==
    /\ \A r \in Row : Disjoint(freeStates, TreeSlots, PageSlots(r), ReserveSlots(r))
    /\ \A q, r \in Row : q # r => RowSlots(q) \cap RowSlots(r) = {}
    /\ freeStates \cap TreeSlots = {}
    /\ AllSlots = freeStates \cup TreeSlots \cup UNION {RowSlots(r) : r \in Row}

(* Every page is free, cached, or allocated by a request. *)
PagesCounted ==
    /\ IsFiniteSet(Allocated)
    /\ freePages + Cardinality(DOMAIN tree) + Cardinality(Allocated) = NumPages

Locks == Held(Live, req, tree, ref)

SlotInv ==
    /\ Types /\ TreeTypes /\ TreeOnce /\ Locks /\ Apart /\ PagesCounted
    /\ \A r \in Row : RowInv(r)
-----------------------------------------------------------------------------
(* Pages and tokens *)

LEMMA DivCeilIs ==
    ASSUME SizesAssumption, NEW n \in Nat
    PROVE  /\ DivCeil(n) \in Nat
           /\ n \div PageSize \in Nat /\ (n \div PageSize) * PageSize <= n
           /\ n \div PageSize <= DivCeil(n) /\ DivCeil(n) <= n \div PageSize + 1
<1>1. PageSize \in Nat \ {0}
  BY DEF SizesAssumption
<1> QED BY <1>1 DEF DivCeil

LEMMA DivCeilGrows ==
    ASSUME SizesAssumption, NEW m \in Nat, NEW n \in Nat, m <= n
    PROVE  DivCeil(m) <= DivCeil(n) /\ m \div PageSize <= n \div PageSize
<1>1. PageSize \in Nat \ {0}
  BY DEF SizesAssumption
<1> QED BY <1>1 DEF DivCeil

(* The last page of n tokens. *)
LEMMA LastPage ==
    ASSUME SizesAssumption, NEW n \in Nat \ {0}
    PROVE  /\ (n - 1) \div PageSize \in Nat /\ DivCeil(n) = (n - 1) \div PageSize + 1
           /\ (n - 1) \div PageSize <= n \div PageSize
<1>1. PageSize \in Nat \ {0}
  BY DEF SizesAssumption
<1> QED BY <1>1 DEF DivCeil

(* h whole pages. *)
LEMMA WholePages ==
    ASSUME SizesAssumption, NEW h \in Nat, NEW n \in Nat
    PROVE  /\ h * PageSize \in Nat /\ DivCeil(h * PageSize) = h
           /\ h * PageSize <= n <=> h <= n \div PageSize
<1>1. PageSize \in Nat \ {0}
  BY DEF SizesAssumption
<1>2. h * PageSize \in Nat /\ DivCeil(h * PageSize) = h
  BY <1>1 DEF DivCeil
<1>3. h * PageSize <= n => h <= n \div PageSize
  BY <1>1
<1>4. h <= n \div PageSize => h * PageSize <= n
  <2>1. (n \div PageSize) * PageSize <= n /\ n \div PageSize \in Nat
    BY <1>1
  <2>2. h <= n \div PageSize => h * PageSize <= (n \div PageSize) * PageSize
    BY <1>1, <2>1
  <2> QED BY <1>2, <2>1, <2>2
<1> QED BY <1>2, <1>3, <1>4

(* allocate_state begins in the first page without a slot, or before it.   *)
LEMMA FirstColumn ==
    ASSUME SizesAssumption, NEW c \in Nat, NEW to \in Nat, c < to
    PROVE  LET first == (Lesser(c + KernelChunk, to) - 1) \div PageSize
           IN  /\ first \in Nat /\ c \div PageSize <= first
               /\ first <= DivCeil(c)
<1> DEFINE n == Lesser(c + KernelChunk, to) - 1
<1>1. PageSize \in Nat \ {0} /\ KernelChunk \in Nat \ {0} /\ KernelChunk <= PageSize
  BY DEF SizesAssumption
<1>2. n \in Nat /\ c <= n /\ n <= c + PageSize - 1
  BY <1>1 DEF Lesser
<1> HIDE DEF n
<1>3. n \div PageSize \in Nat /\ c \div PageSize <= n \div PageSize
      /\ n \div PageSize <= (c + PageSize - 1) \div PageSize
  BY <1>1, <1>2
<1> QED BY <1>3 DEF n, DivCeil

(* A commit of fewer tokens than a page ends in page P or in the next one. *)
LEMMA CommitEnds ==
    ASSUME SizesAssumption, NEW c \in Nat \ {0}, NEW a \in 1 .. Drafts + 1
    PROVE  LET P == (c - 1) \div PageSize
           IN  /\ P \in Nat /\ (P + 1) * PageSize \in Nat
               /\ c <= (P + 1) * PageSize
               /\ c < (P + 1) * PageSize => c \div PageSize = P
               /\ c = (P + 1) * PageSize => c \div PageSize = P + 1
               /\ c + a < (P + 1) * PageSize => (c + a) \div PageSize = P
               /\ c + a >= (P + 1) * PageSize => (c + a) \div PageSize = P + 1
<1>1. PageSize \in Nat \ {0} /\ Drafts \in Nat /\ Drafts + 1 < PageSize
  BY DEF SizesAssumption
<1> DEFINE P == (c - 1) \div PageSize
<1>2. P \in Nat /\ (P + 1) * PageSize \in Nat /\ P * PageSize <= c - 1 /\ c - 1 < (P + 1) * PageSize
  BY <1>1
<1> HIDE DEF P
<1>3. (P + 1) * PageSize = P * PageSize + PageSize /\ (P + 1 + 1) * PageSize = (P + 1) * PageSize + PageSize
  BY <1>1, <1>2
<1>4. \A x \in Nat : P * PageSize <= x /\ x < (P + 1) * PageSize => x \div PageSize = P
  BY <1>1, <1>2
<1>5. \A x \in Nat : (P + 1) * PageSize <= x /\ x < (P + 1 + 1) * PageSize => x \div PageSize = P + 1
  BY <1>1, <1>2
<1>6. c + a \in Nat /\ c + a < (P + 1 + 1) * PageSize /\ P * PageSize <= c + a
  BY <1>1, <1>2, <1>3
<1>7. c < (P + 1 + 1) * PageSize /\ P * PageSize <= c
  BY <1>1, <1>2, <1>3
<1> QED BY <1>2, <1>4, <1>5, <1>6, <1>7 DEF P
-----------------------------------------------------------------------------
(* Tokens and blocks *)

LEMMA PrefixIs ==
    ASSUME NEW S, NEW t \in Seq(S), NEW n \in 0 .. Len(t)
    PROVE  /\ SubSeq(t, 1, n) \in Seq(S) /\ Len(SubSeq(t, 1, n)) = n
           /\ \A i \in 1 .. n : SubSeq(t, 1, n)[i] = t[i]
<1>1. Len(t) \in Nat /\ \A i \in 1 .. n : t[i] \in S
  BY ElementOfSeq, LenProperties
<1> QED BY <1>1, SubSeqProperties

LEMMA PartOfPrefix ==
    ASSUME NEW S, NEW t \in Seq(S), NEW n \in 0 .. Len(t), NEW a \in Nat \ {0}, NEW b \in a .. n
    PROVE  SubSeq(SubSeq(t, 1, n), a, b) = SubSeq(t, a, b)
<1>1. Len(t) \in Nat
  BY LenProperties
<1> PICK one : one = 1
  OBVIOUS
<1>2. one \in 1 .. Len(t) /\ n \in 1 .. Len(t) /\ a \in 1 .. n - one + 1 /\ b \in 1 .. n - one + 1
  BY <1>1
<1>3. SubSeq(SubSeq(t, one, n), a, b) = SubSeq(t, one + a - 1, one + b - 1)
  BY <1>2, SubSeqOfSubSeq
<1>4. one + a - 1 = a /\ one + b - 1 = b
  OBVIOUS
<1> QED BY <1>3, <1>4

LEMMA BlockEnds ==
    ASSUME SizesAssumption, NEW n \in Nat, NEW i \in 1 .. n \div PageSize
    PROVE  /\ (i - 1) * PageSize + 1 \in Nat \ {0} /\ i * PageSize \in Nat
           /\ (i - 1) * PageSize + 1 <= i * PageSize /\ i * PageSize <= n
<1>1. PageSize \in Nat \ {0} /\ i \in Nat
  BY DEF SizesAssumption
<1>2. (i - 1) * PageSize \in Nat /\ i * PageSize = (i - 1) * PageSize + PageSize
  BY <1>1
<1>3. i * PageSize <= n
  <2>1. n \div PageSize \in Nat /\ (n \div PageSize) * PageSize <= n
    BY DivCeilIs
  <2>2. i * PageSize <= (n \div PageSize) * PageSize
    BY <1>1, <2>1
  <2> QED BY <1>2, <2>1, <2>2
<1> QED BY <1>1, <1>2, <1>3

LEMMA BlocksAre ==
    ASSUME SizesAssumption, NEW t \in Seq(Token)
    PROVE  /\ Blocks(t) \in Seq(Seq(Token)) /\ Len(Blocks(t)) = Len(t) \div PageSize
           /\ \A i \in 1 .. Len(t) \div PageSize :
                 Blocks(t)[i] = SubSeq(t, (i - 1) * PageSize + 1, i * PageSize)
<1> PICK n : n = Len(t)
  OBVIOUS
<1>1. n \in Nat /\ n \div PageSize \in Nat
  BY LenProperties, DivCeilIs
<1> DEFINE block(i) == SubSeq(t, (i - 1) * PageSize + 1, i * PageSize)
           b == [i \in 1 .. n \div PageSize |-> block(i)]
<1>2. Blocks(t) = b
  BY DEF Blocks
<1>3. ASSUME NEW i \in 1 .. n \div PageSize PROVE block(i) \in Seq(Token)
  <2>0. PICK l, h : l = (i - 1) * PageSize + 1 /\ h = i * PageSize
    OBVIOUS
  <2>1. l \in Nat \ {0} /\ h \in Nat /\ h <= n
    BY <1>1, <2>0, BlockEnds
  <2>2. ASSUME NEW j \in l .. h PROVE t[j] \in Token
    <3>1. n \in Nat /\ h <= n
      BY <1>1, <2>1
    <3>2. j \in Int /\ l <= j /\ j <= h
      BY <2>1
    <3>3. j \in 1 .. n
      BY <2>1, <3>1, <3>2
    <3> QED BY <3>3, ElementOfSeq
  <2>3. SubSeq(t, l, h) \in Seq(Token)
    BY <2>1, <2>2, SubSeqProperties
  <2> QED BY <2>0, <2>3
<1> HIDE DEF block
<1>4. b \in [1 .. n \div PageSize -> Seq(Token)]
  BY <1>3
<1>5. b \in Seq(Seq(Token)) /\ Len(b) = n \div PageSize
  <2> PICK f, m : f = b /\ m = n \div PageSize
    OBVIOUS
  <2>1. m \in Nat /\ f \in [1 .. m -> Seq(Token)]
    BY <1>1, <1>4
  <2> DEFINE T == Seq(Token)
  <2>2. f \in [1 .. m -> T]
    BY <2>1
  <2> HIDE DEF T
  <2>3. f \in Seq(T)
    BY <2>1, <2>2, SeqDef
  <2>4. Len(f) = m
    BY <2>1, <2>2, <2>3, LenProperties
  <2> QED BY <2>3, <2>4 DEF T
<1> QED BY <1>2, <1>5 DEF block

LEMMA BlocksOfPrefix ==
    ASSUME SizesAssumption, NEW t \in Seq(Token), NEW n \in 0 .. Len(t)
    PROVE  /\ Blocks(SubSeq(t, 1, n)) = SubSeq(Blocks(t), 1, n \div PageSize)
           /\ n \div PageSize \in 0 .. Len(Blocks(t))
<1> PICK p : p = SubSeq(t, 1, n)
  OBVIOUS
<1>1. Len(t) \in Nat /\ n \in Nat /\ p \in Seq(Token) /\ Len(p) = n
  BY LenProperties, PrefixIs
<1> PICK m : m = n \div PageSize
  OBVIOUS
<1>2. m \in 0 .. Len(t) \div PageSize /\ Len(t) \div PageSize \in Nat
  BY <1>1, DivCeilIs, DivCeilGrows
<1>3. /\ Blocks(p) \in Seq(Seq(Token)) /\ Len(Blocks(p)) = m
      /\ \A i \in 1 .. m : Blocks(p)[i] = SubSeq(p, (i - 1) * PageSize + 1, i * PageSize)
  BY <1>1, BlocksAre
<1>4. /\ Blocks(t) \in Seq(Seq(Token)) /\ Len(Blocks(t)) = Len(t) \div PageSize
      /\ \A i \in 1 .. Len(t) \div PageSize :
            Blocks(t)[i] = SubSeq(t, (i - 1) * PageSize + 1, i * PageSize)
  BY BlocksAre
<1>5. /\ SubSeq(Blocks(t), 1, m) \in Seq(Seq(Token)) /\ Len(SubSeq(Blocks(t), 1, m)) = m
      /\ \A i \in 1 .. m : SubSeq(Blocks(t), 1, m)[i] = Blocks(t)[i]
  BY <1>2, <1>4, PrefixIs
<1>6. ASSUME NEW i \in 1 .. m PROVE Blocks(p)[i] = SubSeq(Blocks(t), 1, m)[i]
  <2> PICK l, h : l = (i - 1) * PageSize + 1 /\ h = i * PageSize
    OBVIOUS
  <2>1. l \in Nat \ {0} /\ h \in l .. n
    <3>1. l \in Nat \ {0} /\ h \in Nat /\ l <= h /\ h <= n
      BY <1>1, BlockEnds
    <3> QED BY <1>1, <3>1
  <2>2. SubSeq(p, l, h) = SubSeq(t, l, h)
    <3>1. SubSeq(SubSeq(t, 1, n), l, h) = SubSeq(t, l, h)
      BY <2>1, PartOfPrefix, ZenonT(60)
    <3> QED BY <3>1
  <2>3. i \in 1 .. Len(t) \div PageSize
    BY <1>2
  <2> QED BY <1>3, <1>4, <1>5, <2>2, <2>3
<1>7. Blocks(p) = SubSeq(Blocks(t), 1, m)
  BY <1>3, <1>5, <1>6, SeqEqual
<1> QED BY <1>2, <1>4, <1>7

(* What a request caches extends its handle. *)
LEMMA KeyExtends ==
    ASSUME SizesAssumption, NEW t \in Seq(Token), NEW c \in 0 .. Len(t), NEW h \in Nat,
           h * PageSize <= c
    PROVE  LET key == Blocks(SubSeq(t, 1, c))
           IN  /\ key \in Seq(Seq(Token)) /\ Len(key) = c \div PageSize
               /\ key = SubSeq(Blocks(t), 1, Len(key))
               /\ h \in 0 .. Len(key)
               /\ SubSeq(key, 1, h) = SubSeq(Blocks(t), 1, h)
               /\ PrefixesOf(SubSeq(Blocks(t), 1, h)) \subseteq PrefixesOf(key)
<1> PICK key : key = Blocks(SubSeq(t, 1, c))
  OBVIOUS
<1> PICK b : b = Blocks(t)
  OBVIOUS
<1>1. Len(t) \in Nat /\ c \in Nat
  BY LenProperties
<1>2. b \in Seq(Seq(Token)) /\ Len(b) \in Nat
  BY BlocksAre, LenProperties
<1>3. c \div PageSize \in 0 .. Len(b) /\ key = SubSeq(b, 1, c \div PageSize)
  BY BlocksOfPrefix
<1>4. key \in Seq(Seq(Token)) /\ Len(key) = c \div PageSize
  <2>0. c \div PageSize \in Nat
    BY <1>1, DivCeilIs
  <2>1. PICK m \in Nat : m = c \div PageSize
    BY <2>0
  <2>2. m \in 0 .. Len(b) /\ key = SubSeq(b, 1, m)
    BY <1>3, <2>1
  <2>3. SubSeq(b, 1, m) \in Seq(Seq(Token)) /\ Len(SubSeq(b, 1, m)) = m
    BY <1>2, <2>2, PrefixIs
  <2> QED BY <2>1, <2>2, <2>3
<1>5. h \in 0 .. Len(key) /\ Len(key) \in Nat
  <2>1. h <= c \div PageSize /\ c \div PageSize \in Nat
    BY <1>1, WholePages, DivCeilIs
  <2> QED BY <1>4, <2>1
<1>6. SubSeq(key, 1, h) = SubSeq(b, 1, h)
  <2>1. CASE h = 0
    BY <2>1, SubSeqEmpty
  <2>2. CASE h # 0
    <3>1. h \in 1 .. c \div PageSize
      BY <1>4, <1>5, <2>2
    <3> QED BY <1>2, <1>3, <3>1, PartOfPrefix
  <2> QED BY <2>1, <2>2
<1>7. PrefixesOf(SubSeq(b, 1, h)) \subseteq PrefixesOf(key)
  <2>1. CASE h = 0
    <3>1. Len(SubSeq(b, 1, h)) = 0
      <4>1. SubSeq(b, 1, h) = <<>>
        BY <2>1, SubSeqEmpty
      <4> QED BY <4>1, EmptySeq
    <3>2. 1 .. Len(SubSeq(b, 1, h)) = {}
      BY <3>1
    <3> QED BY <3>2 DEF PrefixesOf
  <2>2. CASE h # 0
    <3>1. SubSeq(key, 1, h) \in PrefixesOf(key)
      BY <1>5, <2>2 DEF PrefixesOf
    <3>2. PrefixesOf(SubSeq(key, 1, h)) \subseteq PrefixesOf(key)
      BY <1>4, <3>1, PrefixTransitive
    <3> QED BY <1>6, <3>2
  <2> QED BY <2>1, <2>2
<1> QED BY <1>3, <1>4, <1>5, <1>6, <1>7

(* A match reaches as far as what is known to be cached. *)
LEMMA MatchCovers ==
    ASSUME NEW f, NEW B, NEW key \in Seq(B), NEW h \in 0 .. Len(key),
           PrefixesOf(SubSeq(key, 1, h)) \subseteq DOMAIN f
    PROVE  MatchLen(f, key) \in h .. Len(key)
<1> PICK m, n : m = MatchLen(f, key) /\ n = Len(key)
  OBVIOUS
<1>1. n \in Nat
  BY LenProperties
<1>2. m \in 0 .. n /\ (m < n => SubSeq(key, 1, m + 1) \notin DOMAIN f)
  BY <1>1, MatchIs DEF MatchesUpTo
<1>3. ASSUME m < h PROVE FALSE
  <2>1. m + 1 \in 1 .. h /\ m < n /\ h \in 1 .. n
    BY <1>1, <1>2, <1>3
  <2>2. SubSeq(SubSeq(key, 1, h), 1, m + 1) = SubSeq(key, 1, m + 1)
    <3> PICK one : one = 1
      OBVIOUS
    <3>1. one \in Nat \ {0} /\ m + 1 \in one .. h /\ h \in 0 .. Len(key)
      BY <1>1, <2>1
    <3> QED BY <3>1, PartOfPrefix
  <2>3. Len(SubSeq(key, 1, h)) = h
    BY PrefixIs
  <2>4. SubSeq(key, 1, m + 1) \in PrefixesOf(SubSeq(key, 1, h))
    BY <2>1, <2>2, <2>3 DEF PrefixesOf
  <2> QED BY <1>2, <2>1, <2>4
<1> QED BY <1>1, <1>2, <1>3
-----------------------------------------------------------------------------
(* Steps of one row *)

OnlyRow(r) ==
    /\ speculating' = speculating
    /\ \A q \in Row : q # r => req'[q] = req[q] /\ table'[q] = table[q] /\ reserve'[q] = reserve[q]

(* A row that a step leaves alone. *)
LEMMA OtherRow ==
    ASSUME NEW q, speculating' = speculating,
           req'[q] = req[q], table'[q] = table[q], reserve'[q] = reserve[q]
    PROVE  /\ HandleLen(q)' = HandleLen(q) /\ PagesEnd(q)' = PagesEnd(q)
           /\ Owned(q)' = Owned(q) /\ PageSlots(q)' = PageSlots(q)
           /\ ReserveSlots(q)' = ReserveSlots(q) /\ RowSlots(q)' = RowSlots(q)
           /\ RowInv(q)' = RowInv(q)
<1>1. HandleLen(q)' = HandleLen(q) /\ PagesEnd(q)' = PagesEnd(q)
  BY DEF HandleLen, PagesEnd, AllocatedLen
<1>2. Owned(q)' = Owned(q)
  BY <1>1 DEF Owned
<1>3. PageSlots(q)' = PageSlots(q) /\ ReserveSlots(q)' = ReserveSlots(q)
  BY <1>2 DEF PageSlots, ReserveSlots, Candidate
<1>4. RowSlots(q)' = RowSlots(q)
  BY <1>3 DEF RowSlots
<1>5. Columns(q)' = Columns(q)
  BY <1>1 DEF Columns, SlotsEnd
<1>6. RowOnce(q)' = RowOnce(q)
  BY <1>2 DEF RowOnce, Candidate
<1>7. Lengths(q)' = Lengths(q)
  BY DEF Lengths, MaxLen
<1> QED BY <1>1, <1>2, <1>3, <1>4, <1>5, <1>6, <1>7 DEF RowInv

(* Slots move between the free list, the tree and one row. *)
SlotsMove(r) ==
    /\ Disjoint(freeStates', TreeSlots', PageSlots(r)', ReserveSlots(r)')
    /\ freeStates' \cup TreeSlots' \cup RowSlots(r)' = freeStates \cup TreeSlots \cup RowSlots(r)

LEMMA MovesApart ==
    ASSUME Apart, NEW r \in Row, OnlyRow(r), SlotsMove(r)
    PROVE  Apart'
<1> DEFINE F == freeStates  T == TreeSlots  M == RowSlots(r)
<1>1. \A q \in Row : q # r => /\ PageSlots(q)' = PageSlots(q) /\ ReserveSlots(q)' = ReserveSlots(q)
                             /\ RowSlots(q)' = RowSlots(q)
  BY OtherRow DEF OnlyRow
<1>2. AllSlots' = AllSlots
  BY DEF OnlyRow, AllSlots
<1>3. F' \cup T' \cup M' = F \cup T \cup M
  BY DEF SlotsMove
<1>4. \A q \in Row : q # r => RowSlots(q) \cap (F \cup T \cup M) = {}
  BY DEF Apart, Disjoint, RowSlots
<1>5. \A q \in Row : q # r => RowSlots(q)' \cap (F' \cup T' \cup M') = {}
  BY <1>1, <1>3, <1>4
<1>6. ASSUME NEW q \in Row PROVE Disjoint(freeStates', TreeSlots', PageSlots(q)', ReserveSlots(q)')
  <2>1. CASE q = r
    BY <2>1 DEF SlotsMove
  <2>2. CASE q # r
    <3>1. F' \cap T' = {}
      BY DEF SlotsMove, Disjoint
    <3>2. PageSlots(q)' \cap ReserveSlots(q)' = {}
      BY <1>1, <2>2 DEF Apart, Disjoint
    <3>3. RowSlots(q)' = PageSlots(q)' \cup ReserveSlots(q)'
      BY DEF RowSlots
    <3> QED BY <1>5, <2>2, <3>1, <3>2, <3>3 DEF Disjoint
  <2> QED BY <2>1, <2>2
<1>7. ASSUME NEW q \in Row, NEW s \in Row, q # s PROVE RowSlots(q)' \cap RowSlots(s)' = {}
  <2>1. CASE q # r /\ s # r
    BY <1>1, <1>7, <2>1 DEF Apart
  <2>2. CASE q = r \/ s = r
    BY <1>5, <1>7, <2>2
  <2> QED BY <2>1, <2>2
<1>8. F' \cap T' = {}
  BY DEF SlotsMove, Disjoint
<1>9. AllSlots' = F' \cup T' \cup UNION {RowSlots(q)' : q \in Row}
  <2> DEFINE Rest == UNION {RowSlots(q) : q \in Row \ {r}}
             Rest2 == UNION {RowSlots(q)' : q \in Row \ {r}}
  <2>1. Rest2 = Rest
    BY <1>1
  <2>2. UNION {RowSlots(q) : q \in Row} = Rest \cup M /\ UNION {RowSlots(q)' : q \in Row} = Rest2 \cup M'
    OBVIOUS
  <2>3. AllSlots = F \cup T \cup M \cup Rest
    BY <2>2 DEF Apart
  <2> QED BY <1>2, <1>3, <2>1, <2>2, <2>3
<1> QED BY <1>6, <1>7, <1>8, <1>9 DEF Apart

(* One row's pages among those of all rows. *)
Strip(r, a, b) == {r} \X (a .. b - 1)

LEMMA StripSize ==
    ASSUME NEW r, NEW a \in Nat, NEW b \in Nat, a <= b
    PROVE  IsFiniteSet(Strip(r, a, b)) /\ Cardinality(Strip(r, a, b)) = b - a
<1>1. IsFiniteSet(a .. b - 1) /\ Cardinality(a .. b - 1) = b - a
  <2> PICK c \in Int : c = b - 1
    OBVIOUS
  <2>1. IsFiniteSet(a .. c) /\ Cardinality(a .. c) = IF a > c THEN 0 ELSE c - a + 1
    BY FS_Interval
  <2> QED BY <2>1
<1>2. IsFiniteSet({r}) /\ Cardinality({r}) = 1
  BY FS_Singleton
<1>3. PICK I, J : I = {r} /\ J = a .. b - 1
  OBVIOUS
<1>4. IsFiniteSet(I \X J) /\ Cardinality(I \X J) = Cardinality(I) * Cardinality(J)
  BY <1>1, <1>2, <1>3, FS_Product
<1> QED BY <1>1, <1>2, <1>3, <1>4 DEF Strip

(* A set in which Q takes the place of P. *)
LEMMA Replaced ==
    ASSUME NEW A, NEW B, NEW P, NEW Q, IsFiniteSet(A), IsFiniteSet(Q),
           P \subseteq A, Q \subseteq B, A \ P = B \ Q
    PROVE  IsFiniteSet(B) /\ Cardinality(B) = Cardinality(A) - Cardinality(P) + Cardinality(Q)
<1>1. PICK Rest : Rest = A \ P
  OBVIOUS
<1>2. IsFiniteSet(Rest) /\ Cardinality(Rest) = Cardinality(A) - Cardinality(P)
  <2>1. Rest \in SUBSET A
    BY <1>1
  <2> QED BY <1>1, <2>1, FS_Subset, SubsetDifference
<1>3. B = Rest \cup Q /\ Rest \cap Q = {}
  BY <1>1
<1>4. IsFiniteSet(Rest \cup Q) /\ Cardinality(Rest \cup Q) = Cardinality(Rest) + Cardinality(Q)
  BY <1>2, <1>3, FS_Union, DisjointUnion
<1> QED BY <1>2, <1>3, <1>4

(* The pages of one row change by what it gives back and what it takes. *)
LEMMA PagesMove ==
    ASSUME NEW r \in Row, OnlyRow(r), IsFiniteSet(Allocated),
           HandleLen(r) \in Nat, PagesEnd(r) \in Nat, HandleLen(r)' \in Nat, PagesEnd(r)' \in Nat,
           HandleLen(r) <= PagesEnd(r), HandleLen(r)' <= PagesEnd(r)'
    PROVE  /\ IsFiniteSet(Allocated')
           /\ Cardinality(Allocated') = Cardinality(Allocated)
                 - (PagesEnd(r) - HandleLen(r)) + (PagesEnd(r)' - HandleLen(r)')
<1>1. PICK a, b, c, d : a = HandleLen(r) /\ b = PagesEnd(r) /\ c = HandleLen(r)' /\ d = PagesEnd(r)'
  OBVIOUS
<1>2. PICK A, B : A = Allocated /\ B = Allocated'
  OBVIOUS
<1>3. a \in Nat /\ b \in Nat /\ c \in Nat /\ d \in Nat /\ a <= b /\ c <= d
  BY <1>1
<1>4. ASSUME NEW q \in Row, NEW n \in Nat
      PROVE  /\ <<q, n>> \in A <=> HandleLen(q) <= n /\ n < PagesEnd(q)
             /\ <<q, n>> \in B <=> HandleLen(q)' <= n /\ n < PagesEnd(q)'
  BY <1>2 DEF Allocated
<1>5. A \subseteq Row \X Nat /\ B \subseteq Row \X Nat
  BY <1>2 DEF Allocated
<1>6. \A q \in Row, n \in Nat : q # r => (<<q, n>> \in A <=> <<q, n>> \in B)
  BY <1>4, OtherRow DEF OnlyRow
<1>7. \A n \in Nat : /\ <<r, n>> \in A <=> a <= n /\ n < b
                     /\ <<r, n>> \in B <=> c <= n /\ n < d
  BY <1>1, <1>4
<1>8. ASSUME NEW x \in Nat, NEW y \in Nat
      PROVE  Strip(r, x, y) = {cell \in Row \X Nat : cell[1] = r /\ x <= cell[2] /\ cell[2] < y}
  BY DEF Strip
<1>9. Strip(r, a, b) \subseteq A /\ Strip(r, c, d) \subseteq B
  BY <1>3, <1>7, <1>8
<1>10. A \ Strip(r, a, b) = B \ Strip(r, c, d)
  <2>1. ASSUME NEW cell \in Row \X Nat PROVE cell \in A \ Strip(r, a, b) <=> cell \in B \ Strip(r, c, d)
    <3>1. PICK q \in Row, n \in Nat : cell = <<q, n>>
      OBVIOUS
    <3>2. CASE q = r
      BY <1>3, <1>7, <1>8, <3>1, <3>2
    <3>3. CASE q # r
      BY <1>3, <1>6, <1>8, <3>1, <3>3
    <3> QED BY <3>2, <3>3
  <2> QED BY <1>5, <2>1
<1>11. IsFiniteSet(A)
  BY <1>2
<1>12. IsFiniteSet(B) /\ Cardinality(B) = Cardinality(A) - (b - a) + (d - c)
  <2>1. PICK P, Q : P = Strip(r, a, b) /\ Q = Strip(r, c, d)
    OBVIOUS
  <2>2. IsFiniteSet(Q) /\ Cardinality(P) = b - a /\ Cardinality(Q) = d - c
    BY <1>3, <2>1, StripSize
  <2>3. P \subseteq A /\ Q \subseteq B /\ A \ P = B \ Q
    BY <1>9, <1>10, <2>1
  <2>4. IsFiniteSet(B) /\ Cardinality(B) = Cardinality(A) - Cardinality(P) + Cardinality(Q)
    BY <1>11, <2>2, <2>3, Replaced
  <2> QED BY <2>2, <2>4
<1> QED BY <1>1, <1>2, <1>12
-----------------------------------------------------------------------------
(* What the invariant says *)

LEMMA ColumnsReach ==
    ASSUME SizesAssumption, TextAssumption, NEW t \in Text, NEW n \in 0 .. Len(t)
    PROVE  /\ Column \subseteq Nat /\ IsFiniteSet(Column) /\ t \in Seq(Token) /\ Len(t) \in Nat
           /\ \A p \in Nat : p < DivCeil(n) => p \in Column
<1> DEFINE S == {Len(u) : u \in Text}
<1>1. t \in Seq(Token) /\ \A u \in Text : Len(u) \in Nat
  BY LenProperties DEF TextAssumption
<1>2. \E x \in S : \A y \in S : x >= y
  <2>1. PICK u \in Text : \A v \in Text : Len(v) <= Len(u)
    BY DEF TextAssumption
  <2> QED BY <1>1, <2>1
<1>3. PICK m : m = Max(S)
  OBVIOUS
<1>4. m \in S /\ \A y \in S : m >= y
  <2> HIDE DEF S
  <2> QED BY <1>2, <1>3 DEF Max
<1>5. m \in Nat /\ n \in Nat /\ n <= m
  <2>1. m \in Nat /\ Len(t) \in Nat /\ m >= Len(t)
    BY <1>1, <1>4
  <2> QED BY <2>1
<1>6. DivCeil(n) \in Nat /\ DivCeil(m) \in Nat /\ DivCeil(n) <= DivCeil(m)
  BY <1>5, DivCeilIs, DivCeilGrows
<1>7. Column = 0 .. DivCeil(m) - 1
  BY <1>3 DEF Column
<1> HIDE DEF S
<1>8. IsFiniteSet(Column)
  <2>1. PICK b \in Int : b = DivCeil(m) - 1
    BY <1>6
  <2> QED BY <1>7, <2>1, FS_Interval
<1> QED BY <1>1, <1>6, <1>7, <1>8

LEMMA SlotsAre ==
    ASSUME SizesAssumption
    PROVE  /\ Slot \subseteq Nat /\ 0 .. NumPages - 1 \subseteq Slot
           /\ IsFiniteSet(Slot) /\ AllSlots \subseteq Slot
<1>1. Cardinality(Row) \in Nat
  BY FS_CardinalityType DEF SizesAssumption
<1>2. NumPages \in Nat /\ Drafts \in Nat
  BY DEF SizesAssumption
<1>3. PICK k : k = Cardinality(Row) * (Drafts + 1)
  OBVIOUS
<1>4. k \in Nat
  BY <1>1, <1>2, <1>3
<1>5. PICK n : n = NumPages + k - 1
  OBVIOUS
<1>6. n \in Int /\ NumPages - 1 <= n
  BY <1>2, <1>4, <1>5
<1>7. Slot = 0 .. n
  BY <1>3, <1>5 DEF Slot
<1>8. IsFiniteSet(Slot)
  BY <1>6, <1>7, FS_Interval
<1>9. 0 .. NumPages - 1 \subseteq Slot /\ Slot \subseteq Nat
  BY <1>2, <1>6, <1>7
<1> QED BY <1>8, <1>9 DEF AllSlots

(* A live row. *)
LEMMA RowIs ==
    ASSUME SizesAssumption, TextAssumption, SlotInv, NEW r \in Row, req[r] # NoReq
    PROVE  /\ r \in Live /\ req[r] \in Request /\ Lengths(r) /\ Columns(r) /\ RowOnce(r)
           /\ req[r].text \in Text /\ req[r].text \in Seq(Token)
           /\ MaxLen(r) \in Nat /\ PromptLen(r) \in Nat \ {0} /\ PromptLen(r) < MaxLen(r)
           /\ req[r].cached \in Nat /\ req[r].inflight \in Nat /\ req[r].accepted \in Nat
           /\ req[r].running \in BOOLEAN /\ req[r].baseline \in Slot \cup {NoSlot}
           /\ req[r].handle \in Seq(Seq(Token)) /\ HandleLen(r) = Len(req[r].handle)
           /\ HandleLen(r) \in Nat /\ HandleLen(r) <= req[r].cached \div PageSize
           /\ PagesEnd(r) = DivCeil(AllocatedLen(r)) /\ PagesEnd(r) \in Nat
           /\ HandleLen(r) <= DivCeil(req[r].cached) /\ DivCeil(req[r].cached) <= PagesEnd(r)
<1>1. r \in Live /\ req[r] \in Request
  BY DEF SlotInv, Types, Live
<1>2. Lengths(r) /\ Columns(r) /\ RowOnce(r)
  BY DEF SlotInv, RowInv
<1>3. /\ req[r].text \in Text
      /\ req[r].cached \in Nat /\ req[r].inflight \in Nat /\ req[r].accepted \in Nat
      /\ req[r].running \in BOOLEAN /\ req[r].baseline \in Slot \cup {NoSlot}
      /\ req[r].handle \in Seq(Seq(Token))
  BY <1>1 DEF Request
<1>4. req[r].text \in Seq(Token) /\ MaxLen(r) \in Nat
      /\ PromptLen(r) \in Nat \ {0} /\ PromptLen(r) < MaxLen(r)
  <2>1. PICK t : t = req[r].text
    OBVIOUS
  <2>2. t \in Text /\ t \in Seq(Token) /\ Prompt[t] \in 1 .. Len(t) - 1
    BY <1>3, <2>1 DEF TextAssumption
  <2>3. PICK n : n = Len(t)
    OBVIOUS
  <2>4. n \in Nat /\ Prompt[t] \in 1 .. n - 1
    BY <2>2, <2>3, LenProperties
  <2>5. Prompt[t] \in Nat \ {0} /\ Prompt[t] < n
    BY <2>4
  <2> QED BY <2>1, <2>2, <2>3, <2>4, <2>5 DEF MaxLen, PromptLen
<1>5. HandleLen(r) = Len(req[r].handle) /\ HandleLen(r) \in Nat
  BY <1>3, LenProperties DEF HandleLen
<1>6. PICK h, c, a : h = HandleLen(r) /\ c = req[r].cached /\ a = AllocatedLen(r)
  OBVIOUS
<1>7. h \in Nat /\ c \in Nat /\ a \in Nat /\ c <= a /\ h * PageSize <= c
  <2>1. c \in Nat /\ req[r].inflight \in Nat /\ a = c + req[r].inflight /\ h \in Nat
    BY <1>3, <1>5, <1>6 DEF AllocatedLen
  <2>2. h * PageSize <= c
    BY <1>2, <1>5, <1>6 DEF Lengths
  <2>3. \A i \in Nat : c + i \in Nat /\ c <= c + i
    BY <2>1
  <2>4. a \in Nat /\ c <= a
    BY <2>1, <2>3
  <2> QED BY <2>1, <2>2, <2>4
<1>8. h <= c \div PageSize /\ c \div PageSize <= DivCeil(c) /\ DivCeil(c) <= DivCeil(a)
      /\ c \div PageSize \in Nat /\ DivCeil(c) \in Nat /\ DivCeil(a) \in Nat
  BY <1>7, WholePages, DivCeilIs, DivCeilGrows
<1>9. PagesEnd(r) = DivCeil(a)
  BY <1>6 DEF PagesEnd
<1>10. /\ HandleLen(r) <= req[r].cached \div PageSize
       /\ PagesEnd(r) = DivCeil(AllocatedLen(r)) /\ PagesEnd(r) \in Nat
       /\ HandleLen(r) <= DivCeil(req[r].cached) /\ DivCeil(req[r].cached) <= PagesEnd(r)
  <2>1. h <= c \div PageSize /\ DivCeil(a) \in Nat /\ h <= DivCeil(c) /\ DivCeil(c) <= DivCeil(a)
    <3> PICK d, e : d = c \div PageSize /\ e = DivCeil(c)
      OBVIOUS
    <3>1. d \in Nat /\ e \in Nat /\ h <= d /\ d <= e
      BY <1>8
    <3>2. h <= e
      BY <1>7, <3>1
    <3> QED BY <1>8, <3>2
  <2> QED BY <1>6, <1>9, <2>1
<1> QED BY <1>1, <1>2, <1>3, <1>4, <1>5, <1>10

(* Where slots can be. *)
LEMMA SlotsIn ==
    ASSUME SizesAssumption, NothingAssumption, Types, Apart
    PROVE  /\ freeStates \subseteq AllSlots /\ TreeSlots \subseteq AllSlots
           /\ \A r \in Row : PageSlots(r) \subseteq AllSlots /\ ReserveSlots(r) \subseteq AllSlots
           /\ AllSlots \subseteq Slot /\ NoSlot \notin AllSlots
<1>1. AllSlots \subseteq Slot /\ NoSlot \notin Slot
  BY SlotsAre DEF NothingAssumption
<1>2. \A r \in Row : RowSlots(r) \subseteq AllSlots
  BY DEF Apart
<1> QED BY <1>1, <1>2 DEF Apart, RowSlots

(* A row without a request has no pages, and no slots but its reserve. *)
LEMMA EmptyRow ==
    ASSUME NEW r \in Row, Columns(r), req[r] = NoReq
    PROVE  HandleLen(r) = 0 /\ PagesEnd(r) = 0 /\ Owned(r) = {} /\ PageSlots(r) = {}
<1>1. Owned(r) = {}
  BY DEF Columns, Owned
<1> QED BY <1>1 DEF PageSlots, HandleLen, PagesEnd
-----------------------------------------------------------------------------
(* Eviction *)

SlotsOf(S) == {tree[k] : k \in S}

Evicts(need, S) ==
    /\ S \subseteq Evictable(ref) /\ EvictsFor(need, S)
    /\ tree' = Without(tree, S) /\ ref' = Without(ref, S)

LEMMA EvictionIs ==
    ASSUME TreeTypes, TreeOnce, Locks, Types, NEW need \in Nat, NEW S, Evicts(need, S)
    PROVE  /\ TreeTypes' /\ TreeOnce' /\ Held(Live, req, tree', ref')
           /\ freePages + Cardinality(S) - need \in Nat
           /\ freePages + Cardinality(S) - need + Cardinality(DOMAIN tree')
                = freePages + Cardinality(DOMAIN tree) - need
           /\ TreeSlots = TreeSlots' \cup SlotsOf(S)
           /\ TreeSlots' \cap SlotsOf(S) = {}
<1>1. /\ DOMAIN ref = DOMAIN tree /\ S \subseteq DOMAIN tree
      /\ IsFiniteSet(DOMAIN tree) /\ PrefixClosedSet(DOMAIN tree)
  BY DEF TreeTypes, Locks, Held, Evicts, Evictable
<1>2. /\ DOMAIN tree' = DOMAIN tree \ S
      /\ \A k \in DOMAIN tree' : tree'[k] = tree[k]
  BY DEF Evicts, Without
<1>3. Held(Live, req, tree', ref')
  <2>1. Held(Live, req, tree, ref) /\ S \subseteq Evictable(ref)
    BY DEF Locks, Evicts
  <2>2. Held(Live, req, Without(tree, S), Without(ref, S))
    BY <2>1, EvictHeld
  <2> QED BY <2>2 DEF Evicts
<1>4. IsFiniteSet(S) /\ Cardinality(S) \in Nat
  BY <1>1, FS_Subset, FS_CardinalityType
<1>5. IsFiniteSet(DOMAIN tree') /\ Cardinality(DOMAIN tree') = Cardinality(DOMAIN tree) - Cardinality(S)
  BY <1>1, <1>2, FS_Subset, SubsetDifference
<1>6. PrefixClosedSet(DOMAIN tree')
  BY <1>1, <1>2 DEF Evicts, EvictsFor, IsEviction
<1>7. TreeTypes'
  BY <1>2, <1>5, <1>6 DEF TreeTypes
<1>8. TreeOnce'
  BY <1>2 DEF TreeOnce
<1>9. PICK e, n, m : e = Cardinality(S) /\ n = Cardinality(DOMAIN tree) /\ m = Cardinality(DOMAIN tree')
  OBVIOUS
<1>10. e \in Nat /\ n \in Nat /\ m = n - e /\ freePages \in Nat
  BY <1>1, <1>4, <1>5, <1>9, FS_CardinalityType DEF Types
<1>11. need > freePages => e >= need - freePages
  BY <1>9 DEF Evicts, EvictsFor
<1>12. freePages + e - need \in Nat /\ freePages + e - need + m = freePages + n - need
  BY <1>10, <1>11
<1>13. TreeSlots = TreeSlots' \cup SlotsOf(S)
  BY <1>1, <1>2 DEF TreeSlots, SlotsOf
<1>14. TreeSlots' \cap SlotsOf(S) = {}
  BY <1>1, <1>2 DEF TreeSlots, SlotsOf, TreeOnce
<1> QED BY <1>3, <1>7, <1>8, <1>9, <1>12, <1>13, <1>14
-----------------------------------------------------------------------------
(* What a step of row r has to keep *)

PagesMoveBack(r) ==
    freePages' + Cardinality(DOMAIN tree)' + (PagesEnd(r)' - HandleLen(r)')
      = freePages + Cardinality(DOMAIN tree) + (PagesEnd(r) - HandleLen(r))

LEMMA RowLengths ==
    ASSUME SizesAssumption, TextAssumption, SlotInv, NEW r \in Row
    PROVE  HandleLen(r) \in Nat /\ PagesEnd(r) \in Nat /\ HandleLen(r) <= PagesEnd(r)
<1>1. CASE req[r] = NoReq
  BY <1>1 DEF HandleLen, PagesEnd
<1>2. CASE req[r] # NoReq
  <2>1. /\ HandleLen(r) \in Nat /\ PagesEnd(r) \in Nat /\ req[r].cached \in Nat
        /\ HandleLen(r) <= DivCeil(req[r].cached) /\ DivCeil(req[r].cached) <= PagesEnd(r)
    BY <1>2, RowIs
  <2>2. DivCeil(req[r].cached) \in Nat
    BY <2>1, DivCeilIs
  <2>3. \A d \in Nat : HandleLen(r) <= d /\ d <= PagesEnd(r) => HandleLen(r) <= PagesEnd(r)
    BY <2>1
  <2> QED BY <2>1, <2>2, <2>3
<1> QED BY <1>1, <1>2

LEMMA RowStep ==
    ASSUME SizesAssumption, TextAssumption, SlotInv, NEW r \in Row, OnlyRow(r),
           Types', TreeTypes', TreeOnce', Locks', SlotsMove(r), RowInv(r)', PagesMoveBack(r),
           HandleLen(r)' \in Nat, PagesEnd(r)' \in Nat, HandleLen(r)' <= PagesEnd(r)'
    PROVE  SlotInv'
<1>1. Apart'
  BY MovesApart DEF SlotInv
<1>2. \A q \in Row : RowInv(q)'
  <2>1. ASSUME NEW q \in Row, q # r PROVE RowInv(q)'
    BY <2>1, OtherRow DEF OnlyRow, SlotInv
  <2> QED BY <2>1
<1>3. PagesCounted'
  <2>1. IsFiniteSet(Allocated) /\ freePages + Cardinality(DOMAIN tree) + Cardinality(Allocated) = NumPages
    BY DEF SlotInv, PagesCounted
  <2>2. HandleLen(r) \in Nat /\ PagesEnd(r) \in Nat /\ HandleLen(r) <= PagesEnd(r)
    BY RowLengths
  <2>3. /\ IsFiniteSet(Allocated')
        /\ Cardinality(Allocated') = Cardinality(Allocated)
              - (PagesEnd(r) - HandleLen(r)) + (PagesEnd(r)' - HandleLen(r)')
    BY <2>1, <2>2, PagesMove
  <2>4. /\ Cardinality(Allocated) \in Nat /\ Cardinality(DOMAIN tree) \in Nat /\ freePages \in Nat
        /\ Cardinality(DOMAIN tree)' \in Nat /\ freePages' \in Nat
    BY <2>1, FS_CardinalityType DEF SlotInv, Types, TreeTypes
  <2>5. Cardinality(Allocated)' = Cardinality(Allocated')
    OBVIOUS
  <2>6. PICK a, b, h, h2, e, e2, t, t2, f, f2 :
          /\ a = Cardinality(Allocated) /\ b = Cardinality(Allocated')
          /\ h = HandleLen(r) /\ h2 = HandleLen(r)' /\ e = PagesEnd(r) /\ e2 = PagesEnd(r)'
          /\ t = Cardinality(DOMAIN tree) /\ t2 = Cardinality(DOMAIN tree)'
          /\ f = freePages /\ f2 = freePages'
    OBVIOUS
  <2>7. /\ a \in Nat /\ h \in Nat /\ h2 \in Nat /\ e \in Nat /\ e2 \in Nat
        /\ t \in Nat /\ t2 \in Nat /\ f \in Nat /\ f2 \in Nat
        /\ b = a - (e - h) + (e2 - h2) /\ f + t + a = NumPages
        /\ f2 + t2 + (e2 - h2) = f + t + (e - h)
    BY <2>1, <2>2, <2>3, <2>4, <2>6 DEF PagesMoveBack
  <2>8. f2 + t2 + b = NumPages
    BY <2>7
  <2> QED BY <2>3, <2>5, <2>6, <2>8 DEF PagesCounted
<1> QED BY <1>1, <1>2, <1>3 DEF SlotInv
-----------------------------------------------------------------------------
(* Allocation for a prefill or a decode step *)

(* The columns that get a slot: none behind the last one, every one that   *)
(* has none from the first page without.                                    *)
LEMMA UnsetAre ==
    ASSUME SizesAssumption, TextAssumption, SlotInv, NEW r \in Row, req[r] # NoReq,
           ~(speculating /\ req[r].running),
           NEW to \in Nat, req[r].cached < to, to < MaxLen(r)
    PROVE  /\ UnsetColumns(r, to) \subseteq Column
           /\ \A p \in UnsetColumns(r, to) :
                 /\ DivCeil(req[r].cached) <= p /\ p < DivCeil(to)
                 /\ HandleLen(r) <= p /\ table[r][p] = NoSlot
           /\ \A p \in Column : DivCeil(req[r].cached) <= p /\ p < DivCeil(to)
                                   => p \in UnsetColumns(r, to)
           /\ DivCeil(req[r].cached) \in Nat /\ DivCeil(to) \in Nat
           /\ DivCeil(req[r].cached) <= DivCeil(to)
<1>1. PICK c, h : c = req[r].cached /\ h = HandleLen(r)
  OBVIOUS
<1>2. PICK t : t = req[r].text
  OBVIOUS
<1>3. t \in Text /\ MaxLen(r) = Len(t) /\ Columns(r) /\ c \in Nat /\ h \in Nat /\ h <= c \div PageSize
  BY <1>1, <1>2, RowIs DEF MaxLen
<1>4. Column \subseteq Nat /\ Len(t) \in Nat
  <2>1. 0 \in 0 .. Len(t)
    BY <1>3, LenProperties DEF TextAssumption
  <2> QED BY <1>3, <2>1, ColumnsReach
<1>5. \A p \in Nat : p < DivCeil(to) => p \in Column
  <2>1. to \in 0 .. Len(t)
    BY <1>3, <1>4
  <2> QED BY <1>3, <2>1, ColumnsReach
<1>6. PICK first : first = (Lesser(c + KernelChunk, to) - 1) \div PageSize
  OBVIOUS
<1>7. first \in Nat /\ c \div PageSize <= first /\ first <= DivCeil(c)
  BY <1>1, <1>3, <1>6, FirstColumn
<1>8. PICK last : last = (to - 1) \div PageSize
  OBVIOUS
<1>9. last \in Nat /\ DivCeil(to) = last + 1
  <2>1. to \in Nat \ {0}
    BY <1>1, <1>3
  <2> QED BY <1>8, <2>1, LastPage
<1>10. UnsetColumns(r, to) = {p \in first .. last : table[r][p] = NoSlot}
  BY <1>1, <1>6, <1>8 DEF UnsetColumns
<1>11. DivCeil(c) \in Nat /\ c \div PageSize \in Nat /\ DivCeil(c) <= DivCeil(to)
  <2>1. c \in Nat /\ c <= to
    BY <1>1, <1>3
  <2> QED BY <2>1, DivCeilIs, DivCeilGrows
<1>12. ASSUME NEW p \in Column
       PROVE  /\ h <= p /\ p < DivCeil(c) => table[r][p] # NoSlot
              /\ DivCeil(c) <= p => table[r][p] = NoSlot
  <2>1. SlotsEnd(r) = DivCeil(c)
    BY <1>1 DEF SlotsEnd
  <2> QED BY <1>1, <1>3, <2>1 DEF Columns
<1>13. PICK d, e : d = DivCeil(c) /\ e = c \div PageSize
  OBVIOUS
<1>14. ASSUME NEW p \in UnsetColumns(r, to)
       PROVE  p \in Column /\ d <= p /\ p < DivCeil(to) /\ h <= p /\ table[r][p] = NoSlot
  <2>1. p \in Nat /\ first <= p /\ p <= last /\ table[r][p] = NoSlot
    BY <1>7, <1>9, <1>10
  <2>2. p < DivCeil(to) /\ h <= p
    BY <1>3, <1>7, <1>9, <1>11, <1>13, <2>1
  <2>3. p \in Column
    BY <1>5, <2>1, <2>2
  <2>4. ~(p < d)
    BY <1>12, <1>13, <2>1, <2>2, <2>3
  <2> QED BY <1>11, <1>13, <2>1, <2>2, <2>3, <2>4
<1>15. ASSUME NEW p \in Column, d <= p, p < DivCeil(to) PROVE p \in UnsetColumns(r, to)
  <2>1. p \in Nat /\ first <= p /\ p <= last
    <3>1. d \in Nat /\ first <= d
      BY <1>7, <1>11, <1>13
    <3>2. p \in Nat /\ p < last + 1
      BY <1>4, <1>9, <1>15
    <3> QED BY <1>7, <1>9, <1>15, <3>1, <3>2
  <2>2. table[r][p] = NoSlot
    BY <1>12, <1>13, <1>15
  <2> QED BY <1>7, <1>9, <1>10, <2>1, <2>2
<1> QED BY <1>1, <1>9, <1>11, <1>13, <1>14, <1>15

(* What a step assigns: the columns D of row r get the slots f. *)
Assigns(r, D, P, f) ==
    /\ f \in [D -> P] /\ \A p, q \in D : f[p] = f[q] => p = q
    /\ freeStates' = P \ {f[p] : p \in D}
    /\ table' = [table EXCEPT ![r] = [p \in Column |-> IF p \in D THEN f[p] ELSE table[r][p]]]

LEMMA AllocateIs ==
    ASSUME NEW r \in Row, NEW to, Allocate(r, to)
    PROVE  \E S, f : LET need == DivCeil(to) - DivCeil(req[r].cached) IN
              /\ Evicts(need, S) /\ freePages' = freePages + Cardinality(S) - need
              /\ Assigns(r, UnsetColumns(r, to), freeStates \cup SlotsOf(S), f)
<1> DEFINE need == DivCeil(to) - DivCeil(req[r].cached)
           columns == UnsetColumns(r, to)
           pool(S) == freeStates \cup {tree[k] : k \in S}
           given(S) == CHOOSE f \in Assignments(columns, pool(S)) : TRUE
<1>1. PICK S \in SUBSET Evictable(ref) :
         /\ EvictsFor(need, S)
         /\ Assignments(columns, pool(S)) # {}
         /\ tree' = Without(tree, S)
         /\ ref' = Without(ref, S)
         /\ freePages' = freePages + Cardinality(S) - need
         /\ freeStates' = pool(S) \ {given(S)[p] : p \in columns}
         /\ table' = [table EXCEPT ![r] =
               [p \in Column |-> IF p \in columns THEN given(S)[p] ELSE @[p]]]
  BY DEF Allocate
<1>2. PICK f : f = given(S)
  OBVIOUS
<1>3. f \in Assignments(columns, pool(S))
  BY <1>1, <1>2
<1>4. f \in [columns -> pool(S)] /\ \A p, q \in columns : f[p] = f[q] => p = q
  BY <1>3 DEF Assignments
<1>5. pool(S) = freeStates \cup SlotsOf(S)
  BY DEF SlotsOf
<1>6. /\ freeStates' = pool(S) \ {f[p] : p \in columns}
      /\ table' = [table EXCEPT ![r] = [p \in Column |-> IF p \in columns THEN f[p] ELSE table[r][p]]]
  BY <1>1, <1>2
<1>7. Assigns(r, columns, freeStates \cup SlotsOf(S), f)
  <2> HIDE DEF columns, pool, given
  <2> QED BY <1>4, <1>5, <1>6 DEF Assigns
<1>8. Evicts(need, S)
  BY <1>1 DEF Evicts
<1> QED BY <1>1, <1>7, <1>8

LEMMA AssignedMove ==
    ASSUME SizesAssumption, NothingAssumption, Types, Apart, NEW r \in Row, RowOnce(r),
           NEW D, D \subseteq Column, \A p \in D : HandleLen(r) <= p /\ table[r][p] = NoSlot,
           NEW G, TreeSlots = TreeSlots' \cup G, TreeSlots' \cap G = {},
           NEW f, Assigns(r, D, freeStates \cup G, f),
           HandleLen(r)' = HandleLen(r), reserve' = reserve, speculating' = speculating
    PROVE  /\ SlotsMove(r) /\ RowOnce(r)'
           /\ table' \in [Row -> [Column -> Slot \cup {NoSlot}]]
           /\ \A q \in Row : q # r => table'[q] = table[q]
           /\ \A p \in Column : /\ p \in D => table'[r][p] # NoSlot
                                /\ p \notin D => table'[r][p] = table[r][p]
<1>1. /\ f \in [D -> freeStates \cup G] /\ \A p, q \in D : f[p] = f[q] => p = q
      /\ freeStates' = (freeStates \cup G) \ {f[p] : p \in D}
      /\ table' = [table EXCEPT ![r] = [p \in Column |-> IF p \in D THEN f[p] ELSE table[r][p]]]
  BY DEF Assigns
<1>2. table \in [Row -> [Column -> Slot \cup {NoSlot}]] /\ reserve \in [Row -> [Candidate -> Slot]]
  BY DEF Types
<1>3. /\ freeStates \cup TreeSlots \subseteq AllSlots /\ AllSlots \subseteq Slot /\ NoSlot \notin AllSlots
  BY SlotsIn
<1>4. \A p \in D : f[p] \in freeStates \cup G /\ f[p] \in Slot /\ f[p] # NoSlot
  BY <1>1, <1>3
<1>5. /\ \A p \in Column : table'[r][p] = IF p \in D THEN f[p] ELSE table[r][p]
      /\ \A q \in Row : q # r => table'[q] = table[q]
  BY <1>1, <1>2
<1>6. table' \in [Row -> [Column -> Slot \cup {NoSlot}]]
  <2>1. [p \in Column |-> IF p \in D THEN f[p] ELSE table[r][p]] \in [Column -> Slot \cup {NoSlot}]
    BY <1>2, <1>4
  <2> QED BY <1>1, <1>2, <2>1
<1>7. Owned(r)' = Owned(r) \cup D /\ Owned(r) \cap D = {}
  BY <1>4, <1>5 DEF Owned
<1>8. PageSlots(r)' = PageSlots(r) \cup {f[p] : p \in D} /\ ReserveSlots(r)' = ReserveSlots(r)
  <2>1. \A p \in Owned(r) : table'[r][p] = table[r][p]
    BY <1>5, <1>7 DEF Owned
  <2>2. \A p \in D : table'[r][p] = f[p]
    BY <1>5
  <2> QED BY <1>7, <2>1, <2>2 DEF PageSlots, ReserveSlots, Candidate
<1>9. PICK F, T, T2, P, R, X : /\ F = freeStates /\ T = TreeSlots /\ T2 = TreeSlots' /\ P = PageSlots(r)
                              /\ R = ReserveSlots(r) /\ X = {f[p] : p \in D}
  OBVIOUS
<1>10. Disjoint(F, T, P, R) /\ X \subseteq F \cup G /\ T = T2 \cup G /\ T2 \cap G = {}
  <2>1. Disjoint(F, T, P, R)
    BY <1>9 DEF Apart
  <2>2. X \subseteq F \cup G
    BY <1>1, <1>9
  <2> QED BY <1>9, <2>1, <2>2
<1>11. /\ freeStates' = (F \cup G) \ X /\ TreeSlots' = T2
       /\ PageSlots(r)' = P \cup X /\ ReserveSlots(r)' = R /\ RowSlots(r) = P \cup R
       /\ RowSlots(r)' = P \cup X \cup R
  BY <1>1, <1>8, <1>9 DEF RowSlots
<1>12. Disjoint((F \cup G) \ X, T2, P \cup X, R)
  BY <1>10 DEF Disjoint
<1>13. ((F \cup G) \ X) \cup T2 \cup (P \cup X \cup R) = F \cup T \cup (P \cup R)
  BY <1>10
<1>14. SlotsMove(r)
  BY <1>9, <1>11, <1>12, <1>13 DEF SlotsMove
<1>15. RowOnce(r)'
  <2>1. ASSUME NEW p \in Owned(r)', NEW q \in Owned(r)', table'[r][p] = table'[r][q] PROVE p = q
    <3>1. \A x \in D : table'[r][x] = f[x] /\ f[x] \notin P
      BY <1>5, <1>9, <1>10 DEF Disjoint
    <3>2. \A x \in Owned(r) : table'[r][x] = table[r][x] /\ table[r][x] \in P
      BY <1>5, <1>7, <1>9 DEF Owned, PageSlots
    <3>3. CASE p \in D /\ q \in D
      BY <1>1, <2>1, <3>1, <3>3
    <3>4. CASE p \in Owned(r) /\ q \in Owned(r)
      BY <2>1, <3>2, <3>4 DEF RowOnce
    <3>5. CASE ~(p \in D <=> q \in D)
      BY <1>7, <2>1, <3>1, <3>2, <3>5
    <3> QED BY <1>7, <3>3, <3>4, <3>5
  <2>2. \A i, j \in Candidate' : reserve'[r][i] = reserve'[r][j] => i = j
    BY DEF RowOnce, Candidate
  <2> QED BY <2>1, <2>2 DEF RowOnce
<1> QED BY <1>4, <1>5, <1>6, <1>14, <1>15

(* A row's request changes, but for its handle. *)
LEMMA RequestStep ==
    ASSUME Types, NEW r \in Row, req[r] # NoReq, NEW x \in Request, req' = [req EXCEPT ![r] = x],
           x.handle = req[r].handle, NothingAssumption
    PROVE  /\ req' = [q \in Row |-> req'[q]] /\ \A q \in Live' : req'[q] \in Request
           /\ req'[r] = x /\ \A q \in Row : q # r => req'[q] = req[q]
           /\ req'[r] # NoReq /\ Live' = Live /\ HandleLen(r)' = HandleLen(r)
           /\ \A u \in Live : req'[u].handle = req[u].handle
<1>1. /\ req = [q \in Row |-> req[q]] /\ x # NoReq
      /\ \A q \in Live : req[q] \in Request
  BY DEF Types, NothingAssumption
<1>2. PICK f : f = req
  OBVIOUS
<1>3. /\ req' = [q \in Row |-> IF q = r THEN x ELSE req[q]]
      /\ req'[r] = x /\ \A q \in Row : q # r => req'[q] = req[q]
  BY <1>1
<1>4. Live' = Live
  BY <1>1, <1>3 DEF Live
<1>5. \A q \in Live' : req'[q] \in Request
  BY <1>1, <1>3, <1>4 DEF Live
<1>6. HandleLen(r)' = HandleLen(r)
  BY <1>1, <1>3 DEF HandleLen
<1>7. \A u \in Live : req'[u].handle = req[u].handle
  BY <1>3 DEF Live
<1> QED BY <1>1, <1>3, <1>4, <1>5, <1>6, <1>7

(* A prefill or decode step that allocates up to token `to`. *)
AllocatesTo(r, to) ==
    /\ req[r] # NoReq /\ ~(speculating /\ req[r].running) /\ req[r].inflight = 0
    /\ req[r].cached < to /\ to < MaxLen(r)
    /\ Allocate(r, to)
    /\ req' = [req EXCEPT ![r] = [req[r] EXCEPT !.cached = to]]
    /\ reserve' = reserve /\ speculating' = speculating

LEMMA AllocationKeeps ==
    ASSUME SizesAssumption, TextAssumption, NothingAssumption, SlotInv, NEW r \in Row,
           NEW to \in Nat, AllocatesTo(r, to)
    PROVE  SlotInv'
<1>1. PICK c, d, e, h, need :
         /\ c = req[r].cached /\ d = DivCeil(c) /\ e = DivCeil(to) /\ h = HandleLen(r)
         /\ need = e - d
  OBVIOUS
<1>2. /\ Lengths(r) /\ Columns(r) /\ RowOnce(r) /\ req[r] \in Request
      /\ c \in Nat /\ h \in Nat /\ h <= d /\ PagesEnd(r) = DivCeil(AllocatedLen(r))
      /\ req[r].text \in Text
  BY <1>1, RowIs DEF AllocatesTo
<1>3. /\ UnsetColumns(r, to) \subseteq Column
      /\ \A p \in UnsetColumns(r, to) : /\ d <= p /\ p < e
                                        /\ h <= p /\ table[r][p] = NoSlot
      /\ \A p \in Column : d <= p /\ p < e => p \in UnsetColumns(r, to)
      /\ d \in Nat /\ e \in Nat /\ d <= e
  BY <1>1, UnsetAre DEF AllocatesTo
<1>4. need \in Nat
  <2>1. d \in Nat /\ e \in Nat /\ d <= e
    BY <1>3
  <2> QED BY <1>1, <2>1, SMTT(30)
<1>5. PICK S, f : /\ Evicts(need, S) /\ freePages' = freePages + Cardinality(S) - need
                  /\ Assigns(r, UnsetColumns(r, to), freeStates \cup SlotsOf(S), f)
  BY <1>1, AllocateIs DEF AllocatesTo
<1>6. Types /\ TreeTypes /\ TreeOnce /\ Locks /\ Apart
  BY DEF SlotInv
<1>7. /\ TreeTypes' /\ TreeOnce' /\ Held(Live, req, tree', ref')
      /\ freePages + Cardinality(S) - need \in Nat
      /\ freePages + Cardinality(S) - need + Cardinality(DOMAIN tree')
           = freePages + Cardinality(DOMAIN tree) - need
      /\ TreeSlots = TreeSlots' \cup SlotsOf(S)
      /\ TreeSlots' \cap SlotsOf(S) = {}
  BY <1>4, <1>5, <1>6, EvictionIs
<1>8. PICK x : x = [req[r] EXCEPT !.cached = to]
  OBVIOUS
<1>9. /\ x \in Request /\ x.handle = req[r].handle /\ x.cached = to /\ x.text = req[r].text
      /\ x.running = req[r].running /\ x.inflight = 0 /\ x.accepted = req[r].accepted
  BY <1>2, <1>8 DEF Request, AllocatesTo
<1>10. /\ req' = [q \in Row |-> req'[q]] /\ \A q \in Live' : req'[q] \in Request
       /\ req'[r] = x /\ \A q \in Row : q # r => req'[q] = req[q]
       /\ req'[r] # NoReq /\ Live' = Live /\ HandleLen(r)' = HandleLen(r)
       /\ \A u \in Live : req'[u].handle = req[u].handle
  BY <1>6, <1>8, <1>9, RequestStep DEF AllocatesTo
<1>11. PICK D, G : D = UnsetColumns(r, to) /\ G = SlotsOf(S)
  OBVIOUS
<1>12. /\ SlotsMove(r) /\ RowOnce(r)'
       /\ table' \in [Row -> [Column -> Slot \cup {NoSlot}]]
       /\ \A q \in Row : q # r => table'[q] = table[q]
       /\ \A p \in Column : /\ p \in D => table'[r][p] # NoSlot
                            /\ p \notin D => table'[r][p] = table[r][p]
  <2>1. D \subseteq Column /\ \A p \in D : HandleLen(r) <= p /\ table[r][p] = NoSlot
    BY <1>1, <1>3, <1>11
  <2>2. Assigns(r, D, freeStates \cup G, f) /\ TreeSlots = TreeSlots' \cup G /\ TreeSlots' \cap G = {}
    BY <1>5, <1>7, <1>11
  <2>3. /\ Types /\ Apart /\ RowOnce(r) /\ HandleLen(r)' = HandleLen(r)
        /\ reserve' = reserve /\ speculating' = speculating
    BY <1>2, <1>6, <1>10 DEF AllocatesTo
  <2> QED BY <2>1, <2>2, <2>3, AssignedMove, Zenon
<1>13. OnlyRow(r)
  BY <1>10, <1>12 DEF OnlyRow, AllocatesTo
<1>14. Types'
  <2>1. reserve' \in [Row -> [Candidate' -> Slot]] /\ speculating' \in BOOLEAN
    BY <1>6 DEF Types, Candidate, AllocatesTo
  <2>2. freePages' \in Nat
    BY <1>5, <1>7
  <2> QED BY <1>10, <1>12, <2>1, <2>2 DEF Types
<1>15. Locks'
  <2>1. Held(Live, req', tree', ref')
    <3> PICK L, q2, q1, t2, c2 : L = Live /\ q2 = req' /\ q1 = req /\ t2 = tree' /\ c2 = ref'
      OBVIOUS
    <3>1. Held(L, q1, t2, c2) /\ \A u \in L : q2[u].handle = q1[u].handle
      BY <1>7, <1>10
    <3> QED BY <3>1, SameHandles
  <2> QED BY <1>10, <2>1 DEF Locks
<1>16. SlotsEnd(r)' = e /\ HandleLen(r)' = h /\ PagesEnd(r)' = e /\ PagesEnd(r) = d
  <2>1. AllocatedLen(r) = c /\ AllocatedLen(r)' = to
    BY <1>1, <1>2, <1>9, <1>10 DEF AllocatedLen, AllocatesTo
  <2> QED BY <1>1, <1>2, <1>9, <1>10, <2>1 DEF SlotsEnd, PagesEnd, AllocatesTo
<1>17. Columns(r)'
  <2>1. ASSUME NEW p \in Column
        PROVE  /\ h <= p /\ p < e => table'[r][p] # NoSlot
               /\ e <= p => table'[r][p] = NoSlot
    <3>1. /\ h <= p /\ p < d => table[r][p] # NoSlot
          /\ d <= p => table[r][p] = NoSlot
      BY <1>1, <1>2 DEF Columns, SlotsEnd, AllocatesTo
    <3>2. p \in Nat
      BY DEF Column
    <3>3. p \in D <=> d <= p /\ p < e
      BY <1>3, <1>11
    <3> QED BY <1>3, <1>12, <3>1, <3>2, <3>3
  <2>2. DivCeil(req[r].cached)' = e
    BY <1>1, <1>9, <1>10
  <2> HIDE DEF Column
  <2> QED BY <1>10, <1>16, <2>1, <2>2 DEF Columns
<1>18. Lengths(r)'
  <2>1. Len(req[r].handle) * PageSize <= to
    <3>1. PICK m : m = Len(req[r].handle) * PageSize
      OBVIOUS
    <3>2. m <= c /\ m \in Nat
      BY <1>1, <1>2, <3>1, RowIs, WholePages DEF Lengths
    <3>3. c < to /\ c \in Nat
      BY <1>1, <1>2 DEF AllocatesTo
    <3>4. m <= to
      BY <3>2, <3>3
    <3> QED BY <3>1, <3>4
  <2>2. to < MaxLen(r)' /\ to + 0 < MaxLen(r)' /\ to > 0
    BY <1>1, <1>2, <1>9, <1>10 DEF MaxLen, AllocatesTo
  <2> QED BY <1>2, <1>9, <1>10, <2>1, <2>2 DEF Lengths, AllocatesTo
<1>19. RowInv(r)'
  BY <1>12, <1>17, <1>18 DEF RowInv
<1>20. PagesMoveBack(r)
  <2>1. PICK s, t, t2, v : s = Cardinality(S) /\ t = Cardinality(DOMAIN tree) /\ t2 = Cardinality(DOMAIN tree') /\ v = freePages
    OBVIOUS
  <2>2. s \in Int /\ t \in Nat /\ t2 \in Nat /\ v \in Nat
    <3>1. S \subseteq DOMAIN tree
      BY <1>5, <1>6 DEF Evicts, Evictable, Locks, Held
    <3>2. IsFiniteSet(S) /\ IsFiniteSet(DOMAIN tree')
      BY <1>6, <1>7, <3>1, FS_Subset DEF TreeTypes
    <3> QED BY <1>6, <2>1, <3>2, FS_CardinalityType DEF TreeTypes, Types
  <2>3. freePages' = v + s - need /\ v + s - need + t2 = v + t - need
    BY <1>5, <1>7, <2>1
  <2>4. v + s - need + t2 + (e - h) = v + t + (d - h)
    <3>1. need = e - d /\ h \in Int /\ d \in Int /\ e \in Int
      BY <1>1, <1>2, <1>3
    <3>2. v + s - (e - d) + t2 = v + t - (e - d)
      BY <2>3, <3>1
    <3>3. v + s - (e - d) + t2 + (e - h) = v + t + (d - h)
      BY <2>2, <3>1, <3>2
    <3> QED BY <3>1, <3>3
  <2> QED BY <1>1, <1>16, <2>1, <2>3, <2>4 DEF PagesMoveBack
<1>21. HandleLen(r)' \in Nat /\ PagesEnd(r)' \in Nat /\ HandleLen(r)' <= PagesEnd(r)'
  BY <1>2, <1>3, <1>16
<1> QED BY <1>7, <1>12, <1>13, <1>14, <1>15, <1>19, <1>20, <1>21, RowStep

LEMMA PrefillKeeps ==
    ASSUME SizesAssumption, TextAssumption, NothingAssumption, SlotInv,
           NEW r \in Row, NEW to \in Nat, Prefill(r, to)
    PROVE  SlotInv'
<1>1. /\ req[r] # NoReq /\ ~req[r].running /\ to \in req[r].cached + 1 .. PromptLen(r)
      /\ Allocate(r, to) /\ req' = [req EXCEPT ![r].cached = to]
      /\ reserve' = reserve /\ speculating' = speculating
  BY DEF Prefill
<1>2. /\ Lengths(r) /\ req[r].cached \in Nat /\ req[r].inflight \in Nat
      /\ PromptLen(r) \in Nat /\ MaxLen(r) \in Nat /\ PromptLen(r) < MaxLen(r)
  BY <1>1, RowIs
<1>3. req[r].inflight = 0
  <2>1. req[r].inflight > 0 => req[r].running
    BY <1>2 DEF Lengths
  <2>2. \A i \in Nat : ~(i > 0) => i = 0
    OBVIOUS
  <2> QED BY <1>1, <1>2, <2>1, <2>2
<1>4. req[r].cached < to /\ to < MaxLen(r)
  <2>1. PICK c, n, m : c = req[r].cached /\ n = PromptLen(r) /\ m = MaxLen(r)
    OBVIOUS
  <2>2. c \in Nat /\ n \in Nat /\ m \in Nat /\ to \in c + 1 .. n /\ n < m
    BY <1>1, <1>2, <2>1
  <2>3. c < to /\ to < m
    BY <2>2
  <2> QED BY <2>1, <2>3
<1>5. AllocatesTo(r, to)
  BY <1>1, <1>3, <1>4 DEF AllocatesTo
<1> QED BY <1>5, AllocationKeeps

LEMMA DecodeKeeps ==
    ASSUME SizesAssumption, TextAssumption, NothingAssumption, SlotInv,
           NEW r \in Row, Decode(r)
    PROVE  SlotInv'
<1>1. /\ req[r] # NoReq /\ ~speculating /\ req[r].cached + 1 < MaxLen(r)
      /\ Allocate(r, req[r].cached + 1) /\ req' = [req EXCEPT ![r].cached = @ + 1]
      /\ reserve' = reserve /\ speculating' = speculating
  BY DEF Decode
<1>2. Lengths(r) /\ req[r].cached \in Nat /\ req[r].inflight \in Nat
  BY <1>1, RowIs
<1>3. req[r].inflight = 0
  BY <1>1, <1>2 DEF Lengths
<1>4. PICK to : to = req[r].cached + 1
  OBVIOUS
<1>5. to \in Nat /\ req[r].cached < to
  <2>1. \A c \in Nat : c + 1 \in Nat /\ c < c + 1
    OBVIOUS
  <2> QED BY <1>2, <1>4, <2>1
<1>6. req' = [req EXCEPT ![r] = [req[r] EXCEPT !.cached = to]]
  BY <1>1, <1>4
<1>7. AllocatesTo(r, to)
  BY <1>1, <1>3, <1>4, <1>5, <1>6 DEF AllocatesTo
<1> QED BY <1>5, <1>7, AllocationKeeps
-----------------------------------------------------------------------------
(* Verify rounds *)

LEMMA LaunchKeeps ==
    ASSUME SizesAssumption, TextAssumption, NothingAssumption, SlotInv,
           NEW r \in Row, NEW accepted \in 1 .. Drafts + 1, LaunchVerify(r, accepted)
    PROVE  SlotInv'
<1> DEFINE N == Lesser(Drafts + 1, MaxLen(r) - req[r].cached - 1)
           Base == IF req[r].baseline = NoSlot THEN PageSlot(r, req[r].cached) ELSE req[r].baseline
<1>1. /\ speculating /\ req[r] # NoReq /\ req[r].running /\ req[r].inflight = 0
      /\ accepted \in 1 .. N
      /\ AllocatePages(r, req[r].cached + N)
      /\ req' = [req EXCEPT ![r].inflight = N, ![r].accepted = accepted, ![r].baseline = Base]
      /\ speculating' = speculating /\ table' = table /\ reserve' = reserve
  BY DEF LaunchVerify
<1>2. PICK n, b, c, m : n = N /\ b = Base /\ c = req[r].cached /\ m = MaxLen(r)
  OBVIOUS
<1>3. /\ Lengths(r) /\ Columns(r) /\ RowOnce(r) /\ req[r] \in Request /\ HandleLen(r) \in Nat
      /\ c \in Nat /\ m \in Nat /\ HandleLen(r) <= DivCeil(c) /\ c > 0 /\ c < m
      /\ PagesEnd(r) = DivCeil(AllocatedLen(r)) /\ req[r].text \in Text /\ m = Len(req[r].text)
      /\ req[r].baseline \in Slot \cup {NoSlot}
  BY <1>1, <1>2, RowIs DEF Lengths, MaxLen
<1>4. n \in Nat /\ accepted \in 1 .. n /\ n <= Drafts + 1 /\ c + n < m
  <2>1. Drafts \in Nat /\ c \in Nat /\ m \in Nat
    BY <1>3 DEF SizesAssumption
  <2>2. n = Lesser(Drafts + 1, m - c - 1)
    BY <1>2
  <2>3. n \in Int /\ n <= Drafts + 1 /\ n <= m - c - 1
    BY <2>1, <2>2 DEF Lesser
  <2>4. accepted \in 1 .. n
    BY <1>1, <1>2
  <2> QED BY <2>1, <2>3, <2>4
<1>5. b \in Slot \cup {NoSlot}
  <2>1. CASE req[r].baseline # NoSlot
    BY <1>2, <1>3, <2>1
  <2>2. CASE req[r].baseline = NoSlot
    <3>1. b = table[r][(c - 1) \div PageSize]
      BY <1>2, <2>2 DEF PageSlot
    <3>2. c \in 0 .. Len(req[r].text)
      BY <1>3
    <3>3. \A p \in Nat : p < DivCeil(c) => p \in Column
      BY <1>3, <3>2, ColumnsReach
    <3>4. (c - 1) \div PageSize \in Nat /\ DivCeil(c) = (c - 1) \div PageSize + 1
      <4>1. c \in Nat \ {0}
        BY <1>3
      <4> QED BY <4>1, LastPage
    <3>5. (c - 1) \div PageSize \in Column
      BY <3>3, <3>4
    <3> QED BY <3>1, <3>5 DEF SlotInv, Types
  <2> QED BY <2>1, <2>2
<1> HIDE DEF N, Base
<1>6. PICK d, e, h, need : d = DivCeil(c) /\ e = DivCeil(c + n) /\ h = HandleLen(r) /\ need = e - d
  OBVIOUS
<1>7. d \in Nat /\ e \in Nat /\ d <= e /\ need \in Nat /\ h \in Nat /\ h <= d
  <2>1. c + n \in Nat /\ c <= c + n
    BY <1>3, <1>4
  <2>2. d \in Nat /\ e \in Nat /\ d <= e
    BY <1>3, <1>6, <2>1, DivCeilIs, DivCeilGrows
  <2>3. need = e - d /\ h \in Nat /\ h <= d
    BY <1>3, <1>6
  <2> QED BY <2>2, <2>3
<1>8. PICK S \in SUBSET Evictable(ref) :
         /\ EvictsFor(need, S)
         /\ tree' = Without(tree, S)
         /\ ref' = Without(ref, S)
         /\ freePages' = freePages + Cardinality(S) - need
         /\ freeStates' = freeStates \cup SlotsOf(S)
  BY <1>1, <1>2, <1>6 DEF AllocatePages, SlotsOf
<1>9. Types /\ TreeTypes /\ TreeOnce /\ Locks /\ Apart
  BY DEF SlotInv
<1>10. /\ TreeTypes' /\ TreeOnce' /\ Held(Live, req, tree', ref')
       /\ freePages + Cardinality(S) - need \in Nat
       /\ freePages + Cardinality(S) - need + Cardinality(DOMAIN tree')
            = freePages + Cardinality(DOMAIN tree) - need
       /\ TreeSlots = TreeSlots' \cup SlotsOf(S)
       /\ TreeSlots' \cap SlotsOf(S) = {}
  <2>1. Evicts(need, S)
    BY <1>8 DEF Evicts
  <2> QED BY <1>7, <1>9, <2>1, EvictionIs
<1>11. PICK x : x = [req[r] EXCEPT !.inflight = n, !.accepted = accepted, !.baseline = b]
  OBVIOUS
<1>12. /\ x \in Request /\ x.handle = req[r].handle /\ x.cached = c /\ x.text = req[r].text
       /\ x.running /\ x.inflight = n /\ x.accepted = accepted
  <2>1. /\ req[r] \in Request /\ n \in Nat /\ accepted \in Nat /\ b \in Slot \cup {NoSlot}
        /\ req[r].running /\ req[r].cached = c
    BY <1>1, <1>2, <1>3, <1>4, <1>5
  <2> QED BY <1>11, <2>1 DEF Request
<1>13. req' = [req EXCEPT ![r] = x]
  BY <1>1, <1>2, <1>11
<1>14. /\ req' = [q \in Row |-> req'[q]] /\ \A q \in Live' : req'[q] \in Request
       /\ req'[r] = x /\ \A q \in Row : q # r => req'[q] = req[q]
       /\ req'[r] # NoReq /\ Live' = Live /\ HandleLen(r)' = HandleLen(r)
       /\ \A u \in Live : req'[u].handle = req[u].handle
  BY <1>1, <1>9, <1>12, <1>13, RequestStep
<1>15. OnlyRow(r)
  BY <1>1, <1>14 DEF OnlyRow
<1>16. Types'
  <2>1. reserve' \in [Row -> [Candidate' -> Slot]] /\ speculating' \in BOOLEAN /\ table' \in [Row -> [Column -> Slot \cup {NoSlot}]]
    BY <1>1, <1>9 DEF Types, Candidate
  <2>2. freePages' \in Nat
    BY <1>8, <1>10
  <2> QED BY <1>14, <2>1, <2>2 DEF Types
<1>17. Locks'
  <2>1. Held(Live, req', tree', ref')
    <3> PICK L, q2, q1, t2, c2 : L = Live /\ q2 = req' /\ q1 = req /\ t2 = tree' /\ c2 = ref'
      OBVIOUS
    <3>1. Held(L, q1, t2, c2) /\ \A u \in L : q2[u].handle = q1[u].handle
      BY <1>10, <1>14
    <3> QED BY <3>1, SameHandles
  <2> QED BY <1>14, <2>1 DEF Locks
<1>18. Owned(r)' = Owned(r) /\ PageSlots(r)' = PageSlots(r) /\ ReserveSlots(r)' = ReserveSlots(r)
  BY <1>1, <1>14 DEF Owned, PageSlots, ReserveSlots, Candidate
<1>19. SlotsMove(r)
  <2>1. PICK F, T, T2, P, R, G : /\ F = freeStates /\ T = TreeSlots /\ T2 = TreeSlots' /\ P = PageSlots(r)
                                 /\ R = ReserveSlots(r) /\ G = SlotsOf(S)
    OBVIOUS
  <2>2. Disjoint(F, T, P, R) /\ T = T2 \cup G /\ T2 \cap G = {}
    BY <1>9, <1>10, <2>1 DEF Apart
  <2>3. /\ freeStates' = F \cup G /\ TreeSlots' = T2 /\ PageSlots(r)' = P /\ ReserveSlots(r)' = R
        /\ RowSlots(r)' = P \cup R /\ RowSlots(r) = P \cup R
    BY <1>8, <1>18, <2>1 DEF RowSlots
  <2>4. Disjoint(F \cup G, T2, P, R)
    BY <2>2 DEF Disjoint
  <2>5. (F \cup G) \cup T2 \cup (P \cup R) = F \cup T \cup (P \cup R)
    BY <2>2
  <2> QED BY <2>1, <2>3, <2>4, <2>5 DEF SlotsMove
<1>20. RowOnce(r)'
  BY <1>1, <1>3, <1>18 DEF RowOnce, Candidate
<1>21. Columns(r)'
  <2>1. SlotsEnd(r)' = SlotsEnd(r) /\ DivCeil(req[r].cached)' = DivCeil(req[r].cached)
    BY <1>1, <1>2, <1>12, <1>14 DEF SlotsEnd
  <2> QED BY <1>1, <1>3, <1>14, <2>1 DEF Columns
<1>22. Lengths(r)'
  <2>1. /\ c < m /\ n <= Drafts + 1 /\ c + n < m /\ accepted <= n /\ accepted > 0 /\ c > 0
    BY <1>3, <1>4
  <2>2. MaxLen(r)' = m
    BY <1>2, <1>12, <1>14 DEF MaxLen
  <2>3. /\ req[r].handle = SubSeq(Blocks(req[r].text), 1, Len(req[r].handle))
        /\ Len(req[r].handle) * PageSize <= c
    BY <1>2, <1>3 DEF Lengths
  <2> QED BY <1>1, <1>12, <1>14, <2>1, <2>2, <2>3 DEF Lengths
<1>23. RowInv(r)'
  BY <1>20, <1>21, <1>22 DEF RowInv
<1>24. HandleLen(r)' = h /\ PagesEnd(r)' = e /\ PagesEnd(r) = d
  <2>1. AllocatedLen(r) = c /\ AllocatedLen(r)' = c + n
    BY <1>1, <1>2, <1>3, <1>12, <1>14 DEF AllocatedLen
  <2> QED BY <1>3, <1>6, <1>14, <2>1 DEF PagesEnd
<1>25. PagesMoveBack(r)
  <2>1. PICK s, t, t2, v : s = Cardinality(S) /\ t = Cardinality(DOMAIN tree) /\ t2 = Cardinality(DOMAIN tree') /\ v = freePages
    OBVIOUS
  <2>2. s \in Int /\ t \in Nat /\ t2 \in Nat /\ v \in Nat
    <3>1. S \subseteq DOMAIN tree
      BY <1>8, <1>9 DEF Evictable, Locks, Held
    <3>2. IsFiniteSet(S) /\ IsFiniteSet(DOMAIN tree')
      BY <1>9, <1>10, <3>1, FS_Subset DEF TreeTypes
    <3> QED BY <1>9, <2>1, <3>2, FS_CardinalityType DEF TreeTypes, Types
  <2>3. freePages' = v + s - need /\ v + s - need + t2 = v + t - need
    BY <1>8, <1>10, <2>1
  <2>4. v + s - need + t2 + (e - h) = v + t + (d - h)
    <3>1. need = e - d /\ h \in Int /\ d \in Int /\ e \in Int
      BY <1>6, <1>7
    <3>2. v + s - (e - d) + t2 = v + t - (e - d)
      BY <2>3, <3>1
    <3>3. v + s - (e - d) + t2 + (e - h) = v + t + (d - h)
      BY <2>2, <3>1, <3>2
    <3> QED BY <3>1, <3>3
  <2>5. freePages' + Cardinality(DOMAIN tree') + (e - h) = freePages + Cardinality(DOMAIN tree) + (d - h)
    BY <2>1, <2>3, <2>4
  <2>6. HandleLen(r) = h
    BY <1>6
  <2> QED BY <1>24, <2>5, <2>6 DEF PagesMoveBack
<1>26. HandleLen(r)' \in Nat /\ PagesEnd(r)' \in Nat /\ HandleLen(r)' <= PagesEnd(r)'
  BY <1>7, <1>24
<1> QED BY <1>10, <1>15, <1>16, <1>17, <1>19, <1>23, <1>25, <1>26, RowStep
-----------------------------------------------------------------------------
(* Every slot is in one place *)

OwnedCells    == {cell \in Row \X Column : cell[2] \in Owned(cell[1])}
TreePlaces    == {<<"tree", k>> : k \in DOMAIN tree}
PagePlaces    == {<<"page", x[1], x[2]>> : x \in OwnedCells}
ReservePlaces == {<<"reserve", x[1], x[2]>> : x \in Row \X Candidate}

LEMMA PlaceKinds ==
    ASSUME SizesAssumption, TextAssumption, SlotInv
    PROVE  /\ Places = TreePlaces \cup PagePlaces \cup ReservePlaces
           /\ \A k \in DOMAIN tree : SlotAt(<<"tree", k>>) = tree[k]
           /\ \A r \in Row, p \in Column : SlotAt(<<"page", r, p>>) = table[r][p]
           /\ \A r \in Row, j \in Candidate : SlotAt(<<"reserve", r, j>>) = reserve[r][j]
<1>1. {y \in Live \X Column : y[2] >= Len(req[y[1]].handle) /\ table[y[1]][y[2]] # NoSlot} = OwnedCells
  <2>1. ASSUME NEW r \in Row, NEW p \in Column
        PROVE  p \in Owned(r) <=> r \in Live /\ p >= Len(req[r].handle) /\ table[r][p] # NoSlot
    <3>1. CASE req[r] = NoReq
      <4>1. Owned(r) = {}
        BY <3>1, EmptyRow DEF SlotInv, RowInv
      <4> QED BY <3>1, <4>1 DEF Live
    <3>2. CASE req[r] # NoReq
      BY <3>2 DEF Owned, HandleLen, Live
    <3> QED BY <3>1, <3>2
  <2> QED BY <2>1 DEF OwnedCells, Live
<1>2. Places = TreePlaces \cup PagePlaces \cup ReservePlaces
  BY <1>1 DEF Places, TreePlaces, PagePlaces, ReservePlaces
<1> QED BY <1>2 DEF SlotAt

LEMMA PlacesOnce ==
    ASSUME SizesAssumption, TextAssumption, SlotInv
    PROVE  \A a, b \in Places : SlotAt(a) = SlotAt(b) => a = b
<1>1. /\ Places = TreePlaces \cup PagePlaces \cup ReservePlaces
      /\ \A k \in DOMAIN tree : SlotAt(<<"tree", k>>) = tree[k]
      /\ \A r \in Row, p \in Column : SlotAt(<<"page", r, p>>) = table[r][p]
      /\ \A r \in Row, j \in Candidate : SlotAt(<<"reserve", r, j>>) = reserve[r][j]
  BY PlaceKinds
<1>2. Apart /\ TreeOnce /\ \A r \in Row : RowOnce(r)
  BY DEF SlotInv, RowInv
<1> DEFINE S(a) == SlotAt(a)
<1>3. ASSUME NEW a \in TreePlaces PROVE \E k \in DOMAIN tree : a = <<"tree", k>> /\ S(a) = tree[k] /\ S(a) \in TreeSlots
  BY <1>1 DEF TreePlaces, TreeSlots
<1>4. ASSUME NEW a \in PagePlaces
      PROVE  \E r \in Row, p \in Column : /\ a = <<"page", r, p>> /\ p \in Owned(r) /\ S(a) = table[r][p]
                                          /\ S(a) \in PageSlots(r) /\ S(a) \in RowSlots(r)
  BY <1>1 DEF PagePlaces, OwnedCells, PageSlots, RowSlots
<1>5. ASSUME NEW a \in ReservePlaces
      PROVE  \E r \in Row, j \in Candidate : /\ a = <<"reserve", r, j>> /\ S(a) = reserve[r][j]
                                             /\ S(a) \in ReserveSlots(r) /\ S(a) \in RowSlots(r)
  BY <1>1 DEF ReservePlaces, ReserveSlots, RowSlots
<1>6. \A r \in Row : /\ PageSlots(r) \cap ReserveSlots(r) = {} /\ TreeSlots \cap RowSlots(r) = {}
                     /\ \A q \in Row : q # r => RowSlots(q) \cap RowSlots(r) = {}
  BY <1>2 DEF Apart, Disjoint, RowSlots
<1> HIDE DEF S
<1>7. SUFFICES ASSUME NEW a \in Places, NEW b \in Places, S(a) = S(b) PROVE a = b
  BY DEF S
<1>8. CASE a \in TreePlaces /\ b \in TreePlaces
  BY <1>2, <1>3, <1>7, <1>8 DEF TreeOnce
<1>9. CASE a \in PagePlaces /\ b \in PagePlaces
  BY <1>2, <1>4, <1>6, <1>7, <1>9 DEF RowOnce
<1>10. CASE a \in ReservePlaces /\ b \in ReservePlaces
  BY <1>2, <1>5, <1>6, <1>7, <1>10 DEF RowOnce
<1>11. CASE a \in TreePlaces /\ b \in PagePlaces \cup ReservePlaces
  BY <1>3, <1>4, <1>5, <1>6, <1>7, <1>11
<1>12. CASE b \in TreePlaces /\ a \in PagePlaces \cup ReservePlaces
  BY <1>3, <1>4, <1>5, <1>6, <1>7, <1>12
<1>13. CASE a \in PagePlaces /\ b \in ReservePlaces
  BY <1>4, <1>5, <1>6, <1>7, <1>13
<1>14. CASE b \in PagePlaces /\ a \in ReservePlaces
  BY <1>4, <1>5, <1>6, <1>7, <1>14
<1> QED BY <1>1, <1>7, <1>8, <1>9, <1>10, <1>11, <1>12, <1>13, <1>14

LEMMA UsedAre ==
    ASSUME SizesAssumption, TextAssumption, SlotInv
    PROVE  UsedSlots = TreeSlots \cup UNION {RowSlots(r) : r \in Row}
<1> DEFINE All == TreeSlots \cup UNION {RowSlots(r) : r \in Row}
<1>1. /\ Places = TreePlaces \cup PagePlaces \cup ReservePlaces
      /\ \A k \in DOMAIN tree : SlotAt(<<"tree", k>>) = tree[k]
      /\ \A r \in Row, p \in Column : SlotAt(<<"page", r, p>>) = table[r][p]
      /\ \A r \in Row, j \in Candidate : SlotAt(<<"reserve", r, j>>) = reserve[r][j]
  BY PlaceKinds
<1>2. ASSUME NEW a \in TreePlaces PROVE SlotAt(a) \in All
  BY <1>1 DEF TreePlaces, TreeSlots
<1>3. ASSUME NEW a \in PagePlaces PROVE SlotAt(a) \in All
  BY <1>1 DEF PagePlaces, OwnedCells, PageSlots, RowSlots
<1>4. ASSUME NEW a \in ReservePlaces PROVE SlotAt(a) \in All
  BY <1>1 DEF ReservePlaces, ReserveSlots, RowSlots
<1>5. ASSUME NEW k \in DOMAIN tree PROVE tree[k] \in UsedSlots
  <2>1. <<"tree", k>> \in Places
    BY <1>1 DEF TreePlaces
  <2> QED BY <1>1, <2>1 DEF UsedSlots
<1>6. ASSUME NEW r \in Row, NEW p \in Owned(r) PROVE table[r][p] \in UsedSlots
  <2>1. p \in Column /\ <<r, p>> \in OwnedCells
    BY DEF OwnedCells, Owned
  <2>2. <<"page", r, p>> \in PagePlaces
    BY <2>1 DEF PagePlaces
  <2> QED BY <1>1, <2>1, <2>2 DEF UsedSlots
<1>7. ASSUME NEW r \in Row, NEW j \in Candidate PROVE reserve[r][j] \in UsedSlots
  <2>1. <<r, j>> \in Row \X Candidate
    OBVIOUS
  <2>2. <<"reserve", r, j>> \in ReservePlaces
    BY <2>1 DEF ReservePlaces
  <2> QED BY <1>1, <2>2 DEF UsedSlots
<1>8. UsedSlots \subseteq All
  <2> HIDE DEF All
  <2> QED BY <1>1, <1>2, <1>3, <1>4 DEF UsedSlots
<1>9. TreeSlots \subseteq UsedSlots
  BY <1>5 DEF TreeSlots
<1>10. ASSUME NEW r \in Row PROVE RowSlots(r) \subseteq UsedSlots
  <2>1. PageSlots(r) \subseteq UsedSlots
    BY <1>6 DEF PageSlots
  <2>2. ReserveSlots(r) \subseteq UsedSlots
    BY <1>7 DEF ReserveSlots
  <2> QED BY <2>1, <2>2 DEF RowSlots
<1> QED BY <1>8, <1>9, <1>10

LEMMA PairsCount ==
    ASSUME NEW X, NEW A, NEW B, X \subseteq A \X B, IsFiniteSet(X), NEW tag
    PROVE  /\ IsFiniteSet({<<tag, x[1], x[2]>> : x \in X})
           /\ Cardinality({<<tag, x[1], x[2]>> : x \in X}) = Cardinality(X)
<1> DEFINE T == {<<tag, x[1], x[2]>> : x \in X}
           f == [x \in X |-> <<tag, x[1], x[2]>>]
<1>1. f \in Bijection(X, T)
  <2>1. f \in Injection(X, T)
    <3>1. ASSUME NEW x \in X, NEW y \in X, f[x] = f[y] PROVE x = y
      BY <3>1
    <3> QED BY <3>1 DEF Injection, IsInjective
  <2>2. f \in Surjection(X, T)
    BY DEF Surjection
  <2> QED BY <2>1, <2>2 DEF Bijection
<1>2. ExistsBijection(X, T)
  BY <1>1 DEF ExistsBijection
<1> QED BY <1>2, FS_Bijection

LEMMA TaggedCount ==
    ASSUME NEW X, IsFiniteSet(X), NEW tag
    PROVE  /\ IsFiniteSet({<<tag, x>> : x \in X})
           /\ Cardinality({<<tag, x>> : x \in X}) = Cardinality(X)
<1> DEFINE T == {<<tag, x>> : x \in X}
           f == [x \in X |-> <<tag, x>>]
<1>1. f \in Bijection(X, T)
  <2>1. f \in Injection(X, T)
    BY DEF Injection, IsInjective
  <2>2. f \in Surjection(X, T)
    BY DEF Surjection
  <2> QED BY <2>1, <2>2 DEF Bijection
<1>2. ExistsBijection(X, T)
  BY <1>1 DEF ExistsBijection
<1> QED BY <1>2, FS_Bijection

LEMMA CandidateIs ==
    ASSUME SizesAssumption
    PROVE  /\ IsFiniteSet(Row \X Candidate)
           /\ Cardinality(Row \X Candidate) = IF speculating THEN Cardinality(Row) * (Drafts + 1) ELSE 0
<1>1. IsFiniteSet(Row) /\ Drafts \in Nat
  BY DEF SizesAssumption
<1>2. CASE speculating
  <2>1. IsFiniteSet(0 .. Drafts) /\ Cardinality(0 .. Drafts) = Drafts + 1
    BY <1>1, FS_Interval
  <2>2. Candidate = 0 .. Drafts
    BY <1>2 DEF Candidate
  <2> QED BY <1>1, <1>2, <2>1, <2>2, FS_Product
<1>3. CASE ~speculating
  <2>1. Row \X Candidate = {}
    BY <1>3 DEF Candidate
  <2> QED BY <1>3, <2>1, FS_EmptySet
<1> QED BY <1>2, <1>3

LEMMA PlacesCount ==
    ASSUME SizesAssumption, TextAssumption, SlotInv
    PROVE  /\ IsFiniteSet(OwnedCells) /\ IsFiniteSet(Places)
           /\ Cardinality(Places) = Cardinality(DOMAIN tree) + Cardinality(OwnedCells)
                                      + Cardinality(Row \X Candidate)
<1>1. IsFiniteSet(OwnedCells)
  <2>1. IsFiniteSet(Column)
    <3>1. PICK t \in Text : TRUE
      BY DEF TextAssumption
    <3>2. 0 \in 0 .. Len(t)
      BY LenProperties DEF TextAssumption
    <3> QED BY <3>2, ColumnsReach
  <2>2. IsFiniteSet(Row \X Column)
    BY <2>1, FS_Product DEF SizesAssumption
  <2>3. OwnedCells \in SUBSET (Row \X Column)
    BY DEF OwnedCells
  <2> QED BY <2>2, <2>3, FS_Subset
<1>2. IsFiniteSet(TreePlaces) /\ Cardinality(TreePlaces) = Cardinality(DOMAIN tree)
  <2>1. IsFiniteSet(DOMAIN tree)
    BY DEF SlotInv, TreeTypes
  <2>2. PICK X : X = DOMAIN tree
    OBVIOUS
  <2> QED BY <2>1, <2>2, TaggedCount DEF TreePlaces
<1>3. IsFiniteSet(PagePlaces) /\ Cardinality(PagePlaces) = Cardinality(OwnedCells)
  <2>1. PICK X, A, B : X = OwnedCells /\ A = Row /\ B = Column
    OBVIOUS
  <2>2. X \subseteq A \X B /\ IsFiniteSet(X)
    BY <1>1, <2>1 DEF OwnedCells
  <2> QED BY <2>1, <2>2, PairsCount DEF PagePlaces
<1>4. IsFiniteSet(ReservePlaces) /\ Cardinality(ReservePlaces) = Cardinality(Row \X Candidate)
  <2>1. PICK X, A, B : X = Row \X Candidate /\ A = Row /\ B = Candidate
    OBVIOUS
  <2>2. X \subseteq A \X B /\ IsFiniteSet(X)
    BY <2>1, CandidateIs
  <2>3. PICK Y : Y = {<<"reserve", x[1], x[2]>> : x \in X}
    OBVIOUS
  <2>4. IsFiniteSet(Y) /\ Cardinality(Y) = Cardinality(X)
    BY <2>2, <2>3, PairsCount
  <2>5. Y = ReservePlaces
    BY <2>1, <2>3, Zenon DEF ReservePlaces
  <2> QED BY <2>1, <2>4, <2>5
<1>5. /\ TreePlaces \cap PagePlaces = {} /\ (TreePlaces \cup PagePlaces) \cap ReservePlaces = {}
  BY DEF TreePlaces, PagePlaces, ReservePlaces
<1>6. PICK P, Q, R : P = TreePlaces /\ Q = PagePlaces /\ R = ReservePlaces
  OBVIOUS
<1>7. IsFiniteSet(P \cup Q) /\ Cardinality(P \cup Q) = Cardinality(P) + Cardinality(Q)
  BY <1>2, <1>3, <1>5, <1>6, FS_Union, DisjointUnion
<1>8. /\ IsFiniteSet((P \cup Q) \cup R)
      /\ Cardinality((P \cup Q) \cup R) = Cardinality(P \cup Q) + Cardinality(R)
  BY <1>4, <1>5, <1>6, <1>7, FS_Union, DisjointUnion
<1>9. Places = (P \cup Q) \cup R
  BY <1>6, PlaceKinds
<1> QED BY <1>1, <1>2, <1>3, <1>4, <1>6, <1>7, <1>8, <1>9

(* There are as many places and free slots as there are slots. *)
LEMMA SlotsCounted ==
    ASSUME SizesAssumption, TextAssumption, SlotInv
    PROVE  /\ freeStates \cap UsedSlots = {} /\ IsFiniteSet(freeStates)
           /\ Cardinality(freeStates) + Cardinality(Places)
                = NumPages + (IF speculating THEN Cardinality(Row) * (Drafts + 1) ELSE 0)
<1>1. UsedSlots = TreeSlots \cup UNION {RowSlots(r) : r \in Row}
  BY UsedAre
<1>2. Apart
  BY DEF SlotInv
<1>3. freeStates \cap UsedSlots = {} /\ AllSlots = freeStates \cup UsedSlots
  BY <1>1, <1>2 DEF Apart, Disjoint, RowSlots
<1>4. IsFiniteSet(Places)
  BY PlacesCount
<1> DEFINE g == [a \in Places |-> SlotAt(a)]
<1>5. g \in Bijection(Places, UsedSlots)
  <2>1. g \in Injection(Places, UsedSlots)
    BY PlacesOnce DEF Injection, IsInjective, UsedSlots
  <2>2. g \in Surjection(Places, UsedSlots)
    BY DEF Surjection, UsedSlots
  <2> QED BY <2>1, <2>2 DEF Bijection
<1>6. IsFiniteSet(UsedSlots) /\ Cardinality(UsedSlots) = Cardinality(Places)
  <2>1. ExistsBijection(Places, UsedSlots)
    BY <1>5 DEF ExistsBijection
  <2> QED BY <1>4, <2>1, FS_Bijection
<1>7. IsFiniteSet(AllSlots)
  BY SlotsAre, FS_Subset
<1>8. IsFiniteSet(freeStates)
  BY <1>3, <1>7, FS_Subset
<1>9. Cardinality(AllSlots) = Cardinality(freeStates) + Cardinality(UsedSlots)
  BY <1>3, <1>6, <1>8, DisjointUnion
<1>10. Cardinality(AllSlots) = NumPages + (IF speculating THEN Cardinality(Row) * (Drafts + 1) ELSE 0)
  <2>1. NumPages \in Nat /\ Drafts \in Nat /\ Cardinality(Row) \in Nat
    BY FS_CardinalityType DEF SizesAssumption
  <2>2. PICK k : k = Cardinality(Row) * (Drafts + 1)
    OBVIOUS
  <2>3. k \in Nat
    BY <2>1, <2>2
  <2>4. ASSUME NEW n \in Nat PROVE Cardinality(0 .. n - 1) = n
    <3>1. PICK m \in Int : m = n - 1
      OBVIOUS
    <3>2. Cardinality(0 .. m) = IF 0 > m THEN 0 ELSE m - 0 + 1
      BY <3>1, FS_Interval
    <3> QED BY <3>1, <3>2
  <2>5. Slot = 0 .. NumPages + k - 1
    BY <2>2 DEF Slot
  <2>6. NumPages + k \in Nat
    BY <2>1, <2>3
  <2>7. CASE speculating
    BY <2>2, <2>4, <2>5, <2>6, <2>7 DEF AllSlots
  <2>8. CASE ~speculating
    BY <2>1, <2>4, <2>8 DEF AllSlots
  <2> QED BY <2>7, <2>8
<1> QED BY <1>3, <1>6, <1>8, <1>9, <1>10

(* There are as many free slots as free pages; a page that is allocated and *)
(* has no slot leaves one more.                                             *)
LEMMA FreeSlots ==
    ASSUME SizesAssumption, TextAssumption, SlotInv
    PROVE  /\ IsFiniteSet(freeStates) /\ Cardinality(freeStates) \in Nat
           /\ Cardinality(freeStates) >= freePages
           /\ \A cell \in Allocated : cell \notin OwnedCells => Cardinality(freeStates) > freePages
<1>1. /\ IsFiniteSet(freeStates)
      /\ Cardinality(freeStates) + Cardinality(Places)
           = NumPages + (IF speculating THEN Cardinality(Row) * (Drafts + 1) ELSE 0)
  BY SlotsCounted
<1>2. /\ IsFiniteSet(OwnedCells) /\ IsFiniteSet(Places)
      /\ Cardinality(Places) = Cardinality(DOMAIN tree) + Cardinality(OwnedCells)
                                 + Cardinality(Row \X Candidate)
  BY PlacesCount
<1>3. /\ IsFiniteSet(Row \X Candidate)
      /\ Cardinality(Row \X Candidate) = IF speculating THEN Cardinality(Row) * (Drafts + 1) ELSE 0
  BY CandidateIs
<1>4. IsFiniteSet(Allocated) /\ freePages + Cardinality(DOMAIN tree) + Cardinality(Allocated) = NumPages
  BY DEF SlotInv, PagesCounted
<1>5. OwnedCells \subseteq Allocated
  <2>1. ASSUME NEW r \in Row, NEW p \in Owned(r)
        PROVE  p \in Nat /\ HandleLen(r) <= p /\ p < PagesEnd(r)
    <3>1. req[r] # NoReq
      BY EmptyRow DEF SlotInv, RowInv
    <3>2. p \in Column /\ p >= HandleLen(r) /\ table[r][p] # NoSlot
      BY DEF Owned
    <3>3. p \in Nat
      BY <3>2 DEF Column
    <3>4. /\ Columns(r) /\ req[r].cached \in Nat /\ HandleLen(r) \in Nat /\ PagesEnd(r) \in Nat
          /\ DivCeil(req[r].cached) <= PagesEnd(r)
      BY <3>1, RowIs
    <3>5. PICK d : d = DivCeil(req[r].cached)
      OBVIOUS
    <3>6. d \in Nat /\ d <= PagesEnd(r)
      BY <3>4, <3>5, DivCeilIs
    <3>7. ~(d <= p)
      BY <3>1, <3>2, <3>4, <3>5 DEF Columns
    <3>8. \A e \in Nat : d <= e => p < e
      BY <3>3, <3>6, <3>7
    <3> QED BY <3>2, <3>3, <3>4, <3>6, <3>8
  <2> QED BY <2>1 DEF OwnedCells, Allocated
<1>6. Cardinality(OwnedCells) <= Cardinality(Allocated)
  BY <1>4, <1>5, FS_Subset
<1>7. ASSUME NEW cell \in Allocated, cell \notin OwnedCells
      PROVE  Cardinality(OwnedCells) < Cardinality(Allocated)
  <2>1. Cardinality(OwnedCells) # Cardinality(Allocated)
    BY <1>4, <1>5, <1>7, FS_Subset
  <2> QED BY <1>2, <1>4, <1>6, <2>1, FS_CardinalityType
<1>8. PICK f, t, o, w, a, p : /\ f = Cardinality(freeStates) /\ t = Cardinality(DOMAIN tree)
                              /\ o = Cardinality(OwnedCells) /\ w = Cardinality(Row \X Candidate)
                              /\ a = Cardinality(Allocated) /\ p = Cardinality(Places)
  OBVIOUS
<1>9. f \in Nat /\ t \in Nat /\ o \in Nat /\ w \in Nat /\ a \in Nat /\ p \in Nat /\ freePages \in Nat
  BY <1>1, <1>2, <1>3, <1>4, <1>8, FS_CardinalityType DEF SlotInv, TreeTypes, Types
<1>10. f + p = NumPages + w /\ p = t + o + w /\ freePages + t + a = NumPages
  BY <1>1, <1>2, <1>3, <1>4, <1>8
<1>11. o <= a => f >= freePages
  BY <1>9, <1>10
<1>12. o < a => f > freePages
  BY <1>9, <1>10
<1> QED BY <1>1, <1>6, <1>7, <1>8, <1>9, <1>11, <1>12
-----------------------------------------------------------------------------
(* The commit of a verify round *)

Valued(f, D)    == {f[j] : j \in D}
OneToOne(f, D)  == \A i, j \in D : f[i] = f[j] => i = j

LEMMA SwapIs ==
    ASSUME NEW D, NEW X, NEW f \in [D -> X], NEW j \in D, 0 \in D, OneToOne(f, D)
    PROVE  /\ Swapped(f, j) \in [D -> X] /\ Valued(Swapped(f, j), D) = Valued(f, D)
           /\ OneToOne(Swapped(f, j), D)
<1>1. PICK g : g = Swapped(f, j)
  OBVIOUS
<1>2. g \in [D -> X] /\ \A i \in D : g[i] = IF i = j THEN f[0] ELSE IF i = 0 THEN f[j] ELSE f[i]
  BY <1>1 DEF Swapped
<1>3. OneToOne(g, D)
  BY <1>2 DEF OneToOne
<1>4. Valued(g, D) = Valued(f, D)
  <2>1. \A i \in D : g[i] \in Valued(f, D)
    BY <1>2 DEF Valued
  <2>2. g[j] = f[0] /\ g[0] = f[j] /\ \A i \in D : i # j /\ i # 0 => g[i] = f[i]
    BY <1>2
  <2>3. \A i \in D : f[i] \in Valued(g, D)
    BY <2>2 DEF Valued
  <2> QED BY <2>1, <2>3 DEF Valued
<1> QED BY <1>1, <1>2, <1>3, <1>4

LEMMA RefillIs ==
    ASSUME NEW D, NEW X, NEW f \in [D -> X], NEW j \in D, NEW x \in X, x \notin Valued(f, D),
           OneToOne(f, D), NEW g \in [D -> X], g[j] = x, \A i \in D : i # j => g[i] = f[i]
    PROVE  OneToOne(g, D) /\ Valued(g, D) = (Valued(f, D) \ {f[j]}) \cup {x}
<1>2. g \in [D -> X] /\ g[j] = x /\ \A i \in D : i # j => g[i] = f[i]
  OBVIOUS
<1>3. OneToOne(g, D)
  BY <1>2 DEF OneToOne, Valued
<1>4. Valued(g, D) = (Valued(f, D) \ {f[j]}) \cup {x}
  <2>1. \A i \in D : g[i] \in (Valued(f, D) \ {f[j]}) \cup {x}
    BY <1>2 DEF Valued, OneToOne
  <2>2. \A i \in D : i # j => f[i] \in Valued(g, D)
    BY <1>2 DEF Valued
  <2>3. x \in Valued(g, D)
    BY <1>2 DEF Valued
  <2> QED BY <2>1, <2>2, <2>3 DEF Valued
<1> QED BY <1>2, <1>3, <1>4

(* Where a commit ends. *)
LEMMA CommitIs ==
    ASSUME SizesAssumption, TextAssumption, SlotInv, NEW r \in Row, req[r] # NoReq, req[r].inflight > 0
    PROVE  /\ speculating /\ req[r].running /\ req[r].accepted \in 1 .. Drafts + 1
           /\ req[r].cached \in Nat \ {0} /\ CommitPage(r) \in Column /\ CommitPage(r) \in Nat
           /\ CommitPage(r) < DivCeil(req[r].cached) /\ PageEnd(r) \in Nat
           /\ req[r].cached <= PageEnd(r)
           /\ req[r].accepted - 1 \in Candidate /\ 0 \in Candidate
           /\ Pins(r) => /\ HandleLen(r) <= CommitPage(r)
                         /\ Boundary(r) \in Candidate /\ Boundary(r) <= req[r].accepted - 1
           /\ (req[r].cached + req[r].accepted) \div PageSize
                = IF Pins(r) THEN CommitPage(r) + 1 ELSE req[r].cached \div PageSize
           /\ Pins(r) => req[r].cached \div PageSize = CommitPage(r)
<1>1. PICK c, a, i, p, e, h : /\ c = req[r].cached /\ a = req[r].accepted /\ i = req[r].inflight
                             /\ p = CommitPage(r) /\ e = PageEnd(r) /\ h = HandleLen(r)
  OBVIOUS
<1>2. /\ Lengths(r) /\ c \in Nat /\ a \in Nat /\ i \in Nat /\ h \in Nat /\ h <= c \div PageSize
      /\ req[r].text \in Text /\ MaxLen(r) = Len(req[r].text)
  BY <1>1, RowIs DEF MaxLen
<1>3. /\ i > 0 /\ speculating /\ req[r].running /\ a > 0 /\ c > 0 /\ c < MaxLen(r)
      /\ i <= Drafts + 1 /\ a <= i
  BY <1>1, <1>2 DEF Lengths
<1>4. Drafts \in Nat
  BY DEF SizesAssumption
<1>5. c \in Nat \ {0} /\ a \in 1 .. Drafts + 1
  <2>1. c \in Nat /\ a \in Nat /\ i \in Nat
    BY <1>2
  <2>2. a > 0 /\ c > 0 /\ i <= Drafts + 1 /\ a <= i
    BY <1>3
  <2> QED BY <1>4, <2>1, <2>2
<1>6. p = (c - 1) \div PageSize /\ e = (p + 1) * PageSize
  BY <1>1 DEF CommitPage, PageEnd
<1>7. /\ p \in Nat /\ e \in Nat /\ c <= e
      /\ c < e => c \div PageSize = p
      /\ c = e => c \div PageSize = p + 1
      /\ c + a < e => (c + a) \div PageSize = p
      /\ c + a >= e => (c + a) \div PageSize = p + 1
  BY <1>5, <1>6, CommitEnds
<1>8. p < DivCeil(c) /\ p \in Column
  <2>1. DivCeil(c) = p + 1
    BY <1>5, <1>6, LastPage
  <2>2. Len(req[r].text) \in Nat
    BY <1>2, LenProperties DEF TextAssumption
  <2>3. c \in 0 .. Len(req[r].text)
    BY <1>2, <1>3, <2>2
  <2>4. \A x \in Nat : x < DivCeil(c) => x \in Column
    BY <1>2, <2>3, ColumnsReach
  <2>5. p < p + 1
    BY <1>7
  <2> QED BY <1>7, <2>1, <2>4, <2>5
<1>9. a - 1 \in Candidate /\ 0 \in Candidate /\ Candidate = 0 .. Drafts
  BY <1>3, <1>4, <1>5 DEF Candidate
<1>10. Pins(r) <=> c < e /\ e <= c + a
  BY <1>1 DEF Pins
<1>11. ASSUME Pins(r) PROVE h <= p /\ Boundary(r) \in Candidate /\ Boundary(r) <= a - 1 /\ c \div PageSize = p
  <2>1. Boundary(r) = e - 1 - c
    BY <1>1 DEF Boundary
  <2>2. c < e /\ e <= c + a
    BY <1>10, <1>11
  <2>3. e - 1 - c \in 0 .. Drafts /\ e - 1 - c <= a - 1
    BY <1>4, <1>5, <1>7, <2>2
  <2>4. c \div PageSize = p
    BY <1>7, <2>2
  <2> QED BY <1>2, <1>9, <2>1, <2>3, <2>4
<1>12. (c + a) \div PageSize = IF Pins(r) THEN p + 1 ELSE c \div PageSize
  <2>1. c \in Nat /\ a \in Nat /\ e \in Nat /\ a > 0
    BY <1>2, <1>3, <1>7
  <2>2. CASE Pins(r)
    <3>1. c + a >= e
      BY <1>10, <2>1, <2>2
    <3> QED BY <1>7, <2>2, <3>1
  <2>3. CASE ~Pins(r)
    <3>1. c = e \/ (c < e /\ c + a < e)
      BY <1>7, <1>10, <2>1, <2>3
    <3>2. c = e => c + a >= e
      BY <2>1
    <3> QED BY <1>7, <2>3, <3>1, <3>2
  <2> QED BY <2>2, <2>3
<1> QED BY <1>1, <1>3, <1>5, <1>7, <1>8, <1>9, <1>11, <1>12

(* free_states[0] exists: with no slot in the column of page P, that page  *)
(* is allocated and has none.                                               *)
LEMMA FreshIs ==
    ASSUME SizesAssumption, TextAssumption, NothingAssumption, SlotInv,
           NEW r \in Row, req[r] # NoReq, req[r].inflight > 0, Pins(r)
    PROVE  /\ freeStates \cup Old(r) # {} /\ Fresh(r) \in freeStates \cup Old(r)
           /\ Old(r) \subseteq PageSlots(r)
           /\ Old(r) = {} => CommitPage(r) \notin Owned(r)
           /\ Old(r) # {} => CommitPage(r) \in Owned(r) /\ Old(r) = {table[r][CommitPage(r)]}
<1>1. PICK p, h : p = CommitPage(r) /\ h = HandleLen(r)
  OBVIOUS
<1>2. p \in Column /\ h <= p /\ p \in Nat /\ p < DivCeil(req[r].cached)
  BY <1>1, CommitIs
<1>3. Old(r) = {table[r][p]} \ {NoSlot}
  BY <1>1 DEF Old
<1>4. p \in Owned(r) <=> table[r][p] # NoSlot
  <2>1. h \in Nat
    BY <1>1, RowLengths
  <2> QED BY <1>1, <1>2, <2>1 DEF Owned
<1>5. Old(r) \subseteq PageSlots(r)
  BY <1>3, <1>4 DEF PageSlots
<1>6. freeStates \cup Old(r) # {}
  <2>1. CASE Old(r) = {}
    <3>1. <<r, p>> \notin OwnedCells
      BY <1>3, <1>4, <2>1 DEF OwnedCells
    <3>2. p < PagesEnd(r)
      <4>1. DivCeil(req[r].cached) \in Nat /\ DivCeil(req[r].cached) <= PagesEnd(r) /\ PagesEnd(r) \in Nat
        BY RowIs, DivCeilIs
      <4>2. \A d, e \in Nat : p < d /\ d <= e => p < e
        BY <1>2
      <4> QED BY <1>2, <4>1, <4>2
    <3>3. <<r, p>> \in Allocated
      BY <1>1, <1>2, <3>2 DEF Allocated
    <3>4. Cardinality(freeStates) > freePages /\ freePages \in Nat /\ Cardinality(freeStates) \in Nat
      BY <3>1, <3>3, FreeSlots DEF SlotInv, Types
    <3>5. Cardinality(freeStates) # 0
      BY <3>4
    <3>6. freeStates # {}
      BY <3>5, FS_EmptySet
    <3> QED BY <3>6
  <2>2. CASE Old(r) # {}
    BY <2>2
  <2> QED BY <2>1, <2>2
<1>7. Fresh(r) \in freeStates \cup Old(r)
  BY <1>6 DEF Fresh
<1> QED BY <1>1, <1>3, <1>4, <1>5, <1>6, <1>7

(* The reserve of a row afterwards. *)
NewReserve(r) == IF EndsAtPage(r) THEN Refilled(r) ELSE Swapped(Refilled(r), req[r].accepted - 1)

LEMMA NewReserveIs ==
    ASSUME SizesAssumption, TextAssumption, NothingAssumption, SlotInv,
           NEW r \in Row, req[r] # NoReq, req[r].inflight > 0
    PROVE  /\ NewReserve(r) \in [Candidate -> Slot] /\ OneToOne(NewReserve(r), Candidate)
           /\ Refilled(r) \in [Candidate -> Slot]
           /\ Valued(NewReserve(r), Candidate)
                = IF Pins(r) THEN (ReserveSlots(r) \ {reserve[r][Boundary(r)]}) \cup {Fresh(r)}
                  ELSE ReserveSlots(r)
<1>1. /\ Types /\ Apart /\ RowOnce(r)
  BY DEF SlotInv, RowInv
<1>2. PICK C, f, j : C = Candidate /\ f = reserve[r] /\ j = req[r].accepted - 1
  OBVIOUS
<1>3. f \in [C -> Slot] /\ OneToOne(f, C) /\ Valued(f, C) = ReserveSlots(r)
  BY <1>1, <1>2 DEF Types, RowOnce, OneToOne, Valued, ReserveSlots
<1>4. j \in C /\ 0 \in C
  BY <1>2, CommitIs
<1>5. PICK g : g = Refilled(r)
  OBVIOUS
<1>6. /\ g \in [C -> Slot] /\ OneToOne(g, C)
      /\ Valued(g, C) = IF Pins(r) THEN (ReserveSlots(r) \ {reserve[r][Boundary(r)]}) \cup {Fresh(r)}
                        ELSE ReserveSlots(r)
  <2>1. CASE ~Pins(r)
    BY <1>2, <1>3, <1>5, <2>1 DEF Refilled
  <2>2. CASE Pins(r)
    <3>1. PICK b, x : b = Boundary(r) /\ x = Fresh(r)
      OBVIOUS
    <3>2. b \in C
      BY <1>2, <2>2, <3>1, CommitIs
    <3>3. x \in freeStates \cup PageSlots(r)
      BY <2>2, <3>1, FreshIs
    <3>4. x \in Slot
      BY <1>1, <3>3, SlotsIn
    <3>5. x \notin Valued(f, C)
      BY <1>1, <1>3, <3>3 DEF Apart, Disjoint
    <3>6. g = [f EXCEPT ![b] = x]
      BY <1>2, <1>5, <2>2, <3>1 DEF Refilled
    <3>7. g \in [C -> Slot] /\ OneToOne(g, C) /\ Valued(g, C) = (Valued(f, C) \ {f[b]}) \cup {x}
      <4>1. f \in [C -> Slot] /\ OneToOne(f, C)
        BY <1>3
      <4>2. g \in [C -> Slot] /\ g[b] = x /\ \A i \in C : i # b => g[i] = f[i]
        BY <3>2, <3>4, <3>6, <4>1
      <4>3. OneToOne(g, C)
        BY <3>2, <3>4, <3>5, <4>1, <4>2, RefillIs
      <4>4. Valued(g, C) = (Valued(f, C) \ {f[b]}) \cup {x}
        BY <3>2, <3>4, <3>5, <4>1, <4>2, RefillIs
      <4> QED BY <4>2, <4>3, <4>4
    <3> QED BY <1>2, <1>3, <2>2, <3>1, <3>7
  <2> QED BY <2>1, <2>2
<1>7. /\ Swapped(g, j) \in [C -> Slot] /\ Valued(Swapped(g, j), C) = Valued(g, C)
      /\ OneToOne(Swapped(g, j), C)
  BY <1>4, <1>6, SwapIs
<1>8. NewReserve(r) = g \/ NewReserve(r) = Swapped(g, j)
  BY <1>2, <1>5 DEF NewReserve
<1> QED BY <1>2, <1>5, <1>6, <1>7, <1>8

LEMMA CommitMoves ==
    ASSUME SizesAssumption, TextAssumption, NothingAssumption, SlotInv,
           NEW r \in Row, req[r] # NoReq, req[r].inflight > 0,
           CommitStates(r), HandleLen(r)' = HandleLen(r), speculating' = speculating, tree' = tree
    PROVE  /\ SlotsMove(r) /\ RowOnce(r)'
           /\ table' \in [Row -> [Column -> Slot \cup {NoSlot}]]
           /\ reserve' \in [Row -> [Candidate -> Slot]]
           /\ \A q \in Row : q # r => table'[q] = table[q] /\ reserve'[q] = reserve[q]
           /\ Pins(r) => table'[r][CommitPage(r)] # NoSlot
           /\ \A p \in Column : ~(Pins(r) /\ p = CommitPage(r)) => table'[r][p] = table[r][p]
<1>1. Types /\ Apart /\ RowOnce(r)
  BY DEF SlotInv, RowInv
<1>2. /\ table' = IF Pins(r) THEN [table EXCEPT ![r][CommitPage(r)] = reserve[r][Boundary(r)]] ELSE table
      /\ freeStates' = IF Pins(r) THEN (freeStates \cup Old(r)) \ {Fresh(r)} ELSE freeStates
      /\ reserve' = [reserve EXCEPT ![r] = NewReserve(r)]
  BY DEF CommitStates, NewReserve
<1>3. /\ table \in [Row -> [Column -> Slot \cup {NoSlot}]] /\ reserve \in [Row -> [Candidate -> Slot]]
  BY <1>1 DEF Types
<1>4. /\ NewReserve(r) \in [Candidate -> Slot] /\ OneToOne(NewReserve(r), Candidate)
      /\ Valued(NewReserve(r), Candidate)
           = IF Pins(r) THEN (ReserveSlots(r) \ {reserve[r][Boundary(r)]}) \cup {Fresh(r)}
             ELSE ReserveSlots(r)
  BY NewReserveIs
<1>5. reserve' \in [Row -> [Candidate -> Slot]] /\ reserve'[r] = NewReserve(r)
      /\ \A q \in Row : q # r => reserve'[q] = reserve[q]
  BY <1>2, <1>3, <1>4
<1>6. /\ \A i, j \in Candidate' : reserve'[r][i] = reserve'[r][j] => i = j
      /\ ReserveSlots(r)' = Valued(NewReserve(r), Candidate)
  BY <1>4, <1>5 DEF OneToOne, Valued, ReserveSlots, Candidate
<1>7. TreeSlots' = TreeSlots
  BY DEF TreeSlots
<1>8. CASE ~Pins(r)
  <2>1. table' = table /\ freeStates' = freeStates /\ ReserveSlots(r)' = ReserveSlots(r)
    BY <1>2, <1>4, <1>6, <1>8
  <2>2. Owned(r)' = Owned(r) /\ PageSlots(r)' = PageSlots(r)
    BY <2>1 DEF Owned, PageSlots
  <2>3. SlotsMove(r)
    BY <1>1, <1>7, <2>1, <2>2 DEF SlotsMove, RowSlots, Apart
  <2>4. RowOnce(r)'
    BY <1>1, <1>6, <2>1, <2>2 DEF RowOnce
  <2> QED BY <1>3, <1>5, <1>8, <2>1, <2>3, <2>4
<1>9. CASE Pins(r)
  <2>1. PICK P, v, x, O : /\ P = CommitPage(r) /\ v = reserve[r][Boundary(r)] /\ x = Fresh(r) /\ O = Old(r)
    OBVIOUS
  <2>2. P \in Column /\ Boundary(r) \in Candidate /\ HandleLen(r) <= P /\ P \in Nat /\ HandleLen(r) \in Nat
    BY <1>9, <2>1, CommitIs, RowLengths
  <2>3. /\ x \in freeStates \cup O /\ O \subseteq PageSlots(r)
        /\ O = {} => P \notin Owned(r)
        /\ O # {} => P \in Owned(r) /\ O = {table[r][P]}
    BY <1>9, <2>1, FreshIs
  <2>4. v \in ReserveSlots(r) /\ v \in Slot /\ v # NoSlot
    <3>1. v \in ReserveSlots(r)
      BY <2>1, <2>2 DEF ReserveSlots
    <3> QED BY <1>1, <3>1, SlotsIn
  <2>5. /\ table' \in [Row -> [Column -> Slot \cup {NoSlot}]]
        /\ table'[r][P] = v
        /\ \A p \in Column : p # P => table'[r][p] = table[r][p]
        /\ \A q \in Row : q # r => table'[q] = table[q]
    <3>1. table' = [table EXCEPT ![r][P] = v]
      BY <1>2, <1>9, <2>1
    <3> QED BY <1>3, <2>2, <2>4, <3>1
  <2>6. Owned(r)' = Owned(r) \cup {P}
    BY <2>2, <2>4, <2>5 DEF Owned
  <2>7. PageSlots(r)' = (PageSlots(r) \ O) \cup {v}
    <3>1. \A p \in Owned(r)' : table'[r][p] \in (PageSlots(r) \ O) \cup {v}
      <4>1. ASSUME NEW p \in Owned(r), p # P PROVE table[r][p] \in PageSlots(r) \ O
        <5>1. table[r][p] \in PageSlots(r)
          BY DEF PageSlots
        <5>2. O # {} => table[r][p] # table[r][P]
          BY <1>1, <2>3, <4>1 DEF RowOnce
        <5> QED BY <2>3, <5>1, <5>2
      <4>2. \A p \in Owned(r) : p \in Column
        BY DEF Owned
      <4> QED BY <2>5, <2>6, <4>1, <4>2
    <3>2. \A s \in PageSlots(r) \ O : s \in PageSlots(r)'
      <4>1. SUFFICES ASSUME NEW p \in Owned(r), table[r][p] \notin O PROVE table[r][p] \in PageSlots(r)'
        BY DEF PageSlots
      <4>2. p # P
        BY <2>3, <4>1
      <4>3. table'[r][p] = table[r][p] /\ p \in Owned(r)'
        BY <2>5, <2>6, <4>2 DEF Owned
      <4> QED BY <4>3 DEF PageSlots
    <3>3. v \in PageSlots(r)'
      BY <2>5, <2>6 DEF PageSlots
    <3>4. PageSlots(r)' \subseteq (PageSlots(r) \ O) \cup {v}
      BY <3>1 DEF PageSlots
    <3> QED BY <3>2, <3>3, <3>4
  <2>8. ReserveSlots(r)' = (ReserveSlots(r) \ {v}) \cup {x} /\ freeStates' = (freeStates \cup O) \ {x}
    BY <1>2, <1>4, <1>6, <1>9, <2>1
  <2>9. PICK F, T, S, R : F = freeStates /\ T = TreeSlots /\ S = PageSlots(r) /\ R = ReserveSlots(r)
    OBVIOUS
  <2>10. Disjoint(F, T, S, R) /\ x \in F \cup O /\ O \subseteq S /\ v \in R
    BY <1>1, <2>3, <2>4, <2>9 DEF Apart
  <2>11. /\ freeStates' = (F \cup O) \ {x} /\ TreeSlots' = T
         /\ PageSlots(r)' = (S \ O) \cup {v} /\ ReserveSlots(r)' = (R \ {v}) \cup {x}
    BY <1>7, <2>7, <2>8, <2>9
  <2>12. RowSlots(r) = S \cup R /\ RowSlots(r)' = ((S \ O) \cup {v}) \cup ((R \ {v}) \cup {x})
    BY <2>9, <2>11 DEF RowSlots
  <2>13. Disjoint((F \cup O) \ {x}, T, (S \ O) \cup {v}, (R \ {v}) \cup {x})
    BY <2>10 DEF Disjoint
  <2>14. ((F \cup O) \ {x}) \cup T \cup (((S \ O) \cup {v}) \cup ((R \ {v}) \cup {x})) = F \cup T \cup (S \cup R)
    BY <2>10
  <2>15. SlotsMove(r)
    BY <2>9, <2>11, <2>12, <2>13, <2>14 DEF SlotsMove
  <2>16. RowOnce(r)'
    <3>1. ASSUME NEW p \in Owned(r)', NEW q \in Owned(r)', table'[r][p] = table'[r][q] PROVE p = q
      <4>1. \A y \in Owned(r) : y # P => table'[r][y] = table[r][y] /\ table[r][y] # v
        <5>1. \A y \in Owned(r) : y \in Column /\ table[r][y] \in PageSlots(r)
          BY DEF Owned, PageSlots
        <5> QED BY <2>5, <2>9, <2>10, <5>1 DEF Disjoint
      <4> QED BY <1>1, <2>5, <2>6, <3>1, <4>1 DEF RowOnce
    <3> QED BY <1>6, <3>1 DEF RowOnce
  <2> QED BY <1>5, <1>9, <2>1, <2>4, <2>5, <2>15, <2>16
<1> QED BY <1>8, <1>9

LEMMA ProcessKeeps ==
    ASSUME SizesAssumption, TextAssumption, NothingAssumption, SlotInv,
           NEW r \in Row, ProcessVerify(r)
    PROVE  SlotInv'
<1>1. /\ req[r] # NoReq /\ req[r].inflight > 0 /\ CommitStates(r)
      /\ freePages' = freePages + DivCeil(AllocatedLen(r)) - DivCeil(req[r].cached + req[r].accepted)
      /\ req' = [req EXCEPT ![r].cached = req[r].cached + req[r].accepted, ![r].inflight = 0,
                            ![r].accepted = 0, ![r].baseline = NextBaseline(r)]
      /\ speculating' = speculating /\ tree' = tree /\ ref' = ref
  BY DEF ProcessVerify
<1>2. PICK c, a, i, n, b, h, m :
         /\ c = req[r].cached /\ a = req[r].accepted /\ i = req[r].inflight /\ n = c + a
         /\ b = NextBaseline(r) /\ h = HandleLen(r) /\ m = MaxLen(r)
  OBVIOUS
<1>3. /\ Lengths(r) /\ Columns(r) /\ req[r] \in Request /\ h \in Nat /\ c \in Nat /\ a \in Nat
      /\ i \in Nat /\ m \in Nat /\ h <= DivCeil(c) /\ PagesEnd(r) = DivCeil(AllocatedLen(r))
  BY <1>1, <1>2, RowIs
<1>4. /\ speculating /\ req[r].running /\ CommitPage(r) \in Column /\ CommitPage(r) \in Nat
      /\ CommitPage(r) < DivCeil(c) /\ a - 1 \in Candidate
      /\ Pins(r) => /\ Boundary(r) \in Candidate /\ c \div PageSize = CommitPage(r)
      /\ n \div PageSize = IF Pins(r) THEN CommitPage(r) + 1 ELSE c \div PageSize
  BY <1>1, <1>2, CommitIs
<1>5. n \in Nat /\ c <= n /\ n <= c + i /\ c + i \in Nat /\ c + i < m /\ n < m /\ n > 0
  <2>1. a <= i /\ c + i < m /\ c > 0
    BY <1>1, <1>2, <1>4 DEF Lengths, SlotInv, RowInv
  <2>2. c \in Nat /\ a \in Nat /\ i \in Nat /\ m \in Nat /\ n = c + a
    BY <1>2, <1>3
  <2> QED BY <2>1, <2>2
<1>6. Types /\ TreeTypes /\ TreeOnce /\ Locks /\ Apart
  BY DEF SlotInv
<1>7. b \in Slot \cup {NoSlot}
  <2>1. Refilled(r) \in [Candidate -> Slot]
    BY <1>1, NewReserveIs
  <2>2. EndsAtPage(r) => reserve[r][Boundary(r)] \in Slot
    BY <1>4, <1>6 DEF EndsAtPage, Types
  <2> QED BY <1>2, <1>4, <2>1, <2>2 DEF NextBaseline
<1>8. PICK x : x = [req[r] EXCEPT !.cached = n, !.inflight = 0, !.accepted = 0, !.baseline = b]
  OBVIOUS
<1>9. /\ x \in Request /\ x.handle = req[r].handle /\ x.cached = n /\ x.text = req[r].text
      /\ x.running = req[r].running /\ x.inflight = 0 /\ x.accepted = 0
  BY <1>3, <1>5, <1>7, <1>8 DEF Request
<1>10. req' = [req EXCEPT ![r] = x]
  BY <1>1, <1>2, <1>8
<1>11. /\ req' = [q \in Row |-> req'[q]] /\ \A q \in Live' : req'[q] \in Request
       /\ req'[r] = x /\ \A q \in Row : q # r => req'[q] = req[q]
       /\ req'[r] # NoReq /\ Live' = Live /\ HandleLen(r)' = HandleLen(r)
       /\ \A u \in Live : req'[u].handle = req[u].handle
  BY <1>1, <1>6, <1>9, <1>10, RequestStep
<1>12. /\ SlotsMove(r) /\ RowOnce(r)'
       /\ table' \in [Row -> [Column -> Slot \cup {NoSlot}]]
       /\ reserve' \in [Row -> [Candidate -> Slot]]
       /\ \A q \in Row : q # r => table'[q] = table[q] /\ reserve'[q] = reserve[q]
       /\ Pins(r) => table'[r][CommitPage(r)] # NoSlot
       /\ \A p \in Column : ~(Pins(r) /\ p = CommitPage(r)) => table'[r][p] = table[r][p]
  BY <1>1, <1>11, CommitMoves
<1>13. OnlyRow(r)
  BY <1>1, <1>11, <1>12 DEF OnlyRow
<1>14. /\ DivCeil(n) \in Nat /\ DivCeil(c) \in Nat /\ DivCeil(c + i) \in Nat
       /\ DivCeil(c) <= DivCeil(n) /\ DivCeil(n) <= DivCeil(c + i)
       /\ c \div PageSize \in Nat /\ n \div PageSize \in Nat
  BY <1>3, <1>5, DivCeilIs, DivCeilGrows
<1>15. HandleLen(r)' = h /\ PagesEnd(r)' = DivCeil(n) /\ PagesEnd(r) = DivCeil(c + i)
  <2>1. AllocatedLen(r) = c + i /\ AllocatedLen(r)' = n + 0
    BY <1>2, <1>9, <1>11 DEF AllocatedLen
  <2>2. n + 0 = n
    BY <1>5
  <2> QED BY <1>2, <1>3, <1>11, <2>1, <2>2 DEF PagesEnd
<1>16. PICK d, e, g : d = DivCeil(n) /\ e = DivCeil(c + i) /\ g = DivCeil(c)
  OBVIOUS
<1>17. freePages' = freePages + e - d /\ freePages \in Nat /\ d <= e /\ d \in Nat /\ e \in Nat /\ h <= d
       /\ g \in Nat /\ g <= d
  <2>1. h <= g /\ g <= d /\ g \in Nat /\ d \in Nat /\ h \in Nat /\ e \in Nat /\ d <= e
    BY <1>3, <1>14, <1>16
  <2>2. h <= d
    BY <2>1
  <2>3. freePages' = freePages + e - d /\ freePages \in Nat
    BY <1>1, <1>2, <1>6, <1>16 DEF AllocatedLen, Types
  <2> QED BY <2>1, <2>2, <2>3
<1>18. Types'
  <2>1. reserve' \in [Row -> [Candidate' -> Slot]] /\ speculating' \in BOOLEAN
    BY <1>1, <1>6, <1>12 DEF Types, Candidate
  <2>2. freePages' \in Nat
    BY <1>17
  <2> QED BY <1>11, <1>12, <2>1, <2>2 DEF Types
<1>19. TreeTypes' /\ TreeOnce'
  BY <1>1, <1>6 DEF TreeTypes, TreeOnce
<1>20. Locks'
  <2>1. Held(Live, req', tree, ref)
    <3> PICK L, q2, q1 : L = Live /\ q2 = req' /\ q1 = req
      OBVIOUS
    <3>1. Held(L, q1, tree, ref) /\ \A u \in L : q2[u].handle = q1[u].handle
      BY <1>6, <1>11 DEF Locks
    <3> QED BY <3>1, SameHandles
  <2> QED BY <1>1, <1>11, <2>1 DEF Locks
<1>21. Columns(r)'
  <2>1. SlotsEnd(r) = c \div PageSize /\ SlotsEnd(r)' = n \div PageSize
    BY <1>1, <1>2, <1>4, <1>9, <1>11 DEF SlotsEnd
  <2>2. DivCeil(req[r].cached)' = d
    BY <1>9, <1>11, <1>16
  <2>3. ASSUME NEW p \in Column
        PROVE  /\ h <= p /\ p < n \div PageSize => table'[r][p] # NoSlot
               /\ d <= p => table'[r][p] = NoSlot
    <3>1. /\ h <= p /\ p < c \div PageSize => table[r][p] # NoSlot
          /\ g <= p => table[r][p] = NoSlot
      BY <1>1, <1>2, <1>3, <1>16, <2>1 DEF Columns
    <3>2. p \in Nat
      BY DEF Column
    <3>3. PICK k, s, l : k = CommitPage(r) /\ s = c \div PageSize /\ l = n \div PageSize
      OBVIOUS
    <3>4. /\ k \in Nat /\ s \in Nat /\ k < g /\ (Pins(r) => s = k)
          /\ l = IF Pins(r) THEN k + 1 ELSE s
      BY <1>4, <1>14, <1>16, <3>3
    <3>5. d <= p => g <= p /\ p # k
      BY <1>17, <3>2, <3>4
    <3>6. h <= p /\ p < l => p < s \/ (Pins(r) /\ p = k)
      BY <3>2, <3>4
    <3>7. h <= p /\ p < l => table'[r][p] # NoSlot
      BY <1>12, <3>1, <3>3, <3>6
    <3>8. d <= p => table'[r][p] = NoSlot
      BY <1>12, <3>1, <3>3, <3>5
    <3> QED BY <3>3, <3>7, <3>8
  <2> QED BY <1>11, <1>15, <2>1, <2>2, <2>3 DEF Columns
<1>22. Lengths(r)'
  <2>1. /\ req[r].handle = SubSeq(Blocks(req[r].text), 1, Len(req[r].handle))
        /\ Len(req[r].handle) * PageSize <= c
    BY <1>2, <1>3 DEF Lengths
  <2>2. Len(req[r].handle) * PageSize <= n
    <3>1. Len(req[r].handle) \in Nat
      BY <1>3, LenProperties DEF Request
    <3>2. Len(req[r].handle) * PageSize \in Nat
      BY <1>3, <3>1, WholePages
    <3>3. \A k \in Nat : k <= c => k <= n
      BY <1>3, <1>5
    <3> QED BY <2>1, <3>2, <3>3
  <2>3. MaxLen(r)' = m
    BY <1>2, <1>9, <1>11 DEF MaxLen
  <2>4. n + 0 < m /\ n > 0 /\ n < m
    BY <1>3, <1>5
  <2>5. 0 <= Drafts + 1 /\ ~(0 > 0) /\ 0 <= 0
    BY DEF SizesAssumption
  <2>6. /\ x.handle = SubSeq(Blocks(x.text), 1, Len(x.handle)) /\ Len(x.handle) * PageSize <= x.cached
        /\ x.cached < m /\ x.cached > 0 /\ x.cached + x.inflight < m
        /\ x.inflight <= Drafts + 1 /\ x.accepted <= x.inflight /\ ~(x.inflight > 0)
    BY <1>9, <2>1, <2>2, <2>4, <2>5
  <2> QED BY <1>11, <2>3, <2>6 DEF Lengths
<1>23. RowInv(r)'
  BY <1>12, <1>21, <1>22 DEF RowInv
<1>24. PagesMoveBack(r)
  <2>1. PICK t, v : t = Cardinality(DOMAIN tree) /\ v = freePages
    OBVIOUS
  <2>2. t \in Nat /\ v \in Nat
    BY <1>6, <2>1, FS_CardinalityType DEF TreeTypes, Types
  <2>3. (v + e - d) + t + (d - h) = v + t + (e - h)
    BY <1>3, <1>17, <2>2
  <2>4. freePages' + Cardinality(DOMAIN tree') + (d - h) = freePages + Cardinality(DOMAIN tree) + (e - h)
    BY <1>1, <1>17, <2>1, <2>3
  <2> QED BY <1>2, <1>15, <1>16, <2>4 DEF PagesMoveBack
<1>25. HandleLen(r)' \in Nat /\ PagesEnd(r)' \in Nat /\ HandleLen(r)' <= PagesEnd(r)'
  BY <1>3, <1>15, <1>16, <1>17
<1> QED BY <1>12, <1>13, <1>18, <1>19, <1>20, <1>23, <1>24, <1>25, RowStep
-----------------------------------------------------------------------------
(* A request is admitted *)

(* What is matched of a prompt is whole pages of it, short of its last token. *)
LEMMA AdmittedKey ==
    ASSUME SizesAssumption, TextAssumption, NEW t \in Text, NEW f
    PROVE  LET ids == Blocks(SubSeq(t, 1, Prompt[t] - 1))
               key == SubSeq(ids, 1, MatchLen(f, ids))
           IN  /\ key \in Seq(Seq(Token)) /\ Len(key) \in Nat
               /\ key = SubSeq(Blocks(t), 1, Len(key))
               /\ PrefixesOf(key) \subseteq DOMAIN f
               /\ Len(key) * PageSize \in Nat /\ Len(key) * PageSize < Len(t)
               /\ DivCeil(Len(key) * PageSize) = Len(key)
<1>1. PICK m, p : m = Len(t) /\ p = Prompt[t] - 1
  OBVIOUS
<1>2. t \in Seq(Token) /\ m \in Nat /\ p \in 0 .. m /\ p < m
  <2>1. t \in Seq(Token) /\ Prompt[t] \in 1 .. Len(t) - 1
    BY DEF TextAssumption
  <2>2. m \in Nat /\ Prompt[t] \in 1 .. m - 1
    BY <1>1, <2>1, LenProperties
  <2>3. PICK q : q = Prompt[t]
    OBVIOUS
  <2>4. q \in 1 .. m - 1 /\ p = q - 1
    BY <1>1, <2>2, <2>3
  <2>5. p \in 0 .. m /\ p < m
    BY <2>2, <2>4
  <2> QED BY <2>1, <2>2, <2>5
<1>3. PICK ids : ids = Blocks(SubSeq(t, 1, p))
  OBVIOUS
<1>4. /\ ids = SubSeq(Blocks(t), 1, p \div PageSize) /\ p \div PageSize \in 0 .. Len(Blocks(t))
      /\ Blocks(t) \in Seq(Seq(Token))
  <2>1. p \in 0 .. Len(t)
    BY <1>1, <1>2
  <2> QED BY <1>2, <1>3, <2>1, BlocksAre, BlocksOfPrefix
<1>5. PICK b, d : b = Blocks(t) /\ d = p \div PageSize
  OBVIOUS
<1>6. b \in Seq(Seq(Token)) /\ d \in 0 .. Len(b) /\ ids = SubSeq(b, 1, d)
  BY <1>4, <1>5
<1>7. ids \in Seq(Seq(Token)) /\ Len(ids) = d /\ d \in Nat
  <2>1. Len(b) \in Nat
    BY <1>6, LenProperties
  <2>2. d \in Nat
    BY <1>6, <2>1
  <2> QED BY <1>6, <2>2, PrefixIs
<1>8. PICK n : n = MatchLen(f, ids)
  OBVIOUS
<1>9. n \in 0 .. d
  BY <1>7, <1>8, MatchIs
<1>10. PICK key : key = SubSeq(ids, 1, n)
  OBVIOUS
<1>11. key \in Seq(Seq(Token)) /\ Len(key) = n
  BY <1>7, <1>9, <1>10, PrefixIs
<1>12. key = SubSeq(b, 1, n)
  <2>1. CASE n = 0
    BY <1>10, <2>1, SubSeqEmpty
  <2>2. CASE n # 0
    <3> PICK one : one = 1
      OBVIOUS
    <3>1. one \in Nat \ {0} /\ n \in one .. d
      BY <1>7, <1>9, <2>2
    <3> QED BY <1>6, <1>10, <3>1, PartOfPrefix
  <2> QED BY <2>1, <2>2
<1>13. PrefixesOf(key) \subseteq DOMAIN f
  BY <1>7, <1>8, <1>10, MatchedIsCached
<1>14. n \in Nat /\ n * PageSize \in Nat /\ n * PageSize < m /\ DivCeil(n * PageSize) = n
  <2>1. n \in Nat /\ n <= d /\ p \in Nat
    BY <1>2, <1>7, <1>9
  <2>2. n * PageSize \in Nat /\ DivCeil(n * PageSize) = n /\ (n * PageSize <= p <=> n <= d)
    BY <1>5, <2>1, WholePages
  <2>3. \A x \in Nat : x <= p => x < m
    BY <1>2, <2>1
  <2> QED BY <2>1, <2>2, <2>3
<1> QED BY <1>1, <1>3, <1>5, <1>8, <1>10, <1>11, <1>12, <1>13, <1>14

LEMMA AdmitKeeps ==
    ASSUME SizesAssumption, TextAssumption, NothingAssumption, SlotInv,
           NEW r \in Row, NEW t \in Text, Admit(r, t)
    PROVE  SlotInv'
<1>1. PICK key, n :
         /\ key = SubSeq(Blocks(SubSeq(t, 1, Prompt[t] - 1)), 1,
                         MatchLen(tree, Blocks(SubSeq(t, 1, Prompt[t] - 1))))
         /\ n = Len(key)
  OBVIOUS
<1>2. PICK x : x = [text |-> t, cached |-> n * PageSize, handle |-> key, inflight |-> 0,
                    accepted |-> 0, running |-> FALSE, baseline |-> NoSlot]
  OBVIOUS
<1>3. /\ req[r] = NoReq /\ ref' = LockRefs(ref, key) /\ req' = [req EXCEPT ![r] = x]
      /\ table' = [table EXCEPT ![r] =
            [p \in Column |-> IF p < n THEN MatchedPages(tree, key)[p + 1] ELSE table[r][p]]]
      /\ speculating' = speculating /\ tree' = tree /\ freePages' = freePages
      /\ freeStates' = freeStates /\ reserve' = reserve
  BY <1>1, <1>2 DEF Admit
<1>4. /\ key \in Seq(Seq(Token)) /\ n \in Nat /\ key = SubSeq(Blocks(t), 1, n)
      /\ PrefixesOf(key) \subseteq DOMAIN tree
      /\ n * PageSize \in Nat /\ n * PageSize < Len(t) /\ DivCeil(n * PageSize) = n
  BY <1>1, AdmittedKey
<1>5. Types /\ TreeTypes /\ TreeOnce /\ Locks /\ Apart /\ Columns(r) /\ RowOnce(r)
  BY DEF SlotInv, RowInv
<1>6. HandleLen(r) = 0 /\ PagesEnd(r) = 0 /\ Owned(r) = {} /\ PageSlots(r) = {}
  BY <1>3, <1>5, EmptyRow
<1>7. /\ x \in Request /\ x # NoReq /\ x.text = t /\ x.cached = n * PageSize /\ x.handle = key
      /\ x.inflight = 0 /\ x.accepted = 0 /\ x.running = FALSE
  <2>1. PICK c : c = n * PageSize
    OBVIOUS
  <2>2. t \in Text /\ c \in Nat /\ key \in Seq(Seq(Token)) /\ 0 \in Nat /\ NoSlot \in Slot \cup {NoSlot}
    BY <1>4, <2>1
  <2>3. x = [text |-> t, cached |-> c, handle |-> key, inflight |-> 0,
             accepted |-> 0, running |-> FALSE, baseline |-> NoSlot]
    BY <1>2, <2>1
  <2>4. x \in Request
    BY <2>2, <2>3 DEF Request
  <2>5. /\ x.text = t /\ x.cached = n * PageSize /\ x.handle = key
        /\ x.inflight = 0 /\ x.accepted = 0 /\ x.running = FALSE
    BY <1>2
  <2> QED BY <2>4, <2>5 DEF NothingAssumption
<1>8. /\ req' = [q \in Row |-> req'[q]] /\ req'[r] = x /\ \A q \in Row : q # r => req'[q] = req[q]
      /\ Live' = Live \cup {r} /\ r \notin Live /\ \A q \in Live' : req'[q] \in Request
  <2>1. req = [q \in Row |-> req[q]] /\ \A q \in Live : req[q] \in Request
    BY <1>5 DEF Types
  <2>2. req' = [q \in Row |-> IF q = r THEN x ELSE req[q]]
    BY <1>3, <2>1
  <2>3. Live' = Live \cup {r} /\ r \notin Live
    BY <1>3, <1>7, <2>2 DEF Live
  <2> QED BY <1>7, <2>1, <2>2, <2>3 DEF Live
<1>9. /\ table'[r] = [p \in Column |-> IF p < n THEN MatchedPages(tree, key)[p + 1] ELSE table[r][p]]
      /\ table' \in [Row -> [Column -> Slot \cup {NoSlot}]]
      /\ \A q \in Row : q # r => table'[q] = table[q]
  <2> PICK g : g = [p \in Column |-> IF p < n THEN MatchedPages(tree, key)[p + 1] ELSE table[r][p]]
    OBVIOUS
  <2>1. ASSUME NEW p \in Column, p < n PROVE MatchedPages(tree, key)[p + 1] \in Slot
    <3>1. p \in Nat
      BY DEF Column
    <3>2. p + 1 \in 1 .. n
      BY <1>4, <2>1, <3>1
    <3>3. SubSeq(key, 1, p + 1) \in DOMAIN tree
      BY <1>1, <1>4, <3>2 DEF PrefixesOf
    <3>4. MatchedPages(tree, key)[p + 1] = tree[SubSeq(key, 1, p + 1)]
      BY <1>1, <3>2 DEF MatchedPages
    <3>5. TreeSlots \subseteq Slot
      BY <1>5, SlotsIn
    <3> QED BY <3>3, <3>4, <3>5 DEF TreeSlots
  <2>2. table \in [Row -> [Column -> Slot \cup {NoSlot}]]
    BY <1>5 DEF Types
  <2>3. g \in [Column -> Slot \cup {NoSlot}]
    BY <2>1, <2>2
  <2>4. table' = [table EXCEPT ![r] = g]
    BY <1>3
  <2>5. table' \in [Row -> [Column -> Slot \cup {NoSlot}]] /\ table'[r] = g
        /\ \A q \in Row : q # r => table'[q] = table[q]
    BY <2>2, <2>3, <2>4
  <2> QED BY <2>5
<1>10. OnlyRow(r)
  BY <1>3, <1>8, <1>9 DEF OnlyRow
<1>11. HandleLen(r)' = n /\ PagesEnd(r)' = n
  <2>1. req'[r] # NoReq /\ AllocatedLen(r)' = n * PageSize + 0
    BY <1>7, <1>8 DEF AllocatedLen
  <2>2. n * PageSize + 0 = n * PageSize
    BY <1>4
  <2> QED BY <1>1, <1>4, <1>7, <1>8, <2>1, <2>2 DEF HandleLen, PagesEnd
<1>12. ASSUME NEW p \in Column PROVE n <= p => table'[r][p] = NoSlot
  <2>0. table[r][p] = NoSlot
    BY <1>3, <1>5 DEF Columns
  <2>1. p \in Nat /\ table[r][p] = NoSlot
    BY <2>0 DEF Column
  <2>2. n <= p => ~(p < n)
    BY <1>4, <2>1
  <2> QED BY <1>9, <2>1, <2>2
<1>13. Owned(r)' = {} /\ PageSlots(r)' = {} /\ ReserveSlots(r)' = ReserveSlots(r)
  <2>1. Owned(r)' = {}
    BY <1>11, <1>12 DEF Owned
  <2> QED BY <1>3, <2>1 DEF PageSlots, ReserveSlots, Candidate
<1>14. SlotsMove(r)
  <2>1. TreeSlots' = TreeSlots /\ RowSlots(r)' = RowSlots(r)
    BY <1>3, <1>6, <1>13 DEF TreeSlots, RowSlots
  <2>2. Disjoint(freeStates', TreeSlots', PageSlots(r)', ReserveSlots(r)')
    BY <1>3, <1>5, <1>6, <1>13, <2>1 DEF Apart
  <2> QED BY <1>3, <2>1, <2>2 DEF SlotsMove
<1>15. Types'
  BY <1>3, <1>5, <1>8, <1>9 DEF Types, Candidate
<1>16. TreeTypes' /\ TreeOnce'
  BY <1>3, <1>5 DEF TreeTypes, TreeOnce
<1>17. Locks'
  <2>1. Held(Live \cup {r}, req', tree, LockRefs(ref, key))
    <3> PICK L, q2, q1 : L = Live /\ q2 = req' /\ q1 = req
      OBVIOUS
    <3>1. /\ Held(L, q1, tree, ref) /\ r \notin L /\ q2[r].handle = key
          /\ \A u \in L : q2[u].handle = q1[u].handle /\ DOMAIN ref = DOMAIN tree
      BY <1>5, <1>7, <1>8 DEF Locks, Held, Live
    <3>2. DOMAIN ref = DOMAIN tree
      BY <1>5 DEF Locks, Held
    <3>3. PrefixesOf(key) \subseteq DOMAIN ref
      BY <1>4, <3>2
    <3> QED BY <3>1, <3>3, LockHeld
  <2> QED BY <1>3, <1>8, <2>1 DEF Locks
<1>18. Columns(r)'
  <2>1. DivCeil(req[r].cached)' = n /\ SlotsEnd(r)' = n
    BY <1>4, <1>7, <1>8 DEF SlotsEnd
  <2>2. \A p \in Column : /\ n <= p /\ p < n => table'[r][p] # NoSlot
                          /\ n <= p => table'[r][p] = NoSlot
    <3>1. \A p \in Column : p \in Nat
      BY DEF Column
    <3>2. \A p \in Nat : ~(n <= p /\ p < n)
      BY <1>4
    <3> QED BY <1>12, <3>1, <3>2
  <2> QED BY <1>7, <1>8, <1>11, <2>1, <2>2 DEF Columns
<1>19. RowOnce(r)'
  BY <1>3, <1>5, <1>13 DEF RowOnce, Candidate
<1>20. Lengths(r)'
  <2>1. /\ x.cached < Len(x.text) /\ x.handle = SubSeq(Blocks(x.text), 1, Len(x.handle))
        /\ Len(x.handle) * PageSize <= x.cached /\ ~x.running /\ ~(x.inflight > 0)
        /\ x.inflight <= Drafts + 1 /\ x.accepted <= x.inflight
        /\ x.cached + x.inflight < Len(x.text)
    <3>1. 0 <= Drafts + 1 /\ ~(0 > 0) /\ 0 <= 0
      BY DEF SizesAssumption
    <3>2. PICK w : w = n * PageSize
      OBVIOUS
    <3>3. w \in Nat /\ w <= w /\ w + 0 = w
      BY <1>4, <3>2
    <3> QED BY <1>1, <1>4, <1>7, <3>1, <3>2, <3>3
  <2>2. MaxLen(r)' = Len(x.text)
    BY <1>8 DEF MaxLen
  <2> QED BY <1>8, <2>1, <2>2 DEF Lengths
<1>21. RowInv(r)'
  BY <1>18, <1>19, <1>20 DEF RowInv
<1>22. PagesMoveBack(r)
  <2>1. n - n = 0 /\ 0 - 0 = 0
    BY <1>4
  <2> QED BY <1>3, <1>6, <1>11, <2>1 DEF PagesMoveBack
<1>23. HandleLen(r)' \in Nat /\ PagesEnd(r)' \in Nat /\ HandleLen(r)' <= PagesEnd(r)'
  BY <1>4, <1>11
<1> QED BY <1>10, <1>14, <1>15, <1>16, <1>17, <1>21, <1>22, <1>23, RowStep
-----------------------------------------------------------------------------
(* Pages enter the tree *)

(* Of a key, the tree has the prefixes that are matched and no others. *)
LEMMA CachedOfKey ==
    ASSUME NEW f, PrefixClosedSet(DOMAIN f), NEW B, NEW key \in Seq(B)
    PROVE  \A n \in 1 .. Len(key) : SubSeq(key, 1, n) \in DOMAIN f <=> n <= MatchLen(f, key)
<1>1. PICK m, w : m = MatchLen(f, key) /\ w = Len(key)
  OBVIOUS
<1>2. w \in Nat /\ m \in 0 .. w /\ MatchesUpTo(f, key, m)
  <2>1. Len(key) \in Nat
    BY LenProperties
  <2> QED BY <1>1, <2>1, MatchIs
<1>3. ASSUME NEW n \in 1 .. w, n <= m PROVE SubSeq(key, 1, n) \in DOMAIN f
  <2>1. n \in 1 .. m
    BY <1>2, <1>3
  <2> QED BY <1>2, <2>1 DEF MatchesUpTo
<1>4. ASSUME NEW n \in 1 .. w, m < n, SubSeq(key, 1, n) \in DOMAIN f PROVE FALSE
  <2>1. m < w /\ m + 1 \in 1 .. n /\ n \in 0 .. w
    BY <1>2, <1>4
  <2>2. SubSeq(key, 1, m + 1) \notin DOMAIN f
    BY <1>1, <1>2, <2>1 DEF MatchesUpTo
  <2>3. SubSeq(SubSeq(key, 1, n), 1, m + 1) = SubSeq(key, 1, m + 1)
    <3> PICK one : one = 1
      OBVIOUS
    <3>1. one \in Nat \ {0} /\ m + 1 \in one .. n /\ n \in 0 .. Len(key)
      BY <1>1, <2>1
    <3> QED BY <3>1, PartOfPrefix
  <2>4. Len(SubSeq(key, 1, n)) = n
    BY <1>1, <2>1, PrefixIs
  <2>5. SubSeq(key, 1, m + 1) \in PrefixesOf(SubSeq(key, 1, n))
    BY <2>1, <2>3, <2>4 DEF PrefixesOf
  <2> QED BY <1>4, <2>2, <2>5 DEF PrefixClosedSet
<1>5. ASSUME NEW n \in 1 .. w PROVE SubSeq(key, 1, n) \in DOMAIN f <=> n <= m
  <2>1. n <= m \/ m < n
    BY <1>2
  <2>2. m < n => ~(n <= m)
    BY <1>2
  <2> QED BY <1>3, <1>4, <2>1, <2>2
<1> QED BY <1>1, <1>5

(* The tree with the prefixes of a key from the m-th on. *)
Inserts(key, m, pages) ==
    /\ \A k \in DOMAIN tree : k \in DOMAIN tree' /\ tree'[k] = tree[k]
    /\ \A k \in DOMAIN tree' : k \in DOMAIN tree
          \/ \E n \in m + 1 .. Len(key) : k = SubSeq(key, 1, n) /\ tree'[k] = pages[n]
    /\ \A n \in m + 1 .. Len(key) :
          SubSeq(key, 1, n) \in DOMAIN tree' /\ tree'[SubSeq(key, 1, n)] = pages[n]
    /\ \A n \in 1 .. Len(key) : SubSeq(key, 1, n) \in DOMAIN tree'
    /\ Cardinality(DOMAIN tree') = Cardinality(DOMAIN tree) + (Len(key) - m)

LEMMA InsertIs ==
    ASSUME TreeTypes, NEW key \in Seq(Seq(Token)), NEW pages, tree' = InsertPages(tree, key, pages)
    PROVE  TreeTypes' /\ Inserts(key, MatchLen(tree, key), pages)
<1>1. PICK m, w : m = MatchLen(tree, key) /\ w = Len(key)
  OBVIOUS
<1>2. w \in Nat /\ m \in 0 .. w
  <2>1. Len(key) \in Nat
    BY LenProperties
  <2> QED BY <1>1, <2>1, MatchIs
<1>3. \A n \in 1 .. w : /\ SubSeq(key, 1, n) \in DOMAIN tree <=> n <= m
                        /\ SubSeq(key, 1, n) \in Seq(Seq(Token)) /\ Len(SubSeq(key, 1, n)) = n
  <2>1. PrefixClosedSet(DOMAIN tree)
    BY DEF TreeTypes
  <2>2. \A n \in 1 .. w : n \in 0 .. Len(key)
    BY <1>1, <1>2
  <2> QED BY <1>1, <2>1, <2>2, CachedOfKey, PrefixIs
<1>4. PICK New : New = {SubSeq(key, 1, n) : n \in m + 1 .. w}
  OBVIOUS
<1>5. PrefixesOf(key) = {SubSeq(key, 1, n) : n \in 1 .. w}
  BY <1>1 DEF PrefixesOf
<1>6. \A n \in m + 1 .. w : n \in 1 .. w /\ ~(n <= m)
  BY <1>2
<1>7. New \cap DOMAIN tree = {} /\ New \subseteq PrefixesOf(key)
  BY <1>3, <1>4, <1>5, <1>6
<1>8. PrefixesOf(key) \subseteq DOMAIN tree \cup New
  <2>1. \A n \in 1 .. w : n <= m \/ n \in m + 1 .. w
    BY <1>2
  <2> QED BY <1>3, <1>4, <1>5, <2>1
<1>9. DOMAIN tree' = DOMAIN tree \cup PrefixesOf(key)
  BY DEF InsertPages
<1>10. DOMAIN tree' = DOMAIN tree \cup New
  BY <1>7, <1>8, <1>9
<1>11. \A k \in DOMAIN tree : k \in DOMAIN tree' /\ tree'[k] = tree[k]
  BY DEF InsertPages
<1>12. \A k \in New : tree'[k] = pages[Len(k)]
  BY <1>7, <1>9 DEF InsertPages
<1>13. \A n \in m + 1 .. w : SubSeq(key, 1, n) \in DOMAIN tree' /\ tree'[SubSeq(key, 1, n)] = pages[n]
  BY <1>3, <1>4, <1>6, <1>10, <1>12
<1>14. \A k \in DOMAIN tree' : k \in DOMAIN tree
          \/ \E n \in m + 1 .. w : k = SubSeq(key, 1, n) /\ tree'[k] = pages[n]
  BY <1>4, <1>10, <1>13
<1>15. TreeTypes'
  <2>1. DOMAIN tree' \subseteq Seq(Seq(Token)) \ {<<>>}
    <3>1. \A k \in New : k \in Seq(Seq(Token)) /\ k # <<>>
      <4>1. ASSUME NEW n \in m + 1 .. w PROVE SubSeq(key, 1, n) \in Seq(Seq(Token)) /\ SubSeq(key, 1, n) # <<>>
        <5>1. Len(SubSeq(key, 1, n)) = n /\ SubSeq(key, 1, n) \in Seq(Seq(Token)) /\ n # 0
          BY <1>2, <1>3, <1>6
        <5> QED BY <5>1, EmptySeq
      <4> QED BY <1>4, <4>1
    <3> QED BY <1>10, <3>1 DEF TreeTypes
  <2>2. IsFiniteSet(DOMAIN tree')
    BY <1>9, PrefixesFinite, FS_Union DEF TreeTypes
  <2>3. PrefixClosedSet(DOMAIN tree')
    <3>1. \A k \in PrefixesOf(key) : PrefixesOf(k) \subseteq PrefixesOf(key)
      BY PrefixTransitive
    <3>2. PrefixClosedSet(DOMAIN tree)
      BY DEF TreeTypes
    <3> QED BY <1>9, <3>1, <3>2 DEF PrefixClosedSet
  <2> QED BY <2>1, <2>2, <2>3 DEF TreeTypes
<1>16. \A n \in 1 .. w : SubSeq(key, 1, n) \in DOMAIN tree'
  BY <1>5, <1>9
<1>17. Cardinality(DOMAIN tree') = Cardinality(DOMAIN tree) + (w - m)
  <2>1. IsFiniteSet(m + 1 .. w) /\ Cardinality(m + 1 .. w) = w - m
    <3>1. PICK a \in Int : a = m + 1
      BY <1>2
    <3>2. IsFiniteSet(a .. w) /\ Cardinality(a .. w) = IF a > w THEN 0 ELSE w - a + 1
      BY <1>2, FS_Interval
    <3> QED BY <1>2, <3>1, <3>2
  <2>2. PICK I, f : I = m + 1 .. w /\ f = [n \in I |-> SubSeq(key, 1, n)]
    OBVIOUS
  <2>3. f \in Bijection(I, New)
    <3>1. \A i, j \in I : f[i] = f[j] => i = j
      BY <1>3, <1>6, <2>2
    <3>2. f \in [I -> New] /\ \A k \in New : \E i \in I : f[i] = k
      BY <1>4, <2>2
    <3>3. f \in Injection(I, New)
      BY <3>1, <3>2 DEF Injection, IsInjective
    <3>4. f \in Surjection(I, New)
      BY <3>2 DEF Surjection
    <3> QED BY <3>3, <3>4 DEF Bijection
  <2>4. IsFiniteSet(New) /\ Cardinality(New) = w - m
    <3>1. ExistsBijection(I, New)
      BY <2>3 DEF ExistsBijection
    <3> QED BY <2>1, <2>2, <3>1, FS_Bijection
  <2>5. Cardinality(DOMAIN tree \cup New) = Cardinality(DOMAIN tree) + Cardinality(New)
    <3>1. DOMAIN tree \cap New = {} /\ IsFiniteSet(DOMAIN tree)
      BY <1>7 DEF TreeTypes
    <3> QED BY <2>4, <3>1, DisjointUnion
  <2> QED BY <1>10, <2>4, <2>5
<1> QED BY <1>1, <1>11, <1>13, <1>14, <1>15, <1>16, <1>17 DEF Inserts

(* The columns of a request between lo and hi. *)
ColumnSlots(r, lo, hi) == {table[r][p] : p \in lo .. hi - 1}

(* The full pages of a request behind its handle are its own: those that   *)
(* are cached already are given back, the others go to the tree.            *)
LEMMA CacheIs ==
    ASSUME SizesAssumption, TextAssumption, NothingAssumption, SlotInv,
           NEW r \in Row, req[r] # NoReq, Cache(r)
    PROVE  LET key == Key(r)
               m   == MatchLen(tree, key)
               h   == HandleLen(r)
               n   == Len(key)
           IN  /\ key \in Seq(Seq(Token)) /\ n = req[r].cached \div PageSize
               /\ key = SubSeq(Blocks(req[r].text), 1, n)
               /\ h \in Nat /\ m \in Nat /\ n \in Nat /\ h <= m /\ m <= n
               /\ n <= DivCeil(req[r].cached) /\ n * PageSize <= req[r].cached
               /\ \A p \in h .. n - 1 : p \in Owned(r)
               /\ TreeTypes' /\ TreeOnce'
               /\ TreeSlots' = TreeSlots \cup ColumnSlots(r, m, n)
               /\ \A i \in 1 .. n : SubSeq(key, 1, i) \in DOMAIN tree'
               /\ Cardinality(DOMAIN tree') = Cardinality(DOMAIN tree) + (n - m)
<1>1. PICK key, m, h, n, c, t : /\ key = Key(r) /\ m = MatchLen(tree, key) /\ h = HandleLen(r)
                                /\ n = Len(key) /\ c = req[r].cached /\ t = req[r].text
  OBVIOUS
<1>2. /\ t \in Seq(Token) /\ t \in Text /\ c \in Nat /\ h \in Nat /\ req[r].handle = SubSeq(Blocks(t), 1, h)
      /\ h * PageSize <= c /\ c \in 0 .. Len(t) /\ c <= Len(t)
  <2>1. /\ Lengths(r) /\ t \in Seq(Token) /\ t \in Text /\ c \in Nat /\ h \in Nat /\ h = Len(req[r].handle)
        /\ MaxLen(r) \in Nat
    BY <1>1, RowIs
  <2>2. c < Len(t) /\ Len(t) \in Nat
    BY <1>1, <2>1 DEF Lengths, MaxLen
  <2>3. c \in 0 .. Len(t) /\ c <= Len(t)
    BY <2>1, <2>2
  <2> QED BY <1>1, <2>1, <2>3 DEF Lengths
<1>3. key = Blocks(SubSeq(t, 1, c))
  BY <1>1 DEF Key, Prefix
<1>4. /\ key \in Seq(Seq(Token)) /\ n = c \div PageSize /\ key = SubSeq(Blocks(t), 1, n)
      /\ h \in 0 .. n /\ SubSeq(key, 1, h) = req[r].handle
  <2>1. LET k == Blocks(SubSeq(t, 1, c))
        IN  /\ k \in Seq(Seq(Token)) /\ Len(k) = c \div PageSize
            /\ k = SubSeq(Blocks(t), 1, Len(k))
            /\ h \in 0 .. Len(k) /\ SubSeq(k, 1, h) = SubSeq(Blocks(t), 1, h)
    BY <1>2, KeyExtends, ZenonT(40)
  <2> QED BY <1>1, <1>2, <1>3, <2>1
<1>5. n \in Nat /\ n <= DivCeil(c) /\ n * PageSize <= c /\ DivCeil(c) \in Nat
  BY <1>2, <1>4, DivCeilIs
<1>6. Types /\ TreeTypes /\ TreeOnce /\ Locks /\ Apart /\ Columns(r) /\ RowOnce(r) /\ r \in Live
  BY DEF SlotInv, RowInv, Live
<1>7. m \in h .. n
  <2>1. PrefixesOf(SubSeq(key, 1, h)) \subseteq DOMAIN tree
    BY <1>4, <1>6 DEF Locks, Held
  <2>2. h \in 0 .. Len(key)
    BY <1>1, <1>4
  <2> QED BY <1>1, <1>4, <2>1, <2>2, MatchCovers
<1>8. m \in Nat /\ h <= m /\ m <= n
  BY <1>2, <1>5, <1>7
<1>9. ASSUME NEW p \in h .. n - 1 PROVE p \in Owned(r) /\ p \in Nat /\ p + 1 \in 1 .. n
  <2>0. PICK d : d = DivCeil(c)
    OBVIOUS
  <2>1. p \in Nat /\ h <= p /\ p < n /\ p < DivCeil(c)
    <3>1. h \in Nat /\ n \in Nat /\ d \in Nat /\ n <= d
      BY <1>2, <1>5, <2>0
    <3>2. p \in Nat /\ h <= p /\ p < n /\ p < d
      BY <3>1
    <3> QED BY <2>0, <3>2
  <2>2. p \in Column
    BY <1>2, <2>1, ColumnsReach
  <2>3. p < SlotsEnd(r)
    BY <1>1, <1>4, <2>1 DEF SlotsEnd
  <2>4. table[r][p] # NoSlot
    BY <1>1, <1>6, <2>1, <2>2, <2>3 DEF Columns
  <2>5. p + 1 \in 1 .. n
    BY <1>5, <2>1
  <2> QED BY <1>1, <2>1, <2>2, <2>4, <2>5 DEF Owned
<1>10. PICK pages : pages = [i \in 1 .. n |-> table[r][i - 1]]
  OBVIOUS
<1>11. tree' = InsertPages(tree, key, pages)
  BY <1>1, <1>10 DEF Cache
<1>12. /\ TreeTypes'
       /\ \A k \in DOMAIN tree : k \in DOMAIN tree' /\ tree'[k] = tree[k]
       /\ \A k \in DOMAIN tree' : k \in DOMAIN tree
             \/ \E i \in m + 1 .. n : k = SubSeq(key, 1, i) /\ tree'[k] = pages[i]
       /\ \A i \in m + 1 .. n : SubSeq(key, 1, i) \in DOMAIN tree' /\ tree'[SubSeq(key, 1, i)] = pages[i]
       /\ \A i \in 1 .. n : SubSeq(key, 1, i) \in DOMAIN tree'
       /\ Cardinality(DOMAIN tree') = Cardinality(DOMAIN tree) + (n - m)
  <2>1. TreeTypes
    BY <1>6
  <2>2. TreeTypes' /\ Inserts(key, MatchLen(tree, key), pages)
    BY <1>4, <1>11, <2>1, InsertIs
  <2>3. Inserts(key, m, pages)
    BY <1>1, <2>2
  <2> QED BY <1>1, <2>2, <2>3 DEF Inserts
<1>13. ASSUME NEW i \in m + 1 .. n
       PROVE  i - 1 \in m .. n - 1 /\ i - 1 \in Owned(r) /\ pages[i] = table[r][i - 1]
  <2>1. i \in 1 .. n /\ i - 1 \in h .. n - 1 /\ i - 1 \in m .. n - 1
    <3>1. h \in Nat /\ m \in Nat /\ n \in Nat /\ h <= m /\ m <= n
      BY <1>2, <1>5, <1>8
    <3> QED BY <3>1
  <2> QED BY <1>9, <1>10, <2>1
<1>14. TreeSlots' = TreeSlots \cup ColumnSlots(r, m, n)
  <2>1. ASSUME NEW s \in TreeSlots' PROVE s \in TreeSlots \cup ColumnSlots(r, m, n)
    <3>1. PICK k \in DOMAIN tree' : s = tree'[k]
      BY DEF TreeSlots
    <3>2. CASE k \in DOMAIN tree
      BY <1>12, <3>1, <3>2 DEF TreeSlots
    <3>3. CASE k \notin DOMAIN tree
      <4>1. PICK i \in m + 1 .. n : tree'[k] = pages[i]
        BY <1>12, <3>3
      <4>2. s = table[r][i - 1] /\ i - 1 \in m .. n - 1
        BY <1>13, <3>1, <4>1
      <4> QED BY <4>2 DEF ColumnSlots
    <3> QED BY <3>2, <3>3
  <2>2. \A s \in TreeSlots : s \in TreeSlots'
    BY <1>12 DEF TreeSlots
  <2>3. ASSUME NEW p \in m .. n - 1 PROVE table[r][p] \in TreeSlots'
    <3>1. p + 1 \in m + 1 .. n /\ p + 1 - 1 = p
      BY <1>5, <1>8
    <3>2. tree'[SubSeq(key, 1, p + 1)] = table[r][p] /\ SubSeq(key, 1, p + 1) \in DOMAIN tree'
      BY <1>12, <1>13, <3>1
    <3> QED BY <3>2 DEF TreeSlots
  <2> QED BY <2>1, <2>2, <2>3 DEF ColumnSlots
<1>15. TreeOnce'
  <2>1. \A x \in TreeSlots, p \in Owned(r) : x # table[r][p]
    BY <1>6 DEF Apart, Disjoint, PageSlots
  <2>2. \A k \in DOMAIN tree : tree'[k] \in TreeSlots
    BY <1>12 DEF TreeSlots
  <2>3. \A i \in m + 1 .. n : pages[i] \notin TreeSlots
    BY <1>13, <2>1
  <2>4. ASSUME NEW i \in m + 1 .. n, NEW j \in m + 1 .. n, pages[i] = pages[j] PROVE i = j
    <3>1. i - 1 = j - 1
      BY <1>6, <1>13, <2>4 DEF RowOnce
    <3>2. i \in Int /\ j \in Int
      OBVIOUS
    <3> QED BY <3>1, <3>2
  <2>5. ASSUME NEW k \in DOMAIN tree', NEW l \in DOMAIN tree', tree'[k] = tree'[l] PROVE k = l
    <3>1. CASE k \in DOMAIN tree /\ l \in DOMAIN tree
      BY <1>6, <1>12, <2>5, <3>1 DEF TreeOnce
    <3>2. \A x \in DOMAIN tree' : x \notin DOMAIN tree => tree'[x] \notin TreeSlots
      BY <1>12, <2>3
    <3>3. CASE k \notin DOMAIN tree /\ l \notin DOMAIN tree
      <4>1. PICK i \in m + 1 .. n : k = SubSeq(key, 1, i) /\ tree'[k] = pages[i]
        BY <1>12, <3>3
      <4>2. PICK j \in m + 1 .. n : l = SubSeq(key, 1, j) /\ tree'[l] = pages[j]
        BY <1>12, <3>3
      <4>3. i = j
        BY <2>4, <2>5, <4>1, <4>2
      <4> QED BY <4>1, <4>2, <4>3
    <3> QED BY <2>2, <2>5, <3>1, <3>2, <3>3
  <2> QED BY <2>5 DEF TreeOnce
<1> QED BY <1>1, <1>2, <1>4, <1>5, <1>8, <1>9, <1>12, <1>14, <1>15

(* The slots of a request: those given back, those cached, those it keeps. *)
KeptSlots(r, n) == {table[r][p] : p \in {q \in Owned(r) : n <= q}}

Splits(r, h, m, n) ==
    /\ PageSlots(r) = ColumnSlots(r, h, m) \cup ColumnSlots(r, m, n) \cup KeptSlots(r, n)
    /\ ColumnSlots(r, h, m) \cap ColumnSlots(r, m, n) = {}
    /\ ColumnSlots(r, h, m) \cap KeptSlots(r, n) = {}
    /\ ColumnSlots(r, m, n) \cap KeptSlots(r, n) = {}

LEMMA ColumnsSplit ==
    ASSUME NEW r, RowOnce(r), NEW h \in Nat, NEW m \in Nat, NEW n \in Nat, h <= m, m <= n,
           \A p \in h .. n - 1 : p \in Owned(r), \A p \in Owned(r) : p \in Nat /\ h <= p
    PROVE  Splits(r, h, m, n)
<1>1. PICK O, f : O = Owned(r) /\ f = table[r]
  OBVIOUS
<1>2. PICK I, J, K : I = h .. m - 1 /\ J = m .. n - 1 /\ K = {q \in O : n <= q}
  OBVIOUS
<1>3. I \subseteq O /\ J \subseteq O /\ K \subseteq O
  <2>1. I \subseteq h .. n - 1 /\ J \subseteq h .. n - 1
    BY <1>2
  <2> QED BY <1>1, <1>2, <2>1
<1>4. I \cap J = {} /\ I \cap K = {} /\ J \cap K = {}
  BY <1>2
<1>5. O \subseteq I \cup J \cup K
  <2>1. ASSUME NEW p \in O PROVE p \in I \cup J \cup K
    <3>1. p \in Nat /\ h <= p
      BY <1>1
    <3>2. p < m \/ (m <= p /\ p < n) \/ n <= p
      BY <3>1
    <3> QED BY <1>2, <3>1, <3>2
  <2> QED BY <2>1
<1>6. \A p, q \in O : f[p] = f[q] => p = q
  BY <1>1 DEF RowOnce
<1>7. PICK A, B, C : A = {f[p] : p \in I} /\ B = {f[p] : p \in J} /\ C = {f[p] : p \in K}
  OBVIOUS
<1>8. {f[p] : p \in O} = A \cup B \cup C
  <2>1. \A x \in {f[p] : p \in O} : x \in A \cup B \cup C
    BY <1>5, <1>7
  <2>2. \A x \in A \cup B \cup C : x \in {f[p] : p \in O}
    BY <1>3, <1>7
  <2> QED BY <2>1, <2>2
<1>9. A \cap B = {} /\ A \cap C = {} /\ B \cap C = {}
  <2>1. A \cap B = {}
    BY <1>3, <1>4, <1>6, <1>7
  <2>2. A \cap C = {}
    BY <1>3, <1>4, <1>6, <1>7
  <2>3. B \cap C = {}
    BY <1>3, <1>4, <1>6, <1>7
  <2> QED BY <2>1, <2>2, <2>3
<1>10. A = ColumnSlots(r, h, m) /\ B = ColumnSlots(r, m, n)
  BY <1>1, <1>2, <1>7 DEF ColumnSlots
<1>11. C = KeptSlots(r, n)
  BY <1>1, <1>2, <1>7 DEF KeptSlots
<1>12. PageSlots(r) = A \cup B \cup C
  BY <1>1, <1>8 DEF PageSlots
<1> QED BY <1>9, <1>10, <1>11, <1>12 DEF Splits

(* The pages of a request that is cached: what its columns held goes to the *)
(* free list, to the tree, or stays.                                        *)
CachesSlots(r, h, m, n, d) ==
    /\ Splits(r, h, m, n)
    /\ OwnSlots(r, h, m) = ColumnSlots(r, h, m)
    /\ OwnSlots(r, n, d) = KeptSlots(r, n)
    /\ TreeSlots' = TreeSlots \cup ColumnSlots(r, m, n)

LEMMA CachedSlots ==
    ASSUME SizesAssumption, TextAssumption, NothingAssumption, SlotInv,
           NEW r \in Row, req[r] # NoReq, Cache(r)
    PROVE  CachesSlots(r, HandleLen(r), MatchLen(tree, Key(r)), Len(Key(r)), DivCeil(req[r].cached))
<1>1. PICK m, n, h, d : /\ m = MatchLen(tree, Key(r)) /\ n = Len(Key(r)) /\ h = HandleLen(r)
                        /\ d = DivCeil(req[r].cached)
  OBVIOUS
<1>2. /\ h \in Nat /\ m \in Nat /\ n \in Nat /\ h <= m /\ m <= n /\ n <= d
      /\ \A p \in h .. n - 1 : p \in Owned(r)
      /\ TreeSlots' = TreeSlots \cup ColumnSlots(r, m, n)
  BY <1>1, CacheIs
<1>3. /\ RowOnce(r) /\ Columns(r) /\ req[r].cached \in Nat /\ d \in Nat
      /\ \A p \in Nat : p < d => p \in Column
  <2>1. /\ RowOnce(r) /\ Columns(r) /\ Lengths(r) /\ req[r].cached \in Nat /\ req[r].text \in Text
        /\ MaxLen(r) \in Nat
    BY RowIs
  <2>2. req[r].cached \in 0 .. Len(req[r].text)
    <3>1. PICK c, w : c = req[r].cached /\ w = Len(req[r].text)
      OBVIOUS
    <3>2. c \in Nat /\ w \in Nat /\ c < w
      BY <2>1, <3>1 DEF Lengths, MaxLen
    <3> QED BY <3>1, <3>2
  <2> QED BY <1>1, <2>1, <2>2, DivCeilIs, ColumnsReach
<1>4. \A p \in Owned(r) : p \in Nat /\ h <= p /\ table[r][p] # NoSlot /\ p < d
  <2>1. \A p \in Owned(r) : p \in Column /\ h <= p /\ table[r][p] # NoSlot
    BY <1>1 DEF Owned
  <2>2. \A p \in Column : p \in Nat
    BY DEF Column
  <2>3. \A p \in Column : d <= p => table[r][p] = NoSlot
    BY <1>1, <1>3 DEF Columns
  <2>4. \A p \in Nat : d <= p \/ p < d
    BY <1>3
  <2> QED BY <2>1, <2>2, <2>3, <2>4
<1>5. PICK A, C : A = ColumnSlots(r, h, m) /\ C = KeptSlots(r, n)
  OBVIOUS
<1>6. Splits(r, h, m, n)
  <2>1. \A p \in Owned(r) : p \in Nat /\ h <= p
    BY <1>4
  <2> QED BY <1>2, <1>3, <2>1, ColumnsSplit
<1>7. OwnSlots(r, h, m) = A
  <2>1. \A p \in h .. m - 1 : table[r][p] # NoSlot
    <3>1. \A p \in h .. m - 1 : p \in h .. n - 1
      BY <1>2
    <3> QED BY <1>2, <1>4, <3>1
  <2> QED BY <1>5, <2>1 DEF OwnSlots, ColumnSlots
<1>8. OwnSlots(r, n, d) = C
  <2>1. ASSUME NEW p \in n .. d - 1, table[r][p] # NoSlot PROVE p \in Owned(r) /\ n <= p
    <3>0. h \in Nat /\ n \in Nat /\ d \in Nat /\ h <= n
      <4>1. h \in Nat /\ m \in Nat /\ n \in Nat /\ h <= m /\ m <= n
        BY <1>2
      <4> QED BY <1>3, <4>1
    <3>1. p \in Nat /\ h <= p /\ p < d /\ n <= p
      BY <3>0
    <3> QED BY <1>1, <1>3, <2>1, <3>1 DEF Owned
  <2>2. \A p \in Owned(r) : n <= p => p \in n .. d - 1
    BY <1>2, <1>3, <1>4
  <2>3. \A s \in OwnSlots(r, n, d) : s \in C
    BY <1>5, <2>1 DEF OwnSlots, KeptSlots
  <2>4. \A s \in C : s \in OwnSlots(r, n, d)
    BY <1>4, <1>5, <2>2 DEF OwnSlots, KeptSlots
  <2> QED BY <2>3, <2>4
<1>9. CachesSlots(r, h, m, n, d)
  BY <1>2, <1>5, <1>6, <1>7, <1>8 DEF CachesSlots
<1> QED BY <1>1, <1>9

LEMMA PrefillDoneKeeps ==
    ASSUME SizesAssumption, TextAssumption, NothingAssumption, SlotInv,
           NEW r \in Row, PrefillDone(r)
    PROVE  SlotInv'
<1>1. PICK key, m, h, n, c, d, e :
         /\ key = Key(r) /\ m = MatchLen(tree, key) /\ h = HandleLen(r) /\ n = Len(key)
         /\ c = req[r].cached /\ d = DivCeil(c) /\ e = PagesEnd(r)
  OBVIOUS
<1>2. /\ req[r] # NoReq /\ ~req[r].running /\ c = PromptLen(r) /\ Cache(r)
      /\ ref' = LockRefs(UnlockRefs(InsertRefs(tree, ref, key), req[r].handle), key)
      /\ freePages' = freePages + m - Len(req[r].handle)
      /\ freeStates' = freeStates \cup OwnSlots(r, Len(req[r].handle), m)
      /\ table' = Repointed(r)
      /\ req' = [req EXCEPT ![r].running = TRUE, ![r].handle = key]
      /\ speculating' = speculating /\ reserve' = reserve
  BY <1>1 DEF PrefillDone
<1>3. /\ r \in Live /\ req[r] \in Request /\ Lengths(r) /\ Columns(r) /\ RowOnce(r) /\ c \in Nat \ {0}
      /\ h = Len(req[r].handle) /\ e = DivCeil(AllocatedLen(r)) /\ e \in Nat /\ h \in Nat
      /\ d <= e /\ d \in Nat /\ req[r].running \in BOOLEAN
  <2>1. c \in Nat \ {0}
    BY <1>2, RowIs
  <2> QED BY <1>1, <1>2, <2>1, RowIs, DivCeilIs
<1>4. /\ key \in Seq(Seq(Token)) /\ n = c \div PageSize
      /\ key = SubSeq(Blocks(req[r].text), 1, n)
      /\ m \in Nat /\ n \in Nat /\ h <= m /\ m <= n /\ n <= d /\ n * PageSize <= c
      /\ TreeTypes' /\ TreeOnce'
      /\ \A i \in 1 .. n : SubSeq(key, 1, i) \in DOMAIN tree'
      /\ Cardinality(DOMAIN tree') = Cardinality(DOMAIN tree) + (n - m)
  BY <1>1, <1>2, CacheIs
<1>26. /\ h \in Nat /\ m \in Nat /\ n \in Nat /\ d \in Nat /\ e \in Nat
       /\ h <= m /\ m <= n /\ n <= d /\ d <= e
  BY <1>3, <1>4
<1>5. Types /\ TreeTypes /\ TreeOnce /\ Locks /\ Apart
  BY DEF SlotInv
<1>6. PICK A, B, C : A = ColumnSlots(r, h, m) /\ B = ColumnSlots(r, m, n) /\ C = KeptSlots(r, n)
  OBVIOUS
<1>7. /\ PageSlots(r) = A \cup B \cup C
      /\ A \cap B = {} /\ A \cap C = {} /\ B \cap C = {}
      /\ freeStates' = freeStates \cup A
      /\ TreeSlots' = TreeSlots \cup B
  <2>1. CachesSlots(r, h, m, n, d)
    BY <1>1, <1>2, CachedSlots
  <2> QED BY <1>2, <1>3, <1>6, <2>1 DEF CachesSlots, Splits
<1>8. PICK x : x = [req[r] EXCEPT !.running = TRUE, !.handle = key]
  OBVIOUS
<1>9. /\ x \in Request /\ x # NoReq /\ x.handle = key /\ x.running = TRUE /\ x.cached = c
      /\ x.text = req[r].text /\ x.inflight = req[r].inflight /\ x.accepted = req[r].accepted
  BY <1>1, <1>3, <1>4, <1>8 DEF Request, NothingAssumption
<1>10. /\ req' = [q \in Row |-> req'[q]] /\ req'[r] = x /\ \A q \in Row : q # r => req'[q] = req[q]
       /\ Live' = Live /\ \A q \in Live' : req'[q] \in Request
  <2>1. req = [q \in Row |-> req[q]] /\ \A q \in Live : req[q] \in Request
    BY <1>5 DEF Types
  <2>2. req' = [q \in Row |-> IF q = r THEN x ELSE req[q]]
    BY <1>2, <1>8, <2>1
  <2>3. Live' = Live
    BY <1>2, <1>9, <2>2 DEF Live
  <2> QED BY <1>9, <2>1, <2>2, <2>3 DEF Live
<1>11. /\ table' \in [Row -> [Column -> Slot \cup {NoSlot}]]
       /\ \A q \in Row : q # r => table'[q] = table[q]
       /\ \A p \in Column : n <= p => table'[r][p] = table[r][p]
  <2> PICK g : g = [p \in Column |-> IF p < n THEN MatchedPages(tree', key)[p + 1] ELSE table[r][p]]
    OBVIOUS
  <2>1. ASSUME NEW p \in Column, p < n PROVE MatchedPages(tree', key)[p + 1] \in TreeSlots'
    <3>1. p \in Nat
      BY DEF Column
    <3>2. p + 1 \in 1 .. n
      BY <1>4, <2>1, <3>1
    <3>3. SubSeq(key, 1, p + 1) \in DOMAIN tree'
      BY <1>4, <3>2
    <3>4. MatchedPages(tree', key)[p + 1] = tree'[SubSeq(key, 1, p + 1)]
      BY <1>1, <3>2 DEF MatchedPages
    <3> QED BY <3>3, <3>4 DEF TreeSlots
  <2>2. TreeSlots' \subseteq Slot
    <3>1. TreeSlots \subseteq AllSlots /\ PageSlots(r) \subseteq AllSlots /\ AllSlots \subseteq Slot
      BY <1>5, SlotsIn
    <3> QED BY <1>7, <3>1
  <2>3. table \in [Row -> [Column -> Slot \cup {NoSlot}]]
    BY <1>5 DEF Types
  <2>4. g \in [Column -> Slot \cup {NoSlot}]
    BY <2>1, <2>2, <2>3
  <2>5. table' = [table EXCEPT ![r] = g]
    <3>1. Len(MatchedPages(tree', key)) = n
      <4>1. PICK f : f = [i \in 1 .. n |-> tree'[SubSeq(key, 1, i)]]
        OBVIOUS
      <4>2. n \in Nat /\ Len(key) = n
        BY <1>1, <1>4
      <4>3. MatchedPages(tree', key) = f
        BY <4>1, <4>2 DEF MatchedPages
      <4>4. Len(f) = n
        BY <4>1, <4>2
      <4> QED BY <4>3, <4>4
    <3>2. Len(Key(r)) = n
      BY <1>1, <1>4
    <3> QED BY <1>1, <1>2, <3>1, <3>2 DEF Repointed
  <2>6. /\ table' \in [Row -> [Column -> Slot \cup {NoSlot}]] /\ table'[r] = g
        /\ \A q \in Row : q # r => table'[q] = table[q]
    BY <2>3, <2>4, <2>5
  <2>7. \A p \in Column : n <= p => ~(p < n)
    <3>1. \A p \in Column : p \in Nat
      BY DEF Column
    <3>2. \A p \in Nat : n <= p => ~(p < n)
      BY <1>4
    <3> QED BY <3>1, <3>2
  <2> QED BY <2>6, <2>7
<1>12. OnlyRow(r)
  BY <1>2, <1>10, <1>11 DEF OnlyRow
<1>13. HandleLen(r)' = n /\ PagesEnd(r)' = e
  <2>1. AllocatedLen(r)' = AllocatedLen(r)
    BY <1>1, <1>9, <1>10 DEF AllocatedLen
  <2> QED BY <1>1, <1>3, <1>9, <1>10, <2>1 DEF HandleLen, PagesEnd
<1>14. Owned(r)' = {q \in Owned(r) : n <= q} /\ \A p \in Owned(r)' : table'[r][p] = table[r][p]
  <2>1. \A p \in Column : n <= p => h <= p
    <3>1. \A p \in Column : p \in Nat
      BY DEF Column
    <3>2. \A p \in Nat : n <= p => h <= p
      BY <1>26
    <3> QED BY <3>1, <3>2
  <2>2. Owned(r)' = {q \in Owned(r) : n <= q}
    BY <1>1, <1>11, <1>13, <2>1 DEF Owned
  <2>3. \A p \in Owned(r)' : p \in Column /\ n <= p
    BY <1>13 DEF Owned
  <2> QED BY <1>11, <2>2, <2>3
<1>15. PageSlots(r)' = C /\ ReserveSlots(r)' = ReserveSlots(r)
  BY <1>2, <1>6, <1>14 DEF KeptSlots, PageSlots, ReserveSlots, Candidate
<1>16. SlotsMove(r)
  <2>1. PICK F, T, P, R : F = freeStates /\ T = TreeSlots /\ P = PageSlots(r) /\ R = ReserveSlots(r)
    OBVIOUS
  <2>2. Disjoint(F, T, P, R) /\ P = A \cup B \cup C
    BY <1>5, <1>7, <2>1 DEF Apart
  <2>3. /\ freeStates' = F \cup A /\ TreeSlots' = T \cup B /\ PageSlots(r)' = C /\ ReserveSlots(r)' = R
        /\ RowSlots(r)' = C \cup R /\ RowSlots(r) = P \cup R
    BY <1>7, <1>15, <2>1 DEF RowSlots
  <2>4. Disjoint(F \cup A, T \cup B, C, R)
    BY <1>7, <2>2 DEF Disjoint
  <2>5. (F \cup A) \cup (T \cup B) \cup (C \cup R) = F \cup T \cup (P \cup R)
    BY <2>2
  <2> QED BY <2>1, <2>3, <2>4, <2>5 DEF SlotsMove
<1>17. freePages' = freePages + m - h /\ freePages' \in Nat
  <2>1. freePages' = freePages + m - h /\ freePages \in Nat
    BY <1>2, <1>3, <1>5 DEF Types
  <2> QED BY <1>26, <2>1
<1>18. Types'
  BY <1>2, <1>5, <1>10, <1>11, <1>17 DEF Types, Candidate
<1>19. Locks'
  <2>1. PICK L, q2, q1, c1, c2, r1, r2 : /\ L = Live /\ q2 = req' /\ q1 = req /\ c1 = tree /\ c2 = tree'
                                         /\ r1 = ref /\ r2 = ref'
    OBVIOUS
  <2>2. /\ Held(L, q1, c1, r1) /\ r \in L /\ q2[r].handle = key
        /\ \A v \in L : v # r => q2[v].handle = q1[v].handle
    BY <1>3, <1>5, <1>9, <1>10, <2>1 DEF Locks, Live
  <2>3. PICK pages : c2 = InsertPages(c1, key, pages)
    BY <1>1, <1>2, <2>1 DEF Cache
  <2>4. r2 = LockRefs(UnlockRefs(InsertRefs(c1, r1, key), q1[r].handle), key)
    BY <1>2, <2>1
  <2>5. Held(L, q2, c2, r2)
    BY <2>2, <2>3, <2>4, RelockHeld
  <2> QED BY <1>10, <2>1, <2>5 DEF Locks
<1>20. Columns(r)'
  <2>1. DivCeil(req[r].cached)' = d
    BY <1>1, <1>9, <1>10
  <2>2. SlotsEnd(r)' = n \/ SlotsEnd(r)' = d
    BY <1>1, <1>4, <1>9, <1>10 DEF SlotsEnd
  <2>3. SlotsEnd(r) = d
    BY <1>1, <1>2 DEF SlotsEnd
  <2>4. ASSUME NEW p \in Column
        PROVE  /\ n <= p /\ p < SlotsEnd(r)' => table'[r][p] # NoSlot
               /\ d <= p => table'[r][p] = NoSlot
    <3>1. p \in Nat
      BY DEF Column
    <3>2. n <= p /\ p < SlotsEnd(r)' => h <= p /\ p < d
      BY <1>26, <2>2, <3>1
    <3>3. d <= p => n <= p
      BY <1>26, <3>1
    <3>4. /\ h <= p /\ p < d => table[r][p] # NoSlot
          /\ d <= p => table[r][p] = NoSlot
      BY <1>1, <1>2, <1>3, <2>3 DEF Columns
    <3> QED BY <1>11, <3>2, <3>3, <3>4
  <2> QED BY <1>9, <1>10, <1>13, <2>1, <2>4 DEF Columns
<1>21. RowOnce(r)'
  <2>1. \A p, q \in Owned(r)' : table'[r][p] = table'[r][q] => p = q
    BY <1>3, <1>14 DEF RowOnce
  <2> QED BY <1>2, <1>3, <2>1 DEF RowOnce, Candidate
<1>22. Lengths(r)'
  <2>1. c > 0
    BY <1>3
  <2>2. /\ c < MaxLen(r) /\ req[r].inflight <= Drafts + 1 /\ c + req[r].inflight < MaxLen(r)
        /\ req[r].accepted <= req[r].inflight
        /\ req[r].inflight > 0 => speculating /\ req[r].accepted > 0
    BY <1>1, <1>3 DEF Lengths
  <2>3. MaxLen(r)' = MaxLen(r)
    BY <1>9, <1>10 DEF MaxLen
  <2>4. x.handle = SubSeq(Blocks(x.text), 1, Len(x.handle)) /\ Len(x.handle) * PageSize <= x.cached
    BY <1>1, <1>4, <1>9
  <2> QED BY <1>2, <1>9, <1>10, <2>1, <2>2, <2>3, <2>4 DEF Lengths
<1>23. RowInv(r)'
  BY <1>20, <1>21, <1>22 DEF RowInv
<1>24. PagesMoveBack(r)
  <2>1. PICK t, v : t = Cardinality(DOMAIN tree) /\ v = freePages
    OBVIOUS
  <2>2. t \in Nat /\ v \in Nat
    BY <1>5, <2>1, FS_CardinalityType DEF TreeTypes, Types
  <2>3. (v + m - h) + (t + (n - m)) + (e - n) = v + t + (e - h)
    BY <1>26, <2>2, SMTT(30)
  <2>4. freePages' + Cardinality(DOMAIN tree') + (e - n) = freePages + Cardinality(DOMAIN tree) + (e - h)
    <3>1. freePages' = v + m - h /\ Cardinality(DOMAIN tree') = t + (n - m)
      BY <1>4, <1>17, <2>1
    <3> QED BY <2>1, <2>3, <3>1
  <2> QED BY <1>1, <1>13, <2>4 DEF PagesMoveBack
<1>25. HandleLen(r)' \in Nat /\ PagesEnd(r)' \in Nat /\ HandleLen(r)' <= PagesEnd(r)'
  <2>1. n \in Nat /\ e \in Nat /\ n <= e
    BY <1>3, <1>4
  <2> QED BY <1>13, <2>1
<1> QED BY <1>4, <1>12, <1>16, <1>18, <1>19, <1>23, <1>24, <1>25, RowStep

LEMMA ReleaseKeeps ==
    ASSUME SizesAssumption, TextAssumption, NothingAssumption, SlotInv,
           NEW r \in Row, Release(r)
    PROVE  SlotInv'
<1>1. PICK key, m, h, n, d, e :
         /\ key = Key(r) /\ m = MatchLen(tree, key) /\ h = HandleLen(r) /\ n = Len(key)
         /\ d = DivCeil(req[r].cached) /\ e = PagesEnd(r)
  OBVIOUS
<1>2. /\ req[r] # NoReq /\ Cache(r)
      /\ ref' = UnlockRefs(InsertRefs(tree, ref, key), req[r].handle)
      /\ freePages' = freePages + (m - Len(req[r].handle)) + (DivCeil(AllocatedLen(r)) - n)
      /\ freeStates' = freeStates \cup OwnSlots(r, Len(req[r].handle), m) \cup OwnSlots(r, n, d)
      /\ table' = [table EXCEPT ![r] = [p \in Column |-> NoSlot]]
      /\ req' = [req EXCEPT ![r] = NoReq]
      /\ speculating' = speculating /\ reserve' = reserve
  BY <1>1 DEF Release
<1>3. /\ r \in Live /\ RowOnce(r) /\ h = Len(req[r].handle) /\ h \in Nat
      /\ e = DivCeil(AllocatedLen(r)) /\ e \in Nat /\ d <= e /\ d \in Nat
  <2>1. req[r].cached \in Nat
    BY <1>2, RowIs
  <2> QED BY <1>1, <1>2, <2>1, RowIs, DivCeilIs
<1>4. /\ m \in Nat /\ n \in Nat /\ h <= m /\ m <= n /\ n <= d
      /\ TreeTypes' /\ TreeOnce'
      /\ Cardinality(DOMAIN tree') = Cardinality(DOMAIN tree) + (n - m)
  BY <1>1, <1>2, CacheIs
<1>26. /\ h \in Nat /\ m \in Nat /\ n \in Nat /\ d \in Nat /\ e \in Nat
       /\ h <= m /\ m <= n /\ n <= d /\ d <= e
  BY <1>3, <1>4
<1>5. Types /\ TreeTypes /\ TreeOnce /\ Locks /\ Apart
  BY DEF SlotInv
<1>6. PICK A, B, C : A = ColumnSlots(r, h, m) /\ B = ColumnSlots(r, m, n) /\ C = KeptSlots(r, n)
  OBVIOUS
<1>7. /\ PageSlots(r) = A \cup B \cup C
      /\ A \cap B = {} /\ A \cap C = {} /\ B \cap C = {}
      /\ freeStates' = freeStates \cup A \cup C
      /\ TreeSlots' = TreeSlots \cup B
  <2>1. CachesSlots(r, h, m, n, d)
    BY <1>1, <1>2, CachedSlots
  <2> QED BY <1>2, <1>3, <1>6, <2>1 DEF CachesSlots, Splits
<1>8. /\ req' = [q \in Row |-> req'[q]] /\ req'[r] = NoReq /\ \A q \in Row : q # r => req'[q] = req[q]
      /\ Live' = Live \ {r} /\ \A q \in Live' : req'[q] \in Request
      /\ table' \in [Row -> [Column -> Slot \cup {NoSlot}]]
      /\ \A q \in Row : q # r => table'[q] = table[q]
      /\ \A p \in Column : table'[r][p] = NoSlot
  <2>1. req = [q \in Row |-> req[q]] /\ \A q \in Live : req[q] \in Request
    BY <1>5 DEF Types
  <2>2. req' = [q \in Row |-> IF q = r THEN NoReq ELSE req[q]]
    BY <1>2, <2>1
  <2>3. Live' = Live \ {r}
    BY <2>2 DEF Live
  <2>4. table \in [Row -> [Column -> Slot \cup {NoSlot}]]
    BY <1>5 DEF Types
  <2> QED BY <1>2, <2>1, <2>2, <2>3, <2>4 DEF Live
<1>9. OnlyRow(r)
  BY <1>2, <1>8 DEF OnlyRow
<1>10. RowInv(r)'
  <2>1. Columns(r)'
    BY <1>8 DEF Columns
  <2>2. Owned(r)' = {}
    BY <1>8 DEF Owned
  <2>3. RowOnce(r)'
    BY <1>2, <1>3, <2>2 DEF RowOnce, Candidate
  <2> QED BY <1>8, <2>1, <2>3 DEF RowInv
<1>11. HandleLen(r)' = 0 /\ PagesEnd(r)' = 0 /\ PageSlots(r)' = {} /\ ReserveSlots(r)' = ReserveSlots(r)
  <2>1. Owned(r)' = {}
    BY <1>8 DEF Owned
  <2> QED BY <1>2, <1>8, <2>1 DEF PageSlots, HandleLen, PagesEnd, ReserveSlots, Candidate
<1>12. SlotsMove(r)
  <2>1. PICK F, T, P, R : F = freeStates /\ T = TreeSlots /\ P = PageSlots(r) /\ R = ReserveSlots(r)
    OBVIOUS
  <2>2. Disjoint(F, T, P, R) /\ P = A \cup B \cup C
    BY <1>5, <1>7, <2>1 DEF Apart
  <2>3. /\ freeStates' = F \cup A \cup C /\ TreeSlots' = T \cup B /\ PageSlots(r)' = {} /\ ReserveSlots(r)' = R
        /\ RowSlots(r)' = {} \cup R /\ RowSlots(r) = P \cup R
    BY <1>7, <1>11, <2>1 DEF RowSlots
  <2>4. Disjoint(F \cup A \cup C, T \cup B, {}, R)
    BY <1>7, <2>2 DEF Disjoint
  <2>5. (F \cup A \cup C) \cup (T \cup B) \cup ({} \cup R) = F \cup T \cup (P \cup R)
    BY <2>2
  <2> QED BY <2>1, <2>3, <2>4, <2>5 DEF SlotsMove
<1>13. freePages' = freePages + (m - h) + (e - n) /\ freePages' \in Nat
  <2>1. freePages' = freePages + (m - h) + (e - n) /\ freePages \in Nat
    BY <1>2, <1>3, <1>5 DEF Types
  <2> QED BY <1>26, <2>1
<1>14. Types'
  BY <1>2, <1>5, <1>8, <1>13 DEF Types, Candidate
<1>15. Locks'
  <2>1. PICK L, q2, q1, c1, c2, r1, r2 : /\ L = Live /\ q2 = req' /\ q1 = req /\ c1 = tree /\ c2 = tree'
                                         /\ r1 = ref /\ r2 = ref'
    OBVIOUS
  <2>2. /\ Held(L, q1, c1, r1) /\ r \in L
        /\ \A v \in L \ {r} : q2[v].handle = q1[v].handle
    BY <1>3, <1>5, <1>8, <2>1 DEF Locks, Live
  <2>3. PICK pages : c2 = InsertPages(c1, key, pages)
    BY <1>1, <1>2, <2>1 DEF Cache
  <2>4. PICK s : s = InsertRefs(c1, r1, key)
    OBVIOUS
  <2>5. Held(L, q1, c2, s)
    BY <2>2, <2>3, <2>4, InsertHeld
  <2>6. r2 = UnlockRefs(s, q1[r].handle)
    BY <1>2, <2>1, <2>4
  <2>7. Held(L \ {r}, q1, c2, r2)
    BY <2>2, <2>5, <2>6, UnlockHeld
  <2>8. Held(L \ {r}, q2, c2, r2)
    <3>1. PICK M : M = L \ {r}
      OBVIOUS
    <3> QED BY <2>2, <2>7, <3>1, SameHandles
  <2> QED BY <1>8, <2>1, <2>8 DEF Locks
<1>16. PagesMoveBack(r)
  <2>1. PICK t, v : t = Cardinality(DOMAIN tree) /\ v = freePages
    OBVIOUS
  <2>2. t \in Nat /\ v \in Nat
    BY <1>5, <2>1, FS_CardinalityType DEF TreeTypes, Types
  <2>3. (v + (m - h) + (e - n)) + (t + (n - m)) + (0 - 0) = v + t + (e - h)
    BY <1>26, <2>2
  <2>4. freePages' + Cardinality(DOMAIN tree') + (0 - 0) = freePages + Cardinality(DOMAIN tree) + (e - h)
    BY <1>4, <1>13, <2>1, <2>3
  <2> QED BY <1>1, <1>11, <2>4 DEF PagesMoveBack
<1>17. HandleLen(r)' \in Nat /\ PagesEnd(r)' \in Nat /\ HandleLen(r)' <= PagesEnd(r)'
  BY <1>11
<1> QED BY <1>4, <1>9, <1>10, <1>12, <1>14, <1>15, <1>16, <1>17, RowStep
-----------------------------------------------------------------------------
(* The engine starts *)

(* Numbers in w rows of d. *)
Number(d, p, j) == p * d + j

Grid(w, d, e) ==
    /\ \A p \in 0 .. w - 1, j \in 0 .. d - 1 : Number(d, p, j) \in 0 .. e - 1
    /\ \A p, q \in Nat : \A i, j \in 0 .. d - 1 : Number(d, p, i) = Number(d, q, j) => p = q /\ i = j
    /\ \A x \in 0 .. e - 1 : \E p \in 0 .. w - 1, j \in 0 .. d - 1 : x = Number(d, p, j)

LEMMA GridIs ==
    ASSUME NEW d \in Nat \ {0}, NEW w \in Nat
    PROVE  Grid(w, d, w * d)
<1>1. ASSUME NEW p \in Nat, NEW q \in Nat, p < q PROVE p * d + d <= q * d /\ p * d \in Nat /\ q * d \in Nat
  <2>1. (p + 1) * d <= q * d
    BY <1>1
  <2>2. (p + 1) * d = p * d + d
    BY <1>1
  <2> QED BY <1>1, <2>1, <2>2
<1>2. ASSUME NEW p \in 0 .. w - 1, NEW j \in 0 .. d - 1 PROVE p * d + j \in 0 .. w * d - 1
  <2>1. p \in Nat /\ p < w
    OBVIOUS
  <2>2. PICK x, y : x = p * d /\ y = w * d
    OBVIOUS
  <2>3. x \in Nat /\ y \in Nat /\ x + d <= y
    BY <1>1, <2>1, <2>2
  <2>4. x + j \in 0 .. y - 1
    BY <2>3
  <2> QED BY <2>2, <2>4
<1>3. ASSUME NEW p \in Nat, NEW q \in Nat, NEW i \in 0 .. d - 1, NEW j \in 0 .. d - 1,
             p * d + i = q * d + j
      PROVE  p = q /\ i = j
  <2>1. PICK x, y : x = p * d /\ y = q * d
    OBVIOUS
  <2>2. x \in Nat /\ y \in Nat /\ x + i = y + j
    BY <1>3, <2>1
  <2>3. ~(p < q)
    <3>1. p < q => x + d <= y
      BY <1>1, <2>1
    <3> QED BY <2>2, <3>1
  <2>4. ~(q < p)
    <3>1. q < p => y + d <= x
      BY <1>1, <2>1
    <3> QED BY <2>2, <3>1
  <2>5. p = q
    BY <2>3, <2>4
  <2> QED BY <2>1, <2>2, <2>5
<1>4. ASSUME NEW x \in 0 .. w * d - 1 PROVE \E p \in 0 .. w - 1, j \in 0 .. d - 1 : x = p * d + j
  <2>1. PICK y : y = w * d
    OBVIOUS
  <2>2. y \in Nat /\ x \in Nat /\ x < y
    BY <2>1
  <2>3. PICK p, j : p = x \div d /\ j = x % d
    OBVIOUS
  <2>4. p \in Nat /\ j \in 0 .. d - 1 /\ x = p * d + j
    BY <2>2, <2>3
  <2>5. p < w
    <3>1. w < p => w * d + d <= p * d
      BY <1>1, <2>4
    <3>2. w = p => p * d = y
      BY <2>1
    <3>3. PICK z : z = p * d
      OBVIOUS
    <3>4. z \in Nat /\ x = z + j
      BY <2>4, <3>3
    <3>5. (w < p => y + d <= z) /\ (w = p => z = y)
      BY <2>1, <3>1, <3>2, <3>3
    <3> QED BY <2>2, <2>4, <3>4, <3>5
  <2> QED BY <2>4, <2>5
<1> QED BY <1>2, <1>3, <1>4 DEF Grid, Number

(* The rows can be numbered. *)
Numbering == CHOOSE f \in [Row -> 0 .. Cardinality(Row) - 1] : \A q, r \in Row : f[q] = f[r] => q = r

Numbers(place, w) ==
    /\ w \in Nat /\ place \in [Row -> 0 .. w - 1]
    /\ \A q, r \in Row : place[q] = place[r] => q = r
    /\ \A i \in 0 .. w - 1 : \E r \in Row : place[r] = i

LEMMA RowsNumbered ==
    ASSUME SizesAssumption
    PROVE  Numbers(Numbering, Cardinality(Row))
<1>1. PICK w : w = Cardinality(Row)
  OBVIOUS
<1>2. IsFiniteSet(Row) /\ w \in Nat
  BY <1>1, FS_CardinalityType DEF SizesAssumption
<1>3. IsFiniteSet(0 .. w - 1) /\ Cardinality(0 .. w - 1) = w
  <2>1. PICK b \in Int : b = w - 1
    BY <1>2
  <2>2. PICK a \in Int : a = 0
    OBVIOUS
  <2>3. IsFiniteSet(a .. b) /\ Cardinality(a .. b) = IF a > b THEN 0 ELSE b - a + 1
    BY FS_Interval
  <2> QED BY <1>2, <2>1, <2>2, <2>3
<1>4. PICK g \in Injection(Row, 0 .. w - 1) : TRUE
  <2>1. PICK I : I = 0 .. w - 1
    OBVIOUS
  <2>2. ExistsBijection(Row, I)
    BY <1>1, <1>2, <1>3, <2>1, FS_SameCardinalityBij
  <2>3. PICK g \in Bijection(Row, I) : TRUE
    BY <2>2 DEF ExistsBijection
  <2> QED BY <2>1, <2>3 DEF Bijection
<1>5. PICK f : f = Numbering
  OBVIOUS
<1>6. f \in [Row -> 0 .. w - 1] /\ \A q, r \in Row : f[q] = f[r] => q = r
  <2>1. g \in [Row -> 0 .. w - 1] /\ \A q, r \in Row : g[q] = g[r] => q = r
    BY DEF Injection, IsInjective
  <2> QED BY <1>1, <1>5, <2>1 DEF Numbering
<1>7. \A i \in 0 .. w - 1 : \E r \in Row : f[r] = i
  <2>1. PICK I : I = 0 .. w - 1
    OBVIOUS
  <2>2. f \in Injection(Row, I)
    BY <1>6, <2>1 DEF Injection, IsInjective
  <2>3. f \in Surjection(Row, I)
    BY <1>1, <1>3, <2>1, <2>2, FS_Injection
  <2> QED BY <2>1, <2>3 DEF Surjection
<1> QED BY <1>1, <1>2, <1>5, <1>6, <1>7 DEF Numbers

LEMMA InitKeeps ==
    ASSUME SizesAssumption, TextAssumption, NothingAssumption, Init
    PROVE  SlotInv
<1>1. PICK w, place : w = Cardinality(Row) /\ place = Numbering
  OBVIOUS
<1>2. /\ speculating \in BOOLEAN
      /\ req = [r \in Row |-> NoReq]
      /\ tree = [k \in {} |-> 0] /\ ref = [k \in {} |-> 0]
      /\ freePages = NumPages
      /\ freeStates = 0 .. NumPages - 1
      /\ table = [r \in Row |-> [p \in Column |-> NoSlot]]
      /\ reserve = [r \in Row |-> [j \in Candidate |-> NumPages + place[r] * (Drafts + 1) + j]]
  BY <1>1 DEF Init, Numbering
<1>3. /\ w \in Nat /\ place \in [Row -> 0 .. w - 1]
      /\ \A q, r \in Row : place[q] = place[r] => q = r
      /\ \A i \in 0 .. w - 1 : \E r \in Row : place[r] = i
  BY <1>1, RowsNumbered DEF Numbers
<1>4. PICK N, d, e : N = NumPages /\ d = Drafts + 1 /\ e = w * d
  OBVIOUS
<1>5. N \in Nat /\ d \in Nat \ {0} /\ Drafts = d - 1 /\ e \in Nat
  <2>1. NumPages \in Nat /\ Drafts \in Nat
    BY DEF SizesAssumption
  <2>2. N \in Nat /\ d \in Nat \ {0} /\ Drafts = d - 1
    BY <1>4, <2>1
  <2> QED BY <1>3, <1>4, <2>2
<1>6. Grid(w, d, e)
  BY <1>3, <1>4, <1>5, GridIs
<1>7. PICK cell : cell = [r \in Row |-> [j \in 0 .. d - 1 |-> Number(d, place[r], j)]]
  OBVIOUS
<1>8. /\ \A r \in Row : \A j \in 0 .. d - 1 : cell[r][j] \in 0 .. e - 1
      /\ \A q, r \in Row : \A i, j \in 0 .. d - 1 : cell[q][i] = cell[r][j] => q = r /\ i = j
      /\ \A x \in 0 .. e - 1 : \E r \in Row : \E j \in 0 .. d - 1 : x = cell[r][j]
  <2>1. \A r \in Row : \A j \in 0 .. d - 1 : cell[r][j] = Number(d, place[r], j)
    BY <1>7
  <2>2. \A r \in Row : place[r] \in 0 .. w - 1 /\ place[r] \in Nat
    BY <1>3
  <2>3. \A r \in Row : \A j \in 0 .. d - 1 : cell[r][j] \in 0 .. e - 1
    <3>1. \A p \in 0 .. w - 1, j \in 0 .. d - 1 : Number(d, p, j) \in 0 .. e - 1
      BY <1>6 DEF Grid
    <3>2. ASSUME NEW r \in Row, NEW j \in 0 .. d - 1 PROVE cell[r][j] \in 0 .. e - 1
      <4>1. PICK p : p = place[r]
        OBVIOUS
      <4>2. p \in 0 .. w - 1 /\ cell[r][j] = Number(d, p, j)
        BY <2>1, <2>2, <4>1
      <4> QED BY <3>1, <4>2
    <3> QED BY <3>2
  <2>4. ASSUME NEW q \in Row, NEW r \in Row, NEW i \in 0 .. d - 1, NEW j \in 0 .. d - 1, cell[q][i] = cell[r][j]
        PROVE  q = r /\ i = j
    <3>1. Number(d, place[q], i) = Number(d, place[r], j)
      BY <2>1, <2>4
    <3>2. place[q] = place[r] /\ i = j
      <4>1. \A p, s \in Nat : \A k, l \in 0 .. d - 1 : Number(d, p, k) = Number(d, s, l) => p = s /\ k = l
        BY <1>6 DEF Grid
      <4>2. PICK p \in Nat, s \in Nat : p = place[q] /\ s = place[r]
        BY <2>2
      <4>3. Number(d, p, i) = Number(d, s, j)
        BY <3>1, <4>2
      <4>4. p = s /\ i = j
        BY <4>1, <4>3
      <4> QED BY <4>2, <4>4
    <3> QED BY <1>3, <3>2
  <2>5. ASSUME NEW x \in 0 .. e - 1 PROVE \E r \in Row : \E j \in 0 .. d - 1 : x = cell[r][j]
    <3>1. PICK p \in 0 .. w - 1, j \in 0 .. d - 1 : x = Number(d, p, j)
      BY <1>6 DEF Grid
    <3>2. PICK r \in Row : place[r] = p
      BY <1>3
    <3> QED BY <2>1, <3>1, <3>2
  <2> QED BY <2>3, <2>4, <2>5
<1>9. Candidate = (IF speculating THEN 0 .. d - 1 ELSE {}) /\ Slot = 0 .. N + e - 1
  BY <1>1, <1>4, <1>5 DEF Candidate, Slot
<1>10. \A r \in Row : \A j \in Candidate : reserve[r][j] = N + cell[r][j] /\ j \in 0 .. d - 1
  <2>1. ASSUME NEW r \in Row, NEW j \in Candidate PROVE reserve[r][j] = N + cell[r][j] /\ j \in 0 .. d - 1
    <3>1. j \in 0 .. d - 1 /\ reserve[r][j] = NumPages + place[r] * (Drafts + 1) + j
      BY <1>2, <1>9
    <3>2. cell[r][j] = place[r] * d + j
      BY <1>7, <3>1 DEF Number
    <3>3. PICK x : x = place[r] * d
      OBVIOUS
    <3>4. place[r] \in Nat
      BY <1>3
    <3>5. x \in Int /\ j \in Int
      BY <1>5, <3>1, <3>3, <3>4
    <3>6. N + x + j = N + (x + j)
      BY <1>5, <3>5
    <3> QED BY <1>4, <3>1, <3>2, <3>3, <3>6
  <2> QED BY <2>1
<1>11. Live = {}
  BY <1>2 DEF Live
<1>12. \A r \in Row : \A j \in Candidate : reserve[r][j] \in N .. N + e - 1
  <2>1. \A x \in 0 .. e - 1 : N + x \in N .. N + e - 1
    BY <1>5
  <2>2. ASSUME NEW r \in Row, NEW j \in Candidate PROVE reserve[r][j] \in N .. N + e - 1
    <3>1. cell[r][j] \in 0 .. e - 1 /\ reserve[r][j] = N + cell[r][j]
      BY <1>8, <1>10
    <3> QED BY <2>1, <3>1
  <2> QED BY <2>2
<1>13. Types
  <2>1. N .. N + e - 1 \subseteq Slot
    BY <1>5, <1>9
  <2>2. reserve \in [Row -> [Candidate -> Slot]]
    BY <1>2, <1>12, <2>1
  <2>3. table \in [Row -> [Column -> Slot \cup {NoSlot}]]
    BY <1>2
  <2>4. freePages \in Nat
    BY <1>2, <1>4, <1>5
  <2> QED BY <1>2, <1>11, <2>2, <2>3, <2>4 DEF Types
<1>14. TreeTypes /\ TreeOnce /\ TreeSlots = {} /\ Cardinality(DOMAIN tree) = 0
  <2>1. DOMAIN tree = {}
    BY <1>2
  <2> QED BY <2>1, FS_EmptySet DEF TreeTypes, TreeOnce, TreeSlots, PrefixClosedSet
<1>15. Locks
  BY <1>2, <1>11, FS_EmptySet DEF Locks, Held
<1>16. ASSUME NEW r \in Row PROVE RowInv(r)
  <2>1. Columns(r)
    BY <1>2 DEF Columns
  <2>2. Owned(r) = {}
    BY <1>2 DEF Owned
  <2>3. \A i, j \in Candidate : reserve[r][i] = reserve[r][j] => i = j
    <3>1. ASSUME NEW i \in Candidate, NEW j \in Candidate, reserve[r][i] = reserve[r][j] PROVE i = j
      <4>1. N + cell[r][i] = N + cell[r][j] /\ i \in 0 .. d - 1 /\ j \in 0 .. d - 1
        BY <1>10, <3>1
      <4>2. cell[r][i] \in 0 .. e - 1 /\ cell[r][j] \in 0 .. e - 1
        BY <1>8, <4>1
      <4>3. cell[r][i] = cell[r][j]
        <5>0. PICK x, y : x = cell[r][i] /\ y = cell[r][j]
          OBVIOUS
        <5>1. x \in Int /\ y \in Int /\ N + x = N + y
          BY <4>1, <4>2, <5>0
        <5>2. N \in Int
          BY <1>5
        <5>3. x = y
          BY <5>1, <5>2
        <5> QED BY <5>0, <5>3
      <4> QED BY <1>8, <4>1, <4>3
    <3> QED BY <3>1
  <2> QED BY <1>2, <2>1, <2>2, <2>3 DEF RowInv, RowOnce
<1>17. \A r \in Row : PageSlots(r) = {} /\ RowSlots(r) = ReserveSlots(r)
  <2>1. \A r \in Row : Owned(r) = {}
    BY <1>2 DEF Owned
  <2> QED BY <2>1 DEF PageSlots, RowSlots
<1>18. Apart
  <2>1. \A r \in Row : ReserveSlots(r) \subseteq N .. N + e - 1
    BY <1>12 DEF ReserveSlots
  <2>2. (N .. N + e - 1) \cap freeStates = {}
    BY <1>2, <1>4, <1>5
  <2>3. \A r \in Row : Disjoint(freeStates, TreeSlots, PageSlots(r), ReserveSlots(r))
    BY <1>14, <1>17, <2>1, <2>2 DEF Disjoint
  <2>4. ASSUME NEW q \in Row, NEW r \in Row, q # r PROVE RowSlots(q) \cap RowSlots(r) = {}
    <3>1. ASSUME NEW i \in Candidate, NEW j \in Candidate, reserve[q][i] = reserve[r][j] PROVE FALSE
      <4>1. N + cell[q][i] = N + cell[r][j] /\ i \in 0 .. d - 1 /\ j \in 0 .. d - 1
        BY <1>10, <3>1
      <4>2. cell[q][i] \in 0 .. e - 1 /\ cell[r][j] \in 0 .. e - 1
        BY <1>8, <4>1
      <4>3. cell[q][i] = cell[r][j]
        <5>0. PICK x, y : x = cell[q][i] /\ y = cell[r][j]
          OBVIOUS
        <5>1. x \in Int /\ y \in Int /\ N + x = N + y
          BY <4>1, <4>2, <5>0
        <5>2. N \in Int
          BY <1>5
        <5>3. x = y
          BY <5>1, <5>2
        <5> QED BY <5>0, <5>3
      <4> QED BY <1>8, <2>4, <4>1, <4>3
    <3> QED BY <1>17, <3>1 DEF ReserveSlots
  <2>5. AllSlots = freeStates \cup TreeSlots \cup UNION {RowSlots(r) : r \in Row}
    <3>1. CASE ~speculating
      <4>1. \A r \in Row : RowSlots(r) = {}
        BY <1>9, <1>17, <3>1 DEF ReserveSlots
      <4> QED BY <1>2, <1>14, <3>1, <4>1 DEF AllSlots
    <3>2. CASE speculating
      <4>1. AllSlots = 0 .. N + e - 1 /\ freeStates = 0 .. N - 1
        BY <1>2, <1>4, <1>9, <3>2 DEF AllSlots
      <4>2. 0 .. N + e - 1 = (0 .. N - 1) \cup (N .. N + e - 1)
        BY <1>5
      <4>3. ASSUME NEW s \in N .. N + e - 1 PROVE s \in UNION {RowSlots(r) : r \in Row}
        <5>1. s - N \in 0 .. e - 1 /\ N + (s - N) = s
          BY <1>5
        <5>2. PICK r \in Row, j \in 0 .. d - 1 : s - N = cell[r][j]
          BY <1>8, <5>1
        <5>3. j \in Candidate /\ reserve[r][j] = s
          BY <1>9, <1>10, <3>2, <5>1, <5>2
        <5> QED BY <1>17, <5>3 DEF ReserveSlots
      <4>4. UNION {RowSlots(r) : r \in Row} \subseteq N .. N + e - 1
        BY <1>17, <2>1
      <4>5. UNION {RowSlots(r) : r \in Row} = N .. N + e - 1
        BY <4>3, <4>4
      <4> QED BY <1>14, <4>1, <4>2, <4>5
    <3> QED BY <1>2, <3>1, <3>2
  <2>6. freeStates \cap TreeSlots = {}
    BY <1>14
  <2> QED BY <2>3, <2>4, <2>5, <2>6 DEF Apart
<1>19. PagesCounted
  <2>1. Allocated = {}
    <3>1. \A r \in Row : HandleLen(r) = 0 /\ PagesEnd(r) = 0
      BY <1>2 DEF HandleLen, PagesEnd
    <3>2. \A n \in Nat : ~(n < 0)
      OBVIOUS
    <3> QED BY <3>1, <3>2 DEF Allocated
  <2> QED BY <1>2, <1>4, <1>5, <1>14, <2>1, FS_EmptySet DEF PagesCounted
<1> QED BY <1>13, <1>14, <1>15, <1>16, <1>18, <1>19 DEF SlotInv
-----------------------------------------------------------------------------
(* The invariant and what follows from it *)

LEMMA UnchangedKeeps ==
    ASSUME SlotInv, UNCHANGED vars
    PROVE  SlotInv'
<1>1. /\ speculating' = speculating /\ req' = req /\ tree' = tree /\ ref' = ref /\ freePages' = freePages
      /\ freeStates' = freeStates /\ table' = table /\ reserve' = reserve
  BY DEF vars
<1>2. \A q \in Row : /\ HandleLen(q)' = HandleLen(q) /\ PagesEnd(q)' = PagesEnd(q)
                     /\ PageSlots(q)' = PageSlots(q) /\ ReserveSlots(q)' = ReserveSlots(q)
                     /\ RowSlots(q)' = RowSlots(q) /\ RowInv(q)' = RowInv(q)
  BY <1>1, OtherRow
<1>3. Types' /\ TreeTypes' /\ TreeOnce' /\ Locks'
  BY <1>1 DEF SlotInv, Types, TreeTypes, TreeOnce, Locks, Live, Candidate
<1>4. Apart'
  <2>1. TreeSlots' = TreeSlots /\ AllSlots' = AllSlots
    BY <1>1 DEF TreeSlots, AllSlots
  <2>2. UNION {RowSlots(q)' : q \in Row} = UNION {RowSlots(q) : q \in Row}
    BY <1>2
  <2>3. Apart
    BY DEF SlotInv
  <2> QED BY <1>1, <1>2, <2>1, <2>2, <2>3 DEF Apart
<1>5. PagesCounted'
  <2>1. Allocated' = Allocated
    BY <1>2 DEF Allocated
  <2> QED BY <1>1, <2>1 DEF SlotInv, PagesCounted
<1>6. \A q \in Row : RowInv(q)'
  BY <1>2 DEF SlotInv
<1> QED BY <1>3, <1>4, <1>5, <1>6 DEF SlotInv

LEMMA NextKeeps ==
    ASSUME SizesAssumption, TextAssumption, NothingAssumption, SlotInv, [Next]_vars
    PROVE  SlotInv'
<1>1. CASE UNCHANGED vars
  BY <1>1, UnchangedKeeps
<1>2. CASE Idle
  BY <1>2, UnchangedKeeps DEF Idle
<1>3. ASSUME NEW r \in Row, NEW t \in Text, Admit(r, t) PROVE SlotInv'
  BY <1>3, AdmitKeeps
<1>4. ASSUME NEW r \in Row, NEW to \in 1 .. Max({Len(t) : t \in Text}), Prefill(r, to) PROVE SlotInv'
  <2>1. to \in Nat
    OBVIOUS
  <2> QED BY <1>4, <2>1, PrefillKeeps
<1>5. ASSUME NEW r \in Row, PrefillDone(r) PROVE SlotInv'
  BY <1>5, PrefillDoneKeeps
<1>6. ASSUME NEW r \in Row, Decode(r) PROVE SlotInv'
  BY <1>6, DecodeKeeps
<1>7. ASSUME NEW r \in Row, NEW accepted \in 1 .. Drafts + 1, LaunchVerify(r, accepted) PROVE SlotInv'
  BY <1>7, LaunchKeeps
<1>8. ASSUME NEW r \in Row, ProcessVerify(r) PROVE SlotInv'
  BY <1>8, ProcessKeeps
<1>9. ASSUME NEW r \in Row, Release(r) PROVE SlotInv'
  BY <1>9, ReleaseKeeps
<1> QED BY <1>1, <1>2, <1>3, <1>4, <1>5, <1>6, <1>7, <1>8, <1>9 DEF Next

(* SlotInv is inductive: it follows each slot through admission, allocation,*)
(* eviction, the pins, swaps and refills of a commit, re-pointing and the   *)
(* release of a row.                                                        *)
THEOREM SlotsFollow == Spec => []SlotInv
<1>1. Init => SlotInv
  BY InitKeeps, SizesAssumption, TextAssumption, NothingAssumption
<1>2. SlotInv /\ [Next]_vars => SlotInv'
  BY NextKeeps, SizesAssumption, TextAssumption, NothingAssumption
<1> QED BY <1>1, <1>2, PTL DEF Spec

(* SlotsConserved: no slot of the cache manager is leaked, freed twice or   *)
(* used in two places, at any moment.                                       *)
THEOREM SlotsAlwaysConserved == Spec => []SlotsConserved
<1>1. SlotInv => SlotsConserved
  BY PlacesOnce, SlotsCounted, SizesAssumption, TextAssumption DEF SlotsConserved
<1> QED BY <1>1, SlotsFollow, PTL

(* StatesSuffice: allocate_state finds a slot for every column of a step    *)
(* whose pages allocate_paged has found, and the commit of a verify round a *)
(* free slot for the reserve.                                               *)
THEOREM StatesAlwaysSuffice == Spec => []StatesSuffice
<1>1. SlotInv => StatesSuffice
  <2> SUFFICES ASSUME SlotInv PROVE StatesSuffice
    OBVIOUS
  <2>1. ASSUME NEW r \in Live, ~(speculating /\ req[r].running),
               NEW to \in req[r].cached + 1 .. MaxLen(r) - 1
        PROVE  Cardinality(UnsetColumns(r, to))
                 <= SlotsAfterEviction(DivCeil(to) - DivCeil(req[r].cached))
    <3>1. r \in Row /\ req[r] # NoReq
      BY DEF Live
    <3>2. req[r].cached \in Nat /\ MaxLen(r) \in Nat
      BY <3>1, RowIs, SizesAssumption, TextAssumption
    <3>3. to \in Nat /\ req[r].cached < to /\ to < MaxLen(r)
      <4>1. PICK c, m : c = req[r].cached /\ m = MaxLen(r)
        OBVIOUS
      <4>2. c \in Nat /\ m \in Nat /\ to \in c + 1 .. m - 1
        BY <3>2, <4>1
      <4>3. to \in Nat /\ c < to /\ to < m
        BY <4>2
      <4> QED BY <4>1, <4>3
    <3>4. PICK d, e : d = DivCeil(req[r].cached) /\ e = DivCeil(to)
      OBVIOUS
    <3>5. /\ UnsetColumns(r, to) \subseteq Column
          /\ \A p \in UnsetColumns(r, to) : d <= p /\ p < e
          /\ d \in Nat /\ e \in Nat /\ d <= e
      BY <2>1, <3>1, <3>3, <3>4, UnsetAre, SizesAssumption, TextAssumption
    <3>6. UnsetColumns(r, to) \subseteq d .. e - 1
      <4>1. \A p \in Column : p \in Nat
        BY DEF Column
      <4>2. \A p \in Nat : d <= p /\ p < e => p \in d .. e - 1
        BY <3>5
      <4> QED BY <3>5, <4>1, <4>2
    <3>7. IsFiniteSet(d .. e - 1) /\ Cardinality(d .. e - 1) = e - d
      <4>1. PICK b \in Int : b = e - 1
        BY <3>5
      <4>2. IsFiniteSet(d .. b) /\ Cardinality(d .. b) = IF d > b THEN 0 ELSE b - d + 1
        BY <3>5, FS_Interval
      <4> QED BY <3>5, <4>1, <4>2
    <3>8. Cardinality(UnsetColumns(r, to)) <= e - d /\ Cardinality(UnsetColumns(r, to)) \in Nat
      <4>1. PICK U, D : U = UnsetColumns(r, to) /\ D = d .. e - 1
        OBVIOUS
      <4>2. IsFiniteSet(U) /\ Cardinality(U) <= Cardinality(D)
        BY <3>6, <3>7, <4>1, FS_Subset
      <4>3. Cardinality(U) \in Nat
        BY <4>2, FS_CardinalityType
      <4> QED BY <3>7, <4>1, <4>2, <4>3
    <3>9. Cardinality(freeStates) \in Nat /\ Cardinality(freeStates) >= freePages /\ freePages \in Nat
      BY FreeSlots, SizesAssumption, TextAssumption DEF SlotInv, Types
    <3>10. PICK f, u : f = Cardinality(freeStates) /\ u = Cardinality(UnsetColumns(r, to))
      OBVIOUS
    <3>11. u <= f + (IF e - d > freePages THEN (e - d) - freePages ELSE 0)
      BY <3>5, <3>8, <3>9, <3>10
    <3> QED BY <3>4, <3>10, <3>11 DEF SlotsAfterEviction
  <2>2. ASSUME NEW r \in Live, req[r].inflight > 0, Pins(r) PROVE freeStates \cup Old(r) # {}
    <3>1. r \in Row /\ req[r] # NoReq
      BY DEF Live
    <3> QED BY <2>2, <3>1, FreshIs, SizesAssumption, TextAssumption, NothingAssumption
  <2> QED BY <2>1, <2>2 DEF StatesSuffice
<1> QED BY <1>1, SlotsFollow, PTL

(* TypeOK: a request has computed less than it may, the page count stays    *)
(* within the pool, and every list of slots holds slots of the table.       *)
THEOREM SlotTypesHold == Spec => []TypeOK
<1>1. SlotInv => TypeOK
  <2> SUFFICES ASSUME SlotInv PROVE TypeOK
    OBVIOUS
  <2>1. Types /\ Locks /\ Apart /\ TreeTypes /\ PagesCounted
    BY DEF SlotInv
  <2>2. ASSUME NEW r \in Live PROVE req[r].cached \in 0 .. MaxLen(r) - 1
    <3>1. r \in Row /\ req[r] # NoReq
      BY DEF Live
    <3>2. req[r].cached \in Nat /\ MaxLen(r) \in Nat /\ Lengths(r)
      BY <3>1, RowIs, SizesAssumption, TextAssumption
    <3>3. PICK c, m : c = req[r].cached /\ m = MaxLen(r)
      OBVIOUS
    <3>4. c \in Nat /\ m \in Nat /\ c < m
      BY <3>2, <3>3 DEF Lengths
    <3>5. c \in 0 .. m - 1
      BY <3>4
    <3> QED BY <3>3, <3>5
  <2>3. TreeSlots \subseteq Slot /\ freeStates \subseteq Slot
    BY <2>1, SlotsIn, SizesAssumption, NothingAssumption
  <2>4. DOMAIN tree = DOMAIN ref /\ \A k \in DOMAIN ref : ref[k] \in Nat
    BY <2>1, HeldNat DEF Locks, Held
  <2>5. freePages \in 0 .. NumPages
    <3>1. PICK a, b : a = Cardinality(DOMAIN tree) /\ b = Cardinality(Allocated)
      OBVIOUS
    <3>2. /\ a \in Nat /\ b \in Nat /\ freePages \in Nat /\ freePages + a + b = NumPages
      BY <2>1, <3>1, FS_CardinalityType DEF Types, TreeTypes, PagesCounted
    <3> QED BY <3>2
  <2> QED BY <2>1, <2>2, <2>3, <2>4, <2>5 DEF TypeOK, Types, TreeSlots
<1> QED BY <1>1, SlotsFollow, PTL
=============================================================================
