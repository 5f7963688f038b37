------------------------- MODULE StateContentsProofs -------------------------
(***************************************************************************)
(* What the state slots of a hybrid model hold, for any rows, texts, page  *)
(* sizes and numbers of drafts: the checkpoint of a cached page is the     *)
(* state after exactly the tokens of its prefix, and the next step of a    *)
(* request starts from the state after its cached tokens.  Where the slots *)
(* are is the business of StateSlotsProofs.                                *)
(***************************************************************************)
EXTENDS StateSlotsProofs

(* The column of the last cached token. *)
LastColumn(r) == (req[r].cached - 1) \div PageSize

(* The columns of the handle are those of the tree. *)
Borrowed(r) ==
    \A p \in Column : p < HandleLen(r) => table[r][p] = tree[SubSeq(req[r].handle, 1, p + 1)]

(* The full pages of a row have their checkpoints. *)
PagesExact(r) ==
    \A p \in Column : HandleLen(r) <= p /\ p < req[r].cached \div PageSize =>
        state[table[r][p]] = Prefix(r, (p + 1) * PageSize)

(* Until the first verify round the state is in the last page. *)
PageState(r) ==
    /\ req[r].inflight = 0
    /\ req[r].cached > 0 => /\ table[r][LastColumn(r)] # NoSlot
                            /\ state[table[r][LastColumn(r)]] = Prefix(r, req[r].cached)

(* Between two rounds it is in candidate 0, or in the page that the round   *)
(* has ended at.                                                            *)
BaseState(r) ==
    /\ speculating /\ req[r].running
    /\ req[r].inflight = 0 =>
          /\ req[r].baseline \in {reserve[r][0], table[r][LastColumn(r)]}
          /\ state[req[r].baseline] = Prefix(r, req[r].cached)

(* During a round the accepted candidates have theirs. *)
CandidatesExact(r) ==
    \A j \in 0 .. req[r].accepted - 1 : state[reserve[r][j]] = Prefix(r, req[r].cached + j + 1)

RowContents(r) ==
    /\ Borrowed(r) /\ PagesExact(r)
    /\ IF req[r].baseline = NoSlot THEN PageState(r) ELSE BaseState(r)
    /\ req[r].inflight > 0 => CandidatesExact(r)

ContentInv == CheckpointsExact /\ \A r \in Live : RowContents(r)
-----------------------------------------------------------------------------
(* Tokens and blocks *)

(* Where token i of a text is: in a block, and at a place in it. *)
LEMMA TokenPlace ==
    ASSUME SizesAssumption, NEW n \in Nat, NEW i \in 1 .. n * PageSize
    PROVE  \E q, x : /\ q = (i - 1) \div PageSize /\ x = (i - 1) % PageSize
                     /\ q + 1 \in 1 .. n /\ x + 1 \in 1 .. PageSize
                     /\ q * PageSize + x + 1 = i /\ q \in Nat /\ x \in Nat
<1>1. PageSize \in Nat \ {0}
  BY DEF SizesAssumption
<1>2. PICK m : m = n * PageSize
  OBVIOUS
<1>3. m \in Nat /\ i \in 1 .. m /\ i \in Nat \ {0}
  BY <1>1, <1>2
<1>4. PICK q, x : q = (i - 1) \div PageSize /\ x = (i - 1) % PageSize
  OBVIOUS
<1>5. q \in Nat /\ x \in 0 .. PageSize - 1 /\ q * PageSize + x = i - 1
  BY <1>1, <1>3, <1>4
<1>6. q < n
  <2>1. ASSUME n <= q PROVE FALSE
    <3>1. n * PageSize <= q * PageSize
      BY <1>1, <1>5, <2>1
    <3>2. PICK y : y = q * PageSize
      OBVIOUS
    <3>3. y \in Nat
      BY <1>1, <1>5, <3>2
    <3> QED BY <1>2, <1>3, <1>5, <3>1, <3>2, <3>3
  <2> QED BY <1>5, <2>1
<1>7. PICK y : y = q * PageSize
  OBVIOUS
<1>8. y \in Nat /\ y + x + 1 = i
  BY <1>1, <1>3, <1>5, <1>7
<1>9. q + 1 \in 1 .. n /\ x + 1 \in 1 .. PageSize /\ q * PageSize + x + 1 = i
  BY <1>1, <1>5, <1>6, <1>7, <1>8
<1> QED BY <1>4, <1>5, <1>9

(* The tokens of the first n blocks of a text are its first n pages. *)
LEMMA TokensOf ==
    ASSUME SizesAssumption, NEW t \in Seq(Token), NEW n \in Nat, n * PageSize <= Len(t)
    PROVE  Tokens(SubSeq(Blocks(t), 1, n)) = SubSeq(t, 1, n * PageSize)
<1>1. PICK N, P, b, k : N = n * PageSize /\ P = PageSize /\ b = Blocks(t) /\ k = SubSeq(b, 1, n)
  OBVIOUS
<1>2. P \in Nat \ {0} /\ N \in Nat /\ Len(t) \in Nat /\ N <= Len(t)
  BY <1>1, LenProperties DEF SizesAssumption
<1>3. n <= Len(t) \div PageSize /\ Len(t) \div PageSize \in Nat
  BY <1>1, <1>2, WholePages, DivCeilIs
<1>4. /\ b \in Seq(Seq(Token)) /\ Len(b) = Len(t) \div PageSize
      /\ \A i \in 1 .. Len(t) \div PageSize : b[i] = SubSeq(t, (i - 1) * P + 1, i * P)
  BY <1>1, BlocksAre
<1>5. Len(k) = n /\ \A i \in 1 .. n : k[i] = b[i]
  BY <1>1, <1>3, <1>4, PrefixIs
<1>6. Len(SubSeq(t, 1, N)) = N /\ SubSeq(t, 1, N) \in Seq(Token) /\ \A i \in 1 .. N : SubSeq(t, 1, N)[i] = t[i]
  BY <1>2, PrefixIs
<1>7. ASSUME NEW i \in 1 .. N
      PROVE  k[(i - 1) \div P + 1][((i - 1) % P) + 1] = t[i]
  <2>0. PICK d, e : /\ d = (i - 1) \div P /\ e = (i - 1) % P
                    /\ d + 1 \in 1 .. n /\ e + 1 \in 1 .. P
                    /\ d * P + e + 1 = i /\ d \in Nat /\ e \in Nat
    BY <1>1, TokenPlace
  <2>1. PICK q, x : q = d + 1 /\ x = e + 1
    OBVIOUS
  <2>2. q \in 1 .. n /\ x \in 1 .. P /\ (q - 1) * P + x = i /\ i \in Nat \ {0}
    <3>1. PICK z : z = d * P
      OBVIOUS
    <3>2. q - 1 = d /\ z \in Nat /\ z + e + 1 = i
      BY <1>2, <2>0, <2>1, <3>1
    <3>3. z + x = i /\ i \in Nat \ {0}
      <4>1. e \in Nat /\ x = e + 1
        BY <2>0, <2>1
      <4> QED BY <3>2, <4>1
    <3> QED BY <2>0, <2>1, <3>1, <3>2, <3>3
  <2>3. PICK l, h : l = (q - 1) * P + 1 /\ h = q * P
    OBVIOUS
  <2>4. q \in 1 .. Len(t) \div PageSize /\ k[q] = SubSeq(t, l, h)
    <3>1. q \in 1 .. Len(t) \div PageSize
      BY <1>3, <2>2
    <3> QED BY <1>4, <1>5, <2>2, <2>3, <3>1
  <2>5. l \in Nat \ {0} /\ h \in Nat /\ l <= h /\ h <= Len(t) /\ h = l + P - 1
    <3>1. l \in Nat \ {0} /\ h \in Nat /\ l <= h /\ h <= Len(t)
      BY <1>1, <1>2, <2>3, <2>4, BlockEnds
    <3>2. h = l + P - 1
      BY <1>2, <2>2, <2>3
    <3> QED BY <3>1, <3>2
  <2>6. l \in 1 .. Len(t) /\ h \in 1 .. Len(t) /\ x \in 1 .. h - l + 1
    BY <1>2, <2>2, <2>5
  <2>7. SubSeq(t, l, h)[x] = t[l + x - 1]
    BY <1>2, <2>5, <2>6, SubSeqProperties
  <2>8. l + x - 1 = i
    <3>1. PICK z : z = (q - 1) * P
      OBVIOUS
    <3>2. z \in Nat /\ l = z + 1 /\ z + x = i
      BY <1>2, <2>2, <2>3, <3>1
    <3> QED BY <2>2, <3>2
  <2> QED BY <2>0, <2>1, <2>4, <2>7, <2>8
<1>8. Tokens(k) = [i \in 1 .. N |-> t[i]]
  BY <1>1, <1>5, <1>7 DEF Tokens
<1>9. SubSeq(t, 1, N) = [i \in 1 .. N |-> t[i]]
  BY <1>2, <1>6
<1> QED BY <1>1, <1>8, <1>9
-----------------------------------------------------------------------------
(* The columns of a row *)

(* The handle of a request is cached and is the beginning of its text. *)
LEMMA HandleIs ==
    ASSUME SizesAssumption, TextAssumption, SlotInv, NEW r \in Row, req[r] # NoReq,
           NEW p \in Nat, p < HandleLen(r)
    PROVE  /\ SubSeq(req[r].handle, 1, p + 1) = SubSeq(Blocks(req[r].text), 1, p + 1)
           /\ SubSeq(req[r].handle, 1, p + 1) \in PrefixesOf(req[r].handle)
           /\ SubSeq(req[r].handle, 1, p + 1) \in DOMAIN tree
<1>1. PICK h, k, b : h = HandleLen(r) /\ k = req[r].handle /\ b = Blocks(req[r].text)
  OBVIOUS
<1>2. /\ r \in Live /\ Lengths(r) /\ req[r].text \in Seq(Token) /\ k \in Seq(Seq(Token))
      /\ h = Len(k) /\ h \in Nat /\ req[r].cached \in Nat /\ req[r].cached < MaxLen(r)
      /\ h <= req[r].cached \div PageSize
  BY <1>1, RowIs DEF Lengths
<1>3. b \in Seq(Seq(Token)) /\ Len(b) = Len(req[r].text) \div PageSize /\ Len(req[r].text) \in Nat
  BY <1>1, <1>2, BlocksAre, LenProperties
<1>4. h \in 0 .. Len(b)
  <2>1. req[r].cached \div PageSize <= Len(req[r].text) \div PageSize
    <3>1. PICK c, n : c = req[r].cached /\ n = Len(req[r].text)
      OBVIOUS
    <3>2. c \in Nat /\ n \in Nat /\ c <= n
      <4>1. c \in Nat /\ n \in Nat /\ c < n
        BY <1>2, <1>3, <3>1 DEF MaxLen
      <4> QED BY <4>1
    <3> QED BY <3>1, <3>2, DivCeilGrows
  <2>2. req[r].cached \div PageSize \in Nat /\ Len(req[r].text) \div PageSize \in Nat
    BY <1>2, <1>3, DivCeilIs
  <2> QED BY <1>2, <1>3, <2>1, <2>2
<1>5. k = SubSeq(b, 1, h)
  BY <1>1, <1>2 DEF Lengths
<1>6. p + 1 \in 1 .. h
  BY <1>1, <1>2
<1>7. SubSeq(k, 1, p + 1) = SubSeq(b, 1, p + 1)
  <2>1. PICK one : one = 1
    OBVIOUS
  <2>2. one \in Nat \ {0} /\ p + 1 \in one .. h
    BY <1>6, <2>1
  <2>3. SubSeq(SubSeq(b, 1, h), one, p + 1) = SubSeq(b, one, p + 1)
    BY <1>3, <1>4, <2>2, PartOfPrefix
  <2> QED BY <1>5, <2>1, <2>3
<1>8. SubSeq(k, 1, p + 1) \in PrefixesOf(k)
  BY <1>2, <1>6 DEF PrefixesOf
<1> QED BY <1>1, <1>2, <1>7, <1>8 DEF SlotInv, Locks, Held

(* A full page has the state after its last token, borrowed or not. *)
LEMMA PageIs ==
    ASSUME SizesAssumption, TextAssumption, SlotInv, ContentInv, NEW r \in Row, req[r] # NoReq,
           NEW p \in Nat, p < req[r].cached \div PageSize
    PROVE  /\ p \in Column /\ table[r][p] \in TreeSlots \cup PageSlots(r)
           /\ state[table[r][p]] = Prefix(r, (p + 1) * PageSize)
<1>1. PICK h, c, t : h = HandleLen(r) /\ c = req[r].cached /\ t = req[r].text
  OBVIOUS
<1>2. /\ r \in Live /\ Columns(r) /\ t \in Seq(Token) /\ t \in Text /\ Len(t) \in Nat
      /\ h \in Nat /\ c \in Nat /\ c < Len(t)
      /\ h <= c \div PageSize
  BY <1>1, RowIs DEF Lengths, MaxLen
<1>3. /\ c \div PageSize \in Nat /\ (c \div PageSize) * PageSize <= c /\ DivCeil(c) \in Nat
      /\ c \div PageSize <= DivCeil(c)
  BY <1>2, DivCeilIs
<1>4. p \in Column
  <2>1. c \in 0 .. Len(t)
    BY <1>2
  <2>2. p < DivCeil(c)
    BY <1>1, <1>3
  <2> QED BY <1>2, <2>1, <2>2, ColumnsReach
<1>5. (p + 1) * PageSize \in Nat /\ (p + 1) * PageSize <= c
  <2>1. p + 1 \in Nat /\ p + 1 <= c \div PageSize
    BY <1>1, <1>3
  <2> QED BY <1>2, <2>1, WholePages
<1>6. CASE p < h
  <2>1. PICK k : k = SubSeq(req[r].handle, 1, p + 1)
    OBVIOUS
  <2>2. k \in DOMAIN tree /\ k = SubSeq(Blocks(t), 1, p + 1)
    BY <1>1, <1>6, <2>1, HandleIs
  <2>3. table[r][p] = tree[k]
    BY <1>1, <1>2, <1>4, <1>6, <2>1 DEF ContentInv, RowContents, Borrowed
  <2>4. state[tree[k]] = Tokens(k)
    BY <2>2 DEF ContentInv, CheckpointsExact
  <2>5. Tokens(k) = SubSeq(t, 1, (p + 1) * PageSize)
    <3>1. p + 1 \in Nat /\ (p + 1) * PageSize <= Len(t)
      <4>1. PICK n, e : n = Len(t) /\ e = (p + 1) * PageSize
        OBVIOUS
      <4>2. n \in Nat /\ e \in Nat /\ c \in Nat /\ e <= c /\ c < n
        BY <1>2, <1>5, <4>1
      <4>3. e <= n
        BY <4>2
      <4> QED BY <4>1, <4>3
    <3> QED BY <1>2, <2>2, <3>1, TokensOf
  <2>6. tree[k] \in TreeSlots
    BY <2>2 DEF TreeSlots
  <2> QED BY <1>1, <1>4, <2>3, <2>4, <2>5, <2>6 DEF Prefix
<1>7. CASE h <= p
  <2>1. p < SlotsEnd(r)
    BY <1>1, <1>3 DEF SlotsEnd
  <2>2. table[r][p] # NoSlot
    BY <1>1, <1>2, <1>4, <1>7, <2>1 DEF Columns, Live
  <2>3. table[r][p] \in PageSlots(r)
    BY <1>1, <1>4, <1>7, <2>2 DEF PageSlots, Owned
  <2>4. state[table[r][p]] = Prefix(r, (p + 1) * PageSize)
    BY <1>1, <1>2, <1>4, <1>7 DEF ContentInv, RowContents, PagesExact
  <2> QED BY <1>4, <2>3, <2>4
<1> QED BY <1>1, <1>2, <1>6, <1>7

(* The column of the last token of a request is a column of the table. *)
LEMMA LastIs ==
    ASSUME SizesAssumption, TextAssumption, SlotInv, NEW r \in Row, req[r] # NoReq,
           req[r].cached > 0
    PROVE  /\ LastColumn(r) \in Nat /\ LastColumn(r) \in Column
           /\ DivCeil(req[r].cached) = LastColumn(r) + 1
           /\ LastColumn(r) <= req[r].cached \div PageSize
<1>1. PICK c, t : c = req[r].cached /\ t = req[r].text
  OBVIOUS
<1>2. c \in Nat /\ t \in Text /\ Len(t) \in Nat /\ c < Len(t)
  BY <1>1, RowIs DEF Lengths, MaxLen
<1>3. c \in Nat \ {0} /\ c \in 0 .. Len(t)
  <2>1. PICK n : n = Len(t)
    OBVIOUS
  <2>2. c \in Nat /\ n \in Nat /\ c < n /\ c > 0
    BY <1>1, <1>2, <2>1
  <2>3. c \in Nat \ {0} /\ c \in 0 .. n
    BY <2>2
  <2> QED BY <2>1, <2>3
<1>4. /\ LastColumn(r) \in Nat /\ DivCeil(c) = LastColumn(r) + 1
      /\ LastColumn(r) <= c \div PageSize
  BY <1>1, <1>3, LastPage DEF LastColumn
<1>5. LastColumn(r) < DivCeil(c)
  BY <1>4
<1> QED BY <1>1, <1>2, <1>3, <1>4, <1>5, ColumnsReach

(* Whatever slot a column names is the tree's or the row's. *)
LEMMA ColumnSlot ==
    ASSUME SizesAssumption, TextAssumption, SlotInv, ContentInv, NEW r \in Row, req[r] # NoReq,
           NEW p \in Column, table[r][p] # NoSlot
    PROVE  table[r][p] \in TreeSlots \cup PageSlots(r)
<1>1. HandleLen(r) \in Nat /\ r \in Live /\ p \in Nat
  BY RowIs DEF Column
<1>2. CASE p < HandleLen(r)
  <2>1. SubSeq(req[r].handle, 1, p + 1) \in DOMAIN tree
    BY <1>1, <1>2, HandleIs
  <2>2. table[r][p] = tree[SubSeq(req[r].handle, 1, p + 1)]
    BY <1>1, <1>2 DEF ContentInv, RowContents, Borrowed
  <2> QED BY <2>1, <2>2 DEF TreeSlots
<1>3. CASE HandleLen(r) <= p
  BY <1>3 DEF PageSlots, Owned
<1> QED BY <1>1, <1>2, <1>3

(* The next step of a request starts from the state of its cached tokens. *)
LEMMA BaselineIs ==
    ASSUME SizesAssumption, TextAssumption, NothingAssumption, SlotInv, ContentInv,
           NEW r \in Row, req[r] # NoReq,
           req[r].cached > 0, req[r].inflight = 0
    PROVE  /\ state[NextSlot(r)] = Prefix(r, req[r].cached)
           /\ req[r].baseline = NoSlot => /\ NextSlot(r) = table[r][LastColumn(r)]
                                          /\ NextSlot(r) \in TreeSlots \cup PageSlots(r)
<1>1. r \in Live /\ RowContents(r)
  BY RowIs DEF ContentInv
<1>2. CASE req[r].baseline = NoSlot
  <2>1. NextSlot(r) = table[r][LastColumn(r)]
    BY <1>2 DEF NextSlot, PageSlot, LastColumn
  <2>2. table[r][LastColumn(r)] # NoSlot /\ state[table[r][LastColumn(r)]] = Prefix(r, req[r].cached)
    BY <1>1, <1>2 DEF RowContents, PageState
  <2>3. LastColumn(r) \in Column
    BY LastIs
  <2> QED BY <2>1, <2>2, <2>3, ColumnSlot
<1>3. CASE req[r].baseline # NoSlot
  BY <1>1, <1>3 DEF RowContents, BaseState, NextSlot
<1> QED BY <1>2, <1>3
-----------------------------------------------------------------------------
(* What a step of row r has to keep *)

Untouched(r) == \A s \in AllSlots \ RowSlots(r)' : state'[s] = state[s]

TreeAgrees == \A k \in DOMAIN tree \cap DOMAIN tree' : tree'[k] = tree[k]

(* The slots that another row reads are not written. *)
LEMMA OthersRead ==
    ASSUME SizesAssumption, TextAssumption, NothingAssumption, SlotInv, SlotInv', ContentInv,
           NEW r \in Row, OnlyRow(r), Untouched(r), TreeAgrees,
           NEW q \in Row, q # r, req[q] # NoReq
    PROVE  /\ \A p \in Column : table[q][p] # NoSlot => state'[table[q][p]] = state[table[q][p]]
           /\ \A j \in Candidate : state'[reserve[q][j]] = state[reserve[q][j]]
           /\ Borrowed(q)'
<1>1. /\ req'[q] = req[q] /\ table'[q] = table[q] /\ reserve'[q] = reserve[q]
      /\ AllSlots' = AllSlots /\ q \in Live /\ q \in Live' /\ Candidate' = Candidate
      /\ Column' = Column
  BY RowIs DEF OnlyRow, AllSlots, Live, Candidate, Column
<1>2. PageSlots(q)' = PageSlots(q) /\ ReserveSlots(q)' = ReserveSlots(q) /\ HandleLen(q)' = HandleLen(q)
  BY OtherRow DEF OnlyRow
<1>3. /\ (RowSlots(q) \cup TreeSlots)' \subseteq AllSlots
      /\ (RowSlots(q) \cup TreeSlots)' \cap RowSlots(r)' = {}
  BY <1>1 DEF SlotInv, Apart, Disjoint, RowSlots
<1>4. PageSlots(q) \cup ReserveSlots(q) \cup TreeSlots' \subseteq AllSlots \ RowSlots(r)'
  BY <1>2, <1>3 DEF RowSlots
<1>5. ASSUME NEW p \in Column, p < HandleLen(q)
      PROVE  /\ table[q][p] = tree'[SubSeq(req[q].handle, 1, p + 1)]
             /\ table[q][p] \in TreeSlots'
  <2>1. PICK k : k = SubSeq(req[q].handle, 1, p + 1)
    OBVIOUS
  <2>2. p \in Nat
    BY DEF Column
  <2>3. k \in DOMAIN tree /\ k \in PrefixesOf(req[q].handle)
    BY <1>5, <2>1, <2>2, HandleIs
  <2>4. k \in DOMAIN tree'
    BY <1>1, <2>3 DEF SlotInv, Locks, Held
  <2>5. table[q][p] = tree[k]
    BY <1>1, <1>5, <2>1 DEF ContentInv, RowContents, Borrowed
  <2>6. tree'[k] = tree[k]
    BY <2>3, <2>4 DEF TreeAgrees
  <2> QED BY <2>1, <2>4, <2>5, <2>6 DEF TreeSlots
<1>6. ASSUME NEW p \in Column, table[q][p] # NoSlot
      PROVE  state'[table[q][p]] = state[table[q][p]]
  <2>1. p \in Nat /\ HandleLen(q) \in Nat
    BY RowIs DEF Column
  <2>2. CASE p < HandleLen(q)
    BY <1>4, <1>5, <2>2 DEF Untouched
  <2>3. CASE HandleLen(q) <= p
    <3>1. table[q][p] \in PageSlots(q)
      BY <1>6, <2>3 DEF PageSlots, Owned
    <3> QED BY <1>4, <3>1 DEF Untouched
  <2> QED BY <2>1, <2>2, <2>3
<1>7. \A j \in Candidate : state'[reserve[q][j]] = state[reserve[q][j]]
  BY <1>4 DEF Untouched, ReserveSlots
<1>8. Borrowed(q)'
  BY <1>1, <1>2, <1>5 DEF Borrowed
<1> QED BY <1>6, <1>7, <1>8

(* A step of one row leaves what the others rely on. *)
LEMMA OthersKeep ==
    ASSUME SizesAssumption, TextAssumption, NothingAssumption, SlotInv, SlotInv', ContentInv,
           NEW r \in Row, OnlyRow(r), Untouched(r), TreeAgrees,
           NEW q \in Row, q # r, req[q] # NoReq
    PROVE  RowContents(q)'
<1>1. /\ req'[q] = req[q] /\ table'[q] = table[q] /\ reserve'[q] = reserve[q]
      /\ speculating' = speculating /\ HandleLen(q)' = HandleLen(q)
      /\ Column' = Column /\ LastColumn(q)' = LastColumn(q)
      /\ \A n : Prefix(q, n)' = Prefix(q, n)
  BY OtherRow DEF OnlyRow, Column, LastColumn, Prefix
<1>2. /\ \A p \in Column : table[q][p] # NoSlot => state'[table[q][p]] = state[table[q][p]]
      /\ \A j \in Candidate : state'[reserve[q][j]] = state[reserve[q][j]]
      /\ Borrowed(q)'
  BY OthersRead
<1>3. /\ q \in Live /\ RowContents(q) /\ Lengths(q) /\ req[q].cached \in Nat
      /\ req[q].inflight \in Nat /\ req[q].accepted \in Nat /\ req[q].running \in BOOLEAN
  BY RowIs DEF ContentInv
<1>4. PagesExact(q)'
  <2>1. ASSUME NEW p \in Column, HandleLen(q) <= p, p < req[q].cached \div PageSize
        PROVE  state'[table[q][p]] = Prefix(q, (p + 1) * PageSize)
    <3>1. p \in Nat
      BY DEF Column
    <3>2. /\ table[q][p] \in TreeSlots \cup PageSlots(q)
          /\ state[table[q][p]] = Prefix(q, (p + 1) * PageSize)
      BY <2>1, <3>1, PageIs
    <3>3. table[q][p] # NoSlot
      BY <3>2, SlotsIn DEF SlotInv
    <3> QED BY <1>2, <3>2, <3>3
  <2> QED BY <1>1, <2>1 DEF PagesExact
<1>5. req[q].baseline = NoSlot => PageState(q)'
  <2>1. ASSUME req[q].baseline = NoSlot, req[q].cached > 0
        PROVE  /\ table[q][LastColumn(q)] # NoSlot
               /\ state'[table[q][LastColumn(q)]] = Prefix(q, req[q].cached)
    <3>1. LastColumn(q) \in Column
      BY <2>1, LastIs
    <3> QED BY <1>2, <1>3, <2>1, <3>1 DEF RowContents, PageState
  <2>2. req[q].baseline = NoSlot => req[q].inflight = 0
    BY <1>3 DEF RowContents, PageState
  <2> QED BY <1>1, <2>1, <2>2 DEF PageState
<1>6. req[q].baseline # NoSlot => BaseState(q)'
  <2>1. ASSUME req[q].baseline # NoSlot, req[q].inflight = 0
        PROVE  state'[req[q].baseline] = state[req[q].baseline]
    <3>1. /\ speculating /\ req[q].running
          /\ req[q].baseline \in {reserve[q][0], table[q][LastColumn(q)]}
      BY <1>3, <2>1 DEF RowContents, BaseState
    <3>2. 0 \in Candidate
      BY <3>1 DEF Candidate, SizesAssumption
    <3>3. LastColumn(q) \in Column
      BY <1>3, <3>1, LastIs DEF Lengths
    <3> QED BY <1>2, <2>1, <3>1, <3>2, <3>3
  <2>2. req[q].baseline # NoSlot => BaseState(q)
    BY <1>3 DEF RowContents
  <2> QED BY <1>1, <2>1, <2>2 DEF BaseState
<1>7. req[q].inflight > 0 => CandidatesExact(q)'
  <2>1. ASSUME req[q].inflight > 0, NEW j \in 0 .. req[q].accepted - 1
        PROVE  state'[reserve[q][j]] = Prefix(q, req[q].cached + j + 1)
    <3>1. speculating /\ req[q].accepted - 1 \in Candidate
      BY <2>1, CommitIs
    <3>2. j \in Candidate
      <4>1. PICK a, d : a = req[q].accepted /\ d = Drafts
        OBVIOUS
      <4>2. a \in 1 .. d + 1 /\ d \in Nat
        BY <2>1, <4>1, CommitIs DEF SizesAssumption
      <4>3. j \in 0 .. d
        BY <2>1, <4>1, <4>2
      <4> QED BY <3>1, <4>1, <4>3 DEF Candidate
    <3>3. CandidatesExact(q)
      BY <1>3, <2>1 DEF RowContents
    <3> QED BY <1>2, <3>2, <3>3 DEF CandidatesExact
  <2> QED BY <1>1, <2>1 DEF CandidatesExact
<1> QED BY <1>1, <1>2, <1>4, <1>5, <1>6, <1>7 DEF RowContents

(* Checkpoints that stay in the tree are not written. *)
LEMMA TreeKeeps ==
    ASSUME SizesAssumption, SlotInv', ContentInv, NEW r \in Row, OnlyRow(r), Untouched(r),
           \A k \in DOMAIN tree' : k \in DOMAIN tree /\ tree'[k] = tree[k]
    PROVE  CheckpointsExact'
<1>1. AllSlots' = AllSlots
  BY DEF OnlyRow, AllSlots
<1>2. TreeSlots' \subseteq AllSlots \ RowSlots(r)'
  BY <1>1 DEF SlotInv, Apart, Disjoint, RowSlots
<1>3. ASSUME NEW k \in DOMAIN tree' PROVE state'[tree'[k]] = Tokens(k)
  <2>1. tree'[k] \in TreeSlots'
    BY DEF TreeSlots
  <2>2. state'[tree'[k]] = state[tree[k]]
    BY <1>2, <2>1 DEF Untouched
  <2> QED BY <2>2 DEF ContentInv, CheckpointsExact
<1> QED BY <1>3 DEF CheckpointsExact, Tokens

LEMMA ContentStep ==
    ASSUME SizesAssumption, TextAssumption, NothingAssumption, SlotInv, SlotInv', ContentInv,
           NEW r \in Row, OnlyRow(r), Untouched(r), TreeAgrees, CheckpointsExact',
           req'[r] # NoReq => RowContents(r)'
    PROVE  ContentInv'
<1>1. ASSUME NEW q \in Live' PROVE RowContents(q)'
  <2>1. q \in Row /\ req'[q] # NoReq
    BY DEF Live
  <2>2. CASE q # r
    <3>1. req[q] # NoReq
      BY <2>1, <2>2 DEF OnlyRow
    <3> QED BY <2>1, <2>2, <3>1, OthersKeep
  <2> QED BY <2>1, <2>2
<1> QED BY <1>1 DEF ContentInv
-----------------------------------------------------------------------------
(* Prefill and decode *)

LEMMA AllocatedIs ==
    ASSUME SizesAssumption, TextAssumption, NothingAssumption, SlotInv, NEW r \in Row,
           NEW to \in Nat, AllocatesTo(r, to)
    PROVE  /\ OnlyRow(r) /\ req'[r] = [req[r] EXCEPT !.cached = to] /\ req'[r] # NoReq
           /\ HandleLen(r)' = HandleLen(r)
           /\ \A k \in DOMAIN tree' : k \in DOMAIN tree /\ tree'[k] = tree[k]
           /\ \A p \in Column : p < DivCeil(req[r].cached) => table'[r][p] = table[r][p]
<1>1. PICK d, need : d = DivCeil(req[r].cached) /\ need = DivCeil(to) - d
  OBVIOUS
<1>2. /\ UnsetColumns(r, to) \subseteq Column
      /\ \A p \in UnsetColumns(r, to) : d <= p /\ p < DivCeil(to)
      /\ d \in Nat
  BY <1>1, UnsetAre DEF AllocatesTo
<1>3. PICK S, f : /\ Evicts(need, S) /\ freePages' = freePages + Cardinality(S) - need
                  /\ Assigns(r, UnsetColumns(r, to), freeStates \cup SlotsOf(S), f)
  BY <1>1, AllocateIs DEF AllocatesTo
<1>4. \A k \in DOMAIN tree' : k \in DOMAIN tree /\ tree'[k] = tree[k]
  BY <1>3 DEF Evicts, Without
<1>5. PICK x : x = [req[r] EXCEPT !.cached = to]
  OBVIOUS
<1>6. req[r] \in Request /\ Types
  BY RowIs DEF AllocatesTo, SlotInv
<1>7. x \in Request /\ x.handle = req[r].handle
  BY <1>5, <1>6 DEF Request
<1>8. /\ req'[r] = x /\ \A q \in Row : q # r => req'[q] = req[q]
      /\ req'[r] # NoReq /\ HandleLen(r)' = HandleLen(r)
  BY <1>5, <1>6, <1>7, RequestStep DEF AllocatesTo
<1>9. PICK D : D = UnsetColumns(r, to)
  OBVIOUS
<1>10. table' = [table EXCEPT ![r] = [p \in Column |-> IF p \in D THEN f[p] ELSE table[r][p]]]
  BY <1>3, <1>9 DEF Assigns
<1>11. /\ \A q \in Row : q # r => table'[q] = table[q]
       /\ \A p \in Column : p \notin D => table'[r][p] = table[r][p]
  BY <1>6, <1>10 DEF Types
<1>12. \A p \in Column : p < d => p \notin D
  <2>1. ASSUME NEW p \in D, p < d PROVE FALSE
    <3>1. p \in Column /\ d <= p
      BY <1>2, <1>9
    <3>2. p \in Nat
      BY <3>1 DEF Column
    <3> QED BY <1>2, <2>1, <3>1, <3>2
  <2> QED BY <2>1
<1>13. OnlyRow(r)
  BY <1>8, <1>11 DEF OnlyRow, AllocatesTo
<1> QED BY <1>1, <1>4, <1>5, <1>8, <1>11, <1>12, <1>13

LEMMA MaxOfOne ==
    ASSUME NEW p \in Int
    PROVE  Max({p}) = p
BY DEF Max

(* A step writes the pages that it advances, each with the state at its end *)
(* or at the end of the step, and no other slot.                            *)
LEMMA ColumnsWritten ==
    ASSUME SizesAssumption, TextAssumption, NothingAssumption, SlotInv, SlotInv', ContentInv,
           NEW r \in Row, NEW to \in Nat, AllocatesTo(r, to), WritesColumns(r, to)
    PROVE  /\ Untouched(r)
           /\ \A p \in Column :
                 /\ HandleLen(r) <= p /\ p < req[r].cached \div PageSize
                       => state'[table'[r][p]] = state[table'[r][p]]
                 /\ req[r].cached \div PageSize <= p /\ p < DivCeil(to)
                       => /\ table'[r][p] # NoSlot
                          /\ state'[table'[r][p]] = Prefix(r, Lesser(to, (p + 1) * PageSize))
<1>1. PICK c, h, q, e, old :
         /\ c = req[r].cached /\ h = HandleLen(r) /\ q = c \div PageSize /\ e = DivCeil(to)
         /\ old = IF c = 0 THEN <<>> ELSE state[PageSlot(r, c)]
  OBVIOUS
<1>2. /\ RowContents(r) /\ r \in Live /\ c \in Nat /\ h \in Nat /\ h <= q /\ q \in Nat /\ c < to
      /\ req[r].text \in Text /\ Len(req[r].text) \in Nat /\ to < Len(req[r].text)
  <2>1. r \in Live /\ c \in Nat /\ h \in Nat /\ h <= q /\ req[r].text \in Text /\ MaxLen(r) \in Nat
    BY <1>1, RowIs DEF AllocatesTo
  <2> QED BY <1>1, <2>1, DivCeilIs DEF AllocatesTo, ContentInv, MaxLen
<1>3. old = Prefix(r, c)
  <2>1. CASE c = 0
    BY <1>1, <2>1, SubSeqEmpty DEF Prefix
  <2>2. CASE c # 0
    <3>1. req[r].baseline = NoSlot
      BY <1>2 DEF RowContents, BaseState, AllocatesTo
    <3>2. NextSlot(r) = PageSlot(r, c)
      BY <1>1, <3>1 DEF NextSlot
    <3>3. c > 0
      BY <1>2, <2>2
    <3>4. state[NextSlot(r)] = Prefix(r, c)
      BY <1>1, <3>3, BaselineIs DEF AllocatesTo
    <3> QED BY <1>1, <2>2, <3>2, <3>4
  <2> QED BY <2>1, <2>2
<1>4. PagesOf(c, to) = q .. e - 1 /\ e \in Nat
  <2>1. to \in Nat \ {0}
    BY <1>2
  <2>2. PICK l : l = (to - 1) \div PageSize
    OBVIOUS
  <2>3. l \in Nat /\ e = l + 1
    BY <1>1, <2>1, <2>2, LastPage
  <2>4. e - 1 = l
    BY <2>3
  <2> QED BY <1>1, <2>2, <2>3, <2>4 DEF PagesOf
<1>5. PICK Q : Q = q .. e - 1
  OBVIOUS
<1>6. \A p \in Q : p \in Nat /\ q <= p /\ p < e /\ h <= p
  <2>1. h \in Nat /\ q \in Nat /\ h <= q /\ e \in Nat
    BY <1>2, <1>4
  <2> QED BY <1>5, <2>1
<1>7. Q \subseteq Column
  <2>1. to \in 0 .. Len(req[r].text)
    BY <1>2
  <2> QED BY <1>1, <1>2, <1>6, <2>1, ColumnsReach
<1>8. /\ req'[r] # NoReq /\ req'[r].cached = to /\ HandleLen(r)' = h
      /\ req'[r].running = req[r].running /\ speculating' = speculating
  <2>1. req[r] \in Request /\ speculating' = speculating
    BY RowIs DEF AllocatesTo
  <2>2. /\ req'[r] = [req[r] EXCEPT !.cached = to] /\ req'[r] # NoReq
        /\ HandleLen(r)' = HandleLen(r)
    BY AllocatedIs
  <2> QED BY <1>1, <2>1, <2>2 DEF Request
<1>9. \A p \in Q : p \in Owned(r)' /\ table'[r][p] # NoSlot
  <2>1. SlotsEnd(r)' = e
    BY <1>1, <1>8 DEF SlotsEnd, AllocatesTo
  <2>2. Columns(r)'
    BY DEF SlotInv, RowInv
  <2>3. \A p \in Column : h <= p /\ p < e => table'[r][p] # NoSlot
    BY <1>8, <2>1, <2>2 DEF Columns
  <2> QED BY <1>6, <1>7, <1>8, <2>3 DEF Owned
<1>10. \A a, b \in Owned(r)' : table'[r][a] = table'[r][b] => a = b
  BY DEF SlotInv, RowInv, RowOnce
<1>11. AllSlots' = AllSlots /\ AllSlots \subseteq Slot /\ PageSlots(r)' \subseteq AllSlots
  <2>1. AllSlots' = AllSlots
    BY <1>8 DEF AllSlots
  <2>2. RowSlots(r)' \subseteq AllSlots'
    BY DEF SlotInv, Apart
  <2> QED BY <2>1, <2>2, SlotsAre DEF RowSlots
<1>12. state' = [s \in Slot |->
           LET mine == {p \in Q : table'[r][p] = s}
           IN  IF mine = {} THEN state[s]
               ELSE Advance(r, c, Lesser(to, (Max(mine) + 1) * PageSize), old)]
  BY <1>1, <1>4, <1>5 DEF WritesColumns
<1>13. \A s \in Slot : (\A p \in Q : table'[r][p] # s) => state'[s] = state[s]
  BY <1>12
<1>14. ASSUME NEW p \in Q
       PROVE  state'[table'[r][p]] = Prefix(r, Lesser(to, (p + 1) * PageSize))
  <2>1. PICK s : s = table'[r][p]
    OBVIOUS
  <2>2. {x \in Q : table'[r][x] = s} = {p}
    BY <1>9, <1>10, <2>1
  <2>3. s \in Slot
    BY <1>9, <1>11, <2>1 DEF PageSlots
  <2>4. Max({p}) = p
    BY <1>6, MaxOfOne
  <2>5. state'[s] = Advance(r, c, Lesser(to, (p + 1) * PageSize), old)
    BY <1>12, <2>2, <2>3, <2>4
  <2> QED BY <1>3, <2>1, <2>5 DEF Advance
<1>15. Untouched(r)
  <2>1. ASSUME NEW s \in AllSlots \ RowSlots(r)' PROVE state'[s] = state[s]
    <3>1. \A p \in Q : table'[r][p] # s
      BY <1>9, <2>1 DEF RowSlots, PageSlots
    <3> QED BY <1>11, <1>13, <3>1
  <2> QED BY <2>1 DEF Untouched
<1>16. ASSUME NEW p \in Column, h <= p, p < q
       PROVE  state'[table'[r][p]] = state[table'[r][p]]
  <2>1. p \in Nat /\ p \notin Q
    BY <1>2, <1>6, <1>16 DEF Column
  <2>2. p < DivCeil(c) /\ p < e
    <3>1. DivCeil(c) \in Nat /\ q <= DivCeil(c) /\ DivCeil(c) <= e
      <4>1. c \in Nat /\ c <= to
        BY <1>2
      <4>2. DivCeil(c) \in Nat /\ c \div PageSize <= DivCeil(c)
        BY <4>1, DivCeilIs
      <4>3. DivCeil(c) <= DivCeil(to)
        BY <4>1, DivCeilGrows
      <4> QED BY <1>1, <4>2, <4>3
    <3> QED BY <1>2, <1>4, <1>16, <2>1, <3>1
  <2>3. SlotsEnd(r)' = e
    BY <1>1, <1>8 DEF SlotsEnd, AllocatesTo
  <2>4. Columns(r)'
    BY DEF SlotInv, RowInv
  <2>5. table'[r][p] # NoSlot
    BY <1>8, <1>16, <2>2, <2>3, <2>4 DEF Columns
  <2>6. p \in Owned(r)'
    BY <1>8, <1>16, <2>5 DEF Owned
  <2>7. table'[r][p] \in Slot
    BY <1>11, <2>6 DEF PageSlots
  <2>8. \A x \in Q : table'[r][x] # table'[r][p]
    BY <1>9, <1>10, <2>1, <2>6
  <2> QED BY <1>13, <2>7, <2>8
<1>17. \A p \in Column : q <= p /\ p < e => p \in Q
  BY <1>2, <1>4, <1>5 DEF Column
<1> QED BY <1>1, <1>9, <1>14, <1>15, <1>16, <1>17

(* n tokens end in the page of their last one. *)
LEMMA LastEnds ==
    ASSUME SizesAssumption, NEW n \in Nat \ {0}
    PROVE  \E l : /\ l = (n - 1) \div PageSize /\ l \in Nat /\ DivCeil(n) = l + 1
                  /\ (l + 1) * PageSize \in Nat /\ n <= (l + 1) * PageSize
<1>1. 1 \in 1 .. Drafts + 1
  BY DEF SizesAssumption
<1>2. PICK l : l = (n - 1) \div PageSize
  OBVIOUS
<1>3. l \in Nat /\ (l + 1) * PageSize \in Nat /\ n <= (l + 1) * PageSize
  BY <1>1, <1>2, CommitEnds
<1>4. DivCeil(n) = l + 1
  BY <1>2, LastPage
<1> QED BY <1>2, <1>3, <1>4

LEMMA AllocationContents ==
    ASSUME SizesAssumption, TextAssumption, NothingAssumption, SlotInv, SlotInv', ContentInv,
           NEW r \in Row, NEW to \in Nat, AllocatesTo(r, to), WritesColumns(r, to)
    PROVE  ContentInv'
<1>1. PICK c, h, q, e : c = req[r].cached /\ h = HandleLen(r) /\ q = c \div PageSize /\ e = DivCeil(to)
  OBVIOUS
<1>2. /\ RowContents(r) /\ r \in Live /\ c \in Nat /\ h \in Nat /\ h <= q /\ q \in Nat /\ c < to
      /\ req[r].text \in Text /\ req[r] \in Request /\ q <= DivCeil(c) /\ DivCeil(c) \in Nat
  <2>1. r \in Live /\ c \in Nat /\ h \in Nat /\ h <= q /\ req[r].text \in Text /\ req[r] \in Request
    BY <1>1, RowIs DEF AllocatesTo
  <2> QED BY <1>1, <2>1, DivCeilIs DEF AllocatesTo, ContentInv
<1>3. /\ OnlyRow(r) /\ req'[r] = [req[r] EXCEPT !.cached = to] /\ req'[r] # NoReq
      /\ HandleLen(r)' = h
      /\ \A k \in DOMAIN tree' : k \in DOMAIN tree /\ tree'[k] = tree[k]
      /\ \A p \in Column : p < DivCeil(c) => table'[r][p] = table[r][p]
  BY <1>1, AllocatedIs
<1>4. /\ Untouched(r)
      /\ \A p \in Column :
            /\ h <= p /\ p < q => state'[table'[r][p]] = state[table'[r][p]]
            /\ q <= p /\ p < e
                  => /\ table'[r][p] # NoSlot
                     /\ state'[table'[r][p]] = Prefix(r, Lesser(to, (p + 1) * PageSize))
  BY <1>1, ColumnsWritten
<1>5. /\ req'[r].cached = to /\ req'[r].handle = req[r].handle /\ req'[r].text = req[r].text
      /\ req'[r].inflight = 0 /\ req'[r].baseline = NoSlot /\ req'[r].running = req[r].running
      /\ \A n : Prefix(r, n)' = Prefix(r, n)
  <2>1. req[r].baseline = NoSlot
    <3>1. ~BaseState(r)
      BY DEF BaseState, AllocatesTo
    <3> QED BY <1>2, <3>1 DEF RowContents
  <2>2. req[r].inflight = 0
    BY DEF AllocatesTo
  <2>3. /\ req'[r].cached = to /\ req'[r].handle = req[r].handle /\ req'[r].text = req[r].text
        /\ req'[r].inflight = req[r].inflight /\ req'[r].baseline = req[r].baseline
        /\ req'[r].running = req[r].running
    BY <1>2, <1>3 DEF Request
  <2>4. \A n : Prefix(r, n)' = Prefix(r, n)
    BY <2>3 DEF Prefix
  <2> QED BY <2>1, <2>2, <2>3, <2>4
<1>6. Borrowed(r)'
  <2>1. ASSUME NEW p \in Column, p < h
        PROVE  table'[r][p] = tree'[SubSeq(req[r].handle, 1, p + 1)]
    <3>1. PICK k : k = SubSeq(req[r].handle, 1, p + 1)
      OBVIOUS
    <3>2. p \in Nat
      BY DEF Column
    <3>3. k \in PrefixesOf(req[r].handle)
      BY <1>1, <2>1, <3>1, <3>2, HandleIs DEF AllocatesTo
    <3>4. k \in DOMAIN tree'
      BY <1>3, <1>5, <3>3 DEF SlotInv, Locks, Held, Live
    <3>5. table'[r][p] = table[r][p]
      <4>1. p < DivCeil(c)
        BY <1>2, <2>1, <3>2
      <4> QED BY <1>3, <4>1
    <3>6. table[r][p] = tree[k]
      BY <1>1, <1>2, <2>1, <3>1 DEF RowContents, Borrowed
    <3> QED BY <1>3, <3>1, <3>4, <3>5, <3>6
  <2> QED BY <1>3, <1>5, <2>1 DEF Borrowed, Column
<1>7. PagesExact(r)'
  <2>1. ASSUME NEW p \in Column, h <= p, p < to \div PageSize
        PROVE  state'[table'[r][p]] = Prefix(r, (p + 1) * PageSize)
    <3>1. p \in Nat /\ to \div PageSize \in Nat /\ to \div PageSize <= e /\ e \in Nat
      BY <1>1, DivCeilIs DEF Column
    <3>2. CASE p < q
      <4>1. table'[r][p] = table[r][p]
        <5>1. q \in Nat /\ DivCeil(c) \in Nat /\ q <= DivCeil(c)
          BY <1>2
        <5>2. p < DivCeil(c)
          BY <3>1, <3>2, <5>1
        <5> QED BY <1>3, <5>2
      <4>2. state[table[r][p]] = Prefix(r, (p + 1) * PageSize)
        BY <1>1, <1>2, <2>1, <3>2 DEF RowContents, PagesExact
      <4> QED BY <1>4, <2>1, <3>2, <4>1, <4>2
    <3>3. CASE q <= p
      <4>1. p < e
        BY <2>1, <3>1
      <4>2. PICK x : x = (p + 1) * PageSize
        OBVIOUS
      <4>3. x \in Nat /\ x <= to
        <5>1. p + 1 \in Nat /\ p + 1 <= to \div PageSize
          BY <2>1, <3>1
        <5> QED BY <4>2, <5>1, WholePages
      <4>4. Lesser(to, x) = x
        BY <4>3 DEF Lesser
      <4> QED BY <1>4, <3>3, <4>1, <4>2, <4>4
    <3>4. p < q \/ q <= p
      <4>1. q \in Nat
        BY <1>2
      <4> QED BY <3>1, <4>1
    <3> QED BY <3>2, <3>3, <3>4
  <2> QED BY <1>3, <1>5, <2>1 DEF PagesExact, Column
<1>8. PageState(r)'
  <2>1. to \in Nat \ {0}
    BY <1>2
  <2>2. PICK l : /\ l = (to - 1) \div PageSize /\ l \in Nat /\ e = l + 1
                 /\ (l + 1) * PageSize \in Nat /\ to <= (l + 1) * PageSize
    BY <1>1, <2>1, LastEnds
  <2>3. LastColumn(r)' = l
    BY <1>5, <2>2 DEF LastColumn
  <2>4. l \in Column /\ l < e
    <3>1. l < e
      BY <2>2
    <3>2. to \in 0 .. Len(req[r].text)
      <4>1. Len(req[r].text) \in Nat
        BY <1>2, RowIs DEF AllocatesTo, MaxLen
      <4> QED BY <4>1 DEF AllocatesTo, MaxLen
    <3> QED BY <1>1, <1>2, <2>2, <3>1, <3>2, ColumnsReach
  <2>5. q <= l
    <3>1. PICK x : x = to - 1
      OBVIOUS
    <3>2. x \in Nat /\ c <= x
      BY <1>2, <2>1, <3>1
    <3>3. c \div PageSize <= x \div PageSize
      BY <1>2, <3>2, DivCeilGrows
    <3> QED BY <1>1, <2>2, <3>1, <3>3
  <2>6. Lesser(to, (l + 1) * PageSize) = to
    <3>1. PICK x : x = (l + 1) * PageSize
      OBVIOUS
    <3>2. x \in Nat /\ to <= x
      BY <2>2, <3>1
    <3>3. Lesser(to, x) = to
      BY <3>2 DEF Lesser
    <3> QED BY <3>1, <3>3
  <2>7. table'[r][l] # NoSlot /\ state'[table'[r][l]] = Prefix(r, to)
    BY <1>4, <2>4, <2>5, <2>6
  <2> QED BY <1>5, <2>3, <2>7 DEF PageState
<1>9. RowContents(r)'
  <2>1. ~(req'[r].inflight > 0)
    BY <1>5
  <2> QED BY <1>5, <1>6, <1>7, <1>8, <2>1 DEF RowContents
<1>10. TreeAgrees /\ CheckpointsExact'
  BY <1>3, <1>4, TreeKeeps DEF TreeAgrees
<1> QED BY <1>3, <1>4, <1>9, <1>10, ContentStep

LEMMA PrefillContents ==
    ASSUME SizesAssumption, TextAssumption, NothingAssumption, SlotInv, SlotInv', ContentInv,
           NEW r \in Row, NEW to \in Nat, Prefill(r, to)
    PROVE  ContentInv'
<1>1. /\ req[r] # NoReq /\ ~req[r].running /\ to \in req[r].cached + 1 .. PromptLen(r)
      /\ Allocate(r, to) /\ req' = [req EXCEPT ![r].cached = to] /\ WritesColumns(r, to)
      /\ reserve' = reserve /\ speculating' = speculating
  BY DEF Prefill
<1>2. /\ Lengths(r) /\ req[r].cached \in Nat /\ req[r].inflight \in Nat
      /\ PromptLen(r) \in Nat /\ MaxLen(r) \in Nat /\ PromptLen(r) < MaxLen(r)
  BY <1>1, RowIs
<1>3. req[r].inflight = 0
  <2>1. req[r].inflight > 0 => req[r].running
    BY <1>2 DEF Lengths
  <2>2. \A i \in Nat : ~(i > 0) => i = 0
    OBVIOUS
  <2> QED BY <1>1, <1>2, <2>1, <2>2
<1>4. req[r].cached < to /\ to < MaxLen(r)
  <2>1. PICK c, n, m : c = req[r].cached /\ n = PromptLen(r) /\ m = MaxLen(r)
    OBVIOUS
  <2>2. c \in Nat /\ n \in Nat /\ m \in Nat /\ to \in c + 1 .. n /\ n < m
    BY <1>1, <1>2, <2>1
  <2>3. c < to /\ to < m
    BY <2>2
  <2> QED BY <2>1, <2>3
<1>5. AllocatesTo(r, to)
  BY <1>1, <1>3, <1>4 DEF AllocatesTo
<1> QED BY <1>1, <1>5, AllocationContents

LEMMA DecodeContents ==
    ASSUME SizesAssumption, TextAssumption, NothingAssumption, SlotInv, SlotInv', ContentInv,
           NEW r \in Row, Decode(r)
    PROVE  ContentInv'
<1>1. PICK to : to = req[r].cached + 1
  OBVIOUS
<1>2. /\ req[r] # NoReq /\ ~speculating /\ to < MaxLen(r)
      /\ Allocate(r, to) /\ req' = [req EXCEPT ![r].cached = @ + 1] /\ WritesColumns(r, to)
      /\ reserve' = reserve /\ speculating' = speculating
  BY <1>1 DEF Decode
<1>3. Lengths(r) /\ req[r].cached \in Nat /\ req[r].inflight \in Nat
  BY <1>2, RowIs
<1>4. req[r].inflight = 0
  BY <1>2, <1>3 DEF Lengths
<1>5. to \in Nat /\ req[r].cached < to
  <2>1. \A c \in Nat : c + 1 \in Nat /\ c < c + 1
    OBVIOUS
  <2> QED BY <1>1, <1>3, <2>1
<1>6. req' = [req EXCEPT ![r] = [req[r] EXCEPT !.cached = to]]
  BY <1>1, <1>2
<1>7. AllocatesTo(r, to)
  BY <1>2, <1>4, <1>5, <1>6 DEF AllocatesTo
<1> QED BY <1>2, <1>5, <1>7, AllocationContents
-----------------------------------------------------------------------------
(* Admission *)

LEMMA AdmitContents ==
    ASSUME SizesAssumption, TextAssumption, NothingAssumption, SlotInv, SlotInv', ContentInv,
           NEW r \in Row, NEW t \in Text, Admit(r, t)
    PROVE  ContentInv'
<1>1. PICK key, n :
         /\ key = SubSeq(Blocks(SubSeq(t, 1, Prompt[t] - 1)), 1,
                         MatchLen(tree, Blocks(SubSeq(t, 1, Prompt[t] - 1))))
         /\ n = Len(key)
  OBVIOUS
<1>2. PICK x : x = [text |-> t, cached |-> n * PageSize, handle |-> key, inflight |-> 0,
                    accepted |-> 0, running |-> FALSE, baseline |-> NoSlot]
  OBVIOUS
<1>3. /\ req[r] = NoReq /\ req' = [req EXCEPT ![r] = x]
      /\ table' = [table EXCEPT ![r] =
            [p \in Column |-> IF p < n THEN MatchedPages(tree, key)[p + 1] ELSE table[r][p]]]
      /\ speculating' = speculating /\ tree' = tree /\ reserve' = reserve /\ state' = state
  BY <1>1, <1>2 DEF Admit
<1>4. /\ key \in Seq(Seq(Token)) /\ n \in Nat /\ key = SubSeq(Blocks(t), 1, n)
      /\ PrefixesOf(key) \subseteq DOMAIN tree
      /\ n * PageSize \in Nat /\ n * PageSize < Len(t) /\ DivCeil(n * PageSize) = n
  BY <1>1, AdmittedKey
<1>5. req = [q \in Row |-> req[q]] /\ table \in [Row -> [Column -> Slot \cup {NoSlot}]]
  BY DEF SlotInv, Types
<1>6. PICK N : N = n * PageSize
  OBVIOUS
<1>7. /\ x.text = t /\ x.cached = N /\ x.handle = key /\ x.baseline = NoSlot
      /\ x.inflight = 0 /\ x.accepted = 0 /\ x.running = FALSE
  BY <1>2, <1>6
<1>8. x # NoReq
  <2>1. t \in Text /\ N \in Nat /\ key \in Seq(Seq(Token)) /\ 0 \in Nat /\ NoSlot \in Slot \cup {NoSlot}
    BY <1>4, <1>6
  <2>2. x = [text |-> t, cached |-> N, handle |-> key, inflight |-> 0,
             accepted |-> 0, running |-> FALSE, baseline |-> NoSlot]
    BY <1>2, <1>6
  <2>3. x \in Request
    BY <2>1, <2>2 DEF Request
  <2> QED BY <2>3 DEF NothingAssumption
<1>9. req'[r] = x /\ \A q \in Row : q # r => req'[q] = req[q]
  BY <1>3, <1>5
<1>10. PICK g : g = [p \in Column |-> IF p < n THEN MatchedPages(tree, key)[p + 1] ELSE table[r][p]]
  OBVIOUS
<1>11. table'[r] = g /\ \A q \in Row : q # r => table'[q] = table[q]
  <2>1. table' = [table EXCEPT ![r] = g]
    BY <1>3, <1>10
  <2> QED BY <1>5, <2>1
<1>12. OnlyRow(r)
  BY <1>3, <1>9, <1>11 DEF OnlyRow
<1>13. HandleLen(r)' = n
  BY <1>1, <1>7, <1>8, <1>9 DEF HandleLen
<1>14. ASSUME NEW p \in Column, p < n
       PROVE  /\ table'[r][p] = tree[SubSeq(key, 1, p + 1)]
              /\ SubSeq(key, 1, p + 1) \in DOMAIN tree
  <2>1. p \in Nat
    BY DEF Column
  <2>2. p + 1 \in 1 .. n
    BY <1>4, <1>14, <2>1
  <2>3. SubSeq(key, 1, p + 1) \in DOMAIN tree
    BY <1>1, <1>4, <2>2 DEF PrefixesOf
  <2>4. MatchedPages(tree, key)[p + 1] = tree[SubSeq(key, 1, p + 1)]
    BY <1>1, <2>2 DEF MatchedPages
  <2> QED BY <1>10, <1>11, <1>14, <2>3, <2>4
<1>15. Borrowed(r)'
  BY <1>3, <1>7, <1>9, <1>13, <1>14 DEF Borrowed, Column
<1>16. PagesExact(r)'
  <2>1. N \div PageSize \in Nat /\ N \div PageSize <= n
    BY <1>4, <1>6, DivCeilIs
  <2>2. \A p \in Column : ~(n <= p /\ p < N \div PageSize)
    BY <1>4, <2>1 DEF Column
  <2> QED BY <1>7, <1>9, <1>13, <2>2 DEF PagesExact, Column
<1>17. ASSUME N > 0
       PROVE  /\ table'[r][(N - 1) \div PageSize] # NoSlot
              /\ state[table'[r][(N - 1) \div PageSize]] = SubSeq(t, 1, N)
  <2>1. N \in Nat \ {0} /\ N \in 0 .. Len(t) /\ Len(t) \in Nat /\ t \in Seq(Token)
    <3>1. t \in Seq(Token) /\ Len(t) \in Nat
      BY LenProperties DEF TextAssumption
    <3> QED BY <1>4, <1>6, <1>17, <3>1
  <2>2. PICK l : /\ l = (N - 1) \div PageSize /\ l \in Nat /\ DivCeil(N) = l + 1
    BY <2>1, LastEnds
  <2>3. n = l + 1 /\ l < n
    BY <1>4, <1>6, <2>2
  <2>4. l \in Column
    BY <1>4, <1>6, <2>1, <2>2, <2>3, ColumnsReach
  <2>5. table'[r][l] = tree[SubSeq(key, 1, n)] /\ SubSeq(key, 1, n) \in DOMAIN tree
    BY <1>14, <2>3, <2>4
  <2>6. SubSeq(key, 1, n) = SubSeq(Blocks(t), 1, n)
    <3>1. PICK b, one : b = Blocks(t) /\ one = 1
      OBVIOUS
    <3>2. b \in Seq(Seq(Token)) /\ Len(b) \in Nat /\ Len(b) = Len(t) \div PageSize
      BY <2>1, <3>1, BlocksAre, LenProperties
    <3>3. n \in 0 .. Len(b)
      <4>1. n * PageSize <= Len(t)
        BY <1>6, <2>1
      <4>2. n <= Len(t) \div PageSize
        BY <1>4, <2>1, <4>1, WholePages
      <4> QED BY <1>4, <3>2, <4>2
    <3>4. n \in one .. n /\ one \in Nat \ {0}
      <4>1. l \in Nat /\ n = l + 1
        BY <2>2, <2>3
      <4> QED BY <3>1, <4>1
    <3>5. SubSeq(SubSeq(b, 1, n), one, n) = SubSeq(b, one, n)
      BY <3>2, <3>3, <3>4, PartOfPrefix, ZenonT(60)
    <3> QED BY <1>4, <3>1, <3>5
  <2>7. Tokens(SubSeq(Blocks(t), 1, n)) = SubSeq(t, 1, N)
    <3>1. n * PageSize <= Len(t)
      BY <1>6, <2>1
    <3> QED BY <1>4, <1>6, <2>1, <3>1, TokensOf
  <2>8. state[tree[SubSeq(key, 1, n)]] = Tokens(SubSeq(key, 1, n))
    BY <2>5 DEF ContentInv, CheckpointsExact
  <2>9. tree[SubSeq(key, 1, n)] # NoSlot
    BY <2>5, SlotsIn DEF SlotInv, TreeSlots
  <2> QED BY <2>2, <2>5, <2>6, <2>7, <2>8, <2>9
<1>18. PageState(r)'
  BY <1>3, <1>7, <1>9, <1>17 DEF PageState, LastColumn, Prefix
<1>19. RowContents(r)'
  <2>1. ~(req'[r].inflight > 0)
    BY <1>7, <1>9
  <2> QED BY <1>7, <1>9, <1>15, <1>16, <1>18, <2>1 DEF RowContents
<1>20. Untouched(r) /\ TreeAgrees /\ CheckpointsExact'
  BY <1>3 DEF Untouched, TreeAgrees, CheckpointsExact, ContentInv, Tokens
<1> QED BY <1>12, <1>19, <1>20, ContentStep
-----------------------------------------------------------------------------
(* Verify rounds *)

LEMMA LaunchContents ==
    ASSUME SizesAssumption, TextAssumption, NothingAssumption, SlotInv, SlotInv', ContentInv,
           NEW r \in Row, NEW accepted \in 1 .. Drafts + 1, LaunchVerify(r, accepted)
    PROVE  ContentInv'
<1> DEFINE N == Lesser(Drafts + 1, MaxLen(r) - req[r].cached - 1)
           Base == IF req[r].baseline = NoSlot THEN PageSlot(r, req[r].cached) ELSE req[r].baseline
<1>1. /\ speculating /\ req[r] # NoReq /\ req[r].running /\ req[r].inflight = 0
      /\ accepted \in 1 .. N
      /\ AllocatePages(r, req[r].cached + N) /\ WritesReserve(r, Base, N, accepted)
      /\ req' = [req EXCEPT ![r].inflight = N, ![r].accepted = accepted, ![r].baseline = Base]
      /\ speculating' = speculating /\ table' = table /\ reserve' = reserve
  BY DEF LaunchVerify
<1>2. PICK n, b, c : n = N /\ b = Base /\ c = req[r].cached
  OBVIOUS
<1>3. /\ r \in Live /\ RowContents(r) /\ RowOnce(r) /\ Lengths(r) /\ req[r] \in Request
      /\ c \in Nat /\ c > 0 /\ HandleLen(r) \in Nat
  BY <1>1, <1>2, RowIs DEF Lengths, ContentInv
<1>4. b = NextSlot(r) /\ state[b] = Prefix(r, c)
  <2>1. b = NextSlot(r)
    BY <1>2 DEF NextSlot
  <2> QED BY <1>1, <1>2, <1>3, <2>1, BaselineIs
<1>5. b # NoSlot
  <2>1. CASE req[r].baseline = NoSlot
    <3>1. b \in TreeSlots \cup PageSlots(r)
      BY <1>1, <1>2, <1>3, <1>4, <2>1, BaselineIs
    <3> QED BY <3>1, SlotsIn DEF SlotInv
  <2>2. CASE req[r].baseline # NoSlot
    BY <1>2, <2>2
  <2> QED BY <2>1, <2>2
<1>6. n \in Nat /\ accepted \in 1 .. n /\ n <= Drafts + 1
  <2>1. PICK d, m : d = Drafts /\ m = MaxLen(r) - req[r].cached - 1
    OBVIOUS
  <2>2. d \in Nat /\ m \in Int
    <3>1. MaxLen(r) \in Nat /\ req[r].cached \in Nat
      BY <1>1, RowIs
    <3>2. \A y, z \in Nat : y - z - 1 \in Int
      OBVIOUS
    <3> QED BY <2>1, <3>1, <3>2 DEF SizesAssumption
  <2>3. n = Lesser(d + 1, m) /\ accepted \in 1 .. n
    BY <1>1, <1>2, <2>1
  <2>4. n \in Int /\ n <= d + 1
    BY <2>2, <2>3 DEF Lesser
  <2>5. n \in Nat
    BY <2>3, <2>4
  <2> QED BY <2>1, <2>3, <2>4, <2>5
<1>7. 0 .. n - 1 \subseteq Candidate
  <2>1. Drafts \in Nat
    BY DEF SizesAssumption
  <2> QED BY <1>1, <1>6, <2>1 DEF Candidate
<1> HIDE DEF N, Base
<1>8. PICK x : x = [req[r] EXCEPT !.inflight = n, !.accepted = accepted, !.baseline = b]
  OBVIOUS
<1>9. /\ x.handle = req[r].handle /\ x.cached = c /\ x.text = req[r].text
      /\ x.running /\ x.inflight = n /\ x.accepted = accepted /\ x.baseline = b
  BY <1>1, <1>2, <1>3, <1>8 DEF Request
<1>10. req'[r] = x /\ \A q \in Row : q # r => req'[q] = req[q]
  <2>1. req' = [req EXCEPT ![r] = x]
    BY <1>1, <1>2, <1>8
  <2>2. req = [q \in Row |-> req[q]]
    BY DEF SlotInv, Types
  <2> QED BY <2>1, <2>2
<1>11. OnlyRow(r)
  BY <1>1, <1>10 DEF OnlyRow
<1>12. req'[r] # NoReq
  <2>1. n \in Nat /\ accepted \in Nat /\ b \in Slot \cup {NoSlot}
    <3>1. accepted \in Nat
      BY <1>6
    <3>2. b \in Slot \cup {NoSlot}
      <4>1. CASE req[r].baseline = NoSlot
        BY <1>1, <1>2, <1>3, <1>4, <4>1, BaselineIs, SlotsIn DEF SlotInv
      <4>2. CASE req[r].baseline # NoSlot
        BY <1>3, <1>4, <4>2 DEF NextSlot, Request
      <4> QED BY <4>1, <4>2
    <3> QED BY <1>6, <3>1, <3>2
  <2>2. x \in Request
    BY <1>3, <1>8, <2>1 DEF Request
  <2> QED BY <1>10, <2>2 DEF NothingAssumption
<1>13. HandleLen(r)' = HandleLen(r) /\ \A m : Prefix(r, m)' = Prefix(r, m)
  <2>1. req'[r].handle = req[r].handle /\ req'[r].text = req[r].text
    BY <1>9, <1>10
  <2>2. HandleLen(r)' = HandleLen(r)
    BY <1>1, <1>12, <2>1 DEF HandleLen
  <2>3. \A m : Prefix(r, m)' = Prefix(r, m)
    BY <2>1 DEF Prefix
  <2> QED BY <2>2, <2>3
<1>14. \A k \in DOMAIN tree' : k \in DOMAIN tree /\ tree'[k] = tree[k]
  BY <1>1 DEF AllocatePages, Without
<1>15. /\ \A s \in Slot : (\A j \in 0 .. n - 1 : reserve[r][j] # s) => state'[s] = state[s]
       /\ \A j \in 0 .. n - 1 : reserve[r][j] \in Slot
             /\ (j < accepted => state'[reserve[r][j]] = Prefix(r, c + j + 1))
  <2>1. state' = [s \in Slot |->
            LET mine == {j \in 0 .. n - 1 : reserve[r][j] = s}
            IN  IF mine = {} THEN state[s]
                ELSE IF Max(mine) < accepted
                THEN Advance(r, c, c + Max(mine) + 1, state[b])
                ELSE Junk]
    BY <1>1, <1>2 DEF WritesReserve
  <2>2. \A s \in Slot : (\A j \in 0 .. n - 1 : reserve[r][j] # s) => state'[s] = state[s]
    BY <2>1
  <2>3. ASSUME NEW j \in 0 .. n - 1
        PROVE  reserve[r][j] \in Slot /\ (j < accepted => state'[reserve[r][j]] = Prefix(r, c + j + 1))
    <3>1. PICK s : s = reserve[r][j]
      OBVIOUS
    <3>2. s \in Slot
      BY <1>7, <3>1 DEF SlotInv, Types
    <3>3. {i \in 0 .. n - 1 : reserve[r][i] = s} = {j}
      BY <1>3, <1>7, <3>1 DEF RowOnce
    <3>4. Max({j}) = j
      BY MaxOfOne
    <3>5. j < accepted => state'[s] = Advance(r, c, c + j + 1, state[b])
      BY <2>1, <3>2, <3>3, <3>4
    <3> QED BY <1>4, <3>1, <3>2, <3>5 DEF Advance
  <2> QED BY <2>2, <2>3
<1>16. Untouched(r)
  <2>1. \A j \in 0 .. n - 1 : reserve[r][j] \in RowSlots(r)'
    BY <1>1, <1>7 DEF RowSlots, ReserveSlots, Candidate
  <2> QED BY <1>15, <2>1, SlotsAre DEF Untouched
<1>17. ASSUME NEW p \in Column, table[r][p] # NoSlot
       PROVE  state'[table[r][p]] = state[table[r][p]]
  <2>1. table[r][p] \in TreeSlots \cup PageSlots(r)
    BY <1>1, <1>17, ColumnSlot
  <2>2. table[r][p] \notin ReserveSlots(r)
    BY <2>1 DEF SlotInv, Apart, Disjoint
  <2>3. table[r][p] \in Slot
    BY <1>17 DEF SlotInv, Types
  <2>4. \A j \in 0 .. n - 1 : reserve[r][j] # table[r][p]
    BY <1>7, <2>2 DEF ReserveSlots
  <2> QED BY <1>15, <2>3, <2>4
<1>18. Borrowed(r)'
  <2>1. ASSUME NEW p \in Column, p < HandleLen(r)
        PROVE  table[r][p] = tree'[SubSeq(req[r].handle, 1, p + 1)]
    <3>1. PICK k : k = SubSeq(req[r].handle, 1, p + 1)
      OBVIOUS
    <3>2. p \in Nat
      BY DEF Column
    <3>3. k \in PrefixesOf(req[r].handle)
      BY <1>1, <2>1, <3>1, <3>2, HandleIs
    <3>4. k \in DOMAIN tree'
      BY <1>9, <1>10, <1>12, <3>3 DEF SlotInv, Locks, Held, Live
    <3>5. table[r][p] = tree[k]
      BY <1>3, <2>1, <3>1 DEF RowContents, Borrowed
    <3> QED BY <1>14, <3>1, <3>4, <3>5
  <2> QED BY <1>1, <1>9, <1>10, <1>13, <2>1 DEF Borrowed, Column
<1>19. PagesExact(r)'
  <2>1. ASSUME NEW p \in Column, HandleLen(r) <= p, p < c \div PageSize
        PROVE  state'[table[r][p]] = Prefix(r, (p + 1) * PageSize)
    <3>1. p \in Nat
      BY DEF Column
    <3>2. /\ table[r][p] \in TreeSlots \cup PageSlots(r)
          /\ state[table[r][p]] = Prefix(r, (p + 1) * PageSize)
      BY <1>1, <1>2, <2>1, <3>1, PageIs
    <3>3. table[r][p] # NoSlot
      BY <3>2, SlotsIn DEF SlotInv
    <3> QED BY <1>17, <3>2, <3>3
  <2>2. table' = table /\ req'[r].cached = c
    BY <1>1, <1>9, <1>10
  <2> QED BY <1>13, <2>1, <2>2 DEF PagesExact, Column
<1>20. BaseState(r)' /\ req'[r].baseline # NoSlot
  <2>1. ~(req'[r].inflight = 0)
    BY <1>6, <1>9, <1>10
  <2> QED BY <1>1, <1>5, <1>9, <1>10, <2>1 DEF BaseState
<1>21. CandidatesExact(r)'
  <2>1. ASSUME NEW j \in 0 .. accepted - 1 PROVE state'[reserve[r][j]] = Prefix(r, c + j + 1)
    <3>1. j \in 0 .. n - 1 /\ j < accepted
      BY <1>6
    <3> QED BY <1>15, <3>1
  <2>2. reserve' = reserve /\ req'[r].cached = c /\ req'[r].accepted = accepted
    BY <1>1, <1>9, <1>10
  <2> QED BY <1>13, <2>1, <2>2 DEF CandidatesExact
<1>22. RowContents(r)'
  BY <1>18, <1>19, <1>20, <1>21 DEF RowContents
<1>23. TreeAgrees /\ CheckpointsExact'
  BY <1>11, <1>14, <1>16, TreeKeeps DEF TreeAgrees
<1> QED BY <1>11, <1>16, <1>22, <1>23, ContentStep

(* What a commit makes of the candidates: the one at the end of page P goes *)
(* to the page, the last accepted one is the next baseline.                 *)
LEMMA CommitContents ==
    ASSUME SizesAssumption, TextAssumption, NothingAssumption, SlotInv, ContentInv,
           NEW r \in Row, req[r] # NoReq, req[r].inflight > 0, CommitStates(r)
    PROVE  /\ NextBaseline(r) # NoSlot
           /\ state[NextBaseline(r)] = Prefix(r, req[r].cached + req[r].accepted)
           /\ Pins(r) => state[table'[r][CommitPage(r)]] = Prefix(r, PageEnd(r))
           /\ IF EndsAtPage(r)
              THEN /\ NextBaseline(r) = table'[r][CommitPage(r)]
                   /\ req[r].cached + req[r].accepted = PageEnd(r)
              ELSE NextBaseline(r) = reserve'[r][0]
<1>1. PICK c, a, B, E : /\ c = req[r].cached /\ a = req[r].accepted
                        /\ B = Boundary(r) /\ E = PageEnd(r)
  OBVIOUS
<1>2. /\ a \in 1 .. Drafts + 1 /\ c \in Nat \ {0} /\ E \in Nat /\ a - 1 \in Candidate /\ 0 \in Candidate
      /\ CommitPage(r) \in Column
      /\ Pins(r) => B \in Candidate /\ B <= a - 1
  BY <1>1, CommitIs
<1>3. a \in Nat \ {0} /\ Candidate \subseteq Nat
  <2>1. Drafts \in Nat
    BY DEF SizesAssumption
  <2> QED BY <1>2, <2>1 DEF Candidate
<1>4. \A j \in 0 .. a - 1 : state[reserve[r][j]] = Prefix(r, c + j + 1)
  BY <1>1, RowIs DEF ContentInv, RowContents, CandidatesExact
<1>5. reserve[r] \in [Candidate -> Slot] /\ Refilled(r) \in [Candidate -> Slot]
  BY NewReserveIs DEF SlotInv, Types
<1>6. state[reserve[r][a - 1]] = Prefix(r, c + a)
  <2>1. PICK j : j = a - 1
    OBVIOUS
  <2>2. j \in 0 .. a - 1 /\ c + j + 1 = c + a
    BY <1>2, <1>3, <2>1
  <2> QED BY <1>4, <2>1, <2>2
<1>7. ASSUME Pins(r)
      PROVE  /\ table'[r][CommitPage(r)] = reserve[r][B]
             /\ state[reserve[r][B]] = Prefix(r, E) /\ c + B + 1 = E
  <2>1. B \in 0 .. a - 1
    <3>1. B \in Candidate /\ B <= a - 1
      BY <1>2, <1>7
    <3>2. B \in Nat
      BY <1>3, <3>1
    <3> QED BY <1>3, <3>1, <3>2
  <2>2. B = E - 1 - c
    BY <1>1 DEF Boundary
  <2>3. c + B + 1 = E
    BY <1>2, <2>2
  <2>4. table' = [table EXCEPT ![r][CommitPage(r)] = reserve[r][B]]
    BY <1>1, <1>7 DEF CommitStates
  <2>5. table \in [Row -> [Column -> Slot \cup {NoSlot}]]
    BY DEF SlotInv, Types
  <2>6. table'[r][CommitPage(r)] = reserve[r][B]
    BY <1>2, <2>4, <2>5
  <2> QED BY <1>4, <2>1, <2>3, <2>6
<1>8. CASE EndsAtPage(r)
  <2>1. Pins(r) /\ B = a - 1 /\ NextBaseline(r) = reserve[r][B]
    BY <1>1, <1>8 DEF EndsAtPage, NextBaseline
  <2>2. c + a = E
    BY <1>2, <1>3, <1>7, <2>1
  <2>3. reserve[r][B] \in Slot
    BY <1>2, <1>5, <2>1
  <2> QED BY <1>1, <1>7, <1>8, <2>1, <2>2, <2>3 DEF NothingAssumption
<1>9. CASE ~EndsAtPage(r)
  <2>1. NextBaseline(r) = Refilled(r)[a - 1]
    BY <1>1, <1>9 DEF NextBaseline
  <2>2. Refilled(r)[a - 1] = reserve[r][a - 1]
    <3>1. CASE Pins(r)
      <4>1. Refilled(r) = [reserve[r] EXCEPT ![B] = Fresh(r)] /\ B # a - 1
        BY <1>1, <1>9, <3>1 DEF Refilled, EndsAtPage
      <4> QED BY <1>2, <1>5, <4>1
    <3>2. CASE ~Pins(r)
      BY <3>2 DEF Refilled
    <3> QED BY <3>1, <3>2
  <2>3. reserve[r][a - 1] \in Slot
    BY <1>2, <1>5
  <2>4. reserve'[r] = Swapped(Refilled(r), a - 1)
    <3>1. reserve' = [reserve EXCEPT ![r] = Swapped(Refilled(r), a - 1)]
      BY <1>1, <1>9 DEF CommitStates
    <3> QED BY <3>1 DEF SlotInv, Types
  <2>5. reserve'[r][0] = Refilled(r)[a - 1]
    <3>1. PICK f, j : f = Refilled(r) /\ j = a - 1
      OBVIOUS
    <3>2. f \in [Candidate -> Slot] /\ j \in Candidate /\ 0 \in Candidate
      BY <1>2, <1>5, <3>1
    <3>3. Swapped(f, j)[0] = f[j]
      BY <3>2 DEF Swapped
    <3> QED BY <2>4, <3>1, <3>3
  <2> QED BY <1>1, <1>6, <1>7, <1>9, <2>1, <2>2, <2>3, <2>5 DEF NothingAssumption
<1> QED BY <1>8, <1>9

LEMMA ProcessContents ==
    ASSUME SizesAssumption, TextAssumption, NothingAssumption, SlotInv, SlotInv', ContentInv,
           NEW r \in Row, ProcessVerify(r)
    PROVE  ContentInv'
<1>1. /\ req[r] # NoReq /\ req[r].inflight > 0 /\ CommitStates(r)
      /\ req' = [req EXCEPT ![r].cached = req[r].cached + req[r].accepted, ![r].inflight = 0,
                            ![r].accepted = 0, ![r].baseline = NextBaseline(r)]
      /\ speculating' = speculating /\ tree' = tree /\ state' = state
  BY DEF ProcessVerify
<1>2. PICK c, a, b, n, h : /\ c = req[r].cached /\ a = req[r].accepted /\ b = NextBaseline(r)
                           /\ n = c + a /\ h = HandleLen(r)
  OBVIOUS
<1>3. /\ r \in Live /\ RowContents(r) /\ req[r] \in Request /\ h \in Nat /\ c \in Nat /\ a \in Nat
  BY <1>1, <1>2, RowIs DEF ContentInv
<1>4. /\ speculating /\ req[r].running /\ c \in Nat \ {0} /\ CommitPage(r) \in Column
      /\ CommitPage(r) \in Nat /\ a \in 1 .. Drafts + 1
      /\ Pins(r) => h <= CommitPage(r) /\ c \div PageSize = CommitPage(r)
      /\ n \div PageSize = IF Pins(r) THEN CommitPage(r) + 1 ELSE c \div PageSize
  BY <1>1, <1>2, CommitIs
<1>5. /\ b # NoSlot /\ state[b] = Prefix(r, n)
      /\ Pins(r) => state[table'[r][CommitPage(r)]] = Prefix(r, PageEnd(r))
      /\ IF EndsAtPage(r) THEN b = table'[r][CommitPage(r)] /\ n = PageEnd(r)
         ELSE b = reserve'[r][0]
  BY <1>1, <1>2, CommitContents
<1>6. PICK x : x = [req[r] EXCEPT !.cached = n, !.inflight = 0, !.accepted = 0, !.baseline = b]
  OBVIOUS
<1>7. /\ x.handle = req[r].handle /\ x.cached = n /\ x.text = req[r].text
      /\ x.running /\ x.inflight = 0 /\ x.accepted = 0 /\ x.baseline = b
  BY <1>3, <1>4, <1>6 DEF Request
<1>8. req'[r] = x /\ \A q \in Row : q # r => req'[q] = req[q]
  <2>1. req' = [req EXCEPT ![r] = x]
    BY <1>1, <1>2, <1>6
  <2>2. req = [q \in Row |-> req[q]]
    BY DEF SlotInv, Types
  <2> QED BY <2>1, <2>2
<1>9. /\ \A q \in Row : q # r => table'[q] = table[q] /\ reserve'[q] = reserve[q]
      /\ \A p \in Column : ~(Pins(r) /\ p = CommitPage(r)) => table'[r][p] = table[r][p]
  <2>1. table \in [Row -> [Column -> Slot \cup {NoSlot}]] /\ reserve \in [Row -> [Candidate -> Slot]]
    BY DEF SlotInv, Types
  <2>2. \A q \in Row : q # r => table'[q] = table[q]
    BY <1>1, <2>1 DEF CommitStates
  <2>3. \A q \in Row : q # r => reserve'[q] = reserve[q]
    BY <1>1, <2>1 DEF CommitStates
  <2>4. \A p \in Column : ~(Pins(r) /\ p = CommitPage(r)) => table'[r][p] = table[r][p]
    BY <1>1, <1>4, <2>1 DEF CommitStates
  <2> QED BY <2>2, <2>3, <2>4
<1>10. OnlyRow(r)
  BY <1>1, <1>8, <1>9 DEF OnlyRow
<1>11. req'[r] # NoReq
  <2>1. b \in Slot \cup {NoSlot} /\ n \in Nat
    <3>1. n \in Nat
      <4>1. n = c + a /\ c \in Nat /\ a \in Nat
        BY <1>2, <1>3
      <4> QED BY <4>1
    <3>2. CASE ~EndsAtPage(r)
      <4>1. 0 \in Candidate /\ Candidate' = Candidate
        BY <1>1, CommitIs DEF Candidate
      <4>2. reserve' \in [Row -> [Candidate -> Slot]]
        BY <4>1 DEF SlotInv, Types
      <4>3. b = reserve'[r][0]
        BY <1>5, <3>2
      <4> QED BY <3>1, <4>1, <4>2, <4>3
    <3>3. CASE EndsAtPage(r)
      <4>1. table' \in [Row -> [Column -> Slot \cup {NoSlot}]]
        BY DEF SlotInv, Types, Column
      <4>2. b = table'[r][CommitPage(r)] /\ CommitPage(r) \in Column
        BY <1>4, <1>5, <3>3
      <4> QED BY <3>1, <4>1, <4>2
    <3> QED BY <3>1, <3>2, <3>3
  <2>2. x \in Request
    BY <1>3, <1>6, <2>1 DEF Request
  <2> QED BY <1>8, <2>2 DEF NothingAssumption
<1>12. HandleLen(r)' = h
  BY <1>1, <1>2, <1>7, <1>8, <1>11 DEF HandleLen
<1>13. Borrowed(r)'
  <2>1. ASSUME NEW p \in Column, p < h
        PROVE  table'[r][p] = tree[SubSeq(req[r].handle, 1, p + 1)]
    <3>1. p \in Nat
      BY DEF Column
    <3>2. ~(Pins(r) /\ p = CommitPage(r))
      BY <1>3, <1>4, <2>1, <3>1
    <3> QED BY <1>2, <1>3, <1>9, <2>1, <3>2 DEF RowContents, Borrowed
  <2> QED BY <1>1, <1>7, <1>8, <1>12, <2>1 DEF Borrowed, Column
<1>14. PagesExact(r)'
  <2>1. ASSUME NEW p \in Column, h <= p, p < n \div PageSize
        PROVE  state[table'[r][p]] = Prefix(r, (p + 1) * PageSize)
    <3>1. CASE Pins(r) /\ p = CommitPage(r)
      BY <1>5, <3>1 DEF PageEnd
    <3>2. CASE ~(Pins(r) /\ p = CommitPage(r))
      <4>1. p < c \div PageSize
        <5>1. CASE Pins(r)
          <6>1. p \in Nat /\ p < CommitPage(r) + 1 /\ p # CommitPage(r)
            BY <1>4, <2>1, <3>2, <5>1 DEF Column
          <6>2. p < CommitPage(r)
            BY <1>4, <6>1
          <6> QED BY <1>4, <5>1, <6>2
        <5>2. CASE ~Pins(r)
          BY <1>4, <2>1, <5>2
        <5> QED BY <5>1, <5>2
      <4> QED BY <1>2, <1>3, <1>9, <2>1, <3>2, <4>1 DEF RowContents, PagesExact
    <3> QED BY <3>1, <3>2
  <2> QED BY <1>1, <1>7, <1>8, <1>12, <2>1 DEF PagesExact, Column, Prefix
<1>15. BaseState(r)'
  <2>1. b \in {reserve'[r][0], table'[r][LastColumn(r)']}
    <3>1. CASE ~EndsAtPage(r)
      BY <1>5, <3>1
    <3>2. CASE EndsAtPage(r)
      <4>1. n = (CommitPage(r) + 1) * PageSize
        BY <1>5, <3>2 DEF PageEnd
      <4>2. n \in Nat \ {0}
        <5>1. c \in Nat \ {0} /\ a \in Nat /\ n = c + a
          BY <1>2, <1>3, <1>4
        <5> QED BY <5>1
      <4>3. PICK l : l = (n - 1) \div PageSize /\ l \in Nat /\ DivCeil(n) = l + 1
        BY <4>2, LastEnds
      <4>4. DivCeil(n) = CommitPage(r) + 1
        <5>1. CommitPage(r) + 1 \in Nat
          BY <1>4
        <5> QED BY <4>1, <5>1, WholePages
      <4>5. l = CommitPage(r)
        BY <1>4, <4>3, <4>4
      <4>6. LastColumn(r)' = l
        BY <1>7, <1>8, <4>3 DEF LastColumn
      <4> QED BY <1>5, <3>2, <4>5, <4>6
    <3> QED BY <3>1, <3>2
  <2> QED BY <1>1, <1>4, <1>5, <1>7, <1>8, <2>1 DEF BaseState, Prefix
<1>16. RowContents(r)'
  <2>1. ~(req'[r].inflight > 0)
    BY <1>7, <1>8
  <2> QED BY <1>5, <1>7, <1>8, <1>13, <1>14, <1>15, <2>1 DEF RowContents
<1>17. Untouched(r) /\ TreeAgrees /\ CheckpointsExact'
  BY <1>1 DEF Untouched, TreeAgrees, CheckpointsExact, ContentInv, Tokens
<1> QED BY <1>10, <1>16, <1>17, ContentStep
-----------------------------------------------------------------------------
(* Caching and release *)

(* The checkpoints that a request puts into the tree are those of its pages.*)
LEMMA CacheContents ==
    ASSUME SizesAssumption, TextAssumption, NothingAssumption, SlotInv, ContentInv,
           NEW r \in Row, req[r] # NoReq, Cache(r), state' = state
    PROVE  CheckpointsExact' /\ TreeAgrees
<1>1. PICK key, m, n, t, b, pages :
         /\ key = Key(r) /\ m = MatchLen(tree, key) /\ n = Len(key)
         /\ t = req[r].text /\ b = Blocks(t) /\ pages = [i \in 1 .. n |-> table[r][i - 1]]
  OBVIOUS
<1>2. /\ key \in Seq(Seq(Token)) /\ n = req[r].cached \div PageSize /\ key = SubSeq(b, 1, n)
      /\ m \in Nat /\ n \in Nat /\ m <= n /\ n * PageSize <= req[r].cached
  BY <1>1, CacheIs
<1>3. t \in Seq(Token) /\ Len(t) \in Nat /\ req[r].cached \in Nat /\ req[r].cached < Len(t)
  BY <1>1, RowIs DEF Lengths, MaxLen
<1>4. TreeTypes
  BY DEF SlotInv
<1>5. tree' = InsertPages(tree, key, pages)
  BY <1>1 DEF Cache
<1>6. Inserts(key, m, pages)
  BY <1>1, <1>2, <1>4, <1>5, InsertIs
<1>7. ASSUME NEW i \in m + 1 .. n
      PROVE  state[pages[i]] = Tokens(SubSeq(key, 1, i))
  <2>1. i \in 1 .. n /\ i \in Nat
    BY <1>2
  <2>2. PICK p : p = i - 1
    OBVIOUS
  <2>3. p \in Nat /\ p < n /\ p + 1 = i /\ pages[i] = table[r][p]
    BY <1>1, <2>1, <2>2
  <2>4. state[table[r][p]] = Prefix(r, i * PageSize)
    BY <1>2, <2>3, PageIs
  <2>5. SubSeq(key, 1, i) = SubSeq(b, 1, i)
    <3>1. PICK one : one = 1
      OBVIOUS
    <3>2. b \in Seq(Seq(Token)) /\ Len(b) \in Nat /\ n \in 0 .. Len(b)
      <4>1. b \in Seq(Seq(Token)) /\ Len(b) = Len(t) \div PageSize /\ Len(b) \in Nat
        BY <1>1, <1>3, BlocksAre, LenProperties
      <4>2. PICK y, z : y = req[r].cached /\ z = Len(t)
        OBVIOUS
      <4>3. y \in Nat /\ z \in Nat /\ y <= z
        BY <1>3, <4>2
      <4>4. n <= Len(b)
        BY <1>2, <4>1, <4>2, <4>3, DivCeilGrows
      <4> QED BY <1>2, <4>1, <4>4
    <3>3. one \in Nat \ {0} /\ i \in one .. n
      BY <2>1, <3>1
    <3>4. SubSeq(SubSeq(b, 1, n), one, i) = SubSeq(b, one, i)
      BY <3>2, <3>3, PartOfPrefix, ZenonT(60)
    <3> QED BY <1>2, <3>1, <3>4
  <2>6. Tokens(SubSeq(b, 1, i)) = SubSeq(t, 1, i * PageSize)
    <3>1. i * PageSize <= Len(t)
      <4>1. i <= req[r].cached \div PageSize
        BY <1>2, <2>1
      <4>2. i * PageSize <= req[r].cached /\ i * PageSize \in Nat
        BY <1>3, <2>1, <4>1, WholePages
      <4>3. PICK x, y, z : x = i * PageSize /\ y = req[r].cached /\ z = Len(t)
        OBVIOUS
      <4>4. x \in Nat /\ y \in Nat /\ z \in Nat /\ x <= y /\ y < z
        BY <1>3, <4>2, <4>3
      <4>5. x <= z
        BY <4>4
      <4> QED BY <4>3, <4>5
    <3> QED BY <1>1, <1>3, <2>1, <3>1, TokensOf
  <2> QED BY <1>1, <2>3, <2>4, <2>5, <2>6 DEF Prefix
<1>8. ASSUME NEW k \in DOMAIN tree' PROVE state[tree'[k]] = Tokens(k)
  <2>1. CASE k \in DOMAIN tree
    <3>1. tree'[k] = tree[k]
      BY <1>6, <2>1 DEF Inserts
    <3> QED BY <2>1, <3>1 DEF ContentInv, CheckpointsExact
  <2>2. CASE k \notin DOMAIN tree
    <3>1. PICK i \in m + 1 .. n : k = SubSeq(key, 1, i) /\ tree'[k] = pages[i]
      BY <1>1, <1>6, <2>2 DEF Inserts
    <3> QED BY <1>7, <3>1
  <2> QED BY <2>1, <2>2
<1>9. TreeAgrees
  BY <1>6 DEF TreeAgrees, Inserts
<1> QED BY <1>8, <1>9 DEF CheckpointsExact, Tokens

LEMMA PrefillDoneContents ==
    ASSUME SizesAssumption, TextAssumption, NothingAssumption, SlotInv, SlotInv', ContentInv,
           NEW r \in Row, PrefillDone(r)
    PROVE  ContentInv'
<1>1. PICK key, n, c, t : key = Key(r) /\ n = Len(key) /\ c = req[r].cached /\ t = req[r].text
  OBVIOUS
<1>2. /\ req[r] # NoReq /\ ~req[r].running /\ c = PromptLen(r) /\ Cache(r) /\ table' = Repointed(r)
      /\ req' = [req EXCEPT ![r].running = TRUE, ![r].handle = key]
      /\ speculating' = speculating /\ reserve' = reserve /\ state' = state
  BY <1>1 DEF PrefillDone
<1>3. /\ r \in Live /\ RowContents(r) /\ req[r] \in Request /\ c \in Nat \ {0} /\ t \in Seq(Token)
      /\ t \in Text /\ Len(t) \in Nat /\ c < Len(t)
  <2>1. c \in Nat \ {0}
    BY <1>2, RowIs
  <2> QED BY <1>1, <1>2, <2>1, RowIs DEF ContentInv, Lengths, MaxLen
<1>4. /\ key \in Seq(Seq(Token)) /\ n = c \div PageSize /\ key = SubSeq(Blocks(t), 1, n)
      /\ n \in Nat /\ n * PageSize <= c
      /\ \A i \in 1 .. n : SubSeq(key, 1, i) \in DOMAIN tree'
  BY <1>1, <1>2, CacheIs
<1>5. CheckpointsExact' /\ TreeAgrees
  BY <1>2, CacheContents
<1>6. PICK x : x = [req[r] EXCEPT !.running = TRUE, !.handle = key]
  OBVIOUS
<1>7. /\ x # NoReq /\ x.handle = key /\ x.running = TRUE /\ x.cached = c /\ x.text = t
      /\ x.inflight = req[r].inflight /\ x.accepted = req[r].accepted
      /\ x.baseline = req[r].baseline
  BY <1>1, <1>3, <1>4, <1>6 DEF Request, NothingAssumption
<1>8. req'[r] = x /\ \A q \in Row : q # r => req'[q] = req[q]
  <2>1. req' = [req EXCEPT ![r] = x]
    BY <1>2, <1>6
  <2>2. req = [q \in Row |-> req[q]]
    BY DEF SlotInv, Types
  <2> QED BY <2>1, <2>2
<1>9. HandleLen(r)' = n
  BY <1>1, <1>7, <1>8 DEF HandleLen
<1>10. /\ \A q \in Row : q # r => table'[q] = table[q]
       /\ \A p \in Column : table'[r][p] = IF p < n THEN tree'[SubSeq(key, 1, p + 1)] ELSE table[r][p]
  <2> PICK g : g = [p \in Column |-> IF p < n THEN MatchedPages(tree', key)[p + 1] ELSE table[r][p]]
    OBVIOUS
  <2>1. ASSUME NEW p \in Column, p < n
        PROVE  MatchedPages(tree', key)[p + 1] = tree'[SubSeq(key, 1, p + 1)]
    <3>1. p \in Nat
      BY DEF Column
    <3>2. p + 1 \in 1 .. n
      BY <1>4, <2>1, <3>1
    <3> QED BY <1>1, <3>2 DEF MatchedPages
  <2>2. table' = [table EXCEPT ![r] = g]
    <3>1. Len(MatchedPages(tree', key)) = n
      <4>1. PICK f : f = [i \in 1 .. n |-> tree'[SubSeq(key, 1, i)]]
        OBVIOUS
      <4>2. n \in Nat /\ Len(key) = n
        BY <1>1, <1>4
      <4>3. MatchedPages(tree', key) = f
        BY <4>1, <4>2 DEF MatchedPages
      <4>4. Len(f) = n
        BY <4>1, <4>2
      <4> QED BY <4>3, <4>4
    <3> QED BY <1>1, <1>2, <3>1 DEF Repointed
  <2>3. table'[r] = g /\ \A q \in Row : q # r => table'[q] = table[q]
    BY <2>2 DEF SlotInv, Types
  <2> QED BY <2>1, <2>3
<1>11. OnlyRow(r)
  BY <1>2, <1>8, <1>10 DEF OnlyRow
<1>12. Borrowed(r)'
  BY <1>7, <1>8, <1>9, <1>10 DEF Borrowed, Column
<1>13. PagesExact(r)'
  <2>1. \A p \in Column : ~(n <= p /\ p < c \div PageSize)
    BY <1>4 DEF Column
  <2> QED BY <1>7, <1>8, <1>9, <2>1 DEF PagesExact, Column
<1>14. req[r].baseline = NoSlot /\ PageState(r)
  BY <1>2, <1>3 DEF RowContents, BaseState
<1>15. PICK l : /\ l = (c - 1) \div PageSize /\ l \in Nat /\ DivCeil(c) = l + 1
                /\ (l + 1) * PageSize \in Nat /\ c <= (l + 1) * PageSize
  BY <1>3, LastEnds
<1>16. l \in Column /\ LastColumn(r) = l /\ LastColumn(r)' = l
  <2>1. l = LastColumn(r) /\ LastColumn(r)' = l
    BY <1>1, <1>7, <1>8, <1>15 DEF LastColumn
  <2>2. c > 0
    BY <1>3
  <2> QED BY <1>1, <1>2, <2>1, <2>2, LastIs
<1>17. table'[r][l] # NoSlot /\ state'[table'[r][l]] = SubSeq(t, 1, c)
  <2>1. CASE l < n
    <3>1. PICK k : k = SubSeq(key, 1, l + 1)
      OBVIOUS
    <3>2. l + 1 \in 1 .. n
      <4>1. l \in Nat /\ n \in Nat
        BY <1>4, <1>15
      <4> QED BY <2>1, <4>1
    <3>3. k \in DOMAIN tree' /\ table'[r][l] = tree'[k]
      BY <1>4, <1>10, <1>16, <2>1, <3>1, <3>2
    <3>4. k = SubSeq(Blocks(t), 1, l + 1)
      <4>1. PICK one, b : one = 1 /\ b = Blocks(t)
        OBVIOUS
      <4>2. b \in Seq(Seq(Token)) /\ Len(b) = Len(t) \div PageSize /\ Len(b) \in Nat
        BY <1>3, <4>1, BlocksAre, LenProperties
      <4>3. n \in 0 .. Len(b)
        <5>1. PICK z : z = Len(t)
          OBVIOUS
        <5>2. z \in Nat /\ c \in Nat /\ c <= z
          BY <1>3, <5>1
        <5>3. n <= Len(b)
          BY <1>4, <4>2, <5>1, <5>2, DivCeilGrows
        <5> QED BY <1>4, <4>2, <5>3
      <4>4. one \in Nat \ {0} /\ l + 1 \in one .. n
        BY <3>2, <4>1
      <4>5. SubSeq(SubSeq(b, 1, n), one, l + 1) = SubSeq(b, one, l + 1)
        BY <4>2, <4>3, <4>4, PartOfPrefix, ZenonT(60)
      <4> QED BY <1>4, <3>1, <4>1, <4>5
    <3>5. (l + 1) * PageSize = c
      <4>1. l + 1 \in Nat /\ l + 1 <= c \div PageSize
        BY <1>4, <3>2
      <4>2. (l + 1) * PageSize <= c
        BY <1>3, <4>1, WholePages
      <4>3. PICK y : y = (l + 1) * PageSize
        OBVIOUS
      <4>4. y \in Nat /\ c \in Nat /\ y <= c /\ c <= y
        BY <1>3, <1>15, <4>2, <4>3
      <4>5. y = c
        BY <4>4
      <4> QED BY <4>3, <4>5
    <3>6. Tokens(k) = SubSeq(t, 1, c)
      <4>1. l + 1 \in Nat /\ (l + 1) * PageSize <= Len(t)
        <5>1. l \in Nat /\ c \in Nat /\ Len(t) \in Nat /\ c < Len(t)
          BY <1>3, <1>15
        <5>2. c <= Len(t)
          BY <5>1
        <5> QED BY <3>5, <5>1, <5>2
      <4> QED BY <1>3, <3>4, <3>5, <4>1, TokensOf
    <3>7. state'[tree'[k]] = Tokens(k)
      BY <1>5, <3>3 DEF CheckpointsExact, Tokens
    <3>8. tree'[k] # NoSlot
      <4>1. TreeSlots' \subseteq AllSlots' /\ AllSlots' \subseteq Slot
        BY <1>2, SlotsAre DEF SlotInv, Apart, AllSlots
      <4> QED BY <3>3, <4>1 DEF TreeSlots, NothingAssumption
    <3> QED BY <3>3, <3>6, <3>7, <3>8
  <2>2. CASE ~(l < n)
    <3>1. table'[r][l] = table[r][l]
      BY <1>10, <1>16, <2>2
    <3>2. req[r].cached > 0
      BY <1>1, <1>3
    <3> QED BY <1>1, <1>2, <1>14, <1>16, <3>1, <3>2 DEF PageState, Prefix
  <2> QED BY <2>1, <2>2
<1>18. RowContents(r)'
  <2>1. req'[r].inflight = 0 /\ req'[r].baseline = NoSlot
    BY <1>7, <1>8, <1>14 DEF PageState
  <2>2. PageState(r)'
    BY <1>7, <1>8, <1>16, <1>17, <2>1 DEF PageState, Prefix
  <2>3. ~(req'[r].inflight > 0)
    BY <2>1
  <2> QED BY <1>12, <1>13, <2>1, <2>2, <2>3 DEF RowContents
<1>19. Untouched(r)
  BY <1>2 DEF Untouched
<1> QED BY <1>5, <1>11, <1>18, <1>19, ContentStep

LEMMA ReleaseContents ==
    ASSUME SizesAssumption, TextAssumption, NothingAssumption, SlotInv, SlotInv', ContentInv,
           NEW r \in Row, Release(r)
    PROVE  ContentInv'
<1>1. /\ req[r] # NoReq /\ Cache(r)
      /\ table' = [table EXCEPT ![r] = [p \in Column |-> NoSlot]]
      /\ req' = [req EXCEPT ![r] = NoReq]
      /\ speculating' = speculating /\ reserve' = reserve /\ state' = state
  BY DEF Release
<1>2. /\ req'[r] = NoReq /\ \A q \in Row : q # r => req'[q] = req[q]
      /\ \A q \in Row : q # r => table'[q] = table[q]
  BY <1>1 DEF SlotInv, Types
<1>3. OnlyRow(r)
  BY <1>1, <1>2 DEF OnlyRow
<1>4. CheckpointsExact' /\ TreeAgrees
  BY <1>1, CacheContents
<1>5. Untouched(r)
  BY <1>1 DEF Untouched
<1> QED BY <1>2, <1>3, <1>4, <1>5, ContentStep
-----------------------------------------------------------------------------
(* The invariant and what follows from it *)

LEMMA InitContents ==
    ASSUME Init
    PROVE  ContentInv
<1>1. Live = {} /\ DOMAIN tree = {}
  BY DEF Init, Live
<1> QED BY <1>1 DEF ContentInv, CheckpointsExact

LEMMA UnchangedContents ==
    ASSUME ContentInv, UNCHANGED vars
    PROVE  ContentInv'
<1>1. /\ speculating' = speculating /\ req' = req /\ tree' = tree /\ table' = table
      /\ reserve' = reserve /\ state' = state
  BY DEF vars
<1>2. CheckpointsExact'
  BY <1>1 DEF ContentInv, CheckpointsExact, Tokens
<1>3. ASSUME NEW q \in Live PROVE RowContents(q)'
  <2>1. RowContents(q)
    BY DEF ContentInv
  <2>2. /\ HandleLen(q)' = HandleLen(q) /\ LastColumn(q)' = LastColumn(q)
        /\ \A n : Prefix(q, n)' = Prefix(q, n)
    BY <1>1 DEF HandleLen, LastColumn, Prefix
  <2>3. Borrowed(q)' /\ PagesExact(q)'
    BY <1>1, <2>1, <2>2 DEF RowContents, Borrowed, PagesExact, Column
  <2>4. req[q].inflight > 0 => CandidatesExact(q)'
    BY <1>1, <2>1, <2>2 DEF RowContents, CandidatesExact
  <2>5. req[q].baseline = NoSlot => PageState(q)'
    BY <1>1, <2>1, <2>2 DEF RowContents, PageState
  <2>6. req[q].baseline # NoSlot => BaseState(q)'
    BY <1>1, <2>1, <2>2 DEF RowContents, BaseState
  <2> QED BY <1>1, <2>3, <2>4, <2>5, <2>6 DEF RowContents
<1>4. Live' = Live
  BY <1>1 DEF Live
<1> QED BY <1>2, <1>3, <1>4 DEF ContentInv

LEMMA NextContents ==
    ASSUME SizesAssumption, TextAssumption, NothingAssumption, SlotInv, ContentInv, [Next]_vars
    PROVE  ContentInv'
<1>0. SlotInv'
  BY NextKeeps
<1>1. CASE UNCHANGED vars
  BY <1>1, UnchangedContents
<1>2. CASE Idle
  BY <1>2, UnchangedContents DEF Idle
<1>3. ASSUME NEW r \in Row, NEW t \in Text, Admit(r, t) PROVE ContentInv'
  BY <1>0, <1>3, AdmitContents
<1>4. ASSUME NEW r \in Row, NEW to \in 1 .. Max({Len(t) : t \in Text}), Prefill(r, to) PROVE ContentInv'
  <2>1. to \in Nat
    OBVIOUS
  <2> QED BY <1>0, <1>4, <2>1, PrefillContents
<1>5. ASSUME NEW r \in Row, PrefillDone(r) PROVE ContentInv'
  BY <1>0, <1>5, PrefillDoneContents
<1>6. ASSUME NEW r \in Row, Decode(r) PROVE ContentInv'
  BY <1>0, <1>6, DecodeContents
<1>7. ASSUME NEW r \in Row, NEW accepted \in 1 .. Drafts + 1, LaunchVerify(r, accepted) PROVE ContentInv'
  BY <1>0, <1>7, LaunchContents
<1>8. ASSUME NEW r \in Row, ProcessVerify(r) PROVE ContentInv'
  BY <1>0, <1>8, ProcessContents
<1>9. ASSUME NEW r \in Row, Release(r) PROVE ContentInv'
  BY <1>0, <1>9, ReleaseContents
<1> QED BY <1>1, <1>2, <1>3, <1>4, <1>5, <1>6, <1>7, <1>8, <1>9 DEF Next

(* ContentInv is inductive together with SlotInv: each step writes only     *)
(* slots of its own row, so that what the others and the tree rely on stays,*)
(* and what it writes, pins, swaps or caches is the state that its place    *)
(* asks for.                                                                *)
THEOREM ContentsFollow == Spec => []ContentInv
<1>1. Init => ContentInv
  BY InitContents
<1>2. SlotInv /\ ContentInv /\ [Next]_vars => ContentInv'
  BY NextContents, SizesAssumption, TextAssumption, NothingAssumption
<1> QED BY <1>1, <1>2, SlotsFollow, PTL DEF Spec

(* CheckpointsExact: a cached page's slot holds the state after exactly the *)
(* tokens of the page's prefix, so that a request which matches the prefix  *)
(* (_try_allocate_one) continues from the right state.                      *)
THEOREM CheckpointsAlwaysExact == Spec => []CheckpointsExact
<1>1. ContentInv => CheckpointsExact
  BY DEF ContentInv
<1> QED BY <1>1, ContentsFollow, PTL

(* BaselineExact: the state that the next chunk, decode step or verify      *)
(* round of a request starts from is the state after its cached tokens,     *)
(* wherever the last step, commit or re-pointing has left it.               *)
THEOREM BaselinesAlwaysExact == Spec => []BaselineExact
<1>1. SlotInv /\ ContentInv => BaselineExact
  <2> SUFFICES ASSUME SlotInv, ContentInv PROVE BaselineExact
    OBVIOUS
  <2>1. ASSUME NEW r \in Live, req[r].cached > 0, req[r].inflight = 0
        PROVE  state[NextSlot(r)] = Prefix(r, req[r].cached)
    <3>1. r \in Row /\ req[r] # NoReq
      BY DEF Live
    <3> QED BY <2>1, <3>1, BaselineIs, SizesAssumption, TextAssumption, NothingAssumption
  <2> QED BY <2>1 DEF BaselineExact
<1> QED BY <1>1, SlotsFollow, ContentsFollow, PTL
=============================================================================
