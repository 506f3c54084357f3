----------------------- MODULE StateComparisonsProofs -----------------------
(***************************************************************************)
(* The state comparisons keep their types, write no evidence that a reorg has*)
(* taken back, and lose no sample that was due without counting it.         *)
(***************************************************************************)
EXTENDS StateComparisons, SequenceTheorems, FiniteSetTheorems, TLAPS

-----------------------------------------------------------------------------
(***************************************************************************)
(* Every sample is conserved, and what counts as evidence lies on the chain, *)
(* for every number of samples, every capacity, batch and backlog, every     *)
(* depth of reorganisation and every set of faults.                         *)
(***************************************************************************)

-----------------------------------------------------------------------------
(* Sequences in which no sample occurs twice *)

OneItemEach(items) ==
    \A i, j \in DOMAIN items : items[i].sample = items[j].sample => i = j

OneRowEach(rows) ==
    \A i, j \in DOMAIN rows :
        rows[i] # BlockRow /\ rows[j] # BlockRow /\ rows[i].sample = rows[j].sample
            => i = j

LEMMA AppendItem ==
    ASSUME NEW items \in Seq(Items), NEW x \in Items
    PROVE  /\ Append(items, x) \in Seq(Items)
           /\ ItemsOf(Append(items, x)) = ItemsOf(items) \cup {x.sample}
           /\ OneItemEach(items) /\ x.sample \notin ItemsOf(items)
                  => OneItemEach(Append(items, x))
<1> DEFINE more == Append(items, x)
<1>1. /\ more \in Seq(Items) /\ Len(more) = Len(items) + 1
      /\ \A i \in 1 .. Len(items) : more[i] = items[i]
      /\ more[Len(items) + 1] = x
  BY AppendProperties
<1>2. /\ DOMAIN more = 1 .. Len(items) + 1 /\ DOMAIN items = 1 .. Len(items)
      /\ Len(items) \in Nat
  BY <1>1, LenProperties
<1> HIDE DEF more
<1>3. ItemsOf(more) = ItemsOf(items) \cup {x.sample}
  <2>1. \A i \in DOMAIN more : more[i].sample \in ItemsOf(items) \cup {x.sample}
    BY <1>1, <1>2 DEF ItemsOf
  <2>2. \A i \in DOMAIN items : items[i].sample \in ItemsOf(more)
    BY <1>1, <1>2 DEF ItemsOf
  <2>3. x.sample \in ItemsOf(more)
    BY <1>1, <1>2 DEF ItemsOf
  <2>4. QED
    BY <2>1, <2>2, <2>3 DEF ItemsOf
<1>4. ASSUME OneItemEach(items), x.sample \notin ItemsOf(items)
      PROVE  OneItemEach(more)
  <2> SUFFICES ASSUME NEW i \in DOMAIN more, NEW j \in DOMAIN more,
                      more[i].sample = more[j].sample
               PROVE  i = j
    BY DEF OneItemEach
  <2>1. \A k \in DOMAIN items : items[k].sample # x.sample
    BY <1>4 DEF ItemsOf
  <2>2. QED
    BY <1>1, <1>2, <1>4, <2>1 DEF OneItemEach
<1>5. QED
  BY <1>1, <1>3, <1>4 DEF more

LEMMA TakeItem ==
    ASSUME NEW items \in Seq(Items), items # <<>>
    PROVE  /\ Head(items) \in Items /\ Tail(items) \in Seq(Items)
           /\ ItemsOf(items) = ItemsOf(Tail(items)) \cup {Head(items).sample}
           /\ OneItemEach(items) =>
                 /\ OneItemEach(Tail(items))
                 /\ Head(items).sample \notin ItemsOf(Tail(items))
<1> DEFINE rest == Tail(items)
<1>1. /\ Head(items) \in Items /\ rest \in Seq(Items) /\ Len(rest) = Len(items) - 1
      /\ \A i \in 1 .. Len(rest) : rest[i] = items[i + 1]
  BY HeadTailProperties
<1>2. /\ DOMAIN rest = 1 .. Len(items) - 1 /\ DOMAIN items = 1 .. Len(items)
      /\ Len(items) \in Nat /\ Len(items) >= 1
  BY <1>1, LenProperties, EmptySeq
<1>3. Head(items) = items[1]
  OBVIOUS
<1> HIDE DEF rest
<1>4. ItemsOf(items) = ItemsOf(rest) \cup {Head(items).sample}
  <2>1. ASSUME NEW i \in DOMAIN items
        PROVE  items[i].sample \in ItemsOf(rest) \cup {Head(items).sample}
    <3>1. CASE i = 1
      BY <3>1, <1>3
    <3>2. CASE i # 1
      <4>1. i - 1 \in DOMAIN rest /\ rest[i - 1] = items[i]
        BY <3>2, <1>1, <1>2
      <4>2. QED
        BY <4>1 DEF ItemsOf
    <3>3. QED
      BY <3>1, <3>2
  <2>2. \A i \in DOMAIN rest : rest[i].sample \in ItemsOf(items)
    BY <1>1, <1>2 DEF ItemsOf
  <2>3. Head(items).sample \in ItemsOf(items)
    BY <1>2, <1>3 DEF ItemsOf
  <2>4. QED
    BY <2>1, <2>2, <2>3 DEF ItemsOf
<1>5. ASSUME OneItemEach(items)
      PROVE  OneItemEach(rest) /\ Head(items).sample \notin ItemsOf(rest)
  <2>1. \A i \in DOMAIN rest : i + 1 \in DOMAIN items /\ 1 \in DOMAIN items
    BY <1>2
  <2>2. \A i \in DOMAIN rest : rest[i].sample # Head(items).sample
    BY <2>1, <1>1, <1>2, <1>3, <1>5 DEF OneItemEach
  <2>3. ASSUME NEW i \in DOMAIN rest, NEW j \in DOMAIN rest,
               rest[i].sample = rest[j].sample
        PROVE  i = j
    <3>1. items[i + 1].sample = items[j + 1].sample
      BY <2>3, <1>1, <1>2
    <3>2. i + 1 = j + 1
      BY <3>1, <2>1, <1>5 DEF OneItemEach
    <3>3. QED
      BY <3>2, <1>2
  <2>4. QED
    BY <2>2, <2>3 DEF OneItemEach, ItemsOf
<1>6. QED
  BY <1>1, <1>4, <1>5 DEF rest

LEMMA JoinItems ==
    ASSUME NEW p \in Seq(Items), NEW q \in Seq(Items)
    PROVE  /\ p \o q \in Seq(Items)
           /\ ItemsOf(p \o q) = ItemsOf(p) \cup ItemsOf(q)
           /\ OneItemEach(p) /\ OneItemEach(q) /\ ItemsOf(p) \cap ItemsOf(q) = {}
                  => OneItemEach(p \o q)
<1> DEFINE both == p \o q
<1>1. /\ both \in Seq(Items) /\ Len(both) = Len(p) + Len(q)
      /\ \A i \in 1 .. Len(p) + Len(q) :
            both[i] = IF i <= Len(p) THEN p[i] ELSE q[i - Len(p)]
  BY ConcatProperties
<1>2. /\ DOMAIN both = 1 .. Len(p) + Len(q) /\ DOMAIN p = 1 .. Len(p)
      /\ DOMAIN q = 1 .. Len(q) /\ Len(p) \in Nat /\ Len(q) \in Nat
  BY <1>1, LenProperties
<1> HIDE DEF both
<1>3. ItemsOf(both) = ItemsOf(p) \cup ItemsOf(q)
  <2>1. ASSUME NEW i \in DOMAIN both
        PROVE  both[i].sample \in ItemsOf(p) \cup ItemsOf(q)
    <3>1. CASE i <= Len(p)
      BY <3>1, <1>1, <1>2 DEF ItemsOf
    <3>2. CASE i > Len(p)
      <4>1. i - Len(p) \in DOMAIN q /\ both[i] = q[i - Len(p)]
        BY <3>2, <1>1, <1>2
      <4>2. QED
        BY <4>1 DEF ItemsOf
    <3>3. QED
      BY <3>1, <3>2, <1>2
  <2>2. \A i \in DOMAIN p : p[i].sample \in ItemsOf(both)
    BY <1>1, <1>2 DEF ItemsOf
  <2>3. ASSUME NEW i \in DOMAIN q PROVE q[i].sample \in ItemsOf(both)
    <3>1. i + Len(p) \in DOMAIN both /\ both[i + Len(p)] = q[i]
      BY <1>1, <1>2
    <3>2. QED
      BY <3>1 DEF ItemsOf
  <2>4. QED
    BY <2>1, <2>2, <2>3 DEF ItemsOf
<1>4. ASSUME OneItemEach(p), OneItemEach(q), ItemsOf(p) \cap ItemsOf(q) = {}
      PROVE  OneItemEach(both)
  <2> SUFFICES ASSUME NEW i \in DOMAIN both, NEW j \in DOMAIN both,
                      both[i].sample = both[j].sample
               PROVE  i = j
    BY DEF OneItemEach
  <2>1. \A k \in DOMAIN p, l \in DOMAIN q : p[k].sample # q[l].sample
    BY <1>4 DEF ItemsOf
  <2>2. CASE i <= Len(p) /\ j <= Len(p)
    BY <2>2, <1>1, <1>2, <1>4 DEF OneItemEach
  <2>3. CASE i > Len(p) /\ j > Len(p)
    <3>1. /\ i - Len(p) \in DOMAIN q /\ j - Len(p) \in DOMAIN q
          /\ both[i] = q[i - Len(p)] /\ both[j] = q[j - Len(p)]
      BY <2>3, <1>1, <1>2
    <3>2. i - Len(p) = j - Len(p)
      BY <3>1, <1>4 DEF OneItemEach
    <3>3. QED
      BY <3>2, <1>2
  <2>4. CASE i <= Len(p) /\ j > Len(p)
    <3>1. j - Len(p) \in DOMAIN q /\ both[j] = q[j - Len(p)] /\ i \in DOMAIN p /\ both[i] = p[i]
      BY <2>4, <1>1, <1>2
    <3>2. QED
      BY <3>1, <2>1
  <2>5. CASE i > Len(p) /\ j <= Len(p)
    <3>1. i - Len(p) \in DOMAIN q /\ both[i] = q[i - Len(p)] /\ j \in DOMAIN p /\ both[j] = p[j]
      BY <2>5, <1>1, <1>2
    <3>2. QED
      BY <3>1, <2>1
  <2>6. QED
    BY <2>2, <2>3, <2>4, <2>5, <1>2
<1>5. QED
  BY <1>1, <1>3, <1>4 DEF both

LEMMA AppendRow ==
    ASSUME NEW rows \in Seq(Rows), NEW r \in Rows
    PROVE  /\ Append(rows, r) \in Seq(Rows) /\ Len(Append(rows, r)) = Len(rows) + 1
           /\ ToSet(Append(rows, r)) = ToSet(rows) \cup {r}
           /\ OneRowEach(rows) /\ (r # BlockRow => Of(r.sample, ToSet(rows)) = {})
                  => OneRowEach(Append(rows, r))
<1> DEFINE more == Append(rows, r)
<1>1. /\ more \in Seq(Rows) /\ Len(more) = Len(rows) + 1
      /\ \A i \in 1 .. Len(rows) : more[i] = rows[i]
      /\ more[Len(rows) + 1] = r
  BY AppendProperties
<1>2. /\ DOMAIN more = 1 .. Len(rows) + 1 /\ DOMAIN rows = 1 .. Len(rows)
      /\ Len(rows) \in Nat
  BY <1>1, LenProperties
<1> HIDE DEF more
<1>3. ToSet(more) = ToSet(rows) \cup {r}
  <2>1. \A i \in DOMAIN more : more[i] \in ToSet(rows) \cup {r}
    BY <1>1, <1>2 DEF ToSet
  <2>2. \A i \in DOMAIN rows : rows[i] \in ToSet(more)
    BY <1>1, <1>2 DEF ToSet
  <2>3. r \in ToSet(more)
    BY <1>1, <1>2 DEF ToSet
  <2>4. QED
    BY <2>1, <2>2, <2>3 DEF ToSet
<1>4. ASSUME OneRowEach(rows), r # BlockRow => Of(r.sample, ToSet(rows)) = {}
      PROVE  OneRowEach(more)
  <2> SUFFICES ASSUME NEW i \in DOMAIN more, NEW j \in DOMAIN more,
                      more[i] # BlockRow, more[j] # BlockRow,
                      more[i].sample = more[j].sample
               PROVE  i = j
    BY DEF OneRowEach
  <2>1. r # BlockRow => \A k \in DOMAIN rows : rows[k] # BlockRow => rows[k].sample # r.sample
    BY <1>4 DEF Of, Sampled, ToSet
  <2>2. QED
    BY <1>1, <1>2, <1>4, <2>1 DEF OneRowEach
<1>5. QED
  BY <1>1, <1>3, <1>4 DEF more

(* A batch and what it leaves in the queue share no sample. *)
LEMMA SplitRows ==
    ASSUME NEW rows \in Seq(Rows), NEW n \in 0 .. Len(rows)
    PROVE  LET front == SubSeq(rows, 1, n)
               rest == SubSeq(rows, n + 1, Len(rows))
           IN  /\ front \in Seq(Rows) /\ Len(front) = n
               /\ rest \in Seq(Rows) /\ Len(rest) = Len(rows) - n
               /\ ToSet(rows) = ToSet(front) \cup ToSet(rest)
               /\ OneRowEach(rows) =>
                     /\ OneRowEach(front) /\ OneRowEach(rest)
                     /\ \A x \in ToSet(front), y \in ToSet(rest) :
                           x # BlockRow /\ y # BlockRow => x.sample # y.sample
<1> DEFINE front == SubSeq(rows, 1, n)
           rest == SubSeq(rows, n + 1, Len(rows))
<1>1. Len(rows) \in Nat /\ DOMAIN rows = 1 .. Len(rows)
      /\ \A i \in 1 .. Len(rows) : rows[i] \in Rows
  BY LenProperties
<1>2. /\ front \in Seq(Rows) /\ Len(front) = n
      /\ \A i \in 1 .. n : front[i] = rows[i]
  BY <1>1, SubSeqProperties, Z3
<1>3. /\ rest \in Seq(Rows) /\ Len(rest) = Len(rows) - n
      /\ \A i \in 1 .. Len(rows) - n : rest[i] = rows[n + i]
  <2>1. \A i \in n + 1 .. Len(rows) : rows[i] \in Rows
    BY <1>1
  <2>2. n + 1 \in Int /\ Len(rows) \in Int /\ n \in Nat
    BY <1>1
  <2>3. /\ rest \in Seq(Rows)
        /\ Len(rest) = IF n + 1 <= Len(rows) THEN Len(rows) - (n + 1) + 1 ELSE 0
        /\ \A i \in 1 .. Len(rows) - (n + 1) + 1 : rest[i] = rows[n + 1 + i - 1]
    BY <2>1, <2>2, SubSeqProperties
  <2> HIDE DEF rest
  <2>4. Len(rest) = Len(rows) - n
    <3>1. n <= Len(rows) /\ Len(rows) \in Nat /\ n \in Nat
      BY <1>1, <2>2
    <3>2. Len(rest) = IF n + 1 <= Len(rows) THEN Len(rows) - (n + 1) + 1 ELSE 0
      BY <2>3
    <3>3. CASE n + 1 <= Len(rows)
      BY <3>1, <3>2, <3>3
    <3>4. CASE ~(n + 1 <= Len(rows))
      BY <3>1, <3>2, <3>4
    <3>5. QED
      BY <3>3, <3>4
  <2>5. ASSUME NEW i \in 1 .. Len(rows) - n PROVE rest[i] = rows[n + i]
    <3>1. i \in 1 .. Len(rows) - (n + 1) + 1 /\ n + 1 + i - 1 = n + i
      BY <1>1, <2>2
    <3>2. QED
      BY <3>1, <2>3
  <2>6. QED
    BY <2>3, <2>4, <2>5
<1>4. DOMAIN front = 1 .. n /\ DOMAIN rest = 1 .. Len(rows) - n
  BY <1>2, <1>3, LenProperties
<1> HIDE DEF front, rest
<1>5. ToSet(rows) = ToSet(front) \cup ToSet(rest)
  <2>1. ASSUME NEW i \in DOMAIN rows PROVE rows[i] \in ToSet(front) \cup ToSet(rest)
    <3>1. CASE i <= n
      BY <3>1, <1>1, <1>2, <1>4 DEF ToSet
    <3>2. CASE i > n
      <4>1. i \in Nat /\ n \in Nat /\ Len(rows) \in Nat /\ n < i /\ i <= Len(rows)
        BY <3>2, <1>1
      <4>2. i - n \in 1 .. Len(rows) - n /\ n + (i - n) = i
        BY <4>1
      <4>3. rest[i - n] = rows[n + (i - n)]
        BY <4>2, <1>3
      <4>4. i - n \in DOMAIN rest /\ rest[i - n] = rows[i]
        BY <4>2, <4>3, <1>4
      <4>5. QED
        BY <4>4 DEF ToSet
    <3>3. QED
      BY <3>1, <3>2, <1>1
  <2>2. \A i \in DOMAIN front : front[i] \in ToSet(rows)
    BY <1>1, <1>2, <1>4 DEF ToSet
  <2>3. \A i \in DOMAIN rest : rest[i] \in ToSet(rows)
    BY <1>1, <1>3, <1>4 DEF ToSet
  <2>4. QED
    BY <2>1, <2>2, <2>3 DEF ToSet
<1>6. ASSUME OneRowEach(rows)
      PROVE  /\ OneRowEach(front) /\ OneRowEach(rest)
             /\ \A x \in ToSet(front), y \in ToSet(rest) :
                   x # BlockRow /\ y # BlockRow => x.sample # y.sample
  <2>1. OneRowEach(front)
    BY <1>1, <1>2, <1>4, <1>6 DEF OneRowEach
  <2>2. OneRowEach(rest)
    <3> SUFFICES ASSUME NEW i \in DOMAIN rest, NEW j \in DOMAIN rest,
                        rest[i] # BlockRow, rest[j] # BlockRow,
                        rest[i].sample = rest[j].sample
                 PROVE  i = j
      BY DEF OneRowEach
    <3>1. /\ n + i \in DOMAIN rows /\ n + j \in DOMAIN rows
          /\ rest[i] = rows[n + i] /\ rest[j] = rows[n + j]
      BY <1>1, <1>3, <1>4
    <3>2. n + i = n + j
      BY <3>1, <1>6 DEF OneRowEach
    <3>3. QED
      BY <3>2, <1>1, <1>4
  <2>3. ASSUME NEW i \in DOMAIN front, NEW j \in DOMAIN rest,
               front[i] # BlockRow, rest[j] # BlockRow
        PROVE  front[i].sample # rest[j].sample
    <3>1. i \in DOMAIN rows /\ n + j \in DOMAIN rows /\ i # n + j
      BY <1>1, <1>4
    <3>2. front[i] = rows[i] /\ rest[j] = rows[n + j]
      BY <1>2, <1>3, <1>4
    <3>3. QED
      BY <3>1, <3>2, <1>6, <2>3 DEF OneRowEach
  <2>4. QED
    BY <2>1, <2>2, <2>3 DEF ToSet
<1>7. QED
  BY <1>2, <1>3, <1>5, <1>6 DEF front, rest

-----------------------------------------------------------------------------
(* Types, and the shape of the chain: ids are given in order, the newest block *)
(* is the tip.                                                             *)

(* Answers are held only for the sample that is being settled. *)
AskedInv ==
    quoted # {} => pass = "settling" /\ taken # <<>> /\ Head(taken).target \in 1 .. MaxBlock

NodeInv ==
    /\ Height \in 1 .. MaxBlock /\ chain[Height] = mined
    /\ \A h \in 1 .. Height : chain[h] <= mined
    /\ lastHead.id <= mined
    /\ AskedInv

LEMMA ChainFacts ==
    ASSUME TypeOK, NodeInv
    PROVE  /\ Height \in Nat /\ Height >= 1 /\ Height <= MaxBlock
           /\ DOMAIN chain = 1 .. Height
           /\ \A h \in 1 .. Height : chain[h] \in 1 .. MaxIds
           /\ mined \in Nat /\ Tip \in Heads /\ Tip = [number |-> Height, id |-> mined]
<1>1. chain \in Seq(1 .. MaxIds)
  BY DEF TypeOK
<1>2. /\ DOMAIN chain = 1 .. Height
      /\ \A h \in 1 .. Height : chain[h] \in 1 .. MaxIds
  BY <1>1, LenProperties, ElementOfSeq DEF Height
<1>3. Height \in 1 .. MaxBlock /\ chain[Height] = mined /\ mined \in 1 .. MaxIds
  BY DEF NodeInv, TypeOK
<1>4. MaxBlock \in Nat /\ MaxIds \in Nat
  BY ComparisonsAssumption
<1>5. Tip = [number |-> Height, id |-> mined]
  BY <1>3 DEF Tip
<1>6. Tip \in Heads
  BY <1>3, <1>5 DEF Heads
<1>7. QED
  BY <1>2, <1>3, <1>4, <1>5, <1>6

(* A block is mined on what is left of the chain. *)
LEMMA MinedChain ==
    ASSUME TypeOK, NodeInv, NEW depth \in 0 .. MaxDepth, Mine(depth)
    PROVE  /\ mined' = mined + 1 /\ mined' \in 1 .. MaxIds
           /\ chain' \in Seq(1 .. MaxIds)
           /\ Height' = Height - depth + 1 /\ depth \in Nat /\ depth < Height
           /\ chain'[Height'] = mined'
           /\ \A h \in 1 .. Height - depth : chain'[h] = chain[h]
<1> DEFINE kept_ == SubSeq(chain, 1, Height - depth)
<1>1. depth \in Nat /\ MaxIds \in Nat /\ MaxBlock \in Nat
  BY ComparisonsAssumption
<1>2. /\ Height \in Nat /\ Height >= 1 /\ Height <= MaxBlock
      /\ \A h \in 1 .. Height : chain[h] \in 1 .. MaxIds
  BY ChainFacts
<1>3. /\ depth < Height /\ mined < MaxIds
      /\ mined' = mined + 1 /\ chain' = Append(kept_, mined')
  BY DEF Mine
<1>4. mined \in 1 .. MaxIds /\ mined' \in 1 .. MaxIds
  BY <1>1, <1>3 DEF TypeOK
<1>5. /\ kept_ \in Seq(1 .. MaxIds) /\ Len(kept_) = Height - depth
      /\ \A h \in 1 .. Height - depth : kept_[h] = chain[h]
  <2>1. 1 \in Int /\ Height - depth \in Int /\ 1 <= Height - depth
    BY <1>1, <1>2, <1>3
  <2>2. \A h \in 1 .. Height - depth : chain[h] \in 1 .. MaxIds
    BY <1>1, <1>2
  <2>3. /\ kept_ \in Seq(1 .. MaxIds)
        /\ Len(kept_) = IF 1 <= Height - depth THEN Height - depth - 1 + 1 ELSE 0
        /\ \A h \in 1 .. Height - depth - 1 + 1 : kept_[h] = chain[1 + h - 1]
    BY <2>1, <2>2, SubSeqProperties
  <2> HIDE DEF kept_
  <2>4. Len(kept_) = Height - depth
    BY <2>1, <2>3
  <2>5. ASSUME NEW h \in 1 .. Height - depth PROVE kept_[h] = chain[h]
    <3>1. h \in 1 .. Height - depth - 1 + 1 /\ 1 + h - 1 = h
      BY <2>1
    <3>2. QED
      BY <3>1, <2>3
  <2>6. QED
    BY <2>3, <2>4, <2>5
<1> HIDE DEF kept_
<1>6. /\ chain' \in Seq(1 .. MaxIds) /\ Len(chain') = Len(kept_) + 1
      /\ \A h \in 1 .. Len(kept_) : chain'[h] = kept_[h]
      /\ chain'[Len(kept_) + 1] = mined'
  BY <1>3, <1>4, <1>5, AppendProperties
<1>7. Height' = Height - depth + 1
  BY <1>5, <1>6 DEF Height
<1>8. QED
  BY <1>1, <1>3, <1>4, <1>5, <1>6, <1>7

LEMMA MineTypes ==
    ASSUME TypeOK, NodeInv, NEW depth \in 0 .. MaxDepth, Mine(depth)
    PROVE  TypeOK' /\ NodeInv'
<1>1. /\ mined' = mined + 1 /\ mined' \in 1 .. MaxIds
      /\ chain' \in Seq(1 .. MaxIds)
      /\ Height' = Height - depth + 1 /\ depth \in Nat /\ depth < Height
      /\ chain'[Height'] = mined'
      /\ \A h \in 1 .. Height - depth : chain'[h] = chain[h]
  BY MinedChain
<1>2. TypeOK'
  BY <1>1 DEF TypeOK, Mine, storeVars, taskVars, passVars, history
<1>3. Height \in Nat /\ Height <= MaxBlock /\ mined \in Nat /\ MaxBlock \in Nat
  BY ChainFacts, ComparisonsAssumption
<1>4. Height' \in 1 .. MaxBlock
  BY <1>1, <1>3 DEF Mine
<1>5. lastHead' = lastHead /\ lastHead.id <= mined /\ lastHead.id \in Nat
  BY DEF Mine, taskVars, NodeInv, TypeOK, Heads
<1>6. ASSUME NEW h \in 1 .. Height' PROVE chain'[h] <= mined'
  <2>1. CASE h = Height'
    BY <2>1, <1>1, <1>3
  <2>2. CASE h # Height'
    <3>1. h \in 1 .. Height - depth /\ h \in 1 .. Height
      BY <2>2, <1>1, <1>3
    <3>2. chain'[h] = chain[h] /\ chain[h] <= mined /\ chain[h] \in 1 .. MaxIds
      BY <3>1, <1>1, ChainFacts DEF NodeInv
    <3>3. QED
      BY <3>2, <1>1, <1>3
  <2>3. QED
    BY <2>1, <2>2
<1>7. lastHead'.id <= mined'
  BY <1>1, <1>3, <1>5
<1>8. AskedInv'
  BY DEF Mine, passVars, NodeInv, AskedInv
<1>9. QED
  BY <1>1, <1>2, <1>4, <1>6, <1>7, <1>8 DEF NodeInv

(* What sending a row does to the queue. *)
LEMMA SendEffect ==
    ASSUME TypeOK, NEW r \in Rows, Send(r)
    PROVE  /\ queue' \in Seq(Rows) /\ Len(queue') <= Capacity
           /\ dropped' \in BOOLEAN /\ incident' \in BOOLEAN /\ lost' \subseteq Rows
           /\ UNCHANGED <<table, incidents, batch, writer>>
           /\ \/ /\ ToSet(queue') = ToSet(queue) \cup {r} /\ lost' = lost
                 /\ OneRowEach(queue) /\ (r # BlockRow => Of(r.sample, ToSet(queue)) = {})
                        => OneRowEach(queue')
              \/ queue' = queue /\ lost' = lost \cup {r}
<1>1. CASE Enqueue(r)
  <2>1. /\ queue' = Append(queue, r) /\ Len(queue) < Capacity
        /\ dropped' = dropped /\ incident' = incident /\ lost' = lost
    BY <1>1 DEF Enqueue, Fits
  <2>2. queue \in Seq(Rows) /\ Len(queue) \in Nat /\ Capacity \in Nat
    BY LenProperties, StoreAssumption DEF TypeOK
  <2>3. /\ queue' \in Seq(Rows) /\ Len(queue') = Len(queue) + 1
        /\ ToSet(queue') = ToSet(queue) \cup {r}
        /\ OneRowEach(queue) /\ (r # BlockRow => Of(r.sample, ToSet(queue)) = {})
               => OneRowEach(queue')
    BY <2>1, <2>2, AppendRow
  <2>4. Len(queue') <= Capacity
    BY <2>1, <2>2, <2>3
  <2>5. QED
    BY <2>1, <2>3, <2>4 DEF TypeOK, Send
<1>2. CASE Drop(r)
  BY <1>2 DEF Drop, TypeOK, Send
<1>3. QED
  BY <1>1, <1>2 DEF Send

LEMMA CaptureTypes ==
    ASSUME TypeOK, NodeInv, NEW s \in Samples, Capture(s)
    PROVE  TypeOK' /\ NodeInv'
<1> DEFINE x == [sample |-> s, target |-> head + 1]
<1>1. x \in Items
  BY ComparisonsAssumption DEF TypeOK, Items
<1>a. pending \in Seq(Items)
  BY DEF TypeOK
<1>b. pending' = Append(pending, x) \/ pending' = pending
  BY DEF Capture
<1>2. pending' \in Seq(Items)
  <2> HIDE DEF x
  <2>1. QED
    BY <1>1, <1>a, <1>b, AppendProperties
<1>3. captured' \subseteq Samples /\ expired' \subseteq Samples
  BY DEF Capture, TypeOK
<1>4. TypeOK'
  BY <1>2, <1>3 DEF TypeOK, Capture, storeVars, nodeVars, taskVars, passVars
<1>5. QED
  BY <1>4 DEF NodeInv, AskedInv, Height, Capture, nodeVars, taskVars, passVars

(* The row in hand names the sample that is being settled and blocks that the  *)
(* node has had.                                                           *)
LEMMA MeasuredRow ==
    ASSUME TypeOK, NodeInv, quoted # {}
    PROVE  /\ Measured \in SampleRows /\ Measured \in Rows /\ Measured # BlockRow
           /\ Measured.sample = Head(taken).sample /\ taken # <<>>
<1>1. taken # <<>> /\ Head(taken).target \in 1 .. MaxBlock
  BY DEF NodeInv, AskedInv
<1>2. Head(taken) \in Items
  BY <1>1, TakeItem DEF TypeOK
<1>3. quoted \in (SUBSET (1 .. MaxIds)) \ {{}}
  <2>1. quoted \subseteq 1 .. MaxIds /\ quoted # {}
    BY DEF TypeOK
  <2>2. QED
    BY <2>1
<1>4. Head(taken).sample \in Samples
  BY <1>2 DEF Items
<1>5. Measured \in SampleRows
  <2>1. ASSUME NEW x \in Samples, NEW b \in 1 .. MaxBlock,
               NEW i \in (SUBSET (1 .. MaxIds)) \ {{}}
        PROVE  [sample |-> x, block |-> b, ids |-> i, strategy |-> "arb"] \in SampleRows
    BY DEF SampleRows
  <2>2. QED
    BY <1>1, <1>3, <1>4, <2>1 DEF Measured
<1>6. Measured.sample = Head(taken).sample
  BY DEF Measured
<1>7. QED
  BY <1>1, <1>5, <1>6, BlockRowAssumption DEF Rows

LEMMA UnreachedSamples ==
    ASSUME TypeOK, NodeInv, NEW shown, NEW done
    PROVE  Unreached(shown, done) \subseteq Samples
<1>1. Sampled(table \cup InFlight) \subseteq SampleRows
  BY DEF TypeOK, InFlight, ToSet, Sampled, Rows
<1>2. InHand \subseteq SampleRows
  BY MeasuredRow DEF InHand
<1>3. QED
  BY <1>1, <1>2 DEF Unreached, SampleRows

LEMMA OnHeadTypes ==
    ASSUME TypeOK, NodeInv, OnHead PROVE TypeOK' /\ NodeInv'
<1>1. Tip \in Heads /\ Height \in 1 .. MaxBlock /\ Tip.id = mined
  BY ChainFacts DEF NodeInv
<1>2. /\ lastHead' = Tip /\ blockTask' = "seen"
      /\ pass' \in {"off", "spawned", "settling"} /\ sealed' \in 0 .. MaxBlock
  BY <1>1 DEF OnHead, TypeOK
<1>3. marked' \subseteq table
  BY DEF OnHead, TypeOK, At, Sampled
<1>5. unreached' \subseteq Samples
  BY UnreachedSamples DEF OnHead, TypeOK
<1>6. TypeOK'
  <2>1. /\ UNCHANGED <<table, incidents, queue, batch, writer, dropped, incident, lost>>
        /\ UNCHANGED <<chain, mined, head, taken, kept, quoted, pending, expired, captured>>
    BY DEF OnHead, storeVars, nodeVars
  <2>2. QED
    BY <1>1, <1>2, <1>3, <1>5, <2>1 DEF TypeOK
<1>7. mined' = mined /\ chain' = chain
  BY DEF OnHead, nodeVars
<1>8. AskedInv'
  BY DEF OnHead, NodeInv, AskedInv
<1>9. QED
  BY <1>1, <1>2, <1>6, <1>7, <1>8, ChainFacts DEF NodeInv, Height

LEMMA EndHeadTypes ==
    ASSUME TypeOK, NodeInv, EndHead PROVE TypeOK' /\ NodeInv'
<1>1. BlockRow \in Rows /\ Send(BlockRow)
  BY DEF Rows, EndHead
<1>2. /\ queue' \in Seq(Rows) /\ Len(queue') <= Capacity
      /\ dropped' \in BOOLEAN /\ incident' \in BOOLEAN /\ lost' \subseteq Rows
      /\ UNCHANGED <<table, incidents, batch, writer>>
  BY <1>1, SendEffect
<1>3. head' \in 1 .. MaxBlock /\ blockTask' = "idle"
  BY DEF EndHead, TypeOK, Heads
<1>4. TypeOK'
  BY <1>2, <1>3 DEF TypeOK, EndHead, nodeVars, passVars, history
<1>5. QED
  BY <1>4 DEF NodeInv, AskedInv, Height, EndHead, nodeVars, passVars

LEMMA PassTypes ==
    ASSUME TypeOK, NodeInv, Pass PROVE TypeOK' /\ NodeInv'
<1>1. CASE TakePending
  <2>1. <<>> \in Seq(Items)
    BY EmptySeq
  <2>2. TypeOK'
    BY <1>1, <2>1 DEF TakePending, TypeOK, storeVars, nodeVars, taskVars, history
  <2>3. QED
    BY <1>1, <2>2 DEF TakePending, NodeInv, AskedInv, Height, nodeVars, taskVars
<1>2. CASE Requote
  <2>1. /\ pass = "settling" /\ taken # <<>> /\ Head(taken).target <= Height
        /\ quoted' = quoted \cup {chain[Head(taken).target]}
        /\ UNCHANGED <<taken, pass>>
    BY <1>2 DEF Requote
  <2>2. Head(taken) \in Items
    BY <2>1, TakeItem DEF TypeOK
  <2>3. /\ Height \in Nat /\ Height <= MaxBlock /\ MaxBlock \in Nat
        /\ \A h \in 1 .. Height : chain[h] \in 1 .. MaxIds
    BY ChainFacts, ComparisonsAssumption
  <2>4. Head(taken).target \in 1 .. Height /\ Head(taken).target \in 1 .. MaxBlock
    BY <2>1, <2>2, <2>3 DEF Items
  <2>5. quoted' \subseteq 1 .. MaxIds
    BY <2>1, <2>3, <2>4 DEF TypeOK
  <2>6. TypeOK'
    BY <1>2, <2>5 DEF Requote, TypeOK, storeVars, nodeVars, taskVars, history
  <2>7. QED
    BY <1>2, <2>1, <2>4, <2>6 DEF Requote, NodeInv, AskedInv, Height, nodeVars, taskVars
<1>3. CASE SettleNext
  <2>1. /\ taken # <<>> /\ taken' = Tail(taken) /\ quoted' = {}
        /\ UNCHANGED <<nodeVars, taskVars, pass, sealed, pending, marked, history>>
    BY <1>3 DEF SettleNext
  <2>2. Head(taken) \in Items /\ taken' \in Seq(Items)
    BY <2>1, TakeItem DEF TypeOK
  <2>a. NodeInv'
    BY <2>1 DEF NodeInv, AskedInv, Height, nodeVars, taskVars
  <2>3. CASE Keep
    <3>1. kept' \in Seq(Items)
      BY <2>2, <2>3, AppendProperties DEF Keep, TypeOK
    <3>2. QED
      BY <2>1, <2>2, <2>a, <2>3, <3>1
      DEF Keep, TypeOK, storeVars, nodeVars, taskVars, history
  <2>4. CASE Expire
    <3>1. expired' \subseteq Samples
      BY <2>2, <2>4 DEF Expire, TypeOK, Items
    <3>2. QED
      BY <2>1, <2>2, <2>a, <2>4, <3>1
      DEF Expire, TypeOK, storeVars, nodeVars, taskVars, history
  <2>5. CASE Record
    <3>1. Measured \in Rows
      BY <2>5, MeasuredRow DEF Record
    <3>2. Send(Measured) /\ kept' = kept /\ expired' = expired
      BY <2>5 DEF Record
    <3>3. /\ queue' \in Seq(Rows) /\ Len(queue') <= Capacity
          /\ dropped' \in BOOLEAN /\ incident' \in BOOLEAN /\ lost' \subseteq Rows
          /\ UNCHANGED <<table, incidents, batch, writer>>
      BY <3>1, <3>2, SendEffect
    <3>4. QED
      BY <2>1, <2>2, <2>a, <3>2, <3>3 DEF TypeOK, nodeVars, taskVars, history
  <2>6. QED
    BY <1>3, <2>3, <2>4, <2>5 DEF SettleNext
<1>4. CASE EndPass
  <2>1. <<>> \in Seq(Items) /\ pending \o kept \in Seq(Items)
    BY EmptySeq, JoinItems DEF TypeOK
  <2>2. TypeOK'
    BY <1>4, <2>1, ComparisonsAssumption
    DEF EndPass, PutBack, TypeOK, storeVars, nodeVars, taskVars, history
  <2>3. QED
    BY <1>4, <2>2 DEF EndPass, NodeInv, AskedInv, Height, nodeVars, taskVars
<1>5. QED
  BY <1>1, <1>2, <1>3, <1>4 DEF Pass

LEMMA WriteTypes ==
    ASSUME TypeOK, NodeInv, Write PROVE TypeOK' /\ NodeInv'
<1>1. UNCHANGED <<nodeVars, taskVars, passVars, pending, expired, marked, history>>
  BY DEF Write
<1>2. NodeInv'
  BY <1>1 DEF NodeInv, AskedInv, Height, nodeVars, taskVars, passVars
<1>3. CASE TakeBatch
  <2> DEFINE n == IF Len(queue) < BatchMax THEN Len(queue) ELSE BatchMax
  <2>1. /\ batch' = SubSeq(queue, 1, n) /\ queue' = SubSeq(queue, n + 1, Len(queue))
        /\ writer' = "loaded" /\ UNCHANGED <<table, incidents, dropped, incident, lost>>
    BY <1>3 DEF TakeBatch
  <2>2. /\ queue \in Seq(Rows) /\ Len(queue) \in Nat /\ Capacity \in Nat
        /\ BatchMax \in Nat /\ Len(queue) <= Capacity
    BY LenProperties, StoreAssumption DEF TypeOK
  <2>3. n \in 0 .. Len(queue) /\ n <= BatchMax
    BY <2>2
  <2> HIDE DEF n
  <2>4. /\ batch' \in Seq(Rows) /\ Len(batch') = n
        /\ queue' \in Seq(Rows) /\ Len(queue') = Len(queue) - n
    BY <2>1, <2>2, <2>3, SplitRows
  <2>5. Len(queue') <= Capacity /\ Len(batch') <= BatchMax
    BY <2>2, <2>3, <2>4
  <2>6. QED
    BY <1>1, <1>2, <2>1, <2>4, <2>5
    DEF TypeOK, nodeVars, taskVars, passVars, history
<1>4. CASE Commit
  <2>1. PICK written \in SUBSET ToSet(batch) :
           table' = table \cup written /\ lost' = lost \cup (ToSet(batch) \ written)
    BY <1>4 DEF Commit
  <2>2. ToSet(batch) \subseteq Rows
    BY DEF ToSet, TypeOK
  <2>3. /\ writer' = "noting"
        /\ UNCHANGED <<incidents, queue, batch, dropped, incident>>
    BY <1>4 DEF Commit
  <2>4. QED
    BY <1>1, <1>2, <2>1, <2>2, <2>3 DEF TypeOK, nodeVars, taskVars, passVars, history
<1>5. CASE NoteIncident
  <2>1. /\ batch' = <<>> /\ writer' = "idle"
        /\ incident' \in BOOLEAN /\ incidents' \in BOOLEAN
        /\ UNCHANGED <<table, queue, dropped, lost>>
    BY <1>5 DEF NoteIncident, IncidentFails, TypeOK
  <2>2. <<>> \in Seq(Rows) /\ Len(<<>>) = 0 /\ BatchMax \in Nat
    BY EmptySeq, StoreAssumption
  <2>3. QED
    BY <1>1, <1>2, <2>1, <2>2 DEF TypeOK, nodeVars, taskVars, passVars, history
<1>6. QED
  BY <1>3, <1>4, <1>5 DEF Write, Writer

LEMMA RestartTypes ==
    ASSUME TypeOK, NodeInv, Restart PROVE TypeOK' /\ NodeInv'
<1>1. Tip \in Heads /\ Height \in 1 .. MaxBlock /\ Tip.id = mined
  BY ChainFacts DEF NodeInv
<1>2. <<>> \in Seq(Rows) /\ <<>> \in Seq(Items) /\ Len(<<>>) = 0
      /\ Capacity \in Nat /\ BatchMax \in Nat
  BY EmptySeq, StoreAssumption
<1>3. ToSet(queue) \subseteq Rows /\ ToSet(batch) \subseteq Rows
  BY DEF ToSet, TypeOK
<1>4. /\ queue' = <<>> /\ batch' = <<>> /\ writer' = "idle"
      /\ dropped' = FALSE /\ incident' = FALSE /\ lost' \subseteq Rows
      /\ UNCHANGED <<table, incidents>>
  BY <1>3 DEF Restart, StoreCrash, TypeOK
<1>5. /\ lastHead' = Tip /\ head' = Height /\ blockTask' = "idle"
      /\ pending' = <<>> /\ taken' = <<>> /\ kept' = <<>>
      /\ pass' = "off" /\ sealed' = 0 /\ quoted' = {}
      /\ UNCHANGED <<nodeVars, marked, captured>>
  BY DEF Restart
<1>6. expired' \subseteq Samples
  BY DEF Restart, TypeOK
<1>7. unreached' \subseteq Samples
  BY UnreachedSamples DEF Restart, TypeOK
<1>8. 0 \in 0 .. MaxBlock
  BY ComparisonsAssumption
<1>9. TypeOK'
  <2>1. /\ table' \subseteq Rows /\ lost' \subseteq Rows /\ marked' \subseteq table'
        /\ incidents' \in BOOLEAN /\ dropped' \in BOOLEAN /\ incident' \in BOOLEAN
        /\ queue' \in Seq(Rows) /\ batch' \in Seq(Rows)
        /\ writer' \in {"idle", "loaded", "noting"}
    BY <1>2, <1>4, <1>5 DEF TypeOK
  <2>a. Len(queue') = 0 /\ Len(batch') = 0
    BY <1>2, <1>4
  <2>b. Len(queue') <= Capacity /\ Len(batch') <= BatchMax
    BY <2>a, StoreAssumption
  <2>2. /\ chain' \in Seq(1 .. MaxIds) /\ mined' \in 1 .. MaxIds
        /\ lastHead' \in Heads /\ head' \in 1 .. MaxBlock /\ sealed' \in 0 .. MaxBlock
        /\ blockTask' \in {"idle", "seen"}
    BY <1>1, <1>5, <1>8 DEF TypeOK, nodeVars
  <2>c. quoted' \subseteq 1 .. MaxIds
    BY <1>5
  <2>3. /\ pending' \in Seq(Items) /\ taken' \in Seq(Items) /\ kept' \in Seq(Items)
        /\ pass' \in {"off", "spawned", "settling"} /\ captured' \subseteq Samples
    BY <1>2, <1>5 DEF TypeOK
  <2>4. QED
    BY <1>6, <1>7, <2>1, <2>b, <2>c, <2>2, <2>3 DEF TypeOK
<1>10. mined' = mined /\ chain' = chain
  BY <1>5 DEF nodeVars
<1>11. QED
  BY <1>1, <1>5, <1>9, <1>10, ChainFacts DEF NodeInv, AskedInv, Height

LEMMA ComparisonsTypesInit == Init => TypeOK /\ NodeInv
<1> SUFFICES ASSUME Init PROVE TypeOK /\ NodeInv
  OBVIOUS
<1>1. /\ 1 \in 1 .. MaxBlock /\ 1 \in 1 .. MaxIds /\ 0 \in 0 .. MaxBlock
      /\ Capacity \in Nat /\ BatchMax \in Nat
  BY ComparisonsAssumption, StoreAssumption
<1>2. <<>> \in Seq(Rows) /\ <<>> \in Seq(Items) /\ Len(<<>>) = 0
  BY EmptySeq
<1>3. chain \in Seq(1 .. MaxIds) /\ Height = 1 /\ chain[1] = 1 /\ mined = 1
  BY <1>1 DEF Init, Height
<1>4. lastHead = [number |-> 1, id |-> 1]
  BY <1>3 DEF Init, Tip
<1>5. lastHead \in Heads
  BY <1>1, <1>4 DEF Heads
<1>6. NodeInv
  BY <1>1, <1>3, <1>4 DEF NodeInv, AskedInv, Init
<1>7. TypeOK
  <2>1. /\ table \subseteq Rows /\ lost \subseteq Rows /\ marked \subseteq table
        /\ incidents \in BOOLEAN /\ dropped \in BOOLEAN /\ incident \in BOOLEAN
        /\ queue \in Seq(Rows) /\ batch \in Seq(Rows)
        /\ writer \in {"idle", "loaded", "noting"}
    BY <1>2 DEF Init, StoreInit
  <2>a. Len(queue) = 0 /\ Len(batch) = 0
    BY <1>2 DEF Init, StoreInit
  <2>b. Len(queue) <= Capacity /\ Len(batch) <= BatchMax
    BY <2>a, StoreAssumption
  <2>2. /\ mined \in 1 .. MaxIds /\ head \in 1 .. MaxBlock /\ sealed \in 0 .. MaxBlock
        /\ blockTask \in {"idle", "seen"} /\ quoted \subseteq 1 .. MaxIds
    BY <1>1 DEF Init
  <2>3. /\ pending \in Seq(Items) /\ taken \in Seq(Items) /\ kept \in Seq(Items)
        /\ pass \in {"off", "spawned", "settling"}
        /\ expired \subseteq Samples /\ captured \subseteq Samples
        /\ unreached \subseteq Samples
    BY <1>2 DEF Init
  <2>4. QED
    BY <1>3, <1>5, <2>1, <2>b, <2>2, <2>3 DEF TypeOK
<1>8. QED
  BY <1>6, <1>7

LEMMA ComparisonsTypesStep ==
    TypeOK /\ NodeInv /\ [Next]_vars => TypeOK' /\ NodeInv'
<1> SUFFICES ASSUME TypeOK, NodeInv, [Next]_vars PROVE TypeOK' /\ NodeInv'
  OBVIOUS
<1>1. CASE UNCHANGED vars
  BY <1>1 DEF vars, storeVars, nodeVars, taskVars, passVars, history, TypeOK, NodeInv,
              AskedInv, Height
<1>2. QED
  BY <1>1, MineTypes, CaptureTypes, OnHeadTypes, EndHeadTypes, PassTypes, WriteTypes,
     RestartTypes
  DEF Next

(* Every variable keeps its type, the queue and the batch their bounds. *)
THEOREM ComparisonsTypes == Spec => []TypeOK
  BY ComparisonsTypesInit, ComparisonsTypesStep, PTL DEF Spec

-----------------------------------------------------------------------------
(* Evidence.  A row that is neither marked nor out of reach lies on the chain, *)
(* unless the chain has moved since the last head, and below that head only   *)
(* when the head itself has been discarded: then the next head shows it.     *)

LastHeadStands == lastHead.number <= Height /\ chain[lastHead.number] = lastHead.id

Watched == (Sampled(table \cup InFlight) \ marked) \cup InHand

EvidenceInv ==
    \A r \in Watched :
        \/ r.sample \in unreached
        \/ OnChain(r)
        \/ /\ lastHead.id # mined
           /\ LastHeadStands => r.block > lastHead.number

(* Steps that leave the chain and the marks alone, and watch rows of the chain  *)
(* or rows that stand for a watched one, of its sample and its height, that  *)
(* is off the chain.                                                       *)
LEMMA EvidenceFrame ==
    ASSUME EvidenceInv, UNCHANGED <<chain, mined, lastHead, unreached, marked>>,
           \A r \in Watched' :
               \/ OnChain(r)
               \/ \E q \in Watched :
                      q.sample = r.sample /\ q.block = r.block /\ ~OnChain(q)
    PROVE  EvidenceInv'
<1>1. \A r : OnChain(r)' <=> OnChain(r)
  BY DEF OnChain, Height
<1>2. LastHeadStands' <=> LastHeadStands
  BY DEF LastHeadStands, Height
<1> SUFFICES ASSUME NEW r \in Watched', r.sample \notin unreached, ~OnChain(r)
             PROVE  lastHead.id # mined /\ (LastHeadStands => r.block > lastHead.number)
  BY <1>1, <1>2 DEF EvidenceInv
<1>3. PICK q \in Watched : q.sample = r.sample /\ q.block = r.block /\ ~OnChain(q)
  OBVIOUS
<1>4. QED
  BY <1>3 DEF EvidenceInv

(* A step that watches no new row is such a step. *)
LEMMA EvidenceKept ==
    ASSUME EvidenceInv, UNCHANGED <<chain, mined, lastHead, unreached, marked>>,
           Watched' \subseteq Watched
    PROVE  EvidenceInv'
  BY EvidenceFrame

LEMMA InFlightSent ==
    ASSUME TypeOK, NEW r \in Rows, Send(r)
    PROVE  table' \cup InFlight' \subseteq table \cup InFlight \cup {r}
<1>1. /\ UNCHANGED <<table, batch>>
      /\ ToSet(queue') = ToSet(queue) \cup {r} \/ queue' = queue
  BY SendEffect
<1>2. QED
  BY <1>1 DEF InFlight

LEMMA EvidenceWrite ==
    ASSUME TypeOK, EvidenceInv, Write PROVE EvidenceInv'
<1>1. UNCHANGED <<chain, mined, lastHead, unreached, marked>>
  BY DEF Write, nodeVars, taskVars, history
<1>2. table' \cup InFlight' \subseteq table \cup InFlight
  <2>1. CASE TakeBatch
    <3> DEFINE n == IF Len(queue) < BatchMax THEN Len(queue) ELSE BatchMax
    <3>1. /\ batch' = SubSeq(queue, 1, n) /\ queue' = SubSeq(queue, n + 1, Len(queue))
          /\ table' = table
      BY <2>1 DEF TakeBatch
    <3>2. queue \in Seq(Rows) /\ n \in 0 .. Len(queue)
      BY LenProperties, StoreAssumption DEF TypeOK
    <3> HIDE DEF n
    <3>3. ToSet(queue) = ToSet(batch') \cup ToSet(queue')
      BY <3>1, <3>2, SplitRows
    <3>4. QED
      BY <3>1, <3>3 DEF InFlight
  <2>2. CASE Commit
    <3>1. table \subseteq table' /\ table' \subseteq table \cup ToSet(batch)
      BY <2>2 DEF Commit
    <3>2. queue' = queue /\ batch' = batch
      BY <2>2 DEF Commit
    <3>3. QED
      BY <3>1, <3>2 DEF InFlight
  <2>3. CASE NoteIncident
    <3>1. queue' = queue /\ batch' = <<>> /\ table' = table
      BY <2>3 DEF NoteIncident
    <3>2. ToSet(<<>>) = {}
      BY DEF ToSet
    <3>3. QED
      BY <3>1, <3>2 DEF InFlight
  <2>4. QED
    BY <2>1, <2>2, <2>3 DEF Write, Writer
<1>3. InHand' = InHand
  BY DEF Write, passVars, InHand, Measured
<1>4. Watched' \subseteq Watched
  BY <1>1, <1>2, <1>3 DEF Watched, Sampled
<1>5. QED
  BY <1>1, <1>4, EvidenceKept

(* A further answer keeps the row in hand off the chain if it was off it. *)
LEMMA EvidenceRequote ==
    ASSUME TypeOK, NodeInv, EvidenceInv, Requote PROVE EvidenceInv'
<1>1. UNCHANGED <<chain, mined, lastHead, unreached, marked>>
  BY DEF Requote, nodeVars, taskVars, history
<1>2. /\ taken # <<>> /\ Head(taken).target <= Height
      /\ quoted' = quoted \cup {chain[Head(taken).target]} /\ taken' = taken
      /\ UNCHANGED <<table, queue, batch>>
  BY DEF Requote, storeVars
<1> DEFINE asked == chain[Head(taken).target]
<1> SUFFICES ASSUME NEW r \in Watched', ~OnChain(r)
             PROVE  \E q \in Watched : q.sample = r.sample /\ q.block = r.block /\ ~OnChain(q)
  BY <1>1, EvidenceFrame
<1>3. CASE r \in Sampled(table \cup InFlight) \ marked
  BY <1>3 DEF Watched
<1>4. CASE r \notin Sampled(table \cup InFlight) \ marked
  <2>1. r = Measured'
    BY <1>1, <1>2, <1>4 DEF Watched, InHand, Sampled, InFlight
  <2>2. /\ r.sample = Head(taken).sample /\ r.block = Head(taken).target
        /\ r.ids = quoted \cup {asked}
    BY <1>2, <2>1 DEF Measured
  <2>3. quoted \cup {asked} # {asked}
    BY <1>2, <2>2 DEF OnChain
  <2>4. quoted # {} /\ quoted # {asked}
    BY <2>3
  <2>5. Measured \in Watched /\ ~OnChain(Measured)
    BY <2>4 DEF Watched, InHand, OnChain, Measured
  <2>6. Measured.sample = r.sample /\ Measured.block = r.block
    BY <2>2 DEF Measured
  <2>7. QED
    BY <2>5, <2>6
<1>5. QED
  BY <1>3, <1>4

LEMMA EvidencePass ==
    ASSUME TypeOK, NodeInv, EvidenceInv, Pass PROVE EvidenceInv'
<1>1. UNCHANGED <<chain, mined, lastHead, unreached, marked>>
  BY DEF Pass, TakePending, Requote, SettleNext, EndPass, nodeVars, taskVars, history
<1>2. CASE SettleNext /\ Record
  <2>1. quoted # {} /\ Send(Measured) /\ quoted' = {}
    BY <1>2 DEF SettleNext, Record
  <2>2. Measured \in Rows
    BY <2>1, MeasuredRow
  <2>3. table' \cup InFlight' \subseteq table \cup InFlight \cup {Measured}
    BY <2>1, <2>2, InFlightSent
  <2>4. InHand = {Measured} /\ InHand' = {}
    BY <2>1 DEF InHand
  <2>5. Watched' \subseteq Watched
    BY <1>1, <2>3, <2>4 DEF Watched, Sampled
  <2>6. QED
    BY <1>1, <2>5, EvidenceKept
<1>3. CASE UNCHANGED storeVars /\ InHand' \subseteq InHand
  <2>1. table' \cup InFlight' = table \cup InFlight
    BY <1>3 DEF storeVars, InFlight
  <2>2. Watched' \subseteq Watched
    BY <1>1, <1>3, <2>1 DEF Watched, Sampled
  <2>3. QED
    BY <1>1, <2>2, EvidenceKept
<1>4. CASE TakePending \/ EndPass
  <2>1. quoted = {} /\ quoted' = {} /\ UNCHANGED storeVars
    BY <1>4 DEF TakePending, EndPass, NodeInv, AskedInv
  <2>2. QED
    BY <1>3, <2>1 DEF InHand
<1>5. CASE SettleNext /\ (Keep \/ Expire)
  <2>1. quoted' = {} /\ UNCHANGED storeVars
    BY <1>5 DEF SettleNext, Keep, Expire
  <2>2. QED
    BY <1>3, <2>1 DEF InHand
<1>6. QED
  BY <1>2, <1>4, <1>5, EvidenceRequote DEF Pass, SettleNext

LEMMA EvidenceMine ==
    ASSUME TypeOK, NodeInv, EvidenceInv, NEW depth \in 0 .. MaxDepth, Mine(depth)
    PROVE  EvidenceInv'
<1>1. /\ mined' = mined + 1 /\ mined' \in 1 .. MaxIds
      /\ Height' = Height - depth + 1 /\ depth \in Nat /\ depth < Height
      /\ chain'[Height'] = mined'
      /\ \A h \in 1 .. Height - depth : chain'[h] = chain[h]
  BY MinedChain
<1>2. /\ Height \in Nat /\ mined \in Nat
      /\ lastHead.number \in 1 .. MaxBlock /\ lastHead.id \in Nat /\ lastHead.id <= mined
      /\ MaxBlock \in Nat
  BY ChainFacts, ComparisonsAssumption DEF NodeInv, TypeOK, Heads
<1>3. UNCHANGED <<lastHead, unreached, marked, table, queue, batch, taken, quoted>>
  BY DEF Mine, storeVars, taskVars, passVars, history
<1>a. Watched' = Watched
  BY <1>3 DEF Watched, InFlight, InHand, Measured, Sampled
<1>4. lastHead'.id # mined'
  BY <1>1, <1>2, <1>3
<1> SUFFICES ASSUME NEW r \in Watched, r.sample \notin unreached, LastHeadStands',
                    ~(r.block > lastHead.number)
             PROVE  OnChain(r)'
  BY <1>3, <1>4, <1>a DEF EvidenceInv
<1>5. r \in SampleRows
  BY MeasuredRow DEF Watched, InHand, Sampled, TypeOK, InFlight, ToSet, Rows
<1>6. r.block \in 1 .. MaxBlock
  BY <1>5 DEF SampleRows
<1>7. lastHead.number <= Height - depth
  <2>1. lastHead.number <= Height' /\ chain'[lastHead.number] = lastHead.id
    BY <1>3 DEF LastHeadStands
  <2>2. lastHead.number # Height'
    BY <1>1, <1>2, <1>3, <1>4, <2>1
  <2>3. QED
    BY <1>1, <1>2, <2>1, <2>2
<1>8. LastHeadStands
  <2>1. lastHead.number \in 1 .. Height - depth /\ lastHead.number <= Height
    BY <1>1, <1>2, <1>7
  <2>2. chain[lastHead.number] = lastHead.id
    BY <1>1, <1>3, <2>1 DEF LastHeadStands
  <2>3. QED
    BY <2>1, <2>2 DEF LastHeadStands
<1>9. OnChain(r)
  BY <1>8 DEF EvidenceInv
<1>10. r.block \in 1 .. Height - depth /\ r.block <= Height'
  BY <1>1, <1>2, <1>6, <1>7
<1>11. QED
  BY <1>1, <1>9, <1>10 DEF OnChain

(* What a head leaves canonical and in reach lies on its chain. *)
LEMMA EvidenceOnHead ==
    ASSUME TypeOK, NodeInv, EvidenceInv, OnHead PROVE EvidenceInv'
<1> DEFINE gone == Discarded(lastHead, Tip)
           shown == Shown(lastHead, Tip)
<1>1. /\ chain' = chain /\ UNCHANGED <<table, queue, batch, taken, quoted>>
  BY DEF OnHead, nodeVars, storeVars
<1>2. PICK done \in {TRUE, gone = {} \/ "write" \notin Faults} :
         /\ marked' = IF done THEN marked \cup At(gone, table) ELSE marked
         /\ unreached' = unreached \cup Unreached(shown, done)
  BY DEF OnHead
<1>3. /\ lastHead \in Heads /\ Tip = [number |-> Height, id |-> mined]
      /\ Height \in 1 .. MaxBlock /\ chain[Height] = mined
  BY ChainFacts DEF NodeInv, TypeOK
<1>4. lastHead.number \in Nat /\ Height \in Nat /\ Height >= 1
  BY <1>3, ComparisonsAssumption DEF Heads
<1>5. \A r : OnChain(r)' <=> OnChain(r)
  BY <1>1 DEF OnChain, Height
<1> SUFFICES ASSUME NEW r \in Watched', r.sample \notin unreached', ~OnChain(r)
             PROVE  FALSE
  BY <1>5 DEF EvidenceInv
<1>6. /\ r \in Sampled(table \cup InFlight) /\ r \notin marked' /\ r \notin marked
      /\ r.sample \notin unreached /\ r \notin InHand
  <2>1. InHand' = InHand /\ InFlight' = InFlight
    BY <1>1 DEF InHand, Measured, InFlight
  <2>2. r \notin InHand
    <3>1. r.sample \notin Unreached(shown, done)
      BY <1>2
    <3>2. QED
      BY <3>1 DEF Unreached
  <2>3. QED
    BY <1>1, <1>2, <2>1, <2>2 DEF Watched
<1>8. r \in table /\ r.block \in shown /\ done
  <2>1. r.sample \notin Unreached(shown, done)
    BY <1>2
  <2>2. QED
    BY <2>1, <1>6 DEF Unreached, Sampled
<1>9. r \in SampleRows
  BY <1>6, <1>8 DEF Sampled, TypeOK, Rows
<1>10. r.block \notin gone
  BY <1>2, <1>6, <1>8 DEF At, Sampled
<1>11. r \in Watched
  BY <1>6 DEF Watched
<1>12. lastHead.id # mined /\ (LastHeadStands => r.block > lastHead.number)
  BY <1>6, <1>11 DEF EvidenceInv
<1>13. r.block \in Nat
  BY <1>9, ComparisonsAssumption DEF SampleRows
<1>14. /\ Height <= lastHead.number + 1
       /\ r.block \in Min({lastHead.number, Height}) .. lastHead.number
  <2>1. Tip.number = Height
    BY <1>3
  <2>2. shown = IF Height > lastHead.number + 1 THEN {}
                ELSE Min({lastHead.number, Height}) .. lastHead.number
    BY <2>1 DEF Shown
  <2> HIDE DEF shown
  <2>3. ~(Height > lastHead.number + 1)
    BY <1>8, <2>2
  <2>4. Height <= lastHead.number + 1
    BY <1>4, <2>3
  <2>5. r.block \in Min({lastHead.number, Height}) .. lastHead.number
    BY <1>8, <2>2, <2>3
  <2>6. QED
    BY <2>4, <2>5
<1>15. CASE Height < lastHead.number
  <2>1. gone = Height .. lastHead.number
    BY <1>3, <1>15 DEF Discarded
  <2>2. Min({lastHead.number, Height}) = Height
    BY <1>4, <1>15 DEF Min
  <2>3. QED
    BY <1>10, <1>14, <2>1, <2>2
<1>16. CASE Height = lastHead.number
  <2>1. Tip.number = lastHead.number /\ Tip.id # lastHead.id
    BY <1>3, <1>12, <1>16
  <2>2. gone = {lastHead.number}
    BY <1>4, <2>1 DEF Discarded
  <2>3. Min({lastHead.number, Height}) = lastHead.number
    BY <1>4, <1>16 DEF Min
  <2>4. r.block = lastHead.number
    BY <1>13, <1>14, <2>3, <1>4
  <2>5. QED
    BY <1>10, <2>2, <2>4
<1>17. CASE Height = lastHead.number + 1
  <2>1. Min({lastHead.number, Height}) = lastHead.number
    BY <1>4, <1>17 DEF Min
  <2>2. r.block = lastHead.number
    BY <1>13, <1>14, <2>1, <1>4
  <2>3. ~LastHeadStands
    BY <1>12, <2>2, <1>4
  <2>4. lastHead.number >= 1 /\ Height # 1 /\ Height - 1 = lastHead.number
    BY <1>3, <1>4, <1>17 DEF Heads
  <2>5. Parent(Height) # lastHead.id
    BY <2>3, <2>4, <1>4, <1>17 DEF Parent, LastHeadStands
  <2>6. gone = {lastHead.number}
    BY <1>3, <1>4, <1>17, <2>5 DEF Discarded
  <2>7. QED
    BY <1>10, <2>2, <2>6
<1>18. QED
  BY <1>4, <1>14, <1>15, <1>16, <1>17

LEMMA EvidenceRestart ==
    ASSUME TypeOK, NodeInv, EvidenceInv, Restart PROVE EvidenceInv'
<1>1. /\ chain' = chain /\ table' = table /\ marked' = marked
      /\ queue' = <<>> /\ batch' = <<>>
      /\ unreached' = unreached \cup Unreached({}, FALSE)
  BY DEF Restart, StoreCrash, nodeVars
<1>2. \A r : OnChain(r)' <=> OnChain(r)
  BY <1>1 DEF OnChain, Height
<1>3. ToSet(<<>>) = {}
  BY DEF ToSet
<1>4. InFlight' = {}
  BY <1>1, <1>3 DEF InFlight
<1>5. InHand' = {}
  BY DEF Restart, InHand
<1>6. ASSUME NEW r \in Watched', ~OnChain(r) PROVE r.sample \in unreached'
  BY <1>1, <1>4, <1>5, <1>6 DEF Watched, Unreached, Sampled
<1>7. QED
  BY <1>2, <1>6 DEF EvidenceInv

LEMMA EvidenceStep ==
    TypeOK /\ NodeInv /\ EvidenceInv /\ [Next]_vars => EvidenceInv'
<1> SUFFICES ASSUME TypeOK, NodeInv, EvidenceInv, [Next]_vars PROVE EvidenceInv'
  OBVIOUS
<1>1. ASSUME NEW s \in Samples, Capture(s) PROVE EvidenceInv'
  <2>1. Watched' = Watched
    BY <1>1 DEF Capture, storeVars, passVars, Watched, InFlight, InHand, Measured, Sampled
  <2>2. QED
    BY <1>1, <2>1, EvidenceKept DEF Capture, nodeVars, taskVars
<1>2. CASE EndHead
  <2>1. BlockRow \in Rows /\ Send(BlockRow)
    BY <1>2 DEF Rows, EndHead
  <2>2. table' \cup InFlight' \subseteq table \cup InFlight \cup {BlockRow}
    BY <2>1, InFlightSent
  <2>3. UNCHANGED <<taken, quoted, chain, mined, lastHead, unreached, marked>>
    BY <1>2 DEF EndHead, passVars, nodeVars, history
  <2>4. Watched' \subseteq Watched
    BY <2>2, <2>3 DEF Watched, InHand, Measured, Sampled
  <2>5. QED
    BY <2>3, <2>4, EvidenceKept
<1>3. CASE UNCHANGED vars
  <2>1. UNCHANGED <<table, queue, batch, taken, quoted, chain, mined, lastHead, unreached, marked>>
    BY <1>3 DEF vars, storeVars, nodeVars, taskVars, passVars, history
  <2>2. Watched' = Watched
    BY <2>1 DEF Watched, InFlight, InHand, Measured, Sampled
  <2>3. QED
    BY <2>1, <2>2, EvidenceKept
<1>4. QED
  BY <1>1, <1>2, <1>3, EvidenceMine, EvidenceOnHead, EvidencePass, EvidenceWrite,
     EvidenceRestart
  DEF Next

(* What counts as evidence lies on the chain of the last head, but for rows    *)
(* that no mark could reach.                                               *)
THEOREM ComparisonsEvidence == Spec => []EvidenceIsOnChain
<1>1. Init => EvidenceInv
  <2> SUFFICES ASSUME Init PROVE EvidenceInv
    OBVIOUS
  <2>1. Watched = {}
    BY DEF Init, StoreInit, Watched, Sampled, InFlight, InHand, ToSet
  <2>2. QED
    BY <2>1 DEF EvidenceInv
<1>2. TypeOK /\ NodeInv /\ EvidenceInv => EvidenceIsOnChain
  <2> SUFFICES ASSUME TypeOK, NodeInv, EvidenceInv, lastHead = Tip,
                      NEW r \in Sampled(table) \ marked, r.sample \notin unreached
               PROVE  OnChain(r)
    BY DEF EvidenceIsOnChain
  <2>1. lastHead.id = mined /\ r \in Watched
    BY ChainFacts DEF Watched, Sampled
  <2>2. QED
    BY <2>1 DEF EvidenceInv
<1>3. QED
  BY <1>1, <1>2, ComparisonsTypesInit, ComparisonsTypesStep, EvidenceStep, PTL DEF Spec

-----------------------------------------------------------------------------
(* Conservation.  A sample is in exactly one of eight places; no sequence holds *)
(* it twice, so that the step that takes it out leaves none behind.          *)

Unwritten == ToSet(batch) \ (table \cup lost)

InPlace(s, k) ==
    /\ s \in captured <=> k # 0
    /\ s \in ItemsOf(pending) <=> k = 1
    /\ s \in ItemsOf(taken) <=> k = 2
    /\ s \in ItemsOf(kept) <=> k = 3
    /\ s \in expired <=> k = 4
    /\ Of(s, ToSet(queue)) # {} <=> k = 5
    /\ Of(s, Unwritten) # {} <=> k = 6
    /\ Of(s, table) # {} <=> k = 7
    /\ Of(s, lost) # {} <=> k = 8

Conserved == \A s \in Samples : \E k \in 0 .. 8 : InPlace(s, k)

OnceInv ==
    /\ OneItemEach(pending) /\ OneItemEach(taken) /\ OneItemEach(kept)
    /\ OneRowEach(queue) /\ OneRowEach(batch)

(* What the writer holds is new while it is loaded, accounted for afterwards. *)
WriterInv ==
    /\ writer = "idle" => batch = <<>>
    /\ writer = "loaded" => Sampled(ToSet(batch)) \cap (table \cup lost) = {}
    /\ writer = "noting" => ToSet(batch) \subseteq table \cup lost

PassInv == pass # "settling" => taken = <<>> /\ kept = <<>>

SamplesInv == Conserved /\ OnceInv /\ WriterInv /\ PassInv

LEMMA NoItems == ItemsOf(<<>>) = {} /\ OneItemEach(<<>>) /\ OneRowEach(<<>>) /\ ToSet(<<>>) = {}
  BY DEF ItemsOf, OneItemEach, OneRowEach, ToSet

LEMMA OfUnion ==
    ASSUME NEW s, NEW A, NEW B
    PROVE  Of(s, A \cup B) = Of(s, A) \cup Of(s, B)
  BY DEF Of, Sampled

LEMMA OfRow ==
    ASSUME NEW s, NEW r
    PROVE  /\ r # BlockRow => (Of(s, {r}) # {} <=> s = r.sample)
           /\ r = BlockRow => Of(s, {r}) = {}
<1>1. CASE r # BlockRow
  <2>1. Of(s, {r}) = IF r.sample = s THEN {r} ELSE {}
    BY <1>1 DEF Of, Sampled
  <2>2. QED
    BY <1>1, <2>1
<1>2. CASE r = BlockRow
  BY <1>2 DEF Of, Sampled
<1>3. QED
  BY <1>1, <1>2

(* Rows of other samples, and block rows, do not count. *)
LEMMA OfMinus ==
    ASSUME NEW s, NEW A, NEW r, r = BlockRow \/ r.sample # s
    PROVE  Of(s, A \ {r}) = Of(s, A) /\ Of(s, A \cup {r}) = Of(s, A)
  BY DEF Of, Sampled

placesVars == <<captured, pending, taken, kept, expired, queue, batch, table, lost>>

LEMMA PlacesFrame ==
    ASSUME SamplesInv, UNCHANGED <<placesVars, writer>>, PassInv'
    PROVE  SamplesInv'
<1>1. ASSUME NEW s, NEW k, InPlace(s, k) PROVE InPlace(s, k)'
  BY <1>1 DEF InPlace, placesVars, Unwritten, ItemsOf, Of, Sampled
<1>2. Conserved'
  BY <1>1 DEF SamplesInv, Conserved
<1>3. OnceInv' /\ WriterInv'
  BY DEF SamplesInv, OnceInv, WriterInv, placesVars, OneItemEach, OneRowEach, Sampled
<1>4. QED
  BY <1>2, <1>3 DEF SamplesInv

LEMMA PlacesCapture ==
    ASSUME TypeOK, SamplesInv, NEW c \in Samples, Capture(c) PROVE SamplesInv'
<1> DEFINE x == [sample |-> c, target |-> head + 1]
<1>1. x \in Items /\ x.sample = c
  BY ComparisonsAssumption DEF TypeOK, Items
<1>2. pending \in Seq(Items)
  BY DEF TypeOK
<1>3. /\ c \notin captured /\ captured' = captured \cup {c}
      /\ \/ pending' = Append(pending, x) /\ expired' = expired
         \/ expired' = expired \cup {c} /\ pending' = pending
  BY DEF Capture
<1>4. UNCHANGED <<taken, kept, queue, batch, table, lost, writer, pass>>
  BY DEF Capture, storeVars, passVars
<1>5. InPlace(c, 0)
  <2>1. PICK k \in 0 .. 8 : InPlace(c, k)
    BY DEF SamplesInv, Conserved
  <2>2. k = 0
    BY <1>3, <2>1 DEF InPlace
  <2>3. QED
    BY <2>1, <2>2
<1> HIDE DEF x
<1>6. /\ ItemsOf(Append(pending, x)) = ItemsOf(pending) \cup {c}
      /\ OneItemEach(Append(pending, x))
  BY <1>1, <1>2, <1>5, AppendItem DEF SamplesInv, OnceInv, InPlace
<1>7. /\ ItemsOf(taken') = ItemsOf(taken) /\ ItemsOf(kept') = ItemsOf(kept)
      /\ Unwritten' = Unwritten
      /\ \A s : /\ Of(s, ToSet(queue'))  = Of(s, ToSet(queue))
                /\ Of(s, Unwritten') = Of(s, Unwritten)
                /\ Of(s, table') = Of(s, table) /\ Of(s, lost') = Of(s, lost)
  BY <1>4 DEF Unwritten
<1>8. Conserved'
  <2> SUFFICES ASSUME NEW s \in Samples PROVE \E k \in 0 .. 8 : InPlace(s, k)'
    BY DEF Conserved
  <2>1. PICK k \in 0 .. 8 : InPlace(s, k)
    BY DEF SamplesInv, Conserved
  <2>2. CASE pending' = Append(pending, x) /\ expired' = expired
    <3>1. InPlace(s, IF s = c THEN 1 ELSE k)'
      BY <1>3, <1>5, <1>6, <1>7, <2>1, <2>2 DEF InPlace
    <3>2. QED
      BY <3>1
  <2>3. CASE expired' = expired \cup {c} /\ pending' = pending
    <3>1. InPlace(s, IF s = c THEN 4 ELSE k)'
      BY <1>3, <1>5, <1>7, <2>1, <2>3 DEF InPlace
    <3>2. QED
      BY <3>1
  <2>4. QED
    BY <1>3, <2>2, <2>3
<1>9. OnceInv' /\ WriterInv' /\ PassInv'
  BY <1>3, <1>4, <1>6 DEF SamplesInv, OnceInv, WriterInv, PassInv, Sampled
<1>10. QED
  BY <1>8, <1>9 DEF SamplesInv

(* Sending the row of a sample that is being settled, or a block row, puts     *)
(* it in the queue or among the lost.                                      *)
LEMMA PlacesSend ==
    ASSUME TypeOK, SamplesInv, NEW r \in Rows, Send(r),
           r # BlockRow => r.sample \in ItemsOf(taken) /\ r.sample \in Samples
    PROVE  /\ OneRowEach(queue') /\ OneRowEach(batch') /\ WriterInv'
           /\ \A s \in Samples :
                 /\ Of(s, table') = Of(s, table)
                 /\ Of(s, Unwritten') = Of(s, Unwritten)
           /\ \/ \A s \in Samples :
                    /\ Of(s, ToSet(queue')) = Of(s, ToSet(queue)) \cup Of(s, {r})
                    /\ Of(s, lost') = Of(s, lost)
              \/ \A s \in Samples :
                    /\ Of(s, ToSet(queue')) = Of(s, ToSet(queue))
                    /\ Of(s, lost') = Of(s, lost) \cup Of(s, {r})
<1>1. UNCHANGED <<table, batch, writer>>
  BY SendEffect
<1>2. ASSUME r # BlockRow
      PROVE  /\ Of(r.sample, ToSet(queue)) = {} /\ Of(r.sample, Unwritten) = {}
  <2>1. PICK k \in 0 .. 8 : InPlace(r.sample, k)
    BY <1>2 DEF SamplesInv, Conserved
  <2>2. k = 2
    BY <1>2, <2>1 DEF InPlace
  <2>3. QED
    BY <2>1, <2>2 DEF InPlace
<1>3. OneRowEach(batch') /\ OneRowEach(queue) /\ OneRowEach(batch)
  BY <1>1 DEF SamplesInv, OnceInv
<1>4. CASE /\ ToSet(queue') = ToSet(queue) \cup {r} /\ lost' = lost
           /\ OneRowEach(queue) /\ (r # BlockRow => Of(r.sample, ToSet(queue)) = {})
                => OneRowEach(queue')
  <2>1. OneRowEach(queue')
    BY <1>2, <1>3, <1>4
  <2>2. WriterInv'
    BY <1>1, <1>4 DEF SamplesInv, WriterInv, Sampled
  <2>3. Unwritten' = Unwritten
    BY <1>1, <1>4 DEF Unwritten
  <2>4. QED
    BY <1>1, <1>3, <1>4, <2>1, <2>2, <2>3, OfUnion
<1>5. CASE queue' = queue /\ lost' = lost \cup {r}
  <2>1. WriterInv'
    <3>1. writer = "loaded" => r \notin Sampled(ToSet(batch))
      <4> SUFFICES ASSUME writer = "loaded", r \in Sampled(ToSet(batch)) PROVE FALSE
        OBVIOUS
      <4>1. r # BlockRow /\ r \notin table \cup lost
        BY DEF SamplesInv, WriterInv, Sampled
      <4>2. r \in Of(r.sample, Unwritten)
        BY <4>1 DEF Of, Sampled, Unwritten
      <4>3. QED
        BY <1>2, <4>1, <4>2
    <3>2. QED
      BY <1>1, <1>5, <3>1 DEF SamplesInv, WriterInv
  <2>2. ASSUME NEW s \in Samples PROVE Of(s, Unwritten') = Of(s, Unwritten)
    <3>1. Unwritten' = Unwritten \ {r}
      BY <1>1, <1>5 DEF Unwritten
    <3>2. CASE r # BlockRow /\ r.sample = s
      <4>1. Of(s, Unwritten) = {}
        BY <1>2, <3>2
      <4>2. QED
        BY <3>1, <4>1 DEF Of, Sampled
    <3>3. CASE r = BlockRow \/ r.sample # s
      BY <3>1, <3>3, OfMinus
    <3>4. QED
      BY <3>2, <3>3
  <2>3. QED
    BY <1>1, <1>3, <1>5, <2>1, <2>2, OfUnion
<1>6. QED
  BY <1>4, <1>5, SendEffect

LEMMA PlacesEndHead ==
    ASSUME TypeOK, SamplesInv, EndHead PROVE SamplesInv'
<1>1. BlockRow \in Rows /\ Send(BlockRow)
  BY DEF Rows, EndHead
<1>2. UNCHANGED <<taken, kept, pass, pending, expired, captured>>
  BY DEF EndHead, passVars, history
<1>3. \A s \in Samples : Of(s, {BlockRow}) = {}
  BY DEF Of, Sampled
<1>4. /\ OneRowEach(queue') /\ OneRowEach(batch') /\ WriterInv'
      /\ \A s \in Samples :
            /\ Of(s, table') = Of(s, table) /\ Of(s, Unwritten') = Of(s, Unwritten)
            /\ Of(s, ToSet(queue')) = Of(s, ToSet(queue)) /\ Of(s, lost') = Of(s, lost)
  BY <1>1, <1>3, PlacesSend
<1>5. Conserved'
  <2> SUFFICES ASSUME NEW s \in Samples PROVE \E k \in 0 .. 8 : InPlace(s, k)'
    BY DEF Conserved
  <2>1. PICK k \in 0 .. 8 : InPlace(s, k)
    BY DEF SamplesInv, Conserved
  <2>2. InPlace(s, k)'
    BY <1>2, <1>4, <2>1 DEF InPlace
  <2>3. QED
    BY <2>2
<1>6. QED
  BY <1>2, <1>4, <1>5 DEF SamplesInv, OnceInv, PassInv

LEMMA PlacesTakePending ==
    ASSUME TypeOK, SamplesInv, TakePending PROVE SamplesInv'
<1>1. /\ pass = "spawned" /\ pass' = "settling" /\ taken' = pending /\ pending' = <<>>
      /\ UNCHANGED <<kept, expired, captured, queue, batch, table, lost, writer>>
  BY DEF TakePending, storeVars, history
<1>2. taken = <<>>
  BY <1>1 DEF SamplesInv, PassInv
<1>3. /\ Unwritten' = Unwritten
      /\ \A s : Of(s, ToSet(queue')) = Of(s, ToSet(queue)) /\ Of(s, Unwritten') = Of(s, Unwritten)
                /\ Of(s, table') = Of(s, table) /\ Of(s, lost') = Of(s, lost)
      /\ ItemsOf(taken') = ItemsOf(pending) /\ ItemsOf(pending') = {}
      /\ ItemsOf(kept') = ItemsOf(kept) /\ ItemsOf(taken) = {}
  BY <1>1, <1>2, NoItems DEF Unwritten
<1>4. Conserved'
  <2> SUFFICES ASSUME NEW s \in Samples PROVE \E k \in 0 .. 8 : InPlace(s, k)'
    BY DEF Conserved
  <2>1. PICK k \in 0 .. 8 : InPlace(s, k)
    BY DEF SamplesInv, Conserved
  <2>2. InPlace(s, IF k = 1 THEN 2 ELSE k)'
    BY <1>1, <1>3, <2>1 DEF InPlace
  <2>3. QED
    BY <2>2
<1>5. OnceInv' /\ WriterInv' /\ PassInv'
  BY <1>1, NoItems DEF SamplesInv, OnceInv, WriterInv, PassInv
<1>6. QED
  BY <1>4, <1>5 DEF SamplesInv

(* The head of what is taken goes to the kept, the expired, the queue or the   *)
(* lost.                                                                   *)
LEMMA PlacesSettle ==
    ASSUME TypeOK, NodeInv, SamplesInv, SettleNext PROVE SamplesInv'
<1> DEFINE x == Head(taken)
<1>1. /\ pass = "settling" /\ taken # <<>> /\ taken' = Tail(taken)
      /\ UNCHANGED <<pass, pending, captured>>
  BY DEF SettleNext, history
<1>2. taken \in Seq(Items) /\ kept \in Seq(Items)
  BY DEF TypeOK
<1>3. /\ x \in Items /\ ItemsOf(taken) = ItemsOf(taken') \cup {x.sample}
      /\ OneItemEach(taken') /\ x.sample \notin ItemsOf(taken')
  BY <1>1, <1>2, TakeItem DEF SamplesInv, OnceInv
<1>4. x.sample \in Samples /\ InPlace(x.sample, 2)
  <2>1. x.sample \in Samples /\ x.sample \in ItemsOf(taken)
    BY <1>3 DEF Items
  <2>2. PICK k \in 0 .. 8 : InPlace(x.sample, k)
    BY <2>1 DEF SamplesInv, Conserved
  <2>3. k = 2
    BY <2>1, <2>2 DEF InPlace
  <2>4. QED
    BY <2>1, <2>2, <2>3
<1>5. ItemsOf(pending') = ItemsOf(pending)
  BY <1>1
<1>6. CASE Keep
  <2>1. kept' = Append(kept, x) /\ UNCHANGED <<storeVars, expired>>
    BY <1>6 DEF Keep
  <2> HIDE DEF x
  <2>2. ItemsOf(kept') = ItemsOf(kept) \cup {x.sample} /\ OneItemEach(kept')
    BY <1>2, <1>3, <1>4, <2>1, AppendItem DEF SamplesInv, OnceInv, InPlace
  <2>3. UNCHANGED <<queue, batch, table, lost, writer, expired>>
    BY <2>1 DEF storeVars
  <2>4. \A s : Of(s, ToSet(queue')) = Of(s, ToSet(queue)) /\ Of(s, Unwritten') = Of(s, Unwritten)
               /\ Of(s, table') = Of(s, table) /\ Of(s, lost') = Of(s, lost)
    BY <2>3 DEF Unwritten
  <2>5. Conserved'
    <3> SUFFICES ASSUME NEW s \in Samples PROVE \E k \in 0 .. 8 : InPlace(s, k)'
      BY DEF Conserved
    <3>1. PICK k \in 0 .. 8 : InPlace(s, k)
      BY DEF SamplesInv, Conserved
    <3>2. CASE s = x.sample
      <4>1. InPlace(s, 2)
        BY <1>4, <3>2
      <4>2. InPlace(s, 3)'
        BY <1>1, <1>3, <1>5, <2>2, <2>3, <2>4, <3>2, <4>1 DEF InPlace
      <4>3. QED
        BY <4>2
    <3>3. CASE s # x.sample
      <4>1. InPlace(s, k)'
        BY <1>1, <1>3, <1>5, <2>2, <2>3, <2>4, <3>1, <3>3 DEF InPlace
      <4>2. QED
        BY <4>1
    <3>4. QED
      BY <3>2, <3>3
  <2>6. QED
    BY <1>1, <1>3, <2>2, <2>3, <2>5 DEF SamplesInv, OnceInv, WriterInv, PassInv
<1>7. CASE Expire
  <2>1. expired' = expired \cup {x.sample} /\ UNCHANGED <<storeVars, kept>>
    BY <1>7 DEF Expire
  <2> HIDE DEF x
  <2>3. UNCHANGED <<queue, batch, table, lost, writer, kept>>
    BY <2>1 DEF storeVars
  <2>4. \A s : Of(s, ToSet(queue')) = Of(s, ToSet(queue)) /\ Of(s, Unwritten') = Of(s, Unwritten)
               /\ Of(s, table') = Of(s, table) /\ Of(s, lost') = Of(s, lost)
               /\ ItemsOf(kept') = ItemsOf(kept)
    BY <2>3 DEF Unwritten
  <2>5. Conserved'
    <3> SUFFICES ASSUME NEW s \in Samples PROVE \E k \in 0 .. 8 : InPlace(s, k)'
      BY DEF Conserved
    <3>1. PICK k \in 0 .. 8 : InPlace(s, k)
      BY DEF SamplesInv, Conserved
    <3>2. CASE s = x.sample
      <4>1. InPlace(s, 2)
        BY <1>4, <3>2
      <4>2. InPlace(s, 4)'
        BY <1>1, <1>3, <1>5, <2>1, <2>4, <3>2, <4>1 DEF InPlace
      <4>3. QED
        BY <4>2
    <3>3. CASE s # x.sample
      <4>1. InPlace(s, k)'
        BY <1>1, <1>3, <1>5, <2>1, <2>4, <3>1, <3>3 DEF InPlace
      <4>2. QED
        BY <4>1
    <3>4. QED
      BY <3>2, <3>3
  <2>6. QED
    BY <1>1, <1>3, <2>3, <2>5 DEF SamplesInv, OnceInv, WriterInv, PassInv
<1>8. CASE Record
  <2> DEFINE r == Measured
  <2>1. r \in Rows /\ r # BlockRow /\ r.sample = x.sample
    BY <1>8, MeasuredRow DEF Record
  <2>2. Send(r) /\ kept' = kept /\ expired' = expired
    BY <1>8 DEF Record
  <2> HIDE DEF r
  <2> HIDE DEF x
  <2>3. r.sample \in ItemsOf(taken) /\ r.sample \in Samples
    BY <1>3, <1>4, <2>1
  <2>4. /\ OneRowEach(queue') /\ OneRowEach(batch') /\ WriterInv'
        /\ \A s \in Samples :
              /\ Of(s, table') = Of(s, table)
              /\ Of(s, Unwritten') = Of(s, Unwritten)
        /\ \/ \A s \in Samples :
                 /\ Of(s, ToSet(queue')) = Of(s, ToSet(queue)) \cup Of(s, {r})
                 /\ Of(s, lost') = Of(s, lost)
           \/ \A s \in Samples :
                 /\ Of(s, ToSet(queue')) = Of(s, ToSet(queue))
                 /\ Of(s, lost') = Of(s, lost) \cup Of(s, {r})
    BY <2>1, <2>2, <2>3, PlacesSend
  <2>5. Conserved'
    <3> SUFFICES ASSUME NEW s \in Samples PROVE \E k \in 0 .. 8 : InPlace(s, k)'
      BY DEF Conserved
    <3>1. PICK k \in 0 .. 8 : InPlace(s, k)
      BY DEF SamplesInv, Conserved
    <3>2. Of(s, {r}) # {} <=> s = x.sample
      BY <2>1, OfRow
    <3>3. /\ captured' = captured /\ ItemsOf(kept') = ItemsOf(kept) /\ expired' = expired
      BY <1>1, <2>2
    <3>4. CASE /\ Of(s, ToSet(queue')) = Of(s, ToSet(queue)) \cup Of(s, {r})
               /\ Of(s, lost') = Of(s, lost)
      <4>1. CASE s = x.sample
        <5>1. InPlace(s, 2)
          BY <1>4, <4>1
        <5>2. InPlace(s, 5)'
          BY <1>3, <1>5, <2>4, <3>2, <3>3, <3>4, <4>1, <5>1 DEF InPlace
        <5>3. QED
          BY <5>2
      <4>2. CASE s # x.sample
        <5>1. InPlace(s, k)'
          BY <1>3, <1>5, <2>4, <3>1, <3>2, <3>3, <3>4, <4>2 DEF InPlace
        <5>2. QED
          BY <5>1
      <4>3. QED
        BY <4>1, <4>2
    <3>5. CASE /\ Of(s, ToSet(queue')) = Of(s, ToSet(queue))
               /\ Of(s, lost') = Of(s, lost) \cup Of(s, {r})
      <4>1. CASE s = x.sample
        <5>1. InPlace(s, 2)
          BY <1>4, <4>1
        <5>2. InPlace(s, 8)'
          BY <1>3, <1>5, <2>4, <3>2, <3>3, <3>5, <4>1, <5>1 DEF InPlace
        <5>3. QED
          BY <5>2
      <4>2. CASE s # x.sample
        <5>1. InPlace(s, k)'
          BY <1>3, <1>5, <2>4, <3>1, <3>2, <3>3, <3>5, <4>2 DEF InPlace
        <5>2. QED
          BY <5>1
      <4>3. QED
        BY <4>1, <4>2
    <3>6. QED
      BY <2>4, <3>4, <3>5
  <2>6. QED
    BY <1>1, <1>3, <2>2, <2>4, <2>5 DEF SamplesInv, OnceInv, PassInv
<1>9. QED
  BY <1>6, <1>7, <1>8 DEF SettleNext

LEMMA PlacesEndPass ==
    ASSUME TypeOK, SamplesInv, EndPass PROVE SamplesInv'
<1>1. /\ taken = <<>> /\ pass' = "off" /\ pending' = pending \o kept /\ kept' = <<>>
      /\ UNCHANGED <<taken, expired, captured, queue, batch, table, lost, writer>>
  BY DEF EndPass, PutBack, storeVars, history
<1>2. pending \in Seq(Items) /\ kept \in Seq(Items)
  BY DEF TypeOK
<1>3. ItemsOf(pending) \cap ItemsOf(kept) = {}
  <2>1. ASSUME NEW s \in ItemsOf(pending), s \in ItemsOf(kept) PROVE FALSE
    <3>1. s \in Samples
      <4>1. PICK i \in DOMAIN pending : s = pending[i].sample
        BY DEF ItemsOf
      <4>2. pending[i] \in Items
        BY <1>2, <4>1, ElementOfSeq, LenProperties
      <4>3. QED
        BY <4>1, <4>2 DEF Items
    <3>2. PICK k \in 0 .. 8 : InPlace(s, k)
      BY <3>1 DEF SamplesInv, Conserved
    <3>3. k = 1 /\ k = 3
      BY <2>1, <3>2 DEF InPlace
    <3>4. QED
      BY <3>3
  <2>2. QED
    BY <2>1
<1>4. /\ ItemsOf(pending') = ItemsOf(pending) \cup ItemsOf(kept)
      /\ OneItemEach(pending')
  BY <1>1, <1>2, <1>3, JoinItems DEF SamplesInv, OnceInv
<1>5. /\ ItemsOf(kept') = {} /\ ItemsOf(taken') = ItemsOf(taken) /\ taken' = <<>>
      /\ \A s : Of(s, ToSet(queue')) = Of(s, ToSet(queue)) /\ Of(s, Unwritten') = Of(s, Unwritten)
                /\ Of(s, table') = Of(s, table) /\ Of(s, lost') = Of(s, lost)
  BY <1>1, NoItems DEF Unwritten
<1>6. Conserved'
  <2> SUFFICES ASSUME NEW s \in Samples PROVE \E k \in 0 .. 8 : InPlace(s, k)'
    BY DEF Conserved
  <2>1. PICK k \in 0 .. 8 : InPlace(s, k)
    BY DEF SamplesInv, Conserved
  <2>2. InPlace(s, IF k = 3 THEN 1 ELSE k)'
    BY <1>1, <1>4, <1>5, <2>1 DEF InPlace
  <2>3. QED
    BY <2>2
<1>7. OnceInv' /\ WriterInv' /\ PassInv'
  BY <1>1, <1>4, NoItems DEF SamplesInv, OnceInv, WriterInv, PassInv
<1>8. QED
  BY <1>6, <1>7 DEF SamplesInv

LEMMA PlacesTakeBatch ==
    ASSUME TypeOK, SamplesInv, TakeBatch,
           UNCHANGED <<taken, kept, pass, pending, expired, captured>>
    PROVE  SamplesInv'
<1> DEFINE n == IF Len(queue) < BatchMax THEN Len(queue) ELSE BatchMax
<1>1. /\ batch' = SubSeq(queue, 1, n) /\ queue' = SubSeq(queue, n + 1, Len(queue))
      /\ writer = "idle" /\ writer' = "loaded" /\ UNCHANGED <<table, lost>>
  BY DEF TakeBatch
<1>2. queue \in Seq(Rows) /\ n \in 0 .. Len(queue)
  BY LenProperties, StoreAssumption DEF TypeOK
<1> HIDE DEF n
<1>3. /\ ToSet(queue) = ToSet(batch') \cup ToSet(queue')
      /\ OneRowEach(batch') /\ OneRowEach(queue')
      /\ \A x \in ToSet(batch'), y \in ToSet(queue') :
            x # BlockRow /\ y # BlockRow => x.sample # y.sample
  BY <1>1, <1>2, SplitRows DEF SamplesInv, OnceInv
<1>4. Unwritten = {}
  BY <1>1, NoItems DEF SamplesInv, WriterInv, Unwritten
<1>5. ASSUME NEW r \in Sampled(ToSet(batch')) PROVE r \notin table \cup lost
  <2>1. r \in ToSet(queue) /\ r # BlockRow /\ r \in Rows
    BY <1>2, <1>3, ElementOfSeq, LenProperties DEF Sampled, ToSet
  <2>2. r.sample \in Samples
    BY <2>1 DEF Rows, SampleRows
  <2>3. PICK k \in 0 .. 8 : InPlace(r.sample, k)
    BY <2>2 DEF SamplesInv, Conserved
  <2>4. r \in Of(r.sample, ToSet(queue))
    BY <2>1 DEF Of, Sampled
  <2>5. k = 5
    BY <2>3, <2>4 DEF InPlace
  <2>6. Of(r.sample, table) = {} /\ Of(r.sample, lost) = {}
    BY <2>3, <2>5 DEF InPlace
  <2>7. QED
    BY <2>1, <2>6 DEF Of, Sampled
<1>6. \A s : Of(s, Unwritten') = Of(s, ToSet(batch'))
  BY <1>1, <1>5 DEF Of, Sampled, Unwritten
<1>7. \A s : /\ Of(s, ToSet(queue)) = Of(s, ToSet(batch')) \cup Of(s, ToSet(queue'))
             /\ Of(s, ToSet(batch')) = {} \/ Of(s, ToSet(queue')) = {}
  BY <1>3 DEF Of, Sampled
<1>8. Conserved'
  <2> SUFFICES ASSUME NEW s \in Samples PROVE \E k \in 0 .. 8 : InPlace(s, k)'
    BY DEF Conserved
  <2>1. PICK k \in 0 .. 8 : InPlace(s, k)
    BY DEF SamplesInv, Conserved
  <2>2. /\ ItemsOf(pending') = ItemsOf(pending) /\ ItemsOf(taken') = ItemsOf(taken)
        /\ ItemsOf(kept') = ItemsOf(kept) /\ expired' = expired /\ captured' = captured
        /\ table' = table /\ lost' = lost
    BY <1>1
  <2>3. Of(s, Unwritten) = {}
    BY <1>4 DEF Of, Sampled
  <2>4. CASE Of(s, ToSet(batch')) # {}
    <3>1. InPlace(s, 6)'
      BY <1>6, <1>7, <2>1, <2>2, <2>4 DEF InPlace
    <3>2. QED
      BY <3>1
  <2>5. CASE Of(s, ToSet(batch')) = {}
    <3>1. InPlace(s, k)'
      BY <1>6, <1>7, <2>1, <2>2, <2>3, <2>5 DEF InPlace
    <3>2. QED
      BY <3>1
  <2>6. QED
    BY <2>4, <2>5
<1>9. OnceInv' /\ WriterInv' /\ PassInv'
  BY <1>1, <1>3, <1>5 DEF SamplesInv, OnceInv, WriterInv, PassInv
<1>10. QED
  BY <1>8, <1>9 DEF SamplesInv

(* A row of the batch is its sample's only one there: it is written or lost.   *)
LEMMA PlacesCommit ==
    ASSUME TypeOK, SamplesInv, Commit,
           UNCHANGED <<taken, kept, pass, pending, expired, captured>>
    PROVE  SamplesInv'
<1>1. /\ writer = "loaded" /\ writer' = "noting" /\ queue' = queue /\ batch' = batch
  BY DEF Commit
<1>2. PICK written \in SUBSET ToSet(batch) :
         table' = table \cup written /\ lost' = lost \cup (ToSet(batch) \ written)
  BY DEF Commit
<1>3. Unwritten' = {} /\ ToSet(batch') \subseteq table' \cup lost'
  BY <1>1, <1>2 DEF Unwritten
<1>4. Sampled(ToSet(batch)) \cap (table \cup lost) = {}
  BY <1>1 DEF SamplesInv, WriterInv
<1>5. \A s : Of(s, Unwritten) = Of(s, ToSet(batch))
  BY <1>4 DEF Of, Sampled, Unwritten
<1>6. ASSUME NEW s, NEW a \in Of(s, ToSet(batch)), NEW b \in Of(s, ToSet(batch)) PROVE a = b
  <2>1. PICK i \in DOMAIN batch : a = batch[i]
    BY DEF Of, Sampled, ToSet
  <2>2. PICK j \in DOMAIN batch : b = batch[j]
    BY DEF Of, Sampled, ToSet
  <2>3. a # BlockRow /\ b # BlockRow /\ a.sample = s /\ b.sample = s
    BY DEF Of, Sampled
  <2>4. i = j
    BY <2>1, <2>2, <2>3 DEF SamplesInv, OnceInv, OneRowEach
  <2>5. QED
    BY <2>1, <2>2, <2>4
<1>7. \A s : /\ Of(s, table') = Of(s, table) \cup Of(s, written)
             /\ Of(s, lost') = Of(s, lost) \cup Of(s, ToSet(batch) \ written)
             /\ Of(s, ToSet(batch)) = Of(s, written) \cup Of(s, ToSet(batch) \ written)
             /\ Of(s, Unwritten') = {}
  BY <1>2, <1>3 DEF Of, Sampled
<1>8. \A s : Of(s, written) = {} \/ Of(s, ToSet(batch) \ written) = {}
  <2> SUFFICES ASSUME NEW s, NEW a \in Of(s, written), NEW b \in Of(s, ToSet(batch) \ written)
               PROVE  FALSE
    OBVIOUS
  <2>1. a \in written /\ b \notin written
    BY DEF Of, Sampled
  <2>2. a = b
    BY <1>6, <1>7
  <2>3. QED
    BY <2>1, <2>2
<1>9. Conserved'
  <2> SUFFICES ASSUME NEW s \in Samples PROVE \E k \in 0 .. 8 : InPlace(s, k)'
    BY DEF Conserved
  <2>1. PICK k \in 0 .. 8 : InPlace(s, k)
    BY DEF SamplesInv, Conserved
  <2>2. /\ ItemsOf(pending') = ItemsOf(pending) /\ ItemsOf(taken') = ItemsOf(taken)
        /\ ItemsOf(kept') = ItemsOf(kept) /\ expired' = expired /\ captured' = captured
        /\ queue' = queue
    BY <1>1
  <2>3. Of(s, Unwritten) = Of(s, ToSet(batch))
    BY <1>5
  <2>4. CASE Of(s, written) # {}
    <3>1. InPlace(s, 7)'
      BY <1>7, <1>8, <2>1, <2>2, <2>3, <2>4 DEF InPlace
    <3>2. QED
      BY <3>1
  <2>5. CASE Of(s, ToSet(batch) \ written) # {}
    <3>1. InPlace(s, 8)'
      BY <1>7, <1>8, <2>1, <2>2, <2>3, <2>5 DEF InPlace
    <3>2. QED
      BY <3>1
  <2>6. CASE Of(s, written) = {} /\ Of(s, ToSet(batch) \ written) = {}
    <3>1. InPlace(s, k)'
      BY <1>7, <2>1, <2>2, <2>3, <2>6 DEF InPlace
    <3>2. QED
      BY <3>1
  <2>7. QED
    BY <2>4, <2>5, <2>6
<1>10. OnceInv' /\ WriterInv' /\ PassInv'
  BY <1>1, <1>3 DEF SamplesInv, OnceInv, WriterInv, PassInv
<1>11. QED
  BY <1>9, <1>10 DEF SamplesInv

LEMMA PlacesNote ==
    ASSUME TypeOK, SamplesInv, NoteIncident,
           UNCHANGED <<taken, kept, pass, pending, expired, captured>>
    PROVE  SamplesInv'
<1>1. /\ writer = "noting" /\ writer' = "idle" /\ batch' = <<>>
      /\ UNCHANGED <<table, queue, lost>>
  BY DEF NoteIncident
<1>2. Unwritten = {} /\ Unwritten' = {}
  BY <1>1, NoItems DEF SamplesInv, WriterInv, Unwritten
<1>3. Conserved'
  <2> SUFFICES ASSUME NEW s \in Samples PROVE \E k \in 0 .. 8 : InPlace(s, k)'
    BY DEF Conserved
  <2>1. PICK k \in 0 .. 8 : InPlace(s, k)
    BY DEF SamplesInv, Conserved
  <2>2. /\ ItemsOf(pending') = ItemsOf(pending) /\ ItemsOf(taken') = ItemsOf(taken)
        /\ ItemsOf(kept') = ItemsOf(kept) /\ expired' = expired /\ captured' = captured
        /\ queue' = queue /\ table' = table /\ lost' = lost
    BY <1>1
  <2>3. InPlace(s, k)'
    BY <1>2, <2>1, <2>2 DEF InPlace
  <2>4. QED
    BY <2>3
<1>4. OnceInv' /\ WriterInv' /\ PassInv'
  BY <1>1, NoItems DEF SamplesInv, OnceInv, WriterInv, PassInv
<1>5. QED
  BY <1>3, <1>4 DEF SamplesInv

(* What was in memory is expired when it was a sample, lost when it was a row. *)
LEMMA PlacesRestart ==
    ASSUME TypeOK, SamplesInv, Restart PROVE SamplesInv'
<1>1. /\ pending' = <<>> /\ taken' = <<>> /\ kept' = <<>> /\ pass' = "off"
      /\ queue' = <<>> /\ batch' = <<>> /\ writer' = "idle" /\ table' = table
      /\ captured' = captured
      /\ lost' = lost \cup ToSet(queue) \cup (ToSet(batch) \ table)
      /\ expired' = {s \in captured : Of(s, table \cup lost') = {}}
  BY DEF Restart, StoreCrash
<1>2. /\ ItemsOf(pending') = {} /\ ItemsOf(taken') = {} /\ ItemsOf(kept') = {}
      /\ ToSet(queue') = {} /\ Unwritten' = {}
  BY <1>1, NoItems DEF Unwritten
<1>3. \A s : /\ Of(s, lost') = Of(s, lost) \cup Of(s, ToSet(queue)) \cup Of(s, Unwritten)
             /\ Of(s, table \cup lost') = Of(s, table) \cup Of(s, lost')
             /\ Of(s, {}) = {}
  BY <1>1 DEF Of, Sampled, Unwritten
<1>4. Conserved'
  <2> SUFFICES ASSUME NEW s \in Samples PROVE \E k \in 0 .. 8 : InPlace(s, k)'
    BY DEF Conserved
  <2>1. PICK k \in 0 .. 8 : InPlace(s, k)
    BY DEF SamplesInv, Conserved
  <2>2. Of(s, lost') # {} <=> k \in {5, 6, 8}
    <3>1. /\ Of(s, lost) # {} <=> k = 8
          /\ Of(s, ToSet(queue)) # {} <=> k = 5
          /\ Of(s, Unwritten) # {} <=> k = 6
      BY <2>1 DEF InPlace
    <3>2. QED
      BY <1>3, <3>1
  <2>a. /\ Of(s, table') # {} <=> k = 7
        /\ s \in captured' <=> k # 0
    BY <1>1, <2>1 DEF InPlace
  <2>b. s \in expired' <=> k \notin {0, 5, 6, 7, 8}
    <3>1. s \in expired' <=> s \in captured /\ Of(s, table) = {} /\ Of(s, lost') = {}
      BY <1>1, <1>3
    <3>2. QED
      BY <1>1, <2>2, <2>a, <3>1
  <2>c. /\ s \notin ItemsOf(pending') /\ s \notin ItemsOf(taken') /\ s \notin ItemsOf(kept')
        /\ Of(s, ToSet(queue')) = {} /\ Of(s, Unwritten') = {}
    BY <1>2, <1>3
  <2>3. CASE k \in {5, 6, 8}
    <3>1. InPlace(s, 8)'
      BY <2>2, <2>a, <2>b, <2>c, <2>3 DEF InPlace
    <3>2. QED
      BY <3>1
  <2>4. CASE k \in {1, 2, 3, 4}
    <3>1. InPlace(s, 4)'
      BY <2>2, <2>a, <2>b, <2>c, <2>4 DEF InPlace
    <3>2. QED
      BY <3>1
  <2>5. CASE k \in {0, 7}
    <3>1. InPlace(s, k)'
      BY <2>2, <2>a, <2>b, <2>c, <2>5 DEF InPlace
    <3>2. QED
      BY <3>1
  <2>6. k \in {5, 6, 8} \cup {1, 2, 3, 4} \cup {0, 7}
    OBVIOUS
  <2>7. QED
    BY <2>3, <2>4, <2>5, <2>6
<1>5. OnceInv' /\ WriterInv' /\ PassInv'
  BY <1>1, NoItems DEF OnceInv, WriterInv, PassInv
<1>6. QED
  BY <1>4, <1>5 DEF SamplesInv

LEMMA PlacesStep ==
    TypeOK /\ NodeInv /\ SamplesInv /\ [Next]_vars => SamplesInv'
<1> SUFFICES ASSUME TypeOK, NodeInv, SamplesInv, [Next]_vars PROVE SamplesInv'
  OBVIOUS
<1>1. ASSUME NEW depth \in 0 .. MaxDepth, Mine(depth) PROVE SamplesInv'
  <2>1. UNCHANGED <<placesVars, writer>> /\ PassInv'
    BY <1>1 DEF Mine, storeVars, passVars, history, placesVars, SamplesInv, PassInv
  <2>2. QED
    BY <2>1, PlacesFrame
<1>2. CASE OnHead
  <2>1. UNCHANGED <<placesVars, writer>>
    BY <1>2 DEF OnHead, storeVars, placesVars
  <2>2. PassInv'
    BY <1>2 DEF OnHead, SamplesInv, PassInv
  <2>3. QED
    BY <2>1, <2>2, PlacesFrame
<1>3. CASE UNCHANGED vars
  <2>1. UNCHANGED <<placesVars, writer>> /\ PassInv'
    BY <1>3 DEF vars, storeVars, passVars, history, placesVars, SamplesInv, PassInv
  <2>2. QED
    BY <2>1, PlacesFrame
<1>4. CASE Write
  <2>1. UNCHANGED <<taken, kept, pass, pending, expired, captured>>
    BY <1>4 DEF Write, passVars, history
  <2>2. QED
    BY <1>4, <2>1, PlacesTakeBatch, PlacesCommit, PlacesNote DEF Write, Writer
<1>5. CASE Requote
  <2>1. UNCHANGED <<placesVars, writer>> /\ PassInv'
    BY <1>5 DEF Requote, storeVars, history, placesVars, SamplesInv, PassInv
  <2>2. QED
    BY <2>1, PlacesFrame
<1>6. QED
  BY <1>1, <1>2, <1>3, <1>4, <1>5, PlacesCapture, PlacesEndHead, PlacesTakePending, PlacesSettle,
     PlacesEndPass, PlacesRestart
  DEF Next, Pass

LEMMA PlacesInit == Init => SamplesInv
<1> SUFFICES ASSUME Init PROVE SamplesInv
  OBVIOUS
<1>1. /\ pending = <<>> /\ taken = <<>> /\ kept = <<>> /\ queue = <<>> /\ batch = <<>>
      /\ expired = {} /\ captured = {} /\ table = {} /\ lost = {}
      /\ writer = "idle"
  BY DEF Init, StoreInit
<1>2. ASSUME NEW s \in Samples PROVE InPlace(s, 0)
  BY <1>1, NoItems DEF InPlace, Of, Sampled, Unwritten
<1>3. OnceInv /\ WriterInv /\ PassInv
  BY <1>1, NoItems DEF OnceInv, WriterInv, PassInv
<1>4. QED
  BY <1>2, <1>3 DEF SamplesInv, Conserved

(* One true place among eight is what SamplesAreConserved counts. *)
LEMMA CountPlaces ==
    ASSUME NEW s, NEW k \in 0 .. 8, InPlace(s, k)
    PROVE  Cardinality({i \in DOMAIN Places(s) : Places(s)[i]}) = IF s \in captured THEN 1 ELSE 0
<1> DEFINE p == Places(s)
           true == {i \in DOMAIN p : p[i]}
<1>1. DOMAIN p = {1, 2, 3, 4, 5, 6, 7, 8}
  BY DEF Places
<1>2. /\ p[1] <=> k = 1
      /\ p[2] <=> k = 2
      /\ p[3] <=> k = 3
      /\ p[4] <=> k = 4
      /\ p[5] <=> k = 5
      /\ p[6] <=> k = 6
      /\ p[7] <=> k = 7
      /\ p[8] <=> k = 8
  BY DEF InPlace, Places, Unwritten
<1> HIDE DEF p
<1>3. CASE k = 0
  <2>1. true = {}
    BY <1>1, <1>2, <1>3
  <2>2. QED
    BY <1>3, <2>1, FS_EmptySet DEF InPlace, p
<1>4. CASE k # 0
  <2>1. true = {k}
    BY <1>1, <1>2, <1>4
  <2>2. QED
    BY <1>4, <2>1, FS_Singleton DEF InPlace, p
<1>5. QED
  BY <1>3, <1>4

(* Every captured sample is in one place at any time, none is in two. *)
THEOREM ComparisonsConserved == Spec => []SamplesAreConserved
<1>1. SamplesInv => SamplesAreConserved
  BY CountPlaces DEF SamplesInv, Conserved, SamplesAreConserved
<1>2. QED
  BY <1>1, ComparisonsTypesInit, ComparisonsTypesStep, PlacesInit, PlacesStep, PTL DEF Spec
=============================================================================
