-------------------------- MODULE SettlementProofs --------------------------
(***************************************************************************)
(* Own-bundle settlement: what is settled stays canonical, and a verdict is *)
(* right and stays.                                                         *)
(***************************************************************************)
EXTENDS Settlement, SequenceTheorems, FiniteSetTheorems, WellFoundedInduction,
        TLAPS

-----------------------------------------------------------------------------
(***************************************************************************)
(* A settlement verdict is right and stays, for any bundles, chain and       *)
(* finality depth that satisfy ConstantsAssumption.                         *)
(***************************************************************************)

Blocks == [id : Nat, txs : SUBSET Txs, bad : SUBSET Txs]

Receipts == [leg : 1 .. Legs, number : Nat, id : Nat, ok : BOOLEAN]

(* A bundle that was not recorded has no verdict. *)
Rows == {r \in [state : Observations \cup Verdicts \cup {"none"},
                included : {"null", "no", "yes"}, block : Nat] :
            r.state = "none" => r.included = "null" /\ r.block = 0}

Shape ==
    /\ chain \in Seq(Blocks) /\ nextId \in Nat /\ top \in Nat
    /\ sent \subseteq Bundles /\ loose \subseteq Txs
    /\ target \in [Bundles -> Nat]
    /\ row \in [Bundles -> Rows]
    /\ outcome \in [Bundles -> [block : Nat, canonical : BOOLEAN]]
    /\ lastHead \in [number : Nat \ {0}, id : Nat]
    /\ recPc \in {"idle", "list", "receipts", "bundles", "canonical"}
    /\ recHead \in Nat /\ todo \in Seq(Bundles)
    /\ got \in [Bundles -> SUBSET Receipts]

(* A transaction that is ours lands at its target, or as late as Lateness. *)
ChainInv ==
    /\ Height >= 1 /\ Height <= top /\ (Height = top \/ Height + MaxReorg > top)
    /\ \A n \in 1 .. Height :
          /\ chain[n].id < nextId
          /\ \A tx \in chain[n].txs :
                tx[1] \in sent /\ (tx[2] \in Victims \/ n <= target[tx[1]] + Lateness)
    /\ \A tx \in loose : tx[1] \in sent

(* A receipt is of a block that was mined, and tells the truth while that     *)
(* block is canonical.                                                      *)
ReceiptInv ==
    \A b \in Bundles : \A r \in got[b] :
        /\ r.number >= 1 /\ r.id < nextId
        /\ r.number <= Height /\ chain[r.number].id = r.id
              => <<b, r.leg>> \in chain[r.number].txs

PassInv ==
    /\ \A i, j \in 1 .. Len(todo) : i # j => todo[i] # todo[j]
    /\ \A i \in 1 .. Len(todo) : row[todo[i]].included = "null"
    /\ recHead <= top
    /\ recPc # "idle" =>
          recHead <= lastHead.number \/ recHead < lastHead.number + MaxReorg
    /\ recPc = "canonical" =>
          /\ todo # <<>>
          /\ Complete(got[Head(todo)]) /\ Coherent(got[Head(todo)])
          /\ AtFinality(FirstBlock(got[Head(todo)]))

(* The bundle is in a block that no reorganisation can discard any more. *)
Settled(b, n) ==
    /\ n >= 1 /\ n < top /\ n + MaxReorg <= top
    /\ BundleTxs(b) \subseteq chain[n].txs

InclusionInv ==
    \A b \in Bundles :
        /\ row[b].included = "yes" => Settled(b, row[b].block) /\ row[b].block < lastHead.number
        /\ outcome[b].canonical => Settled(b, outcome[b].block)

IInv == Shape /\ ChainInv /\ ReceiptInv /\ PassInv /\ InclusionInv

-----------------------------------------------------------------------------
(* Operators of the model *)

(* A settled block is in the chain. *)
LEMMA SettledInChain ==
    ASSUME Shape, ChainInv, NEW n \in Nat, n >= 1, n < top, n + MaxReorg <= top
    PROVE  n \in 1 .. Height /\ n < Height
<1>1. Height \in Nat /\ MaxReorg \in Nat /\ top \in Nat
  BY ConstantsAssumption DEF Height, Shape
<1>2. QED
  BY <1>1 DEF ChainInv

LEMMA FirstBlockType ==
    ASSUME NEW R \in SUBSET Receipts
    PROVE  FirstBlock(R) \in Nat
<1>1. CASE R = {}
  BY <1>1 DEF FirstBlock
<1>2. CASE R # {}
  <2>1. {r.leg : r \in R} \subseteq Nat /\ {r.leg : r \in R} # {}
    BY <1>2 DEF Receipts
  <2> DEFINE legs    == {r.leg : r \in R}
             smaller == {p \in Nat \X Nat : p[1] < p[2]}
  <2>2. PICK l \in legs : \A k \in legs : <<k, l>> \notin smaller
    <3>1. IsWellFoundedOn(smaller, Nat)
      BY NatLessThanWellFounded DEF OpToRel
    <3> HIDE DEF smaller, legs
    <3>2. legs \subseteq Nat /\ legs # {}
      BY <2>1 DEF legs
    <3>3. QED
      BY <3>1, <3>2, WFMin
  <2>3. \E r \in R : \A q \in R : r.leg <= q.leg
    <3>1. PICK r \in R : l = r.leg
      OBVIOUS
    <3>2. \A q \in R : q.leg \in legs /\ q.leg \in Nat
      BY <2>1
    <3>3. ASSUME NEW q \in R PROVE ~(q.leg < l)
      <4>1. <<q.leg, l>> \notin smaller /\ q.leg \in Nat /\ l \in Nat
        BY <2>2, <3>1, <3>2
      <4>2. QED
        BY <4>1
    <3>4. QED
      BY <3>1, <3>2, <3>3
  <2>4. (CHOOSE r \in R : \A q \in R : r.leg <= q.leg) \in R
    BY <2>3
  <2>5. QED
    BY <1>2, <2>4 DEF FirstBlock, Receipts
<1>3. QED
  BY <1>1, <1>2

(* The receipts of an included bundle name one block. *)
LEMMA FirstBlockOfComplete ==
    ASSUME NEW R \in SUBSET Receipts, Complete(R), Coherent(R)
    PROVE  /\ FirstBlock(R) \in Nat
           /\ \A r \in R : r.number = FirstBlock(R)
           /\ (CHOOSE r \in R : TRUE) \in R
           /\ \A l \in 1 .. Legs : \E r \in R : r.leg = l
<1>1. \A l \in 1 .. Legs : \E r \in R : r.leg = l
  BY DEF Complete
<1>2. 1 \in 1 .. Legs
  BY ConstantsAssumption
<1>3. PICK first \in R : first.leg = 1
  BY <1>1, <1>2
<1>4. \A q \in R : first.leg <= q.leg
  BY <1>3 DEF Receipts
<1>5. (CHOOSE r \in R : \A q \in R : r.leg <= q.leg) \in R
  BY <1>4
<1>6. \A r \in R : r.number = FirstBlock(R)
  BY <1>3, <1>5 DEF FirstBlock, Coherent
<1>7. (CHOOSE r \in R : TRUE) \in R
  BY <1>3
<1>8. QED
  BY <1>1, <1>6, <1>7, FirstBlockType

LEMMA ReceiptsOfChain ==
    ASSUME Shape, NEW b \in Bundles
    PROVE  /\ ReceiptsOf(b) \subseteq Receipts
           /\ \A r \in ReceiptsOf(b) : /\ r.number \in 1 .. Height
                                       /\ r.id = chain[r.number].id
                                       /\ <<b, r.leg>> \in chain[r.number].txs
           /\ \A l \in 1 .. Legs, n \in 1 .. Height :
                 <<b, l>> \in chain[n].txs =>
                    \E r \in ReceiptsOf(b) : r.leg = l /\ r.number = n
<1>1. Height \in Nat /\ \A n \in 1 .. Height : chain[n].id \in Nat
  <2>1. Height \in Nat /\ \A n \in 1 .. Height : chain[n] \in Blocks
    BY DEF Shape, Height
  <2>2. QED
    BY <2>1 DEF Blocks
<1>2. ASSUME NEW r \in ReceiptsOf(b)
      PROVE  /\ r \in Receipts /\ r.number \in 1 .. Height
             /\ r.id = chain[r.number].id /\ <<b, r.leg>> \in chain[r.number].txs
  <2>1. PICK l \in 1 .. Legs, n \in 1 .. Height :
            /\ <<b, l>> \in chain[n].txs
            /\ r = [leg |-> l, number |-> n, id |-> chain[n].id,
                    ok |-> <<b, l>> \notin chain[n].bad]
    BY DEF ReceiptsOf, ReceiptAt
  <2>2. QED
    BY <1>1, <2>1 DEF Receipts
<1>3. ASSUME NEW l \in 1 .. Legs, NEW n \in 1 .. Height, <<b, l>> \in chain[n].txs
      PROVE  \E r \in ReceiptsOf(b) : r.leg = l /\ r.number = n
  <2>1. ReceiptAt(b, l, n) \in ReceiptsOf(b)
    BY <1>3 DEF ReceiptsOf
  <2>2. QED
    BY <2>1 DEF ReceiptAt
<1>4. QED
  BY <1>2, <1>3

-----------------------------------------------------------------------------
(* The chain *)

(* The chain is cut to m blocks and one is added. *)
Extended(m) ==
    /\ chain' \in Seq(Blocks) /\ Len(chain') = m + 1
    /\ \A n \in 1 .. m : chain'[n] = chain[n]
    /\ chain'[m + 1].id = nextId /\ nextId' = nextId + 1
    /\ top' = IF m + 1 > top THEN m + 1 ELSE top
    /\ loose' \subseteq Txs /\ \A tx \in loose' : tx[1] \in sent
    /\ \A tx \in chain'[m + 1].txs :
          tx[1] \in sent /\ (tx[2] \in Victims \/ m + 1 <= target[tx[1]] + Lateness)

LEMMA BuildExtends ==
    ASSUME Shape, ChainInv, NEW m \in 1 .. Height, NEW base \in Seq(Blocks), Len(base) = m,
           \A n \in 1 .. m : base[n] = chain[n],
           NEW public \in SUBSET Txs, \A tx \in public : tx[1] \in sent,
           Build(base, public)
    PROVE  Extended(m)
<1> DEFINE whole == {b \in sent : target[b] = m + 1
                                  /\ \A tx \in BundleTxs(b) : ~Holds(base, tx)}
           late  == {tx \in public : /\ ~Holds(base, tx)
                                     /\ tx[2] \in Victims
                                          \/ m + 1 <= target[tx[1]] + Lateness}
<1>1. PICK W \in SUBSET whole, L \in SUBSET late : \E bad \in SUBSET L :
          chain' = Append(base, [id  |-> nextId,
                                 txs |-> L \cup UNION {BundleTxs(b) : b \in W},
                                 bad |-> bad])
  BY DEF Build
<1>2. PICK bad \in SUBSET L :
          chain' = Append(base, [id  |-> nextId,
                                 txs |-> L \cup UNION {BundleTxs(b) : b \in W},
                                 bad |-> bad])
  BY <1>1
<1> DEFINE txs == L \cup UNION {BundleTxs(b) : b \in W}
<1>3. m \in Nat /\ Lateness \in Nat
  BY ConstantsAssumption DEF Shape, Height
<1>4. \A b \in W : BundleTxs(b) \subseteq Txs /\ \A tx \in BundleTxs(b) : tx[1] = b
  BY DEF BundleTxs, Txs, Shape
<1>5. txs \subseteq Txs /\ bad \subseteq Txs
  BY <1>2, <1>4
<1>6. ASSUME NEW tx \in txs
      PROVE  tx[1] \in sent /\ (tx[2] \in Victims \/ m + 1 <= target[tx[1]] + Lateness)
  <2>1. CASE tx \in L
    BY <2>1
  <2>2. CASE \E b \in W : tx \in BundleTxs(b)
    <3>1. PICK b \in W : tx \in BundleTxs(b)
      BY <2>2
    <3>2. tx[1] = b /\ b \in sent /\ target[b] = m + 1
      BY <1>4, <3>1
    <3>3. QED
      BY <1>3, <3>2
  <2>3. QED
    BY <2>1, <2>2
<1> HIDE DEF txs, whole, late
<1>7. [id |-> nextId, txs |-> txs, bad |-> bad] \in Blocks
  BY <1>5 DEF Blocks, Shape
<1>8. chain' = Append(base, [id |-> nextId, txs |-> txs, bad |-> bad])
  BY <1>2 DEF txs
<1>9. /\ chain' \in Seq(Blocks) /\ Len(chain') = m + 1
      /\ \A n \in 1 .. m : chain'[n] = chain[n]
      /\ chain'[m + 1] = [id |-> nextId, txs |-> txs, bad |-> bad]
  BY <1>3, <1>7, <1>8
<1>10. nextId' = nextId + 1 /\ loose' = public
       /\ top' = IF m + 1 > top THEN m + 1 ELSE top
  BY DEF Build
<1>11. QED
  BY <1>6, <1>9, <1>10 DEF Extended

(* Whether it grows or is reorganised, the chain keeps the blocks that are     *)
(* MaxReorg below its highest tip.                                          *)
LEMMA ChainExtends ==
    ASSUME Shape, ChainInv, Mine \/ Reorg
    PROVE  /\ \E m \in 1 .. Height : m + MaxReorg >= top /\ Extended(m)
           /\ UNCHANGED <<sent, target, row, outcome, lastHead, recPc, recHead, todo, got>>
<1>1. Height \in Nat /\ MaxReorg \in Nat /\ top \in Nat /\ Height = Len(chain)
  BY ConstantsAssumption DEF Shape, Height
<1>2. CASE Mine
  <2>1. Build(chain, loose)
    BY <1>2 DEF Mine
  <2>2. Height \in 1 .. Height /\ Height + MaxReorg >= top
    BY <1>1 DEF ChainInv
  <2>3. Extended(Height)
    BY <1>1, <2>1, <2>2, BuildExtends DEF Shape, ChainInv
  <2>4. QED
    BY <1>2, <2>2, <2>3 DEF Mine, rowVars, taskVars
<1>3. CASE Reorg
  <2>1. PICK d \in 1 .. MaxReorg :
            /\ d < Height /\ Height - d >= top - MaxReorg
            /\ Build(SubSeq(chain, 1, Height - d),
                     loose \cup UNION {chain[n].txs : n \in (Height - d + 1) .. Height})
    BY <1>3 DEF Reorg
  <2> DEFINE m      == Height - d
             base   == SubSeq(chain, 1, m)
             public == loose \cup UNION {chain[n].txs : n \in (m + 1) .. Height}
  <2>2. m \in 1 .. Height /\ m + MaxReorg >= top /\ (m + 1) .. Height \subseteq 1 .. Height
    BY <1>1, <2>1
  <2>3. base \in Seq(Blocks) /\ Len(base) = m /\ \A n \in 1 .. m : base[n] = chain[n]
    <3>1. \A i \in 1 .. m : chain[i] \in Blocks
      BY <1>1, <2>2 DEF Shape
    <3>2. /\ base \in Seq(Blocks) /\ Len(base) = IF 1 <= m THEN m - 1 + 1 ELSE 0
          /\ \A i \in 1 .. m - 1 + 1 : base[i] = chain[1 + i - 1]
      <4>1. m \in Int
        BY <1>1, <2>1
      <4> HIDE DEF m
      <4>2. QED
        BY <3>1, <4>1, SubSeqProperties
    <3>3. m \in Nat /\ 1 <= m
      BY <1>1, <2>2
    <3> HIDE DEF m, base
    <3>4. \A n \in 1 .. m : 1 + n - 1 = n /\ n \in 1 .. m - 1 + 1
      BY <3>3
    <3>5. Len(base) = m
      BY <3>2, <3>3
    <3>6. ASSUME NEW n \in 1 .. m PROVE base[n] = chain[n]
      <4>1. base[n] = chain[1 + n - 1]
        BY <3>2, <3>4
      <4>2. QED
        BY <3>4, <4>1
    <3>7. QED
      BY <3>2, <3>5, <3>6
  <2>4. public \in SUBSET Txs /\ \A tx \in public : tx[1] \in sent
    <3>1. \A n \in 1 .. Height : chain[n].txs \subseteq Txs
      <4>1. \A n \in 1 .. Height : chain[n] \in Blocks
        BY <1>1 DEF Shape
      <4>2. QED
        BY <4>1 DEF Blocks
    <3>2. QED
      BY <2>2, <3>1 DEF ChainInv, Shape
  <2> HIDE DEF m, base, public
  <2>5. Build(base, public)
    BY <2>1 DEF m, base, public
  <2>6. Extended(m)
    BY <2>2, <2>3, <2>4, <2>5, BuildExtends
  <2>7. QED
    BY <1>3, <2>2, <2>6 DEF Reorg, rowVars, taskVars
<1>4. QED
  BY <1>2, <1>3

LEMMA ChainStepPreserves ==
    ASSUME IInv, Mine \/ Reorg
    PROVE  IInv'
<1> USE DEF IInv
<1>1. PICK m \in 1 .. Height : m + MaxReorg >= top /\ Extended(m)
  BY ChainExtends
<1>2. UNCHANGED <<sent, target, row, outcome, lastHead, recPc, recHead, todo, got>>
  BY ChainExtends
<1>3. /\ Height \in Nat /\ m \in Nat /\ MaxReorg \in Nat /\ Lateness \in Nat
      /\ top \in Nat /\ nextId \in Nat /\ FinalityDepth \in Nat
  BY ConstantsAssumption DEF Shape, Height
<1>4. /\ Height' = m + 1 /\ nextId' = nextId + 1 /\ top' >= top /\ top' \in Nat
      /\ top' >= m + 1 /\ (top' = m + 1 \/ top' = top)
      /\ chain' \in Seq(Blocks) /\ chain'[m + 1].id = nextId
      /\ \A n \in 1 .. m : chain'[n] = chain[n]
      /\ loose' \subseteq Txs
  BY <1>1, <1>3 DEF Extended, Height
<1>5. Shape'
  BY <1>2, <1>3, <1>4 DEF Shape
<1>6. ChainInv'
  <2>1. Height' >= 1 /\ Height' <= top' /\ (Height' = top' \/ Height' + MaxReorg > top')
    BY <1>1, <1>3, <1>4
  <2>2. ASSUME NEW n \in 1 .. Height'
        PROVE  /\ chain'[n].id < nextId'
               /\ \A tx \in chain'[n].txs :
                     tx[1] \in sent /\ (tx[2] \in Victims \/ n <= target[tx[1]] + Lateness)
    <3>1. CASE n = m + 1
      BY <1>1, <1>3, <1>4, <3>1 DEF Extended
    <3>2. CASE n # m + 1
      <4>1. n \in 1 .. m /\ n \in 1 .. Height /\ chain[n].id < nextId
        BY <1>1, <1>3, <1>4, <2>2, <3>2 DEF ChainInv
      <4>2. chain[n] \in Blocks
        BY <4>1 DEF Shape, Height
      <4>3. chain[n].id \in Nat
        BY <4>2 DEF Blocks
      <4>4. QED
        BY <1>3, <1>4, <4>1, <4>3 DEF ChainInv
    <3>3. QED
      BY <3>1, <3>2
  <2>3. QED
    BY <1>1, <1>2, <2>1, <2>2 DEF ChainInv, Extended
<1>7. ReceiptInv'
  <2>1. ASSUME NEW b \in Bundles, NEW r \in got[b]
        PROVE  /\ r.number >= 1 /\ r.id < nextId'
               /\ r.number <= Height' /\ chain'[r.number].id = r.id
                     => <<b, r.leg>> \in chain'[r.number].txs
    <3>1. r \in Receipts /\ r.id \in Nat /\ r.number \in Nat
      BY DEF Shape, Receipts
    <3>2. r.number >= 1 /\ r.id < nextId
      BY DEF ReceiptInv
    <3>3. r.number = m + 1 => chain'[r.number].id # r.id
      BY <1>3, <1>4, <3>1, <3>2
    <3>4. r.number \in 1 .. m => r.number <= Height /\ chain'[r.number] = chain[r.number]
      BY <1>1, <1>3, <1>4
    <3>5. r.number <= Height' => r.number = m + 1 \/ r.number \in 1 .. m
      BY <1>3, <1>4, <3>1, <3>2
    <3>6. r.id < nextId'
      BY <1>3, <1>4, <3>1, <3>2
    <3>7. QED
      BY <3>2, <3>3, <3>4, <3>5, <3>6 DEF ReceiptInv
  <2>2. QED
    BY <1>2, <2>1 DEF ReceiptInv
<1>8. PassInv'
  <2>1. recHead <= top'
    BY <1>3, <1>4 DEF PassInv, Shape
  <2>2. QED
    BY <1>2, <2>1 DEF PassInv, AtFinality
<1>9. InclusionInv'
  <2>1. ASSUME NEW b \in Bundles, NEW n \in Nat, Settled(b, n) PROVE Settled(b, n)'
    <3>1. n \in 1 .. m
      BY <1>1, <1>3, <2>1 DEF Settled
    <3>2. QED
      BY <1>3, <1>4, <2>1, <3>1 DEF Settled
  <2>2. \A b \in Bundles : row[b].block \in Nat /\ outcome[b].block \in Nat
    BY DEF Shape, Rows
  <2>3. QED
    BY <1>2, <2>1, <2>2 DEF InclusionInv
<1>10. QED
  BY <1>5, <1>6, <1>7, <1>8, <1>9

-----------------------------------------------------------------------------
(* Steps that leave the chain alone *)

LEMMA ChainStays ==
    ASSUME ChainInv, UNCHANGED <<chain, nextId, top, sent, target, loose>>
    PROVE  ChainInv'
BY DEF ChainInv, Height

LEMMA ReceiptsStay ==
    ASSUME ReceiptInv, UNCHANGED <<chain, nextId>>, \A b \in Bundles : got'[b] = got[b] \/ got'[b] = {}
    PROVE  ReceiptInv'
BY DEF ReceiptInv, Height

LEMMA SendPreserves ==
    ASSUME IInv, NEW b \in Bundles, Send(b)
    PROVE  IInv'
<1> USE DEF IInv
<1>1. /\ b \notin sent /\ sent' = sent \cup {b}
      /\ target' = [target EXCEPT ![b] = lastHead.number + 1]
      /\ loose' = loose \cup ({b} \X Victims)
      /\ UNCHANGED <<chain, nextId, top, row, outcome, lastHead, recPc, recHead, todo, got>>
  BY DEF Send, chainVars, taskVars
<1>2. lastHead.number \in Nat /\ Victims \subseteq 1 .. Legs /\ Lateness \in Nat
  BY ConstantsAssumption DEF Shape
<1>3. Shape'
  <2>1. target' \in [Bundles -> Nat]
    BY <1>1, <1>2 DEF Shape
  <2>2. loose' \subseteq Txs
    BY <1>1, <1>2 DEF Shape, Txs
  <2>3. QED
    BY <1>1, <2>1, <2>2 DEF Shape
<1>4. ChainInv'
  <2>1. \A a \in sent : target'[a] = target[a]
    BY <1>1 DEF Shape
  <2>2. \A tx \in loose' : tx[1] \in sent'
    BY <1>1 DEF ChainInv
  <2>3. QED
    BY <1>1, <2>1, <2>2 DEF ChainInv, Height
<1>5. ReceiptInv' /\ PassInv' /\ InclusionInv'
  BY <1>1 DEF ReceiptInv, PassInv, InclusionInv, Settled, Height, AtFinality
<1>6. QED
  BY <1>3, <1>4, <1>5

LEMMA RecordBundlePreserves ==
    ASSUME IInv, NEW b \in Bundles, RecordBundle(b)
    PROVE  IInv'
<1> USE DEF IInv
<1>1. /\ row' = [row EXCEPT ![b].state = "pending"]
      /\ UNCHANGED <<chain, nextId, top, sent, target, loose, outcome, lastHead, recPc,
                     recHead, todo, got>>
  BY DEF RecordBundle, chainVars, taskVars, sentVars
<1>2. row' \in [Bundles -> Rows]
  BY <1>1, SMTT(30) DEF Shape, Rows, Observations
<1>3. \A a \in Bundles : row'[a].included = row[a].included /\ row'[a].block = row[a].block
  BY <1>1 DEF Shape, Rows
<1>4. Shape'
  BY <1>1, <1>2 DEF Shape
<1>5. ChainInv' /\ ReceiptInv'
  BY <1>1, ChainStays DEF ReceiptInv, Height
<1>6. PassInv'
  <2>1. \A i \in 1 .. Len(todo) : todo[i] \in Bundles
    BY DEF Shape
  <2>2. QED
    BY <1>1, <1>3, <2>1 DEF PassInv, AtFinality
<1>7. InclusionInv'
  BY <1>1, <1>3 DEF InclusionInv, Settled
<1>8. QED
  BY <1>4, <1>5, <1>6, <1>7

(* A mark takes rows and outcomes back, and gives none. *)
LEMMA RecordReorgEffect ==
    ASSUME Shape, NEW R, RecordReorg(R)
    PROVE  /\ row' \in [Bundles -> Rows]
           /\ outcome' \in [Bundles -> [block : Nat, canonical : BOOLEAN]]
           /\ \A b \in Bundles :
                 /\ row'[b] = row[b]
                       \/ (/\ row[b].block \in R
                           /\ row'[b].included = "null" /\ row'[b].state = "reorged_pending")
                 /\ outcome'[b] = outcome[b] \/ outcome'[b].canonical = FALSE
<1>1. PICK done \in IF "db_write" \in Faults /\ R # {} THEN 0 .. 3 ELSE {3} :
          /\ outcome' = [b \in Bundles |->
                IF done > 0 /\ outcome[b].block \in R
                THEN [outcome[b] EXCEPT !.canonical = FALSE] ELSE outcome[b]]
          /\ row' = [b \in Bundles |->
                IF done > 1 /\ row[b].block \in R
                THEN [row[b] EXCEPT !.state = "reorged_pending", !.included = "null"]
                ELSE row[b]]
          /\ reservation' = [b \in Bundles |->
                IF done > 2 /\ row[b].block \in R THEN "reorged"
                ELSE reservation[b]]
  BY Zenon DEF RecordReorg
<1>2. ASSUME NEW b \in Bundles
      PROVE  /\ [row[b] EXCEPT !.state = "reorged_pending", !.included = "null"] \in Rows
             /\ [row[b] EXCEPT !.state = "reorged_pending", !.included = "null"].included = "null"
             /\ [row[b] EXCEPT !.state = "reorged_pending", !.included = "null"].state
                    = "reorged_pending"
             /\ [outcome[b] EXCEPT !.canonical = FALSE] \in [block : Nat, canonical : BOOLEAN]
             /\ [outcome[b] EXCEPT !.canonical = FALSE].canonical = FALSE
             /\ row[b] \in Rows /\ outcome[b] \in [block : Nat, canonical : BOOLEAN]
  BY ZenonT(60) DEF Shape, Rows, Observations
<1>3. QED
  BY <1>1, <1>2

(* The heads show no block to be discarded that a verdict rests on. *)
LEMMA ShownIsYoung ==
    ASSUME IInv, NEW n \in Nat, n >= 1, n < top, n + MaxReorg <= top, n < lastHead.number,
           NEW parent
    PROVE  n \notin Discarded(Tip, parent)
<1>1. n < Height
  BY SettledInChain DEF IInv
<1>2. lastHead.number \in Nat /\ Height \in Nat /\ Tip.number = Height
  BY DEF IInv, Shape, Height, Tip
<1>3. QED
  BY <1>1, <1>2 DEF Discarded

LEMMA OnBlockPreserves ==
    ASSUME IInv, OnBlock
    PROVE  IInv'
<1> USE DEF IInv
<1> DEFINE parent == IF Height > 1 THEN chain[Height - 1].id ELSE 0
           R      == Discarded(Tip, parent)
<1>1. /\ RecordReorg(R) /\ lastHead' = Tip
      /\ recPc' = (IF recPc = "idle" THEN "list" ELSE recPc)
      /\ recHead' = (IF recPc = "idle" THEN Height ELSE recHead)
      /\ UNCHANGED <<chain, nextId, top, sent, target, loose, todo, got>>
  BY DEF OnBlock, chainVars, sentVars
<1> HIDE DEF R
<1>2. /\ row' \in [Bundles -> Rows]
      /\ outcome' \in [Bundles -> [block : Nat, canonical : BOOLEAN]]
      /\ \A b \in Bundles :
            /\ row'[b] = row[b] \/ (row[b].block \in R /\ row'[b].included = "null")
            /\ outcome'[b] = outcome[b] \/ outcome'[b].canonical = FALSE
  BY <1>1, RecordReorgEffect
<1>3. /\ Height \in Nat /\ top \in Nat /\ MaxReorg \in Nat /\ recHead \in Nat
      /\ Height \in 1 .. Len(chain)
      /\ Tip.number = Height /\ Tip.id = chain[Height].id
  BY ConstantsAssumption DEF Shape, Height, Tip, ChainInv
<1>4. Tip \in [number : Nat \ {0}, id : Nat]
  <2>1. chain[Height] \in Blocks
    BY <1>3 DEF Shape
  <2>2. QED
    BY <1>3, <2>1 DEF Tip, Blocks
<1>5. Shape'
  BY <1>1, <1>2, <1>3, <1>4 DEF Shape
<1>6. ChainInv' /\ ReceiptInv'
  BY <1>1, ChainStays DEF ReceiptInv, Height
<1>7. PassInv'
  <2>1. \A i \in 1 .. Len(todo) : todo[i] \in Bundles /\ row'[todo[i]].included = "null"
    BY <1>2 DEF Shape, PassInv
  <2>2. recHead' <= top
    BY <1>1, <1>3 DEF PassInv, ChainInv
  <2>3. recHead' <= lastHead'.number \/ recHead' < lastHead'.number + MaxReorg
    BY <1>1, <1>3 DEF PassInv, ChainInv
  <2>4. recPc' = "canonical" => recPc = "canonical" /\ recHead' = recHead
    BY <1>1
  <2>5. QED
    BY <1>1, <2>1, <2>2, <2>3, <2>4 DEF PassInv, AtFinality
<1>8. InclusionInv'
  <2>1. ASSUME NEW b \in Bundles, row'[b].included = "yes"
        PROVE  (Settled(b, row[b].block) /\ row[b].block < lastHead.number)'
    <3>1. row'[b] = row[b]
      BY <1>2, <2>1
    <3>2. Settled(b, row[b].block) /\ row[b].block \in Nat
      BY <2>1, <3>1 DEF InclusionInv, Shape, Rows
    <3>3. row[b].block < Height
      BY <3>2, SettledInChain DEF Settled
    <3>4. QED
      BY <1>1, <1>3, <3>1, <3>2, <3>3 DEF Settled
  <2>2. ASSUME NEW b \in Bundles, outcome'[b].canonical
        PROVE  Settled(b, outcome[b].block)'
    BY <1>1, <1>2, <2>2 DEF InclusionInv, Settled
  <2>3. QED
    BY <2>1, <2>2 DEF InclusionInv
<1>9. QED
  BY <1>5, <1>6, <1>7, <1>8

LEMMA ListBundlesPreserves ==
    ASSUME IInv, ListBundles
    PROVE  IInv'
<1> USE DEF IInv
<1>1. PICK page \in Pages({b \in Bundles : Unsettled(b)}) :
          todo' \in Ordered({b \in page : ~Waiting(b)})
  BY DEF ListBundles
<1>2. /\ recPc = "list" /\ recPc' = "receipts"
      /\ UNCHANGED <<chain, nextId, top, sent, target, loose, row, outcome, lastHead,
                     recHead, got>>
  BY DEF ListBundles, chainVars, sentVars, rowVars
<1> DEFINE listed == {b \in page : ~Waiting(b)}
<1>3. listed \subseteq Bundles /\ \A b \in listed : row[b].included = "null"
  BY DEF Pages, Unsettled
<1>4. Cardinality(listed) \in Nat
  BY <1>3, ConstantsAssumption, FS_Subset, FS_CardinalityType
<1> HIDE DEF listed
<1>5. /\ todo' \in [1 .. Cardinality(listed) -> listed]
      /\ \A i, j \in 1 .. Cardinality(listed) : i # j => todo'[i] # todo'[j]
  BY <1>1 DEF Ordered, SetToSeqs, listed
<1>6. todo' \in Seq(Bundles) /\ Len(todo') = Cardinality(listed)
  BY <1>3, <1>4, <1>5
<1>7. Shape'
  BY <1>2, <1>6 DEF Shape
<1>8. ChainInv' /\ ReceiptInv'
  BY <1>2, ChainStays DEF ReceiptInv, Height
<1>9. PassInv'
  BY <1>2, <1>3, <1>5, <1>6 DEF PassInv
<1>10. InclusionInv'
  BY <1>2 DEF InclusionInv, Settled
<1>11. QED
  BY <1>7, <1>8, <1>9, <1>10

LEMMA FetchReceiptsPreserves ==
    ASSUME IInv, FetchReceipts
    PROVE  IInv'
<1> USE DEF IInv
<1>1. /\ recPc' = "bundles"
      /\ UNCHANGED <<chain, nextId, top, sent, target, loose, row, outcome, lastHead,
                     recHead, todo>>
      /\ recPc = "receipts"
  BY DEF FetchReceipts, chainVars, sentVars, rowVars
<1>2. PICK lost \in IF "rpc" \in Faults THEN SUBSET (ToSet(todo) \X (1 .. Legs)) ELSE {{}} :
          got' = [b \in Bundles |->
             IF b \in ToSet(todo) THEN {r \in ReceiptsOf(b) : <<b, r.leg>> \notin lost} ELSE {}]
  BY Zenon DEF FetchReceipts
<1>3. \A b \in Bundles : got'[b] \subseteq ReceiptsOf(b) /\ ReceiptsOf(b) \subseteq Receipts
  BY <1>2, ReceiptsOfChain
<1>4. Shape'
  <2>1. got' \in [Bundles -> SUBSET Receipts]
    BY <1>2, <1>3
  <2>2. QED
    BY <1>1, <2>1 DEF Shape
<1>5. ReceiptInv'
  <2>1. ASSUME NEW b \in Bundles, NEW r \in got'[b]
        PROVE  /\ r.number >= 1 /\ r.id < nextId
               /\ r.number <= Height /\ chain[r.number].id = r.id
                     => <<b, r.leg>> \in chain[r.number].txs
    <3>1. r \in ReceiptsOf(b)
      BY <1>3
    <3>2. /\ r.number \in 1 .. Height /\ r.id = chain[r.number].id
          /\ <<b, r.leg>> \in chain[r.number].txs
      BY <3>1, ReceiptsOfChain
    <3>3. QED
      BY <3>2 DEF ChainInv
  <2>2. QED
    BY <1>1, <2>1 DEF ReceiptInv, Height
<1>6. ChainInv' /\ PassInv' /\ InclusionInv'
  BY <1>1, ChainStays DEF PassInv, InclusionInv, Settled
<1>7. QED
  BY <1>4, <1>5, <1>6

-----------------------------------------------------------------------------
(* Settling a bundle *)

(* The pass goes on to the next bundle, having written the row of this one.  *)
LEMMA NextBundlePreserves ==
    ASSUME IInv, todo # <<>>, NextBundle, recPc # "idle", recPc' = "bundles",
           UNCHANGED <<chain, nextId, top, sent, target, loose, lastHead, recHead, got>>,
           row' \in [Bundles -> Rows],
           outcome' \in [Bundles -> [block : Nat, canonical : BOOLEAN]],
           \A c \in Bundles : c # Head(todo) => row'[c] = row[c],
           InclusionInv'
    PROVE  IInv'
<1> USE DEF IInv
<1>1. /\ todo' = Tail(todo) /\ todo \in Seq(Bundles) /\ todo' \in Seq(Bundles)
      /\ Len(todo) \in Nat /\ Len(todo') = Len(todo) - 1
      /\ \A i \in 1 .. Len(todo') : todo'[i] = todo[i + 1]
      /\ Head(todo) = todo[1] /\ Len(todo) >= 1
  BY HeadTailProperties DEF NextBundle, Shape
<1>2. Shape'
  BY <1>1 DEF Shape
<1>3. ChainInv' /\ ReceiptInv'
  BY ChainStays DEF ReceiptInv, Height
<1>4. PassInv'
  <2>1. \A i \in 1 .. Len(todo') : i + 1 \in 1 .. Len(todo) /\ i + 1 # 1
    BY <1>1
  <2>2. \A i, j \in 1 .. Len(todo') : i # j => todo'[i] # todo'[j]
    <3>1. \A i, j \in 1 .. Len(todo') : i # j => i + 1 # j + 1
      OBVIOUS
    <3>2. QED
      BY <1>1, <2>1, <3>1 DEF PassInv
  <2>3. ASSUME NEW i \in 1 .. Len(todo')
        PROVE  row'[todo'[i]].included = "null"
    <3>1. todo[i + 1] # todo[1] /\ todo[i + 1] \in Bundles /\ row[todo[i + 1]].included = "null"
      BY <1>1, <2>1 DEF PassInv
    <3>2. QED
      BY <1>1, <3>1
  <2>4. QED
    BY <2>2, <2>3 DEF PassInv
<1>5. QED
  BY <1>2, <1>3, <1>4

LEMMA HeadIsUnsettled ==
    ASSUME Shape, PassInv, todo # <<>>
    PROVE  Head(todo) \in Bundles /\ row[Head(todo)].included = "null"
<1>1. Len(todo) \in Nat /\ Len(todo) >= 1 /\ Head(todo) = todo[1] /\ todo[1] \in Bundles
  BY HeadTailProperties DEF Shape
<1>2. QED
  BY <1>1 DEF PassInv

(* What is found without the last hash check is never an inclusion. *)
LEMMA SettleWrites ==
    ASSUME Shape, NEW b \in Bundles, NEW R \in SUBSET Receipts,
           SettleMissing(b, R) \/ SettleIncoherent(b, R) \/ SettleIncluded(b, R)
    PROVE  /\ row' \in [Bundles -> Rows] /\ outcome' = outcome
           /\ \A c \in Bundles : c # b => row'[c] = row[c]
           /\ row'[b].included # "yes" \/ row'[b].included = row[b].included
<1>1. FirstBlock(R) \in Nat
  BY FirstBlockType
<1>2. ASSUME NEW state \in {"pending", "partial_unfinalized", "included_unfinalized",
                            "incoherent_unfinalized"},
             Observe(b, state, FirstBlock(R))
      PROVE  /\ row' \in [Bundles -> Rows] /\ outcome' = outcome
             /\ \A c \in Bundles : c # b => row'[c] = row[c]
             /\ row'[b].included = row[b].included
  <2> DEFINE fresh == IF FirstBlock(R) = 0 THEN row[b].block ELSE FirstBlock(R)
             new   == [[row[b] EXCEPT !.state = state] EXCEPT !.block = fresh]
  <2>1. row[b] \in Rows /\ state \in Observations
    BY DEF Shape, Observations
  <2>2. fresh \in Nat
    BY <1>1, <2>1 DEF Rows
  <2>3. row' = [row EXCEPT ![b] = new]
    BY <1>2 DEF Observe, Shape
  <2> HIDE DEF fresh
  <2>4. new \in Rows /\ new.included = row[b].included
    BY <2>1, <2>2 DEF Rows
  <2> HIDE DEF new
  <2>5. QED
    BY <1>2, <2>3, <2>4 DEF Observe, Shape
<1>3. ASSUME NEW state \in {"finalized_partial_inclusion", "finalized_incoherent_inclusion"},
             Finalize(b, state, "no", FirstBlock(R))
      PROVE  /\ row' \in [Bundles -> Rows] /\ outcome' = outcome
             /\ \A c \in Bundles : c # b => row'[c] = row[c]
             /\ row'[b].included = "no"
  <2>1. [state |-> state, included |-> "no", block |-> FirstBlock(R)] \in Rows
    BY <1>1 DEF Rows, Verdicts
  <2>2. QED
    BY <1>3, <2>1 DEF Finalize, Shape
<1>4. ASSUME NotIncluded(b)
      PROVE  /\ row' \in [Bundles -> Rows] /\ outcome' = outcome
             /\ \A c \in Bundles : c # b => row'[c] = row[c]
             /\ row'[b].included = "no"
  <2> DEFINE new == [[row[b] EXCEPT !.state = "finalized_not_included"] EXCEPT !.included = "no"]
  <2>1. row' = [row EXCEPT ![b] = new]
    BY <1>4 DEF NotIncluded, Shape
  <2>2. row[b] \in Rows
    BY DEF Shape
  <2>3. new \in Rows /\ new.included = "no"
    BY <2>2 DEF Rows, Verdicts
  <2> HIDE DEF new
  <2>4. QED
    BY <1>4, <2>1, <2>3 DEF NotIncluded, Shape
<1>5. ASSUME UNCHANGED rowVars
      PROVE  row' = row /\ outcome' = outcome
  BY <1>5 DEF rowVars
<1>6. CASE SettleMissing(b, R)
  <2>1. \/ \E state \in {"pending", "partial_unfinalized"} : Observe(b, state, FirstBlock(R))
        \/ NotIncluded(b)
        \/ Finalize(b, "finalized_partial_inclusion", "no", FirstBlock(R))
        \/ UNCHANGED rowVars
    <3>1. CASE R = {}
      BY <1>6, <3>1 DEF SettleMissing, MayFail
    <3>2. CASE R # {}
      BY <1>6, <3>2 DEF SettleMissing, MayFail
    <3>3. QED
      BY <3>1, <3>2
  <2>2. QED
    BY <1>2, <1>3, <1>4, <1>5, <2>1 DEF Shape
<1>7. CASE SettleIncoherent(b, R)
  <2>1. \/ Observe(b, "incoherent_unfinalized", FirstBlock(R))
        \/ Finalize(b, "finalized_incoherent_inclusion", "no", FirstBlock(R))
        \/ UNCHANGED rowVars
    BY <1>7 DEF SettleIncoherent, MayFail
  <2>2. QED
    BY <1>2, <1>3, <1>5, <2>1 DEF Shape
<1>8. CASE SettleIncluded(b, R)
  <2>1. Observe(b, "included_unfinalized", FirstBlock(R)) \/ UNCHANGED rowVars
    BY <1>8 DEF SettleIncluded, MayFail
  <2>2. QED
    BY <1>2, <1>5, <2>1 DEF Shape
<1>9. QED
  BY <1>6, <1>7, <1>8

LEMMA SettleBundlePreserves ==
    ASSUME IInv, SettleBundle
    PROVE  IInv'
<1> USE DEF IInv
<1> DEFINE b == Head(todo)
<1>1. /\ recPc = "bundles" /\ recPc' = "bundles" /\ todo # <<>> /\ NextBundle
      /\ SettleMissing(b, got[b]) \/ SettleIncoherent(b, got[b]) \/ SettleIncluded(b, got[b])
      /\ UNCHANGED <<chain, nextId, top, sent, target, loose, lastHead, recHead, got>>
  BY DEF SettleBundle, chainVars, sentVars
<1>2. b \in Bundles /\ row[b].included = "null"
  BY <1>1, HeadIsUnsettled
<1>3. got[b] \in SUBSET Receipts
  BY <1>2 DEF Shape
<1> HIDE DEF b
<1>4. /\ row' \in [Bundles -> Rows] /\ outcome' = outcome
      /\ \A c \in Bundles : c # b => row'[c] = row[c]
      /\ row'[b].included # "yes"
  BY <1>1, <1>2, <1>3, SettleWrites
<1>5. InclusionInv'
  <2>1. \A c \in Bundles : row'[c].included = "yes" => row'[c] = row[c]
    BY <1>4
  <2>2. QED
    BY <1>1, <1>4, <2>1 DEF InclusionInv, Settled
<1>6. outcome' \in [Bundles -> [block : Nat, canonical : BOOLEAN]]
  BY <1>4 DEF Shape
<1>7. QED
  BY <1>1, <1>4, <1>5, <1>6, NextBundlePreserves DEF b

LEMMA AskCanonicalPreserves ==
    ASSUME IInv, AskCanonical
    PROVE  IInv'
<1> USE DEF IInv
<1>1. /\ recPc' = "canonical" /\ recPc = "bundles" /\ todo # <<>>
      /\ Complete(got[Head(todo)]) /\ Coherent(got[Head(todo)])
      /\ AtFinality(FirstBlock(got[Head(todo)]))
      /\ UNCHANGED <<chain, nextId, top, sent, target, loose, row, outcome, lastHead, recHead,
                     todo, got>>
  BY DEF AskCanonical, chainVars, sentVars, rowVars
<1>2. Shape'
  BY <1>1 DEF Shape
<1>3. ChainInv' /\ ReceiptInv' /\ InclusionInv'
  BY <1>1, ChainStays DEF ReceiptInv, Height, InclusionInv, Settled
<1>4. PassInv'
  BY <1>1 DEF PassInv, AtFinality
<1>5. QED
  BY <1>2, <1>3, <1>4

LEMMA ReconcileDonePreserves ==
    ASSUME IInv, ReconcileDone
    PROVE  IInv'
<1> USE DEF IInv
<1>1. /\ recPc' = "idle" /\ recHead' = 0 /\ got' = [b \in Bundles |-> {}]
      /\ UNCHANGED <<chain, nextId, top, sent, target, loose, row, outcome, lastHead, todo>>
  BY DEF ReconcileDone, chainVars, sentVars, rowVars
<1>2. Shape'
  BY <1>1 DEF Shape
<1>3. ChainInv' /\ ReceiptInv' /\ InclusionInv'
  BY <1>1, ChainStays DEF ReceiptInv, Height, InclusionInv, Settled
<1>4. PassInv'
  BY <1>1 DEF PassInv, Shape
<1>5. QED
  BY <1>2, <1>3, <1>4

LEMMA RestartPreserves ==
    ASSUME IInv, Restart
    PROVE  IInv'
<1> USE DEF IInv
<1>1. /\ recPc' = "idle" /\ recHead' = 0 /\ todo' = <<>> /\ got' = [b \in Bundles |-> {}]
      /\ lastHead' = Tip
      /\ UNCHANGED <<chain, nextId, top, sent, target, loose, row, outcome>>
  BY DEF Restart, chainVars, sentVars
<1>2. Height \in Nat /\ Height \in 1 .. Len(chain) /\ Tip.number = Height
  BY DEF Shape, Height, Tip, ChainInv
<1>3. Tip \in [number : Nat \ {0}, id : Nat]
  <2>1. chain[Height] \in Blocks
    BY <1>2 DEF Shape
  <2>2. QED
    BY <1>2, <2>1 DEF Tip, Blocks
<1>4. Shape'
  BY <1>1, <1>3 DEF Shape
<1>5. ChainInv' /\ ReceiptInv'
  BY <1>1, ChainStays DEF ReceiptInv, Height
<1>6. PassInv'
  BY <1>1 DEF PassInv, Shape
<1>7. InclusionInv'
  <2>1. \A b \in Bundles : row[b].included = "yes" => row[b].block < Height
    <3>1. ASSUME NEW b \in Bundles, row[b].included = "yes"
          PROVE  row[b].block < Height
      <4>1. Settled(b, row[b].block) /\ row[b].block \in Nat
        BY <3>1 DEF InclusionInv, Shape, Rows
      <4>2. QED
        BY <4>1, SettledInChain DEF Settled
    <3>2. QED
      BY <3>1
  <2>2. QED
    BY <1>1, <1>2, <2>1 DEF InclusionInv, Settled
<1>8. QED
  BY <1>4, <1>5, <1>6, <1>7

(* The receipts of the last check prove a block out of reach: the node says   *)
(* the hash is still canonical, and the chain has since seen the head at the *)
(* finality depth above it.                                                 *)
LEMMA CanonicalIsSettled ==
    ASSUME IInv, recPc = "canonical", StillCanonical(got[Head(todo)])
    PROVE  /\ Head(todo) \in Bundles
           /\ FirstBlock(got[Head(todo)]) \in Nat
           /\ Settled(Head(todo), FirstBlock(got[Head(todo)]))
           /\ FirstBlock(got[Head(todo)]) < lastHead.number
<1> USE DEF IInv
<1> DEFINE b == Head(todo)
           R == got[b]
           n == FirstBlock(R)
<1>1. b \in Bundles /\ Complete(R) /\ Coherent(R) /\ AtFinality(n)
  BY HeadIsUnsettled DEF PassInv
<1>2. R \in SUBSET Receipts
  BY <1>1 DEF Shape
<1>3. /\ n \in Nat /\ (CHOOSE r \in R : TRUE) \in R
      /\ \A r \in R : r.number = n
      /\ \A l \in 1 .. Legs : \E r \in R : r.leg = l
  BY <1>1, <1>2, FirstBlockOfComplete
<1>4. PICK r0 \in R : r0.number <= Height /\ chain[r0.number].id = r0.id
  BY <1>3 DEF StillCanonical
<1>5. \A r \in R : r.id = r0.id
  BY <1>1 DEF Coherent
<1> HIDE DEF n, R, b
<1>6. n <= Height /\ n >= 1 /\ \A r \in R : chain[r.number].id = r.id
  <2>1. r0.number = n /\ r0.number >= 1
    BY <1>1, <1>3, <1>4 DEF ReceiptInv, R
  <2>2. QED
    BY <1>3, <1>4, <1>5, <2>1
<1>7. ASSUME NEW l \in 1 .. Legs PROVE <<b, l>> \in chain[n].txs
  <2>1. PICK r \in R : r.leg = l
    BY <1>3
  <2>2. r.number = n /\ r.number <= Height /\ chain[r.number].id = r.id
    BY <1>3, <1>6
  <2>3. <<b, r.leg>> \in chain[r.number].txs
    BY <1>1, <2>2 DEF ReceiptInv, R
  <2>4. QED
    BY <2>1, <2>2, <2>3
<1>8. BundleTxs(b) \subseteq chain[n].txs
  BY <1>7 DEF BundleTxs
<1>9. /\ recHead \in Nat /\ top \in Nat /\ MaxReorg \in Nat /\ FinalityDepth \in Nat
      /\ FinalityDepth >= 1 /\ FinalityDepth >= MaxReorg /\ lastHead.number \in Nat
  BY ConstantsAssumption DEF Shape
<1>10. recHead >= n + FinalityDepth /\ recHead <= top
       /\ (recHead <= lastHead.number \/ recHead < lastHead.number + MaxReorg)
  BY <1>1 DEF PassInv, AtFinality
<1>11. n < top /\ n + MaxReorg <= top /\ n < lastHead.number
  BY <1>3, <1>9, <1>10
<1>12. QED
  BY <1>1, <1>3, <1>6, <1>8, <1>11 DEF Settled, n, R, b

LEMMA CanonicalWrites ==
    ASSUME Shape, NEW b \in Bundles, b = Head(todo), Canonical(b), got[b] \in SUBSET Receipts
    PROVE  /\ row' \in [Bundles -> Rows]
           /\ outcome' \in [Bundles -> [block : Nat, canonical : BOOLEAN]]
           /\ \A c \in Bundles : c # b => row'[c] = row[c] /\ outcome'[c] = outcome[c]
           /\ row'[b].included = "yes" =>
                 \/ row'[b] = row[b]
                 \/ StillCanonical(got[b]) /\ row'[b].block = FirstBlock(got[b])
           /\ outcome'[b].canonical =>
                 \/ outcome'[b] = outcome[b]
                 \/ StillCanonical(got[b]) /\ outcome'[b].block = FirstBlock(got[b])
<1> DEFINE n == FirstBlock(got[b])
<1>1. n \in Nat
  BY FirstBlockType
<1> HIDE DEF n
<1>2. \/ StillCanonical(got[b]) /\ RecordOutcome(b, n)
      \/ /\ StillCanonical(got[b])
         /\ Finalize(b, "finalized_missing_executor_evidence", "yes", n)
      \/ Finalize(b, "finalized_noncanonical", "no", n)
      \/ UNCHANGED rowVars
  BY DEF Canonical, MayFail, n
<1>3. CASE StillCanonical(got[b]) /\ RecordOutcome(b, n)
  <2>1. /\ [state |-> "finalized_included", included |-> "yes", block |-> n] \in Rows
        /\ [block |-> n, canonical |-> TRUE] \in [block : Nat, canonical : BOOLEAN]
    BY <1>1 DEF Rows, Verdicts
  <2>2. QED
    BY <1>3, <2>1 DEF RecordOutcome, Shape, n
<1>4. CASE /\ StillCanonical(got[b])
           /\ Finalize(b, "finalized_missing_executor_evidence", "yes", n)
  <2>1. [state |-> "finalized_missing_executor_evidence", included |-> "yes", block |-> n]
           \in Rows
    BY <1>1 DEF Rows, Verdicts
  <2>2. QED
    BY <1>4, <2>1 DEF Finalize, Shape, n
<1>5. CASE Finalize(b, "finalized_noncanonical", "no", n)
  <2>1. [state |-> "finalized_noncanonical", included |-> "no", block |-> n] \in Rows
    BY <1>1 DEF Rows, Verdicts
  <2>2. QED
    BY <1>5, <2>1 DEF Finalize, Shape
<1>6. CASE UNCHANGED rowVars
  BY <1>6 DEF rowVars, Shape
<1>7. QED
  BY <1>2, <1>3, <1>4, <1>5, <1>6

LEMMA CanonicalPreserves ==
    ASSUME IInv, NEW b \in Bundles, Canonical(b)
    PROVE  IInv'
<1> USE DEF IInv
<1>1. /\ recPc = "canonical" /\ recPc' = "bundles" /\ b = Head(todo) /\ NextBundle
      /\ UNCHANGED <<chain, nextId, top, sent, target, loose, lastHead, recHead, got>>
  BY DEF Canonical, chainVars, sentVars
<1>2. todo # <<>> /\ got[b] \in SUBSET Receipts
  BY <1>1 DEF PassInv, Shape
<1>3. /\ row' \in [Bundles -> Rows]
      /\ outcome' \in [Bundles -> [block : Nat, canonical : BOOLEAN]]
      /\ \A c \in Bundles : c # b => row'[c] = row[c] /\ outcome'[c] = outcome[c]
      /\ row'[b].included = "yes" =>
            \/ row'[b] = row[b]
            \/ StillCanonical(got[b]) /\ row'[b].block = FirstBlock(got[b])
      /\ outcome'[b].canonical =>
            \/ outcome'[b] = outcome[b]
            \/ StillCanonical(got[b]) /\ outcome'[b].block = FirstBlock(got[b])
  BY <1>1, <1>2, CanonicalWrites
<1>4. StillCanonical(got[b]) => /\ Settled(b, FirstBlock(got[b]))
                                /\ FirstBlock(got[b]) < lastHead.number
  BY <1>1, CanonicalIsSettled
<1>5. InclusionInv'
  <2>1. ASSUME NEW c \in Bundles, row'[c].included = "yes"
        PROVE  (Settled(c, row[c].block) /\ row[c].block < lastHead.number)'
    <3>1. CASE row'[c] = row[c]
      BY <1>1, <2>1, <3>1 DEF InclusionInv, Settled
    <3>2. CASE row'[c] # row[c]
      <4>1. c = b /\ StillCanonical(got[b]) /\ row'[c].block = FirstBlock(got[b])
        BY <1>3, <2>1, <3>2
      <4>2. QED
        BY <1>1, <1>4, <4>1 DEF Settled
    <3>3. QED
      BY <3>1, <3>2
  <2>2. ASSUME NEW c \in Bundles, outcome'[c].canonical
        PROVE  Settled(c, outcome[c].block)'
    <3>1. CASE outcome'[c] = outcome[c]
      BY <1>1, <2>2, <3>1 DEF InclusionInv, Settled
    <3>2. CASE outcome'[c] # outcome[c]
      <4>1. c = b /\ StillCanonical(got[b]) /\ outcome'[c].block = FirstBlock(got[b])
        BY <1>3, <2>2, <3>2
      <4>2. QED
        BY <1>1, <1>4, <4>1 DEF Settled
    <3>3. QED
      BY <3>1, <3>2
  <2>3. QED
    BY <2>1, <2>2 DEF InclusionInv
<1>6. QED
  BY <1>1, <1>2, <1>3, <1>5, NextBundlePreserves

-----------------------------------------------------------------------------
(* The theorems *)

LEMMA InitEstablishes == Init => IInv
<1> SUFFICES ASSUME Init PROVE IInv
  OBVIOUS
<1>1. Len(chain) = 1 /\ chain[1] = [id |-> 1, txs |-> {}, bad |-> {}]
      /\ chain \in Seq(Blocks)
  BY DEF Init, Blocks
<1>2. Height = 1 /\ Tip = [number |-> 1, id |-> 1]
  BY <1>1 DEF Height, Tip
<1>3. Shape
  BY <1>1, <1>2 DEF Init, Shape, Rows
<1>4. ChainInv
  BY <1>1, <1>2 DEF Init, ChainInv
<1>5. ReceiptInv /\ PassInv /\ InclusionInv
  BY DEF Init, ReceiptInv, PassInv, InclusionInv
<1>6. QED
  BY <1>3, <1>4, <1>5 DEF IInv

LEMMA StepPreserves == IInv /\ [Next]_vars => IInv'
<1> SUFFICES ASSUME IInv, [Next]_vars PROVE IInv'
  OBVIOUS
<1>1. CASE Mine \/ Reorg
  BY <1>1, ChainStepPreserves
<1>2. CASE OnBlock
  BY <1>2, OnBlockPreserves
<1>3. CASE Reconciling
  BY <1>3, ListBundlesPreserves, FetchReceiptsPreserves, SettleBundlePreserves,
     AskCanonicalPreserves, CanonicalPreserves, ReconcileDonePreserves DEF Reconciling
<1>4. CASE Restart
  BY <1>4, RestartPreserves
<1>5. CASE \E b \in Bundles : Send(b) \/ RecordBundle(b)
  BY <1>5, SendPreserves, RecordBundlePreserves
<1>6. CASE UNCHANGED vars
  BY <1>6 DEF vars, IInv, Shape, ChainInv, ReceiptInv, PassInv, InclusionInv, Settled, Height,
     AtFinality
<1>7. QED
  BY <1>1, <1>2, <1>3, <1>4, <1>5, <1>6 DEF Next

(* The invariant holds in every reachable state, whatever faults there are. *)
THEOREM SettlementInvariance == Spec => []IInv
  BY InitEstablishes, StepPreserves, PTL DEF Spec

(* An outcome that counts in the profit stays in the canonical chain, in the   *)
(* block it names (store.rs 1133-1196, 1460-1523).                          *)
THEOREM OutcomesStayCanonical == Spec => []OutcomesAreCanonical
<1>1. IInv => OutcomesAreCanonical
  <2> SUFFICES ASSUME IInv, NEW b \in Bundles, outcome[b].canonical
               PROVE  /\ outcome[b].block <= Height
                      /\ BundleTxs(b) \subseteq chain[outcome[b].block].txs
    BY DEF OutcomesAreCanonical
  <2>1. Settled(b, outcome[b].block) /\ outcome[b].block \in Nat
    BY DEF IInv, InclusionInv, Shape
  <2>2. outcome[b].block \in 1 .. Height
    BY <2>1, SettledInChain DEF IInv, Settled
  <2>3. QED
    BY <2>1, <2>2 DEF Settled
<1>2. QED
  BY <1>1, SettlementInvariance, PTL

(* A pass that still holds old receipts writes only rows it found unsettled,  *)
(* and no reorganisation the heads can show reaches a block that was found   *)
(* to include a bundle (attribution.rs 36-231, store.rs 1133-1196).          *)
THEOREM VerdictsAreFinal == Spec => VerdictIsFinal
<1> DEFINE Kept == \A b \in Bundles :
                      /\ row[b].included = "yes" => row'[b] = row[b]
                      /\ row[b].included = "no" =>
                            row'[b] = row[b] \/ row'[b].state = "reorged_pending"
<1>1. IInv /\ [Next]_vars => Kept
  <2> SUFFICES ASSUME IInv, [Next]_vars PROVE Kept
    OBVIOUS
  <2>1. CASE OnBlock
    <3> DEFINE parent == IF Height > 1 THEN chain[Height - 1].id ELSE 0
               R      == Discarded(Tip, parent)
    <3>1. RecordReorg(R)
      BY <2>1 DEF OnBlock
    <3>2. \A b \in Bundles : row[b].included = "yes" => row[b].block \notin R
      <4>1. ASSUME NEW b \in Bundles, row[b].included = "yes"
            PROVE  row[b].block \notin R
        <5>1. Settled(b, row[b].block) /\ row[b].block < lastHead.number
              /\ row[b].block \in Nat
          BY <4>1 DEF IInv, InclusionInv, Shape, Rows
        <5>2. QED
          BY <5>1, ShownIsYoung DEF Settled
      <4>2. QED
        BY <4>1
    <3> HIDE DEF R
    <3>3. \A b \in Bundles : row'[b] = row[b] \/ (/\ row[b].block \in R
                                                   /\ row'[b].state = "reorged_pending")
      BY <3>1, RecordReorgEffect DEF IInv
    <3>4. QED
      BY <3>2, <3>3
  <2>2. ASSUME NEW b \in Bundles, row[b].included = "null",
               \A c \in Bundles : c # b => row'[c] = row[c]
        PROVE  Kept
    BY <2>2
  <2>3. CASE SettleBundle
    <3>1. todo # <<>>
      BY <2>3 DEF SettleBundle
    <3>2. Head(todo) \in Bundles /\ row[Head(todo)].included = "null"
      BY <3>1, HeadIsUnsettled DEF IInv
    <3>3. got[Head(todo)] \in SUBSET Receipts
      BY <3>2 DEF IInv, Shape
    <3>4. \A c \in Bundles : c # Head(todo) => row'[c] = row[c]
      BY <2>3, <3>2, <3>3, SettleWrites DEF SettleBundle, IInv
    <3>5. QED
      BY <2>2, <3>2, <3>4
  <2>4. CASE \E b \in Bundles : Canonical(b)
    <3>1. PICK b \in Bundles : Canonical(b)
      BY <2>4
    <3>2. b = Head(todo) /\ todo # <<>> /\ got[b] \in SUBSET Receipts
      BY <3>1 DEF Canonical, IInv, PassInv, Shape
    <3>3. row[b].included = "null"
      BY <3>2, HeadIsUnsettled DEF IInv
    <3>4. \A c \in Bundles : c # b => row'[c] = row[c]
      BY <3>1, <3>2, CanonicalWrites DEF IInv
    <3>5. QED
      BY <2>2, <3>3, <3>4
  <2>5. CASE \E b \in Bundles : RecordBundle(b)
    <3>1. PICK b \in Bundles : RecordBundle(b)
      BY <2>5
    <3>2. row[b].included = "null"
      BY <3>1 DEF RecordBundle, IInv, Shape, Rows
    <3>3. QED
      BY <2>2, <3>1, <3>2 DEF RecordBundle, IInv, Shape
  <2>6. CASE UNCHANGED row
    BY <2>6
  <2>7. QED
    BY <2>1, <2>3, <2>4, <2>5, <2>6 DEF Next, Mine, Reorg, Reconciling, ListBundles,
       FetchReceipts, AskCanonical, ReconcileDone, Restart, Send, rowVars, vars
<1>2. QED
  BY <1>1, SettlementInvariance, PTL DEF VerdictIsFinal, Spec

-----------------------------------------------------------------------------
(***************************************************************************)
(* A verdict is the truth about the canonical chain, for any bundles, chain  *)
(* and finality depth that satisfy ConstantsAssumption, as long as the node *)
(* answers and a bundle is not of public transactions alone.                *)
(***************************************************************************)

NodeAnswers == "rpc" \notin Faults /\ Victims # 1 .. Legs

Listed(b) == \E i \in 1 .. Len(todo) : todo[i] = b

(* Every leg in a block the pass may judge has its receipt ... *)
Receipted(b) ==
    \A n \in 1 .. Height, l \in 1 .. Legs :
        n + MaxReorg <= recHead /\ <<b, l>> \in chain[n].txs
            => \E r \in got[b] : r.leg = l /\ r.number = n

(* ... and every receipt of such a block still names the canonical one. *)
Standing(b) ==
    \A r \in got[b] : r.number + MaxReorg <= recHead
        => r.number <= Height /\ chain[r.number].id = r.id

KnownInv ==
    \A b \in Bundles : Listed(b) =>
        /\ b \in sent
        /\ recPc \in {"bundles", "canonical"} => Receipted(b) /\ Standing(b)

(* No block in which the bundle could still land can be discarded. *)
Past(b) == b \in sent /\ target[b] + Lateness + MaxReorg <= top

Missed(b) ==
    \A n \in 1 .. Height : n <= target[b] + Lateness
        => \A l \in 1 .. Legs : <<b, l>> \notin chain[n].txs

Broken(b) ==
    \A n \in 1 .. Height : n <= target[b] + Lateness => ~(BundleTxs(b) \subseteq chain[n].txs)

VerdictInv ==
    \A b \in Bundles :
        /\ row[b].state # "none" => b \in sent
        /\ row[b].state # "finalized_noncanonical"
        /\ row[b].state = "finalized_not_included" => Past(b) /\ Missed(b)
        /\ row[b].state = "finalized_partial_inclusion" => Past(b) /\ Broken(b)

VInv == KnownInv /\ VerdictInv

-----------------------------------------------------------------------------
(* The chain *)

(* A block MaxReorg below the highest tip is there before and after. *)
LEMMA OldBlocksStay ==
    ASSUME IInv, Mine \/ Reorg, NEW n \in Nat, n >= 1, n + MaxReorg <= top
    PROVE  n \in 1 .. Height /\ n \in 1 .. Height' /\ chain'[n] = chain[n] /\ top' >= top
<1>1. PICK m \in 1 .. Height : m + MaxReorg >= top /\ Extended(m)
  BY ChainExtends DEF IInv
<1>2. Height \in Nat /\ m \in Nat /\ MaxReorg \in Nat /\ top \in Nat
  BY ConstantsAssumption DEF IInv, Shape, Height
<1>3. n \in 1 .. m
  BY <1>1, <1>2
<1>4. Height' = m + 1 /\ top' >= top /\ chain'[n] = chain[n]
  BY <1>1, <1>2, <1>3 DEF Extended, Height
<1>5. QED
  BY <1>2, <1>3, <1>4

LEMMA ChainStepKeepsVerdicts ==
    ASSUME IInv, VInv, Mine \/ Reorg
    PROVE  VInv'
<1>1. UNCHANGED <<sent, target, row, outcome, lastHead, recPc, recHead, todo, got>>
  BY ChainExtends DEF IInv
<1>2. /\ top \in Nat /\ MaxReorg \in Nat /\ Lateness \in Nat /\ recHead \in Nat
      /\ recHead <= top /\ Height' \in Nat /\ Height \in Nat
  <2>1. IInv'
    BY ChainStepPreserves
  <2>2. Shape /\ Shape' /\ recHead <= top
    BY <2>1 DEF IInv, PassInv
  <2>3. Height \in Nat /\ Height' \in Nat
    BY <2>2 DEF Shape, Height
  <2>4. QED
    BY <2>2, <2>3, ConstantsAssumption DEF Shape
<1>3. ASSUME NEW n \in Nat, n >= 1, n + MaxReorg <= top
      PROVE  n \in 1 .. Height /\ n <= Height' /\ chain'[n] = chain[n]
  <2>1. n \in 1 .. Height /\ n \in 1 .. Height' /\ chain'[n] = chain[n]
    BY <1>3, OldBlocksStay
  <2>2. QED
    BY <1>2, <2>1
<1>4. \A n \in 1 .. Height' : n \in Nat /\ n >= 1
  BY <1>2
<1>5. KnownInv'
  <2>1. ASSUME NEW b \in Bundles, Listed(b), recPc \in {"bundles", "canonical"}
        PROVE  (Receipted(b) /\ Standing(b))'
    <3>1. Receipted(b) /\ Standing(b)
      BY <2>1 DEF VInv, KnownInv
    <3>2. Receipted(b)'
      <4>1. ASSUME NEW n \in 1 .. Height', NEW l \in 1 .. Legs, n + MaxReorg <= recHead,
                   <<b, l>> \in chain'[n].txs
            PROVE  \E r \in got[b] : r.leg = l /\ r.number = n
        <5>1. n \in 1 .. Height /\ chain'[n] = chain[n]
          <6>1. n \in Nat /\ n >= 1 /\ n + MaxReorg <= top
            BY <1>2, <4>1
          <6>2. QED
            BY <1>3, <6>1
        <5>2. QED
          BY <3>1, <4>1, <5>1 DEF Receipted
      <4>2. QED
        BY <1>1, <4>1 DEF Receipted
    <3>3. Standing(b)'
      <4>1. ASSUME NEW r \in got[b], r.number + MaxReorg <= recHead
            PROVE  r.number <= Height' /\ chain'[r.number].id = r.id
        <5>1. r.number \in Nat /\ r.number >= 1
          <6>1. r \in Receipts
            BY DEF IInv, Shape
          <6>2. QED
            BY <6>1 DEF IInv, ReceiptInv, Receipts
        <5>2. r.number <= Height' /\ chain'[r.number] = chain[r.number]
          <6>1. r.number + MaxReorg <= top
            BY <1>2, <4>1, <5>1
          <6>2. QED
            BY <1>3, <5>1, <6>1
        <5>3. QED
          BY <3>1, <4>1, <5>2 DEF Standing
      <4>2. QED
        BY <1>1, <4>1 DEF Standing
    <3>4. QED
      BY <3>2, <3>3
  <2>2. QED
    BY <1>1, <2>1 DEF KnownInv, VInv, Listed
<1>6. VerdictInv'
  <2>1. ASSUME NEW b \in Bundles, Past(b)
        PROVE  Past(b)' /\ (Missed(b) => Missed(b)') /\ (Broken(b) => Broken(b)')
    <3>1. target[b] \in Nat /\ target[b] + Lateness + MaxReorg <= top
      BY <2>1 DEF Past, IInv, Shape
    <3>2. top' >= top /\ top' \in Nat
      <4>1. PICK m \in 1 .. Height : m + MaxReorg >= top /\ Extended(m)
        BY ChainExtends DEF IInv
      <4>2. QED
        BY <1>2, <4>1 DEF Extended
    <3>3. Past(b)'
      BY <1>1, <1>2, <2>1, <3>1, <3>2 DEF Past
    <3>4. \A n \in 1 .. Height' : n <= target[b] + Lateness
              => n \in 1 .. Height /\ chain'[n] = chain[n]
      <4>1. \A n \in 1 .. Height' : n <= target[b] + Lateness => n + MaxReorg <= top
        BY <1>2, <3>1
      <4>2. QED
        BY <1>3, <1>4, <4>1
    <3>5. QED
      BY <1>1, <3>3, <3>4 DEF Missed, Broken
  <2>2. QED
    BY <1>1, <2>1 DEF VerdictInv, VInv
<1>7. QED
  BY <1>5, <1>6 DEF VInv

-----------------------------------------------------------------------------
(* Steps that leave the chain alone *)

(* A step that writes rows only, and no verdict that needs a proof. *)
LEMMA RowsKeepVerdicts ==
    ASSUME VInv, UNCHANGED <<chain, top, sent, target>>,
           \A b \in Bundles :
              row'[b] = row[b] \/ (/\ b \in sent
                                  /\ row'[b].state # "finalized_noncanonical"
                                  /\ row'[b].state # "finalized_not_included"
                                  /\ row'[b].state # "finalized_partial_inclusion")
    PROVE  VerdictInv'
<1>1. \A b \in Bundles : /\ Past(b)' <=> Past(b)
                         /\ Missed(b)' <=> Missed(b)
                         /\ Broken(b)' <=> Broken(b)
  BY DEF Past, Missed, Broken, Height
<1>2. QED
  BY <1>1 DEF VInv, VerdictInv

(* The pass drops bundles from its list, or ends. *)
LEMMA PassKeepsKnown ==
    ASSUME VInv, UNCHANGED <<chain, sent, got, recHead>>,
           \A b \in Bundles : Listed(b)' => Listed(b),
           recPc' \in {"bundles", "canonical"} => recPc \in {"bundles", "canonical"}
    PROVE  KnownInv'
<1>1. \A b \in Bundles : /\ Receipted(b)' <=> Receipted(b)
                         /\ Standing(b)' <=> Standing(b)
  BY DEF Receipted, Standing, Height
<1>2. QED
  BY <1>1 DEF VInv, KnownInv

LEMMA NextBundleKeepsKnown ==
    ASSUME IInv, VInv, todo # <<>>, NextBundle, recPc \in {"bundles", "canonical"},
           UNCHANGED <<chain, sent, got, recHead>>
    PROVE  KnownInv'
<1>1. /\ todo' = Tail(todo) /\ Len(todo) \in Nat /\ Len(todo') = Len(todo) - 1
      /\ \A i \in 1 .. Len(todo') : todo'[i] = todo[i + 1]
  BY HeadTailProperties DEF NextBundle, IInv, Shape
<1>2. \A i \in 1 .. Len(todo') : i + 1 \in 1 .. Len(todo)
  BY <1>1
<1>3. \A b \in Bundles : Listed(b)' => Listed(b)
  BY <1>1, <1>2 DEF Listed
<1>4. QED
  BY <1>3, PassKeepsKnown

LEMMA HeadIsListed ==
    ASSUME Shape, todo # <<>>
    PROVE  Head(todo) \in Bundles /\ Listed(Head(todo))
<1>1. Len(todo) \in Nat /\ Len(todo) >= 1 /\ Head(todo) = todo[1] /\ todo[1] \in Bundles
  BY HeadTailProperties DEF Shape
<1>2. QED
  BY <1>1 DEF Listed

LEMMA SendKeepsVerdicts ==
    ASSUME IInv, VInv, NEW b \in Bundles, Send(b)
    PROVE  VInv'
<1>1. /\ b \notin sent /\ sent' = sent \cup {b}
      /\ target' = [target EXCEPT ![b] = lastHead.number + 1]
      /\ UNCHANGED <<chain, top, row, recPc, recHead, todo, got>>
  BY DEF Send, chainVars, taskVars
<1>2. \A c \in sent : target'[c] = target[c]
  BY <1>1 DEF IInv, Shape
<1>3. KnownInv'
  BY <1>1 DEF VInv, KnownInv, Listed, Receipted, Standing, Height
<1>4. VerdictInv'
  <2>1. ASSUME NEW c \in Bundles, c \in sent
        PROVE  (Past(c) => Past(c)') /\ (Missed(c) => Missed(c)') /\ (Broken(c) => Broken(c)')
    <3>1. target'[c] = target[c] /\ c \in sent'
      BY <1>1, <1>2, <2>1
    <3>2. QED
      BY <1>1, <3>1 DEF Past, Missed, Broken, Height
  <2>2. QED
    BY <1>1, <2>1 DEF VInv, VerdictInv, Past
<1>5. QED
  BY <1>3, <1>4 DEF VInv

LEMMA RecordBundleKeepsVerdicts ==
    ASSUME IInv, VInv, NEW b \in Bundles, RecordBundle(b)
    PROVE  VInv'
<1>1. /\ b \in sent /\ row' = [row EXCEPT ![b].state = "pending"]
      /\ UNCHANGED <<chain, top, sent, target, recPc, recHead, todo, got>>
  BY DEF RecordBundle, chainVars, sentVars, taskVars
<1>2. \A c \in Bundles : row'[c] = row[c] \/ (c = b /\ row'[c].state = "pending")
  BY <1>1 DEF IInv, Shape, Rows
<1>3. VerdictInv'
  BY <1>1, <1>2, RowsKeepVerdicts
<1>4. KnownInv'
  BY <1>1, PassKeepsKnown DEF Listed
<1>5. QED
  BY <1>3, <1>4 DEF VInv

LEMMA OnBlockKeepsVerdicts ==
    ASSUME IInv, VInv, OnBlock
    PROVE  VInv'
<1> DEFINE parent == IF Height > 1 THEN chain[Height - 1].id ELSE 0
           R      == Discarded(Tip, parent)
<1>1. /\ RecordReorg(R)
      /\ recPc' = (IF recPc = "idle" THEN "list" ELSE recPc)
      /\ recPc # "idle" => recHead' = recHead
      /\ UNCHANGED <<chain, top, sent, target, todo, got>>
  BY DEF OnBlock, chainVars, sentVars
<1> HIDE DEF R
<1>2. \A b \in Bundles :
         row'[b] = row[b] \/ (row[b].block \in R /\ row'[b].state = "reorged_pending")
  BY <1>1, RecordReorgEffect DEF IInv
<1>3. 0 \notin R
  <2>1. Height \in Nat /\ Height >= 1 /\ Tip.number = Height
    BY DEF IInv, Shape, Height, ChainInv, Tip
  <2>2. lastHead.number \in Nat /\ lastHead.number >= 1
    BY DEF IInv, Shape
  <2>3. QED
    BY <2>1, <2>2 DEF Discarded, R
<1>4. VerdictInv'
  <2>1. \A b \in Bundles : row[b].block \in R => row[b].state # "none"
    BY <1>3 DEF IInv, Shape, Rows
  <2>2. \A b \in Bundles : row[b].block \in R => b \in sent
    BY <2>1 DEF VInv, VerdictInv
  <2>3. QED
    BY <1>1, <1>2, <2>2, RowsKeepVerdicts
<1>5. KnownInv'
  <2>1. CASE recPc = "idle"
    BY <1>1, <2>1 DEF VInv, KnownInv, Listed
  <2>2. CASE recPc # "idle"
    BY <1>1, <2>2, PassKeepsKnown DEF Listed
  <2>3. QED
    BY <2>1, <2>2
<1>6. QED
  BY <1>4, <1>5 DEF VInv

LEMMA ListBundlesKeepsVerdicts ==
    ASSUME IInv, VInv, ListBundles
    PROVE  VInv'
<1>1. PICK page \in Pages({b \in Bundles : Unsettled(b)}) :
          todo' \in Ordered({b \in page : ~Waiting(b)})
  BY DEF ListBundles
<1>2. /\ recPc' = "receipts"
      /\ UNCHANGED <<chain, top, sent, target, row>>
  BY DEF ListBundles, chainVars, sentVars, rowVars
<1> DEFINE listed == {b \in page : ~Waiting(b)}
<1>3. listed \subseteq Bundles /\ \A b \in listed : row[b].state # "none"
  BY DEF Pages, Unsettled
<1>4. Cardinality(listed) \in Nat
  BY <1>3, ConstantsAssumption, FS_Subset, FS_CardinalityType
<1> HIDE DEF listed
<1>5. todo' \in [1 .. Cardinality(listed) -> listed]
  BY <1>1 DEF Ordered, SetToSeqs, listed
<1>6. Len(todo') = Cardinality(listed)
  BY <1>4, <1>5
<1>7. \A b \in Bundles : Listed(b)' => b \in sent
  BY <1>3, <1>5, <1>6 DEF Listed, VInv, VerdictInv
<1>8. KnownInv'
  BY <1>2, <1>7 DEF KnownInv
<1>9. VerdictInv'
  BY <1>2, RowsKeepVerdicts
<1>10. QED
  BY <1>8, <1>9 DEF VInv

(* The node's answers are read after the head the pass started from. *)
LEMMA FetchReceiptsKeepsVerdicts ==
    ASSUME NodeAnswers, IInv, VInv, FetchReceipts
    PROVE  VInv'
<1>1. /\ got' = [b \in Bundles |->
                  IF b \in ToSet(todo) THEN {r \in ReceiptsOf(b) : <<b, r.leg>> \notin {}} ELSE {}]
      /\ UNCHANGED <<chain, top, sent, target, row, recHead, todo>>
  BY DEF FetchReceipts, NodeAnswers, chainVars, sentVars, rowVars
<1>2. ASSUME NEW b \in Bundles, Listed(b)
      PROVE  (Receipted(b) /\ Standing(b))'
  <2>1. b \in ToSet(todo)
    BY <1>2 DEF Listed, ToSet, IInv, Shape
  <2>2. got'[b] = ReceiptsOf(b)
    BY <1>1, <2>1
  <2>3. Receipted(b)'
    BY <1>1, <2>2, ReceiptsOfChain DEF Receipted, IInv, Height
  <2>4. Standing(b)'
    <3>1. \A r \in ReceiptsOf(b) : r.number <= Height /\ chain[r.number].id = r.id
      <4>1. Shape
        BY DEF IInv
      <4>2. \A r \in ReceiptsOf(b) : r.number \in 1 .. Height /\ r.id = chain[r.number].id
        BY <4>1, ReceiptsOfChain
      <4>3. Height \in Nat
        BY <4>1 DEF Shape, Height
      <4>4. QED
        BY <4>2, <4>3
    <3>2. QED
      BY <1>1, <2>2, <3>1 DEF Standing, Height
  <2>5. QED
    BY <2>3, <2>4
<1>3. KnownInv'
  BY <1>1, <1>2 DEF VInv, KnownInv, Listed
<1>4. VerdictInv'
  BY <1>1, RowsKeepVerdicts
<1>5. QED
  BY <1>3, <1>4 DEF VInv

-----------------------------------------------------------------------------
(* Verdicts *)

(* At the finality depth above its target, what the receipts do not show of   *)
(* a bundle is not in the chain, and never will be.                         *)
LEMMA MissingIsMissed ==
    ASSUME IInv, VInv, NEW b \in Bundles, Listed(b), recPc = "bundles", MissingIsFinal(b)
    PROVE  /\ Past(b)
           /\ got[b] = {} => Missed(b)
           /\ ~Complete(got[b]) => Broken(b)
<1>1. /\ target[b] \in Nat /\ recHead \in Nat /\ recHead <= top /\ top \in Nat
      /\ MaxReorg \in Nat /\ Lateness \in Nat /\ FinalityDepth \in Nat
      /\ FinalityDepth >= MaxReorg + Lateness /\ Height \in Nat
  <2>1. Shape /\ recHead <= top
    BY DEF IInv, PassInv
  <2>2. QED
    BY <2>1, ConstantsAssumption DEF Shape, Height
<1>2. recHead >= target[b] + FinalityDepth
  BY DEF MissingIsFinal, AtFinality
<1>3. b \in sent /\ Receipted(b)
  BY DEF VInv, KnownInv
<1>4. Past(b)
  BY <1>1, <1>2, <1>3 DEF Past
<1>5. ASSUME NEW n \in 1 .. Height, n <= target[b] + Lateness, NEW l \in 1 .. Legs,
             <<b, l>> \in chain[n].txs
      PROVE  \E r \in got[b] : r.leg = l
  <2>1. n + MaxReorg <= recHead
    BY <1>1, <1>2, <1>5
  <2>2. QED
    BY <1>3, <1>5, <2>1 DEF Receipted
<1>6. got[b] = {} => Missed(b)
  BY <1>5 DEF Missed
<1>7. ASSUME ~Complete(got[b]) PROVE Broken(b)
  <2>1. got[b] \in SUBSET Receipts
    BY DEF IInv, Shape
  <2>2. PICK l \in 1 .. Legs : ~(\E r \in got[b] : r.leg = l)
    BY <1>7, <2>1 DEF Complete, Receipts
  <2>3. ASSUME NEW n \in 1 .. Height, n <= target[b] + Lateness,
               BundleTxs(b) \subseteq chain[n].txs
        PROVE  FALSE
    <3>1. <<b, l>> \in chain[n].txs
      BY <2>3 DEF BundleTxs
    <3>2. QED
      BY <1>5, <2>2, <2>3, <3>1
  <2>4. QED
    BY <2>3 DEF Broken
<1>8. QED
  BY <1>4, <1>6, <1>7

(* The state a pass gives to a row, and what it rests on. *)
LEMMA SettleStates ==
    ASSUME Shape, NEW b \in Bundles, NEW R \in SUBSET Receipts,
           SettleMissing(b, R) \/ SettleIncoherent(b, R) \/ SettleIncluded(b, R)
    PROVE  \/ row'[b] = row[b]
           \/ row'[b].state \in Observations \cup {"finalized_incoherent_inclusion"}
           \/ /\ row'[b].state = "finalized_not_included"
              /\ MissingIsFinal(b) /\ R = {}
           \/ /\ row'[b].state = "finalized_partial_inclusion"
              /\ MissingIsFinal(b) /\ ~Complete(R)
<1>1. row \in [Bundles -> Rows] /\ row[b] \in Rows
  BY DEF Shape
<1>2. ASSUME NEW state \in Observations, Observe(b, state, FirstBlock(R))
      PROVE  row'[b].state \in Observations
  <2> DEFINE fresh == IF FirstBlock(R) = 0 THEN row[b].block ELSE FirstBlock(R)
             new   == [[row[b] EXCEPT !.state = state] EXCEPT !.block = fresh]
  <2>1. row'[b] = new
    BY <1>1, <1>2 DEF Observe
  <2> HIDE DEF fresh
  <2>2. new.state = state
    BY <1>1 DEF Rows
  <2> HIDE DEF new
  <2>3. QED
    BY <2>1, <2>2
<1>3. ASSUME NEW state, Finalize(b, state, "no", FirstBlock(R))
      PROVE  row'[b].state = state
  BY <1>1, <1>3 DEF Finalize
<1>4. ASSUME NotIncluded(b) PROVE row'[b].state = "finalized_not_included"
  BY <1>1, <1>4 DEF NotIncluded, Rows
<1>5. ASSUME UNCHANGED rowVars PROVE row'[b] = row[b]
  BY <1>5 DEF rowVars
<1>6. CASE SettleMissing(b, R)
  <2>1. \/ \E state \in {"pending", "partial_unfinalized"} : Observe(b, state, FirstBlock(R))
        \/ MissingIsFinal(b) /\ R = {} /\ NotIncluded(b)
        \/ /\ MissingIsFinal(b) /\ ~Complete(R)
           /\ Finalize(b, "finalized_partial_inclusion", "no", FirstBlock(R))
        \/ UNCHANGED rowVars
    <3>1. CASE R = {}
      BY <1>6, <3>1 DEF SettleMissing, MayFail
    <3>2. CASE R # {}
      BY <1>6, <3>2 DEF SettleMissing, MayFail
    <3>3. QED
      BY <3>1, <3>2
  <2>2. {"pending", "partial_unfinalized"} \subseteq Observations
    BY DEF Observations
  <2>3. QED
    BY <1>2, <1>3, <1>4, <1>5, <2>1, <2>2
<1>7. CASE SettleIncoherent(b, R)
  <2>1. \/ Observe(b, "incoherent_unfinalized", FirstBlock(R))
        \/ Finalize(b, "finalized_incoherent_inclusion", "no", FirstBlock(R))
        \/ UNCHANGED rowVars
    BY <1>7 DEF SettleIncoherent, MayFail
  <2>2. "incoherent_unfinalized" \in Observations
    BY DEF Observations
  <2>3. QED
    BY <1>2, <1>3, <1>5, <2>1, <2>2
<1>8. CASE SettleIncluded(b, R)
  <2>1. Observe(b, "included_unfinalized", FirstBlock(R)) \/ UNCHANGED rowVars
    BY <1>8 DEF SettleIncluded, MayFail
  <2>2. "included_unfinalized" \in Observations
    BY DEF Observations
  <2>3. QED
    BY <1>2, <1>5, <2>1, <2>2
<1>9. QED
  BY <1>6, <1>7, <1>8

LEMMA SettleBundleKeepsVerdicts ==
    ASSUME IInv, VInv, SettleBundle
    PROVE  VInv'
<1> DEFINE b == Head(todo)
<1>1. /\ recPc = "bundles" /\ todo # <<>> /\ NextBundle
      /\ SettleMissing(b, got[b]) \/ SettleIncoherent(b, got[b]) \/ SettleIncluded(b, got[b])
      /\ UNCHANGED <<chain, top, sent, target, recHead, got>>
  BY DEF SettleBundle, chainVars, sentVars
<1>2. b \in Bundles /\ Listed(b)
  BY <1>1, HeadIsListed DEF IInv
<1>3. got[b] \in SUBSET Receipts /\ b \in sent
  BY <1>2 DEF IInv, Shape, VInv, KnownInv
<1>4. MissingIsFinal(b) => /\ Past(b) /\ (got[b] = {} => Missed(b))
                           /\ (~Complete(got[b]) => Broken(b))
  BY <1>1, <1>2, MissingIsMissed
<1> HIDE DEF b
<1>5. /\ \A c \in Bundles : c # b => row'[c] = row[c]
      /\ \/ row'[b] = row[b]
         \/ row'[b].state \in Observations \cup {"finalized_incoherent_inclusion"}
         \/ /\ row'[b].state = "finalized_not_included"
            /\ MissingIsFinal(b) /\ got[b] = {}
         \/ /\ row'[b].state = "finalized_partial_inclusion"
            /\ MissingIsFinal(b) /\ ~Complete(got[b])
  BY <1>1, <1>2, <1>3, SettleWrites, SettleStates DEF IInv
<1>6. VerdictInv'
  <2>1. \A c \in Bundles : /\ Past(c)' <=> Past(c)
                           /\ Missed(c)' <=> Missed(c)
                           /\ Broken(c)' <=> Broken(c)
    BY <1>1 DEF Past, Missed, Broken, Height
  <2>2. ASSUME NEW c \in Bundles
        PROVE  /\ row'[c].state # "none" => c \in sent
               /\ row'[c].state # "finalized_noncanonical"
               /\ row'[c].state = "finalized_not_included" => Past(c) /\ Missed(c)
               /\ row'[c].state = "finalized_partial_inclusion" => Past(c) /\ Broken(c)
    <3>1. CASE row'[c] = row[c]
      BY <3>1 DEF VInv, VerdictInv
    <3>2. CASE row'[c] # row[c]
      <4>1. c = b
        BY <1>5, <3>2
      <4>2. QED
        BY <1>3, <1>4, <1>5, <3>2, <4>1 DEF Observations
    <3>3. QED
      BY <3>1, <3>2
  <2>3. QED
    BY <1>1, <2>1, <2>2 DEF VerdictInv
<1>7. KnownInv'
  BY <1>1, NextBundleKeepsKnown
<1>8. QED
  BY <1>6, <1>7 DEF VInv

(* No reorganisation reaches the receipts of the last check. *)
LEMMA CanonicalStands ==
    ASSUME IInv, VInv, recPc = "canonical"
    PROVE  StillCanonical(got[Head(todo)])
<1> DEFINE b == Head(todo)
           R == got[b]
           n == FirstBlock(R)
<1>1. todo # <<>> /\ Complete(R) /\ Coherent(R) /\ AtFinality(n)
  BY DEF IInv, PassInv
<1>2. b \in Bundles /\ Listed(b)
  BY <1>1, HeadIsListed DEF IInv
<1>3. R \in SUBSET Receipts /\ Standing(b)
  BY <1>2 DEF IInv, Shape, VInv, KnownInv
<1>4. n \in Nat /\ (CHOOSE r \in R : TRUE) \in R /\ \A r \in R : r.number = n
  BY <1>1, <1>3, FirstBlockOfComplete
<1> HIDE DEF n, b
<1>5. n + MaxReorg <= recHead
  <2>1. /\ recHead \in Nat /\ FinalityDepth \in Nat /\ MaxReorg \in Nat
        /\ FinalityDepth >= MaxReorg + Lateness /\ Lateness \in Nat
    BY ConstantsAssumption DEF IInv, Shape
  <2>2. recHead >= n + FinalityDepth
    BY <1>1 DEF AtFinality
  <2>3. QED
    BY <1>4, <2>1, <2>2
<1>6. \A r \in R : r.number <= Height /\ chain[r.number].id = r.id
  BY <1>3, <1>4, <1>5 DEF Standing
<1>7. QED
  BY <1>4, <1>6 DEF StillCanonical, b

LEMMA CanonicalKeepsVerdicts ==
    ASSUME NodeAnswers, IInv, VInv, NEW b \in Bundles, Canonical(b)
    PROVE  VInv'
<1>1. /\ recPc = "canonical" /\ b = Head(todo) /\ NextBundle
      /\ UNCHANGED <<chain, top, sent, target, recHead, got>>
  BY DEF Canonical, chainVars, sentVars
<1>2. todo # <<>> /\ Listed(b) /\ got[b] \in SUBSET Receipts
  BY <1>1, HeadIsListed DEF IInv, PassInv, Shape
<1>3. b \in sent
  BY <1>2 DEF VInv, KnownInv
<1> DEFINE n == FirstBlock(got[b])
<1>4. \/ RecordOutcome(b, n)
      \/ Finalize(b, "finalized_missing_executor_evidence", "yes", n)
      \/ UNCHANGED rowVars
  BY <1>1, CanonicalStands DEF Canonical, MayFail, NodeAnswers
<1> HIDE DEF n
<1>5. row'[b] = row[b] \/ row'[b].state \in {"finalized_included",
                                            "finalized_missing_executor_evidence"}
  <2>1. row \in [Bundles -> Rows]
    BY DEF IInv, Shape
  <2>2. CASE RecordOutcome(b, n)
    BY <2>1, <2>2 DEF RecordOutcome
  <2>3. CASE Finalize(b, "finalized_missing_executor_evidence", "yes", n)
    BY <2>1, <2>3 DEF Finalize
  <2>4. CASE UNCHANGED rowVars
    BY <2>4 DEF rowVars
  <2>5. QED
    BY <1>4, <2>2, <2>3, <2>4
<1>6. \A c \in Bundles : c # b => row'[c] = row[c]
  BY <1>1, <1>2, CanonicalWrites DEF IInv
<1>7. VerdictInv'
  BY <1>1, <1>3, <1>5, <1>6, RowsKeepVerdicts
<1>8. KnownInv'
  BY <1>1, <1>2, NextBundleKeepsKnown
<1>9. QED
  BY <1>7, <1>8 DEF VInv

LEMMA OtherStepsKeepVerdicts ==
    ASSUME IInv, VInv, AskCanonical \/ ReconcileDone \/ Restart \/ UNCHANGED vars
    PROVE  VInv'
<1>1. UNCHANGED <<chain, top, sent, target, row>>
  BY DEF AskCanonical, ReconcileDone, Restart, vars, chainVars, sentVars, rowVars
<1>2. VerdictInv'
  BY <1>1, RowsKeepVerdicts
<1>3. CASE AskCanonical \/ UNCHANGED vars
  <2>1. /\ UNCHANGED <<got, recHead, todo>>
        /\ recPc' \in {"bundles", "canonical"} => recPc \in {"bundles", "canonical"}
    BY <1>3 DEF AskCanonical, vars
  <2>2. QED
    BY <1>1, <1>2, <2>1, PassKeepsKnown DEF Listed, VInv
<1>4. CASE ReconcileDone \/ Restart
  <2>1. recPc' = "idle" /\ todo' = <<>>
    BY <1>4 DEF ReconcileDone, Restart
  <2>2. \A b \in Bundles : ~Listed(b)'
    BY <2>1 DEF Listed
  <2>3. QED
    BY <1>2, <2>2 DEF VInv, KnownInv
<1>5. QED
  BY <1>3, <1>4

-----------------------------------------------------------------------------
(* The theorems *)

LEMMA InitGivesNoVerdict == Init => VInv
<1> SUFFICES ASSUME Init PROVE VInv
  OBVIOUS
<1>1. KnownInv
  BY DEF Init, KnownInv, Listed
<1>2. VerdictInv
  BY DEF Init, VerdictInv
<1>3. QED
  BY <1>1, <1>2 DEF VInv

LEMMA StepKeepsVerdicts == NodeAnswers /\ IInv /\ VInv /\ [Next]_vars => VInv'
<1> SUFFICES ASSUME NodeAnswers, IInv, VInv, [Next]_vars PROVE VInv'
  OBVIOUS
<1>1. CASE Mine \/ Reorg
  BY <1>1, ChainStepKeepsVerdicts
<1>2. CASE OnBlock
  BY <1>2, OnBlockKeepsVerdicts
<1>3. CASE Reconciling
  BY <1>3, ListBundlesKeepsVerdicts, FetchReceiptsKeepsVerdicts, SettleBundleKeepsVerdicts,
     CanonicalKeepsVerdicts, OtherStepsKeepVerdicts DEF Reconciling
<1>4. CASE Restart \/ UNCHANGED vars
  BY <1>4, OtherStepsKeepVerdicts
<1>5. CASE \E b \in Bundles : Send(b) \/ RecordBundle(b)
  BY <1>5, SendKeepsVerdicts, RecordBundleKeepsVerdicts
<1>6. QED
  BY <1>1, <1>2, <1>3, <1>4, <1>5 DEF Next

THEOREM VerdictInvariance == NodeAnswers => (Spec => []VInv)
<1>1. SUFFICES ASSUME NodeAnswers PROVE Spec => []VInv
  OBVIOUS
<1>2. IInv /\ VInv /\ [Next]_vars => VInv'
  BY <1>1, StepKeepsVerdicts
<1>3. QED
  BY <1>2, SettlementInvariance, InitGivesNoVerdict, PTL DEF Spec

(* What a verdict says is the truth about the canonical chain, at the time it  *)
(* is written and in every later state (attribution.rs 36-231).             *)
THEOREM VerdictsAreRight == NodeAnswers => (Spec => []VerdictIsRight)
<1>1. SUFFICES ASSUME NodeAnswers PROVE Spec => []VerdictIsRight
  OBVIOUS
<1>2. ASSUME IInv, VInv PROVE VerdictIsRight
  <2> SUFFICES ASSUME NEW b \in Bundles
               PROVE  /\ row[b].state = "finalized_not_included" => Landed(b) \subseteq Victims
                      /\ row[b].state = "finalized_partial_inclusion" =>
                            \A n \in 1 .. Height : ~(BundleTxs(b) \subseteq chain[n].txs)
                      /\ row[b].included = "yes" =>
                            BundleTxs(b) \subseteq chain[row[b].block].txs
                      /\ row[b].state # "finalized_noncanonical"
    BY DEF VerdictIsRight
  <2>1. ASSUME NEW n \in 1 .. Height, NEW l \in 1 .. Legs, <<b, l>> \in chain[n].txs
        PROVE  l \in Victims \/ n <= target[b] + Lateness
    BY <1>2, <2>1 DEF IInv, ChainInv
  <2>2. ASSUME row[b].state = "finalized_not_included"
        PROVE  Landed(b) \subseteq Victims
    <3>1. Missed(b)
      BY <1>2, <2>2 DEF VInv, VerdictInv
    <3>2. DOMAIN chain = 1 .. Height
      BY <1>2 DEF IInv, Shape, Height
    <3>3. ASSUME NEW l \in 1 .. Legs, Holds(chain, <<b, l>>)
          PROVE  l \in Victims
      <4>1. PICK n \in 1 .. Height : <<b, l>> \in chain[n].txs
        BY <3>2, <3>3 DEF Holds
      <4>2. QED
        BY <2>1, <3>1, <4>1 DEF Missed
    <3>4. QED
      BY <3>3 DEF Landed
  <2>3. ASSUME row[b].state = "finalized_partial_inclusion", NEW n \in 1 .. Height,
               BundleTxs(b) \subseteq chain[n].txs
        PROVE  FALSE
    <3>1. Broken(b)
      BY <1>2, <2>3 DEF VInv, VerdictInv
    <3>2. PICK l \in 1 .. Legs : l \notin Victims
      BY <1>1, ConstantsAssumption DEF NodeAnswers
    <3>3. <<b, l>> \in chain[n].txs
      BY <2>3 DEF BundleTxs
    <3>4. QED
      BY <2>1, <2>3, <3>1, <3>2, <3>3 DEF Broken
  <2>4. row[b].included = "yes" => BundleTxs(b) \subseteq chain[row[b].block].txs
    BY <1>2 DEF IInv, InclusionInv, Settled
  <2>5. row[b].state # "finalized_noncanonical"
    BY <1>2 DEF VInv, VerdictInv
  <2>6. QED
    BY <2>2, <2>3, <2>4, <2>5
<1>3. QED
  BY <1>1, <1>2, SettlementInvariance, VerdictInvariance, PTL
=============================================================================
