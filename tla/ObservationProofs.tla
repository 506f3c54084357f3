------------------------- MODULE ObservationProofs -------------------------
(***************************************************************************)
(* What watches the chain and the bot: the discovery of pools, the list of  *)
(* borrowers, the evidence of the gate, the feed of flashblocks and the alerts.*)
(***************************************************************************)
EXTENDS Discovery, Liquidations, Matching, Flashblocks, Alerts, SequenceTheorems,
        FiniteSetTheorems, WellFoundedInduction, TLAPS

-----------------------------------------------------------------------------
(***************************************************************************)
(* Discovery                                                               *)
(*                                                                         *)
(* A fork rewrites blocks above its base only, and no base is more than     *)
(* ForkDepth below the cursor: what lies that far below the cursor has been   *)
(* scanned for good, and the next window overlaps the rest.                 *)
(***************************************************************************)

Judged == accepted \cup rejected \cup DOMAIN dust \cup unread

ScannedTo(depth) ==
    \A p \in Pools :
        born[p] # 0 /\ firstFrom <= born[p] /\ born[p] + depth <= cursor =>
            p \in Judged

DiscoveryIInv ==
    /\ tip \in Nat /\ highest \in Nat /\ cursor \in Nat /\ firstFrom \in Nat
    /\ tip >= 1 /\ tip <= highest /\ born \in [Pools -> Nat] /\ settledView \in BOOLEAN
    /\ cursor <= highest /\ highest <= tip + ForkDepth
    /\ settledView => cursor <= tip
    /\ cursor # 0 => ScannedTo(IF settledView THEN 0 ELSE ForkDepth)

(* The window a pass scans ends at the head or above the old cursor, and      *)
(* begins no higher than what the overlap leaves unscanned.                 *)
LEMMA WindowOverlaps ==
    ASSUME NEW head \in Nat, cursor \in Nat
    PROVE  /\ ScanFrom(head) \in Nat /\ ScanTo(head) \in Nat /\ ScanTo(head) <= head
           /\ cursor # 0 =>
                 ScanFrom(head) <= IF cursor + 1 > Overlap
                                   THEN cursor + 1 - Overlap ELSE 0
<1>1. ScanFrom(head) \in Nat
  BY DiscoveryAssumption DEF ScanFrom, Minus
<1>2. ScanTo(head) \in Nat /\ ScanTo(head) <= head
  BY <1>1, DiscoveryAssumption DEF ScanTo
<1>3. cursor # 0 => ScanFrom(head) <= IF cursor + 1 > Overlap
                                      THEN cursor + 1 - Overlap ELSE 0
  BY DiscoveryAssumption DEF ScanFrom, Minus
<1>4. QED
  BY <1>1, <1>2, <1>3

(* A pass judges every creation in its window, or marks its read as failed,   *)
(* and forgets no verdict.                                                 *)
LEMMA WindowIsJudged ==
    ASSUME NEW head, NEW failing \in SUBSET ToExamine(head), Examine(head, failing)
    PROVE  /\ Judged \subseteq Judged'
           /\ Found(head) \subseteq Judged'
<1> DEFINE read == ToExamine(head) \ failing
           fits == {p \in read : ~Unsuited(p) /\ (market = "v3" \/ p \in deep)}
           thin == {p \in read : ~Unsuited(p)} \ fits
<1>1. /\ accepted' = accepted \cup fits
      /\ rejected' = rejected \cup {p \in read : Unsuited(p)}
      /\ unread' = (unread \ read) \cup failing
      /\ DOMAIN dust' = (DOMAIN dust \ fits) \cup thin
  BY DEF Examine
<1>2. read \subseteq Judged'
  BY <1>1 DEF Judged
<1>3. failing \subseteq Judged'
  BY <1>1 DEF Judged
<1>4. Judged \subseteq Judged'
  BY <1>1, <1>2 DEF Judged
<1>5. Found(head) \subseteq Judged \cup ToExamine(head)
  BY DEF ToExamine, Resting, Judged
<1>6. QED
  BY <1>2, <1>3, <1>4, <1>5

LEMMA ChainKeeps ==
    ASSUME DiscoveryIInv, ChainGrows \/ LiquidityArrives
    PROVE  DiscoveryIInv'
<1>1. CASE ChainGrows
  <2> USE <1>1
  <2>1. PICK new \in SUBSET {p \in Pools : born[p] = 0} :
           born' = [p \in Pools |-> IF p \in new THEN tip' ELSE born[p]]
    BY DEF ChainGrows
  <2>2. /\ tip' = tip + 1 /\ highest' = IF tip' > highest THEN tip' ELSE highest
        /\ cursor' = cursor /\ firstFrom' = firstFrom /\ settledView' = settledView
        /\ Judged' = Judged
    BY DEF ChainGrows, Judged, poolSets
  <2>3. \A p \in Pools : born'[p] = IF p \in new THEN tip + 1 ELSE born[p]
    BY <2>1, <2>2
  <2>4. born' \in [Pools -> Nat]
    BY <2>1, <2>2 DEF DiscoveryIInv
  <2>a. tip \in Nat /\ cursor \in Nat /\ highest \in Nat /\ ForkDepth \in Nat
    BY DiscoveryAssumption DEF DiscoveryIInv
  <2>b. cursor <= highest /\ highest <= tip + ForkDepth /\ (settledView => cursor <= tip)
    BY DEF DiscoveryIInv
  <2>5. cursor < tip + 1 + (IF settledView THEN 0 ELSE ForkDepth)
    BY <2>a, <2>b
  <2>6. cursor' # 0 => ScannedTo(IF settledView THEN 0 ELSE ForkDepth)'
    <3> SUFFICES ASSUME cursor # 0, NEW p \in Pools, born'[p] # 0, firstFrom <= born'[p],
                        born'[p] + (IF settledView THEN 0 ELSE ForkDepth) <= cursor
                 PROVE  p \in Judged
      BY <2>2 DEF ScannedTo
    <3>1. p \notin new
      BY <2>3, <2>5, <2>a
    <3>2. born'[p] = born[p]
      BY <2>3, <3>1
    <3>3. QED
      BY <3>2 DEF DiscoveryIInv, ScannedTo
  <2>7. QED
    BY <2>2, <2>4, <2>6, DiscoveryAssumption DEF DiscoveryIInv
<1>2. CASE LiquidityArrives
  BY <1>2 DEF LiquidityArrives, DiscoveryIInv, ScannedTo, Judged, poolSets
<1>3. QED
  BY <1>1, <1>2

LEMMA ForkKeeps ==
    ASSUME DiscoveryIInv, ChainForks PROVE DiscoveryIInv'
<1>1. PICK f \in 1 .. tip - 1 :
         /\ f + ForkDepth >= highest /\ tip' = f
         /\ born' = [p \in Pools |-> IF born[p] > f THEN 0 ELSE born[p]]
  BY DEF ChainForks
<1>2. /\ cursor' = cursor /\ firstFrom' = firstFrom /\ highest' = highest
      /\ settledView' = FALSE /\ Judged' = Judged
  BY DEF ChainForks, Judged, poolSets
<1>3. born' \in [Pools -> Nat]
  BY <1>1 DEF DiscoveryIInv
<1>4. cursor # 0 => ScannedTo(ForkDepth)'
  <2> SUFFICES ASSUME cursor # 0, NEW p \in Pools, born'[p] # 0, firstFrom <= born'[p],
                      born'[p] + ForkDepth <= cursor
               PROVE  p \in Judged
    BY <1>2 DEF ScannedTo
  <2>1. born'[p] = born[p]
    BY <1>1
  <2>2. ScannedTo(IF settledView THEN 0 ELSE ForkDepth)
    BY DEF DiscoveryIInv
  <2>3. born[p] + (IF settledView THEN 0 ELSE ForkDepth) <= cursor
    BY <2>1, DiscoveryAssumption DEF DiscoveryIInv
  <2>4. QED
    BY <2>1, <2>2, <2>3 DEF ScannedTo
<1>5. /\ tip' \in Nat /\ tip' >= 1 /\ tip' <= highest' /\ highest' <= tip' + ForkDepth
  BY <1>1, <1>2, DiscoveryAssumption DEF DiscoveryIInv
<1>6. /\ cursor' <= highest' /\ highest' \in Nat /\ cursor' \in Nat /\ firstFrom' \in Nat
  BY <1>2 DEF DiscoveryIInv
<1>7. QED
  BY <1>2, <1>3, <1>4, <1>5, <1>6 DEF DiscoveryIInv, ScannedTo

LEMMA PassKeeps ==
    ASSUME DiscoveryIInv, DiscoveryPass, ForkDepth <= Overlap
    PROVE  DiscoveryIInv'
<1>1. /\ tip' = tip /\ highest' = highest /\ born' = born
  BY DEF DiscoveryPass, poolChain
<1>2. CASE DiscoverFails(tip)
  BY <1>1, <1>2 DEF DiscoverFails, DiscoveryIInv, ScannedTo, Judged, poolSets
<1>3. CASE Discover(tip)
  <2>1. PICK failing \in SUBSET {p \in ToExamine(tip) : NeedsRead(p)} :
           Examine(tip, failing)
    BY <1>3 DEF Discover
  <2>2. failing \in SUBSET ToExamine(tip)
    OBVIOUS
  <2>3. Judged \subseteq Judged' /\ Found(tip) \subseteq Judged'
    BY <2>1, <2>2, WindowIsJudged
  <2>4. /\ cursor' = ScanTo(tip) /\ settledView' = TRUE
        /\ firstFrom' = IF cursor = 0 THEN ScanFrom(tip) ELSE firstFrom
    BY <1>3 DEF Discover
  <2>5. tip \in Nat /\ cursor \in Nat
    BY DEF DiscoveryIInv
  <2>6. /\ ScanFrom(tip) \in Nat /\ ScanTo(tip) \in Nat /\ ScanTo(tip) <= tip
        /\ cursor # 0 => ScanFrom(tip) <= IF cursor + 1 > Overlap
                                          THEN cursor + 1 - Overlap ELSE 0
    BY <2>5, WindowOverlaps
  <2>7. ScannedTo(0)'
    <3> SUFFICES ASSUME NEW p \in Pools, born[p] # 0, firstFrom' <= born[p],
                        born[p] <= ScanTo(tip)
                 PROVE  p \in Judged'
      BY <1>1, <2>4, <2>6 DEF ScannedTo, DiscoveryIInv
    <3>1. CASE ScanFrom(tip) <= born[p]
      BY <3>1, <2>3, <2>6 DEF Found, DiscoveryIInv
    <3>2. CASE born[p] < ScanFrom(tip)
      <4>1. cursor # 0 /\ firstFrom <= born[p]
        BY <3>2, <2>4, <2>6 DEF DiscoveryIInv
      <4>2. born[p] + Overlap <= cursor
        BY <3>2, <4>1, <2>5, <2>6, DiscoveryAssumption DEF DiscoveryIInv
      <4>3. born[p] + (IF settledView THEN 0 ELSE ForkDepth) <= cursor
        BY <4>2, <2>5, DiscoveryAssumption DEF DiscoveryIInv
      <4>4. p \in Judged
        BY <4>1, <4>3 DEF DiscoveryIInv, ScannedTo
      <4>5. QED
        BY <4>4, <2>3
    <3>3. QED
      BY <3>1, <3>2, <2>6 DEF DiscoveryIInv
  <2>8. /\ tip' \in Nat /\ tip' >= 1 /\ highest' \in Nat /\ highest' <= tip' + ForkDepth
        /\ born' \in [Pools -> Nat] /\ tip' <= highest' /\ tip <= highest
    BY <1>1 DEF DiscoveryIInv
  <2>9. /\ cursor' \in Nat /\ firstFrom' \in Nat /\ cursor' <= highest' /\ cursor' <= tip'
    BY <1>1, <2>4, <2>6, <2>8 DEF DiscoveryIInv
  <2>10. QED
    BY <2>4, <2>7, <2>8, <2>9 DEF DiscoveryIInv, ScannedTo
<1>4. QED
  BY <1>2, <1>3 DEF DiscoveryPass

(* The hypothesis is what the lane's overlap is for: REORG_DEPTH blocks are   *)
(* scanned again because no fork is deeper.                                *)
THEOREM DiscoveryJudgesCreations ==
    ASSUME ForkDepth <= Overlap
    PROVE  DiscoverySpec => []CreationsAreJudged
<1>1. DiscoveryInit => DiscoveryIInv
  BY DiscoveryAssumption DEF DiscoveryInit, DiscoveryIInv
<1>2. DiscoveryIInv /\ [DiscoveryNext]_discoveryVars => DiscoveryIInv'
  <2> SUFFICES ASSUME DiscoveryIInv, [DiscoveryNext]_discoveryVars
               PROVE  DiscoveryIInv'
    OBVIOUS
  <2>1. CASE ChainGrows \/ LiquidityArrives
    BY <2>1, ChainKeeps
  <2>2. CASE ChainForks
    BY <2>2, ForkKeeps
  <2>3. CASE DiscoveryPass
    BY <2>3, PassKeeps
  <2>4. CASE DiscoveryRestarts
    BY <2>4 DEF DiscoveryRestarts, DiscoveryIInv, poolChain
  <2>5. CASE UNCHANGED discoveryVars
    BY <2>5 DEF discoveryVars, poolChain, poolSets, DiscoveryIInv, ScannedTo, Judged
  <2>6. QED
    BY <2>1, <2>2, <2>3, <2>4, <2>5 DEF DiscoveryNext
<1>3. DiscoveryIInv => CreationsAreJudged
  <2> SUFFICES ASSUME DiscoveryIInv, settledView, cursor # 0, NEW p \in Pools,
                      born[p] \in (firstFrom .. cursor) \ {0}
               PROVE  p \in Judged
    BY DEF CreationsAreJudged, Judged
  <2>1. ScannedTo(0)
    BY DEF DiscoveryIInv
  <2>2. QED
    BY <2>1 DEF ScannedTo, DiscoveryIInv
<1>4. QED
  BY <1>1, <1>2, <1>3, PTL DEF DiscoverySpec

(* A scan stays between the first block and the head it was asked at. *)
LEMMA ScanBounds ==
    ASSUME DiscoveryTypeOK
    PROVE  ScanTo(tip) \in 0 .. DiscoveryLastBlock
           /\ (cursor = 0 => ScanFrom(tip) \in 0 .. DiscoveryLastBlock)
<1>1. tip \in Nat /\ tip <= DiscoveryLastBlock /\ cursor \in Nat /\ DiscoveryLastBlock \in Nat
  BY DiscoveryAssumption DEF DiscoveryTypeOK
<1>2. ScanTo(tip) \in Nat /\ ScanTo(tip) <= tip /\ ScanFrom(tip) \in Nat
  BY <1>1, WindowOverlaps
<1>3. cursor = 0 => ScanFrom(tip) <= tip
  BY <1>1, DiscoveryAssumption DEF ScanFrom, Minus
<1>4. QED
  BY <1>1, <1>2, <1>3

LEMMA ExamineTypes ==
    ASSUME DiscoveryTypeOK, NEW failing \in SUBSET ToExamine(tip), Examine(tip, failing)
    PROVE  /\ {accepted', rejected', DOMAIN dust', unread'} \subseteq SUBSET Pools
           /\ \A p \in DOMAIN dust' : dust'[p] \in 1 .. DiscoveryLastBlock
<1> DEFINE read == ToExamine(tip) \ failing
           fits == {p \in read : ~Unsuited(p) /\ (market = "v3" \/ p \in deep)}
           thin == {p \in read : ~Unsuited(p)} \ fits
<1>1. /\ accepted' = accepted \cup fits
      /\ rejected' = rejected \cup {p \in read : Unsuited(p)}
      /\ unread' = (unread \ read) \cup failing
      /\ dust' = [p \in (DOMAIN dust \ fits) \cup thin |-> IF p \in thin THEN tip ELSE dust[p]]
  BY DEF Examine
<1>2. ToExamine(tip) \subseteq Pools
  BY DEF ToExamine, Found
<1>3. fits \subseteq read /\ thin \subseteq read /\ read \subseteq Pools /\ failing \subseteq Pools
      /\ {p \in read : Unsuited(p)} \subseteq read
  BY <1>2
<1> HIDE DEF read, fits, thin
<1>4. accepted \subseteq Pools /\ rejected \subseteq Pools /\ DOMAIN dust \subseteq Pools /\ unread \subseteq Pools
  BY DEF DiscoveryTypeOK
<1>5. DOMAIN dust' = (DOMAIN dust \ fits) \cup thin
  BY <1>1
<1>6. accepted' \subseteq Pools /\ rejected' \subseteq Pools /\ DOMAIN dust' \subseteq Pools /\ unread' \subseteq Pools
  BY <1>1, <1>3, <1>4, <1>5
<1>7. tip \in 1 .. DiscoveryLastBlock /\ \A p \in DOMAIN dust : dust[p] \in 1 .. DiscoveryLastBlock
  BY DEF DiscoveryTypeOK
<1>8. \A p \in DOMAIN dust' : dust'[p] \in 1 .. DiscoveryLastBlock
  BY <1>1, <1>5, <1>7
<1>9. QED
  BY <1>6, <1>8

(* Every variable keeps its type, under all faults and forks: the cursor its   *)
(* chain, a creation the block of a chain that has it.                       *)
THEOREM DiscoveryTypesHold == DiscoverySpec => []DiscoveryTypeOK
<1> USE DiscoveryAssumption DEF Never
<1>1. DiscoveryInit => DiscoveryTypeOK
  <2> SUFFICES ASSUME DiscoveryInit PROVE DiscoveryTypeOK
    OBVIOUS
  <2>1. /\ tip = 1 /\ highest = 1 /\ born = [p \in Pools |-> 0] /\ deep = {} /\ market \in Markets
        /\ cursor = 0 /\ lastPass = Never /\ firstFrom = 0 /\ accepted = {} /\ rejected = {}
        /\ dust = <<>> /\ unread = {} /\ settledView = TRUE
    BY DEF DiscoveryInit
  <2>2. trait \in [Pools -> {"weth", "other", "stable"}]
    <3>1. CASE market = "aero"
      BY <3>1 DEF DiscoveryInit
    <3>2. CASE market # "aero"
      BY <3>2 DEF DiscoveryInit
    <3>3. QED
      BY <3>1, <3>2
  <2>3. DOMAIN dust = {}
    BY <2>1
  <2>4. QED
    BY <2>1, <2>2, <2>3 DEF DiscoveryTypeOK
<1>2. DiscoveryTypeOK /\ [DiscoveryNext]_discoveryVars => DiscoveryTypeOK'
  <2> SUFFICES ASSUME DiscoveryTypeOK, [DiscoveryNext]_discoveryVars PROVE DiscoveryTypeOK'
    OBVIOUS
  <2>1. CASE ChainGrows
    <3>1. /\ tip' = tip + 1 /\ tip < DiscoveryLastBlock
          /\ highest' = IF tip' > highest THEN tip' ELSE highest
          /\ UNCHANGED <<deep, market, trait, cursor, lastPass, accepted, rejected, dust,
                         firstFrom, unread, settledView>>
      BY <2>1 DEF ChainGrows, poolSets
    <3>2. tip' \in 1 .. DiscoveryLastBlock /\ highest' \in tip' .. DiscoveryLastBlock
      BY <3>1 DEF DiscoveryTypeOK
    <3>3. born' \in [Pools -> 0 .. tip']
      <4>1. PICK new : born' = [p \in Pools |-> IF p \in new THEN tip' ELSE born[p]]
        BY <2>1 DEF ChainGrows
      <4>2. 0 .. tip \subseteq 0 .. tip' /\ tip' \in 0 .. tip'
        BY <3>1 DEF DiscoveryTypeOK
      <4>3. QED
        BY <4>1, <4>2 DEF DiscoveryTypeOK
    <3>4. QED
      BY <3>1, <3>2, <3>3 DEF DiscoveryTypeOK
  <2>2. CASE ChainForks
    <3>1. PICK f \in 1 .. tip - 1 :
             tip' = f /\ born' = [p \in Pools |-> IF born[p] > f THEN 0 ELSE born[p]]
      BY <2>2 DEF ChainForks
    <3>2. /\ settledView' = FALSE
          /\ UNCHANGED <<highest, deep, market, trait, cursor, lastPass, accepted, rejected, dust,
                         firstFrom, unread>>
      BY <2>2 DEF ChainForks, poolSets
    <3>3. tip' \in 1 .. DiscoveryLastBlock /\ highest' \in tip' .. DiscoveryLastBlock
      BY <3>1, <3>2 DEF DiscoveryTypeOK
    <3>4. born' \in [Pools -> 0 .. tip']
      <4>1. \A p \in Pools : born[p] \in Nat /\ f \in Nat
        BY DEF DiscoveryTypeOK
      <4>2. QED
        BY <3>1, <4>1
    <3>5. QED
      BY <3>2, <3>3, <3>4 DEF DiscoveryTypeOK
  <2>3. CASE LiquidityArrives
    BY <2>3 DEF LiquidityArrives, DiscoveryTypeOK, poolSets
  <2>4. CASE DiscoveryPass
    <3>1. /\ UNCHANGED <<tip, highest, born, deep, market, trait>> /\ lastPass' = tip
      BY <2>4 DEF DiscoveryPass, poolChain
    <3>2. lastPass' \in 1 .. Never
      BY <3>1 DEF DiscoveryTypeOK
    <3>3. CASE DiscoverFails(tip)
      BY <3>1, <3>2, <3>3 DEF DiscoverFails, poolSets, DiscoveryTypeOK
    <3>4. CASE Discover(tip)
      <4>1. PICK failing \in SUBSET {p \in ToExamine(tip) : NeedsRead(p)} : Examine(tip, failing)
        BY <3>4 DEF Discover
      <4>2. failing \in SUBSET ToExamine(tip)
        OBVIOUS
      <4>3. /\ {accepted', rejected', DOMAIN dust', unread'} \subseteq SUBSET Pools
            /\ \A p \in DOMAIN dust' : dust'[p] \in 1 .. DiscoveryLastBlock
        BY <4>1, <4>2, ExamineTypes
      <4>4. cursor' \in 0 .. DiscoveryLastBlock /\ firstFrom' \in 0 .. DiscoveryLastBlock
            /\ settledView' = TRUE
        BY <3>4, ScanBounds DEF Discover, DiscoveryTypeOK
      <4>5. QED
        BY <3>1, <3>2, <4>3, <4>4 DEF DiscoveryTypeOK
    <3>5. QED
      BY <2>4, <3>3, <3>4 DEF DiscoveryPass
  <2>5. CASE DiscoveryRestarts
    <3>1. /\ UNCHANGED <<tip, highest, born, deep, market, trait, settledView>>
          /\ cursor' = 0 /\ firstFrom' = 0 /\ lastPass' = Never
          /\ accepted' = {} /\ rejected' = {} /\ dust' = <<>> /\ unread' = {}
      BY <2>5 DEF DiscoveryRestarts, poolChain
    <3>2. DOMAIN dust' = {}
      BY <3>1
    <3>3. QED
      BY <3>1, <3>2 DEF DiscoveryTypeOK
  <2>6. CASE UNCHANGED discoveryVars
    BY <2>6 DEF discoveryVars, poolChain, poolSets, DiscoveryTypeOK
  <2>7. QED
    BY <2>1, <2>2, <2>3, <2>4, <2>5, <2>6 DEF DiscoveryNext
<1>3. QED
  BY <1>1, <1>2, PTL DEF DiscoverySpec

-----------------------------------------------------------------------------
(***************************************************************************)
(* However many ticks overlap and whatever fails, no account of a scanned    *)
(* block is forgotten: for any accounts, caps, blocks and faults.           *)
(***************************************************************************)

Accounted == DOMAIN watch \cup evicted \cup swallowed

(* Every account of the first n blocks is accounted for. *)
AccountedTo(n) == \A b \in 1 .. n : active[b] \subseteq Accounted

(* A tick that waits for logs asked for them from behind what was accounted   *)
(* for when it read the cursor, and nothing is ever unaccounted for again.   *)
TickInv ==
    \A t \in Ticks :
        /\ tick[t].at # "idle" => tick[t].head >= 1
        /\ tick[t].at = "logs" => tick[t].from >= 1 /\ AccountedTo(tick[t].from - 1)

LiquidationsIInv == LiquidationsTypeOK /\ AccountedTo(scanned) /\ TickInv

(* The record of a tick *)
TickType == [at : {"idle", "begin", "logs", "poll", "read", "publish"},
             head : 0 .. liqTip, from : 0 .. liqTip,
             snap : SUBSET Borrowers, near : SUBSET Borrowers]

(* What a touch of the list keeps: its type, and every account it knew. *)
LEMMA TouchKeeps ==
    ASSUME LiquidationsTypeOK, NEW who \in SUBSET Borrowers, NEW head \in 1 .. liqTip,
           Touch(who, head)
    PROVE  /\ DOMAIN watch' \subseteq Borrowers /\ Range(watch') \subseteq 1 .. liqTip
           /\ Cardinality(DOMAIN watch') <= WatchCap
           /\ evicted' \subseteq Borrowers
           /\ DOMAIN watch \cup evicted \cup who \subseteq DOMAIN watch' \cup evicted'
<1> DEFINE seen == [a \in DOMAIN watch \cup who |-> IF a \in who THEN head ELSE watch[a]]
<1>1. PICK keep \in SUBSET DOMAIN seen :
          /\ Cardinality(keep) = IF Cardinality(DOMAIN seen) < WatchCap
                                 THEN Cardinality(DOMAIN seen) ELSE WatchCap
          /\ watch' = [a \in keep |-> seen[a]]
          /\ evicted' = (evicted \cup DOMAIN seen) \ keep
  BY DEF Touch
<1>2. DOMAIN seen = DOMAIN watch \cup who
  OBVIOUS
<1>3. DOMAIN watch \subseteq Borrowers /\ \A a \in DOMAIN watch : watch[a] \in 1 .. liqTip
  BY DEF LiquidationsTypeOK, Range
<1>4. \A a \in DOMAIN seen : seen[a] \in 1 .. liqTip
  BY <1>3
<1>5. DOMAIN watch' = keep
  BY <1>1
<1>6. Range(watch') \subseteq 1 .. liqTip
  BY <1>1, <1>4 DEF Range
<1>7. WatchCap \in Nat
  BY LiquidationsAssumption
<1>8. Cardinality(DOMAIN seen) \in Nat
  <2>1. IsFiniteSet(DOMAIN seen)
    BY <1>2, <1>3, FS_Subset, LiquidationsAssumption
  <2>2. QED
    BY <2>1, FS_CardinalityType
<1>9. Cardinality(DOMAIN watch') <= WatchCap
  BY <1>1, <1>5, <1>7, <1>8
<1>10. QED
  BY <1>1, <1>2, <1>3, <1>5, <1>6, <1>9 DEF LiquidationsTypeOK

LEMMA LiquidationsInitHolds == LiquidationsInit => LiquidationsIInv
<1> SUFFICES ASSUME LiquidationsInit PROVE LiquidationsIInv
  OBVIOUS
<1> USE LiquidationsAssumption DEF LiquidationsInit
<1>1. LiquidationsTypeOK
  <2>1. watch = <<>> => DOMAIN watch = {} /\ Range(watch) = {}
    BY DEF Range
  <2>2. Cardinality({}) = 0
    BY FS_EmptySet
  <2>3. active \in [1 .. LiqLastBlock -> SUBSET Borrowers]
    OBVIOUS
  <2>4. ilkOf \in [Borrowers -> Ilks]
    BY DEF Ilks
  <2>5. DOMAIN watch = {} /\ Range(watch) = {}
    BY <2>1
  <2>6. Cardinality(DOMAIN watch) <= WatchCap
    BY <2>2, <2>5
  <2>7. /\ liqTip \in 1 .. LiqLastBlock
        /\ {scanned, ticked, resolvedAt} \subseteq 0 .. liqTip
    OBVIOUS
  <2>8. tick \in [Ticks -> TickType]
    BY DEF NoTick, TickType
  <2>9. QED
    BY <2>3, <2>4, <2>5, <2>6, <2>7, <2>8 DEF LiquidationsTypeOK, TickType
<1>2. AccountedTo(scanned) /\ TickInv
  BY DEF AccountedTo, TickInv, NoTick
<1>3. QED
  BY <1>1, <1>2 DEF LiquidationsIInv

(* What the actions do to the invariant is seen from a few facts: the tip and  *)
(* the past do not change, and nobody is unaccounted for.                   *)
LEMMA AccountedStays ==
    ASSUME LiquidationsTypeOK, NEW n \in 0 .. liqTip, AccountedTo(n),
           \A b \in 1 .. liqTip : active'[b] = active[b],
           Accounted \subseteq Accounted'
    PROVE  AccountedTo(n)'
<1>1. liqTip \in Nat
  BY LiquidationsAssumption DEF LiquidationsTypeOK
<1>2. ASSUME NEW b \in 1 .. n PROVE active'[b] \subseteq Accounted'
  <2>1. b \in 1 .. liqTip
    BY <1>1
  <2>2. active[b] \subseteq Accounted
    BY DEF AccountedTo
  <2>3. active'[b] = active[b]
    BY <2>1
  <2> HIDE DEF Accounted
  <2>4. QED
    BY <2>2, <2>3
<1>3. QED
  BY <1>2 DEF AccountedTo

LEMMA BlockPreserves ==
    ASSUME LiquidationsIInv, LiqBlock
    PROVE  LiquidationsIInv'
<1> USE LiquidationsAssumption DEF LiquidationsIInv, LiqBlock, liqHistory, feedVars
<1>1. liqTip \in Nat /\ LiqLastBlock \in Nat /\ liqTip' \in 1 .. LiqLastBlock /\ liqTip' = liqTip + 1
  BY DEF LiquidationsTypeOK
<1>2. 0 .. liqTip \subseteq 0 .. liqTip' /\ 1 .. liqTip \subseteq 1 .. liqTip'
  BY <1>1
<1>3. active' \in [1 .. LiqLastBlock -> SUBSET Borrowers]
      /\ \A b \in 1 .. liqTip : active'[b] = active[b]
  BY <1>1 DEF LiquidationsTypeOK
<1>4. LiquidationsTypeOK'
  BY <1>1, <1>2, <1>3 DEF LiquidationsTypeOK, Range
<1>5. Accounted' = Accounted
  BY DEF Accounted
<1>6. \A n \in 0 .. liqTip : AccountedTo(n) => AccountedTo(n)'
  BY <1>3, <1>5, AccountedStays
<1>7. scanned \in 0 .. liqTip
  BY DEF LiquidationsTypeOK
<1>8. ASSUME NEW t \in Ticks
      PROVE  tick[t].head \in Nat /\ tick[t].from \in 0 .. liqTip
  BY DEF LiquidationsTypeOK
<1>9. AccountedTo(scanned)'
  BY <1>6, <1>7
<1>10. TickInv'
  BY <1>1, <1>6, <1>8 DEF TickInv
<1>11. QED
  BY <1>4, <1>9, <1>10

(* The steps of a tick touch neither the chain nor anybody's account but to    *)
(* add to it.                                                               *)
LEMMA TickPreserves ==
    ASSUME LiquidationsIInv, NEW t \in Ticks, UNCHANGED liqChain,
           scanned' \in 0 .. liqTip, AccountedTo(scanned)',
           LiquidationsTypeOK', Accounted \subseteq Accounted',
           \A u \in Ticks : u # t => tick'[u] = tick[u],
           tick'[t].at # "idle" => tick'[t].head >= 1,
           tick'[t].at = "logs" =>
              tick'[t].from >= 1 /\ AccountedTo(tick[t].from - 1)'
    PROVE  LiquidationsIInv'
<1> USE DEF LiquidationsIInv
<1>1. \A n \in 0 .. liqTip : AccountedTo(n) => AccountedTo(n)'
  BY AccountedStays DEF liqChain
<1>2. ASSUME NEW u \in Ticks, u # t
      PROVE  /\ tick'[u].at # "idle" => tick'[u].head >= 1
             /\ tick'[u].at = "logs" =>
                   tick'[u].from >= 1 /\ AccountedTo(tick[u].from - 1)'
  <2>1. tick'[u] = tick[u] /\ tick[u].from \in 0 .. liqTip /\ liqTip \in Nat
    BY <1>2, LiquidationsAssumption DEF LiquidationsTypeOK
  <2>2. tick[u].at = "logs" => tick[u].from - 1 \in 0 .. liqTip
    BY <2>1 DEF TickInv
  <2>3. QED
    BY <1>1, <2>1, <2>2 DEF TickInv
<1>3. TickInv'
  BY <1>2 DEF TickInv
<1>4. QED
  BY <1>3

(* Steps that look at the list and leave it alone *)
LEMMA ReadersPreserve ==
    ASSUME LiquidationsIInv, NEW t \in Ticks,
           SpawnTick(t) \/ ReadCursor(t) \/ SnapWatched(t) \/ ReadHealth(t) \/ Publish(t)
    PROVE  LiquidationsIInv'
<1> USE LiquidationsAssumption DEF LiquidationsIInv
<1>1. UNCHANGED <<liqChain, scanned, watch, liqHistory>>
  BY DEF SpawnTick, ReadCursor, SnapWatched, ReadHealth, Publish
<1>2. Accounted' = Accounted
  BY <1>1 DEF Accounted, liqHistory
<1>3. /\ liqTip \in Nat \ {0} /\ liqTip <= LiqLastBlock /\ LiqLastBlock \in Nat
      /\ scanned \in 0 .. liqTip
      /\ tick \in [Ticks -> TickType]
  BY DEF LiquidationsTypeOK, TickType
<1>4. tick[t] \in TickType
  BY <1>3
<1> DEFINE Steps(r) == /\ r \in TickType /\ tick' = [tick EXCEPT ![t] = r]
                       /\ r.at # "idle" => r.head >= 1
                       /\ r.at = "logs" => r.from = scanned + 1
<1>5. \E r : Steps(r)
  <2>1. CASE SpawnTick(t)
    <3> DEFINE r == [NoTick EXCEPT !.at = "begin", !.head = liqTip]
    <3>1. /\ NoTick \in TickType
          /\ DOMAIN NoTick = {"at", "head", "from", "snap", "near"}
      BY <1>3 DEF NoTick, TickType
    <3>2. liqTip \in 0 .. liqTip
      BY <1>3
    <3>3. r \in TickType
      BY <3>1, <3>2 DEF TickType
    <3>4. r.at = "begin" /\ r.head = liqTip
      BY <3>1
    <3>5. tick' = [tick EXCEPT ![t] = r]
      BY <2>1 DEF SpawnTick
    <3> HIDE DEF r
    <3>6. Steps(r)
      BY <1>3, <3>3, <3>4, <3>5
    <3>7. QED
      BY <3>6
  <2>2. CASE ReadCursor(t)
    <3>1. tick[t].head >= 1 /\ tick[t].head \in 0 .. liqTip
      BY <1>4, <2>2 DEF ReadCursor, TickInv, TickType
    <3>2. CASE scanned # 0 /\ tick[t].head <= scanned
      <4>1. Steps([tick[t] EXCEPT !.at = "poll"])
        BY <1>3, <1>4, <2>2, <3>1, <3>2 DEF ReadCursor, TickType
      <4>2. QED
        BY <4>1
    <3>3. CASE ~(scanned # 0 /\ tick[t].head <= scanned)
      <4>1. scanned + 1 \in 0 .. liqTip
        BY <1>3, <3>1, <3>3
      <4>2. Steps([tick[t] EXCEPT !.at = "logs", !.from = scanned + 1])
        BY <1>3, <1>4, <2>2, <3>1, <3>3, <4>1 DEF ReadCursor, TickType
      <4>3. QED
        BY <4>2
    <3>4. QED
      BY <3>2, <3>3
  <2>3. tick[t].at # "idle" => tick[t].head >= 1
    BY DEF TickInv
  <2>4. ASSUME EndTick(t) PROVE Steps(NoTick)
    <3>1. NoTick \in TickType /\ NoTick.at = "idle"
      BY <1>3 DEF NoTick, TickType
    <3>2. QED
      BY <2>4, <3>1 DEF EndTick
  <2>5. CASE SnapWatched(t)
    <3>1. DOMAIN watch \subseteq Borrowers /\ tick[t].at = "poll"
      BY <2>5 DEF LiquidationsTypeOK, SnapWatched
    <3>2. CASE EndTick(t)
      BY <2>4, <3>2
    <3>3. CASE tick' = [tick EXCEPT ![t].at = "read", ![t].snap = DOMAIN watch]
      <4>1. Steps([tick[t] EXCEPT !.at = "read", !.snap = DOMAIN watch])
        BY <1>3, <1>4, <2>3, <3>1, <3>3 DEF TickType
      <4>2. QED
        BY <4>1
    <3>4. QED
      BY <2>5, <3>2, <3>3 DEF SnapWatched
  <2>6. ASSUME tick[t].at # "idle", NEW near \in SUBSET Borrowers, ToPublish(t, near)
        PROVE  Steps([tick[t] EXCEPT !.at = "publish", !.near = near])
    BY <1>3, <1>4, <2>3, <2>6 DEF ToPublish, TickType
  <2>7. CASE ReadHealth(t)
    <3>1. tick[t].snap \subseteq Borrowers /\ tick[t].at = "read"
      BY <1>4, <2>7 DEF TickType, ReadHealth
    <3>2. EndTick(t) \/ \E near \in SUBSET Borrowers : ToPublish(t, near)
      BY <2>7, <3>1 DEF ReadHealth, AaveHealth, CompoundHealth, MakerHealth, MorphoHealth
    <3>3. CASE EndTick(t)
      BY <2>4, <3>3
    <3>4. CASE \E near \in SUBSET Borrowers : ToPublish(t, near)
      <4>1. PICK near \in SUBSET Borrowers : ToPublish(t, near)
        BY <3>4
      <4>2. QED
        BY <2>6, <3>1, <4>1
    <3>5. QED
      BY <3>2, <3>3, <3>4
  <2>8. CASE Publish(t)
    BY <2>4, <2>8 DEF Publish
  <2>9. QED
    BY <2>1, <2>2, <2>5, <2>7, <2>8
<1>6. /\ tick' \in [Ticks -> TickType]
      /\ tick'[t].at # "idle" => tick'[t].head >= 1
      /\ tick'[t].at = "logs" => tick'[t].from = scanned + 1
      /\ \A u \in Ticks : u # t => tick'[u] = tick[u]
  BY <1>3, <1>5
<1> HIDE DEF Steps
<1>7. ticked' \in 0 .. liqTip /\ leads' \subseteq Borrowers
      /\ resolvedAt' \in 0 .. liqTip /\ feedWatched' \in BOOLEAN
  <2>1. CASE SpawnTick(t)
    <3>1. leads \subseteq Borrowers /\ resolvedAt \in 0 .. liqTip /\ feedWatched \in BOOLEAN
      BY DEF LiquidationsTypeOK
    <3>2. ticked' = liqTip /\ leads' = leads /\ RefreshFeeds
      BY <2>1 DEF SpawnTick
    <3>3. resolvedAt' \in {resolvedAt, liqTip}
      BY <3>2 DEF RefreshFeeds, feedVars
    <3>4. feedWatched' \in {feedWatched} \cup BOOLEAN
      BY <3>2 DEF RefreshFeeds, feedVars
    <3>5. QED
      BY <1>3, <3>1, <3>2, <3>3, <3>4
  <2>2. CASE Publish(t)
    BY <1>4, <2>2 DEF Publish, feedVars, LiquidationsTypeOK, TickType
  <2>3. CASE ReadCursor(t) \/ SnapWatched(t) \/ ReadHealth(t)
    BY <2>3 DEF ReadCursor, SnapWatched, ReadHealth, feedVars, LiquidationsTypeOK
  <2>4. QED
    BY <2>1, <2>2, <2>3
<1>8. LiquidationsTypeOK'
  BY <1>1, <1>6, <1>7 DEF LiquidationsTypeOK, TickType, liqChain, liqHistory, Range
<1>9. AccountedTo(scanned)' /\ AccountedTo(scanned)
  BY <1>1, <1>2 DEF AccountedTo, liqChain
<1>10. tick'[t].at = "logs" => tick'[t].from >= 1 /\ AccountedTo(tick[t].from - 1)'
  <2>1. scanned' + 1 - 1 = scanned'
    BY <1>1, <1>3
  <2>2. SUFFICES ASSUME tick'[t].at = "logs" PROVE tick'[t].from >= 1 /\ AccountedTo(tick[t].from - 1)'
    OBVIOUS
  <2>3. tick'[t].from = scanned' + 1
    BY <1>1, <1>6, <2>2
  <2>4. QED
    BY <1>1, <1>3, <1>9, <2>1, <2>3
<1>11. QED
  BY <1>1, <1>2, <1>3, <1>6, <1>8, <1>9, <1>10, TickPreserves

(* The answer to a request for logs: whatever part of it fails, the cursor     *)
(* does not pass an account that is not in the list, put out, or swallowed.  *)
LEMMA LogsPreserve ==
    ASSUME LiquidationsIInv, NEW t \in Ticks, LogsAnswer(t)
    PROVE  LiquidationsIInv'
<1> USE LiquidationsAssumption DEF LiquidationsIInv
<1>1. UNCHANGED <<liqChain, ticked, leads, feedVars>> /\ tick[t].at = "logs"
      /\ tick' = [tick EXCEPT ![t].at = "poll"]
  BY DEF LogsAnswer
<1>2. /\ liqTip \in Nat \ {0} /\ liqTip <= LiqLastBlock /\ LiqLastBlock \in Nat
      /\ scanned \in 0 .. liqTip /\ tick \in [Ticks -> TickType]
      /\ active \in [1 .. LiqLastBlock -> SUBSET Borrowers]
      /\ evicted \subseteq Borrowers /\ swallowed \subseteq Borrowers
  BY DEF LiquidationsTypeOK, TickType
<1>3. /\ tick[t].head \in 1 .. liqTip /\ tick[t].from \in 1 .. liqTip
      /\ AccountedTo(tick[t].from - 1)
  <2>1. tick[t].head \in 0 .. liqTip /\ tick[t].from \in 0 .. liqTip
    BY <1>2 DEF TickType
  <2>2. QED
    BY <1>1, <1>2, <2>1 DEF TickInv
<1>4. ActiveIn(t) \subseteq Borrowers
  BY <1>2, <1>3 DEF ActiveIn
<1>5. /\ DOMAIN watch' \subseteq Borrowers /\ Range(watch') \subseteq 1 .. liqTip
      /\ Cardinality(DOMAIN watch') <= WatchCap
      /\ evicted' \subseteq Borrowers /\ swallowed' \subseteq Borrowers
      /\ Accounted \subseteq Accounted'
      /\ \/ scanned' = scanned
         \/ scanned' = tick[t].head /\ ActiveIn(t) \subseteq Accounted'
  <2>1. CASE Harvest(t)
    <3>1. Touch(ActiveIn(t), tick[t].head) /\ scanned' = tick[t].head /\ UNCHANGED swallowed
      BY <2>1 DEF Harvest
    <3>2. QED
      BY <1>2, <1>3, <1>4, <3>1, TouchKeeps DEF Accounted
  <2>2. CASE HarvestSome(t)
    <3>1. PICK lost \in SUBSET ActiveIn(t) :
             /\ Touch(ActiveIn(t) \ lost, tick[t].head) /\ scanned' = tick[t].head
             /\ swallowed' = swallowed \cup lost
      BY <2>2 DEF HarvestSome
    <3>2. ActiveIn(t) \ lost \in SUBSET Borrowers
      BY <1>4
    <3>3. QED
      BY <1>2, <1>3, <1>4, <3>1, <3>2, TouchKeeps DEF Accounted
  <2>3. CASE HarvestFails(t)
    <3>1. DOMAIN watch \subseteq Borrowers /\ Range(watch) \subseteq 1 .. liqTip
          /\ Cardinality(DOMAIN watch) <= WatchCap
      BY DEF LiquidationsTypeOK
    <3>2. UNCHANGED <<watch, evicted>>
      BY <2>3 DEF HarvestFails
    <3>3. CASE protocol = "maker"
      BY <1>2, <1>4, <2>3, <3>1, <3>2, <3>3 DEF HarvestFails, ScannedAfterFailure, Accounted, Range
    <3>4. CASE protocol # "maker"
      BY <1>2, <2>3, <3>1, <3>2, <3>4 DEF HarvestFails, ScannedAfterFailure, Accounted, Range
    <3>5. QED
      BY <3>3, <3>4
  <2>4. QED
    BY <2>1, <2>2, <2>3 DEF LogsAnswer
<1>6. scanned' \in 0 .. liqTip
  BY <1>2, <1>3, <1>5
<1>7. tick' \in [Ticks -> TickType] /\ tick'[t].at = "poll" /\ tick'[t].head = tick[t].head
      /\ \A u \in Ticks : u # t => tick'[u] = tick[u]
  BY <1>1, <1>2 DEF TickType
<1>8. LiquidationsTypeOK'
  <2>1. {scanned', ticked', resolvedAt'} \subseteq 0 .. liqTip'
    BY <1>1, <1>6 DEF LiquidationsTypeOK, liqChain, feedVars
  <2>2. tick' \in [Ticks -> TickType'] /\ TickType' = TickType /\ liqTip' = liqTip
    BY <1>1, <1>7 DEF TickType, liqChain
  <2>3. {leads', evicted', swallowed'} \subseteq SUBSET Borrowers
    BY <1>1, <1>5 DEF LiquidationsTypeOK
  <2>4. /\ liqTip' \in 1 .. LiqLastBlock /\ protocol' \in Protocols
        /\ active' \in [1 .. LiqLastBlock -> SUBSET Borrowers]
        /\ ilkOf' \in [Borrowers -> Ilks] /\ feedWatched' \in BOOLEAN
    BY <1>1 DEF LiquidationsTypeOK, liqChain, feedVars
  <2>5. /\ DOMAIN watch' \subseteq Borrowers /\ Range(watch') \subseteq 1 .. liqTip'
        /\ Cardinality(DOMAIN watch') <= WatchCap
    BY <1>5, <2>2
  <2>6. QED
    BY <2>1, <2>2, <2>3, <2>4, <2>5 DEF LiquidationsTypeOK, TickType
<1>9. AccountedTo(scanned)'
  <2>1. CASE scanned' = scanned
    BY <1>1, <1>2, <1>5, <2>1, AccountedStays DEF liqChain
  <2>2. CASE scanned' = tick[t].head /\ ActiveIn(t) \subseteq Accounted'
    <3>1. ASSUME NEW b \in 1 .. tick[t].head PROVE active[b] \subseteq Accounted'
      <4>1. CASE b < tick[t].from
        BY <1>2, <1>3, <1>5, <4>1 DEF AccountedTo
      <4>2. CASE b >= tick[t].from
        BY <1>2, <1>3, <2>2, <4>2 DEF ActiveIn
      <4>3. QED
        BY <1>3, <4>1, <4>2
    <3>2. QED
      BY <1>1, <2>2, <3>1 DEF AccountedTo, liqChain
  <2>3. QED
    BY <1>5, <2>1, <2>2
<1>10. QED
  BY <1>1, <1>3, <1>5, <1>6, <1>7, <1>8, <1>9, TickPreserves

(* The invariant of the strategies, under all faults *)
THEOREM LiquidationsInvariance == LiquidationsSpec => []LiquidationsIInv
<1>1. ASSUME LiquidationsIInv, [LiquidationsNext]_liqVars PROVE LiquidationsIInv'
  <2>1. CASE LiqBlock
    BY <1>1, <2>1, BlockPreserves
  <2>2. CASE \E t \in Ticks : TickStep(t)
    BY <1>1, <2>2, ReadersPreserve, LogsPreserve DEF TickStep
  <2>3. CASE UNCHANGED liqVars
    BY <1>1, <2>3 DEF liqVars, liqChain, feedVars, liqHistory, LiquidationsIInv, LiquidationsTypeOK,
                      TickInv, AccountedTo, Accounted, Range
  <2>4. QED
    BY <1>1, <2>1, <2>2, <2>3 DEF LiquidationsNext
<1>2. QED
  BY <1>1, LiquidationsInitHolds, PTL DEF LiquidationsSpec

(* Every variable keeps its type: the list its cap, a cursor its chain. *)
THEOREM LiquidationsType == LiquidationsSpec => []LiquidationsTypeOK
<1>1. LiquidationsIInv => LiquidationsTypeOK
  BY DEF LiquidationsIInv
<1>2. QED
  BY <1>1, LiquidationsInvariance, PTL

(* An account that was active in a scanned block is watched, or was put out by *)
(* the cap, or was in what Maker passed over.                               *)
THEOREM NoAccountForgotten == LiquidationsSpec => []ActiveAccountsAreWatched
<1>1. LiquidationsIInv => ActiveAccountsAreWatched
  BY DEF LiquidationsIInv, AccountedTo, Accounted, ActiveAccountsAreWatched
<1>2. QED
  BY <1>1, LiquidationsInvariance, PTL

-----------------------------------------------------------------------------
(***************************************************************************)
(* What the gate counts of a delivered block was decided before the block    *)
(* was known, for any chain, as long as old blocks are not delivered again    *)
(* and rows that are queued are written.                                    *)
(***************************************************************************)

Tables == {"opportunity", "simulation"}

(* Whatever was made after its block was delivered is of a block that will    *)
(* not be delivered again.                                                  *)
Past(o) == o.block <= newest /\ (lastGiven > 0 => o.block <= lastGiven)

Everywhere(o) ==
    \/ o \in oppRows \cup simulating
    \/ \E i \in DOMAIN writes : writes[i][2] = o

HindsightInv == \A o \in Opportunities : o.by = "replay" /\ Everywhere(o) => Past(o)

(* The worker matches what was decided live, and each once. *)
WorkInv ==
    /\ work.step # "idle" => work.block >= 1 /\ work.block <= lastGiven
    /\ \A o \in work.left : o.by = "live" /\ o.block = work.block /\ compared[o] = 0
    /\ \A o \in Opportunities : compared[o] > 0 => Past(o)

(* The row of an opportunity is written or in the queue, before the i-th. *)
Sent(o) == o \in oppRows \/ \E j \in 1 .. Len(writes) : writes[j] = <<"opportunity", o>>

SentBefore(i, o) == o \in oppRows \/ \E j \in 1 .. i - 1 : writes[j] = <<"opportunity", o>>

RowsInv ==
    /\ simRows \subseteq oppRows
    /\ \A o \in simulating : Sent(o)
    /\ \A i \in 1 .. Len(writes) :
          writes[i][1] = "simulation" => SentBefore(i, writes[i][2])

MatchIInv ==
    MatchTypeOK /\ HindsightInv /\ WorkInv /\ RowsInv /\ BlockEvidenceIsForesight

NoHindsight == ~Relisted /\ "rows" \notin MatchFaults

LEMMA MatchInitHolds == MatchInit => MatchIInv
<1> SUFFICES ASSUME MatchInit PROVE MatchIInv
  OBVIOUS
<1> USE MatchingAssumption DEF MatchInit, NoBlock
<1>1. MatchTypeOK
  BY DEF MatchTypeOK, MatchBlocks
<1>2. HindsightInv /\ WorkInv /\ RowsInv
  BY DEF HindsightInv, Everywhere, WorkInv, RowsInv, Sent
<1>3. BlockEvidenceIsForesight
  BY DEF BlockEvidenceIsForesight
<1>4. QED
  BY <1>1, <1>2, <1>3 DEF MatchIInv

LEMMA NextMinedPreserves == MatchIInv /\ NextMined => MatchIInv'
<1> SUFFICES ASSUME MatchIInv, NextMined PROVE MatchIInv'
  OBVIOUS
<1> USE MatchingAssumption DEF MatchIInv, NextMined, rows, evidence
<1>1. /\ newest \in Nat /\ newest' = newest + 1 /\ newest' \in 1 .. MatchLastBlock
      /\ victimIn \subseteq victimIn' /\ victimIn' \subseteq MatchBlocks
  BY DEF MatchTypeOK, MatchBlocks
<1>2. MatchTypeOK'
  <2>1. /\ 0 .. newest \subseteq 0 .. newest' /\ 1 .. newest \subseteq 1 .. newest'
    BY <1>1
  <2>2. lastGiven \in 0 .. newest' /\ blockTxs \subseteq 1 .. newest'
        /\ work \in [step : {"idle", "match", "score", "reconcile"},
                     block : 0 .. newest', left : SUBSET Opportunities]
    BY <2>1 DEF MatchTypeOK
  <2>3. QED
    BY <1>1, <2>2 DEF MatchTypeOK
<1>3. \A o \in Opportunities : Past(o) => Past(o)'
  BY <1>1 DEF Past, MatchTypeOK, Opportunities, MatchBlocks
<1>4. HindsightInv' /\ WorkInv'
  BY <1>3 DEF HindsightInv, WorkInv, Everywhere
<1>5. RowsInv'
  BY DEF RowsInv, Sent, SentBefore
<1>6. BlockEvidenceIsForesight'
  BY <1>1 DEF BlockEvidenceIsForesight, VictimLanded
<1>7. QED
  BY <1>2, <1>4, <1>5, <1>6

(* A row goes to the end of the queue and passes none. *)
LEMMA Queued ==
    ASSUME NoHindsight, MatchTypeOK, RowsInv, NEW table \in Tables, NEW o \in Opportunities,
           QueueRow(table, o)
    PROVE  /\ writes' \in Seq(Tables \X Opportunities)
           /\ Len(writes') = Len(writes) + 1
           /\ writes'[Len(writes) + 1] = <<table, o>>
           /\ \A i \in 1 .. Len(writes) : writes'[i] = writes[i]
<1>1. writes \in Seq(Tables \X Opportunities) /\ <<table, o>> \in Tables \X Opportunities
  BY DEF MatchTypeOK, Tables
<1>2. writes' = Append(writes, <<table, o>>)
  BY DEF QueueRow, NoHindsight
<1>3. QED
  BY <1>1, <1>2

(* What was sent or sent before another row stays so when the queue grows. *)
LEMMA SentStays ==
    ASSUME oppRows' = oppRows, Len(writes) \in Nat,
           Len(writes') = Len(writes) \/ Len(writes') = Len(writes) + 1,
           \A i \in 1 .. Len(writes) : writes'[i] = writes[i]
    PROVE  /\ \A p : Sent(p) => Sent(p)'
           /\ \A i \in 1 .. Len(writes) : \A p : SentBefore(i, p) => SentBefore(i, p)'
<1>1. ASSUME NEW p, Sent(p) PROVE Sent(p)'
  <2>1. CASE p \in oppRows
    BY <2>1 DEF Sent
  <2>2. CASE p \notin oppRows
    <3>1. PICK j \in 1 .. Len(writes) : writes[j] = <<"opportunity", p>>
      BY <1>1, <2>2 DEF Sent
    <3>2. j \in 1 .. Len(writes') /\ writes'[j] = writes[j]
      BY <3>1
    <3>3. QED
      BY <3>1, <3>2 DEF Sent
  <2>3. QED
    BY <2>1, <2>2
<1>2. ASSUME NEW i \in 1 .. Len(writes), NEW p, SentBefore(i, p) PROVE SentBefore(i, p)'
  <2>1. CASE p \in oppRows
    BY <2>1 DEF SentBefore
  <2>2. CASE p \notin oppRows
    <3>1. PICK j \in 1 .. i - 1 : writes[j] = <<"opportunity", p>>
      BY <1>2, <2>2 DEF SentBefore
    <3>2. writes'[j] = writes[j]
      BY <3>1
    <3>3. QED
      BY <3>1, <3>2 DEF SentBefore
  <2>3. QED
    BY <2>1, <2>2
<1>3. QED
  BY <1>1, <1>2

LEMMA ProposePreserves ==
    ASSUME NoHindsight, MatchIInv, NEW o \in Opportunities, Propose(o)
    PROVE  MatchIInv'
<1> USE MatchingAssumption DEF MatchIInv, rows, evidence, chainEvidence
<1>1. /\ UNCHANGED <<newest, victimIn, lastGiven, oppRows, simRows, blockTxs, compared,
                     matches, positives, work>>
      /\ simulating' = simulating \cup {o} /\ Proposed(o) /\ QueueRow("opportunity", o)
  BY DEF Propose, RecordOpportunity
<1>2. writes \in Seq(Tables \X Opportunities) /\ Len(writes) \in Nat
  BY DEF MatchTypeOK, Tables
<1>3. /\ writes' \in Seq(Tables \X Opportunities) /\ Len(writes') = Len(writes) + 1
      /\ writes'[Len(writes) + 1] = <<"opportunity", o>>
      /\ \A i \in 1 .. Len(writes) : writes'[i] = writes[i]
  BY <1>1, Queued DEF Tables
<1>4. MatchTypeOK'
  BY <1>1, <1>3 DEF MatchTypeOK, Tables
<1>5. \A p : Past(p)' = Past(p)
  BY <1>1 DEF Past
<1>6. \A p \in Opportunities : Everywhere(p)' => p = o \/ Everywhere(p)
  BY <1>1, <1>2, <1>3 DEF Everywhere
<1>7. o.by = "replay" => Past(o)
  BY <1>1 DEF Proposed, WorkInv, Past, MatchTypeOK
<1>8. HindsightInv'
  BY <1>5, <1>6, <1>7 DEF HindsightInv
<1>9. WorkInv'
  BY <1>1, <1>5 DEF WorkInv
<1>10. RowsInv'
  <2>1. \A i \in 1 .. Len(writes) : \A p : SentBefore(i, p) => SentBefore(i, p)'
    BY <1>1, <1>2, <1>3, SentStays
  <2>2. ASSUME NEW p \in simulating' PROVE Sent(p)'
    <3>1. CASE p = o
      BY <1>2, <1>3, <3>1 DEF Sent
    <3>2. CASE p \in simulating
      <4>1. Sent(p)
        BY <3>2 DEF RowsInv
      <4>2. QED
        BY <1>1, <1>2, <1>3, <4>1, SentStays
    <3>3. QED
      BY <1>1, <2>2, <3>1, <3>2
  <2>3. ASSUME NEW i \in 1 .. Len(writes'), writes'[i][1] = "simulation"
        PROVE  SentBefore(i, writes[i][2])'
    <3>1. i \in 1 .. Len(writes) /\ writes'[i] = writes[i]
      BY <1>2, <1>3, <2>3
    <3>2. SentBefore(i, writes[i][2])
      BY <2>3, <3>1 DEF RowsInv
    <3>3. QED
      BY <1>2, <2>1, <3>1, <3>2 DEF SentBefore
  <2>4. QED
    BY <1>1, <2>2, <2>3 DEF RowsInv
<1>11. BlockEvidenceIsForesight'
  BY <1>1 DEF BlockEvidenceIsForesight, VictimLanded
<1>12. QED
  BY <1>4, <1>8, <1>9, <1>10, <1>11

LEMMA SimulatedPreserves ==
    ASSUME NoHindsight, MatchIInv, NEW o \in Opportunities, Simulated(o)
    PROVE  MatchIInv'
<1> USE MatchingAssumption DEF MatchIInv, rows, evidence, chainEvidence
<1>1. /\ UNCHANGED <<newest, victimIn, lastGiven, oppRows, simRows, blockTxs, compared,
                     matches, positives, work>>
      /\ o \in simulating /\ simulating' = simulating \ {o}
      /\ QueueRow("simulation", o) \/ UNCHANGED writes
  BY DEF Simulated
<1>2. writes \in Seq(Tables \X Opportunities) /\ Len(writes) \in Nat
  BY DEF MatchTypeOK, Tables
<1>3. \/ UNCHANGED writes
      \/ /\ writes' \in Seq(Tables \X Opportunities) /\ Len(writes') = Len(writes) + 1
         /\ writes'[Len(writes) + 1] = <<"simulation", o>>
         /\ \A i \in 1 .. Len(writes) : writes'[i] = writes[i]
  BY <1>1, Queued DEF Tables
<1>4. MatchTypeOK'
  BY <1>1, <1>3 DEF MatchTypeOK, Tables
<1>5. \A p : Past(p)' = Past(p)
  BY <1>1 DEF Past
<1>6. \A p \in Opportunities : Everywhere(p)' => Everywhere(p)
  BY <1>1, <1>2, <1>3 DEF Everywhere
<1>7. HindsightInv' /\ WorkInv'
  BY <1>1, <1>5, <1>6 DEF HindsightInv, WorkInv
<1>8. RowsInv'
  <2>1. CASE UNCHANGED writes
    BY <1>1, <2>1 DEF RowsInv, Sent, SentBefore
  <2>2. CASE ~UNCHANGED writes
    <3>1. \A i \in 1 .. Len(writes) : \A p : SentBefore(i, p) => SentBefore(i, p)'
      BY <1>1, <1>2, <1>3, <2>2, SentStays
    <3>2. ASSUME NEW p \in simulating PROVE Sent(p)'
      <4>1. Sent(p)
        BY DEF RowsInv
      <4>2. QED
        BY <1>1, <1>2, <1>3, <2>2, <4>1, SentStays
    <3>3. ASSUME NEW i \in 1 .. Len(writes'), writes'[i][1] = "simulation"
          PROVE  SentBefore(i, writes[i][2])'
      <4>1. CASE i = Len(writes) + 1
        <5>1. Sent(o) /\ writes'[i][2] = o
          BY <1>1, <1>3, <2>2, <4>1 DEF RowsInv
        <5>2. i - 1 = Len(writes)
          BY <1>2, <4>1
        <5>3. \A j \in 1 .. i - 1 : writes'[j] = writes[j]
          BY <1>3, <2>2, <5>2
        <5>4. QED
          BY <1>1, <5>1, <5>2, <5>3 DEF Sent, SentBefore
      <4>2. CASE i \in 1 .. Len(writes)
        <5>1. writes'[i] = writes[i]
          BY <1>3, <2>2, <4>2
        <5>2. SentBefore(i, writes[i][2])
          BY <3>3, <4>2, <5>1 DEF RowsInv
        <5>3. QED
          BY <1>2, <3>1, <4>2, <5>1, <5>2 DEF SentBefore
      <4>3. QED
        BY <1>2, <1>3, <2>2, <3>3, <4>1, <4>2
    <3>4. QED
      BY <1>1, <3>2, <3>3 DEF RowsInv
  <2>3. QED
    BY <2>1, <2>2
<1>9. BlockEvidenceIsForesight'
  BY <1>1 DEF BlockEvidenceIsForesight, VictimLanded
<1>10. QED
  BY <1>4, <1>7, <1>8, <1>9

LEMMA WriteRowPreserves ==
    ASSUME NoHindsight, MatchIInv, WriteRow
    PROVE  MatchIInv'
<1> USE MatchingAssumption DEF MatchIInv, rows, evidence, chainEvidence
<1> DEFINE table == Head(writes)[1]
           o     == Head(writes)[2]
<1>1. /\ UNCHANGED <<newest, victimIn, lastGiven, blockTxs, compared, matches, positives,
                     simulating, work>>
      /\ writes # <<>> /\ writes' = Tail(writes)
      /\ oppRows' = IF table = "opportunity" THEN oppRows \cup {o} ELSE oppRows
      /\ simRows' = IF table = "simulation" THEN simRows \cup {o} ELSE simRows
  BY DEF WriteRow, NoHindsight
<1>2. /\ writes \in Seq(Tables \X Opportunities) /\ Len(writes) \in Nat \ {0}
      /\ Head(writes) = writes[1] /\ writes[1] \in Tables \X Opportunities
  BY <1>1 DEF MatchTypeOK, Tables
<1>3. /\ writes' \in Seq(Tables \X Opportunities) /\ Len(writes') = Len(writes) - 1
      /\ \A i \in 1 .. Len(writes') : writes'[i] = writes[i + 1]
  BY <1>1, <1>2
<1>4. table \in Tables /\ o \in Opportunities /\ writes[1] = <<table, o>>
  BY <1>2
<1> HIDE DEF table, o
<1>5. MatchTypeOK'
  BY <1>1, <1>3, <1>4 DEF MatchTypeOK, Tables
<1>6. \A p : Past(p)' = Past(p)
  BY <1>1 DEF Past
<1>7. \A p \in Opportunities : Everywhere(p)' => Everywhere(p)
  BY <1>1, <1>2, <1>3, <1>4 DEF Everywhere
<1>8. HindsightInv' /\ WorkInv'
  BY <1>1, <1>6, <1>7 DEF HindsightInv, WorkInv
<1>9. ASSUME NEW i \in 2 .. Len(writes) + 1, NEW p, SentBefore(i, p)
      PROVE  p \in oppRows' \/ \E j \in 1 .. i - 2 : writes'[j] = <<"opportunity", p>>
  <2>1. CASE p \in oppRows
    BY <1>1, <2>1
  <2>2. CASE \E j \in 1 .. i - 1 : writes[j] = <<"opportunity", p>>
    <3>1. PICK j \in 1 .. i - 1 : writes[j] = <<"opportunity", p>>
      BY <2>2
    <3>2. CASE j = 1
      BY <1>1, <1>4, <3>1, <3>2
    <3>3. CASE j # 1
      <4>1. j - 1 \in 1 .. Len(writes') /\ j - 1 \in 1 .. i - 2 /\ (j - 1) + 1 = j
        BY <1>2, <1>3, <1>9, <3>1, <3>3
      <4>2. writes'[j - 1] = <<"opportunity", p>>
        BY <1>3, <3>1, <4>1
      <4>3. QED
        BY <4>1, <4>2
    <3>4. QED
      BY <3>2, <3>3
  <2>3. QED
    BY <1>9, <2>1, <2>2 DEF SentBefore
<1>10. RowsInv'
  <2>1. simRows' \subseteq oppRows'
    <3>1. table = "simulation" => o \in oppRows
      BY <1>2, <1>4 DEF RowsInv, SentBefore
    <3>2. QED
      BY <1>1, <3>1 DEF RowsInv
  <2>2. ASSUME NEW p \in simulating PROVE Sent(p)'
    <3>1. Len(writes) + 1 \in 2 .. Len(writes) + 1 /\ (Len(writes) + 1) - 1 = Len(writes)
          /\ (Len(writes) + 1) - 2 = Len(writes')
      BY <1>2, <1>3
    <3>2. SentBefore(Len(writes) + 1, p)
      BY <3>1 DEF RowsInv, Sent, SentBefore
    <3>3. p \in oppRows' \/ \E j \in 1 .. (Len(writes) + 1) - 2 : writes'[j] = <<"opportunity", p>>
      BY <1>9, <3>1, <3>2
    <3>4. QED
      BY <3>1, <3>3 DEF Sent
  <2>3. ASSUME NEW i \in 1 .. Len(writes'), writes'[i][1] = "simulation"
        PROVE  SentBefore(i, writes[i][2])'
    <3>1. writes'[i] = writes[i + 1] /\ i + 1 \in 2 .. Len(writes) + 1 /\ i + 1 \in 1 .. Len(writes)
          /\ (i + 1) - 2 = i - 1
      BY <1>2, <1>3
    <3>2. SentBefore(i + 1, writes[i + 1][2])
      BY <2>3, <3>1 DEF RowsInv
    <3>3. \/ writes[i + 1][2] \in oppRows'
          \/ \E j \in 1 .. i - 1 : writes'[j] = <<"opportunity", writes[i + 1][2]>>
      BY <1>9, <3>1, <3>2
    <3>4. QED
      BY <3>1, <3>3 DEF SentBefore
  <2>4. QED
    BY <1>1, <2>1, <2>2, <2>3 DEF RowsInv
<1>11. BlockEvidenceIsForesight'
  BY <1>1 DEF BlockEvidenceIsForesight, VictimLanded
<1>12. QED
  BY <1>5, <1>8, <1>10, <1>11

(* What the worker does between two deliveries touches no row of the queue. *)
LEMMA QuietKeepsRows ==
    ASSUME RowsInv, UNCHANGED <<rows, writes, simulating>>
    PROVE  RowsInv'
BY DEF rows, RowsInv, Sent, SentBefore

LEMMA FindBaselinePreserves == MatchIInv /\ FindBaseline => MatchIInv'
<1> SUFFICES ASSUME MatchIInv, FindBaseline PROVE MatchIInv'
  OBVIOUS
<1> USE MatchingAssumption DEF MatchIInv, FindBaseline, chainEvidence, evidence
<1>1. newest \in Nat \ {0} /\ lastGiven' = newest /\ newest' = newest
  BY DEF MatchTypeOK
<1>2. MatchTypeOK'
  BY <1>1 DEF MatchTypeOK, rows
<1>3. \A o : Past(o) => Past(o)'
  BY <1>1 DEF Past
<1>4. HindsightInv'
  BY <1>3 DEF HindsightInv, Everywhere, rows
<1>5. work.step = "idle" \/ work.block <= newest
  BY DEF MatchTypeOK
<1>6. WorkInv'
  BY <1>1, <1>3, <1>5 DEF WorkInv
<1>7. RowsInv'
  BY QuietKeepsRows
<1>8. BlockEvidenceIsForesight'
  BY DEF BlockEvidenceIsForesight, VictimLanded
<1>9. QED
  BY <1>2, <1>4, <1>6, <1>7, <1>8

LEMMA DeliverBlockPreserves ==
    ASSUME NoHindsight, MatchIInv, NEW n \in MatchBlocks, DeliverBlock(n)
    PROVE  MatchIInv'
<1> USE MatchingAssumption DEF MatchIInv, chainEvidence, evidence
<1>1. /\ UNCHANGED <<newest, victimIn, oppRows, simRows, compared, matches, positives,
                     writes, simulating>>
      /\ lastGiven > 0 /\ lastGiven < n /\ n <= newest /\ lastGiven' = n
      /\ blockTxs' \subseteq blockTxs \cup {n}
      /\ work' = [step |-> "match", block |-> n, left |-> {o \in oppRows : o.block = n}]
  BY DEF DeliverBlock, StoreBlock, NoHindsight, rows
<1>2. n \in Nat /\ newest \in Nat /\ lastGiven \in Nat /\ n \in 1 .. newest
  BY <1>1 DEF MatchBlocks, MatchTypeOK
<1>3. MatchTypeOK'
  <2>1. work' \in [step : {"idle", "match", "score", "reconcile"},
                   block : 0 .. newest', left : SUBSET Opportunities]
    BY <1>1, <1>2 DEF MatchTypeOK
  <2>2. QED
    BY <1>1, <1>2, <2>1 DEF MatchTypeOK
<1>4. \A o \in Opportunities : Past(o) => Past(o)' /\ o.block # n
  BY <1>1, <1>2 DEF Past, Opportunities, MatchBlocks
<1>5. HindsightInv'
  BY <1>1, <1>4 DEF HindsightInv, Everywhere
<1>6. WorkInv'
  <2>1. ASSUME NEW o \in work'.left
        PROVE  o.by = "live" /\ o.block = work'.block /\ compared'[o] = 0
    <3>1. o \in oppRows /\ o.block = n /\ o \in Opportunities
      BY <1>1 DEF MatchTypeOK
    <3>2. ~Past(o) /\ Everywhere(o)
      BY <1>4, <3>1 DEF Everywhere
    <3>3. o.by = "live"
      BY <3>1, <3>2 DEF HindsightInv, Opportunities
    <3>4. compared[o] \in 0 .. 2 /\ ~(compared[o] > 0)
      BY <3>1, <3>2 DEF WorkInv, MatchTypeOK
    <3>5. QED
      BY <1>1, <3>1, <3>3, <3>4
  <2>2. \A o \in Opportunities : compared'[o] > 0 => Past(o)'
    BY <1>1, <1>4 DEF WorkInv
  <2>3. QED
    BY <1>1, <1>2, <2>1, <2>2 DEF WorkInv
<1>7. RowsInv'
  BY <1>1, QuietKeepsRows DEF rows
<1>8. BlockEvidenceIsForesight'
  BY <1>1 DEF BlockEvidenceIsForesight, VictimLanded
<1>9. QED
  BY <1>3, <1>5, <1>6, <1>7, <1>8

LEMMA MatchVictimPreserves ==
    ASSUME MatchIInv, NEW o \in Opportunities, MatchVictim(o)
    PROVE  MatchIInv'
<1> USE MatchingAssumption DEF MatchIInv, chainEvidence
<1>1. /\ UNCHANGED <<newest, victimIn, lastGiven, oppRows, simRows, blockTxs, positives,
                     writes, simulating>>
      /\ work.step = "match" /\ o \in work.left
      /\ work' = [work EXCEPT !.left = @ \ {o}]
      /\ compared' = compared \/ compared' = [compared EXCEPT ![o] = @ + 1]
      /\ matches' \subseteq matches \cup {o}
  BY DEF MatchVictim, Matched, CompareVictim, rows
<1>2. /\ DOMAIN work = {"step", "block", "left"}
      /\ work'.step = work.step /\ work'.block = work.block
      /\ work'.left = work.left \ {o} /\ compared[o] = 0 /\ o.by = "live"
      /\ o.block = work.block
  BY <1>1 DEF WorkInv, MatchTypeOK
<1>3. /\ DOMAIN compared = Opportunities
      /\ \A p \in Opportunities : compared'[p] = compared[p] \/ (p = o /\ compared'[p] = 1)
  <2>1. compared \in [Opportunities -> 0 .. 2]
    BY DEF MatchTypeOK
  <2>2. CASE compared' = compared
    BY <2>1, <2>2
  <2>3. CASE compared' = [compared EXCEPT ![o] = @ + 1]
    BY <1>2, <2>1, <2>3
  <2>4. QED
    BY <1>1, <2>1, <2>2, <2>3
<1>4. MatchTypeOK'
  <2>1. compared' \in [Opportunities -> 0 .. 2]
    BY <1>1, <1>2, <1>3 DEF MatchTypeOK
  <2>2. work' \in [step : {"idle", "match", "score", "reconcile"},
                   block : 0 .. newest, left : SUBSET Opportunities]
    BY <1>1, <1>2 DEF MatchTypeOK
  <2>3. QED
    BY <1>1, <2>1, <2>2 DEF MatchTypeOK
<1>5. HindsightInv'
  BY <1>1 DEF HindsightInv, Everywhere, Past
<1>6. Past(o) /\ (\A p : Past(p) => Past(p)')
  BY <1>1, <1>2 DEF Past, WorkInv, MatchTypeOK
<1>7. WorkInv'
  <2>1. \A p \in work'.left : p.by = "live" /\ p.block = work'.block /\ compared'[p] = 0
    BY <1>2, <1>3 DEF WorkInv, MatchTypeOK
  <2>2. \A p \in Opportunities : compared'[p] > 0 => Past(p)'
    BY <1>3, <1>6 DEF WorkInv
  <2>3. QED
    BY <1>1, <1>2, <2>1, <2>2 DEF WorkInv
<1>8. RowsInv'
  BY <1>1, QuietKeepsRows DEF rows
<1>9. BlockEvidenceIsForesight'
  <2>1. \A p \in Opportunities : compared'[p] <= 1 /\ (compared'[p] > 0 => p.by = "live")
    <3>1. \A p \in Opportunities : compared[p] <= 1 /\ (compared[p] > 0 => p.by = "live")
      BY DEF BlockEvidenceIsForesight
    <3>2. QED
      BY <1>2, <1>3, <3>1
  <2>2. \A p \in matches' : p.by = "live"
    BY <1>1, <1>2 DEF BlockEvidenceIsForesight
  <2>3. QED
    BY <1>1, <2>1, <2>2 DEF BlockEvidenceIsForesight, VictimLanded
<1>10. QED
  BY <1>4, <1>5, <1>7, <1>8, <1>9

LEMMA MatchAtomicArbPreserves ==
    ASSUME MatchIInv, NEW o \in Opportunities, MatchAtomicArb(o)
    PROVE  MatchIInv'
<1> USE MatchingAssumption DEF MatchIInv, chainEvidence
<1>1. /\ UNCHANGED <<newest, victimIn, lastGiven, oppRows, simRows, blockTxs, compared,
                     positives, writes, simulating>>
      /\ work.step = "match" /\ o \in work.left
      /\ work' = [work EXCEPT !.left = @ \ {o}]
      /\ matches' \subseteq matches \cup {o}
  BY DEF MatchAtomicArb, Matched, rows
<1>2. /\ DOMAIN work = {"step", "block", "left"}
      /\ work'.step = work.step /\ work'.block = work.block
      /\ work'.left = work.left \ {o} /\ o.by = "live"
  BY <1>1 DEF WorkInv, MatchTypeOK
<1>3. MatchTypeOK'
  BY <1>1, <1>2 DEF MatchTypeOK
<1>4. HindsightInv' /\ WorkInv'
  BY <1>1, <1>2 DEF HindsightInv, Everywhere, Past, WorkInv
<1>5. RowsInv'
  BY <1>1, QuietKeepsRows DEF rows
<1>6. BlockEvidenceIsForesight'
  BY <1>1, <1>2 DEF BlockEvidenceIsForesight, VictimLanded
<1>7. QED
  BY <1>3, <1>4, <1>5, <1>6

LEMMA ScoringPreserves == MatchIInv /\ (StartScoring \/ EndScoring) => MatchIInv'
<1> SUFFICES ASSUME MatchIInv, StartScoring \/ EndScoring PROVE MatchIInv'
  OBVIOUS
<1> USE MatchingAssumption DEF MatchIInv, chainEvidence, evidence
<1>1. /\ UNCHANGED <<newest, victimIn, lastGiven, oppRows, simRows, blockTxs, compared,
                     matches, positives, writes, simulating>>
      /\ work.step # "idle"
      /\ \E step \in {"score", "reconcile"} : work' = [work EXCEPT !.step = step]
  BY DEF StartScoring, EndScoring, rows
<1>2. /\ DOMAIN work = {"step", "block", "left"}
      /\ work'.block = work.block /\ work'.left = work.left
      /\ work'.step \in {"score", "reconcile"}
  BY <1>1 DEF MatchTypeOK
<1>3. MatchTypeOK'
  BY <1>1, <1>2 DEF MatchTypeOK
<1>4. HindsightInv' /\ WorkInv'
  BY <1>1, <1>2 DEF HindsightInv, Everywhere, Past, WorkInv
<1>5. RowsInv'
  BY <1>1, QuietKeepsRows DEF rows
<1>6. BlockEvidenceIsForesight'
  BY <1>1 DEF BlockEvidenceIsForesight, VictimLanded
<1>7. QED
  BY <1>3, <1>4, <1>5, <1>6

LEMMA ReconcilePreserves == MatchIInv /\ Reconcile => MatchIInv'
<1> SUFFICES ASSUME MatchIInv, Reconcile PROVE MatchIInv'
  OBVIOUS
<1> USE MatchingAssumption DEF MatchIInv, chainEvidence
<1>1. /\ UNCHANGED <<newest, victimIn, lastGiven, oppRows, simRows, blockTxs, compared,
                     matches, writes, simulating>>
      /\ positives' \subseteq positives \cup {o \in simRows : TookPlace(o)}
      /\ work' = NoBlock
  BY DEF Reconcile, RecordReconciliation, ReplayCandidates, rows
<1>2. MatchTypeOK'
  BY <1>1 DEF MatchTypeOK, NoBlock
<1>3. HindsightInv' /\ WorkInv'
  BY <1>1 DEF HindsightInv, Everywhere, Past, WorkInv, NoBlock
<1>4. RowsInv'
  BY <1>1, QuietKeepsRows DEF rows
<1>5. BlockEvidenceIsForesight'
  BY <1>1 DEF BlockEvidenceIsForesight, VictimLanded, TookPlace, RowsInv, MatchTypeOK
<1>6. QED
  BY <1>2, <1>3, <1>4, <1>5

(* A process that starts again forgets where it was, which forgets no evidence. *)
LEMMA MatchRestartsPreserves == MatchIInv /\ MatchRestarts => MatchIInv'
<1> SUFFICES ASSUME MatchIInv, MatchRestarts PROVE MatchIInv'
  OBVIOUS
<1> USE MatchingAssumption DEF MatchIInv, MatchRestarts, chainEvidence, rows, evidence
<1>1. MatchTypeOK'
  BY DEF MatchTypeOK, NoBlock
<1>2. \A o : Past(o) => Past(o)'
  BY DEF Past
<1>3. HindsightInv' /\ WorkInv'
  BY <1>2 DEF HindsightInv, Everywhere, WorkInv, NoBlock
<1>4. RowsInv'
  BY DEF RowsInv
<1>5. BlockEvidenceIsForesight'
  BY DEF BlockEvidenceIsForesight, VictimLanded
<1>6. QED
  BY <1>1, <1>3, <1>4, <1>5

LEMMA MatchStep ==
    ASSUME NoHindsight, MatchIInv, [MatchNext]_matchVars
    PROVE  MatchIInv'
<1>1. CASE UNCHANGED matchVars
  <2>1. UNCHANGED <<newest, victimIn, lastGiven, oppRows, simRows, blockTxs, compared,
                    matches, positives, writes, simulating, work>>
    BY <1>1 DEF matchVars, chainEvidence, rows, evidence
  <2>2. QED
    BY <2>1 DEF MatchIInv, MatchTypeOK, HindsightInv, Everywhere, Past, WorkInv, RowsInv,
       Sent, SentBefore, BlockEvidenceIsForesight, VictimLanded
<1>2. CASE MatchNext
  <2>1. CASE NextMined
    BY <2>1, NextMinedPreserves
  <2>2. CASE WriteRow
    BY <2>2, WriteRowPreserves
  <2>3. CASE FindBaseline
    BY <2>3, FindBaselinePreserves
  <2>4. CASE \E o \in Opportunities :
                Propose(o) \/ Simulated(o) \/ MatchVictim(o) \/ MatchAtomicArb(o)
    BY <2>4, ProposePreserves, SimulatedPreserves, MatchVictimPreserves,
       MatchAtomicArbPreserves
  <2>5. CASE \E n \in MatchBlocks : DeliverBlock(n)
    BY <2>5, DeliverBlockPreserves
  <2>6. CASE StartScoring \/ EndScoring
    BY <2>6, ScoringPreserves
  <2>7. CASE Reconcile
    BY <2>7, ReconcilePreserves
  <2>8. CASE MatchRestarts
    BY <2>8, MatchRestartsPreserves
  <2>9. QED
    BY <1>2, <2>1, <2>2, <2>3, <2>4, <2>5, <2>6, <2>7, <2>8 DEF MatchNext
<1>3. QED
  BY <1>1, <1>2

(* If no old block is delivered again and every queued row is written, the     *)
(* inductive invariant holds in every state.                                *)
THEOREM MatchInvariance == NoHindsight => (MatchSpec => []MatchIInv)
<1>1. MatchInit => MatchIInv
  BY MatchInitHolds
<1>2. NoHindsight /\ MatchIInv /\ [MatchNext]_matchVars => MatchIInv'
  BY MatchStep
<1>3. SUFFICES ASSUME NoHindsight PROVE MatchSpec => []MatchIInv
  OBVIOUS
<1>4. MatchIInv /\ [MatchNext]_matchVars => MatchIInv'
  BY <1>2, <1>3
<1>5. QED
  BY <1>1, <1>4, PTL DEF MatchSpec

(* What the gate counts of a block was decided before the block was known,     *)
(* nothing is compared twice, and a simulation counts as true only if its     *)
(* victim is in the block (engine.rs 1386-1437, attribution.rs 233-516).     *)
THEOREM EvidenceWithoutHindsight ==
    NoHindsight => (MatchSpec => []BlockEvidenceIsForesight)
<1>1. MatchIInv => BlockEvidenceIsForesight
  BY DEF MatchIInv
<1>2. SUFFICES ASSUME NoHindsight PROVE MatchSpec => []BlockEvidenceIsForesight
  OBVIOUS
<1>3. MatchSpec => []MatchIInv
  BY <1>2, MatchInvariance
<1>4. QED
  BY <1>1, <1>3, PTL

-----------------------------------------------------------------------------
(***************************************************************************)
(* Flashblocks: a lost frame is counted, nothing is emitted twice and what is*)
(* pinned expires, for any number of blocks, frames and windows.            *)
(***************************************************************************)

FlashTypes ==
    /\ built \subseteq Frames /\ building \in built
    /\ ended \in [1 .. Blocks -> 0 .. Indices]
    /\ lastFrame \in Positions \cup {NoFrame}
    /\ window \in Seq(Frames)
    /\ gaps \in BOOLEAN
    /\ latest \in built \cup {NoFrame}
    /\ delivered \subseteq built /\ emitted \subseteq delivered

(* The parser and the tracker both know the newest frame that was delivered. *)
NewestInv ==
    /\ lastFrame # NoFrame => \E f \in delivered : lastFrame = Position(f)
    /\ \A f \in delivered :
          /\ lastFrame # NoFrame /\ ~Before(lastFrame, Position(f))
          /\ latest # NoFrame /\ ~Before(Position(latest), Position(f))

(* Without a replaced payload the frames are one chain, and links name the    *)
(* end of the block before.                                                *)
ChainInv ==
    rebuilt = {} =>
        \A f \in built :
            /\ f.payload = 0 /\ f.block <= building.block
            /\ f.block = building.block => f.index <= building.index
            /\ f.block < building.block => f.index <= ended[f.block]
            /\ f.index = 0 /\ f.block > 1
                  => f.link \in {NoLink, <<f.block - 1, ended[f.block - 1]>>}
            /\ \A g \in built : Position(f) = Position(g) => f = g

(* What was emitted is still remembered, unless the feed is well ahead of it. *)
WindowInv ==
    \A f \in emitted : f \in Range(window) \/ lastFrame[1] > f.block + DedupeBlocks

(* Without a gap everything was delivered, from the start of some block on,   *)
(* but for the tails of blocks whose successor came without a link.          *)
LossInv ==
    ~gaps /\ rebuilt = {} /\ lastFrame # NoFrame =>
        \E s \in 1 .. Blocks :
            /\ \A f \in delivered : s <= f.block
            /\ \A f \in built : s <= f.block /\ ~Before(lastFrame, Position(f))
                                    => f \in delivered \/ UnlinkedTail(f)

FlashIInv == FlashTypes /\ NewestInv /\ ChainInv /\ WindowInv /\ LossInv

LEMMA FlashNats ==
    /\ Blocks \in Nat /\ Blocks # 0 /\ Indices \in Nat /\ Irregular \in Nat
    /\ DedupeBlocks \in Nat
BY FlashAssumption

LEMMA FrameTypes ==
    ASSUME NEW f \in Frames
    PROVE  /\ f.block \in Nat /\ f.block \in 1 .. Blocks /\ f.index \in Nat
           /\ f.index \in 0 .. Indices /\ f.payload \in Nat
           /\ Position(f) \in Positions
           /\ Position(f)[1] = f.block /\ Position(f)[2] = f.index
           /\ f # NoFrame /\ Position(f) # NoFrame
<1>1. f.block \in 1 .. Blocks /\ f.index \in 0 .. Indices /\ f.payload \in 0 .. Irregular
  BY DEF Frames
<1>2. f.block \in Nat /\ f.index \in Nat /\ f.payload \in Nat
  BY <1>1, FlashNats
<1>3. Position(f) \in Positions
  BY <1>1 DEF Position, Positions
<1>4. f # NoFrame /\ Position(f) # NoFrame
  BY <1>3, NoFrameAssumption
<1>5. QED
  BY <1>1, <1>2, <1>3, <1>4 DEF Position

LEMMA PositionTypes ==
    ASSUME NEW p \in Positions
    PROVE  p[1] \in Nat /\ p[2] \in Nat /\ p = <<p[1], p[2]>>
BY FlashNats DEF Positions

(* The order of positions is total. *)
LEMMA PositionOrder ==
    ASSUME NEW p \in Positions, NEW q \in Positions, NEW r \in Positions
    PROVE  /\ ~Before(p, p)
           /\ Before(p, q) => ~Before(q, p)
           /\ ~Before(p, q) /\ ~Before(q, r) => ~Before(p, r)
           /\ Before(p, q) /\ ~Before(r, q) => ~Before(r, p)
           /\ ~Before(p, q) => q[1] <= p[1]
           /\ Before(p, q) => p[1] <= q[1]
<1>1. /\ p[1] \in Nat /\ p[2] \in Nat /\ q[1] \in Nat /\ q[2] \in Nat
      /\ r[1] \in Nat /\ r[2] \in Nat
  BY PositionTypes
<1>2. QED
  BY <1>1 DEF Before

LEMMA FlashInitHolds == FlashInit => FlashIInv
<1> SUFFICES ASSUME FlashInit PROVE FlashIInv
  OBVIOUS
<1> USE DEF FlashInit
<1>1. FirstFrame \in Frames
  BY FlashNats DEF FirstFrame, Frames
<1>2. FlashTypes
  <2>1. ended \in [1 .. Blocks -> 0 .. Indices]
    BY FlashNats
  <2>2. window \in Seq(Frames)
    OBVIOUS
  <2>3. built \subseteq Frames /\ building \in built
    BY <1>1
  <2>4. /\ lastFrame \in Positions \cup {NoFrame} /\ gaps \in BOOLEAN
        /\ latest \in built \cup {NoFrame}
        /\ delivered \subseteq built /\ emitted \subseteq delivered
    OBVIOUS
  <2>5. QED
    BY <2>1, <2>2, <2>3, <2>4 DEF FlashTypes
<1>3. NewestInv /\ WindowInv /\ LossInv
  BY DEF NewestInv, WindowInv, LossInv
<1>4. ChainInv
  <2>1. FirstFrame.payload = 0 /\ FirstFrame.block = 1 /\ FirstFrame.index = 0
    BY DEF FirstFrame
  <2>2. QED
    BY <2>1 DEF ChainInv
<1>5. QED
  BY <1>2, <1>3, <1>4 DEF FlashIInv

(* What the sequencer builds leaves what was delivered as it is. *)
LEMMA BuildKeeps ==
    ASSUME FlashIInv, NEW f \in Frames, Build(f),
           ended' \in [1 .. Blocks -> 0 .. Indices]
    PROVE  FlashTypes' /\ NewestInv' /\ WindowInv'
<1>1. /\ built' = built \cup {f} /\ building' = f
      /\ UNCHANGED <<lastFrame, window, gaps, latest, delivered, emitted>>
  BY DEF Build, parserVars, trackerVars
<1>2. FlashTypes'
  BY <1>1 DEF FlashIInv, FlashTypes
<1>3. NewestInv'
  BY <1>1 DEF FlashIInv, NewestInv
<1>4. WindowInv'
  BY <1>1 DEF FlashIInv, WindowInv
<1>5. QED
  BY <1>2, <1>3, <1>4

(* A new frame is ahead of everything delivered, so no loss comes with it. *)
LEMMA AheadKeepsLoss ==
    ASSUME FlashIInv, NEW f \in Frames, Build(f), UNCHANGED rebuilt, rebuilt = {},
           Before(Position(building), Position(f))
    PROVE  LossInv'
<1>1. /\ built' = built \cup {f}
      /\ UNCHANGED <<lastFrame, gaps, delivered, rebuilt>>
  BY DEF Build, parserVars, trackerVars
<1> SUFFICES ASSUME ~gaps, lastFrame # NoFrame
             PROVE  \E s \in 1 .. Blocks :
                       /\ \A d \in delivered : s <= d.block
                       /\ \A g \in built \cup {f} :
                             s <= g.block /\ ~Before(lastFrame, Position(g))
                                => g \in delivered \/ UnlinkedTail(g)
  BY <1>1 DEF LossInv, UnlinkedTail
<1>2. PICK s \in 1 .. Blocks :
          /\ \A d \in delivered : s <= d.block
          /\ \A g \in built : s <= g.block /\ ~Before(lastFrame, Position(g))
                                 => g \in delivered \/ UnlinkedTail(g)
  BY DEF FlashIInv, LossInv
<1>3. PICK d \in delivered : lastFrame = Position(d)
  BY DEF FlashIInv, NewestInv
<1>4. d \in built /\ d \in Frames /\ building \in Frames
  BY DEF FlashIInv, FlashTypes
<1>5. /\ d.block <= building.block
      /\ d.block = building.block => d.index <= building.index
  BY <1>4 DEF FlashIInv, ChainInv
<1>6. Before(lastFrame, Position(f))
  <2>1. /\ Position(d)[1] = d.block /\ Position(d)[2] = d.index
        /\ Position(building)[1] = building.block /\ Position(building)[2] = building.index
        /\ Position(f)[1] = f.block /\ Position(f)[2] = f.index
        /\ d.block \in Nat /\ d.index \in Nat /\ building.block \in Nat
        /\ building.index \in Nat /\ f.block \in Nat /\ f.index \in Nat
    BY <1>4, FrameTypes
  <2>2. QED
    BY <1>3, <1>5, <2>1 DEF Before
<1>7. QED
  BY <1>2, <1>6

LEMMA NextFrameKeeps ==
    ASSUME FlashIInv, NextFrame
    PROVE  FlashIInv'
<1>0. PICK link \in LinksTo(Position(building)) :
         Build([building EXCEPT !.index = building.index + 1, !.link = link])
  BY DEF NextFrame
<1> DEFINE f == [building EXCEPT !.index = building.index + 1, !.link = link]
<1>1. /\ building.index < Indices /\ Build(f) /\ ended' = ended /\ rebuilt' = rebuilt
      /\ built' = built \cup {f} /\ building' = f
  BY <1>0 DEF NextFrame, Build
<1>2. building \in built /\ building \in Frames /\ ended \in [1 .. Blocks -> 0 .. Indices]
      /\ built \subseteq Frames
  BY DEF FlashIInv, FlashTypes
<1>3. /\ Position(building) \in Positions /\ building.index \in Nat
      /\ building.block \in Nat /\ building.index \in 0 .. Indices
      /\ link \in Positions \cup {NoLink}
  BY <1>2, FrameTypes DEF LinksTo
<1>4. building.index + 1 \in 0 .. Indices
  BY <1>1, <1>3, FlashNats
<1>5. /\ f \in Frames /\ f.block = building.block /\ f.index = building.index + 1
      /\ f.payload = building.payload
  BY <1>2, <1>3, <1>4 DEF Frames
<1> HIDE DEF f
<1>6. FlashTypes' /\ NewestInv' /\ WindowInv'
  BY <1>1, <1>2, <1>5, BuildKeeps
<1>7. CASE rebuilt # {}
  <2>1. ChainInv' /\ LossInv'
    BY <1>1, <1>7 DEF ChainInv, LossInv
  <2>2. QED
    BY <1>6, <2>1 DEF FlashIInv
<1>8. CASE rebuilt = {}
  <2>1. \A g \in built :
            /\ g.payload = 0 /\ g.block <= building.block
            /\ g.block = building.block => g.index <= building.index
            /\ g.block < building.block => g.index <= ended[g.block]
            /\ g.index = 0 /\ g.block > 1
                  => g.link \in {NoLink, <<g.block - 1, ended[g.block - 1]>>}
            /\ \A h \in built : Position(g) = Position(h) => g = h
    BY <1>8 DEF FlashIInv, ChainInv
  <2>2. \A g \in built : g.block \in Nat /\ g.index \in Nat
                         /\ Position(g)[1] = g.block /\ Position(g)[2] = g.index
    BY <1>2, FrameTypes
  <2>3. Position(f)[1] = f.block /\ Position(f)[2] = f.index
    BY <1>5, FrameTypes
  <2>4. \A g \in built : Position(g) # Position(f)
    BY <1>3, <1>5, <2>1, <2>2, <2>3
  <2>5. f.payload = 0 /\ f.index # 0
    BY <1>2, <1>3, <1>5, <2>1
  <2>6. \A g \in built \cup {f} :
            /\ g.payload = 0 /\ g.block <= f.block
            /\ g.block = f.block => g.index <= f.index
            /\ g.block < f.block => g.index <= ended[g.block]
            /\ g.index = 0 /\ g.block > 1
                  => g.link \in {NoLink, <<g.block - 1, ended[g.block - 1]>>}
    BY <1>3, <1>5, <2>1, <2>2, <2>5
  <2>7. \A g, h \in built \cup {f} : Position(g) = Position(h) => g = h
    BY <2>1, <2>4
  <2>8. ChainInv'
    BY <1>1, <2>6, <2>7 DEF ChainInv
  <2>9. Before(Position(building), Position(f))
    BY <1>2, <1>3, <1>5, <2>2, <2>3 DEF Before
  <2>10. LossInv'
    BY <1>1, <1>5, <1>8, <2>9, AheadKeepsLoss
  <2>11. QED
    BY <1>6, <2>8, <2>10 DEF FlashIInv
<1>9. QED
  BY <1>7, <1>8

LEMMA NextBlockKeeps ==
    ASSUME FlashIInv, NextBlock
    PROVE  FlashIInv'
<1>0. PICK link \in LinksTo(Position(building)) :
         Build([block |-> building.block + 1, payload |-> building.payload,
                index |-> 0, link |-> link])
  BY DEF NextBlock
<1> DEFINE f == [block |-> building.block + 1, payload |-> building.payload,
                 index |-> 0, link |-> link]
<1>1. /\ building.block < Blocks /\ Build(f) /\ rebuilt' = rebuilt
      /\ ended' = [ended EXCEPT ![building.block] = building.index]
      /\ built' = built \cup {f} /\ building' = f
  BY <1>0 DEF NextBlock, Build
<1>2. building \in built /\ building \in Frames /\ ended \in [1 .. Blocks -> 0 .. Indices]
      /\ built \subseteq Frames
  BY DEF FlashIInv, FlashTypes
<1>3. /\ Position(building) \in Positions /\ building.index \in Nat
      /\ building.block \in Nat /\ building.block \in 1 .. Blocks
      /\ building.index \in 0 .. Indices
      /\ building.payload \in 0 .. Irregular
      /\ link \in {NoLink, Position(building)} /\ link \in Positions \cup {NoLink}
  BY <1>2, FrameTypes DEF Frames, LinksTo
<1>4. building.block + 1 \in 1 .. Blocks /\ 0 \in 0 .. Indices
  BY <1>1, <1>3, FlashNats
<1>5. /\ f \in Frames /\ f.block = building.block + 1 /\ f.index = 0
      /\ f.payload = building.payload
      /\ f.link \in {NoLink, <<building.block, building.index>>}
  BY <1>3, <1>4 DEF Frames, Position
<1> HIDE DEF f
<1>6. /\ ended' \in [1 .. Blocks -> 0 .. Indices] /\ ended'[building.block] = building.index
      /\ \A b \in 1 .. Blocks : b # building.block => ended'[b] = ended[b]
  BY <1>1, <1>2, <1>3
<1>7. FlashTypes' /\ NewestInv' /\ WindowInv'
  BY <1>1, <1>5, <1>6, BuildKeeps
<1>8. CASE rebuilt # {}
  <2>1. ChainInv' /\ LossInv'
    BY <1>1, <1>8 DEF ChainInv, LossInv
  <2>2. QED
    BY <1>7, <2>1 DEF FlashIInv
<1>9. CASE rebuilt = {}
  <2>1. \A g \in built :
            /\ g.payload = 0 /\ g.block <= building.block
            /\ g.block = building.block => g.index <= building.index
            /\ g.block < building.block => g.index <= ended[g.block]
            /\ g.index = 0 /\ g.block > 1
                  => g.link \in {NoLink, <<g.block - 1, ended[g.block - 1]>>}
            /\ \A h \in built : Position(g) = Position(h) => g = h
    BY <1>9 DEF FlashIInv, ChainInv
  <2>2. \A g \in built : g.block \in Nat /\ g.block \in 1 .. Blocks /\ g.index \in Nat
                         /\ Position(g)[1] = g.block /\ Position(g)[2] = g.index
    BY <1>2, FrameTypes
  <2>3. Position(f)[1] = f.block /\ Position(f)[2] = f.index
    BY <1>5, FrameTypes
  <2>4. \A g \in built : g.block < f.block /\ Position(g) # Position(f)
    BY <1>3, <1>5, <2>1, <2>2, <2>3
  <2>5. ASSUME NEW g \in built
        PROVE  /\ g.index <= ended'[g.block]
               /\ g.index = 0 /\ g.block > 1
                     => g.link \in {NoLink, <<g.block - 1, ended'[g.block - 1]>>}
    <3>1. g.index <= ended'[g.block]
      <4>1. CASE g.block = building.block
        BY <1>6, <2>1, <4>1
      <4>2. CASE g.block # building.block
        <5>1. g.block < building.block
          BY <1>3, <2>1, <2>2, <4>2
        <5>2. QED
          BY <1>6, <2>1, <2>2, <4>2, <5>1
      <4>3. QED
        BY <4>1, <4>2
    <3>2. ASSUME g.index = 0, g.block > 1
          PROVE  g.link \in {NoLink, <<g.block - 1, ended'[g.block - 1]>>}
      <4>1. g.block - 1 \in 1 .. Blocks /\ g.block - 1 # building.block
        BY <1>3, <2>1, <2>2, <3>2, FlashNats
      <4>2. QED
        BY <1>6, <2>1, <3>2, <4>1
    <3>3. QED
      BY <3>1, <3>2
  <2>6. /\ f.payload = 0 /\ f.block - 1 = building.block
        /\ f.link \in {NoLink, <<f.block - 1, ended'[f.block - 1]>>}
    <3>1. f.block - 1 = building.block
      BY <1>3, <1>5
    <3>2. f.payload = 0
      BY <1>2, <1>5, <2>1
    <3>3. QED
      BY <1>5, <1>6, <3>1, <3>2
  <2>7. \A g \in built \cup {f} :
            /\ g.payload = 0 /\ g.block <= f.block
            /\ g.block = f.block => g.index <= f.index
            /\ g.block < f.block => g.index <= ended'[g.block]
            /\ g.index = 0 /\ g.block > 1
                  => g.link \in {NoLink, <<g.block - 1, ended'[g.block - 1]>>}
    <3> TAKE g \in built \cup {f}
    <3>1. CASE g \in built
      <4>1. g.block < f.block /\ g.block <= f.block /\ g.block # f.block
        BY <1>3, <1>5, <2>2, <2>4, <3>1
      <4>2. QED
        BY <2>1, <2>5, <3>1, <4>1
    <3>2. CASE g = f
      <4>1. f.block <= f.block /\ ~(f.block < f.block) /\ f.index <= f.index
        BY <1>3, <1>5
      <4>2. QED
        BY <2>6, <3>2, <4>1
    <3>3. QED
      BY <3>1, <3>2
  <2>8. \A g, h \in built \cup {f} : Position(g) = Position(h) => g = h
    BY <2>1, <2>4
  <2>9. ChainInv'
    BY <1>1, <2>7, <2>8 DEF ChainInv
  <2>10. Before(Position(building), Position(f))
    BY <1>2, <1>3, <1>5, <2>2, <2>3 DEF Before
  <2>11. LossInv'
    BY <1>1, <1>5, <1>9, <2>10, AheadKeepsLoss
  <2>12. QED
    BY <1>7, <2>9, <2>11 DEF FlashIInv
<1>10. QED
  BY <1>8, <1>9

LEMMA RebuildKeeps ==
    ASSUME FlashIInv, Rebuild
    PROVE  FlashIInv'
<1> DEFINE f == [block |-> building.block, payload |-> building.payload + 1, index |-> 0,
                 link |-> EndBefore(building.block)]
<1>1. /\ building.payload < Irregular /\ Build(f) /\ ended' = ended
      /\ rebuilt' = rebuilt \cup {building.block}
  BY DEF Rebuild
<1>2. rebuilt' # {}
  BY <1>1
<1>3. ChainInv' /\ LossInv'
  BY <1>2 DEF ChainInv, LossInv
<1>4. f \in Frames
  <2>1. building \in Frames /\ ended \in [1 .. Blocks -> 0 .. Indices]
    BY DEF FlashIInv, FlashTypes
  <2>2. /\ building.block \in 1 .. Blocks /\ building.payload \in Nat
        /\ building.payload + 1 \in 0 .. Irregular /\ 0 \in 0 .. Indices
    BY <1>1, <2>1, FrameTypes, FlashNats
  <2>3. CASE building.block = 1
    BY <2>2, <2>3 DEF Frames, EndBefore
  <2>4. CASE building.block # 1
    <3>1. building.block - 1 \in 1 .. Blocks
      BY <2>2, <2>4, FlashNats
    <3>2. <<building.block - 1, ended[building.block - 1]>> \in Positions
      BY <2>1, <3>1 DEF Positions
    <3>3. QED
      BY <2>2, <2>4, <3>2 DEF Frames, EndBefore
  <2>5. QED
    BY <2>3, <2>4
<1>5. QED
  BY <1>1, <1>3, <1>4, BuildKeeps DEF FlashIInv, FlashTypes

-----------------------------------------------------------------------------
(* A delivery *)

LEMMA MinIsLeast ==
    ASSUME NEW S \in SUBSET Nat, S # {}
    PROVE  Min(S) \in S /\ \A n \in S : Min(S) <= n
<1> DEFINE smaller == {p \in Nat \X Nat : p[1] < p[2]}
<1>1. IsWellFoundedOn(smaller, Nat)
  BY NatLessThanWellFounded DEF OpToRel
<1>2. PICK m \in S : \A n \in S : <<n, m>> \notin smaller
  <2> HIDE DEF smaller
  <2>1. QED
    BY <1>1, WFMin
<1>3. \A n \in S : m <= n
  <2> TAKE n \in S
  <2>1. n \in Nat /\ m \in Nat /\ ~(n < m)
    BY <1>2
  <2>2. QED
    BY <2>1
<1>4. QED
  BY <1>3 DEF Min

(* Eviction takes only what is too old, and leaves no frame twice. *)
LEMMA EvictedKeeps ==
    ASSUME NEW w \in Seq(Frames), NEW block \in Nat
    PROVE  /\ Evicted(w, block) \in Seq(Frames)
           /\ \A f \in Range(w) : f.block >= block - DedupeBlocks =>
                  f \in Range(Evicted(w, block))
           /\ IsInjective(w) => IsInjective(Evicted(w, block))
<1> DEFINE kept == {k \in DOMAIN w : w[k].block >= block - DedupeBlocks}
           m == IF kept = {} THEN Len(w) + 1 ELSE Min(kept)
           rest == SubSeq(w, m, Len(w))
<1>1. Len(w) \in Nat /\ DOMAIN w = 1 .. Len(w) /\ \A k \in 1 .. Len(w) : w[k] \in Frames
  OBVIOUS
<1>2. kept \subseteq 1 .. Len(w) /\ kept \subseteq Nat
  BY <1>1
<1>3. m \in 1 .. Len(w) + 1 /\ \A k \in kept : m <= k
  <2>1. CASE kept = {}
    BY <1>1, <2>1
  <2>2. CASE kept # {}
    <3>1. Min(kept) \in kept /\ \A k \in kept : Min(kept) <= k
      <4> HIDE DEF kept
      <4>1. QED
        BY <1>2, <2>2, MinIsLeast
    <3>2. m = Min(kept)
      BY <2>2
    <3>3. m \in 1 .. Len(w)
      BY <1>2, <3>1, <3>2
    <3>4. QED
      BY <1>1, <3>1, <3>2, <3>3
  <2>3. QED
    BY <2>1, <2>2
<1> HIDE DEF m
<1>4. /\ rest \in Seq(Frames)
      /\ Len(rest) = (IF m <= Len(w) THEN Len(w) - m + 1 ELSE 0)
      /\ \A i \in 1 .. Len(w) - m + 1 : rest[i] = w[m + i - 1]
  <2>1. m \in Int /\ Len(w) \in Int /\ \A i \in m .. Len(w) : w[i] \in Frames
    BY <1>1, <1>3
  <2>2. QED
    BY <2>1, SubSeqProperties
<1>5. ASSUME NEW f \in Range(w), f.block >= block - DedupeBlocks
      PROVE  f \in Range(rest)
  <2>1. PICK k \in 1 .. Len(w) : f = w[k]
    BY <1>1 DEF Range
  <2>2. k \in kept /\ m <= k
    BY <1>1, <1>3, <1>5, <2>1
  <2>3. /\ k - m + 1 \in 1 .. Len(w) - m + 1 /\ m <= Len(w)
        /\ m + (k - m + 1) - 1 = k
    BY <1>1, <1>3, <2>2
  <2>4. rest[k - m + 1] = f /\ k - m + 1 \in 1 .. Len(rest)
    BY <1>4, <2>1, <2>3
  <2>5. DOMAIN rest = 1 .. Len(rest)
    BY <1>4, LenProperties
  <2>6. QED
    BY <2>4, <2>5 DEF Range
<1>6. ASSUME IsInjective(w), NEW i \in DOMAIN rest, NEW j \in DOMAIN rest, rest[i] = rest[j]
      PROVE  i = j
  <2>1. DOMAIN rest = 1 .. Len(rest)
    BY <1>4, LenProperties
  <2>2. m \in Nat /\ i \in Nat /\ j \in Nat /\ i \in 1 .. Len(w) - m + 1 /\ j \in 1 .. Len(w) - m + 1
    BY <1>1, <1>3, <1>4, <2>1
  <2>3. m + i - 1 \in 1 .. Len(w) /\ m + j - 1 \in 1 .. Len(w)
    BY <1>1, <1>3, <2>2
  <2>4. w[m + i - 1] = w[m + j - 1]
    BY <1>4, <1>6, <2>2
  <2>5. m + i - 1 = m + j - 1
    BY <1>1, <1>6, <2>3, <2>4 DEF IsInjective
  <2>6. QED
    BY <2>2, <2>5
<1>7. IsInjective(w) => IsInjective(rest)
  BY <1>6 DEF IsInjective
<1>8. Evicted(w, block) = rest
  BY DEF Evicted, m
<1>9. QED
  BY <1>4, <1>5, <1>7, <1>8

(* The newest position never goes back, and is not behind what is delivered. *)
LEMMA ParserAdvances ==
    ASSUME FlashIInv, NEW f \in built, Deliver(f)
    PROVE  /\ lastFrame' \in Positions /\ lastFrame' # NoFrame
           /\ lastFrame' = Position(f) \/ (lastFrame # NoFrame /\ lastFrame' = lastFrame)
           /\ ~Before(lastFrame', Position(f))
           /\ lastFrame # NoFrame =>
                 /\ lastFrame \in Positions /\ ~Before(lastFrame', lastFrame)
                 /\ lastFrame[1] <= lastFrame'[1]
           /\ f.block <= lastFrame'[1]
<1>1. f \in Frames /\ lastFrame \in Positions \cup {NoFrame}
  BY DEF FlashIInv, FlashTypes
<1>2. Position(f) \in Positions /\ Position(f) # NoFrame /\ Position(f)[1] = f.block
      /\ f.block \in Nat
  BY <1>1, FrameTypes
<1>3. lastFrame' = IF ~Redelivered(f) /\ Advances(f) THEN Position(f) ELSE lastFrame
  BY DEF Deliver, Parse
<1>4. CASE ~Redelivered(f) /\ Advances(f)
  <2>1. lastFrame' = Position(f)
    BY <1>3, <1>4
  <2>2. lastFrame # NoFrame => Before(lastFrame, Position(f))
    BY <1>4 DEF Advances
  <2>3. f.block <= f.block
    BY <1>2
  <2>4. QED
    BY <1>1, <1>2, <2>1, <2>2, <2>3, PositionOrder
<1>5. CASE Redelivered(f)
  <2>1. lastFrame = Position(f) /\ lastFrame' = lastFrame
    BY <1>3, <1>5 DEF Redelivered
  <2>2. f.block <= f.block
    BY <1>2
  <2>3. QED
    BY <1>2, <2>1, <2>2, PositionOrder
<1>6. CASE ~Redelivered(f) /\ ~Advances(f)
  <2>1. lastFrame # NoFrame /\ ~Before(lastFrame, Position(f)) /\ lastFrame' = lastFrame
    BY <1>3, <1>6 DEF Advances
  <2>2. lastFrame \in Positions /\ lastFrame[1] \in Nat
    BY <1>1, <2>1, PositionTypes
  <2>3. lastFrame[1] <= lastFrame[1]
    BY <2>2
  <2>4. QED
    BY <1>2, <2>1, <2>2, <2>3, PositionOrder
<1>7. QED
  BY <1>4, <1>5, <1>6

LEMMA TrackerAdvances ==
    ASSUME FlashIInv, NEW f \in built, Deliver(f)
    PROVE  /\ latest' \in built /\ latest' # NoFrame
           /\ latest' = f \/ latest' = latest
           /\ ~Before(Position(latest'), Position(f))
           /\ latest # NoFrame =>
                 latest \in built /\ ~Before(Position(latest'), Position(latest))
<1>1. f \in Frames /\ latest \in built \cup {NoFrame} /\ built \subseteq Frames
  BY DEF FlashIInv, FlashTypes
<1>2. Position(f) \in Positions /\ f # NoFrame
  BY <1>1, FrameTypes
<1>3. latest' = IF latest = NoFrame \/ Before(Position(latest), Position(f)) THEN f ELSE latest
  BY DEF Deliver, Latest
<1>4. CASE latest = NoFrame
  BY <1>2, <1>3, <1>4, PositionOrder
<1>5. CASE latest # NoFrame
  <2>1. latest \in built /\ Position(latest) \in Positions
    BY <1>1, <1>5, FrameTypes
  <2>2. QED
    BY <1>2, <1>3, <1>5, <2>1, PositionOrder
<1>6. QED
  BY <1>4, <1>5

LEMMA DeliverTypes ==
    ASSUME FlashIInv, NEW f \in built, Deliver(f)
    PROVE  FlashTypes'
<1>1. f \in Frames /\ window \in Seq(Frames)
  BY DEF FlashIInv, FlashTypes
<1>2. window' \in Seq(Frames)
  <2> DEFINE w == IF New(f) THEN Append(window, f) ELSE window
  <2>1. w \in Seq(Frames) /\ f.block \in Nat
    BY <1>1, FrameTypes
  <2>2. window' = Evicted(w, f.block)
    BY DEF Deliver, Parse
  <2> HIDE DEF w
  <2>3. QED
    BY <2>1, <2>2, EvictedKeeps
<1>3. gaps' \in BOOLEAN
  BY DEF Deliver, Parse, FlashIInv, FlashTypes
<1>4. UNCHANGED <<built, building, ended>>
  BY DEF Deliver, sequencerVars
<1>5. delivered' \subseteq built /\ emitted' \subseteq delivered'
  BY DEF Deliver, FlashIInv, FlashTypes
<1>6. QED
  BY <1>2, <1>3, <1>4, <1>5, ParserAdvances, TrackerAdvances DEF FlashIInv, FlashTypes

LEMMA DeliverNewest ==
    ASSUME FlashIInv, NEW f \in built, Deliver(f)
    PROVE  NewestInv'
<1>1. delivered' = delivered \cup {f} /\ delivered \subseteq Frames /\ f \in Frames
      /\ built \subseteq Frames
  BY DEF Deliver, FlashIInv, FlashTypes
<1>2. \E d \in delivered' : lastFrame' = Position(d)
  BY <1>1, ParserAdvances DEF FlashIInv, NewestInv
<1>3. ASSUME NEW d \in delivered'
      PROVE  /\ lastFrame' # NoFrame /\ ~Before(lastFrame', Position(d))
             /\ latest' # NoFrame /\ ~Before(Position(latest'), Position(d))
  <2>1. CASE d = f
    BY <2>1, ParserAdvances, TrackerAdvances
  <2>2. CASE d \in delivered
    <3>1. /\ lastFrame # NoFrame /\ ~Before(lastFrame, Position(d))
          /\ latest # NoFrame /\ ~Before(Position(latest), Position(d))
      BY <2>2 DEF FlashIInv, NewestInv
    <3>2. /\ lastFrame' \in Positions /\ lastFrame \in Positions
          /\ ~Before(lastFrame', lastFrame) /\ lastFrame' # NoFrame
      BY <3>1, ParserAdvances
    <3>3. /\ latest' \in built /\ latest \in built /\ latest' # NoFrame
          /\ ~Before(Position(latest'), Position(latest))
      BY <3>1, TrackerAdvances
    <3>4. /\ Position(d) \in Positions /\ Position(latest) \in Positions
          /\ Position(latest') \in Positions
      BY <1>1, <2>2, <3>3, FrameTypes
    <3>5. QED
      BY <3>1, <3>2, <3>3, <3>4, PositionOrder
  <2>3. QED
    BY <1>1, <2>1, <2>2
<1>4. QED
  BY <1>2, <1>3 DEF NewestInv

LEMMA DeliverWindow ==
    ASSUME FlashIInv, NEW f \in built, Deliver(f)
    PROVE  WindowInv'
<1> DEFINE w == IF New(f) THEN Append(window, f) ELSE window
<1>1. f \in Frames /\ window \in Seq(Frames) /\ emitted \subseteq delivered
      /\ delivered \subseteq Frames
  BY DEF FlashIInv, FlashTypes
<1>2. f.block \in Nat /\ DedupeBlocks \in Nat
  BY <1>1, FrameTypes, FlashNats
<1>3. w \in Seq(Frames) /\ Range(window) \subseteq Range(w)
      /\ (New(f) => f \in Range(w))
  <2>1. CASE New(f)
    <3>1. /\ w \in Seq(Frames) /\ Len(w) = Len(window) + 1 /\ Len(window) \in Nat
          /\ w[Len(window) + 1] = f /\ \A i \in 1 .. Len(window) : w[i] = window[i]
      BY <1>1, <2>1
    <3>2. DOMAIN w = 1 .. Len(window) + 1 /\ DOMAIN window = 1 .. Len(window)
      BY <1>1, <3>1, LenProperties
    <3>3. /\ Len(window) + 1 \in 1 .. Len(window) + 1
          /\ \A i \in 1 .. Len(window) : i \in 1 .. Len(window) + 1
      BY <3>1
    <3> HIDE DEF w
    <3>4. QED
      BY <3>1, <3>2, <3>3 DEF Range
  <2>2. CASE ~New(f)
    BY <1>1, <2>2
  <2>3. QED
    BY <2>1, <2>2
<1>4. window' = Evicted(w, f.block) /\ emitted' = IF New(f) THEN emitted \cup {f} ELSE emitted
  BY DEF Deliver, Parse
<1> HIDE DEF w
<1>5. \A g \in Range(w) : g.block >= f.block - DedupeBlocks => g \in Range(window')
  BY <1>2, <1>3, <1>4, EvictedKeeps
<1>6. /\ lastFrame' \in Positions /\ f.block <= lastFrame'[1] /\ lastFrame'[1] \in Nat
      /\ lastFrame # NoFrame => lastFrame \in Positions /\ lastFrame[1] <= lastFrame'[1]
                                /\ lastFrame[1] \in Nat
  BY ParserAdvances, PositionTypes
<1>7. ASSUME NEW g \in emitted
      PROVE  g \in Range(window') \/ lastFrame'[1] > g.block + DedupeBlocks
  <2>1. g.block \in Nat /\ lastFrame # NoFrame
    BY <1>1, <1>7, FrameTypes DEF FlashIInv, NewestInv
  <2>2. CASE g \in Range(window)
    <3>1. g.block >= f.block - DedupeBlocks \/ f.block > g.block + DedupeBlocks
      BY <1>2, <2>1
    <3>2. QED
      BY <1>2, <1>3, <1>5, <1>6, <2>1, <2>2, <3>1
  <2>3. CASE lastFrame[1] > g.block + DedupeBlocks
    BY <1>2, <1>6, <2>1, <2>3
  <2>4. QED
    BY <2>2, <2>3 DEF FlashIInv, WindowInv
<1>8. New(f) => f \in Range(window')
  <2>1. f.block >= f.block - DedupeBlocks
    BY <1>2
  <2>2. QED
    BY <1>3, <1>5, <2>1
<1>9. QED
  BY <1>4, <1>7, <1>8 DEF WindowInv

(* A tail that was missed stays one: without a gap no frame of its block is    *)
(* taken any more.                                                         *)
LEMMA TailStays ==
    ASSUME FlashIInv, NEW f \in built, Deliver(f), ~gaps', lastFrame # NoFrame,
           NEW g \in built, UnlinkedTail(g)
    PROVE  UnlinkedTail(g)'
<1>1. /\ delivered' = delivered \cup {f}
      /\ gaps' = (gaps \/ (~Redelivered(f) /\ SequenceGap(f)))
  BY DEF Deliver, Parse
<1>2. /\ built \subseteq Frames /\ lastFrame \in Positions \cup {NoFrame}
      /\ delivered \subseteq built
  BY DEF FlashIInv, FlashTypes
<1>3. \A h \in built : h.block \in Nat /\ Position(h)[1] = h.block
  BY <1>2, FrameTypes
<1>4. lastFrame[1] \in Nat
  BY <1>2, PositionTypes
<1>5. PICK h \in delivered : h.block = g.block + 1
  BY DEF UnlinkedTail
<1>6. h.block <= lastFrame[1]
  <2>1. ~Before(lastFrame, Position(h))
    BY DEF FlashIInv, NewestInv
  <2>2. QED
    BY <1>2, <1>3, <1>4, <2>1 DEF Before
<1>7. f.block >= lastFrame[1]
  <2>1. CASE Redelivered(f)
    BY <1>3, <1>4, <2>1 DEF Redelivered
  <2>2. CASE ~Redelivered(f)
    <3>1. f.block \in {lastFrame[1], lastFrame[1] + 1}
      BY <1>1, <2>2 DEF SequenceGap, FlashIInv, FlashTypes
    <3>2. QED
      BY <1>3, <1>4, <3>1
  <2>3. QED
    BY <2>1, <2>2
<1>8. f.block # g.block
  BY <1>2, <1>3, <1>4, <1>5, <1>6, <1>7
<1>9. QED
  BY <1>1, <1>8 DEF UnlinkedTail

(* No frame is passed over without a gap: the next one of the block carries    *)
(* the next index, and the first of the next block links to the last of this, *)
(* or to nothing: then the rest of this block is an unlinked tail.           *)
LEMMA DeliverLoss ==
    ASSUME FlashIInv, NEW f \in built, Deliver(f)
    PROVE  LossInv'
<1>1. /\ built \subseteq Frames /\ f \in Frames /\ building \in Frames
      /\ lastFrame \in Positions \cup {NoFrame}
      /\ ended \in [1 .. Blocks -> 0 .. Indices] /\ delivered \subseteq built
  BY DEF FlashIInv, FlashTypes
<1>2. /\ delivered' = delivered \cup {f}
      /\ gaps' = (gaps \/ (~Redelivered(f) /\ SequenceGap(f)))
      /\ lastFrame' = (IF ~Redelivered(f) /\ Advances(f) THEN Position(f) ELSE lastFrame)
      /\ UNCHANGED <<built, rebuilt>>
  BY DEF Deliver, Parse, sequencerVars
<1> SUFFICES ASSUME ~gaps', rebuilt = {}
             PROVE  \E s \in 1 .. Blocks :
                       /\ \A d \in delivered \cup {f} : s <= d.block
                       /\ \A g \in built : s <= g.block /\ ~Before(lastFrame', Position(g))
                                              => g \in delivered \cup {f} \/ UnlinkedTail(g)'
  BY <1>2 DEF LossInv
<1>3. ~gaps /\ (~Redelivered(f) => ~SequenceGap(f))
  BY <1>2 DEF FlashIInv, FlashTypes
<1>4. \A g \in built :
          /\ g.block \in Nat /\ g.index \in Nat /\ g.block \in 1 .. Blocks
          /\ Position(g) \in Positions /\ Position(g)[1] = g.block /\ Position(g)[2] = g.index
          /\ Position(g) # NoFrame
  BY <1>1, FrameTypes
<1>5. \A g \in built : Position(g) = Position(f) => g = f
  BY DEF FlashIInv, ChainInv
<1>6. CASE lastFrame = NoFrame
  <2>1. delivered = {}
    BY <1>6 DEF FlashIInv, NewestInv
  <2>2. ~Redelivered(f)
    BY <1>4, <1>6 DEF Redelivered
  <2>3. f.index = 0 /\ lastFrame' = Position(f)
    BY <1>2, <1>3, <1>6, <2>2 DEF SequenceGap, Advances
  <2>4. ASSUME NEW g \in built, f.block <= g.block, ~Before(lastFrame', Position(g))
        PROVE  g = f
    <3>1. g.block = f.block /\ g.index = f.index
      BY <1>4, <2>3, <2>4 DEF Before
    <3>2. QED
      BY <1>5, <3>1 DEF Position
  <2>5. f.block <= f.block
    BY <1>4
  <2>6. QED
    BY <1>4, <2>1, <2>4, <2>5
<1>7. CASE lastFrame # NoFrame
  <2>1. PICK s \in 1 .. Blocks :
            /\ \A d \in delivered : s <= d.block
            /\ \A g \in built : s <= g.block /\ ~Before(lastFrame, Position(g))
                                   => g \in delivered \/ UnlinkedTail(g)
    BY <1>3, <1>7 DEF FlashIInv, LossInv
  <2>a. \A g \in built : UnlinkedTail(g) => UnlinkedTail(g)'
    BY <1>7, TailStays
  <2>2. PICK d \in delivered : lastFrame = Position(d)
    BY <1>7 DEF FlashIInv, NewestInv
  <2> DEFINE b == lastFrame[1]
             i == lastFrame[2]
  <2>3. /\ b = d.block /\ i = d.index /\ b \in Nat /\ i \in Nat /\ s \in Nat /\ s <= b
        /\ lastFrame = <<b, i>> /\ d \in built
    BY <1>1, <1>4, <2>1, <2>2, FlashNats DEF Position
  <2> HIDE DEF b, i
  <2>4. ~Redelivered(f) =>
            /\ f.block \in {b, b + 1}
            /\ f.block = b /\ f.index > i => f.index = i + 1
            /\ f.block = b + 1 => f.index = 0 /\ f.link \in {NoLink, <<b, i>>}
    BY <1>3, <1>7 DEF SequenceGap, b, i
  <2>5. s <= f.block
    <3>1. CASE Redelivered(f)
      BY <1>4, <2>2, <2>3, <3>1 DEF Redelivered
    <3>2. CASE ~Redelivered(f)
      BY <1>4, <2>3, <2>4, <3>2
    <3>3. QED
      BY <3>1, <3>2
  <2>6. CASE Redelivered(f) \/ ~Advances(f)
    <3>1. lastFrame' = lastFrame
      BY <1>2, <2>6
    <3>2. QED
      BY <2>1, <2>5, <2>a, <3>1
  <2>7. CASE ~Redelivered(f) /\ Advances(f)
    <3>1. lastFrame' = Position(f) /\ Before(lastFrame, Position(f))
      BY <1>2, <1>7, <2>7 DEF Advances
    <3>2. ASSUME NEW g \in built, s <= g.block, ~Before(lastFrame', Position(g)),
                 Before(lastFrame, Position(g))
          PROVE  g = f \/ UnlinkedTail(g)'
      <4>1. /\ b < g.block \/ (b = g.block /\ i < g.index)
            /\ g.block < f.block \/ (g.block = f.block /\ g.index <= f.index)
        <5>1. ~(f.block < g.block \/ (f.block = g.block /\ f.index < g.index))
          BY <1>4, <3>1, <3>2 DEF Before
        <5>2. b < g.block \/ (b = g.block /\ i < g.index)
          BY <1>4, <3>2 DEF Before, b, i
        <5>3. QED
          BY <1>4, <5>1, <5>2
      <4>2. b < f.block \/ (b = f.block /\ i < f.index)
        BY <1>4, <3>1 DEF Before, b, i
      <4>3. CASE f.block = b
        <5>1. f.index = i + 1
          BY <1>4, <2>3, <2>4, <2>7, <4>2, <4>3
        <5>2. g.block = f.block /\ g.index = f.index
          BY <1>4, <2>3, <4>1, <4>3, <5>1
        <5>3. QED
          BY <1>5, <5>2 DEF Position
      <4>4. CASE f.block = b + 1
        <5>1. f.index = 0 /\ f.link \in {NoLink, <<b, i>>}
          BY <2>4, <2>7, <4>4
        <5>2. CASE g.block = f.block
          <6>1. g.index = f.index
            BY <1>4, <2>3, <4>1, <4>4, <5>1, <5>2
          <6>2. QED
            BY <1>5, <5>2, <6>1 DEF Position
        <5>3. CASE g.block # f.block
          <6>1. g.block = b /\ i < g.index
            BY <1>4, <2>3, <4>1, <4>4, <5>3
          <6>2. f.block > 1 /\ f.block - 1 = b
            BY <1>4, <2>3, <4>4, <6>1
          <6>3. /\ f.link \in {NoLink, <<f.block - 1, ended[f.block - 1]>>}
                /\ f.block <= building.block
            BY <5>1, <6>2 DEF FlashIInv, ChainInv
          <6>4. CASE f.link = NoLink
            <7>1. f \in delivered' /\ d \in delivered' /\ f.block = g.block + 1
              BY <1>2, <2>2, <4>4, <6>1
            <7>2. ASSUME NEW h \in delivered', h.block = g.block
                  PROVE  h.index < g.index
              <8>1. h \in delivered /\ h \in built
                BY <1>1, <1>2, <1>4, <2>3, <4>4, <6>1, <7>2
              <8>2. ~Before(lastFrame, Position(h))
                BY <8>1 DEF FlashIInv, NewestInv
              <8>3. h.index <= i
                BY <1>4, <2>3, <6>1, <7>2, <8>1, <8>2 DEF Before, b, i
              <8>4. QED
                BY <1>4, <2>3, <6>1, <8>1, <8>3
            <7>3. QED
              BY <2>3, <5>1, <6>1, <6>4, <7>1, <7>2 DEF UnlinkedTail
          <6>5. CASE f.link # NoLink
            <7>1. ended[b] = i
              BY <5>1, <6>2, <6>3, <6>5
            <7>2. g.block < building.block
              BY <1>1, <1>4, <2>3, <4>4, <6>1, <6>3, FrameTypes
            <7>3. g.index <= ended[b]
              BY <6>1, <7>2 DEF FlashIInv, ChainInv
            <7>4. QED
              BY <1>4, <2>3, <6>1, <7>1, <7>3
          <6>6. QED
            BY <6>4, <6>5
        <5>4. QED
          BY <5>2, <5>3
      <4>5. QED
        BY <2>4, <2>7, <4>3, <4>4
    <3>3. QED
      BY <2>1, <2>5, <2>a, <3>2
  <2>8. QED
    BY <2>6, <2>7
<1>8. QED
  BY <1>6, <1>7

LEMMA FlashStep == FlashIInv /\ [FlashNext]_flashVars => FlashIInv'
<1> SUFFICES ASSUME FlashIInv, [FlashNext]_flashVars PROVE FlashIInv'
  OBVIOUS
<1>1. CASE NextFrame \/ NextBlock \/ Rebuild
  BY <1>1, NextFrameKeeps, NextBlockKeeps, RebuildKeeps
<1>2. ASSUME NEW f \in built, Deliver(f) PROVE FlashIInv'
  <2>1. UNCHANGED <<built, building, ended, rebuilt>>
    BY <1>2 DEF Deliver, sequencerVars
  <2>2. ChainInv'
    BY <2>1 DEF FlashIInv, ChainInv
  <2>3. QED
    BY <1>2, <2>2, DeliverTypes, DeliverNewest, DeliverWindow, DeliverLoss DEF FlashIInv
<1>3. CASE (\E b \in 1 .. Blocks : ObserveSealed(b)) \/ UNCHANGED flashVars
  <2>1. UNCHANGED <<built, building, ended, rebuilt, lastFrame, window, gaps, latest,
                    delivered, emitted>>
    BY <1>3 DEF ObserveSealed, flashVars, sequencerVars, parserVars, trackerVars
  <2>2. FlashTypes'
    BY <2>1 DEF FlashIInv, FlashTypes
  <2>3. NewestInv'
    BY <2>1 DEF FlashIInv, NewestInv
  <2>4. ChainInv'
    BY <2>1 DEF FlashIInv, ChainInv
  <2>5. WindowInv'
    BY <2>1 DEF FlashIInv, WindowInv
  <2>6. LossInv'
    BY <2>1 DEF FlashIInv, LossInv, UnlinkedTail
  <2>7. QED
    BY <2>2, <2>3, <2>4, <2>5, <2>6 DEF FlashIInv
<1>4. QED
  BY <1>1, <1>2, <1>3 DEF FlashNext

LEMMA FlashInvariance == FlashSpec => []FlashIInv
<1>1. QED
  BY FlashInitHolds, FlashStep, PTL DEF FlashSpec

(* For any chain of frames and payloads, any dedupe window and any order of     *)
(* delivery with losses and repetitions: while no gap is counted and no        *)
(* payload was replaced, what lies between the first frame and the last one     *)
(* was delivered, but for the end of a block whose successor's first frame has *)
(* no link that parses (flashblocks.rs 242-246, 441-476).                    *)
THEOREM LossesAreCounted == FlashSpec => []LossIsCounted
<1>1. ASSUME FlashIInv PROVE LossIsCounted
  <2> SUFFICES ASSUME ~gaps, rebuilt = {}, NEW first \in delivered, NEW f \in built,
                      ~Before(Position(f), Position(first)),
                      ~Before(lastFrame, Position(f))
               PROVE  f \in delivered \/ UnlinkedTail(f)
    BY DEF LossIsCounted
  <2>1. lastFrame # NoFrame
    BY <1>1 DEF FlashIInv, NewestInv
  <2>2. PICK s \in 1 .. Blocks :
            /\ \A d \in delivered : s <= d.block
            /\ \A g \in built : s <= g.block /\ ~Before(lastFrame, Position(g))
                                   => g \in delivered \/ UnlinkedTail(g)
    BY <1>1, <2>1 DEF FlashIInv, LossInv
  <2>3. /\ first.block \in Nat /\ f.block \in Nat
        /\ Position(first) \in Positions /\ Position(f) \in Positions
        /\ Position(first)[1] = first.block /\ Position(f)[1] = f.block
    BY <1>1, FrameTypes DEF FlashIInv, FlashTypes
  <2>4. first.block <= f.block
    BY <2>3, PositionOrder
  <2>5. s <= f.block
    BY <2>2, <2>3, <2>4, FlashNats
  <2>6. QED
    BY <2>2, <2>5
<1>2. QED
  BY <1>1, FlashInvariance, PTL

(* A transaction comes out of the parser again only when the feed was ahead of *)
(* its block by more than the window (flashblocks.rs 113-116, 191-416).       *)
THEOREM EmittedOnce == FlashSpec => NothingEmittedTwice
<1> DEFINE Once ==
        \A f \in emitted :
            (f \notin Range(window) /\ f \in Range(window'))
                => lastFrame[1] > f.block + DedupeBlocks
<1>1. FlashIInv => Once
  BY DEF FlashIInv, WindowInv
<1>2. FlashIInv => [Once]_flashVars
  BY <1>1
<1>3. QED
  BY <1>2, FlashInvariance, PTL DEF NothingEmittedTwice

(* A pin that was refused once is refused ever after, in whatever order frames *)
(* arrive, unless a payload is replaced (flashblocks.rs 526-575).             *)
THEOREM PinsStayExpired == FlashSpec => ExpiredPinStaysExpired
<1> DEFINE Stays ==
        rebuilt = {} => \A pin \in delivered : ~PinIsCurrent(pin) => ~PinIsCurrent(pin)'
<1>1. ASSUME FlashIInv, FlashNext PROVE Stays
  <2> SUFFICES ASSUME rebuilt = {}, NEW pin \in delivered, PinIsCurrent(pin)'
               PROVE  PinIsCurrent(pin)
    OBVIOUS
  <2>1. CASE latest' = latest
    BY <2>1 DEF PinIsCurrent
  <2>2. CASE latest' # latest
    <3>1. PICK f \in built : Deliver(f)
      BY <1>1, <2>2 DEF FlashNext, NextFrame, NextBlock, Rebuild, Build, ObserveSealed,
                        trackerVars
    <3>2. latest' = f /\ (latest = NoFrame \/ Before(Position(latest), Position(f)))
      BY <2>2, <3>1 DEF Deliver, Latest
    <3>3. latest # NoFrame /\ ~Before(Position(latest), Position(pin))
      BY <1>1 DEF FlashIInv, NewestInv
    <3>4. latest \in built /\ pin \in built /\ built \subseteq Frames
      BY <1>1, <3>3 DEF FlashIInv, FlashTypes
    <3>5. f.block = pin.block /\ f.payload = pin.payload
      BY <3>2 DEF PinIsCurrent
    <3>6. latest.payload = 0 /\ pin.payload = 0
      BY <1>1, <3>4 DEF FlashIInv, ChainInv
    <3>7. /\ latest.block \in Nat /\ latest.index \in Nat /\ pin.block \in Nat
          /\ pin.index \in Nat /\ f.block \in Nat /\ f.index \in Nat
          /\ Position(latest)[1] = latest.block /\ Position(latest)[2] = latest.index
          /\ Position(pin)[1] = pin.block /\ Position(pin)[2] = pin.index
          /\ Position(f)[1] = f.block /\ Position(f)[2] = f.index
      BY <3>4, FrameTypes
    <3>8. latest.block = pin.block /\ latest.index >= pin.index
      BY <3>2, <3>3, <3>5, <3>7 DEF Before
    <3>9. QED
      BY <3>3, <3>6, <3>8 DEF PinIsCurrent
  <2>3. QED
    BY <2>1, <2>2
<1>2. FlashIInv /\ [FlashNext]_flashVars => [Stays]_flashVars
  BY <1>1
<1>3. QED
  BY <1>2, FlashInvariance, PTL DEF FlashSpec, ExpiredPinStaysExpired

(* What the window and the tracker hold: each frame once, a few blocks *)
TrackerTypes ==
    /\ rebuilt \subseteq 1 .. Blocks
    /\ IsInjective(window)
    /\ DOMAIN byBlock \subseteq 1 .. Blocks
    /\ Cardinality(DOMAIN byBlock) <= TrackedBlocks
    /\ \A b \in DOMAIN byBlock : byBlock[b] \in Seq(Frames)
    /\ graded \in [1 .. Blocks -> {"pending", "none", "match", "mismatch"}]

(* The oldest block makes room for another one. *)
LEMMA TrackedBounded ==
    ASSUME NEW S \in SUBSET (1 .. Blocks), Cardinality(S) <= TrackedBlocks,
           NEW b \in 1 .. Blocks
    PROVE  LET all  == S \cup {b}
               kept == IF Cardinality(all) > TrackedBlocks THEN all \ {Min(all)} ELSE all
           IN  kept \subseteq all /\ Cardinality(kept) <= TrackedBlocks
<1> DEFINE all == S \cup {b}
<1>1. IsFiniteSet(1 .. Blocks) /\ TrackedBlocks \in Nat
  BY FlashNats, FlashAssumption, FS_Interval
<1>2. IsFiniteSet(S) /\ IsFiniteSet(all)
  BY <1>1, FS_Subset
<1>3. Cardinality(S) \in Nat /\ Cardinality(all) \in Nat /\ Cardinality(all) <= Cardinality(S) + 1
  BY <1>2, FS_CardinalityType, FS_AddElement
<1>4. Min(all) \in all
  <2>1. all \subseteq Nat /\ all # {}
    OBVIOUS
  <2> HIDE DEF all
  <2>2. QED
    BY <2>1, MinIsLeast
<1>5. Cardinality(all \ {Min(all)}) = Cardinality(all) - 1
  BY <1>2, <1>4, FS_RemoveElement
<1> HIDE DEF all
<1>6. Cardinality(all) > TrackedBlocks => Cardinality(all \ {Min(all)}) <= TrackedBlocks
  BY <1>1, <1>3, <1>5
<1>7. QED
  BY <1>1, <1>3, <1>6 DEF all

LEMMA TrackTypes ==
    ASSUME TrackerTypes, NEW f \in Frames
    PROVE  /\ DOMAIN Track(f) \subseteq 1 .. Blocks
           /\ Cardinality(DOMAIN Track(f)) <= TrackedBlocks
           /\ \A b \in DOMAIN Track(f) : Track(f)[b] \in Seq(Frames)
<1> DEFINE frames == IF f.block \in DOMAIN byBlock THEN byBlock[f.block] ELSE <<>>
           all    == DOMAIN byBlock \cup {f.block}
           kept   == IF Cardinality(all) > TrackedBlocks THEN all \ {Min(all)} ELSE all
<1>1. f.block \in 1 .. Blocks
  BY FrameTypes
<1>2. kept \subseteq all /\ Cardinality(kept) <= TrackedBlocks
  BY <1>1, TrackedBounded DEF TrackerTypes
<1>3. all \subseteq 1 .. Blocks
  BY <1>1 DEF TrackerTypes
<1>4. frames \in Seq(Frames) /\ Append(frames, f) \in Seq(Frames)
  <2>1. frames \in Seq(Frames)
    BY DEF TrackerTypes
  <2> HIDE DEF frames
  <2>2. QED
    BY <2>1
<1>5. Track(f) = [b \in kept |-> IF b # f.block THEN byBlock[b]
                                 ELSE IF Known(f) THEN frames ELSE Append(frames, f)]
  BY DEF Track
<1>6. \A b \in kept : b # f.block => b \in DOMAIN byBlock
  BY <1>2
<1> HIDE DEF frames, kept, all
<1>7. DOMAIN Track(f) = kept
  BY <1>5
<1>8. \A b \in kept : Track(f)[b] \in Seq(Frames)
  BY <1>4, <1>5, <1>6 DEF TrackerTypes
<1>9. QED
  BY <1>2, <1>3, <1>7, <1>8

LEMMA WindowInjective ==
    ASSUME FlashIInv, IsInjective(window), NEW f \in built, Deliver(f)
    PROVE  IsInjective(window')
<1> DEFINE w == IF New(f) THEN Append(window, f) ELSE window
<1>1. f \in Frames /\ window \in Seq(Frames) /\ f.block \in Nat
  BY FrameTypes DEF FlashIInv, FlashTypes
<1>2. w \in Seq(Frames)
  BY <1>1
<1>3. IsInjective(w)
  <2>1. CASE New(f)
    <3> DEFINE n == Len(window)
    <3>1. n \in Nat /\ DOMAIN window = 1 .. n
      BY <1>1
    <3>2. Len(Append(window, f)) = n + 1 /\ Append(window, f) \in Seq(Frames)
      BY <1>1
    <3>3. w = Append(window, f) /\ DOMAIN w = 1 .. n + 1
      BY <2>1, <3>2, LenProperties
    <3>4. \A i \in 1 .. n : w[i] = window[i] /\ window[i] # f
      BY <1>1, <2>1, <3>1, <3>3 DEF New, Range
    <3>5. w[n + 1] = f
      BY <1>1, <3>3, AppendProperties
    <3> HIDE DEF w, n
    <3>6. \A i \in DOMAIN w : i \in 1 .. n \/ i = n + 1
      BY <3>1, <3>3
    <3>7. QED
      BY <3>1, <3>3, <3>4, <3>5, <3>6 DEF IsInjective
  <2>2. CASE ~New(f)
    BY <2>2
  <2>3. QED
    BY <2>1, <2>2
<1>4. window' = Evicted(w, f.block)
  BY DEF Deliver, Parse
<1> HIDE DEF w
<1>5. QED
  BY <1>1, <1>2, <1>3, <1>4, EvictedKeeps

(* Every variable keeps its type: the window has each frame once, the tracker  *)
(* no more blocks than its limit, whatever is delivered in whatever order.     *)
THEOREM FlashTypesHold == FlashSpec => []FlashTypeOK
<1>1. FlashInit => TrackerTypes
  <2> SUFFICES ASSUME FlashInit PROVE TrackerTypes
    OBVIOUS
  <2>1. window = <<>> /\ byBlock = <<>> /\ rebuilt = {} /\ DOMAIN byBlock = {} /\ DOMAIN window = {}
    BY DEF FlashInit
  <2>2. Cardinality({}) = 0 /\ 0 <= TrackedBlocks
    BY FS_EmptySet, FlashAssumption
  <2>3. graded \in [1 .. Blocks -> {"pending", "none", "match", "mismatch"}]
    BY DEF FlashInit
  <2>4. QED
    BY <2>1, <2>2, <2>3 DEF TrackerTypes, IsInjective
<1>2. FlashIInv /\ TrackerTypes /\ [FlashNext]_flashVars => TrackerTypes'
  <2> SUFFICES ASSUME FlashIInv, TrackerTypes, [FlashNext]_flashVars PROVE TrackerTypes'
    OBVIOUS
  <2>1. CASE NextFrame \/ NextBlock \/ Rebuild
    <3>1. UNCHANGED <<window, byBlock, graded>>
      BY <2>1 DEF NextFrame, NextBlock, Rebuild, Build, parserVars, trackerVars
    <3>2. building.block \in 1 .. Blocks
      BY FrameTypes DEF FlashIInv, FlashTypes
    <3>3. rebuilt' = rebuilt \/ rebuilt' = rebuilt \cup {building.block}
      BY <2>1 DEF NextFrame, NextBlock, Rebuild
    <3>4. QED
      BY <3>1, <3>2, <3>3 DEF TrackerTypes
  <2>2. ASSUME NEW f \in built, Deliver(f) PROVE TrackerTypes'
    <3>1. f \in Frames /\ byBlock' = Track(f) /\ rebuilt' = rebuilt /\ graded' = graded
      BY <2>2 DEF Deliver, sequencerVars, FlashIInv, FlashTypes
    <3>2. IsInjective(window')
      BY <2>2, WindowInjective DEF TrackerTypes
    <3>3. QED
      BY <3>1, <3>2, TrackTypes DEF TrackerTypes
  <2>3. ASSUME NEW b \in 1 .. Blocks, ObserveSealed(b) PROVE TrackerTypes'
    <3>1. /\ rebuilt' = rebuilt /\ window' = window
          /\ byBlock' = [c \in DOMAIN byBlock \ {b} |-> byBlock[c]]
      BY <2>3 DEF ObserveSealed, sequencerVars, parserVars
    <3>2. graded' \in [1 .. Blocks -> {"pending", "none", "match", "mismatch"}]
      BY <2>3 DEF ObserveSealed, TrackerTypes
    <3>3. DOMAIN byBlock' = DOMAIN byBlock \ {b}
      BY <3>1
    <3>4. Cardinality(DOMAIN byBlock') <= TrackedBlocks
      <4>1. IsFiniteSet(1 .. Blocks)
        BY FlashNats, FS_Interval
      <4>2. IsFiniteSet(DOMAIN byBlock)
        BY <4>1, FS_Subset DEF TrackerTypes
      <4>3. DOMAIN byBlock' \subseteq DOMAIN byBlock
        BY <3>3
      <4>4. /\ IsFiniteSet(DOMAIN byBlock') /\ Cardinality(DOMAIN byBlock') <= Cardinality(DOMAIN byBlock)
        BY <4>2, <4>3, FS_Subset
      <4>5. Cardinality(DOMAIN byBlock') \in Nat /\ Cardinality(DOMAIN byBlock) \in Nat
            /\ TrackedBlocks \in Nat
        BY <4>2, <4>4, FS_CardinalityType, FlashAssumption
      <4>6. QED
        BY <4>4, <4>5 DEF TrackerTypes
    <3>5. \A c \in DOMAIN byBlock' : byBlock'[c] \in Seq(Frames)
      BY <3>1, <3>3 DEF TrackerTypes
    <3>6. QED
      BY <3>1, <3>2, <3>3, <3>4, <3>5 DEF TrackerTypes
  <2>4. CASE UNCHANGED flashVars
    BY <2>4 DEF flashVars, sequencerVars, parserVars, trackerVars, TrackerTypes
  <2>5. QED
    BY <2>1, <2>2, <2>3, <2>4 DEF FlashNext
<1>3. FlashIInv /\ TrackerTypes => FlashTypeOK
  <2> SUFFICES ASSUME FlashIInv, TrackerTypes PROVE FlashTypeOK
    OBVIOUS
  <2>1. \A s \in Seq(Frames) : Range(s) \subseteq Frames
    BY ElementOfSeq DEF Range
  <2>2. QED
    BY <2>1 DEF FlashIInv, FlashTypes, TrackerTypes, FlashTypeOK
<1>4. QED
  BY <1>1, <1>2, <1>3, FlashInvariance, PTL DEF FlashSpec

-----------------------------------------------------------------------------
(***************************************************************************)
(* Alerts: the history of a rule alternates and ends with what is shown, and no*)
(* reorg is lost between the loop and a pass or told of twice.              *)
(***************************************************************************)

AlertEvents == [rule : Rules, fired : BOOLEAN]

AlertIInv ==
    /\ lastReorgs \in Nat /\ told \in Nat /\ observed \in Nat
    /\ activeRules \subseteq Rules
    /\ history \in Seq(AlertEvents) /\ Len(history) <= HistoryCap
    /\ AlertsTellTheTruth

LEMMA SetToSeqLists ==
    ASSUME NEW S, IsFiniteSet(S)
    PROVE  /\ SetToSeq(S) \in Seq(S)
           /\ \A x \in S : \E i \in DOMAIN SetToSeq(S) : SetToSeq(S)[i] = x
           /\ \A i, j \in DOMAIN SetToSeq(S) : SetToSeq(S)[i] = SetToSeq(S)[j] => i = j
<1> DEFINE n == Cardinality(S)
<1>1. n \in Nat /\ ExistsBijection(1 .. n, S)
  BY FS_CardinalityType
<1>2. \E f \in [1 .. n -> S] : IsInjective(f)
  BY <1>1 DEF ExistsBijection, Bijection, Injection
<1>3. SetToSeq(S) \in [1 .. n -> S] /\ IsInjective(SetToSeq(S))
  BY <1>2 DEF SetToSeq
<1> DEFINE s == SetToSeq(S)
<1> HIDE DEF s
<1>4. s \in [1 .. n -> S] /\ IsInjective(s) /\ DOMAIN s = 1 .. n
  BY <1>3 DEF s
<1>5. s \in Seq(S)
  BY <1>1, <1>4
<1>6. IsFiniteSet(1 .. n) /\ Cardinality(1 .. n) = n
  BY <1>1, FS_Interval
<1>7. s \in Surjection(1 .. n, S)
  BY <1>4, <1>6, FS_Injection DEF Injection
<1>8. \A x \in S : \E i \in 1 .. n : s[i] = x
  BY <1>7 DEF Surjection
<1>9. QED
  BY <1>4, <1>5, <1>8 DEF s, IsInjective

(* The events of a pass: one for each rule *)
LEMMA EventsList ==
    ASSUME NEW rules \in SUBSET Rules, NEW fired \in BOOLEAN
    PROVE  /\ Events(rules, fired) \in Seq(AlertEvents)
           /\ \A r \in rules : Mentions(Events(rules, fired), r)
           /\ \A i \in DOMAIN Events(rules, fired) :
                 /\ Events(rules, fired)[i].rule \in rules
                 /\ Events(rules, fired)[i].fired = fired
           /\ \A i, j \in DOMAIN Events(rules, fired) :
                 Events(rules, fired)[i].rule = Events(rules, fired)[j].rule => i = j
<1> DEFINE S == {[rule |-> r, fired |-> fired] : r \in rules}
           s == SetToSeq(S)
<1>1. IsFiniteSet(S)
  <2>1. IsFiniteSet(Rules)
    <3>1. Rules = {"kill_switch"} \cup {"drawdown_approaching"} \cup {"head_stalled"}
                  \cup {"no_mempool_feed"} \cup {"pending_stalled"}
                  \cup {"conversion_collapsed"} \cup {"reorg_observed"}
      BY DEF Rules
    <3>2. \A x : IsFiniteSet({x})
      BY FS_Singleton
    <3>3. \A A, B : IsFiniteSet(A) /\ IsFiniteSet(B) => IsFiniteSet(A \cup B)
      BY FS_Union
    <3>4. QED
      BY <3>1, <3>2, <3>3, Zenon
  <2>2. IsFiniteSet(rules)
    BY <2>1, FS_Subset
  <2> DEFINE f == [r \in rules |-> [rule |-> r, fired |-> fired]]
  <2>3. f \in Surjection(rules, S)
    BY DEF Surjection
  <2>4. QED
    BY <2>2, <2>3, FS_Surjection
<1>2. \A x \in S : x \in AlertEvents /\ x.rule \in rules /\ x.fired = fired
  BY DEF AlertEvents
<1>3. ASSUME NEW r \in rules PROVE \E x \in S : x.rule = r
  <2>1. [rule |-> r, fired |-> fired] \in S
    OBVIOUS
  <2>2. [rule |-> r, fired |-> fired].rule = r
    OBVIOUS
  <2> HIDE DEF S
  <2>3. QED
    BY <2>1, <2>2
<1>4. \A x, y \in S : x.rule = y.rule => x = y
  OBVIOUS
<1>5. /\ s \in Seq(S)
      /\ \A x \in S : \E i \in DOMAIN s : s[i] = x
      /\ \A i, j \in DOMAIN s : s[i] = s[j] => i = j
  BY <1>1, SetToSeqLists
<1>6. Events(rules, fired) = s
  BY DEF Events
<1> HIDE DEF S, s
<1>7. s \in Seq(AlertEvents)
  BY <1>2, <1>5
<1>8. \A i \in DOMAIN s : s[i] \in S
  BY <1>5
<1>9. \A r \in rules : Mentions(s, r)
  BY <1>3, <1>5 DEF Mentions
<1>10. \A i \in DOMAIN s : s[i].rule \in rules /\ s[i].fired = fired
  BY <1>2, <1>8
<1>11. \A i, j \in DOMAIN s : s[i].rule = s[j].rule => i = j
  BY <1>4, <1>5, <1>8
<1>12. QED
  BY <1>6, <1>7, <1>9, <1>10, <1>11

(* e has one event for each rule that is in one of old and new and not in both. *)
TellsChange(e, old, new) ==
    /\ \A i, j \in DOMAIN e : e[i].rule = e[j].rule => i = j
    /\ \A i \in DOMAIN e : /\ e[i].fired <=> e[i].rule \in new
                           /\ e[i].rule \in new <=> e[i].rule \notin old
    /\ \A r \in Rules : ~Mentions(e, r) => (r \in new <=> r \in old)

(* Events of rules that changed, one for each, keep a history truthful. *)
LEMMA TruthfulAppend ==
    ASSUME NEW h \in Seq(AlertEvents), NEW e \in Seq(AlertEvents),
           NEW old \in SUBSET Rules, NEW new \in SUBSET Rules,
           Alternates(h), EndsWith(h, old), TellsChange(e, old, new)
    PROVE  /\ Alternates(h \o e) /\ EndsWith(h \o e, new)
           /\ \A r \in Rules : Mentions(h \o e, r) <=> Mentions(h, r) \/ Mentions(e, r)
<1> DEFINE m == Len(h)
           n == Len(e)
           L == h \o e
<1> USE DEF TellsChange
<1>1. /\ m \in Nat /\ n \in Nat /\ DOMAIN h = 1 .. m /\ DOMAIN e = 1 .. n
      /\ L \in Seq(AlertEvents) /\ DOMAIN L = 1 .. m + n
      /\ \A i \in 1 .. m : h[i] \in AlertEvents
      /\ \A i \in 1 .. n : e[i] \in AlertEvents
  BY LenProperties, ConcatProperties
<1>2. /\ \A i \in 1 .. m : i \in 1 .. m + n /\ L[i] = h[i]
      /\ \A i \in 1 .. n : m + i \in 1 .. m + n /\ L[m + i] = e[i]
  <2>1. \A i \in 1 .. m + n : L[i] = IF i <= m THEN h[i] ELSE e[i - m]
    BY ConcatProperties
  <2>2. \A i \in 1 .. m : i \in 1 .. m + n /\ i <= m
    BY <1>1
  <2>3. \A i \in 1 .. n : m + i \in 1 .. m + n /\ ~(m + i <= m) /\ (m + i) - m = i
    BY <1>1
  <2> HIDE DEF L
  <2>4. QED
    BY <2>1, <2>2, <2>3
<1>3. \A i \in 1 .. m + n : i \in 1 .. m \/ (\E k \in 1 .. n : i = m + k)
  <2> TAKE i \in 1 .. m + n
  <2>1. CASE i > m
    <3>1. i - m \in 1 .. n /\ i = m + (i - m)
      BY <1>1, <2>1
    <3>2. QED
      BY <3>1
  <2>2. CASE ~(i > m)
    BY <1>1, <2>2
  <2>3. QED
    BY <2>1, <2>2
<1> HIDE DEF L, m, n
<1>4. ASSUME NEW i \in 1 .. m + n, NEW j \in 1 .. m + n, NextOfRule(L, i, j)
      PROVE  L[i].fired # L[j].fired
  <2>1. i < j /\ L[i].rule = L[j].rule /\ \A k \in i + 1 .. j - 1 : L[k].rule # L[i].rule
    BY <1>4 DEF NextOfRule
  <2>2. CASE j \in 1 .. m
    <3>1. i \in 1 .. m
      BY <1>1, <2>1, <2>2
    <3>2. \A k \in i + 1 .. j - 1 : k \in 1 .. m
      BY <1>1, <2>2, <3>1
    <3>3. NextOfRule(h, i, j)
      BY <1>2, <2>1, <2>2, <3>1, <3>2 DEF NextOfRule
    <3>4. QED
      BY <1>1, <1>2, <2>2, <3>1, <3>3, SMTT(30) DEF Alternates
  <2>3. ASSUME NEW k \in 1 .. n, j = m + k PROVE L[i].fired # L[j].fired
    <3>1. L[j] = e[k]
      BY <1>2, <2>3
    <3>2. CASE i \in 1 .. m
      <4>1. L[i] = h[i]
        BY <1>2, <3>2
      <4>2. ASSUME NEW l \in 1 .. m, l > i PROVE h[l].rule # h[i].rule
        <5>1. l \in i + 1 .. j - 1
          BY <1>1, <2>3, <3>2, <4>2
        <5>2. QED
          BY <1>2, <2>1, <4>1, <4>2, <5>1
      <4>3. h[i].fired <=> h[i].rule \in old
        BY <1>1, <3>2, <4>2 DEF EndsWith
      <4>4. e[k].rule = h[i].rule /\ (e[k].fired <=> e[k].rule \notin old)
        BY <1>1, <2>1, <3>1, <4>1
      <4>5. QED
        BY <3>1, <4>1, <4>3, <4>4
    <3>3. ASSUME NEW l \in 1 .. n, i = m + l PROVE FALSE
      <4>1. e[l].rule = e[k].rule
        BY <1>2, <2>1, <3>1, <3>3
      <4>2. l = k
        BY <1>1, <4>1
      <4>3. QED
        BY <1>1, <2>1, <2>3, <3>3, <4>2
    <3>4. QED
      BY <1>3, <3>2, <3>3
  <2>4. QED
    BY <1>3, <2>2, <2>3
<1>5. ASSUME NEW i \in 1 .. m + n,
             \A k \in 1 .. m + n : k > i => L[k].rule # L[i].rule
      PROVE  L[i].fired <=> L[i].rule \in new
  <2>1. ASSUME NEW k \in 1 .. n, i = m + k PROVE L[i].fired <=> L[i].rule \in new
    BY <1>1, <1>2, <2>1
  <2>2. CASE i \in 1 .. m
    <3>1. L[i] = h[i] /\ h[i].rule \in Rules
      BY <1>1, <1>2, <2>2 DEF AlertEvents
    <3>2. \A k \in 1 .. m : k > i => h[k].rule # h[i].rule
      BY <1>2, <1>5, <3>1
    <3>3. ~Mentions(e, h[i].rule)
      <4> SUFFICES ASSUME NEW k \in 1 .. n, e[k].rule = h[i].rule PROVE FALSE
        BY <1>1 DEF Mentions
      <4>1. m + k \in 1 .. m + n /\ m + k > i /\ L[m + k] = e[k]
        BY <1>1, <1>2, <2>2
      <4>2. QED
        BY <1>5, <3>1, <4>1
    <3>4. h[i].fired <=> h[i].rule \in old
      BY <1>1, <2>2, <3>2 DEF EndsWith
    <3>5. QED
      BY <3>1, <3>3, <3>4
  <2>3. QED
    BY <1>3, <2>1, <2>2
<1>6. ASSUME NEW r \in Rules PROVE Mentions(L, r) <=> Mentions(h, r) \/ Mentions(e, r)
  <2>1. Mentions(h, r) => Mentions(L, r)
    BY <1>1, <1>2 DEF Mentions
  <2>2. ASSUME Mentions(e, r) PROVE Mentions(L, r)
    <3>1. PICK k \in 1 .. n : e[k].rule = r
      BY <1>1, <2>2 DEF Mentions
    <3>2. m + k \in DOMAIN L /\ L[m + k].rule = r
      BY <1>1, <1>2, <3>1
    <3>3. QED
      BY <3>2 DEF Mentions
  <2>3. ASSUME Mentions(L, r) PROVE Mentions(h, r) \/ Mentions(e, r)
    <3>1. PICK i \in 1 .. m + n : L[i].rule = r
      BY <1>1, <2>3 DEF Mentions
    <3>2. CASE i \in 1 .. m
      BY <1>1, <1>2, <3>1, <3>2 DEF Mentions
    <3>3. ASSUME NEW k \in 1 .. n, i = m + k PROVE Mentions(e, r)
      <4>1. e[k].rule = r /\ k \in DOMAIN e
        BY <1>1, <1>2, <3>1, <3>3
      <4>2. QED
        BY <4>1 DEF Mentions
    <3>4. QED
      BY <1>3, <3>2, <3>3
  <2>4. QED
    BY <2>1, <2>2, <2>3
<1>7. Alternates(L)
  BY <1>1, <1>4 DEF Alternates
<1>8. EndsWith(L, new)
  BY <1>1, <1>5 DEF EndsWith
<1>9. QED
  BY <1>6, <1>7, <1>8 DEF L

(* The cap drops the oldest events, which nothing that is left depends on. *)
LEMMA TruthfulCapped ==
    ASSUME NEW h \in Seq(AlertEvents), NEW rules \in SUBSET Rules,
           Alternates(h), EndsWith(h, rules)
    PROVE  /\ Capped(h) \in Seq(AlertEvents)
           /\ Alternates(Capped(h)) /\ EndsWith(Capped(h), rules)
           /\ Capped(h) = h \/ Len(Capped(h)) = HistoryCap
           /\ Len(h) <= HistoryCap => Capped(h) = h
           /\ Len(Capped(h)) <= HistoryCap
<1>1. Len(h) \in Nat /\ HistoryCap \in Nat /\ HistoryCap > 0
      /\ DOMAIN h = 1 .. Len(h) /\ \A i \in 1 .. Len(h) : h[i] \in AlertEvents
  BY AlertsAssumption
<1>2. CASE Len(h) <= HistoryCap
  BY <1>2 DEF Capped
<1>3. CASE ~(Len(h) <= HistoryCap)
  <2> DEFINE d == Len(h) - HistoryCap
             t == SubSeq(h, d + 1, Len(h))
  <2>1. d \in Nat /\ Len(h) = d + HistoryCap
    BY <1>1, <1>3
  <2>2. Capped(h) = t
    BY <1>3 DEF Capped
  <2>3. /\ t \in Seq(AlertEvents) /\ Len(t) = HistoryCap /\ DOMAIN t = 1 .. HistoryCap
        /\ \A i \in 1 .. HistoryCap : t[i] = h[d + i] /\ d + i \in 1 .. Len(h)
    <3>1. d + 1 \in Int /\ Len(h) \in Int /\ \A i \in d + 1 .. Len(h) : h[i] \in AlertEvents
      BY <1>1, <2>1
    <3>2. /\ t \in Seq(AlertEvents)
          /\ Len(t) = (IF d + 1 <= Len(h) THEN Len(h) - (d + 1) + 1 ELSE 0)
          /\ \A i \in 1 .. Len(h) - (d + 1) + 1 : t[i] = h[(d + 1) + i - 1]
      <4> HIDE DEF d
      <4>1. QED
        BY <3>1, SubSeqProperties
    <3>3. Len(h) - (d + 1) + 1 = HistoryCap /\ d + 1 <= Len(h)
      BY <1>1, <2>1
    <3>4. \A i \in 1 .. HistoryCap : (d + 1) + i - 1 = d + i /\ d + i \in 1 .. Len(h)
      BY <1>1, <2>1
    <3> HIDE DEF t, d
    <3>5. Len(t) = HistoryCap
      BY <3>2, <3>3
    <3>6. DOMAIN t = 1 .. HistoryCap
      BY <3>2, <3>5, LenProperties
    <3>7. QED
      BY <3>2, <3>3, <3>4, <3>5, <3>6
  <2> HIDE DEF t, d
  <2>4. Alternates(t)
    <3> SUFFICES ASSUME NEW i \in 1 .. HistoryCap, NEW j \in 1 .. HistoryCap,
                        NextOfRule(t, i, j)
                 PROVE  t[i].fired # t[j].fired
      BY <2>3 DEF Alternates
    <3>1. i < j /\ t[i].rule = t[j].rule /\ \A k \in i + 1 .. j - 1 : t[k].rule # t[i].rule
      BY DEF NextOfRule
    <3>2. ASSUME NEW k \in (d + i) + 1 .. (d + j) - 1 PROVE h[k].rule # h[d + i].rule
      <4>1. /\ k - d \in i + 1 .. j - 1 /\ k - d \in 1 .. HistoryCap /\ d + (k - d) = k
        BY <1>1, <2>1, <3>2
      <4>2. QED
        BY <2>3, <3>1, <4>1
    <3>3. d + i < d + j
      BY <1>1, <2>1, <3>1
    <3>4. NextOfRule(h, d + i, d + j)
      BY <2>3, <3>1, <3>2, <3>3 DEF NextOfRule
    <3>5. QED
      BY <1>1, <2>3, <3>4 DEF Alternates
  <2>5. EndsWith(t, rules)
    <3> SUFFICES ASSUME NEW i \in 1 .. HistoryCap,
                        \A k \in 1 .. HistoryCap : k > i => t[k].rule # t[i].rule
                 PROVE  t[i].fired <=> t[i].rule \in rules
      BY <2>3 DEF EndsWith
    <3>1. ASSUME NEW k \in 1 .. Len(h), k > d + i PROVE h[k].rule # h[d + i].rule
      <4>1. k - d \in 1 .. HistoryCap /\ k - d > i /\ d + (k - d) = k
        BY <1>1, <2>1, <3>1
      <4>2. QED
        BY <2>3, <4>1
    <3>2. QED
      BY <1>1, <2>3, <3>1 DEF EndsWith
  <2>6. HistoryCap <= HistoryCap
    BY <1>1
  <2>7. QED
    BY <1>3, <2>2, <2>3, <2>4, <2>5, <2>6
<1>4. QED
  BY <1>2, <1>3

(* A pass leaves the rules that hold active, and tells of each change once. *)
LEMMA PassIsTruthful ==
    ASSUME AlertIInv, Evaluate
    PROVE  AlertIInv'
<1> DEFINE holding == RulesHolding(lastReorgs)
           opened == Events(holding \ activeRules, TRUE)
           closed == Events(activeRules \ holding, FALSE)
           both == activeRules \cup holding
           mid == history \o opened
           all == mid \o closed
<1>1. /\ holding \in SUBSET Rules /\ activeRules \in SUBSET Rules /\ both \in SUBSET Rules
      /\ ~({"kill_switch", "drawdown_approaching"} \subseteq holding)
  BY DEF RulesHolding, AlertIInv
<1>2. /\ lastReorgs' = 0 /\ told' = told + lastReorgs /\ observed' = observed
      /\ activeRules' = holding /\ history' = Capped(all)
  BY DEF Evaluate, Taken, world
<1>3. /\ history \in Seq(AlertEvents) /\ Alternates(history) /\ EndsWith(history, activeRules)
      /\ lastReorgs \in Nat /\ told \in Nat /\ observed \in Nat /\ observed = lastReorgs + told
      /\ Len(history) <= HistoryCap
      /\ \A r \in activeRules : Mentions(history, r) \/ Len(history) = HistoryCap
  BY DEF AlertIInv, AlertsTellTheTruth
<1>4. /\ opened \in Seq(AlertEvents)
      /\ \A r \in holding \ activeRules : Mentions(opened, r)
      /\ \A i \in DOMAIN opened : opened[i].rule \in holding \ activeRules /\ opened[i].fired = TRUE
      /\ \A i, j \in DOMAIN opened : opened[i].rule = opened[j].rule => i = j
  <2>1. holding \ activeRules \in SUBSET Rules /\ TRUE \in BOOLEAN
    BY <1>1
  <2> HIDE DEF holding
  <2>2. QED
    BY <2>1, EventsList
<1>5. /\ closed \in Seq(AlertEvents)
      /\ \A r \in activeRules \ holding : Mentions(closed, r)
      /\ \A i \in DOMAIN closed : closed[i].rule \in activeRules \ holding /\ closed[i].fired = FALSE
      /\ \A i, j \in DOMAIN closed : closed[i].rule = closed[j].rule => i = j
  <2>1. activeRules \ holding \in SUBSET Rules /\ FALSE \in BOOLEAN
    BY <1>1
  <2> HIDE DEF holding
  <2>2. QED
    BY <2>1, EventsList
<1> HIDE DEF holding, opened, closed
<1>6. /\ mid \in Seq(AlertEvents) /\ Alternates(mid) /\ EndsWith(mid, both)
      /\ \A r \in Rules : Mentions(mid, r) <=> Mentions(history, r) \/ Mentions(opened, r)
  <2>1. \A i \in DOMAIN opened : /\ opened[i].fired <=> opened[i].rule \in both
                                 /\ opened[i].rule \in both <=> opened[i].rule \notin activeRules
    BY <1>4
  <2>2. \A r \in Rules : ~Mentions(opened, r) => (r \in both <=> r \in activeRules)
    BY <1>4
  <2>3. mid \in Seq(AlertEvents)
    BY <1>3, <1>4, ConcatProperties
  <2>4. TellsChange(opened, activeRules, both)
    BY <1>4, <2>1, <2>2 DEF TellsChange
  <2>5. opened \in Seq(AlertEvents) /\ history \in Seq(AlertEvents)
    BY <1>3, <1>4
  <2>6. activeRules \in SUBSET Rules /\ both \in SUBSET Rules
    BY <1>1
  <2>7. Alternates(history) /\ EndsWith(history, activeRules)
    BY <1>3
  <2> HIDE DEF both
  <2>8. /\ Alternates(mid) /\ EndsWith(mid, both)
        /\ \A r \in Rules : Mentions(mid, r) <=> Mentions(history, r) \/ Mentions(opened, r)
    BY <2>4, <2>5, <2>6, <2>7, TruthfulAppend
  <2>9. QED
    BY <2>3, <2>8
<1>7. /\ all \in Seq(AlertEvents) /\ Alternates(all) /\ EndsWith(all, holding)
      /\ \A r \in Rules : Mentions(all, r) <=> Mentions(mid, r) \/ Mentions(closed, r)
  <2>1. \A i \in DOMAIN closed : /\ closed[i].fired <=> closed[i].rule \in holding
                                 /\ closed[i].rule \in holding <=> closed[i].rule \notin both
    BY <1>5
  <2>2. \A r \in Rules : ~Mentions(closed, r) => (r \in holding <=> r \in both)
    BY <1>5
  <2>3. all \in Seq(AlertEvents)
    BY <1>5, <1>6, ConcatProperties
  <2>4. TellsChange(closed, both, holding)
    BY <1>5, <2>1, <2>2 DEF TellsChange
  <2>5. closed \in Seq(AlertEvents) /\ mid \in Seq(AlertEvents)
    BY <1>5, <1>6
  <2>6. both \in SUBSET Rules /\ holding \in SUBSET Rules
    BY <1>1
  <2>7. Alternates(mid) /\ EndsWith(mid, both)
    BY <1>6
  <2> HIDE DEF both, mid
  <2>8. /\ Alternates(all) /\ EndsWith(all, holding)
        /\ \A r \in Rules : Mentions(all, r) <=> Mentions(mid, r) \/ Mentions(closed, r)
    BY <2>4, <2>5, <2>6, <2>7, TruthfulAppend
  <2>9. QED
    BY <2>3, <2>8
<1>8. Len(all) \in Nat /\ Len(history) \in Nat /\ Len(history) <= Len(all) /\ HistoryCap \in Nat
  <2>1. Len(mid) = Len(history) + Len(opened) /\ Len(opened) \in Nat /\ Len(history) \in Nat
    BY <1>3, <1>4, ConcatProperties, LenProperties
  <2>2. Len(all) = Len(mid) + Len(closed) /\ Len(closed) \in Nat
    BY <1>5, <1>6, ConcatProperties, LenProperties
  <2>3. HistoryCap \in Nat
    BY AlertsAssumption
  <2> HIDE DEF mid, all
  <2>4. QED
    BY <2>1, <2>2, <2>3
<1> HIDE DEF mid, all
<1>9. /\ Capped(all) \in Seq(AlertEvents)
      /\ Alternates(Capped(all)) /\ EndsWith(Capped(all), holding)
      /\ Capped(all) = all \/ Len(Capped(all)) = HistoryCap
      /\ Len(Capped(all)) <= HistoryCap
  BY <1>1, <1>7, TruthfulCapped
<1>10. ASSUME NEW r \in holding
       PROVE  Mentions(Capped(all), r) \/ Len(Capped(all)) = HistoryCap
  <2>1. CASE Mentions(all, r)
    BY <1>9, <2>1
  <2>2. CASE ~Mentions(all, r)
    <3>1. r \in Rules /\ ~Mentions(mid, r)
      BY <1>1, <1>7, <2>2
    <3>2. r \in activeRules /\ ~Mentions(history, r)
      BY <1>4, <1>6, <3>1
    <3>3. Len(history) = HistoryCap
      BY <1>3, <3>2
    <3>4. Capped(all) = all => Len(Capped(all)) = HistoryCap
      BY <1>8, <1>9, <3>3
    <3>5. QED
      BY <1>9, <3>4
  <2>3. QED
    BY <2>1, <2>2
<1>11. /\ lastReorgs' \in Nat /\ told' \in Nat /\ observed' \in Nat
       /\ observed' = lastReorgs' + told'
  BY <1>2, <1>3
<1>12. AlertsTellTheTruth'
  <2>1. (~({"kill_switch", "drawdown_approaching"} \subseteq activeRules))'
    BY <1>1, <1>2
  <2>2. (Alternates(history) /\ EndsWith(history, activeRules))'
    BY <1>2, <1>9
  <2>3. (\A r \in activeRules : Mentions(history, r) \/ Len(history) = HistoryCap)'
    BY <1>2, <1>10
  <2>4. QED
    BY <1>11, <2>1, <2>2, <2>3 DEF AlertsTellTheTruth
<1>13. QED
  BY <1>1, <1>2, <1>9, <1>11, <1>12 DEF AlertIInv

LEMMA AlertsInvariance == AlertsSpec => []AlertIInv
<1>1. AlertsInit => AlertIInv
  <2> SUFFICES ASSUME AlertsInit PROVE AlertIInv
    OBVIOUS
  <2>1. /\ lastReorgs = 0 /\ told = 0 /\ observed = 0 /\ activeRules = {} /\ history = <<>>
    BY DEF AlertsInit
  <2>2. history \in Seq(AlertEvents) /\ Len(history) = 0 /\ DOMAIN history = {} /\ 0 <= HistoryCap
    BY <2>1, AlertsAssumption
  <2>3. Alternates(history) /\ EndsWith(history, activeRules)
    BY <2>2 DEF Alternates, EndsWith
  <2>4. AlertsTellTheTruth
    BY <2>1, <2>3 DEF AlertsTellTheTruth
  <2>5. QED
    BY <2>1, <2>2, <2>4 DEF AlertIInv
<1>2. AlertIInv /\ [AlertsNext]_alertVars => AlertIInv'
  <2> SUFFICES ASSUME AlertIInv, [AlertsNext]_alertVars PROVE AlertIInv'
    OBVIOUS
  <2>1. CASE UNCHANGED <<activeRules, history, observed, told, lastReorgs>>
    BY <2>1 DEF AlertIInv, AlertsTellTheTruth, Alternates, EndsWith, Mentions, NextOfRule
  <2>2. CASE Time \/ ObserveHead \/ ObservePending \/ Trade \/ Read
    BY <2>1, <2>2 DEF Time, ObserveHead, ObservePending, Trade, Read
  <2>3. CASE ObserveReorg
    <3>1. /\ observed' = observed + 1 /\ lastReorgs' = lastReorgs + 1
          /\ UNCHANGED <<activeRules, history, told>>
      BY <2>3 DEF ObserveReorg
    <3>2. /\ observed' \in Nat /\ lastReorgs' \in Nat /\ told' \in Nat
          /\ observed' = lastReorgs' + told'
      BY <3>1 DEF AlertIInv, AlertsTellTheTruth
    <3>3. AlertsTellTheTruth'
      BY <3>1, <3>2 DEF AlertIInv, AlertsTellTheTruth, Alternates, EndsWith, Mentions, NextOfRule
    <3>4. QED
      BY <3>1, <3>2, <3>3 DEF AlertIInv
  <2>4. CASE Evaluate
    BY <2>4, PassIsTruthful
  <2>5. CASE UNCHANGED alertVars
    BY <2>1, <2>5 DEF alertVars
  <2>6. QED
    BY <2>2, <2>3, <2>4, <2>5 DEF AlertsNext
<1>3. QED
  BY <1>1, <1>2, PTL DEF AlertsSpec

(* What the panel shows is what the history of the alerts says, and no reorg  *)
(* is lost or told of twice: for every number of sources, every cap and every *)
(* order of the passes (Alerts::evaluate, take_reorgs).                       *)
THEOREM AlertsAreTruthful == AlertsSpec => []AlertsTellTheTruth
<1>1. AlertIInv => AlertsTellTheTruth
  BY DEF AlertIInv
<1>2. QED
  BY <1>1, AlertsInvariance, PTL

(* What is read so far of the signals is a number of whole steps. *)
ReadSoFar(n) == UNION {Fields[k] : k \in 1 .. n}

AlertBounds ==
    /\ {clock, lastHead, lastPending} \subseteq 0 .. LastTime
    /\ observed <= MaxObserved
    /\ moving \in Moving /\ wsUrl \in BOOLEAN /\ switch \in BOOLEAN /\ halfLost \in BOOLEAN
    /\ collapsed \subseteq Collapsible
    /\ \E n \in 0 .. Len(Fields) : DOMAIN signals = ReadSoFar(n)

LEMMA AlertBoundsKept ==
    ASSUME AlertIInv, AlertBounds, [AlertsNext]_alertVars
    PROVE  AlertBounds'
<1> USE DEF AlertBounds
<1>1. LastTime \in Nat /\ MaxObserved \in Nat /\ observed \in Nat
      /\ clock \in Nat /\ clock <= LastTime
  BY AlertsAssumption DEF AlertIInv
<1>2. Len(Fields) = 3 /\ DOMAIN Fields = 1 .. 3
  BY DEF Fields
<1>3. CASE Time \/ ObserveHead \/ ObservePending \/ ObserveReorg \/ Trade
  <2>1. signals' = signals /\ moving' = moving /\ wsUrl' = wsUrl
    BY <1>3 DEF Time, ObserveHead, ObservePending, ObserveReorg, Trade, world
  <2>2. {clock', lastHead', lastPending'} \subseteq 0 .. LastTime
    BY <1>1, <1>3 DEF Time, ObserveHead, ObservePending, ObserveReorg, Trade, world
  <2>3. observed' <= MaxObserved
    BY <1>1, <1>3 DEF Time, ObserveHead, ObservePending, ObserveReorg, Trade, world
  <2>4. switch' \in BOOLEAN /\ halfLost' \in BOOLEAN /\ collapsed' \subseteq Collapsible
    BY <1>3 DEF Time, ObserveHead, ObservePending, ObserveReorg, Trade, world
  <2>5. QED
    BY <2>1, <2>2, <2>3, <2>4
<1>4. CASE Read
  <2>1. PICK n \in 1 .. 3 : /\ DOMAIN signals = ReadSoFar(n - 1)
                            /\ DOMAIN signals' = DOMAIN signals \cup Fields[n]
    BY <1>2, <1>4 DEF Read, ReadSoFar
  <2>2. ReadSoFar(n) = ReadSoFar(n - 1) \cup Fields[n]
    <3>1. 1 .. n = (1 .. n - 1) \cup {n}
      OBVIOUS
    <3>2. QED
      BY <3>1 DEF ReadSoFar
  <2>3. \E k \in 0 .. Len(Fields) : DOMAIN signals' = ReadSoFar(k)
    BY <1>2, <2>1, <2>2
  <2>4. UNCHANGED <<clock, lastHead, lastPending, observed, moving, wsUrl, switch, halfLost, collapsed>>
    BY <1>4 DEF Read, world
  <2>5. QED
    BY <2>3, <2>4
<1>5. CASE Evaluate
  <2>1. DOMAIN signals' = ReadSoFar(0)
    BY <1>5 DEF Evaluate, Unread, ReadSoFar
  <2>2. UNCHANGED <<clock, lastHead, lastPending, observed, moving, wsUrl, switch, halfLost, collapsed>>
    BY <1>5 DEF Evaluate, world
  <2>3. QED
    BY <1>2, <2>1, <2>2
<1>6. CASE UNCHANGED alertVars
  BY <1>6 DEF alertVars
<1>7. QED
  BY <1>3, <1>4, <1>5, <1>6 DEF AlertsNext

(* Every variable keeps its type; what is observed and not told of is no more  *)
(* than what was observed at all.                                          *)
THEOREM AlertsTypesHold == AlertsSpec => []AlertsTypeOK
<1>1. AlertsInit => AlertBounds
  <2> SUFFICES ASSUME AlertsInit PROVE AlertBounds
    OBVIOUS
  <2>1. DOMAIN signals = ReadSoFar(0) /\ Len(Fields) = 3
    BY DEF AlertsInit, Unread, ReadSoFar, Fields
  <2>2. {clock, lastHead, lastPending} \subseteq 0 .. LastTime /\ observed <= MaxObserved
    BY AlertsAssumption DEF AlertsInit
  <2>3. \E n \in 0 .. Len(Fields) : DOMAIN signals = ReadSoFar(n)
    BY <2>1
  <2>4. QED
    BY <2>2, <2>3 DEF AlertsInit, AlertBounds
<1>2. AlertIInv /\ AlertBounds /\ [AlertsNext]_alertVars => AlertBounds'
  BY AlertBoundsKept
<1>3. AlertIInv /\ AlertBounds => AlertsTypeOK
  <2> SUFFICES ASSUME AlertIInv, AlertBounds PROVE AlertsTypeOK
    OBVIOUS
  <2>1. lastReorgs \in 0 .. MaxObserved /\ observed \in 0 .. MaxObserved /\ told \in Nat
    BY AlertsAssumption DEF AlertIInv, AlertBounds, AlertsTellTheTruth
  <2>2. \A k \in DOMAIN history : history[k] \in [rule : Rules, fired : BOOLEAN]
    <3>1. history \in Seq(AlertEvents)
      BY DEF AlertIInv
    <3>2. \A k \in DOMAIN history : history[k] \in AlertEvents
      BY <3>1, ElementOfSeq
    <3>3. QED
      BY <3>2 DEF AlertEvents
  <2>3. QED
    BY <2>1, <2>2 DEF AlertIInv, AlertBounds, AlertsTypeOK, ReadSoFar
<1>4. QED
  BY <1>1, <1>2, <1>3, AlertsInvariance, PTL DEF AlertsSpec
=============================================================================
