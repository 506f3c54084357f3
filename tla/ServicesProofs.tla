--------------------------- MODULE ServicesProofs ---------------------------
(***************************************************************************)
(* The services: the CoW trader keeps hold of its live orders and below its *)
(* caps, and the flow of blocks is the one DeliveredBlocks promises.        *)
(***************************************************************************)
EXTENDS CowTrader, BlockFlow, SequenceTheorems, FiniteSetTheorems, TLAPS

-----------------------------------------------------------------------------
(***************************************************************************)
(* The CoW trader                                                          *)
(***************************************************************************)

CowBusy == {"post", "delete", "get", "fold", "row"}

CowTypes ==
    /\ book \in [Uids -> {"absent"} \cup CowStatus]
    /\ posted \subseteq Uids /\ tracked \subseteq Uids /\ pegged \subseteq tracked
    /\ cowPc \in [CowTasks -> CowSteps]
    /\ cowUid \in [CowTasks -> Uids \cup {NoUid}]
    /\ todo \in [CowTasks -> SUBSET Uids]
    /\ stillOpen \in Nat
    /\ answered \subseteq Uids /\ asked \subseteq Uids
    /\ pollFailed \in BOOLEAN
    /\ \A t \in CowTasks : cowPc[t] \in CowBusy => cowUid[t] \in Uids

(* The book has every order that is tracked or to be cancelled; the histories *)
(* are of open orders; a DELETE that is on its way has been asked for.       *)
LiveInv ==
    /\ \A u \in posted : book[u] = "absent"
    /\ \A u \in answered \cup asked : book[u] = "open"
    /\ \A u \in tracked : book[u] # "absent"
    /\ \A t \in CowTasks : \A u \in todo[t] : book[u] # "absent"
    /\ \A t \in CowTasks : cowPc[t] = "delete" =>
          /\ book[cowUid[t]] # "absent"
          /\ book[cowUid[t]] = "open" => cowUid[t] \in asked
    /\ cowPc[Trader] = "fold" /\ seen \in CowTerminal =>
          book[cowUid[Trader]] \in CowTerminal
    /\ LiveOrderIsTracked

(* Pegs that a pass has still to poll, or is polling *)
Unpolled ==
    todo[Trader] \cup
        (IF cowPc[Trader] \in {"get", "fold", "row"} THEN {cowUid[Trader]} ELSE {})

PegInv ==
    ~pollFailed =>
        /\ Cardinality(pegged) <= MaxOpen
        /\ cowPc[Trader] \in {"poll", "get", "fold", "row"} =>
              Cardinality(pegged \ Unpolled) <= stillOpen
        /\ cowPc[Trader] = "row" /\ seen \in CowTerminal => cowUid[Trader] \notin pegged
        /\ cowPc[Trader] \in {"place", "post"} => Cardinality(pegged) < MaxOpen

CowIInv == CowTypes /\ LiveInv /\ PegInv

LEMMA PegsAreFinite ==
    ASSUME CowTypes, NEW S
    PROVE  /\ IsFiniteSet(pegged) /\ IsFiniteSet(pegged \ S)
           /\ Cardinality(pegged) \in Nat /\ Cardinality(pegged \ S) \in Nat
<1>1. IsFiniteSet(Uids) /\ pegged \subseteq Uids
  BY CowAssumption DEF CowTypes
<1>2. IsFiniteSet(pegged) /\ IsFiniteSet(pegged \ S)
  BY <1>1, FS_Subset
<1>3. QED
  BY <1>2, FS_CardinalityType

LEMMA BookAcceptsKeeps ==
    ASSUME CowIInv, NEW u \in Uids, BookAccepts(u) PROVE CowIInv'
<1>1. CowTypes'
  BY CowAssumption
  DEF CowIInv, CowTypes, BookAccepts, GoTo, cowTasks, cowHistory, CowTasks, CowStatus, CowTerminal, CowSteps,
      CowBusy
<1>2. LiveInv'
  BY CowAssumption
  DEF CowIInv, CowTypes, LiveInv, LiveOrderIsTracked, BookAccepts, GoTo, cowTasks, cowHistory, CowTasks,
      CowTerminal, CowBusy
<1>3. PegInv'
  BY CowAssumption
  DEF CowIInv, CowTypes, PegInv, Unpolled, BookAccepts, GoTo, cowTasks, cowHistory, CowTasks
<1>4. QED
  BY <1>1, <1>2, <1>3 DEF CowIInv

LEMMA BookEndsKeeps ==
    ASSUME CowIInv, NEW u \in Uids, NEW end \in CowTerminal, BookEnds(u, end) PROVE CowIInv'
<1>1. CowTypes'
  BY CowAssumption
  DEF CowIInv, CowTypes, BookEnds, GoTo, cowTasks, cowHistory, CowTasks, CowStatus, CowTerminal, CowSteps,
      CowBusy
<1>2. LiveInv'
  BY CowAssumption
  DEF CowIInv, CowTypes, LiveInv, LiveOrderIsTracked, BookEnds, GoTo, cowTasks, cowHistory, CowTasks,
      CowTerminal, CowBusy
<1>3. PegInv'
  BY CowAssumption
  DEF CowIInv, CowTypes, PegInv, Unpolled, BookEnds, GoTo, cowTasks, cowHistory, CowTasks
<1>4. QED
  BY <1>1, <1>2, <1>3 DEF CowIInv

LEMMA PlaceRequestedKeeps ==
    ASSUME CowIInv, NEW a \in ApiTasks, PlaceRequested(a) PROVE CowIInv'
<1>1. CowTypes'
  BY CowAssumption
  DEF CowIInv, CowTypes, PlaceRequested, GoTo, cowTasks, cowHistory, CowTasks, CowStatus, CowTerminal, CowSteps,
      CowBusy
<1>2. LiveInv'
  BY CowAssumption
  DEF CowIInv, CowTypes, LiveInv, LiveOrderIsTracked, PlaceRequested, GoTo, cowTasks, cowHistory, CowTasks,
      CowTerminal, CowBusy
<1>3. PegInv'
  BY CowAssumption
  DEF CowIInv, CowTypes, PegInv, Unpolled, PlaceRequested, GoTo, cowTasks, cowHistory, CowTasks
<1>4. QED
  BY <1>1, <1>2, <1>3 DEF CowIInv

LEMMA PostKeeps ==
    ASSUME CowIInv, NEW t \in CowTasks, Post(t) PROVE CowIInv'
<1>1. CowTypes'
  BY CowAssumption
  DEF CowIInv, CowTypes, Post, FreshUids, GoTo, cowTasks, cowHistory, CowTasks, CowStatus, CowTerminal, CowSteps,
      CowBusy
<1>2. LiveInv'
  BY CowAssumption
  DEF CowIInv, CowTypes, LiveInv, LiveOrderIsTracked, Post, FreshUids, GoTo, cowTasks, cowHistory, CowTasks,
      CowTerminal, CowBusy
<1>3. PegInv'
  BY CowAssumption
  DEF CowIInv, CowTypes, PegInv, Unpolled, Post, FreshUids, GoTo, cowTasks, cowHistory, CowTasks
<1>4. QED
  BY <1>1, <1>2, <1>3 DEF CowIInv

LEMMA NoUidLeftKeeps ==
    ASSUME CowIInv, NEW t \in CowTasks, NoUidLeft(t) PROVE CowIInv'
<1>1. CowTypes'
  BY CowAssumption
  DEF CowIInv, CowTypes, NoUidLeft, GoTo, cowTasks, cowHistory, CowTasks, CowStatus, CowTerminal, CowSteps,
      CowBusy
<1>2. LiveInv'
  BY CowAssumption
  DEF CowIInv, CowTypes, LiveInv, LiveOrderIsTracked, NoUidLeft, GoTo, cowTasks, cowHistory, CowTasks,
      CowTerminal, CowBusy
<1>3. PegInv'
  BY CowAssumption
  DEF CowIInv, CowTypes, PegInv, Unpolled, NoUidLeft, GoTo, cowTasks, cowHistory, CowTasks
<1>4. QED
  BY <1>1, <1>2, <1>3 DEF CowIInv

LEMMA PlacedKeeps ==
    ASSUME CowIInv, NEW t \in CowTasks, Placed(t) PROVE CowIInv'
<1>1. CowTypes'
  BY CowAssumption
  DEF CowIInv, CowTypes, Placed, RecordOrder, Release, GoTo, cowTasks, cowHistory, CowTasks, CowStatus, CowTerminal, CowSteps,
      CowBusy
<1>2. LiveInv'
  BY CowAssumption
  DEF CowIInv, CowTypes, LiveInv, LiveOrderIsTracked, Placed, RecordOrder, Release, GoTo, cowTasks, cowHistory, CowTasks,
      CowTerminal, CowBusy
<1>3. PegInv'
  <2>1. CASE t = Trader
    <3>1. /\ pegged' = pegged \cup {cowUid[t]} /\ pollFailed' = pollFailed
          /\ cowPc[Trader] = "post" /\ cowPc'[Trader] = "idle"
      BY <2>1 DEF Placed, GoTo, CowIInv, CowTypes
    <3>2. Cardinality(pegged') <= Cardinality(pegged) + 1
      <4>1. IsFiniteSet(pegged) /\ Cardinality(pegged) \in Nat
        BY PegsAreFinite DEF CowIInv
      <4>2. Cardinality(pegged') = IF cowUid[t] \in pegged THEN Cardinality(pegged)
                                   ELSE Cardinality(pegged) + 1
        BY <3>1, <4>1, FS_AddElement
      <4>3. QED
        BY <4>1, <4>2
    <3>3. /\ Cardinality(pegged) \in Nat /\ MaxOpen \in Nat
          /\ IsFiniteSet(pegged') /\ Cardinality(pegged') \in Nat
      BY <3>1, PegsAreFinite, FS_AddElement, FS_CardinalityType, CowAssumption DEF CowIInv
    <3>4. ~pollFailed => Cardinality(pegged) < MaxOpen
      BY <3>1 DEF CowIInv, PegInv
    <3>5. ~pollFailed' => Cardinality(pegged') <= MaxOpen
      BY <3>1, <3>2, <3>3, <3>4
    <3>6. QED
      BY <3>1, <3>5 DEF PegInv
  <2>2. CASE t # Trader
    BY <2>2, CowAssumption
    DEF CowIInv, CowTypes, PegInv, Unpolled, Placed, Release, GoTo, CowTasks
  <2>3. QED
    BY <2>1, <2>2
<1>4. QED
  BY <1>1, <1>2, <1>3 DEF CowIInv

LEMMA PlaceFailsKeeps ==
    ASSUME CowIInv, NEW t \in CowTasks, PlaceFails(t) PROVE CowIInv'
<1>1. CowTypes'
  BY CowAssumption
  DEF CowIInv, CowTypes, PlaceFails, Release, GoTo, cowTasks, cowHistory, CowTasks, CowStatus, CowTerminal, CowSteps,
      CowBusy
<1>2. LiveInv'
  BY CowAssumption
  DEF CowIInv, CowTypes, LiveInv, LiveOrderIsTracked, PlaceFails, Release, GoTo, cowTasks, cowHistory, CowTasks,
      CowTerminal, CowBusy
<1>3. PegInv'
  BY CowAssumption
  DEF CowIInv, CowTypes, PegInv, Unpolled, PlaceFails, Release, GoTo, cowTasks, cowHistory, CowTasks
<1>4. QED
  BY <1>1, <1>2, <1>3 DEF CowIInv

LEMMA CancelRequestedKeeps ==
    ASSUME CowIInv, NEW a \in ApiTasks, CancelRequested(a) PROVE CowIInv'
<1>1. CowTypes'
  BY CowAssumption
  DEF CowIInv, CowTypes, CancelRequested, GoTo, cowTasks, cowHistory, CowTasks, CowStatus, CowTerminal, CowSteps,
      CowBusy
<1>2. LiveInv'
  BY CowAssumption
  DEF CowIInv, CowTypes, LiveInv, LiveOrderIsTracked, CancelRequested, GoTo, cowTasks, cowHistory, CowTasks,
      CowTerminal, CowBusy
<1>3. PegInv'
  BY CowAssumption
  DEF CowIInv, CowTypes, PegInv, Unpolled, CancelRequested, GoTo, cowTasks, cowHistory, CowTasks
<1>4. QED
  BY <1>1, <1>2, <1>3 DEF CowIInv

LEMMA SendDeleteKeeps ==
    ASSUME CowIInv, NEW t \in CowTasks, SendDelete(t) PROVE CowIInv'
<1>1. CowTypes'
  BY CowAssumption
  DEF CowIInv, CowTypes, SendDelete, GoTo, cowTasks, cowHistory, CowTasks, CowStatus, CowTerminal, CowSteps,
      CowBusy
<1>2. LiveInv'
  BY CowAssumption
  DEF CowIInv, CowTypes, LiveInv, LiveOrderIsTracked, SendDelete, GoTo, cowTasks, cowHistory, CowTasks,
      CowTerminal, CowBusy
<1>3. PegInv'
  BY CowAssumption
  DEF CowIInv, CowTypes, PegInv, Unpolled, SendDelete, GoTo, cowTasks, cowHistory, CowTasks
<1>4. QED
  BY <1>1, <1>2, <1>3 DEF CowIInv

LEMMA CancelReturnsKeeps ==
    ASSUME CowIInv, NEW t \in CowTasks, CancelReturns(t) PROVE CowIInv'
<1>1. CowTypes'
  BY CowAssumption
  DEF CowIInv, CowTypes, CancelReturns, Release, GoTo, cowTasks, cowHistory, CowTasks, CowStatus, CowTerminal, CowSteps,
      CowBusy
<1>2. LiveInv'
  BY CowAssumption
  DEF CowIInv, CowTypes, LiveInv, LiveOrderIsTracked, CancelReturns, Release, GoTo, cowTasks, cowHistory, CowTasks,
      CowTerminal, CowBusy
<1>3. PegInv'
  <2>1. /\ pegged' = pegged \ {cowUid[t]} /\ pollFailed' = pollFailed /\ seen' = seen
        /\ stillOpen' = stillOpen
    BY DEF CancelReturns
  <2>2. /\ IsFiniteSet(pegged) /\ Cardinality(pegged) \in Nat
        /\ Cardinality(pegged') \in Nat /\ Cardinality(pegged') <= Cardinality(pegged)
    BY <2>1, PegsAreFinite, FS_Subset, FS_CardinalityType DEF CowIInv
  <2>3. MaxOpen \in Nat /\ stillOpen \in Nat
    BY CowAssumption DEF CowIInv, CowTypes
  <2>4. CASE t = Trader
    <3>1. cowPc'[Trader] = "cancel"
      BY <2>4 DEF CancelReturns, GoTo, CowIInv, CowTypes
    <3>2. QED
      BY <2>1, <2>2, <2>3, <3>1 DEF CowIInv, PegInv
  <2>5. CASE t # Trader
    <3>1. /\ cowPc'[Trader] = cowPc[Trader] /\ Unpolled' = Unpolled
          /\ cowUid'[Trader] = cowUid[Trader]
      BY <2>5, CowAssumption DEF CancelReturns, Release, GoTo, CowIInv, CowTypes, CowTasks, Unpolled
    <3>2. /\ Cardinality(pegged' \ Unpolled') \in Nat /\ Cardinality(pegged \ Unpolled) \in Nat
          /\ Cardinality(pegged' \ Unpolled') <= Cardinality(pegged \ Unpolled)
      <4>1. pegged' \ Unpolled' \subseteq pegged \ Unpolled /\ IsFiniteSet(pegged \ Unpolled)
        BY <2>1, <3>1, PegsAreFinite DEF CowIInv
      <4>2. QED
        BY <4>1, FS_Subset, FS_CardinalityType
    <3>3. QED
      BY <2>1, <2>2, <2>3, <3>1, <3>2 DEF CowIInv, PegInv
  <2>6. QED
    BY <2>4, <2>5
<1>4. QED
  BY <1>1, <1>2, <1>3 DEF CowIInv

LEMMA CancelsDoneKeeps ==
    ASSUME CowIInv, NEW t \in CowTasks, CancelsDone(t) PROVE CowIInv'
<1>1. CowTypes'
  BY CowAssumption
  DEF CowIInv, CowTypes, CancelsDone, GoTo, cowTasks, cowHistory, CowTasks, CowStatus, CowTerminal, CowSteps,
      CowBusy
<1>2. LiveInv'
  BY CowAssumption
  DEF CowIInv, CowTypes, LiveInv, LiveOrderIsTracked, CancelsDone, GoTo, cowTasks, cowHistory, CowTasks,
      CowTerminal, CowBusy
<1>3. PegInv'
  BY CowAssumption
  DEF CowIInv, CowTypes, PegInv, Unpolled, CancelsDone, GoTo, cowTasks, cowHistory, CowTasks
<1>4. QED
  BY <1>1, <1>2, <1>3 DEF CowIInv

LEMMA TraderStartsKeeps ==
    ASSUME CowIInv, TraderStarts PROVE CowIInv'
<1>1. CowTypes'
  BY CowAssumption
  DEF CowIInv, CowTypes, TraderStarts, GoTo, cowTasks, cowHistory, CowTasks, CowStatus, CowTerminal, CowSteps,
      CowBusy
<1>2. LiveInv'
  BY CowAssumption
  DEF CowIInv, CowTypes, LiveInv, LiveOrderIsTracked, TraderStarts, GoTo, cowTasks, cowHistory, CowTasks,
      CowTerminal, CowBusy
<1>3. PegInv'
  BY CowAssumption
  DEF CowIInv, CowTypes, PegInv, Unpolled, TraderStarts, GoTo, cowTasks, cowHistory, CowTasks
<1>4. QED
  BY <1>1, <1>2, <1>3 DEF CowIInv

LEMMA TickKeeps ==
    ASSUME CowIInv, Tick PROVE CowIInv'
<1>1. CowTypes'
  BY CowAssumption
  DEF CowIInv, CowTypes, Tick, GoTo, cowTasks, cowHistory, CowTasks, CowStatus, CowTerminal, CowSteps,
      CowBusy
<1>2. LiveInv'
  BY CowAssumption
  DEF CowIInv, CowTypes, LiveInv, LiveOrderIsTracked, Tick, GoTo, cowTasks, cowHistory, CowTasks,
      CowTerminal, CowBusy
<1>3. PegInv'
  <2>1. /\ pegged' = pegged /\ pollFailed' = pollFailed /\ stillOpen' = 0
        /\ todo'[Trader] = tracked /\ cowPc'[Trader] \in {"poll", "cancel"}
    BY CowAssumption DEF Tick, GoTo, cowHistory, CowIInv, CowTypes, CowTasks
  <2>2. Cardinality(pegged' \ Unpolled') = 0
    <3>1. pegged' \ Unpolled' = {}
      BY <2>1 DEF Unpolled, CowIInv, CowTypes
    <3>2. QED
      BY <3>1, FS_EmptySet
  <2>3. QED
    BY <2>1, <2>2 DEF CowIInv, PegInv
<1>4. QED
  BY <1>1, <1>2, <1>3 DEF CowIInv

LEMMA PollNextKeeps ==
    ASSUME CowIInv, PollNext PROVE CowIInv'
<1>1. CowTypes'
  BY CowAssumption
  DEF CowIInv, CowTypes, PollNext, GoTo, cowTasks, cowHistory, CowTasks, CowStatus, CowTerminal, CowSteps,
      CowBusy
<1>2. LiveInv'
  BY CowAssumption
  DEF CowIInv, CowTypes, LiveInv, LiveOrderIsTracked, PollNext, GoTo, cowTasks, cowHistory, CowTasks,
      CowTerminal, CowBusy
<1>3. PegInv'
  <2>1. PICK u \in todo[Trader] :
           /\ cowUid' = [cowUid EXCEPT ![Trader] = u]
           /\ todo' = [todo EXCEPT ![Trader] = @ \ {u}]
    BY DEF PollNext
  <2>2. /\ cowPc[Trader] = "poll" /\ cowPc'[Trader] = "get" /\ pegged' = pegged
        /\ pollFailed' = pollFailed /\ stillOpen' = stillOpen
    BY CowAssumption DEF PollNext, GoTo, cowHistory, CowIInv, CowTypes, CowTasks
  <2>3. /\ todo'[Trader] = todo[Trader] \ {u} /\ cowUid'[Trader] = u
    BY <2>1, CowAssumption DEF CowIInv, CowTypes, CowTasks
  <2>4. Unpolled' = Unpolled
    BY <2>2, <2>3 DEF Unpolled
  <2>5. QED
    BY <2>2, <2>4 DEF CowIInv, PegInv
<1>4. QED
  BY <1>1, <1>2, <1>3 DEF CowIInv

LEMMA StatusAnsweredKeeps ==
    ASSUME CowIInv, StatusAnswered PROVE CowIInv'
<1>1. CowTypes'
  BY CowAssumption
  DEF CowIInv, CowTypes, StatusAnswered, GoTo, cowTasks, cowHistory, CowTasks, CowStatus, CowTerminal, CowSteps,
      CowBusy
<1>2. LiveInv'
  BY CowAssumption
  DEF CowIInv, CowTypes, LiveInv, LiveOrderIsTracked, StatusAnswered, GoTo, cowTasks, cowHistory, CowTasks,
      CowTerminal, CowBusy
<1>3. PegInv'
  BY CowAssumption
  DEF CowIInv, CowTypes, PegInv, Unpolled, StatusAnswered, GoTo, cowTasks, cowHistory, CowTasks
<1>4. QED
  BY <1>1, <1>2, <1>3 DEF CowIInv

LEMMA PollFailsKeeps ==
    ASSUME CowIInv, PollFails PROVE CowIInv'
<1>1. CowTypes'
  BY CowAssumption
  DEF CowIInv, CowTypes, PollFails, PollKeeps, GoTo, cowTasks, cowHistory, CowTasks, CowStatus, CowTerminal, CowSteps,
      CowBusy
<1>2. LiveInv'
  BY CowAssumption
  DEF CowIInv, CowTypes, LiveInv, LiveOrderIsTracked, PollFails, PollKeeps, GoTo, cowTasks, cowHistory, CowTasks,
      CowTerminal, CowBusy
<1>3. PegInv'
  BY CowAssumption
  DEF CowIInv, CowTypes, PegInv, Unpolled, PollFails, PollKeeps, GoTo, cowTasks, cowHistory, CowTasks
<1>4. QED
  BY <1>1, <1>2, <1>3 DEF CowIInv

LEMMA FoldKeeps ==
    ASSUME CowIInv, Fold PROVE CowIInv'
<1>1. CowTypes'
  BY CowAssumption
  DEF CowIInv, CowTypes, Fold, GoTo, cowTasks, cowHistory, CowTasks, CowStatus, CowTerminal, CowSteps,
      CowBusy
<1>2. LiveInv'
  BY CowAssumption
  DEF CowIInv, CowTypes, LiveInv, LiveOrderIsTracked, Fold, GoTo, cowTasks, cowHistory, CowTasks,
      CowTerminal, CowBusy
<1>3. PegInv'
  <2> DEFINE u == cowUid[Trader]
             gone == IF seen \in CowTerminal THEN {u} ELSE {}
  <2>1. /\ pegged' = pegged \ gone /\ pollFailed' = pollFailed /\ stillOpen' = stillOpen
        /\ cowUid' = cowUid /\ todo' = todo /\ cowPc[Trader] = "fold"
        /\ cowPc'[Trader] = IF u \in tracked THEN "row" ELSE "poll"
        /\ u \in tracked => seen' = seen
    BY CowAssumption DEF Fold, GoTo, cowHistory, CowIInv, CowTypes, CowTasks
  <2>2. pegged' \ Unpolled' \subseteq pegged \ Unpolled
    BY <2>1 DEF Unpolled, CowIInv, CowTypes
  <2>3. /\ Cardinality(pegged) \in Nat /\ Cardinality(pegged') \in Nat
        /\ Cardinality(pegged') <= Cardinality(pegged)
    BY <2>1, PegsAreFinite, FS_Subset, FS_CardinalityType DEF CowIInv
  <2>4. /\ Cardinality(pegged' \ Unpolled') \in Nat /\ Cardinality(pegged \ Unpolled) \in Nat
        /\ Cardinality(pegged' \ Unpolled') <= Cardinality(pegged \ Unpolled)
    <3>1. IsFiniteSet(pegged \ Unpolled)
      BY PegsAreFinite DEF CowIInv
    <3>2. QED
      BY <2>2, <3>1, FS_Subset, FS_CardinalityType
  <2>5. MaxOpen \in Nat /\ stillOpen \in Nat
    BY CowAssumption DEF CowIInv, CowTypes
  <2>6. ASSUME ~pollFailed
        PROVE  /\ Cardinality(pegged') <= MaxOpen
               /\ Cardinality(pegged' \ Unpolled') <= stillOpen
    BY <2>1, <2>3, <2>4, <2>5, <2>6 DEF CowIInv, PegInv
  <2>7. cowPc'[Trader] = "row" /\ seen' \in CowTerminal => cowUid'[Trader] \notin pegged'
    BY <2>1
  <2>8. QED
    BY <2>1, <2>6, <2>7 DEF PegInv
<1>4. QED
  BY <1>1, <1>2, <1>3 DEF CowIInv

LEMMA WriteStatusKeeps ==
    ASSUME CowIInv, WriteStatus PROVE CowIInv'
<1>1. CowTypes'
  BY CowAssumption
  DEF CowIInv, CowTypes, WriteStatus, GoTo, cowTasks, cowHistory, CowTasks, CowStatus, CowTerminal, CowSteps,
      CowBusy
<1>2. LiveInv'
  BY CowAssumption
  DEF CowIInv, CowTypes, LiveInv, LiveOrderIsTracked, WriteStatus, GoTo, cowTasks, cowHistory, CowTasks,
      CowTerminal, CowBusy
<1>3. PegInv'
  <2> DEFINE u == cowUid[Trader]
  <2>1. /\ pegged' = pegged /\ pollFailed' = pollFailed /\ cowUid' = cowUid /\ todo' = todo
        /\ cowPc[Trader] = "row" /\ cowPc'[Trader] = "poll" /\ seen' = "open"
        /\ stillOpen' = IF seen \in CowTerminal THEN stillOpen ELSE stillOpen + 1
    BY CowAssumption DEF WriteStatus, GoTo, cowHistory, CowIInv, CowTypes, CowTasks
  <2>2. stillOpen \in Nat /\ MaxOpen \in Nat
    BY CowAssumption DEF CowIInv, CowTypes
  <2>3. /\ pegged \ todo[Trader] \subseteq (pegged \ Unpolled) \cup {u}
        /\ u \notin pegged => pegged \ todo[Trader] = pegged \ Unpolled
        /\ pegged' \ Unpolled' = pegged \ todo[Trader]
    BY <2>1 DEF Unpolled
  <2>4. /\ Cardinality(pegged \ Unpolled) \in Nat
        /\ Cardinality(pegged \ todo[Trader]) \in Nat
        /\ Cardinality(pegged \ todo[Trader]) <= Cardinality(pegged \ Unpolled) + 1
    <3>1. IsFiniteSet(pegged \ Unpolled) /\ Cardinality(pegged \ Unpolled) \in Nat
      BY PegsAreFinite DEF CowIInv
    <3>2. /\ IsFiniteSet((pegged \ Unpolled) \cup {u})
          /\ Cardinality((pegged \ Unpolled) \cup {u}) <= Cardinality(pegged \ Unpolled) + 1
      BY <3>1, FS_AddElement
    <3>3. /\ IsFiniteSet(pegged \ todo[Trader])
          /\ Cardinality(pegged \ todo[Trader]) <= Cardinality((pegged \ Unpolled) \cup {u})
      BY <2>3, <3>2, FS_Subset
    <3>4. /\ Cardinality(pegged \ todo[Trader]) \in Nat
          /\ Cardinality((pegged \ Unpolled) \cup {u}) \in Nat
      BY <3>2, <3>3, FS_CardinalityType
    <3>5. QED
      BY <3>1, <3>2, <3>3, <3>4
  <2>5. ASSUME ~pollFailed
        PROVE  /\ Cardinality(pegged) <= MaxOpen
               /\ Cardinality(pegged \ todo[Trader]) <= stillOpen'
    <3>1. /\ Cardinality(pegged) <= MaxOpen /\ Cardinality(pegged \ Unpolled) <= stillOpen
          /\ seen \in CowTerminal => u \notin pegged
      BY <2>1, <2>5 DEF CowIInv, PegInv
    <3>2. CASE seen \in CowTerminal
      <4>1. stillOpen' = stillOpen /\ pegged \ todo[Trader] = pegged \ Unpolled
        BY <2>1, <2>3, <3>1, <3>2
      <4>2. QED
        BY <3>1, <4>1
    <3>3. CASE seen \notin CowTerminal
      <4>1. stillOpen' = stillOpen + 1
        BY <2>1, <3>3
      <4>2. QED
        BY <2>2, <2>4, <3>1, <4>1
    <3>4. QED
      BY <3>2, <3>3
  <2>6. QED
    BY <2>1, <2>3, <2>5 DEF PegInv
<1>4. QED
  BY <1>1, <1>2, <1>3 DEF CowIInv

LEMMA PollDoneKeeps ==
    ASSUME CowIInv, PollDone PROVE CowIInv'
<1>1. CowTypes'
  BY CowAssumption
  DEF CowIInv, CowTypes, PollDone, PegFits, GoTo, cowTasks, cowHistory, CowTasks, CowStatus, CowTerminal, CowSteps,
      CowBusy
<1>2. LiveInv'
  BY CowAssumption
  DEF CowIInv, CowTypes, LiveInv, LiveOrderIsTracked, PollDone, PegFits, GoTo, cowTasks, cowHistory, CowTasks,
      CowTerminal, CowBusy
<1>3. PegInv'
  <2>1. /\ pegged' = pegged /\ pollFailed' = pollFailed /\ cowPc[Trader] = "poll"
        /\ todo[Trader] = {}
        /\ \/ cowPc'[Trader] = "idle"
           \/ cowPc'[Trader] = "place" /\ stillOpen < MaxOpen
    BY CowAssumption DEF PollDone, PegFits, GoTo, cowHistory, CowIInv, CowTypes, CowTasks
  <2>2. pegged \ Unpolled = pegged
    BY <2>1 DEF Unpolled
  <2>3. stillOpen \in Nat /\ MaxOpen \in Nat /\ Cardinality(pegged) \in Nat
    BY CowAssumption, PegsAreFinite DEF CowIInv, CowTypes
  <2>4. ~pollFailed => Cardinality(pegged) <= stillOpen /\ Cardinality(pegged) <= MaxOpen
    BY <2>1, <2>2 DEF CowIInv, PegInv
  <2>5. QED
    BY <2>1, <2>3, <2>4 DEF PegInv
<1>4. QED
  BY <1>1, <1>2, <1>3 DEF CowIInv

LEMMA CowArmKeeps ==
    ASSUME CowIInv, CowArm PROVE CowIInv'
<1>1. CowTypes'
  BY CowAssumption
  DEF CowIInv, CowTypes, CowArm, GoTo, cowTasks, cowHistory, CowTasks, CowStatus, CowTerminal, CowSteps,
      CowBusy
<1>2. LiveInv'
  BY CowAssumption
  DEF CowIInv, CowTypes, LiveInv, LiveOrderIsTracked, CowArm, GoTo, cowTasks, cowHistory, CowTasks,
      CowTerminal, CowBusy
<1>3. PegInv'
  BY CowAssumption
  DEF CowIInv, CowTypes, PegInv, Unpolled, CowArm, GoTo, cowTasks, cowHistory, CowTasks
<1>4. QED
  BY <1>1, <1>2, <1>3 DEF CowIInv

LEMMA TraderRestartKeeps ==
    ASSUME CowIInv, CowRestart PROVE CowIInv'
<1>1. CowTypes'
  BY CowAssumption
  DEF CowIInv, CowTypes, CowRestart, CowMemory, CowTasks, CowStatus, CowTerminal, CowSteps, CowBusy
<1>2. LiveInv'
  BY CowAssumption
  DEF CowIInv, CowTypes, LiveInv, LiveOrderIsTracked, CowRestart, CowMemory, CowTasks, CowTerminal
<1>3. PegInv'
  <2>1. pegged' = {} /\ cowPc'[Trader] = "start"
    BY CowAssumption DEF CowRestart, CowMemory, CowTasks
  <2>2. Cardinality(pegged') = 0 /\ MaxOpen \in Nat
    BY <2>1, FS_EmptySet, CowAssumption
  <2>3. QED
    BY <2>1, <2>2 DEF PegInv
<1>4. QED
  BY <1>1, <1>2, <1>3 DEF CowIInv

LEMMA CowInitHolds == CowInit => CowIInv
<1> SUFFICES ASSUME CowInit PROVE CowIInv
  OBVIOUS
<1>1. CowTypes
  BY CowAssumption
  DEF CowInit, CowTypes, CowTasks, CowStatus, CowTerminal, CowSteps, CowBusy
<1>2. LiveInv
  BY CowAssumption DEF CowInit, LiveInv, LiveOrderIsTracked, CowTasks
<1>3. PegInv
  <2>1. pegged = {} /\ cowPc[Trader] = "start"
    BY CowAssumption DEF CowInit, CowTasks
  <2>2. Cardinality(pegged) = 0 /\ MaxOpen \in Nat
    BY <2>1, FS_EmptySet, CowAssumption
  <2>3. QED
    BY <2>1, <2>2 DEF PegInv
<1>4. QED
  BY <1>1, <1>2, <1>3 DEF CowIInv

LEMMA CowStepKeeps == CowIInv /\ [CowNext]_cowVars => CowIInv'
<1> SUFFICES ASSUME CowIInv, [CowNext]_cowVars PROVE CowIInv'
  OBVIOUS
<1>1. CASE CowBook
  <2>1. ASSUME NEW u \in Uids, BookCloses(u) PROVE CowIInv'
    BY <2>1, BookEndsKeeps DEF BookCloses, CowTerminal
  <2>2. ASSUME NEW t \in CowTasks, BookCancels(t) PROVE CowIInv'
    <3>1. cowUid[t] \in Uids /\ BookEnds(cowUid[t], "cancelled")
      BY <2>2 DEF BookCancels, CowIInv, CowTypes, CowBusy
    <3>2. QED
      BY <3>1, BookEndsKeeps DEF CowTerminal
  <2>3. QED
    BY <1>1, <2>1, <2>2, BookAcceptsKeeps DEF CowBook
<1>2. ASSUME NEW a \in ApiTasks, CowApiStep(a) PROVE CowIInv'
  BY <1>2, PlaceRequestedKeeps, CancelRequestedKeeps DEF CowApiStep
<1>3. ASSUME NEW t \in CowTasks, CowStep(t) PROVE CowIInv'
  BY <1>3, PostKeeps, NoUidLeftKeeps, PlacedKeeps, PlaceFailsKeeps, SendDeleteKeeps,
     CancelReturnsKeeps, CancelsDoneKeeps
  DEF CowStep
<1>4. CASE CowTraderStep
  BY <1>4, TraderStartsKeeps, TickKeeps, PollNextKeeps, StatusAnsweredKeeps, PollFailsKeeps,
     FoldKeeps, WriteStatusKeeps, PollDoneKeeps
  DEF CowTraderStep
<1>5. CASE UNCHANGED cowVars
  BY <1>5 DEF cowVars, cowTasks, cowHistory, CowIInv, CowTypes, LiveInv, LiveOrderIsTracked,
              PegInv, Unpolled
<1>6. QED
  BY <1>1, <1>2, <1>3, <1>4, <1>5, CowArmKeeps, TraderRestartKeeps DEF CowNext

(* An open order that this process knows of and has not asked to cancel is in *)
(* the registry (cow_trade.rs 471-576, 621-714).                            *)
THEOREM CowTracksLiveOrders == CowSpec => []LiveOrderIsTracked
<1>1. CowIInv => LiveOrderIsTracked
  BY DEF CowIInv, LiveInv
<1>2. QED
  BY CowInitHolds, CowStepKeeps, <1>1, PTL DEF CowSpec

(* The pegs of the engine stay within the cap while every poll is answered    *)
(* (engine.rs 2520-2617).                                                   *)
THEOREM CowPegsAreCapped == CowSpec => []PegsAreCapped
<1>1. CowIInv => PegsAreCapped
  BY DEF CowIInv, PegInv, PegsAreCapped
<1>2. QED
  BY CowInitHolds, CowStepKeeps, <1>1, PTL DEF CowSpec

(* The statuses the book has answered, the locks and the rows *)
RowTypes ==
    /\ cowRow \in [Uids -> {"none"} \cup CowStatus]
    /\ opLock \in CowTasks \cup {NoTask}
    /\ cowArmed \in BOOLEAN
    /\ seen \in CowStatus
    /\ lostTrack \subseteq Uids

CowPolls == {"get", "fold", "row"}

(* A pass counts an order as open once it is done with it, and it polls each *)
(* order once: what it has counted and what it has still to do are orders of *)
(* their own, all of them known to the book.                                *)
CountInv ==
    /\ cowPc[Trader] \notin {"poll"} \cup CowPolls => stillOpen = 0
    /\ cowPc[Trader] \in {"poll"} \cup CowPolls =>
          stillOpen + Cardinality(Unpolled) <= Cardinality(Uids)
    /\ cowPc[Trader] \in CowPolls =>
          cowUid[Trader] \notin todo[Trader] /\ book[cowUid[Trader]] # "absent"

CowTypeInv == CowIInv /\ RowTypes /\ CountInv

LEMMA UnpolledIsFinite ==
    ASSUME CowTypes
    PROVE  /\ Unpolled \subseteq Uids /\ IsFiniteSet(Unpolled)
           /\ Cardinality(Unpolled) \in Nat /\ Cardinality(Uids) \in Nat
           /\ Cardinality(Unpolled) <= Cardinality(Uids)
<1>1. Unpolled \subseteq Uids
  BY CowAssumption DEF CowTypes, Unpolled, CowTasks, CowBusy
<1>2. QED
  BY <1>1, CowAssumption, FS_Subset, FS_CardinalityType

(* A statement on a row leaves a row. *)
LEMMA PersistKeeps ==
    ASSUME RowTypes, NEW u \in Uids, NEW status \in CowStatus,
           Persist(u, status) \/ (status = "open" /\ RecordOrder(u))
    PROVE  cowRow' \in [Uids -> {"none"} \cup CowStatus]
BY DEF RowTypes, Persist, RecordOrder

LEMMA RowTypesKeep ==
    ASSUME CowTypeInv, [CowNext]_cowVars PROVE RowTypes'
<1> USE CowAssumption DEF CowTypeInv, CowIInv, cowTasks, cowHistory
<1>1. CASE CowBook
  <2>1. UNCHANGED <<cowRow, opLock, cowArmed, seen>> /\ lostTrack' \subseteq lostTrack
    BY <1>1 DEF CowBook, BookAccepts, BookCloses, BookCancels, BookEnds
  <2>2. QED
    BY <2>1 DEF RowTypes
<1>2. ASSUME NEW a \in ApiTasks, CowApiStep(a) PROVE RowTypes'
  BY <1>2 DEF CowApiStep, PlaceRequested, CancelRequested, RowTypes
<1>3. ASSUME NEW t \in CowTasks, CowStep(t) PROVE RowTypes'
  <2>1. CASE Post(t) \/ NoUidLeft(t) \/ SendDelete(t) \/ CancelsDone(t)
    BY <2>1 DEF Post, NoUidLeft, SendDelete, CancelsDone, RowTypes
  <2>2. CASE Placed(t)
    <3>1. cowUid[t] \in Uids /\ RecordOrder(cowUid[t])
      BY <2>2 DEF Placed, CowTypes, CowBusy
    <3>2. cowRow' \in [Uids -> {"none"} \cup CowStatus]
      BY <3>1, PersistKeeps DEF CowStatus
    <3>3. QED
      BY <2>2, <3>2 DEF Placed, Release, RowTypes
  <2>3. CASE PlaceFails(t)
    BY <2>3 DEF PlaceFails, Release, RowTypes
  <2>4. CASE CancelReturns(t)
    <3>1. cowUid[t] \in Uids /\ Persist(cowUid[t], "cancelled")
      BY <2>4 DEF CancelReturns, CowTypes, CowBusy
    <3>2. cowRow' \in [Uids -> {"none"} \cup CowStatus]
      BY <3>1, PersistKeeps DEF CowStatus, CowTerminal
    <3>3. QED
      BY <2>4, <3>1, <3>2 DEF CancelReturns, Release, RowTypes
  <2>5. QED
    BY <1>3, <2>1, <2>2, <2>3, <2>4 DEF CowStep
<1>4. CASE CowTraderStep
  <2>1. CASE TraderStarts \/ Tick \/ PollNext \/ PollFails \/ PollDone
    BY <2>1 DEF TraderStarts, Tick, PollNext, PollFails, PollDone, RowTypes
  <2>2. CASE StatusAnswered
    <3>1. cowUid[Trader] \in Uids /\ book[cowUid[Trader]] # "absent"
      BY <2>2 DEF StatusAnswered, CountInv, CowPolls, CowTypes, CowBusy, CowTasks
    <3>2. seen' \in CowStatus
      BY <2>2, <3>1 DEF StatusAnswered, CowTypes
    <3>3. QED
      BY <2>2, <3>2 DEF StatusAnswered, RowTypes
  <2>3. CASE Fold
    BY <2>3 DEF Fold, RowTypes, CowStatus
  <2>4. CASE WriteStatus
    <3>1. cowUid[Trader] \in Uids /\ Persist(cowUid[Trader], seen) /\ seen \in CowStatus
      BY <2>4 DEF WriteStatus, CowTypes, CowBusy, CowTasks, RowTypes
    <3>2. cowRow' \in [Uids -> {"none"} \cup CowStatus]
      BY <3>1, PersistKeeps
    <3>3. QED
      BY <2>4, <3>2 DEF WriteStatus, RowTypes, CowStatus
  <2>5. QED
    BY <1>4, <2>1, <2>2, <2>3, <2>4 DEF CowTraderStep
<1>5. CASE CowArm
  BY <1>5 DEF CowArm, RowTypes
<1>6. CASE CowRestart
  BY <1>6 DEF CowRestart, CowMemory, RowTypes, CowTypes, CowStatus
<1>7. CASE UNCHANGED cowVars
  BY <1>7 DEF cowVars, RowTypes
<1>8. QED
  BY <1>1, <1>2, <1>3, <1>4, <1>5, <1>6, <1>7 DEF CowNext

(* What does not touch the engine's task, and takes no order off the book, *)
(* leaves its count right.                                                 *)
LEMMA CountRests ==
    ASSUME CowTypes, CountInv,
           cowPc'[Trader] = cowPc[Trader], cowUid'[Trader] = cowUid[Trader],
           todo'[Trader] = todo[Trader], stillOpen' = stillOpen,
           \A u \in Uids : book[u] # "absent" => book'[u] # "absent"
    PROVE  CountInv'
<1>1. Unpolled' = Unpolled
  BY DEF Unpolled
<1>2. cowPc[Trader] \in CowPolls => cowUid[Trader] \in Uids
  BY CowAssumption DEF CowTypes, CowPolls, CowBusy, CowTasks
<1>3. QED
  BY <1>1, <1>2 DEF CountInv

(* A task that is neither polling before a step nor after it has counted none. *)
LEMMA CountIsNone ==
    ASSUME CountInv, cowPc[Trader] \notin {"poll"} \cup CowPolls,
           cowPc'[Trader] \notin {"poll"} \cup CowPolls, stillOpen' = stillOpen
    PROVE  CountInv'
BY DEF CountInv

LEMMA CountKeeps ==
    ASSUME CowTypeInv, [CowNext]_cowVars PROVE CountInv'
<1> USE CowAssumption DEF CowTypeInv, CowIInv, cowTasks, cowHistory
<1>1. CASE CowBook
  <2>1. UNCHANGED cowTasks
    BY <1>1 DEF CowBook, BookAccepts, BookCloses, BookCancels, BookEnds
  <2>2. \A u \in Uids : book[u] # "absent" => book'[u] # "absent"
    <3>1. ASSUME NEW u, NEW end, end # "absent", book' = [book EXCEPT ![u] = end]
          PROVE  \A v \in Uids : book[v] # "absent" => book'[v] # "absent"
      BY <3>1 DEF CowTypes
    <3>2. CASE \E u \in Uids : BookAccepts(u)
      BY <3>1, <3>2 DEF BookAccepts
    <3>3. CASE \E u \in Uids : BookCloses(u)
      BY <3>1, <3>3 DEF BookCloses, BookEnds
    <3>4. CASE \E t \in CowTasks : BookCancels(t)
      BY <3>1, <3>4 DEF BookCancels, BookEnds
    <3>5. QED
      BY <1>1, <3>2, <3>3, <3>4 DEF CowBook
  <2>3. QED
    BY <2>1, <2>2, CountRests
<1>2. ASSUME NEW a \in ApiTasks, CowApiStep(a) PROVE CountInv'
  <2>1. a # Trader /\ a \in CowTasks /\ Trader \in CowTasks
    BY DEF CowTasks
  <2>2. /\ cowPc'[Trader] = cowPc[Trader] /\ cowUid' = cowUid /\ book' = book
        /\ todo'[Trader] = todo[Trader] /\ stillOpen' = stillOpen
    BY <1>2, <2>1 DEF CowApiStep, PlaceRequested, CancelRequested, GoTo, CowTypes
  <2>3. QED
    BY <2>2, CountRests
<1>3. ASSUME NEW t \in CowTasks, CowStep(t) PROVE CountInv'
  <2>1. stillOpen' = stillOpen /\ book' = book
    BY <1>3 DEF CowStep, Post, NoUidLeft, Placed, PlaceFails, SendDelete, CancelReturns, CancelsDone
  <2>2. CASE t = Trader
    <3>1. cowPc[Trader] \in {"place", "post", "cancel", "delete"}
      BY <1>3, <2>2 DEF CowStep, Post, NoUidLeft, Placed, PlaceFails, SendDelete, CancelReturns,
                        CancelsDone
    <3>2. cowPc'[Trader] \in {"idle", "post", "cancel", "delete"}
      BY <1>3, <2>2 DEF CowStep, Post, NoUidLeft, Placed, PlaceFails, SendDelete, CancelReturns,
                        CancelsDone, GoTo, CowTypes
    <3>3. QED
      BY <2>1, <3>1, <3>2, CountIsNone DEF CowPolls
  <2>3. CASE t # Trader
    <3>1. /\ cowPc'[Trader] = cowPc[Trader] /\ cowUid'[Trader] = cowUid[Trader]
          /\ todo'[Trader] = todo[Trader]
      BY <1>3, <2>3 DEF CowStep, Post, NoUidLeft, Placed, PlaceFails, SendDelete, CancelReturns,
                        CancelsDone, GoTo, Release, CowTypes, CowTasks
    <3>2. QED
      BY <2>1, <3>1, CountRests
  <2>4. QED
    BY <2>2, <2>3
<1>4. CASE CowTraderStep
  <2>1. CASE TraderStarts
    <3>1. cowPc[Trader] = "start" /\ cowPc'[Trader] \in {"cancel", "idle"} /\ stillOpen' = stillOpen
      BY <2>1 DEF TraderStarts, GoTo, CowTypes, CowTasks
    <3>2. QED
      BY <3>1, CountIsNone DEF CowPolls
  <2>2. CASE Tick
    <3>1. /\ stillOpen' = 0 /\ todo'[Trader] = tracked /\ cowPc'[Trader] \in {"poll", "cancel"}
      BY <2>2 DEF Tick, GoTo, CowTypes, CowTasks
    <3>2. Unpolled' = tracked
      BY <3>1 DEF Unpolled
    <3>3. Cardinality(tracked) \in Nat /\ Cardinality(tracked) <= Cardinality(Uids)
      BY FS_Subset, FS_CardinalityType DEF CowTypes
    <3>4. QED
      BY <3>1, <3>2, <3>3 DEF CountInv, CowPolls
  <2>3. CASE PollNext
    <3>1. PICK u \in todo[Trader] :
             /\ cowUid' = [cowUid EXCEPT ![Trader] = u]
             /\ todo' = [todo EXCEPT ![Trader] = @ \ {u}]
      BY <2>3 DEF PollNext
    <3>2. /\ cowPc[Trader] = "poll" /\ cowPc'[Trader] = "get"
          /\ stillOpen' = stillOpen /\ book' = book
      BY <2>3 DEF PollNext, GoTo, CowTypes, CowTasks
    <3>3. todo'[Trader] = todo[Trader] \ {u} /\ cowUid'[Trader] = u
      BY <3>1 DEF CowTypes, CowTasks
    <3>4. Unpolled' = Unpolled
      BY <3>2, <3>3 DEF Unpolled
    <3>5. book[u] # "absent"
      BY DEF LiveInv, CowTasks
    <3>6. QED
      BY <3>2, <3>3, <3>4, <3>5 DEF CountInv, CowPolls
  <2>4. CASE StatusAnswered
    <3>1. /\ cowPc[Trader] = "get" /\ cowPc'[Trader] = "fold"
          /\ UNCHANGED <<stillOpen, book, cowUid, todo>>
      BY <2>4 DEF StatusAnswered, GoTo, CowTypes, CowTasks
    <3>2. Unpolled' = Unpolled
      BY <3>1 DEF Unpolled
    <3>3. QED
      BY <3>1, <3>2 DEF CountInv, CowPolls
  <2>5. CASE PollFails \/ Fold
    <3>1. /\ cowPc[Trader] \in CowPolls /\ cowPc'[Trader] \in {"poll", "row"}
          /\ UNCHANGED <<stillOpen, book, cowUid, todo>>
      BY <2>5 DEF PollFails, Fold, GoTo, CowTypes, CowTasks, CowPolls
    <3>2. Unpolled' \subseteq Unpolled
      BY <3>1 DEF Unpolled, CowPolls
    <3>3. /\ Cardinality(Unpolled) \in Nat /\ Cardinality(Unpolled') \in Nat
          /\ Cardinality(Unpolled') <= Cardinality(Unpolled) /\ Cardinality(Uids) \in Nat
      BY <3>2, UnpolledIsFinite, FS_Subset, FS_CardinalityType
    <3>4. stillOpen \in Nat
      BY DEF CowTypes
    <3>5. QED
      BY <3>1, <3>3, <3>4 DEF CountInv, CowPolls
  <2>6. CASE WriteStatus
    <3>1. /\ cowPc[Trader] = "row" /\ cowPc'[Trader] = "poll"
          /\ UNCHANGED <<book, cowUid, todo>>
          /\ stillOpen' \in {stillOpen, stillOpen + 1}
      BY <2>6 DEF WriteStatus, GoTo, CowTypes, CowTasks
    <3>2. Unpolled' = Unpolled \ {cowUid[Trader]} /\ cowUid[Trader] \in Unpolled
      BY <3>1 DEF Unpolled, CountInv, CowPolls
    <3>3. /\ Cardinality(Unpolled) \in Nat /\ Cardinality(Uids) \in Nat
          /\ Cardinality(Unpolled') = Cardinality(Unpolled) - 1
      BY <3>2, UnpolledIsFinite, FS_RemoveElement
    <3>4. stillOpen \in Nat
      BY DEF CowTypes
    <3>5. QED
      BY <3>1, <3>3, <3>4 DEF CountInv, CowPolls
  <2>7. CASE PollDone
    <3>1. cowPc'[Trader] \in {"idle", "place"} /\ stillOpen' = 0
      BY <2>7 DEF PollDone, GoTo, CowTypes, CowTasks
    <3>2. QED
      BY <3>1 DEF CountInv, CowPolls
  <2>8. QED
    BY <1>4, <2>1, <2>2, <2>3, <2>4, <2>5, <2>6, <2>7 DEF CowTraderStep
<1>5. CASE CowArm \/ UNCHANGED cowVars
  <2>1. UNCHANGED <<book, cowTasks>>
    BY <1>5 DEF CowArm, cowVars
  <2>2. QED
    BY <2>1, CountRests
<1>6. CASE CowRestart
  <2>1. cowPc'[Trader] = "start" /\ stillOpen' = 0
    BY <1>6 DEF CowRestart, CowMemory, CowTasks
  <2>2. QED
    BY <2>1 DEF CountInv, CowPolls
<1>7. QED
  BY <1>1, <1>2, <1>3, <1>4, <1>5, <1>6 DEF CowNext

(* The types of the CoW trader, among them that a poll never finds an order   *)
(* that the book does not have and that a pass counts no order twice         *)
(* (cow_trade.rs 578-727).                                                  *)
THEOREM CowTypesHold == CowSpec => []CowTypeOK
<1>1. CowInit => CowTypeInv
  <2> SUFFICES ASSUME CowInit PROVE CowTypeInv
    OBVIOUS
  <2>1. CowIInv
    BY CowInitHolds
  <2>2. RowTypes
    BY DEF CowInit, RowTypes, CowStatus
  <2>3. CountInv
    BY CowAssumption DEF CowInit, CountInv, CowPolls, CowTasks
  <2>4. QED
    BY <2>1, <2>2, <2>3 DEF CowTypeInv
<1>2. CowTypeInv /\ [CowNext]_cowVars => CowTypeInv'
  BY CowStepKeeps, RowTypesKeep, CountKeeps DEF CowTypeInv
<1>3. CowTypeInv => CowTypeOK
  <2> SUFFICES ASSUME CowTypeInv PROVE CowTypeOK
    OBVIOUS
  <2>1. stillOpen \in 0 .. Cardinality(Uids)
    <3>1. /\ stillOpen \in Nat /\ Cardinality(Unpolled) \in Nat /\ Cardinality(Uids) \in Nat
          /\ \/ stillOpen = 0
             \/ stillOpen + Cardinality(Unpolled) <= Cardinality(Uids)
      BY UnpolledIsFinite DEF CowTypeInv, CowIInv, CowTypes, CountInv
    <3>2. QED
      BY <3>1
  <2>2. QED
    BY <2>1 DEF CowTypeInv, CowIInv, CowTypes, RowTypes, CowTypeOK
<1>4. QED
  BY <1>1, <1>2, <1>3, PTL DEF CowSpec

-----------------------------------------------------------------------------
(***************************************************************************)
(* The flow of blocks: every block is given to the loop, dropped and counted, or*)
(* still on its way, and in the order of the chain.                         *)
(***************************************************************************)

FlowEvents ==
    [kind : {"head", "tx", "hint", "bid", "block"}, block : Nat, txs : Nat]

FlowSeqs == Seq(FlowEvents)

(* Blocks of a queue stand in the order of the chain. *)
Rising(events) ==
    \A i, j \in DOMAIN events :
        i < j /\ events[i].kind = "block" /\ events[j].kind = "block"
            => events[i].block < events[j].block

InHand == BlocksOf(hand["blocks"])

InLine == BlocksOf(replayQueue) \cup BlocksOf(channel) \cup InHand

LineTypes ==
    /\ tip \in Nat /\ at \in Nat /\ walkEnd \in Nat /\ lastReplayed \in Nat
    /\ listed \subseteq Nat
    /\ delivery \in {"chain", "relay"}
    /\ hand \in [Sources -> FlowSeqs] /\ Len(hand["blocks"]) <= 1
    /\ channel \in FlowSeqs /\ Len(channel) <= ChannelDepth
    /\ replayQueue \in FlowSeqs /\ Len(replayQueue) <= ReplayDepth
    /\ \A i \in DOMAIN replayQueue : replayQueue[i].kind = "block"

(* The line, from the worker back to the poller: what is ahead is older. *)
LineOrder ==
    /\ Rising(replayQueue) /\ Rising(channel)
    /\ \A m \in BlocksOf(replayQueue) : \A n \in BlocksOf(channel) : m < n
    /\ \A m \in BlocksOf(replayQueue) \cup BlocksOf(channel) : \A n \in InHand : m < n
    /\ \A n \in InLine : lastReplayed < n /\ n <= at
    /\ lastReplayed <= at
    /\ BlocksOf(hand["heads"]) = {} /\ BlocksOf(hand["feed"]) = {}

(* The source never names a block again. *)
SourceOrder ==
    /\ \A n \in listed : n > at
    /\ delivery = "chain" => listed = {}
    /\ at <= walkEnd /\ (at < walkEnd => at > 0)

FlowIInv == LineTypes /\ LineOrder /\ SourceOrder

-----------------------------------------------------------------------------
(* Sequences of events *)

LEMMA BlocksOfEmpty == BlocksOf(<<>>) = {} /\ Rising(<<>>)
BY DEF BlocksOf, Range, Rising

LEMMA BlocksOfIndex ==
    ASSUME NEW events \in FlowSeqs
    PROVE  BlocksOf(events) =
               {events[i].block : i \in {j \in 1 .. Len(events) : events[j].kind = "block"}}
BY DEF BlocksOf, Range, FlowSeqs

LEMMA BlocksOfNat ==
    ASSUME NEW events \in FlowSeqs
    PROVE  BlocksOf(events) \subseteq Nat
<1>1. \A i \in 1 .. Len(events) : events[i] \in FlowEvents
  BY DEF FlowSeqs
<1>2. QED
  BY <1>1, BlocksOfIndex DEF FlowEvents

(* Appending *)
LEMMA BlocksOfAppend ==
    ASSUME NEW events \in FlowSeqs, NEW e \in FlowEvents
    PROVE  /\ Append(events, e) \in FlowSeqs
           /\ Len(Append(events, e)) = Len(events) + 1
           /\ BlocksOf(Append(events, e)) =
                  BlocksOf(events) \cup (IF e.kind = "block" THEN {e.block} ELSE {})
           /\ Rising(events)
              /\ (e.kind = "block" => \A n \in BlocksOf(events) : n < e.block)
                  => Rising(Append(events, e))
<1> DEFINE more == Append(events, e)
<1>1. /\ more \in FlowSeqs /\ Len(more) = Len(events) + 1
      /\ Len(events) \in Nat
      /\ more[Len(events) + 1] = e
      /\ \A i \in 1 .. Len(events) : more[i] = events[i]
  BY DEF FlowSeqs
<1>2. /\ DOMAIN more = 1 .. Len(events) + 1
      /\ DOMAIN events = 1 .. Len(events)
  BY <1>1, LenProperties DEF FlowSeqs
<1> HIDE DEF more
<1>3. BlocksOf(more) = BlocksOf(events) \cup (IF e.kind = "block" THEN {e.block} ELSE {})
  <2>1. \A n : n \in BlocksOf(more) <=>
            \E i \in 1 .. Len(events) + 1 : more[i].kind = "block" /\ n = more[i].block
    BY <1>1, BlocksOfIndex
  <2>2. \A n : n \in BlocksOf(events) <=>
            \E i \in 1 .. Len(events) : events[i].kind = "block" /\ n = events[i].block
    BY <1>1, BlocksOfIndex
  <2>3. \A i \in 1 .. Len(events) + 1 : i \in 1 .. Len(events) \/ i = Len(events) + 1
    BY <1>1
  <2>4. /\ \A i \in 1 .. Len(events) : i \in 1 .. Len(events) + 1
        /\ Len(events) + 1 \in 1 .. Len(events) + 1
    BY <1>1
  <2>5. \A n : n \in BlocksOf(more) <=>
            n \in BlocksOf(events) \/ (e.kind = "block" /\ n = e.block)
    BY <1>1, <2>1, <2>2, <2>3, <2>4
  <2>6. QED
    BY <2>5
<1>4. ASSUME Rising(events), e.kind = "block" => \A n \in BlocksOf(events) : n < e.block
      PROVE  Rising(more)
  <2> SUFFICES ASSUME NEW i \in 1 .. Len(events) + 1, NEW j \in 1 .. Len(events) + 1,
                      i < j, more[i].kind = "block", more[j].kind = "block"
               PROVE  more[i].block < more[j].block
    BY <1>2 DEF Rising
  <2>1. i \in 1 .. Len(events) /\ more[i] = events[i]
    BY <1>1
  <2>2. CASE j = Len(events) + 1
    <3>1. events[i].block \in BlocksOf(events)
      BY <2>1, BlocksOfIndex
    <3>2. QED
      BY <1>1, <1>4, <2>1, <2>2, <3>1
  <2>3. CASE j # Len(events) + 1
    <3>1. j \in 1 .. Len(events) /\ more[j] = events[j]
      BY <1>1, <2>3
    <3>2. QED
      BY <1>2, <1>4, <2>1, <3>1 DEF Rising
  <2>4. QED
    BY <2>2, <2>3
<1>5. QED
  BY <1>1, <1>3, <1>4 DEF more

(* Taking the head *)
LEMMA BlocksOfTail ==
    ASSUME NEW events \in FlowSeqs, events # <<>>
    PROVE  /\ Head(events) \in FlowEvents /\ Tail(events) \in FlowSeqs
           /\ Len(events) \in Nat /\ Len(Tail(events)) = Len(events) - 1
           /\ Head(events).kind = "block" =>
                  /\ BlocksOf(events) = BlocksOf(Tail(events)) \cup {Head(events).block}
                  /\ Rising(events) =>
                        \A n \in BlocksOf(Tail(events)) : Head(events).block < n
           /\ Head(events).kind # "block" => BlocksOf(events) = BlocksOf(Tail(events))
           /\ Rising(events) => Rising(Tail(events))
           /\ (\A i \in DOMAIN events : events[i].kind = "block") =>
                  /\ Head(events).kind = "block"
                  /\ \A i \in DOMAIN Tail(events) : Tail(events)[i].kind = "block"
<1> DEFINE rest == Tail(events)
           first == Head(events)
<1>1. /\ rest \in FlowSeqs /\ first \in FlowEvents
      /\ Len(events) \in Nat /\ Len(events) >= 1 /\ Len(rest) = Len(events) - 1
      /\ \A i \in 1 .. Len(rest) : rest[i] = events[i + 1]
      /\ first = events[1]
  <2>1. Len(events) \in Nat \ {0} /\ first = events[1]
    BY EmptySeq DEF FlowSeqs
  <2>2. QED
    BY <2>1, HeadTailProperties DEF FlowSeqs
<1>2. DOMAIN rest = 1 .. Len(rest) /\ DOMAIN events = 1 .. Len(events)
  BY <1>1, LenProperties DEF FlowSeqs
<1> HIDE DEF rest, first
<1>3. \A i \in 1 .. Len(events) : i = 1 \/ (i - 1 \in 1 .. Len(rest) /\ events[i] = rest[i - 1])
  <2> TAKE i \in 1 .. Len(events)
  <2>1. CASE i # 1
    <3>1. i - 1 \in 1 .. Len(rest) /\ (i - 1) + 1 = i
      BY <1>1, <2>1
    <3>2. QED
      BY <1>1, <3>1
  <2>2. QED
    BY <2>1
<1>4. \A i \in 1 .. Len(rest) : i + 1 \in 1 .. Len(events) /\ 1 < i + 1
  BY <1>1
<1>5. 1 \in 1 .. Len(events)
  BY <1>1
<1>6. \A n : n \in BlocksOf(rest) <=>
          \E i \in 1 .. Len(rest) : rest[i].kind = "block" /\ n = rest[i].block
  BY <1>1, BlocksOfIndex
<1>7. \A n : n \in BlocksOf(events) <=>
          \E i \in 1 .. Len(events) : events[i].kind = "block" /\ n = events[i].block
  BY BlocksOfIndex
<1>8. \A n : n \in BlocksOf(events) <=>
          n \in BlocksOf(rest) \/ (first.kind = "block" /\ n = first.block)
  <2> TAKE n
  <2>1. ASSUME n \in BlocksOf(events)
        PROVE  n \in BlocksOf(rest) \/ (first.kind = "block" /\ n = first.block)
    <3>1. PICK i \in 1 .. Len(events) : events[i].kind = "block" /\ n = events[i].block
      BY <1>7, <2>1
    <3>2. QED
      BY <1>1, <1>3, <1>6, <3>1
  <2>2. ASSUME n \in BlocksOf(rest) PROVE n \in BlocksOf(events)
    <3>1. PICK i \in 1 .. Len(rest) : rest[i].kind = "block" /\ n = rest[i].block
      BY <1>6, <2>2
    <3>2. i + 1 \in 1 .. Len(events) /\ events[i + 1] = rest[i]
      BY <1>1, <1>4, <3>1
    <3>3. QED
      BY <1>7, <3>1, <3>2
  <2>3. ASSUME first.kind = "block", n = first.block PROVE n \in BlocksOf(events)
    BY <1>1, <1>5, <1>7, <2>3
  <2>4. QED
    BY <2>1, <2>2, <2>3
<1>9. ASSUME Rising(events), first.kind = "block", NEW n \in BlocksOf(rest)
      PROVE  first.block < n
  <2>1. PICK i \in 1 .. Len(rest) : rest[i].kind = "block" /\ n = rest[i].block
    BY <1>6, <1>9
  <2>2. i + 1 \in 1 .. Len(events) /\ 1 < i + 1 /\ events[i + 1] = rest[i]
    BY <1>1, <1>4, <2>1
  <2>3. QED
    BY <1>1, <1>2, <1>5, <1>9, <2>1, <2>2 DEF Rising
<1>10. ASSUME Rising(events) PROVE Rising(rest)
  <2> SUFFICES ASSUME NEW i \in 1 .. Len(rest), NEW j \in 1 .. Len(rest),
                      i < j, rest[i].kind = "block", rest[j].kind = "block"
               PROVE  rest[i].block < rest[j].block
    BY <1>2 DEF Rising
  <2>1. /\ i + 1 \in 1 .. Len(events) /\ j + 1 \in 1 .. Len(events) /\ i + 1 < j + 1
        /\ events[i + 1] = rest[i] /\ events[j + 1] = rest[j]
    BY <1>1, <1>4
  <2>2. QED
    BY <1>2, <1>10, <2>1 DEF Rising
<1>11. ASSUME \A i \in DOMAIN events : events[i].kind = "block"
       PROVE  first.kind = "block" /\ \A i \in DOMAIN rest : rest[i].kind = "block"
  BY <1>1, <1>2, <1>4, <1>5, <1>11
<1>12. first.kind = "block" => BlocksOf(events) = BlocksOf(rest) \cup {first.block}
  BY <1>8
<1>13. first.kind # "block" => BlocksOf(events) = BlocksOf(rest)
  BY <1>8
<1>14. QED
  BY <1>1, <1>9, <1>10, <1>11, <1>12, <1>13 DEF rest, first

(* A queue has no more blocks than places. *)
LEMMA BlocksOfBounded ==
    ASSUME NEW events \in FlowSeqs
    PROVE  /\ IsFiniteSet(BlocksOf(events))
           /\ Cardinality(BlocksOf(events)) \in Nat
           /\ Cardinality(BlocksOf(events)) <= Len(events)
<1> DEFINE places == {i \in 1 .. Len(events) : events[i].kind = "block"}
           f == [i \in places |-> events[i].block]
<1>1. Len(events) \in Nat
  BY DEF FlowSeqs
<1>2. IsFiniteSet(1 .. Len(events)) /\ Cardinality(1 .. Len(events)) = Len(events)
  BY <1>1, FS_Interval, SMTT(30)
<1>3. IsFiniteSet(places) /\ Cardinality(places) <= Len(events)
  BY <1>2, FS_Subset
<1>4. f \in Surjection(places, BlocksOf(events))
  BY BlocksOfIndex DEF Surjection
<1>5. IsFiniteSet(BlocksOf(events)) /\ Cardinality(BlocksOf(events)) <= Cardinality(places)
  BY <1>3, <1>4, FS_Surjection
<1>6. Cardinality(BlocksOf(events)) \in Nat /\ Cardinality(places) \in Nat
  BY <1>3, <1>5, FS_CardinalityType
<1>7. QED
  BY <1>1, <1>3, <1>5, <1>6

-----------------------------------------------------------------------------
(* The steps *)

(* What DeliveredBlocks sees *)
Mapped == <<delivery = "chain", at, InLine, failed \cup replayDropped, lastReplayed>>

LEMMA FlowNats ==
    /\ LastBlock \in Nat /\ ChannelDepth \in Nat /\ ReplayDepth \in Nat
    /\ BlockTxs \in Nat /\ HydrationBatch \in Nat /\ RingCapacity \in Nat
BY FlowAssumption

(* What does not touch the line changes nothing that is promised. *)
LEMMA LineRests ==
    ASSUME FlowIInv, tip' \in Nat,
           UNCHANGED <<delivery, at, walkEnd, listed, hand, channel, replayQueue, failed,
                       replayDropped, lastReplayed>>
    PROVE  FlowIInv' /\ UNCHANGED Mapped
<1>1. LineTypes'
  BY DEF FlowIInv, LineTypes
<1>2. InHand' = InHand /\ InLine' = InLine
  BY DEF InHand, InLine, BlocksOf
<1>3. LineOrder'
  BY <1>2 DEF FlowIInv, LineOrder, Rising, BlocksOf
<1>4. SourceOrder'
  BY DEF FlowIInv, SourceOrder
<1>5. QED
  BY <1>1, <1>2, <1>3, <1>4 DEF FlowIInv, Mapped

(* The sources of anything but blocks *)
LEMMA OtherSources ==
    ASSUME FlowIInv, NEW s \in {"heads", "feed"}, NEW events \in FlowSeqs,
           BlocksOf(events) = {}, hand' = [hand EXCEPT ![s] = events],
           UNCHANGED <<tip, delivery, at, walkEnd, listed, channel, replayQueue, failed,
                       replayDropped, lastReplayed>>
    PROVE  FlowIInv' /\ UNCHANGED Mapped
<1>1. /\ hand' \in [Sources -> FlowSeqs] /\ hand'["blocks"] = hand["blocks"]
      /\ BlocksOf(hand'["heads"]) = {} /\ BlocksOf(hand'["feed"]) = {}
  BY DEF FlowIInv, LineTypes, LineOrder, Sources
<1>2. LineTypes'
  BY <1>1 DEF FlowIInv, LineTypes
<1>3. InHand' = InHand /\ InLine' = InLine
  BY <1>1 DEF InHand, InLine, BlocksOf
<1>4. Rising(replayQueue)' /\ Rising(channel)'
  BY DEF FlowIInv, LineOrder, Rising
<1>5. BlocksOf(replayQueue)' = BlocksOf(replayQueue) /\ BlocksOf(channel)' = BlocksOf(channel)
  BY DEF BlocksOf
<1>6. BlocksOf(hand["heads"])' = {} /\ BlocksOf(hand["feed"])' = {}
  BY <1>1 DEF BlocksOf
<1>7. LineOrder'
  BY <1>3, <1>4, <1>5, <1>6 DEF FlowIInv, LineOrder
<1>8. SourceOrder'
  BY DEF FlowIInv, SourceOrder
<1>9. QED
  BY <1>2, <1>3, <1>7, <1>8 DEF FlowIInv, Mapped

LEMMA OneEvent ==
    ASSUME NEW kind \in {"head", "tx", "hint", "bid"}
    PROVE  <<Event(kind)>> \in FlowSeqs /\ BlocksOf(<<Event(kind)>>) = {}
<1>1. Event(kind) \in FlowEvents /\ Event(kind).kind # "block"
  BY DEF Event, FlowEvents
<1>2. <<Event(kind)>> \in FlowSeqs
  BY <1>1 DEF FlowSeqs
<1>3. Range(<<Event(kind)>>) = {Event(kind)}
  BY DEF Range
<1>4. QED
  BY <1>1, <1>2, <1>3 DEF BlocksOf

LEMMA OneBlock ==
    ASSUME NEW n \in Nat, NEW txs \in Nat
    PROVE  /\ <<BlockEvent(n, txs)>> \in FlowSeqs /\ Len(<<BlockEvent(n, txs)>>) = 1
           /\ BlocksOf(<<BlockEvent(n, txs)>>) = {n}
<1>1. BlockEvent(n, txs) \in FlowEvents
  BY DEF BlockEvent, FlowEvents
<1>2. BlockEvent(n, txs).kind = "block" /\ BlockEvent(n, txs).block = n
  BY DEF BlockEvent
<1>3. Range(<<BlockEvent(n, txs)>>) = {BlockEvent(n, txs)}
  BY DEF Range
<1>4. QED
  BY <1>1, <1>2, <1>3 DEF BlocksOf, FlowSeqs

LEMMA FeedKeeps ==
    ASSUME FlowIInv,
           HeadArrives \/ HintStreamed \/ TxStreamed \/ BidPolled \/ HashStreamed \/ HydrateBatch
    PROVE  FlowIInv' /\ UNCHANGED Mapped
<1> USE DEF configVars, sourceVars, engineVars, replayVars
<1>1. CASE HeadArrives
  <2>1. hand' = [hand EXCEPT !["heads"] = <<Event("head")>>]
    BY <1>1 DEF HeadArrives, Holds
  <2>2. UNCHANGED <<tip, delivery, at, walkEnd, listed, channel, replayQueue, failed,
                    replayDropped, lastReplayed>>
    BY <1>1 DEF HeadArrives
  <2>3. QED
    BY <2>1, <2>2, OneEvent, OtherSources
<1>2. ASSUME NEW kind \in {"tx", "private", "hint", "bid"}, NEW e \in {"tx", "hint", "bid"},
             Streamed(kind, Event(e))
      PROVE  FlowIInv' /\ UNCHANGED Mapped
  <2>1. hand' = [hand EXCEPT !["feed"] = <<Event(e)>>]
    BY <1>2 DEF Streamed, Holds
  <2>2. UNCHANGED <<tip, delivery, at, walkEnd, listed, channel, replayQueue, failed,
                    replayDropped, lastReplayed>>
    BY <1>2 DEF Streamed
  <2>3. QED
    BY <2>1, <2>2, OneEvent, OtherSources
<1>3. CASE HashStreamed
  <2>1. UNCHANGED <<tip, delivery, at, walkEnd, listed, hand, channel, replayQueue, failed,
                    replayDropped, lastReplayed>>
    BY <1>3 DEF HashStreamed
  <2>2. tip' \in Nat
    BY <2>1 DEF FlowIInv, LineTypes
  <2>3. QED
    BY <2>1, <2>2, LineRests
<1>4. CASE HydrateBatch
  <2>1. PICK found \in 0 .. (IF ring < HydrationBatch THEN ring ELSE HydrationBatch) :
            hand' = [hand EXCEPT !["feed"] = [i \in 1 .. found |-> Event("tx")]]
    BY <1>4 DEF HydrateBatch, Holds
  <2>2. UNCHANGED <<tip, delivery, at, walkEnd, listed, channel, replayQueue, failed,
                    replayDropped, lastReplayed>>
    BY <1>4 DEF HydrateBatch
  <2> DEFINE events == [i \in 1 .. found |-> Event("tx")]
  <2>3. Event("tx") \in FlowEvents /\ Event("tx").kind # "block"
    BY DEF Event, FlowEvents
  <2>4. found \in Nat
    OBVIOUS
  <2>5. events \in FlowSeqs
    BY <2>3, <2>4 DEF FlowSeqs
  <2>6. BlocksOf(events) = {}
    BY <2>3 DEF BlocksOf, Range
  <2>7. QED
    BY <2>1, <2>2, <2>5, <2>6, OtherSources
<1>5. QED
  BY <1>1, <1>2, <1>3, <1>4 DEF HintStreamed, TxStreamed, BidPolled

(* The line has room for the block that the poller takes. *)
LEMMA RoomForOne ==
    ASSUME FlowIInv, hand["blocks"] = <<>>
    PROVE  InHand = {} /\ Cardinality(InLine) < ReplayDepth + ChannelDepth + 1
<1>1. InHand = {}
  BY BlocksOfEmpty DEF InHand
<1>2. InLine = BlocksOf(replayQueue) \cup BlocksOf(channel)
  BY <1>1 DEF InLine
<1> DEFINE Q == BlocksOf(replayQueue)
           C == BlocksOf(channel)
<1>3. IsFiniteSet(Q) /\ Cardinality(Q) \in Nat /\ Cardinality(Q) <= ReplayDepth
  <2>1. /\ replayQueue \in FlowSeqs /\ Len(replayQueue) \in Nat
        /\ Len(replayQueue) <= ReplayDepth
    BY DEF FlowIInv, LineTypes, FlowSeqs
  <2>2. QED
    BY <2>1, BlocksOfBounded, FlowNats
<1>4. IsFiniteSet(C) /\ Cardinality(C) \in Nat /\ Cardinality(C) <= ChannelDepth
  <2>1. channel \in FlowSeqs /\ Len(channel) \in Nat /\ Len(channel) <= ChannelDepth
    BY DEF FlowIInv, LineTypes, FlowSeqs
  <2>2. QED
    BY <2>1, BlocksOfBounded, FlowNats
<1> HIDE DEF Q, C
<1>5. Cardinality(Q \cup C) = Cardinality(Q) + Cardinality(C) - Cardinality(Q \cap C)
  BY <1>3, <1>4, FS_Union
<1>6. Cardinality(Q \cap C) \in Nat
  <2>1. IsFiniteSet(Q \cap C)
    BY <1>3, FS_Intersection
  <2>2. QED
    BY <2>1, FS_CardinalityType
<1>7. Cardinality(Q \cup C) < ReplayDepth + ChannelDepth + 1
  BY <1>3, <1>4, <1>5, <1>6, FlowNats
<1>8. QED
  BY <1>1, <1>2, <1>7 DEF Q, C

(* A block that the poller takes joins the line behind all others. *)
LEMMA PollerTakes ==
    ASSUME FlowIInv, hand["blocks"] = <<>>, NEW n \in Nat, NEW txs \in Nat, at < n,
           hand' = [hand EXCEPT !["blocks"] = <<BlockEvent(n, txs)>>],
           at' = n, walkEnd' \in Nat, listed' \subseteq Nat, SourceOrder',
           UNCHANGED <<tip, delivery, channel, replayQueue, lastReplayed>>
    PROVE  FlowIInv' /\ InLine' = InLine \cup {n}
<1>1. /\ hand' \in [Sources -> FlowSeqs]
      /\ hand'["blocks"] = <<BlockEvent(n, txs)>>
      /\ hand'["heads"] = hand["heads"] /\ hand'["feed"] = hand["feed"]
  BY OneBlock DEF FlowIInv, LineTypes, Sources
<1>2. LineTypes'
  BY <1>1, OneBlock DEF FlowIInv, LineTypes
<1>3. InHand = {} /\ InHand' = {n}
  <2>1. InHand' = BlocksOf(<<BlockEvent(n, txs)>>)
    BY <1>1 DEF InHand, BlocksOf
  <2>2. QED
    BY <2>1, OneBlock, RoomForOne
<1>4. /\ BlocksOf(replayQueue)' = BlocksOf(replayQueue)
      /\ BlocksOf(channel)' = BlocksOf(channel)
      /\ BlocksOf(hand["heads"])' = BlocksOf(hand["heads"])
      /\ BlocksOf(hand["feed"])' = BlocksOf(hand["feed"])
  BY <1>1 DEF BlocksOf
<1>5. InLine' = InLine \cup {n}
  BY <1>3, <1>4 DEF InLine
<1>6. InLine \subseteq Nat /\ at \in Nat /\ lastReplayed \in Nat
  BY BlocksOfNat DEF FlowIInv, LineTypes, InLine, InHand, Sources
<1>7. \A m \in BlocksOf(replayQueue) \cup BlocksOf(channel) : m < n
  <2> TAKE m \in BlocksOf(replayQueue) \cup BlocksOf(channel)
  <2>1. m \in InLine /\ m <= at
    BY DEF FlowIInv, LineOrder, InLine
  <2>2. m \in Nat
    BY <1>6, <2>1
  <2>3. QED
    BY <1>6, <2>1, <2>2
<1>8. \A m \in InLine' : lastReplayed' < m /\ m <= at'
  <2>1. \A m \in InLine : lastReplayed < m /\ m <= n
    BY <1>6 DEF FlowIInv, LineOrder
  <2>2. lastReplayed < n
    BY <1>6 DEF FlowIInv, LineOrder
  <2>3. QED
    BY <1>5, <2>1, <2>2
<1>9. lastReplayed' <= at'
  BY <1>6 DEF FlowIInv, LineOrder
<1>10. Rising(replayQueue)' /\ Rising(channel)'
  BY DEF FlowIInv, LineOrder, Rising
<1>11. LineOrder'
  BY <1>3, <1>4, <1>7, <1>8, <1>9, <1>10 DEF FlowIInv, LineOrder
<1>12. QED
  BY <1>2, <1>5, <1>11 DEF FlowIInv

LEMMA PollHeadKeeps ==
    ASSUME FlowIInv, PollHead
    PROVE  /\ FlowIInv'
           /\ \/ UNCHANGED Mapped
              \/ /\ at = 0 /\ at' > 0
                 /\ UNCHANGED <<delivery, InLine, failed, replayDropped, lastReplayed>>
<1>1. PICK head \in 1 .. tip :
          /\ head > walkEnd
          /\ walkEnd' = head
          /\ at' = IF walkEnd = 0 THEN head ELSE at
  BY DEF PollHead
<1>2. /\ UNCHANGED <<tip, delivery, listed, hand, channel, replayQueue, failed,
                     replayDropped, lastReplayed>>
      /\ delivery = "chain" /\ at = walkEnd
  BY DEF PollHead, configVars, replayVars
<1>3. head \in Nat /\ head > 0 /\ at \in Nat /\ walkEnd \in Nat /\ lastReplayed \in Nat
  BY <1>1 DEF FlowIInv, LineTypes
<1>4. at <= at' /\ at' \in Nat
  BY <1>1, <1>2, <1>3
<1>5. LineTypes'
  BY <1>1, <1>2, <1>3, <1>4 DEF FlowIInv, LineTypes
<1>6. InHand' = InHand /\ InLine' = InLine
  BY <1>2 DEF InHand, InLine, BlocksOf
<1>7. InLine \subseteq Nat
  BY BlocksOfNat DEF FlowIInv, LineTypes, InLine, InHand, Sources
<1>8. \A m \in InLine' : lastReplayed' < m /\ m <= at'
  <2>1. \A m \in InLine : lastReplayed < m /\ m <= at
    BY DEF FlowIInv, LineOrder
  <2>2. QED
    BY <1>2, <1>3, <1>4, <1>6, <1>7, <2>1
<1>9. lastReplayed' <= at'
  BY <1>2, <1>3, <1>4 DEF FlowIInv, LineOrder
<1>10. /\ BlocksOf(replayQueue)' = BlocksOf(replayQueue)
       /\ BlocksOf(channel)' = BlocksOf(channel)
       /\ BlocksOf(hand["heads"])' = BlocksOf(hand["heads"])
       /\ BlocksOf(hand["feed"])' = BlocksOf(hand["feed"])
       /\ Rising(replayQueue)' = Rising(replayQueue) /\ Rising(channel)' = Rising(channel)
  BY <1>2 DEF BlocksOf, Rising
<1>11. LineOrder'
  BY <1>6, <1>8, <1>9, <1>10 DEF FlowIInv, LineOrder
<1>12. SourceOrder'
  <2>1. listed = {}
    BY <1>2 DEF FlowIInv, SourceOrder
  <2>2. at' <= walkEnd' /\ (at' < walkEnd' => at' > 0)
    BY <1>1, <1>2, <1>3
  <2>3. QED
    BY <1>2, <2>1, <2>2 DEF SourceOrder
<1>13. CASE walkEnd = 0
  BY <1>1, <1>2, <1>3, <1>5, <1>6, <1>11, <1>12, <1>13 DEF FlowIInv
<1>14. CASE walkEnd # 0
  <2>1. at' = at
    BY <1>1, <1>14
  <2>2. UNCHANGED Mapped
    BY <1>2, <1>6, <2>1 DEF Mapped
  <2>3. QED
    BY <1>5, <1>11, <1>12, <2>2 DEF FlowIInv
<1>15. QED
  BY <1>13, <1>14

(* The poller accepts a block, or counts it as missed. *)
Takes(n) ==
    /\ at' = n /\ InLine' = InLine \cup {n}
    /\ Cardinality(InLine) < ReplayDepth + ChannelDepth + 1
    /\ UNCHANGED <<delivery, failed, replayDropped, lastReplayed>>

Misses(n) ==
    /\ at' = n /\ failed' = failed \cup {n}
    /\ UNCHANGED <<delivery, InLine, replayDropped, lastReplayed>>

LEMMA WalkBlockKeeps ==
    ASSUME FlowIInv, WalkBlock, "null" \notin FlowFaults
    PROVE  /\ FlowIInv'
           /\ delivery = "chain" /\ at > 0
           /\ Takes(at + 1) \/ Misses(at + 1)
<1>1. PICK outcome \in {"ok"} \cup FlowFaults :
          /\ hand' = IF outcome = "ok"
                     THEN [hand EXCEPT !["blocks"] = <<BlockEvent(at + 1, BlockTxs)>>]
                     ELSE hand
          /\ failed' = IF outcome = "fetch" THEN failed \cup {at + 1} ELSE failed
  BY DEF WalkBlock
<1>2. /\ delivery = "chain" /\ at < walkEnd /\ hand["blocks"] = <<>>
      /\ at' = at + 1
      /\ UNCHANGED <<tip, delivery, walkEnd, listed, channel, replayQueue, replayDropped,
                     lastReplayed>>
  BY DEF WalkBlock, WalkedTo, configVars, replayVars
<1>3. at \in Nat /\ walkEnd \in Nat /\ lastReplayed \in Nat
  BY DEF FlowIInv, LineTypes
<1>4. at > 0
  BY <1>2 DEF FlowIInv, SourceOrder
<1>5. SourceOrder'
  <2>1. listed = {}
    BY <1>2 DEF FlowIInv, SourceOrder
  <2>2. at' <= walkEnd' /\ at' > 0
    BY <1>2, <1>3
  <2>3. QED
    BY <1>2, <2>1, <2>2 DEF SourceOrder
<1>6. CASE outcome = "ok"
  <2>1. hand' = [hand EXCEPT !["blocks"] = <<BlockEvent(at + 1, BlockTxs)>>]
        /\ failed' = failed
    BY <1>1, <1>6
  <2>2. at + 1 \in Nat /\ at < at + 1 /\ walkEnd' \in Nat /\ listed' \subseteq Nat
    BY <1>2, <1>3 DEF FlowIInv, LineTypes
  <2>3. FlowIInv' /\ InLine' = InLine \cup {at + 1}
    BY <1>2, <1>5, <2>1, <2>2, FlowNats, PollerTakes
  <2>4. QED
    BY <1>2, <1>4, <2>1, <2>3, RoomForOne DEF Takes
<1>7. CASE outcome = "fetch"
  <2>1. hand' = hand /\ failed' = failed \cup {at + 1}
    BY <1>1, <1>7
  <2>2. InHand' = InHand /\ InLine' = InLine
    BY <1>2, <2>1 DEF InHand, InLine, BlocksOf
  <2>3. LineTypes'
    BY <1>2, <1>3, <2>1 DEF FlowIInv, LineTypes
  <2>4. InLine \subseteq Nat
    BY BlocksOfNat DEF FlowIInv, LineTypes, InLine, InHand, Sources
  <2>5. \A m \in InLine' : lastReplayed' < m /\ m <= at'
    <3>1. \A m \in InLine : lastReplayed < m /\ m <= at
      BY DEF FlowIInv, LineOrder
    <3>2. QED
      BY <1>2, <1>3, <2>2, <2>4, <3>1
  <2>6. lastReplayed' <= at'
    BY <1>2, <1>3 DEF FlowIInv, LineOrder
  <2>7. /\ BlocksOf(replayQueue)' = BlocksOf(replayQueue)
        /\ BlocksOf(channel)' = BlocksOf(channel)
        /\ BlocksOf(hand["heads"])' = BlocksOf(hand["heads"])
        /\ BlocksOf(hand["feed"])' = BlocksOf(hand["feed"])
        /\ Rising(replayQueue)' = Rising(replayQueue) /\ Rising(channel)' = Rising(channel)
    BY <1>2, <2>1 DEF BlocksOf, Rising
  <2>8. LineOrder'
    BY <2>2, <2>5, <2>6, <2>7 DEF FlowIInv, LineOrder
  <2>9. QED
    BY <1>2, <1>4, <1>5, <2>1, <2>2, <2>3, <2>8 DEF FlowIInv, Misses
<1>8. QED
  BY <1>1, <1>6, <1>7, FlowAssumption

LEMMA PollTracesKeeps ==
    ASSUME FlowIInv, PollTraces
    PROVE  FlowIInv' /\ UNCHANGED Mapped
<1>1. /\ UNCHANGED <<tip, delivery, at, walkEnd, hand, channel, replayQueue, failed,
                     replayDropped, lastReplayed>>
      /\ delivery = "relay" /\ listed' \subseteq {n \in 1 .. tip : n > at}
  BY DEF PollTraces, configVars, replayVars
<1>2. \A n \in listed' : n \in Nat /\ n > at
  BY <1>1 DEF FlowIInv, LineTypes
<1>3. LineTypes'
  BY <1>1, <1>2 DEF FlowIInv, LineTypes
<1>4. InHand' = InHand /\ InLine' = InLine
  BY <1>1 DEF InHand, InLine, BlocksOf
<1>5. LineOrder'
  BY <1>1, <1>4 DEF FlowIInv, LineOrder, Rising, BlocksOf
<1>6. SourceOrder'
  BY <1>1, <1>2 DEF FlowIInv, SourceOrder
<1>7. QED
  BY <1>1, <1>3, <1>4, <1>5, <1>6 DEF FlowIInv, Mapped

LEMMA FetchDeliveredKeeps ==
    ASSUME FlowIInv, FetchDelivered
    PROVE  FlowIInv' /\ delivery = "relay" /\ \E n \in Nat : at < n /\ Takes(n)
<1>1. PICK n \in listed :
          /\ \A m \in listed : n <= m
          /\ at' = n /\ walkEnd' = n
          /\ listed' = listed \ {n}
          /\ \E txs \in {BlockTxs} \cup {0 : f \in FlowFaults} :
                Holds("blocks", <<BlockEvent(n, txs)>>)
  BY DEF FetchDelivered
<1>2. PICK txs \in {BlockTxs} \cup {0 : f \in FlowFaults} :
          Holds("blocks", <<BlockEvent(n, txs)>>)
  BY <1>1
<1>3. hand["blocks"] = <<>> /\ hand' = [hand EXCEPT !["blocks"] = <<BlockEvent(n, txs)>>]
  BY <1>2 DEF Holds
<1>4. n \in Nat /\ txs \in Nat /\ at < n /\ at \in Nat /\ listed' \subseteq Nat
  <2>1. txs \in Nat
    BY <1>2, FlowNats
  <2>2. n \in Nat /\ at \in Nat /\ listed' \subseteq Nat
    BY <1>1 DEF FlowIInv, LineTypes
  <2>3. at < n
    BY <2>2 DEF FlowIInv, SourceOrder
  <2>4. QED
    BY <2>1, <2>2, <2>3
<1>5. UNCHANGED <<tip, delivery, channel, replayQueue, failed, replayDropped, lastReplayed>>
  BY DEF FetchDelivered, configVars, replayVars
<1>6. delivery = "relay"
  BY <1>1 DEF FlowIInv, SourceOrder, LineTypes
<1>7. SourceOrder'
  <2>1. \A m \in listed' : m > n
    <3> TAKE m \in listed'
    <3>1. m \in listed /\ m # n /\ n <= m
      BY <1>1
    <3>2. m \in Nat
      BY <3>1 DEF FlowIInv, LineTypes
    <3>3. QED
      BY <1>4, <3>1, <3>2
  <2>2. at' <= walkEnd' /\ ~(at' < walkEnd')
    BY <1>1, <1>4
  <2>3. QED
    BY <1>1, <1>5, <1>6, <2>1, <2>2 DEF SourceOrder
<1>8. FlowIInv' /\ InLine' = InLine \cup {n}
  BY <1>1, <1>3, <1>4, <1>5, <1>7, PollerTakes
<1>9. QED
  BY <1>1, <1>3, <1>4, <1>5, <1>6, <1>8, RoomForOne DEF Takes

(* A send moves a block from the poller's hand to the end of the channel. *)
LEMMA PushEventKeeps ==
    ASSUME FlowIInv, NEW s \in Sources, PushEvent(s)
    PROVE  FlowIInv' /\ UNCHANGED Mapped
<1> DEFINE e == Head(hand[s])
<1>1. /\ hand[s] # <<>> /\ Len(channel) < ChannelDepth
      /\ channel' = Append(channel, e)
      /\ hand' = [hand EXCEPT ![s] = Tail(hand[s])]
      /\ UNCHANGED <<tip, delivery, at, walkEnd, listed, replayQueue, failed,
                     replayDropped, lastReplayed>>
  BY DEF PushEvent, configVars, sourceVars, replayVars
<1>2. hand[s] \in FlowSeqs /\ hand["blocks"] \in FlowSeqs /\ channel \in FlowSeqs
      /\ hand \in [Sources -> FlowSeqs] /\ Len(channel) \in Nat
  BY DEF FlowIInv, LineTypes, Sources, FlowSeqs
<1>3. e \in FlowEvents /\ Tail(hand[s]) \in FlowSeqs
      /\ Len(hand[s]) \in Nat /\ Len(Tail(hand[s])) = Len(hand[s]) - 1
  BY <1>1, <1>2, BlocksOfTail
<1>4. /\ hand' \in [Sources -> FlowSeqs] /\ hand'[s] = Tail(hand[s])
      /\ \A r \in Sources : r # s => hand'[r] = hand[r]
  BY <1>1, <1>2, <1>3
<1>5. channel' \in FlowSeqs /\ Len(channel') <= ChannelDepth
  BY <1>1, <1>2, <1>3, BlocksOfAppend, FlowNats
<1>6. Len(hand'["blocks"]) <= 1
  <2>1. CASE s = "blocks"
    BY <1>3, <1>4, <2>1 DEF FlowIInv, LineTypes
  <2>2. CASE s # "blocks"
    BY <1>4, <2>2 DEF FlowIInv, LineTypes, Sources
  <2>3. QED
    BY <2>1, <2>2
<1>7. LineTypes'
  BY <1>1, <1>4, <1>5, <1>6 DEF FlowIInv, LineTypes
<1>8. SourceOrder'
  BY <1>1 DEF FlowIInv, SourceOrder
<1>9. BlocksOf(replayQueue)' = BlocksOf(replayQueue) /\ Rising(replayQueue)'
  BY <1>1 DEF BlocksOf, FlowIInv, LineOrder, Rising
<1>10. BlocksOf(channel)' = BlocksOf(channel) \cup (IF e.kind = "block" THEN {e.block} ELSE {})
  <2>1. BlocksOf(channel)' = BlocksOf(Append(channel, e))
    BY <1>1 DEF BlocksOf
  <2>2. QED
    BY <1>2, <1>3, <2>1, BlocksOfAppend
<1>11. CASE e.kind # "block"
  <2>1. BlocksOf(hand[s]) = BlocksOf(Tail(hand[s]))
    BY <1>1, <1>2, <1>11, BlocksOfTail
  <2>2. \A r \in Sources : BlocksOf(hand[r])' = BlocksOf(hand[r])
    BY <1>4, <2>1 DEF BlocksOf
  <2>3. BlocksOf(channel)' = BlocksOf(channel)
    BY <1>10, <1>11
  <2>4. Rising(channel)'
    <3>1. Rising(Append(channel, e))
      BY <1>2, <1>3, <1>11, BlocksOfAppend DEF FlowIInv, LineOrder
    <3>2. QED
      BY <1>1, <3>1 DEF Rising
  <2>5. /\ InHand' = InHand
        /\ BlocksOf(hand["heads"])' = {} /\ BlocksOf(hand["feed"])' = {}
    BY <2>2 DEF InHand, Sources, FlowIInv, LineOrder
  <2>6. InLine' = InLine
    BY <1>9, <2>3, <2>5 DEF InLine
  <2>7. LineOrder'
    BY <1>1, <1>9, <2>3, <2>4, <2>5, <2>6 DEF FlowIInv, LineOrder
  <2>8. QED
    BY <1>1, <1>7, <1>8, <2>6, <2>7 DEF FlowIInv, Mapped
<1>12. CASE e.kind = "block"
  <2>1. BlocksOf(hand[s]) = BlocksOf(Tail(hand[s])) \cup {e.block}
    BY <1>1, <1>2, <1>12, BlocksOfTail
  <2>2. s = "blocks"
    BY <2>1 DEF FlowIInv, LineOrder, Sources
  <2>3. Tail(hand[s]) = <<>>
    <3>1. Len(Tail(hand[s])) = 0
      <4>1. Len(hand[s]) <= 1 /\ Len(hand[s]) # 0
        BY <1>1, <1>2, <2>2, EmptySeq DEF FlowIInv, LineTypes, FlowSeqs
      <4>2. Len(hand[s]) \in Nat /\ Len(Tail(hand[s])) = Len(hand[s]) - 1
        BY <1>3
      <4>3. \A k \in Nat : k <= 1 /\ k # 0 => k = 1
        OBVIOUS
      <4>4. Len(hand[s]) = 1
        BY <4>1, <4>2, <4>3, Zenon
      <4>5. QED
        BY <4>2, <4>4
    <3>2. QED
      BY <1>3, <3>1, EmptySeq DEF FlowSeqs
  <2>4. InHand = {e.block} /\ InHand' = {}
    <3>1. BlocksOf(Tail(hand[s])) = {}
      BY <2>3, BlocksOfEmpty
    <3>2. InHand' = BlocksOf(Tail(hand[s]))
      BY <1>4, <2>2 DEF InHand, BlocksOf
    <3>3. QED
      BY <2>1, <2>2, <3>1, <3>2 DEF InHand
  <2>5. BlocksOf(channel)' = BlocksOf(channel) \cup {e.block}
    BY <1>10, <1>12
  <2>6. InLine' = InLine
    BY <1>9, <2>4, <2>5 DEF InLine
  <2>7. \A n \in BlocksOf(channel) \cup BlocksOf(replayQueue) : n < e.block
    BY <2>4 DEF FlowIInv, LineOrder
  <2>8. Rising(channel)'
    <3>1. Rising(Append(channel, e))
      BY <1>2, <1>3, <2>7, BlocksOfAppend DEF FlowIInv, LineOrder
    <3>2. QED
      BY <1>1, <3>1 DEF Rising
  <2>9. BlocksOf(hand["heads"])' = {} /\ BlocksOf(hand["feed"])' = {}
    BY <1>4, <2>2 DEF BlocksOf, Sources, FlowIInv, LineOrder
  <2>10. /\ \A m \in BlocksOf(replayQueue)' : \A n \in BlocksOf(channel)' : m < n
         /\ \A m \in BlocksOf(replayQueue)' \cup BlocksOf(channel)' : \A n \in InHand' : m < n
    BY <1>9, <2>4, <2>5, <2>7 DEF FlowIInv, LineOrder
  <2>11. LineOrder'
    BY <1>1, <1>9, <2>6, <2>8, <2>9, <2>10 DEF FlowIInv, LineOrder
  <2>12. QED
    BY <1>1, <1>7, <1>8, <2>6, <2>11 DEF FlowIInv, Mapped
<1>13. QED
  BY <1>11, <1>12

(* The loop drops the event that it has handled from the channel. *)
LEMMA LoopKeeps ==
    ASSUME FlowIInv, OnHead \/ OnPending \/ OnHint \/ OnBid
    PROVE  FlowIInv' /\ UNCHANGED Mapped
<1>1. /\ channel # <<>> /\ Head(channel).kind # "block" /\ channel' = Tail(channel)
      /\ UNCHANGED <<tip, delivery, at, walkEnd, listed, hand, replayQueue, failed,
                     replayDropped, lastReplayed>>
  BY DEF OnHead, OnPending, OnHint, OnBid, NextIs, Receive, configVars, sourceVars,
         engineVars, replayVars
<1>2. channel \in FlowSeqs /\ Len(channel) <= ChannelDepth
  BY DEF FlowIInv, LineTypes
<1>3. /\ Tail(channel) \in FlowSeqs /\ Len(channel) \in Nat
      /\ Len(Tail(channel)) = Len(channel) - 1
      /\ BlocksOf(Tail(channel)) = BlocksOf(channel)
      /\ Rising(Tail(channel))
  BY <1>1, <1>2, BlocksOfTail DEF FlowIInv, LineOrder
<1>4. Len(channel') <= ChannelDepth
  BY <1>1, <1>2, <1>3, FlowNats
<1>5. LineTypes'
  BY <1>1, <1>3, <1>4 DEF FlowIInv, LineTypes
<1>6. /\ BlocksOf(channel)' = BlocksOf(channel) /\ Rising(channel)'
      /\ BlocksOf(replayQueue)' = BlocksOf(replayQueue) /\ Rising(replayQueue)'
      /\ InHand' = InHand
      /\ BlocksOf(hand["heads"])' = {} /\ BlocksOf(hand["feed"])' = {}
  BY <1>1, <1>3 DEF BlocksOf, InHand, Rising, FlowIInv, LineOrder
<1>7. InLine' = InLine
  BY <1>6 DEF InLine
<1>8. LineOrder'
  BY <1>1, <1>6, <1>7 DEF FlowIInv, LineOrder
<1>9. SourceOrder'
  BY <1>1 DEF FlowIInv, SourceOrder
<1>10. QED
  BY <1>1, <1>5, <1>7, <1>8, <1>9 DEF FlowIInv, Mapped

(* The oldest block of the channel is queued, or dropped and counted. *)
LEMMA OnDeliveredKeeps ==
    ASSUME FlowIInv, OnDelivered
    PROVE  /\ FlowIInv'
           /\ \/ UNCHANGED Mapped
              \/ \E n \in InLine :
                    /\ InLine' = InLine \ {n} /\ replayDropped' = replayDropped \cup {n}
                    /\ UNCHANGED <<delivery, at, failed, lastReplayed>>
<1> DEFINE e == Head(channel)
<1>1. /\ channel # <<>> /\ e.kind = "block" /\ channel' = Tail(channel)
      /\ EnqueueReplay(e)
      /\ UNCHANGED <<tip, delivery, at, walkEnd, listed, hand, failed, lastReplayed>>
  BY DEF OnDelivered, NextIs, Receive, configVars, sourceVars
<1>2. channel \in FlowSeqs /\ Len(channel) <= ChannelDepth
  BY DEF FlowIInv, LineTypes
<1>3. /\ e \in FlowEvents /\ Tail(channel) \in FlowSeqs /\ Len(channel) \in Nat
      /\ Len(Tail(channel)) = Len(channel) - 1
      /\ BlocksOf(channel) = BlocksOf(Tail(channel)) \cup {e.block}
      /\ \A n \in BlocksOf(Tail(channel)) : e.block < n
      /\ Rising(Tail(channel))
  BY <1>1, <1>2, BlocksOfTail DEF FlowIInv, LineOrder
<1>4. channel' \in FlowSeqs /\ Len(channel') <= ChannelDepth
  BY <1>1, <1>2, <1>3, FlowNats
<1>5. /\ BlocksOf(channel)' = BlocksOf(Tail(channel)) /\ Rising(channel)'
      /\ InHand' = InHand
      /\ BlocksOf(hand["heads"])' = {} /\ BlocksOf(hand["feed"])' = {}
  BY <1>1, <1>3 DEF BlocksOf, InHand, Rising, FlowIInv, LineOrder
<1>6. SourceOrder'
  BY <1>1 DEF FlowIInv, SourceOrder
<1>7. e.block \in BlocksOf(channel)
  BY <1>3
<1>8. replayQueue \in FlowSeqs /\ Len(replayQueue) \in Nat /\ Len(replayQueue) <= ReplayDepth
  BY DEF FlowIInv, LineTypes, FlowSeqs
<1>9. BlocksOf(Tail(channel)) \subseteq BlocksOf(channel)
  BY <1>3
<1>10. \A n \in BlocksOf(replayQueue) : n < e.block
  BY <1>7 DEF FlowIInv, LineOrder
<1>11. CASE Len(replayQueue) < ReplayDepth
  <2>1. replayQueue' = Append(replayQueue, e) /\ replayDropped' = replayDropped
    BY <1>1, <1>11 DEF EnqueueReplay
  <2>2. /\ Append(replayQueue, e) \in FlowSeqs
        /\ Len(Append(replayQueue, e)) = Len(replayQueue) + 1
        /\ BlocksOf(Append(replayQueue, e)) = BlocksOf(replayQueue) \cup {e.block}
        /\ Rising(Append(replayQueue, e))
    BY <1>1, <1>3, <1>8, <1>10, BlocksOfAppend DEF FlowIInv, LineOrder
  <2>3. \A i \in DOMAIN replayQueue' : replayQueue'[i].kind = "block"
    <3>1. DOMAIN replayQueue' = 1 .. Len(replayQueue) + 1
          /\ DOMAIN replayQueue = 1 .. Len(replayQueue)
      BY <1>8, <2>1, <2>2, LenProperties DEF FlowSeqs
    <3>2. \A i \in 1 .. Len(replayQueue) : replayQueue'[i] = replayQueue[i]
      BY <1>3, <1>8, <2>1 DEF FlowSeqs
    <3>3. replayQueue'[Len(replayQueue) + 1] = e
      BY <1>3, <1>8, <2>1 DEF FlowSeqs
    <3>4. \A i \in 1 .. Len(replayQueue) + 1 :
              i \in 1 .. Len(replayQueue) \/ i = Len(replayQueue) + 1
      BY <1>8
    <3>5. \A i \in 1 .. Len(replayQueue) : replayQueue[i].kind = "block"
      BY <3>1 DEF FlowIInv, LineTypes
    <3>6. QED
      BY <1>1, <3>1, <3>2, <3>3, <3>4, <3>5
  <2>4. Len(replayQueue') <= ReplayDepth
    BY <1>8, <1>11, <2>1, <2>2, FlowNats
  <2>5. LineTypes'
    BY <1>1, <1>4, <2>1, <2>2, <2>3, <2>4 DEF FlowIInv, LineTypes
  <2>6. BlocksOf(replayQueue)' = BlocksOf(replayQueue) \cup {e.block} /\ Rising(replayQueue)'
    BY <2>1, <2>2 DEF BlocksOf, Rising
  <2>7. InLine' = InLine
    BY <1>3, <1>5, <2>6 DEF InLine
  <2>8. \A m \in BlocksOf(replayQueue)' : \A n \in BlocksOf(channel)' : m < n
    BY <1>3, <1>5, <1>9, <2>6 DEF FlowIInv, LineOrder
  <2>9. \A m \in BlocksOf(replayQueue)' \cup BlocksOf(channel)' : \A n \in InHand' : m < n
    BY <1>5, <1>7, <1>9, <2>6 DEF FlowIInv, LineOrder
  <2>10. LineOrder'
    BY <1>1, <1>5, <2>6, <2>7, <2>8, <2>9 DEF FlowIInv, LineOrder
  <2>11. QED
    BY <1>1, <1>6, <2>1, <2>5, <2>7, <2>10 DEF FlowIInv, Mapped
<1>12. CASE ~(Len(replayQueue) < ReplayDepth)
  <2>1. replayQueue' = replayQueue /\ replayDropped' = replayDropped \cup {e.block}
    BY <1>1, <1>12 DEF EnqueueReplay
  <2>2. LineTypes'
    BY <1>1, <1>4, <2>1 DEF FlowIInv, LineTypes
  <2>3. BlocksOf(replayQueue)' = BlocksOf(replayQueue) /\ Rising(replayQueue)'
    BY <2>1 DEF BlocksOf, Rising, FlowIInv, LineOrder
  <2>4. /\ e.block \in InLine /\ e.block \notin BlocksOf(replayQueue)
        /\ e.block \notin BlocksOf(Tail(channel)) /\ e.block \notin InHand
    <3>1. e.block \in Nat
      BY <1>3 DEF FlowEvents
    <3>2. \A n \in InHand : e.block < n
      BY <1>7 DEF FlowIInv, LineOrder
    <3>3. ~(e.block < e.block)
      BY <3>1
    <3>4. QED
      BY <1>3, <1>7, <1>10, <3>2, <3>3 DEF InLine
  <2>5. InLine' = InLine \ {e.block}
    BY <1>3, <1>5, <2>3, <2>4 DEF InLine
  <2>6. \A m \in BlocksOf(replayQueue)' : \A n \in BlocksOf(channel)' : m < n
    BY <1>5, <1>9, <2>3 DEF FlowIInv, LineOrder
  <2>7. \A m \in BlocksOf(replayQueue)' \cup BlocksOf(channel)' : \A n \in InHand' : m < n
    BY <1>5, <1>9, <2>3 DEF FlowIInv, LineOrder
  <2>8. \A n \in InLine' : lastReplayed' < n /\ n <= at'
    BY <1>1, <2>5 DEF FlowIInv, LineOrder
  <2>9. LineOrder'
    BY <1>1, <1>5, <2>3, <2>6, <2>7, <2>8 DEF FlowIInv, LineOrder
  <2>10. QED
    BY <1>1, <1>6, <2>1, <2>2, <2>4, <2>5, <2>9 DEF FlowIInv
<1>13. QED
  BY <1>11, <1>12

(* The worker takes the oldest block of all that wait. *)
LEMMA TakeDeliveredKeeps ==
    ASSUME FlowIInv, TakeDelivered
    PROVE  /\ FlowIInv'
           /\ \E n \in InLine :
                 /\ n > lastReplayed /\ \A m \in InLine : n <= m
                 /\ lastReplayed' = n /\ InLine' = InLine \ {n}
                 /\ UNCHANGED <<delivery, at, failed, replayDropped>>
<1> DEFINE e == Head(replayQueue)
           n == e.block
<1>1. /\ replayQueue # <<>> /\ replayQueue' = Tail(replayQueue) /\ lastReplayed' = n
      /\ UNCHANGED <<tip, delivery, at, walkEnd, listed, hand, channel, failed,
                     replayDropped>>
  BY DEF TakeDelivered, Working, configVars, sourceVars
<1>2. /\ replayQueue \in FlowSeqs /\ Len(replayQueue) <= ReplayDepth
      /\ \A i \in DOMAIN replayQueue : replayQueue[i].kind = "block"
  BY DEF FlowIInv, LineTypes
<1>3. /\ e \in FlowEvents /\ Tail(replayQueue) \in FlowSeqs /\ Len(replayQueue) \in Nat
      /\ Len(Tail(replayQueue)) = Len(replayQueue) - 1
      /\ e.kind = "block"
      /\ BlocksOf(replayQueue) = BlocksOf(Tail(replayQueue)) \cup {n}
      /\ \A m \in BlocksOf(Tail(replayQueue)) : n < m
      /\ Rising(Tail(replayQueue))
      /\ \A i \in DOMAIN Tail(replayQueue) : Tail(replayQueue)[i].kind = "block"
  BY <1>1, <1>2, BlocksOfTail DEF FlowIInv, LineOrder
<1>4. n \in Nat
  BY <1>3 DEF FlowEvents
<1>5. replayQueue' \in FlowSeqs /\ Len(replayQueue') <= ReplayDepth
  BY <1>1, <1>2, <1>3, FlowNats
<1>6. LineTypes'
  BY <1>1, <1>3, <1>4, <1>5 DEF FlowIInv, LineTypes
<1>7. /\ BlocksOf(replayQueue)' = BlocksOf(Tail(replayQueue)) /\ Rising(replayQueue)'
      /\ BlocksOf(channel)' = BlocksOf(channel) /\ Rising(channel)'
      /\ InHand' = InHand
      /\ BlocksOf(hand["heads"])' = {} /\ BlocksOf(hand["feed"])' = {}
  BY <1>1, <1>3 DEF BlocksOf, InHand, Rising, FlowIInv, LineOrder
<1>8. n \in BlocksOf(replayQueue) /\ n \in InLine
  BY <1>3 DEF InLine
<1>9. /\ \A m \in BlocksOf(channel) : n < m
      /\ \A m \in InHand : n < m
  BY <1>8 DEF FlowIInv, LineOrder
<1>10. \A m \in BlocksOf(Tail(replayQueue)) \cup BlocksOf(channel) \cup InHand : n < m
  BY <1>3, <1>9
<1>11. InLine = {n} \cup (BlocksOf(Tail(replayQueue)) \cup BlocksOf(channel) \cup InHand)
  BY <1>3 DEF InLine
<1>12. InLine' = BlocksOf(Tail(replayQueue)) \cup BlocksOf(channel) \cup InHand
  BY <1>7 DEF InLine
<1>13. ~(n < n) /\ n <= n
  BY <1>4
<1>14. InLine' = InLine \ {n}
  BY <1>10, <1>11, <1>12, <1>13
<1>15. InLine \subseteq Nat
  BY BlocksOfNat DEF FlowIInv, LineTypes, InLine, InHand, Sources
<1>16. \A m \in InLine : n <= m
  <2> TAKE m \in InLine
  <2>1. m = n \/ n < m
    BY <1>10, <1>11
  <2>2. QED
    BY <1>4, <1>15, <2>1
<1>17. n > lastReplayed /\ n <= at
  BY <1>4, <1>8 DEF FlowIInv, LineOrder, LineTypes
<1>18. \A m \in InLine' : lastReplayed' < m /\ m <= at'
  BY <1>1, <1>10, <1>12, <1>14 DEF FlowIInv, LineOrder
<1>19. BlocksOf(Tail(replayQueue)) \subseteq BlocksOf(replayQueue)
  BY <1>3
<1>20. \A m \in BlocksOf(replayQueue)' : \A k \in BlocksOf(channel)' : m < k
  BY <1>7, <1>19 DEF FlowIInv, LineOrder
<1>21. \A m \in BlocksOf(replayQueue)' \cup BlocksOf(channel)' : \A k \in InHand' : m < k
  BY <1>7, <1>19 DEF FlowIInv, LineOrder
<1>22. LineOrder'
  BY <1>1, <1>7, <1>17, <1>18, <1>20, <1>21 DEF LineOrder
<1>23. SourceOrder'
  BY <1>1 DEF FlowIInv, SourceOrder
<1>24. QED
  BY <1>1, <1>6, <1>8, <1>14, <1>16, <1>17, <1>22, <1>23 DEF FlowIInv

-----------------------------------------------------------------------------
(* The pipeline implements DeliveredBlocks. *)

LEMMA FlowInitHolds ==
    ASSUME FlowInit
    PROVE  FlowIInv /\ Delivered!DeliveredInit
<1> USE DEF FlowInit
<1>1. <<>> \in FlowSeqs /\ Len(<<>>) = 0 /\ DOMAIN <<>> = {}
  BY DEF FlowSeqs
<1>2. \A s \in Sources : hand[s] = <<>>
  OBVIOUS
<1>3. InHand = {} /\ InLine = {}
  BY <1>2, BlocksOfEmpty DEF InHand, InLine, Sources
<1>4. LineTypes
  <2>1. hand \in [Sources -> FlowSeqs]
    BY <1>1
  <2>2. Len(hand["blocks"]) <= 1
    BY <1>1, <1>2 DEF Sources
  <2>3. QED
    BY <1>1, <2>1, <2>2, FlowNats DEF LineTypes
<1>5. LineOrder
  BY <1>2, <1>3, BlocksOfEmpty DEF LineOrder, Sources
<1>6. SourceOrder
  BY DEF SourceOrder
<1>7. Delivered!DeliveredInit
  BY <1>3 DEF Delivered!DeliveredInit, InLine, InHand
<1>8. QED
  BY <1>4, <1>5, <1>6, <1>7 DEF FlowIInv

LEMMA RestsAreStutters ==
    ASSUME UNCHANGED Mapped
    PROVE  UNCHANGED Delivered!deliveredVars
BY DEF Mapped, InLine, InHand, Delivered!deliveredVars

LEMMA TakesIsAccept ==
    ASSUME NEW n \in Nat, Takes(n),
           IF delivery = "chain" THEN at > 0 /\ n = at + 1 ELSE n > at
    PROVE  Delivered!Accept(at')
<1>1. Delivered!Follows(at')
  BY DEF Takes, Delivered!Follows
<1>2. /\ Cardinality(InLine) < ReplayDepth + ChannelDepth + 1
      /\ InLine' = InLine \cup {at'}
      /\ UNCHANGED <<delivery, failed, replayDropped, lastReplayed>>
  BY DEF Takes
<1>3. \A S : Delivered!Cardinality(S) = Cardinality(S)
  BY DEF Cardinality, Delivered!Cardinality
<1>4. QED
  BY <1>1, <1>2, <1>3 DEF InLine, InHand, Delivered!Accept

LEMMA MissesIsMiss ==
    ASSUME NEW n \in Nat, Misses(n),
           IF delivery = "chain" THEN at > 0 /\ n = at + 1 ELSE n > at
    PROVE  Delivered!Miss(at')
<1>1. (failed \cup replayDropped)' = (failed \cup replayDropped) \cup {at'}
  BY DEF Misses
<1>2. QED
  BY <1>1 DEF Misses, InLine, InHand, Delivered!Miss, Delivered!Follows

LEMMA FlowStep ==
    ASSUME FlowIInv, FlowNext, "null" \notin FlowFaults
    PROVE  FlowIInv' /\ (Delivered!DeliveredNext \/ UNCHANGED Delivered!deliveredVars)
<1> DEFINE Kept == FlowIInv' /\ UNCHANGED Mapped
<1>1. CASE Kept
  BY <1>1, RestsAreStutters
<1>2. ASSUME ChainGrows \/ InventoryRefreshed \/ PoolsDiscovered \/ EvaluationEnds
             \/ BlockPersisted \/ BlockMatched \/ ScoreStarts \/ ScoreEnds
             \/ ScoringDone \/ BlockReconciled
      PROVE  Kept
  <2>1. UNCHANGED <<delivery, at, walkEnd, listed, hand, channel, replayQueue, failed,
                    replayDropped, lastReplayed>>
    BY <1>2 DEF ChainGrows, InventoryRefreshed, PoolsDiscovered, EvaluationEnds,
                BlockPersisted, BlockMatched, ScoreStarts, ScoreEnds, ScoringDone,
                BlockReconciled, WorkNext, Working, configVars, sourceVars, engineVars,
                replayVars
  <2>2. tip' = tip \/ tip' = tip + 1
    BY <1>2 DEF ChainGrows, InventoryRefreshed, PoolsDiscovered, EvaluationEnds,
                BlockPersisted, BlockMatched, ScoreStarts, ScoreEnds, ScoringDone,
                BlockReconciled, WorkNext, Working
  <2>3. tip' \in Nat
    BY <2>2 DEF FlowIInv, LineTypes
  <2>4. QED
    BY <2>1, <2>3, LineRests
<1>3. ASSUME HeadArrives \/ HintStreamed \/ TxStreamed \/ BidPolled \/ HashStreamed
             \/ HydrateBatch
      PROVE  Kept
  BY <1>3, FeedKeeps
<1>4. ASSUME NEW s \in Sources, PushEvent(s) PROVE Kept
  BY <1>4, PushEventKeeps
<1>5. ASSUME OnHead \/ OnPending \/ OnHint \/ OnBid PROVE Kept
  BY <1>5, LoopKeeps
<1>6. ASSUME PollTraces PROVE Kept
  BY <1>6, PollTracesKeeps
<1>7. CASE PollHead
  <2>1. CASE UNCHANGED Mapped
    BY <1>1, <1>7, <2>1, PollHeadKeeps
  <2>2. CASE /\ at = 0 /\ at' > 0
             /\ UNCHANGED <<delivery, InLine, failed, replayDropped, lastReplayed>>
    <3>1. Delivered!Begin(at')
      BY <2>2 DEF InLine, InHand, Delivered!Begin
    <3>2. QED
      BY <1>7, <3>1, PollHeadKeeps DEF Delivered!DeliveredNext
  <2>3. QED
    BY <1>7, <2>1, <2>2, PollHeadKeeps
<1>8. CASE WalkBlock
  <2>1. /\ FlowIInv' /\ delivery = "chain" /\ at > 0
        /\ Takes(at + 1) \/ Misses(at + 1)
    BY <1>8, WalkBlockKeeps
  <2>2. at + 1 \in Nat
    BY DEF FlowIInv, LineTypes
  <2>3. Delivered!Accept(at') \/ Delivered!Miss(at')
    BY <2>1, <2>2, TakesIsAccept, MissesIsMiss
  <2>4. QED
    BY <2>1, <2>3 DEF Delivered!DeliveredNext
<1>9. CASE FetchDelivered
  <2>1. PICK n \in Nat : FlowIInv' /\ delivery = "relay" /\ at < n /\ Takes(n)
    BY <1>9, FetchDeliveredKeeps
  <2>2. n > at
    BY <2>1 DEF FlowIInv, LineTypes
  <2>3. Delivered!Accept(at')
    BY <2>1, <2>2, TakesIsAccept
  <2>4. QED
    BY <2>1, <2>3 DEF Delivered!DeliveredNext
<1>10. CASE OnDelivered
  <2>1. CASE UNCHANGED Mapped
    BY <1>1, <1>10, <2>1, OnDeliveredKeeps
  <2>2. ASSUME NEW n \in InLine, InLine' = InLine \ {n},
               replayDropped' = replayDropped \cup {n},
               UNCHANGED <<delivery, at, failed, lastReplayed>>
        PROVE  Delivered!DeliveredNext
    <3>1. (failed \cup replayDropped)' = (failed \cup replayDropped) \cup {n}
      BY <2>2
    <3>2. Delivered!Drop(n)
      BY <2>2, <3>1 DEF InLine, InHand, Delivered!Drop
    <3>3. QED
      BY <2>2, <3>2 DEF InLine, InHand, Delivered!DeliveredNext
  <2>3. QED
    BY <1>10, <2>1, <2>2, OnDeliveredKeeps
<1>11. CASE TakeDelivered
  <2>1. PICK n \in InLine :
            /\ n > lastReplayed /\ \A m \in InLine : n <= m
            /\ lastReplayed' = n /\ InLine' = InLine \ {n}
            /\ UNCHANGED <<delivery, at, failed, replayDropped>>
    BY <1>11, TakeDeliveredKeeps
  <2>2. Delivered!Score
    BY <2>1 DEF InLine, InHand, Delivered!Score
  <2>3. QED
    BY <1>11, <2>2, TakeDeliveredKeeps DEF Delivered!DeliveredNext
<1>12. QED
  BY <1>1, <1>2, <1>3, <1>4, <1>5, <1>6, <1>7, <1>8, <1>9, <1>10, <1>11
     DEF FlowNext, FlowSource, FlowLoop, FlowWorker

LEMMA FlowStutter ==
    ASSUME FlowIInv, UNCHANGED flowVars
    PROVE  FlowIInv' /\ UNCHANGED Delivered!deliveredVars
<1>1. UNCHANGED <<tip, delivery, at, walkEnd, listed, hand, channel, replayQueue, failed,
                  replayDropped, lastReplayed>>
  BY DEF flowVars, configVars, sourceVars, engineVars, replayVars
<1>2. tip' \in Nat
  BY <1>1 DEF FlowIInv, LineTypes
<1>3. QED
  BY <1>1, <1>2, LineRests, RestsAreStutters

(* Whatever the depths of the queues, the speed of the worker and the length *)
(* of the chain, as long as the node has every block that it names: the      *)
(* pipeline is an implementation of DeliveredBlocks, so every block of the   *)
(* feed is scored at most once and in order, or known to have been missed    *)
(* (ingest.rs 622-925, engine.rs 1447-1512).                                 *)
THEOREM FlowAccountsForBlocks ==
    ASSUME "null" \notin FlowFaults
    PROVE  FlowSpec => BlocksAreAccountedFor
<1>1. FlowInit => FlowIInv /\ Delivered!DeliveredInit
  BY FlowInitHolds
<1>2. FlowIInv /\ [FlowNext]_flowVars =>
          FlowIInv' /\ [Delivered!DeliveredNext]_(Delivered!deliveredVars)
  BY FlowStep, FlowStutter
<1>3. QED
  BY <1>1, <1>2, PTL DEF FlowSpec, BlocksAreAccountedFor, Delivered!DeliveredSpec

-----------------------------------------------------------------------------
(***************************************************************************)
(* The types of the flow                                                   *)
(***************************************************************************)

BlockEvents == [kind : {"block"}, block : FlowBlocks, txs : 0 .. BlockTxs]

SourceTypes ==
    /\ tip \in FlowBlocks /\ delivery \in {"chain", "relay"} /\ feed \in Feeds
    /\ at \in 0 .. LastBlock /\ walkEnd \in 0 .. LastBlock
    /\ listed \subseteq FlowBlocks
    /\ ring \in 0 .. RingCapacity

QueueTypes ==
    /\ hand \in [Sources -> Seq(Events)]
    /\ channel \in Seq(Events) /\ Len(channel) <= ChannelDepth
    /\ replayQueue \in Seq(BlockEvents) /\ Len(replayQueue) <= ReplayDepth

EngineTypes ==
    /\ onBlock \in {"none", "inventory", "discovery"}
    /\ evaluating \in 0 .. StrategyConcurrency
    /\ failed \subseteq FlowBlocks /\ replayDropped \subseteq FlowBlocks

WorkerTypes ==
    /\ scoring \in [block : 0 .. LastBlock,
                    step : {"recv", "persist", "match", "score", "reconcile"},
                    left : 0 .. BlockTxs, running : 0 .. RelayTxConcurrency]
    /\ lastReplayed \in 0 .. LastBlock

FlowTypes == SourceTypes /\ QueueTypes /\ EngineTypes /\ WorkerTypes

LEMMA FlowBounds ==
    /\ LastBlock \in Nat \ {0} /\ ChannelDepth \in Nat \ {0} /\ ReplayDepth \in Nat \ {0}
    /\ BlockTxs \in Nat \ {0} /\ HydrationBatch \in Nat \ {0} /\ RingCapacity \in Nat \ {0}
    /\ StrategyConcurrency \in Nat \ {0} /\ RelayTxConcurrency \in Nat \ {0}
    /\ 0 \in 0 .. LastBlock /\ FlowBlocks \subseteq 0 .. LastBlock
BY FlowAssumption DEF FlowBlocks

(* What the sources send are events, and those of blocks have their numbers. *)
LEMMA EventsAre ==
    /\ \A kind \in {"head", "tx", "hint", "bid"} : Event(kind) \in Events
    /\ \A n \in FlowBlocks, txs \in 0 .. BlockTxs : BlockEvent(n, txs) \in Events
    /\ \A e \in Events : e.kind = "block" => e \in BlockEvents
    /\ \A e \in BlockEvents : e.block \in FlowBlocks /\ e.txs \in 0 .. BlockTxs
BY DEF Events, Event, BlockEvent, BlockEvents

(* A source whose hand is empty takes up a few events. *)
LEMMA HandKeeps ==
    ASSUME QueueTypes, NEW s \in Sources, NEW events \in Seq(Events), Holds(s, events),
           UNCHANGED <<channel, replayQueue>>
    PROVE  QueueTypes'
BY DEF QueueTypes, Holds

(* The loop takes the head of the channel. *)
LEMMA ReceiveKeeps ==
    ASSUME QueueTypes, channel # <<>>, Receive, UNCHANGED <<hand, replayQueue>>
    PROVE  QueueTypes'
<1>1. channel' \in Seq(Events) /\ Len(channel') <= Len(channel)
      /\ Len(channel') \in Nat /\ Len(channel) \in Nat
  BY DEF QueueTypes, Receive
<1>2. QED
  BY <1>1, FlowBounds DEF QueueTypes

LEMMA SourcesKeepTypes ==
    ASSUME FlowTypes, FlowSource PROVE FlowTypes'
<1> USE DEF configVars, sourceVars, engineVars, replayVars
<1>1. CASE ChainGrows
  <2>1. tip' \in FlowBlocks
    BY <1>1, FlowBounds DEF ChainGrows, FlowTypes, SourceTypes, FlowBlocks
  <2>2. QED
    BY <1>1, <2>1 DEF ChainGrows, FlowTypes, SourceTypes, QueueTypes, EngineTypes, WorkerTypes
<1>2. ASSUME NEW s \in Sources, PushEvent(s) PROVE FlowTypes'
  <2>1. /\ hand[s] \in Seq(Events) /\ hand[s] # <<>> /\ channel \in Seq(Events)
        /\ Len(channel) < ChannelDepth
        /\ channel' = Append(channel, Head(hand[s])) /\ hand' = [hand EXCEPT ![s] = Tail(@)]
    BY <1>2 DEF PushEvent, FlowTypes, QueueTypes
  <2>2. Head(hand[s]) \in Events /\ Tail(hand[s]) \in Seq(Events)
    BY <2>1
  <2>3. channel' \in Seq(Events) /\ Len(channel') <= ChannelDepth
    BY <2>1, <2>2, FlowBounds
  <2>4. hand' \in [Sources -> Seq(Events)]
    BY <2>1, <2>2 DEF FlowTypes, QueueTypes
  <2>5. QED
    BY <1>2, <2>3, <2>4 DEF PushEvent, FlowTypes, SourceTypes, QueueTypes, EngineTypes, WorkerTypes
<1>3. CASE HeadArrives
  <2>1. <<Event("head")>> \in Seq(Events) /\ "heads" \in Sources
    BY EventsAre DEF Sources
  <2>2. QueueTypes'
    BY <1>3, <2>1, HandKeeps DEF HeadArrives, FlowTypes
  <2>3. QED
    BY <1>3, <2>2 DEF HeadArrives, FlowTypes, SourceTypes, EngineTypes, WorkerTypes
<1>4. ASSUME NEW kind, NEW e \in {"tx", "hint", "bid"}, Streamed(kind, Event(e)) PROVE FlowTypes'
  <2>1. <<Event(e)>> \in Seq(Events) /\ "feed" \in Sources
    BY EventsAre DEF Sources
  <2>2. QueueTypes'
    BY <1>4, <2>1, HandKeeps DEF Streamed, FlowTypes
  <2>3. QED
    BY <1>4, <2>2 DEF Streamed, FlowTypes, SourceTypes, EngineTypes, WorkerTypes
<1>5. CASE HashStreamed
  <2>1. ring' \in 0 .. RingCapacity
    BY <1>5, FlowBounds DEF HashStreamed, FlowTypes, SourceTypes
  <2>2. QED
    BY <1>5, <2>1 DEF HashStreamed, FlowTypes, SourceTypes, QueueTypes, EngineTypes, WorkerTypes
<1>6. CASE HydrateBatch
  <2> DEFINE take == IF ring < HydrationBatch THEN ring ELSE HydrationBatch
  <2>1. take \in 0 .. ring /\ ring' = ring - take /\ ring \in 0 .. RingCapacity
    BY <1>6, FlowBounds DEF HydrateBatch, FlowTypes, SourceTypes
  <2>2. PICK found \in 0 .. take : Holds("feed", [i \in 1 .. found |-> Event("tx")])
    BY <1>6 DEF HydrateBatch
  <2>3. found \in Nat
    BY <2>1, <2>2
  <2>4. [i \in 1 .. found |-> Event("tx")] \in Seq(Events) /\ "feed" \in Sources
    BY <2>3, EventsAre DEF Sources
  <2>5. QueueTypes'
    BY <1>6, <2>2, <2>4, HandKeeps DEF HydrateBatch, FlowTypes
  <2>6. ring' \in 0 .. RingCapacity
    BY <2>1, FlowBounds
  <2>7. QED
    BY <1>6, <2>5, <2>6 DEF HydrateBatch, FlowTypes, SourceTypes, EngineTypes, WorkerTypes
<1>7. CASE PollHead
  <2>1. PICK head \in 1 .. tip : /\ head > walkEnd /\ walkEnd' = head
                                 /\ at' = IF walkEnd = 0 THEN head ELSE at
    BY <1>7 DEF PollHead
  <2>2. head \in 0 .. LastBlock
    BY <2>1, FlowBounds DEF FlowTypes, SourceTypes, FlowBlocks
  <2>3. QED
    BY <1>7, <2>1, <2>2 DEF PollHead, FlowTypes, SourceTypes, QueueTypes, EngineTypes, WorkerTypes
<1>8. CASE WalkBlock
  <2>1. at + 1 \in FlowBlocks /\ at + 1 \in 0 .. LastBlock
    BY <1>8, FlowBounds DEF WalkBlock, FlowTypes, SourceTypes, FlowBlocks
  <2>2. <<BlockEvent(at + 1, BlockTxs)>> \in Seq(Events) /\ "blocks" \in Sources
    BY <2>1, EventsAre, FlowBounds DEF Sources
  <2>3. hand' \in [Sources -> Seq(Events)] /\ failed' \subseteq FlowBlocks
    BY <1>8, <2>1, <2>2 DEF WalkBlock, FlowTypes, QueueTypes, EngineTypes
  <2>4. QED
    BY <1>8, <2>1, <2>3
    DEF WalkBlock, WalkedTo, FlowTypes, SourceTypes, QueueTypes, EngineTypes, WorkerTypes
<1>9. CASE PollTraces
  <2>1. listed' \subseteq FlowBlocks
    BY <1>9, FlowBounds DEF PollTraces, FlowTypes, SourceTypes, FlowBlocks
  <2>2. QED
    BY <1>9, <2>1 DEF PollTraces, FlowTypes, SourceTypes, QueueTypes, EngineTypes, WorkerTypes
<1>10. CASE FetchDelivered
  <2>1. PICK n \in listed : /\ at' = n /\ walkEnd' = n /\ listed' = listed \ {n}
                            /\ \E txs \in {BlockTxs} \cup {0 : f \in FlowFaults} :
                                  Holds("blocks", <<BlockEvent(n, txs)>>)
    BY <1>10 DEF FetchDelivered
  <2>2. PICK txs \in {BlockTxs} \cup {0 : f \in FlowFaults} :
            Holds("blocks", <<BlockEvent(n, txs)>>)
    BY <2>1
  <2>3. n \in FlowBlocks /\ n \in 0 .. LastBlock /\ txs \in 0 .. BlockTxs
    BY <2>1, <2>2, FlowBounds DEF FlowTypes, SourceTypes
  <2>4. <<BlockEvent(n, txs)>> \in Seq(Events) /\ "blocks" \in Sources
    BY <2>3, EventsAre DEF Sources
  <2>5. QueueTypes'
    BY <1>10, <2>2, <2>4, HandKeeps DEF FetchDelivered, FlowTypes
  <2>6. QED
    BY <1>10, <2>1, <2>3, <2>5 DEF FetchDelivered, FlowTypes, SourceTypes, EngineTypes, WorkerTypes
<1>11. QED
  BY <1>1, <1>2, <1>3, <1>4, <1>5, <1>6, <1>7, <1>8, <1>9, <1>10
  DEF FlowSource, HintStreamed, TxStreamed, BidPolled

LEMMA LoopKeepsTypes ==
    ASSUME FlowTypes, FlowLoop \/ EvaluationEnds PROVE FlowTypes'
<1> USE DEF configVars, sourceVars, engineVars, replayVars
<1>1. CASE OnHead \/ OnBid
  <2>1. QueueTypes'
    BY <1>1, ReceiveKeeps DEF OnHead, OnBid, NextIs, FlowTypes
  <2>2. onBlock' \in {"none", "inventory", "discovery"}
    BY <1>1 DEF OnHead, OnBid, AfterInventory, FlowTypes, EngineTypes
  <2>3. QED
    BY <1>1, <2>1, <2>2 DEF OnHead, OnBid, FlowTypes, SourceTypes, EngineTypes, WorkerTypes
<1>2. CASE OnPending \/ OnHint
  <2>1. QueueTypes'
    BY <1>2, ReceiveKeeps DEF OnPending, OnHint, NextIs, FlowTypes
  <2>2. evaluating' \in 0 .. StrategyConcurrency
    BY <1>2, FlowBounds DEF OnPending, OnHint, EvaluateTx, FlowTypes, EngineTypes
  <2>3. QED
    BY <1>2, <2>1, <2>2 DEF OnPending, OnHint, FlowTypes, SourceTypes, EngineTypes, WorkerTypes
<1>3. CASE InventoryRefreshed \/ PoolsDiscovered
  BY <1>3 DEF InventoryRefreshed, PoolsDiscovered, AfterInventory, FlowTypes, SourceTypes, QueueTypes,
              EngineTypes, WorkerTypes
<1>4. CASE EvaluationEnds
  <2>1. evaluating' \in 0 .. StrategyConcurrency
    BY <1>4, FlowBounds DEF EvaluationEnds, FlowTypes, EngineTypes
  <2>2. QED
    BY <1>4, <2>1 DEF EvaluationEnds, FlowTypes, SourceTypes, QueueTypes, EngineTypes, WorkerTypes
<1>5. CASE OnDelivered
  <2>1. channel \in Seq(Events) /\ channel # <<>> /\ Head(channel).kind = "block"
    BY <1>5 DEF OnDelivered, NextIs, FlowTypes, QueueTypes
  <2>2. Head(channel) \in BlockEvents /\ Head(channel).block \in FlowBlocks
    BY <2>1, EventsAre
  <2>3. channel' \in Seq(Events) /\ Len(channel') <= ChannelDepth
    <3>1. Len(channel') <= Len(channel) /\ Len(channel') \in Nat /\ Len(channel) \in Nat
          /\ channel' \in Seq(Events)
      BY <1>5, <2>1 DEF OnDelivered, Receive
    <3>2. QED
      BY <3>1, FlowBounds DEF FlowTypes, QueueTypes
  <2>4. replayQueue' \in Seq(BlockEvents) /\ Len(replayQueue') <= ReplayDepth
    <3>1. replayQueue \in Seq(BlockEvents) /\ Len(replayQueue) <= ReplayDepth
      BY DEF FlowTypes, QueueTypes
    <3>2. CASE Len(replayQueue) < ReplayDepth /\ replayQueue' = Append(replayQueue, Head(channel))
      <4> DEFINE e == Head(channel)
      <4>1. replayQueue' = Append(replayQueue, e) /\ e \in BlockEvents
        BY <2>2, <3>2
      <4> HIDE DEF e
      <4>2. replayQueue' \in Seq(BlockEvents) /\ Len(replayQueue') = Len(replayQueue) + 1
        BY <3>1, <4>1
      <4>3. Len(replayQueue) \in Nat
        BY <3>1
      <4>4. QED
        BY <3>2, <4>2, <4>3, FlowBounds
    <3>3. CASE replayQueue' = replayQueue
      BY <3>1, <3>3
    <3>4. QED
      BY <1>5, <3>2, <3>3 DEF OnDelivered, EnqueueReplay
  <2>5. replayDropped' \subseteq FlowBlocks
    BY <1>5, <2>2 DEF OnDelivered, EnqueueReplay, FlowTypes, EngineTypes
  <2>6. QED
    BY <1>5, <2>3, <2>4, <2>5
    DEF OnDelivered, FlowTypes, SourceTypes, QueueTypes, EngineTypes, WorkerTypes
<1>6. QED
  BY <1>1, <1>2, <1>3, <1>4, <1>5 DEF FlowLoop

LEMMA WorkerKeepsTypes ==
    ASSUME FlowTypes, FlowWorker PROVE FlowTypes'
<1> USE DEF configVars, sourceVars, engineVars, replayVars
<1>1. FlowTypes' <=> QueueTypes' /\ WorkerTypes'
  BY DEF FlowTypes, SourceTypes, EngineTypes, FlowWorker, TakeDelivered, BlockPersisted, BlockMatched,
         ScoreStarts, ScoreEnds, ScoringDone, BlockReconciled, WorkNext, Working
<1>2. CASE TakeDelivered
  <2>1. /\ replayQueue \in Seq(BlockEvents) /\ replayQueue # <<>>
        /\ replayQueue' = Tail(replayQueue) /\ Len(replayQueue) <= ReplayDepth
    BY <1>2 DEF TakeDelivered, FlowTypes, QueueTypes
  <2>2. Head(replayQueue) \in BlockEvents
    BY <2>1
  <2>3. Head(replayQueue).block \in 0 .. LastBlock /\ Head(replayQueue).txs \in 0 .. BlockTxs
    BY <2>2, EventsAre, FlowBounds
  <2>4. replayQueue' \in Seq(BlockEvents) /\ Len(replayQueue') <= ReplayDepth
    BY <2>1, FlowBounds
  <2>5. QueueTypes'
    BY <1>2, <2>4 DEF TakeDelivered, Working, FlowTypes, QueueTypes
  <2>6. WorkerTypes'
    BY <1>2, <2>3, FlowBounds DEF TakeDelivered, WorkerTypes
  <2>7. QED
    BY <1>1, <2>5, <2>6
<1>3. CASE BlockPersisted \/ BlockMatched \/ ScoreStarts \/ ScoreEnds \/ ScoringDone \/ BlockReconciled
  <2>1. QueueTypes'
    BY <1>3 DEF BlockPersisted, BlockMatched, ScoreStarts, ScoreEnds, ScoringDone, BlockReconciled,
                WorkNext, Working, FlowTypes, QueueTypes
  <2>2. WorkerTypes'
    <3> USE FlowBounds DEF WorkNext, Working, FlowTypes, WorkerTypes
    <3>1. CASE BlockPersisted \/ BlockMatched \/ ScoringDone
      BY <3>1 DEF BlockPersisted, BlockMatched, ScoringDone
    <3>2. CASE ScoreStarts
      <4>1. /\ scoring' = [scoring EXCEPT !.left = scoring.left - 1, !.running = scoring.running + 1]
            /\ scoring.left > 0 /\ scoring.running < RelayTxConcurrency
            /\ UNCHANGED lastReplayed
        BY <3>2 DEF ScoreStarts
      <4>2. scoring.left - 1 \in 0 .. BlockTxs /\ scoring.running + 1 \in 0 .. RelayTxConcurrency
        BY <4>1
      <4>3. QED
        BY <4>1, <4>2
    <3>3. CASE ScoreEnds
      BY <3>3 DEF ScoreEnds
    <3>4. CASE BlockReconciled
      BY <3>4 DEF BlockReconciled, NoWork
    <3>5. QED
      BY <1>3, <3>1, <3>2, <3>3, <3>4
  <2>3. QED
    BY <1>1, <2>1, <2>2
<1>4. QED
  BY <1>2, <1>3 DEF FlowWorker

(* The types of the flow, among them that no queue outgrows its bound and     *)
(* that only blocks reach the replay (ingest.rs 622-925, engine.rs            *)
(* 1447-1512).                                                              *)
THEOREM FlowTypesHold == FlowSpec => []FlowTypeOK
<1>1. FlowInit => FlowTypes
  <2> SUFFICES ASSUME FlowInit PROVE FlowTypes
    OBVIOUS
  <2>1. hand \in [Sources -> Seq(Events)] /\ channel \in Seq(Events) /\ Len(channel) = 0
        /\ replayQueue \in Seq(BlockEvents) /\ Len(replayQueue) = 0
    BY DEF FlowInit
  <2>2. QueueTypes
    BY <2>1, FlowBounds DEF QueueTypes
  <2>3. SourceTypes
    BY FlowBounds DEF FlowInit, SourceTypes, FlowBlocks
  <2>4. EngineTypes /\ WorkerTypes
    BY FlowBounds DEF FlowInit, EngineTypes, WorkerTypes, NoWork
  <2>5. QED
    BY <2>2, <2>3, <2>4 DEF FlowTypes
<1>2. FlowTypes /\ [FlowNext]_flowVars => FlowTypes'
  <2>1. FlowTypes /\ UNCHANGED flowVars => FlowTypes'
    BY DEF FlowTypes, SourceTypes, QueueTypes, EngineTypes, WorkerTypes, flowVars, configVars,
           sourceVars, engineVars, replayVars
  <2>2. QED
    BY <2>1, SourcesKeepTypes, LoopKeepsTypes, WorkerKeepsTypes DEF FlowNext
<1>3. FlowTypes => FlowTypeOK
  <2> SUFFICES ASSUME FlowTypes PROVE FlowTypeOK
    OBVIOUS
  <2>1. \A s \in Sources : Range(hand[s]) \subseteq Events
    BY DEF FlowTypes, QueueTypes, Range
  <2>2. Range(channel) \subseteq Events
    BY DEF FlowTypes, QueueTypes, Range
  <2>3. QED
    BY <2>1, <2>2
    DEF FlowTypes, SourceTypes, QueueTypes, EngineTypes, WorkerTypes, FlowTypeOK, FlowBlocks
<1>4. QED
  BY <1>1, <1>2, <1>3, PTL DEF FlowSpec
=============================================================================
