-------------------------- MODULE ExecutionProofs --------------------------
(***************************************************************************)
(* What makes and executes a payload: the search for cycles that prices it, *)
(* the raw lane, the fork that simulates it and the contract that settles it. *)
(***************************************************************************)
EXTENDS RawSubmission, Simulation, Executor, Routing, FiniteSetTheorems, SequenceTheorems,
        WellFoundedInduction, TLAPS

-----------------------------------------------------------------------------
(***************************************************************************)
(* The raw lane signs no contended nonce twice, for any number of payloads  *)
(* and legs, whatever answers are lost and however often the process stops. *)
(***************************************************************************)

LegsLimit == Cardinality(RawBundles) * RawLegs

RawTypes ==
    /\ rawHead \in Nat /\ mined \in RawNonces /\ rawNonce \in Nat /\ shutUntil \in Nat
    /\ pool \subseteq sentLegs /\ flying \subseteq sentLegs /\ sentLegs \subseteq AllLegs
    /\ first \in [RawBundles -> Nat]
    /\ target \in [RawBundles -> 0 .. rawHead + 1]
    /\ reservation \in [RawBundles -> {"none", "reserved", "accepted", "recovery_blocked",
                                       "expired"}]
    /\ sending \in [bundle : RawBundles \cup {NoBundle}, leg : Nat, ok : BOOLEAN]

(* What has left the process, or is about to, has a reservation, and a         *)
(* reservation is retired only once its target has passed.                  *)
ReservationInv ==
    /\ \A b \in RawBundles : reservation[b] # "none" => first[b] + RawLegs <= LegsLimit
    /\ \A b \in RawBundles : reservation[b] = "expired" => Passed(b)
    /\ \A leg \in sentLegs : reservation[leg.bundle] # "none"
    /\ sending # Idle => /\ sending.bundle \in RawBundles
                         /\ reservation[sending.bundle] # "none"

Contended(b) == reservation[b] # "none" /\ ~Passed(b)

(* A contended range lies below the next nonce, or keeps the lane shut ... *)
CoverInv ==
    \A b \in RawBundles : Contended(b) =>
        first[b] + RawLegs <= rawNonce \/ target[b] <= shutUntil

(* ... and so no other range is taken that meets it. *)
DisjointInv ==
    \A b, c \in RawBundles : b # c /\ Contended(b) /\ Contended(c) =>
        first[b] + RawLegs <= first[c] \/ first[c] + RawLegs <= first[b]

RawIInv == RawTypes /\ ReservationInv /\ CoverInv /\ DisjointInv

-----------------------------------------------------------------------------
(* Numbers *)

LEMMA RawConstantTypes ==
    /\ RawLegs \in Nat /\ RawLegs >= 1 /\ RawLastBlock \in Nat /\ LegsLimit \in Nat
    /\ RawNonces = 0 .. LegsLimit /\ NoBundle \notin RawBundles
<1>1. Cardinality(RawBundles) \in Nat /\ RawLegs \in Nat
  BY RawAssumption, FS_CardinalityType
<1>2. \A m, n \in Nat : m * n \in Nat
  OBVIOUS
<1>3. LegsLimit \in Nat
  BY <1>1, <1>2 DEF LegsLimit
<1>4. QED
  BY <1>3, RawAssumption DEF RawNonces, LegsLimit

(* A bounded set of naturals has a maximum. *)
LEMMA MaxOfBounded ==
    ASSUME NEW n \in Nat, NEW S \in SUBSET (0 .. n), S # {}
    PROVE  Max(S) \in S /\ \A s \in S : s <= Max(S)
<1> DEFINE gaps    == {n - s : s \in S}
           smaller == {p \in Nat \X Nat : p[1] < p[2]}
<1>1. gaps \subseteq Nat /\ gaps # {}
  <2>1. \A s \in S : n - s \in Nat
    OBVIOUS
  <2>2. PICK s \in S : TRUE
    OBVIOUS
  <2>3. n - s \in gaps
    OBVIOUS
  <2>4. QED
    BY <2>1, <2>3
<1>2. IsWellFoundedOn(smaller, Nat)
  BY NatLessThanWellFounded DEF OpToRel
<1>3. PICK g \in gaps : \A h \in gaps : <<h, g>> \notin smaller
  <2> HIDE DEF smaller, gaps
  <2>1. QED
    BY <1>1, <1>2, WFMin
<1>4. PICK m \in S : g = n - m
  OBVIOUS
<1>5. ASSUME NEW s \in S PROVE s <= m
  <2>1. n - s \in gaps /\ n - s \in Nat /\ g \in Nat
    BY <1>1, <1>4
  <2>2. ~(n - s < g)
    BY <1>3, <2>1
  <2>3. s \in Nat /\ m \in Nat
    OBVIOUS
  <2>4. QED
    BY <1>4, <2>2, <2>3
<1>6. \E x \in S : \A y \in S : x >= y
  <2>1. \A s \in S : s \in Nat
    OBVIOUS
  <2>2. QED
    BY <1>5, <2>1
<1>7. Max(S) \in S /\ \A s \in S : Max(S) >= s
  BY <1>6 DEF Max
<1>8. \A s \in S : s \in Nat
  OBVIOUS
<1>9. QED
  BY <1>7, <1>8

(* A nonce that is read again never goes back. *)
LEMMA RefreshNeverFalls ==
    ASSUME RawTypes, NEW n \in Nat, NEW m \in RefreshedNonces(n)
    PROVE  m \in Nat /\ n <= m
<1> DEFINE S == {k \in RawNonces : k >= mined
                    /\ \A j \in mined .. k - 1 : \E tx \in pool : PoolNonce(tx) = j}
<1>1. mined \in 0 .. LegsLimit /\ LegsLimit \in Nat /\ S \in SUBSET (0 .. LegsLimit)
  BY RawConstantTypes DEF RawTypes
<1>2. mined \in S
  <2>1. mined .. mined - 1 = {} /\ mined >= mined
    BY <1>1
  <2>2. QED
    BY <2>1 DEF RawTypes
<1>3. Max(S) \in S
  BY <1>1, <1>2, MaxOfBounded
<1>4. PendingCount \in Nat
  BY <1>1, <1>3 DEF PendingCount
<1>5. m = (IF PendingCount > n THEN PendingCount ELSE n) \/ m = n
  BY DEF RefreshedNonces
<1>6. QED
  BY <1>4, <1>5

-----------------------------------------------------------------------------
(* The steps *)

(* The legs of a payload have the nonces of its range. *)
LEMMA NonceRange ==
    ASSUME RawTypes, NEW leg \in AllLegs
    PROVE  /\ leg.bundle \in RawBundles /\ leg.bundle # NoBundle
           /\ NonceOf(leg) \in Nat
           /\ first[leg.bundle] <= NonceOf(leg) /\ NonceOf(leg) < first[leg.bundle] + RawLegs
<1>1. PICK b \in RawBundles, i \in 0 .. RawLegs - 1 : leg = [bundle |-> b, index |-> i]
  BY DEF AllLegs, LegsOf
<1>2. first[b] \in Nat /\ i \in Nat /\ RawLegs \in Nat /\ i < RawLegs
  BY RawConstantTypes DEF RawTypes
<1>3. QED
  BY <1>1, <1>2, RawConstantTypes DEF NonceOf

(* A later head admits every block the earlier one did. *)
LEMMA WiderRange ==
    ASSUME NEW low \in Nat, NEW high \in Nat, low <= high
    PROVE  0 .. low + 1 \subseteq 0 .. high + 1
  OBVIOUS

(* Steps that neither sign nor retire anything. *)
LEMMA ChainKeeps ==
    ASSUME RawIInv,
           UNCHANGED <<rawRows, inventoryVars>>, rawHead' \in Nat, rawHead' >= rawHead,
           mined' \in RawNonces, pool' \subseteq sentLegs', flying' \subseteq sentLegs',
           sentLegs' \subseteq AllLegs,
           \A leg \in sentLegs' : reservation[leg.bundle] # "none",
           sending' \in [bundle : RawBundles \cup {NoBundle}, leg : Nat, ok : BOOLEAN],
           sending' # Idle => sending'.bundle \in RawBundles /\ reservation[sending'.bundle] # "none"
    PROVE  RawIInv'
<1> USE DEF RawIInv
<1>1. UNCHANGED <<first, target, reservation, recorded, rawNonce, shutUntil>>
  BY DEF rawRows, inventoryVars
<1>2. \A b \in RawBundles : target[b] \in Nat /\ rawHead \in Nat
  BY RawConstantTypes DEF RawTypes
<1>3. \A b \in RawBundles : Passed(b) => Passed(b)'
  BY <1>1, <1>2 DEF Passed
<1>4. \A b \in RawBundles : Contended(b)' => Contended(b)
  BY <1>1, <1>3 DEF Contended
<1>5. RawTypes'
  <2>1. 0 .. rawHead + 1 \subseteq 0 .. rawHead' + 1
    <3>1. rawHead \in Nat /\ rawHead' \in Nat /\ rawHead <= rawHead'
      BY DEF RawTypes
    <3>2. QED
      BY <3>1, WiderRange
  <2>2. target' \in [RawBundles -> 0 .. rawHead' + 1]
    BY <1>1, <2>1 DEF RawTypes
  <2>3. QED
    BY <1>1, <2>2 DEF RawTypes
<1>6. ReservationInv'
  BY <1>1, <1>3 DEF ReservationInv
<1>7. CoverInv' /\ DisjointInv'
  BY <1>1, <1>4 DEF CoverInv, DisjointInv
<1>8. QED
  BY <1>5, <1>6, <1>7

LEMMA SequencerPreserves ==
    ASSUME RawIInv, (\E leg \in AllLegs : LateArrival(leg)) \/ Mine \/ RawBlock
    PROVE  RawIInv'
<1> USE DEF RawIInv
<1>1. CASE \E leg \in AllLegs : LateArrival(leg)
  <2>1. PICK leg \in AllLegs : LateArrival(leg)
    BY <1>1
  <2>2. /\ leg \in flying /\ flying' = flying \ {leg} /\ pool' = Arrives(leg, pool)
        /\ UNCHANGED <<rawHead, mined, rawRows, inventoryVars, sending, sentLegs>>
    BY <2>1 DEF LateArrival, rawChain
  <2>3. pool' \subseteq sentLegs
    BY <2>2 DEF Arrives, RawTypes
  <2>4. QED
    BY <2>2, <2>3, ChainKeeps DEF RawTypes, ReservationInv
<1>2. CASE Mine
  <2>1. PICK tx \in pool : PoolNonce(tx) = mined /\ mined' = mined + 1 /\ pool' = pool \ {tx}
    BY <1>2 DEF Mine
  <2>2. UNCHANGED <<rawHead, flying, rawRows, inventoryVars, sending, sentLegs>>
    BY <1>2 DEF Mine
  <2>3. tx \in AllLegs /\ tx \in sentLegs
    BY DEF RawTypes
  <2>4. /\ tx.bundle \in RawBundles /\ tx.bundle # NoBundle /\ NonceOf(tx) \in Nat
        /\ NonceOf(tx) < first[tx.bundle] + RawLegs
    BY <2>3, NonceRange
  <2>5. first[tx.bundle] + RawLegs <= LegsLimit /\ first[tx.bundle] \in Nat
    BY <2>3, <2>4 DEF ReservationInv, RawTypes
  <2>6. mined' \in RawNonces
    <3>1. mined = NonceOf(tx)
      BY <2>1, <2>4 DEF PoolNonce
    <3>2. QED
      BY <2>1, <2>4, <2>5, <3>1, RawConstantTypes
  <2>7. QED
    BY <2>1, <2>2, <2>6, ChainKeeps DEF RawTypes, ReservationInv
<1>3. CASE RawBlock
  <2>1. rawHead' = rawHead + 1 /\ UNCHANGED <<mined, pool, flying, rawRows, inventoryVars,
                                             sending, sentLegs>>
    BY <1>3 DEF RawBlock
  <2>2. rawHead \in Nat /\ rawHead' \in Nat /\ rawHead' >= rawHead
    BY <2>1 DEF RawTypes
  <2>3. QED
    BY <2>1, <2>2, ChainKeeps DEF RawTypes, ReservationInv
<1>4. QED
  BY <1>1, <1>2, <1>3

LEMMA SendLegPreserves ==
    ASSUME RawIInv, SendLeg
    PROVE  RawIInv'
<1> USE DEF RawIInv
<1> DEFINE leg == [bundle |-> sending.bundle, index |-> sending.leg]
<1>1. /\ sending # Idle /\ sending.leg < RawLegs /\ sentLegs' = sentLegs \cup {leg}
      /\ UNCHANGED <<rawHead, mined, rawRows, inventoryVars>>
  BY DEF SendLeg, rawChain
<1>2. sending.bundle \in RawBundles /\ reservation[sending.bundle] # "none" /\ sending.leg \in Nat
  BY <1>1 DEF ReservationInv, RawTypes
<1>3. leg \in AllLegs
  <2>1. sending.leg \in 0 .. RawLegs - 1
    BY <1>1, <1>2, RawConstantTypes
  <2>2. QED
    BY <1>2, <2>1 DEF AllLegs, LegsOf
<1>4. pool' \subseteq sentLegs' /\ flying' \subseteq sentLegs'
  <2>1. CASE pool' = Arrives(leg, pool) /\ UNCHANGED flying
    BY <1>1, <2>1 DEF Arrives, RawTypes
  <2>2. CASE flying' \in {flying, flying \cup {leg}} /\ UNCHANGED pool
    BY <1>1, <2>2 DEF RawTypes
  <2>3. QED
    BY <2>1, <2>2 DEF SendLeg
<1>5. /\ sending' \in [bundle : RawBundles \cup {NoBundle}, leg : Nat, ok : BOOLEAN]
      /\ sending'.bundle = sending.bundle
  <2>1. PICK ok \in BOOLEAN : sending' = [[sending EXCEPT !.leg = @ + 1] EXCEPT !.ok = ok]
    <3>1. CASE sending' = [sending EXCEPT !.leg = @ + 1, !.ok = @ /\ leg \in pool']
      <4>1. sending.ok \in BOOLEAN
        BY DEF RawTypes
      <4>2. (sending.ok /\ leg \in pool') \in BOOLEAN
        OBVIOUS
      <4>3. sending' = [[sending EXCEPT !.leg = @ + 1] EXCEPT !.ok = sending.ok /\ leg \in pool']
        BY <3>1 DEF RawTypes
      <4>4. QED
        BY <4>2, <4>3
    <3>2. CASE sending' = [sending EXCEPT !.leg = @ + 1, !.ok = FALSE]
      BY <3>2
    <3>3. QED
      BY <3>1, <3>2 DEF SendLeg
  <2>2. sending \in [bundle : RawBundles \cup {NoBundle}, leg : Nat, ok : BOOLEAN]
        /\ sending.leg + 1 \in Nat
    BY <1>2 DEF RawTypes
  <2>3. QED
    BY <2>1, <2>2
<1>6. \A tx \in sentLegs' : reservation[tx.bundle] # "none"
  BY <1>1, <1>2 DEF ReservationInv
<1>7. sentLegs' \subseteq AllLegs
  BY <1>1, <1>3 DEF RawTypes
<1>8. mined' \in RawNonces /\ rawHead' \in Nat /\ rawHead' >= rawHead
  BY <1>1 DEF RawTypes
<1> HIDE DEF leg
<1>9. QED
  BY <1>1, <1>2, <1>4, <1>5, <1>6, <1>7, <1>8, ChainKeeps

LEMMA ReserveRawPreserves ==
    ASSUME RawIInv, NEW b \in RawBundles, ReserveRaw(b)
    PROVE  RawIInv'
<1> USE DEF RawIInv
<1>1. PICK nonce \in RefreshedNonces(rawNonce) :
          /\ nonce + RawLegs \in RawNonces
          /\ first' = [first EXCEPT ![b] = nonce] /\ rawNonce' = nonce + RawLegs
  BY DEF ReserveRaw
<1>2. /\ reservation[b] = "none" /\ rawHead > shutUntil /\ sending = Idle
      /\ target' = [target EXCEPT ![b] = rawHead + 1]
      /\ reservation' = [reservation EXCEPT ![b] = "reserved"]
      /\ sending' = [bundle |-> b, leg |-> 0, ok |-> TRUE]
      /\ UNCHANGED <<rawHead, mined, pool, flying, shutUntil, sentLegs>>
  BY DEF ReserveRaw, rawChain
<1>3. nonce \in Nat /\ rawNonce <= nonce
  BY <1>1, RefreshNeverFalls DEF RawTypes
<1>4. /\ nonce + RawLegs <= LegsLimit /\ rawNonce' \in Nat /\ rawHead \in Nat /\ shutUntil \in Nat
      /\ RawLegs \in Nat /\ rawHead + 1 \in 0 .. rawHead + 1
  BY <1>1, <1>3, RawConstantTypes DEF RawTypes
<1>5. RawTypes'
  <2>1. /\ first' \in [RawBundles -> Nat] /\ target' \in [RawBundles -> 0 .. rawHead' + 1]
        /\ reservation' \in [RawBundles -> {"none", "reserved", "accepted", "recovery_blocked",
                                            "expired"}]
    BY <1>1, <1>2, <1>3, <1>4 DEF RawTypes
  <2>2. sending' \in [bundle : RawBundles \cup {NoBundle}, leg : Nat, ok : BOOLEAN]
    BY <1>2
  <2>3. QED
    BY <1>2, <1>4, <2>1, <2>2 DEF RawTypes
<1>6. /\ first'[b] = nonce /\ target'[b] = rawHead + 1 /\ reservation'[b] = "reserved"
      /\ \A c \in RawBundles : c # b => /\ first'[c] = first[c] /\ target'[c] = target[c]
                                        /\ reservation'[c] = reservation[c]
  BY <1>1, <1>2 DEF RawTypes
<1>7. \A c \in RawBundles : c # b => (Passed(c)' <=> Passed(c)) /\ (Contended(c)' <=> Contended(c))
  BY <1>2, <1>6 DEF Passed, Contended
<1>8. ReservationInv'
  <2>1. \A c \in RawBundles : reservation'[c] # "none" => first'[c] + RawLegs <= LegsLimit
    BY <1>4, <1>6 DEF ReservationInv
  <2>2. \A c \in RawBundles : reservation'[c] = "expired" => Passed(c)'
    BY <1>6, <1>7 DEF ReservationInv
  <2>3. \A leg \in sentLegs : reservation'[leg.bundle] # "none"
    <3>1. \A leg \in sentLegs : leg.bundle \in RawBundles
      BY NonceRange DEF RawTypes
    <3>2. QED
      BY <1>6, <3>1 DEF ReservationInv
  <2>4. QED
    BY <1>2, <1>6, <2>1, <2>2, <2>3 DEF ReservationInv
<1>9. ASSUME NEW c \in RawBundles, c # b, Contended(c)
      PROVE  first[c] + RawLegs <= nonce
  <2>1. target[c] \in Nat /\ rawHead <= target[c] /\ first[c] \in Nat /\ rawNonce \in Nat
    <3>1. target[c] \in 0 .. rawHead + 1
      BY DEF RawTypes
    <3>2. QED
      BY <1>4, <1>9, <3>1 DEF RawTypes, Contended, Passed
  <2>2. first[c] + RawLegs <= rawNonce
    BY <1>2, <1>4, <1>9, <2>1 DEF CoverInv
  <2>3. QED
    BY <1>3, <1>4, <2>1, <2>2
<1>10. CoverInv'
  <2>1. first'[b] + RawLegs <= rawNonce'
    BY <1>1, <1>3, <1>4, <1>6
  <2>2. ASSUME NEW c \in RawBundles, c # b, Contended(c)
        PROVE  first'[c] + RawLegs <= rawNonce'
    <3>1. first'[c] = first[c] /\ first[c] \in Nat /\ first[c] + RawLegs <= nonce
      BY <1>6, <1>9, <2>2 DEF RawTypes
    <3>2. QED
      BY <1>1, <1>3, <1>4, <3>1
  <2>3. QED
    BY <1>7, <2>1, <2>2 DEF CoverInv
<1>11. DisjointInv'
  <2>1. ASSUME NEW c \in RawBundles, NEW d \in RawBundles, c # d, Contended(c)', Contended(d)'
        PROVE  first'[c] + RawLegs <= first'[d] \/ first'[d] + RawLegs <= first'[c]
    BY <1>6, <1>7, <1>9, <2>1 DEF DisjointInv
  <2>2. QED
    BY <2>1 DEF DisjointInv
<1>12. QED
  BY <1>5, <1>8, <1>10, <1>11

(* No cancellation is acknowledged, for the stored payload names no legs. *)
LEMMA CancelShutsLane ==
    ASSUME RawTypes, NEW b \in RawBundles, NEW c \in Cancellations(b), Cancel(b, c)
    PROVE  /\ pool' = pool /\ rawNonce' = rawNonce
           /\ reservation' = [reservation EXCEPT ![b] = "recovery_blocked"]
           /\ shutUntil' \in Nat /\ shutUntil' >= shutUntil /\ shutUntil' >= target[b]
<1>1. StoredLegs(b) = {} /\ Replaceable(b) = {}
  BY DEF StoredLegs, Replaceable, PayloadIsArray
<1>2. c.legs = {} /\ c.ok = FALSE
  <2>1. PICK legs \in IF "rpc" \in RawFaults THEN SUBSET Replaceable(b) ELSE {Replaceable(b)} :
            c = [legs |-> legs, ok |-> StoredLegs(b) # {} /\ legs = StoredLegs(b)]
    BY DEF Cancellations
  <2>2. legs = {}
    BY <1>1, <2>1
  <2>3. QED
    BY <1>1, <2>1, <2>2
<1>3. ReplaceIn(pool, c.legs) = pool
  BY <1>2 DEF ReplaceIn
<1>4. target[b] \in 0 .. rawHead + 1 /\ rawHead \in Nat /\ shutUntil \in Nat
  BY DEF RawTypes
<1>5. /\ pool' = ReplaceIn(pool, c.legs)
      /\ reservation' = [reservation EXCEPT ![b] = IF c.ok THEN "cancelled" ELSE "recovery_blocked"]
      /\ rawNonce' = IF c.ok /\ rawNonce = first[b] + RawLegs THEN first[b] ELSE rawNonce
      /\ shutUntil' = IF c.ok \/ target[b] <= shutUntil THEN shutUntil ELSE target[b]
  BY DEF Cancel
<1>6. pool' = pool
  BY <1>3, <1>5
<1>7. rawNonce' = rawNonce
  BY <1>2, <1>5
<1>8. reservation' = [reservation EXCEPT ![b] = "recovery_blocked"]
  BY <1>2, <1>5
<1>9. shutUntil' = IF target[b] <= shutUntil THEN shutUntil ELSE target[b]
  BY <1>2, <1>5
<1>10. shutUntil' \in Nat /\ shutUntil' >= shutUntil /\ shutUntil' >= target[b]
  <2>1. target[b] \in Nat
    BY <1>4
  <2>2. QED
    BY <1>4, <1>9, <2>1
<1>11. QED
  BY <1>6, <1>7, <1>8, <1>10

(* The lane is shut for one payload, or a payload is accepted. *)
LEMMA StatusKeeps ==
    ASSUME RawIInv, NEW b \in RawBundles, reservation[b] # "none",
           NEW status \in {"accepted", "recovery_blocked"},
           reservation' = [reservation EXCEPT ![b] = status],
           shutUntil' \in Nat, shutUntil' >= shutUntil, sending' \in {sending, Idle},
           UNCHANGED <<rawHead, mined, pool, flying, first, target, rawNonce, sentLegs>>
    PROVE  RawIInv'
<1> USE DEF RawIInv
<1>1. \A c \in RawBundles : /\ reservation'[c] # "none" <=> reservation[c] # "none"
                            /\ reservation'[c] = "expired" => reservation[c] = "expired"
  BY DEF RawTypes
<1>2. \A c \in RawBundles : (Passed(c)' <=> Passed(c)) /\ (Contended(c)' <=> Contended(c))
  BY <1>1 DEF Passed, Contended
<1>3. RawTypes'
  <2>1. Idle \in [bundle : RawBundles \cup {NoBundle}, leg : Nat, ok : BOOLEAN]
    BY DEF Idle
  <2>2. QED
    BY <2>1 DEF RawTypes
<1>4. ReservationInv'
  <2>1. \A leg \in sentLegs : leg.bundle \in RawBundles
    BY NonceRange DEF RawTypes
  <2>2. QED
    BY <1>1, <1>2, <2>1 DEF ReservationInv
<1>5. CoverInv'
  <2>1. \A c \in RawBundles : target[c] \in Nat /\ shutUntil \in Nat
    BY DEF RawTypes
  <2>2. QED
    BY <1>2, <2>1 DEF CoverInv
<1>6. DisjointInv'
  BY <1>2 DEF DisjointInv
<1>7. QED
  BY <1>3, <1>4, <1>5, <1>6

LEMMA CancelActivePreserves ==
    ASSUME RawIInv, NEW b \in RawBundles, CancelActive(b)
    PROVE  RawIInv'
<1>1. PICK c \in Cancellations(b) : Cancel(b, c)
  BY DEF CancelActive
<1>2. /\ UNCHANGED <<rawHead, mined, flying, first, target, sending, sentLegs>>
      /\ reservation[b] # "none"
  BY DEF CancelActive, ActiveReservation, rawChain
<1>3. /\ pool' = pool /\ rawNonce' = rawNonce
      /\ reservation' = [reservation EXCEPT ![b] = "recovery_blocked"]
      /\ shutUntil' \in Nat /\ shutUntil' >= shutUntil
  BY <1>1, CancelShutsLane DEF RawIInv
<1>4. QED
  BY <1>2, <1>3, StatusKeeps

LEMMA SubmitEndsPreserves ==
    ASSUME RawIInv, SubmitEnds
    PROVE  RawIInv'
<1> DEFINE b == sending.bundle
<1>1. /\ sending # Idle /\ sending' = Idle
      /\ UNCHANGED <<rawHead, mined, flying, first, target, sentLegs>>
  BY DEF SubmitEnds, rawChain
<1>2. b \in RawBundles /\ reservation[b] # "none"
  BY <1>1 DEF RawIInv, ReservationInv
<1>3. CASE sending.ok
  <2>1. /\ reservation' = [reservation EXCEPT ![b] = "accepted"]
        /\ UNCHANGED <<pool, rawNonce, shutUntil>>
    BY <1>3 DEF SubmitEnds, inventoryVars
  <2>2. shutUntil' \in Nat /\ shutUntil' >= shutUntil
    BY <2>1 DEF RawIInv, RawTypes
  <2> HIDE DEF b
  <2>3. QED
    BY <1>1, <1>2, <2>1, <2>2, StatusKeeps
<1>4. CASE ~sending.ok
  <2>1. PICK c \in Cancellations(b) : Cancel(b, c)
    BY <1>4 DEF SubmitEnds
  <2> HIDE DEF b
  <2>2. /\ pool' = pool /\ rawNonce' = rawNonce
        /\ reservation' = [reservation EXCEPT ![b] = "recovery_blocked"]
        /\ shutUntil' \in Nat /\ shutUntil' >= shutUntil
    BY <1>2, <2>1, CancelShutsLane DEF RawIInv
  <2>3. QED
    BY <1>1, <1>2, <2>2, StatusKeeps
<1>5. QED
  BY <1>3, <1>4

(* The nonce is counted anew, but the lane is shut for whatever is contended. *)
LEMMA RestartPreserves ==
    ASSUME RawIInv, RawRestart
    PROVE  RawIInv'
<1> USE DEF RawIInv
<1> DEFINE active == {b \in RawBundles : ActiveReservation(b)}
           shut   == {b \in active : ~Passed(b)}
           ends   == {0} \cup {target[b] : b \in shut}
<1>1. /\ rawNonce' \in RefreshedNonces(0)
      /\ reservation' = [b \in RawBundles |->
              IF b \notin active THEN reservation[b]
              ELSE IF b \in shut THEN "recovery_blocked" ELSE "expired"]
      /\ shutUntil' = Max(ends) /\ sending' = Idle
      /\ UNCHANGED <<rawHead, mined, pool, flying, first, target, sentLegs>>
  BY DEF RawRestart, rawChain
<1>2. rawHead + 1 \in Nat /\ ends \in SUBSET (0 .. rawHead + 1) /\ ends # {}
  BY DEF RawTypes
<1>3. shutUntil' \in Nat /\ \A b \in shut : target[b] <= shutUntil'
  <2>1. Max(ends) \in ends /\ \A e \in ends : e <= Max(ends)
    BY <1>2, MaxOfBounded
  <2>2. \A b \in shut : target[b] \in ends
    OBVIOUS
  <2>3. \A e \in ends : e \in Nat
    BY <1>2
  <2> HIDE DEF ends, shut
  <2>4. QED
    BY <1>1, <2>1, <2>2, <2>3
<1>4. rawNonce' \in Nat
  <2>1. \A m \in RefreshedNonces(0) : m \in Nat
    BY RefreshNeverFalls
  <2>2. QED
    BY <1>1, <2>1
<1>5. \A b \in RawBundles :
         /\ reservation'[b] # "none" <=> reservation[b] # "none"
         /\ reservation'[b] = "expired" => Passed(b)
         /\ reservation'[b] \in {"none", "reserved", "accepted", "recovery_blocked", "expired"}
         /\ Contended(b) => b \in shut
  <2>1. ASSUME NEW b \in RawBundles
        PROVE  /\ reservation'[b] # "none" <=> reservation[b] # "none"
               /\ reservation'[b] = "expired" => Passed(b)
               /\ reservation'[b] \in {"none", "reserved", "accepted", "recovery_blocked", "expired"}
               /\ Contended(b) => b \in shut
    <3>1. reservation[b] \in {"none", "reserved", "accepted", "recovery_blocked", "expired"}
      BY DEF RawTypes
    <3>2. reservation[b] = "expired" => Passed(b)
      BY DEF ReservationInv
    <3>3. b \in active <=> reservation[b] \in {"reserved", "accepted", "recovery_blocked"}
      BY DEF ActiveReservation
    <3>4. b \in shut <=> b \in active /\ ~Passed(b)
      OBVIOUS
    <3>5. reservation'[b] = IF b \notin active THEN reservation[b]
                            ELSE IF b \in shut THEN "recovery_blocked" ELSE "expired"
      BY <1>1
    <3> HIDE DEF active, shut
    <3>6. QED
      BY <3>1, <3>2, <3>3, <3>4, <3>5 DEF Contended
  <2>2. QED
    BY <2>1
<1> HIDE DEF active, shut, ends
<1>6. \A b \in RawBundles : (Passed(b)' <=> Passed(b)) /\ (Contended(b)' <=> Contended(b))
  BY <1>1, <1>5 DEF Passed, Contended
<1>7. RawTypes'
  <2>1. reservation' \in [RawBundles -> {"none", "reserved", "accepted", "recovery_blocked",
                                         "expired"}]
    BY <1>1, <1>5
  <2>2. Idle \in [bundle : RawBundles \cup {NoBundle}, leg : Nat, ok : BOOLEAN]
    BY DEF Idle
  <2>3. QED
    BY <1>1, <1>3, <1>4, <2>1, <2>2 DEF RawTypes
<1>8. ReservationInv'
  <2>1. \A leg \in sentLegs : leg.bundle \in RawBundles
    BY NonceRange DEF RawTypes
  <2>2. QED
    BY <1>1, <1>5, <1>6, <2>1 DEF ReservationInv
<1>9. CoverInv' /\ DisjointInv'
  BY <1>1, <1>3, <1>5, <1>6 DEF CoverInv, DisjointInv
<1>10. QED
  BY <1>7, <1>8, <1>9

-----------------------------------------------------------------------------
(* The theorems *)

LEMMA RawInitHolds == RawInit => RawIInv
<1> SUFFICES ASSUME RawInit PROVE RawIInv
  OBVIOUS
<1>1. RawTypes
  BY RawConstantTypes DEF RawInit, RawTypes, Idle
<1>2. ReservationInv /\ CoverInv /\ DisjointInv
  BY DEF RawInit, ReservationInv, CoverInv, DisjointInv, Contended
<1>3. QED
  BY <1>1, <1>2 DEF RawIInv

LEMMA RawStepPreserves == RawIInv /\ [RawNext]_rawVars => RawIInv'
<1> SUFFICES ASSUME RawIInv, [RawNext]_rawVars PROVE RawIInv'
  OBVIOUS
<1>1. CASE (\E leg \in AllLegs : LateArrival(leg)) \/ Mine \/ RawBlock
  BY <1>1, SequencerPreserves
<1>2. CASE \E b \in RawBundles : ReserveRaw(b) \/ CancelActive(b)
  BY <1>2, ReserveRawPreserves, CancelActivePreserves
<1>3. CASE SendLeg \/ SubmitEnds \/ RawRestart
  BY <1>3, SendLegPreserves, SubmitEndsPreserves, RestartPreserves
<1>4. CASE UNCHANGED rawVars
  <2>1. UNCHANGED <<rawHead, mined, pool, flying, first, target, reservation, rawNonce,
                    shutUntil, sending, sentLegs>>
    BY <1>4 DEF rawVars, rawChain, rawRows, inventoryVars
  <2>2. QED
    BY <2>1 DEF RawIInv, RawTypes, ReservationInv, CoverInv, DisjointInv, Contended, Passed
<1>5. QED
  BY <1>1, <1>2, <1>3, <1>4 DEF RawNext

(* The invariant holds in every reachable state.                            *)
THEOREM RawInvariance == RawSpec => []RawIInv
  BY RawInitHolds, RawStepPreserves, PTL DEF RawSpec

(* Two payloads are sent with one nonce only when the target of one of them   *)
(* has passed, although no cancellation is ever acknowledged, answers are     *)
(* lost and the process starts again (submission.rs 14-21, engine.rs          *)
(* 1005-1025, 2384-2390).                                                   *)
THEOREM RawNonceSafety == RawSpec => []RawNonceIsUsedOnce
<1>1. RawIInv => RawNonceIsUsedOnce
  <2> SUFFICES ASSUME RawIInv, NEW x \in sentLegs, NEW y \in sentLegs,
                      x.bundle # y.bundle, NonceOf(x) = NonceOf(y),
                      ~(target[x.bundle] < rawHead), ~(target[y.bundle] < rawHead)
               PROVE  FALSE
    BY DEF RawNonceIsUsedOnce
  <2>1. x \in AllLegs /\ y \in AllLegs
    BY DEF RawIInv, RawTypes
  <2>2. /\ x.bundle \in RawBundles /\ y.bundle \in RawBundles
        /\ NonceOf(x) \in Nat
        /\ first[x.bundle] <= NonceOf(x) /\ NonceOf(x) < first[x.bundle] + RawLegs
        /\ first[y.bundle] <= NonceOf(y) /\ NonceOf(y) < first[y.bundle] + RawLegs
    BY <2>1, NonceRange DEF RawIInv
  <2>3. Contended(x.bundle) /\ Contended(y.bundle)
    BY <2>2 DEF RawIInv, ReservationInv, Contended, Passed
  <2>4. \/ first[x.bundle] + RawLegs <= first[y.bundle]
        \/ first[y.bundle] + RawLegs <= first[x.bundle]
    BY <2>2, <2>3 DEF RawIInv, DisjointInv
  <2>5. first[x.bundle] \in Nat /\ first[y.bundle] \in Nat /\ RawLegs \in Nat
    BY <2>2, RawConstantTypes DEF RawIInv, RawTypes
  <2>6. QED
    BY <2>2, <2>4, <2>5
<1>2. QED
  BY <1>1, RawInvariance, PTL

(* What the model bounds: nonces, blocks and the legs of a payload *)
RawBounds ==
    /\ rawHead <= RawLastBlock /\ rawHead >= 1
    /\ rawNonce \in RawNonces /\ first \in [RawBundles -> RawNonces]
    /\ recorded \subseteq RawBundles
    /\ shutUntil <= RawLastBlock + 1
    /\ sending.leg <= RawLegs

LEMMA RawBoundsKept ==
    ASSUME RawIInv, RawIInv', RawBounds, [RawNext]_rawVars
    PROVE  RawBounds'
<1> USE DEF RawBounds
<1>1. /\ RawLegs \in Nat /\ RawLastBlock \in Nat /\ RawLastBlock >= 1 /\ 0 \in RawNonces
      /\ \A n \in RawNonces : n \in Nat
  BY RawConstantTypes, RawAssumption
<1>2. rawHead \in Nat /\ shutUntil \in Nat /\ \A b \in RawBundles : target[b] \in 0 .. rawHead + 1
  BY DEF RawIInv, RawTypes
<1>3. \A n \in Nat : \A m \in RefreshedNonces(n) : m \in RawNonces \/ m = n
  <2>1. PendingCount \in RawNonces
    <3> DEFINE S == {k \in RawNonces : k >= mined
                        /\ \A j \in mined .. k - 1 : \E tx \in pool : PoolNonce(tx) = j}
    <3>1. mined \in 0 .. LegsLimit /\ LegsLimit \in Nat /\ S \in SUBSET (0 .. LegsLimit)
      BY RawConstantTypes DEF RawIInv, RawTypes
    <3>2. mined \in S
      <4>1. mined .. mined - 1 = {} /\ mined >= mined
        BY <3>1
      <4>2. QED
        BY <4>1 DEF RawIInv, RawTypes
    <3>3. Max(S) \in S
      BY <3>1, <3>2, MaxOfBounded
    <3>4. QED
      BY <3>3 DEF PendingCount
  <2>2. QED
    BY <2>1 DEF RefreshedNonces
<1>4. CASE \/ \E leg \in AllLegs : LateArrival(leg)
           \/ Mine
           \/ UNCHANGED rawVars
  <2>1. UNCHANGED <<rawHead, first, recorded, rawNonce, shutUntil, sending>>
    BY <1>4 DEF LateArrival, Mine, rawVars, rawChain, rawRows, inventoryVars
  <2>2. QED
    BY <2>1
<1>5. CASE RawBlock
  BY <1>1, <1>2, <1>5 DEF RawBlock, rawRows, inventoryVars
<1>6. ASSUME NEW b \in RawBundles, ReserveRaw(b) PROVE RawBounds'
  <2>1. PICK nonce \in RefreshedNonces(rawNonce) :
            /\ nonce + RawLegs \in RawNonces
            /\ first' = [first EXCEPT ![b] = nonce] /\ rawNonce' = nonce + RawLegs
    BY <1>6 DEF ReserveRaw
  <2>2. nonce \in RawNonces
    BY <1>1, <1>3
  <2>3. UNCHANGED <<rawHead, recorded, shutUntil>> /\ sending'.leg = 0
    BY <1>6 DEF ReserveRaw, rawChain
  <2>4. QED
    BY <1>1, <2>1, <2>2, <2>3
<1>7. CASE SendLeg
  <2>1. UNCHANGED <<rawHead, first, recorded, rawNonce, shutUntil>>
    BY <1>7 DEF SendLeg, rawChain, rawRows, inventoryVars
  <2>2. sending.leg < RawLegs /\ sending'.leg = sending.leg + 1 /\ sending.leg \in Nat
    <3>1. sending \in [bundle : RawBundles \cup {NoBundle}, leg : Nat, ok : BOOLEAN]
      BY DEF RawIInv, RawTypes
    <3>2. \/ sending' = [sending EXCEPT !.leg = @ + 1, !.ok = FALSE]
          \/ sending' = [sending EXCEPT !.leg = @ + 1,
                              !.ok = @ /\ [bundle |-> sending.bundle, index |-> sending.leg] \in pool']
      BY <1>7 DEF SendLeg
    <3>3. sending.leg < RawLegs
      BY <1>7 DEF SendLeg
    <3>4. QED
      BY <3>1, <3>2, <3>3
  <2>3. QED
    BY <1>1, <2>1, <2>2
<1>8. ASSUME NEW b \in RawBundles, NEW c \in Cancellations(b), Cancel(b, c)
      PROVE  rawNonce' \in RawNonces /\ shutUntil' <= RawLastBlock + 1
  <2>1. rawNonce' = first[b] \/ rawNonce' = rawNonce
    BY <1>8 DEF Cancel
  <2>2. shutUntil' = shutUntil \/ shutUntil' = target[b]
    BY <1>8 DEF Cancel
  <2>3. QED
    BY <1>1, <1>2, <2>1, <2>2
<1>9. CASE SubmitEnds
  <2>1. sending.bundle \in RawBundles
    BY <1>9 DEF SubmitEnds, RawIInv, ReservationInv
  <2>2. /\ UNCHANGED <<rawHead, first>> /\ sending' = Idle
        /\ recorded' = recorded \cup {sending.bundle}
    BY <1>9 DEF SubmitEnds, rawChain
  <2>3. rawNonce' \in RawNonces /\ shutUntil' <= RawLastBlock + 1
    BY <1>8, <1>9, <2>1 DEF SubmitEnds, inventoryVars
  <2>4. QED
    BY <1>1, <2>1, <2>2, <2>3 DEF Idle
<1>10. ASSUME NEW b \in RawBundles, CancelActive(b) PROVE RawBounds'
  <2>1. UNCHANGED <<rawHead, first, recorded, sending>>
    BY <1>10 DEF CancelActive, rawChain
  <2>2. rawNonce' \in RawNonces /\ shutUntil' <= RawLastBlock + 1
    BY <1>8, <1>10 DEF CancelActive
  <2>3. QED
    BY <2>1, <2>2
<1>11. CASE RawRestart
  <2> DEFINE shut == {b \in RawBundles : ActiveReservation(b) /\ ~Passed(b)}
             ends == {0} \cup {target[b] : b \in shut}
  <2>1. /\ UNCHANGED <<rawHead, first, recorded>> /\ sending' = Idle
        /\ rawNonce' \in RefreshedNonces(0) /\ shutUntil' = Max(ends)
    <3>1. {b \in {c \in RawBundles : ActiveReservation(c)} : ~Passed(b)} = shut
      OBVIOUS
    <3>2. QED
      BY <1>11, <3>1 DEF RawRestart, rawChain
  <2>2. rawNonce' \in RawNonces
    BY <1>1, <1>3, <2>1
  <2>3. shutUntil' <= RawLastBlock + 1
    <3>1. rawHead + 1 \in Nat /\ ends \in SUBSET (0 .. rawHead + 1) /\ ends # {}
      BY <1>2
    <3>2. Max(ends) \in 0 .. rawHead + 1
      BY <3>1, MaxOfBounded
    <3>3. QED
      BY <1>1, <1>2, <2>1, <3>2
  <2>4. QED
    BY <1>1, <2>1, <2>2, <2>3 DEF Idle
<1>12. QED
  BY <1>4, <1>5, <1>6, <1>7, <1>9, <1>10, <1>11 DEF RawNext

(* Every variable keeps its type. *)
THEOREM RawTypesHold == RawSpec => []RawTypeOK
<1>1. RawInit => RawBounds
  BY RawConstantTypes, RawAssumption DEF RawInit, RawBounds, Idle
<1>2. RawIInv /\ RawIInv' /\ RawBounds /\ [RawNext]_rawVars => RawBounds'
  BY RawBoundsKept
<1>3. RawIInv /\ RawBounds => RawTypeOK
  <2> SUFFICES ASSUME RawIInv, RawBounds PROVE RawTypeOK
    OBVIOUS
  <2>1. RawTypes /\ RawLastBlock \in Nat /\ RawLegs \in Nat
    BY RawConstantTypes DEF RawIInv
  <2>2. rawHead \in 1 .. RawLastBlock /\ shutUntil \in 0 .. RawLastBlock + 1
    BY <2>1 DEF RawTypes, RawBounds
  <2>3. target \in [RawBundles -> 0 .. RawLastBlock + 1]
    <3>1. \A b \in RawBundles : target[b] \in 0 .. RawLastBlock + 1
      BY <2>1, <2>2 DEF RawTypes
    <3>2. QED
      BY <2>1, <3>1 DEF RawTypes
  <2>4. sending \in [bundle : RawBundles \cup {NoBundle}, leg : 0 .. RawLegs, ok : BOOLEAN]
    BY <2>1 DEF RawTypes, RawBounds
  <2>5. reservation \in [RawBundles -> {"none", "reserved", "accepted", "recovery_blocked",
                                        "cancelled", "expired"}]
    BY <2>1 DEF RawTypes
  <2>6. mined \in RawNonces /\ pool \subseteq AllLegs /\ flying \subseteq AllLegs
        /\ sentLegs \subseteq AllLegs
    BY <2>1 DEF RawTypes
  <2>7. QED
    BY <2>2, <2>3, <2>4, <2>5, <2>6 DEF RawTypeOK, RawBounds
<1>4. QED
  BY <1>1, <1>2, <1>3, RawInvariance, PTL DEF RawSpec

-----------------------------------------------------------------------------
(***************************************************************************)
(* The simulation backends: whoever holds the lock of a fork measures on the*)
(* state it asked for, for any forks, candidates and lanes.                 *)
(***************************************************************************)

SimTypes ==
        /\ simHead \in 1 .. SimLastBlock
        /\ pinned \in [Forks -> 1 .. SimLastBlock]
        /\ forkedAt \in [Forks -> 1 .. SimLastBlock]
        /\ code \in [Forks -> BOOLEAN] /\ pooled \in [Forks -> BOOLEAN]
        /\ extra \in [Forks -> BOOLEAN]
        /\ lockedBy \in [Forks -> Candidates \cup {NoCandidate}]
        /\ saved \in [Forks -> BOOLEAN \X BOOLEAN]
        /\ lane \in [Candidates -> Lanes]
        /\ parent \in [Candidates -> 0 .. SimLastBlock]
        /\ at \in [Candidates -> Steps \cup Ends]
        /\ inFlight \subseteq Candidates /\ tainted \subseteq Forks

OnFork == {"reset", "prepare", "snapshot", "send", "mine", "read", "revert"}

(* The lock of a fork is held by exactly the candidate that works on it.    *)
SimLockInv ==
    /\ \A c \in Candidates : at[c] \in OnFork \cup {"wait"} =>
           lane[c] \in Forks /\ parent[c] >= 1
    /\ \A c \in Candidates : at[c] \in OnFork => lockedBy[lane[c]] = c
    /\ \A f \in Forks : lockedBy[f] # NoCandidate =>
           lane[lockedBy[f]] = f /\ at[lockedBy[f]] \in OnFork

(* Where a fork may stand for a candidate found on top of a block.           *)
Near(f, block) ==
    IF f = "replay" THEN forkedAt[f] = block ELSE block < forkedAt[f] + ReforkEvery

(* What the holder of a fork, at its step, has left on it.                   *)
Worked(f, c) ==
    /\ at[c] # "reset" => Near(f, parent[c])
    /\ at[c] # "prepare" => code[f] = TRUE
    /\ at[c] \in {"reset", "prepare", "snapshot", "send"} => pooled[f] = FALSE /\ extra[f] = FALSE
    /\ at[c] \in {"send", "mine", "read", "revert"} => saved[f] = <<FALSE, FALSE>>

(* A fork that is not spoilt stands where AnvilSim takes it to stand, is clean *)
(* between two simulations, and holds what its holder has put there.         *)
ForkOk(f) ==
    f \notin tainted =>
        /\ pinned[f] = forkedAt[f]
        /\ lockedBy[f] = NoCandidate =>
               code[f] = TRUE /\ pooled[f] = FALSE /\ extra[f] = FALSE
        /\ lockedBy[f] # NoCandidate => Worked(f, lockedBy[f])

SimIInv == SimTypes /\ SimLockInv /\ \A f \in Forks : ForkOk(f)

-----------------------------------------------------------------------------

(* A fork on which nothing happens stays what it was. *)
LEMMA UntouchedFork ==
    ASSUME NEW f \in Forks, ForkOk(f), f \in tainted => f \in tainted',
           lockedBy'[f] = lockedBy[f], pinned'[f] = pinned[f], code'[f] = code[f],
           pooled'[f] = pooled[f], extra'[f] = extra[f], forkedAt'[f] = forkedAt[f],
           saved'[f] = saved[f],
           lockedBy[f] # NoCandidate => /\ at'[lockedBy[f]] = at[lockedBy[f]]
                                        /\ parent'[lockedBy[f]] = parent[lockedBy[f]]
    PROVE  ForkOk(f)'
  BY DEF ForkOk, Worked, Near

LEMMA ConsiderKeeps ==
    ASSUME SimIInv, NEW c \in Candidates, Consider(c) PROVE SimIInv'
<1>1. SimTypes'
  BY SimulationAssumption DEF SimIInv, SimTypes, SimLockInv, Consider, To, Finish, Unlock,
     Holding, ResetFork, Forks, OnFork, forkVars, candidateVars, anvilVars,
     Lanes, Steps, Ends, Results, Rollback
<1>2. SimLockInv'
  BY SimulationAssumption DEF SimIInv, SimTypes, SimLockInv, Consider, To, Finish, Unlock,
     Holding, ResetFork, Forks, OnFork, forkVars, candidateVars, anvilVars,
     Lanes, Steps, Ends, Results
<1>3. ASSUME NEW f \in Forks, lockedBy[f] # c, lockedBy'[f] # c PROVE ForkOk(f)'
  BY <1>3, UntouchedFork, SimulationAssumption DEF SimIInv, SimTypes, SimLockInv, Consider, To, Finish, Unlock,
     Holding, ResetFork, Forks, OnFork, forkVars, candidateVars, anvilVars
<1>4. ASSUME NEW f \in Forks, lockedBy[f] = c \/ lockedBy'[f] = c PROVE ForkOk(f)'
  <2>1. lane[c] = f
    BY <1>4, SimulationAssumption DEF SimIInv, SimTypes, SimLockInv, Consider, To, Finish, Unlock,
     Holding, ResetFork, Forks, OnFork, forkVars, candidateVars, anvilVars
  <2>2. QED
    BY <1>4, <2>1, SimulationAssumption DEF SimIInv, SimTypes, SimLockInv, Consider, To, Finish, Unlock,
     Holding, ResetFork, Forks, OnFork, forkVars, candidateVars, anvilVars, ForkOk, Worked, Near, NeedsReset, Rollback, Steps
<1>5. QED
  BY <1>1, <1>2, <1>3, <1>4 DEF SimIInv

LEMMA ProviderAnswersKeeps ==
    ASSUME SimIInv, NEW c \in Candidates, ProviderAnswers(c) PROVE SimIInv'
<1>1. SimTypes'
  BY SimulationAssumption DEF SimIInv, SimTypes, SimLockInv, ProviderAnswers, To, Finish, Unlock,
     Holding, ResetFork, Forks, OnFork, forkVars, candidateVars, anvilVars,
     Lanes, Steps, Ends, Results, Rollback
<1>2. SimLockInv'
  BY SimulationAssumption DEF SimIInv, SimTypes, SimLockInv, ProviderAnswers, To, Finish, Unlock,
     Holding, ResetFork, Forks, OnFork, forkVars, candidateVars, anvilVars,
     Lanes, Steps, Ends, Results
<1>3. ASSUME NEW f \in Forks, lockedBy[f] # c, lockedBy'[f] # c PROVE ForkOk(f)'
  BY <1>3, UntouchedFork, SimulationAssumption DEF SimIInv, SimTypes, SimLockInv, ProviderAnswers, To, Finish, Unlock,
     Holding, ResetFork, Forks, OnFork, forkVars, candidateVars, anvilVars
<1>4. ASSUME NEW f \in Forks, lockedBy[f] = c \/ lockedBy'[f] = c PROVE ForkOk(f)'
  <2>1. lane[c] = f
    BY <1>4, SimulationAssumption DEF SimIInv, SimTypes, SimLockInv, ProviderAnswers, To, Finish, Unlock,
     Holding, ResetFork, Forks, OnFork, forkVars, candidateVars, anvilVars
  <2>2. QED
    BY <1>4, <2>1, SimulationAssumption DEF SimIInv, SimTypes, SimLockInv, ProviderAnswers, To, Finish, Unlock,
     Holding, ResetFork, Forks, OnFork, forkVars, candidateVars, anvilVars, ForkOk, Worked, Near, NeedsReset, Rollback, Steps
<1>5. QED
  BY <1>1, <1>2, <1>3, <1>4 DEF SimIInv

LEMMA TakeForkKeeps ==
    ASSUME SimIInv, NEW c \in Candidates, TakeFork(c) PROVE SimIInv'
<1>1. SimTypes'
  BY SimulationAssumption DEF SimIInv, SimTypes, SimLockInv, TakeFork, To, Finish, Unlock,
     Holding, ResetFork, Forks, OnFork, forkVars, candidateVars, anvilVars,
     Lanes, Steps, Ends, Results, Rollback
<1>2. SimLockInv'
  BY SimulationAssumption DEF SimIInv, SimTypes, SimLockInv, TakeFork, To, Finish, Unlock,
     Holding, ResetFork, Forks, OnFork, forkVars, candidateVars, anvilVars,
     Lanes, Steps, Ends, Results
<1>3. ASSUME NEW f \in Forks, lockedBy[f] # c, lockedBy'[f] # c PROVE ForkOk(f)'
  BY <1>3, UntouchedFork, SimulationAssumption DEF SimIInv, SimTypes, SimLockInv, TakeFork, To, Finish, Unlock,
     Holding, ResetFork, Forks, OnFork, forkVars, candidateVars, anvilVars
<1>4. ASSUME NEW f \in Forks, lockedBy[f] = c \/ lockedBy'[f] = c PROVE ForkOk(f)'
  <2>1. lane[c] = f
    BY <1>4, SimulationAssumption DEF SimIInv, SimTypes, SimLockInv, TakeFork, To, Finish, Unlock,
     Holding, ResetFork, Forks, OnFork, forkVars, candidateVars, anvilVars
  <2>2. /\ at[c] = "wait" /\ lockedBy'[f] = c /\ lockedBy[f] = NoCandidate /\ parent'[c] = parent[c]
        /\ pinned'[f] = pinned[f] /\ code'[f] = code[f] /\ pooled'[f] = pooled[f]
        /\ extra'[f] = extra[f] /\ forkedAt'[f] = forkedAt[f] /\ tainted' = tainted
        /\ at'[c] = IF NeedsReset(f, parent[c]) THEN "reset" ELSE "snapshot"
    BY <1>4, <2>1, SimulationAssumption DEF SimIInv, SimTypes, SimLockInv, TakeFork, To, Finish, Unlock,
     Holding, ResetFork, Forks, OnFork, forkVars, candidateVars, anvilVars
  <2>3. ~NeedsReset(f, parent[c]) => Near(f, parent[c])
    BY SimulationAssumption DEF SimIInv, SimTypes, NeedsReset, Near, Forks
  <2>4. Near(f, parent[c]) => Near(f, parent[c])'
    BY <2>2 DEF Near
  <2>5. ForkOk(f) /\ c # NoCandidate
    BY SimulationAssumption DEF SimIInv
  <2>6. QED
    BY <2>2, <2>3, <2>4, <2>5 DEF ForkOk, Worked
<1>5. QED
  BY <1>1, <1>2, <1>3, <1>4 DEF SimIInv

LEMMA ResetReturnsKeeps ==
    ASSUME SimIInv, NEW c \in Candidates, ResetReturns(c) PROVE SimIInv'
<1>1. SimTypes'
  <2>1. parent[c] \in 1 .. SimLastBlock /\ lane[c] \in Forks
    BY SimulationAssumption DEF SimIInv, SimTypes, SimLockInv, ResetReturns, To, Finish, Unlock,
     Holding, ResetFork, Forks, OnFork, forkVars, candidateVars, anvilVars
  <2>2. /\ pinned' = [pinned EXCEPT ![lane[c]] = parent[c]]
        /\ forkedAt' = [forkedAt EXCEPT ![lane[c]] = parent[c]]
        /\ code' = [code EXCEPT ![lane[c]] = FALSE]
        /\ pooled' = [pooled EXCEPT ![lane[c]] = FALSE]
        /\ extra' = [extra EXCEPT ![lane[c]] = FALSE]
    BY DEF ResetReturns, ResetFork
  <2>3. pinned' \in [Forks -> 1 .. SimLastBlock] /\ forkedAt' \in [Forks -> 1 .. SimLastBlock]
    BY <2>1, <2>2 DEF SimIInv, SimTypes
  <2>4. code' \in [Forks -> BOOLEAN] /\ pooled' \in [Forks -> BOOLEAN] /\ extra' \in [Forks -> BOOLEAN]
    BY <2>1, <2>2 DEF SimIInv, SimTypes
  <2>5. QED
    BY <2>3, <2>4 DEF SimIInv, SimTypes, ResetReturns, Steps, To
<1>2. SimLockInv'
  BY SimulationAssumption DEF SimIInv, SimTypes, SimLockInv, ResetReturns, To, Finish, Unlock,
     Holding, ResetFork, Forks, OnFork, forkVars, candidateVars, anvilVars,
     Lanes, Steps, Ends, Results
<1>3. ASSUME NEW f \in Forks, lockedBy[f] # c, lockedBy'[f] # c PROVE ForkOk(f)'
  BY <1>3, UntouchedFork, SimulationAssumption DEF SimIInv, SimTypes, SimLockInv, ResetReturns, To, Finish, Unlock,
     Holding, ResetFork, Forks, OnFork, forkVars, candidateVars, anvilVars
<1>4. ASSUME NEW f \in Forks, lockedBy[f] = c \/ lockedBy'[f] = c PROVE ForkOk(f)'
  <2>1. lane[c] = f
    BY <1>4, SimulationAssumption DEF SimIInv, SimTypes, SimLockInv, ResetReturns, To, Finish, Unlock,
     Holding, ResetFork, Forks, OnFork, forkVars, candidateVars, anvilVars
  <2>2. /\ at[c] = "reset"
        /\ at'[c] = "prepare"
        /\ lockedBy'[f] = c
        /\ lockedBy[f] = c
        /\ saved'[f] = saved[f]
        /\ pinned'[f] = parent[c]
        /\ forkedAt'[f] = parent[c]
        /\ code'[f] = FALSE
        /\ pooled'[f] = FALSE
        /\ extra'[f] = FALSE
        /\ parent'[c] = parent[c]
    BY <1>4, <2>1, SimulationAssumption DEF SimIInv, SimTypes, SimLockInv, ResetReturns, To, Finish, Unlock,
     Holding, ResetFork, Forks, OnFork, forkVars, candidateVars, anvilVars
  <2>3. parent[c] < parent[c] + ReforkEvery
    BY SimulationAssumption DEF SimIInv, SimTypes
  <2>4. ForkOk(f) /\ c # NoCandidate
    BY SimulationAssumption DEF SimIInv
  <2>5. QED
    BY <2>2, <2>3, <2>4 DEF ForkOk, Worked, Near
<1>5. QED
  BY <1>1, <1>2, <1>3, <1>4 DEF SimIInv

LEMMA StatePreparedKeeps ==
    ASSUME SimIInv, NEW c \in Candidates, StatePrepared(c) PROVE SimIInv'
<1>1. SimTypes'
  BY SimulationAssumption DEF SimIInv, SimTypes, SimLockInv, StatePrepared, To, Finish, Unlock,
     Holding, ResetFork, Forks, OnFork, forkVars, candidateVars, anvilVars,
     Lanes, Steps, Ends, Results, Rollback
<1>2. SimLockInv'
  BY SimulationAssumption DEF SimIInv, SimTypes, SimLockInv, StatePrepared, To, Finish, Unlock,
     Holding, ResetFork, Forks, OnFork, forkVars, candidateVars, anvilVars,
     Lanes, Steps, Ends, Results
<1>3. ASSUME NEW f \in Forks, lockedBy[f] # c, lockedBy'[f] # c PROVE ForkOk(f)'
  BY <1>3, UntouchedFork, SimulationAssumption DEF SimIInv, SimTypes, SimLockInv, StatePrepared, To, Finish, Unlock,
     Holding, ResetFork, Forks, OnFork, forkVars, candidateVars, anvilVars
<1>4. ASSUME NEW f \in Forks, lockedBy[f] = c \/ lockedBy'[f] = c PROVE ForkOk(f)'
  <2>1. lane[c] = f
    BY <1>4, SimulationAssumption DEF SimIInv, SimTypes, SimLockInv, StatePrepared, To, Finish, Unlock,
     Holding, ResetFork, Forks, OnFork, forkVars, candidateVars, anvilVars
  <2>2. /\ at[c] = "prepare"
        /\ at'[c] = "snapshot"
        /\ lockedBy'[f] = c
        /\ lockedBy[f] = c
        /\ pinned'[f] = pinned[f]
        /\ pooled'[f] = pooled[f]
        /\ extra'[f] = extra[f]
        /\ forkedAt'[f] = forkedAt[f]
        /\ saved'[f] = saved[f]
        /\ code'[f] = TRUE
        /\ parent'[c] = parent[c]
    BY <1>4, <2>1, SimulationAssumption DEF SimIInv, SimTypes, SimLockInv, StatePrepared, To, Finish, Unlock,
     Holding, ResetFork, Forks, OnFork, forkVars, candidateVars, anvilVars
  <2>3. f \notin tainted' => f \notin tainted
    BY <2>1, SimulationAssumption DEF SimIInv, SimTypes, SimLockInv, StatePrepared, To, Finish, Unlock,
     Holding, ResetFork, Forks, OnFork, forkVars, candidateVars, anvilVars
  <2>4. ForkOk(f) /\ c # NoCandidate
    BY SimulationAssumption DEF SimIInv
  <2>5. QED
    BY <2>2, <2>3, <2>4 DEF ForkOk, Worked, Near
<1>5. QED
  BY <1>1, <1>2, <1>3, <1>4 DEF SimIInv

LEMMA SnapshotKeeps ==
    ASSUME SimIInv, NEW c \in Candidates, Snapshot(c) PROVE SimIInv'
<1>1. SimTypes'
  BY SimulationAssumption DEF SimIInv, SimTypes, SimLockInv, Snapshot, To, Finish, Unlock,
     Holding, ResetFork, Forks, OnFork, forkVars, candidateVars, anvilVars,
     Lanes, Steps, Ends, Results, Rollback
<1>2. SimLockInv'
  BY SimulationAssumption DEF SimIInv, SimTypes, SimLockInv, Snapshot, To, Finish, Unlock,
     Holding, ResetFork, Forks, OnFork, forkVars, candidateVars, anvilVars,
     Lanes, Steps, Ends, Results
<1>3. ASSUME NEW f \in Forks, lockedBy[f] # c, lockedBy'[f] # c PROVE ForkOk(f)'
  BY <1>3, UntouchedFork, SimulationAssumption DEF SimIInv, SimTypes, SimLockInv, Snapshot, To, Finish, Unlock,
     Holding, ResetFork, Forks, OnFork, forkVars, candidateVars, anvilVars
<1>4. ASSUME NEW f \in Forks, lockedBy[f] = c \/ lockedBy'[f] = c PROVE ForkOk(f)'
  <2>1. lane[c] = f
    BY <1>4, SimulationAssumption DEF SimIInv, SimTypes, SimLockInv, Snapshot, To, Finish, Unlock,
     Holding, ResetFork, Forks, OnFork, forkVars, candidateVars, anvilVars
  <2>2. /\ at[c] = "snapshot"
        /\ at'[c] = "send"
        /\ lockedBy'[f] = c
        /\ lockedBy[f] = c
        /\ pinned'[f] = pinned[f]
        /\ code'[f] = code[f]
        /\ pooled'[f] = pooled[f]
        /\ extra'[f] = extra[f]
        /\ forkedAt'[f] = forkedAt[f]
        /\ saved'[f] = <<pooled[f], extra[f]>>
        /\ parent'[c] = parent[c]
    BY <1>4, <2>1, SimulationAssumption DEF SimIInv, SimTypes, SimLockInv, Snapshot, To, Finish, Unlock,
     Holding, ResetFork, Forks, OnFork, forkVars, candidateVars, anvilVars
  <2>3. f \notin tainted' => f \notin tainted
    BY <2>1, SimulationAssumption DEF SimIInv, SimTypes, SimLockInv, Snapshot, To, Finish, Unlock,
     Holding, ResetFork, Forks, OnFork, forkVars, candidateVars, anvilVars
  <2>4. ForkOk(f) /\ c # NoCandidate
    BY SimulationAssumption DEF SimIInv
  <2>5. QED
    BY <2>2, <2>3, <2>4 DEF ForkOk, Worked, Near
<1>5. QED
  BY <1>1, <1>2, <1>3, <1>4 DEF SimIInv

LEMMA CallFailsKeeps ==
    ASSUME SimIInv, NEW c \in Candidates, CallFails(c) PROVE SimIInv'
<1>1. SimTypes'
  BY SimulationAssumption DEF SimIInv, SimTypes, SimLockInv, CallFails, To, Finish, Unlock,
     Holding, ResetFork, Forks, OnFork, forkVars, candidateVars, anvilVars,
     Lanes, Steps, Ends, Results, Rollback
<1>2. SimLockInv'
  BY SimulationAssumption DEF SimIInv, SimTypes, SimLockInv, CallFails, To, Finish, Unlock,
     Holding, ResetFork, Forks, OnFork, forkVars, candidateVars, anvilVars,
     Lanes, Steps, Ends, Results
<1>3. ASSUME NEW f \in Forks, lockedBy[f] # c, lockedBy'[f] # c PROVE ForkOk(f)'
  BY <1>3, UntouchedFork, SimulationAssumption DEF SimIInv, SimTypes, SimLockInv, CallFails, To, Finish, Unlock,
     Holding, ResetFork, Forks, OnFork, forkVars, candidateVars, anvilVars
<1>4. ASSUME NEW f \in Forks, lockedBy[f] = c \/ lockedBy'[f] = c PROVE ForkOk(f)'
  <2>1. lane[c] = f
    BY <1>4, SimulationAssumption DEF SimIInv, SimTypes, SimLockInv, CallFails, To, Finish, Unlock,
     Holding, ResetFork, Forks, OnFork, forkVars, candidateVars, anvilVars
  <2>2. /\ at[c] \in {"reset", "prepare", "snapshot"} /\ lockedBy'[f] = NoCandidate
        /\ lockedBy[f] = c /\ pinned'[f] = pinned[f] /\ code'[f] = code[f]
        /\ pooled'[f] = pooled[f] /\ extra'[f] = extra[f] /\ forkedAt'[f] = forkedAt[f]
        /\ tainted \subseteq tainted'
        /\ at[c] = "prepare" => f \in tainted'
    BY <1>4, <2>1, SimulationAssumption DEF SimIInv, SimTypes, SimLockInv, CallFails, To, Finish, Unlock,
     Holding, ResetFork, Forks, OnFork, forkVars, candidateVars, anvilVars
  <2>3. ForkOk(f) /\ c # NoCandidate
    BY SimulationAssumption DEF SimIInv
  <2>4. QED
    BY <2>2, <2>3 DEF ForkOk, Worked
<1>5. QED
  BY <1>1, <1>2, <1>3, <1>4 DEF SimIInv

LEMMA SendPayloadKeeps ==
    ASSUME SimIInv, NEW c \in Candidates, SendPayload(c) PROVE SimIInv'
<1>1. SimTypes'
  BY SimulationAssumption DEF SimIInv, SimTypes, SimLockInv, SendPayload, To, Finish, Unlock,
     Holding, ResetFork, Forks, OnFork, forkVars, candidateVars, anvilVars,
     Lanes, Steps, Ends, Results, Rollback
<1>2. SimLockInv'
  BY SimulationAssumption DEF SimIInv, SimTypes, SimLockInv, SendPayload, To, Finish, Unlock,
     Holding, ResetFork, Forks, OnFork, forkVars, candidateVars, anvilVars,
     Lanes, Steps, Ends, Results
<1>3. ASSUME NEW f \in Forks, lockedBy[f] # c, lockedBy'[f] # c PROVE ForkOk(f)'
  BY <1>3, UntouchedFork, SimulationAssumption DEF SimIInv, SimTypes, SimLockInv, SendPayload, To, Finish, Unlock,
     Holding, ResetFork, Forks, OnFork, forkVars, candidateVars, anvilVars
<1>4. ASSUME NEW f \in Forks, lockedBy[f] = c \/ lockedBy'[f] = c PROVE ForkOk(f)'
  <2>1. lane[c] = f
    BY <1>4, SimulationAssumption DEF SimIInv, SimTypes, SimLockInv, SendPayload, To, Finish, Unlock,
     Holding, ResetFork, Forks, OnFork, forkVars, candidateVars, anvilVars
  <2>2. /\ at[c] = "send"
        /\ at'[c] = "mine"
        /\ lockedBy'[f] = c
        /\ lockedBy[f] = c
        /\ pinned'[f] = pinned[f]
        /\ code'[f] = code[f]
        /\ extra'[f] = extra[f]
        /\ forkedAt'[f] = forkedAt[f]
        /\ saved'[f] = saved[f]
        /\ pooled'[f] = TRUE
        /\ parent'[c] = parent[c]
    BY <1>4, <2>1, SimulationAssumption DEF SimIInv, SimTypes, SimLockInv, SendPayload, To, Finish, Unlock,
     Holding, ResetFork, Forks, OnFork, forkVars, candidateVars, anvilVars
  <2>3. f \notin tainted' => f \notin tainted
    BY <2>1, SimulationAssumption DEF SimIInv, SimTypes, SimLockInv, SendPayload, To, Finish, Unlock,
     Holding, ResetFork, Forks, OnFork, forkVars, candidateVars, anvilVars
  <2>4. ForkOk(f) /\ c # NoCandidate
    BY SimulationAssumption DEF SimIInv
  <2>5. QED
    BY <2>2, <2>3, <2>4 DEF ForkOk, Worked, Near
<1>5. QED
  BY <1>1, <1>2, <1>3, <1>4 DEF SimIInv

LEMMA MinePayloadKeeps ==
    ASSUME SimIInv, NEW c \in Candidates, MinePayload(c) PROVE SimIInv'
<1>1. SimTypes'
  BY SimulationAssumption DEF SimIInv, SimTypes, SimLockInv, MinePayload, To, Finish, Unlock,
     Holding, ResetFork, Forks, OnFork, forkVars, candidateVars, anvilVars,
     Lanes, Steps, Ends, Results, Rollback
<1>2. SimLockInv'
  BY SimulationAssumption DEF SimIInv, SimTypes, SimLockInv, MinePayload, To, Finish, Unlock,
     Holding, ResetFork, Forks, OnFork, forkVars, candidateVars, anvilVars,
     Lanes, Steps, Ends, Results
<1>3. ASSUME NEW f \in Forks, lockedBy[f] # c, lockedBy'[f] # c PROVE ForkOk(f)'
  BY <1>3, UntouchedFork, SimulationAssumption DEF SimIInv, SimTypes, SimLockInv, MinePayload, To, Finish, Unlock,
     Holding, ResetFork, Forks, OnFork, forkVars, candidateVars, anvilVars
<1>4. ASSUME NEW f \in Forks, lockedBy[f] = c \/ lockedBy'[f] = c PROVE ForkOk(f)'
  <2>1. lane[c] = f
    BY <1>4, SimulationAssumption DEF SimIInv, SimTypes, SimLockInv, MinePayload, To, Finish, Unlock,
     Holding, ResetFork, Forks, OnFork, forkVars, candidateVars, anvilVars
  <2>2. /\ at[c] = "mine"
        /\ at'[c] = "read"
        /\ lockedBy'[f] = c
        /\ lockedBy[f] = c
        /\ pinned'[f] = pinned[f]
        /\ code'[f] = code[f]
        /\ forkedAt'[f] = forkedAt[f]
        /\ saved'[f] = saved[f]
        /\ pooled'[f] = FALSE
        /\ extra'[f] = TRUE
        /\ parent'[c] = parent[c]
    BY <1>4, <2>1, SimulationAssumption DEF SimIInv, SimTypes, SimLockInv, MinePayload, To, Finish, Unlock,
     Holding, ResetFork, Forks, OnFork, forkVars, candidateVars, anvilVars
  <2>3. f \notin tainted' => f \notin tainted
    BY <2>1, SimulationAssumption DEF SimIInv, SimTypes, SimLockInv, MinePayload, To, Finish, Unlock,
     Holding, ResetFork, Forks, OnFork, forkVars, candidateVars, anvilVars
  <2>4. ForkOk(f) /\ c # NoCandidate
    BY SimulationAssumption DEF SimIInv
  <2>5. QED
    BY <2>2, <2>3, <2>4 DEF ForkOk, Worked, Near
<1>5. QED
  BY <1>1, <1>2, <1>3, <1>4 DEF SimIInv

LEMMA ReadResultKeeps ==
    ASSUME SimIInv, NEW c \in Candidates, ReadResult(c) PROVE SimIInv'
<1>1. SimTypes'
  BY SimulationAssumption, SMTT(30)
  DEF SimIInv, SimTypes, SimLockInv, ReadResult, To, Finish, Unlock,
     Holding, ResetFork, Forks, OnFork, forkVars, candidateVars, anvilVars,
     Lanes, Steps, Ends, Results, Rollback
<1>2. SimLockInv'
  BY SimulationAssumption DEF SimIInv, SimTypes, SimLockInv, ReadResult, To, Finish, Unlock,
     Holding, ResetFork, Forks, OnFork, forkVars, candidateVars, anvilVars,
     Lanes, Steps, Ends, Results
<1>3. ASSUME NEW f \in Forks, lockedBy[f] # c, lockedBy'[f] # c PROVE ForkOk(f)'
  BY <1>3, UntouchedFork, SimulationAssumption DEF SimIInv, SimTypes, SimLockInv, ReadResult, To, Finish, Unlock,
     Holding, ResetFork, Forks, OnFork, forkVars, candidateVars, anvilVars
<1>4. ASSUME NEW f \in Forks, lockedBy[f] = c \/ lockedBy'[f] = c PROVE ForkOk(f)'
  <2>1. lane[c] = f
    BY <1>4, SimulationAssumption DEF SimIInv, SimTypes, SimLockInv, ReadResult, To, Finish, Unlock,
     Holding, ResetFork, Forks, OnFork, forkVars, candidateVars, anvilVars
  <2>2. /\ at[c] = "read"
        /\ at'[c] = "revert"
        /\ lockedBy'[f] = c
        /\ lockedBy[f] = c
        /\ UNCHANGED <<pinned, code, pooled, extra, forkedAt, saved, parent, tainted>>
    BY <1>4, <2>1, SimulationAssumption DEF SimIInv, SimTypes, SimLockInv, ReadResult, To, Finish, Unlock,
     Holding, ResetFork, Forks, OnFork, forkVars, candidateVars, anvilVars
  <2>3. ForkOk(f) /\ c # NoCandidate
    BY SimulationAssumption DEF SimIInv
  <2>4. QED
    BY <2>2, <2>3 DEF ForkOk, Worked, Near
<1>5. QED
  BY <1>1, <1>2, <1>3, <1>4 DEF SimIInv

LEMMA InnerFailsKeeps ==
    ASSUME SimIInv, NEW c \in Candidates, InnerFails(c) PROVE SimIInv'
<1>1. SimTypes'
  BY SimulationAssumption DEF SimIInv, SimTypes, SimLockInv, InnerFails, To, Finish, Unlock,
     Holding, ResetFork, Forks, OnFork, forkVars, candidateVars, anvilVars,
     Lanes, Steps, Ends, Results, Rollback
<1>2. SimLockInv'
  BY SimulationAssumption DEF SimIInv, SimTypes, SimLockInv, InnerFails, To, Finish, Unlock,
     Holding, ResetFork, Forks, OnFork, forkVars, candidateVars, anvilVars,
     Lanes, Steps, Ends, Results
<1>3. ASSUME NEW f \in Forks, lockedBy[f] # c, lockedBy'[f] # c PROVE ForkOk(f)'
  BY <1>3, UntouchedFork, SimulationAssumption DEF SimIInv, SimTypes, SimLockInv, InnerFails, To, Finish, Unlock,
     Holding, ResetFork, Forks, OnFork, forkVars, candidateVars, anvilVars
<1>4. ASSUME NEW f \in Forks, lockedBy[f] = c \/ lockedBy'[f] = c PROVE ForkOk(f)'
  <2>1. lane[c] = f
    BY <1>4, SimulationAssumption DEF SimIInv, SimTypes, SimLockInv, InnerFails, To, Finish, Unlock,
     Holding, ResetFork, Forks, OnFork, forkVars, candidateVars, anvilVars
  <2>2. /\ at[c] \in {"send", "read"}
        /\ at'[c] = "revert"
        /\ lockedBy'[f] = c
        /\ lockedBy[f] = c
        /\ pinned'[f] = pinned[f]
        /\ code'[f] = code[f]
        /\ pooled'[f] = pooled[f]
        /\ extra'[f] = extra[f]
        /\ forkedAt'[f] = forkedAt[f]
        /\ saved'[f] = saved[f]
        /\ parent'[c] = parent[c]
    BY <1>4, <2>1, SimulationAssumption DEF SimIInv, SimTypes, SimLockInv, InnerFails, To, Finish, Unlock,
     Holding, ResetFork, Forks, OnFork, forkVars, candidateVars, anvilVars
  <2>3. f \notin tainted' => f \notin tainted
    BY <2>1, SimulationAssumption DEF SimIInv, SimTypes, SimLockInv, InnerFails, To, Finish, Unlock,
     Holding, ResetFork, Forks, OnFork, forkVars, candidateVars, anvilVars
  <2>4. ForkOk(f) /\ c # NoCandidate
    BY SimulationAssumption DEF SimIInv
  <2>5. QED
    BY <2>2, <2>3, <2>4 DEF ForkOk, Worked, Near
<1>5. QED
  BY <1>1, <1>2, <1>3, <1>4 DEF SimIInv

LEMMA RevertForkKeeps ==
    ASSUME SimIInv, NEW c \in Candidates, RevertFork(c) PROVE SimIInv'
<1>1. SimTypes'
  <2>1. lane[c] \in Forks
    BY SimulationAssumption DEF SimIInv, SimTypes, SimLockInv, RevertFork, To, Finish, Unlock,
     Holding, ResetFork, Forks, OnFork, forkVars, candidateVars, anvilVars
  <2>2. saved[lane[c]] \in BOOLEAN \X BOOLEAN /\ pooled[lane[c]] \in BOOLEAN
        /\ extra[lane[c]] \in BOOLEAN
    BY <2>1 DEF SimIInv, SimTypes
  <2>3. \E p, x \in BOOLEAN : /\ pooled' = [pooled EXCEPT ![lane[c]] = p]
                            /\ extra' = [extra EXCEPT ![lane[c]] = x]
    BY <2>2 DEF RevertFork, Rollback
  <2>4. pooled' \in [Forks -> BOOLEAN] /\ extra' \in [Forks -> BOOLEAN]
    BY <2>1, <2>3 DEF SimIInv, SimTypes
  <2>5. lockedBy' \in [Forks -> Candidates \cup {NoCandidate}] /\ tainted' \subseteq Forks
    BY <2>1 DEF RevertFork, Unlock, SimIInv, SimTypes
  <2>6. at' \in [Candidates -> Steps \cup Ends] /\ inFlight' \subseteq Candidates
    BY DEF RevertFork, Finish, To, SimIInv, SimTypes, Ends, Results
  <2>7. QED
    BY <2>4, <2>5, <2>6 DEF RevertFork, SimIInv, SimTypes
<1>2. SimLockInv'
  BY SimulationAssumption DEF SimIInv, SimTypes, SimLockInv, RevertFork, To, Finish, Unlock,
     Holding, ResetFork, Forks, OnFork, forkVars, candidateVars, anvilVars,
     Lanes, Steps, Ends, Results
<1>3. ASSUME NEW f \in Forks, lockedBy[f] # c, lockedBy'[f] # c PROVE ForkOk(f)'
  BY <1>3, UntouchedFork, SimulationAssumption DEF SimIInv, SimTypes, SimLockInv, RevertFork, To, Finish, Unlock,
     Holding, ResetFork, Forks, OnFork, forkVars, candidateVars, anvilVars
<1>4. ASSUME NEW f \in Forks, lockedBy[f] = c \/ lockedBy'[f] = c PROVE ForkOk(f)'
  <2>1. lane[c] = f
    BY <1>4, SimulationAssumption DEF SimIInv, SimTypes, SimLockInv, RevertFork, To, Finish, Unlock,
     Holding, ResetFork, Forks, OnFork, forkVars, candidateVars, anvilVars
  <2>2. /\ at[c] = "revert" /\ lockedBy'[f] = NoCandidate
        /\ lockedBy[f] = c /\ pinned'[f] = pinned[f] /\ code'[f] = code[f]
        /\ forkedAt'[f] = forkedAt[f] /\ tainted \subseteq tainted'
        /\ f \notin tainted' => pooled'[f] = saved[f][1] /\ extra'[f] = saved[f][2]
    BY <1>4, <2>1, SimulationAssumption DEF SimIInv, SimTypes, SimLockInv, RevertFork, To, Finish, Unlock,
     Holding, ResetFork, Forks, OnFork, forkVars, candidateVars, anvilVars, Rollback
  <2>3. ForkOk(f) /\ c # NoCandidate
    BY SimulationAssumption DEF SimIInv
  <2>4. f \notin tainted => saved[f] = <<FALSE, FALSE>> /\ code[f] = TRUE /\ pinned[f] = forkedAt[f]
    BY <2>2, <2>3 DEF ForkOk, Worked
  <2>5. f \notin tainted' => pooled'[f] = FALSE /\ extra'[f] = FALSE
    <3>1. saved[f] = <<FALSE, FALSE>> => saved[f][1] = FALSE /\ saved[f][2] = FALSE
      OBVIOUS
    <3>2. QED
      BY <2>2, <2>4, <3>1
  <2>6. QED
    BY <2>2, <2>4, <2>5 DEF ForkOk
<1>5. QED
  BY <1>1, <1>2, <1>3, <1>4 DEF SimIInv

LEMMA TimesOutKeeps ==
    ASSUME SimIInv, NEW c \in Candidates, TimesOut(c) PROVE SimIInv'
<1>1. SimTypes'
  <2>1. anvilVars' = anvilVars \/ at[c] \in OnFork
    BY DEF TimesOut, Holding, OnFork
  <2>2. at[c] \in OnFork => parent[c] \in 1 .. SimLastBlock /\ lane[c] \in Forks
    BY SimulationAssumption DEF SimIInv, SimTypes, SimLockInv, TimesOut, To, Finish, Unlock,
     Holding, ResetFork, Forks, OnFork, forkVars, candidateVars, anvilVars
  <2>3. lane[c] \in Forks => saved[lane[c]] \in BOOLEAN \X BOOLEAN
    BY DEF SimIInv, SimTypes
  <2>4. pinned' \in [Forks -> 1 .. SimLastBlock]
    BY <2>1, <2>2 DEF SimIInv, SimTypes, TimesOut, ResetFork, anvilVars
  <2>5. code' \in [Forks -> BOOLEAN]
    BY <2>1, <2>2 DEF SimIInv, SimTypes, TimesOut, ResetFork, anvilVars
  <2>6. pooled' \in [Forks -> BOOLEAN] /\ extra' \in [Forks -> BOOLEAN]
    BY <2>1, <2>2, <2>3 DEF SimIInv, SimTypes, TimesOut, ResetFork, anvilVars
  <2>7. lockedBy' \in [Forks -> Candidates \cup {NoCandidate}] /\ tainted' \subseteq Forks
    BY DEF TimesOut, SimIInv, SimTypes
  <2>8. at' \in [Candidates -> Steps \cup Ends] /\ inFlight' \subseteq Candidates
    BY DEF TimesOut, Finish, To, SimIInv, SimTypes, Ends
  <2>9. QED
    BY <2>4, <2>5, <2>6, <2>7, <2>8 DEF TimesOut, SimIInv, SimTypes
<1>2. SimLockInv'
  BY SimulationAssumption DEF SimIInv, SimTypes, SimLockInv, TimesOut, To, Finish, Unlock,
     Holding, ResetFork, Forks, OnFork, forkVars, candidateVars, anvilVars,
     Lanes, Steps, Ends, Results
<1>3. ASSUME NEW f \in Forks, lockedBy[f] # c, lockedBy'[f] # c PROVE ForkOk(f)'
  BY <1>3, UntouchedFork, SimulationAssumption DEF SimIInv, SimTypes, SimLockInv, TimesOut, To, Finish, Unlock,
     Holding, ResetFork, Forks, OnFork, forkVars, candidateVars, anvilVars
<1>4. ASSUME NEW f \in Forks, lockedBy[f] = c \/ lockedBy'[f] = c PROVE ForkOk(f)'
  <2>1. lane[c] = f
    BY <1>4, SimulationAssumption DEF SimIInv, SimTypes, SimLockInv, TimesOut, To, Finish, Unlock,
     Holding, ResetFork, Forks, OnFork, forkVars, candidateVars, anvilVars
  <2>2. QED
    BY <1>4, <2>1, SimulationAssumption DEF SimIInv, SimTypes, SimLockInv, TimesOut, To, Finish, Unlock,
     Holding, ResetFork, Forks, OnFork, forkVars, candidateVars, anvilVars, ForkOk, Worked, Near, NeedsReset, Rollback, Steps
<1>5. QED
  BY <1>1, <1>2, <1>3, <1>4 DEF SimIInv

LEMMA SimStepKeeps == SimIInv /\ [SimNext]_simVars => SimIInv'
<1> SUFFICES ASSUME SimIInv, [SimNext]_simVars PROVE SimIInv'
  OBVIOUS
<1>1. CASE SimBlock
  <2>1. /\ simHead' \in 1 .. SimLastBlock
        /\ UNCHANGED <<pinned, code, pooled, extra, forkedAt, lockedBy, saved, lane, parent, at,
                       inFlight, tainted>>
    BY <1>1, SimulationAssumption
       DEF SimBlock, SimIInv, SimTypes, forkVars, anvilVars, candidateVars
  <2>2. SimTypes'
    BY <2>1 DEF SimIInv, SimTypes
  <2>3. SimLockInv' /\ \A f \in Forks : ForkOk(f)'
    BY <2>1 DEF SimIInv, SimLockInv, ForkOk, Worked, Near
  <2>4. QED
    BY <2>2, <2>3 DEF SimIInv
<1>2. ASSUME NEW c \in Candidates, SimStep(c) PROVE SimIInv'
  BY <1>2, ConsiderKeeps, ProviderAnswersKeeps, TakeForkKeeps, ResetReturnsKeeps, StatePreparedKeeps, SnapshotKeeps, CallFailsKeeps, SendPayloadKeeps, MinePayloadKeeps, ReadResultKeeps, InnerFailsKeeps, RevertForkKeeps, TimesOutKeeps DEF SimStep
<1>3. CASE UNCHANGED simVars
  BY <1>3 DEF simVars, forkVars, anvilVars, candidateVars, SimIInv, SimTypes, SimLockInv, ForkOk,
              Worked, Near
<1>4. QED
  BY <1>1, <1>2, <1>3 DEF SimNext

LEMMA SimInitHolds == SimInit => SimIInv
<1> SUFFICES ASSUME SimInit PROVE SimIInv
  OBVIOUS
<1>a. 1 \in 1 .. SimLastBlock /\ 0 \in 0 .. SimLastBlock
  BY SimulationAssumption
<1>b. <<FALSE, FALSE>> \in BOOLEAN \X BOOLEAN
  OBVIOUS
<1>c. /\ simHead \in 1 .. SimLastBlock
      /\ pinned \in [Forks -> 1 .. SimLastBlock]
      /\ forkedAt \in [Forks -> 1 .. SimLastBlock]
      /\ parent \in [Candidates -> 0 .. SimLastBlock]
  BY <1>a DEF SimInit
<1>d. /\ code \in [Forks -> BOOLEAN] /\ pooled \in [Forks -> BOOLEAN]
      /\ extra \in [Forks -> BOOLEAN]
      /\ saved \in [Forks -> BOOLEAN \X BOOLEAN]
  BY <1>b DEF SimInit
<1>e. /\ lockedBy \in [Forks -> Candidates \cup {NoCandidate}]
      /\ lane \in [Candidates -> Lanes]
      /\ at \in [Candidates -> Steps \cup Ends]
      /\ inFlight \subseteq Candidates /\ tainted \subseteq Forks
  BY DEF SimInit, Forks, Lanes, Steps, Ends
<1>1. SimTypes
  BY <1>c, <1>d, <1>e DEF SimTypes
<1>2. SimLockInv /\ \A f \in Forks : ForkOk(f)
  BY SimulationAssumption DEF SimInit, SimLockInv, ForkOk, OnFork, Forks
<1>3. QED
  BY <1>1, <1>2 DEF SimIInv

(* The inductive invariant holds in every reachable state. *)
THEOREM SimulationInvariance == SimSpec => []SimIInv
  BY SimInitHolds, SimStepKeeps, PTL DEF SimSpec

(* A candidate is measured on the state it was found in (sim/anvil.rs 467-597). *)
THEOREM SimulationOnItsState == SimSpec => []MeasuredOnItsState
<1>1. SimIInv => MeasuredOnItsState
  <2> SUFFICES ASSUME SimIInv, NEW c \in Candidates, Holding(c, "send"), lane[c] \notin tainted
               PROVE  /\ Clean(lane[c])
                      /\ IF lane[c] = "replay" THEN pinned[lane[c]] = parent[c]
                         ELSE parent[c] < pinned[lane[c]] + ReforkEvery
    BY DEF MeasuredOnItsState
  <2>1. lane[c] \in Forks /\ at[c] = "send" /\ lockedBy[lane[c]] = c
    BY DEF SimIInv, SimLockInv, Holding, OnFork
  <2>2. ForkOk(lane[c]) /\ c # NoCandidate
    BY <2>1, SimulationAssumption DEF SimIInv
  <2>3. Worked(lane[c], c) /\ pinned[lane[c]] = forkedAt[lane[c]]
    BY <2>1, <2>2 DEF ForkOk
  <2>4. QED
    BY <2>1, <2>3 DEF Worked, Clean, Near
<1>2. QED
  BY SimulationInvariance, <1>1, PTL

(* Every variable keeps its type. *)
THEOREM SimTypesHold == SimSpec => []SimTypeOK
<1>1. SimIInv => SimTypeOK
  BY DEF SimIInv, SimTypes, SimTypeOK
<1>2. QED
  BY <1>1, SimulationInvariance, PTL

-----------------------------------------------------------------------------
(***************************************************************************)
(* The Executor contract: a settlement that succeeds has paid what the opener*)
(* of the batch asked for, whatever is called in between.                   *)
(***************************************************************************)

(* Baselines and what an opener found *)
ExecRefs == [profitToken : ExecTokens, block : Nat, balance : Nat]

ExecCalls ==
    [step : {"batch", "flash", "paying"}, phase : 0 .. 2, tag : Tags, g : Guards,
     balBefore : Nat, left : Int, loan : SUBSET ExecTokens, retained : Nat,
     pulled : SUBSET ExecTokens]

ExecTypes ==
    /\ execBlock \in Nat /\ auditedTokens \subseteq ExecTokens
    /\ held \in [ExecTokens -> Nat] /\ snapshot \in [ExecTokens -> Nat]
    /\ call = NoCall \/ call \in ExecCalls

(* A baseline of this block is what an opener found that nothing has closed. *)
SoundBaselines(b) ==
    \A tag \in DOMAIN b :
        /\ b[tag] \in ExecRefs /\ b[tag].block <= execBlock
        /\ b[tag].block = execBlock => tag \in DOMAIN opened /\ opened[tag] = b[tag]

(* What the armed pool pulled of the profit token while a bribe was paid *)
PulledOf(c) == IF c.g.profitToken \in c.pulled THEN 1 ELSE 0

(* What is retained of a profit is held on top of the reference, or pulled. *)
Retains(c, h, armed) ==
    /\ c.pulled # {} => c.step = "paying" /\ ~armed
    /\ c.step = "paying" =>
          /\ c.phase # 1
          /\ c.retained > 0 =>
                h[c.g.profitToken] + PulledOf(c) >= c.retained + c.balBefore

(* What a call refers to: the balance before its transaction, or the one that *)
(* its opener found; and no audited token is noted with less than before.     *)
CallInv ==
    /\ before.held \in [ExecTokens -> Nat] /\ SoundBaselines(before.baselines)
    /\ call.step = "flash" => held = before.held /\ call.phase = 0
    /\ call.phase = 0 => /\ call.balBefore = before.held[call.g.profitToken]
                         /\ baselines = before.baselines
    /\ call.phase = 1 =>
          baselines = With(before.baselines, call.tag,
                           [profitToken |-> call.g.profitToken, block |-> execBlock,
                            balance |-> before.held[call.g.profitToken]])
    /\ call.phase = 2 =>
          /\ call.tag \in DOMAIN opened /\ opened[call.tag].block = execBlock
          /\ call.balBefore = opened[call.tag].balance
          /\ baselines = Without(before.baselines, call.tag)
    /\ call.phase # 1 => \A t \in Watched(call.g) : snapshot[t] >= before.held[t]
    /\ Retains(call, held, v3Armed)

ExecIInv ==
    /\ ExecTypes
    /\ call = NoCall => SoundBaselines(baselines)
    /\ call # NoCall => CallInv

LEMMA ExecGuards ==
    ASSUME NEW g \in Guards
    PROVE  g.profitToken \in ExecTokens /\ g.minProfit \in Nat /\ g.bribeBps \in Nat
BY ExecutorAssumption DEF Guards

LEMMA BribeIsNat ==
    ASSUME NEW g \in Guards, NEW profit \in Nat
    PROVE  Bribe(g, profit) \in Nat
<1> DEFINE q == profit \div 10000
           r == profit % 10000
           b == g.bribeBps
<1>1. b \in Nat /\ q \in Nat /\ r \in Nat
  BY ExecGuards
<1> HIDE DEF q, r, b
<1>2. q * b \in Nat /\ r * b \in Nat
  BY <1>1
<1> DEFINE x == q * b
           y == r * b
<1>3. x \in Nat /\ y \in Nat
  BY <1>2
<1> HIDE DEF x, y
<1>4. x + y \div 10000 \in Nat
  BY <1>3
<1>5. Bribe(g, profit) = (IF g.profitToken = Weth THEN x + y \div 10000 ELSE 0)
  BY DEF Bribe, x, y, q, r, b
<1>6. QED
  BY <1>4, <1>5

(* A token's balance moves and stays a balance. *)
LEMMA TransferKeeps ==
    ASSUME held \in [ExecTokens -> Nat], NEW t \in ExecTokens, NEW d \in {-1, 1},
           Transfers(t, d)
    PROVE  /\ held' \in [ExecTokens -> Nat]
           /\ \A u \in ExecTokens : u # t => held'[u] = held[u]
           /\ held'[t] = held[t] + d
<1>1. held[t] + d \in Nat
  <2>1. held[t] + d \in 0 .. MaxHeld /\ MaxHeld \in Nat
    BY ExecutorAssumption DEF Transfers
  <2>2. QED
    BY <2>1
<1>2. held' = [held EXCEPT ![t] = held[t] + d]
  BY DEF Transfers
<1>3. QED
  BY <1>1, <1>2

LEMMA ExecInitHolds == ExecInit => ExecIInv
<1> SUFFICES ASSUME ExecInit PROVE ExecIInv
  OBVIOUS
<1>1. ExecTypes
  BY DEF ExecInit, ExecTypes, NoSnapshot
<1>2. call = NoCall
  BY DEF ExecInit
<1>3. SoundBaselines(baselines)
  BY DEF ExecInit, SoundBaselines
<1>4. QED
  BY <1>1, <1>2, <1>3 DEF ExecIInv

(* Baselines that lose a tag, or the same ones, are as sound as before. *)
LEMMA SoundSubset ==
    ASSUME NEW b, NEW c, SoundBaselines(b),
           DOMAIN c \subseteq DOMAIN b, \A tag \in DOMAIN c : c[tag] = b[tag]
    PROVE  SoundBaselines(c)
BY DEF SoundBaselines

LEMMA SoundKept ==
    ASSUME NEW b, SoundBaselines(b), execBlock' = execBlock, opened' = opened
    PROVE  /\ \A tag \in DOMAIN b :
                 /\ b[tag] \in ExecRefs /\ b[tag].block <= execBlock'
                 /\ b[tag].block = execBlock' => tag \in DOMAIN opened' /\ opened'[tag] = b[tag]
BY DEF SoundBaselines

(* Administration and a new block: between transactions *)
LEMMA AdminKeeps ==
    ASSUME ExecIInv, ExecAdmin \/ ExecNextBlock
    PROVE  ExecIInv'
<1>1. call = NoCall /\ call' = NoCall /\ snapshot' = snapshot
  BY DEF ExecAdmin, SetSearcher, SetOwner, SetTokenAudit, Moved, ClearExpiredBaseline,
         ExecNextBlock, Between, transientVars
<1>2. SoundBaselines(baselines)
  BY <1>1 DEF ExecIInv
<1>3. /\ execBlock \in Nat /\ held \in [ExecTokens -> Nat]
      /\ snapshot \in [ExecTokens -> Nat]
  BY DEF ExecIInv, ExecTypes
<1>4. held' \in [ExecTokens -> Nat]
  <2>1. CASE \E t \in ExecTokens, d \in {-1, 1} : Moved(t, d)
    BY <1>3, <2>1, TransferKeeps DEF Moved
  <2>2. CASE ~ \E t \in ExecTokens, d \in {-1, 1} : Moved(t, d)
    <3>1. held' = held
      BY <2>2 DEF ExecAdmin, SetSearcher, SetOwner, SetTokenAudit, ClearExpiredBaseline,
                  ExecNextBlock
    <3>2. QED
      BY <1>3, <3>1
  <2>3. QED
    BY <2>1, <2>2
<1>8. auditedTokens' \subseteq ExecTokens
  <2>1. auditedTokens \subseteq ExecTokens
    BY DEF ExecIInv, ExecTypes
  <2>2. CASE \E t \in ExecTokens, status \in BOOLEAN : SetTokenAudit(t, status)
    <3>1. PICK t \in ExecTokens, status \in BOOLEAN : SetTokenAudit(t, status)
      BY <2>2
    <3>2. auditedTokens' = auditedTokens \cup {t} \/ auditedTokens' = auditedTokens \ {t}
      BY <3>1 DEF SetTokenAudit
    <3>3. QED
      BY <2>1, <3>2
  <2>3. CASE ~ \E t \in ExecTokens, status \in BOOLEAN : SetTokenAudit(t, status)
    <3>1. auditedTokens' = auditedTokens
      BY <2>3 DEF ExecAdmin, SetSearcher, SetOwner, Moved, ClearExpiredBaseline,
                  ExecNextBlock, accessVars
    <3>2. QED
      BY <2>1, <3>1
  <2>4. QED
    BY <2>2, <2>3
<1>5. CASE ExecNextBlock
  <2>1. execBlock' = execBlock + 1 /\ baselines' = baselines
    BY <1>5 DEF ExecNextBlock
  <2>2. SoundBaselines(baselines)'
    <3> SUFFICES ASSUME NEW tag \in DOMAIN baselines
                 PROVE  /\ baselines[tag] \in ExecRefs
                        /\ baselines[tag].block <= execBlock + 1
                        /\ baselines[tag].block # execBlock + 1
      BY <2>1 DEF SoundBaselines
    <3>1. baselines[tag] \in ExecRefs /\ baselines[tag].block <= execBlock
      BY <1>2 DEF SoundBaselines
    <3>2. baselines[tag].block \in Nat
      BY <3>1 DEF ExecRefs
    <3>3. QED
      BY <1>3, <3>1, <3>2
  <2>3. QED
    BY <1>1, <1>3, <1>4, <1>8, <2>1, <2>2 DEF ExecIInv, ExecTypes
<1>6. CASE ExecAdmin
  <2>1. execBlock' = execBlock /\ opened' = opened
    BY <1>6 DEF ExecAdmin, SetSearcher, SetOwner, SetTokenAudit, Moved,
                ClearExpiredBaseline
  <2>2. /\ DOMAIN baselines' \subseteq DOMAIN baselines
        /\ \A tag \in DOMAIN baselines' : baselines'[tag] = baselines[tag]
    <3>1. CASE baselines' = baselines
      BY <3>1
    <3>2. ASSUME NEW tag \in Tags, ClearExpiredBaseline(tag)
          PROVE  /\ DOMAIN baselines' \subseteq DOMAIN baselines
                 /\ \A x \in DOMAIN baselines' : baselines'[x] = baselines[x]
      BY <3>2 DEF ClearExpiredBaseline, Without
    <3>3. QED
      BY <1>6, <3>1, <3>2 DEF ExecAdmin, SetSearcher, SetOwner, SetTokenAudit, Moved
  <2>3. SoundBaselines(baselines)'
    BY <1>2, <2>1, <2>2 DEF SoundBaselines
  <2>4. QED
    BY <1>1, <1>3, <1>4, <1>8, <2>1, <2>3 DEF ExecIInv, ExecTypes
<1>7. QED
  BY <1>5, <1>6

(* What every entry point does *)
LEMMA Entered ==
    ASSUME ExecIInv, NEW a, NEW step \in {"batch", "flash"}, NEW phase \in 0 .. 2,
           NEW tag \in Tags, NEW g \in Guards, NEW balBefore \in Nat,
           Enter(a, step, phase, tag, g, balBefore)
    PROVE  /\ call' \in ExecCalls /\ call' # NoCall
           /\ call'.step = step /\ call'.phase = phase /\ call'.tag = tag /\ call'.g = g
           /\ call'.balBefore = balBefore
           /\ before'.held = held /\ before'.baselines = baselines
           /\ held' = held /\ execBlock' = execBlock /\ auditedTokens' = auditedTokens
           /\ call = NoCall /\ SoundBaselines(baselines)
           /\ Retains(call', held', v3Armed')
<1>1. call' = [step |-> step, phase |-> phase, tag |-> tag, g |-> g,
               balBefore |-> balBefore, left |-> MaxCalls, loan |-> {},
               retained |-> 0, pulled |-> {}]
  BY DEF Enter
<1>2. MaxCalls \in Int
  BY ExecutorAssumption
<1>3. call' \in ExecCalls
  BY <1>1, <1>2 DEF ExecCalls
<1>4. call' # NoCall
  <2>1. call'.step # NoCall.step
    BY <1>1 DEF NoCall
  <2>2. QED
    BY <2>1
<1>5. before'.held = held /\ before'.baselines = baselines
  BY DEF Enter, Storage
<1>6. call = NoCall /\ SoundBaselines(baselines)
  BY DEF Enter, Between, ExecIInv
<1>7. Retains(call', held', v3Armed')
  BY <1>1 DEF Retains
<1>8. QED
  BY <1>1, <1>3, <1>4, <1>5, <1>6, <1>7 DEF Enter, accessVars

(* An audited token is noted with what the contract has of it. *)
LEMMA Audited ==
    ASSUME NEW g \in Guards, held \in [ExecTokens -> Nat], snapshot \in [ExecTokens -> Nat],
           auditedTokens \subseteq ExecTokens, AuditBegin(g)
    PROVE  /\ snapshot' \in [ExecTokens -> Nat]
           /\ \A t \in Watched(g) : snapshot'[t] >= held[t]
<1>1. snapshot' = [t \in ExecTokens |->
                      IF t \in Watched(g) /\ held[t] # 0 THEN held[t] ELSE snapshot[t]]
  BY DEF AuditBegin
<1>2. \A t \in ExecTokens : held[t] \in Nat /\ snapshot[t] \in Nat
  OBVIOUS
<1>3. snapshot' \in [ExecTokens -> Nat]
  BY <1>1, <1>2
<1>4. ASSUME NEW t \in Watched(g) PROVE snapshot'[t] >= held[t]
  <2>0. t \in ExecTokens
    BY DEF Watched
  <2>1. CASE held[t] = 0
    BY <1>3, <2>0, <2>1
  <2>2. CASE held[t] # 0
    BY <1>1, <1>2, <2>0, <2>2
  <2>3. QED
    BY <2>1, <2>2
<1>5. QED
  BY <1>3, <1>4

LEMMA OpenKeeps ==
    ASSUME ExecIInv, NEW a, NEW tag \in Tags, NEW g \in Guards, Open(a, tag, g)
    PROVE  ExecIInv'
<1>1. Enter(a, "batch", 1, tag, g, 0) /\ snapshot' = snapshot /\ opened' = opened
      /\ baselines' = With(baselines, tag, Here(g))
  BY DEF Open
<1>2. /\ call' \in ExecCalls /\ call' # NoCall
      /\ call'.step = "batch" /\ call'.phase = 1 /\ call'.tag = tag /\ call'.g = g
      /\ before'.held = held /\ before'.baselines = baselines
      /\ held' = held /\ execBlock' = execBlock /\ auditedTokens' = auditedTokens
      /\ SoundBaselines(baselines) /\ Retains(call', held', v3Armed')
  BY <1>1, Entered
<1>3. ExecTypes'
  BY <1>1, <1>2 DEF ExecIInv, ExecTypes
<1>4. SoundBaselines(before.baselines)'
  BY <1>1, <1>2 DEF SoundBaselines
<1>5. Here(g) = [profitToken |-> call'.g.profitToken, block |-> execBlock',
                 balance |-> before'.held[call'.g.profitToken]]
  BY <1>2 DEF Here
<1>6. baselines' = With(before'.baselines, call'.tag, Here(g))
  BY <1>1, <1>2
<1>7. CallInv'
  BY <1>2, <1>3, <1>4, <1>5, <1>6 DEF CallInv, ExecIInv, ExecTypes, With
<1>8. QED
  BY <1>2, <1>3, <1>7 DEF ExecIInv

LEMMA CloseKeeps ==
    ASSUME ExecIInv, NEW a, NEW tag \in Tags, NEW g \in Guards, Close(a, tag, g)
    PROVE  ExecIInv'
<1>1. /\ Enter(a, "batch", 2, tag, g, baselines[tag].balance)
      /\ opened' = opened /\ AuditBegin(g)
      /\ tag \in DOMAIN baselines /\ baselines[tag].block = execBlock
      /\ baselines' = Without(baselines, tag)
  BY DEF Close, Spent
<1>2. call = NoCall /\ SoundBaselines(baselines)
  BY <1>1 DEF Enter, Between, ExecIInv
<1>3. baselines[tag] \in ExecRefs /\ tag \in DOMAIN opened /\ opened[tag] = baselines[tag]
  BY <1>1, <1>2 DEF SoundBaselines
<1>4. baselines[tag].balance \in Nat
  BY <1>3 DEF ExecRefs
<1>5. /\ call' \in ExecCalls /\ call' # NoCall
      /\ call'.step = "batch" /\ call'.phase = 2 /\ call'.tag = tag /\ call'.g = g
      /\ call'.balBefore = baselines[tag].balance
      /\ before'.held = held /\ before'.baselines = baselines
      /\ held' = held /\ execBlock' = execBlock /\ auditedTokens' = auditedTokens
      /\ Retains(call', held', v3Armed')
  BY <1>1, <1>4, Entered
<1>6. /\ snapshot' \in [ExecTokens -> Nat]
      /\ \A t \in Watched(g) : snapshot'[t] >= held[t]
  BY <1>1, Audited DEF ExecIInv, ExecTypes
<1>7. ExecTypes'
  BY <1>5, <1>6 DEF ExecIInv, ExecTypes
<1>8. SoundBaselines(before.baselines)'
  BY <1>1, <1>2, <1>5 DEF SoundBaselines
<1>9. \A t \in Watched(call.g)' : snapshot'[t] >= before'.held[t]
  BY <1>5, <1>6 DEF Watched
<1>10. baselines' = Without(before'.baselines, call'.tag)
  BY <1>1, <1>5
<1>11. /\ call'.tag \in DOMAIN opened' /\ opened'[call'.tag].block = execBlock'
       /\ call'.balBefore = opened'[call'.tag].balance
  BY <1>1, <1>3, <1>5
<1>12. before'.held \in [ExecTokens -> Nat]
  BY <1>5 DEF ExecIInv, ExecTypes
<1>13. CallInv'
  BY <1>5, <1>8, <1>9, <1>10, <1>11, <1>12 DEF CallInv, Without
<1>14. QED
  BY <1>5, <1>7, <1>13 DEF ExecIInv

LEMMA ExecuteKeeps ==
    ASSUME ExecIInv, NEW a, NEW tag \in Tags, NEW g \in Guards,
           Execute(a, tag, g) \/ FlashExecute(a, tag, g)
    PROVE  ExecIInv'
<1>1. PICK step \in {"batch", "flash"} : Enter(a, step, 0, tag, g, held[g.profitToken])
  BY DEF Execute, FlashExecute
<1>2. opened' = opened /\ baselines' = baselines /\ AuditBegin(g)
  BY DEF Execute, FlashExecute
<1>3. held[g.profitToken] \in Nat
  BY ExecGuards DEF ExecIInv, ExecTypes
<1>4. /\ call' \in ExecCalls /\ call' # NoCall
      /\ call'.phase = 0 /\ call'.g = g
      /\ call'.balBefore = held[g.profitToken]
      /\ before'.held = held /\ before'.baselines = baselines
      /\ held' = held /\ execBlock' = execBlock /\ auditedTokens' = auditedTokens
      /\ SoundBaselines(baselines) /\ Retains(call', held', v3Armed')
  BY <1>1, <1>3, Entered
<1>5. /\ snapshot' \in [ExecTokens -> Nat]
      /\ \A t \in Watched(g) : snapshot'[t] >= held[t]
  BY <1>2, Audited DEF ExecIInv, ExecTypes
<1>6. ExecTypes'
  BY <1>4, <1>5 DEF ExecIInv, ExecTypes
<1>7. SoundBaselines(before.baselines)'
  BY <1>2, <1>4 DEF SoundBaselines
<1>8. \A t \in Watched(call.g)' : snapshot'[t] >= before'.held[t]
  BY <1>4, <1>5 DEF Watched
<1>9. before'.held \in [ExecTokens -> Nat]
  BY <1>4 DEF ExecIInv, ExecTypes
<1>10. CallInv'
  BY <1>2, <1>4, <1>7, <1>8, <1>9 DEF CallInv
<1>11. QED
  BY <1>4, <1>6, <1>10 DEF ExecIInv

(* What a call under way refers to does not change with what it does. *)
LEMMA CallKeeps ==
    ASSUME ExecIInv, call # NoCall, call' \in ExecCalls, call' # NoCall,
           call'.phase = call.phase, call'.tag = call.tag, call'.g = call.g,
           call'.balBefore = call.balBefore, Retains(call', held', v3Armed'),
           call'.step # "flash",
           held' \in [ExecTokens -> Nat], snapshot' \in [ExecTokens -> Nat],
           call.phase # 1 => \A t \in Watched(call.g) : snapshot'[t] >= before.held[t],
           UNCHANGED <<execBlock, auditedTokens, baselines, before, opened>>
    PROVE  ExecIInv'
<1>1. CallInv
  BY DEF ExecIInv
<1>2. ExecTypes'
  BY DEF ExecIInv, ExecTypes
<1>3. SoundBaselines(before.baselines)'
  BY <1>1 DEF CallInv, SoundBaselines
<1>4. Watched(call.g)' = Watched(call.g)
  BY DEF Watched
<1>5. before'.held \in [ExecTokens -> Nat]
  BY <1>1 DEF CallInv
<1>6. call'.phase = 0 => /\ call'.balBefore = before'.held[call'.g.profitToken]
                         /\ baselines' = before'.baselines
  BY <1>1 DEF CallInv
<1>7. call'.phase = 1 =>
          baselines' = With(before'.baselines, call'.tag,
                            [profitToken |-> call'.g.profitToken, block |-> execBlock',
                             balance |-> before'.held[call'.g.profitToken]])
  BY <1>1 DEF CallInv
<1>8. call'.phase = 2 =>
          /\ call'.tag \in DOMAIN opened' /\ opened'[call'.tag].block = execBlock'
          /\ call'.balBefore = opened'[call'.tag].balance
          /\ baselines' = Without(before'.baselines, call'.tag)
  BY <1>1 DEF CallInv
<1>9. call'.phase # 1 => \A t \in Watched(call.g)' : snapshot'[t] >= before'.held[t]
  BY <1>4
<1>10. CallInv'
  BY <1>3, <1>5, <1>6, <1>7, <1>8, <1>9 DEF CallInv, With, Without
<1>11. QED
  BY <1>2, <1>10 DEF ExecIInv

LEMMA BatchKeeps ==
    ASSUME ExecIInv, BatchCall \/ ArmV3Callback \/ RepayLoan
    PROVE  ExecIInv'
<1>1. call.step = "batch"
  BY DEF BatchCall, ArmV3Callback, RepayLoan, InBatch
<1>2. call # NoCall /\ call \in ExecCalls /\ CallInv
  BY <1>1 DEF ExecIInv, ExecTypes, NoCall
<1>3. UNCHANGED <<execBlock, auditedTokens, baselines, before, opened, snapshot>>
  BY DEF BatchCall, ArmV3Callback, RepayLoan, accessVars, transientVars
<1>4. /\ call' \in ExecCalls
      /\ call'.phase = call.phase /\ call'.tag = call.tag /\ call'.g = call.g
      /\ call'.balBefore = call.balBefore /\ call'.step = "batch"
      /\ call'.pulled = call.pulled
  <2>1. CASE Spend
    <3>1. call' = [call EXCEPT !.left = call.left - 1] /\ call.left - 1 \in Int
      BY <1>2, <2>1 DEF Spend, ExecCalls
    <3>2. QED
      BY <1>1, <1>2, <3>1 DEF ExecCalls
  <2>2. CASE RepayLoan
    <3>1. call' = [call EXCEPT !.loan = {}, !.left = 0]
      BY <2>2 DEF RepayLoan
    <3> DEFINE repaid == [call EXCEPT !.loan = {}]
    <3>2. /\ repaid \in ExecCalls
          /\ repaid.phase = call.phase /\ repaid.tag = call.tag /\ repaid.g = call.g
          /\ repaid.balBefore = call.balBefore /\ repaid.step = "batch"
          /\ repaid.pulled = call.pulled
      BY <1>1, <1>2 DEF ExecCalls
    <3>3. call' = [repaid EXCEPT !.left = 0]
      BY <1>2, <3>1 DEF ExecCalls
    <3> HIDE DEF repaid
    <3>4. QED
      BY <3>2, <3>3 DEF ExecCalls
  <2>3. QED
    BY <2>1, <2>2 DEF BatchCall, ArmV3Callback
<1>5. call' # NoCall
  <2>1. call'.step # NoCall.step
    BY <1>4 DEF NoCall
  <2>2. QED
    BY <2>1
<1>6. held \in [ExecTokens -> Nat]
  BY DEF ExecIInv, ExecTypes
<1>7. held' \in [ExecTokens -> Nat]
  <2>1. CASE BatchCall
    <3>1. PICK delta \in [ExecTokens -> {-1, 0, 1}] :
              /\ \A t \in ExecTokens : held[t] + delta[t] \in 0 .. MaxHeld
              /\ held' = [t \in ExecTokens |-> held[t] + delta[t]]
      BY <2>1 DEF BatchCall
    <3>2. \A t \in ExecTokens : held[t] + delta[t] \in Nat
      BY <3>1, ExecutorAssumption
    <3>3. QED
      BY <3>1, <3>2
  <2>2. CASE ArmV3Callback
    BY <1>6, <2>2 DEF ArmV3Callback
  <2>3. CASE RepayLoan
    <3>1. PICK t \in call.loan : Transfers(t, -1)
      BY <2>3 DEF RepayLoan
    <3>2. t \in ExecTokens
      BY <1>2, <3>1 DEF ExecCalls
    <3>3. QED
      BY <1>6, <3>1, <3>2, TransferKeeps
  <2>4. QED
    BY <2>1, <2>2, <2>3
<1>8. snapshot' \in [ExecTokens -> Nat]
  BY <1>3 DEF ExecIInv, ExecTypes
<1>9. call.phase # 1 => \A t \in Watched(call.g) : snapshot'[t] >= before.held[t]
  BY <1>2, <1>3 DEF CallInv
<1>10. Retains(call', held', v3Armed')
  <2>1. call.pulled = {}
    BY <1>1, <1>2 DEF CallInv, Retains
  <2>2. QED
    BY <1>4, <2>1 DEF Retains
<1>11. QED
  BY <1>2, <1>3, <1>4, <1>5, <1>7, <1>8, <1>9, <1>10, CallKeeps

(* What the armed pool pulls of the profit token is still counted. *)
LEMMA MintKeeps ==
    ASSUME ExecIInv, NEW T \in SUBSET ExecTokens, MintCallback(T)
    PROVE  ExecIInv'
<1>1. /\ call.step \in {"batch", "paying"}
      /\ \A t \in T : held[t] > 0
      /\ held' = [t \in ExecTokens |-> IF t \in T THEN held[t] - 1 ELSE held[t]]
      /\ UNCHANGED <<execBlock, auditedTokens, baselines, before, opened, snapshot>>
  BY DEF MintCallback, InBatch, accessVars
<1>2. call # NoCall /\ call \in ExecCalls /\ CallInv
  BY <1>1 DEF ExecIInv, ExecTypes, NoCall
<1>3. \A t \in ExecTokens : held[t] \in Nat
  BY DEF ExecIInv, ExecTypes
<1>4. held' \in [ExecTokens -> Nat]
  <2>1. \A t \in ExecTokens : (IF t \in T THEN held[t] - 1 ELSE held[t]) \in Nat
    BY <1>1, <1>3
  <2>2. QED
    BY <1>1, <2>1
<1>5. snapshot' \in [ExecTokens -> Nat]
  BY <1>1 DEF ExecIInv, ExecTypes
<1>6. call.phase # 1 => \A t \in Watched(call.g) : snapshot'[t] >= before.held[t]
  BY <1>1, <1>2 DEF CallInv
<1>7. Retains(call, held, v3Armed)
  BY <1>2 DEF CallInv
<1>8. CASE InBatch /\ Spend
  <2>1. call' = [call EXCEPT !.left = call.left - 1] /\ call.left - 1 \in Int
        /\ call.step = "batch"
    BY <1>2, <1>8 DEF Spend, InBatch, ExecCalls
  <2>2. /\ call' \in ExecCalls /\ call'.step = "batch"
        /\ call'.phase = call.phase /\ call'.tag = call.tag /\ call'.g = call.g
        /\ call'.balBefore = call.balBefore /\ call'.pulled = call.pulled
    BY <1>2, <2>1 DEF ExecCalls
  <2>3. call' # NoCall
    BY <2>2 DEF NoCall
  <2>4. Retains(call', held', v3Armed')
    BY <1>7, <2>1, <2>2 DEF Retains
  <2>5. QED
    BY <1>1, <1>2, <1>4, <1>5, <1>6, <2>2, <2>3, <2>4, CallKeeps
<1>9. CASE call.step = "paying" /\ call' = [call EXCEPT !.pulled = T]
  <2> DEFINE p == call.g.profitToken
  <2>1. /\ call' \in ExecCalls /\ call'.step = "paying"
        /\ call'.phase = call.phase /\ call'.tag = call.tag /\ call'.g = call.g
        /\ call'.balBefore = call.balBefore /\ call'.retained = call.retained
        /\ call'.pulled = T
    BY <1>2, <1>9 DEF ExecCalls
  <2>2. call' # NoCall
    BY <2>1 DEF NoCall
  <2>3. p \in ExecTokens /\ call.retained \in Nat /\ call.balBefore \in Nat
    BY <1>2, ExecGuards DEF ExecCalls
  <2>4. held'[p] + PulledOf(call') >= held[p]
    <3>1. CASE p \in T
      BY <1>1, <1>3, <2>1, <2>3, <3>1 DEF PulledOf
    <3>2. CASE p \notin T
      BY <1>1, <1>3, <2>1, <2>3, <3>2 DEF PulledOf
    <3>3. QED
      BY <3>1, <3>2
  <2>5. v3Armed /\ ~v3Armed'
    BY DEF MintCallback
  <2>6. PulledOf(call) = 0
    BY <1>7, <2>5 DEF Retains, PulledOf
  <2>7. /\ call.phase # 1
        /\ call.retained > 0 => held[p] >= call.retained + call.balBefore
    BY <1>3, <1>7, <1>9, <2>3, <2>6 DEF Retains
  <2>8. held[p] \in Nat /\ held'[p] \in Nat /\ PulledOf(call') \in Nat
    BY <1>3, <1>4, <2>3 DEF PulledOf
  <2>9. call'.retained > 0 =>
            held'[call'.g.profitToken] + PulledOf(call') >= call'.retained + call'.balBefore
    BY <2>1, <2>3, <2>4, <2>7, <2>8
  <2>10. Retains(call', held', v3Armed')
    BY <2>1, <2>5, <2>7, <2>9 DEF Retains
  <2>11. QED
    BY <1>1, <1>2, <1>4, <1>5, <1>6, <2>1, <2>2, <2>10, CallKeeps
<1>10. QED
  BY <1>8, <1>9 DEF MintCallback

(* The loan comes on top of what was there, so what is noted again is no less.*)
LEMMA LoanKeeps ==
    ASSUME ExecIInv, NEW t \in ExecTokens, ReceiveFlashLoan(t)
    PROVE  ExecIInv'
<1>1. /\ call.step = "flash" /\ Transfers(t, 1)
      /\ snapshot' = [u \in ExecTokens |->
                         IF u \in Watched(call.g) /\ held'[u] # 0 THEN held'[u]
                         ELSE snapshot[u]]
      /\ call' = [call EXCEPT !.step = "batch", !.loan = {t}]
      /\ UNCHANGED <<execBlock, auditedTokens, baselines, before, opened>>
  BY DEF ReceiveFlashLoan, accessVars
<1>2. call # NoCall /\ call \in ExecCalls /\ CallInv
  BY <1>1 DEF ExecIInv, ExecTypes, NoCall
<1>3. /\ call' \in ExecCalls
      /\ call'.phase = call.phase /\ call'.tag = call.tag /\ call'.g = call.g
      /\ call'.balBefore = call.balBefore /\ call'.step = "batch"
      /\ call'.pulled = call.pulled
  BY <1>1, <1>2 DEF ExecCalls
<1>4. call' # NoCall
  <2>1. call'.step # NoCall.step
    BY <1>3 DEF NoCall
  <2>2. QED
    BY <2>1
<1>5. held \in [ExecTokens -> Nat] /\ snapshot \in [ExecTokens -> Nat]
      /\ auditedTokens \subseteq ExecTokens
  BY DEF ExecIInv, ExecTypes
<1>6. /\ held' \in [ExecTokens -> Nat]
      /\ \A u \in ExecTokens : u # t => held'[u] = held[u]
      /\ held'[t] = held[t] + 1
  BY <1>1, <1>5, TransferKeeps
<1>7. \A u \in ExecTokens : held[u] \in Nat /\ held'[u] \in Nat /\ snapshot[u] \in Nat
  BY <1>5, <1>6
<1>8. \A u \in ExecTokens : held'[u] >= held[u]
  <2> TAKE u \in ExecTokens
  <2>1. CASE u = t
    BY <1>6, <1>7, <2>1
  <2>2. CASE u # t
    BY <1>6, <1>7, <2>2
  <2>3. QED
    BY <2>1, <2>2
<1>9. held = before.held
  BY <1>1, <1>2 DEF CallInv
<1>10. snapshot' \in [ExecTokens -> Nat]
  BY <1>1, <1>7
<1>11. ASSUME NEW u \in Watched(call.g) PROVE snapshot'[u] >= before.held[u]
  <2>1. u \in ExecTokens
    BY <1>5 DEF Watched
  <2>2. CASE held'[u] # 0
    BY <1>1, <1>8, <1>9, <2>1, <2>2
  <2>3. CASE held'[u] = 0
    <3>1. held[u] = 0
      BY <1>7, <1>8, <2>1, <2>3
    <3>2. snapshot'[u] \in Nat
      BY <1>10, <2>1
    <3>3. QED
      BY <1>9, <3>1, <3>2
  <2>4. QED
    BY <2>2, <2>3
<1>12. Retains(call', held', v3Armed')
  <2>1. call.pulled = {}
    BY <1>1, <1>2 DEF CallInv, Retains
  <2>2. QED
    BY <1>3, <2>1 DEF Retains
<1>13. QED
  BY <1>1, <1>2, <1>3, <1>4, <1>6, <1>10, <1>11, <1>12, CallKeeps

(* A transaction that is undone leaves the baselines as it found them. *)
LEMMA RevertKeeps ==
    ASSUME ExecIInv, Revert
    PROVE  ExecIInv'
<1>1. /\ call # NoCall /\ call' = NoCall
      /\ baselines' = before.baselines /\ held' = before.held /\ snapshot' = NoSnapshot
      /\ UNCHANGED <<execBlock, auditedTokens, opened>>
  BY DEF Revert, EndTransaction, accessVars
<1>2. CallInv
  BY <1>1 DEF ExecIInv
<1>3. NoSnapshot \in [ExecTokens -> Nat]
  BY DEF NoSnapshot
<1>4. ExecTypes'
  BY <1>1, <1>2, <1>3 DEF ExecIInv, ExecTypes, CallInv
<1>5. SoundBaselines(baselines)'
  BY <1>1, <1>2 DEF CallInv, SoundBaselines
<1>6. QED
  BY <1>1, <1>4, <1>5 DEF ExecIInv

LEMMA OpenedKeeps ==
    ASSUME ExecIInv, Opened
    PROVE  ExecIInv'
<1> DEFINE R == [profitToken |-> call.g.profitToken, block |-> execBlock,
                 balance |-> before.held[call.g.profitToken]]
<1>1. /\ call.step = "batch" /\ call.phase = 1 /\ call' = NoCall /\ snapshot' = NoSnapshot
      /\ opened' = With(opened, call.tag, R)
      /\ UNCHANGED <<execBlock, auditedTokens, baselines, held>>
  BY DEF Opened, EndTransaction, accessVars
<1>2. call # NoCall /\ call \in ExecCalls /\ CallInv
  BY <1>1 DEF ExecIInv, ExecTypes, NoCall
<1>3. baselines = With(before.baselines, call.tag, R) /\ SoundBaselines(before.baselines)
  BY <1>1, <1>2 DEF CallInv
<1>4. R \in ExecRefs /\ R.block = execBlock
  <2>1. call.g.profitToken \in ExecTokens
    BY <1>2, ExecGuards DEF ExecCalls
  <2>2. before.held[call.g.profitToken] \in Nat
    BY <1>2, <2>1 DEF CallInv
  <2>3. QED
    BY <2>1, <2>2 DEF ExecRefs, ExecIInv, ExecTypes
<1> HIDE DEF R
<1>5. NoSnapshot \in [ExecTokens -> Nat]
  BY DEF NoSnapshot
<1>6. ExecTypes'
  BY <1>1, <1>5 DEF ExecIInv, ExecTypes
<1>7. execBlock <= execBlock
  BY DEF ExecIInv, ExecTypes
<1>8. SoundBaselines(baselines)'
  <2> SUFFICES ASSUME NEW x \in DOMAIN baselines
               PROVE  /\ baselines[x] \in ExecRefs /\ baselines[x].block <= execBlock
                      /\ baselines[x].block = execBlock =>
                            x \in DOMAIN opened' /\ opened'[x] = baselines[x]
    BY <1>1 DEF SoundBaselines
  <2>1. CASE x = call.tag
    <3>1. baselines[x] = R /\ x \in DOMAIN opened' /\ opened'[x] = R
      BY <1>1, <1>3, <2>1 DEF With
    <3>2. QED
      BY <1>4, <1>7, <3>1
  <2>2. CASE x # call.tag
    <3>1. x \in DOMAIN before.baselines /\ baselines[x] = before.baselines[x]
      BY <1>3, <2>2 DEF With
    <3>2. x \in DOMAIN opened => x \in DOMAIN opened' /\ opened'[x] = opened[x]
      BY <1>1, <2>2 DEF With
    <3>3. QED
      BY <1>3, <3>1, <3>2 DEF SoundBaselines
  <2>3. QED
    BY <2>1, <2>2
<1>9. QED
  BY <1>1, <1>6, <1>8 DEF ExecIInv

(* What _settle reads as profit is on top of the reference. *)
LEMMA GrossIs ==
    ASSUME ExecIInv, call.step = "batch"
    PROVE  /\ call # NoCall /\ call \in ExecCalls /\ CallInv
           /\ call.g \in Guards /\ call.g.profitToken \in ExecTokens
           /\ call.balBefore \in Nat /\ held[call.g.profitToken] \in Nat
           /\ Gross \in Nat /\ Gross <= held[call.g.profitToken]
           /\ Gross > 0 => held[call.g.profitToken] = Gross + call.balBefore
           /\ Owed \in Nat
<1>1. call # NoCall /\ call \in ExecCalls /\ CallInv
  BY DEF ExecIInv, ExecTypes, NoCall
<1>2. call.g \in Guards /\ call.balBefore \in Nat
  BY <1>1 DEF ExecCalls
<1>3. call.g.profitToken \in ExecTokens
  BY <1>2, ExecGuards
<1>4. held[call.g.profitToken] \in Nat
  BY <1>3 DEF ExecIInv, ExecTypes
<1>5. /\ Gross \in Nat /\ Gross <= held[call.g.profitToken]
      /\ Gross > 0 => held[call.g.profitToken] = Gross + call.balBefore
  BY <1>2, <1>4 DEF Gross
<1>6. Owed \in Nat
  BY <1>2, <1>5, BribeIsNat DEF Owed
<1>7. QED
  BY <1>1, <1>2, <1>3, <1>4, <1>5, <1>6

(* The bribe leaves what is retained on top of the reference. *)
LEMMA BribeKeeps ==
    ASSUME ExecIInv, PayBribe
    PROVE  ExecIInv'
<1> DEFINE p == call.g.profitToken
           moved == [call EXCEPT !.step = "paying"]
           kept == [moved EXCEPT !.left = 0]
<1>1. /\ call.step = "batch" /\ call.phase # 1 /\ Owed \in 1 .. Gross
      /\ call' = [call EXCEPT !.step = "paying", !.left = 0, !.retained = Gross - Owed]
      /\ held' = [held EXCEPT ![p] = held[p] - Owed]
      /\ UNCHANGED <<execBlock, auditedTokens, baselines, before, opened, snapshot>>
  BY DEF PayBribe, Settling, accessVars, transientVars
<1>2. /\ call # NoCall /\ call \in ExecCalls /\ CallInv
      /\ p \in ExecTokens /\ call.balBefore \in Nat /\ held[p] \in Nat
      /\ Gross \in Nat /\ Gross <= held[p] /\ Owed \in Nat
      /\ Gross > 0 => held[p] = Gross + call.balBefore
  BY <1>1, GrossIs
<1>3. Gross - Owed \in Nat /\ held[p] - Owed \in Nat /\ Gross > 0
  BY <1>1, <1>2
<1>4. /\ kept \in ExecCalls /\ kept.step = "paying"
      /\ kept.phase = call.phase /\ kept.tag = call.tag /\ kept.g = call.g
      /\ kept.balBefore = call.balBefore /\ kept.pulled = call.pulled
  <2>1. /\ moved \in ExecCalls /\ moved.step = "paying"
        /\ moved.phase = call.phase /\ moved.tag = call.tag /\ moved.g = call.g
        /\ moved.balBefore = call.balBefore /\ moved.pulled = call.pulled
    BY <1>2 DEF ExecCalls
  <2> HIDE DEF moved
  <2>2. QED
    BY <2>1 DEF ExecCalls
<1>5. call' = [kept EXCEPT !.retained = Gross - Owed]
  BY <1>1, <1>2 DEF ExecCalls
<1> HIDE DEF kept, moved
<1>6. /\ call' \in ExecCalls /\ call'.step = "paying"
      /\ call'.phase = call.phase /\ call'.tag = call.tag /\ call'.g = call.g
      /\ call'.balBefore = call.balBefore /\ call'.pulled = call.pulled
      /\ call'.retained = Gross - Owed
  BY <1>3, <1>4, <1>5 DEF ExecCalls
<1>7. call' # NoCall
  BY <1>6 DEF NoCall
<1>8. held \in [ExecTokens -> Nat] /\ snapshot \in [ExecTokens -> Nat]
  BY DEF ExecIInv, ExecTypes
<1>9. held' \in [ExecTokens -> Nat] /\ held'[p] = held[p] - Owed
  BY <1>1, <1>2, <1>3, <1>8
<1>10. call.pulled = {}
  BY <1>1, <1>2 DEF CallInv, Retains
<1>11. PulledOf(call') \in Nat
  BY DEF PulledOf
<1>12. held'[call'.g.profitToken] + PulledOf(call') >= call'.retained + call'.balBefore
  BY <1>2, <1>3, <1>6, <1>9, <1>11
<1>13. Retains(call', held', v3Armed')
  BY <1>1, <1>6, <1>10, <1>12 DEF Retains
<1>14. call.phase # 1 => \A t \in Watched(call.g) : snapshot'[t] >= before.held[t]
  BY <1>1, <1>2 DEF CallInv
<1>15. QED
  BY <1>1, <1>2, <1>6, <1>7, <1>8, <1>9, <1>13, <1>14, CallKeeps

(* What a settlement has paid, and what it leaves *)
LEMMA SettlementPays ==
    ASSUME ExecIInv, Settle
    PROVE  /\ call # NoCall /\ call \in ExecCalls /\ CallInv /\ call.phase # 1
           /\ held' = held
           /\ call.g.minProfit > 0 =>
                 held[call.g.profitToken] + PulledOf(call) >= call.g.minProfit + call.balBefore
           /\ \A t \in Watched(call.g) : t \in ExecTokens /\ held[t] >= snapshot[t]
<1>1. held' = held /\ AuditHolds(call.g) /\ call.step \in {"batch", "paying"}
  BY DEF Settle, Settling
<1>2. call # NoCall /\ call \in ExecCalls /\ CallInv
  BY <1>1 DEF ExecIInv, ExecTypes, NoCall
<1>3. call.balBefore \in Nat /\ call.g.minProfit \in Nat /\ call.retained \in Nat
      /\ call.g.profitToken \in ExecTokens
  BY <1>2, ExecGuards DEF ExecCalls
<1>4. held[call.g.profitToken] \in Nat /\ PulledOf(call) \in Nat
  BY <1>3 DEF ExecIInv, ExecTypes, PulledOf
<1>5. CASE Settling /\ Owed = 0 /\ Gross >= call.g.minProfit
  <2>1. /\ call.phase # 1 /\ Gross \in Nat
        /\ Gross > 0 => held[call.g.profitToken] = Gross + call.balBefore
    BY <1>5, GrossIs DEF Settling
  <2>2. call.g.minProfit > 0 =>
            held[call.g.profitToken] + PulledOf(call) >= call.g.minProfit + call.balBefore
    BY <1>3, <1>4, <1>5, <2>1
  <2>3. QED
    BY <1>1, <1>2, <2>1, <2>2 DEF AuditHolds, Watched, ExecIInv, ExecTypes
<1>6. CASE call.step = "paying" /\ call.retained >= call.g.minProfit
  <2>1. /\ call.phase # 1
        /\ call.retained > 0 =>
              held[call.g.profitToken] + PulledOf(call) >= call.retained + call.balBefore
    BY <1>2, <1>6 DEF CallInv, Retains
  <2>2. call.g.minProfit > 0 =>
            held[call.g.profitToken] + PulledOf(call) >= call.g.minProfit + call.balBefore
    BY <1>3, <1>4, <1>6, <2>1
  <2>3. QED
    BY <1>1, <1>2, <2>1, <2>2 DEF AuditHolds, Watched, ExecIInv, ExecTypes
<1>7. QED
  BY <1>5, <1>6 DEF Settle

LEMMA SettleKeeps ==
    ASSUME ExecIInv, Settle
    PROVE  ExecIInv'
<1>1. /\ call' = NoCall /\ snapshot' = NoSnapshot
      /\ opened' = (IF call.phase = 2 THEN Without(opened, call.tag) ELSE opened)
      /\ UNCHANGED <<execBlock, auditedTokens, baselines>>
  BY DEF Settle, EndTransaction, accessVars
<1>2. /\ call # NoCall /\ call \in ExecCalls /\ CallInv /\ call.phase # 1
      /\ held' = held
  BY SettlementPays
<1>3. NoSnapshot \in [ExecTokens -> Nat]
  BY DEF NoSnapshot
<1>4. ExecTypes'
  BY <1>1, <1>2, <1>3 DEF ExecIInv, ExecTypes
<1>5. SoundBaselines(baselines)'
  <2>1. SoundBaselines(before.baselines)
    BY <1>2 DEF CallInv
  <2>2. CASE call.phase = 0
    BY <1>1, <1>2, <2>1, <2>2 DEF CallInv, SoundBaselines
  <2>3. CASE call.phase = 2
    <3>1. baselines = Without(before.baselines, call.tag)
      BY <1>2, <2>3 DEF CallInv
    <3>2. opened' = Without(opened, call.tag)
      BY <1>1, <2>3
    <3> SUFFICES ASSUME NEW x \in DOMAIN baselines
                 PROVE  /\ baselines[x] \in ExecRefs /\ baselines[x].block <= execBlock
                        /\ baselines[x].block = execBlock =>
                              x \in DOMAIN opened' /\ opened'[x] = baselines[x]
      BY <1>1 DEF SoundBaselines
    <3>3. x \in DOMAIN before.baselines /\ x # call.tag /\ baselines[x] = before.baselines[x]
      BY <3>1 DEF Without
    <3>4. x \in DOMAIN opened => x \in DOMAIN opened' /\ opened'[x] = opened[x]
      BY <3>2, <3>3 DEF Without
    <3>5. QED
      BY <2>1, <3>3, <3>4 DEF SoundBaselines
  <2>4. call.phase \in {0, 2}
    BY <1>2 DEF ExecCalls
  <2>5. QED
    BY <2>2, <2>3, <2>4
<1>6. QED
  BY <1>1, <1>4, <1>5 DEF ExecIInv

LEMMA ExecStep == ExecIInv /\ [ExecNext]_execVars => ExecIInv'
<1> SUFFICES ASSUME ExecIInv, [ExecNext]_execVars PROVE ExecIInv'
  OBVIOUS
<1>1. CASE ExecAdmin \/ ExecNextBlock
  BY <1>1, AdminKeeps
<1>2. CASE ExecEnter
  BY <1>2, OpenKeeps, CloseKeeps, ExecuteKeeps DEF ExecEnter
<1>3. ASSUME NEW t \in ExecTokens, ReceiveFlashLoan(t) PROVE ExecIInv'
  BY <1>3, LoanKeeps
<1>4. ASSUME NEW T \in SUBSET ExecTokens, MintCallback(T) PROVE ExecIInv'
  BY <1>4, MintKeeps
<1>5. CASE BatchCall \/ ArmV3Callback \/ RepayLoan
  BY <1>5, BatchKeeps
<1>11. CASE PayBribe
  BY <1>11, BribeKeeps
<1>6. CASE Revert
  BY <1>6, RevertKeeps
<1>7. CASE Opened
  BY <1>7, OpenedKeeps
<1>8. CASE Settle
  BY <1>8, SettleKeeps
<1>9. CASE UNCHANGED execVars
  <2>1. UNCHANGED <<execBlock, auditedTokens, held, snapshot, call, baselines, before,
                    opened, v3Armed>>
    BY <1>9 DEF execVars, accessVars, transientVars
  <2>2. ExecTypes'
    BY <2>1 DEF ExecIInv, ExecTypes
  <2>3. SoundBaselines(baselines)' = SoundBaselines(baselines)
    BY <2>1 DEF SoundBaselines
  <2>4. SoundBaselines(before.baselines)' = SoundBaselines(before.baselines)
    BY <2>1 DEF SoundBaselines
  <2>5. Watched(call.g)' = Watched(call.g)
    BY <2>1 DEF Watched
  <2>6. CallInv => CallInv'
    BY <2>1, <2>4, <2>5 DEF CallInv, With, Without, Retains, PulledOf
  <2>7. QED
    BY <2>1, <2>2, <2>3, <2>6 DEF ExecIInv
<1>10. QED
  BY <1>1, <1>2, <1>3, <1>4, <1>5, <1>6, <1>7, <1>8, <1>9, <1>11 DEF ExecNext

(* For any tokens, tags and guards and any batches: what a call refers to is  *)
(* what the contract held before its strategy began, whatever transactions,   *)
(* reverts and administration came in between (MevExecutor.sol).             *)
THEOREM ExecInvariance == ExecSpec => []ExecIInv
<1>1. ExecInit => ExecIInv
  BY ExecInitHolds
<1>2. QED
  BY <1>1, ExecStep, PTL DEF ExecSpec

(* A settlement leaves the contract with the minimum profit on top of what it  *)
(* held before its strategy began, but for what an armed pool pulls while the *)
(* bribe is paid, and with no less of any audited token.                     *)
THEOREM SettlementsPay == ExecSpec => SettlementKeepsItsProfit
<1> DEFINE Kept ==
        LET g == call.g
            pulled == IF g.profitToken \in call.pulled THEN 1 ELSE 0 IN
          /\ call.phase = 2 =>
                call.tag \in DOMAIN opened /\ opened[call.tag].block = execBlock
          /\ g.minProfit > 0 =>
                held'[g.profitToken] + pulled >= g.minProfit +
                    IF call.phase = 2 THEN opened[call.tag].balance
                    ELSE before.held[g.profitToken]
          /\ \A t \in Watched(g) : held'[t] >= before.held[t]
<1>1. ASSUME ExecIInv, Settle PROVE Kept
  <2>1. /\ call \in ExecCalls /\ CallInv /\ call.phase # 1
        /\ held' = held
        /\ call.g.minProfit > 0 =>
              held[call.g.profitToken] + PulledOf(call) >= call.g.minProfit + call.balBefore
        /\ \A t \in Watched(call.g) : t \in ExecTokens /\ held[t] >= snapshot[t]
    BY <1>1, SettlementPays
  <2>2. call.phase = 2 =>
            /\ call.tag \in DOMAIN opened /\ opened[call.tag].block = execBlock
            /\ call.balBefore = opened[call.tag].balance
    BY <2>1 DEF CallInv
  <2>3. call.phase # 2 => call.balBefore = before.held[call.g.profitToken]
    BY <2>1 DEF CallInv, ExecCalls
  <2>4. \A t \in Watched(call.g) : held'[t] >= before.held[t]
    <3> TAKE t \in Watched(call.g)
    <3>1. t \in ExecTokens /\ held'[t] >= snapshot[t] /\ snapshot[t] >= before.held[t]
      BY <2>1 DEF CallInv
    <3>2. held'[t] \in Nat /\ snapshot[t] \in Nat /\ before.held[t] \in Nat
      BY <1>1, <2>1, <3>1 DEF CallInv, ExecIInv, ExecTypes
    <3>3. QED
      BY <3>1, <3>2
  <2>5. QED
    BY <2>1, <2>2, <2>3, <2>4 DEF PulledOf
<1>2. ExecIInv => [Settle => Kept]_execVars
  BY <1>1
<1>3. QED
  BY <1>2, ExecInvariance, PTL DEF SettlementKeepsItsProfit

(* What a transaction carries is of the storage it began with. *)
ExecBalances == [ExecTokens -> 0 .. MaxHeld]

CallTypes ==
    [step : {"batch", "flash", "paying"}, phase : 0 .. 2, tag : Tags, g : Guards,
     balBefore : 0 .. MaxHeld, left : 0 .. MaxCalls, loan : SUBSET ExecTokens,
     retained : 0 .. MaxHeld, pulled : SUBSET ExecTokens]

ExecTypeInv ==
    /\ ExecTypeOK
    /\ call # NoCall =>
          /\ call \in CallTypes
          /\ before.baselines \in Partial(Tags, Reference) /\ before.held \in ExecBalances

LEMMA ExecNumbers ==
    /\ MaxHeld \in Nat /\ MaxCalls \in Nat /\ ExecLastBlock \in Nat /\ ExecLastBlock >= 1
    /\ NoSnapshot \in ExecBalances /\ 0 \in 0 .. MaxHeld /\ MaxCalls \in 0 .. MaxCalls
  BY ExecutorAssumption DEF NoSnapshot, ExecBalances

LEMMA PartialIs ==
    ASSUME NEW S, NEW T, NEW f
    PROVE  f \in Partial(S, T) <=>
              /\ DOMAIN f \subseteq S /\ f = [x \in DOMAIN f |-> f[x]]
              /\ \A x \in DOMAIN f : f[x] \in T
<1>1. ASSUME f \in Partial(S, T)
      PROVE  /\ DOMAIN f \subseteq S /\ f = [x \in DOMAIN f |-> f[x]]
             /\ \A x \in DOMAIN f : f[x] \in T
  <2>1. PICK D \in SUBSET S : f \in [D -> T]
    BY <1>1 DEF Partial
  <2>2. QED
    BY <2>1
<1>2. ASSUME DOMAIN f \subseteq S, f = [x \in DOMAIN f |-> f[x]],
             \A x \in DOMAIN f : f[x] \in T
      PROVE  f \in Partial(S, T)
  <2>1. f \in [DOMAIN f -> T] /\ DOMAIN f \in SUBSET S
    BY <1>2
  <2>2. QED
    BY <2>1 DEF Partial
<1>3. QED
  BY <1>1, <1>2

LEMMA PartialEmpty ==
    ASSUME NEW S, NEW T
    PROVE  [x \in {} |-> 0] \in Partial(S, T)
<1>1. [x \in {} |-> 0] \in [{} -> T] /\ {} \in SUBSET S
  OBVIOUS
<1>2. QED
  BY <1>1 DEF Partial

LEMMA PartialKeeps ==
    ASSUME NEW S, NEW T, NEW f \in Partial(S, T), NEW x \in S, NEW v \in T
    PROVE  With(f, x, v) \in Partial(S, T) /\ Without(f, x) \in Partial(S, T)
<1>1. DOMAIN f \subseteq S /\ \A y \in DOMAIN f : f[y] \in T
  BY PartialIs
<1>2. With(f, x, v) \in [DOMAIN f \cup {x} -> T]
  BY <1>1 DEF With
<1>3. Without(f, x) \in [DOMAIN f \ {x} -> T]
  BY <1>1 DEF Without
<1>4. QED
  BY <1>1, <1>2, <1>3 DEF Partial

LEMMA PartialShrinks ==
    ASSUME NEW S, NEW T, NEW f \in Partial(S, T), NEW x
    PROVE  Without(f, x) \in Partial(S, T)
<1>1. DOMAIN f \subseteq S /\ \A y \in DOMAIN f : f[y] \in T
  BY PartialIs
<1>2. Without(f, x) \in [DOMAIN f \ {x} -> T]
  BY <1>1 DEF Without
<1>3. QED
  BY <1>1, <1>2 DEF Partial

(* Between transactions *)
LEMMA AdminTypes ==
    ASSUME ExecTypeInv, ExecAdmin \/ ExecNextBlock PROVE ExecTypeInv'
<1>1. call = NoCall /\ call' = NoCall /\ UNCHANGED transientVars
  BY DEF ExecAdmin, ExecNextBlock, SetSearcher, SetOwner, SetTokenAudit, Moved,
         ClearExpiredBaseline, Between
<1>2. execBlock' \in 1 .. ExecLastBlock
  BY ExecNumbers DEF ExecTypeInv, ExecTypeOK, ExecAdmin, ExecNextBlock, SetSearcher, SetOwner,
         SetTokenAudit, Moved, ClearExpiredBaseline
<1>3. contractOwner' \in Accounts /\ searchers' \subseteq Accounts /\ auditedTokens' \subseteq ExecTokens
  BY DEF ExecTypeInv, ExecTypeOK, ExecAdmin, ExecNextBlock, SetSearcher, SetOwner,
         SetTokenAudit, Moved, ClearExpiredBaseline, accessVars
<1>4. held' \in ExecBalances
  BY DEF ExecTypeInv, ExecTypeOK, ExecAdmin, ExecNextBlock, SetSearcher, SetOwner,
         SetTokenAudit, Moved, Transfers, ClearExpiredBaseline, ExecBalances
<1>5. baselines' \in Partial(Tags, Reference)
  BY PartialShrinks DEF ExecTypeInv, ExecTypeOK, ExecAdmin, ExecNextBlock, SetSearcher, SetOwner,
         SetTokenAudit, Moved, ClearExpiredBaseline
<1>6. opened' \in Partial(Tags, Reference)
  <2>1. [x \in {} |-> 0] \in Partial(Tags, Reference)
    BY PartialEmpty
  <2>2. opened' = opened \/ opened' = [x \in {} |-> 0]
    BY DEF ExecAdmin, ExecNextBlock, SetSearcher, SetOwner, SetTokenAudit, Moved,
           ClearExpiredBaseline
  <2>3. QED
    BY <2>1, <2>2 DEF ExecTypeInv, ExecTypeOK
<1>7. QED
  BY <1>1, <1>2, <1>3, <1>4, <1>5, <1>6
  DEF ExecTypeInv, ExecTypeOK, ExecBalances, transientVars

(* A transaction begins with what is in storage. *)
LEMMA EnterTypes ==
    ASSUME ExecTypeInv, NEW a \in Accounts, NEW tag \in Tags, NEW g \in Guards,
           Open(a, tag, g) \/ Close(a, tag, g) \/ Execute(a, tag, g) \/ FlashExecute(a, tag, g)
    PROVE  ExecTypeInv'
<1>1. PICK step \in {"batch", "flash"}, phase \in 0 .. 2, bal \in 0 .. MaxHeld :
         Enter(a, step, phase, tag, g, bal)
  <2>1. held[g.profitToken] \in 0 .. MaxHeld /\ 0 \in 0 .. MaxHeld
    BY ExecNumbers, ExecGuards DEF ExecTypeInv, ExecTypeOK
  <2>2. CASE Open(a, tag, g)
    BY <2>1, <2>2 DEF Open
  <2>3. CASE Close(a, tag, g)
    <3>1. tag \in DOMAIN baselines /\ baselines \in Partial(Tags, Reference)
      BY <2>3 DEF Close, ExecTypeInv, ExecTypeOK
    <3>2. baselines[tag] \in Reference
      BY <3>1, PartialIs
    <3>3. baselines[tag].balance \in 0 .. MaxHeld
      BY <3>2 DEF Reference
    <3>4. QED
      BY <2>3, <3>3 DEF Close
  <2>4. CASE Execute(a, tag, g)
    BY <2>1, <2>4 DEF Execute
  <2>5. CASE FlashExecute(a, tag, g)
    BY <2>1, <2>5 DEF FlashExecute
  <2>6. QED
    BY <2>2, <2>3, <2>4, <2>5
<1>2. /\ locked' = TRUE /\ before' = Storage /\ call' \in CallTypes
      /\ UNCHANGED <<execBlock, contractOwner, searchers, auditedTokens, held, v3Armed>>
  BY <1>1, ExecNumbers DEF Enter, CallTypes, accessVars
<1>3. call' # NoCall => before'.baselines = baselines /\ before'.held = held
  BY <1>2 DEF Storage
<1>4. baselines' \in Partial(Tags, Reference)
  <2>1. baselines \in Partial(Tags, Reference)
    BY DEF ExecTypeInv, ExecTypeOK
  <2>2. Here(g) \in Reference
    BY ExecGuards DEF Here, Reference, ExecTypeInv, ExecTypeOK
  <2>3. QED
    BY <2>1, <2>2, PartialKeeps DEF Open, Close, Spent, Execute, FlashExecute
<1>5. opened' = opened /\ flashArmed' \in BOOLEAN
  BY DEF Open, Close, Execute, FlashExecute, ExecTypeInv, ExecTypeOK
<1>6. snapshot' \in ExecBalances
  BY DEF Open, Close, Execute, FlashExecute, AuditBegin, ExecTypeInv, ExecTypeOK, ExecBalances
<1>7. call'.step \in {"batch", "flash", "paying"} /\ call'.phase \in 0 .. 2
      /\ call'.g \in Guards /\ call'.balBefore \in 0 .. MaxHeld /\ call'.left \in 0 .. MaxCalls
      /\ call'.retained \in 0 .. MaxHeld /\ call'.pulled \subseteq ExecTokens
  BY <1>2 DEF CallTypes
<1>8. ExecTypeOK'
  BY <1>2, <1>4, <1>5, <1>6, <1>7 DEF ExecTypeInv, ExecTypeOK, ExecBalances
<1>9. QED
  BY <1>2, <1>3, <1>8 DEF ExecTypeInv, ExecTypeOK, ExecBalances

(* What a transaction does before it ends *)
LEMMA WithinTypes ==
    ASSUME ExecTypeInv,
           \/ \E t \in ExecTokens : ReceiveFlashLoan(t)
           \/ \E T \in SUBSET ExecTokens : MintCallback(T)
           \/ BatchCall \/ ArmV3Callback \/ RepayLoan \/ PayBribe
    PROVE  ExecTypeInv'
<1>1. call # NoCall /\ call \in CallTypes
  <2>1. call.step \in {"batch", "flash", "paying"}
    BY DEF ReceiveFlashLoan, MintCallback, BatchCall, ArmV3Callback, RepayLoan, PayBribe, Settling,
           InBatch
  <2>2. QED
    BY <2>1 DEF ExecTypeInv, NoCall
<1>2. UNCHANGED <<execBlock, contractOwner, searchers, auditedTokens, baselines, locked, flashArmed,
                  before, opened>>
  BY DEF ReceiveFlashLoan, MintCallback, BatchCall, ArmV3Callback, RepayLoan, PayBribe, accessVars,
         transientVars
<1>10. PayBribe => /\ call.g.profitToken \in ExecTokens
                   /\ Gross \in 0 .. held[call.g.profitToken]
  <2>1. call.g.profitToken \in ExecTokens /\ call.balBefore \in 0 .. MaxHeld
    BY <1>1, ExecGuards DEF CallTypes
  <2>2. held[call.g.profitToken] \in 0 .. MaxHeld
    BY <2>1 DEF ExecTypeInv, ExecTypeOK
  <2>3. QED
    BY <2>1, <2>2 DEF Gross
<1>3. held' \in ExecBalances
  <2>1. held \in ExecBalances
    BY DEF ExecTypeInv, ExecTypeOK, ExecBalances
  <2>2. CASE UNCHANGED held
    BY <2>1, <2>2
  <2>3. CASE \E t \in ExecTokens, d \in {-1, 1} : Transfers(t, d)
    BY <2>1, <2>3 DEF Transfers, ExecBalances
  <2>4. CASE BatchCall
    BY <2>4 DEF BatchCall, ExecBalances
  <2>5. CASE RepayLoan
    <3>1. call.loan \subseteq ExecTokens
      BY <1>1 DEF CallTypes
    <3>2. QED
      BY <2>3, <2>5, <3>1 DEF RepayLoan
  <2>6. ASSUME NEW T \in SUBSET ExecTokens, MintCallback(T) PROVE held' \in ExecBalances
    <3>1. /\ \A t \in T : held[t] > 0
          /\ held' = [t \in ExecTokens |-> IF t \in T THEN held[t] - 1 ELSE held[t]]
      BY <2>6 DEF MintCallback
    <3>2. \A t \in ExecTokens : held[t] \in 0 .. MaxHeld
      BY <2>1 DEF ExecBalances
    <3>3. QED
      BY <3>1, <3>2, ExecNumbers DEF ExecBalances
  <2>7. CASE PayBribe
    <3>1. /\ call.g.profitToken \in ExecTokens /\ Owed \in 1 .. Gross
          /\ Gross \in 0 .. held[call.g.profitToken]
      BY <1>10, <2>7 DEF PayBribe
    <3>2. QED
      BY <2>1, <2>7, <3>1, ExecNumbers DEF PayBribe, ExecBalances
  <2>8. QED
    BY <2>2, <2>3, <2>4, <2>5, <2>6, <2>7 DEF ReceiveFlashLoan, ArmV3Callback
<1>4. snapshot' \in ExecBalances
  BY <1>3 DEF ReceiveFlashLoan, MintCallback, BatchCall, ArmV3Callback, RepayLoan,
              PayBribe, transientVars, ExecTypeInv, ExecTypeOK, ExecBalances
<1>5. v3Armed' \in BOOLEAN
  BY DEF ReceiveFlashLoan, MintCallback, BatchCall, ArmV3Callback, RepayLoan, PayBribe, transientVars,
         ExecTypeInv, ExecTypeOK
<1>6. call' \in CallTypes
  <2>1. CASE \E t \in ExecTokens : ReceiveFlashLoan(t)
    <3>1. PICK t \in ExecTokens : call' = [call EXCEPT !.step = "batch", !.loan = {t}]
      BY <2>1 DEF ReceiveFlashLoan
    <3>2. {t} \in SUBSET ExecTokens /\ "batch" \in {"batch", "flash", "paying"}
      OBVIOUS
    <3>3. QED
      BY <1>1, <3>1, <3>2 DEF CallTypes
  <2>2. CASE InBatch /\ Spend
    <3>1. call.left \in 0 .. MaxCalls /\ call.left > 0 /\ MaxCalls \in Nat
      BY <1>1, <2>2, ExecNumbers DEF InBatch, CallTypes
    <3>2. call.left - 1 \in 0 .. MaxCalls
      BY <3>1
    <3>3. QED
      BY <1>1, <2>2, <3>2 DEF Spend, CallTypes
  <2>3. CASE RepayLoan
    <3>1. 0 \in 0 .. MaxCalls
      BY ExecNumbers
    <3>2. QED
      BY <1>1, <2>3, <3>1 DEF RepayLoan, CallTypes
  <2>4. CASE PayBribe
    <3>1. 0 \in 0 .. MaxCalls /\ "paying" \in {"batch", "flash", "paying"}
      BY ExecNumbers
    <3>2. held[call.g.profitToken] \in 0 .. MaxHeld
      BY <1>10, <2>4 DEF ExecTypeInv, ExecTypeOK
    <3>3. Gross - Owed \in 0 .. MaxHeld
      BY <1>10, <2>4, <3>2, ExecNumbers DEF PayBribe
    <3>4. call' = [call EXCEPT !.step = "paying", !.left = 0, !.retained = Gross - Owed]
      BY <2>4 DEF PayBribe
    <3> DEFINE k == [call EXCEPT !.step = "paying", !.left = 0]
    <3>5. k \in CallTypes
      BY <1>1, <3>1 DEF CallTypes
    <3>6. call' = [k EXCEPT !.retained = Gross - Owed]
      BY <1>1, <3>4 DEF CallTypes
    <3> HIDE DEF k
    <3>7. QED
      BY <3>3, <3>5, <3>6 DEF CallTypes
  <2>5. ASSUME NEW T \in SUBSET ExecTokens, call' = [call EXCEPT !.pulled = T]
        PROVE  call' \in CallTypes
    BY <1>1, <2>5 DEF CallTypes
  <2>6. QED
    BY <2>1, <2>2, <2>3, <2>4, <2>5 DEF MintCallback, BatchCall, ArmV3Callback
<1>7. call'.step \in {"batch", "flash", "paying"} /\ call'.phase \in 0 .. 2
      /\ call'.g \in Guards /\ call'.balBefore \in 0 .. MaxHeld /\ call'.left \in 0 .. MaxCalls
      /\ call'.retained \in 0 .. MaxHeld /\ call'.pulled \subseteq ExecTokens
  BY <1>6 DEF CallTypes
<1>8. ExecTypeOK'
  BY <1>2, <1>3, <1>4, <1>5, <1>7 DEF ExecTypeInv, ExecTypeOK, ExecBalances
<1>9. QED
  BY <1>1, <1>2, <1>6, <1>8 DEF ExecTypeInv

(* A transaction ends. *)
LEMMA EndTypes ==
    ASSUME ExecTypeInv, Revert \/ Opened \/ Settle
    PROVE  ExecTypeInv'
<1>1. /\ call' = NoCall /\ locked' = FALSE /\ flashArmed' = FALSE /\ v3Armed' = FALSE
      /\ snapshot' = NoSnapshot
      /\ UNCHANGED <<execBlock, contractOwner, searchers, auditedTokens>>
  BY DEF Revert, Opened, Settle, EndTransaction, accessVars
<1>2. call # NoCall
  BY DEF Revert, Opened, Settle, Settling, NoCall
<1>3. /\ call \in CallTypes /\ before.baselines \in Partial(Tags, Reference)
      /\ before.held \in ExecBalances
  BY <1>2 DEF ExecTypeInv
<1>4. /\ held \in ExecBalances /\ baselines \in Partial(Tags, Reference)
      /\ opened \in Partial(Tags, Reference) /\ execBlock \in 1 .. ExecLastBlock
  BY DEF ExecTypeInv, ExecTypeOK, ExecBalances
<1>5. call.g \in Guards /\ call.tag \in Tags /\ call.balBefore \in 0 .. MaxHeld
  BY <1>3 DEF CallTypes
<1>6. baselines' \in Partial(Tags, Reference)
  BY <1>3, <1>4 DEF Revert, Opened, Settle
<1>7. opened' \in Partial(Tags, Reference)
  <2>1. [profitToken |-> call.g.profitToken, block |-> execBlock,
         balance |-> before.held[call.g.profitToken]] \in Reference
    BY <1>3, <1>4, <1>5, ExecGuards DEF Reference, ExecBalances
  <2>2. QED
    BY <1>4, <1>5, <2>1, PartialKeeps, PartialShrinks DEF Revert, Opened, Settle
<1>8. held' \in ExecBalances
  BY <1>3, <1>4 DEF Revert, Opened, Settle
<1>9. QED
  BY <1>1, <1>4, <1>6, <1>7, <1>8, ExecNumbers DEF ExecTypeInv, ExecTypeOK, ExecBalances

(* Every variable keeps its type; no balance goes below zero, whatever bribe a *)
(* settlement pays.                                                        *)
THEOREM ExecTypesHold == ExecSpec => []ExecTypeOK
<1>1. ExecInit => ExecTypeInv
  <2> SUFFICES ASSUME ExecInit PROVE ExecTypeInv
    OBVIOUS
  <2>1. [x \in {} |-> 0] \in Partial(Tags, Reference)
    BY PartialEmpty
  <2>2. execBlock \in 1 .. ExecLastBlock
    BY ExecNumbers DEF ExecInit
  <2>3. held \in ExecBalances /\ snapshot \in ExecBalances
    BY ExecNumbers DEF ExecInit
  <2>4. searchers \subseteq Accounts /\ contractOwner \in Accounts /\ auditedTokens \subseteq ExecTokens
    BY DEF ExecInit
  <2>5. QED
    BY <2>1, <2>2, <2>3, <2>4 DEF ExecInit, ExecTypeInv, ExecTypeOK, ExecBalances
<1>2. ExecTypeInv /\ [ExecNext]_execVars => ExecTypeInv'
  <2> SUFFICES ASSUME ExecTypeInv, [ExecNext]_execVars PROVE ExecTypeInv'
    OBVIOUS
  <2>1. CASE ExecNext
    BY <2>1, AdminTypes, EnterTypes, WithinTypes, EndTypes DEF ExecNext, ExecEnter
  <2>2. CASE UNCHANGED execVars
    BY <2>2 DEF execVars, accessVars, transientVars, ExecTypeInv, ExecTypeOK
  <2>3. QED
    BY <2>1, <2>2
<1>3. QED
  BY <1>1, <1>2, PTL DEF ExecSpec, ExecTypeInv

-----------------------------------------------------------------------------
(***************************************************************************)
(* Routing: a cycle that is offered pays what it says, for any pools, fees, *)
(* reserves and bounds.                                                     *)
(***************************************************************************)

(* Induction along 0 .. n, for a set that holds 0 and the successors *)
LEMMA UpTo ==
    ASSUME NEW n \in Nat, NEW S, 0 \in S, \A k \in 1 .. n : k - 1 \in S => k \in S
    PROVE  \A k \in 0 .. n : k \in S
<1> DEFINE smaller == {p \in Nat \X Nat : p[1] < p[2]}
           missed == {k \in 0 .. n : k \notin S}
<1>1. SUFFICES ASSUME missed # {} PROVE FALSE
  OBVIOUS
<1>2. IsWellFoundedOn(smaller, Nat)
  BY NatLessThanWellFounded DEF OpToRel
<1>3. missed \subseteq Nat
  OBVIOUS
<1>4. PICK k \in missed : \A j \in missed : <<j, k>> \notin smaller
  <2> HIDE DEF smaller, missed
  <2>1. QED
    BY <1>1, <1>2, <1>3, WFMin
<1>5. k # 0 /\ k \in 1 .. n /\ k - 1 \in 0 .. n
  BY <1>4
<1>6. k - 1 \in missed
  BY <1>4, <1>5
<1>7. <<k - 1, k>> \in smaller
  BY <1>5
<1>8. QED
  BY <1>4, <1>6, <1>7

(* The values n steps go through from s on *)
IsHistory(h, n, States, s, step) ==
    h \in [0 .. n -> States] /\ h[0] = s /\ \A k \in 1 .. n : h[k] = step[k][h[k - 1]]

(* Steps that stay in a set have a history. *)
LEMMA StepsExist ==
    ASSUME NEW n \in Nat, NEW States, NEW s \in States, NEW step,
           \A k \in 1 .. n, t \in States : step[k][t] \in States
    PROVE  \E h : IsHistory(h, n, States, s, step)
<1> DEFINE reached == {m \in 0 .. n : \E h : IsHistory(h, m, States, s, step)}
<1>1. 0 \in reached
  <2>1. [k \in 0 .. 0 |-> s] \in [0 .. 0 -> States]
    OBVIOUS
  <2>2. [k \in 0 .. 0 |-> s][0] = s /\ 1 .. 0 = {}
    OBVIOUS
  <2>3. IsHistory([k \in 0 .. 0 |-> s], 0, States, s, step)
    BY <2>1, <2>2 DEF IsHistory
  <2>4. QED
    BY <2>3
<1>2. ASSUME NEW m \in 1 .. n, m - 1 \in reached PROVE m \in reached
  <2>1. PICK g : IsHistory(g, m - 1, States, s, step)
    BY <1>2
  <2>10. /\ g \in [0 .. m - 1 -> States] /\ g[0] = s
         /\ \A k \in 1 .. m - 1 : g[k] = step[k][g[k - 1]]
    BY <2>1 DEF IsHistory
  <2> DEFINE h == [k \in 0 .. m |-> IF k = m THEN step[m][g[m - 1]] ELSE g[k]]
  <2>2. \A k \in 0 .. m : h[k] = (IF k = m THEN step[m][g[m - 1]] ELSE g[k])
    OBVIOUS
  <2>3. m - 1 \in 0 .. m - 1
    BY <1>2
  <2>4. step[m][g[m - 1]] \in States
    BY <2>10, <2>3
  <2>5. h \in [0 .. m -> States]
    <3>1. \A k \in 0 .. m : k = m \/ k \in 0 .. m - 1
      BY <1>2
    <3>2. QED
      BY <2>10, <2>4, <3>1
  <2>6. h[0] = s
    BY <1>2, <2>10, <2>2
  <2>7. \A k \in 1 .. m : h[k] = step[k][h[k - 1]]
    <3> TAKE k \in 1 .. m
    <3>1. k \in 0 .. m /\ k - 1 \in 0 .. m /\ k - 1 # m
      BY <1>2
    <3>2. h[k - 1] = g[k - 1]
      BY <2>2, <3>1
    <3>3. CASE k = m
      BY <2>2, <3>1, <3>2, <3>3
    <3>4. CASE k # m
      <4>1. k \in 1 .. m - 1
        BY <1>2, <3>4
      <4>2. QED
        BY <2>10, <2>2, <3>1, <3>2, <3>4, <4>1
    <3>5. QED
      BY <3>3, <3>4
  <2>8. IsHistory(h, m, States, s, step)
    <3> HIDE DEF h
    <3>1. QED
      BY <2>5, <2>6, <2>7 DEF IsHistory
  <2>9. m \in 0 .. n
    BY <1>2
  <2> HIDE DEF h
  <2>11. QED
    BY <2>8, <2>9
<1>3. \A m \in 0 .. n : m \in reached
  <2> HIDE DEF reached
  <2>1. QED
    BY <1>1, <1>2, UpTo
<1>4. n \in reached
  BY <1>3
<1>5. QED
  BY <1>4

(* A quotient is bounded by any bound on the dividend. *)
LEMMA DivBounded ==
    ASSUME NEW a \in Nat, NEW b \in Nat, NEW d \in Nat \ {0}, a <= b * d
    PROVE  a \div d \in Nat /\ a \div d <= b
<1> DEFINE q == a \div d
<1>0. q \in Int
  OBVIOUS
<1>1. q \in Int /\ d * q <= a /\ a < d * q + d
  OBVIOUS
<1> HIDE DEF q
<1>2. q \in Nat
  <2>1. SUFFICES ASSUME q <= -1 PROVE FALSE
    BY <1>1
  <2>2. d * q + d <= 0
    <3>1. 0 - (q + 1) \in Nat /\ d * (0 - (q + 1)) \in Nat
      <4> DEFINE e == 0 - (q + 1)
      <4>1. e \in Nat
        BY <1>0, <2>1
      <4> HIDE DEF e
      <4>2. d * e \in Nat
        BY <4>1
      <4>3. QED
        BY <4>1, <4>2 DEF e
    <3>2. d * (0 - (q + 1)) = 0 - d * (q + 1) /\ d * (q + 1) = d * q + d
      BY <1>1
    <3>3. d * q \in Int
      BY <1>1
    <3>4. QED
      BY <3>1, <3>2, <3>3
  <2>3. QED
    BY <1>1, <2>2
<1>3. q <= b
  <2>1. SUFFICES ASSUME q >= b + 1 PROVE FALSE
    BY <1>1
  <2>2. d * q >= d * (b + 1)
    <3>1. q - (b + 1) \in Nat /\ d * (q - (b + 1)) \in Nat
      BY <1>1, <2>1
    <3>2. d * q = d * (b + 1) + d * (q - (b + 1))
      BY <1>1
    <3>3. d * q \in Int /\ d * (b + 1) \in Int
      BY <1>1
    <3>4. QED
      BY <3>1, <3>2, <3>3
  <2>3. d * (b + 1) = b * d + d
    OBVIOUS
  <2>4. QED
    BY <1>1, <2>2, <2>3
<1>4. QED
  BY <1>2, <1>3 DEF q

(* A pool gives a whole amount, no more than it has, and nothing for nothing. *)
LEMMA V2Bounded ==
    ASSUME NEW x, NEW rIn, NEW rOut, NEW fee,
           x \in Nat, rIn \in Nat, rOut \in Nat, fee \in 0 .. 999
    PROVE  V2AmountOut(x, rIn, rOut, fee) \in 0 .. rOut
<1>0. V2AmountOut(0, rIn, rOut, fee) = 0
  BY DEF V2AmountOut
<1>1. CASE 0 \in {x, rIn, rOut}
  BY <1>0, <1>1 DEF V2AmountOut
<1>2. CASE 0 \notin {x, rIn, rOut}
  <2> DEFINE taxed == x * (1000 - fee)
             whole == rIn * 1000 + taxed
  <2>1. taxed \in Nat
    <3>1. 1000 - fee \in Nat
      OBVIOUS
    <3>2. QED
      BY <3>1
  <2>2. V2AmountOut(x, rIn, rOut, fee) = (taxed * rOut) \div whole
    BY <1>2 DEF V2AmountOut
  <2> HIDE DEF taxed
  <2>3. whole \in Nat \ {0} /\ whole = rIn * 1000 + taxed
    BY <1>2, <2>1
  <2>4. taxed * rOut \in Nat /\ taxed * rOut <= rOut * whole
    <3>1. rOut * whole = rOut * (rIn * 1000) + taxed * rOut
      BY <2>1, <2>3
    <3>2. rOut * (rIn * 1000) \in Nat /\ taxed * rOut \in Nat
      BY <2>1
    <3> HIDE DEF whole
    <3>3. QED
      BY <2>3, <3>1, <3>2
  <2> HIDE DEF whole
  <2>5. (taxed * rOut) \div whole \in Nat /\ (taxed * rOut) \div whole <= rOut
    BY <2>3, <2>4, DivBounded
  <2>6. QED
    BY <1>0, <2>2, <2>5
<1>3. QED
  BY <1>1, <1>2

LEMMA AeroBounded ==
    ASSUME NEW x, NEW rIn, NEW rOut, NEW fee,
           x \in Nat, rIn \in Nat, rOut \in Nat, fee \in 0 .. 999
    PROVE  AeroAmountOut(x, rIn, rOut, fee) \in 0 .. rOut
<1> DEFINE xin == x - (x * fee) \div 1000
<1>1. xin \in Nat
  <2>1. x * fee \in Nat /\ x * fee <= x * 1000
    <3>1. 1000 - fee \in Nat /\ x * (1000 - fee) \in Nat /\ x * fee \in Nat
      OBVIOUS
    <3>2. x * 1000 = x * fee + x * (1000 - fee)
      OBVIOUS
    <3>3. QED
      BY <3>1, <3>2
  <2>2. (x * fee) \div 1000 \in Nat /\ (x * fee) \div 1000 <= x
    BY <2>1, DivBounded
  <2>3. QED
    BY <2>2
<1>2. AeroAmountOut(0, rIn, rOut, fee) = 0
  BY DEF AeroAmountOut
<1>3. AeroAmountOut(x, rIn, rOut, fee) =
          IF 0 \in {xin, rIn, rOut} THEN 0 ELSE (xin * rOut) \div (rIn + xin)
  BY DEF AeroAmountOut
<1> HIDE DEF xin
<1>4. CASE 0 \in {xin, rIn, rOut}
  BY <1>2, <1>3, <1>4
<1>5. CASE 0 \notin {xin, rIn, rOut}
  <2> DEFINE whole == rIn + xin
  <2>1. whole \in Nat \ {0}
    BY <1>1, <1>5
  <2>2. xin * rOut \in Nat /\ xin * rOut <= rOut * whole
    <3>1. rOut * whole = rOut * rIn + xin * rOut
      BY <1>1
    <3>2. rOut * rIn \in Nat /\ xin * rOut \in Nat
      BY <1>1
    <3> HIDE DEF whole
    <3>3. QED
      BY <2>1, <3>1, <3>2
  <2>3. (xin * rOut) \div whole \in Nat /\ (xin * rOut) \div whole <= rOut
    <3> HIDE DEF whole
    <3>1. QED
      BY <2>1, <2>2, DivBounded
  <2>4. QED
    BY <1>2, <1>3, <1>5, <2>3
<1>6. QED
  BY <1>4, <1>5

LEMMA AfterFeeIs ==
    ASSUME NEW x, NEW fee, x \in Nat, fee \in 0 .. 999
    PROVE  AfterFee(x, fee) \in Nat /\ AfterFee(0, fee) = 0
<1>1. 1000 - fee \in Nat
  OBVIOUS
<1> DEFINE b == 1000 - fee
<1> HIDE DEF b
<1>2. x * b \in Nat /\ 0 * b = 0
  BY <1>1 DEF b
<1> DEFINE a == x * b
<1>3. a \in Nat
  BY <1>2
<1> HIDE DEF a
<1>4. a \div 1000 \in Nat /\ 0 \div 1000 = 0
  BY <1>3
<1>5. AfterFee(x, fee) = a \div 1000 /\ AfterFee(0, fee) = (0 * b) \div 1000
  BY DEF AfterFee, a, b
<1>6. QED
  BY <1>2, <1>4, <1>5

LEMMA V3Bounded ==
    ASSUME NEW x, NEW rIn, NEW rOut, NEW fee,
           x \in Nat, rIn \in Nat, rOut \in Nat, fee \in 0 .. 999
    PROVE  V3AmountOut(x, rIn, rOut, fee) \in 0 .. rOut /\ V3AmountOut(0, rIn, rOut, fee) = 0
<1> DEFINE xin == AfterFee(x, fee)
<1>1. xin \in Nat /\ AfterFee(0, fee) = 0
  BY AfterFeeIs
<1> HIDE DEF xin
<1>2. AeroAmountOut(xin, rIn, rOut, 0) \in 0 .. rOut
  BY <1>1, AeroBounded
<1>3. AeroAmountOut(0, rIn, rOut, 0) = 0
  BY DEF AeroAmountOut
<1>4. QED
  BY <1>1, <1>2, <1>3 DEF V3AmountOut, xin

Depths == [1 .. 2 -> Nat]

PoolStates == [RoutePools -> Depths]

AllEdges == Edges(RoutePools)

LEMMA SideIs ==
    ASSUME NEW p \in RoutePools, NEW i \in 1 .. 2
    PROVE  Side(p, PairOf[p][i]) = i /\ PairOf[p][i] # PairOf[p][3 - i]
<1>1. PairOf[p][1] # PairOf[p][2] /\ 1 .. 2 = {1, 2}
  BY RoutingAssumption
<1>2. \A j \in 1 .. 2 : PairOf[p][j] = PairOf[p][i] <=> j = i
  BY <1>1
<1>3. QED
  BY <1>1, <1>2 DEF Side

(* An edge is a pool in one of its two directions. *)
LEMMA EdgeIs ==
    ASSUME NEW e \in AllEdges
    PROVE  /\ e.pool \in RoutePools /\ e.from \in Tokens /\ e.to \in Tokens /\ e.from # e.to
           /\ Side(e.pool, e.from) \in 1 .. 2
           /\ PairOf[e.pool][Side(e.pool, e.from)] = e.from
           /\ PairOf[e.pool][3 - Side(e.pool, e.from)] = e.to
           /\ e = [pool |-> e.pool, from |-> e.from, to |-> e.to]
<1>1. PICK p \in RoutePools, i \in 1 .. 2 :
          e = [pool |-> p, from |-> PairOf[p][i], to |-> PairOf[p][3 - i]]
  BY DEF AllEdges, Edges
<1>2. 3 - i \in 1 .. 2 /\ DOMAIN PairOf[p] = 1 .. 2
  BY RoutingAssumption
<1>3. PairOf[p][i] \in Tokens /\ PairOf[p][3 - i] \in Tokens
  BY <1>2 DEF Tokens, Range
<1>4. Side(p, PairOf[p][i]) = i /\ PairOf[p][i] # PairOf[p][3 - i]
  BY SideIs
<1>5. QED
  BY <1>1, <1>2, <1>3, <1>4

(* Two edges over one pool out of one token are the same. *)
LEMMA EdgesDiffer ==
    ASSUME NEW e \in AllEdges, NEW d \in AllEdges, e.pool = d.pool, e.from = d.from
    PROVE  e = d
BY EdgeIs

LEMMA SideOfEither ==
    ASSUME NEW p \in RoutePools, NEW token, Trades(p, token)
    PROVE  /\ Side(p, token) \in 1 .. 2 /\ 3 - Side(p, token) \in 1 .. 2
           /\ PairOf[p][Side(p, token)] = token /\ token \in Tokens
           /\ PairOf[p][3 - Side(p, token)] \in Tokens
<1>1. DOMAIN PairOf[p] = 1 .. 2
  BY RoutingAssumption
<1>2. PICK i \in 1 .. 2 : token = PairOf[p][i]
  BY <1>1 DEF Trades, Range
<1>3. Side(p, token) = i /\ 3 - i \in 1 .. 2
  BY <1>2, SideIs
<1>4. PairOf[p][3 - i] \in Tokens /\ PairOf[p][i] \in Tokens
  BY <1>1, <1>3 DEF Tokens, Range
<1>5. QED
  BY <1>2, <1>3, <1>4

LEMMA AmountBounded ==
    ASSUME NEW state \in PoolStates, NEW p \in RoutePools, NEW token, Trades(p, token),
           NEW x \in Nat
    PROVE  /\ AmountOut(state, p, token, x) \in 0 .. state[p][3 - Side(p, token)]
           /\ AmountOut(state, p, token, 0) = 0
<1> DEFINE rIn == state[p][Side(p, token)]
           rOut == state[p][3 - Side(p, token)]
           fee == FeeOf[p]
<1>1. rIn \in Nat /\ rOut \in Nat /\ fee \in 0 .. 999
  <2>1. Side(p, token) \in 1 .. 2 /\ 3 - Side(p, token) \in 1 .. 2
    BY SideOfEither
  <2>2. state[p] \in [1 .. 2 -> Nat]
    BY DEF PoolStates, Depths
  <2>3. rIn \in Nat /\ rOut \in Nat
    BY <2>1, <2>2
  <2>4. fee \in 0 .. 999
    BY RoutingAssumption
  <2>5. QED
    BY <2>3, <2>4
<1>2. ASSUME NEW y \in Nat
      PROVE  AmountOut(state, p, token, y) =
                 CASE KindOf[p] = "v2"   -> V2AmountOut(y, rIn, rOut, fee)
                   [] KindOf[p] = "aero" -> AeroAmountOut(y, rIn, rOut, fee)
                   [] KindOf[p] = "v3"   -> V3AmountOut(y, rIn, rOut, fee)
                   [] OTHER              -> 0
  BY DEF AmountOut
<1> HIDE DEF rIn, rOut, fee
<1>3. ASSUME NEW y \in Nat PROVE AmountOut(state, p, token, y) \in 0 .. rOut
  <2>1. V2AmountOut(y, rIn, rOut, fee) \in 0 .. rOut
    BY <1>1, V2Bounded
  <2>2. AeroAmountOut(y, rIn, rOut, fee) \in 0 .. rOut
    BY <1>1, AeroBounded
  <2>3. V3AmountOut(y, rIn, rOut, fee) \in 0 .. rOut
    BY <1>1, V3Bounded
  <2>4. 0 \in 0 .. rOut
    BY <1>1
  <2>5. QED
    BY <1>2, <2>1, <2>2, <2>3, <2>4
<1>4. /\ V2AmountOut(0, rIn, rOut, fee) = 0 /\ AeroAmountOut(0, rIn, rOut, fee) = 0
      /\ V3AmountOut(0, rIn, rOut, fee) = 0
  <2>1. V2AmountOut(0, rIn, rOut, fee) = 0 /\ AeroAmountOut(0, rIn, rOut, fee) = 0
    BY <1>1 DEF V2AmountOut, AeroAmountOut
  <2>2. V3AmountOut(0, rIn, rOut, fee) = 0
    BY <1>1, V3Bounded
  <2>3. QED
    BY <2>1, <2>2
<1>5. AmountOut(state, p, token, 0) = 0
  BY <1>2, <1>4
<1>6. QED
  BY <1>3, <1>5 DEF rOut

LEMMA AfterTradeKeeps ==
    ASSUME NEW state \in PoolStates, NEW p \in RoutePools, NEW token, Trades(p, token),
           NEW x \in Nat, NEW out \in 0 .. state[p][3 - Side(p, token)]
    PROVE  /\ AfterTrade(state, p, token, x, out) \in PoolStates
           /\ \A q \in RoutePools \ {p} : AfterTrade(state, p, token, x, out)[q] = state[q]
<1> DEFINE i == Side(p, token)
           after == AfterTrade(state, p, token, x, out)
           kept == IF KindOf[p] = "v3" THEN AfterFee(x, FeeOf[p]) ELSE x
<1>1. i \in 1 .. 2 /\ 3 - i \in 1 .. 2 /\ i # 3 - i
  BY SideOfEither
<1>2. state[p] \in Depths /\ state[p][i] \in Nat /\ state[p][3 - i] \in Nat
  BY <1>1 DEF PoolStates, Depths
<1>3. after = [state EXCEPT ![p] = [[state[p] EXCEPT ![i] = @ + kept] EXCEPT ![3 - i] = @ - out]]
  BY <1>1, <1>2 DEF AfterTrade, PoolStates, Depths
<1>8. kept \in Nat
  BY AfterFeeIs, RoutingAssumption
<1> HIDE DEF i, after, kept
<1>4. state[p][3 - i] - out \in Nat /\ state[p][i] + kept \in Nat
  BY <1>1, <1>2, <1>8 DEF i
<1>5. [[state[p] EXCEPT ![i] = @ + kept] EXCEPT ![3 - i] = @ - out] \in Depths
  BY <1>1, <1>2, <1>4 DEF Depths
<1>6. after \in PoolStates /\ \A q \in RoutePools \ {p} : after[q] = state[q]
  BY <1>3, <1>5 DEF PoolStates
<1>7. QED
  BY <1>6 DEF after

LEMMA WithSwapKeeps ==
    ASSUME NEW state \in PoolStates, NEW p \in RoutePools, NEW token, Trades(p, token),
           NEW x \in Nat
    PROVE  WithSwap(state, p, token, x) \in PoolStates
<1>1. AmountOut(state, p, token, x) \in 0 .. state[p][3 - Side(p, token)]
  BY AmountBounded
<1>2. QED
  BY <1>1, AfterTradeKeeps DEF WithSwap

LEMMA EdgeTrades ==
    ASSUME NEW e \in AllEdges
    PROVE  Trades(e.pool, e.from)
<1>1. PairOf[e.pool][Side(e.pool, e.from)] = e.from /\ Side(e.pool, e.from) \in DOMAIN PairOf[e.pool]
  BY EdgeIs, RoutingAssumption
<1>2. QED
  BY <1>1 DEF Trades, Range

(* A quote is what the pool gives, or zero; of nothing it is zero. *)
LEMMA QuoteIs ==
    ASSUME NEW state \in PoolStates, NEW book, NEW e \in AllEdges, NEW x \in Nat
    PROVE  /\ Quote(state, book, e, x) \in Nat
           /\ Quote(state, book, e, 0) = 0
           /\ Quote(state, book, e, x) # 0 =>
                 Quote(state, book, e, x) = AmountOut(state, e.pool, e.from, x)
<1>1. e.pool \in RoutePools /\ Trades(e.pool, e.from)
  BY EdgeIs, EdgeTrades
<1>2. AmountOut(state, e.pool, e.from, x) \in Nat
  <2>1. AmountOut(state, e.pool, e.from, x) \in 0 .. state[e.pool][3 - Side(e.pool, e.from)]
    BY <1>1, AmountBounded
  <2>2. QED
    BY <2>1
<1>3. AmountOut(state, e.pool, e.from, 0) = 0
  BY <1>1, AmountBounded
<1>4. QED
  BY <1>2, <1>3 DEF Quote

(* A leg at a time *)
Along(a, state, book, cycle, n, x) ==
    /\ a \in [0 .. n -> Nat] /\ a[0] = x
    /\ \A k \in 1 .. n : a[k] = Quote(state, book, cycle[k], a[k - 1])

(* The amounts along a cycle obey the recursion that defines them. *)
LEMMA AmountsAre ==
    ASSUME NEW state \in PoolStates, NEW book, NEW cycle, NEW n \in Nat,
           cycle \in [1 .. n -> AllEdges], NEW x \in Nat
    PROVE  Along(Amounts(state, book, cycle, x), state, book, cycle, n, x)
<1> DEFINE step == [k \in 1 .. n |-> [y \in Nat |-> Quote(state, book, cycle[k], y)]]
           amounts == Amounts(state, book, cycle, x)
<1>1. Len(cycle) = n
  OBVIOUS
<1>2. \A k \in 1 .. n, y \in Nat : Quote(state, book, cycle[k], y) \in Nat
  BY QuoteIs
<1>3. \A k \in 1 .. n, y \in Nat : step[k][y] = Quote(state, book, cycle[k], y)
  OBVIOUS
<1> HIDE DEF step
<1>13. PICK h : IsHistory(h, n, Nat, x, step)
  <2>1. \A k \in 1 .. n, y \in Nat : step[k][y] \in Nat
    BY <1>2, <1>3
  <2>2. QED
    BY <2>1, StepsExist
<1>4. h \in [0 .. n -> Nat] /\ h[0] = x /\ \A k \in 1 .. n : h[k] = step[k][h[k - 1]]
  BY <1>13 DEF IsHistory
<1>5. \A k \in 1 .. n : h[k] = Quote(state, book, cycle[k], h[k - 1])
  <2> TAKE k \in 1 .. n
  <2>1. k - 1 \in 0 .. n
    OBVIOUS
  <2>2. h[k - 1] \in Nat
    BY <1>4, <2>1
  <2>3. QED
    BY <1>3, <1>4, <2>2
<1>6. h = [k \in 0 .. n |-> IF k = 0 THEN x ELSE Quote(state, book, cycle[k], h[k - 1])]
  BY <1>4, <1>5
<1>7. amounts = [k \in 0 .. n |-> IF k = 0 THEN x ELSE Quote(state, book, cycle[k], amounts[k - 1])]
  BY <1>1, <1>6 DEF Amounts
<1> HIDE DEF amounts
<1>8. \A k \in 0 .. n : amounts[k] = IF k = 0 THEN x ELSE Quote(state, book, cycle[k], amounts[k - 1])
  BY <1>7
<1>9. amounts[0] = x /\ \A k \in 1 .. n : amounts[k] = Quote(state, book, cycle[k], amounts[k - 1])
  BY <1>8
<1>10. \A k \in 0 .. n : amounts[k] \in Nat
  <2> DEFINE sound == {k \in 0 .. n : amounts[k] \in Nat}
  <2>1. 0 \in sound
    BY <1>9
  <2>2. \A k \in 1 .. n : k - 1 \in sound => k \in sound
    <3> TAKE k \in 1 .. n
    <3> HAVE k - 1 \in sound
    <3>1. amounts[k - 1] \in Nat /\ cycle[k] \in AllEdges /\ k \in 0 .. n
      OBVIOUS
    <3>2. Quote(state, book, cycle[k], amounts[k - 1]) \in Nat
      BY <3>1, QuoteIs
    <3>3. QED
      BY <1>9, <3>1, <3>2
  <2>3. \A k \in 0 .. n : k \in sound
    <3> HIDE DEF sound
    <3>1. QED
      BY <2>1, <2>2, UpTo
  <2>4. QED
    BY <2>3
<1>11. amounts \in [0 .. n -> Nat]
  BY <1>7, <1>10
<1>12. QED
  BY <1>9, <1>11 DEF amounts, Along

(* What the plan's calls are run on *)
Purses == [ok : BOOLEAN, pools : PoolStates, held : [Tokens -> Int]]

IsCall(leg) ==
    leg.pool \in RoutePools /\ Trades(leg.pool, leg.from) /\ leg.amount \in Nat /\ leg.out \in Nat

IsSwap(swap) == swap.pool \in RoutePools /\ Trades(swap.pool, swap.from) /\ swap.amount \in Nat

LEMMA LegKeeps ==
    ASSUME NEW s \in Purses, NEW leg, IsCall(leg)
    PROVE  Call(s, leg) \in Purses
<1> DEFINE p == leg.pool
           best == AmountOut(s.pools, p, leg.from, leg.amount)
           out == IF KindOf[p] = "v2" THEN leg.out ELSE best
           to == PairOf[p][3 - Side(p, leg.from)]
           next == [s EXCEPT !.pools = AfterTrade(@, p, leg.from, leg.amount, out),
                             !.held = [s.held EXCEPT ![leg.from] = @ - leg.amount, ![to] = @ + out]]
<1>1. p \in RoutePools /\ Trades(p, leg.from) /\ leg.amount \in Nat /\ leg.out \in Nat
  BY DEF IsCall
<1>2. s.pools \in PoolStates /\ s.held \in [Tokens -> Int]
  BY DEF Purses
<1>3. best \in 0 .. s.pools[p][3 - Side(p, leg.from)]
  BY <1>1, <1>2, AmountBounded
<1>4. to \in Tokens /\ leg.from \in Tokens
  BY <1>1, SideOfEither
<1>5. Call(s, leg) = IF \/ s.held[leg.from] < leg.amount \/ out > best
                         \/ (out = 0 /\ KindOf[p] # "v3")
                      THEN [s EXCEPT !.ok = FALSE] ELSE next
  BY DEF Call
<1>6. [s EXCEPT !.ok = FALSE] \in Purses
  BY DEF Purses
<1>7. ASSUME ~(out > best) PROVE next \in Purses
  <2>1. out \in 0 .. s.pools[p][3 - Side(p, leg.from)]
    <3>1. s.pools[p][3 - Side(p, leg.from)] \in Nat
      BY <1>1, <1>2, SideOfEither DEF PoolStates, Depths
    <3> HIDE DEF best, p
    <3>2. QED
      BY <1>1, <1>3, <1>7, <3>1
  <2>2. AfterTrade(s.pools, p, leg.from, leg.amount, out) \in PoolStates
    BY <1>1, <1>2, <2>1, AfterTradeKeeps
  <2>3. out \in Int
    BY <2>1
  <2> HIDE DEF best, out, to, p
  <2>4. [s.held EXCEPT ![leg.from] = @ - leg.amount, ![to] = @ + out] \in [Tokens -> Int]
    BY <1>1, <1>2, <1>4, <2>3
  <2> DEFINE pools == AfterTrade(s.pools, p, leg.from, leg.amount, out)
             purse == [s.held EXCEPT ![leg.from] = @ - leg.amount, ![to] = @ + out]
  <2>5. next = [s EXCEPT !.pools = pools, !.held = purse]
    OBVIOUS
  <2> HIDE DEF next, pools, purse
  <2>6. pools \in PoolStates /\ purse \in [Tokens -> Int]
    BY <2>2, <2>4 DEF pools, purse
  <2>7. QED
    BY <2>5, <2>6 DEF Purses
<1> HIDE DEF best, out, next
<1>8. QED
  BY <1>5, <1>6, <1>7

LEMMA VictimKeeps ==
    ASSUME NEW s \in Purses, NEW swap, IsSwap(swap)
    PROVE  VictimCall(s, swap) \in Purses
<1> DEFINE out == AmountOut(s.pools, swap.pool, swap.from, swap.amount)
<1>1. swap.pool \in RoutePools /\ Trades(swap.pool, swap.from) /\ swap.amount \in Nat
  BY DEF IsSwap
<1>2. s.pools \in PoolStates
  BY DEF Purses
<1>3. AfterTrade(s.pools, swap.pool, swap.from, swap.amount, out) \in PoolStates
  BY <1>1, <1>2, AmountBounded, AfterTradeKeeps
<1>4. VictimCall(s, swap) = IF out < swap.minOut THEN [s EXCEPT !.ok = FALSE]
          ELSE [s EXCEPT !.pools = AfterTrade(s.pools, swap.pool, swap.from, swap.amount, out)]
  BY DEF VictimCall, Purses
<1> HIDE DEF out
<1>5. QED
  BY <1>3, <1>4 DEF Purses

PlanCalls(plan) == plan.front \o plan.victim \o plan.back

Ours(plan, k) == k <= Len(plan.front) \/ k > Len(plan.front \o plan.victim)

PlanStart(plan) ==
    [ok |-> TRUE, pools |-> reserves,
     held |-> [t \in Tokens |-> IF t = Anchor THEN plan.amountIn ELSE 0]]

AfterCall(plan, s, k) ==
    IF Ours(plan, k) THEN Call(s, PlanCalls(plan)[k]) ELSE VictimCall(s, PlanCalls(plan)[k])

IsRun(f, plan, n) ==
    /\ f \in [0 .. n -> Purses] /\ f[0] = PlanStart(plan)
    /\ \A k \in 1 .. n : f[k] = AfterCall(plan, f[k - 1], k)

(* An account with x of the anchor *)
Funded(s, state, x) ==
    /\ s \in Purses /\ s.ok /\ s.pools = state
    /\ \A t \in Tokens : s.held[t] = IF t = Anchor THEN x ELSE 0

(* The account a run begins with holds the amount it spends. *)
LEMMA StartIsFunded ==
    ASSUME NEW plan, NEW n \in Nat, NEW f, IsRun(f, plan, n)
    PROVE  /\ \A k \in 0 .. n : f[k] \in Purses
           /\ Funded(f[0], reserves, plan.amountIn)
<1>1. f[0] = PlanStart(plan) /\ \A k \in 0 .. n : f[k] \in Purses
  BY DEF IsRun
<1>2. f[0] \in Purses
  BY <1>1
<1>3. /\ f[0].ok /\ f[0].pools = reserves
      /\ \A t \in Tokens : f[0].held[t] = IF t = Anchor THEN plan.amountIn ELSE 0
  BY <1>1 DEF PlanStart
<1>4. QED
  BY <1>1, <1>2, <1>3 DEF Funded

(* A plan of well-formed calls has a run, and Executed is where it ends. *)
LEMMA RunExists ==
    ASSUME reserves \in PoolStates, NEW plan, plan.amountIn \in Nat,
           NEW n \in Nat, Len(PlanCalls(plan)) = n,
           \A k \in 1 .. n : /\ Ours(plan, k) => IsCall(PlanCalls(plan)[k])
                             /\ ~Ours(plan, k) => IsSwap(PlanCalls(plan)[k])
    PROVE  \E f : IsRun(f, plan, n) /\ Executed(plan) = f[n]
<1> DEFINE step == [k \in 1 .. n |-> [s \in Purses |-> AfterCall(plan, s, k)]]
           start == PlanStart(plan)
<1>1. \A k \in 1 .. n, s \in Purses : AfterCall(plan, s, k) \in Purses
  BY LegKeeps, VictimKeeps DEF AfterCall
<1>2. \A k \in 1 .. n, s \in Purses : step[k][s] = AfterCall(plan, s, k)
  OBVIOUS
<1>3. start \in Purses
  BY DEF PlanStart, Purses
<1> HIDE DEF step, start
<1>4. PICK h : IsHistory(h, n, Purses, start, step)
  <2>1. \A k \in 1 .. n, s \in Purses : step[k][s] \in Purses
    BY <1>1, <1>2
  <2>2. QED
    BY <1>3, <2>1, StepsExist
<1>5. h \in [0 .. n -> Purses] /\ h[0] = start /\ \A k \in 1 .. n : h[k] = step[k][h[k - 1]]
  BY <1>4 DEF IsHistory
<1>6. \A k \in 1 .. n : h[k] = AfterCall(plan, h[k - 1], k)
  <2> TAKE k \in 1 .. n
  <2>1. k - 1 \in 0 .. n
    OBVIOUS
  <2>2. h[k - 1] \in Purses
    BY <1>5, <2>1
  <2>3. QED
    BY <1>2, <1>5, <2>2
<1>7. h = [k \in 0 .. n |-> IF k = 0 THEN start ELSE AfterCall(plan, h[k - 1], k)]
  BY <1>5, <1>6
<1> DEFINE runs(f) == f = [k \in 0 .. n |-> IF k = 0 THEN start ELSE AfterCall(plan, f[k - 1], k)]
           after == CHOOSE f : runs(f)
<1>8. Executed(plan) = after[n]
  BY DEF Executed, AfterCall, PlanCalls, Ours, start, PlanStart
<1>9. runs(after)
  BY <1>7
<1> HIDE DEF after
<1>10. \A k \in 0 .. n : after[k] = IF k = 0 THEN start ELSE AfterCall(plan, after[k - 1], k)
  BY <1>9
<1>11. after[0] = start /\ \A k \in 1 .. n : after[k] = AfterCall(plan, after[k - 1], k)
  BY <1>10
<1>12. \A k \in 0 .. n : after[k] \in Purses
  <2> DEFINE sound == {k \in 0 .. n : after[k] \in Purses}
  <2>1. 0 \in sound
    BY <1>3, <1>11
  <2>2. \A k \in 1 .. n : k - 1 \in sound => k \in sound
    BY <1>1, <1>11
  <2>3. \A k \in 0 .. n : k \in sound
    <3> HIDE DEF sound
    <3>1. QED
      BY <2>1, <2>2, UpTo
  <2>4. QED
    BY <2>3
<1>13. after \in [0 .. n -> Purses]
  BY <1>9, <1>12
<1>14. IsRun(after, plan, n)
  BY <1>11, <1>13 DEF IsRun, start
<1>15. QED
  BY <1>8, <1>14

(* Every amount is what the pool gives for the one before. *)
Priced(a, state, cycle, n) ==
    /\ \A k \in 0 .. n : a[k] \in Nat \ {0}
    /\ \A k \in 1 .. n : a[k] = AmountOut(state, cycle[k].pool, cycle[k].from, a[k - 1])

(* A cycle that ends with something had something all along: no quote in it  *)
(* failed.                                                                 *)
LEMMA AmountsPositive ==
    ASSUME NEW state \in PoolStates, NEW book, NEW cycle, NEW n \in Nat,
           cycle \in [1 .. n -> AllEdges], NEW x \in Nat, NEW amounts,
           amounts = Amounts(state, book, cycle, x), amounts[n] # 0
    PROVE  Priced(amounts, state, cycle, n)
<1>1. /\ amounts \in [0 .. n -> Nat]
      /\ \A k \in 1 .. n : amounts[k] = Quote(state, book, cycle[k], amounts[k - 1])
  <2>1. Along(amounts, state, book, cycle, n, x)
    BY AmountsAre
  <2>2. QED
    BY <2>1 DEF Along
<1> DEFINE some == {k \in 0 .. n : amounts[n - k] # 0}
<1>2. 0 \in some
  OBVIOUS
<1>3. ASSUME NEW k \in 1 .. n, k - 1 \in some PROVE k \in some
  <2>1. n - k + 1 \in 1 .. n /\ n - k \in 0 .. n /\ n - (k - 1) = n - k + 1 /\ n - k + 1 - 1 = n - k
    OBVIOUS
  <2>2. amounts[n - k + 1] # 0
    BY <1>3, <2>1
  <2>3. amounts[n - k + 1] = Quote(state, book, cycle[n - k + 1], amounts[n - k])
    BY <1>1, <2>1
  <2>4. cycle[n - k + 1] \in AllEdges
    BY <2>1
  <2>5. Quote(state, book, cycle[n - k + 1], 0) = 0
    BY <2>4, QuoteIs
  <2>6. amounts[n - k] # 0
    BY <2>2, <2>3, <2>5
  <2>7. QED
    BY <2>6
<1>4. \A k \in 0 .. n : k \in some
  <2> HIDE DEF some
  <2>1. QED
    BY <1>2, <1>3, UpTo
<1>5. ASSUME NEW k \in 0 .. n PROVE amounts[k] \in Nat \ {0}
  <2>1. n - k \in 0 .. n /\ n - (n - k) = k
    OBVIOUS
  <2>2. n - k \in some
    BY <1>4, <2>1
  <2>3. amounts[k] # 0
    BY <2>1, <2>2
  <2>4. QED
    BY <1>1, <2>3
<1>6. ASSUME NEW k \in 1 .. n
      PROVE  amounts[k] = AmountOut(state, cycle[k].pool, cycle[k].from, amounts[k - 1])
  <2>1. k \in 0 .. n /\ k - 1 \in 0 .. n /\ cycle[k] \in AllEdges
    OBVIOUS
  <2>2. amounts[k] # 0 /\ amounts[k - 1] \in Nat
    BY <1>5, <2>1
  <2>3. QED
    BY <1>1, <2>1, <2>2, QuoteIs
<1>7. QED
  BY <1>5, <1>6 DEF Priced

(* A walk from the anchor back to it, over no pool twice *)
IsWalk(c, n) ==
    /\ n \in Nat /\ n >= 2 /\ c \in [1 .. n -> AllEdges]
    /\ c[1].from = Anchor /\ \A k \in 2 .. n : c[k].from = c[k - 1].to
    /\ c[n].to = Anchor
    /\ \A j, k \in 1 .. n : j # k => c[j].pool # c[k].pool

LEMMA WalksAre ==
    ASSUME NEW edges \in SUBSET AllEdges, NEW legs \in Nat, NEW c \in Walks(edges, legs)
    PROVE  /\ IsWalk(c, Len(c)) /\ c \in [1 .. Len(c) -> edges] /\ DOMAIN c = 1 .. Len(c)
           /\ c \in Seq(edges)
<1>1. PICK n \in 2 .. legs : c \in [1 .. n -> edges]
  BY DEF Walks
<1>2. n \in Nat /\ n >= 2 /\ DOMAIN c = 1 .. n /\ Len(c) = n /\ c \in Seq(edges)
  BY <1>1
<1>3. /\ c[Len(c)].to = Anchor
      /\ \A k \in DOMAIN c : c[k].from = IF k = 1 THEN Anchor ELSE c[k - 1].to
      /\ \A j, k \in DOMAIN c : j # k => c[j].pool # c[k].pool /\ c[j].to # c[k].to
  BY DEF Walks
<1>4. c[1].from = Anchor /\ \A k \in 2 .. n : c[k].from = c[k - 1].to
  BY <1>2, <1>3
<1>5. c \in [1 .. n -> AllEdges]
  BY <1>1
<1>6. QED
  BY <1>1, <1>2, <1>3, <1>4, <1>5 DEF IsWalk

LEMMA AmountIsLocal ==
    ASSUME NEW s, NEW t, NEW p, s[p] = t[p], NEW token, NEW x
    PROVE  AmountOut(s, p, token, x) = AmountOut(t, p, token, x)
BY DEF AmountOut

(* The legs of a walk, called one after another on such an account *)
LegsRun(g, state, c, a, n, x) ==
    /\ \A k \in 0 .. n : g[k] \in Purses
    /\ Funded(g[0], state, x)
    /\ \A k \in 1 .. n : g[k] = Call(g[k - 1], Leg(state, c[k].pool, c[k].from, a[k - 1]))

(* The calls of a walk, run on the state it was priced on, go through and end *)
(* with the amount it was priced at.                                        *)
LEMMA WalkGoesThrough ==
    ASSUME NEW state \in PoolStates, NEW book, NEW c, NEW n \in Nat, IsWalk(c, n), NEW x \in Nat,
           NEW a, a = Amounts(state, book, c, x), a[n] # 0,
           NEW g, LegsRun(g, state, c, a, n, x)
    PROVE  g[n].ok /\ g[n].held[Anchor] = a[n]
<1>0. /\ \A k \in 0 .. n : g[k] \in Purses
      /\ g[0].ok /\ g[0].pools = state
      /\ \A t \in Tokens : g[0].held[t] = IF t = Anchor THEN x ELSE 0
      /\ \A k \in 1 .. n : g[k] = Call(g[k - 1], Leg(state, c[k].pool, c[k].from, a[k - 1]))
  BY DEF LegsRun, Funded
<1>1. /\ n >= 2 /\ c \in [1 .. n -> AllEdges]
      /\ c[1].from = Anchor /\ \A k \in 2 .. n : c[k].from = c[k - 1].to
      /\ c[n].to = Anchor
      /\ \A j, k \in 1 .. n : j # k => c[j].pool # c[k].pool
  BY DEF IsWalk
<1>2. /\ \A k \in 0 .. n : a[k] \in Nat \ {0}
      /\ \A k \in 1 .. n : a[k] = AmountOut(state, c[k].pool, c[k].from, a[k - 1])
  <2>1. c \in [1 .. n -> AllEdges]
    BY <1>1
  <2>2. Priced(a, state, c, n)
    BY <2>1, AmountsPositive
  <2>3. QED
    BY <2>2 DEF Priced
<1>3. a[0] = x
  <2>1. c \in [1 .. n -> AllEdges]
    BY <1>1
  <2>2. Along(a, state, book, c, n, x)
    BY <2>1, AmountsAre
  <2>3. QED
    BY <2>2 DEF Along
<1> DEFINE token(k) == IF k = 0 THEN Anchor ELSE c[k].to
           through(k) == /\ g[k].ok
                         /\ \A t \in Tokens : g[k].held[t] = IF t = token(k) THEN a[k] ELSE 0
                         /\ \A j \in k + 1 .. n : g[k].pools[c[j].pool] = state[c[j].pool]
           good == {k \in 0 .. n : through(k)}
<1>4. 0 \in good
  <2>1. through(0)
    BY <1>0, <1>3
  <2>2. QED
    BY <2>1
<1>5. ASSUME NEW k \in 1 .. n, k - 1 \in good PROVE k \in good
  <2> DEFINE e == c[k]
             p == e.pool
             s == g[k - 1]
             leg == Leg(state, p, e.from, a[k - 1])
  <2>1. k \in 0 .. n /\ k - 1 \in 0 .. n /\ e \in AllEdges /\ s \in Purses
    BY <1>0, <1>1
  <2>2. through(k - 1)
    BY <1>5
  <2>3. e.from = token(k - 1)
    BY <1>1
  <2>4. /\ p \in RoutePools /\ e.from \in Tokens /\ e.to \in Tokens /\ e.from # e.to
        /\ PairOf[p][3 - Side(p, e.from)] = e.to /\ Trades(p, e.from)
    BY <2>1, EdgeIs, EdgeTrades
  <2>5. a[k - 1] \in Nat /\ a[k] \in Nat \ {0} /\ a[k] = AmountOut(state, p, e.from, a[k - 1])
    BY <1>2, <2>1
  <2>6. s.pools[p] = state[p]
    <3>1. k \in k - 1 + 1 .. n
      OBVIOUS
    <3>2. QED
      BY <2>2, <3>1
  <2>7. AmountOut(s.pools, p, e.from, a[k - 1]) = a[k]
    BY <2>5, <2>6, AmountIsLocal
  <2>8. /\ leg.pool = p /\ leg.from = e.from /\ leg.amount = a[k - 1]
        /\ KindOf[p] = "v2" => leg.out = a[k]
    BY <2>5 DEF Leg
  <2>9. s.held[e.from] = a[k - 1] /\ s.held[e.to] = 0
    BY <2>2, <2>3, <2>4
  <2> DEFINE purse == [s.held EXCEPT ![e.from] = @ - a[k - 1], ![e.to] = @ + a[k]]
             pools == AfterTrade(s.pools, p, e.from, a[k - 1], a[k])
  <2>10. g[k] = [s EXCEPT !.pools = pools, !.held = purse]
    <3>1. g[k] = Call(s, leg)
      BY <1>0, <2>1
    <3> HIDE DEF leg, s, p, e
    <3>2. ~(s.held[e.from] < a[k - 1]) /\ a[k] # 0 /\ ~(a[k] > a[k])
      BY <2>5, <2>9
    <3> DEFINE best == AmountOut(s.pools, leg.pool, leg.from, leg.amount)
               out == IF KindOf[leg.pool] = "v2" THEN leg.out ELSE best
               to == PairOf[leg.pool][3 - Side(leg.pool, leg.from)]
    <3>3. best = a[k] /\ out = a[k] /\ to = e.to
      BY <2>4, <2>7, <2>8
    <3>4. Call(s, leg) =
            IF s.held[leg.from] < leg.amount \/ out > best \/ (out = 0 /\ KindOf[leg.pool] # "v3")
            THEN [s EXCEPT !.ok = FALSE]
            ELSE [s EXCEPT !.pools = AfterTrade(s.pools, leg.pool, leg.from, leg.amount, out),
                           !.held = [s.held EXCEPT ![leg.from] = @ - leg.amount, ![to] = @ + out]]
      BY DEF Call
    <3> HIDE DEF best, out, to
    <3>5. Call(s, leg) =
            [s EXCEPT !.pools = AfterTrade(s.pools, leg.pool, leg.from, leg.amount, out),
                      !.held = [s.held EXCEPT ![leg.from] = @ - leg.amount, ![to] = @ + out]]
      BY <2>8, <3>2, <3>3, <3>4
    <3>6. QED
      BY <2>8, <3>1, <3>3, <3>5
  <2>11. s.held \in [Tokens -> Int] /\ s.pools \in PoolStates /\ DOMAIN s = {"ok", "pools", "held"}
    BY <2>1 DEF Purses
  <2>12. g[k].ok = s.ok /\ g[k].pools = pools /\ g[k].held = purse
    <3> HIDE DEF s, pools, purse
    <3>1. QED
      BY <2>10, <2>11
  <2>13. \A t \in Tokens : purse[t] = IF t = e.to THEN a[k] ELSE 0
    <3> TAKE t \in Tokens
    <3>1. CASE t = e.to
      BY <2>4, <2>5, <2>9, <2>11, <3>1
    <3>2. CASE t = e.from
      BY <2>4, <2>5, <2>9, <2>11, <3>2
    <3>3. CASE t # e.to /\ t # e.from
      BY <2>2, <2>3, <2>4, <2>11, <3>3
    <3>4. QED
      BY <3>1, <3>2, <3>3
  <2>14. \A j \in k + 1 .. n : pools[c[j].pool] = state[c[j].pool]
    <3> TAKE j \in k + 1 .. n
    <3>1. j \in 1 .. n /\ j # k /\ j \in k - 1 + 1 .. n
      OBVIOUS
    <3>2. c[j].pool \in RoutePools \ {p} /\ s.pools[c[j].pool] = state[c[j].pool]
      BY <1>1, <2>2, <3>1, EdgeIs
    <3>3. a[k] \in 0 .. s.pools[p][3 - Side(p, e.from)]
      BY <2>4, <2>5, <2>7, <2>11, AmountBounded
    <3>4. pools[c[j].pool] = s.pools[c[j].pool]
      BY <2>4, <2>5, <2>11, <3>2, <3>3, AfterTradeKeeps
    <3>5. QED
      BY <3>2, <3>4
  <2>15. through(k)
    <3>1. token(k) = e.to
      OBVIOUS
    <3> HIDE DEF purse, pools, e, s
    <3>2. QED
      BY <2>2, <2>12, <2>13, <2>14, <3>1 DEF s
  <2>16. QED
    BY <2>15
<1>6. \A k \in 0 .. n : k \in good
  <2> HIDE DEF good
  <2>1. QED
    BY <1>4, <1>5, UpTo
<1>7. through(n) /\ token(n) = Anchor
  BY <1>1, <1>6
<1>8. Anchor \in Tokens
  <2>1. c[n] \in AllEdges
    BY <1>1
  <2>2. QED
    BY <1>1, <2>1, EdgeIs
<1>9. QED
  BY <1>7, <1>8

LEMMA GainIs ==
    ASSUME NEW out \in Nat, NEW x \in Nat
    PROVE  Gain(out, x) \in Nat /\ (Gain(out, x) > 0 => out = x + Gain(out, x))
BY DEF Gain

(* The best size is one that gains something, and the only one. *)
LEMMA BestIs ==
    ASSUME NEW f \in [0 .. MaxIn -> Nat], f[0] = 0, NEW sizes \in SUBSET (0 .. MaxIn),
           NEW s \in Best(f, sizes)
    PROVE  /\ s.amountIn \in 1 .. MaxIn /\ s.gross = f[s.amountIn] /\ s.gross \in Nat \ {0}
           /\ \A t \in Best(f, sizes) : t = s
<1> DEFINE best(y) == y \in sizes /\ f[y] > 0 /\ \A z \in sizes : f[z] <= f[y] /\ (z < y => f[z] < f[y])
<1>1. \A t \in Best(f, sizes) : \E y \in sizes : best(y) /\ t = [amountIn |-> y, gross |-> f[y]]
  BY DEF Best
<1>2. PICK y \in sizes : best(y) /\ s = [amountIn |-> y, gross |-> f[y]]
  BY <1>1
<1>3. MaxIn \in Nat
  BY RoutingAssumption
<1>4. \A z \in sizes : z \in Nat /\ z <= MaxIn /\ f[z] \in Nat
  BY <1>3
<1>5. y # 0 /\ y \in 1 .. MaxIn
  BY <1>2, <1>3, <1>4
<1>6. ASSUME NEW t \in Best(f, sizes) PROVE t = s
  <2>1. PICK z \in sizes : best(z) /\ t = [amountIn |-> z, gross |-> f[z]]
    BY <1>1, <1>6
  <2>2. f[z] <= f[y] /\ f[y] <= f[z] /\ (z < y => f[z] < f[y]) /\ (y < z => f[y] < f[z])
    BY <1>2, <2>1
  <2>3. z \in Nat /\ y \in Nat /\ f[z] \in Nat /\ f[y] \in Nat
    BY <1>2, <1>4, <2>1
  <2>4. z = y
    BY <2>2, <2>3
  <2>5. QED
    BY <1>2, <2>1, <2>4
<1>7. QED
  BY <1>2, <1>4, <1>5, <1>6

LEMMA WalkLen ==
    ASSUME NEW c, NEW n \in Nat, IsWalk(c, n)
    PROVE  c \in [1 .. n -> AllEdges] /\ Len(c) = n /\ DOMAIN c = 1 .. n
<1>1. c \in [1 .. n -> AllEdges]
  BY DEF IsWalk
<1>2. QED
  BY <1>1

LEMMA CycleOutIs ==
    ASSUME NEW state \in PoolStates, NEW book, NEW c, NEW n \in Nat, IsWalk(c, n)
    PROVE  /\ \A x \in Nat : /\ CycleOut(state, book, c, x) = Amounts(state, book, c, x)[n]
                             /\ CycleOut(state, book, c, x) \in Nat
           /\ CycleOut(state, book, c, 0) = 0
<1>1. c \in [1 .. n -> AllEdges] /\ Len(c) = n
  BY WalkLen
<1>2. ASSUME NEW y \in Nat
      PROVE  CycleOut(state, book, c, y) = Amounts(state, book, c, y)[n] /\ CycleOut(state, book, c, y) \in Nat
  <2> DEFINE a == Amounts(state, book, c, y)
  <2>1. Along(a, state, book, c, n, y)
    BY <1>1, AmountsAre
  <2> HIDE DEF a
  <2>2. a[n] \in Nat
    BY <2>1 DEF Along
  <2>3. QED
    BY <1>1, <2>2 DEF CycleOut, a
<1>3. CycleOut(state, book, c, 0) = 0
  <2> DEFINE a == Amounts(state, book, c, 0)
  <2>1. Along(a, state, book, c, n, 0)
    BY <1>1, AmountsAre
  <2>2. SUFFICES ASSUME a[n] # 0 PROVE FALSE
    BY <1>2
  <2>3. Priced(a, state, c, n)
    BY <1>1, <2>2, AmountsPositive
  <2> HIDE DEF a
  <2>4. a[0] = 0 /\ a[0] # 0
    BY <2>1, <2>3 DEF Along, Priced
  <2>5. QED
    BY <2>4
<1>4. QED
  BY <1>2, <1>3

(* A cycle has at most one size, and its gain is what it is priced at. *)
LEMMA SizeIs ==
    ASSUME NEW state \in PoolStates, NEW book, NEW c, NEW n \in Nat, IsWalk(c, n),
           NEW size \in SizeCycle(state, book, c)
    PROVE  /\ size.amountIn \in 1 .. MaxIn /\ size.gross \in Nat \ {0}
           /\ Amounts(state, book, c, size.amountIn)[n] = size.amountIn + size.gross
           /\ \A t \in SizeCycle(state, book, c) : t = size
<1> DEFINE gain == [x \in 0 .. MaxIn |-> Gain(CycleOut(state, book, c, x), x)]
           opening == c[1]
           hi == state[opening.pool][Side(opening.pool, opening.from)]
           v2 == \A e \in Range(c) : KindOf[e.pool] # "v3"
           narrowed == Narrow(gain)[0, AtMost(MaxIn, hi)]
           searched == DOMAIN gain \cap narrowed
           booked == {x \in 1 .. MaxIn : \E e \in Range(c) : <<e, x>> \in book}
           sizes == IF v2 THEN searched ELSE booked
<1>1. MaxIn \in Nat
  BY RoutingAssumption
<1>2. ASSUME NEW x \in 0 .. MaxIn
      PROVE  gain[x] \in Nat /\ (gain[x] > 0 => Amounts(state, book, c, x)[n] = x + gain[x])
  <2>5. x \in Nat
    BY <1>1
  <2>1. /\ CycleOut(state, book, c, x) = Amounts(state, book, c, x)[n]
        /\ CycleOut(state, book, c, x) \in Nat
    BY <2>5, CycleOutIs
  <2>2. gain[x] = Gain(CycleOut(state, book, c, x), x)
    OBVIOUS
  <2>3. Gain(CycleOut(state, book, c, x), x) \in Nat
        /\ (Gain(CycleOut(state, book, c, x), x) > 0
                => CycleOut(state, book, c, x) = x + Gain(CycleOut(state, book, c, x), x))
    BY <2>1, <2>5, GainIs
  <2>4. QED
    BY <2>1, <2>2, <2>3
<1>3. gain \in [0 .. MaxIn -> Nat]
  BY <1>2
<1>4. gain[0] = 0
  <2>1. 0 \in 0 .. MaxIn /\ gain[0] = Gain(CycleOut(state, book, c, 0), 0)
    BY <1>1
  <2>2. CycleOut(state, book, c, 0) = 0
    BY CycleOutIs
  <2>3. QED
    BY <2>1, <2>2 DEF Gain
<1>5. sizes \in SUBSET (0 .. MaxIn)
  <2>1. DOMAIN gain = 0 .. MaxIn /\ booked \subseteq 0 .. MaxIn
    BY <1>1
  <2> HIDE DEF narrowed, gain, booked, v2
  <2>2. QED
    BY <2>1
<1>6. SizeCycle(state, book, c) = Best(gain, sizes)
  <2>1. SizeCycle(state, book, c) = IF v2 THEN Best(gain, searched) ELSE Best(gain, booked)
    BY DEF SizeCycle, TernarySearchMax
  <2> HIDE DEF gain, searched, booked, v2
  <2>2. QED
    BY <2>1
<1> HIDE DEF gain, sizes
<1>7. /\ size.amountIn \in 1 .. MaxIn /\ size.gross = gain[size.amountIn] /\ size.gross \in Nat \ {0}
      /\ \A t \in Best(gain, sizes) : t = size
  <2>1. size \in Best(gain, sizes)
    BY <1>6
  <2>2. QED
    BY <1>3, <1>4, <1>5, <2>1, BestIs
<1>8. size.amountIn \in 0 .. MaxIn /\ gain[size.amountIn] > 0
  BY <1>1, <1>7
<1>9. QED
  BY <1>2, <1>6, <1>7, <1>8

LEMMA PayingAre ==
    ASSUME NEW state, NEW book, NEW edges, NEW legs, NEW priced,
           NEW f \in PayingCycles(state, book, edges, legs, priced)
    PROVE  f[1] \in Walks(edges, legs) /\ f[2] \in SizeCycle(state, book, f[1])
BY DEF PayingCycles

(* The calls of a cycle of n legs with the amounts a *)
Built(calls, state, c, a, n) ==
    /\ DOMAIN calls = 1 .. n /\ calls \in [1 .. n -> {calls[k] : k \in 1 .. n}]
    /\ \A k \in 1 .. n : /\ calls[k] = Leg(state, c[k].pool, c[k].from, a[k - 1])
                         /\ IsCall(calls[k]) /\ calls[k].pool = c[k].pool

LEMMA CallsAre ==
    ASSUME NEW state \in PoolStates, NEW book, NEW c, NEW n \in Nat, IsWalk(c, n), NEW x \in Nat,
           NEW calls, calls = BuildCalls(state, book, c, x), NEW a, a = Amounts(state, book, c, x)
    PROVE  Built(calls, state, c, a, n)
<1>1. c \in [1 .. n -> AllEdges] /\ DOMAIN c = 1 .. n
  BY WalkLen
<1>2. calls = [k \in 1 .. n |-> Leg(state, c[k].pool, c[k].from, a[k - 1])]
  BY <1>1 DEF BuildCalls, AmountBefore
<1>3. Along(a, state, book, c, n, x)
  BY <1>1, AmountsAre
<1>4. ASSUME NEW k \in 1 .. n
      PROVE  /\ calls[k] = Leg(state, c[k].pool, c[k].from, a[k - 1])
             /\ IsCall(calls[k]) /\ calls[k].pool = c[k].pool
  <2>1. c[k] \in AllEdges /\ k - 1 \in 0 .. n
    BY <1>1
  <2>2. a[k - 1] \in Nat
    BY <1>3, <2>1 DEF Along
  <2>3. c[k].pool \in RoutePools /\ Trades(c[k].pool, c[k].from)
    BY <2>1, EdgeIs, EdgeTrades
  <2>4. AmountOut(state, c[k].pool, c[k].from, a[k - 1])
            \in 0 .. state[c[k].pool][3 - Side(c[k].pool, c[k].from)]
    BY <2>2, <2>3, AmountBounded
  <2>5. AmountOut(state, c[k].pool, c[k].from, a[k - 1]) \in Nat
    BY <2>4
  <2>6. calls[k] = Leg(state, c[k].pool, c[k].from, a[k - 1])
    BY <1>2
  <2>7. QED
    BY <2>2, <2>3, <2>5, <2>6 DEF Leg, IsCall
<1>5. DOMAIN calls = 1 .. n /\ calls \in [1 .. n -> {calls[k] : k \in 1 .. n}]
  BY <1>2
<1>6. QED
  BY <1>4, <1>5 DEF Built

(* A plan pays what it says on the reserves as they are. *)
Pays(plan) ==
    /\ Executed(plan).ok /\ plan.amountIn \in 1 .. MaxIn
    /\ Executed(plan).held[Anchor] = plan.amountIn + plan.gross

LEMMA CyclePays ==
    ASSUME reserves \in PoolStates, NEW book, NEW c, NEW n \in Nat, IsWalk(c, n), NEW kind,
           NEW size \in SizeCycle(reserves, book, c), NEW plan,
           plan = Plan(kind, BuildCalls(reserves, book, c, size.amountIn), <<>>, <<>>, size)
    PROVE  Pays(plan)
<1> DEFINE x == size.amountIn
           calls == BuildCalls(reserves, book, c, x)
           a == Amounts(reserves, book, c, x)
           Items == {calls[k] : k \in 1 .. n}
<1>1. x \in 1 .. MaxIn /\ size.gross \in Nat \ {0} /\ a[n] = x + size.gross
  BY SizeIs
<1>2. MaxIn \in Nat /\ x \in Nat
  BY <1>1, RoutingAssumption
<1>3. /\ DOMAIN calls = 1 .. n /\ calls \in [1 .. n -> Items]
      /\ \A k \in 1 .. n : /\ calls[k] = Leg(reserves, c[k].pool, c[k].from, a[k - 1])
                           /\ IsCall(calls[k])
  <2>1. Built(calls, reserves, c, a, n)
    BY <1>2, CallsAre
  <2>2. QED
    BY <2>1 DEF Built
<1> HIDE DEF x, calls, a, Items
<1>4. calls \in Seq(Items) /\ Len(calls) = n
  BY <1>3
<1>5. /\ plan.front = calls /\ plan.victim = <<>> /\ plan.back = <<>>
      /\ plan.amountIn = x /\ plan.gross = size.gross
  BY DEF Plan, calls, x
<1>6. calls \o <<>> = calls
  BY <1>4, ConcatEmptySeq
<1>7. PlanCalls(plan) = calls /\ \A k \in 1 .. n : Ours(plan, k)
  <2>1. PlanCalls(plan) = calls
    BY <1>5, <1>6 DEF PlanCalls
  <2>2. Len(plan.front) = n
    BY <1>4, <1>5
  <2>3. \A k \in 1 .. n : k <= Len(plan.front)
    BY <2>2
  <2>4. QED
    BY <2>1, <2>3 DEF Ours
<1>8. PICK f : IsRun(f, plan, n) /\ Executed(plan) = f[n]
  <2>1. plan.amountIn \in Nat /\ Len(PlanCalls(plan)) = n
    BY <1>2, <1>4, <1>5, <1>7
  <2>2. \A k \in 1 .. n : /\ Ours(plan, k) => IsCall(PlanCalls(plan)[k])
                          /\ ~Ours(plan, k) => IsSwap(PlanCalls(plan)[k])
    BY <1>3, <1>7
  <2>3. QED
    BY <2>1, <2>2, RunExists
<1>9. /\ \A k \in 0 .. n : f[k] \in Purses
      /\ Funded(f[0], reserves, x)
      /\ \A k \in 1 .. n : f[k] = Call(f[k - 1], calls[k])
  <2>1. \A k \in 1 .. n : f[k] = Call(f[k - 1], calls[k])
    BY <1>7, <1>8 DEF IsRun, AfterCall
  <2>2. (\A k \in 0 .. n : f[k] \in Purses) /\ Funded(f[0], reserves, x)
    BY <1>5, <1>8, StartIsFunded
  <2>3. QED
    BY <2>1, <2>2
<1>10. f[n].ok /\ f[n].held[Anchor] = a[n]
  <2>1. LegsRun(f, reserves, c, a, n, x)
    BY <1>3, <1>9 DEF LegsRun
  <2>2. a[n] # 0 /\ a = Amounts(reserves, book, c, x)
    BY <1>1, <1>2 DEF a
  <2>3. QED
    BY <1>2, <2>1, <2>2, WalkGoesThrough
<1>11. QED
  BY <1>1, <1>5, <1>8, <1>10 DEF Pays

LEMMA BackRunPays ==
    ASSUME reserves \in PoolStates, NEW p \in RoutePools, NEW v, Trades(p, v.from), v.amount \in Nat,
           NEW state, state = WithSwap(reserves, p, v.from, v.amount),
           NEW book, NEW c, NEW n \in Nat, IsWalk(c, n), NEW size \in SizeCycle(state, book, c),
           NEW plan, plan = Plan("back-run", <<>>, <<[Swap(p, v) EXCEPT !.minOut = 0]>>,
                                 BuildCalls(state, book, c, size.amountIn), size)
    PROVE  Pays(plan)
<1> DEFINE x == size.amountIn
           calls == BuildCalls(state, book, c, x)
           a == Amounts(state, book, c, x)
           swap == [Swap(p, v) EXCEPT !.minOut = 0]
           Items == {calls[k] : k \in 1 .. n} \cup {swap}
<1>0. state \in PoolStates
  BY WithSwapKeeps
<1>1. x \in 1 .. MaxIn /\ size.gross \in Nat \ {0} /\ a[n] = x + size.gross
  BY <1>0, SizeIs
<1>2. MaxIn \in Nat /\ x \in Nat
  BY <1>1, RoutingAssumption
<1>3. /\ DOMAIN calls = 1 .. n /\ calls \in [1 .. n -> {calls[k] : k \in 1 .. n}]
      /\ \A k \in 1 .. n : /\ calls[k] = Leg(state, c[k].pool, c[k].from, a[k - 1])
                           /\ IsCall(calls[k])
  <2>1. Built(calls, state, c, a, n)
    BY <1>0, <1>2, CallsAre
  <2>2. QED
    BY <2>1 DEF Built
<1>4. calls \in [1 .. n -> Items] /\ swap \in Items
  BY <1>3
<1>5. swap = [pool |-> p, from |-> v.from, amount |-> v.amount, minOut |-> 0]
  BY DEF Swap
<1> HIDE DEF x, calls, a, Items, swap
<1>6. calls \in Seq(Items) /\ Len(calls) = n /\ <<swap>> \in Seq(Items) /\ Len(<<swap>>) = 1
  BY <1>3, <1>4
<1>7. /\ plan.front = <<>> /\ plan.victim = <<swap>> /\ plan.back = calls
      /\ plan.amountIn = x /\ plan.gross = size.gross
  BY DEF Plan, calls, x, swap
<1>8. <<>> \o <<swap>> = <<swap>> /\ Len(<<>>) = 0
  BY <1>6, ConcatEmptySeq
<1>9. /\ Len(PlanCalls(plan)) = n + 1 /\ PlanCalls(plan)[1] = swap
      /\ \A k \in 1 .. n : PlanCalls(plan)[k + 1] = calls[k]
  <2> DEFINE whole == <<swap>> \o calls
  <2>1. PlanCalls(plan) = whole
    BY <1>7, <1>8 DEF PlanCalls
  <2>2. /\ Len(whole) = 1 + n
        /\ \A i \in 1 .. 1 + n : whole[i] = IF i <= 1 THEN <<swap>>[i] ELSE calls[i - 1]
    BY <1>6, ConcatProperties
  <2> HIDE DEF whole
  <2>3. whole[1] = swap
    BY <2>2
  <2>4. ASSUME NEW k \in 1 .. n PROVE whole[k + 1] = calls[k]
    <3>1. k + 1 \in 1 .. 1 + n /\ ~(k + 1 <= 1) /\ k + 1 - 1 = k
      OBVIOUS
    <3>2. whole[k + 1] = IF k + 1 <= 1 THEN <<swap>>[k + 1] ELSE calls[k + 1 - 1]
      BY <2>2, <3>1
    <3>3. QED
      BY <3>1, <3>2
  <2>5. Len(whole) = n + 1
    BY <2>2
  <2>6. QED
    BY <2>1, <2>3, <2>4, <2>5
<1>10. ~Ours(plan, 1) /\ \A k \in 1 .. n : Ours(plan, k + 1)
  <2> DEFINE ahead == Len(plan.front)
             between == Len(plan.front \o plan.victim)
  <2>1. ahead = 0 /\ between = 1
    BY <1>6, <1>7, <1>8
  <2>2. \A k : Ours(plan, k) <=> k <= ahead \/ k > between
    BY DEF Ours
  <2> HIDE DEF ahead, between
  <2>3. QED
    BY <2>1, <2>2
<1>11. PICK f : IsRun(f, plan, n + 1) /\ Executed(plan) = f[n + 1]
  <2>1. plan.amountIn \in Nat /\ n + 1 \in Nat
    BY <1>2, <1>7
  <2>2. IsSwap(swap)
    BY <1>5 DEF IsSwap
  <2>3. ASSUME NEW k \in 1 .. n + 1
        PROVE  /\ Ours(plan, k) => IsCall(PlanCalls(plan)[k])
               /\ ~Ours(plan, k) => IsSwap(PlanCalls(plan)[k])
    <3>1. CASE k = 1
      BY <1>9, <1>10, <2>2, <3>1
    <3>2. CASE k # 1
      <4>1. PICK j \in 1 .. n : k = j + 1
        <5>1. k - 1 \in 1 .. n /\ k = k - 1 + 1
          BY <3>2
        <5>2. QED
          BY <5>1
      <4>2. QED
        BY <1>3, <1>9, <1>10, <4>1
    <3>3. QED
      BY <3>1, <3>2
  <2>4. Len(PlanCalls(plan)) = n + 1
    BY <1>9
  <2>5. QED
    BY <2>1, <2>3, <2>4, RunExists
<1>12. /\ \A k \in 0 .. n + 1 : f[k] \in Purses
       /\ Funded(f[0], reserves, x)
       /\ f[1] = VictimCall(f[0], swap)
       /\ \A k \in 1 .. n : f[k + 1] = Call(f[k], calls[k])
  <2>1. \A k \in 1 .. n + 1 : f[k] = AfterCall(plan, f[k - 1], k)
    BY <1>11 DEF IsRun
  <2>2. f[1] = VictimCall(f[0], swap)
    <3>1. 1 \in 1 .. n + 1 /\ 1 - 1 = 0
      OBVIOUS
    <3>2. f[1] = AfterCall(plan, f[0], 1)
      BY <2>1, <3>1
    <3>3. QED
      BY <1>9, <1>10, <3>2 DEF AfterCall
  <2>3. ASSUME NEW k \in 1 .. n PROVE f[k + 1] = Call(f[k], calls[k])
    <3>1. k + 1 \in 1 .. n + 1 /\ k + 1 - 1 = k
      OBVIOUS
    <3>2. f[k + 1] = AfterCall(plan, f[k], k + 1)
      BY <2>1, <3>1
    <3>3. QED
      BY <1>9, <1>10, <3>2 DEF AfterCall
  <2>4. QED
    <3>1. (\A k \in 0 .. n + 1 : f[k] \in Purses) /\ Funded(f[0], reserves, x)
      <4>1. n + 1 \in Nat
        OBVIOUS
      <4>2. QED
        BY <1>7, <1>11, <4>1, StartIsFunded
    <3>2. QED
      BY <2>2, <2>3, <3>1
<1> DEFINE g == [k \in 0 .. n |-> f[k + 1]]
<1>13. Funded(g[0], state, x)
  <2>1. AmountOut(reserves, p, v.from, v.amount) \in 0 .. reserves[p][3 - Side(p, v.from)]
    BY AmountBounded
  <2>2. ~(AmountOut(reserves, p, v.from, v.amount) < 0)
    BY <2>1
  <2> DEFINE s == f[0]
  <2>3. s \in Purses /\ s.pools = reserves
    BY <1>12 DEF Funded
  <2>4. VictimCall(s, swap) = [s EXCEPT !.pools = state]
    BY <1>5, <2>2, <2>3 DEF VictimCall, WithSwap
  <2>5. g[0] = VictimCall(s, swap)
    BY <1>12
  <2> HIDE DEF s, g
  <2>6. DOMAIN s = {"ok", "pools", "held"}
    BY <2>3 DEF Purses
  <2>7. g[0].ok = s.ok /\ g[0].pools = state /\ g[0].held = s.held
    BY <2>4, <2>5, <2>6
  <2>8. g[0] \in Purses
    BY <1>12 DEF g
  <2>9. QED
    BY <1>12, <2>7, <2>8 DEF Funded, s
<1>14. \A k \in 0 .. n : g[k] \in Purses
  BY <1>12
<1>15. \A k \in 1 .. n : g[k] = Call(g[k - 1], Leg(state, c[k].pool, c[k].from, a[k - 1]))
  <2> TAKE k \in 1 .. n
  <2>1. g[k] = f[k + 1] /\ g[k - 1] = f[k]
    OBVIOUS
  <2>2. QED
    BY <1>3, <1>12, <2>1
<1> HIDE DEF g
<1>16. g[n].ok /\ g[n].held[Anchor] = a[n]
  <2>1. a[n] # 0 /\ a = Amounts(state, book, c, x)
    BY <1>1, <1>2 DEF a
  <2>2. LegsRun(g, state, c, a, n, x)
    BY <1>13, <1>14, <1>15 DEF LegsRun
  <2>3. QED
    BY <1>0, <1>2, <2>1, <2>2, WalkGoesThrough
<1>17. g[n] = f[n + 1]
  BY DEF g
<1>18. QED
  BY <1>1, <1>7, <1>11, <1>16, <1>17 DEF Pays

(* A plan around a cycle of a graph, without a victim *)
IsCyclePlan(plan, kind, book, c, n) ==
    /\ IsWalk(c, n)
    /\ \E size \in SizeCycle(reserves, book, c) :
          plan = Plan(kind, BuildCalls(reserves, book, c, size.amountIn), <<>>, <<>>, size)

LEMMA RouteOfPlan ==
    ASSUME reserves \in PoolStates, NEW plan, NEW kind, NEW book, NEW c, NEW n \in Nat,
           IsCyclePlan(plan, kind, book, c, n)
    PROVE  /\ plan.kind = kind /\ DOMAIN Route(plan) = 1 .. n
           /\ \A k \in 1 .. n : Route(plan)[k] = c[k].pool
<1>1. PICK size \in SizeCycle(reserves, book, c) :
          plan = Plan(kind, BuildCalls(reserves, book, c, size.amountIn), <<>>, <<>>, size)
  BY DEF IsCyclePlan
<1>2. IsWalk(c, n)
  BY DEF IsCyclePlan
<1> DEFINE calls == BuildCalls(reserves, book, c, size.amountIn)
           a == Amounts(reserves, book, c, size.amountIn)
<1>3. size.amountIn \in Nat
  <2>1. size.amountIn \in 1 .. MaxIn /\ MaxIn \in Nat
    BY <1>1, <1>2, SizeIs, RoutingAssumption
  <2>2. QED
    BY <2>1
<1>4. Built(calls, reserves, c, a, n)
  BY <1>2, <1>3, CallsAre
<1>5. plan.kind = kind /\ plan.front = calls
  BY <1>1 DEF Plan
<1> HIDE DEF calls, a
<1>6. QED
  BY <1>4, <1>5 DEF Built, Route

(* The pools in their order and the anchor at its start make a walk. *)
LEMMA WalksDiffer ==
    ASSUME NEW n \in Nat, NEW c, IsWalk(c, n), NEW d, IsWalk(d, n),
           \A k \in 1 .. n : c[k].pool = d[k].pool
    PROVE  c = d
<1>1. /\ c \in [1 .. n -> AllEdges] /\ d \in [1 .. n -> AllEdges]
      /\ c[1].from = d[1].from
      /\ \A k \in 2 .. n : c[k].from = c[k - 1].to /\ d[k].from = d[k - 1].to
  BY DEF IsWalk
<1> DEFINE same == {k \in 0 .. n : k = 0 \/ c[k] = d[k]}
<1>2. 0 \in same
  OBVIOUS
<1>3. ASSUME NEW k \in 1 .. n, k - 1 \in same PROVE k \in same
  <2>1. c[k].from = d[k].from
    <3>1. CASE k = 1
      BY <1>1, <3>1
    <3>2. CASE k # 1
      <4>1. k \in 2 .. n /\ c[k - 1] = d[k - 1]
        BY <1>3, <3>2
      <4>2. QED
        BY <1>1, <4>1
    <3>3. QED
      BY <3>1, <3>2
  <2>2. c[k] \in AllEdges /\ d[k] \in AllEdges /\ c[k].pool = d[k].pool
    BY <1>1
  <2>3. QED
    BY <2>1, <2>2, EdgesDiffer
<1>4. \A k \in 0 .. n : k \in same
  <2> HIDE DEF same
  <2>1. QED
    BY <1>2, <1>3, UpTo
<1>5. \A k \in 1 .. n : c[k] = d[k]
  BY <1>4
<1>6. QED
  BY <1>1, <1>5

LEMMA PlansDiffer ==
    ASSUME reserves \in PoolStates, NEW kind, NEW book,
           NEW plan, NEW c, NEW n \in Nat, IsCyclePlan(plan, kind, book, c, n),
           NEW other, NEW d, NEW m \in Nat, IsCyclePlan(other, kind, book, d, m),
           Route(plan) = Route(other)
    PROVE  plan = other
<1>1. /\ DOMAIN Route(plan) = 1 .. n /\ DOMAIN Route(other) = 1 .. m
      /\ \A k \in 1 .. n : Route(plan)[k] = c[k].pool
      /\ \A k \in 1 .. m : Route(other)[k] = d[k].pool
  BY RouteOfPlan
<1>2. IsWalk(c, n) /\ IsWalk(d, m)
  BY DEF IsCyclePlan
<1>3. n = m
  <2>1. n \in Nat /\ n >= 2 /\ m \in Nat /\ m >= 2
    BY <1>2 DEF IsWalk
  <2>2. 1 .. n = 1 .. m
    BY <1>1
  <2>3. n \in 1 .. m /\ m \in 1 .. n
    BY <2>1, <2>2
  <2>4. QED
    BY <2>1, <2>3
<1>4. \A k \in 1 .. n : c[k].pool = d[k].pool
  BY <1>1, <1>3
<1>5. c = d
  BY <1>2, <1>3, <1>4, WalksDiffer
<1>6. PICK size \in SizeCycle(reserves, book, c) :
          plan = Plan(kind, BuildCalls(reserves, book, c, size.amountIn), <<>>, <<>>, size)
  BY DEF IsCyclePlan
<1>7. PICK twin \in SizeCycle(reserves, book, c) :
          other = Plan(kind, BuildCalls(reserves, book, c, twin.amountIn), <<>>, <<>>, twin)
  BY <1>5 DEF IsCyclePlan
<1>8. twin = size
  BY <1>2, <1>6, <1>7, SizeIs
<1>9. QED
  BY <1>6, <1>7, <1>8

-----------------------------------------------------------------------------
(* What a block and a pending swap are answered with *)

LEMMA EdgesOf ==
    ASSUME NEW ps \in SUBSET RoutePools
    PROVE  Edges(ps) \subseteq AllEdges /\ \A e \in Edges(ps) : e.pool \in ps
BY DEF Edges, AllEdges

(* What the two passes of a block answer with *)
IsV2Plan(plan, c, n) ==
    /\ n \in Nat /\ IsCyclePlan(plan, "cycle", {}, c, n)
    /\ \A k \in 1 .. n : KindOf[c[k].pool] = "v2"

IsMixedPlan(plan, book, c, n) ==
    /\ n \in Nat /\ IsCyclePlan(plan, "mixed cycle", book, c, n)
    /\ \E k \in 1 .. n : KindOf[c[k].pool] # "v2"

LEMMA V2PlansAre ==
    ASSUME NEW selected \in SUBSET Kinds({"v2"}), NEW plan \in V2Plans(selected)
    PROVE  \E n, c : IsV2Plan(plan, c, n)
<1>1. PICK f \in PayingCycles(reserves, {}, Edges(selected), MaxLegs, FALSE) :
          plan = Plan("cycle", BuildCalls(reserves, {}, f[1], f[2].amountIn), <<>>, <<>>, f[2])
  BY DEF V2Plans
<1> DEFINE c == f[1]
           n == Len(c)
<1>2. c \in Walks(Edges(selected), MaxLegs) /\ f[2] \in SizeCycle(reserves, {}, c)
  BY <1>1, PayingAre
<1>3. selected \in SUBSET RoutePools /\ \A p \in selected : KindOf[p] = "v2"
  BY DEF Kinds
<1>4. Edges(selected) \in SUBSET AllEdges /\ MaxLegs \in Nat
  BY <1>3, EdgesOf, RoutingAssumption
<1>5. IsWalk(c, n) /\ c \in [1 .. n -> Edges(selected)]
  BY <1>2, <1>4, WalksAre
<1> HIDE DEF c, n
<1>6. n \in Nat
  BY <1>5 DEF IsWalk
<1>7. \A k \in 1 .. n : KindOf[c[k].pool] = "v2"
  BY <1>3, <1>5, EdgesOf
<1>8. IsCyclePlan(plan, "cycle", {}, c, n)
  BY <1>1, <1>2, <1>5 DEF IsCyclePlan, c
<1>9. QED
  BY <1>6, <1>7, <1>8 DEF IsV2Plan

LEMMA MixedPlansAre ==
    ASSUME NEW book, NEW plan \in MixedPlans(book)
    PROVE  \E n, c : IsMixedPlan(plan, book, c, n)
<1> DEFINE lanes == {e \in Edges(Kinds({"v3"})) : \E x \in 1 .. MaxIn : <<e, x>> \in book}
                        \cup (IF settings.aero THEN Edges(Kinds({"aero"})) ELSE {})
           edges == Edges(Kinds({"v2"})) \cup lanes
<1>1. plan \in CyclePlans(reserves, book, edges)
  BY DEF MixedPlans
<1>2. edges \in SUBSET AllEdges
  <2>1. \A kinds : Kinds(kinds) \in SUBSET RoutePools
    BY DEF Kinds
  <2>2. QED
    BY <2>1, EdgesOf
<1> HIDE DEF edges
<1>3. PICK f \in PayingCycles(reserves, book, edges, MaxLegs, TRUE) :
          /\ UsesNonV2(f[1])
          /\ plan = Plan("mixed cycle", BuildCalls(reserves, book, f[1], f[2].amountIn), <<>>, <<>>, f[2])
  BY <1>1 DEF CyclePlans
<1> DEFINE c == f[1]
           n == Len(c)
<1>4. c \in Walks(edges, MaxLegs) /\ f[2] \in SizeCycle(reserves, book, c)
  BY <1>3, PayingAre
<1>5. MaxLegs \in Nat
  BY RoutingAssumption
<1>6. IsWalk(c, n) /\ DOMAIN c = 1 .. n
  BY <1>2, <1>4, <1>5, WalksAre
<1> HIDE DEF c, n
<1>7. n \in Nat
  BY <1>6 DEF IsWalk
<1>8. \E k \in 1 .. n : KindOf[c[k].pool] # "v2"
  BY <1>3, <1>6 DEF UsesNonV2, Range, c
<1>9. IsCyclePlan(plan, "mixed cycle", book, c, n)
  BY <1>3, <1>4, <1>6 DEF IsCyclePlan, c
<1>10. QED
  BY <1>7, <1>8, <1>9 DEF IsMixedPlan

(* The V2 pass and the mixed pass of a block never answer with the same route. *)
LEMMA PassesDiffer ==
    ASSUME reserves \in PoolStates, NEW selected \in SUBSET Kinds({"v2"}), NEW book,
           NEW one \in V2Plans(selected), NEW two \in MixedPlans(book), Route(one) = Route(two)
    PROVE  FALSE
<1>1. PICK n, c : IsV2Plan(one, c, n)
  BY V2PlansAre
<1>2. PICK m, d : IsMixedPlan(two, book, d, m)
  BY MixedPlansAre
<1>3. DOMAIN Route(one) = 1 .. n /\ \A k \in 1 .. n : Route(one)[k] = c[k].pool
  BY <1>1, RouteOfPlan DEF IsV2Plan
<1>4. DOMAIN Route(two) = 1 .. m /\ \A k \in 1 .. m : Route(two)[k] = d[k].pool
  <2>1. PICK kind : m \in Nat /\ IsCyclePlan(two, kind, book, d, m)
    BY <1>2 DEF IsMixedPlan
  <2>2. QED
    BY <2>1, RouteOfPlan
<1>5. PICK k \in 1 .. m : KindOf[d[k].pool] # "v2"
  BY <1>2 DEF IsMixedPlan
<1>6. k \in 1 .. n /\ c[k].pool = d[k].pool
  BY <1>3, <1>4, <1>5
<1>7. QED
  BY <1>1, <1>5, <1>6 DEF IsV2Plan

LEMMA BackRunsPay ==
    ASSUME reserves \in PoolStates, NEW p \in RoutePools, NEW v, Trades(p, v.from), v.amount \in Nat,
           NEW state, state = WithSwap(reserves, p, v.from, v.amount),
           NEW q \in RoutePools, NEW r \in RoutePools, NEW priced, NEW found,
           found \subseteq PayingCycles(state, {}, Edges({q, r}), 2, priced),
           NEW plan \in BackRuns(found, state, p, v)
    PROVE  plan.kind = "back-run" /\ Pays(plan)
<1>1. PICK f \in PayingCycles(state, {}, Edges({q, r}), 2, priced) :
          plan = Plan("back-run", <<>>, <<[Swap(p, v) EXCEPT !.minOut = 0]>>,
                      BuildCalls(state, {}, f[1], f[2].amountIn), f[2])
  BY DEF BackRuns
<1> DEFINE c == f[1]
           n == Len(c)
<1>2. c \in Walks(Edges({q, r}), 2) /\ f[2] \in SizeCycle(state, {}, c)
  BY <1>1, PayingAre
<1>3. Edges({q, r}) \in SUBSET AllEdges
  BY EdgesOf
<1>4. IsWalk(c, n)
  BY <1>2, <1>3, WalksAre
<1> HIDE DEF c, n
<1>5. n \in Nat
  BY <1>4 DEF IsWalk
<1>6. plan = Plan("back-run", <<>>, <<[Swap(p, v) EXCEPT !.minOut = 0]>>,
                  BuildCalls(state, {}, c, f[2].amountIn), f[2])
  BY <1>1 DEF c
<1>7. Pays(plan)
  BY <1>2, <1>4, <1>5, <1>6, BackRunPays
<1>8. QED
  BY <1>6, <1>7 DEF Plan

(* A back-run goes round two pools behind the victim's swap in `r`. *)
IsBackRun(plan, v, p, q, r, priced, found) ==
    /\ {p, q, r} \subseteq RoutePools /\ Trades(r, v.from)
    /\ found \subseteq PayingCycles(WithSwap(reserves, r, v.from, v.amount), {}, Edges({p, q}), 2,
                                    priced)
    /\ plan \in BackRuns(found, WithSwap(reserves, r, v.from, v.amount), r, v)

LEMMA BackRunsAre ==
    ASSUME NEW v \in Victims, NEW plan \in BackRun(v)
    PROVE  \E p, q, r, priced, found : IsBackRun(plan, v, p, q, r, priced, found)
<1> DEFINE near == PairFor(1, v)
           far == PairFor(2, v)
           aeros == PoolFor("aero", v)
           state(p) == WithSwap(reserves, p, v.from, v.amount)
<1>2. \A p \in near \cup far \cup aeros : p \in RoutePools /\ Trades(p, v.from)
  BY DEF PairFor, PoolFor, Kinds, Trades
<1>3. ASSUME NEW p \in near, NEW q \in aeros, NEW r \in {p, q},
             plan \in MixedBackRuns(p, q, r, v)
      PROVE  \E s, t, u, priced, found : IsBackRun(plan, v, s, t, u, priced, found)
  <2> DEFINE found == {f \in PayingCycles(state(r), {}, Edges({p, q}), 2, TRUE) : UsesNonV2(f[1])}
  <2>1. plan \in BackRuns(found, state(r), r, v)
    BY <1>3 DEF MixedBackRuns
  <2>2. p \in RoutePools /\ q \in RoutePools /\ r \in RoutePools /\ Trades(r, v.from)
    BY <1>2, <1>3
  <2>3. found \subseteq PayingCycles(state(r), {}, Edges({p, q}), 2, TRUE)
    OBVIOUS
  <2> HIDE DEF found
  <2>4. IsBackRun(plan, v, p, q, r, TRUE, found)
    BY <2>1, <2>2, <2>3 DEF IsBackRun
  <2>5. QED
    BY <2>4
<1>4. ASSUME NEW p \in near, NEW q \in far,
             plan \in BackRuns(PayingCycles(state(p), {}, Edges({p, q}), 2, FALSE), state(p), p, v)
      PROVE  \E s, t, u, priced, found : IsBackRun(plan, v, s, t, u, priced, found)
  <2>1. p \in RoutePools /\ q \in RoutePools /\ Trades(p, v.from)
    BY <1>2, <1>4
  <2>2. IsBackRun(plan, v, p, q, p, FALSE,
                  PayingCycles(state(p), {}, Edges({p, q}), 2, FALSE))
    BY <1>4, <2>1 DEF IsBackRun
  <2>3. QED
    BY <2>2
<1>5. \/ \E p \in near, q \in aeros : plan \in MixedBackRuns(p, q, q, v)
      \/ \E p \in near, q \in aeros : plan \in MixedBackRuns(p, q, p, v)
      \/ \E p \in near, q \in far :
            plan \in BackRuns(PayingCycles(state(p), {}, Edges({p, q}), 2, FALSE), state(p), p, v)
  <2> DEFINE one == UNION {MixedBackRuns(p, q, q, v) : p \in near, q \in aeros}
             two == UNION {MixedBackRuns(p, q, p, v) : p \in near, q \in aeros}
             across(p, q) ==
                 BackRuns(PayingCycles(state(p), {}, Edges({p, q}), 2, FALSE), state(p), p, v)
             three == UNION {across(p, q) : p \in near, q \in far}
  <2>1. BackRun(v) = CASE v.router = "aero" /\ settings.aero -> one
                       [] v.router = "v2" /\ settings.venues = 1 /\ settings.aero -> two
                       [] v.router = "v2" /\ settings.venues = 2 -> three
                       [] OTHER -> {}
    BY DEF BackRun
  <2>2. plan \in one \/ plan \in two \/ plan \in three
    <3> HIDE DEF one, two, three
    <3>1. ~(settings.venues = 1 /\ settings.venues = 2) /\ "aero" # "v2"
      OBVIOUS
    <3>2. QED
      BY <2>1, <3>1
  <2>3. plan \in one => \E p \in near, q \in aeros : plan \in MixedBackRuns(p, q, q, v)
    <3> HIDE DEF two, three, near, far, aeros, state
    <3>1. QED
      OBVIOUS
  <2>4. plan \in two => \E p \in near, q \in aeros : plan \in MixedBackRuns(p, q, p, v)
    <3> HIDE DEF one, three, near, far, aeros, state
    <3>1. QED
      OBVIOUS
  <2>5. plan \in three => \E p \in near, q \in far : plan \in across(p, q)
    <3> HIDE DEF one, two, near, far, aeros, state, across
    <3>1. QED
      OBVIOUS
  <2> HIDE DEF one, two, three, near, far, aeros, state
  <2>6. QED
    BY <2>2, <2>3, <2>4, <2>5
<1>6. QED
  BY <1>3, <1>4, <1>5

LEMMA BackRunIsPaid ==
    ASSUME reserves \in PoolStates, NEW v \in Victims, NEW plan \in BackRun(v)
    PROVE  plan.kind = "back-run" /\ Pays(plan)
<1>1. PICK p, q, r, priced, found : IsBackRun(plan, v, p, q, r, priced, found)
  BY BackRunsAre
<1>2. v.amount \in Nat
  BY RoutingAssumption DEF Victims
<1>3. QED
  BY <1>1, <1>2, BackRunsPay DEF IsBackRun

LEMMA AroundIs ==
    ASSUME NEW kind, NEW p, NEW v, NEW size
    PROVE  Around(kind, p, v, size).kind = kind
BY DEF Around, Plan

LEMMA SandwichKinds ==
    ASSUME NEW v, NEW failed
    PROVE  /\ \A plan \in Sandwich(v) : plan.kind = "sandwich"
           /\ \A plan \in SandwichV3(v, failed) : plan.kind = "sandwich_v3"
<1>1. ASSUME NEW plan \in Sandwich(v) PROVE plan.kind = "sandwich"
  <2>1. \E f : plan = Around("sandwich", f[1], v, f[2])
    BY DEF Sandwich
  <2>2. QED
    BY <2>1, AroundIs
<1>2. ASSUME NEW plan \in SandwichV3(v, failed) PROVE plan.kind = "sandwich_v3"
  <2>1. \E f : plan = Around("sandwich_v3", f[1], v, f[2])
    BY DEF SandwichV3
  <2>2. QED
    BY <2>1, AroundIs
<1>3. QED
  BY <1>1, <1>2

PaysOnce ==
    \A plan \in plans :
        /\ plan.kind \in Cycles \cup {"back-run"} => Pays(plan)
        /\ \A other \in plans :
              {plan.kind, other.kind} \subseteq Cycles /\ Route(plan) = Route(other) => plan = other

LEMMA OnBlockPays ==
    ASSUME reserves \in PoolStates, OnBlock
    PROVE  PaysOnce'
<1>1. PICK selected \in Selections(Kinds({"v2"})), failed \in Failing(Asked) :
          plans' = V2Plans(selected) \cup MixedPlans(Asked \ failed)
  BY DEF OnBlock
<1> DEFINE book == Asked \ failed
<1>2. selected \in SUBSET Kinds({"v2"})
  BY <1>1 DEF Selections, kSubset
<1> HIDE DEF book
<1>3. \A plan \in plans' : plan \in V2Plans(selected) \/ plan \in MixedPlans(book)
  BY <1>1 DEF book
<1>4. ASSUME NEW plan \in plans' PROVE Pays(plan) /\ plan.kind \in Cycles
  <2>1. ASSUME NEW kind \in Cycles, NEW priced, NEW n \in Nat, NEW c,
               IsCyclePlan(plan, kind, priced, c, n)
        PROVE  Pays(plan) /\ plan.kind \in Cycles
    <3>1. PICK size \in SizeCycle(reserves, priced, c) :
              plan = Plan(kind, BuildCalls(reserves, priced, c, size.amountIn), <<>>, <<>>, size)
      BY <2>1 DEF IsCyclePlan
    <3>2. IsWalk(c, n)
      BY <2>1 DEF IsCyclePlan
    <3>3. Pays(plan)
      BY <3>1, <3>2, CyclePays
    <3>4. plan.kind = kind
      BY <3>1 DEF Plan
    <3>5. QED
      BY <3>3, <3>4
  <2>2. CASE plan \in V2Plans(selected)
    <3>1. PICK n, c : IsV2Plan(plan, c, n)
      BY <1>2, <2>2, V2PlansAre
    <3>2. QED
      BY <2>1, <3>1 DEF IsV2Plan, Cycles
  <2>3. CASE plan \in MixedPlans(book)
    <3>1. PICK n, c : IsMixedPlan(plan, book, c, n)
      BY <2>3, MixedPlansAre
    <3>2. QED
      BY <2>1, <3>1 DEF IsMixedPlan, Cycles
  <2>4. QED
    BY <1>3, <2>2, <2>3
<1>5. ASSUME NEW plan \in plans', NEW other \in plans', Route(plan) = Route(other)
      PROVE  plan = other
  <2>1. CASE plan \in V2Plans(selected) /\ other \in V2Plans(selected)
    <3>1. PICK n, c : IsV2Plan(plan, c, n)
      BY <1>2, <2>1, V2PlansAre
    <3>2. PICK m, d : IsV2Plan(other, d, m)
      BY <1>2, <2>1, V2PlansAre
    <3>3. QED
      BY <1>5, <3>1, <3>2, PlansDiffer DEF IsV2Plan
  <2>2. CASE plan \in MixedPlans(book) /\ other \in MixedPlans(book)
    <3>1. PICK n, c : IsMixedPlan(plan, book, c, n)
      BY <2>2, MixedPlansAre
    <3>2. PICK m, d : IsMixedPlan(other, book, d, m)
      BY <2>2, MixedPlansAre
    <3>3. QED
      BY <1>5, <3>1, <3>2, PlansDiffer DEF IsMixedPlan
  <2>3. ASSUME NEW one \in V2Plans(selected), NEW two \in MixedPlans(book), Route(one) = Route(two)
        PROVE  FALSE
    BY <1>2, <2>3, PassesDiffer
  <2>4. QED
    BY <1>3, <1>5, <2>1, <2>2, <2>3
<1>6. reserves' = reserves
  BY DEF OnBlock
<1>7. \A plan : Executed(plan)' = Executed(plan)
  BY <1>6 DEF Executed, Call, VictimCall
<1>8. QED
  BY <1>4, <1>5, <1>7 DEF PaysOnce, Pays

LEMMA OnPendingPays ==
    ASSUME reserves \in PoolStates, NEW v \in Victims, OnPending(v)
    PROVE  PaysOnce'
<1>1. \A plan \in plans' : \/ plan \in BackRun(v)
                           \/ plan \in Sandwich(v)
                           \/ \E failed : plan \in SandwichV3(v, failed)
  BY DEF OnPending
<1>2. ASSUME NEW plan \in plans'
      PROVE  plan.kind \in {"back-run", "sandwich", "sandwich_v3"}
             /\ (plan.kind = "back-run" => Pays(plan))
  <2>1. CASE plan \in BackRun(v)
    BY <2>1, BackRunIsPaid
  <2>2. CASE plan \in Sandwich(v)
    BY <2>2, SandwichKinds
  <2>3. CASE \E failed : plan \in SandwichV3(v, failed)
    BY <2>3, SandwichKinds
  <2>4. QED
    BY <1>1, <2>1, <2>2, <2>3
<1>3. reserves' = reserves
  BY DEF OnPending
<1>4. \A plan : Executed(plan)' = Executed(plan)
  BY <1>3 DEF Executed, Call, VictimCall
<1>5. QED
  BY <1>2, <1>4 DEF PaysOnce, Pays, Cycles

RouteIInv == reserves \in RouteStates /\ PaysOnce

(* From any reserves, with any fees, any graph of pools and any bounds, every *)
(* cycle and every back-run that is answered with goes through on the state it *)
(* was priced on and ends with exactly the gain it was ranked by, and no cycle *)
(* is answered twice.                                                      *)
THEOREM CyclesPay == RouteSpec => []CyclesPayOnce
<1>1. RouteInit => RouteIInv
  BY DEF RouteInit, RouteIInv, PaysOnce
<1>2. RouteIInv /\ [RouteNext]_routeVars => RouteIInv'
  <2> SUFFICES ASSUME RouteIInv, [RouteNext]_routeVars PROVE RouteIInv'
    OBVIOUS
  <2>1. reserves \in PoolStates
    <3>1. reserves \in [RoutePools -> [1 .. 2 -> Nat \ {0}]]
      BY RoutingAssumption DEF RouteIInv
    <3>2. QED
      BY <3>1 DEF PoolStates, Depths
  <2>2. CASE OnBlock
    BY <2>1, <2>2, OnBlockPays DEF RouteIInv, OnBlock
  <2>3. CASE \E v \in Victims : OnPending(v)
    BY <2>1, <2>3, OnPendingPays DEF RouteIInv, OnPending
  <2>4. CASE Answer
    BY <2>4 DEF RouteIInv, Answer, PaysOnce
  <2>5. CASE UNCHANGED routeVars
    <3>1. plans' = plans /\ reserves' = reserves
      BY <2>5 DEF routeVars
    <3>2. \A plan : Executed(plan)' = Executed(plan)
      BY <3>1 DEF Executed, Call, VictimCall
    <3>3. QED
      BY <3>1, <3>2 DEF RouteIInv, PaysOnce, Pays
  <2>6. QED
    BY <2>2, <2>3, <2>4, <2>5 DEF RouteNext
<1>3. RouteIInv => CyclesPayOnce
  BY DEF RouteIInv, PaysOnce, Pays, CyclesPayOnce
<1>4. QED
  BY <1>1, <1>2, <1>3, PTL DEF RouteSpec

-----------------------------------------------------------------------------
(* Sandwiches: what the back leg names, and what the pair pays *)

(* What goes into a dividend goes into its quotient. *)
LEMMA DivReaches ==
    ASSUME NEW a \in Nat, NEW b \in Nat, NEW d \in Nat \ {0}, b * d <= a
    PROVE  b <= a \div d
<1> DEFINE q == a \div d
<1>1. q \in Int /\ a < d * q + d
  OBVIOUS
<1> HIDE DEF q
<1>2. q >= b
  <2>1. SUFFICES ASSUME q + 1 <= b PROVE FALSE
    BY <1>1
  <2>2. b - (q + 1) \in Nat /\ (b - (q + 1)) * d \in Nat
    BY <1>1, <2>1
  <2>3. b * d = (q + 1) * d + (b - (q + 1)) * d
    BY <1>1
  <2>4. (q + 1) * d = d * q + d /\ d * q \in Int /\ b * d \in Nat
    BY <1>1
  <2>5. QED
    BY <1>1, <2>2, <2>3, <2>4
<1>3. QED
  BY <1>1, <1>2 DEF q

(* A pair gives no less for an amount when it has less of what comes in and   *)
(* more of what goes out.                                                  *)
LEMMA V2GivesMore ==
    ASSUME NEW x, NEW rIn, NEW rOut, NEW less, NEW more, NEW fee,
           x \in Nat, rIn \in Nat, rOut \in Nat, less \in Nat \ {0}, more \in Nat, fee \in 0 .. 999,
           less <= rIn, rOut <= more
    PROVE  V2AmountOut(x, rIn, rOut, fee) <= V2AmountOut(x, less, more, fee)
<1> DEFINE o == V2AmountOut(x, rIn, rOut, fee)
           p == V2AmountOut(x, less, more, fee)
<1>1. o \in Nat /\ p \in Nat
  <2>1. o \in 0 .. rOut /\ p \in 0 .. more
    BY V2Bounded
  <2>2. QED
    BY <2>1
<1>2. CASE 0 \in {x, rIn, rOut}
  <2>1. o = 0
    BY <1>2 DEF V2AmountOut
  <2> HIDE DEF o, p
  <2>2. o <= p
    BY <1>1, <2>1
  <2>3. QED
    BY <2>2 DEF o, p
<1>3. CASE 0 \notin {x, rIn, rOut}
  <2> DEFINE taxed == x * (1000 - fee)
             whole == rIn * 1000 + taxed
             part == less * 1000 + taxed
  <2>1. 0 \notin {x, less, more} /\ less \in Nat /\ less <= rIn
    BY <1>3
  <2>2. o = (taxed * rOut) \div whole /\ p = (taxed * more) \div part
    BY <1>3, <2>1 DEF V2AmountOut
  <2>3. taxed \in Nat
    <3>1. 1000 - fee \in Nat
      OBVIOUS
    <3>2. QED
      BY <3>1
  <2> HIDE DEF taxed, o, p
  <2>4. whole \in Nat \ {0} /\ part \in Nat \ {0} /\ part <= whole
    BY <1>3, <2>1, <2>3
  <2> HIDE DEF whole, part
  <2>5. taxed * rOut \in Nat /\ taxed * more \in Nat /\ taxed * rOut <= taxed * more
    <3>1. more - rOut \in Nat /\ taxed * (more - rOut) \in Nat
      BY <2>3
    <3>2. taxed * more = taxed * rOut + taxed * (more - rOut) /\ taxed * rOut \in Nat
      BY <2>3
    <3>3. QED
      BY <3>1, <3>2
  <2>6. o * whole <= taxed * rOut
    <3> DEFINE a == taxed * rOut
    <3>1. a \in Nat
      BY <2>5
    <3> HIDE DEF a
    <3>2. whole * (a \div whole) <= a
      BY <2>4, <3>1
    <3>3. o * whole = whole * (a \div whole)
      BY <1>1, <2>2, <2>4 DEF a
    <3>4. QED
      BY <3>2, <3>3 DEF a
  <2>7. o * part <= o * whole /\ o * part \in Nat /\ o * whole \in Nat
    <3>1. whole - part \in Nat /\ o * (whole - part) \in Nat
      BY <1>1, <2>4
    <3>2. o * whole = o * part + o * (whole - part) /\ o * part \in Nat
      BY <1>1, <2>4
    <3>3. QED
      BY <3>1, <3>2
  <2>8. o * part <= taxed * more
    BY <2>5, <2>6, <2>7
  <2>9. o <= (taxed * more) \div part
    BY <1>1, <2>4, <2>5, <2>8, DivReaches
  <2>10. QED
    BY <2>2, <2>9 DEF o, p
<1>4. QED
  BY <1>2, <1>3

(* A leg that has what it spends, and names no more than the pool gives, goes  *)
(* through.                                                                *)
LEMMA LegGoes ==
    ASSUME NEW s \in Purses, s.ok, NEW leg, IsCall(leg), KindOf[leg.pool] = "v2",
           leg.amount <= s.held[leg.from], leg.out # 0,
           leg.out <= AmountOut(s.pools, leg.pool, leg.from, leg.amount)
    PROVE  /\ Call(s, leg).ok
           /\ Call(s, leg).pools = AfterTrade(s.pools, leg.pool, leg.from, leg.amount, leg.out)
           /\ LET to == PairOf[leg.pool][3 - Side(leg.pool, leg.from)] IN
              to # leg.from => /\ Call(s, leg).held[to] = s.held[to] + leg.out
                               /\ Call(s, leg).held[leg.from] = s.held[leg.from] - leg.amount
<1> DEFINE p == leg.pool
           best == AmountOut(s.pools, p, leg.from, leg.amount)
           to == PairOf[p][3 - Side(p, leg.from)]
           pools == AfterTrade(s.pools, p, leg.from, leg.amount, leg.out)
           purse == [s.held EXCEPT ![leg.from] = @ - leg.amount, ![to] = @ + leg.out]
<1>1. p \in RoutePools /\ Trades(p, leg.from) /\ leg.amount \in Nat /\ leg.out \in Nat
  BY DEF IsCall
<1>2. s.pools \in PoolStates /\ s.held \in [Tokens -> Int] /\ DOMAIN s = {"ok", "pools", "held"}
  BY DEF Purses
<1>3. best \in Nat
  <2>1. best \in 0 .. s.pools[p][3 - Side(p, leg.from)]
    BY <1>1, <1>2, AmountBounded
  <2>2. QED
    BY <2>1
<1>4. to \in Tokens /\ leg.from \in Tokens
  BY <1>1, SideOfEither
<1>5. ~(s.held[leg.from] < leg.amount \/ leg.out = 0 \/ leg.out > best)
  <2> HIDE DEF best
  <2>1. QED
    BY <1>1, <1>2, <1>3, <1>4 DEF best
<1>6. Call(s, leg) = [s EXCEPT !.pools = pools, !.held = purse]
  BY <1>5 DEF Call
<1>7. to # leg.from => /\ purse[to] = s.held[to] + leg.out
                       /\ purse[leg.from] = s.held[leg.from] - leg.amount
  <2> HIDE DEF to, p
  <2>1. QED
    BY <1>2, <1>4
<1> HIDE DEF pools, purse
<1>8. QED
  BY <1>2, <1>6, <1>7 DEF pools

(* What a trade does to the two sides of the pool *)
Kept(p, x) == IF KindOf[p] = "v3" THEN AfterFee(x, FeeOf[p]) ELSE x

LEMMA SidesAfter ==
    ASSUME NEW state \in PoolStates, NEW p \in RoutePools, NEW token, Trades(p, token),
           NEW x \in Nat, NEW out \in 0 .. state[p][3 - Side(p, token)]
    PROVE  /\ AfterTrade(state, p, token, x, out)[p][Side(p, token)]
                  = state[p][Side(p, token)] + Kept(p, x)
           /\ Kept(p, x) \in Nat
           /\ AfterTrade(state, p, token, x, out)[p][3 - Side(p, token)]
                  = state[p][3 - Side(p, token)] - out
<1> DEFINE i == Side(p, token)
           after == AfterTrade(state, p, token, x, out)
<1>1. i \in 1 .. 2 /\ 3 - i \in 1 .. 2 /\ i # 3 - i
  BY SideOfEither
<1>2. state[p] \in Depths
  BY DEF PoolStates
<1>3. after = [state EXCEPT ![p] = [[state[p] EXCEPT ![i] = @ + Kept(p, x)] EXCEPT ![3 - i] = @ - out]]
  BY <1>1, <1>2 DEF AfterTrade, Kept, PoolStates, Depths
<1> HIDE DEF i, after
<1>4. after[p] = [[state[p] EXCEPT ![i] = @ + Kept(p, x)] EXCEPT ![3 - i] = @ - out]
  BY <1>3 DEF PoolStates
<1>5. Kept(p, x) \in Nat
  BY AfterFeeIs, RoutingAssumption DEF Kept
<1>6. QED
  BY <1>1, <1>2, <1>4, <1>5 DEF Depths, i, after

(* The other token of a pool *)
LEMMA OtherSide ==
    ASSUME NEW p \in RoutePools, NEW one, NEW two, one # two, {one, two} = Range(PairOf[p])
    PROVE  /\ Trades(p, one) /\ Trades(p, two)
           /\ Side(p, two) = 3 - Side(p, one) /\ Side(p, one) = 3 - Side(p, two)
           /\ PairOf[p][3 - Side(p, one)] = two /\ PairOf[p][3 - Side(p, two)] = one
<1>1. Trades(p, one) /\ Trades(p, two)
  BY DEF Trades
<1>2. /\ Side(p, one) \in 1 .. 2 /\ PairOf[p][Side(p, one)] = one
      /\ Side(p, two) \in 1 .. 2 /\ PairOf[p][Side(p, two)] = two
  BY <1>1, SideOfEither
<1>3. Side(p, one) # Side(p, two)
  BY <1>2
<1>4. Side(p, two) = 3 - Side(p, one) /\ Side(p, one) = 3 - Side(p, two)
  BY <1>2, <1>3
<1>5. QED
  BY <1>1, <1>2, <1>4

(* A swap leaves the pool with more of what went in and less of what came out. *)
LEMMA SwapMoves ==
    ASSUME NEW state \in PoolStates, NEW p \in RoutePools, NEW token, Trades(p, token),
           NEW x \in Nat, NEW next, next = WithSwap(state, p, token, x)
    PROVE  /\ next \in PoolStates
           /\ next[p][Side(p, token)] >= state[p][Side(p, token)]
           /\ next[p][3 - Side(p, token)] <= state[p][3 - Side(p, token)]
<1> DEFINE out == AmountOut(state, p, token, x)
           i == Side(p, token)
<1>1. out \in 0 .. state[p][3 - i]
  BY AmountBounded
<1>2. next[p][i] = state[p][i] + Kept(p, x) /\ Kept(p, x) \in Nat /\ next[p][3 - i] = state[p][3 - i] - out
  BY <1>1, SidesAfter DEF WithSwap
<1>3. next \in PoolStates
  BY WithSwapKeeps
<1>4. state[p][i] \in Nat /\ state[p][3 - i] \in Nat
  BY SideOfEither DEF PoolStates, Depths
<1> HIDE DEF out, i
<1>5. next[p][i] >= state[p][i] /\ next[p][3 - i] <= state[p][3 - i]
  BY <1>1, <1>2, <1>4
<1>6. QED
  BY <1>3, <1>5 DEF i

(* Sold back behind the victim, what the front leg bought is worth no less    *)
(* than on the pool it was bought from.                                    *)
LEMMA SaleIsCovered ==
    ASSUME NEW state \in PoolStates, NEW p \in RoutePools, KindOf[p] = "v2",
           NEW one, NEW two, one # two, {one, two} = Range(PairOf[p]),
           NEW x \in Nat, NEW y \in Nat, NEW amount \in Nat,
           NEW moved, moved = WithSwap(WithSwap(state, p, one, x), p, one, y),
           AmountOut(moved, p, two, amount) # 0
    PROVE  AmountOut(state, p, two, amount) <= AmountOut(moved, p, two, amount)
<1> DEFINE i == Side(p, one)
           half == WithSwap(state, p, one, x)
<1>1. Trades(p, one) /\ Trades(p, two) /\ Side(p, two) = 3 - i /\ i = 3 - (3 - i)
      /\ i \in 1 .. 2 /\ 3 - i \in 1 .. 2
  BY OtherSide, SideOfEither
<1>2. /\ half \in PoolStates /\ half[p][i] >= state[p][i] /\ half[p][3 - i] <= state[p][3 - i]
  BY <1>1, SwapMoves
<1>3. /\ moved \in PoolStates /\ moved[p][i] >= half[p][i] /\ moved[p][3 - i] <= half[p][3 - i]
  BY <1>1, <1>2, SwapMoves
<1>4. ASSUME NEW s \in PoolStates
      PROVE  /\ s[p][i] \in Nat /\ s[p][3 - i] \in Nat
             /\ AmountOut(s, p, two, amount) = V2AmountOut(amount, s[p][3 - i], s[p][i], FeeOf[p])
  <2>1. s[p][i] \in Nat /\ s[p][3 - i] \in Nat
    BY <1>1 DEF PoolStates, Depths
  <2>2. s[p][Side(p, two)] = s[p][3 - i] /\ s[p][3 - Side(p, two)] = s[p][i]
    BY <1>1
  <2>3. QED
    BY <2>1, <2>2 DEF AmountOut
<1> HIDE DEF i, half
<1>5. state[p][i] <= moved[p][i] /\ moved[p][3 - i] <= state[p][3 - i]
  BY <1>2, <1>3, <1>4
<1>6. moved[p][3 - i] # 0
  BY <1>3, <1>4 DEF V2AmountOut
<1>7. moved[p][3 - i] \in 1 .. state[p][3 - i]
  BY <1>3, <1>4, <1>5, <1>6
<1>8. FeeOf[p] \in 0 .. 999
  BY RoutingAssumption
<1>9. V2AmountOut(amount, state[p][3 - i], state[p][i], FeeOf[p])
          <= V2AmountOut(amount, moved[p][3 - i], moved[p][i], FeeOf[p])
  <2>1. state[p][3 - i] \in Nat /\ state[p][i] \in Nat /\ moved[p][i] \in Nat
    BY <1>3, <1>4
  <2> DEFINE rIn == state[p][3 - i]
             rOut == state[p][i]
             less == moved[p][3 - i]
             more == moved[p][i]
             fee == FeeOf[p]
  <2>2. rIn \in Nat /\ rOut \in Nat /\ less \in Nat \ {0} /\ less <= rIn /\ more \in Nat /\ rOut <= more
        /\ fee \in 0 .. 999
    BY <1>5, <1>7, <1>8, <2>1
  <2> HIDE DEF rIn, rOut, less, more, fee
  <2>3. V2AmountOut(amount, rIn, rOut, fee) <= V2AmountOut(amount, less, more, fee)
    <3>1. amount \in Nat /\ rIn \in Nat /\ rOut \in Nat /\ more \in Nat
      BY <2>2
    <3>2. less \in Nat \ {0} /\ less <= rIn
      BY <2>2
    <3>3. rOut <= more /\ fee \in 0 .. 999
      BY <2>2
    <3>4. QED
      BY <3>1, <3>2, <3>3, V2GivesMore
  <2>4. QED
    BY <2>3 DEF rIn, rOut, less, more, fee
<1>10. QED
  BY <1>3, <1>4, <1>9
(* The run of a sandwich: our leg, the victim, our leg *)
LEMMA ThreeCalls ==
    ASSUME reserves \in PoolStates, NEW plan, plan.amountIn \in Nat, NEW front, NEW swap, NEW back,
           plan.front = <<front>>, plan.victim = <<swap>>, plan.back = <<back>>,
           IsCall(front), IsSwap(swap), IsCall(back)
    PROVE  \E s \in Purses : /\ Funded(s, reserves, plan.amountIn)
                             /\ Executed(plan) = Call(VictimCall(Call(s, front), swap), back)
<1> DEFINE Items == {front, swap, back}
           half == <<front>> \o <<swap>>
           whole == half \o <<back>>
<1>1. /\ <<front>> \in Seq(Items) /\ <<swap>> \in Seq(Items) /\ <<back>> \in Seq(Items)
      /\ Len(<<front>>) = 1 /\ Len(<<swap>>) = 1 /\ Len(<<back>>) = 1
  OBVIOUS
<1>2. /\ half \in Seq(Items) /\ Len(half) = 2
      /\ half[1] = front /\ half[2] = swap
  BY <1>1, ConcatProperties
<1>3. /\ Len(whole) = 3
      /\ whole[1] = front /\ whole[2] = swap /\ whole[3] = back
  <2> HIDE DEF half
  <2>1. /\ Len(whole) = 2 + 1
        /\ \A i \in 1 .. 2 + 1 : whole[i] = IF i <= 2 THEN half[i] ELSE <<back>>[i - 2]
    BY <1>1, <1>2, ConcatProperties
  <2> HIDE DEF whole
  <2>2. QED
    BY <1>2, <2>1
<1>4. PlanCalls(plan) = whole /\ Len(plan.front) = 1 /\ Len(plan.front \o plan.victim) = 2
  BY <1>1, <1>2 DEF PlanCalls
<1> HIDE DEF whole, half
<1>5. Ours(plan, 1) /\ ~Ours(plan, 2) /\ Ours(plan, 3)
  BY <1>4 DEF Ours
<1>6. PICK f : IsRun(f, plan, 3) /\ Executed(plan) = f[3]
  <2>1. Len(PlanCalls(plan)) = 3 /\ 3 \in Nat
    BY <1>3, <1>4
  <2>2. \A k \in 1 .. 3 : /\ Ours(plan, k) => IsCall(PlanCalls(plan)[k])
                          /\ ~Ours(plan, k) => IsSwap(PlanCalls(plan)[k])
    <3>1. 1 .. 3 = {1, 2, 3}
      OBVIOUS
    <3>2. QED
      BY <1>3, <1>4, <1>5, <3>1
  <2>3. QED
    BY <2>1, <2>2, RunExists
<1>7. f[0] \in Purses /\ Funded(f[0], reserves, plan.amountIn)
  <2>1. 3 \in Nat /\ 0 \in 0 .. 3
    OBVIOUS
  <2>2. QED
    BY <1>6, <2>1, StartIsFunded
<1>8. /\ f[1] = Call(f[0], front) /\ f[2] = VictimCall(f[1], swap) /\ f[3] = Call(f[2], back)
  <2>1. \A k \in 1 .. 3 : f[k] = AfterCall(plan, f[k - 1], k)
    BY <1>6 DEF IsRun
  <2>2. f[1] = AfterCall(plan, f[0], 1) /\ f[2] = AfterCall(plan, f[1], 2)
        /\ f[3] = AfterCall(plan, f[2], 3)
    <3>1. 1 \in 1 .. 3 /\ 2 \in 1 .. 3 /\ 3 \in 1 .. 3 /\ 1 - 1 = 0 /\ 2 - 1 = 1 /\ 3 - 1 = 2
      OBVIOUS
    <3>2. QED
      BY <2>1, <3>1
  <2>3. QED
    BY <1>3, <1>4, <1>5, <2>2 DEF AfterCall
<1>9. QED
  BY <1>6, <1>7, <1>8
(* A sandwich goes through when its back leg names something, and ends with   *)
(* exactly that.                                                           *)
LEMMA SandwichRuns ==
    ASSUME reserves \in PoolStates, NEW p \in RoutePools, KindOf[p] = "v2",
           NEW v, v.from = Anchor, v.from # v.to, {v.from, v.to} = Range(PairOf[p]),
           v.amount \in Nat, v.minOut \in Nat,
           NEW size, size.amountIn \in Nat, SandwichGain(p, v, size.amountIn) > 0,
           NEW plan, plan = Around("sandwich", p, v, size), plan.back[1].out # 0
    PROVE  Executed(plan).ok /\ Executed(plan).held[Anchor] = plan.back[1].out
<1> DEFINE x == size.amountIn
           bought == AmountOut(reserves, p, v.from, x)
           given == AmountOut(AfterFront(p, v, x), p, v.from, v.amount)
           sale == AmountOut(reserves, p, v.to, bought)
           behind == AfterVictim(p, v, x)
           front == Leg(reserves, p, v.from, x)
           back == Leg(reserves, p, v.to, bought)
           swap == Swap(p, v)
<1>1. x \in Nat
  OBVIOUS
<1>2. /\ bought # 0 /\ ~(given < v.minOut)
      /\ AmountOut(behind, p, v.to, bought) # 0
  <2>1. SandwichGain(p, v, x) =
            IF 0 \in {x, bought, given} \/ given < v.minOut THEN 0
            ELSE Gain(AmountOut(behind, p, v.to, bought), x)
    BY DEF SandwichGain
  <2> HIDE DEF bought, given, behind
  <2>2. bought # 0 /\ ~(given < v.minOut)
        /\ Gain(AmountOut(behind, p, v.to, bought), x) > 0
    BY <2>1
  <2>3. Gain(0, x) = 0
    BY DEF Gain
  <2>4. QED
    BY <2>2, <2>3
<1>3. /\ Trades(p, v.from) /\ Trades(p, v.to)
      /\ PairOf[p][3 - Side(p, v.from)] = v.to
  BY OtherSide
<1>4. bought \in Nat /\ bought \in 0 .. reserves[p][3 - Side(p, v.from)]
  <2>1. bought \in 0 .. reserves[p][3 - Side(p, v.from)]
    BY <1>3, AmountBounded
  <2>2. QED
    BY <2>1
<1>5. sale \in Nat
  <2>1. sale \in 0 .. reserves[p][3 - Side(p, v.to)]
    BY <1>3, <1>4, AmountBounded
  <2>2. QED
    BY <2>1
<1>6. /\ front = [pool |-> p, from |-> v.from, amount |-> x, out |-> bought]
      /\ back = [pool |-> p, from |-> v.to, amount |-> bought, out |-> sale]
      /\ swap = [pool |-> p, from |-> v.from, amount |-> v.amount, minOut |-> v.minOut]
  BY DEF Leg, Swap
<1>7. IsCall(front) /\ IsCall(back) /\ IsSwap(swap)
  BY <1>3, <1>4, <1>5, <1>6 DEF IsCall, IsSwap
<1>8. plan.front = <<front>> /\ plan.victim = <<swap>> /\ plan.back = <<back>> /\ plan.amountIn = x
  BY DEF Around, Plan
<1>9. sale # 0
  BY <1>6, <1>8
<1>10. AfterFront(p, v, x) \in PoolStates /\ behind \in PoolStates
  BY <1>3, WithSwapKeeps DEF AfterFront, AfterVictim
<1>11. sale <= AmountOut(behind, p, v.to, bought)
  <2>1. behind = WithSwap(WithSwap(reserves, p, v.from, x), p, v.from, v.amount)
    BY DEF AfterVictim, AfterFront
  <2> HIDE DEF behind, bought
  <2>2. QED
    BY <1>2, <1>4, <2>1, SaleIsCovered
<1> HIDE DEF front, back, swap
<1>12. PICK s \in Purses : /\ Funded(s, reserves, x)
                           /\ Executed(plan) = Call(VictimCall(Call(s, front), swap), back)
  BY <1>7, <1>8, ThreeCalls
<1> DEFINE one == Call(s, front)
           two == VictimCall(one, swap)
<1>13. /\ one \in Purses /\ one.ok /\ one.pools = AfterFront(p, v, x) /\ one.held[v.to] = bought
       /\ one.held[v.from] = 0
  <2>1. s.ok /\ s.pools = reserves /\ s.held[v.from] = x /\ s.held[v.to] = 0
    <3>1. v.from \in Tokens /\ v.to \in Tokens
      BY <1>3, SideOfEither
    <3>2. QED
      BY <1>12, <3>1 DEF Funded
  <2>2. /\ front.pool = p /\ front.from = v.from /\ front.amount = x /\ front.out = bought
    BY <1>6
  <2>3. front.amount <= s.held[front.from] /\ front.out # 0
        /\ front.out <= AmountOut(s.pools, front.pool, front.from, front.amount)
    <3> HIDE DEF bought
    <3>1. bought = AmountOut(s.pools, front.pool, front.from, front.amount)
      BY <2>1, <2>2 DEF bought
    <3>2. QED
      BY <1>1, <1>2, <1>4, <2>1, <2>2, <3>1
  <2>4. /\ one.ok /\ one.pools = AfterTrade(reserves, p, v.from, x, bought)
        /\ one.held[v.to] = 0 + bought /\ one.held[v.from] = x - x
    BY <1>3, <1>7, <2>1, <2>2, <2>3, LegGoes
  <2>5. one \in Purses
    BY <1>7, <1>12, LegKeeps
  <2>6. AfterFront(p, v, x) = AfterTrade(reserves, p, v.from, x, bought)
    BY DEF AfterFront, WithSwap
  <2> HIDE DEF one, bought
  <2>7. QED
    BY <1>1, <1>4, <2>4, <2>5, <2>6
<1> HIDE DEF one
<1>14. two \in Purses /\ two.ok /\ two.pools = behind /\ two.held[v.to] = bought
       /\ two.held[v.from] = 0
  <2>1. two = [one EXCEPT !.pools = AfterTrade(@, p, v.from, v.amount, given)]
    BY <1>2, <1>6, <1>13 DEF VictimCall
  <2>2. AfterTrade(one.pools, p, v.from, v.amount, given) = behind
    BY <1>13 DEF AfterVictim, WithSwap
  <2>3. two \in Purses
    BY <1>7, <1>13, VictimKeeps
  <2>4. DOMAIN one = {"ok", "pools", "held"}
    BY <1>13 DEF Purses
  <2> HIDE DEF two, behind, given
  <2>5. two.ok = one.ok /\ two.pools = behind /\ two.held = one.held
    BY <2>1, <2>2, <2>4
  <2>6. QED
    BY <1>13, <2>3, <2>5
<1> HIDE DEF two
<1>15. Call(two, back).ok /\ Call(two, back).held[v.from] = sale
  <2>1. back.pool = p /\ back.from = v.to /\ back.amount = bought /\ back.out = sale
    BY <1>6
  <2> HIDE DEF bought, sale, behind
  <2>2. back.amount <= two.held[back.from]
    BY <1>4, <1>14, <2>1
  <2>3. back.out <= AmountOut(two.pools, back.pool, back.from, back.amount)
    BY <1>11, <1>14, <2>1
  <2>4. /\ Call(two, back).ok
        /\ Call(two, back).held[v.from] = 0 + sale
    <3>1. PairOf[p][3 - Side(p, v.to)] = v.from
      BY OtherSide
    <3>2. QED
      BY <1>7, <1>9, <1>14, <2>1, <2>2, <2>3, <3>1, LegGoes
  <2>5. QED
    BY <1>5, <2>4 DEF sale
<1>16. QED
  BY <1>6, <1>8, <1>12, <1>15 DEF one, two

LEMMA SandwichGainIs ==
    ASSUME reserves \in PoolStates, NEW p \in RoutePools, NEW v, v.from # v.to,
           {v.from, v.to} = Range(PairOf[p]), v.amount \in Nat, NEW x \in Nat
    PROVE  SandwichGain(p, v, x) \in Nat /\ SandwichGain(p, v, 0) = 0
<1> DEFINE bought(y) == AmountOut(reserves, p, v.from, y)
           given(y) == AmountOut(AfterFront(p, v, y), p, v.from, v.amount)
           sold(y) == AmountOut(AfterVictim(p, v, y), p, v.to, bought(y))
<1>1. ASSUME NEW y \in Nat
      PROVE  SandwichGain(p, v, y) = IF 0 \in {y, bought(y), given(y)} \/ given(y) < v.minOut THEN 0
                                     ELSE Gain(sold(y), y)
  BY DEF SandwichGain
<1>2. Trades(p, v.from) /\ Trades(p, v.to)
  BY OtherSide
<1>3. bought(x) \in Nat
  <2>1. bought(x) \in 0 .. reserves[p][3 - Side(p, v.from)]
    BY <1>2, AmountBounded
  <2>2. QED
    BY <2>1
<1>4. AfterVictim(p, v, x) \in PoolStates
  BY <1>2, WithSwapKeeps DEF AfterFront, AfterVictim
<1>5. sold(x) \in Nat
  <2>1. sold(x) \in 0 .. AfterVictim(p, v, x)[p][3 - Side(p, v.to)]
    BY <1>2, <1>3, <1>4, AmountBounded
  <2>2. QED
    BY <2>1
<1> HIDE DEF bought, given, sold
<1>6. Gain(sold(x), x) \in Nat
  BY <1>5, GainIs
<1>7. SandwichGain(p, v, 0) = 0
  <2>1. 0 \in Nat /\ 0 \in {0, bought(0), given(0)}
    OBVIOUS
  <2>2. QED
    BY <1>1, <2>1
<1>8. QED
  BY <1>1, <1>6, <1>7

(* A V2 sandwich is one around a pair of the two tokens, of a size that gains. *)
IsSandwich(plan, v, p, size) ==
    /\ p \in RoutePools /\ KindOf[p] = "v2"
    /\ v.from # v.to /\ {v.from, v.to} = Range(PairOf[p])
    /\ v.amount \in Nat /\ v.minOut \in Nat
    /\ size.amountIn \in 1 .. MaxIn /\ size.gross \in Nat \ {0}
    /\ SandwichGain(p, v, size.amountIn) > 0
    /\ plan = Around("sandwich", p, v, size)

LEMMA SandwichIs ==
    ASSUME reserves \in PoolStates, NEW v \in Victims, NEW plan \in Sandwich(v)
    PROVE  \E p, size : IsSandwich(plan, v, p, size)
<1>1. v.from # v.to /\ v.amount \in Nat /\ v.minOut \in Nat
  BY RoutingAssumption DEF Victims
<1> DEFINE sizes(p) == {t \in TernarySearchMax([x \in 0 .. MaxIn |-> SandwichGain(p, v, x)],
                                               reserves[p][Side(p, v.from)]) : t.gross > GasCost(27)}
           pairs == UNION {PairFor(n, v) : n \in 1 .. settings.venues}
           found == UNION {{<<p, s>> : s \in sizes(p)} : p \in pairs}
<1>2. PICK p, size :
          p \in pairs /\ size \in sizes(p) /\ plan = Around("sandwich", p, v, size)
  <2>1. Sandwich(v) = {Around("sandwich", f[1], v, f[2]) : f \in found}
    BY DEF Sandwich
  <2> HIDE DEF sizes, pairs, found
  <2>2. PICK f \in found : plan = Around("sandwich", f[1], v, f[2])
    BY <2>1
  <2>3. PICK p \in pairs : \E s \in sizes(p) : f = <<p, s>>
    BY DEF found
  <2>4. QED
    BY <2>2, <2>3
<1> DEFINE gain == [x \in 0 .. MaxIn |-> SandwichGain(p, v, x)]
           searched == DOMAIN gain
                          \cap Narrow(gain)[0, AtMost(MaxIn, reserves[p][Side(p, v.from)])]
<1>3. p \in RoutePools /\ KindOf[p] = "v2" /\ {v.from, v.to} = Range(PairOf[p])
  BY <1>2 DEF PairFor, Kinds
<1>4. MaxIn \in Nat
  BY RoutingAssumption
<1>5. gain \in [0 .. MaxIn -> Nat] /\ gain[0] = 0 /\ \A x \in 0 .. MaxIn : gain[x] = SandwichGain(p, v, x)
  <2>1. \A x \in 0 .. MaxIn : x \in Nat
    BY <1>4
  <2>2. \A x \in 0 .. MaxIn : SandwichGain(p, v, x) \in Nat
    BY <1>1, <1>3, <2>1, SandwichGainIs
  <2>3. SandwichGain(p, v, 0) = 0 /\ 0 \in 0 .. MaxIn
    BY <1>1, <1>3, <1>4, SandwichGainIs
  <2>4. QED
    BY <2>2, <2>3
<1>6. size \in Best(gain, searched)
  BY <1>2, Zenon DEF TernarySearchMax
<1>7. searched \in SUBSET (0 .. MaxIn)
  BY Zenon
<1> HIDE DEF gain, searched, sizes, pairs, found
<1>8. /\ size.amountIn \in 1 .. MaxIn /\ size.gross = gain[size.amountIn]
      /\ size.gross \in Nat \ {0}
  BY <1>5, <1>6, <1>7, BestIs
<1>9. SandwichGain(p, v, size.amountIn) > 0
  <2>1. size.amountIn \in 0 .. MaxIn /\ gain[size.amountIn] > 0
    BY <1>4, <1>8
  <2>2. QED
    BY <1>5, <2>1
<1>10. QED
  BY <1>1, <1>2, <1>3, <1>8, <1>9 DEF IsSandwich

LEMMA ReservesAreDepths ==
    ASSUME reserves \in RouteStates
    PROVE  reserves \in PoolStates
<1>1. reserves \in [RoutePools -> [1 .. 2 -> Nat \ {0}]]
  BY RoutingAssumption
<1>2. QED
  BY <1>1 DEF PoolStates, Depths

-----------------------------------------------------------------------------
(* What a plan says of itself *)

Typed(plan) ==
    /\ plan.gross \in Nat \ {0} /\ plan.amountIn \in 1 .. MaxIn
    /\ \A leg \in Range(plan.front \o plan.back) :
          leg.pool \in RoutePools /\ leg.amount \in Nat \ {0} /\ leg.out \in Nat

Spends(leg) == IsCall(leg) /\ leg.amount # 0

LEMMA SpendsAll ==
    ASSUME NEW n \in Nat, NEW calls, DOMAIN calls = 1 .. n, \A k \in 1 .. n : Spends(calls[k])
    PROVE  \A leg \in Range(calls) :
              leg.pool \in RoutePools /\ leg.amount \in Nat \ {0} /\ leg.out \in Nat
BY DEF Range, Spends, IsCall

(* The calls of a cycle that gains something *)
LEMMA BuiltSpends ==
    ASSUME NEW state \in PoolStates, NEW book, NEW c, NEW n \in Nat, IsWalk(c, n),
           NEW size \in SizeCycle(state, book, c), NEW calls,
           calls = BuildCalls(state, book, c, size.amountIn)
    PROVE  /\ calls \in Seq({calls[k] : k \in 1 .. n})
           /\ \A leg \in Range(calls) :
                 leg.pool \in RoutePools /\ leg.amount \in Nat \ {0} /\ leg.out \in Nat
           /\ size.gross \in Nat \ {0} /\ size.amountIn \in 1 .. MaxIn
<1> DEFINE a == Amounts(state, book, c, size.amountIn)
<1>1. size.amountIn \in 1 .. MaxIn /\ size.gross \in Nat \ {0} /\ a[n] = size.amountIn + size.gross
  BY SizeIs
<1>2. size.amountIn \in Nat /\ a[n] # 0
  <2>1. MaxIn \in Nat
    BY RoutingAssumption
  <2> HIDE DEF a
  <2>2. QED
    BY <1>1, <2>1
<1>3. Built(calls, state, c, a, n)
  BY <1>2, CallsAre
<1>4. Priced(a, state, c, n)
  <2>1. c \in [1 .. n -> AllEdges]
    BY WalkLen
  <2>2. QED
    BY <1>2, <2>1, AmountsPositive
<1> HIDE DEF a
<1>5. ASSUME NEW k \in 1 .. n PROVE Spends(calls[k])
  <2>1. calls[k] = Leg(state, c[k].pool, c[k].from, a[k - 1]) /\ IsCall(calls[k])
    BY <1>3 DEF Built
  <2>2. k - 1 \in 0 .. n
    OBVIOUS
  <2>3. a[k - 1] # 0
    BY <1>4, <2>2 DEF Priced
  <2>4. calls[k].amount = a[k - 1]
    BY <2>1 DEF Leg
  <2>5. QED
    BY <2>1, <2>3, <2>4 DEF Spends
<1>6. DOMAIN calls = 1 .. n /\ calls \in [1 .. n -> {calls[k] : k \in 1 .. n}]
  BY <1>3 DEF Built
<1>7. \A leg \in Range(calls) :
          leg.pool \in RoutePools /\ leg.amount \in Nat \ {0} /\ leg.out \in Nat
  BY <1>5, <1>6, SpendsAll
<1>8. calls \in Seq({calls[k] : k \in 1 .. n})
  BY <1>6
<1>9. QED
  BY <1>1, <1>7, <1>8

LEMMA CycleTyped ==
    ASSUME reserves \in PoolStates, NEW plan, NEW kind, NEW book, NEW c, NEW n \in Nat,
           IsCyclePlan(plan, kind, book, c, n)
    PROVE  Typed(plan)
<1>1. PICK size \in SizeCycle(reserves, book, c) :
          plan = Plan(kind, BuildCalls(reserves, book, c, size.amountIn), <<>>, <<>>, size)
  BY DEF IsCyclePlan
<1>2. IsWalk(c, n)
  BY DEF IsCyclePlan
<1> DEFINE calls == BuildCalls(reserves, book, c, size.amountIn)
<1>3. /\ calls \in Seq({calls[k] : k \in 1 .. n})
      /\ \A leg \in Range(calls) :
            leg.pool \in RoutePools /\ leg.amount \in Nat \ {0} /\ leg.out \in Nat
      /\ size.gross \in Nat \ {0} /\ size.amountIn \in 1 .. MaxIn
  BY <1>2, BuiltSpends
<1>4. plan.front = calls /\ plan.back = <<>> /\ plan.gross = size.gross /\ plan.amountIn = size.amountIn
  BY <1>1 DEF Plan
<1> HIDE DEF calls
<1>5. calls \o <<>> = calls
  BY <1>3, ConcatEmptySeq
<1>6. QED
  BY <1>3, <1>4, <1>5 DEF Typed

LEMMA BackRunTyped ==
    ASSUME NEW state \in PoolStates, NEW q \in RoutePools, NEW r \in RoutePools, NEW priced,
           NEW found, found \subseteq PayingCycles(state, {}, Edges({q, r}), 2, priced),
           NEW p, NEW v, NEW plan \in BackRuns(found, state, p, v)
    PROVE  Typed(plan)
<1>1. PICK f \in PayingCycles(state, {}, Edges({q, r}), 2, priced) :
          plan = Plan("back-run", <<>>, <<[Swap(p, v) EXCEPT !.minOut = 0]>>,
                      BuildCalls(state, {}, f[1], f[2].amountIn), f[2])
  BY DEF BackRuns
<1> DEFINE c == f[1]
           n == Len(c)
           size == f[2]
           calls == BuildCalls(state, {}, c, size.amountIn)
<1>2. c \in Walks(Edges({q, r}), 2) /\ size \in SizeCycle(state, {}, c)
  BY <1>1, PayingAre
<1>3. Edges({q, r}) \in SUBSET AllEdges
  BY EdgesOf
<1>4. IsWalk(c, n)
  BY <1>2, <1>3, WalksAre
<1>5. plan.front = <<>> /\ plan.back = calls /\ plan.gross = size.gross /\ plan.amountIn = size.amountIn
  BY <1>1 DEF Plan
<1> HIDE DEF c, n, size
<1>6. n \in Nat
  BY <1>4 DEF IsWalk
<1>7. /\ calls \in Seq({calls[k] : k \in 1 .. n})
      /\ \A leg \in Range(calls) :
            leg.pool \in RoutePools /\ leg.amount \in Nat \ {0} /\ leg.out \in Nat
      /\ size.gross \in Nat \ {0} /\ size.amountIn \in 1 .. MaxIn
  BY <1>2, <1>4, <1>6, BuiltSpends
<1> HIDE DEF calls
<1>8. <<>> \o calls = calls
  BY <1>7, ConcatEmptySeq
<1>9. QED
  BY <1>5, <1>7, <1>8 DEF Typed

(* The two legs of a sandwich *)
LEMMA AroundTyped ==
    ASSUME reserves \in PoolStates, NEW kind, NEW p \in RoutePools, NEW v, v.from # v.to,
           {v.from, v.to} = Range(PairOf[p]), NEW size, size.amountIn \in 1 .. MaxIn,
           size.gross \in Nat \ {0}, AmountOut(reserves, p, v.from, size.amountIn) # 0
    PROVE  Typed(Around(kind, p, v, size))
<1> DEFINE x == size.amountIn
           bought == AmountOut(reserves, p, v.from, x)
           front == Leg(reserves, p, v.from, x)
           back == Leg(reserves, p, v.to, bought)
           plan == Around(kind, p, v, size)
           legs == <<front>> \o <<back>>
<1>1. x \in Nat \ {0}
  BY RoutingAssumption
<1>2. Trades(p, v.from) /\ Trades(p, v.to)
  BY OtherSide
<1>3. ASSUME NEW token, Trades(p, token), NEW y \in Nat
      PROVE  AmountOut(reserves, p, token, y) \in Nat
  <2>1. AmountOut(reserves, p, token, y) \in 0 .. reserves[p][3 - Side(p, token)]
    BY <1>3, AmountBounded
  <2>2. QED
    BY <2>1
<1>4. bought \in Nat \ {0} /\ AmountOut(reserves, p, v.to, bought) \in Nat
  BY <1>1, <1>2, <1>3
<1>5. Spends(front) /\ Spends(back)
  BY <1>1, <1>2, <1>4 DEF Spends, IsCall, Leg
<1>6. plan.front = <<front>> /\ plan.back = <<back>> /\ plan.gross = size.gross /\ plan.amountIn = x
  BY DEF Around, Plan
<1> HIDE DEF front, back, plan
<1>7. DOMAIN legs = 1 .. 2 /\ legs[1] = front /\ legs[2] = back
  <2>1. /\ <<front>> \in Seq({front, back}) /\ <<back>> \in Seq({front, back})
        /\ Len(<<front>>) = 1 /\ Len(<<back>>) = 1
    OBVIOUS
  <2>2. legs \in Seq({front, back}) /\ Len(legs) = 2 /\ legs[1] = front /\ legs[2] = back
    BY <2>1, ConcatProperties
  <2> HIDE DEF legs
  <2>3. QED
    BY <2>2
<1> HIDE DEF legs
<1>8. \A k \in 1 .. 2 : Spends(legs[k])
  <2>1. 1 .. 2 = {1, 2}
    OBVIOUS
  <2>2. QED
    BY <1>5, <1>7, <2>1
<1>9. \A leg \in Range(legs) :
          leg.pool \in RoutePools /\ leg.amount \in Nat \ {0} /\ leg.out \in Nat
  <2>1. 2 \in Nat
    OBVIOUS
  <2>2. QED
    BY <1>7, <1>8, <2>1, SpendsAll
<1>10. Typed(plan)
  BY <1>6, <1>9 DEF Typed, legs
<1>11. QED
  BY <1>10 DEF plan
LEMMA MinExists ==
    ASSUME NEW S \in SUBSET Nat, S # {}
    PROVE  Min(S) \in S
<1> DEFINE smaller == {q \in Nat \X Nat : q[1] < q[2]}
<1>1. IsWellFoundedOn(smaller, Nat)
  BY NatLessThanWellFounded DEF OpToRel
<1>2. PICK m \in S : \A s \in S : <<s, m>> \notin smaller
  <2> HIDE DEF smaller
  <2>1. QED
    BY <1>1, WFMin
<1>3. \A s \in S : m <= s
  <2> TAKE s \in S
  <2>1. s \in Nat /\ m \in Nat /\ ~(s < m)
    BY <1>2
  <2>2. QED
    BY <2>1
<1>4. QED
  BY <1>3 DEF Min

(* The sizes a V3 sandwich is tried at are within the bound. *)
LEMMA SizesInReach ==
    /\ GridSizes \subseteq 1 .. MaxIn
    /\ \A best \in GridSizes : Refined(best, GridSizes) \subseteq 1 .. MaxIn
<1>1. MaxIn \in Nat \ {0}
  BY RoutingAssumption
<1>2. GridSizes \subseteq 1 .. MaxIn
  <2>1. ASSUME NEW bps \in {4, 12, 28, 56}
        PROVE  (MaxIn * bps) \div 100 \in Nat /\ (MaxIn * bps) \div 100 <= MaxIn
    BY <1>1
  <2>2. QED
    BY <1>1, <2>1 DEF GridSizes
<1>3. ASSUME NEW best \in GridSizes, NEW y \in Refined(best, GridSizes)
      PROVE  y \in 1 .. MaxIn
  <2> DEFINE below == {x \in GridSizes : x < best}
             above == {x \in GridSizes : x > best}
             ends == (IF below = {} THEN {} ELSE {Max(below)})
                         \cup {IF above = {} THEN MaxIn ELSE Min(above)}
  <2>0. \A x \in GridSizes : x \in 0 .. MaxIn /\ x \in Nat
    BY <1>1, <1>2
  <2>1. best \in 1 .. MaxIn
    BY <1>2
  <2>2. below # {} => Max(below) \in 1 .. MaxIn
    <3>1. ASSUME below # {} PROVE Max(below) \in below
      <4>1. below \in SUBSET (0 .. MaxIn) /\ MaxIn \in Nat
        BY <1>1, <2>0
      <4> HIDE DEF below
      <4>2. QED
        BY <3>1, <4>1, MaxOfBounded
    <3>2. QED
      BY <1>2, <3>1
  <2>3. above # {} => Min(above) \in 1 .. MaxIn
    <3>1. ASSUME above # {} PROVE Min(above) \in above
      <4>1. above \in SUBSET Nat
        BY <2>0
      <4> HIDE DEF above
      <4>2. QED
        BY <3>1, <4>1, MinExists
    <3>2. QED
      BY <1>2, <3>1
  <2> DEFINE half(x) == (x + best) \div 2
  <2>4. y \in {half(x) : x \in ends}
    BY <1>3 DEF Refined
  <2>5. ends \subseteq 1 .. MaxIn
    <3>1. MaxIn \in 1 .. MaxIn
      BY <1>1
    <3> HIDE DEF below, above
    <3>2. QED
      BY <2>2, <2>3, <3>1
  <2> HIDE DEF ends
  <2>6. PICK x \in 1 .. MaxIn : y = (x + best) \div 2
    BY <2>4, <2>5
  <2>7. QED
    BY <1>1, <2>1, <2>6
<1>4. QED
  BY <1>2, <1>3

(* The pool two quotes fit has whole reserves. *)
LEMMA FitIs ==
    ASSUME NEW a1, NEW o1, NEW a2, NEW o2, NEW fee, a1 \in Nat \ {0}, o1 \in Nat, a2 \in Nat,
           o2 \in Nat, fee \in 0 .. 999, NEW r \in ImpliedReserves(a1, o1, a2, o2, fee)
    PROVE  r[1] \in Nat \ {0} /\ r[2] \in Nat \ {0}
<1> DEFINE bend == 1000 * (o1 * a2 - o2 * a1)
           top == a1 * a2 * (1000 - fee) * (o2 - o1)
           rIn == top \div bend
           side == o1 * (rIn * 1000 + a1 * (1000 - fee))
           bottom == a1 * (1000 - fee)
           rOut == side \div bottom
<1>1. ~(bend <= 0) /\ r = <<rIn, rOut>> /\ r[1] > 0 /\ r[2] > 0
  BY DEF ImpliedReserves
<1>2. bend \in Int /\ top \in Int
  <2>1. o1 * a2 \in Int /\ o2 * a1 \in Int /\ a1 * a2 \in Int /\ 1000 - fee \in Int /\ o2 - o1 \in Int
    OBVIOUS
  <2>2. a1 * a2 * (1000 - fee) \in Int
    BY <2>1
  <2>3. QED
    BY <2>1, <2>2
<1>3. bottom \in Nat \ {0}
  <2>1. 1000 - fee \in Nat \ {0}
    OBVIOUS
  <2>2. QED
    BY <2>1
<1> HIDE DEF bend, top, bottom
<1>4. rIn \in Int
  BY <1>1, <1>2
<1>5. side \in Int
  <2>1. 1000 - fee \in Int /\ a1 * (1000 - fee) \in Int
    OBVIOUS
  <2> HIDE DEF rIn
  <2>2. rIn * 1000 \in Int
    BY <1>4
  <2>3. rIn * 1000 + a1 * (1000 - fee) \in Int
    BY <2>1, <2>2
  <2>4. QED
    BY <2>3
<1> HIDE DEF rIn, side
<1>6. rOut \in Int
  BY <1>3, <1>5
<1> HIDE DEF rOut
<1>7. QED
  BY <1>1, <1>4, <1>6

(* A size is worth trying when it gains and the front leg buys something. *)
LEMMA SizedIs ==
    ASSUME reserves \in PoolStates, NEW p \in RoutePools, NEW v, Trades(p, v.from), v.amount \in Nat,
           NEW x \in 1 .. MaxIn, NEW size \in V3Sized(p, v, x)
    PROVE  /\ size.amountIn = x /\ size.gross \in Nat \ {0}
           /\ AmountOut(reserves, p, v.from, x) # 0
<1> DEFINE one == AmountOut(reserves, p, v.from, x)
           both == AmountOut(reserves, p, v.from, x + v.amount)
           fits == {r \in ImpliedReserves(x, one, x + v.amount, both, FeeOf[p]) : r[2] > both}
           back(r) == V2AmountOut(one, r[2] - both, r[1] + x + v.amount, FeeOf[p])
           gain(r) == Gain(back(r), x)
<1>1. x \in Nat \ {0} /\ x + v.amount \in Nat
  BY RoutingAssumption
<1>2. one \in Nat /\ both \in Nat
  <2>1. /\ one \in 0 .. reserves[p][3 - Side(p, v.from)]
        /\ both \in 0 .. reserves[p][3 - Side(p, v.from)]
    BY <1>1, AmountBounded
  <2>2. QED
    BY <2>1
<1>3. V3Sized(p, v, x) = IF 0 \in {one, both, both - one} \/ both - one < v.minOut THEN {}
                         ELSE {[amountIn |-> x, gross |-> gain(r)] : r \in {s \in fits : gain(s) > 0}}
  BY DEF V3Sized
<1>4. FeeOf[p] \in 0 .. 999
  BY RoutingAssumption
<1>5. ASSUME NEW r \in fits PROVE gain(r) \in Nat
  <2>1. r[1] \in Nat \ {0} /\ r[2] \in Nat \ {0}
    <3>1. r \in ImpliedReserves(x, one, x + v.amount, both, FeeOf[p])
      OBVIOUS
    <3> HIDE DEF one, both
    <3>2. QED
      BY <1>1, <1>2, <1>4, <3>1, FitIs
  <2>2. r[2] > both
    OBVIOUS
  <2> DEFINE inside == r[2] - both
             out == r[1] + x + v.amount
  <2>3. inside \in Nat /\ out \in Nat
    <3> HIDE DEF one, both
    <3>1. QED
      BY <1>1, <1>2, <2>1, <2>2
  <2>4. back(r) \in 0 .. out
    <3> HIDE DEF one, both
    <3>1. V2AmountOut(one, inside, out, FeeOf[p]) \in 0 .. out
      <4> HIDE DEF inside, out
      <4>1. QED
        BY <1>2, <1>4, <2>3, V2Bounded
    <3>2. QED
      BY <3>1
  <2> HIDE DEF inside, out, back
  <2>5. back(r) \in Nat
    BY <2>3, <2>4
  <2>6. QED
    BY <1>1, <2>5, GainIs
<1> HIDE DEF one, both, fits, gain, back
<1>6. one # 0
  BY <1>3
<1>7. PICK r \in fits : gain(r) > 0 /\ size = [amountIn |-> x, gross |-> gain(r)]
  BY <1>3
<1>8. QED
  BY <1>5, <1>6, <1>7 DEF one
(* A V3 sandwich is one around a V3 pool of the two tokens, of a size that was *)
(* quoted.                                                                 *)
IsSandwichV3(plan, v, p, x, size) ==
    /\ p \in RoutePools /\ KindOf[p] = "v3"
    /\ v.from # v.to /\ {v.from, v.to} = Range(PairOf[p])
    /\ v.amount \in Nat /\ v.minOut \in Nat
    /\ x \in 1 .. MaxIn /\ size \in V3Sized(p, v, x)
    /\ plan = Around("sandwich_v3", p, v, size)

LEMMA SandwichV3Is ==
    ASSUME reserves \in PoolStates, NEW v \in Victims, NEW failed, NEW plan \in SandwichV3(v, failed)
    PROVE  \E p, x, size : IsSandwichV3(plan, v, p, x, size)
<1> DEFINE sized(p, xs) == UNION {V3Sized(p, v, x) : x \in xs \ failed}
           coarse(p) == BestSize(sized(p, GridSizes))
           better(p) == UNION {{t \in sized(p, Refined(s.amountIn, GridSizes)) : t.gross > s.gross}
                                  : s \in coarse(p)}
           best(p) == IF better(p) = {} THEN coarse(p) ELSE BestSize(better(p))
           chosen(p) == {t \in best(p) : t.gross > GasCost(33)}
           found == UNION {{<<p, s>> : s \in chosen(p)} : p \in PoolFor("v3", v)}
<1>1. PICK p, size : p \in PoolFor("v3", v) /\ size \in chosen(p)
                     /\ plan = Around("sandwich_v3", p, v, size)
  <2>1. SandwichV3(v, failed) = {Around("sandwich_v3", f[1], v, f[2]) : f \in found}
    BY DEF SandwichV3
  <2> HIDE DEF chosen, found
  <2>2. PICK f \in found : plan = Around("sandwich_v3", f[1], v, f[2])
    BY <2>1
  <2>3. PICK p \in PoolFor("v3", v) : \E s \in chosen(p) : f = <<p, s>>
    BY DEF found
  <2>4. QED
    BY <2>2, <2>3
<1>2. v.from # v.to /\ v.amount \in Nat /\ v.minOut \in Nat
  BY RoutingAssumption DEF Victims
<1>3. p \in RoutePools /\ KindOf[p] = "v3" /\ {v.from, v.to} = Range(PairOf[p])
  BY <1>1 DEF PoolFor, Kinds
<1>4. Trades(p, v.from)
  BY <1>2, <1>3, OtherSide
<1> HIDE DEF found
<1>5. ASSUME NEW xs, xs \subseteq 1 .. MaxIn, NEW t \in sized(p, xs)
      PROVE  \E x \in xs : t \in V3Sized(p, v, x)
  BY <1>5
<1>6. ASSUME NEW t \in sized(p, GridSizes) PROVE t.amountIn \in GridSizes
  <2>1. GridSizes \subseteq 1 .. MaxIn
    BY SizesInReach
  <2>2. PICK x \in GridSizes : t \in V3Sized(p, v, x)
    BY <1>5, <1>6, <2>1
  <2>3. QED
    BY <1>2, <1>3, <1>4, <2>1, <2>2, SizedIs
<1> HIDE DEF sized
<1>7. ASSUME NEW t \in coarse(p) PROVE t \in sized(p, GridSizes)
  BY <1>7 DEF BestSize
<1> HIDE DEF coarse
<1>8. ASSUME NEW t \in better(p)
      PROVE  \E s \in coarse(p) : t \in sized(p, Refined(s.amountIn, GridSizes))
  BY <1>8
<1> HIDE DEF better
<1>9. size \in coarse(p) \/ size \in better(p)
  BY <1>1 DEF BestSize
<1>10. PICK x \in 1 .. MaxIn : size \in V3Sized(p, v, x)
  <2>1. GridSizes \subseteq 1 .. MaxIn
    BY SizesInReach
  <2>2. CASE size \in coarse(p)
    BY <1>5, <1>7, <2>1, <2>2
  <2>3. CASE size \in better(p)
    <3>1. PICK s \in coarse(p) : size \in sized(p, Refined(s.amountIn, GridSizes))
      BY <1>8, <2>3
    <3>2. Refined(s.amountIn, GridSizes) \subseteq 1 .. MaxIn
      BY <1>6, <1>7, SizesInReach
    <3>3. QED
      BY <1>5, <3>1, <3>2
  <2>4. QED
    BY <1>9, <2>2, <2>3
<1>11. IsSandwichV3(plan, v, p, x, size)
  BY <1>1, <1>2, <1>3, <1>10 DEF IsSandwichV3
<1>12. QED
  BY <1>11

LEMMA SandwichV3Typed ==
    ASSUME reserves \in PoolStates, NEW v \in Victims, NEW failed, NEW plan \in SandwichV3(v, failed)
    PROVE  Typed(plan)
<1>1. PICK p, x, size : IsSandwichV3(plan, v, p, x, size)
  BY SandwichV3Is
<1>2. /\ p \in RoutePools /\ v.from # v.to /\ {v.from, v.to} = Range(PairOf[p])
      /\ v.amount \in Nat /\ x \in 1 .. MaxIn /\ size \in V3Sized(p, v, x)
      /\ plan = Around("sandwich_v3", p, v, size)
  BY <1>1 DEF IsSandwichV3
<1>3. Trades(p, v.from)
  BY <1>2, OtherSide
<1>4. /\ size.amountIn \in 1 .. MaxIn /\ size.gross \in Nat \ {0}
      /\ AmountOut(reserves, p, v.from, size.amountIn) # 0
  BY <1>2, <1>3, SizedIs
<1>5. Typed(Around("sandwich_v3", p, v, size))
  BY <1>2, <1>4, AroundTyped
<1>6. QED
  BY <1>2, <1>5

LEMMA SandwichTyped ==
    ASSUME reserves \in PoolStates, NEW v \in Victims, NEW plan \in Sandwich(v)
    PROVE  Typed(plan)
<1>1. PICK p, size : IsSandwich(plan, v, p, size)
  BY SandwichIs
<1>2. AmountOut(reserves, p, v.from, size.amountIn) # 0
  BY <1>1 DEF IsSandwich, SandwichGain
<1>3. QED
  BY <1>1, <1>2, AroundTyped DEF IsSandwich

LEMMA BackRunPlanTyped ==
    ASSUME reserves \in PoolStates, NEW v \in Victims, NEW plan \in BackRun(v)
    PROVE  Typed(plan)
<1>1. PICK p, q, r, priced, found : IsBackRun(plan, v, p, q, r, priced, found)
  BY BackRunsAre
<1> DEFINE state == WithSwap(reserves, r, v.from, v.amount)
<1>2. v.amount \in Nat
  BY RoutingAssumption DEF Victims
<1>3. state \in PoolStates
  BY <1>1, <1>2, WithSwapKeeps DEF IsBackRun
<1>4. p \in RoutePools /\ q \in RoutePools /\ plan \in BackRuns(found, state, r, v)
      /\ found \subseteq PayingCycles(state, {}, Edges({p, q}), 2, priced)
  BY <1>1 DEF IsBackRun
<1> HIDE DEF state
<1>5. QED
  BY <1>3, <1>4, BackRunTyped

(* Every plan that is answered with spends something within the bound, of      *)
(* pools that are there, and says that it gains.                            *)
THEOREM RouteTypesHold == RouteSpec => []RouteTypeOK
<1> DEFINE I == RouteTypeOK
<1>1. RouteInit => I
  BY DEF RouteInit, RouteTypeOK
<1>2. I /\ [RouteNext]_routeVars => I'
  <2> SUFFICES ASSUME RouteTypeOK, [RouteNext]_routeVars PROVE RouteTypeOK'
    OBVIOUS
  <2>1. reserves \in PoolStates
    BY ReservesAreDepths DEF RouteTypeOK
  <2>2. ASSUME settings' = settings, reserves' \in RouteStates, busy' \in BOOLEAN,
               \A plan \in plans' : Typed(plan)
        PROVE  RouteTypeOK'
    BY <2>2 DEF RouteTypeOK, Typed
  <2>3. CASE OnBlock
    <3>1. settings' = settings /\ reserves' = reserves /\ busy' = TRUE
      BY <2>3 DEF OnBlock
    <3>2. PICK selected \in Selections(Kinds({"v2"})), failed \in Failing(Asked) :
              plans' = V2Plans(selected) \cup MixedPlans(Asked \ failed)
      BY <2>3 DEF OnBlock
    <3>3. ASSUME NEW plan \in V2Plans(selected) PROVE Typed(plan)
      <4>1. selected \in SUBSET Kinds({"v2"})
        BY <3>2 DEF Selections, kSubset
      <4>2. PICK n, c : IsV2Plan(plan, c, n)
        BY <4>1, V2PlansAre
      <4>3. QED
        BY <2>1, <4>2, CycleTyped DEF IsV2Plan
    <3>4. ASSUME NEW plan \in MixedPlans(Asked \ failed) PROVE Typed(plan)
      <4>1. PICK n, c : IsMixedPlan(plan, Asked \ failed, c, n)
        BY MixedPlansAre
      <4>2. n \in Nat /\ IsCyclePlan(plan, "mixed cycle", Asked \ failed, c, n)
        BY <4>1 DEF IsMixedPlan
      <4>3. QED
        BY <2>1, <4>2, CycleTyped
    <3>5. \A plan \in plans' : Typed(plan)
      BY <3>2, <3>3, <3>4
    <3>6. reserves' \in RouteStates
      BY <3>1 DEF RouteTypeOK
    <3>7. QED
      BY <2>2, <3>1, <3>5, <3>6
  <2>4. CASE \E v \in Victims : OnPending(v)
    <3>1. PICK v \in Victims : OnPending(v)
      BY <2>4
    <3>2. settings' = settings /\ reserves' = reserves /\ busy' = TRUE
      BY <3>1 DEF OnPending
    <3>3. \A plan \in plans' : \/ plan \in BackRun(v) \/ plan \in Sandwich(v)
                               \/ \E failed : plan \in SandwichV3(v, failed)
      BY <3>1 DEF OnPending
    <3>4. \A plan \in plans' : Typed(plan)
      BY <2>1, <3>3, BackRunPlanTyped, SandwichTyped, SandwichV3Typed
    <3>5. reserves' \in RouteStates
      BY <3>2 DEF RouteTypeOK
    <3>6. QED
      BY <2>2, <3>2, <3>4, <3>5
  <2>5. CASE Answer
    BY <2>5 DEF RouteTypeOK, Answer
  <2>6. CASE UNCHANGED routeVars
    BY <2>6 DEF RouteTypeOK, routeVars
  <2>7. QED
    BY <2>3, <2>4, <2>5, <2>6 DEF RouteNext
<1>3. QED
  BY <1>1, <1>2, PTL DEF RouteSpec
-----------------------------------------------------------------------------
(***************************************************************************)
(* Sandwiches on V3: what the quotes of one sum say of the swaps of its parts *)
(***************************************************************************)

LEMMA FloorIs ==
    ASSUME NEW a \in Nat, NEW d \in Nat \ {0}
    PROVE  /\ a \div d \in Nat
           /\ (a \div d) * d <= a /\ a <= (a \div d) * d + d
<1> DEFINE q == a \div d
<1>1. q \in Int /\ d * q <= a /\ a < d * q + d
  OBVIOUS
<1>2. q \in Nat
  BY DivReaches
<1> HIDE DEF q
<1>3. q * d = d * q /\ d * q \in Nat
  BY <1>2
<1>4. q * d <= a /\ a <= q * d + d
  BY <1>1, <1>3
<1>5. QED
  BY <1>2, <1>4 DEF q

(* A swap with the fee taken off already *)
LEMMA ProductIs ==
    ASSUME NEW z \in Nat, NEW rIn \in Nat \ {0}, NEW rOut \in Nat
    PROVE  AeroAmountOut(z, rIn, rOut, 0) = (z * rOut) \div (rIn + z)
<1>1. z * 0 = 0 /\ 0 \div 1000 = 0 /\ z - 0 = z
  OBVIOUS
<1>2. AeroAmountOut(z, rIn, rOut, 0) =
          IF 0 \in {z, rIn, rOut} THEN 0 ELSE (z * rOut) \div (rIn + z)
  BY <1>1 DEF AeroAmountOut
<1>3. CASE z = 0 \/ rOut = 0
  <2>1. z * rOut = 0
    BY <1>3
  <2>2. rIn + z \in Nat \ {0}
    OBVIOUS
  <2>3. ASSUME NEW d \in Nat \ {0} PROVE 0 \div d = 0
    OBVIOUS
  <2>4. QED
    BY <1>2, <1>3, <2>1, <2>2, <2>3
<1>4. CASE ~(z = 0 \/ rOut = 0)
  BY <1>2, <1>4
<1>5. QED
  BY <1>3, <1>4

(* The fee of a sum is at most a unit less than the fees of its parts. *)
LEMMA FeeOfSum ==
    ASSUME NEW p \in RoutePools, NEW x \in Nat, NEW y \in Nat
    PROVE  /\ AfterFee(x + y, FeeOf[p]) <= AfterFee(x, FeeOf[p]) + AfterFee(y, FeeOf[p]) + 1
           /\ AfterFee(y, FeeOf[p]) \in Nat
<1> DEFINE b == 1000 - FeeOf[p]
           a == x * b
           c == y * b
<1>1. b \in Nat
  <2>1. FeeOf[p] \in 0 .. 999
    BY RoutingAssumption
  <2>2. QED
    BY <2>1
<1> HIDE DEF b
<1>2. a \in Nat /\ c \in Nat /\ (x + y) * b = a + c
  BY <1>1
<1>3. AfterFee(x + y, FeeOf[p]) = ((x + y) * b) \div 1000
      /\ AfterFee(x, FeeOf[p]) = a \div 1000
      /\ AfterFee(y, FeeOf[p]) = c \div 1000
  BY DEF AfterFee, a, b, c
<1> HIDE DEF a, c
<1>4. (a + c) \div 1000 <= a \div 1000 + c \div 1000 + 1 /\ c \div 1000 \in Nat
  BY <1>2
<1>5. QED
  BY <1>2, <1>3, <1>4

(* After c came in for `one`, a further d gives what b in one go gives on top, *)
(* but for a unit and the worth of one unit of what comes in.                *)
LEMMA PartsGive ==
    ASSUME NEW R \in Nat \ {0}, NEW S \in Nat, NEW b \in Nat, NEW c \in Nat, NEW d \in Nat,
           b <= c + d + 1,
           NEW one, one = (c * S) \div (R + c), NEW both, both = (b * S) \div (R + b)
    PROVE  /\ one \in 0 .. S /\ both \in 0 .. S
           /\ both - one <= (d * (S - one)) \div (R + c + d) + 2 + S \div R
<1> DEFINE e == c + d
           q == S \div R
<1>1. e \in Nat /\ R + b \in Nat \ {0} /\ R + c \in Nat \ {0} /\ R + e \in Nat \ {0}
      /\ R + c + d = R + e
  OBVIOUS
<1>2. b * S \in Nat /\ c * S \in Nat /\ d * S \in Nat
  OBVIOUS
<1>3. one \in Nat /\ one * (R + c) <= c * S /\ c * S <= one * (R + c) + (R + c)
  BY <1>1, <1>2, FloorIs
<1>4. both \in Nat /\ both * (R + b) <= b * S
  BY <1>1, <1>2, FloorIs
<1>5. q \in Nat /\ S <= q * R + R
  BY FloorIs
<1> HIDE DEF e, q
<1>6. both <= S /\ one <= S
  <2>1. ASSUME NEW u \in Nat, NEW z \in Nat, u * (R + z) <= z * S PROVE u <= S
    <3>1. SUFFICES ASSUME u >= S + 1 PROVE FALSE
      BY <2>1
    <3>2. u - S \in Nat /\ (u - S) * (R + z) \in Nat
      BY <3>1
    <3>3. u * (R + z) = S * (R + z) + (u - S) * (R + z)
      BY <3>1
    <3>4. S * (R + z) = S * R + z * S /\ S * R \in Nat
      OBVIOUS
    <3>5. (u - S) * (R + z) >= 1
      <4>1. u - S \in Nat \ {0} /\ R + z \in Nat \ {0}
        BY <3>1
      <4>2. QED
        BY <4>1
    <3>6. QED
      BY <2>1, <3>2, <3>3, <3>4, <3>5
  <2>2. QED
    BY <1>3, <1>4, <2>1
<1>7. both * (R + e) <= e * S + S - both
  <2> DEFINE rest == S - both
  <2>1. rest \in Nat
    BY <1>4, <1>6
  <2>2. both * (R + b) = both * R + both * b /\ b * S = b * both + b * rest
        /\ both * R \in Nat /\ both * b \in Nat /\ b * rest \in Nat /\ b * both = both * b
    BY <1>4, <2>1
  <2>3. both * R <= b * rest
    BY <1>4, <2>2
  <2>4. b * rest <= (e + 1) * rest
    <3>1. e + 1 - b \in Nat
      BY <1>1 DEF e
    <3>2. (e + 1 - b) * rest \in Nat /\ (e + 1) * rest = b * rest + (e + 1 - b) * rest
      BY <1>1, <2>1, <3>1
    <3>3. QED
      BY <2>2, <3>2
  <2>5. (e + 1) * rest = e * S - e * both + rest /\ both * (R + e) = both * R + e * both
        /\ e * S \in Nat /\ e * both \in Nat /\ (e + 1) * rest \in Nat
    BY <1>1, <1>4, <2>1
  <2>6. QED
    BY <1>4, <2>1, <2>2, <2>3, <2>4, <2>5
<1> DEFINE w == both - q - 1
<1>8. w * (R + e) <= e * S
  <2>1. w * (R + e) = both * (R + e) - (q + 1) * (R + e)
    BY <1>1, <1>4, <1>5
  <2>2. (q + 1) * (R + e) = (q * R + R) + (q * e + e) /\ q * e \in Nat /\ q * R \in Nat
    BY <1>1, <1>5
  <2>3. e * S \in Nat /\ both * (R + e) \in Nat /\ (q + 1) * (R + e) \in Nat
    BY <1>1, <1>4, <1>5
  <2>4. QED
    BY <1>1, <1>4, <1>5, <1>7, <2>1, <2>2, <2>3
<1>9. w - one - 1 <= (d * (S - one)) \div (R + e)
  <2> DEFINE v == w - one - 1
             a == d * (S - one)
  <2>1. v \in Int /\ S - one \in Nat
    BY <1>3, <1>4, <1>5, <1>6
  <2>2. a \in Nat
    BY <2>1
  <2>3. v * (R + e) <= a
    <3>1. v * (R + e) = w * (R + e) - (one + 1) * (R + e)
      BY <1>1, <1>3, <1>4, <1>5
    <3>2. (one + 1) * (R + e) = (one * (R + c) + (R + c)) + (one * d + d)
      <4>1. R + e = (R + c) + d
        BY DEF e
      <4>2. (one + 1) * ((R + c) + d) = (one + 1) * (R + c) + (one + 1) * d
        BY <1>1, <1>3
      <4>3. (one + 1) * (R + c) = one * (R + c) + (R + c) /\ (one + 1) * d = one * d + d
        BY <1>1, <1>3
      <4>4. QED
        BY <4>1, <4>2, <4>3
    <3>3. e * S = c * S + d * S
      BY DEF e
    <3>4. a = d * S - one * d
      BY <1>3
    <3>5. /\ v * (R + e) \in Int /\ w * (R + e) \in Int /\ (one + 1) * (R + e) \in Int
          /\ one * d \in Int /\ one * (R + c) \in Int
      BY <1>1, <1>3, <1>4, <1>5, <2>1
    <3> HIDE DEF v, w, a
    <3>6. QED
      BY <1>1, <1>2, <1>3, <1>8, <2>2, <3>1, <3>2, <3>3, <3>4, <3>5
  <2> HIDE DEF v, a
  <2>4. a \div (R + e) \in Nat
    BY <1>1, <2>2, FloorIs
  <2>5. CASE v \in Nat
    BY <1>1, <2>2, <2>3, <2>5, DivReaches DEF v, a
  <2>6. CASE v \notin Nat
    BY <2>1, <2>4, <2>6 DEF v, a
  <2>7. QED
    BY <2>5, <2>6
<1>10. (d * (S - one)) \div (R + e) \in Int
  <2>1. d * (S - one) \in Nat
    <3>1. S - one \in Nat
      BY <1>3, <1>6
    <3>2. QED
      BY <3>1
  <2>2. QED
    BY <1>1, <2>1, FloorIs
<1> DEFINE gives == (d * (S - one)) \div (R + e)
<1> HIDE DEF gives
<1>11. both - one <= gives + 2 + q
  BY <1>3, <1>4, <1>5, <1>9, <1>10 DEF gives
<1>12. QED
  BY <1>1, <1>3, <1>4, <1>6, <1>11 DEF gives, q

(* What a V3 pool gives for an amount *)
LEMMA V3Is ==
    ASSUME NEW state \in PoolStates, NEW p \in RoutePools, KindOf[p] = "v3", NEW token,
           Trades(p, token), NEW x \in Nat, state[p][Side(p, token)] # 0
    PROVE  LET rIn == state[p][Side(p, token)]
               rOut == state[p][3 - Side(p, token)]
               z == AfterFee(x, FeeOf[p])
           IN  /\ rIn \in Nat \ {0} /\ rOut \in Nat /\ z \in Nat
               /\ AmountOut(state, p, token, x) = (z * rOut) \div (rIn + z)
<1> DEFINE rIn == state[p][Side(p, token)]
           rOut == state[p][3 - Side(p, token)]
           z == AfterFee(x, FeeOf[p])
<1>1. rIn \in Nat \ {0} /\ rOut \in Nat
  BY SideOfEither DEF PoolStates, Depths
<1>2. z \in Nat
  BY AfterFeeIs, RoutingAssumption
<1>3. AmountOut(state, p, token, x) = AeroAmountOut(z, rIn, rOut, 0)
  BY DEF AmountOut, V3AmountOut
<1> HIDE DEF rIn, rOut, z
<1>4. AeroAmountOut(z, rIn, rOut, 0) = (z * rOut) \div (rIn + z)
  BY <1>1, <1>2, ProductIs
<1>5. QED
  BY <1>1, <1>2, <1>3, <1>4 DEF rIn, rOut, z

(* Behind the front leg the victim gets what the two quotes differ by, but for *)
(* the room.                                                               *)
LEMMA VictimIsServed ==
    ASSUME reserves \in PoolStates, NEW p \in RoutePools, KindOf[p] = "v3", NEW v,
           v.from # v.to, {v.from, v.to} = Range(PairOf[p]), v.amount \in Nat, NEW x \in Nat,
           reserves[p][Side(p, v.from)] # 0
    PROVE  LET one == AmountOut(reserves, p, v.from, x)
               both == AmountOut(reserves, p, v.from, x + v.amount)
               given == AmountOut(AfterTrade(reserves, p, v.from, x, one), p, v.from, v.amount)
           IN  /\ one \in Nat /\ both \in Nat /\ given \in Nat /\ RoundingRoom(Swap(p, v)) \in Nat
               /\ both - one <= given + RoundingRoom(Swap(p, v))
<1> DEFINE i == Side(p, v.from)
           R == reserves[p][i]
           S == reserves[p][3 - i]
           b == AfterFee(x + v.amount, FeeOf[p])
           c == AfterFee(x, FeeOf[p])
           d == AfterFee(v.amount, FeeOf[p])
           one == AmountOut(reserves, p, v.from, x)
           both == AmountOut(reserves, p, v.from, x + v.amount)
           next == AfterTrade(reserves, p, v.from, x, one)
           given == AmountOut(next, p, v.from, v.amount)
<1>1. Trades(p, v.from)
  BY OtherSide
<1>2. x + v.amount \in Nat /\ FeeOf[p] \in 0 .. 999
  BY RoutingAssumption
<1>3. R \in Nat \ {0} /\ S \in Nat /\ b \in Nat /\ c \in Nat
      /\ one = (c * S) \div (R + c) /\ both = (b * S) \div (R + b)
  BY <1>1, <1>2, V3Is
<1>4. b <= c + d + 1 /\ d \in Nat
  <2> DEFINE y == v.amount
  <2>1. y \in Nat
    OBVIOUS
  <2> HIDE DEF y, i, R, S, b, c, d, one, both, next, given
  <2>2. AfterFee(x + y, FeeOf[p]) <= AfterFee(x, FeeOf[p]) + AfterFee(y, FeeOf[p]) + 1
        /\ AfterFee(y, FeeOf[p]) \in Nat
    BY <2>1, FeeOfSum
  <2>3. QED
    BY <2>2 DEF b, c, d, y
<1>5. one \in 0 .. S
  BY <1>1, AmountBounded
<1>6. /\ next \in PoolStates
      /\ next[p][i] = R + c /\ next[p][3 - i] = S - one
  <2>1. next \in PoolStates
    BY <1>1, <1>5, AfterTradeKeeps
  <2>2. next[p][i] = R + Kept(p, x) /\ next[p][3 - i] = S - one
    BY <1>1, <1>5, SidesAfter
  <2>3. QED
    BY <2>1, <2>2 DEF Kept
<1>7. given = (d * (S - one)) \div (R + c + d) /\ given \in Nat
  <2>1. next[p][i] # 0
    <3> HIDE DEF R, c, next, i
    <3>1. QED
      BY <1>3, <1>6
  <2>2. given = (d * next[p][3 - i]) \div (next[p][i] + d)
    <3> HIDE DEF one, next
    <3>1. QED
      BY <1>1, <1>6, <2>1, V3Is
  <2>3. given \in 0 .. next[p][3 - i]
    <3> HIDE DEF one, next
    <3>1. QED
      BY <1>1, <1>6, AmountBounded
  <2> HIDE DEF given, next, R, S, c, d, one, i
  <2>4. QED
    BY <1>6, <2>2, <2>3
<1>8. RoundingRoom(Swap(p, v)) = 2 + S \div R
  BY DEF RoundingRoom, Swap
<1> HIDE DEF R, S, b, c, d, one, both, given, next, i
<1>9. /\ one \in 0 .. S /\ both \in 0 .. S
      /\ both - one <= (d * (S - one)) \div (R + c + d) + 2 + S \div R
  BY <1>3, <1>4, PartsGive
<1>10. S \div R \in Nat
  BY <1>3, FloorIs
<1>11. /\ one \in Nat /\ both \in Nat /\ RoundingRoom(Swap(p, v)) \in Nat
       /\ both - one <= given + RoundingRoom(Swap(p, v))
  BY <1>3, <1>7, <1>8, <1>9, <1>10
<1>12. QED
  BY <1>7, <1>11 DEF one, both, given, next

(* A leg through a router that has what it spends goes through. *)
LEMMA RoutedLegGoes ==
    ASSUME NEW s \in Purses, s.ok, NEW leg, IsCall(leg), KindOf[leg.pool] = "v3",
           leg.amount <= s.held[leg.from]
    PROVE  LET best == AmountOut(s.pools, leg.pool, leg.from, leg.amount)
               to == PairOf[leg.pool][3 - Side(leg.pool, leg.from)]
           IN  /\ Call(s, leg).ok
               /\ Call(s, leg).pools = AfterTrade(s.pools, leg.pool, leg.from, leg.amount, best)
               /\ to # leg.from => Call(s, leg).held[to] = s.held[to] + best
<1> DEFINE p == leg.pool
           best == AmountOut(s.pools, p, leg.from, leg.amount)
           to == PairOf[p][3 - Side(p, leg.from)]
           pools == AfterTrade(s.pools, p, leg.from, leg.amount, best)
           purse == [s.held EXCEPT ![leg.from] = @ - leg.amount, ![to] = @ + best]
<1>1. p \in RoutePools /\ Trades(p, leg.from) /\ leg.amount \in Nat
  BY DEF IsCall
<1>2. s.pools \in PoolStates /\ s.held \in [Tokens -> Int] /\ DOMAIN s = {"ok", "pools", "held"}
  BY DEF Purses
<1>3. best \in Nat
  <2>1. best \in 0 .. s.pools[p][3 - Side(p, leg.from)]
    BY <1>1, <1>2, AmountBounded
  <2>2. QED
    BY <2>1
<1>4. to \in Tokens /\ leg.from \in Tokens
  BY <1>1, SideOfEither
<1>5. ~(s.held[leg.from] < leg.amount) /\ ~(best > best)
  <2> HIDE DEF best
  <2>1. QED
    BY <1>1, <1>2, <1>3, <1>4
<1>6. Call(s, leg) = [s EXCEPT !.pools = pools, !.held = purse]
  BY <1>5 DEF Call
<1>7. to # leg.from => purse[to] = s.held[to] + best
  <2> HIDE DEF to, p, best
  <2>1. QED
    BY <1>2, <1>4
<1> HIDE DEF pools, purse
<1>8. QED
  BY <1>2, <1>6, <1>7 DEF pools

(* A V3 sandwich whose victim leaves room goes through. *)
LEMMA SandwichV3Runs ==
    ASSUME reserves \in PoolStates, NEW v, v.from = Anchor, NEW p, NEW x, NEW size, NEW plan,
           IsSandwichV3(plan, v, p, x, size), reserves[p][Side(p, v.from)] # 0
    PROVE  Executed(WithRoom(plan)).ok
<1> DEFINE one == AmountOut(reserves, p, v.from, x)
           both == AmountOut(reserves, p, v.from, x + v.amount)
           room == RoundingRoom(Swap(p, v))
           front == Leg(reserves, p, v.from, x)
           back == Leg(reserves, p, v.to, one)
           asks == Gain(v.minOut, room)
           swap == [pool |-> p, from |-> v.from, amount |-> v.amount, minOut |-> asks]
           plan0 == WithRoom(plan)
<1>1. /\ p \in RoutePools /\ KindOf[p] = "v3"
      /\ v.from # v.to /\ {v.from, v.to} = Range(PairOf[p])
      /\ v.amount \in Nat /\ v.minOut \in Nat
      /\ x \in 1 .. MaxIn /\ size \in V3Sized(p, v, x)
      /\ plan = Around("sandwich_v3", p, v, size)
  BY DEF IsSandwichV3
<1>2. x \in Nat
  BY <1>1, RoutingAssumption
<1>3. /\ Trades(p, v.from) /\ Trades(p, v.to)
      /\ PairOf[p][3 - Side(p, v.from)] = v.to /\ PairOf[p][3 - Side(p, v.to)] = v.from
  BY <1>1, OtherSide
<1>4. size.amountIn = x
  BY <1>1, <1>3, SizedIs
<1>5. ~(both - one < v.minOut)
  BY <1>1 DEF V3Sized
<1> DEFINE after == AfterTrade(reserves, p, v.from, x, one)
           given == AmountOut(after, p, v.from, v.amount)
<1>6. /\ one \in Nat /\ both \in Nat /\ given \in Nat /\ room \in Nat
      /\ both - one <= given + room
  BY <1>1, <1>2, VictimIsServed
<1>7. asks \in Nat /\ asks <= given
  <2> HIDE DEF one, both, given, room
  <2>1. asks = IF v.minOut > room THEN v.minOut - room ELSE 0
    BY DEF Gain
  <2>2. QED
    BY <1>1, <1>5, <1>6, <2>1
<1>8. /\ front = [pool |-> p, from |-> v.from, amount |-> x, out |-> 0]
      /\ back = [pool |-> p, from |-> v.to, amount |-> one, out |-> 0]
  BY <1>1 DEF Leg
<1>9. /\ plan0.front = <<front>> /\ plan0.victim = <<swap>> /\ plan0.back = <<back>>
      /\ plan0.amountIn = x
  BY <1>1, <1>4 DEF Around, Plan, WithRoom, Swap
<1>10. IsCall(front) /\ IsCall(back) /\ IsSwap(swap)
  BY <1>1, <1>2, <1>3, <1>6, <1>7, <1>8 DEF IsCall, IsSwap
<1> HIDE DEF front, back, swap, plan0, asks
<1>11. PICK s \in Purses : /\ Funded(s, reserves, x)
                           /\ Executed(plan0) = Call(VictimCall(Call(s, front), swap), back)
  BY <1>2, <1>9, <1>10, ThreeCalls
<1> DEFINE fronted == Call(s, front)
           second == VictimCall(fronted, swap)
<1>12. fronted \in Purses /\ fronted.ok /\ fronted.pools = after /\ fronted.held[v.to] = one
  <2>1. s.ok /\ s.pools = reserves /\ s.held[v.from] = x /\ s.held[v.to] = 0
    <3>1. v.from \in Tokens /\ v.to \in Tokens
      BY <1>1, <1>3, SideOfEither
    <3>2. QED
      BY <1>1, <1>11, <3>1 DEF Funded
  <2>2. front.pool = p /\ front.from = v.from /\ front.amount = x
    BY <1>8
  <2>3. front.amount <= s.held[front.from]
    BY <1>2, <2>1, <2>2
  <2>4. /\ fronted.ok /\ fronted.pools = after /\ fronted.held[v.to] = 0 + one
    BY <1>1, <1>3, <1>10, <2>1, <2>2, <2>3, RoutedLegGoes
  <2>5. fronted \in Purses
    BY <1>10, LegKeeps
  <2> HIDE DEF fronted, one, after
  <2>6. QED
    BY <1>6, <2>4, <2>5
<1> HIDE DEF fronted
<1>13. second \in Purses /\ second.ok /\ second.held[v.to] = one
  <2>1. second \in Purses
    BY <1>10, <1>12, VictimKeeps
  <2>2. /\ swap.pool = p /\ swap.from = v.from /\ swap.amount = v.amount /\ swap.minOut = asks
    BY DEF swap
  <2>3. second = [fronted EXCEPT !.pools = AfterTrade(fronted.pools, p, v.from, v.amount, given)]
    <3>1. given = AmountOut(fronted.pools, swap.pool, swap.from, swap.amount)
      BY <1>12, <2>2
    <3> HIDE DEF given
    <3>2. ~(given < swap.minOut)
      BY <1>6, <1>7, <2>2
    <3>3. QED
      BY <1>12, <2>2, <3>1, <3>2 DEF VictimCall, Purses
  <2>4. DOMAIN fronted = {"ok", "pools", "held"}
    BY <1>12 DEF Purses
  <2> HIDE DEF second, one, given
  <2>5. second.ok = fronted.ok /\ second.held = fronted.held
    BY <2>3, <2>4
  <2>6. QED
    BY <1>12, <2>1, <2>5
<1> HIDE DEF second
<1>14. Call(second, back).ok
  <2>1. back.pool = p /\ back.from = v.to /\ back.amount = one
    BY <1>8
  <2>2. back.amount <= second.held[back.from]
    <3> HIDE DEF one
    <3>1. QED
      BY <1>6, <1>13, <2>1
  <2>3. QED
    BY <1>1, <1>10, <1>13, <2>1, <2>2, RoutedLegGoes
<1>15. QED
  BY <1>11, <1>14 DEF fronted, second, plan0

SandwichIInv == reserves \in RouteStates /\ SandwichesGoThrough

IsAround(plan) == plan.kind \in {"sandwich", "sandwich_v3"}

(* Whatever the pools, the fees and the victim: a V2 sandwich whose back leg    *)
(* names an output goes through, its victim with its minimum between our two  *)
(* legs, and the account ends with exactly that output, which was priced on   *)
(* the pool as the block left it (build_leg of sandwich.rs).  A V3 sandwich   *)
(* goes through when its victim's minimum leaves room for the rounding of     *)
(* swaps that were quoted as one (evaluate_size of sandwich_v3.rs).           *)
THEOREM SandwichesPay == RouteSpec => []SandwichesGoThrough
<1>1. RouteInit => SandwichIInv
  BY DEF RouteInit, SandwichIInv, SandwichesGoThrough
<1>2. SandwichIInv /\ [RouteNext]_routeVars => SandwichIInv'
  <2> SUFFICES ASSUME SandwichIInv, [RouteNext]_routeVars PROVE SandwichIInv'
    OBVIOUS
  <2>1. reserves \in PoolStates
    BY ReservesAreDepths DEF SandwichIInv
  <2>2. ASSUME reserves' = reserves PROVE \A plan : Executed(plan)' = Executed(plan)
    BY <2>2 DEF Executed, Call, VictimCall
  <2>8. ASSUME reserves' = reserves PROVE \A plan : WithRoom(plan)' = WithRoom(plan)
    BY <2>8 DEF WithRoom, RoundingRoom
  <2>3. CASE OnBlock
    <3>1. reserves' = reserves
      BY <2>3 DEF OnBlock
    <3>2. PICK selected \in Selections(Kinds({"v2"})), failed \in Failing(Asked) :
              plans' = V2Plans(selected) \cup MixedPlans(Asked \ failed)
      BY <2>3 DEF OnBlock
    <3>3. \A plan \in V2Plans(selected) : plan.kind = "cycle"
      <4> TAKE plan \in V2Plans(selected)
      <4>1. selected \in SUBSET Kinds({"v2"})
        BY <3>2 DEF Selections, kSubset
      <4>2. PICK n, c : IsV2Plan(plan, c, n)
        BY <4>1, V2PlansAre
      <4>3. QED
        BY <2>1, <4>2, RouteOfPlan DEF IsV2Plan
    <3>4. \A plan \in MixedPlans(Asked \ failed) : plan.kind = "mixed cycle"
      <4> TAKE plan \in MixedPlans(Asked \ failed)
      <4>1. PICK n, c : IsMixedPlan(plan, Asked \ failed, c, n)
        BY MixedPlansAre
      <4>2. n \in Nat /\ IsCyclePlan(plan, "mixed cycle", Asked \ failed, c, n)
        BY <4>1 DEF IsMixedPlan
      <4>3. QED
        BY <2>1, <4>2, RouteOfPlan
    <3>5. \A plan \in plans' : ~IsAround(plan)
      BY <3>2, <3>3, <3>4 DEF IsAround
    <3>6. QED
      BY <3>1, <3>5 DEF SandwichIInv, SandwichesGoThrough, IsAround
  <2>4. CASE \E v \in Victims : OnPending(v)
    <3>1. PICK v \in Victims : OnPending(v)
      BY <2>4
    <3>2. reserves' = reserves
      BY <3>1 DEF OnPending
    <3>3. \A plan \in plans' : \/ plan \in BackRun(v)
                               \/ v.from = Anchor /\ plan \in Sandwich(v)
                               \/ v.from = Anchor /\ \E failed : plan \in SandwichV3(v, failed)
      BY <3>1 DEF OnPending
    <3>4. ASSUME NEW plan \in plans' PROVE plan \in BackRun(v) => ~IsAround(plan)
      BY <2>1, BackRunIsPaid DEF IsAround
    <3>5. ASSUME NEW plan \in plans', plan.kind = "sandwich", plan.back[1].out # 0
          PROVE  Executed(plan).ok /\ Executed(plan).held[Anchor] = plan.back[1].out
      <4>1. v.from = Anchor /\ plan \in Sandwich(v)
        BY <3>3, <3>4, <3>5, SandwichKinds DEF IsAround
      <4>2. PICK p, size : IsSandwich(plan, v, p, size)
        BY <2>1, <4>1, SandwichIs
      <4>3. size.amountIn \in Nat
        BY <4>2, RoutingAssumption DEF IsSandwich
      <4>4. QED
        BY <2>1, <3>5, <4>1, <4>2, <4>3, SandwichRuns DEF IsSandwich
    <3>6. ASSUME NEW plan \in plans', plan.kind = "sandwich_v3"
          PROVE  Executed(WithRoom(plan)).ok
      <4>1. v.from = Anchor
        BY <3>3, <3>4, <3>6 DEF IsAround
      <4>2. PICK failed : plan \in SandwichV3(v, failed)
        BY <3>3, <3>4, <3>6, SandwichKinds DEF IsAround
      <4>3. PICK p, x, size : IsSandwichV3(plan, v, p, x, size)
        BY <2>1, <4>2, SandwichV3Is
      <4>4. p \in RoutePools /\ Trades(p, v.from)
        BY <4>3, OtherSide DEF IsSandwichV3
      <4>5. reserves[p][Side(p, v.from)] # 0
        <5>1. reserves[p] \in [1 .. 2 -> Nat \ {0}] /\ Side(p, v.from) \in 1 .. 2
          BY <4>4, RoutingAssumption, SideOfEither DEF SandwichIInv
        <5>2. QED
          BY <5>1
      <4>6. QED
        BY <2>1, <4>1, <4>3, <4>5, SandwichV3Runs
    <3>7. \A plan : Executed(plan)' = Executed(plan) /\ WithRoom(plan)' = WithRoom(plan)
      BY <2>2, <2>8, <3>2
    <3>8. \A plan : Executed(WithRoom(plan))' = Executed(WithRoom(plan))
      BY <2>2, <2>8, <3>2
    <3>9. QED
      BY <3>2, <3>5, <3>6, <3>7, <3>8 DEF SandwichIInv, SandwichesGoThrough
  <2>5. CASE Answer
    BY <2>5 DEF SandwichIInv, Answer, SandwichesGoThrough
  <2>6. CASE UNCHANGED routeVars
    <3>1. plans' = plans /\ reserves' = reserves
      BY <2>6 DEF routeVars
    <3>2. \A plan : Executed(plan)' = Executed(plan)
      BY <2>2, <3>1
    <3>3. \A plan : Executed(WithRoom(plan))' = Executed(WithRoom(plan))
      BY <2>2, <2>8, <3>1
    <3>4. QED
      BY <3>1, <3>2, <3>3 DEF SandwichIInv, SandwichesGoThrough
  <2>7. QED
    BY <2>3, <2>4, <2>5, <2>6 DEF RouteNext
<1>3. SandwichIInv => SandwichesGoThrough
  BY DEF SandwichIInv
<1>4. QED
  BY <1>1, <1>2, <1>3, PTL DEF RouteSpec
=============================================================================
