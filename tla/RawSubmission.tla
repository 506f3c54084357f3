---------------------------- MODULE RawSubmission ----------------------------
(***************************************************************************)
(* The lane on a sequencer chain: the legs of a payload are sent one by one  *)
(* with eth_sendRawTransaction, an answer may be lost while the leg arrives   *)
(* all the same, and a cancellation replaces what the stored payload names.   *)
(* A leg stays in the sequencer's pool until it is mined or replaced: a raw   *)
(* transaction has no target block.  Fees are left out.                      *)
(***************************************************************************)
EXTENDS Integers, FiniteSets, FiniteSetsExt

CONSTANTS
    RawBundles,
    RawLegs,            \* transactions of a payload
    NoBundle,
    RawLastBlock,       \* blocks of the model
    RawFaults           \* subset of {"rpc", "crash"}

ASSUME RawAssumption ==
    /\ IsFiniteSet(RawBundles) /\ NoBundle \notin RawBundles
    /\ {RawLegs, RawLastBlock} \subseteq Nat \ {0}
    /\ RawFaults \subseteq {"rpc", "crash"}

VARIABLES
    rawHead,
    mined,          \* the account's transaction count
    pool,           \* our transactions in the sequencer's pool
    flying,         \* legs that may still arrive after their call has ended
    first, target,  \* first nonce and target block of a payload
    reservation,    \* nonce_reservations.status
    recorded,       \* payloads with a row in bundles
    rawNonce, shutUntil,    \* Inventory: nonce, blocked_until_block
    sending,        \* the payload in the lane, its next leg, all accepted
    (* history *)
    sentLegs        \* legs that have left the process

rawChain == <<rawHead, mined>>
rawRows == <<first, target, reservation, recorded>>
inventoryVars == <<rawNonce, shutUntil>>
rawVars == <<rawChain, pool, flying, rawRows, inventoryVars, sending, sentLegs>>

LegsOf(b) == {[bundle |-> b, index |-> i] : i \in 0 .. RawLegs - 1}

AllLegs == UNION {LegsOf(b) : b \in RawBundles}

NonceOf(leg) == first[leg.bundle] + leg.index

(* A replacement is known by the nonce it takes. *)
Replacement(leg) == [bundle |-> NoBundle, index |-> NonceOf(leg)]

PoolNonce(tx) == IF tx.bundle = NoBundle THEN tx.index ELSE NonceOf(tx)

Idle == [bundle |-> NoBundle, leg |-> 0, ok |-> TRUE]

RawNonces == 0 .. Cardinality(RawBundles) * RawLegs

RawTypeOK ==
    /\ rawHead \in 1 .. RawLastBlock
    /\ mined \in RawNonces /\ rawNonce \in RawNonces
    /\ pool \subseteq AllLegs \cup [bundle : {NoBundle}, index : RawNonces]
    /\ flying \subseteq AllLegs /\ sentLegs \subseteq AllLegs
    /\ first \in [RawBundles -> RawNonces]
    /\ target \in [RawBundles -> 0 .. RawLastBlock + 1]
    /\ reservation \in [RawBundles -> {"none", "reserved", "accepted",
                            "recovery_blocked", "cancelled", "expired"}]
    /\ recorded \subseteq RawBundles
    /\ shutUntil \in 0 .. RawLastBlock + 1
    /\ sending \in [bundle : RawBundles \cup {NoBundle},
                    leg : 0 .. RawLegs, ok : BOOLEAN]

-----------------------------------------------------------------------------
(* The sequencer *)

(* One transaction per nonce; no leg of ours outbids another one. *)
Arrives(leg, txs) ==
    IF NonceOf(leg) < mined \/ \E tx \in txs : PoolNonce(tx) = NonceOf(leg)
    THEN txs ELSE txs \cup {leg}

LateArrival(leg) ==
    /\ leg \in flying
    /\ flying' = flying \ {leg}
    /\ pool' = Arrives(leg, pool)
    /\ UNCHANGED <<rawChain, rawRows, inventoryVars, sending, sentLegs>>

Mine ==
    \E tx \in pool :
        /\ PoolNonce(tx) = mined
        /\ mined' = mined + 1
        /\ pool' = pool \ {tx}
        /\ UNCHANGED <<rawHead, flying, rawRows, inventoryVars, sending,
                       sentLegs>>

(* Delivery is late by less than a block. *)
RawBlock ==
    /\ rawHead < RawLastBlock
    /\ rawHead' = rawHead + 1
    /\ \A leg \in flying : target[leg.bundle] > rawHead
    /\ UNCHANGED <<mined, pool, flying, rawRows, inventoryVars, sending,
                   sentLegs>>

(* eth_getTransactionCount "pending": the executable transactions count. *)
PendingCount ==
    Max({n \in RawNonces : n >= mined
            /\ \A k \in mined .. n - 1 : \E tx \in pool : PoolNonce(tx) = k})

(* Inventory::refresh keeps the old nonce when the call fails. *)
RefreshedNonces(nonce) ==
    {IF PendingCount > nonce THEN PendingCount ELSE nonce}
    \cup (IF "rpc" \in RawFaults THEN {nonce} ELSE {})

-----------------------------------------------------------------------------
(* submit_raw *)

(* From the permit of the lane to the durable reservation. *)
ReserveRaw(b) ==
    /\ sending = Idle /\ reservation[b] = "none"
    /\ rawHead > shutUntil
    /\ \E nonce \in RefreshedNonces(rawNonce) :
          /\ nonce + RawLegs \in RawNonces    \* bound of the model
          /\ first' = [first EXCEPT ![b] = nonce]
          /\ rawNonce' = nonce + RawLegs
    /\ target' = [target EXCEPT ![b] = rawHead + 1]
    /\ reservation' = [reservation EXCEPT ![b] = "reserved"]
    /\ sending' = [bundle |-> b, leg |-> 0, ok |-> TRUE]
    /\ UNCHANGED <<rawChain, pool, flying, recorded, shutUntil, sentLegs>>

(* A leg that fails does not keep the next one from being sent. *)
SendLeg ==
    LET leg == [bundle |-> sending.bundle, index |-> sending.leg] IN
    /\ sending # Idle /\ sending.leg < RawLegs
    /\ sentLegs' = sentLegs \cup {leg}
    /\ \/ /\ pool' = Arrives(leg, pool) /\ UNCHANGED flying
          /\ sending' = [sending EXCEPT !.leg = @ + 1,
                                        !.ok = @ /\ leg \in pool']
       \/ /\ "rpc" \in RawFaults      \* refused, or not heard of in time
          /\ flying' \in {flying, flying \cup {leg}} /\ UNCHANGED pool
          /\ sending' = [sending EXCEPT !.leg = @ + 1, !.ok = FALSE]
    /\ UNCHANGED <<rawChain, rawRows, inventoryVars>>

-----------------------------------------------------------------------------
(* cancel_raw *)

(* bundle_raw_txs looks for the member "txs" of the stored payload.  What    *)
(* record_bundle stores is the array of eth_sendBundle's parameters, which   *)
(* has no members; a payload that failed has no row at all yet.             *)
PayloadIsArray == TRUE

StoredLegs(b) == IF b \in recorded /\ ~PayloadIsArray THEN LegsOf(b) ELSE {}

(* Legs that are not mined are replaced, if the call gets through. *)
Replaceable(b) == {leg \in StoredLegs(b) : NonceOf(leg) >= mined}

(* What a cancellation may come to: the legs it has replaced, and whether it *)
(* is acknowledged.                                                         *)
Cancellations(b) ==
    {[legs |-> legs, ok |-> StoredLegs(b) # {} /\ legs = StoredLegs(b)] :
        legs \in IF "rpc" \in RawFaults THEN SUBSET Replaceable(b)
                 ELSE {Replaceable(b)}}

ReplaceIn(txs, legs) ==
    {tx \in txs : \A leg \in legs : PoolNonce(tx) # NonceOf(leg)}
        \cup {Replacement(leg) : leg \in legs}

(* Not acknowledged: the lane is shut until the target has passed. *)
Cancel(b, c) ==
    /\ pool' = ReplaceIn(pool, c.legs)
    /\ reservation' = [reservation EXCEPT
            ![b] = IF c.ok THEN "cancelled" ELSE "recovery_blocked"]
    /\ rawNonce' = IF c.ok /\ rawNonce = first[b] + RawLegs THEN first[b]
                   ELSE rawNonce
    /\ shutUntil' = IF c.ok \/ target[b] <= shutUntil THEN shutUntil
                    ELSE target[b]

SubmitEnds ==
    /\ sending # Idle /\ sending.leg = RawLegs
    /\ IF sending.ok
       THEN /\ reservation' = [reservation EXCEPT ![sending.bundle] = "accepted"]
            /\ UNCHANGED <<pool, inventoryVars>>
       ELSE \E c \in Cancellations(sending.bundle) : Cancel(sending.bundle, c)
    /\ recorded' = recorded \cup {sending.bundle}
    /\ sending' = Idle
    /\ UNCHANGED <<rawChain, flying, first, target, sentLegs>>

ActiveReservation(b) ==
    reservation[b] \in {"reserved", "accepted", "recovery_blocked"}

(* cancel_active_submissions: a pause, a trip or a new policy. *)
CancelActive(b) ==
    /\ sending = Idle /\ ActiveReservation(b)
    /\ \E c \in Cancellations(b) : Cancel(b, c)
    /\ UNCHANGED <<rawChain, flying, first, target, recorded, sending, sentLegs>>

-----------------------------------------------------------------------------
(* Engine::new after a crash *)

MutantPassed(b) == target[b] <= rawHead

Passed(b) == target[b] < rawHead

(* The pending count, or 0 if it cannot be read; every reservation that is   *)
(* not past its target is cancelled, in vain, and shuts the lane.           *)
RawRestart ==
    LET active == {b \in RawBundles : ActiveReservation(b)}
        shut   == {b \in active : ~Passed(b)} IN
    /\ "crash" \in RawFaults
    /\ rawNonce' \in RefreshedNonces(0)
    /\ reservation' = [b \in RawBundles |->
            IF b \notin active THEN reservation[b]
            ELSE IF b \in shut THEN "recovery_blocked" ELSE "expired"]
    /\ shutUntil' = Max({0} \cup {target[b] : b \in shut})
    /\ sending' = Idle
    /\ UNCHANGED <<rawChain, pool, flying, first, target, recorded, sentLegs>>

-----------------------------------------------------------------------------
RawInit ==
    /\ rawHead = 1 /\ mined = 0 /\ pool = {} /\ flying = {}
    /\ first = [b \in RawBundles |-> 0] /\ target = [b \in RawBundles |-> 0]
    /\ reservation = [b \in RawBundles |-> "none"] /\ recorded = {}
    /\ rawNonce = 0 /\ shutUntil = 0 /\ sending = Idle
    /\ sentLegs = {}

RawNext ==
    \/ \E leg \in AllLegs : LateArrival(leg)
    \/ Mine \/ RawBlock
    \/ \E b \in RawBundles : ReserveRaw(b) \/ CancelActive(b)
    \/ SendLeg \/ SubmitEnds \/ RawRestart

RawSpec == RawInit /\ [][RawNext]_rawVars

-----------------------------------------------------------------------------
(* Properties *)

(* Two payloads are sent with one nonce only when the target of one of them  *)
(* has passed: no lost answer, cancellation, crash or unreadable count makes *)
(* the lane sign a nonce again while it is contended (submission.rs 14-21,   *)
(* engine.rs 1005-1025, 2384-2390).                                         *)
RawNonceIsUsedOnce ==
    \A x, y \in sentLegs :
        (x.bundle # y.bundle /\ NonceOf(x) = NonceOf(y))
            => target[x.bundle] < rawHead \/ target[y.bundle] < rawHead
=============================================================================
