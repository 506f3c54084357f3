--------------------------- MODULE SubmissionLane ---------------------------
(***************************************************************************)
(* The serialized live-submission lane of one ArrowHead process, delivering *)
(* through private relays (SUBMISSION_MODE=bundle).                         *)
(*                                                                         *)
(* Many tasks simulate candidates concurrently.  A profitable one waits for *)
(* the one-permit semaphore `submission_gate`, reserves consecutive nonces  *)
(* from the in-memory inventory, makes the reservation durable, and hands   *)
(* the signed payload to every relay.  Operator requests (pause, risk       *)
(* patch) and the drawdown kill switch take the same permit to cancel what  *)
(* is outstanding.  The process may crash at any point; a restart recovers  *)
(* from the durable reservations.  Relays may lose answers, keep payloads   *)
(* they never acknowledged, and drop payloads they did acknowledge.         *)
(*                                                                         *)
(* A payload is private: the chain's pending nonce does not count it, so    *)
(* nothing but the process's own bookkeeping keeps two live payloads from   *)
(* being signed with the same nonce.                                       *)
(***************************************************************************)
EXTENDS Naturals, FiniteSets

CONSTANTS
    Bundles,        \* candidate payloads, by replacementUuid (each id is used once)
    Relays,         \* the configured relays
    Legs,           \* how many of our own transactions a payload may hold
    TargetOffset,   \* target block of a candidate, relative to the head it saw
    FinalityDepth,  \* cfg.finality_depth
    SmokeMax,       \* cfg.live_smoke_max
    MaxBlock,       \* bound: the chain stops growing at this height
    Faults,         \* which local calls may fail
    Nobody, Cancel  \* lane holders that are not candidates

FaultKinds == {"rpc", "db_read", "db_write"}

ASSUME ConstantsAssumption ==
    /\ Legs \subseteq Nat \ {0}
    /\ TargetOffset \in Nat \ {0}
    /\ FinalityDepth \in Nat
    /\ SmokeMax \in Nat
    /\ MaxBlock \in Nat
    /\ Faults \subseteq FaultKinds
    /\ Nobody \notin Bundles
    /\ Cancel \notin Bundles
    /\ Nobody # Cancel

VARIABLES
    (* durable: SQLite, and the bytes of the signed payloads *)
    status,         \* nonce_reservations.status of a payload, "none" without a row
    row,            \* payloads with a bundles row marked submitted
    smokeUsed,      \* risk_state.live_smoke_used
    start, legs, target, \* nonce range and target block a payload is signed for
    (* memory of the process *)
    phase,          \* "down", "boot" (startup recovery) or "run"
    nonce,          \* Inventory.nonce
    blockedUntil,   \* Inventory.blocked_until_block
    head,           \* ctx.head().number
    runtimeLive,    \* LiveMode.runtime (the process is armed at boot)
    tripped,        \* RiskEngine.tripped
    cancelPending,  \* a task spawned by a tripped switch waits for the lane
    passed,         \* cached qualification verdict of the strategy
    pc,             \* where the task of each candidate is
    simNonce,       \* the nonce a candidate was first simulated with
    lane,           \* holder of submission_gate
    work,           \* reservations a cancellation pass has still to cancel
    (* environment *)
    height,         \* the chain's height
    chainNonce,     \* eth_getTransactionCount(searcher, "pending")
    landed,         \* payloads included in the chain
    held,           \* the relays that hold an uncancelled copy of a payload
    (* history *)
    unpassed        \* payloads broadcast without a qualification PASS

payloadVars == <<start, legs, target>>
dbVars      == <<status, row, smokeUsed>>
riskVars    == <<runtimeLive, tripped, cancelPending, passed>>
invVars     == <<nonce, blockedUntil>>
chainVars   == <<height, chainNonce, landed>>
vars == <<status, row, smokeUsed, start, legs, target, phase, nonce,
          blockedUntil, head, runtimeLive, tripped, cancelPending, passed, pc,
          simNonce, lane, work, height, chainNonce, landed, held, unpassed>>

Statuses == {"none", "reserved", "accepted", "recovery_blocked",
             "cancelled", "expired", "finalized"}

(* Steps of submit_live_candidate, in program order. *)
InLane == {"reserve", "resim", "recheck", "persist", "pin", "smoke",
           "sending", "cancelling"}
Steps  == {"idle", "simulating", "queued", "record", "done"} \cup InLane

(* From the durable reservation to the end of the broadcast. *)
Reserved == {"pin", "smoke", "sending", "cancelling"}

TypeOK ==
    /\ status \in [Bundles -> Statuses]
    /\ row \subseteq Bundles
    /\ smokeUsed \in Nat
    /\ start \in [Bundles -> Nat]
    /\ legs \in [Bundles -> Nat]
    /\ target \in [Bundles -> Nat]
    /\ phase \in {"down", "boot", "run"}
    /\ nonce \in Nat
    /\ blockedUntil \in Nat
    /\ head \in Nat
    /\ runtimeLive \in BOOLEAN
    /\ tripped \in BOOLEAN
    /\ cancelPending \in BOOLEAN
    /\ passed \in BOOLEAN
    /\ pc \in [Bundles -> Steps]
    /\ simNonce \in [Bundles -> Nat]
    /\ lane \in Bundles \cup {Nobody, Cancel}
    /\ work \subseteq Bundles
    /\ height \in Nat
    /\ chainNonce \in Nat
    /\ landed \subseteq Bundles
    /\ held \in [Bundles -> SUBSET Relays]
    /\ unpassed \subseteq Bundles

-----------------------------------------------------------------------------
(* Inventory *)

Larger(m, n) == IF m < n THEN n ELSE m

(* advance_chain_nonce: a refresh may raise the nonce, never lower it. *)
AdvanceChainNonce(n) == Larger(nonce, n)

(* release_nonces: compare-exchange, so only the newest range is given back. *)
ReleaseNonces(b) ==
    IF nonce = start[b] + legs[b] THEN start[b] ELSE nonce

MutantNoCooldown(t) == blockedUntil

BlockBroadcastUntil(t) == Larger(blockedUntil, t)

BroadcastAvailable == head > blockedUntil

MutantNoRefresh == {nonce}

(* The nonce after Inventory::refresh, which ignores a failing RPC call. *)
Refreshed == {AdvanceChainNonce(chainNonce)}
             \cup (IF "rpc" \in Faults THEN {nonce} ELSE {})

-----------------------------------------------------------------------------
(* Store *)

MutantActiveForgetsBlocked(b) == status[b] \in {"reserved", "accepted"}

Active(b) == status[b] \in {"reserved", "accepted", "recovery_blocked"}

ActiveReservations == {b \in Bundles : Active(b)}

(* active_nonce_reservations().unwrap_or_default(): no row on an error. *)
ActiveRead == {ActiveReservations}
              \cup (IF "db_read" \in Faults THEN {{}} ELSE {})

(* set_nonce_reservation_status, whose error every caller discards. *)
SetStatus(b, s) ==
    \/ status' = [status EXCEPT ![b] = s]
    \/ "db_write" \in Faults /\ UNCHANGED status

MayBroadcast == passed \/ smokeUsed < SmokeMax

-----------------------------------------------------------------------------
(* SubmissionGateway::cancel asks every relay.  One that acknowledges has   *)
(* dropped the payload (or never had it, or has already seen it land).      *)

MutantAnyAcknowledged(acked) == acked # {}

AllAcknowledged(acked) == Relays # {} /\ acked = Relays

Uncancelled(b, acked) == [held EXCEPT ![b] = @ \ acked]

-----------------------------------------------------------------------------
(* A candidate: Engine::consider and Engine::submit_live_candidate *)

(* risk.check, the nonce it is simulated with, and the target block. *)
Consider(b) ==
    /\ phase = "run" /\ pc[b] = "idle"
    /\ ~tripped
    /\ head + TargetOffset <= MaxBlock
    /\ \E n \in Legs : legs' = [legs EXCEPT ![b] = n]
    /\ target' = [target EXCEPT ![b] = head + TargetOffset]
    /\ simNonce' = [simNonce EXCEPT ![b] = nonce]
    /\ pc' = [pc EXCEPT ![b] = "simulating"]
    /\ UNCHANGED <<dbVars, start, phase, invVars, head, riskVars, lane, work,
                   chainVars, held, unpassed>>

MutantTripSpawnsNothing(trip) == cancelPending

(* A tripped switch spawns a task that cancels what is outstanding. *)
SpawnCancel(trip) == cancelPending \/ trip

(* A simulation that fails ends the candidate.  One that returns without a  *)
(* submittable result is folded by risk.observe, which may breach the       *)
(* drawdown limit; a tripped switch (by this or an earlier loss) spawns a   *)
(* cancellation.                                                            *)
SimulatedLoss(b) ==
    /\ pc[b] = "simulating"
    /\ \/ UNCHANGED <<tripped, cancelPending>>
       \/ /\ \E breach \in BOOLEAN : tripped' = (tripped \/ breach)
          /\ cancelPending' = SpawnCancel(tripped')
    /\ pc' = [pc EXCEPT ![b] = "done"]
    /\ UNCHANGED <<dbVars, payloadVars, phase, invVars, head, runtimeLive,
                   passed, simNonce, lane, work, chainVars, held, unpassed>>

(* A submittable result enters the lane's queue in live mode with a PASS or *)
(* a smoke slot left, unless its preconfirmed pin has expired; otherwise    *)
(* the bundle is only recorded.                                             *)
SimulatedProfit(b) ==
    /\ pc[b] = "simulating"
    /\ cancelPending' = SpawnCancel(tripped)
    /\ \/ /\ runtimeLive /\ MayBroadcast
          /\ pc' = [pc EXCEPT ![b] = "queued"]
       \/ pc' = [pc EXCEPT ![b] = "done"]
    /\ UNCHANGED <<dbVars, payloadVars, phase, invVars, head, runtimeLive,
                   tripped, passed, simNonce, lane, work, chainVars, held,
                   unpassed>>

(* What is checked with the permit in hand, before any nonce is taken. *)
LaneOpen(b) ==
    /\ runtimeLive
    /\ MayBroadcast
    /\ BroadcastAvailable
    /\ target[b] > head

EnterLane(b) ==
    /\ pc[b] = "queued" /\ lane = Nobody
    /\ \/ /\ LaneOpen(b)
          /\ lane' = b
          /\ pc' = [pc EXCEPT ![b] = "reserve"]
       \/ /\ ~LaneOpen(b) \/ "db_read" \in Faults
          /\ lane' = lane
          /\ pc' = [pc EXCEPT ![b] = "done"]
    /\ UNCHANGED <<dbVars, payloadVars, phase, invVars, head, riskVars,
                   simNonce, work, chainVars, held, unpassed>>

(* The pending nonce is read again, then the range is taken; a nonce other  *)
(* than the simulated one has the exact payload simulated again.            *)
ReserveNonces(b) ==
    /\ pc[b] = "reserve"
    /\ \E n \in Refreshed :
          /\ start' = [start EXCEPT ![b] = n]
          /\ nonce' = n + legs[b]
          /\ pc' = [pc EXCEPT ![b] = IF n # simNonce[b] THEN "resim"
                                                        ELSE "recheck"]
    /\ simNonce' = [simNonce EXCEPT ![b] = 0]  \* not used again
    /\ UNCHANGED <<dbVars, legs, target, phase, blockedUntil, head, riskVars,
                   lane, work, chainVars, held, unpassed>>

MutantWithdrawKeepsPermit(b) ==
    /\ nonce' = ReleaseNonces(b)
    /\ lane' = lane
    /\ pc' = [pc EXCEPT ![b] = "done"]

(* A refusal after the reservation gives the range and the permit back. *)
Withdraw(b) ==
    /\ nonce' = ReleaseNonces(b)
    /\ lane' = Nobody
    /\ pc' = [pc EXCEPT ![b] = "done"]

ExactResim(b) ==
    /\ pc[b] = "resim"
    /\ \/ /\ pc' = [pc EXCEPT ![b] = "recheck"]
          /\ UNCHANGED <<nonce, lane>>
       \/ Withdraw(b)
    /\ UNCHANGED <<dbVars, payloadVars, phase, blockedUntil, head, riskVars,
                   simNonce, work, chainVars, held, unpassed>>

MutantRecheckIgnoresTrip == runtimeLive /\ MayBroadcast

StillAllowed == runtimeLive /\ MayBroadcast /\ ~tripped

(* Mode, eligibility and risk once more.  Position, base-fee, in-flight and *)
(* funding limits may refuse at any time.                                   *)
Recheck(b) ==
    /\ pc[b] = "recheck"
    /\ \/ /\ StillAllowed
          /\ pc' = [pc EXCEPT ![b] = "persist"]
          /\ UNCHANGED <<nonce, lane>>
       \/ Withdraw(b)
    /\ UNCHANGED <<dbVars, payloadVars, phase, blockedUntil, head, riskVars,
                   simNonce, work, chainVars, held, unpassed>>

PersistReservation(b) ==
    /\ pc[b] = "persist"
    /\ \/ /\ status' = [status EXCEPT ![b] = "reserved"]
          /\ pc' = [pc EXCEPT ![b] = "pin"]
          /\ UNCHANGED <<nonce, lane>>
       \/ /\ "db_write" \in Faults
          /\ Withdraw(b)
          /\ UNCHANGED status
    /\ UNCHANGED <<row, smokeUsed, payloadVars, phase, blockedUntil, head,
                   riskVars, simNonce, work, chainVars, held, unpassed>>

(* A refusal after the durable reservation also retires it. *)
WithdrawReserved(b) == Withdraw(b) /\ SetStatus(b, "cancelled")

FinalPinCheck(b) ==
    /\ pc[b] = "pin"
    /\ \/ /\ pc' = [pc EXCEPT ![b] = "smoke"]
          /\ UNCHANGED <<nonce, lane, status>>
       \/ WithdrawReserved(b)
    /\ UNCHANGED <<row, smokeUsed, payloadVars, phase, blockedUntil, head,
                   riskVars, simNonce, work, chainVars, held, unpassed>>

MutantSlotOffByOne == SmokeMax # 0 /\ smokeUsed <= SmokeMax

(* try_consume_smoke_budget on the relay path: one slot, checked and taken  *)
(* in one store operation.                                                  *)
SlotLeft == SmokeMax # 0 /\ smokeUsed < SmokeMax

SmokeGate(b) ==
    /\ pc[b] = "smoke"
    /\ \/ /\ passed \/ SlotLeft
          /\ smokeUsed' = IF passed THEN smokeUsed ELSE smokeUsed + 1
          /\ unpassed' = IF passed THEN unpassed ELSE unpassed \cup {b}
          /\ pc' = [pc EXCEPT ![b] = "sending"]
          /\ UNCHANGED <<nonce, lane, status>>
       \/ /\ ~passed
          /\ ~SlotLeft \/ Faults \cap {"db_read", "db_write"} # {}
          /\ WithdrawReserved(b)
          /\ UNCHANGED <<smokeUsed, unpassed>>
    /\ UNCHANGED <<row, payloadVars, phase, blockedUntil, head, riskVars,
                   simNonce, work, chainVars, held>>

(* eth_sendBundle reaches a relay; its answer may still be lost. *)
RelayReceives(b, r) ==
    /\ pc[b] = "sending"
    /\ target[b] > height /\ b \notin landed
    /\ r \notin held[b]
    /\ held' = [held EXCEPT ![b] = @ \cup {r}]
    /\ UNCHANGED <<dbVars, payloadVars, phase, invVars, head, riskVars, pc,
                   simNonce, lane, work, chainVars, unpassed>>

(* Every attempt at every relay has returned.  One acknowledgement (of a    *)
(* relay that may have dropped the payload since) accepts the bundle and    *)
(* ends the lane; none starts a cancellation.                               *)
SubmitReturns(b) ==
    /\ pc[b] = "sending"
    /\ \/ /\ Relays # {}
          /\ SetStatus(b, "accepted")
          /\ lane' = Nobody
          /\ pc' = [pc EXCEPT ![b] = "record"]
       \/ /\ pc' = [pc EXCEPT ![b] = "cancelling"]
          /\ UNCHANGED <<status, lane>>
    /\ UNCHANGED <<row, smokeUsed, payloadVars, phase, invVars, head, riskVars,
                   simNonce, work, chainVars, held, unpassed>>

CancelRejected(b) ==
    /\ pc[b] = "cancelling"
    /\ \E acked \in SUBSET Relays :
          /\ held' = Uncancelled(b, acked)
          /\ \/ /\ AllAcknowledged(acked)
                /\ SetStatus(b, "cancelled")
                /\ nonce' = ReleaseNonces(b)
                /\ UNCHANGED blockedUntil
             \/ /\ ~AllAcknowledged(acked)
                /\ SetStatus(b, "recovery_blocked")
                /\ blockedUntil' = BlockBroadcastUntil(target[b])
                /\ UNCHANGED nonce
    /\ lane' = Nobody
    /\ pc' = [pc EXCEPT ![b] = "done"]
    /\ UNCHANGED <<row, smokeUsed, payloadVars, phase, head, riskVars,
                   simNonce, work, chainVars, unpassed>>

(* Back in consider, outside the lane: the settlement row of an accepted    *)
(* bundle; when it cannot be written, broadcasting stops until the target.  *)
RecordBundle(b) ==
    /\ pc[b] = "record"
    /\ pc' = [pc EXCEPT ![b] = "done"]
    /\ \/ /\ row' = row \cup {b}
          /\ UNCHANGED blockedUntil
       \/ /\ "db_write" \in Faults
          /\ blockedUntil' = BlockBroadcastUntil(target[b])
          /\ UNCHANGED row
    /\ UNCHANGED <<status, smokeUsed, payloadVars, phase, nonce, head,
                   riskVars, simNonce, lane, work, chainVars, held, unpassed>>

-----------------------------------------------------------------------------
(* Cancellation passes: operator requests and the kill switch *)

(* The permit is taken and the active reservations are read. *)
StartCancelPass ==
    /\ phase = "run" /\ lane = Nobody
    /\ lane' = Cancel
    /\ work' \in ActiveRead

PauseMode ==
    /\ StartCancelPass
    /\ runtimeLive' = FALSE
    /\ UNCHANGED <<dbVars, payloadVars, phase, invVars, head, tripped,
                   cancelPending, passed, pc, simNonce, chainVars, held,
                   unpassed>>

ResumeMode ==
    /\ phase = "run" /\ lane = Nobody
    /\ ~runtimeLive
    /\ runtimeLive' = TRUE
    /\ UNCHANGED <<dbVars, payloadVars, phase, invVars, head, tripped,
                   cancelPending, passed, pc, simNonce, lane, work, chainVars,
                   held, unpassed>>

ApplyRuntimeRisk ==
    /\ StartCancelPass
    /\ UNCHANGED <<dbVars, payloadVars, phase, invVars, head, riskVars, pc,
                   simNonce, chainVars, held, unpassed>>

TripCancels ==
    /\ cancelPending
    /\ StartCancelPass
    /\ cancelPending' = FALSE
    /\ UNCHANGED <<dbVars, payloadVars, phase, invVars, head, runtimeLive,
                   tripped, passed, pc, simNonce, chainVars, held, unpassed>>

(* The reservations are visited from the highest start nonce down. *)
NextToCancel(b) == b \in work /\ \A c \in work : start[c] <= start[b]

CancelNext(b) ==
    /\ phase = "run" /\ lane = Cancel
    /\ NextToCancel(b)
    /\ work' = work \ {b}
    /\ \E acked \in SUBSET Relays :
          /\ held' = Uncancelled(b, acked)
          /\ \/ /\ AllAcknowledged(acked)
                /\ SetStatus(b, "cancelled")
                /\ nonce' = ReleaseNonces(b)
                /\ UNCHANGED blockedUntil
             \/ /\ ~AllAcknowledged(acked)
                /\ SetStatus(b, "recovery_blocked")
                /\ blockedUntil' = BlockBroadcastUntil(target[b])
                /\ UNCHANGED nonce
    /\ UNCHANGED <<row, smokeUsed, payloadVars, phase, head, riskVars, pc,
                   simNonce, lane, chainVars, unpassed>>

CancelDone ==
    /\ phase = "run" /\ lane = Cancel /\ work = {}
    /\ lane' = Nobody
    /\ UNCHANGED <<dbVars, payloadVars, phase, invVars, head, riskVars, pc,
                   simNonce, work, chainVars, held, unpassed>>

(* POST /api/risk/reset *)
ResetRisk ==
    /\ phase = "run" /\ tripped
    /\ tripped' = FALSE
    /\ UNCHANGED <<dbVars, payloadVars, phase, invVars, head, runtimeLive,
                   cancelPending, passed, pc, simNonce, lane, work, chainVars,
                   held, unpassed>>

-----------------------------------------------------------------------------
(* Heads, evidence and settlement *)

(* on_block refreshes the inventory (unless its block cooldown skips it),   *)
(* then publishes the head.                                                 *)
OnBlock ==
    /\ phase = "run" /\ head < height
    /\ head' \in (head + 1) .. height
    /\ nonce' \in Refreshed \cup {nonce}
    /\ UNCHANGED <<dbVars, payloadVars, phase, blockedUntil, riskVars, pc,
                   simNonce, lane, work, chainVars, held, unpassed>>

(* The evaluation is external to this module: the verdict may move. *)
RefreshQualification ==
    /\ phase = "run"
    /\ passed' = ~passed
    /\ UNCHANGED <<dbVars, payloadVars, phase, invVars, head, runtimeLive,
                   tripped, cancelPending, pc, simNonce, lane, work, chainVars,
                   held, unpassed>>

(* reconcile_own_submissions retires a submitted bundle at finality; a      *)
(* receipt RPC failure reads as "not included".  It holds no lane, so it    *)
(* may run between any two steps of a cancellation pass, and it is started  *)
(* with the new head before that head is published.                         *)
Reconcile(b) ==
    /\ phase = "run" /\ b \in row
    /\ height >= target[b] + FinalityDepth
    /\ \/ /\ b \in landed
          /\ status' = [status EXCEPT ![b] = "finalized"]
       \/ /\ b \notin landed \/ "rpc" \in Faults
          /\ status' = [status EXCEPT ![b] = "expired"]
    /\ row' = row \ {b}
    /\ UNCHANGED <<smokeUsed, payloadVars, phase, invVars, head, riskVars, pc,
                   simNonce, lane, work, chainVars, held, unpassed>>

-----------------------------------------------------------------------------
(* Crash and restart *)

Crash ==
    /\ phase # "down"
    /\ phase' = "down"
    /\ lane' = Nobody /\ work' = {}
    /\ pc' = [b \in Bundles |-> IF pc[b] = "idle" THEN "idle" ELSE "done"]
    /\ nonce' = 0 /\ blockedUntil' = 0
    /\ head' = 0 /\ simNonce' = [b \in Bundles |-> 0]
    /\ runtimeLive' = TRUE /\ tripped' = FALSE
    /\ cancelPending' = FALSE /\ passed' = FALSE
    /\ UNCHANGED <<dbVars, payloadVars, chainVars, held, unpassed>>

(* Engine::new up to the recovery loop.  What the durable kill-switch row   *)
(* and the evidence say is not this module's business: either value.        *)
Boot ==
    /\ phase = "down"
    /\ phase' = "boot"
    /\ head' = height
    /\ nonce' \in Refreshed
    /\ work' \in ActiveRead
    /\ tripped' \in BOOLEAN
    /\ passed' \in BOOLEAN
    /\ UNCHANGED <<dbVars, payloadVars, blockedUntil, runtimeLive,
                   cancelPending, pc, simNonce, lane, chainVars, held,
                   unpassed>>

Expired(b) == target[b] < head

BootRecover(b) ==
    /\ phase = "boot" /\ b \in work
    /\ \A c \in work : start[b] <= start[c]
    /\ work' = work \ {b}
    /\ \/ /\ Expired(b)
          /\ SetStatus(b, "expired")
          /\ UNCHANGED <<held, blockedUntil>>
       \/ /\ ~Expired(b)
          /\ \E acked \in SUBSET Relays :
                /\ held' = Uncancelled(b, acked)
                /\ \/ /\ AllAcknowledged(acked)
                      /\ SetStatus(b, "cancelled")
                      /\ UNCHANGED blockedUntil
                   \/ /\ ~AllAcknowledged(acked)
                      /\ SetStatus(b, "recovery_blocked")
                      /\ blockedUntil' = BlockBroadcastUntil(target[b])
    /\ UNCHANGED <<row, smokeUsed, payloadVars, phase, nonce, head, riskVars,
                   pc, simNonce, lane, chainVars, unpassed>>

BootDone ==
    /\ phase = "boot" /\ work = {}
    /\ phase' = "run"
    /\ UNCHANGED <<dbVars, payloadVars, invVars, head, riskVars, pc, simNonce,
                   lane, work, chainVars, held, unpassed>>

-----------------------------------------------------------------------------
(* Relays and chain (external) *)

(* The next block's builder includes a payload whose nonces come next. *)
Land(b) ==
    /\ held[b] # {}
    /\ target[b] = height + 1
    /\ start[b] = chainNonce
    /\ chainNonce' = chainNonce + legs[b]
    /\ landed' = landed \cup {b}
    /\ held' = [held EXCEPT ![b] = {}]
    /\ UNCHANGED <<dbVars, payloadVars, phase, invVars, head, riskVars, pc,
                   simNonce, lane, work, height, unpassed>>

(* A payload is good for its target block only (eth_sendBundle blockNumber). *)
NextBlock ==
    /\ height < MaxBlock
    /\ height' = height + 1
    /\ held' = [b \in Bundles |-> IF target[b] > height' THEN held[b] ELSE {}]
    /\ UNCHANGED <<dbVars, payloadVars, phase, invVars, head, riskVars, pc,
                   simNonce, lane, work, chainNonce, landed, unpassed>>

(* A relay forgets a payload: restart, eviction, expiry. *)
RelayDrops(b, r) ==
    /\ r \in held[b]
    /\ held' = [held EXCEPT ![b] = @ \ {r}]
    /\ UNCHANGED <<dbVars, payloadVars, phase, invVars, head, riskVars, pc,
                   simNonce, lane, work, chainVars, unpassed>>

-----------------------------------------------------------------------------
Init ==
    /\ status = [b \in Bundles |-> "none"]
    /\ row = {} /\ smokeUsed = 0 /\ unpassed = {}
    /\ start = [b \in Bundles |-> 0]
    /\ legs = [b \in Bundles |-> 0]
    /\ target = [b \in Bundles |-> 0]
    /\ phase = "down"
    /\ nonce = 0 /\ blockedUntil = 0 /\ head = 0
    /\ runtimeLive = TRUE /\ tripped = FALSE /\ cancelPending = FALSE
    /\ passed = FALSE
    /\ pc = [b \in Bundles |-> "idle"]
    /\ simNonce = [b \in Bundles |-> 0]
    /\ lane = Nobody /\ work = {}
    /\ height = 1 /\ chainNonce = 0 /\ landed = {}
    /\ held = [b \in Bundles |-> {}]

(* One step of the task of candidate b. *)
Candidate(b) ==
    \/ Consider(b) \/ SimulatedLoss(b) \/ SimulatedProfit(b)
    \/ EnterLane(b) \/ ReserveNonces(b) \/ ExactResim(b) \/ Recheck(b)
    \/ PersistReservation(b) \/ FinalPinCheck(b) \/ SmokeGate(b)
    \/ SubmitReturns(b) \/ CancelRejected(b) \/ RecordBundle(b)

Operator ==
    \/ PauseMode \/ ResumeMode \/ ApplyRuntimeRisk \/ ResetRisk
    \/ TripCancels \/ CancelDone \/ \E b \in Bundles : CancelNext(b)

Process ==
    \/ OnBlock \/ RefreshQualification \/ \E b \in Bundles : Reconcile(b)
    \/ Crash \/ Boot \/ BootDone \/ \E b \in Bundles : BootRecover(b)

Environment ==
    \/ NextBlock
    \/ \E b \in Bundles : Land(b)
    \/ \E b \in Bundles, r \in Relays : RelayReceives(b, r) \/ RelayDrops(b, r)

Next ==
    \/ \E b \in Bundles : Candidate(b)
    \/ Operator
    \/ Process
    \/ Environment

Spec == Init /\ [][Next]_vars

-----------------------------------------------------------------------------
(* Fairness.  Every RPC call has a timeout (rpc.rs), so each awaited step   *)
(* returns and the task goes on; tokio's semaphore serves its waiters in    *)
(* order, so a waiter is not overtaken forever (strong fairness).  Nothing  *)
(* is assumed of heads, operators, the chain, crashes or relays.            *)

Running(b) ==
    \/ SimulatedLoss(b) \/ SimulatedProfit(b) \/ ReserveNonces(b)
    \/ ExactResim(b) \/ Recheck(b) \/ PersistReservation(b)
    \/ FinalPinCheck(b) \/ SmokeGate(b) \/ SubmitReturns(b)
    \/ CancelRejected(b) \/ RecordBundle(b)

Cancelling == CancelDone \/ \E b \in Bundles : CancelNext(b)

Fairness ==
    /\ \A b \in Bundles : WF_vars(Running(b)) /\ SF_vars(EnterLane(b))
    /\ WF_vars(Cancelling)
    /\ SF_vars(TripCancels)

FairSpec == Spec /\ Fairness

-----------------------------------------------------------------------------
(* Properties *)

Nonces(b) == start[b] .. (start[b] + legs[b] - 1)

(* A payload some relay can still put into its target block. *)
Live(b) == held[b] # {}

(* Until its target block has passed, nothing is broadcast beside b. *)
Blocked(b) == blockedUntil >= target[b]

(* No two payloads that can still be included are signed with a common     *)
(* nonce, across rejected submissions, unacknowledged cancellations,       *)
(* operator cancellations and restarts (inventory.rs, engine.rs 2122-2390). *)
NoncesNeverReused ==
    \A b, c \in Bundles :
        b # c /\ Live(b) /\ Live(c) => Nonces(b) \cap Nonces(c) = {}

(* Every payload that can still be included has an active reservation row, *)
(* so a restart at this very moment finds it (engine.rs 1003-1025).        *)
LivePayloadIsRecoverable ==
    \A b \in Bundles : Live(b) => Active(b)

(* Once a pause has been carried out and until the operator resumes, a     *)
(* payload that could not be proven cancelled keeps broadcasting blocked   *)
(* through its target (engine.rs 1199-1212).                               *)
PausedIsQuiet ==
    (phase = "run" /\ ~runtimeLive /\ lane # Cancel)
        => \A b \in Bundles : Live(b) => Blocked(b)

(* A tripped switch whose cancellation has run leaves no payload on the    *)
(* wire but those that block broadcasting, although the switch trips       *)
(* without the lane and a sender may be past its last risk check           *)
(* (engine.rs 2052-2063, 2255-2262).                                       *)
TripIsQuiet ==
    (phase = "run" /\ tripped /\ ~cancelPending /\ lane # Cancel)
        => \A b \in Bundles : Live(b) => Blocked(b)

(* Over the life of the database, restarts included, no more payloads are  *)
(* broadcast without a qualification PASS than LIVE_SMOKE_MAX.             *)
SmokeBudgetHolds == Cardinality(unpassed) <= SmokeMax

(* A payload is never put on the wire with a nonce the chain has already   *)
(* counted: the refresh right before the reservation sees to it            *)
(* (engine.rs 2191-2202).                                                  *)
SentNonceIsFresh ==
    [][\A b \in Bundles :
          pc[b] = "smoke" /\ pc'[b] = "sending" => start[b] >= chainNonce]_vars

(* A trip is followed by the cancellation of whatever is on the wire: each *)
(* payload leaves the wire or blocks broadcasting, unless the switch is    *)
(* reset or the process dies first.                                        *)
TripCancelsEverything ==
    \A b \in Bundles :
        (phase = "run" /\ tripped /\ Live(b))
            ~> (Blocked(b) \/ ~Live(b) \/ ~tripped \/ phase # "run")

(* A candidate waiting for the lane is served, however often operators and *)
(* the kill switch take the permit.                                        *)
QueuedCandidateIsServed ==
    \A b \in Bundles : (pc[b] = "queued") ~> (pc[b] = "done")

-----------------------------------------------------------------------------
(* The inductive invariant *)

(* A payload that is, or may at the next step be, on the wire. *)
Exposed(b) ==
    \/ Live(b)
    \/ pc[b] = "sending" /\ target[b] > height /\ b \notin landed

(* A payload's nonces lie below n. *)
Below(b, n) == start[b] + legs[b] <= n

(* Recovery or a cancellation pass is going through its reservations. *)
Draining == phase = "boot" \/ lane = Cancel

(* One task holds the permit, and only while the process runs in live mode. *)
PermitInv ==
    /\ \A b \in Bundles : pc[b] \in InLane <=> lane = b
    /\ \A b \in Bundles : lane = b => runtimeLive
    /\ phase # "run" => /\ lane = Nobody
                        /\ \A b \in Bundles : pc[b] \in {"idle", "done"}
    /\ ~Draining => work = {}

(* The engine never runs ahead of the chain, and relays hold no stale payload. *)
WireInv ==
    /\ head <= height
    /\ \A b \in Bundles :
          /\ Live(b) => target[b] > height /\ b \notin landed
          /\ Live(b) => pc[b] \in {"sending", "cancelling", "record", "done"}
          /\ b \in row => pc[b] = "done"

DurableInv ==
    \A b \in Bundles : Exposed(b) \/ pc[b] \in Reserved => Active(b)

(* Outside a draining pass, what is on the wire is below the next nonce or  *)
(* blocks broadcasting; the holder of the permit has every other exposed    *)
(* payload below its own range, although blockedUntil may since have risen. *)
CoverInv ==
    /\ phase = "run" /\ ~Draining =>
          \A b \in Bundles : Exposed(b) => Blocked(b) \/ Below(b, nonce)
    /\ Draining =>
          \A b \in Bundles \ work : Exposed(b) => Blocked(b)
    /\ \A c \in Bundles : pc[c] = "reserve" =>
          \A b \in Bundles \ {c} : Exposed(b) => Below(b, nonce)
    /\ \A c \in Bundles : pc[c] \in InLane \ {"reserve"} =>
          /\ Below(c, nonce)
          /\ \A b \in Bundles \ {c} : Exposed(b) => Below(b, start[c])

DisjointInv ==
    \A b, c \in Bundles :
        b # c /\ Exposed(b) /\ Exposed(c)
            => Below(b, start[c]) \/ Below(c, start[b])

PausedInv ==
    (phase = "run" /\ ~runtimeLive /\ lane # Cancel)
        => \A b \in Bundles : Exposed(b) => Blocked(b)

TripInv ==
    (phase = "run" /\ tripped /\ ~cancelPending) =>
        /\ \A b \in Bundles : pc[b] \notin Reserved \cup {"persist"}
        /\ lane # Cancel =>
              \A b \in Bundles : Exposed(b) => Blocked(b)

IInv ==
    /\ TypeOK
    /\ PermitInv
    /\ WireInv
    /\ DurableInv
    /\ CoverInv
    /\ DisjointInv
    /\ PausedInv
    /\ TripInv
=============================================================================
