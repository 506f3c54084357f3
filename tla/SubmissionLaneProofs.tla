------------------------ MODULE SubmissionLaneProofs ------------------------
(***************************************************************************)
(* Proofs about SubmissionLane for every set of payloads and relays, every  *)
(* bound and every kind of fault that a theorem does not exclude.           *)
(***************************************************************************)
EXTENDS SubmissionLane, FiniteSetTheorems, TLAPS

-----------------------------------------------------------------------------
(* Type correctness *)

LEMMA InitTypeOK == Init => TypeOK
  <1> SUFFICES ASSUME Init
               PROVE  TypeOK
    OBVIOUS
  <1>1. /\ pc \in [Bundles -> Steps]
        /\ status \in [Bundles -> Statuses]
        /\ held \in [Bundles -> SUBSET Relays]
    BY DEF Init, Steps, Statuses
  <1>2. lane \in Bundles \cup {Nobody, Cancel}
    BY DEF Init
  <1> QED
    BY <1>1, <1>2 DEF Init, TypeOK

(* The values of the small operators the actions are built from. *)
LEMMA InventoryTypes ==
    ASSUME TypeOK
    PROVE  /\ \A n \in Nat : AdvanceChainNonce(n) \in Nat
           /\ \A n \in Nat : AdvanceChainNonce(n) >= nonce
           /\ \A n \in Refreshed : n \in Nat /\ n >= nonce
           /\ \A b \in Bundles : ReleaseNonces(b) \in Nat
           /\ \A t \in Nat : BlockBroadcastUntil(t) \in Nat
           /\ \A t \in Nat : /\ BlockBroadcastUntil(t) >= blockedUntil
                             /\ BlockBroadcastUntil(t) >= t
  BY DEF TypeOK, Larger, AdvanceChainNonce, Refreshed, ReleaseNonces,
         BlockBroadcastUntil

LEMMA CandidateTypeOK ==
    ASSUME TypeOK, NEW b \in Bundles, Candidate(b)
    PROVE  TypeOK'
  <1> USE ConstantsAssumption, InventoryTypes
      DEF TypeOK, Steps, InLane, Statuses, ConstantsAssumption,
          dbVars, payloadVars, riskVars, invVars, chainVars
  <1>1. CASE Consider(b)
    BY <1>1 DEF Consider
  <1>2. CASE SimulatedLoss(b)
    BY <1>2 DEF SimulatedLoss, SpawnCancel
  <1>3. CASE SimulatedProfit(b)
    BY <1>3 DEF SimulatedProfit, SpawnCancel
  <1>4. CASE EnterLane(b)
    BY <1>4 DEF EnterLane
  <1>5. CASE ReserveNonces(b)
    BY <1>5 DEF ReserveNonces
  <1>6. CASE ExactResim(b)
    BY <1>6 DEF ExactResim, Withdraw
  <1>7. CASE Recheck(b)
    BY <1>7 DEF Recheck, StillAllowed, Withdraw
  <1>8. CASE PersistReservation(b)
    BY <1>8 DEF PersistReservation, Withdraw
  <1>9. CASE FinalPinCheck(b)
    BY <1>9 DEF FinalPinCheck, WithdrawReserved, Withdraw, SetStatus
  <1>10. CASE SmokeGate(b)
    BY <1>10 DEF SmokeGate, WithdrawReserved, Withdraw, SetStatus
  <1>11. CASE SubmitReturns(b)
    BY <1>11 DEF SubmitReturns, SetStatus
  <1>12. CASE CancelRejected(b)
    BY <1>12 DEF CancelRejected, SetStatus, Uncancelled
  <1>13. CASE RecordBundle(b)
    BY <1>13 DEF RecordBundle
  <1> QED
    BY <1>1, <1>2, <1>3, <1>4, <1>5, <1>6, <1>7, <1>8, <1>9, <1>10, <1>11,
       <1>12, <1>13 DEF Candidate

LEMMA OperatorTypeOK ==
    ASSUME TypeOK, Operator
    PROVE  TypeOK'
  <1> USE ConstantsAssumption, InventoryTypes
      DEF TypeOK, Steps, InLane, Statuses, ConstantsAssumption,
          dbVars, payloadVars, riskVars, invVars, chainVars,
          StartCancelPass, ActiveRead, ActiveReservations
  <1>1. CASE PauseMode
    BY <1>1 DEF PauseMode
  <1>2. CASE ResumeMode
    BY <1>2 DEF ResumeMode
  <1>3. CASE ApplyRuntimeRisk
    BY <1>3 DEF ApplyRuntimeRisk
  <1>4. CASE ResetRisk
    BY <1>4 DEF ResetRisk
  <1>5. CASE TripCancels
    BY <1>5 DEF TripCancels
  <1>6. CASE CancelDone
    BY <1>6 DEF CancelDone
  <1>7. ASSUME NEW b \in Bundles, CancelNext(b)
        PROVE  TypeOK'
    BY <1>7 DEF CancelNext, SetStatus, Uncancelled
  <1> QED
    BY <1>1, <1>2, <1>3, <1>4, <1>5, <1>6, <1>7 DEF Operator

LEMMA ProcessTypeOK ==
    ASSUME TypeOK, Process
    PROVE  TypeOK'
  <1> USE ConstantsAssumption, InventoryTypes
      DEF TypeOK, Steps, InLane, Statuses, ConstantsAssumption,
          dbVars, payloadVars, riskVars, invVars, chainVars
  <1>1. CASE OnBlock
    BY <1>1 DEF OnBlock
  <1>2. CASE RefreshQualification
    BY <1>2 DEF RefreshQualification
  <1>3. ASSUME NEW b \in Bundles, Reconcile(b)
        PROVE  TypeOK'
    BY <1>3 DEF Reconcile
  <1>4. CASE Crash
    BY <1>4 DEF Crash
  <1>5. CASE Boot
    BY <1>5 DEF Boot, ActiveRead, ActiveReservations
  <1>6. CASE BootDone
    BY <1>6 DEF BootDone
  <1>7. ASSUME NEW b \in Bundles, BootRecover(b)
        PROVE  TypeOK'
    BY <1>7 DEF BootRecover, SetStatus, Uncancelled
  <1> QED
    BY <1>1, <1>2, <1>3, <1>4, <1>5, <1>6, <1>7 DEF Process

LEMMA EnvironmentTypeOK ==
    ASSUME TypeOK, Environment
    PROVE  TypeOK'
  <1> USE DEF TypeOK, dbVars, payloadVars, riskVars, invVars, chainVars
  <1>1. CASE NextBlock
    BY <1>1 DEF NextBlock
  <1>2. ASSUME NEW b \in Bundles, Land(b)
        PROVE  TypeOK'
    BY <1>2 DEF Land
  <1>3. ASSUME NEW b \in Bundles, NEW r \in Relays,
               RelayReceives(b, r) \/ RelayDrops(b, r)
        PROVE  TypeOK'
    BY <1>3 DEF RelayReceives, RelayDrops
  <1> QED
    BY <1>1, <1>2, <1>3 DEF Environment

LEMMA NextTypeOK == TypeOK /\ [Next]_vars => TypeOK'
  <1> SUFFICES ASSUME TypeOK, [Next]_vars
               PROVE  TypeOK'
    OBVIOUS
  <1>1. CASE Next
    BY <1>1, CandidateTypeOK, OperatorTypeOK, ProcessTypeOK,
       EnvironmentTypeOK DEF Next
  <1>2. CASE UNCHANGED vars
    BY <1>2 DEF TypeOK, vars
  <1> QED
    BY <1>1, <1>2

(* Every variable keeps its type in every run of the lane. *)
THEOREM TypeCorrect == Spec => []TypeOK
  <1>1. Init => TypeOK
    BY InitTypeOK
  <1>2. TypeOK /\ [Next]_vars => TypeOK'
    BY NextTypeOK
  <1> QED
    BY <1>1, <1>2, PTL DEF Spec

-----------------------------------------------------------------------------
(* The inductive invariant.  Recovery and cancellation passes work from the *)
(* durable reservations, so that read must not fail ("db_read"): with it    *)
(* failing the invariant is false, as the run lane_boot_read shows.         *)

LEMMA InitIInv == Init => IInv
  <1> SUFFICES ASSUME Init
               PROVE  IInv
    OBVIOUS
  <1>1. \A b \in Bundles : ~Live(b) /\ ~Exposed(b) /\ pc[b] = "idle"
    BY DEF Init, Live, Exposed
  <1>2. PermitInv
    BY <1>1, ConstantsAssumption
       DEF Init, PermitInv, InLane, Draining, ConstantsAssumption
  <1>3. WireInv /\ DurableInv /\ CoverInv /\ DisjointInv
    BY <1>1 DEF Init, WireInv, DurableInv, CoverInv, DisjointInv, InLane,
                Reserved
  <1>4. PausedInv /\ TripInv
    BY DEF Init, PausedInv, TripInv
  <1> QED
    BY <1>2, <1>3, <1>4, InitTypeOK DEF IInv

(* One step of a candidate's task. *)
LEMMA CandidatePreserves ==
    ASSUME "db_read" \notin Faults, IInv, TypeOK', NEW b \in Bundles, Candidate(b)
    PROVE  IInv'
  <1> USE ConstantsAssumption
      DEF ConstantsAssumption, IInv, TypeOK, PermitInv, WireInv, DurableInv,
          CoverInv, DisjointInv, PausedInv, TripInv, Exposed, Live, Below,
          Blocked, Draining, Active, InLane, Reserved, dbVars, payloadVars,
          riskVars, invVars, chainVars
  <1>1. CASE Consider(b)
    <2>1. PermitInv' /\ WireInv' /\ DurableInv'
      BY <1>1, SMTT(20) DEF Consider
    <2>2. CoverInv' /\ DisjointInv'
      BY <1>1, SMTT(20) DEF Consider
    <2>3. PausedInv' /\ TripInv'
      BY <1>1, SMTT(20) DEF Consider
    <2> QED
      BY <2>1, <2>2, <2>3
  <1>2. CASE SimulatedLoss(b)
    <2>1. PermitInv' /\ WireInv' /\ DurableInv'
      BY <1>2, SMTT(20) DEF SimulatedLoss, SpawnCancel
    <2>2. CoverInv' /\ DisjointInv'
      BY <1>2, SMTT(20) DEF SimulatedLoss, SpawnCancel
    <2>3. PausedInv' /\ TripInv'
      BY <1>2, SMTT(20) DEF SimulatedLoss, SpawnCancel
    <2> QED
      BY <2>1, <2>2, <2>3
  <1>3. CASE SimulatedProfit(b)
    <2>1. PermitInv' /\ WireInv' /\ DurableInv'
      BY <1>3, SMTT(20) DEF SimulatedProfit, SpawnCancel
    <2>2. CoverInv' /\ DisjointInv'
      BY <1>3, SMTT(20) DEF SimulatedProfit, SpawnCancel
    <2>3. PausedInv' /\ TripInv'
      BY <1>3, SMTT(20) DEF SimulatedProfit, SpawnCancel
    <2> QED
      BY <2>1, <2>2, <2>3
  <1>4. CASE EnterLane(b)
    <2>1. PermitInv' /\ WireInv' /\ DurableInv'
      BY <1>4, SMTT(20) DEF EnterLane, LaneOpen, BroadcastAvailable
    <2>2. CoverInv' /\ DisjointInv'
      BY <1>4, SMTT(20) DEF EnterLane, LaneOpen, BroadcastAvailable
    <2>3. PausedInv' /\ TripInv'
      BY <1>4, SMTT(20) DEF EnterLane, LaneOpen, BroadcastAvailable
    <2> QED
      BY <2>1, <2>2, <2>3
  <1>5. CASE ReserveNonces(b)
    <2>1. PermitInv' /\ WireInv' /\ DurableInv'
      BY <1>5, SMTT(20) DEF ReserveNonces, Refreshed, AdvanceChainNonce,
         Larger
    <2>2. CoverInv' /\ DisjointInv'
      BY <1>5, SMTT(20) DEF ReserveNonces, Refreshed, AdvanceChainNonce,
         Larger
    <2>3. PausedInv' /\ TripInv'
      BY <1>5, SMTT(20) DEF ReserveNonces, Refreshed, AdvanceChainNonce,
         Larger
    <2> QED
      BY <2>1, <2>2, <2>3
  <1>6. CASE ExactResim(b)
    <2>1. PermitInv' /\ WireInv' /\ DurableInv'
      BY <1>6, SMTT(20) DEF ExactResim, Withdraw, ReleaseNonces
    <2>2. CoverInv' /\ DisjointInv'
      BY <1>6, SMTT(20) DEF ExactResim, Withdraw, ReleaseNonces
    <2>3. PausedInv' /\ TripInv'
      BY <1>6, SMTT(20) DEF ExactResim, Withdraw, ReleaseNonces
    <2> QED
      BY <2>1, <2>2, <2>3
  <1>7. CASE Recheck(b)
    <2>1. PermitInv' /\ WireInv' /\ DurableInv'
      BY <1>7, SMTT(20) DEF Recheck, StillAllowed, Withdraw, ReleaseNonces
    <2>2. CoverInv' /\ DisjointInv'
      BY <1>7, SMTT(20) DEF Recheck, StillAllowed, Withdraw, ReleaseNonces
    <2>3. PausedInv' /\ TripInv'
      BY <1>7, SMTT(20) DEF Recheck, StillAllowed, Withdraw, ReleaseNonces
    <2> QED
      BY <2>1, <2>2, <2>3
  <1>8. CASE PersistReservation(b)
    <2>1. PermitInv' /\ WireInv' /\ DurableInv'
      BY <1>8, SMTT(20) DEF PersistReservation, Withdraw, ReleaseNonces
    <2>2. CoverInv' /\ DisjointInv'
      BY <1>8, SMTT(20) DEF PersistReservation, Withdraw, ReleaseNonces
    <2>3. PausedInv' /\ TripInv'
      BY <1>8, SMTT(20) DEF PersistReservation, Withdraw, ReleaseNonces
    <2> QED
      BY <2>1, <2>2, <2>3
  <1>9. CASE FinalPinCheck(b)
    <2>1. PermitInv' /\ WireInv' /\ DurableInv'
      BY <1>9, SMTT(20) DEF FinalPinCheck, WithdrawReserved, Withdraw,
         SetStatus, ReleaseNonces
    <2>2. CoverInv' /\ DisjointInv'
      BY <1>9, SMTT(20) DEF FinalPinCheck, WithdrawReserved, Withdraw,
         SetStatus, ReleaseNonces
    <2>3. PausedInv' /\ TripInv'
      BY <1>9, SMTT(20) DEF FinalPinCheck, WithdrawReserved, Withdraw,
         SetStatus, ReleaseNonces
    <2> QED
      BY <2>1, <2>2, <2>3
  <1>10. CASE SmokeGate(b)
    <2>1. PermitInv' /\ WireInv' /\ DurableInv'
      BY <1>10, SMTT(20) DEF SmokeGate, WithdrawReserved, Withdraw, SetStatus,
         ReleaseNonces
    <2>2. CoverInv' /\ DisjointInv'
      BY <1>10, SMTT(20) DEF SmokeGate, WithdrawReserved, Withdraw, SetStatus,
         ReleaseNonces
    <2>3. PausedInv' /\ TripInv'
      BY <1>10, SMTT(20) DEF SmokeGate, WithdrawReserved, Withdraw, SetStatus,
         ReleaseNonces
    <2> QED
      BY <2>1, <2>2, <2>3
  <1>11. CASE SubmitReturns(b)
    <2>1. PermitInv' /\ WireInv' /\ DurableInv'
      BY <1>11, SMTT(20) DEF SubmitReturns, SetStatus
    <2>2. CoverInv' /\ DisjointInv'
      BY <1>11, SMTT(20) DEF SubmitReturns, SetStatus
    <2>3. PausedInv' /\ TripInv'
      BY <1>11, SMTT(20) DEF SubmitReturns, SetStatus
    <2> QED
      BY <2>1, <2>2, <2>3
  <1>12. CASE CancelRejected(b)
    <2>1. PermitInv' /\ WireInv' /\ DurableInv'
      BY <1>12, SMTT(20) DEF CancelRejected, SetStatus, Uncancelled,
         AllAcknowledged, ReleaseNonces, BlockBroadcastUntil, Larger
    <2>2. CoverInv' /\ DisjointInv'
      BY <1>12, SMTT(20) DEF CancelRejected, SetStatus, Uncancelled,
         AllAcknowledged, ReleaseNonces, BlockBroadcastUntil, Larger
    <2>3. PausedInv' /\ TripInv'
      BY <1>12, SMTT(20) DEF CancelRejected, SetStatus, Uncancelled,
         AllAcknowledged, ReleaseNonces, BlockBroadcastUntil, Larger
    <2> QED
      BY <2>1, <2>2, <2>3
  <1>13. CASE RecordBundle(b)
    <2>1. PermitInv' /\ WireInv' /\ DurableInv'
      BY <1>13, SMTT(20) DEF RecordBundle, BlockBroadcastUntil, Larger
    <2>2. CoverInv' /\ DisjointInv'
      BY <1>13, SMTT(20) DEF RecordBundle, BlockBroadcastUntil, Larger
    <2>3. PausedInv' /\ TripInv'
      BY <1>13, SMTT(20) DEF RecordBundle, BlockBroadcastUntil, Larger
    <2> QED
      BY <2>1, <2>2, <2>3
  <1> QED
    BY <1>1, <1>2, <1>3, <1>4, <1>5, <1>6, <1>7, <1>8, <1>9, <1>10, <1>11,
       <1>12, <1>13 DEF Candidate

(* Operator requests and cancellation passes. *)
LEMMA OperatorPreserves ==
    ASSUME "db_read" \notin Faults, IInv, TypeOK', Operator
    PROVE  IInv'
  <1> USE ConstantsAssumption
      DEF ConstantsAssumption, IInv, TypeOK, PermitInv, WireInv, DurableInv,
          CoverInv, DisjointInv, PausedInv, TripInv, Exposed, Live, Below,
          Blocked, Draining, Active, InLane, Reserved, dbVars, payloadVars,
          riskVars, invVars, chainVars
  <1>1. CASE PauseMode
    <2>1. PermitInv' /\ WireInv' /\ DurableInv'
      BY <1>1, SMTT(20) DEF PauseMode, StartCancelPass, ActiveRead,
         ActiveReservations
    <2>2. CoverInv' /\ DisjointInv'
      BY <1>1, SMTT(20) DEF PauseMode, StartCancelPass, ActiveRead,
         ActiveReservations
    <2>3. PausedInv' /\ TripInv'
      BY <1>1, SMTT(20) DEF PauseMode, StartCancelPass, ActiveRead,
         ActiveReservations
    <2> QED
      BY <2>1, <2>2, <2>3
  <1>2. CASE ResumeMode
    <2>1. PermitInv' /\ WireInv' /\ DurableInv'
      BY <1>2, SMTT(20) DEF ResumeMode
    <2>2. CoverInv' /\ DisjointInv'
      BY <1>2, SMTT(20) DEF ResumeMode
    <2>3. PausedInv' /\ TripInv'
      BY <1>2, SMTT(20) DEF ResumeMode
    <2> QED
      BY <2>1, <2>2, <2>3
  <1>3. CASE ApplyRuntimeRisk
    <2>1. PermitInv' /\ WireInv' /\ DurableInv'
      BY <1>3, SMTT(20) DEF ApplyRuntimeRisk, StartCancelPass, ActiveRead,
         ActiveReservations
    <2>2. CoverInv' /\ DisjointInv'
      BY <1>3, SMTT(20) DEF ApplyRuntimeRisk, StartCancelPass, ActiveRead,
         ActiveReservations
    <2>3. PausedInv' /\ TripInv'
      BY <1>3, SMTT(20) DEF ApplyRuntimeRisk, StartCancelPass, ActiveRead,
         ActiveReservations
    <2> QED
      BY <2>1, <2>2, <2>3
  <1>4. CASE ResetRisk
    <2>1. PermitInv' /\ WireInv' /\ DurableInv'
      BY <1>4, SMTT(20) DEF ResetRisk
    <2>2. CoverInv' /\ DisjointInv'
      BY <1>4, SMTT(20) DEF ResetRisk
    <2>3. PausedInv' /\ TripInv'
      BY <1>4, SMTT(20) DEF ResetRisk
    <2> QED
      BY <2>1, <2>2, <2>3
  <1>5. CASE TripCancels
    <2>1. PermitInv' /\ WireInv' /\ DurableInv'
      BY <1>5, SMTT(20) DEF TripCancels, StartCancelPass, ActiveRead,
         ActiveReservations
    <2>2. CoverInv' /\ DisjointInv'
      BY <1>5, SMTT(20) DEF TripCancels, StartCancelPass, ActiveRead,
         ActiveReservations
    <2>3. PausedInv' /\ TripInv'
      BY <1>5, SMTT(20) DEF TripCancels, StartCancelPass, ActiveRead,
         ActiveReservations
    <2> QED
      BY <2>1, <2>2, <2>3
  <1>6. CASE CancelDone
    <2>1. PermitInv' /\ WireInv' /\ DurableInv'
      BY <1>6, SMTT(20) DEF CancelDone
    <2>2. CoverInv' /\ DisjointInv'
      BY <1>6, SMTT(20) DEF CancelDone
    <2>3. PausedInv' /\ TripInv'
      BY <1>6, SMTT(20) DEF CancelDone
    <2> QED
      BY <2>1, <2>2, <2>3
  <1>7. ASSUME NEW b \in Bundles, CancelNext(b)
        PROVE  IInv'
    <2>1. PermitInv' /\ WireInv' /\ DurableInv'
      BY <1>7, SMTT(20) DEF CancelNext, SetStatus, Uncancelled,
         AllAcknowledged, ReleaseNonces, BlockBroadcastUntil, Larger
    <2>2. CoverInv' /\ DisjointInv'
      BY <1>7, SMTT(20) DEF CancelNext, SetStatus, Uncancelled,
         AllAcknowledged, ReleaseNonces, BlockBroadcastUntil, Larger
    <2>3. PausedInv' /\ TripInv'
      BY <1>7, SMTT(20) DEF CancelNext, SetStatus, Uncancelled,
         AllAcknowledged, ReleaseNonces, BlockBroadcastUntil, Larger
    <2> QED
      BY <2>1, <2>2, <2>3
  <1> QED
    BY <1>1, <1>2, <1>3, <1>4, <1>5, <1>6, <1>7 DEF Operator

(* Heads, settlement, crash and restart. *)
LEMMA ProcessPreserves ==
    ASSUME "db_read" \notin Faults, IInv, TypeOK', Process
    PROVE  IInv'
  <1> USE ConstantsAssumption
      DEF ConstantsAssumption, IInv, TypeOK, PermitInv, WireInv, DurableInv,
          CoverInv, DisjointInv, PausedInv, TripInv, Exposed, Live, Below,
          Blocked, Draining, Active, InLane, Reserved, dbVars, payloadVars,
          riskVars, invVars, chainVars
  <1>1. CASE OnBlock
    <2>1. PermitInv' /\ WireInv' /\ DurableInv'
      BY <1>1, SMTT(20) DEF OnBlock, Refreshed, AdvanceChainNonce, Larger
    <2>2. CoverInv' /\ DisjointInv'
      BY <1>1, SMTT(20) DEF OnBlock, Refreshed, AdvanceChainNonce, Larger
    <2>3. PausedInv' /\ TripInv'
      BY <1>1, SMTT(20) DEF OnBlock, Refreshed, AdvanceChainNonce, Larger
    <2> QED
      BY <2>1, <2>2, <2>3
  <1>2. CASE RefreshQualification
    <2>1. PermitInv' /\ WireInv' /\ DurableInv'
      BY <1>2, SMTT(20) DEF RefreshQualification
    <2>2. CoverInv' /\ DisjointInv'
      BY <1>2, SMTT(20) DEF RefreshQualification
    <2>3. PausedInv' /\ TripInv'
      BY <1>2, SMTT(20) DEF RefreshQualification
    <2> QED
      BY <2>1, <2>2, <2>3
  <1>3. ASSUME NEW b \in Bundles, Reconcile(b)
        PROVE  IInv'
    <2>1. PermitInv' /\ WireInv' /\ DurableInv'
      BY <1>3, SMTT(20) DEF Reconcile
    <2>2. CoverInv' /\ DisjointInv'
      BY <1>3, SMTT(20) DEF Reconcile
    <2>3. PausedInv' /\ TripInv'
      BY <1>3, SMTT(20) DEF Reconcile
    <2> QED
      BY <2>1, <2>2, <2>3
  <1>4. CASE Crash
    <2>1. PermitInv' /\ WireInv' /\ DurableInv'
      BY <1>4, SMTT(20) DEF Crash
    <2>2. CoverInv' /\ DisjointInv'
      BY <1>4, SMTT(20) DEF Crash
    <2>3. PausedInv' /\ TripInv'
      BY <1>4, SMTT(20) DEF Crash
    <2> QED
      BY <2>1, <2>2, <2>3
  <1>5. CASE Boot
    <2>1. PermitInv' /\ WireInv' /\ DurableInv'
      BY <1>5, SMTT(20) DEF Boot, Refreshed, AdvanceChainNonce, Larger,
         ActiveRead, ActiveReservations
    <2>2. CoverInv' /\ DisjointInv'
      BY <1>5, SMTT(20) DEF Boot, Refreshed, AdvanceChainNonce, Larger,
         ActiveRead, ActiveReservations
    <2>3. PausedInv' /\ TripInv'
      BY <1>5, SMTT(20) DEF Boot, Refreshed, AdvanceChainNonce, Larger,
         ActiveRead, ActiveReservations
    <2> QED
      BY <2>1, <2>2, <2>3
  <1>6. CASE BootDone
    <2>1. PermitInv' /\ WireInv' /\ DurableInv'
      BY <1>6, SMTT(20) DEF BootDone
    <2>2. CoverInv' /\ DisjointInv'
      BY <1>6, SMTT(20) DEF BootDone
    <2>3. PausedInv' /\ TripInv'
      BY <1>6, SMTT(20) DEF BootDone
    <2> QED
      BY <2>1, <2>2, <2>3
  <1>7. ASSUME NEW b \in Bundles, BootRecover(b)
        PROVE  IInv'
    <2>1. PermitInv' /\ WireInv' /\ DurableInv'
      BY <1>7, SMTT(20) DEF BootRecover, SetStatus, Uncancelled,
         AllAcknowledged, Expired, BlockBroadcastUntil, Larger
    <2>2. CoverInv' /\ DisjointInv'
      BY <1>7, SMTT(20) DEF BootRecover, SetStatus, Uncancelled,
         AllAcknowledged, Expired, BlockBroadcastUntil, Larger
    <2>3. PausedInv' /\ TripInv'
      BY <1>7, SMTT(20) DEF BootRecover, SetStatus, Uncancelled,
         AllAcknowledged, Expired, BlockBroadcastUntil, Larger
    <2> QED
      BY <2>1, <2>2, <2>3
  <1> QED
    BY <1>1, <1>2, <1>3, <1>4, <1>5, <1>6, <1>7 DEF Process

(* The chain and the relays. *)
LEMMA EnvironmentPreserves ==
    ASSUME "db_read" \notin Faults, IInv, TypeOK', Environment
    PROVE  IInv'
  <1> USE ConstantsAssumption
      DEF ConstantsAssumption, IInv, TypeOK, PermitInv, WireInv, DurableInv,
          CoverInv, DisjointInv, PausedInv, TripInv, Exposed, Live, Below,
          Blocked, Draining, Active, InLane, Reserved, dbVars, payloadVars,
          riskVars, invVars, chainVars
  <1>1. CASE NextBlock
    <2>1. PermitInv' /\ WireInv' /\ DurableInv'
      BY <1>1, SMTT(20) DEF NextBlock
    <2>2. CoverInv' /\ DisjointInv'
      BY <1>1, SMTT(20) DEF NextBlock
    <2>3. PausedInv' /\ TripInv'
      BY <1>1, SMTT(20) DEF NextBlock
    <2> QED
      BY <2>1, <2>2, <2>3
  <1>2. ASSUME NEW b \in Bundles, Land(b)
        PROVE  IInv'
    <2>1. PermitInv' /\ WireInv' /\ DurableInv'
      BY <1>2, SMTT(20) DEF Land
    <2>2. CoverInv' /\ DisjointInv'
      BY <1>2, SMTT(20) DEF Land
    <2>3. PausedInv' /\ TripInv'
      BY <1>2, SMTT(20) DEF Land
    <2> QED
      BY <2>1, <2>2, <2>3
  <1>3. ASSUME NEW b \in Bundles, NEW r \in Relays, RelayReceives(b, r)
        PROVE  IInv'
    <2>1. PermitInv' /\ WireInv' /\ DurableInv'
      BY <1>3, SMTT(20) DEF RelayReceives
    <2>2. CoverInv' /\ DisjointInv'
      BY <1>3, SMTT(20) DEF RelayReceives
    <2>3. PausedInv' /\ TripInv'
      BY <1>3, SMTT(20) DEF RelayReceives
    <2> QED
      BY <2>1, <2>2, <2>3
  <1>4. ASSUME NEW b \in Bundles, NEW r \in Relays, RelayDrops(b, r)
        PROVE  IInv'
    <2>1. PermitInv' /\ WireInv' /\ DurableInv'
      BY <1>4, SMTT(20) DEF RelayDrops
    <2>2. CoverInv' /\ DisjointInv'
      BY <1>4, SMTT(20) DEF RelayDrops
    <2>3. PausedInv' /\ TripInv'
      BY <1>4, SMTT(20) DEF RelayDrops
    <2> QED
      BY <2>1, <2>2, <2>3
  <1> QED
    BY <1>1, <1>2, <1>3, <1>4 DEF Environment

LEMMA NextIInv ==
    ASSUME "db_read" \notin Faults
    PROVE  IInv /\ [Next]_vars => IInv'
  <1> SUFFICES ASSUME IInv, [Next]_vars
               PROVE  IInv'
    OBVIOUS
  <1>1. TypeOK'
    BY NextTypeOK DEF IInv
  <1>2. CASE Next
    BY <1>1, <1>2, CandidatePreserves, OperatorPreserves, ProcessPreserves,
       EnvironmentPreserves DEF Next
  <1>3. CASE UNCHANGED vars
    BY <1>3 DEF vars, IInv, TypeOK, PermitInv, WireInv, DurableInv, CoverInv,
                DisjointInv, PausedInv, TripInv, Exposed, Live, Below, Blocked,
                Draining, Active
  <1> QED
    BY <1>2, <1>3

THEOREM Invariance ==
    ASSUME "db_read" \notin Faults
    PROVE  Spec => []IInv
  <1>1. Init => IInv
    BY InitIInv
  <1>2. IInv /\ [Next]_vars => IInv'
    BY NextIInv
  <1> QED
    BY <1>1, <1>2, PTL DEF Spec

-----------------------------------------------------------------------------
(* What it implies *)

(* Two payloads that relays can still include never share a nonce, whatever *)
(* the numbers of payloads, relays and blocks, and whichever RPC calls and  *)
(* database writes fail.                                                    *)
THEOREM NonceSafety ==
    ASSUME "db_read" \notin Faults
    PROVE  Spec => []NoncesNeverReused
  <1>1. IInv => NoncesNeverReused
    <2> SUFFICES ASSUME IInv, NEW b \in Bundles, NEW c \in Bundles, b # c,
                        Live(b), Live(c)
                 PROVE  Nonces(b) \cap Nonces(c) = {}
      BY DEF NoncesNeverReused
    <2>1. Below(b, start[c]) \/ Below(c, start[b])
      BY DEF IInv, DisjointInv, Exposed
    <2> QED
      BY <2>1 DEF Nonces, Below, IInv, TypeOK
  <1> QED
    BY <1>1, Invariance, PTL

(* At every moment, a crash included, whatever is on the wire has an active *)
(* reservation row.                                                         *)
THEOREM Recoverability ==
    ASSUME "db_read" \notin Faults
    PROVE  Spec => []LivePayloadIsRecoverable
  <1>1. IInv => LivePayloadIsRecoverable
    BY DEF IInv, DurableInv, Exposed, LivePayloadIsRecoverable
  <1> QED
    BY <1>1, Invariance, PTL

(* A carried-out pause leaves on the wire only what blocks broadcasting.    *)
THEOREM PauseSafety ==
    ASSUME "db_read" \notin Faults
    PROVE  Spec => []PausedIsQuiet
  <1>1. IInv => PausedIsQuiet
    BY DEF IInv, PausedInv, Exposed, PausedIsQuiet
  <1> QED
    BY <1>1, Invariance, PTL

(* So does a tripped switch whose cancellation has run.                     *)
THEOREM TripSafety ==
    ASSUME "db_read" \notin Faults
    PROVE  Spec => []TripIsQuiet
  <1>1. IInv => TripIsQuiet
    BY DEF IInv, TripInv, Exposed, TripIsQuiet
  <1> QED
    BY <1>1, Invariance, PTL

-----------------------------------------------------------------------------
(* The smoke budget, under every kind of fault *)

SmokeInv ==
    /\ TypeOK
    /\ IsFiniteSet(unpassed)
    /\ Cardinality(unpassed) <= smokeUsed
    /\ smokeUsed <= SmokeMax

(* Only SmokeGate touches the counter and the set, and both together. *)
LEMMA SmokeFrame ==
    ASSUME NEW b \in Bundles, Candidate(b)
    PROVE  SmokeGate(b) \/ UNCHANGED <<smokeUsed, unpassed>>
  BY DEF Candidate, dbVars, Consider, SimulatedLoss, SimulatedProfit, EnterLane,
         ReserveNonces, ExactResim, Recheck, StillAllowed, PersistReservation, FinalPinCheck,
         SubmitReturns, CancelRejected, RecordBundle

LEMMA SmokeFrameRest ==
    ASSUME Operator \/ Process \/ Environment
    PROVE  UNCHANGED <<smokeUsed, unpassed>>
  <1>1. CASE Operator
    BY <1>1 DEF Operator, dbVars, PauseMode, ResumeMode, ApplyRuntimeRisk,
                ResetRisk, TripCancels, CancelDone, CancelNext
  <1>2. CASE Process
    BY <1>2 DEF Process, dbVars, OnBlock, RefreshQualification, Reconcile,
                Crash, Boot, BootDone, BootRecover
  <1>3. CASE Environment
    BY <1>3 DEF Environment, dbVars, NextBlock, Land, RelayReceives,
                RelayDrops
  <1> QED
    BY <1>1, <1>2, <1>3

LEMMA SmokeGatePreserves ==
    ASSUME SmokeInv, NEW b \in Bundles, SmokeGate(b)
    PROVE  /\ IsFiniteSet(unpassed')
           /\ Cardinality(unpassed') <= smokeUsed'
           /\ smokeUsed' <= SmokeMax
  <1> USE DEF SmokeInv, TypeOK
  <1>1. CASE UNCHANGED <<smokeUsed, unpassed>>
    BY <1>1
  <1>2. CASE /\ smokeUsed < SmokeMax
             /\ smokeUsed' = smokeUsed + 1
             /\ unpassed' = unpassed \cup {b}
    <2>1. /\ IsFiniteSet(unpassed')
          /\ Cardinality(unpassed') <= Cardinality(unpassed) + 1
          /\ Cardinality(unpassed) \in Nat
          /\ Cardinality(unpassed') \in Nat
      <3>1. Cardinality(unpassed) \in Nat
        BY FS_CardinalityType
      <3>2. /\ IsFiniteSet(unpassed \cup {b})
            /\ Cardinality(unpassed \cup {b}) =
                  IF b \in unpassed THEN Cardinality(unpassed)
                                    ELSE Cardinality(unpassed) + 1
        BY FS_AddElement, Zenon
      <3> QED
        BY <1>2, <3>1, <3>2
    <2> QED
      BY <1>2, <2>1, ConstantsAssumption DEF ConstantsAssumption
  <1>3. \/ UNCHANGED <<smokeUsed, unpassed>>
        \/ /\ smokeUsed < SmokeMax
           /\ smokeUsed' = smokeUsed + 1
           /\ unpassed' = unpassed \cup {b}
    BY DEF SmokeGate, SlotLeft
  <1> QED
    BY <1>1, <1>2, <1>3

(* No sequence of sends, refusals, crashes and restarts broadcasts more     *)
(* payloads without a qualification PASS than LIVE_SMOKE_MAX.               *)
THEOREM SmokeSafety == Spec => []SmokeBudgetHolds
  <1>1. Init => SmokeInv
    BY InitTypeOK, FS_EmptySet, ConstantsAssumption
       DEF Init, SmokeInv, ConstantsAssumption
  <1>2. SmokeInv /\ [Next]_vars => SmokeInv'
    <2> SUFFICES ASSUME SmokeInv, [Next]_vars
                 PROVE  SmokeInv'
      OBVIOUS
    <2>1. TypeOK'
      BY NextTypeOK DEF SmokeInv
    <2>2. CASE UNCHANGED <<smokeUsed, unpassed>>
      BY <2>1, <2>2 DEF SmokeInv
    <2>3. ASSUME NEW b \in Bundles, SmokeGate(b)
          PROVE  SmokeInv'
      BY <2>1, <2>3, SmokeGatePreserves DEF SmokeInv
    <2> QED
      BY <2>2, <2>3, SmokeFrame, SmokeFrameRest DEF Next, vars
  <1>3. SmokeInv => SmokeBudgetHolds
    <2> SUFFICES ASSUME SmokeInv
                 PROVE  Cardinality(unpassed) <= SmokeMax
      BY DEF SmokeBudgetHolds
    <2>1. Cardinality(unpassed) \in Nat
      BY FS_CardinalityType DEF SmokeInv
    <2> QED
      BY <2>1, ConstantsAssumption DEF SmokeInv, TypeOK, ConstantsAssumption
  <1> QED
    BY <1>1, <1>2, <1>3, PTL DEF Spec

-----------------------------------------------------------------------------
(* Fresh nonces, as long as the nonce refresh itself does not fail *)

(* Between its reservation and the wire a payload's first nonce stays       *)
(* uncounted by the chain.                                                  *)
FreshInv ==
    \A c \in Bundles :
        pc[c] \in {"resim", "recheck", "persist", "pin", "smoke"}
            => start[c] >= chainNonce

LEMMA FreshFrame ==
    ASSUME TypeOK, FreshInv, TypeOK',
           chainNonce' = chainNonce, start' = start,
           \A c \in Bundles :
              pc'[c] \in {"resim", "recheck", "persist", "pin", "smoke"}
                => pc[c] \in {"resim", "recheck", "persist", "pin", "smoke"}
    PROVE  FreshInv'
  BY DEF FreshInv, TypeOK

LEMMA FreshCandidate ==
    ASSUME "rpc" \notin Faults, IInv, FreshInv, TypeOK',
           NEW b \in Bundles, Candidate(b)
    PROVE  FreshInv'
  <1>1. CASE ReserveNonces(b)
    BY <1>1 DEF IInv, PermitInv, InLane, TypeOK, FreshInv, ReserveNonces,
                Refreshed, AdvanceChainNonce, Larger, chainVars
  <1>2. CASE ~ReserveNonces(b)
    <2>1. chainNonce' = chainNonce /\ start' = start
      BY <1>2 DEF Candidate, payloadVars, chainVars, Consider, SimulatedLoss,
                  SimulatedProfit, EnterLane, ExactResim, Recheck,
                  StillAllowed, SpawnCancel,
                  PersistReservation, FinalPinCheck, SmokeGate, SubmitReturns,
                  CancelRejected, RecordBundle
    <2>2. \A c \in Bundles :
             pc'[c] \in {"resim", "recheck", "persist", "pin", "smoke"}
               => pc[c] \in {"resim", "recheck", "persist", "pin", "smoke"}
      BY <1>2 DEF IInv, TypeOK, Candidate, Consider, SimulatedLoss,
                  SimulatedProfit, EnterLane, ExactResim, Recheck,
                  StillAllowed, SpawnCancel,
                  PersistReservation, FinalPinCheck, SmokeGate, SubmitReturns,
                  CancelRejected, RecordBundle, Withdraw, WithdrawReserved
    <2> QED
      BY <2>1, <2>2, FreshFrame DEF IInv
  <1> QED
    BY <1>1, <1>2

LEMMA FreshLand ==
    ASSUME IInv, FreshInv, NEW b \in Bundles, Land(b)
    PROVE  FreshInv'
  <1> SUFFICES ASSUME NEW c \in Bundles,
                      pc[c] \in {"resim", "recheck", "persist", "pin", "smoke"}
               PROVE  start[c] >= chainNonce'
    BY DEF FreshInv, Land, payloadVars
  <1>1. Live(b) /\ c # b
    BY DEF Land, Live, IInv, WireInv
  <1>2. Below(b, start[c])
    BY <1>1 DEF IInv, CoverInv, Exposed, InLane
  <1> QED
    BY <1>2 DEF Land, Below, IInv, TypeOK

LEMMA FreshRest ==
    ASSUME IInv, FreshInv, TypeOK', Operator \/ Process \/ Environment
    PROVE  FreshInv'
  <1>1. CASE Operator
    <2>1. UNCHANGED <<chainNonce, start, pc>>
      BY <1>1 DEF Operator, payloadVars, chainVars, PauseMode, ResumeMode,
                  ApplyRuntimeRisk, ResetRisk, TripCancels, CancelDone,
                  CancelNext
    <2> QED
      BY <2>1, FreshFrame DEF IInv
  <1>2. CASE Process
    <2>1. /\ UNCHANGED <<chainNonce, start>>
          /\ \A c \in Bundles : pc'[c] = pc[c] \/ pc'[c] \in {"idle", "done"}
      BY <1>2 DEF Process, payloadVars, chainVars, OnBlock,
                  RefreshQualification, Reconcile, Crash, Boot, BootDone,
                  BootRecover
    <2> QED
      BY <2>1, FreshFrame DEF IInv
  <1>3. CASE Environment
    <2>1. ASSUME NEW b \in Bundles, Land(b)
          PROVE  FreshInv'
      BY <2>1, FreshLand
    <2>2. CASE UNCHANGED <<chainNonce, start, pc>>
      BY <2>2, FreshFrame DEF IInv
    <2> QED
      BY <1>3, <2>1, <2>2 DEF Environment, payloadVars, chainVars, NextBlock,
                              RelayReceives, RelayDrops
  <1> QED
    BY <1>1, <1>2, <1>3

(* A payload goes on the wire only with nonces the chain has not counted,   *)
(* provided the refresh before the reservation succeeds; with that RPC call *)
(* failing ("rpc" in Faults) a stale nonce can be sent.                     *)
THEOREM NonceFreshness ==
    ASSUME "db_read" \notin Faults, "rpc" \notin Faults
    PROVE  Spec => SentNonceIsFresh
  <1>1. Init => IInv /\ FreshInv
    BY InitIInv DEF Init, FreshInv
  <1>2. IInv /\ FreshInv /\ [Next]_vars => IInv' /\ FreshInv'
    <2> SUFFICES ASSUME IInv, FreshInv, [Next]_vars
                 PROVE  IInv' /\ FreshInv'
      OBVIOUS
    <2>1. IInv' /\ TypeOK'
      BY NextIInv, NextTypeOK DEF IInv
    <2>2. CASE UNCHANGED vars
      BY <2>1, <2>2, FreshFrame DEF vars, IInv
    <2>3. CASE Next
      BY <2>1, <2>3, FreshCandidate, FreshRest DEF Next
    <2> QED
      BY <2>1, <2>2, <2>3
  <1>3. IInv /\ FreshInv /\ [Next]_vars =>
           [\A b \in Bundles :
               pc[b] = "smoke" /\ pc'[b] = "sending"
                  => start[b] >= chainNonce]_vars
    BY DEF FreshInv
  <1> QED
    BY <1>1, <1>2, <1>3, PTL DEF Spec, SentNonceIsFresh
=============================================================================
