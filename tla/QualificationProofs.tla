------------------------ MODULE QualificationProofs ------------------------
(***************************************************************************)
(* No verdict passes over a loss that was known when its evaluation began,  *)
(* for every size of queue and batch and every set of thresholds, as long   *)
(* as the incidents can be read.                                            *)
(***************************************************************************)
EXTENDS Qualification, SequenceTheorems, TLAPS

(* The queue keeps its type and its bound, whatever row is sent. *)
LEMMA SendType ==
    ASSUME TypeOK, Send(AnyRow)
    PROVE  /\ queue' \in Seq({AnyRow}) /\ Len(queue') <= Capacity
           /\ dropped' \in BOOLEAN /\ incident' \in BOOLEAN
           /\ lost' \subseteq {AnyRow}
<1>1. CASE Enqueue(AnyRow)
  BY <1>1, StoreAssumption DEF TypeOK, Enqueue, Fits
<1>2. CASE Drop(AnyRow)
  BY <1>2 DEF TypeOK, Drop
<1>3. QED
  BY <1>1, <1>2 DEF Send

(* A batch is the front of the queue, the rest of it stays. *)
LEMMA TakeType ==
    ASSUME TypeOK, TakeBatch
    PROVE  /\ queue' \in Seq({AnyRow}) /\ Len(queue') <= Capacity
           /\ batch' \in Seq({AnyRow}) /\ Len(batch') <= BatchMax
<1> DEFINE n == IF Len(queue) < BatchMax THEN Len(queue) ELSE BatchMax
<1>1. queue \in Seq({AnyRow}) /\ Len(queue) \in Nat /\ Len(queue) <= Capacity
  BY DEF TypeOK
<1>2. n \in 0 .. Len(queue) /\ n <= BatchMax
  BY <1>1, StoreAssumption
<1>3. batch' = SubSeq(queue, 1, n) /\ queue' = SubSeq(queue, n + 1, Len(queue))
  BY DEF TakeBatch
<1> HIDE DEF n
<1>4. SubSeq(queue, 1, n) \in Seq({AnyRow}) /\ Len(SubSeq(queue, 1, n)) = n
  BY <1>1, <1>2
<1>5. /\ SubSeq(queue, n + 1, Len(queue)) \in Seq({AnyRow})
      /\ Len(SubSeq(queue, n + 1, Len(queue))) = Len(queue) - n
  BY <1>1, <1>2
<1>6. QED
  BY <1>1, <1>2, <1>3, <1>4, <1>5, StoreAssumption

LEMMA NoRows == /\ <<>> \in Seq({AnyRow})
                /\ Len(<<>>) <= Capacity /\ Len(<<>>) <= BatchMax
<1> QED
  BY StoreAssumption

(* What the process holds besides the store keeps its type in every step.   *)
LEMMA GateType ==
    ASSUME TypeOK, [Next]_vars
    PROVE  /\ hours' \in Hours
           /\ refreshedAt' \in {"zero", "old", "new"} /\ refreshing' \in BOOLEAN
           /\ request' \in {"idle", "stored"}
           /\ refresh' \in {"idle", "due", "won"}
           /\ eval' \in EvalSteps
           /\ verdict' \in Status /\ next' \in Status
<1> USE DEF TypeOK, EvalSteps, Status
<1>1. CASE Produce \/ Write \/ UNCHANGED vars
  BY <1>1 DEF Produce, Write, gateVars, vars
<1>2. CASE Minute
  BY <1>2 DEF Minute
<1>3. CASE \E h \in Hours : StoreHours(h)
  BY <1>3 DEF StoreHours
<1>4. CASE ForceRefresh \/ CheckDue \/ SwapFlag
  BY <1>4 DEF ForceRefresh, CheckDue, SwapFlag
<1>5. CASE Stamp
  BY <1>5 DEF Stamp
<1>6. CASE ReadHours
  BY <1>6 DEF ReadHours
<1>7. CASE ReadIncidents
  BY <1>7 DEF ReadIncidents
<1>8. CASE ReadCounters
  BY <1>8 DEF ReadCounters, StillClean
<1>9. CASE Publish
  BY <1>9 DEF Publish
<1>10. CASE ClearFlag
  BY <1>10 DEF ClearFlag
<1>11. CASE Restart
  <2>1. PICK found \in {incidents} \cup (IF "read" \in Faults THEN {FALSE} ELSE {}) :
            verdict' \in BootVerdict(found)
    BY <1>11 DEF Restart, Boot
  <2>2. PICK ok \in BOOLEAN :
            verdict' = [pass |-> ok, hours |-> BootHours, clean |-> ~found,
                        known |-> incidents]
    BY <2>1 DEF BootVerdict
  <2>3. verdict' \in Status
    BY <2>2, HoursAssumption
  <2>4. QED
    BY <1>11, <2>3, HoursAssumption DEF Restart, Boot
<1>12. QED
  BY <1>1, <1>2, <1>3, <1>4, <1>5, <1>6, <1>7, <1>8, <1>9, <1>10, <1>11
  DEF Next, Evaluate

(* So does the store. *)
LEMMA StoreType ==
    ASSUME TypeOK, [Next]_vars
    PROVE  /\ table' \subseteq {AnyRow} /\ lost' \subseteq {AnyRow}
           /\ queue' \in Seq({AnyRow}) /\ batch' \in Seq({AnyRow})
           /\ Len(queue') <= Capacity /\ Len(batch') <= BatchMax
           /\ incidents' \in BOOLEAN /\ dropped' \in BOOLEAN
           /\ incident' \in BOOLEAN
           /\ writer' \in {"idle", "loaded", "noting"}
<1>1. CASE Produce
  BY <1>1, SendType DEF Produce, Send, TypeOK
<1>2. CASE TakeBatch
  BY <1>2, TakeType DEF TakeBatch, TypeOK
<1>3. CASE Commit
  <2>1. PICK written \in SUBSET ToSet(batch) :
            table' = table \cup written /\ lost' = lost \cup (ToSet(batch) \ written)
    BY <1>3 DEF Commit
  <2>2. ToSet(batch) \subseteq {AnyRow}
    BY DEF ToSet, TypeOK
  <2>3. QED
    BY <1>3, <2>1, <2>2 DEF Commit, TypeOK
<1>4. CASE NoteIncident
  <2>1. batch' = <<>> /\ writer' = "idle"
    BY <1>4 DEF NoteIncident
  <2>2. incident' \in BOOLEAN /\ incidents' \in BOOLEAN
    BY <1>4 DEF NoteIncident, IncidentFails, TypeOK
  <2>3. UNCHANGED <<table, queue, dropped, lost>>
    BY <1>4 DEF NoteIncident
  <2>4. QED
    BY <2>1, <2>2, <2>3, NoRows DEF TypeOK
<1>5. CASE UNCHANGED storeVars
  BY <1>5 DEF storeVars, TypeOK
<1>6. CASE Restart
  <2>1. ToSet(queue) \subseteq {AnyRow} /\ ToSet(batch) \subseteq {AnyRow}
    BY DEF ToSet, TypeOK
  <2>2. /\ queue' = <<>> /\ batch' = <<>> /\ writer' = "idle"
        /\ dropped' = FALSE /\ incident' = FALSE
        /\ lost' = lost \cup ToSet(queue) \cup (ToSet(batch) \ table)
        /\ UNCHANGED <<table, incidents>>
    BY <1>6 DEF Restart, StoreCrash
  <2>3. QED
    BY <2>1, <2>2, NoRows DEF TypeOK
<1>7. UNCHANGED vars => UNCHANGED storeVars
  BY DEF vars
<1>8. \/ Minute \/ (\E h \in Hours : StoreHours(h)) \/ ForceRefresh \/ CheckDue
      \/ SwapFlag \/ Stamp \/ Evaluate
      => UNCHANGED storeVars
  BY DEF Minute, StoreHours, ForceRefresh, CheckDue, SwapFlag, Stamp, Evaluate,
         ReadHours, ReadIncidents, ReadCounters, Publish, ClearFlag
<1>9. QED
  BY <1>1, <1>2, <1>3, <1>4, <1>5, <1>6, <1>7, <1>8 DEF Next, Write, Writer

LEMMA TypeStep == TypeOK /\ [Next]_vars => TypeOK'
<1> SUFFICES ASSUME TypeOK, [Next]_vars PROVE TypeOK'
  OBVIOUS
<1> QED
  BY GateType, StoreType DEF TypeOK, EvalSteps, Status

LEMMA TypeInit == Init => TypeOK
<1> SUFFICES ASSUME Init PROVE TypeOK
  OBVIOUS
<1>1. incidents \in BOOLEAN /\ incidents = FALSE
  BY DEF Init, StoreInit
<1>2. PICK ok \in BOOLEAN :
         verdict = [pass |-> ok, hours |-> BootHours, clean |-> TRUE,
                    known |-> incidents]
  BY DEF Init, BootVerdict
<1>3. verdict \in Status /\ next = verdict
  BY <1>1, <1>2, HoursAssumption DEF Init, Status
<1>4. /\ queue = <<>> /\ batch = <<>>
      /\ queue \in Seq({AnyRow}) /\ batch \in Seq({AnyRow})
      /\ Len(queue) <= Capacity /\ Len(batch) <= BatchMax
  BY StoreAssumption DEF Init, StoreInit
<1>5. /\ table \subseteq {AnyRow} /\ lost \subseteq {AnyRow}
      /\ dropped \in BOOLEAN /\ incident \in BOOLEAN
      /\ writer \in {"idle", "loaded", "noting"}
  BY DEF Init, StoreInit
<1>6. /\ hours \in Hours
      /\ refreshedAt \in {"zero", "old", "new"} /\ refreshing \in BOOLEAN
      /\ request \in {"idle", "stored"} /\ refresh \in {"idle", "due", "won"}
      /\ eval \in EvalSteps
  BY HoursAssumption DEF Init, EvalSteps
<1>7. QED
  BY <1>1, <1>3, <1>4, <1>5, <1>6 DEF TypeOK

(* Every variable keeps its type, the queue and the batch their bounds: full *)
(* queues, failing writes and restarts included.                            *)
THEOREM TypeCorrect == Spec => []TypeOK
<1> QED
  BY TypeInit, TypeStep, PTL DEF Spec

-----------------------------------------------------------------------------
(* The verdict and what is known *)

(* A loss that is known stays known: the counter and the incidents only grow *)
(* within a process.                                                        *)
LEMMA LossStaysKnown ==
    ASSUME TypeOK, [Next]_vars, ~Restart
    PROVE  (dropped => dropped') /\ (incidents => incidents')
<1>1. CASE Produce
  BY <1>1 DEF Produce, Send, Enqueue, Drop
<1>2. CASE Write
  <2>1. dropped' = dropped
    BY <1>2 DEF Write, Writer, TakeBatch, Commit, NoteIncident
  <2>2. incidents' = incidents \/ incidents' = TRUE
    BY <1>2 DEF Write, Writer, TakeBatch, Commit, NoteIncident, IncidentFails
  <2>3. QED
    BY <2>1, <2>2
<1>3. CASE UNCHANGED vars
  BY <1>3 DEF vars, storeVars
<1>4. CASE \/ Minute \/ (\E h \in Hours : StoreHours(h)) \/ ForceRefresh
           \/ CheckDue \/ SwapFlag \/ Stamp \/ Evaluate
  <2>1. UNCHANGED storeVars
    BY <1>4 DEF Minute, StoreHours, ForceRefresh, CheckDue, SwapFlag, Stamp,
           Evaluate, ReadHours, ReadIncidents, ReadCounters, Publish, ClearFlag
  <2>2. QED
    BY <2>1 DEF storeVars
<1>5. QED
  BY <1>1, <1>2, <1>3, <1>4 DEF Next

LEMMA InformedInit == Init => InformedInv /\ PassIsInformed
<1> SUFFICES ASSUME Init PROVE InformedInv /\ PassIsInformed
  OBVIOUS
<1>1. incidents = FALSE /\ eval = "off"
  BY DEF Init, StoreInit
<1>2. verdict.known = FALSE
  BY <1>1 DEF Init, BootVerdict
<1>3. QED
  BY <1>1, <1>2 DEF InformedInv, PassIsInformed

LEMMA InformedStep ==
    ASSUME "read" \notin Faults, IInv, [Next]_vars
    PROVE  InformedInv' /\ PassIsInformed'
<1> USE DEF IInv, InformedInv, PassIsInformed
<1>1. /\ next \in Status /\ verdict \in Status
      /\ dropped \in BOOLEAN /\ incidents \in BOOLEAN
  BY DEF TypeOK
(* Steps that leave the evaluation alone. *)
<1>2. ASSUME UNCHANGED <<eval, verdict, next>>, ~Restart
      PROVE  InformedInv' /\ PassIsInformed'
  BY <1>1, <1>2, LossStaysKnown
<1>3. CASE Stamp
  <2>1. next'.known = (dropped \/ incidents) /\ eval' = "spawned"
    BY <1>1, <1>3 DEF Stamp, Status
  <2>2. UNCHANGED <<dropped, incidents, verdict>>
    BY <1>3 DEF Stamp, storeVars
  <2>3. QED
    BY <2>1, <2>2
<1>4. CASE ReadHours
  <2>1. next'.known = next.known /\ eval = "spawned" /\ eval' = "hours"
    BY <1>1, <1>4 DEF ReadHours, Status
  <2>2. UNCHANGED <<dropped, incidents, verdict>>
    BY <1>4 DEF ReadHours, storeVars
  <2>3. QED
    BY <2>1, <2>2
<1>5. CASE ReadIncidents
  <2>1. next' = [next EXCEPT !.clean = ~incidents]
    BY <1>5 DEF ReadIncidents
  <2>2. next'.known = next.known /\ next'.clean = ~incidents
    BY <1>1, <2>1 DEF Status
  <2>3. eval = "hours" /\ eval' = "incidents"
    BY <1>5 DEF ReadIncidents
  <2>4. UNCHANGED <<dropped, incidents, verdict>>
    BY <1>5 DEF ReadIncidents, storeVars
  <2>5. QED
    BY <2>2, <2>3, <2>4
<1>6. CASE ReadCounters
  <2>1. /\ next'.known = next.known /\ next'.clean = (next.clean /\ ~dropped)
        /\ eval = "incidents" /\ eval' = "counters"
    BY <1>1, <1>6 DEF ReadCounters, StillClean, Status
  <2>2. UNCHANGED <<dropped, incidents, verdict>>
    BY <1>6 DEF ReadCounters, storeVars
  <2>3. QED
    BY <2>1, <2>2
<1>7. CASE Publish
  <2>1. PICK enough \in BOOLEAN :
            verdict' = [next EXCEPT !.pass = next.clean /\ enough]
    BY <1>7 DEF Publish
  <2>2. verdict'.known = next.known /\ verdict'.pass = (next.clean /\ enough)
    BY <1>1, <2>1 DEF Status
  <2>3. eval = "counters" /\ eval' = "published"
    BY <1>7 DEF Publish
  <2>4. QED
    BY <2>2, <2>3
<1>8. CASE ClearFlag
  BY <1>8 DEF ClearFlag
<1>9. CASE Restart
  <2>1. eval' = "off" /\ verdict' \in BootVerdict(incidents)
    BY <1>9 DEF Restart, Boot
  <2>2. PICK ok \in IF incidents THEN {FALSE} ELSE BOOLEAN :
            verdict' = [pass |-> ok, hours |-> BootHours, clean |-> ~incidents,
                        known |-> incidents]
    BY <2>1 DEF BootVerdict
  <2>3. verdict'.pass = ok /\ verdict'.known = incidents
    BY <2>2
  <2>4. incidents => ok = FALSE
    BY <2>2
  <2>5. QED
    BY <2>1, <2>3, <2>4
<1>10. ASSUME ~Stamp, ~Evaluate, ~Restart
       PROVE  UNCHANGED <<eval, verdict, next>>
  BY <1>10 DEF Next, Produce, Write, Minute, StoreHours, ForceRefresh, CheckDue,
         SwapFlag, gateVars, vars
<1>11. QED
  BY <1>2, <1>3, <1>4, <1>5, <1>6, <1>7, <1>8, <1>9, <1>10 DEF Evaluate

-----------------------------------------------------------------------------
(* The threshold *)

LEMMA ThresholdInit == Init => FlagInv /\ ThresholdInv
<1> SUFFICES ASSUME Init PROVE FlagInv /\ ThresholdInv
  OBVIOUS
<1>1. eval = "off" /\ refresh = "idle" /\ hours = BootHours
  BY DEF Init
<1>2. verdict.hours = BootHours
  BY DEF Init, BootVerdict
<1>3. QED
  BY <1>1, <1>2 DEF FlagInv, ThresholdInv

LEMMA ThresholdStep ==
    ASSUME TypeOK, FlagInv, ThresholdInv, [Next]_vars
    PROVE  FlagInv' /\ ThresholdInv'
<1> USE DEF FlagInv, ThresholdInv
<1>1. next \in Status /\ verdict \in Status /\ refreshing \in BOOLEAN
  BY DEF TypeOK
<1>2. CASE Produce \/ Write \/ UNCHANGED vars
  BY <1>2 DEF Produce, Write, gateVars, vars
<1>3. CASE Minute
  BY <1>3 DEF Minute
<1>4. CASE \E h \in Hours : StoreHours(h)
  BY <1>4 DEF StoreHours
<1>5. CASE ForceRefresh
  BY <1>5 DEF ForceRefresh
<1>6. CASE CheckDue
  BY <1>6 DEF CheckDue
<1>7. CASE SwapFlag
  BY <1>1, <1>7 DEF SwapFlag
<1>8. CASE Stamp
  BY <1>8 DEF Stamp
<1>9. CASE ReadHours
  <2>1. next'.hours = hours
    BY <1>1, <1>9 DEF ReadHours, Status
  <2>2. QED
    BY <1>9, <2>1 DEF ReadHours
<1>10. CASE ReadIncidents
  <2>1. next'.hours = next.hours
    BY <1>1, <1>10 DEF ReadIncidents, Status
  <2>2. QED
    BY <1>10, <2>1 DEF ReadIncidents
<1>11. CASE ReadCounters
  <2>1. next'.hours = next.hours
    BY <1>1, <1>11 DEF ReadCounters, Status
  <2>2. QED
    BY <1>11, <2>1 DEF ReadCounters
<1>12. CASE Publish
  <2>1. verdict'.hours = next.hours
    BY <1>1, <1>12 DEF Publish, Status
  <2>2. QED
    BY <1>12, <2>1 DEF Publish
<1>13. CASE ClearFlag
  BY <1>13 DEF ClearFlag
<1>14. CASE Restart
  <2>1. PICK found : verdict' \in BootVerdict(found)
    BY <1>14 DEF Restart, Boot
  <2>2. PICK ok : verdict' = [pass |-> ok, hours |-> BootHours,
                              clean |-> ~found, known |-> incidents]
    BY <2>1 DEF BootVerdict
  <2>3. verdict'.hours = BootHours
    BY <2>2
  <2>4. QED
    BY <1>14, <2>3 DEF Restart, Boot
<1>15. QED
  BY <1>2, <1>3, <1>4, <1>5, <1>6, <1>7, <1>8, <1>9, <1>10, <1>11, <1>12,
     <1>13, <1>14 DEF Next, Evaluate

(* An operator's new threshold is in the verdict, or a refresh that will     *)
(* put it there is still to come, under all faults.                         *)
THEOREM ThresholdSafety == Spec => []ThresholdIsNotLost
<1> DEFINE Inv == TypeOK /\ FlagInv /\ ThresholdInv
<1>1. Init => Inv
  BY TypeInit, ThresholdInit
<1>2. Inv /\ [Next]_vars => Inv'
  BY TypeStep, ThresholdStep
<1>3. Inv => ThresholdIsNotLost
  BY DEF ThresholdInv, ThresholdIsNotLost
<1>4. QED
  BY <1>1, <1>2, <1>3, PTL DEF Spec

-----------------------------------------------------------------------------
(* The inductive invariant, as long as the incidents can be read. *)
THEOREM Invariance == "read" \notin Faults /\ Spec => []IInv
<1> SUFFICES ASSUME "read" \notin Faults PROVE Spec => []IInv
  OBVIOUS
<1>1. Init => IInv
  BY TypeInit, InformedInit, ThresholdInit DEF IInv
<1>2. IInv /\ [Next]_vars => IInv'
  BY TypeStep, InformedStep, ThresholdStep DEF IInv
<1>3. QED
  BY <1>1, <1>2, PTL DEF Spec

(* A verdict that passes is not one whose evaluation began with a loss on    *)
(* the counter of this process or among the incidents of an earlier one.    *)
THEOREM PassSafety == "read" \notin Faults /\ Spec => []PassIsInformed
<1>1. IInv => PassIsInformed
  BY DEF IInv
<1>2. QED
  BY <1>1, Invariance, PTL
=============================================================================
