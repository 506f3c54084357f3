------------------------- MODULE RiskEngineProofs -------------------------
(***************************************************************************)
(* The safety invariants of RiskEngine, for every number of tasks and       *)
(* patches, every limit, and every failure of the database.                 *)
(***************************************************************************)
EXTENDS RiskEngine, FiniteSetTheorems, TLAPS

(* The types *)

LEMMA InitTypeOK == Init => TypeOK
  <1> SUFFICES ASSUME Init
               PROVE  TypeOK
    OBVIOUS
  <1>1. read \in [Actors -> [flag : BOOLEAN, cum : Int]]
    <2>1. NothingRead \in [flag : BOOLEAN, cum : Int]
      BY DEF NothingRead
    <2> QED
      BY <2>1 DEF Init
  <1>2. pc \in [Actors -> TaskSteps \cup ResetSteps]
    BY DEF Init, TaskSteps, ResetSteps
  <1>3. /\ patchPc \in [Patches -> PatchSteps]
        /\ draft \in [Patches -> [limits : SUBSET Patches,
                                   toggles : SUBSET Patches]]
    BY DEF Init, PatchSteps, NoDraft
  <1>4. seen \in [Tasks -> SUBSET Patches]
    BY DEF Init
  <1>5. /\ risk \subseteq Patches /\ toggles \subseteq Patches
        /\ gate \in Tasks \cup Patches \cup {Nobody}
        /\ phase \in {"down", "run"}
    BY DEF Init
  <1>6. dbTripped \in BOOLEAN /\ tripped \in BOOLEAN /\ excused \in BOOLEAN
    BY Zenon DEF Init
  <1>7. dbCum \in Int /\ cum \in Int /\ inflight \in Nat
    BY DEF Init
  <1> QED
    BY <1>1, <1>2, <1>3, <1>4, <1>5, <1>6, <1>7 DEF TypeOK

LEMMA TaskTypeOK ==
    ASSUME TypeOK, NEW t \in Tasks, Task(t)
    PROVE  TypeOK'
  <1> USE DEF TypeOK, Actors, TaskSteps, ResetSteps, Simulating, Persisting,
              InLane, Goto, dbVars, switch, envelope, patchVars
  <1>1. CASE CheckLimits(t)
    BY <1>1 DEF CheckLimits
  <1>2. CASE CheckRest(t)
    BY <1>2 DEF CheckRest
  <1>3. CASE Begin(t)
    BY <1>3 DEF Begin, Begun
  <1>4. CASE SimulationEnds(t)
    BY <1>4, SMTT(30) DEF SimulationEnds, End
  <1>5. CASE Observe(t)
    BY <1>5, ConstantsAssumption DEF Observe, ConstantsAssumption, Breached
  <1>6. CASE Submit(t)
    BY <1>6 DEF Submit
  <1>7. CASE EnterLane(t)
    BY <1>7 DEF EnterLane
  <1>8. CASE BeginExact(t)
    BY <1>8 DEF BeginExact, Begun
  <1>9. CASE ExactEnds(t)
    <2>1. inflight' \in Nat
      BY <1>9 DEF ExactEnds, End
    <2>2. gate' \in Tasks \cup Patches \cup {Nobody}
      BY <1>9 DEF ExactEnds
    <2>3. pc' \in [Actors -> TaskSteps \cup ResetSteps]
      BY <1>9 DEF ExactEnds
    <2> QED
      BY <1>9, <2>1, <2>2, <2>3 DEF ExactEnds
  <1>10. CASE RecheckRest(t)
    BY <1>10 DEF RecheckRest
  <1> QED
    BY <1>1, <1>2, <1>3, <1>4, <1>5, <1>6, <1>7, <1>8, <1>9, <1>10 DEF Task

LEMMA SwitchTypeOK ==
    ASSUME TypeOK, (\E x \in Actors : Persist(x)) \/ ResetFlag \/ ResetTotal
    PROVE  TypeOK'
  <1> USE DEF TypeOK, Actors, TaskSteps, ResetSteps, Persisting, Goto, dbVars,
              switch, envelope, patchVars
  <1>1. ASSUME NEW x \in Actors, PersistFlag(x)
        PROVE  TypeOK'
    BY <1>1 DEF PersistFlag
  <1>2. ASSUME NEW x \in Actors, PersistCum(x)
        PROVE  TypeOK'
    BY <1>2 DEF PersistCum
  <1>3. ASSUME NEW x \in Actors, PersistWrite(x)
        PROVE  TypeOK'
    <2>1. read[x].flag \in BOOLEAN /\ read[x].cum \in Int
      OBVIOUS
    <2>2. dbTripped' \in BOOLEAN
      BY <1>3, <2>1 DEF PersistWrite, WriteRow
    <2>3. dbCum' \in Int
      BY <1>3, <2>1 DEF PersistWrite, WriteRow
    <2>4. NothingRead \in [flag : BOOLEAN, cum : Int]
      BY DEF NothingRead
    <2>5. read' \in [Actors -> [flag : BOOLEAN, cum : Int]]
      BY <1>3, <2>4 DEF PersistWrite
    <2>6. pc' \in [Actors -> TaskSteps \cup ResetSteps]
      BY <1>3 DEF PersistWrite
    <2>7. excused' \in BOOLEAN
      BY <1>3 DEF PersistWrite
    <2> QED
      BY <1>3, <2>2, <2>3, <2>5, <2>6, <2>7 DEF PersistWrite
  <1>4. CASE ResetFlag
    BY <1>4 DEF ResetFlag, PersistPending
  <1>5. CASE ResetTotal
    BY <1>5 DEF ResetTotal
  <1> QED
    BY <1>1, <1>2, <1>3, <1>4, <1>5 DEF Persist

LEMMA PatchTypeOK ==
    ASSUME TypeOK, NEW p \in Patches, Patch(p)
    PROVE  TypeOK'
  <1> USE DEF TypeOK, PatchSteps, dbVars, switch, envelope
  <1>1. CASE ClonePatch(p)
    BY <1>1 DEF ClonePatch, TakeGate
  <1>2. CASE RejectPatch(p)
    BY <1>2 DEF RejectPatch
  <1>3. CASE WriteLimits(p)
    BY <1>3 DEF WriteLimits
  <1>4. CASE WriteToggles(p)
    BY <1>4 DEF WriteToggles
  <1>5. CASE FinishPatch(p)
    BY <1>5 DEF FinishPatch, NoDraft
  <1> QED
    BY <1>1, <1>2, <1>3, <1>4, <1>5 DEF Patch

LEMMA ProcessTypeOK ==
    ASSUME TypeOK, Crash \/ Boot
    PROVE  TypeOK'
  <1> USE DEF TypeOK, Actors, TaskSteps, ResetSteps, PatchSteps, dbVars,
              envelope, patchVars
  <1>1. CASE Crash
    <2>1. read' \in [Actors -> [flag : BOOLEAN, cum : Int]]
      <3>1. NothingRead \in [flag : BOOLEAN, cum : Int]
        BY DEF NothingRead
      <3> QED
        BY <1>1, <3>1 DEF Crash
    <2>2. pc' \in [Actors -> TaskSteps \cup ResetSteps]
      BY <1>1 DEF Crash
    <2>3. /\ patchPc' \in [Patches -> PatchSteps]
          /\ draft' \in [Patches -> [limits : SUBSET Patches,
                                      toggles : SUBSET Patches]]
      BY <1>1 DEF Crash, NoDraft
    <2>4. seen' \in [Tasks -> SUBSET Patches]
      BY <1>1 DEF Crash
    <2>5. /\ risk' \subseteq Patches /\ toggles' \subseteq Patches
          /\ gate' \in Tasks \cup Patches \cup {Nobody}
          /\ phase' \in {"down", "run"}
      BY <1>1 DEF Crash
    <2>6. dbTripped' = dbTripped /\ tripped' = FALSE /\ excused' = excused
      BY <1>1 DEF Crash
    <2>7. dbTripped' \in BOOLEAN /\ tripped' \in BOOLEAN /\ excused' \in BOOLEAN
      BY <2>6, Zenon
    <2>8. dbCum' \in Int /\ cum' \in Int /\ inflight' \in Nat
      BY <1>1 DEF Crash
    <2> QED
      BY <2>1, <2>2, <2>3, <2>4, <2>5, <2>7, <2>8
  <1>2. CASE Boot
    <2>1. tripped' \in BOOLEAN /\ cum' \in Int /\ excused' \in BOOLEAN
      <3>1. CASE tripped' = dbTripped /\ cum' = dbCum /\ excused' = FALSE
        BY <3>1
      <3>2. CASE tripped' = TRUE /\ cum' = 0 /\ excused' = TRUE
        BY <3>2
      <3> QED
        BY <1>2, <3>1, <3>2 DEF Boot
    <2> QED
      BY <1>2, <2>1 DEF Boot
  <1> QED
    BY <1>1, <1>2

LEMMA NextTypeOK == TypeOK /\ [Next]_vars => TypeOK'
  <1> SUFFICES ASSUME TypeOK, [Next]_vars
               PROVE  TypeOK'
    OBVIOUS
  <1>1. CASE UNCHANGED vars
    BY <1>1 DEF vars, TypeOK
  <1>2. CASE Next
    BY <1>2, TaskTypeOK, SwitchTypeOK, PatchTypeOK, ProcessTypeOK DEF Next
  <1> QED
    BY <1>1, <1>2

(* Every variable keeps its type, whatever fails. *)
THEOREM TypeCorrect == Spec => []TypeOK
  <1> QED
    BY InitTypeOK, NextTypeOK, PTL DEF Spec

-----------------------------------------------------------------------------
(* The gate and who runs *)

LEMMA GateStep ==
    ASSUME TypeOK, DownInv, GateInv, [Next]_vars
    PROVE  DownInv' /\ GateInv'
  <1> USE ConstantsAssumption
      DEF ConstantsAssumption, TypeOK, DownInv, GateInv, Actors, Running,
          ResetRunning, Applying, InLane, Goto, envelope, switch, dbVars,
          patchVars
  <1>1. CASE UNCHANGED vars
    BY <1>1 DEF vars
  <1>2. ASSUME NEW t \in Tasks, Task(t)
        PROVE  DownInv' /\ GateInv'
    <2>1. CASE CheckLimits(t)
      BY <2>1 DEF CheckLimits
    <2>2. CASE CheckRest(t)
      BY <2>2 DEF CheckRest
    <2>3. CASE Begin(t)
      BY <2>3 DEF Begin
    <2>4. CASE SimulationEnds(t)
      BY <2>4 DEF SimulationEnds
    <2>5. CASE Observe(t)
      BY <2>5 DEF Observe
    <2>6. CASE Submit(t)
      BY <2>6 DEF Submit
    <2>7. CASE EnterLane(t)
      BY <2>7 DEF EnterLane
    <2>8. CASE BeginExact(t)
      BY <2>8 DEF BeginExact
    <2>9. CASE ExactEnds(t)
      BY <2>9 DEF ExactEnds
    <2>10. CASE RecheckRest(t)
      BY <2>10 DEF RecheckRest
    <2> QED
      BY <1>2, <2>1, <2>2, <2>3, <2>4, <2>5, <2>6, <2>7, <2>8, <2>9, <2>10
         DEF Task
  <1>3. ASSUME NEW x \in Actors, Persist(x)
        PROVE  DownInv' /\ GateInv'
    <2>1. CASE PersistFlag(x)
      BY <2>1 DEF PersistFlag
    <2>2. CASE PersistCum(x)
      BY <2>2 DEF PersistCum
    <2>3. CASE PersistWrite(x)
      BY <2>3 DEF PersistWrite
    <2> QED
      BY <1>3, <2>1, <2>2, <2>3 DEF Persist
  <1>4. CASE ResetFlag \/ ResetTotal
    BY <1>4 DEF ResetFlag, ResetTotal
  <1>5. ASSUME NEW p \in Patches, Patch(p)
        PROVE  DownInv' /\ GateInv'
    <2>1. CASE ClonePatch(p)
      BY <2>1 DEF ClonePatch, TakeGate
    <2>2. CASE RejectPatch(p)
      BY <2>2 DEF RejectPatch
    <2>3. CASE WriteLimits(p)
      BY <2>3 DEF WriteLimits
    <2>4. CASE WriteToggles(p)
      BY <2>4 DEF WriteToggles
    <2>5. CASE FinishPatch(p)
      BY <2>5 DEF FinishPatch
    <2> QED
      BY <1>5, <2>1, <2>2, <2>3, <2>4, <2>5 DEF Patch
  <1>6. CASE Crash
    BY <1>6 DEF Crash
  <1>7. CASE Boot
    BY <1>7 DEF Boot
  <1> QED
    BY <1>1, <1>2, <1>3, <1>4, <1>5, <1>6, <1>7 DEF Next

-----------------------------------------------------------------------------
(* The envelope *)

(* A step that leaves the envelope and the patches alone, and gives no task  *)
(* a recheck but with the limits it has just read.                          *)
LEMMA EnvelopeKept ==
    ASSUME EnvelopeInv, UNCHANGED <<risk, toggles, patchPc, draft>>,
           \A t \in Tasks : pc'[t] = "recheck_rest" => seen'[t] = risk
    PROVE  EnvelopeInv'
  BY DEF EnvelopeInv

LEMMA EnvelopeStep ==
    ASSUME TypeOK, GateInv, EnvelopeInv, [Next]_vars
    PROVE  EnvelopeInv'
  <1> USE DEF envelope, patchVars, switch, dbVars, Goto
  <1>1. CASE UNCHANGED vars
    BY <1>1 DEF vars, EnvelopeInv
  <1>2. ASSUME NEW t \in Tasks, Task(t)
        PROVE  EnvelopeInv'
    <2> USE DEF TypeOK, Actors
    <2>1. UNCHANGED <<risk, toggles, patchPc, draft>>
      BY <1>2 DEF Task, CheckLimits, CheckRest, Begin, SimulationEnds, Observe,
                  Submit, EnterLane, BeginExact, ExactEnds, RecheckRest
    <2>2. \A u \in Tasks : pc'[u] = "recheck_rest" => seen'[u] = risk
      <3> SUFFICES ASSUME NEW u \in Tasks, pc'[u] = "recheck_rest"
                   PROVE  seen'[u] = risk
        OBVIOUS
      <3> USE DEF EnvelopeInv
      <3>1. CASE CheckLimits(t)
        BY <3>1 DEF CheckLimits
      <3>2. CASE CheckRest(t)
        BY <3>2 DEF CheckRest
      <3>3. CASE RecheckRest(t)
        BY <3>3 DEF RecheckRest
      <3>4. CASE Begin(t) \/ SimulationEnds(t) \/ Submit(t)
        BY <3>4 DEF Begin, SimulationEnds, Submit
      <3>5. CASE Observe(t)
        BY <3>5 DEF Observe
      <3>6. CASE EnterLane(t) \/ BeginExact(t) \/ ExactEnds(t)
        BY <3>6 DEF EnterLane, BeginExact, ExactEnds
      <3> QED
        BY <1>2, <3>1, <3>2, <3>3, <3>4, <3>5, <3>6 DEF Task
    <2> QED
      BY <2>1, <2>2, EnvelopeKept
  <1>3. CASE (\E x \in Actors : Persist(x)) \/ ResetFlag \/ ResetTotal
    <2> USE DEF TypeOK, Actors
    <2>1. UNCHANGED <<risk, toggles, patchPc, draft, seen>>
      BY <1>3 DEF Persist, PersistFlag, PersistCum, PersistWrite, ResetFlag,
                  ResetTotal
    <2>2. \A t \in Tasks : pc'[t] = "recheck_rest" => pc[t] = "recheck_rest"
      BY <1>3 DEF Persist, PersistFlag, PersistCum, PersistWrite, ResetFlag,
                  ResetTotal
    <2> QED
      BY <2>1, <2>2, EnvelopeKept DEF EnvelopeInv
  <1>4. ASSUME NEW p \in Patches, Patch(p)
        PROVE  EnvelopeInv'
    (* The holder of the gate is p, or nobody is: no other patch is between  *)
    (* clone and finish, and no task rechecks.                              *)
    <2> USE ConstantsAssumption DEF ConstantsAssumption, TypeOK, Actors
    <2>1. UNCHANGED <<pc, seen>>
      BY <1>4 DEF Patch, ClonePatch, RejectPatch, WriteLimits, WriteToggles,
                  FinishPatch
    <2>2. \A t \in Tasks : pc[t] # "recheck_rest"
      BY <1>4 DEF GateInv, Applying, InLane, Patch, ClonePatch, TakeGate,
                  RejectPatch, WriteLimits, WriteToggles, FinishPatch
    <2>3. \A q \in Patches : q # p => ~Applying(q)
      BY <1>4 DEF GateInv, Applying, Patch, ClonePatch, TakeGate,
                  RejectPatch, WriteLimits, WriteToggles, FinishPatch
    <2> USE <2>1, <2>2, <2>3 DEF Applying, EnvelopeInv
    <2>4. CASE ClonePatch(p)
      BY <2>4 DEF ClonePatch
    <2>5. CASE RejectPatch(p)
      BY <2>5 DEF RejectPatch
    <2>6. CASE WriteLimits(p)
      <3>1. /\ patchPc[p] = "cloned" /\ patchPc'[p] = "written"
            /\ risk' = draft[p].limits
            /\ toggles' = toggles /\ draft' = draft
            /\ \A q \in Patches : q # p => patchPc'[q] = patchPc[q]
        BY <2>6 DEF WriteLimits
      <3>2. risk = toggles
        BY <3>1
      <3>3. draft[p] = [limits |-> risk \cup {p}, toggles |-> toggles \cup {p}]
        BY <3>1
      <3>4. risk' = toggles' \cup {p} /\ draft'[p].toggles = risk'
        BY <3>1, <3>2, <3>3
      <3>5. \A q \in Patches : patchPc'[q] \in {"applied", "done"}
                                 => q \in risk' \cap toggles'
        BY <3>1, <3>2, <3>4
      <3> QED
        BY <3>1, <3>4, <3>5
    <2>7. CASE WriteToggles(p)
      BY <2>7 DEF WriteToggles
    <2>8. CASE FinishPatch(p)
      BY <2>8 DEF FinishPatch
    <2> QED
      BY <1>4, <2>4, <2>5, <2>6, <2>7, <2>8 DEF Patch
  <1>5. CASE Crash
    BY <1>5 DEF Crash, EnvelopeInv, Actors
  <1>6. CASE Boot
    BY <1>6 DEF Boot, EnvelopeInv
  <1> QED
    BY <1>1, <1>2, <1>3, <1>4, <1>5, <1>6 DEF Next

-----------------------------------------------------------------------------
(* The durable switch *)

LEMMA RowStep ==
    ASSUME TypeOK, DownInv, RowInv, [Next]_vars
    PROVE  RowInv'
  <1> USE DEF envelope, patchVars, switch, dbVars, Goto, TypeOK, Actors, RowInv,
              ResetRunning, PersistPending, Persisting, HasRead
  <1> USE ConstantsAssumption DEF ConstantsAssumption
  <1>1. CASE UNCHANGED vars
    BY <1>1 DEF vars
  <1>2. ASSUME NEW t \in Tasks, Task(t)
        PROVE  RowInv'
    <2>1. CASE Observe(t)
      BY <2>1 DEF Observe
    <2>2. CASE CheckLimits(t) \/ CheckRest(t)
      BY <2>2 DEF CheckLimits, CheckRest
    <2>3. CASE Begin(t) \/ SimulationEnds(t)
      BY <2>3 DEF Begin, SimulationEnds
    <2>4. CASE Submit(t) \/ EnterLane(t)
      BY <2>4 DEF Submit, EnterLane
    <2>5. CASE BeginExact(t) \/ ExactEnds(t) \/ RecheckRest(t)
      BY <2>5 DEF BeginExact, ExactEnds, RecheckRest
    <2> QED
      BY <1>2, <2>1, <2>2, <2>3, <2>4, <2>5 DEF Task
  <1>3. ASSUME NEW x \in Actors, PersistFlag(x)
        PROVE  RowInv'
    BY <1>3 DEF PersistFlag
  <1>4. ASSUME NEW x \in Actors, PersistCum(x)
        PROVE  RowInv'
    BY <1>4 DEF PersistCum
  <1>5. ASSUME NEW x \in Actors, PersistWrite(x)
        PROVE  RowInv'
    BY <1>5 DEF PersistWrite, WriteRow
  <1>6. CASE ResetFlag
    BY <1>6 DEF ResetFlag
  <1>7. CASE ResetTotal
    BY <1>7 DEF ResetTotal
  <1>8. ASSUME NEW p \in Patches, Patch(p)
        PROVE  RowInv'
    BY <1>8 DEF Patch, ClonePatch, RejectPatch, WriteLimits, WriteToggles,
                FinishPatch
  <1>9. CASE Crash
    BY <1>9 DEF Crash
  <1>10. CASE Boot
    BY <1>10 DEF Boot, DownInv, Running
  <1> QED
    BY <1>1, <1>2, <1>3, <1>4, <1>5, <1>6, <1>7, <1>8, <1>9, <1>10
       DEF Next, Persist

-----------------------------------------------------------------------------
(* The in-flight count *)

RunningSimulations == {t \in Tasks : pc[t] \in Simulating}

LEMMA RunningSimulationsFinite ==
    /\ IsFiniteSet(RunningSimulations)
    /\ Cardinality(RunningSimulations) \in Nat
  BY ConstantsAssumption, FS_Subset, FS_CardinalityType
     DEF ConstantsAssumption, RunningSimulations

LEMMA BalanceStep ==
    ASSUME TypeOK, DownInv, InflightIsBalanced, [Next]_vars
    PROVE  InflightIsBalanced'
  <1> DEFINE S == RunningSimulations
  <1> SUFFICES inflight' = Cardinality(S')
    BY DEF InflightIsBalanced, RunningSimulations
  <1> USE DEF envelope, patchVars, switch, dbVars, Goto, TypeOK, Actors,
              Simulating
  <1>0. /\ inflight = Cardinality(S) /\ IsFiniteSet(S)
        /\ Cardinality(S) \in Nat
    BY RunningSimulationsFinite DEF InflightIsBalanced, RunningSimulations
  <1>1. CASE UNCHANGED <<inflight, S>>
    BY <1>0, <1>1
  <1>2. ASSUME NEW t \in Tasks, Begin(t) \/ BeginExact(t)
        PROVE  inflight' = Cardinality(S')
    <2>1. t \notin S /\ S' = S \cup {t} /\ inflight' = inflight + 1
      BY <1>2 DEF Begin, BeginExact, Begun, RunningSimulations
    <2> QED
      BY <1>0, <2>1, FS_AddElement
  <1>3. ASSUME NEW t \in Tasks, SimulationEnds(t) \/ ExactEnds(t)
        PROVE  inflight' = Cardinality(S')
    <2>1. t \in S /\ S' = S \ {t} /\ inflight' = End
      BY <1>3 DEF SimulationEnds, ExactEnds, RunningSimulations
    <2>2. Cardinality(S') = Cardinality(S) - 1 /\ Cardinality(S') \in Nat
      BY <1>0, <2>1, FS_RemoveElement, FS_CardinalityType
    <2> QED
      BY <1>0, <2>1, <2>2 DEF End
  <1>4. CASE Crash
    <2>1. S' = {} /\ inflight' = 0
      BY <1>4, ConstantsAssumption
         DEF Crash, RunningSimulations, ConstantsAssumption
    <2> QED
      BY <2>1, FS_EmptySet
  <1>5. CASE UNCHANGED vars
    BY <1>1, <1>5 DEF vars, RunningSimulations
  <1>6. ASSUME NEW t \in Tasks, Task(t)
        PROVE  inflight' = Cardinality(S')
    <2>1. CASE CheckLimits(t) \/ CheckRest(t) \/ Observe(t)
      BY <1>1, <2>1 DEF CheckLimits, CheckRest, Observe, RunningSimulations
    <2>2. CASE Submit(t) \/ EnterLane(t) \/ RecheckRest(t)
      BY <1>1, <2>2 DEF Submit, EnterLane, RecheckRest, RunningSimulations
    <2> QED
      BY <1>2, <1>3, <1>6, <2>1, <2>2 DEF Task
  <1>7. CASE (\E x \in Actors : Persist(x)) \/ ResetFlag \/ ResetTotal
    BY <1>1, <1>7, ConstantsAssumption
       DEF Persist, PersistFlag, PersistCum, PersistWrite, ResetFlag,
           ResetTotal, RunningSimulations, ConstantsAssumption
  <1>8. CASE Boot \/ \E p \in Patches : Patch(p)
    BY <1>1, <1>8
       DEF Boot, Patch, ClonePatch, RejectPatch, WriteLimits, WriteToggles,
           FinishPatch, RunningSimulations
  <1> QED
    BY <1>4, <1>5, <1>6, <1>7, <1>8 DEF Next

-----------------------------------------------------------------------------
(* The inductive invariant *)

LEMMA InitIInv == Init => IInv
  <1> SUFFICES ASSUME Init
               PROVE  IInv
    OBVIOUS
  <1>1. TypeOK
    BY InitTypeOK
  <1>2. DownInv /\ GateInv
    BY ConstantsAssumption
       DEF Init, DownInv, GateInv, Running, ResetRunning, Applying, InLane,
           Actors, ConstantsAssumption
  <1>3. EnvelopeInv /\ RowInv
    BY DEF Init, EnvelopeInv, RowInv, Actors
  <1>4. InflightIsBalanced
    <2>1. {t \in Tasks : pc[t] \in Simulating} = {}
      BY DEF Init, Simulating, Actors
    <2> QED
      BY <2>1, FS_EmptySet DEF Init, InflightIsBalanced
  <1> QED
    BY <1>1, <1>2, <1>3, <1>4 DEF IInv

LEMMA NextIInv == IInv /\ [Next]_vars => IInv'
  BY NextTypeOK, GateStep, EnvelopeStep, RowStep, BalanceStep DEF IInv

THEOREM Invariance == Spec => []IInv
  <1> QED
    BY InitIInv, NextIInv, PTL DEF Spec

(* However many simulations run, fail or are repeated in the lane, the      *)
(* in-flight counter is the number of those that run.                       *)
THEOREM CounterIsBalanced == Spec => []InflightIsBalanced
  <1>1. IInv => InflightIsBalanced
    BY DEF IInv
  <1> QED
    BY <1>1, Invariance, PTL

(* No patch answered with success is undone by another one.                 *)
THEOREM PatchesStay == Spec => []PatchesAreNotLost
  <1>1. IInv => PatchesAreNotLost
    BY DEF IInv, EnvelopeInv, PatchesAreNotLost
  <1> QED
    BY <1>1, Invariance, PTL

(* The recheck before a send sees the limits and the toggles of one          *)
(* envelope: the task holds the gate, so no patch is half written.          *)
THEOREM RecheckSeesOneEnvelope == Spec => []RecheckIsUnmixed
  <1>1. IInv => RecheckIsUnmixed
    <2> SUFFICES ASSUME IInv, NEW t \in Tasks, pc[t] = "recheck_rest"
                 PROVE  seen[t] = risk /\ risk = toggles
      BY DEF RecheckIsUnmixed
    <2>1. gate = t
      BY DEF IInv, GateInv, InLane
    <2>2. \A p \in Patches : patchPc[p] # "written"
      BY <2>1, ConstantsAssumption
         DEF IInv, GateInv, Applying, ConstantsAssumption
    <2> QED
      BY <2>2 DEF IInv, EnvelopeInv
  <1> QED
    BY <1>1, Invariance, PTL

(* Only overlapping writers or a failing database part the durable switch   *)
(* from the one in memory.                                                  *)
THEOREM RowFollowsSwitch == Spec => []RowMatchesSwitch
  <1>1. IInv => RowMatchesSwitch
    BY DEF IInv, RowInv, RowMatchesSwitch
  <1> QED
    BY <1>1, Invariance, PTL
=============================================================================
