----------------------------- MODULE RiskEngine -----------------------------
(***************************************************************************)
(* The risk engine of one ArrowHead process: the drawdown kill switch and   *)
(* its durable row, the in-flight counter of a strategy, and the risk       *)
(* envelope an operator patches at runtime.                                 *)
(*                                                                         *)
(* Every field has a lock of its own and no operation holds two of them for *)
(* its whole length, so operations of concurrent simulation tasks, of POST  *)
(* /api/risk and of POST /api/risk/reset interleave between the locks.      *)
(* What happens to payloads is the business of SubmissionLane.              *)
(***************************************************************************)
EXTENDS Integers, FiniteSets

CONSTANTS
    Tasks,          \* candidates of one strategy, each simulated by one task
    Patches,        \* risk patches; each sets fields of its own
    Nets,           \* possible net results of a simulation
    DrawdownLimit,  \* max_drawdown_wei, 0 when the switch is off
    MaxInflight,    \* max_inflight_per_strategy
    Faults,         \* subset of {"db_read", "db_write"}
    Operator, Nobody

ASSUME ConstantsAssumption ==
    /\ IsFiniteSet(Tasks)
    /\ Nets \subseteq Int
    /\ DrawdownLimit \in Nat
    /\ MaxInflight \in Nat \ {0}
    /\ Faults \subseteq {"db_read", "db_write"}
    /\ Operator \notin Tasks
    /\ Tasks \cap Patches = {}
    /\ Nobody \notin Tasks \cup Patches

VARIABLES
    (* durable: the row of risk_state *)
    dbTripped, dbCum,
    (* memory *)
    phase,          \* "down" or "run"
    tripped,        \* RiskEngine.tripped
    cum,            \* RiskEngine.cumulative_net
    inflight,       \* RiskEngine.inflight of the strategy
    risk, toggles,  \* patches in force in RuntimeRisk.risk and .strategies
    gate,           \* holder of Engine.submission_gate
    pc,             \* of the tasks and of the operator's reset
    seen,           \* the envelope a check has read
    read,           \* what a persist has read
    patchPc, draft, \* of each patch
    (* history *)
    excused         \* writers of the row overlapped, or the database failed

dbVars    == <<dbTripped, dbCum>>
switch    == <<tripped, cum>>
envelope  == <<risk, toggles>>
patchVars == <<patchPc, draft>>
vars == <<dbTripped, dbCum, phase, tripped, cum, inflight, risk, toggles,
          gate, pc, seen, read, patchPc, draft, excused>>

Actors == Tasks \cup {Operator}

Simulating == {"simulating", "resimulating"}

Persisting == {"persist_flag", "persist_cum", "persist_write"}

(* Steps of a task that holds the submission gate. *)
InLane == {"lane", "resimulating", "recheck", "recheck_rest"}

TaskSteps == {"idle", "check_rest", "begin", "ended", "observed", "queued",
              "done"} \cup Simulating \cup Persisting \cup InLane

ResetSteps == {"idle", "zero"} \cup Persisting

PatchSteps == {"idle", "cloned", "written", "applied", "done", "gone"}

TypeOK ==
    /\ dbTripped \in BOOLEAN /\ dbCum \in Int
    /\ phase \in {"down", "run"}
    /\ tripped \in BOOLEAN /\ cum \in Int
    /\ inflight \in Nat
    /\ risk \subseteq Patches /\ toggles \subseteq Patches
    /\ gate \in Tasks \cup Patches \cup {Nobody}
    /\ pc \in [Actors -> TaskSteps \cup ResetSteps]
    /\ seen \in [Tasks -> SUBSET Patches]
    /\ read \in [Actors -> [flag : BOOLEAN, cum : Int]]
    /\ patchPc \in [Patches -> PatchSteps]
    /\ draft \in [Patches -> [limits : SUBSET Patches, toggles : SUBSET Patches]]
    /\ excused \in BOOLEAN

Goto(x, step) == pc' = [pc EXCEPT ![x] = step]

-----------------------------------------------------------------------------
(* Gate: RiskEngine::check, begin, end *)

(* check clones the limits first; the other locks are taken one by one. *)
CheckLimits(t) ==
    /\ phase = "run"
    /\ \/ pc[t] = "idle" /\ Goto(t, "check_rest")
       \/ pc[t] = "recheck" /\ Goto(t, "recheck_rest")
    /\ seen' = [seen EXCEPT ![t] = risk]
    /\ UNCHANGED <<dbVars, phase, switch, inflight, envelope, gate, read,
                   patchVars, excused>>

Admits == ~tripped /\ inflight < MaxInflight

(* Toggles, switch and in-flight count.  The limits and toggles may refuse   *)
(* whatever the switch says.                                                *)
CheckRest(t) ==
    /\ pc[t] = "check_rest"
    /\ \/ Admits /\ Goto(t, "begin")
       \/ Goto(t, "done")
    /\ seen' = [seen EXCEPT ![t] = {}]
    /\ UNCHANGED <<dbVars, phase, switch, inflight, envelope, gate, read,
                   patchVars, excused>>

Begun == inflight + 1

Begin(t) ==
    /\ pc[t] = "begin"
    /\ inflight' = Begun
    /\ Goto(t, "simulating")
    /\ UNCHANGED <<dbVars, phase, switch, envelope, gate, seen, read, patchVars,
                   excused>>

MutantEndKeeps == inflight

(* saturating_sub *)
End == IF inflight = 0 THEN 0 ELSE inflight - 1

(* end is called whether or not the simulation failed. *)
SimulationEnds(t) ==
    /\ pc[t] = "simulating"
    /\ inflight' = End
    /\ Goto(t, "ended") \/ Goto(t, "done")
    /\ UNCHANGED <<dbVars, phase, switch, envelope, gate, seen, read, patchVars,
                   excused>>

-----------------------------------------------------------------------------
(* Kill switch: observe, reset, persist *)

ResetRunning == pc[Operator] # "idle"

PersistPending == \E x \in Actors : pc[x] \in Persisting

Breached(total) == DrawdownLimit # 0 /\ total < -DrawdownLimit

(* The fold and the trip happen under the lock of cumulative_net; only the   *)
(* task that trips the switch persists it, after the lock is released.      *)
Observe(t) ==
    /\ pc[t] = "ended"
    /\ \E net \in Nets :
          /\ cum' = cum + net
          /\ tripped' = (tripped \/ Breached(cum'))
    /\ Goto(t, IF tripped' # tripped THEN "persist_flag" ELSE "observed")
    /\ excused' = (excused \/ (tripped' # tripped /\ ResetRunning))
    /\ UNCHANGED <<dbVars, phase, inflight, envelope, gate, seen, read,
                   patchVars>>

NothingRead == [flag |-> FALSE, cum |-> 0]

(* persist reads the flag, then the total, then writes both. *)
PersistFlag(x) ==
    /\ pc[x] = "persist_flag"
    /\ read' = [read EXCEPT ![x].flag = tripped]
    /\ Goto(x, "persist_cum")
    /\ UNCHANGED <<dbVars, phase, switch, inflight, envelope, gate, seen,
                   patchVars, excused>>

PersistCum(x) ==
    /\ pc[x] = "persist_cum"
    /\ read' = [read EXCEPT ![x].cum = cum]
    /\ Goto(x, "persist_write")
    /\ UNCHANGED <<dbVars, phase, switch, inflight, envelope, gate, seen,
                   patchVars, excused>>

MutantPersistTotalOnly(x) == dbTripped' = dbTripped /\ dbCum' = read[x].cum

WriteRow(x) == dbTripped' = read[x].flag /\ dbCum' = read[x].cum

(* A write that fails is only logged. *)
PersistWrite(x) ==
    /\ pc[x] = "persist_write"
    /\ \/ WriteRow(x) /\ UNCHANGED excused
       \/ "db_write" \in Faults /\ UNCHANGED dbVars /\ excused' = TRUE
    /\ Goto(x, IF x = Operator THEN "idle" ELSE "observed")
    /\ read' = [read EXCEPT ![x] = NothingRead]
    /\ UNCHANGED <<phase, switch, inflight, envelope, gate, seen, patchVars>>

(* POST /api/risk/reset: clear the flag, clear the total, persist. *)
ResetFlag ==
    /\ phase = "run" /\ ~ResetRunning
    /\ tripped' = FALSE
    /\ Goto(Operator, "zero")
    /\ excused' = PersistPending
    /\ UNCHANGED <<dbVars, phase, cum, inflight, envelope, gate, seen, read,
                   patchVars>>

ResetTotal ==
    /\ pc[Operator] = "zero"
    /\ cum' = 0
    /\ Goto(Operator, "persist_flag")
    /\ UNCHANGED <<dbVars, phase, tripped, inflight, envelope, gate, seen, read,
                   patchVars, excused>>

-----------------------------------------------------------------------------
(* The serialized lane: exact re-simulation and recheck *)

(* A submittable result asks for the lane; the rest ends here. *)
Submit(t) ==
    /\ pc[t] = "observed"
    /\ Goto(t, "queued") \/ Goto(t, "done")
    /\ UNCHANGED <<dbVars, phase, switch, inflight, envelope, gate, seen, read,
                   patchVars, excused>>

EnterLane(t) ==
    /\ pc[t] = "queued" /\ gate = Nobody
    /\ gate' = t
    /\ Goto(t, "lane") \/ Goto(t, "recheck")
    /\ UNCHANGED <<dbVars, phase, switch, inflight, envelope, seen, read,
                   patchVars, excused>>

(* The nonce moved: begin without a check of the cap. *)
BeginExact(t) ==
    /\ pc[t] = "lane"
    /\ inflight' = Begun
    /\ Goto(t, "resimulating")
    /\ UNCHANGED <<dbVars, phase, switch, envelope, gate, seen, read, patchVars,
                   excused>>

ExactEnds(t) ==
    /\ pc[t] = "resimulating"
    /\ inflight' = End
    /\ \/ Goto(t, "recheck") /\ UNCHANGED gate
       \/ Goto(t, "done") /\ gate' = Nobody
    /\ UNCHANGED <<dbVars, phase, switch, envelope, seen, read, patchVars, excused>>

(* Sent or refused: either way the permit is returned. *)
RecheckRest(t) ==
    /\ pc[t] = "recheck_rest"
    /\ gate' = Nobody
    /\ Goto(t, "done")
    /\ seen' = [seen EXCEPT ![t] = {}]
    /\ UNCHANGED <<dbVars, phase, switch, inflight, envelope, read,
                   patchVars, excused>>

-----------------------------------------------------------------------------
(* POST /api/risk: RuntimeRisk::apply under the submission gate *)

MutantPatchSkipsGate(p) == gate' = gate

TakeGate(p) == gate = Nobody /\ gate' = p

NoDraft == [limits |-> {}, toggles |-> {}]

(* Clone and validate; a patch that is refused changes nothing. *)
ClonePatch(p) ==
    /\ phase = "run" /\ patchPc[p] = "idle"
    /\ TakeGate(p)
    /\ draft' = [draft EXCEPT ![p] = [limits  |-> risk \cup {p},
                                      toggles |-> toggles \cup {p}]]
    /\ patchPc' = [patchPc EXCEPT ![p] = "cloned"]
    /\ UNCHANGED <<dbVars, phase, switch, inflight, envelope, pc, seen, read,
                   excused>>

RejectPatch(p) ==
    /\ phase = "run" /\ patchPc[p] = "idle" /\ gate = Nobody
    /\ patchPc' = [patchPc EXCEPT ![p] = "gone"]
    /\ UNCHANGED <<dbVars, phase, switch, inflight, envelope, gate, pc, seen,
                   read, draft, excused>>

WriteLimits(p) ==
    /\ patchPc[p] = "cloned"
    /\ risk' = draft[p].limits
    /\ patchPc' = [patchPc EXCEPT ![p] = "written"]
    /\ UNCHANGED <<dbVars, phase, switch, inflight, toggles, gate, pc, seen,
                   read, draft, excused>>

WriteToggles(p) ==
    /\ patchPc[p] = "written"
    /\ toggles' = draft[p].toggles
    /\ patchPc' = [patchPc EXCEPT ![p] = "applied"]
    /\ UNCHANGED <<dbVars, phase, switch, inflight, risk, gate, pc, seen, read,
                   draft, excused>>

(* The cancellation pass is over. *)
FinishPatch(p) ==
    /\ patchPc[p] = "applied"
    /\ gate' = Nobody
    /\ draft' = [draft EXCEPT ![p] = NoDraft]
    /\ patchPc' = [patchPc EXCEPT ![p] = "done"]
    /\ UNCHANGED <<dbVars, phase, switch, inflight, envelope, pc, seen, read,
                   excused>>
-----------------------------------------------------------------------------
(* Crash and restart *)

(* The envelope of a new process is the one of its environment again. *)
Crash ==
    /\ phase = "run"
    /\ phase' = "down"
    /\ tripped' = FALSE /\ cum' = 0 /\ inflight' = 0
    /\ risk' = {} /\ toggles' = {}
    /\ gate' = Nobody
    /\ pc' = [x \in Actors |->
                 IF pc[x] = "idle" \/ x = Operator THEN "idle" ELSE "done"]
    /\ patchPc' = [p \in Patches |->
                      IF patchPc[p] = "idle" THEN "idle" ELSE "gone"]
    /\ seen' = [t \in Tasks |-> {}]
    /\ read' = [x \in Actors |-> NothingRead]
    /\ draft' = [p \in Patches |-> NoDraft]
    /\ UNCHANGED <<dbVars, excused>>

(* load_risk_state and restore; a row that cannot be read starts tripped. *)
Boot ==
    /\ phase = "down"
    /\ phase' = "run"
    /\ \/ tripped' = dbTripped /\ cum' = dbCum /\ excused' = FALSE
       \/ /\ "db_read" \in Faults
          /\ tripped' = TRUE /\ cum' = 0
          /\ excused' = TRUE
    /\ UNCHANGED <<dbVars, inflight, envelope, gate, pc, seen, read, patchVars>>

-----------------------------------------------------------------------------
Init ==
    /\ dbTripped = FALSE /\ dbCum = 0
    /\ phase = "down"
    /\ tripped = FALSE /\ cum = 0 /\ inflight = 0
    /\ risk = {} /\ toggles = {}
    /\ gate = Nobody
    /\ pc = [x \in Actors |-> "idle"]
    /\ seen = [t \in Tasks |-> {}]
    /\ read = [x \in Actors |-> NothingRead]
    /\ patchPc = [p \in Patches |-> "idle"]
    /\ draft = [p \in Patches |-> NoDraft]
    /\ excused = FALSE

Task(t) ==
    \/ CheckLimits(t) \/ CheckRest(t) \/ Begin(t) \/ SimulationEnds(t)
    \/ Observe(t) \/ Submit(t) \/ EnterLane(t) \/ BeginExact(t)
    \/ ExactEnds(t) \/ RecheckRest(t)

Persist(x) == PersistFlag(x) \/ PersistCum(x) \/ PersistWrite(x)

Patch(p) ==
    \/ ClonePatch(p) \/ RejectPatch(p) \/ WriteLimits(p) \/ WriteToggles(p)
    \/ FinishPatch(p)

Next ==
    \/ \E t \in Tasks : Task(t)
    \/ \E x \in Actors : Persist(x)
    \/ ResetFlag \/ ResetTotal
    \/ \E p \in Patches : Patch(p)
    \/ Crash \/ Boot

Spec == Init /\ [][Next]_vars

-----------------------------------------------------------------------------
(* Properties *)

(* The in-flight count of a strategy is exactly the number of its running  *)
(* simulations, over failures, exact re-simulations and races of begin and *)
(* end: a leak would shut the strategy out, a double end would lift its cap *)
(* (risk.rs 330-338, engine.rs 2015-2027 and 2211-2240).                   *)
InflightIsBalanced ==
    inflight = Cardinality({t \in Tasks : pc[t] \in Simulating})

(* A patch that was answered with success is in force for as long as the   *)
(* process runs, although apply clones, edits and writes back under        *)
(* separate locks: the submission gate keeps a second patch from writing   *)
(* back an older clone (risk.rs 124-196, engine.rs 1216-1226).             *)
PatchesAreNotLost ==
    \A p \in Patches : patchPc[p] = "done" => p \in risk \cap toggles

(* The recheck in the lane, the last word before a send, never mixes the   *)
(* limits of one envelope with the toggles of another.                     *)
RecheckIsUnmixed ==
    \A t \in Tasks : pc[t] = "recheck_rest" => seen[t] = risk /\ risk = toggles

(* When nothing is being written, the durable switch is the one in memory, *)
(* unless the database failed or a reset overlapped another write since    *)
(* the last boot or clean reset (risk.rs 288-295, 346-385).                *)
RowMatchesSwitch ==
    (phase = "run" /\ ~excused /\ ~PersistPending /\ ~ResetRunning)
        => dbTripped = tripped

-----------------------------------------------------------------------------
(* The inductive invariant *)

Running(t) == pc[t] \notin {"idle", "done"}

Applying(p) == patchPc[p] \in {"cloned", "written", "applied"}

(* A process that is down runs nothing. *)
DownInv ==
    phase = "down" => /\ \A t \in Tasks : ~Running(t)
                      /\ ~ResetRunning

(* The gate has one holder, a task in the lane or a patch being applied. *)
GateInv ==
    /\ \A t \in Tasks : pc[t] \in InLane <=> gate = t
    /\ \A p \in Patches : Applying(p) <=> gate = p

(* Limits and toggles agree but between the two writes of a patch, whose    *)
(* clone is then the newest envelope; nothing in force is ever taken back.  *)
EnvelopeInv ==
    /\ (\A p \in Patches : patchPc[p] # "written") => risk = toggles
    /\ \A p \in Patches :
          /\ patchPc[p] = "cloned" => draft[p] = [limits  |-> risk \cup {p},
                                                  toggles |-> toggles \cup {p}]
          /\ patchPc[p] = "written" =>
                /\ risk = toggles \cup {p}
                /\ draft[p].toggles = risk
          /\ patchPc[p] \in {"applied", "done"} => p \in risk \cap toggles
    /\ \A t \in Tasks : pc[t] = "recheck_rest" => seen[t] = risk

HasRead == {"persist_cum", "persist_write"}

(* As long as nothing excuses it, a reset runs with the switch off and no   *)
(* trip in flight, and a trip in flight runs with the switch on: whoever    *)
(* writes the row last writes what the switch is.                           *)
RowInv ==
    (phase = "run" /\ ~excused) =>
        /\ ResetRunning =>
              /\ ~tripped
              /\ \A t \in Tasks : pc[t] \notin Persisting
              /\ pc[Operator] \in HasRead => ~read[Operator].flag
        /\ \A t \in Tasks : pc[t] \in Persisting =>
              /\ tripped
              /\ pc[t] \in HasRead => read[t].flag
        /\ ~PersistPending /\ ~ResetRunning => dbTripped = tripped

IInv ==
    /\ TypeOK
    /\ DownInv
    /\ GateInv
    /\ EnvelopeInv
    /\ RowInv
    /\ InflightIsBalanced
=============================================================================
