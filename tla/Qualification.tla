---------------------------- MODULE Qualification ----------------------------
(***************************************************************************)
(* The cached verdict of the qualification gate: who asks for a new          *)
(* evaluation, what an evaluation reads and when, and how rows dropped by    *)
(* AsyncStore reach it, in this process and in the next.  How much evidence  *)
(* there is and how accurate it is may turn out either way.                 *)
(***************************************************************************)
EXTENDS AsyncStore

CONSTANTS
    Hours,          \* thresholds an operator may choose
    BootHours,      \* QUALIFICATION_HOURS
    AnyRow          \* a row: what is in it does not matter here

ASSUME HoursAssumption == BootHours \in Hours

VARIABLES
    hours,          \* Engine.qualification_hours
    refreshedAt,    \* "zero", "old" (a minute or more ago) or "new"
    refreshing,     \* Engine.qualification_refreshing
    request,        \* where set_qualification_hours is: "idle", "stored"
    refresh,        \* where refresh_qualification is: "idle", "due", "won"
    eval,           \* where the evaluation is
    verdict,        \* Engine.qualification
    next            \* the status the evaluation is building

gateVars == <<hours, refreshedAt, refreshing, request, refresh, eval, verdict,
              next>>
vars == <<storeVars, gateVars>>

EvalSteps == {"off", "spawned", "hours", "incidents", "counters", "published"}

(* known (history): when the evaluation began, a row was known to be lost.   *)
Status == [pass : BOOLEAN, hours : Hours, clean : BOOLEAN, known : BOOLEAN]

TypeOK ==
    /\ table \subseteq {AnyRow} /\ lost \subseteq {AnyRow}
    /\ queue \in Seq({AnyRow}) /\ batch \in Seq({AnyRow})
    /\ Len(queue) <= Capacity /\ Len(batch) <= BatchMax
    /\ incidents \in BOOLEAN /\ dropped \in BOOLEAN /\ incident \in BOOLEAN
    /\ writer \in {"idle", "loaded", "noting"}
    /\ hours \in Hours
    /\ refreshedAt \in {"zero", "old", "new"} /\ refreshing \in BOOLEAN
    /\ request \in {"idle", "stored"} /\ refresh \in {"idle", "due", "won"}
    /\ eval \in EvalSteps
    /\ verdict \in Status /\ next \in Status

-----------------------------------------------------------------------------
(* Rows are produced and written; time passes *)

Produce == Send(AnyRow) /\ UNCHANGED gateVars

Write == Writer /\ UNCHANGED gateVars

Minute ==
    /\ refreshedAt = "new" /\ refreshedAt' = "old"
    /\ UNCHANGED <<storeVars, hours, refreshing, request, refresh, eval, verdict,
                   next>>

-----------------------------------------------------------------------------
(* POST /api/qualification: Engine::set_qualification_hours *)

StoreHours(h) ==
    /\ request = "idle"
    /\ hours' = h /\ request' = "stored"
    /\ UNCHANGED <<storeVars, refreshedAt, refreshing, refresh, eval, verdict,
                   next>>

MutantKeepStamp ==
    /\ request = "stored"
    /\ request' = "idle"
    /\ UNCHANGED <<storeVars, hours, refreshedAt, refreshing, refresh, eval,
                   verdict, next>>

ForceRefresh ==
    /\ request = "stored"
    /\ refreshedAt' = "zero" /\ request' = "idle"
    /\ UNCHANGED <<storeVars, hours, refreshing, refresh, eval, verdict, next>>

-----------------------------------------------------------------------------
(* Every head: Engine::refresh_qualification *)

CheckDue ==
    /\ refresh = "idle" /\ refreshedAt # "new"
    /\ refresh' = "due"
    /\ UNCHANGED <<storeVars, hours, refreshedAt, refreshing, request, eval,
                   verdict, next>>

(* The flag lets one evaluation run at a time. *)
SwapFlag ==
    /\ refresh = "due"
    /\ refresh' = IF refreshing THEN "idle" ELSE "won"
    /\ refreshing' = TRUE
    /\ UNCHANGED <<storeVars, hours, refreshedAt, request, eval, verdict, next>>

Stamp ==
    /\ refresh = "won"
    /\ refreshedAt' = "new" /\ refresh' = "idle"
    /\ eval' = "spawned"
    /\ next' = [next EXCEPT !.known = dropped \/ incidents]
    /\ UNCHANGED <<storeVars, hours, refreshing, request, verdict>>

-----------------------------------------------------------------------------
(* The evaluation: qualification::evaluate_with_required_hours *)

ReadHours ==
    /\ eval = "spawned" /\ eval' = "hours"
    /\ next' = [next EXCEPT !.hours = hours]
    /\ UNCHANGED <<storeVars, hours, refreshedAt, refreshing, request, refresh,
                   verdict>>

(* A count that cannot be read is no incident. *)
ReadIncidents ==
    /\ eval = "hours" /\ ConnectionFree
    /\ eval' = "incidents"
    /\ \E found \in {incidents} \cup (IF "read" \in Faults THEN {FALSE} ELSE {}) :
          next' = [next EXCEPT !.clean = ~found]
    /\ UNCHANGED <<storeVars, hours, refreshedAt, refreshing, request, refresh,
                   verdict>>

MutantCountNoDrops == next.clean

StillClean == next.clean /\ ~dropped

ReadCounters ==
    /\ eval = "incidents" /\ eval' = "counters"
    /\ next' = [next EXCEPT !.clean = StillClean]
    /\ UNCHANGED <<storeVars, hours, refreshedAt, refreshing, request, refresh,
                   verdict>>

(* Coverage and evidence decide the rest. *)
Publish ==
    /\ eval = "counters" /\ ConnectionFree
    /\ eval' = "published"
    /\ \E enough \in BOOLEAN :
          verdict' = [next EXCEPT !.pass = next.clean /\ enough]
    /\ UNCHANGED <<storeVars, hours, refreshedAt, refreshing, request, refresh,
                   next>>

MutantFlagLeftSet ==
    /\ eval = "published" /\ eval' = "off"
    /\ UNCHANGED <<storeVars, hours, refreshedAt, refreshing, request, refresh,
                   verdict, next>>

ClearFlag ==
    /\ eval = "published" /\ eval' = "off"
    /\ refreshing' = FALSE
    /\ UNCHANGED <<storeVars, hours, refreshedAt, request, refresh, verdict, next>>

Evaluate == ReadHours \/ ReadIncidents \/ ReadCounters \/ Publish \/ ClearFlag

-----------------------------------------------------------------------------
(* The verdict of a new process, before anything else runs in it *)
BootVerdict(found) ==
    {[pass |-> ok, hours |-> BootHours, clean |-> ~found, known |-> incidents] :
        ok \in IF found THEN {FALSE} ELSE BOOLEAN}

Boot ==
    /\ hours' = BootHours
    /\ refreshedAt' = "new" /\ refreshing' = FALSE
    /\ request' = "idle" /\ refresh' = "idle" /\ eval' = "off"
    /\ \E found \in {incidents} \cup (IF "read" \in Faults THEN {FALSE} ELSE {}) :
          verdict' \in BootVerdict(found)
    /\ next' = verdict'

Restart == StoreCrash /\ Boot

Init ==
    /\ StoreInit
    /\ hours = BootHours
    /\ refreshedAt = "new" /\ refreshing = FALSE
    /\ request = "idle" /\ refresh = "idle" /\ eval = "off"
    /\ verdict \in BootVerdict(FALSE)
    /\ next = verdict

Next ==
    \/ Produce \/ Write \/ Minute
    \/ \E h \in Hours : StoreHours(h)
    \/ ForceRefresh
    \/ CheckDue \/ SwapFlag \/ Stamp
    \/ Evaluate
    \/ Restart

Spec == Init /\ [][Next]_vars

(* Heads keep arriving: each produces a row and looks whether a refresh is   *)
(* due.  The tasks run on, the connection's lock (parking_lot) does not let  *)
(* one thread starve another, and inserts do not fail for ever.             *)
Fairness ==
    /\ WF_vars(Produce) /\ WF_vars(Write) /\ WF_vars(ForceRefresh)
    /\ WF_vars(CheckDue) /\ WF_vars(SwapFlag) /\ WF_vars(Stamp)
    /\ WF_vars(Evaluate) /\ SF_vars(ReadIncidents) /\ SF_vars(Publish)
    /\ SF_vars(NoteIncident /\ incidents' /\ UNCHANGED gateVars)

FairSpec == Spec /\ Fairness

-----------------------------------------------------------------------------
(* Properties *)

(* No strategy passes on an evaluation that began after a row was dropped,  *)
(* whether the drop is still on the counter of this process or in the       *)
(* incidents of an earlier one (qualification.rs 112-131, store.rs 906-955).*)
PassIsInformed == verdict.pass => ~verdict.known

(* The verdict is one for the threshold in force unless a refresh is still   *)
(* to come: an operator's change that races a refresh in progress is never   *)
(* lost, because the refresh stamps its time before it reads the threshold   *)
(* and the operator clears the stamp after storing it (engine.rs 1132-1197).*)
ThresholdIsNotLost ==
    (request = "idle" /\ refreshedAt = "new" /\ ~refreshing)
        => verdict.hours = hours

(* A dropped row ends in the table of incidents, where a restart finds it,   *)
(* unless the process dies first.                                           *)
DropIsNoted == dropped ~> (incidents \/ ~dropped)

(* A new threshold is used by a later verdict, unless it is changed again.  *)
ThresholdTakesEffect ==
    \A h \in Hours : hours = h ~> (verdict.hours = h \/ hours # h)

-----------------------------------------------------------------------------
(* The inductive invariant *)

(* What an evaluation still has to see of a loss that was known when it      *)
(* began: the counter or an incident at first, the counter alone once the   *)
(* incidents were read as none, nothing once both were read.                *)
InformedInv ==
    /\ eval \in {"spawned", "hours"} => (next.known => dropped \/ incidents)
    /\ eval = "incidents" => (next.known /\ next.clean => dropped)
    /\ eval = "counters" => ~(next.known /\ next.clean)

(* One refresh at a time, and its flag stays up until it has published.      *)
FlagInv ==
    /\ refresh = "won" => refreshing /\ eval = "off"
    /\ eval # "off" => refreshing

(* With a fresh stamp and no change under way, the refresh that runs works   *)
(* for the threshold in force, and so did the last one if none runs.        *)
ThresholdInv ==
    (request = "idle" /\ refreshedAt = "new") =>
        /\ eval \in {"hours", "incidents", "counters"} => next.hours = hours
        /\ eval = "published" \/ ~refreshing => verdict.hours = hours

(* With the type and what is to be shown, they are preserved by every step. *)
IInv ==
    TypeOK /\ InformedInv /\ PassIsInformed /\ FlagInv /\ ThresholdInv
=============================================================================
