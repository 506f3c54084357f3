-------------------------------- MODULE Alerts --------------------------------
(***************************************************************************)
(* The alert rules (alerts.rs) and the task that evaluates them every        *)
(* eval_secs (spawn_alert_evaluator).  It reads its signals one by one while  *)
(* the loop observes heads, pending transactions and reorgs and the risk      *)
(* engine moves; a pass then compares the rules that hold with the active        *)
(* ones.  Severities and wording are left out; so is the webhook, whose       *)
(* outcome nothing waits for.                                              *)
(***************************************************************************)
EXTENDS Integers, Sequences, SequencesExt, Functions

CONSTANTS
    HeadStall, PendingStall,    \* head_stall_secs, pending_stall_secs
    Collapsible,    \* strategies whose conversion can fall below the minimum
    HistoryCap,     \* HISTORY_CAP
    Moving,         \* bound: the sources that move in a behaviour are one of these
    LastTime,       \* bound on the clock
    MaxObserved     \* bound on the reorgs of a behaviour

ASSUME AlertsAssumption ==
    /\ {HeadStall, PendingStall, MaxObserved} \subseteq Nat
    /\ {HistoryCap, LastTime} \subseteq Nat \ {0}

VARIABLES
    moving,         \* one of Moving
    wsUrl,          \* ETH_WS_URL is configured
    clock,          \* now_ms; 0 in a stamp stands for never
    lastHead, lastPending, lastReorgs,  \* the atomics of Alerts
    switch,         \* the kill switch is tripped
    halfLost,       \* half of the drawdown limit is lost
    collapsed,      \* strategies below the minimum conversion
    signals,        \* what the evaluator has read so far in this pass
    activeRules,    \* rules in `inner`
    history,        \* transitions, the oldest dropped at the cap
    observed, told  \* history: reorgs observed, and counted by a pass

alertVars == <<moving, wsUrl, clock, lastHead, lastPending, lastReorgs, switch, halfLost, collapsed,
               signals, activeRules, history, observed, told>>

world == <<moving, wsUrl, clock, lastHead, lastPending, switch, halfLost, collapsed>>

Rules == {"kill_switch", "drawdown_approaching", "head_stalled", "no_mempool_feed",
          "pending_stalled", "conversion_collapsed", "reorg_observed"}

(* The fields of AlertSignals in the order they are read.  Those of one step   *)
(* are of different sources: it makes no difference what comes between them.  *)
Fields == <<{"conversion", "now"}, {"head", "pending", "switch"}, {"drawdown"}>>

Unread == [f \in {} |-> 0]

AlertsTypeOK ==
    /\ {clock, lastHead, lastPending} \subseteq 0 .. LastTime
    /\ {lastReorgs, observed} \subseteq 0 .. MaxObserved /\ told \in Nat
    /\ moving \in Moving /\ wsUrl \in BOOLEAN /\ switch \in BOOLEAN /\ halfLost \in BOOLEAN /\ collapsed \subseteq Collapsible
    /\ \E n \in 0 .. Len(Fields) : DOMAIN signals = UNION {Fields[k] : k \in 1 .. n}
    /\ activeRules \subseteq Rules
    /\ Len(history) <= HistoryCap
    /\ \A k \in DOMAIN history : history[k] \in [rule : Rules, fired : BOOLEAN]

AlertsInit ==
    /\ moving \in Moving /\ wsUrl \in BOOLEAN
    /\ clock = 1 /\ lastHead = 0 /\ lastPending = 0 /\ lastReorgs = 0
    /\ switch = FALSE /\ halfLost = FALSE /\ collapsed = {}
    /\ signals = Unread
    /\ activeRules = {} /\ history = <<>>
    /\ observed = 0 /\ told = 0

-----------------------------------------------------------------------------
(* What is observed *)

Time ==
    /\ moving \cap {"head", "pending"} # {}
    /\ clock < LastTime /\ clock' = clock + 1
    /\ UNCHANGED <<moving, wsUrl, lastHead, lastPending, lastReorgs, switch, halfLost, collapsed,
                   signals, activeRules, history, observed, told>>

ObserveHead ==
    /\ "head" \in moving
    /\ lastHead' = clock
    /\ UNCHANGED <<moving, wsUrl, clock, lastPending, lastReorgs, switch, halfLost, collapsed,
                   signals, activeRules, history, observed, told>>

ObservePending ==
    /\ "pending" \in moving
    /\ lastPending' = clock
    /\ UNCHANGED <<moving, wsUrl, clock, lastHead, lastReorgs, switch, halfLost, collapsed,
                   signals, activeRules, history, observed, told>>

ObserveReorg ==
    /\ "reorg" \in moving /\ observed < MaxObserved
    /\ observed' = observed + 1 /\ lastReorgs' = lastReorgs + 1
    /\ UNCHANGED <<world, signals, activeRules, history, told>>

(* The risk engine and the funnel move; a trip has lost the whole limit.      *)
Trade ==
    /\ "risk" \in moving
    /\ halfLost' \in BOOLEAN /\ switch' \in BOOLEAN /\ collapsed' \in SUBSET Collapsible
    /\ switch' => switch \/ halfLost'
    /\ UNCHANGED <<moving, wsUrl, clock, lastHead, lastPending, lastReorgs,
                   signals, activeRules, history, observed, told>>

-----------------------------------------------------------------------------
(* The evaluator *)

Signal(field) ==
    CASE field = "conversion" -> collapsed
      [] field = "now"        -> clock
      [] field = "head"       -> lastHead
      [] field = "pending"    -> lastPending
      [] field = "switch"     -> switch
      [] field = "drawdown"   -> halfLost

Read ==
    \E n \in DOMAIN Fields :
        /\ DOMAIN signals = UNION {Fields[k] : k \in 1 .. n - 1}
        /\ signals' = [f \in DOMAIN signals \cup Fields[n] |->
                          IF f \in Fields[n] THEN Signal(f) ELSE signals[f]]
        /\ UNCHANGED <<world, lastReorgs, activeRules, history, observed, told>>

Stalled(stamp, limit) == stamp > 0 /\ signals["now"] - stamp > limit

(* evaluate_signals: one condition for each rule that holds *)
RulesHolding(reorgs) ==
    {r \in Rules :
        CASE r = "kill_switch"          -> signals["switch"]
          [] r = "drawdown_approaching" -> ~signals["switch"] /\ signals["drawdown"]
          [] r = "head_stalled"         -> Stalled(signals["head"], HeadStall)
          [] r = "no_mempool_feed"      -> ~wsUrl
          [] r = "pending_stalled"      -> wsUrl /\ Stalled(signals["pending"], PendingStall)
          [] r = "conversion_collapsed" -> signals["conversion"] # {}
          [] r = "reorg_observed"       -> reorgs > 0}

MutantTaken == lastReorgs

(* take_reorgs swaps the counter for zero. *)
Taken == 0

Events(rules, fired) == SetToSeq({[rule |-> r, fired |-> fired] : r \in rules})

MutantCapped(events) == events

Capped(events) ==
    IF Len(events) <= HistoryCap THEN events
    ELSE SubSeq(events, Len(events) - HistoryCap + 1, Len(events))

(* The last field is read with take_reorgs, and the rules are evaluated: what  *)
(* holds and is not active fires, what is active and holds no more resolves.  *)
Evaluate ==
    LET holding == RulesHolding(lastReorgs)
    IN  /\ DOMAIN signals = UNION Range(Fields)
        /\ lastReorgs' = Taken /\ told' = told + lastReorgs
        /\ activeRules' = holding
        /\ history' = Capped(history \o Events(holding \ activeRules, TRUE)
                                     \o Events(activeRules \ holding, FALSE))
        /\ signals' = Unread
        /\ UNCHANGED <<world, observed>>

-----------------------------------------------------------------------------
AlertsNext ==
    Time \/ ObserveHead \/ ObservePending \/ ObserveReorg \/ Trade \/ Read \/ Evaluate

AlertsSpec == AlertsInit /\ [][AlertsNext]_alertVars

-----------------------------------------------------------------------------
(* Property *)

(* The j-th event of a history is the next one of its rule after the i-th. *)
NextOfRule(h, i, j) ==
    i < j /\ h[i].rule = h[j].rule /\ \A k \in i + 1 .. j - 1 : h[k].rule # h[i].rule

Alternates(h) ==
    \A i, j \in DOMAIN h : NextOfRule(h, i, j) => h[i].fired # h[j].fired

(* The last event of a rule says whether it is one of rules. *)
EndsWith(h, rules) ==
    \A i \in DOMAIN h :
        (\A k \in DOMAIN h : k > i => h[k].rule # h[i].rule)
            => (h[i].fired <=> h[i].rule \in rules)

Mentions(h, rule) == \E i \in DOMAIN h : h[i].rule = rule

(* The history of a rule alternates between fired and resolved and ends with  *)
(* what the panel shows; the panel never shows a drawdown that approaches     *)
(* beside a tripped switch; and no reorg is lost between the loop that        *)
(* observes it and the pass that takes the counter, or told of twice          *)
(* (Alerts::evaluate, take_reorgs).                                         *)
AlertsTellTheTruth ==
    /\ observed = lastReorgs + told
    /\ ~({"kill_switch", "drawdown_approaching"} \subseteq activeRules)
    /\ Alternates(history) /\ EndsWith(history, activeRules)
    /\ \A r \in activeRules : Mentions(history, r) \/ Len(history) = HistoryCap
=============================================================================
