-------------------------------- MODULE MCParts --------------------------------
(***************************************************************************)
(* The parts that share no state with each other or with the submission lane. *)
(* A behaviour is one of one part, chosen in its initial state; the others    *)
(* stay as they began.                                                     *)
(***************************************************************************)
EXTENDS RawSubmission, Flashblocks, Executor, Simulation, Discovery, Liquidations,
        Alerts, Matching, MCRouting

VARIABLE part

partsVars == <<part, rawVars, flashVars, execVars, simVars, discoveryVars, liqVars,
               alertVars, matchVars, routeVars>>

Raw(A) ==
    /\ part = "raw" /\ A
    /\ UNCHANGED <<part, flashVars, execVars, simVars, discoveryVars, liqVars, alertVars, matchVars,
                   routeVars>>

Flash(A) ==
    /\ part = "flash" /\ A
    /\ UNCHANGED <<part, rawVars, execVars, simVars, discoveryVars, liqVars, alertVars, matchVars,
                   routeVars>>

Exec(A) ==
    /\ part = "executor" /\ A
    /\ UNCHANGED <<part, rawVars, flashVars, simVars, discoveryVars, liqVars, alertVars, matchVars,
                   routeVars>>

Sim(A) ==
    /\ part = "simulation" /\ A
    /\ UNCHANGED <<part, rawVars, flashVars, execVars, discoveryVars, liqVars, alertVars, matchVars,
                   routeVars>>

Discovering(A) ==
    /\ part = "discovery" /\ A
    /\ UNCHANGED <<part, rawVars, flashVars, execVars, simVars, liqVars, alertVars, matchVars,
                   routeVars>>

Liquidate(A) ==
    /\ part = "liquidations" /\ A
    /\ UNCHANGED <<part, rawVars, flashVars, execVars, simVars, discoveryVars, alertVars, matchVars,
                   routeVars>>

Alert(A) ==
    /\ part = "alerts" /\ A
    /\ UNCHANGED <<part, rawVars, flashVars, execVars, simVars, discoveryVars, liqVars, matchVars,
                   routeVars>>

Match(A) ==
    /\ part = "matching" /\ A
    /\ UNCHANGED <<part, rawVars, flashVars, execVars, simVars, discoveryVars, liqVars,
                   alertVars, routeVars>>

Arbitrage(A) ==
    /\ part = "routing" /\ A
    /\ UNCHANGED <<part, rawVars, flashVars, execVars, simVars, discoveryVars, liqVars, alertVars,
                   matchVars>>

mcMoving == {{"head", "pending"}, {"head", "reorg"}, {"risk", "reorg"}}

(* What a part that is not chosen might begin with makes no difference. *)
PartsInit ==
    /\ part \in {"raw", "flash", "executor", "simulation", "discovery", "liquidations",
                 "alerts", "matching", "routing"}
    /\ RawInit /\ FlashInit /\ ExecInit /\ SimInit /\ DiscoveryInit /\ LiquidationsInit
    /\ AlertsInit /\ MatchInit /\ RouteInit
    /\ part # "liquidations" => protocol = "aave" /\ Range(active) = {{}}
    /\ part # "discovery" => market = "v2" /\ Range(trait) = {"weth"}
    /\ part # "alerts" => moving = {"risk", "reorg"} /\ wsUrl
    /\ part # "routing" =>
          /\ settings = [univ3 |-> FALSE, aero |-> FALSE, venues |-> 1]
          /\ reserves = mcPriced(ae)

PartsNext ==
    \/ Raw(RawNext) \/ Flash(FlashNext) \/ Exec(ExecNext) \/ Sim(SimNext)
    \/ Discovering(DiscoveryNext) \/ Liquidate(LiquidationsNext)
    \/ Alert(AlertsNext) \/ Match(MatchNext) \/ Arbitrage(RouteNext)

PartsSpec == PartsInit /\ [][PartsNext]_partsVars

(* The type invariant of the chosen part; the others do not move. *)
PartsTypeOK ==
    CASE part = "raw"          -> RawTypeOK
      [] part = "flash"        -> FlashTypeOK
      [] part = "executor"     -> ExecTypeOK
      [] part = "simulation"   -> SimTypeOK
      [] part = "discovery"    -> DiscoveryTypeOK
      [] part = "liquidations" -> LiquidationsTypeOK
      [] part = "alerts"       -> AlertsTypeOK
      [] part = "matching"     -> MatchTypeOK
      [] part = "routing"      -> RouteTypeOK
=============================================================================
