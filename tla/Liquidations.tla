----------------------------- MODULE Liquidations -----------------------------
(***************************************************************************)
(* The liquidation strategies and the front-runner of price updates.  At each  *)
(* head a strategy harvests the accounts that were active, polls the health of *)
(* those it watches, proposes the ones that can be liquidated and publishes    *)
(* those that are close to it as leads; the front-runner takes the leads when  *)
(* it sees a price update.  The tick of a head is a task of its own, so ticks   *)
(* of two heads overlap.  A behaviour is about one `protocol`: the four share   *)
(* nothing but the registry, where each has its own slot.                     *)
(***************************************************************************)
EXTENDS Naturals, FiniteSets, Functions

CONSTANTS
    Borrowers,
    Ticks,
    WatchCap,           \* LIQUIDATION_WATCH_CAP
    RefreshEvery,       \* refresh_watch_set: 50 blocks
    LiqLastBlock,
    LiqFaults           \* subset of {"logs", "poll", "ilk", "proxy"}

ASSUME LiquidationsAssumption ==
    /\ IsFiniteSet(Borrowers) /\ IsFiniteSet(Ticks)
    /\ {WatchCap, RefreshEvery, LiqLastBlock} \subseteq Nat \ {0}
    /\ LiqFaults \subseteq {"logs", "poll", "ilk", "proxy"}

VARIABLES
    (* the chain *)
    liqTip,
    active,         \* block -> the accounts with an event in it
    ilkOf,          \* Maker: the collateral type of an urn
    (* the strategy *)
    protocol,
    scanned,        \* last_log_block
    watch,          \* account -> the head it was last seen at
    tick,           \* the ticks that run
    ticked,         \* the last head a tick was spawned for
    leads,          \* the slot of the protocol in LiquidationLeads
    (* OracleFrontrunStrategy *)
    feedWatched, resolvedAt,
    (* history *)
    evicted,        \* put out by the cap and not seen since
    swallowed       \* in a part of a range whose failure Maker passed over

liqChain == <<liqTip, active, ilkOf, protocol>>
feedVars == <<feedWatched, resolvedAt>>
liqHistory == <<evicted, swallowed>>
liqVars == <<liqChain, scanned, watch, tick, ticked, leads, feedVars, liqHistory>>

Protocols == {"aave", "compound", "morpho", "maker"}

Ilks == {1, 2}

NoTick == [at |-> "idle", head |-> 0, from |-> 0, snap |-> {}, near |-> {}]

LiquidationsTypeOK ==
    /\ liqTip \in 1 .. LiqLastBlock /\ protocol \in Protocols
    /\ active \in [1 .. LiqLastBlock -> SUBSET Borrowers]
    /\ ilkOf \in [Borrowers -> Ilks]
    /\ {scanned, ticked, resolvedAt} \subseteq 0 .. liqTip
    /\ DOMAIN watch \subseteq Borrowers /\ Range(watch) \subseteq 1 .. liqTip
    /\ Cardinality(DOMAIN watch) <= WatchCap
    /\ tick \in [Ticks -> [at : {"idle", "begin", "logs", "poll", "read", "publish"},
                           head : 0 .. liqTip, from : 0 .. liqTip,
                           snap : SUBSET Borrowers, near : SUBSET Borrowers]]
    /\ {leads, evicted, swallowed} \subseteq SUBSET Borrowers
    /\ feedWatched \in BOOLEAN

-----------------------------------------------------------------------------
(* The chain *)

LiqBlock ==
    /\ liqTip < LiqLastBlock
    /\ liqTip' = liqTip + 1
    /\ \E who \in SUBSET Borrowers : active' = [active EXCEPT ![liqTip'] = who]
    /\ UNCHANGED <<ilkOf, protocol, scanned, watch, tick, ticked, leads,
                   feedVars, liqHistory>>

-----------------------------------------------------------------------------
(* harvest *)

(* The front-runner's tick: its watch set is replaced by the feeds that could *)
(* be resolved, when it is empty or old.                                    *)
RefreshFeeds ==
    IF feedWatched /\ liqTip < resolvedAt + RefreshEvery
    THEN UNCHANGED feedVars
    ELSE /\ feedWatched' \in IF "proxy" \in LiqFaults THEN BOOLEAN ELSE {TRUE}
         /\ resolvedAt' = liqTip

(* on_block spawns the tick of a head and does not wait for it. *)
SpawnTick(t) ==
    /\ tick[t].at = "idle" /\ ticked < liqTip
    /\ ticked' = liqTip
    /\ tick' = [tick EXCEPT ![t] = [NoTick EXCEPT !.at = "begin", !.head = liqTip]]
    /\ RefreshFeeds
    /\ UNCHANGED <<liqChain, scanned, watch, leads, liqHistory>>

(* The cursor is read before the logs are asked for, and written after. *)
ReadCursor(t) ==
    /\ tick[t].at = "begin"
    /\ tick' = IF scanned # 0 /\ tick[t].head <= scanned
               THEN [tick EXCEPT ![t].at = "poll"]
               ELSE [tick EXCEPT ![t].at = "logs", ![t].from = scanned + 1]
    /\ UNCHANGED <<liqChain, scanned, watch, ticked, leads, feedVars, liqHistory>>

ActiveIn(t) == UNION {active[b] : b \in tick[t].from .. tick[t].head}

(* Every account of the logs is seen at the head, be it younger or older than *)
(* what the list says; then the cap keeps those seen last.  Morpho caps its    *)
(* markets and the borrowers of each: it is followed within one market.       *)
Touch(who, head) ==
    LET seen == [a \in DOMAIN watch \cup who |->
                    IF a \in who THEN head ELSE watch[a]]
    IN  \E keep \in SUBSET DOMAIN seen :
          /\ Cardinality(keep) = IF Cardinality(DOMAIN seen) < WatchCap
                                 THEN Cardinality(DOMAIN seen) ELSE WatchCap
          /\ \A a \in keep, b \in DOMAIN seen \ keep : seen[b] <= seen[a]
          /\ watch' = [a \in keep |-> seen[a]]
          /\ evicted' = (evicted \cup DOMAIN seen) \ keep

MutantScannedAfterFailure(t) == tick[t].head

ScannedAfterFailure(t) == IF protocol = "maker" THEN tick[t].head ELSE scanned

HarvestFails(t) ==
    /\ "logs" \in LiqFaults
    /\ scanned' = ScannedAfterFailure(t)
    /\ swallowed' = IF protocol = "maker" THEN swallowed \cup ActiveIn(t)
                    ELSE swallowed
    /\ UNCHANGED <<watch, evicted>>

(* Maker asks once per collateral type and goes on when one request fails. *)
HarvestSome(t) ==
    LET lost == {a \in ActiveIn(t) : ilkOf[a] = 1} IN
    /\ protocol = "maker" /\ "logs" \in LiqFaults
    /\ Touch(ActiveIn(t) \ lost, tick[t].head)
    /\ scanned' = tick[t].head
    /\ swallowed' = swallowed \cup lost

Harvest(t) ==
    /\ Touch(ActiveIn(t), tick[t].head)
    /\ scanned' = tick[t].head
    /\ UNCHANGED swallowed

LogsAnswer(t) ==
    /\ tick[t].at = "logs"
    /\ Harvest(t) \/ HarvestSome(t) \/ HarvestFails(t)
    /\ tick' = [tick EXCEPT ![t].at = "poll"]
    /\ UNCHANGED <<liqChain, ticked, leads, feedVars>>

-----------------------------------------------------------------------------
(* unhealthy, liquidatable, poll *)

EndTick(t) == tick' = [tick EXCEPT ![t] = NoTick]

(* Maker returns at once when it watches nobody. *)
SnapWatched(t) ==
    /\ tick[t].at = "poll"
    /\ IF protocol = "maker" /\ watch = <<>> THEN EndTick(t)
       ELSE tick' = [tick EXCEPT ![t].at = "read", ![t].snap = DOMAIN watch]
    /\ UNCHANGED <<liqChain, scanned, watch, ticked, leads, feedVars, liqHistory>>

(* ilk_state is a vector of the types whose reads succeeded, and is indexed   *)
(* with the place of a type in the table: with type 1 missing, an urn of type *)
(* 1 is judged by the state of type 2, and an urn of type 2 is skipped.      *)
IlkStates == IF "ilk" \in LiqFaults THEN SUBSET Ilks ELSE {Ilks}

Judges(i, answered) ==
    {k \in answered : Cardinality({j \in answered : j <= k}) = i}

ToPublish(t, near) ==
    tick' = [tick EXCEPT ![t].at = "publish", ![t].near = near]

(* An account can be liquidated (deep), be close to it (near), or neither, or  *)
(* its answer is missing.  With nobody in the first two the slot keeps what    *)
(* an older tick put there.                                                 *)
AaveHealth(t) ==
    /\ protocol = "aave"
    /\ \E near \in SUBSET tick[t].snap : \E deep \in SUBSET (tick[t].snap \ near) :
          IF near \cup deep = {} THEN EndTick(t) ELSE ToPublish(t, near)

(* isLiquidatable has no band to publish. *)
CompoundHealth(t) == protocol = "compound" /\ EndTick(t)

(* Without the answer to its batch Maker ends here. *)
MakerHealth(t) ==
    /\ protocol = "maker"
    /\ \/ "poll" \in LiqFaults /\ EndTick(t)
       \/ \E answered \in IlkStates :
             \E near \in SUBSET {a \in tick[t].snap : Judges(ilkOf[a], answered) # {}} :
                ToPublish(t, near)

MorphoHealth(t) ==
    /\ protocol = "morpho"
    /\ \E near \in SUBSET tick[t].snap : ToPublish(t, near)

ReadHealth(t) ==
    /\ tick[t].at = "read"
    /\ AaveHealth(t) \/ CompoundHealth(t) \/ MakerHealth(t) \/ MorphoHealth(t)
    /\ UNCHANGED <<liqChain, scanned, watch, ticked, leads, feedVars, liqHistory>>

(* The slot is replaced as a whole, by whichever tick comes last. *)
Publish(t) ==
    /\ tick[t].at = "publish"
    /\ leads' = tick[t].near
    /\ EndTick(t)
    /\ UNCHANGED <<liqChain, scanned, watch, ticked, feedVars, liqHistory>>

TickStep(t) ==
    \/ SpawnTick(t) \/ ReadCursor(t) \/ LogsAnswer(t)
    \/ SnapWatched(t) \/ ReadHealth(t) \/ Publish(t)

LiquidationsInit ==
    /\ liqTip = 1 /\ protocol \in Protocols
    /\ \E who \in SUBSET Borrowers :
          active = [b \in 1 .. LiqLastBlock |-> IF b = 1 THEN who ELSE {}]
    /\ ilkOf \in IF protocol = "maker" THEN [Borrowers -> Ilks]
                 ELSE {[a \in Borrowers |-> 1]}
    /\ scanned = 0 /\ watch = <<>> /\ ticked = 0 /\ leads = {}
    /\ tick = [t \in Ticks |-> NoTick]
    /\ feedWatched = FALSE /\ resolvedAt = 0
    /\ evicted = {} /\ swallowed = {}

LiquidationsNext ==
    \/ LiqBlock
    \/ \E t \in Ticks : TickStep(t)

LiquidationsSpec == LiquidationsInit /\ [][LiquidationsNext]_liqVars

-----------------------------------------------------------------------------
(* Whatever ticks overlap, requests fail or cursors are written back by an     *)
(* older tick, an account that was active in a scanned block is watched, or   *)
(* was put out by the cap, or was in what Maker passed over (liquidation.rs    *)
(* 134-192, liquidation_compound.rs 203-247, liquidation_morpho.rs 349-410,   *)
(* liquidation_maker.rs 263-313).                                           *)
ActiveAccountsAreWatched ==
    \A b \in 1 .. scanned : active[b] \subseteq DOMAIN watch \cup evicted \cup swallowed
=============================================================================
