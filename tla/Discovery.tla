------------------------------ MODULE Discovery ------------------------------
(***************************************************************************)
(* Pool discovery: one pass over the creation logs of a factory, made by the  *)
(* block task at the heads its cooldown lets through.  The Uniswap V2, V3 and *)
(* Aerodrome lanes have a cursor, sets and a cache each and share nothing;    *)
(* `market` says which of them a behaviour is about.                        *)
(***************************************************************************)
EXTENDS Naturals, FiniteSets

CONSTANTS
    Pools,
    FirstLookback,      \* FIRST_SCAN_LOOKBACK
    Overlap,            \* REORG_DEPTH
    LogSpan,            \* MAX_LOG_SPAN
    DustRecheck,        \* DUST_RECHECK_BLOCKS
    Cooldown,           \* pool_discovery_interval_blocks
    ForkDepth,          \* how far below the highest head a fork reaches
    DiscoveryLastBlock,
    DiscoveryFaults     \* subset of {"scan", "fetch"}

ASSUME DiscoveryAssumption ==
    /\ IsFiniteSet(Pools)
    /\ {FirstLookback, Overlap, DustRecheck, ForkDepth} \subseteq Nat
    /\ {LogSpan, Cooldown, DiscoveryLastBlock} \subseteq Nat \ {0}
    /\ Overlap < LogSpan
    /\ DiscoveryFaults \subseteq {"scan", "fetch"}

VARIABLES
    (* the chain *)
    tip, highest,
    born,           \* the block a pool's creation is in, 0 when in none
    deep,           \* the pools whose reserve passes the dust gate
    (* PoolDiscovery, one lane *)
    market, cursor, lastPass, accepted, rejected, dust,
    (* history *)
    trait,          \* what the pool's immutable metadata says
    firstFrom,      \* where the first scan began
    unread,         \* pools with a failed read since they were last read
    settledView     \* no fork since the last scan that succeeded

poolChain == <<tip, highest, born, deep, market, trait>>
poolSets == <<accepted, rejected, dust>>
discoveryVars ==
    <<poolChain, cursor, lastPass, poolSets, firstFrom, unread, settledView>>

Markets == {"v2", "v3", "aero"}

Never == DiscoveryLastBlock + 1

DiscoveryTypeOK ==
    /\ tip \in 1 .. DiscoveryLastBlock /\ highest \in tip .. DiscoveryLastBlock
    /\ born \in [Pools -> 0 .. tip] /\ market \in Markets
    /\ trait \in [Pools -> {"weth", "other", "stable"}]
    /\ cursor \in 0 .. DiscoveryLastBlock /\ lastPass \in 1 .. Never
    /\ {accepted, rejected, DOMAIN dust, unread, deep} \subseteq SUBSET Pools
    /\ \A p \in DOMAIN dust : dust[p] \in 1 .. DiscoveryLastBlock
    /\ firstFrom \in 0 .. DiscoveryLastBlock /\ settledView \in BOOLEAN

-----------------------------------------------------------------------------
(* The chain: heads, forks no deeper than ForkDepth, new pools, deposits.     *)

ChainGrows ==
    /\ tip < DiscoveryLastBlock
    /\ tip' = tip + 1
    /\ highest' = IF tip' > highest THEN tip' ELSE highest
    /\ \E new \in SUBSET {p \in Pools : born[p] = 0} :
          born' = [p \in Pools |-> IF p \in new THEN tip' ELSE born[p]]
    /\ UNCHANGED <<deep, market, trait, cursor, lastPass, poolSets, firstFrom,
                   unread, settledView>>

ChainForks ==
    /\ \E f \in 1 .. tip - 1 :
          /\ f + ForkDepth >= highest
          /\ tip' = f
          /\ born' = [p \in Pools |-> IF born[p] > f THEN 0 ELSE born[p]]
    /\ settledView' = FALSE
    /\ UNCHANGED <<highest, deep, market, trait, cursor, lastPass, poolSets,
                   firstFrom, unread>>

LiquidityArrives ==
    /\ \E p \in Pools \ deep : deep' = deep \cup {p}
    /\ UNCHANGED <<tip, highest, born, market, trait, cursor, lastPass,
                   poolSets, firstFrom, unread, settledView>>

-----------------------------------------------------------------------------
(* One pass *)

Minus(a, b) == IF a > b THEN a - b ELSE 0

MutantScanFrom(head) ==
    IF cursor = 0 THEN Minus(head, FirstLookback) ELSE cursor + 1

ScanFrom(head) ==
    IF cursor = 0 THEN Minus(head, FirstLookback)
    ELSE IF head <= cursor THEN Minus(head, Overlap)
    ELSE Minus(cursor + 1, Overlap)

ScanTo(head) ==
    LET last == ScanFrom(head) + LogSpan - 1 IN
    IF head < last THEN head ELSE last

CoolsDown(head) ==
    /\ Cooldown > 1 /\ lastPass # Never
    /\ head >= lastPass /\ head - lastPass < Cooldown

(* The creation logs of the window, without those a lane skips at once *)
Found(head) ==
    {p \in Pools : born[p] \in (ScanFrom(head) .. ScanTo(head)) \ {0}}

Resting(p, head) == p \in DOMAIN dust /\ head < dust[p] + DustRecheck

ToExamine(head) ==
    {p \in Found(head) \ (accepted \cup rejected) : ~Resting(p, head)}

(* Immutable metadata: the lane never looks at such a pool again. *)
Unsuited(p) == trait[p] # "weth"

(* V3 pools are judged by their log alone; a stable Aerodrome pool is put     *)
(* aside before it is read; every other pool is read, or the read fails.     *)
NeedsRead(p) == market # "v3" /\ trait[p] # "stable"

Examine(head, failing) ==
    LET read == ToExamine(head) \ failing
        fits == {p \in read : ~Unsuited(p) /\ (market = "v3" \/ p \in deep)}
        thin == {p \in read : ~Unsuited(p)} \ fits
    IN  /\ accepted' = accepted \cup fits
        /\ rejected' = rejected \cup {p \in read : Unsuited(p)}
        /\ dust' = [p \in (DOMAIN dust \ fits) \cup thin |->
                       IF p \in thin THEN head ELSE dust[p]]
        /\ unread' = (unread \ read) \cup failing

DiscoverFails(head) ==
    /\ "scan" \in DiscoveryFaults
    /\ UNCHANGED <<cursor, poolSets, firstFrom, unread, settledView>>

Discover(head) ==
    /\ \E failing \in SUBSET {p \in ToExamine(head) : NeedsRead(p)} :
          /\ "fetch" \in DiscoveryFaults \/ failing = {}
          /\ Examine(head, failing)
    /\ cursor' = ScanTo(head)
    /\ firstFrom' = IF cursor = 0 THEN ScanFrom(head) ELSE firstFrom
    /\ settledView' = TRUE

DiscoveryPass ==
    /\ ~CoolsDown(tip)
    /\ lastPass' = tip
    /\ Discover(tip) \/ DiscoverFails(tip)
    /\ UNCHANGED poolChain

(* The cursors and the sets are in memory only. *)
DiscoveryRestarts ==
    /\ cursor # 0
    /\ cursor' = 0 /\ firstFrom' = 0 /\ lastPass' = Never
    /\ accepted' = {} /\ rejected' = {} /\ dust' = <<>> /\ unread' = {}
    /\ UNCHANGED <<poolChain, settledView>>

DiscoveryInit ==
    /\ tip = 1 /\ highest = 1 /\ born = [p \in Pools |-> 0] /\ deep = {}
    /\ market \in Markets
    /\ trait \in [Pools -> {"weth", "other"} \cup
                           (IF market = "aero" THEN {"stable"} ELSE {})]
    /\ cursor = 0 /\ lastPass = Never /\ firstFrom = 0
    /\ accepted = {} /\ rejected = {} /\ dust = <<>> /\ unread = {}
    /\ settledView = TRUE

DiscoveryNext ==
    \/ ChainGrows \/ ChainForks \/ LiquidityArrives
    \/ DiscoveryPass \/ DiscoveryRestarts

DiscoverySpec == DiscoveryInit /\ [][DiscoveryNext]_discoveryVars

-----------------------------------------------------------------------------
(* "The scan cursor only advances over ranges that were actually scanned":    *)
(* when the last scan has seen the present chain, every pool created between  *)
(* the first scanned block and the cursor has been judged, or its read has    *)
(* failed; whatever scans failed, blocks were skipped or forks happened.     *)
CreationsAreJudged ==
    settledView /\ cursor # 0 =>
        \A p \in Pools :
            born[p] \in (firstFrom .. cursor) \ {0} =>
                p \in accepted \cup rejected \cup DOMAIN dust \cup unread
=============================================================================
