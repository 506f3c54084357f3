-------------------------------- MODULE Routing --------------------------------
(***************************************************************************)
(* What the arbitrage and sandwich strategies make of one state of the pools: *)
(* the search for cycles through WETH (dex/graph.rs, dex/edge.rs), back-runs   *)
(* of a victim's swap (arb.rs) and sandwiches around it (sandwich.rs,          *)
(* sandwich_v3.rs), with the integer arithmetic of dex.rs, and the calls of    *)
(* the plans they return.                                                   *)
(*                                                                         *)
(* Amounts are small: TLC's integers have 32 bits.  The deadline and the caps  *)
(* on cycles, candidates and V3 pools, which only drop candidates, are left   *)
(* out; so are pools with an empty side.                                     *)
(***************************************************************************)
EXTENDS Integers, Sequences, SequencesExt, FiniteSets, FiniteSetsExt, Functions

CONSTANTS
    RoutePools,
    KindOf,         \* pool -> "v2", "aero", "stable" or "v3"
    PairOf,         \* pool -> <<token0, token1>>
    VenueOf,        \* V2 pool -> its place in pair_factories, else 0
    FeeOf,          \* pool -> fee, in thousandths
    Anchor,         \* weth
    RouteStates,    \* the reserves looked at: pool -> <<reserve0, reserve1>>
    MaxIn,          \* max_position
    MaxLegs,        \* arb_max_cycle_len
    MaxGraphPools,  \* arb_max_pools
    QuoteBudget,    \* V3_QUOTE_BUDGET
    QuoteFailures,  \* bound on the quoter's calls that fail in one search
    VictimAmounts, VictimMinima

ASSUME RoutingAssumption ==
    /\ \A p \in RoutePools : /\ DOMAIN PairOf[p] = 1 .. 2 /\ PairOf[p][1] # PairOf[p][2]
                             /\ FeeOf[p] \in 0 .. 999
    /\ RouteStates \subseteq [RoutePools -> [1 .. 2 -> Nat \ {0}]]
    /\ {MaxIn, MaxGraphPools, MaxLegs} \subseteq Nat \ {0}
    /\ {QuoteBudget, QuoteFailures} \cup VictimMinima \subseteq Nat
    /\ VictimAmounts \subseteq Nat \ {0}

VARIABLES
    settings,   \* DEX_UNIV3_ARB, DEX_AERODROME_ARB and the number of V2 venues
    reserves,   \* of every pool, at the block that is looked at
    busy,       \* a strategy is called and its answer not yet taken
    plans       \* the opportunities it answers with

routeVars == <<settings, reserves, busy, plans>>

Tokens == UNION {Range(PairOf[p]) : p \in RoutePools}

Side(p, token) == CHOOSE i \in 1 .. 2 : PairOf[p][i] = token

Trades(p, token) == token \in Range(PairOf[p])

(* The pools of a kind; of the V2 pools, those of the chain's venues *)
Kinds(kinds) ==
    {p \in RoutePools : KindOf[p] \in kinds /\ (KindOf[p] = "v2" => VenueOf[p] <= settings.venues)}

(* pair_for: a venue has at most one pool of two tokens *)
PairFor(venue, swap) ==
    {p \in Kinds({"v2"}) : VenueOf[p] = venue /\ {swap.from, swap.to} = Range(PairOf[p])}

PoolFor(kind, swap) == {p \in Kinds({kind}) : {swap.from, swap.to} = Range(PairOf[p])}

Victims ==
    {v \in [router : {"v2", "aero", "v3"}, from : Tokens, to : Tokens, amount : VictimAmounts,
            minOut : VictimMinima, behindOnly : BOOLEAN] : v.from # v.to}

RouteTypeOK ==
    /\ settings \in [univ3 : BOOLEAN, aero : BOOLEAN, venues : 1 .. 2]
    /\ reserves \in RouteStates /\ busy \in BOOLEAN
    /\ \A plan \in plans :
          /\ plan.gross \in Nat \ {0} /\ plan.amountIn \in 1 .. MaxIn
          /\ \A call \in Range(plan.front \o plan.back) :
                call.pool \in RoutePools /\ call.amount \in Nat \ {0} /\ call.out \in Nat

-----------------------------------------------------------------------------
(* Arithmetic *)

AtMost(a, b) == IF a < b THEN a ELSE b

Gain(out, x) == IF out > x THEN out - x ELSE 0

(* getAmountOut of UniswapV2: the fee in the numerator *)
V2AmountOut(x, rIn, rOut, fee) ==
    IF 0 \in {x, rIn, rOut} THEN 0
    ELSE LET taxed == x * (1000 - fee)
         IN  (taxed * rOut) \div (rIn * 1000 + taxed)

(* Aerodrome takes the fee off the input *)
AeroAmountOut(x, rIn, rOut, fee) ==
    LET xin == x - (x * fee) \div 1000
    IN  IF 0 \in {xin, rIn, rOut} THEN 0 ELSE (xin * rOut) \div (rIn + xin)

(* A V3 pool inside one range of ticks is one with virtual reserves.  Its fee  *)
(* is rounded up and stays outside of them.                                 *)
AfterFee(x, fee) == (x * (1000 - fee)) \div 1000

V3AmountOut(x, rIn, rOut, fee) == AeroAmountOut(AfterFee(x, fee), rIn, rOut, 0)

AmountOut(state, p, token, x) ==
    LET rIn  == state[p][Side(p, token)]
        rOut == state[p][3 - Side(p, token)]
    IN  CASE KindOf[p] = "v2"   -> V2AmountOut(x, rIn, rOut, FeeOf[p])
          [] KindOf[p] = "aero" -> AeroAmountOut(x, rIn, rOut, FeeOf[p])
          [] KindOf[p] = "v3"   -> V3AmountOut(x, rIn, rOut, FeeOf[p])
          [] OTHER              -> 0

(* What a pool holds after `x` of `token` came in and `out` went out *)
AfterTrade(state, p, token, x, out) ==
    LET kept == IF KindOf[p] = "v3" THEN AfterFee(x, FeeOf[p]) ELSE x
    IN  [state EXCEPT ![p][Side(p, token)] = @ + kept, ![p][3 - Side(p, token)] = @ - out]

WithSwap(state, p, token, x) == AfterTrade(state, p, token, x, AmountOut(state, p, token, x))

(* What is left of lo .. hi when the third at its worse end is dropped until  *)
(* three sizes or fewer remain                                             *)
Narrow(f) ==
    LET left[lo, hi \in DOMAIN f] ==
            LET third == (hi - lo) \div 3
            IN  IF hi <= lo + 2 THEN lo .. hi
                ELSE IF f[lo + third] < f[hi - third] THEN left[lo + third + 1, hi]
                ELSE left[lo, hi - third]
    IN  left

(* The first of the best of some sizes, if it gains anything *)
Best(f, sizes) ==
    {[amountIn |-> x, gross |-> f[x]] : x \in
        {y \in sizes : f[y] > 0 /\ \A z \in sizes : f[z] <= f[y] /\ (z < y => f[z] < f[y])}}

(* ternary_search_max *)
TernarySearchMax(f, hi) == Best(f, DOMAIN f \cap Narrow(f)[0, AtMost(MaxIn, hi)])

-----------------------------------------------------------------------------
(* Cycles through the anchor *)

Edges(ps) ==
    {[pool |-> p, from |-> PairOf[p][i], to |-> PairOf[p][3 - i]] : p \in ps, i \in 1 .. 2}

(* No cycle comes back to a pool or, before its end, to a token. *)
Walks(edges, legs) ==
    {c \in UNION {[1 .. n -> edges] : n \in 2 .. legs} :
        /\ c[Len(c)].to = Anchor
        /\ \A k \in DOMAIN c : c[k].from = IF k = 1 THEN Anchor ELSE c[k - 1].to
        /\ \A j, k \in DOMAIN c : j # k => c[j].pool # c[k].pool /\ c[j].to # c[k].to}

(* select_pools: the deepest WETH pools, then whatever else fits *)
Selections(ps) ==
    LET weth == {p \in ps : Trades(p, Anchor)}
        depth(p) == reserves[p][Side(p, Anchor)]
    IN  {S \in kSubset(AtMost(Max({2, MaxGraphPools}), Cardinality(ps)), ps) :
            /\ S \subseteq weth \/ weth \subseteq S
            /\ \A p \in S \cap weth, q \in weth \ S : depth(p) >= depth(q)}

(* A V3 edge has a price only at the sizes in the book. *)
Quote(state, book, e, x) ==
    IF KindOf[e.pool] = "v3" /\ <<e, x>> \notin book THEN 0
    ELSE AmountOut(state, e.pool, e.from, x)

(* What a cycle that is given x has in hand at first and after each leg *)
Amounts(state, book, cycle, x) ==
    LET held[k \in 0 .. Len(cycle)] ==
            IF k = 0 THEN x ELSE Quote(state, book, cycle[k], held[k - 1])
    IN  held

CycleOut(state, book, cycle, x) == Amounts(state, book, cycle, x)[Len(cycle)]

(* optimal_cycle_in and size_cycle: with a V3 edge the best of the sizes of    *)
(* the books, else the ternary search up to the depth of the first pool      *)
SizeCycle(state, book, cycle) ==
    LET gain  == [x \in 0 .. MaxIn |-> Gain(CycleOut(state, book, cycle, x), x)]
        first == cycle[1]
    IN  IF \A e \in Range(cycle) : KindOf[e.pool] # "v3"
        THEN TernarySearchMax(gain, state[first.pool][Side(first.pool, first.from)])
        ELSE Best(gain, {x \in 1 .. MaxIn : \E e \in Range(cycle) : <<e, x>> \in book})

MutantAmountBefore(state, book, cycle, x, k) == x

(* What the k-th leg of a cycle is given *)
AmountBefore(state, book, cycle, x, k) == Amounts(state, book, cycle, x)[k - 1]

(* A leg on a V2 pair names the output it takes; one through a router takes    *)
(* what it gets.                                                           *)
Leg(state, p, token, x) ==
    [pool |-> p, from |-> token, amount |-> x,
     out |-> IF KindOf[p] = "v2" THEN AmountOut(state, p, token, x) ELSE 0]

BuildCalls(state, book, cycle, x) ==
    [k \in DOMAIN cycle |->
        Leg(state, cycle[k].pool, cycle[k].from, AmountBefore(state, book, cycle, x, k))]

(* In tens of thousands of gas, ten of which cost one *)
GasCost(units) == units \div 10

GasEstimate(cycle) == 32 + 12 * (Len(cycle) - 2)

EdgeGas(e) == CASE KindOf[e.pool] = "v2" -> 12 [] KindOf[e.pool] = "v3" -> 18 [] OTHER -> 17

PricedGas(cycle) ==
    Max({GasEstimate(cycle), FoldLeft(LAMBDA g, e : g + EdgeGas(e), 0, cycle)})

UsesNonV2(cycle) == \E e \in Range(cycle) : KindOf[e.pool] # "v2"

(* An opportunity: our legs before and after the victim it is built around,  *)
(* a victim being the swap the plan takes for granted                       *)
Plan(kind, front, victim, back, size) ==
    [kind |-> kind, front |-> front, victim |-> victim, back |-> back,
     amountIn |-> size.amountIn, gross |-> size.gross]

(* The sized cycles of a graph that pay for their gas, priced edge by edge or  *)
(* estimated from the number of legs *)
PayingCycles(state, book, edges, legs, priced) ==
    UNION {LET gas == IF priced THEN PricedGas(cycle) ELSE GasEstimate(cycle) IN
              {<<cycle, size>> : size \in {s \in SizeCycle(state, book, cycle) :
                                              s.gross > GasCost(gas)}}
              : cycle \in Walks(edges, legs)}

CyclePlans(state, book, edges) ==
    {Plan("mixed cycle", BuildCalls(state, book, f[1], f[2].amountIn), <<>>, <<>>, f[2]) :
        f \in {g \in PayingCycles(state, book, edges, MaxLegs, TRUE) : UsesNonV2(g[1])}}

-----------------------------------------------------------------------------
(* on_block *)

ProbeSizes ==
    SelectSeq([k \in 1 .. 4 |-> (MaxIn * <<4, 12, 28, 56>>[k]) \div 100], LAMBDA x : x > 0)

(* The quoter's calls go over both directions of every WETH-quoted V3 pool,   *)
(* size by size, until the budget is spent.                                 *)
Asked ==
    LET hops  == SetToSeq(Edges({p \in Kinds({"v3"}) : Trades(p, Anchor)}))
        n     == Len(hops)
    IN  IF n = 0 \/ ~settings.univ3 THEN {}
        ELSE {<<hops[((k - 1) % n) + 1], ProbeSizes[((k - 1) \div n) + 1]>> :
                 k \in 1 .. AtMost(QuoteBudget, n * Len(ProbeSizes))}

(* The quoter may fail on a few of its calls. *)
Failing(asked) == {failed \in SUBSET asked : Cardinality(failed) <= QuoteFailures}

V2Plans(selected) ==
    {Plan("cycle", BuildCalls(reserves, {}, f[1], f[2].amountIn), <<>>, <<>>, f[2]) :
        f \in PayingCycles(reserves, {}, Edges(selected), MaxLegs, FALSE)}

(* cross_venue_opportunities: the whole graph, for what uses another venue.   *)
MixedPlans(book) ==
    LET lanes == {e \in Edges(Kinds({"v3"})) : \E x \in 1 .. MaxIn : <<e, x>> \in book}
                    \cup (IF settings.aero THEN Edges(Kinds({"aero"})) ELSE {})
    IN  IF lanes = {} THEN {} ELSE CyclePlans(reserves, book, Edges(Kinds({"v2"})) \cup lanes)

OnBlock ==
    /\ ~busy /\ busy' = TRUE
    /\ \E selected \in Selections(Kinds({"v2"})), failed \in Failing(Asked) :
          plans' = V2Plans(selected) \cup MixedPlans(Asked \ failed)
    /\ UNCHANGED <<settings, reserves>>

-----------------------------------------------------------------------------
(* on_pending *)

Swap(p, v) == [pool |-> p, from |-> v.from, amount |-> v.amount, minOut |-> v.minOut]

(* The victim is taken to move pool `p` and to come through: its minimum is   *)
(* not looked at.                                                          *)
BackRuns(found, state, p, v) ==
    {Plan("back-run", <<>>, <<[Swap(p, v) EXCEPT !.minOut = 0]>>,
          BuildCalls(state, {}, f[1], f[2].amountIn), f[2]) : f \in found}

(* mixed_pair_backruns: one V2 pool against the Aerodrome pool, after p moved *)
MixedBackRuns(v2, aero, p, v) ==
    LET state == WithSwap(reserves, p, v.from, v.amount)
    IN  IF AmountOut(reserves, p, v.from, v.amount) = 0 /\ p = aero THEN {}
        ELSE BackRuns({f \in PayingCycles(state, {}, Edges({v2, aero}), 2, TRUE) : UsesNonV2(f[1])},
                      state, p, v)

(* Whatever router it came through, a V2 victim is taken to trade on the       *)
(* first venue.  optimal_two_leg_arb has the curve of a cycle of two legs.    *)
BackRun(v) ==
    LET first == PairFor(1, v)
        aeros == PoolFor("aero", v)
        state(p) == WithSwap(reserves, p, v.from, v.amount)
    IN  CASE v.router = "aero" /\ settings.aero ->
                UNION {MixedBackRuns(p, q, q, v) : p \in first, q \in aeros}
          [] v.router = "v2" /\ settings.venues = 1 /\ settings.aero ->
                UNION {MixedBackRuns(p, q, p, v) : p \in first, q \in aeros}
          [] v.router = "v2" /\ settings.venues = 2 ->
                UNION {BackRuns(PayingCycles(state(p), {}, Edges({p, q}), 2, FALSE), state(p), p, v)
                          : p \in first, q \in PairFor(2, v)}
          [] OTHER -> {}

(* The state after a front-run of x, and after the victim behind it *)
AfterFront(p, v, x) == WithSwap(reserves, p, v.from, x)

AfterVictim(p, v, x) == WithSwap(AfterFront(p, v, x), p, v.from, v.amount)

MutantSandwichGain(p, v, x) ==
    LET bought == AmountOut(reserves, p, v.from, x)
    IN  IF 0 \in {x, bought} THEN 0
        ELSE Gain(AmountOut(AfterVictim(p, v, x), p, v.to, bought), x)

(* profit_of of optimal_sandwich_in *)
SandwichGain(p, v, x) ==
    LET bought == AmountOut(reserves, p, v.from, x)
        given  == AmountOut(AfterFront(p, v, x), p, v.from, v.amount)
    IN  IF 0 \in {x, bought, given} \/ given < v.minOut THEN 0
        ELSE Gain(AmountOut(AfterVictim(p, v, x), p, v.to, bought), x)

(* The legs around a victim.  Both are built on the pool as it was found.    *)
Around(kind, p, v, size) ==
    Plan(kind, <<Leg(reserves, p, v.from, size.amountIn)>>, <<Swap(p, v)>>,
         <<Leg(reserves, p, v.to, AmountOut(reserves, p, v.from, size.amountIn))>>, size)

Sandwich(v) ==
    {Around("sandwich", f[1], v, f[2]) :
        f \in UNION {{<<p, s>> : s \in
            {t \in TernarySearchMax([x \in 0 .. MaxIn |-> SandwichGain(p, v, x)],
                                    reserves[p][Side(p, v.from)]) : t.gross > GasCost(27)}}
                : p \in UNION {PairFor(n, v) : n \in 1 .. settings.venues}}}

-----------------------------------------------------------------------------
(* The V3 sandwich: two quotes for each of a few sizes *)

(* implied_reserves, for o1 < o2 and a1 < a2: the pool two quotes fit *)
ImpliedReserves(a1, o1, a2, o2, fee) ==
    LET bend == 1000 * (o1 * a2 - o2 * a1)
        rIn  == (a1 * a2 * (1000 - fee) * (o2 - o1)) \div bend
        rOut == (o1 * (rIn * 1000 + a1 * (1000 - fee))) \div (a1 * (1000 - fee))
    IN  IF bend <= 0 \/ o2 <= o1 THEN {}
        ELSE {r \in {<<rIn, rOut>>} : r[1] > 0 /\ r[2] > 0}

(* evaluate_size with rank_with_implied_cp: the back-run at the fitted pool *)
V3Sized(p, v, x) ==
    LET one  == AmountOut(reserves, p, v.from, x)
        both == AmountOut(reserves, p, v.from, x + v.amount)
        fits == {r \in ImpliedReserves(x, one, x + v.amount, both, FeeOf[p]) : r[2] > both}
        gain(r) == Gain(V2AmountOut(one, r[2] - both, r[1] + x + v.amount, FeeOf[p]), x)
    IN  IF 0 \in {one, both, both - one} \/ both - one < v.minOut THEN {}
        ELSE {[amountIn |-> x, gross |-> gain(r)] : r \in {s \in fits : gain(s) > 0}}

(* refine_sizes: half way to the neighbours of the best size so far *)
Refined(best, seen) ==
    LET below == {x \in seen : x < best}
        above == {x \in seen : x > best}
        half(x) == (x + best) \div 2
    IN  {y \in {half(x) : x \in (IF below = {} THEN {} ELSE {Max(below)})
                                \cup {IF above = {} THEN MaxIn ELSE Min(above)}} :
            y # best /\ y \notin seen}

BestSize(sizes) ==
    {s \in sizes : \A t \in sizes : \/ t.gross < s.gross
                                    \/ t.gross = s.gross /\ t.amountIn >= s.amountIn}

(* grid_sizes: the coarse sizes that are not zero *)
GridSizes == {(MaxIn * bps) \div 100 : bps \in {4, 12, 28, 56}} \ {0}

(* size_v3_sandwich: four coarse sizes and one step of refinement, which with  *)
(* two quotes each stay within MAX_QUOTES_PER_CANDIDATE; a size for which a    *)
(* quote fails is passed over, and a refined one is taken if it is better.     *)
SandwichV3(v, failed) ==
    LET sized(p, xs) == UNION {V3Sized(p, v, x) : x \in xs \ failed}
        coarse(p) == BestSize(sized(p, GridSizes))
        better(p) == UNION {{t \in sized(p, Refined(s.amountIn, GridSizes)) : t.gross > s.gross}
                               : s \in coarse(p)}
        best(p) == IF better(p) = {} THEN coarse(p) ELSE BestSize(better(p))
    IN  {Around("sandwich_v3", f[1], v, f[2]) :
            f \in UNION {{<<p, s>> : s \in {t \in best(p) : t.gross > GasCost(33)}}
                            : p \in PoolFor("v3", v)}}

OnPending(v) ==
    /\ ~busy /\ busy' = TRUE
    /\ LET front == v.from = Anchor /\ ~v.behindOnly
       IN  \E failed \in IF front /\ v.router = "v3"
                         THEN Failing(GridSizes) ELSE {{}} :
              plans' = BackRun(v)
                         \cup (IF front /\ v.router = "v2" THEN Sandwich(v) ELSE {})
                         \cup (IF front /\ v.router = "v3" THEN SandwichV3(v, failed) ELSE {})
    /\ UNCHANGED <<settings, reserves>>

-----------------------------------------------------------------------------
RouteInit ==
    /\ settings \in [univ3 : BOOLEAN, aero : BOOLEAN, venues : 1 .. 2]
    /\ reserves \in RouteStates
    /\ busy = FALSE /\ plans = {}

(* The engine takes the answer; the pools move on. *)
Answer ==
    /\ busy /\ busy' = FALSE
    /\ plans' = {} /\ reserves' \in RouteStates
    /\ UNCHANGED settings

RouteNext == OnBlock \/ (\E v \in Victims : OnPending(v)) \/ Answer

RouteSpec == RouteInit /\ [][RouteNext]_routeVars

-----------------------------------------------------------------------------
(* Properties *)

(* A leg on the pools as they are: a pair gives the output that was named if   *)
(* its product stays, a router whatever the pool has for the amount.  Only a   *)
(* V3 pool gives nothing without failing.                                    *)
Call(s, call) ==
    LET p    == call.pool
        best == AmountOut(s.pools, p, call.from, call.amount)
        out  == IF KindOf[p] = "v2" THEN call.out ELSE best
        to   == PairOf[p][3 - Side(p, call.from)]
    IN  IF s.held[call.from] < call.amount \/ out > best \/ (out = 0 /\ KindOf[p] # "v3")
        THEN [s EXCEPT !.ok = FALSE]
        ELSE [s EXCEPT !.pools = AfterTrade(@, p, call.from, call.amount, out),
                       !.held = [s.held EXCEPT ![call.from] = @ - call.amount, ![to] = @ + out]]

VictimCall(s, swap) ==
    LET out == AmountOut(s.pools, swap.pool, swap.from, swap.amount)
    IN  IF out < swap.minOut THEN [s EXCEPT !.ok = FALSE]
        ELSE [s EXCEPT !.pools = AfterTrade(@, swap.pool, swap.from, swap.amount, out)]

(* The calls of a plan one after another, the victim between our two halves *)
Executed(plan) ==
    LET calls   == plan.front \o plan.victim \o plan.back
        ours(k) == k <= Len(plan.front) \/ k > Len(plan.front \o plan.victim)
        start   == [ok |-> TRUE, pools |-> reserves,
                    held |-> [t \in Tokens |-> IF t = Anchor THEN plan.amountIn ELSE 0]]
        after[k \in 0 .. Len(calls)] ==
            IF k = 0 THEN start
            ELSE IF ours(k) THEN Call(after[k - 1], calls[k])
            ELSE VictimCall(after[k - 1], calls[k])
    IN  after[Len(calls)]

Cycles == {"cycle", "mixed cycle"}

Route(plan) == [k \in DOMAIN plan.front |-> plan.front[k].pool]

(* On the state it was priced on, behind its victim if it has one, a cycle     *)
(* goes through to its last leg, spends no more than max_position and ends    *)
(* with exactly the gain it was ranked by; and the V2 pass and the mixed pass  *)
(* of a block emit no cycle twice (on_block and on_pending of arb.rs,         *)
(* build_leg of dex/edge.rs).                                              *)
CyclesPayOnce ==
    \A plan \in plans :
        /\ plan.kind \in Cycles \cup {"back-run"} =>
              /\ Executed(plan).ok /\ plan.amountIn \in 1 .. MaxIn
              /\ Executed(plan).held[Anchor] = plan.amountIn + plan.gross
        /\ \A other \in plans :
              {plan.kind, other.kind} \subseteq Cycles /\ Route(plan) = Route(other) => plan = other

(* One unit of what a victim buys, and the worth of one of what it sells     *)
RoundingRoom(swap) ==
    2 + reserves[swap.pool][3 - Side(swap.pool, swap.from)]
            \div reserves[swap.pool][Side(swap.pool, swap.from)]

(* A plan whose victim's minimum leaves room for rounding *)
WithRoom(plan) == [plan EXCEPT !.victim[1].minOut = Gain(@, RoundingRoom(plan.victim[1]))]

(* The legs of a sandwich go through on the pool it was priced on, around its  *)
(* victim with its minimum, though the back leg was built before the victim   *)
(* moved the pool.  On a pair this holds of a back leg that names an output,   *)
(* and the account ends with that output: build_leg of sandwich.rs does not   *)
(* refuse one that rounds to nothing, and such a plan is excepted.  On V3 the  *)
(* two quotes of evaluate_size are of one sum and the swaps are of two parts,  *)
(* each with its own rounding: the victim is sure of what its minimum asks    *)
(* for but for that room (sandwich.rs, sandwich_v3.rs).                      *)
SandwichesGoThrough ==
    \A plan \in plans :
        /\ plan.kind = "sandwich" /\ plan.back[1].out # 0 =>
              Executed(plan).ok /\ Executed(plan).held[Anchor] = plan.back[1].out
        /\ plan.kind = "sandwich_v3" => Executed(WithRoom(plan)).ok

(* A V2 sandwich gives back what SandwichSizing says: amount_in and the gross  *)
(* profit on top (dex.rs:549).                                             *)
SandwichReturnsItsProfit ==
    \A plan \in plans :
        plan.kind = "sandwich" => Executed(plan).held[Anchor] >= plan.amountIn + plan.gross
=============================================================================
