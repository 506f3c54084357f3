-------------------------- MODULE StateComparisons --------------------------
(***************************************************************************)
(* The independent evidence of the sequencer backend: every candidate of     *)
(* atomic arbitrage leaves a sample, which is priced again at the block that *)
(* sealed its target and written through the queue of AsyncStore, while      *)
(* heads arrive and discarded blocks are marked behind the queue's back.     *)
(***************************************************************************)
EXTENDS AsyncStore, FiniteSets, FiniteSetsExt

CONSTANTS
    Samples,        \* candidates, one sample each
    MaxPending,     \* MAX_PENDING_COMPARISONS
    MaxAge,         \* MAX_COMPARISON_AGE_BLOCKS
    MaxDepth,       \* deepest reorganisation of the node
    MaxBlock, MaxIds,  \* bounds of the model: height, blocks ever mined
    BlockRow        \* a row that is no sample: a block, a candidate, ...

ASSUME ComparisonsAssumption ==
    /\ IsFiniteSet(Samples)
    /\ MaxPending \in Nat \ {0}
    /\ {MaxAge, MaxDepth} \subseteq Nat
    /\ {MaxBlock, MaxIds} \subseteq Nat \ {0}

VARIABLES
    chain,          \* the node: block ids by height
    mined,          \* number of blocks ever mined, also the newest id
    lastHead,       \* Engine.last_head
    head,           \* number of StrategyContext.head
    blockTask,      \* "idle" or "seen": where on_block is
    pending,        \* Engine.state_comparisons
    taken, kept,    \* of the settle pass: samples to do, samples to return
    pass,           \* "off", "spawned", "settling"
    sealed,         \* number of the head the pass settles against
    quoted,         \* blocks that answered the calls for the sample in hand
    expired,        \* samples counted as dropped
    marked,         \* rows with canonical = 0
    (* history *)
    captured,       \* samples ever pushed
    unreached       \* samples whose row a mark could not reach

taskVars == <<lastHead, head, blockTask>>
passVars == <<taken, kept, pass, sealed, quoted>>
nodeVars == <<chain, mined>>
history  == <<captured, unreached>>
vars == <<storeVars, nodeVars, taskVars, passVars, pending, expired, marked,
          history>>

Heads == [number : 1 .. MaxBlock, id : 1 .. MaxIds]

Items == [sample : Samples, target : 1 .. MaxBlock + 1]

(* A row names its sample, the height it was measured at, the strategy it is   *)
(* evidence for, and (ids) the blocks of that height that answered its calls. *)
SampleRows == [sample : Samples, block : 1 .. MaxBlock,
               ids : (SUBSET (1 .. MaxIds)) \ {{}}, strategy : {"arb", "atomic_arb"}]

Rows == SampleRows \cup {BlockRow}

ASSUME BlockRowAssumption == BlockRow \notin SampleRows

TypeOK ==
    /\ table \subseteq Rows /\ lost \subseteq Rows /\ marked \subseteq table
    /\ incidents \in BOOLEAN /\ dropped \in BOOLEAN /\ incident \in BOOLEAN
    /\ queue \in Seq(Rows) /\ batch \in Seq(Rows)
    /\ Len(queue) <= Capacity /\ Len(batch) <= BatchMax
    /\ writer \in {"idle", "loaded", "noting"}
    /\ chain \in Seq(1 .. MaxIds) /\ mined \in 1 .. MaxIds
    /\ lastHead \in Heads /\ head \in 1 .. MaxBlock
    /\ sealed \in 0 .. MaxBlock /\ quoted \subseteq 1 .. MaxIds
    /\ blockTask \in {"idle", "seen"}
    /\ pending \in Seq(Items) /\ taken \in Seq(Items) /\ kept \in Seq(Items)
    /\ pass \in {"off", "spawned", "settling"}
    /\ expired \subseteq Samples /\ captured \subseteq Samples
    /\ unreached \subseteq Samples

-----------------------------------------------------------------------------
(* The node *)

Height == Len(chain)

Tip == [number |-> Height, id |-> chain[Height]]

Parent(n) == IF n = 1 THEN 0 ELSE chain[n - 1]

(* A block is mined on the tip, or on one of its ancestors. *)
Mine(depth) ==
    /\ depth < Height /\ Height - depth < MaxBlock /\ mined < MaxIds
    /\ mined' = mined + 1
    /\ chain' = Append(SubSeq(chain, 1, Height - depth), mined')
    /\ UNCHANGED <<storeVars, taskVars, passVars, pending, expired, marked,
                   history>>

-----------------------------------------------------------------------------
(* Samples: capture and push in Engine::consider *)

PendingSamples == {pending[i].sample : i \in DOMAIN pending}

(* A full backlog drops the new sample. *)
Capture(s) ==
    /\ s \notin captured
    /\ captured' = captured \cup {s}
    /\ IF Len(pending) < MaxPending
       THEN /\ pending' = Append(pending, [sample |-> s, target |-> head + 1])
            /\ UNCHANGED expired
       ELSE expired' = expired \cup {s} /\ UNCHANGED pending
    /\ UNCHANGED <<storeVars, nodeVars, taskVars, passVars, marked, unreached>>

-----------------------------------------------------------------------------
(* Heads: Engine::on_block *)

MutantDiscardedNewTip(prev, new) ==
    IF new.number < prev.number THEN new.number .. prev.number
    ELSE IF \/ new.number = prev.number /\ new.id # prev.id
            \/ new.number = prev.number + 1 /\ Parent(new.number) # prev.id
         THEN {new.number}
         ELSE {}

(* detect_reorg: the heights to mark; a head further ahead is not compared. *)
Discarded(prev, new) ==
    IF new.number < prev.number THEN new.number .. prev.number
    ELSE IF \/ new.number = prev.number /\ new.id # prev.id
            \/ new.number = prev.number + 1 /\ Parent(new.number) # prev.id
         THEN {prev.number}
         ELSE {}

(* The sample rows among rows: all of them, at some heights, of a sample.   *)
Sampled(rows) == rows \ {BlockRow}

At(heights, rows) == {r \in Sampled(rows) : r.block \in heights}

Of(s, rows) == {r \in Sampled(rows) : r.sample = s}

InFlight == (ToSet(queue) \cup ToSet(batch)) \ table

(* The row that the pass makes of the answers it has so far *)
Measured == [sample |-> Head(taken).sample, block |-> Head(taken).target,
             ids |-> quoted, strategy |-> "arb"]

InHand == IF quoted = {} THEN {} ELSE {Measured}

OnChain(r) == r.block <= Height /\ r.ids = {chain[r.block]}

(* The heights two heads can show to be discarded, by their numbers alone.  *)
Shown(prev, new) ==
    IF new.number > prev.number + 1 THEN {}
    ELSE Min({prev.number, new.number}) .. prev.number

(* Rows of discarded blocks that stay canonical: being measured, still on     *)
(* their way, at a height the heads do not show, or the update failed.       *)
Unreached(shown, done) ==
    {r.sample : r \in {q \in Sampled(table \cup InFlight) \cup InHand :
                         ~OnChain(q) /\ (\/ q \in InFlight \cup InHand
                                        \/ q.block \notin shown
                                        \/ ~done)}}

(* Mark with record_reorg, whose failure is ignored, then start the settle  *)
(* pass if none runs.                                                       *)
OnHead ==
    /\ blockTask = "idle"
    /\ LET gone == Discarded(lastHead, Tip) IN
          /\ gone # {} => ConnectionFree
          /\ \E done \in {TRUE, gone = {} \/ "write" \notin Faults} :
                /\ marked' = IF done THEN marked \cup At(gone, table) ELSE marked
                /\ unreached' = unreached
                                   \cup Unreached(Shown(lastHead, Tip), done)
    /\ lastHead' = Tip
    /\ blockTask' = "seen"
    /\ IF pass = "off" THEN pass' = "spawned" /\ sealed' = Height
                       ELSE UNCHANGED <<pass, sealed>>
    /\ UNCHANGED <<storeVars, nodeVars, head, taken, kept, quoted, pending,
                   expired, captured>>

(* After the awaited refreshes: publish the head and queue its row. *)
EndHead ==
    /\ blockTask = "seen"
    /\ blockTask' = "idle"
    /\ head' = lastHead.number
    /\ Send(BlockRow)
    /\ UNCHANGED <<nodeVars, lastHead, passVars, pending, expired, marked,
                   history>>

-----------------------------------------------------------------------------
(* The settle pass: the task of on_block and state_comparisons::settle *)

TakePending ==
    /\ pass = "spawned"
    /\ pass' = "settling"
    /\ taken' = pending /\ pending' = <<>>
    /\ UNCHANGED <<storeVars, nodeVars, taskVars, kept, sealed, quoted, expired,
                   marked, history>>

Due(item) == item.target <= sealed

TooOld(item) == sealed > item.target + MaxAge

Keep ==
    /\ ~Due(Head(taken))
    /\ kept' = Append(kept, Head(taken))
    /\ UNCHANGED <<storeVars, expired>>

Expire ==
    /\ Due(Head(taken))
    /\ TooOld(Head(taken)) \/ "rpc" \in Faults \/ Head(taken).target > Height
    /\ expired' = expired \cup {Head(taken).sample}
    /\ UNCHANGED <<storeVars, kept>>

(* requote: one of the calls, hop after hop, that quote the route.  Each asks  *)
(* for the target's height on whatever chain the node is on when it answers. *)
Requote ==
    /\ pass = "settling" /\ taken # <<>>
    /\ Due(Head(taken)) /\ ~TooOld(Head(taken)) /\ Head(taken).target <= Height
    /\ quoted' = quoted \cup {chain[Head(taken).target]}
    /\ UNCHANGED <<storeVars, nodeVars, taskVars, taken, kept, pass, sealed,
                   pending, expired, marked, history>>

(* record_state_comparison, after the last answer *)
Record ==
    /\ quoted # {}
    /\ Send(Measured)
    /\ UNCHANGED <<kept, expired>>

SettleNext ==
    /\ pass = "settling" /\ taken # <<>>
    /\ Keep \/ Expire \/ Record
    /\ taken' = Tail(taken) /\ quoted' = {}
    /\ UNCHANGED <<nodeVars, taskVars, pass, sealed, pending, marked, history>>

MutantReplacePending == kept

PutBack == pending \o kept

EndPass ==
    /\ pass = "settling" /\ taken = <<>>
    /\ pass' = "off"
    /\ pending' = PutBack
    /\ kept' = <<>>
    /\ sealed' = 0
    /\ UNCHANGED <<storeVars, nodeVars, taskVars, taken, quoted, expired, marked,
                   history>>

-----------------------------------------------------------------------------
(* qualification_evidence, sequencer backend *)
IndependentEvidence(strategy) ==
    {r \in Sampled(table) \ marked : r.strategy = strategy}

-----------------------------------------------------------------------------
(* A new process fetches the head and has no sample.  A reorganisation since *)
(* the last head of the old one is never marked.                            *)
Restart ==
    /\ StoreCrash
    /\ lastHead' = Tip /\ head' = Height
    /\ unreached' = unreached \cup Unreached({}, FALSE)
    /\ blockTask' = "idle"
    /\ pending' = <<>> /\ taken' = <<>> /\ kept' = <<>>
    /\ pass' = "off" /\ sealed' = 0 /\ quoted' = {}
    /\ expired' = {s \in captured : Of(s, table \cup lost') = {}}
    /\ UNCHANGED <<nodeVars, marked, captured>>

Init ==
    /\ StoreInit
    /\ chain = <<1>> /\ mined = 1
    /\ lastHead = Tip /\ head = 1 /\ blockTask = "idle"
    /\ pending = <<>> /\ taken = <<>> /\ kept = <<>>
    /\ pass = "off" /\ sealed = 0 /\ quoted = {}
    /\ expired = {} /\ marked = {}
    /\ captured = {} /\ unreached = {}

Write ==
    /\ Writer
    /\ UNCHANGED <<nodeVars, taskVars, passVars, pending, expired, marked,
                   history>>

Pass == TakePending \/ Requote \/ SettleNext \/ EndPass

Next ==
    \/ \E depth \in 0 .. MaxDepth : Mine(depth)
    \/ \E s \in Samples : Capture(s)
    \/ OnHead \/ EndHead
    \/ Pass
    \/ Write
    \/ Restart

Spec == Init /\ [][Next]_vars

-----------------------------------------------------------------------------
(* Properties *)

ItemsOf(items) == {items[i].sample : i \in DOMAIN items}

Places(s) ==
    <<s \in ItemsOf(pending), s \in ItemsOf(taken), s \in ItemsOf(kept),
      s \in expired,
      Of(s, ToSet(queue)) # {}, Of(s, ToSet(batch) \ (table \cup lost)) # {},
      Of(s, table) # {}, Of(s, lost) # {}>>

(* A captured sample is in one place at any time: waiting, being settled,   *)
(* on its way to the table, in it, or counted as dropped or lost; though    *)
(* the pass empties the backlog, new samples arrive in it, and the rest is  *)
(* put back (engine.rs 1574-1607, state_comparisons.rs 131-190).            *)
SamplesAreConserved ==
    \A s \in Samples :
        Cardinality({i \in DOMAIN Places(s) : Places(s)[i]})
            = IF s \in captured THEN 1 ELSE 0

(* What counts as evidence was measured on the chain of the last head, every  *)
(* call of it, but for rows that no mark could reach: being measured or in    *)
(* flight when their block was marked (the writer inserts canonical = 1       *)
(* afterwards), deeper than two consecutive heads show, or under an update    *)
(* that failed (state_comparisons.rs 14-16, 152-165, 198-215, store.rs        *)
(* 1133-1195, engine.rs 1529-1556).                                         *)
EvidenceIsOnChain ==
    lastHead = Tip =>
        \A r \in Sampled(table) \ marked : r.sample \in unreached \/ OnChain(r)

(* state_comparisons.rs 4-6: the rows are a population the qualification     *)
(* gate reads, so one that is canonical is in what the gate counts for      *)
(* atomic arbitrage, the only strategy that is captured.                    *)
EvidenceReachesTheGate ==
    Sampled(table) \ marked \subseteq IndependentEvidence("atomic_arb")
=============================================================================
