------------------------------ MODULE BlockFlow ------------------------------
(***************************************************************************)
(* How observations reach the strategies: the sources of ingest.rs push onto *)
(* one bounded channel and wait for room; the engine's loop takes one event   *)
(* at a time; a live transaction is evaluated in a task of its own if a slot *)
(* is free and shed otherwise; a delivered block goes to a bounded queue and  *)
(* is scored, transaction by transaction, by a worker of its own.            *)
(*                                                                         *)
(* Transactions, hints and bids are told apart by kind only, blocks by        *)
(* number.  Which strategies run, and what they find, is left out.           *)
(***************************************************************************)
EXTENDS Naturals, Sequences, SequencesExt

CONSTANTS
    LastBlock,              \* the chain ends here
    ChannelDepth,           \* 8192 in ingest.rs
    ReplayDepth,            \* REPLAY_QUEUE_DEPTH
    StrategyConcurrency, RelayTxConcurrency,
    BlockTxs,               \* transactions of a block
    RingCapacity, HydrationBatch,
    Feeds,                  \* subset of {"tx", "private", "hint", "bid"}
    FlowFaults              \* subset of {"fetch", "null"}

ASSUME FlowAssumption ==
    /\ {LastBlock, ChannelDepth, ReplayDepth, StrategyConcurrency,
        RelayTxConcurrency, BlockTxs, RingCapacity, HydrationBatch}
            \subseteq Nat \ {0}
    /\ Feeds \subseteq {"tx", "private", "hint", "bid"}
    /\ FlowFaults \subseteq {"fetch", "null"}

VARIABLES
    tip,            \* the chain's newest block
    (* configuration *)
    delivery,       \* "chain" (spawn_chain_blocks) or "relay"
    feed,           \* the transaction or bid feed that is deployed
    (* sources *)
    at, walkEnd,     \* last block walked, and where the walk ends
    listed,         \* bid traces still to be fetched
    ring,           \* hashes that wait for hydration
    hand,           \* what a source is about to send
    (* engine *)
    channel,
    onBlock,        \* what on_block awaits
    evaluating,     \* slots of strategy_gate in use
    (* replay *)
    replayQueue,
    failed, replayDropped,        \* blocks counted by fetches_failed and
                            \* replay_blocks_dropped
    scoring,           \* the block being scored, and what is left of it
    lastReplayed

configVars == <<delivery, feed>>
sourceVars == <<at, walkEnd, listed, ring>>
engineVars == <<onBlock, evaluating>>
replayVars == <<replayQueue, replayDropped, scoring, lastReplayed>>
flowVars == <<tip, configVars, sourceVars, hand, channel, engineVars, failed,
              replayVars>>

FlowBlocks == 1 .. LastBlock

Sources == {"heads", "feed", "blocks"}

Event(kind) == [kind |-> kind, block |-> 0, txs |-> 0]

BlockEvent(n, txs) == [kind |-> "block", block |-> n, txs |-> txs]

Events ==
    [kind : {"head", "tx", "hint", "bid"}, block : {0}, txs : {0}]
    \cup [kind : {"block"}, block : FlowBlocks, txs : 0 .. BlockTxs]

NoWork == [block |-> 0, step |-> "recv", left |-> 0, running |-> 0]

FlowTypeOK ==
    /\ tip \in 1 .. LastBlock
    /\ delivery \in {"chain", "relay"} /\ feed \in Feeds
    /\ at \in 0 .. LastBlock /\ walkEnd \in 0 .. LastBlock
    /\ listed \subseteq FlowBlocks
    /\ ring \in 0 .. RingCapacity
    /\ \A s \in Sources : Range(hand[s]) \subseteq Events
    /\ Range(channel) \subseteq Events /\ Len(channel) <= ChannelDepth
    /\ onBlock \in {"none", "inventory", "discovery"}
    /\ evaluating \in 0 .. StrategyConcurrency
    /\ Len(replayQueue) <= ReplayDepth
    /\ failed \subseteq FlowBlocks /\ replayDropped \subseteq FlowBlocks
    /\ scoring \in [block : 0 .. LastBlock,
                 step : {"recv", "persist", "match", "score", "reconcile"},
                 left : 0 .. BlockTxs, running : 0 .. RelayTxConcurrency]
    /\ lastReplayed \in 0 .. LastBlock

-----------------------------------------------------------------------------
(* Sources *)

ChainGrows ==
    /\ tip < LastBlock
    /\ tip' = tip + 1
    /\ UNCHANGED <<configVars, sourceVars, hand, channel, engineVars, failed,
                   replayVars>>

(* tx.send: a source does nothing else until the channel has room. *)
PushEvent(s) ==
    /\ hand[s] # <<>> /\ Len(channel) < ChannelDepth
    /\ channel' = Append(channel, Head(hand[s]))
    /\ hand' = [hand EXCEPT ![s] = Tail(@)]
    /\ UNCHANGED <<tip, configVars, sourceVars, engineVars, failed, replayVars>>

Holds(s, events) == hand[s] = <<>> /\ hand' = [hand EXCEPT ![s] = events]

(* A head is notified (spawn_new_heads), or a poll has found a higher one     *)
(* (spawn_head_poller).                                                     *)
HeadArrives ==
    /\ Holds("heads", <<Event("head")>>)
    /\ UNCHANGED <<tip, configVars, sourceVars, channel, engineVars, failed,
                   replayVars>>

(* A notification: what the connection loses, and what does not parse, leaves *)
(* no trace.                                                                *)
Streamed(kind, event) ==
    /\ feed = kind
    /\ Holds("feed", <<event>>)
    /\ UNCHANGED <<tip, configVars, sourceVars, channel, engineVars, failed,
                   replayVars>>

HintStreamed == Streamed("hint", Event("hint"))

(* MEV Blocker, external streams and sequencer feeds *)
TxStreamed == Streamed("private", Event("tx"))

(* spawn_relay_data: traces of slots it has not seen yet. *)
BidPolled == Streamed("bid", Event("bid"))

(* spawn_pending: a hash is kept until it is hydrated; the oldest makes room.*)
HashStreamed ==
    /\ feed = "tx" /\ hand["feed"] = <<>>
    /\ ring' = IF ring = RingCapacity THEN ring ELSE ring + 1
    /\ UNCHANGED <<tip, configVars, at, walkEnd, listed, hand, channel,
                   engineVars, failed, replayVars>>

(* Hashes that a batch does not resolve are lost, all of them if it fails. *)
HydrateBatch ==
    LET take == IF ring < HydrationBatch THEN ring ELSE HydrationBatch IN
    /\ ring > 0
    /\ ring' = ring - take
    /\ \E found \in 0 .. take :
          Holds("feed", [i \in 1 .. found |-> Event("tx")])
    /\ UNCHANGED <<tip, configVars, at, walkEnd, listed, channel,
                   engineVars, failed, replayVars>>

(* spawn_chain_blocks between two walks: the node answers with some head. The*)
(* first answer is the baseline.                                            *)
PollHead ==
    /\ delivery = "chain" /\ at = walkEnd /\ hand["blocks"] = <<>>
    /\ \E head \in 1 .. tip :
          /\ head > walkEnd
          /\ walkEnd' = head
          /\ at' = IF walkEnd = 0 THEN head ELSE at
    /\ UNCHANGED <<tip, configVars, listed, ring, hand, channel,
                   engineVars, failed, replayVars>>

MutantWalkedTo == at

WalkedTo == at + 1

(* The walk from the last head to the new one goes past a block it cannot    *)
(* fetch; a node that answers null leaves no trace of it.                   *)
WalkBlock ==
    /\ delivery = "chain" /\ at < walkEnd /\ hand["blocks"] = <<>>
    /\ \E outcome \in {"ok"} \cup FlowFaults :
          /\ hand' = IF outcome = "ok"
                     THEN [hand EXCEPT !["blocks"] =
                               <<BlockEvent(at + 1, BlockTxs)>>]
                     ELSE hand
          /\ failed' = IF outcome = "fetch" THEN failed \cup {at + 1}
                       ELSE failed
    /\ at' = WalkedTo
    /\ UNCHANGED <<tip, configVars, walkEnd, listed, ring, channel,
                   engineVars, replayVars>>

(* spawn_relay_blocks: newest first in the answer, handled oldest first. *)
PollTraces ==
    /\ delivery = "relay" /\ listed = {} /\ hand["blocks"] = <<>>
    /\ listed' \in SUBSET {n \in 1 .. tip : n > at}
    /\ UNCHANGED <<tip, configVars, at, walkEnd, ring, hand, channel,
                   engineVars, failed, replayVars>>

(* fetch_block_txs: a block that cannot be fetched is sent without any. *)
FetchDelivered ==
    /\ \E n \in listed :
          /\ \A m \in listed : n <= m
          /\ at' = n /\ walkEnd' = n
          /\ listed' = listed \ {n}
          /\ \E txs \in {BlockTxs} \cup {0 : f \in FlowFaults} :
                Holds("blocks", <<BlockEvent(n, txs)>>)
    /\ UNCHANGED <<tip, configVars, ring, channel, engineVars,
                   failed, replayVars>>

-----------------------------------------------------------------------------
(* The engine's loop: run *)

NextIs(kind) == onBlock = "none" /\ channel # <<>> /\ Head(channel).kind = kind

Receive == channel' = Tail(channel)

(* on_block: what the cooldowns (should_run) call for is awaited in the loop.*)
AfterInventory == {"discovery", "none"}

OnHead ==
    /\ NextIs("head") /\ Receive
    /\ onBlock' \in {"inventory"} \cup AfterInventory
    /\ UNCHANGED <<tip, configVars, sourceVars, hand, evaluating, failed,
                   replayVars>>

InventoryRefreshed ==
    /\ onBlock = "inventory" /\ onBlock' \in AfterInventory
    /\ UNCHANGED <<tip, configVars, sourceVars, hand, channel, evaluating,
                   failed, replayVars>>

PoolsDiscovered ==
    /\ onBlock = "discovery" /\ onBlock' = "none"
    /\ UNCHANGED <<tip, configVars, sourceVars, hand, channel, evaluating,
                   failed, replayVars>>

(* try_acquire_owned: a slot, or the transaction is shed. *)
EvaluateTx ==
    evaluating' = IF evaluating < StrategyConcurrency THEN evaluating + 1
                  ELSE evaluating

OnPending ==
    /\ NextIs("tx") /\ Receive
    /\ EvaluateTx
    /\ UNCHANGED <<tip, configVars, sourceVars, hand, onBlock, failed,
                   replayVars>>

(* A hint that carries a transaction is evaluated like one. *)
OnHint ==
    /\ NextIs("hint") /\ Receive
    /\ EvaluateTx \/ UNCHANGED evaluating
    /\ UNCHANGED <<tip, configVars, sourceVars, hand, onBlock, failed,
                   replayVars>>

OnBid ==
    /\ NextIs("bid") /\ Receive
    /\ UNCHANGED <<tip, configVars, sourceVars, hand, engineVars, failed,
                   replayVars>>

EvaluationEnds ==
    /\ evaluating > 0
    /\ evaluating' = evaluating - 1
    /\ UNCHANGED <<tip, configVars, sourceVars, hand, channel, onBlock, failed,
                   replayVars>>

MutantEnqueueReplay(block) ==
    /\ Len(replayQueue) < ReplayDepth
    /\ replayQueue' = Append(replayQueue, block)
    /\ UNCHANGED replayDropped

(* try_send: the block that does not fit is replayDropped and counted. *)
EnqueueReplay(block) ==
    IF Len(replayQueue) < ReplayDepth
    THEN replayQueue' = Append(replayQueue, block) /\ UNCHANGED replayDropped
    ELSE replayDropped' = replayDropped \cup {block.block} /\ UNCHANGED replayQueue

OnDelivered ==
    /\ NextIs("block") /\ Receive
    /\ EnqueueReplay(Head(channel))
    /\ UNCHANGED <<tip, configVars, sourceVars, hand, engineVars, failed, scoring,
                   lastReplayed>>

-----------------------------------------------------------------------------
(* The replay worker: on_relay_block *)

Working(step) ==
    /\ scoring.step = step
    /\ UNCHANGED <<tip, configVars, sourceVars, hand, channel, engineVars,
                   failed, replayDropped>>

TakeDelivered ==
    /\ Working("recv") /\ replayQueue # <<>>
    /\ scoring' = [block |-> Head(replayQueue).block, step |-> "persist",
                left |-> Head(replayQueue).txs, running |-> 0]
    /\ lastReplayed' = Head(replayQueue).block
    /\ replayQueue' = Tail(replayQueue)

(* Rows of the block, the matches of our own opportunities, then the scoring.*)
WorkNext(from, to) ==
    /\ Working(from)
    /\ scoring' = [scoring EXCEPT !.step = to]
    /\ UNCHANGED <<replayQueue, lastReplayed>>

BlockPersisted == WorkNext("persist", "match")

BlockMatched == WorkNext("match", "score")

(* The loop waits for a permit before it spawns the next transaction. *)
ScoreStarts ==
    /\ Working("score") /\ scoring.left > 0 /\ scoring.running < RelayTxConcurrency
    /\ scoring' = [scoring EXCEPT !.left = @ - 1, !.running = @ + 1]
    /\ UNCHANGED <<replayQueue, lastReplayed>>

ScoreEnds ==
    /\ Working("score") /\ scoring.running > 0
    /\ scoring' = [scoring EXCEPT !.running = @ - 1]
    /\ UNCHANGED <<replayQueue, lastReplayed>>

ScoringDone ==
    /\ scoring.left = 0 /\ scoring.running = 0
    /\ WorkNext("score", "reconcile")

BlockReconciled ==
    /\ Working("reconcile")
    /\ scoring' = NoWork
    /\ UNCHANGED <<replayQueue, lastReplayed>>

-----------------------------------------------------------------------------
FlowInit ==
    /\ tip = 1
    /\ delivery \in {"chain", "relay"} /\ feed \in Feeds
    /\ at = 0 /\ walkEnd = 0 /\ listed = {}
    /\ ring = 0
    /\ hand = [s \in Sources |-> <<>>]
    /\ channel = <<>> /\ onBlock = "none" /\ evaluating = 0
    /\ replayQueue = <<>> /\ failed = {} /\ replayDropped = {}
    /\ scoring = NoWork /\ lastReplayed = 0

FlowSource ==
    \/ ChainGrows
    \/ \E s \in Sources : PushEvent(s)
    \/ HeadArrives
    \/ HintStreamed \/ TxStreamed \/ BidPolled \/ HashStreamed \/ HydrateBatch
    \/ PollHead \/ WalkBlock \/ PollTraces \/ FetchDelivered

(* The loop of run, with what it awaits itself. *)
FlowLoop ==
    \/ OnHead \/ InventoryRefreshed \/ PoolsDiscovered
    \/ OnPending \/ OnHint \/ OnBid \/ OnDelivered

FlowWorker ==
    \/ TakeDelivered \/ BlockPersisted \/ BlockMatched
    \/ ScoreStarts \/ ScoreEnds \/ ScoringDone \/ BlockReconciled

FlowNext == FlowSource \/ FlowLoop \/ EvaluationEnds \/ FlowWorker

FlowSpec == FlowInit /\ [][FlowNext]_flowVars

-----------------------------------------------------------------------------
(* Properties *)

(* The pipeline keeps the promise of DeliveredBlocks: blocks of the queue,   *)
(* of the channel and in the poller's hand wait, oldest first; failed        *)
(* fetches and drops are the blocks known to be missed.  A walk that went    *)
(* back, a poll that overlaps the last one, a queue that lets a block pass   *)
(* another or loses one without a count would break it (ingest.rs 622-925,   *)
(* engine.rs 1447-1512).                                                    *)
BlocksOf(events) == {e.block : e \in {f \in Range(events) : f.kind = "block"}}

Delivered == INSTANCE DeliveredBlocks WITH
    Bound       <- ReplayDepth + ChannelDepth + 1,
    consecutive <- delivery = "chain",
    newest      <- at,
    waiting     <- BlocksOf(replayQueue) \cup BlocksOf(channel)
                       \cup BlocksOf(hand["blocks"]),
    missed      <- failed \cup replayDropped,
    lastScored  <- lastReplayed

BlocksAreAccountedFor == Delivered!DeliveredSpec

(* However slow the strategies and the replay are, or if they never end, a   *)
(* full channel gets room again, so that the sources go on (engine.rs        *)
(* 1281-1336, 1479-1495, 1776-1799).                                        *)
IngestionKeepsUp ==
    (Len(channel) = ChannelDepth) ~> (Len(channel) < ChannelDepth)
=============================================================================
