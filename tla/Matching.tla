------------------------------- MODULE Matching -------------------------------
(***************************************************************************)
(* What a delivered block is worth as evidence.  The worker writes the block  *)
(* and its transactions, matches the opportunities that were decided for it   *)
(* with what is on the chain, scores it (which makes opportunities of its     *)
(* own), and compares what was simulated with what landed.  Opportunities and *)
(* simulations reach their tables through the write queue, in order.         *)
(*                                                                         *)
(* An opportunity is known by its block, by who made it and by whether it has *)
(* a victim; pools, amounts and confidence are left out, so a match may or    *)
(* may not be found.  Reorganisations are the subject of StateComparisons.   *)
(***************************************************************************)
EXTENDS Naturals, Sequences

CONSTANTS
    MatchLastBlock,     \* the chain ends here
    Relisted,           \* a new process is given old blocks again: the traces
                        \* of a relay, but not the poller of the chain
    MatchFaults         \* subset of {"rpc", "block", "rows"}

ASSUME MatchingAssumption ==
    /\ MatchLastBlock \in Nat \ {0}
    /\ Relisted \in BOOLEAN
    /\ MatchFaults \subseteq {"rpc", "block", "rows"}

VARIABLES
    newest,             \* the chain's newest block
    victimIn,           \* blocks that hold the victim decided on for them
    lastGiven,          \* last block delivered, 0 without a baseline
    (* tables *)
    oppRows, simRows,   \* opportunities, successful fork simulations
    blockTxs,           \* blocks with their transactions
    compared,           \* block_comparisons: rows of each opportunity
    matches,            \* actual_mev_matches
    positives,          \* reconciliations with true_positive
    (* memory *)
    writes,             \* the write queue
    simulating,         \* opportunities between their row and their result
    work                \* the worker: its step, block and opportunities to match

chainEvidence == <<newest, victimIn>>
rows == <<oppRows, simRows>>
evidence == <<compared, matches, positives>>
matchVars == <<chainEvidence, lastGiven, rows, blockTxs, evidence, writes,
               simulating, work>>

MatchBlocks == 1 .. MatchLastBlock

Opportunities ==
    [block : MatchBlocks, by : {"live", "replay"}, victim : BOOLEAN]

NoBlock == [step |-> "idle", block |-> 0, left |-> {}]

MatchTypeOK ==
    /\ newest \in 1 .. MatchLastBlock /\ lastGiven \in 0 .. newest
    /\ victimIn \subseteq MatchBlocks /\ blockTxs \subseteq 1 .. newest
    /\ {oppRows, simRows, matches, positives, simulating} \subseteq SUBSET Opportunities
    /\ compared \in [Opportunities -> 0 .. 2]
    /\ writes \in Seq({"opportunity", "simulation"} \X Opportunities)
    /\ work \in [step : {"idle", "match", "score", "reconcile"},
                 block : 0 .. newest, left : SUBSET Opportunities]

(* The victim is a transaction of the block: one that is replayed always is. *)
VictimLanded(o) == o.by = "replay" \/ o.block \in victimIn

-----------------------------------------------------------------------------
(* Opportunities: consider, and the writer *)

NextMined ==
    /\ newest < MatchLastBlock
    /\ newest' = newest + 1
    /\ victimIn' \in {victimIn, victimIn \cup {newest + 1}}
    /\ UNCHANGED <<lastGiven, rows, blockTxs, evidence, writes, simulating, work>>

Decided(o) ==
    o \in oppRows \cup simulating \/ \E i \in DOMAIN writes : writes[i][2] = o

(* Live flow aims at the next block, a replay at the block it is from. *)
Proposed(o) ==
    /\ ~Decided(o)
    /\ \/ o.by = "live" /\ o.block = newest + 1
       \/ o.by = "replay" /\ work.step = "score" /\ o.block = work.block

QueueRow(table, o) ==
    writes' \in {Append(writes, <<table, o>>)}
                \cup (IF "rows" \in MatchFaults THEN {writes} ELSE {})

MutantRecordOpportunity(o) == writes' = writes

RecordOpportunity(o) == QueueRow("opportunity", o)

Propose(o) ==
    /\ Proposed(o)
    /\ RecordOpportunity(o)
    /\ simulating' = simulating \cup {o}
    /\ UNCHANGED <<chainEvidence, lastGiven, rows, blockTxs, evidence, work>>

(* A simulation that fails has a row that no evidence counts. *)
Simulated(o) ==
    /\ o \in simulating
    /\ simulating' = simulating \ {o}
    /\ QueueRow("simulation", o) \/ UNCHANGED writes
    /\ UNCHANGED <<chainEvidence, lastGiven, rows, blockTxs, evidence, work>>

(* The writer, row by row *)
WriteRow ==
    /\ writes # <<>>
    /\ writes' = Tail(writes)
    /\ LET table == Head(writes)[1]  o == Head(writes)[2] IN
          \E row \in {{o}} \cup (IF "rows" \in MatchFaults THEN {{}} ELSE {}) :
             /\ oppRows' = IF table = "opportunity" THEN oppRows \cup row ELSE oppRows
             /\ simRows' = IF table = "simulation" THEN simRows \cup row ELSE simRows
    /\ UNCHANGED <<chainEvidence, lastGiven, blockTxs, evidence, simulating, work>>

-----------------------------------------------------------------------------
(* The worker: on_relay_block *)

(* spawn_chain_blocks starts behind the head it finds; spawn_relay_blocks     *)
(* with whatever the relay still lists.                                     *)
FindBaseline ==
    /\ lastGiven = 0 /\ ~Relisted
    /\ lastGiven' = newest
    /\ UNCHANGED <<chainEvidence, rows, blockTxs, evidence, writes, simulating, work>>

(* One commit for the block and its transactions, which may fail *)
StoreBlock(n) ==
    blockTxs' \in {blockTxs \cup {n}}
                  \cup (IF "block" \in MatchFaults THEN {blockTxs} ELSE {})

(* A block may be passed over, but none comes after a later one. *)
DeliverBlock(n) ==
    /\ work.step = "idle"
    /\ Relisted \/ lastGiven > 0
    /\ lastGiven < n /\ n <= newest
    /\ lastGiven' = n
    /\ StoreBlock(n)
    /\ work' = [step |-> "match", block |-> n,
                left |-> {o \in oppRows : o.block = n}]
    /\ UNCHANGED <<chainEvidence, rows, evidence, writes, simulating>>

Matched(o) == work' = [work EXCEPT !.left = @ \ {o}]

(* The sample that compares what a victim was predicted to get with what it   *)
(* got: an insert without a key.  A simulation is taken to predict; more than *)
(* two rows are not told apart.                                             *)
CompareVictim(o) ==
    compared' = IF o \in simRows /\ compared[o] < 2
                THEN [compared EXCEPT ![o] = @ + 1] ELSE compared

(* No receipt, or the victim is not in the block: nothing is recorded. *)
MatchVictim(o) ==
    /\ work.step = "match" /\ o \in work.left /\ o.victim
    /\ \/ /\ VictimLanded(o)
          /\ CompareVictim(o)
          /\ matches' \in {matches, matches \cup {o}}
       \/ /\ "rpc" \in MatchFaults \/ ~VictimLanded(o)
          /\ UNCHANGED <<compared, matches>>
    /\ Matched(o)
    /\ UNCHANGED <<chainEvidence, lastGiven, rows, blockTxs, positives, writes,
                   simulating>>

(* reconcile_atomic_arbs comes after the victims. *)
MatchAtomicArb(o) ==
    /\ work.step = "match" /\ o \in work.left
    /\ \A other \in work.left : ~other.victim
    /\ matches' \in {matches, matches \cup {o}}
    /\ Matched(o)
    /\ UNCHANGED <<chainEvidence, lastGiven, rows, blockTxs, compared, positives,
                   writes, simulating>>

StartScoring ==
    /\ work.step = "match" /\ work.left = {}
    /\ work' = [work EXCEPT !.step = "score"]
    /\ UNCHANGED <<chainEvidence, lastGiven, rows, blockTxs, evidence, writes,
                   simulating>>

(* evaluate_awaited: every proposal of the block has its result. *)
EndScoring ==
    /\ work.step = "score"
    /\ \A o \in simulating : o.by = "live"
    /\ work' = [work EXCEPT !.step = "reconcile"]
    /\ UNCHANGED <<chainEvidence, lastGiven, rows, blockTxs, evidence, writes,
                   simulating>>

(* any_victim_landed, and an opportunity without victims counts as landed; so *)
(* does one whose row is missing, since the join reads its victims as none.  *)
TookPlace(o) ==
    \/ o \notin oppRows \/ ~o.victim
    \/ VictimLanded(o) /\ o.block \in blockTxs

ReplayCandidates == {o \in simRows : o.block = work.block}

(* A row for each, in place of the one of an earlier pass *)
RecordReconciliation(candidates) ==
    positives' = (positives \ candidates) \cup {o \in candidates : TookPlace(o)}

Reconcile ==
    /\ work.step = "reconcile"
    /\ RecordReconciliation(ReplayCandidates)
    /\ work' = NoBlock
    /\ UNCHANGED <<chainEvidence, lastGiven, rows, blockTxs, compared, matches,
                   writes, simulating>>

-----------------------------------------------------------------------------
MatchRestarts ==
    /\ lastGiven' = 0 /\ writes' = <<>> /\ simulating' = {} /\ work' = NoBlock
    /\ UNCHANGED <<chainEvidence, rows, blockTxs, evidence>>

MatchInit ==
    /\ newest = 1 /\ victimIn = {}
    /\ lastGiven = 0
    /\ oppRows = {} /\ simRows = {} /\ blockTxs = {}
    /\ compared = [o \in Opportunities |-> 0] /\ matches = {} /\ positives = {}
    /\ writes = <<>> /\ simulating = {} /\ work = NoBlock

MatchNext ==
    \/ NextMined \/ WriteRow \/ FindBaseline
    \/ \E o \in Opportunities : Propose(o) \/ Simulated(o) \/ MatchVictim(o) \/ MatchAtomicArb(o)
    \/ \E n \in MatchBlocks : DeliverBlock(n)
    \/ StartScoring \/ EndScoring \/ Reconcile
    \/ MatchRestarts

MatchSpec == MatchInit /\ [][MatchNext]_matchVars

-----------------------------------------------------------------------------
(* Property *)

(* What the gate counts of a block was decided before the block was known,    *)
(* nothing is compared twice, and a simulation counts as true only if its     *)
(* victim is in the block: a block is matched once and before it is scored,  *)
(* in this process or an earlier one, and an opportunity is in its table     *)
(* when its simulation is (engine.rs 1386-1437, 2006, 2064, ingest.rs 829-833,*)
(* attribution.rs 233-516, replay.rs 142-182).                              *)
BlockEvidenceIsForesight ==
    /\ \A o \in matches \cup {p \in Opportunities : compared[p] > 0} : o.by = "live"
    /\ \A o \in Opportunities : compared[o] <= 1
    /\ \A o \in positives : o.victim => VictimLanded(o)
=============================================================================
