----------------------------- MODULE Settlement -----------------------------
(***************************************************************************)
(* Settlement of submitted bundles against a chain that may reorganise.     *)
(*                                                                         *)
(* Every head starts a reconciliation task, unless one is still running: it *)
(* lists the unsettled bundles, reads the receipts of all their             *)
(* transactions, and observes or finalizes bundle by bundle, awaiting one   *)
(* more RPC call where a verdict depends on it.  Meanwhile the block task   *)
(* goes on: it detects reorganisations from one head to the next and marks  *)
(* what was recorded for the discarded blocks.                              *)
(***************************************************************************)
EXTENDS Naturals, Sequences, FiniteSets, SequencesExt

CONSTANTS
    Bundles,
    Legs,           \* number of transactions of a bundle
    Victims,        \* those of them that are public anyway, and not ours
    FinalityDepth,  \* cfg.finality_depth
    Limit,          \* LIMIT of submitted_bundles_through
    MaxReorg,       \* the chain never discards more than this many blocks
    Lateness,       \* how long after its target one of ours may land on its own
    MaxBlock,       \* bound: height of the chain
    MaxIds,         \* bound: blocks ever built
    MaxCrashes,     \* bound: restarts
    Faults          \* subset of {"rpc", "db_write"}

(* What makes a verdict at the finality depth possible at all. *)
ASSUME ConstantsAssumption ==
    /\ IsFiniteSet(Bundles)
    /\ Legs \in Nat \ {0} /\ Victims \subseteq 1..Legs /\ Limit \in Nat \ {0}
    /\ FinalityDepth \in Nat \ {0}
    /\ MaxReorg \in Nat /\ Lateness \in Nat
    /\ FinalityDepth >= MaxReorg + Lateness
    /\ MaxBlock \in Nat /\ MaxIds \in Nat /\ MaxCrashes \in Nat
    /\ Faults \subseteq {"rpc", "db_write"}

VARIABLES
    (* environment *)
    chain,          \* the canonical each [id, txs, bad]
    nextId,         \* identity (hash) of the next block
    top,            \* the highest height ever reached
    sent, target,   \* bundles handed to the relays, and their target block
    loose,          \* transactions that may land on their own
    (* durable *)
    row,            \* bundles: [state, included, block]
    reservation,    \* nonce_reservations.status
    outcome,        \* execution_outcomes: [block, canonical], block 0 for no row
    (* memory *)
    lastHead,       \* [number, id] of the head processed last
    recPc, recHead, todo, got,  \* the reconciliation task
    crashes

chainVars == <<chain, nextId, top>>
sentVars  == <<sent, target, loose>>
rowVars   == <<row, reservation, outcome>>
taskVars  == <<recPc, recHead, todo, got>>
vars == <<chain, nextId, top, sent, target, loose, row, reservation, outcome,
          lastHead, recPc, recHead, todo, got, crashes>>

Txs == Bundles \X (1..Legs)

Height == Len(chain)

Tip == [number |-> Height, id |-> chain[Height].id]

Observations == {"pending", "partial_unfinalized", "included_unfinalized",
                 "incoherent_unfinalized", "reorged_pending"}

Verdicts == {"finalized_included", "finalized_not_included",
             "finalized_partial_inclusion", "finalized_incoherent_inclusion",
             "finalized_noncanonical", "finalized_missing_executor_evidence"}

Active == {"accepted", "recovery_blocked"}

Reservations == Active \cup {"none", "cancelled", "expired", "finalized",
                             "reorged"} \cup Verdicts

Receipt == [leg : 1..Legs, number : 1..MaxBlock, id : 1..MaxIds, ok : BOOLEAN]

TypeOK ==
    /\ chain \in Seq([id : 1..MaxIds, txs : SUBSET Txs, bad : SUBSET Txs])
    /\ nextId \in Nat /\ top \in Nat
    /\ sent \subseteq Bundles /\ loose \subseteq Txs
    /\ target \in [Bundles -> 0..MaxBlock]
    /\ row \in [Bundles -> [state : Observations \cup Verdicts \cup {"none"},
                            included : {"null", "no", "yes"},
                            block : 0..MaxBlock]]
    /\ reservation \in [Bundles -> Reservations]
    /\ outcome \in [Bundles -> [block : 0..MaxBlock, canonical : BOOLEAN]]
    /\ lastHead \in [number : 1..MaxBlock, id : 1..MaxIds]
    /\ recPc \in {"idle", "list", "receipts", "bundles", "canonical"}
    /\ recHead \in 0..MaxBlock
    /\ todo \in Seq(Bundles)
    /\ got \in [Bundles -> SUBSET Receipt]
    /\ crashes \in 0..MaxCrashes

-----------------------------------------------------------------------------
(* The chain (external) *)

Holds(blocksOf, tx) == \E n \in DOMAIN blocksOf : tx \in blocksOf[n].txs

BundleTxs(b) == {b} \X (1..Legs)

(* Appends a block to base, of bundles taken whole by the builder of their  *)
(* target block and of public transactions: the victims, and those of ours  *)
(* that a discarded block has shown.  These land one by one, and may revert.*)
Build(base, public) ==
    LET h == Len(base) + 1
        whole == {b \in sent : target[b] = h
                               /\ \A tx \in BundleTxs(b) : ~Holds(base, tx)}
        late == {tx \in public : /\ ~Holds(base, tx)
                                 /\ tx[2] \in Victims
                                      \/ h <= target[tx[1]] + Lateness}
    IN /\ \E W \in SUBSET whole, L \in SUBSET late : \E bad \in SUBSET L :
             chain' = Append(base,
                 [id  |-> nextId,
                  txs |-> L \cup UNION {BundleTxs(b) : b \in W},
                  bad |-> bad])
       /\ nextId' = nextId + 1
       /\ top' = IF h > top THEN h ELSE top
       /\ loose' = public

Mine ==
    /\ Height < MaxBlock
    /\ Build(chain, loose)
    /\ UNCHANGED <<sent, target, rowVars, lastHead, taskVars, crashes>>

(* Another block takes the place of the last d.  Blocks MaxReorg below the  *)
(* highest tip are final.                                                   *)
Reorg ==
    \E d \in 1..MaxReorg :
       /\ d < Height /\ Height - d >= top - MaxReorg
       /\ nextId + (MaxBlock - (Height - d + 1)) <= MaxIds
       /\ Build(SubSeq(chain, 1, Height - d),
                loose \cup UNION {chain[n].txs :
                                   n \in (Height - d + 1)..Height})
       /\ UNCHANGED <<sent, target, rowVars, lastHead, taskVars,
                      crashes>>

-----------------------------------------------------------------------------
(* Submission, as far as settlement sees it (SubmissionLane has the rest) *)

Send(b) ==
    /\ b \notin sent /\ lastHead.number < MaxBlock
    /\ sent' = sent \cup {b}
    /\ target' = [target EXCEPT ![b] = lastHead.number + 1]
    /\ loose' = loose \cup ({b} \X Victims)
    /\ reservation' = [reservation EXCEPT ![b] = "accepted"]
    /\ UNCHANGED <<chainVars, row, outcome, lastHead, taskVars,
                   crashes>>

(* The settlement row follows the send, and the block may come in between. *)
RecordBundle(b) ==
    /\ b \in sent /\ row[b].state = "none" /\ reservation[b] = "accepted"
    /\ row' = [row EXCEPT ![b].state = "pending"]
    /\ UNCHANGED <<chainVars, sentVars, reservation, outcome, lastHead,
                   taskVars, crashes>>

-----------------------------------------------------------------------------
(* Engine::on_block *)

(* Heights of the blocks the new head shows to be discarded. *)
Discarded(head, parent) ==
    IF head.number < lastHead.number
         THEN head.number..lastHead.number
    ELSE IF head.number = lastHead.number /\ head.id # lastHead.id
         THEN {head.number}
    ELSE IF head.number = lastHead.number + 1 /\ parent # lastHead.id
         THEN {lastHead.number}
    ELSE {}

(* Store::record_reorg over the heights R: statements one after the other,  *)
(* in no transaction; the first that fails, or a crash, ends them.          *)
RecordReorg(R) ==
    \E done \in IF "db_write" \in Faults /\ R # {} THEN 0..3 ELSE {3} :
       /\ outcome' = [b \in Bundles |->
             IF done > 0 /\ outcome[b].block \in R
             THEN [outcome[b] EXCEPT !.canonical = FALSE] ELSE outcome[b]]
       /\ row' = [b \in Bundles |->
             IF done > 1 /\ row[b].block \in R
             THEN [row[b] EXCEPT !.state = "reorged_pending",
                                 !.included = "null"]
             ELSE row[b]]
       /\ reservation' = [b \in Bundles |->
             IF done > 2 /\ row[b].block \in R THEN "reorged"
             ELSE reservation[b]]

(* The reorg is marked, the head recorded, and a reconciliation started.    *)
(* Heads may be skipped, and the tip may be announced again.                *)
OnBlock ==
    /\ LET head == Tip
           parent == IF Height > 1 THEN chain[Height - 1].id ELSE 0
           R == Discarded(head, parent)
       IN /\ RecordReorg(R)
          /\ lastHead' = head
    /\ IF recPc = "idle"
       THEN recPc' = "list" /\ recHead' = Height
       ELSE UNCHANGED <<recPc, recHead>>
    /\ UNCHANGED <<chainVars, sentVars, todo, got, crashes>>

-----------------------------------------------------------------------------
(* reconcile_own_submissions *)

MutantNoDepth(n) == recHead >= n

AtFinality(n) == recHead >= n + FinalityDepth

MutantListSettled(b) == row[b].state # "none" /\ target[b] <= recHead

Unsettled(b) ==
    /\ row[b].state # "none" /\ row[b].included = "null"
    /\ target[b] <= recHead

MutantWaitForever(b) == row[b].state = "included_unfinalized" /\ row[b].block # 0

(* Observed and not yet final: nothing to ask the node about. *)
Waiting(b) ==
    row[b].state = "included_unfinalized" /\ row[b].block # 0
        /\ ~AtFinality(row[b].block)

(* submitted_bundles_through: at most Limit rows, those of the oldest target. *)
Pages(rows) ==
    {page \in SUBSET rows :
        /\ Cardinality(page) = IF Cardinality(rows) < Limit
                               THEN Cardinality(rows) ELSE Limit
        /\ \A b \in page, c \in rows \ page : target[b] <= target[c]}

Ordered(page) ==
    {order \in SetToSeqs(page) :
        \A i, j \in DOMAIN order : i < j => target[order[i]] <= target[order[j]]}

ListBundles ==
    /\ recPc = "list"
    /\ \E page \in Pages({b \in Bundles : Unsettled(b)}) :
          todo' \in Ordered({b \in page : ~Waiting(b)})
    /\ recPc' = "receipts"
    /\ UNCHANGED <<chainVars, sentVars, rowVars, lastHead, recHead, got,
                   crashes>>

ReceiptAt(b, l, n) ==
    [leg |-> l, number |-> n, id |-> chain[n].id, ok |-> <<b, l>> \notin chain[n].bad]

ReceiptsOf(b) ==
    UNION {{ReceiptAt(b, l, n) : l \in {k \in 1..Legs : <<b, k>> \in chain[n].txs}} :
              n \in 1..Height}

(* One batch for all bundles; a call that fails is a receipt not there. *)
FetchReceipts ==
    /\ recPc = "receipts"
    /\ \E lost \in IF "rpc" \in Faults THEN SUBSET (ToSet(todo) \X (1..Legs)) ELSE {{}} :
          got' = [b \in Bundles |->
             IF b \in ToSet(todo) THEN {r \in ReceiptsOf(b) : <<b, r.leg>> \notin lost}
                                  ELSE {}]
    /\ recPc' = "bundles"
    /\ UNCHANGED <<chainVars, sentVars, rowVars, lastHead, recHead,
                   todo, crashes>>

(* Block of the first receipt in transaction order, 0 without one. *)
FirstBlock(R) ==
    IF R = {} THEN 0
    ELSE (CHOOSE r \in R : \A q \in R : r.leg <= q.leg).number

Complete(R) == {r.leg : r \in R} = 1..Legs

Coherent(R) ==
    \A r, q \in R : r.ok /\ r.number = q.number /\ r.id = q.id

(* mark_bundle_observation: an unknown block keeps the one observed before. *)
Observe(b, state, block) ==
    /\ row' = [row EXCEPT ![b].state = state,
                          ![b].block = IF block = 0 THEN @ ELSE block]
    /\ UNCHANGED <<reservation, outcome>>

(* finalize_bundle_state *)
Finalize(b, state, included, block) ==
    /\ row' = [row EXCEPT ![b] = [state |-> state, included |-> included,
                                  block |-> block]]
    /\ reservation' = [reservation EXCEPT ![b] = state]
    /\ UNCHANGED outcome

(* mark_bundle_not_included *)
NotIncluded(b) ==
    /\ row' = [row EXCEPT ![b].state = "finalized_not_included",
                          ![b].included = "no"]
    /\ reservation' = [reservation EXCEPT ![b] = "expired"]
    /\ UNCHANGED outcome

(* record_execution_outcome *)
RecordOutcome(b, block) ==
    /\ row' = [row EXCEPT ![b] = [state |-> "finalized_included",
                                  included |-> "yes", block |-> block]]
    /\ reservation' = [reservation EXCEPT ![b] = "finalized"]
    /\ outcome' = [outcome EXCEPT ![b] = [block |-> block, canonical |-> TRUE]]

(* The error of every write is discarded: the row is asked for again. *)
MayFail(Write) == Write \/ ("db_write" \in Faults /\ UNCHANGED rowVars)

MutantMissingAtTarget(b) == recHead >= target[b]

MissingIsFinal(b) == AtFinality(target[b])

(* What was found is observed first, and the verdict is a second write.     *)
SettleMissing(b, R) ==
    /\ ~Complete(R)
    /\ MayFail(
        \/ /\ ~MissingIsFinal(b) \/ "db_write" \in Faults
           /\ Observe(b, IF R = {} THEN "pending" ELSE "partial_unfinalized",
                      FirstBlock(R))
        \/ MissingIsFinal(b) /\ R = {} /\ NotIncluded(b)
        \/ /\ MissingIsFinal(b) /\ R # {}
           /\ Finalize(b, "finalized_partial_inclusion", "no", FirstBlock(R)))

SettleIncoherent(b, R) ==
    /\ Complete(R) /\ ~Coherent(R)
    /\ MayFail(
        \/ /\ AtFinality(target[b])
           /\ Finalize(b, "finalized_incoherent_inclusion", "no", FirstBlock(R))
        \/ /\ ~AtFinality(target[b])
           /\ Observe(b, "incoherent_unfinalized", FirstBlock(R)))

SettleIncluded(b, R) ==
    /\ Complete(R) /\ Coherent(R) /\ ~AtFinality(FirstBlock(R))
    /\ MayFail(Observe(b, "included_unfinalized", FirstBlock(R)))

NextBundle == todo' = Tail(todo)

SettleBundle ==
    /\ recPc = "bundles" /\ todo # <<>>
    /\ LET b == Head(todo)
           R == got[b]
       IN SettleMissing(b, R) \/ SettleIncoherent(b, R) \/ SettleIncluded(b, R)
    /\ NextBundle
    /\ UNCHANGED <<chainVars, sentVars, lastHead, recPc, recHead, got,
                   crashes>>

(* Complete, coherent and at finality: the block hash is asked for once     *)
(* more, and the outcome recorded from the receipts read before.            *)
AskCanonical ==
    /\ recPc = "bundles" /\ todo # <<>>
    /\ LET R == got[Head(todo)]
       IN Complete(R) /\ Coherent(R) /\ AtFinality(FirstBlock(R))
    /\ recPc' = "canonical"
    /\ UNCHANGED <<chainVars, sentVars, rowVars, lastHead, recHead,
                   todo, got, crashes>>

(* The node's answer; an RPC error reads as another hash. *)
StillCanonical(R) ==
    LET r == CHOOSE r \in R : TRUE
    IN r.number <= Height /\ chain[r.number].id = r.id

Canonical(b) ==
    /\ recPc = "canonical" /\ b = Head(todo)
    /\ LET R == got[b]
           n == FirstBlock(R)
       IN MayFail(
            \/ /\ StillCanonical(R)
               /\ \/ RecordOutcome(b, n)
                  \/ Finalize(b, "finalized_missing_executor_evidence", "yes", n)
            \/ /\ ~StillCanonical(R) \/ "rpc" \in Faults
               /\ Finalize(b, "finalized_noncanonical", "no", n))
    /\ NextBundle
    /\ recPc' = "bundles"
    /\ UNCHANGED <<chainVars, sentVars, lastHead, recHead, got, crashes>>

ReconcileDone ==
    /\ recPc = "bundles" /\ todo = <<>>
    /\ recPc' = "idle"
    /\ recHead' = 0
    /\ got' = [b \in Bundles |-> {}]
    /\ UNCHANGED <<chainVars, sentVars, rowVars, lastHead, todo, crashes>>

-----------------------------------------------------------------------------
(* A restart fetches the head and forgets the task; recovery retires the    *)
(* active reservations, proven cancelled or not (SubmissionLane).           *)
Restart ==
    /\ crashes < MaxCrashes
    /\ crashes' = crashes + 1
    /\ lastHead' = Tip
    /\ recPc' = "idle" /\ recHead' = 0 /\ todo' = <<>>
    /\ got' = [b \in Bundles |-> {}]
    /\ \E blocked \in SUBSET Bundles :
          reservation' = [b \in Bundles |->
             IF reservation[b] \notin Active THEN reservation[b]
             ELSE IF target[b] < Height THEN "expired"
             ELSE IF b \in blocked THEN "recovery_blocked" ELSE "cancelled"]
    /\ UNCHANGED <<chainVars, sentVars, row, outcome>>

-----------------------------------------------------------------------------
Init ==
    /\ chain = <<[id |-> 1, txs |-> {}, bad |-> {}]>>
    /\ nextId = 2 /\ top = 1
    /\ sent = {} /\ loose = {}
    /\ target = [b \in Bundles |-> 0]
    /\ row = [b \in Bundles |-> [state |-> "none", included |-> "null",
                                 block |-> 0]]
    /\ reservation = [b \in Bundles |-> "none"]
    /\ outcome = [b \in Bundles |-> [block |-> 0, canonical |-> FALSE]]
    /\ lastHead = Tip
    /\ recPc = "idle" /\ recHead = 0 /\ todo = <<>>
    /\ got = [b \in Bundles |-> {}]
    /\ crashes = 0

Reconciling ==
    \/ ListBundles \/ FetchReceipts \/ SettleBundle \/ AskCanonical
    \/ (\E b \in Bundles : Canonical(b)) \/ ReconcileDone

Next ==
    \/ Mine \/ Reorg \/ OnBlock \/ Reconciling \/ Restart
    \/ \E b \in Bundles : Send(b) \/ RecordBundle(b)

Spec == Init /\ [][Next]_vars

(* The task's RPC calls time out, so it always ends; heads keep arriving,    *)
(* and the chain grows to its bound.                                        *)
FairSpec ==
    Spec /\ WF_vars(Reconciling) /\ WF_vars(OnBlock) /\ WF_vars(Mine)

-----------------------------------------------------------------------------
(* Properties *)

Landed(b) == {l \in 1..Legs : Holds(chain, <<b, l>>)}

(* A verdict is the truth about the canonical chain, although receipts and *)
(* the last hash check are read at different times and blocks are          *)
(* reorganised in between (attribution.rs 36-231).  A victim that lands on *)
(* its own does not make a bundle included.                                *)
VerdictIsRight ==
    \A b \in Bundles :
        /\ row[b].state = "finalized_not_included" =>
              Landed(b) \subseteq Victims
        /\ row[b].state = "finalized_partial_inclusion" =>
              \A n \in 1..Height : ~(BundleTxs(b) \subseteq chain[n].txs)
        /\ row[b].included = "yes" =>
              BundleTxs(b) \subseteq chain[row[b].block].txs
        /\ row[b].state = "finalized_noncanonical" =>
              ~(BundleTxs(b) \subseteq chain[row[b].block].txs)

(* An outcome that counts in the profit is in the canonical chain, in the  *)
(* block it names: no reorganisation within the finality depth reaches it  *)
(* (store.rs 1133-1196, 1460-1523).                                        *)
OutcomesAreCanonical ==
    \A b \in Bundles :
        outcome[b].canonical =>
            /\ outcome[b].block <= Height
            /\ BundleTxs(b) \subseteq chain[outcome[b].block].txs

(* No verdict is revised by a later pass, nor by one that still holds old  *)
(* receipts; only the marking of a reorganisation reopens one, and never   *)
(* that a bundle was included.                                             *)
VerdictIsFinal ==
    [][\A b \in Bundles :
          /\ row[b].included = "yes" => row'[b] = row[b]
          /\ row[b].included = "no" =>
                row'[b] = row[b] \/ row'[b].state = "reorged_pending"]_vars

(* Every recorded bundle is settled once the chain is past its finality,   *)
(* whatever the order of targets, the limit of a pass and the heads that   *)
(* arrive while a pass is running.                                         *)
EveryBundleIsSettled ==
    \A b \in Bundles :
        (row[b].state # "none"
            /\ target[b] + Lateness + FinalityDepth <= MaxBlock)
          ~> (row[b].included # "null")
=============================================================================
