------------------------------- MODULE Executor -------------------------------
(***************************************************************************)
(* MevExecutor.sol: batches of calls that settle only if the contract keeps  *)
(* a minimum profit.  A settlement may be split over two transactions of one  *)
(* block, an opening and a closing leg, and may be funded by a flash loan.   *)
(*                                                                         *)
(* One transaction runs at a time and either commits or is undone.  What the *)
(* targets of a batch do is a transfer of at most one unit of each token; the *)
(* account a bribe goes to is a target too, called when the profit has been  *)
(* read.  The owner and the searchers are accounts of their own keys, so no  *)
(* target is one of them.  Deadlines and the cap on the base fee are left    *)
(* out: they refuse a transaction before it has done anything.              *)
(***************************************************************************)
EXTENDS Integers

CONSTANTS
    Accounts,       \* accounts that send transactions
    ExecTokens,     \* tokens the contract may hold
    Weth,           \* the token bribes can be paid in
    Tags,
    MaxHeld,        \* units of a token the contract may hold
    MaxCalls,       \* calls of a batch
    ExecLastBlock,
    MinProfits,     \* minProfit and
    Bribes          \* bribeBps of a guard

ASSUME ExecutorAssumption ==
    /\ Weth \in ExecTokens
    /\ {MaxHeld, MaxCalls, ExecLastBlock} \subseteq Nat \ {0}
    /\ MinProfits \subseteq Nat /\ 0 \in MinProfits
    /\ Bribes \subseteq Nat /\ 0 \in Bribes

VARIABLES
    execBlock,
    (* storage *)
    contractOwner, searchers,
    auditedTokens,
    baselines,      \* of the tags that have one
    held,           \* balances of the contract
    (* transient storage *)
    locked, flashArmed, v3Armed,
    snapshot,       \* audited balances, 0 where none was taken
    (* the transaction under way *)
    call,           \* its entry point and arguments, what it has yet to do and,
                    \* when a bribe is paid, what it retains; as a history, what
                    \* the armed pool pulled meanwhile
    before,         \* storage when it began
    (* history *)
    opened          \* what an opener of this block that is not closed found

accessVars == <<contractOwner, searchers, auditedTokens>>
transientVars == <<locked, flashArmed, v3Armed, snapshot>>
execVars == <<execBlock, accessVars, baselines, held, transientVars, call,
              before, opened>>

Guards == [profitToken : ExecTokens, minProfit : MinProfits, bribeBps : Bribes]

Reference == [profitToken : ExecTokens, block : 1 .. ExecLastBlock,
              balance : 0 .. MaxHeld]

NoCall == [step |-> "none"]

Partial(S, T) == UNION {[D -> T] : D \in SUBSET S}

NoSnapshot == [t \in ExecTokens |-> 0]

ExecTypeOK ==
    /\ execBlock \in 1 .. ExecLastBlock
    /\ contractOwner \in Accounts /\ searchers \subseteq Accounts
    /\ auditedTokens \subseteq ExecTokens
    /\ baselines \in Partial(Tags, Reference) /\ opened \in Partial(Tags, Reference)
    /\ held \in [ExecTokens -> 0 .. MaxHeld]
    /\ {locked, flashArmed, v3Armed} \subseteq BOOLEAN
    /\ snapshot \in [ExecTokens -> 0 .. MaxHeld]
    /\ call = NoCall
       \/ /\ call.step \in {"batch", "flash", "paying"} /\ call.phase \in 0 .. 2
          /\ call.g \in Guards /\ {call.balBefore, call.retained} \subseteq 0 .. MaxHeld
          /\ call.left \in 0 .. MaxCalls /\ call.pulled \subseteq ExecTokens

-----------------------------------------------------------------------------
(* Administration: one transaction each *)

Between == call = NoCall

Storage == [baselines |-> baselines, held |-> held]

SetSearcher(a, allowed) ==
    /\ Between
    /\ searchers' = IF allowed THEN searchers \cup {a} ELSE searchers \ {a}
    /\ UNCHANGED <<execBlock, contractOwner, auditedTokens, baselines, held,
                   transientVars, call, before, opened>>

SetOwner(a) ==
    /\ Between
    /\ contractOwner' = a
    /\ UNCHANGED <<execBlock, searchers, auditedTokens, baselines, held,
                   transientVars, call, before, opened>>

SetTokenAudit(t, status) ==
    /\ Between
    /\ auditedTokens' = IF status THEN auditedTokens \cup {t}
                        ELSE auditedTokens \ {t}
    /\ UNCHANGED <<execBlock, contractOwner, searchers, baselines, held,
                   transientVars, call, before, opened>>

Transfers(t, d) == held[t] + d \in 0 .. MaxHeld /\ held' = [held EXCEPT ![t] = @ + d]

(* sweep, what ownerCall does, and anyone's transfer to the contract *)
Moved(t, d) ==
    /\ Between
    /\ Transfers(t, d)
    /\ UNCHANGED <<execBlock, accessVars, baselines, transientVars, call, before,
                   opened>>

Without(f, tag) == [x \in DOMAIN f \ {tag} |-> f[x]]

With(f, tag, value) == [x \in DOMAIN f \cup {tag} |-> IF x = tag THEN value ELSE f[x]]

ClearExpiredBaseline(tag) ==
    /\ Between
    /\ tag \in DOMAIN baselines /\ baselines[tag].block < execBlock
    /\ baselines' = Without(baselines, tag)
    /\ UNCHANGED <<execBlock, accessVars, held, transientVars, call, before,
                   opened>>

ExecNextBlock ==
    /\ Between /\ execBlock < ExecLastBlock
    /\ execBlock' = execBlock + 1
    /\ opened' = [x \in {} |-> 0]
    /\ UNCHANGED <<accessVars, baselines, held, transientVars, call, before>>

-----------------------------------------------------------------------------
(* The entry points *)

Permitted(a) == a \in searchers \/ a = contractOwner

(* _checkGuards *)
GuardOk(phase, g) ==
    /\ g.bribeBps <= 10000
    /\ phase = 1 => g.minProfit = 0 /\ g.bribeBps = 0

(* Tokens whose balance is to be kept; one the contract has none of is not   *)
(* noted.                                                                   *)
Watched(g) == auditedTokens \ {g.profitToken}

AuditBegin(g) ==
    snapshot' = [t \in ExecTokens |->
                    IF t \in Watched(g) /\ held[t] # 0 THEN held[t]
                    ELSE snapshot[t]]

AuditHolds(g) == \A t \in Watched(g) : held[t] >= snapshot[t]

Enter(a, step, phase, tag, g, balBefore) ==
    /\ Between /\ Permitted(a) /\ ~locked /\ GuardOk(phase, g)
    /\ locked' = TRUE
    /\ before' = Storage
    /\ call' = [step |-> step, phase |-> phase, tag |-> tag, g |-> g,
                balBefore |-> balBefore, left |-> MaxCalls, loan |-> {},
                retained |-> 0, pulled |-> {}]
    /\ UNCHANGED <<execBlock, accessVars, held, v3Armed>>

Here(g) == [profitToken |-> g.profitToken, block |-> execBlock,
            balance |-> held[g.profitToken]]

(* execute, phase 1 *)
Open(a, tag, g) ==
    /\ tag \notin DOMAIN baselines
    /\ baselines' = With(baselines, tag, Here(g))
    /\ Enter(a, "batch", 1, tag, g, 0)
    /\ UNCHANGED <<flashArmed, snapshot, opened>>

MutantSpent(tag) == baselines

(* Deleted before the batch runs: a closing leg cannot be replayed. *)
Spent(tag) == Without(baselines, tag)

(* execute, phase 2 *)
Close(a, tag, g) ==
    /\ tag \in DOMAIN baselines
    /\ baselines[tag].block = execBlock
    /\ baselines[tag].profitToken = g.profitToken
    /\ baselines' = Spent(tag)
    /\ AuditBegin(g)
    /\ Enter(a, "batch", 2, tag, g, baselines[tag].balance)
    /\ UNCHANGED <<flashArmed, opened>>

(* execute, phase 0 *)
Execute(a, tag, g) ==
    /\ AuditBegin(g)
    /\ Enter(a, "batch", 0, tag, g, held[g.profitToken])
    /\ UNCHANGED <<baselines, flashArmed, opened>>

FlashExecute(a, tag, g) ==
    /\ AuditBegin(g)
    /\ flashArmed' = TRUE
    /\ Enter(a, "flash", 0, tag, g, held[g.profitToken])
    /\ UNCHANGED <<baselines, opened>>

(* The vault lends a unit of one token and calls back: receiveFlashLoan       *)
(* notes the audited balances again, the loan among them.                   *)
ReceiveFlashLoan(t) ==
    /\ call.step = "flash" /\ flashArmed
    /\ Transfers(t, 1)
    /\ snapshot' = [u \in ExecTokens |->
                       IF u \in Watched(call.g) /\ held'[u] # 0 THEN held'[u]
                       ELSE snapshot[u]]
    /\ call' = [call EXCEPT !.step = "batch", !.loan = {t}]
    /\ UNCHANGED <<execBlock, accessVars, baselines, locked, flashArmed, v3Armed,
                   before, opened>>

-----------------------------------------------------------------------------
(* The batch *)

InBatch == call.step = "batch" /\ call.left > 0

Spend == call' = [call EXCEPT !.left = @ - 1]

(* A swap, a deposit, a withdrawal *)
BatchCall ==
    /\ InBatch /\ Spend
    /\ \E delta \in [ExecTokens -> {-1, 0, 1}] :
          /\ \A t \in ExecTokens : held[t] + delta[t] \in 0 .. MaxHeld
          /\ held' = [t \in ExecTokens |-> held[t] + delta[t]]
    /\ UNCHANGED <<execBlock, accessVars, baselines, transientVars, before,
                   opened>>

ArmV3Callback ==
    /\ InBatch /\ Spend
    /\ v3Armed' = TRUE
    /\ UNCHANGED <<execBlock, accessVars, baselines, held, locked, flashArmed,
                   snapshot, before, opened>>

(* The armed pool pulls what it is owed, once: the callback is held back by   *)
(* no lock, and the pool stays armed until the transaction ends.             *)
MintCallback(T) ==
    /\ v3Armed /\ v3Armed' = FALSE
    /\ \/ InBatch /\ Spend
       \/ call.step = "paying" /\ call' = [call EXCEPT !.pulled = T]
    /\ \A t \in T : held[t] > 0
    /\ held' = [t \in ExecTokens |-> IF t \in T THEN held[t] - 1 ELSE held[t]]
    /\ UNCHANGED <<execBlock, accessVars, baselines, locked, flashArmed, snapshot,
                   before, opened>>

(* The transaction is over; transient storage ends with it. *)
EndTransaction ==
    /\ call' = NoCall
    /\ before' = NoCall
    /\ locked' = FALSE /\ flashArmed' = FALSE /\ v3Armed' = FALSE
    /\ snapshot' = NoSnapshot
    /\ UNCHANGED <<execBlock, accessVars>>

(* A target fails, gas runs out, or a check below does not hold. *)
Revert ==
    /\ call # NoCall
    /\ baselines' = before.baselines /\ held' = before.held
    /\ EndTransaction
    /\ UNCHANGED <<opened>>

Opened ==
    /\ call.step = "batch" /\ call.phase = 1
    /\ EndTransaction
    /\ opened' = With(opened, call.tag,
                    [profitToken |-> call.g.profitToken, block |-> execBlock,
                     balance |-> before.held[call.g.profitToken]])
    /\ UNCHANGED <<baselines, held>>

(* The loan goes back without a fee. *)
RepayLoan ==
    /\ call.step = "batch" /\ call.loan # {}
    /\ \E t \in call.loan : Transfers(t, -1)
    /\ call' = [call EXCEPT !.loan = {}, !.left = 0]
    /\ UNCHANGED <<execBlock, accessVars, baselines, transientVars, before,
                   opened>>

(* A share of the profit, rounded down, in two parts that cannot overflow *)
Bribe(g, profit) ==
    IF g.profitToken = Weth
    THEN (profit \div 10000) * g.bribeBps + ((profit % 10000) * g.bribeBps) \div 10000
    ELSE 0

Settling == call.step = "batch" /\ call.phase # 1 /\ call.loan = {}

(* A balance below the reference is no profit, and no loss either: a guard    *)
(* without a minimum lets it pass.                                          *)
Gross ==
    LET balance == held[call.g.profitToken] IN
    IF balance > call.balBefore THEN balance - call.balBefore ELSE 0

Owed == Bribe(call.g, Gross)

(* _settle reads the balance, pays the bribe of what it read and keeps the    *)
(* difference for its check.                                                *)
PayBribe ==
    /\ Settling /\ Owed \in 1 .. Gross
    /\ call' = [call EXCEPT !.step = "paying", !.left = 0, !.retained = Gross - Owed]
    /\ held' = [held EXCEPT ![call.g.profitToken] = @ - Owed]
    /\ UNCHANGED <<execBlock, accessVars, baselines, transientVars, before, opened>>

(* The rest of _settle, and _auditCheck, which reads the balances again *)
Settle ==
    /\ \/ Settling /\ Owed = 0 /\ Gross >= call.g.minProfit
       \/ call.step = "paying" /\ call.retained >= call.g.minProfit
    /\ AuditHolds(call.g)
    /\ EndTransaction
    /\ opened' = IF call.phase = 2 THEN Without(opened, call.tag) ELSE opened
    /\ UNCHANGED <<baselines, held>>

-----------------------------------------------------------------------------
ExecInit ==
    /\ execBlock = 1
    /\ contractOwner \in Accounts /\ searchers = {contractOwner}
    /\ auditedTokens = {} /\ baselines = [x \in {} |-> 0]
    /\ held = NoSnapshot
    /\ locked = FALSE /\ flashArmed = FALSE /\ v3Armed = FALSE
    /\ snapshot = NoSnapshot
    /\ call = NoCall /\ before = NoCall
    /\ opened = [x \in {} |-> 0]

ExecAdmin ==
    \/ \E a \in Accounts, allowed \in BOOLEAN : SetSearcher(a, allowed)
    \/ \E a \in Accounts : SetOwner(a)
    \/ \E t \in ExecTokens, status \in BOOLEAN : SetTokenAudit(t, status)
    \/ \E t \in ExecTokens, d \in {-1, 1} : Moved(t, d)
    \/ \E tag \in Tags : ClearExpiredBaseline(tag)

ExecEnter ==
    \E a \in Accounts, tag \in Tags, g \in Guards :
        Open(a, tag, g) \/ Close(a, tag, g) \/ Execute(a, tag, g)
            \/ FlashExecute(a, tag, g)

ExecNext ==
    \/ ExecAdmin \/ ExecNextBlock
    \/ ExecEnter
    \/ \E t \in ExecTokens : ReceiveFlashLoan(t)
    \/ \E T \in SUBSET ExecTokens : MintCallback(T)
    \/ BatchCall \/ ArmV3Callback
    \/ Revert \/ Opened \/ RepayLoan \/ PayBribe \/ Settle

ExecSpec == ExecInit /\ [][ExecNext]_execVars

-----------------------------------------------------------------------------
(* Properties *)

(* A leg that settles leaves the contract with the minimum profit on top of  *)
(* what it held before its strategy began, which for a closing leg is before *)
(* an opener of the same block that nothing has closed yet, and with no less *)
(* of any other audited token, whatever callbacks, loans, bribes, replays    *)
(* and administration came in between (MevExecutor.sol 9-21, 37-47, 112-117).*)
(* The check is of the balance read before the bribe is paid (506, 525): what *)
(* a pool that is still armed pulls of the profit token during that payment  *)
(* counts as kept, and nothing else does.  A minimum of zero asks for        *)
(* nothing: _settle lets a loss pass then.                                  *)
SettlementKeepsItsProfit ==
    [][Settle =>
          LET g == call.g
              pulled == IF g.profitToken \in call.pulled THEN 1 ELSE 0 IN
          /\ call.phase = 2 =>
                call.tag \in DOMAIN opened /\ opened[call.tag].block = execBlock
          /\ g.minProfit > 0 =>
                held'[g.profitToken] + pulled >= g.minProfit +
                    IF call.phase = 2 THEN opened[call.tag].balance
                    ELSE before.held[g.profitToken]
          /\ \A t \in Watched(g) : held'[t] >= before.held[t]]_execVars
=============================================================================
