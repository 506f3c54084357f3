------------------------------ MODULE Simulation ------------------------------
(***************************************************************************)
(* From a candidate to its simulated result: the gates of Engine::consider,  *)
(* then one of three backends.  A live candidate runs on a fork that follows  *)
(* the head, a replayed one on a fork that is pinned to the parent of its     *)
(* block, a candidate from preconfirmed state in one call to the provider.   *)
(*                                                                         *)
(* A fork is one anvil process behind one lock.  A simulation pins it, takes  *)
(* a snapshot, executes the signed bytes, mines, reads the result and reverts *)
(* to the snapshot; all of it is one future that the caller drops when the    *)
(* timeout of Simulator::run has passed.                                    *)
(***************************************************************************)
EXTENDS Naturals, FiniteSets

CONSTANTS
    Candidates,
    NoCandidate,
    SimLastBlock,
    ReforkEvery,        \* sim.refork_every_blocks
    SimFaults           \* subset of {"reset", "prepare", "snapshot", "call",
                        \*            "revert", "timeout"}

ASSUME SimulationAssumption ==
    /\ IsFiniteSet(Candidates) /\ NoCandidate \notin Candidates
    /\ {SimLastBlock, ReforkEvery} \subseteq Nat \ {0}
    /\ SimFaults \subseteq {"reset", "prepare", "snapshot", "call", "revert",
                            "timeout"}

VARIABLES
    simHead,
    (* the anvil processes *)
    pinned,         \* the block the fork's state is really that of
    code,           \* the executor is installed
    pooled,         \* transactions wait in the fork's pool
    extra,          \* a block of ours has been mined on top
    (* AnvilSim *)
    forkedAt,
    lockedBy,
    saved,          \* the fork's pool and block at the snapshot
    (* candidates *)
    lane,           \* "live", "replay" or "preconfirmed"
    parent,         \* target_block - 1
    at,             \* where the candidate is
    inFlight,       \* candidates between begin and end of the risk engine
    (* history *)
    tainted         \* forks not reset since a simulation was dropped on them,
                    \* or failed to prepare or to roll them back

anvilVars == <<pinned, code, pooled, extra>>
forkVars == <<anvilVars, forkedAt, lockedBy, saved>>
candidateVars == <<lane, parent, at, inFlight>>
simVars == <<simHead, forkVars, candidateVars, tainted>>

Forks == {"live", "replay"}

Lanes == Forks \cup {"preconfirmed"}

Steps == {"new", "wait", "reset", "prepare", "snapshot", "send", "mine",
          "read", "revert", "provider"}

Ends == {"gated", "failed", "succeeded", "reverted"}

SimTypeOK ==
    /\ simHead \in 1 .. SimLastBlock
    /\ pinned \in [Forks -> 1 .. SimLastBlock]
    /\ forkedAt \in [Forks -> 1 .. SimLastBlock]
    /\ {code, pooled, extra} \subseteq [Forks -> BOOLEAN]
    /\ lockedBy \in [Forks -> Candidates \cup {NoCandidate}]
    /\ saved \in [Forks -> BOOLEAN \X BOOLEAN]
    /\ lane \in [Candidates -> Lanes]
    /\ parent \in [Candidates -> 0 .. SimLastBlock]
    /\ at \in [Candidates -> Steps \cup Ends]
    /\ inFlight \subseteq Candidates /\ tainted \subseteq Forks

SimBlock ==
    /\ simHead < SimLastBlock
    /\ simHead' = simHead + 1
    /\ UNCHANGED <<forkVars, candidateVars, tainted>>

-----------------------------------------------------------------------------
(* consider *)

To(c, step) == at' = [at EXCEPT ![c] = step]

(* Risk, inventory, the victim's bytes or the pin refuse a candidate.  The    *)
(* parent of a live candidate is the head it was found at, that of a replayed *)
(* one any earlier block.                                                   *)
Consider(c) ==
    /\ at[c] = "new"
    /\ \/ To(c, "gated") /\ UNCHANGED <<lane, parent, inFlight>>
       \/ /\ \E l \in Lanes :
                /\ lane' = [lane EXCEPT ![c] = l]
                /\ \E b \in IF l = "replay" THEN 1 .. simHead ELSE {simHead} :
                      parent' = [parent EXCEPT ![c] = b]
                /\ To(c, IF l = "preconfirmed" THEN "provider" ELSE "wait")
          /\ inFlight' = inFlight \cup {c}
    /\ UNCHANGED <<simHead, forkVars, tainted>>

Finish(c, end) == To(c, end) /\ inFlight' = inFlight \ {c}

Results == {"succeeded", "reverted"}

(* simulate_pinned: one call, without state of ours. *)
ProviderAnswers(c) ==
    /\ at[c] = "provider"
    /\ \E end \in Results \cup {"failed"} : Finish(c, end)
    /\ UNCHANGED <<simHead, forkVars, lane, parent, tainted>>

-----------------------------------------------------------------------------
(* AnvilSim *)

Holding(c, step) == at[c] = step /\ lockedBy[lane[c]] = c

Unlock(f) == lockedBy' = [lockedBy EXCEPT ![f] = NoCandidate]

MutantNeedsReset(f, block) == block > forkedAt[f]

(* The live fork follows the head by steps of ReforkEvery and never goes     *)
(* back; the replay fork goes to the very block.                            *)
NeedsReset(f, block) ==
    IF f = "replay" THEN block # forkedAt[f]
    ELSE block > forkedAt[f] /\ block - forkedAt[f] >= ReforkEvery

TakeFork(c) ==
    LET f == lane[c] IN
    /\ at[c] = "wait" /\ lockedBy[f] = NoCandidate
    /\ lockedBy' = [lockedBy EXCEPT ![f] = c]
    /\ To(c, IF NeedsReset(f, parent[c]) THEN "reset" ELSE "snapshot")
    /\ UNCHANGED <<simHead, anvilVars, forkedAt, saved, lane, parent, inFlight,
                   tainted>>

(* anvil_reset: the state of a block, without anything of ours. *)
ResetFork(f, block) ==
    /\ pinned' = [pinned EXCEPT ![f] = block]
    /\ code' = [code EXCEPT ![f] = FALSE]
    /\ pooled' = [pooled EXCEPT ![f] = FALSE]
    /\ extra' = [extra EXCEPT ![f] = FALSE]

ResetReturns(c) ==
    /\ Holding(c, "reset")
    /\ ResetFork(lane[c], parent[c])
    /\ forkedAt' = [forkedAt EXCEPT ![lane[c]] = parent[c]]
    /\ tainted' = tainted \ {lane[c]}
    /\ To(c, "prepare")
    /\ UNCHANGED <<simHead, lockedBy, saved, lane, parent, inFlight>>

(* prepare_state: code, owner and balances of the fixture *)
StatePrepared(c) ==
    /\ Holding(c, "prepare")
    /\ code' = [code EXCEPT ![lane[c]] = TRUE]
    /\ To(c, "snapshot")
    /\ UNCHANGED <<simHead, pinned, pooled, extra, forkedAt, lockedBy, saved,
                   lane, parent, inFlight, tainted>>

Snapshot(c) ==
    /\ Holding(c, "snapshot")
    /\ saved' = [saved EXCEPT ![lane[c]] = <<pooled[lane[c]], extra[lane[c]]>>]
    /\ To(c, "send")
    /\ UNCHANGED <<simHead, anvilVars, forkedAt, lockedBy, lane, parent, inFlight,
                   tainted>>

(* A call that fails before it has done anything ends the simulation. *)
CallFails(c) ==
    /\ \E fault \in SimFaults \cap {"reset", "prepare", "snapshot"} :
          /\ Holding(c, fault)
          /\ tainted' = IF fault = "prepare" THEN tainted \cup {lane[c]} ELSE tainted
    /\ Finish(c, "failed") /\ Unlock(lane[c])
    /\ UNCHANGED <<simHead, anvilVars, forkedAt, saved, lane, parent>>

(* The balances are read, mining is stopped, nonces are set and the payload is*)
(* handed to the fork, as far as it takes it.                               *)
SendPayload(c) ==
    /\ Holding(c, "send")
    /\ pooled' = [pooled EXCEPT ![lane[c]] = TRUE]
    /\ To(c, "mine")
    /\ UNCHANGED <<simHead, pinned, code, extra, forkedAt, lockedBy, saved, lane,
                   parent, inFlight, tainted>>

MinePayload(c) ==
    /\ Holding(c, "mine")
    /\ pooled' = [pooled EXCEPT ![lane[c]] = FALSE]
    /\ extra' = [extra EXCEPT ![lane[c]] = TRUE]
    /\ To(c, "read")
    /\ UNCHANGED <<simHead, pinned, code, forkedAt, lockedBy, saved, lane, parent,
                   inFlight, tainted>>

ReadResult(c) ==
    /\ Holding(c, "read")
    /\ To(c, "revert")
    /\ UNCHANGED <<simHead, forkVars, lane, parent, inFlight, tainted>>

(* A balance that cannot be read: the fork is rolled back all the same. *)
InnerFails(c) ==
    /\ "call" \in SimFaults
    /\ Holding(c, "send") \/ Holding(c, "read")
    /\ To(c, "revert")
    /\ UNCHANGED <<simHead, forkVars, lane, parent, inFlight, tainted>>

Rollback(f) == saved[f]

(* evm_revert, whose answer is not looked at. *)
RevertFork(c) ==
    LET f == lane[c] IN
    /\ Holding(c, "revert")
    /\ \E ok \in {TRUE} \cup {FALSE : x \in SimFaults \cap {"revert"}} :
          LET after == IF ok THEN Rollback(f) ELSE <<pooled[f], extra[f]>> IN
          /\ pooled' = [pooled EXCEPT ![f] = after[1]]
          /\ extra' = [extra EXCEPT ![f] = after[2]]
          /\ tainted' = IF ok THEN tainted ELSE tainted \cup {f}
    /\ \E end \in Results \cup {"failed" : x \in SimFaults \cap {"call"}} :
          Finish(c, end)
    /\ Unlock(f)
    /\ UNCHANGED <<simHead, pinned, code, forkedAt, saved, lane, parent>>

(* Simulator::run gives up and drops the future: the call it was awaiting may*)
(* have reached the fork, nothing after it is called.                       *)
TimesOut(c) ==
    LET f == lane[c] IN
    /\ "timeout" \in SimFaults /\ at[c] \in Steps \ {"new"}
    /\ \/ UNCHANGED anvilVars
       \/ Holding(c, "reset") /\ ResetFork(f, parent[c])
       \/ /\ Holding(c, "prepare") /\ code' = [code EXCEPT ![f] = TRUE]
          /\ UNCHANGED <<pinned, pooled, extra>>
       \/ /\ Holding(c, "send") /\ pooled' = [pooled EXCEPT ![f] = TRUE]
          /\ UNCHANGED <<pinned, code, extra>>
       \/ /\ Holding(c, "mine") /\ extra' = [extra EXCEPT ![f] = TRUE]
          /\ pooled' = [pooled EXCEPT ![f] = FALSE]
          /\ UNCHANGED <<pinned, code>>
       \/ /\ Holding(c, "revert")
          /\ pooled' = [pooled EXCEPT ![f] = saved[f][1]]
          /\ extra' = [extra EXCEPT ![f] = saved[f][2]]
          /\ UNCHANGED <<pinned, code>>
    /\ tainted' = tainted \cup {g \in Forks : lockedBy[g] = c}
    /\ lockedBy' = [g \in Forks |-> IF lockedBy[g] = c THEN NoCandidate
                                    ELSE lockedBy[g]]
    /\ Finish(c, "failed")
    /\ UNCHANGED <<simHead, forkedAt, saved, lane, parent>>

-----------------------------------------------------------------------------
SimInit ==
    /\ simHead = 1
    /\ pinned = [f \in Forks |-> 1] /\ forkedAt = [f \in Forks |-> 1]
    /\ code = [f \in Forks |-> TRUE]
    /\ pooled = [f \in Forks |-> FALSE] /\ extra = [f \in Forks |-> FALSE]
    /\ lockedBy = [f \in Forks |-> NoCandidate]
    /\ saved = [f \in Forks |-> <<FALSE, FALSE>>]
    /\ lane = [c \in Candidates |-> "live"]
    /\ parent = [c \in Candidates |-> 0]
    /\ at = [c \in Candidates |-> "new"]
    /\ inFlight = {} /\ tainted = {}

SimStep(c) ==
    \/ Consider(c) \/ ProviderAnswers(c)
    \/ TakeFork(c) \/ ResetReturns(c) \/ StatePrepared(c) \/ Snapshot(c)
    \/ CallFails(c) \/ SendPayload(c) \/ MinePayload(c) \/ ReadResult(c)
    \/ InnerFails(c) \/ RevertFork(c) \/ TimesOut(c)

SimNext == SimBlock \/ \E c \in Candidates : SimStep(c)

SimSpec == SimInit /\ [][SimNext]_simVars

-----------------------------------------------------------------------------
(* Properties *)

Clean(f) == code[f] /\ ~pooled[f] /\ ~extra[f]

(* What a candidate is measured on is the state it was found in: its fork    *)
(* holds nothing of another simulation and has the executor, the replay fork  *)
(* stands at the very parent of its block and the live fork less than        *)
(* ReforkEvery blocks behind the head the candidate saw, whichever candidates *)
(* reset the forks in between and whichever calls fail (sim/anvil.rs          *)
(* 467-597).  Only a simulation that was dropped by its timeout, or that      *)
(* failed to prepare or to roll back, spoils a fork, until its next reset.   *)
MeasuredOnItsState ==
    \A c \in Candidates :
        LET f == lane[c] IN
        (Holding(c, "send") /\ f \notin tainted) =>
            /\ Clean(f)
            /\ IF f = "replay" THEN pinned[f] = parent[c]
               ELSE parent[c] < pinned[f] + ReforkEvery

(* sim/anvil.rs 567: "Always roll the fork back, even if the simulation blew  *)
(* up."  So a fork that nobody uses holds nothing of a simulation.          *)
ForkIsRolledBack ==
    \A f \in Forks : lockedBy[f] = NoCandidate => ~pooled[f] /\ ~extra[f]
=============================================================================
