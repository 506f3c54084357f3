----------------------------- MODULE MCServices -----------------------------
(***************************************************************************)
(* Two components that run beside the submission lane and share nothing with *)
(* each other: the CoW trader and the block flow.  A behaviour is one of one  *)
(* of them, chosen in its initial state; the other stays as it began.        *)
(*                                                                         *)
(* Blocks from the relays are combined with the bids of the relays only: the *)
(* feeds differ in the event they send, and the delivery of blocks does not  *)
(* look at them.                                                            *)
(***************************************************************************)
EXTENDS CowTrader, BlockFlow

VARIABLE part

servicesVars == <<part, cowVars, flowVars>>

Cow(A)  == part = "cow"  /\ A /\ UNCHANGED <<part, flowVars>>
Flow(A) == part = "flow" /\ A /\ UNCHANGED <<part, cowVars>>

ServicesInit ==
    /\ part \in {"cow", "flow"} /\ CowInit /\ FlowInit
    /\ part = "cow" => delivery = "chain" /\ feed = "tx"
    /\ delivery = "relay" => feed = "bid"

ServicesNext == Cow(CowNext) \/ Flow(FlowNext)

(* Every call to the order book has a timeout; op_lock is tokio's mutex and   *)
(* serves its waiters in order; a book that has heard a DELETE acts on it.   *)
CowFairness ==
    /\ \A t \in CowTasks : WF_servicesVars(Cow(CowStep(t)))
    /\ SF_servicesVars(Cow(SendDelete(Trader)))
    /\ SF_servicesVars(Cow(Post(Trader) \/ NoUidLeft(Trader)))
    /\ WF_servicesVars(Cow(CowTraderStep))
    /\ \A t \in CowTasks : WF_servicesVars(Cow(BookCancels(t)))

(* The loop goes on while it has something to do: the calls it awaits time    *)
(* out.  Nothing is assumed of evaluations, of the worker or of the sources. *)
FlowFairness == WF_servicesVars(Flow(FlowLoop))

ServicesSpec ==
    /\ ServicesInit /\ [][ServicesNext]_servicesVars
    /\ CowFairness /\ FlowFairness
=============================================================================
