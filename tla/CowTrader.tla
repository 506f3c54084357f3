------------------------------ MODULE CowTrader ------------------------------
(***************************************************************************)
(* The write side of the CoW integration: orders are signed and posted to a  *)
(* remote order book, tracked in memory, polled by the engine's task, and    *)
(* cancelled by an operator or when the bot stops being live.                *)
(*                                                                         *)
(* Four parties move: the order book, the API's tasks, the engine's task     *)
(* (Trader) and the SQLite row of every order.  Amounts and fees are left    *)
(* out; a uid is a model value, since it is the digest of the whole order.   *)
(***************************************************************************)
EXTENDS Naturals, FiniteSets

CONSTANTS
    Uids,           \* orders that may ever be placed
    ApiTasks,       \* requests the API serves at the same time
    Trader,         \* the task of spawn_cow_trader
    NoTask, NoUid,
    MaxOpen,        \* COW_TRADER_MAX_OPEN_ORDERS
    CowFaults       \* subset of {"post", "get", "delete", "db"}

ASSUME CowAssumption ==
    /\ IsFiniteSet(Uids) /\ NoUid \notin Uids
    /\ Trader \notin ApiTasks /\ NoTask \notin ApiTasks \cup {Trader}
    /\ MaxOpen \in Nat \ {0}
    /\ CowFaults \subseteq {"post", "get", "delete", "db"}

VARIABLES
    book,           \* the remote order book
    posted,         \* orders sent that the book may still receive
    cowRow,         \* cow_orders.status
    tracked,        \* TraderState.open
    pegged,         \* PlacedOrder.placed_by = "auto-peg"
    opLock,         \* CowTrader.op_lock
    cowArmed,       \* mode.live() && !risk.is_tripped()
    cowPc, cowUid,  \* where a task awaits, and the order it is about
    todo,           \* orders a pass has not done yet
    seen,           \* the status the last poll answered
    stillOpen,      \* orders reconcile has counted as open
    (* history *)
    answered,       \* open orders whose acceptance this process was told of
    asked,          \* open orders this process has sent a DELETE for
    lostTrack,      \* open orders of a DELETE that failed, or of a dead process
    pollFailed      \* a poll has failed since the process started

cowTasks == <<opLock, cowPc, cowUid, todo, seen, stillOpen>>
cowHistory == <<answered, asked, lostTrack, pollFailed>>
cowVars == <<book, posted, cowRow, tracked, pegged, cowArmed, cowTasks,
             cowHistory>>

CowTasks == ApiTasks \cup {Trader}

(* "closed" stands for "fulfilled" and "expired", which differ in statistics. *)
CowTerminal == {"closed", "cancelled"}

CowStatus == {"open"} \cup CowTerminal

CowSteps == {"idle", "start", "place", "post", "cancel", "delete",
             "poll", "get", "fold", "row"}

CowTypeOK ==
    /\ book \in [Uids -> {"absent"} \cup CowStatus]
    /\ cowRow \in [Uids -> {"none"} \cup CowStatus]
    /\ posted \subseteq Uids /\ tracked \subseteq Uids /\ pegged \subseteq tracked
    /\ opLock \in CowTasks \cup {NoTask}
    /\ cowArmed \in BOOLEAN
    /\ cowPc \in [CowTasks -> CowSteps]
    /\ cowUid \in [CowTasks -> Uids \cup {NoUid}]
    /\ todo \in [CowTasks -> SUBSET Uids]
    /\ seen \in CowStatus
    /\ stillOpen \in 0 .. Cardinality(Uids)
    /\ answered \subseteq Uids /\ asked \subseteq Uids /\ lostTrack \subseteq Uids
    /\ pollFailed \in BOOLEAN

GoTo(t, step) == cowPc' = [cowPc EXCEPT ![t] = step]

(* What a task does after its operation: the engine's task sleeps until the  *)
(* next tick, a request has been answered.                                  *)
Release(t) == opLock' = NoTask /\ cowUid' = [cowUid EXCEPT ![t] = NoUid]

(* A statement on the row: without effect when there is no row, or it fails. *)
Persist(u, status) ==
    cowRow' \in {[cowRow EXCEPT ![u] = IF cowRow[u] = "none" THEN "none"
                                       ELSE status]}
                \cup (IF "db" \in CowFaults THEN {cowRow} ELSE {})

-----------------------------------------------------------------------------
(* The order book *)

BookAccepts(u) ==
    /\ u \in posted
    /\ posted' = posted \ {u}
    /\ book' = [book EXCEPT ![u] = "open"]
    /\ UNCHANGED <<cowRow, tracked, pegged, cowArmed, cowTasks, cowHistory>>

(* The history of an order ends with it. *)
BookEnds(u, end) ==
    /\ book[u] = "open"
    /\ book' = [book EXCEPT ![u] = end]
    /\ answered' = answered \ {u} /\ asked' = asked \ {u}
    /\ lostTrack' = lostTrack \ {u}
    /\ UNCHANGED <<posted, cowRow, tracked, pegged, cowArmed, cowTasks,
                   pollFailed>>

(* Solvers fill an order, or it is past its validTo. *)
BookCloses(u) == BookEnds(u, "closed")

BookCancels(t) == cowPc[t] = "delete" /\ BookEnds(cowUid[t], "cancelled")

-----------------------------------------------------------------------------
(* Placing: POST /api/cow/order, the auto peg, CowTrader::place *)

(* A request that passes validation and, if it names no fee, was quoted one. *)
PlaceRequested(a) ==
    /\ cowPc[a] = "idle"
    /\ GoTo(a, "place")
    /\ UNCHANGED <<book, posted, cowRow, tracked, pegged, opLock, cowArmed,
                   cowUid, todo, seen, stillOpen, cowHistory>>

(* A uid is the digest of the order with its owner and deadline: an order    *)
(* that differs from every earlier one has a uid of its own.                *)
FreshUids ==
    {u \in Uids : book[u] = "absent" /\ u \notin posted
                  /\ \A t \in CowTasks : cowUid[t] # u}

Post(t) ==
    /\ cowPc[t] = "place" /\ opLock = NoTask
    /\ opLock' = t
    /\ \E u \in FreshUids :
          /\ cowUid' = [cowUid EXCEPT ![t] = u]
          /\ posted' = posted \cup {u}
    /\ GoTo(t, "post")
    /\ UNCHANGED <<book, cowRow, tracked, pegged, cowArmed, todo, seen,
                   stillOpen, cowHistory>>

(* Bound of the model: an order for which no uid is left is rejected. *)
NoUidLeft(t) ==
    /\ cowPc[t] = "place" /\ opLock = NoTask /\ FreshUids = {}
    /\ GoTo(t, "idle")
    /\ UNCHANGED <<book, posted, cowRow, tracked, pegged, opLock, cowArmed,
                   cowUid, todo, seen, stillOpen, cowHistory>>

(* The row of an order that the book took, in place of an older one *)
RecordOrder(u) ==
    cowRow' \in {[cowRow EXCEPT ![u] = "open"]}
                \cup (IF "db" \in CowFaults THEN {cowRow} ELSE {})

(* The answer names the uid that was computed here: row, then registry. *)
Placed(t) ==
    LET u == cowUid[t] IN
    /\ cowPc[t] = "post" /\ book[u] # "absent"
    /\ RecordOrder(u)
    /\ tracked' = tracked \cup {u}
    /\ pegged' = IF t = Trader THEN pegged \cup {u} ELSE pegged
    /\ answered' = IF book[u] = "open" THEN answered \cup {u} ELSE answered
    /\ Release(t) /\ GoTo(t, "idle")
    /\ UNCHANGED <<book, posted, cowArmed, todo, seen, stillOpen, asked,
                   lostTrack, pollFailed>>

(* Rejected, or nothing usable was heard: the book may have the order, or    *)
(* get it later, all the same.                                              *)
PlaceFails(t) ==
    LET u == cowUid[t] IN
    /\ cowPc[t] = "post"
    /\ \/ u \in posted /\ posted' = posted \ {u}
       \/ "post" \in CowFaults /\ UNCHANGED posted
    /\ Release(t) /\ GoTo(t, "idle")
    /\ UNCHANGED <<book, cowRow, tracked, pegged, cowArmed, todo, seen,
                   stillOpen, cowHistory>>

-----------------------------------------------------------------------------
(* Cancelling: POST /api/cow/cancel, CowTrader::cancel and cancel_all *)

(* One uid, whether or not it is tracked, or all that are. *)
CancelRequested(a) ==
    /\ cowPc[a] = "idle"
    /\ \E uids \in {{u} : u \in {v \in Uids : book[v] # "absent"}} \cup {tracked} :
          todo' = [todo EXCEPT ![a] = uids]
    /\ GoTo(a, "cancel")
    /\ UNCHANGED <<book, posted, cowRow, tracked, pegged, opLock, cowArmed,
                   cowUid, seen, stillOpen, cowHistory>>

SendDelete(t) ==
    /\ cowPc[t] = "cancel" /\ opLock = NoTask
    /\ \E u \in todo[t] :
          /\ opLock' = t
          /\ cowUid' = [cowUid EXCEPT ![t] = u]
          /\ asked' = IF book[u] = "open" THEN asked \cup {u} ELSE asked
          /\ todo' = [todo EXCEPT ![t] = @ \ {u}]
    /\ GoTo(t, "delete")
    /\ UNCHANGED <<book, posted, cowRow, tracked, pegged, cowArmed, seen,
                   stillOpen, answered, lostTrack, pollFailed>>

(* Whatever the book has answered, the order leaves the registry and its row *)
(* says it is cancelled.                                                    *)
CancelReturns(t) ==
    LET u == cowUid[t] IN
    /\ cowPc[t] = "delete"
    /\ book[u] = "open" => "delete" \in CowFaults
    /\ tracked' = tracked \ {u} /\ pegged' = pegged \ {u}
    /\ Persist(u, "cancelled")
    /\ lostTrack' = IF book[u] = "open" THEN lostTrack \cup {u} ELSE lostTrack
    /\ Release(t) /\ GoTo(t, "cancel")
    /\ UNCHANGED <<book, posted, cowArmed, todo, seen, stillOpen, answered, asked,
                   pollFailed>>

CancelsDone(t) ==
    /\ cowPc[t] = "cancel" /\ todo[t] = {}
    /\ GoTo(t, "idle")
    /\ UNCHANGED <<book, posted, cowRow, tracked, pegged, opLock, cowArmed,
                   cowUid, todo, seen, stillOpen, cowHistory>>

-----------------------------------------------------------------------------
(* The engine's task: spawn_cow_trader, reconcile, cow_auto_peg *)

(* Before its first tick the task cancels what is tracked if the switch is    *)
(* tripped, which is one of the reasons not to be armed.                    *)
TraderStarts ==
    /\ cowPc[Trader] = "start"
    /\ \E tripped \in {FALSE, ~cowArmed} :
          /\ todo' = [todo EXCEPT ![Trader] = IF tripped THEN tracked ELSE {}]
          /\ GoTo(Trader, IF tripped THEN "cancel" ELSE "idle")
    /\ UNCHANGED <<book, posted, cowRow, tracked, pegged, opLock, cowArmed,
                   cowUid, seen, stillOpen, cowHistory>>

MutantTick ==
    /\ cowPc[Trader] = "idle"
    /\ todo' = [todo EXCEPT ![Trader] = tracked]
    /\ stillOpen' = 0
    /\ GoTo(Trader, "poll")
    /\ UNCHANGED <<book, posted, cowRow, tracked, pegged, opLock, cowArmed,
                   cowUid, seen, cowHistory>>

Tick ==
    /\ cowPc[Trader] = "idle"
    /\ todo' = [todo EXCEPT ![Trader] = tracked]
    /\ stillOpen' = 0
    /\ GoTo(Trader, IF cowArmed THEN "poll" ELSE "cancel")
    /\ UNCHANGED <<book, posted, cowRow, tracked, pegged, opLock, cowArmed,
                   cowUid, seen, cowHistory>>

PollNext ==
    /\ cowPc[Trader] = "poll"
    /\ \E u \in todo[Trader] :
          /\ cowUid' = [cowUid EXCEPT ![Trader] = u]
          /\ todo' = [todo EXCEPT ![Trader] = @ \ {u}]
    /\ GoTo(Trader, "get")
    /\ UNCHANGED <<book, posted, cowRow, tracked, pegged, opLock, cowArmed, seen,
                   stillOpen, cowHistory>>

StatusAnswered ==
    /\ cowPc[Trader] = "get"
    /\ seen' = book[cowUid[Trader]]
    /\ GoTo(Trader, "fold")
    /\ UNCHANGED <<book, posted, cowRow, tracked, pegged, opLock, cowArmed,
                   cowUid, todo, stillOpen, cowHistory>>

MutantPollForgets ==
    /\ tracked' = tracked \ {cowUid[Trader]}
    /\ pegged' = pegged \ {cowUid[Trader]}

PollKeeps == UNCHANGED <<tracked, pegged>>

(* No answer, or none that can be read: not counted as open, still tracked.  *)
PollFails ==
    /\ cowPc[Trader] = "get" /\ "get" \in CowFaults
    /\ pollFailed' = TRUE
    /\ PollKeeps
    /\ GoTo(Trader, "poll")
    /\ UNCHANGED <<book, posted, cowRow, opLock, cowArmed, cowUid, todo, seen,
                   stillOpen, answered, asked, lostTrack>>

(* Under the registry's lock: an order cancelled meanwhile is left alone. *)
Fold ==
    LET u == cowUid[Trader] IN
    /\ cowPc[Trader] = "fold"
    /\ LET gone == IF seen \in CowTerminal THEN {u} ELSE {} IN
          tracked' = tracked \ gone /\ pegged' = pegged \ gone
    /\ GoTo(Trader, IF u \in tracked THEN "row" ELSE "poll")
    /\ seen' = IF u \in tracked THEN seen ELSE "open"
    /\ UNCHANGED <<book, posted, cowRow, opLock, cowArmed, cowUid, todo,
                   stillOpen, cowHistory>>

WriteStatus ==
    /\ cowPc[Trader] = "row"
    /\ Persist(cowUid[Trader], seen)
    /\ stillOpen' = IF seen \in CowTerminal THEN stillOpen ELSE stillOpen + 1
    /\ GoTo(Trader, "poll")
    /\ seen' = "open"
    /\ UNCHANGED <<book, posted, tracked, pegged, opLock, cowArmed, cowUid, todo,
                   cowHistory>>

MutantPegFits == stillOpen <= MaxOpen

PegFits == stillOpen < MaxOpen

(* All polled: place the peg if the count leaves room for it and a pool has  *)
(* a price; whether the bot is still armed is not asked again.              *)
PollDone ==
    /\ cowPc[Trader] = "poll" /\ todo[Trader] = {}
    /\ \E step \in {"idle"} \cup (IF PegFits THEN {"place"} ELSE {}) :
          GoTo(Trader, step)
    /\ cowUid' = [cowUid EXCEPT ![Trader] = NoUid]
    /\ stillOpen' = 0
    /\ UNCHANGED <<book, posted, cowRow, tracked, pegged, opLock, cowArmed, todo,
                   seen, cowHistory>>

-----------------------------------------------------------------------------
(* The kill switch trips or is reset, the operator pauses or resumes. *)
CowArm ==
    /\ cowArmed' = ~cowArmed
    /\ UNCHANGED <<book, posted, cowRow, tracked, pegged, cowTasks, cowHistory>>

(* CowTrader::new: the registry of a new process is empty, whatever the      *)
(* rows say.                                                                *)
CowMemory ==
    /\ tracked' = {} /\ pegged' = {}
    /\ opLock' = NoTask
    /\ cowPc' = [t \in CowTasks |-> IF t = Trader THEN "start" ELSE "idle"]
    /\ cowUid' = [t \in CowTasks |-> NoUid]
    /\ todo' = [t \in CowTasks |-> {}]
    /\ seen' = "open" /\ stillOpen' = 0
    /\ answered' = {} /\ asked' = {} /\ pollFailed' = FALSE

CowRestart ==
    /\ CowMemory
    /\ lostTrack' = lostTrack \cup posted \cup {u \in Uids : book[u] = "open"}
    /\ UNCHANGED <<book, posted, cowRow, cowArmed>>

CowInit ==
    /\ book = [u \in Uids |-> "absent"] /\ posted = {}
    /\ cowRow = [u \in Uids |-> "none"]
    /\ tracked = {} /\ pegged = {}
    /\ opLock = NoTask
    /\ cowArmed = TRUE
    /\ cowPc = [t \in CowTasks |-> IF t = Trader THEN "start" ELSE "idle"]
    /\ cowUid = [t \in CowTasks |-> NoUid]
    /\ todo = [t \in CowTasks |-> {}]
    /\ seen = "open" /\ stillOpen = 0
    /\ answered = {} /\ asked = {} /\ lostTrack = {} /\ pollFailed = FALSE

(* Steps of a task between two awaits. *)
CowApiStep(a) == PlaceRequested(a) \/ CancelRequested(a)

CowStep(t) ==
    \/ Post(t) \/ NoUidLeft(t) \/ Placed(t) \/ PlaceFails(t)
    \/ SendDelete(t) \/ CancelReturns(t) \/ CancelsDone(t)

CowTraderStep ==
    \/ TraderStarts \/ Tick \/ PollNext \/ StatusAnswered \/ PollFails
    \/ Fold \/ WriteStatus \/ PollDone

CowBook ==
    \/ \E u \in Uids : BookAccepts(u) \/ BookCloses(u)
    \/ \E t \in CowTasks : BookCancels(t)

CowNext ==
    \/ CowBook
    \/ \E a \in ApiTasks : CowApiStep(a)
    \/ \E t \in CowTasks : CowStep(t)
    \/ CowTraderStep
    \/ CowArm
    \/ CowRestart

CowSpec == CowInit /\ [][CowNext]_cowVars

-----------------------------------------------------------------------------
(* Properties *)

(* An order the book has open, whose acceptance this process was told of and *)
(* which it never asked to cancel, is in the registry, so that a trip finds  *)
(* it: no poll that fails or is overtaken, no cancellation of another order  *)
(* and no placement next to it loses it (cow_trade.rs 471-576, 621-714).    *)
LiveOrderIsTracked ==
    \A u \in answered \ asked : book[u] = "open" => u \in tracked

(* The engine's own pegs stay within the cap, though it is checked against a *)
(* count of polls taken one after another while requests place and cancel;   *)
(* only a failed poll can let one more in (engine.rs 2520-2617).            *)
PegsAreCapped ==
    ~pollFailed => Cardinality(pegged) <= MaxOpen

(* When the bot stops being live every order it tracks leaves the book, or   *)
(* its cancellation failed, or the process died (engine.rs 2520-2535,       *)
(* cow_trade.rs 685-727).                                                   *)
TripClosesOrders ==
    \A u \in Uids :
        (~cowArmed /\ u \in tracked)
            ~> (cowArmed \/ book[u] # "open" \/ u \in lostTrack)
=============================================================================
