--------------------------- MODULE DeliveredBlocks ---------------------------
(***************************************************************************)
(* What the delivered-block pipeline promises: every block of the feed is    *)
(* scored at most once, in the order of the chain; a block that is not       *)
(* scored is known to have been missed; a bounded number of blocks waits.    *)
(***************************************************************************)
EXTENDS Naturals, FiniteSets

CONSTANT Bound          \* blocks that may wait

VARIABLES
    consecutive,        \* the feed names every block, and not only some
    newest,             \* newest block accounted for, 0 before the first
    waiting,
    missed,
    lastScored

deliveredVars == <<consecutive, newest, waiting, missed, lastScored>>

Follows(n) == IF consecutive THEN newest > 0 /\ n = newest + 1 ELSE n > newest

Begin(n) ==
    /\ newest = 0 /\ n > 0
    /\ newest' = n
    /\ UNCHANGED <<consecutive, waiting, missed, lastScored>>

Accept(n) ==
    /\ Follows(n) /\ Cardinality(waiting) < Bound
    /\ newest' = n
    /\ waiting' = waiting \cup {n}
    /\ UNCHANGED <<consecutive, missed, lastScored>>

Miss(n) ==
    /\ Follows(n)
    /\ newest' = n
    /\ missed' = missed \cup {n}
    /\ UNCHANGED <<consecutive, waiting, lastScored>>

Drop(n) ==
    /\ waiting' = waiting \ {n}
    /\ missed' = missed \cup {n}
    /\ UNCHANGED <<consecutive, newest, lastScored>>

(* The oldest block that waits *)
Score ==
    /\ \E n \in waiting :
          /\ n > lastScored /\ \A m \in waiting : n <= m
          /\ lastScored' = n
          /\ waiting' = waiting \ {n}
    /\ UNCHANGED <<consecutive, newest, missed>>

DeliveredInit ==
    /\ consecutive \in BOOLEAN
    /\ newest = 0 /\ waiting = {} /\ missed = {} /\ lastScored = 0

DeliveredNext ==
    \/ Begin(newest') \/ Accept(newest') \/ Miss(newest')
    \/ \E n \in waiting : Drop(n)
    \/ Score

DeliveredSpec == DeliveredInit /\ [][DeliveredNext]_deliveredVars
=============================================================================
