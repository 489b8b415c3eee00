------------------------------ MODULE MCMailMsg ------------------------------
(* Instances of MailMsg for TLC.                                           *)
EXTENDS MailMsg

CONSTANTS a1, a2, a3, c1, c2

\* All operations in one pool of one thread.
RouteOrdered == [m \in Async |-> "slow_ordered"]
\* All operations in the pool of many threads.
RouteUnordered == [m \in Async |-> "unordered"]
PrioFlat == [m \in Msgs |-> 0]
PrioMixed == [m \in Msgs |-> IF m \in {a2, c2} THEN 5 ELSE 0]
=============================================================================
