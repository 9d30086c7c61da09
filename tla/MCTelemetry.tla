----------------------------- MODULE MCTelemetry -----------------------------
(***************************************************************************)
(* Three nodes on two branches: a common block 1 at height 1, then two     *)
(* blocks at height 2 and one of them continued.                           *)
(***************************************************************************)
EXTENDS Telemetry, TLC

MCTip == { [h |-> 1, hash |-> 5, time |-> 1], [h |-> 2, hash |-> 7, time |-> 2],
           [h |-> 2, hash |-> 3, time |-> 1], [h |-> 3, hash |-> 4, time |-> 3] }

\* Nothing in a refresh depends on the order of the inventory.
Symmetry == Permutations(Node)
===============================================================================
