------------------------------- MODULE IndexAbs -------------------------------
(***************************************************************************)
(* What the block index of the explorer promises to its readers.           *)
(*                                                                         *)
(* A block names its predecessor, so one block determines a whole branch.  *)
(* The index is therefore one value, the top of the branch it holds, and   *)
(* it changes in two ways only: it grows by a run of at most BatchSize     *)
(* successive blocks, or it loses exactly its top block.  ChainIndexer is  *)
(* shown to implement this whatever the nodes answer.                      *)
(***************************************************************************)
EXTENDS Integers

CONSTANTS
    Block,      \* the blocks of every branch of the chain
    NoBlock,    \* the top of an empty index, and the parent of a genesis block
    Prev,       \* Prev[b]: the block that b names as its predecessor
    BatchSize   \* blocks per indexing batch

VARIABLE top    \* the highest indexed block

\* The runs of n successive blocks.
Runs(n) == { run \in [1..n -> Block] : \A i \in 2..n : Prev[run[i]] = run[i - 1] }

Init == top = NoBlock

Grow ==
    \E n \in 1..BatchSize :
        \E run \in Runs(n) : Prev[run[1]] = top /\ top' = run[n]

DropTop ==
    /\ top # NoBlock
    /\ top' = Prev[top]

Next == Grow \/ DropTop

Spec == Init /\ [][Next]_top
===============================================================================
