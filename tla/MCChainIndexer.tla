---------------------------- MODULE MCChainIndexer ----------------------------
(***************************************************************************)
(* A small block tree for ChainIndexer: a trunk of g and t1, from which    *)
(* two branches leave at height 2, the b-branch being one block longer,    *)
(* and one short branch that leaves at height 1.                           *)
(*                                                                         *)
(*     g - t1 - a2 - a3                                                    *)
(*      \    \- b2 - b3 - b4                                               *)
(*       \- c1                                                             *)
(*                                                                         *)
(* x is the genesis block of another network: no node is ever on it, but a *)
(* wrong answer may name it.                                               *)
(***************************************************************************)
EXTENDS ChainIndexer

MCBlock == {"g", "x", "t1", "c1", "a2", "a3", "b2", "b3", "b4"}
MCPrev == [b \in MCBlock |->
    CASE b \in {"g", "x"} -> "none"
      [] b \in {"t1", "c1"} -> "g"
      [] b \in {"a2", "b2"} -> "t1"
      [] b = "a3" -> "a2"
      [] b = "b3" -> "b2"
      [] b = "b4" -> "b3"]
MCHeight == [b \in MCBlock |->
    CASE b \in {"g", "x"} -> 0
      [] b \in {"t1", "c1"} -> 1
      [] b \in {"a2", "b2"} -> 2
      [] b \in {"a3", "b3"} -> 3
      [] b = "b4" -> 4]
MCBranches ==
    { <<"g">>, <<"g", "c1">>, <<"g", "t1">>,
      <<"g", "t1", "a2">>, <<"g", "t1", "a2", "a3">>,
      <<"g", "t1", "b2">>, <<"g", "t1", "b2", "b3">>,
      <<"g", "t1", "b2", "b3", "b4">> }
===============================================================================
