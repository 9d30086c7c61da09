---------------------------- MODULE MCCanonicalVote ----------------------------
(***************************************************************************)
(* Five nodes, two heights and three hashes at each: two branches with the *)
(* same number of voters, at the same height and at different heights.     *)
(***************************************************************************)
EXTENDS CanonicalVote

MCKey == [h : 3..4, hash : 1..3]
===============================================================================
