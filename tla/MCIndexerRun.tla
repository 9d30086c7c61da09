----------------------------- MODULE MCIndexerRun -----------------------------
(***************************************************************************)
(* Three nodes, one of them without a credential file: the preferred node  *)
(* comes second in the inventory.                                          *)
(***************************************************************************)
EXTENDS IndexerRun

CONSTANTS n1, n2, n3

MCInventory == <<n1, n2, n3>>
===============================================================================
