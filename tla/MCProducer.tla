------------------------------ MODULE MCProducer ------------------------------
(***************************************************************************)
(* The automatic container and one manual one-shot, with the script's own  *)
(* five attempts, five-second calls and Docker's ten-second grace period.  *)
(***************************************************************************)
EXTENDS Producer

CONSTANTS auto, once
===============================================================================
