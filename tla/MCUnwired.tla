------------------------------ MODULE MCUnwired ------------------------------
(***************************************************************************)
(* Two nodes and one slot are enough for a slot that nothing evicts.       *)
(***************************************************************************)
EXTENDS Unwired, TLC

CONSTANT e1

OneEnvelope == e1 :> 1
==============================================================================
