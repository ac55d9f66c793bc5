-------------------------- MODULE MCMessageService --------------------------
(***************************************************************************)
(* The message service with two clients that write one message per cycle.  *)
(***************************************************************************)
EXTENDS MessageService, TLC
CONSTANTS c1, c2
MCClient == {c1, c2}
MCNr == 1..MaxNr
ClientSymmetry == Permutations(MCClient)
=============================================================================
