------------------------------- MODULE MCHBQ -------------------------------
(***************************************************************************)
(* HBQ with the numbers 1 .. MaxNr pushed in every order.                  *)
(***************************************************************************)
EXTENDS HBQClauses
CONSTANT MaxNr
MCNr == 1..MaxNr
=============================================================================
