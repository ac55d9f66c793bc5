------------------------------- MODULE MCTDMA -------------------------------
(* Two stations and a foreign one in a frame of three slots. *)
EXTENDS TDMA, TLC
CONSTANTS s1, s2, f1
MCDelay == s1 :> 0 @@ s2 :> 1 @@ f1 :> 2
=============================================================================
