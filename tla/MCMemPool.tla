----------------------------- MODULE MCMemPool -----------------------------
(***************************************************************************)
(* Two pools, as different as the code's: one cleared at start-up, one     *)
(* that holds junk until its first use.  Blocks of two bytes make the      *)
(* rounding of odd requests visible; three blocks allow a hole between two *)
(* allocations.                                                            *)
(***************************************************************************)
EXTENDS MemPool, TLC

CONSTANTS in, ex

MCTblSize == in :> 3 @@ ex :> 2
MCBlkSize == in :> 2 @@ ex :> 1
=============================================================================
