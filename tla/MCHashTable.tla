----------------------------- MODULE MCHashTable -----------------------------
(***************************************************************************)
(* HashTable with four keys and two values.  Blocks have between 1 and 14  *)
(* slots; in those of 2, 3, 5 and 6 several keys collide, and probes run   *)
(* over the end of the block.                                              *)
(***************************************************************************)
EXTENDS HashTable, TLC

CONSTANTS k1, k2, k3, k4

CollidingHash == k1 :> 5 @@ k2 :> 5 @@ k3 :> 11 @@ k4 :> 0
=============================================================================
