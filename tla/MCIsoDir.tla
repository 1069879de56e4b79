------------------------------ MODULE MCIsoDir ------------------------------
(***************************************************************************)
(* IsoDir with sectors of four bytes, so that a sector holds two records,  *)
(* and a length that wraps at 12: every image of up to two sectors (one    *)
(* that ends within a sector too) and every stated length, right or wrong. *)
(***************************************************************************)
EXTENDS IsoDir

MCExtents == UNION { [0..(size - 1) -> {0, 1, 2}] : size \in {0, 6, 8} }
             \cup [0..3 -> 0..4]
MCLengths == 0..(W - 1)
=============================================================================
