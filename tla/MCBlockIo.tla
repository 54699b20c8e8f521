------------------------------ MODULE MCBlockIo ------------------------------
(* BlockIo for TLC: two sectors of two bytes.                              *)
EXTENDS BlockIo, TLC

CONSTANTS a, b

Bytes == {a, b}

(* The bytes are only moved and compared.                                  *)
ByteSymmetry == Permutations(Bytes)
=============================================================================
