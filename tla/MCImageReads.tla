---------------------------- MODULE MCImageReads ----------------------------
(* Instances of ImageReads for TLC. *)
EXTENDS ImageReads, TLC

VariantSymmetry == Permutations(Variants)
=============================================================================
