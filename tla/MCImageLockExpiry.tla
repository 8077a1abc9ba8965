------------------------- MODULE MCImageLockExpiry -------------------------
(* Instances of ImageLockExpiry for TLC. *)
EXTENDS ImageLockExpiry, MCImageAPI
=============================================================================
