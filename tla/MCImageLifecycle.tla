-------------------------- MODULE MCImageLifecycle --------------------------
(* Instances of ImageLifecycle for TLC. *)
EXTENDS ImageLifecycle, TLC

\* The states that clients put when they leave the others to the API: the
\* upload, a failure that the importer reports, and deletion.
ImporterPutStates == {"uploaded", "failed_import", "deleted"}

VariantSymmetry == Permutations(Variants)
=============================================================================
