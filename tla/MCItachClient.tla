--------------------------- MODULE MCItachClient ---------------------------
(* Small instances of ItachClient for TLC. *)
EXTENDS ItachClient, TLC

CallerSymmetry == Permutations(Callers)
=============================================================================
