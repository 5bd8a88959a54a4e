-------------------------- MODULE MCEncryptedNonce --------------------------
(***************************************************************************)
(* EncryptedNonce for TLC: interchangeable goroutines.                     *)
(***************************************************************************)
EXTENDS EncryptedNonce, TLC

GoroutineSymmetry == Permutations(Issuer) \cup Permutations(Redeemer)
=============================================================================
