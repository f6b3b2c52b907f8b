----------------------------- MODULE MCIdentity -------------------------------
(* Small instances of Identity; the .cfg files give the bounds.             *)
EXTENDS Identity, TLC

\* Requests are interchangeable.
MCSymmetry == Permutations(Requests)
=============================================================================
