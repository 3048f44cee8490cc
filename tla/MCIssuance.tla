----------------------------- MODULE MCIssuance -----------------------------
(* Small instances of Issuance. *)
EXTENDS Issuance, TLC

\* Instances are interchangeable.
InstanceSymmetry == Permutations(Instance)
=============================================================================
