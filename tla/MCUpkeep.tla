------------------------------ MODULE MCUpkeep ------------------------------
(* Small instances of Upkeep. *)
EXTENDS Upkeep, TLC

\* Instances are interchangeable.
InstanceSymmetry == Permutations(Instance)

\* Keys are reused only where a CA revokes a certificate for key compromise.
MCInit == UpkeepInit /\ (reuse => task["ca"] = "new")
MCSpec == MCInit /\ [][UpkeepNext]_upkeepVars
=============================================================================
