---------------------------- MODULE MCMaintenance ----------------------------
(***************************************************************************)
(* Two instances with a certificate so short-lived that the renewal window *)
(* of a third of its lifetime is shorter than five check intervals.        *)
(***************************************************************************)
EXTENDS Maintenance, TLC

InstanceSymmetry == Permutations(Instance)

\* OCSP with renewal by the lifetime alone, and renewal info without OCSP.
EachAlone == {{"ocsp"}, {"ari"}}

=============================================================================
