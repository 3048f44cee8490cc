--------------------------- MODULE MCACMEAccounts ---------------------------
(***************************************************************************)
(* Two concurrent calls of Issue with two faults.  Liveness is checked, so *)
(* no symmetry is used.                                                    *)
(***************************************************************************)
EXTENDS ACMEAccounts

=============================================================================
