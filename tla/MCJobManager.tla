---------------------------- MODULE MCJobManager ----------------------------
(* Small instances of JobManager.  A job is a model value; the names repeat *)
(* so that calls collide, and one job has the empty name.                   *)
EXTENDS JobManager, TLC

CONSTANTS j1, j2, j3, j4, j5

\* Three calls under one name, one under another and one without a name.
NamesRepeated ==
    j1 :> "renew_a" @@ j2 :> "renew_a" @@ j3 :> "renew_a"
        @@ j4 :> "renew_b" @@ j5 :> NoName
=============================================================================
