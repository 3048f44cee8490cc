---------------------------- MODULE MCCertCache ----------------------------
(* Small instances of CertCache: three certificates over two names, one of *)
(* them with two names and one that lists its name twice.                  *)
EXTENDS CertCache, TLC

CONSTANTS h1, h2, h3, a, b, i1, i2

Subjects ==
    h1 :> (a :> 1 @@ b :> 0) @@ h2 :> (a :> 1 @@ b :> 1) @@ h3 :> (a :> 0 @@ b :> 2)

Issuers == h1 :> i1 @@ h2 :> i2 @@ h3 :> i1
=============================================================================
