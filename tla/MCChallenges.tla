---------------------------- MODULE MCChallenges ----------------------------
(* A small instance of Challenges: one name is tried over HTTP twice, one   *)
(* over TLS-ALPN while a wildcard certificate for it is tried over the DNS, *)
(* and one is validated for ZeroSSL, over HTTP and with a CNAME record.     *)
EXTENDS Challenges, TLC

Try(name, identifier, kind) ==
    [name |-> name, identifier |-> identifier, kind |-> kind,
     issuer |-> IF kind \in {"zerossl", "cname"} THEN 0 ELSE 1]

MixedPlan ==
    <<Try("b", "b", "http"), Try("b", "b", "tls"), Try("*.b", "b", "dns"),
      Try("c", "c", "zerossl"), Try("c", "c", "cname")>>
=============================================================================
