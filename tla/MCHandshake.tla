---------------------------- MODULE MCHandshake ----------------------------
(* Small instances of Handshake. *)
EXTENDS Handshake, TLC

\* Handshakes are interchangeable.
ClientSymmetry == Permutations(Client)

\* On-demand TLS, with all that can go wrong in one process.
OnDemandSetup ==
    [onDemand |-> TRUE, managers |-> FALSE, almostFull |-> FALSE, timeouts |-> TRUE,
     environment |-> {"evict", "revoke", "deny"}]

\* No on-demand TLS: certificates evicted from an almost full cache are loaded.
StaticSetup ==
    [onDemand |-> FALSE, managers |-> FALSE, almostFull |-> TRUE, timeouts |-> TRUE,
     environment |-> {"evict", "clean", "other", "fail"}]

\* On-demand TLS with certificate managers, beside another instance.
SharedSetup ==
    [onDemand |-> TRUE, managers |-> TRUE, almostFull |-> FALSE, timeouts |-> FALSE,
     environment |-> {"clean", "other"}]

SafetySetups == {OnDemandSetup, StaticSetup}
LivenessSetups == {SharedSetup}
=============================================================================
