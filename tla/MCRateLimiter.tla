--------------------------- MODULE MCRateLimiter ---------------------------
(* A small instance of RateLimiter; its constants are in the configuration. *)
EXTENDS RateLimiter
=============================================================================
