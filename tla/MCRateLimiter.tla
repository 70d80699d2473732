--------------------------- MODULE MCRateLimiter ---------------------------
(* Instances of RateLimiter for TLC: one busy address and two others.  *)
EXTENDS RateLimiter

CONSTANTS a, b, c, c1, c2, c3, c4, c5

MCIps == {a, b, c}
MCCalls == {c1, c2, c3, c4, c5}
MCIpOf == [k \in MCCalls |-> CASE k \in {c1, c2, c3} -> a [] k = c4 -> b [] k = c5 -> c]
=============================================================================
