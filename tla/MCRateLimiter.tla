---------------------------- MODULE MCRateLimiter ---------------------------
(* RateLimiter for TLC: 3 permits every 7 ticks, bursts of 4, so that       *)
(* fractions of a token matter and the bucket can overflow.                 *)
EXTENDS RateLimiter
=============================================================================
