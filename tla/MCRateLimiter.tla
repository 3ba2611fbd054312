--------------------------- MODULE MCRateLimiter ----------------------------
(* Two clients, a limit of two per window of three ticks, and a sweep on   *)
(* every third call, over a clock that runs for two windows.               *)
EXTENDS RateLimiter

=============================================================================
