---------------------------- MODULE MCRateLimiter ----------------------------
(***************************************************************************)
(* RateLimiter at a concrete rate: one and a half                          *)
(* tokens a second, in half-second ticks of three quarters of a token, so  *)
(* a refill rarely lands on a whole token and the cap cuts off a fraction. *)
(***************************************************************************)
EXTENDS RateLimiter
=============================================================================
