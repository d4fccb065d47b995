--------------------------- MODULE MCRateLimiter ---------------------------
(***************************************************************************)
(* Time is counted in thirds of the window, so that requests fall on both  *)
(* sides of its ends and exactly on them.                                  *)
(***************************************************************************)
EXTENDS RateLimiter

CONSTANTS alice, bob

=============================================================================
