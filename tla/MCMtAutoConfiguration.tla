----------------------- MODULE MCMtAutoConfiguration -----------------------
(* MtAutoConfiguration with two users, so that they compete for the        *)
(* resource lock with each other and with the loop.                        *)
EXTENDS MtAutoConfiguration

CONSTANTS u1, u2

MCUsers == {u1, u2}
============================================================================
