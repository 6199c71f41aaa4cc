---------------------------- MODULE MCLidarDriver ----------------------------
(* Turns of one and three measurements.                                *)
EXTENDS LidarDriver

ShortTurns == {1, 2, 5}
=============================================================================
