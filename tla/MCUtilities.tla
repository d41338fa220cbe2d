---------------------------- MODULE MCUtilities ----------------------------
(* The small components on small instances.                                *)
EXTENDS Utilities

MCFileValues == {<<1>>, <<2, 1>>}
MCDefault == <<3>>
MCSamples == {0, 2}
=============================================================================
