--------------------------- MODULE MCCtuWavefront ---------------------------
(* Model checking of CtuWavefront: the bounds are in the .cfg files.       *)
EXTENDS CtuWavefront
=============================================================================
