-------------------------------- MODULE MCBox --------------------------------
(* Instances of GatesBox for TLC.                                            *)
EXTENDS GatesBox
=============================================================================
