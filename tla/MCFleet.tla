------------------------------- MODULE MCFleet -------------------------------
(* Instances of GpuFleet for TLC.                                            *)
EXTENDS GpuFleet
=============================================================================
