---------------------------- MODULE MCModalDeploy ----------------------------
(* An instance of ModalDeploy for TLC: three harnesses, two of which write   *)
(* the same file, as microbench_attn_day0.py does with the fusion off and on.*)
EXTENDS ModalDeploy
MCSteps == [r \in {"u3+shear", "route", "none"} |-> IF r = "u3+shear" THEN <<"parity", "off", "on">> ELSE <<"parity", "off">>]
MCArtifact == [s \in {"parity", "off", "on"} |-> IF s = "parity" THEN "none" ELSE "day0.json"]
=============================================================================
