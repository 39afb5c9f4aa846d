--------------------------- MODULE MCControlFabric ---------------------------
(* Instances of ControlFabric for TLC: the configurations core*.cfg give   *)
(* the constants their values.                                             *)
EXTENDS ControlFabric, TLC

(* No operation treats one port differently from another.                  *)
PortSymmetry == Permutations(Port)

==============================================================================
