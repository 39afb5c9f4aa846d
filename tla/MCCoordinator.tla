---------------------------- MODULE MCCoordinator ----------------------------
(* The instance of Coordinator that coordinator.cfg gives to TLC.          *)
EXTENDS Coordinator

(* No operation treats one package differently from another of its kind.   *)
PackageSymmetry == Permutations(Package)

==============================================================================
