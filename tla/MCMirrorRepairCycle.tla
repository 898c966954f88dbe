-------------------------- MODULE MCMirrorRepairCycle --------------------------
(* The instance of MirrorRepair in which every mirror stands where apply       *)
(* creates it: the condition of the theorems about quiet cycles holds of it.   *)
EXTENDS MCMirrorRepair

ASSUME InPlaceAssumption == MirrorsApart /\ MirrorsInPlace
==============================================================================
