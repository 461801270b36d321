--------------------------- MODULE MCVehicleUnits ---------------------------
(* Instances of VehicleUnits for TLC: one unit, brought in by one event, and  *)
(* one event that is sent under two keys.                                     *)
EXTENDS VehicleUnits, TLC

CONSTANTS born, e1, e2, again

AgainIsFirst == [k \in EventKeys |-> IF k = again THEN e1 ELSE k]

OneUnit == [e \in Events |-> "unit"]

SmallCosts == [e \in Events |-> IF e = born THEN 3 ELSE 1]

BornThenAny == [e \in Events |-> IF e = born THEN Births ELSE Kind \ Births]

Symmetry == Permutations(Requests)
=============================================================================
