--------------------------- MODULE MCRestResource ---------------------------
(* Two rows of one collection, and configurations that leave out everything, name the *)
(* optional attribute, and claim or refuse the default.                                *)
EXTENDS RestResource, TLC

CONSTANTS a, b

Says(name, extra, flag) ==
    [x \in Attributes |-> IF x = "name" THEN name ELSE IF x = "extra" THEN extra ELSE flag]

MCConfigs == {Says(0, Unset, Unset), Says(1, Unset, Unset), Says(1, 1, Unset), Says(0, Unset, 1)}

Symmetry == Permutations(Resources)

=============================================================================
