------------------------------ MODULE MCGrants ------------------------------
(* A scoped right with its null row, one selection and "alle", a right the  *)
(* host does not offer, and a right the catalog cannot name.                *)
EXTENDS Grants

CONSTANTS scoped, foreign, unknown, dim, one

A(d) == [right |-> scoped, data |-> d, sub |-> FALSE]
F == [right |-> foreign, data |-> NoData, sub |-> FALSE]
X == [right |-> unknown, data |-> NoData, sub |-> FALSE]

MCRows == {A(NoData), A(one), A(All), F, X}
MCCatalog == {scoped, foreign}
MCOffered == {scoped, unknown}
MCDims == {dim}
MCDimOf == [r \in {scoped, foreign, unknown} |-> IF r = scoped THEN dim ELSE NoDim]

Declarations == {{}, {A(one)}, {A(All)}, {A(NoData), A(one), F}}
MCConfigs == {[rows |-> d, preserve |-> p] : d \in Declarations, p \in SUBSET {dim}}

=============================================================================
