SPECIFICATION Spec
CONSTANTS
    r1 = r1
    r2 = r2
    r3 = r3
    n1 = n1
    n2 = n2
    Resources = {r1, r2, r3}
    Names = {n1, n2}
    NameOf <- MCNameOf
    MaxId = 3
    NoRow = NoRow
    NoId = NoId
    Admin = Admin
SYMMETRY Twins
INVARIANTS
    TypeOK
    PostedRowIsTheNewOne
    NameWrittenOnce
PROPERTIES
    ClaimsItsOwnRow
