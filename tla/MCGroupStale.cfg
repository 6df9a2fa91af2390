SPECIFICATION Spec
CONSTANTS
    t1 = t1
    t2 = t2
    leader1 = leader1
    helper1 = helper1
    leader2 = leader2
    guest2 = guest2
    p = p
    name = name
    visibility = visibility
    inform = inform
    v1 = v1
    v2 = v2
    Types = {t1, t2}
    Roles = {leader1, helper1, leader2, guest2}
    RoleType <- MCRoleType
    Slug <- MCSlug
    Kind <- MCKind
    DefaultRoles = {guest2}
    People = {p}
    Fields = {name, visibility, inform}
    Name = name
    Optional = {visibility, inform}
    NotPosted = {inform}
    Values = {v1, v2}
    MembersDuringApply = FALSE
    Unset = Unset
    Null = Null
    NoGroup = NoGroup
    NoState = NoState
    NoJob = NoJob
    NoRole = NoRole
    NoMapping = NoMapping
PROPERTY MigrationIsRecorded
