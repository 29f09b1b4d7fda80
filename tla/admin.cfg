SPECIFICATION AdminSpec
CONSTANTS
    Group = {g1, g2}
    Person = {u1}
    Plan = {p1}
    Name = {n1, n2}
    Call = {1, 2}
    Blank = Blank
    MaxClicks = 3
    Account = {me, u2}
    Self = me
    FullName = {f1}
    UserRole = {r1, r2}
    Nameless = Nameless
    Request = {1, 2}
    MaxInputs = 5
    manage = manage
    view = view
    admin = admin
    staff = staff
    Policy = {manage, view}
    Manage = manage
    Role = {admin, staff}
    EditorRole = admin
    Grants <- RolesByDefault
    Editor = {1, 2}
    MaxToggles = 1
    MaxTrouble = 2
INVARIANTS
    OfferedSectionsOpen
    LogExplains
PROPERTIES
    SavedIsStored
    VisitsEnd
CHECK_DEADLOCK FALSE
