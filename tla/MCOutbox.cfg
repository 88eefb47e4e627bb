CONSTANTS
    Keys = {k1}
    Workers = {w1, w2, w3}
    Admins = {a1}
    NoKey = NoKey
    MaxAttempts = 3
    MaxFaults = 2
    Groups = {g1, g2, g3}
    SystemNames = {"Admin", "Cashier"}
    OtherNames = {"Packer"}
    view = view
    sell = sell
    Permissions = {view, sell}
    RoleDefault <- MCRoleDefault
    Staff = {u1}
    Forms = {f1, f2}
    People = {u1}
    Browsers = {b1, b2}
    RecoveryCodes = {r1}
    MaxPeriod = 3
    MaxEnrolment = 2
SPECIFICATION DashSpec
INVARIANTS
    DeliveredOnce
    OneRoleEach
    CodesTakenOnce
PROPERTY MessagesSettle
