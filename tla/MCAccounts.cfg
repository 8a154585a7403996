SPECIFICATION Spec
CONSTANTS
    Plain = {e2, e3}
    Emails <- AllEmails
    Shared = e1
    Accounts = {google}
    EmailOf <- SharedAddress
    Roles = {"admin", "member"}
    Slots = {s1, s2}
    None = None
    MaxUsers = 3
    MaxKeys = 1
INVARIANTS
    TypeOK
    OrgKeepsAdmin
    AccountsIdentify
PROPERTIES
    NoStaleRestore
SYMMETRY Alike
CHECK_DEADLOCK FALSE
