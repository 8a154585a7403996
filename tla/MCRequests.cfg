SPECIFICATION FairSpec
CONSTANTS
    acme = acme
    globex = globex
    Orgs = {acme, globex}
    NoOrg = NoOrg
    Conns = {c1, c2}
    NoConn = NoConn
    Plain = {p1, p2}
    Chats = {s1, s2}
    Others = {p2, s2}
    OrgOf <- TwoTenants
INVARIANTS
    TypeOK
    RowsStayInTenant
PROPERTIES
    ReadsAreComplete
    RequestsEnd
CHECK_DEADLOCK FALSE
