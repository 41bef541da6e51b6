SPECIFICATION Spec
CONSTANTS
    None = None
    Scenes = {"sessions", "sign up", "roles", "caches", "handover", "limits", "settings", "keys"}
    Users = {u1, u2, u3}
    Roles = {admin, plain}
    Admin = admin
    Plain = plain
    Requests = {q1, q2}
    Tokens = {k1}
    ZaloIds = {z1}
    SessionLimit = 1
    MaxSessions = 3
    MaxPasswords = 2
    Administrators = {a1, a2}
    Readers = {r1}
    ManageRights = p1
    UpdateUsers = p1
    UpdateRoles = p2
    Other = p2
    Handovers = {h1, h2}
    Callers = {d1, d2}
    MaxFailed = 1
    Wallets = {w1, w2, w3}
    Categories = {c1, c2, c3}
    Records = {t1, t2}
    w1 = w1
    w2 = w2
    w3 = w3
    c1 = c1
    c2 = c2
    c3 = c3
    t1 = t1
    t2 = t2
    Clients = {i1, i2}
    Guests = {g1, g2}
    MaxRequests = 1
    Window = 2
    MaxEntries = 1
    Lifetime = 2
    ApiKeys = {x1, x2, x3}
    MaxApiKeys = 1
    MaxBroken = 2
SYMMETRY Symmetry
INVARIANTS
    TypeOK
    
    
    GatesHold
CHECK_DEADLOCK FALSE
