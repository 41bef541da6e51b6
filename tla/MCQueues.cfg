SPECIFICATION Spec
CONSTANTS
    None = None
    Scenes = {"endpoints", "submissions", "jobs", "statements", "alerts", "badges", "chat", "linking", "assistant"}
    Endpoints = {e1, e2, e3}
    Deliveries = {d1}
    MaxEndpoints = 1
    HookAttempts = 2
    Openers = {o1, o2}
    Jobs = {j1, j2, j3}
    Dispatchers = {j1, j2, j3, x1}
    Senders = {n1, n2}
    HookCrashes = 1
    MaxJobs = 1
    Submitters = {q1, q2}
    Exports = {s1}
    ExportAttempts = 2
    Exporters = {w1, w2}
    ExportCrashes = 1
    Subjects = {1, 2, 3}
    Goals = {2, 3}
    Notes = {i1, i2}
    Callers = {c1, c2}
    Pages = {p1, p2}
    MaxConnections = 1
    Page = 1
    Target = 10
    MaxChanges = 2
    Members = {u1, u2}
    Messages = {1, 2, 3}
    Rows = {1, 2}
    Handlers = {1, 2}
    MaxDelivered = 3
    MaxEvents = 1
    Owners = {u1, u2}
    Chats = {z1}
    Codes = {1, 2}
    Linkers = {1, 2}
    MaxWrong = 1
    MaxEntered = 3
    MaxOutside = 1
    Askers = {1, 2}
    KeyCounts = {0, 3}
    MaxAsked = 3
    MaxMishaps = 2
SYMMETRY Symmetry
INVARIANTS
    TypeOK
    LimitsHold
    WorkIsInHand
    NoticesAreTold
    BotsDoAsTheySay
CHECK_DEADLOCK FALSE
