SPECIFICATION Spec
CONSTANTS
    None = None
    Unset = Unset
    Scenes = {"goals", "categories", "figures", "backup", "receipts", "archives"}
    Goals = {g1, g2}
    Contributions = {n1, n2}
    Targets = {2, 3}
    Amounts = {1, 2}
    Currencies = {"VND", "USD"}
    Categories = {c1, c2, c3}
    SystemCategories = {root}
    Absent = Absent
    SystemType = "EXPENSE"
    Types = {"EXPENSE", "INCOME"}
    Requests = {r1, r2}
    Weights <- MCWeights
    Horizon = 12
    MaxPoints = 40
    MaxRange = 366
    Owners = {u1, u2}
    Exporter = u1
    System = {"s"}
    Own = {"c1", "c2"}
    Keys = {"k"}
    Fresh <- MCFresh
    MaxOwned = 3
    MaxPlans = 3
    MaxSample = 2
    MaxGroups = 2
    Rows = {t1, t2}
    \* Scenes share model values, which keeps the symmetries few.
    Receipts = {n1, n2}
    Callers = {r1, r2}
    Entries = {c1, c2, c3}
    Archivers = {r1, r2}
    ChunkSize = 1
CONSTRAINT UntilRaced
SYMMETRY Symmetry
INVARIANTS
    TypeOK
    GoalsFollowContributions
    
    
    
\* A figure is computed once, and the bounds end a scene of backups.
CHECK_DEADLOCK FALSE
