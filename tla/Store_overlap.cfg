SPECIFICATION StoreOnly
CONSTANTS
    Subjects = {s1, s2}
    Roles = {manager, employee}
    MaxGen = 2
    MaxEdits = 1
    None = None
    l1 = l1
    l2 = l2
    People = {p1, p2}
    Lines = {l1, l2}
    Ordered = 2
    Deliveries <- MCDeliveries
    Invoices = {i1, i2}
    MaxReceipts = 3
    NoOne = NoOne
    m1 = m1
    m2 = m2
    Keys = {k1, k2, k3}
    Periods = {m1, m2}
    Writers = {w1, w2}
    Items <- MCItems
    Categories = {g1, g2, g3}
    Codes = {4900, 4901}
    MaxLocks = 2
    MaxReopens = 1
    Nothing = Nothing
    Documents = {"a", "b"}
    Reviews <- MCReviews
    Targets = {t1, t2}
    Clerks = {c1, c2}
    Orgs = {o1, o2}
    Kinds = {shopify, pos}
    Rows = {1, 2, 3}
    Attempts = {1, 2, 3}
    Closers = {d1}
    Vacant = Vacant
    Schedules = {1, 2}
    Workers = {j1, j2}
    Limit = 1
    Interval = 2
    LeaseTime = 2
    MaxDelay = 3
    MaxFailures = 3
    MaxLapses = 1
    MaxLost = 1
    NoWorker = NoWorker
INVARIANT OneWorkspacePerStore
CHECK_DEADLOCK FALSE
