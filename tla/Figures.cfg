SPECIFICATION MCSpec
CONSTANTS
    Null = Null
    ReorderRequests <- MCRequests
    NoCash = NoCash
    Forecasts <- MCForecasts
    Windows <- MCWindows
    Pairings <- MCPairings
    NoDate = NoDate
    Shelves <- MCShelves
    Backlogs <- MCBacklogs
    InvoiceSets <- MCInvoices
    Largest = 2500
    Products = {p1, p2}
    OwnerAmounts = {3}
    ProviderCosts = {2}
    CostRequests = {r1, r2}
    MaxSyncs = 2
    NoCost = NoCost
    c1 = c1
    c2 = c2
    Connections = {c1, c2}
    ChannelOf <- MCChannels
    Locations = {l1}
    Admins = {a1, a2}
    Reports = {r1}
    MaxChanges = 5
    Nowhere = Nowhere
    Authorizations = {1, 2}
    Keepers = {4, 5}
    Workspaces = {w1, w2}
    Nobody = Nobody
    MaxRefreshes = 2
    MaxGrantFaults = 1
    Resources = {m1, m2}
    Syncs = {1, 2}
    Editors = {11}
    Clerks = {21}
    NoSync = 0
    MaxLapses = 1
INVARIANTS FiguresAreSound RecommendationIsSound CashIsSound CostsAreSound
           GrantIsSound MeasurementsAreSound
PROPERTIES SourcesAreSound
CHECK_DEADLOCK FALSE
