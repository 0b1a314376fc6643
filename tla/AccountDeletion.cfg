SPECIFICATION Spec
CONSTANTS
    Requests = {w1, w2}
    Hooks = {h1, h2}
    Selections = {s1}
    MaxAttempts = 2
    MaxEvents = 4
    Changes = {"invoiced", "canceled"}
    Writers = {w1, w2}
    Cleaners = {k1}
    Nobody = nobody
    c1 = c1
    Contents = {c1}
    Mail <- TwoAttachments
    MaxOriginals = 2
    Attempters = {d1, d2}
SYMMETRY Symmetry
INVARIANTS BillingIsSound IntakeIsSound ClosedIsNotBilled
PROPERTIES CompletionIsClean
CHECK_DEADLOCK FALSE
