SPECIFICATION MCSpec
CONSTANTS
    ImportRuns = {x1, x2}
    NoRun = NoRun
    Feeds = {f1, f2}
    PageSize = 1
    MaxRecords = 2
    PaymentRuns = {x1, x2}
    NoPaymentRun = NoPaymentRun
    DayLength = 3
    LastMoment = 4
    DaysPerRun = 2
    SeriesRuns = {x1, x2}
    NoSeries = NoSeries
    LastSale = 2
    LastHour = 3
    RecentHours = 1
    BankJobs = {x1, x2}
    NoBankJob = NoBankJob
    BankLines = {f1, f2}
    MaxItems = 2
    MaxChanges = 2
    MaxHappenings = 3
SYMMETRY Symmetry
INVARIANTS FeedsAreSound PaymentsAreWhole  BankFeedIsSound
CHECK_DEADLOCK FALSE
