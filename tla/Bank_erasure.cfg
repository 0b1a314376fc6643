SPECIFICATION BankSpec
CONSTANTS
    BankJobs = {h1, h2}
    NoBankJob = NoBankJob
    BankLines = {r1}
    MaxItems = 1
    MaxChanges = 0
    MaxHappenings = 1
PROPERTY ErasedOnlyDisconnected
CHECK_DEADLOCK FALSE
