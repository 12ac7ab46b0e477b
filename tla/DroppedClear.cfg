CONSTANTS
    Clears = {k1}
    MemoryBudget = 1
    HandoffBudget = 1
    BatchMax = 1
    MaxJobs = 3
    MaxFaults = 1
    None = None
    Gap = Gap
SPECIFICATION FairSpec
PROPERTIES
    QueueReturns
