SPECIFICATION FairSpec
CONSTANTS
    MaxComments = 3
    MaxJobs = 2
    MaxOthers = 1
INVARIANTS
    OwnCommentsShown
    FailedDraftKept
PROPERTIES
    SubmitsEnd
CHECK_DEADLOCK FALSE
