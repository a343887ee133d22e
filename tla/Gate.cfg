SPECIFICATION MCSpec
CONSTANTS
    Commits = {"h1", "h2"}
    Settings <- MCSettings
    JobSets <- MCJobs
    Required = {"ci"}
    MaxChanges = 2
INVARIANTS
    TypeOK
    MergedAsVerified
    NothingMergedOver
    SurfaceUntouched
    SecurityNotWaived
PROPERTIES
    ReadyIsMerged
    CompletionEvaluated
