SPECIFICATION JobsFairSpec
CONSTANTS
    j1 = j1
    j2 = j2
    j3 = j3
    j4 = j4
    j5 = j5
    Job = {j1, j2, j3, j4, j5}
    JobName <- NamesRepeated
    NoName = NoName
    NoJob = NoJob
    MaxConcurrentJobs = 2
    MayPanic = {j1, j4, j5}
INVARIANTS
    NoDuplicateJobs
    PromptService
PROPERTIES
    QueuedJobsRun
    ImplementsJobQueue
