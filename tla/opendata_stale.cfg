\* One push that does not get through.
CONSTANTS
    Job = {j1, j2}
    Overlap = FALSE
    Faults = {"push"}
    BackoffLimit = 2
    MaxVersion = 1
SPECIFICATION Spec
PROPERTIES
    NothingToPublishMeansCurrent
