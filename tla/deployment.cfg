\* Three pushes, up to two runs of the workflow at a time.
CONSTANTS
    None = None
    MaxCommits = 3
    Overlap = 2
    Revision <- MCRevision
    Rank <- MCRank
    Keep = 1
SPECIFICATION Spec
INVARIANTS
    TypeOK
    MigratedFirst
    NewestIsDeployed
    CleanupLeavesEnough
