\* Three pushes, one run of the workflow at a time.
CONSTANTS
    None = None
    MaxCommits = 3
    Overlap = 1
    Revision <- MCRevision
    Rank <- MCRank
    Keep = 1
SPECIFICATION Spec
INVARIANTS
    DeployedTagIsKept
