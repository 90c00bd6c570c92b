\* Two Jobs one after the other, with their restarts and every fault, under
\* fairness.  No symmetry: it is not sound for liveness.
CONSTANTS
    Job = {j1, j2}
    Overlap = FALSE
    Faults = {"kill", "evict", "ingest", "export", "push"}
    BackoffLimit = 2
    MaxVersion = 3
SPECIFICATION FairSpec
INVARIANTS
    TypeOK
    PublishedIsWhole
PROPERTIES
    PushedIsCurrent
    
