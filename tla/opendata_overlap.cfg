\* Two Jobs that may overlap, with faults in the pods.
CONSTANTS
    Job = {j1, j2}
    Overlap = TRUE
    Faults = {"kill", "evict", "push"}
    BackoffLimit = 2
    MaxVersion = 2
SPECIFICATION Spec
SYMMETRY Symmetry
PROPERTIES
    HistoryMovesForward
