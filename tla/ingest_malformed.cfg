\* A row that does not normalize, in an otherwise faultless run.
CONSTANTS
    Id = {a, b}
    Field = {f}
    Value = {v, w}
    Delisted = Delisted
    Malformed = Malformed
    Null = Null
    Run = {r1, r2}
    Overlap = FALSE
    Faults = {}
SPECIFICATION Spec
PROPERTIES
    RemovedMeansDelisted
