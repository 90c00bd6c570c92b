\* The database may go away at any time.
CONSTANTS
    Id = {a}
    Field = {f}
    Value = {v, w}
    Delisted = Delisted
    Malformed = Malformed
    Null = Null
    Run = {r1, r2}
    Overlap = FALSE
    Faults = {"database"}
SPECIFICATION Spec
INVARIANTS
    RaisedRunIsFailed
