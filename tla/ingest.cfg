\* Two flaggers with one field of two values, three runs, one at a time, with
\* every fault.
CONSTANTS
    Id = {a, b}
    Field = {f}
    Value = {v, w}
    Delisted = Delisted
    Malformed = Malformed
    Null = Null
    Run = {r1, r2, r3}
    Overlap = FALSE
    Faults = {"database", "ack", "kill"}
SPECIFICATION Spec
SYMMETRY Symmetry
INVARIANTS
    TypeOK
    LogReplaysTable
    HistoriesAreLegal
    ActiveRowsSeenLast
    StampIsOfCommittedRun
PROPERTIES
    StampNeverGoesBack
    SuccessRemovesOnlyDelisted
    ImplementsRegisterHistory
