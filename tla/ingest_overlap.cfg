\* Two runs that may be in flight at once, on two flaggers, under
\* fairness.  No symmetry: it is not sound for liveness.
CONSTANTS
    Id = {a, b}
    Field = {f}
    Value = {v, w}
    Delisted = Delisted
    Malformed = Malformed
    Null = Null
    Run = {r1, r2}
    Overlap = TRUE
    Faults = {}
SPECIFICATION FairSpec
INVARIANTS
    CreatedOnceLoggedOnce
    EventsOfCommittedRuns
PROPERTIES
    FirstSeenIsForever
    RunsEnd
