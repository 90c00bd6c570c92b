\* Two requests at a time through both limits, any command of which may fail.
CONSTANTS
    Worker = {w1, w2}
    Limits <- MCLimits
    Sec = 2
    Token = {t1, t2, t3}
    MaxDelay = 1
    MaxClock = 7
    Faults = {"redis"}
SPECIFICATION Spec
SYMMETRY Symmetry
INVARIANTS
    TypeOK
    OvershootIsBounded
PROPERTIES
    MembersOutliveWindow
    RefusalsAreRight
