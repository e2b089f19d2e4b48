SPECIFICATION Spec
CONSTANTS
    None = None
    Timers = {t1, t2, t3}
    MaxOverlaps = 1
INVARIANTS
    FreedSessionUntouched
    OneReportChain
PROPERTIES
    EverybodyGoesOn
