SPECIFICATION Spec
CONSTANTS
    Terminals = {t1, t2}
    Tasks <- MCTasks
    MaxRuns = 2
    MaxSwitches = 2
SYMMETRY MCSymmetry
CHECK_DEADLOCK FALSE
INVARIANTS
    NeverStranded
    WiredOnceChecked
    HandedOver
