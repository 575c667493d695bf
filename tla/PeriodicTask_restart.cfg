\* Two outside callers and the task's own Execute restart a task.
SPECIFICATION Spec
CONSTANTS
    Timers = {t1, t2, t3}
    Callers = {c1, c2}
    Intervals <- MCIntervals
    Delay = TRUE
    NoTimer = NoTimer
    MaxGen = 7
INVARIANTS
    TypeOK
    SingleChain
    NoLeakedTimer
PROPERTIES
    AdoptsInterval
    ImplementsTicker
CHECK_DEADLOCK FALSE
