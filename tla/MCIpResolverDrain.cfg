SPECIFICATION Spec
CONSTANTS
    Tasks = {t1, t2}
    Workers = {w1}
    NoTask = NoTask
INVARIANTS CancelsAll
CHECK_DEADLOCK FALSE
