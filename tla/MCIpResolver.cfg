SPECIFICATION FairSpec
CONSTANTS
    Tasks = {t1, t2, t3}
    Workers = {w1, w2}
    NoTask = NoTask
INVARIANTS RInv NoUseAfterDelete NoLostWakeup
PROPERTIES AnsweredOnce Answered DestroyEnds
CHECK_DEADLOCK FALSE
