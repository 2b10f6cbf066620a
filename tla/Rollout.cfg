SPECIFICATION MCSpec
CONSTANTS
    t1 = t1
    t2 = t2
    Types = {t1, t2}
    Startup = Startup
    Written = {t1}
    MaxGen = 2
    MaxFaults = 2
INVARIANT TypeOK
INVARIANT RolloutInv
INVARIANT ReadyIsPublished
INVARIANT GoneIsUnpublished
INVARIANT ReadyIsWritable
PROPERTY RolloutCompletes
CHECK_DEADLOCK FALSE
