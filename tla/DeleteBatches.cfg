SPECIFICATION FairSpec
CONSTANTS
    other = other
    N = 6
    MaxTuplesPerWrite = 5
    Foreign = {other}
INVARIANT TypeOK
PROPERTY DeletesAsPromised
CHECK_DEADLOCK FALSE
