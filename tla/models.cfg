SPECIFICATION FairSpec
CONSTANTS
    LastFile = 3
    Size = 2
    MaxAttempts = 3
    Budget = 3
INVARIANTS OnlyVerifiedIsReady StopLetsOneFileThrough
PROPERTIES HonestRunFinishes
