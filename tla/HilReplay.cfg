\* Two joints, three rows, a timeout check every second row; the bus may fail
\* and the operator may interrupt at any point.
SPECIFICATION FairSpec
CONSTANTS
    NUM_JOINTS = 2
    Rows = 3
    CheckEvery = 2
    Timeout = 1
    MaxTime = 3
    MaxQueue = 2
    BusFails = TRUE
    Interrupts = TRUE
INVARIANTS
    IdleOnDone
    SilenceNoticed
PROPERTIES
    NoRowAfterBreach
    BreachIdlesArm
