\* Two joints; the CAN interrupt preempts tick(), both preempt the main loop.
SPECIFICATION Spec
CONSTANTS
    N = 2
    TimerFirst = FALSE
    Sides <- AboutUpperLimit
    Torques <- TwoTorques
INVARIANTS
    LateIsRefused
    FaultHonoured
    PushesInward
PROPERTIES
    ReleaseSeesOldFaults
