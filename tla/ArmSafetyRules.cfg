\* Two joints, every order of ticks, feedback, stops and releases; the clock
\* wraps at 4 and a tick is late after 1.  No symmetry: there are liveness
\* properties.
SPECIFICATION FairSpec
CONSTANTS
    j1 = j1
    j2 = j2
    Joints = {j1, j2}
    UnknownId = none
    WRAP = 4
    WATCHDOG_US = 1
    SetpointModes <- DrivingModes
    Torques <- OneWay
    Sides <- InsideOrAbove
INVARIANTS
    QuietWhenStopped
    IdleIsReset
    WatchdogImpliesEstop
PROPERTIES
    WatchdogExact
    ImplementsArmSafety
    EstopQuiets
    FaultSilences
