\* A fault that goes away by itself.
SPECIFICATION Spec
CONSTANTS
    j1 = j1
    Joints = {j1}
    UnknownId = none
    WRAP = 4
    WATCHDOG_US = 1
    SetpointModes <- TorqueOnly
    Torques <- OneWay
    Sides <- Inside
PROPERTY
    FaultIsLatched
