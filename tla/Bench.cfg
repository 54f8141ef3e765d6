\* Two joints, up to five rows of every shape and files with fewer columns, the
\* runner's own limits and a row every 300 ms, longer than the time constant.
SPECIFICATION BenchSpec
CONSTANTS
    NUM_JOINTS = 2
    Files <- FewFiles
    Trajectories <- FewTrajectories
    Dt = 300
    DefaultDt = 1
    Tau = 200
    PosScale = 10
    Byte = 256
    MaxPosition = 3000
    MaxVelocity = 800
INVARIANTS
    WithinSetpoints
    NoFalseAlarm
    FenceHolds
    LogIsWhatPassed
    FigureShowsCommands
PROPERTY
    NoOvershoot
