\* A joint limited to -1..1 and a torque of 2, its encoder off by 1 and its
\* direction inverted; every mode, every order of feedback, ticks and clears.
SPECIFICATION Spec
CONSTANTS
    PosMin <- MinusOne
    PosMax = 1
    TorqueMax = 2
    EncoderOffset = 1
    DirectionInverted = TRUE
    PosGains <- OuterGains
    VelGains <- InnerGains
    WireScale = 2
    Byte = 4
    Id = 1
    Setpoints <- ManySetpoints
    IdleSetpoint <- Idle
    Frames <- FewFrames
    Dts <- ZeroOrOne
INVARIANT
    TorqueCeiling
PROPERTY
    ImplementsContract
