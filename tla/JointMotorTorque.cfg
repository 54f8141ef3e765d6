\* An inverted joint outside its soft limits.
SPECIFICATION Spec
CONSTANTS
    PosMin <- MinusOne
    PosMax = 1
    TorqueMax = 2
    EncoderOffset = 1
    DirectionInverted = TRUE
    PosGains <- OuterGains
    VelGains <- InnerGains
    WireScale = 2
    Byte = 4
    Id = 1
    Setpoints <- ManySetpoints
    IdleSetpoint <- Idle
    Frames <- FewFrames
    Dts <- ZeroOrOne
PROPERTY
    MotorTorqueRestores
