\* Every order of calls, failed transfers and turned bits.
SPECIFICATION EncoderSpec
CONSTANTS
    Angles <- FewAngles
    Diagnostics <- FewDiagnostics
INVARIANTS
    AngleIsSound
    ReadRawErrorExact
