\* No load, 10 A, 14 A and 25 A, in any order and at any time, two changes.
SPECIFICATION FairSpec
CONSTANTS
    Loads = {0, 1000, 1400, 2500}
    MaxLoad = 2500
    TripCurrent = 1500
    VHigh = 1200
    VLow = 12
    VOn = 450
    VOff = 350
    GateTau = 9
    BusTau = 25
    VTh = 400
    PredictLow = 13
    PredictTau = 10
    PredictDelay = 4
    BusVoltage = 10000
    MaxChanges = 2
    MaxOver = 20
INVARIANTS
    NoFalseTrip
    TripInTime
    BusAbovePrediction
    ReportIsSound
PROPERTY
    ClosesAgain
