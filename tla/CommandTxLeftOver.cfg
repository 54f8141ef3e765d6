\* Seven joints, three mailboxes, a bus with the time for two frames between two
\* ticks, so that a third may be left over.
SPECIFICATION FairTxSpec
CONSTANTS
    N = 7
    Mailboxes = 3
    MaxTicks = 3
    Window = 2
INVARIANTS
    FirstJointsServed
PROPERTIES
    NoStaleCommand
    AcceptedIsReceived
