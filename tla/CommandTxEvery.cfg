\* Seven command frames in a row and three mailboxes.
SPECIFICATION TxSpec
CONSTANTS
    N = 7
    Mailboxes = 3
    MaxTicks = 1
    Window = 3
INVARIANT
    EveryJointCommanded
