SPECIFICATION Spec
CONSTANTS
    Depth = 4
    MinHeight = 1
    PastLimit = 2
    MaxRestarts = 1
    MaxTip = 10
INVARIANTS
    PrunerInv
    NeededIsServed
    RequestIsAcceptable
