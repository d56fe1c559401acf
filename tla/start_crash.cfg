\* Three peers, added one after the other; a start may die at any point.
CONSTANTS
    MaxPeers = 3
    CanCrash = TRUE
SPECIFICATION Spec
INVARIANTS TypeOK  LagsByOne ReadyIsUsable InStepStartsSucceed NewPeerCostsOneStart
PROPERTY StartEnds
