SPECIFICATION FairSpec
CONSTANTS
    MaxInputs = 3
    MaxDrops = 1
CHECK_DEADLOCK FALSE
INVARIANTS
    TypeOK
    OverIsReleased
PROPERTIES
    OutcomeSpec
    GatewayLiveness
