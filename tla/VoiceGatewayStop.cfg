SPECIFICATION FairSpec
CONSTANTS
    MaxInputs = 1
    MaxDrops = 0
CHECK_DEADLOCK FALSE
PROPERTIES
    StopIsHonoured
