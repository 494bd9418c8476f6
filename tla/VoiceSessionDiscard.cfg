SPECIFICATION Spec
CONSTANTS
    NoSpeech = NoSpeech
    Utterances = {u1}
    MaxFaults = 0
CHECK_DEADLOCK FALSE
INVARIANTS
    DiscardDeletesAll
