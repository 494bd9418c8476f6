SPECIFICATION Spec
CONSTANTS
    NoSpeech = NoSpeech
    Utterances = {u1, u2}
    MaxFaults = 1
CHECK_DEADLOCK FALSE
INVARIANTS
    TypeOK
    CanceledSpeechMarked
    SavedHasUserTurns
    UserTurnsDiscarded
    ThinkingIsOwned
PROPERTIES
    EndedOnce
