CONSTANTS
    Job = {j1}
    Caller = {c1, c2, c3}
    QUEUE_MAX_ATTEMPTS = 3
    NoEntry = NoEntry
SPECIFICATION QueueSpec
INVARIANTS
    NotGivenUpEarly
    DeadLettersAreReplayable
PROPERTIES
    DeliveredLeftOnlyByLateAnswers
CHECK_DEADLOCK FALSE
