SPECIFICATION Spec
CONSTANTS
    NoEvent = NoEvent
    Relays = {r1, r2}
    Events = {1}
    Usage = {1}
    Garbled = {}
    Batch = 1
    MaxAttempts = 2
    MaxCrashes = 0
    MaxFaults = 0
    FailureThreshold = 2
    HalfOpenMax = 1
PROPERTY DeadLetterIsTerminal
