SPECIFICATION Spec
CONSTANTS
    None = none
    alice = alice
    bob = bob
    custom = custom
    Subs = {alice, bob}
    Customs = {custom}
    PointsTo <- MCPointsTo
    Pins = {pin1}
    Requests = {r1}
    Latency = 1
    ConfigAge = 1
    ShellAge = 3
    ErrorAge = 1
    MaxClock = 3
    Until = {1}
    Unsteady = {alice}
    Asked <- MCAsked
INVARIANTS AnswersFitTheRequest PinOfItsHost AnswersFresh HeadAgreesWithConfig
CHECK_DEADLOCK FALSE
