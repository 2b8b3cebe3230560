CONSTANTS
    Runs = {r1}
    Certs = {c1}
    Nobody = Nobody
    LongestRun <- MCLongestRun
    GiveUp <- MCGiveUp
    StartDelay <- MCStartDelay
    Retention = 3
SPECIFICATION RunsSpec
INVARIANTS GivenUpIsOver
CHECK_DEADLOCK FALSE
