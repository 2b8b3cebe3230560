CONSTANTS
    Ids = {i1, i2, i3}
    Owners = {o1}
    None = None
    IdleTimeout = 2
    AbsoluteTimeout = 3
    PendingTimeout = 1
    MaximumSessions = 2
    Minute = 1
    States = {"anonymous", "two_factor_challenge", "authenticated"}
    WriteResults = {"ok", "unwritten", "unsynced"}
    MaxTime = 4
SYMMETRY Perms
SPECIFICATION Spec
INVARIANTS RevokedStaysRevoked RestartAccepted OlderUsesOnDisk
PROPERTIES LiveRotationNotRefused OthersStayOnDisk ImplementsStore
