CONSTANTS
    Slots = {w1, w2}
    Sites = {s1, s2}
    Good = {g1, g2}
    Bad = {b1}
    Empty = Empty
    None = None
    MaxCommands = 2
    d1 = d1
    Offered <- MCOffered
    Addresses = {d1, d2}
    AdminSlots = {u1, u2}
    NoSite = NoSite
SYMMETRY Perms
SPECIFICATION MCSpec
INVARIANTS ConfigurationTypeOK SettledSitesAccepted RefusedKeepsSite SuccessServed
    SuccessAgrees RefusedUndone
CHECK_DEADLOCK FALSE
