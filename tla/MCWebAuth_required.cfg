CONSTANTS
    Users = {u1}
    Roots = {}
    Ids = {i1, i2, i3}
    Requests = {r1, r2}
    Passwords = {p1, p2}
    Secrets = {k1, k2}
    None = None
    MaxVersion = 3
    MaxAccounts = 1
SYMMETRY Perms
SPECIFICATION Spec
INVARIANTS RequiredTwoFactorEnforced
