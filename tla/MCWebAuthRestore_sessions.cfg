CONSTANTS
    Users = {u1}
    Roots = {u1}
    Ids = {i1, i2}
    Requests = {r1}
    Passwords = {p1, p2}
    Secrets = {k1}
    None = None
    MaxVersion = 3
    MaxAccounts = 1
    MaxBackups = 2
    MaxRestores = 1
SYMMETRY Perms
SPECIFICATION RestoreSpec
PROPERTIES RestoreEndsSessions
