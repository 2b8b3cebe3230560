CONSTANTS
    Users = {u1, u2}
    Roots = {u1}
    Ids = {i1, i2}
    Requests = {r1, r2}
    Passwords = {p1, p2}
    Secrets = {k1, k2}
    None = None
    MaxVersion = 4
    MaxAccounts = 1
SYMMETRY Perms
SPECIFICATION Spec
INVARIANTS CurrentPassword SecondFactorPassed PasswordChangeEnforced
PROPERTIES CredentialChangeEndsSessions ImplementsAccess
