CONSTANTS
    None = None
    MaxChanges = 2
    Deep = {"firewall"}
    Addresses = {a1}
    Logins = {l1, l2}
    Requests = {r1, r2}
    NoEntry = NoEntry
    AddressLimit = 3
    AccountLimit = 2
    Window = 2
    MaxCount = 4
SPECIFICATION MCSpec
INVARIANTS AuthorisedWork Understood Verified SuccessIsReal RunsOnce GuessesBounded
PROPERTIES Answered LockoutEnds
