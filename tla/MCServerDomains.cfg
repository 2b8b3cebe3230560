CONSTANTS
    Jobs = {j1, j2, j3}
    None = None
    Runs = {w1, w2}
    Certs = {c1}
    Nobody = Nobody
    LongestRun <- MCLongestRun
    GiveUp <- MCGiveUp
    StartDelay <- MCStartDelay
    Retention = 4
    Texts = {1, 2}
    FwSlots = {w1, w2}
    NoRule = NoRule
    TaskIds = {t1, t2}
    JobLines = {k1, k2}
    Misread = {k2}
    CronSlots = {w1, w2}
    NoTask = NoTask
    MaxLines = 3
    MaxEdits = 1
    b1 = b1
    b2 = b2
    b3 = b3
    BackupIds = {b1, b2, b3}
    Archives = {a1, a2, a3}
    NoBackup = NoBackup
    KeepFor <- MCKeepFor
    Covers <- MCCovers
    NameOf <- MCNameOf
    MaxAge = 2
    Remote = {b2}
    RemoveLocal = {b2}
    SnapIds = {i1, i2}
    OwnIds = {i1}
    SnapSlots = {w1, w2}
    NoSnap = NoSnap
SYMMETRY Perms
VIEW Moving
SPECIFICATION MCSpec
INVARIANTS
    OneInstallation JobFilesTrue
    OneCertbot PollIsRight UsedCertificateKept
    ConfirmedIsRemoved CompletedInForce
    AnsweredIsKept
    ScheduledHasConfig
    PromisedKept
PROPERTIES ArchiveKept ImplementsUpgrades ImplementsTable
CHECK_DEADLOCK FALSE
