CONSTANTS
    Texts = {1, 2}
    FwSlots = {f1, f2}
    NoRule = NoRule
SYMMETRY Perms
SPECIFICATION FwSpec
INVARIANTS ShownIsRemoved
CHECK_DEADLOCK FALSE
