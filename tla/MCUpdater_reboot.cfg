CONSTANTS
    Jobs = {j1, j2}
    None = None
SYMMETRY Perms
SPECIFICATION Spec
PROPERTIES NoRebootDuringUpgrade
