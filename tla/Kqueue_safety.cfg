SPECIFICATION Spec
CONSTANTS
    Fds = {f1, f2, f3}
    MayFail = TRUE
    f1 = f1
    f2 = f2
    f3 = f3
SYMMETRY Symmetric
INVARIANTS
    AskedIsEnabled
    EntryPresent
