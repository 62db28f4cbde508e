SPECIFICATION Spec
CONSTANTS
    Fds = {f1}
    MayFail = FALSE
    f1 = f1
INVARIANT EnableReadIsRead
