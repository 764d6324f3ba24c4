\* Two administrators, two delays, a vault address whose first value is free.
CONSTANTS
    a1 = a1
    a2 = a2
    s1 = s1
    s2 = s2
    Unset = Unset
    Admins = {a1, a2}
    Delays = {0, 2}
    Params = {"vault"}
    FirstFree = {"vault"}
    Settings = {s1, s2}
    MaxTime = 5
    MaxPending = 2
SYMMETRY Symmetry
SPECIFICATION AccessSpec
INVARIANTS
    NoticeGiven
CHECK_DEADLOCK FALSE
