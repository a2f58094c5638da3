\* Two confirmations of one link at once.
CONSTANTS
    None = None
    Users = {u1}
    Tokens = {t1}
    Slots = {s1, s2}
SPECIFICATION ResetsSpec
INVARIANT OneUse
CHECK_DEADLOCK FALSE
