\* Two users, two links, two sessions.
CONSTANTS
    None = None
    Users = {u1, u2}
    Tokens = {t1, t2}
    Slots = {s1, s2}
SPECIFICATION FairResetsSpec
INVARIANTS ResetsTypeOK ResetsInv
PROPERTIES SerialUnlessOvertaken RequestsEnd
CHECK_DEADLOCK FALSE
