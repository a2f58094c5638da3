\* Two users, two codes, two Telegram accounts, two sessions.
CONSTANTS
    None = None
    Users = {u1, u2}
    Codes = {c1, c2}
    Tgs = {g1, g2}
    Slots = {s1, s2}
SYMMETRY Symmetry
SPECIFICATION LinksSpec
INVARIANTS LinksTypeOK LinksInv OneUse OneUserPerAccount
PROPERTIES SerialUnlessOvertaken
CHECK_DEADLOCK FALSE
