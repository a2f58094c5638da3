\* Two sessions: each admin takes the other's role.
CONSTANTS
    None = None
    Users = {u1, u2}
    First = u1
    Slots = {s1, s2}
    Ops = {"promote", "demote"}
SPECIFICATION AdminsSpec
PROPERTIES AdminsRemain
CHECK_DEADLOCK FALSE
