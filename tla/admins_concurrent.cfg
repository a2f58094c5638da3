\* Two sessions, every interleaving, of every operation or of deletions.
CONSTANTS
    None = None
    Users = {u1, u2}
    First = u1
    Slots = {s1, s2}
    Ops = {"activate", "deactivate", "promote", "demote", "delete", "profile", "email", "reset"}
SPECIFICATION MCSpec
INVARIANTS AdminsTypeOK AdminsInv
PROPERTIES SerialUnlessOvertaken DeletionsSpareLastAdmin RequestsEnd
CHECK_DEADLOCK FALSE
