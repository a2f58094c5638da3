\* Two administrators and two keys; three users and four addresses.
CONSTANTS
    None = None
    Slots = {s1, s2}
    Sessions = {s1, s2}
    EncKeys = {k1, k2}
    Bodies <- MCBodies
    Users = {u1, u2, u3}
    Names = {n1, n2}
    First = n1
    Unborn = Unborn
    Gone = Gone
SPECIFICATION MCSpec
INVARIANTS
    MCTypeOK
    LinkLostOnlyAfterRotation OneAddressOneUser
PROPERTIES
    PutsMerge RepairTakesEverySecret AnswersAloneUnlessRaced RoleFollowsAddress
SYMMETRY Symmetry
CHECK_DEADLOCK FALSE
