\* Two accounts, three rows for them one after the other, a group and a phone.
SPECIFICATION Spec
CONSTANTS
    Account = {a1, a2}
    Row = {f1, f2, f3}
    Group = {g1}
    Device = {d1}
    Req = {r1, r2, r3}
    Late = 1
    None = None
SYMMETRY Alike
INVARIANTS TablesSound FriendsByConsent UndoneBounded
PROPERTIES DeviceKept
CHECK_DEADLOCK FALSE
