SPECIFICATION Spec
CONSTANTS
    Builders = {b1}
    Admins = {a1, a2}
    Rules = {ban, wish}
    MustNot = {ban}
    Must = {}
    MaxVersion = 1
    MaxResolves = 2
INVARIANTS
    FlagsInSync
CHECK_DEADLOCK FALSE
