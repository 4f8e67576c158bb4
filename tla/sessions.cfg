SPECIFICATION Spec
CONSTANTS
    Apps = {a1, a2}
    Windows = {a1, a2}
    Meetings = {m1}
    Nobody = nobody
    Policies <- AllPolicies
SYMMETRY Symmetry
INVARIANTS NothingLost
PROPERTIES LiveSpillStays NoDoubleLanding
