SPECIFICATION FairSpec
CONSTANTS
    Apps = {a1}
    Windows = {}
    Meetings = {m1, m2}
    Nobody = nobody
    Policies <- AllPolicies
PROPERTIES ClaimsAreReleased WaitingEnds
