CONSTANTS
    Node = {n1, n2, n3}
    Backlog = 1
SPECIFICATION FairSpec
INVARIANTS
    TypeOK
    MembershipAgreed
PROPERTIES
    ReleasedUnlessLost
    ImplementsBarrier
CHECK_DEADLOCK FALSE
