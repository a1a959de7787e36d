SPECIFICATION FairSpec
CONSTANTS
    CPUs = {c1, c2, c3}
    NOBODY = NOBODY
INVARIANTS
    NoFalsePanic
PROPERTIES
    LockSpec
    SomeoneEnters
