SPECIFICATION FairSpec
CONSTANTS
    Asleep = Asleep
    None = None
    Infinity = Infinity
    ra = ra
    d1 = d1
    d2 = d2
    a1 = a1
    c1 = c1
    c2 = c2
    t1 = t1
    alice = alice
CHECK_DEADLOCK FALSE
PROPERTIES
    EverythingEnds
    SteadyFaceDecided
