SPECIFICATION Spec
CONSTANTS
    t1 = t1
    t2 = t2
    alice = alice
    None = None
    Tracks <- MCTwoTracks
    Identities <- MCOneIdentity
    BonaFide = 2
    Attack = 2
    PadMax = 3
    PadEvery = 1
    ArcMax = 1
    ArcExtra = 1
    ArcEvery = 1
    MaxQuality = 2
    MaxMissing = 1
    Ttl = 1
    Cooldown = 2
    MaxGap = 1
SYMMETRY MCSymmetry
INVARIANTS
    TypeOK
    OncePerCooldown
    LiveEvidence
    BudgetsKept
PROPERTIES
    RejectionSticks
