SPECIFICATION Spec
CONSTANTS
    Asleep = Asleep
    NotANumber = NotANumber
    Unusable = Unusable
    Textures = {a1, a2}
    Cameras = {d1}
    MaxEntries = 1
    MaxObs = 2
    MaxFrames = 2
    MaxReallocs = 1
    InputSize = 64
    FrameW = 60
    FrameH = 40
    Pad = 2
    ScoreThreshold = 1
    NmsPercent = 40
    BlobKinds <- SomeBlobs
    DetectorRows <- SomeRows
    MaxRows = 3
    Points <- Grid
    ArcFaceDst <- BigTemplate
    LivenessDst <- SmallTemplate
    MaxSquaredRmse = 7
    TrackCount = 3
    BoxCount = 2
    MaxCost = 1
    PairCosts <- SomeCosts
    Infinity = Infinity
    MaxDets = 2
    MaxTimeLost = 1
    MaxIds = 3
    MaxFrame = 4
    Identities = {0, 1, 2, 3}
    One = 1
    Offered <- SomeGalleries
    Offers <- AllOffers
    Wanted = 10
    MaxListed = 3
    TieEpsilon = 2
    MaxFpsError = 2
    Subtypes = {"NV12"}
    AnySubtype = "any"
SYMMETRY TextureSymmetry
INVARIANTS
    FramesSound
    FacesSound
    ModeSound
PROPERTIES
    TracksSound
    MatchSound
