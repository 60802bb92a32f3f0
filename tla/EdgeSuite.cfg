SPECIFICATION Spec
CONSTANTS
    Asleep = Asleep
    None = None
    Workload = {"events", "galleries", "refusals"}
    Tokens = {t1, t2}
    OutboxEvents = {e1}
    ConnectTimeout = 1
    SendTimeout = 1
    AckLimit = 4
    ReportEvery = 3
    StableAfter = 3
    BaseDelay = 1
    MaxShift = 2
    MaxFlaps = 3
    Devices = {d1, d2}
    MaxEvents = 3
    BatchLimit = 2
    MaxAttempts = 2
    MaxFaults = 2
    Timeout = 2
    BodyLimit = 3
    MaxBuffer = 2
    Statuses = {200, 401, 429, 503}
    RetryAfters = {None, ra}
    Bodies <- SomeBodies
    Writers = {w1, w2}
    Readers = {r1, r2}
    MaxCalls = 3
    Openers = {client, importer}
    Rows = {e1, e2}
    LastTime = 3
    Models = {m1, m2}
    Reports = {report1}
    MaxChanges = 2
SYMMETRY Alike
CHECK_DEADLOCK FALSE
INVARIANTS
    ThreadsSound
    ChannelSound
    BatchesSound
    RequestSound
    FilesSound
PROPERTIES
    ModelsSound
