---------------------------- MODULE ProgressSuite ----------------------------
(***************************************************************************)
(* What must come to an end, in small instances without symmetry: the      *)
(* shutdown of the threads (SyncThreads), a request (HttpRequest), the     *)
(* delivery after a change of device (WireFormat), a frame on the GPU      *)
(* (GpuInference), the assignment of detections to tracks (Assignment) and *)
(* the judgement of one face (AttendanceProcessor).  `component' says      *)
(* whose behaviour is being explored; the variables of the others stay     *)
(* Asleep.                                                                 *)
(***************************************************************************)
EXTENDS Integers

CONSTANTS Asleep, None, Infinity, ra, d1, d2, a1, c1, c2, t1, alice

VARIABLES
    component,
    \* SyncThreads
    owner, alive, stop, ch, closed, hello, wk, wake, refs, net, cb, refresh,
    auth, auth_refused, dirty, pending, blocked, reload, runtime, threw,
    raced,
    \* HttpRequest
    token, http_pc, now, deadline, until, answer, arrived, cut, out,
    \* WireFormat
    device, of, queue, dead, attempts, pause, sent, stored, refused, posted,
    unreadable, faults,
    \* GpuInference
    camera_device, content, incarn, tag, latest, frame, nextTag, enabled,
    lru, views, made, srcDevice, fenceNext, wrapped, bound, gpu_pc, model,
    obs, batch, recorded, camQ, gpu_queue, fence, nv12, tensor, output, got,
    \* Assignment
    costs, u, v, p, way, minv, used, i, j0, lapjv_pc,
    \* AttendanceProcessor
    states, emitted, gallery, events, quiet

threadsVars == <<owner, alive, stop, ch, closed, hello, wk, wake, refs, net,
                 cb, refresh, auth, auth_refused, dirty, pending, blocked,
                 reload, runtime, threw, raced>>
httpVars == <<token, http_pc, now, deadline, until, answer, arrived, cut, out>>
wireVars == <<device, of, queue, dead, attempts, pause, sent, stored,
              refused, posted, unreadable, faults>>
gpuVars == <<camera_device, content, incarn, tag, latest, frame, nextTag,
             enabled, lru, views, made, srcDevice, fenceNext, wrapped, bound,
             gpu_pc, model, obs, batch, recorded, camQ, gpu_queue, fence,
             nv12, tensor, output, got>>
lapjvVars == <<costs, u, v, p, way, minv, used, i, j0, lapjv_pc>>
faceVars == <<states, emitted, gallery, events, quiet>>
vars == <<component, threadsVars, httpVars, wireVars, gpuVars, lapjvVars,
          faceVars>>

-----------------------------------------------------------------------------
Threads == INSTANCE SyncThreads
  WITH refused <- auth_refused, Workload <- {"refusals"}

Http == INSTANCE HttpRequest
  WITH pc <- http_pc, sent <- arrived, Timeout <- 2, Limit <- 3,
       MaxBuffer <- 2, Statuses <- {200, 401, 429, 503},
       RetryAfters <- {None, ra},
       Bodies <- {<<>>, <<1>>, <<1, 2, 3>>, <<1, 2, 3, 4>>}

Wire == INSTANCE WireFormat
  WITH Devices <- {d1, d2}, MaxEvents <- 2, BatchLimit <- 2,
       MaxAttempts <- 2, MaxFaults <- 2

Gpu == INSTANCE GpuInference
  WITH device <- camera_device, pc <- gpu_pc, queue <- gpu_queue,
       Addrs <- {a1}, Devices <- {c1, c2}, MaxEntries <- 1, MaxObs <- 1,
       MaxFrames <- 2, MaxReallocs <- 1

Lapjv == INSTANCE Assignment
  WITH pc <- lapjv_pc, Rows <- 2, Cols <- 2, MaxCost <- 1,
       Costs <- {-1, 0, 1, 2}

Face == INSTANCE AttendanceProcessor
  WITH Tracks <- {t1}, Identities <- {alice}, BonaFide <- 2, Attack <- 3,
       PadMax <- 3, PadEvery <- 2, ArcMax <- 2, ArcExtra <- 1, ArcEvery <- 2,
       MaxQuality <- 2, MaxMissing <- 2, Ttl <- 6, Cooldown <- 2, MaxGap <- 1

ASSUME Threads!WorkloadAssumption /\ Http!RequestAssumption /\ Wire!WireAssumption
ASSUME Gpu!GpuAssumption /\ Lapjv!AssignmentAssumption
ASSUME Face!ProcessorAssumption

-----------------------------------------------------------------------------
ThreadsOff ==
    /\ owner = Asleep /\ alive = Asleep /\ stop = Asleep /\ ch = Asleep /\ closed = Asleep
    /\ hello = Asleep /\ wk = Asleep /\ wake = Asleep /\ refs = Asleep /\ net = Asleep
    /\ cb = Asleep /\ refresh = Asleep /\ auth = Asleep /\ auth_refused = Asleep
    /\ dirty = Asleep /\ pending = Asleep /\ blocked = Asleep /\ reload = Asleep
    /\ runtime = Asleep /\ threw = Asleep /\ raced = Asleep
HttpOff ==
    /\ token = Asleep /\ http_pc = Asleep /\ now = Asleep /\ deadline = Asleep
    /\ until = Asleep /\ answer = Asleep /\ arrived = Asleep /\ cut = Asleep /\ out = Asleep
WireOff ==
    /\ device = Asleep /\ of = Asleep /\ queue = Asleep /\ dead = Asleep
    /\ attempts = Asleep /\ pause = Asleep /\ sent = Asleep /\ stored = Asleep
    /\ refused = Asleep /\ posted = Asleep /\ unreadable = Asleep /\ faults = Asleep
GpuOff ==
    /\ camera_device = Asleep /\ content = Asleep /\ incarn = Asleep /\ tag = Asleep
    /\ latest = Asleep /\ frame = Asleep /\ nextTag = Asleep /\ enabled = Asleep
    /\ lru = Asleep /\ views = Asleep /\ made = Asleep /\ srcDevice = Asleep
    /\ fenceNext = Asleep /\ wrapped = Asleep /\ bound = Asleep /\ gpu_pc = Asleep
    /\ model = Asleep /\ obs = Asleep /\ batch = Asleep /\ recorded = Asleep
    /\ camQ = Asleep /\ gpu_queue = Asleep /\ fence = Asleep /\ nv12 = Asleep
    /\ tensor = Asleep /\ output = Asleep /\ got = Asleep
LapjvOff ==
    /\ costs = Asleep /\ u = Asleep /\ v = Asleep /\ p = Asleep /\ way = Asleep
    /\ minv = Asleep /\ used = Asleep /\ i = Asleep /\ j0 = Asleep /\ lapjv_pc = Asleep
FaceOff ==
    /\ states = Asleep /\ emitted = Asleep /\ gallery = Asleep
    /\ events = Asleep /\ quiet = Asleep

Init ==
    /\ component \in {"threads", "http", "wire", "gpu", "lapjv", "face"}
    /\ IF component = "threads" THEN Threads!Init ELSE ThreadsOff
    /\ IF component = "http" THEN Http!Init ELSE HttpOff
    /\ IF component = "wire" THEN Wire!Init ELSE WireOff
    /\ IF component = "gpu" THEN Gpu!Init ELSE GpuOff
    /\ IF component = "lapjv" THEN Lapjv!Init ELSE LapjvOff
    /\ IF component = "face" THEN Face!Init ELSE FaceOff

Next ==
    /\ \/ /\ component = "threads" /\ Threads!Next
          /\ UNCHANGED <<httpVars, wireVars, gpuVars, lapjvVars, faceVars>>
       \/ /\ component = "http" /\ Http!Next
          /\ UNCHANGED <<threadsVars, wireVars, gpuVars, lapjvVars, faceVars>>
       \/ /\ component = "wire" /\ Wire!Next
          /\ UNCHANGED <<threadsVars, httpVars, gpuVars, lapjvVars, faceVars>>
       \/ /\ component = "gpu" /\ Gpu!Next
          /\ UNCHANGED <<threadsVars, httpVars, wireVars, lapjvVars, faceVars>>
       \/ /\ component = "lapjv" /\ Lapjv!Next
          /\ UNCHANGED <<threadsVars, httpVars, wireVars, gpuVars, faceVars>>
       \/ /\ component = "face" /\ Face!Next
          /\ UNCHANGED <<threadsVars, httpVars, wireVars, gpuVars, lapjvVars>>
    /\ UNCHANGED component

\* Every thread that can go on does; the channel is woken at last although
\* the worker also takes the mutex of its signal; the clock of a request and
\* the pauses of the delivery pass; the GPU executes what it is given; the
\* owner keeps asking for frames.
Fair ==
    /\ WF_threadsVars(component = "threads" /\ Threads!Worker)
    /\ WF_threadsVars(component = "threads" /\ Threads!Channel)
    /\ WF_threadsVars(component = "threads" /\ Threads!Teardown)
    /\ SF_threadsVars(component = "threads" /\ Threads!ChannelWakes)
    /\ WF_httpVars(component = "http" /\ Http!Client)
    /\ WF_httpVars(component = "http" /\ Http!Tick)
    /\ WF_wireVars(component = "wire" /\ Wire!Step)
    /\ WF_wireVars(component = "wire" /\ Wire!RetryDue)
    /\ WF_gpuVars(component = "gpu" /\ Gpu!Owner)
    /\ WF_gpuVars(component = "gpu" /\ Gpu!CameraExecutes)
    /\ \A m \in Gpu!Models :
         WF_gpuVars(component = "gpu" /\ Gpu!QueueExecutes(m))
    /\ WF_lapjvVars(component = "lapjv" /\ Lapjv!Next)
    /\ WF_faceVars(component = "face" /\ Face!Frame)

FairSpec == Init /\ [][Next]_vars /\ Fair

-----------------------------------------------------------------------------
(* The parts of a property are those of the modules, where each is         *)
(* explained; a property here says what they come to.                      *)

\* EverythingEnds: the destruction of the channel, the worker and the service;
\* a request, whatever the network does; the stall of the queue, once every
\* row in it is of the configured device; the work on a frame, with the
\* streams of the GPU; and the loops of linear_assignment.
EverythingEnds ==
    /\ component = "threads" => Threads!ShutdownEnds
    /\ component = "http" => Http!RequestEnds
    /\ <>[](component = "wire" => Wire!OwnRowsOnly)
       => <>[](component = "wire" => queue = {})
    /\ component = "gpu" => Gpu!FrameEnds
    /\ component = "lapjv" => Lapjv!Terminates

\* SteadyFaceDecided of AttendanceProcessor: a face that is seen well in every
\* frame is decided, if the evidence outlives what it needs.
SteadyFaceDecided ==
    Face!EvidenceOutlives =>
        (<>[][component = "face" => Face!Steady(t1)]_faceVars
            => <>(component = "face" => Face!IsDecided(t1)))
=============================================================================
