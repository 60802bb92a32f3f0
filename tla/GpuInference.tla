----------------------------- MODULE GpuInference -----------------------------
(***************************************************************************)
(* The GPU path of one frame: vision_runtime/common/camera_texture_import, *)
(* the three gpu_preprocessor.cpp and the runtimes scrfd.cpp, liveness.cpp *)
(* and arcface.cpp that drive them.                                        *)
(*                                                                         *)
(* The owner thread runs the detector on a frame, then the liveness model  *)
(* and the recogniser on some of its faces.  Each of the three has its own *)
(* D3D12 queue, its own input tensor and its own shared NV12 texture, all  *)
(* reused for every frame.  The camera's D3D11 context and the D3D12       *)
(* queues execute what was submitted to them on their own; the only things *)
(* that order them are the fence a preprocessor signals on the camera      *)
(* context and waits for on its queue, and the read-backs that block the   *)
(* owner thread until a queue is drained.                                  *)
(*                                                                         *)
(* Pixels are abstracted to the number of the frame they show.  A camera   *)
(* texture is an address and an incarnation, as the frame pool may free a  *)
(* texture and allocate another one in its place.                          *)
(***************************************************************************)
EXTENDS Integers, Sequences, FiniteSets

CONSTANTS
    Addrs,        \* places for camera textures
    Devices,      \* camera devices (with the mode they deliver)
    MaxEntries,   \* CameraTextureImporter::max_entries_, 8 in the code
    MaxObs,       \* bound: faces of one batch
    MaxFrames,    \* bound: frames the camera delivers
    MaxReallocs   \* bound: textures the frame pool reallocates

GpuAssumption ==
    /\ MaxEntries \in Nat \ {0}
    /\ MaxObs \in Nat /\ MaxFrames \in Nat /\ MaxReallocs \in Nat

Models == {"scrfd", "liveness", "arcface"}

VARIABLES
    device,     \* external: the D3D11 device of the running camera session
    content,    \* external: the frame each texture shows, 0 at first
    incarn,     \* external: the incarnation of the texture at each address
    tag,        \* the private data of each texture, 0 when it has none
    latest,     \* Camera::latest
    frame,      \* the GpuFrame the owner works on
    nextTag,    \* CameraTextureImporter::next_id
    enabled,    \* CameraTextureImporter::enabled_
    lru,        \* CameraTextureImporter::lru_ (index_ holds the same ids)
    views,      \* the views a prepared frame is read through, or the copy
    made,       \* the resources each preprocessor and runtime has created
    srcDevice,  \* camera_device, source_width, source_height
    fenceNext,  \* camera_fence_value
    wrapped,    \* resources acquired from D3D11On12 and not yet released
    bound,      \* input_bound
    pc, model, obs, batch,  \* the owner: step, runtime, face, faces of batch
    recorded,   \* commands recorded on each D3D11On12 context, not flushed
    camQ,       \* commands submitted to the camera context
    queue,      \* commands submitted to each D3D12 queue
    fence,      \* the completed value of each camera fence
    nv12,       \* the frame shown by each shared_nv12 texture
    tensor,     \* what each input tensor holds: <<frame, face>>
    output,     \* what the last evaluation was computed from
    got         \* history: the last result, and what it should be about

cameraVars   == <<device, content, incarn, latest>>
importVars   == <<tag, nextTag, enabled, lru>>
resourceVars == <<made, srcDevice>>
ownerVars    == <<pc, model, obs, batch, frame>>
gpuVars      == <<fence, nv12, tensor, output>>
streamVars   == <<recorded, camQ, queue>>
stepVars     == <<views, fenceNext, wrapped, bound, got>>
vars == <<cameraVars, importVars, resourceVars, ownerVars, gpuVars,
          streamVars, stepVars>>

\* Incarnation 0 is that of no texture.
NoTexture == [addr |-> "none", inc |-> 0]
NoFrame == [texture |-> NoTexture, id |-> 0, dev |-> CHOOSE d \in Devices : TRUE]

-----------------------------------------------------------------------------
(* Construction.  Every function of initialize() may throw; it uses what   *)
(* earlier ones made.                                                      *)

Step(call, needs, makes) == [call |-> call, needs |-> needs, makes |-> makes]

\* What the three constructors create first: the camera's device and
\* context, the D3D12 device and queue, the WinML device, D3D11On12.
ScrfdDevices == <<
    Step("GetDevice", {}, {"camera_device", "camera_context"}),
    Step("create_d3d12_runtime", {"camera_device"},
         {"d3d12_device", "d3d12_queue"}),
    Step("create_learning_device", {"d3d12_queue"}, {"learning_device"}),
    Step("create_interop_device", {"d3d12_device", "d3d12_queue"},
         {"interop_device"}) >>

\* create_shared_nv12 also computes the letterbox transform.
ScrfdSharedTexture == <<
    Step("create_shared_nv12", {"camera_device", "interop_device"},
         {"shared_nv12", "transform"}),
    Step("camera_importer", {"interop_device"}, {"camera_importer"}) >>

\* The parameters are an immutable buffer, filled from the transform.
ScrfdShader == <<
    Step("compile_shader", {"interop_device"}, {"tensorize_shader"}),
    Step("create_sampler", {"interop_device"}, {"linear_sampler"}),
    Step("create_params_buffer", {"interop_device", "transform"},
         {"params_buffer"}) >>

ScrfdTensor == <<
    Step("create_tensor_d3d12_first", {"d3d12_device", "interop_device"},
         {"tensor"}) >>

ScrfdFence == <<
    Step("create_camera_fence", {"camera_device", "d3d12_device"},
         {"camera_fence"}) >>

\* Mutant: the parameters are filled before the transform is computed.
ScrfdConstructor_ParamsFirst ==
    ScrfdDevices \o ScrfdShader \o ScrfdSharedTexture \o ScrfdTensor
        \o ScrfdFence
ScrfdConstructor ==
    ScrfdDevices \o ScrfdSharedTexture \o ScrfdShader \o ScrfdTensor
        \o ScrfdFence

ArcFaceDevices == ScrfdDevices
ArcFaceSharedTexture == <<
    Step("create_shared_nv12", {"camera_device", "interop_device"},
         {"shared_nv12"}),
    Step("camera_importer", {"interop_device"}, {"camera_importer"}) >>
\* The parameters are a dynamic buffer, filled for every face.
ArcFaceShader == <<
    Step("compile_shader", {"interop_device"}, {"tensorize_shader"}),
    Step("create_sampler", {"interop_device"}, {"linear_sampler"}),
    Step("create_params_buffer", {"interop_device"}, {"params_buffer"}) >>
ArcFaceTensorAndFence == ScrfdTensor \o ScrfdFence
ArcFaceConstructor ==
    ArcFaceDevices \o ArcFaceSharedTexture \o ArcFaceShader
        \o ArcFaceTensorAndFence

LivenessDevices == ScrfdDevices
LivenessSharedTexture == ArcFaceSharedTexture
\* The liveness model also measures, on the GPU, how much of the aligned
\* face lies outside the picture.
LivenessShaders == <<
    Step("create_shaders", {"interop_device"},
         {"tensorize_shader", "coverage_reduce_shader"}),
    Step("create_coverage_buffers", {"interop_device"},
         {"coverage_buffer", "coverage_readback"}),
    Step("create_sampler", {"interop_device"}, {"linear_sampler"}),
    Step("create_params_buffer", {"interop_device"}, {"params_buffer"}) >>
LivenessTensorAndFence == ScrfdTensor \o ScrfdFence
LivenessConstructor ==
    LivenessDevices \o LivenessSharedTexture \o LivenessShaders
        \o LivenessTensorAndFence

\* After the preprocessor: the session and the binding of the runtime.
\* `preprocessor' is set as soon as its constructor has returned.
SessionSteps == <<
    Step("make_unique", {"camera_fence"}, {"preprocessor"}),
    Step("LearningModelSession", {"learning_device"}, {"session"}),
    Step("LearningModelBinding", {"session"}, {"binding"}) >>

RuntimeSteps(m) ==
    (CASE m = "scrfd"    -> ScrfdConstructor
       [] m = "liveness" -> LivenessConstructor
       [] m = "arcface"  -> ArcFaceConstructor) \o SessionSteps

\* The step of the construction that is due: the first whose results are
\* not all there.
Due(m) == LET todo == {k \in 1..Len(RuntimeSteps(m)) :
                         ~ RuntimeSteps(m)[k].makes \subseteq made[m]}
          IN  RuntimeSteps(m)[CHOOSE k \in todo : \A j \in todo : k <= j]

\* What preparing, tensorizing and evaluating use.
PrepareNeeds(m) == {"camera_device", "camera_context", "camera_importer",
                    "shared_nv12", "camera_fence", "d3d12_queue"}
TensorizeNeeds(m) ==
    {"tensor", "tensorize_shader", "linear_sampler", "params_buffer"}
    \union (IF m = "liveness" THEN {"coverage_reduce_shader",
               "coverage_buffer", "coverage_readback"} ELSE {})
EvaluateNeeds == {"session", "binding"}

-----------------------------------------------------------------------------
TypeOK ==
    /\ device \in Devices /\ content \in [Addrs -> 0..MaxFrames]
    /\ incarn \in [Addrs -> Nat] /\ tag \in [Addrs -> Nat]
    /\ nextTag \in Nat /\ enabled \in [Models -> BOOLEAN]
    /\ pc \in {"idle", "enter", "construct", "prepare", "tensorize",
               "submit", "coverage", "evaluate", "readback", "dead"}
    /\ model \in Models /\ obs \in Nat /\ batch \in Nat
    /\ bound \in [Models -> BOOLEAN]
    /\ fenceNext \in [Models -> Nat] /\ fence \in [Models -> Nat]
    /\ \A m \in Models :
         /\ Len(lru[m]) <= MaxEntries
         /\ wrapped[m] \subseteq {"camera", "tensor"}

Init ==
    /\ device \in Devices /\ content = [a \in Addrs |-> 0]
    /\ incarn = [a \in Addrs |-> 1] /\ latest = NoFrame
    /\ tag = [a \in Addrs |-> 0] /\ nextTag = 0
    /\ enabled \in {[m \in Models |-> b] : b \in BOOLEAN}  \* EDGE_ZERO_COPY
    /\ lru = [m \in Models |-> <<>>]
    /\ made = [m \in Models |-> {}] /\ srcDevice = [m \in Models |-> device]
    /\ views = [m \in Models |-> NoTexture]
    /\ fenceNext = [m \in Models |-> 0]
    /\ wrapped = [m \in Models |-> {}] /\ bound = [m \in Models |-> FALSE]
    /\ pc = "idle" /\ model = "scrfd" /\ obs = 1 /\ batch = 1
    /\ frame = NoFrame
    /\ recorded = [m \in Models |-> <<>>] /\ camQ = <<>>
    /\ queue = [m \in Models |-> <<>>]
    /\ fence = [m \in Models |-> 0] /\ nv12 = [m \in Models |-> 0]
    /\ tensor = [m \in Models |-> <<0, 0>>]
    /\ output = [m \in Models |-> <<0, 0>>]
    /\ got = [want |-> <<0, 0>>, have |-> <<0, 0>>]

-----------------------------------------------------------------------------
(* External: the camera.                                                   *)

\* The textures somebody refers to: Camera::latest, and the frame at work.
Held == {f.texture.addr : f \in
           {g \in {latest} : g.texture.inc > 0}
           \union {g \in {frame} : pc \notin {"idle", "dead"}}}

\* The frame pool writes a frame into a texture nobody holds.  It may first
\* free that texture and allocate another one in its place.
Deliver(a, new) ==
    /\ latest.id < MaxFrames /\ a \notin Held
    /\ incarn[a] + new <= 1 + MaxReallocs
    /\ content' = [content EXCEPT ![a] = latest.id + 1]
    /\ incarn' = [incarn EXCEPT ![a] = @ + new]
    /\ tag' = [tag EXCEPT ![a] = IF new = 1 THEN 0 ELSE @]
    /\ latest' = [texture |-> [addr |-> a, inc |-> incarn[a] + new],
                  id |-> latest.id + 1, dev |-> device]
    /\ UNCHANGED <<device, nextTag, enabled, lru, resourceVars, ownerVars,
                   gpuVars, streamVars, stepVars>>

\* stop and start between two frames: the camera opens again, perhaps on
\* another device, with new textures; the three runtimes stay as they are.
Restart(d) ==
    /\ pc = "idle" /\ frame.id > 0
    /\ \A a \in Addrs : incarn[a] <= MaxReallocs
    /\ device' = d
    /\ incarn' = [a \in Addrs |-> incarn[a] + 1]
    /\ tag' = [a \in Addrs |-> 0]
    /\ latest' = [latest EXCEPT !.texture = NoTexture]
    /\ UNCHANGED <<content, nextTag, enabled, lru, resourceVars, ownerVars,
                   gpuVars, streamVars, stepVars>>

-----------------------------------------------------------------------------
(* The owner.                                                              *)

\* wait_for_frame returns a newer frame; the detector is called on it.
TakeFrame ==
    /\ pc = "idle" /\ latest.id > frame.id /\ latest.texture.inc > 0
    /\ frame' = latest /\ model' = "scrfd" /\ obs' = 1 /\ batch' = 1
    /\ pc' = "enter"
    /\ UNCHANGED <<cameraVars, importVars, resourceVars, gpuVars, streamVars,
                   stepVars>>

\* detect, evaluate_many: the runtime is built by the first call.
EnsureRuntime(m) ==
    /\ pc = "enter" /\ model = m
    /\ pc' = IF "preprocessor" \in made[m] THEN "prepare" ELSE "construct"
    /\ UNCHANGED <<cameraVars, importVars, resourceVars, model, obs, batch,
                   frame, gpuVars, streamVars, stepVars>>

Construct(m) ==
    /\ pc = "construct" /\ model = m
    /\ made' = [made EXCEPT ![m] = @ \union Due(m).makes]
    /\ srcDevice' = [srcDevice EXCEPT ![m] = frame.dev]
    /\ pc' = IF "binding" \in made'[m] THEN "prepare" ELSE "construct"
    /\ UNCHANGED <<cameraVars, importVars, model, obs, batch, frame, gpuVars,
                   streamVars, stepVars>>

\* A constructor that throws leaves no preprocessor; the guard of the camera
\* resource is released.
Unwound(m) ==
    /\ wrapped' = [wrapped EXCEPT ![m] = {}]
    /\ made' = [made EXCEPT ![m] = IF "preprocessor" \in @ THEN @ ELSE {}]
    /\ UNCHANGED <<cameraVars, importVars, srcDevice, model, obs, batch,
                   frame, gpuVars, streamVars, views, fenceNext, bound, got>>

\* Any stage may throw; nobody catches the exception before main.
Throw ==
    /\ pc \notin {"idle", "submit", "dead"} /\ pc' = "dead" /\ Unwound(model)

\* validate_frame: a frame of another device or format throws.
Mismatch(m) ==
    /\ pc = "prepare" /\ model = m /\ frame.dev # srcDevice[m]
    /\ pc' = "dead" /\ Unwound(m)

(* CameraTextureImporter::acquire, with its four outcomes.                 *)

Off(m) ==
    /\ ~ enabled[m] /\ views' = [views EXCEPT ![m] = NoTexture]
    /\ UNCHANGED importVars

\* tag_of: the tag of the texture, or a new one.
TagOf(a) == IF tag[a] # 0 THEN tag[a] ELSE nextTag + 1

Cached(m, id) == {k \in 1..Len(lru[m]) : lru[m][k].id = id}

\* splice: entry k moves to the front, the others keep their order.
Spliced(s, k) == [j \in 1..Len(s) |-> IF j = 1 THEN s[k]
                                      ELSE IF j <= k THEN s[j - 1] ELSE s[j]]

Evicted(s) == SubSeq(s, 1, IF Len(s) > MaxEntries THEN MaxEntries ELSE Len(s))

\* Mutant: the counter is not advanced.
Tagged_SameNumber(a) ==
    /\ tag' = [tag EXCEPT ![a] = TagOf(a)]
    /\ nextTag' = nextTag
\* The new tag is drawn from a counter all importers share.
Tagged(a) ==
    /\ tag' = [tag EXCEPT ![a] = TagOf(a)]
    /\ nextTag' = IF tag[a] # 0 THEN nextTag ELSE nextTag + 1

Hit(m) ==
    LET a == frame.texture.addr
    IN  /\ enabled[m]
        /\ \E k \in Cached(m, TagOf(a)) :
             /\ lru' = [lru EXCEPT ![m] = Spliced(@, k)]
             /\ views' = [views EXCEPT ![m] = lru[m][k].texture]
        /\ Tagged(a) /\ UNCHANGED enabled

Miss(m) ==
    LET a == frame.texture.addr
    IN  /\ enabled[m] /\ Cached(m, TagOf(a)) = {}
        /\ Tagged(a)
        /\ lru' = [lru EXCEPT ![m] =
             Evicted(<<[id |-> TagOf(a), texture |-> frame.texture]>> \o @)]
        /\ views' = [views EXCEPT ![m] = frame.texture]
        /\ UNCHANGED enabled

\* import_new fails, at any of its stages, or the tag cannot be written:
\* this importer copies from now on.
ImportFails(m) ==
    LET a == frame.texture.addr
    IN  /\ enabled[m] /\ Cached(m, TagOf(a)) = {}
        /\ \/ Tagged(a)
           \/ tag[a] = 0 /\ nextTag' = nextTag + 1 /\ UNCHANGED tag
        /\ enabled' = [enabled EXCEPT ![m] = FALSE]
        /\ lru' = [lru EXCEPT ![m] = <<>>]
        /\ views' = [views EXCEPT ![m] = NoTexture]

\* A command of the camera context.
Command(op, m, v) == [op |-> op, model |-> m, value |-> v,
                      texture |-> frame.texture, face |-> obs]

\* Mutant: the D3D12 queue does not wait for the camera's fence.
PrepareFrame_NoWait(m) ==
    /\ pc = "prepare" /\ model = m /\ frame.dev = srcDevice[m]
    /\ Off(m) \/ Hit(m) \/ Miss(m) \/ ImportFails(m)
    /\ fenceNext' = [fenceNext EXCEPT ![m] = @ + 1]
    /\ camQ' = camQ \o (IF views'[m] = NoTexture
                          THEN <<Command("copy", m, fenceNext'[m])>>
                          ELSE <<>>)
                    \o <<Command("signal", m, fenceNext'[m])>>
    /\ pc' = "tensorize" /\ obs' = 1
    /\ UNCHANGED <<cameraVars, resourceVars, model, batch, frame, gpuVars,
                   recorded, queue, wrapped, bound, got>>
\* Mutant: the camera context is not flushed.
PrepareFrame_NoFlush(m) ==
    /\ pc = "prepare" /\ model = m /\ frame.dev = srcDevice[m]
    /\ Off(m) \/ Hit(m) \/ Miss(m) \/ ImportFails(m)
    /\ fenceNext' = [fenceNext EXCEPT ![m] = @ + 1]
    /\ queue' = [queue EXCEPT ![m] = Append(@, Command("wait", m, fenceNext'[m]))]
    /\ pc' = "tensorize" /\ obs' = 1
    /\ UNCHANGED <<cameraVars, resourceVars, model, batch, frame, gpuVars,
                   recorded, camQ, wrapped, bound, got>>
\* prepare_frame, and the first half of the detector's preprocess: the
\* frame is imported or copied, the camera context signals and is flushed,
\* the queue waits.
PrepareFrame(m) ==
    /\ pc = "prepare" /\ model = m /\ frame.dev = srcDevice[m]
    /\ Off(m) \/ Hit(m) \/ Miss(m) \/ ImportFails(m)
    /\ fenceNext' = [fenceNext EXCEPT ![m] = @ + 1]
    /\ camQ' = camQ \o (IF views'[m] = NoTexture
                          THEN <<Command("copy", m, fenceNext'[m])>>
                          ELSE <<>>)
                    \o <<Command("signal", m, fenceNext'[m])>>
    /\ queue' = [queue EXCEPT ![m] = Append(@, Command("wait", m, fenceNext'[m]))]
    /\ pc' = "tensorize" /\ obs' = 1
    /\ UNCHANGED <<cameraVars, resourceVars, model, batch, frame, gpuVars,
                   recorded, wrapped, bound, got>>

\* The shader is dispatched on the D3D11On12 context, with the wrapped
\* resources acquired; its parameters are those of this face.
Tensorize(m) ==
    /\ pc = "tensorize" /\ model = m
    /\ wrapped' = [wrapped EXCEPT ![m] =
         {"tensor"} \union (IF views[m] # NoTexture THEN {"camera"} ELSE {})]
    /\ recorded' = [recorded EXCEPT ![m] =
         <<[Command("tensorize", m, fenceNext[m])
              EXCEPT !.texture = views[m]]>>
         \o (IF m = "liveness"
               THEN <<Command("coverage", m, fenceNext[m])>> ELSE <<>>)]
    /\ pc' = "submit"
    /\ UNCHANGED <<cameraVars, importVars, resourceVars, model, obs, batch,
                   frame, gpuVars, camQ, queue, views, fenceNext, bound, got>>

\* Mutant: the context is flushed before the camera resource is released.
Submit_EarlyFlush(m) ==
    /\ pc = "submit" /\ model = m
    /\ wrapped' = [wrapped EXCEPT ![m] = @ \ {"tensor"}]
    /\ queue' = [queue EXCEPT ![m] = @ \o recorded[m]]
    /\ recorded' = [recorded EXCEPT ![m] = <<>>]
    /\ pc' = IF m = "liveness" THEN "coverage" ELSE "evaluate"
    /\ UNCHANGED <<cameraVars, importVars, resourceVars, model, obs, batch,
                   frame, gpuVars, camQ, views, fenceNext, bound, got>>
\* ReleaseWrappedResources, camera_access.release and Flush.
Submit(m) ==
    /\ pc = "submit" /\ model = m
    /\ wrapped' = [wrapped EXCEPT ![m] = {}]
    /\ queue' = [queue EXCEPT ![m] = @ \o recorded[m]]
    /\ recorded' = [recorded EXCEPT ![m] = <<>>]
    /\ pc' = IF m = "liveness" THEN "coverage" ELSE "evaluate"
    /\ UNCHANGED <<cameraVars, importVars, resourceVars, model, obs, batch,
                   frame, gpuVars, camQ, views, fenceNext, bound, got>>

\* A read-back: the owner thread blocks until the queue is drained.
ReadBack(m) ==
    /\ queue[m] = <<>>
    /\ got' = [want |-> <<frame.id, obs>>, have |-> output[m]]

\* The next face of the batch; after the last, the runtime the attendance
\* processor calls next, for some faces of the same frame, or none.
NextFace ==
    \/ /\ obs < batch /\ obs' = obs + 1 /\ pc' = "tensorize"
       /\ UNCHANGED <<model, batch>>
    \/ /\ obs = batch /\ obs' = 1
       /\ \/ pc' = "idle" /\ UNCHANGED <<model, batch>>
          \/ /\ model' \in (CASE model = "scrfd"    -> {"liveness", "arcface"}
                              [] model = "liveness" -> {"arcface"}
                              [] model = "arcface"  -> {})
             /\ batch' \in 1..MaxObs /\ pc' = "enter"

\* Mutant: the coverage is mapped without waiting.
Coverage_NoWait(m) ==
    /\ pc = "coverage" /\ model = m
    /\ got' = got
    /\ \/ pc' = "evaluate" /\ UNCHANGED <<model, obs, batch>>
       \/ NextFace
    /\ UNCHANGED <<cameraVars, importVars, resourceVars, frame, gpuVars,
                   streamVars, views, fenceNext, wrapped, bound>>
\* The coverage scalar is read; too much outside the picture and this face
\* is rejected without an evaluation.
Coverage(m) ==
    /\ pc = "coverage" /\ model = m
    /\ ReadBack(m)
    /\ \/ pc' = "evaluate" /\ UNCHANGED <<model, obs, batch>>
       \/ NextFace
    /\ UNCHANGED <<cameraVars, importVars, resourceVars, frame, gpuVars,
                   streamVars, views, fenceNext, wrapped, bound>>

\* The tensor is bound once, by the first evaluation.
Evaluate(m) ==
    /\ pc = "evaluate" /\ model = m
    /\ bound' = [bound EXCEPT ![m] = TRUE]
    /\ queue' = [queue EXCEPT ![m] = Append(@, Command("evaluate", m, fenceNext[m]))]
    /\ pc' = "readback"
    /\ UNCHANGED <<cameraVars, importVars, resourceVars, model, obs, batch,
                   frame, gpuVars, recorded, camQ, views, fenceNext, wrapped,
                   got>>

\* The output tensor is copied to the CPU and validated.
Output(m) ==
    /\ pc = "readback" /\ model = m
    /\ ReadBack(m) /\ NextFace
    /\ UNCHANGED <<cameraVars, importVars, resourceVars, frame, gpuVars,
                   streamVars, views, fenceNext, wrapped, bound>>

-----------------------------------------------------------------------------
(* External: the GPU executes each stream in order.                        *)

Pixels(t) == IF incarn[t.addr] = t.inc THEN content[t.addr] ELSE 0

CameraExecutes ==
    /\ camQ # <<>> /\ camQ' = Tail(camQ)
    /\ LET c == Head(camQ)
       IN  \/ /\ c.op = "copy"
              /\ nv12' = [nv12 EXCEPT ![c.model] = Pixels(c.texture)]
              /\ UNCHANGED fence
           \/ /\ c.op = "signal"
              /\ fence' = [fence EXCEPT ![c.model] = c.value]
              /\ UNCHANGED nv12
    /\ UNCHANGED <<cameraVars, importVars, resourceVars, ownerVars, tensor,
                   output, recorded, queue, stepVars>>

QueueExecutes(m) ==
    /\ queue[m] # <<>> /\ queue' = [queue EXCEPT ![m] = Tail(@)]
    /\ LET c == Head(queue[m])
       IN  \/ c.op = "wait" /\ fence[m] >= c.value /\ UNCHANGED <<tensor, output>>
           \/ /\ c.op = "tensorize"
              /\ tensor' = [tensor EXCEPT ![m] =
                   <<IF c.texture = NoTexture THEN nv12[m]
                     ELSE Pixels(c.texture), c.face>>]
              /\ UNCHANGED output
           \/ /\ c.op \in {"coverage", "evaluate"}
              /\ output' = [output EXCEPT ![m] = tensor[m]]
              /\ UNCHANGED tensor
    /\ UNCHANGED <<cameraVars, importVars, resourceVars, ownerVars, fence,
                   nv12, recorded, camQ, stepVars>>

-----------------------------------------------------------------------------
Terminated == pc \in {"idle", "dead"} /\ UNCHANGED vars

ScrfdPreprocess ==
    PrepareFrame("scrfd") \/ Tensorize("scrfd") \/ Submit("scrfd")
ArcFacePreprocess ==
    PrepareFrame("arcface") \/ Tensorize("arcface") \/ Submit("arcface")
LivenessPreprocess ==
    \/ PrepareFrame("liveness") \/ Tensorize("liveness")
    \/ Submit("liveness") \/ Coverage("liveness")
ScrfdRuntime ==
    \/ EnsureRuntime("scrfd") \/ Construct("scrfd") \/ Mismatch("scrfd")
    \/ Evaluate("scrfd") \/ Output("scrfd")
ArcFaceRuntime ==
    \/ EnsureRuntime("arcface") \/ Construct("arcface") \/ Mismatch("arcface")
    \/ Evaluate("arcface") \/ Output("arcface")
LivenessRuntime ==
    \/ EnsureRuntime("liveness") \/ Construct("liveness") \/ Mismatch("liveness")
    \/ Evaluate("liveness") \/ Output("liveness")

Owner == ScrfdPreprocess \/ ArcFacePreprocess \/ LivenessPreprocess
         \/ ScrfdRuntime \/ ArcFaceRuntime \/ LivenessRuntime

Next ==
    \/ \E a \in Addrs, new \in 0..1 : Deliver(a, new)
    \/ \E d \in Devices : Restart(d)
    \/ TakeFrame \/ Owner \/ Throw
    \/ CameraExecutes \/ \E m \in Models : QueueExecutes(m)
    \/ Terminated

Spec == Init /\ [][Next]_vars

\* The owner thread runs and the GPU executes what is submitted to it.
FairSpec ==
    /\ Spec /\ WF_vars(Owner) /\ WF_vars(CameraExecutes)
    /\ \A m \in Models : WF_vars(QueueExecutes(m))

-----------------------------------------------------------------------------
\* Every stage uses only what was created: each function of the
\* constructors what earlier ones made, preprocessing and evaluation what
\* the construction made.  A runtime whose construction failed half way
\* (`preprocessor' set, no session) must not be entered again.
NothingUsedBeforeMade ==
    LET needs == CASE pc = "construct" -> Due(model).needs
                   [] pc = "prepare"   -> PrepareNeeds(model)
                   [] pc = "tensorize" -> TensorizeNeeds(model)
                   [] pc = "evaluate"  -> EvaluateNeeds
                   [] OTHER -> {}
    IN  needs \subseteq made[model]

\* Every result the owner reads was computed from the pixels of the frame it
\* is working on and from the face it asked about, although textures,
\* tensors and queues are reused and nothing waits for the camera.
FreshResult == got.have = got.want

\* The camera context never has a copy into a shared NV12 texture pending
\* while its preprocessor still has to read what an earlier frame put there.
NoOverwriteWhileRead ==
    \A m \in Models :
      \A i \in 1..Len(camQ), k \in 1..Len(queue[m]) :
        (/\ camQ[i].op = "copy" /\ camQ[i].model = m
         /\ queue[m][k].op = "tensorize" /\ queue[m][k].texture = NoTexture)
        => camQ[i].value <= queue[m][k].value

\* An importer's entry for the tag of a texture is a view of that texture,
\* not of one that was there before; the ids of a cache are distinct.  All
\* importers tag the same textures.
CacheSound ==
    \A m \in Models :
      /\ \A k \in 1..Len(lru[m]), a \in Addrs :
           (tag[a] # 0 /\ lru[m][k].id = tag[a])
           => lru[m][k].texture = [addr |-> a, inc |-> incarn[a]]
      /\ \A j, k \in 1..Len(lru[m]) : lru[m][j].id = lru[m][k].id => j = k

\* Nothing is still acquired from D3D11On12 when its commands are in the
\* queue ("must be released before flushing the interop context").
ReleasedBeforeFlush ==
    \A m \in Models : recorded[m] = <<>> => wrapped[m] = {}

-----------------------------------------------------------------------------
(* Why it holds: the invariant of the specification that the safety        *)
(* properties follow from.                                                 *)

TextureRefs == [addr : Addrs \union {"none"}, inc : Nat]
Frames == [texture : TextureRefs, id : 0..MaxFrames, dev : Devices]
Entries == [id : Nat, texture : TextureRefs]
Commands == [op : {"copy", "signal", "wait", "tensorize", "coverage",
                   "evaluate"},
             model : Models, value : Nat, texture : TextureRefs, face : Nat]

StreamTypes ==
    /\ latest \in Frames /\ frame \in Frames
    /\ views \in [Models -> TextureRefs] /\ lru \in [Models -> Seq(Entries)]
    /\ camQ \in Seq(Commands) /\ queue \in [Models -> Seq(Commands)]
    /\ recorded \in [Models -> Seq(Commands)]
    /\ DOMAIN wrapped = Models /\ DOMAIN made = Models
    /\ DOMAIN nv12 = Models /\ DOMAIN tensor = Models /\ DOMAIN output = Models

\* A texture somebody holds is not written and not reallocated.
Shows(f) ==
    /\ f.texture.addr \in Addrs /\ f.texture.inc > 0
    /\ incarn[f.texture.addr] = f.texture.inc
    /\ content[f.texture.addr] = f.id
TexturesHeld ==
    /\ latest.texture.inc > 0 => Shows(latest)
    /\ pc \notin {"idle", "dead"} => Shows(frame)

\* A tag is used once: no two textures carry it, and no importer has an
\* entry under a tag that was not given yet.
TagsUnique ==
    /\ \A a \in Addrs : tag[a] <= nextTag
    /\ \A a, c \in Addrs : tag[a] = tag[c] /\ tag[a] # 0 => a = c
    /\ \A m \in Models : \A k \in 1..Len(lru[m]) : lru[m][k].id \in 1..nextTag

\* The binding is made last.
ConstructionSoFar ==
    /\ \A m \in Models : "binding" \in made[m] =>
         \A k \in 1..Len(RuntimeSteps(m)) :
           RuntimeSteps(m)[k].makes \subseteq made[m]
    /\ \A m \in Models :
         "preprocessor" \in made[m] /\ ~(m = model /\ pc \in {"construct", "dead"})
           => "binding" \in made[m]
    /\ pc = "construct" => "binding" \notin made[model]
    /\ pc \notin {"idle", "enter", "construct", "dead"} => "binding" \in made[model]

\* The fence of a camera stream is never ahead of what was asked for.
FencesBehind ==
    /\ \A m \in Models : fence[m] <= fenceNext[m]
    /\ \A k \in 1..Len(camQ) : camQ[k].value <= fenceNext[camQ[k].model]

\* The commands of the frame and the face at work.
Copies(m)    == [Command("copy", m, fenceNext[m]) EXCEPT !.face = 1]
Signals(m)   == [Command("signal", m, fenceNext[m]) EXCEPT !.face = 1]
Waits(m)     == [Command("wait", m, fenceNext[m]) EXCEPT !.face = 1]
Reads(m)     == [Command("tensorize", m, fenceNext[m]) EXCEPT !.texture = views[m]]
Covers(m)    == Command("coverage", m, fenceNext[m])
Evaluates(m) == Command("evaluate", m, fenceNext[m])

\* What is recorded when the owner is about to submit, and what may be left
\* in the queue at each of its steps.
Recording(m) == IF m = "liveness" THEN <<Reads(m), Covers(m)>> ELSE <<Reads(m)>>
Left(m) ==
    CASE pc \in {"tensorize", "submit"} -> {<<>>, <<Waits(m)>>}
      [] pc = "coverage" ->
           {<<>>, <<Covers(m)>>, <<Reads(m), Covers(m)>>,
            <<Waits(m), Reads(m), Covers(m)>>}
      [] pc = "evaluate" ->
           IF m = "liveness" THEN {<<>>}
           ELSE {<<>>, <<Reads(m)>>, <<Waits(m), Reads(m)>>}
      [] pc = "readback" ->
           IF m = "liveness" THEN {<<>>, <<Evaluates(m)>>}
           ELSE {<<>>, <<Evaluates(m)>>, <<Reads(m), Evaluates(m)>>,
                 <<Waits(m), Reads(m), Evaluates(m)>>}
      [] OTHER -> {<<>>}

\* The streams of the models that are not at work are empty, and so are all
\* of them between two preparations.
AtRest == {"idle", "enter", "construct", "prepare"}
StreamsAtRest ==
    pc # "dead" =>
        /\ \A m \in Models : m # model => queue[m] = <<>>
        /\ \A m \in Models :
             recorded[m] = IF m = model /\ pc = "submit" THEN Recording(m)
                           ELSE <<>>
        /\ pc \in AtRest => camQ = <<>> /\ queue[model] = <<>>
        /\ pc \in AtRest \ {"idle"} => obs = 1

\* While the queue still waits, the camera's part may be pending; after it,
\* the shared texture shows the frame, then the tensor holds the face, then
\* the output is that of the face.
StreamsInOrder ==
    pc \notin AtRest \union {"dead"} =>
        /\ queue[model] \in Left(model)
        /\ views[model] \in {NoTexture, frame.texture}
        /\ camQ \in {<<>>, <<Signals(model)>>, <<Copies(model), Signals(model)>>}
        /\ camQ # <<>> => /\ fence[model] < fenceNext[model]
                          /\ queue[model] # <<>> /\ queue[model][1] = Waits(model)
        /\ views[model] = NoTexture /\ Len(camQ) < 2 => nv12[model] = frame.id
        /\ /\ pc \in {"coverage", "evaluate", "readback"}
           /\ queue[model] \in {<<>>, <<Covers(model)>>, <<Evaluates(model)>>}
           => tensor[model] = <<frame.id, obs>>
        /\ pc \in {"coverage", "readback"} /\ queue[model] = <<>>
           => output[model] = <<frame.id, obs>>

GpuInvariant ==
    /\ TypeOK /\ StreamTypes /\ TexturesHeld /\ TagsUnique /\ ConstructionSoFar
    /\ FencesBehind /\ StreamsAtRest /\ StreamsInOrder
    /\ NoOverwriteWhileRead /\ CacheSound /\ ReleasedBeforeFlush /\ FreshResult

-----------------------------------------------------------------------------
\* The frame at work comes to its end, or the process does.
FrameEnds == pc \notin {"idle", "dead"} ~> pc \in {"idle", "dead"}
==============================================================================
