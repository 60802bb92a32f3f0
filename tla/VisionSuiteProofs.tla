--------------------------- MODULE VisionSuiteProofs ---------------------------
(***************************************************************************)
(* Theorems about VisionSuite, the way of a frame: its textures on the GPU *)
(* (GpuInference), the faces decoded from the detector's outputs           *)
(* (ScrfdDecode), the mode the camera was opened in (FormatSelector), the  *)
(* tracks (ByteTrack, BiometricRuntime), the gallery (GalleryMatcher), the *)
(* association of tracks and boxes (Assignment) and the alignment of a     *)
(* face (FaceAlignment).  The last two are proved in AssignmentProofs and  *)
(* FaceAlignmentProofs, which are instantiated here.  For each component   *)
(* there is one lemma per conjunct of its invariant a step can disturb,    *)
(* the step, and the theorem about the suite.                              *)
(***************************************************************************)
EXTENDS VisionSuite, Sequences, FiniteSetTheorems, SequenceTheorems,
        WellFoundedInduction, TLAPS

-----------------------------------------------------------------------------
(* Least elements: induction on numbers and on finite sets, by the least   *)
(* counterexample.                                                         *)

\* A set of natural numbers has a least one.
LEMMA LeastNatural ==
  ASSUME NEW S, S \subseteq Nat, S # {}
  PROVE  \E n \in S : \A m \in S : n <= m
<1>1. IsWellFoundedOn(OpToRel(<, Nat), Nat)
  BY NatLessThanWellFounded
<1>2. PICK n \in S : \A m \in S : ~ (<<m, n>> \in OpToRel(<, Nat))
  BY <1>1, WFMin
<1>3. ASSUME NEW m \in S PROVE n <= m
  <2>1. <<m, n>> \in OpToRel(<, Nat) <=> m < n
    BY DEF OpToRel
  <2>2. ~ (m < n)
    BY <1>2, <2>1
  <2>3. m \in Nat /\ n \in Nat
    OBVIOUS
  <2> QED
    BY <2>2, <2>3
<1> QED
  BY <1>3

\* Of a set of finite sets one has no other of them as a subset.
HasLeast(F) == \E U \in F : \A V \in F : V \subseteq U => V = U
LEMMA LeastSubset ==
  ASSUME NEW S, NEW F, F # {}, \A U \in F : U \subseteq S /\ IsFiniteSet(U)
  PROVE  HasLeast(F)
<1>1. IsWellFoundedOn(StrictSubsetOrdering(S), FiniteSubsetsOf(S))
  BY FS_StrictSubsetOrderingWellFounded
<1>2. F \subseteq FiniteSubsetsOf(S)
  BY DEF FiniteSubsetsOf
<1>3. \E U \in F : \A V \in F : ~ (<<V, U>> \in StrictSubsetOrdering(S))
  BY <1>1, <1>2, WFMin
<1> QED
  BY <1>3 DEF StrictSubsetOrdering, HasLeast

\* A finite set of integers has a largest one.
LEMMA Largest ==
  ASSUME NEW S, S \subseteq Int, IsFiniteSet(S), S # {}
  PROVE  \E n \in S : \A m \in S : m <= n
<1> DEFINE Topped(U) == \E n \in U : \A m \in U : m <= n
           Bad == {U \in SUBSET S : U # {} /\ ~ Topped(U)}
<1>1. SUFFICES ASSUME Bad # {} PROVE FALSE
  OBVIOUS
<1>2. PICK U \in Bad : \A V \in Bad : V \subseteq U => V = U
  <2>1. \A V \in Bad : V \subseteq S /\ IsFiniteSet(V)
    BY FS_Subset
  <2> HIDE DEF Bad
  <2>2. HasLeast(Bad)
    BY <1>1, <2>1, LeastSubset
  <2> QED
    BY <2>2 DEF HasLeast
<1>3. U \subseteq S /\ U # {} /\ ~ Topped(U)
  OBVIOUS
<1>4. PICK e \in U : TRUE
  BY <1>3
<1> DEFINE W == U \ {e}
<1>5. CASE W = {}
  <2>1. \A m \in U : m = e
    BY <1>5
  <2>2. e <= e
    BY <1>3, <1>4
  <2> QED
    BY <1>3, <1>4, <2>1, <2>2
<1>6. CASE W # {}
  <2>1. W \subseteq U /\ W # U /\ W \in SUBSET S
    BY <1>3, <1>4
  <2>2. Topped(W)
    <3>1. W \notin Bad
      BY <1>2, <2>1
    <3> HIDE DEF W, Topped
    <3> QED
      BY <1>6, <2>1, <3>1
  <2>3. PICK n \in W : \A m \in W : m <= n
    BY <2>2
  <2>4. n \in Int /\ e \in Int /\ \A m \in U : m \in Int /\ (m \in W \/ m = e)
    BY <1>3, <1>4, <2>1
  <2>5. CASE e <= n
    BY <1>3, <2>1, <2>3, <2>4, <2>5
  <2>6. CASE n <= e
    <3>1. \A m \in U : m <= e
      BY <2>3, <2>4, <2>6
    <3> QED
      BY <1>3, <1>4, <3>1
  <2> QED
    BY <2>4, <2>5, <2>6
<1> QED
  BY <1>5, <1>6

\* How many members of a set are smaller than one.
Rank(S, d) == Cardinality({e \in S : e < d})

\* Every rank below the size of a finite set is taken.
LEMMA RanksTaken ==
  ASSUME NEW S, S \subseteq Int, IsFiniteSet(S)
  PROVE  \A j \in 0..(Cardinality(S) - 1) : \E d \in S : Rank(S, d) = j
<1> DEFINE Ranked(U) == \A j \in 0..(Cardinality(U) - 1) : \E d \in U : Rank(U, d) = j
           Bad == {U \in SUBSET S : ~ Ranked(U)}
<1>f. \A U \in SUBSET S : IsFiniteSet(U) /\ Cardinality(U) \in Nat /\ U \subseteq Int
  BY FS_Subset, FS_CardinalityType
<1>1. SUFFICES ASSUME Bad # {} PROVE FALSE
  OBVIOUS
<1>2. PICK U \in Bad : \A V \in Bad : V \subseteq U => V = U
  <2>1. \A V \in Bad : V \subseteq S /\ IsFiniteSet(V)
    BY <1>f
  <2> HIDE DEF Bad
  <2>2. HasLeast(Bad)
    BY <1>1, <2>1, LeastSubset
  <2> QED
    BY <2>2 DEF HasLeast
<1>3. U \subseteq S /\ ~ Ranked(U) /\ IsFiniteSet(U)
  BY <1>f
<1>4. U # {}
  <2> SUFFICES ASSUME U = {} PROVE FALSE
    OBVIOUS
  <2>1. Cardinality(U) = 0
    BY FS_EmptySet
  <2> QED
    BY <1>3, <2>1
<1>5. PICK m \in U : \A d \in U : d <= m
  BY <1>f, <1>3, <1>4, Largest
<1> DEFINE W == U \ {m}
<1>6. Cardinality(W) = Cardinality(U) - 1
  BY <1>3, <1>5, FS_RemoveElement
<1>7. Ranked(W)
  <2>1. W \subseteq U /\ W # U /\ W \subseteq S
    BY <1>3, <1>5
  <2>2. W \notin Bad
    BY <1>2, <2>1
  <2> QED
    BY <2>1, <2>2
<1>8. ASSUME NEW j \in 0..(Cardinality(U) - 1) PROVE \E d \in U : Rank(U, d) = j
  <2>1. CASE j = Cardinality(U) - 1
    <3>1. {e \in U : e < m} = W
      <4>1. \A e \in U : e < m <=> e # m
        BY <1>5, <1>3, <1>f
      <4> QED
        BY <4>1
    <3> QED
      BY <2>1, <3>1, <1>6, <1>5 DEF Rank
  <2>2. CASE j # Cardinality(U) - 1
    <3>1. Cardinality(U) \in Nat
      BY <1>f, <1>3
    <3>2. j \in 0..(Cardinality(W) - 1)
      BY <2>2, <3>1, <1>6
    <3>3. PICK d \in W : Rank(W, d) = j
      BY <3>2, <1>7
    <3>4. {e \in U : e < d} = {e \in W : e < d}
      BY <1>5, <1>3, <1>f
    <3> QED
      BY <3>3, <3>4 DEF Rank
  <2> QED
    BY <2>1, <2>2
<1> QED
  BY <1>3, <1>8

-----------------------------------------------------------------------------
(* GpuInference: construction                                              *)

\* A nonempty set of places in a list has a first one.
LEMMA FirstIsThere ==
  ASSUME NEW N \in Nat, NEW S, S # {}, S \subseteq 1..N
  PROVE  \E x \in S : \A y \in S : x <= y
<1>1. S \subseteq Nat
  OBVIOUS
<1> QED
  BY <1>1, LeastNatural

\* What the steps of a construction have made together, and that each of them
\* uses only what was there or what an earlier one made.
Made(s) == UNION {s[x].makes : x \in DOMAIN s}
InOrder(s, there) ==
    \A x \in DOMAIN s :
      s[x].needs \subseteq there \cup UNION {s[y].makes : y \in 1..(x - 1)}
IsList(s) == \E Of : s \in Seq(Of)

\* One list after another: what the first makes the second may use.
LEMMA StepsInTurn ==
  ASSUME NEW s, IsList(s), NEW t, IsList(t), InOrder(s, {}),
         NEW needed, InOrder(t, needed), needed \subseteq Made(s)
  PROVE  /\ IsList(s \o t) /\ Made(s \o t) = Made(s) \cup Made(t)
         /\ InOrder(s \o t, {})
<1> DEFINE c == s \o t
<1> PICK Ss : s \in Seq(Ss)
  BY DEF IsList
<1> PICK Ts : t \in Seq(Ts)
  BY DEF IsList
<1>1. /\ c \in Seq(Ss \cup Ts) /\ Len(c) = Len(s) + Len(t)
      /\ Len(s) \in Nat /\ Len(t) \in Nat
      /\ DOMAIN s = 1..Len(s) /\ DOMAIN t = 1..Len(t) /\ DOMAIN c = 1..Len(c)
      /\ \A x \in 1..Len(s) : c[x] = s[x]
      /\ \A x \in 1..Len(t) : c[Len(s) + x] = t[x]
  OBVIOUS
<1> HIDE DEF c
<1>2. \A x \in DOMAIN c : x \in DOMAIN s \/ (x - Len(s) \in DOMAIN t /\ c[x] = t[x - Len(s)])
  BY <1>1
<1>3. Made(c) = Made(s) \cup Made(t)
  <2>1. Made(c) \subseteq Made(s) \cup Made(t)
    BY <1>1, <1>2 DEF Made
  <2>2. Made(s) \subseteq Made(c)
    BY <1>1 DEF Made
  <2>3. Made(t) \subseteq Made(c)
    <3> SUFFICES ASSUME NEW x \in DOMAIN t PROVE t[x].makes \subseteq Made(c)
      BY DEF Made
    <3>1. Len(s) + x \in DOMAIN c /\ c[Len(s) + x] = t[x]
      BY <1>1
    <3> QED
      BY <3>1 DEF Made
  <2> QED
    BY <2>1, <2>2, <2>3
<1>4. InOrder(c, {})
  <2> SUFFICES ASSUME NEW x \in DOMAIN c
               PROVE  c[x].needs \subseteq UNION {c[y].makes : y \in 1..(x - 1)}
    BY DEF InOrder
  <2>1. CASE x \in DOMAIN s
    <3>1. \A y \in 1..(x - 1) : c[y] = s[y]
      BY <1>1, <2>1
    <3>2. UNION {c[y].makes : y \in 1..(x - 1)} = UNION {s[y].makes : y \in 1..(x - 1)}
      BY <3>1
    <3> QED
      BY <1>1, <2>1, <3>2 DEF InOrder
  <2>2. CASE x \notin DOMAIN s
    <3> DEFINE z == x - Len(s)
    <3>1. z \in DOMAIN t /\ c[x] = t[z] /\ x \in Nat
      BY <1>1, <1>2, <2>2
    <3>2. t[z].needs \subseteq Made(s) \cup UNION {t[y].makes : y \in 1..(z - 1)}
      BY <3>1 DEF InOrder
    <3>3. Made(s) \subseteq UNION {c[y].makes : y \in 1..(x - 1)}
      <4>1. \A y \in DOMAIN s : y \in 1..(x - 1) /\ c[y] = s[y]
        BY <1>1, <2>2, <3>1
      <4> QED
        BY <4>1 DEF Made
    <3>4. UNION {t[y].makes : y \in 1..(z - 1)} \subseteq UNION {c[y].makes : y \in 1..(x - 1)}
      <4>1. ASSUME NEW y \in 1..(z - 1)
            PROVE  Len(s) + y \in 1..(x - 1) /\ c[Len(s) + y] = t[y]
        <5>1. Len(s) \in Nat /\ x - Len(s) = z /\ z \in DOMAIN t
          BY <1>1, <3>1
        <5>2. Len(s) + y \in 1..(x - 1)
          BY <3>1, <4>1, <5>1
        <5>3. y \in DOMAIN t
          BY <1>1, <3>1, <4>1, <5>1
        <5> QED
          BY <1>1, <5>2, <5>3
      <4> QED
        BY <4>1
    <3> QED
      BY <3>1, <3>2, <3>3, <3>4
  <2> QED
    BY <2>1, <2>2
<1> QED
  BY <1>1, <1>3, <1>4 DEF c, IsList

\* A tuple is a list of its elements.
LEMMA TuplesAreLists ==
  /\ \A x : IsList(<<x>>)
  /\ \A x, y : IsList(<<x, y>>)
  /\ \A x, y, z : IsList(<<x, y, z>>)
  /\ \A x, y, z, s : IsList(<<x, y, z, s>>)
<1>1. \A x : <<x>> \in Seq({x})
  OBVIOUS
<1>2. \A x, y : <<x, y>> \in Seq({x, y})
  OBVIOUS
<1>3. \A x, y, z : <<x, y, z>> \in Seq({x, y, z})
  OBVIOUS
<1>4. \A x, y, z, s : <<x, y, z, s>> \in Seq({x, y, z, s})
  OBVIOUS
<1> QED
  BY <1>1, <1>2, <1>3, <1>4 DEF IsList

\* The parts of the three constructors: each is a list, makes what it says, and
\* uses only what the parts before it have made.
MadeByDevices ==
    {"camera_device", "camera_context", "d3d12_device", "d3d12_queue",
     "learning_device", "interop_device"}
Tensorizing == {"tensorize_shader", "linear_sampler", "params_buffer"}

\* The devices, which every preprocessor creates first.
LEMMA DevicesFirst ==
  /\ IsList(Gpu!ScrfdDevices)
  /\ Made(Gpu!ScrfdDevices) = MadeByDevices
  /\ InOrder(Gpu!ScrfdDevices, {})
<1> USE DEF Gpu!ScrfdDevices, Gpu!Step
<1> USE DEF MadeByDevices, Tensorizing
<1>1. IsList(Gpu!ScrfdDevices)
  BY TuplesAreLists
<1>2. Made(Gpu!ScrfdDevices) = MadeByDevices
  BY DEF Made
<1>3. InOrder(Gpu!ScrfdDevices, {})
  BY DEF InOrder
<1> QED
  BY <1>1, <1>2, <1>3

\* The detector's shared texture and importer.
LEMMA ScrfdTextureNext ==
  /\ IsList(Gpu!ScrfdSharedTexture)
  /\ Made(Gpu!ScrfdSharedTexture) = {"shared_nv12", "transform", "camera_importer"}
  /\ InOrder(Gpu!ScrfdSharedTexture, MadeByDevices)
<1> USE DEF Gpu!ScrfdSharedTexture, Gpu!Step
<1> USE DEF MadeByDevices, Tensorizing
<1>1. IsList(Gpu!ScrfdSharedTexture)
  BY TuplesAreLists
<1>2. Made(Gpu!ScrfdSharedTexture) = {"shared_nv12", "transform", "camera_importer"}
  BY DEF Made
<1>3. InOrder(Gpu!ScrfdSharedTexture, MadeByDevices)
  BY DEF InOrder
<1> QED
  BY <1>1, <1>2, <1>3

\* The other two models' shared texture and importer.
LEMMA TextureNext ==
  /\ IsList(Gpu!ArcFaceSharedTexture)
  /\ Made(Gpu!ArcFaceSharedTexture) = {"shared_nv12", "camera_importer"}
  /\ InOrder(Gpu!ArcFaceSharedTexture, MadeByDevices)
<1> USE DEF Gpu!ArcFaceSharedTexture, Gpu!Step
<1> USE DEF MadeByDevices, Tensorizing
<1>1. IsList(Gpu!ArcFaceSharedTexture)
  BY TuplesAreLists
<1>2. Made(Gpu!ArcFaceSharedTexture) = {"shared_nv12", "camera_importer"}
  BY DEF Made
<1>3. InOrder(Gpu!ArcFaceSharedTexture, MadeByDevices)
  BY DEF InOrder
<1> QED
  BY <1>1, <1>2, <1>3

\* The detector's shader, with parameters from the letterbox transform.
LEMMA ScrfdShaderNext ==
  /\ IsList(Gpu!ScrfdShader)
  /\ Made(Gpu!ScrfdShader) = Tensorizing
  /\ InOrder(Gpu!ScrfdShader, {"interop_device", "transform"})
<1> USE DEF Gpu!ScrfdShader, Gpu!Step
<1> USE DEF MadeByDevices, Tensorizing
<1>1. IsList(Gpu!ScrfdShader)
  BY TuplesAreLists
<1>2. Made(Gpu!ScrfdShader) = Tensorizing
  BY DEF Made
<1>3. InOrder(Gpu!ScrfdShader, {"interop_device", "transform"})
  BY DEF InOrder
<1> QED
  BY <1>1, <1>2, <1>3

\* The recogniser's shader.
LEMMA ArcFaceShaderNext ==
  /\ IsList(Gpu!ArcFaceShader)
  /\ Made(Gpu!ArcFaceShader) = Tensorizing
  /\ InOrder(Gpu!ArcFaceShader, {"interop_device"})
<1> USE DEF Gpu!ArcFaceShader, Gpu!Step
<1> USE DEF MadeByDevices, Tensorizing
<1>1. IsList(Gpu!ArcFaceShader)
  BY TuplesAreLists
<1>2. Made(Gpu!ArcFaceShader) = Tensorizing
  BY DEF Made
<1>3. InOrder(Gpu!ArcFaceShader, {"interop_device"})
  BY DEF InOrder
<1> QED
  BY <1>1, <1>2, <1>3

\* The liveness model's shaders, with the measure of what is outside.
LEMMA LivenessShadersNext ==
  /\ IsList(Gpu!LivenessShaders)
  /\ Made(Gpu!LivenessShaders) = Tensorizing \cup
       {"coverage_reduce_shader", "coverage_buffer", "coverage_readback"}
  /\ InOrder(Gpu!LivenessShaders, {"interop_device"})
<1> USE DEF Gpu!LivenessShaders, Gpu!Step
<1> USE DEF MadeByDevices, Tensorizing
<1>1. IsList(Gpu!LivenessShaders)
  BY TuplesAreLists
<1>2. Made(Gpu!LivenessShaders) = Tensorizing \cup
       {"coverage_reduce_shader", "coverage_buffer", "coverage_readback"}
  BY DEF Made
<1>3. InOrder(Gpu!LivenessShaders, {"interop_device"})
  BY DEF InOrder
<1> QED
  BY <1>1, <1>2, <1>3

\* The input tensor.
LEMMA TensorNext ==
  /\ IsList(Gpu!ScrfdTensor)
  /\ Made(Gpu!ScrfdTensor) = {"tensor"}
  /\ InOrder(Gpu!ScrfdTensor, {"d3d12_device", "interop_device"})
<1> USE DEF Gpu!ScrfdTensor, Gpu!Step
<1> USE DEF MadeByDevices, Tensorizing
<1>1. IsList(Gpu!ScrfdTensor)
  BY TuplesAreLists
<1>2. Made(Gpu!ScrfdTensor) = {"tensor"}
  BY DEF Made
<1>3. InOrder(Gpu!ScrfdTensor, {"d3d12_device", "interop_device"})
  BY DEF InOrder
<1> QED
  BY <1>1, <1>2, <1>3

\* The fence of the camera.
LEMMA FenceNext ==
  /\ IsList(Gpu!ScrfdFence)
  /\ Made(Gpu!ScrfdFence) = {"camera_fence"}
  /\ InOrder(Gpu!ScrfdFence, {"camera_device", "d3d12_device"})
<1> USE DEF Gpu!ScrfdFence, Gpu!Step
<1> USE DEF MadeByDevices, Tensorizing
<1>1. IsList(Gpu!ScrfdFence)
  BY TuplesAreLists
<1>2. Made(Gpu!ScrfdFence) = {"camera_fence"}
  BY DEF Made
<1>3. InOrder(Gpu!ScrfdFence, {"camera_device", "d3d12_device"})
  BY DEF InOrder
<1> QED
  BY <1>1, <1>2, <1>3

\* Both, as the recogniser and the liveness model append them.
LEMMA TensorAndFenceNext ==
  /\ IsList(Gpu!ScrfdTensor \o Gpu!ScrfdFence)
  /\ Made(Gpu!ScrfdTensor \o Gpu!ScrfdFence) = {"tensor", "camera_fence"}
  /\ InOrder(Gpu!ScrfdTensor \o Gpu!ScrfdFence,
             {"camera_device", "d3d12_device", "interop_device"})
<1> USE DEF Gpu!ScrfdTensor, Gpu!ScrfdFence, Gpu!Step
<1>1. \A x, y : <<x>> \o <<y>> \in Seq({x, y})
  OBVIOUS
<1>2. IsList(Gpu!ScrfdTensor \o Gpu!ScrfdFence)
  BY <1>1 DEF IsList
<1>3. Made(Gpu!ScrfdTensor \o Gpu!ScrfdFence) = {"tensor", "camera_fence"}
  BY DEF Made
<1>4. InOrder(Gpu!ScrfdTensor \o Gpu!ScrfdFence,
              {"camera_device", "d3d12_device", "interop_device"})
  BY DEF InOrder
<1> QED
  BY <1>2, <1>3, <1>4

\* The session and its binding, after the preprocessor.
LEMMA SessionLast ==
  /\ IsList(Gpu!SessionSteps)
  /\ Made(Gpu!SessionSteps) = {"preprocessor", "session", "binding"}
  /\ InOrder(Gpu!SessionSteps, {"camera_fence", "learning_device"})
<1> USE DEF Gpu!SessionSteps, Gpu!Step
<1> USE DEF MadeByDevices, Tensorizing
<1>1. IsList(Gpu!SessionSteps)
  BY TuplesAreLists
<1>2. Made(Gpu!SessionSteps) = {"preprocessor", "session", "binding"}
  BY DEF Made
<1>3. InOrder(Gpu!SessionSteps, {"camera_fence", "learning_device"})
  BY DEF InOrder
<1> QED
  BY <1>1, <1>2, <1>3

\* The whole construction of each runtime.
LEMMA ScrfdInTurn ==
  /\ IsList(Gpu!ScrfdConstructor) /\ InOrder(Gpu!ScrfdConstructor, {})
  /\ Made(Gpu!ScrfdConstructor) = MadeByDevices \cup Tensorizing \cup
       {"shared_nv12", "transform", "camera_importer", "tensor", "camera_fence"}
<1> USE DEF MadeByDevices, Tensorizing
<1> DEFINE s1 == Gpu!ScrfdDevices \o Gpu!ScrfdSharedTexture
<1>1. /\ IsList(s1) /\ InOrder(s1, {})
      /\ Made(s1) = MadeByDevices \cup
           {"shared_nv12", "transform", "camera_importer"}
  BY DevicesFirst, ScrfdTextureNext, StepsInTurn
<1> HIDE DEF s1
<1> DEFINE s2 == s1 \o Gpu!ScrfdShader
<1>2. /\ IsList(s2) /\ InOrder(s2, {})
      /\ Made(s2) = MadeByDevices \cup Tensorizing \cup
           {"shared_nv12", "transform", "camera_importer"}
  BY <1>1, ScrfdShaderNext, StepsInTurn
<1> HIDE DEF s2
<1> DEFINE s3 == s2 \o Gpu!ScrfdTensor
<1>3. /\ IsList(s3) /\ InOrder(s3, {})
      /\ Made(s3) = MadeByDevices \cup Tensorizing \cup
           {"shared_nv12", "transform", "camera_importer", "tensor"}
  BY <1>2, TensorNext, StepsInTurn
<1> HIDE DEF s3
<1> DEFINE s4 == s3 \o Gpu!ScrfdFence
<1>4. /\ IsList(s4) /\ InOrder(s4, {})
      /\ Made(s4) = MadeByDevices \cup Tensorizing \cup
           {"shared_nv12", "transform", "camera_importer", "tensor", "camera_fence"}
  BY <1>3, FenceNext, StepsInTurn
<1> HIDE DEF s4
<1> QED
  BY <1>4 DEF s1, s2, s3, s4, Gpu!ScrfdConstructor

\* The recogniser, likewise.
LEMMA ArcFaceInTurn ==
  /\ IsList(Gpu!ArcFaceConstructor) /\ InOrder(Gpu!ArcFaceConstructor, {})
  /\ Made(Gpu!ArcFaceConstructor) = MadeByDevices \cup Tensorizing \cup
       {"shared_nv12", "camera_importer", "tensor", "camera_fence"}
<1> USE DEF MadeByDevices, Tensorizing
<1> DEFINE s1 == Gpu!ScrfdDevices \o Gpu!ArcFaceSharedTexture
<1>1. /\ IsList(s1) /\ InOrder(s1, {})
      /\ Made(s1) = MadeByDevices \cup {"shared_nv12", "camera_importer"}
  BY DevicesFirst, TextureNext, StepsInTurn
<1> HIDE DEF s1
<1> DEFINE s2 == s1 \o Gpu!ArcFaceShader
<1>2. /\ IsList(s2) /\ InOrder(s2, {})
      /\ Made(s2) = MadeByDevices \cup Tensorizing \cup
           {"shared_nv12", "camera_importer"}
  BY <1>1, ArcFaceShaderNext, StepsInTurn
<1> HIDE DEF s2
<1> DEFINE s3 == s2 \o (Gpu!ScrfdTensor \o Gpu!ScrfdFence)
<1>3. /\ IsList(s3) /\ InOrder(s3, {})
      /\ Made(s3) = MadeByDevices \cup Tensorizing \cup
           {"shared_nv12", "camera_importer", "tensor", "camera_fence"}
  BY <1>2, TensorAndFenceNext, StepsInTurn
<1> HIDE DEF s3
<1> QED
  BY <1>3 DEF s1, s2, s3, Gpu!ArcFaceConstructor, Gpu!ArcFaceDevices, Gpu!ArcFaceTensorAndFence

\* The liveness model, likewise.
LEMMA LivenessInTurn ==
  /\ IsList(Gpu!LivenessConstructor) /\ InOrder(Gpu!LivenessConstructor, {})
  /\ Made(Gpu!LivenessConstructor) = MadeByDevices \cup Tensorizing \cup
       {"shared_nv12", "camera_importer", "tensor", "camera_fence", "coverage_reduce_shader", "coverage_buffer",
        "coverage_readback"}
<1> USE DEF MadeByDevices, Tensorizing
<1> DEFINE s1 == Gpu!ScrfdDevices \o Gpu!ArcFaceSharedTexture
<1>1. /\ IsList(s1) /\ InOrder(s1, {})
      /\ Made(s1) = MadeByDevices \cup {"shared_nv12", "camera_importer"}
  BY DevicesFirst, TextureNext, StepsInTurn
<1> HIDE DEF s1
<1> DEFINE s2 == s1 \o Gpu!LivenessShaders
<1>2. /\ IsList(s2) /\ InOrder(s2, {})
      /\ Made(s2) = MadeByDevices \cup Tensorizing \cup
           {"shared_nv12", "camera_importer", "coverage_reduce_shader", "coverage_buffer",
        "coverage_readback"}
  BY <1>1, LivenessShadersNext, StepsInTurn
<1> HIDE DEF s2
<1> DEFINE s3 == s2 \o (Gpu!ScrfdTensor \o Gpu!ScrfdFence)
<1>3. /\ IsList(s3) /\ InOrder(s3, {})
      /\ Made(s3) = MadeByDevices \cup Tensorizing \cup
           {"shared_nv12", "camera_importer", "tensor", "camera_fence", "coverage_reduce_shader", "coverage_buffer",
        "coverage_readback"}
  BY <1>2, TensorAndFenceNext, StepsInTurn
<1> HIDE DEF s3
<1> QED
  BY <1>3 DEF s1, s2, s3, Gpu!LivenessConstructor, Gpu!LivenessDevices, Gpu!LivenessSharedTexture,
                   Gpu!LivenessTensorAndFence

\* A constructor and the session after it: the binding is in the last step only.
LEMMA ConstructorInTurn ==
  ASSUME NEW c, IsList(c), InOrder(c, {}), "binding" \notin Made(c),
         {"camera_fence", "learning_device"} \subseteq Made(c)
  PROVE  /\ IsList(c \o Gpu!SessionSteps) /\ InOrder(c \o Gpu!SessionSteps, {})
         /\ Made(c \o Gpu!SessionSteps)
              = Made(c) \cup {"preprocessor", "session", "binding"}
         /\ "binding" \in (c \o Gpu!SessionSteps)[Len(c \o Gpu!SessionSteps)].makes
         /\ \A x \in 1..(Len(c \o Gpu!SessionSteps) - 1) :
              "binding" \notin (c \o Gpu!SessionSteps)[x].makes
<1> DEFINE e == Gpu!SessionSteps
           s == c \o e
<1>1. IsList(s) /\ InOrder(s, {})
      /\ Made(s) = Made(c) \cup {"preprocessor", "session", "binding"}
  BY SessionLast, StepsInTurn
<1>2. /\ Len(e) = 3 /\ e[3].makes = {"binding"}
      /\ e[1].makes = {"preprocessor"} /\ e[2].makes = {"session"}
  BY DEF Gpu!SessionSteps, Gpu!Step
<1> PICK Cs : c \in Seq(Cs)
  BY DEF IsList
<1> PICK Es : e \in Seq(Es)
  BY SessionLast DEF IsList
<1> HIDE DEF e
<1>3. /\ Len(c) \in Nat /\ Len(s) = Len(c) + 3
      /\ \A x \in 1..Len(c) : s[x] = c[x] /\ x \in DOMAIN c
      /\ s[Len(c) + 1] = e[1] /\ s[Len(c) + 2] = e[2] /\ s[Len(c) + 3] = e[3]
  <2>1. /\ Len(c) \in Nat /\ Len(s) = Len(c) + Len(e)
        /\ \A x \in 1..Len(c) : s[x] = c[x] /\ x \in DOMAIN c
        /\ \A x \in 1..Len(e) : s[Len(c) + x] = e[x]
    OBVIOUS
  <2> HIDE DEF s
  <2> QED
    BY <1>2, <2>1
<1> HIDE DEF s
<1>4. \A x \in 1..(Len(s) - 1) : "binding" \notin s[x].makes
  <2> SUFFICES ASSUME NEW x \in 1..(Len(s) - 1) PROVE "binding" \notin s[x].makes
    OBVIOUS
  <2>1. x \in 1..Len(c) \/ x = Len(c) + 1 \/ x = Len(c) + 2
    BY <1>3
  <2> QED
    BY <1>2, <1>3, <2>1 DEF Made
<1> QED
  BY <1>1, <1>2, <1>3, <1>4 DEF s, e

\* Each runtime: the binding is made last, when all that preparing, tensorizing
\* and evaluating use is there.
LEMMA RuntimesInTurn ==
  ASSUME NEW m \in Gpu!Models
  PROVE  /\ IsList(Gpu!RuntimeSteps(m)) /\ InOrder(Gpu!RuntimeSteps(m), {})
         /\ "preprocessor" \in Made(Gpu!RuntimeSteps(m))
         /\ Gpu!PrepareNeeds(m) \cup Gpu!TensorizeNeeds(m) \cup Gpu!EvaluateNeeds
              \subseteq Made(Gpu!RuntimeSteps(m))
         /\ "binding" \in Gpu!RuntimeSteps(m)[Len(Gpu!RuntimeSteps(m))].makes
         /\ \A x \in 1..(Len(Gpu!RuntimeSteps(m)) - 1) :
              "binding" \notin Gpu!RuntimeSteps(m)[x].makes
<1> DEFINE Constructed(c) ==
             /\ IsList(c) /\ InOrder(c, {}) /\ "binding" \notin Made(c)
             /\ {"camera_fence", "learning_device"} \subseteq Made(c)
             /\ Gpu!PrepareNeeds(m) \cup Gpu!TensorizeNeeds(m) \subseteq Made(c)
<1>1. ASSUME NEW c, Gpu!RuntimeSteps(m) = c \o Gpu!SessionSteps, Constructed(c)
      PROVE  /\ IsList(Gpu!RuntimeSteps(m)) /\ InOrder(Gpu!RuntimeSteps(m), {})
             /\ "preprocessor" \in Made(Gpu!RuntimeSteps(m))
             /\ Gpu!PrepareNeeds(m) \cup Gpu!TensorizeNeeds(m) \cup Gpu!EvaluateNeeds
                  \subseteq Made(Gpu!RuntimeSteps(m))
             /\ "binding" \in Gpu!RuntimeSteps(m)[Len(Gpu!RuntimeSteps(m))].makes
             /\ \A x \in 1..(Len(Gpu!RuntimeSteps(m)) - 1) :
                  "binding" \notin Gpu!RuntimeSteps(m)[x].makes
  <2> DEFINE s == c \o Gpu!SessionSteps
  <2>1. /\ IsList(s) /\ InOrder(s, {})
        /\ Made(s) = Made(c) \cup {"preprocessor", "session", "binding"}
        /\ "binding" \in s[Len(s)].makes
        /\ \A x \in 1..(Len(s) - 1) : "binding" \notin s[x].makes
    BY <1>1, ConstructorInTurn
  <2>2. Gpu!EvaluateNeeds = {"session", "binding"}
    BY DEF Gpu!EvaluateNeeds
  <2>3. Gpu!RuntimeSteps(m) = s
    BY <1>1
  <2> HIDE DEF s
  <2> QED
    BY <1>1, <2>1, <2>2, <2>3
<1>2. CASE m = "scrfd"
  <2>1. Gpu!RuntimeSteps(m) = Gpu!ScrfdConstructor \o Gpu!SessionSteps
    BY <1>2 DEF Gpu!RuntimeSteps
  <2>2. Constructed(Gpu!ScrfdConstructor)
    BY <1>2, ScrfdInTurn DEF Constructed, MadeByDevices, Tensorizing,
       Gpu!PrepareNeeds, Gpu!TensorizeNeeds
  <2> HIDE DEF Constructed
  <2> QED
    BY <1>1, <2>1, <2>2
<1>3. CASE m = "arcface"
  <2>1. Gpu!RuntimeSteps(m) = Gpu!ArcFaceConstructor \o Gpu!SessionSteps
    BY <1>3 DEF Gpu!RuntimeSteps
  <2>2. Constructed(Gpu!ArcFaceConstructor)
    BY <1>3, ArcFaceInTurn DEF Constructed, MadeByDevices, Tensorizing,
       Gpu!PrepareNeeds, Gpu!TensorizeNeeds
  <2> HIDE DEF Constructed
  <2> QED
    BY <1>1, <2>1, <2>2
<1>4. CASE m = "liveness"
  <2>1. Gpu!RuntimeSteps(m) = Gpu!LivenessConstructor \o Gpu!SessionSteps
    BY <1>4 DEF Gpu!RuntimeSteps
  <2>2. Constructed(Gpu!LivenessConstructor)
    BY <1>4, LivenessInTurn DEF Constructed, MadeByDevices, Tensorizing,
       Gpu!PrepareNeeds, Gpu!TensorizeNeeds
  <2> HIDE DEF Constructed
  <2> QED
    BY <1>1, <2>1, <2>2
<1> QED
  BY <1>2, <1>3, <1>4 DEF Gpu!Models

\* The step that is due is the first whose results are not all there: it
\* exists until the binding is made, uses what the steps before it made, and
\* makes the binding only when everything else is there.
LEMMA DueIsFirst ==
  ASSUME NEW m \in Gpu!Models, "binding" \notin made[m]
  PROVE  /\ Gpu!Due(m).needs \subseteq made[m]
         /\ "binding" \in Gpu!Due(m).makes =>
              \A x \in 1..Len(Gpu!RuntimeSteps(m)) :
                Gpu!RuntimeSteps(m)[x].makes \subseteq made[m] \cup Gpu!Due(m).makes
<1> DEFINE s == Gpu!RuntimeSteps(m)
           todo == {x \in 1..Len(s) : ~ s[x].makes \subseteq made[m]}
           first == CHOOSE x \in todo : \A y \in todo : x <= y
<1>1. /\ IsList(s) /\ InOrder(s, {}) /\ "binding" \in s[Len(s)].makes
      /\ \A x \in 1..(Len(s) - 1) : "binding" \notin s[x].makes
      /\ "preprocessor" \in Made(s)
  BY RuntimesInTurn
<1>2. Gpu!Due(m) = s[first]
  BY DEF Gpu!Due
<1> HIDE DEF s
<1> PICK Ss : s \in Seq(Ss)
  BY <1>1 DEF IsList
<1>3. Len(s) \in Nat /\ DOMAIN s = 1..Len(s) /\ Len(s) # 0
  BY <1>1 DEF Made
<1>4. Len(s) \in todo
  BY <1>1, <1>3
<1>5. first \in todo /\ \A y \in todo : first <= y
  <2>1. \E x \in todo : \A y \in todo : x <= y
    <3>1. todo # {} /\ todo \subseteq 1..Len(s)
      BY <1>4
    <3> HIDE DEF todo
    <3> QED
      BY <1>3, <3>1, FirstIsThere
  <2> HIDE DEF todo
  <2> QED
    BY <2>1
<1> HIDE DEF first
<1>6. first \in 1..Len(s) /\ \A x \in 1..(first - 1) : s[x].makes \subseteq made[m]
  BY <1>3, <1>5
<1>7. s[first].needs \subseteq made[m]
  <2>1. s[first].needs \subseteq UNION {s[x].makes : x \in 1..(first - 1)}
    BY <1>1, <1>3, <1>6 DEF InOrder
  <2> QED
    BY <1>6, <2>1
<1>8. ASSUME "binding" \in s[first].makes
      PROVE  \A x \in 1..Len(s) : s[x].makes \subseteq made[m] \cup s[first].makes
  <2>1. first \notin 1..(Len(s) - 1)
    BY <1>1, <1>8
  <2>2. first \in 1..Len(s) /\ Len(s) \in Nat
    BY <1>3, <1>6
  <2>3. first = Len(s)
    BY <2>1, <2>2
  <2> QED
    BY <1>3, <1>6, <2>3
<1> QED
  BY <1>2, <1>7, <1>8 DEF s

-----------------------------------------------------------------------------
(* The steps of the owner, and what an importer gives it.                  *)

\* A step of the owner for one runtime.
OwnerStep(m) ==
    \/ Gpu!EnsureRuntime(m) \/ Gpu!Construct(m) \/ Gpu!Mismatch(m)
    \/ Gpu!PrepareFrame(m) \/ Gpu!Tensorize(m) \/ Gpu!Submit(m)
    \/ Gpu!Coverage(m) \/ Gpu!Evaluate(m) \/ Gpu!Output(m)

\* The owner works for the runtime at work.
LEMMA OwnerWorks ==
  ASSUME Gpu!Owner
  PROVE  OwnerStep(model)
<1>1. PICK m \in {"scrfd", "arcface", "liveness"} : OwnerStep(m)
  BY DEF Gpu!Owner, Gpu!ScrfdPreprocess, Gpu!ArcFacePreprocess,
         Gpu!LivenessPreprocess, Gpu!ScrfdRuntime, Gpu!ArcFaceRuntime,
         Gpu!LivenessRuntime, OwnerStep
<1>2. m = model
  BY <1>1 DEF OwnerStep, Gpu!EnsureRuntime, Gpu!Construct, Gpu!Mismatch,
     Gpu!PrepareFrame, Gpu!Tensorize, Gpu!Submit, Gpu!Coverage, Gpu!Evaluate,
     Gpu!Output
<1> QED
  BY <1>1, <1>2

\* An importer gives a view of the frame's texture or none, whatever its outcome.
Acquired(m) == Gpu!Off(m) \/ Gpu!Hit(m) \/ Gpu!Miss(m) \/ Gpu!ImportFails(m)

\* A hit finds the texture under its tag.
LEMMA HitIsTagged ==
  ASSUME Gpu!TypeOK, Gpu!TagsUnique, gpu_frame.texture.addr \in Textures,
         NEW m \in Gpu!Models, Gpu!Hit(m)
  PROVE  /\ tag[gpu_frame.texture.addr] # 0
         /\ UNCHANGED <<nextTag, enabled>>
         /\ tag' = [tag EXCEPT ![gpu_frame.texture.addr] = @]
         /\ \E x \in 1..Len(lru[m]) :
              /\ lru[m][x].id = tag[gpu_frame.texture.addr]
              /\ lru' = [lru EXCEPT ![m] = Gpu!Spliced(@, x)]
              /\ views' = [views EXCEPT ![m] = lru[m][x].texture]
<1> DEFINE a == gpu_frame.texture.addr
<1>1. tag[a] \in Nat /\ nextTag \in Nat
  BY DEF Gpu!TypeOK
<1>2. PICK x \in Gpu!Cached(m, Gpu!TagOf(a)) :
        /\ lru' = [lru EXCEPT ![m] = Gpu!Spliced(@, x)]
        /\ views' = [views EXCEPT ![m] = lru[m][x].texture]
  BY DEF Gpu!Hit
<1>3. x \in 1..Len(lru[m]) /\ lru[m][x].id = Gpu!TagOf(a)
  BY <1>2 DEF Gpu!Cached
<1>4. lru[m][x].id \in 1..nextTag
  BY <1>3 DEF Gpu!TagsUnique
<1>5. tag[a] # 0
  BY <1>1, <1>3, <1>4 DEF Gpu!TagOf
<1> QED
  BY <1>2, <1>3, <1>5 DEF Gpu!Hit, Gpu!Tagged, Gpu!TagOf

\* The view taken is of the frame's texture, or there is none.
LEMMA ViewsTaken ==
  ASSUME Gpu!TypeOK, Gpu!StreamTypes, Gpu!TagsUnique, Gpu!CacheSound,
         Gpu!Shows(gpu_frame), NEW m \in Gpu!Models, Acquired(m)
  PROVE  /\ views' = [views EXCEPT ![m] = views'[m]]
         /\ views'[m] \in {Gpu!NoTexture, gpu_frame.texture}
<1>1. CASE Gpu!Off(m) \/ Gpu!ImportFails(m) \/ Gpu!Miss(m)
  BY <1>1 DEF Gpu!Off, Gpu!ImportFails, Gpu!Miss, Gpu!StreamTypes
<1>2. CASE Gpu!Hit(m)
  <2> DEFINE a == gpu_frame.texture.addr
  <2>1. a \in Textures /\ gpu_frame.texture = [addr |-> a, inc |-> incarn[a]]
    BY DEF Gpu!Shows, Gpu!StreamTypes, Gpu!Frames, Gpu!TextureRefs
  <2>2. PICK x \in 1..Len(lru[m]) :
          /\ tag[a] # 0 /\ lru[m][x].id = tag[a]
          /\ views' = [views EXCEPT ![m] = lru[m][x].texture]
    BY <1>2, <2>1, HitIsTagged
  <2>3. lru[m][x].texture = [addr |-> a, inc |-> incarn[a]]
    BY <2>1, <2>2 DEF Gpu!CacheSound
  <2> QED
    BY <2>1, <2>2, <2>3 DEF Gpu!StreamTypes
<1> QED
  BY <1>1, <1>2 DEF Acquired
-----------------------------------------------------------------------------
(* The types.                                                              *)

\* A preparation keeps the importer's numbers numbers.
LEMMA ImportTypes ==
  ASSUME Gpu!TypeOK, Gpu!StreamTypes, Gpu!TagsUnique, Gpu!Shows(gpu_frame),
         NEW m \in Gpu!Models, Acquired(m)
  PROVE  /\ tag' \in [Textures -> Nat] /\ nextTag' \in Nat
         /\ enabled' \in [Gpu!Models -> BOOLEAN]
         /\ lru' \in [Gpu!Models -> Seq(Gpu!Entries)]
         /\ \A n \in Gpu!Models : Len(lru'[n]) <= MaxEntries
<1> DEFINE a == gpu_frame.texture.addr
<1>1. /\ tag \in [Textures -> Nat] /\ nextTag \in Nat
      /\ enabled \in [Gpu!Models -> BOOLEAN]
      /\ lru \in [Gpu!Models -> Seq(Gpu!Entries)]
      /\ \A n \in Gpu!Models : Len(lru[n]) <= MaxEntries
  BY DEF Gpu!TypeOK, Gpu!StreamTypes
<1>2. MaxEntries \in Nat \ {0}
  BY GpuAssumption DEF Gpu!GpuAssumption
<1>3. gpu_frame.texture \in Gpu!TextureRefs /\ a \in Textures
  BY DEF Gpu!Shows, Gpu!StreamTypes, Gpu!Frames
<1>4. Gpu!TagOf(a) \in Nat
  BY <1>1, <1>3 DEF Gpu!TagOf
<1>5. CASE Gpu!Off(m)
  BY <1>1, <1>5 DEF Gpu!Off, Gpu!importVars
<1>6. CASE Gpu!Hit(m)
  <2>1. PICK x \in 1..Len(lru[m]) : lru' = [lru EXCEPT ![m] = Gpu!Spliced(@, x)]
    BY <1>3, <1>6, HitIsTagged
  <2>2. Gpu!Spliced(lru[m], x) \in Seq(Gpu!Entries)
        /\ Len(Gpu!Spliced(lru[m], x)) = Len(lru[m])
    <3>1. lru[m] \in Seq(Gpu!Entries) /\ Len(lru[m]) \in Nat
      BY <1>1
    <3>2. Gpu!Spliced(lru[m], x) \in [1..Len(lru[m]) -> Gpu!Entries]
      BY <2>1, <3>1 DEF Gpu!Spliced
    <3> QED
      BY <3>1, <3>2
  <2>3. tag' = tag /\ UNCHANGED <<nextTag, enabled>>
    BY <1>1, <1>3, <1>6, HitIsTagged
  <2> QED
    BY <1>1, <2>1, <2>2, <2>3
<1>7. CASE Gpu!Miss(m)
  <2> DEFINE new == [id |-> Gpu!TagOf(a), texture |-> gpu_frame.texture]
             all == <<new>> \o lru[m]
  <2>1. new \in Gpu!Entries
    BY <1>3, <1>4 DEF Gpu!Entries
  <2>2. all \in Seq(Gpu!Entries) /\ Len(all) \in Nat
    BY <1>1, <2>1
  <2>3. Gpu!Evicted(all) \in Seq(Gpu!Entries) /\ Len(Gpu!Evicted(all)) <= MaxEntries
    <3> HIDE DEF all
    <3> QED
      BY <1>2, <2>2 DEF Gpu!Evicted
  <2>4. lru' = [lru EXCEPT ![m] = Gpu!Evicted(all)]
    BY <1>1, <1>7 DEF Gpu!Miss
  <2>5. tag' \in [Textures -> Nat] /\ nextTag' \in Nat /\ enabled' = enabled
    BY <1>1, <1>3, <1>4, <1>7 DEF Gpu!Miss, Gpu!Tagged
  <2> HIDE DEF all
  <2> QED
    BY <1>1, <2>3, <2>4, <2>5
<1>8. CASE Gpu!ImportFails(m)
  <2>1. lru' = [lru EXCEPT ![m] = <<>>]
    BY <1>8 DEF Gpu!ImportFails
  <2>2. tag' \in [Textures -> Nat] /\ nextTag' \in Nat
    BY <1>1, <1>3, <1>4, <1>8 DEF Gpu!ImportFails, Gpu!Tagged
  <2> QED
    BY <1>1, <1>2, <1>8, <2>1, <2>2 DEF Gpu!ImportFails
<1> QED
  BY <1>5, <1>6, <1>7, <1>8 DEF Acquired

\* The variables of the camera and the importers.
LEMMA CameraTypesStep ==
  ASSUME Gpu!GpuInvariant, Gpu!Next
  PROVE  /\ device' \in Cameras /\ content' \in [Textures -> 0..MaxFrames]
         /\ incarn' \in [Textures -> Nat] /\ tag' \in [Textures -> Nat]
         /\ nextTag' \in Nat /\ enabled' \in [Gpu!Models -> BOOLEAN]
         /\ lru' \in [Gpu!Models -> Seq(Gpu!Entries)]
         /\ \A m \in Gpu!Models : Len(lru'[m]) <= MaxEntries
         /\ latest' \in Gpu!Frames
<1> USE DEF Gpu!cameraVars, Gpu!importVars
<1>1. /\ device \in Cameras /\ content \in [Textures -> 0..MaxFrames]
      /\ incarn \in [Textures -> Nat] /\ tag \in [Textures -> Nat]
      /\ nextTag \in Nat /\ enabled \in [Gpu!Models -> BOOLEAN]
      /\ lru \in [Gpu!Models -> Seq(Gpu!Entries)]
      /\ \A m \in Gpu!Models : Len(lru[m]) <= MaxEntries
      /\ latest \in Gpu!Frames
  BY DEF Gpu!GpuInvariant, Gpu!TypeOK, Gpu!StreamTypes
<1>2. MaxFrames \in Nat
  BY GpuAssumption DEF Gpu!GpuAssumption
<1>3. ASSUME NEW a \in Textures, NEW new \in 0..1, Gpu!Deliver(a, new)
      PROVE  /\ content' \in [Textures -> 0..MaxFrames]
             /\ incarn' \in [Textures -> Nat] /\ tag' \in [Textures -> Nat]
             /\ latest' \in Gpu!Frames
             /\ UNCHANGED <<device, nextTag, enabled, lru>>
  <2>1. latest.id + 1 \in 0..MaxFrames
    BY <1>1, <1>2, <1>3 DEF Gpu!Deliver, Gpu!Frames
  <2>2. latest' \in Gpu!Frames
    BY <1>1, <1>3, <2>1 DEF Gpu!Deliver, Gpu!Frames, Gpu!TextureRefs
  <2> QED
    BY <1>1, <1>3, <2>1, <2>2 DEF Gpu!Deliver
<1>4. ASSUME NEW d \in Cameras, Gpu!Restart(d)
      PROVE  /\ device' \in Cameras
             /\ incarn' \in [Textures -> Nat] /\ tag' \in [Textures -> Nat]
             /\ latest' \in Gpu!Frames
             /\ UNCHANGED <<content, nextTag, enabled, lru>>
  <2>1. latest' \in Gpu!Frames
    BY <1>1, <1>4 DEF Gpu!Restart, Gpu!Frames, Gpu!TextureRefs, Gpu!NoTexture
  <2> QED
    BY <1>1, <1>4, <2>1 DEF Gpu!Restart
<1>5. CASE Gpu!TakeFrame \/ Gpu!Throw \/ Gpu!CameraExecutes \/ Gpu!Terminated
           \/ \E m \in Gpu!Models : Gpu!QueueExecutes(m)
  BY <1>1, <1>5 DEF Gpu!TakeFrame, Gpu!Throw, Gpu!Unwound, Gpu!CameraExecutes,
     Gpu!QueueExecutes, Gpu!Terminated, Gpu!vars
<1>6. CASE OwnerStep(model)
  <2>1. model \in Gpu!Models
    BY DEF Gpu!GpuInvariant, Gpu!TypeOK
  <2>2. CASE Gpu!PrepareFrame(model)
    <3>1. UNCHANGED <<device, content, incarn, latest>>
      BY <2>2 DEF Gpu!PrepareFrame
    <3>2. Acquired(model) /\ Gpu!Shows(gpu_frame)
      BY <2>2 DEF Gpu!PrepareFrame, Acquired, Gpu!GpuInvariant, Gpu!TexturesHeld
    <3> QED
      BY <1>1, <2>1, <3>1, <3>2, ImportTypes DEF Gpu!GpuInvariant
  <2>3. CASE ~ Gpu!PrepareFrame(model)
    BY <1>1, <1>6, <2>3 DEF OwnerStep, Gpu!EnsureRuntime, Gpu!Construct, Gpu!Mismatch,
       Gpu!Unwound, Gpu!Tensorize, Gpu!Submit, Gpu!Coverage, Gpu!Evaluate, Gpu!Output
  <2> QED
    BY <2>2, <2>3
<1> QED
  BY <1>1, <1>3, <1>4, <1>5, <1>6, OwnerWorks DEF Gpu!Next

\* The owner's position, and what it has made.
LEMMA OwnerTypesStep ==
  ASSUME Gpu!GpuInvariant, Gpu!Next
  PROVE  /\ gpu_pc' \in {"idle", "enter", "construct", "prepare", "tensorize",
                         "submit", "coverage", "evaluate", "readback", "dead"}
         /\ model' \in Gpu!Models /\ obs' \in Nat /\ batch' \in Nat
         /\ bound' \in [Gpu!Models -> BOOLEAN]
         /\ gpu_frame' \in Gpu!Frames /\ views' \in [Gpu!Models -> Gpu!TextureRefs]
<1> USE DEF Gpu!ownerVars, Gpu!stepVars
<1>1. /\ gpu_pc \in {"idle", "enter", "construct", "prepare", "tensorize",
                     "submit", "coverage", "evaluate", "readback", "dead"}
      /\ model \in Gpu!Models /\ obs \in Nat /\ batch \in Nat
      /\ bound \in [Gpu!Models -> BOOLEAN]
      /\ gpu_frame \in Gpu!Frames /\ views \in [Gpu!Models -> Gpu!TextureRefs]
      /\ latest \in Gpu!Frames
  BY DEF Gpu!GpuInvariant, Gpu!TypeOK, Gpu!StreamTypes
<1>2. ASSUME Gpu!NextFace
      PROVE  /\ gpu_pc' \in {"idle", "enter", "tensorize"}
             /\ model' \in Gpu!Models /\ obs' \in Nat /\ batch' \in Nat
  <2>1. MaxObs \in Nat
    BY GpuAssumption DEF Gpu!GpuAssumption
  <2> QED
    BY <1>1, <1>2, <2>1 DEF Gpu!NextFace, Gpu!Models
<1>3. CASE (\E a \in Textures, new \in 0..1 : Gpu!Deliver(a, new))
           \/ (\E d \in Cameras : Gpu!Restart(d)) \/ Gpu!CameraExecutes
           \/ (\E m \in Gpu!Models : Gpu!QueueExecutes(m)) \/ Gpu!Terminated
  <2>1. UNCHANGED <<Gpu!ownerVars, Gpu!stepVars>>
    BY <1>3 DEF Gpu!Deliver, Gpu!Restart, Gpu!CameraExecutes,
                Gpu!QueueExecutes, Gpu!Terminated, Gpu!vars
  <2> QED
    BY <1>1, <2>1
<1>4. CASE Gpu!TakeFrame
  BY <1>1, <1>4 DEF Gpu!TakeFrame, Gpu!Models
<1>5. CASE Gpu!Throw
  BY <1>1, <1>5 DEF Gpu!Throw, Gpu!Unwound
<1>6. CASE Gpu!PrepareFrame(model)
  <2>1. Acquired(model) /\ Gpu!Shows(gpu_frame)
    BY <1>6 DEF Gpu!PrepareFrame, Acquired, Gpu!GpuInvariant, Gpu!TexturesHeld
  <2>2. /\ views' = [views EXCEPT ![model] = views'[model]]
        /\ views'[model] \in {Gpu!NoTexture, gpu_frame.texture}
    BY <1>1, <2>1, ViewsTaken DEF Gpu!GpuInvariant
  <2>3. views'[model] \in Gpu!TextureRefs
    BY <1>1, <2>2 DEF Gpu!NoTexture, Gpu!TextureRefs, Gpu!Frames
  <2>4. views' \in [Gpu!Models -> Gpu!TextureRefs]
    BY <1>1, <2>2, <2>3
  <2> QED
    BY <1>1, <1>6, <2>4 DEF Gpu!PrepareFrame
<1>7. CASE Gpu!Coverage(model) \/ Gpu!Output(model)
  BY <1>1, <1>2, <1>7 DEF Gpu!Coverage, Gpu!Output
<1>8. CASE Gpu!EnsureRuntime(model) \/ Gpu!Construct(model) \/ Gpu!Mismatch(model)
           \/ Gpu!Tensorize(model) \/ Gpu!Submit(model) \/ Gpu!Evaluate(model)
  BY <1>1, <1>8 DEF Gpu!EnsureRuntime, Gpu!Construct, Gpu!Mismatch, Gpu!Unwound,
     Gpu!Tensorize, Gpu!Submit, Gpu!Evaluate
<1> QED
  BY <1>3, <1>4, <1>5, <1>6, <1>7, <1>8, OwnerWorks DEF Gpu!Next, OwnerStep

\* The fences, the commands, and the domains of the rest.
LEMMA CommandsTyped ==
  ASSUME NEW op \in {"copy", "signal", "wait", "tensorize", "coverage", "evaluate"},
         NEW m \in Gpu!Models, NEW value \in Nat, NEW t \in Gpu!TextureRefs,
         gpu_frame \in Gpu!Frames, obs \in Nat
  PROVE  /\ Gpu!Command(op, m, value) \in Gpu!Commands
         /\ [Gpu!Command(op, m, value) EXCEPT !.texture = t] \in Gpu!Commands
<1>1. gpu_frame.texture \in Gpu!TextureRefs
  BY DEF Gpu!Frames
<1> HIDE DEF Gpu!TextureRefs
<1>2. \A x \in Gpu!TextureRefs : [op |-> op, model |-> m, value |-> value,
                                  texture |-> x, face |-> obs] \in Gpu!Commands
  BY DEF Gpu!Commands
<1> QED
  BY <1>1, <1>2 DEF Gpu!Command

\* The streams hold commands, the fences count.
LEMMA StreamTypesStep ==
  ASSUME Gpu!GpuInvariant, Gpu!Next
  PROVE  /\ camQ' \in Seq(Gpu!Commands)
         /\ queue' \in [Gpu!Models -> Seq(Gpu!Commands)]
         /\ recorded' \in [Gpu!Models -> Seq(Gpu!Commands)]
         /\ fenceNext' \in [Gpu!Models -> Nat]
<1> USE DEF Gpu!streamVars, Gpu!stepVars
<1>1. /\ camQ \in Seq(Gpu!Commands)
      /\ queue \in [Gpu!Models -> Seq(Gpu!Commands)]
      /\ recorded \in [Gpu!Models -> Seq(Gpu!Commands)]
      /\ fenceNext \in [Gpu!Models -> Nat] /\ model \in Gpu!Models
  BY DEF Gpu!GpuInvariant, Gpu!TypeOK, Gpu!StreamTypes
<1>2. ASSUME NEW op \in {"copy", "signal", "wait", "tensorize", "coverage", "evaluate"},
             NEW value \in Nat, NEW t \in Gpu!TextureRefs
      PROVE  /\ Gpu!Command(op, model, value) \in Gpu!Commands
             /\ [Gpu!Command(op, model, value) EXCEPT !.texture = t] \in Gpu!Commands
  BY <1>1, CommandsTyped DEF Gpu!GpuInvariant, Gpu!TypeOK, Gpu!StreamTypes
<1>3. views[model] \in Gpu!TextureRefs
  BY <1>1 DEF Gpu!GpuInvariant, Gpu!StreamTypes
<1> HIDE DEF Gpu!Commands, Gpu!Command, Gpu!TextureRefs
<1>4. CASE (\E a \in Textures, new \in 0..1 : Gpu!Deliver(a, new))
           \/ (\E d \in Cameras : Gpu!Restart(d)) \/ Gpu!TakeFrame \/ Gpu!Throw
           \/ Gpu!Terminated
  BY <1>1, <1>4 DEF Gpu!Deliver, Gpu!Restart, Gpu!TakeFrame, Gpu!Throw, Gpu!Unwound,
     Gpu!Terminated, Gpu!vars
<1>5. CASE Gpu!CameraExecutes
  BY <1>1, <1>5 DEF Gpu!CameraExecutes
<1>6. ASSUME NEW m \in Gpu!Models, Gpu!QueueExecutes(m)
      PROVE  /\ UNCHANGED <<camQ, recorded, fenceNext>>
             /\ queue' \in [Gpu!Models -> Seq(Gpu!Commands)]
  BY <1>1, <1>6 DEF Gpu!QueueExecutes
<1>7. CASE Gpu!PrepareFrame(model)
  <2> DEFINE value == fenceNext[model] + 1
             copy == Gpu!Command("copy", model, value)
             signal == Gpu!Command("signal", model, value)
             wait == Gpu!Command("wait", model, value)
  <2>1. value \in Nat /\ fenceNext'[model] = value
        /\ fenceNext' \in [Gpu!Models -> Nat]
    BY <1>1, <1>7 DEF Gpu!PrepareFrame
  <2>2. copy \in Gpu!Commands /\ signal \in Gpu!Commands /\ wait \in Gpu!Commands
    BY <1>2, <1>3, <2>1
  <2>3. /\ camQ' = camQ \o (IF views'[model] = Gpu!NoTexture THEN <<copy>> ELSE <<>>)
                        \o <<signal>>
        /\ queue' = [queue EXCEPT ![model] = Append(@, wait)]
        /\ recorded' = recorded
    BY <1>7, <2>1 DEF Gpu!PrepareFrame
  <2> HIDE DEF copy, signal, wait
  <2> QED
    BY <1>1, <2>1, <2>2, <2>3
<1>8. CASE Gpu!Tensorize(model)
  <2> DEFINE read == [Gpu!Command("tensorize", model, fenceNext[model])
                        EXCEPT !.texture = views[model]]
             cover == Gpu!Command("coverage", model, fenceNext[model])
  <2>1. read \in Gpu!Commands /\ cover \in Gpu!Commands
    BY <1>1, <1>2, <1>3
  <2>2. /\ recorded' = [recorded EXCEPT ![model] = <<read>> \o
                          (IF model = "liveness" THEN <<cover>> ELSE <<>>)]
        /\ UNCHANGED <<camQ, queue, fenceNext>>
    BY <1>8 DEF Gpu!Tensorize
  <2> HIDE DEF read, cover
  <2> QED
    BY <1>1, <2>1, <2>2
<1>9. CASE Gpu!Evaluate(model)
  <2> DEFINE evaluate == Gpu!Command("evaluate", model, fenceNext[model])
  <2>1. evaluate \in Gpu!Commands
    BY <1>1, <1>2, <1>3
  <2>2. /\ queue' = [queue EXCEPT ![model] = Append(@, evaluate)]
        /\ UNCHANGED <<camQ, recorded, fenceNext>>
    BY <1>9 DEF Gpu!Evaluate
  <2> HIDE DEF evaluate
  <2> QED
    BY <1>1, <2>1, <2>2
<1>10. CASE Gpu!Submit(model)
  BY <1>1, <1>10 DEF Gpu!Submit
<1>11. CASE Gpu!EnsureRuntime(model) \/ Gpu!Construct(model) \/ Gpu!Mismatch(model)
            \/ Gpu!Coverage(model) \/ Gpu!Output(model)
  BY <1>1, <1>11 DEF Gpu!EnsureRuntime, Gpu!Construct, Gpu!Mismatch, Gpu!Unwound,
     Gpu!Coverage, Gpu!Output
<1> QED
  BY <1>1, <1>4, <1>5, <1>6, <1>7, <1>8, <1>9, <1>10, <1>11, OwnerWorks
     DEF Gpu!Next, OwnerStep

\* The resources, textures, tensors and outputs are those of the three models.
LEMMA DomainsStep ==
  ASSUME Gpu!GpuInvariant, Gpu!Next
  PROVE  /\ DOMAIN made' = Gpu!Models /\ DOMAIN wrapped' = Gpu!Models
         /\ DOMAIN nv12' = Gpu!Models /\ DOMAIN tensor' = Gpu!Models
         /\ DOMAIN output' = Gpu!Models
         /\ \A m \in Gpu!Models : wrapped'[m] \subseteq {"camera", "tensor"}
<1> USE DEF Gpu!resourceVars, Gpu!gpuVars, Gpu!stepVars
<1>1. /\ DOMAIN made = Gpu!Models /\ DOMAIN wrapped = Gpu!Models
      /\ DOMAIN nv12 = Gpu!Models /\ DOMAIN tensor = Gpu!Models
      /\ DOMAIN output = Gpu!Models /\ model \in Gpu!Models
      /\ \A m \in Gpu!Models : wrapped[m] \subseteq {"camera", "tensor"}
  BY DEF Gpu!GpuInvariant, Gpu!TypeOK, Gpu!StreamTypes
<1>2. CASE (\E a \in Textures, new \in 0..1 : Gpu!Deliver(a, new))
           \/ (\E d \in Cameras : Gpu!Restart(d)) \/ Gpu!TakeFrame
           \/ Gpu!Terminated
  BY <1>1, <1>2 DEF Gpu!Deliver, Gpu!Restart, Gpu!TakeFrame, Gpu!Terminated, Gpu!vars
<1>3. CASE Gpu!CameraExecutes
  BY <1>1, <1>3 DEF Gpu!CameraExecutes
<1>4. ASSUME NEW m \in Gpu!Models, Gpu!QueueExecutes(m)
      PROVE  /\ UNCHANGED <<made, wrapped, nv12>>
             /\ DOMAIN tensor' = Gpu!Models /\ DOMAIN output' = Gpu!Models
  BY <1>1, <1>4 DEF Gpu!QueueExecutes
<1>5. CASE Gpu!Throw \/ Gpu!Mismatch(model) \/ Gpu!Construct(model)
  BY <1>1, <1>5 DEF Gpu!Throw, Gpu!Mismatch, Gpu!Unwound, Gpu!Construct
<1>6. CASE Gpu!Tensorize(model) \/ Gpu!Submit(model)
  <2>1. UNCHANGED <<made, nv12, tensor, output>>
    BY <1>6 DEF Gpu!Tensorize, Gpu!Submit
  <2>2. \E S \in SUBSET {"camera", "tensor"} : wrapped' = [wrapped EXCEPT ![model] = S]
    BY <1>6 DEF Gpu!Tensorize, Gpu!Submit
  <2> QED
    BY <1>1, <2>1, <2>2
<1>7. CASE Gpu!EnsureRuntime(model) \/ Gpu!PrepareFrame(model)
           \/ Gpu!Coverage(model) \/ Gpu!Evaluate(model) \/ Gpu!Output(model)
  BY <1>1, <1>7 DEF Gpu!EnsureRuntime, Gpu!PrepareFrame, Gpu!Coverage,
     Gpu!Evaluate, Gpu!Output
<1> QED
  BY <1>1, <1>2, <1>3, <1>4, <1>5, <1>6, <1>7, OwnerWorks DEF Gpu!Next, OwnerStep

\* A fence completes what the camera context was asked to signal, no more.
LEMMA FencesStep ==
  ASSUME Gpu!GpuInvariant, Gpu!Next
  PROVE  fence' \in [Gpu!Models -> Nat] /\ Gpu!FencesBehind'
<1> USE DEF Gpu!gpuVars, Gpu!stepVars, Gpu!streamVars, Gpu!FencesBehind
<1>1. /\ fence \in [Gpu!Models -> Nat] /\ fenceNext \in [Gpu!Models -> Nat]
      /\ camQ \in Seq(Gpu!Commands) /\ model \in Gpu!Models /\ Gpu!FencesBehind
      /\ \A x \in 1..Len(camQ) : camQ[x].model \in Gpu!Models /\ camQ[x].value \in Nat
  <2>1. camQ \in Seq(Gpu!Commands)
    BY DEF Gpu!GpuInvariant, Gpu!StreamTypes
  <2>2. \A x \in 1..Len(camQ) : camQ[x] \in Gpu!Commands
    BY <2>1
  <2>3. \A c \in Gpu!Commands : c.model \in Gpu!Models /\ c.value \in Nat
    BY DEF Gpu!Commands
  <2> QED
    BY <2>1, <2>2, <2>3 DEF Gpu!GpuInvariant, Gpu!TypeOK
<1>2. CASE (\E a \in Textures, new \in 0..1 : Gpu!Deliver(a, new))
           \/ (\E d \in Cameras : Gpu!Restart(d)) \/ Gpu!TakeFrame
           \/ Gpu!Terminated \/ Gpu!Throw
           \/ \E m \in Gpu!Models : Gpu!QueueExecutes(m)
  <2>1. UNCHANGED <<fence, fenceNext, camQ>>
    BY <1>2 DEF Gpu!Deliver, Gpu!Restart, Gpu!TakeFrame, Gpu!Terminated, Gpu!vars,
                Gpu!Throw, Gpu!Unwound, Gpu!QueueExecutes
  <2> QED
    BY <1>1, <2>1
<1>3. CASE Gpu!CameraExecutes
  <2>1. /\ camQ # <<>> /\ camQ' = Tail(camQ) /\ fenceNext' = fenceNext
        /\ \/ fence' = fence
           \/ fence' = [fence EXCEPT ![camQ[1].model] = camQ[1].value]
    BY <1>1, <1>3 DEF Gpu!CameraExecutes
  <2>2. Len(camQ) \in Nat /\ 1 \in 1..Len(camQ)
    BY <1>1, <2>1
  <2>3. \A x \in 1..Len(camQ') : x + 1 \in 1..Len(camQ) /\ camQ'[x] = camQ[x + 1]
    BY <1>1, <2>1
  <2>4. \A x \in 1..Len(camQ') : camQ'[x].value <= fenceNext'[camQ'[x].model]
    BY <1>1, <2>1, <2>3
  <2>5. fence' \in [Gpu!Models -> Nat]
    BY <1>1, <2>1, <2>2
  <2>6. \A m \in Gpu!Models : fence'[m] <= fenceNext'[m]
    BY <1>1, <2>1, <2>2
  <2> QED
    BY <2>4, <2>5, <2>6
<1>4. CASE Gpu!PrepareFrame(model)
  <2> DEFINE value == fenceNext[model] + 1
  <2>1. /\ value \in Nat /\ fence' = fence
        /\ fenceNext' = [fenceNext EXCEPT ![model] = value]
        /\ fenceNext'[model] = value
    BY <1>1, <1>4 DEF Gpu!PrepareFrame
  <2>2. camQ' = camQ \o (IF views'[model] = Gpu!NoTexture
                           THEN <<Gpu!Command("copy", model, value)>> ELSE <<>>)
                     \o <<Gpu!Command("signal", model, value)>>
    BY <1>4, <2>1 DEF Gpu!PrepareFrame
  <2>3. \A op : /\ Gpu!Command(op, model, value).model = model
                /\ Gpu!Command(op, model, value).value = value
    BY DEF Gpu!Command
  <2> HIDE DEF value
  <2>4. \A x \in 1..Len(camQ') : \/ x \in 1..Len(camQ) /\ camQ'[x] = camQ[x]
                                 \/ camQ'[x].model = model /\ camQ'[x].value = value
    BY <1>1, <2>2, <2>3
  <2>5. \A m \in Gpu!Models : fenceNext[m] <= fenceNext'[m]
    BY <1>1, <2>1 DEF value
  <2>6. \A x \in 1..Len(camQ') : camQ'[x].value <= fenceNext'[camQ'[x].model]
    <3> SUFFICES ASSUME NEW x \in 1..Len(camQ')
                 PROVE  camQ'[x].value <= fenceNext'[camQ'[x].model]
      OBVIOUS
    <3>1. CASE x \in 1..Len(camQ) /\ camQ'[x] = camQ[x]
      <4>1. /\ camQ[x].model \in Gpu!Models /\ camQ[x].value \in Nat
            /\ camQ[x].value <= fenceNext[camQ[x].model]
        BY <1>1, <3>1
      <4>2. fenceNext[camQ[x].model] <= fenceNext'[camQ[x].model]
            /\ fenceNext[camQ[x].model] \in Nat /\ fenceNext'[camQ[x].model] \in Nat
        BY <1>1, <2>1, <2>5, <4>1
      <4> QED
        BY <3>1, <4>1, <4>2
    <3>2. CASE camQ'[x].model = model /\ camQ'[x].value = value
      BY <2>1, <3>2
    <3> QED
      BY <2>4, <3>1, <3>2
  <2>7. \A m \in Gpu!Models : fence'[m] <= fenceNext'[m]
    BY <1>1, <2>1, <2>5
  <2> QED
    BY <1>1, <2>1, <2>6, <2>7
<1>5. CASE Gpu!EnsureRuntime(model) \/ Gpu!Construct(model) \/ Gpu!Mismatch(model)
           \/ Gpu!Tensorize(model) \/ Gpu!Submit(model) \/ Gpu!Coverage(model)
           \/ Gpu!Evaluate(model) \/ Gpu!Output(model)
  <2>1. UNCHANGED <<fence, fenceNext, camQ>>
    BY <1>5 DEF Gpu!EnsureRuntime, Gpu!Construct, Gpu!Mismatch, Gpu!Unwound,
       Gpu!Tensorize, Gpu!Submit, Gpu!Coverage, Gpu!Evaluate, Gpu!Output
  <2> QED
    BY <1>1, <2>1
<1> QED
  BY <1>2, <1>3, <1>4, <1>5, OwnerWorks DEF Gpu!Next, OwnerStep

\* What is acquired is released before the commands are in the queue.
LEMMA ReleasedStep ==
  ASSUME Gpu!GpuInvariant, Gpu!Next
  PROVE  Gpu!ReleasedBeforeFlush'
<1> USE DEF Gpu!stepVars, Gpu!streamVars
<1>1. /\ DOMAIN wrapped = Gpu!Models /\ model \in Gpu!Models
      /\ recorded \in [Gpu!Models -> Seq(Gpu!Commands)]
      /\ \A m \in Gpu!Models : recorded[m] = <<>> => wrapped[m] = {}
  BY DEF Gpu!GpuInvariant, Gpu!TypeOK, Gpu!StreamTypes, Gpu!ReleasedBeforeFlush
<1>2. CASE (\E a \in Textures, new \in 0..1 : Gpu!Deliver(a, new))
           \/ (\E d \in Cameras : Gpu!Restart(d)) \/ Gpu!TakeFrame
           \/ Gpu!Terminated \/ Gpu!CameraExecutes
           \/ \E m \in Gpu!Models : Gpu!QueueExecutes(m)
  <2>1. UNCHANGED <<wrapped, recorded>>
    BY <1>2 DEF Gpu!Deliver, Gpu!Restart, Gpu!TakeFrame, Gpu!Terminated, Gpu!vars,
                Gpu!CameraExecutes, Gpu!QueueExecutes
  <2> QED
    BY <1>1, <2>1 DEF Gpu!ReleasedBeforeFlush
<1>3. CASE Gpu!Throw \/ Gpu!Mismatch(model)
  BY <1>1, <1>3 DEF Gpu!Throw, Gpu!Mismatch, Gpu!Unwound, Gpu!ReleasedBeforeFlush
<1>4. CASE Gpu!Tensorize(model)
  <2>1. /\ recorded'[model] # <<>>
        /\ \A m \in Gpu!Models : m # model =>
             recorded'[m] = recorded[m] /\ wrapped'[m] = wrapped[m]
    BY <1>1, <1>4 DEF Gpu!Tensorize
  <2> QED
    BY <1>1, <2>1 DEF Gpu!ReleasedBeforeFlush
<1>5. CASE Gpu!Submit(model)
  BY <1>1, <1>5 DEF Gpu!Submit, Gpu!ReleasedBeforeFlush
<1>6. CASE Gpu!EnsureRuntime(model) \/ Gpu!PrepareFrame(model) \/ Gpu!Construct(model)
           \/ Gpu!Coverage(model) \/ Gpu!Evaluate(model) \/ Gpu!Output(model)
  <2>1. UNCHANGED <<wrapped, recorded>>
    BY <1>6 DEF Gpu!EnsureRuntime, Gpu!PrepareFrame, Gpu!Construct, Gpu!Coverage,
       Gpu!Evaluate, Gpu!Output
  <2> QED
    BY <1>1, <2>1 DEF Gpu!ReleasedBeforeFlush
<1> QED
  BY <1>2, <1>3, <1>4, <1>5, <1>6, OwnerWorks DEF Gpu!Next, OwnerStep

-----------------------------------------------------------------------------
(* What the importers and the owner refer to.                              *)

\* A texture that shows a frame keeps showing it while nothing writes to it.
LEMMA TexturesHeldStep ==
  ASSUME Gpu!GpuInvariant, Gpu!Next
  PROVE  Gpu!TexturesHeld'
<1> USE DEF Gpu!cameraVars, Gpu!ownerVars
<1>1. /\ content \in [Textures -> 0..MaxFrames] /\ incarn \in [Textures -> Nat]
      /\ latest \in Gpu!Frames /\ gpu_frame \in Gpu!Frames
      /\ Gpu!TexturesHeld /\ latest.id \in Nat
  BY DEF Gpu!GpuInvariant, Gpu!TypeOK, Gpu!StreamTypes, Gpu!Frames
<1>2. ASSUME NEW a \in Textures, NEW new \in 0..1, Gpu!Deliver(a, new)
      PROVE  Gpu!TexturesHeld'
  <2>1. /\ content' = [content EXCEPT ![a] = latest.id + 1]
        /\ incarn' = [incarn EXCEPT ![a] = incarn[a] + new]
        /\ latest'.texture = [addr |-> a, inc |-> incarn[a] + new]
        /\ latest'.id = latest.id + 1
        /\ UNCHANGED <<gpu_pc, gpu_frame>> /\ a \notin Gpu!Held
    BY <1>2 DEF Gpu!Deliver
  <2>2. gpu_pc \notin {"idle", "dead"} => gpu_frame.texture.addr # a
    BY <2>1 DEF Gpu!Held
  <2>3. gpu_pc \notin {"idle", "dead"} => Gpu!Shows(gpu_frame)'
    BY <1>1, <2>1, <2>2 DEF Gpu!TexturesHeld, Gpu!Shows
  <2>4. latest'.texture.inc > 0 => Gpu!Shows(latest)'
    BY <1>1, <2>1 DEF Gpu!Shows
  <2> QED
    BY <2>1, <2>3, <2>4 DEF Gpu!TexturesHeld
<1>3. ASSUME NEW d \in Cameras, Gpu!Restart(d)
      PROVE  Gpu!TexturesHeld'
  <2>1. latest'.texture = Gpu!NoTexture /\ gpu_pc' = "idle"
    BY <1>1, <1>3 DEF Gpu!Restart, Gpu!Frames
  <2> QED
    BY <2>1 DEF Gpu!TexturesHeld, Gpu!NoTexture
<1>4. CASE Gpu!TakeFrame
  BY <1>1, <1>4 DEF Gpu!TakeFrame, Gpu!TexturesHeld, Gpu!Shows
<1>5. CASE Gpu!CameraExecutes \/ Gpu!Terminated \/ Gpu!Throw
           \/ (\E m \in Gpu!Models : Gpu!QueueExecutes(m)) \/ OwnerStep(model)
  <2>1. /\ UNCHANGED <<content, incarn, latest, gpu_frame>>
        /\ gpu_pc' \notin {"idle", "dead"} => gpu_pc \notin {"idle", "dead"}
    BY <1>5 DEF Gpu!CameraExecutes, Gpu!Terminated, Gpu!vars, Gpu!Throw,
       Gpu!Unwound, Gpu!QueueExecutes, OwnerStep, Gpu!EnsureRuntime, Gpu!Construct,
       Gpu!Mismatch, Gpu!PrepareFrame, Gpu!Tensorize, Gpu!Submit, Gpu!Coverage,
       Gpu!Evaluate, Gpu!Output
  <2> QED
    BY <1>1, <2>1 DEF Gpu!TexturesHeld, Gpu!Shows
<1> QED
  BY <1>2, <1>3, <1>4, <1>5, OwnerWorks DEF Gpu!Next

\* A reallocated texture has no tag, so that no entry is taken for it.
LEMMA CacheKept ==
  ASSUME Gpu!GpuInvariant, Gpu!Next, ~ Gpu!PrepareFrame(model)
  PROVE  Gpu!TagsUnique' /\ Gpu!CacheSound'
<1> USE DEF Gpu!importVars
<1>1. /\ incarn \in [Textures -> Nat] /\ tag \in [Textures -> Nat] /\ nextTag \in Nat
      /\ Gpu!TagsUnique /\ Gpu!CacheSound
  BY DEF Gpu!GpuInvariant, Gpu!TypeOK
<1>2. CASE /\ UNCHANGED <<nextTag, lru>>
           /\ \A a \in Textures : \/ tag'[a] = 0
                                  \/ tag'[a] = tag[a] /\ incarn'[a] = incarn[a]
  <2>1. Gpu!TagsUnique'
    <3>1. \A a \in Textures : tag'[a] <= nextTag'
      BY <1>1, <1>2 DEF Gpu!TagsUnique
    <3>2. \A a, c \in Textures : tag'[a] = tag'[c] /\ tag'[a] # 0 => a = c
      BY <1>1, <1>2 DEF Gpu!TagsUnique
    <3> QED
      BY <1>1, <1>2, <3>1, <3>2 DEF Gpu!TagsUnique
  <2>2. Gpu!CacheSound'
    BY <1>1, <1>2 DEF Gpu!CacheSound
  <2> QED
    BY <2>1, <2>2
<1>3. ASSUME NEW a \in Textures, NEW new \in 0..1, Gpu!Deliver(a, new)
      PROVE  /\ UNCHANGED <<nextTag, lru>>
             /\ \A c \in Textures : \/ tag'[c] = 0
                                    \/ tag'[c] = tag[c] /\ incarn'[c] = incarn[c]
  BY <1>1, <1>3 DEF Gpu!Deliver
<1>4. ASSUME NEW d \in Cameras, Gpu!Restart(d)
      PROVE  UNCHANGED <<nextTag, lru>> /\ \A a \in Textures : tag'[a] = 0
  BY <1>1, <1>4 DEF Gpu!Restart
<1>5. CASE Gpu!CameraExecutes \/ Gpu!Terminated \/ Gpu!Throw \/ Gpu!TakeFrame
           \/ (\E m \in Gpu!Models : Gpu!QueueExecutes(m)) \/ OwnerStep(model)
  <2>1. UNCHANGED <<incarn, tag, nextTag, lru>>
    BY <1>5 DEF Gpu!CameraExecutes, Gpu!Terminated, Gpu!vars, Gpu!Throw,
       Gpu!Unwound, Gpu!QueueExecutes, Gpu!TakeFrame, OwnerStep, Gpu!EnsureRuntime,
       Gpu!Construct, Gpu!Mismatch, Gpu!Tensorize, Gpu!Submit,
       Gpu!Coverage, Gpu!Evaluate, Gpu!Output, Gpu!cameraVars
  <2> QED
    BY <1>2, <2>1
<1> QED
  BY <1>2, <1>3, <1>4, <1>5, OwnerWorks DEF Gpu!Next

\* An importer's list: its entries for tags that were given, each once, and for
\* the tag of a texture that texture.
Filed(s, tags, last, inc) ==
    /\ \A x \in 1..Len(s) : s[x].id \in 1..last
    /\ \A x, y \in 1..Len(s) : s[x].id = s[y].id => x = y
    /\ \A x \in 1..Len(s), a \in Textures :
         tags[a] # 0 /\ s[x].id = tags[a]
           => s[x].texture = [addr |-> a, inc |-> inc[a]]
TagsOnce(tags, last) ==
    /\ \A a \in Textures : tags[a] <= last
    /\ \A a, c \in Textures : tags[a] = tags[c] /\ tags[a] # 0 => a = c

\* The tags and caches are sound when the tags are unique
\* and every list is filed under them.
LEMMA ListsFiled ==
  /\ Gpu!TagsUnique /\ Gpu!CacheSound
       <=> /\ TagsOnce(tag, nextTag)
           /\ \A m \in Gpu!Models : Filed(lru[m], tag, nextTag, incarn)
  /\ (Gpu!TagsUnique /\ Gpu!CacheSound)'
       <=> /\ TagsOnce(tag', nextTag')
           /\ \A m \in Gpu!Models : Filed(lru'[m], tag', nextTag', incarn')
<1> USE DEF Gpu!TagsUnique, Gpu!CacheSound, Filed, TagsOnce
<1>1. Gpu!TagsUnique /\ Gpu!CacheSound
        <=> /\ TagsOnce(tag, nextTag)
            /\ \A m \in Gpu!Models : Filed(lru[m], tag, nextTag, incarn)
  OBVIOUS
<1>2. (Gpu!TagsUnique /\ Gpu!CacheSound)'
        <=> /\ TagsOnce(tag', nextTag')
            /\ \A m \in Gpu!Models : Filed(lru'[m], tag', nextTag', incarn')
  OBVIOUS
<1> QED
  BY <1>1, <1>2

\* A list stays as it was filed when other textures get new tags.
LEMMA StillFiled ==
  ASSUME NEW s, NEW tags, NEW last \in Nat, NEW inc, NEW others, NEW more \in Nat,
         Filed(s, tags, last, inc), last <= more,
         \A a \in Textures : others[a] = tags[a] \/ others[a] > last
  PROVE  Filed(s, others, more, inc)
<1>1. \A x \in 1..Len(s) : s[x].id \in 1..last
  BY DEF Filed
<1>2. \A x \in 1..Len(s) : s[x].id \in 1..more
  BY <1>1
<1>3. \A x \in 1..Len(s), a \in Textures :
        others[a] # 0 /\ s[x].id = others[a] => others[a] = tags[a]
  BY <1>1
<1> QED
  BY <1>2, <1>3 DEF Filed

\* To move an entry to the front keeps the list sound.
LEMMA SplicedFiled ==
  ASSUME NEW s \in Seq(Gpu!Entries), NEW n \in 1..Len(s),
         NEW tags, NEW last, NEW inc, Filed(s, tags, last, inc)
  PROVE  Filed(Gpu!Spliced(s, n), tags, last, inc)
<1> DEFINE z == Gpu!Spliced(s, n)
           from(x) == IF x = 1 THEN n ELSE IF x <= n THEN x - 1 ELSE x
<1>1. Len(s) \in Nat
  OBVIOUS
<1>2. Len(z) = Len(s) /\ \A x \in 1..Len(s) : z[x] = s[from(x)]
  BY <1>1 DEF Gpu!Spliced
<1>3. /\ \A x \in 1..Len(s) : from(x) \in 1..Len(s)
      /\ \A x, y \in 1..Len(s) : from(x) = from(y) => x = y
  BY <1>1
<1> HIDE DEF z, from
<1>4. \A x \in 1..Len(z) : z[x].id \in 1..last
  BY <1>2, <1>3 DEF Filed
<1>5. \A x, y \in 1..Len(z) : z[x].id = z[y].id => x = y
  <2> SUFFICES ASSUME NEW x \in 1..Len(z), NEW y \in 1..Len(z), z[x].id = z[y].id
               PROVE  x = y
    OBVIOUS
  <2>1. /\ from(x) \in 1..Len(s) /\ from(y) \in 1..Len(s)
        /\ s[from(x)].id = s[from(y)].id
    BY <1>2, <1>3
  <2>2. from(x) = from(y)
    BY <2>1 DEF Filed
  <2> QED
    BY <1>2, <1>3, <2>2
<1>6. \A x \in 1..Len(z), a \in Textures :
        tags[a] # 0 /\ z[x].id = tags[a]
          => z[x].texture = [addr |-> a, inc |-> inc[a]]
  <2> SUFFICES ASSUME NEW x \in 1..Len(z), NEW a \in Textures,
                      tags[a] # 0, z[x].id = tags[a]
               PROVE  z[x].texture = [addr |-> a, inc |-> inc[a]]
    OBVIOUS
  <2>1. from(x) \in 1..Len(s) /\ s[from(x)] = z[x]
    BY <1>2, <1>3
  <2> QED
    BY <2>1 DEF Filed
<1>7. Filed(z, tags, last, inc)
  BY <1>4, <1>5, <1>6 DEF Filed
<1> QED
  BY <1>7 DEF z

\* A view filed first under a tag no entry has; the last entries may be evicted.
LEMMA NewlyFiled ==
  ASSUME NEW s \in Seq(Gpu!Entries), NEW tags, NEW last \in Nat, NEW inc,
         Filed(s, tags, last, inc), NEW new, new.id \in 1..last,
         \A x \in 1..Len(s) : s[x].id # new.id,
         \A a \in Textures : tags[a] = new.id => new.texture = [addr |-> a, inc |-> inc[a]]
  PROVE  Filed(Gpu!Evicted(<<new>> \o s), tags, last, inc)
<1> DEFINE all == <<new>> \o s
           z == Gpu!Evicted(all)
<1>1. MaxEntries \in Nat
  BY GpuAssumption DEF Gpu!GpuAssumption
<1>2. /\ Len(z) \in Nat /\ Len(z) <= Len(s) + 1 /\ Len(s) \in Nat
      /\ \A x \in 1..Len(z) : z[x] = IF x = 1 THEN new ELSE s[x - 1]
  <2>1. /\ Len(all) = Len(s) + 1 /\ Len(s) \in Nat
        /\ \A x \in 1..Len(all) : all[x] = IF x = 1 THEN new ELSE s[x - 1]
    OBVIOUS
  <2> HIDE DEF all
  <2> QED
    BY <1>1, <2>1 DEF Gpu!Evicted
<1> HIDE DEF z
<1>3. \A x \in 1..Len(z) : x = 1 \/ (x - 1 \in 1..Len(s) /\ z[x] = s[x - 1])
  <2> SUFFICES ASSUME NEW x \in 1..Len(z), x # 1
               PROVE  x - 1 \in 1..Len(s) /\ z[x] = s[x - 1]
    OBVIOUS
  <2>1. x - 1 \in 1..Len(s)
    BY <1>2
  <2>2. z[x] = s[x - 1]
    BY <1>2
  <2> QED
    BY <2>1, <2>2
<1>4. \A x \in 1..Len(z) : x = 1 => z[x] = new
  BY <1>2
<1>5. \A x \in 1..Len(z) : z[x].id \in 1..last
  BY <1>3, <1>4 DEF Filed
<1>6. \A x, y \in 1..Len(z) : z[x].id = z[y].id => x = y
  <2> SUFFICES ASSUME NEW x \in 1..Len(z), NEW y \in 1..Len(z), z[x].id = z[y].id
               PROVE  x = y
    OBVIOUS
  <2>1. CASE x = 1 \/ y = 1
    BY <1>3, <1>4, <2>1
  <2>2. CASE x # 1 /\ y # 1
    <3>1. /\ x - 1 \in 1..Len(s) /\ y - 1 \in 1..Len(s)
          /\ s[x - 1].id = s[y - 1].id
      BY <1>3, <2>2
    <3>2. x - 1 = y - 1
      BY <3>1 DEF Filed
    <3> QED
      BY <1>2, <3>2
  <2> QED
    BY <2>1, <2>2
<1>7. \A x \in 1..Len(z), a \in Textures :
        tags[a] # 0 /\ z[x].id = tags[a]
          => z[x].texture = [addr |-> a, inc |-> inc[a]]
  <2> SUFFICES ASSUME NEW x \in 1..Len(z), NEW a \in Textures,
                      tags[a] # 0, z[x].id = tags[a]
               PROVE  z[x].texture = [addr |-> a, inc |-> inc[a]]
    OBVIOUS
  <2>1. CASE x = 1
    BY <1>4, <2>1
  <2>2. CASE x # 1
    BY <1>3, <2>2 DEF Filed
  <2> QED
    BY <2>1, <2>2
<1>8. Filed(z, tags, last, inc)
  BY <1>5, <1>6, <1>7 DEF Filed
<1> QED
  BY <1>8 DEF z

\* A preparation gives the frame's texture a tag no other has, and files its view
\* under that tag.
LEMMA CachePrepared ==
  ASSUME Gpu!GpuInvariant, Gpu!PrepareFrame(model)
  PROVE  Gpu!TagsUnique' /\ Gpu!CacheSound'
<1> DEFINE a == gpu_frame.texture.addr
           id == Gpu!TagOf(a)
<1>1. /\ tag \in [Textures -> Nat] /\ nextTag \in Nat /\ model \in Gpu!Models
      /\ lru \in [Gpu!Models -> Seq(Gpu!Entries)]
      /\ Gpu!TagsUnique /\ Gpu!CacheSound
      /\ incarn' = incarn
  BY DEF Gpu!GpuInvariant, Gpu!TypeOK, Gpu!StreamTypes, Gpu!PrepareFrame,
         Gpu!cameraVars
<1>2. /\ TagsOnce(tag, nextTag)
      /\ \A m \in Gpu!Models : Filed(lru[m], tag, nextTag, incarn)
  BY <1>1, ListsFiled
<1>3. /\ a \in Textures /\ gpu_frame.texture = [addr |-> a, inc |-> incarn[a]]
  BY DEF Gpu!PrepareFrame, Gpu!GpuInvariant, Gpu!TexturesHeld, Gpu!Shows,
         Gpu!StreamTypes, Gpu!Frames, Gpu!TextureRefs
<1>4. CASE Gpu!Off(model)
  BY <1>1, <1>4 DEF Gpu!Off, Gpu!importVars, Gpu!TagsUnique, Gpu!CacheSound
<1>5. CASE Gpu!Hit(model)
  <2>1. /\ UNCHANGED nextTag /\ tag' = [tag EXCEPT ![a] = @]
        /\ \E x \in 1..Len(lru[model]) :
             lru' = [lru EXCEPT ![model] = Gpu!Spliced(@, x)]
    BY <1>1, <1>3, <1>5, HitIsTagged DEF Gpu!GpuInvariant
  <2>2. tag' = tag
    BY <1>1, <2>1
  <2>3. lru[model] \in Seq(Gpu!Entries) /\ Filed(lru[model], tag, nextTag, incarn)
    BY <1>1, <1>2
  <2>4. Filed(lru'[model], tag, nextTag, incarn)
    BY <1>1, <2>1, <2>3, SplicedFiled
  <2>5. \A m \in Gpu!Models : Filed(lru'[m], tag, nextTag, incarn)
    BY <1>1, <1>2, <2>1, <2>4
  <2> QED
    BY <1>1, <1>2, <2>1, <2>2, <2>5, ListsFiled
\* A tag that was given before, or that is given for the first time.
<1>6. ASSUME Gpu!Tagged(a)
      PROVE  /\ id \in 1..nextTag' /\ nextTag' \in Nat /\ nextTag <= nextTag'
             /\ tag'[a] = id /\ tag' \in [Textures -> Nat]
             /\ \A c \in Textures : c # a => tag'[c] = tag[c] /\ tag[c] # id
             /\ tag[a] = id \/ id > nextTag
  <2>1. \A c \in Textures : /\ tag[c] <= nextTag /\ tag[c] \in Nat
                            /\ tag[a] = tag[c] /\ tag[a] # 0 => a = c
    BY <1>1, <1>2, <1>3 DEF TagsOnce
  <2>2. CASE tag[a] # 0
    BY <1>1, <1>3, <1>6, <2>1, <2>2 DEF Gpu!Tagged, Gpu!TagOf
  <2>3. CASE tag[a] = 0
    BY <1>1, <1>3, <1>6, <2>1, <2>3 DEF Gpu!Tagged, Gpu!TagOf
  <2> QED
    BY <2>2, <2>3
<1> HIDE DEF id
<1>7. ASSUME Gpu!Tagged(a)
      PROVE  /\ TagsOnce(tag', nextTag')
             /\ \A m \in Gpu!Models : Filed(lru[m], tag', nextTag', incarn)
  <2>1. TagsOnce(tag', nextTag')
    <3>1. ASSUME NEW c \in Textures
          PROVE  tag'[c] <= nextTag'
      <4>1. /\ tag[c] \in Nat /\ tag[c] <= nextTag /\ nextTag \in Nat
            /\ nextTag' \in Nat /\ nextTag <= nextTag'
            /\ id \in 1..nextTag' /\ tag'[a] = id
        BY <1>1, <1>2, <1>6, <1>7 DEF TagsOnce
      <4>2. c = a \/ tag'[c] = tag[c]
        BY <1>6, <1>7
      <4> QED
        BY <4>1, <4>2
    <3>2. ASSUME NEW b1 \in Textures, NEW b2 \in Textures,
                 tag'[b1] = tag'[b2], tag'[b1] # 0
          PROVE  b1 = b2
      BY <1>2, <1>6, <1>7, <3>2 DEF TagsOnce
    <3> QED
      BY <3>1, <3>2 DEF TagsOnce
  <2>2. \A c \in Textures : tag'[c] = tag[c] \/ tag'[c] > nextTag
    BY <1>6, <1>7
  <2>3. ASSUME NEW m \in Gpu!Models
        PROVE  Filed(lru[m], tag', nextTag', incarn)
    BY <1>1, <1>2, <1>6, <1>7, <2>2, StillFiled
  <2> QED
    BY <2>1, <2>3
<1>8. CASE Gpu!Miss(model)
  <2> DEFINE new == [id |-> id, texture |-> gpu_frame.texture]
             z == Gpu!Evicted(<<new>> \o lru[model])
  <2>1. /\ Gpu!Tagged(a) /\ Gpu!Cached(model, id) = {}
        /\ lru' = [lru EXCEPT ![model] = z]
    BY <1>8 DEF Gpu!Miss, id
  <2>2. new.id = id /\ new.texture = [addr |-> a, inc |-> incarn[a]]
    BY <1>3
  <2>3. \A x \in 1..Len(lru[model]) : lru[model][x].id # new.id
    BY <2>1, <2>2 DEF Gpu!Cached
  <2>4. \A c \in Textures : tag'[c] = new.id
                            => new.texture = [addr |-> c, inc |-> incarn[c]]
    BY <1>6, <2>1, <2>2
  <2>5. /\ lru[model] \in Seq(Gpu!Entries) /\ new.id \in 1..nextTag' /\ nextTag' \in Nat
        /\ Filed(lru[model], tag', nextTag', incarn)
    BY <1>1, <1>6, <1>7, <2>1, <2>2
  <2> HIDE DEF new
  <2>6. Filed(z, tag', nextTag', incarn)
    BY <2>3, <2>4, <2>5, NewlyFiled
  <2> HIDE DEF z
  <2>7. \A m \in Gpu!Models : Filed(lru'[m], tag', nextTag', incarn')
    BY <1>1, <1>7, <2>1, <2>6
  <2> QED
    BY <1>7, <2>1, <2>7, ListsFiled
<1>9. CASE Gpu!ImportFails(model)
  <2>1. /\ lru' = [lru EXCEPT ![model] = <<>>]
        /\ Gpu!Tagged(a) \/ /\ tag[a] = 0 /\ tag' = tag
                            /\ nextTag' = nextTag + 1
    BY <1>9 DEF Gpu!ImportFails
  <2>2. /\ TagsOnce(tag', nextTag')
        /\ \A m \in Gpu!Models : Filed(lru[m], tag', nextTag', incarn)
    <3>1. CASE tag' = tag /\ nextTag' = nextTag + 1
      <4>1. TagsOnce(tag', nextTag')
        BY <1>1, <1>2, <3>1 DEF TagsOnce
      <4>2. ASSUME NEW m \in Gpu!Models
            PROVE  Filed(lru[m], tag', nextTag', incarn)
        BY <1>1, <1>2, <3>1, StillFiled
      <4> QED
        BY <4>1, <4>2
    <3> QED
      BY <1>7, <2>1, <3>1
  <2>3. Filed(<<>>, tag', nextTag', incarn)
    BY DEF Filed
  <2>4. \A m \in Gpu!Models : Filed(lru'[m], tag', nextTag', incarn')
    BY <1>1, <2>1, <2>2, <2>3
  <2> QED
    BY <2>2, <2>4, ListsFiled
<1> QED
  BY <1>4, <1>5, <1>8, <1>9 DEF Gpu!PrepareFrame

-----------------------------------------------------------------------------
(* Lists of two and of three, taken apart and put together.                *)

\* Lists of two or three are the same when their elements are.
LEMMA SameLists ==
  ASSUME NEW S, NEW s \in Seq(S), NEW t \in Seq(S)
  PROVE  /\ Len(s) = 2 /\ Len(t) = 2 /\ s[1] = t[1] /\ s[2] = t[2] => s = t
         /\ Len(s) = 3 /\ Len(t) = 3 /\ s[1] = t[1] /\ s[2] = t[2] /\ s[3] = t[3]
              => s = t
<1>1. ASSUME Len(s) = Len(t), \A x \in 1..Len(s) : s[x] = t[x] PROVE s = t
  BY <1>1
<1> QED
  BY <1>1

\* Appending and concatenating short lists.
LEMMA PutTogether ==
  ASSUME NEW x, NEW y, NEW z
  PROVE  /\ Append(<<>>, x) = <<x>>
         /\ Append(<<x>>, y) = <<x, y>> /\ Append(<<x, y>>, z) = <<x, y, z>>
         /\ <<>> \o <<x>> = <<x>> /\ <<x>> \o <<>> = <<x>>
         /\ <<>> \o <<x, y>> = <<x, y>>
         /\ <<x>> \o <<y>> = <<x, y>> /\ <<x>> \o <<y, z>> = <<x, y, z>>
<1> DEFINE S == {x, y, z}
           pair == <<x, y>>
           triple == <<x, y, z>>
<1>1. /\ pair \in Seq(S) /\ Len(pair) = 2 /\ pair[1] = x /\ pair[2] = y
      /\ triple \in Seq(S) /\ Len(triple) = 3
      /\ triple[1] = x /\ triple[2] = y /\ triple[3] = z
  OBVIOUS
<1>2. ASSUME NEW s \in Seq(S), Len(s) = 2, s[1] = x, s[2] = y PROVE s = pair
  <2> HIDE DEF S, pair
  <2> QED
    BY <1>1, <1>2, SameLists
<1>3. ASSUME NEW s \in Seq(S), Len(s) = 3, s[1] = x, s[2] = y, s[3] = z
      PROVE  s = triple
  <2> HIDE DEF S, triple
  <2> QED
    BY <1>1, <1>3, SameLists
<1> DEFINE s2 == Append(<<x>>, y)
           s3 == Append(<<x, y>>, z)
           c2 == <<x>> \o <<y>>
           c3 == <<x>> \o <<y, z>>
<1>4. s2 \in Seq(S) /\ Len(s2) = 2 /\ s2[1] = x /\ s2[2] = y
  OBVIOUS
<1>5. s3 \in Seq(S) /\ Len(s3) = 3 /\ s3[1] = x /\ s3[2] = y /\ s3[3] = z
  OBVIOUS
<1>6. c2 \in Seq(S) /\ Len(c2) = 2 /\ c2[1] = x /\ c2[2] = y
  OBVIOUS
<1>7. c3 \in Seq(S) /\ Len(c3) = 3 /\ c3[1] = x /\ c3[2] = y /\ c3[3] = z
  OBVIOUS
<1> HIDE DEF S, s2, s3, c2, c3
<1>8. s2 = pair /\ s3 = triple /\ c2 = pair /\ c3 = triple
  <2> HIDE DEF pair, triple
  <2> QED
    BY <1>2, <1>3, <1>4, <1>5, <1>6, <1>7
<1>9. Append(<<>>, x) = <<x>>
  OBVIOUS
<1>10. <<>> \o <<x>> = <<x>> /\ <<x>> \o <<>> = <<x>> /\ <<>> \o <<x, y>> = <<x, y>>
  OBVIOUS
<1> QED
  BY <1>8, <1>9, <1>10 DEF s2, s3, c2, c3

\* Head and tail of short lists.
LEMMA TakenApart ==
  /\ \A x : Head(<<x>>) = x /\ <<x>>[1] = x /\ Tail(<<x>>) = <<>>
  /\ \A x, y : /\ Head(<<x, y>>) = x /\ <<x, y>>[1] = x
                /\ Tail(<<x, y>>) = <<y>>
  /\ \A x, y, z : /\ Head(<<x, y, z>>) = x /\ <<x, y, z>>[1] = x
                   /\ Tail(<<x, y, z>>) = <<y, z>>
<1>1. \A x : Head(<<x>>) = x /\ <<x>>[1] = x /\ Tail(<<x>>) = <<>>
  OBVIOUS
<1>2. \A x, y : /\ Head(<<x, y>>) = x /\ <<x, y>>[1] = x
                /\ Tail(<<x, y>>) = <<y>>
  OBVIOUS
<1>3. \A x, y, z : /\ Head(<<x, y, z>>) = x /\ <<x, y, z>>[1] = x
                   /\ Tail(<<x, y, z>>) = <<y, z>>
  OBVIOUS
<1> QED
  BY <1>1, <1>2, <1>3

-----------------------------------------------------------------------------
(* The construction.                                                       *)

\* A runtime with its binding has everything.
LEMMA BoundIsComplete ==
  ASSUME Gpu!ConstructionSoFar, NEW m \in Gpu!Models, "binding" \in made[m]
  PROVE  /\ "preprocessor" \in made[m]
         /\ Gpu!PrepareNeeds(m) \cup Gpu!TensorizeNeeds(m) \cup Gpu!EvaluateNeeds
              \subseteq made[m]
<1> DEFINE s == Gpu!RuntimeSteps(m)
<1>1. \A x \in 1..Len(s) : s[x].makes \subseteq made[m]
  BY DEF Gpu!ConstructionSoFar
<1>2. IsList(s)
  BY RuntimesInTurn
<1> HIDE DEF s
<1>3. Made(s) \subseteq made[m]
  BY <1>1, <1>2 DEF Made, IsList
<1> QED
  BY <1>3, RuntimesInTurn DEF s

\* Every stage finds what it uses: NothingUsedBeforeMade.
LEMMA UsedIsMade ==
  ASSUME Gpu!TypeOK, Gpu!ConstructionSoFar
  PROVE  Gpu!NothingUsedBeforeMade
<1>1. model \in Gpu!Models
  BY DEF Gpu!TypeOK
<1>2. CASE gpu_pc = "construct"
  BY <1>1, <1>2, DueIsFirst DEF Gpu!ConstructionSoFar, Gpu!NothingUsedBeforeMade
<1>3. CASE gpu_pc \in {"prepare", "tensorize", "evaluate"}
  BY <1>1, <1>3, BoundIsComplete DEF Gpu!ConstructionSoFar, Gpu!NothingUsedBeforeMade
<1>4. CASE gpu_pc \notin {"construct", "prepare", "tensorize", "evaluate"}
  BY <1>4 DEF Gpu!NothingUsedBeforeMade
<1> QED
  BY <1>2, <1>3, <1>4

\* The construction goes on from where it is; one that throws leaves nothing.
LEMMA ConstructionStep ==
  ASSUME Gpu!GpuInvariant, Gpu!Next
  PROVE  Gpu!ConstructionSoFar'
<1> USE DEF Gpu!resourceVars, Gpu!ownerVars
<1>1. /\ model \in Gpu!Models /\ DOMAIN made = Gpu!Models
      /\ Gpu!ConstructionSoFar
  BY DEF Gpu!GpuInvariant, Gpu!TypeOK, Gpu!StreamTypes
<1>2. CASE (\E a \in Textures, new \in 0..1 : Gpu!Deliver(a, new))
           \/ (\E d \in Cameras : Gpu!Restart(d)) \/ Gpu!CameraExecutes
           \/ (\E m \in Gpu!Models : Gpu!QueueExecutes(m)) \/ Gpu!Terminated
  <2>1. UNCHANGED <<made, gpu_pc, model>>
    BY <1>2 DEF Gpu!Deliver, Gpu!Restart, Gpu!CameraExecutes, Gpu!QueueExecutes,
                Gpu!Terminated, Gpu!vars
  <2> QED
    BY <1>1, <2>1 DEF Gpu!ConstructionSoFar
<1>3. CASE Gpu!TakeFrame
  BY <1>1, <1>3 DEF Gpu!TakeFrame, Gpu!ConstructionSoFar
<1>4. CASE Gpu!Throw \/ Gpu!Mismatch(model)
  <2>1. /\ gpu_pc' = "dead" /\ model' = model
        /\ made' = [made EXCEPT ![model] = IF "preprocessor" \in @ THEN @ ELSE {}]
        /\ gpu_pc # "dead"
    BY <1>4 DEF Gpu!Throw, Gpu!Mismatch, Gpu!Unwound
  <2>2. \A m \in Gpu!Models : \/ made'[m] = made[m]
                              \/ m = model /\ made'[m] = {}
    BY <1>1, <2>1
  <2> QED
    BY <1>1, <2>1, <2>2 DEF Gpu!ConstructionSoFar
<1>5. CASE Gpu!EnsureRuntime(model)
  <2>1. "binding" \in made[model] <=> "preprocessor" \in made[model]
    BY <1>1, <1>5, BoundIsComplete DEF Gpu!EnsureRuntime, Gpu!ConstructionSoFar
  <2> QED
    BY <1>1, <1>5, <2>1 DEF Gpu!EnsureRuntime, Gpu!ConstructionSoFar
<1>6. CASE Gpu!Construct(model)
  <2> DEFINE more == Gpu!Due(model).makes
  <2>1. /\ gpu_pc = "construct" /\ "binding" \notin made[model] /\ model' = model
        /\ made' = [made EXCEPT ![model] = made[model] \cup more]
        /\ gpu_pc' = IF "binding" \in made'[model] THEN "prepare" ELSE "construct"
    BY <1>1, <1>6 DEF Gpu!Construct, Gpu!ConstructionSoFar
  <2>2. "binding" \in more =>
           \A x \in 1..Len(Gpu!RuntimeSteps(model)) :
             Gpu!RuntimeSteps(model)[x].makes \subseteq made[model] \cup more
    BY <1>1, <2>1, DueIsFirst
  <2> HIDE DEF more
  <2>3. made'[model] = made[model] \cup more
        /\ \A m \in Gpu!Models : m # model => made'[m] = made[m]
    BY <1>1, <2>1
  <2>4. \A m \in Gpu!Models : "binding" \in made'[m] =>
           \A x \in 1..Len(Gpu!RuntimeSteps(m)) :
             Gpu!RuntimeSteps(m)[x].makes \subseteq made'[m]
    BY <1>1, <2>1, <2>2, <2>3 DEF Gpu!ConstructionSoFar
  <2>5. \A m \in Gpu!Models :
          "preprocessor" \in made'[m] /\ ~(m = model' /\ gpu_pc' \in {"construct", "dead"})
            => "binding" \in made'[m]
    BY <1>1, <2>1, <2>3 DEF Gpu!ConstructionSoFar
  <2> QED
    BY <2>1, <2>4, <2>5 DEF Gpu!ConstructionSoFar
<1>7. CASE Gpu!PrepareFrame(model) \/ Gpu!Tensorize(model) \/ Gpu!Submit(model)
           \/ Gpu!Evaluate(model)
  <2>1. /\ UNCHANGED <<made, model>>
        /\ gpu_pc \in {"prepare", "tensorize", "submit", "evaluate"}
        /\ gpu_pc' \in {"tensorize", "submit", "coverage", "evaluate", "readback"}
    BY <1>7 DEF Gpu!PrepareFrame, Gpu!Tensorize, Gpu!Submit, Gpu!Evaluate
  <2> QED
    BY <1>1, <2>1 DEF Gpu!ConstructionSoFar
<1>8. CASE Gpu!Coverage(model) \/ Gpu!Output(model)
  <2>1. /\ made' = made /\ gpu_pc \in {"coverage", "readback"}
        /\ \/ gpu_pc' \in {"tensorize", "evaluate"} /\ model' = model
           \/ gpu_pc' \in {"idle", "enter"}
    BY <1>8 DEF Gpu!Coverage, Gpu!Output, Gpu!NextFace
  <2> QED
    BY <1>1, <2>1 DEF Gpu!ConstructionSoFar
<1> QED
  BY <1>2, <1>3, <1>4, <1>5, <1>6, <1>7, <1>8, OwnerWorks DEF Gpu!Next, OwnerStep

-----------------------------------------------------------------------------
(* The streams.                                                            *)

\* What the commands of the frame at work are.
LEMMA CommandFields ==
  ASSUME NEW m
  PROVE  /\ Gpu!Copies(m).op = "copy" /\ Gpu!Copies(m).model = m
         /\ Gpu!Copies(m).value = fenceNext[m]
         /\ Gpu!Copies(m).texture = gpu_frame.texture
         /\ Gpu!Signals(m).op = "signal" /\ Gpu!Signals(m).model = m
         /\ Gpu!Signals(m).value = fenceNext[m]
         /\ Gpu!Waits(m).op = "wait" /\ Gpu!Waits(m).value = fenceNext[m]
         /\ Gpu!Reads(m).op = "tensorize" /\ Gpu!Reads(m).value = fenceNext[m]
         /\ Gpu!Reads(m).texture = views[m] /\ Gpu!Reads(m).face = obs
         /\ Gpu!Covers(m).op = "coverage" /\ Gpu!Covers(m).value = fenceNext[m]
         /\ Gpu!Evaluates(m).op = "evaluate" /\ Gpu!Evaluates(m).value = fenceNext[m]
BY DEF Gpu!Copies, Gpu!Signals, Gpu!Waits, Gpu!Reads, Gpu!Covers, Gpu!Evaluates,
       Gpu!Command

\* They do not change while the frame and the face do not.
LEMMA CommandsKept ==
  ASSUME NEW m, UNCHANGED <<gpu_frame, fenceNext, views>>
  PROVE  /\ Gpu!Copies(m)' = Gpu!Copies(m) /\ Gpu!Signals(m)' = Gpu!Signals(m)
         /\ Gpu!Waits(m)' = Gpu!Waits(m)
         /\ obs' = obs =>
              /\ Gpu!Reads(m)' = Gpu!Reads(m) /\ Gpu!Covers(m)' = Gpu!Covers(m)
              /\ Gpu!Evaluates(m)' = Gpu!Evaluates(m)
<1>1. Gpu!Copies(m)' = Gpu!Copies(m)
  BY DEF Gpu!Copies, Gpu!Command
<1>2. Gpu!Signals(m)' = Gpu!Signals(m)
  BY DEF Gpu!Signals, Gpu!Command
<1>3. Gpu!Waits(m)' = Gpu!Waits(m)
  BY DEF Gpu!Waits, Gpu!Command
<1>4. obs' = obs =>
        /\ Gpu!Reads(m)' = Gpu!Reads(m) /\ Gpu!Covers(m)' = Gpu!Covers(m)
        /\ Gpu!Evaluates(m)' = Gpu!Evaluates(m)
  BY DEF Gpu!Reads, Gpu!Covers, Gpu!Evaluates, Gpu!Command
<1> QED
  BY <1>1, <1>2, <1>3, <1>4

\* Where no model is at work nothing is queued.
LEMMA StreamsAtRestStep ==
  ASSUME Gpu!GpuInvariant, Gpu!Next
  PROVE  Gpu!StreamsAtRest'
<1> USE DEF Gpu!ownerVars, Gpu!streamVars, Gpu!stepVars, Gpu!AtRest
<1>1. /\ model \in Gpu!Models
      /\ queue \in [Gpu!Models -> Seq(Gpu!Commands)]
      /\ recorded \in [Gpu!Models -> Seq(Gpu!Commands)]
      /\ gpu_pc # "dead" =>
           /\ \A m \in Gpu!Models : m # model => queue[m] = <<>>
           /\ \A m \in Gpu!Models :
                recorded[m] = IF m = model /\ gpu_pc = "submit"
                                THEN Gpu!Recording(m) ELSE <<>>
           /\ gpu_pc \in Gpu!AtRest => camQ = <<>> /\ queue[model] = <<>>
           /\ gpu_pc \in Gpu!AtRest \ {"idle"} => obs = 1
  BY DEF Gpu!GpuInvariant, Gpu!TypeOK, Gpu!StreamTypes, Gpu!StreamsAtRest
<1>2. ASSUME UNCHANGED <<gpu_frame, fenceNext, views, obs>>, NEW m
      PROVE  Gpu!Recording(m)' = Gpu!Recording(m)
  BY <1>2, CommandsKept DEF Gpu!Recording
<1>3. CASE (\E a \in Textures, new \in 0..1 : Gpu!Deliver(a, new))
           \/ (\E d \in Cameras : Gpu!Restart(d)) \/ Gpu!Terminated
  <2>1. UNCHANGED <<gpu_pc, model, obs, gpu_frame, fenceNext, views, queue, recorded, camQ>>
    BY <1>3 DEF Gpu!Deliver, Gpu!Restart, Gpu!Terminated, Gpu!vars
  <2> HIDE DEF Gpu!AtRest
  <2> QED
    BY <1>1, <1>2, <2>1 DEF Gpu!StreamsAtRest
<1>4. CASE Gpu!Throw \/ Gpu!Mismatch(model)
  BY <1>4 DEF Gpu!Throw, Gpu!Mismatch, Gpu!StreamsAtRest
<1>5. CASE Gpu!TakeFrame
  <2>1. /\ gpu_pc = "idle" /\ gpu_pc' = "enter" /\ obs' = 1 /\ model' = "scrfd"
        /\ UNCHANGED <<queue, recorded, camQ>>
    BY <1>5 DEF Gpu!TakeFrame
  <2>2. \A m \in Gpu!Models : queue[m] = <<>> /\ recorded[m] = <<>>
    BY <1>1, <2>1
  <2>3. model' \in Gpu!Models
    BY <2>1 DEF Gpu!Models
  <2> QED
    BY <1>1, <2>1, <2>2, <2>3 DEF Gpu!StreamsAtRest
<1>6. CASE Gpu!EnsureRuntime(model) \/ Gpu!Construct(model)
  <2>1. /\ UNCHANGED <<model, obs, queue, recorded, camQ>>
        /\ gpu_pc \in {"enter", "construct"} /\ gpu_pc' \in {"construct", "prepare"}
    BY <1>6 DEF Gpu!EnsureRuntime, Gpu!Construct
  <2> QED
    BY <1>1, <2>1 DEF Gpu!StreamsAtRest
<1>7. CASE Gpu!PrepareFrame(model) \/ Gpu!Evaluate(model)
  <2>1. /\ UNCHANGED <<model, recorded>>
        /\ gpu_pc \in {"prepare", "evaluate"} /\ gpu_pc' \in {"tensorize", "readback"}
        /\ \A m \in Gpu!Models : m # model => queue'[m] = queue[m]
    BY <1>1, <1>7 DEF Gpu!PrepareFrame, Gpu!Evaluate
  <2> QED
    BY <1>1, <2>1 DEF Gpu!StreamsAtRest
<1>8. CASE Gpu!Tensorize(model)
  <2>1. /\ gpu_pc = "tensorize" /\ gpu_pc' = "submit"
        /\ UNCHANGED <<model, obs, gpu_frame, fenceNext, views, queue, camQ>>
    BY <1>8 DEF Gpu!Tensorize
  <2>2. recorded' = [recorded EXCEPT ![model] =
                       <<Gpu!Reads(model)>> \o (IF model = "liveness"
                                                  THEN <<Gpu!Covers(model)>> ELSE <<>>)]
    BY <1>8 DEF Gpu!Tensorize, Gpu!Reads, Gpu!Covers
  <2>3. recorded'[model] = Gpu!Recording(model)
    <3>1. /\ <<Gpu!Reads(model)>> \o <<Gpu!Covers(model)>>
                = <<Gpu!Reads(model), Gpu!Covers(model)>>
          /\ <<Gpu!Reads(model)>> \o <<>> = <<Gpu!Reads(model)>>
      BY PutTogether
    <3> QED
      BY <1>1, <2>2, <3>1 DEF Gpu!Recording
  <2>4. \A m \in Gpu!Models : m # model => recorded'[m] = recorded[m]
    BY <1>1, <2>2
  <2> QED
    BY <1>1, <1>2, <2>1, <2>3, <2>4 DEF Gpu!StreamsAtRest
<1>9. CASE Gpu!Submit(model)
  <2>1. /\ gpu_pc = "submit" /\ gpu_pc' \in {"coverage", "evaluate"} /\ model' = model
        /\ \A m \in Gpu!Models : m # model => queue'[m] = queue[m]
        /\ \A m \in Gpu!Models : recorded'[m] = IF m = model THEN <<>> ELSE recorded[m]
    BY <1>1, <1>9 DEF Gpu!Submit
  <2> QED
    BY <1>1, <2>1 DEF Gpu!StreamsAtRest
<1>10. CASE Gpu!Coverage(model) \/ Gpu!Output(model)
  <2>1. /\ UNCHANGED <<queue, recorded, camQ>> /\ queue[model] = <<>>
        /\ gpu_pc \in {"coverage", "readback"}
        /\ \/ gpu_pc' \in {"tensorize", "evaluate"} /\ model' = model
           \/ gpu_pc' \in {"idle", "enter"} /\ obs' = 1
    BY <1>10 DEF Gpu!Coverage, Gpu!Output, Gpu!ReadBack, Gpu!NextFace
  <2>2. camQ = <<>>
    BY <2>1 DEF Gpu!GpuInvariant, Gpu!StreamsInOrder
  <2>3. \A m \in Gpu!Models : queue[m] = <<>> /\ recorded[m] = <<>>
    BY <1>1, <2>1
  <2>4. model' \in Gpu!Models
    BY OwnerTypesStep
  <2> QED
    BY <2>1, <2>2, <2>3, <2>4 DEF Gpu!StreamsAtRest
<1>11. CASE Gpu!CameraExecutes
  <2>1. /\ UNCHANGED <<gpu_pc, model, obs, gpu_frame, fenceNext, views, queue, recorded>>
        /\ camQ # <<>>
    BY <1>11 DEF Gpu!CameraExecutes
  <2> QED
    BY <1>1, <1>2, <2>1 DEF Gpu!StreamsAtRest
<1>12. ASSUME NEW m \in Gpu!Models, Gpu!QueueExecutes(m)
       PROVE  Gpu!StreamsAtRest'
  <2>1. /\ UNCHANGED <<gpu_pc, model, obs, gpu_frame, fenceNext, views, recorded, camQ>>
        /\ queue[m] # <<>>
        /\ \A n \in Gpu!Models : n # m => queue'[n] = queue[n]
    BY <1>1, <1>12 DEF Gpu!QueueExecutes
  <2>2. gpu_pc # "dead" => m = model /\ gpu_pc \notin Gpu!AtRest
    BY <1>1, <2>1
  <2> HIDE DEF Gpu!AtRest
  <2> QED
    BY <1>1, <1>2, <2>1, <2>2 DEF Gpu!StreamsAtRest
<1> QED
  BY <1>3, <1>4, <1>5, <1>6, <1>7, <1>8, <1>9, <1>10, <1>11, <1>12, OwnerWorks
     DEF Gpu!Next, OwnerStep

\* The texture at work shows its frame, whoever reads it.
LEMMA ShownPixels ==
  ASSUME Gpu!Shows(gpu_frame)
  PROVE  Gpu!Pixels(gpu_frame.texture) = gpu_frame.id
         /\ gpu_frame.texture # Gpu!NoTexture
BY DEF Gpu!Shows, Gpu!Pixels, Gpu!NoTexture

\* A preparation starts the streams of a frame: at most the copy, the signal
\* and, in the queue, the wait.
LEMMA OrderPrepared ==
  ASSUME Gpu!GpuInvariant, Gpu!PrepareFrame(model)
  PROVE  Gpu!StreamsInOrder'
<1> DEFINE next == fenceNext[model] + 1
<1>1. /\ model \in Gpu!Models /\ fenceNext \in [Gpu!Models -> Nat]
      /\ fence \in [Gpu!Models -> Nat] /\ queue \in [Gpu!Models -> Seq(Gpu!Commands)]
      /\ fence[model] <= fenceNext[model]
      /\ gpu_pc = "prepare" /\ camQ = <<>> /\ queue[model] = <<>> /\ obs = 1
  BY DEF Gpu!PrepareFrame, Gpu!GpuInvariant, Gpu!TypeOK, Gpu!StreamTypes,
         Gpu!FencesBehind, Gpu!StreamsAtRest, Gpu!AtRest
<1>2. /\ gpu_pc' = "tensorize" /\ fenceNext'[model] = next /\ obs' = 1
      /\ UNCHANGED <<fence, model, gpu_frame, nv12, tensor, output>>
  BY <1>1 DEF Gpu!PrepareFrame, Gpu!gpuVars
<1>3. views'[model] \in {Gpu!NoTexture, gpu_frame.texture}
  <2>1. Acquired(model) /\ Gpu!Shows(gpu_frame)
    BY DEF Gpu!PrepareFrame, Acquired, Gpu!GpuInvariant, Gpu!TexturesHeld
  <2> QED
    BY <1>1, <2>1, ViewsTaken DEF Gpu!GpuInvariant
<1> DEFINE copy == Gpu!Command("copy", model, next)
           signal == Gpu!Command("signal", model, next)
           wait == Gpu!Command("wait", model, next)
<1>4. /\ camQ' = camQ \o (IF views'[model] = Gpu!NoTexture THEN <<copy>> ELSE <<>>)
                      \o <<signal>>
      /\ queue'[model] = Append(queue[model], wait)
  BY <1>1, <1>2 DEF Gpu!PrepareFrame
<1>5. /\ copy = Gpu!Copies(model)' /\ signal = Gpu!Signals(model)'
      /\ wait = Gpu!Waits(model)'
  BY <1>1, <1>2 DEF Gpu!Copies, Gpu!Signals, Gpu!Waits, Gpu!Command
<1> HIDE DEF copy, signal, wait
<1>6. /\ queue'[model] = <<wait>>
      /\ views'[model] = Gpu!NoTexture => camQ' = <<copy, signal>>
      /\ views'[model] # Gpu!NoTexture => camQ' = <<signal>>
  <2>1. /\ <<>> \o <<copy>> = <<copy>> /\ <<copy>> \o <<signal>> = <<copy, signal>>
        /\ <<>> \o <<signal>> = <<signal>> /\ Append(<<>>, wait) = <<wait>>
    BY PutTogether
  <2>2. <<>> \o <<>> = <<>>
    OBVIOUS
  <2> QED
    BY <1>1, <1>4, <2>1, <2>2
<1>7. fence[model] < next
  BY <1>1
<1> HIDE DEF next
<1>8. queue'[model] \in Gpu!Left(model)'
  BY <1>2, <1>5, <1>6 DEF Gpu!Left
<1>9. camQ' \in {<<>>, <<signal>>, <<copy, signal>>}
  BY <1>6
<1>10. queue'[model] # <<>> /\ queue'[model][1] = wait
  BY <1>6
<1>11. ~(views'[model] = Gpu!NoTexture /\ Len(camQ') < 2)
  <2>1. Len(<<copy, signal>>) = 2
    OBVIOUS
  <2>2. ASSUME views'[model] = Gpu!NoTexture PROVE Len(camQ') = 2
    <3>1. camQ' = <<copy, signal>>
      BY <1>6, <2>2
    <3> QED
      BY <2>1, <3>1
  <2> QED
    BY <2>2
<1> QED
  BY <1>2, <1>3, <1>5, <1>7, <1>8, <1>9, <1>10, <1>11 DEF Gpu!StreamsInOrder

\* What the streams of the frame at work can be.
LEMMA InOrderNow ==
  ASSUME Gpu!GpuInvariant, gpu_pc \notin Gpu!AtRest, gpu_pc # "dead"
  PROVE  /\ queue[model] \in Gpu!Left(model)
         /\ views[model] \in {Gpu!NoTexture, gpu_frame.texture}
         /\ camQ \in {<<>>, <<Gpu!Signals(model)>>,
                      <<Gpu!Copies(model), Gpu!Signals(model)>>}
         /\ camQ # <<>> =>
              /\ fence[model] < fenceNext[model]
              /\ queue[model] # <<>> /\ queue[model][1] = Gpu!Waits(model)
         /\ views[model] = Gpu!NoTexture /\ Len(camQ) < 2
              => nv12[model] = gpu_frame.id
         /\ gpu_pc \in {"coverage", "evaluate", "readback"}
            /\ queue[model] \in {<<>>, <<Gpu!Covers(model)>>, <<Gpu!Evaluates(model)>>}
              => tensor[model] = <<gpu_frame.id, obs>>
         /\ gpu_pc \in {"coverage", "readback"} /\ queue[model] = <<>>
              => output[model] = <<gpu_frame.id, obs>>
BY DEF Gpu!GpuInvariant, Gpu!StreamsInOrder

\* The owner records, submits and evaluates: the queue grows at its end.
LEMMA OrderSubmitted ==
  ASSUME Gpu!GpuInvariant,
         Gpu!Tensorize(model) \/ Gpu!Submit(model) \/ Gpu!Evaluate(model)
  PROVE  Gpu!StreamsInOrder'
<1> DEFINE w == Gpu!Waits(model)
           r == Gpu!Reads(model)
           c == Gpu!Covers(model)
           e == Gpu!Evaluates(model)
<1>1. /\ model \in Gpu!Models /\ queue \in [Gpu!Models -> Seq(Gpu!Commands)]
      /\ gpu_pc \in {"tensorize", "submit", "evaluate"}
      /\ gpu_pc = "submit" => recorded[model] = Gpu!Recording(model)
  BY DEF Gpu!GpuInvariant, Gpu!TypeOK, Gpu!StreamTypes, Gpu!Tensorize, Gpu!Submit,
         Gpu!Evaluate, Gpu!StreamsAtRest
<1>2. UNCHANGED <<model, obs, gpu_frame, fence, fenceNext, nv12, tensor, output,
                  views, camQ>>
  BY DEF Gpu!Tensorize, Gpu!Submit, Gpu!Evaluate, Gpu!gpuVars
<1>3. /\ Gpu!Copies(model)' = Gpu!Copies(model) /\ Gpu!Signals(model)' = Gpu!Signals(model)
      /\ w' = w /\ r' = r /\ c' = c /\ e' = e
  BY <1>2, CommandsKept
<1>4. w # r /\ w # c /\ w # e /\ r # c /\ r # e /\ c # e
  BY CommandFields
<1>5. /\ queue[model] \in Gpu!Left(model)
      /\ views[model] \in {Gpu!NoTexture, gpu_frame.texture}
      /\ camQ \in {<<>>, <<Gpu!Signals(model)>>, <<Gpu!Copies(model), Gpu!Signals(model)>>}
      /\ camQ # <<>> => /\ fence[model] < fenceNext[model]
                        /\ queue[model] # <<>> /\ queue[model][1] = w
      /\ views[model] = Gpu!NoTexture /\ Len(camQ) < 2 => nv12[model] = gpu_frame.id
      /\ gpu_pc = "evaluate" /\ queue[model] = <<>>
           => tensor[model] = <<gpu_frame.id, obs>>
  BY <1>1, InOrderNow DEF Gpu!AtRest
<1> HIDE DEF w, r, c, e
\* The queue before and after.
<1>6. /\ queue'[model] \in Gpu!Left(model)'
      /\ gpu_pc' \in {"submit", "coverage", "evaluate", "readback"}
      /\ queue[model] # <<>> => queue'[model] # <<>> /\ queue'[model][1] = queue[model][1]
      /\ gpu_pc' \in {"coverage", "evaluate", "readback"} =>
           /\ queue'[model] # <<>>
           /\ queue'[model] \in {<<c>>, <<e>>} => gpu_pc = "evaluate" /\ queue[model] = <<>>
  <2>1. CASE Gpu!Tensorize(model)
    <3>1. queue' = queue /\ gpu_pc = "tensorize" /\ gpu_pc' = "submit"
      BY <2>1 DEF Gpu!Tensorize
    <3>2. Gpu!Left(model) = {<<>>, <<w>>} /\ Gpu!Left(model)' = {<<>>, <<w>>}
      BY <1>3, <3>1 DEF Gpu!Left, w
    <3> QED
      BY <1>5, <3>1, <3>2
  <2>2. CASE Gpu!Submit(model) /\ model = "liveness"
    <3>1. /\ gpu_pc = "submit" /\ gpu_pc' = "coverage"
          /\ queue'[model] = queue[model] \o <<r, c>>
      BY <1>1, <2>2 DEF Gpu!Submit, Gpu!Recording, r, c
    <3>2. /\ Gpu!Left(model) = {<<>>, <<w>>}
          /\ Gpu!Left(model)' = {<<>>, <<c>>, <<r, c>>, <<w, r, c>>}
      BY <1>3, <3>1 DEF Gpu!Left, w, r, c
    <3>3. \/ queue[model] = <<>> /\ queue'[model] = <<r, c>>
          \/ queue[model] = <<w>> /\ queue'[model] = <<w, r, c>>
      <4>1. <<>> \o <<r, c>> = <<r, c>> /\ <<w>> \o <<r, c>> = <<w, r, c>>
        BY PutTogether
      <4> QED
        BY <1>5, <3>1, <3>2, <4>1
    <3> QED
      BY <1>4, <3>1, <3>2, <3>3
  <2>3. CASE Gpu!Submit(model) /\ model # "liveness"
    <3>1. /\ gpu_pc = "submit" /\ gpu_pc' = "evaluate"
          /\ queue'[model] = queue[model] \o <<r>>
      BY <1>1, <2>3 DEF Gpu!Submit, Gpu!Recording, r
    <3>2. /\ Gpu!Left(model) = {<<>>, <<w>>}
          /\ Gpu!Left(model)' = {<<>>, <<r>>, <<w, r>>}
      BY <1>2, <1>3, <2>3, <3>1 DEF Gpu!Left, w, r
    <3>3. \/ queue[model] = <<>> /\ queue'[model] = <<r>>
          \/ queue[model] = <<w>> /\ queue'[model] = <<w, r>>
      <4>1. <<>> \o <<r>> = <<r>> /\ <<w>> \o <<r>> = <<w, r>>
        BY PutTogether
      <4> QED
        BY <1>5, <3>1, <3>2, <4>1
    <3> QED
      BY <1>4, <3>1, <3>2, <3>3
  <2>4. CASE Gpu!Evaluate(model)
    <3>1. /\ gpu_pc = "evaluate" /\ gpu_pc' = "readback"
          /\ queue'[model] = Append(queue[model], e)
      BY <1>1, <2>4 DEF Gpu!Evaluate, Gpu!Evaluates, e
    <3>2. \/ /\ Gpu!Left(model) = {<<>>}
             /\ Gpu!Left(model)' = {<<>>, <<e>>}
          \/ /\ Gpu!Left(model) = {<<>>, <<r>>, <<w, r>>}
             /\ Gpu!Left(model)' = {<<>>, <<e>>, <<r, e>>, <<w, r, e>>}
      BY <1>2, <1>3, <3>1 DEF Gpu!Left, w, r, e
    <3>3. \/ queue[model] = <<>> /\ queue'[model] = <<e>>
          \/ queue[model] = <<r>> /\ queue'[model] = <<r, e>>
          \/ queue[model] = <<w, r>> /\ queue'[model] = <<w, r, e>>
      <4>1. /\ Append(<<>>, e) = <<e>> /\ Append(<<r>>, e) = <<r, e>>
            /\ Append(<<w, r>>, e) = <<w, r, e>>
        BY PutTogether
      <4> QED
        BY <1>5, <3>1, <3>2, <4>1
    <3>4. queue'[model] \in Gpu!Left(model)'
      <4>1. queue[model] = <<>> => queue'[model] = <<e>>
        BY <3>3
      <4> QED
        BY <1>5, <3>2, <3>3, <4>1
    <3> QED
      BY <1>4, <3>1, <3>3, <3>4
  <2> QED
    BY <2>1, <2>2, <2>3, <2>4
<1> QED
  BY <1>2, <1>3, <1>5, <1>6 DEF Gpu!StreamsInOrder, w, r, c, e

\* After a read-back the streams of the frame are done: the next face, if any,
\* starts from a tensor and an output of its own.
LEMMA OrderRead ==
  ASSUME Gpu!GpuInvariant, Gpu!Coverage(model) \/ Gpu!Output(model)
  PROVE  Gpu!StreamsInOrder'
<1>1. /\ gpu_pc \in {"coverage", "readback"} /\ queue[model] = <<>>
      /\ UNCHANGED <<gpu_frame, fence, fenceNext, nv12, tensor, output, views,
                     camQ, queue>>
      /\ \/ gpu_pc' = "evaluate" /\ UNCHANGED <<model, obs>>
         \/ gpu_pc' = "tensorize" /\ model' = model
         \/ gpu_pc' \in {"idle", "enter"}
  BY DEF Gpu!Coverage, Gpu!Output, Gpu!ReadBack, Gpu!NextFace, Gpu!gpuVars,
         Gpu!streamVars
<1>2. /\ views[model] \in {Gpu!NoTexture, gpu_frame.texture}
      /\ camQ = <<>>
      /\ views[model] = Gpu!NoTexture => nv12[model] = gpu_frame.id
      /\ tensor[model] = <<gpu_frame.id, obs>>
  <2>1. camQ = <<>>
    BY <1>1, InOrderNow DEF Gpu!AtRest
  <2> QED
    BY <1>1, <2>1, InOrderNow DEF Gpu!AtRest
<1>3. CASE gpu_pc' \in {"evaluate", "tensorize"}
  <2>1. <<>> \in Gpu!Left(model)'
    BY <1>3 DEF Gpu!Left
  <2> QED
    BY <1>1, <1>2, <1>3, <2>1 DEF Gpu!StreamsInOrder
<1>4. CASE gpu_pc' \in {"idle", "enter"}
  BY <1>4 DEF Gpu!StreamsInOrder, Gpu!AtRest
<1> QED
  BY <1>1, <1>3, <1>4

\* The camera's context copies the frame before it signals.
LEMMA OrderCamera ==
  ASSUME Gpu!GpuInvariant, Gpu!CameraExecutes
  PROVE  Gpu!StreamsInOrder'
<1> SUFFICES ASSUME gpu_pc \notin Gpu!AtRest, gpu_pc # "dead"
             PROVE  Gpu!StreamsInOrder'
  BY DEF Gpu!CameraExecutes, Gpu!ownerVars, Gpu!StreamsInOrder
<1> DEFINE copied == Gpu!Copies(model)
           s == Gpu!Signals(model)
<1>1. /\ model \in Gpu!Models /\ DOMAIN nv12 = Gpu!Models
      /\ fence \in [Gpu!Models -> Nat]
      /\ Gpu!Shows(gpu_frame)
  BY DEF Gpu!GpuInvariant, Gpu!TypeOK, Gpu!StreamTypes, Gpu!TexturesHeld, Gpu!AtRest
<1>2. UNCHANGED <<gpu_pc, model, obs, gpu_frame, fenceNext, views, queue, tensor, output>>
  BY DEF Gpu!CameraExecutes, Gpu!ownerVars, Gpu!stepVars
<1>3. /\ copied' = copied /\ s' = s
      /\ Gpu!Waits(model)' = Gpu!Waits(model) /\ Gpu!Covers(model)' = Gpu!Covers(model)
      /\ Gpu!Evaluates(model)' = Gpu!Evaluates(model)
      /\ Gpu!Left(model)' = Gpu!Left(model)
  BY <1>2, CommandsKept DEF Gpu!Left
<1>4. camQ \in {<<s>>, <<copied, s>>}
  BY InOrderNow DEF Gpu!CameraExecutes
<1>5. /\ copied.op = "copy" /\ copied.model = model /\ copied.texture = gpu_frame.texture
      /\ s.op = "signal" /\ s.model = model
  BY CommandFields
<1> HIDE DEF copied, s
<1>6. CASE camQ = <<s>>
  <2>1. Head(camQ) = s /\ Tail(camQ) = <<>> /\ Len(camQ) = 1
    BY <1>6, TakenApart
  <2>2. camQ' = <<>> /\ nv12' = nv12
    BY <1>5, <2>1 DEF Gpu!CameraExecutes
  <2>3. views[model] = Gpu!NoTexture => nv12[model] = gpu_frame.id
    BY <2>1, InOrderNow
  <2> QED
    BY <1>2, <1>3, <2>2, <2>3, InOrderNow DEF Gpu!StreamsInOrder
<1>7. CASE camQ = <<copied, s>>
  <2>1. Head(camQ) = copied /\ Tail(camQ) = <<s>>
    BY <1>7, TakenApart
  <2>2. /\ camQ' = <<s>> /\ fence' = fence
        /\ nv12' = [nv12 EXCEPT ![model] = Gpu!Pixels(gpu_frame.texture)]
    BY <1>5, <2>1 DEF Gpu!CameraExecutes
  <2>3. nv12'[model] = gpu_frame.id
    BY <1>1, <2>2, ShownPixels
  <2>4. camQ # <<>>
    BY DEF Gpu!CameraExecutes
  <2> QED
    BY <1>2, <1>3, <2>2, <2>3, <2>4, InOrderNow DEF Gpu!StreamsInOrder, s
<1> QED
  BY <1>4, <1>6, <1>7

\* The queue waits for the camera, tensorizes what it shows, evaluates that.
LEMMA OrderQueue ==
  ASSUME Gpu!GpuInvariant, NEW m \in Gpu!Models, Gpu!QueueExecutes(m)
  PROVE  Gpu!StreamsInOrder'
<1> SUFFICES ASSUME gpu_pc \notin Gpu!AtRest, gpu_pc # "dead"
             PROVE  Gpu!StreamsInOrder'
  BY DEF Gpu!QueueExecutes, Gpu!ownerVars, Gpu!StreamsInOrder
<1> DEFINE w == Gpu!Waits(model)
           r == Gpu!Reads(model)
           c == Gpu!Covers(model)
           e == Gpu!Evaluates(model)
           q == queue[model]
           done == <<gpu_frame.id, obs>>
<1>1. /\ model = m /\ queue \in [Gpu!Models -> Seq(Gpu!Commands)]
      /\ DOMAIN tensor = Gpu!Models /\ DOMAIN output = Gpu!Models
      /\ fence \in [Gpu!Models -> Nat] /\ fenceNext \in [Gpu!Models -> Nat]
      /\ Gpu!Shows(gpu_frame)
  BY DEF Gpu!GpuInvariant, Gpu!TypeOK, Gpu!StreamTypes, Gpu!TexturesHeld,
         Gpu!AtRest, Gpu!StreamsAtRest, Gpu!QueueExecutes
<1>2. UNCHANGED <<gpu_pc, model, obs, gpu_frame, fence, fenceNext, views, camQ, nv12>>
  BY DEF Gpu!QueueExecutes, Gpu!ownerVars, Gpu!stepVars
<1>3. /\ Gpu!Copies(model)' = Gpu!Copies(model) /\ Gpu!Signals(model)' = Gpu!Signals(model)
      /\ w' = w /\ r' = r /\ c' = c /\ e' = e /\ Gpu!Left(model)' = Gpu!Left(model)
  BY <1>2, CommandsKept DEF Gpu!Left
<1>4. /\ w.op = "wait" /\ w.value = fenceNext[model]
      /\ r.op = "tensorize" /\ r.texture = views[model] /\ r.face = obs
      /\ c.op = "coverage" /\ e.op = "evaluate"
  BY CommandFields
<1>5. /\ views[model] \in {Gpu!NoTexture, gpu_frame.texture}
      /\ camQ \in {<<>>, <<Gpu!Signals(model)>>, <<Gpu!Copies(model), Gpu!Signals(model)>>}
      /\ camQ # <<>> => fence[model] < fenceNext[model] /\ q[1] = w
      /\ views[model] = Gpu!NoTexture /\ Len(camQ) < 2 => nv12[model] = gpu_frame.id
      /\ gpu_pc \in {"coverage", "evaluate", "readback"} /\ q \in {<<c>>, <<e>>}
           => tensor[model] = done
  BY InOrderNow
<1>6. \/ /\ gpu_pc \in {"tensorize", "submit"} /\ q = <<w>>
         /\ Gpu!Left(model) = {<<>>, <<w>>}
      \/ /\ gpu_pc = "coverage" /\ q \in {<<c>>, <<r, c>>, <<w, r, c>>}
         /\ Gpu!Left(model) = {<<>>, <<c>>, <<r, c>>, <<w, r, c>>}
      \/ /\ gpu_pc = "evaluate" /\ q \in {<<r>>, <<w, r>>}
         /\ Gpu!Left(model) = {<<>>, <<r>>, <<w, r>>}
      \/ /\ gpu_pc = "readback" /\ q = <<e>> /\ Gpu!Left(model) = {<<>>, <<e>>}
      \/ /\ gpu_pc = "readback" /\ q \in {<<e>>, <<r, e>>, <<w, r, e>>}
         /\ Gpu!Left(model) = {<<>>, <<e>>, <<r, e>>, <<w, r, e>>}
  <2>1. q # <<>> /\ q \in Gpu!Left(model)
    BY <1>1, InOrderNow DEF Gpu!QueueExecutes
  <2> QED
    BY <2>1 DEF Gpu!Left
<1>7. /\ queue'[model] = Tail(q)
      /\ \/ /\ Head(q).op = "wait" /\ fence[model] >= Head(q).value
            /\ UNCHANGED <<tensor, output>>
         \/ /\ Head(q).op = "tensorize" /\ output' = output
            /\ tensor'[model] = <<IF Head(q).texture = Gpu!NoTexture THEN nv12[model]
                                  ELSE Gpu!Pixels(Head(q).texture), Head(q).face>>
         \/ /\ Head(q).op \in {"coverage", "evaluate"} /\ tensor' = tensor
            /\ output'[model] = tensor[model]
  BY <1>1 DEF Gpu!QueueExecutes
\* What is executed, and what is left.
<1> HIDE DEF w, r, c, e, q, done
<1>heads. /\ Head(<<w>>) = w /\ <<w>>[1] = w /\ Tail(<<w>>) = <<>>
      /\ Head(<<c>>) = c /\ <<c>>[1] = c /\ Tail(<<c>>) = <<>>
      /\ Head(<<e>>) = e /\ <<e>>[1] = e /\ Tail(<<e>>) = <<>>
      /\ Head(<<r>>) = r /\ <<r>>[1] = r /\ Tail(<<r>>) = <<>>
      /\ Head(<<w, r>>) = w /\ <<w, r>>[1] = w /\ Tail(<<w, r>>) = <<r>>
      /\ Head(<<r, c>>) = r /\ <<r, c>>[1] = r /\ Tail(<<r, c>>) = <<c>>
      /\ Head(<<r, e>>) = r /\ <<r, e>>[1] = r /\ Tail(<<r, e>>) = <<e>>
      /\ Head(<<w, r, c>>) = w /\ <<w, r, c>>[1] = w /\ Tail(<<w, r, c>>) = <<r, c>>
      /\ Head(<<w, r, e>>) = w /\ <<w, r, e>>[1] = w /\ Tail(<<w, r, e>>) = <<r, e>>
  BY TakenApart
<1>8. \/ /\ Head(q) = w /\ q[1] = w
         /\ \/ gpu_pc \in {"tensorize", "submit"} /\ Tail(q) = <<>>
            \/ gpu_pc = "coverage" /\ Tail(q) = <<r, c>>
            \/ gpu_pc = "evaluate" /\ Tail(q) = <<r>>
            \/ gpu_pc = "readback" /\ Tail(q) = <<r, e>>
      \/ /\ Head(q) = r /\ q[1] = r
         /\ \/ gpu_pc = "coverage" /\ Tail(q) = <<c>>
            \/ gpu_pc = "evaluate" /\ Tail(q) = <<>>
            \/ gpu_pc = "readback" /\ Tail(q) = <<e>>
      \/ /\ Head(q) \in {c, e} /\ q[1] \in {c, e} /\ q \in {<<c>>, <<e>>}
         /\ gpu_pc \in {"coverage", "readback"} /\ Tail(q) = <<>>
  BY <1>6, <1>heads
<1>9. Tail(q) \in Gpu!Left(model)
  BY <1>6, <1>heads
<1>10. /\ camQ = <<>>
       /\ gpu_pc \in {"coverage", "evaluate", "readback"}
          /\ Tail(q) \in {<<>>, <<c>>, <<e>>} => tensor'[model] = done
       /\ gpu_pc \in {"coverage", "readback"} /\ Tail(q) = <<>> => output'[model] = done
  <2>1. CASE Head(q) = w
    <3>1. camQ = <<>>
      BY <1>1, <1>4, <1>5, <1>7, <2>1
    <3>2. ~(/\ gpu_pc \in {"coverage", "evaluate", "readback"}
            /\ Tail(q) \in {<<>>, <<c>>, <<e>>})
      BY <1>4, <1>8, <2>1
    <3> QED
      BY <3>1, <3>2
  <2>2. CASE Head(q) = r
    <3>1. camQ = <<>>
      BY <1>4, <1>5, <1>8, <2>2
    <3>2. tensor'[model] = <<IF views[model] = Gpu!NoTexture THEN nv12[model]
                             ELSE Gpu!Pixels(views[model]), obs>>
      BY <1>4, <1>7, <2>2
    <3>3. tensor'[model] = done
      BY <1>1, <1>5, <3>1, <3>2, ShownPixels DEF done
    <3>4. ~(gpu_pc \in {"coverage", "readback"} /\ Tail(q) = <<>>)
      BY <1>4, <1>8, <2>2
    <3> QED
      BY <3>1, <3>3, <3>4
  <2>3. CASE Head(q) \in {c, e}
    <3>1. q[1] # w /\ q \in {<<c>>, <<e>>} /\ gpu_pc \in {"coverage", "readback"}
      BY <1>4, <1>8, <2>3
    <3>2. camQ = <<>> /\ tensor[model] = done
      BY <1>5, <3>1
    <3>3. tensor' = tensor /\ output'[model] = tensor[model]
      BY <1>4, <1>7, <2>3
    <3> QED
      BY <3>2, <3>3
  <2> QED
    BY <1>8, <2>1, <2>2, <2>3
<1>11. views[model] = Gpu!NoTexture => nv12[model] = gpu_frame.id
  BY <1>5, <1>10
<1> QED
  BY <1>2, <1>3, <1>5, <1>7, <1>9, <1>10, <1>11 DEF Gpu!StreamsInOrder, w, r, c, e, q, done

\* The streams keep their order in every step.
LEMMA StreamsInOrderStep ==
  ASSUME Gpu!GpuInvariant, Gpu!Next
  PROVE  Gpu!StreamsInOrder'
<1>1. CASE (\E a \in Textures, new \in 0..1 : Gpu!Deliver(a, new)) \/ Gpu!Terminated
  <2>1. UNCHANGED <<gpu_pc, model, obs, gpu_frame, fence, fenceNext, views, camQ, queue,
                    nv12, tensor, output>>
    BY <1>1 DEF Gpu!Deliver, Gpu!Terminated, Gpu!vars, Gpu!ownerVars, Gpu!gpuVars,
                Gpu!streamVars, Gpu!stepVars
  <2>2. /\ Gpu!Copies(model)' = Gpu!Copies(model) /\ Gpu!Signals(model)' = Gpu!Signals(model)
        /\ Gpu!Waits(model)' = Gpu!Waits(model) /\ Gpu!Covers(model)' = Gpu!Covers(model)
        /\ Gpu!Evaluates(model)' = Gpu!Evaluates(model)
        /\ Gpu!Left(model)' = Gpu!Left(model)
    BY <2>1, CommandsKept DEF Gpu!Left
  <2> QED
    BY <2>1, <2>2 DEF Gpu!GpuInvariant, Gpu!StreamsInOrder
<1>2. CASE (\E d \in Cameras : Gpu!Restart(d)) \/ Gpu!TakeFrame \/ Gpu!Throw
           \/ Gpu!EnsureRuntime(model) \/ Gpu!Construct(model) \/ Gpu!Mismatch(model)
  <2>1. gpu_pc' \in {"idle", "enter", "construct", "prepare", "dead"}
    BY <1>2 DEF Gpu!Restart, Gpu!TakeFrame, Gpu!Throw, Gpu!EnsureRuntime,
                Gpu!Construct, Gpu!Mismatch, Gpu!ownerVars
  <2> QED
    BY <2>1 DEF Gpu!StreamsInOrder, Gpu!AtRest
<1> QED
  BY <1>1, <1>2, OrderPrepared, OrderSubmitted, OrderRead, OrderCamera, OrderQueue,
     OwnerWorks DEF Gpu!Next, OwnerStep

\* Only commands that were in the streams of a running owner are left to a dead one.
LEMMA NoOverwriteStep ==
  ASSUME Gpu!GpuInvariant, Gpu!Next
  PROVE  Gpu!NoOverwriteWhileRead'
<1>1. /\ camQ \in Seq(Gpu!Commands) /\ queue \in [Gpu!Models -> Seq(Gpu!Commands)]
      /\ Gpu!NoOverwriteWhileRead
  BY DEF Gpu!GpuInvariant, Gpu!StreamTypes
<1>2. CASE gpu_pc' = "dead"
  <2>1. \/ UNCHANGED <<camQ, queue>>
        \/ camQ # <<>> /\ camQ' = Tail(camQ) /\ queue' = queue
        \/ \E m \in Gpu!Models : /\ queue[m] # <<>> /\ camQ' = camQ
                                 /\ queue' = [queue EXCEPT ![m] = Tail(@)]
    <3>1. CASE OwnerStep(model)
      BY <1>2, <3>1 DEF OwnerStep, Gpu!EnsureRuntime, Gpu!Construct, Gpu!Mismatch,
         Gpu!Unwound, Gpu!PrepareFrame, Gpu!Tensorize, Gpu!Submit, Gpu!Coverage,
         Gpu!Evaluate, Gpu!Output, Gpu!NextFace, Gpu!streamVars
    <3>2. CASE Gpu!CameraExecutes
      BY <3>2 DEF Gpu!CameraExecutes
    <3>3. CASE \E m \in Gpu!Models : Gpu!QueueExecutes(m)
      BY <3>3 DEF Gpu!QueueExecutes
    <3>4. CASE (\E a \in Textures, new \in 0..1 : Gpu!Deliver(a, new))
               \/ (\E d \in Cameras : Gpu!Restart(d)) \/ Gpu!TakeFrame
               \/ Gpu!Terminated \/ Gpu!Throw
      BY <3>4 DEF Gpu!Deliver, Gpu!Restart, Gpu!TakeFrame, Gpu!Terminated, Gpu!vars,
         Gpu!Throw, Gpu!Unwound, Gpu!streamVars
    <3> QED
      BY <3>1, <3>2, <3>3, <3>4, OwnerWorks DEF Gpu!Next
  <2>2. /\ Len(camQ') <= Len(camQ) /\ Len(camQ) \in Nat /\ Len(camQ') \in Nat
        /\ \E by \in 0..1 : \A x \in 1..Len(camQ') :
             x + by \in 1..Len(camQ) /\ camQ'[x] = camQ[x + by]
    <3>1. CASE camQ' = camQ
      BY <1>1, <3>1
    <3>2. CASE camQ # <<>> /\ camQ' = Tail(camQ)
      BY <1>1, <3>2
    <3> QED
      BY <2>1, <3>1, <3>2
  <2>3. ASSUME NEW m \in Gpu!Models
        PROVE  \E by \in 0..1 : \A x \in 1..Len(queue'[m]) :
                 x + by \in 1..Len(queue[m]) /\ queue'[m][x] = queue[m][x + by]
    <3>1. queue[m] \in Seq(Gpu!Commands)
      BY <1>1
    <3>2. CASE queue'[m] = queue[m]
      BY <3>1, <3>2
    <3>3. CASE queue[m] # <<>> /\ queue'[m] = Tail(queue[m])
      BY <3>1, <3>3
    <3>4. queue'[m] = queue[m] \/ (queue[m] # <<>> /\ queue'[m] = Tail(queue[m]))
      BY <1>1, <2>1
    <3> QED
      BY <3>2, <3>3, <3>4
  <2> SUFFICES ASSUME NEW m \in Gpu!Models, NEW x \in 1..Len(camQ'),
                      NEW y \in 1..Len(queue'[m]),
                      camQ'[x].op = "copy", camQ'[x].model = m,
                      queue'[m][y].op = "tensorize",
                      queue'[m][y].texture = Gpu!NoTexture
               PROVE  camQ'[x].value <= queue'[m][y].value
    BY DEF Gpu!NoOverwriteWhileRead
  <2>4. PICK x0 \in 1..Len(camQ) : camQ'[x] = camQ[x0]
    BY <2>2
  <2>5. PICK y0 \in 1..Len(queue[m]) : queue'[m][y] = queue[m][y0]
    BY <2>3
  <2> QED
    BY <1>1, <2>4, <2>5 DEF Gpu!NoOverwriteWhileRead
<1>3. CASE gpu_pc' \in Gpu!AtRest
  <2>1. Gpu!StreamsAtRest' /\ gpu_pc' # "dead"
    BY <1>3, StreamsAtRestStep DEF Gpu!AtRest
  <2>2. camQ' = <<>>
    BY <1>3, <2>1 DEF Gpu!StreamsAtRest
  <2> QED
    BY <2>2 DEF Gpu!NoOverwriteWhileRead
<1>4. CASE gpu_pc' \notin Gpu!AtRest \union {"dead"}
  <2> DEFINE copied == Gpu!Copies(model)'
             s == Gpu!Signals(model)'
             w == Gpu!Waits(model)'
             r == Gpu!Reads(model)'
             c == Gpu!Covers(model)'
             e == Gpu!Evaluates(model)'
             top == fenceNext'[model']
  <2>1. /\ copied.value = top /\ copied.model = model' /\ copied.op = "copy"
        /\ s.op = "signal"
        /\ w.op = "wait" /\ r.value = top /\ c.op = "coverage" /\ e.op = "evaluate"
    BY DEF Gpu!Copies, Gpu!Signals, Gpu!Waits, Gpu!Reads, Gpu!Covers, Gpu!Evaluates,
           Gpu!Command
  <2>2. /\ queue'[model'] \in Gpu!Left(model)'
        /\ camQ' \in {<<>>, <<s>>, <<copied, s>>}
    BY <1>4, StreamsInOrderStep DEF Gpu!StreamsInOrder
  <2>3. queue'[model'] \in
          {<<>>, <<w>>, <<c>>, <<r, c>>, <<w, r, c>>, <<r>>, <<w, r>>, <<e>>,
           <<r, e>>, <<w, r, e>>}
    BY <2>2 DEF Gpu!Left
  <2>4. top \in Nat
    BY StreamTypesStep, OwnerTypesStep
  <2> HIDE DEF copied, s, w, r, c, e, top
  <2>5. \A x \in 1..Len(camQ') : camQ'[x] \in {s, copied}
    BY <2>2
  <2>6. \A y \in 1..Len(queue'[model']) : queue'[model'][y] \in {w, r, c, e}
    BY <2>3
  <2>7. \A x \in 1..Len(camQ') : camQ'[x].op = "copy" =>
          camQ'[x].value = top /\ camQ'[x].model = model'
    BY <2>1, <2>5
  <2>8. \A y \in 1..Len(queue'[model']) : queue'[model'][y].op = "tensorize" =>
          queue'[model'][y].value = top
    BY <2>1, <2>6
  <2> QED
    BY <2>4, <2>7, <2>8 DEF Gpu!NoOverwriteWhileRead
<1> QED
  BY <1>2, <1>3, <1>4

\* A result is read when the queue is drained, and is of the frame and the face.
LEMMA FreshResultStep ==
  ASSUME Gpu!GpuInvariant, Gpu!Next
  PROVE  Gpu!FreshResult'
<1> USE DEF Gpu!stepVars
<1>1. Gpu!FreshResult
  BY DEF Gpu!GpuInvariant
<1>2. CASE Gpu!Coverage(model) \/ Gpu!Output(model)
  <2>1. gpu_pc \in {"coverage", "readback"} /\ queue[model] = <<>>
    BY <1>2 DEF Gpu!Coverage, Gpu!Output, Gpu!ReadBack
  <2>2. output[model] = <<gpu_frame.id, obs>>
    BY <2>1, InOrderNow DEF Gpu!AtRest
  <2>3. got' = [want |-> <<gpu_frame.id, obs>>, have |-> output[model]]
    BY <1>2 DEF Gpu!Coverage, Gpu!Output, Gpu!ReadBack
  <2> QED
    BY <2>2, <2>3 DEF Gpu!FreshResult
<1>3. CASE (\E a \in Textures, new \in 0..1 : Gpu!Deliver(a, new))
           \/ (\E d \in Cameras : Gpu!Restart(d)) \/ Gpu!TakeFrame \/ Gpu!Throw
           \/ Gpu!Terminated \/ Gpu!CameraExecutes
           \/ (\E m \in Gpu!Models : Gpu!QueueExecutes(m))
  <2>1. got' = got
    BY <1>3 DEF Gpu!Deliver, Gpu!Restart, Gpu!TakeFrame, Gpu!Throw, Gpu!Unwound,
       Gpu!Terminated, Gpu!vars, Gpu!CameraExecutes, Gpu!QueueExecutes
  <2> QED
    BY <1>1, <2>1 DEF Gpu!FreshResult
<1>4. CASE OwnerStep(model) /\ ~ Gpu!Coverage(model) /\ ~ Gpu!Output(model)
  <2>1. got' = got
    BY <1>4 DEF OwnerStep, Gpu!EnsureRuntime, Gpu!Construct, Gpu!Mismatch,
       Gpu!Unwound, Gpu!PrepareFrame, Gpu!Tensorize, Gpu!Submit, Gpu!Evaluate
  <2> QED
    BY <1>1, <2>1 DEF Gpu!FreshResult
<1> QED
  BY <1>2, <1>3, <1>4, OwnerWorks DEF Gpu!Next

-----------------------------------------------------------------------------
(* The invariant of the whole path.                                        *)

\* The invariant holds at first.
LEMMA GpuInit ==
  ASSUME Gpu!Init
  PROVE  Gpu!GpuInvariant
<1>1. MaxFrames \in Nat /\ MaxEntries \in Nat
  BY GpuAssumption DEF Gpu!GpuAssumption
<1>2. Gpu!NoTexture \in Gpu!TextureRefs
  BY DEF Gpu!NoTexture, Gpu!TextureRefs
<1>3. Gpu!NoFrame \in Gpu!Frames
  <2>1. (CHOOSE d \in Cameras : TRUE) \in Cameras
    BY DEF Gpu!Init
  <2> QED
    BY <1>1, <1>2, <2>1 DEF Gpu!NoFrame, Gpu!Frames
<1>4. Gpu!TypeOK
  BY <1>1 DEF Gpu!Init, Gpu!TypeOK, Gpu!Models
<1>5. Gpu!StreamTypes
  <2>1. <<>> \in Seq(Gpu!Entries) /\ <<>> \in Seq(Gpu!Commands)
    OBVIOUS
  <2> HIDE DEF Gpu!Entries, Gpu!Commands, Gpu!TextureRefs, Gpu!Frames, Gpu!NoFrame,
               Gpu!NoTexture
  <2> QED
    BY <1>2, <1>3, <2>1 DEF Gpu!Init, Gpu!StreamTypes
<1>6. Gpu!TexturesHeld
  BY DEF Gpu!Init, Gpu!TexturesHeld, Gpu!NoFrame, Gpu!NoTexture
<1>7. Gpu!TagsUnique /\ Gpu!CacheSound
  BY DEF Gpu!Init, Gpu!TagsUnique, Gpu!CacheSound
<1>8. Gpu!ConstructionSoFar
  BY DEF Gpu!Init, Gpu!ConstructionSoFar
<1>9. Gpu!FencesBehind
  BY DEF Gpu!Init, Gpu!FencesBehind
<1>10. Gpu!StreamsAtRest
  BY DEF Gpu!Init, Gpu!StreamsAtRest, Gpu!Models
<1>11. Gpu!StreamsInOrder
  BY DEF Gpu!Init, Gpu!StreamsInOrder, Gpu!AtRest
<1>12. Gpu!NoOverwriteWhileRead /\ Gpu!ReleasedBeforeFlush /\ Gpu!FreshResult
  BY DEF Gpu!Init, Gpu!NoOverwriteWhileRead, Gpu!ReleasedBeforeFlush, Gpu!FreshResult
<1> QED
  BY <1>4, <1>5, <1>6, <1>7, <1>8, <1>9, <1>10, <1>11, <1>12 DEF Gpu!GpuInvariant

\* Every step keeps the invariant.
LEMMA GpuStep ==
  ASSUME Gpu!GpuInvariant, Gpu!Next
  PROVE  Gpu!GpuInvariant'
<1>1. Gpu!TypeOK'
  BY CameraTypesStep, OwnerTypesStep, StreamTypesStep, DomainsStep, FencesStep
     DEF Gpu!TypeOK
<1>2. Gpu!StreamTypes'
  BY CameraTypesStep, OwnerTypesStep, StreamTypesStep, DomainsStep
     DEF Gpu!StreamTypes
<1>3. Gpu!TagsUnique' /\ Gpu!CacheSound'
  BY CacheKept, CachePrepared
<1> QED
  BY <1>1, <1>2, <1>3, TexturesHeldStep, ConstructionStep, FencesStep,
     StreamsAtRestStep, StreamsInOrderStep, NoOverwriteStep, ReleasedStep,
     FreshResultStep DEF Gpu!GpuInvariant

\* So does a step of another component.
LEMMA GpuStutters ==
  ASSUME Gpu!GpuInvariant, UNCHANGED gpuVars
  PROVE  Gpu!GpuInvariant'
<1> USE DEF gpuVars
<1>1. Gpu!TypeOK'
  BY DEF Gpu!GpuInvariant, Gpu!TypeOK
<1>2. Gpu!StreamTypes'
  BY DEF Gpu!GpuInvariant, Gpu!StreamTypes
<1>3. Gpu!TexturesHeld'
  BY DEF Gpu!GpuInvariant, Gpu!TexturesHeld, Gpu!Shows
<1>4. Gpu!TagsUnique' /\ Gpu!CacheSound'
  BY DEF Gpu!GpuInvariant, Gpu!TagsUnique, Gpu!CacheSound
<1>5. Gpu!ConstructionSoFar'
  BY DEF Gpu!GpuInvariant, Gpu!ConstructionSoFar
<1>6. Gpu!FencesBehind'
  BY DEF Gpu!GpuInvariant, Gpu!FencesBehind
<1>7. ASSUME NEW m
      PROVE  /\ Gpu!Copies(m)' = Gpu!Copies(m) /\ Gpu!Signals(m)' = Gpu!Signals(m)
             /\ Gpu!Waits(m)' = Gpu!Waits(m) /\ Gpu!Covers(m)' = Gpu!Covers(m)
             /\ Gpu!Evaluates(m)' = Gpu!Evaluates(m)
             /\ Gpu!Recording(m)' = Gpu!Recording(m) /\ Gpu!Left(m)' = Gpu!Left(m)
  BY CommandsKept DEF Gpu!Recording, Gpu!Left
<1>8. Gpu!StreamsAtRest'
  BY <1>7 DEF Gpu!GpuInvariant, Gpu!StreamsAtRest
<1>9. Gpu!StreamsInOrder'
  BY <1>7 DEF Gpu!GpuInvariant, Gpu!StreamsInOrder
<1>10. Gpu!NoOverwriteWhileRead' /\ Gpu!ReleasedBeforeFlush' /\ Gpu!FreshResult'
  BY DEF Gpu!GpuInvariant, Gpu!NoOverwriteWhileRead, Gpu!ReleasedBeforeFlush,
         Gpu!FreshResult
<1> QED
  BY <1>1, <1>2, <1>3, <1>4, <1>5, <1>6, <1>8, <1>9, <1>10 DEF Gpu!GpuInvariant

-----------------------------------------------------------------------------
(* ScrfdDecode: numbers                                                    *)

\* The count of an instance is the count.
LEMMA ScrfdCounted ==
  /\ \A S : Scrfd!Cardinality(S) = Cardinality(S)
  /\ \A S : Scrfd!IsFiniteSet(S) <=> IsFiniteSet(S)
  BY DEF Scrfd!Cardinality, Cardinality, Scrfd!IsFiniteSet, IsFiniteSet

\* A count of anchors belongs to one of the three strides or to none.
LEMMA StrideKnown ==
  ASSUME NEW n
  PROVE  Scrfd!StrideFor(n) \in Scrfd!Strides \union {0}
<1> DEFINE Halves(s) == (InputSize \div s) * (InputSize \div s) * 2
           fits == {s \in Scrfd!Strides : n = Halves(s)}
<1>1. Scrfd!StrideFor(n) = IF fits = {} THEN 0
                           ELSE CHOOSE s \in fits : \A t \in fits : s <= t
  BY DEF Scrfd!StrideFor
<1>2. fits \subseteq {8, 16, 32}
  BY DEF Scrfd!Strides
<1> HIDE DEF fits
<1>3. fits # {} => \E s \in fits : \A t \in fits : s <= t
  <2>1. fits \subseteq 1..32 /\ 32 \in Nat
    BY <1>2
  <2> QED
    BY <2>1, FirstIsThere
<1> QED
  BY <1>1, <1>2, <1>3 DEF Scrfd!Strides

\* Sums, differences and products of numbers are numbers.
LEMMA NumbersAdd ==
  ASSUME NEW x \in Scrfd!Number, NEW y \in Scrfd!Number
  PROVE  /\ Scrfd!Plus(x, y) \in Scrfd!Number
         /\ Scrfd!Minus(x, y) \in Scrfd!Number
         /\ Scrfd!Times(x, y) \in Scrfd!Number
  BY DEF Scrfd!Number, Scrfd!Plus, Scrfd!Minus, Scrfd!Times

\* The centre of an anchor is a point of the grid.
LEMMA AnchorsAreNumbers ==
  ASSUME NEW n \in Nat, NEW s \in Scrfd!Strides
  PROVE  Scrfd!AnchorX(n, s) \in Int /\ Scrfd!AnchorY(n, s) \in Int
<1>1. InputSize \in Nat /\ InputSize >= 32
  BY ScrfdAssumption DEF Scrfd!ScrfdAssumption
<1>2. s \in {8, 16, 32}
  BY DEF Scrfd!Strides
<1> DEFINE m == InputSize \div s
           c == n \div 2
<1>3. m \in Nat /\ m > 0
  BY <1>1, <1>2
<1>4. c \in Nat
  OBVIOUS
<1> HIDE DEF m, c
<1>5. c % m \in Nat /\ c \div m \in Nat
  BY <1>3, <1>4
<1>6. (c % m) * s \in Int /\ (c \div m) * s \in Int
  BY <1>2, <1>5
<1> QED
  BY <1>6 DEF Scrfd!AnchorX, Scrfd!AnchorY, Scrfd!Cell, m, c

\* A candidate is a record of numbers that has the score of its row.
LEMMA CandidatesAreNumbers ==
  ASSUME NEW r \in Scrfd!TensorRow
  PROVE  /\ Scrfd!Candidate(r).x1 \in Scrfd!Number
         /\ Scrfd!Candidate(r).y1 \in Scrfd!Number
         /\ Scrfd!Candidate(r).x2 \in Scrfd!Number
         /\ Scrfd!Candidate(r).y2 \in Scrfd!Number
         /\ Scrfd!Candidate(r).lx \in Scrfd!Number
         /\ Scrfd!Candidate(r).ly \in Scrfd!Number
         /\ Scrfd!Candidate(r).score \in Scrfd!Number
<1>1. /\ r.stride \in Scrfd!Strides /\ r.anchor \in Nat
      /\ r.left \in Scrfd!Number /\ r.top \in Scrfd!Number
      /\ r.right \in Scrfd!Number /\ r.bottom \in Scrfd!Number
      /\ r.kx \in Scrfd!Number /\ r.ky \in Scrfd!Number
      /\ r.score \in Scrfd!Number
  BY DEF Scrfd!TensorRow
<1>2. r.stride \in Scrfd!Number
  BY <1>1 DEF Scrfd!Number, Scrfd!Strides
<1>3. /\ Scrfd!AnchorX(r.anchor, r.stride) \in Scrfd!Number
      /\ Scrfd!AnchorY(r.anchor, r.stride) \in Scrfd!Number
  BY <1>1, AnchorsAreNumbers DEF Scrfd!Number
<1>4. /\ Scrfd!Times(r.left, r.stride) \in Scrfd!Number
      /\ Scrfd!Times(r.top, r.stride) \in Scrfd!Number
      /\ Scrfd!Times(r.right, r.stride) \in Scrfd!Number
      /\ Scrfd!Times(r.bottom, r.stride) \in Scrfd!Number
      /\ Scrfd!Times(r.kx, r.stride) \in Scrfd!Number
      /\ Scrfd!Times(r.ky, r.stride) \in Scrfd!Number
  BY <1>1, <1>2, NumbersAdd
<1> QED
  BY <1>1, <1>3, <1>4, NumbersAdd DEF Scrfd!Candidate

\* std::max(low, std::min(x, high)) is within the bounds for every x, Nan too,
\* when the bounds are the right way about, and the lower bound when not.
LEMMA ClampfInside ==
  ASSUME NEW x \in Scrfd!Number, NEW high \in Int
  PROVE  /\ Scrfd!Clampf(x, 0, high) \in Nat
         /\ Scrfd!Clampf(x, 0, high) > 0 => Scrfd!Clampf(x, 0, high) <= high
<1>1. NotANumber \notin Int
  BY ScrfdAssumption DEF Scrfd!ScrfdAssumption
<1>2. \/ Scrfd!CppMin(x, high) = NotANumber
      \/ Scrfd!CppMin(x, high) \in Int /\ Scrfd!CppMin(x, high) <= high
  BY <1>1 DEF Scrfd!CppMin, Scrfd!Less, Scrfd!Number
<1> QED
  BY <1>1, <1>2 DEF Scrfd!Clampf, Scrfd!CppMax, Scrfd!Less

\* So a box that did not collapse is inside the picture, whatever it was.
LEMMA ToFrameInside ==
  ASSUME NEW c, Scrfd!NotCollapsed(Scrfd!ToFrame(c)),
         c.x1 \in Scrfd!Number, c.y1 \in Scrfd!Number, c.x2 \in Scrfd!Number,
         c.y2 \in Scrfd!Number, c.lx \in Scrfd!Number, c.ly \in Scrfd!Number,
         NEW d, d = Scrfd!ToFrame(c)
  PROVE  /\ d.x1 \in 0..(FrameW - 1) /\ d.x2 \in 0..(FrameW - 1) /\ d.x1 < d.x2
         /\ d.y1 \in 0..(FrameH - 1) /\ d.y2 \in 0..(FrameH - 1) /\ d.y1 < d.y2
         /\ d.lx \in 0..(FrameW - 1) /\ d.ly \in 0..(FrameH - 1)
<1>1. FrameW \in Nat /\ FrameH \in Nat /\ Pad \in Scrfd!Number
  BY ScrfdAssumption DEF Scrfd!ScrfdAssumption, Scrfd!Number
<1> DEFINE X(e) == Scrfd!Clampf(Scrfd!Minus(e, Pad), 0, FrameW - 1)
           Y(e) == Scrfd!Clampf(Scrfd!Minus(e, Pad), 0, FrameH - 1)
<1>2. /\ d.x1 = X(c.x1) /\ d.x2 = X(c.x2) /\ d.lx = X(c.lx)
      /\ d.y1 = Y(c.y1) /\ d.y2 = Y(c.y2) /\ d.ly = Y(c.ly)
  BY DEF Scrfd!ToFrame
<1>3. ASSUME NEW e \in Scrfd!Number
      PROVE  /\ X(e) \in Nat /\ (X(e) > 0 => X(e) <= FrameW - 1)
             /\ Y(e) \in Nat /\ (Y(e) > 0 => Y(e) <= FrameH - 1)
  <2>1. Scrfd!Minus(e, Pad) \in Scrfd!Number
    BY <1>1, NumbersAdd
  <2>2. FrameW - 1 \in Int /\ FrameH - 1 \in Int
    BY <1>1
  <2> QED
    BY <2>1, <2>2, ClampfInside
<1> HIDE DEF X, Y
<1>4. d.x1 < d.x2 /\ d.y1 < d.y2
  BY DEF Scrfd!NotCollapsed, Scrfd!Less
<1>5. /\ d.x1 \in Nat /\ (d.x1 > 0 => d.x1 <= FrameW - 1)
      /\ d.x2 \in Nat /\ (d.x2 > 0 => d.x2 <= FrameW - 1)
      /\ d.lx \in Nat /\ (d.lx > 0 => d.lx <= FrameW - 1)
  BY <1>2, <1>3
<1>6. /\ d.y1 \in Nat /\ (d.y1 > 0 => d.y1 <= FrameH - 1)
      /\ d.y2 \in Nat /\ (d.y2 > 0 => d.y2 <= FrameH - 1)
      /\ d.ly \in Nat /\ (d.ly > 0 => d.ly <= FrameH - 1)
  BY <1>2, <1>3
<1> QED
  BY <1>1, <1>4, <1>5, <1>6

-----------------------------------------------------------------------------
(* ScrfdDecode: the outputs                                                *)

\* Three different things make a set of three.
LEMMA ThreeElements ==
  ASSUME NEW x \in Nat, NEW y \in Nat, NEW z \in Nat, x # y, x # z, y # z
  PROVE  IsFiniteSet({x, y, z}) /\ Cardinality({x, y, z}) = 3
<1>1. IsFiniteSet({x}) /\ Cardinality({x}) = 1
  BY FS_Singleton
<1>2. y \notin {x} /\ z \notin {x, y}
  OBVIOUS
<1>3. {x} \union {y} = {x, y} /\ {x, y} \union {z} = {x, y, z}
  OBVIOUS
<1>4. IsFiniteSet({x, y}) /\ Cardinality({x, y}) = 2
  <2>1. /\ IsFiniteSet({x} \union {y})
        /\ Cardinality({x} \union {y}) = Cardinality({x}) + 1
    BY <1>1, <1>2, FS_AddElement
  <2> QED
    BY <1>1, <1>3, <2>1
<1>5. IsFiniteSet({x, y, z}) /\ Cardinality({x, y, z}) = Cardinality({x, y}) + 1
  <2>1. /\ IsFiniteSet({x, y} \union {z})
        /\ Cardinality({x, y} \union {z}) = Cardinality({x, y}) + 1
    BY <1>2, <1>4, FS_AddElement
  <2> QED
    BY <1>3, <2>1
<1> QED
  BY <1>4, <1>5

\* Nine outputs among which each of three strides has each of three kinds have
\* it once: a map of nine things onto nine is one-to-one.
LEMMA NineOfNine ==
  ASSUME NEW file \in [1..9 -> Scrfd!Strides \X Scrfd!Kinds],
         \A t \in Scrfd!Strides \X Scrfd!Kinds : \E m \in 1..9 : file[m] = t
  PROVE  \A m, n \in 1..9 : file[m] = file[n] => m = n
<1>1. IsFiniteSet(1..9) /\ Cardinality(1..9) = 9
  <2>1. ASSUME NEW m \in Nat \ {0}
        PROVE  IsFiniteSet(1..m) /\ Cardinality(1..m) = m
    BY FS_Interval
  <2>2. 9 \in Nat \ {0}
    OBVIOUS
  <2> QED
    BY <2>1, <2>2, Zenon
<1>2. /\ IsFiniteSet(Scrfd!Strides) /\ Cardinality(Scrfd!Strides) = 3
      /\ IsFiniteSet(Scrfd!Kinds) /\ Cardinality(Scrfd!Kinds) = 3
  BY ThreeElements DEF Scrfd!Strides, Scrfd!Kinds
<1>3. Cardinality(Scrfd!Strides \X Scrfd!Kinds) = 9
  BY <1>2, FS_Product
<1>4. file \in Surjection(1..9, Scrfd!Strides \X Scrfd!Kinds)
  BY DEF Surjection
<1>5. file \in Injection(1..9, Scrfd!Strides \X Scrfd!Kinds)
  BY <1>1, <1>3, <1>4, FS_Surjection
<1> QED
  BY <1>5 DEF Injection, IsInjective

\* The outputs that are filed are one of each.
LEMMA OneOfEach ==
  ASSUME Scrfd!Lists, Scrfd!AllFiled
  PROVE  Scrfd!OutputsOneOfEach
<1> SUFFICES ASSUME scrfd_pc \notin {"organize", "error"}
             PROVE  \A m, n \in DOMAIN blobs :
                      /\ Scrfd!Known(blobs[n])
                      /\ Scrfd!Filed(blobs[m]) = Scrfd!Filed(blobs[n]) => m = n
  BY DEF Scrfd!OutputsOneOfEach
<1> DEFINE file == [m \in 1..9 |-> Scrfd!Filed(blobs[m])]
<1>1. DOMAIN blobs = 1..9
  BY DEF Scrfd!Lists
<1>2. \A m \in 1..9 : Scrfd!Known(blobs[m])
  BY <1>1 DEF Scrfd!AllFiled
<1>3. Scrfd!Complete(blobs)
  BY DEF Scrfd!AllFiled
<1>4. ASSUME NEW m \in 1..9
      PROVE  Scrfd!Filed(blobs[m]) \in Scrfd!Strides \X Scrfd!Kinds
  <2>1. Scrfd!StrideFor(blobs[m][1]) \in Scrfd!Strides
    BY <1>2, StrideKnown DEF Scrfd!Known
  <2>2. blobs[m][2] \in Scrfd!Kinds
    BY <1>2 DEF Scrfd!Known
  <2> QED
    BY <2>1, <2>2 DEF Scrfd!Filed
<1>5. file \in [1..9 -> Scrfd!Strides \X Scrfd!Kinds]
  BY <1>4
<1>6. ASSUME NEW t \in Scrfd!Strides \X Scrfd!Kinds
      PROVE  \E m \in 1..9 : file[m] = t
  <2>1. PICK s \in Scrfd!Strides, d \in Scrfd!Kinds : t = <<s, d>>
    OBVIOUS
  <2>2. PICK m \in 1..9 : Scrfd!Filed(blobs[m]) = <<s, d>>
    BY <1>1, <1>3 DEF Scrfd!Complete
  <2> QED
    BY <2>1, <2>2
<1>7. \A m, n \in 1..9 : file[m] = file[n] => m = n
  <2> HIDE DEF file
  <2> QED
    BY <1>5, <1>6, NineOfNine
<1> QED
  BY <1>1, <1>2, <1>7

-----------------------------------------------------------------------------
(* ScrfdDecode: the lists                                                  *)

\* What is seen has numbers, and integer scores when the scores are finite.
LEMMA SeenAreNumbers ==
  ASSUME Scrfd!Lists, NEW c \in Scrfd!Seen
  PROVE  /\ c.x1 \in Scrfd!Number /\ c.y1 \in Scrfd!Number
         /\ c.x2 \in Scrfd!Number /\ c.y2 \in Scrfd!Number
         /\ c.lx \in Scrfd!Number /\ c.ly \in Scrfd!Number
         /\ c.score \in Scrfd!Number
         /\ Scrfd!ScoresFinite => c.score \in Int
<1>1. PICK r \in input : c = Scrfd!Candidate(r)
  BY DEF Scrfd!Seen
<1>2. r \in Scrfd!TensorRow
  BY <1>1, ScrfdAssumption DEF Scrfd!ScrfdAssumption, Scrfd!Lists
<1>3. c.score \in Scrfd!Number
  BY <1>1, <1>2, CandidatesAreNumbers
<1>4. Scrfd!ScoresFinite => c.score # NotANumber
  BY DEF Scrfd!ScoresFinite
<1>5. Scrfd!ScoresFinite => c.score \in Int
  BY <1>3, <1>4 DEF Scrfd!Number
<1> QED
  BY <1>1, <1>2, <1>3, <1>5, CandidatesAreNumbers

\* A list of the rows that score, each once and as long as there are rows, has
\* every one of them.
LEMMA ListedOnceIsListed ==
  ASSUME NEW S, IsFiniteSet(S),
         NEW order \in [1..Cardinality(S) -> S],
         \A m, n \in DOMAIN order : order[m] = order[n] => m = n
  PROVE  \A r \in S : \E m \in 1..Cardinality(S) : order[m] = r
<1>1. Cardinality(S) \in Nat
  BY FS_CardinalityType
<1>2. Cardinality(1..Cardinality(S)) = Cardinality(S)
  <2>1. ASSUME NEW m \in Nat PROVE Cardinality(1..m) = m
    BY FS_Interval
  <2> QED
    BY <1>1, <2>1, Zenon
<1>3. order \in Injection(1..Cardinality(S), S)
  BY DEF Injection, IsInjective
<1>4. order \in Surjection(1..Cardinality(S), S)
  BY <1>2, <1>3, FS_Injection
<1> QED
  BY <1>4 DEF Surjection

\* sort puts all that was seen in the list, in descending order.
LEMMA SortListsAll ==
  ASSUME Scrfd!Lists, Scrfd!Sort
  PROVE  /\ candidates' \in Seq(Scrfd!Seen)
         /\ \A c \in Scrfd!Seen : \E n \in DOMAIN candidates' : candidates'[n] = c
         /\ Scrfd!ScoresFinite =>
              \A m, n \in DOMAIN candidates' :
                m < n => candidates'[m].score >= candidates'[n].score
<1> DEFINE chosen == {r \in input : Scrfd!Selected(r)}
<1>1. IsFiniteSet(chosen)
  <2>1. IsFiniteSet(DetectorRows) /\ chosen \subseteq DetectorRows
    BY ScrfdAssumption, ScrfdCounted DEF Scrfd!ScrfdAssumption, Scrfd!Lists
  <2> QED
    BY <2>1, FS_Subset
<1>2. Scrfd!Seen = {Scrfd!Candidate(r) : r \in chosen}
  BY DEF Scrfd!Seen
<1>3. PICK order \in [1..Cardinality(chosen) -> chosen] :
         /\ \A m, n \in DOMAIN order : order[m] = order[n] => m = n
         /\ candidates' = [n \in DOMAIN order |-> Scrfd!Candidate(order[n])]
  BY ScrfdCounted DEF Scrfd!Sort
<1> HIDE DEF chosen
<1>4. \A r \in chosen : \E m \in 1..Cardinality(chosen) : order[m] = r
  BY <1>1, <1>3, ListedOnceIsListed
<1>5. Cardinality(chosen) \in Nat
  BY <1>1, FS_CardinalityType
<1>6. /\ DOMAIN candidates' = 1..Cardinality(chosen)
      /\ \A n \in 1..Cardinality(chosen) :
           /\ candidates'[n] = Scrfd!Candidate(order[n])
           /\ candidates'[n] \in Scrfd!Seen
  BY <1>2, <1>3
<1>7. candidates' \in Seq(Scrfd!Seen)
  <2>1. candidates' \in [1..Cardinality(chosen) -> Scrfd!Seen]
    BY <1>3, <1>6
  <2> QED
    BY <1>5, <2>1
<1>8. \A c \in Scrfd!Seen : \E n \in DOMAIN candidates' : candidates'[n] = c
  BY <1>2, <1>4, <1>6
<1>9. ASSUME Scrfd!ScoresFinite, NEW m \in DOMAIN candidates',
             NEW n \in DOMAIN candidates', m < n
      PROVE  candidates'[m].score >= candidates'[n].score
  <2>1. \A e \in DOMAIN candidates' : candidates'[e].score \in Int
    BY <1>6, <1>9, SeenAreNumbers
  <2>2. NotANumber \notin Int
    BY ScrfdAssumption DEF Scrfd!ScrfdAssumption
  <2>3. ~ Scrfd!Less(candidates'[m].score, candidates'[n].score)
    BY <1>9, <2>1, <2>2 DEF Scrfd!Sort, Scrfd!Sorted
  <2> QED
    BY <2>1, <2>2, <2>3 DEF Scrfd!Less
<1> QED
  BY <1>7, <1>8, <1>9

\* What is seen does not change.
LEMMA SeenStays ==
  ASSUME input' = input
  PROVE  /\ Scrfd!Seen' = Scrfd!Seen
         /\ Scrfd!ScoresFinite' <=> Scrfd!ScoresFinite
<1>1. Scrfd!Seen' = Scrfd!Seen
  BY DEF Scrfd!Seen
<1> QED
  BY <1>1 DEF Scrfd!ScoresFinite

\* The lists are filled and emptied in turn.
LEMMA ListsStep ==
  ASSUME Scrfd!Lists, Scrfd!Next
  PROVE  Scrfd!Lists'
<1>1. input' = input
  BY DEF Scrfd!Next, Scrfd!Organize, Scrfd!Sort, Scrfd!Nms, Scrfd!NmsEnds,
         Scrfd!Map, Scrfd!Ended, Scrfd!vars
<1>2. Scrfd!Seen' = Scrfd!Seen
  BY <1>1, SeenStays
<1>3. CASE Scrfd!Organize
  BY <1>2, <1>3 DEF Scrfd!Organize, Scrfd!Lists
<1>4. CASE Scrfd!Sort
  <2>1. candidates' \in Seq(Scrfd!Seen)
    BY <1>4, SortListsAll
  <2> QED
    BY <1>2, <1>4, <2>1 DEF Scrfd!Sort, Scrfd!Lists
<1>5. CASE Scrfd!Nms
  <2>1. candidates \in Seq(Scrfd!Seen) /\ candidates # <<>> /\ kept \in Seq(Scrfd!Seen)
    BY <1>5 DEF Scrfd!Nms, Scrfd!Lists
  <2>2. Head(candidates) \in Scrfd!Seen /\ Tail(candidates) \in Seq(Scrfd!Seen)
    BY <2>1
  <2>3. Append(kept, Head(candidates)) \in Seq(Scrfd!Seen)
    BY <2>1, <2>2
  <2> QED
    BY <1>2, <1>5, <2>1, <2>2, <2>3 DEF Scrfd!Nms, Scrfd!Lists
<1>6. CASE Scrfd!NmsEnds
  BY <1>2, <1>6 DEF Scrfd!NmsEnds, Scrfd!Lists
<1>7. CASE Scrfd!Map
  BY <1>2, <1>7 DEF Scrfd!Map, Scrfd!Lists
<1>8. CASE Scrfd!Ended
  BY <1>2, <1>8 DEF Scrfd!Ended, Scrfd!vars, Scrfd!Lists
<1> QED
  BY <1>3, <1>4, <1>5, <1>6, <1>7, <1>8 DEF Scrfd!Next

\* Only organize_outputs lets the outputs through.
LEMMA AllFiledStep ==
  ASSUME Scrfd!Lists, Scrfd!AllFiled, Scrfd!Next
  PROVE  Scrfd!AllFiled'
<1>1. blobs' = blobs
  BY DEF Scrfd!Next, Scrfd!Organize, Scrfd!Sort, Scrfd!Nms, Scrfd!NmsEnds,
         Scrfd!Map, Scrfd!Ended, Scrfd!vars
<1>2. \/ scrfd_pc = "organize"
           /\ (scrfd_pc' # "error" =>
                 (\A m \in DOMAIN blobs : Scrfd!Known(blobs[m])) /\ Scrfd!Complete(blobs))
      \/ scrfd_pc \notin {"organize", "error"}
      \/ scrfd_pc' = scrfd_pc
  BY DEF Scrfd!Next, Scrfd!Organize, Scrfd!Sort, Scrfd!Nms, Scrfd!NmsEnds,
         Scrfd!Map, Scrfd!Ended, Scrfd!vars
<1>3. scrfd_pc' \notin {"organize", "error"} =>
        (\A m \in DOMAIN blobs : Scrfd!Known(blobs[m])) /\ Scrfd!Complete(blobs)
  BY <1>2 DEF Scrfd!AllFiled
<1> QED
  BY <1>1, <1>3 DEF Scrfd!AllFiled

\* The detections are made in one step, from boxes of numbers.
LEMMA InsideStep ==
  ASSUME Scrfd!Lists, Scrfd!InsideThePicture, Scrfd!Next
  PROVE  Scrfd!InsideThePicture'
<1>1. CASE Scrfd!Map
  <2> SUFFICES ASSUME NEW d \in result'
               PROVE  /\ d.x1 \in 0..(FrameW - 1) /\ d.x2 \in 0..(FrameW - 1)
                      /\ d.x1 < d.x2
                      /\ d.y1 \in 0..(FrameH - 1) /\ d.y2 \in 0..(FrameH - 1)
                      /\ d.y1 < d.y2
                      /\ d.lx \in 0..(FrameW - 1) /\ d.ly \in 0..(FrameH - 1)
    BY DEF Scrfd!InsideThePicture
  <2>1. PICK n \in DOMAIN kept : d = Scrfd!ToFrame(kept[n]) /\ Scrfd!NotCollapsed(d)
    BY <1>1 DEF Scrfd!Map
  <2>2. kept[n] \in Scrfd!Seen
    BY <2>1 DEF Scrfd!Lists
  <2> QED
    BY <2>1, <2>2, SeenAreNumbers, ToFrameInside
<1>2. CASE ~ Scrfd!Map
  <2>1. result' = result
    BY <1>2 DEF Scrfd!Next, Scrfd!Organize, Scrfd!Sort, Scrfd!Nms, Scrfd!NmsEnds,
                Scrfd!Ended, Scrfd!vars
  <2> QED
    BY <2>1 DEF Scrfd!InsideThePicture
<1> QED
  BY <1>1, <1>2

-----------------------------------------------------------------------------
(* ScrfdDecode: nms                                                        *)

\* A turn of the loop takes the first candidate off the list and may keep it.
LEMMA NmsTurn ==
  ASSUME Scrfd!Lists, Scrfd!Nms
  PROVE  /\ 1 \in DOMAIN candidates /\ candidates[1] \in Scrfd!Seen
         /\ DOMAIN candidates = 1..Len(candidates) /\ Len(candidates) \in Nat
         /\ DOMAIN candidates' = 1..(Len(candidates) - 1)
         /\ \A n \in DOMAIN candidates' : /\ n + 1 \in DOMAIN candidates
                                          /\ candidates'[n] = candidates[n + 1]
         /\ DOMAIN kept = 1..Len(kept) /\ Len(kept) \in Nat
         /\ \A n \in DOMAIN kept : n \in DOMAIN kept' /\ kept'[n] = kept[n]
         /\ \/ Scrfd!Suppressed(candidates[1]) /\ kept' = kept
            \/ /\ ~ Scrfd!Suppressed(candidates[1])
               /\ DOMAIN kept' = 1..(Len(kept) + 1)
               /\ kept'[Len(kept) + 1] = candidates[1]
<1>1. /\ candidates \in Seq(Scrfd!Seen) /\ candidates # <<>>
      /\ kept \in Seq(Scrfd!Seen) /\ candidates' = Tail(candidates)
      /\ kept' = IF Scrfd!Suppressed(Head(candidates)) THEN kept
                 ELSE Append(kept, Head(candidates))
  BY DEF Scrfd!Nms, Scrfd!Lists
<1>2. /\ Len(candidates) \in Nat \ {0} /\ DOMAIN candidates = 1..Len(candidates)
      /\ Len(kept) \in Nat /\ DOMAIN kept = 1..Len(kept)
  BY <1>1, EmptySeq, LenProperties
<1>3. Head(candidates) = candidates[1]
  BY <1>1
<1>4. /\ candidates' \in Seq(Scrfd!Seen) /\ Len(candidates') = Len(candidates) - 1
      /\ \A n \in 1..Len(candidates') : candidates'[n] = candidates[n + 1]
      /\ candidates[1] \in Scrfd!Seen
  BY <1>1, <1>3, HeadTailProperties
<1>5. DOMAIN candidates' = 1..(Len(candidates) - 1)
  BY <1>4, LenProperties
<1>6. CASE Scrfd!Suppressed(candidates[1])
  BY <1>1, <1>2, <1>3, <1>4, <1>5, <1>6
<1>7. CASE ~ Scrfd!Suppressed(candidates[1])
  <2>1. kept' = Append(kept, candidates[1])
    BY <1>1, <1>3, <1>7
  <2>2. /\ kept' \in Seq(Scrfd!Seen) /\ Len(kept') = Len(kept) + 1
        /\ \A n \in 1..Len(kept) : kept'[n] = kept[n]
        /\ kept'[Len(kept) + 1] = candidates[1]
    BY <1>1, <1>4, <2>1, AppendProperties
  <2>3. DOMAIN kept' = 1..(Len(kept) + 1)
    BY <2>2, LenProperties
  <2> QED
    BY <1>2, <1>4, <1>5, <1>7, <2>2, <2>3
<1> QED
  BY <1>6, <1>7

\* A kept box is one that overlaps none kept before it.
LEMMA ApartStep ==
  ASSUME Scrfd!Lists, Scrfd!Apart, Scrfd!Next
  PROVE  Scrfd!Apart'
<1>1. CASE Scrfd!Nms
  <2> SUFFICES ASSUME NEW m \in DOMAIN kept', NEW n \in DOMAIN kept', m < n
               PROVE  ~ Scrfd!Overlap(kept'[n], kept'[m])
    BY DEF Scrfd!Apart, Scrfd!Overlap, Scrfd!Iou
  <2>1. CASE n \in DOMAIN kept
    <3>1. m \in DOMAIN kept /\ kept'[m] = kept[m] /\ kept'[n] = kept[n]
      BY <1>1, <2>1, NmsTurn
    <3> QED
      BY <3>1, <2>1 DEF Scrfd!Apart
  <2>2. CASE n \notin DOMAIN kept
    <3>1. /\ ~ Scrfd!Suppressed(candidates[1]) /\ kept'[n] = candidates[1]
          /\ m \in DOMAIN kept /\ kept'[m] = kept[m]
      BY <1>1, <2>2, NmsTurn
    <3> QED
      BY <3>1 DEF Scrfd!Suppressed
  <2> QED
    BY <2>1, <2>2
<1>2. CASE ~ Scrfd!Nms
  <2>1. kept' = kept
    BY <1>2 DEF Scrfd!Next, Scrfd!Organize, Scrfd!Sort, Scrfd!NmsEnds,
                Scrfd!Map, Scrfd!Ended, Scrfd!vars
  <2> QED
    BY <2>1 DEF Scrfd!Apart
<1> QED
  BY <1>1, <1>2

\* Taking the first of a descending list and keeping it leaves the list
\* descending, and below what is kept.
LEMMA InOrderStep ==
  ASSUME Scrfd!Lists, Scrfd!InOrder, Scrfd!Next
  PROVE  Scrfd!InOrder'
<1>1. input' = input
  BY DEF Scrfd!Next, Scrfd!Organize, Scrfd!Sort, Scrfd!Nms, Scrfd!NmsEnds,
         Scrfd!Map, Scrfd!Ended, Scrfd!vars
<1> SUFFICES ASSUME Scrfd!ScoresFinite
             PROVE  /\ \A m, n \in DOMAIN candidates' :
                         m < n => candidates'[m].score >= candidates'[n].score
                    /\ \A m \in DOMAIN kept', n \in DOMAIN candidates' :
                         kept'[m].score >= candidates'[n].score
  BY <1>1, SeenStays DEF Scrfd!InOrder
<1>2. /\ \A m, n \in DOMAIN candidates :
           m < n => candidates[m].score >= candidates[n].score
      /\ \A m \in DOMAIN kept, n \in DOMAIN candidates :
           kept[m].score >= candidates[n].score
  BY DEF Scrfd!InOrder
<1>3. CASE Scrfd!Sort
  <2>1. kept' = <<>>
    BY <1>3 DEF Scrfd!Sort, Scrfd!Lists
  <2> QED
    BY <1>3, <2>1, SortListsAll
<1>4. CASE Scrfd!Nms
  <2>1. ASSUME NEW m \in DOMAIN candidates', NEW n \in DOMAIN candidates', m < n
        PROVE  candidates'[m].score >= candidates'[n].score
    <3>1. /\ m + 1 \in DOMAIN candidates /\ candidates'[m] = candidates[m + 1]
          /\ n + 1 \in DOMAIN candidates /\ candidates'[n] = candidates[n + 1]
          /\ m + 1 < n + 1
      BY <1>4, <2>1, NmsTurn
    <3> QED
      BY <1>2, <3>1
  <2>2. ASSUME NEW m \in DOMAIN kept', NEW n \in DOMAIN candidates'
        PROVE  kept'[m].score >= candidates'[n].score
    <3>1. /\ n + 1 \in DOMAIN candidates /\ candidates'[n] = candidates[n + 1]
          /\ 1 \in DOMAIN candidates /\ 1 < n + 1
      BY <1>4, <2>2, NmsTurn
    <3>2. \/ m \in DOMAIN kept /\ kept'[m] = kept[m]
          \/ kept'[m] = candidates[1]
      BY <1>4, <2>2, NmsTurn
    <3> QED
      BY <1>2, <3>1, <3>2
  <2> QED
    BY <2>1, <2>2
<1>5. CASE ~ Scrfd!Sort /\ ~ Scrfd!Nms
  <2>1. candidates' = candidates /\ kept' = kept
    BY <1>5 DEF Scrfd!Next, Scrfd!Organize, Scrfd!NmsEnds,
                Scrfd!Map, Scrfd!Ended, Scrfd!vars
  <2> QED
    BY <1>2, <2>1
<1> QED
  BY <1>3, <1>4, <1>5

\* A box leaves the list only when it is kept or overlaps one kept before it,
\* which scores at least as high because of the order.
LEMMA NoneForgottenStep ==
  ASSUME Scrfd!Lists, Scrfd!InOrder, Scrfd!NoneForgotten, Scrfd!Next
  PROVE  Scrfd!NoneForgotten'
<1>1. input' = input
  BY DEF Scrfd!Next, Scrfd!Organize, Scrfd!Sort, Scrfd!Nms, Scrfd!NmsEnds,
         Scrfd!Map, Scrfd!Ended, Scrfd!vars
<1> SUFFICES ASSUME Scrfd!ScoresFinite, NEW c \in Scrfd!Seen,
                    scrfd_pc' \in {"nms", "map", "done"}
             PROVE  \/ \E n \in DOMAIN candidates' : candidates'[n] = c
                    \/ \E n \in DOMAIN kept' : kept'[n] = c
                    \/ \E n \in DOMAIN kept' : /\ Scrfd!Overlap(c, kept'[n])
                                               /\ kept'[n].score >= c.score
  BY <1>1, SeenStays DEF Scrfd!NoneForgotten, Scrfd!Overlap, Scrfd!Iou
<1>2. CASE Scrfd!Sort
  BY <1>2, SortListsAll
<1>3. CASE ~ Scrfd!Sort
  <2>1. scrfd_pc \in {"nms", "map", "done"}
    BY <1>3 DEF Scrfd!Next, Scrfd!Organize, Scrfd!Nms, Scrfd!NmsEnds,
                Scrfd!Map, Scrfd!Ended, Scrfd!vars
  <2>2. \/ \E n \in DOMAIN candidates : candidates[n] = c
        \/ \E n \in DOMAIN kept : kept[n] = c
        \/ \E n \in DOMAIN kept : /\ Scrfd!Overlap(c, kept[n])
                                  /\ kept[n].score >= c.score
    BY <2>1 DEF Scrfd!NoneForgotten
  <2>3. CASE ~ Scrfd!Nms
    <3>1. candidates' = candidates /\ kept' = kept
      BY <1>3, <2>3 DEF Scrfd!Next, Scrfd!Organize, Scrfd!NmsEnds,
                        Scrfd!Map, Scrfd!Ended, Scrfd!vars
    <3> QED
      BY <2>2, <3>1
  <2>4. CASE Scrfd!Nms
    <3>1. \A n \in DOMAIN kept : n \in DOMAIN kept' /\ kept'[n] = kept[n]
      BY <2>4, NmsTurn
    <3>2. CASE \E n \in DOMAIN kept : kept[n] = c
      BY <3>1, <3>2
    <3>3. CASE \E n \in DOMAIN kept : /\ Scrfd!Overlap(c, kept[n])
                                      /\ kept[n].score >= c.score
      BY <3>1, <3>3
    <3>4. ASSUME NEW n \in DOMAIN candidates, candidates[n] = c, n # 1
          PROVE  \E m \in DOMAIN candidates' : candidates'[m] = c
      <4>1. n - 1 \in DOMAIN candidates' /\ (n - 1) + 1 = n
        BY <2>4, <3>4, NmsTurn
      <4> QED
        BY <2>4, <3>4, <4>1, NmsTurn
    <3>5. CASE candidates[1] = c /\ Scrfd!Suppressed(c)
      <4>1. PICK n \in DOMAIN kept : Scrfd!Overlap(c, kept[n])
        BY <3>5 DEF Scrfd!Suppressed
      <4>2. kept[n].score >= c.score
        BY <2>4, <3>5, NmsTurn DEF Scrfd!InOrder
      <4> QED
        BY <3>1, <4>1, <4>2
    <3>6. CASE candidates[1] = c /\ ~ Scrfd!Suppressed(c)
      <4>1. /\ Len(kept) + 1 \in DOMAIN kept' /\ kept'[Len(kept) + 1] = c
        BY <2>4, <3>6, NmsTurn
      <4> QED
        BY <4>1
    <3> QED
      BY <2>2, <3>2, <3>3, <3>4, <3>5, <3>6
  <2> QED
    BY <2>3, <2>4
<1> QED
  BY <1>2, <1>3

-----------------------------------------------------------------------------
(* ScrfdDecode: the invariant                                              *)

\* The invariant holds at first: nine outputs, one of them perhaps another.
LEMMA ScrfdInit ==
  ASSUME Scrfd!Init
  PROVE  Scrfd!ScrfdInvariant
<1>1. DOMAIN Scrfd!AllKinds = 1..9
  BY DEF Scrfd!AllKinds
<1>2. DOMAIN blobs = 1..9
  BY <1>1 DEF Scrfd!Init, Scrfd!Outputs
<1>3. <<>> \in Seq(Scrfd!Seen)
  BY EmptySeq
<1>4. Scrfd!Lists
  BY <1>2, <1>3 DEF Scrfd!Init, Scrfd!Lists
<1>5. Scrfd!AllFiled /\ Scrfd!InsideThePicture /\ Scrfd!NoneForgotten
  BY DEF Scrfd!Init, Scrfd!AllFiled, Scrfd!InsideThePicture, Scrfd!NoneForgotten
<1>6. Scrfd!Apart /\ Scrfd!InOrder
  BY DEF Scrfd!Init, Scrfd!Apart, Scrfd!InOrder
<1> QED
  BY <1>4, <1>5, <1>6 DEF Scrfd!ScrfdInvariant

\* Every step keeps the invariant.
LEMMA ScrfdStep ==
  ASSUME Scrfd!ScrfdInvariant, Scrfd!Next
  PROVE  Scrfd!ScrfdInvariant'
  BY ListsStep, AllFiledStep, InsideStep, ApartStep, InOrderStep,
     NoneForgottenStep DEF Scrfd!ScrfdInvariant

\* So does a step of another component.
LEMMA ScrfdStutters ==
  ASSUME Scrfd!ScrfdInvariant, UNCHANGED scrfdVars
  PROVE  Scrfd!ScrfdInvariant'
<1> USE DEF scrfdVars
<1>1. Scrfd!Seen' = Scrfd!Seen /\ (Scrfd!ScoresFinite' <=> Scrfd!ScoresFinite)
  BY SeenStays
<1>2. Scrfd!Lists'
  BY <1>1 DEF Scrfd!ScrfdInvariant, Scrfd!Lists
<1>3. Scrfd!AllFiled' /\ Scrfd!InsideThePicture' /\ Scrfd!Apart'
  BY DEF Scrfd!ScrfdInvariant, Scrfd!AllFiled, Scrfd!InsideThePicture, Scrfd!Apart
<1>4. Scrfd!InOrder' /\ Scrfd!NoneForgotten'
  BY <1>1 DEF Scrfd!ScrfdInvariant, Scrfd!InOrder, Scrfd!NoneForgotten
<1> QED
  BY <1>2, <1>3, <1>4 DEF Scrfd!ScrfdInvariant

\* What the detector promises follows.
LEMMA ScrfdSound ==
  ASSUME Scrfd!ScrfdInvariant
  PROVE  Scrfd!OutputsOneOfEach /\ Scrfd!InsideThePicture /\ Scrfd!NmsSound
<1>1. scrfd_pc \in {"map", "done"} => candidates = <<>>
  BY DEF Scrfd!ScrfdInvariant, Scrfd!Lists
<1>2. Scrfd!NmsSound
  BY <1>1 DEF Scrfd!ScrfdInvariant, Scrfd!Apart, Scrfd!NoneForgotten, Scrfd!NmsSound
<1> QED
  BY <1>2, OneOfEach DEF Scrfd!ScrfdInvariant

-----------------------------------------------------------------------------
(* The frames                                                              *)

\* Every result of the detector, the liveness model and the recogniser is of the
\* frame and the face it was asked about, nothing is used before it is made, and
\* the caches, the copies and the flushes keep their order: for any number of
\* textures, cameras, frames, faces and cache entries.  And decode and nms make
\* of any rows of any model's outputs, finite or not, boxes inside the picture of
\* which no two overlap too much, dropping none without a better one for it.
THEOREM FramesAreSound == Spec => []FramesSound
<1> DEFINE Inv == /\ component = "gpu" => Gpu!GpuInvariant
                  /\ component = "scrfd" => Scrfd!ScrfdInvariant
<1>1. Init => Inv
  BY GpuInit, ScrfdInit DEF Init
<1>2. Inv /\ [Next]_vars => Inv'
  <2> SUFFICES ASSUME Inv, [Next]_vars
               PROVE  Inv'
    OBVIOUS
  <2>1. CASE component = "gpu" /\ Gpu!Next /\ component' = component
    BY <2>1, GpuStep
  <2>2. CASE component = "scrfd" /\ Scrfd!Next /\ component' = component
    BY <2>2, ScrfdStep
  <2>3. CASE UNCHANGED <<component, gpuVars, scrfdVars>>
    BY <2>3, GpuStutters, ScrfdStutters
  <2>4. component' # "gpu" \/ component' # "scrfd"
    OBVIOUS
  <2> QED
    BY <2>1, <2>2, <2>3, <2>4 DEF Next, vars
<1>3. Inv => FramesSound
  BY UsedIsMade, ScrfdSound DEF FramesSound, Gpu!GpuInvariant
<1> QED
  BY <1>1, <1>2, <1>3, PTL DEF Spec

-----------------------------------------------------------------------------
(* FormatSelector                                                          *)

\* The count of an instance is the count.
LEMMA CountedAlike == \A S : Format!Cardinality(S) = Cardinality(S)
  BY DEF Format!Cardinality, Cardinality

\* A score is a triple of numbers.
LEMMA ScoresAreNumbers ==
  ASSUME NEW f \in Offers
  PROVE  /\ Format!Score(f)[1] \in Nat /\ Format!Score(f)[2] \in Nat
         /\ Format!Score(f)[3] \in Nat /\ Format!fps_error(f) \in Nat
         /\ Format!Score(f)[1] = Format!fps_error(f)
<1>1. f.rate \in Nat /\ Wanted \in Nat
  BY FormatAssumption DEF Format!OffersAssumption
<1>2. Format!fps_error(f) \in Nat
  BY <1>1 DEF Format!fps_error, Format!Distance
<1>3. Format!stream_rank(f.stream) \in Nat
  BY DEF Format!stream_rank
<1>4. Format!subtype_rank(f.subtype) \in Nat
  BY DEF Format!subtype_rank
<1> QED
  BY <1>2, <1>3, <1>4 DEF Format!Score

\* Where no rates are a near tie, the code's order is the lexicographic one.
LEMMA BetterIsLexicographic ==
  ASSUME NEW f \in Offers, NEW g \in Offers,
         \/ Format!fps_error(f) = Format!fps_error(g)
         \/ Format!Distance(Format!fps_error(f), Format!fps_error(g)) >= TieEpsilon
  PROVE  Format!is_better_candidate(Format!Score(f), Format!Score(g))
           <=> Format!Lexicographic(Format!Score(f), Format!Score(g))
<1> DEFINE c == Format!Score(f)
           h == Format!Score(g)
<1>1. /\ c[1] \in Nat /\ c[2] \in Nat /\ c[3] \in Nat
      /\ h[1] \in Nat /\ h[2] \in Nat /\ h[3] \in Nat
      /\ c[1] = Format!fps_error(f) /\ h[1] = Format!fps_error(g)
  BY ScoresAreNumbers
<1>2. TieEpsilon \in Nat \ {0}
  BY FormatAssumption DEF Format!OffersAssumption
<1> HIDE DEF c, h
<1>3. Format!is_better_candidate(c, h) <=> Format!Lexicographic(c, h)
  BY <1>1, <1>2 DEF Format!is_better_candidate, Format!Lexicographic, Format!Distance
<1> QED
  BY <1>3 DEF c, h

\* A mode that replaces another is worse in its error by less than an epsilon.
LEMMA BetterWithinEpsilon ==
  ASSUME NEW f \in Offers, NEW g \in Offers,
         Format!is_better_candidate(Format!Score(f), Format!Score(g))
  PROVE  Format!fps_error(f) <= Format!fps_error(g) + (TieEpsilon - 1)
<1>1. /\ Format!Score(f)[1] \in Nat /\ Format!Score(g)[1] \in Nat
      /\ Format!Score(f)[1] = Format!fps_error(f)
      /\ Format!Score(g)[1] = Format!fps_error(g)
  BY ScoresAreNumbers
<1>2. TieEpsilon \in Nat \ {0}
  BY FormatAssumption DEF Format!OffersAssumption
<1> QED
  BY <1>1, <1>2 DEF Format!is_better_candidate, Format!Distance

\* A mode that does not replace another is no better in its error.
LEMMA NotBetterNotLess ==
  ASSUME NEW f \in Offers, NEW g \in Offers,
         ~ Format!is_better_candidate(Format!Score(f), Format!Score(g))
  PROVE  Format!fps_error(g) <= Format!fps_error(f)
<1>1. /\ Format!Score(f)[1] \in Nat /\ Format!Score(g)[1] \in Nat
      /\ Format!Score(f)[1] = Format!fps_error(f)
      /\ Format!Score(g)[1] = Format!fps_error(g)
  BY ScoresAreNumbers
<1> QED
  BY <1>1 DEF Format!is_better_candidate

\* The step of the bound in DriftSoFar.
LEMMA OneMoreEpsilon ==
  ASSUME NEW t \in Nat, NEW n \in Nat \ {0}
  PROVE  /\ t * ((n + 1) - 1) = t * (n - 1) + t
         /\ t * (n - 1) \in Nat /\ t * n \in Nat
  OBVIOUS

\* The entry the loop looks at joins the considered ones if it is usable.
LEMMA OneMoreConsidered ==
  ASSUME Format!ScanTypes, format_pc = "scan", k <= Len(listed),
         UNCHANGED <<listed, request>>, k' = k + 1
  PROVE  /\ Format!Usable' = Format!Usable
         /\ Format!Considered' = IF Format!Eligible(listed[k])
                                 THEN Format!Considered \cup {k}
                                 ELSE Format!Considered
         /\ k \notin Format!Considered
         /\ IsFiniteSet(Format!Considered)
         /\ Format!Eligible(listed[k]) =>
              Cardinality(Format!Considered') = Cardinality(Format!Considered) + 1
<1>1. Len(listed) \in Nat /\ k \in 1..Len(listed) /\ k \in Nat
  BY DEF Format!ScanTypes
<1>2. Format!Usable' = Format!Usable
  BY DEF Format!Usable, Format!Eligible
<1>3. Format!Considered' = IF Format!Eligible(listed[k])
                           THEN Format!Considered \cup {k} ELSE Format!Considered
  BY <1>1, <1>2 DEF Format!Considered, Format!Usable
<1>4. k \notin Format!Considered
  BY <1>1 DEF Format!Considered
<1>5. IsFiniteSet(Format!Considered)
  <2>1. IsFiniteSet(1..Len(listed))
    BY <1>1, FS_Interval
  <2>2. Format!Considered \subseteq 1..Len(listed)
    BY DEF Format!Considered, Format!Usable
  <2> QED
    BY <2>1, <2>2, FS_Subset
<1>6. Cardinality(Format!Considered \cup {k}) = Cardinality(Format!Considered) + 1
  BY <1>4, <1>5, FS_AddElement
<1> QED
  BY <1>2, <1>3, <1>4, <1>5, <1>6

\* The parts of the invariant are functions of what they read.
LEMMA ScanTypesStep ==
  ASSUME Format!ScanTypes, Format!Next
  PROVE  Format!ScanTypes'
  BY DEF Format!ScanTypes, Format!Next, Format!Skip, Format!Compare,
         Format!Select, Format!Ended, Format!vars

\* The best so far is usable, or there is none.
LEMMA BestStep ==
  ASSUME Format!ScanTypes, Format!BestOfConsidered, Format!Next
  PROVE  Format!BestOfConsidered'
<1> USE DEF Format!BestOfConsidered
<1>1. CASE Format!Skip
  <2>1. Format!Considered' = Format!Considered
    BY <1>1, OneMoreConsidered DEF Format!Skip
  <2> QED
    BY <1>1, <2>1 DEF Format!Skip
<1>2. CASE Format!Compare
  <2>1. Format!Considered' = Format!Considered \cup {k} /\ k \in Nat \ {0}
    BY <1>2, OneMoreConsidered DEF Format!Compare, Format!ScanTypes
  <2> QED
    BY <1>2, <2>1 DEF Format!Compare
<1>3. CASE Format!Select
  <2>1. Format!Considered' = Format!Considered
    BY <1>3 DEF Format!Select, Format!Considered, Format!Usable, Format!Eligible
  <2> QED
    BY <1>3, <2>1 DEF Format!Select
<1>4. CASE Format!Ended
  <2>1. Format!Considered' = Format!Considered
    BY <1>4 DEF Format!Ended, Format!vars, Format!Considered, Format!Usable,
                Format!Eligible
  <2> QED
    BY <1>4, <2>1 DEF Format!Ended, Format!vars
<1> QED
  BY <1>1, <1>2, <1>3, <1>4 DEF Format!Next

\* A considered entry is one of the list.
LEMMA ConsideredListed ==
  ASSUME Format!ScanTypes
  PROVE  \A j \in Format!Considered :
           /\ j \in Nat /\ j < k /\ listed[j] \in Offers
           /\ Format!fps_error(listed[j]) \in Format!Errors
  BY DEF Format!ScanTypes, Format!Considered, Format!Usable, Format!Errors

\* Where no rates are a near tie, the best so far is preferred to all considered.
LEMMA PreferredStep ==
  ASSUME Format!ScanTypes, Format!BestOfConsidered, Format!PreferredSoFar,
         Format!Next
  PROVE  Format!PreferredSoFar'
<1>1. CASE Format!Skip
  <2>1. Format!Considered' = Format!Considered /\ Format!Usable' = Format!Usable
    BY <1>1, OneMoreConsidered DEF Format!Skip
  <2> QED
    BY <1>1, <2>1 DEF Format!Skip, Format!PreferredSoFar, Format!Separated,
                      Format!Errors
<1>2. CASE Format!Compare
  <2>1. /\ Format!Considered' = Format!Considered \cup {k}
        /\ Format!Usable' = Format!Usable
        /\ k \in Nat \ {0} /\ k \in 1..Len(listed) /\ listed[k] \in Offers
        /\ k \in Format!Usable
    BY <1>2, OneMoreConsidered DEF Format!Compare, Format!ScanTypes, Format!Usable
  <2>2. Format!Errors' = Format!Errors /\ Format!Separated' = Format!Separated
    BY <1>2, <2>1 DEF Format!Compare, Format!Errors, Format!Separated
  <2> SUFFICES ASSUME Format!Separated, NEW j \in Format!Considered \cup {k}
               PROVE /\ ~ Format!Lexicographic(Format!Score(listed[j]),
                                               Format!Score(listed[best']))
                     /\ Format!Score(listed[j]) = Format!Score(listed[best'])
                          => best' <= j
    BY <1>2, <2>1, <2>2 DEF Format!PreferredSoFar, Format!Compare
  <2> DEFINE S(h) == Format!Score(listed[h])
  <2>3. \A h \in Format!Considered \cup {k} :
          /\ S(h)[1] \in Nat /\ S(h)[2] \in Nat /\ S(h)[3] \in Nat
          /\ h \in Nat /\ h <= k /\ listed[h] \in Offers
    BY <2>1, ConsideredListed, ScoresAreNumbers
  <2>4. CASE best = 0
    <3>1. best' = k /\ j = k
      BY <1>2, <2>1, <2>4 DEF Format!Compare, Format!BestOfConsidered
    <3> QED
      BY <2>3, <3>1 DEF Format!Lexicographic
  <2>5. CASE best # 0
    <3>1. best \in Format!Considered
      BY <2>5 DEF Format!BestOfConsidered
    <3>2. \A h \in Format!Considered :
            ~ Format!Lexicographic(S(h), S(best)) /\ (S(h) = S(best) => best <= h)
      BY <2>5 DEF Format!PreferredSoFar
    <3>3. \/ Format!fps_error(listed[k]) = Format!fps_error(listed[best])
          \/ Format!Distance(Format!fps_error(listed[k]),
                             Format!fps_error(listed[best])) >= TieEpsilon
      BY <2>1, <3>1, ConsideredListed DEF Format!Separated, Format!Errors
    <3>4. best' = IF Format!Lexicographic(S(k), S(best)) THEN k ELSE best
      BY <1>2, <2>3, <2>5, <3>1, <3>3, BetterIsLexicographic DEF Format!Compare
    <3> HIDE DEF S
    <3>5. /\ ~ Format!Lexicographic(S(j), S(best'))
          /\ S(j) = S(best') => best' <= j
      <4>1. CASE Format!Lexicographic(S(k), S(best))
        BY <2>3, <3>1, <3>2, <3>4, <4>1 DEF Format!Lexicographic
      <4>2. CASE ~ Format!Lexicographic(S(k), S(best))
        BY <2>3, <3>1, <3>2, <3>4, <4>2 DEF Format!Lexicographic
      <4> QED
        BY <4>1, <4>2
    <3> QED
      BY <3>5 DEF S
  <2> QED
    BY <2>4, <2>5
<1>3. CASE Format!Select \/ Format!Ended
  <2>1. UNCHANGED <<listed, request, k, best>>
    BY <1>3 DEF Format!Select, Format!Ended, Format!vars
  <2> QED
    BY <2>1 DEF Format!PreferredSoFar, Format!Separated, Format!Errors,
                Format!Considered, Format!Usable, Format!Eligible
<1> QED
  BY <1>1, <1>2, <1>3 DEF Format!Next

\* Over near ties the best so far drifts by less than one tolerance for each format.
LEMMA DriftStep ==
  ASSUME Format!ScanTypes, Format!BestOfConsidered, Format!DriftSoFar,
         Format!Next
  PROVE  Format!DriftSoFar'
<1>1. CASE Format!Skip
  <2>1. Format!Considered' = Format!Considered
    BY <1>1, OneMoreConsidered DEF Format!Skip
  <2> QED
    BY <1>1, <2>1 DEF Format!Skip, Format!DriftSoFar
<1>2. CASE Format!Compare
  <2> DEFINE e(h) == Format!fps_error(listed[h])
             n == Cardinality(Format!Considered)
             t == TieEpsilon - 1
  <2>1. /\ Format!Considered' = Format!Considered \cup {k}
        /\ Cardinality(Format!Considered') = n + 1
        /\ IsFiniteSet(Format!Considered)
        /\ k \in 1..Len(listed) /\ listed[k] \in Offers
    BY <1>2, OneMoreConsidered DEF Format!Compare, Format!ScanTypes
  <2>2. t \in Nat
    BY FormatAssumption DEF Format!OffersAssumption
  <2>3. \A h \in Format!Considered \cup {k} : e(h) \in Nat /\ listed[h] \in Offers
    BY <2>1, ConsideredListed, ScoresAreNumbers
  <2>4. n \in Nat
    BY <2>1, FS_CardinalityType
  <2>5. /\ Format!Cardinality(Format!Considered) = n
        /\ Format!Cardinality(Format!Considered') = n + 1
    BY <2>1, CountedAlike
  <2> SUFFICES /\ \A j \in Format!Considered \cup {k} :
                    e(best') <= e(j) + t * ((n + 1) - 1)
               /\ \E h \in Format!Considered \cup {k} :
                    \A j \in Format!Considered \cup {k} : e(h) <= e(j)
    BY <1>2, <2>5, <2>1 DEF Format!DriftSoFar, Format!Compare
  <2>6. CASE best = 0
    <3>1. best' = k /\ Format!Considered = {}
      BY <1>2, <2>6 DEF Format!Compare, Format!BestOfConsidered
    <3>2. t * ((n + 1) - 1) \in Nat
      <4>1. n = 0
        BY <3>1, FS_EmptySet
      <4> QED
        BY <2>2, <4>1
    <3> HIDE DEF e, t, n
    <3> QED
      BY <2>3, <3>1, <3>2
  <2>7. CASE best # 0
    <3>1. best \in Format!Considered
      BY <2>7 DEF Format!BestOfConsidered
    <3>2. n \in Nat \ {0}
      BY <2>1, <2>4, <3>1, FS_EmptySet
    <3>3. /\ t * ((n + 1) - 1) = t * (n - 1) + t
          /\ t * (n - 1) \in Nat /\ t * n \in Nat
      BY <2>2, <3>2, OneMoreEpsilon
    <3>4. \A j \in Format!Considered : e(best) <= e(j) + t * (n - 1)
      BY <2>5, <2>7 DEF Format!DriftSoFar
    <3>5. PICK h \in Format!Considered : \A j \in Format!Considered : e(h) <= e(j)
      BY <2>7 DEF Format!DriftSoFar
    <3>6. \/ best' = k /\ e(k) <= e(best) + t
          \/ best' = best /\ e(best) <= e(k)
      BY <1>2, <2>3, <2>7, <3>1, BetterWithinEpsilon, NotBetterNotLess
         DEF Format!Compare
    <3> DEFINE d == t * (n - 1)
               d1 == t * ((n + 1) - 1)
    <3>7. d \in Nat /\ d1 = d + t
      BY <3>3
    <3>8. \A j \in Format!Considered : e(best) <= e(j) + d
      BY <3>4
    <3> HIDE DEF e, t, n, d, d1
    <3>9. \A j \in Format!Considered \cup {k} : e(best') <= e(j) + d1
      BY <2>2, <2>3, <3>1, <3>6, <3>7, <3>8
    <3>10. \E m \in Format!Considered \cup {k} :
             \A j \in Format!Considered \cup {k} : e(m) <= e(j)
      <4>1. CASE e(k) <= e(h)
        BY <2>3, <3>5, <4>1
      <4>2. CASE ~ e(k) <= e(h)
        BY <2>3, <3>5, <4>2
      <4> QED
        BY <4>1, <4>2
    <3> QED
      BY <3>9, <3>10 DEF d1
  <2> QED
    BY <2>6, <2>7
<1>3. CASE Format!Select \/ Format!Ended
  <2>1. UNCHANGED <<listed, request, k, best>>
    BY <1>3 DEF Format!Select, Format!Ended, Format!vars
  <2> QED
    BY <2>1 DEF Format!DriftSoFar, Format!Considered, Format!Usable,
                Format!Eligible
<1> QED
  BY <1>1, <1>2, <1>3 DEF Format!Next

\* The invariant of the scan holds before the first format.
LEMMA ModeInit == Format!Init => Format!ModeInvariant
<1> SUFFICES ASSUME Format!Init PROVE Format!ModeInvariant
  OBVIOUS
<1>1. PICK n \in 0..MaxListed : listed \in [1..n -> Offers]
  BY DEF Format!Init
<1>2. n \in Nat
  BY FormatAssumption DEF Format!OffersAssumption
<1>3. Len(listed) = n
  BY <1>1, <1>2
<1>4. Format!Considered = {}
  BY <1>2, <1>3 DEF Format!Init, Format!Considered, Format!Usable
<1> QED
  BY <1>1, <1>2, <1>3, <1>4
     DEF Format!Init, Format!ModeInvariant, Format!ScanTypes,
         Format!BestOfConsidered, Format!PreferredSoFar, Format!DriftSoFar

\* Every step keeps it.
LEMMA ModeStep ==
  ASSUME Format!ModeInvariant, Format!Next
  PROVE  Format!ModeInvariant'
  BY ScanTypesStep, BestStep, PreferredStep, DriftStep
     DEF Format!ModeInvariant

\* When the scan has ended, everything usable was considered.
LEMMA ModeIsSound ==
  ASSUME Format!ModeInvariant
  PROVE  Format!NoDriftBeyondTies /\ Format!BestModeTaken
<1> SUFFICES ASSUME format_pc # "scan"
             PROVE  Format!NoDriftBeyondTies /\ Format!BestModeTaken
  BY DEF Format!NoDriftBeyondTies, Format!BestModeTaken
<1>1. Format!Considered = Format!Usable
  BY DEF Format!ModeInvariant, Format!ScanTypes, Format!Considered, Format!Usable
<1>2. \A j \in Format!Usable : /\ j \in Nat /\ listed[j] \in Offers
                               /\ Format!fps_error(listed[j]) \in Nat
  BY <1>1, ConsideredListed, ScoresAreNumbers DEF Format!ModeInvariant
<1>3. MaxFpsError \in Nat
  BY FormatAssumption DEF Format!OffersAssumption
<1>4. IF best = 0 THEN Format!Usable = {} ELSE best \in Format!Usable
  BY <1>1 DEF Format!ModeInvariant, Format!BestOfConsidered
<1>5. format_pc = "active" <=> best # 0 /\ ~ Format!fps_error(listed[best]) > MaxFpsError
  BY DEF Format!ModeInvariant, Format!BestOfConsidered, Format!is_supported_fps
<1>6. Format!NoDriftBeyondTies
  <2> SUFFICES ASSUME format_pc = "active"
               PROVE  Format!NoDriftBeyondTies
    BY DEF Format!NoDriftBeyondTies
  <2>1. best # 0 /\ best \in Format!Usable
        /\ Format!fps_error(listed[best]) <= MaxFpsError
    BY <1>2, <1>3, <1>4, <1>5
  <2>2. PICK h \in Format!Usable : \A j \in Format!Usable :
          Format!fps_error(listed[h]) <= Format!fps_error(listed[j])
    BY <1>1, <2>1 DEF Format!ModeInvariant, Format!DriftSoFar
  <2>3. Format!Min(Format!Errors) \in Format!Errors
    BY <2>2 DEF Format!Min, Format!Errors
  <2>4. PICK j \in Format!Usable :
          Format!Min(Format!Errors) = Format!fps_error(listed[j])
    BY <2>3 DEF Format!Errors
  <2> QED
    BY <1>1, <2>1, <2>4 DEF Format!NoDriftBeyondTies, Format!ModeInvariant,
                            Format!DriftSoFar
<1>7. Format!BestModeTaken
  <2> SUFFICES ASSUME Format!Separated
               PROVE  Format!BestModeTaken
    BY DEF Format!BestModeTaken
  <2>1. best # 0 => \A j \in Format!Usable :
          /\ ~ Format!Lexicographic(Format!Score(listed[j]), Format!Score(listed[best]))
          /\ Format!Score(listed[j]) = Format!Score(listed[best]) => best <= j
    BY <1>1 DEF Format!ModeInvariant, Format!PreferredSoFar
  <2>2. best # 0 => \A j \in Format!Usable :
          Format!fps_error(listed[best]) <= Format!fps_error(listed[j])
    BY <1>2, <1>4, <2>1, ScoresAreNumbers DEF Format!Lexicographic
  <2>3. format_pc = "error" <=> \A e \in Format!Errors : e > MaxFpsError
    <3>1. format_pc \in {"active", "error"}
      BY DEF Format!ModeInvariant, Format!ScanTypes
    <3>2. CASE best = 0
      BY <1>4, <1>5, <3>1, <3>2 DEF Format!Errors
    <3>3. CASE best # 0
      <4>1. Format!fps_error(listed[best]) \in Format!Errors
        BY <1>4, <3>3 DEF Format!Errors
      <4>2. (\A e \in Format!Errors : e > MaxFpsError)
              <=> Format!fps_error(listed[best]) > MaxFpsError
        BY <1>2, <1>3, <1>4, <2>2, <3>3, <4>1 DEF Format!Errors
      <4> QED
        BY <1>5, <3>1, <3>3, <4>2
    <3> QED
      BY <3>2, <3>3
  <2> QED
    BY <2>1, <2>3 DEF Format!BestModeTaken
<1> QED
  BY <1>6, <1>7

\* The camera takes the best mode the driver lists, and over near ties
\* drifts no further than they allow, for any list, rate and tolerance.
THEOREM ModeIsTheBest == Spec => []ModeSound
<1> DEFINE Inv == component = "format" => Format!ModeInvariant
<1>1. Init => Inv
  BY ModeInit DEF Init
<1>2. Inv /\ [Next]_vars => Inv'
  <2> SUFFICES ASSUME Inv, [Next]_vars
               PROVE  Inv'
    OBVIOUS
  <2>1. CASE component = "format" /\ Format!Next /\ component' = component
    BY <2>1, ModeStep
  <2>2. CASE UNCHANGED <<component, formatVars>>
    BY <2>2 DEF formatVars, Format!ModeInvariant, Format!ScanTypes,
       Format!BestOfConsidered, Format!PreferredSoFar, Format!DriftSoFar,
       Format!Separated, Format!Errors, Format!Considered, Format!Usable,
       Format!Eligible
  <2>3. component' # "format" \/ component = "format"
    BY DEF Next, vars
  <2> QED
    BY <2>1, <2>2, <2>3 DEF Next, vars
<1>3. Inv => ModeSound
  BY ModeIsSound DEF ModeSound
<1> QED
  BY <1>1, <1>2, <1>3, PTL DEF Spec

-----------------------------------------------------------------------------
(* What an update() finds.  A frame has its detections of two scores, the  *)
(* three associations, and the tracks that it starts.                      *)

High(score) == {d \in Track!Dets : score[d] \in {"new", "high"}}
Low(score)  == {d \in Track!Dets : score[d] = "low"}
Fresh(score, unc) == {d \in Track!FreeColumns(unc) : score[d] = "new"}

Association(score, first, second, unc, start) ==
    /\ score \in [Track!Dets -> Track!Score]
    /\ first \in Track!Associate(Track!Pool, High(score))
    /\ second \in Track!Associate(Track!SecondRows(first), Low(score))
    /\ unc \in Track!Associate(Track!Unconfirmed,
                               Track!UnconfirmedColumns(High(score), first))
    /\ start = Track!Started(Fresh(score, unc))
    /\ next_id + Track!Cardinality(Fresh(score, unc)) <= MaxIds + 1

\* The track objects after the rounds, and after the old ones were given up.
Rounds(first, second, unc, start) ==
    Track!AfterRounds(first, second, unc, start, frame + 1)
Ended(first, second, unc, start) ==
    Track!Expired(Rounds(first, second, unc, start), frame + 1)
Objects(first, second, unc, start) ==
    [t \in Track!Ids |->
       IF t \in Ended(first, second, unc, start)
       THEN [Rounds(first, second, unc, start)[t] EXCEPT !.state = "Removed"]
       ELSE Rounds(first, second, unc, start)[t]]

\* The tracks that were matched in any round, those that were lost before,
\* those that are lost now, and those that are given up.
Matched(first, second, unc) ==
    Track!Rows(first) \union Track!Rows(second) \union Track!Rows(unc)
Regained(first, second) ==
    {t \in Track!Rows(first) \union Track!Rows(second) : trk[t].state # "Tracked"}
Gone(first, second, unc, start) ==
    [lost |-> Track!SecondRows(first) \ Track!Rows(second),
     removed |-> (Track!Unconfirmed \ Track!Rows(unc))
                   \union Ended(first, second, unc, start)]
NewLists(first, second, unc, start) ==
    Track!Lists(Objects(first, second, unc, start),
                (Track!Rows(first) \union Track!Rows(second)
                   \union Track!Rows(unc) \union DOMAIN start)
                   \ Regained(first, second),
                Gone(first, second, unc, start),
                Regained(first, second))

\* What update() makes of the lists, for pairs of boxes that overlap.
Outcome(first, second, unc, start, close) ==
    LET lists == NewLists(first, second, unc, start)
        after == Objects(first, second, unc, start)
    IN  /\ close \subseteq Track!In(lists.tracked) \X Track!In(lists.lost)
        /\ trk' = after
        /\ removed' = Track!Insert(removed,
                        Track!Once(Gone(first, second, unc, start).removed))
        /\ oldest' = Track!MaxLife(after, Track!In(lists.tracked)
                                            \union Track!In(lists.lost))
        /\ tracked' = Track!Only(lists.tracked,
                        Track!Ids \ Track!DropTracked(after, close))
        /\ lost' = Track!Only(lists.lost,
                        Track!Ids \ Track!DropLost(after, close))
        /\ out' = Track!Only(tracked', {t \in Track!Ids : trk'[t].activated})

\* update() in these terms.
LEMMA UpdateAsOutcome ==
  ASSUME NEW score \in [Track!Dets -> Track!Score], Track!Update(score)
  PROVE  \E first, second, unc, start, close :
           /\ Association(score, first, second, unc, start)
           /\ Outcome(first, second, unc, start, close)
           /\ frame < MaxFrame /\ frame' = frame + 1
           /\ next_id' = next_id + Track!Cardinality(Fresh(score, unc))
<1> DEFINE Result(first, second, unc, start) ==
             /\ next_id + Track!Cardinality(Fresh(score, unc)) <= MaxIds + 1
             /\ next_id' = next_id + Track!Cardinality(Fresh(score, unc))
             /\ trk' = Objects(first, second, unc, start)
             /\ removed' = Track!Insert(removed,
                             Track!Once(Gone(first, second, unc, start).removed))
             /\ oldest' = Track!MaxLife(Objects(first, second, unc, start),
                  Track!In(NewLists(first, second, unc, start).tracked)
                    \union Track!In(NewLists(first, second, unc, start).lost))
             /\ \E close \in SUBSET
                    (Track!In(NewLists(first, second, unc, start).tracked)
                       \X Track!In(NewLists(first, second, unc, start).lost)) :
                  /\ tracked' = Track!Only(NewLists(first, second, unc, start).tracked,
                       Track!Ids \ Track!DropTracked(
                                      Objects(first, second, unc, start), close))
                  /\ lost' = Track!Only(NewLists(first, second, unc, start).lost,
                       Track!Ids \ Track!DropLost(
                                      Objects(first, second, unc, start), close))
<1>1. \E first \in Track!Associate(Track!Pool, High(score)) :
        \E second \in Track!Associate(Track!SecondRows(first), Low(score)) :
          \E unc \in Track!Associate(Track!Unconfirmed,
                     Track!UnconfirmedColumns(High(score), first)) :
            Result(first, second, unc, Track!Started(Fresh(score, unc)))
  BY Zenon DEF Track!Update, High, Low, Fresh, NewLists, Objects, Gone, Regained,
        Ended, Rounds
<1>2. /\ frame < MaxFrame /\ frame' = frame + 1
      /\ out' = Track!Only(tracked', {t \in Track!Ids : trk'[t].activated})
  BY Zenon DEF Track!Update
<1>3. PICK first \in Track!Associate(Track!Pool, High(score)) :
        \E second \in Track!Associate(Track!SecondRows(first), Low(score)) :
          \E unc \in Track!Associate(Track!Unconfirmed,
                     Track!UnconfirmedColumns(High(score), first)) :
            Result(first, second, unc, Track!Started(Fresh(score, unc)))
  BY <1>1
<1>4. PICK second \in Track!Associate(Track!SecondRows(first), Low(score)) :
        \E unc \in Track!Associate(Track!Unconfirmed,
                   Track!UnconfirmedColumns(High(score), first)) :
          Result(first, second, unc, Track!Started(Fresh(score, unc)))
  BY <1>3
<1>5. PICK unc \in Track!Associate(Track!Unconfirmed,
                   Track!UnconfirmedColumns(High(score), first)) :
          Result(first, second, unc, Track!Started(Fresh(score, unc)))
  BY <1>4
<1> DEFINE start == Track!Started(Fresh(score, unc))
<1>6. Association(score, first, second, unc, start)
  BY <1>3, <1>4, <1>5 DEF Association
<1>7. \E close : Outcome(first, second, unc, start, close)
  BY <1>2, <1>5 DEF Outcome
<1> HIDE DEF start
<1> QED
  BY Zenon, <1>2, <1>5, <1>6, <1>7

-----------------------------------------------------------------------------
(* Where a track is in an update().                                        *)

\* A row that was matched is one of the association, and its column is its
\* own; a column that is free has no row.
LEMMA Columns ==
  ASSUME NEW rows, NEW cols, NEW f \in Track!Associate(rows, cols)
  PROVE  /\ \A t \in Track!Rows(f) :
              /\ t \in rows /\ Track!Column(f, t) \in cols
              /\ f[Track!Column(f, t)] = t /\ t # 0
         /\ Track!FreeColumns(f) = {c \in cols : f[c] = 0}
<1>1. DOMAIN f = cols /\ \A c \in cols : f[c] \in rows \union {0}
  BY DEF Track!Associate
<1>2. ASSUME NEW t \in Track!Rows(f)
      PROVE  /\ t \in rows /\ Track!Column(f, t) \in cols
             /\ f[Track!Column(f, t)] = t /\ t # 0
  <2>1. t # 0 /\ \E c \in DOMAIN f : f[c] = t
    BY DEF Track!Rows
  <2>2. Track!Column(f, t) \in DOMAIN f /\ f[Track!Column(f, t)] = t
    BY <2>1 DEF Track!Column
  <2> QED
    BY <1>1, <2>1, <2>2
<1> QED
  BY <1>1, <1>2 DEF Track!FreeColumns

\* The tracks that compete are those of the lists, each in one round; the
\* tracks that are started have numbers that no list knows.
LEMMA Zones ==
  ASSUME Track!TrackInvariant, NEW score, NEW first, NEW second, NEW unc, NEW start,
         Association(score, first, second, unc, start)
  PROVE  /\ Track!Confirmed \union Track!Unconfirmed = Track!In(tracked)
         /\ Track!Confirmed \cap Track!Unconfirmed = {}
         /\ Track!In(tracked) \cap Track!In(lost) = {}
         /\ Track!Pool = Track!Confirmed \union Track!In(lost)
         /\ Track!SecondRows(first) = Track!Confirmed \ Track!Rows(first)
         /\ Track!Rows(first) \subseteq Track!Pool
         /\ Track!Rows(second) \subseteq Track!SecondRows(first)
         /\ Track!Rows(unc) \subseteq Track!Unconfirmed
         /\ DOMAIN start \subseteq {t \in Track!Ids : t >= next_id}
         /\ \A t \in Track!In(tracked) \union Track!In(lost)
                       \union Track!In(removed) : ~ (t >= next_id)
<1>1. /\ Track!TypeOK /\ Track!ListsPartition /\ Track!FreshUnused
  BY DEF Track!TrackInvariant
<1>2. \A t \in Track!Ids : tracked[t] \in 0..1 /\ lost[t] \in 0..1 /\ removed[t] \in 0..1
  BY <1>1 DEF Track!TypeOK
<1>3. /\ Track!Confirmed \union Track!Unconfirmed = Track!In(tracked)
      /\ Track!Confirmed \cap Track!Unconfirmed = {}
  BY DEF Track!Confirmed, Track!Unconfirmed
<1>4. Track!In(tracked) \cap Track!In(lost) = {}
  BY <1>1, <1>2 DEF Track!ListsPartition, Track!In
<1>5. Track!Pool = Track!Confirmed \union Track!In(lost)
  <2>1. \A t \in Track!Ids : t \in Track!Confirmed => tracked[t] > 0
    BY DEF Track!Confirmed, Track!In
  <2>2. Track!Confirmed \subseteq Track!Ids
    BY DEF Track!Confirmed, Track!In
  <2> DEFINE shown == Track!Only(tracked, Track!Confirmed)
  <2>3. \A t \in Track!Ids : shown[t] > 0 <=> t \in Track!Confirmed
    BY <2>1, <1>2 DEF Track!Only
  <2> HIDE DEF shown
  <2>4. \A t \in Track!Ids : Track!Joint(shown, lost)[t] > 0 <=> shown[t] > 0 \/ lost[t] > 0
    BY DEF Track!Joint
  <2> QED
    BY <2>2, <2>3, <2>4 DEF Track!Pool, Track!In, shown
<1>6. Track!SecondRows(first) = Track!Confirmed \ Track!Rows(first)
  <2>1. \A t \in Track!In(lost) : trk[t].state # "Tracked"
    BY <1>1 DEF Track!ListsPartition
  <2>2. \A t \in Track!Confirmed : trk[t].state = "Tracked"
    BY <1>1, <1>3 DEF Track!ListsPartition
  <2> QED
    BY <1>5, <2>1, <2>2 DEF Track!SecondRows
<1>7. /\ Track!Rows(first) \subseteq Track!Pool
      /\ Track!Rows(second) \subseteq Track!SecondRows(first)
      /\ Track!Rows(unc) \subseteq Track!Unconfirmed
  BY Columns DEF Association
<1>8. DOMAIN start \subseteq {t \in Track!Ids : t >= next_id}
  BY DEF Association, Track!Started
<1>9. \A t \in Track!In(tracked) \union Track!In(lost) \union Track!In(removed) :
        ~ (t >= next_id)
  <2>1. \A t \in Track!In(tracked) \union Track!In(lost) \union Track!In(removed) :
          t \in Track!Ids /\ (tracked[t] > 0 \/ lost[t] > 0 \/ removed[t] > 0)
    BY DEF Track!In
  <2>2. \A t \in Track!Ids : t >= next_id => tracked[t] + lost[t] + removed[t] = 0
    BY <1>1 DEF Track!FreshUnused
  <2> QED
    BY <1>2, <2>1, <2>2
<1> QED
  BY <1>3, <1>4, <1>5, <1>6, <1>7, <1>8, <1>9

\* The detection a track was matched to or started with.
Detection(first, second, unc, start, t) ==
    IF t \in Track!Rows(first) THEN Track!Column(first, t)
    ELSE IF t \in Track!Rows(second) THEN Track!Column(second, t)
    ELSE IF t \in Track!Rows(unc) THEN Track!Column(unc, t)
    ELSE start[t]

\* What becomes of the object of a track: it was matched, missed, not
\* confirmed, started, or left as it was.
LEMMA RoundOf ==
  ASSUME Track!TrackInvariant, NEW score, NEW first, NEW second, NEW unc, NEW start,
         Association(score, first, second, unc, start), NEW t \in Track!Ids
  PROVE  LET after == Rounds(first, second, unc, start)[t] IN
         /\ t \in Matched(first, second, unc) =>
              /\ after = Track!Updated(trk[t], Detection(first, second, unc, start, t),
                                       frame + 1)
              /\ t \in Track!In(tracked) \union Track!In(lost)
         /\ t \in Track!Confirmed \ Matched(first, second, unc) =>
              after = [trk[t] EXCEPT !.state = "Lost"]
         /\ t \in Track!Unconfirmed \ Matched(first, second, unc) =>
              after = [trk[t] EXCEPT !.state = "Removed"]
         /\ t \in DOMAIN start =>
              after = Track!Activated(Detection(first, second, unc, start, t), frame + 1)
         /\ /\ t \notin Track!In(tracked) /\ t \notin DOMAIN start
            /\ t \notin Matched(first, second, unc)
            => after = trk[t]
<1> DEFINE after == Rounds(first, second, unc, start)[t]
<1>z. /\ Track!Confirmed \union Track!Unconfirmed = Track!In(tracked)
      /\ Track!Confirmed \cap Track!Unconfirmed = {}
      /\ Track!In(tracked) \cap Track!In(lost) = {}
      /\ Track!Pool = Track!Confirmed \union Track!In(lost)
      /\ Track!SecondRows(first) = Track!Confirmed \ Track!Rows(first)
      /\ Track!Rows(first) \subseteq Track!Pool
      /\ Track!Rows(second) \subseteq Track!SecondRows(first)
      /\ Track!Rows(unc) \subseteq Track!Unconfirmed
      /\ \A s \in DOMAIN start : s >= next_id
      /\ \A s \in Track!In(tracked) \union Track!In(lost) : ~ (s >= next_id)
  BY Zones
<1>d. after =
       CASE t \in Track!Rows(first)  ->
              Track!Updated(trk[t], Track!Column(first, t), frame + 1)
         [] t \in Track!Rows(second) ->
              Track!Updated(trk[t], Track!Column(second, t), frame + 1)
         [] t \in Track!SecondRows(first) \ Track!Rows(second) ->
              [trk[t] EXCEPT !.state = "Lost"]
         [] t \in Track!Rows(unc)    ->
              Track!Updated(trk[t], Track!Column(unc, t), frame + 1)
         [] t \in Track!Unconfirmed \ Track!Rows(unc) ->
              [trk[t] EXCEPT !.state = "Removed"]
         [] t \in DOMAIN start -> Track!Activated(start[t], frame + 1)
         [] OTHER -> trk[t]
  BY Zenon DEF Rounds, Track!AfterRounds
<1> HIDE DEF after
<1>1. CASE t \in Track!Rows(first)
  <2>1. /\ t \notin Track!Rows(second) /\ t \notin Track!SecondRows(first)
        /\ t \notin Track!Unconfirmed /\ t \notin Track!Rows(unc)
        /\ t \notin DOMAIN start
    BY <1>1, <1>z
  <2>2. after = Track!Updated(trk[t], Track!Column(first, t), frame + 1)
    BY <1>1, <2>1, <1>d
  <2> QED
    BY <1>1, <2>1, <2>2, <1>z DEF Matched, Detection, after
<1>2. CASE t \in Track!Rows(second)
  <2>1. /\ t \notin Track!Rows(first)
        /\ t \notin Track!Unconfirmed /\ t \notin Track!Rows(unc)
        /\ t \notin DOMAIN start
    BY <1>2, <1>z
  <2>2. after = Track!Updated(trk[t], Track!Column(second, t), frame + 1)
    BY <1>2, <2>1, <1>d
  <2> QED
    BY <1>2, <2>1, <2>2, <1>z DEF Matched, Detection, after
<1>3. CASE t \in Track!Confirmed \ Matched(first, second, unc)
  <2>1. /\ t \in Track!SecondRows(first) \ Track!Rows(second)
        /\ t \notin Track!Rows(first)
        /\ t \notin Track!Unconfirmed /\ t \notin Track!Rows(unc)
        /\ t \notin DOMAIN start
    BY <1>3, <1>z DEF Matched
  <2>2. after = [trk[t] EXCEPT !.state = "Lost"]
    BY <2>1, <1>d
  <2> QED
    BY <1>3, <2>1, <2>2, <1>z DEF Matched, after
<1>4. CASE t \in Track!Rows(unc)
  <2>1. /\ t \notin Track!Rows(first) /\ t \notin Track!Rows(second)
        /\ t \notin Track!SecondRows(first) /\ t \in Track!Unconfirmed
        /\ t \notin DOMAIN start
    BY <1>4, <1>z
  <2>2. after = Track!Updated(trk[t], Track!Column(unc, t), frame + 1)
    BY <1>4, <2>1, <1>d
  <2> QED
    BY <1>4, <2>1, <2>2, <1>z DEF Matched, Detection, after
<1>5. CASE t \in Track!Unconfirmed \ Matched(first, second, unc)
  <2>1. /\ t \notin Track!Rows(first) /\ t \notin Track!Rows(second)
        /\ t \notin Track!SecondRows(first) /\ t \notin Track!Rows(unc)
        /\ t \notin DOMAIN start
    BY <1>5, <1>z DEF Matched
  <2>2. after = [trk[t] EXCEPT !.state = "Removed"]
    BY <1>5, <2>1, <1>d
  <2> QED
    BY <1>5, <2>1, <2>2, <1>z DEF Matched, after
<1>6. CASE t \in DOMAIN start
  <2>1. /\ t \notin Track!Rows(first) /\ t \notin Track!Rows(second)
        /\ t \notin Track!SecondRows(first) /\ t \notin Track!Rows(unc)
        /\ t \notin Track!In(tracked) /\ t \notin Track!Unconfirmed
    BY <1>6, <1>z
  <2>2. after = Track!Activated(start[t], frame + 1)
    BY <1>6, <2>1, <1>d
  <2> QED
    BY <1>6, <2>1, <2>2, <1>z DEF Matched, Detection, after
<1>7. CASE /\ t \notin Track!In(tracked) /\ t \notin DOMAIN start
           /\ t \notin Matched(first, second, unc)
  <2>1. /\ t \notin Track!Rows(first) /\ t \notin Track!Rows(second)
        /\ t \notin Track!SecondRows(first) /\ t \notin Track!Rows(unc)
        /\ t \notin Track!Unconfirmed
    BY <1>7, <1>z DEF Matched
  <2>2. after = trk[t]
    BY <1>7, <2>1, <1>d
  <2> QED
    BY <1>7, <2>1, <2>2, <1>z DEF after
<1> QED
  BY <1>1, <1>2, <1>3, <1>4, <1>5, <1>6, <1>7, <1>z DEF Matched

\* What the fields of an object are after it was updated or started.
LEMMA ObjectFields ==
  ASSUME NEW s \in Track!STrack, NEW d, NEW n
  PROVE  /\ Track!Updated(s, d, n)
              = [state |-> "Tracked", activated |-> TRUE, frame |-> n,
                 start |-> s.start, obs |-> d]
         /\ Track!Activated(d, n).state = "Tracked"
         /\ Track!Activated(d, n).frame = n /\ Track!Activated(d, n).start = n
         /\ Track!Activated(d, n).obs = d
         /\ Track!Activated(d, n).activated = (n = 1)
         /\ \A x : [s EXCEPT !.state = x]
              = [state |-> x, activated |-> s.activated, frame |-> s.frame,
                 start |-> s.start, obs |-> s.obs]
<1>2. Track!Updated(s, d, n) = [state |-> "Tracked", activated |-> TRUE, frame |-> n,
                                start |-> s.start, obs |-> d]
  BY DEF Track!Updated
<1>3. /\ Track!Activated(d, n).state = "Tracked"
      /\ Track!Activated(d, n).frame = n /\ Track!Activated(d, n).start = n
      /\ Track!Activated(d, n).obs = d
      /\ Track!Activated(d, n).activated = (n = 1)
  BY DEF Track!Activated
<1>4. ASSUME NEW x
      PROVE  [s EXCEPT !.state = x]
              = [state |-> x, activated |-> s.activated, frame |-> s.frame,
                 start |-> s.start, obs |-> s.obs]
  BY DEF Track!STrack
<1> QED
  BY <1>2, <1>3, <1>4

\* How often a track is in the lists before remove_duplicates.
LEMMA ListsAt ==
  ASSUME NEW objects, NEW found, NEW gone, NEW again, NEW t \in Track!Ids,
         tracked[t] \in 0..1, lost[t] \in 0..1
  PROVE  LET held == \/ t \in found \union again
                     \/ tracked[t] = 1 /\ objects[t].state = "Tracked"
         IN  /\ Track!Lists(objects, found, gone, again).tracked[t] =
                  IF held THEN 1 ELSE 0
             /\ Track!Lists(objects, found, gone, again).lost[t] =
                  IF t \in gone.removed THEN 0
                  ELSE (IF held THEN 0 ELSE lost[t])
                         + (IF t \in gone.lost THEN 1 ELSE 0)
<1> DEFINE shown == Track!Only(tracked, {s \in Track!Ids : objects[s].state = "Tracked"})
           met == Track!Joint(shown, Track!Once(found))
           tk == Track!Joint(met, Track!Once(again))
           held == \/ t \in found \union again
                   \/ tracked[t] = 1 /\ objects[t].state = "Tracked"
           left == Track!Subtract(lost, tk)
           more == Track!Insert(left, Track!Once(gone.lost))
           ll == Track!Subtract(more, Track!Once(gone.removed))
<1>1. Track!Lists(objects, found, gone, again) = [tracked |-> tk, lost |-> ll]
  BY Zenon DEF Track!Lists
<1>2. shown[t] = IF objects[t].state = "Tracked" THEN tracked[t] ELSE 0
  BY DEF Track!Only
<1>3. \A S : Track!Once(S)[t] = IF t \in S THEN 1 ELSE 0
  BY DEF Track!Once
<1>4. met[t] = IF t \in found \/ (tracked[t] = 1 /\ objects[t].state = "Tracked")
               THEN 1 ELSE 0
  <2> HIDE DEF shown
  <2>1. met[t] = IF shown[t] > 0 THEN shown[t]
                 ELSE IF Track!Once(found)[t] > 0 THEN 1 ELSE 0
    BY DEF Track!Joint
  <2> HIDE DEF met
  <2>2. Track!Once(found)[t] = IF t \in found THEN 1 ELSE 0
    BY <1>3
  <2> QED
    BY <2>1, <2>2, <1>2
<1>5. tk[t] = IF held THEN 1 ELSE 0
  <2> HIDE DEF met
  <2>1. tk[t] = IF met[t] > 0 THEN met[t]
                ELSE IF Track!Once(again)[t] > 0 THEN 1 ELSE 0
    BY DEF Track!Joint
  <2> HIDE DEF tk
  <2>2. Track!Once(again)[t] = IF t \in again THEN 1 ELSE 0
    BY <1>3
  <2> QED
    BY <2>1, <2>2, <1>4
<1>7. left[t] = IF held THEN 0 ELSE lost[t]
  <2> HIDE DEF tk
  <2>1. left[t] = IF tk[t] > 0 THEN 0 ELSE lost[t]
    BY DEF Track!Subtract
  <2> HIDE DEF left, held
  <2> QED
    BY <2>1, <1>5
<1>8. more[t] = left[t] + (IF t \in gone.lost THEN 1 ELSE 0)
  <2> HIDE DEF left
  <2>1. more[t] = left[t] + Track!Once(gone.lost)[t]
    BY DEF Track!Insert
  <2>2. Track!Once(gone.lost)[t] = IF t \in gone.lost THEN 1 ELSE 0
    BY <1>3
  <2> QED
    BY <2>1, <2>2
<1>9. ll[t] = IF t \in gone.removed THEN 0 ELSE more[t]
  <2> HIDE DEF more
  <2>1. ll[t] = IF Track!Once(gone.removed)[t] > 0 THEN 0 ELSE more[t]
    BY DEF Track!Subtract
  <2>2. Track!Once(gone.removed)[t] = IF t \in gone.removed THEN 1 ELSE 0
    BY <1>3
  <2> HIDE DEF ll
  <2> QED
    BY <2>1, <2>2
<1> HIDE DEF tk, ll, left, more, met, shown, held
<1>10. /\ Track!Lists(objects, found, gone, again).tracked = tk
       /\ Track!Lists(objects, found, gone, again).lost = ll
  BY <1>1
<1> QED
  BY <1>5, <1>7, <1>8, <1>9, <1>10 DEF held

\* What becomes of a track: its object, whether it is in the lists before
\* remove_duplicates, and whether it is given up.
Fate(first, second, unc, start, t, object, tk, ll, gone) ==
    /\ Objects(first, second, unc, start)[t] = object
    /\ NewLists(first, second, unc, start).tracked[t] = tk
    /\ NewLists(first, second, unc, start).lost[t] = ll
    /\ t \in Gone(first, second, unc, start).removed <=> gone

LEMMA Fates ==
  ASSUME Track!TrackInvariant, NEW score, NEW first, NEW second, NEW unc, NEW start,
         Association(score, first, second, unc, start), NEW t \in Track!Ids
  PROVE  LET fate(object, tk, ll, gone) ==
                Fate(first, second, unc, start, t, object, tk, ll, gone)
             met == Detection(first, second, unc, start, t)
         IN
         \/ /\ t \in Matched(first, second, unc)
            /\ t \in Track!In(tracked) \union Track!In(lost)
            /\ fate(Track!Updated(trk[t], met, frame + 1), 1, 0, FALSE)
         \/ /\ t \in DOMAIN start
            /\ fate(Track!Activated(met, frame + 1), 1, 0, FALSE)
         \/ /\ t \in Track!Confirmed
            /\ fate([trk[t] EXCEPT !.state = "Lost"], 0, 1, FALSE)
         \/ /\ t \in Track!Unconfirmed
            /\ fate([trk[t] EXCEPT !.state = "Removed"], 0, 0, TRUE)
         \/ /\ t \in Track!In(lost) /\ frame + 1 - trk[t].frame <= MaxTimeLost
            /\ fate(trk[t], 0, 1, FALSE)
         \/ /\ t \in Track!In(lost)
            /\ fate([trk[t] EXCEPT !.state = "Removed"], 0, 0, TRUE)
         \/ /\ t \notin Track!In(tracked) \union Track!In(lost) \union DOMAIN start
            /\ fate(trk[t], 0, 0, FALSE)
<1> DEFINE met == Detection(first, second, unc, start, t)
           after == Rounds(first, second, unc, start)[t]
           gone == Gone(first, second, unc, start)
           again == Regained(first, second)
           found == (Track!Rows(first) \union Track!Rows(second)
                       \union Track!Rows(unc) \union DOMAIN start) \ again
           objects == Objects(first, second, unc, start)
           lists == NewLists(first, second, unc, start)
<1>z. /\ Track!Confirmed \union Track!Unconfirmed = Track!In(tracked)
      /\ Track!Confirmed \cap Track!Unconfirmed = {}
      /\ Track!In(tracked) \cap Track!In(lost) = {}
      /\ Track!SecondRows(first) = Track!Confirmed \ Track!Rows(first)
      /\ Track!Rows(first) \subseteq Track!Confirmed \union Track!In(lost)
      /\ Track!Rows(second) \subseteq Track!SecondRows(first)
      /\ Track!Rows(unc) \subseteq Track!Unconfirmed
      /\ \A s \in DOMAIN start : s >= next_id
      /\ \A s \in Track!In(tracked) \union Track!In(lost) : ~ (s >= next_id)
  BY Zones
<1>t. /\ trk[t] \in Track!STrack /\ tracked[t] \in 0..1 /\ lost[t] \in 0..1
      /\ frame \in Nat /\ MaxTimeLost \in Nat
      /\ t \in Track!In(lost) => lost[t] = 1 /\ trk[t].state = "Lost"
      /\ t \notin Track!In(lost) => lost[t] = 0
      /\ t \in Track!In(tracked) <=> tracked[t] = 1
      /\ t \in Track!In(tracked) => trk[t].state = "Tracked"
  BY TrackAssumption DEF Track!TrackInvariant, Track!TypeOK, Track!ListsPartition,
     Track!In, Track!TrackAssumption
<1>r. /\ t \in Matched(first, second, unc) =>
           after = Track!Updated(trk[t], met, frame + 1)
      /\ t \in Matched(first, second, unc) => t \in Track!In(tracked) \union Track!In(lost)
      /\ t \in Track!Confirmed \ Matched(first, second, unc) =>
           after = [trk[t] EXCEPT !.state = "Lost"]
      /\ t \in Track!Unconfirmed \ Matched(first, second, unc) =>
           after = [trk[t] EXCEPT !.state = "Removed"]
      /\ t \in DOMAIN start => after = Track!Activated(met, frame + 1)
      /\ /\ t \notin Track!In(tracked) /\ t \notin DOMAIN start
         /\ t \notin Matched(first, second, unc)
         => after = trk[t]
  BY RoundOf
<1> DEFINE ended == Ended(first, second, unc, start)
<1>e. t \in ended <=>
        t \in Track!In(lost) /\ (frame + 1) - after.frame > MaxTimeLost
  <2>1. ended = {s \in Track!In(lost) :
                   (frame + 1) - Rounds(first, second, unc, start)[s].frame > MaxTimeLost}
    BY Zenon DEF Ended, Track!Expired
  <2>2. \A s : s \in ended <=>
          /\ s \in Track!In(lost)
          /\ (frame + 1) - Rounds(first, second, unc, start)[s].frame > MaxTimeLost
    BY Zenon, <2>1
  <2> HIDE DEF ended
  <2>3. t \in ended <=>
          /\ t \in Track!In(lost)
          /\ (frame + 1) - Rounds(first, second, unc, start)[t].frame > MaxTimeLost
    BY <2>2
  <2> QED
    BY <2>3 DEF after
<1>o. objects[t] = IF t \in ended THEN [after EXCEPT !.state = "Removed"] ELSE after
  BY DEF Objects
<1>g. /\ gone.lost = Track!SecondRows(first) \ Track!Rows(second)
      /\ t \in gone.removed <=> t \in (Track!Unconfirmed \ Track!Rows(unc)) \union ended
  BY DEF Gone
<1>l. /\ lists.tracked[t] =
           IF t \in found \union again
              \/ (tracked[t] = 1 /\ objects[t].state = "Tracked") THEN 1 ELSE 0
      /\ lists.lost[t] =
           IF t \in gone.removed THEN 0
           ELSE (IF t \in found \union again
                    \/ (tracked[t] = 1 /\ objects[t].state = "Tracked")
                 THEN 0 ELSE lost[t]) + (IF t \in gone.lost THEN 1 ELSE 0)
  <2>1. lists = Track!Lists(objects, found, gone, again)
    BY DEF NewLists
  <2> HIDE DEF gone, again, found, objects, lists
  <2> QED
    BY <1>t, <2>1, ListsAt
<1>f. t \in found \union again <=> t \in Matched(first, second, unc) \union DOMAIN start
  BY DEF Matched, Regained
<1>u. /\ Track!Updated(trk[t], met, frame + 1).frame = frame + 1
      /\ [trk[t] EXCEPT !.state = "Lost"].state = "Lost"
      /\ [trk[t] EXCEPT !.state = "Removed"].state = "Removed"
  BY <1>t, ObjectFields
<1> DEFINE matched == Matched(first, second, unc)
<1> HIDE DEF met, after, gone, again, found, objects, lists, ended
<1>1. CASE t \in matched
  <2>1. t \notin DOMAIN start
    BY <1>1, <1>z, <1>r
  <2>2. t \notin ended
    BY <1>1, <1>e, <1>r, <1>u, <1>t
  <2>3. t \notin gone.removed
    <3>1. t \notin Track!Unconfirmed \ Track!Rows(unc)
      BY <1>1, <1>z DEF Matched
    <3> QED
      BY <3>1, <2>2, <1>g
  <2>4. t \notin gone.lost
    BY <1>1, <1>z, <1>g DEF Matched
  <2>5. /\ lists.tracked[t] = 1 /\ lists.lost[t] = 0
    BY <1>1, <1>f, <1>l, <2>3, <2>4
  <2>6. objects[t] = Track!Updated(trk[t], met, frame + 1)
    BY <1>1, <1>r, <1>o, <2>2
  <2> QED
    BY <1>1, <1>r, <2>3, <2>5, <2>6 DEF Fate, objects, lists, gone, met
<1>2. CASE t \in DOMAIN start
  <2>1. t \notin Track!In(tracked) \union Track!In(lost)
    BY <1>2, <1>z
  <2>2. t \notin ended /\ t \notin gone.removed /\ t \notin gone.lost
    BY <2>1, <1>e, <1>g, <1>z
  <2>3. lists.tracked[t] = 1 /\ lists.lost[t] = 0
    BY <1>2, <1>f, <1>l, <2>2
  <2>4. objects[t] = Track!Activated(met, frame + 1)
    BY <1>2, <1>r, <1>o, <2>2
  <2> QED
    BY <1>2, <2>2, <2>3, <2>4 DEF Fate, objects, lists, gone, met
<1>3. CASE t \in Track!Confirmed \ matched
  <2>1. /\ t \notin Track!In(lost) /\ t \notin DOMAIN start /\ t \notin Track!Unconfirmed
    BY <1>3, <1>z
  <2>2. t \notin ended /\ t \notin gone.removed
    BY <2>1, <1>e, <1>g
  <2>3. t \in gone.lost
    BY <1>3, <1>z, <1>g DEF Matched
  <2>4. objects[t] = [trk[t] EXCEPT !.state = "Lost"]
    BY <1>3, <1>r, <1>o, <2>2
  <2>5. objects[t].state # "Tracked"
    BY <2>4, <1>u
  <2>6. lists.tracked[t] = 0 /\ lists.lost[t] = 1
    BY <1>3, <1>f, <1>l, <1>t, <2>1, <2>2, <2>3, <2>5
  <2> QED
    BY <1>3, <2>2, <2>4, <2>6 DEF Fate, objects, lists, gone, met
<1>4. CASE t \in Track!Unconfirmed \ matched
  <2>1. /\ t \notin Track!In(lost) /\ t \notin DOMAIN start /\ t \notin Track!Confirmed
    BY <1>4, <1>z
  <2>2. t \notin ended /\ t \in gone.removed
    BY <1>4, <2>1, <1>e, <1>g DEF Matched
  <2>4. objects[t] = [trk[t] EXCEPT !.state = "Removed"]
    BY <1>4, <1>r, <1>o, <2>2
  <2>5. objects[t].state # "Tracked"
    BY <2>4, <1>u
  <2>6. lists.tracked[t] = 0 /\ lists.lost[t] = 0
    BY <1>4, <1>f, <1>l, <1>t, <2>1, <2>2, <2>5
  <2> QED
    BY <1>4, <2>2, <2>4, <2>6 DEF Fate, objects, lists, gone, met
<1>5. CASE t \in Track!In(lost) \ matched
  <2>1. /\ t \notin Track!In(tracked) /\ t \notin DOMAIN start
        /\ t \notin Track!Confirmed /\ t \notin Track!Unconfirmed
    BY <1>5, <1>z
  <2>2. after = trk[t]
    BY <1>5, <1>r, <2>1
  <2>3. t \notin gone.lost
    BY <1>z, <1>g, <2>1
  <2>4. trk[t].frame \in Nat
    BY <1>t DEF Track!STrack
  <2>5. CASE t \in ended
    <3>1. t \in gone.removed
      BY <2>5, <1>g
    <3>2. objects[t] = [trk[t] EXCEPT !.state = "Removed"]
      BY <2>5, <1>o, <2>2
    <3>3. lists.tracked[t] = 0 /\ lists.lost[t] = 0
      BY <1>5, <1>f, <1>l, <1>t, <2>1, <3>1
    <3> QED
      BY <1>5, <3>1, <3>2, <3>3 DEF Fate, objects, lists, gone, met
  <2>6. CASE t \notin ended
    <3>1. t \notin gone.removed
      BY <2>6, <2>1, <1>g
    <3>2. objects[t] = trk[t]
      BY <2>6, <1>o, <2>2
    <3>3. lists.tracked[t] = 0 /\ lists.lost[t] = 1
      BY <1>5, <1>f, <1>l, <1>t, <2>1, <2>3, <3>1
    <3>4. frame + 1 - trk[t].frame <= MaxTimeLost
      BY <1>5, <2>2, <2>4, <2>6, <1>e, <1>t
    <3> QED
      BY <1>5, <3>1, <3>2, <3>3, <3>4 DEF Fate, objects, lists, gone, met
  <2> QED
    BY <2>5, <2>6
<1>6. CASE t \notin Track!In(tracked) \union Track!In(lost) \union DOMAIN start
  <2>1. t \notin matched /\ t \notin Track!Confirmed /\ t \notin Track!Unconfirmed
    BY <1>6, <1>z, <1>r
  <2>2. after = trk[t]
    BY <1>6, <1>r, <2>1
  <2>3. t \notin ended /\ t \notin gone.removed /\ t \notin gone.lost
    BY <1>6, <2>1, <1>e, <1>g, <1>z
  <2>4. objects[t] = trk[t]
    BY <1>o, <2>2, <2>3
  <2>5. lists.tracked[t] = 0 /\ lists.lost[t] = 0
    BY <1>6, <1>f, <1>l, <1>t, <2>1, <2>3
  <2> QED
    BY <1>6, <2>3, <2>4, <2>5 DEF Fate, objects, lists, gone, met
<1> QED
  BY <1>1, <1>2, <1>3, <1>4, <1>5, <1>6, <1>z
-----------------------------------------------------------------------------
(* A step of the tracker.                                                  *)

UpdateStep(score, first, second, unc, start, close) ==
    /\ Association(score, first, second, unc, start)
    /\ Outcome(first, second, unc, start, close)
    /\ frame < MaxFrame /\ frame' = frame + 1
    /\ next_id' = next_id + Track!Cardinality(Fresh(score, unc))

\* The module's own Cardinality is that of FiniteSets.
LEMMA SameCardinality == \A S : Track!Cardinality(S) = Cardinality(S)
BY DEF Track!Cardinality, Cardinality

\* Every fresh detection starts one track, and each of these has a number
\* that comes next.
LEMMA NewNumbers ==
  ASSUME Track!TrackInvariant, NEW score, NEW first, NEW second, NEW unc, NEW start,
         Association(score, first, second, unc, start)
  PROVE  /\ Track!Cardinality(Fresh(score, unc)) \in Nat
         /\ \A t \in Track!Ids : t \in DOMAIN start <=>
              t >= next_id /\ t < next_id + Track!Cardinality(Fresh(score, unc))
         /\ \A t \in DOMAIN start :
              /\ start[t] \in Track!FreeColumns(unc)
              /\ start[t] \in Track!FreeColumns(first)
              /\ start[t] \in High(score)
         /\ \A t, s \in DOMAIN start : start[t] = start[s] => t = s
<1> DEFINE fresh == Fresh(score, unc)
           card == Track!Cardinality(fresh)
           numbers == {t \in Track!Ids : t >= next_id /\ t < next_id + card}
<1>1. /\ fresh \subseteq Track!FreeColumns(unc)
      /\ Track!FreeColumns(unc) \subseteq Track!FreeColumns(first)
      /\ Track!FreeColumns(first) \subseteq High(score)
      /\ High(score) \subseteq 1..MaxDets
  <2>1. Track!FreeColumns(unc) \subseteq Track!UnconfirmedColumns(High(score), first)
    BY Columns DEF Association
  <2>2. Track!FreeColumns(first) \subseteq High(score)
    BY Columns DEF Association
  <2> QED
    BY <2>1, <2>2 DEF Fresh, Track!UnconfirmedColumns, High, Track!Dets
<1>2. card \in Nat
  <2>1. IsFiniteSet(1..MaxDets)
    BY TrackAssumption, FS_Interval DEF Track!TrackAssumption
  <2>2. fresh \subseteq 1..MaxDets
    BY <1>1
  <2> HIDE DEF fresh
  <2> QED
    BY <2>1, <2>2, FS_Subset, FS_CardinalityType, SameCardinality
<1>3. next_id \in Nat /\ Track!Ids \subseteq Nat
  BY DEF Track!TrackInvariant, Track!TypeOK, Track!Ids
<1>4. start = [t \in numbers |->
                 CHOOSE d \in fresh :
                   Track!Cardinality({e \in fresh : e < d}) = t - next_id]
  BY Zenon DEF Association, Track!Started
<1>5. DOMAIN start = numbers
  <2> HIDE DEF numbers
  <2> QED
    BY <1>4
<1>6. ASSUME NEW t \in numbers
      PROVE  start[t] \in fresh /\ Rank(fresh, start[t]) = t - next_id
  <2>1. start[t] = CHOOSE d \in fresh :
                     Track!Cardinality({e \in fresh : e < d}) = t - next_id
    <3> HIDE DEF fresh, numbers
    <3> QED
      BY <1>4
  <2>2. t - next_id \in 0..(Cardinality(fresh) - 1)
    BY <1>2, <1>3, SameCardinality
  <2>3. \E d \in fresh : Rank(fresh, d) = t - next_id
    <3>1. fresh \subseteq Int /\ IsFiniteSet(fresh)
      <4>1. IsFiniteSet(1..MaxDets) /\ 1..MaxDets \subseteq Int
        BY TrackAssumption, FS_Interval DEF Track!TrackAssumption
      <4>2. fresh \subseteq 1..MaxDets
        BY <1>1
      <4> HIDE DEF fresh
      <4> QED
        BY <4>1, <4>2, FS_Subset
    <3> HIDE DEF fresh
    <3> QED
      BY <2>2, <3>1, RanksTaken
  <2>4. \A d \in fresh : Track!Cardinality({e \in fresh : e < d}) = Rank(fresh, d)
    BY SameCardinality DEF Rank
  <2> HIDE DEF fresh
  <2> QED
    BY <2>1, <2>3, <2>4
<1>7. ASSUME NEW t \in numbers, NEW s \in numbers, start[t] = start[s] PROVE t = s
  <2>1. t - next_id = s - next_id
    BY <1>6, <1>7
  <2>2. t \in Nat /\ s \in Nat
    BY <1>3
  <2> QED
    BY <2>1, <2>2, <1>3
<1> HIDE DEF numbers, card
<1>8. /\ Track!Cardinality(fresh) \in Nat
      /\ \A t \in Track!Ids : t \in DOMAIN start <=>
           t >= next_id /\ t < next_id + Track!Cardinality(fresh)
  BY <1>2, <1>5, SameCardinality DEF card, numbers
<1> QED
  BY <1>1, <1>5, <1>6, <1>7, <1>8

\* The detection of a track is one of the frame, and that of no other track.
LEMMA OwnDetection ==
  ASSUME Track!TrackInvariant, NEW score, NEW first, NEW second, NEW unc, NEW start,
         Association(score, first, second, unc, start)
  PROVE  LET seen == Matched(first, second, unc) \union DOMAIN start
             met(t) == Detection(first, second, unc, start, t)
         IN  /\ \A t \in seen : met(t) \in 1..MaxDets
             /\ \A t, s \in seen : met(t) = met(s) => t = s
<1> DEFINE met(t) == Detection(first, second, unc, start, t)
           seen == Matched(first, second, unc) \union DOMAIN start
           InFirst(t)  == met(t) \in High(score) /\ first[met(t)] = t /\ t # 0
           InSecond(t) == met(t) \in Low(score) /\ second[met(t)] = t
           InThird(t)  == /\ met(t) \in High(score) /\ first[met(t)] = 0
                          /\ unc[met(t)] = t /\ t # 0
           InStart(t)  == /\ met(t) \in High(score) /\ first[met(t)] = 0
                          /\ unc[met(t)] = 0
                          /\ t \in DOMAIN start /\ met(t) = start[t]
<1>h. /\ High(score) \subseteq 1..MaxDets /\ Low(score) \subseteq 1..MaxDets
      /\ High(score) \cap Low(score) = {}
  BY DEF High, Low, Track!Dets
<1>f. /\ Track!FreeColumns(first) = {c \in High(score) : first[c] = 0}
      /\ \A t \in Track!Rows(first) :
           /\ Track!Column(first, t) \in High(score)
           /\ first[Track!Column(first, t)] = t /\ t # 0
      /\ \A t \in Track!Rows(second) :
           /\ Track!Column(second, t) \in Low(score)
           /\ second[Track!Column(second, t)] = t
      /\ \A t \in Track!Rows(unc) :
           /\ Track!Column(unc, t) \in Track!FreeColumns(first)
           /\ unc[Track!Column(unc, t)] = t /\ t # 0
      /\ \A c \in Track!FreeColumns(unc) : unc[c] = 0
  BY Columns DEF Association, Track!UnconfirmedColumns, Track!FreeColumns
<1>n. /\ \A t \in DOMAIN start :
            /\ start[t] \in Track!FreeColumns(unc)
            /\ start[t] \in Track!FreeColumns(first)
      /\ \A t, s \in DOMAIN start : start[t] = start[s] => t = s
  BY NewNumbers
<1>1. ASSUME NEW t \in seen
      PROVE  InFirst(t) \/ InSecond(t) \/ InThird(t) \/ InStart(t)
  <2>1. CASE t \in Track!Rows(first)
    BY <2>1, <1>f DEF Detection
  <2>2. CASE t \notin Track!Rows(first) /\ t \in Track!Rows(second)
    BY <2>2, <1>f DEF Detection
  <2>3. CASE /\ t \notin Track!Rows(first) /\ t \notin Track!Rows(second)
             /\ t \in Track!Rows(unc)
    BY <2>3, <1>f DEF Detection
  <2>4. CASE /\ t \notin Track!Rows(first) /\ t \notin Track!Rows(second)
             /\ t \notin Track!Rows(unc)
    <3>1. t \in DOMAIN start /\ met(t) = start[t]
      BY <2>4 DEF Matched, Detection
    <3> QED
      BY <3>1, <1>f, <1>n
  <2> QED
    BY <2>1, <2>2, <2>3, <2>4
<1> HIDE DEF met
<1>2. \A t \in seen : met(t) \in 1..MaxDets
  BY <1>1, <1>h
<1>3. ASSUME NEW t \in seen, NEW s \in seen, met(t) = met(s) PROVE t = s
  <2>1. CASE InFirst(t)
    BY <2>1, <1>1, <1>3, <1>h
  <2>2. CASE InSecond(t)
    BY <2>2, <1>1, <1>3, <1>h
  <2>3. CASE InThird(t)
    BY <2>3, <1>1, <1>3, <1>h
  <2>4. CASE InStart(t)
    BY <2>4, <1>1, <1>3, <1>h, <1>n
  <2> QED
    BY <1>1, <2>1, <2>2, <2>3, <2>4
<1> HIDE DEF seen
<1> QED
  BY <1>2, <1>3 DEF met, seen

\* What a step makes of a track.  A track that would be in a list may still
\* be dropped as a duplicate.
Move(t, object, inTracked, inLost, isGone) ==
    /\ trk'[t] = object
    /\ tracked'[t] \in {0, inTracked} /\ lost'[t] \in {0, inLost}
    /\ removed'[t] = removed[t] + (IF isGone THEN 1 ELSE 0)
    /\ out'[t] = IF object.activated THEN tracked'[t] ELSE 0

LEMMA Moves ==
  ASSUME Track!TrackInvariant,
         NEW score, NEW first, NEW second, NEW unc, NEW start, NEW close,
         UpdateStep(score, first, second, unc, start, close), NEW t \in Track!Ids
  PROVE  LET met == Detection(first, second, unc, start, t) IN
         \/ /\ t \in Matched(first, second, unc)
            /\ t \in Track!In(tracked) \union Track!In(lost)
            /\ Move(t, Track!Updated(trk[t], met, frame + 1), 1, 0, FALSE)
         \/ /\ t \in DOMAIN start
            /\ Move(t, Track!Activated(met, frame + 1), 1, 0, FALSE)
         \/ /\ t \in Track!Confirmed
            /\ Move(t, [trk[t] EXCEPT !.state = "Lost"], 0, 1, FALSE)
         \/ /\ t \in Track!Unconfirmed
            /\ Move(t, [trk[t] EXCEPT !.state = "Removed"], 0, 0, TRUE)
         \/ /\ t \in Track!In(lost) /\ frame + 1 - trk[t].frame <= MaxTimeLost
            /\ Move(t, trk[t], 0, 1, FALSE)
         \/ /\ t \in Track!In(lost)
            /\ Move(t, [trk[t] EXCEPT !.state = "Removed"], 0, 0, TRUE)
         \/ /\ t \notin Track!In(tracked) \union Track!In(lost) \union DOMAIN start
            /\ Move(t, trk[t], 0, 0, FALSE)
<1> DEFINE objects == Objects(first, second, unc, start)
           lists == NewLists(first, second, unc, start)
           gone == Gone(first, second, unc, start).removed
<1>1. /\ trk' = objects
      /\ removed' = Track!Insert(removed, Track!Once(gone))
      /\ tracked' = Track!Only(lists.tracked, Track!Ids \ Track!DropTracked(objects, close))
      /\ lost' = Track!Only(lists.lost, Track!Ids \ Track!DropLost(objects, close))
      /\ out' = Track!Only(tracked', {s \in Track!Ids : trk'[s].activated})
  BY Zenon DEF UpdateStep, Outcome
<1> HIDE DEF objects, lists, gone
<1>2. removed'[t] = removed[t] + (IF t \in gone THEN 1 ELSE 0)
  <2>1. removed'[t] = removed[t] + Track!Once(gone)[t]
    BY <1>1 DEF Track!Insert
  <2>2. Track!Once(gone)[t] = IF t \in gone THEN 1 ELSE 0
    BY DEF Track!Once
  <2> QED
    BY <2>1, <2>2
<1>3. tracked'[t] \in {0, lists.tracked[t]} /\ lost'[t] \in {0, lists.lost[t]}
  BY <1>1 DEF Track!Only
<1>4. out'[t] = IF trk'[t].activated THEN tracked'[t] ELSE 0
  BY <1>1 DEF Track!Only
<1>5. ASSUME NEW object, NEW inTracked, NEW inLost, NEW isGone,
             Fate(first, second, unc, start, t, object, inTracked, inLost, isGone)
      PROVE  Move(t, object, inTracked, inLost, isGone)
  <2>1. /\ trk'[t] = object /\ lists.tracked[t] = inTracked /\ lists.lost[t] = inLost
        /\ t \in gone <=> isGone
    BY <1>1, <1>5 DEF Fate, objects, lists, gone
  <2>2. removed'[t] = removed[t] + (IF isGone THEN 1 ELSE 0)
    BY <1>2, <2>1
  <2> QED
    BY <1>3, <1>4, <2>1, <2>2 DEF Move
<1>6. Association(score, first, second, unc, start)
  BY DEF UpdateStep
<1> QED
  BY <1>5, <1>6, Fates

\* The invariant in a form the provers use: what each track was, and what
\* the detections and numbers of the step are.
LEMMA Before ==
  ASSUME Track!TrackInvariant, NEW t \in Track!Ids
  PROVE  /\ trk[t] \in Track!STrack /\ t \in Nat
         /\ trk[t].frame \in Nat /\ trk[t].start \in Nat
         /\ trk[t].start <= trk[t].frame /\ trk[t].frame <= frame
         /\ tracked[t] \in 0..1 /\ lost[t] \in 0..1 /\ removed[t] \in 0..1
         /\ out[t] \in 0..1
         /\ t \in Track!In(tracked) <=> tracked[t] = 1
         /\ t \in Track!In(lost) <=> lost[t] = 1
         /\ t \in Track!In(tracked) \union Track!In(lost) => removed[t] = 0
         /\ removed[t] = 1 => trk[t].state = "Removed"
         /\ t \in Track!In(tracked) => trk[t].frame = frame
         /\ t \in Track!In(lost) => trk[t].state = "Lost" /\ trk[t].activated
         /\ t >= next_id => /\ trk[t] = Track!Unused /\ removed[t] = 0
                            /\ tracked[t] = 0 /\ lost[t] = 0
         /\ frame \in Nat /\ MaxFrame \in Nat /\ next_id \in Nat /\ MaxTimeLost \in Nat
<1>1. /\ trk[t] \in Track!STrack /\ t \in Nat
      /\ tracked[t] \in 0..1 /\ lost[t] \in 0..1 /\ removed[t] \in 0..1
      /\ out[t] \in 0..1
      /\ frame \in Nat /\ MaxFrame \in Nat /\ next_id \in Nat /\ MaxTimeLost \in Nat
  BY TrackAssumption DEF Track!TrackInvariant, Track!TypeOK, Track!Ids,
     Track!TrackAssumption
<1>2. trk[t].frame \in Nat /\ trk[t].start \in Nat
  BY <1>1 DEF Track!STrack
<1>3. trk[t].start <= trk[t].frame /\ trk[t].frame <= frame
  BY DEF Track!TrackInvariant, Track!LifeSoFar
<1>4. /\ t \in Track!In(tracked) <=> tracked[t] = 1
      /\ t \in Track!In(lost) <=> lost[t] = 1
      /\ t \in Track!In(removed) <=> removed[t] = 1
  BY <1>1 DEF Track!In
<1>5. /\ tracked[t] + lost[t] + removed[t] <= 1
      /\ removed[t] = 1 => trk[t].state = "Removed"
      /\ t \in Track!In(lost) => trk[t].state = "Lost" /\ trk[t].activated
  BY <1>4 DEF Track!TrackInvariant, Track!ListsPartition
<1>6. t \in Track!In(tracked) => trk[t].frame = frame
  BY DEF Track!TrackInvariant, Track!SeenNow
<1>7. t >= next_id => trk[t] = Track!Unused /\ tracked[t] + lost[t] + removed[t] = 0
  BY DEF Track!TrackInvariant, Track!FreshUnused
<1> QED
  BY <1>1, <1>2, <1>3, <1>4, <1>5, <1>6, <1>7

\* What holds of one track after a step.
After(t) ==
    /\ trk'[t] \in Track!STrack
    /\ tracked'[t] \in 0..1 /\ lost'[t] \in 0..1 /\ removed'[t] \in 0..1
    /\ out'[t] = IF trk'[t].activated THEN tracked'[t] ELSE 0
    /\ tracked'[t] + lost'[t] + removed'[t] <= 1
    /\ tracked'[t] > 0 => trk'[t].state = "Tracked"
    /\ lost'[t] > 0 => trk'[t].state = "Lost" /\ trk'[t].activated
    /\ removed'[t] > 0 => trk'[t].state = "Removed"
    /\ t >= next_id' => trk'[t] = Track!Unused /\ tracked'[t] + lost'[t] + removed'[t] = 0
    /\ trk'[t].start <= trk'[t].frame /\ trk'[t].frame <= frame'
    /\ tracked'[t] > 0 /\ trk'[t].activated =>
         trk'[t].start < frame' \/ (trk'[t].start = 1 /\ frame' = 1)
    /\ lost'[t] > 0 =>
         frame' - trk'[t].frame <= (IF MaxTimeLost = 0 THEN 1 ELSE MaxTimeLost)
    /\ tracked'[t] > 0 => trk'[t].frame = frame'
    /\ t < next_id /\ tracked[t] = 0 /\ lost[t] = 0 => tracked'[t] = 0 /\ lost'[t] = 0

LEMMA TrackAfter ==
  ASSUME Track!TrackInvariant,
         NEW score, NEW first, NEW second, NEW unc, NEW start, NEW close,
         UpdateStep(score, first, second, unc, start, close), NEW t \in Track!Ids
  PROVE  After(t)
<1> DEFINE met == Detection(first, second, unc, start, t)
           card == Track!Cardinality(Fresh(score, unc))
<1>b. /\ trk[t] \in Track!STrack /\ t \in Nat
      /\ trk[t].frame \in Nat /\ trk[t].start \in Nat
      /\ trk[t].start <= trk[t].frame /\ trk[t].frame <= frame
      /\ tracked[t] \in 0..1 /\ lost[t] \in 0..1 /\ removed[t] \in 0..1
      /\ t \in Track!In(tracked) <=> tracked[t] = 1
      /\ t \in Track!In(lost) <=> lost[t] = 1
      /\ t \in Track!In(tracked) \union Track!In(lost) => removed[t] = 0
      /\ removed[t] = 1 => trk[t].state = "Removed"
      /\ t \in Track!In(tracked) => trk[t].frame = frame
      /\ t \in Track!In(lost) => trk[t].state = "Lost" /\ trk[t].activated
      /\ t >= next_id => /\ trk[t] = Track!Unused /\ removed[t] = 0
                         /\ tracked[t] = 0 /\ lost[t] = 0
      /\ frame \in Nat /\ next_id \in Nat /\ MaxTimeLost \in Nat
  BY Before
<1>s. /\ Association(score, first, second, unc, start)
      /\ frame' = frame + 1 /\ next_id' = next_id + card /\ card \in Nat
      /\ t \in DOMAIN start <=> t >= next_id /\ t < next_id'
  <2>1. /\ Association(score, first, second, unc, start)
        /\ frame' = frame + 1 /\ next_id' = next_id + card
    BY Zenon DEF UpdateStep
  <2>2. /\ card \in Nat
        /\ t \in DOMAIN start <=> t >= next_id /\ t < next_id + card
    BY <2>1, NewNumbers
  <2> HIDE DEF card
  <2> QED
    BY <2>1, <2>2
<1>d. t \in Matched(first, second, unc) \union DOMAIN start => met \in 1..MaxDets
  BY <1>s, OwnDetection
<1>m. MaxDets \in Nat
  BY TrackAssumption DEF Track!TrackAssumption
<1> HIDE DEF met, card
<1>1. CASE /\ t \in Matched(first, second, unc)
           /\ t \in Track!In(tracked) \union Track!In(lost)
           /\ Move(t, Track!Updated(trk[t], met, frame + 1), 1, 0, FALSE)
  <2> DEFINE object == Track!Updated(trk[t], met, frame + 1)
  <2>1. object = [state |-> "Tracked", activated |-> TRUE, frame |-> frame + 1,
                  start |-> trk[t].start, obs |-> met]
    BY DEF Track!Updated
  <2> HIDE DEF object
  <2>0. met \in 0..MaxDets /\ frame + 1 \in Nat
    BY <1>1, <1>b, <1>d, <1>m
  <2>2. object \in Track!STrack
    BY <1>b, <2>0, <2>1 DEF Track!STrack
  <2>3. /\ trk'[t] = object /\ tracked'[t] \in 0..1 /\ lost'[t] = 0
        /\ removed'[t] = 0 /\ out'[t] = IF object.activated THEN tracked'[t] ELSE 0
    BY <1>1, <1>b DEF Move, object
  <2>4. ~ (t >= next_id')
    BY <1>1, <1>b, <1>s
  <2> QED
    BY <1>1, <1>b, <1>s, <2>1, <2>2, <2>3, <2>4 DEF After
<1>2. CASE /\ t \in DOMAIN start
           /\ Move(t, Track!Activated(met, frame + 1), 1, 0, FALSE)
  <2> DEFINE object == Track!Activated(met, frame + 1)
  <2>1. object = [state |-> "Tracked", activated |-> (frame + 1 = 1), frame |-> frame + 1,
                  start |-> frame + 1, obs |-> met]
    BY DEF Track!Activated
  <2> HIDE DEF object
  <2>0. met \in 0..MaxDets /\ frame + 1 \in Nat
    BY <1>2, <1>b, <1>d, <1>m
  <2>2. object \in Track!STrack
    BY <1>b, <2>0, <2>1 DEF Track!STrack
  <2>3. /\ trk'[t] = object /\ tracked'[t] \in 0..1 /\ lost'[t] = 0
        /\ removed'[t] = 0 /\ out'[t] = IF object.activated THEN tracked'[t] ELSE 0
    BY <1>2, <1>b, <1>s DEF Move, object
  <2>5. /\ object.state = "Tracked" /\ object.start = frame + 1 /\ object.frame = frame + 1
        /\ object.activated => frame + 1 = 1
    BY <2>1
  <2> QED
    BY <1>2, <1>b, <1>s, <2>2, <2>3, <2>5 DEF After
<1>3. CASE /\ t \in Track!Confirmed
           /\ Move(t, [trk[t] EXCEPT !.state = "Lost"], 0, 1, FALSE)
  <2> DEFINE object == [trk[t] EXCEPT !.state = "Lost"]
  <2>1. object = [state |-> "Lost", activated |-> trk[t].activated,
                  frame |-> trk[t].frame, start |-> trk[t].start, obs |-> trk[t].obs]
    BY <1>b, ObjectFields
  <2>2. object \in Track!STrack
    BY <1>b, <2>1 DEF Track!STrack
  <2>3. tracked[t] = 1 /\ trk[t].activated
    BY <1>3, <1>b DEF Track!Confirmed, Track!Unconfirmed
  <2> HIDE DEF object
  <2>4. /\ trk'[t] = object /\ tracked'[t] = 0 /\ lost'[t] \in 0..1
        /\ removed'[t] = 0 /\ out'[t] = IF object.activated THEN tracked'[t] ELSE 0
    BY <1>3, <1>b, <2>3 DEF Move, object
  <2>5. ~ (t >= next_id')
    BY <2>3, <1>b, <1>s
  <2>6. /\ object.state = "Lost" /\ object.activated /\ object.start = trk[t].start
        /\ object.frame = frame
    BY <1>b, <2>1, <2>3
  <2>7. frame' - object.frame <= (IF MaxTimeLost = 0 THEN 1 ELSE MaxTimeLost)
    BY <1>b, <1>s, <2>6
  <2> QED
    BY <1>b, <1>s, <2>2, <2>3, <2>4, <2>5, <2>6, <2>7 DEF After
<1>4. CASE /\ t \in Track!Unconfirmed \union Track!In(lost)
           /\ Move(t, [trk[t] EXCEPT !.state = "Removed"], 0, 0, TRUE)
  <2> DEFINE object == [trk[t] EXCEPT !.state = "Removed"]
  <2>1. object = [state |-> "Removed", activated |-> trk[t].activated,
                  frame |-> trk[t].frame, start |-> trk[t].start, obs |-> trk[t].obs]
    BY <1>b, ObjectFields
  <2>2. object \in Track!STrack
    BY <1>b, <2>1 DEF Track!STrack
  <2>3. removed[t] = 0 /\ (tracked[t] = 1 \/ lost[t] = 1)
    BY <1>4, <1>b DEF Track!Unconfirmed
  <2> HIDE DEF object
  <2>4. /\ trk'[t] = object /\ tracked'[t] = 0 /\ lost'[t] = 0
        /\ removed'[t] = 1 /\ out'[t] = IF object.activated THEN tracked'[t] ELSE 0
    BY <1>4, <1>b, <2>3 DEF Move, object
  <2>5. ~ (t >= next_id')
    BY <2>3, <1>b, <1>s
  <2> QED
    BY <1>b, <1>s, <2>1, <2>2, <2>4, <2>5 DEF After
<1>5. CASE /\ t \in Track!In(lost) /\ frame + 1 - trk[t].frame <= MaxTimeLost
           /\ Move(t, trk[t], 0, 1, FALSE)
  <2>1. /\ trk'[t] = trk[t] /\ tracked'[t] = 0 /\ lost'[t] \in 0..1
        /\ removed'[t] = 0 /\ out'[t] = IF trk[t].activated THEN tracked'[t] ELSE 0
    BY <1>5, <1>b DEF Move
  <2>2. ~ (t >= next_id')
    BY <1>5, <1>b, <1>s
  <2> QED
    BY <1>5, <1>b, <1>s, <2>1, <2>2 DEF After
<1>6. CASE /\ t \notin Track!In(tracked) \union Track!In(lost) \union DOMAIN start
           /\ Move(t, trk[t], 0, 0, FALSE)
  <2>1. /\ trk'[t] = trk[t] /\ tracked'[t] = 0 /\ lost'[t] = 0
        /\ removed'[t] = removed[t]
        /\ out'[t] = IF trk[t].activated THEN tracked'[t] ELSE 0
    BY <1>6, <1>b DEF Move
  <2> QED
    BY <1>6, <1>b, <1>s, <2>1 DEF After
<1> QED
  BY <1>1, <1>2, <1>3, <1>4, <1>5, <1>6, Moves DEF met

\* Of a finite set of lives one is the longest.
LEMMA LongestLife ==
  ASSUME NEW objects, NEW S, S # {}, NEW limit \in Nat,
         \A s \in S : Track!Life(objects[s]) \in 0..limit
  PROVE  \E s \in S :
           /\ Track!MaxLife(objects, S) = Track!Life(objects[s])
           /\ \A r \in S : Track!Life(objects[r]) <= Track!Life(objects[s])
<1> DEFINE lives == {Track!Life(objects[s]) : s \in S}
<1>1. lives \subseteq Int /\ lives # {} /\ IsFiniteSet(lives)
  <2>1. lives \subseteq 0..limit /\ lives # {}
    <3> HIDE DEF Track!Life
    <3> QED
      OBVIOUS
  <2>2. IsFiniteSet(0..limit) /\ 0..limit \subseteq Int
    BY FS_Interval
  <2> HIDE DEF lives
  <2> QED
    BY <2>1, <2>2, FS_Subset
<1>2. PICK n \in lives : \A m \in lives : m <= n
  <2> HIDE DEF lives
  <2> QED
    BY <1>1, Largest
<1>3. \E s \in S : \A r \in S : Track!Life(objects[r]) <= Track!Life(objects[s])
  BY <1>2
<1> DEFINE top == CHOOSE s \in S : \A r \in S : Track!Life(objects[r]) <= Track!Life(objects[s])
<1>4. top \in S /\ \A r \in S : Track!Life(objects[r]) <= Track!Life(objects[top])
  BY <1>3
<1>5. Track!MaxLife(objects, S) = Track!Life(objects[top])
  BY DEF Track!MaxLife
<1> QED
  BY <1>4, <1>5

\* Of the tracks that were in the lists before remove_duplicates, one that
\* lived longest is left.
LEMMA LongestStays ==
  ASSUME Track!TrackInvariant,
         NEW score, NEW first, NEW second, NEW unc, NEW start, NEW close,
         UpdateStep(score, first, second, unc, start, close)
  PROVE  /\ oldest' \in -1..MaxFrame
         /\ Track!LongestLivedStays'
<1> DEFINE objects == Objects(first, second, unc, start)
           lists == NewLists(first, second, unc, start)
           shown == Track!In(lists.tracked)
           away == Track!In(lists.lost)
           droppedShown == Track!DropTracked(objects, close)
           droppedAway == Track!DropLost(objects, close)
           L(t) == Track!Life(objects[t])
<1>1. /\ trk' = objects /\ close \subseteq shown \X away
      /\ tracked' = Track!Only(lists.tracked, Track!Ids \ droppedShown)
      /\ lost' = Track!Only(lists.lost, Track!Ids \ droppedAway)
      /\ oldest' = Track!MaxLife(objects, shown \union away)
  BY Zenon DEF UpdateStep, Outcome
<1>2. MaxFrame \in Nat /\ frame \in Nat /\ frame' \in Nat /\ frame' <= MaxFrame
  BY TrackAssumption DEF Track!TrackAssumption, Track!TrackInvariant, Track!TypeOK,
     UpdateStep
<1>3. shown \subseteq Track!Ids /\ away \subseteq Track!Ids
  BY DEF Track!In
<1>4. \A t \in Track!Ids : L(t) \in 0..MaxFrame
  <2> SUFFICES ASSUME NEW t \in Track!Ids PROVE L(t) \in 0..MaxFrame
    OBVIOUS
  <2>1. After(t)
    BY TrackAfter
  <2>2. /\ trk'[t].frame \in Nat /\ trk'[t].start \in Nat
        /\ trk'[t].start <= trk'[t].frame /\ trk'[t].frame <= frame'
    BY <2>1 DEF After, Track!STrack
  <2>3. objects[t] = trk'[t]
    BY <1>1
  <2> HIDE DEF objects
  <2> QED
    BY <2>2, <2>3, <1>2 DEF Track!Life
<1>5. /\ \A t \in shown \ droppedShown : t \in Track!In(tracked')
      /\ \A t \in away \ droppedAway : t \in Track!In(lost')
  <2> HIDE DEF objects, lists, droppedShown, droppedAway
  <2>1. \A t \in Track!Ids \ droppedShown : tracked'[t] = lists.tracked[t]
    BY <1>1 DEF Track!Only
  <2>2. \A t \in Track!Ids \ droppedAway : lost'[t] = lists.lost[t]
    BY <1>1 DEF Track!Only
  <2> QED
    BY <2>1, <2>2 DEF Track!In
<1>6. /\ \A t \in droppedShown : \E s \in away : L(t) <= L(s)
      /\ \A t \in droppedAway : \E s \in shown : L(s) > L(t)
  <2> HIDE DEF objects, shown, away, Track!Life
  <2>1. \A q \in close : q[1] \in shown /\ q[2] \in away
    BY <1>1
  <2>2. \A t \in droppedShown : \E q \in close : t = q[1] /\ L(q[1]) <= L(q[2])
    BY DEF Track!DropTracked
  <2>3. \A t \in droppedAway : \E q \in close : t = q[2] /\ L(q[1]) > L(q[2])
    BY DEF Track!DropLost
  <2> HIDE DEF droppedShown, droppedAway, L
  <2> QED
    BY <2>1, <2>2, <2>3
<1> DEFINE stay == Track!In(tracked') \union Track!In(lost')
<1>7. CASE shown \union away = {}
  <2>1. oldest' = -1
    BY <1>1, <1>7 DEF Track!MaxLife
  <2> QED
    BY <2>1, <1>2 DEF Track!LongestLivedStays
<1>8. CASE shown \union away # {}
  <2>1. PICK t \in shown \union away :
          /\ Track!MaxLife(objects, shown \union away) = L(t)
          /\ \A r \in shown \union away : L(r) <= L(t)
    <3>1. \A s \in shown \union away : Track!Life(objects[s]) \in 0..MaxFrame
      BY <1>3, <1>4
    <3> HIDE DEF objects, shown, away
    <3> QED
      BY <1>2, <1>8, <3>1, LongestLife
  <2>2. oldest' = L(t) /\ L(t) \in 0..MaxFrame
    BY <1>1, <1>3, <1>4, <2>1
  <2>3. \E s \in stay : L(s) = L(t)
    <3> HIDE DEF objects, shown, away, droppedShown, droppedAway, L, stay
    <3>0. \A s \in shown \union away : L(s) \in Int
      BY <1>3, <1>4
    <3>1. CASE \E s \in away : L(s) = L(t)
      <4>1. PICK s \in away : L(s) = L(t)
        BY <3>1
      <4>2. s \notin droppedAway
        BY <1>6, <2>1, <4>1, <3>0
      <4> QED
        BY <1>5, <4>1, <4>2 DEF stay
    <3>2. CASE ~ \E s \in away : L(s) = L(t)
      <4>1. t \in shown
        BY <3>2, <2>1
      <4>2. t \notin droppedShown
        BY <1>6, <2>1, <3>2, <4>1, <3>0
      <4> QED
        BY <1>5, <4>1, <4>2 DEF stay
    <3> QED
      BY <3>1, <3>2
  <2>4. \E s \in stay : Track!Life(trk'[s]) = oldest'
    BY <1>1, <2>2, <2>3
  <2> HIDE DEF objects, shown, away, droppedShown, droppedAway, L
  <2> QED
    BY <2>2, <2>4 DEF Track!LongestLivedStays, Track!In
<1> QED
  BY <1>7, <1>8

\* Two tracks of a frame have two detections.
LEMMA TracksSeen ==
  ASSUME Track!TrackInvariant,
         NEW score, NEW first, NEW second, NEW unc, NEW start, NEW close,
         UpdateStep(score, first, second, unc, start, close)
  PROVE  Track!SeenNow'
<1> DEFINE seen == Matched(first, second, unc) \union DOMAIN start
           met(t) == Detection(first, second, unc, start, t)
<1>1. Association(score, first, second, unc, start)
  BY Zenon DEF UpdateStep
<1>2. /\ \A t \in seen : met(t) \in 1..MaxDets
      /\ \A t, s \in seen : met(t) = met(s) => t = s
  BY <1>1, OwnDetection
<1>3. ASSUME NEW t \in Track!In(tracked)'
      PROVE  /\ t \in seen /\ trk'[t].obs = met(t) /\ trk'[t].frame = frame'
  <2>1. t \in Track!Ids /\ tracked'[t] > 0
    BY DEF Track!In
  <2>2. After(t)
    BY <2>1, TrackAfter
  <2>3. \/ /\ t \in Matched(first, second, unc)
           /\ Move(t, Track!Updated(trk[t], met(t), frame + 1), 1, 0, FALSE)
        \/ /\ t \in DOMAIN start
           /\ Move(t, Track!Activated(met(t), frame + 1), 1, 0, FALSE)
    <3>1. \A object, inLost, isGone : ~ Move(t, object, 0, inLost, isGone)
      BY <2>1 DEF Move
    <3> HIDE DEF met
    <3> QED
      BY <2>1, <3>1, Moves DEF met
  <2>4. /\ Track!Updated(trk[t], met(t), frame + 1).obs = met(t)
        /\ Track!Activated(met(t), frame + 1).obs = met(t)
    BY DEF Track!Updated, Track!Activated
  <2> HIDE DEF met
  <2>5. t \in seen /\ trk'[t].obs = met(t)
    BY <2>3, <2>4 DEF Move
  <2> QED
    BY <2>1, <2>2, <2>5 DEF After
<1> HIDE DEF seen, met
<1>4. \A t \in Track!In(tracked)' : trk'[t].frame = frame' /\ trk'[t].obs # 0
  BY <1>2, <1>3
<1>5. \A t, s \in Track!In(tracked)' : trk'[t].obs = trk'[s].obs => t = s
  BY <1>2, <1>3
<1> QED
  BY <1>4, <1>5 DEF Track!SeenNow

\* A step of the tracker keeps its invariant and resurrects nobody.
LEMMA UpdateKeeps ==
  ASSUME Track!TrackInvariant, NEW score \in [Track!Dets -> Track!Score],
         Track!Update(score)
  PROVE  /\ Track!TrackInvariant' /\ Track!StaysGone
         /\ next_id' \in Nat /\ next_id <= next_id'
<1>1. PICK first, second, unc, start, close :
        UpdateStep(score, first, second, unc, start, close)
  BY UpdateAsOutcome DEF UpdateStep
<1>2. \A t \in Track!Ids : After(t)
  BY <1>1, TrackAfter
<1> DEFINE card == Track!Cardinality(Fresh(score, unc))
<1>3. /\ frame < MaxFrame /\ frame' = frame + 1 /\ next_id' = next_id + card
      /\ card \in Nat /\ next_id + card <= MaxIds + 1
      /\ frame \in Nat /\ next_id \in 1..(MaxIds + 1) /\ MaxIds \in Nat /\ MaxFrame \in Nat
  <2>1. Association(score, first, second, unc, start)
    BY <1>1 DEF UpdateStep
  <2> QED
    BY <1>1, <2>1, NewNumbers, TrackAssumption DEF UpdateStep, Association,
       Track!TrackInvariant, Track!TypeOK, Track!TrackAssumption
<1> HIDE DEF card
<1>n. next_id' \in 1..(MaxIds + 1) /\ next_id <= next_id'
  BY <1>3
<1>4. Track!TypeOK'
  <2>1. frame' \in 0..MaxFrame
    BY <1>3
  <2>2. /\ trk' = [t \in Track!Ids |-> trk'[t]]
        /\ tracked' = [t \in Track!Ids |-> tracked'[t]]
        /\ lost' = [t \in Track!Ids |-> lost'[t]]
        /\ removed' = [t \in Track!Ids |-> removed'[t]]
        /\ out' = [t \in Track!Ids |-> out'[t]]
    <3>1. /\ trk' = Objects(first, second, unc, start)
          /\ removed' = Track!Insert(removed,
                          Track!Once(Gone(first, second, unc, start).removed))
          /\ tracked' = Track!Only(NewLists(first, second, unc, start).tracked,
                          Track!Ids \ Track!DropTracked(
                                         Objects(first, second, unc, start), close))
          /\ lost' = Track!Only(NewLists(first, second, unc, start).lost,
                          Track!Ids \ Track!DropLost(
                                         Objects(first, second, unc, start), close))
          /\ out' = Track!Only(tracked', {t \in Track!Ids : trk'[t].activated})
      BY Zenon, <1>1 DEF UpdateStep, Outcome
    <3>2. \A f, list, S : f = Track!Only(list, S) => f = [t \in Track!Ids |-> f[t]]
      BY DEF Track!Only
    <3>3. \A f, list, more : f = Track!Insert(list, more)
                              => f = [t \in Track!Ids |-> f[t]]
      BY DEF Track!Insert
    <3>4. trk' = [t \in Track!Ids |-> trk'[t]]
      BY <3>1 DEF Objects
    <3>5. removed' = [t \in Track!Ids |-> removed'[t]]
      BY <3>1, <3>3
    <3>6. tracked' = [t \in Track!Ids |-> tracked'[t]]
      BY <3>1, <3>2
    <3>7. lost' = [t \in Track!Ids |-> lost'[t]]
      BY <3>1, <3>2
    <3>8. out' = [t \in Track!Ids |-> out'[t]]
      <4>1. PICK S : out' = Track!Only(tracked', S)
        BY <3>1
      <4> QED
        BY <4>1, <3>2
    <3> QED
      BY <3>4, <3>5, <3>6, <3>7, <3>8
  <2>3. \A t \in Track!Ids : /\ trk'[t] \in Track!STrack
                             /\ tracked'[t] \in 0..1 /\ lost'[t] \in 0..1
                             /\ removed'[t] \in 0..1 /\ out'[t] \in 0..1
    BY <1>2 DEF After
  <2>4. /\ trk' \in [Track!Ids -> Track!STrack]
        /\ tracked' \in [Track!Ids -> 0..1] /\ lost' \in [Track!Ids -> 0..1]
        /\ removed' \in [Track!Ids -> 0..1] /\ out' \in [Track!Ids -> 0..1]
    BY <2>2, <2>3
  <2>5. oldest' \in -1..MaxFrame
    BY <1>1, LongestStays
  <2> QED
    BY <2>1, <1>n, <2>4, <2>5 DEF Track!TypeOK
<1>5. Track!ListsPartition'
  BY <1>2 DEF After, Track!ListsPartition, Track!In
<1>6. Track!FreshUnused'
  BY <1>2 DEF After, Track!FreshUnused
<1>7. Track!SeenNow'
  BY <1>1, TracksSeen
<1>8. Track!LifeSoFar'
  BY <1>2 DEF After, Track!LifeSoFar, Track!In
<1>9. Track!Reported'
  BY <1>2 DEF After, Track!Reported
<1>10. Track!LostNotForEver'
  BY <1>2 DEF After, Track!LostNotForEver, Track!In
<1>11. Track!LongestLivedStays'
  BY <1>1, LongestStays
<1>12. Track!StaysGone
  <2> SUFFICES ASSUME NEW t \in 1..(next_id - 1),
                      t \notin Track!In(tracked) \union Track!In(lost)
               PROVE  t \notin Track!In(tracked)' \union Track!In(lost)'
    BY DEF Track!StaysGone, Track!In
  <2>1. CASE t \in Track!Ids
    <3>1. t < next_id
      BY <1>3
    <3>2. tracked[t] = 0 /\ lost[t] = 0
      BY <2>1, Before DEF Track!In
    <3>3. tracked'[t] = 0 /\ lost'[t] = 0
      BY <1>2, <2>1, <3>1, <3>2 DEF After
    <3> QED
      BY <3>3 DEF Track!In
  <2>2. CASE t \notin Track!Ids
    BY <2>2 DEF Track!In
  <2> QED
    BY <2>1, <2>2
<1> QED
  BY <1>n, <1>4, <1>5, <1>6, <1>7, <1>8, <1>9, <1>10, <1>11, <1>12
     DEF Track!TrackInvariant

-----------------------------------------------------------------------------
(* The runtime around the tracker, and the theorem.                        *)

\* After a reset, as at the start, there are no tracks.
LEMMA EmptyTracker ==
  ASSUME frame = 0, next_id = 1, trk = [t \in Track!Ids |-> Track!Unused],
         tracked = Track!Empty, lost = Track!Empty, removed = Track!Empty,
         out = Track!Empty, oldest = -1
  PROVE  Track!TrackInvariant
<1>1. /\ MaxFrame \in Nat /\ MaxIds \in Nat /\ MaxDets \in Nat
      /\ Track!Unused \in Track!STrack
      /\ Track!Unused.start = 0 /\ Track!Unused.frame = 0
  BY TrackAssumption DEF Track!TrackAssumption, Track!STrack, Track!Unused
<1>2. /\ \A t \in Track!Ids : Track!Empty[t] = 0
      /\ Track!Empty \in [Track!Ids -> 0..1]
      /\ Track!In(Track!Empty) = {}
  BY DEF Track!Empty, Track!In
<1>3. Track!TypeOK
  <2>1. trk \in [Track!Ids -> Track!STrack]
    BY <1>1
  <2> HIDE DEF Track!Empty
  <2> QED
    BY <1>1, <1>2, <2>1 DEF Track!TypeOK
<1>4. Track!ListsPartition /\ Track!FreshUnused
  <2> HIDE DEF Track!Empty
  <2> QED
    BY <1>2 DEF Track!ListsPartition, Track!FreshUnused
<1>5. Track!SeenNow /\ Track!LifeSoFar /\ Track!LostNotForEver
  BY <1>1, <1>2 DEF Track!SeenNow, Track!LifeSoFar, Track!LostNotForEver
<1>6. Track!Reported /\ Track!LongestLivedStays
  BY <1>2 DEF Track!Reported, Track!LongestLivedStays
<1> QED
  BY <1>3, <1>4, <1>5, <1>6 DEF Track!TrackInvariant

LEMMA ResetKeeps ==
  ASSUME Track!Reset
  PROVE  /\ Track!TrackInvariant' /\ Track!StaysGone
<1>1. /\ MaxFrame \in Nat /\ MaxIds \in Nat /\ MaxDets \in Nat
      /\ Track!Unused \in Track!STrack
      /\ Track!Unused.start = 0 /\ Track!Unused.frame = 0
  BY TrackAssumption DEF Track!TrackAssumption, Track!STrack, Track!Unused
<1>2. /\ \A t \in Track!Ids : Track!Empty[t] = 0
      /\ Track!Empty \in [Track!Ids -> 0..1]
      /\ Track!In(Track!Empty) = {}
  BY DEF Track!Empty, Track!In
<1>r. /\ frame' = 0 /\ next_id' = 1 /\ trk' = [t \in Track!Ids |-> Track!Unused]
      /\ tracked' = Track!Empty /\ lost' = Track!Empty /\ removed' = Track!Empty
      /\ out' = Track!Empty /\ oldest' = -1
  BY DEF Track!Reset
<1>3. Track!TypeOK'
  <2>1. trk' \in [Track!Ids -> Track!STrack]
    BY <1>1, <1>r
  <2> QED
    BY <1>1, <1>2, <1>r, <2>1 DEF Track!TypeOK
<1>n. /\ Track!In(tracked)' = {} /\ Track!In(lost)' = {} /\ Track!In(removed)' = {}
      /\ \A t \in Track!Ids : /\ trk'[t] = Track!Unused /\ tracked'[t] = 0
                              /\ lost'[t] = 0 /\ removed'[t] = 0 /\ out'[t] = 0
  BY <1>2, <1>r DEF Track!In
<1>4. Track!ListsPartition' /\ Track!FreshUnused'
  BY <1>n DEF Track!ListsPartition, Track!FreshUnused
<1>5. Track!SeenNow' /\ Track!LifeSoFar' /\ Track!LostNotForEver'
  BY <1>1, <1>n, <1>r DEF Track!SeenNow, Track!LifeSoFar, Track!LostNotForEver
<1>6. Track!Reported' /\ Track!LongestLivedStays'
  BY <1>n, <1>r DEF Track!Reported, Track!LongestLivedStays
<1>7. Track!StaysGone
  BY <1>r DEF Track!StaysGone
<1> QED
  BY <1>3, <1>4, <1>5, <1>6, <1>7 DEF Track!TrackInvariant

\* The tracks and the evidence of the processor.
TracksInv ==
    component = "track" => Track!TrackInvariant /\ Track!EvidenceOfThisTrack

LEMMA TracksInvInit == Init => TracksInv
<1> SUFFICES ASSUME Init, component = "track"
             PROVE  Track!TrackInvariant /\ Track!EvidenceOfThisTrack
  BY DEF TracksInv
<1>1. Track!RuntimeInit
  BY DEF Init
<1>2. Track!TrackInvariant
  BY <1>1, EmptyTracker DEF Track!RuntimeInit, Track!Init
<1>3. Track!EvidenceOfThisTrack
  BY <1>1 DEF Track!RuntimeInit, Track!Nothing, Track!EvidenceOfThisTrack
<1> QED
  BY <1>2, <1>3

LEMMA RuntimeStep ==
  ASSUME Track!TrackInvariant, Track!EvidenceOfThisTrack, Track!RuntimeNext
  PROVE  /\ Track!TrackInvariant' /\ Track!EvidenceOfThisTrack' /\ Track!StaysGone
<1>a. \A t \in Track!Ids : Track!Aged(Track!Nothing)[t] = "none" /\ Track!Nothing[t] = "none"
  BY DEF Track!Aged, Track!Nothing
<1>u. ASSUME UNCHANGED Track!vars PROVE Track!TrackInvariant' /\ Track!StaysGone
  <2>1. UNCHANGED <<frame, next_id, trk, tracked, lost, removed, out, oldest>>
    BY <1>u DEF Track!vars
  <2>2. Track!TrackInvariant'
    BY <2>1 DEF Track!TrackInvariant, Track!TypeOK, Track!ListsPartition,
       Track!FreshUnused, Track!SeenNow, Track!LifeSoFar, Track!Reported,
       Track!LostNotForEver, Track!LongestLivedStays, Track!In
  <2>3. Track!StaysGone
    BY <2>1 DEF Track!StaysGone, Track!In
  <2> QED
    BY <2>2, <2>3
<1>1. CASE Track!Start \/ Track!ResetSession
  <2>1. Track!Reset /\ known' = Track!Aged(Track!Nothing)
    BY <1>1 DEF Track!Start, Track!ResetSession
  <2> QED
    BY <2>1, <1>a, ResetKeeps DEF Track!EvidenceOfThisTrack
<1>2. CASE Track!StartFails
  <2>1. UNCHANGED Track!vars /\ known' = Track!Nothing
    BY <1>2 DEF Track!StartFails
  <2> QED
    BY <2>1, <1>a, <1>u DEF Track!EvidenceOfThisTrack
<1>3. CASE Track!Stop
  <2>1. UNCHANGED Track!vars /\ known' = known
    BY <1>3 DEF Track!Stop
  <2>2. next_id' = next_id
    BY <2>1 DEF Track!vars
  <2> QED
    BY <2>1, <2>2, <1>u DEF Track!EvidenceOfThisTrack
<1>4. ASSUME NEW score \in [Track!Dets -> Track!Score], Track!WaitForFrame(score)
      PROVE  /\ Track!TrackInvariant' /\ Track!EvidenceOfThisTrack' /\ Track!StaysGone
  <2>1. Track!Update(score)
    BY <1>4 DEF Track!WaitForFrame
  <2>2. /\ Track!TrackInvariant' /\ Track!StaysGone
        /\ next_id' \in Nat /\ next_id <= next_id'
    BY <2>1, UpdateKeeps
  <2>3. PICK forgotten \in SUBSET (Track!Ids \ Track!In(out')) :
          known' = [t \in Track!Ids |->
                      CASE t \in forgotten -> "none"
                        [] t \in Track!In(out') /\ known[t] = "none" -> "current"
                        [] OTHER -> known[t]]
    BY <1>4 DEF Track!WaitForFrame
  <2>4. ASSUME NEW t \in Track!Ids
        PROVE  known'[t] # "earlier" /\ (known'[t] = "current" => t < next_id')
    <3>1. /\ known[t] # "earlier" /\ (known[t] = "current" => t < next_id)
          /\ next_id \in Nat /\ t \in Nat
      BY Before DEF Track!EvidenceOfThisTrack
    <3>2. known'[t] = CASE t \in forgotten -> "none"
                        [] t \in Track!In(out') /\ known[t] = "none" -> "current"
                        [] OTHER -> known[t]
      BY <2>3
    <3>3. t \in Track!In(out') => t < next_id'
      <4>1. /\ out'[t] = IF trk'[t].activated THEN tracked'[t] ELSE 0
            /\ t >= next_id' => tracked'[t] + lost'[t] + removed'[t] = 0
            /\ tracked'[t] \in 0..1 /\ lost'[t] \in 0..1 /\ removed'[t] \in 0..1
        BY <2>2 DEF Track!TrackInvariant, Track!Reported, Track!FreshUnused,
           Track!TypeOK
      <4>2. t \in Track!In(out') => out'[t] > 0
        BY DEF Track!In
      <4> QED
        BY <4>1, <4>2, <2>2, <3>1
    <3>4. CASE t \in forgotten
      BY <3>2, <3>4
    <3>5. CASE t \notin forgotten /\ t \in Track!In(out') /\ known[t] = "none"
      BY <3>2, <3>3, <3>5
    <3>6. CASE t \notin forgotten /\ ~ (t \in Track!In(out') /\ known[t] = "none")
      <4>1. known'[t] = known[t]
        BY <3>2, <3>6
      <4> QED
        BY <4>1, <3>1, <2>2
    <3> QED
      BY <3>4, <3>5, <3>6
  <2> QED
    BY <2>2, <2>4 DEF Track!EvidenceOfThisTrack
<1> QED
  BY <1>1, <1>2, <1>3, <1>4 DEF Track!RuntimeNext

LEMMA TracksInvStep ==
  TracksInv /\ [Next]_vars => TracksInv' /\ (component = "track" => Track!StaysGone)
<1> SUFFICES ASSUME TracksInv, [Next]_vars
             PROVE  TracksInv' /\ (component = "track" => Track!StaysGone)
  OBVIOUS
<1>1. CASE component = "track" /\ Track!RuntimeNext
  <2>1. Track!TrackInvariant' /\ Track!EvidenceOfThisTrack' /\ Track!StaysGone
    BY <1>1, RuntimeStep DEF TracksInv
  <2> QED
    BY <2>1 DEF TracksInv
<1>2. CASE UNCHANGED <<component, trackVars>>
  <2>1. /\ UNCHANGED <<frame, next_id, trk, tracked, lost, removed, out, oldest>>
        /\ component' = component /\ known' = known
    BY <1>2 DEF trackVars
  <2>2. Track!TrackInvariant => Track!TrackInvariant'
    BY <2>1 DEF Track!TrackInvariant, Track!TypeOK, Track!ListsPartition,
       Track!FreshUnused, Track!SeenNow, Track!LifeSoFar, Track!Reported,
       Track!LostNotForEver, Track!LongestLivedStays, Track!In
  <2>3. Track!EvidenceOfThisTrack => Track!EvidenceOfThisTrack'
    BY <2>1 DEF Track!EvidenceOfThisTrack
  <2>4. Track!StaysGone
    BY <2>1 DEF Track!StaysGone, Track!In
  <2> QED
    BY <2>1, <2>2, <2>3, <2>4 DEF TracksInv
<1>3. CASE component # "track" /\ component' = component
  BY <1>3 DEF TracksInv
<1>4. CASE UNCHANGED vars
  BY <1>2, <1>4 DEF vars
<1>5. CASE Next
  <2>1. component' = component
    BY <1>5 DEF Next
  <2>2. component = "track" => Track!RuntimeNext
    BY <1>5 DEF Next
  <2> QED
    BY <1>1, <1>3, <2>1, <2>2
<1> QED
  BY <1>4, <1>5

\* What the invariant says of the tracks that are reported.
LEMMA TracksInvSound ==
  TracksInv => (component = "track" =>
                  /\ Track!ListsPartition
                  /\ Track!OutputsCurrent
                  /\ Track!SeenTwice
                  /\ Track!LostNotForEver
                  /\ Track!LongestLivedStays
                  /\ Track!EvidenceOfThisTrack
                  /\ Track!TypeOK)
<1> SUFFICES ASSUME Track!TrackInvariant
             PROVE  Track!OutputsCurrent /\ Track!SeenTwice
  BY DEF TracksInv, Track!TrackInvariant
<1>1. ASSUME NEW t \in Track!In(out)
      PROVE  /\ t \in Track!In(tracked) /\ out[t] = 1 /\ trk[t].activated
  <2>1. t \in Track!Ids /\ out[t] > 0
    BY DEF Track!In
  <2>2. out[t] = IF trk[t].activated THEN tracked[t] ELSE 0
    BY <2>1 DEF Track!TrackInvariant, Track!Reported
  <2>3. tracked[t] \in 0..1
    BY <2>1 DEF Track!TrackInvariant, Track!TypeOK
  <2> QED
    BY <2>1, <2>2, <2>3 DEF Track!In
<1>2. /\ \A t \in Track!In(tracked) : trk[t].frame = frame /\ trk[t].obs # 0
      /\ \A t, s \in Track!In(tracked) : trk[t].obs = trk[s].obs => t = s
  BY DEF Track!TrackInvariant, Track!SeenNow
<1>3. \A t \in Track!In(tracked) : trk[t].activated =>
         trk[t].start < frame \/ (trk[t].start = 1 /\ frame = 1)
  BY DEF Track!TrackInvariant, Track!LifeSoFar
<1> QED
  BY <1>1, <1>2, <1>3 DEF Track!OutputsCurrent, Track!SeenTwice

-----------------------------------------------------------------------------
(* The gallery.                                                            *)

LEMMA MatcherCardinality == \A S : Matcher!Cardinality(S) = Cardinality(S)
BY DEF Matcher!Cardinality, Cardinality

\* The largest of a finite set is the one that no other exceeds.
LEMMA MaxIs ==
  ASSUME NEW S, S \subseteq Int, IsFiniteSet(S), S # {}
  PROVE  /\ Matcher!Max(S) \in S /\ \A x \in S : x <= Matcher!Max(S)
         /\ \A x \in S : (\A y \in S : y <= x) => Matcher!Max(S) = x
<1>1. PICK n \in S : \A m \in S : m <= n
  BY Largest
<1>2. n \in S /\ \A m \in S : n >= m
  BY <1>1
<1>3. Matcher!Max(S) \in S /\ \A m \in S : Matcher!Max(S) >= m
  BY <1>2 DEF Matcher!Max
<1>4. Matcher!Max(S) \in Int /\ \A x \in S : x \in Int
  BY <1>3
<1>5. ASSUME NEW x \in S, \A y \in S : y <= x PROVE Matcher!Max(S) = x
  <2>1. Matcher!Max(S) <= x /\ Matcher!Max(S) >= x
    BY <1>3, <1>5
  <2> QED
    BY <2>1, <1>4
<1>6. \A x \in S : x <= Matcher!Max(S)
  BY <1>3, <1>4
<1> QED
  BY <1>3, <1>5, <1>6

\* What is said of a sequence of templates has finitely many values.
LEMMA FinitelyMany ==
  ASSUME NEW g \in Seq(Matcher!Template)
  PROVE  /\ DOMAIN g = 1..Len(g) /\ Len(g) \in Nat /\ IsFiniteSet(DOMAIN g)
         /\ IsFiniteSet(Matcher!Named(g)) /\ Matcher!Named(g) \subseteq Nat
         /\ \A n \in DOMAIN g : g[n].identity_id \in Nat
<1>1. DOMAIN g = 1..Len(g) /\ Len(g) \in Nat /\ IsFiniteSet(DOMAIN g)
  <2>1. DOMAIN g = 1..Len(g) /\ Len(g) \in Nat
    OBVIOUS
  <2> QED
    BY <2>1, FS_Interval
<1>2. \A n \in DOMAIN g : g[n].identity_id \in Nat
  <2>1. \A n \in DOMAIN g : g[n] \in Matcher!Template
    BY <1>1
  <2> QED
    BY <2>1, MatcherAssumption DEF Matcher!Template, Matcher!IdentityAssumption
<1>3. IsFiniteSet(Matcher!Named(g))
  <2> DEFINE name == [n \in DOMAIN g |-> g[n].identity_id]
  <2>1. name \in Surjection(DOMAIN g, Matcher!Named(g))
    BY DEF Surjection, Matcher!Named
  <2> HIDE DEF name
  <2> QED
    BY <1>1, <2>1, FS_Surjection
<1> QED
  BY <1>1, <1>2, <1>3 DEF Matcher!Named

\* The identities of a gallery are sorted, and every one has its place.
Sorted(s, S) ==
    /\ DOMAIN s = 1..Len(s) /\ Len(s) \in Nat
    /\ Len(s) = Cardinality(S)
    /\ \A j \in DOMAIN s : s[j] \in S
    /\ \A j, l \in DOMAIN s : j < l => s[j] < s[l]
    /\ \A id \in S : \E j \in DOMAIN s : s[j] = id

\* Of two members the smaller has the smaller rank, and no rank reaches the
\* size of the set.
LEMMA RankGrows ==
  ASSUME NEW S, S \subseteq Int, IsFiniteSet(S), NEW d \in S
  PROVE  /\ Rank(S, d) \in 0..(Cardinality(S) - 1)
         /\ \A e \in S : d < e => Rank(S, d) < Rank(S, e)
<1> DEFINE Under(e) == {x \in S : x < e}
<1>1. \A e \in S : IsFiniteSet(Under(e)) /\ Rank(S, e) = Cardinality(Under(e))
                   /\ Rank(S, e) \in Nat
  BY FS_Subset, FS_CardinalityType DEF Rank
<1>2. Rank(S, d) < Cardinality(S)
  <2>1. Under(d) \in SUBSET S /\ Under(d) # S
    <3>1. d \notin Under(d)
      OBVIOUS
    <3> QED
      BY <3>1
  <2> HIDE DEF Under
  <2>2. /\ Cardinality(Under(d)) <= Cardinality(S)
        /\ Cardinality(S) # Cardinality(Under(d))
    BY <2>1, FS_Subset
  <2> QED
    BY <1>1, <2>2, FS_CardinalityType
<1>3. ASSUME NEW e \in S, d < e PROVE Rank(S, d) < Rank(S, e)
  <2>1. Under(d) \in SUBSET Under(e) /\ Under(d) # Under(e)
    <3>1. d \in Under(e) /\ d \notin Under(d)
      BY <1>3
    <3>2. \A x \in S : x < d => x < e
      BY <1>3
    <3> QED
      BY <3>1, <3>2
  <2>2. IsFiniteSet(Under(e))
    BY <1>1
  <2> HIDE DEF Under
  <2>3. /\ Cardinality(Under(d)) <= Cardinality(Under(e))
        /\ Cardinality(Under(e)) # Cardinality(Under(d))
    BY <2>1, <2>2, FS_Subset
  <2> QED
    BY <1>1, <2>3
<1>4. Cardinality(S) \in Nat
  BY FS_CardinalityType
<1> HIDE DEF Under
<1> QED
  BY <1>1, <1>2, <1>3, <1>4

LEMMA GroupedSorted ==
  ASSUME NEW g \in Seq(Matcher!Template)
  PROVE  Sorted(Matcher!Grouped(g), Matcher!Named(g))
<1> DEFINE ids == Matcher!Named(g)
           s == Matcher!Grouped(g)
           card == Cardinality(ids)
<1>1. IsFiniteSet(ids) /\ ids \subseteq Int /\ card \in Nat
  BY FinitelyMany, FS_CardinalityType
<1>2. s = [j \in 1..Matcher!Cardinality(ids) |->
             CHOOSE id \in ids : Matcher!Cardinality({x \in ids : x < id}) = j - 1]
  BY Zenon DEF Matcher!Grouped, Matcher!Named
<1> HIDE DEF ids, s
<1>3. DOMAIN s = 1..card /\ s = [j \in 1..card |-> s[j]]
  <2>1. DOMAIN s = 1..Matcher!Cardinality(ids)
    BY <1>2
  <2>2. s = [j \in 1..Matcher!Cardinality(ids) |-> s[j]]
    <3> DEFINE E(j) == CHOOSE id \in ids : Matcher!Cardinality({x \in ids : x < id}) = j - 1
    <3>1. s = [j \in 1..Matcher!Cardinality(ids) |-> E(j)]
      BY Zenon, <1>2
    <3> HIDE DEF E
    <3> QED
      BY <3>1
  <2> QED
    BY <2>1, <2>2, MatcherCardinality
<1>4. ASSUME NEW j \in 1..card PROVE s[j] \in ids /\ Rank(ids, s[j]) = j - 1
  <2>1. \E id \in ids : Rank(ids, id) = j - 1
    <3>1. j - 1 \in 0..(Cardinality(ids) - 1)
      BY <1>1
    <3> QED
      BY <1>1, <3>1, RanksTaken
  <2>2. s[j] = CHOOSE id \in ids : Matcher!Cardinality({x \in ids : x < id}) = j - 1
    <3>1. j \in 1..Matcher!Cardinality(ids)
      BY MatcherCardinality
    <3> QED
      BY <1>2, <3>1
  <2>3. \A id \in ids : Matcher!Cardinality({x \in ids : x < id}) = Rank(ids, id)
    BY MatcherCardinality DEF Rank
  <2> QED
    BY <2>1, <2>2, <2>3
<1>5. Len(s) = card
  <2>1. s \in [1..card -> ids]
    BY <1>3, <1>4
  <2>2. s \in Seq(ids)
    BY <1>1, <2>1 DEF card
  <2> QED
    BY <1>1, <1>3, <2>2
<1>6. ASSUME NEW j \in 1..card, NEW l \in 1..card, j < l PROVE s[j] < s[l]
  <2>1. s[j] \in ids /\ s[l] \in ids /\ s[j] \in Int /\ s[l] \in Int
    BY <1>1, <1>4
  <2>2. Rank(ids, s[j]) = j - 1 /\ Rank(ids, s[l]) = l - 1
    BY <1>4
  <2>3. s[l] < s[j] => Rank(ids, s[l]) < Rank(ids, s[j])
    BY <1>1, <2>1, RankGrows
  <2> QED
    BY <1>6, <2>1, <2>2, <2>3
<1>7. ASSUME NEW id \in ids PROVE \E j \in 1..card : s[j] = id
  <2>1. Rank(ids, id) \in 0..(card - 1)
    BY <1>1, RankGrows
  <2> DEFINE j == Rank(ids, id) + 1
  <2>2. j \in 1..card /\ Rank(ids, id) = j - 1
    BY <1>1, <2>1
  <2> HIDE DEF j
  <2>3. s[j] \in ids /\ Rank(ids, s[j]) = Rank(ids, id)
    BY <1>4, <2>2
  <2>4. s[j] < id => Rank(ids, s[j]) < Rank(ids, id)
    BY <1>1, <2>3, RankGrows
  <2>5. id < s[j] => Rank(ids, id) < Rank(ids, s[j])
    BY <1>1, <2>3, RankGrows
  <2>6. s[j] \in Int /\ id \in Int /\ Rank(ids, id) \in Int
    <3> HIDE DEF card
    <3>1. s[j] \in Int /\ id \in Int
      BY <1>1, <2>3
    <3>2. Rank(ids, id) \in Int
      BY <1>1, <2>1
    <3> QED
      BY <3>1, <3>2
  <2>7. s[j] = id
    BY <2>3, <2>4, <2>5, <2>6
  <2> QED
    BY <2>2, <2>7
<1> HIDE DEF card
<1>8. Sorted(s, ids)
  BY <1>1, <1>3, <1>4, <1>5, <1>6, <1>7 DEF Sorted, card
<1> QED
  BY <1>8 DEF s, ids

\* lower_bound finds an identity that is there.
LEMMA LowerBoundFinds ==
  ASSUME NEW s, NEW S, S \subseteq Int, Sorted(s, S), NEW id \in S
  PROVE  /\ Matcher!LowerBound(s, id) \in DOMAIN s
         /\ s[Matcher!LowerBound(s, id)] = id
<1> DEFINE places == {j \in 1..Len(s) + 1 : j > Len(s) \/ s[j] >= id}
           least == Matcher!LowerBound(s, id)
<1>1. PICK j \in DOMAIN s : s[j] = id
  BY DEF Sorted
<1>2. /\ Len(s) \in Nat /\ DOMAIN s = 1..Len(s) /\ id \in Int
      /\ \A l \in DOMAIN s : s[l] \in Int
      /\ \A l, m \in DOMAIN s : l < m => s[l] < s[m]
  BY DEF Sorted
<1>3. j \in places
  BY <1>1, <1>2
<1>4. least \in places /\ \A m \in places : least <= m
  <2>1. places \subseteq Nat
    OBVIOUS
  <2>2. least = CHOOSE x \in places : \A y \in places : x =< y
    BY Zenon DEF Matcher!LowerBound, Matcher!Min
  <2> HIDE DEF places
  <2>3. \E x \in places : \A y \in places : x <= y
    BY <1>3, <2>1, LeastNatural
  <2> HIDE DEF least
  <2> QED
    BY <2>2, <2>3
<1> HIDE DEF least
<1>5. least <= j /\ least \in 1..Len(s) /\ s[least] >= id
  BY <1>1, <1>2, <1>3, <1>4
<1>6. least = j
  <2>1. least < j => s[least] < s[j]
    BY <1>1, <1>2, <1>5
  <2> QED
    BY <1>1, <1>2, <1>5, <2>1
<1> QED
  BY <1>1, <1>6 DEF least

\* What the properties need of the gallery that is installed.
LEMMA Gallery ==
  ASSUME Matcher!GalleryAsGiven, Matcher!InstalledAsAWhole
  PROVE  /\ Sorted(identities_, Matcher!Named(given))
         /\ \A j \in DOMAIN identities_ :
              /\ identities_[j] \in Nat
              /\ \A n \in DOMAIN given :
                   n \in Matcher!Of(given, identities_[j]) <=> owners_[n] = j
         /\ \A n \in DOMAIN given :
              /\ owners_[n] \in DOMAIN identities_ /\ matrix_[n] = given[n].embedding
              /\ given[n].embedding \in Matcher!Similarities
         /\ DOMAIN matrix_ = DOMAIN given /\ DOMAIN best_ = DOMAIN identities_
         /\ One \in Nat \ {0}
<1>1. Sorted(identities_, Matcher!Named(given))
  BY GroupedSorted DEF Matcher!GalleryAsGiven
<1>2. /\ given \in Seq(Matcher!Template) /\ DOMAIN best_ = DOMAIN identities_
      /\ Matcher!Acceptable(given)
  BY DEF Matcher!GalleryAsGiven
<1>3. Matcher!Named(given) \subseteq Nat /\ DOMAIN given = 1..Len(given)
  BY <1>2, FinitelyMany
<1>4. /\ matrix_ = [n \in DOMAIN given |-> given[n].embedding]
      /\ \A n \in DOMAIN given :
           /\ owners_[n] \in DOMAIN identities_
           /\ identities_[owners_[n]] = given[n].identity_id
  BY DEF Matcher!InstalledAsAWhole
<1>5. \A j \in DOMAIN identities_ : identities_[j] \in Nat
  BY <1>1, <1>3 DEF Sorted
<1>6. \A j, l \in DOMAIN identities_ : identities_[j] = identities_[l] => j = l
  <2>1. /\ \A j, l \in DOMAIN identities_ : j < l => identities_[j] < identities_[l]
        /\ \A j \in DOMAIN identities_ : j \in Nat
    BY <1>1 DEF Sorted
  <2> QED
    BY <1>5, <2>1
<1>7. ASSUME NEW j \in DOMAIN identities_, NEW n \in DOMAIN given
      PROVE  n \in Matcher!Of(given, identities_[j]) <=> owners_[n] = j
  BY <1>4, <1>6 DEF Matcher!Of
<1>8. \A n \in DOMAIN given : given[n].embedding \in Matcher!Similarities
  <2>1. \A n \in DOMAIN given : given[n] \in Matcher!Template
    BY <1>2, <1>3
  <2> QED
    BY <1>2, <2>1 DEF Matcher!Acceptable, Matcher!Template
<1> QED
  BY <1>1, <1>2, <1>4, <1>5, <1>7, <1>8, MatcherAssumption DEF Matcher!IdentityAssumption

\* The scan is a function: what it has found after each place.
Scan(f, top, bests) ==
    f = [j \in 0..top |-> IF j = 0 THEN Matcher!NoMatch
                          ELSE Matcher!Seen(f[j - 1], j, bests[j])]

LEMMA ScanExists ==
  ASSUME NEW bests, NEW top \in Nat
  PROVE  \E f : Scan(f, top, bests)
<1> DEFINE Bad == {m \in Nat : ~ \E f : Scan(f, m, bests)}
<1>1. SUFFICES ASSUME Bad # {} PROVE FALSE
  OBVIOUS
<1>2. PICK m \in Bad : \A l \in Bad : m <= l
  <2>1. Bad \subseteq Nat
    OBVIOUS
  <2> HIDE DEF Bad
  <2> QED
    BY <1>1, <2>1, LeastNatural
<1>3. m \in Nat /\ ~ \E f : Scan(f, m, bests)
  OBVIOUS
<1>4. CASE m = 0
  <2> DEFINE f == [j \in 0..0 |-> Matcher!NoMatch]
  <2>1. f = [j \in 0..0 |-> IF j = 0 THEN Matcher!NoMatch
                            ELSE Matcher!Seen(f[j - 1], j, bests[j])]
    OBVIOUS
  <2>2. Scan(f, 0, bests)
    BY <2>1 DEF Scan
  <2> QED
    BY <1>3, <1>4, <2>2
<1>5. CASE m # 0
  <2>1. m - 1 \in Nat /\ m - 1 \notin Bad
    BY <1>2, <1>3, <1>5
  <2>2. PICK g : Scan(g, m - 1, bests)
    BY <2>1
  <2> DEFINE f == [j \in 0..m |-> IF j = 0 THEN Matcher!NoMatch
                                  ELSE Matcher!Seen(g[j - 1], j, bests[j])]
  <2>3. ASSUME NEW j \in 0..(m - 1) PROVE f[j] = g[j]
    <3>1. j \in 0..m
      BY <1>3
    <3> QED
      BY <2>2, <3>1 DEF Scan
  <2>4. ASSUME NEW j \in 0..m
        PROVE  f[j] = IF j = 0 THEN Matcher!NoMatch
                      ELSE Matcher!Seen(f[j - 1], j, bests[j])
    <3>1. CASE j = 0
      BY <3>1
    <3>2. CASE j # 0
      <4>1. j - 1 \in 0..(m - 1)
        BY <1>3, <3>2
      <4>2. f[j - 1] = g[j - 1]
        BY <2>3, <4>1
      <4>3. f[j] = Matcher!Seen(g[j - 1], j, bests[j])
        BY <3>2
      <4> HIDE DEF f
      <4> QED
        BY <3>2, <4>2, <4>3
    <3> QED
      BY <3>1, <3>2
  <2>5. DOMAIN f = 0..m /\ f = [j \in 0..m |-> f[j]]
    OBVIOUS
  <2> HIDE DEF f
  <2>6. Scan(f, m, bests)
    BY <2>4, <2>5 DEF Scan
  <2> QED
    BY <1>3, <2>6
<1> QED
  BY <1>4, <1>5

\* What the scan knows after a place: the best so far and the best of the
\* others.
Answer == [valid : BOOLEAN, identity_id : Nat, best : Int, second : Int, margin : Int]
Found(o, bests, last) ==
    /\ o \in Answer /\ o.second >= -One
    /\ IF last = 0 THEN ~ o.valid /\ o.best = -One
       ELSE o.valid /\ \E j \in 1..last :
              /\ o.identity_id = identities_[j] /\ o.best = bests[j]
              /\ \A l \in 1..last : bests[l] <= bests[j]
              /\ \A l \in 1..last : l # j => bests[l] <= o.second
              /\ o.second = -One \/ \E l \in 1..last : l # j /\ o.second = bests[l]

LEMMA ScanStep ==
  ASSUME NEW top \in Nat, NEW bests, One \in Nat,
         \A l \in 1..top : bests[l] \in Int /\ bests[l] >= -One /\ identities_[l] \in Nat,
         NEW last \in 0..(top - 1), NEW o, Found(o, bests, last)
  PROVE  Found(Matcher!Seen(o, last + 1, bests[last + 1]), bests, last + 1)
<1> DEFINE m == last + 1
           value == bests[m]
           next == Matcher!Seen(o, m, value)
<1>1. /\ m \in 1..top /\ last \in Nat /\ value \in Int /\ value >= -One
      /\ identities_[m] \in Nat
  OBVIOUS
<1>2. /\ o \in Answer /\ o.second >= -One /\ o.best \in Int /\ o.second \in Int
      /\ o.valid \in BOOLEAN /\ o.identity_id \in Nat /\ o.margin \in Int
  BY DEF Found, Answer
<1>3. \A l \in 1..m : l \in 1..last \/ l = m
  BY <1>1
<1>4. \A l \in 1..last : l \in 1..m /\ l # m /\ bests[l] \in Int
  BY <1>1
<1> HIDE DEF value
<1>5. CASE ~ o.valid
  <2>1. last = 0 /\ o.best = -One
    BY <1>1, <1>5 DEF Found
  <2>2. next = [valid |-> TRUE, identity_id |-> identities_[m], best |-> value,
                second |-> o.best, margin |-> 0]
    BY <1>5 DEF Matcher!Seen, Matcher!Better
  <2> HIDE DEF next
  <2>3. next \in Answer /\ next.second = -One /\ next.valid
        /\ next.identity_id = identities_[m] /\ next.best = value
    BY <1>1, <1>2, <2>1, <2>2 DEF Answer
  <2>4. m = 1
    BY <2>1
  <2>5. \A l \in 1..m : l = m
    BY <2>4
  <2> QED
    BY <1>1, <2>3, <2>4, <2>5 DEF Found, value, next
<1>6. CASE o.valid
  <2>1. last # 0
    BY <1>6 DEF Found
  <2>2. PICK j \in 1..last :
              /\ o.identity_id = identities_[j] /\ o.best = bests[j]
              /\ \A l \in 1..last : bests[l] <= bests[j]
              /\ \A l \in 1..last : l # j => bests[l] <= o.second
              /\ o.second = -One \/ \E l \in 1..last : l # j /\ o.second = bests[l]
    BY <2>1 DEF Found
  <2>3. CASE value > o.best
    <3>1. next = [valid |-> TRUE, identity_id |-> identities_[m], best |-> value,
                  second |-> o.best, margin |-> 0]
      BY <2>3 DEF Matcher!Seen, Matcher!Better
    <3> HIDE DEF next
    <3>2. /\ next \in Answer /\ next.second = o.best /\ next.valid
          /\ next.identity_id = identities_[m] /\ next.best = value
      BY <1>1, <1>2, <3>1 DEF Answer
    <3>3. next.second >= -One
      BY <1>1, <2>2, <3>2
    <3>4. \A l \in 1..m : bests[l] <= value
      BY <1>1, <1>2, <1>3, <1>4, <2>2, <2>3 DEF value
    <3>5. \A l \in 1..m : l # m => bests[l] <= next.second
      BY <1>3, <2>2, <3>2
    <3>6. j \in 1..m /\ j # m /\ next.second = bests[j]
      BY <1>4, <2>2, <3>2
    <3>7. m # 0 /\ m \in 1..m
      BY <1>1
    <3> QED
      BY <3>2, <3>3, <3>4, <3>5, <3>6, <3>7 DEF Found, next, value
  <2>4. CASE ~ (value > o.best)
    <3> DEFINE larger == Matcher!Max({o.second, value})
    <3>1. larger \in {o.second, value} /\ o.second <= larger /\ value <= larger
      <4>1. {o.second, value} \subseteq Int /\ {o.second, value} # {}
        BY <1>1, <1>2
      <4>2. IsFiniteSet({o.second, value})
        <5>1. IsFiniteSet({o.second})
          BY FS_Singleton
        <5>2. IsFiniteSet({o.second} \union {value})
          BY <5>1, FS_AddElement
        <5>3. {o.second} \union {value} = {o.second, value}
          OBVIOUS
        <5> QED
          BY <5>2, <5>3
      <4> QED
        BY <4>1, <4>2, MaxIs
    <3> HIDE DEF larger
    <3>2. next = [o EXCEPT !.second = larger]
      BY <1>6, <2>4 DEF Matcher!Seen, larger
    <3>3. next = [valid |-> o.valid, identity_id |-> o.identity_id, best |-> o.best,
                  second |-> larger, margin |-> o.margin]
      BY <1>2, <3>2 DEF Answer
    <3> HIDE DEF next
    <3>4. larger \in Int /\ larger >= -One
      BY <1>1, <1>2, <3>1
    <3>5. /\ next \in Answer /\ next.second = larger /\ next.valid
          /\ next.identity_id = o.identity_id /\ next.best = o.best
      BY <1>2, <1>6, <3>3, <3>4 DEF Answer
    <3>6. \A l \in 1..m : bests[l] <= bests[j]
      BY <1>1, <1>2, <1>3, <1>4, <2>2, <2>4 DEF value
    <3>7. \A l \in 1..m : l # j => bests[l] <= larger
      BY <1>1, <1>2, <1>3, <1>4, <2>2, <3>1, <3>4 DEF value
    <3>8. larger = -One \/ \E l \in 1..m : l # j /\ larger = bests[l]
      <4>1. CASE larger = value
        BY <1>1, <1>4, <4>1 DEF value
      <4>2. CASE larger = o.second
        BY <1>4, <2>2, <4>2
      <4> QED
        BY <3>1, <4>1, <4>2
    <3>9. m # 0 /\ j \in 1..m
      BY <1>1, <1>4
    <3> QED
      BY <2>2, <3>4, <3>5, <3>6, <3>7, <3>8, <3>9 DEF Found, next, value
  <2> QED
    BY <2>3, <2>4
<1> QED
  BY <1>2, <1>5, <1>6

\* The scan of all places.
LEMMA Scanned ==
  ASSUME NEW bests, NEW top \in Nat, Len(bests) = top, One \in Nat,
         \A l \in 1..top : bests[l] \in Int /\ bests[l] >= -One /\ identities_[l] \in Nat
  PROVE  Found(Matcher!Scanned(bests), bests, top)
<1> DEFINE f == CHOOSE f : Scan(f, top, bests)
<1>1. Scan(f, top, bests)
  BY ScanExists
<1>2. Matcher!Scanned(bests) = f[top]
  BY Zenon DEF Matcher!Scanned, Scan
<1> HIDE DEF f
<1> DEFINE Bad == {m \in 0..top : ~ Found(f[m], bests, m)}
<1>3. Bad = {}
  <2> SUFFICES ASSUME Bad # {} PROVE FALSE
    OBVIOUS
  <2>1. PICK m \in Bad : \A l \in Bad : m <= l
    <3>1. Bad \subseteq Nat
      OBVIOUS
    <3> HIDE DEF Bad
    <3> QED
      BY <3>1, LeastNatural
  <2>2. m \in 0..top /\ ~ Found(f[m], bests, m)
    OBVIOUS
  <2>3. CASE m = 0
    <3>1. f[0] = Matcher!NoMatch
      BY <1>1, <2>2, <2>3 DEF Scan
    <3>2. Found(Matcher!NoMatch, bests, 0)
      BY DEF Found, Answer, Matcher!NoMatch
    <3> QED
      BY <2>2, <2>3, <3>1, <3>2
  <2>4. CASE m # 0
    <3>1. m - 1 \in 0..(top - 1) /\ m - 1 \in 0..top /\ (m - 1) + 1 = m
      BY <2>2, <2>4
    <3>2. m - 1 \notin Bad
      BY <2>1, <2>2, <3>1
    <3>3. Found(f[m - 1], bests, m - 1)
      BY <3>1, <3>2
    <3>4. f[m] = Matcher!Seen(f[m - 1], m, bests[m])
      BY <1>1, <2>2, <2>4 DEF Scan
    <3>5. Found(Matcher!Seen(f[m - 1], (m - 1) + 1, bests[(m - 1) + 1]), bests, (m - 1) + 1)
      <4> DEFINE r == m - 1
      <4>1. r \in 0..(top - 1) /\ Found(f[r], bests, r)
        BY <3>1, <3>3
      <4> HIDE DEF r
      <4>2. Found(Matcher!Seen(f[r], r + 1, bests[r + 1]), bests, r + 1)
        BY <4>1, ScanStep
      <4> QED
        BY <4>2 DEF r
    <3> QED
      BY <2>2, <3>1, <3>4, <3>5
  <2> QED
    BY <2>3, <2>4
<1>4. top \in 0..top
  OBVIOUS
<1> QED
  BY <1>2, <1>3, <1>4

\* What the best similarity over some rows is.
LEMMA BestOver ==
  ASSUME Matcher!GalleryAsGiven, Matcher!InstalledAsAWhole,
         NEW q \in Matcher!Queries, NEW ns, ns \subseteq DOMAIN given
  PROVE  /\ \A n \in ns : q[given[n].embedding] <= Matcher!BestOf(q, ns)
         /\ Matcher!BestOf(q, ns) \in Int /\ Matcher!BestOf(q, ns) >= -One
         /\ \/ Matcher!BestOf(q, ns) = -One
            \/ \E n \in ns : Matcher!BestOf(q, ns) = q[given[n].embedding]
         /\ \A x \in Int :
              /\ x >= -One /\ \A n \in ns : q[given[n].embedding] <= x
              /\ x = -One \/ \E n \in ns : x = q[given[n].embedding]
              => Matcher!BestOf(q, ns) = x
<1> DEFINE value(n) == q[given[n].embedding]
           values == {value(n) : n \in ns}
           all == {-One} \union values
<1>1. One \in Nat /\ \A n \in ns : given[n].embedding \in Matcher!Similarities
  BY Gallery
<1>2. \A n \in ns : value(n) \in Int /\ value(n) >= -One
  <2>1. \A s \in Matcher!Similarities : q[s] \in Int /\ q[s] >= -One
    BY <1>1 DEF Matcher!Queries, Matcher!Similarities
  <2> QED
    BY <1>1, <2>1
<1>3. IsFiniteSet(values)
  <2> DEFINE take == [n \in ns |-> value(n)]
  <2>1. take \in Surjection(ns, values)
    <3> HIDE DEF value
    <3> QED
      BY DEF Surjection
  <2>2. IsFiniteSet(ns)
    <3>1. IsFiniteSet(DOMAIN given)
      BY FinitelyMany DEF Matcher!GalleryAsGiven
    <3> QED
      BY <3>1, FS_Subset
  <2> HIDE DEF take, values
  <2> QED
    BY <2>1, <2>2, FS_Surjection
<1> HIDE DEF value
<1>4. all \subseteq Int /\ all # {} /\ IsFiniteSet(all)
  <2>1. values \subseteq Int /\ -One \in Int
    BY <1>1, <1>2
  <2>2. IsFiniteSet(values \union {-One}) /\ values \union {-One} = all
    <3> HIDE DEF values
    <3> QED
      BY <1>3, FS_AddElement
  <2> QED
    BY <2>1, <2>2
<1>5. Matcher!BestOf(q, ns) = Matcher!Max(all)
  BY Zenon DEF Matcher!BestOf, value
<1>m. /\ \A n \in ns : value(n) \in all
      /\ -One \in all
      /\ \A x \in all : x = -One \/ \E n \in ns : x = value(n)
  OBVIOUS
<1> HIDE DEF all
<1>6. /\ Matcher!Max(all) \in all /\ \A x \in all : x <= Matcher!Max(all)
      /\ \A x \in all : (\A y \in all : y <= x) => Matcher!Max(all) = x
  BY <1>4, MaxIs
<1>7. ASSUME NEW x \in Int, x >= -One, \A n \in ns : value(n) <= x,
             x = -One \/ \E n \in ns : x = value(n)
      PROVE  Matcher!Max(all) = x
  <2>1. x \in all
    BY <1>7, <1>m
  <2>2. \A y \in all : y <= x
    BY <1>1, <1>7, <1>m
  <2> QED
    BY <1>6, <2>1, <2>2
<1>8. Matcher!Max(all) \in Int /\ Matcher!Max(all) >= -One
  BY <1>1, <1>4, <1>6, <1>m
<1> QED
  BY <1>5, <1>6, <1>7, <1>8, <1>m DEF value

\* match: the answer is the best identity, and the margin its distance to
\* the best of the others.
LEMMA MatchStep ==
  ASSUME Matcher!GalleryAsGiven, Matcher!InstalledAsAWhole,
         NEW q \in Matcher!Queries, Matcher!Match(q)
  PROVE  LET mine == answer'.identity_id IN
         /\ answer'.valid /\ mine \in Matcher!Named(given)
         /\ answer'.best = Matcher!BestOf(q, Matcher!Of(given, mine))
         /\ answer'.best = Matcher!BestOf(q, DOMAIN given)
         /\ answer'.margin = IF Matcher!Named(given) = {mine} THEN 2 * One
              ELSE answer'.best
                     - Matcher!BestOf(q, DOMAIN given \ Matcher!Of(given, mine))
<1> DEFINE bests == Matcher!RowsDone(q)
           o == Matcher!Scanned(bests)
           top == Len(identities_)
           rows(j) == Matcher!Of(given, identities_[j])
           value(n) == q[given[n].embedding]
<1>1. /\ Sorted(identities_, Matcher!Named(given))
      /\ \A j \in DOMAIN identities_ :
           /\ identities_[j] \in Nat
           /\ \A n \in DOMAIN given : n \in rows(j) <=> owners_[n] = j
      /\ \A n \in DOMAIN given :
           owners_[n] \in DOMAIN identities_ /\ matrix_[n] = given[n].embedding
      /\ DOMAIN matrix_ = DOMAIN given /\ DOMAIN best_ = DOMAIN identities_
      /\ One \in Nat \ {0}
  BY Gallery
<1>2. /\ DOMAIN identities_ = 1..top /\ top \in Nat
      /\ top = Cardinality(Matcher!Named(given))
      /\ \A j \in 1..top : identities_[j] \in Matcher!Named(given)
      /\ \A id \in Matcher!Named(given) : \E j \in 1..top : identities_[j] = id
  BY <1>1 DEF Sorted
<1>3. matrix_ # <<>> /\ answer' = Matcher!WithMargin(o)
  BY Zenon DEF Matcher!Match
<1>4. \A j \in 1..top : rows(j) \subseteq DOMAIN given
  BY DEF Matcher!Of
<1>5. ASSUME NEW j \in 1..top PROVE bests[j] = Matcher!BestOf(q, rows(j))
  <2>1. bests[j] = Matcher!Max({Matcher!Cleared[j]} \union
                     {q[matrix_[n]] : n \in {m \in DOMAIN matrix_ : owners_[m] = j}})
    BY <1>1, <1>2 DEF Matcher!RowsDone
  <2>2. Matcher!Cleared[j] = -One
    BY <1>1, <1>2 DEF Matcher!Cleared
  <2>3. {m \in DOMAIN matrix_ : owners_[m] = j} = rows(j)
    BY <1>1, <1>2, <1>4
  <2>4. {q[matrix_[n]] : n \in rows(j)} = {q[given[n].embedding] : n \in rows(j)}
    <3> HIDE DEF rows
    <3>1. \A n \in rows(j) : q[matrix_[n]] = q[given[n].embedding]
      BY <1>1, <1>4
    <3> QED
      BY <3>1
  <2> HIDE DEF rows, bests
  <2> QED
    BY Zenon, <2>1, <2>2, <2>3, <2>4 DEF Matcher!BestOf
<1> HIDE DEF rows
<1>6. /\ \A j \in 1..top : bests[j] \in Int /\ bests[j] >= -One
      /\ \A j \in 1..top : \A n \in rows(j) : value(n) <= bests[j]
      /\ \A j \in 1..top : bests[j] = -One \/ \E n \in rows(j) : bests[j] = value(n)
  BY <1>4, <1>5, BestOver
<1>7. Len(bests) = top
  <2>1. DOMAIN bests = 1..top
    BY <1>1, <1>2 DEF Matcher!RowsDone
  <2>2. bests = [j \in 1..top |-> bests[j]]
    <3>1. bests = [j \in DOMAIN best_ |-> bests[j]]
      BY DEF Matcher!RowsDone
    <3> HIDE DEF bests
    <3> QED
      BY <1>1, <1>2, <3>1
  <2> HIDE DEF bests
  <2>3. bests \in Seq(Int)
    <3>1. bests \in [1..top -> Int]
      BY <1>6, <2>2
    <3> QED
      BY <1>2, <3>1
  <2> QED
    BY <1>2, <2>1, <2>3
<1> HIDE DEF bests
<1>8. Found(o, bests, top)
  BY <1>1, <1>2, <1>6, <1>7, Scanned
<1> HIDE DEF o
<1>9. top # 0
  <2>1. given # <<>>
    <3>1. given = <<>> => DOMAIN matrix_ = {}
      BY <1>1
    <3>2. matrix_ = [n \in DOMAIN given |-> given[n].embedding]
      BY DEF Matcher!InstalledAsAWhole
    <3> QED
      BY <1>3, <3>1, <3>2
  <2>2. PICK n \in DOMAIN given : TRUE
    <3>1. given \in Seq(Matcher!Template)
      BY DEF Matcher!GalleryAsGiven
    <3> QED
      BY <2>1, <3>1
  <2> QED
    BY <1>1, <1>2, <2>2
<1>10. PICK j \in 1..top :
              /\ o.identity_id = identities_[j] /\ o.best = bests[j]
              /\ \A l \in 1..top : bests[l] <= bests[j]
              /\ \A l \in 1..top : l # j => bests[l] <= o.second
              /\ o.second = -One \/ \E l \in 1..top : l # j /\ o.second = bests[l]
  BY <1>8, <1>9 DEF Found
<1>11. /\ o \in Answer /\ o.second >= -One /\ o.valid
       /\ o.second \in Int /\ o.best \in Int
  BY <1>8, <1>9 DEF Found, Answer
<1> DEFINE mine == identities_[j]
<1>12. /\ answer'.valid /\ answer'.identity_id = mine /\ answer'.best = o.best
       /\ answer'.margin = IF top = 1 THEN 2 * One ELSE o.best - o.second
  <2> DEFINE gap == IF top = 1 THEN 2 * One ELSE o.best - o.second
  <2>1. answer' = [o EXCEPT !.margin = gap]
    BY <1>3 DEF Matcher!WithMargin
  <2> HIDE DEF gap
  <2>2. answer' = [valid |-> o.valid, identity_id |-> o.identity_id, best |-> o.best,
                   second |-> o.second, margin |-> gap]
    BY <1>11, <2>1 DEF Answer
  <2> QED
    BY <1>10, <1>11, <2>2 DEF gap
<1>13. mine \in Matcher!Named(given)
  BY <1>2
<1>14. o.best = Matcher!BestOf(q, Matcher!Of(given, mine))
  BY <1>5, <1>10 DEF rows
<1>15. \A n \in DOMAIN given : \E l \in 1..top : n \in rows(l) /\ owners_[n] = l
  BY <1>1, <1>2
<1>16. o.best = Matcher!BestOf(q, DOMAIN given)
  <2>1. \A n \in DOMAIN given : value(n) <= o.best
    <3> SUFFICES ASSUME NEW n \in DOMAIN given PROVE value(n) <= o.best
      OBVIOUS
    <3>1. PICK l \in 1..top : n \in rows(l)
      BY <1>15
    <3>2. value(n) <= bests[l] /\ bests[l] <= o.best
      BY <1>6, <1>10, <3>1
    <3>3. value(n) \in Int /\ bests[l] \in Int
      <4>1. /\ given[n].embedding \in Matcher!Similarities
            /\ \A s \in Matcher!Similarities : q[s] \in Int
        BY Gallery, <1>1 DEF Matcher!Queries, Matcher!Similarities
      <4> QED
        BY <1>6, <4>1
    <3> QED
      BY <1>11, <3>2, <3>3
  <2>2. o.best = -One \/ \E n \in DOMAIN given : o.best = value(n)
    BY <1>4, <1>6, <1>10
  <2>3. o.best >= -One
    BY <1>6, <1>10
  <2> QED
    BY <1>11, <2>1, <2>2, <2>3, BestOver
<1>17. top = 1 <=> Matcher!Named(given) = {mine}
  <2>1. top = 1 => Matcher!Named(given) = {mine}
    BY <1>2, <1>13
  <2>2. Matcher!Named(given) = {mine} => top = 1
    BY <1>2, FS_Singleton
  <2> QED
    BY <2>1, <2>2
<1> DEFINE others == DOMAIN given \ Matcher!Of(given, mine)
<1>18. \A n \in DOMAIN given : n \in others <=> owners_[n] # j
  <2>1. \A n \in DOMAIN given : n \in Matcher!Of(given, mine) <=> owners_[n] = j
    BY <1>1, <1>2 DEF rows
  <2> QED
    BY <2>1
<1> HIDE DEF others
<1>19. o.second = Matcher!BestOf(q, others)
  <2>0. others \subseteq DOMAIN given
    BY DEF others
  <2>1. \A n \in others : value(n) <= o.second
    <3> SUFFICES ASSUME NEW n \in others PROVE value(n) <= o.second
      OBVIOUS
    <3>1. PICK l \in 1..top : n \in rows(l) /\ l # j
      BY <1>15, <1>18, <2>0
    <3>2. value(n) <= bests[l] /\ bests[l] <= o.second
      BY <1>6, <1>10, <3>1
    <3>3. value(n) \in Int /\ bests[l] \in Int
      <4>1. /\ given[n].embedding \in Matcher!Similarities
            /\ \A s \in Matcher!Similarities : q[s] \in Int
        BY Gallery, <1>1, <2>0 DEF Matcher!Queries, Matcher!Similarities
      <4> QED
        BY <1>6, <4>1
    <3> QED
      BY <1>11, <3>2, <3>3
  <2>2. o.second = -One \/ \E n \in others : o.second = value(n)
    <3>1. CASE o.second = -One
      BY <3>1
    <3>2. ASSUME NEW l \in 1..top, l # j, o.second = bests[l]
          PROVE  o.second = -One \/ \E n \in others : o.second = value(n)
      <4>1. CASE bests[l] = -One
        BY <3>2, <4>1
      <4>2. ASSUME NEW n \in rows(l), bests[l] = value(n)
            PROVE  \E m \in others : o.second = value(m)
        <5>1. n \in DOMAIN given /\ owners_[n] = l
          BY <1>1, <1>2, <1>4
        <5> QED
          BY <1>18, <3>2, <4>2, <5>1
      <4> QED
        BY <1>6, <4>1, <4>2
    <3> QED
      BY <1>10, <3>1, <3>2
  <2> HIDE DEF value
  <2> QED
    BY <1>11, <2>0, <2>1, <2>2, BestOver DEF value
<1> QED
  BY <1>12, <1>13, <1>14, <1>16, <1>17, <1>19 DEF others

\* replace: the gallery is installed as a whole.
LEMMA ReplaceStep ==
  ASSUME NEW g \in Seq(Matcher!Template), Matcher!Replace(g)
  PROVE  Matcher!GalleryAsGiven' /\ Matcher!InstalledAsAWhole'
<1> DEFINE s == Matcher!Grouped(g)
           S == Matcher!Named(g)
<1>1. /\ Matcher!Acceptable(g) /\ identities_' = s
      /\ owners_' = [n \in DOMAIN g |-> Matcher!LowerBound(s, g[n].identity_id)]
      /\ matrix_' = [n \in DOMAIN g |-> g[n].embedding]
      /\ best_' = [j \in DOMAIN s |-> 0] /\ given' = g
  BY Zenon DEF Matcher!Replace
<1>2. Sorted(s, S) /\ S \subseteq Int
  BY GroupedSorted, FinitelyMany
<1>3. ASSUME NEW n \in DOMAIN g
      PROVE  /\ owners_'[n] \in DOMAIN s /\ s[owners_'[n]] = g[n].identity_id
  <2>1. g[n].identity_id \in S
    BY DEF Matcher!Named
  <2> HIDE DEF s, S
  <2>2. owners_'[n] = Matcher!LowerBound(s, g[n].identity_id)
    BY <1>1
  <2> QED
    BY <1>2, <2>1, <2>2, LowerBoundFinds
<1> HIDE DEF s, S
<1>4. Len(best_') = Len(s)
  <2>1. best_' = [j \in 1..Len(s) |-> 0] /\ Len(s) \in Nat
    BY <1>1, <1>2 DEF Sorted
  <2>2. best_' \in Seq(Int) /\ DOMAIN best_' = 1..Len(s)
    BY <2>1
  <2> QED
    BY <2>1, <2>2
<1>5. Matcher!IsInjective(s)
  <2>1. \A j, l \in DOMAIN s : s[j] = s[l] => j = l
    <3>1. \A j, l \in DOMAIN s : j < l => s[j] < s[l]
      BY <1>2 DEF Sorted
    <3>2. DOMAIN s = 1..Len(s) /\ \A j \in DOMAIN s : s[j] \in S
      BY <1>2 DEF Sorted
    <3>3. \A j \in DOMAIN s : j \in Int /\ s[j] \in Int
      <4>1. ASSUME NEW j \in DOMAIN s PROVE j \in Int
        <5>1. j \in 1..Len(s)
          BY <3>2
        <5> QED
          BY <5>1
      <4>2. ASSUME NEW j \in DOMAIN s PROVE s[j] \in Int
        BY <1>2, <3>2
      <4> QED
        BY <4>1, <4>2
    <3> QED
      BY <3>1, <3>3
  <2> QED
    BY <2>1 DEF Matcher!IsInjective
<1>6. Matcher!InstalledAsAWhole'
  BY <1>1, <1>3, <1>4, <1>5 DEF Matcher!InstalledAsAWhole
<1>7. Matcher!GalleryAsGiven'
  <2>1. Matcher!Acceptable(given)'
    BY <1>1 DEF Matcher!Acceptable
  <2>2. identities_' = Matcher!Grouped(given)'
    BY <1>1 DEF Matcher!Grouped, s
  <2>3. DOMAIN best_' = DOMAIN identities_' /\ DOMAIN owners_' = DOMAIN given'
    BY <1>1
  <2> QED
    BY <1>1, <2>1, <2>2, <2>3 DEF Matcher!GalleryAsGiven
<1> QED
  BY <1>6, <1>7

MatcherInv ==
    component = "matcher" => Matcher!GalleryAsGiven /\ Matcher!InstalledAsAWhole

LEMMA MatcherInvInit == Init => MatcherInv
<1> SUFFICES ASSUME Init, component = "matcher"
             PROVE  Matcher!GalleryAsGiven /\ Matcher!InstalledAsAWhole
  BY DEF MatcherInv
<1>1. /\ identities_ = <<>> /\ owners_ = <<>> /\ matrix_ = <<>> /\ best_ = <<>>
      /\ given = <<>>
  BY DEF Init, Matcher!Init
<1>2. given \in Seq(Matcher!Template) /\ Matcher!Acceptable(given)
  BY <1>1 DEF Matcher!Acceptable
<1>3. Matcher!Grouped(given) = <<>>
  <2>1. Sorted(Matcher!Grouped(given), Matcher!Named(given))
    BY <1>2, GroupedSorted
  <2>2. Matcher!Named(given) = {}
    BY <1>1 DEF Matcher!Named
  <2>3. Matcher!Grouped(given) = [j \in 1..0 |-> Matcher!Grouped(given)[j]]
    <3>1. DOMAIN Matcher!Grouped(given) = {}
      BY <2>1, <2>2 DEF Sorted
    <3> QED
      BY <3>1 DEF Matcher!Grouped
  <2> QED
    BY <2>3
<1> QED
  BY <1>1, <1>2, <1>3 DEF Matcher!GalleryAsGiven, Matcher!InstalledAsAWhole,
     Matcher!IsInjective

\* What does not change: the gallery, and the places of the working array.
LEMMA GalleryStays ==
  ASSUME UNCHANGED <<identities_, owners_, matrix_, given>>,
         DOMAIN best_' = DOMAIN best_, Len(best_') = Len(best_),
         Matcher!GalleryAsGiven, Matcher!InstalledAsAWhole
  PROVE  Matcher!GalleryAsGiven' /\ Matcher!InstalledAsAWhole'
<1>1. /\ identities_' = identities_ /\ owners_' = owners_
      /\ matrix_' = matrix_ /\ given' = given
  OBVIOUS
<1>2. Matcher!Acceptable(given)' /\ Matcher!Grouped(given)' = Matcher!Grouped(given)
  BY <1>1 DEF Matcher!GalleryAsGiven, Matcher!Acceptable, Matcher!Grouped
<1>3. Matcher!GalleryAsGiven'
  BY <1>1, <1>2 DEF Matcher!GalleryAsGiven
<1>4. Matcher!IsInjective(identities_)'
  BY <1>1 DEF Matcher!InstalledAsAWhole, Matcher!IsInjective
<1>5. Matcher!InstalledAsAWhole'
  BY <1>1, <1>4 DEF Matcher!InstalledAsAWhole
<1> QED
  BY <1>3, <1>5

\* match leaves the gallery as it is.
LEMMA MatchKeeps ==
  ASSUME Matcher!GalleryAsGiven, Matcher!InstalledAsAWhole,
         NEW q \in Matcher!Queries, Matcher!Match(q)
  PROVE  Matcher!GalleryAsGiven' /\ Matcher!InstalledAsAWhole'
<1> DEFINE bests == Matcher!RowsDone(q)
<1>1. best_' = bests /\ UNCHANGED <<identities_, owners_, matrix_, given>>
  BY Zenon DEF Matcher!Match
<1>2. bests = [j \in DOMAIN best_ |-> bests[j]] /\ DOMAIN bests = DOMAIN best_
  BY DEF Matcher!RowsDone
<1>3. DOMAIN best_ = 1..Len(best_) /\ Len(best_) \in Nat
  <2>1. Sorted(identities_, Matcher!Named(given)) /\ DOMAIN best_ = DOMAIN identities_
    BY Gallery
  <2>2. Len(best_) = Len(identities_)
    BY DEF Matcher!InstalledAsAWhole
  <2> QED
    BY <2>1, <2>2 DEF Sorted
<1> HIDE DEF bests
<1>4. Len(bests) = Len(best_)
  BY <1>2, <1>3
<1> QED
  BY <1>1, <1>2, <1>4, GalleryStays

LEMMA MatcherInvStep ==
  MatcherInv /\ [Next]_vars =>
    MatcherInv' /\ (component = "matcher" => Matcher!AnswerIsBest)
<1> SUFFICES ASSUME MatcherInv, [Next]_vars
             PROVE  MatcherInv' /\ (component = "matcher" => Matcher!AnswerIsBest)
  OBVIOUS
<1>1. component = "matcher" => Matcher!AnswerIsBest
  BY MatchStep DEF MatcherInv, Matcher!AnswerIsBest
<1>2. CASE component = "matcher" /\ Matcher!Next
  <2>0. Matcher!GalleryAsGiven /\ Matcher!InstalledAsAWhole
    BY <1>2 DEF MatcherInv
  <2>1. ASSUME NEW g \in Offered, Matcher!Replace(g) PROVE MatcherInv'
    <3>1. g \in Seq(Matcher!Template)
      BY MatcherAssumption DEF Matcher!OfferedAssumption
    <3> QED
      BY <2>1, <3>1, ReplaceStep DEF MatcherInv
  <2>2. ASSUME NEW g \in Offered, Matcher!ReplaceThrows(g) PROVE MatcherInv'
    BY <2>0, <2>2, GalleryStays DEF MatcherInv, Matcher!ReplaceThrows, Matcher!vars
  <2>3. ASSUME NEW q \in Matcher!Queries, Matcher!Match(q) PROVE MatcherInv'
    BY <2>0, <2>3, MatchKeeps DEF MatcherInv
  <2>4. CASE Matcher!MatchNothing
    <3>1. UNCHANGED <<identities_, owners_, matrix_, given>> /\ best_' = best_
      BY <2>4 DEF Matcher!MatchNothing
    <3>2. Matcher!GalleryAsGiven' /\ Matcher!InstalledAsAWhole'
      BY <2>0, <3>1, GalleryStays
    <3> QED
      BY <1>1, <3>2 DEF MatcherInv
  <2>5. \/ \E g \in Offered : Matcher!Replace(g) \/ Matcher!ReplaceThrows(g)
        \/ \E q \in Matcher!Queries : Matcher!Match(q)
        \/ Matcher!MatchNothing
    BY Zenon, <1>2 DEF Matcher!Next
  <2> QED
    BY Zenon, <1>1, <2>1, <2>2, <2>3, <2>4, <2>5
<1>3. CASE UNCHANGED <<component, matcherVars>>
  <2>1. /\ UNCHANGED <<identities_, owners_, matrix_, given>>
        /\ best_' = best_ /\ component' = component
    BY <1>3 DEF matcherVars
  <2>2. CASE component = "matcher"
    <3>1. Matcher!GalleryAsGiven' /\ Matcher!InstalledAsAWhole'
      BY <2>1, <2>2, GalleryStays DEF MatcherInv
    <3> QED
      BY <1>1, <3>1 DEF MatcherInv
  <2> QED
    BY <1>1, <2>1, <2>2 DEF MatcherInv
<1>4. CASE component # "matcher" /\ component' = component
  BY <1>1, <1>4 DEF MatcherInv
<1>5. CASE UNCHANGED vars
  BY <1>3, <1>5 DEF vars
<1>6. CASE Next
  <2>1. component' = component
    BY <1>6 DEF Next
  <2>2. component = "matcher" => Matcher!Next
    BY <1>6 DEF Next
  <2> QED
    BY <1>2, <1>4, <2>1, <2>2
<1>7. MatcherInv'
  BY <1>5, <1>6
<1> QED
  BY <1>1, <1>7

\* The matcher, for any galleries and any history of replacements, refused
\* replacements and queries: the rows are the whole of the gallery installed
\* last, and an answer is the best identity of it, with its distance to the
\* best of the others.
THEOREM MatchesAreBest == Spec => MatchSound
<1>1. Init => MatcherInv
  BY MatcherInvInit
<1>2. MatcherInv /\ [Next]_vars => MatcherInv'
  BY MatcherInvStep
<1>3. MatcherInv /\ [Next]_vars => [component = "matcher" => Matcher!AnswerIsBest]_vars
  BY MatcherInvStep
<1>4. MatcherInv => (component = "matcher" => Matcher!InstalledAsAWhole)
  BY DEF MatcherInv
<1> QED
  BY <1>1, <1>2, <1>3, <1>4, PTL DEF Spec, MatchSound

-----------------------------------------------------------------------------
(* The association of tracks and detections.  AssignmentProofs shows what  *)
(* it says here of the instance in the suite.                              *)

Pairing == INSTANCE AssignmentProofs
             WITH pc <- lapjv_pc, Rows <- TrackCount, Cols <- BoxCount, Costs <- PairCosts

LEMMA PairingAssumption == Pairing!AssignmentAssumption
BY LapjvAssumption DEF Lapjv!AssignmentAssumption, Pairing!AssignmentAssumption,
   Lapjv!Nan, Pairing!Nan

LEMMA PairingCosts ==
  /\ Pairing!R = Lapjv!R /\ Pairing!C = Lapjv!C /\ Pairing!AugCols = Lapjv!AugCols
  /\ \A r, c : Pairing!Valid(r, c) <=> Lapjv!Valid(r, c)
  /\ \A r, c : Pairing!a(r, c) = Lapjv!a(r, c)
<1>1. /\ Pairing!R = Lapjv!R /\ Pairing!C = Lapjv!C /\ Pairing!AugCols = Lapjv!AugCols
      /\ Pairing!dummy_cost = Lapjv!dummy_cost
      /\ Pairing!invalid_cost = Lapjv!invalid_cost
      /\ Pairing!Nan = Lapjv!Nan
  BY DEF Pairing!R, Lapjv!R, Pairing!C, Lapjv!C, Pairing!AugCols, Lapjv!AugCols,
     Pairing!dummy_cost, Lapjv!dummy_cost, Pairing!invalid_cost, Lapjv!invalid_cost,
     Pairing!Nan, Lapjv!Nan
<1>2. \A r, c : Pairing!Valid(r, c) <=> Lapjv!Valid(r, c)
  BY <1>1 DEF Pairing!Valid, Lapjv!Valid
<1>3. \A r, c : Pairing!a(r, c) = Lapjv!a(r, c)
  BY <1>1, <1>2 DEF Pairing!a, Lapjv!a
<1> QED
  BY <1>1, <1>2, <1>3

LEMMA PairingInit == Lapjv!Init => Pairing!Init
BY Zenon DEF Lapjv!Init, Pairing!Init, Pairing!R, Lapjv!R, Pairing!C, Lapjv!C,
   Pairing!AugCols, Lapjv!AugCols

LEMMA PairingNext == Lapjv!Next => Pairing!Next
<1>1. Lapjv!Outer => Pairing!Outer
  BY Zenon DEF Lapjv!Outer, Pairing!Outer, Pairing!AugCols, Lapjv!AugCols
<1>2. Lapjv!Finish => Pairing!Finish
  BY Zenon DEF Lapjv!Finish, Pairing!Finish
<1>3. Lapjv!Grow => Pairing!Grow
  BY Zenon DEF Lapjv!Grow, Pairing!Grow, Pairing!AugCols, Lapjv!AugCols,
     Lapjv!Seen, Pairing!Seen, Lapjv!Below, Pairing!Below, Lapjv!Lowered, Pairing!Lowered,
     Lapjv!Nearest, Pairing!Nearest, Lapjv!Potentials, Pairing!Potentials,
     Lapjv!a, Pairing!a, Lapjv!Valid, Pairing!Valid,
     Pairing!dummy_cost, Lapjv!dummy_cost, Pairing!invalid_cost, Lapjv!invalid_cost,
     Pairing!Nan, Lapjv!Nan
<1>4. Lapjv!Augment => Pairing!Augment
  BY Zenon DEF Lapjv!Augment, Pairing!Augment
<1>5. Lapjv!Done => Pairing!Done
  BY Zenon DEF Lapjv!Done, Pairing!Done, Lapjv!vars, Pairing!vars
<1> QED
  BY <1>1, <1>2, <1>3, <1>4, <1>5 DEF Lapjv!Next, Pairing!Next

LEMMA PairingSound ==
  Pairing!Optimal /\ Pairing!DualFeasible /\ Pairing!TypeOK
    => Lapjv!Optimal /\ Lapjv!DualFeasible /\ Lapjv!TypeOK
<1>1. \A f, r : Pairing!RowCost(f, r) = Lapjv!RowCost(f, r)
  BY Zenon DEF Pairing!RowCost, Lapjv!RowCost, Pairing!dummy_cost, Lapjv!dummy_cost
<1>2. \A f : Pairing!Total(f) = Lapjv!Total(f)
  BY Zenon DEF Pairing!Total, Lapjv!Total, Pairing!RowCost, Lapjv!RowCost,
     Pairing!dummy_cost, Lapjv!dummy_cost
<1>3. \A f : Pairing!Pairs(f) = Lapjv!Pairs(f)
  BY Zenon DEF Pairing!Pairs, Lapjv!Pairs, Pairing!R, Lapjv!R
<1>4. Pairing!Matchings = Lapjv!Matchings
  BY Zenon DEF Pairing!Matchings, Lapjv!Matchings, Pairing!R, Lapjv!R,
     Pairing!Valid, Lapjv!Valid, Pairing!Nan, Lapjv!Nan
<1>5. Pairing!matches = Lapjv!matches
  BY Zenon DEF Pairing!matches, Lapjv!matches, Pairing!C, Lapjv!C,
     Pairing!Valid, Lapjv!Valid, Pairing!Nan, Lapjv!Nan
<1>6. Pairing!Optimal => Lapjv!Optimal
  BY <1>2, <1>3, <1>4, <1>5 DEF Pairing!Optimal, Lapjv!Optimal
<1>7. Pairing!DualFeasible => Lapjv!DualFeasible
  BY PairingCosts DEF Pairing!DualFeasible, Lapjv!DualFeasible
<1>8. Pairing!TypeOK => Lapjv!TypeOK
  BY PairingCosts, Zenon DEF Pairing!TypeOK, Lapjv!TypeOK, Pairing!R, Lapjv!R, Pairing!C, Lapjv!C,
     Pairing!AugCols, Lapjv!AugCols
<1> QED
  BY <1>6, <1>7, <1>8

PairingInv == component = "lapjv" => Pairing!AssignmentInvariant

LEMMA PairingInvInit == Init => PairingInv
BY PairingAssumption, PairingInit, Pairing!InitInvariant DEF Init, PairingInv

LEMMA PairingInvStep == PairingInv /\ [Next]_vars => PairingInv'
<1> SUFFICES ASSUME PairingInv, [Next]_vars PROVE PairingInv'
  OBVIOUS
<1>1. CASE component = "lapjv" /\ (Lapjv!Next \/ UNCHANGED lapjvVars)
  <2>1. Pairing!AssignmentInvariant
    BY <1>1 DEF PairingInv
  <2>2. Pairing!Next \/ UNCHANGED Pairing!vars
    BY <1>1, PairingNext DEF lapjvVars, Pairing!vars
  <2>3. Pairing!AssignmentInvariant'
    BY <2>1, <2>2, PairingAssumption, Pairing!InvariantStep
  <2> QED
    BY <2>3 DEF PairingInv
<1>2. CASE component # "lapjv" /\ component' = component
  BY <1>2 DEF PairingInv
<1>3. CASE UNCHANGED vars
  <2>1. component' = component /\ UNCHANGED lapjvVars
    BY <1>3 DEF vars
  <2> QED
    BY <1>1, <1>2, <2>1
<1>4. CASE Next
  <2>1. component' = component
    BY <1>4 DEF Next
  <2>2. component = "lapjv" => Lapjv!Next
    BY <1>4 DEF Next
  <2> QED
    BY <1>1, <1>2, <2>1, <2>2
<1> QED
  BY <1>3, <1>4

LEMMA PairingInvSound ==
  PairingInv => (component = "lapjv" =>
                   /\ Lapjv!Optimal
                   /\ Lapjv!DualFeasible
                   /\ Lapjv!TypeOK)
<1> SUFFICES ASSUME Pairing!AssignmentInvariant
             PROVE  Lapjv!Optimal /\ Lapjv!DualFeasible /\ Lapjv!TypeOK
  BY DEF PairingInv
<1>1. Pairing!Optimal /\ Pairing!DualFeasible
  BY PairingAssumption, Pairing!OptimalInTheEnd, Pairing!CertificateBetweenInsertions
<1>2. Pairing!TypeOK
  BY DEF Pairing!AssignmentInvariant
<1> QED
  BY <1>1, <1>2, PairingSound

\* The tracker and the runtime, for any number of detections, identifiers and
\* frames: a track is in at most one list, is reported only with a detection
\* of the frame that is its own, and one that started after the first frame
\* not at its first sight; it is lost for a bounded time and never comes back;
\* removing near duplicates leaves some track of the greatest age; and what
\* the processor knows under a number was seen of the track that has it.  The
\* association of any number of tracks and detections is one of least cost.
THEOREM TracksAreSound == Spec => TracksSound
<1>1. Init => TracksInv /\ PairingInv
  BY TracksInvInit, PairingInvInit
<1>2. TracksInv /\ PairingInv /\ [Next]_vars => TracksInv' /\ PairingInv'
  BY TracksInvStep, PairingInvStep
<1>3. TracksInv /\ [Next]_vars => [component = "track" => Track!StaysGone]_vars
  BY TracksInvStep
<1>4. TracksInv => (component = "track" =>
                  /\ Track!ListsPartition
                  /\ Track!OutputsCurrent
                  /\ Track!SeenTwice
                  /\ Track!LostNotForEver
                  /\ Track!LongestLivedStays
                  /\ Track!EvidenceOfThisTrack
                  /\ Track!TypeOK)
  BY TracksInvSound
<1>5. PairingInv => (component = "lapjv" =>
                  /\ Lapjv!Optimal
                  /\ Lapjv!DualFeasible
                  /\ Lapjv!TypeOK)
  BY PairingInvSound
<1> QED
  BY <1>1, <1>2, <1>3, <1>4, <1>5, PTL DEF Spec, TracksSound

-----------------------------------------------------------------------------
(* The alignment of a face.  FaceAlignmentProofs shows what it says here   *)
(* of the instance in the suite.                                           *)

Aligning == INSTANCE FaceAlignmentProofs
              WITH pc <- align_pc

\* One instance computes what the other does.
LEMMA AlignNumbers ==
  /\ Aligning!Zero = Align!Zero /\ \A n : Aligning!Int2Rat(n) = Align!Int2Rat(n)
  /\ \A n : Aligning!Abs(n) = Align!Abs(n)
  /\ Aligning!gcd = Align!gcd
  /\ \A n, d : Aligning!Rat(n, d) = Align!Rat(n, d)
  /\ \A x, y : /\ Aligning!Add(x, y) = Align!Add(x, y) /\ Aligning!Sub(x, y) = Align!Sub(x, y)
               /\ Aligning!Mul(x, y) = Align!Mul(x, y) /\ Aligning!Div(x, y) = Align!Div(x, y)
               /\ Aligning!Larger(x, y) <=> Align!Larger(x, y)
  /\ \A x : Aligning!Neg(x) = Align!Neg(x)
  /\ \A f : Aligning!Sum(f) = Align!Sum(f)
  /\ \A f, g : Aligning!Centred(f, g) = Align!Centred(f, g)
<1>1. Aligning!Zero = Align!Zero /\ \A n : Aligning!Int2Rat(n) = Align!Int2Rat(n)
  BY Zenon DEF Aligning!Zero, Align!Zero, Aligning!Int2Rat, Align!Int2Rat
<1>2. \A n : Aligning!Abs(n) = Align!Abs(n)
  BY Zenon DEF Aligning!Abs, Align!Abs
<1>3. Aligning!gcd = Align!gcd
  BY Zenon DEF Aligning!gcd, Align!gcd
<1>4. \A n, d : Aligning!Rat(n, d) = Align!Rat(n, d)
  BY <1>2, <1>3, SMT DEF Aligning!Rat, Align!Rat
<1>5. \A x, y : /\ Aligning!Add(x, y) = Align!Add(x, y)
                /\ Aligning!Sub(x, y) = Align!Sub(x, y)
                /\ Aligning!Mul(x, y) = Align!Mul(x, y)
                /\ Aligning!Div(x, y) = Align!Div(x, y)
  BY <1>4, SMT DEF Aligning!Add, Align!Add, Aligning!Sub, Align!Sub,
     Aligning!Mul, Align!Mul, Aligning!Div, Align!Div
<1>6. \A x, y : Aligning!Larger(x, y) <=> Align!Larger(x, y)
  BY <1>2, SMT DEF Aligning!Larger, Align!Larger
<1>7. \A x : Aligning!Neg(x) = Align!Neg(x)
  BY Zenon DEF Aligning!Neg, Align!Neg
<1>8. \A f : Aligning!Sum(f) = Align!Sum(f)
  BY Zenon DEF Aligning!Sum, Align!Sum
<1>9. \A f, g : Aligning!Centred(f, g) = Align!Centred(f, g)
  BY <1>8, SMT DEF Aligning!Centred, Align!Centred
<1> QED
  BY <1>1, <1>2, <1>3, <1>4, <1>5, <1>6, <1>7, <1>8, <1>9

LEMMA AligningAssumption == Aligning!AlignmentAssumption
<1>1. Aligning!TemplatesAlike <=> Align!TemplatesAlike
  BY AlignNumbers, SMT DEF Aligning!TemplatesAlike, Align!TemplatesAlike
<1> QED
  BY AlignAssumption, <1>1 DEF Align!AlignmentAssumption, Aligning!AlignmentAssumption

LEMMA AlignOperators ==
  /\ \A s : Aligning!Template(s) = Align!Template(s)
  /\ \A lm : Aligning!Ata(lm) = Align!Ata(lm)
  /\ \A lm, dst : Aligning!Atb(lm, dst) = Align!Atb(lm, dst)
  /\ \A M, c : Aligning!Pivot(M, c) = Align!Pivot(M, c)
  /\ \A f, r, c : Aligning!Swapped(f, r, c) = Align!Swapped(f, r, c)
  /\ \A M, c : Aligning!Eliminated(M, c) = Align!Eliminated(M, c)
  /\ \A M, h, c : Aligning!EliminatedSide(M, h, c) = Align!EliminatedSide(M, h, c)
  /\ \A q : Aligning!DstToSrc(q) = Align!DstToSrc(q)
  /\ \A q, pt : Aligning!U(q, pt) = Align!U(q, pt) /\ Aligning!V(q, pt) = Align!V(q, pt)
  /\ \A q : Aligning!GoodFit(q) <=> Align!GoodFit(q)
  /\ \A lm, dst : Aligning!ClosedForm(lm, dst) = Align!ClosedForm(lm, dst)
  /\ Aligning!NoFit = Align!NoFit
<1>1. \A s : Aligning!Template(s) = Align!Template(s)
  BY Zenon DEF Aligning!Template, Align!Template
<1>2. \A lm : Aligning!Ata(lm) = Align!Ata(lm)
  <2>1. \A x : Aligning!RowU(x) = Align!RowU(x) /\ Aligning!RowV(x) = Align!RowV(x)
    BY SMT DEF Aligning!RowU, Align!RowU, Aligning!RowV, Align!RowV
  <2>2. /\ \A n : Aligning!Int2Rat(n) = Align!Int2Rat(n)
        /\ \A f : Aligning!Sum(f) = Align!Sum(f)
    BY AlignNumbers
  <2> QED
    BY <2>1, <2>2, ZenonT(60) DEF Aligning!Ata, Align!Ata
<1>3. \A lm, dst : Aligning!Atb(lm, dst) = Align!Atb(lm, dst)
  <2>1. \A x : Aligning!RowU(x) = Align!RowU(x) /\ Aligning!RowV(x) = Align!RowV(x)
    BY SMT DEF Aligning!RowU, Align!RowU, Aligning!RowV, Align!RowV
  <2>2. /\ \A n : Aligning!Int2Rat(n) = Align!Int2Rat(n)
        /\ \A f : Aligning!Sum(f) = Align!Sum(f)
    BY AlignNumbers
  <2> QED
    BY <2>1, <2>2, ZenonT(60) DEF Aligning!Atb, Align!Atb
<1>4. \A M, c : Aligning!Pivot(M, c) = Align!Pivot(M, c)
  BY Zenon DEF Aligning!Pivot, Align!Pivot, Aligning!Larger, Align!Larger,
     Aligning!Abs, Align!Abs
<1>5. \A f, r, c : Aligning!Swapped(f, r, c) = Align!Swapped(f, r, c)
  BY Zenon DEF Aligning!Swapped, Align!Swapped
<1>6. \A M, c : Aligning!Eliminated(M, c) = Align!Eliminated(M, c)
  <2>1. \A M, c : Aligning!ScaledRow(M, c) = Align!ScaledRow(M, c)
    BY AlignNumbers, SMT DEF Aligning!ScaledRow, Align!ScaledRow
  <2> QED
    BY <2>1, AlignNumbers, SMT DEF Aligning!Eliminated, Align!Eliminated
<1>7. \A M, h, c : Aligning!EliminatedSide(M, h, c) = Align!EliminatedSide(M, h, c)
  BY AlignNumbers, SMT DEF Aligning!EliminatedSide, Align!EliminatedSide
<1>8. \A q : Aligning!DstToSrc(q) = Align!DstToSrc(q)
  BY AlignNumbers, SMT DEF Aligning!DstToSrc, Align!DstToSrc
<1>9. \A q, pt : Aligning!U(q, pt) = Align!U(q, pt) /\ Aligning!V(q, pt) = Align!V(q, pt)
  BY AlignNumbers, SMT DEF Aligning!U, Align!U, Aligning!V, Align!V
<1>10. \A q, lm, dst : Aligning!SquaredError(q, lm, dst) = Align!SquaredError(q, lm, dst)
  <2>1. \A x : Aligning!Square(x) = Align!Square(x)
    BY AlignNumbers, SMT DEF Aligning!Square, Align!Square
  <2>2. \A q, lm, dst, n : Aligning!Residual(q, lm, dst, n) = Align!Residual(q, lm, dst, n)
    BY AlignNumbers, <1>9, <2>1, SMT DEF Aligning!Residual, Align!Residual
  <2> QED
    BY AlignNumbers, <2>2, SMT DEF Aligning!SquaredError, Align!SquaredError
<1>11. \A q : Aligning!GoodFit(q) <=> Align!GoodFit(q)
  BY <1>1, <1>10, SMT DEF Aligning!GoodFit, Align!GoodFit
<1>12. \A lm, dst : Aligning!ClosedForm(lm, dst) = Align!ClosedForm(lm, dst)
  BY AlignNumbers, SMT DEF Aligning!ClosedForm, Align!ClosedForm
<1>13. Aligning!NoFit = Align!NoFit
  BY AlignNumbers, SMT DEF Aligning!NoFit, Align!NoFit
<1> QED
  BY <1>1, <1>2, <1>3, <1>4, <1>5, <1>6, <1>7, <1>8, <1>9, <1>11, <1>12, <1>13

LEMMA AligningInit == Align!Init => Aligning!Init
BY AlignNumbers, AlignOperators, SMT DEF Align!Init, Aligning!Init

LEMMA AligningNext == Align!Next => Aligning!Next
<1>1. Align!Enter => Aligning!Enter
  BY AlignOperators, SMT DEF Align!Enter, Aligning!Enter
<1>2. Align!Solve => Aligning!Solve
  BY AlignOperators, SMT DEF Align!Solve, Aligning!Solve, Align!Throws, Aligning!Throws
<1>3. Align!Finish => Aligning!Finish
  BY AlignOperators, SMT DEF Align!Finish, Aligning!Finish, Align!Throws, Aligning!Throws
<1>4. Align!Ended => Aligning!Ended
  BY Zenon DEF Align!Ended, Aligning!Ended, Align!vars, Aligning!vars
<1> QED
  BY <1>1, <1>2, <1>3, <1>4 DEF Align!Next, Aligning!Next

LEMMA AligningSound ==
  Aligning!QualityMeansAlignable /\ Aligning!LeastSquares /\ Aligning!InverseTakesBack
    => Align!QualityMeansAlignable /\ Align!LeastSquares /\ Align!InverseTakesBack
<1>1. Aligning!QualityMeansAlignable => Align!QualityMeansAlignable
  BY DEF Aligning!QualityMeansAlignable, Align!QualityMeansAlignable
<1>2. Aligning!LeastSquares => Align!LeastSquares
  BY AlignOperators, SMT DEF Aligning!LeastSquares, Align!LeastSquares
<1>3. Aligning!InverseTakesBack => Align!InverseTakesBack
  BY AlignNumbers, AlignOperators, SMT
     DEF Aligning!InverseTakesBack, Align!InverseTakesBack
<1> QED
  BY <1>1, <1>2, <1>3

AligningInv == component = "align" => Aligning!AlignInvariant

LEMMA AligningInvInit == Init => AligningInv
BY AligningAssumption, AligningInit, Aligning!AlignInit DEF Init, AligningInv

LEMMA AligningInvStep == AligningInv /\ [Next]_vars => AligningInv'
<1> SUFFICES ASSUME AligningInv, [Next]_vars PROVE AligningInv'
  OBVIOUS
<1>1. CASE component = "align" /\ (Align!Next \/ UNCHANGED alignVars)
  <2>1. Aligning!AlignInvariant
    BY <1>1 DEF AligningInv
  <2>2. Aligning!Next \/ UNCHANGED Aligning!vars
    BY <1>1, AligningNext DEF alignVars, Aligning!vars
  <2>3. Aligning!AlignInvariant'
    BY <2>1, <2>2, AligningAssumption, Aligning!AlignNext
  <2> QED
    BY <2>3 DEF AligningInv
<1>2. CASE component # "align" /\ component' = component
  BY <1>2 DEF AligningInv
<1>3. CASE UNCHANGED vars
  <2>1. component' = component /\ UNCHANGED alignVars
    BY <1>3 DEF vars
  <2> QED
    BY <1>1, <1>2, <2>1
<1>4. CASE Next
  <2>1. component' = component
    BY <1>4 DEF Next
  <2>2. component = "align" => Align!Next
    BY <1>4 DEF Next
  <2> QED
    BY <1>1, <1>2, <2>1, <2>2
<1> QED
  BY <1>3, <1>4

\* The similarities that the liveness model and the recogniser estimate for a
\* face that quality() lets through exist, so neither estimate throws; they
\* are those of least squares, and dst_to_src is the inverse: for any landmarks, any bound on the error and
\* any two templates of one shape.
THEOREM FacesAreSound == Spec => []FacesSound
<1>1. Init => AligningInv
  BY AligningInvInit
<1>2. AligningInv /\ [Next]_vars => AligningInv'
  BY AligningInvStep
<1>3. AligningInv => FacesSound
  BY AligningAssumption, Aligning!AlignSound, AligningSound DEF AligningInv, FacesSound
<1> QED
  BY <1>1, <1>2, <1>3, PTL DEF Spec
==============================================================================
