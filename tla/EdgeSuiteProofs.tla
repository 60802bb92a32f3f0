---------------------------- MODULE EdgeSuiteProofs ----------------------------
(***************************************************************************)
(* Proofs about the modules that EdgeSuite instantiates, for any value of  *)
(* its constants: the threads of the synchronisation (SyncThreads), the    *)
(* clocks of the device channel (DeviceChannel), the payloads and receipts *)
(* of the upload (WireFormat), a request (HttpRequest), the credential     *)
(* file (CredentialFile), the opening of the database (DatabaseUpgrade)    *)
(* and the files a process is bound to (ModelBinding).  Each part has the  *)
(* same plan: one lemma per conjunct of the inductive invariant, which     *)
(* says that every step keeps it, the invariant's step, and the theorem    *)
(* about the suite.                                                        *)
(***************************************************************************)
EXTENDS EdgeSuite, SequenceTheorems, FiniteSetTheorems, WellFoundedInduction, TLAPS

-----------------------------------------------------------------------------
(* SyncThreads                                                             *)

\* Where the threads and the owner are, and what the channel reports, stays
\* among the states of the code.
LEMMA PhasesStep ==
  ASSUME Threads!ThreadsInvariant, Threads!Next
  PROVE  /\ owner' \in Threads!OwnerPhases /\ ch' \in Threads!ChannelPhases
         /\ wk' \in Threads!WorkerPhases /\ runtime' \in Threads!RuntimeStates
<1> USE DEF Threads!ThreadsInvariant, Threads!TypeOK, Threads!OwnerPhases,
            Threads!ChannelPhases, Threads!WorkerPhases,
            Threads!RuntimeStates, Threads!objectVars, Threads!channelVars,
            Threads!workerVars, Threads!ownerVars, Threads!syncVars
<1>1. CASE Threads!Worker
  <2>1. CASE Threads!WorkerTop
    BY <2>1 DEF Threads!WorkerTop
  <2>2. CASE Threads!StepRuns(TRUE)
    BY <2>2 DEF Threads!StepRuns
  <2>3. CASE Threads!StepRuns(FALSE)
    BY <2>3 DEF Threads!StepRuns
  <2>4. CASE Threads!StepThrows
    BY <2>4 DEF Threads!StepThrows
  <2>5. CASE Threads!WorkerTest
    BY <2>5 DEF Threads!WorkerTest
  <2>6. CASE Threads!WorkerBlock
    BY <2>6 DEF Threads!WorkerBlock
  <2>7. CASE Threads!WorkerTimeout
    BY <2>7 DEF Threads!WorkerTimeout
  <2>8. CASE Threads!WorkerLeaves
    BY <2>8 DEF Threads!WorkerLeaves
  <2> QED
    BY <1>1, <2>1, <2>2, <2>3, <2>4, <2>5, <2>6, <2>7, <2>8 DEF Threads!Worker
<1>2. CASE Threads!Channel
  BY <1>2 DEF Threads!Channel, Threads!ChannelTop, Threads!Connect,
              Threads!ChannelThrows, Threads!RequestRefresh,
              Threads!Authenticated, Threads!ChannelWakes, Threads!ChannelPoll,
              Threads!Report, Threads!CloseSocket, Threads!ChannelBlock,
              Threads!ChannelTimeout, Threads!ChannelStep, Threads!SignalFree,
              Threads!Notified
<1>3. CASE Threads!ServerSpeaks
  BY <1>3 DEF Threads!ServerSpeaks, Threads!Connected
<1>4. CASE Threads!Network
  BY <1>4 DEF Threads!Network, Threads!NetworkChanges, Threads!CallbackLocks,
              Threads!CallbackWakes, Threads!SignalFree, Threads!Notified
<1>5. CASE Threads!Loop
  <2>1. CASE Threads!Frame
    BY <2>1 DEF Threads!Frame, Threads!StateFree
  <2>2. CASE Threads!Commit
    BY <2>2 DEF Threads!Commit, Threads!SignalFree, Threads!StateFree,
                Threads!Notified
  <2>3. CASE Threads!CommitFails
    BY <2>3 DEF Threads!CommitFails, Threads!SignalFree, Threads!StateFree,
                Threads!Notified
  <2>4. CASE Threads!Install(TRUE)
    BY <2>4 DEF Threads!Install, Threads!StateFree
  <2>5. CASE Threads!Install(FALSE)
    BY <2>5 DEF Threads!Install, Threads!StateFree
  <2>6. CASE Threads!InstallNotDue
    BY <2>6 DEF Threads!InstallNotDue
  <2>7. CASE Threads!LeaveLoop
    BY <2>7 DEF Threads!LeaveLoop, Threads!OwnerStep
  <2> QED
    BY <1>5, <2>1, <2>2, <2>3, <2>4, <2>5, <2>6, <2>7 DEF Threads!Loop
<1>6. CASE Threads!Teardown
  BY <1>6 DEF Threads!Teardown, Threads!RequestStop, Threads!NotifyChannel,
              Threads!NotifyWorker, Threads!JoinChannel, Threads!Unsubscribe,
              Threads!JoinWorker, Threads!Free, Threads!OwnerStep,
              Threads!StateFree, Threads!SignalFree, Threads!Notified
<1>7. CASE Threads!Gone
  BY <1>7 DEF Threads!Gone, Threads!vars
<1> QED
  BY <1>1, <1>2, <1>3, <1>4, <1>5, <1>6, <1>7 DEF Threads!Next

\* The objects, the stop tokens and the network callback stay well typed.
LEMMA ObjectsStep ==
  ASSUME Threads!ThreadsInvariant, Threads!Next
  PROVE  /\ alive' \subseteq {"channel", "worker", "sync"}
         /\ raced' \subseteq {"channel", "worker"}
         /\ stop' \in [{"channel", "worker"} -> BOOLEAN]
         /\ cb' \in {"idle", "entered", "locked"}
<1> USE DEF Threads!ThreadsInvariant, Threads!TypeOK, Threads!objectVars,
            Threads!channelVars, Threads!workerVars, Threads!ownerVars,
            Threads!syncVars
<1>1. CASE Threads!Worker
  BY <1>1 DEF Threads!Worker, Threads!WorkerTop, Threads!StepRuns,
              Threads!StepThrows, Threads!WorkerTest, Threads!WorkerBlock,
              Threads!WorkerTimeout, Threads!WorkerLeaves
<1>2. CASE Threads!Channel
  BY <1>2 DEF Threads!Channel, Threads!ChannelTop, Threads!Connect,
              Threads!ChannelThrows, Threads!RequestRefresh,
              Threads!Authenticated, Threads!ChannelWakes, Threads!ChannelPoll,
              Threads!Report, Threads!CloseSocket, Threads!ChannelBlock,
              Threads!ChannelTimeout, Threads!ChannelStep, Threads!SignalFree,
              Threads!Notified
<1>3. CASE Threads!ServerSpeaks
  BY <1>3 DEF Threads!ServerSpeaks, Threads!Connected
<1>4. CASE Threads!Network
  BY <1>4 DEF Threads!Network, Threads!NetworkChanges, Threads!CallbackLocks,
              Threads!CallbackWakes, Threads!SignalFree, Threads!Notified
<1>5. CASE Threads!Loop
  BY <1>5 DEF Threads!Loop, Threads!Frame, Threads!Commit, Threads!CommitFails,
              Threads!Install, Threads!InstallNotDue, Threads!LeaveLoop,
              Threads!StateFree, Threads!SignalFree, Threads!Notified,
              Threads!OwnerStep
<1>6. CASE Threads!Teardown
  BY <1>6 DEF Threads!Teardown, Threads!RequestStop, Threads!NotifyChannel,
              Threads!NotifyWorker, Threads!JoinChannel, Threads!Unsubscribe,
              Threads!JoinWorker, Threads!Free, Threads!OwnerStep,
              Threads!StateFree, Threads!SignalFree, Threads!Notified
<1>7. CASE Threads!Gone
  BY <1>7 DEF Threads!Gone, Threads!vars
<1> QED
  BY <1>1, <1>2, <1>3, <1>4, <1>5, <1>6, <1>7 DEF Threads!Next

\* So do the flags of the connection and of the signal,
LEMMA ConnectionFlagsStep ==
  ASSUME Threads!ThreadsInvariant, Threads!Next
  PROVE  /\ conn_closed' \in BOOLEAN /\ hello' \in BOOLEAN /\ wake' \in BOOLEAN
         /\ net' \in BOOLEAN /\ threw' \in BOOLEAN
<1> USE DEF Threads!ThreadsInvariant, Threads!TypeOK, Threads!objectVars,
            Threads!channelVars, Threads!workerVars, Threads!ownerVars,
            Threads!syncVars
<1>1. CASE Threads!Worker
  BY <1>1 DEF Threads!Worker, Threads!WorkerTop, Threads!StepRuns,
              Threads!StepThrows, Threads!WorkerTest, Threads!WorkerBlock,
              Threads!WorkerTimeout, Threads!WorkerLeaves
<1>2. CASE Threads!Channel
  BY <1>2 DEF Threads!Channel, Threads!ChannelTop, Threads!Connect,
              Threads!ChannelThrows, Threads!RequestRefresh,
              Threads!Authenticated, Threads!ChannelWakes, Threads!ChannelPoll,
              Threads!Report, Threads!CloseSocket, Threads!ChannelBlock,
              Threads!ChannelTimeout, Threads!ChannelStep, Threads!SignalFree,
              Threads!Notified
<1>3. CASE Threads!ServerSpeaks
  BY <1>3 DEF Threads!ServerSpeaks, Threads!Connected
<1>4. CASE Threads!Network
  BY <1>4 DEF Threads!Network, Threads!NetworkChanges, Threads!CallbackLocks,
              Threads!CallbackWakes, Threads!SignalFree, Threads!Notified
<1>5. CASE Threads!Loop
  BY <1>5 DEF Threads!Loop, Threads!Frame, Threads!Commit, Threads!CommitFails,
              Threads!Install, Threads!InstallNotDue, Threads!LeaveLoop,
              Threads!StateFree, Threads!SignalFree, Threads!Notified,
              Threads!OwnerStep
<1>6. CASE Threads!Teardown
  BY <1>6 DEF Threads!Teardown, Threads!RequestStop, Threads!NotifyChannel,
              Threads!NotifyWorker, Threads!JoinChannel, Threads!Unsubscribe,
              Threads!JoinWorker, Threads!Free, Threads!OwnerStep,
              Threads!StateFree, Threads!SignalFree, Threads!Notified
<1>7. CASE Threads!Gone
  BY <1>7 DEF Threads!Gone, Threads!vars
<1> QED
  BY <1>1, <1>2, <1>3, <1>4, <1>5, <1>6, <1>7 DEF Threads!Next

\* the flags of the service,
LEMMA ServiceFlagsStep ==
  ASSUME Threads!ThreadsInvariant, Threads!Next
  PROVE  /\ refresh' \in BOOLEAN /\ auth' \in BOOLEAN
         /\ auth_refused' \in BOOLEAN /\ dirty' \in BOOLEAN
<1> USE DEF Threads!ThreadsInvariant, Threads!TypeOK, Threads!objectVars,
            Threads!channelVars, Threads!workerVars, Threads!ownerVars,
            Threads!syncVars
<1>1. CASE Threads!Worker
  <2>1. CASE Threads!WorkerTop
    BY <2>1 DEF Threads!WorkerTop
  <2>2. CASE Threads!StepRuns(TRUE)
    BY <2>2 DEF Threads!StepRuns
  <2>3. CASE Threads!StepRuns(FALSE)
    BY <2>3 DEF Threads!StepRuns
  <2>4. CASE Threads!StepThrows
    BY <2>4 DEF Threads!StepThrows
  <2>5. CASE Threads!WorkerTest
    BY <2>5 DEF Threads!WorkerTest
  <2>6. CASE Threads!WorkerBlock
    BY <2>6 DEF Threads!WorkerBlock
  <2>7. CASE Threads!WorkerTimeout
    BY <2>7 DEF Threads!WorkerTimeout
  <2>8. CASE Threads!WorkerLeaves
    BY <2>8 DEF Threads!WorkerLeaves
  <2> QED
    BY <1>1, <2>1, <2>2, <2>3, <2>4, <2>5, <2>6, <2>7, <2>8 DEF Threads!Worker
<1>2. CASE Threads!Channel
  BY <1>2 DEF Threads!Channel, Threads!ChannelTop, Threads!Connect,
              Threads!ChannelThrows, Threads!RequestRefresh,
              Threads!Authenticated, Threads!ChannelWakes, Threads!ChannelPoll,
              Threads!Report, Threads!CloseSocket, Threads!ChannelBlock,
              Threads!ChannelTimeout, Threads!ChannelStep, Threads!SignalFree,
              Threads!Notified
<1>3. CASE Threads!ServerSpeaks
  BY <1>3 DEF Threads!ServerSpeaks, Threads!Connected
<1>4. CASE Threads!Network
  BY <1>4 DEF Threads!Network, Threads!NetworkChanges, Threads!CallbackLocks,
              Threads!CallbackWakes, Threads!SignalFree, Threads!Notified
<1>5. CASE Threads!Loop
  BY <1>5 DEF Threads!Loop, Threads!Frame, Threads!Commit, Threads!CommitFails,
              Threads!Install, Threads!InstallNotDue, Threads!LeaveLoop,
              Threads!StateFree, Threads!SignalFree, Threads!Notified,
              Threads!OwnerStep
<1>6. CASE Threads!Teardown
  BY <1>6 DEF Threads!Teardown, Threads!RequestStop, Threads!NotifyChannel,
              Threads!NotifyWorker, Threads!JoinChannel, Threads!Unsubscribe,
              Threads!JoinWorker, Threads!Free, Threads!OwnerStep,
              Threads!StateFree, Threads!SignalFree, Threads!Notified
<1>7. CASE Threads!Gone
  BY <1>7 DEF Threads!Gone, Threads!vars
<1> QED
  BY <1>1, <1>2, <1>3, <1>4, <1>5, <1>6, <1>7 DEF Threads!Next

\* and the flags of the owner loop.
LEMMA OwnerFlagsStep ==
  ASSUME Threads!ThreadsInvariant, Threads!Next
  PROVE  /\ uncommitted' \in BOOLEAN /\ blocked' \in BOOLEAN
         /\ reload' \in BOOLEAN
<1> USE DEF Threads!ThreadsInvariant, Threads!TypeOK, Threads!objectVars,
            Threads!channelVars, Threads!workerVars, Threads!ownerVars,
            Threads!syncVars
<1>1. CASE Threads!Worker
  BY <1>1 DEF Threads!Worker, Threads!WorkerTop, Threads!StepRuns,
              Threads!StepThrows, Threads!WorkerTest, Threads!WorkerBlock,
              Threads!WorkerTimeout, Threads!WorkerLeaves
<1>2. CASE Threads!Channel
  BY <1>2 DEF Threads!Channel, Threads!ChannelTop, Threads!Connect,
              Threads!ChannelThrows, Threads!RequestRefresh,
              Threads!Authenticated, Threads!ChannelWakes, Threads!ChannelPoll,
              Threads!Report, Threads!CloseSocket, Threads!ChannelBlock,
              Threads!ChannelTimeout, Threads!ChannelStep, Threads!SignalFree,
              Threads!Notified
<1>3. CASE Threads!ServerSpeaks
  BY <1>3 DEF Threads!ServerSpeaks, Threads!Connected
<1>4. CASE Threads!Network
  BY <1>4 DEF Threads!Network, Threads!NetworkChanges, Threads!CallbackLocks,
              Threads!CallbackWakes, Threads!SignalFree, Threads!Notified
<1>5. CASE Threads!Loop
  <2>1. CASE Threads!Frame
    BY <2>1 DEF Threads!Frame, Threads!StateFree
  <2>2. CASE Threads!Commit
    BY <2>2 DEF Threads!Commit, Threads!SignalFree, Threads!StateFree,
                Threads!Notified
  <2>3. CASE Threads!CommitFails
    BY <2>3 DEF Threads!CommitFails, Threads!SignalFree, Threads!StateFree,
                Threads!Notified
  <2>4. CASE Threads!Install(TRUE)
    BY <2>4 DEF Threads!Install, Threads!StateFree
  <2>5. CASE Threads!Install(FALSE)
    BY <2>5 DEF Threads!Install, Threads!StateFree
  <2>6. CASE Threads!InstallNotDue
    BY <2>6 DEF Threads!InstallNotDue
  <2>7. CASE Threads!LeaveLoop
    BY <2>7 DEF Threads!LeaveLoop, Threads!OwnerStep
  <2> QED
    BY <1>5, <2>1, <2>2, <2>3, <2>4, <2>5, <2>6, <2>7 DEF Threads!Loop
<1>6. CASE Threads!Teardown
  BY <1>6 DEF Threads!Teardown, Threads!RequestStop, Threads!NotifyChannel,
              Threads!NotifyWorker, Threads!JoinChannel, Threads!Unsubscribe,
              Threads!JoinWorker, Threads!Free, Threads!OwnerStep,
              Threads!StateFree, Threads!SignalFree, Threads!Notified
<1>7. CASE Threads!Gone
  BY <1>7 DEF Threads!Gone, Threads!vars
<1> QED
  BY <1>1, <1>2, <1>3, <1>4, <1>5, <1>6, <1>7 DEF Threads!Next

\* The teardown destroys an object only after the thread that uses it was
\* joined, and a thread that has ended does not begin again.
LEMMA DestroyedInOrderStep ==
  ASSUME Threads!ThreadsInvariant, Threads!Next
  PROVE  Threads!DestroyedInOrder'
<1> USE DEF Threads!ThreadsInvariant, Threads!DestroyedInOrder,
            Threads!objectVars, Threads!channelVars, Threads!workerVars,
            Threads!ownerVars, Threads!syncVars
<1>1. CASE Threads!Worker
  BY <1>1 DEF Threads!Worker, Threads!WorkerTop, Threads!StepRuns,
              Threads!StepThrows, Threads!WorkerTest, Threads!WorkerBlock,
              Threads!WorkerTimeout, Threads!WorkerLeaves
<1>2. CASE Threads!Channel
  BY <1>2 DEF Threads!Channel, Threads!ChannelTop, Threads!Connect,
              Threads!ChannelThrows, Threads!RequestRefresh,
              Threads!Authenticated, Threads!ChannelWakes, Threads!ChannelPoll,
              Threads!Report, Threads!CloseSocket, Threads!ChannelBlock,
              Threads!ChannelTimeout, Threads!ChannelStep, Threads!SignalFree,
              Threads!Notified
<1>3. CASE Threads!ServerSpeaks
  BY <1>3 DEF Threads!ServerSpeaks, Threads!Connected
<1>4. CASE Threads!Network
  BY <1>4 DEF Threads!Network, Threads!NetworkChanges, Threads!CallbackLocks,
              Threads!CallbackWakes, Threads!SignalFree, Threads!Notified
<1>5. CASE Threads!Loop
  BY <1>5 DEF Threads!Loop, Threads!Frame, Threads!Commit, Threads!CommitFails,
              Threads!Install, Threads!InstallNotDue, Threads!LeaveLoop,
              Threads!StateFree, Threads!SignalFree, Threads!Notified,
              Threads!OwnerStep
<1>6. CASE Threads!Teardown
  BY <1>6 DEF Threads!Teardown, Threads!RequestStop, Threads!NotifyChannel,
              Threads!NotifyWorker, Threads!JoinChannel, Threads!Unsubscribe,
              Threads!JoinWorker, Threads!Free, Threads!OwnerStep,
              Threads!StateFree, Threads!SignalFree, Threads!Notified
<1>7. CASE Threads!Gone
  BY <1>7 DEF Threads!Gone, Threads!vars
<1> QED
  BY <1>1, <1>2, <1>3, <1>4, <1>5, <1>6, <1>7 DEF Threads!Next

\* The callback takes its strong reference only while there is one, and gives
\* it back.
LEMMA ReferencesCountedStep ==
  ASSUME Threads!ThreadsInvariant, Threads!Next
  PROVE  Threads!ReferencesCounted'
<1> USE DEF Threads!ThreadsInvariant, Threads!TypeOK,
            Threads!DestroyedInOrder, Threads!ReferencesCounted,
            Threads!objectVars, Threads!channelVars, Threads!workerVars,
            Threads!ownerVars, Threads!syncVars
<1>1. CASE Threads!Worker
  BY <1>1 DEF Threads!Worker, Threads!WorkerTop, Threads!StepRuns,
              Threads!StepThrows, Threads!WorkerTest, Threads!WorkerBlock,
              Threads!WorkerTimeout, Threads!WorkerLeaves
<1>2. CASE Threads!Channel
  BY <1>2 DEF Threads!Channel, Threads!ChannelTop, Threads!Connect,
              Threads!ChannelThrows, Threads!RequestRefresh,
              Threads!Authenticated, Threads!ChannelWakes, Threads!ChannelPoll,
              Threads!Report, Threads!CloseSocket, Threads!ChannelBlock,
              Threads!ChannelTimeout, Threads!ChannelStep, Threads!SignalFree,
              Threads!Notified
<1>3. CASE Threads!ServerSpeaks
  BY <1>3 DEF Threads!ServerSpeaks, Threads!Connected
<1>4. CASE Threads!Network
  BY <1>4 DEF Threads!Network, Threads!NetworkChanges, Threads!CallbackLocks,
              Threads!CallbackWakes, Threads!SignalFree, Threads!Notified
<1>5. CASE Threads!Loop
  BY <1>5 DEF Threads!Loop, Threads!Frame, Threads!Commit, Threads!CommitFails,
              Threads!Install, Threads!InstallNotDue, Threads!LeaveLoop,
              Threads!StateFree, Threads!SignalFree, Threads!Notified,
              Threads!OwnerStep
<1>6. CASE Threads!Teardown
  BY <1>6 DEF Threads!Teardown, Threads!RequestStop, Threads!NotifyChannel,
              Threads!NotifyWorker, Threads!JoinChannel, Threads!Unsubscribe,
              Threads!JoinWorker, Threads!Free, Threads!OwnerStep,
              Threads!StateFree, Threads!SignalFree, Threads!Notified
<1>7. CASE Threads!Gone
  BY <1>7 DEF Threads!Gone, Threads!vars
<1> QED
  BY <1>1, <1>2, <1>3, <1>4, <1>5, <1>6, <1>7 DEF Threads!Next

\* Once a destructor has notified, its thread begins to wait only from the test
\* it had made before.
LEMMA StopSeenOrRacedStep ==
  ASSUME Threads!ThreadsInvariant, Threads!Next
  PROVE  Threads!StopSeenOrRaced'
<1> USE DEF Threads!ThreadsInvariant, Threads!TypeOK, Threads!StopSeenOrRaced,
            Threads!objectVars, Threads!channelVars, Threads!workerVars,
            Threads!ownerVars, Threads!syncVars
<1>1. CASE Threads!Worker
  BY <1>1 DEF Threads!Worker, Threads!WorkerTop, Threads!StepRuns,
              Threads!StepThrows, Threads!WorkerTest, Threads!WorkerBlock,
              Threads!WorkerTimeout, Threads!WorkerLeaves
<1>2. CASE Threads!Channel
  BY <1>2 DEF Threads!Channel, Threads!ChannelTop, Threads!Connect,
              Threads!ChannelThrows, Threads!RequestRefresh,
              Threads!Authenticated, Threads!ChannelWakes, Threads!ChannelPoll,
              Threads!Report, Threads!CloseSocket, Threads!ChannelBlock,
              Threads!ChannelTimeout, Threads!ChannelStep, Threads!SignalFree,
              Threads!Notified
<1>3. CASE Threads!ServerSpeaks
  BY <1>3 DEF Threads!ServerSpeaks, Threads!Connected
<1>4. CASE Threads!Network
  BY <1>4 DEF Threads!Network, Threads!NetworkChanges, Threads!CallbackLocks,
              Threads!CallbackWakes, Threads!SignalFree, Threads!Notified
<1>5. CASE Threads!Loop
  BY <1>5 DEF Threads!Loop, Threads!Frame, Threads!Commit, Threads!CommitFails,
              Threads!Install, Threads!InstallNotDue, Threads!LeaveLoop,
              Threads!StateFree, Threads!SignalFree, Threads!Notified,
              Threads!OwnerStep
<1>6. CASE Threads!Teardown
  <2>1. CASE Threads!RequestStop
    BY <2>1 DEF Threads!RequestStop, Threads!OwnerStep
  <2>2. CASE Threads!NotifyChannel
    BY <2>2 DEF Threads!NotifyChannel, Threads!OwnerStep, Threads!StateFree
  <2>3. CASE Threads!NotifyWorker
    BY <2>3 DEF Threads!NotifyWorker, Threads!OwnerStep, Threads!SignalFree,
                Threads!Notified
  <2>4. CASE Threads!JoinChannel
    BY <2>4 DEF Threads!JoinChannel, Threads!OwnerStep
  <2>5. CASE Threads!Unsubscribe
    BY <2>5 DEF Threads!Unsubscribe, Threads!OwnerStep
  <2>6. CASE Threads!JoinWorker
    BY <2>6 DEF Threads!JoinWorker, Threads!OwnerStep
  <2>7. CASE Threads!Free
    BY <2>7 DEF Threads!Free, Threads!OwnerStep
  <2> QED
    BY <1>6, <2>1, <2>2, <2>3, <2>4, <2>5, <2>6, <2>7 DEF Threads!Teardown
<1>7. CASE Threads!Gone
  BY <1>7 DEF Threads!Gone, Threads!vars
<1> QED
  BY <1>1, <1>2, <1>3, <1>4, <1>5, <1>6, <1>7 DEF Threads!Next

\* A hint is taken with both its flags, and a worker that goes to its wait
\* without it will be woken for it.
LEMMA HintOnItsWayStep ==
  ASSUME Threads!ThreadsInvariant, Threads!Next
  PROVE  Threads!HintOnItsWay'
<1> USE DEF Threads!ThreadsInvariant, Threads!TypeOK, Threads!HintOnItsWay,
            Threads!objectVars, Threads!channelVars, Threads!workerVars,
            Threads!ownerVars, Threads!syncVars
<1>1. CASE Threads!Worker
  <2>1. CASE Threads!WorkerTop
    BY <2>1 DEF Threads!WorkerTop
  <2>2. CASE Threads!StepRuns(TRUE)
    BY <2>2 DEF Threads!StepRuns
  <2>3. CASE Threads!StepRuns(FALSE)
    BY <2>3 DEF Threads!StepRuns
  <2>4. CASE Threads!StepThrows
    BY <2>4 DEF Threads!StepThrows
  <2>5. CASE Threads!WorkerTest
    BY <2>5 DEF Threads!WorkerTest
  <2>6. CASE Threads!WorkerBlock
    BY <2>6 DEF Threads!WorkerBlock
  <2>7. CASE Threads!WorkerTimeout
    BY <2>7 DEF Threads!WorkerTimeout
  <2>8. CASE Threads!WorkerLeaves
    BY <2>8 DEF Threads!WorkerLeaves
  <2> QED
    BY <1>1, <2>1, <2>2, <2>3, <2>4, <2>5, <2>6, <2>7, <2>8 DEF Threads!Worker
<1>2. CASE Threads!Channel
  BY <1>2 DEF Threads!Channel, Threads!ChannelTop, Threads!Connect,
              Threads!ChannelThrows, Threads!RequestRefresh,
              Threads!Authenticated, Threads!ChannelWakes, Threads!ChannelPoll,
              Threads!Report, Threads!CloseSocket, Threads!ChannelBlock,
              Threads!ChannelTimeout, Threads!ChannelStep, Threads!SignalFree,
              Threads!Notified
<1>3. CASE Threads!ServerSpeaks
  BY <1>3 DEF Threads!ServerSpeaks, Threads!Connected
<1>4. CASE Threads!Network
  BY <1>4 DEF Threads!Network, Threads!NetworkChanges, Threads!CallbackLocks,
              Threads!CallbackWakes, Threads!SignalFree, Threads!Notified
<1>5. CASE Threads!Loop
  <2>1. CASE Threads!Frame
    BY <2>1 DEF Threads!Frame, Threads!StateFree
  <2>2. CASE Threads!Commit
    BY <2>2 DEF Threads!Commit, Threads!SignalFree, Threads!StateFree,
                Threads!Notified
  <2>3. CASE Threads!CommitFails
    BY <2>3 DEF Threads!CommitFails, Threads!SignalFree, Threads!StateFree,
                Threads!Notified
  <2>4. CASE Threads!Install(TRUE)
    BY <2>4 DEF Threads!Install, Threads!StateFree
  <2>5. CASE Threads!Install(FALSE)
    BY <2>5 DEF Threads!Install, Threads!StateFree
  <2>6. CASE Threads!InstallNotDue
    BY <2>6 DEF Threads!InstallNotDue
  <2>7. CASE Threads!LeaveLoop
    BY <2>7 DEF Threads!LeaveLoop, Threads!OwnerStep
  <2> QED
    BY <1>5, <2>1, <2>2, <2>3, <2>4, <2>5, <2>6, <2>7 DEF Threads!Loop
<1>6. CASE Threads!Teardown
  BY <1>6 DEF Threads!Teardown, Threads!RequestStop, Threads!NotifyChannel,
              Threads!NotifyWorker, Threads!JoinChannel, Threads!Unsubscribe,
              Threads!JoinWorker, Threads!Free, Threads!OwnerStep,
              Threads!StateFree, Threads!SignalFree, Threads!Notified
<1>7. CASE Threads!Gone
  BY <1>7 DEF Threads!Gone, Threads!vars
<1> QED
  BY <1>1, <1>2, <1>3, <1>4, <1>5, <1>6, <1>7 DEF Threads!Next

\* The reported state follows the flags of the owner; only events that wait
\* block the persistence.
LEMMA StatusTruthfulStep ==
  ASSUME Threads!ThreadsInvariant, Threads!Next
  PROVE  Threads!StatusTruthful' /\ (blocked' => uncommitted')
<1> USE DEF Threads!ThreadsInvariant, Threads!TypeOK, Threads!StatusTruthful,
            Threads!objectVars, Threads!channelVars, Threads!workerVars,
            Threads!ownerVars, Threads!syncVars
<1>1. CASE Threads!Worker
  <2>1. CASE Threads!WorkerTop
    BY <2>1 DEF Threads!WorkerTop
  <2>2. CASE Threads!StepRuns(TRUE)
    BY <2>2 DEF Threads!StepRuns
  <2>3. CASE Threads!StepRuns(FALSE)
    BY <2>3 DEF Threads!StepRuns
  <2>4. CASE Threads!StepThrows
    BY <2>4 DEF Threads!StepThrows
  <2>5. CASE Threads!WorkerTest
    BY <2>5 DEF Threads!WorkerTest
  <2>6. CASE Threads!WorkerBlock
    BY <2>6 DEF Threads!WorkerBlock
  <2>7. CASE Threads!WorkerTimeout
    BY <2>7 DEF Threads!WorkerTimeout
  <2>8. CASE Threads!WorkerLeaves
    BY <2>8 DEF Threads!WorkerLeaves
  <2> QED
    BY <1>1, <2>1, <2>2, <2>3, <2>4, <2>5, <2>6, <2>7, <2>8 DEF Threads!Worker
<1>2. CASE Threads!Channel
  BY <1>2 DEF Threads!Channel, Threads!ChannelTop, Threads!Connect,
              Threads!ChannelThrows, Threads!RequestRefresh,
              Threads!Authenticated, Threads!ChannelWakes, Threads!ChannelPoll,
              Threads!Report, Threads!CloseSocket, Threads!ChannelBlock,
              Threads!ChannelTimeout, Threads!ChannelStep, Threads!SignalFree,
              Threads!Notified
<1>3. CASE Threads!ServerSpeaks
  BY <1>3 DEF Threads!ServerSpeaks, Threads!Connected
<1>4. CASE Threads!Network
  BY <1>4 DEF Threads!Network, Threads!NetworkChanges, Threads!CallbackLocks,
              Threads!CallbackWakes, Threads!SignalFree, Threads!Notified
<1>5. CASE Threads!Loop
  <2>1. CASE Threads!Frame
    BY <2>1 DEF Threads!Frame, Threads!StateFree
  <2>2. CASE Threads!Commit
    BY <2>2 DEF Threads!Commit, Threads!SignalFree, Threads!StateFree,
                Threads!Notified
  <2>3. CASE Threads!CommitFails
    BY <2>3 DEF Threads!CommitFails, Threads!SignalFree, Threads!StateFree,
                Threads!Notified
  <2>4. CASE Threads!Install(TRUE)
    BY <2>4 DEF Threads!Install, Threads!StateFree
  <2>5. CASE Threads!Install(FALSE)
    BY <2>5 DEF Threads!Install, Threads!StateFree
  <2>6. CASE Threads!InstallNotDue
    BY <2>6 DEF Threads!InstallNotDue
  <2>7. CASE Threads!LeaveLoop
    BY <2>7 DEF Threads!LeaveLoop, Threads!OwnerStep
  <2> QED
    BY <1>5, <2>1, <2>2, <2>3, <2>4, <2>5, <2>6, <2>7 DEF Threads!Loop
<1>6. CASE Threads!Teardown
  BY <1>6 DEF Threads!Teardown, Threads!RequestStop, Threads!NotifyChannel,
              Threads!NotifyWorker, Threads!JoinChannel, Threads!Unsubscribe,
              Threads!JoinWorker, Threads!Free, Threads!OwnerStep,
              Threads!StateFree, Threads!SignalFree, Threads!Notified
<1>7. CASE Threads!Gone
  BY <1>7 DEF Threads!Gone, Threads!vars
<1> QED
  BY <1>1, <1>2, <1>3, <1>4, <1>5, <1>6, <1>7 DEF Threads!Next

\* The synchronisation starts in the invariant,
LEMMA ThreadsInit == Threads!Init => Threads!ThreadsInvariant
<1> SUFFICES ASSUME Threads!Init PROVE Threads!ThreadsInvariant
  OBVIOUS
<1> USE DEF Threads!Init
<1>1. /\ owner \in Threads!OwnerPhases /\ ch \in Threads!ChannelPhases
      /\ wk \in Threads!WorkerPhases /\ runtime \in Threads!RuntimeStates
  BY DEF Threads!OwnerPhases, Threads!ChannelPhases, Threads!WorkerPhases,
         Threads!RuntimeStates
<1>2. /\ alive \subseteq {"channel", "worker", "sync"}
      /\ raced \subseteq {"channel", "worker"}
      /\ stop \in [{"channel", "worker"} -> BOOLEAN]
      /\ cb \in {"idle", "entered", "locked"} /\ refs \in 0..2
  OBVIOUS
<1>3. /\ conn_closed \in BOOLEAN /\ hello \in BOOLEAN /\ wake \in BOOLEAN
      /\ net \in BOOLEAN /\ threw \in BOOLEAN /\ refresh \in BOOLEAN
      /\ auth \in BOOLEAN /\ auth_refused \in BOOLEAN /\ dirty \in BOOLEAN
      /\ uncommitted \in BOOLEAN /\ blocked \in BOOLEAN /\ reload \in BOOLEAN
  OBVIOUS
<1>4. Threads!TypeOK
  BY ONLY <1>1, <1>2, <1>3 DEF Threads!TypeOK
<1>5. Threads!DestroyedInOrder /\ Threads!ReferencesCounted
  BY DEF Threads!DestroyedInOrder, Threads!ReferencesCounted
<1>6. Threads!StopSeenOrRaced /\ Threads!HintOnItsWay
  BY DEF Threads!StopSeenOrRaced, Threads!HintOnItsWay
<1>7. Threads!StatusTruthful /\ (blocked => uncommitted)
  BY DEF Threads!StatusTruthful
<1> QED
  BY ONLY <1>4, <1>5, <1>6, <1>7 DEF Threads!ThreadsInvariant

\* every step of it keeps the invariant,
LEMMA ThreadsStep ==
  ASSUME Threads!ThreadsInvariant, Threads!Next
  PROVE  Threads!ThreadsInvariant'
<1>1. Threads!ReferencesCounted' /\ refs' \in 0..2
  BY ReferencesCountedStep DEF Threads!ReferencesCounted
<1>2. Threads!TypeOK'
  BY <1>1, PhasesStep, ObjectsStep, ConnectionFlagsStep, ServiceFlagsStep,
     OwnerFlagsStep DEF Threads!TypeOK
<1> QED
  BY <1>1, <1>2, DestroyedInOrderStep, StopSeenOrRacedStep, HintOnItsWayStep,
     StatusTruthfulStep DEF Threads!ThreadsInvariant

\* and the invariant implies what SyncThreads promises.
LEMMA ThreadsPromises ==
  ASSUME Threads!ThreadsInvariant
  PROVE  /\ Threads!NoUseAfterFree /\ Threads!HintNotSleptThrough
         /\ Threads!StopMissedOnlyInRace /\ Threads!StatusTruthful
         /\ Threads!TypeOK
<1> USE DEF Threads!ThreadsInvariant
<1>1. Threads!NoUseAfterFree
  BY DEF Threads!NoUseAfterFree, Threads!DestroyedInOrder,
         Threads!ReferencesCounted
<1>2. Threads!HintNotSleptThrough
  BY DEF Threads!HintNotSleptThrough, Threads!HintOnItsWay
<1>3. Threads!StopMissedOnlyInRace
  BY DEF Threads!StopMissedOnlyInRace, Threads!StopSeenOrRaced
<1> QED
  BY <1>1, <1>2, <1>3

\* ThreadsAreSound: whatever the workload, and wherever the threads are when
\* the owner ends, nothing is used after it was destroyed, no hint of the
\* backend is slept through unless the last step threw, a stop is missed only
\* between a test and its wait, and the reported state of the owner is the one
\* its two flags stand for.
THEOREM ThreadsAreSound == Spec => []ThreadsSound
<1> DEFINE Inv == component = "threads" => Threads!ThreadsInvariant
<1>1. Init => Inv
  BY ThreadsInit DEF Init
<1>2. Inv /\ [Next]_vars => Inv'
  <2> SUFFICES ASSUME Inv, [Next]_vars, component' = "threads"
               PROVE  Threads!ThreadsInvariant'
    OBVIOUS
  <2>1. CASE Next
    <3>1. component = "threads" /\ Threads!Next
      BY <2>1 DEF Next
    <3> QED
      BY <3>1, ThreadsStep
  <2>2. CASE UNCHANGED vars
    BY <2>2 DEF vars, threadsVars, Threads!ThreadsInvariant, Threads!TypeOK,
                Threads!DestroyedInOrder, Threads!ReferencesCounted,
                Threads!StopSeenOrRaced, Threads!HintOnItsWay,
                Threads!StatusTruthful
  <2> QED
    BY <2>1, <2>2
<1>3. Inv => ThreadsSound
  BY ThreadsPromises DEF ThreadsSound
<1> QED
  BY <1>1, <1>2, <1>3, PTL DEF Spec

-----------------------------------------------------------------------------
(* DeviceChannel                                                           *)

\* What Min and Max return, and the counts of the library.
LEMMA MinOfTwo ==
  ASSUME NEW a \in Int, NEW b \in Int
  PROVE  Chan!Min({a, b}) = IF a <= b THEN a ELSE b
  BY DEF Chan!Min

LEMMA MaxOfTwo ==
  ASSUME NEW a \in Int, NEW b \in Int
  PROVE  Chan!Max({a, b}) = IF a >= b THEN a ELSE b
  BY DEF Chan!Max

LEMMA MaxOfThree ==
  ASSUME NEW a \in Int, NEW b \in Int, NEW c \in Int
  PROVE  /\ Chan!Max({a, b, c}) \in {a, b, c} /\ Chan!Max({a, b, c}) >= a
         /\ Chan!Max({a, b, c}) >= b /\ Chan!Max({a, b, c}) >= c
  BY DEF Chan!Max

LEMMA SameCount ==
  \A S : /\ Chan!Cardinality(S) = Cardinality(S)
         /\ Chan!IsFiniteSet(S) = IsFiniteSet(S)
  BY DEF Chan!Cardinality, Cardinality, Chan!IsFiniteSet, IsFiniteSet

\* The limits of the code are natural numbers, as ChannelAssumption orders them.
LEMMA Limits ==
  /\ ConnectTimeout \in Nat /\ SendTimeout \in Nat /\ AckLimit \in Nat
  /\ ReportEvery \in Nat /\ StableAfter \in Nat /\ MaxFlaps \in Nat
  /\ MaxShift \in 0..5 /\ BaseDelay \in Nat \ {0}
  /\ ConnectTimeout <= AckLimit /\ SendTimeout < ReportEvery
  BY ChannelAssumption DEF Chan!ChannelAssumption

LEMMA ProductGrows ==
  ASSUME NEW b \in Nat, NEW x \in Nat, NEW y \in Nat, x <= y
  PROVE  b * x \in Nat /\ b * x <= b * y
  OBVIOUS

\* The delay of the backoff grows with the failures, up to that of MaxShift.
LEMMA ReconnectGrows ==
  ASSUME NEW m \in Nat, NEW n \in Nat, m <= n
  PROVE  /\ Chan!Reconnect(m) \in Nat
         /\ Chan!Reconnect(m) <= Chan!Reconnect(n)
         /\ Chan!Reconnect(m) <= Chan!Reconnect(MaxShift)
<1> DEFINE Shift(k) == Chan!Shifted[Chan!Min({k, MaxShift}) + 1]
<1>1. ASSUME NEW i \in 1..6, NEW j \in 1..6, i <= j
      PROVE  Chan!Shifted[i] \in Nat /\ Chan!Shifted[i] <= Chan!Shifted[j]
  BY <1>1 DEF Chan!Shifted
<1>2. \A k \in Nat : Chan!Min({k, MaxShift}) = IF k <= MaxShift THEN k ELSE MaxShift
  BY MinOfTwo, Limits
<1>3. /\ Shift(m) \in Nat /\ Shift(n) \in Nat /\ Shift(MaxShift) \in Nat
      /\ Shift(m) <= Shift(n) /\ Shift(m) <= Shift(MaxShift)
  BY <1>1, <1>2, Limits
<1>4. \A k : Chan!Reconnect(k) = BaseDelay * Shift(k)
  BY DEF Chan!Reconnect
<1> HIDE DEF Shift
<1> QED
  BY <1>3, <1>4, ProductGrows, Limits

\* A clock that is capped moves on by a tick at most.
LEMMA OlderByATick ==
  ASSUME NEW t \in 0..Chan!Longest
  PROVE  Chan!Older(t) \in 0..Chan!Longest /\ Chan!Older(t) <= t + 1
  BY MinOfTwo, Limits DEF Chan!Older, Chan!Longest

\* The bound of every deadline and delay.
LEMMA LeftBound ==
  /\ Chan!LongestLeft \in Nat
  /\ ConnectTimeout <= Chan!LongestLeft /\ SendTimeout <= Chan!LongestLeft
  /\ \A n \in Nat : Chan!Reconnect(n) \in 0..(Chan!LongestLeft - 1)
<1>1. \A n \in Nat : /\ Chan!Reconnect(n) \in Nat
                     /\ Chan!Reconnect(n) <= Chan!Reconnect(MaxShift)
  BY ReconnectGrows
<1>2. MaxShift \in Nat
  BY Limits
<1>3. Chan!Reconnect(MaxShift) + 1 \in Int
  BY <1>1, <1>2
<1>4. /\ Chan!LongestLeft
           \in {ConnectTimeout, SendTimeout, Chan!Reconnect(MaxShift) + 1}
      /\ Chan!LongestLeft >= ConnectTimeout /\ Chan!LongestLeft >= SendTimeout
      /\ Chan!LongestLeft >= Chan!Reconnect(MaxShift) + 1
  <2>1. ConnectTimeout \in Int /\ SendTimeout \in Int
    BY Limits
  <2> QED
    BY <1>3, <2>1, MaxOfThree, Zenon DEF Chan!LongestLeft
<1> QED
  BY <1>1, <1>2, <1>4, Limits

\* The phase of the thread and the credentials stay well typed,
LEMMA ChannelPhaseStep ==
  ASSUME Chan!ChannelInvariant, Chan!Next
  PROVE  /\ channel_pc' \in {"connect", "poll", "dead", "send", "idle", "close",
                         "backoff"}
         /\ current' \in Tokens /\ token' \in Tokens /\ closed' \in BOOLEAN
<1> USE DEF Chan!ChannelInvariant, Chan!TypeOK, Chan!clocks, Chan!queue
<1>1. CASE Chan!ConnectOk
  BY <1>1 DEF Chan!ConnectOk
<1>2. CASE Chan!Throws
  BY <1>2 DEF Chan!Throws, Chan!Ended
<1>3. CASE Chan!PollEnds
  BY <1>3 DEF Chan!PollEnds, Chan!Ended
<1>4. CASE Chan!PollWaits
  BY <1>4 DEF Chan!PollWaits
<1>5. CASE Chan!CountPending
  BY <1>5 DEF Chan!CountPending
<1>6. CASE Chan!CountDead
  BY <1>6 DEF Chan!CountDead
<1>7. CASE Chan!SendDone
  BY <1>7 DEF Chan!SendDone
<1>8. CASE Chan!Wake
  BY <1>8 DEF Chan!Wake
<1>9. CASE Chan!BackOff
  BY <1>9 DEF Chan!BackOff
<1>10. CASE Chan!Redial
  BY <1>10 DEF Chan!Redial
<1>11. CASE Chan!ServerSpeaks
  BY <1>11 DEF Chan!ServerSpeaks, Chan!Connected
<1>12. CASE Chan!Rotate
  BY <1>12 DEF Chan!Rotate
<1>13. CASE Chan!QueueMoves
  BY <1>13 DEF Chan!QueueMoves
<1>14. CASE Chan!Tick
  BY <1>14 DEF Chan!Tick
<1> QED
  BY <1>1, <1>2, <1>3, <1>4, <1>5, <1>6, <1>7, <1>8, <1>9, <1>10, <1>11,
     <1>12, <1>13, <1>14
     DEF Chan!Next, Chan!Channel, Chan!Around

\* so do the clocks, which are capped,
LEMMA ChannelClocksStep ==
  ASSUME Chan!ChannelInvariant, Chan!Next
  PROVE  /\ silent' \in 0..Chan!Longest /\ old' \in 0..Chan!Longest
         /\ up' \in 0..(StableAfter + 1) /\ due' \in 0..ReportEvery
<1> USE Limits DEF Chan!ChannelInvariant, Chan!TypeOK, Chan!clocks, Chan!queue
<1>1. CASE Chan!ConnectOk
  BY <1>1 DEF Chan!ConnectOk
<1>2. CASE Chan!Throws
  BY <1>2 DEF Chan!Throws, Chan!Ended
<1>3. CASE Chan!PollEnds
  BY <1>3 DEF Chan!PollEnds, Chan!Ended
<1>4. CASE Chan!PollWaits
  BY <1>4 DEF Chan!PollWaits
<1>5. CASE Chan!CountPending
  BY <1>5 DEF Chan!CountPending
<1>6. CASE Chan!CountDead
  BY <1>6 DEF Chan!CountDead
<1>7. CASE Chan!SendDone
  BY <1>7 DEF Chan!SendDone
<1>8. CASE Chan!Wake
  BY <1>8 DEF Chan!Wake
<1>9. CASE Chan!BackOff
  BY <1>9 DEF Chan!BackOff
<1>10. CASE Chan!Redial
  BY <1>10 DEF Chan!Redial, Chan!Longest
<1>11. CASE Chan!ServerSpeaks
  BY <1>11 DEF Chan!ServerSpeaks, Chan!Longest, Chan!Connected
<1>12. CASE Chan!Rotate
  BY <1>12 DEF Chan!Rotate, Chan!Longest
<1>13. CASE Chan!QueueMoves
  BY <1>13 DEF Chan!QueueMoves
<1>14. CASE Chan!Tick
  <2>1. up' = Chan!Min({up + 1, StableAfter + 1}) /\ up + 1 \in Int
        /\ StableAfter + 1 \in Int
    BY <1>14 DEF Chan!Tick
  <2>2. up' \in 0..(StableAfter + 1)
    BY <2>1, MinOfTwo
  <2>3. silent' = Chan!Older(silent) /\ old' \in {0, Chan!Older(old)}
        /\ due' = Chan!After(due)
    BY <1>14 DEF Chan!Tick
  <2>4. silent' \in 0..Chan!Longest /\ old' \in 0..Chan!Longest
    BY <2>3, OlderByATick DEF Chan!Longest
  <2>5. due' \in 0..ReportEvery
    BY <2>3 DEF Chan!After
  <2> QED
    BY <2>2, <2>4, <2>5
<1> QED
  BY <1>1, <1>2, <1>3, <1>4, <1>5, <1>6, <1>7, <1>8, <1>9, <1>10, <1>11,
     <1>12, <1>13, <1>14
     DEF Chan!Next, Chan!Channel, Chan!Around

\* the delays and the failures,
LEMMA ChannelDelaysStep ==
  ASSUME Chan!ChannelInvariant, Chan!Next
  PROVE  /\ failures' \in 0..MaxFlaps /\ flaps' \in 0..MaxFlaps
         /\ left' \in 0..Chan!LongestLeft
<1> USE Limits, LeftBound
    DEF Chan!ChannelInvariant, Chan!TypeOK, Chan!clocks, Chan!queue
<1>1. CASE Chan!ConnectOk
  BY <1>1 DEF Chan!ConnectOk
<1>2. CASE Chan!Throws
  BY <1>2 DEF Chan!Throws, Chan!Ended
<1>3. CASE Chan!PollEnds
  BY <1>3 DEF Chan!PollEnds, Chan!Ended
<1>4. CASE Chan!PollWaits
  BY <1>4 DEF Chan!PollWaits
<1>5. CASE Chan!CountPending
  BY <1>5 DEF Chan!CountPending
<1>6. CASE Chan!CountDead
  BY <1>6 DEF Chan!CountDead
<1>7. CASE Chan!SendDone
  BY <1>7 DEF Chan!SendDone
<1>8. CASE Chan!Wake
  BY <1>8 DEF Chan!Wake
<1>9. CASE Chan!BackOff
  <2>1. /\ failures' = Chan!Min({failures + 1, MaxFlaps})
        /\ flaps' = Chan!Min({flaps + 1, MaxFlaps})
        /\ left' \in {Chan!Reconnect(failures), Chan!Reconnect(failures) + 1}
    BY <1>9 DEF Chan!BackOff
  <2>2. failures' \in 0..MaxFlaps /\ flaps' \in 0..MaxFlaps
    <3>1. \A n \in 0..MaxFlaps : Chan!Min({n + 1, MaxFlaps}) \in 0..MaxFlaps
      BY ONLY Limits, MinOfTwo
    <3>2. failures \in 0..MaxFlaps /\ flaps \in 0..MaxFlaps
      OBVIOUS
    <3> QED
      BY ONLY <2>1, <3>1, <3>2
  <2>3. Chan!Reconnect(failures) \in 0..(Chan!LongestLeft - 1)
    BY LeftBound
  <2> QED
    BY <2>1, <2>2, <2>3
<1>10. CASE Chan!Redial
  BY <1>10 DEF Chan!Redial
<1>11. CASE Chan!ServerSpeaks
  BY <1>11 DEF Chan!ServerSpeaks, Chan!Connected
<1>12. CASE Chan!Rotate
  BY <1>12 DEF Chan!Rotate
<1>13. CASE Chan!QueueMoves
  BY <1>13 DEF Chan!QueueMoves
<1>14. CASE Chan!Tick
  BY <1>14 DEF Chan!Tick, Chan!After
<1> QED
  BY <1>1, <1>2, <1>3, <1>4, <1>5, <1>6, <1>7, <1>8, <1>9, <1>10, <1>11,
     <1>12, <1>13, <1>14
     DEF Chan!Next, Chan!Channel, Chan!Around

\* and the tables: an event is in one of them.
LEMMA ChannelTablesStep ==
  ASSUME Chan!ChannelInvariant, Chan!Next
  PROVE  /\ pending' \subseteq OutboxEvents /\ dead_letter' \subseteq OutboxEvents
         /\ pending' \cap dead_letter' = {}
         /\ kept' \subseteq pending' \cup dead_letter'
<1> USE DEF Chan!ChannelInvariant, Chan!TypeOK, Chan!clocks, Chan!queue
<1>1. CASE Chan!ConnectOk
  BY <1>1 DEF Chan!ConnectOk
<1>2. CASE Chan!Throws
  BY <1>2 DEF Chan!Throws, Chan!Ended
<1>3. CASE Chan!PollEnds
  BY <1>3 DEF Chan!PollEnds, Chan!Ended
<1>4. CASE Chan!PollWaits
  BY <1>4 DEF Chan!PollWaits
<1>5. CASE Chan!CountPending
  BY <1>5 DEF Chan!CountPending
<1>6. CASE Chan!CountDead
  BY <1>6 DEF Chan!CountDead
<1>7. CASE Chan!SendDone
  BY <1>7 DEF Chan!SendDone
<1>8. CASE Chan!Wake
  BY <1>8 DEF Chan!Wake
<1>9. CASE Chan!BackOff
  BY <1>9 DEF Chan!BackOff
<1>10. CASE Chan!Redial
  BY <1>10 DEF Chan!Redial
<1>11. CASE Chan!ServerSpeaks
  BY <1>11 DEF Chan!ServerSpeaks, Chan!Connected
<1>12. CASE Chan!Rotate
  BY <1>12 DEF Chan!Rotate
<1>13. CASE Chan!QueueMoves
  BY <1>13 DEF Chan!QueueMoves
<1>14. CASE Chan!Tick
  BY <1>14 DEF Chan!Tick
<1> QED
  BY <1>1, <1>2, <1>3, <1>4, <1>5, <1>6, <1>7, <1>8, <1>9, <1>10, <1>11,
     <1>12, <1>13, <1>14
     DEF Chan!Next, Chan!Channel, Chan!Around

\* The server cannot have been silent for longer than the limit and what the
\* operations of the socket and one wait add to it.
LEMMA SilenceSoFarStep ==
  ASSUME Chan!ChannelInvariant, Chan!Next
  PROVE  Chan!SilenceSoFar'
<1> USE Limits DEF Chan!ChannelInvariant, Chan!TypeOK, Chan!SilenceSoFar,
            Chan!clocks, Chan!queue
<1>1. CASE Chan!ConnectOk
  BY <1>1 DEF Chan!ConnectOk
<1>2. CASE Chan!Throws
  BY <1>2 DEF Chan!Throws, Chan!Ended
<1>3. CASE Chan!PollEnds
  BY <1>3 DEF Chan!PollEnds, Chan!Ended, Chan!Expired
<1>4. CASE Chan!PollWaits
  BY <1>4 DEF Chan!PollWaits, Chan!Expired
<1>5. CASE Chan!CountPending
  BY <1>5 DEF Chan!CountPending, Chan!Expired
<1>6. CASE Chan!CountDead
  BY <1>6 DEF Chan!CountDead
<1>7. CASE Chan!SendDone
  BY <1>7 DEF Chan!SendDone
<1>8. CASE Chan!Wake
  BY <1>8 DEF Chan!Wake
<1>9. CASE Chan!BackOff
  BY <1>9 DEF Chan!BackOff
<1>10. CASE Chan!Redial
  BY <1>10 DEF Chan!Redial
<1>11. CASE Chan!ServerSpeaks
  BY <1>11 DEF Chan!ServerSpeaks, Chan!Connected
<1>12. CASE Chan!Rotate
  BY <1>12 DEF Chan!Rotate
<1>13. CASE Chan!QueueMoves
  BY <1>13 DEF Chan!QueueMoves
<1>14. CASE Chan!Tick
  BY <1>14, OlderByATick DEF Chan!Tick, Chan!After
<1> QED
  BY <1>1, <1>2, <1>3, <1>4, <1>5, <1>6, <1>7, <1>8, <1>9, <1>10, <1>11,
     <1>12, <1>13, <1>14
     DEF Chan!Next, Chan!Channel, Chan!Around

\* Nor can a credential have been replaced for longer than since the last look
\* at it.
LEMMA RotationSoFarStep ==
  ASSUME Chan!ChannelInvariant, Chan!Next
  PROVE  Chan!RotationSoFar'
<1> USE Limits DEF Chan!ChannelInvariant, Chan!TypeOK, Chan!RotationSoFar,
            Chan!clocks, Chan!queue
<1>1. CASE Chan!ConnectOk
  BY <1>1 DEF Chan!ConnectOk
<1>2. CASE Chan!Throws
  BY <1>2 DEF Chan!Throws, Chan!Ended
<1>3. CASE Chan!PollEnds
  BY <1>3 DEF Chan!PollEnds, Chan!Ended, Chan!Rotated
<1>4. CASE Chan!PollWaits
  BY <1>4 DEF Chan!PollWaits, Chan!Rotated
<1>5. CASE Chan!CountPending
  BY <1>5 DEF Chan!CountPending, Chan!Rotated
<1>6. CASE Chan!CountDead
  BY <1>6 DEF Chan!CountDead
<1>7. CASE Chan!SendDone
  BY <1>7 DEF Chan!SendDone
<1>8. CASE Chan!Wake
  BY <1>8 DEF Chan!Wake
<1>9. CASE Chan!BackOff
  BY <1>9 DEF Chan!BackOff
<1>10. CASE Chan!Redial
  BY <1>10 DEF Chan!Redial
<1>11. CASE Chan!ServerSpeaks
  BY <1>11 DEF Chan!ServerSpeaks, Chan!Connected
<1>12. CASE Chan!Rotate
  BY <1>12 DEF Chan!Rotate
<1>13. CASE Chan!QueueMoves
  BY <1>13 DEF Chan!QueueMoves
<1>14. CASE Chan!Tick
  BY <1>14, OlderByATick DEF Chan!Tick, Chan!After
<1> QED
  BY <1>1, <1>2, <1>3, <1>4, <1>5, <1>6, <1>7, <1>8, <1>9, <1>10, <1>11,
     <1>12, <1>13, <1>14
     DEF Chan!Next, Chan!Channel, Chan!Around

\* A stable connection that was left forgives the failures together with the
\* disconnections.
LEMMA DelayGrowsStep ==
  ASSUME Chan!ChannelInvariant, Chan!Next
  PROVE  Chan!DelayGrows'
<1> USE Limits DEF Chan!ChannelInvariant, Chan!TypeOK, Chan!DelayGrows, Chan!clocks,
            Chan!queue
<1>1. CASE Chan!ConnectOk
  BY <1>1 DEF Chan!ConnectOk
<1>2. CASE Chan!Throws
  BY <1>2 DEF Chan!Throws, Chan!Ended, Chan!Stable
<1>3. CASE Chan!PollEnds
  BY <1>3 DEF Chan!PollEnds, Chan!Ended, Chan!Stable
<1>4. CASE Chan!PollWaits
  BY <1>4 DEF Chan!PollWaits
<1>5. CASE Chan!CountPending
  BY <1>5 DEF Chan!CountPending
<1>6. CASE Chan!CountDead
  BY <1>6 DEF Chan!CountDead
<1>7. CASE Chan!SendDone
  BY <1>7 DEF Chan!SendDone
<1>8. CASE Chan!Wake
  BY <1>8 DEF Chan!Wake
<1>9. CASE Chan!BackOff
  BY <1>9, MinOfTwo DEF Chan!BackOff
<1>10. CASE Chan!Redial
  BY <1>10 DEF Chan!Redial
<1>11. CASE Chan!ServerSpeaks
  BY <1>11 DEF Chan!ServerSpeaks, Chan!Connected
<1>12. CASE Chan!Rotate
  BY <1>12 DEF Chan!Rotate
<1>13. CASE Chan!QueueMoves
  BY <1>13 DEF Chan!QueueMoves
<1>14. CASE Chan!Tick
  BY <1>14 DEF Chan!Tick, Chan!After
<1> QED
  BY <1>1, <1>2, <1>3, <1>4, <1>5, <1>6, <1>7, <1>8, <1>9, <1>10, <1>11,
     <1>12, <1>13, <1>14
     DEF Chan!Next, Chan!Channel, Chan!Around

\* The delay drawn last is not shorter than that of the disconnections.
LEMMA FlappingBacksOffStep ==
  ASSUME Chan!ChannelInvariant, Chan!Next
  PROVE  Chan!FlappingBacksOff'
<1> USE Limits DEF Chan!ChannelInvariant, Chan!TypeOK, Chan!DelayGrows,
            Chan!FlappingBacksOff, Chan!clocks, Chan!queue
<1>1. CASE Chan!ConnectOk
  BY <1>1 DEF Chan!ConnectOk
<1>2. CASE Chan!Throws
  BY <1>2 DEF Chan!Throws, Chan!Ended, Chan!Stable
<1>3. CASE Chan!PollEnds
  BY <1>3 DEF Chan!PollEnds, Chan!Ended, Chan!Stable
<1>4. CASE Chan!PollWaits
  BY <1>4 DEF Chan!PollWaits
<1>5. CASE Chan!CountPending
  BY <1>5 DEF Chan!CountPending
<1>6. CASE Chan!CountDead
  BY <1>6 DEF Chan!CountDead
<1>7. CASE Chan!SendDone
  BY <1>7 DEF Chan!SendDone
<1>8. CASE Chan!Wake
  BY <1>8 DEF Chan!Wake
<1>9. CASE Chan!BackOff
  BY <1>9, MinOfTwo, ReconnectGrows DEF Chan!BackOff
<1>10. CASE Chan!Redial
  BY <1>10 DEF Chan!Redial
<1>11. CASE Chan!ServerSpeaks
  BY <1>11 DEF Chan!ServerSpeaks, Chan!Connected
<1>12. CASE Chan!Rotate
  BY <1>12 DEF Chan!Rotate
<1>13. CASE Chan!QueueMoves
  BY <1>13 DEF Chan!QueueMoves
<1>14. CASE Chan!Tick
  BY <1>14 DEF Chan!Tick, Chan!After
<1> QED
  BY <1>1, <1>2, <1>3, <1>4, <1>5, <1>6, <1>7, <1>8, <1>9, <1>10, <1>11,
     <1>12, <1>13, <1>14
     DEF Chan!Next, Chan!Channel, Chan!Around

\* The tables are finite, and what is counted in them is a number.
LEMMA TableCounts ==
  ASSUME NEW S, S \subseteq OutboxEvents
  PROVE  IsFiniteSet(S) /\ Chan!Cardinality(S) \in Nat
<1>1. IsFiniteSet(OutboxEvents)
  BY ChannelAssumption, SameCount DEF Chan!ChannelAssumption
<1> QED
  BY <1>1, FS_Subset, FS_CardinalityType, SameCount

LEMMA FewerCounts ==
  ASSUME NEW S, S \subseteq OutboxEvents, NEW T, T \subseteq S
  PROVE  Chan!Cardinality(T) <= Chan!Cardinality(S)
  BY TableCounts, FS_Subset, SameCount

LEMMA PartCounts ==
  ASSUME NEW S, S \subseteq OutboxEvents, NEW T, T \subseteq OutboxEvents
  PROVE  Chan!Cardinality(S) <= Chan!Cardinality(S \ T) + Chan!Cardinality(T)
<1>1. IsFiniteSet(S) /\ IsFiniteSet(T) /\ IsFiniteSet(S \ T)
  BY TableCounts
<1>2. Cardinality((S \ T) \cup T)
        = Cardinality(S \ T) + Cardinality(T) - Cardinality((S \ T) \cap T)
  BY <1>1, FS_Union
<1>3. (S \ T) \cap T = {}
  OBVIOUS
<1>4. Cardinality(S) <= Cardinality((S \ T) \cup T)
  BY <1>1, FewerCounts, SameCount
<1>5. /\ Cardinality(S \ T) \in Nat /\ Cardinality(T) \in Nat
      /\ Cardinality(S) \in Nat
  BY <1>1, FS_CardinalityType
<1>6. Cardinality(S) <= Cardinality(S \ T) + Cardinality(T)
  BY <1>2, <1>3, <1>4, <1>5, FS_EmptySet
<1> QED
  BY <1>6, SameCount

\* The report holds the numbers that were counted.
LEMMA ReportStep ==
  ASSUME Chan!ChannelInvariant, Chan!Next
  PROVE  counts' \in [pending : Nat, dead : Nat]
<1> USE DEF Chan!ChannelInvariant, Chan!TypeOK, Chan!clocks, Chan!queue
<1>1. CASE Chan!ConnectOk
  BY <1>1 DEF Chan!ConnectOk
<1>2. CASE Chan!Throws
  BY <1>2 DEF Chan!Throws, Chan!Ended
<1>3. CASE Chan!PollEnds
  BY <1>3 DEF Chan!PollEnds, Chan!Ended
<1>4. CASE Chan!PollWaits
  BY <1>4 DEF Chan!PollWaits
<1>5. CASE Chan!CountPending
  BY <1>5, TableCounts DEF Chan!CountPending, Chan!Counted
<1>6. CASE Chan!CountDead
  BY <1>6, TableCounts DEF Chan!CountDead, Chan!Counted
<1>7. CASE Chan!SendDone
  BY <1>7 DEF Chan!SendDone
<1>8. CASE Chan!Wake
  BY <1>8 DEF Chan!Wake
<1>9. CASE Chan!BackOff
  BY <1>9 DEF Chan!BackOff
<1>10. CASE Chan!Redial
  BY <1>10 DEF Chan!Redial
<1>11. CASE Chan!ServerSpeaks
  BY <1>11 DEF Chan!ServerSpeaks, Chan!Connected
<1>12. CASE Chan!Rotate
  BY <1>12 DEF Chan!Rotate
<1>13. CASE Chan!QueueMoves
  BY <1>13 DEF Chan!QueueMoves
<1>14. CASE Chan!Tick
  BY <1>14 DEF Chan!Tick
<1> QED
  BY <1>1, <1>2, <1>3, <1>4, <1>5, <1>6, <1>7, <1>8, <1>9, <1>10, <1>11,
     <1>12, <1>13, <1>14
     DEF Chan!Next, Chan!Channel, Chan!Around

\* An event that is kept and not dead was pending at the first count.
LEMMA CountedOnceStep ==
  ASSUME Chan!ChannelInvariant, Chan!Next
  PROVE  Chan!CountedOnce'
<1> USE DEF Chan!ChannelInvariant, Chan!TypeOK, Chan!CountedOnce, Chan!clocks,
            Chan!queue
<1>1. CASE Chan!ConnectOk
  BY <1>1 DEF Chan!ConnectOk
<1>2. CASE Chan!Throws
  BY <1>2 DEF Chan!Throws, Chan!Ended
<1>3. CASE Chan!PollEnds
  BY <1>3 DEF Chan!PollEnds, Chan!Ended
<1>4. CASE Chan!PollWaits
  BY <1>4 DEF Chan!PollWaits
<1>5. CASE Chan!CountPending
  <2>1. counts'.pending = Chan!Cardinality(pending) /\ pending' = pending
        /\ kept' = pending \cup dead_letter /\ dead_letter' = dead_letter
    BY <1>5 DEF Chan!CountPending, Chan!Counted
  <2>2. Chan!Cardinality(kept' \ dead_letter') <= Chan!Cardinality(pending)
    BY <2>1, FewerCounts
  <2> QED
    BY <2>1, <2>2
<1>6. CASE Chan!CountDead
  BY <1>6 DEF Chan!CountDead, Chan!Counted
<1>7. CASE Chan!SendDone
  BY <1>7 DEF Chan!SendDone
<1>8. CASE Chan!Wake
  BY <1>8 DEF Chan!Wake
<1>9. CASE Chan!BackOff
  BY <1>9 DEF Chan!BackOff
<1>10. CASE Chan!Redial
  BY <1>10 DEF Chan!Redial
<1>11. CASE Chan!ServerSpeaks
  BY <1>11 DEF Chan!ServerSpeaks, Chan!Connected
<1>12. CASE Chan!Rotate
  BY <1>12 DEF Chan!Rotate
<1>13. CASE Chan!QueueMoves
  <2>1. /\ kept' \ dead_letter' \subseteq kept \ dead_letter
        /\ counts' = counts /\ channel_pc' = channel_pc
    BY <1>13 DEF Chan!QueueMoves
  <2>2. kept \ dead_letter \subseteq OutboxEvents
    OBVIOUS
  <2>3. Chan!Cardinality(kept' \ dead_letter')
          <= Chan!Cardinality(kept \ dead_letter)
    BY <2>1, <2>2, FewerCounts
  <2>4. /\ Chan!Cardinality(kept' \ dead_letter') \in Nat
        /\ Chan!Cardinality(kept \ dead_letter) \in Nat
    BY <2>1, <2>2, TableCounts
  <2> QED
    BY <2>1, <2>3, <2>4
<1>14. CASE Chan!Tick
  BY <1>14 DEF Chan!Tick
<1> QED
  BY <1>1, <1>2, <1>3, <1>4, <1>5, <1>6, <1>7, <1>8, <1>9, <1>10, <1>11,
     <1>12, <1>13, <1>14
     DEF Chan!Next, Chan!Channel, Chan!Around

\* What is dead at the second count was counted there, the rest at the first.
LEMMA NothingUncountedStep ==
  ASSUME Chan!ChannelInvariant, Chan!Next
  PROVE  Chan!NothingUncounted'
<1> USE DEF Chan!ChannelInvariant, Chan!TypeOK, Chan!CountedOnce,
            Chan!NothingUncounted, Chan!clocks, Chan!queue
<1>1. CASE Chan!ConnectOk
  BY <1>1 DEF Chan!ConnectOk
<1>2. CASE Chan!Throws
  BY <1>2 DEF Chan!Throws, Chan!Ended
<1>3. CASE Chan!PollEnds
  BY <1>3 DEF Chan!PollEnds, Chan!Ended
<1>4. CASE Chan!PollWaits
  BY <1>4 DEF Chan!PollWaits
<1>5. CASE Chan!CountPending
  BY <1>5 DEF Chan!CountPending, Chan!Counted
<1>6. CASE Chan!CountDead
  <2>1. /\ counts'.pending = counts.pending
        /\ counts'.dead = Chan!Cardinality(dead_letter)
        /\ kept' = kept /\ channel_pc = "dead"
    BY <1>6 DEF Chan!CountDead, Chan!Counted
  <2>2. kept \subseteq OutboxEvents
    OBVIOUS
  <2>3. /\ Chan!Cardinality(kept)
             <= Chan!Cardinality(kept \ dead_letter) + Chan!Cardinality(dead_letter)
        /\ Chan!Cardinality(kept) \in Nat
        /\ Chan!Cardinality(kept \ dead_letter) \in Nat
        /\ Chan!Cardinality(dead_letter) \in Nat
    BY <2>2, PartCounts, TableCounts
  <2> QED
    BY <2>1, <2>3
<1>7. CASE Chan!SendDone
  BY <1>7 DEF Chan!SendDone
<1>8. CASE Chan!Wake
  BY <1>8 DEF Chan!Wake
<1>9. CASE Chan!BackOff
  BY <1>9 DEF Chan!BackOff
<1>10. CASE Chan!Redial
  BY <1>10 DEF Chan!Redial
<1>11. CASE Chan!ServerSpeaks
  BY <1>11 DEF Chan!ServerSpeaks, Chan!Connected
<1>12. CASE Chan!Rotate
  BY <1>12 DEF Chan!Rotate
<1>13. CASE Chan!QueueMoves
  <2>1. kept' \subseteq kept /\ counts' = counts /\ channel_pc' = channel_pc
    BY <1>13 DEF Chan!QueueMoves
  <2>2. kept \subseteq OutboxEvents
    OBVIOUS
  <2>3. /\ Chan!Cardinality(kept') <= Chan!Cardinality(kept)
        /\ Chan!Cardinality(kept') \in Nat /\ Chan!Cardinality(kept) \in Nat
    BY <2>1, <2>2, FewerCounts, TableCounts
  <2> QED
    BY <2>1, <2>3
<1>14. CASE Chan!Tick
  BY <1>14 DEF Chan!Tick
<1> QED
  BY <1>1, <1>2, <1>3, <1>4, <1>5, <1>6, <1>7, <1>8, <1>9, <1>10, <1>11,
     <1>12, <1>13, <1>14
     DEF Chan!Next, Chan!Channel, Chan!Around

\* The channel starts in its invariant,
LEMMA ChannelInit == Chan!Init => Chan!ChannelInvariant
<1> SUFFICES ASSUME Chan!Init PROVE Chan!ChannelInvariant
  OBVIOUS
<1> USE Limits DEF Chan!Init
<1>1. Chan!TypeOK
  <2>1. left \in 0..Chan!LongestLeft
    BY LeftBound
  <2>2. 0 \in 0..Chan!Longest
    BY DEF Chan!Longest
  <2>3. /\ up \in 0..(StableAfter + 1) /\ due \in 0..ReportEvery
        /\ failures \in 0..MaxFlaps /\ flaps \in 0..MaxFlaps
    OBVIOUS
  <2>4. /\ pending \subseteq OutboxEvents /\ dead_letter \subseteq OutboxEvents
        /\ pending \cap dead_letter = {} /\ kept \subseteq pending \cup dead_letter
    OBVIOUS
  <2>5. /\ current \in Tokens /\ token \in Tokens /\ closed \in BOOLEAN
        /\ channel_pc = "connect" /\ silent = 0 /\ old = 0
    OBVIOUS
  <2> QED
    BY ONLY <2>1, <2>2, <2>3, <2>4, <2>5 DEF Chan!TypeOK
<1>2. Chan!SilenceSoFar /\ Chan!RotationSoFar
  BY DEF Chan!SilenceSoFar, Chan!RotationSoFar
<1>3. Chan!DelayGrows /\ Chan!FlappingBacksOff
  BY DEF Chan!DelayGrows, Chan!FlappingBacksOff
<1>4. Chan!CountedOnce /\ Chan!NothingUncounted
  BY DEF Chan!CountedOnce, Chan!NothingUncounted
<1> QED
  BY <1>1, <1>2, <1>3, <1>4 DEF Chan!ChannelInvariant

\* every step keeps it,
LEMMA ChannelStep ==
  ASSUME Chan!ChannelInvariant, Chan!Next
  PROVE  Chan!ChannelInvariant'
<1>1. Chan!TypeOK'
  BY ChannelPhaseStep, ChannelClocksStep, ChannelDelaysStep, ChannelTablesStep
     DEF Chan!TypeOK, Chan!LongestLeft, Chan!Longest, Chan!Reconnect
<1> QED
  BY <1>1, ReportStep, SilenceSoFarStep, RotationSoFarStep, DelayGrowsStep,
     FlappingBacksOffStep, CountedOnceStep, NothingUncountedStep
     DEF Chan!ChannelInvariant

\* and it implies what DeviceChannel promises.
LEMMA ChannelPromises ==
  ASSUME Chan!ChannelInvariant
  PROVE  /\ Chan!SilenceNoticed /\ Chan!RotationNoticed
         /\ Chan!FlappingBacksOff /\ Chan!NothingUncounted /\ Chan!TypeOK
<1> USE DEF Chan!ChannelInvariant
<1>1. Chan!SilenceNoticed
  BY Limits DEF Chan!SilenceNoticed, Chan!SilenceSoFar, Chan!Connected, Chan!TypeOK
<1>2. Chan!RotationNoticed
  <2>1. Chan!Max({ConnectTimeout, ReportEvery})
          = IF ConnectTimeout >= ReportEvery THEN ConnectTimeout ELSE ReportEvery
    BY Limits, MaxOfTwo
  <2> QED
    BY <2>1, Limits DEF Chan!RotationNoticed, Chan!RotationSoFar,
                        Chan!Connected, Chan!TypeOK
<1> QED
  BY <1>1, <1>2

\* ChannelIsSound: whatever the limits of the code are set to, as long as
\* connecting may not take longer than an acknowledgement and a report is sent
\* before the next is due, the channel gives up a silent server and a
\* replaced credential in bounded time, backs off from a server that drops its
\* connections, and the two queue counts of a report are together no fewer
\* than the events that stayed unresolved while they were taken.
THEOREM ChannelIsSound == Spec => []ChannelSound
<1> DEFINE Inv == component = "channel" => Chan!ChannelInvariant
<1>1. Init => Inv
  BY ChannelInit DEF Init
<1>2. Inv /\ [Next]_vars => Inv'
  <2> SUFFICES ASSUME Inv, [Next]_vars, component' = "channel"
               PROVE  Chan!ChannelInvariant'
    OBVIOUS
  <2>1. CASE Next
    <3>1. component = "channel" /\ Chan!Next
      BY <2>1 DEF Next
    <3> QED
      BY <3>1, ChannelStep
  <2>2. CASE UNCHANGED vars
    BY <2>2 DEF vars, channelVars, Chan!ChannelInvariant, Chan!TypeOK,
                Chan!SilenceSoFar, Chan!RotationSoFar, Chan!DelayGrows,
                Chan!FlappingBacksOff, Chan!CountedOnce, Chan!NothingUncounted
  <2> QED
    BY <2>1, <2>2
<1>3. Inv => ChannelSound
  BY ChannelPromises DEF ChannelSound
<1> QED
  BY <1>1, <1>2, <1>3, PTL DEF Spec

-----------------------------------------------------------------------------
(* WireFormat                                                              *)

\* A row is tried again with one attempt more, and the endpoint pauses.
LEMMA RetryType ==
  ASSUME Wire!TypeOK, NEW rows, Wire!Retry(rows)
  PROVE  attempts' \in [Wire!Events -> 0..MaxAttempts] /\ pause' \in BOOLEAN
<1>1. MaxAttempts \in Nat
  BY WireAssumption DEF Wire!WireAssumption
<1>2. attempts' \in [Wire!Events -> 0..MaxAttempts]
  BY <1>1 DEF Wire!TypeOK, Wire!Retry
<1>3. pause' \in BOOLEAN
  BY DEF Wire!TypeOK, Wire!Retry
<1> QED
  BY <1>2, <1>3

\* Events captured earlier keep their number and their device.
LEMMA CaptureAppends ==
  ASSUME Wire!TypeOK, Wire!Capture
  PROVE  /\ of' \in Seq(Devices) /\ Len(of') <= MaxEvents
         /\ DOMAIN of' = DOMAIN of \cup {Len(of) + 1}
         /\ Len(of) + 1 \notin DOMAIN of
         /\ \A e \in DOMAIN of : of'[e] = of[e]
<1>1. MaxEvents \in Nat
  BY WireAssumption DEF Wire!WireAssumption
<1>2. of \in Seq(Devices) /\ device \in Devices /\ of' = Append(of, device)
  BY DEF Wire!TypeOK, Wire!Capture
<1>3. Len(of) < MaxEvents
  BY DEF Wire!Capture
<1> QED
  BY <1>1, <1>2, <1>3

\* What the backend has, and what it has rejected, only grows.
LEMMA BackendRemembers ==
  ASSUME NEW no, Wire!Decide(no)
  PROVE  stored \subseteq stored' /\ refused \subseteq refused'
  BY DEF Wire!Decide

\* A receipt of an honest backend settles a row it has stored or rejected.
LEMMA ReceiptsAreTrue ==
  ASSUME NEW no, Wire!Decide(no), NEW list, Wire!Honest(list),
         Wire!parse_receipts(list)
  PROVE  /\ Wire!Settled(list) \subseteq stored' \cup Wire!Rejected(list)
         /\ Wire!Rejected(list) \subseteq refused'
         /\ Wire!Rejected(list) \subseteq Wire!Settled(list)
         /\ Wire!Settled(list) \subseteq sent
<1> USE DEF Wire!Settled, Wire!Rejected, Wire!Ids
<1>1. Wire!Rejected(list) \subseteq Wire!Settled(list)
      /\ Wire!Settled(list) \subseteq sent
  BY DEF Wire!parse_receipts
<1>2. ASSUME NEW i \in DOMAIN list
      PROVE  IF list[i].disposition = "rejected"
             THEN list[i].event_id \in refused'
             ELSE list[i].event_id \in stored'
  <2>1. /\ list[i].event_id \in sent
        /\ list[i].disposition \in {"accepted", "duplicate", "rejected"}
        /\ list[i].disposition = Wire!Truth(list[i].event_id)
    BY DEF Wire!parse_receipts, Wire!Honest, Wire!Dispositions
  <2> QED
    BY <2>1 DEF Wire!Truth, Wire!Decide
<1>3. Wire!Rejected(list) \subseteq refused'
  BY <1>2
<1>4. Wire!Settled(list) \subseteq stored' \cup Wire!Rejected(list)
  BY <1>2
<1> QED
  BY <1>1, <1>3, <1>4

\* Every step of the upload keeps the invariant.
LEMMA WireStep ==
  ASSUME Wire!WireInvariant, Wire!Next
  PROVE  Wire!WireInvariant'
<1> USE DEF Wire!WireInvariant, Wire!OwnDeviceOnly, Wire!NeverDropped,
            Wire!SetAsideForAReason, Wire!tables, Wire!backend
<1>0. Wire!TypeOK
  OBVIOUS
<1>1. CASE Wire!Capture
  <2>1. Wire!TypeOK'
    BY <1>0, <1>1, CaptureAppends DEF Wire!Capture, Wire!TypeOK
  <2> QED
    BY <1>0, <1>1, <2>1, CaptureAppends DEF Wire!Capture
<1>2. CASE Wire!RetryDue
  BY <1>2 DEF Wire!RetryDue, Wire!TypeOK
<1>3. CASE Wire!Post
  <2>1. /\ sent' \subseteq queue /\ \A e \in sent' : of[e] = device
        /\ posted' = posted \cup {<<e, device>> : e \in sent'}
    BY <1>3 DEF Wire!Post, Wire!Due, Wire!batch_payload
  <2>2. /\ device' = device /\ of' = of /\ queue' = queue /\ dead' = dead
        /\ attempts' = attempts /\ pause' = pause /\ stored' = stored
        /\ refused' = refused /\ unreadable' = unreadable /\ faults' = faults
    BY <1>3 DEF Wire!Post
  <2>3. Wire!TypeOK'
    BY <2>1, <2>2 DEF Wire!TypeOK
  <2>4. sent' \subseteq DOMAIN of
    BY <2>1 DEF Wire!TypeOK
  <2>5. \A p \in posted' : p[1] \in DOMAIN of' /\ of'[p[1]] = p[2]
    BY <2>1, <2>2, <2>4
  <2> QED
    BY <2>2, <2>3, <2>5
<1>4. CASE Wire!NoPayload
  BY <1>0, <1>4, RetryType DEF Wire!NoPayload, Wire!TypeOK
<1>5. CASE Wire!NoAnswer
  <2>1. stored \subseteq stored' /\ refused \subseteq refused'
    BY <1>5, BackendRemembers DEF Wire!NoAnswer
  <2>2. attempts' \in [Wire!Events -> 0..MaxAttempts] /\ pause' \in BOOLEAN
    BY <1>0, <1>5, RetryType DEF Wire!NoAnswer
  <2>3. faults' \in 0..MaxFaults
    BY <1>5, WireAssumption
       DEF Wire!NoAnswer, Wire!Fault, Wire!TypeOK, Wire!WireAssumption
  <2> QED
    BY <1>5, <2>1, <2>2, <2>3 DEF Wire!NoAnswer, Wire!TypeOK
<1>6. CASE Wire!SchemaRefused
  <2>1. faults' \in 0..MaxFaults
    BY <1>6, WireAssumption
       DEF Wire!SchemaRefused, Wire!Fault, Wire!TypeOK, Wire!WireAssumption
  <2> QED
    BY <1>6, <2>1 DEF Wire!SchemaRefused, Wire!TypeOK
<1>7. ASSUME NEW list \in Wire!Answers, Wire!Receive(list)
      PROVE  Wire!WireInvariant'
  <2>1. PICK no \in SUBSET sent : Wire!Decide(no)
    BY <1>7 DEF Wire!Receive
  <2>2. stored \subseteq stored' /\ refused \subseteq refused'
    BY <2>1, BackendRemembers
  <2>3. faults' \in 0..MaxFaults
    BY <1>7, WireAssumption
       DEF Wire!Receive, Wire!Fault, Wire!TypeOK, Wire!WireAssumption
  <2>4. attempts' \in [Wire!Events -> 0..MaxAttempts] /\ pause' \in BOOLEAN
    BY <1>0, <1>7, RetryType DEF Wire!Receive
  <2>5. /\ sent' = {} /\ device' = device /\ of' = of /\ posted' = posted
        /\ unreadable' = unreadable
    BY <1>7 DEF Wire!Receive
  <2>6. CASE Wire!parse_receipts(list)
    <3>1. /\ Wire!Settled(list) \subseteq stored' \cup Wire!Rejected(list)
          /\ Wire!Rejected(list) \subseteq refused'
          /\ Wire!Rejected(list) \subseteq Wire!Settled(list)
          /\ Wire!Settled(list) \subseteq sent
      BY <1>7, <2>1, <2>6, ReceiptsAreTrue DEF Wire!Receive
    <3>2. /\ queue' = queue \ Wire!Settled(list)
          /\ dead' = dead \cup Wire!Rejected(list)
      BY <1>7, <2>6 DEF Wire!Receive
    <3>3. Wire!TypeOK'
      BY <2>3, <2>4, <2>5, <3>1, <3>2 DEF Wire!TypeOK
    <3> QED
      BY <2>2, <2>5, <3>1, <3>2, <3>3
  <2>7. CASE ~ Wire!parse_receipts(list)
    <3>1. queue' = queue /\ dead' = dead
      BY <1>7, <2>7 DEF Wire!Receive
    <3>2. Wire!TypeOK'
      BY <2>3, <2>4, <2>5, <3>1 DEF Wire!TypeOK
    <3> QED
      BY <2>2, <2>5, <3>1, <3>2
  <2> QED
    BY <2>6, <2>7
<1>8. ASSUME NEW d \in Devices, Wire!Restart(d)
      PROVE  Wire!WireInvariant'
  <2>1. faults' \in 0..MaxFaults
    BY <1>8, WireAssumption
       DEF Wire!Restart, Wire!Fault, Wire!TypeOK, Wire!WireAssumption
  <2> QED
    BY <1>8, <2>1 DEF Wire!Restart, Wire!TypeOK
<1> QED
  BY <1>1, <1>2, <1>3, <1>4, <1>5, <1>6, <1>7, <1>8 DEF Wire!Next, Wire!Step

\* BatchesAreSound: for any devices, batches and answers of an honest backend,
\* an event is posted under the device that captured it, leaves the outbox
\* only when the backend has it or it is set aside, and is set aside only
\* when it or its batch was refused.
THEOREM BatchesAreSound == Spec => []BatchesSound
<1> DEFINE Inv == component = "wire" => Wire!WireInvariant
<1>1. Init => Inv
  <2> SUFFICES ASSUME Wire!Init PROVE Wire!WireInvariant
    BY DEF Init
  <2>1. Wire!TypeOK
    <3>1. MaxEvents \in Nat /\ MaxAttempts \in Nat /\ MaxFaults \in Nat
      BY WireAssumption DEF Wire!WireAssumption
    <3>2. /\ of = <<>> /\ attempts = [e \in Wire!Events |-> 0] /\ faults = 0
          /\ device \in Devices /\ pause = FALSE
          /\ queue = {} /\ dead = {} /\ sent = {}
      BY DEF Wire!Init
    <3>3. of \in Seq(Devices) /\ Len(of) <= MaxEvents
      BY <3>1, <3>2
    <3>4. attempts \in [Wire!Events -> 0..MaxAttempts] /\ faults \in 0..MaxFaults
      BY <3>1, <3>2
    <3> QED
      BY <3>2, <3>3, <3>4 DEF Wire!TypeOK
  <2> QED
    BY <2>1 DEF Wire!Init, Wire!WireInvariant, Wire!OwnDeviceOnly,
                Wire!NeverDropped, Wire!SetAsideForAReason
<1>2. Inv /\ [Next]_vars => Inv'
  <2> SUFFICES ASSUME Inv, [Next]_vars, component' = "wire"
               PROVE  Wire!WireInvariant'
    OBVIOUS
  <2>1. CASE Next
    <3>1. component = "wire" /\ Wire!Next
      BY <2>1 DEF Next
    <3> QED
      BY <3>1, WireStep
  <2>2. CASE UNCHANGED vars
    BY <2>2 DEF vars, wireVars, Wire!WireInvariant, Wire!TypeOK,
                Wire!OwnDeviceOnly, Wire!NeverDropped, Wire!SetAsideForAReason
  <2> QED
    BY <2>1, <2>2
<1>3. Inv => BatchesSound
  BY DEF BatchesSound, Wire!WireInvariant
<1> QED
  BY <1>1, <1>2, <1>3, PTL DEF Spec

-----------------------------------------------------------------------------
(* HttpRequest                                                             *)

\* What the whole request keeps, and what leaves it alone.
LEMMA AnswerType ==
  ASSUME Http!TypeOK
  PROVE  /\ answer.body \in Seq(Nat) /\ Len(answer.body) \in Nat
         /\ response.body \in Seq(Nat) /\ Len(response.body) \in Nat
         /\ response.status \in Nat /\ arrived \in Nat
<1>1. answer \in [status : Statuses, retry_after : RetryAfters, body : Bodies]
  BY DEF Http!TypeOK
<1>2. response \in [status : Statuses \union {0},
                    retry_after : RetryAfters \union {None}, body : Seq(Nat)]
  BY DEF Http!TypeOK
<1>3. Statuses \subseteq Nat /\ Bodies \subseteq Seq(Nat)
  BY RequestAssumption DEF Http!RequestAssumption
<1>4. answer.body \in Seq(Nat) /\ response.body \in Seq(Nat) /\ response.status \in Nat
  <2>1. answer.body \in Bodies /\ response.body \in Seq(Nat)
    BY <1>1, <1>2
  <2>2. response.status \in Statuses \union {0}
    BY <1>2
  <2>3. answer.body \in Seq(Nat)
    BY Zenon, <1>3, <2>1
  <2>4. response.status \in Nat
    <3>1. 0 \in Nat
      OBVIOUS
    <3> QED
      BY Zenon, <1>3, <2>2, <3>1
  <2> QED
    BY <2>1, <2>3, <2>4
<1>5. Len(answer.body) \in Nat /\ Len(response.body) \in Nat
  BY <1>4
<1>6. arrived \in Nat
  BY <1>5 DEF Http!TypeOK
<1> QED
  BY <1>4, <1>5, <1>6

\* The network: time passes up to the deadline, bytes arrive, and the
\* connection breaks.
LEMMA NetworkStep ==
  ASSUME Http!RequestInvariant, Http!Tick \/ Http!Arrives \/ Http!Breaks
  PROVE  Http!RequestInvariant'
<1> USE DEF Http!RequestInvariant
<1>0. /\ answer' = answer /\ response' = response /\ http_pc' = http_pc
      /\ has_token' = has_token /\ deadline' = deadline /\ until' = until
      /\ arrived' \in arrived..Len(answer.body) /\ arrived \in Nat
  BY AnswerType DEF Http!Tick, Http!Arrives, Http!Breaks, Http!TypeOK
<1>1. Http!TypeOK'
  <2>1. now' \in Nat /\ cut' \in BOOLEAN
    <3>1. now \in Nat /\ cut \in BOOLEAN
      BY DEF Http!TypeOK
    <3>2. CASE Http!Tick
      BY <3>1, <3>2 DEF Http!Tick
    <3>3. CASE Http!Arrives
      BY <3>1, <3>3 DEF Http!Arrives
    <3>4. CASE Http!Breaks
      BY <3>1, <3>4 DEF Http!Breaks
    <3> QED
      BY <3>2, <3>3, <3>4
  <2>2. arrived' \in 0..Len(answer'.body)
    BY <1>0
  <2> QED
    BY <1>0, <2>1, <2>2 DEF Http!TypeOK
<1>2. Http!ClocksAgree'
  <2>1. Timeout \in Nat
    BY RequestAssumption DEF Http!RequestAssumption
  <2>2. CASE Http!Tick
    BY <1>0, <2>1, <2>2 DEF Http!Tick, Http!ClocksAgree, Http!TypeOK
  <2>3. CASE now' = now
    BY <1>0, <2>3 DEF Http!ClocksAgree
  <2> QED
    BY <2>2, <2>3 DEF Http!Arrives, Http!Breaks
<1>3. Http!ReadSoFar'
  <2>1. Len(response.body) <= arrived'
    BY <1>0, AnswerType DEF Http!ReadSoFar
  <2> QED
    BY <1>0, <2>1 DEF Http!ReadSoFar
<1>4. Http!AnswerSoFar'
  BY <1>0 DEF Http!AnswerSoFar, Http!ErrorAnswer, Http!NoResponse
<1> QED
  BY <1>1, <1>2, <1>3, <1>4

\* A part of a sequence put after what comes before it there.
LEMMA PartAppended ==
  ASSUME NEW head \in Seq(Nat), NEW full \in Seq(Nat), NEW n \in Nat \ {0},
         Len(head) + n <= Len(full), \A j \in 1..Len(head) : head[j] = full[j]
  PROVE  LET whole == head \o SubSeq(full, Len(head) + 1, Len(head) + n)
         IN  /\ whole \in Seq(Nat) /\ Len(whole) = Len(head) + n
             /\ \A j \in 1..(Len(head) + n) : whole[j] = full[j]
<1> DEFINE from == Len(head) + 1
           to == Len(head) + n
           part == SubSeq(full, from, to)
           whole == head \o part
<1>1. /\ Len(head) \in Nat /\ Len(full) \in Nat
      /\ \A j \in 1..Len(full) : full[j] \in Nat
  BY LenProperties, ElementOfSeq
<1>2. /\ from \in Int /\ to \in Int /\ from <= to /\ (to - from) + 1 = n
      /\ \A j \in from..to : j \in 1..Len(full)
      /\ \A j \in 1..n : (from + j) - 1 = Len(head) + j
  BY <1>1
<1> HIDE DEF from, to
<1>3. \A j \in from..to : full[j] \in Nat
  BY <1>1, <1>2
<1>4. /\ part \in Seq(Nat) /\ Len(part) = IF from <= to THEN (to - from) + 1 ELSE 0
      /\ \A j \in 1..((to - from) + 1) : part[j] = full[(from + j) - 1]
  BY <1>2, <1>3, SubSeqProperties
<1> HIDE DEF part
<1>5. Len(part) = n /\ \A j \in 1..n : part[j] = full[Len(head) + j]
  BY <1>2, <1>4
<1>6. /\ whole \in Seq(Nat) /\ Len(whole) = Len(head) + Len(part)
      /\ \A j \in 1..(Len(head) + Len(part)) : whole[j] =
           IF j <= Len(head) THEN head[j] ELSE part[j - Len(head)]
  BY <1>4, ConcatProperties
<1> HIDE DEF whole
<1>7. ASSUME NEW j \in 1..(Len(head) + n) PROVE whole[j] = full[j]
  <2>1. CASE j <= Len(head)
    <3>1. j \in 1..Len(head)
      BY <1>1, <2>1
    <3> QED
      BY <1>5, <1>6, <2>1, <3>1
  <2>2. CASE ~ (j <= Len(head))
    <3>1. j - Len(head) \in 1..n /\ Len(head) + (j - Len(head)) = j
      BY <1>1, <2>2
    <3> QED
      BY <1>5, <1>6, <2>2, <3>1
  <2> QED
    BY <2>1, <2>2
<1> QED
  BY <1>5, <1>6, <1>7 DEF whole, part, from, to

\* A buffer is the next part of the body.
LEMMA BufferIsNext ==
  ASSUME Http!TypeOK, Http!ReadSoFar, NEW n \in 1..MaxBuffer,
         n <= Http!Pending, ~ Http!TooLong(n),
         response' = [response EXCEPT !.body = @ \o
                        SubSeq(answer.body, Len(@) + 1, Len(@) + n)]
  PROVE  /\ response'.status = response.status
         /\ response'.retry_after = response.retry_after
         /\ response' \in [status : Statuses \union {0},
                           retry_after : RetryAfters \union {None}, body : Seq(Nat)]
         /\ Len(response'.body) <= arrived /\ Len(response'.body) <= BodyLimit
         /\ \A j \in 1..Len(response'.body) : response'.body[j] = answer.body[j]
<1> DEFINE had == Len(response.body)
           whole == response.body \o SubSeq(answer.body, had + 1, had + n)
<1>1. /\ answer.body \in Seq(Nat) /\ Len(answer.body) \in Nat
      /\ response.body \in Seq(Nat) /\ had \in Nat /\ arrived \in Nat
  BY AnswerType
<1>2. response' = [response EXCEPT !.body = whole]
  OBVIOUS
<1> HIDE DEF whole
<1>3. n \in Nat \ {0} /\ had + n <= arrived /\ arrived <= Len(answer.body)
  <2>1. n \in Nat \ {0}
    BY RequestAssumption DEF Http!RequestAssumption
  <2>2. n <= arrived - had
    BY Zenon DEF Http!Pending
  <2>3. arrived <= Len(answer.body)
    BY <1>1 DEF Http!TypeOK
  <2> QED
    BY <1>1, <2>1, <2>2, <2>3
<1>4. /\ whole \in Seq(Nat) /\ Len(whole) = had + n
      /\ \A j \in 1..(had + n) : whole[j] = answer.body[j]
  <2>1. had + n <= Len(answer.body)
    BY <1>1, <1>3
  <2>2. \A j \in 1..had : response.body[j] = answer.body[j]
    BY DEF Http!ReadSoFar
  <2> QED
    BY <1>1, <1>3, <2>1, <2>2, PartAppended DEF whole
<1>5. response \in [status : Statuses \union {0},
                    retry_after : RetryAfters \union {None}, body : Seq(Nat)]
  BY DEF Http!TypeOK
<1>6. /\ response'.status = response.status
      /\ response'.retry_after = response.retry_after /\ response'.body = whole
      /\ response' \in [status : Statuses \union {0},
                        retry_after : RetryAfters \union {None}, body : Seq(Nat)]
  BY <1>2, <1>4, <1>5
<1>7. had + n <= BodyLimit
  <2>1. ~ (had + n > BodyLimit) /\ BodyLimit \in Nat
    BY Zenon, RequestAssumption DEF Http!TooLong, Http!RequestAssumption
  <2> QED
    BY <1>1, <1>3, <2>1
<1> QED
  BY <1>3, <1>4, <1>6, <1>7

\* Each action of the client.
LEMMA ClientStep ==
  ASSUME Http!RequestInvariant, Http!Client
  PROVE  Http!RequestInvariant'
<1> USE DEF Http!RequestInvariant
<1>0. Timeout \in Nat \ {0} /\ BodyLimit \in Nat
  BY RequestAssumption DEF Http!RequestAssumption
<1>1. CASE Http!Request
  <2>1. CASE has_token
    <3>1. /\ http_pc' = "send" /\ deadline' = Timeout /\ until' = Timeout
          /\ UNCHANGED <<has_token, now, answer, arrived, cut, response>>
          /\ http_pc = "idle" /\ now = 0
      BY <1>0, <1>1, <2>1 DEF Http!Request, Http!Remaining, Http!ClocksAgree
    <3>2. Http!TypeOK'
      BY <1>0, <3>1 DEF Http!TypeOK
    <3>3. Http!ClocksAgree'
      BY <1>0, <3>1 DEF Http!ClocksAgree
    <3>4. Http!ReadSoFar' /\ Http!AnswerSoFar'
      BY <3>1 DEF Http!ReadSoFar, Http!AnswerSoFar, Http!NoResponse
    <3> QED
      BY <3>2, <3>3, <3>4
  <2>2. CASE ~ has_token
    <3>1. /\ http_pc' = "threw" /\ http_pc = "idle"
          /\ UNCHANGED <<has_token, now, deadline, until, answer, arrived, cut, response>>
      BY <1>1, <2>2 DEF Http!Request, Http!Throw
    <3>2. Http!TypeOK'
      BY <3>1 DEF Http!TypeOK
    <3> QED
      BY <3>1, <3>2 DEF Http!ClocksAgree, Http!ReadSoFar, Http!AnswerSoFar, Http!NoResponse
  <2> QED
    BY <2>1, <2>2
<1>2. CASE Http!Throw /\ http_pc \in {"send", "read"}
  <2>1. /\ http_pc' = "threw"
        /\ UNCHANGED <<has_token, now, deadline, until, answer, arrived, cut, response>>
    BY <1>2 DEF Http!Throw
  <2>2. Http!TypeOK'
    BY <2>1 DEF Http!TypeOK
  <2>3. Http!ClocksAgree' /\ Http!ReadSoFar'
    BY <2>1 DEF Http!ClocksAgree, Http!ReadSoFar
  <2>4. Http!AnswerSoFar'
    BY <1>2, <2>1 DEF Http!AnswerSoFar, Http!ErrorAnswer, Http!NoResponse
  <2> QED
    BY <2>2, <2>3, <2>4
<1>3. CASE Http!DeadlineExceeded
  BY <1>2, <1>3 DEF Http!DeadlineExceeded
<1>4. CASE Http!Headers
  <2>1. CASE Http!Throw
    BY <1>2, <1>4, <2>1 DEF Http!Headers
  <2>2. CASE ~ Http!Throw
    <3>1. /\ http_pc = "send" /\ http_pc' = "headers"
          /\ response' = [response EXCEPT !.status = answer.status,
                                          !.retry_after = answer.retry_after]
          /\ UNCHANGED <<has_token, now, deadline, until, answer, arrived, cut>>
      BY <1>4, <2>2 DEF Http!Headers
    <3>2. response = [status |-> 0, retry_after |-> None, body |-> <<>>]
      BY <3>1 DEF Http!AnswerSoFar, Http!NoResponse
    <3>3. response' = [status |-> answer.status, retry_after |-> answer.retry_after,
                       body |-> <<>>]
      BY <3>1, <3>2
    <3>4. Http!TypeOK'
      BY <3>1, <3>3 DEF Http!TypeOK
    <3>5. Http!ClocksAgree'
      BY <3>1 DEF Http!ClocksAgree
    <3>6. Http!ReadSoFar' /\ Http!AnswerSoFar'
      BY <1>0, <3>1, <3>2, <3>3, AnswerType DEF Http!ReadSoFar, Http!AnswerSoFar
    <3> QED
      BY <3>4, <3>5, <3>6
  <2> QED
    BY <2>1, <2>2
<1>5. CASE Http!HeadersDone
  <2>1. /\ http_pc = "headers" /\ http_pc' = (IF Http!ErrorAnswer THEN "done" ELSE "read")
        /\ until' = Timeout
        /\ UNCHANGED <<has_token, now, deadline, answer, arrived, cut, response>>
    BY <1>0, <1>5 DEF Http!HeadersDone, Http!Remaining, Http!ClocksAgree, Http!TypeOK
  <2>2. Http!TypeOK'
    BY <1>0, <2>1 DEF Http!TypeOK
  <2>3. Http!ClocksAgree' /\ Http!ReadSoFar'
    BY <2>1 DEF Http!ClocksAgree, Http!ReadSoFar
  <2>4. Http!AnswerSoFar'
    BY <2>1 DEF Http!AnswerSoFar, Http!ErrorAnswer
  <2> QED
    BY <2>2, <2>3, <2>4
<1>6. ASSUME http_pc = "read", NEW n \in 1..MaxBuffer, n <= Http!Pending,
             IF Http!TooLong(n) THEN Http!Throw
             ELSE /\ response' = [response EXCEPT !.body = @ \o
                              SubSeq(answer.body, Len(@) + 1, Len(@) + n)]
                  /\ until' = now + Http!Remaining(deadline)
                  /\ UNCHANGED <<has_token, http_pc, now, deadline, answer, arrived, cut>>
      PROVE  Http!RequestInvariant'
  <2>1. CASE Http!TooLong(n)
    BY <1>2, <1>6, <2>1
  <2>2. CASE ~ Http!TooLong(n)
    <3>1. /\ UNCHANGED <<has_token, http_pc, now, deadline, answer, arrived, cut>>
          /\ until' = Timeout
      BY <1>0, <1>6, <2>2 DEF Http!Remaining, Http!ClocksAgree, Http!TypeOK
    <3>2. /\ response'.status = response.status
          /\ response'.retry_after = response.retry_after
          /\ response' \in [status : Statuses \union {0},
                            retry_after : RetryAfters \union {None}, body : Seq(Nat)]
          /\ Len(response'.body) <= arrived /\ Len(response'.body) <= BodyLimit
          /\ \A j \in 1..Len(response'.body) : response'.body[j] = answer.body[j]
      BY <1>6, <2>2, BufferIsNext
    <3>3. Http!TypeOK'
      BY <1>0, <3>1, <3>2 DEF Http!TypeOK
    <3>4. Http!ClocksAgree'
      BY <3>1 DEF Http!ClocksAgree
    <3>5. Http!ReadSoFar'
      BY <3>1, <3>2 DEF Http!ReadSoFar
    <3>6. Http!AnswerSoFar'
      BY <1>6, <3>1, <3>2 DEF Http!AnswerSoFar, Http!ErrorAnswer
    <3> QED
      BY <3>3, <3>4, <3>5, <3>6
  <2> QED
    BY <2>1, <2>2
<1>7. CASE Http!EndOfBody
  <2>1. /\ http_pc = "read" /\ http_pc' = "done" /\ Http!AtEnd
        /\ UNCHANGED <<has_token, now, deadline, until, answer, arrived, cut, response>>
    BY <1>7 DEF Http!EndOfBody
  <2>2. Len(response.body) = Len(answer.body)
    BY <2>1, AnswerType DEF Http!AtEnd, Http!Pending
  <2>3. Http!TypeOK'
    BY <2>1 DEF Http!TypeOK
  <2>4. Http!ClocksAgree' /\ Http!ReadSoFar'
    BY <2>1 DEF Http!ClocksAgree, Http!ReadSoFar
  <2>5. Http!AnswerSoFar'
    BY <2>1, <2>2 DEF Http!AnswerSoFar, Http!ErrorAnswer
  <2> QED
    BY <2>3, <2>4, <2>5
<1>8. CASE Http!ReadFails
  BY <1>2, <1>8 DEF Http!ReadFails
<1>9. CASE Http!ReadBuffer
  BY <1>6, <1>9 DEF Http!ReadBuffer
<1> QED
  BY <1>1, <1>3, <1>4, <1>5, <1>7, <1>8, <1>9 DEF Http!Client

\* What the invariant says of the answers that are handed over.
LEMMA RequestPromises ==
  ASSUME Http!RequestInvariant
  PROVE  Http!ErrorPolicyKept /\ Http!WholeBodyOrThrow /\ Http!OneDeadline /\ Http!TypeOK
<1> USE DEF Http!RequestInvariant
<1>1. Http!ErrorPolicyKept
  BY DEF Http!TypeOK, Http!AnswerSoFar, Http!ErrorAnswer, Http!NoResponse,
         Http!ErrorPolicyKept
<1>2. ASSUME http_pc = "done", response.status \in 200..299
      PROVE  response.body = answer.body /\ Len(response.body) <= BodyLimit
  <2>1. Len(response.body) = Len(answer.body)
    <3>1. ~ Http!ErrorAnswer
      <4>1. 200 <= response.status /\ response.status <= 299 /\ response.status \in Int
        BY <1>2
      <4> QED
        BY <4>1 DEF Http!ErrorAnswer
    <3> QED
      BY <1>2, <3>1 DEF Http!AnswerSoFar
  <2>2. \A n \in 1..Len(answer.body) : response.body[n] = answer.body[n]
    BY <2>1 DEF Http!ReadSoFar
  <2>3. response.body = answer.body
    BY <2>1, <2>2, AnswerType, SeqEqual
  <2> QED
    BY <2>3 DEF Http!ReadSoFar
<1>3. Http!OneDeadline
  BY DEF Http!ClocksAgree, Http!OneDeadline
<1> QED
  BY <1>1, <1>2, <1>3 DEF Http!WholeBodyOrThrow

\* RequestsAreSound: for any timeout, limit, buffer and answer, and whatever
\* the network does, a request is not waited for past its one deadline, an
\* error keeps its status and Retry-After, and a success is the whole body
\* that was sent, within the limit.
THEOREM RequestsAreSound == Spec => []RequestSound
<1> DEFINE Inv == component = "http" => Http!RequestInvariant
<1>1. Init => Inv
  <2> SUFFICES ASSUME Http!Init PROVE Http!RequestInvariant
    BY DEF Init
  <2>0. Timeout \in Nat \ {0} /\ BodyLimit \in Nat /\ Bodies \subseteq Seq(Nat)
    BY RequestAssumption DEF Http!RequestAssumption
  <2>1. Http!TypeOK
    <3>1. response = [status |-> 0, retry_after |-> None, body |-> <<>>]
      BY DEF Http!Init, Http!NoResponse
    <3>2. arrived = 0 /\ Len(answer.body) \in Nat
      BY <2>0 DEF Http!Init
    <3> QED
      <4>1. /\ has_token \in BOOLEAN /\ cut = FALSE /\ http_pc = "idle"
            /\ now = 0 /\ deadline = 0 /\ until = 0
            /\ answer \in [status : Statuses, retry_after : RetryAfters, body : Bodies]
        BY DEF Http!Init
      <4>2. arrived \in 0..Len(answer.body)
        BY <3>2
      <4>3. response \in [status : Statuses \union {0},
                          retry_after : RetryAfters \union {None}, body : Seq(Nat)]
        BY <3>1
      <4> QED
        BY <4>1, <4>2, <4>3 DEF Http!TypeOK
  <2>2. Http!ClocksAgree
    BY <2>0 DEF Http!Init, Http!ClocksAgree
  <2>3. Http!ReadSoFar /\ Http!AnswerSoFar
    BY <2>0 DEF Http!Init, Http!ReadSoFar, Http!AnswerSoFar, Http!NoResponse
  <2> QED
    BY <2>1, <2>2, <2>3 DEF Http!RequestInvariant
<1>2. Inv /\ [Next]_vars => Inv'
  <2> SUFFICES ASSUME Inv, [Next]_vars, component' = "http"
               PROVE  Http!RequestInvariant'
    OBVIOUS
  <2>s. ASSUME Http!RequestInvariant, UNCHANGED httpVars PROVE Http!RequestInvariant'
    BY <2>s DEF httpVars, Http!RequestInvariant, Http!TypeOK, Http!ClocksAgree,
       Http!ReadSoFar, Http!AnswerSoFar, Http!ErrorAnswer, Http!NoResponse
  <2>1. CASE Next
    <3>1. component = "http" /\ Http!Next
      BY <2>1 DEF Next
    <3>2. CASE Http!Ended
      BY <2>s, <3>1, <3>2 DEF Http!Ended, Http!vars, httpVars
    <3> QED
      BY <3>1, <3>2, NetworkStep, ClientStep DEF Http!Next
  <2>2. CASE UNCHANGED vars
    BY <2>s, <2>2 DEF vars
  <2> QED
    BY <2>1, <2>2
<1>3. Inv => RequestSound
  BY RequestPromises DEF RequestSound
<1> QED
  BY <1>1, <1>2, <1>3, PTL DEF Spec

-----------------------------------------------------------------------------
(* CredentialFile                                                          *)

\* What a credential can be.
LEMMA Contents ==
  /\ Credential!Absent \in Credential!Content
  /\ Credential!Empty \in Credential!Content
  /\ Credential!Torn \in Credential!Content
  /\ \A t \in 1..MaxCalls : /\ Credential!Whole(t) \in Credential!Content
                            /\ Credential!Whole(t).kind = "whole"
  /\ Credential!Absent.kind = "absent" /\ Credential!Empty.kind = "empty"
  /\ Credential!Torn.kind = "torn"
  BY DEF Credential!Content, Credential!Absent, Credential!Empty,
         Credential!Torn, Credential!Whole

\* Only a file that is not there, or that is empty, has no bytes.
LEMMA Sizes ==
  ASSUME NEW c \in Credential!Content
  PROVE  /\ Credential!Size(c) \in 0..3
         /\ Credential!Size(c) = 0 <=> c \in {Credential!Absent, Credential!Empty}
         /\ c.kind = "whole" => Credential!Size(c) > 0
<1>1. CASE c = Credential!Absent
  BY <1>1 DEF Credential!Size, Credential!Absent, Credential!Empty
<1>2. CASE c = Credential!Empty
  BY <1>2 DEF Credential!Size, Credential!Absent, Credential!Empty
<1>3. CASE c = Credential!Torn
  BY <1>3 DEF Credential!Size, Credential!Absent, Credential!Empty,
              Credential!Torn
<1>4. ASSUME NEW t \in 1..MaxCalls, c = Credential!Whole(t)
      PROVE  /\ Credential!Size(c) \in 1..2
             /\ c \notin {Credential!Absent, Credential!Empty}
  <2>1. t \in Nat /\ t % 2 \in 0..1
    BY CredentialAssumption DEF Credential!CallsAssumption
  <2>2. c.kind = "whole" /\ c.token = t
    BY <1>4 DEF Credential!Whole
  <2>3. Credential!Size(c) = 1 + (c.token % 2)
    BY <2>2 DEF Credential!Size
  <2>4. c # Credential!Absent /\ c # Credential!Empty
    BY <2>2, Contents
  <2> QED
    BY <2>1, <2>2, <2>3, <2>4
<1> QED
  BY <1>1, <1>2, <1>3, <1>4, Contents DEF Credential!Content

\* The steps of a writer and of a reader keep the invariant; the types first.
LEMMA WriterType ==
  ASSUME Credential!TypeOK, NEW p \in Writers, Credential!ProtectToken(p)
  PROVE  Credential!TypeOK'
<1> USE Contents, CredentialAssumption
    DEF Credential!TypeOK, Credential!To, Credential!CallsAssumption
<1>1. CASE Credential!BeginProtect(p)
  BY <1>1 DEF Credential!BeginProtect
<1>2. CASE Credential!PrepareFile(p)
  BY <1>2 DEF Credential!PrepareFile, Credential!Observed
<1>3. CASE Credential!Refused(p)
  BY <1>3 DEF Credential!Refused
<1>4. CASE Credential!PrepareTemp(p)
  BY <1>4 DEF Credential!PrepareTemp
<1>5. CASE Credential!Truncate(p)
  BY <1>5 DEF Credential!Truncate
<1>6. CASE Credential!Write(p)
  <2>1. w[p].token \in 1..MaxCalls
    BY <1>6 DEF Credential!Write
  <2>2. temp' \in {Credential!Whole(w[p].token), Credential!Torn}
    BY <1>6 DEF Credential!Write
  <2>3. temp' \in Credential!Content
    BY <2>1, <2>2
  <2> QED
    BY <1>6, <2>3 DEF Credential!Write
<1>7. CASE Credential!WriteFails(p)
  BY <1>7 DEF Credential!WriteFails
<1>8. CASE Credential!CloseTemp(p)
  BY <1>8 DEF Credential!CloseTemp
<1>9. CASE Credential!Move(p)
  BY <1>9 DEF Credential!Move, Credential!Observed
<1>10. CASE Credential!MoveFails(p)
  BY <1>10 DEF Credential!MoveFails
<1>11. CASE Credential!Killed(p)
  BY <1>11 DEF Credential!Killed
<1> QED
  BY <1>1, <1>2, <1>3, <1>4, <1>5, <1>6, <1>7, <1>8, <1>9, <1>10, <1>11
     DEF Credential!ProtectToken

\* A writer that begins while another is at work makes an overlap; one alone
\* moves what it has written.
LEMMA OneWriterStep ==
  ASSUME Credential!CredentialInvariant, NEW p \in Writers,
         Credential!ProtectToken(p)
  PROVE  Credential!OneWriter'
<1> USE Contents DEF Credential!CredentialInvariant, Credential!TypeOK,
            Credential!OneWriter, Credential!To
<1>1. CASE Credential!BeginProtect(p)
  BY <1>1 DEF Credential!BeginProtect
<1>2. CASE Credential!PrepareFile(p)
  BY <1>2 DEF Credential!PrepareFile
<1>3. CASE Credential!Refused(p)
  BY <1>3 DEF Credential!Refused
<1>4. CASE Credential!PrepareTemp(p)
  BY <1>4 DEF Credential!PrepareTemp
<1>5. CASE Credential!Truncate(p)
  BY <1>5 DEF Credential!Truncate
<1>6. CASE Credential!Write(p)
  <2> SUFFICES ASSUME ~ overlap PROVE Credential!OneWriter'
    BY <1>6 DEF Credential!Write
  <2>1. \A q \in Writers \ {p} : w[q].pc = "idle"
    BY <1>6 DEF Credential!Write
  <2>2. /\ w[p].token \in 1..MaxCalls
        /\ w' = [w EXCEPT ![p].pc = "written"]
    BY <1>6, CredentialAssumption
       DEF Credential!Write, Credential!CallsAssumption
  <2>3. temp' = Credential!Whole(w[p].token)
    BY <1>6, <2>1 DEF Credential!Write, Credential!HoldsTemp
  <2>4. temp'.kind = "whole"
    BY <2>2, <2>3
  <2>5. \A q, u \in Writers : w'[q].pc # "idle" /\ w'[u].pc # "idle" => q = u
    BY <2>1, <2>2
  <2> QED
    BY <2>4, <2>5
<1>7. CASE Credential!WriteFails(p)
  BY <1>7 DEF Credential!WriteFails
<1>8. CASE Credential!CloseTemp(p)
  BY <1>8 DEF Credential!CloseTemp
<1>9. CASE Credential!Move(p)
  BY <1>9 DEF Credential!Move
<1>10. CASE Credential!MoveFails(p)
  BY <1>10 DEF Credential!MoveFails
<1>11. CASE Credential!Killed(p)
  BY <1>11 DEF Credential!Killed
<1> QED
  BY <1>1, <1>2, <1>3, <1>4, <1>5, <1>6, <1>7, <1>8, <1>9, <1>10, <1>11
     DEF Credential!ProtectToken

\* A moved temporary leaves the restriction of the credential in place.
LEMMA FilePreparedStep ==
  ASSUME Credential!CredentialInvariant, NEW p \in Writers,
         Credential!ProtectToken(p)
  PROVE  Credential!FilePrepared'
<1> USE DEF Credential!CredentialInvariant, Credential!TypeOK,
            Credential!FilePrepared, Credential!To
<1>1. CASE Credential!BeginProtect(p)
  BY <1>1 DEF Credential!BeginProtect
<1>2. CASE Credential!PrepareFile(p)
  BY <1>2 DEF Credential!PrepareFile
<1>3. CASE Credential!Refused(p)
  BY <1>3 DEF Credential!Refused
<1>4. CASE Credential!PrepareTemp(p)
  BY <1>4 DEF Credential!PrepareTemp
<1>5. CASE Credential!Truncate(p)
  BY <1>5 DEF Credential!Truncate
<1>6. CASE Credential!Write(p)
  BY <1>6 DEF Credential!Write
<1>7. CASE Credential!WriteFails(p)
  BY <1>7 DEF Credential!WriteFails
<1>8. CASE Credential!CloseTemp(p)
  BY <1>8 DEF Credential!CloseTemp
<1>9. CASE Credential!Move(p)
  BY <1>9 DEF Credential!Move
<1>10. CASE Credential!MoveFails(p)
  BY <1>10 DEF Credential!MoveFails
<1>11. CASE Credential!Killed(p)
  BY <1>11 DEF Credential!Killed
<1> QED
  BY <1>1, <1>2, <1>3, <1>4, <1>5, <1>6, <1>7, <1>8, <1>9, <1>10, <1>11
     DEF Credential!ProtectToken

\* The credential is replaced only by what a writer alone has written whole.
LEMMA NeverLostStep ==
  ASSUME Credential!CredentialInvariant, NEW p \in Writers,
         Credential!ProtectToken(p)
  PROVE  Credential!NeverLost' /\ Credential!TornOnlyByOverlap'
<1> USE Contents DEF Credential!CredentialInvariant, Credential!TypeOK,
            Credential!OneWriter, Credential!NeverLost,
            Credential!TornOnlyByOverlap, Credential!To
<1>1. CASE Credential!BeginProtect(p)
  BY <1>1 DEF Credential!BeginProtect
<1>2. CASE Credential!PrepareFile(p)
  BY <1>2 DEF Credential!PrepareFile
<1>3. CASE Credential!Refused(p)
  BY <1>3 DEF Credential!Refused
<1>4. CASE Credential!PrepareTemp(p)
  BY <1>4 DEF Credential!PrepareTemp
<1>5. CASE Credential!Truncate(p)
  BY <1>5 DEF Credential!Truncate
<1>6. CASE Credential!Write(p)
  BY <1>6 DEF Credential!Write
<1>7. CASE Credential!WriteFails(p)
  BY <1>7 DEF Credential!WriteFails
<1>8. CASE Credential!CloseTemp(p)
  BY <1>8 DEF Credential!CloseTemp
<1>9. CASE Credential!Move(p)
  BY <1>9 DEF Credential!Move
<1>10. CASE Credential!MoveFails(p)
  BY <1>10 DEF Credential!MoveFails
<1>11. CASE Credential!Killed(p)
  BY <1>11 DEF Credential!Killed
<1> QED
  BY <1>1, <1>2, <1>3, <1>4, <1>5, <1>6, <1>7, <1>8, <1>9, <1>10, <1>11
     DEF Credential!ProtectToken

\* A token is written to a file only after its directory was restricted, and
\* moved only to a file that was.
LEMMA SecretsPrivateStep ==
  ASSUME Credential!CredentialInvariant, NEW p \in Writers,
         Credential!ProtectToken(p)
  PROVE  Credential!SecretsPrivate'
<1> USE Contents, Sizes DEF Credential!CredentialInvariant, Credential!TypeOK,
            Credential!FilePrepared, Credential!SecretsPrivate, Credential!To
<1>1. CASE Credential!BeginProtect(p)
  BY <1>1 DEF Credential!BeginProtect
<1>2. CASE Credential!PrepareFile(p)
  BY <1>2 DEF Credential!PrepareFile
<1>3. CASE Credential!Refused(p)
  BY <1>3 DEF Credential!Refused
<1>4. CASE Credential!PrepareTemp(p)
  BY <1>4 DEF Credential!PrepareTemp
<1>5. CASE Credential!Truncate(p)
  BY <1>5 DEF Credential!Truncate
<1>6. CASE Credential!Write(p)
  BY <1>6 DEF Credential!Write
<1>7. CASE Credential!WriteFails(p)
  BY <1>7 DEF Credential!WriteFails
<1>8. CASE Credential!CloseTemp(p)
  BY <1>8 DEF Credential!CloseTemp
<1>9. CASE Credential!Move(p)
  BY <1>9 DEF Credential!Move
<1>10. CASE Credential!MoveFails(p)
  BY <1>10 DEF Credential!MoveFails
<1>11. CASE Credential!Killed(p)
  BY <1>11 DEF Credential!Killed
<1> QED
  BY <1>1, <1>2, <1>3, <1>4, <1>5, <1>6, <1>7, <1>8, <1>9, <1>10, <1>11
     DEF Credential!ProtectToken

\* What a writer makes of the credential is seen by the readers at work.
LEMMA WriterIsSeen ==
  ASSUME NEW p \in Writers, Credential!ProtectToken(p)
  PROVE  /\ r' = r
         /\ \/ file' = file /\ seen' = seen
            \/ Credential!Observed(file')
  BY DEF Credential!ProtectToken, Credential!BeginProtect,
         Credential!PrepareFile, Credential!Refused, Credential!PrepareTemp,
         Credential!Truncate, Credential!Write, Credential!WriteFails,
         Credential!CloseTemp, Credential!Move, Credential!MoveFails,
         Credential!Killed

\* A reader at work remembers whatever a writer makes of the file meanwhile.
LEMMA ReadersUndisturbed ==
  ASSUME Credential!CredentialInvariant, NEW p \in Writers,
         Credential!ProtectToken(p)
  PROVE  Credential!ReaderAtWork' /\ Credential!ReaderSound'
<1> USE DEF Credential!CredentialInvariant, Credential!TypeOK,
            Credential!ReaderAtWork, Credential!ReaderSound
<1>1. r' = r
  BY WriterIsSeen
<1>2. CASE file' = file /\ seen' = seen
  BY <1>1, <1>2
<1>3. CASE Credential!Observed(file')
  <2>1. \A q \in Readers :
          seen'[q] = IF r[q].pc = "idle" THEN seen[q] ELSE seen[q] \cup {file'}
    BY <1>3 DEF Credential!Observed
  <2>2. ASSUME NEW q \in Readers, r[q].pc # "idle"
        PROVE  /\ file' \in seen'[q]
               /\ \E c \in seen'[q] : r[q].size = Credential!Size(c)
    <3>1. PICK c \in seen[q] : r[q].size = Credential!Size(c)
      BY <2>2
    <3>2. seen'[q] = seen[q] \cup {file'}
      BY <2>1, <2>2
    <3> QED
      BY <3>1, <3>2
  <2>3. Credential!ReaderSound'
    BY <1>1, <2>1
  <2> QED
    BY <1>1, <2>2, <2>3
<1> QED
  BY <1>2, <1>3, WriterIsSeen

\* A reader changes nothing but its own state.
LEMMA ReaderStep ==
  ASSUME Credential!CredentialInvariant, NEW p \in Readers,
         Credential!UnprotectToken(p)
  PROVE  Credential!CredentialInvariant'
<1> USE DEF Credential!CredentialInvariant, Credential!Reader,
            Credential!writerVars
<1>1. UNCHANGED <<file, linked, temp, private, w, calls, installed, overlap>>
  BY DEF Credential!UnprotectToken, Credential!ReadSize, Credential!OpenFile,
         Credential!ReadToken
<1>2. Credential!Size(file) \in 0..3
  BY Sizes DEF Credential!TypeOK
<1>3. r' \in [Readers -> [pc : {"idle", "sized", "open"}, size : 0..3,
                          got : Credential!Content]]
      /\ seen' \in [Readers -> SUBSET Credential!Content]
  <2>1. CASE Credential!ReadSize(p)
    BY <1>2, <2>1, Contents DEF Credential!ReadSize, Credential!TypeOK
  <2>2. CASE Credential!OpenFile(p)
    BY <1>2, <2>2, Contents DEF Credential!OpenFile, Credential!TypeOK
  <2>3. CASE Credential!ReadToken(p)
    BY <1>2, <2>3, Contents DEF Credential!ReadToken, Credential!TypeOK
  <2> QED
    BY <2>1, <2>2, <2>3 DEF Credential!UnprotectToken
<1>4. Credential!TypeOK'
  BY <1>1, <1>3 DEF Credential!TypeOK
<1>5. Credential!ReaderAtWork'
  BY <1>1 DEF Credential!UnprotectToken, Credential!ReadSize,
              Credential!OpenFile, Credential!ReadToken,
              Credential!ReaderAtWork, Credential!TypeOK
<1>6. Credential!ReaderSound'
  <2>1. CASE Credential!ReadSize(p)
    <3>1. /\ seen' = [seen EXCEPT ![p] = {file}]
          /\ \E n \in 0..3 :
               r' = [r EXCEPT ![p] = [pc |-> IF n = 0 THEN "idle" ELSE "sized",
                                      size |-> n, got |-> Credential!Absent]]
      BY <1>2, <2>1 DEF Credential!ReadSize
    <3>2. r'[p].pc = "idle" => file.kind # "whole"
      BY <2>1, Sizes DEF Credential!ReadSize, Credential!TypeOK
    <3>3. /\ seen'[p] = {file} /\ r'[p].got = Credential!Absent
          /\ \A q \in Readers \ {p} : r'[q] = r[q] /\ seen'[q] = seen[q]
      BY <3>1 DEF Credential!TypeOK
    <3> QED
      BY <3>2, <3>3 DEF Credential!ReaderSound
  <2>2. CASE Credential!OpenFile(p)
    BY <2>2 DEF Credential!OpenFile, Credential!ReaderSound, Credential!TypeOK
  <2>3. CASE Credential!ReadToken(p)
    BY <2>3, Sizes, Contents
       DEF Credential!ReadToken, Credential!ReaderSound,
           Credential!ReaderAtWork, Credential!TypeOK
  <2> QED
    BY <2>1, <2>2, <2>3 DEF Credential!UnprotectToken
<1> QED
  BY <1>1, <1>4, <1>5, <1>6
     DEF Credential!OneWriter, Credential!FilePrepared, Credential!NeverLost,
         Credential!TornOnlyByOverlap, Credential!SecretsPrivate

\* Every step of the credential keeps the inductive invariant.
LEMMA CredentialStep ==
  ASSUME Credential!CredentialInvariant, Credential!Next
  PROVE  Credential!CredentialInvariant'
<1>1. ASSUME NEW p \in Writers, Credential!ProtectToken(p)
      PROVE  Credential!CredentialInvariant'
  <2>1. Credential!TypeOK'
    BY <1>1, WriterType DEF Credential!CredentialInvariant
  <2> QED
    BY <1>1, <2>1, OneWriterStep, FilePreparedStep, NeverLostStep,
       SecretsPrivateStep, ReadersUndisturbed
       DEF Credential!CredentialInvariant
<1>2. ASSUME NEW p \in Readers, Credential!UnprotectToken(p)
      PROVE  Credential!CredentialInvariant'
  BY <1>2, ReaderStep
<1>3. CASE Credential!ApplicationStarts
  BY <1>3 DEF Credential!ApplicationStarts, Credential!CredentialInvariant,
              Credential!TypeOK, Credential!OneWriter,
              Credential!FilePrepared, Credential!ReaderAtWork,
              Credential!NeverLost, Credential!TornOnlyByOverlap,
              Credential!ReaderSound, Credential!SecretsPrivate
<1> QED
  BY <1>1, <1>2, <1>3 DEF Credential!Next

\* Before any call there is no token in either file.
LEMMA CredentialInit == Credential!Init => Credential!CredentialInvariant
<1> SUFFICES ASSUME Credential!Init PROVE Credential!CredentialInvariant
  OBVIOUS
<1>1. file \in {Credential!Absent, Credential!Empty}
  BY DEF Credential!Init
<1>2. Credential!TypeOK
  <2>1. {file, temp} \subseteq Credential!Content /\ calls \in 0..MaxCalls
    BY <1>1, Contents, CredentialAssumption
       DEF Credential!Init, Credential!CallsAssumption
  <2>2. /\ w \in [Writers -> [pc : {"idle", "prepareFile", "prepareTemp",
                "truncate", "write", "written", "move"}, token : 0..calls]]
        /\ \A p \in Writers : w[p].pc = "idle"
    <3>1. calls = 0 /\ w = [p \in Writers |-> [pc |-> "idle", token |-> 0]]
      BY DEF Credential!Init
    <3>2. 0 \in 0..calls
      BY <3>1
    <3> QED
      BY <3>1, <3>2
  <2>3. r \in [Readers -> [pc : {"idle", "sized", "open"}, size : 0..3,
                          got : Credential!Content]]
    BY Contents DEF Credential!Init
  <2>4. /\ private = {} /\ linked \in BOOLEAN /\ installed \in BOOLEAN
        /\ overlap \in BOOLEAN /\ seen \in [Readers -> SUBSET Credential!Content]
    BY DEF Credential!Init
  <2> QED
    BY <2>1, <2>2, <2>3, <2>4 DEF Credential!TypeOK
<1>3. Credential!Size(file) = 0 /\ Credential!Size(temp) = 0
  BY <1>1, Sizes, Contents DEF Credential!Init
<1>4. Credential!SecretsPrivate
  BY <1>3 DEF Credential!Init, Credential!SecretsPrivate
<1>5. Credential!NeverLost /\ Credential!TornOnlyByOverlap
  BY <1>1, Contents
     DEF Credential!Init, Credential!NeverLost, Credential!TornOnlyByOverlap
<1> QED
  BY <1>2, <1>4, <1>5
     DEF Credential!Init, Credential!CredentialInvariant, Credential!OneWriter,
         Credential!FilePrepared, Credential!ReaderAtWork,
         Credential!ReaderSound

-----------------------------------------------------------------------------
(* DatabaseUpgrade                                                         *)

\* A nonempty set of times has a largest element, and Max finds it: of the
\* sets of times above an element, one has no proper subset among the others.
LEMMA LatestIsThere ==
  ASSUME NEW T, T # {}, T \subseteq Upgrade!Times
  PROVE  Upgrade!Max(T) \in T /\ \A t \in T : t <= Upgrade!Max(T)
<1> DEFINE Above(t) == {u \in T : u > t}
           Tops == {Above(t) : t \in T}
<1>1. LastTime \in Nat /\ T \subseteq 1..LastTime /\ T \subseteq Nat
  BY UpgradeAssumption DEF Upgrade!UpgradeAssumption, Upgrade!Times
<1>2. IsFiniteSet(T)
  <2>1. IsFiniteSet(1..LastTime)
    BY <1>1, FS_Interval
  <2> QED
    BY <1>1, <2>1, FS_Subset
<1>3. Tops # {} /\ Tops \subseteq FiniteSubsetsOf(T)
  <2>1. ASSUME NEW t \in T PROVE Above(t) \in FiniteSubsetsOf(T)
    BY <1>2, FS_Subset DEF FiniteSubsetsOf
  <2> QED
    BY <2>1
<1>4. \E top \in Tops : \A s \in Tops : <<s, top>> \notin StrictSubsetOrdering(T)
  <2> HIDE DEF Tops
  <2> QED
    BY <1>2, <1>3, FS_StrictSubsetOrderingWellFounded, WFMin
<1>5. PICK m \in T : \A t \in T :
                <<Above(t), Above(m)>> \notin StrictSubsetOrdering(T)
  BY <1>4
<1>6. \A t \in T : m >= t
  <2> SUFFICES ASSUME NEW t \in T, t > m PROVE FALSE
    BY <1>1
  <2>1. t \in Above(m) /\ t \notin Above(t)
    BY <1>1
  <2>2. \A u \in T : u > t => u > m
    BY <1>1
  <2>3. Above(t) \subseteq Above(m) /\ Above(m) \subseteq T
    BY <2>2
  <2>4. <<Above(t), Above(m)>> \in StrictSubsetOrdering(T)
    <3> HIDE DEF Above
    <3> QED
      BY <2>1, <2>3 DEF StrictSubsetOrdering
  <2> QED
    BY <1>5, <2>4
<1>7. Upgrade!Max(T) \in T /\ \A t \in T : Upgrade!Max(T) >= t
  BY <1>6 DEF Upgrade!Max
<1> QED
  BY <1>1, <1>7

\* The rows of a database wait for times, and what the migration carries over
\* is no earlier than any of them.
LEMMA CarriedIsLatest ==
  ASSUME NEW d \in Upgrade!Database
  PROVE  /\ Upgrade!Queued(d) \subseteq Upgrade!Times
         /\ Upgrade!Carried(d) \in {0} \cup Upgrade!Times
         /\ \A t \in Upgrade!Queued(d) : t <= Upgrade!Carried(d)
<1>1. Upgrade!Queued(d) \subseteq Upgrade!Times
  BY DEF Upgrade!Database, Upgrade!Queued
<1> QED
  BY <1>1, LatestIsThere DEF Upgrade!Carried

\* The statements of a transaction leave a database.
LEMMA Changed ==
  ASSUME NEW d \in Upgrade!Database
  PROVE  /\ [d EXCEPT !.tables = @ \cup Upgrade!V1Tables, !.user_version = 1]
              \in Upgrade!Database
         /\ [d EXCEPT !.tables = @ \cup {"delivery_state"}] \in Upgrade!Database
         /\ [d EXCEPT !.retry_not_before_ms = Upgrade!Carried(d),
                      !.user_version = 2] \in Upgrade!Database
<1> DEFINE Versions == 0..3
           Tables == SUBSET (Upgrade!V1Tables \cup {"delivery_state"})
           Waits == [Rows -> Upgrade!Times \cup {None}]
           Pauses == {0} \cup Upgrade!Times
<1>1. d \in [user_version : Versions, tables : Tables, next_ms : Waits,
             retry_not_before_ms : Pauses]
  BY DEF Upgrade!Database
<1>2. /\ d.tables \cup Upgrade!V1Tables \in Tables
      /\ d.tables \cup {"delivery_state"} \in Tables
  BY <1>1
<1>3. Upgrade!Carried(d) \in Pauses
  BY CarriedIsLatest
<1>4. 1 \in Versions /\ 2 \in Versions
  OBVIOUS
<1>5. Upgrade!Database =
        [user_version : Versions, tables : Tables, next_ms : Waits,
         retry_not_before_ms : Pauses]
  BY DEF Upgrade!Database
<1> HIDE DEF Versions, Tables, Waits, Pauses
<1>6. [d EXCEPT !.tables = @ \cup Upgrade!V1Tables, !.user_version = 1]
        \in Upgrade!Database
  BY <1>1, <1>2, <1>4, <1>5
<1>7. [d EXCEPT !.tables = @ \cup {"delivery_state"}] \in Upgrade!Database
  BY <1>1, <1>2, <1>5
<1>8. [d EXCEPT !.retry_not_before_ms = Upgrade!Carried(d), !.user_version = 2]
        \in Upgrade!Database
  BY <1>1, <1>3, <1>4, <1>5
<1> QED
  BY <1>6, <1>7, <1>8

\* Each statement of an opener keeps the types.
LEMMA OpeningType ==
  ASSUME Upgrade!TypeOK, NEW p \in Openers,
         \/ Upgrade!ReadVersion(p) \/ Upgrade!Begin(p) \/ Upgrade!CreateSchema(p)
         \/ Upgrade!MigrateTable(p) \/ Upgrade!CarryPauses(p)
         \/ Upgrade!Commit(p) \/ Upgrade!Fails(p) \/ Upgrade!Close(p)
  PROVE  Upgrade!TypeOK'
<1> USE DEF Upgrade!TypeOK, Upgrade!At
<1>1. CASE Upgrade!ReadVersion(p)
  BY <1>1 DEF Upgrade!ReadVersion, Upgrade!Database
<1>2. CASE Upgrade!Begin(p)
  BY <1>2 DEF Upgrade!Begin
<1>3. CASE Upgrade!CreateSchema(p)
  <2>1. CASE Upgrade!RollBack(p)
    BY <2>1 DEF Upgrade!RollBack
  <2>2. CASE ~ Upgrade!RollBack(p)
    <3>1. work' = [work EXCEPT !.tables = @ \cup Upgrade!V1Tables,
                               !.user_version = 1]
      BY <1>3, <2>2 DEF Upgrade!CreateSchema, Upgrade!Statement
    <3>2. work' \in Upgrade!Database
      BY <3>1, Changed
    <3> QED
      BY <1>3, <2>2, <3>2 DEF Upgrade!CreateSchema, Upgrade!Statement
  <2> QED
    BY <2>1, <2>2
<1>4. CASE Upgrade!MigrateTable(p)
  <2>1. CASE Upgrade!RollBack(p)
    BY <2>1 DEF Upgrade!RollBack
  <2>2. CASE ~ Upgrade!RollBack(p)
    <3>1. work' = [work EXCEPT !.tables = @ \cup {"delivery_state"}]
      BY <1>4, <2>2 DEF Upgrade!MigrateTable, Upgrade!Statement
    <3>2. work' \in Upgrade!Database
      BY <3>1, Changed
    <3> QED
      BY <1>4, <2>2, <3>2 DEF Upgrade!MigrateTable, Upgrade!Statement
  <2> QED
    BY <2>1, <2>2
<1>5. CASE Upgrade!CarryPauses(p)
  <2>1. work' = [work EXCEPT !.retry_not_before_ms = Upgrade!Carried(work),
                             !.user_version = 2]
    BY <1>5 DEF Upgrade!CarryPauses, Upgrade!Statement
  <2>2. work' \in Upgrade!Database
    BY <2>1, Changed
  <2> QED
    BY <1>5, <2>2 DEF Upgrade!CarryPauses, Upgrade!Statement
<1>6. CASE Upgrade!Commit(p)
  BY <1>6 DEF Upgrade!Commit
<1>7. CASE Upgrade!Fails(p)
  BY <1>7 DEF Upgrade!Fails
<1>8. CASE Upgrade!Close(p)
  BY <1>8 DEF Upgrade!Close
<1> QED
  BY <1>1, <1>2, <1>3, <1>4, <1>5, <1>6, <1>7, <1>8

\* The statements of a transaction keep its copy in order: only the opener that
\* has the lock is in one, and the pause it carries over is the latest.
LEMMA TransactionStep ==
  ASSUME Upgrade!UpgradeInvariant, NEW p \in Openers,
         \/ Upgrade!ReadVersion(p) \/ Upgrade!Begin(p) \/ Upgrade!CreateSchema(p)
         \/ Upgrade!MigrateTable(p) \/ Upgrade!CarryPauses(p)
         \/ Upgrade!Commit(p) \/ Upgrade!Fails(p) \/ Upgrade!Close(p)
  PROVE  Upgrade!TransactionSoFar'
<1> USE DEF Upgrade!UpgradeInvariant, Upgrade!TypeOK, Upgrade!At,
            Upgrade!TransactionSoFar, Upgrade!Changing
<1>0. \A q \in Openers : q # "free"
  BY UpgradeAssumption DEF Upgrade!UpgradeAssumption
<1>1. CASE Upgrade!ReadVersion(p)
  BY <1>1 DEF Upgrade!ReadVersion
<1>2. CASE Upgrade!Begin(p)
  BY <1>0, <1>2 DEF Upgrade!Begin, Upgrade!VersionRead
<1>3. CASE Upgrade!CreateSchema(p)
  <2>1. upgrade_pc[p] = "create" /\ v[p] = 0 /\ work = disk
    BY <1>3 DEF Upgrade!CreateSchema
  <2>2. CASE Upgrade!RollBack(p)
    BY <2>1, <2>2 DEF Upgrade!RollBack
  <2>3. CASE work.tables \cap Upgrade!V1Tables = {}
    <3>1. /\ work' = [work EXCEPT !.tables = @ \cup Upgrade!V1Tables,
                                  !.user_version = 1]
          /\ disk' = disk /\ lock' = lock /\ v' = v
          /\ upgrade_pc' = [upgrade_pc EXCEPT ![p] = "migrate"]
      BY <1>3, <2>3 DEF Upgrade!CreateSchema, Upgrade!Statement
    <3>2. work.tables = {}
      BY <2>1, <2>3
         DEF Upgrade!VersionRead, Upgrade!VersionMatchesTables,
             Upgrade!V1Tables
    <3>3. work'.tables = Upgrade!V1Tables /\ work'.next_ms = disk.next_ms
      BY <2>1, <3>1, <3>2 DEF Upgrade!Database
    <3>4. \A q \in Openers \ {p} : upgrade_pc'[q] \notin Upgrade!Changing
      BY <2>1, <3>1
    <3>5. upgrade_pc'[p] = "migrate" /\ lock' = p
      BY <2>1, <3>1
    <3> QED
      BY <3>1, <3>3, <3>4, <3>5
  <2> QED
    BY <1>3, <2>2, <2>3 DEF Upgrade!CreateSchema
<1>4. CASE Upgrade!MigrateTable(p)
  <2>1. upgrade_pc[p] = "migrate"
    BY <1>4 DEF Upgrade!MigrateTable
  <2>2. CASE Upgrade!RollBack(p)
    BY <2>1, <2>2 DEF Upgrade!RollBack
  <2>3. CASE "delivery_state" \notin work.tables
    <3>1. /\ work' = [work EXCEPT !.tables = @ \cup {"delivery_state"}]
          /\ disk' = disk /\ lock' = lock /\ v' = v
          /\ upgrade_pc' = [upgrade_pc EXCEPT ![p] = "carry"]
      BY <1>4, <2>3 DEF Upgrade!MigrateTable, Upgrade!Statement
    <3>2. work.tables = Upgrade!V1Tables /\ work.next_ms = disk.next_ms
      BY <2>1, <2>3
         DEF Upgrade!VersionRead, Upgrade!VersionMatchesTables
    <3>3. /\ work'.tables = Upgrade!V1Tables \cup {"delivery_state"}
          /\ work'.next_ms = disk.next_ms
      BY <3>1, <3>2 DEF Upgrade!Database
    <3>4. \A q \in Openers \ {p} : upgrade_pc'[q] \notin Upgrade!Changing
      BY <2>1, <3>1
    <3>5. upgrade_pc'[p] = "carry" /\ lock' = p
      BY <2>1, <3>1
    <3> QED
      BY <3>1, <3>3, <3>4, <3>5
  <2> QED
    BY <1>4, <2>2, <2>3 DEF Upgrade!MigrateTable
<1>5. CASE Upgrade!CarryPauses(p)
  <2>1. /\ upgrade_pc[p] = "carry" /\ disk' = disk /\ lock' = lock /\ v' = v
        /\ upgrade_pc' = [upgrade_pc EXCEPT ![p] = "commit"]
        /\ work' = [work EXCEPT !.retry_not_before_ms = Upgrade!Carried(work),
                                !.user_version = 2]
    BY <1>5 DEF Upgrade!CarryPauses, Upgrade!Statement
  <2>2. /\ work'.tables = work.tables /\ work'.next_ms = work.next_ms
        /\ work'.user_version = 2
        /\ work'.retry_not_before_ms = Upgrade!Carried(work)
    BY <2>1 DEF Upgrade!Database
  <2>3. Upgrade!Queued(work') = Upgrade!Queued(work)
    BY <2>2 DEF Upgrade!Queued
  <2>4. \A t \in Upgrade!Queued(work') : t <= work'.retry_not_before_ms
    BY <2>2, <2>3, CarriedIsLatest
  <2>5. \A q \in Openers \ {p} : upgrade_pc'[q] \notin Upgrade!Changing
    BY <2>1
  <2>6. /\ upgrade_pc'[p] = "commit" /\ lock' = p
        /\ work'.tables = Upgrade!V1Tables \cup {"delivery_state"}
        /\ work'.next_ms = disk'.next_ms
    BY <2>1, <2>2
  <2> QED
    BY <2>1, <2>2, <2>4, <2>5, <2>6
<1>6. CASE Upgrade!Commit(p)
  BY <1>6 DEF Upgrade!Commit
<1>7. CASE Upgrade!Fails(p)
  BY <1>7 DEF Upgrade!Fails
<1>8. CASE Upgrade!Close(p)
  BY <1>8 DEF Upgrade!Close
<1> QED
  BY <1>1, <1>2, <1>3, <1>4, <1>5, <1>6, <1>7, <1>8

\* COMMIT alone changes the database, to one whose version tells its tables.
LEMMA VersionsStep ==
  ASSUME Upgrade!UpgradeInvariant, NEW p \in Openers,
         \/ Upgrade!ReadVersion(p) \/ Upgrade!Begin(p) \/ Upgrade!CreateSchema(p)
         \/ Upgrade!MigrateTable(p) \/ Upgrade!CarryPauses(p)
         \/ Upgrade!Commit(p) \/ Upgrade!Fails(p) \/ Upgrade!Close(p)
  PROVE  /\ Upgrade!VersionRead' /\ Upgrade!VersionMatchesTables'
         /\ Upgrade!PausesCarried'
         /\ \A q \in Openers : upgrade_pc'[q] = "open" =>
              disk'.user_version = Upgrade!schema_version
<1> USE DEF Upgrade!UpgradeInvariant, Upgrade!TypeOK, Upgrade!At,
            Upgrade!VersionRead, Upgrade!VersionMatchesTables,
            Upgrade!PausesCarried, Upgrade!Changing, Upgrade!schema_version
<1>1. CASE Upgrade!ReadVersion(p)
  <2>1. disk.user_version \in 0..3
    BY DEF Upgrade!Database
  <2> QED
    BY <1>1, <2>1 DEF Upgrade!ReadVersion
<1>2. CASE Upgrade!Begin(p)
  BY <1>2 DEF Upgrade!Begin
<1>3. CASE Upgrade!CreateSchema(p)
  BY <1>3 DEF Upgrade!CreateSchema, Upgrade!RollBack, Upgrade!Statement
<1>4. CASE Upgrade!MigrateTable(p)
  BY <1>4 DEF Upgrade!MigrateTable, Upgrade!RollBack, Upgrade!Statement
<1>5. CASE Upgrade!CarryPauses(p)
  BY <1>5 DEF Upgrade!CarryPauses, Upgrade!Statement
<1>6. CASE Upgrade!Commit(p)
  <2>1. /\ upgrade_pc[p] = "commit" /\ disk' = work /\ v' = v /\ first' = first
        /\ upgrade_pc' = [upgrade_pc EXCEPT ![p] = "open"]
    BY <1>6 DEF Upgrade!Commit
  <2>2. /\ work.user_version = 2 /\ work.next_ms = disk.next_ms
        /\ work.tables = Upgrade!V1Tables \cup {"delivery_state"}
        /\ \A t \in Upgrade!Queued(work) : t <= work.retry_not_before_ms
    BY <2>1 DEF Upgrade!TransactionSoFar
  <2> QED
    BY <2>1, <2>2
<1>7. CASE Upgrade!Fails(p)
  BY <1>7 DEF Upgrade!Fails
<1>8. CASE Upgrade!Close(p)
  BY <1>8 DEF Upgrade!Close
<1> QED
  BY <1>1, <1>2, <1>3, <1>4, <1>5, <1>6, <1>7, <1>8

\* Every step of an opener keeps the inductive invariant.
LEMMA UpgradeStep ==
  ASSUME Upgrade!UpgradeInvariant, Upgrade!Next
  PROVE  Upgrade!UpgradeInvariant'
<1> PICK p \in Openers :
         \/ Upgrade!ReadVersion(p) \/ Upgrade!Begin(p) \/ Upgrade!CreateSchema(p)
         \/ Upgrade!MigrateTable(p) \/ Upgrade!CarryPauses(p)
         \/ Upgrade!Commit(p) \/ Upgrade!Fails(p) \/ Upgrade!Close(p)
  BY DEF Upgrade!Next
<1>1. Upgrade!TypeOK'
  BY OpeningType DEF Upgrade!UpgradeInvariant
<1> QED
  BY <1>1, TransactionStep, VersionsStep DEF Upgrade!UpgradeInvariant

\* A database no opener has touched satisfies it.
LEMMA UpgradeInit == Upgrade!Init => Upgrade!UpgradeInvariant
  BY DEF Upgrade!Init, Upgrade!UpgradeInvariant, Upgrade!TypeOK,
         Upgrade!TransactionSoFar, Upgrade!VersionRead, Upgrade!Changing,
         Upgrade!VersionMatchesTables, Upgrade!PausesCarried

\* Whoever is in a transaction has the lock, so no two openers are.
LEMMA OneUpgrader ==
  ASSUME Upgrade!UpgradeInvariant
  PROVE  Upgrade!OpenMeansCurrent
<1> DEFINE Busy == {p \in Openers :
                      upgrade_pc[p] \in {"create", "migrate", "carry", "commit"}}
<1>1. Busy \subseteq {lock}
  BY DEF Upgrade!UpgradeInvariant, Upgrade!TransactionSoFar, Upgrade!Changing
<1>2. IsFiniteSet({lock}) /\ Cardinality({lock}) = 1
  BY FS_Singleton
<1> HIDE DEF Busy
<1>3. /\ IsFiniteSet(Busy) /\ Cardinality(Busy) <= 1
  BY <1>1, <1>2, FS_Subset
<1>4. Upgrade!Cardinality(Busy) = Cardinality(Busy)
  BY DEF Upgrade!Cardinality, Cardinality
<1> QED
  BY <1>3, <1>4 DEF Busy, Upgrade!UpgradeInvariant, Upgrade!OpenMeansCurrent

-----------------------------------------------------------------------------
\* FilesAreSound: for any writers, readers and openers, whatever call fails and
\* whichever process is killed, protect_token loses no credential and tears
\* one only against another writer, and no opener sees a half-made database.
THEOREM FilesAreSound == Spec => []FilesSound
<1> DEFINE Inv == /\ component = "credential" => Credential!CredentialInvariant
                  /\ component = "upgrade" => Upgrade!UpgradeInvariant
<1>1. Init => Inv
  BY CredentialInit, UpgradeInit DEF Init
<1>2. Inv /\ [Next]_vars => Inv'
  <2> SUFFICES ASSUME Inv, [Next]_vars PROVE Inv'
    OBVIOUS
  <2>1. ASSUME component' = "credential" PROVE Credential!CredentialInvariant'
    <3>1. CASE Next
      <4>1. component = "credential" /\ Credential!Next
        BY <2>1, <3>1 DEF Next
      <4> QED
        BY <4>1, CredentialStep
    <3>2. CASE UNCHANGED vars
      <4>1. component = "credential" /\ UNCHANGED credentialVars
        BY <2>1, <3>2 DEF vars
      <4> QED
        BY <4>1
           DEF credentialVars, Credential!CredentialInvariant,
               Credential!TypeOK, Credential!OneWriter,
               Credential!FilePrepared, Credential!ReaderAtWork,
               Credential!NeverLost, Credential!TornOnlyByOverlap,
               Credential!ReaderSound, Credential!SecretsPrivate
    <3> QED
      BY <3>1, <3>2
  <2>2. ASSUME component' = "upgrade" PROVE Upgrade!UpgradeInvariant'
    <3>1. CASE Next
      <4>1. component = "upgrade" /\ Upgrade!Next
        BY <2>2, <3>1 DEF Next
      <4> QED
        BY <4>1, UpgradeStep
    <3>2. CASE UNCHANGED vars
      <4>1. component = "upgrade" /\ UNCHANGED upgradeVars
        BY <2>2, <3>2 DEF vars
      <4> QED
        BY <4>1
           DEF upgradeVars, Upgrade!UpgradeInvariant, Upgrade!TypeOK,
               Upgrade!TransactionSoFar, Upgrade!VersionRead,
               Upgrade!Changing, Upgrade!VersionMatchesTables,
               Upgrade!PausesCarried
    <3> QED
      BY <3>1, <3>2
  <2> QED
    BY <2>1, <2>2
<1>3. Inv => FilesSound
  BY OneUpgrader
     DEF FilesSound, Credential!CredentialInvariant, Upgrade!UpgradeInvariant
<1> QED
  BY <1>1, <1>2, <1>3, PTL DEF Spec

-----------------------------------------------------------------------------
(* ModelBinding                                                            *)

\* A step of a process, or an exchange of files, keeps what binds the process
\* to the model it has hashed.
LEMMA BindingStep ==
  ASSUME Binding!BoundSoFar, Binding!Next
  PROVE  Binding!BoundSoFar' /\ Binding!GalleryForModel
<1> USE DEF Binding!BoundSoFar, Binding!GalleryForModel, Binding!files
<1>1. ASSUME NEW c \in Binding!Configs, NEW what, NEW r0 \in BOOLEAN,
             Binding!Start(c, what, r0)
      PROVE  Binding!BoundSoFar' /\ Binding!GalleryForModel
  BY <1>1 DEF Binding!Start
<1>2. CASE Binding!HashModels
  BY <1>2 DEF Binding!HashModels, Binding!Exits
<1>3. CASE Binding!VerifyEvidence
  BY <1>3 DEF Binding!VerifyEvidence, Binding!Exits, Binding!To,
              Binding!verify_deployment_evidence
<1>4. CASE Binding!Describe
  BY <1>4 DEF Binding!Describe, Binding!Exits, Binding!To
<1>5. CASE Binding!LoadModels
  BY <1>5 DEF Binding!LoadModels
<1>6. CASE Binding!RefreshGallery
  BY <1>6 DEF Binding!RefreshGallery, Binding!compatible, Binding!Exits,
              Binding!To
<1>7. ASSUME NEW m \in Models, Binding!ImportGallery(m) \/ Binding!Sync(m)
      PROVE  Binding!BoundSoFar' /\ Binding!GalleryForModel
  BY <1>7 DEF Binding!ImportGallery, Binding!Sync, Binding!parse_gallery,
              Binding!Exits
<1>8. CASE Binding!Ends
  BY <1>8 DEF Binding!Ends, Binding!Exits
<1>9. CASE Binding!Exchange
  <2>1. /\ UNCHANGED <<gallery, binding_pc, command, config, hash, loaded,
                      matcher_model>>
        /\ stale' = stale \/ stale' = (stale \/ Binding!Unused)
    BY <1>9 DEF Binding!Exchange
  <2>2. \/ stale' = stale /\ arcface' = arcface /\ pad' = pad
        \/ stale' = (stale \/ Binding!Unused)
    BY <1>9 DEF Binding!Exchange
  <2>3. CASE stale' = stale /\ arcface' = arcface /\ pad' = pad
    BY <2>1, <2>3
  <2>4. CASE stale' = (stale \/ Binding!Unused)
    <3>1. stale' \in BOOLEAN /\ (~ stale' => ~ stale)
      BY <2>4
    <3>2. ~ stale' => binding_pc \notin
                        {"hashed", "import", "describe", "construct"}
      BY <2>4 DEF Binding!Unused
    <3>3. binding_pc \in {"off", "config"} => ~ stale'
      BY <2>4 DEF Binding!Unused
    <3> QED
      BY <2>1, <3>1, <3>2, <3>3
  <2> QED
    BY <2>2, <2>3, <2>4
<1>10. CASE Binding!ImportElsewhere
  BY <1>10 DEF Binding!ImportElsewhere
<1> QED
  BY <1>1, <1>2, <1>3, <1>4, <1>5, <1>6, <1>7, <1>8, <1>9, <1>10
     DEF Binding!Next, Binding!Process

\* ModelsAreSound: with files exchanged and galleries imported at any time, the
\* matcher holds a gallery of the model that embeds the faces, a deployment
\* runs what its calibration names, and the stored gallery is only replaced
\* by one for an active model.
THEOREM ModelsAreSound == Spec => ModelsSound
<1> DEFINE Inv == component = "binding" => Binding!BoundSoFar
           Safe == component = "binding" =>
                     Binding!SameModel /\ Binding!EvidenceHolds
<1>1. Init => Inv
  BY DEF Init, Binding!Init, Binding!BoundSoFar
<1>2. Inv /\ [Next]_vars => Inv'
  <2> SUFFICES ASSUME Inv, [Next]_vars, component' = "binding"
               PROVE  Binding!BoundSoFar'
    OBVIOUS
  <2>1. CASE Next
    BY <2>1, BindingStep DEF Next
  <2>2. CASE UNCHANGED vars
    BY <2>2 DEF vars, bindingVars, Binding!BoundSoFar
  <2> QED
    BY <2>1, <2>2
<1>3. Inv => Safe
  BY DEF Binding!BoundSoFar, Binding!SameModel, Binding!EvidenceHolds,
         Binding!load_config, Binding!validate_attendance_config
<1>4. Inv /\ [Next]_vars =>
        [component = "binding" => Binding!GalleryForModel]_vars
  BY BindingStep DEF Next
<1> QED
  BY <1>1, <1>2, <1>3, <1>4, PTL DEF Spec, ModelsSound

================================================================================
