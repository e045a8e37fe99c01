----------------------- MODULE RetailDiagnosticProofs -----------------------
(***************************************************************************)
(* The retail diagnostic for every set of identifiers, ceilings, boundaries *)
(* and every channel capacity.  The session was proved correct against a    *)
(* worker that may do anything; the real worker is one of those, so what     *)
(* was proved of the session holds here and is used for the rest.            *)
(***************************************************************************)
EXTENDS RetailDiagnostic, GuestWorkerSessionProofs

\* What the worker ever sends about an artifact.
SentFrames(a) == {ReadyFrame, diagnostic_from_preflight(a), StopAfterDiagnostic(a)}

\* A running worker has its channel open; past bind it has armed its death signal.
LifetimeInv ==
    /\ artifact \in Artifacts
    /\ pc = "start" => child = "none"
    /\ child = "running" => workerEnd = "open" /\ wpc # "none"
    /\ child = "running" /\ wpc # "bind" => armed
    /\ NoOrphanWork

\* What the controller accepted is what the worker sent, and what is printed is it.
ReportInv ==
    /\ fromWorker \in Seq(SentFrames(artifact))
    /\ terminal \in {NoMessage, diagnostic_from_preflight(artifact)}
    /\ stop \in {NoMessage, StopAfterDiagnostic(artifact)}
    /\ exitCode = 0 => terminal = diagnostic_from_preflight(artifact)
    /\ exitCode # 6

RetailInv == Inv /\ LifetimeInv /\ ReportInv
-----------------------------------------------------------------------------
\* Every frame of the worker is one the session was verified against.
LEMMA SentFramesAdmitted == \A a : SentFrames(a) \subseteq WorkerFrames
  <1> SUFFICES ASSUME NEW a PROVE SentFrames(a) \subseteq WorkerFrames
    OBVIOUS
  <1>1. ReadyFrame \in WorkerFrames
    BY RetailAssumption DEF ReadyFrame, NoMessage, WorkerFrames
  <1>2. preflight_boundary(a) \in DiagnosticKinds
    BY RetailAssumption DEF preflight_boundary, Boundaries
  <1>3. (IF a.loads THEN Entry ELSE 0) \in Rips
    BY RetailAssumption, IdentifiersAssumption
  <1>4. diagnostic_from_preflight(a) \in WorkerFrames
    BY <1>2, <1>3, RetailAssumption DEF diagnostic_from_preflight, WorkerFrames
  <1>5. StopAfterDiagnostic(a) \in WorkerFrames
    BY <1>3, RetailAssumption
    DEF StopAfterDiagnostic, diagnostic_from_preflight, WorkerFrames, TypedStopReasons
  <1> QED
    BY <1>1, <1>4, <1>5 DEF SentFrames

\* An early return of the worker is an exit the session allows.
LEMMA ExitAdmitted ==
    ASSUME child = "running", NEW code \in {0} \cup 71 .. 81, Exit(code)
    PROVE  WorkerExits
  BY RetailAssumption DEF Exit, WorkerExits

\* A write of the worker is a send, or an exit when the controller is gone.
LEMMA WriteAdmitted ==
    ASSUME child = "running", workerEnd = "open",
           NEW frame \in SentFrames(artifact), NEW next, Write(frame, next)
    PROVE  WorkerSend \/ WorkerExits
  <1>1. CASE ~alive /\ Exit(IF wpc = "send_ready" THEN 75 ELSE 79)
    BY <1>1, ExitAdmitted
  <1>2. CASE alive /\ fromWorker' = Append(fromWorker, frame)
    BY <1>2, SentFramesAdmitted DEF Write, WorkerSend, Exit, osVars
  <1> QED
    BY <1>1, <1>2 DEF Write

\* A read of the worker is a receive or an exit.
LEMMA ReadAdmitted ==
    ASSUME child = "running", workerEnd = "open", NEW kind, NEW next,
           NEW eofCode \in 71 .. 81, NEW badCode \in 71 .. 81,
           Read(kind, next, eofCode, badCode)
    PROVE  WorkerReceive \/ WorkerExits
  <1>1. CASE Exit(badCode) \/ Exit(eofCode)
    BY <1>1, ExitAdmitted
  <1>2. CASE toWorker # << >> /\ Accepts(kind, Head(toWorker)) /\ ~Exit(eofCode)
    BY <1>2 DEF Read, WorkerReceive, osVars
  <1> QED
    BY <1>1, <1>2 DEF Read

\* Every step of the command, the worker and the kernel is a step of the session.
LEMMA RetailStepAdmitted ==
    ASSUME LifetimeInv, [RetailNext]_allVars
    PROVE  [Next]_vars
  <1>1. CASE CommandFails \/ ReportResult \/ ControllerDies \/ Over \/ UNCHANGED allVars
    BY <1>1 DEF CommandFails, ReportResult, ControllerDies, Over, allVars
  <1>2. CASE ControllerStep \/ SessionFault
    BY <1>2 DEF ControllerStep, SessionFault, Next
  <1>3. CASE WorkerHostFails
    <2>1. WorkerExits
      BY <1>3, ExitAdmitted DEF WorkerHostFails
    <2> QED
      BY <2>1 DEF Next, Worker
  <1>4. CASE WorkerKilled
    <2>1. WorkerExits
      BY <1>4 DEF WorkerKilled, WorkerExits
    <2> QED
      BY <2>1 DEF Next, Worker
  <1>5. CASE WorkerStep
    <2> child = "running" /\ workerEnd = "open"
      BY <1>5 DEF WorkerStep, LifetimeInv
    <2>1. CASE ArmDeathSignal \/ ReadArtifact
      BY <2>1 DEF ArmDeathSignal, ReadArtifact, Goto
    <2>2. CASE CheckParent \/ ChooseStack \/ Finished
      <3>1. WorkerExits \/ UNCHANGED vars
        BY <2>2, ExitAdmitted DEF CheckParent, ChooseStack, Finished, Goto
      <3> QED
        BY <3>1 DEF Next, Worker
    <2>3. CASE AwaitHello \/ AwaitRun \/ AwaitTerminate
      <3>1. WorkerReceive \/ WorkerExits
        BY <2>3, ReadAdmitted DEF AwaitHello, AwaitRun, AwaitTerminate
      <3> QED
        BY <3>1 DEF Next, Worker
    <2>4. CASE SendReady \/ SendDiagnostic \/ SendStop
      <3>1. WorkerSend \/ WorkerExits
        BY <2>4, WriteAdmitted DEF SendReady, SendDiagnostic, SendStop, SentFrames
      <3> QED
        BY <3>1 DEF Next, Worker
    <2> QED
      BY <1>5, <2>1, <2>2, <2>3, <2>4 DEF WorkerStep
  <1> QED
    BY <1>1, <1>2, <1>3, <1>4, <1>5 DEF RetailNext
-----------------------------------------------------------------------------
\* What a controller step leaves of the worker's process.
LEMMA ControllerLifetime ==
    ASSUME TypeOK, LifetimeInv, Controller
    PROVE  /\ pc' # "start"
           /\ child' = "running" => workerEnd' = "open"
           /\ child' = "running" => child = "running" \/ child = "none"
  <1> USE DEF LifetimeInv, TypeOK, osVars, Fail
  <1>1. CASE Launch
    BY <1>1 DEF Launch, RejectConfig, LaunchFails, Spawn, OpenPidfd, ApplyLimit, Launched
  <1>2. CASE SendHello \/ SendRun \/ SendResult \/ SendTerminate \/ SendFails \/ ReceiveFails
    BY <1>2 DEF SendHello, SendRun, SendResult, SendTerminate, Send, SendFails,
                ReceiveFails, SendPoints, ReceivePoints
  <1>3. CASE ReceiveReady \/ ReceiveStop \/ ReceiveTerminal \/ ReceiveSyscall
             \/ ServiceReturns
    BY <1>3 DEF ReceiveReady, ReceiveStop, ReceiveTerminal, ReceiveSyscall, ServiceReturns
  <1>4. CASE Finish
    BY <1>4 DEF Finish, ReapExited, WaitTimesOut, UnwindReleased, KillChild, ReapKilled
  <1> QED
    BY <1>1, <1>2, <1>3, <1>4 DEF Controller, Exchange

\* Worker and kernel steps keep the lifetime invariant, and so does a death of
\* the controller at any moment.
LEMMA LifetimeStep ==
    ASSUME TypeOK, LifetimeInv, [RetailNext]_allVars
    PROVE  LifetimeInv'
  <1> USE DEF LifetimeInv, NoOrphanWork, TypeOK, workerVars
  <1>1. CASE CommandFails \/ ReportResult \/ ControllerDies \/ Over \/ UNCHANGED allVars
    BY <1>1 DEF CommandFails, ReportResult, ControllerDies, Over, allVars, vars, osVars
  <1>2. CASE ControllerStep
    BY <1>2, ControllerLifetime DEF ControllerStep
  <1>3. CASE SessionFault
    BY <1>3 DEF SessionFault, HostFails, WaitFindsNoChild, DeadlinePasses, Fail, osVars
  <1>4. CASE WorkerHostFails
    BY <1>4 DEF WorkerHostFails, Exit
  <1>5. CASE WorkerKilled
    BY <1>5 DEF WorkerKilled
  <1>6. CASE WorkerStep
    <2> child = "running" /\ UNCHANGED <<alive, faulted, exitCode>>
      BY <1>6 DEF WorkerStep
    <2>1. CASE ArmDeathSignal \/ CheckParent \/ ReadArtifact \/ ChooseStack \/ Finished
      BY <2>1 DEF ArmDeathSignal, CheckParent, ReadArtifact, ChooseStack, Finished,
                  Goto, Exit, vars, osVars
    <2>2. CASE AwaitHello \/ AwaitRun \/ AwaitTerminate
      BY <2>2 DEF AwaitHello, AwaitRun, AwaitTerminate, Read, Exit, osVars
    <2>3. CASE SendReady \/ SendDiagnostic \/ SendStop
      BY <2>3 DEF SendReady, SendDiagnostic, SendStop, Write, Exit, osVars
    <2> QED
      BY <1>6, <2>1, <2>2, <2>3 DEF WorkerStep
  <1> QED
    BY <1>1, <1>2, <1>3, <1>4, <1>5, <1>6 DEF RetailNext

\* The controller takes frames only from the channel, and keeps the ones it
\* accepted as they were sent.
LEMMA ControllerReport ==
    ASSUME TypeOK, ReportInv, Controller, artifact' = artifact
    PROVE  /\ fromWorker' \in Seq(SentFrames(artifact))
           /\ terminal' \in {NoMessage, diagnostic_from_preflight(artifact)}
           /\ stop' \in {NoMessage, StopAfterDiagnostic(artifact)}
  <1> USE DEF ReportInv, channelVars, sessionVars
  <1>1. CASE Launch \/ Finish
    BY <1>1 DEF Launch, RejectConfig, LaunchFails, Spawn, OpenPidfd, ApplyLimit, Launched,
                Finish, ReapExited, WaitTimesOut, UnwindReleased, KillChild, ReapKilled
  <1>2. CASE SendHello \/ SendRun \/ SendResult \/ SendTerminate \/ SendFails
             \/ ReceiveFails \/ ServiceReturns
    BY <1>2 DEF SendHello, SendRun, SendResult, SendTerminate, SendFails, ReceiveFails,
                ServiceReturns
  <1>3. ASSUME Receive
        PROVE  /\ Head(fromWorker) \in SentFrames(artifact)
               /\ fromWorker' \in Seq(SentFrames(artifact))
    BY <1>3 DEF Receive
  <1>4. ReadyFrame.kind = "ready"
    BY DEF ReadyFrame, NoMessage
  <1>5. diagnostic_from_preflight(artifact).kind = "diagnostic"
    BY DEF diagnostic_from_preflight
  <1>6. StopAfterDiagnostic(artifact).kind = "stop"
    BY DEF StopAfterDiagnostic, diagnostic_from_preflight
  <1>7. CASE ReceiveReady \/ ReceiveSyscall
    BY <1>3, <1>7 DEF ReceiveReady, ReceiveSyscall
  <1>8. CASE ReceiveStop
    BY <1>3, <1>4, <1>5, <1>8 DEF ReceiveStop, SentFrames
  <1>9. CASE ReceiveTerminal
    BY <1>3, <1>4, <1>6, <1>9 DEF ReceiveTerminal, SentFrames
  <1> QED
    BY <1>1, <1>2, <1>7, <1>8, <1>9 DEF Controller, Exchange

\* The exit code is given once, and success is printed with a typed boundary.
LEMMA ReportStep ==
    ASSUME Inv, LifetimeInv, ReportInv, [RetailNext]_allVars
    PROVE  ReportInv'
  <1> USE DEF ReportInv, workerVars
  <1>1. CASE CommandFails \/ ControllerDies \/ Over \/ UNCHANGED allVars
    BY <1>1 DEF CommandFails, ControllerDies, Over, allVars, vars, channelVars, sessionVars
  <1>2. CASE ReportResult
    <2> UNCHANGED <<fromWorker, terminal, stop, artifact>>
      BY <1>2 DEF ReportResult, vars, channelVars, sessionVars
    <2>1. ASSUME result = "success"
          PROVE  terminal = diagnostic_from_preflight(artifact) /\ terminal.kind = "diagnostic"
      <3>1. stop.kind = "stop" /\ (stop.detail \in TypedStopReasons <=> terminal.kind # "none")
        BY <2>1 DEF Inv, EvidenceInv, StopAccepted
      <3>2. stop = StopAfterDiagnostic(artifact)
        BY <3>1 DEF NoMessage
      <3>3. stop.detail = "diagnostic_boundary"
        BY <3>2 DEF StopAfterDiagnostic, diagnostic_from_preflight
      <3> QED
        BY <3>1, <3>3 DEF TypedStopReasons, NoMessage, diagnostic_from_preflight
    <2> QED
      BY <1>2, <2>1 DEF ReportResult
  <1>3. CASE ControllerStep
    BY <1>3, ControllerReport DEF ControllerStep, Inv
  <1>4. CASE SessionFault
    BY <1>4 DEF SessionFault, HostFails, WaitFindsNoChild, DeadlinePasses, Fail, channelVars, sessionVars
  <1>5. CASE WorkerHostFails \/ WorkerKilled
    BY <1>5 DEF WorkerHostFails, WorkerKilled, Exit, channelVars, sessionVars
  <1>6. CASE WorkerStep
    <2> UNCHANGED exitCode
      BY <1>6 DEF WorkerStep
    <2>1. CASE ArmDeathSignal \/ CheckParent \/ ReadArtifact \/ ChooseStack \/ Finished
      BY <2>1 DEF ArmDeathSignal, CheckParent, ReadArtifact, ChooseStack, Finished,
                  Goto, Exit, vars, channelVars, sessionVars
    <2>2. CASE AwaitHello \/ AwaitRun \/ AwaitTerminate
      BY <2>2 DEF AwaitHello, AwaitRun, AwaitTerminate, Read, Exit, channelVars, sessionVars
    <2>3. CASE SendReady \/ SendDiagnostic \/ SendStop
      <3>1. PICK frame \in SentFrames(artifact) : \E next : Write(frame, next)
        BY <2>3 DEF SendReady, SendDiagnostic, SendStop, SentFrames
      <3> QED
        BY <3>1 DEF Write, Exit, channelVars, sessionVars
    <2> QED
      BY <1>6, <2>1, <2>2, <2>3 DEF WorkerStep
  <1> QED
    BY <1>1, <1>2, <1>3, <1>4, <1>5, <1>6 DEF RetailNext

\* The invariant holds when the command starts.
LEMMA RetailInitially == RetailInit => RetailInv
  BY Initially
  DEF RetailInit, Init, RetailInv, LifetimeInv, ReportInv, NoOrphanWork

\* The session's invariant and the command's are kept together.
LEMMA RetailInvariance == RetailSpec => []RetailInv
  <1>1. RetailInv /\ [RetailNext]_allVars => RetailInv'
    <2> SUFFICES ASSUME RetailInv, [RetailNext]_allVars PROVE RetailInv'
      OBVIOUS
    <2>1. [Next]_vars
      BY RetailStepAdmitted DEF RetailInv
    <2>2. Inv'
      BY <2>1, TypeStep, Inductive DEF RetailInv, Inv
    <2> QED
      BY <2>2, LifetimeStep, ReportStep DEF RetailInv, Inv
  <1> QED
    BY RetailInitially, <1>1, PTL DEF RetailSpec
-----------------------------------------------------------------------------
\* bind_worker_lifetime_to_controller: whenever the controller dies, a worker that
\* got past the check of its parent has the death signal on its way.
THEOREM RetailLeavesNoOrphanWork == RetailSpec => []NoOrphanWork
  <1>1. RetailInv => NoOrphanWork
    BY DEF RetailInv, LifetimeInv
  <1> QED
    BY RetailInvariance, <1>1, PTL

\* What run_linux_retail_diagnostic prints is the first unmet requirement of the
\* artifact, and it never ends in success without a boundary to print.
THEOREM RetailPrintsFirstBoundary == RetailSpec => []PrintedBoundaryIsFirst
  <1>1. RetailInv => PrintedBoundaryIsFirst
    <2> SUFFICES ASSUME RetailInv, exitCode = 0
                 PROVE  \E i \in DOMAIN Requirements(artifact) :
                           /\ ~Requirements(artifact)[i].met
                           /\ terminal.detail = Requirements(artifact)[i].boundary
                           /\ \A j \in 1..(i - 1) : Requirements(artifact)[j].met
      BY DEF RetailInv, ReportInv, PrintedBoundaryIsFirst
    <2>1. terminal.detail = preflight_boundary(artifact)
      BY DEF RetailInv, ReportInv, diagnostic_from_preflight
    <2> DEFINE r == Requirements(artifact)
    <2>2. /\ DOMAIN r = 1 .. 7 /\ ~r[7].met
          /\ r[1].met = artifact.loads /\ r[2].met = artifact.executable
          /\ r[3].met = artifact.metadata /\ r[4].met = ~artifact.dependencies
          /\ r[5].met = ~artifact.relocations /\ r[6].met = ~artifact.tls
      BY DEF Requirements
    <2>3. /\ r[1].boundary = "loader_rejected" /\ r[2].boundary = "entry_not_executable"
          /\ r[3].boundary = "sce_dynamic_metadata_rejected"
          /\ r[4].boundary = "unsupported_dynamic_dependencies"
          /\ r[5].boundary = "unsupported_relocations" /\ r[6].boundary = "unsupported_tls"
          /\ r[7].boundary = "unsupported_initial_process_abi"
      BY DEF Requirements
    <2> HIDE DEF r
    <2>4. ASSUME NEW i \in 1 .. 7, ~r[i].met, \A j \in 1..(i - 1) : r[j].met
          PROVE  terminal.detail = r[i].boundary
      <3>1. i = 1 \/ i = 2 \/ i = 3 \/ i = 4 \/ i = 5 \/ i = 6 \/ i = 7
        OBVIOUS
      <3>2. CASE i = 1
        <4>1. ~r[1].met
          BY <2>4, <3>2
        <4> QED
          BY <2>1, <2>2, <2>3, <3>2, <4>1 DEF preflight_boundary
      <3>3. CASE i = 2
        <4>1. ~r[2].met /\ r[1].met
          BY <2>4, <3>3
        <4> QED
          BY <2>1, <2>2, <2>3, <3>3, <4>1 DEF preflight_boundary
      <3>4. CASE i = 3
        <4>1. ~r[3].met /\ r[1].met /\ r[2].met
          BY <2>4, <3>4
        <4> QED
          BY <2>1, <2>2, <2>3, <3>4, <4>1 DEF preflight_boundary
      <3>5. CASE i = 4
        <4>1. ~r[4].met /\ r[1].met /\ r[2].met /\ r[3].met
          BY <2>4, <3>5
        <4> QED
          BY <2>1, <2>2, <2>3, <3>5, <4>1 DEF preflight_boundary
      <3>6. CASE i = 5
        <4>1. ~r[5].met /\ r[1].met /\ r[2].met /\ r[3].met /\ r[4].met
          BY <2>4, <3>6
        <4> QED
          BY <2>1, <2>2, <2>3, <3>6, <4>1 DEF preflight_boundary
      <3>7. CASE i = 6
        <4>1. ~r[6].met /\ r[1].met /\ r[2].met /\ r[3].met /\ r[4].met /\ r[5].met
          BY <2>4, <3>7
        <4> QED
          BY <2>1, <2>2, <2>3, <3>7, <4>1 DEF preflight_boundary
      <3>8. CASE i = 7
        <4>1. ~r[7].met /\ r[1].met /\ r[2].met /\ r[3].met /\ r[4].met /\ r[5].met /\ r[6].met
          BY <2>4, <3>8
        <4> QED
          BY <2>1, <2>2, <2>3, <3>8, <4>1 DEF preflight_boundary
      <3> QED
        BY <3>1, <3>2, <3>3, <3>4, <3>5, <3>6, <3>7, <3>8
    <2>5. \E i \in 1 .. 7 : ~r[i].met /\ \A j \in 1..(i - 1) : r[j].met
      <3>1. CASE ~r[1].met
        BY <3>1
      <3>2. CASE r[1].met /\ ~r[2].met
        BY <3>2
      <3>3. CASE r[1].met /\ r[2].met /\ ~r[3].met
        BY <3>3
      <3>4. CASE r[1].met /\ r[2].met /\ r[3].met /\ ~r[4].met
        BY <3>4
      <3>5. CASE r[1].met /\ r[2].met /\ r[3].met /\ r[4].met /\ ~r[5].met
        BY <3>5
      <3>6. CASE r[1].met /\ r[2].met /\ r[3].met /\ r[4].met /\ r[5].met /\ ~r[6].met
        BY <3>6
      <3>7. CASE r[1].met /\ r[2].met /\ r[3].met /\ r[4].met /\ r[5].met /\ r[6].met
        BY <2>2, <3>7
      <3> QED
        BY <3>1, <3>2, <3>3, <3>4, <3>5, <3>6, <3>7
    <2> QED
      BY <2>2, <2>4, <2>5 DEF r
  <1> QED
    BY RetailInvariance, <1>1, PTL

\* Nothing the session promises is lost when the worker is the real one: when the
\* call has returned, by whatever path, no worker process is left.
THEOREM RetailLeavesNoOrphan == RetailSpec => []NoOrphan
  <1>1. RetailInv => NoOrphan
    BY DEF RetailInv, Inv, OwnershipInv, NoOrphan, TypeOK
  <1> QED
    BY RetailInvariance, <1>1, PTL
=============================================================================
