---------------------- MODULE GuestWorkerSessionProofs ----------------------
(***************************************************************************)
(* Machine-checked proofs about GuestWorkerSession, for every choice of    *)
(* identifiers, limits, exit codes, request bound and channel capacity.    *)
(***************************************************************************)
EXTENDS GuestWorkerSession, SequenceTheorems, TLAPS

LEMMA NoMessageType == NoMessage \in Message
  BY IdentifiersAssumption DEF NoMessage, Message, MessageKinds, Details

LEMMA FrameType ==
  ASSUME NEW kind \in MessageKinds, NEW detail \in Details
  PROVE  Frame(kind, detail) \in Message
  BY NoMessageType DEF Frame, NoMessage, Message

LEMMA WorkerFrameType == WorkerFrames \subseteq Message
  BY IdentifiersAssumption, FrameType
  DEF WorkerFrames, Message, MessageKinds, Details, TypedStopReasons

LEMMA VerdictType ==
  ASSUME NEW m
  PROVE  /\ ReadyVerdict(m) \in ErrorCodes \cup {"ok"}
         /\ StopVerdict(m) \in ErrorCodes \cup {"ok"}
         /\ TerminalVerdict(m) \in ErrorCodes \cup {"ok"}
         /\ SyscallVerdict(m) \in ErrorCodes \cup {"ok"}
  BY DEF ReadyVerdict, StopVerdict, TerminalVerdict, SyscallVerdict, ErrorCodes, IoErrors

LEMMA TypeInit == Init => TypeOK
<1> SUFFICES ASSUME Init PROVE TypeOK
  OBVIOUS
<1>1. [how |-> "none", code |-> 0] \in WaitStatus
  BY DEF WaitStatus
<1>2. << >> \in Seq(Message)
  OBVIOUS
<1> QED BY <1>1, <1>2, NoMessageType DEF Init, TypeOK, ControlPoints

LEMMA TypeStep == TypeOK /\ [Next]_vars => TypeOK'
<1> SUFFICES ASSUME TypeOK, [Next]_vars PROVE TypeOK'
  OBVIOUS
<1> USE DEF TypeOK, ControlPoints, SendPoints, ReceivePoints, Fail, osVars,
            channelVars, sessionVars
<1>1. CASE RejectConfig
  BY <1>1 DEF RejectConfig, ErrorCodes
<1>2. CASE LaunchFails
  BY <1>2 DEF LaunchFails, ErrorCodes
<1>3. CASE Spawn
  BY <1>3 DEF Spawn
<1>4. CASE OpenPidfd
  BY <1>4 DEF OpenPidfd
<1>5. CASE ApplyLimit
  BY <1>5 DEF ApplyLimit, Configs
<1>6. CASE Launched
  BY <1>6 DEF Launched
<1>7. CASE SendHello
  <2>1. Frame("hello", "supported") \in Message
    BY FrameType DEF MessageKinds, Details
  <2> QED BY <1>7, <2>1 DEF SendHello, Send
<1>8. CASE ReceiveReady
  BY <1>8, VerdictType DEF ReceiveReady, Receive
<1>9. CASE SendRun
  <2>1. Frame("run_request", "none") \in Message
    BY FrameType DEF MessageKinds, Details
  <2> QED BY <1>9, <2>1 DEF SendRun, Send
<1>10. CASE ReceiveStop
  BY <1>10, VerdictType DEF ReceiveStop, Receive
<1>11. CASE ReceiveTerminal
  BY <1>11, VerdictType DEF ReceiveTerminal, Receive
<1>12. CASE ReceiveSyscall
  BY <1>12, VerdictType DEF ReceiveSyscall, Receive
<1>13. CASE ServiceReturns
  BY <1>13 DEF ServiceReturns, ErrorCodes
<1>14. CASE SendResult
  <2>1. [request EXCEPT !.kind = "syscall_result"] \in Message
    BY DEF Message, MessageKinds
  <2> QED BY <1>14, <2>1, NoMessageType DEF SendResult, Send
<1>15. CASE SendTerminate
  <2>1. Frame("terminate", TerminationReason) \in Message
    BY FrameType DEF MessageKinds, Details, TerminationReason, TerminationReasons
  <2> QED BY <1>15, <2>1 DEF SendTerminate, Send
<1>16. CASE SendFails
  BY <1>16 DEF SendFails, ErrorCodes
<1>17. CASE ReceiveFails
  BY <1>17 DEF ReceiveFails, ErrorCodes
<1>18. CASE ReapExited
  BY <1>18 DEF ReapExited, ErrorCodes
<1>19. CASE WaitTimesOut
  BY <1>19 DEF WaitTimesOut, ErrorCodes, IoErrors
<1>20. CASE HostFails
  <2>1. HostErrors(pc) \subseteq ErrorCodes
    BY DEF HostErrors, ErrorCodes, IoErrors
  <2> QED BY <1>20, <2>1 DEF HostFails
<1>21. CASE UnwindReleased
  BY <1>21 DEF UnwindReleased
<1>22. CASE KillChild
  BY <1>22 DEF KillChild
<1>23. CASE ReapKilled
  BY <1>23 DEF ReapKilled
<1>24. CASE WorkerSend
  BY <1>24, WorkerFrameType DEF WorkerSend
<1>25. CASE WorkerReceive
  BY <1>25 DEF WorkerReceive
<1>26. CASE WorkerCloses
  BY <1>26 DEF WorkerCloses
<1>27. CASE WorkerExits
  BY <1>27 DEF WorkerExits, WaitStatus
<1>28. CASE ChildDies
  BY <1>28 DEF ChildDies, WaitStatus
<1>29. CASE DeadlinePasses
  BY <1>29 DEF DeadlinePasses
<1>30. CASE UNCHANGED vars
  BY <1>30 DEF vars
<1>31. CASE WaitFindsNoChild
  BY <1>31 DEF WaitFindsNoChild, ErrorCodes
<1> QED
  BY <1>1, <1>2, <1>3, <1>4, <1>5, <1>6, <1>7, <1>8, <1>9, <1>10, <1>11,
     <1>12, <1>13, <1>14, <1>15, <1>16, <1>17, <1>18, <1>19, <1>20, <1>21,
     <1>22, <1>23, <1>24, <1>25, <1>26, <1>27, <1>28, <1>29, <1>30, <1>31
  DEF Next, Controller, Launch, Exchange, Finish, Worker, Returned

\* Every variable keeps its type: in particular every message the controller
\* stores or sends is a well-formed Message.
THEOREM TypeCorrect == Spec => []TypeOK
  BY TypeInit, TypeStep, PTL DEF Spec
-----------------------------------------------------------------------------
(***************************************************************************)
(* The inductive invariant.  Ownership ties the ChildGuard to the kernel's *)
(* view of the child; Evidence says what has been accepted at each control *)
(* point; Service counts calls against completed exchanges.                *)
(***************************************************************************)

Supervised == {"identify", "policy", "service", "wait_child", "reap"}
                 \cup SendPoints \cup ReceivePoints
Ending == {"unwind", "reap", "returned"}
AfterLaunch == {"service", "wait_child"} \cup SendPoints \cup ReceivePoints
AfterReady == {"send_run", "loop", "service", "send_result", "send_terminate",
               "wait_child"}

OwnershipInv ==
    /\ guard <=> child \in {"running", "zombie"}
    /\ pc \in {"start", "returned"} => ~guard
    /\ pc \in Supervised => guard
    /\ killed => pc \in {"reap", "returned"}

ReadyAccepted == ready.kind = "ready" /\ ready.detail = "supported"

TerminalInv ==
    /\ pc \in {"start", "identify", "policy", "send_hello", "await_ready", "send_run"}
          => terminal.kind = "none"
    /\ terminal.kind # "none" => terminal.worker = ready.worker /\ terminal.thread # 0

StopAccepted ==
    /\ stop.kind = "stop" /\ stop.worker = ready.worker
    /\ stop.detail \in TypedStopReasons <=> terminal.kind # "none"
    /\ terminal.kind # "none" =>
          /\ stop.detail = TypedReasonOf(terminal.kind)
          /\ stop.thread = terminal.thread
          /\ stop.rip = terminal.rip

EvidenceInv ==
    /\ pc \notin Ending => result = "none"
    /\ pc \in AfterReady => ReadyAccepted
    /\ pc \in {"send_terminate", "wait_child"} => StopAccepted
    /\ result = "success" =>
          /\ ReadyAccepted /\ StopAccepted /\ ~guard
          /\ status = [how |-> "exited", code |-> 0]
          /\ child = "reaped" /\ ~killed

CeilingsInv == pc \in AfterLaunch => config.limits \subseteq installed

ServiceInv ==
    /\ calls <= config.max /\ count <= calls /\ calls <= count + 1
    /\ pc \in {"service", "send_result"} =>
          /\ calls = count + 1
          /\ terminal.kind = "none" /\ config.service
          /\ request.worker = ready.worker
          /\ 0 \notin {request.request, request.thread, request.rip}
    /\ pc \notin {"service", "send_result"} \cup Ending => calls = count

Inv == TypeOK /\ OwnershipInv /\ TerminalInv /\ EvidenceInv /\ CeilingsInv /\ ServiceInv

LEMMA Inductive ==
  ASSUME Inv, TypeOK', [Next]_vars
  PROVE  Inv'
<1> USE DEF Inv, OwnershipInv, TerminalInv, EvidenceInv, CeilingsInv, ServiceInv,
            StopAccepted, ReadyAccepted, Supervised, Ending, AfterLaunch, AfterReady,
            SendPoints, ReceivePoints, Fail, osVars, channelVars, sessionVars
<1>1. CASE RejectConfig
  BY <1>1 DEF RejectConfig
<1>2. CASE LaunchFails
  BY <1>2 DEF LaunchFails
<1>3. CASE Spawn
  BY <1>3 DEF Spawn
<1>4. CASE OpenPidfd
  BY <1>4 DEF OpenPidfd
<1>5. CASE ApplyLimit
  BY <1>5 DEF ApplyLimit
<1>6. CASE Launched
  BY <1>6 DEF Launched
<1>7. CASE SendHello
  BY <1>7 DEF SendHello, Send
<1>8. CASE ReceiveReady
  BY <1>8 DEF ReceiveReady, Receive, ReadyVerdict
<1>9. CASE SendRun
  BY <1>9 DEF SendRun, Send
<1>10. CASE ReceiveStop
  <2> DEFINE m == Head(fromWorker)
  <2>1. CASE StopVerdict(m) = "ok"
    <3>1. /\ m.worker = ready.worker
          /\ m.detail \in TypedStopReasons <=> terminal.kind # "none"
          /\ terminal.kind # "none" => MatchesTerminal(m)
      BY <2>1 DEF StopVerdict, MatchesTerminal, TypedReasonOf, TypedStopReasons
    <3> QED BY <1>10, <2>1, <3>1 DEF ReceiveStop, Receive, MatchesTerminal
  <2>2. CASE StopVerdict(m) # "ok"
    BY <1>10, <2>2 DEF ReceiveStop, Receive, StopVerdict
  <2> QED BY <2>1, <2>2
<1>11. CASE ReceiveTerminal
  BY <1>11 DEF ReceiveTerminal, Receive, TerminalVerdict
<1>12. CASE ReceiveSyscall
  <2>1. /\ count \in Nat /\ calls \in Nat /\ config.max \in Nat
        /\ calls = count
    BY <1>12 DEF TypeOK, Configs, ReceiveSyscall
  <2>2. CASE SyscallVerdict(Head(fromWorker)) = "ok"
    <3>1. /\ count < config.max /\ config.service /\ terminal.kind = "none"
          /\ Head(fromWorker).worker = ready.worker
          /\ Head(fromWorker).request # 0 /\ Head(fromWorker).thread # 0
          /\ Head(fromWorker).rip # 0
      BY <2>1, <2>2 DEF SyscallVerdict
    <3> QED BY <1>12, <2>1, <2>2, <3>1 DEF ReceiveSyscall, Receive
  <2>3. CASE SyscallVerdict(Head(fromWorker)) # "ok"
    BY <1>12, <2>1, <2>3 DEF ReceiveSyscall, Receive, SyscallVerdict
  <2> QED BY <2>2, <2>3
<1>13. CASE ServiceReturns
  BY <1>13 DEF ServiceReturns
<1>14. CASE SendResult
  BY <1>14 DEF SendResult, Send, TypeOK
<1>15. CASE SendTerminate
  BY <1>15 DEF SendTerminate, Send
<1>16. CASE SendFails
  BY <1>16 DEF SendFails, IoErrors
<1>17. CASE ReceiveFails
  BY <1>17 DEF ReceiveFails, IoErrors
<1>18. CASE ReapExited
  BY <1>18 DEF ReapExited
<1>19. CASE WaitTimesOut
  BY <1>19 DEF WaitTimesOut
<1>20. CASE HostFails
  BY <1>20 DEF HostFails, HostErrors
<1>21. CASE UnwindReleased
  BY <1>21 DEF UnwindReleased
<1>22. CASE KillChild
  BY <1>22 DEF KillChild
<1>23. CASE ReapKilled
  BY <1>23 DEF ReapKilled
<1>24. CASE WorkerSend
  BY <1>24 DEF WorkerSend
<1>25. CASE WorkerReceive
  BY <1>25 DEF WorkerReceive
<1>26. CASE WorkerCloses
  BY <1>26 DEF WorkerCloses
<1>27. CASE WorkerExits
  BY <1>27 DEF WorkerExits
<1>28. CASE ChildDies
  BY <1>28 DEF ChildDies
<1>29. CASE DeadlinePasses
  BY <1>29 DEF DeadlinePasses
<1>30. CASE UNCHANGED vars
  BY <1>30 DEF vars
<1>31. CASE WaitFindsNoChild
  BY <1>31 DEF WaitFindsNoChild
<1> QED
  BY <1>1, <1>2, <1>3, <1>4, <1>5, <1>6, <1>7, <1>8, <1>9, <1>10, <1>11, <1>12,
     <1>13, <1>14, <1>15, <1>16, <1>17, <1>18, <1>19, <1>20, <1>21, <1>22, <1>23,
     <1>24, <1>25, <1>26, <1>27, <1>28, <1>29, <1>30, <1>31
  DEF Next, Controller, Launch, Exchange, Finish, Worker, Returned

LEMMA Initially == Init => Inv
  BY TypeInit
  DEF Init, Inv, OwnershipInv, TerminalInv, EvidenceInv, CeilingsInv, ServiceInv,
      Supervised, Ending, AfterLaunch, AfterReady, SendPoints, ReceivePoints,
      NoMessage, TypeOK, Configs

LEMMA Invariance == Spec => []Inv
<1>1. Inv /\ [Next]_vars => Inv'
  BY TypeStep, Inductive DEF Inv
<1> QED BY Initially, <1>1, PTL DEF Spec

\* Whatever the worker does and whichever host call fails, the session function
\* returns only when its child has been reaped.
THEOREM SessionLeavesNoOrphan == Spec => []NoOrphan
<1>1. Inv => NoOrphan
  BY DEF Inv, OwnershipInv, NoOrphan, TypeOK
<1> QED BY Invariance, <1>1, PTL

\* A success result always rests on the STOP of the READY worker, on the typed
\* terminal message when the reason needs one, and on a voluntary exit with code 0.
THEOREM SessionSuccessIsEvidence == Spec => []SuccessIsEvidence
<1>1. Inv => SuccessIsEvidence
  BY DEF Inv, EvidenceInv, TerminalInv, SuccessIsEvidence, ReadyAccepted, StopAccepted
<1> QED BY Invariance, <1>1, PTL

\* For every request bound the service is called at most that often, never after
\* a terminal message and only for complete requests of the READY worker.
THEOREM SessionServiceDiscipline == Spec => []ServiceDiscipline
<1>1. Inv => ServiceDiscipline
  BY DEF Inv, ServiceInv, ServiceDiscipline
<1> QED BY Invariance, <1>1, PTL

\* For every set of ceilings, RUN is sent only after all requested ones are installed.
THEOREM SessionCeilingsBeforeRun == Spec => []CeilingsBeforeRun
<1>1. Inv => CeilingsBeforeRun
  BY DEF Inv, CeilingsInv, CeilingsBeforeRun, AfterLaunch, SendPoints, ReceivePoints
<1> QED BY Invariance, <1>1, PTL

\* SIGKILL is only ever sent to the child the guard still owns.
THEOREM SessionKillsOwnedChild == Spec => KillTargetsOwnedChild
<1>1. Inv /\ [Next]_vars => [killed' # killed => child \in {"running", "zombie"}]_vars
  <2> SUFFICES ASSUME Inv, Next, killed' # killed
               PROVE  child \in {"running", "zombie"}
    OBVIOUS
  <2>1. KillChild
    BY DEF Next, Controller, Launch, Exchange, Finish, Worker, Returned, RejectConfig,
           LaunchFails, Spawn, OpenPidfd, ApplyLimit, Launched, SendHello, ReceiveReady,
           SendRun, ReceiveStop, ReceiveTerminal, ReceiveSyscall, ServiceReturns,
           SendResult, SendTerminate, SendFails, ReceiveFails, ReapExited, WaitTimesOut,
           HostFails, WaitFindsNoChild, UnwindReleased, ReapKilled, WorkerSend, WorkerReceive,
           WorkerCloses, WorkerExits, ChildDies, DeadlinePasses, osVars, vars
  <2> QED BY <2>1 DEF KillChild, Inv, OwnershipInv
<1> QED BY Invariance, <1>1, PTL DEF Spec, KillTargetsOwnedChild

\* An accepted FAULT or DIAGNOSTIC is never replaced, and no syscall is served or
\* counted after it.
THEOREM SessionTerminalIsFinal == Spec => TerminalIsFinal
<1>1. Inv /\ [Next]_vars => [terminal.kind # "none" =>
          terminal' = terminal /\ calls' = calls /\ count' = count]_vars
  <2> SUFFICES ASSUME Inv, Next, terminal.kind # "none"
               PROVE  terminal' = terminal /\ calls' = calls /\ count' = count
    OBVIOUS
  <2>1. CASE ReceiveTerminal
    BY <2>1 DEF ReceiveTerminal, TerminalVerdict
  <2>2. CASE ReceiveSyscall
    BY <2>2 DEF ReceiveSyscall, SyscallVerdict
  <2>3. ~SendResult
    BY DEF SendResult, Inv, ServiceInv
  <2> QED
    BY <2>1, <2>2, <2>3
    DEF Next, Controller, Launch, Exchange, Finish, Worker, Returned, RejectConfig,
        LaunchFails, Spawn, OpenPidfd, ApplyLimit, Launched, SendHello, ReceiveReady,
        SendRun, ReceiveStop, ServiceReturns, SendTerminate, SendFails, ReceiveFails,
        ReapExited, WaitTimesOut, HostFails, WaitFindsNoChild, UnwindReleased, KillChild, ReapKilled,
        WorkerSend, WorkerReceive, WorkerCloses, WorkerExits, ChildDies,
        DeadlinePasses, sessionVars, vars
<1> QED BY Invariance, <1>1, PTL DEF Spec, TerminalIsFinal

LEMMA PromiseStep ==
  ASSUME Inv, Inv', [Next]_vars
  PROVE  [Promise!Next]_(Promise!vars)
<1> USE DEF Inv, OwnershipInv, TerminalInv, EvidenceInv, Supervised, Ending,
            SendPoints, ReceivePoints, Fail, osVars, channelVars, sessionVars,
            Promise!Next, Promise!Launch, Promise!Proceed, Promise!Abort,
            Promise!Release, Promise!ReturnSuccess, Promise!ReturnFailure,
            Promise!Active, Promise!vars
<1>1. CASE RejectConfig
  BY <1>1 DEF RejectConfig
<1>2. CASE LaunchFails
  BY <1>2 DEF LaunchFails
<1>3. CASE Spawn
  BY <1>3 DEF Spawn
<1>4. CASE OpenPidfd
  BY <1>4 DEF OpenPidfd
<1>5. CASE ApplyLimit
  BY <1>5 DEF ApplyLimit
<1>6. CASE Launched
  BY <1>6 DEF Launched
<1>7. CASE SendHello
  BY <1>7 DEF SendHello, Send
<1>8. CASE ReceiveReady
  BY <1>8 DEF ReceiveReady, Receive, ReadyVerdict
<1>9. CASE SendRun
  BY <1>9 DEF SendRun, Send
<1>10. CASE ReceiveStop
  BY <1>10 DEF ReceiveStop, Receive, StopVerdict
<1>11. CASE ReceiveTerminal
  BY <1>11 DEF ReceiveTerminal, Receive, TerminalVerdict
<1>12. CASE ReceiveSyscall
  BY <1>12 DEF ReceiveSyscall, Receive, SyscallVerdict
<1>13. CASE ServiceReturns
  BY <1>13 DEF ServiceReturns
<1>14. CASE SendResult
  BY <1>14 DEF SendResult, Send
<1>15. CASE SendTerminate
  BY <1>15 DEF SendTerminate, Send
<1>16. CASE SendFails
  BY <1>16 DEF SendFails, IoErrors
<1>17. CASE ReceiveFails
  BY <1>17 DEF ReceiveFails, IoErrors
<1>18. CASE ReapExited
  BY <1>18 DEF ReapExited
<1>19. CASE WaitTimesOut
  BY <1>19 DEF WaitTimesOut
<1>20. CASE HostFails
  BY <1>20 DEF HostFails, HostErrors
<1>21. CASE UnwindReleased
  BY <1>21 DEF UnwindReleased
<1>22. CASE KillChild
  BY <1>22 DEF KillChild
<1>23. CASE ReapKilled
  BY <1>23 DEF ReapKilled
<1>24. CASE WorkerSend
  BY <1>24 DEF WorkerSend
<1>25. CASE WorkerReceive
  BY <1>25 DEF WorkerReceive
<1>26. CASE WorkerCloses
  BY <1>26 DEF WorkerCloses
<1>27. CASE WorkerExits
  BY <1>27 DEF WorkerExits
<1>28. CASE ChildDies
  BY <1>28 DEF ChildDies
<1>29. CASE DeadlinePasses
  BY <1>29 DEF DeadlinePasses
<1>30. CASE UNCHANGED vars
  BY <1>30 DEF vars
<1>31. CASE WaitFindsNoChild
  BY <1>31 DEF WaitFindsNoChild
<1> QED
  BY <1>1, <1>2, <1>3, <1>4, <1>5, <1>6, <1>7, <1>8, <1>9, <1>10, <1>11, <1>12,
     <1>13, <1>14, <1>15, <1>16, <1>17, <1>18, <1>19, <1>20, <1>21, <1>22, <1>23,
     <1>24, <1>25, <1>26, <1>27, <1>28, <1>29, <1>30, <1>31
  DEF Next, Controller, Launch, Exchange, Finish, Worker, Returned

\* Every behaviour of the controller is a behaviour of the promise in the header:
\* the exchange only moves forward and the call returns with the child released.
THEOREM SessionImplementsPromise == Spec => Promise!Safety
<1>1. Init => Promise!Init
  BY DEF Init, Promise!Init
<1>2. Inv /\ Inv' /\ [Next]_vars => [Promise!Next]_(Promise!vars)
  BY PromiseStep
<1> QED BY Invariance, <1>1, <1>2, PTL DEF Spec, Promise!Safety
=============================================================================
