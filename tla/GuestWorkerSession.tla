------------------------- MODULE GuestWorkerSession -------------------------
(***************************************************************************)
(* The controller side of one supervised guest-worker process session,     *)
(* run_guest_worker_process_session in                                     *)
(* src/execution/guest_worker_process_session.cpp (Linux build), together  *)
(* with the operating-system objects it owns: the child process, the       *)
(* socket pair and the single deadline of the session.                     *)
(*                                                                         *)
(* The worker is on the far side of a trust boundary.  It is modelled as a *)
(* process that may send any well-formed or malformed frame at any moment, *)
(* close its end of the channel, exit with any code or crash.              *)
(***************************************************************************)
EXTENDS Naturals, Sequences, FiniteSets

CONSTANTS WorkerIds,           \* GuestWorkerId values a frame can carry
          Threads,             \* GuestThreadId values, 0 = absent
          Requests,            \* GuestRequestId values, 0 = absent
          Rips,                \* guest instruction pointers, 0 = absent
          PlainStopReasons,    \* stop reasons without a typed terminal message
          DiagnosticKinds,     \* boundaries a DIAGNOSTIC can report
          Limits,              \* resource ceilings, numbered in the order
                               \* apply_linux_resource_policy installs them
          ExitCodes,           \* exit codes of the worker
          MaxSyscallRequests,  \* bound on config.max_syscall_requests
          ChannelCapacity      \* frames that fit the socket buffer

ASSUME IdentifiersAssumption ==
    /\ WorkerIds \subseteq Nat /\ Threads \subseteq Nat
    /\ Requests \subseteq Nat /\ Rips \subseteq Nat
    /\ 0 \in WorkerIds \cap Threads \cap Requests \cap Rips

ASSUME BoundsAssumption ==
    /\ ExitCodes \subseteq Nat
    /\ Limits \subseteq Nat
    /\ MaxSyscallRequests \in Nat
    /\ ChannelCapacity \in Nat \ {0}

\* The two stop reasons that must be announced by a typed terminal message.
TypedStopReasons == {"guest_fault", "diagnostic_boundary"}

ASSUME ReasonsAssumption ==
    /\ PlainStopReasons \cap TypedStopReasons = {}
    /\ "none" \notin PlainStopReasons

VARIABLES config,      \* GuestWorkerProcessSessionConfig
          pc,          \* control point of the controller
          result,      \* "none", "success" or an error code
          guard,       \* ChildGuard owns an unreaped child
          child,       \* the kernel's view of the worker process
          status,      \* wait status of the worker process
          killed,      \* SIGKILL has been sent by the guard
          installed,   \* resource ceilings in force on the child
          toWorker,    \* frames in flight to the worker
          fromWorker,  \* frames in flight to the controller
          workerEnd,   \* the worker's end of the socket pair
          deadline,    \* steady-clock deadline of the session
          ready,       \* accepted READY
          terminal,    \* terminal_fault / terminal_diagnostic
          stop,        \* accepted STOP
          request,     \* syscall request being served
          count,       \* syscall_request_count
          calls        \* invocations of config.syscall_service

osVars == <<child, status, killed, installed, workerEnd>>
channelVars == <<toWorker, fromWorker>>
sessionVars == <<ready, terminal, stop, request, count, calls>>
vars == <<config, pc, result, guard, osVars, channelVars, deadline, sessionVars>>
-----------------------------------------------------------------------------
\* Frames.  A field a message kind does not carry is 0 or "none".

MessageKinds == {"none", "hello", "ready", "run_request", "syscall_request",
                 "syscall_result", "stop", "fault", "diagnostic", "terminate",
                 "malformed"}
TerminationReasons == {"user_request", "fatal_guest_fault",
                       "unsupported_guest_behavior"}
Details == {"none", "supported", "unsupported"} \cup TypedStopReasons
               \cup PlainStopReasons \cup DiagnosticKinds \cup TerminationReasons
Message == [kind : MessageKinds, worker : WorkerIds, thread : Threads,
            request : Requests, rip : Rips, detail : Details]

NoMessage == [kind |-> "none", worker |-> 0, thread |-> 0, request |-> 0,
              rip |-> 0, detail |-> "none"]
Frame(kind, detail) == [NoMessage EXCEPT !.kind = kind, !.detail = detail]

WorkerFrames ==
    [kind : {"ready"}, worker : WorkerIds, thread : {0}, request : {0},
     rip : {0}, detail : {"supported", "unsupported"}]
    \cup [kind : {"stop"}, worker : WorkerIds, thread : Threads, request : {0},
          rip : Rips, detail : TypedStopReasons \cup PlainStopReasons]
    \cup [kind : {"fault"}, worker : WorkerIds, thread : Threads,
          request : {0}, rip : Rips, detail : {"none"}]
    \cup [kind : {"diagnostic"}, worker : WorkerIds, thread : Threads,
          request : {0}, rip : Rips, detail : DiagnosticKinds]
    \cup [kind : {"syscall_request"}, worker : WorkerIds, thread : Threads,
          request : Requests, rip : Rips, detail : {"none"}]
    \cup {Frame("hello", "none"), Frame("malformed", "none")}
-----------------------------------------------------------------------------
\* Configuration.  wellFormed stands for the path, budget, timeout, artifact
\* and argument conditions of config_is_valid.

Configs == [wellFormed : BOOLEAN, service : BOOLEAN,
            max : 0..MaxSyscallRequests, limits : SUBSET Limits]

config_is_valid(c) == c.wellFormed /\ (c.service <=> c.max # 0)

Init ==
    /\ config \in Configs
    /\ pc = "start" /\ result = "none"
    /\ guard = FALSE
    /\ child = "none" /\ status = [how |-> "none", code |-> 0]
    /\ killed = FALSE /\ installed = {}
    /\ toWorker = << >> /\ fromWorker = << >> /\ workerEnd = "closed"
    /\ deadline = "unset"
    /\ ready = NoMessage /\ terminal = NoMessage /\ stop = NoMessage
    /\ request = NoMessage /\ count = 0 /\ calls = 0

\* Every failing return destroys the ChildGuard on the way out.
Fail(code) ==
    /\ result' = code
    /\ pc' = "unwind"
-----------------------------------------------------------------------------
\* Launch: spawn_worker and the deadline.

RejectConfig ==
    /\ pc = "start" /\ ~config_is_valid(config)
    /\ Fail("invalid_config")
    /\ UNCHANGED <<config, guard, osVars, channelVars, deadline, sessionVars>>

LaunchFails ==
    /\ pc = "start" /\ config_is_valid(config)
    /\ \E code \in {"channel_creation_failed", "artifact_preparation_failure",
                    "spawn_failed", "host_allocation_failure"} : Fail(code)
    /\ UNCHANGED <<config, guard, osVars, channelVars, deadline, sessionVars>>

Spawn ==
    /\ pc = "start" /\ config_is_valid(config)
    /\ pc' = "identify"
    /\ child' = "running" /\ workerEnd' = "open"
    /\ guard' = TRUE
    /\ UNCHANGED <<config, result, status, killed, installed, channelVars,
                   deadline, sessionVars>>

\* pidfd_open succeeds or reports ENOSYS: the session goes on either way, and
\* both ways of killing and waiting for the child have the same effect.
OpenPidfd ==
    /\ pc = "identify"
    /\ pc' = "policy"
    /\ UNCHANGED <<config, result, guard, osVars, channelVars, deadline, sessionVars>>

\* prlimit on the already running child, one requested ceiling at a time.
ApplyLimit ==
    /\ pc = "policy"
    /\ \E limit \in config.limits \ installed :
          /\ \A other \in config.limits \ installed : limit <= other
          /\ installed' = installed \cup {limit}
    /\ UNCHANGED <<config, pc, result, guard, child, status, killed, workerEnd,
                   channelVars, deadline, sessionVars>>

Launched ==
    /\ pc = "policy" /\ config.limits \subseteq installed
    /\ pc' = "send_hello" /\ deadline' = "pending"
    /\ UNCHANGED <<config, result, guard, osVars, channelVars, sessionVars>>
-----------------------------------------------------------------------------
\* Channel primitives: send_message and receive_message.

\* poll(POLLOUT) then send: the frame is queued before the next control point.
Send(message, next) ==
    /\ workerEnd = "open" /\ Len(toWorker) < ChannelCapacity
    /\ toWorker' = Append(toWorker, message)
    /\ pc' = next

\* A send that cannot complete: the peer is gone, or the buffer stays full
\* past the deadline.
SendFailure(code) ==
    \/ code = "io_failure" /\ workerEnd = "closed"
    \/ code = "timeout" /\ deadline = "passed" /\ workerEnd = "open"
       /\ Len(toWorker) >= ChannelCapacity

\* Mutant: a silent worker is waited for without regard to the deadline.
ReceiveNeverTimesOut(code) ==
    \/ code = "wire_failure" /\ fromWorker # << >>
       /\ Head(fromWorker).kind = "malformed"
    \/ code = "unexpected_eof" /\ fromWorker = << >> /\ workerEnd = "closed"

\* A receive that cannot complete.
ReceiveFailure(code) ==
    \/ code = "wire_failure" /\ fromWorker # << >>
       /\ Head(fromWorker).kind = "malformed"
    \/ code = "timeout" /\ deadline = "passed" /\ fromWorker = << >>
       /\ workerEnd = "open"
    \/ code = "unexpected_eof" /\ fromWorker = << >> /\ workerEnd = "closed"

IoErrors == {"io_failure", "wire_failure", "timeout", "unexpected_eof"}
SendPoints == {"send_hello", "send_run", "send_result", "send_terminate"}
ReceivePoints == {"await_ready", "loop"}

\* A complete frame that decodes: poll reports readable data even when the
\* deadline has already passed.
Receive ==
    /\ fromWorker # << >> /\ Head(fromWorker).kind # "malformed"
    /\ fromWorker' = Tail(fromWorker)

SendFails ==
    /\ pc \in SendPoints
    /\ \E code \in IoErrors : SendFailure(code) /\ Fail(code)
    /\ UNCHANGED <<config, guard, osVars, channelVars, deadline, sessionVars>>

ReceiveFails ==
    /\ pc \in ReceivePoints
    /\ \E code \in IoErrors : ReceiveFailure(code) /\ Fail(code)
    /\ UNCHANGED <<config, guard, osVars, channelVars, deadline, sessionVars>>
-----------------------------------------------------------------------------
\* Handshake.

SendHello ==
    /\ pc = "send_hello"
    /\ Send(Frame("hello", "supported"), "await_ready")
    /\ UNCHANGED <<config, result, guard, osVars, fromWorker, deadline, sessionVars>>

ReadyVerdict(m) ==
    IF m.kind # "ready" THEN "unexpected_message"
    ELSE IF m.detail # "supported" THEN "protocol_failure"
    ELSE "ok"

ReceiveReady ==
    /\ pc = "await_ready" /\ Receive
    /\ LET m == Head(fromWorker) IN
          IF ReadyVerdict(m) = "ok"
          THEN pc' = "send_run" /\ ready' = m /\ UNCHANGED result
          ELSE Fail(ReadyVerdict(m)) /\ UNCHANGED ready
    /\ UNCHANGED <<config, guard, osVars, toWorker, deadline, terminal, stop,
                   request, count, calls>>

SendRun ==
    /\ pc = "send_run"
    /\ Send(Frame("run_request", "none"), "loop")
    /\ UNCHANGED <<config, result, guard, osVars, fromWorker, deadline, sessionVars>>
-----------------------------------------------------------------------------
\* The RUN loop.  Each verdict is "ok" or the error the controller returns,
\* tested in the order of the code.

TypedReasonOf(kind) ==
    IF kind = "fault" THEN "guest_fault" ELSE "diagnostic_boundary"

\* Mutant: the stop address is not compared with the terminal message.
MatchesTerminalThread(m) ==
    /\ m.detail = TypedReasonOf(terminal.kind)
    /\ m.thread = terminal.thread

MatchesTerminal(m) ==
    /\ m.detail = TypedReasonOf(terminal.kind)
    /\ m.thread = terminal.thread
    /\ m.rip = terminal.rip

StopVerdict(m) ==
    IF m.worker # ready.worker THEN "worker_identity_mismatch"
    ELSE IF terminal.kind # "none"
         THEN IF MatchesTerminal(m) THEN "ok" ELSE "protocol_failure"
    ELSE IF m.detail \in TypedStopReasons THEN "protocol_failure"
    ELSE "ok"

\* Mutant: a second FAULT or DIAGNOSTIC replaces the first.
TerminalReplaced(m) ==
    IF m.worker # ready.worker THEN "worker_identity_mismatch"
    ELSE IF m.thread = 0 THEN "protocol_failure"
    ELSE "ok"

TerminalVerdict(m) ==
    IF terminal.kind # "none" THEN "protocol_failure"
    ELSE IF m.worker # ready.worker THEN "worker_identity_mismatch"
    ELSE IF m.thread = 0 THEN "protocol_failure"
    ELSE "ok"

\* Mutant: the request limit is off by one.
SyscallLimitOffByOne(m) ==
    IF terminal.kind # "none" THEN "protocol_failure"
    ELSE IF m.kind # "syscall_request" THEN "unexpected_message"
    ELSE IF m.worker # ready.worker THEN "worker_identity_mismatch"
    ELSE IF m.request = 0 \/ m.thread = 0 \/ m.rip = 0 THEN "protocol_failure"
    ELSE IF ~config.service THEN "syscall_service_unavailable"
    ELSE IF count > config.max THEN "syscall_request_limit_exceeded"
    ELSE "ok"

SyscallVerdict(m) ==
    IF terminal.kind # "none" THEN "protocol_failure"
    ELSE IF m.kind # "syscall_request" THEN "unexpected_message"
    ELSE IF m.worker # ready.worker THEN "worker_identity_mismatch"
    ELSE IF m.request = 0 \/ m.thread = 0 \/ m.rip = 0 THEN "protocol_failure"
    ELSE IF ~config.service THEN "syscall_service_unavailable"
    ELSE IF count >= config.max THEN "syscall_request_limit_exceeded"
    ELSE "ok"

ReceiveStop ==
    /\ pc = "loop" /\ Receive
    /\ LET m == Head(fromWorker) IN
          /\ m.kind = "stop"
          /\ IF StopVerdict(m) = "ok"
             THEN pc' = "send_terminate" /\ stop' = m /\ UNCHANGED result
             ELSE Fail(StopVerdict(m)) /\ UNCHANGED stop
    /\ UNCHANGED <<config, guard, osVars, toWorker, deadline, ready, terminal,
                   request, count, calls>>

ReceiveTerminal ==
    /\ pc = "loop" /\ Receive
    /\ LET m == Head(fromWorker) IN
          /\ m.kind \in {"fault", "diagnostic"}
          /\ IF TerminalVerdict(m) = "ok"
             THEN terminal' = m /\ UNCHANGED <<pc, result>>
             ELSE Fail(TerminalVerdict(m)) /\ UNCHANGED terminal
    /\ UNCHANGED <<config, guard, osVars, toWorker, deadline, ready, stop,
                   request, count, calls>>

\* An admitted request is handed to config.syscall_service.
ReceiveSyscall ==
    /\ pc = "loop" /\ Receive
    /\ LET m == Head(fromWorker) IN
          /\ m.kind \notin {"stop", "fault", "diagnostic"}
          /\ IF SyscallVerdict(m) = "ok"
             THEN /\ pc' = "service" /\ request' = m /\ calls' = calls + 1
                  /\ UNCHANGED result
             ELSE Fail(SyscallVerdict(m)) /\ UNCHANGED <<request, calls>>
    /\ UNCHANGED <<config, guard, osVars, toWorker, deadline, ready, terminal,
                   stop, count>>

\* The service callback runs as long as it likes and then answers, declines
\* or throws.
ServiceReturns ==
    /\ pc = "service"
    /\ \/ pc' = "send_result" /\ UNCHANGED result
       \/ \E code \in {"syscall_service_rejected", "host_allocation_failure",
                       "service_exception"} : Fail(code)
    /\ UNCHANGED <<config, guard, osVars, channelVars, deadline, sessionVars>>

SendResult ==
    /\ pc = "send_result"
    /\ Send([request EXCEPT !.kind = "syscall_result"], "loop")
    /\ count' = count + 1
    /\ request' = NoMessage
    /\ UNCHANGED <<config, result, guard, osVars, fromWorker, deadline, ready,
                   terminal, stop, calls>>
-----------------------------------------------------------------------------
\* Orderly end: TERMINATE, then wait_for_child.

TerminationReason ==
    IF terminal.kind = "fault" THEN "fatal_guest_fault"
    ELSE IF terminal.kind = "diagnostic" THEN "unsupported_guest_behavior"
    ELSE "user_request"

SendTerminate ==
    /\ pc = "send_terminate"
    /\ Send(Frame("terminate", TerminationReason), "wait_child")
    /\ UNCHANGED <<config, result, guard, osVars, fromWorker, deadline, sessionVars>>

\* Mutant: mark_reaped is forgotten after a successful waitpid.
ReapWithoutRelease ==
    /\ pc = "wait_child" /\ child = "zombie"
    /\ child' = "reaped"
    /\ pc' = "unwind"
    /\ result' = IF status = [how |-> "exited", code |-> 0]
                 THEN "success" ELSE "child_exit_failure"
    /\ UNCHANGED <<config, guard, status, killed, installed, workerEnd,
                   channelVars, deadline, sessionVars>>

\* waitpid(WNOHANG) finds the exited child: it is reaped and the guard lets go.
ReapExited ==
    /\ pc = "wait_child" /\ child = "zombie"
    /\ child' = "reaped"
    /\ guard' = FALSE
    /\ pc' = "unwind"
    /\ result' = IF status = [how |-> "exited", code |-> 0]
                 THEN "success" ELSE "child_exit_failure"
    /\ UNCHANGED <<config, status, killed, installed, workerEnd, channelVars,
                   deadline, sessionVars>>

WaitTimesOut ==
    /\ pc = "wait_child" /\ deadline = "passed" /\ child = "running"
    /\ Fail("timeout")
    /\ UNCHANGED <<config, guard, osVars, channelVars, deadline, sessionVars>>

\* Host calls that fail for reasons of their own: pidfd_open, prlimit, poll,
\* send, recv, an allocation, waitpid.
HostErrors(point) ==
    CASE point = "identify" -> {"process_identity_failure"}
      [] point = "policy" -> {"resource_policy_failure"}
      [] point \in SendPoints -> {"io_failure", "wire_failure"}
      [] point \in ReceivePoints -> {"io_failure", "host_allocation_failure"}
      [] point = "wait_child" -> {"child_exit_failure"}
      [] OTHER -> {}

HostFails ==
    /\ \E code \in HostErrors(pc) : Fail(code)
    /\ UNCHANGED <<config, guard, osVars, channelVars, deadline, sessionVars>>

\* ECHILD: the exited child was reaped by someone else while the call waited for
\* it.  The guard lets go, so that the pid is not killed.
WaitFindsNoChild ==
    /\ pc = "wait_child" /\ child = "zombie"
    /\ child' = "reaped"
    /\ guard' = FALSE
    /\ Fail("child_exit_failure")
    /\ UNCHANGED <<config, status, killed, installed, workerEnd, channelVars,
                   deadline, sessionVars>>
-----------------------------------------------------------------------------
\* ~ChildGuard: terminate_and_reap, then the function returns.

\* Mutant: the function returns without consulting the guard.
UnwindUnchecked ==
    /\ pc = "unwind"
    /\ pc' = "returned"
    /\ UNCHANGED <<config, result, guard, osVars, channelVars, deadline, sessionVars>>

UnwindReleased ==
    /\ pc = "unwind" /\ ~guard
    /\ pc' = "returned"
    /\ UNCHANGED <<config, result, guard, osVars, channelVars, deadline, sessionVars>>

\* Mutant: SIGKILL without the waitpid that follows it.
KillWithoutReap ==
    /\ pc = "unwind" /\ guard
    /\ killed' = TRUE /\ pc' = "returned"
    /\ UNCHANGED <<config, result, guard, child, status, installed, workerEnd,
                   channelVars, deadline, sessionVars>>

KillChild ==
    /\ pc = "unwind" /\ guard
    /\ killed' = TRUE /\ pc' = "reap"
    /\ UNCHANGED <<config, result, guard, child, status, installed, workerEnd,
                   channelVars, deadline, sessionVars>>

\* Blocking waitpid.
ReapKilled ==
    /\ pc = "reap" /\ child = "zombie"
    /\ child' = "reaped"
    /\ guard' = FALSE
    /\ pc' = "returned"
    /\ UNCHANGED <<config, result, status, killed, installed, workerEnd,
                   channelVars, deadline, sessionVars>>
-----------------------------------------------------------------------------
\* The worker process and the kernel.

WorkerSend ==
    /\ child = "running" /\ workerEnd = "open"
    /\ Len(fromWorker) < ChannelCapacity
    /\ \E m \in WorkerFrames : fromWorker' = Append(fromWorker, m)
    /\ UNCHANGED <<config, pc, result, guard, osVars, toWorker, deadline, sessionVars>>

WorkerReceive ==
    /\ child = "running" /\ workerEnd = "open" /\ toWorker # << >>
    /\ toWorker' = Tail(toWorker)
    /\ UNCHANGED <<config, pc, result, guard, osVars, fromWorker, deadline, sessionVars>>

WorkerCloses ==
    /\ child = "running" /\ workerEnd = "open"
    /\ workerEnd' = "closed"
    /\ UNCHANGED <<config, pc, result, guard, child, status, killed, installed,
                   channelVars, deadline, sessionVars>>

WorkerExits ==
    /\ child = "running"
    /\ child' = "zombie" /\ workerEnd' = "closed"
    /\ status' \in [how : {"exited"}, code : ExitCodes]
                  \cup {[how |-> "signaled", code |-> 0]}
    /\ UNCHANGED <<config, pc, result, guard, killed, installed, channelVars,
                   deadline, sessionVars>>

\* SIGKILL takes effect.
ChildDies ==
    /\ child = "running" /\ killed
    /\ child' = "zombie" /\ workerEnd' = "closed"
    /\ status' = [how |-> "signaled", code |-> 0]
    /\ UNCHANGED <<config, pc, result, guard, killed, installed, channelVars,
                   deadline, sessionVars>>

DeadlinePasses ==
    /\ deadline = "pending"
    /\ deadline' = "passed"
    /\ UNCHANGED <<config, pc, result, guard, osVars, channelVars, sessionVars>>
-----------------------------------------------------------------------------
Launch == RejectConfig \/ LaunchFails \/ Spawn \/ OpenPidfd \/ ApplyLimit \/ Launched
Exchange == SendHello \/ ReceiveReady \/ SendRun \/ ReceiveStop \/ ReceiveTerminal
            \/ ReceiveSyscall \/ ServiceReturns \/ SendResult \/ SendTerminate
            \/ SendFails \/ ReceiveFails
Finish == ReapExited \/ WaitTimesOut \/ UnwindReleased \/ KillChild \/ ReapKilled
Controller == Launch \/ Exchange \/ Finish
Worker == WorkerSend \/ WorkerReceive \/ WorkerCloses \/ WorkerExits

\* After the function has returned nothing is left to happen.
Returned == pc = "returned" /\ UNCHANGED vars

Next == Controller \/ HostFails \/ WaitFindsNoChild \/ Worker \/ ChildDies
        \/ DeadlinePasses \/ Returned

\* The controller is an ordinary thread (its service callback returns), the
\* kernel delivers SIGKILL and time advances.  Nothing is assumed of the worker,
\* and no host failure is relied upon.
Spec == Init /\ [][Next]_vars /\ WF_vars(Controller) /\ WF_vars(ChildDies)
             /\ WF_vars(DeadlinePasses)
-----------------------------------------------------------------------------
ControlPoints == {"start", "identify", "policy", "service", "wait_child",
                  "unwind", "reap", "returned"} \cup SendPoints \cup ReceivePoints
ErrorCodes == IoErrors \cup
    {"invalid_config", "channel_creation_failed", "artifact_preparation_failure",
     "spawn_failed", "host_allocation_failure", "process_identity_failure",
     "resource_policy_failure", "unexpected_message", "protocol_failure",
     "worker_identity_mismatch", "syscall_service_unavailable",
     "syscall_request_limit_exceeded", "syscall_service_rejected",
     "service_exception", "child_exit_failure"}
WaitStatus == [how : {"none", "exited", "signaled"}, code : ExitCodes \cup {0}]

\* Types of the session state.
TypeOK ==
    /\ config \in Configs
    /\ pc \in ControlPoints
    /\ result \in ErrorCodes \cup {"none", "success"}
    /\ guard \in BOOLEAN /\ killed \in BOOLEAN
    /\ child \in {"none", "running", "zombie", "reaped"}
    /\ status \in WaitStatus
    /\ installed \subseteq Limits
    /\ toWorker \in Seq(Message) /\ fromWorker \in Seq(Message)
    /\ workerEnd \in {"open", "closed"}
    /\ deadline \in {"unset", "pending", "passed"}
    /\ ready \in Message /\ terminal \in Message
    /\ stop \in Message /\ request \in Message
    /\ count \in Nat /\ calls \in Nat

\* "returns only after the child exits and is reaped": whatever path the call
\* took, no worker process outlives it, not even as a zombie.
NoOrphan == pc = "returned" => child \in {"none", "reaped"}

\* terminate_and_reap may use the numeric pid only because the child "remains
\* unreaped under this guard": SIGKILL never targets a pid that was released.
KillTargetsOwnedChild ==
    [][killed' # killed => child \in {"running", "zombie"}]_vars

\* A successful result is evidence about one worker: the STOP carries the
\* identity of the accepted READY, a fault or diagnostic stop agrees with the
\* typed message before it in thread and address, and the worker left by itself
\* with exit code 0 rather than by the controller's SIGKILL.
SuccessIsEvidence ==
    result = "success" =>
        /\ ready.kind = "ready" /\ ready.detail = "supported"
        /\ stop.kind = "stop" /\ stop.worker = ready.worker
        /\ stop.detail \in TypedStopReasons <=> terminal.kind # "none"
        /\ terminal.kind # "none" =>
              /\ terminal.worker = ready.worker
              /\ stop.detail = TypedReasonOf(terminal.kind)
              /\ stop.thread = terminal.thread /\ stop.thread # 0
              /\ stop.rip = terminal.rip
        /\ status = [how |-> "exited", code |-> 0] /\ ~killed

\* The syscall service is called at most config.max times, only for requests of
\* the READY worker with all identity fields present, and never after a terminal
\* message; every completed exchange was one call.
ServiceDiscipline ==
    /\ calls <= config.max
    /\ count <= calls /\ calls <= count + 1
    /\ pc \in {"service", "send_result"} =>
          /\ terminal.kind = "none" /\ config.service
          /\ request.worker = ready.worker
          /\ 0 \notin {request.request, request.thread, request.rip}

\* "ceilings installed before guest RUN": no RUN frame is ever in flight, nor has
\* one been sent, before every requested limit is in force.
CeilingsBeforeRun ==
    pc \in {"loop", "service", "send_result", "send_terminate", "wait_child"} =>
        config.limits \subseteq installed

\* Once a FAULT or DIAGNOSTIC is accepted the exchange can only end: it is never
\* replaced, and no further service call or RUN-loop result happens.
TerminalIsFinal ==
    [][terminal.kind # "none" =>
          terminal' = terminal /\ calls' = calls /\ count' = count]_vars

\* The controller timeout is finite: whatever the worker does, the call returns.
SessionReturns == <>(pc = "returned")

\* The promise of the header, with the control points as phases.
Promise == INSTANCE SupervisedSession WITH
    phase <- CASE pc = "start" -> "idle"
               [] pc \in {"identify", "policy", "send_hello", "await_ready",
                          "send_run"} -> "handshake"
               [] pc \in {"loop", "service", "send_result"} ->
                    IF terminal.kind = "none" THEN "running" ELSE "terminal"
               [] pc \in {"send_terminate", "wait_child"} -> "stopped"
               [] pc \in {"unwind", "reap"} ->
                    IF result = "success" THEN "stopped" ELSE "failed"
               [] OTHER -> "done",
    owned <- child \in {"running", "zombie"},
    outcome <- IF pc # "returned" THEN "none"
               ELSE IF result = "success" THEN "success" ELSE "failure"

\* The controller implements the promised exchange step by step.
KeepsPromise == Promise!Spec
=============================================================================
