-------------------------- MODULE RetailDiagnostic --------------------------
(***************************************************************************)
(* The retail diagnostic: the command run_linux_retail_diagnostic, the     *)
(* session it runs (GuestWorkerSession) and the worker on the other end,   *)
(* run_linux_retail_diagnostic_worker, which preflights one artifact and   *)
(* reports the first boundary it meets.                                    *)
(*                                                                         *)
(* The worker of GuestWorkerSession may do anything.  Here it is the real  *)
(* one, and the controller process may die at any moment.                  *)
(***************************************************************************)
EXTENDS GuestWorkerSession

CONSTANTS Entry    \* the entry address of an artifact that loads

\* The identifiers, boundaries and exit codes the worker uses.
Boundaries == {"loader_rejected", "entry_not_executable", "sce_dynamic_metadata_rejected",
               "unsupported_dynamic_dependencies", "unsupported_relocations",
               "unsupported_tls", "unsupported_initial_process_abi"}
ASSUME RetailAssumption ==
    /\ Entry \in Rips \ {0} /\ 1 \in WorkerIds \cap Threads
    /\ Boundaries \subseteq DiagnosticKinds
    /\ {0} \cup 71 .. 81 \subseteq ExitCodes

VARIABLES artifact,    \* what the preflight finds out about the file
          wpc,         \* control point of the worker
          armed,       \* PR_SET_PDEATHSIG is in force
          doomed,      \* the death signal has been sent
          alive,       \* the controller process exists
          faulted,     \* a host call failed, time ran out or the controller died
          exitCode     \* exit code of the command, 100 while it runs

workerVars == <<artifact, wpc, armed, doomed>>
allVars == <<vars, workerVars, alive, faulted, exitCode>>
-----------------------------------------------------------------------------
\* preflight_linux_retail_diagnostic: each test in the order of the code.

Artifacts == [stack : BOOLEAN, loads : BOOLEAN, executable : BOOLEAN,
              metadata : BOOLEAN, dependencies : BOOLEAN, relocations : BOOLEAN,
              tls : BOOLEAN]

preflight_boundary(a) ==
    IF ~a.loads THEN "loader_rejected"
    ELSE IF ~a.executable THEN "entry_not_executable"
    ELSE IF ~a.metadata THEN "sce_dynamic_metadata_rejected"
    ELSE IF a.dependencies THEN "unsupported_dynamic_dependencies"
    ELSE IF a.relocations THEN "unsupported_relocations"
    ELSE IF a.tls THEN "unsupported_tls"
    ELSE "unsupported_initial_process_abi"

\* diagnostic_from_preflight: the address is known once an image was built.
diagnostic_from_preflight(a) ==
    [kind |-> "diagnostic", worker |-> 1, thread |-> 1, request |-> 0,
     rip |-> IF a.loads THEN Entry ELSE 0, detail |-> preflight_boundary(a)]

\* Mutant: STOP carries the entry address even when no image was built.
StopAtEntry(a) ==
    [diagnostic_from_preflight(a) EXCEPT !.kind = "stop", !.rip = Entry,
                                         !.detail = "diagnostic_boundary"]

StopAfterDiagnostic(a) ==
    [diagnostic_from_preflight(a) EXCEPT !.kind = "stop",
                                         !.detail = "diagnostic_boundary"]

ReadyFrame == [NoMessage EXCEPT !.kind = "ready", !.worker = 1, !.detail = "supported"]
-----------------------------------------------------------------------------
\* The command.

RetailConfig == [wellFormed |-> TRUE, service |-> FALSE, max |-> 0, limits |-> Limits]

RetailInit ==
    /\ Init /\ config = RetailConfig
    /\ artifact \in Artifacts
    /\ wpc = "none" /\ armed = FALSE /\ doomed = FALSE /\ alive = TRUE
    /\ faulted = FALSE /\ exitCode = 100

\* read_artifact_file or /proc/self/exe fails before any session exists.
CommandFails ==
    /\ alive /\ pc = "start" /\ exitCode = 100
    /\ exitCode' \in {3, 4}
    /\ faulted' = TRUE
    /\ UNCHANGED <<vars, workerVars, alive>>

\* One step of the session inside the command.
ControllerStep ==
    /\ alive /\ exitCode = 100
    /\ Controller
    /\ faulted' = (faulted \/ (pc = "start" /\ child' = "none"))
    /\ wpc' = IF child = "none" /\ child' = "running" THEN "bind" ELSE wpc
    /\ UNCHANGED <<artifact, armed, doomed, alive, exitCode>>

\* A host call of the controller fails, or time runs out before the exchange does.
SessionFault ==
    /\ alive /\ exitCode = 100 /\ pc # "returned"
    /\ HostFails \/ WaitFindsNoChild \/ DeadlinePasses
    /\ faulted' = TRUE
    /\ UNCHANGED <<workerVars, alive, exitCode>>

\* The command maps the session's result to its exit code.
ReportResult ==
    /\ alive /\ pc = "returned" /\ exitCode = 100
    /\ exitCode' = IF result # "success" THEN 5
                   ELSE IF terminal.kind \in {"diagnostic", "fault"} THEN 0 ELSE 6
    /\ UNCHANGED <<vars, workerVars, alive, faulted>>

\* The controller process dies: its descriptors close, the session is over, and
\* the kernel signals a child that has armed its death signal by then.
ControllerDies ==
    /\ alive /\ exitCode = 100
    /\ alive' = FALSE /\ faulted' = TRUE
    /\ doomed' = (armed /\ child = "running")
    /\ UNCHANGED <<vars, artifact, wpc, armed, exitCode>>
-----------------------------------------------------------------------------
\* The worker.  Every early return is an exit code of its own.

Exit(code) ==
    /\ wpc' = "exited"
    /\ child' = "zombie" /\ workerEnd' = "closed"
    /\ status' = [how |-> "exited", code |-> code]
    /\ UNCHANGED <<config, pc, result, guard, killed, installed, channelVars,
                   deadline, sessionVars, artifact, armed, doomed>>

Goto(next) ==
    /\ wpc' = next
    /\ UNCHANGED <<vars, artifact, armed, doomed>>

\* A host call of the worker fails for reasons of its own.
WorkerHostFails ==
    /\ child = "running" /\ alive
    /\ \/ wpc = "bind" /\ Exit(71)
       \/ wpc = "artifact" /\ Exit(72)
       \/ wpc \in {"send_ready", "send_diagnostic", "send_stop"}
          /\ Exit(IF wpc = "send_ready" THEN 75 ELSE 79)
    /\ faulted' = TRUE
    /\ UNCHANGED <<alive, exitCode>>

ArmDeathSignal ==
    /\ wpc = "bind"
    /\ wpc' = "check_parent" /\ armed' = TRUE
    /\ UNCHANGED <<vars, artifact, doomed>>

\* Mutant: getppid is not compared with the controller that started the worker.
CheckParentSkipped ==
    /\ wpc = "check_parent"
    /\ Goto("artifact")

\* getppid() tells whether the controller had already died when the death signal
\* was armed.
CheckParent ==
    /\ wpc = "check_parent"
    /\ IF alive THEN Goto("artifact") ELSE Exit(71)

ReadArtifact ==
    /\ wpc = "artifact"
    /\ Goto("await_hello")

\* What run_linux_retail_diagnostic_worker accepts where it waits for `kind`.
Accepts(kind, m) ==
    /\ m.kind = kind
    /\ kind = "hello" => m.detail = "supported"
    /\ kind = "terminate" => m.detail = "unsupported_guest_behavior"

\* read_worker_message: a frame, or end of file once the controller is gone.
Read(kind, next, eofCode, badCode) ==
    \/ /\ toWorker # << >>
       /\ IF Accepts(kind, Head(toWorker))
          THEN /\ wpc' = next /\ toWorker' = Tail(toWorker)
               /\ UNCHANGED <<config, pc, result, guard, osVars, fromWorker,
                              deadline, sessionVars, artifact, armed, doomed>>
          ELSE Exit(badCode)
    \/ toWorker = << >> /\ ~alive /\ Exit(eofCode)

AwaitHello == wpc = "await_hello" /\ Read("hello", "send_ready", 73, 74)
AwaitRun == wpc = "await_run" /\ Read("run_request", "preflight", 76, 77)

\* Mutant: the worker leaves once it has sent STOP.
LeaveUnasked == wpc = "await_terminate" /\ Goto("finish")

AwaitTerminate == wpc = "await_terminate" /\ Read("terminate", "finish", 80, 81)

\* write_worker_message blocks while the buffer is full; writing to a closed
\* socket ends the worker.
Write(frame, next) ==
    \/ /\ alive /\ Len(fromWorker) < ChannelCapacity
       /\ fromWorker' = Append(fromWorker, frame)
       /\ wpc' = next
       /\ UNCHANGED <<config, pc, result, guard, osVars, toWorker, deadline,
                      sessionVars, artifact, armed, doomed>>
    \/ ~alive /\ Exit(IF wpc = "send_ready" THEN 75 ELSE 79)

SendReady == wpc = "send_ready" /\ Write(ReadyFrame, "await_run")

ChooseStack ==
    /\ wpc = "preflight"
    /\ IF artifact.stack THEN Goto("send_diagnostic") ELSE Exit(78)

SendDiagnostic ==
    wpc = "send_diagnostic" /\ Write(diagnostic_from_preflight(artifact), "send_stop")

\* Mutant: the worker waits for TERMINATE without having sent STOP.
SendStopForgotten ==
    /\ wpc = "send_stop"
    /\ Goto("await_terminate")

SendStop == wpc = "send_stop" /\ Write(StopAfterDiagnostic(artifact), "await_terminate")
Finished == wpc = "finish" /\ Exit(0)

WorkerStep ==
    /\ child = "running"
    /\ \/ ArmDeathSignal \/ CheckParent \/ ReadArtifact \/ AwaitHello \/ SendReady
       \/ AwaitRun \/ ChooseStack \/ SendDiagnostic \/ SendStop \/ AwaitTerminate
       \/ Finished
    /\ UNCHANGED <<alive, faulted, exitCode>>

\* SIGKILL: from the guard, or as the death signal of a dead controller.
WorkerKilled ==
    /\ child = "running"
    /\ killed \/ doomed
    /\ child' = "zombie" /\ workerEnd' = "closed"
    /\ status' = [how |-> "signaled", code |-> 0]
    /\ wpc' = "exited"
    /\ UNCHANGED <<config, pc, result, guard, killed, installed, channelVars,
                   deadline, sessionVars, artifact, armed, doomed, alive, faulted,
                   exitCode>>

Over == (~alive \/ exitCode # 100) /\ child # "running" /\ UNCHANGED allVars

RetailNext == CommandFails \/ ControllerStep \/ SessionFault \/ ReportResult \/ ControllerDies
              \/ WorkerHostFails \/ WorkerStep \/ WorkerKilled \/ Over

\* The command and the worker are ordinary processes, and signals are delivered.
\* Nothing is assumed of the clock: the exchange must not need its deadline.
RetailSpec ==
    /\ RetailInit /\ [][RetailNext]_allVars
    /\ WF_allVars(ControllerStep)
    /\ WF_allVars(ReportResult) /\ WF_allVars(WorkerStep) /\ WF_allVars(WorkerKilled)
-----------------------------------------------------------------------------
\* Boundaries in the order in which the diagnostic promises to look for them.
Requirements(a) ==
    << [met |-> a.loads, boundary |-> "loader_rejected"],
       [met |-> a.executable, boundary |-> "entry_not_executable"],
       [met |-> a.metadata, boundary |-> "sce_dynamic_metadata_rejected"],
       [met |-> ~a.dependencies, boundary |-> "unsupported_dynamic_dependencies"],
       [met |-> ~a.relocations, boundary |-> "unsupported_relocations"],
       [met |-> ~a.tls, boundary |-> "unsupported_tls"],
       [met |-> FALSE, boundary |-> "unsupported_initial_process_abi"] >>

\* The command prints a boundary only if it is the first unmet requirement of the
\* artifact, and a session that succeeds never ends "without a typed boundary".
PrintedBoundaryIsFirst ==
    /\ exitCode = 0 =>
          LET r == Requirements(artifact) IN
            \E i \in DOMAIN r :
               /\ ~r[i].met /\ terminal.detail = r[i].boundary
               /\ \A j \in 1..(i - 1) : r[j].met
    /\ exitCode # 6

\* What the command prints is the first boundary, and it prints one whenever no
\* host call failed and a planning stack exists.
ReportsFirstBoundary ==
    /\ PrintedBoundaryIsFirst
    /\ ~faulted /\ artifact.stack => exitCode \in {0, 100}

\* A worker whose controller is dead either has the death signal on its way or has
\* not got past bind_worker_lifetime_to_controller: no orphan reads the artifact.
NoOrphanWork ==
    ~alive /\ child = "running" /\ wpc \notin {"bind", "check_parent"} => doomed

\* The exit code of a worker does not tell whether it waited for TERMINATE, so the
\* controller alone cannot know it; with the real worker a boundary is printed
\* only after each side has read every frame the other has sent.
PrintedExchangeIsComplete ==
    exitCode = 0 => /\ toWorker = << >> /\ fromWorker = << >>
                    /\ wpc = "exited" /\ child = "reaped"

\* Controller and worker never wait for each other: whichever host call of either
\* fails, and even if the deadline never comes, the command ends or dies.
ExchangeCompletes == <>(exitCode # 100 \/ ~alive)
=============================================================================
