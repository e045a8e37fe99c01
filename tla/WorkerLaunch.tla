---------------------------- MODULE WorkerLaunch ----------------------------
(***************************************************************************)
(* spawn_worker of src/execution/guest_worker_process_session.cpp, one     *)
(* host call at a time, on both platforms that implement it.               *)
(*                                                                         *)
(* Linux starts the worker and then lowers the limits of the running       *)
(* process with prlimit.  Windows builds a job with the limits, creates    *)
(* the worker suspended, assigns it to the job and only then resumes it.   *)
(* Every failing return unwinds the handles the function owns; the         *)
(* controller process may also die between any two calls.                  *)
(***************************************************************************)
EXTENDS Naturals, FiniteSets

CONSTANTS Ceilings,    \* resource ceilings that a policy may request
          MaxLimit     \* limits are 0..MaxLimit, MaxLimit = unlimited

\* A ceiling is its place in the order in which a policy is applied.
ASSUME LaunchAssumption == MaxLimit \in Nat /\ Ceilings \subseteq Nat

VARIABLES platform,    \* "linux" or "windows"
          wants,       \* requested ceilings: a partial function to limits
          artifact,    \* an artifact is handed over (Linux)
          pc,          \* the next host call
          held,        \* handles owned by spawn_worker or by its caller
          child,       \* "none", "suspended", "running", "dead"
          guarded,     \* a ChildGuard owns the process
          inJob,       \* the process is assigned to the job
          jobLimits,   \* ceilings verified on the job
          rlimit,      \* soft and hard limits of the Linux child
          target,      \* the pair computed by apply_linux_resource_limit
          done,        \* ceilings whose installation was verified
          result,      \* "none", "success" or an error code
          alive        \* the controller process exists

processVars == <<child, guarded, inJob>>
limitVars == <<jobLimits, rlimit, target, done>>
vars == <<platform, wants, artifact, pc, held, processVars, limitVars, result, alive>>

Limit == 0..MaxLimit
Pairs == [cur : Limit, max : Limit]
Smaller(a, b) == IF a < b THEN a ELSE b

Init ==
    /\ platform \in {"linux", "windows"}
    /\ wants \in UNION {[c -> Limit] : c \in SUBSET Ceilings}
    /\ artifact \in IF platform = "linux" THEN BOOLEAN ELSE {FALSE}
    /\ pc = IF platform = "linux" THEN "socketpair" ELSE "create_pipe"
    /\ held = {} /\ child = "none" /\ guarded = FALSE /\ inJob = FALSE
    /\ jobLimits = {} /\ done = {}
    /\ rlimit \in [Ceilings -> {p \in Pairs : p.cur <= p.max}]
    /\ target = [cur |-> 0, max |-> 0]
    /\ result = "none" /\ alive = TRUE
-----------------------------------------------------------------------------
\* A host call that succeeds, and what it adds to and removes from the handles.
Call(at, gained, dropped, next) ==
    /\ alive /\ pc = at
    /\ held' = (held \cup gained) \ dropped
    /\ pc' = next
    /\ UNCHANGED <<platform, wants, artifact, result, alive>>

\* A host call that fails: everything owned goes out of scope.
Fails(at, code) ==
    /\ alive /\ pc = at
    /\ result' = code /\ pc' = "unwind"
    /\ UNCHANGED <<platform, wants, artifact, held, processVars, limitVars, alive>>

Keep == UNCHANGED <<processVars, limitVars>>
-----------------------------------------------------------------------------
\* Linux.

SocketPair ==
    /\ Call("socketpair", {"channel", "worker_end"}, {},
            IF artifact THEN "memfd" ELSE "file_actions")
    /\ Keep

\* prepare_linux_artifact: memfd_create, the pwrite loop, and the seals, which are
\* read back before the descriptor is used.
PrepareArtifact ==
    /\ \/ Call("memfd", {"artifact"}, {}, "write_artifact")
       \/ Call("write_artifact", {}, {}, "seal_artifact")
       \/ Call("seal_artifact", {}, {}, "file_actions")
    /\ Keep

FileActions ==
    /\ Call("file_actions", {"actions"}, {}, "posix_spawn")
    /\ Keep

\* posix_spawn; the file actions, the worker's end and, when the function returns,
\* the artifact descriptor are released.
PosixSpawn ==
    /\ Call("posix_spawn", {}, {"actions", "worker_end"}, "pidfd_open")
    /\ child' = "running" /\ guarded' = TRUE
    /\ UNCHANGED <<inJob, limitVars>>

PidfdOpen ==
    /\ Call("pidfd_open", {}, {}, "read_limit")
    /\ Keep

\* The next ceiling in the fixed order of apply_linux_resource_policy.
NextCeiling(c) ==
    /\ c \in DOMAIN wants \ done
    /\ \A d \in DOMAIN wants \ done : c <= d

\* Mutant: the hard limit is left as it was.
LoweredSoftOnly(current, requested) ==
    [cur |-> Smaller(current.cur, requested), max |-> current.max]

\* apply_linux_resource_limit never raises a limit.
Lowered(current, requested) ==
    LET hard == Smaller(current.max, requested) IN
      [cur |-> Smaller(Smaller(current.cur, requested), hard), max |-> hard]

ReadLimit ==
    /\ Call("read_limit", {}, {}, "write_limit")
    /\ \E c \in DOMAIN wants : NextCeiling(c) /\ target' = Lowered(rlimit[c], wants[c])
    /\ UNCHANGED <<processVars, jobLimits, rlimit, done>>

\* The kernel refuses to raise a hard limit the worker has lowered meanwhile.
WriteLimit ==
    /\ Call("write_limit", {}, {}, "verify_limit")
    /\ \E c \in DOMAIN wants :
          /\ NextCeiling(c) /\ target.max <= rlimit[c].max
          /\ rlimit' = [rlimit EXCEPT ![c] = target]
    /\ UNCHANGED <<processVars, jobLimits, target, done>>

VerifyLimit ==
    /\ Call("verify_limit", {}, {}, "read_limit")
    /\ \E c \in DOMAIN wants :
          NextCeiling(c) /\ rlimit[c] = target /\ done' = done \cup {c}
    /\ UNCHANGED <<processVars, jobLimits, rlimit, target>>

LinuxReturns ==
    /\ pc = "read_limit" /\ DOMAIN wants \subseteq done
    /\ alive /\ result' = "success" /\ pc' = "returned"
    /\ held' = held \ {"artifact"}
    /\ UNCHANGED <<platform, wants, artifact, processVars, limitVars, alive>>

\* The started worker may change its own limits while they are being lowered.
WorkerLowersLimit ==
    /\ platform = "linux" /\ child = "running" /\ alive
    /\ \E c \in Ceilings : \E p \in Pairs :
          /\ p.cur <= p.max /\ p.max <= rlimit[c].max
          /\ rlimit' = [rlimit EXCEPT ![c] = p]
    /\ UNCHANGED <<platform, wants, artifact, pc, held, processVars, jobLimits,
                   target, done, result, alive>>

LinuxFails ==
    \/ Fails("socketpair", "channel_creation_failed")
    \/ \E at \in {"memfd", "write_artifact", "seal_artifact"} :
          Fails(at, "artifact_preparation_failure")
    \/ Fails("file_actions", "spawn_failed")
    \/ Fails("pidfd_open", "process_identity_failure")
    \/ \E at \in {"read_limit", "write_limit", "verify_limit"} :
          /\ ~(DOMAIN wants \subseteq done)
          /\ Fails(at, "resource_policy_failure")

\* posix_spawn failed: the actions have been destroyed by then.
PosixSpawnFails ==
    /\ alive /\ pc = "posix_spawn"
    /\ result' = "spawn_failed" /\ pc' = "unwind"
    /\ held' = held \ {"actions"}
    /\ UNCHANGED <<platform, wants, artifact, processVars, limitVars, alive>>

\* Building argv or the environment throws std::bad_alloc, which the session turns
\* into host_allocation_failure.
ArgumentsThrow == Fails("posix_spawn", "host_allocation_failure")
-----------------------------------------------------------------------------
\* Windows.

CreatePipe ==
    /\ Call("create_pipe", {"channel"}, {}, "connect_event")
    /\ Keep

\* ConnectNamedPipe on the server, CreateFile on the client, and the wait for the
\* overlapped connect.
ConnectPipe ==
    /\ \/ Call("connect_event", {"connect_event"}, {}, "open_client")
       \/ Call("open_client", {"worker_end"}, {}, "connected")
       \/ Call("connected", {}, {}, "stderr_sink")
    /\ Keep

PrepareStartup ==
    /\ \/ Call("stderr_sink", {"stderr_sink"}, {}, "attribute_list")
       \/ Call("attribute_list", {"attribute_list"}, {}, "handle_list")
       \/ Call("handle_list", {}, {}, "command_line")
       \/ Call("command_line", {}, {}, "create_job")
    /\ Keep

CreateJob ==
    /\ Call("create_job", {"job"}, {}, "set_job_limits")
    /\ Keep

\* SetInformationJobObject, read back when a policy was requested.
SetJobLimits ==
    /\ Call("set_job_limits", {}, {}, "create_process")
    /\ jobLimits' = DOMAIN wants
    /\ UNCHANGED <<processVars, rlimit, target, done>>

\* CREATE_SUSPENDED.
CreateProcess ==
    /\ Call("create_process", {"process", "thread"}, {}, "assign_job")
    /\ child' = "suspended"
    /\ UNCHANGED <<guarded, inJob, limitVars>>

\* Mutant: the worker is resumed when it is assigned to the job ... or was not.
AssignJobUnchecked ==
    /\ Call("assign_job", {}, {"worker_end", "stderr_sink"}, "resume_thread")
    /\ inJob' \in BOOLEAN /\ guarded' = TRUE
    /\ UNCHANGED <<child, limitVars>>

\* AssignProcessToJobObject; the guard takes the process and the job, and the
\* parent's copies of the child-facing handles are closed.
AssignJob ==
    /\ Call("assign_job", {}, {"worker_end", "stderr_sink"}, "resume_thread")
    /\ inJob' = TRUE /\ guarded' = TRUE
    /\ UNCHANGED <<child, limitVars>>

ResumeThread ==
    /\ Call("resume_thread", {}, {"thread"}, "resumed")
    /\ child' = "running"
    /\ UNCHANGED <<guarded, inJob, limitVars>>

WindowsReturns ==
    /\ alive /\ pc = "resumed"
    /\ result' = "success" /\ pc' = "returned"
    /\ held' = held \ {"connect_event", "attribute_list"}
    /\ UNCHANGED <<platform, wants, artifact, processVars, limitVars, alive>>

\* The assignment fails: the suspended process has no guard yet and is terminated
\* and waited for by hand.
AssignJobFails ==
    /\ alive /\ pc = "assign_job"
    /\ child' = "dead"
    /\ result' = "spawn_failed" /\ pc' = "unwind"
    /\ UNCHANGED <<platform, wants, artifact, held, guarded, inJob, limitVars, alive>>

WindowsFails ==
    \/ \E at \in {"create_pipe", "connect_event", "open_client", "stderr_sink"} :
          Fails(at, "channel_creation_failed")
    \/ \E code \in {"timeout", "channel_creation_failed"} : Fails("connected", code)
    \/ \E at \in {"attribute_list", "handle_list", "create_job", "create_process",
                  "resume_thread"} : Fails(at, "spawn_failed")
    \/ Fails("command_line", "invalid_config")
    \/ Fails("set_job_limits",
             IF DOMAIN wants = {} THEN "spawn_failed" ELSE "resource_policy_failure")
-----------------------------------------------------------------------------
\* Mutant: a child without a guard is left to itself.
UnwindHandlesOnly ==
    /\ alive /\ pc = "unwind"
    /\ held' = held \cap {"actions"} /\ pc' = "returned"
    /\ UNCHANGED <<platform, wants, artifact, processVars, limitVars, result, alive>>

\* Destructors of a failing return: the guard terminates its process and waits for
\* it, and every handle is closed.  The file actions have no destructor.
Unwind ==
    /\ alive /\ pc = "unwind"
    /\ child' = IF guarded THEN "dead" ELSE child
    /\ guarded' = FALSE /\ held' = held \cap {"actions"} /\ pc' = "returned"
    /\ UNCHANGED <<platform, wants, artifact, inJob, limitVars, result, alive>>

\* The controller dies: the kernel closes its handles, and closing the job kills
\* the processes assigned to it (JOB_OBJECT_LIMIT_KILL_ON_JOB_CLOSE).
ControllerDies ==
    /\ alive /\ alive' = FALSE
    /\ held' = {}
    /\ child' = IF inJob THEN "dead" ELSE child
    /\ UNCHANGED <<platform, wants, artifact, pc, guarded, inJob, limitVars, result>>

Linux == SocketPair \/ PrepareArtifact \/ FileActions \/ PosixSpawn \/ PidfdOpen
         \/ ReadLimit \/ WriteLimit \/ VerifyLimit \/ LinuxReturns \/ LinuxFails
         \/ PosixSpawnFails \/ ArgumentsThrow
Windows == CreatePipe \/ ConnectPipe \/ PrepareStartup \/ CreateJob \/ SetJobLimits
           \/ CreateProcess \/ AssignJob \/ ResumeThread \/ WindowsReturns
           \/ AssignJobFails \/ WindowsFails
Returned == (pc = "returned" \/ ~alive) /\ UNCHANGED vars

Next == Linux \/ Windows \/ Unwind \/ WorkerLowersLimit \/ ControllerDies \/ Returned

Spec == Init /\ [][Next]_vars
-----------------------------------------------------------------------------
Handles == {"channel", "worker_end", "artifact", "actions", "connect_event",
            "stderr_sink", "attribute_list", "job", "process", "thread"}

\* Types of the launch state.
TypeOK ==
    /\ platform \in {"linux", "windows"}
    /\ DOMAIN wants \subseteq Ceilings /\ \A c \in DOMAIN wants : wants[c] \in Limit
    /\ artifact \in BOOLEAN /\ guarded \in BOOLEAN /\ inJob \in BOOLEAN /\ alive \in BOOLEAN
    /\ held \subseteq Handles
    /\ child \in {"none", "suspended", "running", "dead"}
    /\ jobLimits \subseteq DOMAIN wants /\ done \subseteq DOMAIN wants
    /\ rlimit \in [Ceilings -> Pairs] /\ target \in Pairs

\* A failing launch leaves neither a process nor a descriptor or handle behind (the
\* memory of the file actions is not one).  A successful one
\* hands over the channel and a guarded child and keeps no copy of the worker's end,
\* without which the controller could never see end of file.
NothingLeaks ==
    pc = "returned" /\ alive =>
        IF result = "success"
        THEN /\ held = {"channel"} \cup (IF platform = "linux" THEN {}
                                         ELSE {"job", "process"})
             /\ child = "running" /\ guarded
        ELSE held \subseteq {"actions"} /\ child \in {"none", "dead"}

\* On Windows the worker does not execute an instruction outside a job that carries
\* every requested ceiling, and it dies with the controller; a process that was
\* still suspended can stay behind but never runs.
ConfinedBeforeRunning ==
    platform = "windows" =>
        /\ child = "running" => inJob /\ jobLimits = DOMAIN wants /\ alive
        /\ ~alive => child \in {"none", "suspended", "dead"}

\* On Linux the worker runs while its limits are lowered and may change them itself.
\* Still, a launch that succeeds has bounded every requested resource: neither the
\* soft nor the hard limit can exceed the request any more.
CeilingsHold ==
    platform = "linux" /\ result = "success" =>
        \A c \in DOMAIN wants : rlimit[c].cur <= wants[c] /\ rlimit[c].max <= wants[c]
=============================================================================
