------------------------- MODULE WorkerLaunchProofs -------------------------
(***************************************************************************)
(* The properties of WorkerLaunch for every set of ceilings and every       *)
(* limit.  None of them is inductive: that a launch which fails leaves no    *)
(* process depends on who owned the process at the call that failed, and a   *)
(* verified ceiling on what was read before the worker changed it.          *)
(***************************************************************************)
EXTENDS WorkerLaunch, TLAPS

BeforeSpawn == {"socketpair", "memfd", "write_artifact", "seal_artifact", "file_actions",
                "posix_spawn"}
Lowering == {"pidfd_open", "read_limit", "write_limit", "verify_limit"}
BeforeProcess == {"create_pipe", "connect_event", "open_client", "connected", "stderr_sink",
                  "attribute_list", "handle_list", "command_line", "create_job",
                  "set_job_limits", "create_process"}
Confining == {"assign_job", "resume_thread", "resumed"}
Ends == {"unwind", "returned"}

\* The calls of each platform, and when there is a result.
LabelsInv ==
    /\ platform = "linux" => pc \in BeforeSpawn \cup Lowering \cup Ends
    /\ platform = "windows" => pc \in BeforeProcess \cup Confining \cup Ends
    /\ pc \notin Ends => result = "none"
    /\ pc = "unwind" => result \notin {"none", "success"}

\* What is held before each call, besides the artifact.
Startup == {"channel", "connect_event", "worker_end", "stderr_sink", "attribute_list"}
HandlesInv ==
    alive =>
        /\ pc \in {"socketpair", "create_pipe"} => held = {}
        /\ pc \in {"memfd", "write_artifact", "seal_artifact", "file_actions"} =>
               held \ {"artifact"} = {"channel", "worker_end"}
        /\ pc = "posix_spawn" => held \ {"artifact"} = {"channel", "worker_end", "actions"}
        /\ pc \in Lowering => held \ {"artifact"} = {"channel"}
        /\ pc = "connect_event" => held = {"channel"}
        /\ pc = "open_client" => held = {"channel", "connect_event"}
        /\ pc \in {"connected", "stderr_sink"} =>
               held = {"channel", "connect_event", "worker_end"}
        /\ pc = "attribute_list" => held = Startup \ {"attribute_list"}
        /\ pc \in {"handle_list", "command_line", "create_job"} => held = Startup
        /\ pc \in {"set_job_limits", "create_process"} => held = Startup \cup {"job"}
        /\ pc = "assign_job" => held = Startup \cup {"job", "process", "thread"}
        /\ pc = "resume_thread" =>
               held = {"channel", "connect_event", "attribute_list", "job", "process", "thread"}
        /\ pc = "resumed" =>
               held = {"channel", "connect_event", "attribute_list", "job", "process"}

\* Who owns the process.
ProcessInv ==
    /\ platform = "linux" => ~inJob
    /\ pc \in BeforeSpawn \cup BeforeProcess => child = "none" /\ ~guarded /\ ~inJob
    /\ pc \in Lowering => child = "running" /\ guarded
    /\ pc = "assign_job" => child = "suspended" /\ ~guarded /\ ~inJob
    /\ pc = "resume_thread" => guarded /\ inJob /\ (alive => child = "suspended")
    /\ pc = "resumed" => guarded /\ inJob /\ (alive => child = "running")
    /\ pc = "unwind" => guarded \/ child \in {"none", "dead"}
    /\ pc \in Confining \cup {"create_process"} => jobLimits = DOMAIN wants

\* A limit pair that cannot exceed what was requested of a ceiling.
Within(pair, c) == pair.cur <= wants[c] /\ pair.max <= wants[c]

\* Installed ceilings stay in force, and what is being written is within the
\* request for the next one.
LimitsInv ==
    /\ \A c \in done : Within(rlimit[c], c)
    /\ pc \in {"write_limit", "verify_limit"} =>
           \A c \in DOMAIN wants : NextCeiling(c) => Within(target, c)
    /\ platform = "linux" /\ result = "success" => DOMAIN wants \subseteq done

Inv == /\ TypeOK /\ LabelsInv /\ HandlesInv /\ ProcessInv /\ LimitsInv
       /\ NothingLeaks /\ ConfinedBeforeRunning
-----------------------------------------------------------------------------
\* The initial states.
LEMMA InitInv == Init => Inv
  <1> SUFFICES ASSUME Init PROVE Inv
    OBVIOUS
  <1>1. DOMAIN wants \subseteq Ceilings /\ \A c \in DOMAIN wants : wants[c] \in Limit
    <2>1. PICK chosen \in SUBSET Ceilings : wants \in [chosen -> Limit]
      BY DEF Init
    <2> QED
      BY <2>1
  <1>2. rlimit \in [Ceilings -> Pairs] /\ target \in Pairs
    <2>1. {p \in Pairs : p.cur <= p.max} \subseteq Pairs
      OBVIOUS
    <2>2. 0 \in Limit
      BY LaunchAssumption DEF Limit
    <2> QED
      BY <2>1, <2>2 DEF Init, Pairs
  <1>3. TypeOK
    BY <1>1, <1>2 DEF Init, TypeOK
  <1>4. LabelsInv /\ HandlesInv /\ ProcessInv /\ NothingLeaks /\ ConfinedBeforeRunning
    BY DEF Init, LabelsInv, HandlesInv, ProcessInv, NothingLeaks, ConfinedBeforeRunning,
           BeforeSpawn, Lowering, BeforeProcess, Confining, Ends
  <1>5. LimitsInv
    BY DEF Init, LimitsInv
  <1> QED
    BY <1>3, <1>4, <1>5 DEF Inv

\* Lowering a pair of limits stays within the limits and the request.
LEMMA LoweredWithin ==
    ASSUME NEW current \in Pairs, NEW requested \in Limit
    PROVE  /\ Lowered(current, requested) \in Pairs
           /\ Lowered(current, requested).cur <= requested
           /\ Lowered(current, requested).max <= requested
  BY LaunchAssumption DEF Lowered, Smaller, Pairs, Limit

\* There is one next ceiling.
LEMMA NextCeilingUnique ==
    ASSUME TypeOK, NEW c \in DOMAIN wants, NEW d \in DOMAIN wants,
           NextCeiling(c), NextCeiling(d)
    PROVE  c = d
  <1>1. c \in Nat /\ d \in Nat
    BY LaunchAssumption DEF TypeOK
  <1>2. c <= d /\ d <= c
    BY DEF NextCeiling
  <1> QED
    BY <1>1, <1>2

\* Types are kept.
LEMMA TypeStep == Inv /\ [Next]_vars => TypeOK'
  <1> SUFFICES ASSUME Inv, [Next]_vars PROVE TypeOK'
    OBVIOUS
  <1> USE DEF Inv, TypeOK, processVars, limitVars
  <1>1. CASE SocketPair
    BY <1>1 DEF SocketPair, Call, Keep, Handles
  <1>2. CASE PrepareArtifact
    BY <1>2 DEF PrepareArtifact, Call, Keep, Handles
  <1>3. CASE FileActions
    BY <1>3 DEF FileActions, Call, Keep, Handles
  <1>4. CASE PosixSpawn
    BY <1>4 DEF PosixSpawn, Call, Handles
  <1>5. CASE PidfdOpen
    BY <1>5 DEF PidfdOpen, Call, Keep, Handles
  <1>6. CASE ReadLimit
    <2>1. PICK c \in DOMAIN wants : target' = Lowered(rlimit[c], wants[c])
      BY <1>6 DEF ReadLimit
    <2>2. target' \in Pairs
      BY <2>1, LoweredWithin
    <2> QED
      BY <1>6, <2>2 DEF ReadLimit, Call
  <1>7. CASE WriteLimit
    BY <1>7 DEF WriteLimit, Call, Handles
  <1>8. CASE VerifyLimit
    BY <1>8 DEF VerifyLimit, Call, Handles
  <1>9. CASE LinuxReturns
    BY <1>9 DEF LinuxReturns, Handles
  <1>10. CASE LinuxFails
    BY <1>10 DEF LinuxFails, Fails, Handles
  <1>11. CASE PosixSpawnFails
    BY <1>11 DEF PosixSpawnFails, Handles
  <1>12. CASE ArgumentsThrow
    BY <1>12 DEF ArgumentsThrow, Fails, Handles
  <1>13. CASE CreatePipe
    BY <1>13 DEF CreatePipe, Call, Keep, Handles
  <1>14. CASE ConnectPipe
    BY <1>14 DEF ConnectPipe, Call, Keep, Handles
  <1>15. CASE PrepareStartup
    BY <1>15 DEF PrepareStartup, Call, Keep, Handles
  <1>16. CASE CreateJob
    BY <1>16 DEF CreateJob, Call, Keep, Handles
  <1>17. CASE SetJobLimits
    BY <1>17 DEF SetJobLimits, Call, Handles
  <1>18. CASE CreateProcess
    BY <1>18 DEF CreateProcess, Call, Handles
  <1>19. CASE AssignJob
    BY <1>19 DEF AssignJob, Call, Handles
  <1>20. CASE ResumeThread
    BY <1>20 DEF ResumeThread, Call, Handles
  <1>21. CASE WindowsReturns
    BY <1>21 DEF WindowsReturns, Handles
  <1>22. CASE AssignJobFails
    BY <1>22 DEF AssignJobFails, Handles
  <1>23. CASE WindowsFails
    BY <1>23 DEF WindowsFails, Fails, Handles
  <1>24. CASE Unwind
    BY <1>24 DEF Unwind, Handles
  <1>25. CASE WorkerLowersLimit
    BY <1>25 DEF WorkerLowersLimit, Handles
  <1>26. CASE ControllerDies
    BY <1>26 DEF ControllerDies, Handles
  <1>27. CASE UNCHANGED vars
    BY <1>27 DEF vars
  <1> QED
    BY <1>1, <1>2, <1>3, <1>4, <1>5, <1>6, <1>7, <1>8, <1>9, <1>10, <1>11, <1>12, <1>13,
      <1>14, <1>15, <1>16, <1>17, <1>18, <1>19, <1>20, <1>21, <1>22, <1>23, <1>24, <1>25,
      <1>26, <1>27 DEF Next, Linux, Windows, Returned

\* Each call leads to a call of its platform.
LEMMA LabelsStep == Inv /\ [Next]_vars => LabelsInv'
  <1> SUFFICES ASSUME Inv, [Next]_vars PROVE LabelsInv'
    OBVIOUS
  <1> USE DEF Inv, TypeOK, LabelsInv, BeforeSpawn, Lowering, BeforeProcess, Confining, Ends
  <1>1. CASE SocketPair
    BY <1>1 DEF SocketPair, Call, Keep
  <1>2. CASE PrepareArtifact
    BY <1>2 DEF PrepareArtifact, Call, Keep
  <1>3. CASE FileActions
    BY <1>3 DEF FileActions, Call, Keep
  <1>4. CASE PosixSpawn
    BY <1>4 DEF PosixSpawn, Call
  <1>5. CASE PidfdOpen
    BY <1>5 DEF PidfdOpen, Call, Keep
  <1>6. CASE ReadLimit
    BY <1>6 DEF ReadLimit, Call
  <1>7. CASE WriteLimit
    BY <1>7 DEF WriteLimit, Call
  <1>8. CASE VerifyLimit
    BY <1>8 DEF VerifyLimit, Call
  <1>9. CASE LinuxReturns
    BY <1>9 DEF LinuxReturns
  <1>10. CASE LinuxFails
    BY <1>10 DEF LinuxFails, Fails
  <1>11. CASE PosixSpawnFails
    BY <1>11 DEF PosixSpawnFails
  <1>12. CASE ArgumentsThrow
    BY <1>12 DEF ArgumentsThrow, Fails
  <1>13. CASE CreatePipe
    BY <1>13 DEF CreatePipe, Call, Keep
  <1>14. CASE ConnectPipe
    BY <1>14 DEF ConnectPipe, Call, Keep
  <1>15. CASE PrepareStartup
    BY <1>15 DEF PrepareStartup, Call, Keep
  <1>16. CASE CreateJob
    BY <1>16 DEF CreateJob, Call, Keep
  <1>17. CASE SetJobLimits
    BY <1>17 DEF SetJobLimits, Call
  <1>18. CASE CreateProcess
    BY <1>18 DEF CreateProcess, Call
  <1>19. CASE AssignJob
    BY <1>19 DEF AssignJob, Call
  <1>20. CASE ResumeThread
    BY <1>20 DEF ResumeThread, Call
  <1>21. CASE WindowsReturns
    BY <1>21 DEF WindowsReturns
  <1>22. CASE AssignJobFails
    BY <1>22 DEF AssignJobFails
  <1>23. CASE WindowsFails
    BY <1>23 DEF WindowsFails, Fails
  <1>24. CASE Unwind
    BY <1>24 DEF Unwind
  <1>25. CASE WorkerLowersLimit
    BY <1>25 DEF WorkerLowersLimit
  <1>26. CASE ControllerDies
    BY <1>26 DEF ControllerDies
  <1>27. CASE UNCHANGED vars
    BY <1>27 DEF vars
  <1> QED
    BY <1>1, <1>2, <1>3, <1>4, <1>5, <1>6, <1>7, <1>8, <1>9, <1>10, <1>11, <1>12, <1>13,
      <1>14, <1>15, <1>16, <1>17, <1>18, <1>19, <1>20, <1>21, <1>22, <1>23, <1>24, <1>25,
      <1>26, <1>27 DEF Next, Linux, Windows, Returned

\* A call acquires and drops what the next one expects.
LEMMA HandlesStep == Inv /\ [Next]_vars => HandlesInv'
  <1> SUFFICES ASSUME Inv, [Next]_vars PROVE HandlesInv'
    OBVIOUS
  <1> USE DEF Inv, HandlesInv, Startup, Lowering
  <1>1. CASE SocketPair
    BY <1>1 DEF SocketPair, Call, Keep
  <1>2. CASE PrepareArtifact
    BY <1>2 DEF PrepareArtifact, Call, Keep
  <1>3. CASE FileActions
    BY <1>3 DEF FileActions, Call, Keep
  <1>4. CASE PosixSpawn
    BY <1>4 DEF PosixSpawn, Call
  <1>5. CASE PidfdOpen
    BY <1>5 DEF PidfdOpen, Call, Keep
  <1>6. CASE ReadLimit
    BY <1>6 DEF ReadLimit, Call
  <1>7. CASE WriteLimit
    BY <1>7 DEF WriteLimit, Call
  <1>8. CASE VerifyLimit
    BY <1>8 DEF VerifyLimit, Call
  <1>9. CASE LinuxReturns
    BY <1>9 DEF LinuxReturns
  <1>10. CASE LinuxFails
    BY <1>10 DEF LinuxFails, Fails
  <1>11. CASE PosixSpawnFails
    BY <1>11 DEF PosixSpawnFails
  <1>12. CASE ArgumentsThrow
    BY <1>12 DEF ArgumentsThrow, Fails
  <1>13. CASE CreatePipe
    BY <1>13 DEF CreatePipe, Call, Keep
  <1>14. CASE ConnectPipe
    BY <1>14 DEF ConnectPipe, Call, Keep
  <1>15. CASE PrepareStartup
    BY <1>15 DEF PrepareStartup, Call, Keep
  <1>16. CASE CreateJob
    BY <1>16 DEF CreateJob, Call, Keep
  <1>17. CASE SetJobLimits
    BY <1>17 DEF SetJobLimits, Call
  <1>18. CASE CreateProcess
    BY <1>18 DEF CreateProcess, Call
  <1>19. CASE AssignJob
    BY <1>19 DEF AssignJob, Call
  <1>20. CASE ResumeThread
    BY <1>20 DEF ResumeThread, Call
  <1>21. CASE WindowsReturns
    BY <1>21 DEF WindowsReturns
  <1>22. CASE AssignJobFails
    BY <1>22 DEF AssignJobFails
  <1>23. CASE WindowsFails
    BY <1>23 DEF WindowsFails, Fails
  <1>24. CASE Unwind
    BY <1>24 DEF Unwind
  <1>25. CASE WorkerLowersLimit
    BY <1>25 DEF WorkerLowersLimit
  <1>26. CASE ControllerDies
    BY <1>26 DEF ControllerDies
  <1>27. CASE UNCHANGED vars
    BY <1>27 DEF vars
  <1> QED
    BY <1>1, <1>2, <1>3, <1>4, <1>5, <1>6, <1>7, <1>8, <1>9, <1>10, <1>11, <1>12, <1>13,
      <1>14, <1>15, <1>16, <1>17, <1>18, <1>19, <1>20, <1>21, <1>22, <1>23, <1>24, <1>25,
      <1>26, <1>27 DEF Next, Linux, Windows, Returned

\* A process is owned from the call that makes it to the one that fails.
LEMMA ProcessStep == Inv /\ [Next]_vars => ProcessInv'
  <1> SUFFICES ASSUME Inv, [Next]_vars PROVE ProcessInv'
    OBVIOUS
  <1> USE DEF Inv, TypeOK, LabelsInv, ProcessInv, BeforeSpawn, Lowering, BeforeProcess,
      Confining, Ends, processVars, limitVars
  <1>1. CASE SocketPair
    BY <1>1 DEF SocketPair, Call, Keep
  <1>2. CASE PrepareArtifact
    BY <1>2 DEF PrepareArtifact, Call, Keep
  <1>3. CASE FileActions
    BY <1>3 DEF FileActions, Call, Keep
  <1>4. CASE PosixSpawn
    BY <1>4 DEF PosixSpawn, Call
  <1>5. CASE PidfdOpen
    BY <1>5 DEF PidfdOpen, Call, Keep
  <1>6. CASE ReadLimit
    BY <1>6 DEF ReadLimit, Call
  <1>7. CASE WriteLimit
    BY <1>7 DEF WriteLimit, Call
  <1>8. CASE VerifyLimit
    BY <1>8 DEF VerifyLimit, Call
  <1>9. CASE LinuxReturns
    BY <1>9 DEF LinuxReturns
  <1>10. CASE LinuxFails
    BY <1>10 DEF LinuxFails, Fails
  <1>11. CASE PosixSpawnFails
    BY <1>11 DEF PosixSpawnFails
  <1>12. CASE ArgumentsThrow
    BY <1>12 DEF ArgumentsThrow, Fails
  <1>13. CASE CreatePipe
    BY <1>13 DEF CreatePipe, Call, Keep
  <1>14. CASE ConnectPipe
    BY <1>14 DEF ConnectPipe, Call, Keep
  <1>15. CASE PrepareStartup
    BY <1>15 DEF PrepareStartup, Call, Keep
  <1>16. CASE CreateJob
    BY <1>16 DEF CreateJob, Call, Keep
  <1>17. CASE SetJobLimits
    BY <1>17 DEF SetJobLimits, Call
  <1>18. CASE CreateProcess
    BY <1>18 DEF CreateProcess, Call
  <1>19. CASE AssignJob
    BY <1>19 DEF AssignJob, Call
  <1>20. CASE ResumeThread
    BY <1>20 DEF ResumeThread, Call
  <1>21. CASE WindowsReturns
    BY <1>21 DEF WindowsReturns
  <1>22. CASE AssignJobFails
    BY <1>22 DEF AssignJobFails
  <1>23. CASE WindowsFails
    BY <1>23 DEF WindowsFails, Fails
  <1>24. CASE Unwind
    BY <1>24 DEF Unwind
  <1>25. CASE WorkerLowersLimit
    BY <1>25 DEF WorkerLowersLimit
  <1>26. CASE ControllerDies
    BY <1>26 DEF ControllerDies
  <1>27. CASE UNCHANGED vars
    BY <1>27 DEF vars
  <1> QED
    BY <1>1, <1>2, <1>3, <1>4, <1>5, <1>6, <1>7, <1>8, <1>9, <1>10, <1>11, <1>12, <1>13,
      <1>14, <1>15, <1>16, <1>17, <1>18, <1>19, <1>20, <1>21, <1>22, <1>23, <1>24, <1>25,
      <1>26, <1>27 DEF Next, Linux, Windows, Returned

\* An installed ceiling stays, and the pair being written is within the request.
LEMMA LimitsStep == Inv /\ [Next]_vars => LimitsInv'
  <1> SUFFICES ASSUME Inv, [Next]_vars PROVE LimitsInv'
    OBVIOUS
  <1> USE DEF Inv, processVars, limitVars
  <1>1. CASE SocketPair
    BY <1>1 DEF SocketPair, Call, Keep, LabelsInv, LimitsInv, Within, NextCeiling,
      BeforeSpawn, Lowering, BeforeProcess, Confining, Ends, TypeOK
  <1>2. CASE PrepareArtifact
    BY <1>2 DEF PrepareArtifact, Call, Keep, LabelsInv, LimitsInv, Within, NextCeiling,
      BeforeSpawn, Lowering, BeforeProcess, Confining, Ends, TypeOK
  <1>3. CASE FileActions
    BY <1>3 DEF FileActions, Call, Keep, LabelsInv, LimitsInv, Within, NextCeiling,
      BeforeSpawn, Lowering, BeforeProcess, Confining, Ends, TypeOK
  <1>4. CASE PosixSpawn
    BY <1>4 DEF PosixSpawn, Call, LabelsInv, LimitsInv, Within, NextCeiling, BeforeSpawn,
      Lowering, BeforeProcess, Confining, Ends, TypeOK
  <1>5. CASE PidfdOpen
    BY <1>5 DEF PidfdOpen, Call, Keep, LabelsInv, LimitsInv, Within, NextCeiling,
      BeforeSpawn, Lowering, BeforeProcess, Confining, Ends, TypeOK
  <1>6. CASE ReadLimit
    <2>1. PICK c \in DOMAIN wants : NextCeiling(c) /\ target' = Lowered(rlimit[c], wants[c])
      BY <1>6 DEF ReadLimit
    <2>2. rlimit[c] \in Pairs /\ wants[c] \in Limit
      BY DEF TypeOK
    <2>3. target'.cur <= wants[c] /\ target'.max <= wants[c]
      BY <2>1, <2>2, LoweredWithin
    <2>4. UNCHANGED <<wants, done, rlimit, platform, result>> /\ pc' = "write_limit"
      BY <1>6 DEF ReadLimit, Call
    <2>5. ASSUME NEW d \in DOMAIN wants', NextCeiling(d)' PROVE Within(target, d)'
      <3>1. NextCeiling(d)
        BY <2>4, <2>5 DEF NextCeiling
      <3>2. d = c
        BY <2>1, <2>4, <3>1, NextCeilingUnique
      <3> QED
        BY <2>3, <2>4, <3>2 DEF Within
    <2>6. \A d \in done' : Within(rlimit[d], d)'
      BY <2>4 DEF LimitsInv, Within
    <2> QED
      BY <2>4, <2>5, <2>6 DEF LimitsInv
  <1>7. CASE WriteLimit
    <2>1. PICK c \in DOMAIN wants : /\ NextCeiling(c)
                                    /\ rlimit' = [rlimit EXCEPT ![c] = target]
      BY <1>7 DEF WriteLimit
    <2>2. /\ UNCHANGED <<wants, done, target, platform, result>>
          /\ pc = "write_limit" /\ pc' = "verify_limit"
      BY <1>7 DEF WriteLimit, Call
    <2>3. \A d \in done' : Within(rlimit[d], d)'
      BY <2>1, <2>2 DEF LimitsInv, Within, NextCeiling, TypeOK
    <2>4. \A d \in DOMAIN wants' : NextCeiling(d)' => Within(target, d)'
      BY <2>2 DEF LimitsInv, Within, NextCeiling
    <2> QED
      BY <2>2, <2>3, <2>4 DEF LimitsInv
  <1>8. CASE VerifyLimit
    <2>1. PICK c \in DOMAIN wants : /\ NextCeiling(c) /\ rlimit[c] = target
                                    /\ done' = done \cup {c}
      BY <1>8 DEF VerifyLimit
    <2>2. /\ UNCHANGED <<wants, rlimit, target, platform, result>>
          /\ pc = "verify_limit" /\ pc' = "read_limit"
      BY <1>8 DEF VerifyLimit, Call
    <2>3. Within(rlimit[c], c)
      BY <2>1, <2>2 DEF LimitsInv
    <2> QED
      BY <2>1, <2>2, <2>3 DEF LimitsInv, Within
  <1>9. CASE LinuxReturns
    BY <1>9 DEF LinuxReturns, LabelsInv, LimitsInv, Within, NextCeiling, BeforeSpawn,
      Lowering, BeforeProcess, Confining, Ends, TypeOK
  <1>10. CASE LinuxFails
    BY <1>10 DEF LinuxFails, Fails, LabelsInv, LimitsInv, Within, NextCeiling, BeforeSpawn,
      Lowering, BeforeProcess, Confining, Ends, TypeOK
  <1>11. CASE PosixSpawnFails
    BY <1>11 DEF PosixSpawnFails, LabelsInv, LimitsInv, Within, NextCeiling, BeforeSpawn,
      Lowering, BeforeProcess, Confining, Ends, TypeOK
  <1>12. CASE ArgumentsThrow
    BY <1>12 DEF ArgumentsThrow, Fails, LabelsInv, LimitsInv, Within, NextCeiling,
      BeforeSpawn, Lowering, BeforeProcess, Confining, Ends, TypeOK
  <1>13. CASE CreatePipe
    BY <1>13 DEF CreatePipe, Call, Keep, LabelsInv, LimitsInv, Within, NextCeiling,
      BeforeSpawn, Lowering, BeforeProcess, Confining, Ends, TypeOK
  <1>14. CASE ConnectPipe
    BY <1>14 DEF ConnectPipe, Call, Keep, LabelsInv, LimitsInv, Within, NextCeiling,
      BeforeSpawn, Lowering, BeforeProcess, Confining, Ends, TypeOK
  <1>15. CASE PrepareStartup
    BY <1>15 DEF PrepareStartup, Call, Keep, LabelsInv, LimitsInv, Within, NextCeiling,
      BeforeSpawn, Lowering, BeforeProcess, Confining, Ends, TypeOK
  <1>16. CASE CreateJob
    BY <1>16 DEF CreateJob, Call, Keep, LabelsInv, LimitsInv, Within, NextCeiling,
      BeforeSpawn, Lowering, BeforeProcess, Confining, Ends, TypeOK
  <1>17. CASE SetJobLimits
    BY <1>17 DEF SetJobLimits, Call, LabelsInv, LimitsInv, Within, NextCeiling, BeforeSpawn,
      Lowering, BeforeProcess, Confining, Ends, TypeOK
  <1>18. CASE CreateProcess
    BY <1>18 DEF CreateProcess, Call, LabelsInv, LimitsInv, Within, NextCeiling,
      BeforeSpawn, Lowering, BeforeProcess, Confining, Ends, TypeOK
  <1>19. CASE AssignJob
    BY <1>19 DEF AssignJob, Call, LabelsInv, LimitsInv, Within, NextCeiling, BeforeSpawn,
      Lowering, BeforeProcess, Confining, Ends, TypeOK
  <1>20. CASE ResumeThread
    BY <1>20 DEF ResumeThread, Call, LabelsInv, LimitsInv, Within, NextCeiling, BeforeSpawn,
      Lowering, BeforeProcess, Confining, Ends, TypeOK
  <1>21. CASE WindowsReturns
    BY <1>21 DEF WindowsReturns, LabelsInv, LimitsInv, Within, NextCeiling, BeforeSpawn,
      Lowering, BeforeProcess, Confining, Ends, TypeOK
  <1>22. CASE AssignJobFails
    BY <1>22 DEF AssignJobFails, LabelsInv, LimitsInv, Within, NextCeiling, BeforeSpawn,
      Lowering, BeforeProcess, Confining, Ends, TypeOK
  <1>23. CASE WindowsFails
    BY <1>23 DEF WindowsFails, Fails, LabelsInv, LimitsInv, Within, NextCeiling,
      BeforeSpawn, Lowering, BeforeProcess, Confining, Ends, TypeOK
  <1>24. CASE Unwind
    BY <1>24 DEF Unwind, LabelsInv, LimitsInv, Within, NextCeiling, BeforeSpawn, Lowering,
      BeforeProcess, Confining, Ends, TypeOK
  <1>25. CASE WorkerLowersLimit
    <2>1. PICK c \in Ceilings, p \in Pairs :
              /\ p.cur <= p.max /\ p.max <= rlimit[c].max
              /\ rlimit' = [rlimit EXCEPT ![c] = p]
      BY <1>25 DEF WorkerLowersLimit
    <2>2. UNCHANGED <<wants, done, target, platform, result, pc>>
      BY <1>25 DEF WorkerLowersLimit
    <2>3. ASSUME NEW d \in done PROVE Within(rlimit[d], d)'
      <3>1. d \in Ceilings /\ wants[d] \in Limit /\ rlimit[d] \in Pairs
        BY DEF TypeOK
      <3>2. Within(rlimit[d], d)
        BY DEF LimitsInv
      <3>3. rlimit'[d] = IF d = c THEN p ELSE rlimit[d]
        BY <2>1, <3>1 DEF TypeOK
      <3> QED
        BY <2>1, <2>2, <3>1, <3>2, <3>3, LaunchAssumption DEF Within, Pairs, Limit
    <2>4. \A d \in DOMAIN wants' : NextCeiling(d)' => NextCeiling(d)
      BY <2>2 DEF NextCeiling
    <2> QED
      BY <2>2, <2>3, <2>4 DEF LimitsInv, Within
  <1>26. CASE ControllerDies
    BY <1>26 DEF ControllerDies, LabelsInv, LimitsInv, Within, NextCeiling, BeforeSpawn,
      Lowering, BeforeProcess, Confining, Ends, TypeOK
  <1>27. CASE UNCHANGED vars
    BY <1>27 DEF vars, LimitsInv, Within, NextCeiling
  <1> QED
    BY <1>1, <1>2, <1>3, <1>4, <1>5, <1>6, <1>7, <1>8, <1>9, <1>10, <1>11, <1>12, <1>13,
      <1>14, <1>15, <1>16, <1>17, <1>18, <1>19, <1>20, <1>21, <1>22, <1>23, <1>24, <1>25,
      <1>26, <1>27 DEF Next, Linux, Windows, Returned

\* The two properties of the launch as a whole.
LEMMA OutcomeStep == Inv /\ [Next]_vars => (NothingLeaks /\ ConfinedBeforeRunning)'
  <1> SUFFICES ASSUME Inv, [Next]_vars PROVE (NothingLeaks /\ ConfinedBeforeRunning)'
    OBVIOUS
  <1> USE DEF Inv, TypeOK, LabelsInv, HandlesInv, ProcessInv, NothingLeaks,
      ConfinedBeforeRunning, BeforeSpawn, Lowering, BeforeProcess, Confining, Ends,
      processVars, limitVars
  <1>1. CASE SocketPair
    BY <1>1 DEF SocketPair, Call, Keep
  <1>2. CASE PrepareArtifact
    BY <1>2 DEF PrepareArtifact, Call, Keep
  <1>3. CASE FileActions
    BY <1>3 DEF FileActions, Call, Keep
  <1>4. CASE PosixSpawn
    BY <1>4 DEF PosixSpawn, Call
  <1>5. CASE PidfdOpen
    BY <1>5 DEF PidfdOpen, Call, Keep
  <1>6. CASE ReadLimit
    BY <1>6 DEF ReadLimit, Call
  <1>7. CASE WriteLimit
    BY <1>7 DEF WriteLimit, Call
  <1>8. CASE VerifyLimit
    BY <1>8 DEF VerifyLimit, Call
  <1>9. CASE LinuxReturns
    BY <1>9 DEF LinuxReturns
  <1>10. CASE LinuxFails
    BY <1>10 DEF LinuxFails, Fails
  <1>11. CASE PosixSpawnFails
    BY <1>11 DEF PosixSpawnFails
  <1>12. CASE ArgumentsThrow
    BY <1>12 DEF ArgumentsThrow, Fails
  <1>13. CASE CreatePipe
    BY <1>13 DEF CreatePipe, Call, Keep
  <1>14. CASE ConnectPipe
    BY <1>14 DEF ConnectPipe, Call, Keep
  <1>15. CASE PrepareStartup
    BY <1>15 DEF PrepareStartup, Call, Keep
  <1>16. CASE CreateJob
    BY <1>16 DEF CreateJob, Call, Keep
  <1>17. CASE SetJobLimits
    BY <1>17 DEF SetJobLimits, Call
  <1>18. CASE CreateProcess
    BY <1>18 DEF CreateProcess, Call
  <1>19. CASE AssignJob
    BY <1>19 DEF AssignJob, Call
  <1>20. CASE ResumeThread
    BY <1>20 DEF ResumeThread, Call
  <1>21. CASE WindowsReturns
    BY <1>21 DEF WindowsReturns
  <1>22. CASE AssignJobFails
    BY <1>22 DEF AssignJobFails
  <1>23. CASE WindowsFails
    BY <1>23 DEF WindowsFails, Fails
  <1>24. CASE Unwind
    BY <1>24 DEF Unwind
  <1>25. CASE WorkerLowersLimit
    BY <1>25 DEF WorkerLowersLimit
  <1>26. CASE ControllerDies
    BY <1>26 DEF ControllerDies
  <1>27. CASE UNCHANGED vars
    BY <1>27 DEF vars
  <1> QED
    BY <1>1, <1>2, <1>3, <1>4, <1>5, <1>6, <1>7, <1>8, <1>9, <1>10, <1>11, <1>12, <1>13,
      <1>14, <1>15, <1>16, <1>17, <1>18, <1>19, <1>20, <1>21, <1>22, <1>23, <1>24, <1>25,
      <1>26, <1>27 DEF Next, Linux, Windows, Returned

\* Every step keeps the invariant.
LEMMA Inductive == Inv /\ [Next]_vars => Inv'
  BY TypeStep, LabelsStep, HandlesStep, ProcessStep, LimitsStep, OutcomeStep DEF Inv

\* The invariant holds throughout.
LEMMA Invariance == Spec => []Inv
  BY InitInv, Inductive, PTL DEF Spec

\* Whatever the ceilings, a launch that fails leaves no process and no handle, and
\* one that succeeds hands over exactly the channel and a guarded worker
\* (spawn_worker and its destructors).
THEOREM LaunchLeaksNothing == Spec => []NothingLeaks
  <1>1. Inv => NothingLeaks
    BY DEF Inv
  <1> QED
    BY Invariance, <1>1, PTL

\* Whatever the ceilings, a worker on Windows runs only inside a job that carries all
\* of them, and never without its controller (AssignProcessToJobObject before
\* ResumeThread).
THEOREM LaunchConfines == Spec => []ConfinedBeforeRunning
  <1>1. Inv => ConfinedBeforeRunning
    BY DEF Inv
  <1> QED
    BY Invariance, <1>1, PTL

\* Whatever the ceilings and whatever the running worker does to its own limits, a
\* launch that succeeds on Linux has bounded every requested resource
\* (apply_linux_resource_policy).
THEOREM LaunchCeilingsHold == Spec => []CeilingsHold
  <1>1. Inv => CeilingsHold
    BY DEF Inv, LimitsInv, CeilingsHold, Within
  <1> QED
    BY Invariance, <1>1, PTL
=============================================================================
