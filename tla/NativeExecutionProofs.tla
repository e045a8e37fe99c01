----------------------- MODULE NativeExecutionProofs ------------------------
(***************************************************************************)
(* What an entry takes over it puts back, and faults of the host still      *)
(* reach the host meanwhile, for any number of callers, of signals and of   *)
(* images.  Neither is inductive: both need to know, at every turn of the   *)
(* loops over the signals, which dispositions are saved and which replaced. *)
(***************************************************************************)
EXTENDS NativeExecution, TLAPS

Linux == {"altstack", "saving", "installing", "armed", "restoring"}
Windows == {"reserved", "protected", "addhandler", "removehandler"}
Inside == {"locked", "mapped", "gated", "guest", "landed", "leaving", "unlocking"}
              \cup Linux \cup Windows
Dispositions == {"original", "guest", "unset"}

\* The control points of each platform, and the types the argument needs.
TypeInv ==
    /\ platform \in {"linux", "windows"} /\ unrestored \in BOOLEAN
    /\ pc \in [Callers -> Inside \cup {"idle", "validated"}]
    /\ \A c \in Callers : pc[c] \notin (IF platform = "linux" THEN Windows ELSE Linux)
    /\ count \in [Callers -> Int] /\ frame \in [Callers -> BOOLEAN]
    /\ action \in [SignalIndex -> Dispositions]
    /\ previous \in [SignalIndex -> Dispositions]
    /\ handlers \subseteq Callers /\ gates \subseteq Callers

\* One caller at a time is past the mutex, and that is the one that holds it.
LockInv ==
    /\ lock \in Callers \cup {NoCaller}
    /\ \A c \in Callers : pc[c] \in Inside <=> lock = c

\* An entry starts its loops at the first signal.
StartInv == \A c \in Callers :
    pc[c] \in {"validated", "locked", "reserved", "mapped", "protected", "gated",
               "altstack"} => count[c] = 1

Untouched == \A i \in SignalIndex : action[i] = "original"
Saved == \A i \in SignalIndex : previous[i] = "original"
Replaced == \A i \in SignalIndex : action[i] \in {"original", "guest"}

\* What the holder of the mutex has taken over at each of its control points.
HolderInv(c) ==
    /\ handlers \subseteq {c} /\ gates \subseteq {c}
    /\ handlers # {} => /\ platform = "windows"
                         /\ pc[c] \in {"guest", "landed", "removehandler"}
    /\ pc[c] \in {"locked", "unlocking"} => gates = {}
    /\ \A d \in Callers : frame[d] => d = c /\ pc[c] \in {"guest", "landed"}
    /\ pc[c] \notin {"installing", "armed", "guest", "landed", "restoring"}
          \/ platform = "windows" => Untouched
    /\ pc[c] \in {"saving", "installing"} => count[c] \in SignalIndex
    /\ pc[c] = "saving" =>
          \A i \in SignalIndex : i < count[c] => previous[i] = "original"
    /\ platform = "linux" /\ pc[c] \in {"installing", "armed", "guest", "landed", "restoring"}
          => Saved /\ count[c] > 0
    /\ pc[c] \in {"installing", "restoring"} =>
          \A i \in SignalIndex : i >= count[c] => action[i] = "original"
    /\ platform = "linux" /\ pc[c] \in {"armed", "guest", "landed"} =>
          count[c] = Len(GuestSignals) + 1

\* Unless the host has refused to undo a step.
EnvironmentInv ==
    ~unrestored =>
        /\ lock = NoCaller => /\ Untouched /\ handlers = {} /\ gates = {}
                              /\ \A c \in Callers : ~frame[c]
        /\ \A c \in Callers : lock = c => HolderInv(c)
        /\ Replaced

\* The entry that could not undo a step is going to return an error.
Codes == {"invalid_guest_context", "host_page_arithmetic_overflow",
          "guest_address_unavailable", "host_mapping_failure",
          "host_protection_failure", "instruction_cache_sync_failure",
          "recovery_setup_failure", "syscall_interception_setup_failure"}
ReportInv ==
    /\ fault \in [Callers -> Codes \cup {"none"}]
    /\ unrestored => \A c \in Callers : lock = c => fault[c] # "none"

Inv == /\ TypeInv /\ LockInv /\ StartInv /\ EnvironmentInv /\ HostFaultsReachHost
       /\ ReportInv

GateWork(c) == MapGate(c) \/ CommitGate(c) \/ ProtectGate(c) \/ FlushGate(c)
-----------------------------------------------------------------------------
\* A fault or a system call of the guest touches only the control point, the event
\* and what becomes of a fault that is passed on.
LEMMA GuestLeaves ==
    ASSUME NEW c \in Callers, GuestFaults(c) \/ GuestSyscall(c)
    PROVE  /\ pc[c] = "guest" /\ (pc' = pc \/ pc' = [pc EXCEPT ![c] = "landed"])
           /\ UNCHANGED <<platform, unrestored, process, count, frame>>
           /\ hostFault' = hostFault \/ \E i \in SignalIndex :
                  hostFault' = IF platform = "linux" THEN Passed(i) ELSE "original"
  <1>1. \A sig \in Signals : IndexOf(sig) \in SignalIndex
    BY DEF Signals, IndexOf
  <1>2. "SIGSYS" \in Signals
    BY SignalsAssumption DEF Signals, SignalIndex
  <1>3. CASE GuestFaults(c)
    BY <1>1, <1>3 DEF GuestFaults, Handle, Goto, Chain
  <1>4. CASE GuestSyscall(c)
    BY <1>1, <1>2, <1>4 DEF GuestSyscall, Goto, Chain
  <1> QED
    BY <1>3, <1>4

\* A step of prepare moves on, or gives up with an error; it touches nothing but the
\* mapping of the gates.
LEMMA GateSteps ==
    ASSUME platform \in {"linux", "windows"}, NEW c \in Callers, GateWork(c)
    PROVE  /\ pc[c] \in {"locked", "reserved", "mapped", "protected"}
           /\ \E label \in {"reserved", "mapped", "protected", "gated", "leaving"} :
                  /\ pc' = [pc EXCEPT ![c] = label]
                  /\ label \in {"reserved", "protected"} => platform = "windows"
           /\ gates' = gates \/ gates' = gates \cup {c} \/ gates' = gates \ {c}
           /\ fault' = fault \/ \E code \in Codes : FailsWith(c, code)
           /\ UNCHANGED <<hostState, lock, action, previous, handlers, count, frame>>
  <1>1. CASE MapGate(c)
    <2>1. /\ pc[c] = "locked"
          /\ UNCHANGED <<hostState, lock, action, previous, handlers, count, frame>>
      BY <1>1 DEF MapGate
    <2>2. CASE Goto(c, "gated") /\ UNCHANGED <<gates, fault>>
      BY <2>1, <2>2 DEF Goto
    <2>3. CASE /\ gates' = gates \cup {c} /\ UNCHANGED fault
               /\ Goto(c, IF platform = "linux" THEN "mapped" ELSE "reserved")
      BY <2>1, <2>3 DEF Goto
    <2>4. CASE /\ Goto(c, "leaving") /\ UNCHANGED gates
               /\ IF GateRefusal(Image(c)) # "none"
                  THEN FailsWith(c, GateRefusal(Image(c)))
                  ELSE \E code \in {"guest_address_unavailable",
                                    "host_mapping_failure"} : FailsWith(c, code)
      <3>1. GateRefusal(Image(c)) \in Codes \cup {"none"}
        BY DEF GateRefusal, Codes
      <3>2. \E code \in Codes : FailsWith(c, code)
        BY <2>4, <3>1 DEF Codes
      <3> QED
        BY <2>1, <2>4, <3>2 DEF Goto
    <2> QED
      BY <1>1, <2>2, <2>3, <2>4 DEF MapGate
  <1>2. ASSUME NEW label, NEW next \in {"mapped", "protected", "gated"},
               NEW codes \in SUBSET Codes, GateStep(c, label, next, codes),
               label \in {"reserved", "mapped", "protected"},
               next = "protected" => platform = "windows"
        PROVE  /\ pc[c] \in {"locked", "reserved", "mapped", "protected"}
               /\ \E to \in {"reserved", "mapped", "protected", "gated", "leaving"} :
                      /\ pc' = [pc EXCEPT ![c] = to]
                      /\ to \in {"reserved", "protected"} => platform = "windows"
               /\ gates' = gates \/ gates' = gates \cup {c} \/ gates' = gates \ {c}
               /\ fault' = fault \/ \E code \in Codes : FailsWith(c, code)
               /\ UNCHANGED <<hostState, lock, action, previous, handlers, count, frame>>
    <2>1. /\ pc[c] = label
          /\ UNCHANGED <<hostState, lock, action, previous, handlers, count, frame>>
      BY <1>2 DEF GateStep
    <2>2. CASE Goto(c, next) /\ UNCHANGED <<gates, fault>>
      BY <1>2, <2>1, <2>2 DEF Goto
    <2>3. CASE /\ gates' = gates \ {c} /\ Goto(c, "leaving")
               /\ \E code \in codes : FailsWith(c, code)
      <3>1. \E code \in Codes : FailsWith(c, code)
        BY <2>3
      <3> QED
        BY <1>2, <2>1, <2>3, <3>1 DEF Goto
    <2> QED
      BY <1>2, <2>2, <2>3 DEF GateStep
  <1>3. CASE CommitGate(c)
    <2>1. {"host_mapping_failure", "guest_address_unavailable"} \in SUBSET Codes
      BY DEF Codes
    <2> QED
      BY <1>2, <1>3, <2>1 DEF CommitGate
  <1>4. CASE ProtectGate(c)
    <2>1. {"host_protection_failure"} \in SUBSET Codes
      BY DEF Codes
    <2>2. CASE platform = "linux"
      BY <1>2, <1>4, <2>1, <2>2 DEF ProtectGate
    <2>3. CASE platform = "windows"
      BY <1>2, <1>4, <2>1, <2>3 DEF ProtectGate
    <2> QED
      BY <2>2, <2>3
  <1>5. CASE FlushGate(c)
    <2>1. {"instruction_cache_sync_failure"} \in SUBSET Codes
      BY DEF Codes
    <2> QED
      BY <1>2, <1>5, <2>1 DEF FlushGate
  <1> QED
    BY <1>1, <1>3, <1>4, <1>5 DEF GateWork

\* The loops run over the signals in the order of the array.
LEMMA SignalRange ==
    /\ SignalIndex = 1 .. Len(GuestSignals)
    /\ Len(GuestSignals) \in Nat \ {0}
  BY SignalsAssumption DEF SignalIndex

\* Nothing is taken over when the process starts.
LEMMA Initially == Init => Inv
  <1> SUFFICES ASSUME Init PROVE Inv
    OBVIOUS
  <1>1. TypeInv
    <2>1. pc \in [Callers -> Inside \cup {"idle", "validated"}] /\ count \in [Callers -> Int]
      BY DEF Init
    <2>2. \A c \in Callers : pc[c] \notin Windows \cup Linux
      BY DEF Init, Linux, Windows
    <2>3. frame \in [Callers -> BOOLEAN] /\ unrestored \in BOOLEAN
      BY DEF Init
    <2>4. /\ action \in [SignalIndex -> Dispositions]
          /\ previous \in [SignalIndex -> Dispositions]
      BY DEF Init, Dispositions
    <2> QED
      BY <2>1, <2>2, <2>3, <2>4 DEF Init, TypeInv
  <1>2. LockInv /\ StartInv
    BY NoCallerAssumption DEF Init, LockInv, StartInv, Inside, Linux, Windows
  <1>3. EnvironmentInv /\ HostFaultsReachHost /\ ReportInv
    BY NoCallerAssumption
    DEF Init, EnvironmentInv, HostFaultsReachHost, ReportInv, Untouched, Replaced
  <1> QED
    BY <1>1, <1>2, <1>3 DEF Inv

\* Types are kept.
LEMMA TypeStep == Inv /\ [Next]_vars => TypeInv'
  <1> SUFFICES ASSUME Inv, [Next]_vars PROVE TypeInv'
    OBVIOUS
  <1> USE DEF Inv, TypeInv, Inside, Linux, Windows, Dispositions
  <1>1. CASE UNCHANGED vars
    BY <1>1 DEF vars
  <1>2. CASE HostFaults
    BY <1>2 DEF HostFaults, process
  <1>3. ASSUME NEW c \in Callers, CallerNext(c)
        PROVE  TypeInv'
    <2>1. CASE Enter(c)
      BY <2>1 DEF Enter, Goto, hostState, process
    <2>2. CASE TryLock(c)
      BY <2>2 DEF TryLock, Goto, Forget, hostState, process
    <2>3. CASE GateWork(c)
      BY <2>3, GateSteps DEF hostState
    <2>4. CASE StartThread(c)
      BY <2>4 DEF StartThread, Goto, FailsWith, hostState, process
    <2>5. CASE SetAlternateStack(c)
      BY <2>5 DEF SetAlternateStack, Goto, FailsWith, hostState, process
    <2>6. CASE SaveAction(c)
      <3>7. /\ pc[c] = "saving"
            /\ \/ pc' = pc
               \/ \E to \in {"installing", "leaving"} : pc' = [pc EXCEPT ![c] = to]
        BY <2>6 DEF SaveAction, Goto
      <3>1. pc' \in [Callers -> Inside \cup {"idle", "validated"}]
        BY <3>7
      <3>2. \A d \in Callers : pc'[d] \notin (IF platform = "linux" THEN Windows ELSE Linux)
        BY <3>7
      <3>3. count' \in [Callers -> Int]
        BY <2>6 DEF SaveAction
      <3>4. previous' = [previous EXCEPT ![count[c]] = action[count[c]]] \/ previous' = previous
        BY <2>6 DEF SaveAction
      <3>5. action[count[c]] \in Dispositions \/ count[c] \notin SignalIndex
        OBVIOUS
      <3>6. previous' \in [SignalIndex -> Dispositions]
        BY <3>4, <3>5
      <3> QED
        BY <2>6, <3>1, <3>2, <3>3, <3>6 DEF SaveAction, hostState
    <2>7. CASE InstallAction(c)
      <3>1. pc' \in [Callers -> Inside \cup {"idle", "validated"}]
        BY <2>7 DEF InstallAction, Goto
      <3>2. \A d \in Callers : pc'[d] \notin (IF platform = "linux" THEN Windows ELSE Linux)
        BY <2>7 DEF InstallAction, Goto
      <3>3. count' \in [Callers -> Int]
        BY <2>7 DEF InstallAction
      <3>4. action' = [action EXCEPT ![count[c]] = "guest"] \/ action' = action
        BY <2>7 DEF InstallAction
      <3>5. action' \in [SignalIndex -> Dispositions]
        BY <3>4
      <3> QED
        BY <2>7, <3>1, <3>2, <3>3, <3>5 DEF InstallAction, hostState
    <2>8. CASE EnterGuest(c)
      BY <2>8 DEF EnterGuest, Goto, FailsWith, hostState, process
    <2>9. CASE AddHandler(c)
      BY <2>9 DEF AddHandler, Goto, FailsWith, hostState, process
    <2>10. CASE GuestFaults(c)
      BY <2>10, GuestLeaves DEF process
    <2>11. CASE GuestSyscall(c)
      BY <2>11, GuestLeaves DEF process
    <2>12. CASE Land(c)
      BY <2>12 DEF Land, Goto, hostState, process
    <2>13. CASE RestoreAction(c)
      <3>1. pc' \in [Callers -> Inside \cup {"idle", "validated"}]
        BY <2>13 DEF RestoreAction, Goto
      <3>2. \A d \in Callers : pc'[d] \notin (IF platform = "linux" THEN Windows ELSE Linux)
        BY <2>13 DEF RestoreAction, Goto
      <3>3. count' \in [Callers -> Int] /\ action' \in [SignalIndex -> Dispositions]
        BY <2>13 DEF RestoreAction
      <3>4. unrestored' \in BOOLEAN
        BY <2>13 DEF RestoreAction
      <3> QED
        BY <2>13, <3>1, <3>2, <3>3, <3>4 DEF RestoreAction
    <2>14. CASE RemoveHandler(c)
      BY <2>14 DEF RemoveHandler, Goto, FailsWith, hostState, process
    <2>15. CASE UnmapGate(c)
      BY <2>15 DEF UnmapGate, Goto, hostState, process
    <2>16. CASE Unlock(c)
      BY <2>16 DEF Unlock, Goto, Forget, hostState, process
    <2> QED
      BY <1>3, <2>1, <2>2, <2>3, <2>4, <2>5, <2>6, <2>7, <2>8,
         <2>9, <2>10, <2>11, <2>12, <2>13, <2>14, <2>15, <2>16
      DEF CallerNext, GateWork
  <1> QED
    BY <1>1, <1>2, <1>3 DEF Next

\* The mutex is held by the one caller that is past it.
LEMMA LockStep == Inv /\ [Next]_vars => LockInv'
  <1> SUFFICES ASSUME Inv, [Next]_vars PROVE LockInv'
    OBVIOUS
  <1> USE DEF Inv, LockInv, TypeInv, Inside, Linux, Windows
  <1>1. CASE UNCHANGED vars
    BY <1>1 DEF vars
  <1>2. CASE HostFaults
    BY <1>2 DEF HostFaults, process
  <1>3. ASSUME NEW c \in Callers, CallerNext(c)
        PROVE  LockInv'
    <2>1. CASE Enter(c)
      BY <2>1 DEF Enter, Goto, hostState, process
    <2>2. CASE TryLock(c)
      <3>1. CASE lock = NoCaller
        BY <2>2, <3>1, NoCallerAssumption DEF TryLock, Goto
      <3>2. CASE lock # NoCaller
        BY <2>2, <3>2 DEF TryLock, Goto, Forget
      <3> QED
        BY <3>1, <3>2
    <2>3. CASE GateWork(c)
      BY <2>3, GateSteps DEF hostState
    <2>4. CASE StartThread(c)
      BY <2>4 DEF StartThread, Goto, FailsWith, hostState, process
    <2>5. CASE SetAlternateStack(c)
      BY <2>5 DEF SetAlternateStack, Goto, FailsWith, hostState, process
    <2>6. CASE SaveAction(c)
      BY <2>6 DEF SaveAction, Goto, FailsWith, hostState, process
    <2>7. CASE InstallAction(c)
      BY <2>7 DEF InstallAction, Goto, FailsWith, hostState, process
    <2>8. CASE EnterGuest(c)
      BY <2>8 DEF EnterGuest, Goto, FailsWith, hostState, process
    <2>9. CASE AddHandler(c)
      BY <2>9 DEF AddHandler, Goto, FailsWith, hostState, process
    <2>10. CASE GuestFaults(c)
      BY <2>10, GuestLeaves DEF process
    <2>11. CASE GuestSyscall(c)
      BY <2>11, GuestLeaves DEF process
    <2>12. CASE Land(c)
      BY <2>12 DEF Land, Goto, hostState, process
    <2>13. CASE RestoreAction(c)
      BY <2>13 DEF RestoreAction, Goto, FailsWith, hostState, process
    <2>14. CASE RemoveHandler(c)
      BY <2>14 DEF RemoveHandler, Goto, FailsWith, hostState, process
    <2>15. CASE UnmapGate(c)
      BY <2>15 DEF UnmapGate, Goto, hostState, process
    <2>16. CASE Unlock(c)
      <3>1. lock = c /\ lock' = NoCaller /\ pc' = [pc EXCEPT ![c] = "idle"]
        BY <2>16 DEF Unlock, Goto, Forget
      <3> QED
        BY <3>1, NoCallerAssumption
    <2> QED
      BY <1>3, <2>1, <2>2, <2>3, <2>4, <2>5, <2>6, <2>7, <2>8,
         <2>9, <2>10, <2>11, <2>12, <2>13, <2>14, <2>15, <2>16
      DEF CallerNext, GateWork
  <1> QED
    BY <1>1, <1>2, <1>3 DEF Next

\* An entry begins with the first signal.
LEMMA StartStep == Inv /\ [Next]_vars => StartInv'
  <1> SUFFICES ASSUME Inv, [Next]_vars PROVE StartInv'
    OBVIOUS
  <1> USE DEF Inv, StartInv, TypeInv
  <1>1. CASE UNCHANGED vars
    BY <1>1 DEF vars
  <1>2. CASE HostFaults
    BY <1>2 DEF HostFaults, process
  <1>3. ASSUME NEW c \in Callers, CallerNext(c)
        PROVE  StartInv'
    <2>1. CASE Enter(c)
      BY <2>1 DEF Enter, Goto, hostState, process
    <2>2. CASE TryLock(c)
      BY <2>2 DEF TryLock, Goto, Forget, hostState, process
    <2>3. CASE GateWork(c)
      BY <2>3, GateSteps DEF hostState
    <2>4. CASE StartThread(c)
      BY <2>4 DEF StartThread, Goto, FailsWith, hostState, process
    <2>5. CASE SetAlternateStack(c)
      BY <2>5 DEF SetAlternateStack, Goto, FailsWith, hostState, process
    <2>6. CASE SaveAction(c)
      BY <2>6 DEF SaveAction, Goto, FailsWith, hostState, process
    <2>7. CASE InstallAction(c)
      BY <2>7 DEF InstallAction, Goto, FailsWith, hostState, process
    <2>8. CASE EnterGuest(c)
      BY <2>8 DEF EnterGuest, Goto, FailsWith, hostState, process
    <2>9. CASE AddHandler(c)
      BY <2>9 DEF AddHandler, Goto, FailsWith, hostState, process
    <2>10. CASE GuestFaults(c)
      BY <2>10, GuestLeaves DEF process
    <2>11. CASE GuestSyscall(c)
      BY <2>11, GuestLeaves DEF process
    <2>12. CASE Land(c)
      BY <2>12 DEF Land, Goto, hostState, process
    <2>13. CASE RestoreAction(c)
      BY <2>13 DEF RestoreAction, Goto, FailsWith, hostState, process
    <2>14. CASE RemoveHandler(c)
      BY <2>14 DEF RemoveHandler, Goto, FailsWith, hostState, process
    <2>15. CASE UnmapGate(c)
      BY <2>15 DEF UnmapGate, Goto, hostState, process
    <2>16. CASE Unlock(c)
      BY <2>16 DEF Unlock, Goto, Forget, hostState, process
    <2> QED
      BY <1>3, <2>1, <2>2, <2>3, <2>4, <2>5, <2>6, <2>7, <2>8,
         <2>9, <2>10, <2>11, <2>12, <2>13, <2>14, <2>15, <2>16
      DEF CallerNext, GateWork
  <1> QED
    BY <1>1, <1>2, <1>3 DEF Next

\* At each step the holder knows what it has taken over, and without a holder nothing is.
LEMMA EnvironmentStep == Inv /\ [Next]_vars => EnvironmentInv'
  <1> SUFFICES ASSUME Inv, [Next]_vars, ~unrestored'
               PROVE  /\ (lock = NoCaller => /\ Untouched /\ handlers = {} /\ gates = {}
                                             /\ \A c \in Callers : ~frame[c])'
                      /\ \A c \in Callers : lock' = c => HolderInv(c)'
                      /\ Replaced'
    BY DEF EnvironmentInv
  <1> USE DEF Replaced
  <1>type. TypeInv
    BY DEF Inv
  <1>arrays. action \in [SignalIndex -> Dispositions] /\ previous \in [SignalIndex -> Dispositions]
    BY <1>type DEF TypeInv
  <1>lock. LockInv /\ StartInv
    BY DEF Inv
  <1>now. ASSUME ~unrestored
          PROVE  /\ lock = NoCaller => /\ Untouched /\ handlers = {} /\ gates = {}
                                       /\ \A c \in Callers : ~frame[c]
                 /\ \A c \in Callers : lock = c => HolderInv(c)
                 /\ Replaced
    BY <1>now DEF Inv, EnvironmentInv
  <1>1. CASE UNCHANGED vars
    BY <1>1, <1>now DEF vars, HolderInv, Untouched, Saved
  <1>2. CASE HostFaults
    BY <1>2, <1>now DEF HostFaults, process, HolderInv, Untouched, Saved
  <1>3. ASSUME NEW c \in Callers, Enter(c)
        PROVE  \A d \in Callers : lock' = d => HolderInv(d)'
    <2> SUFFICES ASSUME NEW d \in Callers, lock' = d PROVE HolderInv(d)'
      OBVIOUS
    <2>1. d # c /\ lock = d
      BY <1>3, <1>lock DEF Enter, process, LockInv, Inside, Linux, Windows
    <2>2. pc'[d] = pc[d] /\ count'[d] = count[d]
      BY <1>3, <2>1, <1>type DEF Enter, Goto, TypeInv
    <2>3. HolderInv(d)
      BY <1>3, <1>now, <2>1 DEF Enter, hostState
    <2>4. UNCHANGED <<platform, action, previous, handlers, gates, frame>>
      BY <1>3 DEF Enter, process, hostState
    <2> QED
      BY <2>2, <2>3, <2>4 DEF HolderInv, Untouched, Saved
  <1>4. ASSUME NEW c \in Callers, TryLock(c), lock = NoCaller
        PROVE  \A d \in Callers : lock' = d => HolderInv(d)'
    <2>1. lock' = c /\ pc'[c] = "locked"
      BY <1>4, <1>type DEF TryLock, Goto, TypeInv
    <2>2. UNCHANGED <<platform, action, handlers, gates, frame>> /\ ~unrestored
      BY <1>4 DEF TryLock, hostState
    <2>3. /\ Untouched /\ handlers' = {} /\ gates' = {}
          /\ \A d \in Callers : ~frame'[d]
      BY <1>4, <1>now, <2>2
    <2>4. HolderInv(c)'
      BY <2>1, <2>2, <2>3 DEF HolderInv, Untouched
    <2> QED
      BY <2>1, <2>4
  <1>5. ASSUME NEW c \in Callers, TryLock(c), lock # NoCaller
        PROVE  \A d \in Callers : lock' = d => HolderInv(d)'
    <2> SUFFICES ASSUME NEW d \in Callers, lock' = d PROVE HolderInv(d)'
      OBVIOUS
    <2>1. d # c /\ lock = d
      BY <1>5, <1>lock DEF TryLock, LockInv, Inside, Linux, Windows
    <2>2. pc'[d] = pc[d] /\ count'[d] = count[d]
      BY <1>5, <2>1, <1>type DEF TryLock, Goto, Forget, TypeInv
    <2>3. HolderInv(d)
      BY <1>5, <1>now, <2>1 DEF TryLock, hostState
    <2>4. UNCHANGED <<platform, action, previous, handlers, gates, frame>>
      BY <1>5 DEF TryLock, hostState
    <2> QED
      BY <2>2, <2>3, <2>4 DEF HolderInv, Untouched, Saved
  <1>6. ASSUME NEW c \in Callers, pc[c] \in Inside, ~unrestored
        PROVE  lock = c /\ HolderInv(c) /\ Replaced
    BY <1>6, <1>lock, <1>now DEF LockInv
  <1>7. ASSUME NEW c \in Callers, GateWork(c)
        PROVE  lock' = c /\ HolderInv(c)' /\ Replaced'
    <2>1. lock = c /\ HolderInv(c) /\ Replaced /\ ~unrestored
      BY <1>7, <1>6, GateSteps, <1>type DEF TypeInv, Inside, Linux, Windows, hostState
    <2>2. /\ pc[c] \in {"locked", "reserved", "mapped", "protected"}
          /\ pc'[c] \in {"reserved", "mapped", "protected", "gated", "leaving"}
          /\ gates' \subseteq {c}
      BY <1>7, <2>1, GateSteps, <1>type DEF TypeInv, HolderInv
    <2>3. UNCHANGED <<platform, lock, action, handlers, frame>>
      BY <1>7, GateSteps, <1>type DEF TypeInv, hostState
    <2> QED
      BY <2>1, <2>2, <2>3 DEF HolderInv, Untouched
  <1>8. ASSUME NEW c \in Callers, StartThread(c)
        PROVE  lock' = c /\ HolderInv(c)' /\ Replaced'
    <2>1. lock = c /\ HolderInv(c) /\ Replaced /\ ~unrestored
      BY <1>8, <1>6 DEF StartThread, Inside, Linux, Windows, hostState
    <2>2. /\ pc[c] = "gated" /\ count[c] = 1
          /\ UNCHANGED <<platform, lock, action, previous, handlers, gates, count, frame>>
      BY <1>8, <1>lock DEF StartThread, hostState, process, StartInv
    <2>3. pc'[c] \in {"altstack", "addhandler", "leaving"}
      BY <1>8, <1>type DEF StartThread, Goto, TypeInv
    <2> QED
      BY <2>1, <2>2, <2>3 DEF HolderInv, Untouched
  <1>9. ASSUME NEW c \in Callers, SetAlternateStack(c)
        PROVE  lock' = c /\ HolderInv(c)' /\ Replaced'
    <2>1. lock = c /\ HolderInv(c) /\ Replaced /\ ~unrestored
      BY <1>9, <1>6 DEF SetAlternateStack, Inside, Linux, Windows, hostState
    <2>2. /\ pc[c] = "altstack" /\ count[c] = 1
          /\ UNCHANGED <<platform, lock, action, previous, handlers, gates, count, frame>>
      BY <1>9, <1>lock DEF SetAlternateStack, hostState, process, StartInv
    <2>3. pc'[c] \in {"saving", "leaving"}
      BY <1>9, <1>type DEF SetAlternateStack, Goto, TypeInv
    <2>4. count'[c] \in SignalIndex /\ \A k \in SignalIndex : ~(k < count'[c])
      BY <2>2, SignalRange
    <2> QED
      BY <2>1, <2>2, <2>3, <2>4 DEF HolderInv, Untouched
  <1>10. ASSUME NEW c \in Callers, SaveAction(c)
        PROVE  lock' = c /\ HolderInv(c)' /\ Replaced'
    <2>1. lock = c /\ HolderInv(c) /\ Replaced /\ ~unrestored
      BY <1>10, <1>6 DEF SaveAction, Inside, Linux, Windows, hostState
    <2>2. pc[c] = "saving" /\ count[c] \in SignalIndex /\ Untouched /\ platform' = platform
          /\ UNCHANGED <<lock, action, handlers, gates, frame>>
      BY <1>10, <2>1 DEF SaveAction, HolderInv, hostState
    <2>6. \A i \in SignalIndex : i < count[c] => previous[i] = "original"
      BY <2>1, <2>2 DEF HolderInv
    <2>3. CASE /\ previous' = [previous EXCEPT ![count[c]] = action[count[c]]]
               /\ count[c] = Len(GuestSignals) /\ pc'[c] = "installing" /\ count'[c] = 1
      <3>1. Saved'
        BY <2>2, <2>3, <2>6, <1>arrays, SignalRange DEF Untouched, Saved
      <3>2. count'[c] \in SignalIndex /\ count'[c] > 0
        BY <2>3, SignalRange
      <3> QED
        BY <2>1, <2>2, <2>3, <3>1, <3>2 DEF HolderInv, Untouched
    <2>4. CASE /\ previous' = [previous EXCEPT ![count[c]] = action[count[c]]]
               /\ count[c] # Len(GuestSignals) /\ pc'[c] = "saving"
               /\ count'[c] = count[c] + 1
      <3>1. \A i \in SignalIndex : i < count'[c] => previous'[i] = "original"
        BY <2>2, <2>4, <2>6, <1>arrays, SignalRange DEF Untouched
      <3>2. count'[c] \in SignalIndex
        BY <2>2, <2>4, SignalRange
      <3> QED
        BY <2>1, <2>2, <2>4, <3>1, <3>2 DEF HolderInv, Untouched
    <2>5. CASE pc'[c] = "leaving"
      BY <2>1, <2>2, <2>5 DEF HolderInv, Untouched
    <2> QED
      BY <1>10, <2>2, <2>3, <2>4, <2>5, <1>type DEF SaveAction, Goto, TypeInv
  <1>11. ASSUME NEW c \in Callers, InstallAction(c)
        PROVE  lock' = c /\ HolderInv(c)' /\ Replaced'
    <2>1. lock = c /\ HolderInv(c) /\ Replaced /\ ~unrestored
      BY <1>11, <1>6 DEF InstallAction, Inside, Linux, Windows, hostState
    <2>2. pc[c] = "installing" /\ count[c] \in SignalIndex /\ Saved /\ platform' = platform
          /\ platform = "linux" /\ UNCHANGED <<lock, previous, handlers, gates, frame>>
      BY <1>11, <2>1, <1>type DEF InstallAction, HolderInv, hostState, TypeInv, Linux
    <2>5. \A i \in SignalIndex : i >= count[c] => action[i] = "original"
      BY <2>1, <2>2 DEF HolderInv
    <2>3. CASE action' = [action EXCEPT ![count[c]] = "guest"] /\ count'[c] = count[c] + 1
      <3>1. \A i \in SignalIndex : i >= count'[c] => action'[i] = "original"
        BY <2>2, <2>3, <2>5, <1>arrays, SignalRange
      <3>2. pc'[c] = IF count[c] = Len(GuestSignals) THEN "armed" ELSE "installing"
        BY <1>11, <2>2, <2>3, <1>type, SignalRange DEF InstallAction, Goto, TypeInv
      <3>3. Replaced'
        BY <2>1, <2>2, <2>3, <1>arrays
      <3>4. Saved' /\ count'[c] > 0
        BY <2>2, <2>3, SignalRange DEF Saved
      <3>5. CASE count[c] = Len(GuestSignals)
        <4>1. pc'[c] = "armed" /\ count'[c] = Len(GuestSignals) + 1
          BY <2>3, <3>2, <3>5
        <4> QED
          BY <2>1, <2>2, <3>3, <3>4, <4>1 DEF HolderInv
      <3>6. CASE count[c] # Len(GuestSignals)
        <4>1. pc'[c] = "installing" /\ count'[c] \in SignalIndex
          BY <2>2, <2>3, <3>2, <3>6, SignalRange
        <4> QED
          BY <2>1, <2>2, <3>1, <3>3, <3>4, <4>1 DEF HolderInv
      <3> QED
        BY <3>5, <3>6
    <2>4. CASE pc'[c] = "restoring" /\ UNCHANGED <<action, count>>
      BY <2>1, <2>2, <2>4 DEF HolderInv, Saved
    <2> QED
      BY <1>11, <2>2, <2>3, <2>4, <1>type DEF InstallAction, Goto, TypeInv
  <1>12. ASSUME NEW c \in Callers, EnterGuest(c)
        PROVE  lock' = c /\ HolderInv(c)' /\ Replaced'
    <2>1. lock = c /\ HolderInv(c) /\ Replaced /\ ~unrestored
      BY <1>12, <1>6 DEF EnterGuest, Inside, Linux, Windows, hostState
    <2>2. /\ pc[c] = "armed" /\ platform = "linux"
          /\ UNCHANGED <<platform, lock, action, previous, handlers, gates, count>>
      BY <1>12, <1>type DEF EnterGuest, hostState, process, TypeInv, Linux
    <2>3. /\ count[c] = Len(GuestSignals) + 1 /\ Saved /\ Saved'
          /\ count'[c] > 0 /\ handlers' = {}
      BY <2>1, <2>2, SignalRange DEF HolderInv, Saved
    <2>4. \A i \in SignalIndex : ~(i >= count'[c])
      BY <2>2, <2>3, SignalRange
    <2>5. \/ pc'[c] = "guest" /\ frame' = [frame EXCEPT ![c] = TRUE]
          \/ pc'[c] = "restoring" /\ frame' = frame
      BY <1>12, <1>type DEF EnterGuest, Goto, TypeInv
    <2>6. \A d \in Callers : frame'[d] => d = c /\ pc'[c] = "guest"
      BY <2>1, <2>2, <2>5, <1>type DEF HolderInv, TypeInv
    <2> QED
      BY <2>1, <2>2, <2>3, <2>4, <2>5, <2>6 DEF HolderInv
  <1>13. ASSUME NEW c \in Callers, AddHandler(c)
        PROVE  lock' = c /\ HolderInv(c)' /\ Replaced'
    <2>1. lock = c /\ HolderInv(c) /\ Replaced /\ ~unrestored
      BY <1>13, <1>6 DEF AddHandler, Inside, Linux, Windows, hostState
    <2>2. pc[c] = "addhandler" /\ platform = "windows" /\ platform' = platform /\ Untouched
          /\ UNCHANGED <<lock, action, gates>>
      BY <1>13, <2>1, <1>type DEF AddHandler, HolderInv, hostState, TypeInv, Windows
    <2>3. CASE /\ handlers' = handlers \cup {c} /\ frame' = [frame EXCEPT ![c] = TRUE]
               /\ pc'[c] = "guest"
      BY <2>1, <2>2, <2>3, <1>type DEF HolderInv, Untouched, TypeInv
    <2>4. CASE pc'[c] = "leaving" /\ UNCHANGED <<handlers, frame>>
      BY <2>1, <2>2, <2>4 DEF HolderInv, Untouched
    <2> QED
      BY <1>13, <2>3, <2>4, <1>type DEF AddHandler, Goto, TypeInv
  <1>14. ASSUME NEW c \in Callers, GuestFaults(c)
        PROVE  lock' = c /\ HolderInv(c)' /\ Replaced'
    <2>1. pc[c] = "guest" /\ lock = c /\ HolderInv(c) /\ Replaced /\ ~unrestored
      BY <1>14, <1>6, GuestLeaves DEF Inside, process
    <2>2. /\ UNCHANGED <<platform, process, count, frame>>
          /\ pc'[c] \in {"guest", "landed"}
      BY <1>14, <2>1, GuestLeaves, <1>type DEF TypeInv
    <2> QED
      BY <2>1, <2>2 DEF HolderInv, Untouched, Saved, process
  <1>15. ASSUME NEW c \in Callers, GuestSyscall(c)
        PROVE  lock' = c /\ HolderInv(c)' /\ Replaced'
    <2>1. pc[c] = "guest" /\ lock = c /\ HolderInv(c) /\ Replaced /\ ~unrestored
      BY <1>15, <1>6, GuestLeaves DEF Inside, process
    <2>2. /\ UNCHANGED <<platform, process, count, frame>>
          /\ pc'[c] \in {"guest", "landed"}
      BY <1>15, <2>1, GuestLeaves, <1>type DEF TypeInv
    <2> QED
      BY <2>1, <2>2 DEF HolderInv, Untouched, Saved, process
  <1>16. ASSUME NEW c \in Callers, Land(c)
        PROVE  lock' = c /\ HolderInv(c)' /\ Replaced'
    <2>1. lock = c /\ HolderInv(c) /\ Replaced /\ ~unrestored
      BY <1>16, <1>6 DEF Land, Inside, Linux, Windows, hostState
    <2>2. pc[c] = "landed" /\ platform' = platform /\ UNCHANGED <<process, count>>
          /\ frame' = [frame EXCEPT ![c] = FALSE]
          /\ pc'[c] = IF platform = "linux" THEN "restoring" ELSE "removehandler"
      BY <1>16, <1>type DEF Land, Goto, TypeInv
    <2>3. \A d \in Callers : ~frame'[d]
      BY <2>1, <2>2, <1>type DEF HolderInv, TypeInv
    <2>4. CASE platform = "linux"
      <3>1. count'[c] = Len(GuestSignals) + 1 /\ Saved /\ Saved'
        BY <2>1, <2>2, <2>4 DEF HolderInv, Saved, process
      <3>2. \A i \in SignalIndex : ~(i >= count'[c])
        BY <3>1, SignalRange
      <3>3. count'[c] > 0
        BY <3>1, SignalRange
      <3> QED
        BY <2>1, <2>2, <2>3, <2>4, <3>1, <3>2, <3>3 DEF HolderInv, process
    <2>5. CASE platform # "linux"
      BY <2>1, <2>2, <2>3, <2>5, <1>type DEF HolderInv, Untouched, Saved, process, TypeInv
    <2> QED
      BY <2>4, <2>5
  <1>17. ASSUME NEW c \in Callers, RestoreAction(c)
        PROVE  lock' = c /\ HolderInv(c)' /\ Replaced'
    <2>1. lock = c /\ HolderInv(c) /\ Replaced /\ ~unrestored
      <3>1. pc[c] = "restoring" /\ (unrestored' = unrestored \/ unrestored' = TRUE)
        BY <1>17 DEF RestoreAction
      <3> QED
        BY <1>6, <3>1 DEF Inside, Linux
    <2>2. pc[c] = "restoring" /\ platform' = platform /\ platform = "linux"
          /\ UNCHANGED <<lock, previous, handlers, gates, frame>>
      BY <1>17, <1>type DEF RestoreAction, TypeInv, Linux
    <2>5. /\ Saved /\ count[c] > 0
          /\ \A i \in SignalIndex : i >= count[c] => action[i] = "original"
      BY <2>1, <2>2 DEF HolderInv
    <2>6. count[c] \in Int
      BY <1>type DEF TypeInv
    <2>3. CASE /\ count[c] - 1 > 0 /\ count'[c] = count[c] - 1 /\ pc' = pc
               /\ action' = [action EXCEPT ![count[c] - 1] = previous[count[c] - 1]]
      <3>1. \A i \in SignalIndex : i >= count'[c] => action'[i] = "original"
        BY <2>3, <2>5, <2>6, <1>arrays, SignalRange DEF Saved
      <3>2. Replaced'
        BY <2>1, <2>3, <2>5, <1>arrays DEF Saved
      <3>3. count'[c] > 0 /\ Saved'
        BY <2>2, <2>3, <2>5 DEF Saved
      <3> QED
        BY <2>1, <2>2, <2>3, <3>1, <3>2, <3>3 DEF HolderInv
    <2>4. CASE count[c] - 1 = 0 /\ pc'[c] = "leaving" /\ UNCHANGED <<action, count>>
      <3>1. Untouched'
        BY <2>4, <2>5, <2>6, SignalRange DEF Untouched
      <3> QED
        BY <2>1, <2>2, <2>4, <3>1 DEF HolderInv
    <2> QED
      BY <1>17, <2>3, <2>4, <1>type, SignalRange DEF RestoreAction, Goto, TypeInv
  <1>18. ASSUME NEW c \in Callers, RemoveHandler(c)
        PROVE  lock' = c /\ HolderInv(c)' /\ Replaced'
    <2>1. lock = c /\ HolderInv(c) /\ Replaced /\ ~unrestored
      <3>1. pc[c] = "removehandler" /\ ~unrestored
        BY <1>18 DEF RemoveHandler
      <3> QED
        BY <1>6, <3>1 DEF Inside, Windows
    <2>2. /\ pc[c] = "removehandler" /\ pc'[c] = "leaving" /\ handlers' = handlers \ {c}
          /\ UNCHANGED <<platform, lock, action, gates, frame>>
      BY <1>18, <1>type DEF RemoveHandler, Goto, TypeInv
    <2>3. Untouched /\ handlers' = {} /\ gates' \subseteq {c}
          /\ \A d \in Callers : ~frame'[d]
      BY <2>1, <2>2 DEF HolderInv
    <2> QED
      BY <2>1, <2>2, <2>3 DEF HolderInv, Untouched
  <1>19. ASSUME NEW c \in Callers, UnmapGate(c)
        PROVE  lock' = c /\ HolderInv(c)' /\ Replaced'
    <2>1. lock = c /\ HolderInv(c) /\ Replaced /\ ~unrestored
      BY <1>19, <1>6 DEF UnmapGate, Inside, Linux, Windows, hostState
    <2>2. /\ pc[c] = "leaving" /\ pc'[c] = "unlocking" /\ gates' = gates \ {c}
          /\ UNCHANGED <<platform, lock, action, handlers, frame>>
      BY <1>19, <1>type DEF UnmapGate, Goto, hostState, TypeInv
    <2>3. Untouched /\ handlers' = {} /\ gates' = {}
          /\ \A d \in Callers : ~frame'[d]
      BY <2>1, <2>2 DEF HolderInv
    <2> QED
      BY <2>1, <2>2, <2>3 DEF HolderInv, Untouched
  <1>20. ASSUME NEW c \in Callers, Unlock(c)
        PROVE  /\ (lock = NoCaller /\ Untouched /\ handlers = {} /\ gates = {})'
               /\ (\A d \in Callers : ~frame'[d]) /\ Replaced'
    <2>1. lock = c /\ HolderInv(c) /\ Replaced /\ ~unrestored
      BY <1>20, <1>6 DEF Unlock, Inside, hostState
    <2> QED
      BY <1>20, <2>1 DEF Unlock, HolderInv, Untouched, hostState
  <1> QED
    <2>1. ASSUME NEW c \in Callers, Enter(c) \/ TryLock(c)
          PROVE  /\ UNCHANGED <<action, handlers, gates, frame, unrestored>>
                 /\ Enter(c) => UNCHANGED lock
                 /\ (lock' = NoCaller => lock = NoCaller)
      BY <2>1, NoCallerAssumption DEF Enter, TryLock, process, hostState, Forget, Goto
    <2>2. ASSUME NEW c \in Callers, Enter(c) \/ TryLock(c)
          PROVE  /\ (lock = NoCaller => /\ Untouched /\ handlers = {} /\ gates = {}
                                        /\ \A d \in Callers : ~frame[d])'
                 /\ Replaced'
      BY <2>1, <2>2, <1>now DEF Untouched
    <2>3. ASSUME NEW c \in Callers, lock' = c, HolderInv(c)', Replaced'
          PROVE  /\ (lock = NoCaller => /\ Untouched /\ handlers = {} /\ gates = {}
                                        /\ \A d \in Callers : ~frame[d])'
                 /\ \A d \in Callers : lock' = d => HolderInv(d)'
                 /\ Replaced'
      BY <2>3, NoCallerAssumption
    <2>4. \A c \in Callers : CallerNext(c) =>
             /\ (lock = NoCaller => /\ Untouched /\ handlers = {} /\ gates = {}
                                    /\ \A d \in Callers : ~frame[d])'
             /\ \A d \in Callers : lock' = d => HolderInv(d)'
             /\ Replaced'
      <3> SUFFICES ASSUME NEW c \in Callers, CallerNext(c)
                   PROVE  /\ (lock = NoCaller => /\ Untouched /\ handlers = {} /\ gates = {}
                                                 /\ \A d \in Callers : ~frame[d])'
                          /\ \A d \in Callers : lock' = d => HolderInv(d)'
                          /\ Replaced'
        OBVIOUS
      <3> HIDE DEF Replaced
      <3>1. CASE Enter(c) \/ TryLock(c)
        BY <3>1, <2>2, <1>3, <1>4, <1>5
      <3>2. CASE Unlock(c)
        BY <3>2, <1>20, NoCallerAssumption
      <3>3. CASE ~(Enter(c) \/ TryLock(c) \/ Unlock(c))
        <4>1. lock' = c /\ HolderInv(c)' /\ Replaced'
          BY <3>3, <1>7, <1>8, <1>9, <1>10, <1>11, <1>12,
             <1>13, <1>14, <1>15, <1>16, <1>17, <1>18, <1>19, ZenonT(60)
          DEF CallerNext, GateWork
        <4> QED
          BY <4>1, <2>3
      <3> QED
        BY <3>1, <3>2, <3>3
    <2> QED
      BY <1>1, <1>2, <2>4 DEF Next

\* A signal that the guest's handler gets on Linux has been saved before.
LEMMA ReplacedIsSaved ==
    ASSUME Inv, ~unrestored, platform = "linux", NEW i \in SignalIndex,
           action[i] # "original"
    PROVE  Passed(i) = "original"
  <1>1. lock \in Callers
    BY DEF Inv, EnvironmentInv, LockInv, Untouched
  <1>2. HolderInv(lock)
    BY <1>1 DEF Inv, EnvironmentInv
  <1>3. Saved
    BY <1>1, <1>2 DEF HolderInv, Untouched
  <1> QED
    BY <1>3 DEF Saved, Passed

\* Whoever faults, the action that runs is the host's.
LEMMA HostFaultStep == Inv /\ [Next]_vars => HostFaultsReachHost'
  <1> SUFFICES ASSUME Inv, [Next]_vars, ~unrestored'
               PROVE  hostFault' \in {"none", "original"}
    BY DEF HostFaultsReachHost
  <1>1. CASE hostFault' = hostFault /\ ~unrestored
    BY <1>1 DEF Inv, HostFaultsReachHost
  <1>2. CASE HostFaults
    <2>1. ~unrestored
      BY <1>2 DEF HostFaults
    <2>2. PICK i \in SignalIndex :
              IF platform = "linux" /\ action[i] = "original"
              THEN hostFault' = "original" /\ exited' = (original = "default")
              ELSE Chain(i)
      BY <1>2 DEF HostFaults
    <2>3. CASE platform = "linux" /\ action[i] # "original"
      BY <2>1, <2>2, <2>3, ReplacedIsSaved DEF Chain
    <2> QED
      BY <2>2, <2>3 DEF Chain
  <1>3. ASSUME NEW c \in Callers, GuestFaults(c) \/ GuestSyscall(c)
        PROVE  hostFault' \in {"none", "original"}
    <2>1. pc[c] = "guest" /\ ~unrestored
      BY <1>3, GuestLeaves
    <2>2. HolderInv(c)
      BY <2>1 DEF Inv, EnvironmentInv, LockInv, Inside
    <2>3. \A i \in SignalIndex : platform = "linux" => Passed(i) = "original"
      BY <2>1, <2>2 DEF HolderInv, Saved, Passed
    <2>4. hostFault \in {"none", "original"}
      BY <2>1 DEF Inv, HostFaultsReachHost
    <2> QED
      BY <1>3, <2>3, <2>4, GuestLeaves
  <1>4. ASSUME NEW c \in Callers, CallerNext(c), ~GuestFaults(c), ~GuestSyscall(c)
        PROVE  hostFault' = hostFault /\ ~unrestored
    <2>1. CASE Enter(c)
      BY <2>1 DEF Enter, hostState
    <2>2. CASE TryLock(c)
      BY <2>2 DEF TryLock, hostState
    <2>3. CASE GateWork(c)
      BY <2>3, GateSteps DEF Inv, TypeInv, hostState
    <2>4. CASE StartThread(c)
      BY <2>4 DEF StartThread, hostState
    <2>5. CASE SetAlternateStack(c)
      BY <2>5 DEF SetAlternateStack, hostState
    <2>6. CASE SaveAction(c)
      BY <2>6 DEF SaveAction, hostState
    <2>7. CASE InstallAction(c)
      BY <2>7 DEF InstallAction, hostState
    <2>8. CASE EnterGuest(c)
      BY <2>8 DEF EnterGuest, hostState
    <2>9. CASE AddHandler(c)
      BY <2>9 DEF AddHandler, hostState
    <2>10. CASE UnmapGate(c)
      BY <2>10 DEF UnmapGate, hostState
    <2>11. CASE Unlock(c)
      BY <2>11 DEF Unlock, hostState
    <2>12. CASE Land(c)
      BY <2>12 DEF Land
    <2>13. CASE RestoreAction(c)
      <3>1. hostFault' = hostFault /\ (unrestored' = unrestored \/ unrestored' = TRUE)
        BY <2>13 DEF RestoreAction
      <3> QED
        BY <3>1
    <2>14. CASE RemoveHandler(c)
      <3>1. hostFault' = hostFault /\ (unrestored' = unrestored \/ unrestored' = TRUE)
        BY <2>14 DEF RemoveHandler
      <3> QED
        BY <3>1
    <2> QED
      BY <1>4, <2>1, <2>2, <2>3, <2>4, <2>5, <2>6, <2>7, <2>8, <2>9, <2>10,
         <2>11, <2>12, <2>13, <2>14, ZenonT(60)
      DEF CallerNext, GateWork
  <1>5. CASE UNCHANGED vars
    BY <1>1, <1>5 DEF vars
  <1> QED
    BY <1>1, <1>2, <1>3, <1>4, <1>5 DEF Next

\* The error of a restoration that failed is not lost before the mutex is released.
LEMMA ReportStep == Inv /\ [Next]_vars => ReportInv'
  <1> SUFFICES ASSUME Inv, [Next]_vars PROVE ReportInv'
    OBVIOUS
  <1>1. CASE UNCHANGED <<fault, unrestored, lock>>
    BY <1>1 DEF Inv, ReportInv
  <1>2. ASSUME NEW c \in Callers, pc[c] \in Inside, lock' = lock,
               UNCHANGED <<fault, unrestored>> \/ \E code \in Codes : FailsWith(c, code)
        PROVE  ReportInv'
    <2>1. CASE UNCHANGED <<fault, unrestored>>
      BY <1>1, <1>2, <2>1
    <2>2. ASSUME NEW code \in Codes, FailsWith(c, code)
          PROVE  ReportInv'
      <3>1. lock = c
        BY <1>2 DEF Inv, LockInv
      <3>2. fault' = [fault EXCEPT ![c] = code] /\ code # "none"
        BY <2>2 DEF FailsWith, Codes
      <3>3. fault \in [Callers -> Codes \cup {"none"}]
        BY DEF Inv, ReportInv
      <3> QED
        BY <1>2, <3>1, <3>2, <3>3 DEF ReportInv
    <2> QED
      BY <1>2, <2>1, <2>2
  <1>3. CASE UNCHANGED vars
    BY <1>1, <1>3 DEF vars
  <1>4. CASE HostFaults
    BY <1>1, <1>4 DEF HostFaults, process
  <1>5. ASSUME NEW c \in Callers, CallerNext(c)
        PROVE  ReportInv'
    <2> USE DEF Inside, Linux, Windows
    <2>1. CASE Enter(c)
      BY <1>1, <2>1 DEF Enter, hostState, process
    <2>2. CASE TryLock(c)
      BY <2>2 DEF TryLock, hostState, Inv, ReportInv
    <2>3. CASE GateWork(c)
      <3>1. /\ pc[c] \in Inside /\ lock' = lock
            /\ UNCHANGED <<fault, unrestored>> \/ \E code \in Codes : FailsWith(c, code)
        BY <2>3, GateSteps DEF Inv, TypeInv, hostState
      <3> QED
        BY <1>2, <3>1
    <2>4. CASE StartThread(c)
      <3>1. /\ pc[c] \in Inside /\ lock' = lock
            /\ UNCHANGED <<fault, unrestored>> \/ \E code \in Codes : FailsWith(c, code)
        BY <2>4 DEF StartThread, hostState, process, Codes
      <3> QED
        BY <1>2, <3>1
    <2>5. CASE SetAlternateStack(c)
      <3>1. /\ pc[c] \in Inside /\ lock' = lock
            /\ UNCHANGED <<fault, unrestored>> \/ \E code \in Codes : FailsWith(c, code)
        BY <2>5 DEF SetAlternateStack, hostState, process, Codes
      <3> QED
        BY <1>2, <3>1
    <2>6. CASE SaveAction(c)
      <3>1. /\ pc[c] \in Inside /\ lock' = lock
            /\ UNCHANGED <<fault, unrestored>> \/ \E code \in Codes : FailsWith(c, code)
        BY <2>6 DEF SaveAction, hostState, Codes
      <3> QED
        BY <1>2, <3>1
    <2>7. CASE InstallAction(c)
      <3>1. /\ pc[c] \in Inside /\ lock' = lock
            /\ UNCHANGED <<fault, unrestored>> \/ \E code \in Codes : FailsWith(c, code)
        BY <2>7 DEF InstallAction, hostState, Codes
      <3> QED
        BY <1>2, <3>1
    <2>8. CASE EnterGuest(c)
      <3>1. /\ pc[c] \in Inside /\ lock' = lock
            /\ UNCHANGED <<fault, unrestored>> \/ \E code \in Codes : FailsWith(c, code)
        BY <2>8 DEF EnterGuest, hostState, process, Codes
      <3> QED
        BY <1>2, <3>1
    <2>9. CASE AddHandler(c)
      <3>1. /\ pc[c] \in Inside /\ lock' = lock
            /\ UNCHANGED <<fault, unrestored>> \/ \E code \in Codes : FailsWith(c, code)
        BY <2>9 DEF AddHandler, hostState, Codes
      <3> QED
        BY <1>2, <3>1
    <2>10. CASE GuestFaults(c)
      BY <1>1, <2>10 DEF GuestFaults, process
    <2>11. CASE GuestSyscall(c)
      BY <1>1, <2>11 DEF GuestSyscall, process
    <2>12. CASE Land(c)
      BY <1>1, <2>12 DEF Land, process
    <2>13. CASE RestoreAction(c)
      <3>1. /\ pc[c] \in Inside /\ lock' = lock
            /\ UNCHANGED <<fault, unrestored>> \/ \E code \in Codes : FailsWith(c, code)
        BY <2>13 DEF RestoreAction, Codes
      <3> QED
        BY <1>2, <3>1
    <2>14. CASE RemoveHandler(c)
      <3>1. /\ pc[c] \in Inside /\ lock' = lock
            /\ UNCHANGED <<fault, unrestored>> \/ \E code \in Codes : FailsWith(c, code)
        BY <2>14 DEF RemoveHandler, Codes
      <3> QED
        BY <1>2, <3>1
    <2>15. CASE UnmapGate(c)
      BY <1>1, <2>15 DEF UnmapGate, hostState
    <2>16. CASE Unlock(c)
      <3>1. \A d \in Callers : lock' # d
        BY <2>16, NoCallerAssumption DEF Unlock
      <3>2. fault' = [fault EXCEPT ![c] = "none"]
        BY <2>16 DEF Unlock
      <3> QED
        BY <3>1, <3>2 DEF Inv, ReportInv
    <2> QED
      BY <1>5, <2>1, <2>2, <2>3, <2>4, <2>5, <2>6, <2>7, <2>8,
         <2>9, <2>10, <2>11, <2>12, <2>13, <2>14, <2>15, <2>16
      DEF CallerNext, GateWork
  <1> QED
    BY <1>3, <1>4, <1>5 DEF Next

\* Every step keeps the invariant.
LEMMA Inductive == Inv /\ [Next]_vars => Inv'
  BY TypeStep, LockStep, StartStep, EnvironmentStep, HostFaultStep, ReportStep
  DEF Inv

\* The invariant holds throughout.
LEMMA Invariance == Spec => []Inv
  BY Initially, Inductive, PTL DEF Spec
-----------------------------------------------------------------------------
\* enter_linux_guest, its seccomp variant and enter_windows_guest: for any number
\* of signals and of concurrent callers, when the mutex is free every disposition,
\* handler and mapping that an entry replaced is back.
THEOREM EntryLeavesNothingBehind == Spec => []NothingLeftBehind
  <1>1. Inv => NothingLeftBehind
    BY DEF Inv, EnvironmentInv, NothingLeftBehind, Untouched
  <1> QED
    BY Invariance, <1>1, PTL

\* chain_previous_signal: at every moment of an entry, the half-installed ones
\* included, a fault outside guest code gets what the host had installed.
THEOREM EntryPassesHostFaults == Spec => []HostFaultsReachHost
  <1>1. Inv => HostFaultsReachHost
    BY DEF Inv
  <1> QED
    BY Invariance, <1>1, PTL

\* restore_signal_environment and RemoveVectoredExceptionHandler: the caller of an
\* entry that left a handler behind gets an error, whatever the guest did and
\* whichever of the calls failed.
THEOREM EntryReportsFailedRestoration == Spec => []FailedRestorationIsReported
  <1>1. Inv => FailedRestorationIsReported
    <2> SUFFICES ASSUME Inv, NEW c \in Callers, pc[c] = "unlocking",
                        handlers # {} \/ \E i \in SignalIndex : action[i] # "original"
                 PROVE  Outcome(c).kind = "error"
      BY DEF FailedRestorationIsReported
    <2>1. lock = c
      BY DEF Inv, LockInv, Inside
    <2>2. unrestored
      BY <2>1 DEF Inv, EnvironmentInv, HolderInv, Untouched
    <2>3. fault[c] # "none"
      BY <2>1, <2>2 DEF Inv, ReportInv
    <2> QED
      BY <2>3 DEF Outcome, Failure
  <1> QED
    BY Invariance, <1>1, PTL
=============================================================================
