--------------------------- MODULE NativeExecution ---------------------------
(***************************************************************************)
(* Entering guest code natively: enter_linux_guest and                     *)
(* enter_linux_guest_with_seccomp_syscall_trap (linux_execution.cpp) and   *)
(* enter_windows_guest (windows_execution.cpp), one host call at a time.   *)
(*                                                                         *)
(* Several threads of the process may call them.  An entry takes over      *)
(* process-wide state (the dispositions of five signals, or the list of    *)
(* vectored handlers), maps a region of trapping gates, starts a thread    *)
(* that jumps into guest code, and undoes all of it once the guest traps.  *)
(* Meanwhile any other thread of the process may fault in host code.       *)
(*                                                                         *)
(* Addresses are 0 .. MaxAddress and a machine word has two halves below   *)
(* HalfBase, as the 64-bit comparisons of the seccomp filter need.         *)
(***************************************************************************)
EXTENDS Integers, Sequences, FiniteSets

CONSTANTS
    Callers,        \* the threads of the process that enter a guest
    GuestSignals,   \* kGuestSignals, in the order they are installed
    Images,         \* the guest images they may enter
    HalfBase,       \* 2^32
    Stride,         \* kSyntheticGateStride
    PageSize,       \* the host's page size
    Granularity,    \* dwAllocationGranularity of Windows
    Headroom,       \* kMinimumWindowsExceptionHeadroom
    Denied,         \* kDeniedOutsideGuestIp, in the order of the filter
    X32Bit,         \* kX32SyscallBit
    LegacyFirst, LegacyEnd, \* 512 and 548: the legacy x32 alias interval
    Numbers,        \* the syscall numbers a program may use
    FaultPoints,    \* the addresses where a guest's thread may fault
    NoCaller        \* nobody

MaxAddress == HalfBase * HalfBase - 1
Addresses == 0 .. MaxAddress
Arches == {"x86_64", "i386"}

ASSUME HalfBaseAssumption == HalfBase \in Nat \ {0, 1}
ASSUME NoCallerAssumption == NoCaller \notin Callers
ASSUME StrideAssumption == Stride \in Nat \ {0}
ASSUME PageAssumption ==
    /\ PageSize \in Nat \ {0} /\ Granularity \in Nat \ {0} /\ Headroom \in Nat
    /\ Granularity % PageSize = 0
ASSUME SignalsAssumption ==
    /\ GuestSignals \in Seq({"SIGSEGV", "SIGBUS", "SIGILL", "SIGFPE", "SIGSYS"})
    /\ \E i \in DOMAIN GuestSignals : GuestSignals[i] = "SIGSYS"

\* What an entry is given.  The image: its executable ranges <<base, size>>, the
\* two-byte instruction at each address, its stack and whether it has a TLS
\* segment; the regions of the memory prepared for it (none: it was moved away);
\* the gates <<base, slots>> (no slots: no gate region); the registered trap
\* sites; and of the context the entry point rip, rsp, the flags of rflags that
\* are set and whether fs_base and gs_base are zero.
SignalIndex == DOMAIN GuestSignals
Signals == {GuestSignals[i] : i \in SignalIndex}

VARIABLES
    platform,   \* "linux" or "windows"
    original,   \* what the host does with the signals: "default", "handler"
    exited,     \* TRUE once the process has ended
    lock,       \* the caller that holds g_signal_mutex, or NoCaller
    action,     \* the current disposition of each signal
    previous,   \* g_previous_actions
    handlers,   \* the callers whose vectored handler is registered
    gates,      \* the callers whose gate region is mapped
    pc,         \* where each caller, or the thread it started, is
    call,       \* the image and the mode of each caller's current entry
    count,      \* the loop index of each caller
    frame,      \* the frame g_active_frame of each caller's thread points to
    event,      \* what the guest of each caller did to leave guest code
    fault,      \* the error each caller's entry will return, or "none"
    unrestored, \* TRUE once a call that undoes a step of an entry has failed
    hostFault,  \* what became of the last fault of a host thread
    decision    \* the last answer of the seccomp filter, with its question
vars == <<platform, original, exited, lock, action, previous, handlers, gates, pc,
          call, count, frame, event, fault, hostFault, decision, unrestored>>

hostState == <<platform, original, exited, hostFault, decision, unrestored>>
process == <<lock, action, previous, handlers, gates>>

NoEvent == [kind |-> "none"]
NoCall == [mode |-> "none"]
Failure(code) == [kind |-> "error", code |-> code]

-----------------------------------------------------------------------------
(* Ranges. *)

range_contains(range, address) ==
    range[2] # 0 /\ address >= range[1] /\ address - range[1] < range[2]

\* exact_executable_contains, and the union of build_executable_ranges.
exact_executable_contains(image, address) ==
    \E i \in DOMAIN image.exec : range_contains(image.exec[i], address)

frame_owns_guest_rip(image, rip) ==
    \/ exact_executable_contains(image, rip)
    \/ range_contains(<<image.gate[1], image.gate[2] * Stride>>, rip)

\* Mutant: the one byte past the range is not added.
NotExtended(image) == image.exec

\* build_seccomp_instruction_pointer_ranges: one byte more than executable.
seccomp_ranges(image) ==
    [i \in DOMAIN image.exec |-> <<image.exec[i][1], image.exec[i][2] + 1>>]

\* Its overflow test, which fails the entry.
SeccompRangesFit(image) ==
    \A i \in DOMAIN image.exec :
        /\ image.exec[i][2] # MaxAddress
        /\ image.exec[i][1] <= MaxAddress - image.exec[i][2]

\* recognize_gate_slot: the rip is the first byte of a slot.
IsGateSlot(image, rip) ==
    /\ rip >= image.gate[1]
    /\ (rip - image.gate[1]) % Stride = 0
    /\ (rip - image.gate[1]) \div Stride < image.gate[2]

registered_traps_are_valid(image) ==
    \A rip \in image.traps :
        /\ rip # MaxAddress
        /\ exact_executable_contains(image, rip)
        /\ exact_executable_contains(image, rip + 1)
        /\ image.op[rip] = "ud2"

\* Bit 1 of rflags is always set on the processor.
validate_context(image) ==
    /\ image.regions # {}
    /\ ~image.tls
    /\ image.flat
    /\ "bit1" \in image.rflags /\ image.rflags \cap {"direction", "trap"} = {}
    /\ exact_executable_contains(image, image.rip)
    /\ range_contains(image.stack, image.rsp)
    /\ platform = "windows" => image.rsp - image.stack[1] >= Headroom

\* The blocks of unit bytes that a range touches.
Blocked(range, unit) ==
    LET base == (range[1] \div unit) * unit
    IN  <<base, ((range[1] + range[2] - 1) \div unit + 1) * unit - base>>

overlaps(r, s) == r[1] < s[1] + s[2] /\ s[1] < r[1] + r[2]

\* What prepare maps: whole pages on Linux, allocation blocks on Windows, where
\* the prepared memory has reserved whole blocks too.
Unit == IF platform = "linux" THEN PageSize ELSE Granularity
GateRange(image) == Blocked(<<image.gate[1], image.gate[2] * Stride>>, Unit)

\* The checks of GateMapping::prepare and WindowsGateMapping::prepare that come
\* before their first host call.  A range of Linux may end with the address space.
GateRefusal(image) ==
    IF image.gate[1] % PageSize # 0 THEN "invalid_guest_context"
    ELSE IF GateRange(image)[1] + GateRange(image)[2]
                > IF platform = "linux" THEN MaxAddress + 1 ELSE MaxAddress
    THEN "host_page_arithmetic_overflow"
    ELSE IF \E region \in image.regions :
                overlaps(GateRange(image), Blocked(region, Unit))
    THEN "guest_address_unavailable" ELSE "none"

-----------------------------------------------------------------------------
(* The seccomp filter: a program of the kernel's packet filter machine.    *)
(* jt and jf count the instructions a jump skips.                          *)

Load(word) == [op |-> "load", k |-> word, jt |-> 0, jf |-> 0]
Jump(op, k, jt, jf) == [op |-> op, k |-> k, jt |-> jt, jf |-> jf]
Return(verdict) == [op |-> "return", k |-> verdict, jt |-> 0, jf |-> 0]

\* The eleven instructions for one range.
RangeBlock(range) ==
    LET last == range[1] + (range[2] - 1)
    IN  <<Load("ip_high"),
          Jump("gt", range[1] \div HalfBase, 3, 0),
          Jump("eq", range[1] \div HalfBase, 0, 8),
          Load("ip_low"),
          Jump("ge", range[1] % HalfBase, 0, 6),
          Load("ip_high"),
          Jump("gt", last \div HalfBase, 4, 0),
          Jump("eq", last \div HalfBase, 0, 2),
          Load("ip_low"),
          Jump("gt", last % HalfBase, 1, 0),
          Return("trap")>>

Blocks(ranges) ==
    LET prefix[n \in 0 .. Len(ranges)] ==
            IF n = 0 THEN <<>> ELSE prefix[n - 1] \o RangeBlock(ranges[n])
    IN  prefix[Len(ranges)]

DenyList ==
    LET prefix[n \in 0 .. Len(Denied)] ==
            IF n = 0 THEN <<>>
            ELSE prefix[n - 1] \o <<Jump("eq", Denied[n], 0, 1), Return("errno")>>
    IN  prefix[Len(Denied)]

\* install_guest_executable_syscall_filter: the program it assembles.
Filter(image) ==
    Blocks(seccomp_ranges(image))
    \o <<Load("arch"), Jump("eq", 0, 1, 0), Return("errno"),
         Load("nr"), Jump("ge", X32Bit, 0, 1), Return("errno"),
         Jump("ge", LegacyFirst, 0, 2), Jump("ge", LegacyEnd, 1, 0),
         Return("errno")>>
    \o DenyList \o <<Return("allow")>>

\* The kernel runs the program on one system call.
Word(data, word) ==
    CASE word = "ip_high" -> data.ip \div HalfBase
      [] word = "ip_low" -> data.ip % HalfBase
      [] word = "arch" -> IF data.arch = "x86_64" THEN 0 ELSE 1
      [] word = "nr" -> data.nr

Holds(op, accumulator, k) ==
    CASE op = "gt" -> accumulator > k
      [] op = "ge" -> accumulator >= k
      [] op = "eq" -> accumulator = k

Verdict(program, data) ==
    LET run[at \in 1 .. Len(program), accumulator \in Nat] ==
            LET i == program[at]
            IN  CASE i.op = "return" -> i.k
                  [] i.op = "load" -> run[at + 1, Word(data, i.k)]
                  [] OTHER -> run[at + 1 + (IF Holds(i.op, accumulator, i.k)
                                            THEN i.jt ELSE i.jf), accumulator]
    IN  run[1, 0]

-----------------------------------------------------------------------------
(* Entering. *)

Init ==
    /\ platform \in {"linux", "windows"}
    /\ original \in {"default", "handler"}
    /\ exited = FALSE
    /\ lock = NoCaller
    /\ action = [i \in SignalIndex |-> "original"]
    /\ previous = [i \in SignalIndex |-> "unset"]
    /\ handlers = {} /\ gates = {}
    /\ pc = [c \in Callers |-> "idle"]
    /\ call = [c \in Callers |-> NoCall]
    /\ count = [c \in Callers |-> 0]
    /\ frame = [c \in Callers |-> FALSE]
    /\ event = [c \in Callers |-> NoEvent]
    /\ fault = [c \in Callers |-> "none"]
    /\ hostFault = "none"
    /\ decision = NoEvent
    /\ unrestored = FALSE

Image(c) == call[c].image
Goto(c, label) == pc' = [pc EXCEPT ![c] = label]
Forget(c) == /\ Goto(c, "idle")
             /\ call' = [call EXCEPT ![c] = NoCall]
             /\ count' = [count EXCEPT ![c] = 0]
FailsWith(c, code) == fault' = [fault EXCEPT ![c] = code]

\* validate_context and registered_traps_are_valid, before any lock is taken.
\* An entry that fails them returns and has changed nothing.
\* Only the seccomp entry of Linux may do without gates; it has no trap sites.
Enter(c) ==
    /\ pc[c] = "idle" /\ ~exited
    /\ \E image \in Images, mode \in {"registered", "seccomp"} :
        /\ mode = "seccomp" => platform = "linux" /\ image.traps = {}
        /\ mode = "registered" => image.gate[2] > 0
        /\ validate_context(image) /\ registered_traps_are_valid(image)
        /\ call' = [call EXCEPT ![c] = [image |-> image, mode |-> mode]]
    /\ Goto(c, "validated")
    /\ count' = [count EXCEPT ![c] = 1]
    /\ UNCHANGED <<hostState, process, frame, event, fault>>

\* std::try_to_lock on the one mutex of the backend; without it the entry
\* returns nested_execution_unsupported.
\* (Bound: none takes it after the host has refused to restore something; nothing
\* is claimed of later entries.)
TryLock(c) ==
    /\ pc[c] = "validated" /\ ~exited /\ ~unrestored
    /\ IF lock = NoCaller
       THEN lock' = c /\ Goto(c, "locked") /\ UNCHANGED <<call, count>>
       ELSE Forget(c) /\ UNCHANGED lock
    /\ UNCHANGED <<hostState, action, previous, handlers, gates, frame, event, fault>>

\* prepare of the two gate mappings: mmap, or VirtualAlloc with MEM_RESERVE.  A
\* mapping at another address is unmapped again.
MapGate(c) ==
    /\ pc[c] = "locked" /\ ~exited
    /\ \/ Image(c).gate[2] = 0 /\ Goto(c, "gated") /\ UNCHANGED <<gates, fault>>
       \/ /\ Image(c).gate[2] > 0 /\ GateRefusal(Image(c)) = "none"
          /\ gates' = gates \cup {c}
          /\ Goto(c, IF platform = "linux" THEN "mapped" ELSE "reserved")
          /\ UNCHANGED fault
       \/ /\ Image(c).gate[2] > 0 /\ Goto(c, "leaving")
          /\ IF GateRefusal(Image(c)) # "none" THEN FailsWith(c, GateRefusal(Image(c)))
             ELSE \E code \in {"guest_address_unavailable", "host_mapping_failure"} :
                      FailsWith(c, code)
          /\ UNCHANGED gates
    /\ UNCHANGED <<hostState, lock, action, previous, handlers, call, count, frame,
                   event>>

\* A later host call of prepare: when it fails, prepare unmaps the region itself.
GateStep(c, label, next, codes) ==
    /\ pc[c] = label /\ ~exited
    /\ \/ Goto(c, next) /\ UNCHANGED <<gates, fault>>
       \/ /\ gates' = gates \ {c}
          /\ \E code \in codes : FailsWith(c, code)
          /\ Goto(c, "leaving")
    /\ UNCHANGED <<hostState, lock, action, previous, handlers, call, count, frame,
                   event>>

\* VirtualAlloc with MEM_COMMIT.
CommitGate(c) ==
    GateStep(c, "reserved", "mapped",
             {"host_mapping_failure", "guest_address_unavailable"})

\* The copy of the gates, then mprotect or VirtualProtect.
ProtectGate(c) ==
    GateStep(c, "mapped", IF platform = "linux" THEN "gated" ELSE "protected",
             {"host_protection_failure"})

\* FlushInstructionCache.
FlushGate(c) == GateStep(c, "protected", "gated", {"instruction_cache_sync_failure"})

\* std::thread, and what the new thread computes before its first host call.
StartThread(c) ==
    /\ pc[c] = "gated" /\ ~exited
    /\ \/ /\ call[c].mode = "seccomp" => SeccompRangesFit(Image(c))
          /\ Goto(c, IF platform = "linux" THEN "altstack" ELSE "addhandler")
          /\ UNCHANGED fault
       \/ /\ call[c].mode = "seccomp" /\ ~SeccompRangesFit(Image(c))
          /\ FailsWith(c, "syscall_interception_setup_failure") /\ Goto(c, "leaving")
       \/ FailsWith(c, "recovery_setup_failure") /\ Goto(c, "leaving")
    /\ UNCHANGED <<hostState, process, call, count, frame, event>>

\* sigaltstack: the thread's own stack for handlers.
SetAlternateStack(c) ==
    /\ pc[c] = "altstack" /\ ~exited
    /\ \/ Goto(c, "saving") /\ UNCHANGED fault
       \/ FailsWith(c, "recovery_setup_failure") /\ Goto(c, "leaving")
    /\ UNCHANGED <<hostState, process, call, count, frame, event>>

\* Mutant: the loop stops before the last signal.
SaveAllButLast(c) ==
    /\ pc[c] = "saving" /\ ~exited
    /\ LET i == count[c]
       IN  IF i = Len(GuestSignals)
           THEN /\ Goto(c, "installing") /\ count' = [count EXCEPT ![c] = 1]
                /\ UNCHANGED previous
           ELSE /\ previous' = [previous EXCEPT ![i] = action[i]]
                /\ UNCHANGED pc /\ count' = [count EXCEPT ![c] = i + 1]
    /\ UNCHANGED <<hostState, lock, action, handlers, gates, call, frame, event, fault>>

\* One turn of the loop that reads the dispositions into g_previous_actions.
SaveAction(c) ==
    /\ pc[c] = "saving" /\ ~exited
    /\ LET i == count[c]
       IN  \/ /\ previous' = [previous EXCEPT ![i] = action[i]]
              /\ IF i = Len(GuestSignals)
                 THEN Goto(c, "installing") /\ count' = [count EXCEPT ![c] = 1]
                 ELSE UNCHANGED pc /\ count' = [count EXCEPT ![c] = i + 1]
              /\ UNCHANGED fault
           \/ /\ FailsWith(c, "recovery_setup_failure") /\ Goto(c, "leaving")
              /\ UNCHANGED <<previous, count>>
    /\ UNCHANGED <<hostState, lock, action, handlers, gates, call, frame, event>>

\* One turn of the loop that installs guest_signal_handler; count - 1 is
\* installed_count.  A failure restores what was installed.
InstallAction(c) ==
    /\ pc[c] = "installing" /\ ~exited
    /\ LET i == count[c]
       IN  \/ /\ action' = [action EXCEPT ![i] = "guest"]
              /\ Goto(c, IF i = Len(GuestSignals) THEN "armed" ELSE "installing")
              /\ count' = [count EXCEPT ![c] = i + 1]
              /\ UNCHANGED fault
           \/ /\ FailsWith(c, "recovery_setup_failure")
              /\ Goto(c, "restoring")
              /\ UNCHANGED <<action, count>>
    /\ UNCHANGED <<hostState, lock, previous, handlers, gates, call, frame, event>>

\* sigsetjmp returns 0: install the filter if asked to, publish the frame and
\* enter the guest.  Without a filter the guest is not entered.
EnterGuest(c) ==
    /\ pc[c] = "armed" /\ ~exited
    /\ \/ /\ frame' = [frame EXCEPT ![c] = TRUE]
          /\ Goto(c, "guest") /\ UNCHANGED fault
       \/ /\ call[c].mode = "seccomp"
          /\ FailsWith(c, "syscall_interception_setup_failure")
          /\ Goto(c, "restoring") /\ UNCHANGED frame
    /\ UNCHANGED <<hostState, process, call, count, event>>

\* AddVectoredExceptionHandler, then the same on Windows.
AddHandler(c) ==
    /\ pc[c] = "addhandler" /\ ~exited
    /\ \/ /\ handlers' = handlers \cup {c}
          /\ frame' = [frame EXCEPT ![c] = TRUE]
          /\ Goto(c, "guest") /\ UNCHANGED fault
       \/ /\ FailsWith(c, "recovery_setup_failure") /\ Goto(c, "leaving")
          /\ UNCHANGED <<handlers, frame>>
    /\ UNCHANGED <<hostState, lock, action, previous, gates, call, count, event>>

-----------------------------------------------------------------------------
(* Leaving the guest. *)

IndexOf(sig) == CHOOSE i \in SignalIndex : GuestSignals[i] = sig

\* What happens to a signal that guest_signal_handler passes on: a default
\* action ends the process, a handler of the host runs and returns, and the
\* handler itself, saved by mistake, calls itself without end.
Passed(i) ==
    IF previous[i] = "guest" THEN "recursion"
    ELSE IF previous[i] = "original" THEN "original" ELSE "default"

\* chain_previous_signal on Linux, EXCEPTION_CONTINUE_SEARCH on Windows.
Chain(i) ==
    /\ hostFault' = IF platform = "linux" THEN Passed(i) ELSE "original"
    /\ exited' = (original = "default" \/ hostFault' # "original")

\* guest_signal_handler and windows_guest_exception_handler for a fault of the
\* guest's thread at rip.
Handle(c, sig, rip) ==
    IF frame_owns_guest_rip(Image(c), rip)
    THEN /\ event' = [event EXCEPT ![c] = [kind |-> "signal", sig |-> sig, rip |-> rip]]
         /\ Goto(c, "landed")
         /\ UNCHANGED <<exited, hostFault>>
    ELSE Chain(IndexOf(sig)) /\ UNCHANGED <<event, pc>>

\* The guest faults, traps at a gate or at a registered site, or runs into
\* host code and faults there.
GuestFaults(c) ==
    /\ pc[c] = "guest" /\ ~exited
    /\ \E sig \in Signals, rip \in FaultPoints : Handle(c, sig, rip)
    /\ UNCHANGED <<platform, original, decision, unrestored, process, call, count,
                   frame, fault>>

\* The two-byte system call instruction at a site of the guest's code, or of
\* host code the guest has jumped to.
SiteOf(image, site, arch) ==
    IF exact_executable_contains(image, site)
    THEN /\ exact_executable_contains(image, site + 1)
         /\ image.op[site] = IF arch = "x86_64" THEN "syscall" ELSE "int80"
    ELSE ~exact_executable_contains(image, site + 1)

\* The guest's thread makes a system call under the filter.  The kernel gives
\* the filter and the handler the address of the instruction or of the next.
GuestSyscall(c) ==
    /\ pc[c] = "guest" /\ ~exited /\ call[c].mode = "seccomp"
    /\ \E site \in 0 .. MaxAddress - 2, arch \in Arches, nr \in Numbers :
       \E ip \in {site, site + 2} :
        LET data == [ip |-> ip, arch |-> arch, nr |-> nr]
            verdict == Verdict(Filter(Image(c)), data)
        IN  /\ SiteOf(Image(c), site, arch)
            /\ decision' = [kind |-> "asked", by |-> c, data |-> data, site |-> site,
                            verdict |-> verdict]
            /\ IF verdict # "trap" THEN UNCHANGED <<exited, hostFault, event, pc>>
               ELSE IF \E i \in DOMAIN Image(c).exec :
                            range_contains(seccomp_ranges(Image(c))[i], ip)
               THEN /\ event' = [event EXCEPT ![c] =
                            [kind |-> "syscall", rip |-> site + 2, ip |-> ip,
                             arch |-> arch, nr |-> nr]]
                    /\ Goto(c, "landed")
                    /\ UNCHANGED <<exited, hostFault>>
               ELSE Chain(IndexOf("SIGSYS")) /\ UNCHANGED <<event, pc>>
    /\ UNCHANGED <<platform, original, unrestored, process, call, count, frame, fault>>

\* (decision is forgotten here: the questions of one run are over.)
\* sigsetjmp returns 1, or the recovery routine returns: g_active_frame = null.
Land(c) ==
    /\ pc[c] = "landed" /\ ~exited
    /\ frame' = [frame EXCEPT ![c] = FALSE]
    /\ Goto(c, IF platform = "linux" THEN "restoring" ELSE "removehandler")
    /\ decision' = NoEvent
    /\ UNCHANGED <<platform, original, exited, hostFault, unrestored, process, call,
                   count, event, fault>>

\* Mutant: the loop stops before the first signal.
RestoreAllButFirst(c) ==
    /\ pc[c] = "restoring" /\ ~exited
    /\ IF count[c] <= 2
       THEN Goto(c, "leaving") /\ UNCHANGED <<action, count>>
       ELSE /\ action' = [action EXCEPT ![count[c] - 1] = previous[count[c] - 1]]
            /\ count' = [count EXCEPT ![c] = @ - 1] /\ UNCHANGED pc
    /\ UNCHANGED <<hostState, lock, previous, handlers, gates, call, frame, event,
                   fault>>

\* Mutant: the result of the last call decides, not the first error.
LastCallDecides(c) ==
    /\ pc[c] = "restoring" /\ ~exited
    /\ LET i == count[c] - 1
       IN  \/ /\ i > 0
              /\ \/ action' = [action EXCEPT ![i] = previous[i]] /\ UNCHANGED unrestored
                 \/ unrestored' = TRUE /\ UNCHANGED action
              /\ count' = [count EXCEPT ![c] = i]
              /\ UNCHANGED <<pc, fault>>
           \/ /\ i = 0
              /\ Goto(c, "leaving")
              /\ UNCHANGED fault \/ FailsWith(c, "recovery_setup_failure")
              /\ UNCHANGED <<action, count, unrestored>>
    /\ UNCHANGED <<platform, original, exited, hostFault, decision, lock, previous,
                   handlers, gates, call, frame, event>>

\* One turn of restore_signal_environment, which goes on after a failure, and
\* its last call, which restores the alternate stack.
RestoreAction(c) ==
    /\ pc[c] = "restoring" /\ ~exited
    /\ LET i == count[c] - 1
       IN  \/ /\ i > 0
              /\ action' = [action EXCEPT ![i] = previous[i]]
              /\ count' = [count EXCEPT ![c] = i]
              /\ UNCHANGED <<pc, fault, unrestored>>
           \/ /\ i > 0
              /\ count' = [count EXCEPT ![c] = i]
              /\ FailsWith(c, "recovery_setup_failure") /\ unrestored' = TRUE
              /\ UNCHANGED <<pc, action>>
           \/ /\ i = 0
              /\ Goto(c, "leaving")
              /\ \/ UNCHANGED fault
                 \/ FailsWith(c, "recovery_setup_failure")
              /\ UNCHANGED <<action, count, unrestored>>
    /\ UNCHANGED <<platform, original, exited, hostFault, decision, lock, previous,
                   handlers, gates, call, frame, event>>

RemoveHandler(c) ==
    /\ pc[c] = "removehandler" /\ ~exited
    /\ \/ handlers' = handlers \ {c} /\ UNCHANGED <<fault, unrestored>>
       \/ /\ FailsWith(c, "recovery_setup_failure") /\ unrestored' = TRUE
          /\ UNCHANGED handlers
    /\ Goto(c, "leaving")
    /\ UNCHANGED <<platform, original, exited, hostFault, decision, lock, action,
                   previous, gates, call, count, frame, event>>

\* ~GateMapping, after the thread has been joined.
UnmapGate(c) ==
    /\ pc[c] = "leaving" /\ ~exited
    /\ gates' = gates \ {c}
    /\ Goto(c, "unlocking")
    /\ UNCHANGED <<hostState, lock, action, previous, handlers, call, count, frame,
                   event, fault>>

\* Mutant: the kernel's address is taken for the address of the instruction.
NormalizedAtKernelIp(image, e) ==
    IF image.op[e.ip] = (IF e.arch = "x86_64" THEN "syscall" ELSE "int80")
    THEN [kind |-> "syscall", guest_rip |-> e.ip, nr |-> e.nr]
    ELSE Failure("syscall_interception_metadata_failure")

\* normalize_seccomp_syscall_trap: the instruction before the saved rip, if it
\* is the right one and the kernel's address agrees with it.
Normalized(image, e) ==
    IF e.rip >= 2
    THEN LET site == e.rip - 2
         IN  IF /\ exact_executable_contains(image, site)
                /\ exact_executable_contains(image, site + 1)
                /\ e.ip \in {site, e.rip}
                /\ image.op[site] = (IF e.arch = "x86_64" THEN "syscall" ELSE "int80")
             THEN [kind |-> "syscall", guest_rip |-> site, nr |-> e.nr]
             ELSE Failure("syscall_interception_metadata_failure")
    ELSE Failure("syscall_interception_metadata_failure")

\* The classification of the handlers, and fault_kind_for_signal.
Stop(image, e) ==
    IF e.sig = "SIGILL" /\ IsGateSlot(image, e.rip)
    THEN [kind |-> "host_gate", slot |-> (e.rip - image.gate[1]) \div Stride]
    ELSE IF e.sig = "SIGILL" /\ e.rip \in image.traps
    THEN [kind |-> "registered_syscall_trap", rip |-> e.rip]
    ELSE [kind |-> "guest_fault", rip |-> e.rip,
          fault |-> CASE e.sig \in {"SIGSEGV", "SIGBUS"} -> "access_violation"
                      [] e.sig = "SIGILL" -> "illegal_instruction"
                      [] e.sig = "SIGFPE" -> "arithmetic"
                      [] OTHER -> "unknown"]

\* What the entry of c returns, once it has cleaned up.
Outcome(c) ==
    IF fault[c] # "none" THEN Failure(fault[c])
    ELSE IF event[c].kind = "syscall" THEN Normalized(Image(c), event[c])
    ELSE Stop(Image(c), event[c])

\* The mutex is released and the caller has Outcome(c).
Unlock(c) ==
    /\ pc[c] = "unlocking" /\ ~exited
    /\ lock' = NoCaller
    /\ Forget(c)
    /\ event' = [event EXCEPT ![c] = NoEvent]
    /\ fault' = [fault EXCEPT ![c] = "none"]
    /\ UNCHANGED <<hostState, action, previous, handlers, gates, frame>>

\* A thread of the process that runs no guest faults in host code.
HostFaults ==
    /\ ~exited
    /\ \E i \in SignalIndex :
        IF platform = "linux" /\ action[i] = "original"
        THEN hostFault' = "original" /\ exited' = (original = "default")
        ELSE Chain(i)
    /\ UNCHANGED <<platform, original, unrestored, decision, process, pc, call, count,
                   frame, event, fault>>

CallerNext(c) ==
    \/ Enter(c) \/ TryLock(c) \/ MapGate(c) \/ CommitGate(c) \/ ProtectGate(c)
    \/ FlushGate(c) \/ StartThread(c)
    \/ SetAlternateStack(c) \/ SaveAction(c) \/ InstallAction(c) \/ EnterGuest(c)
    \/ AddHandler(c) \/ GuestFaults(c) \/ GuestSyscall(c) \/ Land(c)
    \/ RestoreAction(c) \/ RemoveHandler(c) \/ UnmapGate(c) \/ Unlock(c)

Next == HostFaults \/ \E c \in Callers : CallerNext(c)

Spec == Init /\ [][Next]_vars

-----------------------------------------------------------------------------
(* Properties. *)

\* Whatever step of an entry fails, and whatever the guest does, an entry that
\* has released the mutex has put back every disposition, vectored handler and
\* mapping it replaced (restore_signal_environment, ~GateMapping), unless the
\* host refused the very call that puts it back.
NothingLeftBehind ==
    lock = NoCaller /\ ~unrestored =>
        /\ \A i \in SignalIndex : action[i] = "original"
        /\ handlers = {} /\ gates = {}
        /\ \A c \in Callers : ~frame[c]

\* While a guest runs, a fault in any other thread of the process, or of the
\* guest's own thread in code that is not the guest's, still gets what the
\* host had installed (chain_previous_signal): it is never answered by the
\* guest's handler again and never by an action that was not yet saved.
HostFaultsReachHost == ~unrestored => hostFault \in {"none", "original"}

\* The program install_guest_executable_syscall_filter assembles decides as
\* its comments say: every system call instruction of guest code traps, and
\* outside of it (one byte past a range aside) a foreign calling convention or
\* a denied number is refused and everything else is allowed.
FilterDecides ==
    decision.kind = "asked" =>
        LET image == Image(decision.by)
            near == \E i \in DOMAIN image.exec :
                        decision.data.ip \in image.exec[i][1] ..
                                             image.exec[i][1] + image.exec[i][2]
            refused == \/ decision.data.arch # "x86_64"
                       \/ decision.data.nr >= X32Bit
                       \/ decision.data.nr \in LegacyFirst .. LegacyEnd - 1
                       \/ \E n \in DOMAIN Denied : Denied[n] = decision.data.nr
        IN  /\ exact_executable_contains(image, decision.site)
               => decision.verdict = "trap"
            /\ ~near => decision.verdict = IF refused THEN "errno" ELSE "allow"

\* Filter, handler and normalisation agree: an entry the guest left by a system
\* call of its own code returns exactly that call, and one left by a call that
\* was not in guest code returns an error.
SyscallsReported ==
    \A c \in Callers :
        pc[c] = "unlocking" /\ event[c].kind = "syscall" /\ fault[c] = "none" =>
            IF exact_executable_contains(Image(c), event[c].rip - 2)
            THEN Outcome(c) = [kind |-> "syscall", guest_rip |-> event[c].rip - 2,
                               nr |-> event[c].nr]
            ELSE Outcome(c).kind = "error"

\* An entry that leaves one of its handlers behind says so: whichever turn of
\* restore_signal_environment failed, or RemoveVectoredExceptionHandler did, and
\* whatever succeeded after it, the caller gets an error and never the guest's stop.
FailedRestorationIsReported ==
    \A c \in Callers :
        /\ pc[c] = "unlocking"
        /\ handlers # {} \/ \E i \in SignalIndex : action[i] # "original"
        => Outcome(c).kind = "error"
=============================================================================
