# Verification of the Astraea guest-worker runtime

TLA+ models of Astraea (`src/`), the TLC instances that check them, and proofs
checked by TLAPS. Every definition is translated from the C++ source;
`PROJECT.json` maps each one to its lines. Names follow the source where TLA+
allows it. A definition introduced by a comment `Mutant:` is a deliberately
wrong variant of the one after it; no specification uses it.

## The system

Astraea loads a PS5-style ELF image, lays it out in host memory, runs it
natively in a supervised worker process, answers its calls on the host side
(HLE), and follows the graphics commands it submits. The parts, their state and
what is hard about them:

| Part | State | Operations | What is hard | Module |
|---|---|---|---|---|
| Session controller (`guest_worker_process_session.cpp`) | child process and its guard, channel, deadline, accepted READY, terminal message and STOP, count of served calls | launch, HELLO/READY/RUN exchange, serve system calls, accept STOP/FAULT/DIAGNOSTIC, TERMINATE, reap or kill | the worker is not trusted; every host call can fail; a timeout races a late answer; a pid must not be killed after it was reaped | `GuestWorkerSession` |
| Launch of the worker (same file) | handles, process, job or limits | one host call at a time on Linux and on Windows | failure or death of the controller between two calls; a worker that already runs while its limits are lowered | `WorkerLaunch` |
| Wire protocol (`guest_worker_wire.cpp`, channel loops) | bytes in flight, partial frame | encode, decode, send and receive in pieces | frames split anywhere, end of file inside a frame, cancelled reads, signed fields, foreign bytes | `GuestWorkerWire` |
| Retail diagnostic (`linux_retail_diagnostic.cpp`, app) | the artifact's properties, worker's control point, death signal | preflight, report, exchange | two programs that wait for each other; the controller dies before the death signal is armed | `RetailDiagnostic` |
| Native execution (`linux_execution.cpp`, `windows_execution.cpp`) | signal dispositions or vectored handlers, entry lock, gate region, frames of threads | enter, trap, filter, normalise, clean up | process-wide state shared with host threads; 64-bit comparisons in 32-bit filter code; partial installation | `NativeExecution` |
| Image and memory plan (`guest_image.cpp`, `memory/`, `memory_plan.cpp`, `guest_memory.cpp`) | none (pure) | mappings, overlaps, initialized bytes, page plan, reservations, access check | overlapping segments, last page of the address space, shared granules | `GuestImagePlan`, `GuestImageBuild` |
| Dynamic section (`loader/dynamic*.cpp`, `*_hash.cpp`, `sce_*symbol*.cpp`) | none (pure) | entries, string, symbol and relocation tables, symbol counts, names | tags missing, repeated or contradicting each other; counts taken from a hash table | `DynamicTables` |
| Prepared memory and import binding (`linux_memory.cpp`, `windows_memory.cpp`, `module_graph_import_apply.cpp`) | host pages, owners, epochs, provider generations | prepare, move, release, access, register, retire, bind | failure half-way, moved-from objects, tokens that outlive a mapping | `PreparedMemory` |
| HLE session and services (`linux_session.cpp`, `hle_runtime.cpp`) | guest memory, registry, output, events | enter, dispatch, resume, exit | a service that fails after part of its work | `HleSession` |
| AGC shader creation (`sce_agc_*shader*.cpp`, `agc_shader_binary.cpp`) | guest header, created shaders | parse, plan patches, register, apply, roll back | header tables that lie over each other; a header prepared twice | `ShaderCreation`, `HleSession` |
| Linking (`hle.cpp`, `module_graph*.cpp`, `sce_import_*.cpp`, `sce_glob_dat_*.cpp`, `sce_jump_slot_*.cpp`, `owned_relative_*.cpp`) | guest memory, gates, module graph | create registry, bindings, gates and graph; plan, patch and apply a batch of relocations | a batch refused half-way, words that overlap, a gate bound to another function | `GuestLinking` |
| Graphics submission (`sce_agc_*submission*.cpp`, `sce_agc_link_shaders.cpp`, `pm4_*.cpp`, `*_register_state.cpp`) | captured stream, frames, three register files with the source of each value, draw plan, linked records | submit, frame, apply a packet, plan the draw, look up and bind shaders, link | registers set after the draw or twice before it; a buffer reused by the guest; a link whose second write fails | `Pm4`, `GraphicsSubmission` |
| Guest GPU memory (`gpu_*_address_space.cpp`, `gpu_image.cpp`, `gfx10_*.cpp`) | buffers, allocations, image views | register, resolve a write, lay out a surface, bind an image | ranges at the edges of each other; checks made twice with different arithmetic | `GpuMemory`, `GraphicsSubmission` |
| Shaders (`rdna2_decoder.cpp`, `shader_*.cpp`) | program, graph of blocks, scalar and vector state of a wave, executed blocks | decode, lower, build blocks, compile an export probe, execute block by block | branches into a block or a literal, a failure half-way through a block, exact binary32 sums, budgets, lane masks, a graph of another program | `ShaderProgram`, `ShaderInterpreter`, `ShaderExecution` |
| Vulkan executors (`vulkan_*_execution.cpp`) | Vulkan handles, mapped memory, recorded commands | plan, create, record, submit, wait, read back, release | failure at any call; memory that is not coherent; barriers and layouts | `VulkanPrograms`, `VulkanExecution` |
| ELF header, TLS template, initial stack | none (pure) | parsing, placement | offsets and overflow | not modelled (load segments are in `GuestImagePlan`) |
| Traces | two traces | encode, decode, compare | first difference | not modelled |
| SPIR-V words, test probes, command line, file reading | none | fixed output, I/O | nothing to check | not modelled |

`PROJECT.json` lists every component with its files and status, and the hazards
of the code with the line where each one bites and the properties that cover it.

## How the modules fit together

- `GuestWorkerSession` is the controller against a worker that may do anything.
  `SupervisedSession` is what its header promises in six actions; the session
  implements it under the mapping `Promise` (how far the exchange has come,
  whether a child is owned, what was returned).
- `RetailDiagnostic` extends `GuestWorkerSession`: the controller is the same,
  the arbitrary worker is replaced by the real one, and the command around the
  session and the death of its process are added.
- `WorkerLaunch` opens up what `Spawn`, `OpenPidfd` and `ApplyLimit` of the
  session do in one step each, and adds the Windows launch. `GuestWorkerWire`
  opens up a frame of the session's channels.
- `GuestImagePlan` holds the operators of image layout, `DynamicTables` those of
  the tables behind the dynamic section, read through the initialized view of
  the image. `GuestImageBuild` runs both on every small image; `PreparedMemory`
  prepares images with the former.
- `GuestLinking` extends `GuestImageBuild`: a prepared image gets its gates and
  its module graph, and batches of relocations parsed from its tables are
  written into its memory, as `validate` of `GuestImagePlan` admits them.
- `HleSession` extends `ShaderCreation`. What guest memory admits is a set of
  readable, writable and executable addresses there: the subject of
  `AccessesAreExact` in `GuestImageBuild`.
- `CheckedPlans` holds what the graphics planners share: results that are a value
  or the first error of an ordered list of checks, checked sums, and the plans of
  the Vulkan executors.
- `GraphicsSubmission` extends `Pm4` (packets and register files) and `GpuMemory`
  (buffers, allocations, images): a stream goes from the guest's buffer to a
  draw, to bound shaders and to memory that `VulkanExecution` takes, whose
  planning operators it calls through `CheckedPlans`.
- `VulkanExecution` extends `VulkanPrograms`, the four executors as sequences of
  Vulkan calls with what each needs and makes.
- `ShaderExecution` extends `ShaderInterpreter`, which extends `ShaderProgram`.
- The theorems about a module are in the module named after it with `Proofs`:
  `GuestWorkerSession`, `RetailDiagnostic`, `WorkerLaunch`, `NativeExecution` and
  `PreparedMemory` have one. `RetailDiagnosticProofs` extends the session's.

## Modelling decisions

- **Session.** A frame is a record of the fields the controller compares.
  `config` is chosen at the start, invalid ones included. The deadline is one
  Boolean that turns true once: after it, data that is already readable is
  still accepted, as `poll` with a timeout of zero does. `HostFails` is any
  failing host call at the point where it can happen. Unwinding is explicit:
  `UnwindReleased`, `KillChild`, `ReapKilled` are the destructor of `ChildGuard`.
  `WaitFindsNoChild` is the ECHILD of `wait_for_child`: someone else in the process
  reaped the child. Only that wait looks for it, so only there does it happen.
- **Launch.** `pc` names the next host call. A failing return drops the handles
  the function owns; `ControllerDies` closes everything the kernel closes.
- **Wire.** A byte is a digit of base `ByteBase`; all offsets, sizes and
  enumerators are the code's. Windows differs in that a read that timed out may
  complete before its cancellation.
- **Native execution.** A word has two halves below `HalfBase`; the seccomp
  program is built instruction by instruction as in the code and interpreted.
  A context keeps every field `validate_context` compares; the remaining registers
  are left out. The two `prepare` functions of the gates run host call by host call
  (map or reserve, commit, protect, flush), each may fail, and a failing one unmaps
  what it mapped; `munmap` and `VirtualFree` are taken to succeed. After the host
  has refused to undo a step no further entry takes the mutex: a bound on the
  instance (`~unrestored` in `TryLock`).
- **Image.** A byte is identified by where it comes from: an offset of the file
  or zero fill. `MaxAddress` stands for 2^64 - 1, so that overflow occurs. The
  TLS template, the initial stack and allocations enter `BuildImage` as a step that
  fails.
- **Dynamic tables.** A cell stands for the bytes of one record field: a file cell
  is a record of everything the readers can take it for, so a wrong offset reads
  a wrong field; a symbol has two cells. Which dynamic entry an error names is left out. A name is a
  sequence of pieces; a piece is plain text, a whole `nid#library#module` form, or
  a broken one.
- **Linking.** A word is `WordSize` digits of base `ByteBase`. Which error a
  registry, a gate region or a graph reports is left out; an allocation that fails
  there leaves what a refused request leaves. A caller picks any relocations of one
  table (relative and module imports) or takes a whole table with any gate slots
  (`plan_sce_imports`). After its preflight a batch may still stop at any word,
  because a write, or for relative words the readback, is refused; the words
  written before stay, as in the code. The last page of the address space is never
  prepared: no kernel gives it to a process.
- **Prepared memory.** Preparations interleave at host calls. Two guests are
  written out in the instance, and `GuestsAssumption` compares them with what
  `GuestImagePlan` computes.
- **HLE session.** Memory is addressed in cells of 32 bits, with the header's
  own offsets; positions that are not a multiple of four bytes are therefore
  left out. Program type and counts share their cells as in the header. Lowering
  a program is external: it refuses the cells of `Undecodable`. A header inside
  the text it is created with is patched like any other, and the registered
  program is the text as it was before: `HandlersAreExact` compares it with that.
  A write of the patch application may fail at any pointer: the registration is
  taken back and the pointers written before stay. `PreparedHeadersAreRefused` speaks of headers whose address
  is not below the size they declare, which is every header from 2^32 up; the instance
  also has a header at address 8 that declares 60, where the absolute pointers are
  offsets again.
- **Graphics.** A word is a natural number up to `MaxWord`, so that sums that pass
  2^64 in the code pass it there; a 64-bit address is two words of `AddressWord`
  values. The packets keep the fields and opcodes of the code. A record of a link
  is its name; the ones nobody measured keep what they held.
- **Vulkan.** An executor is its program of calls; `Next` runs one call, lets the
  device run one command, fails the call or releases one handle. The driver
  promises what Vulkan does and no more: contents it does not promise are
  `Garbage`. Promises to the driver (an object used after its release, a mapping
  read unflushed, a handle released while something was made from it) are kept in
  `broken`. A pixel or word stands for the whole image or buffer.
- **Shaders.** A word is a signed 32-bit integer with the encoding of the code;
  registers and their values are integers. A wave of two lanes stands for 64,
  with `WaveLanes` for the 32 of a short one and of a half of `exec` and `vcc`.
  A binary32 number keeps its algorithm with `SignificandBits` and `ExponentBits`
  of three, where every pair of operands is tried. `Stepped` is the reference: it
  executes one instruction from the words and knows nothing of blocks, graphs or
  effects. The words of a SPIR-V module are what it stores.

## Runs

| Run | Distinct states | Bounds | Shows |
|---|---|---|---|
| `session_safety` | 2.9 million | two values of every identifier, one ceiling, one served call, one frame of buffer | no orphan after return (`NoOrphan`); success only on a matching READY, terminal message, STOP and a voluntary exit (`SuccessIsEvidence`); the service is called within its bound and never after a terminal message (`ServiceDiscipline`); no kill of a released pid (`KillTargetsOwnedChild`); an accepted terminal message stays (`TerminalIsFinal`) |
| `session_liveness` | 361 000 | one worker id, no ceiling | the call returns (`SessionReturns`) and implements `SupervisedSession`, which also promises an end (`KeepsPromise`) |
| `retail_diagnostic` | 193 000 | all 128 artifacts, two ceilings, every exit code of the worker | the exit code and the accepted report name the first boundary (`ReportsFirstBoundary`), an orphaned worker does nothing (`NoOrphanWork`), a boundary is printed only after each side has read all the other sent and the worker has exited (`PrintedExchangeIsComplete`), the command ends whichever host call fails (`ExchangeCompletes`) |
| `worker_launch` | 114 000 | two ceilings, limits 0 to 2 | `NothingLeaks`, `ConfinedBeforeRunning`, `CeilingsHold` |
| `worker_wire` | 177 000 | base 4; each field at its least, its greatest and a distinct value; eight places of tampering; chunks of 9 and 64, which split header and payload | what arrives was sent, in order (`DeliveredAsSent`); a frame that decodes re-encodes to itself (`CanonicalFrames`); a receive returns (`ReceiverReturns`) |
| `native_execution` | 242 000 | two callers, four images that run, four with gates that are refused and seven with contexts that are; three signals, sixteen addresses, pages of 2 and granules of 4 | nothing of an entry remains (`NothingLeftBehind`), faults of host code reach the host's handler (`HostFaultsReachHost`), the filter decides as its description says (`FilterDecides`), system calls are reported at their instruction (`SyscallsReported`), an entry that leaves a handler behind returns an error (`FailedRestorationIsReported`) |
| `guest_image` | 246 000 | up to three segments over 32 addresses, two page sizes; dynamic sections with each entry missing, changed or repeated; 2 240 GNU hash tables; relocations inside, across and outside writable memory; thirteen gate setups, nine module graphs, two batches | byte by byte and page by page: `BuiltImageInitializes`, `PlanIsExact`, `AccessesAreExact`; after any batches guest memory is the image with exactly the words reported written, each what its relocation names, and a batch that stopped half-way was not stopped by its own words (`LinkedWordsAreExact`) |
| `prepared_memory` | 26 000 | two objects, two guests, two preparations, epochs that start anywhere, epochs and generations that reach their last value | `PagesHaveOneOwner`, `AccessIsBacked`, `BindingsAreLive` |
| `hle_session` | 208 000 | 378 headers, two gate calls, four effects of guest code, outputs and texts inside, outside and at the edges | a service that succeeds has done all its work and one that fails at most the beginning of it (`HandlersAreExact`), a prepared header is refused (`PreparedHeadersAreRefused`), `EventsChain` |
| `vulkan_execution` | 21 000 | four executors, hosts with and without coherent memory, suitable queues, formats and extents, every request at and past its limits | nothing is left, released twice or released before what was made from it, whichever call fails (`ResourcesAreReleased`); what is returned is what the device computed (`ReadbackIsExact`) |
| `graphics_submission` | 101 000 | about 490 streams: a draw with packets removed, repeated, reordered, malformed or inserted anywhere; three ranges, two shaders, two views | `PlannedDrawIsTheSubmittedOne`, `LinkReportsWhatItWrote`; what the registries accept the executors take, unless its pixels are not four bytes, its buffer starts between two words or it is longer than one update (`AcceptedWorkFitsTheExecutors`) |
| `shader_execution` | 109 000 | 21 000 streams of up to four words over all kinds of instruction, three scalar states, four waves, budgets 0 to 3, all 4096 pairs of operands, 480 probes | every block does what its instructions do one at a time (`BlocksFollowTheProgram`); a sum is exact or refused, and refused only when no normal number equals it (`AddsAreExact`); the module of a probe stores what its stream exports (`ProbeDrawsTheExport`) |

The bounds are the smallest at which the interesting cases occur. Two values of
an identifier are enough for a mismatch; a buffer of one frame makes every send
block; one served call puts the counter at its limit and beyond it; three
segments are needed for one mapping to hide a conflict of two others; two
preparations are needed for an address to be mapped again after its token was
issued (the process counter of epochs starts at any value, as earlier
preparations leave it, so that it also runs out); two gate calls are needed to create a shader again. Each property is
also run against a variant of one definition, as a plausible slip in the code
would change it, and TLC then reports it violated.

## Fairness

- `GuestWorkerSession`: weak fairness of the controller (it is one thread that
  runs whenever it can), of `ChildDies` (the kernel delivers SIGKILL) and of
  `DeadlinePasses` (time goes on). The worker has none: it may stay silent
  forever. Host failures have none.
- `RetailDiagnostic`: weak fairness of the command's steps (`ControllerStep`,
  `ReportResult`), of the kernel's kill (`WorkerKilled`) and of `WorkerStep`: the
  worker is a running program there. The deadline and
  the host failures have none: the command is shown to end without the deadline and
  after any failures, unless its own process is killed.
- `GuestWorkerWire`: the receiver's loop and its timeout; the sender has none.
- All other specifications are checked for safety only.

## Proofs

`GuestWorkerSessionProofs` proves, for every set of identifiers, ceilings and
exit codes, every bound on served calls and every channel capacity:
`TypeCorrect`, `SessionLeavesNoOrphan`, `SessionSuccessIsEvidence`,
`SessionServiceDiscipline`, `SessionCeilingsBeforeRun`, `SessionKillsOwnedChild`,
`SessionTerminalIsFinal` and `SessionImplementsPromise`, the last one for the
safety part of `SupervisedSession`.

The assumptions are `IdentifiersAssumption` (identifiers are naturals with 0 for
an absent one) and `BoundsAssumption`. None of the properties is inductive by
itself: `NoOrphan` speaks of the moment of return and needs to know at every
control point who owns the child. The inductive invariant is

    Inv == TypeOK /\ OwnershipInv /\ TerminalInv /\ EvidenceInv
                  /\ CeilingsInv /\ ServiceInv

- `OwnershipInv` ties the guard and the kernel's state of the child to the
  control point: the guard is armed exactly while the child is unreaped.
- `TerminalInv`: no terminal message is accepted before RUN, and an accepted one
  comes from the worker that sent READY.
- `EvidenceInv`: at each control point, what READY and STOP that were accepted
  agree with, and what a success rests on.
- `CeilingsInv`: after launch every requested ceiling is installed.
- `ServiceInv`: how the count of requests and of service calls relate.

`Inductive` has one case per action; the two action properties and the
refinement step (`PromiseStep`) follow from the invariant.

`RetailDiagnosticProofs` puts the real worker in place of the arbitrary one.
`RetailStepAdmitted` shows that every step of the composition is a step of the
session or leaves it alone, so `Inv` above holds here too, and with it
`RetailLeavesNoOrphan`.
`LifetimeInv` (a running worker past its first step has armed its death signal)
gives `RetailLeavesNoOrphanWork`; `ReportInv` (every frame in the channel, and the
terminal message and STOP that were accepted, are the ones the worker computes
from this artifact) gives `RetailPrintsFirstBoundary`, the safety half of
`ReportsFirstBoundary`. `RetailAssumption` says that the identifiers, boundaries and
exit codes the worker uses are among those of the session.

`WorkerLaunchProofs` proves `LaunchLeaksNothing`, `LaunchConfines` and
`LaunchCeilingsHold` for every set of ceilings and every limit
(`LaunchAssumption`: both are naturals). What is held when a call fails decides
what is left, so `HandlesInv` and `ProcessInv` list, for each call, the handles held
and who owns the process; `LimitsInv` says that a limit that was lowered stays
within the request although the worker may change it.

`NativeExecutionProofs` proves `EntryLeavesNothingBehind`, `EntryPassesHostFaults` and
`EntryReportsFailedRestoration` for any callers and images and any sequence of the
five signals with SIGSYS in it (`SignalsAssumption`; `NoCallerAssumption` keeps the
unlocked mutex apart from the callers). `HolderInv` says what the holder of the
mutex has saved and replaced at every turn of the loops that save, install and
restore; `LockInv` that there is one holder; `ReportInv` that once a restoration has
failed the holder carries an error that nothing clears before it returns.
`GateSteps` says once what the steps that map the gates may change.

`PreparedMemoryProofs` proves `PreparedPagesHaveOneOwner` for any objects, guests
and address space (`HostPagesAssumption`: other code maps pages of that space).
The property counts owners, which no step preserves by itself. `PagesInv` says
that an owner lists exactly the pages that carry its number, and `NumbersInv` that
no two owners have one number. There is one lemma per kind of step (`TakeKeeps`,
`FailKeeps`, `PublishKeeps`, `MoveKeeps`, ...), and the theorem turns the
uniqueness into a count.

Each of these invariants was checked by TLC on the instance of its run before it
was proved.

Out of the prover's reach, and checked by TLC only: liveness under fairness
(`SessionReturns`, `ExchangeCompletes`, `ReceiverReturns` and the liveness part of
`KeepsPromise`), what recursively defined operators compute for every input, and
so the exactness properties of the codec, the filter, the image plan and the
shader preparation.

## What is not modelled

Register contents that no check compares; the text of
diagnostics and traces; the words of SPIR-V modules (`SpirvBuilder`,
`spirv_raster_probe.cpp`, `spirv_vector_probe.cpp`), which are fixed data;
`agc_shader_container.cpp`, which no other part of the program reads; the Vulkan
driver, the kernel and the file system, which are external. An instruction
reaches the lowering from the decoder only, so the refusals of instructions whose
format contradicts their kind (`valid_*_source` in `shader_ir.cpp`) cannot happen
and are left out. The lifetime of one `OVERLAPPED` on a failing path of the
Windows connect is below the level of `WorkerLaunch`; a wait for a fence that
fails while the device goes on is excepted from `ResourcesAreReleased`. Both are
listed as hazards. A leak of the memory of `posix_spawn_file_actions_t` under an
exception is visible in `WorkerLaunch` (`actions` stays held) and not counted
as one by `NothingLeaks`. Of a process whose host refuses to
restore its handlers only `FailedRestorationIsReported` is claimed.

The TLS template (`tls_template.cpp`, and `owned_tls_module_patch.cpp`, whose patch
nothing applies), the contents of the initial stack, the SCE metadata, of which
`RetailDiagnostic` keeps only whether the diagnostic can use it, and the trace formats
are not modelled.

## Plan

1. *TLS template, initial stack and traces*: bounded algorithms over wide words;
   the address space of `GuestImageBuild` is too small for a stack of arguments,
   environment and auxiliary vector.
2. *Proofs*: the chain of events of `HleSession` (`EventsChain`) and the release of
   resources in `VulkanExecution` (`ResourcesAreReleased`).
