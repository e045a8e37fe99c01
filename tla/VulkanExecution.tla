--------------------------- MODULE VulkanExecution ---------------------------
(***************************************************************************)
(* A call of one of the executors of VulkanPrograms on some host: every     *)
(* Vulkan call may fail, the submitted commands run on the device at their  *)
(* own pace, and the destructor of the resources runs on every return.      *)
(*                                                                          *)
(* The driver is external.  What it promises is Vulkan's: a command sees    *)
(* what an earlier one wrote only through a barrier that names the writing  *)
(* access, an image keeps its contents only when a transition names the     *)
(* layout it is in, the host sees mapped memory that is not coherent only   *)
(* after an invalidation and the device only after a flush.  Contents that  *)
(* are not promised are Garbage.                                            *)
(***************************************************************************)
EXTENDS VulkanPrograms

CONSTANTS Hosts,    \* sequences of devices [families, format, extent, memory]
          Requests  \* executor -> what it may be called with

VARIABLES executor, request, host,
          at,        \* index in the program, or in the release while returning
          phase,     \* plan, run, release, returned
          device,    \* the selected device
          types,     \* memory -> flags of the selected type
          live,      \* handles that are not null
          view,      \* what the host's mapping holds
          gpu,       \* [queue, cells, wrote, seen, layout]
          recorded,  \* commands in the command buffer
          result, output,
          broken     \* history: promises to the driver that were not kept

vars == <<executor, request, host, at, phase, device, types, live, view, gpu, recorded,
          result, output, broken>>

Garbage == -1
Garbled(cells) == [i \in DOMAIN cells |-> Garbage]
ClearColor == 1
DrawnColor == 2
Shaded(value) == value + 1000  \* what the shader makes of a word
NoDevice == [families |-> << >>, format |-> FALSE, extent |-> 0, memory |-> << >>]

Mapped == IF executor \in {"buffer_write", "vector"} THEN "buffer" ELSE "staging_buffer"
MappedMemory == IF executor \in {"buffer_write", "vector"} THEN "memory" ELSE "staging_memory"
Coherent == "host_coherent" \in types[MappedMemory]

\* One cell for a byte of the buffer, a word of the state, a pixel of the image.
CellCount ==
    CASE executor = "buffer_write" -> request.region.byte_size
      [] executor = "vector" -> Len(request.initial_words)
      [] OTHER -> request.width * request.height
Unwritten == [i \in 0 .. CellCount - 1 |-> Garbage]
Resources == {Mapped} \cup (IF executor \in {"offscreen", "raster"} THEN {"image"} ELSE {})

Init ==
    /\ executor \in Executors /\ request \in Requests[executor] /\ host \in Hosts
    /\ phase = "plan" /\ at = 1 /\ device = NoDevice /\ types = << >> /\ live = {}
    /\ view = << >> /\ recorded = << >> /\ result = "running" /\ output = << >> /\ broken = {}
    /\ gpu = [queue |-> << >>, cells |-> << >>, wrote |-> << >>, seen |-> << >>,
              layout |-> "undefined"]

Proceed == at' = at + 1 /\ UNCHANGED <<executor, request, host, phase, result, output>>
Fail(error) ==
    /\ phase' = "release" /\ at' = 1 /\ result' = error
    /\ UNCHANGED <<executor, request, host, device, types, live, view, recorded, output, broken>>

Step == Program[executor][at]
Calls(call) == phase = "run" /\ Step.call = call
Breaks(condition, what) == broken' = IF condition THEN broken \cup {what} ELSE broken

PlanRefusal ==
    CASE executor = "buffer_write" ->
             plan_vulkan_gpu_buffer_write(request.region, request.resolution, request.operation)
      [] executor = "offscreen" -> plan_vulkan_offscreen_image(request)
      [] executor = "raster" -> RasterPlan(request)
      [] executor = "vector" -> VectorPlan(request.layout, request.initial_words)

Plan ==
    /\ phase = "plan"
    /\ IF PlanRefusal # "none" THEN Fail(PlanRefusal) /\ UNCHANGED gpu
       ELSE /\ phase' = "run" /\ at' = 1
            /\ gpu' = [queue |-> << >>,
                       cells |-> [r \in Resources |-> Unwritten],
                       wrote |-> [r \in Resources |-> "none"],
                       seen |-> [r \in Resources |-> {}], layout |-> "undefined"]
            /\ view' = Unwritten
            /\ UNCHANGED <<executor, request, host, device, types, live, recorded, result,
                           output, broken>>

\* A call that returns an error; a flush or an invalidation is skipped on
\* coherent memory.
CallFails ==
    /\ phase = "run"
    /\ Step.call \in {"flush", "invalidate"} => ~Coherent
    /\ \E error \in Step.errors : Fail(error)
    /\ UNCHANGED gpu

Query ==
    /\ Calls("ask") /\ Proceed
    /\ UNCHANGED <<device, types, live, view, gpu, recorded, broken>>

\* A module without words passed the plan.
CheckModule ==
    /\ Calls("check_module")
    /\ IF request.module_words = 0 THEN Fail("invalid_probe_layout")
       ELSE Proceed /\ UNCHANGED <<device, types, live, view, recorded, broken>>
    /\ UNCHANGED gpu

Suitable(candidate) ==
    CASE executor = "buffer_write" -> BufferWriteDevice(candidate)
      [] executor = "offscreen" -> OffscreenDevice(candidate, request)
      [] executor = "raster" -> RasterDevice(candidate, request)
      [] executor = "vector" -> VectorDevice(candidate)

\* The first suitable device in the order of the driver.
SelectPhysicalDevice ==
    /\ Calls("select_device")
    /\ LET chosen == First({i \in DOMAIN host : Suitable(host[i])})
       IN  IF chosen = 0
           THEN Fail(IF host = << >> THEN "no_physical_device" ELSE Step.none)
           ELSE /\ device' = host[chosen] /\ Proceed
                /\ UNCHANGED <<types, live, view, recorded, broken>>
    /\ UNCHANGED gpu

MakeObject ==
    /\ phase = "run" /\ Step.call \in {"make", "allocate"}
    /\ live' = live \cup {Step.handle} /\ Proceed
    /\ Breaks(\/ ~(Step.from \subseteq live)
              \/ Step.handle = "mapping" /\ "host_visible" \notin types[MappedMemory],
              "made_from_live")
    /\ UNCHANGED <<device, types, view, gpu, recorded>>

MemoryType(memory, allowed) ==
    CASE executor = "buffer_write" -> BufferWriteMemoryType(device, allowed)
      [] executor = "offscreen" -> OffscreenMemoryType(device, memory, allowed)
      [] executor = "raster" -> RasterMemoryType(device, memory, allowed)
      [] executor = "vector" -> VectorMemoryType(device, allowed)

\* The driver says which types the resource admits.
SelectMemoryType ==
    /\ Calls("select_memory")
    /\ \E allowed \in SUBSET DOMAIN device.memory \ {{}} :
          LET chosen == MemoryType(Step.memory, allowed)
          IN  IF chosen = 0 THEN Fail(Step.none)
              ELSE /\ types' = [m \in DOMAIN types \cup {Step.memory} |->
                                    IF m = Step.memory THEN device.memory[chosen] ELSE types[m]]
                   /\ Breaks(chosen \notin allowed, "memory_type_allowed")
                   /\ Proceed /\ UNCHANGED <<device, live, view, recorded>>
    /\ UNCHANGED gpu

BindMemory ==
    /\ Calls("bind") /\ Proceed
    /\ Breaks(~({Step.handle, Step.memory} \subseteq live), "bound_while_live")
    /\ UNCHANGED <<device, types, live, view, gpu, recorded>>

\* Zeros, or the initial words.
HostWrites ==
    /\ Calls("fill") /\ Proceed
    /\ view' = [i \in DOMAIN view |-> IF executor = "vector" THEN request.initial_words[i + 1]
                                      ELSE 0]
    /\ gpu' = IF Coherent THEN [gpu EXCEPT !.cells[Mapped] = view'] ELSE gpu
    /\ UNCHANGED <<device, types, live, recorded, broken>>

FlushMapped ==
    /\ Calls("flush") /\ Proceed
    /\ gpu' = IF Coherent THEN gpu ELSE [gpu EXCEPT !.cells[Mapped] = view]
    /\ UNCHANGED <<device, types, live, view, recorded, broken>>

RecordCommand ==
    /\ Calls("record") /\ Proceed
    /\ recorded' = Append(recorded, Step.command)
    /\ UNCHANGED <<device, types, live, view, gpu, broken>>

\* Submission makes what the device's memory holds visible to the commands.
SubmitCommands ==
    /\ Calls("submit") /\ Proceed
    /\ gpu' = [gpu EXCEPT !.queue = recorded]
    /\ UNCHANGED <<device, types, live, view, recorded, broken>>

WaitForFence ==
    /\ Calls("wait") /\ gpu.queue = << >> /\ Proceed
    /\ UNCHANGED <<device, types, live, view, gpu, recorded, broken>>

\* The device is lost with its work, or the wait fails while the work goes on.
WaitFails ==
    /\ Calls("wait")
    /\ Fail("fence_wait_failure")
    /\ gpu' \in {gpu, [gpu EXCEPT !.queue = << >>]}

\* What the host may read of the device's writes.
VisibleToHost ==
    IF "host_read" \in gpu.seen[Mapped] THEN gpu.cells[Mapped] ELSE Garbled(gpu.cells[Mapped])

\* Mutant: mapped memory is taken to be coherent.
SkipInvalidate ==
    /\ Calls("invalidate") /\ Proceed
    /\ UNCHANGED <<device, types, live, view, gpu, recorded, broken>>

InvalidateMapped ==
    /\ Calls("invalidate") /\ Proceed
    /\ view' = IF Coherent THEN view ELSE VisibleToHost
    /\ UNCHANGED <<device, types, live, gpu, recorded, broken>>

\* The contents of the mapping are copied and returned.
CopyOutMapped ==
    /\ Calls("copy_out")
    /\ output' = IF Coherent THEN VisibleToHost ELSE view
    /\ result' = "success" /\ phase' = "release" /\ at' = 1
    /\ UNCHANGED <<executor, request, host, device, types, live, view, gpu, recorded, broken>>

\* The destructor takes its handles in its order and skips null ones.
ReleaseObject ==
    /\ phase = "release" /\ at <= Len(Release[executor])
    /\ LET handle == Release[executor][at]
       IN  /\ live' = live \ {handle}
           /\ Breaks(\E other \in live' : handle \in live /\ handle \in Sources(executor, other),
                     "outlived_by_its_source")
    /\ at' = at + 1
    /\ UNCHANGED <<executor, request, host, phase, device, types, view, gpu, recorded, result,
                   output>>

Return ==
    /\ phase = "release" /\ at > Len(Release[executor])
    /\ phase' = "returned"
    /\ UNCHANGED <<executor, request, host, at, device, types, live, view, gpu, recorded, result,
                   output, broken>>

-----------------------------------------------------------------------------
(* The device. *)

Ordered(resource, access) ==
    gpu.wrote[resource] = "none" \/ access \in gpu.seen[resource]
Read(resource, access) ==
    IF Ordered(resource, access) THEN gpu.cells[resource] ELSE Garbled(gpu.cells[resource])
Write(resource, access, cells) ==
    [gpu EXCEPT !.cells[resource] = IF Ordered(resource, access) THEN cells ELSE Garbled(cells),
                !.wrote[resource] = access, !.seen[resource] = {}]
Uniform(color) == [i \in 0 .. CellCount - 1 |-> color]

\* A barrier for the wrong access makes nothing available.
Available(c) == IF gpu.wrote[c.on] \in {"none", c.source} THEN {c.target} ELSE {}

Effect(c) ==
    CASE c.op = "buffer_barrier" -> [gpu EXCEPT !.seen[c.on] = Available(c)]
      [] c.op = "image_barrier" ->
             [gpu EXCEPT !.seen[c.on] = Available(c), !.layout = c.new,
                         !.cells[c.on] = IF c.old = gpu.layout /\ c.old # "undefined" THEN @
                                         ELSE Garbled(@)]
      [] c.op = "update_buffer" ->
             LET first == request.resolution.byte_offset
             IN  Write("buffer", "transfer_write",
                       [i \in DOMAIN gpu.cells["buffer"] |->
                            IF i \in first .. first + request.resolution.byte_count - 1
                            THEN request.operation.values[((i - first) \div 4) + 1]
                            ELSE gpu.cells["buffer"][i]])
      [] c.op = "clear_image" ->
             Write("image", "transfer_write",
                   Uniform(IF gpu.layout = "transfer_dst" THEN ClearColor ELSE Garbage))
      [] c.op = "draw" ->
             [Write("image", "color_write", Uniform(DrawnColor))
                 EXCEPT !.layout = "color_attachment"]
      [] c.op = "copy_image" ->
             Write("staging_buffer", "transfer_write",
                   IF gpu.layout = "transfer_src" THEN Read("image", "transfer_read")
                   ELSE Uniform(Garbage))
      [] c.op = "dispatch" ->
             LET words == Read("buffer", "shader_read")
             IN  Write("buffer", "shader_write",
                       [i \in DOMAIN words |->
                            IF words[i] = Garbage THEN Garbage ELSE Shaded(words[i])])

\* The next command runs.  Its objects must exist; after a failed wait the
\* executor no longer knows whether they still do.
DeviceRuns ==
    /\ gpu.queue # << >>
    /\ gpu' = [Effect(Head(gpu.queue)) EXCEPT !.queue = Tail(@)]
    /\ Breaks(/\ result # "fence_wait_failure"
              /\ ~(Head(gpu.queue).uses \cup {"device", "command_pool", "fence"} \subseteq live),
              "used_while_live")
    /\ UNCHANGED <<executor, request, host, at, phase, device, types, live, view, recorded,
                   result, output>>

Next ==
    \/ Plan \/ CallFails \/ Query \/ CheckModule \/ SelectPhysicalDevice \/ MakeObject
    \/ SelectMemoryType \/ BindMemory \/ HostWrites \/ FlushMapped \/ RecordCommand
    \/ SubmitCommands \/ WaitForFence \/ WaitFails \/ InvalidateMapped \/ CopyOutMapped
    \/ ReleaseObject \/ Return
    \/ DeviceRuns

Spec == Init /\ [][Next]_vars

-----------------------------------------------------------------------------
(* Properties. *)

\* Whatever call fails, the executors keep the driver's rules and give back
\* what they took: an object is made from live ones and bound to memory of a
\* type its resource admits, only host-visible memory is mapped, no object is
\* destroyed before the ones made from it, the device never runs a command on
\* a destroyed object (a failed wait excepted, after which the destructors of
\* VulkanResources run while the work may go on), and no handle is left when
\* the executor returns.
ResourcesAreReleased ==
    /\ broken = {}
    /\ phase = "returned" => live = {}

\* What the device must have left in the mapped buffer.
Expected ==
    CASE executor = "buffer_write" ->
             [i \in 0 .. CellCount - 1 |->
                  LET word == (request.operation.destination - request.region.base)
                  IN  IF i \in word .. word + 4 * Len(request.operation.values) - 1
                      THEN request.operation.values[((i - word) \div 4) + 1] ELSE 0]
      [] executor = "vector" ->
             [i \in 0 .. CellCount - 1 |-> Shaded(request.initial_words[i + 1])]
      [] executor = "offscreen" -> Uniform(ClearColor)
      [] executor = "raster" -> Uniform(DrawnColor)

\* A success returns exactly what the request asks of the device: the guest's
\* words at their destination over zeros, every word shaded, every pixel
\* cleared or drawn.  That takes the flush and the invalidation on memory that
\* is not coherent, the fence before the read, and barriers and transitions
\* that name the accesses and layouts before them.
ReadbackIsExact == result = "success" => output = Expected
=============================================================================
