--------------------------- MODULE VulkanPrograms ---------------------------
(***************************************************************************)
(* The four Vulkan executors: a guest's GPU write (vulkan_gpu_buffer_write_ *)
(* execution.cpp), an offscreen image (vulkan_offscreen_image_execution),   *)
(* a full-screen triangle (vulkan_raster_probe_execution) and a vector      *)
(* shader (vulkan_vector_probe_execution).  Each one is a straight line of  *)
(* calls that returns at the first failure; here it is the sequence of its  *)
(* calls, with what a call makes, what it makes it from and how it fails.   *)
(* VulkanExecution runs them.                                               *)
(***************************************************************************)
EXTENDS CheckedPlans

CONSTANT MaxUpdateBytes  \* kVulkanGpuBufferWriteMaxUpdateBytes

Ask(errors) == [call |-> "ask", errors |-> errors]
Make(handle, from, error) ==
    [call |-> "make", handle |-> handle, from |-> from, errors |-> {error}]
Allocate(memory, error) ==
    [call |-> "allocate", handle |-> memory, from |-> {"device"}, errors |-> {error}]
SelectDevice(error) ==
    [call |-> "select_device", none |-> error,
     errors |-> {"physical_device_enumeration_failure", "host_allocation_failure"}]
SelectMemory(memory, error) ==
    [call |-> "select_memory", memory |-> memory, none |-> error, errors |-> {}]
Bind(handle, memory, error) ==
    [call |-> "bind", handle |-> handle, memory |-> memory, errors |-> {error}]
MapMemory(memory) ==
    [call |-> "make", handle |-> "mapping", from |-> {memory}, errors |-> {"memory_map_failure"}]
Fill == [call |-> "fill", errors |-> {}]
Flush == [call |-> "flush", errors |-> {"memory_flush_failure"}]
Record(command) == [call |-> "record", command |-> command, errors |-> {}]
Submit == [call |-> "submit", errors |-> {"queue_submit_failure"}]
Wait == [call |-> "wait", errors |-> {}]
Invalidate == [call |-> "invalidate", errors |-> {"memory_invalidate_failure"}]
CopyOut == [call |-> "copy_out", errors |-> {"host_allocation_failure"}]

\* Commands.  A barrier makes the writes of `source` available to `target`.
BufferBarrier(buffer, source, target) ==
    [op |-> "buffer_barrier", on |-> buffer, source |-> source, target |-> target,
     uses |-> {buffer}]
ImageBarrier(source, target, old, new) ==
    [op |-> "image_barrier", on |-> "image", source |-> source, target |-> target,
     old |-> old, new |-> new, uses |-> {"image"}]
Command(op, uses) == [op |-> op, uses |-> uses]

\* enumerate_instance_extensions and enumerate_device_extensions.
Enumerate ==
    [instance |-> Ask({"instance_creation_failure", "host_allocation_failure"}),
     device |-> Ask({"device_extension_enumeration_failure", "host_allocation_failure"})]

\* From the loader to the device: the same calls in each executor.
Opening(extensions, no_device) ==
    << Ask({"loader_unavailable"}),
       extensions.instance,
       Make("instance", {}, "instance_creation_failure"),
       SelectDevice(no_device),
       extensions.device,
       Make("device", {"instance"}, "device_creation_failure") >>

\* A buffer with memory the host can map.
MappedBuffer(buffer, memory, creation, bind) ==
    << Make(buffer, {"device"}, creation),
       SelectMemory(memory, "no_host_visible_memory_type"),
       Allocate(memory, "memory_allocation_failure"),
       Bind(buffer, memory, bind),
       MapMemory(memory) >>

Recording ==
    << Make("command_pool", {"device"}, "command_pool_creation_failure"),
       Ask({"command_buffer_allocation_failure"}),
       Ask({"command_buffer_begin_failure"}) >>

Completion ==
    << Ask({"command_buffer_end_failure"}),
       Make("fence", {"device"}, "fence_creation_failure"),
       Submit, Wait, Invalidate, CopyOut >>

\* The first index that is admitted, 0 when there is none.
First(S) == IF S = {} THEN 0 ELSE Min(S)
QueueFamily(families, flags) ==
    First({i \in DOMAIN families : families[i].flags \cap flags # {} /\ families[i].count # 0})
\* `types[i]` is the set of property flags of memory type i.
Preferred(types, admitted, flag) ==
    LET better == {i \in admitted : flag \in types[i]}
    IN  First(IF better # {} THEN better ELSE admitted)
HostMemoryType(types, allowed) ==
    Preferred(types, {i \in allowed : "host_visible" \in types[i]}, "host_coherent")

-----------------------------------------------------------------------------
(* vulkan_gpu_buffer_write_execution.cpp *)

plan_vulkan_gpu_buffer_write(region, resolution, operation) ==
    LET payload_bytes == 4 * Len(operation.values)
    IN  Refusal(<<
            <<region.byte_size = 0 \/ EndOverflows(region.base, region.byte_size), "invalid_region">>,
            <<resolution.buffer_id # region.id, "buffer_id_mismatch">>,
            <<resolution.byte_count = 0, "zero_sized_resolution">>,
            <<resolution.byte_offset + resolution.byte_count > region.byte_size,
              "resolution_out_of_bounds">>,
            <<operation.values = << >>, "empty_payload">>,
            <<payload_bytes > MaxWord, "payload_size_overflow">>,
            <<payload_bytes # resolution.byte_count, "payload_size_mismatch">>,
            <<region.base + resolution.byte_offset # operation.destination,
              "destination_mismatch">>,
            <<operation.destination % 4 # 0 \/ resolution.byte_offset % 4 # 0, "unaligned_write">>,
            <<payload_bytes > MaxUpdateBytes, "payload_too_large">> >>)

select_vulkan_gpu_buffer_write_queue_family(families) ==
    QueueFamily(families, {"transfer", "graphics", "compute"})
BufferWriteDevice(device) ==
    select_vulkan_gpu_buffer_write_queue_family(device.families) # 0
select_vulkan_gpu_buffer_write_memory_type(types, allowed) == HostMemoryType(types, allowed)
BufferWriteMemoryType(device, allowed) ==
    select_vulkan_gpu_buffer_write_memory_type(device.memory, allowed)

BufferWriteExtensions == Enumerate
BufferWriteOpen == Opening(BufferWriteExtensions, "no_update_buffer_queue_family")
BufferWriteMemory ==
    MappedBuffer("buffer", "memory", "buffer_creation_failure", "memory_bind_failure")
        \o <<Fill, Flush>>
BufferWriteCommands ==
    Recording \o << Record(Command("update_buffer", {"buffer", "memory"})),
                    Record(BufferBarrier("buffer", "transfer_write", "host_read")) >>
BufferWriteCompletion == Completion

BufferWriteRelease ==
    <<"mapping", "fence", "command_pool", "buffer", "memory", "device", "instance">>

-----------------------------------------------------------------------------
(* vulkan_offscreen_image_execution.cpp *)

plan_vulkan_offscreen_image(descriptor) ==
    LET expected_bytes == descriptor.width * descriptor.height * descriptor.bytes_per_pixel
    IN  Refusal(<<
            <<descriptor.format # "r8g8b8a8_unorm", "unsupported_image_format">>,
            <<descriptor.width = 0 \/ descriptor.height = 0, "invalid_image_extent">>,
            <<descriptor.bytes_per_pixel # 4, "invalid_bytes_per_pixel">>,
            <<expected_bytes > MaxWord, "logical_size_overflow">>,
            <<descriptor.logical_byte_count # expected_bytes, "logical_size_mismatch">> >>)

select_vulkan_offscreen_graphics_queue_family(families) == QueueFamily(families, {"graphics"})
FitsImage(device, descriptor) ==
    /\ device.format /\ descriptor.width <= device.extent /\ descriptor.height <= device.extent
    /\ select_vulkan_offscreen_graphics_queue_family(device.families) # 0
OffscreenDevice(device, descriptor) == FitsImage(device, descriptor)
select_vulkan_offscreen_device_memory_type(types, allowed) ==
    Preferred(types, allowed, "device_local")
select_vulkan_offscreen_readback_memory_type(types, allowed) == HostMemoryType(types, allowed)
ImageMemoryType(device, memory, allowed) ==
    IF memory = "image_memory"
    THEN select_vulkan_offscreen_device_memory_type(device.memory, allowed)
    ELSE select_vulkan_offscreen_readback_memory_type(device.memory, allowed)
OffscreenMemoryType(device, memory, allowed) == ImageMemoryType(device, memory, allowed)

\* An image with memory and a view.
DeviceImage ==
    << Make("image", {"device"}, "image_creation_failure"),
       SelectMemory("image_memory", "no_device_memory_type"),
       Allocate("image_memory", "memory_allocation_failure"),
       Bind("image", "image_memory", "image_memory_bind_failure"),
       Make("image_view", {"device", "image"}, "image_view_creation_failure") >>
Readback ==
    MappedBuffer("staging_buffer", "staging_memory", "staging_buffer_creation_failure",
                 "staging_memory_bind_failure")
CopyImage == Command("copy_image", {"image", "image_memory", "staging_buffer", "staging_memory"})
CopyToHost ==
    << Record(CopyImage),
       Record(BufferBarrier("staging_buffer", "transfer_write", "host_read")) >>

OffscreenExtensions == Enumerate
OffscreenOpen == Opening(OffscreenExtensions, "no_compatible_graphics_device")
OffscreenImage == DeviceImage
OffscreenReadback == Readback

OffscreenRecording == Recording
OffscreenCommands ==
    << Record(ImageBarrier("none", "transfer_write", "undefined", "transfer_dst")),
       Record(Command("clear_image", {"image", "image_memory"})),
       Record(ImageBarrier("transfer_write", "transfer_read", "transfer_dst",
                           "transfer_src")) >>
        \o CopyToHost
OffscreenCompletion == Completion

OffscreenRelease ==
    << "mapping", "fence", "command_pool", "image_view", "image", "staging_buffer",
       "image_memory", "staging_memory", "device", "instance" >>

-----------------------------------------------------------------------------
(* vulkan_raster_probe_execution.cpp *)

\* Every refusal of the image plan is one error here.
RasterPlan(descriptor) ==
    IF plan_vulkan_offscreen_image(descriptor) = "none" THEN "none" ELSE "image_plan_failure"
RasterDevice(device, descriptor) == FitsImage(device, descriptor)
RasterMemoryType(device, memory, allowed) == ImageMemoryType(device, memory, allowed)

RasterExtensions == Enumerate
RasterOpen == Opening(RasterExtensions, "no_compatible_graphics_device")
RasterImage == DeviceImage
RasterReadback == Readback
ShaderModule(handle) == Make(handle, {"device"}, "shader_module_creation_failure")
RasterPass ==
    << ShaderModule("vertex_shader"), ShaderModule("fragment_shader"),
       Make("render_pass", {"device"}, "render_pass_creation_failure"),
       Make("framebuffer", {"device", "render_pass", "image_view"},
            "framebuffer_creation_failure") >>
RasterPipelineLayout ==
    << Make("pipeline_layout", {"device"}, "pipeline_layout_creation_failure") >>
RasterPipeline ==
    << Make("pipeline", {"device", "pipeline_layout", "render_pass"},
            "graphics_pipeline_creation_failure") >>

\* The render pass clears the image, draws and leaves it as a color attachment.
RenderPass ==
    Command("draw", {"pipeline", "render_pass", "framebuffer", "image_view", "image",
                     "image_memory"})
RasterRecording == Recording
RasterCommands ==
    << Record(RenderPass),
       Record(ImageBarrier("color_write", "transfer_read", "color_attachment",
                           "transfer_src")) >>
        \o CopyToHost
RasterCompletion == Completion

\* Mutant: the pass is destroyed before the framebuffer made from it.
RasterReleasePassFirst ==
    << "mapping", "fence", "command_pool", "pipeline", "pipeline_layout", "render_pass",
       "framebuffer", "vertex_shader", "fragment_shader", "image_view", "image",
       "staging_buffer", "image_memory", "staging_memory", "device", "instance" >>
RasterRelease ==
    << "mapping", "fence", "command_pool", "pipeline", "pipeline_layout", "framebuffer",
       "render_pass", "vertex_shader", "fragment_shader", "image_view", "image",
       "staging_buffer", "image_memory", "staging_memory", "device", "instance" >>

-----------------------------------------------------------------------------
(* vulkan_vector_probe_execution.cpp *)

valid_probe_layout(layout) ==
    /\ layout.descriptor_set = 0 /\ layout.binding = 0 /\ layout.word_size_bytes = 4
    /\ layout.wave_size \in {32, 64} /\ layout.vgpr_stride_words = layout.wave_size
    /\ layout.required_vgpr_count # 0 /\ layout.required_state_word_count # 0
    /\ layout.required_vgpr_count * layout.wave_size = layout.required_state_word_count

VectorPlan(layout, initial_words) ==
    Refusal(<< <<~valid_probe_layout(layout), "invalid_probe_layout">>,
               <<Len(initial_words) # layout.required_state_word_count,
                 "input_word_count_mismatch">> >>)

select_vulkan_vector_probe_queue_family(families) == QueueFamily(families, {"compute"})
VectorDevice(device) == select_vulkan_vector_probe_queue_family(device.families) # 0
select_vulkan_vector_probe_memory_type(types, allowed) == HostMemoryType(types, allowed)
VectorMemoryType(device, allowed) ==
    select_vulkan_vector_probe_memory_type(device.memory, allowed)

VectorExtensions == Enumerate
VectorOpen == Opening(VectorExtensions, "no_compute_queue_family")
VectorMemory ==
    MappedBuffer("buffer", "memory", "buffer_creation_failure", "memory_bind_failure")
        \o <<Fill, Flush>>
VectorDescriptors ==
    << Make("descriptor_set_layout", {"device"}, "descriptor_set_layout_creation_failure"),
       Make("descriptor_pool", {"device"}, "descriptor_pool_creation_failure"),
       Ask({"descriptor_set_allocation_failure"}) >>
\* A module without words is found only here.
VectorPipeline ==
    << [call |-> "check_module", errors |-> {}],
       ShaderModule("shader_module"),
       Make("pipeline_layout", {"device", "descriptor_set_layout"},
            "pipeline_layout_creation_failure"),
       Make("pipeline", {"device", "pipeline_layout"}, "compute_pipeline_creation_failure") >>
VectorCommands ==
    Recording \o << Record(Command("dispatch", {"pipeline", "pipeline_layout",
                                                "descriptor_pool", "buffer", "memory"})),
                    Record(BufferBarrier("buffer", "shader_write", "host_read")) >>
VectorCompletion == Completion

VectorRelease ==
    << "mapping", "fence", "command_pool", "pipeline", "pipeline_layout", "shader_module",
       "descriptor_pool", "descriptor_set_layout", "buffer", "memory", "device", "instance" >>

-----------------------------------------------------------------------------
Executors == {"buffer_write", "offscreen", "raster", "vector"}

Program ==
    [buffer_write |-> BufferWriteOpen \o BufferWriteMemory \o BufferWriteCommands
                          \o BufferWriteCompletion,
     offscreen |-> OffscreenOpen \o OffscreenImage \o OffscreenReadback \o OffscreenRecording
                       \o OffscreenCommands \o OffscreenCompletion,
     raster |-> RasterOpen \o RasterImage \o RasterReadback \o RasterPass
                    \o RasterPipelineLayout \o RasterPipeline \o RasterRecording
                    \o RasterCommands \o RasterCompletion,
     vector |-> VectorOpen \o VectorMemory \o VectorDescriptors \o VectorPipeline
                    \o VectorCommands \o VectorCompletion]

Release ==
    [buffer_write |-> BufferWriteRelease, offscreen |-> OffscreenRelease,
     raster |-> RasterRelease, vector |-> VectorRelease]

\* What an object was made from, the memory it is bound to included.
Sources(executor, handle) ==
    UNION {LET step == Program[executor][i]
           IN  IF step.call \in {"make", "allocate"} /\ step.handle = handle THEN step.from
               ELSE IF step.call = "bind" /\ step.handle = handle THEN {step.memory}
               ELSE {} : i \in DOMAIN Program[executor]}
=============================================================================
