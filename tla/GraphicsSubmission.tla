------------------------- MODULE GraphicsSubmission -------------------------
(***************************************************************************)
(* From a guest's submission to work for the Vulkan executors: the copy of *)
(* the command buffer (sce_agc_driver_submit_dcb.cpp), the plan of its one  *)
(* draw (sce_agc_first_raster_submission.cpp), the pixel shader it binds    *)
(* (sce_agc_submission_shader_binding.cpp), the lookups of created shaders  *)
(* (sce_agc_shader_registry.cpp), the linking of two of them                *)
(* (sce_agc_link_shaders.cpp), and the registration of the memory and the   *)
(* images a plan needs.                                                     *)
(*                                                                          *)
(* One client calls these functions in the order of the repository's own    *)
(* integration tests, for one of four goals.  The guest rewrites its        *)
(* command buffer whenever it likes.                                        *)
(***************************************************************************)
EXTENDS Pm4, VulkanPrograms

CONSTANTS Goals,        \* what the client may want: raster, bind, write, link
          Submissions,  \* goal -> command buffers of the guest with their call
          Shaders,      \* shaders that may be created
          LinkCalls,    \* calls of sceAgcLinkShaders
          Allocations, Buffers, \* ranges <<base, byte_size>> that may be registered
          Resized,      \* how the views the client asks for differ from the planned
          MaxShaders, MaxRanges, MaxViews,
          MaxWordCount, \* kSceAgcDcbSupportedMaximumWordCount
          LastRecord,   \* guest memory for link outputs, in records of 8 bytes
          LinkWritable  \* the records of it that may be written

VARIABLES goal, step, error,
          dcb,         \* the guest's call and its command buffer
          submission,  \* SceAgcDcbSubmission
          frames,      \* of the submission, while a function works on them
          planning,    \* locals of the frame loop
          plan,        \* SceAgcFirstRasterSubmissionPlan
          registry, bound,
          allocations, views, buffers, writes,
          memory, report

submitted == <<dcb, submission, frames>>
planned == <<planning, plan>>
shaders == <<registry, bound>>
gpu_memory == <<allocations, views, buffers, writes>>
linked == <<memory, report>>
vars == <<goal, step, error, submitted, planned, shaders, gpu_memory, linked>>

None == [none |-> TRUE]
Untouched == <<0, 0>>
NoPlanning ==
    [index |-> 0, shader |-> << >>, context |-> << >>, user_config |-> << >>,
     sources |-> << >>, instances |-> None, snapshot |-> None]

Init ==
    /\ goal \in Goals /\ error = "none"
    /\ step = IF goal = "link" THEN "shaders" ELSE "submit"
    /\ dcb \in Submissions[goal]
    /\ submission = None /\ frames = << >> /\ planning = NoPlanning /\ plan = None
    /\ registry = << >> /\ bound = None
    /\ allocations = << >> /\ views = << >> /\ buffers = << >> /\ writes = {}
    /\ memory = [r \in 1 .. LastRecord |-> Untouched] /\ report = None

Refuse(e) == step' = "refused" /\ error' = e
Advance(next) == step' = next /\ error' = error

-----------------------------------------------------------------------------
(* Submission. *)

plan_sce_agc_driver_submit_dcb(call) ==
    Outcome(<< <<call.function_id # 4, "unexpected_function">>,
               <<call.description = 0, "null_submit_description">>,
               <<~call.description_readable, "guest_memory_failure">>,
               <<call.word_count > MaxWordCount, "word_count_exceeds_supported_profile">>,
               <<call.word_count # 0 /\ call.words_address = 0, "null_command_words">>,
               <<call.word_count > Len(call.words), "guest_memory_failure">> >>,
            [flag |-> call.flag, words |-> SubSeq(call.words, 1, call.word_count)])

SubmitDcb ==
    /\ step = "submit"
    /\ LET result == plan_sce_agc_driver_submit_dcb(dcb)
       IN  IF ~Succeeded(result) THEN Refuse(result.error) /\ UNCHANGED submission
           ELSE submission' = result.value /\ Advance("frame")
    /\ UNCHANGED <<goal, dcb, frames, planned, shaders, gpu_memory, linked>>

\* The guest reuses its command buffer.
GuestRewrites ==
    /\ step \in {"frame", "plan"} /\ dcb.words # << >>
    /\ dcb' = [dcb EXCEPT !.words = << >>]
    /\ UNCHANGED <<goal, step, error, submission, frames, planned, shaders, gpu_memory, linked>>

\* The flag is not looked at when memory writes are lowered.
FrameStream ==
    /\ step = "frame"
    /\ LET result == frame_pm4_type3_stream(submission.words)
       IN  IF goal # "write" /\ submission.flag # 0
           THEN Refuse("unsupported_submit_flag") /\ UNCHANGED frames
           ELSE IF ~Succeeded(result) THEN Refuse("pm4_framing_failure") /\ UNCHANGED frames
           ELSE /\ frames' = result.value
                /\ Advance([raster |-> "plan", bind |-> "shaders", write |-> "buffers"][goal])
    /\ UNCHANGED <<goal, dcb, submission, planned, shaders, gpu_memory, linked>>

HostAllocationFails ==
    /\ step \in {"submit", "frame", "plan"} /\ Refuse("host_allocation_failure")
    /\ UNCHANGED <<goal, submitted, planned, shaders, gpu_memory, linked>>

-----------------------------------------------------------------------------
(* The plan of a draw: one action for each kind of frame. *)

Frame == frames[planning.index + 1]
Reads(opcodes) ==
    /\ step = "plan" /\ planning.index < Len(frames)
    /\ Frame.low_control_bits = 0 /\ Frame.opcode \in opcodes

Source(frame_index, packet, value_offset) ==
    [frame_index |-> frame_index, packet_word_offset |-> packet,
     value_word_offset |-> value_offset]

\* The sources of those registers among `targets` that a range writes.
Sourced(emission, frame_index, targets, sources) ==
    LET written == {t \in targets : t \in emission.start ..
                                          emission.start + Len(emission.values) - 1}
    IN  [r \in DOMAIN sources \cup written |->
            IF r \in written
            THEN Source(frame_index, emission.word_offset,
                        emission.word_offset + 2 + (r - emission.start))
            ELSE sources[r]]

ProgramRegisters == {GeometryLo, GeometryHi, PixelLo, PixelHi}
TargetRegisters == {TargetMask, Base, Info, BaseExt, Attrib2, Attrib3}
record_shader_register_source(emission, frame_index, sources) ==
    Sourced(emission, frame_index, ProgramRegisters, sources)
record_context_register_source(emission, frame_index, sources) ==
    Sourced(emission, frame_index, TargetRegisters, sources)
record_uconfig_register_source(emission, frame_index, sources) ==
    Sourced(emission, frame_index, {PrimitiveType}, sources)

PlansOnly == UNCHANGED <<goal, submitted, plan, shaders, gpu_memory, linked>>

SetShaderRegisters ==
    /\ Reads({SetShReg})
    /\ LET lowered == lower_pm4_set_sh_reg_frame(Frame)
           applied == apply_shader_register_graphics_ir(lowered.value, planning.shader)
       IN  IF ~Succeeded(lowered) THEN Refuse("set_sh_lowering_failure") /\ UNCHANGED planning
           ELSE IF ~Succeeded(applied)
           THEN Refuse("shader_register_apply_failure") /\ UNCHANGED planning
           ELSE /\ planning' = [planning EXCEPT
                       !.index = @ + 1, !.shader = applied.value,
                       !.sources = record_shader_register_source(lowered.value,
                                                                 planning.index, @)]
                /\ Advance("plan")
    /\ PlansOnly

SetContextRegisters ==
    /\ Reads({SetContextReg})
    /\ LET lowered == lower_pm4_set_context_reg_frame(Frame)
           applied == apply_context_register_graphics_ir(lowered.value, planning.context)
       IN  IF ~Succeeded(lowered)
           THEN Refuse("set_context_lowering_failure") /\ UNCHANGED planning
           ELSE IF ~Succeeded(applied)
           THEN Refuse("context_register_apply_failure") /\ UNCHANGED planning
           ELSE /\ planning' = [planning EXCEPT
                       !.index = @ + 1, !.context = applied.value,
                       !.sources = record_context_register_source(lowered.value,
                                                                  planning.index, @)]
                /\ Advance("plan")
    /\ PlansOnly

SetUserConfigRegisters ==
    /\ Reads({SetUconfigReg})
    /\ LET lowered == lower_pm4_set_uconfig_reg_frame(Frame)
           applied == apply_user_config_register_graphics_ir(lowered.value,
                                                             planning.user_config)
       IN  IF ~Succeeded(lowered)
           THEN Refuse("set_uconfig_lowering_failure") /\ UNCHANGED planning
           ELSE IF ~Succeeded(applied)
           THEN Refuse("user_config_register_apply_failure") /\ UNCHANGED planning
           ELSE /\ planning' = [planning EXCEPT
                       !.index = @ + 1, !.user_config = applied.value,
                       !.sources = record_uconfig_register_source(lowered.value,
                                                                  planning.index, @)]
                /\ Advance("plan")
    /\ PlansOnly

SetInstances ==
    /\ Reads({NumInstances})
    /\ LET lowered == lower_pm4_draw_control_frame(Frame)
       IN  IF ~Succeeded(lowered)
           THEN Refuse("draw_control_lowering_failure") /\ UNCHANGED planning
           ELSE /\ planning' = [planning EXCEPT
                       !.index = @ + 1,
                       !.instances = [count |-> lowered.value.instance_count,
                                      source |-> Source(planning.index, Frame.word_offset,
                                                        Frame.word_offset + 1)]]
                /\ Advance("plan")
    /\ PlansOnly

\* The draw takes what the register files hold at that moment.
Draw ==
    /\ Reads({DrawIndexAuto})
    /\ LET lowered == lower_pm4_draw_control_frame(Frame)
           refusal == Refusal(<< <<~Succeeded(lowered), "draw_control_lowering_failure">>,
                                 <<planning.snapshot # None, "multiple_draws">>,
                                 <<planning.instances = None,
                                   "missing_instance_count_before_draw">> >>)
       IN  IF refusal # "none" THEN Refuse(refusal) /\ UNCHANGED planning
           ELSE /\ planning' = [planning EXCEPT
                       !.index = @ + 1,
                       !.snapshot = [shader |-> planning.shader, context |-> planning.context,
                                     user_config |-> planning.user_config,
                                     sources |-> planning.sources,
                                     instances |-> planning.instances, draw |-> lowered.value,
                                     draw_source |-> Source(planning.index, Frame.word_offset,
                                                            Frame.word_offset + 1)]]
                /\ Advance("plan")
    /\ PlansOnly

RefuseFrame ==
    /\ step = "plan" /\ planning.index < Len(frames)
    /\ \/ /\ Frame.low_control_bits # 0
          /\ Refuse("unsupported_type3_header_control_bits")
       \/ /\ Frame.low_control_bits = 0
          /\ Frame.opcode \notin {SetShReg, SetContextReg, SetUconfigReg, NumInstances,
                                  DrawIndexAuto}
          /\ Refuse("unsupported_opcode")
    /\ UNCHANGED planning /\ PlansOnly

PlanOf(s) ==
    LET geometry == resolve_geometry_es_program_address(s.shader)
        pixel == resolve_pixel_program_address(s.shader)
        draw == plan_first_raster_draw(s.user_config, s.instances.count, s.draw)
        target == resolve_color_target0_context_state(s.context)
        image == plan_gfx10_linear_rgba8_unorm_color_target_image(target.value)
    IN  Outcome(<< <<~Succeeded(geometry), "geometry_program_address_failure">>,
                   <<~Succeeded(pixel), "pixel_program_address_failure">>,
                   <<~(ProgramRegisters \subseteq DOMAIN s.sources),
                     "missing_program_register_provenance">>,
                   <<~Succeeded(draw), "draw_plan_failure">>,
                   <<~Succeeded(target), "color_target_decode_failure">>,
                   <<Succeeded(target) /\ ~Succeeded(image), "color_target_image_failure">>,
                   <<PrimitiveType \notin DOMAIN s.sources, "missing_primitive_provenance">>,
                   <<~(TargetRegisters \subseteq DOMAIN s.sources),
                     "missing_color_target_provenance">> >>,
                [geometry |-> geometry.value, pixel |-> pixel.value, draw |-> draw.value,
                 image |-> image.value, shader |-> s.shader, context |-> s.context,
                 user_config |-> s.user_config, sources |-> s.sources,
                 instances_source |-> s.instances.source, draw_source |-> s.draw_source])

PlanDraw(snapshot) ==
    /\ step = "plan" /\ planning.index = Len(frames)
    /\ IF planning.snapshot = None THEN Refuse("missing_draw") /\ UNCHANGED plan
       ELSE LET result == PlanOf(snapshot)
            IN  IF ~Succeeded(result) THEN Refuse(result.error) /\ UNCHANGED plan
                ELSE plan' = result.value /\ Advance("shaders")
    /\ frames' = << >> /\ planning' = NoPlanning
    /\ UNCHANGED <<goal, dcb, submission, shaders, gpu_memory, linked>>

\* Mutant: the registers as the stream leaves them.
FinishFromLastRegisters ==
    PlanDraw([planning.snapshot EXCEPT !.shader = planning.shader,
                                       !.context = planning.context,
                                       !.user_config = planning.user_config,
                                       !.sources = planning.sources])
FinishPlan == PlanDraw(planning.snapshot)

-----------------------------------------------------------------------------
(* Created shaders. *)

RegisterShader(shader) ==
    /\ step = "shaders" /\ Len(registry) < MaxShaders
    /\ registry' = Append(registry, shader)
    /\ UNCHANGED <<goal, step, error, submitted, planned, bound, gpu_memory, linked>>

\* A reference to the only shader among `matches`.
Unique(matches) ==
    Outcome(<< <<matches = {}, "not_found">>, <<Cardinality(matches) > 1, "ambiguous">> >>,
            registry[Min(matches)])
lookup_unique(address) ==
    Unique({i \in DOMAIN registry : registry[i].stage = "pixel" /\ registry[i].code = address})
lookup_unique_by_stage_and_code(address, stage) ==
    Unique({i \in DOMAIN registry : registry[i].stage = stage /\ registry[i].code = address})
lookup_unique_by_handle(handle) == Unique({i \in DOMAIN registry : registry[i].handle = handle})

\* The shaders of the planned draw.
LookUpShaders ==
    /\ goal = "raster" /\ step = "shaders"
    /\ LET geometry == lookup_unique_by_stage_and_code(plan.geometry, "geometry")
           pixel == lookup_unique_by_stage_and_code(plan.pixel, "pixel")
       IN  IF Succeeded(geometry) /\ Succeeded(pixel)
           THEN /\ bound' = [geometry |-> geometry.value, pixel |-> pixel.value]
                /\ Advance("allocations")
           ELSE Refuse("created_shader_lookup_failure") /\ UNCHANGED bound
    /\ UNCHANGED <<goal, submitted, planned, registry, gpu_memory, linked>>

record_program_register_source(emission, frame_index, sources) ==
    Sourced(emission, frame_index, {PixelLo, PixelHi}, sources)

\* One frame of a stream that sets shader registers and nothing else.
BindFrame(so_far, frame) ==
    LET lowered == lower_pm4_set_sh_reg_frame(frame)
        applied == apply_shader_register_graphics_ir(lowered.value, so_far.shader)
        refusal == Refusal(<< <<frame.low_control_bits # 0,
                                "unsupported_type3_header_control_bits">>,
                              <<~Succeeded(lowered), "pm4_lowering_failure">>,
                              <<Succeeded(lowered) /\ ~Succeeded(applied),
                                "shader_register_apply_failure">> >>)
    IN  IF ~Succeeded(so_far) THEN so_far
        ELSE IF refusal # "none" THEN [error |-> refusal]
        ELSE [error |-> "none", shader |-> applied.value, index |-> so_far.index + 1,
              sources |-> record_program_register_source(lowered.value, so_far.index,
                                                         so_far.sources)]

plan_sce_agc_submitted_pixel_shader_binding ==
    LET read == FoldLeft(BindFrame, [error |-> "none", shader |-> << >>, index |-> 0,
                                     sources |-> << >>], frames)
        address == resolve_pixel_program_address(read.shader)
        shader == lookup_unique(address.value)
    IN  IF ~Succeeded(read) THEN read
        ELSE IF ~Succeeded(address) THEN [error |-> "pixel_program_address_failure"]
        ELSE Outcome(<< <<~({PixelLo, PixelHi} \subseteq DOMAIN read.sources),
                          "missing_program_register_provenance">>,
                        <<~Succeeded(shader), "created_shader_lookup_failure">> >>,
                     [pixel |-> shader.value, address |-> address.value,
                      sources |-> read.sources])

BindPixelShader ==
    /\ goal = "bind" /\ step = "shaders"
    /\ LET result == plan_sce_agc_submitted_pixel_shader_binding
       IN  IF ~Succeeded(result) THEN Refuse(result.error) /\ UNCHANGED bound
           ELSE bound' = result.value /\ Advance("done")
    /\ UNCHANGED <<goal, submitted, planned, registry, gpu_memory, linked>>

-----------------------------------------------------------------------------
(* Linking.  Addresses count records of 8 bytes. *)

ContextRecords == 34
UserConfigRecords == 3
InterpolantRecords == 32
RoutingRecord == 33

OutputsRefusal(call) ==
    Refusal(<< <<call.function_id # 5, "unexpected_function">>,
               <<call.context = 0, "null_context_output">>,
               <<call.user_config = 0, "null_user_config_output">>,
               <<call.hull # 0, "unsupported_hull_shader">>,
               <<call.primitive_type # 4, "unsupported_primitive_type">>,
               <<EndOverflows(call.context, ContextRecords)
                 \/ EndOverflows(call.user_config, UserConfigRecords),
                 "output_range_overflow">>,
               <<ranges_overlap([base |-> call.context, byte_size |-> ContextRecords],
                                [base |-> call.user_config,
                                 byte_size |-> UserConfigRecords]),
                 "output_ranges_overlap">> >>)

plan_sce_agc_link_shaders(call) ==
    LET pre_raster == lookup_unique_by_handle(call.pre_raster)
        pixel == lookup_unique_by_handle(call.pixel)
        Is(found, stage) ==
            found.value.stage = stage /\ found.value.profile = stage
    IN  Outcome(<< <<OutputsRefusal(call) # "none", OutputsRefusal(call)>>,
                   <<call.pre_raster # 0 /\ call.pre_raster = call.pixel, "same_shader_handle">>,
                   <<~Succeeded(pre_raster), "pre_raster_handle_lookup_failure">>,
                   <<Succeeded(pre_raster) /\ ~Is(pre_raster, "geometry"),
                     "unsupported_pre_raster_shader">>,
                   <<~Succeeded(pixel), "pixel_handle_lookup_failure">>,
                   <<Succeeded(pixel) /\ ~Is(pixel, "pixel"), "unsupported_pixel_shader">> >>,
                [context |-> call.context, user_config |-> call.user_config,
                 pre_raster |-> pre_raster.value, pixel |-> pixel.value])

\* The records that were measured; the one between the two patches and the
\* user configuration are not.
materialize_sce_agc_link_shaders_measured_output(link) ==
    << [address |-> link.context,
        records |-> [i \in 1 .. InterpolantRecords |-> <<401 + i - 1, i - 1>>]],
       [address |-> link.context + RoutingRecord, records |-> <<<<667, 2>>>>] >>

Patched(cells, patch) ==
    [a \in DOMAIN cells |->
        IF a \in patch.address .. patch.address + Len(patch.records) - 1
        THEN patch.records[a - patch.address + 1] ELSE cells[a]]
Admitted(patch) == patch.address .. patch.address + Len(patch.records) - 1 \subseteq LinkWritable

\* Mutant: the report of the second write forgets the first.
ApplyForgetsFirst(patches, failing) ==
    IF ~Admitted(patches[1]) \/ ~Admitted(patches[2]) \/ failing = 1
    THEN [error |-> "guest_memory_write_failure", patches |-> 0, records |-> 0,
          memory |-> memory]
    ELSE [error |-> IF failing = 2 THEN "guest_memory_write_failure" ELSE "none",
          patches |-> 2, records |-> IF failing = 2 THEN 0 ELSE InterpolantRecords + 1,
          memory |-> IF failing = 2 THEN Patched(memory, patches[1])
                     ELSE Patched(Patched(memory, patches[1]), patches[2])]
\* Both patches are preflighted; write `failing` fails (0: none does).
apply_sce_agc_link_shaders_measured_output(patches, failing) ==
    IF ~Admitted(patches[1]) \/ ~Admitted(patches[2])
    THEN [error |-> "guest_memory_preflight_failure", patches |-> 0, records |-> 0,
          memory |-> memory]
    ELSE IF failing = 1
    THEN [error |-> "guest_memory_write_failure", patches |-> 0, records |-> 0,
          memory |-> memory]
    ELSE IF failing = 2
    THEN [error |-> "guest_memory_write_failure", patches |-> 1,
          records |-> InterpolantRecords, memory |-> Patched(memory, patches[1])]
    ELSE [error |-> "none", patches |-> 2, records |-> InterpolantRecords + 1,
          memory |-> Patched(Patched(memory, patches[1]), patches[2])]

LinkShaders(call) ==
    /\ goal = "link" /\ step = "shaders"
    /\ LET link == plan_sce_agc_link_shaders(call)
       IN  IF ~Succeeded(link) THEN Refuse(link.error) /\ UNCHANGED <<memory, report, bound>>
           ELSE \E failing \in 0 .. 2 :
                    LET patches == materialize_sce_agc_link_shaders_measured_output(link.value)
                        applied == apply_sce_agc_link_shaders_measured_output(patches, failing)
                    IN  /\ memory' = applied.memory
                        /\ bound' = [geometry |-> link.value.pre_raster,
                                     pixel |-> link.value.pixel]
                        /\ report' = [call |-> call, error |-> applied.error,
                                      patches |-> applied.patches, records |-> applied.records]
                        /\ Advance("done")
    /\ UNCHANGED <<goal, submitted, planned, registry, gpu_memory>>

-----------------------------------------------------------------------------
(* GPU memory. *)

RegisterAllocation(range) ==
    /\ step = "allocations" /\ Len(allocations) < MaxRanges
    /\ LET result == register_allocation(allocations, range[1], range[2])
       IN  allocations' = IF Succeeded(result) THEN result.value ELSE allocations
    /\ UNCHANGED <<goal, step, error, submitted, planned, shaders, views, buffers, writes,
                   linked>>

\* Another place, width or pitch, or pixels of another size: a client may ask for
\* any descriptor.
Resize(image, change) ==
    LET Scaled(bytes) == (bytes \div image.bytes_per_pixel) * change.pixel
    IN  [image EXCEPT !.base = @ + change.base, !.width = @ + change.width,
                      !.bytes_per_pixel = change.pixel, !.logical_byte_count = Scaled(@),
                      !.layout.pitch_bytes = Scaled(@) + change.pitch,
                      !.layout.surface_bytes = Scaled(@)]

RegisterView(descriptor) ==
    /\ step = "allocations" /\ Len(views) < MaxViews
    /\ LET result == register_view(views, descriptor, allocations)
       IN  views' = IF Succeeded(result) THEN result.value ELSE views
    /\ UNCHANGED <<goal, step, error, submitted, planned, shaders, allocations, buffers, writes,
                   linked>>

\* The client wants the view of the planned image.
ResolveView ==
    /\ step = "allocations"
    /\ LET result == resolve_exact(views, plan.image)
       IN  IF Succeeded(result) THEN Advance("done") ELSE Refuse(result.error)
    /\ UNCHANGED <<goal, submitted, planned, shaders, gpu_memory, linked>>

RegisterBuffer(range) ==
    /\ step = "buffers" /\ Len(buffers) < MaxRanges
    /\ LET result == register_buffer(buffers, range[1], range[2])
       IN  buffers' = IF Succeeded(result) THEN result.value ELSE buffers
    /\ UNCHANGED <<goal, step, error, submitted, planned, shaders, allocations, views, writes,
                   linked>>

\* Every write of the stream is lowered and resolved on its own.
ResolveWrites ==
    /\ step = "buffers"
    /\ writes' = {[operation |-> lower_pm4_write_data_frame(frames[i]).value,
                   resolution |-> resolve_gpu_memory_write(
                                      lower_pm4_write_data_frame(frames[i]).value, buffers)] :
                      i \in {j \in DOMAIN frames :
                                /\ Succeeded(lower_pm4_write_data_frame(frames[j]))
                                /\ lower_pm4_write_data_frame(frames[j]).value.op
                                       = "write_memory"}}
    /\ Advance("done")
    /\ UNCHANGED <<goal, submitted, planned, shaders, allocations, views, buffers, linked>>

-----------------------------------------------------------------------------
Next ==
    \/ SubmitDcb \/ GuestRewrites \/ FrameStream \/ HostAllocationFails
    \/ SetShaderRegisters \/ SetContextRegisters \/ SetUserConfigRegisters
    \/ SetInstances \/ Draw \/ RefuseFrame \/ FinishPlan
    \/ \E shader \in Shaders : RegisterShader(shader)
    \/ LookUpShaders \/ BindPixelShader
    \/ \E call \in LinkCalls : LinkShaders(call)
    \/ \E range \in Allocations : RegisterAllocation(range)
    \/ \E range \in Buffers : RegisterBuffer(range)
    \/ \E change \in Resized : plan # None /\ RegisterView(Resize(plan.image, change))
    \/ ResolveView \/ ResolveWrites

Spec == Init /\ [][Next]_vars

-----------------------------------------------------------------------------
(* Properties. *)

Words == submission.words
\* A packet starts where the one before it ends.
StartsPacket ==
    LET Starts[o \in 0 .. Len(Words) - 1] ==
            o = 0 \/ \E q \in 0 .. o - 1 :
                         q + Field(Words[q + 1], 16, 14) + 2 = o /\ Starts[q]
    IN  {o \in 0 .. Len(Words) - 1 : Starts[o]}

\* The last word before an offset that sets a register, among some packets.
Setting(packets, opcode, register, limit) ==
    LET At(packet) == packet + 2 + register - Words[packet + 2]
        Sets(packet) ==
            /\ packet < limit /\ Field(Words[packet + 1], 8, 8) = opcode
            /\ At(packet) \in packet + 2 .. packet + 1 + Field(Words[packet + 1], 16, 14)
    IN  Max({At(packet) : packet \in {o \in packets : Sets(o)}} \cup {-1})

\* A register file and its sources are those in force at an offset.
InForce(packets, opcode, registers, checked, sources, limit) ==
    \A r \in checked :
        LET word == Setting(packets, opcode, r, limit)
        IN  word >= 0 /\ sources[r].value_word_offset = word /\ registers[r] = Words[word + 1]

IsSubmittedDraw(p) ==
    LET packets == StartsPacket
        Of(opcode) == {o \in packets : Field(Words[o + 1], 8, 8) = opcode}
        draw == p.draw_source.packet_word_offset
    IN  /\ Of(DrawIndexAuto) = {draw}
        /\ InForce(packets, SetShReg, p.shader, ProgramRegisters, p.sources, draw)
        /\ InForce(packets, SetContextReg, p.context, TargetRegisters, p.sources, draw)
        /\ InForce(packets, SetUconfigReg, p.user_config, {PrimitiveType}, p.sources, draw)
        /\ p.instances_source.packet_word_offset = Max({o \in Of(NumInstances) : o < draw})
        /\ Words[p.instances_source.value_word_offset + 1] = p.draw.instance_count

\* The shader a submission binds is the only pixel shader at the address that
\* its last words spell.
IsSubmittedShader(b) ==
    LET packets == StartsPacket
        At(register) == Setting(packets, SetShReg, register, Len(Words))
        code == 256 * TwoWords(Words[At(PixelLo) + 1], Words[At(PixelHi) + 1])
    IN  /\ \A r \in {PixelLo, PixelHi} : b.sources[r].value_word_offset = At(r)
        /\ {i \in DOMAIN registry : registry[i].stage = "pixel" /\ registry[i].code = code}
               = {CHOOSE i \in DOMAIN registry : registry[i] = b.pixel}

\* A plan is of the only draw in what the guest submitted, whatever the guest
\* does to its buffer afterwards.  The registers it hands on (programs, color
\* target, primitive type) hold what the last packets before that draw set,
\* none of what a later packet sets, and each source names the very word, as
\* the snapshot taken at the draw by plan_sce_agc_first_raster_submission
\* intends.  So does the binding of plan_sce_agc_submitted_pixel_shader_binding
\* for the whole stream.
PlannedDrawIsTheSubmittedOne ==
    [][/\ plan' # plan => IsSubmittedDraw(plan')
       /\ goal = "bind" /\ bound' # bound => IsSubmittedShader(bound')]_vars

Holds(entry, address, byte_count) ==
    entry.base <= address /\ address + byte_count <= entry.base + entry.byte_size

\* What the registries accept, the executors accept or refuse for a reason of
\* their own: the surface of every view lies in its allocation at the recorded
\* offset, and plan_vulkan_offscreen_image takes it unless its pixels are not
\* four bytes; every resolved write lies in its buffer, touches no other one, and
\* passes plan_vulkan_gpu_buffer_write unless register_buffer took a base between
\* two words or the write is longer than one update.  None of the other checks of
\* the executors (ranges, ids, sizes, overflow) can fail.
AcceptedWorkFitsTheExecutors ==
    /\ \A i \in DOMAIN views :
          LET d == views[i].descriptor
              home == allocation_at(allocations, views[i].allocation_id)
          IN  /\ plan_vulkan_offscreen_image(d)
                     = IF d.bytes_per_pixel = 4 THEN "none" ELSE "invalid_bytes_per_pixel"
              /\ Holds(home, d.base, d.layout.surface_bytes)
              /\ d.base = home.base + views[i].byte_offset
              /\ d.logical_byte_count <= d.layout.surface_bytes
              /\ view_at(views, views[i].id) = views[i]
    /\ \A w \in writes : Succeeded(w.resolution) =>
          LET r == w.resolution.value
              home == buffer_at(buffers, r.id)
          IN  /\ plan_vulkan_gpu_buffer_write(home, [buffer_id |-> r.id,
                                                     byte_offset |-> r.byte_offset,
                                                     byte_count |-> r.byte_count], w.operation)
                     = IF home.base % 4 # 0 THEN "unaligned_write"
                       ELSE IF r.byte_count > MaxUpdateBytes THEN "payload_too_large"
                       ELSE "none"
              /\ \A i \in DOMAIN buffers \ {r.id + 1} :
                    ~ranges_overlap(buffers[i], [base |-> w.operation.destination,
                                                 byte_size |-> r.byte_count])

\* A link writes its measured records or reports how far it came: the records
\* in memory are as many as the report says, whichever write failed, nothing
\* is written after a refused preflight, and the user configuration and every
\* other record keep what they held.  Both shaders are of the stage their slot
\* needs.
LinkReportsWhatItWrote ==
    IF report = None THEN \A r \in DOMAIN memory : memory[r] = Untouched
    ELSE LET changed == {r \in DOMAIN memory : memory[r] # Untouched}
             base == report.call.context
         IN  /\ Cardinality(changed) = report.records
             /\ changed \subseteq LinkWritable
             /\ changed \subseteq base .. base + ContextRecords - 1
             /\ \A r \in changed : memory[r] = IF r = base + RoutingRecord THEN <<667, 2>>
                                              ELSE <<401 + r - base, r - base>>
             /\ changed \cap (report.call.user_config ..
                                  report.call.user_config + UserConfigRecords - 1) = {}
             /\ report.error = "none" => base + RoutingRecord \in changed
             /\ bound.geometry.stage = "geometry" /\ bound.pixel.stage = "pixel"
=============================================================================
