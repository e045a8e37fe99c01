--------------------------------- MODULE Pm4 ---------------------------------
(***************************************************************************)
(* A command buffer of the guest: its framing into type-3 packets           *)
(* (packet.cpp, pm4_type3_framing.cpp), the lowering of a packet to an      *)
(* operation (the pm4_..._ir.cpp files), the register files the operations  *)
(* write (the ..._register_state.cpp files) and what is read from them for  *)
(* a draw (color_target_state.cpp, gfx10_color_target_image.cpp,            *)
(* first_raster_draw_plan.cpp).                                             *)
(*                                                                          *)
(* A word is its 32 bits read as a signed number, so that the fields of a   *)
(* header are those of the code.  Opcodes and register offsets are the      *)
(* code's.  A register file maps the offsets that were written to values.   *)
(***************************************************************************)
EXTENDS GpuMemory, SequencesExt

CONSTANT AddressWord  \* stands for 2^32 where two words make an address
ASSUME AddressWordAssumption == AddressWord * AddressWord = MaxWord + 1

Field(word, low, width) == (word \div 2^low) % 2^width
WordAt(words, i) == IF i \in DOMAIN words THEN words[i] ELSE 0

SetContextReg == 105
SetShReg == 118
SetUconfigReg == 121
NumInstances == 47
DrawIndexAuto == 45
WriteData == 55
RegisterWindow == 1024
WriteControl == 1049856  \* kPm4WriteDataSupportedControlWord

parse_raw_packet(words, extent) ==
    Outcome(<< <<extent.word_count = 0, "empty_packet">>,
               <<EndOverflows(extent.word_offset, extent.word_count), "packet_range_overflow">>,
               <<extent.word_offset + extent.word_count > Len(words),
                 "packet_range_out_of_bounds">> >>,
            SubSeq(words, extent.word_offset + 1, extent.word_offset + extent.word_count))

\* The packet whose header is at an offset.
FrameAt(words, offset) ==
    LET header == words[offset + 1]
        total == Field(header, 16, 14) + 2
        packet == parse_raw_packet(words, [word_offset |-> offset, word_count |-> total])
    IN  Outcome(<< <<Field(header, 30, 2) # 3, "unsupported_packet_type">>,
                   <<total > Len(words) - offset, "truncated_packet">>,
                   <<~Succeeded(packet), "raw_packet_failure">> >>,
                [word_offset |-> offset, opcode |-> Field(header, 8, 8),
                 encoded_count |-> Field(header, 16, 14),
                 low_control_bits |-> Field(header, 0, 8), raw_words |-> packet.value])

frame_pm4_type3_stream(words) ==
    LET From[offset \in 0 .. Len(words)] ==
            IF offset = Len(words) THEN Outcome(<< >>, << >>)
            ELSE LET frame == FrameAt(words, offset)
                     rest == From[offset + Len(frame.value.raw_words)]
                 IN  IF ~Succeeded(frame) THEN frame
                     ELSE IF ~Succeeded(rest) THEN rest
                     ELSE Outcome(<< >>, <<frame.value>> \o rest.value)
    IN  From[0]

-----------------------------------------------------------------------------
(* Lowering. *)

make_unsupported_packet_ir(frame) == [op |-> "unsupported", word_offset |-> frame.word_offset]

\* A range of consecutive registers of one file.
WriteRange(frame, opcode, file, malformed) ==
    LET count == frame.encoded_count
        control == WordAt(frame.raw_words, 2)
        start == control % 2^16
    IN  IF frame.opcode # opcode THEN Outcome(<< >>, make_unsupported_packet_ir(frame))
        ELSE Outcome(<< <<count = 0 \/ Len(frame.raw_words) # count + 2, malformed>>,
                        <<control \div 2^16 # 0, "unsupported_register_control_bits">>,
                        <<start >= RegisterWindow \/ count > RegisterWindow - start,
                          "register_range_out_of_bounds">> >>,
                     [op |-> "write_registers", file |-> file, start |-> start,
                      values |-> SubSeq(frame.raw_words, 3, count + 2),
                      word_offset |-> frame.word_offset])

lower_pm4_set_sh_reg_frame(frame) ==
    WriteRange(frame, SetShReg, "shader", "malformed_set_sh_reg")
lower_pm4_set_context_reg_frame(frame) ==
    WriteRange(frame, SetContextReg, "context", "malformed_set_context_reg")
lower_pm4_set_uconfig_reg_frame(frame) ==
    WriteRange(frame, SetUconfigReg, "user_config", "malformed_set_uconfig_reg")

lower_pm4_draw_control_frame(frame) ==
    CASE frame.opcode = NumInstances ->
             Outcome(<< <<frame.encoded_count # 0 \/ Len(frame.raw_words) # 2,
                          "malformed_num_instances">> >>,
                     [op |-> "set_instances", instance_count |-> frame.raw_words[2]])
      [] frame.opcode = DrawIndexAuto ->
             Outcome(<< <<frame.encoded_count # 1 \/ Len(frame.raw_words) # 3,
                          "malformed_draw_index_auto">> >>,
                     [op |-> "draw", index_count |-> frame.raw_words[2],
                      initiator |-> frame.raw_words[3]])
      [] OTHER -> Outcome(<< >>, make_unsupported_packet_ir(frame))

TwoWords(low, high) == (low % AddressWord) + AddressWord * (high % AddressWord)

lower_pm4_write_data_frame(frame) ==
    LET destination == TwoWords(WordAt(frame.raw_words, 3), WordAt(frame.raw_words, 4))
    IN  IF frame.opcode # WriteData THEN Outcome(<< >>, make_unsupported_packet_ir(frame))
        ELSE Outcome(<< <<frame.low_control_bits # 0, "unsupported_type3_header_control_bits">>,
                        <<frame.encoded_count < 3 \/ Len(frame.raw_words) # frame.encoded_count + 2,
                          "malformed_write_data">>,
                        <<WordAt(frame.raw_words, 2) # WriteControl, "unsupported_write_control">>,
                        <<destination % 4 # 0, "destination_address_unaligned">> >>,
                     [op |-> "write_memory", destination |-> destination,
                      values |-> SubSeq(frame.raw_words, 5, Len(frame.raw_words))])

-----------------------------------------------------------------------------
(* Register files. *)

Applied(emission, file, registers) ==
    LET start == emission.start
        count == Len(emission.values)
    IN  IF emission.op # "write_registers" \/ emission.file # file
        THEN [error |-> "unsupported_operation"]
        ELSE Outcome(<< <<start >= RegisterWindow \/ count > RegisterWindow - start,
                          "register_range_out_of_bounds">> >>,
                     [o \in DOMAIN registers \cup start .. start + count - 1 |->
                          IF o \in start .. start + count - 1 THEN emission.values[o - start + 1]
                          ELSE registers[o]])

apply_shader_register_graphics_ir(emission, registers) == Applied(emission, "shader", registers)
apply_context_register_graphics_ir(emission, registers) == Applied(emission, "context", registers)
apply_user_config_register_graphics_ir(emission, registers) ==
    Applied(emission, "user_config", registers)

initialized(registers, offset) == offset \in DOMAIN registers
value(registers, offset) == IF initialized(registers, offset) THEN registers[offset] ELSE 0

PixelLo == 8
PixelHi == 9
GeometryLo == 200
GeometryHi == 201

ProgramAddress(registers, lo, hi) ==
    Outcome(<< <<~initialized(registers, lo), "pgm_lo_uninitialized">>,
               <<~initialized(registers, hi), "pgm_hi_uninitialized">>,
               <<value(registers, hi) \div 256 # 0, "unsupported_pgm_hi_bits">> >>,
            256 * TwoWords(value(registers, lo), value(registers, hi)))
resolve_pixel_program_address(registers) == ProgramAddress(registers, PixelLo, PixelHi)
resolve_geometry_es_program_address(registers) ==
    ProgramAddress(registers, GeometryLo, GeometryHi)

PrimitiveType == 578  \* kFirstRasterPrimitiveTypeUconfigOffset
plan_first_raster_draw(user_config, instance_count, draw) ==
    Outcome(<< <<~initialized(user_config, PrimitiveType), "primitive_type_not_initialized">>,
               <<value(user_config, PrimitiveType) # 4, "unsupported_primitive_type">>,
               <<instance_count # 1, "unsupported_instance_count">>,
               <<draw.index_count # 3, "unsupported_index_count">>,
               <<draw.initiator # 2, "unsupported_initiator">> >>,
            [primitive_type |-> value(user_config, PrimitiveType),
             instance_count |-> instance_count, index_count |-> draw.index_count])

-----------------------------------------------------------------------------
(* The color target. *)

TargetMask == 142
Base == 792
Info == 796
BaseExt == 912
Attrib2 == 944
Attrib3 == 952

resolve_color_target0_context_state(context) ==
    LET unshifted == TwoWords(value(context, Base), value(context, BaseExt))
        info == value(context, Info)
        attrib2 == value(context, Attrib2)
        attrib3 == value(context, Attrib3)
    IN  Outcome(<< <<~initialized(context, TargetMask), "target_mask_uninitialized">>,
                   <<~initialized(context, Base), "base_uninitialized">>,
                   <<~initialized(context, BaseExt), "base_ext_uninitialized">>,
                   <<~initialized(context, Info), "info_uninitialized">>,
                   <<~initialized(context, Attrib2), "attrib2_uninitialized">>,
                   <<~initialized(context, Attrib3), "attrib3_uninitialized">>,
                   <<unshifted > MaxWord \div 256, "address_overflow">> >>,
                [base |-> 256 * unshifted,
                 endian |-> Field(info, 0, 2), format |-> Field(info, 2, 5),
                 linear_general |-> Field(info, 7, 1), number_type |-> Field(info, 8, 3),
                 component_swap |-> Field(info, 11, 2), fast_clear |-> Field(info, 13, 1),
                 compression |-> Field(info, 14, 1), cmask_is_linear |-> Field(info, 19, 1),
                 fmask |-> Field(info, 26, 2), dcc_enabled |-> Field(info, 28, 1),
                 cmask_address_type |-> Field(info, 29, 2),
                 nbc_tiling |-> Field(info, 16, 16) \div 2^15,
                 width |-> Field(attrib2, 14, 14) + 1, height |-> Field(attrib2, 0, 14) + 1,
                 color_sw_mode |-> Field(attrib3, 14, 5),
                 resource_type |-> Field(attrib3, 24, 2)])

\* The one profile that is supported.
ProfileRefusal(target) ==
    Refusal(<< <<target.endian # 0, "unsupported_endian">>,
               <<target.format # 10, "unsupported_format">>,
               <<target.number_type # 0, "unsupported_number_type">>,
               <<target.component_swap # 0, "unsupported_component_swap">>,
               <<target.linear_general # 0, "linear_general_not_supported">>,
               <<target.fast_clear # 0, "fast_clear_not_supported">>,
               <<target.compression # 0, "compression_not_supported">>,
               <<target.fmask # 0, "fmask_not_supported">>,
               <<target.dcc_enabled # 0, "dcc_not_supported">>,
               <<target.cmask_is_linear # 0 \/ target.cmask_address_type # 0,
                 "cmask_not_supported">>,
               <<target.nbc_tiling # 0, "nbc_tiling_not_supported">>,
               <<target.color_sw_mode # 0, "unsupported_swizzle_mode">>,
               <<target.resource_type # 1, "unsupported_resource_type">> >>)

plan_gfx10_linear_rgba8_unorm_color_target_image(target) ==
    LET bytes_per_pixel == 4
        logical_bytes == target.width * target.height * bytes_per_pixel
        layout == compute_gfx10_aligned_linear_2d_layout(target.width, target.height,
                                                         bytes_per_pixel)
    IN  Outcome(<< <<ProfileRefusal(target) # "none", ProfileRefusal(target)>>,
                   <<logical_bytes > MaxWord, "logical_size_overflow">>,
                   <<~Succeeded(layout), "surface_layout_failure">>,
                   <<Succeeded(layout) /\ layout.value.pitch_bytes > MaxPitchBytes,
                     "pitch_unrepresentable">>,
                   <<target.base % BaseAlignment # 0, "base_address_misaligned">> >>,
                [base |-> target.base, format |-> "r8g8b8a8_unorm", width |-> target.width,
                 height |-> target.height, bytes_per_pixel |-> bytes_per_pixel,
                 logical_byte_count |-> logical_bytes, layout |-> layout.value])
=============================================================================
