---------------------------- MODULE ShaderProgram ----------------------------
(***************************************************************************)
(* RDNA2 words decoded, lowered to Shader IR and cut into basic blocks:     *)
(* rdna2_decoder.cpp, shader_ir.cpp, shader_program.cpp, shader_cfg.cpp.    *)
(*                                                                         *)
(* A word is a signed 32-bit integer; word, emission and block indices      *)
(* count from 0.  An instruction reaches the lowering from the decoder      *)
(* only, so that its format always agrees with its kind.                    *)
(***************************************************************************)
EXTENDS CheckedPlans, SequencesExt

Bits(word, low, width) == (word \div 2^low) % 2^width

decode_simm16(word) == IF Bits(word, 0, 16) < 32768 THEN Bits(word, 0, 16)
                       ELSE Bits(word, 0, 16) - 65536

-----------------------------------------------------------------------------
(* Decoding. *)

classify_sopp_opcode(opcode) ==
    LET kinds == 0 :> "s_nop" @@ 1 :> "s_endpgm" @@ 2 :> "s_branch" @@
                 4 :> "s_cbranch_scc0" @@ 5 :> "s_cbranch_scc1" @@
                 6 :> "s_cbranch_vccz" @@ 7 :> "s_cbranch_vccnz" @@
                 8 :> "s_cbranch_execz" @@ 9 :> "s_cbranch_execnz" @@
                 10 :> "s_barrier" @@ 12 :> "s_waitcnt"
    IN  IF opcode \in DOMAIN kinds THEN kinds[opcode] ELSE "unknown_sopp_opcode"
classify_sop1_opcode(opcode) ==
    IF opcode = 3 THEN "s_mov_b32" ELSE IF opcode = 4 THEN "s_mov_b64"
    ELSE "unknown_sop1_opcode"
classify_vop1_opcode(opcode) == IF opcode = 1 THEN "v_mov_b32" ELSE "unknown_vop1_opcode"
classify_vop2_opcode(opcode) == IF opcode = 3 THEN "v_add_f32" ELSE "unknown_vop2_opcode"

vop1_source_has_extension(selector) == selector \in {233, 234, 249, 250, 255}
vop2_source0_has_extension(selector) == selector \in {233, 234, 249, 250, 255}

\* An instruction of `count` words, all of which must be there.
Instruction(words, index, count, kind, fields) ==
    Outcome(<< <<index + count > Len(words), "instruction_out_of_bounds">> >>,
            [word_index |-> index, word_count |-> count, kind |-> kind, fields |-> fields])

DecodeExp(words, index) ==
    LET word == words[index + 1]
        sources == words[index + 2]
    IN  Instruction(words, index, 2, "exp",
            [enable_mask |-> Bits(word, 0, 4), target |-> Bits(word, 4, 6),
             compressed |-> Bits(word, 10, 1) = 1, done |-> Bits(word, 11, 1) = 1,
             valid_mask |-> Bits(word, 12, 1) = 1,
             sources |-> [c \in 1 .. 4 |-> Bits(sources, 8 * (c - 1), 8)]])

DecodeSopp(words, index) ==
    Instruction(words, index, 1, classify_sopp_opcode(Bits(words[index + 1], 16, 7)),
                [simm16 |-> decode_simm16(words[index + 1])])

\* A literal follows s_mov_b32 only.
DecodeSop1(words, index) ==
    LET word == words[index + 1]
        kind == classify_sop1_opcode(Bits(word, 8, 8))
        literal == kind = "s_mov_b32" /\ Bits(word, 0, 8) = 255
    IN  Instruction(words, index, IF literal THEN 2 ELSE 1, kind,
            [destination |-> Bits(word, 16, 7), source |-> Bits(word, 0, 8),
             literal |-> IF literal THEN <<words[index + 2]>> ELSE << >>])

DecodeVop1(words, index) ==
    LET word == words[index + 1]
    IN  Instruction(words, index, IF vop1_source_has_extension(Bits(word, 0, 9)) THEN 2 ELSE 1,
            classify_vop1_opcode(Bits(word, 9, 8)),
            [destination |-> Bits(word, 17, 8), source |-> Bits(word, 0, 9)])

DecodeVop2(words, index) ==
    LET word == words[index + 1]
    IN  Instruction(words, index, IF vop2_source0_has_extension(Bits(word, 0, 9)) THEN 2 ELSE 1,
            classify_vop2_opcode(Bits(word, 25, 6)),
            [destination |-> Bits(word, 17, 8), source0 |-> Bits(word, 0, 9),
             source1 |-> Bits(word, 9, 8)])

decode_rdna2_instruction(words, index) ==
    LET word == words[index + 1]
    IN  IF index >= Len(words) THEN [error |-> "instruction_out_of_bounds"]
        ELSE IF Bits(word, 26, 6) = 62 THEN DecodeExp(words, index)
        ELSE IF Bits(word, 23, 9) = 383 THEN DecodeSopp(words, index)
        ELSE IF Bits(word, 23, 9) = 381 THEN DecodeSop1(words, index)
        ELSE IF Bits(word, 25, 7) = 63 THEN DecodeVop1(words, index)
        ELSE IF word >= 0 THEN DecodeVop2(words, index)
        ELSE Instruction(words, index, 1, "unsupported_encoding", << >>)

-----------------------------------------------------------------------------
(* Lowering. *)

unsupported(reason) == [op |-> "unsupported", reason |-> reason]

export_target(target) ==
    IF target <= 7 THEN <<"mrt", target>>
    ELSE IF target = 8 THEN <<"mrt_z", 0>>
    ELSE IF target = 9 THEN <<"null_target", 0>>
    ELSE IF target \in 12 .. 15 THEN <<"position", target - 12>>
    ELSE IF target = 20 THEN <<"primitive", 0>>
    ELSE IF target \in 32 .. 63 THEN <<"parameter", target - 32>>
    ELSE << >>

plain_sgpr_selector(selector) == selector <= 105
plain_sgpr_pair_selector(selector) == selector <= 104 /\ selector % 2 = 0
special_scalar_source32 ==
    106 :> "vcc_lo" @@ 107 :> "vcc_hi" @@ 124 :> "m0" @@ 125 :> "null_register" @@
    126 :> "exec_lo" @@ 127 :> "exec_hi"

\* A register, a special register or a constant; "none" when it is neither.
scalar_source32(selector, literal) ==
    IF plain_sgpr_selector(selector) THEN [kind |-> "sgpr", value |-> selector]
    ELSE IF selector \in DOMAIN special_scalar_source32
    THEN [kind |-> special_scalar_source32[selector], value |-> 0]
    ELSE IF selector \in 128 .. 192 THEN [kind |-> "constant", value |-> selector - 128]
    ELSE IF selector \in 193 .. 208 THEN [kind |-> "constant", value |-> -(selector - 192)]
    ELSE IF selector = 255 /\ literal # << >> THEN [kind |-> "constant", value |-> literal[1]]
    ELSE [kind |-> "none", value |-> 0]

relative_branch_delta(fields) == fields.simm16 * 4 + 4
wait_count(fields) ==
    [op |-> "wait_count",
     vmcnt |-> Bits(fields.simm16, 14, 2) * 16 + Bits(fields.simm16, 0, 4),
     expcnt |-> Bits(fields.simm16, 4, 3), lgkmcnt |-> Bits(fields.simm16, 8, 6)]

BranchCondition ==
    "s_cbranch_scc0" :> "scc_zero" @@ "s_cbranch_scc1" :> "scc_one" @@
    "s_cbranch_vccz" :> "vcc_zero" @@ "s_cbranch_vccnz" :> "vcc_nonzero" @@
    "s_cbranch_execz" :> "exec_zero" @@ "s_cbranch_execnz" :> "exec_nonzero"

LowerSopp(kind, fields) ==
    CASE kind = "s_nop" -> [op |-> "nop", repeat_count |-> Bits(fields.simm16, 0, 4) + 1]
      [] kind = "s_endpgm" -> [op |-> "end_program"]
      [] kind = "s_branch" -> [op |-> "branch", byte_delta |-> relative_branch_delta(fields)]
      [] kind \in DOMAIN BranchCondition ->
            [op |-> "conditional_branch", condition |-> BranchCondition[kind],
             byte_delta |-> relative_branch_delta(fields)]
      [] kind = "s_barrier" -> [op |-> "barrier"]
      [] kind = "s_waitcnt" -> wait_count(fields)

LowerSop1(kind, fields) ==
    IF kind = "s_mov_b32"
    THEN LET source == scalar_source32(fields.source, fields.literal)
         IN  IF plain_sgpr_selector(fields.destination) /\ source.kind # "none"
             THEN [op |-> "scalar_move32", destination |-> fields.destination,
                   source |-> source]
             ELSE unsupported("unsupported_scalar_operand")
    ELSE IF plain_sgpr_pair_selector(fields.destination) /\ plain_sgpr_pair_selector(fields.source)
    THEN [op |-> "scalar_move64", destination |-> fields.destination, source |-> fields.source]
    ELSE unsupported("unsupported_scalar_operand")

LowerVop(kind, fields) ==
    IF kind = "v_mov_b32"
    THEN IF fields.source >= 256
         THEN [op |-> "vector_move32", destination |-> fields.destination,
               source |-> fields.source - 256]
         ELSE unsupported("unsupported_vector_operand")
    ELSE IF fields.source0 >= 256
    THEN [op |-> "vector_add_f32", destination |-> fields.destination,
          source0 |-> fields.source0 - 256, source1 |-> fields.source1]
    ELSE unsupported("unsupported_vector_operand")

LowerExp(fields) ==
    LET target == export_target(fields.target)
    IN  IF target = << >> THEN unsupported("unknown_export_target")
        ELSE [op |-> "export", target_kind |-> target[1], target_index |-> target[2],
              enable_mask |-> fields.enable_mask, compressed |-> fields.compressed,
              done |-> fields.done, valid_mask |-> fields.valid_mask,
              sources |-> fields.sources]

lower_rdna2_to_shader_ir(instruction) ==
    LET kind == instruction.kind
        fields == instruction.fields
    IN  [word_index |-> instruction.word_index, word_count |-> instruction.word_count,
         operation |->
            CASE kind = "exp" -> LowerExp(fields)
              [] kind \in {"s_mov_b32", "s_mov_b64"} -> LowerSop1(kind, fields)
              [] kind \in {"v_mov_b32", "v_add_f32"} -> LowerVop(kind, fields)
              [] kind \in {"unknown_sopp_opcode", "unknown_sop1_opcode", "unknown_vop1_opcode",
                           "unknown_vop2_opcode", "unsupported_encoding"} -> unsupported(kind)
              [] OTHER -> LowerSopp(kind, fields)]

\* The instructions from each word on; the first that does not decode stops it.
lower_rdna2_stream_to_shader_ir(words) ==
    LET from[index \in 0 .. Len(words)] ==
            LET decoded == decode_rdna2_instruction(words, index)
                rest == from[index + decoded.value.word_count]
            IN  IF index = Len(words) THEN [error |-> "none", value |-> << >>]
                ELSE IF ~Succeeded(decoded) THEN [error |-> "decode_failure"]
                ELSE IF ~Succeeded(rest) THEN rest
                ELSE [error |-> "none",
                      value |-> <<lower_rdna2_to_shader_ir(decoded.value)>> \o rest.value]
    IN  Outcome(<< <<~Succeeded(from[0]), from[0].error>> >>,
                [source_word_count |-> Len(words), emissions |-> from[0].value])

-----------------------------------------------------------------------------
(* Basic blocks. *)

Operation(program, index) == program.emissions[index + 1].operation
Emissions(program) == 0 .. Len(program.emissions) - 1

validate_program_layout(program) ==
    /\ \A e \in Emissions(program) :
           program.emissions[e + 1].word_index =
               IF e = 0 THEN 0
               ELSE program.emissions[e].word_index + program.emissions[e].word_count
    /\ program.source_word_count =
           IF program.emissions = << >> THEN 0
           ELSE Last(program.emissions).word_index + Last(program.emissions).word_count

\* The emission that starts at the word a branch names.
resolve_branch_target(program, index, byte_delta) ==
    LET target == program.emissions[index + 1].word_index + byte_delta \div 4
        found == {e \in Emissions(program) : program.emissions[e + 1].word_index = target}
    IN  Outcome(<< <<byte_delta % 4 # 0, "invalid_branch_delta">>,
                   <<target < 0 \/ target >= program.source_word_count,
                     "invalid_branch_target">>,
                   <<found = {}, "invalid_branch_target">> >>,
                Min(found))

Branches(program) ==
    {e \in Emissions(program) : Operation(program, e).op \in {"branch", "conditional_branch"}}
BranchTarget(program, e) ==
    resolve_branch_target(program, e, Operation(program, e).byte_delta)

\* Where blocks begin: the entry, the targets, and what follows the control flow.
Leaders(program) ==
    {0} \cup {BranchTarget(program, e).value : e \in Branches(program)}
        \cup {e \in Emissions(program) \ {0} :
                 Operation(program, e - 1).op \in {"branch", "conditional_branch", "end_program"}}

Block(program, starts, b) ==
    LET first == starts[b]
        end == IF b < Len(starts) THEN starts[b + 1] ELSE Len(program.emissions)
    IN  [first |-> first, count |-> end - first]

Edge(kind, starts, emission) ==
    [kind |-> kind, target |-> Max({b \in DOMAIN starts : starts[b] <= emission}) - 1]

Successors(program, starts, last) ==
    LET operation == Operation(program, last)
        target == BranchTarget(program, last).value
        After(kind) == IF last + 1 < Len(program.emissions)
                       THEN <<Edge(kind, starts, last + 1)>> ELSE << >>
    IN  CASE operation.op = "branch" -> <<Edge("unconditional_branch", starts, target)>>
          [] operation.op = "conditional_branch" ->
                <<Edge("conditional_branch_taken", starts, target)>>
                    \o After("conditional_branch_fallthrough")
          [] operation.op = "end_program" -> << >>
          [] OTHER -> After("linear_fallthrough")

GraphFrom(program, leaders) ==
    LET starts == SetToSortSeq(leaders, <)
    IN  [source_word_count |-> program.source_word_count,
         emission_count |-> Len(program.emissions),
         blocks |-> [b \in DOMAIN starts |->
                        LET block == Block(program, starts, b)
                        IN  block @@ [successors |->
                                Successors(program, starts, block.first + block.count - 1)]]]

\* Mutant: a branch target in the middle of a block does not begin one.
GraphWithoutTargets(program) ==
    Outcome(<< <<\E e \in Branches(program) : ~Succeeded(BranchTarget(program, e)),
                 "invalid_branch_target">> >>,
            IF program.emissions = << >>
            THEN [source_word_count |-> 0, emission_count |-> 0, blocks |-> << >>]
            ELSE GraphFrom(program, Leaders(program) \ {e \in Emissions(program) \ {0} :
                     Operation(program, e - 1).op \notin
                         {"branch", "conditional_branch", "end_program"}}))
build_shader_control_flow_graph(program) ==
    LET bad == {e \in Branches(program) : ~Succeeded(BranchTarget(program, e))}
    IN  IF ~validate_program_layout(program) THEN [error |-> "invalid_program_layout"]
        ELSE IF program.emissions = << >>
        THEN [error |-> "none", value |-> [source_word_count |-> program.source_word_count,
                                           emission_count |-> 0, blocks |-> << >>]]
        ELSE IF bad # {} THEN [error |-> BranchTarget(program, Min(bad)).error]
        ELSE [error |-> "none", value |-> GraphFrom(program, Leaders(program))]
=============================================================================
