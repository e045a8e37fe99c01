-------------------------- MODULE ShaderInterpreter --------------------------
(***************************************************************************)
(* The operations of Shader IR on the state of one wave, and the execution  *)
(* of one basic block: shader_scalar_execution.cpp,                         *)
(* shader_vector_execution.cpp, shader_export_execution.cpp,                *)
(* shader_control_execution.cpp, shader_wave_block_execution.cpp and         *)
(* shader_export_probe_compiler.cpp.                                        *)
(*                                                                         *)
(* The scalar state is [sgprs, scc, vcc, exec, m0], the vector state        *)
(* [wave_size, vgprs]; registers that no case sets are 0.                   *)
(***************************************************************************)
EXTENDS ShaderProgram

CONSTANTS
    WaveLanes,        \* stands for the 32 lanes of a short wave and the bits of a word
    SignificandBits,  \* stands for the 24 bits of a binary32 significand
    ExponentBits      \* stands for its 8 bits of exponent

ASSUME FormatAssumption ==
    WaveLanes \in Nat \ {0} /\ SignificandBits \in Nat \ {0, 1} /\ ExponentBits \in Nat \ {0, 1}

SgprCount == 106

-----------------------------------------------------------------------------
(* Scalar operations. *)

valid_sgpr(index) == index < SgprCount
valid_sgpr_pair(first) == first % 2 = 0 /\ first + 1 < SgprCount
Sgpr(scalar, index) == IF index \in DOMAIN scalar.sgprs THEN scalar.sgprs[index] ELSE 0

read_scalar_source32(source, scalar) ==
    CASE source.kind = "sgpr" -> Sgpr(scalar, source.value)
      [] source.kind = "vcc_lo" -> scalar.vcc % 2^WaveLanes
      [] source.kind = "vcc_hi" -> scalar.vcc \div 2^WaveLanes
      [] source.kind = "m0" -> scalar.m0
      [] source.kind = "null_register" -> 0
      [] source.kind = "exec_lo" -> scalar.exec % 2^WaveLanes
      [] source.kind = "exec_hi" -> scalar.exec \div 2^WaveLanes
      [] source.kind = "constant" -> source.value

\* The registers an operation writes, as the effect reports them.
execute_shader_scalar_operation(operation, scalar) ==
    IF operation.op = "scalar_move32"
    THEN Outcome(<< <<~valid_sgpr(operation.destination), "invalid_sgpr_index">>,
                    <<operation.source.kind = "sgpr" /\ ~valid_sgpr(operation.source.value),
                      "invalid_sgpr_index">> >>,
                 [kind |-> "scalar",
                  written |-> operation.destination :> read_scalar_source32(operation.source,
                                                                            scalar)])
    ELSE Outcome(<< <<~valid_sgpr_pair(operation.destination), "invalid_sgpr_pair">>,
                    <<~valid_sgpr_pair(operation.source), "invalid_sgpr_pair">> >>,
                 [kind |-> "scalar",
                  written |-> [i \in {operation.destination, operation.destination + 1} |->
                                  Sgpr(scalar, operation.source + i - operation.destination)]])

evaluate_shader_branch_condition(condition, scalar) ==
    [condition |-> condition,
     taken |-> [scc_zero |-> ~scalar.scc, scc_one |-> scalar.scc,
                vcc_zero |-> scalar.vcc = 0, vcc_nonzero |-> scalar.vcc # 0,
                exec_zero |-> scalar.exec = 0, exec_nonzero |-> scalar.exec # 0][condition]]

-----------------------------------------------------------------------------
(* Sums of normal numbers that binary32 represents exactly. *)

FractionBits == SignificandBits - 1
SignBit == 2^(FractionBits + ExponentBits)
MaxExponent == 2^ExponentBits - 1
Words == 0 .. 2 * SignBit - 1

Exponent(bits) == Bits(bits, FractionBits, ExponentBits)
decode_normal_f32(bits) ==
    Outcome(<< <<Exponent(bits) \in {0, MaxExponent}, "unsupported_f32_case">> >>,
            [negative |-> bits >= SignBit, exponent |-> Exponent(bits),
             significand |-> 2^FractionBits + (bits % 2^FractionBits)])
bit_length(value) == Min({n \in 0 .. 2 * SignificandBits + 2 : value < 2^n})

SumWithin(left_bits, right_bits, max_shift) ==
    LET left == decode_normal_f32(left_bits)
        right == decode_normal_f32(right_bits)
        Smaller == Min({left.value.exponent, right.value.exponent})
        Shift(f) == f.exponent - Smaller
        Signed(f) == (IF f.negative THEN -1 ELSE 1) * f.significand * 2^Shift(f)
        sum == Signed(left.value) + Signed(right.value)
        magnitude == IF sum < 0 THEN -sum ELSE sum
        excess == bit_length(magnitude) - SignificandBits
        significand == IF excess > 0 THEN magnitude \div 2^excess ELSE magnitude * 2^(-excess)
        exponent == Smaller + excess
        normal == Succeeded(left) /\ Succeeded(right)
        refused == IF ~normal THEN TRUE
                   ELSE IF Shift(left.value) > max_shift \/ Shift(right.value) > max_shift
                   THEN TRUE
                   ELSE \/ sum = 0
                        \/ excess > 0 /\ magnitude % 2^excess # 0
                        \/ exponent <= 0 \/ exponent >= MaxExponent
    IN  Outcome(<< <<refused, "unsupported_f32_case">> >>,
                (IF sum < 0 THEN SignBit ELSE 0) + exponent * 2^FractionBits
                    + (significand % 2^FractionBits))
\* Mutant: the exponents may differ by one less than the significand is long.
SumOfCloser(left_bits, right_bits) == SumWithin(left_bits, right_bits, SignificandBits - 1)
exact_normal_f32_sum(left_bits, right_bits) == SumWithin(left_bits, right_bits, SignificandBits)

-----------------------------------------------------------------------------
(* Vector operations: every active lane is read before any is written. *)

Vgpr(vector, index, lane) == IF index \in DOMAIN vector.vgprs THEN vector.vgprs[index][lane] ELSE 0
Lanes == 0 .. 2 * WaveLanes - 1
ActiveLanes(scalar, vector) ==
    {lane \in Lanes : /\ Bits(scalar.exec, lane, 1) = 1
                      /\ vector.wave_size = "wave32" => lane < WaveLanes}

execute_shader_vector_move32_operation(operation, scalar, vector) ==
    Outcome(<< <<vector.wave_size = "unspecified", "invalid_wave_size">> >>,
            [kind |-> "vector", destination |-> operation.destination,
             written |-> [lane \in ActiveLanes(scalar, vector) |->
                             Vgpr(vector, operation.source, lane)]])

execute_shader_vector_add_f32_exact_operation(operation, scalar, vector) ==
    LET Sum(lane) == exact_normal_f32_sum(Vgpr(vector, operation.source0, lane),
                                          Vgpr(vector, operation.source1, lane))
    IN  Outcome(<< <<vector.wave_size = "unspecified", "invalid_wave_size">>,
                   <<\E lane \in ActiveLanes(scalar, vector) : ~Succeeded(Sum(lane)),
                     "unsupported_f32_case">> >>,
                [kind |-> "vector", destination |-> operation.destination,
                 written |-> [lane \in ActiveLanes(scalar, vector) |-> Sum(lane).value]])

capture_shader_export_operation(operation, scalar, vector) ==
    Outcome(<< <<vector.wave_size = "unspecified", "invalid_wave_size">> >>,
            [kind |-> "export", target |-> <<operation.target_kind, operation.target_index>>,
             values |-> [c \in 1 .. 4 |-> [lane \in ActiveLanes(scalar, vector) |->
                                              Vgpr(vector, operation.sources[c], lane)]]])

\* What an effect does to the registers.
ScalarAfter(scalar, effect) ==
    IF effect.kind = "scalar" THEN [scalar EXCEPT !.sgprs = effect.written @@ @] ELSE scalar
VectorAfter(vector, effect) ==
    IF effect.kind # "vector" THEN vector
    ELSE [vector EXCEPT !.vgprs =
             effect.destination :> [lane \in Lanes |->
                 IF lane \in DOMAIN effect.written THEN effect.written[lane]
                 ELSE Vgpr(vector, effect.destination, lane)] @@ @]

-----------------------------------------------------------------------------
(* The edge a block leaves by. *)

Mismatch(program, graph) ==
    \/ graph.source_word_count # program.source_word_count
    \/ graph.emission_count # Len(program.emissions)
valid_target(graph, edge) == edge.target < Len(graph.blocks)
BadExtent(program, block) ==
    block.count = 0 \/ block.first + block.count > Len(program.emissions)
Kinds(edges) == [i \in DOMAIN edges |-> edges[i].kind]

\* The edges the last operation of a block asks for.
ExpectedEdges(operation, follows) ==
    CASE operation.op = "end_program" -> {<< >>}
      [] operation.op = "branch" -> {<<"unconditional_branch">>}
      [] operation.op = "conditional_branch" ->
            IF ~follows THEN {<<"conditional_branch_taken">>}
            ELSE {<<"conditional_branch_taken", "conditional_branch_fallthrough">>,
                  <<"conditional_branch_fallthrough", "conditional_branch_taken">>}
      [] OTHER -> {IF follows THEN <<"linear_fallthrough">> ELSE << >>}

\* decision: the branch condition and its outcome, << >> when none was evaluated.
select_shader_cfg_successor(program, graph, index, decision) ==
    LET block == graph.blocks[index + 1]
        edges == block.successors
        last == block.first + block.count - 1
        operation == Operation(program, last)
        follows == last + 1 < Len(program.emissions)
        conditional == operation.op = "conditional_branch"
        fallthrough == {"linear_fallthrough", "conditional_branch_fallthrough"}
        chosen == IF ~conditional THEN Range(edges)
                  ELSE {e \in Range(edges) :
                           (e.kind = "conditional_branch_taken") = decision[1].taken}
    IN  IF Mismatch(program, graph) THEN [error |-> "graph_program_mismatch"]
        ELSE IF index >= Len(graph.blocks) THEN [error |-> "block_index_out_of_bounds"]
        ELSE IF BadExtent(program, block) THEN [error |-> "invalid_block_extent"]
        ELSE Outcome(<<
            <<\E i \in DOMAIN edges : ~valid_target(graph, edges[i]), "invalid_edge_target">>,
            <<~conditional /\ decision # << >>, "unexpected_branch_decision">>,
            <<conditional /\ decision = << >>, "branch_decision_required">>,
            <<conditional /\ decision # << >> /\ decision[1].condition # operation.condition,
              "branch_condition_mismatch">>,
            <<Kinds(edges) \notin ExpectedEdges(operation, follows),
              "invalid_successor_topology">>,
            <<\E i \in DOMAIN edges : edges[i].kind \in fallthrough
                                      /\ edges[i].target # index + 1,
              "invalid_successor_topology">> >>,
            IF chosen = {} THEN << >> ELSE <<CHOOSE e \in chosen : TRUE>>)

-----------------------------------------------------------------------------
(* One block. *)

ControlFlow == {"end_program", "branch", "conditional_branch"}
Started(scalar, vector) ==
    [error |-> "none", scalar |-> scalar, vector |-> vector, completed |-> 0,
     effects |-> << >>, decision |-> << >>]
Fails(run, error) == [run EXCEPT !.error = error]
Completes(run) == [run EXCEPT !.completed = @ + 1]
\* An operation's outcome: its effect is applied and recorded, or the block stops.
Takes(run, outcome, error) ==
    IF ~Succeeded(outcome) THEN Fails(run, error)
    ELSE [Completes(run) EXCEPT !.scalar = ScalarAfter(@, outcome.value),
                                !.vector = VectorAfter(@, outcome.value),
                                !.effects = Append(@, outcome.value)]

ScalarEmission(run, emission) ==
    LET operation == emission.operation
    IN  IF ~Succeeded(run) THEN run ELSE
        CASE operation.op \in {"nop", "branch", "end_program"} ->
                Completes(run)
          [] operation.op = "conditional_branch" ->
                [Completes(run) EXCEPT !.decision =
                    <<evaluate_shader_branch_condition(operation.condition, run.scalar)>>]
          [] operation.op \in {"scalar_move32", "scalar_move64"} ->
                Takes(run, execute_shader_scalar_operation(operation, run.scalar),
                      "scalar_execution_failure")
          [] OTHER -> Fails(run, "unsupported_operation")

WaveEmission(run, emission) ==
    LET operation == emission.operation
    IN  IF ~Succeeded(run) THEN run ELSE
        CASE operation.op = "vector_move32" ->
                Takes(run, execute_shader_vector_move32_operation(operation, run.scalar,
                                                                  run.vector),
                      "vector_execution_failure")
          [] operation.op = "vector_add_f32" ->
                Takes(run, execute_shader_vector_add_f32_exact_operation(operation, run.scalar,
                                                                         run.vector),
                      "vector_execution_failure")
          [] operation.op = "export" ->
                Takes(run, capture_shader_export_operation(operation, run.scalar, run.vector),
                      "export_capture_failure")
          [] OTHER -> ScalarEmission(run, emission)

\* The checks before the first emission; a later one leaves what was written.
BlockRefusal(program, graph, index) ==
    LET block == graph.blocks[index + 1]
    IN  IF Mismatch(program, graph) THEN "graph_program_mismatch"
        ELSE IF index >= Len(graph.blocks) THEN "block_index_out_of_bounds"
        ELSE IF BadExtent(program, block) THEN "invalid_block_extent"
        ELSE IF \E e \in block.first .. block.first + block.count - 2 :
                    Operation(program, e).op \in ControlFlow
        THEN "invalid_block_control_flow"
        ELSE "none"
BlockEmissions(program, block) == SubSeq(program.emissions, block.first + 1, block.first + block.count)
Left(program, graph, index, run) ==
    LET successor == select_shader_cfg_successor(program, graph, index, run.decision)
    IN  IF ~Succeeded(run) THEN run
        ELSE IF ~Succeeded(successor) THEN Fails(run, "cfg_successor_failure")
        ELSE run @@ [edge |-> successor.value]

execute_shader_scalar_block(program, graph, index, scalar, vector) ==
    LET refusal == BlockRefusal(program, graph, index)
    IN  IF refusal # "none" THEN Fails(Started(scalar, vector), refusal)
        ELSE Left(program, graph, index,
                  FoldLeft(ScalarEmission, Started(scalar, vector),
                           BlockEmissions(program, graph.blocks[index + 1])))
execute_shader_wave_block(program, graph, index, scalar, vector) ==
    LET refusal == BlockRefusal(program, graph, index)
    IN  IF refusal # "none" THEN Fails(Started(scalar, vector), refusal)
        ELSE Left(program, graph, index,
                  FoldLeft(WaveEmission, Started(scalar, vector),
                           BlockEmissions(program, graph.blocks[index + 1])))

-----------------------------------------------------------------------------
(* A probe: one export of registers whose values the launch interface names. *)

bindings_are_unique(abi) ==
    \A i, j \in DOMAIN abi.bindings :
        i # j => abi.bindings[i].vgpr # abi.bindings[j].vgpr
find_binding(abi, vgpr) == {i \in DOMAIN abi.bindings : abi.bindings[i].vgpr = vgpr}
Bindings(stage, sources) ==
    [stage |-> stage, bindings |-> [i \in 1 .. 4 |-> [vgpr |-> i - 1, source |-> sources[i]]]]
make_fullscreen_position_probe_launch_abi ==
    Bindings("pre_raster", <<"position_x", "position_y", "zero", "one">>)
make_magenta_fragment_probe_launch_abi ==
    Bindings("fragment", <<"one", "zero", "one", "one">>)
\* Mutant: a probe may export other components than the two it was made for.
AnyComponents(stage, components) == stage \in {"pre_raster", "fragment"} /\ Len(components) = 4
valid_exact_probe_components(stage, components) ==
    components = IF stage = "pre_raster" THEN <<"position_x", "position_y", "zero", "one">>
                 ELSE <<"one", "zero", "one", "one">>

compile_shader_export_probe(program, abi) ==
    LET export == Operation(program, 0)
        target == [pre_raster |-> <<"position", 0>>, fragment |-> <<"mrt", 0>>][abi.stage]
        components == [c \in 1 .. 4 |->
                          abi.bindings[Min(find_binding(abi, export.sources[c]))].source]
    IN  IF Len(program.emissions) # 2 THEN [error |-> "invalid_program_shape"]
        ELSE IF export.op # "export" \/ Operation(program, 1).op # "end_program"
        THEN [error |-> "invalid_program_shape"]
        ELSE Outcome(<< <<export.enable_mask # 15 \/ export.compressed \/ ~export.done
                          \/ export.valid_mask, "unsupported_export_form">>,
                        <<<<export.target_kind, export.target_index>> # target,
                          "unsupported_export_target">>,
                        <<~bindings_are_unique(abi), "duplicate_binding">>,
                        <<\E c \in 1 .. 4 : find_binding(abi, export.sources[c]) = {},
                          "missing_binding">>,
                        <<(\A c \in 1 .. 4 : find_binding(abi, export.sources[c]) # {})
                          /\ ~valid_exact_probe_components(abi.stage, components),
                          "unsupported_probe_binding">> >>,
                     [stage |-> abi.stage, components |-> components])

\* What the SPIR-V module of a stage stores.  A source that is not a constant has
\* the constant bits of zero.
constant_bits(source) == IF source = "one" THEN "one" ELSE "zero"
build_vertex_module(ir) ==
    <<IF ir.components[1] = "position_x" THEN "position_x" ELSE "zero",
      IF ir.components[2] = "position_y" THEN "position_y" ELSE "zero",
      constant_bits(ir.components[3]), constant_bits(ir.components[4])>>
build_fragment_module(ir) == [c \in 1 .. 4 |-> constant_bits(ir.components[c])]
lower_shader_export_probe_to_spirv(ir) ==
    Outcome(<< <<~valid_exact_probe_components(ir.stage, ir.components),
                 "unsupported_probe_binding">> >>,
            [stage |-> ir.stage,
             stored |-> IF ir.stage = "pre_raster" THEN build_vertex_module(ir)
                        ELSE build_fragment_module(ir)])
=============================================================================
