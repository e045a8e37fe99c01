--------------------------- MODULE ShaderExecution ---------------------------
(***************************************************************************)
(* A shader from its words to its effects: the client lowers a stream,      *)
(* builds the graph of blocks, compiles the stream as a probe if it is one, *)
(* and runs it block by block on a wave, within a budget of blocks.         *)
(* execute_shader_wave_program and execute_shader_scalar_program            *)
(* (shader_wave_program_execution.cpp, shader_program_execution.cpp) take   *)
(* any graph; the client may hand them the graph of another stream.         *)
(***************************************************************************)
EXTENDS ShaderInterpreter

CONSTANT CaseFamilies  \* sets of streams, graphs, states and budgets the client runs

VARIABLES
    case,        \* what the client runs
    step,        \* lower, graph, probe, start, run, done or refused
    error,       \* the error of the call that was refused
    program,     \* ShaderIrProgram
    graph,       \* ShaderControlFlowGraph
    probe,       \* ShaderExportProbeSpirvModule of a stream that is a probe
    block,       \* current_block_index
    scalar,      \* ShaderScalarState&
    vector,      \* ShaderVectorState&
    executions   \* block_executions

static == <<program, graph, probe>>
running == <<block, scalar, vector, executions>>
vars == <<case, step, error, static, running>>

None == [none |-> TRUE]

Init ==
    /\ \E family \in DOMAIN CaseFamilies : case \in CaseFamilies[family]
    /\ step = "lower" /\ error = "none"
    /\ program = None /\ graph = None /\ probe = None
    /\ block = 0 /\ scalar = case.scalar /\ vector = case.vector /\ executions = << >>

Refuse(e) == step' = "refused" /\ error' = e
Advance(next) == step' = next /\ error' = error

Lower ==
    /\ step = "lower"
    /\ LET result == lower_rdna2_stream_to_shader_ir(case.words)
       IN  IF ~Succeeded(result) THEN Refuse(result.error) /\ UNCHANGED program
           ELSE program' = result.value /\ Advance("graph")
    /\ UNCHANGED <<case, graph, probe, running>>

BuildGraph ==
    /\ step = "graph"
    /\ LET lowered == lower_rdna2_stream_to_shader_ir(case.graph_words)
           result == build_shader_control_flow_graph(lowered.value)
       IN  IF ~Succeeded(lowered) THEN Refuse(lowered.error) /\ UNCHANGED graph
           ELSE IF ~Succeeded(result) THEN Refuse(result.error) /\ UNCHANGED graph
           ELSE graph' = result.value /\ Advance("probe")
    /\ UNCHANGED <<case, program, probe, running>>

CompileProbe ==
    /\ step = "probe"
    /\ LET compiled == compile_shader_export_probe(program, case.abi)
           lowered == lower_shader_export_probe_to_spirv(compiled.value)
       IN  probe' = IF ~Succeeded(compiled) THEN None
                    ELSE IF Succeeded(lowered) THEN lowered.value ELSE None
    /\ Advance("start")
    /\ UNCHANGED <<case, program, graph, running>>

\* The entry of both program executors.
StartRun ==
    /\ step = "start"
    /\ IF Mismatch(program, graph) THEN Refuse("graph_program_mismatch") /\ UNCHANGED block
       ELSE IF case.entry >= Len(graph.blocks)
       THEN Refuse("entry_block_out_of_bounds") /\ UNCHANGED block
       ELSE block' = case.entry /\ Advance("run")
    /\ UNCHANGED <<case, static, scalar, vector, executions>>

\* The storage of the emissions, the graph, the executions or the effects
\* cannot be reserved: it always is before anything changes.
HostAllocationFails ==
    /\ step \in {"lower", "graph", "start", "run"} /\ case.memory = "scarce"
    /\ step = "run" => Len(executions) < case.budget
    /\ Refuse("host_allocation_failure")
    /\ UNCHANGED <<case, static, running>>

\* One round of the loop: the budget, the block, its edge.
Runs(run) ==
    /\ IF Len(executions) >= case.budget
       THEN Refuse("execution_budget_exhausted") /\ UNCHANGED running
       ELSE /\ scalar' = run.scalar /\ vector' = run.vector
            /\ IF ~Succeeded(run)
               THEN Refuse(run.error) /\ UNCHANGED <<block, executions>>
               ELSE /\ executions' = Append(executions,
                           [block |-> block, executed |-> run.completed,
                            effects |-> run.effects, decision |-> run.decision,
                            edge |-> run.edge])
                    /\ IF run.edge = << >> THEN Advance("done") /\ UNCHANGED block
                       ELSE block' = run.edge[1].target /\ Advance("run")
    /\ UNCHANGED <<case, static>>

ExecuteWaveBlock ==
    /\ step = "run" /\ case.executor = "wave"
    /\ Runs(execute_shader_wave_block(program, graph, block, scalar, vector))

ExecuteScalarBlock ==
    /\ step = "run" /\ case.executor = "scalar"
    /\ Runs(execute_shader_scalar_block(program, graph, block, scalar, vector))

Next ==
    \/ Lower \/ BuildGraph \/ CompileProbe \/ StartRun \/ HostAllocationFails
    \/ ExecuteWaveBlock \/ ExecuteScalarBlock

Spec == Init /\ [][Next]_vars

-----------------------------------------------------------------------------
(* What the words say, one instruction at a time and without blocks. *)

\* A machine between two instructions: the word it is at, and its registers.
At(word, s, v) == [at |-> word, scalar |-> s, vector |-> v]
Finished(m) == m.at = Len(case.words) \/ m.at = -1

Taken(kind, s) ==
    CASE kind = "s_branch" -> TRUE
      [] kind = "s_cbranch_scc0" -> ~s.scc
      [] kind = "s_cbranch_scc1" -> s.scc
      [] kind = "s_cbranch_vccz" -> s.vcc = 0
      [] kind = "s_cbranch_vccnz" -> s.vcc # 0
      [] kind = "s_cbranch_execz" -> s.exec = 0
      [] kind = "s_cbranch_execnz" -> s.exec # 0
      [] OTHER -> FALSE

\* The machine after the instruction it is at, without the effects of a block.
Stepped(m) ==
    LET instruction == decode_rdna2_instruction(case.words, m.at).value
        operation == lower_rdna2_to_shader_ir(instruction).operation
        next == IF instruction.kind = "s_endpgm" THEN -1
                ELSE IF Taken(instruction.kind, m.scalar)
                THEN m.at + 1 + instruction.fields.simm16
                ELSE m.at + instruction.word_count
        Sources(lane) ==
            IF operation.op = "vector_move32" THEN Vgpr(m.vector, operation.source, lane)
            ELSE exact_normal_f32_sum(Vgpr(m.vector, operation.source0, lane),
                                      Vgpr(m.vector, operation.source1, lane)).value
    IN  CASE operation.op = "scalar_move32" ->
                At(next, [m.scalar EXCEPT !.sgprs =
                            operation.destination :>
                                read_scalar_source32(operation.source, m.scalar) @@ @],
                   m.vector)
          [] operation.op = "scalar_move64" ->
                At(next, [m.scalar EXCEPT !.sgprs =
                            operation.destination :> Sgpr(m.scalar, operation.source) @@
                            operation.destination + 1 :> Sgpr(m.scalar, operation.source + 1)
                            @@ @],
                   m.vector)
          [] operation.op \in {"vector_move32", "vector_add_f32"} ->
                At(next, m.scalar,
                   [m.vector EXCEPT !.vgprs = operation.destination :>
                       [lane \in Lanes |-> IF lane \in ActiveLanes(m.scalar, m.vector)
                                           THEN Sources(lane)
                                           ELSE Vgpr(m.vector, operation.destination, lane)]
                       @@ @])
          [] OTHER -> At(next, m.scalar, m.vector)

Reference(m, count) ==
    LET after[n \in 0 .. count] == IF n = 0 THEN m ELSE Stepped(after[n - 1])
    IN  after[count]

\* The instruction the machine is at cannot be executed.
Stuck(m) ==
    LET operation == lower_rdna2_to_shader_ir(
                         decode_rdna2_instruction(case.words, m.at).value).operation
        wave == {"vector_move32", "vector_add_f32", "export"}
    IN  \/ operation.op \in {"unsupported", "barrier", "wait_count"}
        \/ operation.op \in wave /\ (case.executor = "scalar"
                                     \/ m.vector.wave_size = "unspecified")
        \/ operation.op = "vector_add_f32"
           /\ \E lane \in ActiveLanes(m.scalar, m.vector) :
                  ~Succeeded(exact_normal_f32_sum(Vgpr(m.vector, operation.source0, lane),
                                                  Vgpr(m.vector, operation.source1, lane)))

WordOf(b) == program.emissions[graph.blocks[b + 1].first + 1].word_index
OwnGraph == case.graph_words = case.words

-----------------------------------------------------------------------------
(* Properties. *)

\* One round leaves the registers exactly as the instructions it reports as
\* completed do when executed one at a time from the words: after a block that
\* succeeds, where the next one begins is where those instructions lead, and the
\* run ends only where the program does; a block that fails stops before an
\* instruction that cannot be executed, with the earlier writes in place.  A
\* graph built from the stream itself is never refused as malformed
\* (execute_shader_wave_block, shader_wave_block_execution.cpp:39 and
\* build_shader_control_flow_graph, shader_cfg.cpp:187).
RoundIsExact ==
    LET before == At(WordOf(block), scalar, vector)
        last == executions'[Len(executions')]
        after == Reference(before, last.executed)
        stopped == \E n \in 0 .. graph.blocks[block + 1].count :
                       LET m == Reference(before, n)
                       IN  /\ m.scalar = scalar' /\ m.vector = vector'
                           /\ ~Finished(m) /\ Stuck(m)
                           /\ \A k \in 0 .. n - 1 : ~Stuck(Reference(before, k))
    IN  IF executions' # executions
        THEN /\ after.scalar = scalar' /\ after.vector = vector'
             /\ scalar' = FoldLeft(ScalarAfter, scalar, last.effects)
             /\ vector' = FoldLeft(VectorAfter, vector, last.effects)
             /\ OwnGraph => IF last.edge = << >> THEN Finished(after)
                            ELSE after.at = WordOf(block')
        ELSE OwnGraph =>
                 \/ error' \in {"execution_budget_exhausted", "host_allocation_failure"}
                    /\ UNCHANGED <<scalar, vector>>
                 \/ error' \in {"unsupported_operation", "vector_execution_failure",
                                "export_capture_failure"}
                    /\ stopped
BlocksFollowTheProgram == [][step = "run" => RoundIsExact]_vars

\* The number a normal word stands for, in units of its smallest fraction.
Number(bits) ==
    LET f == decode_normal_f32(bits).value
    IN  (IF f.negative THEN -1 ELSE 1) * f.significand * 2^f.exponent
Normal == {w \in Words : Succeeded(decode_normal_f32(w))}

\* exact_normal_f32_sum (shader_vector_execution.cpp:57) yields the sum of two
\* normal numbers whenever a normal number equals it, and refuses otherwise: the
\* limit on the distance of the exponents and the bits it discards lose no sum
\* and round none.
AddsAreExact ==
    step = "run" /\ executions = << >> =>
    \A lane \in ActiveLanes(scalar, vector) :
        LET left == Vgpr(vector, 0, lane)
            right == Vgpr(vector, 1, lane)
            sum == exact_normal_f32_sum(left, right)
            total == Number(left) + Number(right)
            equal == {w \in Normal : Number(w) = total}
        IN  IF {left, right} \subseteq Normal /\ equal # {}
            THEN Succeeded(sum) /\ sum.value \in equal
            ELSE ~Succeeded(sum)

\* The SPIR-V module of a probe (lower_shader_export_probe_to_spirv,
\* shader_export_probe_compiler.cpp:701) stores what the stream it was compiled
\* from exports: a wave launched with the registers the interface binds exports,
\* in every active lane, the values of the sources the module stores, to the
\* target of its stage.
ProbeDrawsTheExport ==
    probe # None /\ case.executor = "wave" /\ step = "done" /\ case.entry = 0 /\ OwnGraph =>
        \E i \in DOMAIN executions : \E j \in DOMAIN executions[i].effects :
            LET effect == executions[i].effects[j]
            IN  /\ effect.kind = "export"
                /\ effect.target[1] = IF probe.stage = "fragment" THEN "mrt" ELSE "position"
                /\ \A c \in 1 .. 4 : \A lane \in DOMAIN effect.values[c] :
                       effect.values[c][lane] = case.values[probe.stored[c]]
=============================================================================
