--------------------------- MODULE ShaderCreation ---------------------------
(***************************************************************************)
(* sceAgcCreateShader: how a shader header in guest memory is parsed, how   *)
(* its preparation is planned and how the created shader is registered      *)
(* (agc_shader_binary.cpp, sce_agc_create_shader.cpp,                       *)
(* sce_agc_shader_preparation.cpp, sce_agc_shader_registry.cpp).            *)
(*                                                                          *)
(* Guest memory is a function from addresses to cells of 32 bits, and       *)
(* every offset of the header is the code's own, counted in cells.  A cell  *)
(* is below CellBase, an address or a pointer takes two cells.  A failing   *)
(* function returns Refused.                                                *)
(***************************************************************************)
EXTENDS Integers, Sequences, SequencesExt, FiniteSets

CONSTANTS CellBase,     \* 2^32
          MaxCell,      \* the last address of the guest
          Readable, Writable, Executable, \* what the prepared memory admits
          CodeAlign,    \* alignment of a program
          LowWidth, HighWidth, \* values of PGM_LO and of PGM_HI
          Undecodable   \* cells lower_rdna2_stream_to_shader_ir refuses

ASSUME CellBaseAssumption == CellBase \in Nat /\ CellBase > MaxCell
ASSUME RangesAssumption == Readable \cup Writable \cup Executable \subseteq 0 .. MaxCell

Refused == [ok |-> FALSE]
Cells(address, count) == address .. address + count - 1

\* ranges_overlap: a range that ends beyond the address space overlaps all.
Overlap(a, m, b, n) ==
    /\ m # 0 /\ n # 0
    /\ a + m > MaxCell \/ b + n > MaxCell \/ (a < b + n /\ b < a + m)

MaxWord == CellBase * CellBase - 1
Word(cells, i) == cells[i] + CellBase * cells[i + 1]
AsWord(value) == <<value % CellBase, value \div CellBase>>

\* GuestMemoryAccess, as far as it matters here.
ReadAdmitted(address, count) == Cells(address, count) \subseteq Readable
WriteAdmitted(address, count) == Cells(address, count) \subseteq Writable

-----------------------------------------------------------------------------
(* parse_agc_shader_binary. *)

HeaderMinimum == 24
TextTrailer == 12
TrailerProgramLength == 5
UserDataField == 2
CodeField == 4
ContextRegistersField == 6
ShaderRegistersField == 8
SpecialsField == 10
InputSemanticsField == 12
OutputSemanticsField == 14
HeaderSizeCell == 16
TextSizeCell == 17
UserDataPointers == 5
Magic == 7
Version == 3

\* Cell 22 holds the program type and, above it, the number of context
\* registers; cell 23 the number of shader registers.
TypeCell(type, context_count) == type + 4 * context_count
ProgramType(header) == header[22] % 4
Stage == [t \in {1, 2} |-> IF t = 1 THEN "pixel" ELSE "geometry"]

parse_register_list(header, size, field, count) ==
    LET offset == field + Word(header, field)
    IN  IF count = 0 THEN [ok |-> TRUE, found |-> FALSE, offset |-> 0]
        ELSE IF offset + 2 * count > size THEN Refused
        ELSE [ok |-> TRUE, found |-> TRUE, offset |-> offset]

\* The header and the text are snapshots indexed from 0.
parse_agc_shader_binary(header, size, text, text_size) ==
    LET context == parse_register_list(header, size, ContextRegistersField,
                                       header[22] \div 4)
        shader == parse_register_list(header, size, ShaderRegistersField, header[23])
        length == text[text_size - TextTrailer + TrailerProgramLength]
    IN  IF \/ header[0] # Magic \/ ~context.ok \/ ~shader.ok
           \/ length > text_size - TextTrailer
        THEN Refused
        ELSE [ok |-> TRUE, header |-> header, size |-> size, text_size |-> text_size,
              type |-> ProgramType(header), context |-> context, shader |-> shader,
              program |-> [i \in 1 .. length |-> text[i - 1]]]

\* Mutant: a pointer beyond the header's own address is taken for one that has
\* been prepared already, and is made relative again.
AcceptPrepared(memory, call) ==
    LET h == call.header
        size == memory[h + HeaderSizeCell]
        text_size == memory[h + TextSizeCell]
        relative(i) == IF i \in {2, 6, 8, 10, 12, 14} /\ memory[h + i] >= h
                       THEN memory[h + i] - h - i ELSE memory[h + i]
    IN  IF \/ h = 0 \/ call.text = 0 \/ ~ReadAdmitted(h, HeaderMinimum) THEN Refused
        ELSE IF \/ size < HeaderMinimum \/ text_size < TextTrailer
                \/ ~ReadAdmitted(h, size) \/ ~ReadAdmitted(call.text, text_size)
        THEN Refused
        ELSE parse_agc_shader_binary([i \in 0 .. size - 1 |-> relative(i)], size,
                                     [i \in 0 .. text_size - 1 |-> memory[call.text + i]],
                                     text_size)

\* plan_sce_agc_create_shader: the header is read twice, first its minimum.
plan_sce_agc_create_shader(memory, call) ==
    LET size == memory[call.header + HeaderSizeCell]
        text_size == memory[call.header + TextSizeCell]
    IN  IF \/ call.header = 0 \/ call.text = 0
           \/ ~ReadAdmitted(call.header, HeaderMinimum)
        THEN Refused
        ELSE IF \/ size < HeaderMinimum \/ text_size < TextTrailer
                \/ ~ReadAdmitted(call.header, size) \/ ~ReadAdmitted(call.text, text_size)
        THEN Refused
        ELSE parse_agc_shader_binary([i \in 0 .. size - 1 |-> memory[call.header + i]], size,
                                     [i \in 0 .. text_size - 1 |-> memory[call.text + i]],
                                     text_size)

-----------------------------------------------------------------------------
(* plan_sce_agc_shader_preparation. *)

\* resolve_self_relative_pointer: no pointer, or the offset it points to.
resolve_self_relative_pointer(header, size, base, field) ==
    IF field + 2 > size THEN Refused
    ELSE LET raw == Word(header, field)
             target == field + raw
         IN  IF raw = 0 THEN [ok |-> TRUE, some |-> FALSE]
             ELSE IF target > MaxWord \/ target > size \/ base + target > MaxCell
             THEN Refused
             ELSE [ok |-> TRUE, some |-> TRUE, target |-> target]

Patch(address, cells) == [address |-> address, cells |-> cells]

\* append_pointer_patch, for a pointer that is there.
PointerPatch(base, field, pointer) ==
    IF pointer.some THEN <<Patch(base + field, AsWord(base + pointer.target))>> ELSE <<>>

\* Mutant: the patches are not compared with each other.
AnyPatches(patches) == TRUE

\* append_patch refuses a patch that overlaps an earlier one.
Disjoint(patches) ==
    \A i, j \in DOMAIN patches :
        i < j => ~Overlap(patches[i].address, Len(patches[i].cells),
                          patches[j].address, Len(patches[j].cells))

\* The offsets of the registers PGM_LO and PGM_HI of a stage.
pgm_registers == [pixel |-> <<8, 9>>, geometry |-> <<72, 73>>]

\* The profile of the shader, its program's address and the caller's variable.
ProfileAdmitted(call, shader) ==
    /\ call.output # 0 /\ shader.header[1] = Version /\ shader.type \in DOMAIN Stage
    /\ call.text % CodeAlign = 0 /\ call.text < CodeAlign * LowWidth * HighWidth
    /\ shader.context.found /\ shader.shader.found
    /\ shader.header[23] >= 2
    /\ LET list == shader.shader.offset
       IN  <<shader.header[list], shader.header[list + 2]>> = pgm_registers[Stage[shader.type]]
    /\ ~Overlap(call.output, 2, call.header, shader.size)
    /\ ~Overlap(call.output, 2, call.text, shader.text_size)

\* The pointers of the header, and the table of user data if there is one.
Resolved(call, shader) ==
    [f \in {UserDataField, ContextRegistersField, ShaderRegistersField, SpecialsField,
            InputSemanticsField, OutputSemanticsField} |->
        resolve_self_relative_pointer(shader.header, shader.size, call.header, f)]

PointersAdmitted(shader, pointers) ==
    /\ \A f \in DOMAIN pointers : pointers[f].ok
    /\ LET context == pointers[ContextRegistersField]
           registers == pointers[ShaderRegistersField]
           user_data == pointers[UserDataField]
       IN  /\ context.some /\ context.target = shader.context.offset
           /\ registers.some /\ registers.target = shader.shader.offset
           /\ user_data.some => user_data.target + 2 * UserDataPointers <= shader.size

NestedPointers(call, shader, user_data) ==
    [i \in 1 .. (IF user_data.some THEN UserDataPointers ELSE 0) |->
        LET field == user_data.target + 2 * (i - 1)
        IN  [field |-> field,
             pointer |-> resolve_self_relative_pointer(shader.header, shader.size,
                                                       call.header, field)]]

HeaderPatches(call, pointers, nested) ==
    LET patch(field) == PointerPatch(call.header, field, pointers[field])
    IN  patch(UserDataField)
        \o <<Patch(call.header + CodeField, AsWord(call.text))>>
        \o patch(ContextRegistersField) \o patch(ShaderRegistersField)
        \o patch(SpecialsField) \o patch(InputSemanticsField) \o patch(OutputSemanticsField)
        \o FlattenSeq([i \in DOMAIN nested |->
                          PointerPatch(call.header, nested[i].field, nested[i].pointer)])

\* The values of PGM_LO and PGM_HI and, last, the caller's handle.
ProgramPatches(call, shader) ==
    LET list == call.header + shader.shader.offset
    IN  <<Patch(list + 1, <<(call.text \div CodeAlign) % LowWidth>>),
          Patch(list + 3, <<(call.text \div (CodeAlign * LowWidth)) % HighWidth>>),
          Patch(call.output, AsWord(call.header))>>

plan_sce_agc_shader_preparation(call, shader) ==
    LET pointers == Resolved(call, shader)
        nested == NestedPointers(call, shader, pointers[UserDataField])
        patches == HeaderPatches(call, pointers, nested) \o ProgramPatches(call, shader)
    IN  IF /\ ProfileAdmitted(call, shader)
           /\ PointersAdmitted(shader, pointers)
           /\ \A i \in DOMAIN nested : nested[i].pointer.ok
           /\ call.header + shader.shader.offset + 3 <= MaxCell
           /\ Disjoint(patches)
        THEN [ok |-> TRUE, patches |-> patches]
        ELSE Refused

-----------------------------------------------------------------------------
(* The registry and the application of a plan. *)

materialize_created_agc_shader(call, shader) ==
    IF \E i \in DOMAIN shader.program : shader.program[i] \in Undecodable THEN Refused
    ELSE [ok |-> TRUE,
          value |-> [handle |-> call.header, code |-> call.text,
                     stage |-> Stage[shader.type], program |-> shader.program]]

rollback_last_registration(shaders, index) ==
    IF index = Len(shaders) THEN SubSeq(shaders, 1, index - 1) ELSE shaders

Written(memory, patch) ==
    [a \in DOMAIN memory |->
        IF a \in Cells(patch.address, Len(patch.cells))
        THEN patch.cells[a - patch.address + 1] ELSE memory[a]]

\* Every patch is preflighted before the first is written; a write that fails
\* all the same leaves the n patches before it in memory.
apply_sce_agc_shader_preparation(memory, patches) ==
    IF \E i \in DOMAIN patches :
           ~WriteAdmitted(patches[i].address, Len(patches[i].cells))
    THEN {[ok |-> FALSE, memory |-> memory]}
    ELSE {[ok |-> n = Len(patches),
           memory |-> FoldLeft(Written, memory, SubSeq(patches, 1, n))] :
             n \in 0 .. Len(patches)}
=============================================================================
