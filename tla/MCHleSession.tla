---------------------------- MODULE MCHleSession ----------------------------
(***************************************************************************)
(* A guest with one program at 80, a stack at 100, and a header at 40 that  *)
(* is no longer than its address or one at 8 that is longer.  A             *)
(* header has room for its fixed part (cells 0 to 23), a table of user data *)
(* (24 to 33), one context register (34) and two shader registers (36), and *)
(* the pointers of a template may make them lie over each other.            *)
(***************************************************************************)
EXTENDS HleSession

MCReadable == 8 .. 107
MCWritable == (8 .. 28) \cup (40 .. 107)
MCExecutable == {4}
MCUndecodable == {99}

Header == 40
LowHeader == 8
Text == 80

\* r: user_data, context, shader, specials, inputs, outputs (relative
\* pointers), nested (the five of the table), type, counts, registers, size.
HeaderAt(base, r) ==
    LET fixed == [i \in 0 .. 39 |->
            CASE i = 0 -> r.magic [] i = 1 -> r.version
              [] i = 2 -> r.user_data [] i = 6 -> r.context [] i = 8 -> r.shader
              [] i = 10 -> r.specials [] i = 12 -> r.inputs [] i = 14 -> r.outputs
              [] i = 16 -> r.size [] i = 17 -> r.text_size
              [] i = 22 -> TypeCell(r.type, r.context_count)
              [] i = 23 -> r.shader_count
              [] i \in {24, 26, 28, 30, 32} -> r.nested[(i - 24) \div 2 + 1]
              [] i = 34 -> 3 [] i = 35 -> 5
              [] i = 36 -> r.registers[1] [] i = 38 -> r.registers[2]
              [] OTHER -> 0]
    IN  [a \in base .. base + 39 |-> fixed[a - base]]
HeaderCells(r) == HeaderAt(Header, r)

Good == [magic |-> Magic, version |-> Version, user_data |-> 22, context |-> 28,
         shader |-> 28, specials |-> 14, inputs |-> 0, outputs |-> 26, size |-> 40,
         text_size |-> 14, type |-> 1, context_count |-> 1, shader_count |-> 2,
         nested |-> <<10, 14, 0, 0, 8>>, registers |-> <<8, 9>>]

\* The tables and lists of a header in every relative position ...
Geometries ==
    {[Good EXCEPT !.user_data = u, !.shader = s, !.context = c,
                  !.specials = p[1], !.inputs = p[2], !.nested = n] :
        u \in {0, 8, 22, 28, 29}, s \in {2, 28, 29}, c \in {28, 30},
        p \in {<<14, 0>>, <<8, 9>>, <<30, 28>>, <<31, 0>>},
        n \in {<<10, 14, 0, 0, 8>>, <<0, 0, 0, 0, 0>>, <<0, 0, 0, 0, 9>>}}

\* ... and one field of a good header at a time.
Variations ==
    {[Good EXCEPT !.magic = 6], [Good EXCEPT !.version = 4], [Good EXCEPT !.type = 0],
     [Good EXCEPT !.type = 2], [Good EXCEPT !.type = 2, !.registers = <<72, 73>>],
     [Good EXCEPT !.registers = <<9, 8>>], [Good EXCEPT !.context_count = 0],
     [Good EXCEPT !.shader_count = 0], [Good EXCEPT !.shader_count = 1],
     [Good EXCEPT !.context = 0], [Good EXCEPT !.context = 0, !.context_count = 0],
     [Good EXCEPT !.size = 20], [Good EXCEPT !.size = 39], [Good EXCEPT !.size = 60],
     [Good EXCEPT !.size = 70],
     [Good EXCEPT !.text_size = 11], [Good EXCEPT !.text_size = 13],
     [Good EXCEPT !.text_size = 60], [Good EXCEPT !.outputs = 27]}

\* The low header has a second list of registers, where the pointer to the first
\* one leads once it is absolute.
LowCells ==
    HeaderAt(LowHeader, [Good EXCEPT !.user_data = 0, !.specials = 0, !.outputs = 0,
                                     !.size = 60])
        @@ (LowHeader + 52 :> 8) @@ (LowHeader + 54 :> 9)

\* The stack holds an executable return address and one that is not; the
\* program of two cells ends with its trailer.
Surroundings ==
    [a \in 0 .. 109 |-> CASE a = 100 -> 4 [] a = 102 -> 5 [] a = Text -> 1
                          [] a = Text + 1 -> 2 [] a = Text + 2 + TrailerProgramLength -> 2
                          [] OTHER -> 0]

MCInitialMemories ==
    {HeaderCells(r) @@ Surroundings : r \in Geometries \cup Variations}
    \cup {LowCells @@ Surroundings}
MCInitialContext == [rip |-> 4, rsp |-> 104]

\* Nothing; a new header; another program; a stray write to the header.
MCGuestEffects ==
    {<< >>, HeaderCells([Good EXCEPT !.type = 2, !.registers = <<72, 73>>]),
     (Text :> 99), (Header + 15 :> 0)}

Gate(slot, rsp, arguments) ==
    [reason |-> "host_gate", slot |-> slot, rip |-> 1, rsp |-> rsp, arguments |-> arguments]

\* Output variables free, read-only, null, in the header, at its edges and in the text.
MCGuestStops ==
    {Gate(0, 100, <<o, Header, Text>>) : o \in {20, 30, 0, 45, 39, Text + 13, Text + 14}}
    \cup {Gate(0, 100, <<70, LowHeader, Text>>)}
    \cup {Gate(0, 100, <<20, h, Text>>) : h \in {0, 4, 60}}
    \cup {Gate(0, 100, <<20, Header, t>>) : t \in {0, 81, 96, 16}}
    \cup {Gate(0, rsp, <<20, Header, Text>>) : rsp \in {102, 107, 108}}
    \cup {Gate(1, 100, <<20, 2, 0>>), Gate(1, 100, <<107, 2, 0>>),
          Gate(1, 100, <<107, 0, 0>>),
          Gate(2, 100, <<7, 0, 0>>), Gate(3, 100, <<0, 0, 0>>), Gate(5, 100, <<0, 0, 0>>)}
    \cup {[NoStop EXCEPT !.reason = r] : r \in {"guest_fault", "registered_syscall_trap"}}

MCBindings == (0 :> "CreateShader" @@ 1 :> "TestWrite" @@ 2 :> "TestExit" @@ 3 :> "Other")
=============================================================================
