-------------------------- MODULE MCShaderExecution --------------------------
(* Streams of RDNA2 words, the waves they run on and their budgets. *)
EXTENDS ShaderExecution

Word(high, low) == (high - 65536) * 65536 + low
Sopp(opcode, simm16) == Word(383 * 128 + opcode, simm16 % 65536)
Sop1(opcode, destination, source) == Word(381 * 128 + destination, opcode * 256 + source)
Vop1(opcode, destination, source) == 63 * 2^25 + destination * 2^17 + opcode * 2^9 + source
Vop2(opcode, destination, source0, source1) ==
    opcode * 2^25 + destination * 2^17 + source1 * 2^9 + source0
Exp(target, flags) == Word(62 * 1024, flags * 1024 + target * 16 + 15)
Done == 2
Registers(a, b, c, d) == a + b * 256 + c * 65536 + d * 16777216

Nop == Sopp(0, 0)
End == Sopp(1, 0)
Move == Sop1(3, 0, 133)
Literal == Sop1(3, 0, 255)
Branch(n) == Sopp(2, n)

\* Every kind of instruction, and operands that are not lowered.
Menu ==
    {Nop, End, Branch(-2), Branch(-1), Branch(0), Branch(1), Sopp(10, 0), Sopp(12, -1),
     Sopp(3, 0), Move, Literal, Vop1(1, 2, 256), Vop1(1, 0, 255), Vop1(2, 0, 256),
     Vop2(3, 0, 256, 1), Vop2(3, 0, 5, 1), Vop2(4, 0, 256, 1), Exp(12, Done), Exp(40, 0),
     Exp(10, 0), Word(50000, 0), Sop1(4, 0, 2), Sop1(4, 1, 2), Sop1(4, 0, 104),
     Sop1(3, 110, 1), Sop1(3, 1, 220), Sop1(5, 0, 0)}
    \cup {Sopp(opcode, 0) : opcode \in 4 .. 9}
    \cup {Sop1(3, 1, source) : source \in {2, 106, 107, 124, 125, 126, 127, 208}}
Control == {Nop, End, Branch(-2), Branch(1), Sopp(4, -3), Sopp(5, 1), Move, Literal}
Small == {Nop, End, Branch(-1), Sopp(4, 0), Move}
Others == {<<Nop, End>>, <<Branch(0), Nop>>, <<Sopp(4, -1), Nop>>, <<Sopp(5, 0), Nop>>,
           <<Nop, Nop, Branch(-2)>>, <<Branch(1), Nop, End>>, <<Sopp(4, 0), Nop, Nop>>}

Programs(menu, lengths) == UNION {[1 .. n -> menu] : n \in lengths}

Scalar(scc, vcc, exec) ==
    [sgprs |-> [i \in {2, 3} |-> i], scc |-> scc, vcc |-> vcc, exec |-> exec, m0 |-> 1]
Low == Scalar(FALSE, 0, 3)
High == Scalar(TRUE, 2, 2)
Off == Scalar(FALSE, 1, 0)

\* Register 0 and 1 of each lane.
Vector(size, first, second) ==
    [wave_size |-> size,
     vgprs |-> [r \in {0, 1} |-> IF r = 0 THEN first ELSE second]]
Lane(a, b) == [lane \in Lanes |-> IF lane = 0 THEN a ELSE b]
Waves == {Vector("wave32", Lane(12, 0), Lane(12, 0)), Vector("wave64", Lane(12, 0), Lane(12, 0)),
          Vector("wave64", Lane(12, 13), Lane(12, 9)),
          Vector("unspecified", Lane(12, 0), Lane(12, 0))}
Wave == Vector("wave64", Lane(12, 13), Lane(12, 9))

Unbound == [stage |-> "fragment", bindings |-> << >>]
Values == [position_x |-> 9, position_y |-> 18, zero |-> 0, one |-> 12]
Case(words, s, v, budget) ==
    [words |-> words, graph_words |-> words, scalar |-> s, vector |-> v, executor |-> "wave",
     entry |-> 0, budget |-> budget, memory |-> "ample", abi |-> Unbound, values |-> Values]

MixedCases(budget) ==
    {Case(w, s, v, budget) : w \in Programs(Menu, {1, 2}), s \in {Low, High}, v \in {Wave}}
    \cup {[Case(<<w, Move, End>>, s, v, budget) EXCEPT !.executor = x] :
             w \in Menu, s \in {Low, High, Off}, v \in Waves, x \in {"wave", "scalar"}}
ControlCases(budget) ==
    {Case(w, s, Wave, budget) : w \in Programs(Control, {0, 3, 4}), s \in {Low, High}}
    \cup {[Case(w, s, Wave, budget) EXCEPT !.entry = e, !.budget = b] :
             w \in Programs(Small, {2, 3}), s \in {Low, High}, e \in {1, 3}, b \in {0, 2}}
    \cup {[Case(w, Low, Wave, budget) EXCEPT !.memory = "scarce"] : w \in Programs(Small, {2, 3})}
ForeignCases(budget) ==
    {[Case(w, s, Wave, budget) EXCEPT !.graph_words = g] :
        w \in Programs(Small, {2, 3}), s \in {Low, High}, g \in Others}
AddCases(budget) ==
    {Case(<<Vop2(3, 2, 256, 1), Vop1(1, 0, 258), End>>, Low,
          Vector("wave64", Lane(a, 12), Lane(b, 12)), budget) : a \in Words, b \in Words}

Bound(abi) ==
    [wave_size |-> "wave64",
     vgprs |-> [r \in {abi.bindings[i].vgpr : i \in DOMAIN abi.bindings} |->
                   [lane \in Lanes |-> Values[abi.bindings[Min(find_binding(abi, r))].source]]]]
Abis ==
    {make_fullscreen_position_probe_launch_abi, make_magenta_fragment_probe_launch_abi,
     Bindings("fragment", <<"zero", "one", "one", "one">>),
     [make_magenta_fragment_probe_launch_abi EXCEPT !.bindings[2].vgpr = 0],
     [make_magenta_fragment_probe_launch_abi EXCEPT !.bindings[4].vgpr = 7]}
ProbeCases(budget) ==
    {[Case(<<Exp(t, f), r, last>>, Low, Bound(abi), budget) EXCEPT !.abi = abi] :
        t \in {0, 1, 12}, f \in {0, 1, Done, 6},
        r \in {Registers(0, 1, 2, 3), Registers(1, 0, 2, 3), Registers(2, 1, 0, 0),
               Registers(0, 1, 2, 7)},
        last \in {End, Nop}, abi \in Abis}

MCCaseFamilies ==
    <<MixedCases(3), ControlCases(3), ForeignCases(3), AddCases(3), ProbeCases(3)>>
=============================================================================
