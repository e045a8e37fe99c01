--------------------------- MODULE MCGuestLinking ---------------------------
(* Images without a dynamic section: up to three headers over the first      *)
(* sixteen addresses, two of them free and a third that can lie across both. *)
(* Images with one: code, a segment of tables, data, and room for gates.     *)
EXTENDS GuestLinking

Load(address, offset, file_size, memory_size, flags) ==
    [address |-> address, offset |-> offset, file_size |-> file_size,
     memory_size |-> memory_size, flags |-> flags, alignment |-> 1]
R == {"read"}
RW == {"read", "write"}
RX == {"read", "execute"}

Code == {Load(a, 0, f, 2, x) : a \in {0, 2, 3, 4}, f \in {0, 2}, x \in {RX, {"execute"}}}
Data == {Load(a, o, f, f + z, w) : a \in {2, 3, 5, 6}, o \in {0, 1}, f \in 0 .. 2,
                                   z \in {0, 2}, w \in {R, RW}}
Wide == {{}, {Load(1, 0, 2, 7, R)}, {Load(4, 1, 3, 3, RW)}, {Load(3, 0, 0, 6, {"write"})},
         {Load(29, 0, 0, 3, R)}}

Indexed(seq) == {[index |-> i] @@ seq[i] : i \in DOMAIN seq}
InOrder(loads) == Indexed(SetToSortSeq(loads, LAMBDA l, r : l.address < r.address))
OutOfOrder == Indexed(<<Load(4, 0, 1, 1, RX), Load(2, 0, 1, 1, RW)>>)
OutOfFile == Indexed(<<Load(4, FileSize - 1, 2, 2, RX)>>)
Aligned == {Indexed(<<[Load(2, o, 1, 2, RX) EXCEPT !.alignment = n]>>) :
               o \in 0 .. 2, n \in {0, 2, 3, 4}}

Program(headers, file, segments) ==
    [headers |-> headers, file |-> file, segments |-> segments, linked |-> FALSE]
Static == {Program(headers, [i \in 1 .. FileSize |-> Blank], <<>>) :
              headers \in {InOrder({c, d} \cup w) : c \in Code, d \in Data, w \in Wide}
                          \cup {OutOfOrder, OutOfFile} \cup Aligned}

\* Stacks low, high and at the very end.
MCSettings(program) ==
    IF program.segments = <<>>
    THEN {[stack |-> stack, entry |-> e[1], page_size |-> e[2]] :
             stack \in {Extent(9, 2), Extent(30, 2), Extent(7, 1)},
             e \in {<<3, 2>>, <<8, 2>>, <<3, 4>>}}
    ELSE {[stack |-> Extent(3, 1), entry |-> 4, page_size |-> 2]}

-----------------------------------------------------------------------------
(* Gates and modules. *)

Function(id, name, arguments) == [id |-> id, name |-> name, arguments |-> arguments]
Binding(piece, function) == [identity |-> <<piece>>, function |-> function]
Gate(slot, function) == [slot |-> slot, function |-> function]

Setup == [descriptors |-> <<Function(1, "f", 0), Function(2, "g", 1)>>,
          bindings |-> <<Binding("F", 1), Binding("G", 2)>>,
          base |-> 26, slot_count |-> 2, gates |-> <<Gate(0, 1), Gate(1, 2)>>,
          reserved |-> {}]
MCGateSetups ==
    {Setup,
     [Setup EXCEPT !.gates = <<Gate(1, 1), Gate(0, 1)>>],
     [Setup EXCEPT !.bindings = <<Binding("G", 1)>>],
     [Setup EXCEPT !.descriptors = <<Function(0, "f", 0), Function(2, "g", 1)>>],
     [Setup EXCEPT !.descriptors = <<Function(1, "f", 0), Function(2, "f", 1)>>],
     [Setup EXCEPT !.bindings = <<Binding("F", 3)>>],
     [Setup EXCEPT !.bindings = <<Binding("F", 1), Binding("F", 2)>>],
     [Setup EXCEPT !.base = 24], [Setup EXCEPT !.base = 29],
     [Setup EXCEPT !.slot_count = 0], [Setup EXCEPT !.slot_count = 1],
     [Setup EXCEPT !.gates = <<Gate(1, 1), Gate(1, 2)>>],
     [Setup EXCEPT !.reserved = {Extent(29, 1)}]}

Export(piece, address) == [identity |-> <<piece>>, address |-> address]
Module(key, dependencies, exports) ==
    [key |-> key, dependencies |-> dependencies, exports |-> exports]
Main == Module("main", <<"lib">>, <<Export("F", 3)>>)
Lib == Module("lib", <<>>, <<Export("F", 12), Export("G", 13)>>)
Modules == <<Main, Lib>>
MCGraphs ==
    {Modules, <<Lib, Module("main", <<>>, <<>>)>>, <<Main>>, <<Main, Main>>,
     <<Main, Lib, Module("third", <<>>, <<>>)>>,
     <<Main, Module("", <<>>, <<>>)>>,
     <<Module("main", <<"lib", "lib">>, <<>>), Lib>>,
     <<Main, Module("lib", <<>>, <<Export("F", 0)>>)>>,
     <<Main, Module("lib", <<>>, <<Export("F", 12), Export("F", 13)>>)>>}
-----------------------------------------------------------------------------
(* Tables at 6: two relocations, three symbols of two cells, strings.        *)

Cell(fields) == fields @@ Blank
RelocationHead(target, type, symbol) ==
    Cell([target |-> target, type |-> type, symbol |-> symbol])
Symbol(name, binding, section) ==
    Cell([name |-> name, binding |-> binding, section |-> section])
Text(pieces) == [i \in DOMAIN pieces |-> Cell([piece |-> pieces[i]])]
Addend(n) == Cell([addend |-> n])

TablesAt == 6
LinkHeaders(top) ==
    Indexed(<<Load(4, 0, 2, 2, RX), Load(TablesAt, 0, 14, 14, R), Load(22, 0, 2, 4, RW)>>
            \o IF top = 0 THEN <<>> ELSE <<Load(top, 0, 0, 2, RW)>>)

LinkFile(first, second, addends, symbols, pieces) ==
    <<first, Addend(addends[1]), second, Addend(addends[2]), Blank, Blank,
      symbols[1], Blank, symbols[2], Blank>> \o Text(pieces) \o <<Blank, Blank>>

Names == <<"F", "nul", "G", "nul">>
Imports == <<Symbol(0, "global", 0), Symbol(2, "weak", 0)>>
SymbolTables ==
    {[symbols |-> Imports, pieces |-> Names],
     [symbols |-> Imports, pieces |-> <<"F", "plain", "G", "nul">>],
     [symbols |-> Imports, pieces |-> <<"broken", "nul", "plain", "nul">>],
     [symbols |-> <<Symbol(0, "local", 0), Symbol(2, "global", 1)>>, pieces |-> Names],
     [symbols |-> <<Symbol(2, "global", 0), Symbol(4, "global", 0)>>, pieces |-> Names]}

Common == <<Entry("strtab", 16), Entry("strsz", 4), Entry("symtab", 10),
            Entry("syment", 2), Entry("symtabsz", 6)>>
Rela == <<Entry("rela", 6), Entry("relasz", 4), Entry("relaent", 2)>>
Plt == <<Entry("jmprel", 6), Entry("pltrelsz", 4), Entry("pltrel", "rela")>>
Rel == <<Entry("rel", 6), Entry("relsz", 1), Entry("relent", 1)>>
Null == <<Entry("null", 0)>>

Linked(program, setup, declarations) ==
    [program EXCEPT !.linked = TRUE]
        @@ [setup |-> setup, declarations |-> declarations]
RelativePrograms ==
    {Linked(Program(
                LinkHeaders(top),
                LinkFile(RelocationHead(t, "relative", 0), RelocationHead(u, "relative", 0),
                         <<1, n>>, Imports, Names),
                <<Common \o Rela \o Null>>),
            Setup, Modules) :
        top \in {28, 30}, t \in {22, 24, 28}, u \in {23, 24, 28, 29, 11}, n \in {-1, 1, 2}}
ImportProgram(targets, second, type, table) ==
    Program(
        LinkHeaders(0),
        LinkFile(RelocationHead(targets[1], type, 1), RelocationHead(targets[2], type, second),
                 <<0, 0>>, table.symbols, table.pieces),
        <<Common \o (IF type = "glob_dat" THEN Rela ELSE Plt) \o Null>>)
Usual == [symbols |-> Imports, pieces |-> Names]
ImportPrograms ==
    {Linked(ImportProgram(<<22, 24>>, 2, type, table), Setup, Modules) :
        type \in {"glob_dat", "jump_slot"}, table \in SymbolTables}
    \cup {Linked(ImportProgram(<<22, 24>>, 2, "glob_dat", Usual), setup, Modules) :
            setup \in MCGateSetups}
    \cup {Linked(ImportProgram(<<22, 24>>, 2, "jump_slot", Usual), Setup, declarations) :
            declarations \in MCGraphs}
    \cup {Linked(ImportProgram(<<t, u>>, second, type, Usual), Setup, Modules) :
            t \in {22, 11}, u \in {23, 24, 19}, second \in {1, 2, 3},
            type \in {"glob_dat", "jump_slot"}}

-----------------------------------------------------------------------------
(* One entry of a dynamic section missing, changed, or there twice.          *)

Whole == {Common \o Rela, Common \o Plt, Common \o Rel,
          Common \o <<Entry("soname", 0), Entry("needed", 0)>>, Rela}
Other(entry) == IF entry.tag = "pltrel" THEN Entry("pltrel", "other")
                ELSE Entry(entry.tag, entry.value + 1)
Damaged ==
    UNION {{RemoveAt(e, i) : i \in DOMAIN e}
           \cup {[e EXCEPT ![i] = Other(e[i])] : i \in DOMAIN e}
           \cup {Append(e, e[i]) : i \in DOMAIN e}
           \cup {Append(e, Other(e[i])) : i \in DOMAIN e}
           \cup {e} : e \in Whole}
AnyFile == LinkFile(RelocationHead(22, "relative", 0), RelocationHead(24, "glob_dat", 2), <<1, 1>>, Imports, Names)
DamagedPrograms ==
    {Program(LinkHeaders(0), AnyFile, segments) :
        segments \in {<<e \o Null>> : e \in Damaged} \cup {<<Common>>, <<Null, Null>>}}

-----------------------------------------------------------------------------
(* Symbols at 6 or across the end of the segment, and a GNU hash at 12.      *)

Word(n) == Cell([word |-> n])
HashPrograms ==
    {Program(
        Indexed(<<Load(4, 0, 2, 2, RX), Load(TablesAt, 0, 16, 16, R)>>),
        <<Blank, Blank, Symbol(0, "global", 0), Blank, Symbol(0, "global", 0), Blank,
          Word(header[1]), Word(header[2]), Word(header[3]), Blank, Blank, Blank,
          Word(b), Word(c), Word(d), Word(e)>>,
        <<<<Entry("symtab", source[1]), Entry("syment", 2), Entry("gnu_hash", 12)>>
          \o source[2] \o Null>>) :
        header \in {<<2, 1, 1>>, <<2, 2, 1>>, <<1, 1, 1>>, <<0, 1, 1>>, <<3, 1, 1>>,
                    <<2, 0, 1>>, <<2, 1, 3>>},
        b \in 0 .. 4, c \in 0 .. 3, d \in 0 .. 1, e \in 0 .. 1,
        source \in {<<6, <<>>>>, <<19, <<>>>>, <<6, <<Entry("symtabsz", 4)>>>>,
                    <<6, <<Entry("hash", 12)>>>>}}

MCPrograms ==
    Static \cup RelativePrograms \cup ImportPrograms \cup DamagedPrograms
    \cup HashPrograms
=============================================================================
