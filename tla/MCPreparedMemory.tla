-------------------------- MODULE MCPreparedMemory --------------------------
(* Two guests over seven pages, written out so that TLC does not plan them   *)
(* again in every state; GuestsAssumption compares them with the plans.  The *)
(* first has a code page, then a gap, a data page and its stack, the second  *)
(* fits in the gap: objects of both coexist, two of the same one cannot.     *)
EXTENDS PreparedMemory, TLC

SlotAndKeySymmetry == Permutations(Slots) \cup Permutations(Keys)

Segment(i, address, size, flags) ==
    [index |-> i, address |-> address, offset |-> 0, file_size |-> 1,
     memory_size |-> size, flags |-> flags, alignment |-> 1]
Byte(source, base, kind, permissions) ==
    [range |-> Extent(base, 1), offset |-> 0, kind |-> kind,
     permissions |-> permissions, source |-> source]
Region(base, permissions, source) ==
    [range |-> Extent(base, PageSize), permissions |-> permissions, sources |-> {source}]

RX == {"read", "execute"}
RW == {"read", "write"}
X == {"execute"}

MCGuests ==
    <<[headers |-> {Segment(1, 2, 1, RX), Segment(2, 8, 2, RW)},
       image |-> [mappings |-> <<Byte(1, 2, "file", RX), Byte(2, 8, "file", RW),
                                 Byte(2, 9, "zero", RW)>>,
                  stack |-> Extent(10, 2), entry |-> 2, rsp |-> 10],
       regions |-> <<Region(2, RX, 1), Region(8, RW, 2), Region(10, RW, StackSource)>>,
       reservations |-> Success(<<Extent(0, 4), Extent(8, 4)>>)],
      [headers |-> {Segment(1, 4, 1, X)},
       image |-> [mappings |-> <<Byte(1, 4, "file", X)>>,
                  stack |-> Extent(6, 2), entry |-> 4, rsp |-> 7],
       regions |-> <<Region(4, X, 1), Region(6, RW, StackSource)>>,
       reservations |-> Success(<<Extent(4, 4)>>)]>>
=============================================================================
