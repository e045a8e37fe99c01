-------------------------- MODULE GuestImageBuild --------------------------
(***************************************************************************)
(* What happens to an image between the file and the first host mapping:   *)
(* build_guest_image with the tables of its dynamic section, then the plan *)
(* of prepare_linux_guest_memory or prepare_windows_guest_memory, then the *)
(* reservations of the latter.  The operators are those of GuestImagePlan  *)
(* and DynamicTables; the properties compare them with what is said of     *)
(* every byte, every page and every table.                                 *)
(***************************************************************************)
EXTENDS DynamicTables

CONSTANTS Programs,     \* images: PT_LOAD headers, cells of the file and
                        \* PT_DYNAMIC segments
          Settings(_),  \* for an image: storage of the initial stack, entry
                        \* point of the ELF header, host page size
          Granularity,  \* allocation granularity of Windows
          Counts        \* sizes of accesses

VARIABLES request, image, plan, reservations

vars == <<request, image, plan, reservations>>

Pending == Error("pending")

Init ==
    /\ \E program \in Programs : \E setting \in Settings(program) :
           request = program @@ setting
    /\ image = Pending /\ plan = Pending /\ reservations = Pending

\* The stack pointer of build_initial_stack lies in the storage.  An allocation
\* may fail anywhere; what comes last, the TLS template and the initial stack,
\* may be refused.
BuildImage ==
    /\ image = Pending
    /\ \/ \E built \in {build_guest_image(request.headers, request.stack, request.entry,
                                         request.stack.base)},
             entries \in {DynamicEntries(request.segments)} :
             IF ~built.ok THEN image' = built
             ELSE IF ~entries.ok THEN image' = entries
             ELSE \E view \in {InitializedImageView(built.value.mappings, request.file)} :
                  \E tables \in {ReadTables(view, entries.value)} :
                     image' = IF tables.ok
                              THEN Success([tables |-> tables.value] @@ built.value)
                              ELSE tables
       \/ image' = Error("other_failure")
    /\ UNCHANGED <<request, plan, reservations>>

PlanMemory ==
    /\ image.ok /\ plan = Pending
    /\ plan' = build_execution_memory_plan(image.value, request.page_size)
    /\ UNCHANGED <<request, image, reservations>>

Reserve ==
    /\ plan.ok /\ reservations = Pending
    /\ reservations' = build_reservation_ranges(plan.value, Granularity)
    /\ UNCHANGED <<request, image, plan>>

Next == BuildImage \/ PlanMemory \/ Reserve

Spec == Init /\ [][Next]_vars

-----------------------------------------------------------------------------
(* Properties. *)

\* What the readers of the tables of a built image rely on.
TablesCanBeRead(tables) ==
    LET view == tables.view
        symbols == tables.symbols
        entries == parse_dynamic_table(request.segments[1]).value
        hash == ValueOf(entries, "gnu_hash")
        word(i) == read_word(view, hash, i).value
        bucket(i) == word(BucketsAt(word(2)) + i)
        chain(i) == word(BucketsAt(word(2)) + word(0) + (i - word(1)))
    IN  /\ \A kind \in {"rel", "rela", "plt"} :
              LET table == tables[kind]
              IN  table # None => \A index \in 0 .. table.count - 1 :
                      LET record == parse_dynamic_relocation(view, table, index, symbols)
                      IN  IF record.ok
                          THEN record.value.symbol < symbols.symbol_count
                          ELSE record.code \in {"unreadable",
                                                "relocation_symbol_index_out_of_bounds"}
        /\ symbols # None =>
              /\ is_reserved_undefined_symbol(parse_dynamic_symbol(view, symbols, 0).value)
              /\ \A index \in 0 .. symbols.symbol_count - 1 :
                    LET symbol == parse_dynamic_symbol(view, symbols, index)
                    IN  ~symbol.ok => /\ symbol.code = "unreadable"
                                      /\ ~symbols.from_gnu_hash
              /\ symbols.from_gnu_hash => \A i \in 0 .. word(0) - 1 :
                    bucket(i) # 0 =>
                        \E k \in bucket(i) .. symbols.symbol_count - 1 : chain(k) % 2 = 1

\* What is built can be read.  first_mapping_conflict compares each mapping only
\* with those that begin inside it, in sorted order, and that is enough: every
\* byte of every mapping has exactly one source, so copy_bytes cannot fail when
\* memory is prepared, and no mapping reaches into the stack.  No address of a
\* record of a dynamic table overflows, a relocation that parses names a symbol
\* of the table, and although only the chain of the highest bucket of a GNU
\* hash is followed, every chain ends below the count that is taken from it.
BuiltImageInitializes ==
    image.ok =>
        /\ \A i \in DOMAIN image.value.mappings :
            \A a \in BytesOf(image.value.mappings[i].range) :
                /\ read_byte(image.value.mappings, a)
                       = Success(SourceAt(image.value.mappings[i], a))
                /\ ~RangeContains(image.value.stack, a)
        /\ TablesCanBeRead(image.value.tables)

PagePermissions(page) ==
    LET bytes == BytesOf(Extent(page * request.page_size, request.page_size))
        touches(range) == \E a \in bytes : RangeContains(range, a)
    IN  UNION {image.value.mappings[i].permissions :
                  i \in {i \in DOMAIN image.value.mappings :
                            touches(image.value.mappings[i].range)}}
        \cup IF touches(image.value.stack) THEN {"read", "write"} ELSE {}

\* The reservations of a plan are whole granules, no two overlap or touch, and
\* each region lies in one of them: VirtualAlloc can commit the region and one
\* VirtualFree releases it.
ReservationsHoldRegions ==
    reservations.ok =>
        /\ \A i \in DOMAIN reservations.value :
               /\ reservations.value[i].base % Granularity = 0
               /\ reservations.value[i].size % Granularity = 0
        /\ \A i, j \in DOMAIN reservations.value :
               i < j => reservations.value[i].base + reservations.value[i].size
                            < reservations.value[j].base
        /\ \A r \in DOMAIN plan.value : \E i \in DOMAIN reservations.value :
               FullyWithin(reservations.value[i], plan.value[r].range.base,
                           plan.value[r].range.size)

\* The regions build_execution_memory_plan cuts at span boundaries are the
\* pages the image touches: they are disjoint and in order, each page has
\* exactly the union of what touches it, and none is writable and executable.
\* A plan refused for a mixed page has one.  Whatever the plan, the
\* reservations build_reservation_ranges merges on Windows hold its regions.
PlanIsExact ==
    LET pages == 0 .. MaxAddress \div request.page_size
    IN  /\ plan.ok =>
            /\ \A i, j \in DOMAIN plan.value :
                   i < j => plan.value[i].range.base + plan.value[i].range.size
                               <= plan.value[j].range.base
            /\ \A page \in pages :
                   LET holding == {i \in DOMAIN plan.value :
                                      RangeContains(plan.value[i].range,
                                               page * request.page_size)}
                   IN  /\ UNION {plan.value[i].permissions : i \in holding}
                             = PagePermissions(page)
                       /\ ~({"write", "execute"} \subseteq PagePermissions(page))
        /\ ~plan.ok /\ plan.code = "mixed_write_execute_page" =>
            \E page \in pages : {"write", "execute"} \subseteq PagePermissions(page)
        /\ ReservationsHoldRegions

MayAccess(a, permission) ==
    /\ \/ \E i \in DOMAIN image.value.mappings :
              /\ RangeContains(image.value.mappings[i].range, a)
              /\ permission \in image.value.mappings[i].permissions
       \/ RangeContains(image.value.stack, a)
    /\ permission \in PagePermissions(a \div request.page_size)

\* The greedy loop of GuestMemoryAccess::validate admits an access exactly when
\* each of its bytes may be accessed, and names the first byte that may not;
\* a write guest_write_owned_by_plan calls owned is one validate admits, and
\* touches no byte a read-only mapping also covers.
AccessesAreExact ==
    plan.ok => \A permission \in {"read", "write"} :
        LET may == {a \in Addresses : MayAccess(a, permission)}
        IN  \A a \in Addresses, count \in Counts :
            LET admitted == validate(image.value, plan.value, a, count, permission)
                bytes == a .. a + count - 1
                owned == guest_write_owned_by_plan(image.value, plan.value, a, count)
            IN  /\ bytes \subseteq Addresses =>
                    IF bytes \subseteq may THEN admitted.ok
                    ELSE ~admitted.ok /\ admitted.at = Min(bytes \ may)
                /\ ~(bytes \subseteq Addresses) => ~admitted.ok
                /\ owned /\ permission = "write" =>
                    /\ admitted.ok
                    /\ \A i \in DOMAIN image.value.mappings :
                           BytesOf(image.value.mappings[i].range) \cap bytes # {}
                               => "write" \in image.value.mappings[i].permissions
=============================================================================
