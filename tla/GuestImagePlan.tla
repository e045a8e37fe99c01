--------------------------- MODULE GuestImagePlan ---------------------------
(***************************************************************************)
(* From the PT_LOAD headers of an image to the memory a guest may touch:   *)
(* the mapping intents of the headers (memory/mapping.cpp), the overlap    *)
(* checks of build_guest_image, the bytes an initialized view gives        *)
(* (memory/initialized_image_view.cpp), the page-rounded execution plan    *)
(* (execution/memory_plan.cpp), the reservations Windows makes for it and  *)
(* the accesses GuestMemoryAccess::validate admits.                        *)
(*                                                                         *)
(* Addresses are 0 .. MaxAddress, MaxAddress standing for 2^64 - 1.  A     *)
(* byte of an image is told apart only by where it comes from: its offset  *)
(* in the file, or zero fill.  The module has no state.                    *)
(***************************************************************************)
EXTENDS Integers, Sequences, SequencesExt, FiniteSetsExt

CONSTANTS MaxAddress,   \* the last address
          FileSize      \* bytes in the image file

ASSUME MaxAddressAssumption == MaxAddress \in Nat
ASSUME FileSizeAssumption == FileSize \in 0 .. MaxAddress

Addresses == 0 .. MaxAddress
Permissions == {"read", "write", "execute"}

Error(code) == [ok |-> FALSE, code |-> code]
Success(value) == [ok |-> TRUE, value |-> value]

-----------------------------------------------------------------------------
(* GuestRange. *)

Extent(base, size) == [base |-> base, size |-> size]
Create(base, size) == size = 0 \/ base <= MaxAddress - (size - 1)
RangeContains(range, address) ==
    range.size # 0 /\ address >= range.base /\ address - range.base < range.size
Overlaps(left, right) ==
    /\ left.size # 0 /\ right.size # 0
    /\ RangeContains(left, right.base) \/ RangeContains(right, left.base)
BytesOf(range) == range.base .. range.base + range.size - 1

-----------------------------------------------------------------------------
(* Mapping intents. *)

Intent(base, size, header, kind) ==
    [range |-> Extent(base, size), permissions |-> header.flags, kind |-> kind,
     offset |-> IF kind = "file" THEN header.offset ELSE 0, source |-> header.index]

is_power_of_two(n) == \E k \in 0 .. n : n = 2 ^ k

\* The PT_LOAD checks of parse_elf64; an alignment of one or none asks nothing.
LoadHeadersParse(headers) ==
    /\ \A h \in headers :
           /\ h.file_size <= h.memory_size
           /\ h.file_size > 0 => h.offset + h.file_size <= FileSize
           /\ Create(h.address, h.memory_size)
           /\ h.alignment > 1 => /\ is_power_of_two(h.alignment)
                                /\ h.address % h.alignment = h.offset % h.alignment
    /\ \A g, h \in headers : g.index < h.index => g.address <= h.address

\* The file part of a header and the zero fill behind it, where they are not
\* empty.
mapping_intents_from_load(header) ==
    LET zero == header.memory_size - header.file_size
        file_part == Intent(header.address, header.file_size, header, "file")
        zero_part == Intent(header.address + header.file_size, zero, header, "zero")
    IN  (IF header.file_size > 0 THEN {file_part} ELSE {})
        \cup (IF zero > 0 THEN {zero_part} ELSE {})

mapping_intent_less(left, right) ==
    \/ left.range.base < right.range.base
    \/ /\ left.range.base = right.range.base
       /\ \/ left.range.size < right.range.size
          \/ /\ left.range.size = right.range.size
             /\ left.source < right.source

\* The members of a set in an order that is total on it.
InOrderOf(set, less(_, _)) ==
    [n \in 1 .. Cardinality(set) |->
        CHOOSE x \in set : Cardinality({y \in set : less(y, x)}) = n - 1]

SortedMappings(headers) ==
    InOrderOf(UNION {mapping_intents_from_load(h) : h \in headers},
              mapping_intent_less)

-----------------------------------------------------------------------------
(* build_guest_image. *)

initialized_overlap_conflicts(left, right) ==
    /\ Overlaps(left.range, right.range)
    /\ \/ left.kind # right.kind
       \/ /\ left.kind = "file"
          /\ LET base == Max({left.range.base, right.range.base})
             IN  left.offset + (base - left.range.base)
                     # right.offset + (base - right.range.base)

\* Mutant: only neighbours in the sorted order are compared.
NeighboursOnly(mappings) ==
    \E i \in 1 .. Len(mappings) - 1 :
        initialized_overlap_conflicts(mappings[i], mappings[i + 1])

\* The inner loop stops at the first mapping that begins outside mapping i:
\* only those before it are compared with it.
first_mapping_conflict(mappings) ==
    \E i, j \in DOMAIN mappings :
        /\ i < j
        /\ \A k \in i + 1 .. j : RangeContains(mappings[i].range, mappings[k].range.base)
        /\ initialized_overlap_conflicts(mappings[i], mappings[j])

first_stack_overlap(stack, mappings) ==
    \E i \in DOMAIN mappings : Overlaps(stack, mappings[i].range)

file_range_is_valid(mapping) == mapping.offset + mapping.range.size <= FileSize

\* The image part of build_guest_image; entry and rsp are what the header and
\* the initial stack name.
build_guest_image(headers, stack, entry, rsp) ==
    LET mappings == SortedMappings(headers)
    IN  IF ~LoadHeadersParse(headers) THEN Error("elf_parse_failure")
        ELSE IF first_mapping_conflict(mappings)
        THEN Error("mapping_overlap_conflict")
        ELSE IF first_stack_overlap(stack, mappings)
        THEN Error("initial_stack_overlaps_load_mapping")
        ELSE IF \E i \in DOMAIN mappings :
                    mappings[i].kind = "file" /\ ~file_range_is_valid(mappings[i])
        THEN Error("initialized_image_failure")
        ELSE Success([mappings |-> mappings, stack |-> stack, entry |-> entry,
                      rsp |-> rsp])

\* InitializedImageView::read_byte: the one source all covering intents name.
SourceAt(mapping, address) ==
    [kind |-> mapping.kind,
     offset |-> IF mapping.kind = "zero" THEN 0
                ELSE mapping.offset + (address - mapping.range.base)]
read_byte(mappings, address) ==
    LET sources == {SourceAt(mappings[i], address) :
                       i \in {i \in DOMAIN mappings :
                                 RangeContains(mappings[i].range, address)}}
    IN  IF sources = {} THEN Error("unmapped_guest_address")
        ELSE IF \E s, t \in sources : s # t THEN Error("mapping_overlap_conflict")
        ELSE Success(CHOOSE s \in sources : TRUE)

-----------------------------------------------------------------------------
(* build_execution_memory_plan. *)

StackSource == -1

Span(range, permissions, source, page_size) ==
    [first |-> range.base \div page_size,
     last |-> (range.base + (range.size - 1)) \div page_size,
     permissions |-> permissions, source |-> source]

\* A mapping and the zero fill of its header have the same source index.
Spans(image, page_size) ==
    {Span(image.mappings[i].range, image.mappings[i].permissions,
          image.mappings[i].source, page_size) : i \in DOMAIN image.mappings}
    \cup IF image.stack.size = 0 THEN {}
         ELSE {Span(image.stack, {"read", "write"}, StackSource, page_size)}

span_covers(span, page) == span.first <= page /\ page <= span.last

\* Mutant: a region ends only where a later span begins.
BoundariesAtStarts(spans, max_page) == {s.first : s \in spans}

Boundaries(spans, max_page) ==
    {s.first : s \in spans}
    \cup {s.last + 1 : s \in {s \in spans : s.last < max_page}}

\* One region per pair of neighbouring boundaries that some span covers; what
\* covers the first page of a region covers all of it.
Regions(spans, max_page, page_size) ==
    LET bounds == InOrderOf(Boundaries(spans, max_page), <)
        covering(i) == {s \in spans : span_covers(s, bounds[i])}
        last(i) == IF i < Len(bounds) THEN bounds[i + 1] - 1 ELSE max_page
        region(i) == [range |-> Extent(bounds[i] * page_size,
                                      (last(i) - bounds[i] + 1) * page_size),
                      permissions |-> UNION {s.permissions : s \in covering(i)},
                      sources |-> {s.source : s \in covering(i)}]
    IN  SelectSeq([i \in DOMAIN bounds |-> region(i)], LAMBDA r : r.sources # {})

Mixed(region) == {"write", "execute"} \subseteq region.permissions

\* A region is refused when it is writable and executable, and, being the
\* whole of the address space, when its size has no representation.
build_execution_memory_plan(image, page_size) ==
    LET max_page == MaxAddress \div page_size
        regions == Regions(Spans(image, page_size), max_page, page_size)
        bad(i) == Mixed(regions[i]) \/ regions[i].range.size > MaxAddress
        first == CHOOSE i \in DOMAIN regions : bad(i) /\ \A j \in 1 .. i - 1 : ~bad(j)
        entered == {i \in DOMAIN image.mappings :
                       RangeContains(image.mappings[i].range, image.entry)}
    IN  IF \E i \in DOMAIN regions : bad(i)
        THEN Error(IF Mixed(regions[first]) THEN "mixed_write_execute_page"
                   ELSE "host_page_arithmetic_overflow")
        ELSE IF entered = {} THEN Error("entry_point_unmapped")
        ELSE IF \A i \in entered : "execute" \notin image.mappings[i].permissions
        THEN Error("entry_point_not_executable")
        ELSE IF ~RangeContains(image.stack, image.rsp) THEN Error("stack_pointer_unmapped")
        ELSE Success(regions)

-----------------------------------------------------------------------------
(* build_reservation_ranges: the granules Windows reserves for a plan. *)

\* One turn of the merging loop; ranges that touch are merged too.
Merge(ranges, range) ==
    LET previous == ranges[Len(ranges)]
        end == previous.base + previous.size
    IN  IF ranges = <<>> \/ range.base > end THEN Append(ranges, range)
        ELSE [ranges EXCEPT ![Len(ranges)] =
                 Extent(previous.base,
                       Max({end, range.base + range.size}) - previous.base)]

\* Regions are in order of address, so their granules are too.
build_reservation_ranges(regions, granularity) ==
    LET first(r) == (r.range.base \div granularity) * granularity
        last(r) == ((r.range.base + r.range.size - 1) \div granularity) * granularity
        granules(i) == Extent(first(regions[i]),
                             last(regions[i]) + granularity - first(regions[i]))
    IN  IF \E i \in DOMAIN regions : last(regions[i]) > MaxAddress - granularity
        THEN Error("host_page_arithmetic_overflow")
        ELSE Success(FoldLeft(Merge, <<>>, [i \in DOMAIN regions |-> granules(i)]))

-----------------------------------------------------------------------------
(* Accesses. *)

FullyWithin(range, address, count) ==
    /\ address >= range.base
    /\ address - range.base <= range.size
    /\ count <= range.size - (address - range.base)
Intersects(range, address, count) ==
    /\ range.size # 0
    /\ IF address >= range.base THEN address - range.base < range.size
       ELSE range.base < address + count

\* Mutant: a mapping that may not be written does not veto the write.
WriteOwnedByAny(image, regions, address, count) ==
    /\ count # 0 /\ count <= MaxAddress - address
    /\ \/ FullyWithin(image.stack, address, count)
       \/ \E i \in DOMAIN image.mappings :
              /\ FullyWithin(image.mappings[i].range, address, count)
              /\ "write" \in image.mappings[i].permissions
    /\ \E i \in DOMAIN regions : FullyWithin(regions[i].range, address, count)

guest_write_owned_by_plan(image, regions, address, count) ==
    /\ count # 0 /\ count <= MaxAddress - address
    /\ \/ FullyWithin(image.stack, address, count)
       \/ \E i \in DOMAIN image.mappings :
              /\ FullyWithin(image.mappings[i].range, address, count)
              /\ "write" \in image.mappings[i].permissions
    /\ \A i \in DOMAIN image.mappings :
           Intersects(image.mappings[i].range, address, count)
               => "write" \in image.mappings[i].permissions
    /\ \E i \in DOMAIN regions :
           /\ FullyWithin(regions[i].range, address, count)
           /\ \A j \in 1 .. i - 1 : ~FullyWithin(regions[j].range, address, count)
           /\ "write" \in regions[i].permissions
           /\ "execute" \notin regions[i].permissions

\* The most bytes from cursor on that one of the ranges covers.
Coverage(ranges, cursor) ==
    Max({0} \cup {r.size - (cursor - r.base) :
                     r \in {r \in ranges : RangeContains(r, cursor)}})

\* GuestMemoryAccess::validate: the loop takes, at each cursor, the longest
\* chunk that one mapping and one region cover with the permission.
validate(image, regions, address, count, permission) ==
    LET granted == {image.mappings[i].range :
                       i \in {i \in DOMAIN image.mappings :
                                 permission \in image.mappings[i].permissions}}
                   \cup {image.stack}
        backed == {regions[i].range :
                      i \in {i \in DOMAIN regions :
                                permission \in regions[i].permissions}}
        mapped(cursor) == \E i \in DOMAIN image.mappings :
                              RangeContains(image.mappings[i].range, cursor)
        planned(cursor) == \E i \in DOMAIN regions : RangeContains(regions[i].range, cursor)
        loop[remaining \in 0 .. count] ==
            LET cursor == address + (count - remaining)
                best == Coverage(granted, cursor)
                prepared == Coverage(backed, cursor)
                denied == [ok |-> FALSE, code |-> "guest_memory_permission_denied",
                           at |-> cursor]
            IN  IF remaining = 0 THEN Success(count)
                ELSE IF best = 0
                THEN IF mapped(cursor) THEN denied
                     ELSE [denied EXCEPT !.code = "guest_memory_unmapped"]
                ELSE IF prepared = 0
                THEN IF planned(cursor) THEN denied
                     ELSE [denied EXCEPT !.code = "prepared_memory_unavailable"]
                ELSE loop[remaining - Min({remaining, best, prepared})]
    IN  IF count = 0 THEN Success(0)
        ELSE IF address > MaxAddress - (count - 1)
        THEN [ok |-> FALSE, code |-> "guest_memory_range_overflow", at |-> address]
        ELSE loop[count]

is_exact_executable_address(image, regions, address) ==
    /\ \E i \in DOMAIN image.mappings :
           /\ "execute" \in image.mappings[i].permissions
           /\ RangeContains(image.mappings[i].range, address)
    /\ \E i \in DOMAIN regions :
           /\ "execute" \in regions[i].permissions
           /\ RangeContains(regions[i].range, address)
=============================================================================
