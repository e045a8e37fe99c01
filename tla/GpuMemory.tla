------------------------------ MODULE GpuMemory ------------------------------
(***************************************************************************)
(* The guest's GPU memory as the host records it: allocations               *)
(* (gpu_allocation_address_space.cpp), buffers (gpu_buffer_address_space)   *)
(* and image views (gpu_image.cpp), and the layout of a linear surface      *)
(* (gfx10_surface_layout.cpp).  Each registry only grows, and an id is the  *)
(* index of its entry.                                                      *)
(***************************************************************************)
EXTENDS CheckedPlans

CONSTANT MaxPitchBytes  \* stands for 2^32 - 1

BaseAlignment == 256    \* kGfx10AlignedLinearBaseAlignmentBytes

ranges_overlap(a, b) == a.base < b.base + b.byte_size /\ b.base < a.base + a.byte_size

Registered(entries, base, byte_size, zero, overlap) ==
    LET entry == [id |-> Len(entries), base |-> base, byte_size |-> byte_size]
    IN  Outcome(<< <<byte_size = 0, zero>>,
                   <<EndOverflows(base, byte_size), "address_range_overflow">>,
                   <<\E i \in DOMAIN entries : ranges_overlap(entry, entries[i]), overlap>> >>,
                Append(entries, entry))

\* The first entry that holds the whole range.
Resolved(entries, address, byte_count) ==
    LET range == [base |-> address, byte_size |-> byte_count]
        holding == {i \in DOMAIN entries :
                       /\ address >= entries[i].base
                       /\ address + byte_count <= entries[i].base + entries[i].byte_size}
        entry == entries[Min(holding)]
    IN  Outcome(<< <<byte_count = 0, "zero_sized_request">>,
                   <<EndOverflows(address, byte_count), "address_range_overflow">>,
                   <<holding = {} /\ \E i \in DOMAIN entries : ranges_overlap(range, entries[i]),
                     "partially_mapped_range">>,
                   <<holding = {}, "unmapped_range">> >>,
                [id |-> entry.id, byte_offset |-> address - entry.base,
                 byte_count |-> byte_count])

register_allocation(allocations, base, byte_size) ==
    Registered(allocations, base, byte_size, "zero_sized_allocation", "overlapping_allocation")
resolve_allocation(allocations, address, byte_count) == Resolved(allocations, address, byte_count)
allocation_at(allocations, id) == allocations[id + 1]

\* Mutant: only the newest buffer is compared.
RegisterOverOlder(buffers, base, byte_size) ==
    LET newest == IF buffers = << >> THEN << >> ELSE <<buffers[Len(buffers)]>>
    IN  Outcome(<< <<~Succeeded(Registered(newest, base, byte_size, "zero", "overlap")),
                     "overlapping_region">> >>,
                Append(buffers, [id |-> Len(buffers), base |-> base, byte_size |-> byte_size]))
register_buffer(buffers, base, byte_size) ==
    Registered(buffers, base, byte_size, "zero_sized_region", "overlapping_region")
resolve_buffer(buffers, address, byte_count) == Resolved(buffers, address, byte_count)
buffer_at(buffers, id) == buffers[id + 1]

resolve_gpu_memory_write(operation, buffers) ==
    LET resolved == resolve_buffer(buffers, operation.destination, 4 * Len(operation.values))
    IN  Outcome(<< <<4 * Len(operation.values) > MaxWord, "payload_size_unrepresentable">>,
                   <<~Succeeded(resolved), "address_resolution_failure">> >>,
                resolved.value)

\* Rows are padded to a whole number of alignment units.
compute_gfx10_aligned_linear_2d_layout(width, height, bytes_per_element) ==
    LET admitted == bytes_per_element # 0 /\ BaseAlignment % bytes_per_element = 0
        unit == IF admitted THEN BaseAlignment \div bytes_per_element ELSE 1
        pitch == ((width + unit - 1) \div unit) * unit
        bytes == pitch * bytes_per_element
    IN  Outcome(<< <<width = 0 \/ height = 0, "zero_dimension">>,
                   <<bytes_per_element = 0, "zero_element_size">>,
                   <<~admitted, "unsupported_element_size">>,
                   <<pitch > MaxPitchBytes, "pitch_overflow">>,
                   <<ProductOverflows(bytes, height), "surface_size_overflow">> >>,
                [pitch_pixels |-> pitch, pitch_bytes |-> bytes,
                 base_alignment |-> BaseAlignment, surface_bytes |-> bytes * height])

\* What register_view asks of a descriptor on its own.
DescriptorRefusal(d) ==
    LET pitch_bytes == d.layout.pitch_pixels * d.bytes_per_pixel
        logical_bytes == d.width * d.height * d.bytes_per_pixel
    IN  Refusal(<<
            <<d.width = 0 \/ d.height = 0, "zero_dimension">>,
            <<d.bytes_per_pixel = 0, "zero_bytes_per_pixel">>,
            <<logical_bytes > MaxWord, "logical_size_overflow">>,
            <<d.logical_byte_count # logical_bytes, "logical_size_mismatch">>,
            <<d.layout.pitch_pixels = 0 \/ d.layout.pitch_bytes = 0, "zero_pitch">>,
            <<d.layout.pitch_pixels < d.width, "pitch_smaller_than_width">>,
            <<pitch_bytes > MaxPitchBytes, "pitch_size_overflow">>,
            <<d.layout.pitch_bytes # pitch_bytes, "pitch_size_mismatch">> >>)

SurfaceRefusal(d) ==
    Refusal(<<
        <<d.layout.base_alignment = 0, "zero_base_alignment">>,
        <<d.layout.base_alignment # 0 /\ d.base % d.layout.base_alignment # 0,
          "misaligned_base_address">>,
        <<d.layout.surface_bytes = 0, "zero_surface_size">>,
        <<ProductOverflows(d.layout.pitch_bytes, d.height), "surface_size_overflow">>,
        <<d.layout.surface_bytes # d.layout.pitch_bytes * d.height, "surface_size_mismatch">> >>)

register_view(views, descriptor, allocations) ==
    LET allocation == resolve_allocation(allocations, descriptor.base,
                                         descriptor.layout.surface_bytes)
    IN  Outcome(<< <<DescriptorRefusal(descriptor) # "none", DescriptorRefusal(descriptor)>>,
                   <<SurfaceRefusal(descriptor) # "none", SurfaceRefusal(descriptor)>>,
                   <<~Succeeded(allocation), "allocation_resolution_failure">> >>,
                Append(views, [id |-> Len(views), allocation_id |-> allocation.value.id,
                               byte_offset |-> allocation.value.byte_offset,
                               descriptor |-> descriptor]))

\* Two views of the same surface make its descriptor ambiguous.
resolve_exact(views, descriptor) ==
    LET matches == {i \in DOMAIN views : views[i].descriptor = descriptor}
    IN  Outcome(<< <<matches = {}, "not_found">>,
                   <<Cardinality(matches) > 1, "ambiguous">> >>,
                views[Min(matches)])
view_at(views, id) == views[id + 1]
=============================================================================
