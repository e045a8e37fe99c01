---------------------------- MODULE GuestLinking ----------------------------
(***************************************************************************)
(* Linking of a prepared image: the HLE registry, the import bindings and  *)
(* the gate region (hle.cpp, sce_import_binding.cpp), the module graph, and *)
(* the batches that write relocated words into guest memory: relative      *)
(* relocations, imports from other modules, and GLOB_DAT and JUMP_SLOT      *)
(* words that lead to a gate.                                              *)
(*                                                                         *)
(* A word is WordSize bytes, a byte a digit of base ByteBase.  A byte of    *)
(* guest memory is where it comes from, or the value written over it.  An   *)
(* image that is linked says which registry, bindings and gates (setup) and *)
(* which modules (declarations) the session asks for.                       *)
(***************************************************************************)
EXTENDS GuestImageBuild

CONSTANTS ByteBase, WordSize,
          GateStride,           \* bytes of a gate
          MaxArguments,         \* kMaxSyntheticGateArguments
          MaxRelativePatches, MaxImportPatches, MaxModules, MaxDependencies,
          MaxExports,           \* caps of the batches and of the module graph
          InvalidKeys,          \* module keys that are empty or too long
          Biases,               \* load biases
          Slots,                \* gate slots a caller names
          MaxBatches            \* batches per behaviour

ASSUME WordAssumption == ByteBase ^ WordSize > MaxAddress

VARIABLES memory, gates, graph, batches

linkVars == <<memory, gates, graph, batches>>
allVars == <<vars, linkVars>>

-----------------------------------------------------------------------------
(* hle.cpp and sce_import_binding.cpp.  Which error a creation reports is    *)
(* left out.                                                                 *)

Created(valid, value) == IF valid THEN Success(value) ELSE Error("creation_failure")

NoDuplicates(seq, key(_)) ==
    \A i, j \in DOMAIN seq : key(seq[i]) = key(seq[j]) => i = j

HleRegistry_create(descriptors) ==
    Created(/\ \A d \in ToSet(descriptors) :
                  d.id # 0 /\ d.name # "" /\ d.arguments <= MaxArguments
            /\ NoDuplicates(descriptors, LAMBDA d : d.id)
            /\ NoDuplicates(descriptors, LAMBDA d : d.name),
            {d.id : d \in ToSet(descriptors)})

\* A name without an identity has the empty one.
valid_identity(identity) == identity # <<>>

SceImportBindingRegistry_create(registry, bindings) ==
    Created(/\ \A b \in ToSet(bindings) : valid_identity(b.identity) /\ b.function \in registry
            /\ NoDuplicates(bindings, LAMBDA b : b.identity),
            bindings)

\* The functions bound to an identity, none or one.
SceImportBindingRegistry_resolve(bindings, identity) ==
    {b.function : b \in {b \in ToSet(bindings) : b.identity = identity}}

overlaps_image(range, reserved) ==
    \/ \E mapping \in ToSet(image.value.mappings) : Overlaps(range, mapping.range)
    \/ Overlaps(range, image.value.stack)
    \/ \E other \in reserved : Overlaps(range, other)

build_synthetic_gate_region(registry, base, slot_count, bindings, reserved) ==
    LET range == Extent(base, slot_count * GateStride)
    IN  Created(/\ slot_count # 0
                /\ Create(range.base, range.size)
                /\ ~overlaps_image(range, reserved)
                /\ \A b \in ToSet(bindings) : b.slot < slot_count /\ b.function \in registry
                /\ NoDuplicates(bindings, LAMBDA b : b.slot),
                [range |-> range, slot_count |-> slot_count, bindings |-> bindings])

\* The slot of an address, none or one.
recognize_slot(region, address) ==
    LET offset == address - region.range.base
    IN  IF /\ RangeContains(region.range, address)
           /\ offset % GateStride = 0
           /\ offset \div GateStride < region.slot_count
        THEN {offset \div GateStride} ELSE {}

slot_address(region, slot) ==
    IF slot < region.slot_count THEN {region.range.base + slot * GateStride} ELSE {}

binding_for_slot(region, slot) ==
    {b.function : b \in {b \in ToSet(region.bindings) : b.slot = slot}}

\* Registry, bindings and region are created in this order.
BuildGates(setup) ==
    LET registry == HleRegistry_create(setup.descriptors)
        bindings == SceImportBindingRegistry_create(registry.value, setup.bindings)
        region == build_synthetic_gate_region(registry.value, setup.base, setup.slot_count,
                                              setup.gates, setup.reserved)
    IN  IF ~registry.ok THEN registry
        ELSE IF ~bindings.ok THEN bindings
        ELSE IF ~region.ok THEN region
        ELSE Success([bindings |-> bindings.value, region |-> region.value])

-----------------------------------------------------------------------------
(* module_graph.cpp. *)

ModuleGraph_create(declarations) ==
    LET valid(d) ==
            /\ d.key \notin InvalidKeys
            /\ Len(d.dependencies) <= MaxDependencies
            /\ ToSet(d.dependencies) \cap InvalidKeys = {}
            /\ NoDuplicates(d.dependencies, LAMBDA key : key)
            /\ Len(d.exports) <= MaxExports
            /\ \A e \in ToSet(d.exports) : valid_identity(e.identity) /\ e.address # 0
            /\ NoDuplicates(d.exports, LAMBDA e : e.identity)
    IN  Created(/\ Len(declarations) <= MaxModules
                /\ \A d \in ToSet(declarations) : valid(d)
                /\ NoDuplicates(declarations, LAMBDA d : d.key),
                declarations)

ModuleGraph_find(modules, key) == {m \in ToSet(modules) : m.key = key}

\* Keys and identities are unique: at most one address.
ModuleGraph_resolve(modules, requester, provider, identity) ==
    IF \E m \in ModuleGraph_find(modules, requester) : provider \in ToSet(m.dependencies)
    THEN {e.address : e \in {e \in UNION {ToSet(m.exports) :
                                             m \in ModuleGraph_find(modules, provider)} :
                                e.identity = identity /\ valid_identity(identity)}}
    ELSE {}

-----------------------------------------------------------------------------
(* Patches: where a word goes, what it is and the relocation it is for. *)

Patch(relocation, value) ==
    [target |-> relocation.target, value |-> value, relocation |-> relocation]

WordFits(target) == Create(target, WordSize)

\* The patch of a relocation, none where it is refused.
build_owned_x86_64_relative_patch(relocation, load_bias) ==
    IF \/ relocation.kind # "rela" \/ relocation.type # "relative"
       \/ relocation.symbol # 0 \/ ~WordFits(relocation.target)
    THEN {}
    ELSE {Patch(relocation, load_bias + addend) :
             addend \in {a \in relocation.addend : load_bias + a \in Addresses}}

\* The address a relocation is resolved to.
plan_module_graph_import(record, requester, provider) ==
    IF record.symbol.section # 0 \/ record.identity = <<>> THEN {}
    ELSE ModuleGraph_resolve(graph.value, requester, provider, record.identity)

build_owned_x86_64_module_import_patch(relocation, record, address) ==
    IF /\ \/ relocation.type = "glob_dat" /\ relocation.kind = "rela"
          \/ relocation.type = "jump_slot" /\ relocation.kind = "plt_rela"
       /\ relocation.addend # {}
       /\ record.symbol.binding \in {"global", "weak"}
       /\ address # 0
       /\ WordFits(relocation.target)
    THEN {Patch(relocation, address)} ELSE {}

\* plan_sce_import_resolution: the function a relocation is resolved to.
plan_sce_import_resolution(record, bindings) ==
    IF record.symbol.section # 0 \/ record.identity = <<>> THEN {}
    ELSE SceImportBindingRegistry_resolve(bindings, record.identity)

\* Mutant: the function a slot is bound to is not compared.
AnyBoundSlot(relocation, function, region, slot) ==
    IF binding_for_slot(region, slot) = {} THEN {}
    ELSE {Patch(relocation, address) : address \in slot_address(region, slot)}

\* What the two functions below have in common.
GatePatch(relocation, function, region, slot) ==
    IF binding_for_slot(region, slot) # {function} THEN {}
    ELSE {Patch(relocation, address) : address \in slot_address(region, slot)}

build_synthetic_x86_64_glob_dat_gate_patch(relocation, function, region, slot) ==
    IF relocation.kind # "rela" \/ relocation.type # "glob_dat" THEN {}
    ELSE GatePatch(relocation, function, region, slot)

build_synthetic_x86_64_jump_slot_patch(relocation, function, region, slot) ==
    IF relocation.kind # "plt_rela" \/ relocation.type # "jump_slot" THEN {}
    ELSE GatePatch(relocation, function, region, slot)

\* Each plan with the slot the caller names for it.
build_synthetic_x86_64_glob_dat_gate_patches(plans, region, slots) ==
    [n \in DOMAIN plans |->
        build_synthetic_x86_64_glob_dat_gate_patch(plans[n].relocation, plans[n].function,
                                                   region, slots[n])]

build_synthetic_x86_64_jump_slot_patches(plans, region, slots) ==
    [n \in DOMAIN plans |->
        build_synthetic_x86_64_jump_slot_patch(plans[n].relocation, plans[n].function,
                                               region, slots[n])]

-----------------------------------------------------------------------------
(* Guest memory. *)

encode_le64(value) == [i \in 0 .. WordSize - 1 |-> (value \div ByteBase ^ i) % ByteBase]

\* What preparation copies in: mapped bytes and those of the stack, on pages
\* that are zero.
InitialMemory(built) ==
    [a \in Addresses |->
        LET byte == read_byte(built.mappings, a)
        IN  IF byte.ok THEN byte.value
            ELSE IF RangeContains(built.stack, a)
            THEN [kind |-> "stack", offset |-> a - built.stack.base]
            ELSE [kind |-> "zero", offset |-> 0]]

Write(bytes, patch) ==
    LET word == encode_le64(patch.value)
    IN  [a \in Addresses |->
            IF a \in patch.target .. patch.target + (WordSize - 1)
            THEN [kind |-> "byte", offset |-> word[a - patch.target]]
            ELSE bytes[a]]

Allowed(patch, access) ==
    validate(image.value, plan.value, patch.target, WordSize, access).ok

WriteAll(patches) == FoldLeft(Write, memory, patches)

-----------------------------------------------------------------------------
(* Batches: how many patches are written, and whether the call succeeds.  An  *)
(* operator gives the set of its possible outcomes.                           *)

Outcome(count, ok) == [count |-> count, ok |-> ok]
Refused == Outcome(0, FALSE)

\* Neighbours in order of address; the end of a word is computed in 64 bits.
conflicting_relative_targets(patches) ==
    LET ordered == SortSeq(patches, LAMBDA p, q : p.target < q.target)
    IN  \E i \in 2 .. Len(ordered) :
            ordered[i].target < (ordered[i - 1].target + WordSize) % (MaxAddress + 1)

\* Every word is rebuilt, validated for writing and read before the first
\* write.  A write can fail all the same, and so can the reading back of a word
\* that is then counted as written.
apply_owned_relative_batch(patches) ==
    IF \/ Len(patches) > MaxRelativePatches
       \/ \E i \in DOMAIN patches : ~Allowed(patches[i], "write") \/ ~Allowed(patches[i], "read")
       \/ conflicting_relative_targets(patches)
    THEN {Refused}
    ELSE {Outcome(Len(patches), TRUE)} \cup {Outcome(k, FALSE) : k \in 0 .. Len(patches)}

\* "A concurrent mapping/permission change or a write failure can still occur".
apply_owned_module_import_batch(patches) ==
    IF \/ Len(patches) > MaxImportPatches
       \/ \E i \in DOMAIN patches : ~Allowed(patches[i], "write")
       \/ \E i, j \in DOMAIN patches :
              /\ i < j
              /\ Overlaps(Extent(patches[i].target, WordSize),
                          Extent(patches[j].target, WordSize))
    THEN {Refused}
    ELSE {Outcome(Len(patches), TRUE)} \cup {Outcome(k, FALSE) : k \in 0 .. Len(patches) - 1}

\* One write after the other, up to the first that is refused.
apply_synthetic_glob_dat_patches(patches) ==
    LET refused == {i \in DOMAIN patches : ~Allowed(patches[i], "write")}
    IN  {IF refused = {} THEN Outcome(Len(patches), TRUE) ELSE Outcome(Min(refused) - 1, FALSE)}

\* The same loop.
apply_synthetic_jump_slot_patches(patches) == apply_synthetic_glob_dat_patches(patches)

-----------------------------------------------------------------------------
(* Actions. *)

LinkInit ==
    /\ Init
    /\ memory = <<>> /\ gates = Pending /\ graph = Pending /\ batches = <<>>

LastPagePlanned(regions) == \E i \in DOMAIN regions : RangeContains(regions[i].range, MaxAddress)

\* prepare_linux_guest_memory copies the image into the planned regions, and the
\* session creates its gates and its module graph; or the host refuses a mapping,
\* which PreparedMemory follows call by call.  No host gives a process the last
\* page of the address space.
PrepareMemory ==
    /\ PlanMemory
    /\ \/ /\ plan'.ok /\ request.linked /\ ~LastPagePlanned(plan'.value)
          /\ memory' = InitialMemory(image.value)
          /\ gates' = BuildGates(request.setup)
          /\ graph' = ModuleGraph_create(request.declarations)
       \/ UNCHANGED <<memory, gates, graph>>
    /\ UNCHANGED batches

TableKinds == {"rel", "rela", "plt"}
Table(kind) == image.value.tables[kind]
Records(kind) == IF Table(kind) = None THEN {} ELSE 0 .. Table(kind).count - 1
Relocation(kind, index) ==
    LET tables == image.value.tables
    IN  parse_dynamic_relocation(tables.view, tables[kind], index, tables.symbols)
SymbolOf(relocation) ==
    LET tables == image.value.tables
    IN  materialize_sce_dynamic_symbol(tables.view, tables.symbols, tables.strings,
                                       relocation.symbol)

\* The patches of a batch, from the patch, if any, of each of its relocations.
Patches(made) == [n \in DOMAIN made |-> CHOOSE patch \in made[n] : TRUE]

\* A batch is applied; the caller has given up before it where a relocation has
\* no patch.  The memory for the report, which is taken before the first write,
\* may be refused.
Apply(operation, made, outcomes) ==
    /\ Len(batches) < MaxBatches
    /\ \A n \in DOMAIN made : made[n] # {}
    /\ \E result \in outcomes \cup {Refused} :
          /\ memory' = WriteAll(SubSeq(Patches(made), 1, result.count))
          /\ batches' = Append(batches, [operation |-> operation,
                                         patches |-> Patches(made),
                                         count |-> result.count, ok |-> result.ok])
    /\ UNCHANGED <<vars, gates, graph>>

\* Some records of one table, in its order, all of which can be parsed.
Picked ==
    UNION {{[n \in 1 .. Cardinality(some) |->
                Relocation(kind, InOrderOf(some, <)[n]).value] :
               some \in SUBSET {i \in Records(kind) : Relocation(kind, i).ok} \ {{}}} :
           kind \in TableKinds}

RelocateRelative ==
    /\ memory # <<>>
    /\ \E relocations \in Picked, bias \in Biases :
       \E made \in {[n \in DOMAIN relocations |->
                       build_owned_x86_64_relative_patch(relocations[n], bias)]} :
          Apply([name |-> "relative", bias |-> bias], made,
                apply_owned_relative_batch(Patches(made)))

\* The patch of a relocation whose symbol can be read and resolved.
ImportPatch(relocation, symbol, requester, provider) ==
    IF ~symbol.ok THEN {}
    ELSE UNION {build_owned_x86_64_module_import_patch(relocation, symbol.value, address) :
                   address \in plan_module_graph_import(symbol.value, requester, provider)}

ImportFromModules ==
    /\ memory # <<>> /\ graph.ok /\ image.value.tables.strings # None
    /\ \E relocations \in Picked,
          requester, provider \in {graph.value[i].key : i \in DOMAIN graph.value} :
       \E made \in {[n \in DOMAIN relocations |->
                       ImportPatch(relocations[n], SymbolOf(relocations[n]),
                                   requester, provider)]} :
          Apply([name |-> "module", requester |-> requester, provider |-> provider], made,
                apply_owned_module_import_batch(Patches(made)))

\* plan_sce_imports: every record of the table with the function it is resolved to.
plan_sce_imports(kind) ==
    [n \in 1 .. Cardinality(Records(kind)) |->
        LET relocation == Relocation(kind, n - 1)
            symbol == SymbolOf(relocation.value)
        IN  IF ~relocation.ok \/ ~symbol.ok THEN {}
            ELSE {[relocation |-> relocation.value, function |-> function] :
                     function \in plan_sce_import_resolution(symbol.value,
                                                             gates.value.bindings)}]

\* The caller names a slot for each plan.
BindGates ==
    /\ memory # <<>> /\ gates.ok /\ image.value.tables.strings # None
    /\ \E kind \in TableKinds : \E planned \in {plan_sce_imports(kind)} :
          /\ \A n \in DOMAIN planned : planned[n] # {}
          /\ \E slots \in [DOMAIN planned -> Slots] :
             \E plans \in {[n \in DOMAIN planned |-> CHOOSE p \in planned[n] : TRUE]} :
             \E made \in {IF kind = "plt"
                          THEN build_synthetic_x86_64_jump_slot_patches(
                                   plans, gates.value.region, slots)
                          ELSE build_synthetic_x86_64_glob_dat_gate_patches(
                                   plans, gates.value.region, slots)} :
                Apply([name |-> "gate"], made,
                      IF kind = "plt" THEN apply_synthetic_jump_slot_patches(Patches(made))
                      ELSE apply_synthetic_glob_dat_patches(Patches(made)))

LinkNext ==
    \/ BuildImage /\ UNCHANGED linkVars
    \/ Reserve /\ memory = <<>> /\ UNCHANGED linkVars
    \/ PrepareMemory \/ RelocateRelative \/ ImportFromModules \/ BindGates

LinkSpec == LinkInit /\ [][LinkNext]_allVars

-----------------------------------------------------------------------------
(* Properties. *)

WordBytes(patch) == patch.target .. patch.target + (WordSize - 1)
Words == {<<b, n>> \in (1 .. Len(batches)) \X (1 .. MaxRelativePatches + MaxImportPatches) :
             n <= batches[b].count}
PatchAt(w) == batches[w[1]].patches[w[2]]
After(v, w) == v[1] > w[1] \/ (v[1] = w[1] /\ v[2] > w[2])

\* What a word must be, said of the relocation it was made for.
MeansItsRelocation(operation, patch) ==
    LET r == patch.relocation
        identity == SymbolOf(r).value.identity
    IN  CASE operation.name = "relative" -> r.addend = {patch.value - operation.bias}
          [] operation.name = "module" ->
                \E i, j \in DOMAIN graph.value :
                    /\ graph.value[i].key = operation.requester
                    /\ graph.value[j].key = operation.provider
                    /\ operation.provider \in ToSet(graph.value[i].dependencies)
                    /\ [identity |-> identity, address |-> patch.value]
                          \in ToSet(graph.value[j].exports)
          [] OTHER ->
                \E slot \in recognize_slot(gates.value.region, patch.value) :
                    \E function \in binding_for_slot(gates.value.region, slot) :
                        [identity |-> identity, function |-> function]
                            \in ToSet(gates.value.bindings)

\* After any batches, whether they succeeded or not, guest memory is the image
\* with exactly the words that were reported written, the later over the
\* earlier.  Each lies in writable memory and is what its relocation names:
\* a jump through an imported word reaches a gate the runtime recognizes as the
\* function bound to the symbol, or the export of a declared dependency.
\* Success means that every word is there.  A batch of relative or module words
\* may stop half-way, but not because of its words: once it has written one, all
\* of them, the ones it did not reach included, lie in writable memory and no
\* two overlap.
LinkedWordsAreExact ==
    memory # <<>> =>
        /\ LET initial == InitialMemory(image.value)
           IN  \A a \in Addresses :
                  (\A w \in Words : a \notin WordBytes(PatchAt(w)))
                      => memory[a] = initial[a]
        /\ \A w \in Words :
              LET patch == PatchAt(w)
              IN  /\ MeansItsRelocation(batches[w[1]].operation, patch)
                  /\ \A a \in WordBytes(patch) : MayAccess(a, "write")
                  /\ (\A v \in Words : After(v, w) =>
                         WordBytes(PatchAt(v)) \cap WordBytes(patch) = {})
                     => /\ \A a \in WordBytes(patch) : memory[a].kind = "byte"
                        /\ patch.value = MapThenSumSet(
                               LAMBDA i : memory[patch.target + i].offset * ByteBase ^ i,
                               0 .. WordSize - 1)
        /\ \A b \in DOMAIN batches :
              LET patches == batches[b].patches
              IN  /\ batches[b].ok => batches[b].count = Len(patches)
                  /\ batches[b].operation.name # "gate" /\ batches[b].count > 0 =>
                        /\ \A i \in DOMAIN patches :
                              \A a \in WordBytes(patches[i]) : MayAccess(a, "write")
                        /\ \A i, j \in DOMAIN patches :
                              WordBytes(patches[i]) \cap WordBytes(patches[j]) # {} => i = j
=============================================================================
