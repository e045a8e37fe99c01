--------------------------- MODULE PreparedMemory ---------------------------
(***************************************************************************)
(* The host memory of prepared guests: prepare_linux_guest_memory and       *)
(* prepare_windows_guest_memory, the objects that own what they mapped and  *)
(* their moves, the epochs that identify a preparation, and the imports     *)
(* that are bound to provider generations of a registry                     *)
(* (module_graph_import_apply.cpp).                                         *)
(*                                                                          *)
(* Preparations run in threads of their own and interleave at every host    *)
(* call; other code of the process maps pages meanwhile.  Moves, accesses   *)
(* and the registry are used by one thread, as their headers require.       *)
(***************************************************************************)
EXTENDS GuestImagePlan

CONSTANTS Slots,           \* variables that hold a prepared memory
          Guests,          \* program headers, image, plan and reservations of each
          PageSize, Granularity,
          MaxEpoch,        \* the last value of an epoch, 2^64 - 1
          MaxGeneration,   \* the last value of a generation, 2^64 - 1
          MaxActive,       \* active providers of a registry
          Keys,            \* module keys
          PatchWidth,      \* bytes of an import patch
          Targets,         \* addresses of import patches
          HostPages,       \* bound: pages other code maps, one of them
          MaxBatch,        \* bound: patches of a batch, 256 in the code
          MaxPreparations  \* bound: preparations begun

ASSUME MaxEpochAssumption == MaxEpoch \in Nat \ {0}
ASSUME MaxGenerationAssumption == MaxGeneration \in Nat \ {0}
ASSUME GuestsAssumption ==
    \A i \in DOMAIN Guests :
        LET image == Guests[i].image
            plan == build_execution_memory_plan(image, PageSize)
        IN  /\ build_guest_image(Guests[i].headers, image.stack, image.entry, image.rsp)
                   = Success(image)
            /\ plan = Success(Guests[i].regions)
            /\ Guests[i].reservations = build_reservation_ranges(plan.value, Granularity)

RegionsOf(object) == IF object.image = 0 THEN <<>> ELSE Guests[object.image].regions

Pages == 0 .. MaxAddress \div PageSize
ASSUME HostPagesAssumption == HostPages \subseteq Pages
PagesOf(range) == {page \in Pages : RangeContains(range, page * PageSize)}
PagesOfAll(ranges) == UNION {PagesOf(ranges[i]) : i \in DOMAIN ranges}

Free == 0      \* owners of a page: nobody, other code of the process, or the
Foreign == -1  \* number of a preparation

VARIABLES platform,   \* "linux" or "windows"
          host,       \* owner of each page
          protection, \* what the host allows on each page
          foreign,    \* history: pages other code has mapped
          begun,      \* history: preparations begun, which numbers them
          epoch,      \* g_next_prepared_mapping_epoch
          slot,       \* the LinuxPreparedMemory or WindowsPreparedMemory
          work,       \* the preparation that will be assigned to a slot
          access,     \* a GuestMemoryAccess: image_, the owner, available
          active, generation, \* active_ and next_generation_ of the registry
          issued,     \* tokens the caller holds
          last        \* what the last batch of imports did

memory == <<host, protection, foreign, begun, epoch, slot, work>>
registry == <<active, generation, issued>>
vars == <<platform, memory, access, registry, last>>

Empty == [number |-> 0, image |-> 0, ranges |-> <<>>, epoch |-> 0]
Idle == [pc |-> "idle"]
NoAccess == [available |-> FALSE]
Nothing == [kind |-> "nothing"]

\* Earlier preparations of the process, released since, may have taken epochs.
Init ==
    /\ platform \in {"linux", "windows"}
    /\ host = [page \in Pages |-> Free]
    /\ protection = [page \in Pages |-> {}]
    /\ foreign = {} /\ begun = 0 /\ epoch \in 1 .. MaxEpoch
    /\ slot = [s \in Slots |-> Empty]
    /\ work = [s \in Slots |-> Idle]
    /\ access = NoAccess
    /\ active = {} /\ generation = 1 /\ issued = {}
    /\ last = Nothing

-----------------------------------------------------------------------------
(* The host. *)

\* mmap with MAP_FIXED_NOREPLACE, and VirtualAlloc of a reservation: the pages
\* must all be free.
Available(range) == \A page \in PagesOf(range) : host[page] = Free
Taken(range, number) ==
    [page \in Pages |-> IF page \in PagesOf(range) THEN number ELSE host[page]]
Protected(range, permissions) ==
    [page \in Pages |-> IF page \in PagesOf(range) THEN permissions
                        ELSE protection[page]]

\* munmap and VirtualFree take whatever is there.
Unmap(ranges) ==
    LET gone == PagesOfAll(ranges)
    IN  /\ host' = [page \in Pages |-> IF page \in gone THEN Free ELSE host[page]]
        /\ protection' = [page \in Pages |-> IF page \in gone THEN {}
                                             ELSE protection[page]]

\* Other code of the process maps a page.
HostMaps ==
    /\ foreign = {}
    /\ \E page \in HostPages :
        /\ host[page] = Free
        /\ host' = [host EXCEPT ![page] = Foreign]
        /\ foreign' = foreign \cup {page}
    /\ last' = Nothing
    /\ UNCHANGED <<platform, protection, begun, epoch, slot, work, access, registry>>

-----------------------------------------------------------------------------
(* Preparation. *)

\* The plan, and on Windows the reservations, before anything is mapped.
BeginPrepare(s) ==
    /\ work[s] = Idle /\ begun < MaxPreparations
    /\ \E image \in DOMAIN Guests :
        /\ platform = "windows" => Guests[image].reservations.ok
        /\ work' = [work EXCEPT ![s] = [pc |-> "mapping", index |-> 1, image |-> image,
                                        ranges |-> <<>>, number |-> begun + 1]]
    /\ begun' = begun + 1
    /\ last' = Nothing
    /\ UNCHANGED <<platform, host, protection, foreign, epoch, slot, access, registry>>

\* Mutant: what was mapped before the failure stays.
FailWithoutCleanup(s) ==
    /\ work' = [work EXCEPT ![s] = Idle]
    /\ UNCHANGED <<host, protection>>

\* fail_with_cleanup, and the destructor when an exception is thrown.
Fail(s) == Unmap(work[s].ranges) /\ work' = [work EXCEPT ![s] = Idle]

Step(s, pc, index) == work' = [work EXCEPT ![s].pc = pc, ![s].index = index]

\* Linux: one turn of the loop that maps the regions readable and writable.
MapOne(s) ==
    /\ platform = "linux" /\ work[s].pc = "mapping"
    /\ LET i == work[s].index
           regions == RegionsOf(work[s])
       IN  \/ /\ Available(regions[i].range)
              /\ host' = Taken(regions[i].range, work[s].number)
              /\ protection' = Protected(regions[i].range, {"read", "write"})
              /\ work' = [work EXCEPT
                     ![s].ranges = Append(@, regions[i].range),
                     ![s].pc = IF i = Len(regions) THEN "copying" ELSE @,
                     ![s].index = IF i = Len(regions) THEN 1 ELSE i + 1]
           \/ Fail(s)
    /\ last' = Nothing
    /\ UNCHANGED <<platform, foreign, begun, epoch, slot, access, registry>>

\* Windows: one turn of the loop that reserves granules, without access.
ReserveOne(s) ==
    /\ platform = "windows" /\ work[s].pc = "mapping"
    /\ LET i == work[s].index
           reservations == Guests[work[s].image].reservations.value
       IN  \/ /\ Available(reservations[i])
              /\ host' = Taken(reservations[i], work[s].number)
              /\ work' = [work EXCEPT
                     ![s].ranges = Append(@, reservations[i]),
                     ![s].pc = IF i = Len(reservations) THEN "committing" ELSE @,
                     ![s].index = IF i = Len(reservations) THEN 1 ELSE i + 1]
              /\ UNCHANGED protection
           \/ Fail(s)
    /\ last' = Nothing
    /\ UNCHANGED <<platform, foreign, begun, epoch, slot, access, registry>>

\* Windows: one turn of the loop that commits the regions.
CommitOne(s) ==
    /\ work[s].pc = "committing"
    /\ LET i == work[s].index
           regions == RegionsOf(work[s])
       IN  \/ /\ protection' = Protected(regions[i].range, {"read", "write"})
              /\ IF i = Len(regions) THEN Step(s, "copying", 1)
                 ELSE Step(s, "committing", i + 1)
              /\ UNCHANGED host
           \/ Fail(s)
    /\ last' = Nothing
    /\ UNCHANGED <<platform, foreign, begun, epoch, slot, access, registry>>

\* The initialized bytes and the stack are copied; the view may fail to allocate.
CopyImage(s) ==
    /\ work[s].pc = "copying"
    /\ \/ Step(s, "protecting", 1) /\ UNCHANGED <<host, protection>>
       \/ Fail(s)
    /\ last' = Nothing
    /\ UNCHANGED <<platform, foreign, begun, epoch, slot, access, registry>>

\* One turn of the loop that gives the regions their final protection.
ProtectOne(s) ==
    /\ work[s].pc = "protecting"
    /\ LET i == work[s].index
           regions == RegionsOf(work[s])
       IN  \/ /\ protection' = Protected(regions[i].range, regions[i].permissions)
              /\ IF i = Len(regions) THEN Step(s, "publishing", 1)
                 ELSE Step(s, "protecting", i + 1)
              /\ UNCHANGED host
           \/ Fail(s)
    /\ last' = Nothing
    /\ UNCHANGED <<platform, foreign, begun, epoch, slot, access, registry>>

\* next_prepared_mapping_epoch saturates: its last value is never given out.
next_prepared_mapping_epoch ==
    IF epoch = 0 \/ epoch = MaxEpoch THEN [value |-> 0, next |-> epoch]
    ELSE [value |-> epoch, next |-> epoch + 1]

\* The epoch is taken and the object assigned to its slot, whose old memory is
\* reset first.
Publish(s) ==
    /\ work[s].pc = "publishing"
    /\ LET taken == next_prepared_mapping_epoch
       IN  /\ epoch' = taken.next
           /\ IF taken.value = 0 THEN Fail(s) /\ UNCHANGED slot
              ELSE /\ Unmap(slot[s].ranges)
                   /\ slot' = [slot EXCEPT ![s] =
                         [number |-> work[s].number, image |-> work[s].image,
                          ranges |-> work[s].ranges, epoch |-> taken.value]]
                   /\ work' = [work EXCEPT ![s] = Idle]
    /\ last' = Nothing
    /\ UNCHANGED <<platform, foreign, begun, access, registry>>

-----------------------------------------------------------------------------
(* Moves. *)

\* Mutant: the object moved from keeps its plan.
MoveKeepsPlan(s, t) ==
    /\ s # t
    /\ Unmap(slot[t].ranges)
    /\ slot' = [slot EXCEPT ![t] = slot[s], ![s] = [Empty EXCEPT !.image = slot[s].image]]
    /\ last' = Nothing
    /\ UNCHANGED <<platform, foreign, begun, epoch, work, access, registry>>

\* slot[t] = std::move(slot[s]).
MoveAssign(s, t) ==
    /\ s # t
    /\ Unmap(slot[t].ranges)
    /\ slot' = [slot EXCEPT ![t] = slot[s], ![s] = Empty]
    /\ last' = Nothing
    /\ UNCHANGED <<platform, foreign, begun, epoch, work, access, registry>>

\* slot[s] is assigned a new, empty object.
Release(s) ==
    /\ Unmap(slot[s].ranges)
    /\ slot' = [slot EXCEPT ![s] = Empty]
    /\ last' = Nothing
    /\ UNCHANGED <<platform, foreign, begun, epoch, work, access, registry>>

\* A GuestMemoryAccess for a prepared image keeps pointers to the object's plan
\* and epoch, which change when the object is moved.  Made when there is no
\* memory, it is never available.
MakeAccess(s) ==
    /\ access' = IF slot[s] = Empty THEN NoAccess
                 ELSE [available |-> TRUE, image |-> slot[s].image, slot |-> s]
    /\ last' = Nothing
    /\ UNCHANGED <<platform, memory, registry>>

-----------------------------------------------------------------------------
(* Accesses and the provider registry. *)

Owner == slot[access.slot]
Owned == RegionsOf(Owner)

current_mapping_epoch ==
    IF access.available /\ Owned # <<>> THEN Owner.epoch ELSE 0

\* The addresses is_exact_executable_address admits, and of the given ones
\* those at which a patch may be written.
Executables ==
    LET image == Guests[access.image].image
        owned == Owned
    IN  IF ~access.available THEN {}
        ELSE {a \in Addresses : is_exact_executable_address(image, owned, a)}

Writables(targets) ==
    LET image == Guests[access.image].image
        owned == Owned
    IN  IF ~access.available THEN {}
        ELSE {t \in targets : validate(image, owned, t, PatchWidth, "write").ok}

\* register_provider; a token remembers, as history, which preparation it is of.
RegisterProvider ==
    /\ current_mapping_epoch # 0 /\ generation # MaxGeneration
    /\ Cardinality(active) < MaxActive
    /\ \E key \in Keys, address \in Executables \ {0} :
        /\ \A token \in active : token.key # key /\ token.address # address
        /\ LET token == [generation |-> generation, epoch |-> current_mapping_epoch,
                         key |-> key, address |-> address, number |-> Owner.number]
           IN  active' = active \cup {token} /\ issued' = issued \cup {token}
    /\ generation' = generation + 1
    /\ last' = Nothing
    /\ UNCHANGED <<platform, memory, access>>

Retire ==
    /\ \E token \in active : active' = active \ {token}
    /\ last' = Nothing
    /\ UNCHANGED <<platform, memory, access, generation, issued>>

\* Mutant: any mapping will do, if there is one.
CurrentInAnyMapping(token, address) ==
    /\ token.epoch # 0 /\ current_mapping_epoch # 0
    /\ token.address = address
    /\ token \in active

is_current(token, address) ==
    /\ token.generation # 0 /\ token.epoch # 0
    /\ token.epoch = current_mapping_epoch
    /\ token.address = address
    /\ token \in active

\* apply_generation_bound_owned_jump_slot_batch: every generation, then every
\* provider, then every target is checked before the first write; targets that
\* overlap are refused.
BindImports ==
    /\ \E token \in issued : is_current(token, token.address)
    /\ LET executables == Executables
           patches == [token : {token \in issued : /\ is_current(token, token.address)
                                                   /\ token.address \in executables},
                       target : Writables(Targets)]
       IN  \E batch \in UNION {[1 .. n -> patches] : n \in 1 .. MaxBatch} :
            /\ \A i, j \in DOMAIN batch :
                   i < j => ~Overlaps(Extent(batch[i].target, PatchWidth),
                                      Extent(batch[j].target, PatchWidth))
            /\ last' = [kind |-> "bound", batch |-> batch]
    /\ UNCHANGED <<platform, memory, access, registry>>

Next ==
    \/ HostMaps \/ RegisterProvider \/ Retire \/ BindImports
    \/ \E s \in Slots :
        \/ BeginPrepare(s) \/ MapOne(s) \/ ReserveOne(s) \/ CommitOne(s)
        \/ CopyImage(s) \/ ProtectOne(s) \/ Publish(s) \/ Release(s) \/ MakeAccess(s)
        \/ \E t \in Slots : MoveAssign(s, t)

Spec == Init /\ [][Next]_vars

-----------------------------------------------------------------------------
(* Properties. *)

Held(s) == PagesOfAll(slot[s].ranges)
Mapping(s) == IF work[s] = Idle THEN {} ELSE PagesOfAll(work[s].ranges)

\* Through failures at any host call, moves, replacements and concurrent
\* preparations, every page is owned by exactly the object or preparation that
\* lists it: nothing leaks when a preparation fails (fail_with_cleanup), no two
\* objects would unmap the same page, and no page of other code is unmapped.
PagesHaveOneOwner ==
    LET held == [s \in Slots |-> Held(s)]
        mapping == [s \in Slots |-> Mapping(s)]
    IN  /\ \A page \in foreign : host[page] = Foreign
        /\ \A page \in Pages :
            Cardinality({s \in Slots : page \in held[s]})
            + Cardinality({s \in Slots : page \in mapping[s]})
                = (IF host[page] \in {Free, Foreign} THEN 0 ELSE 1)

\* An access made for any image stays safe to use while the object it points
\* to is moved from, replaced or assigned: what validate admits is mapped by
\* the present owner with that permission, and no page is both writable and
\* executable.
AccessIsBacked ==
    /\ access.available =>
        LET image == Guests[access.image].image
            owned == Owned
            backed(b, permission) == /\ host[b \div PageSize] = Owner.number
                                     /\ permission \in protection[b \div PageSize]
        IN  /\ \A address \in Addresses, count \in {1, PatchWidth},
                  permission \in {"read", "write"} :
                   \/ \A b \in address .. address + count - 1 :
                          b \in Addresses /\ backed(b, permission)
                   \/ ~validate(image, owned, address, count, permission).ok
            /\ \A address \in Executables : backed(address, "execute")
    /\ \A page \in Pages : ~({"write", "execute"} \subseteq protection[page])

\* A batch of imports is bound only to providers that are live: each token was
\* issued for the very preparation that is mapped now, whatever was moved,
\* replaced at the same address, retired or exhausted since, and the targets
\* are distinct writable words of it.
BindingsAreLive ==
    last.kind = "bound" =>
        /\ \A i \in DOMAIN last.batch :
            /\ last.batch[i].token.number = Owner.number
            /\ last.batch[i].token \in active
            /\ \A b \in last.batch[i].target .. last.batch[i].target + PatchWidth - 1 :
                   "write" \in protection[b \div PageSize]
        /\ \A i, j \in DOMAIN last.batch :
            i # j => (last.batch[i].target .. last.batch[i].target + PatchWidth - 1)
                     \cap (last.batch[j].target .. last.batch[j].target + PatchWidth - 1)
                        = {}
=============================================================================
