--------------------------- MODULE DynamicTables ---------------------------
(***************************************************************************)
(* The tables behind the dynamic section of an image: parse_dynamic_table, *)
(* string, symbol and relocation descriptors, the symbol counts the two    *)
(* hash tables give, and the records read through the initialized view of  *)
(* the image (loader/dynamic*.cpp, sysv_hash.cpp, gnu_hash.cpp,             *)
(* sce_dynamic_symbol.cpp, sce_symbol_identity.cpp).                       *)
(*                                                                         *)
(* An address holds a cell.  A cell of the file is a record of everything  *)
(* the readers can take it for: the head of a relocation, its addend, a    *)
(* symbol, a hash word, a piece of a name.  A RELA record is a head and an *)
(* addend.  Which dynamic entry a value came from is left out.  The module *)
(* has no state.                                                           *)
(***************************************************************************)
EXTENDS GuestImagePlan

CONSTANTS RelSize, RelaSize,    \* cells of a relocation record
          SymbolSize,           \* cells of a symbol
          MaxBuckets, MaxBloomWords, MaxSymbols  \* caps on a GNU hash table

ASSUME RecordAssumption == RelSize = 1 /\ RelaSize = 2 /\ SymbolSize = 2

None == [none |-> TRUE]

\* What zero fill reads as.
Blank == [target |-> 0, symbol |-> 0, type |-> "none", addend |-> 0,
          name |-> 0, binding |-> "local", section |-> 0, value |-> 0,
          word |-> 0, piece |-> "nul"]

-----------------------------------------------------------------------------
(* Reading through the initialized view. *)

\* The cell at each address of an image that can be read.
InitializedImageView(mappings, file) ==
    LET readable == {a \in Addresses : read_byte(mappings, a).ok}
        cell(source) == IF source.kind = "zero" THEN Blank ELSE file[source.offset + 1]
    IN  [a \in readable |-> cell(read_byte(mappings, a).value)]

copy_bytes(view, range) == BytesOf(range) \subseteq DOMAIN view

\* The cells of a record of size cells that begins offset cells after base.
ReadRecord(view, base, offset, size) ==
    LET range == Extent(base + offset, size)
    IN  IF base + offset > MaxAddress \/ ~Create(range.base, size)
        THEN Error("range_overflow")
        ELSE IF ~copy_bytes(view, range) THEN Error("unreadable")
        ELSE Success([i \in 1 .. size |-> view[range.base + (i - 1)]])

-----------------------------------------------------------------------------
(* Dynamic entries. *)

Entry(tag, value) == [tag |-> tag, value |-> value]

\* The entries up to and with the first terminator; the segment is whole
\* entries inside the file.
parse_dynamic_table(segment) ==
    LET ends == {i \in DOMAIN segment : segment[i].tag = "null"}
    IN  IF ends = {} THEN Error("missing_terminator")
        ELSE Success(SubSeq(segment, 1, Min(ends)))

Values(entries, tag) ==
    {entries[i].value : i \in {i \in DOMAIN entries : entries[i].tag = tag}}
Has(entries, tag) == Values(entries, tag) # {}
ValueOf(entries, tag) == CHOOSE value \in Values(entries, tag) : TRUE

\* merge_singleton lets a tag come again with the value it had.
Conflicting(entries, tags) ==
    \E tag \in tags : \E v, w \in Values(entries, tag) : v # w

build_dynamic_string_metadata(entries) ==
    LET base == ValueOf(entries, "strtab")
        size == ValueOf(entries, "strsz")
    IN  IF Conflicting(entries, {"strtab", "strsz", "soname"})
        THEN Error("conflicting_dynamic_tag")
        ELSE IF Has(entries, "strtab") # Has(entries, "strsz")
        THEN Error("missing_required_companion_tag")
        ELSE IF ~Has(entries, "strtab")
        THEN IF Has(entries, "needed") \/ Has(entries, "soname")
             THEN Error("missing_string_table")
             ELSE Success(None)
        ELSE IF ~Create(base, size) THEN Error("guest_table_range_overflow")
        ELSE Success(Extent(base, size))

-----------------------------------------------------------------------------
(* Symbol counts: the set of the one count a hash table gives, empty without  *)
(* the table.                                                                *)

build_sysv_hash_count_evidence(view, entries) ==
    LET header == ReadRecord(view, ValueOf(entries, "hash"), 0, 2)
    IN  IF Conflicting(entries, {"hash"}) THEN Error("conflicting_dynamic_tag")
        ELSE IF ~Has(entries, "hash") THEN Success({})
        ELSE IF ~header.ok THEN header
        ELSE IF header.value[2].word = 0 THEN Error("invalid_symbol_count")
        ELSE Success({header.value[2].word})

read_word(view, location, offset) ==
    LET cells == ReadRecord(view, location, offset, 1)
    IN  IF cells.ok THEN Success(cells.value[1].word) ELSE cells

power_of_two(value) == \E k \in 0 .. value : value = 2 ^ k

BloomWordCells == 2
HeaderCells == 4
BucketsAt(bloom_words) == HeaderCells + BloomWordCells * bloom_words

highest_bucket(buckets) == Max({buckets[i] : i \in DOMAIN buckets})

\* The walk along a chain, from symbol index on, to the symbol after its end.
FollowChain(view, location, chains_at, symoffset, start) ==
    LET walk[index \in start .. MaxSymbols] ==
            LET chain == read_word(view, location, chains_at + (index - symoffset))
            IN  IF index >= MaxSymbols THEN Error("symbol_count_limit")
                ELSE IF ~chain.ok THEN chain
                ELSE IF chain.value % 2 = 1 THEN Success({index + 1})
                ELSE walk[index + 1]
    IN  walk[start]

build_gnu_hash_count_evidence(view, entries) ==
    LET location == ValueOf(entries, "gnu_hash")
        header(i) == read_word(view, location, i)
        unread == {i \in 0 .. HeaderCells - 1 : ~header(i).ok}
        nbuckets == header(0).value
        symoffset == header(1).value
        bloom_words == header(2).value
        bucket(i) == read_word(view, location, BucketsAt(bloom_words) + (i - 1))
        bad(i) == ~bucket(i).ok \/ (/\ bucket(i).value # 0
                                    /\ \/ bucket(i).value < symoffset
                                       \/ bucket(i).value >= MaxSymbols)
        first_bad == Min({i \in 1 .. nbuckets : bad(i)})
        highest == highest_bucket([i \in 1 .. nbuckets |-> bucket(i).value])
    IN  IF Conflicting(entries, {"gnu_hash"}) THEN Error("conflicting_dynamic_tag")
        ELSE IF ~Has(entries, "gnu_hash") THEN Success({})
        ELSE IF unread # {} THEN header(Min(unread))
        ELSE IF \/ nbuckets = 0 \/ nbuckets > MaxBuckets
                \/ ~power_of_two(bloom_words) \/ bloom_words > MaxBloomWords
                \/ symoffset = 0 \/ symoffset > MaxSymbols
        THEN Error("invalid_hash_header")
        ELSE IF \E i \in 1 .. nbuckets : bad(i)
        THEN IF bucket(first_bad).ok THEN Error("invalid_bucket") ELSE bucket(first_bad)
        ELSE IF highest = 0 THEN Success({symoffset})
        ELSE FollowChain(view, location, BucketsAt(bloom_words) + nbuckets,
                         symoffset, highest)

-----------------------------------------------------------------------------
(* Symbols. *)

read_symbol(view, base, index) ==
    LET cells == ReadRecord(view, base, index * SymbolSize, SymbolSize)
    IN  IF ~cells.ok THEN cells
        ELSE Success([index |-> index, name |-> cells.value[1].name,
                      binding |-> cells.value[1].binding,
                      section |-> cells.value[1].section,
                      value |-> cells.value[1].value])

is_reserved_undefined_symbol(symbol) ==
    symbol = [index |-> 0, name |-> 0, binding |-> "local", section |-> 0, value |-> 0]

\* All sources of a count must agree; only a count taken from a GNU hash makes
\* every symbol be read here.
build_dynamic_symbol_table_descriptor(view, entries) ==
    LET base == ValueOf(entries, "symtab")
        size == ValueOf(entries, "symtabsz")
        declared == IF Has(entries, "symtabsz") THEN {size \div SymbolSize} ELSE {}
        sysv == build_sysv_hash_count_evidence(view, entries)
        gnu == build_gnu_hash_count_evidence(view, entries)
        counts == declared \cup sysv.value \cup gnu.value
        count == CHOOSE c \in counts : TRUE
        range == Extent(base, count * SymbolSize)
        zero == read_symbol(view, base, 0)
    IN  IF Conflicting(entries, {"symtab", "syment", "symtabsz"})
        THEN Error("conflicting_dynamic_tag")
        ELSE IF \A tag \in {"symtab", "syment", "symtabsz", "hash", "gnu_hash"} :
                    ~Has(entries, tag)
        THEN Success(None)
        ELSE IF ~Has(entries, "symtab") \/ ~Has(entries, "syment")
        THEN Error("missing_required_companion_tag")
        ELSE IF ValueOf(entries, "syment") # SymbolSize
        THEN Error("invalid_symbol_entry_size")
        ELSE IF declared # {} /\ (size = 0 \/ size % SymbolSize # 0)
        THEN Error("invalid_symbol_table_size")
        ELSE IF ~sysv.ok THEN Error("sysv_hash_failure")
        ELSE IF ~gnu.ok THEN Error("gnu_hash_failure")
        ELSE IF counts = {} THEN Error("symbol_count_unavailable")
        ELSE IF \E c, d \in counts : c # d THEN Error("conflicting_symbol_count")
        ELSE IF ~Create(base, range.size) THEN Error("symbol_table_range_overflow")
        ELSE IF ~zero.ok THEN Error("symbol_entry_unreadable")
        ELSE IF ~is_reserved_undefined_symbol(zero.value)
        THEN Error("invalid_undefined_symbol")
        ELSE IF gnu.value # {} /\ ~copy_bytes(view, range)
        THEN Error("symbol_entry_unreadable")
        ELSE Success([range |-> range, symbol_count |-> count,
                      from_gnu_hash |-> gnu.value # {}])

parse_dynamic_symbol(view, symbols, index) ==
    IF index >= symbols.symbol_count THEN Error("symbol_index_out_of_bounds")
    ELSE read_symbol(view, symbols.range.base, index)
-----------------------------------------------------------------------------
(* Names: sequences of pieces.  A piece is plain text or a whole long form    *)
(* nid#library#module; "broken" is text with a separator too few.             *)

\* The scan stops at the first terminator, inside the table.
resolve_dynamic_string(view, strings, offset) ==
    LET at(i) == strings.base + offset + i
        scan[i \in 0 .. strings.size] ==
            IF offset + i >= strings.size THEN Error("unterminated")
            ELSE IF at(i) \notin DOMAIN view THEN Error("image_read_failure")
            ELSE IF view[at(i)].piece = "nul" THEN Success(i)
            ELSE scan[i + 1]
    IN  IF offset >= strings.size THEN Error("offset_out_of_bounds")
        ELSE IF ~scan[0].ok THEN scan[0]
        ELSE Success([i \in 1 .. scan[0].value |-> view[at(i - 1)].piece])

Plain == {"plain"}

\* Text behind a long form belongs to its module; anything else around a
\* separator is malformed.
parse_sce_dynamic_symbol_name(raw) ==
    IF \A i \in DOMAIN raw : raw[i] \in Plain THEN Success(<<>>)
    ELSE IF /\ raw[1] \notin Plain \cup {"broken"}
            /\ \A i \in 2 .. Len(raw) : raw[i] \in Plain
    THEN Success(raw)
    ELSE Error("malformed_long_form")

\* The identity of a name without one is the empty sequence.
materialize_sce_dynamic_symbol(view, symbols, strings, index) ==
    LET symbol == parse_dynamic_symbol(view, symbols, index)
        raw == resolve_dynamic_string(view, strings, symbol.value.name)
        name == parse_sce_dynamic_symbol_name(raw.value)
    IN  IF ~symbol.ok THEN symbol
        ELSE IF ~raw.ok THEN raw
        ELSE IF ~name.ok THEN name
        ELSE Success([symbol |-> symbol.value, identity |-> name.value])

-----------------------------------------------------------------------------
(* Relocations. *)

expected_entry_size(kind) == IF kind \in {"rel", "plt_rel"} THEN RelSize ELSE RelaSize

Descriptor(kind, base, size) ==
    IF size % expected_entry_size(kind) # 0 THEN Error("invalid_relocation_table_size")
    ELSE IF ~Create(base, size) THEN Error("relocation_table_range_overflow")
    ELSE Success([kind |-> kind, range |-> Extent(base, size),
                  count |-> size \div expected_entry_size(kind)])

build_group(entries, kind, address_tag, size_tag, entry_tag) ==
    IF \A tag \in {address_tag, size_tag, entry_tag} : ~Has(entries, tag)
    THEN Success(None)
    ELSE IF \E tag \in {address_tag, size_tag, entry_tag} : ~Has(entries, tag)
    THEN Error("missing_required_companion_tag")
    ELSE IF ValueOf(entries, entry_tag) # expected_entry_size(kind)
    THEN Error("invalid_relocation_entry_size")
    ELSE Descriptor(kind, ValueOf(entries, address_tag), ValueOf(entries, size_tag))

build_general_dynamic_relocation_metadata(entries) ==
    LET rel == build_group(entries, "rel", "rel", "relsz", "relent")
        rela == build_group(entries, "rela", "rela", "relasz", "relaent")
    IN  IF Conflicting(entries, {"rel", "relsz", "relent", "rela", "relasz", "relaent"})
        THEN Error("conflicting_dynamic_tag")
        ELSE IF ~rel.ok THEN rel
        ELSE IF ~rela.ok THEN rela
        ELSE Success([rel |-> rel.value, rela |-> rela.value])

\* The value of DT_PLTREL is the tag of the encoding.
build_plt_dynamic_relocation_metadata(entries) ==
    LET tags == {"jmprel", "pltrelsz", "pltrel"}
        encoding == ValueOf(entries, "pltrel")
    IN  IF Conflicting(entries, tags) THEN Error("conflicting_dynamic_tag")
        ELSE IF \A tag \in tags : ~Has(entries, tag) THEN Success(None)
        ELSE IF \E tag \in tags : ~Has(entries, tag)
        THEN Error("missing_required_companion_tag")
        ELSE IF encoding \notin {"rel", "rela"}
        THEN Error("invalid_plt_relocation_encoding")
        ELSE Descriptor(IF encoding = "rel" THEN "plt_rel" ELSE "plt_rela",
                        ValueOf(entries, "jmprel"), ValueOf(entries, "pltrelsz"))

\* Only a RELA record has an addend.
parse_dynamic_relocation(view, descriptor, index, symbols) ==
    LET size == expected_entry_size(descriptor.kind)
        cells == ReadRecord(view, descriptor.range.base, index * size, size)
        head == cells.value[1]
    IN  IF index >= descriptor.count THEN Error("relocation_index_out_of_bounds")
        ELSE IF ~cells.ok THEN cells
        ELSE IF head.symbol >= symbols.symbol_count
        THEN Error("relocation_symbol_index_out_of_bounds")
        ELSE Success([kind |-> descriptor.kind, target |-> head.target,
                      symbol |-> head.symbol, type |-> head.type,
                      addend |-> IF size = RelaSize THEN {cells.value[2].addend} ELSE {}])

-----------------------------------------------------------------------------
(* The dynamic part of build_guest_image. *)

\* The entries of the one dynamic segment; none without it.
DynamicEntries(segments) ==
    IF Len(segments) > 1 THEN Error("duplicate_dynamic_segment")
    ELSE IF segments = <<>> THEN Success(<<>>)
    ELSE parse_dynamic_table(segments[1])

\* The tables the entries name, with the view they are read through.
ReadTables(view, entries) ==
    LET strings == build_dynamic_string_metadata(entries)
        symbols == build_dynamic_symbol_table_descriptor(view, entries)
        general == build_general_dynamic_relocation_metadata(entries)
        plt == build_plt_dynamic_relocation_metadata(entries)
        used == {d \in {general.value.rel, general.value.rela, plt.value} :
                    d # None /\ d.count > 0}
    IN  IF ~strings.ok THEN strings
        ELSE IF ~symbols.ok THEN symbols
        ELSE IF ~general.ok THEN general
        ELSE IF ~plt.ok THEN plt
        ELSE IF used # {} /\ symbols.value = None
        THEN Error("missing_dynamic_symbol_table")
        ELSE Success([view |-> view, strings |-> strings.value,
                      symbols |-> symbols.value, rel |-> general.value.rel,
                      rela |-> general.value.rela, plt |-> plt.value])
=============================================================================
