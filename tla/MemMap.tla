------------------------------- MODULE MemMap -------------------------------
(* The guest address space of unicorn without snapshots: uc->mapped_blocks,  *)
(* an array of regions sorted by address that uc_mem_map, uc_mem_map_ptr,    *)
(* uc_mmio_map, uc_mem_unmap and uc_mem_protect change, splitting regions    *)
(* where a call names a part of one.                                         *)
(*                                                                           *)
(* The unit of addresses and sizes is one page: the alignment checks refuse  *)
(* everything else.  Addresses are counted modulo P, the code counts them    *)
(* modulo 2^64, so that a region that reaches the top of the address space   *)
(* has end = 0.  system_memory holds the same regions as mapped_blocks as    *)
(* long as no snapshot is taken, and its flat view, which memory_mapping     *)
(* searches, counts in 128 bits and does not wrap.                           *)
EXTENDS Integers, FiniteSets, SequencesExt

CONSTANTS
    P,          \* number of pages of the address space, 2^52 in the code
    Highest,    \* the highest page the client maps
    Perms,      \* permissions the client asks for, sets of "READ" and "WRITE"
    Cbs,        \* callbacks the client gives to uc_mmio_map, likewise
    Tag, Zero,  \* contents of a page of RAM, Zero when it is fresh
    Host,       \* first host pages the client gives to uc_mem_map_ptr
    Plenty,     \* more allocations of guest memory than any call needs
    Room        \* how many allocations a call may get before malloc fails

ASSUME MemAssumption ==
    /\ P \in Nat \ {0} /\ Highest \in 0..P-1
    /\ Perms \subseteq SUBSET {"READ", "WRITE"} /\ Cbs \subseteq SUBSET {"READ", "WRITE"}
    /\ Zero \in Tag /\ Host \subseteq Nat /\ Plenty \in Nat /\ Room \subseteq 0..Plenty

VARIABLES
    mapped_blocks,  \* the regions, a sequence
    ret             \* the result of the last call

vars == <<mapped_blocks, ret>>

Wrap(n) == n % P

\* The pages of [address, address + size), as the flat view has them.
Pages(address, size) == {Wrap(address + i) : i \in 0..size-1}

\* data gives for each page of the region its content (ram), the host page
\* that holds it (ptr) or the callbacks that serve it (io).
Region(kind, address, size, perms, readonly, data) ==
    [kind |-> kind, addr |-> address, size |-> size, end |-> Wrap(address + size),
     perms |-> perms, readonly |-> readonly, data |-> data]

memory_map(address, size, perms, data) ==
    Region("ram", address, size, perms, "WRITE" \notin perms, data)

memory_map_ptr(address, size, perms, data) ==
    Region("ptr", address, size, perms, FALSE, data)

memory_map_io(address, size, cbs) ==
    Region("io", address, size, cbs, FALSE, [i \in 0..size-1 |-> cbs])

Init == mapped_blocks = <<>> /\ ret = "OK"

-----------------------------------------------------------------------------
(* Searching. *)

\* The position of the region that holds a page, 0 if there is none.
memory_mapping(blocks, address) ==
    LET found == {i \in DOMAIN blocks : Wrap(address - blocks[i].addr) < blocks[i].size}
    IN  IF found = {} THEN 0 ELSE CHOOSE i \in found : TRUE

memory_region_len(mr, address, count) == Min({count, Wrap(mr.end - address)})

RECURSIVE check_mem_area(_, _, _)
check_mem_area(blocks, address, size) ==
    LET i == memory_mapping(blocks, address)
        len == memory_region_len(blocks[i], address, size)
    IN  \/ size = 0
        \/ i # 0 /\ check_mem_area(blocks, Wrap(address + len), size - len)

\* Mutant: the end of a region is taken for its last page.
bsearch_mapped_blocks_end(blocks, address) ==
    LET search[left \in 0..Len(blocks), right \in 0..Len(blocks)] ==
            LET mid == left + (right - left) \div 2
                mapping == blocks[mid + 1]
            IN  IF left >= right THEN left
                ELSE IF mapping.end < address THEN search[mid + 1, right]
                ELSE IF mapping.addr > address THEN search[left, mid]
                ELSE mid
    IN  search[0, Len(blocks)]

\* Positions are counted from 0, as in the code.
bsearch_mapped_blocks(blocks, address) ==
    LET search[left \in 0..Len(blocks), right \in 0..Len(blocks)] ==
            LET mid == left + (right - left) \div 2
                mapping == blocks[mid + 1]
            IN  IF left >= right THEN left
                ELSE IF Wrap(mapping.end - 1) < address THEN search[mid + 1, right]
                ELSE IF mapping.addr > address THEN search[left, mid]
                ELSE mid
    IN  search[0, Len(blocks)]

\* Mutant: a range that reaches only the first page of a region overlaps nothing.
memory_overlap_firstpage(blocks, begin, size) ==
    LET i == bsearch_mapped_blocks(blocks, begin)
    IN  i < Len(blocks) /\ Wrap(begin + size - 1) > blocks[i + 1].addr

memory_overlap(blocks, begin, size) ==
    LET i == bsearch_mapped_blocks(blocks, begin)
    IN  i < Len(blocks) /\ Wrap(begin + size - 1) >= blocks[i + 1].addr

mem_map_check(blocks, address, size) ==
    IF size = 0 \/ Wrap(address + size - 1) < address THEN "ARG"
    ELSE IF memory_overlap(blocks, address, size) THEN "MAP"
    ELSE "OK"

mem_map(blocks, block) ==
    InsertAt(blocks, bsearch_mapped_blocks(blocks, block.addr) + 1, block)

memory_unmap(blocks, i) == RemoveAt(blocks, i)

-----------------------------------------------------------------------------
(* Splitting.  A call under way is a record: whether it has succeeded so far, *)
(* the regions, and how many allocations of guest memory will still succeed.  *)

Running(room) == [ok |-> TRUE, blocks |-> mapped_blocks, room |-> room]

Failed(s) == [s EXCEPT !.ok = FALSE]

\* Map again the pages [begin, begin + size) of mr, offset pages into it.
\* RAM is allocated anew and written from the backup copy.
Remap(s, mr, begin, size, offset) ==
    LET data == [i \in 0..size-1 |-> mr.data[offset + i]]
        piece == CASE mr.kind = "ram" -> memory_map(begin, size, mr.perms, data)
                   [] mr.kind = "ptr" -> memory_map_ptr(begin, size, mr.perms, data)
                   [] mr.kind = "io" -> memory_map_io(begin, size, mr.data[0])
    IN  IF ~s.ok \/ size = 0 THEN s
        ELSE IF mem_map_check(s.blocks, begin, size) # "OK" THEN Failed(s)
        ELSE IF mr.kind # "ram" THEN [s EXCEPT !.blocks = mem_map(@, piece)]
        ELSE IF s.room = 0 THEN Failed(s)
        ELSE [s EXCEPT !.blocks = mem_map(@, piece), !.room = @ - 1]

\* Mutant: the right part is filled from the start of the middle one.
Pieces_offset(s, i, address, chunk_end, do_delete) ==
    LET mr == s.blocks[i]
        lo == IF address < mr.addr THEN mr.addr ELSE address
        hi == IF chunk_end > mr.end THEN mr.end ELSE chunk_end
        l_size == Wrap(lo - mr.addr)
        m_size == Wrap(hi - lo)
        r_size == Wrap(mr.end - hi)
        gone == [s EXCEPT !.blocks = memory_unmap(@, i)]
        left == Remap(gone, mr, mr.addr, l_size, 0)
        middle == IF do_delete THEN left ELSE Remap(left, mr, lo, m_size, l_size)
    IN  Remap(middle, mr, hi, r_size, l_size)

\* The region at position i is gone; its parts left of, inside (unless the
\* call is uc_mem_unmap) and right of [address, chunk_end) are mapped again.
Pieces(s, i, address, chunk_end, do_delete) ==
    LET mr == s.blocks[i]
        lo == IF address < mr.addr THEN mr.addr ELSE address
        hi == IF chunk_end > mr.end THEN mr.end ELSE chunk_end
        l_size == Wrap(lo - mr.addr)
        m_size == Wrap(hi - lo)
        r_size == Wrap(mr.end - hi)
        gone == [s EXCEPT !.blocks = memory_unmap(@, i)]
        left == Remap(gone, mr, mr.addr, l_size, 0)
        middle == IF do_delete THEN left ELSE Remap(left, mr, lo, m_size, l_size)
    IN  Remap(middle, mr, hi, r_size, l_size + m_size)

split_mmio_region(s, i, address, size, do_delete) ==
    LET mr == s.blocks[i]
        chunk_end == Wrap(address + size)
    IN  IF address <= mr.addr /\ chunk_end >= mr.end THEN s
        ELSE IF size = 0 THEN Failed(s)
        ELSE Pieces(s, i, address, chunk_end, do_delete)

\* The backup copy of RAM is an allocation too, freed at the end.
split_region(s, i, address, size, do_delete) ==
    LET mr == s.blocks[i]
        chunk_end == Wrap(address + size)
        copied == IF mr.kind = "ram" THEN [s EXCEPT !.room = @ - 1] ELSE s
    IN  IF (address <= mr.addr /\ chunk_end >= mr.end) \/ size = 0 THEN s
        ELSE IF address >= mr.end \/ chunk_end <= mr.addr THEN Failed(s)
        ELSE IF mr.kind = "ram" /\ s.room = 0 THEN Failed(s)
        ELSE Pieces(copied, i, address, chunk_end, do_delete)

Split(s, i, address, size, do_delete) ==
    IF s.blocks[i].kind = "io"
    THEN split_mmio_region(s, i, address, size, do_delete)
    ELSE split_region(s, i, address, size, do_delete)

-----------------------------------------------------------------------------
(* The calls that may split regions, as functions of the regions. *)

Granted(mr, perms) ==
    [mr EXCEPT !.perms = perms,
               !.readonly = IF mr.kind = "io" THEN @ ELSE "WRITE" \notin perms]

RECURSIVE ProtectLoop(_, _, _, _)
ProtectLoop(s, addr, left, perms) ==
    LET i == memory_mapping(s.blocks, addr)
        len == memory_region_len(s.blocks[i], addr, left)
        t == Split(s, i, addr, len, FALSE)
        j == memory_mapping(t.blocks, addr)
        granted == [t EXCEPT !.blocks[j] = Granted(@, perms)]
    IN  IF left = 0 THEN s
        ELSE IF ~t.ok THEN t
        ELSE ProtectLoop(granted, Wrap(addr + len), left - len, perms)

RECURSIVE UnmapLoop(_, _, _)
UnmapLoop(s, addr, left) ==
    LET i == memory_mapping(s.blocks, addr)
        len == memory_region_len(s.blocks[i], addr, left)
        t == Split(s, i, addr, len, TRUE)
        j == memory_mapping(t.blocks, addr)
        gone == IF j = 0 THEN t ELSE [t EXCEPT !.blocks = memory_unmap(@, j)]
    IN  IF left = 0 THEN s
        ELSE IF ~t.ok THEN t
        ELSE UnmapLoop(gone, Wrap(addr + len), left - len)

Result(s) == IF s.ok THEN "OK" ELSE "NOMEM"

Unmapping(address, size, room) ==
    IF check_mem_area(mapped_blocks, address, size)
    THEN UnmapLoop(Running(room), address, size)
    ELSE Failed(Running(room))

Protecting(address, size, perms, room) ==
    IF check_mem_area(mapped_blocks, address, size)
    THEN ProtectLoop(Running(room), address, size, perms)
    ELSE Failed(Running(room))

-----------------------------------------------------------------------------
(* The API. *)

\* Arguments that are not aligned or not permissions.
uc_err_arg == ret' = "ARG" /\ UNCHANGED mapped_blocks

MapBlock(address, size, block) ==
    LET res == mem_map_check(mapped_blocks, address, size)
    IN  /\ ret' = res
        /\ mapped_blocks' = IF res = "OK" THEN mem_map(mapped_blocks, block)
                                          ELSE mapped_blocks

uc_mem_map(address, size, perms) ==
    MapBlock(address, size,
             memory_map(address, size, perms, [i \in 0..size-1 |-> Zero]))

\* The new region, or the array, cannot be allocated.
uc_mem_map_nomem(address, size) ==
    /\ 0 \in Room
    /\ mem_map_check(mapped_blocks, address, size) = "OK"
    /\ ret' = "NOMEM"
    /\ UNCHANGED mapped_blocks

uc_mem_map_ptr(address, size, perms, ptr) ==
    MapBlock(address, size,
             memory_map_ptr(address, size, perms, [i \in 0..size-1 |-> ptr + i]))

uc_mmio_map(address, size, cbs) ==
    MapBlock(address, size, memory_map_io(address, size, cbs))

\* Fewer allocations than plenty matter only where they make the call fail.
uc_mem_protect(address, size, perms, room) ==
    LET s == Protecting(address, size, perms, room)
    IN  /\ room = Plenty \/ (~s.ok /\ s.room = 0)
        /\ mapped_blocks' = s.blocks
        /\ ret' = Result(s)

uc_mem_unmap(address, size, room) ==
    LET s == Unmapping(address, size, room)
    IN  /\ room = Plenty \/ (~s.ok /\ s.room = 0)
        /\ mapped_blocks' = s.blocks
        /\ ret' = Result(s)

\* Write-protected regions are made writable for the time of the write.
\* Host memory and devices are outside the model.
Writable(mr) == ~mr.readonly \/ "WRITE" \notin mr.perms

WriteRegion(mr, pages, tag) ==
    IF Pages(mr.addr, mr.size) \cap pages = {} THEN mr
    ELSE [mr EXCEPT
            !.readonly = @ \/ (mr.kind # "io" /\ "WRITE" \notin mr.perms),
            !.data = IF mr.kind # "ram" \/ ~Writable(mr) THEN @
                     ELSE [i \in DOMAIN @ |->
                             IF Wrap(mr.addr + i) \in pages THEN tag ELSE @[i]]]

uc_mem_write(address, size, tag) ==
    IF check_mem_area(mapped_blocks, address, size)
    THEN /\ mapped_blocks' = [i \in DOMAIN mapped_blocks |->
                WriteRegion(mapped_blocks[i], Pages(address, size), tag)]
         /\ ret' = "OK"
    ELSE ret' = "UNMAPPED" /\ UNCHANGED mapped_blocks

Next ==
    \/ uc_err_arg
    \/ \E address \in 0..P-1, size \in 0..P-1 :
           \/ /\ address + size - 1 \notin Highest+1..P-1
              /\ \/ \E perms \in Perms : uc_mem_map(address, size, perms)
                 \/ uc_mem_map_nomem(address, size)
                 \/ \E perms \in Perms, ptr \in Host :
                        uc_mem_map_ptr(address, size, perms, ptr)
                 \/ \E cbs \in Cbs : uc_mmio_map(address, size, cbs)
           \/ \E perms \in Perms, room \in Room :
                  uc_mem_protect(address, size, perms, room)
           \/ \E room \in Room : uc_mem_unmap(address, size, room)
           \/ \E tag \in Tag \ {Zero} : uc_mem_write(address, size, tag)

Spec == Init /\ [][Next]_vars

-----------------------------------------------------------------------------
(* Properties. *)

IsRegion(mr) ==
    /\ mr.kind \in {"ram", "ptr", "io"}
    /\ mr.addr \in 0..P-1 /\ mr.size \in 1..P-1 /\ mr.end = Wrap(mr.addr + mr.size)
    /\ mr.perms \in SUBSET {"READ", "WRITE"} /\ mr.readonly \in BOOLEAN
    /\ DOMAIN mr.data = 0..mr.size-1
    /\ \A i \in DOMAIN mr.data :
           mr.data[i] \in CASE mr.kind = "ram" -> Tag
                            [] mr.kind = "ptr" -> Nat
                            [] mr.kind = "io" -> Cbs

\* mapped_blocks is sorted by address and no two regions overlap, whatever
\* sequence of maps, splits and failures built it (uc_mem_regions relies on it),
\* and bsearch_mapped_blocks returns what its comment says: every earlier region
\* lies below the address, and the region at the result ends above it.
SearchExact ==
    LET last(k) == mapped_blocks[k].addr + mapped_blocks[k].size - 1 IN
    /\ \A k \in DOMAIN mapped_blocks : IsRegion(mapped_blocks[k])
    /\ \A j, k \in DOMAIN mapped_blocks : j < k => last(j) < mapped_blocks[k].addr
    /\ \A address \in 0..P-1 :
           LET i == bsearch_mapped_blocks(mapped_blocks, address)
           IN  \A k \in DOMAIN mapped_blocks : k <= i <=> last(k) < address

Mapped == UNION {Pages(mapped_blocks[i].addr, mapped_blocks[i].size) :
                    i \in DOMAIN mapped_blocks}

\* Given enough memory the calls answer by the pages they name alone: mapping
\* succeeds exactly on free pages, uc_mem_unmap and uc_mem_protect succeed
\* exactly on mapped ones, however these are divided into regions.
RepliesExact ==
    \A address \in 0..P-1, size \in 1..P-1 :
        LET pages == Pages(address, size)
            reply == IF pages \subseteq Mapped THEN "OK" ELSE "NOMEM"
        IN  /\ address + size <= P =>
                 (mem_map_check(mapped_blocks, address, size) = "OK"
                    <=> pages \cap Mapped = {})
            /\ Result(Unmapping(address, size, Plenty)) = reply
            /\ \A perms \in Perms :
                 Result(Protecting(address, size, perms, Plenty)) = reply

-----------------------------------------------------------------------------
(* The address space the regions stand for. *)

Unmapped == [kind |-> "none"]

\* The cell of a page.  The permissions of device pages are left out: splitting
\* their region gives them back those of its callbacks (split_mmio_region).
CellAt(address) ==
    LET i == memory_mapping(mapped_blocks, address)
        mr == mapped_blocks[i]
    IN  IF i = 0 THEN Unmapped
        ELSE [kind |-> mr.kind,
              perms |-> IF mr.kind = "io" THEN {} ELSE mr.perms,
              data |-> mr.data[Wrap(address - mr.addr)]]

GrantedCell(cell, perms) ==
    IF cell.kind = "io" THEN cell ELSE [cell EXCEPT !.perms = perms]

WrittenCell(cell, tag) ==
    IF cell.kind = "ram" THEN [cell EXCEPT !.data = tag] ELSE cell

Ranges == {Pages(address, size) : address \in 0..P-1, size \in 0..P-1}

\* What uc_mem_map, uc_mem_map_ptr and uc_mmio_map make of a range of pages.
NewCells(S) ==
    {[p \in S |-> [kind |-> "ram", perms |-> perms, data |-> Zero]] : perms \in Perms}
    \cup {[p \in S |-> [kind |-> "ptr", perms |-> perms, data |-> ptr + p - Min(S)]] :
              perms \in Perms, ptr \in Host}
    \cup {[p \in S |-> [kind |-> "io", perms |-> {}, data |-> cbs]] :
              cbs \in Cbs}

Memory == INSTANCE AddressSpace WITH
    Page <- 0..P-1, space <- [p \in 0..P-1 |-> CellAt(p)],
    Granted <- GrantedCell, Written <- WrittenCell, New <- NewCells

\* Splitting and rebuilding regions is invisible: every call changes exactly
\* the pages it names, and a page keeps its content, its host page and its
\* permissions through every split of the region around it.
ImplementsMemory == Memory!Spec
=============================================================================
