----------------------------- MODULE Snapshots -----------------------------
(***************************************************************************)
(* Memory snapshots: uc_context_save and uc_context_restore with           *)
(* UC_CTL_CONTEXT_MEMORY.  A snapshot copies no memory, it raises          *)
(* uc->snapshot_level.  A write to a region older than the level first     *)
(* copies the pages into a new region (memory_cow), which a container      *)
(* holds in front of the old one; restoring takes the flat view from the   *)
(* context and frees the regions of the levels above it.  A region         *)
(* unmapped under a snapshot is moved out of the tree and kept.            *)
(*                                                                         *)
(* Addresses of regions count pages; a page has Cells cells.  Regions are  *)
(* numbered; a number is used again when nothing refers to the region.     *)
(* Level 0 calls of uc_mem_unmap and uc_mem_protect are modelled in MemMap.*)
(***************************************************************************)
EXTENDS Integers, FiniteSets, SequencesExt, FiniteSetsExt

CONSTANTS
    Id,         \* numbers for regions, 1 .. n
    Page,       \* the pages of the address space
    Cells,      \* cells of a page
    Val,        \* contents of a cell; 0 when it is fresh
    Unmapped, Junk,     \* what a cell reads as when it is unmapped or freed
    Ctx,        \* the contexts of the program
    Maps,       \* what it maps: page, size, host pointer or not, writable or not
    Unmaps,     \* what it unmaps: page and size
    Writes,     \* what it writes: page, cell and number of cells
    Rules,      \* the rules it keeps (see below)
    MaxLevel,   \* bound on snapshot_level, INT32_MAX in the code
    MaxOps      \* calls in a behaviour

ASSUME SnapAssumption ==
    /\ Cells \in Nat \ {0} /\ 0 \in Val /\ Unmapped \notin Val /\ Junk \notin Val
    /\ Rules \subseteq {"inpage", "mapping", "unmapping", "writable", "order", "lifo"}

VARIABLES
    uc,     \* the engine: mr, the regions; sys, the subregions of system_memory;
            \* flat, the current flat view; mapped_blocks; unmapped_regions;
            \* snapshot_level
    ctx,    \* the saved contexts
    ret,    \* the result of the last call, the context for a successful restore
    ops

vars == <<uc, ctx, ret, ops>>

\* A region: its kind, address in its container, size, priority and container (0 for
\* system_memory, -1 for NULL), the level it was moved out at, its permission
\* and read-only flag, its pages and its subregions, highest priority first.
NoRegion == [kind |-> "none", addr |-> 0, size |-> 0, priority |-> 0, container |-> -1, out |-> 0,
             wr |-> FALSE, readonly |-> FALSE, data |-> <<>>, subs |-> <<>>]
Fresh(size) == [k \in 0 .. size - 1 |-> [c \in 0 .. Cells - 1 |-> 0]]
NoSection == [id |-> 0, off |-> 0]
NoContext == [level |-> 0, fv |-> <<>>, was |-> <<>>]

Init ==
    /\ uc = [mr |-> [i \in Id |-> NoRegion], sys |-> <<>>, flat |-> [p \in Page |-> NoSection],
             mapped_blocks |-> <<>>, unmapped_regions |-> <<>>, level |-> 0]
    /\ ctx = [c \in Ctx |-> NoContext]
    /\ ret = "OK" /\ ops = 0

-----------------------------------------------------------------------------
(* The tree of regions and its flat view. *)

\* Address of a region in the address space.
Abs(s, i) ==
    LET r == s.mr[i] IN IF r.container > 0 THEN r.addr + s.mr[r.container].addr ELSE r.addr

\* The regions with memory, in the order render_memory_region meets them.
Leaves(s) ==
    FlattenSeq([k \in DOMAIN s.sys |->
        IF s.mr[s.sys[k]].kind = "container" THEN s.mr[s.sys[k]].subs ELSE <<s.sys[k]>>])

\* generate_memory_topology: the first region that covers a page shows.
Rendered(s) ==
    LET L == Leaves(s) IN
    [p \in Page |->
        LET shows == {k \in DOMAIN L : p - Abs(s, L[k]) \in 0 .. s.mr[L[k]].size - 1}
        IN  IF shows = {} THEN NoSection
            ELSE [id |-> L[Min(shows)], off |-> p - Abs(s, L[Min(shows)])]]

\* memory_region_transaction_commit.
Commit(s) == [s EXCEPT !.flat = Rendered(s)]

\* memory_region_update_container_subregions: before the first of lower or equal
\* priority.
Insert(s, list, i, priority) ==
    InsertAt(list, Min({k \in DOMAIN list : priority >= s.mr[list[k]].priority} \cup {Len(list) + 1}), i)

\* memory_region_add_subregion_overlap to system_memory (c = 0) or a container.
AddSubregion(s, c, offset, i, priority) ==
    LET r == [s.mr[i] EXCEPT !.addr = offset, !.priority = priority, !.container = c]
        t == [s EXCEPT !.mr[i] = r]
    IN  Commit(IF c = 0 THEN [t EXCEPT !.sys = Insert(s, @, i, priority)]
               ELSE [t EXCEPT !.mr[c].subs = Insert(s, @, i, priority)])

\* memory_region_del_subregion from system_memory.
DelSubregion(s, i) ==
    Commit([s EXCEPT !.mr[i].container = -1, !.sys = SelectSeq(@, LAMBDA j : j # i)])

Alloc(s) == Min({i \in Id : s.mr[i].kind = "none"})
New(s, i, kind, size, wr, data) ==
    [s EXCEPT !.mr[i] = [NoRegion EXCEPT !.kind = kind, !.size = size, !.wr = wr,
                                         !.readonly = kind = "ram" /\ ~wr, !.data = data]]

\* The destructor and g_free.
Free(s, i) == [s EXCEPT !.mr[i].kind = "freed", !.mr[i].subs = <<>>]

-----------------------------------------------------------------------------
(* uc->mapped_blocks. *)

End(r) == r.addr + r.size

bsearch_mapped_blocks(s, address) ==
    LET n == Len(s.mapped_blocks)
        search[left \in 0 .. n, right \in 0 .. n] ==
            LET mid == left + (right - left) \div 2
                mapping == s.mr[s.mapped_blocks[mid + 1]]
            IN  IF left >= right THEN left
                ELSE IF End(mapping) - 1 < address THEN search[mid + 1, right]
                ELSE IF mapping.addr > address THEN search[left, mid]
                ELSE mid
    IN  search[0, n]

memory_overlap(s, begin, size) ==
    LET i == bsearch_mapped_blocks(s, begin)
    IN  i < Len(s.mapped_blocks) /\ begin + size - 1 >= s.mr[s.mapped_blocks[i + 1]].addr

mem_map(s, i) ==
    [s EXCEPT !.mapped_blocks = InsertAt(@, bsearch_mapped_blocks(s, s.mr[i].addr) + 1, i)]

\* memory_region_remove_mapped_block.
RemoveBlock(s, i) == [s EXCEPT !.mapped_blocks = SelectSeq(@, LAMBDA j : j # i)]

-----------------------------------------------------------------------------
(* Copy on write. *)

\* A container takes the place of the region; the flat view stays as it is.
make_contained(s, i) ==
    LET c == Alloc(s)
        box == [NoRegion EXCEPT !.kind = "container", !.addr = s.mr[i].addr, !.size = s.mr[i].size,
                                !.container = 0, !.subs = <<i>>]
        t == [s EXCEPT !.mr[c] = box, !.mr[i].addr = 0, !.mr[i].container = c]
    IN  [t EXCEPT !.sys = Insert(t, SelectSeq(@, LAMBDA j : j # i), c, 0)]

\* Mutant: the offset into the copied region is taken from the container.
memory_cow_offset(s, current, begin, size) ==
    LET t == IF s.mr[current].container = 0 THEN make_contained(s, current) ELSE s
        r == t.mr[current]
        offset == begin - t.mr[r.container].addr
        n == Alloc(t)
    IN  AddSubregion(New(t, n, "ram", size, r.wr,
                         [k \in 0 .. size - 1 |-> IF k \in DOMAIN r.data THEN r.data[k] ELSE Fresh(1)[0]]),
                     r.container, offset, n, s.level)

\* The pages begin .. begin + size - 1 of region current get a region of their own.
memory_cow(s, current, begin, size) ==
    LET t == IF s.mr[current].container = 0 THEN make_contained(s, current) ELSE s
        r == t.mr[current]
        offset == begin - t.mr[r.container].addr
        n == Alloc(t)
    IN  AddSubregion(New(t, n, "ram", size, r.wr, [k \in 0 .. size - 1 |-> r.data[offset - r.addr + k]]),
                     r.container, offset, n, s.level)

NeedsCow(s, i) == s.level > 0 /\ s.level > s.mr[i].priority

\* Mutant: the flag is only ever set.
SetReadonly_only(s, i, readonly) ==
    IF ~readonly THEN s ELSE Commit([s EXCEPT !.mr[i].readonly = readonly])

\* memory_region_set_readonly.
SetReadonly(s, i, readonly) ==
    IF s.mr[i].readonly = readonly THEN s ELSE Commit([s EXCEPT !.mr[i].readonly = readonly])

\* A cell is a page and a number.  The n cells from cell a on:
Span(a, n) == {<<a[1] + (a[2] + k) \div Cells, (a[2] + k) % Cells>> : k \in 0 .. n - 1}

\* cpu_physical_memory_rw through the flat view; it fails for read-only regions.
WriteMem(s, S, v) ==
    LET section(p) == s.flat[p]
        at(i, k) == {c \in 0 .. Cells - 1 : \E a \in S : a[2] = c /\ section(a[1]) = [id |-> i, off |-> k]}
    IN  [s EXCEPT !.mr = [i \in Id |->
            IF s.mr[i].readonly THEN s.mr[i]
            ELSE [s.mr[i] EXCEPT !.data = [k \in DOMAIN @ |->
                    [c \in DOMAIN @[k] |-> IF c \in at(i, k) THEN v ELSE @[k][c]]]]]]
WriteFails(s, S) == \E a \in S : s.mr[s.flat[a[1]].id].readonly

Advance(a, n) == <<a[1] + (a[2] + n) \div Cells, (a[2] + n) % Cells>>

\* The loop of uc_mem_write over the regions of the range.  (WRITE_FAILED is
\* UC_ERR_WRITE_UNMAPPED, for a range that is mapped.)
RECURSIVE WriteLoop(_, _, _, _)
WriteLoop(s, a, n, v) ==
    LET i   == s.flat[a[1]].id
        len == Min({n, (Abs(s, i) + s.mr[i].size - a[1]) * Cells - a[2]})
        s1  == IF s.mr[i].wr THEN s ELSE SetReadonly(s, i, FALSE)
        s2  == IF NeedsCow(s1, i)
               THEN memory_cow(s1, i, a[1], (a[2] + len + Cells - 1) \div Cells) ELSE s1
        mr  == s2.flat[a[1]].id
        s3  == WriteMem(s2, Span(a, len), v)
        s4  == IF s.mr[i].wr THEN s3 ELSE SetReadonly(s3, mr, TRUE)
    IN  IF n = 0 THEN [s |-> s, ret |-> "OK"]
        ELSE IF WriteFails(s2, Span(a, len)) THEN [s |-> s3, ret |-> "WRITE_FAILED"]
        ELSE WriteLoop(s4, Advance(a, len), n - len, v)

-----------------------------------------------------------------------------
(* Restoring. *)

\* Mutant: the copies of the restored level stay.
memory_region_filter_subregions_above(s, i, level) ==
    LET gone == {j \in Range(s.mr[i].subs) : s.mr[j].priority > level}
    IN  [s EXCEPT !.mr = [j \in Id |-> IF j \in gone THEN [s.mr[j] EXCEPT !.kind = "freed", !.subs = <<>>]
                                       ELSE s.mr[j]],
                  !.mr[i].subs = SelectSeq(s.mr[i].subs, LAMBDA j : j \notin gone)]

\* Mutant: the copies are freed and stay in the list.
memory_region_filter_subregions_keep(s, i, level) ==
    LET gone == {j \in Range(s.mr[i].subs) : s.mr[j].priority >= level}
    IN  [s EXCEPT !.mr = [j \in Id |-> IF j \in gone THEN [s.mr[j] EXCEPT !.kind = "freed", !.subs = <<>>]
                                       ELSE s.mr[j]]]

memory_region_filter_subregions(s, i, level) ==
    LET gone == {j \in Range(s.mr[i].subs) : s.mr[j].priority >= level}
        t == [s EXCEPT !.mr = [j \in Id |-> IF j \in gone THEN [s.mr[j] EXCEPT !.kind = "freed", !.subs = <<>>]
                                            ELSE s.mr[j]]]
    IN  [t EXCEPT !.mr[i].subs = SelectSeq(@, LAMBDA j : j \notin gone)]

\* memory_unmap; the region is freed if it is one of mapped_blocks.
memory_unmap(s, i) ==
    LET t == RemoveBlock(DelSubregion(s, i), i)
    IN  IF i \in Range(s.mapped_blocks) THEN Free(t, i) ELSE t

\* The first loop of uc_restore_latest_snapshot.
Drop(s, i) ==
    LET t == memory_region_filter_subregions(s, i, s.level)
    IN  IF t.mr[i].priority >= s.level \/ (t.mr[i].kind = "container" /\ t.mr[i].subs = <<>>)
        THEN memory_unmap(t, i) ELSE t

\* "The initial region" of memory_moveout and of the second loop.
FirstSub(s, i) == IF s.mr[i].subs = <<>> THEN i ELSE Head(s.mr[i].subs)

memory_movein(s, i) == AddSubregion(s, 0, s.mr[i].addr, i, s.mr[i].priority)

\* The second loop: the regions moved out since the snapshot come back, the last
\* one first.
RECURSIVE BringBack(_)
BringBack(s) ==
    LET i == Last(s.unmapped_regions)
        initial_mr == FirstSub(s, i)
        s1 == [s EXCEPT !.mr[i].out = 0]
        s2 == memory_region_filter_subregions(memory_movein(s1, i), i, s.level)
        s3 == [mem_map(s2, initial_mr) EXCEPT !.unmapped_regions = Front(@)]
    IN  IF s.unmapped_regions = <<>> THEN [s |-> s, ret |-> "OK"]
        ELSE IF s.mr[i].out < s.level THEN [s |-> s1, ret |-> "OK"]
        ELSE IF memory_overlap(s1, s.mr[i].addr, s.mr[i].size) THEN [s |-> s1, ret |-> "RESTORE_FAILED"]
        ELSE IF initial_mr # i /\ s2.mr[i].subs = <<>> THEN [s |-> s2, ret |-> "CRASH"]
        ELSE BringBack(s3)

uc_restore_latest_snapshot(s) == BringBack(FoldLeft(Drop, s, s.sys))

-----------------------------------------------------------------------------
(* The calls of the program. *)

\* What the cells of the address space read as.
Memory(s) ==
    [a \in Page \X (0 .. Cells - 1) |->
        LET f == s.flat[a[1]] IN
        IF f.id = 0 THEN Unmapped
        ELSE IF s.mr[f.id].kind # "ram" THEN Junk ELSE s.mr[f.id].data[f.off][a[2]]]

\* Regions nothing refers to any more are forgotten.
Known(s, cs) ==
    Range(s.sys) \cup Range(s.mapped_blocks) \cup Range(s.unmapped_regions)
    \cup UNION {Range(s.mr[i].subs) : i \in Range(s.sys) \cup Range(s.unmapped_regions)}
    \cup {s.flat[p].id : p \in Page}
    \cup UNION {{cs[c].fv[p].id : p \in DOMAIN cs[c].fv} : c \in Ctx}
Tidy(s, cs) ==
    LET known == Known(s, cs)
    IN  [s EXCEPT !.mr = [i \in Id |-> IF i \in known THEN s.mr[i] ELSE NoRegion]]

Return(s, cs, err) ==
    /\ ops < MaxOps /\ ops' = ops + 1
    /\ uc' = Tidy(s, cs) /\ ctx' = cs /\ ret' = err

Pages(address, size) == address .. address + size - 1
Mapped(p) == uc.flat[p].id # 0
\* memory_region_len follows the containers up to system_memory and meets NULL.
Detached(p) == uc.mr[uc.flat[p].id].container = -1
\* The copies made since the first snapshot, and the regions mapped since then.
Copies == {i \in Id : uc.mr[i].kind = "ram" /\ uc.mr[i].container > 0 /\ uc.mr[i].priority > 0}
Young == {i \in Range(uc.sys) : uc.mr[i].priority > 0}

\* uc_mem_map and, with a host pointer, uc_mem_map_ptr, whose region has priority 0.
\* Rule "mapping": under a snapshot uc_mem_map only, and either nothing is mapped or
\* nothing is copied.
uc_mem_map(m) ==
    /\ "mapping" \in Rules /\ uc.level > 0 =>
        ~m.ptr /\ \A i \in Range(uc.sys) : uc.mr[i].kind # "container"
    /\ IF memory_overlap(uc, m.page, m.size) THEN Return(uc, ctx, "MAP")
       ELSE LET i == Alloc(uc)
                s == [New(uc, i, "ram", m.size, m.wr, Fresh(m.size)) EXCEPT !.mr[i].readonly = ~m.ptr /\ ~m.wr]
            IN  Return(mem_map(AddSubregion(s, 0, m.page, i, IF m.ptr THEN 0 ELSE uc.level), i), ctx, "OK")

\* uc_mem_write.  Rules "inpage": if a page would be copied it stays on that page;
\* "writable": a page that would be copied is writable; "mapping" as above.
uc_mem_write(a, n, v) ==
    LET S == Span(a, n)
        cows == {c \in S : Mapped(c[1]) /\ NeedsCow(uc, uc.flat[c[1]].id)}
    IN  /\ {c[1] : c \in S} \subseteq Page
        /\ "inpage" \in Rules => cows = {} \/ a[2] + n <= Cells
        /\ "writable" \in Rules => \A c \in cows : uc.mr[uc.flat[c[1]].id].wr
        /\ "mapping" \in Rules => cows = {} \/ Young = {}
        /\ IF \E c \in S : ~Mapped(c[1]) THEN Return(uc, ctx, "WRITE_UNMAPPED")
           ELSE IF \E c \in S : Detached(c[1]) THEN Return(uc, ctx, "CRASH")
           ELSE LET r == WriteLoop(uc, a, n, v) IN Return(r.s, ctx, r.ret)

\* store_helper for one cell of a writable page.
GuestStore(a, v) ==
    /\ Mapped(a[1])
    /\ LET i == uc.flat[a[1]].id
           s == IF NeedsCow(uc, i) THEN memory_cow(uc, i, a[1], 1) ELSE uc
       IN  /\ uc.mr[i].wr
           /\ "mapping" \in Rules => ~NeedsCow(uc, i) \/ Young = {}
           /\ Return(WriteMem(s, {a}, v), ctx, "OK")

\* Mutant: mapped_blocks keeps the region.
memory_moveout_block(s, i) ==
    [DelSubregion(s, i) EXCEPT !.unmapped_regions = Append(@, i), !.mr[i].out = s.level]

memory_moveout(s, i) ==
    [RemoveBlock(DelSubregion(s, i), FirstSub(s, i))
        EXCEPT !.unmapped_regions = Append(@, i), !.mr[i].out = s.level]

\* uc_mem_unmap under a snapshot.  Rule "unmapping": a region that was mapped before
\* the first snapshot and has no copies.
uc_mem_unmap(address, size) ==
    /\ uc.level > 0
    /\ LET i == uc.flat[address].id
           top == IF uc.mr[i].container > 0 THEN uc.mr[i].container ELSE i
       IN  IF \E p \in Pages(address, size) : ~Mapped(p) THEN Return(uc, ctx, "NOMEM")
           ELSE IF Detached(address) THEN Return(uc, ctx, "CRASH")
           ELSE IF uc.mr[top].addr # address \/ uc.mr[top].size # size THEN Return(uc, ctx, "ARG")
           ELSE /\ "unmapping" \in Rules => top \notin Young /\ Range(uc.mr[top].subs) \cap Copies = {}
                /\ Return(memory_moveout(uc, top), ctx, "OK")

uc_context_save(c) ==
    /\ uc.level < MaxLevel
    /\ Return([uc EXCEPT !.level = @ + 1],
              [ctx EXCEPT ![c] = [level |-> uc.level + 1, fv |-> uc.flat, was |-> Memory(uc)]], "OK")

\* uc_context_restore; uc_snapshot raises the level that uc_restore_latest_snapshot
\* lowered.  Rules "lifo": the contexts saved later are not used any more; "order":
\* no region has been unmapped since the first snapshot and before this one.
uc_context_restore(c) ==
    /\ ctx[c].level > 0
    /\ "order" \in Rules => \A i \in Range(uc.unmapped_regions) : uc.mr[i].out >= ctx[c].level
    /\ LET r == uc_restore_latest_snapshot([uc EXCEPT !.level = ctx[c].level, !.flat = ctx[c].fv])
       IN  Return(r.s,
                  [d \in Ctx |-> IF "lifo" \in Rules /\ ctx[d].level > ctx[c].level THEN NoContext ELSE ctx[d]],
                  IF r.ret = "OK" THEN c ELSE r.ret)

Next ==
    \/ \E m \in Maps : uc_mem_map(m)
    \/ \E w \in Writes, v \in Val : uc_mem_write(<<w[1], w[2]>>, w[3], v)
    \/ \E w \in Writes, v \in Val : GuestStore(<<w[1], w[2]>>, v)
    \/ \E u \in Unmaps : uc_mem_unmap(u[1], u[2])
    \/ \E c \in Ctx : uc_context_save(c) \/ uc_context_restore(c)

Spec == Init /\ [][Next]_vars

-----------------------------------------------------------------------------
(* Properties. *)

\* No region that was freed can be reached: not through the flat view, which every
\* access goes through, not through the tree or mapped_blocks, and not through
\* the view of a context that can still be restored.
NoDangling ==
    \A i \in Id : uc.mr[i].kind = "freed" =>
        /\ i \notin Range(Leaves(uc)) \cup Range(uc.mapped_blocks) \cup Range(uc.unmapped_regions)
        /\ \A p \in Page : uc.flat[p].id # i
        /\ \A c \in Ctx : ctx[c].level > 0 => \A p \in Page : ctx[c].fv[p].id # i

\* The flat view, which a restore takes from the context instead of the tree ("the
\* flatview is taken from the context so no need to rebuild it",
\* memory_region_filter_subregions), is what the tree renders to, so that the
\* next change of the tree brings no other memory to light.
FlatIsTree == uc.flat = Rendered(uc)

\* mapped_blocks, where uc_mem_map looks for overlaps, holds the oldest region of each
\* entry of system_memory, and nothing else; and no two regions of system_memory
\* overlap: uc_mem_map refuses what overlaps ("find if a memory range overlaps
\* with existing mapped regions", memory_overlap).
BlocksAreRegions ==
    /\ Len(uc.mapped_blocks) = Len(uc.sys)
    /\ Range(uc.mapped_blocks) =
        {IF uc.mr[i].kind = "container" THEN Last(uc.mr[i].subs) ELSE i : i \in Range(uc.sys)}
    /\ \A i, j \in Range(uc.sys) : i # j =>
           Pages(uc.mr[i].addr, uc.mr[i].size) \cap Pages(uc.mr[j].addr, uc.mr[j].size) = {}

\* A write to mapped memory succeeds, read-only memory included ("this is not the
\* program accessing memory, so temporarily mark writable", uc_mem_write), a
\* restore succeeds, and no walk up the containers ends at NULL.
CallsSucceed == ret \notin {"WRITE_FAILED", "RESTORE_FAILED", "CRASH"}

\* The engine with its copies, views and moved regions implements a memory with
\* saved states: uc_context_restore brings back what the memory was at
\* uc_context_save (test_snapshot, test_context_snapshot, test_snapshot_unmap),
\* and the other calls change the cells they name and no saved state.
Abstract == INSTANCE SavedMemory WITH
    Cell <- Page \X (0 .. Cells - 1), Gone <- <<>>,
    mem <- Memory(uc), saved <- [c \in Ctx |-> ctx[c].was]
Implements == Abstract!Spec
=============================================================================
