------------------------------ MODULE TbCache ------------------------------
(***************************************************************************)
(* The cache of translated blocks (qemu/accel/tcg): the code buffer, the   *)
(* hash table and the jump cache that find a block, the per-page lists     *)
(* that invalidate it, the direct jumps patched between blocks, and the    *)
(* execution loop of cpu-exec.c that looks blocks up, translates, chains   *)
(* and runs them while callbacks drop, flush, request and remap code.      *)
(*                                                                         *)
(* A TranslationBlock lives in the code buffer; a slot stands for its      *)
(* address, slots are handed out in order, and tb_flush only rewinds the   *)
(* allocation pointer.  Addresses are cells, PageSize of them to a page;   *)
(* a frame is a page of RAM (ram_addr), -1 stands for the C value -1.      *)
(***************************************************************************)
EXTENDS Integers, FiniteSets

CONSTANTS
    NSlots,     \* blocks the code buffer has room for
    PageSize,   \* TARGET_PAGE_SIZE
    VPages,     \* the virtual pages
    Frames,     \* the RAM pages
    Pc,         \* addresses at which a block may start
    Size,       \* Size[p]: the sizes a block at p may be translated to;
                \* 0 is the stub generated at an address where emulation stops
    Target,     \* Target[p][n]: the static successor of exit n, or -1
    Indirect,   \* Indirect[p]: computed successors
    StoreTo,    \* StoreTo[p]: the address the code at p stores to, or -1
    JmpHash,    \* JmpHash[p]: tb_jmp_cache_hash_func
    PreciseSmc, \* TARGET_HAS_PRECISE_SMC
    MaxLevel,   \* emulations that may be active (nested uc_emu_start)
    Calls,      \* what callbacks do besides dropping and requesting code
    MaxOps      \* API calls in a behaviour

Slot == 1 .. NSlots
Exit == {0, 1}
Jump == Slot \X Exit            \* "jump n of block t", a tagged pointer in C
Page(a) == a \div PageSize
Offset(a) == a % PageSize

ASSUME SlotsAssumption == NSlots \in Nat /\ PageSize \in Nat \ {0} /\ MaxLevel \in Nat /\ MaxOps \in Nat
ASSUME PagesAssumption == VPages \subseteq Int /\ Frames \subseteq Nat /\ Pc \subseteq Nat /\ Pc # {}
ASSUME CodeAssumption ==
    /\ \A p \in Pc : Page(p) \in VPages
    /\ Size \in [Pc -> SUBSET Nat]
    /\ \A p \in Pc : \A size \in Size[p] : size <= PageSize
    /\ Target \in [Pc -> [Exit -> Pc \cup {-1}]]
    /\ Indirect \in [Pc -> SUBSET Pc]
    /\ StoreTo \in [Pc -> Int]
    /\ PreciseSmc \in BOOLEAN
ASSUME CallsAssumption == Calls \subseteq {"flush", "nested", "vtlb", "ondemand"}

VARIABLES
    vmap,        \* the RAM page behind each virtual page, or -1
    used,        \* slots in use since the buffer was last reset
    tb,          \* the fields of each block that tb_gen_code sets once
    invalid,     \* blocks with CF_INVALID
    htable,      \* tb_ctx.htable
    first_tb,    \* the list of blocks of each PageDesc, with their page index
    jmp_cache,   \* cpu->tb_jmp_cache, 0 is NULL
    jmp_dest,    \* tb->jmp_dest[n] without its low bit
    jmp_shut,    \* the jumps whose jmp_dest has the low bit set
    jmp_target,  \* the native jump: the block it goes to, 0 for the epilogue
    jmp_list,    \* tb->jmp_list_head: the jumps that enter this block
    cpu,         \* per nesting level, where the execution loop is
    level,       \* uc->nested_level
    next_count1, \* cpu->cflags_next_tb asks for a block of one instruction
    dropped,     \* blocks whose code was removed, rewritten or unmapped
    ops          \* API calls made so far

jumps == <<jmp_dest, jmp_shut, jmp_target, jmp_list>>
cache == <<used, tb, invalid, htable, first_tb, jumps>>
loop  == <<cpu, level, next_count1>>
vars  == <<vmap, cache, jmp_cache, loop, dropped, ops>>

Block == [pc : Pc, size : Nat, count1 : BOOLEAN, nocache : BOOLEAN,
          page0 : Frames \cup {-1}, page1 : Frames \cup {-1}]
\* A level is in the loop between blocks ("loop"), in a block before its store
\* ("entry") or after it ("done").  tb is the block it runs, last and n are the
\* local last_tb and tb_exit of the loop.
Cpu == [at : {"loop", "entry", "done"}, pc : Pc, tb : Slot \cup {0}, last : Slot \cup {0}, n : Exit]

\* The types of the block cache and of the execution loop.
TypeOK ==
    /\ vmap \in [VPages -> Frames \cup {-1}]
    /\ used \in 0 .. NSlots
    /\ tb \in [Slot -> Block]
    /\ invalid \subseteq Slot /\ htable \subseteq Slot /\ dropped \subseteq Slot
    /\ first_tb \in [Frames -> SUBSET Jump]
    /\ jmp_cache \in [{JmpHash[p] : p \in Pc} -> Slot \cup {0}]
    /\ jmp_dest \in [Jump -> Slot \cup {0}] /\ jmp_target \in [Jump -> Slot \cup {0}]
    /\ jmp_shut \subseteq Jump
    /\ jmp_list \in [Slot -> SUBSET Jump]
    /\ level \in 0 .. MaxLevel /\ cpu \in [1 .. MaxLevel -> Cpu]
    /\ next_count1 \in BOOLEAN
    /\ ops \in 0 .. MaxOps

\* Memory that was never a block; no live slot has these values.
NoBlock == [pc |-> CHOOSE p \in Pc : TRUE, size |-> 0, count1 |-> FALSE, nocache |-> FALSE,
            page0 |-> -1, page1 |-> -1]
NotRunning == [at |-> "loop", pc |-> NoBlock.pc, tb |-> 0, last |-> 0, n |-> 0]
EmptyJmpCache == [h \in {JmpHash[p] : p \in Pc} |-> 0]

Init ==
    /\ vmap \in [VPages -> Frames \cup {-1}]
    /\ \A v, w \in VPages : vmap[v] = vmap[w] /\ vmap[v] # -1 => v = w
    /\ used = 0 /\ tb = [t \in Slot |-> NoBlock]
    /\ invalid = {} /\ htable = {} /\ dropped = {}
    /\ first_tb = [f \in Frames |-> {}] /\ jmp_cache = EmptyJmpCache
    /\ jmp_dest = [j \in Jump |-> 0] /\ jmp_target = [j \in Jump |-> 0]
    /\ jmp_shut = {} /\ jmp_list = [t \in Slot |-> {}]
    /\ cpu = [l \in 1 .. MaxLevel |-> NotRunning] /\ level = 0
    /\ next_count1 = FALSE /\ ops = 0

-----------------------------------------------------------------------------
(* Finding a block. *)

\* get_page_addr_code: the RAM page behind a virtual page, -1 when it is not RAM.
get_page_addr_code(v) == IF v \in VPages THEN vmap[v] ELSE -1

\* The test of tb_lookup__cpu_state on its jump cache entry: the RAM page of the
\* block is not compared.
JmpCacheHit(p, count1) ==
    LET t == jmp_cache[JmpHash[p]] IN
    t # 0 /\ tb[t].pc = p /\ tb[t].count1 = count1 /\ t \notin invalid

\* tb_htable_lookup and tb_lookup_cmp.
tb_lookup_cmp(t, p, count1) ==
    /\ t \in htable \ invalid
    /\ get_page_addr_code(Page(p)) # -1
    /\ tb[t].pc = p /\ tb[t].count1 = count1
    /\ tb[t].page0 = get_page_addr_code(Page(p))
    /\ tb[t].page1 = -1 \/ tb[t].page1 = get_page_addr_code(Page(p) + 1)

\* The blocks tb_lookup__cpu_state may return.
Lookup(p, count1) ==
    IF JmpCacheHit(p, count1)
    THEN {jmp_cache[JmpHash[p]]}
    ELSE {t \in htable : tb_lookup_cmp(t, p, count1)}

-----------------------------------------------------------------------------
(* Invalidating blocks. *)

\* Mutant: only the first page of a block is looked at.
Overlaps_firstpage(e, lo, hi) ==
    LET b == tb[e[1]]
        start == IF e[2] = 0 THEN Offset(b.pc) ELSE 0
        end == IF e[2] = 0 THEN start + b.size ELSE start
    IN  ~(end <= lo \/ start >= hi)

\* The overlap test of tb_invalidate_phys_page_range__locked for an entry of a
\* page list and the offsets lo .. hi-1 of that page.
Overlaps(e, lo, hi) ==
    LET b == tb[e[1]]
        start == IF e[2] = 0 THEN Offset(b.pc) ELSE 0
        end == IF e[2] = 0 THEN start + b.size ELSE Offset(b.pc + b.size)
    IN  ~(end <= lo \/ start >= hi) \/ start = end

\* The blocks of a page list that a write to these offsets invalidates.
InRange(f, lo, hi) ==
    IF f = -1 THEN {} ELSE {e[1] : e \in {d \in first_tb[f] : Overlaps(d, lo, hi)}}

\* A page list is walked from its newest block, so t is invalidated no later than d.
Before(t, d) == t >= d

\* The loop over the page list with do_tb_phys_invalidate, tb_remove_from_jmp_list
\* and tb_jmp_unlink for each of its blocks R.  A jump into a block of R is reset
\* when that block is unlinked; the jump of a block that left the jump lists
\* before keeps its native target.
Unlinked(R, j) ==
    \E d \in R : j \in jmp_list[d] /\ ~(j[1] \in R /\ jmp_dest[j] = d /\ Before(j[1], d))

do_tb_phys_invalidate(R) ==
    /\ invalid' = invalid \cup R
    /\ htable' = htable \ R
    /\ first_tb' = [f \in Frames |-> {e \in first_tb[f] : e[1] \notin R}]
    /\ jmp_shut' = jmp_shut \cup (R \X Exit)
    /\ jmp_dest' = [j \in Jump |-> IF Unlinked(R, j) THEN 0 ELSE jmp_dest[j]]
    /\ jmp_target' = [j \in Jump |-> IF Unlinked(R, j) THEN 0 ELSE jmp_target[j]]
    /\ jmp_list' = [d \in Slot |-> IF d \in R THEN {}
                                   ELSE {j \in jmp_list[d] : j[1] \notin R \/ jmp_dest[j] # d}]
    /\ UNCHANGED <<used, tb>>

\* The jump cache entries of the blocks R are cleared.
JmpCacheWithout(R) == [h \in DOMAIN jmp_cache |-> IF jmp_cache[h] \in R THEN 0 ELSE jmp_cache[h]]

\* The blocks that were translated from these bytes, whether or not a list knows it.
TranslatedFrom(f, lo, hi) ==
    {t \in 1 .. used :
        \/ /\ tb[t].page0 = f /\ tb[t].size > 0
           /\ Offset(tb[t].pc) < hi /\ lo < Offset(tb[t].pc) + tb[t].size
        \/ /\ tb[t].page1 = f /\ tb[t].size > 0
           /\ lo < Offset(tb[t].pc + tb[t].size) \/ Offset(tb[t].pc + tb[t].size) = 0}

\* do_tb_flush: lookups find nothing and the buffer is filled from its start.  The
\* memory of the blocks keeps its contents until it is handed out again, which
\* matters only to a level that still runs there (running).
tb_flush(running) ==
    /\ used' = 0 /\ htable' = {} /\ dropped' = {}
    /\ first_tb' = [f \in Frames |-> {}] /\ jmp_cache' = EmptyJmpCache
    /\ IF running
       THEN UNCHANGED <<tb, invalid, jumps>>
       ELSE /\ tb' = [t \in Slot |-> NoBlock] /\ invalid' = {}
            /\ jmp_dest' = [j \in Jump |-> 0] /\ jmp_target' = [j \in Jump |-> 0]
            /\ jmp_shut' = {} /\ jmp_list' = [t \in Slot |-> {}]

-----------------------------------------------------------------------------
(* The execution loop. *)

top == cpu[level]
Looping == level > 0 /\ top.at = "loop"
InBlock == level > 0 /\ top.at # "loop"

\* tb_find and cpu_loop_exec_tb: block t is entered from the loop.
Entered(t) == [top EXCEPT !.at = "entry", !.tb = t, !.last = 0, !.n = 0]
\* The level goes back to the loop at p; last and n are what it will chain.
BackToLoop(p, t, n) == [top EXCEPT !.at = "loop", !.pc = p, !.tb = 0, !.last = t, !.n = n]

\* Mutant: the low bit that closes the jumps of an invalid block is not looked at.
tb_add_jump_open(t, page1, dest, shut, target, list) ==
    LET j == <<top.last, top.n>> IN
    IF top.last # 0 /\ page1 = -1 /\ t \notin invalid' /\ dest[j] = 0
    THEN /\ jmp_dest' = [dest EXCEPT ![j] = t]
         /\ jmp_target' = [target EXCEPT ![j] = t]
         /\ jmp_list' = [list EXCEPT ![t] = @ \cup {j}]
         /\ jmp_shut' = shut
    ELSE jmp_dest' = dest /\ jmp_target' = target /\ jmp_list' = list /\ jmp_shut' = shut

\* Mutant: blocks on two pages are chained to like the others.
tb_add_jump_twopages(t, page1, dest, shut, target, list) ==
    LET j == <<top.last, top.n>> IN
    IF top.last # 0 /\ t \notin invalid' /\ dest[j] = 0 /\ j \notin shut
    THEN /\ jmp_dest' = [dest EXCEPT ![j] = t]
         /\ jmp_target' = [target EXCEPT ![j] = t]
         /\ jmp_list' = [list EXCEPT ![t] = @ \cup {j}]
         /\ jmp_shut' = shut
    ELSE jmp_dest' = dest /\ jmp_target' = target /\ jmp_list' = list /\ jmp_shut' = shut

\* tb_add_jump as tb_find calls it for the block it found: a block on two pages
\* is never chained to, nor an invalid one, and only a free jump is claimed.
tb_add_jump(t, page1, dest, shut, target, list) ==
    LET j == <<top.last, top.n>> IN
    IF top.last # 0 /\ page1 = -1 /\ t \notin invalid' /\ dest[j] = 0 /\ j \notin shut
    THEN /\ jmp_dest' = [dest EXCEPT ![j] = t]
         /\ jmp_target' = [target EXCEPT ![j] = t]
         /\ jmp_list' = [list EXCEPT ![t] = @ \cup {j}]
         /\ jmp_shut' = shut
    ELSE jmp_dest' = dest /\ jmp_target' = target /\ jmp_list' = list /\ jmp_shut' = shut

\* uc_emu_start: a new level begins; only a callback can nest one.
Start(p) ==
    /\ level < MaxLevel
    /\ level = 0 \/ (InBlock /\ "nested" \in Calls)
    /\ level' = level + 1
    /\ cpu' = [cpu EXCEPT ![level + 1] = [NotRunning EXCEPT !.pc = p]]
    /\ UNCHANGED <<vmap, cache, jmp_cache, next_count1, dropped, ops>>

\* The level returns to its caller: stopped, at its end address, or on an error.
Finish ==
    /\ level > 0
    /\ level' = level - 1
    /\ cpu' = [cpu EXCEPT ![level] = NotRunning]
    /\ UNCHANGED <<vmap, cache, jmp_cache, next_count1, dropped, ops>>

\* tb_find when a lookup succeeds.
TbFound(t) ==
    /\ Looping
    /\ t \in Lookup(top.pc, next_count1)
    /\ next_count1' = FALSE
    /\ jmp_cache' = [jmp_cache EXCEPT ![JmpHash[top.pc]] = t]
    /\ UNCHANGED invalid
    /\ tb_add_jump(t, tb[t].page1, jmp_dest, jmp_shut, jmp_target, jmp_list)
    /\ cpu' = [cpu EXCEPT ![level] = Entered(t)]
    /\ UNCHANGED <<vmap, used, tb, htable, first_tb, level, dropped, ops>>

\* The second page of a block, by the address of its last byte; for a stub that
\* is the byte before the block.
phys_page2(p, size) ==
    IF Page(p + size - 1) = Page(p) THEN -1 ELSE get_page_addr_code(Page(p + size - 1))

\* The block tb_gen_code makes of the code at p.
NewBlock(p, size, count1) ==
    [pc |-> p, size |-> size, count1 |-> count1, nocache |-> FALSE,
     page0 |-> get_page_addr_code(Page(p)), page1 |-> phys_page2(p, size)]

\* tb_cmp: the block the hash table already holds for the same code, found when
\* tb_link_page inserts the new one.
existing_tb(b) ==
    {t \in htable : /\ tb[t].pc = b.pc /\ tb[t].count1 = b.count1
                    /\ tb[t].page0 = b.page0 /\ tb[t].page1 = b.page1}

\* The code is on RAM pages: the translator reads every byte of the block.
CodeMapped(p, size) ==
    /\ get_page_addr_code(Page(p)) # -1
    /\ size > 0 => get_page_addr_code(Page(p + size - 1)) # -1

\* tb_gen_code and tb_link_page fill slot s with block b, which is entered in the
\* page lists and the hash table.
LinkBlock(s, b) ==
    /\ used' = s
    /\ tb' = [tb EXCEPT ![s] = b]
    /\ invalid' = invalid \ {s} /\ dropped' = dropped \ {s}
    /\ htable' = IF b.nocache THEN htable ELSE htable \cup {s}
    /\ first_tb' = [f \in Frames |-> first_tb[f]
                        \cup (IF f = b.page0 THEN {<<s, 0>>} ELSE {})
                        \cup (IF f = b.page1 THEN {<<s, 1>>} ELSE {})]

\* The jump fields of a new block.
FreshDest(s) == [j \in Jump |-> IF j[1] = s THEN 0 ELSE jmp_dest[j]]
FreshTarget(s) == [j \in Jump |-> IF j[1] = s THEN 0 ELSE jmp_target[j]]
FreshShut(s) == {j \in jmp_shut : j[1] # s}
FreshList(s) == [jmp_list EXCEPT ![s] = {}]

\* tb_find when it translates a new block.
TbGen(size) ==
    /\ Looping /\ used < NSlots
    /\ Lookup(top.pc, next_count1) = {}
    /\ CodeMapped(top.pc, size)
    /\ LET s == used + 1
           b == NewBlock(top.pc, size, next_count1)
       IN  /\ existing_tb(b) = {}
           /\ LinkBlock(s, b)
           /\ jmp_cache' = [jmp_cache EXCEPT ![JmpHash[top.pc]] = s]
           /\ tb_add_jump(s, b.page1, FreshDest(s), FreshShut(s), FreshTarget(s), FreshList(s))
           /\ cpu' = [cpu EXCEPT ![level] = Entered(s)]
    /\ next_count1' = FALSE
    /\ UNCHANGED <<vmap, level, ops>>

\* tb_find when tb_link_page meets a block with the same key that the lookup
\* could not find: the translation is discarded and the existing block used.
TbExisting(size, t) ==
    /\ Looping /\ used < NSlots
    /\ Lookup(top.pc, next_count1) = {}
    /\ CodeMapped(top.pc, size)
    /\ t \in existing_tb(NewBlock(top.pc, size, next_count1))
    /\ jmp_cache' = [jmp_cache EXCEPT ![JmpHash[top.pc]] = t]
    /\ UNCHANGED invalid
    /\ tb_add_jump(t, tb[t].page1, jmp_dest, jmp_shut, jmp_target, jmp_list)
    /\ cpu' = [cpu EXCEPT ![level] = Entered(t)]
    /\ next_count1' = FALSE
    /\ UNCHANGED <<vmap, used, tb, htable, first_tb, level, dropped, ops>>

\* The page is not mapped, a fetch callback maps it to RAM page f while the block
\* is being translated: the block is a temporary one that no list knows, but
\* tb_find puts it in the jump cache.
TbOnDemand(size, f) ==
    /\ "ondemand" \in Calls /\ ops < MaxOps
    /\ Looping /\ used < NSlots
    /\ Lookup(top.pc, next_count1) = {}
    /\ get_page_addr_code(Page(top.pc)) = -1
    /\ \A v \in VPages : vmap[v] # f
    /\ size > 0 /\ \/ Page(top.pc + size - 1) = Page(top.pc)
                   \/ get_page_addr_code(Page(top.pc + size - 1)) # -1
    /\ LET s == used + 1
           b == [NewBlock(top.pc, size, next_count1) EXCEPT !.nocache = TRUE, !.page1 = -1]
       IN  /\ LinkBlock(s, b)
           /\ jmp_cache' = [EmptyJmpCache EXCEPT ![JmpHash[top.pc]] = s]
           /\ tb_add_jump(s, -1, FreshDest(s), FreshShut(s), FreshTarget(s), FreshList(s))
           /\ cpu' = [cpu EXCEPT ![level] = Entered(s)]
    /\ vmap' = [vmap EXCEPT ![Page(top.pc)] = f]
    /\ next_count1' = FALSE /\ ops' = ops + 1
    /\ UNCHANGED <<level>>

\* Mutant: the loop keeps the block it was about to chain from.
TbFull_keeplast ==
    /\ Looping /\ used = NSlots
    /\ Lookup(top.pc, next_count1) = {}
    /\ \E size \in Size[top.pc] : CodeMapped(top.pc, size)
    /\ tb_flush(level > 1)
    /\ next_count1' = FALSE
    /\ UNCHANGED <<vmap, cpu, level, ops>>

\* tb_find when the code buffer has no room: everything is flushed and
\* cpu_loop_exit restarts the loop, which forgets last_tb and the request for one
\* instruction.
TbFull ==
    /\ Looping /\ used = NSlots
    /\ Lookup(top.pc, next_count1) = {}
    /\ \E size \in Size[top.pc] : CodeMapped(top.pc, size)
    /\ tb_flush(level > 1)
    /\ cpu' = [cpu EXCEPT ![level].last = 0]
    /\ next_count1' = FALSE
    /\ UNCHANGED <<vmap, level, ops>>

\* The sizes the block that the loop looks for may be translated to.
Sizes == IF Looping THEN Size[top.pc] ELSE {}

TbFind ==
    \/ \E t \in Slot : TbFound(t)
    \/ \E size \in Sizes : TbGen(size)
    \/ \E size \in Sizes, t \in Slot : TbExisting(size, t)
    \/ TbFull

\* The block may be left: its store, if it has one, is done.
Ready == InBlock /\ (top.at = "done" \/ StoreTo[tb[top.tb].pc] = -1)

\* use_goto_tb: a direct jump stays on a page of the block.
use_goto_tb(t, p) ==
    Page(p) = Page(tb[t].pc) \/ (tb[t].size > 0 /\ Page(p) = Page(tb[t].pc + tb[t].size - 1))

\* goto_tb, exit_tb: exit n of a block jumps natively when it is chained, and
\* returns to the loop when it is not.
GotoTb(n) ==
    /\ Ready
    /\ LET t == top.tb
           p == Target[tb[t].pc][n]
           d == jmp_target[<<t, n>>]
       IN  /\ p # -1 /\ use_goto_tb(t, p) /\ tb[t].size > 0
           /\ IF d # 0
              THEN cpu' = [cpu EXCEPT ![level].at = "entry", ![level].pc = p, ![level].tb = d]
              ELSE cpu' = [cpu EXCEPT ![level] = BackToLoop(p, t, n)]
    /\ UNCHANGED <<vmap, cache, jmp_cache, level, next_count1, dropped, ops>>

\* A jump to another page or a computed one: helper_lookup_tb_ptr enters a block it
\* finds, else the epilogue returns no block to chain.
GotoPtr(p) ==
    /\ Ready
    /\ LET t == top.tb IN
       /\ tb[t].size > 0
       /\ p \in Indirect[tb[t].pc] \cup {Target[tb[t].pc][n] : n \in {m \in Exit :
                    Target[tb[t].pc][m] # -1 /\ ~use_goto_tb(t, Target[tb[t].pc][m])}}
    /\ \/ \E d \in Lookup(p, FALSE) :
            /\ cpu' = [cpu EXCEPT ![level].at = "entry", ![level].pc = p, ![level].tb = d]
            /\ jmp_cache' = [jmp_cache EXCEPT ![JmpHash[p]] = d]
       \/ /\ Lookup(p, FALSE) = {}
          /\ cpu' = [cpu EXCEPT ![level] = BackToLoop(p, 0, 0)]
          /\ UNCHANGED jmp_cache
    /\ UNCHANGED <<vmap, cache, level, next_count1, dropped, ops>>

\* An exception that a callback handles: cpu_loop_exit, then the loop resumes.
Raise(p) ==
    /\ Ready
    /\ p \in Indirect[tb[top.tb].pc]
    /\ cpu' = [cpu EXCEPT ![level] = BackToLoop(p, 0, 0)]
    /\ UNCHANGED <<vmap, cache, jmp_cache, level, next_count1, dropped, ops>>

\* The guest switches its page table (mov to cr3): the TLB flush clears the jump
\* cache, and the block ends without one to chain.
SwitchPageTable(v, w, p) ==
    /\ Ready /\ v # w /\ ops < MaxOps
    /\ p \in Indirect[tb[top.tb].pc]
    /\ vmap' = [vmap EXCEPT ![v] = vmap[w], ![w] = vmap[v]]
    /\ jmp_cache' = EmptyJmpCache
    /\ cpu' = [cpu EXCEPT ![level] = BackToLoop(p, 0, 0)]
    /\ ops' = ops + 1
    /\ UNCHANGED <<cache, level, next_count1, dropped>>

\* Mutant: the block that is restarted is translated as before.
GuestStore_samecount(bitmap) ==
    /\ InBlock /\ top.at = "entry"
    /\ LET t == top.tb
           a == StoreTo[tb[t].pc]
           f == get_page_addr_code(Page(a))
           R == InRange(f, Offset(a), Offset(a) + 1)
           again == PreciseSmc /\ t \in R /\ ~tb[t].count1
       IN  /\ a # -1 /\ f # -1
           /\ do_tb_phys_invalidate(R)
           /\ jmp_cache' = JmpCacheWithout(R)
           /\ dropped' = dropped \cup TranslatedFrom(f, Offset(a), Offset(a) + 1)
           /\ cpu' = IF again THEN [cpu EXCEPT ![level] = BackToLoop(tb[t].pc, 0, 0)]
                     ELSE [cpu EXCEPT ![level].at = "done"]
    /\ UNCHANGED <<vmap, level, next_count1, ops>>

\* A guest store to a page with code: notdirty_write, tb_invalidate_phys_page_fast.
\* With a code bitmap the list is walked only if some block has the byte.  When
\* the running block is hit and precise, its store is not performed: the
\* loop restarts it as a block of one instruction.
GuestStore(bitmap) ==
    /\ InBlock /\ top.at = "entry"
    /\ LET t == top.tb
           a == StoreTo[tb[t].pc]
           f == get_page_addr_code(Page(a))
           S == InRange(f, Offset(a), Offset(a) + 1)
           R == IF bitmap /\ S \cap TranslatedFrom(f, Offset(a), Offset(a) + 1) = {} THEN {} ELSE S
           again == PreciseSmc /\ t \in R /\ ~tb[t].count1
       IN  /\ a # -1 /\ f # -1
           /\ do_tb_phys_invalidate(R)
           /\ jmp_cache' = JmpCacheWithout(R)
           /\ dropped' = dropped \cup TranslatedFrom(f, Offset(a), Offset(a) + 1)
           /\ next_count1' = again
           /\ cpu' = IF again THEN [cpu EXCEPT ![level] = BackToLoop(tb[t].pc, 0, 0)]
                     ELSE [cpu EXCEPT ![level].at = "done"]
    /\ UNCHANGED <<vmap, level, ops>>

-----------------------------------------------------------------------------
(* What the program and its callbacks do to the cache. *)

\* An API call between emulations or from a callback of the running block.
ApiCall == (level = 0 \/ InBlock) /\ ops < MaxOps /\ ops' = ops + 1

\* uc_invalidate_tb for lo .. hi-1 on one page: uc_ctl_remove_cache, uc_hook_del
\* for the blocks of a hook, resume_all_vcpus for the byte before an exit.
RemoveCache(v, lo, hi) ==
    /\ ApiCall
    /\ LET f == get_page_addr_code(v)
           R == InRange(f, lo, hi)
       IN  /\ do_tb_phys_invalidate(R)
           /\ jmp_cache' = JmpCacheWithout(R)
           /\ dropped' = dropped \cup (IF f = -1 THEN {} ELSE TranslatedFrom(f, lo, hi))
    /\ UNCHANGED <<vmap, loop>>

\* uc_gen_tb: a block is found or translated, not run.  There must be room: a full
\* buffer is flushed and left by cpu_loop_exit, which needs a level to return to.
RequestCache(p, size) ==
    /\ ApiCall /\ size \in Size[p]
    /\ \/ \E t \in Lookup(p, next_count1) :
            /\ jmp_cache' = [jmp_cache EXCEPT ![JmpHash[p]] = t]
            /\ UNCHANGED <<cache, dropped>>
       \/ /\ Lookup(p, next_count1) = {} /\ used < NSlots /\ CodeMapped(p, size)
          /\ LET s == used + 1
                 b == NewBlock(p, size, next_count1)
             IN  IF existing_tb(b) = {}
                 THEN /\ LinkBlock(s, b)
                      /\ jmp_cache' = [jmp_cache EXCEPT ![JmpHash[p]] = s]
                      /\ jmp_dest' = FreshDest(s) /\ jmp_target' = FreshTarget(s)
                      /\ jmp_shut' = FreshShut(s) /\ jmp_list' = FreshList(s)
                 ELSE /\ \E t \in existing_tb(b) : jmp_cache' = [jmp_cache EXCEPT ![JmpHash[p]] = t]
                      /\ UNCHANGED <<cache, dropped>>
    /\ UNCHANGED <<vmap, loop>>

\* uc_mem_unmap: memory_unmap drops the blocks of the region, and the commit of the
\* memory topology flushes the TLB, which clears the jump cache.
Unmap(v) ==
    /\ ApiCall /\ vmap[v] # -1
    /\ do_tb_phys_invalidate(InRange(vmap[v], 0, PageSize))
    /\ dropped' = dropped \cup TranslatedFrom(vmap[v], 0, PageSize)
    /\ vmap' = [vmap EXCEPT ![v] = -1]
    /\ jmp_cache' = EmptyJmpCache
    /\ UNCHANGED loop

\* uc_mem_map: the region gets a RAM page that is free, perhaps one just released.
Map(v, f) ==
    /\ ApiCall /\ vmap[v] = -1 /\ \A w \in VPages : vmap[w] # f
    /\ vmap' = [vmap EXCEPT ![v] = f]
    /\ jmp_cache' = EmptyJmpCache
    /\ UNCHANGED <<cache, loop, dropped>>

\* Mutant: the TLB flush leaves the jump cache.
Retranslate_keepcache(v, w) ==
    /\ ApiCall /\ v # w
    /\ level = 0 \/ "vtlb" \in Calls
    /\ vmap' = [vmap EXCEPT ![v] = vmap[w], ![w] = vmap[v]]
    /\ UNCHANGED <<cache, jmp_cache, loop, dropped>>

\* The program changes the guest's page table, or what its UC_HOOK_TLB_FILL callback
\* answers, and flushes the TLB, which clears the jump cache; no block is
\* invalidated.  From a callback ("vtlb") the running block goes on.
Retranslate(v, w) ==
    /\ ApiCall /\ v # w
    /\ level = 0 \/ "vtlb" \in Calls
    /\ vmap' = [vmap EXCEPT ![v] = vmap[w], ![w] = vmap[v]]
    /\ jmp_cache' = EmptyJmpCache
    /\ UNCHANGED <<cache, loop, dropped>>

\* uc_ctl_flush_tb, and uc_emu_start without a count after one with a count.
Flush ==
    /\ ApiCall
    /\ level = 0 \/ "flush" \in Calls
    /\ tb_flush(level > 0)
    /\ UNCHANGED <<vmap, loop>>

Api ==
    \/ \E v \in VPages, lo, hi \in 0 .. PageSize : lo < hi /\ RemoveCache(v, lo, hi)
    \/ \E p \in Pc : \E size \in Size[p] : RequestCache(p, size)
    \/ \E v \in VPages : Unmap(v)
    \/ \E v \in VPages, f \in Frames : Map(v, f)
    \/ \E v, w \in VPages : Retranslate(v, w)
    \/ Flush

Next ==
    \/ \E p \in Pc : Start(p) \/ GotoPtr(p) \/ Raise(p)
    \/ Finish
    \/ TbFind
    \/ \E size \in Sizes, f \in Frames : TbOnDemand(size, f)
    \/ \E n \in Exit : GotoTb(n)
    \/ \E v, w \in VPages, p \in Pc : SwitchPageTable(v, w, p)
    \/ \E bitmap \in BOOLEAN : GuestStore(bitmap)
    \/ Api

Spec == Init /\ [][Next]_vars

-----------------------------------------------------------------------------
(* Properties. *)

Live == 1 .. used

\* The two sides of a chain agree: block d lists jump j exactly when j has d as
\* its destination and is still open, and then the native jump goes to d.  A jump
\* of a valid block that has no destination returns to the loop.  This is what
\* tb_remove_from_jmp_list and tb_jmp_unlink rely on.
ChainsMirror ==
    \A t \in Live : \A n \in Exit :
        LET j == <<t, n>> IN
        /\ \A d \in Live : j \in jmp_list[d] <=> (jmp_dest[j] = d /\ j \notin jmp_shut)
        /\ j \notin jmp_shut => jmp_target[j] = jmp_dest[j] /\ jmp_dest[j] \in Live \cup {0}

\* The g_assert_not_reached of tb_page_remove and of tb_remove_from_jmp_list are
\* not reached, whichever cached block is invalidated next.
AssertsHold ==
    \A t \in htable :
        /\ <<t, 0>> \in first_tb[tb[t].page0]
        /\ tb[t].page1 # -1 => <<t, 1>> \in first_tb[tb[t].page1]
        /\ \A n \in Exit : jmp_dest[<<t, n>>] # 0 => <<t, n>> \in jmp_list[jmp_dest[<<t, n>>]]

\* Code that was removed with uc_ctl_remove_cache, overwritten by the guest or
\* unmapped is not run again: neither lookup finds its block, and only a block
\* that was itself invalidated can still jump to it.
DroppedUnreachable ==
    \A t \in dropped :
        /\ t \notin htable
        /\ \A h \in DOMAIN jmp_cache : jmp_cache[h] # t
        /\ \A j \in Live \X Exit : jmp_target[j] = t => j[1] \in invalid

\* A block is in the RAM pages the current mapping gives its addresses.
Current(t) ==
    /\ tb[t].page0 = get_page_addr_code(Page(tb[t].pc))
    /\ tb[t].page1 # -1 /\ tb[t].size > 0 => tb[t].page1 = get_page_addr_code(Page(tb[t].pc) + 1)

\* The jump cache, whose lookup does not compare RAM pages, holds blocks of the
\* current mapping only (temporary blocks apart).
JmpCacheCurrent ==
    \A h \in DOMAIN jmp_cache :
        LET t == jmp_cache[h] IN t # 0 => t \in Live /\ (tb[t].nocache \/ Current(t))

\* A chained jump arrives at the address the code jumps to, in a block of one page
\* that is one of the pages of the block it comes from: the mapping that made the
\* source valid makes the destination valid (temporary blocks apart).
ChainsStayOnPage ==
    \A j \in Live \X Exit :
        LET s == tb[j[1]]
            d == tb[jmp_target[j]]
        IN  jmp_target[j] # 0 =>
              /\ d.pc = Target[s.pc][j[2]]
              /\ d.page1 = -1
              /\ \/ s.nocache \/ d.nocache
                 \/ Page(d.pc) = Page(s.pc) /\ d.page0 = s.page0
                 \/ Page(d.pc) = Page(s.pc) + 1 /\ d.page0 = s.page1

\* A RAM page that is not mapped has no block left, so a region that is given the
\* page later cannot run the code of the one before.
NoOrphanBlocks ==
    \A f \in Frames : (\A v \in VPages : vmap[v] # f) => first_tb[f] = {}

\* The memory of a block that runs, or that the loop is about to chain, has not
\* been given back to the code buffer.
RunningKept ==
    \A l \in 1 .. level : (IF cpu[l].at = "loop" THEN cpu[l].last ELSE cpu[l].tb) \in Live \cup {0}

-----------------------------------------------------------------------------
(* Fairness: the thread that called uc_emu_start runs the loop, so a level     *)
(* that can find its block, store or leave its block does so in the end.       *)

Fairness ==
    /\ WF_vars(TbFind)
    /\ WF_vars(\E bitmap \in BOOLEAN : GuestStore(bitmap))

FairSpec == Spec /\ Fairness

\* A store of the guest into the block that contains it is performed in the end:
\* after the precise exit the block of one instruction gets past it.  The store
\* may instead find its page unmapped, or the emulation may be ended.
StoreCompletes ==
    (level = 1 /\ top.at = "entry" /\ StoreTo[tb[top.tb].pc] # -1)
    ~> (level # 1 \/ top.at = "done" \/ (\E v \in VPages : vmap[v] = -1))
=============================================================================
