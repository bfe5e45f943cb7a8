--------------------------- MODULE TbCacheProofs ---------------------------
(***************************************************************************)
(* Safety of the block cache for every number of slots, pages, addresses   *)
(* and API calls, as long as no callback flushes the cache or starts a     *)
(* nested emulation (both release the memory of a block that runs): the    *)
(* invariant of TbCacheLemmas holds in every state.  Two more invariants   *)
(* relate the blocks to the memory map: Pages for the jump cache, OnPages  *)
(* for the block that runs and the chains it follows.                      *)
(***************************************************************************)
EXTENDS TbCacheLemmas

-----------------------------------------------------------------------------
(* The invariant of TbCacheLemmas. *)

\* The invariant holds when the engine is created.
LEMMA InitIInv ==
    ASSUME Init
    PROVE  IInv
<1>1. NoBlock \in Block /\ NotRunning \in Cpu
  BY PagesAssumption DEF NoBlock, NotRunning, Block, Cpu, Exit
<1>2. TypeOK
  <2>1. /\ vmap \in [VPages -> Frames \cup {-1}] /\ used = 0 /\ tb = [t \in Slot |-> NoBlock]
        /\ invalid = {} /\ htable = {} /\ dropped = {}
        /\ first_tb = [f \in Frames |-> {}] /\ jmp_cache = EmptyJmpCache
        /\ jmp_dest = [j \in Jump |-> 0] /\ jmp_target = [j \in Jump |-> 0]
        /\ jmp_shut = {} /\ jmp_list = [t \in Slot |-> {}]
        /\ cpu = [l \in 1 .. MaxLevel |-> NotRunning] /\ level = 0
        /\ next_count1 = FALSE /\ ops = 0
    BY DEF Init
  <2>2. used \in 0 .. NSlots /\ level \in 0 .. MaxLevel /\ ops \in 0 .. MaxOps
    BY <2>1, SlotsAssumption
  <2>3. tb \in [Slot -> Block] /\ cpu \in [1 .. MaxLevel -> Cpu]
    BY <1>1, <2>1
  <2>4. QED
    BY <2>1, <2>2, <2>3, JmpCacheEmpty, Zenon DEF TypeOK
<1>3. 1 .. used = {} /\ level = 0 /\ htable = {} /\ dropped = {} /\ jmp_cache = EmptyJmpCache
      /\ first_tb = [f \in Frames |-> {}]
  BY DEF Init
<1>4. FindOK(used, htable, invalid, tb, first_tb, jmp_cache, dropped)
  BY <1>3, JmpCacheEmpty DEF FindOK
<1>5. QED
  BY <1>2, <1>3, <1>4 DEF IInv, LoopOK, JumpsOK, NoOrphanBlocks

\* Every step keeps the invariant.
LEMMA NextIInv ==
    ASSUME "flush" \notin Calls, "nested" \notin Calls, IInv, [Next]_vars
    PROVE  IInv'
<1>1. CASE UNCHANGED vars
  <2>1. /\ vmap' = vmap /\ used' = used /\ tb' = tb /\ invalid' = invalid /\ htable' = htable
        /\ first_tb' = first_tb /\ jmp_dest' = jmp_dest /\ jmp_shut' = jmp_shut
        /\ jmp_target' = jmp_target /\ jmp_list' = jmp_list /\ jmp_cache' = jmp_cache
        /\ cpu' = cpu /\ level' = level /\ next_count1' = next_count1
        /\ dropped' = dropped /\ ops' = ops
    BY <1>1, Zenon DEF vars, cache, jumps, loop
  <2>2. TypeOK' /\ LoopOK' /\ NoOrphanBlocks'
    BY <2>1, Zenon DEF IInv, TypeOK, LoopOK, NoOrphanBlocks
  <2>3. QED
    BY <2>1, <2>2, Zenon DEF IInv
<1>2. CASE (\E p \in Pc : Start(p)) \/ Finish
  BY <1>2, StartFinish
<1>3. CASE \/ \E n \in Exit : GotoTb(n)
           \/ \E p \in Pc : GotoPtr(p) \/ Raise(p)
           \/ \E v, w \in VPages, p \in Pc : SwitchPageTable(v, w, p)
  BY <1>3, LeaveBlock
<1>4. CASE \/ \E t \in Slot : TbFound(t)
           \/ \E size \in Sizes : TbGen(size)
           \/ \E size \in Sizes, t \in Slot : TbExisting(size, t)
           \/ \E size \in Sizes, f \in Frames : TbOnDemand(size, f)
  BY <1>4, TbFindStep
<1>5. CASE TbFull \/ Flush
  BY <1>5, FlushAll
<1>6. CASE \E bitmap \in BOOLEAN : GuestStore(bitmap)
  BY <1>6, GuestStoreStep
<1>7. CASE \E v \in VPages, lo, hi \in 0 .. PageSize : lo < hi /\ RemoveCache(v, lo, hi)
  BY <1>7, RemoveCacheStep
<1>8. CASE \E p \in Pc : \E size \in Size[p] : RequestCache(p, size)
  BY <1>8, RequestCacheStep
<1>9. CASE \E v \in VPages : Unmap(v)
  BY <1>9, UnmapStep
<1>10. CASE \/ \E v \in VPages, f \in Frames : Map(v, f)
            \/ \E v, w \in VPages : Retranslate(v, w)
  BY <1>10, RemapStep
<1>11. QED
  BY <1>1, <1>2, <1>3, <1>4, <1>5, <1>6, <1>7, <1>8, <1>9, <1>10, Zenon DEF Next, TbFind, Api

\* The invariant implies the safety properties of the block cache.
LEMMA IInvSafe ==
    ASSUME IInv
    PROVE  TypeOK /\ ChainsMirror /\ AssertsHold /\ DroppedUnreachable /\ NoOrphanBlocks /\ RunningKept
<1>0. 1 .. used \subseteq Slot /\ 0 .. used = (1 .. used) \cup {0}
  BY LiveSlots, Zenon DEF IInv
<1>1. ChainsMirror
  <2>1. ASSUME NEW t \in 1 .. used, NEW n \in Exit
        PROVE  /\ \A d \in 1 .. used : <<t, n>> \in jmp_list[d] <=> (jmp_dest[<<t, n>>] = d /\ <<t, n>> \notin jmp_shut)
               /\ <<t, n>> \notin jmp_shut => /\ jmp_target[<<t, n>>] = jmp_dest[<<t, n>>]
                                              /\ jmp_dest[<<t, n>>] \in (1 .. used) \cup {0}
    <3>1. jmp_dest[<<t, n>>] \in 0 .. used
      BY DEF IInv, JumpsOK
    <3>2. jmp_dest[<<t, n>>] \in (1 .. used) \cup {0}
      BY <1>0, <3>1, Zenon
    <3>3. QED
      BY <3>2, Zenon DEF IInv, JumpsOK
  <2>2. QED
    BY <2>1, Zenon DEF ChainsMirror, Live
<1>2. AssertsHold
  <2>1. SUFFICES ASSUME NEW t \in htable
                 PROVE  /\ <<t, 0>> \in first_tb[tb[t].page0]
                        /\ tb[t].page1 # -1 => <<t, 1>> \in first_tb[tb[t].page1]
                        /\ \A n \in Exit : jmp_dest[<<t, n>>] # 0 => <<t, n>> \in jmp_list[jmp_dest[<<t, n>>]]
    BY Zenon DEF AssertsHold
  <2>2. t \in (1 .. used) \ invalid /\ t \in Slot /\ tb[t].page0 \in Frames
    BY <1>0 DEF IInv, FindOK
  <2>3. tb[t].page1 \in Frames \cup {-1}
    BY <2>2, Zenon DEF IInv, TypeOK, Block
  <2>4. <<t, 0>> \in first_tb[tb[t].page0] /\ (tb[t].page1 # -1 => <<t, 1>> \in first_tb[tb[t].page1])
    BY <2>2, <2>3 DEF IInv, FindOK
  <2>5. ASSUME NEW n \in Exit, jmp_dest[<<t, n>>] # 0
        PROVE  <<t, n>> \in jmp_list[jmp_dest[<<t, n>>]]
    <3>1. jmp_dest[<<t, n>>] \in 0 .. used /\ <<t, n>> \notin jmp_shut
      BY <2>2 DEF IInv, JumpsOK
    <3>2. jmp_dest[<<t, n>>] \in 1 .. used
      BY <1>0, <2>5, <3>1, Zenon
    <3>3. QED
      BY <2>2, <3>1, <3>2 DEF IInv, JumpsOK
  <2>6. QED
    BY <2>4, <2>5
<1>3. DroppedUnreachable
  <2>1. SUFFICES ASSUME NEW t \in dropped
                 PROVE  /\ t \notin htable /\ \A h \in DOMAIN jmp_cache : jmp_cache[h] # t
                        /\ \A j \in (1 .. used) \X Exit : jmp_target[j] = t => j[1] \in invalid
    BY DEF DroppedUnreachable, Live
  <2>2. t \in (1 .. used) /\ t \in invalid /\ t # 0
    BY DEF IInv, FindOK
  <2>3. t \notin htable /\ \A h \in DOMAIN jmp_cache : jmp_cache[h] # t
    BY <2>2 DEF IInv, FindOK
  <2>4. ASSUME NEW s \in 1 .. used, NEW n \in Exit, jmp_target[<<s, n>>] = t, s \notin invalid
        PROVE  FALSE
    <3>1. <<s, n>> \notin jmp_shut /\ jmp_dest[<<s, n>>] = t
      BY <2>4 DEF IInv, JumpsOK
    <3>2. <<s, n>> \in jmp_list[t]
      BY <2>2, <3>1 DEF IInv, JumpsOK
    <3>3. jmp_list[t] = {}
      BY <2>2 DEF IInv, JumpsOK
    <3>4. QED
      BY <3>2, <3>3
  <2>5. QED
    BY <2>3, <2>4
<1>4. RunningKept
  <2>1. level = 0 => 1 .. level = {}
    OBVIOUS
  <2>2. level = 1 => 1 .. level = {1}
    OBVIOUS
  <2>3. QED
    BY <1>0, <2>1, <2>2, Zenon DEF IInv, LoopOK, RunningKept, Live
<1>5. QED
  BY <1>1, <1>2, <1>3, <1>4 DEF IInv

\* For every size of the code buffer, every layout of the code and every sequence of
\* API calls the invariant holds, provided no callback flushes the cache
\* (uc_ctl_flush_tb) and none starts a nested emulation.
LEMMA Invariance ==
    ASSUME "flush" \notin Calls, "nested" \notin Calls
    PROVE  Spec => []IInv
<1>1. Init => IInv
  BY InitIInv
<1>2. IInv /\ [Next]_vars => IInv'
  BY NextIInv
<1>3. QED
  BY <1>1, <1>2, PTL DEF Spec

\* Code that was removed (uc_ctl_remove_cache), overwritten or unmapped is not
\* reached again, no assertion of the invalidation code fails, and unmapped
\* pages have no blocks.
THEOREM CacheSafe ==
    ASSUME "flush" \notin Calls, "nested" \notin Calls
    PROVE  Spec => [](TypeOK /\ AssertsHold /\ DroppedUnreachable /\ NoOrphanBlocks)
<1>1. IInv => TypeOK /\ AssertsHold /\ DroppedUnreachable /\ NoOrphanBlocks
  BY IInvSafe, Zenon
<1>2. QED
  BY <1>1, Invariance, PTL

\* The two sides of every chain between blocks agree, so tb_jmp_unlink and
\* tb_remove_from_jmp_list find every jump they have to reset.
THEOREM Chains ==
    ASSUME "flush" \notin Calls, "nested" \notin Calls
    PROVE  Spec => []ChainsMirror
<1>1. IInv => ChainsMirror
  BY IInvSafe, Zenon
<1>2. QED
  BY <1>1, Invariance, PTL

\* The block that runs, and the one the loop is about to chain from, keep their
\* memory in the code buffer, also when tb_gen_code finds it full.
THEOREM RunningBlock ==
    ASSUME "flush" \notin Calls, "nested" \notin Calls
    PROVE  Spec => []RunningKept
<1>1. IInv => RunningKept
  BY IInvSafe, Zenon
<1>2. QED
  BY <1>1, Invariance, PTL

-----------------------------------------------------------------------------
(* Blocks and the current mapping. *)

\* A block is on one RAM page, or on the two of its first and its last byte; a block
\* at the start of a page is on that page only.
BlockShape(b) ==
    /\ b.page0 # -1
    /\ b.size > 0 =>
        /\ \/ Page(b.pc + b.size - 1) = Page(b.pc) /\ b.page1 = -1
           \/ Page(b.pc + b.size - 1) = Page(b.pc) + 1 /\ b.page1 # -1
        /\ Page(b.pc - 1) # Page(b.pc) => b.page1 = -1

\* The jump cache holds blocks of the current mapping and temporary ones.
Pages ==
    /\ \A t \in 1 .. used : ~tb[t].nocache => BlockShape(tb[t])
    /\ \A h \in DOMAIN jmp_cache :
           jmp_cache[h] # 0 => tb[jmp_cache[h]].nocache \/ Current(jmp_cache[h])

\* A block of at most PageSize bytes ends on its page or the next one, and on its own
\* when it begins there.
LEMMA PageSpan ==
    ASSUME NEW p \in Nat, NEW size \in Nat, 0 < size, size <= PageSize
    PROVE  /\ Page(p + size - 1) \in {Page(p), Page(p) + 1}
           /\ Page(p - 1) # Page(p) => Page(p + size - 1) = Page(p)
<1> DEFINE S == PageSize
           q == p \div S
           r == p % S
<1>1. S \in Nat /\ S > 0
  BY SlotsAssumption
<1>2. q \in Nat /\ r \in 0 .. S - 1 /\ p = S * q + r
  BY <1>1
<1>3. \A x \in Int, k \in Int : S * k <= x /\ x < S * k + S => x \div S = k
  BY <1>1
<1>4. S * q \in Int /\ S * (q + 1) = S * q + S
  BY <1>1, <1>2
<1> HIDE DEF q, r, S
<1>5. p + size - 1 < S * q + S => (p + size - 1) \div S = q
  BY <1>1, <1>2, <1>3, <1>4
<1>6. p + size - 1 >= S * q + S => (p + size - 1) \div S = q + 1
  BY <1>1, <1>2, <1>3, <1>4 DEF S
<1>7. r > 0 => (p - 1) \div S = q
  BY <1>1, <1>2, <1>3, <1>4
<1>8. r = 0 => p + size - 1 < S * q + S
  BY <1>1, <1>2, <1>4 DEF S
<1>9. p + size - 1 < S * q + S \/ p + size - 1 >= S * q + S
  BY <1>1, <1>2, <1>4
<1>10. r > 0 \/ r = 0
  BY <1>1, <1>2
<1> QED BY <1>5, <1>6, <1>7, <1>8, <1>9, <1>10, Zenon DEF Page, q, S

\* A new block has this shape and is of the current mapping.
LEMMA NewBlockShape ==
    ASSUME TypeOK, NEW p \in Pc, NEW size \in Size[p], NEW c \in BOOLEAN, CodeMapped(p, size)
    PROVE  /\ BlockShape(NewBlock(p, size, c))
           /\ NewBlock(p, size, c).pc = p /\ ~NewBlock(p, size, c).nocache
           /\ NewBlock(p, size, c).page0 = get_page_addr_code(Page(p))
           /\ LET b == NewBlock(p, size, c)
              IN  \/ b.page1 = -1
                  \/ b.page1 = get_page_addr_code(Page(p) + 1)
                  \/ Page(p - 1) # Page(p)
<1> DEFINE b == NewBlock(p, size, c)
<1>1. p \in Nat /\ size \in Nat /\ size <= PageSize
  BY CodeAssumption, PagesAssumption
<1>2. /\ b.pc = p /\ ~b.nocache /\ b.size = size /\ b.page0 = get_page_addr_code(Page(p))
      /\ b.page1 = phys_page2(p, size)
  BY DEF NewBlock
<1>3. b.page0 # -1
  BY <1>2 DEF CodeMapped
<1>4. CASE size = 0
  <2>1. p + size - 1 = p - 1
    BY <1>1, <1>4
  <2>2. b.page1 = -1 \/ Page(p - 1) # Page(p)
    BY <1>2, <2>1, Zenon DEF phys_page2
  <2>3. BlockShape(b)
    BY <1>2, <1>3, <1>4 DEF BlockShape
  <2> QED BY <1>2, <2>2, <2>3
<1>5. CASE size > 0
  <2>1. /\ Page(p + size - 1) \in {Page(p), Page(p) + 1}
        /\ Page(p - 1) # Page(p) => Page(p + size - 1) = Page(p)
    BY <1>1, <1>5, PageSpan
  <2>2. Page(p) \in Int
    BY <1>1, SlotsAssumption DEF Page
  <2>3. CASE Page(p + size - 1) = Page(p)
    <3>1. b.page1 = -1
      BY <1>2, <2>3, Zenon DEF phys_page2
    <3>2. BlockShape(b)
      BY <1>2, <1>3, <2>3, <3>1, Zenon DEF BlockShape
    <3> QED BY <1>2, <3>1, <3>2
  <2>4. CASE Page(p + size - 1) = Page(p) + 1
    <3>0. Page(p) + 1 # Page(p)
      BY <2>2
    <3>1. b.page1 = get_page_addr_code(Page(p) + 1)
      BY <1>2, <2>4, <3>0, Zenon DEF phys_page2
    <3>2. b.page1 # -1
      BY <1>5, <2>4, <3>1 DEF CodeMapped
    <3>3. BlockShape(b)
      BY <1>2, <1>3, <2>1, <2>4, <3>0, <3>2, Zenon DEF BlockShape
    <3> QED BY <1>2, <3>1, <3>3
  <2> QED BY <2>1, <2>3, <2>4
<1> QED BY <1>1, <1>4, <1>5

\* Both lookups return blocks of the current mapping, temporary ones apart.
LEMMA LookupCurrent ==
    ASSUME TypeOK, Pages, NEW p \in Pc, NEW c \in BOOLEAN, NEW t \in Lookup(p, c)
    PROVE  tb[t].pc = p /\ (tb[t].nocache \/ Current(t))
<1>1. CASE JmpCacheHit(p, c)
  <2>1. JmpHash[p] \in DOMAIN jmp_cache /\ t = jmp_cache[JmpHash[p]] /\ t # 0 /\ tb[t].pc = p
    BY <1>1 DEF TypeOK, Lookup, JmpCacheHit
  <2> QED BY <2>1, Zenon DEF Pages
<1>2. CASE ~JmpCacheHit(p, c)
  <2>1. tb_lookup_cmp(t, p, c)
    BY <1>2, Zenon DEF Lookup
  <2> QED BY <2>1, Zenon DEF tb_lookup_cmp, Current
<1> QED BY <1>1, <1>2

\* So is the block tb_link_page finds in place of the new one.
LEMMA ExistingCurrent ==
    ASSUME TypeOK, Pages, NEW p \in Pc, NEW size \in Size[p], NEW c \in BOOLEAN,
           CodeMapped(p, size), NEW t \in existing_tb(NewBlock(p, size, c)), t \in 1 .. used
    PROVE  tb[t].pc = p /\ (tb[t].nocache \/ Current(t))
<1> DEFINE b == NewBlock(p, size, c)
<1>1. /\ b.pc = p /\ b.page0 = get_page_addr_code(Page(p))
      /\ \/ b.page1 = -1
         \/ b.page1 = get_page_addr_code(Page(p) + 1)
         \/ Page(p - 1) # Page(p)
  BY NewBlockShape
<1> HIDE DEF b
<1>2. tb[t].pc = p /\ tb[t].page0 = b.page0 /\ tb[t].page1 = b.page1
  BY <1>1, Zenon DEF existing_tb, b
<1>3. CASE tb[t].nocache
  BY <1>2, <1>3
<1>4. CASE ~tb[t].nocache
  <2>1. tb[t].size > 0 /\ Page(p - 1) # Page(p) => tb[t].page1 = -1
    BY <1>2, <1>4, Zenon DEF Pages, BlockShape
  <2> QED BY <1>1, <1>2, <2>1, Zenon DEF Current
<1> QED BY <1>3, <1>4

\* A step that translates nothing may set entries of the jump cache to blocks of the
\* current mapping, or clear it.
LEMMA PagesKept ==
    ASSUME Pages, tb' = tb, used' = used,
           \/ jmp_cache' = EmptyJmpCache
           \/ /\ vmap' = vmap
              /\ \A h \in DOMAIN jmp_cache' :
                    \/ jmp_cache'[h] = 0
                    \/ h \in DOMAIN jmp_cache /\ jmp_cache'[h] = jmp_cache[h]
                    \/ tb[jmp_cache'[h]].nocache \/ Current(jmp_cache'[h])
    PROVE  Pages'
<1>1. \A t \in 1 .. used' : ~tb'[t].nocache => BlockShape(tb'[t])
  BY DEF Pages
<1>2. ASSUME NEW h \in DOMAIN jmp_cache', jmp_cache'[h] # 0
      PROVE  tb'[jmp_cache'[h]].nocache \/ Current(jmp_cache[h])'
  <2>1. jmp_cache' # EmptyJmpCache
    BY <1>2, JmpCacheEmpty
  <2>2. vmap' = vmap /\ (tb[jmp_cache'[h]].nocache \/ Current(jmp_cache'[h]))
    BY <1>2, <2>1, Zenon DEF Pages
  <2> QED BY <2>2, Zenon DEF Current, get_page_addr_code
<1> QED BY <1>1, <1>2, Zenon DEF Pages

\* A new block is of the current mapping or temporary.
LEMMA PagesLinked ==
    ASSUME IInv, Pages, NEW b \in Block, LinkBlock(used + 1, b), used < NSlots,
           NEW p \in Pc,
           \/ /\ jmp_cache' = [jmp_cache EXCEPT ![JmpHash[p]] = used + 1]
              /\ vmap' = vmap
              /\ BlockShape(b) /\ b.page0 = get_page_addr_code(Page(b.pc))
              /\ b.size > 0 => b.page1 = -1 \/ b.page1 = get_page_addr_code(Page(b.pc) + 1)
           \/ /\ jmp_cache' = [EmptyJmpCache EXCEPT ![JmpHash[p]] = used + 1]
              /\ b.nocache
    PROVE  Pages'
<1> DEFINE s == used + 1
<1>1. /\ s \in Slot /\ used' = s /\ tb' = [tb EXCEPT ![s] = b] /\ tb'[s] = b
      /\ \A t \in 1 .. used : tb'[t] = tb[t]
      /\ \A t \in 1 .. s : t = s \/ t \in 1 .. used
  BY SlotsAssumption DEF IInv, TypeOK, LinkBlock, Slot
<1> HIDE DEF s
<1>2. \A t \in 1 .. used' : ~tb'[t].nocache => BlockShape(tb'[t])
  BY <1>1, Zenon DEF Pages
<1>3. ASSUME NEW h \in DOMAIN jmp_cache', jmp_cache'[h] # 0
      PROVE  tb'[jmp_cache'[h]].nocache \/ Current(jmp_cache[h])'
  <2>1. CASE b.nocache /\ jmp_cache'[h] = s
    BY <1>1, <2>1
  <2>2. CASE ~b.nocache /\ jmp_cache'[h] = s
    <3>1. /\ vmap' = vmap /\ b.page0 = get_page_addr_code(Page(b.pc))
          /\ b.size > 0 => b.page1 = -1 \/ b.page1 = get_page_addr_code(Page(b.pc) + 1)
      BY <2>2
    <3> QED BY <1>1, <2>2, <3>1, Zenon DEF Current, get_page_addr_code
  <2>3. CASE jmp_cache'[h] # s
    <3>1. vmap' = vmap /\ h \in DOMAIN jmp_cache /\ jmp_cache'[h] = jmp_cache[h]
      BY <1>3, <2>3, JmpCacheEmpty DEF IInv, TypeOK, s
    <3>2. jmp_cache[h] \in 1 .. used /\ (tb[jmp_cache[h]].nocache \/ Current(jmp_cache[h]))
      BY <1>3, <3>1 DEF IInv, FindOK, Pages
    <3>3. tb'[jmp_cache[h]] = tb[jmp_cache[h]]
      BY <1>1, <3>2
    <3> QED BY <3>1, <3>2, <3>3, Zenon DEF Current, get_page_addr_code
  <2> QED BY <2>1, <2>2, <2>3
<1> QED BY <1>2, <1>3, Zenon DEF Pages

\* An entry of the jump cache is set to a block of the current mapping.
LEMMA PagesSet ==
    ASSUME TypeOK, Pages, NEW p \in Pc, NEW t \in Slot, tb[t].nocache \/ Current(t),
           tb' = tb, used' = used, vmap' = vmap,
           jmp_cache' = [jmp_cache EXCEPT ![JmpHash[p]] = t]
    PROVE  Pages'
<1>1. \A h \in DOMAIN jmp_cache' :
          jmp_cache'[h] = t \/ (h \in DOMAIN jmp_cache /\ jmp_cache'[h] = jmp_cache[h])
  BY JmpCacheSet
<1> QED BY <1>1, PagesKept, Zenon

\* Invalidating blocks, with or without a change of the mapping.
LEMMA PagesInvalidate ==
    ASSUME Pages, NEW R, do_tb_phys_invalidate(R),
           (jmp_cache' = JmpCacheWithout(R) /\ vmap' = vmap) \/ jmp_cache' = EmptyJmpCache
    PROVE  Pages'
<1>1. tb' = tb /\ used' = used
  BY DEF do_tb_phys_invalidate
<1>2. jmp_cache' = JmpCacheWithout(R) => \A h \in DOMAIN jmp_cache' :
          jmp_cache'[h] = 0 \/ (h \in DOMAIN jmp_cache /\ jmp_cache'[h] = jmp_cache[h])
  BY DEF JmpCacheWithout
<1> QED BY <1>1, <1>2, PagesKept, Zenon

\* The block that a request or the loop translates (tb_gen_code).
LEMMA PagesGen ==
    ASSUME IInv, Pages, NEW p \in Pc, NEW size \in Size[p], CodeMapped(p, size), used < NSlots,
           next_count1 \in BOOLEAN, LinkBlock(used + 1, NewBlock(p, size, next_count1)),
           jmp_cache' = [jmp_cache EXCEPT ![JmpHash[p]] = used + 1], vmap' = vmap
    PROVE  Pages'
<1> DEFINE b == NewBlock(p, size, next_count1)
<1>1. TypeOK /\ size \in Nat
  BY CodeAssumption DEF IInv
<1>2. b \in Block
  BY <1>1, NewBlockPages
<1>3. /\ BlockShape(b) /\ b.pc = p /\ b.page0 = get_page_addr_code(Page(p))
      /\ \/ b.page1 = -1
         \/ b.page1 = get_page_addr_code(Page(p) + 1)
         \/ Page(p - 1) # Page(p)
  BY <1>1, NewBlockShape
<1> HIDE DEF b
<1>4. b.size > 0 => b.page1 = -1 \/ b.page1 = get_page_addr_code(Page(b.pc) + 1)
  BY <1>3, Zenon DEF BlockShape
<1>5. LinkBlock(used + 1, b) /\ b.page0 = get_page_addr_code(Page(b.pc))
  BY <1>3 DEF b
<1> QED BY <1>2, <1>3, <1>4, <1>5, PagesLinked, Zenon

\* Every step keeps the jump cache to the current mapping.
LEMMA PagesStep ==
    ASSUME "flush" \notin Calls, "nested" \notin Calls, IInv, Pages, [Next]_vars
    PROVE  Pages'
<1>0. TypeOK /\ next_count1 \in BOOLEAN /\ 1 .. used \subseteq Slot
  BY LiveSlots DEF IInv, TypeOK
<1>1. ASSUME UNCHANGED <<vmap, tb, used, jmp_cache>> PROVE Pages'
  BY <1>1, PagesKept, Zenon
<1>2. CASE UNCHANGED vars
  BY <1>1, <1>2 DEF vars, cache
<1>3. CASE \/ \E p \in Pc : Start(p) \/ Raise(p)
           \/ Finish
           \/ \E n \in Exit : GotoTb(n)
  <2>1. UNCHANGED <<vmap, tb, used, jmp_cache>>
    BY <1>3, Zenon DEF Start, Raise, Finish, GotoTb, cache
  <2> QED BY <1>1, <2>1
<1>4. ASSUME NEW p \in Pc, GotoPtr(p) PROVE Pages'
  <2>1. vmap' = vmap /\ tb' = tb /\ used' = used
    BY <1>4, Zenon DEF GotoPtr, cache
  <2>2. ASSUME NEW d \in Lookup(p, FALSE), jmp_cache' = [jmp_cache EXCEPT ![JmpHash[p]] = d]
        PROVE  Pages'
    <3>1. d \in Slot /\ (tb[d].nocache \/ Current(d))
      BY <1>0, LookupLive, LookupCurrent, Zenon DEF IInv
    <3> QED BY <1>0, <2>1, <2>2, <3>1, PagesSet, Zenon
  <2> QED BY <1>1, <1>4, <2>1, <2>2, Zenon DEF GotoPtr
<1>5. CASE \E v, w \in VPages, p \in Pc : SwitchPageTable(v, w, p)
  BY <1>5, PagesKept, Zenon DEF SwitchPageTable, cache
<1>6. CASE TbFull \/ Flush
  <2>1. used' = 0 /\ jmp_cache' = EmptyJmpCache
    BY <1>6 DEF TbFull, Flush, tb_flush
  <2> QED BY <2>1, JmpCacheEmpty DEF Pages
<1>7. ASSUME NEW t \in Slot, TbFound(t) PROVE Pages'
  <2>1. /\ Looping /\ t \in Lookup(top.pc, next_count1) /\ vmap' = vmap /\ tb' = tb /\ used' = used
        /\ jmp_cache' = [jmp_cache EXCEPT ![JmpHash[top.pc]] = t]
    BY <1>7, Zenon DEF TbFound
  <2>2. top.pc \in Pc
    BY <2>1, LoopingTypes DEF IInv
  <2>3. tb[t].nocache \/ Current(t)
    BY <1>0, <2>1, <2>2, LookupCurrent, Zenon
  <2> QED BY <1>0, <2>1, <2>2, <2>3, PagesSet, Zenon
<1>8. ASSUME Looping, NEW size \in Sizes
      PROVE  top.pc \in Pc /\ size \in Size[top.pc] /\ size \in Nat
  <2>1. top.pc \in Pc /\ size \in Size[top.pc]
    BY <1>8, LoopingTypes DEF IInv, Sizes
  <2> QED BY <2>1, CodeAssumption
<1>9. ASSUME NEW size \in Sizes, NEW t \in Slot, TbExisting(size, t) PROVE Pages'
  <2>1. /\ Looping /\ t \in existing_tb(NewBlock(top.pc, size, next_count1)) /\ CodeMapped(top.pc, size)
        /\ vmap' = vmap /\ tb' = tb /\ used' = used
        /\ jmp_cache' = [jmp_cache EXCEPT ![JmpHash[top.pc]] = t]
    BY <1>9, Zenon DEF TbExisting
  <2>2. t \in 1 .. used
    BY <2>1 DEF existing_tb, IInv, FindOK
  <2>3. tb[t].nocache \/ Current(t)
    BY <1>0, <1>8, <2>1, <2>2, ExistingCurrent, Zenon
  <2> QED BY <1>0, <1>8, <2>1, <2>3, PagesSet, Zenon
<1>10. ASSUME NEW size \in Sizes, TbGen(size) PROVE Pages'
  <2>1. /\ Looping /\ used < NSlots /\ CodeMapped(top.pc, size) /\ vmap' = vmap
        /\ LinkBlock(used + 1, NewBlock(top.pc, size, next_count1))
        /\ jmp_cache' = [jmp_cache EXCEPT ![JmpHash[top.pc]] = used + 1]
    BY <1>10, Zenon DEF TbGen
  <2> QED BY <1>0, <1>8, <2>1, PagesGen, Zenon
<1>11. ASSUME NEW size \in Sizes, NEW f \in Frames, TbOnDemand(size, f) PROVE Pages'
  <2> DEFINE b == [NewBlock(top.pc, size, next_count1) EXCEPT !.nocache = TRUE, !.page1 = -1]
  <2>1. /\ Looping /\ used < NSlots /\ LinkBlock(used + 1, b)
        /\ jmp_cache' = [EmptyJmpCache EXCEPT ![JmpHash[top.pc]] = used + 1]
    BY <1>11, Zenon DEF TbOnDemand
  <2>2. NewBlock(top.pc, size, next_count1) \in Block
    BY <1>0, <1>8, <2>1, NewBlockPages
  <2>3. b \in Block /\ b.nocache
    BY <2>2, Zenon DEF Block
  <2> HIDE DEF b
  <2> QED BY <1>8, <2>1, <2>3, PagesLinked, Zenon
<1>12. CASE \E bitmap \in BOOLEAN : GuestStore(bitmap)
  <2>1. PICK R : do_tb_phys_invalidate(R) /\ jmp_cache' = JmpCacheWithout(R) /\ vmap' = vmap
    BY <1>12, Zenon DEF GuestStore
  <2> QED BY <2>1, PagesInvalidate
<1>13. CASE \E v \in VPages, lo, hi \in 0 .. PageSize : lo < hi /\ RemoveCache(v, lo, hi)
  <2>1. PICK R : do_tb_phys_invalidate(R) /\ jmp_cache' = JmpCacheWithout(R) /\ vmap' = vmap
    BY <1>13, Zenon DEF RemoveCache
  <2> QED BY <2>1, PagesInvalidate
<1>14. ASSUME NEW p \in Pc, NEW size \in Size[p], RequestCache(p, size) PROVE Pages'
  <2>0. vmap' = vmap
    BY <1>14 DEF RequestCache
  <2>1. ASSUME NEW t \in Lookup(p, next_count1), jmp_cache' = [jmp_cache EXCEPT ![JmpHash[p]] = t],
               UNCHANGED <<cache, dropped>>
        PROVE  Pages'
    <3>1. t \in Slot /\ (tb[t].nocache \/ Current(t))
      BY <1>0, LookupLive, LookupCurrent DEF IInv
    <3> QED BY <1>0, <2>0, <2>1, <3>1, PagesSet, Zenon DEF cache
  <2>2. ASSUME CodeMapped(p, size), NEW t \in existing_tb(NewBlock(p, size, next_count1)),
               jmp_cache' = [jmp_cache EXCEPT ![JmpHash[p]] = t], UNCHANGED <<cache, dropped>>
        PROVE  Pages'
    <3>1. t \in 1 .. used /\ t \in Slot
      BY <1>0 DEF existing_tb, IInv, FindOK
    <3>2. tb[t].nocache \/ Current(t)
      BY <1>0, <2>2, <3>1, ExistingCurrent, Zenon
    <3> QED BY <1>0, <2>0, <2>2, <3>1, <3>2, PagesSet, Zenon DEF cache
  <2>3. ASSUME CodeMapped(p, size), used < NSlots,
               LinkBlock(used + 1, NewBlock(p, size, next_count1)),
               jmp_cache' = [jmp_cache EXCEPT ![JmpHash[p]] = used + 1]
        PROVE  Pages'
    BY <1>0, <2>0, <2>3, PagesGen, Zenon
  <2> QED BY <1>14, <2>1, <2>2, <2>3, Zenon DEF RequestCache
<1>15. CASE \/ \E v \in VPages : Unmap(v)
            \/ \E v \in VPages, f \in Frames : Map(v, f)
            \/ \E v, w \in VPages : Retranslate(v, w)
  <2>1. tb' = tb /\ used' = used /\ jmp_cache' = EmptyJmpCache
    BY <1>15 DEF Unmap, Map, Retranslate, do_tb_phys_invalidate, cache
  <2> QED BY <2>1, PagesKept, Zenon
<1> QED
  BY <1>2, <1>3, <1>4, <1>5, <1>6, <1>7, <1>9, <1>10, <1>11, <1>12, <1>13, <1>14, <1>15, Zenon
     DEF Next, TbFind, Api

\* The jump cache, whose lookup does not compare RAM pages, holds no block of another
\* mapping: every change of the mapping clears it, and a block that crosses into the
\* next page has the RAM page of that page as its second one.
THEOREM JumpCache ==
    ASSUME "flush" \notin Calls, "nested" \notin Calls
    PROVE  Spec => []JmpCacheCurrent
<1>1. Init => Pages
  <2>1. Init => 1 .. used = {} /\ jmp_cache = EmptyJmpCache
    BY DEF Init
  <2> QED BY <2>1, JmpCacheEmpty DEF Pages
<1>2. IInv /\ Pages /\ [Next]_vars => Pages'
  BY PagesStep
<1>3. IInv /\ Pages => JmpCacheCurrent
  BY DEF IInv, FindOK, Pages, JmpCacheCurrent, Live
<1> QED BY <1>1, <1>2, <1>3, Invariance, PTL DEF Spec

-----------------------------------------------------------------------------
(* Chains stay on a page. *)

\* The RAM page behind a virtual page in the mapping m, and the blocks of m.
Frame(m, v) == IF v \in VPages THEN m[v] ELSE -1

OfMap(m, b) ==
    /\ b.page0 = Frame(m, Page(b.pc))
    /\ b.page1 # -1 /\ b.size > 0 => b.page1 = Frame(m, Page(b.pc) + 1)

\* Block b begins on virtual page v in RAM page f; it has code there.
Begins(b, v, f) == Page(b.pc) = v /\ b.page0 = f
CodeOn(b, v, f) == Begins(b, v, f) \/ (b.size > 0 /\ Page(b.pc) + 1 = v /\ b.page1 = f)

\* Exit n of block b leads to block d.
Chain(b, n, d) == /\ d.pc = Target[b.pc][n] /\ d.page1 = -1
                  /\ CodeOn(b, Page(d.pc), d.page0)

Chained(u, T, target) ==
    \A t \in 1 .. u : \A n \in Exit :
        target[<<t, n>>] # 0 => Chain(T[t], n, T[target[<<t, n>>]])

\* A block that runs is invalid or of the mapping; where the mapping has changed
\* under it, every block that begins there is invalid.
Sound(I, m, T, t) == t \in I \/ OfMap(m, T[t])
Fit(u, I, m, T, t) ==
    \A v \in Int, f \in Frames :
        CodeOn(T[t], v, f) => \/ Frame(m, v) = f
                              \/ \A e \in 1 .. u : Begins(T[e], v, f) => e \in I

\* Exit n of block b is a direct jump to p.
Leaves(b, n, p) ==
    /\ b.size > 0 /\ p = Target[b.pc][n]
    /\ Page(p) = Page(b.pc) \/ Page(p) = Page(b.pc + b.size - 1)

RunsAt(u, I, m, T, c) ==
    /\ c.at # "loop" => Sound(I, m, T, c.tb) /\ Fit(u, I, m, T, c.tb)
    /\ c.at = "loop" /\ c.last # 0 => Leaves(T[c.last], c.n, c.pc) /\ Sound(I, m, T, c.last)

OnPages ==
    /\ \A t \in 1 .. used : ~tb[t].nocache
    /\ Chained(used, tb, jmp_target)
    /\ level = 1 => RunsAt(used, invalid, vmap, tb, cpu[1])

\* The mapping of the model.
LEMMA MapIsCurrent ==
    /\ \A v : get_page_addr_code(v) = Frame(vmap, v)
    /\ \A t : Current(t) <=> OfMap(vmap, tb[t])
BY DEF get_page_addr_code, Frame, Current, OfMap

\* RAM pages are not -1.
LEMMA FramesMapped == \A f \in Frames : f # -1
BY PagesAssumption

\* A block of the mapping may run.
LEMMA FitsMap ==
    ASSUME NEW u, NEW I, NEW m, NEW T, NEW t, OfMap(m, T[t])
    PROVE  Sound(I, m, T, t) /\ Fit(u, I, m, T, t)
BY FramesMapped, Zenon DEF Sound, Fit, OfMap, CodeOn, Begins

\* A block that a running block is chained to may run.
LEMMA FitsChain ==
    ASSUME NEW u, NEW I, NEW m, NEW T, NEW s, NEW n, NEW d \in 1 .. u,
           Fit(u, I, m, T, s), Chain(T[s], n, T[d]),
           T[d].page0 \in Frames, Page(T[d].pc) \in Int
    PROVE  Sound(I, m, T, d) /\ Fit(u, I, m, T, d)
<1> DEFINE v == Page(T[d].pc)
           f == T[d].page0
<1>1. CodeOn(T[s], v, f) /\ T[d].page1 = -1 /\ Begins(T[d], v, f)
  BY Zenon DEF Chain, Begins
<1>2. CASE Frame(m, v) = f
  <2>1. OfMap(m, T[d])
    BY <1>1, <1>2, Zenon DEF OfMap
  <2> QED BY <2>1, FitsMap, Zenon
<1>3. CASE \A e \in 1 .. u : Begins(T[e], v, f) => e \in I
  <2>1. d \in I
    BY <1>1, <1>3, Zenon
  <2>2. ASSUME NEW w \in Int, NEW g \in Frames, CodeOn(T[d], w, g)
        PROVE  w = v /\ g = f
    BY <1>1, <2>2, FramesMapped, Zenon DEF CodeOn, Begins
  <2> QED BY <1>3, <2>1, <2>2, Zenon DEF Sound, Fit
<1> QED BY <1>1, <1>2, <1>3, Zenon DEF Fit

\* Invalidating blocks keeps the running block.
LEMMA FitsInvalid ==
    ASSUME NEW u, NEW I, NEW J, NEW m, NEW T, NEW t, I \subseteq J
    PROVE  /\ Sound(I, m, T, t) => Sound(J, m, T, t)
           /\ Fit(u, I, m, T, t) => Fit(u, J, m, T, t)
BY Zenon DEF Sound, Fit

\* So does a new block of the mapping.
LEMMA FitsNew ==
    ASSUME NEW u \in Nat, NEW I, NEW J, NEW m, NEW T, NEW U, NEW t \in 1 .. u,
           \A e \in 1 .. u : U[e] = T[e] /\ (e \in I <=> e \in J),
           OfMap(m, U[u + 1]), Page(U[u + 1].pc) \in Int
    PROVE  /\ Sound(I, m, T, t) => Sound(J, m, U, t)
           /\ Fit(u, I, m, T, t) => Fit(u + 1, J, m, U, t)
<1>1. Sound(I, m, T, t) => Sound(J, m, U, t)
  BY Zenon DEF Sound
<1>2. ASSUME Fit(u, I, m, T, t), NEW v \in Int, NEW f \in Frames, CodeOn(U[t], v, f), Frame(m, v) # f,
             NEW e \in 1 .. u + 1, Begins(U[e], v, f)
      PROVE  e \in J
  <2>1. e # u + 1
    BY <1>2 DEF Begins, OfMap
  <2>2. e \in 1 .. u
    BY <1>2, <2>1
  <2> QED BY <1>2, <2>2, Zenon DEF Fit
<1> QED BY <1>1, <1>2, Zenon DEF Fit

\* A direct jump of a valid block leads to a block on its pages.
LEMMA LeavesOnPage ==
    ASSUME NEW m, NEW b, NEW n, NEW d, Leaves(b, n, d.pc), OfMap(m, b), BlockShape(b),
           OfMap(m, d), d.page1 = -1
    PROVE  Chain(b, n, d)
<1>1. d.pc = Target[b.pc][n] /\ b.size > 0
  BY DEF Leaves
<1>2. CASE Page(d.pc) = Page(b.pc)
  BY <1>1, <1>2, Zenon DEF Chain, CodeOn, Begins, OfMap
<1>3. CASE Page(d.pc) = Page(b.pc) + 1 /\ b.page1 # -1
  <2>1. b.page1 = Frame(m, Page(d.pc)) /\ d.page0 = Frame(m, Page(d.pc))
    BY <1>1, <1>3, Zenon DEF OfMap
  <2> QED BY <1>1, <1>3, <2>1, Zenon DEF Chain, CodeOn
<1> QED BY <1>1, <1>2, <1>3, Zenon DEF Leaves, BlockShape

\* Unmapping a page: the blocks on it become invalid.
LEMMA FitsUnmap ==
    ASSUME NEW u, NEW I, NEW J, NEW m \in [VPages -> Frames \cup {-1}], NEW T, NEW t \in 1 .. u,
           NEW w \in VPages, I \subseteq J,
           \A e \in 1 .. u : e \notin J => T[e].page0 # m[w] /\ T[e].page1 # m[w]
    PROVE  LET k == [m EXCEPT ![w] = -1] IN
           /\ Sound(I, m, T, t) => Sound(J, k, T, t)
           /\ Fit(u, I, m, T, t) => Fit(u, J, k, T, t)
<1> DEFINE k == [m EXCEPT ![w] = -1]
<1>1. \A v : Frame(k, v) = Frame(m, v) \/ (v = w /\ Frame(m, v) = m[w])
  BY DEF Frame
<1> HIDE DEF k
<1>2. ASSUME OfMap(m, T[t]), t \notin J PROVE OfMap(k, T[t])
  <2>1. T[t].page0 # m[w] /\ T[t].page1 # m[w]
    BY <1>2
  <2> QED BY <1>1, <1>2, <2>1, Zenon DEF OfMap
<1>3. ASSUME Fit(u, I, m, T, t), NEW v \in Int, NEW f \in Frames, CodeOn(T[t], v, f), Frame(k, v) # f,
             NEW e \in 1 .. u, Begins(T[e], v, f), e \notin J
      PROVE  FALSE
  <2>1. Frame(m, v) = f
    BY <1>3, Zenon DEF Fit
  <2>2. f = m[w]
    BY <1>1, <1>3, <2>1, Zenon
  <2> QED BY <1>3, <2>2, Zenon DEF Begins
<1>4. Sound(I, m, T, t) => Sound(J, k, T, t)
  BY <1>2, Zenon DEF Sound
<1>5. Fit(u, I, m, T, t) => Fit(u, J, k, T, t)
  BY <1>3, Zenon DEF Fit
<1> QED BY <1>4, <1>5 DEF k

\* Mapping a page that was not mapped.
LEMMA FitsNewMap ==
    ASSUME NEW u, NEW I, NEW m \in [VPages -> Frames \cup {-1}], NEW T, NEW t \in 1 .. u,
           NEW w \in VPages, NEW g, m[w] = -1, T[t].page0 # -1
    PROVE  LET k == [m EXCEPT ![w] = g] IN
           /\ Sound(I, m, T, t) => Sound(I, k, T, t)
           /\ Fit(u, I, m, T, t) => Fit(u, I, k, T, t)
<1> DEFINE k == [m EXCEPT ![w] = g]
<1>1. \A v : Frame(m, v) # -1 => Frame(k, v) = Frame(m, v)
  BY DEF Frame
<1> HIDE DEF k
<1>2. OfMap(m, T[t]) => OfMap(k, T[t])
  BY <1>1, Zenon DEF OfMap
<1>3. Fit(u, I, m, T, t) => Fit(u, I, k, T, t)
  BY <1>1, FramesMapped, Zenon DEF Fit
<1> QED BY <1>2, <1>3, Zenon DEF Sound, k

\* A step that translates nothing and chains nothing.
LEMMA OnPagesKept ==
    ASSUME OnPages, tb' = tb, used' = used,
           \A t \in 1 .. used, n \in Exit : jmp_target'[<<t, n>>] \in {0, jmp_target[<<t, n>>]},
           level' = 1 => RunsAt(used, invalid', vmap', tb, cpu'[1])
    PROVE  OnPages'
<1>1. Chained(used, tb, jmp_target')
  BY DEF OnPages, Chained
<1> QED BY <1>1, Zenon DEF OnPages

\* A level that returns to the loop without a block to chain.
LEMMA RunsNothing ==
    ASSUME NEW u, NEW I, NEW m, NEW T, NEW c, c.at = "loop", c.last = 0
    PROVE  RunsAt(u, I, m, T, c)
BY DEF RunsAt

\* A level that enters a block.
LEMMA RunsBlock ==
    ASSUME NEW u, NEW I, NEW m, NEW T, NEW c, c.at # "loop",
           Sound(I, m, T, c.tb), Fit(u, I, m, T, c.tb)
    PROVE  RunsAt(u, I, m, T, c)
BY DEF RunsAt

\* The one level there is.
LEMMA OneLevel ==
    ASSUME IInv, level > 0
    PROVE  /\ level = 1 /\ top = cpu[1] /\ top \in Cpu
           /\ \A c : cpu' = [cpu EXCEPT ![level] = c] => cpu'[1] = c
<1>1. level = 1 /\ level \in 1 .. MaxLevel /\ top \in Cpu
  BY TopTypes, LoopTop, Zenon DEF IInv
<1>2. DOMAIN cpu = 1 .. MaxLevel
  BY DEF IInv, TypeOK
<1> QED BY <1>1, <1>2, Zenon DEF top

\* A level that goes on in block d at p.
LEMMA GoesOn ==
    ASSUME IInv, level > 0, NEW p, NEW d,
           cpu' = [cpu EXCEPT ![level].at = "entry", ![level].pc = p, ![level].tb = d]
    PROVE  cpu'[1].at = "entry" /\ cpu'[1].tb = d
<1> DEFINE c == [top EXCEPT !.at = "entry", !.pc = p, !.tb = d]
<1>1. top \in Cpu /\ level \in 1 .. MaxLevel
  BY TopTypes DEF IInv
<1>2. cpu' = [cpu EXCEPT ![level] = c]
  BY <1>1, Zenon DEF top, IInv, TypeOK
<1>3. c.at = "entry" /\ c.tb = d
  BY <1>1, Zenon DEF Cpu
<1> HIDE DEF c
<1>4. cpu'[1] = c
  BY <1>2, OneLevel, Zenon
<1> QED BY <1>3, <1>4

\* The block that runs, and the block that the loop is about to chain from.
LEMMA TopBlock ==
    ASSUME IInv, OnPages, level > 0
    PROVE  /\ top.at # "loop" => /\ top.tb \in 1 .. used
                                 /\ Sound(invalid, vmap, tb, top.tb)
                                 /\ Fit(used, invalid, vmap, tb, top.tb)
           /\ top.at = "loop" /\ top.last # 0 =>
                 /\ top.last \in 1 .. used
                 /\ Leaves(tb[top.last], top.n, top.pc) /\ Sound(invalid, vmap, tb, top.last)
<1>1. level = 1 /\ top = cpu[1]
  BY OneLevel
<1>2. RunsAt(used, invalid, vmap, tb, top)
  BY <1>1 DEF OnPages
<1>3. /\ top.at # "loop" => top.tb \in 1 .. used
      /\ top.at = "loop" /\ top.last # 0 => top.last \in 1 .. used
  <2>1. /\ top.at # "loop" => top.tb \in 1 .. used
        /\ top.at = "loop" => top.last \in 0 .. used
    BY LoopTop, Zenon DEF IInv
  <2>2. 0 .. used = (1 .. used) \cup {0}
    BY LiveSlots, Zenon DEF IInv
  <2> QED BY <2>1, <2>2, Zenon
<1> QED BY <1>2, <1>3, Zenon DEF RunsAt

\* The page of an address.
LEMMA PcPages == \A p \in Pc : Page(p) \in Int
BY PagesAssumption, SlotsAssumption DEF Page

\* The blocks in use, without temporary ones.
LEMMA BlockTypes ==
    ASSUME IInv, Pages, OnPages, NEW t \in 1 .. used
    PROVE  /\ BlockShape(tb[t]) /\ tb[t] \in Block /\ tb[t].page0 \in Frames
           /\ tb[t].pc \in Pc /\ Page(tb[t].pc) \in Int
<1>1. tb[t] \in Block
  BY LiveSlots DEF IInv, TypeOK
<1>2. BlockShape(tb[t])
  BY DEF Pages, OnPages
<1>3. tb[t].page0 \in Frames /\ tb[t].pc \in Pc
  BY <1>1, <1>2 DEF Block, BlockShape
<1>4. Page(tb[t].pc) \in Int
  BY <1>3, PcPages
<1> QED BY <1>1, <1>2, <1>3, <1>4

\* FitsChain for the cache as it is.
LEMMA FitsChainHere ==
    ASSUME NEW s, NEW n, NEW d \in 1 .. used,
           Fit(used, invalid, vmap, tb, s), Chain(tb[s], n, tb[d]),
           tb[d].page0 \in Frames, Page(tb[d].pc) \in Int
    PROVE  Sound(invalid, vmap, tb, d) /\ Fit(used, invalid, vmap, tb, d)
BY FitsChain

\* Leaving a block by goto_tb: the block it is chained to may run.
LEMMA GotoOnPages ==
    ASSUME IInv, Pages, OnPages, NEW n \in Exit, GotoTb(n)
    PROVE  OnPages'
<1> DEFINE t == top.tb
           p == Target[tb[t].pc][n]
           d == jmp_target[<<t, n>>]
<1>1. /\ level > 0 /\ top.at # "loop" /\ p # -1 /\ use_goto_tb(t, p) /\ tb[t].size > 0
      /\ UNCHANGED <<vmap, cache, level>>
      /\ d # 0 => cpu' = [cpu EXCEPT ![level].at = "entry", ![level].pc = p, ![level].tb = d]
      /\ d = 0 => cpu' = [cpu EXCEPT ![level] = BackToLoop(p, t, n)]
  BY Zenon DEF GotoTb, Ready, InBlock
<1>2. tb' = tb /\ used' = used /\ jmp_target' = jmp_target /\ invalid' = invalid /\ vmap' = vmap /\ level' = level
  BY <1>1 DEF cache, jumps
<1>3. level = 1 /\ top = cpu[1] /\ top \in Cpu
  BY <1>1, OneLevel
<1>4. t \in 1 .. used /\ Sound(invalid, vmap, tb, t) /\ Fit(used, invalid, vmap, tb, t)
  BY <1>1, TopBlock
<1>5. CASE d # 0
  <2>1. d \in 1 .. used
    <3>1. d \in 0 .. used
      BY <1>4, LiveSlots, Zenon DEF IInv, JumpsOK
    <3> QED BY <1>5, <3>1, LiveSlots
  <2>2. Chain(tb[t], n, tb[d])
    BY <1>4, <1>5, Zenon DEF OnPages, Chained
  <2>3. Sound(invalid, vmap, tb, d) /\ Fit(used, invalid, vmap, tb, d)
    <3>1. tb[d].page0 \in Frames /\ Page(tb[d].pc) \in Int
      BY <2>1, BlockTypes, Zenon
    <3> HIDE DEF t, d
    <3> QED BY <1>4, <2>1, <2>2, <3>1, FitsChainHere, Zenon
  <2>4. cpu'[1].at = "entry" /\ cpu'[1].tb = d
    BY <1>1, <1>5, GoesOn, Zenon
  <2>5. RunsAt(used, invalid, vmap, tb, cpu'[1])
    BY <2>3, <2>4, RunsBlock, Zenon
  <2> QED BY <1>2, <2>5, OnPagesKept
<1>6. CASE d = 0
  <2>1. cpu'[1] = BackToLoop(p, t, n)
    BY <1>1, <1>3, <1>6, OneLevel, Zenon
  <2>2. cpu'[1].at = "loop" /\ cpu'[1].pc = p /\ cpu'[1].last = t /\ cpu'[1].n = n
    BY <1>3, <2>1, Zenon DEF BackToLoop, Cpu
  <2>3. Leaves(tb[t], n, p)
    BY <1>1, Zenon DEF Leaves, use_goto_tb
  <2>4. RunsAt(used, invalid, vmap, tb, cpu'[1])
    BY <1>4, <2>2, <2>3, Zenon DEF RunsAt
  <2> QED BY <1>2, <2>4, OnPagesKept
<1> QED BY <1>5, <1>6

\* Leaving a block by a lookup or to the loop.
LEMMA LeaveOnPages ==
    ASSUME IInv, Pages, OnPages, NEW p \in Pc,
           \/ GotoPtr(p) \/ Raise(p) \/ \E v, w \in VPages : SwitchPageTable(v, w, p)
    PROVE  OnPages'
<1>1. level > 0 /\ tb' = tb /\ used' = used /\ jmp_target' = jmp_target /\ invalid' = invalid
  BY Zenon DEF GotoPtr, Raise, SwitchPageTable, Ready, InBlock, cache, jumps
<1>2. level = 1 /\ top \in Cpu
  BY <1>1, OneLevel
<1>3. CASE cpu' = [cpu EXCEPT ![level] = BackToLoop(p, 0, 0)]
  <2>1. cpu'[1].at = "loop" /\ cpu'[1].last = 0
    <3>1. cpu'[1] = BackToLoop(p, 0, 0)
      BY <1>1, <1>3, OneLevel, Zenon
    <3>2. BackToLoop(p, 0, 0).at = "loop" /\ BackToLoop(p, 0, 0).last = 0
      BY <1>1, TopTypes DEF IInv, Exit
    <3> QED BY <3>1, <3>2
  <2> QED BY <1>1, <2>1, RunsNothing, OnPagesKept
<1>4. ASSUME NEW d \in Lookup(p, FALSE), vmap' = vmap,
             cpu' = [cpu EXCEPT ![level].at = "entry", ![level].pc = p, ![level].tb = d]
      PROVE  OnPages'
  <2>1. d \in 1 .. used /\ Current(d)
    BY LookupLive, LookupCurrent, Zenon DEF IInv, OnPages
  <2>2. Sound(invalid, vmap, tb, d) /\ Fit(used, invalid, vmap, tb, d)
    BY <2>1, MapIsCurrent, FitsMap
  <2>3. cpu'[1].at = "entry" /\ cpu'[1].tb = d
    BY <1>1, <1>4, GoesOn, Zenon
  <2>4. RunsAt(used, invalid, vmap, tb, cpu'[1])
    BY <2>2, <2>3, RunsBlock, Zenon
  <2> QED BY <1>1, <1>4, <2>4, OnPagesKept
<1> QED BY <1>3, <1>4, Zenon DEF GotoPtr, Raise, SwitchPageTable

\* tb_add_jump chains two blocks only if that chain is right.
LEMMA AddChain ==
    ASSUME NEW u \in Nat, 1 .. u \subseteq Slot, NEW U, NEW target \in [Jump -> Slot \cup {0}],
           Chained(u, U, target), NEW t, NEW page1, NEW dest, NEW shut, NEW list,
           tb_add_jump(t, page1, dest, shut, target, list), top.last \in 0 .. u, top.n \in Exit,
           top.last # 0 /\ page1 = -1 /\ <<top.last, top.n>> \notin shut
              => Chain(U[top.last], top.n, U[t])
    PROVE  Chained(u, U, jmp_target')
<1> DEFINE j == <<top.last, top.n>>
<1>1. CASE jmp_target' = target
  BY <1>1
<1>2. CASE jmp_target' = [target EXCEPT ![j] = t] /\ Chain(U[top.last], top.n, U[t])
  <2>1. SUFFICES ASSUME NEW s \in 1 .. u, NEW n \in Exit, jmp_target'[<<s, n>>] # 0
                 PROVE  Chain(U[s], n, U[jmp_target'[<<s, n>>]])
    BY Zenon DEF Chained
  <2>2. <<s, n>> \in DOMAIN target
    BY DEF Jump
  <2>3. CASE <<s, n>> = j
    <3>1. s = top.last /\ n = top.n /\ jmp_target'[<<s, n>>] = t
      BY <1>2, <2>2, <2>3
    <3> QED BY <1>2, <3>1
  <2>4. CASE <<s, n>> # j
    <3>1. jmp_target'[<<s, n>>] = target[<<s, n>>]
      BY <1>2, <2>2, <2>4
    <3> QED BY <2>1, <3>1, Zenon DEF Chained
  <2> QED BY <2>3, <2>4
<1> QED BY <1>1, <1>2, Zenon DEF tb_add_jump

\* A block of the mapping at the address the last block jumps to may be chained.
LEMMA LastChain ==
    ASSUME IInv, Pages, OnPages, Looping, top.last # 0, <<top.last, top.n>> \notin jmp_shut,
           NEW b, OfMap(vmap, b), b.page1 = -1, b.pc = top.pc
    PROVE  Chain(tb[top.last], top.n, b)
<1>1. top.n \in Exit
  BY LoopingTypes DEF IInv
<1>2. /\ top.last \in 1 .. used
      /\ Leaves(tb[top.last], top.n, top.pc) /\ Sound(invalid, vmap, tb, top.last)
  BY TopBlock DEF Looping
<1>3. top.last \notin invalid
  BY <1>1, <1>2, Zenon DEF IInv, JumpsOK
<1>4. OfMap(vmap, tb[top.last]) /\ BlockShape(tb[top.last])
  BY <1>2, <1>3, BlockTypes DEF Sound
<1> QED BY <1>2, <1>4, LeavesOnPage

\* tb_find enters a block it has found.
LEMMA FindOnPages ==
    ASSUME IInv, Pages, OnPages, Looping, NEW t \in 1 .. used, tb[t].pc = top.pc, Current(t),
           tb_add_jump(t, tb[t].page1, jmp_dest, jmp_shut, jmp_target, jmp_list),
           cpu' = [cpu EXCEPT ![level] = Entered(t)],
           UNCHANGED <<vmap, used, tb, invalid, level>>
    PROVE  OnPages'
<1>1. OfMap(vmap, tb[t])
  BY MapIsCurrent, Zenon
<1>2. top.last \in 0 .. used /\ top.n \in Exit /\ level > 0
  BY LoopingTypes, Zenon DEF IInv
<1>3. used \in Nat /\ 1 .. used \subseteq Slot /\ jmp_target \in [Jump -> Slot \cup {0}]
  BY LiveSlots, Zenon DEF IInv, TypeOK
<1>4. top.last # 0 /\ tb[t].page1 = -1 /\ <<top.last, top.n>> \notin jmp_shut
         => Chain(tb[top.last], top.n, tb[t])
  BY <1>1, LastChain, Zenon
<1>5. Chained(used, tb, jmp_target')
  BY <1>2, <1>3, <1>4, AddChain, Zenon DEF OnPages
<1>6. cpu'[1].at = "entry" /\ cpu'[1].tb = t
  <2>1. cpu'[1] = Entered(t)
    BY <1>2, OneLevel, Zenon
  <2>2. Entered(t).at = "entry" /\ Entered(t).tb = t
    BY <1>2, <1>3, TopTypes, Zenon DEF IInv
  <2> QED BY <2>1, <2>2, Zenon
<1>7. RunsAt(used, invalid, vmap, tb, cpu'[1])
  BY <1>1, <1>6, FitsMap, RunsBlock, Zenon
<1> QED BY <1>5, <1>7, Zenon DEF OnPages

\* A new block of the mapping, b, that tb_gen_code puts in the next slot.
LEMMA GenOnPages ==
    ASSUME IInv, Pages, OnPages, used < NSlots, NEW b \in Block, ~b.nocache, OfMap(vmap, b),
           LinkBlock(used + 1, b), vmap' = vmap, level' = level,
           \/ jmp_target' = FreshTarget(used + 1) /\ cpu' = cpu
           \/ /\ Looping /\ cpu' = [cpu EXCEPT ![level] = Entered(used + 1)] /\ b.pc = top.pc
              /\ tb_add_jump(used + 1, b.page1, FreshDest(used + 1), FreshShut(used + 1),
                             FreshTarget(used + 1), FreshList(used + 1))
    PROVE  OnPages'
<1> DEFINE s == used + 1
<1>1. /\ used \in Nat /\ s \in Nat /\ s \in Slot /\ 1 .. s \subseteq Slot /\ 1 .. used \subseteq 1 .. s
      /\ \A t \in 1 .. s : t = s \/ t \in 1 .. used
      /\ s \notin 0 .. used /\ 0 .. used \subseteq 0 .. s
      /\ s \in 1 .. s /\ \A t \in 1 .. used : t # s
  BY NextSlot, Zenon DEF IInv
<1>2. used' = s /\ tb' = [tb EXCEPT ![s] = b] /\ invalid' = invalid \ {s}
  BY Zenon DEF LinkBlock
<1>3. tb'[s] = b /\ \A t \in 1 .. used : tb'[t] = tb[t] /\ (t \in invalid <=> t \in invalid')
  <2>1. tb \in [Slot -> Block] /\ 1 .. used \subseteq Slot
    BY <1>1, Zenon DEF IInv, TypeOK
  <2> HIDE DEF s
  <2> QED BY <1>1, <1>2, <2>1
<1>4. Page(b.pc) \in Int
  <2>1. b.pc \in Pc
    BY Zenon DEF Block
  <2> QED BY <2>1, PcPages, Zenon
<1>5. /\ FreshTarget(s) \in [Jump -> Slot \cup {0}]
      /\ \A t \in 1 .. used, n \in Exit : FreshTarget(s)[<<t, n>>] = jmp_target[<<t, n>>]
      /\ \A n \in Exit : FreshTarget(s)[<<s, n>>] = 0
  <2>1. jmp_target \in [Jump -> Slot \cup {0}]
    BY Zenon DEF IInv, TypeOK
  <2>2. FreshTarget(s) \in [Jump -> Slot \cup {0}]
    BY <2>1, Zenon DEF FreshTarget
  <2>3. \A t \in 1 .. s, n \in Exit : <<t, n>> \in Jump /\ <<t, n>>[1] = t
    BY <1>1, Zenon DEF Jump
  <2> HIDE DEF s
  <2> QED BY <1>1, <2>2, <2>3, Zenon DEF FreshTarget
<1> HIDE DEF s
<1>6. Chained(s, tb', FreshTarget(s))
  <2>1. SUFFICES ASSUME NEW t \in 1 .. s, NEW n \in Exit, FreshTarget(s)[<<t, n>>] # 0
                 PROVE  Chain(tb'[t], n, tb'[FreshTarget(s)[<<t, n>>]])
    BY Zenon DEF Chained
  <2>2. t \in 1 .. used /\ FreshTarget(s)[<<t, n>>] = jmp_target[<<t, n>>]
    BY <1>1, <1>5, <2>1, Zenon
  <2>3. jmp_target[<<t, n>>] \in 1 .. used
    BY <2>1, <2>2, LiveSlots, Zenon DEF IInv, JumpsOK
  <2>4. Chain(tb[t], n, tb[jmp_target[<<t, n>>]])
    BY <2>1, <2>2, Zenon DEF OnPages, Chained
  <2>5. tb'[t] = tb[t] /\ tb'[FreshTarget(s)[<<t, n>>]] = tb[jmp_target[<<t, n>>]]
    BY <1>3, <2>2, <2>3
  <2> QED BY <2>4, <2>5, Zenon
<1>7. \A t \in 1 .. s : ~tb'[t].nocache
  BY <1>1, <1>3, Zenon DEF OnPages
<1>8. ASSUME NEW t \in 1 .. used
      PROVE  /\ Sound(invalid, vmap, tb, t) => Sound(invalid', vmap, tb', t)
             /\ Fit(used, invalid, vmap, tb, t) => Fit(s, invalid', vmap, tb', t)
  <2>1. OfMap(vmap, tb'[used + 1]) /\ Page(tb'[used + 1].pc) \in Int
    BY <1>3, <1>4, Zenon DEF s
  <2> QED BY <1>1, <1>3, <2>1, FitsNew, Zenon DEF s
<1>9. CASE jmp_target' = FreshTarget(s) /\ cpu' = cpu
  <2>1. ASSUME level = 1 PROVE RunsAt(s, invalid', vmap, tb', cpu[1])
    <3>0. level > 0 /\ top = cpu[1]
      <4>1. level > 0
        BY <2>1
      <4> QED BY <4>1, OneLevel, Zenon
    <3>1. CASE top.at # "loop"
      <4>1. /\ top.tb \in 1 .. used /\ Sound(invalid, vmap, tb, top.tb)
            /\ Fit(used, invalid, vmap, tb, top.tb)
        BY <3>0, <3>1, TopBlock, Zenon
      <4> QED BY <1>8, <3>0, <3>1, <4>1, RunsBlock, Zenon
    <3>2. CASE top.at = "loop" /\ top.last # 0
      <4>1. /\ top.last \in 1 .. used /\ Leaves(tb[top.last], top.n, top.pc)
            /\ Sound(invalid, vmap, tb, top.last)
        BY <3>0, <3>2, TopBlock, Zenon
      <4>2. Leaves(tb'[top.last], top.n, top.pc) /\ Sound(invalid', vmap, tb', top.last)
        BY <1>3, <1>8, <4>1, Zenon
      <4> QED BY <3>0, <3>2, <4>2, Zenon DEF RunsAt
    <3>3. CASE top.at = "loop" /\ top.last = 0
      BY <3>0, <3>3, RunsNothing, Zenon
    <3> QED BY <3>1, <3>2, <3>3, Zenon
  <2> QED BY <1>2, <1>6, <1>7, <1>9, <2>1, Zenon DEF OnPages
<1>10. CASE /\ Looping /\ cpu' = [cpu EXCEPT ![level] = Entered(s)] /\ b.pc = top.pc
            /\ tb_add_jump(s, b.page1, FreshDest(s), FreshShut(s), FreshTarget(s), FreshList(s))
  <2>1. top.last \in 0 .. used /\ top.n \in Exit /\ level > 0
    BY <1>10, LoopingTypes, Zenon DEF IInv
  <2>2. ASSUME top.last # 0, b.page1 = -1, <<top.last, top.n>> \notin FreshShut(s)
        PROVE  Chain(tb'[top.last], top.n, tb'[s])
    <3>1. top.last \in 1 .. used /\ top.last # s
      BY <1>1, <2>1, <2>2
    <3>2. <<top.last, top.n>> \notin jmp_shut
      BY <2>2, <3>1 DEF FreshShut
    <3> QED BY <1>3, <1>10, <2>2, <3>1, <3>2, LastChain, Zenon
  <2>3. Chained(s, tb', jmp_target')
    BY <1>1, <1>5, <1>6, <1>10, <2>1, <2>2, AddChain, Zenon
  <2>4. cpu'[1].at = "entry" /\ cpu'[1].tb = s
    <3>1. cpu'[1] = Entered(s)
      BY <1>10, <2>1, OneLevel, Zenon
    <3>2. Entered(s).at = "entry" /\ Entered(s).tb = s
      BY <1>1, <2>1, TopTypes, Zenon DEF IInv
    <3> QED BY <3>1, <3>2
  <2>5. RunsAt(s, invalid', vmap, tb', cpu'[1])
    BY <1>3, <2>4, FitsMap, RunsBlock, Zenon
  <2> QED BY <1>2, <1>7, <2>3, <2>5, Zenon DEF OnPages
<1> QED BY <1>9, <1>10 DEF s

\* Invalidating the blocks R, and perhaps a change of the mapping that keeps what
\* may run.
LEMMA DropOnPages ==
    ASSUME IInv, OnPages, NEW R, do_tb_phys_invalidate(R), level' = level,
           \A t \in 1 .. used :
              /\ Sound(invalid, vmap, tb, t) => Sound(invalid', vmap', tb, t)
              /\ Fit(used, invalid, vmap, tb, t) => Fit(used, invalid', vmap', tb, t),
           level = 1 => \/ cpu' = cpu
                        \/ cpu'[1].at = "loop" /\ cpu'[1].last = 0
                        \/ cpu[1].at # "loop" /\ cpu'[1].at # "loop" /\ cpu'[1].tb = cpu[1].tb
    PROVE  OnPages'
<1>1. tb' = tb /\ used' = used /\ 1 .. used \subseteq Slot
  BY LiveSlots, Zenon DEF do_tb_phys_invalidate, IInv
<1>2. \A t \in 1 .. used, n \in Exit : jmp_target'[<<t, n>>] \in {0, jmp_target[<<t, n>>]}
  <2>1. \A t \in 1 .. used, n \in Exit : <<t, n>> \in Jump
    BY <1>1 DEF Jump
  <2>2. \A j \in Jump : jmp_target'[j] \in {0, jmp_target[j]}
    BY Zenon DEF do_tb_phys_invalidate
  <2> QED BY <2>1, <2>2, Zenon
<1>3. ASSUME level = 1 PROVE RunsAt(used, invalid', vmap', tb, cpu'[1])
  <2>0. level > 0 /\ top = cpu[1]
    BY <1>3, OneLevel
  <2>1. CASE cpu'[1].at = "loop" /\ cpu'[1].last = 0
    BY <2>1, RunsNothing
  <2>2. CASE cpu[1].at # "loop" /\ cpu'[1].at # "loop" /\ cpu'[1].tb = cpu[1].tb
    <3>1. /\ cpu[1].tb \in 1 .. used /\ Sound(invalid, vmap, tb, cpu[1].tb)
          /\ Fit(used, invalid, vmap, tb, cpu[1].tb)
      BY <2>0, <2>2, TopBlock, Zenon
    <3> QED BY <2>2, <3>1, RunsBlock, Zenon
  <2>3. CASE cpu' = cpu /\ cpu[1].at = "loop" /\ cpu[1].last # 0
    <3>1. /\ cpu[1].last \in 1 .. used /\ Leaves(tb[cpu[1].last], cpu[1].n, cpu[1].pc)
          /\ Sound(invalid, vmap, tb, cpu[1].last)
      BY <2>0, <2>3, TopBlock, Zenon
    <3>2. Sound(invalid', vmap', tb, cpu[1].last)
      BY <3>1, Zenon
    <3> QED BY <2>3, <3>1, <3>2, Zenon DEF RunsAt
  <2> QED BY <1>3, <2>1, <2>2, <2>3, Zenon
<1> QED BY <1>1, <1>2, <1>3, OnPagesKept, Zenon

\* No valid block is left on a page that is unmapped.
LEMMA UnmapDrops ==
    ASSUME IInv, OnPages, NEW v \in VPages, Unmap(v)
    PROVE  \A e \in 1 .. used : e \notin invalid' => tb[e].page0 # vmap[v] /\ tb[e].page1 # vmap[v]
<1> DEFINE f == vmap[v]
           R == InRange(f, 0, PageSize)
<1>1. f \in Frames /\ do_tb_phys_invalidate(R)
  BY DEF IInv, TypeOK, Unmap
<1>2. \A e \in first_tb[f] : e[1] \in R
  BY UnmapAll
<1> HIDE DEF f, R
<1>3. SUFFICES ASSUME NEW e \in 1 .. used, e \notin invalid', tb[e].page0 = f \/ tb[e].page1 = f
               PROVE  FALSE
  BY Zenon DEF f
<1>4. e \in Slot /\ e \notin invalid /\ e \notin R
  BY <1>1, <1>3, LiveSlots, Zenon DEF IInv, do_tb_phys_invalidate
<1>5. e \in htable
  BY <1>3, <1>4, Zenon DEF IInv, FindOK, OnPages
<1>6. <<e, 0>> \in first_tb[f] \/ <<e, 1>> \in first_tb[f]
  BY <1>1, <1>3, <1>4, <1>5, Zenon DEF IInv, FindOK
<1> QED BY <1>2, <1>4, <1>6

\* A guest store to code, from the running block.
LEMMA StoreOnPages ==
    ASSUME IInv, OnPages, NEW bitmap \in BOOLEAN, GuestStore(bitmap)
    PROVE  OnPages'
<1>1. PICK R : do_tb_phys_invalidate(R)
  BY Zenon DEF GuestStore
<1>2. /\ level > 0 /\ top.at # "loop" /\ vmap' = vmap /\ level' = level
      /\ \/ cpu' = [cpu EXCEPT ![level] = BackToLoop(tb[top.tb].pc, 0, 0)]
         \/ cpu' = [cpu EXCEPT ![level].at = "done"]
  BY Zenon DEF GuestStore, InBlock
<1>3. invalid \subseteq invalid'
  BY <1>1, Zenon DEF do_tb_phys_invalidate
<1>4. \A t \in 1 .. used :
          /\ Sound(invalid, vmap, tb, t) => Sound(invalid', vmap', tb, t)
          /\ Fit(used, invalid, vmap, tb, t) => Fit(used, invalid', vmap', tb, t)
  BY <1>2, <1>3, FitsInvalid, Zenon
<1>5. level = 1 /\ top = cpu[1] /\ top \in Cpu /\ 1 \in DOMAIN cpu /\ top.tb \in 1 .. used
  BY <1>2, OneLevel, TopTypes, TopBlock DEF IInv, TypeOK
<1>6. CASE cpu' = [cpu EXCEPT ![level] = BackToLoop(tb[top.tb].pc, 0, 0)]
  <2>1. tb[top.tb].pc \in Pc
    <3>1. tb[top.tb] \in Block
      BY <1>5, LiveSlots, Zenon DEF IInv, TypeOK
    <3> QED BY <3>1, Zenon DEF Block
  <2>2. cpu'[1] = BackToLoop(tb[top.tb].pc, 0, 0)
    BY <1>2, <1>6, OneLevel, Zenon
  <2>3. cpu'[1].at = "loop" /\ cpu'[1].last = 0
    BY <1>2, <2>1, <2>2, TopTypes DEF IInv, Exit
  <2> QED BY <1>1, <1>2, <1>4, <2>3, DropOnPages
<1>7. CASE cpu' = [cpu EXCEPT ![level].at = "done"]
  <2>1. cpu'[1].at = "done" /\ cpu'[1].tb = cpu[1].tb
    BY <1>5, <1>7, Zenon DEF Cpu
  <2> QED BY <1>1, <1>2, <1>4, <1>5, <2>1, DropOnPages
<1> QED BY <1>2, <1>6, <1>7

\* A program's call that changes the mapping of one page.
LEMMA RemapOnPages ==
    ASSUME IInv, Pages, OnPages, NEW v \in VPages, Unmap(v) \/ \E f \in Frames : Map(v, f)
    PROVE  OnPages'
<1>1. vmap \in [VPages -> Frames \cup {-1}]
  BY Zenon DEF IInv, TypeOK
<1>2. CASE Unmap(v)
  <2>1. PICK R : do_tb_phys_invalidate(R)
    BY <1>2 DEF Unmap
  <2>2. vmap' = [vmap EXCEPT ![v] = -1] /\ level' = level /\ cpu' = cpu
    BY <1>2 DEF Unmap, loop
  <2>3. invalid \subseteq invalid'
    BY <2>1, Zenon DEF do_tb_phys_invalidate
  <2>4. \A t \in 1 .. used :
            /\ Sound(invalid, vmap, tb, t) => Sound(invalid', vmap', tb, t)
            /\ Fit(used, invalid, vmap, tb, t) => Fit(used, invalid', vmap', tb, t)
    BY <1>1, <1>2, <2>2, <2>3, UnmapDrops, FitsUnmap, Zenon
  <2> QED BY <2>1, <2>2, <2>4, DropOnPages, Zenon
<1>3. ASSUME NEW f \in Frames, Map(v, f) PROVE OnPages'
  <2>1. /\ vmap' = [vmap EXCEPT ![v] = f] /\ vmap[v] = -1 /\ level' = level /\ cpu' = cpu
        /\ tb' = tb /\ used' = used /\ jmp_target' = jmp_target /\ invalid' = invalid
    BY <1>3 DEF Map, loop, cache, jumps
  <2>2. \A t \in 1 .. used : tb[t].page0 # -1
    BY BlockTypes, FramesMapped
  <2>3. ASSUME NEW t \in 1 .. used
        PROVE  /\ Sound(invalid, vmap, tb, t) => Sound(invalid, vmap', tb, t)
               /\ Fit(used, invalid, vmap, tb, t) => Fit(used, invalid, vmap', tb, t)
    BY <1>1, <2>1, <2>2, FitsNewMap, Zenon
  <2>4. ASSUME level = 1 PROVE RunsAt(used, invalid, vmap', tb, cpu[1])
    <3>0. level > 0 /\ top = cpu[1]
      BY <2>4, OneLevel
    <3>1. CASE top.at # "loop"
      <4>1. /\ top.tb \in 1 .. used /\ Sound(invalid, vmap, tb, top.tb)
            /\ Fit(used, invalid, vmap, tb, top.tb)
        BY <3>0, <3>1, TopBlock, Zenon
      <4> QED BY <2>3, <3>0, <3>1, <4>1, RunsBlock, Zenon
    <3>2. CASE top.at = "loop" /\ top.last # 0
      <4>1. /\ top.last \in 1 .. used /\ Leaves(tb[top.last], top.n, top.pc)
            /\ Sound(invalid, vmap, tb, top.last)
        BY <3>0, <3>2, TopBlock, Zenon
      <4>2. Sound(invalid, vmap', tb, top.last)
        BY <2>3, <4>1
      <4> QED BY <3>0, <3>2, <4>1, <4>2, Zenon DEF RunsAt
    <3>3. CASE top.at = "loop" /\ top.last = 0
      BY <3>0, <3>3, RunsNothing
    <3> QED BY <3>1, <3>2, <3>3
  <2> QED BY <2>1, <2>4, OnPagesKept, Zenon
<1> QED BY <1>2, <1>3

\* Every step keeps the running block and the chains on their pages.
LEMMA OnPagesStep ==
    ASSUME "flush" \notin Calls, "nested" \notin Calls, "ondemand" \notin Calls,
           "vtlb" \notin Calls, IInv, Pages, OnPages, [Next]_vars
    PROVE  OnPages'
<1>0. TypeOK /\ next_count1 \in BOOLEAN /\ level \in {0, 1} /\ (level > 0 <=> level = 1)
  <2>1. TypeOK /\ next_count1 \in BOOLEAN /\ level \in {0, 1}
    BY Zenon DEF IInv, TypeOK, LoopOK
  <2> QED BY <2>1
<1>1. ASSUME tb' = tb, used' = used, jmp_target' = jmp_target,
             level' = 1 => RunsAt(used, invalid', vmap', tb, cpu'[1])
      PROVE  OnPages'
  BY <1>1, OnPagesKept
<1>2. ASSUME UNCHANGED <<vmap, cache, loop>> PROVE OnPages'
  BY <1>2, Zenon DEF OnPages, cache, jumps, loop
<1>3. CASE UNCHANGED vars
  BY <1>2, <1>3 DEF vars
<1>4. ASSUME NEW p \in Pc, Start(p) PROVE OnPages'
  <2>1. /\ tb' = tb /\ used' = used /\ jmp_target' = jmp_target /\ level = 0 /\ level < MaxLevel
        /\ cpu' = [cpu EXCEPT ![level + 1] = [NotRunning EXCEPT !.pc = p]]
    BY <1>0, <1>4 DEF Start, InBlock, cache, jumps
  <2>2. 1 \in DOMAIN cpu
    BY <1>0, <2>1, SlotsAssumption DEF TypeOK
  <2>3. cpu'[1].at = "loop" /\ cpu'[1].last = 0
    BY <2>1, <2>2 DEF NotRunning
  <2> QED BY <1>1, <2>1, <2>3, RunsNothing, Zenon
<1>5. CASE Finish
  <2>1. tb' = tb /\ used' = used /\ jmp_target' = jmp_target /\ level' # 1
    BY <1>0, <1>5 DEF Finish, cache, jumps
  <2> QED BY <1>1, <2>1
<1>6. CASE TbFull \/ Flush
  <2>1. used' = 0
    BY <1>6 DEF TbFull, Flush, tb_flush
  <2>2. level' = 1 => cpu'[1].at = "loop" /\ cpu'[1].last = 0
    <3>1. CASE TbFull
      <4>1. /\ level' = level /\ level > 0 /\ top.at = "loop" /\ cpu' = [cpu EXCEPT ![level].last = 0]
        BY <3>1 DEF TbFull, Looping
      <4>2. level = 1 /\ top = cpu[1] /\ top \in Cpu /\ 1 \in DOMAIN cpu
        BY <4>1, OneLevel, TopTypes DEF IInv, TypeOK
      <4> QED BY <4>1, <4>2, Zenon DEF Cpu
    <3>2. CASE Flush
      BY <1>0, <3>2 DEF Flush, loop
    <3> QED BY <1>6, <3>1, <3>2
  <2>3. level' = 1 => RunsAt(used', invalid', vmap', tb', cpu'[1])
    BY <2>2, RunsNothing
  <2>4. 1 .. used' = {}
    BY <2>1
  <2>5. Chained(used', tb', jmp_target')
    BY <2>4, Zenon DEF Chained
  <2> QED BY <2>3, <2>4, <2>5, Zenon DEF OnPages
<1>7. ASSUME NEW t \in Slot, TbFound(t) PROVE OnPages'
  <2>1. /\ Looping /\ t \in Lookup(top.pc, next_count1)
        /\ tb_add_jump(t, tb[t].page1, jmp_dest, jmp_shut, jmp_target, jmp_list)
        /\ cpu' = [cpu EXCEPT ![level] = Entered(t)] /\ UNCHANGED <<vmap, used, tb, invalid, level>>
    BY <1>7, Zenon DEF TbFound
  <2>2. top.pc \in Pc
    BY <2>1, LoopingTypes DEF IInv
  <2>3. t \in 1 .. used /\ tb[t].pc = top.pc /\ Current(t)
    BY <1>0, <2>1, <2>2, LookupLive, LookupCurrent, Zenon DEF IInv, OnPages
  <2> QED BY <2>1, <2>3, FindOnPages, Zenon
<1>8. ASSUME Looping, NEW size \in Sizes
      PROVE  top.pc \in Pc /\ size \in Size[top.pc]
  BY <1>8, LoopingTypes, Zenon DEF IInv, Sizes
<1>9. ASSUME NEW size \in Sizes, NEW t \in Slot, TbExisting(size, t) PROVE OnPages'
  <2>1. /\ Looping /\ t \in existing_tb(NewBlock(top.pc, size, next_count1)) /\ CodeMapped(top.pc, size)
        /\ tb_add_jump(t, tb[t].page1, jmp_dest, jmp_shut, jmp_target, jmp_list)
        /\ cpu' = [cpu EXCEPT ![level] = Entered(t)] /\ UNCHANGED <<vmap, used, tb, invalid, level>>
    BY <1>9, Zenon DEF TbExisting
  <2>2. t \in 1 .. used
    BY <2>1, Zenon DEF existing_tb, IInv, FindOK
  <2>3. tb[t].pc = top.pc /\ Current(t)
    <3>1. tb[t].pc = top.pc /\ (tb[t].nocache \/ Current(t))
      BY <1>0, <1>8, <2>1, <2>2, ExistingCurrent, Zenon
    <3> QED BY <2>2, <3>1, Zenon DEF OnPages
  <2> QED BY <2>1, <2>2, <2>3, FindOnPages, Zenon
<1>10. ASSUME NEW p \in Pc, NEW size \in Size[p], CodeMapped(p, size)
       PROVE  LET b == NewBlock(p, size, next_count1)
              IN  b \in Block /\ ~b.nocache /\ b.pc = p /\ OfMap(vmap, b)
  <2> DEFINE b == NewBlock(p, size, next_count1)
  <2>1. size \in Nat
    BY CodeAssumption
  <2>2. b \in Block
    BY <1>0, <2>1, NewBlockPages
  <2>3. /\ BlockShape(b) /\ b.pc = p /\ ~b.nocache /\ b.page0 = get_page_addr_code(Page(p))
        /\ \/ b.page1 = -1
           \/ b.page1 = get_page_addr_code(Page(p) + 1)
           \/ Page(p - 1) # Page(p)
    BY <1>0, <1>10, NewBlockShape, Zenon
  <2> HIDE DEF b
  <2>4. OfMap(vmap, b)
    BY <2>3, MapIsCurrent, Zenon DEF BlockShape, OfMap
  <2> QED BY <2>2, <2>3, <2>4, Zenon DEF b
<1>11. ASSUME NEW size \in Sizes, TbGen(size) PROVE OnPages'
  <2> DEFINE b == NewBlock(top.pc, size, next_count1)
             s == used + 1
  <2>1. /\ Looping /\ used < NSlots /\ CodeMapped(top.pc, size) /\ LinkBlock(s, b)
        /\ tb_add_jump(s, b.page1, FreshDest(s), FreshShut(s), FreshTarget(s), FreshList(s))
        /\ cpu' = [cpu EXCEPT ![level] = Entered(s)] /\ vmap' = vmap /\ level' = level
    BY <1>11, Zenon DEF TbGen
  <2>2. b \in Block /\ ~b.nocache /\ b.pc = top.pc /\ OfMap(vmap, b)
    BY <1>8, <1>10, <2>1, Zenon
  <2> HIDE DEF b
  <2> QED BY <2>1, <2>2, GenOnPages, Zenon
<1>12. ASSUME NEW p \in Pc, NEW size \in Size[p], RequestCache(p, size) PROVE OnPages'
  <2>0. vmap' = vmap /\ UNCHANGED loop
    BY <1>12, Zenon DEF RequestCache
  <2>1. CASE UNCHANGED cache
    BY <1>2, <2>0, <2>1
  <2>2. CASE /\ CodeMapped(p, size) /\ used < NSlots
             /\ LinkBlock(used + 1, NewBlock(p, size, next_count1))
             /\ jmp_target' = FreshTarget(used + 1)
    <3> DEFINE b == NewBlock(p, size, next_count1)
    <3>1. b \in Block /\ ~b.nocache /\ b.pc = p /\ OfMap(vmap, b)
      BY <1>10, <2>2, Zenon
    <3>2. cpu' = cpu /\ level' = level
      BY <2>0 DEF loop
    <3> HIDE DEF b
    <3>3. LinkBlock(used + 1, b)
      BY <2>2, Zenon DEF b
    <3> QED BY <2>0, <2>2, <3>1, <3>2, <3>3, GenOnPages, Zenon
  <2> QED BY <1>12, <2>1, <2>2, Zenon DEF RequestCache
<1>13. ASSUME NEW v \in VPages, NEW lo, NEW hi, RemoveCache(v, lo, hi) PROVE OnPages'
  <2>1. PICK R : do_tb_phys_invalidate(R)
    BY <1>13, Zenon DEF RemoveCache
  <2>2. vmap' = vmap /\ cpu' = cpu /\ level' = level
    BY <1>13, Zenon DEF RemoveCache, loop
  <2>3. invalid \subseteq invalid'
    BY <2>1, Zenon DEF do_tb_phys_invalidate
  <2>4. \A t \in 1 .. used :
            /\ Sound(invalid, vmap, tb, t) => Sound(invalid', vmap', tb, t)
            /\ Fit(used, invalid, vmap, tb, t) => Fit(used, invalid', vmap', tb, t)
    BY <2>2, <2>3, FitsInvalid, Zenon
  <2> QED BY <2>1, <2>2, <2>4, DropOnPages, Zenon
<1>14. CASE \E v, w \in VPages : Retranslate(v, w)
  <2>1. tb' = tb /\ used' = used /\ jmp_target' = jmp_target /\ level' # 1
    BY <1>0, <1>14 DEF Retranslate, cache, jumps, loop
  <2> QED BY <1>1, <2>1
<1>15. CASE Api
  <2>1. CASE \E v \in VPages : Unmap(v) \/ \E f \in Frames : Map(v, f)
    BY <2>1, RemapOnPages
  <2> QED BY <1>6, <1>12, <1>13, <1>14, <1>15, <2>1, Zenon DEF Api
<1>16. CASE TbFind
  BY <1>6, <1>7, <1>9, <1>11, <1>16, Zenon DEF TbFind
<1>17. CASE \E size \in Sizes, f \in Frames : TbOnDemand(size, f)
  BY <1>17 DEF TbOnDemand
<1>18. CASE \/ \E p \in Pc : GotoPtr(p) \/ Raise(p)
            \/ \E v, w \in VPages, p \in Pc : SwitchPageTable(v, w, p)
  BY <1>18, LeaveOnPages, Zenon
<1>19. CASE \E n \in Exit : GotoTb(n)
  BY <1>19, GotoOnPages
<1>20. CASE \E bitmap \in BOOLEAN : GuestStore(bitmap)
  BY <1>20, StoreOnPages
<1> QED BY <1>3, <1>4, <1>5, <1>15, <1>16, <1>17, <1>18, <1>19, <1>20, Zenon DEF Next

\* A chained jump arrives at the address the code jumps to, in a block of one page
\* that is one of the pages of the block it comes from: tb_add_jump and use_goto_tb
\* chain within a page only, and a block that runs on after its page was unmapped
\* meets only blocks that were invalidated with it.
THEOREM ChainPages ==
    ASSUME "flush" \notin Calls, "nested" \notin Calls, "ondemand" \notin Calls, "vtlb" \notin Calls
    PROVE  Spec => []ChainsStayOnPage
<1>1. Init => Pages /\ OnPages
  <2>1. Init => 1 .. used = {} /\ jmp_cache = EmptyJmpCache /\ level = 0
    BY DEF Init
  <2>2. Init => Pages
    BY <2>1, JmpCacheEmpty DEF Pages
  <2>3. Init => Chained(used, tb, jmp_target)
    BY <2>1, Zenon DEF Chained
  <2> QED BY <2>1, <2>2, <2>3 DEF OnPages
<1>2. IInv /\ Pages /\ OnPages /\ [Next]_vars => Pages' /\ OnPages'
  BY PagesStep, OnPagesStep
<1>3. OnPages => ChainsStayOnPage
  <2>1. SUFFICES ASSUME OnPages, NEW j \in (1 .. used) \X Exit, jmp_target[j] # 0
                 PROVE  LET b == tb[j[1]]
                            d == tb[jmp_target[j]]
                        IN  /\ d.pc = Target[b.pc][j[2]] /\ d.page1 = -1
                            /\ \/ Page(d.pc) = Page(b.pc) /\ d.page0 = b.page0
                               \/ Page(d.pc) = Page(b.pc) + 1 /\ d.page0 = b.page1
    BY Zenon DEF ChainsStayOnPage, Live
  <2>2. PICK t \in 1 .. used, n \in Exit : j = <<t, n>>
    OBVIOUS
  <2>3. Chain(tb[t], n, tb[jmp_target[j]]) /\ j[1] = t /\ j[2] = n
    BY <2>1, <2>2 DEF OnPages, Chained
  <2> QED BY <2>3 DEF Chain, CodeOn, Begins
<1> QED BY <1>1, <1>2, <1>3, Invariance, PTL DEF Spec
=============================================================================
