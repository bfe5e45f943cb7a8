--------------------------- MODULE TbCacheLemmas ---------------------------
(***************************************************************************)
(* The inductive invariant of the block cache, what the primitives of the  *)
(* cache (invalidating, linking and chaining blocks) do to it, and that    *)
(* every action keeps it.                                                  *)
(*                                                                         *)
(* The invariant has three parts: where the loop is (LoopOK), what finds a *)
(* block (FindOK) and the jumps between blocks (JumpsOK).  The last two    *)
(* take their state as parameters, so that the lemmas about invalidating,  *)
(* linking and chaining can be stated one after the other although the     *)
(* code does the three in one step.                                        *)
(***************************************************************************)
EXTENDS TbCache, TLAPS

\* One level at most is active; the block it runs, or will chain, is live.
LoopOK ==
    /\ level \in {0, 1}
    /\ level = 1 => /\ cpu[1].at = "loop" => cpu[1].last \in 0 .. used
                    /\ cpu[1].at # "loop" => cpu[1].tb \in 1 .. used

\* For the first u slots: jumps of invalid blocks (I) are closed, both sides of a
\* chain agree, and nothing open leads to an invalid block.
JumpsOK(u, I, dest, shut, target, list) ==
    /\ \A t \in 1 .. u : \A n \in Exit :
        /\ <<t, n>> \in shut <=> t \in I
        /\ dest[<<t, n>>] \in 0 .. u /\ target[<<t, n>>] \in 0 .. u
        /\ <<t, n>> \notin shut => target[<<t, n>>] = dest[<<t, n>>]
        /\ \A d \in 1 .. u : <<t, n>> \in list[d] <=> (dest[<<t, n>>] = d /\ <<t, n>> \notin shut)
    /\ \A d \in 1 .. u : /\ \A j \in list[d] : j[1] \in 1 .. u /\ j[2] \in Exit
                         /\ d \in I => list[d] = {}

\* For the first u slots: a block is cached, invalid or temporary; the page lists
\* hold exactly the cached ones; the jump cache holds no invalid block.
FindOK(u, H, I, b, F, jc, D) ==
    /\ H \subseteq (1 .. u) \ I /\ D \subseteq (1 .. u) \cap I
    /\ \A t \in 1 .. u : t \in H \/ t \in I \/ b[t].nocache
    /\ \A t \in 1 .. u : b[t].nocache => b[t].page0 = -1 /\ b[t].page1 = -1
    /\ \A t \in H : b[t].page0 \in Frames
    /\ \A f \in Frames : \A t \in Slot :
        /\ <<t, 0>> \in F[f] <=> t \in H /\ b[t].page0 = f
        /\ <<t, 1>> \in F[f] <=> t \in H /\ b[t].page1 = f
    /\ \A h \in DOMAIN jc : jc[h] = 0 \/ jc[h] \in (1 .. u) \ I

\* The inductive invariant.
IInv ==
    /\ TypeOK /\ LoopOK
    /\ JumpsOK(used, invalid, jmp_dest, jmp_shut, jmp_target, jmp_list)
    /\ FindOK(used, htable, invalid, tb, first_tb, jmp_cache, dropped)
    /\ NoOrphanBlocks

-----------------------------------------------------------------------------
(* The primitives: invalidating, linking and chaining. *)

\* The slots in use are slots of the buffer.
LEMMA LiveSlots ==
    ASSUME TypeOK
    PROVE  used \in Nat /\ 1 .. used \subseteq Slot /\ 0 .. used = (1 .. used) \cup {0}
<1>1. used \in 0 .. NSlots
  BY DEF TypeOK
<1>2. QED
  BY <1>1, SlotsAssumption DEF Slot

\* The next slot, when there is room.
LEMMA NextSlot ==
    ASSUME TypeOK, used < NSlots
    PROVE  LET s == used + 1
           IN  /\ used \in Nat /\ s \in Nat /\ s \in Slot /\ s \in 0 .. NSlots /\ s \in 1 .. s
               /\ 1 .. s \subseteq Slot /\ 1 .. used \subseteq 1 .. s /\ 0 .. used \subseteq 0 .. s
               /\ \A t \in 1 .. s : t = s \/ t \in 1 .. used
               /\ s \notin 0 .. used /\ \A t \in 1 .. used : t # s
<1>1. used \in 0 .. NSlots
  BY Zenon DEF TypeOK
<1>2. QED
  BY <1>1, SlotsAssumption DEF Slot

\* Where a block begins and ends on its pages.
LEMMA BlockOffsets ==
    ASSUME NEW b \in Block
    PROVE  /\ Offset(b.pc) \in Int /\ 0 <= Offset(b.pc) /\ Offset(b.pc) < PageSize
           /\ Offset(b.pc + b.size) \in Int /\ 0 <= Offset(b.pc + b.size)
           /\ b.size \in Nat
<1>1. b.pc \in Nat /\ b.size \in Nat
  BY PagesAssumption, Zenon DEF Block
<1>2. b.pc + b.size \in Nat
  BY <1>1
<1>3. \A x \in Nat : x % PageSize \in 0 .. PageSize - 1
  BY SlotsAssumption
<1>4. Offset(b.pc) \in 0 .. PageSize - 1 /\ Offset(b.pc + b.size) \in 0 .. PageSize - 1
  BY <1>1, <1>2, <1>3, Zenon DEF Offset
<1>5. QED
  BY <1>1, <1>4, SlotsAssumption

\* A jump is an exit of a slot.
LEMMA JumpPair == \A j \in Jump : \E t \in Slot, n \in Exit : j = <<t, n>>
BY DEF Jump

\* Invalidating blocks keeps the types of the cache (do_tb_phys_invalidate).
LEMMA InvalidateTypes ==
    ASSUME TypeOK, NEW R \in SUBSET Slot, do_tb_phys_invalidate(R)
    PROVE  /\ used' \in 0 .. NSlots /\ tb' \in [Slot -> Block]
           /\ invalid' \subseteq Slot /\ htable' \subseteq Slot
           /\ first_tb' \in [Frames -> SUBSET Jump]
           /\ jmp_dest' \in [Jump -> Slot \cup {0}] /\ jmp_target' \in [Jump -> Slot \cup {0}]
           /\ jmp_shut' \subseteq Jump /\ jmp_list' \in [Slot -> SUBSET Jump]
<1>1. jmp_dest' \in [Jump -> Slot \cup {0}] /\ jmp_target' \in [Jump -> Slot \cup {0}]
  BY DEF TypeOK, do_tb_phys_invalidate
<1>2. jmp_shut' \subseteq Jump
  BY DEF TypeOK, do_tb_phys_invalidate, Jump
<1>3. jmp_list' \in [Slot -> SUBSET Jump]
  BY DEF TypeOK, do_tb_phys_invalidate
<1>4. first_tb' \in [Frames -> SUBSET Jump]
  BY DEF TypeOK, do_tb_phys_invalidate
<1>5. QED
  BY <1>1, <1>2, <1>3, <1>4, Zenon DEF TypeOK, do_tb_phys_invalidate

\* Invalidating live blocks keeps the jumps consistent: the closed form of the
\* walk removes every open jump into them (tb_jmp_unlink) and out of them
\* (tb_remove_from_jmp_list).
LEMMA InvalidateJumps ==
    ASSUME TypeOK, NEW R \in SUBSET (1 .. used),
           JumpsOK(used, invalid, jmp_dest, jmp_shut, jmp_target, jmp_list),
           do_tb_phys_invalidate(R)
    PROVE  JumpsOK(used', invalid', jmp_dest', jmp_shut', jmp_target', jmp_list')
<1> USE DEF JumpsOK
<1>0. used' = used /\ used \in 0 .. NSlots /\ 1 .. used \subseteq Slot
  BY SlotsAssumption DEF TypeOK, do_tb_phys_invalidate, Slot
<1>1. ASSUME NEW t \in 1 .. used, NEW n \in Exit
      PROVE  /\ <<t, n>> \in Jump
             /\ jmp_dest'[<<t, n>>] = IF Unlinked(R, <<t, n>>) THEN 0 ELSE jmp_dest[<<t, n>>]
             /\ jmp_target'[<<t, n>>] = IF Unlinked(R, <<t, n>>) THEN 0 ELSE jmp_target[<<t, n>>]
             /\ <<t, n>> \in jmp_shut' <=> <<t, n>> \in jmp_shut \/ t \in R
             /\ t \in invalid' <=> t \in invalid \/ t \in R
  <2>1. <<t, n>> \in Jump
    BY <1>0 DEF Jump
  <2>2. QED
    BY <2>1, <1>0 DEF do_tb_phys_invalidate
<1>2. ASSUME NEW d \in 1 .. used
      PROVE  /\ d \in R => jmp_list'[d] = {}
             /\ d \notin R => \A j : j \in jmp_list'[d] <=>
                                j \in jmp_list[d] /\ (j[1] \notin R \/ jmp_dest[j] # d)
  <2> HIDE DEF JumpsOK
  <2>1. d \in Slot
    BY <1>0
  <2>2. CASE d \in R
    BY <2>1, <2>2 DEF do_tb_phys_invalidate
  <2>3. CASE d \notin R
    <3>1. jmp_list'[d] = {j \in jmp_list[d] : j[1] \notin R \/ jmp_dest[j] # d}
      BY <2>1, <2>3 DEF do_tb_phys_invalidate
    <3>2. QED
      BY <2>3, <3>1
  <2>4. QED
    BY <2>2, <2>3
<1>3. ASSUME NEW t \in 1 .. used, NEW n \in Exit, <<t, n>> \notin jmp_shut, t \notin R,
             jmp_dest[<<t, n>>] \in R
      PROVE  Unlinked(R, <<t, n>>)
  BY <1>3 DEF Unlinked
<1>4. ASSUME NEW t \in 1 .. used, NEW n \in Exit, Unlinked(R, <<t, n>>)
      PROVE  <<t, n>> \notin jmp_shut /\ jmp_dest[<<t, n>>] \in R
  BY <1>4 DEF Unlinked
<1>5. ASSUME NEW t \in 1 .. used, NEW n \in Exit
      PROVE  /\ <<t, n>> \in jmp_shut' <=> t \in invalid'
             /\ jmp_dest'[<<t, n>>] \in 0 .. used' /\ jmp_target'[<<t, n>>] \in 0 .. used'
             /\ <<t, n>> \notin jmp_shut' => jmp_target'[<<t, n>>] = jmp_dest'[<<t, n>>]
  BY <1>0, <1>1
<1>6. ASSUME NEW t \in 1 .. used, NEW n \in Exit, NEW d \in 1 .. used
      PROVE  <<t, n>> \in jmp_list'[d] <=> (jmp_dest'[<<t, n>>] = d /\ <<t, n>> \notin jmp_shut')
  <2> SUFFICES ASSUME NEW j, j = <<t, n>>
               PROVE  j \in jmp_list'[d] <=> (jmp_dest'[j] = d /\ j \notin jmp_shut')
    OBVIOUS
  <2>1. j \in jmp_list[d] <=> (jmp_dest[j] = d /\ j \notin jmp_shut)
    OBVIOUS
  <2>2. /\ jmp_dest'[j] = IF Unlinked(R, j) THEN 0 ELSE jmp_dest[j]
        /\ j \in jmp_shut' <=> j \in jmp_shut \/ t \in R
    BY <1>1
  <2>3. d # 0 /\ j[1] = t
    BY <1>0
  <2>4. CASE d \in R
    <3>1. j \notin jmp_list'[d]
      BY <1>2, <2>4
    <3>2. jmp_dest[j] = d /\ j \notin jmp_shut /\ t \notin R => Unlinked(R, j)
      BY <1>3, <2>4
    <3> HIDE DEF JumpsOK
    <3>3. QED
      BY <2>2, <2>3, <3>1, <3>2
  <2>5. CASE d \notin R
    <3>1. j \in jmp_list'[d] <=> j \in jmp_list[d] /\ (t \notin R \/ jmp_dest[j] # d)
      BY <1>2, <2>3, <2>5
    <3>2. Unlinked(R, j) => jmp_dest[j] \in R
      BY <1>4
    <3> HIDE DEF JumpsOK
    <3>3. QED
      BY <2>1, <2>2, <2>3, <2>5, <3>1, <3>2
  <2>6. QED
    BY <2>4, <2>5
<1>7. ASSUME NEW d \in 1 .. used
      PROVE  /\ \A j \in jmp_list'[d] : j[1] \in 1 .. used' /\ j[2] \in Exit
             /\ d \in invalid' => jmp_list'[d] = {}
  <2>1. invalid' = invalid \cup R
    BY DEF do_tb_phys_invalidate
  <2>2. jmp_list'[d] \subseteq jmp_list[d] /\ (d \in R => jmp_list'[d] = {})
    BY <1>2
  <2>3. /\ \A j \in jmp_list[d] : j[1] \in 1 .. used /\ j[2] \in Exit
        /\ d \in invalid => jmp_list[d] = {}
    OBVIOUS
  <2> HIDE DEF JumpsOK
  <2>4. QED
    BY <2>1, <2>2, <2>3, <1>0
<1>8. QED
  BY <1>0, <1>5, <1>6, <1>7

\* Invalidating cached blocks keeps the tables that find blocks consistent.
LEMMA InvalidateFind ==
    ASSUME TypeOK, NEW R \in SUBSET htable,
           FindOK(used, htable, invalid, tb, first_tb, jmp_cache, dropped),
           do_tb_phys_invalidate(R),
           jmp_cache' = JmpCacheWithout(R) \/ jmp_cache' = EmptyJmpCache,
           dropped' \subseteq dropped \cup R \cup ((1 .. used) \cap invalid)
    PROVE  FindOK(used', htable', invalid', tb', first_tb', jmp_cache', dropped')
<1> USE DEF FindOK
<1>0. /\ used' = used /\ tb' = tb /\ htable' = htable \ R /\ invalid' = invalid \cup R
      /\ used \in 0 .. NSlots /\ 1 .. used \subseteq Slot
  BY SlotsAssumption DEF TypeOK, do_tb_phys_invalidate, Slot
<1>1. ASSUME NEW f \in Frames, NEW t \in Slot
      PROVE  /\ <<t, 0>> \in first_tb'[f] <=> <<t, 0>> \in first_tb[f] /\ t \notin R
             /\ <<t, 1>> \in first_tb'[f] <=> <<t, 1>> \in first_tb[f] /\ t \notin R
  BY DEF do_tb_phys_invalidate
<1>2. ASSUME NEW h \in DOMAIN jmp_cache'
      PROVE  jmp_cache'[h] = 0 \/ jmp_cache'[h] \in (1 .. used) \ (invalid \cup R)
  BY DEF JmpCacheWithout, EmptyJmpCache
<1>3. htable' \subseteq (1 .. used) \ invalid' /\ dropped' \subseteq (1 .. used) \cap invalid'
  BY <1>0
<1>4. QED
  BY <1>0, <1>1, <1>2, <1>3

\* The slot after the last one starts with no jumps in or out (tb_gen_code).
LEMMA FreshJumps ==
    ASSUME TypeOK, used < NSlots,
           JumpsOK(used, invalid, jmp_dest, jmp_shut, jmp_target, jmp_list)
    PROVE  /\ JumpsOK(used + 1, invalid \ {used + 1}, FreshDest(used + 1), FreshShut(used + 1),
                      FreshTarget(used + 1), FreshList(used + 1))
           /\ FreshDest(used + 1) \in [Jump -> Slot \cup {0}]
           /\ FreshTarget(used + 1) \in [Jump -> Slot \cup {0}]
           /\ FreshShut(used + 1) \in SUBSET Jump
           /\ FreshList(used + 1) \in [Slot -> SUBSET Jump]
<1> DEFINE s == used + 1
<1>0. used \in Nat /\ s \in Slot /\ 1 .. used \subseteq Slot /\ 1 .. s = (1 .. used) \cup {s} /\ s \notin 1 .. used
  BY SlotsAssumption DEF TypeOK, Slot
<1>1. /\ FreshDest(s) \in [Jump -> Slot \cup {0}] /\ FreshTarget(s) \in [Jump -> Slot \cup {0}]
      /\ FreshShut(s) \in SUBSET Jump /\ FreshList(s) \in [Slot -> SUBSET Jump]
  BY <1>0 DEF TypeOK, FreshDest, FreshTarget, FreshShut, FreshList
<1>2. ASSUME NEW t \in 1 .. s, NEW n \in Exit
      PROVE  /\ FreshDest(s)[<<t, n>>] = IF t = s THEN 0 ELSE jmp_dest[<<t, n>>]
             /\ FreshTarget(s)[<<t, n>>] = IF t = s THEN 0 ELSE jmp_target[<<t, n>>]
             /\ <<t, n>> \in FreshShut(s) <=> t # s /\ <<t, n>> \in jmp_shut
  <2>1. <<t, n>> \in Jump
    BY <1>0 DEF Jump
  <2>2. QED
    BY <2>1 DEF FreshDest, FreshTarget, FreshShut
<1>3. ASSUME NEW d \in 1 .. s
      PROVE  FreshList(s)[d] = IF d = s THEN {} ELSE jmp_list[d]
  BY <1>0 DEF FreshList, TypeOK
<1>4. ASSUME NEW t \in 1 .. s, NEW n \in Exit
      PROVE  /\ <<t, n>> \in FreshShut(s) <=> t \in invalid \ {s}
             /\ FreshDest(s)[<<t, n>>] \in 0 .. s /\ FreshTarget(s)[<<t, n>>] \in 0 .. s
             /\ <<t, n>> \notin FreshShut(s) => FreshTarget(s)[<<t, n>>] = FreshDest(s)[<<t, n>>]
  <2>1. CASE t = s
    BY <1>0, <1>2, <2>1
  <2>2. CASE t \in 1 .. used
    <3>1. /\ <<t, n>> \in jmp_shut <=> t \in invalid
          /\ jmp_dest[<<t, n>>] \in 0 .. used /\ jmp_target[<<t, n>>] \in 0 .. used
          /\ <<t, n>> \notin jmp_shut => jmp_target[<<t, n>>] = jmp_dest[<<t, n>>]
      BY <2>2 DEF JumpsOK
    <3>2. QED
      BY <1>0, <1>2, <2>2, <3>1
  <2>3. QED
    BY <1>0, <2>1, <2>2
<1>5. ASSUME NEW t \in 1 .. s, NEW n \in Exit, NEW d \in 1 .. s
      PROVE  <<t, n>> \in FreshList(s)[d] <=> (FreshDest(s)[<<t, n>>] = d /\ <<t, n>> \notin FreshShut(s))
  <2>1. CASE t \in 1 .. used /\ d \in 1 .. used
    <3>1. <<t, n>> \in jmp_list[d] <=> (jmp_dest[<<t, n>>] = d /\ <<t, n>> \notin jmp_shut)
      BY <2>1 DEF JumpsOK
    <3>2. QED
      BY <1>0, <1>2, <1>3, <2>1, <3>1
  <2>2. CASE t = s /\ d \in 1 .. used
    <3>1. <<t, n>> \notin jmp_list[d]
      BY <1>0, <2>2 DEF JumpsOK
    <3>2. QED
      BY <1>0, <1>2, <1>3, <2>2, <3>1
  <2>3. CASE d = s
    <3>1. t \in 1 .. used => jmp_dest[<<t, n>>] \in 0 .. used
      BY DEF JumpsOK
    <3>2. QED
      BY <1>0, <1>2, <1>3, <2>3, <3>1
  <2>4. QED
    BY <1>0, <2>1, <2>2, <2>3
<1>6. ASSUME NEW d \in 1 .. s
      PROVE  /\ \A j \in FreshList(s)[d] : j[1] \in 1 .. s /\ j[2] \in Exit
             /\ d \in invalid \ {s} => FreshList(s)[d] = {}
  <2>1. CASE d = s
    BY <1>3, <2>1
  <2>2. CASE d \in 1 .. used
    <3>1. /\ \A j \in jmp_list[d] : j[1] \in 1 .. used /\ j[2] \in Exit
          /\ d \in invalid => jmp_list[d] = {}
      BY <2>2 DEF JumpsOK
    <3>2. QED
      BY <1>0, <1>3, <2>2, <3>1
  <2>3. QED
    BY <1>0, <2>1, <2>2
<1> HIDE DEF s
<1>7. JumpsOK(s, invalid \ {s}, FreshDest(s), FreshShut(s), FreshTarget(s), FreshList(s))
  BY <1>4, <1>5, <1>6 DEF JumpsOK
<1>8. QED
  BY <1>1, <1>7 DEF s

\* Chaining from a live block to a live valid one keeps the jumps consistent
\* (tb_add_jump).
LEMMA ChainJumps ==
    ASSUME SlotsAssumption, NEW u \in 0 .. NSlots, NEW I, invalid' = I,
           NEW dest \in [Jump -> Slot \cup {0}], NEW shut \in SUBSET Jump,
           NEW target \in [Jump -> Slot \cup {0}], NEW list \in [Slot -> SUBSET Jump],
           JumpsOK(u, I, dest, shut, target, list),
           top.last \in 0 .. u, top.n \in Exit,
           NEW t \in (1 .. u) \ I, NEW page1,
           tb_add_jump(t, page1, dest, shut, target, list)
    PROVE  /\ JumpsOK(u, I, jmp_dest', jmp_shut', jmp_target', jmp_list')
           /\ jmp_dest' \in [Jump -> Slot \cup {0}] /\ jmp_target' \in [Jump -> Slot \cup {0}]
           /\ jmp_shut' \in SUBSET Jump /\ jmp_list' \in [Slot -> SUBSET Jump]
<1> DEFINE j == <<top.last, top.n>>
<1>1. CASE ~(top.last # 0 /\ page1 = -1 /\ t \notin invalid' /\ dest[j] = 0 /\ j \notin shut)
  BY <1>1 DEF tb_add_jump
<1>2. CASE top.last # 0 /\ page1 = -1 /\ t \notin invalid' /\ dest[j] = 0 /\ j \notin shut
  <2>0. 1 .. u \subseteq Slot /\ top.last \in 1 .. u /\ t # 0 /\ u \in Nat
    BY <1>2 DEF Slot
  <2>1. j \in Jump /\ t \in Slot
    BY <2>0 DEF Jump
  <2>2. /\ jmp_dest' = [dest EXCEPT ![j] = t] /\ jmp_target' = [target EXCEPT ![j] = t]
        /\ jmp_list' = [list EXCEPT ![t] = @ \cup {j}] /\ jmp_shut' = shut
    BY <1>2 DEF tb_add_jump
  <2>3. /\ jmp_dest' \in [Jump -> Slot \cup {0}] /\ jmp_target' \in [Jump -> Slot \cup {0}]
        /\ jmp_shut' \in SUBSET Jump /\ jmp_list' \in [Slot -> SUBSET Jump]
    BY <2>1, <2>2
  <2>4. ASSUME NEW i \in 1 .. u, NEW n \in Exit
        PROVE  /\ jmp_dest'[<<i, n>>] = IF <<i, n>> = j THEN t ELSE dest[<<i, n>>]
               /\ jmp_target'[<<i, n>>] = IF <<i, n>> = j THEN t ELSE target[<<i, n>>]
    <3>1. <<i, n>> \in Jump
      BY <2>0 DEF Jump
    <3>2. QED
      BY <2>2, <3>1
  <2>5. ASSUME NEW d \in 1 .. u
        PROVE  \A e : e \in jmp_list'[d] <=> e \in list[d] \/ (d = t /\ e = j)
    <3>1. d \in Slot
      BY <2>0
    <3>2. CASE d = t
      BY <2>1, <2>2, <3>1, <3>2
    <3>3. CASE d # t
      BY <2>1, <2>2, <3>1, <3>3
    <3>4. QED
      BY <3>2, <3>3
  <2>6. \A d \in 1 .. u : j \notin list[d]
    BY <1>2, <2>0 DEF JumpsOK
  <2>7. ASSUME NEW i \in 1 .. u, NEW n \in Exit
        PROVE  /\ <<i, n>> \in shut <=> i \in I
               /\ jmp_dest'[<<i, n>>] \in 0 .. u /\ jmp_target'[<<i, n>>] \in 0 .. u
               /\ <<i, n>> \notin shut => jmp_target'[<<i, n>>] = jmp_dest'[<<i, n>>]
               /\ \A d \in 1 .. u : <<i, n>> \in jmp_list'[d] <=>
                                        (jmp_dest'[<<i, n>>] = d /\ <<i, n>> \notin shut)
    <3>1. /\ <<i, n>> \in shut <=> i \in I
          /\ dest[<<i, n>>] \in 0 .. u /\ target[<<i, n>>] \in 0 .. u
          /\ <<i, n>> \notin shut => target[<<i, n>>] = dest[<<i, n>>]
          /\ \A d \in 1 .. u : <<i, n>> \in list[d] <=> (dest[<<i, n>>] = d /\ <<i, n>> \notin shut)
      BY DEF JumpsOK
    <3> HIDE DEF j
    <3>2. CASE <<i, n>> = j
      BY <1>2, <2>0, <2>4, <2>5, <2>6, <3>1, <3>2
    <3>3. CASE <<i, n>> # j
      BY <2>4, <2>5, <3>1, <3>3
    <3>4. QED
      BY <3>2, <3>3
  <2>8. ASSUME NEW d \in 1 .. u
        PROVE  /\ \A e \in jmp_list'[d] : e[1] \in 1 .. u /\ e[2] \in Exit
               /\ d \in I => jmp_list'[d] = {}
    <3>1. /\ \A e \in list[d] : e[1] \in 1 .. u /\ e[2] \in Exit
          /\ d \in I => list[d] = {}
      BY DEF JumpsOK
    <3>2. j[1] \in 1 .. u /\ j[2] \in Exit
      BY <2>0
    <3> HIDE DEF j
    <3>3. QED
      BY <2>5, <3>1, <3>2
  <2>9. QED
    BY <2>2, <2>3, <2>7, <2>8 DEF JumpsOK
<1>3. QED
  BY <1>1, <1>2

\* A new block in the slot after the last one is found, listed or temporary
\* (tb_link_page); the jump cache may have received it.
LEMMA LinkFind ==
    ASSUME TypeOK, used < NSlots, NEW b \in Block,
           FindOK(used, htable, invalid, tb, first_tb, jmp_cache, dropped),
           LinkBlock(used + 1, b),
           b.nocache => b.page0 = -1 /\ b.page1 = -1,
           ~b.nocache => b.page0 \in Frames,
           \A h \in DOMAIN jmp_cache' : \/ jmp_cache'[h] \in {0, used + 1}
                                        \/ h \in DOMAIN jmp_cache /\ jmp_cache'[h] = jmp_cache[h]
    PROVE  /\ FindOK(used', htable', invalid', tb', first_tb', jmp_cache', dropped')
           /\ used' = used + 1 /\ used' \in 0 .. NSlots /\ tb' \in [Slot -> Block]
           /\ invalid' = invalid \ {used'} /\ invalid' \subseteq Slot /\ htable' \subseteq Slot
           /\ dropped' \subseteq Slot /\ first_tb' \in [Frames -> SUBSET Jump]
<1> DEFINE s == used + 1
<1>0. /\ used \in Nat /\ s \in Slot /\ s \in 0 .. NSlots /\ 1 .. used \subseteq Slot
      /\ 1 .. s = (1 .. used) \cup {s} /\ s \notin 1 .. used /\ s # 0
  BY SlotsAssumption DEF TypeOK, Slot
<1>1. /\ used' = s /\ tb' = [tb EXCEPT ![s] = b] /\ invalid' = invalid \ {s}
      /\ dropped' = dropped \ {s}
      /\ htable' = IF b.nocache THEN htable ELSE htable \cup {s}
      /\ first_tb' = [f \in Frames |-> first_tb[f]
                        \cup (IF f = b.page0 THEN {<<s, 0>>} ELSE {})
                        \cup (IF f = b.page1 THEN {<<s, 1>>} ELSE {})]
  BY DEF LinkBlock
<1> HIDE DEF s
<1>2. /\ tb' \in [Slot -> Block] /\ invalid' \subseteq Slot /\ htable' \subseteq Slot
      /\ dropped' \subseteq Slot /\ first_tb' \in [Frames -> SUBSET Jump]
  <2>1. /\ tb \in [Slot -> Block] /\ invalid \subseteq Slot /\ htable \subseteq Slot
        /\ dropped \subseteq Slot /\ first_tb \in [Frames -> SUBSET Jump]
    BY DEF TypeOK
  <2>2. /\ tb' \in [Slot -> Block] /\ invalid' \subseteq Slot /\ htable' \subseteq Slot
        /\ dropped' \subseteq Slot
    BY <1>0, <1>1, <2>1, Zenon
  <2>3. <<s, 0>> \in Jump /\ <<s, 1>> \in Jump
    BY <1>0 DEF Jump, Exit
  <2>4. first_tb' \in [Frames -> SUBSET Jump]
    BY <1>1, <2>1, <2>3
  <2>5. QED
    BY <2>2, <2>4
<1>3. tb'[s] = b /\ \A t \in 1 .. used : tb'[t] = tb[t]
  BY <1>0, <1>1 DEF TypeOK
<1>4. /\ htable \subseteq (1 .. used) \ invalid /\ dropped \subseteq (1 .. used) \cap invalid
      /\ \A t \in 1 .. used : t \in htable \/ t \in invalid \/ tb[t].nocache
      /\ \A t \in 1 .. used : tb[t].nocache => tb[t].page0 = -1 /\ tb[t].page1 = -1
      /\ \A t \in htable : tb[t].page0 \in Frames
      /\ \A h \in DOMAIN jmp_cache : jmp_cache[h] = 0 \/ jmp_cache[h] \in (1 .. used) \ invalid
  BY DEF FindOK
<1>5. /\ htable' \subseteq (1 .. s) \ invalid' /\ dropped' \subseteq (1 .. s) \cap invalid'
      /\ \A t \in 1 .. s : t \in htable' \/ t \in invalid' \/ tb'[t].nocache
      /\ \A t \in 1 .. s : tb'[t].nocache => tb'[t].page0 = -1 /\ tb'[t].page1 = -1
      /\ \A t \in htable' : tb'[t].page0 \in Frames
  BY <1>0, <1>1, <1>3, <1>4
<1>6. ASSUME NEW f \in Frames, NEW t \in Slot
      PROVE  /\ <<t, 0>> \in first_tb'[f] <=> t \in htable' /\ tb'[t].page0 = f
             /\ <<t, 1>> \in first_tb'[f] <=> t \in htable' /\ tb'[t].page1 = f
  <2>1. /\ <<t, 0>> \in first_tb'[f] <=> <<t, 0>> \in first_tb[f] \/ (t = s /\ f = b.page0)
        /\ <<t, 1>> \in first_tb'[f] <=> <<t, 1>> \in first_tb[f] \/ (t = s /\ f = b.page1)
    BY <1>1
  <2>2. /\ <<t, 0>> \in first_tb[f] <=> t \in htable /\ tb[t].page0 = f
        /\ <<t, 1>> \in first_tb[f] <=> t \in htable /\ tb[t].page1 = f
    BY DEF FindOK
  <2>3. f # -1
    BY PagesAssumption
  <2>4. QED
    BY <1>0, <1>1, <1>3, <1>4, <2>1, <2>2, <2>3
<1>7. \A h \in DOMAIN jmp_cache' : jmp_cache'[h] = 0 \/ jmp_cache'[h] \in (1 .. s) \ invalid'
  <2>1. \A h \in DOMAIN jmp_cache' : \/ jmp_cache'[h] \in {0, s}
                                     \/ h \in DOMAIN jmp_cache /\ jmp_cache'[h] = jmp_cache[h]
    BY DEF s
  <2>2. QED
    BY <1>0, <1>1, <1>4, <2>1
<1>8. FindOK(s, htable', invalid', tb', first_tb', jmp_cache', dropped')
  BY <1>5, <1>6, <1>7, Zenon DEF FindOK
<1>9. QED
  BY <1>0, <1>1, <1>2, <1>8 DEF s

\* Both lookups return live valid blocks.
LEMMA LookupLive ==
    ASSUME TypeOK, FindOK(used, htable, invalid, tb, first_tb, jmp_cache, dropped),
           NEW p \in Pc, NEW c \in BOOLEAN, NEW t \in Lookup(p, c)
    PROVE  t \in (1 .. used) \ invalid /\ t \in Slot
<1>0. 1 .. used \subseteq Slot
  BY SlotsAssumption DEF TypeOK, Slot
<1>1. CASE JmpCacheHit(p, c)
  <2>1. JmpHash[p] \in DOMAIN jmp_cache /\ t = jmp_cache[JmpHash[p]] /\ t # 0
    BY <1>1 DEF TypeOK, Lookup, JmpCacheHit
  <2>2. QED
    BY <1>0, <2>1 DEF FindOK
<1>2. CASE ~JmpCacheHit(p, c)
  BY <1>0, <1>2, Zenon DEF Lookup, FindOK
<1>3. QED
  BY <1>1, <1>2

\* The blocks a write invalidates are cached ones, and they are all the valid
\* blocks that were translated from the bytes written.
LEMMA RangeCached ==
    ASSUME TypeOK, FindOK(used, htable, invalid, tb, first_tb, jmp_cache, dropped),
           NEW f \in Frames \cup {-1}, NEW lo \in Int, NEW hi \in Int
    PROVE  /\ InRange(f, lo, hi) \subseteq htable
           /\ f \in Frames /\ 0 <= lo /\ lo < hi =>
                TranslatedFrom(f, lo, hi) \subseteq InRange(f, lo, hi) \cup ((1 .. used) \cap invalid)
<1>0. f \in Frames => f # -1
  BY PagesAssumption
<1>1. InRange(f, lo, hi) \subseteq htable
  <2>1. CASE f = -1
    BY <2>1 DEF InRange
  <2>2. CASE f # -1
    <3>1. SUFFICES ASSUME NEW e \in first_tb[f] PROVE e[1] \in htable
      BY <2>2 DEF InRange
    <3>2. e \in Jump
      BY <2>2 DEF TypeOK
    <3>3. PICK t \in Slot, n \in Exit : e = <<t, n>>
      BY <3>2, JumpPair, Zenon
    <3>4. QED
      BY <2>2, <3>3, Zenon DEF FindOK, Exit
  <2>3. QED
    BY <2>1, <2>2
<1>2. ASSUME f \in Frames, 0 <= lo, lo < hi, NEW t \in TranslatedFrom(f, lo, hi), t \notin invalid
      PROVE  t \in InRange(f, lo, hi)
  <2>1. t \in 1 .. used /\ t \in Slot /\ tb[t] \in Block
    BY SlotsAssumption, <1>2 DEF TranslatedFrom, TypeOK, Slot
  <2>2. \/ /\ tb[t].page0 = f /\ Offset(tb[t].pc) < hi /\ lo < Offset(tb[t].pc) + tb[t].size
        \/ tb[t].page1 = f /\ (lo < Offset(tb[t].pc + tb[t].size) \/ Offset(tb[t].pc + tb[t].size) = 0)
    BY <1>2, Zenon DEF TranslatedFrom
  <2>3. t \in htable
    BY <1>0, <1>2, <2>1, <2>2 DEF FindOK
  <2>4. Offset(tb[t].pc) \in Int /\ Offset(tb[t].pc + tb[t].size) \in Int /\ tb[t].size \in Int
    BY <2>1, BlockOffsets
  <2>5. CASE tb[t].page0 = f /\ Offset(tb[t].pc) < hi /\ lo < Offset(tb[t].pc) + tb[t].size
    <3>1. <<t, 0>> \in first_tb[f]
      BY <1>2, <2>1, <2>3, <2>5, Zenon DEF FindOK
    <3>2. Overlaps(<<t, 0>>, lo, hi)
      BY <2>4, <2>5 DEF Overlaps
    <3>3. QED
      BY <1>0, <1>2, <3>1, <3>2 DEF InRange
  <2>6. CASE tb[t].page1 = f /\ (lo < Offset(tb[t].pc + tb[t].size) \/ Offset(tb[t].pc + tb[t].size) = 0)
    <3>1. <<t, 1>> \in first_tb[f]
      BY <1>2, <2>1, <2>3, <2>6, Zenon DEF FindOK
    <3>2. Overlaps(<<t, 1>>, lo, hi)
      BY <1>2, <2>4, <2>6 DEF Overlaps
    <3>3. QED
      BY <1>0, <1>2, <3>1, <3>2 DEF InRange
  <2>7. QED
    BY <2>2, <2>5, <2>6
<1>3. QED
  BY <1>1, <1>2 DEF TranslatedFrom

\* The level that is active, and its block.
LEMMA LoopTop ==
    ASSUME LoopOK, level > 0
    PROVE  /\ level = 1 /\ top = cpu[1]
           /\ top.at = "loop" => top.last \in 0 .. used
           /\ top.at # "loop" => top.tb \in 1 .. used
BY DEF LoopOK, top

\* The records the loop moves between.
LEMMA TopTypes ==
    ASSUME TypeOK, level > 0
    PROVE  /\ level \in 1 .. MaxLevel /\ top \in Cpu
           /\ \A p \in Pc, t \in Slot \cup {0}, n \in Exit :
                /\ BackToLoop(p, t, n) \in Cpu
                /\ BackToLoop(p, t, n).at = "loop" /\ BackToLoop(p, t, n).last = t
           /\ \A t \in Slot : Entered(t) \in Cpu /\ Entered(t).at = "entry" /\ Entered(t).tb = t
<1>1. level \in 1 .. MaxLevel /\ top \in Cpu
  BY SlotsAssumption DEF TypeOK, top
<1>2. ASSUME NEW p \in Pc, NEW t \in Slot \cup {0}, NEW n \in Exit
      PROVE  /\ BackToLoop(p, t, n) \in Cpu
             /\ BackToLoop(p, t, n).at = "loop" /\ BackToLoop(p, t, n).last = t
  BY <1>1, Zenon DEF BackToLoop, Cpu
<1>3. ASSUME NEW t \in Slot
      PROVE  Entered(t) \in Cpu /\ Entered(t).at = "entry" /\ Entered(t).tb = t
  BY <1>1, Zenon DEF Entered, Cpu, Exit
<1>4. QED
  BY <1>1, <1>2, <1>3

\* A step of the loop to a record whose block is live keeps LoopOK.
LEMMA LoopStep ==
    ASSUME TypeOK, LoopOK, level > 0, level' = level,
           NEW c \in Cpu, cpu' = [cpu EXCEPT ![level] = c],
           c.at = "loop" => c.last \in 0 .. used',
           c.at # "loop" => c.tb \in 1 .. used'
    PROVE  LoopOK' /\ cpu' \in [1 .. MaxLevel -> Cpu]
<1>1. level = 1 /\ level \in 1 .. MaxLevel
  BY TopTypes DEF LoopOK
<1>2. cpu' \in [1 .. MaxLevel -> Cpu] /\ cpu'[1] = c
  BY <1>1 DEF TypeOK
<1>3. QED
  BY <1>1, <1>2 DEF LoopOK

\* A step that leaves the blocks alone may set jump cache entries to live valid
\* blocks and clear others.
LEMMA JmpCacheStep ==
    ASSUME FindOK(used, htable, invalid, tb, first_tb, jmp_cache, dropped),
           used' = used, htable' = htable, invalid' = invalid, tb' = tb, first_tb' = first_tb,
           dropped' = dropped,
           \A h \in DOMAIN jmp_cache' :
                \/ jmp_cache'[h] = 0 \/ jmp_cache'[h] \in (1 .. used) \ invalid
                \/ h \in DOMAIN jmp_cache /\ jmp_cache'[h] = jmp_cache[h]
    PROVE  FindOK(used', htable', invalid', tb', first_tb', jmp_cache', dropped')
BY DEF FindOK

\* An entry of the jump cache is set.
LEMMA JmpCacheSet ==
    ASSUME TypeOK, NEW p \in Pc, NEW t \in Slot
    PROVE  /\ [jmp_cache EXCEPT ![JmpHash[p]] = t] \in [{JmpHash[q] : q \in Pc} -> Slot \cup {0}]
           /\ \A h \in DOMAIN [jmp_cache EXCEPT ![JmpHash[p]] = t] :
                \/ [jmp_cache EXCEPT ![JmpHash[p]] = t][h] = t
                \/ h \in DOMAIN jmp_cache /\ [jmp_cache EXCEPT ![JmpHash[p]] = t][h] = jmp_cache[h]
BY DEF TypeOK

\* The jump cache is cleared.
LEMMA JmpCacheEmpty ==
    /\ EmptyJmpCache \in [{JmpHash[q] : q \in Pc} -> Slot \cup {0}]
    /\ \A h \in DOMAIN EmptyJmpCache : EmptyJmpCache[h] = 0
BY DEF EmptyJmpCache

-----------------------------------------------------------------------------
(* The actions. *)

\* Starting and ending an emulation (uc_emu_start, cpu_exec).
LEMMA StartFinish ==
    ASSUME IInv, "nested" \notin Calls, (\E p \in Pc : Start(p)) \/ Finish
    PROVE  IInv'
<1> USE DEF IInv
<1>0. NotRunning \in Cpu /\ NotRunning.last = 0 /\ NotRunning.at = "loop"
  BY PagesAssumption DEF NotRunning, Cpu, NoBlock, Exit
<1>1. /\ used' = used /\ tb' = tb /\ invalid' = invalid /\ htable' = htable /\ first_tb' = first_tb
      /\ jmp_dest' = jmp_dest /\ jmp_shut' = jmp_shut /\ jmp_target' = jmp_target
      /\ jmp_list' = jmp_list /\ jmp_cache' = jmp_cache /\ vmap' = vmap /\ dropped' = dropped
      /\ ops' = ops /\ next_count1' = next_count1
  BY Zenon DEF Start, Finish, cache, jumps
<1>2. LoopOK' /\ cpu' \in [1 .. MaxLevel -> Cpu] /\ level' \in 0 .. MaxLevel
  <2>1. CASE \E p \in Pc : Start(p)
    <3>1. PICK p \in Pc : Start(p)
      BY <2>1
    <3>2. level = 0 /\ level' = 1 /\ 1 \in 1 .. MaxLevel
      BY <3>1, SlotsAssumption DEF Start, TypeOK
    <3>3. cpu' = [cpu EXCEPT ![1] = [NotRunning EXCEPT !.pc = p]]
      BY <3>1, <3>2 DEF Start
    <3>4. /\ [NotRunning EXCEPT !.pc = p] \in Cpu
          /\ [NotRunning EXCEPT !.pc = p].last = 0 /\ [NotRunning EXCEPT !.pc = p].at = "loop"
      BY <1>0 DEF Cpu
    <3>5. cpu' \in [1 .. MaxLevel -> Cpu] /\ cpu'[1] = [NotRunning EXCEPT !.pc = p]
      BY <3>2, <3>3, <3>4 DEF TypeOK
    <3>6. QED
      BY <1>1, <3>2, <3>4, <3>5 DEF LoopOK, TypeOK
  <2>2. CASE Finish
    <3>1. level = 1 /\ level' = 0 /\ 1 \in 1 .. MaxLevel
      BY <2>2, SlotsAssumption DEF Finish, LoopOK, TypeOK
    <3>2. cpu' \in [1 .. MaxLevel -> Cpu]
      BY <1>0, <2>2, <3>1 DEF Finish, TypeOK
    <3>3. QED
      BY <3>1, <3>2, SlotsAssumption DEF LoopOK
  <2>3. QED
    BY <2>1, <2>2
<1>3. TypeOK' /\ NoOrphanBlocks'
  BY <1>1, <1>2, Zenon DEF TypeOK, NoOrphanBlocks
<1>4. QED
  BY <1>1, <1>2, <1>3

\* Leaving a block: direct and computed jumps, exceptions, a new page table.
LEMMA LeaveBlock ==
    ASSUME IInv, \/ \E n \in Exit : GotoTb(n)
                 \/ \E p \in Pc : GotoPtr(p) \/ Raise(p)
                 \/ \E v, w \in VPages, p \in Pc : SwitchPageTable(v, w, p)
    PROVE  IInv'
<1> USE DEF IInv
<1>0. level > 0 /\ level = 1 /\ top \in Cpu /\ top.tb \in 1 .. used /\ top.tb \in Slot
      /\ tb[top.tb].pc \in Pc
  <2>1. level > 0 /\ top.at # "loop"
    BY Zenon DEF GotoTb, GotoPtr, Raise, SwitchPageTable, Ready, InBlock
  <2>2. level = 1 /\ top.tb \in 1 .. used
    BY <2>1, LoopTop, Zenon
  <2>3. top \in Cpu /\ top.tb \in Slot
    BY <2>1, <2>2, TopTypes, LiveSlots, Zenon
  <2>4. tb[top.tb].pc \in Pc
    BY <2>3, Zenon DEF TypeOK, Block
  <2>5. QED
    BY <2>1, <2>2, <2>3, <2>4, Zenon
<1>1. /\ used' = used /\ tb' = tb /\ invalid' = invalid /\ htable' = htable /\ first_tb' = first_tb
      /\ jmp_dest' = jmp_dest /\ jmp_shut' = jmp_shut /\ jmp_target' = jmp_target
      /\ jmp_list' = jmp_list /\ dropped' = dropped /\ next_count1' = next_count1 /\ level' = level
  BY Zenon DEF GotoTb, GotoPtr, Raise, SwitchPageTable, cache, jumps
<1>3. ASSUME NEW p \in Pc, NEW d \in 1 .. used,
             cpu' = [cpu EXCEPT ![level].at = "entry", ![level].pc = p, ![level].tb = d]
      PROVE  LoopOK' /\ cpu' \in [1 .. MaxLevel -> Cpu]
  <2> DEFINE c == [top EXCEPT !.at = "entry", !.pc = p, !.tb = d]
  <2>1. cpu' = [cpu EXCEPT ![level] = c]
    BY <1>0, <1>3, TopTypes, Zenon DEF top, TypeOK
  <2>2. d \in Slot
    BY LiveSlots, Zenon
  <2>3. c \in Cpu /\ c.at = "entry" /\ c.tb = d
    BY <1>0, <2>2, Zenon DEF Cpu
  <2> HIDE DEF c
  <2>4. QED
    BY <1>0, <1>1, <2>1, <2>3, LoopStep, Zenon
<1>4. ASSUME NEW p \in Pc, NEW t \in 0 .. used, NEW n \in Exit,
             cpu' = [cpu EXCEPT ![level] = BackToLoop(p, t, n)]
      PROVE  LoopOK' /\ cpu' \in [1 .. MaxLevel -> Cpu]
  <2>1. t \in Slot \cup {0}
    BY LiveSlots, Zenon
  <2>2. BackToLoop(p, t, n) \in Cpu /\ BackToLoop(p, t, n).at = "loop" /\ BackToLoop(p, t, n).last = t
    BY <1>0, <2>1, TopTypes
  <2>3. QED
    BY <1>0, <1>1, <1>4, <2>2, LoopStep, Zenon
<1>5. 0 \in 0 .. used /\ 0 \in Exit /\ 1 .. used \subseteq 0 .. used
  BY SlotsAssumption DEF TypeOK, Exit
<1>6. LoopOK' /\ cpu' \in [1 .. MaxLevel -> Cpu]
  <2>1. CASE \E n \in Exit : GotoTb(n)
    <3>1. PICK n \in Exit : GotoTb(n)
      BY <2>1
    <3> DEFINE p == Target[tb[top.tb].pc][n]
               d == jmp_target[<<top.tb, n>>]
    <3>2. p \in Pc
      <4>1. p # -1
        BY <3>1, Zenon DEF GotoTb
      <4>2. Target[tb[top.tb].pc] \in [Exit -> Pc \cup {-1}]
        BY <1>0, CodeAssumption, Zenon
      <4>3. QED
        BY <4>1, <4>2, Zenon
    <3>3. d \in 0 .. used
      BY <1>0 DEF JumpsOK
    <3>4. CASE d # 0
      <4>1. cpu' = [cpu EXCEPT ![level].at = "entry", ![level].pc = p, ![level].tb = d]
        BY <3>1, <3>4, Zenon DEF GotoTb
      <4>2. d \in 1 .. used
        BY <3>3, <3>4, LiveSlots, Zenon
      <4> HIDE DEF p, d
      <4>3. QED
        BY <3>2, <4>1, <4>2, <1>3, Zenon
    <3>5. CASE d = 0
      <4>1. cpu' = [cpu EXCEPT ![level] = BackToLoop(p, top.tb, n)]
        BY <3>1, <3>5, Zenon DEF GotoTb
      <4> HIDE DEF p, d
      <4>2. QED
        BY <1>0, <1>4, <1>5, <3>2, <4>1, Zenon
    <3>6. QED
      BY <3>4, <3>5
  <2>2. CASE \E p \in Pc : GotoPtr(p)
    <3>1. PICK p \in Pc : GotoPtr(p)
      BY <2>2
    <3>2. \/ \E d \in Lookup(p, FALSE) :
                cpu' = [cpu EXCEPT ![level].at = "entry", ![level].pc = p, ![level].tb = d]
          \/ cpu' = [cpu EXCEPT ![level] = BackToLoop(p, 0, 0)]
      BY <3>1, Zenon DEF GotoPtr
    <3>3. QED
      BY <3>2, <1>3, <1>4, <1>5, LookupLive, Zenon
  <2>3. CASE \E p \in Pc : Raise(p)
    BY <2>3, <1>4, <1>5, Zenon DEF Raise
  <2>4. CASE \E v, w \in VPages, p \in Pc : SwitchPageTable(v, w, p)
    <3>1. PICK p \in Pc : cpu' = [cpu EXCEPT ![level] = BackToLoop(p, 0, 0)]
      BY <2>4, Zenon DEF SwitchPageTable
    <3>2. QED
      BY <3>1, <1>4, <1>5, Zenon
  <2>5. QED
    BY <2>1, <2>2, <2>3, <2>4
<1>7. /\ jmp_cache' \in [{JmpHash[q] : q \in Pc} -> Slot \cup {0}]
      /\ FindOK(used', htable', invalid', tb', first_tb', jmp_cache', dropped')
  <2>1. CASE jmp_cache' = jmp_cache \/ jmp_cache' = EmptyJmpCache
    BY <1>1, <2>1, JmpCacheStep, JmpCacheEmpty, Zenon DEF TypeOK
  <2>2. CASE \E p \in Pc : \E d \in Lookup(p, FALSE) : jmp_cache' = [jmp_cache EXCEPT ![JmpHash[p]] = d]
    <3>1. PICK p \in Pc : \E d \in Lookup(p, FALSE) : jmp_cache' = [jmp_cache EXCEPT ![JmpHash[p]] = d]
      BY <2>2, Zenon
    <3>2. PICK d \in Lookup(p, FALSE) : jmp_cache' = [jmp_cache EXCEPT ![JmpHash[p]] = d]
      BY <3>1, Zenon
    <3>3. d \in (1 .. used) \ invalid /\ d \in Slot
      BY LookupLive, Zenon
    <3>4. QED
      BY <1>1, <3>2, <3>3, JmpCacheStep, JmpCacheSet, Zenon
  <2>3. QED
    BY <2>1, <2>2, Zenon DEF GotoTb, GotoPtr, Raise, SwitchPageTable
<1>8. vmap' \in [VPages -> Frames \cup {-1}] /\ ops' \in 0 .. MaxOps /\ NoOrphanBlocks'
  <2>1. CASE vmap' = vmap /\ ops' = ops
    BY <1>1, <2>1, Zenon DEF TypeOK, NoOrphanBlocks
  <2>2. CASE \E v, w \in VPages, p \in Pc : SwitchPageTable(v, w, p)
    <3>1. PICK v \in VPages, w \in VPages, p \in Pc : SwitchPageTable(v, w, p)
      BY <2>2
    <3>2. vmap' = [vmap EXCEPT ![v] = vmap[w], ![w] = vmap[v]] /\ ops' = ops + 1 /\ ops < MaxOps
      BY <3>1 DEF SwitchPageTable
    <3>3. vmap \in [VPages -> Frames \cup {-1}] /\ ops \in 0 .. MaxOps
      BY Zenon DEF TypeOK
    <3>4. ops' \in 0 .. MaxOps
      BY <3>2, <3>3, SlotsAssumption
    <3>5. vmap' \in [VPages -> Frames \cup {-1}]
      BY <3>2, <3>3
    <3>6. \A x \in VPages : \E y \in VPages : vmap'[y] = vmap[x]
      BY <3>2, <3>3
    <3>7. NoOrphanBlocks'
      <4>1. SUFFICES ASSUME NEW f \in Frames, \A y \in VPages : vmap'[y] # f
                     PROVE  first_tb'[f] = {}
        BY Zenon DEF NoOrphanBlocks
      <4>2. \A x \in VPages : vmap[x] # f
        BY <3>6, <4>1, Zenon
      <4>3. NoOrphanBlocks /\ first_tb' = first_tb
        BY <1>1, Zenon
      <4>4. QED
        BY <4>2, <4>3, Zenon DEF NoOrphanBlocks
    <3>8. QED
      BY <3>4, <3>5, <3>7
  <2>3. QED
    BY <2>1, <2>2, Zenon DEF GotoTb, GotoPtr, Raise
<1>9. TypeOK'
  BY <1>1, <1>6, <1>7, <1>8, Zenon DEF TypeOK
<1>10. QED
  BY <1>1, <1>6, <1>7, <1>8, <1>9, Zenon

\* The loop is about to look for a block: what it needs of the types.
LEMMA LoopingTypes ==
    ASSUME TypeOK, LoopOK, Looping
    PROVE  /\ level = 1 /\ level > 0 /\ top \in Cpu /\ top.pc \in Pc /\ top.n \in Exit
           /\ top.last \in 0 .. used /\ next_count1 \in BOOLEAN
<1>1. level > 0 /\ level = 1 /\ top \in Cpu
  BY TopTypes, LoopTop, Zenon DEF Looping
<1>2. top.last \in 0 .. used
  BY LoopTop, Zenon DEF Looping
<1>3. QED
  BY <1>1, <1>2, Zenon DEF Cpu, TypeOK

\* Entering a cached block from the loop (tb_find).
LEMMA FindBlock ==
    ASSUME IInv, NEW t \in (1 .. used) \ invalid, Looping,
           jmp_cache' = [jmp_cache EXCEPT ![JmpHash[top.pc]] = t],
           tb_add_jump(t, tb[t].page1, jmp_dest, jmp_shut, jmp_target, jmp_list),
           cpu' = [cpu EXCEPT ![level] = Entered(t)], next_count1' = FALSE,
           UNCHANGED <<vmap, used, tb, invalid, htable, first_tb, level, dropped, ops>>
    PROVE  IInv'
<1> USE DEF IInv
<1>0. /\ level = 1 /\ level > 0 /\ top \in Cpu /\ top.pc \in Pc /\ top.n \in Exit /\ top.last \in 0 .. used
      /\ t \in Slot /\ used \in 0 .. NSlots
  <2>1. used \in 0 .. NSlots
    BY Zenon DEF TypeOK
  <2>2. QED
    BY <2>1, LoopingTypes, LiveSlots, Zenon
<1>1. /\ JumpsOK(used, invalid, jmp_dest', jmp_shut', jmp_target', jmp_list')
      /\ jmp_dest' \in [Jump -> Slot \cup {0}] /\ jmp_target' \in [Jump -> Slot \cup {0}]
      /\ jmp_shut' \in SUBSET Jump /\ jmp_list' \in [Slot -> SUBSET Jump]
  <2>1. /\ jmp_dest \in [Jump -> Slot \cup {0}] /\ jmp_target \in [Jump -> Slot \cup {0}]
        /\ jmp_shut \in SUBSET Jump /\ jmp_list \in [Slot -> SUBSET Jump] /\ invalid' = invalid
    BY Zenon DEF TypeOK
  <2>2. QED
    BY <1>0, <2>1, ChainJumps, SlotsAssumption, Zenon
<1>2. /\ jmp_cache' \in [{JmpHash[q] : q \in Pc} -> Slot \cup {0}]
      /\ FindOK(used', htable', invalid', tb', first_tb', jmp_cache', dropped')
  BY <1>0, JmpCacheSet, JmpCacheStep, Zenon
<1>3. LoopOK' /\ cpu' \in [1 .. MaxLevel -> Cpu]
  <2>1. Entered(t) \in Cpu /\ Entered(t).at = "entry" /\ Entered(t).tb = t
    BY <1>0, TopTypes, Zenon
  <2>2. QED
    BY <1>0, <2>1, LoopStep, Zenon
<1>4. TypeOK' /\ NoOrphanBlocks'
  BY <1>1, <1>2, <1>3, Zenon DEF TypeOK, NoOrphanBlocks
<1>5. QED
  BY <1>1, <1>2, <1>3, <1>4, Zenon

\* A new block is on RAM pages of the current mapping.
LEMMA NewBlockPages ==
    ASSUME TypeOK, NEW p \in Pc, NEW size \in Nat, NEW c \in BOOLEAN
    PROVE  /\ NewBlock(p, size, c) \in Block /\ ~NewBlock(p, size, c).nocache
           /\ NewBlock(p, size, c).page0 = get_page_addr_code(Page(p))
           /\ \A f \in Frames : f \in {NewBlock(p, size, c).page0, NewBlock(p, size, c).page1}
                                    => \E v \in VPages : vmap[v] = f
<1>1. \A v : /\ get_page_addr_code(v) \in Frames \cup {-1}
             /\ get_page_addr_code(v) # -1 => v \in VPages /\ vmap[v] = get_page_addr_code(v)
  BY Zenon DEF get_page_addr_code, TypeOK
<1>2. phys_page2(p, size) = -1 \/ phys_page2(p, size) = get_page_addr_code(Page(p + size - 1))
  BY DEF phys_page2
<1>3. \A f \in Frames : f # -1
  BY PagesAssumption
<1>4. QED
  BY <1>1, <1>2, <1>3 DEF NewBlock, Block

\* Translating a block, entered in the lists or temporary, that the loop enters or
\* the program only requested (tb_gen_code, tb_link_page).
LEMMA GenBlock ==
    ASSUME IInv, used < NSlots, NEW b \in Block, LinkBlock(used + 1, b),
           b.nocache => b.page0 = -1 /\ b.page1 = -1,
           ~b.nocache => b.page0 \in Frames,
           \A f \in Frames : f \in {b.page0, b.page1} => \E v \in VPages : vmap[v] = f,
           NEW p \in Pc,
           \/ jmp_cache' = [jmp_cache EXCEPT ![JmpHash[p]] = used + 1]
           \/ jmp_cache' = [EmptyJmpCache EXCEPT ![JmpHash[p]] = used + 1],
           \/ /\ Looping /\ cpu' = [cpu EXCEPT ![level] = Entered(used + 1)]
              /\ tb_add_jump(used + 1, b.page1, FreshDest(used + 1), FreshShut(used + 1),
                             FreshTarget(used + 1), FreshList(used + 1))
              /\ next_count1' = FALSE
           \/ /\ jmp_dest' = FreshDest(used + 1) /\ jmp_target' = FreshTarget(used + 1)
              /\ jmp_shut' = FreshShut(used + 1) /\ jmp_list' = FreshList(used + 1)
              /\ cpu' = cpu /\ next_count1' = next_count1,
           level' = level, ops' \in 0 .. MaxOps,
           vmap' \in [VPages -> Frames \cup {-1}],
           \A v \in VPages : vmap[v] # -1 => vmap'[v] = vmap[v]
    PROVE  IInv'
<1> USE DEF IInv
<1> DEFINE s == used + 1
<1>0. /\ used \in Nat /\ s \in Slot /\ s \in 0 .. NSlots /\ s \in 1 .. s
      /\ 0 .. used \subseteq 0 .. s /\ 1 .. used \subseteq 1 .. s
  BY NextSlot, Zenon
<1>1. /\ jmp_cache' \in [{JmpHash[q] : q \in Pc} -> Slot \cup {0}]
      /\ \A h \in DOMAIN jmp_cache' : \/ jmp_cache'[h] \in {0, s}
                                      \/ h \in DOMAIN jmp_cache /\ jmp_cache'[h] = jmp_cache[h]
  <2>1. CASE jmp_cache' = [jmp_cache EXCEPT ![JmpHash[p]] = s]
    BY <1>0, <2>1, JmpCacheSet, Zenon
  <2>2. CASE jmp_cache' = [EmptyJmpCache EXCEPT ![JmpHash[p]] = s]
    BY <1>0, <2>2, Zenon DEF EmptyJmpCache
  <2>3. QED
    BY <2>1, <2>2, Zenon
<1>2. /\ FindOK(used', htable', invalid', tb', first_tb', jmp_cache', dropped')
      /\ used' = s /\ used' \in 0 .. NSlots /\ tb' \in [Slot -> Block]
      /\ invalid' = invalid \ {s} /\ invalid' \subseteq Slot /\ htable' \subseteq Slot
      /\ dropped' \subseteq Slot /\ first_tb' \in [Frames -> SUBSET Jump]
  BY <1>1, LinkFind, Zenon
<1>3. /\ JumpsOK(s, invalid \ {s}, FreshDest(s), FreshShut(s), FreshTarget(s), FreshList(s))
      /\ FreshDest(s) \in [Jump -> Slot \cup {0}] /\ FreshTarget(s) \in [Jump -> Slot \cup {0}]
      /\ FreshShut(s) \in SUBSET Jump /\ FreshList(s) \in [Slot -> SUBSET Jump]
  BY FreshJumps
<1> HIDE DEF s
<1>4. /\ JumpsOK(used', invalid', jmp_dest', jmp_shut', jmp_target', jmp_list')
      /\ jmp_dest' \in [Jump -> Slot \cup {0}] /\ jmp_target' \in [Jump -> Slot \cup {0}]
      /\ jmp_shut' \in SUBSET Jump /\ jmp_list' \in [Slot -> SUBSET Jump]
      /\ LoopOK' /\ cpu' \in [1 .. MaxLevel -> Cpu] /\ next_count1' \in BOOLEAN
  <2>1. CASE /\ Looping /\ cpu' = [cpu EXCEPT ![level] = Entered(s)]
             /\ tb_add_jump(s, b.page1, FreshDest(s), FreshShut(s), FreshTarget(s), FreshList(s))
             /\ next_count1' = FALSE
    <3>1. /\ level > 0 /\ top \in Cpu /\ top.n \in Exit /\ top.last \in 0 .. s
      BY <1>0, <2>1, LoopingTypes, Zenon
    <3>2. /\ JumpsOK(s, invalid \ {s}, jmp_dest', jmp_shut', jmp_target', jmp_list')
          /\ jmp_dest' \in [Jump -> Slot \cup {0}] /\ jmp_target' \in [Jump -> Slot \cup {0}]
          /\ jmp_shut' \in SUBSET Jump /\ jmp_list' \in [Slot -> SUBSET Jump]
      <4>1. s \in (1 .. s) \ (invalid \ {s})
        BY <1>0
      <4>2. QED
        BY <1>0, <1>2, <1>3, <2>1, <3>1, <4>1, ChainJumps, SlotsAssumption, Zenon
    <3>3. Entered(s) \in Cpu /\ Entered(s).at = "entry" /\ Entered(s).tb = s
      BY <1>0, <3>1, TopTypes, Zenon
    <3>4. LoopOK' /\ cpu' \in [1 .. MaxLevel -> Cpu]
      BY <1>0, <1>2, <2>1, <3>1, <3>3, LoopStep, Zenon
    <3>5. QED
      BY <1>2, <2>1, <3>2, <3>4, Zenon
  <2>2. CASE /\ jmp_dest' = FreshDest(s) /\ jmp_target' = FreshTarget(s)
             /\ jmp_shut' = FreshShut(s) /\ jmp_list' = FreshList(s)
             /\ cpu' = cpu /\ next_count1' = next_count1
    <3>1. LoopOK'
      BY <1>0, <1>2, <2>2 DEF LoopOK
    <3>2. QED
      BY <1>2, <1>3, <2>2, <3>1, Zenon DEF TypeOK
  <2>3. QED
    BY <2>1, <2>2, Zenon DEF s
<1>5. NoOrphanBlocks'
  <2>1. SUFFICES ASSUME NEW f \in Frames, \A v \in VPages : vmap'[v] # f
                 PROVE  first_tb'[f] = {}
    BY Zenon DEF NoOrphanBlocks
  <2>2. \A v \in VPages : vmap[v] # f
    BY <2>1, PagesAssumption
  <2>3. first_tb[f] = {} /\ f # b.page0 /\ f # b.page1
    BY <2>2, Zenon DEF NoOrphanBlocks
  <2>4. QED
    BY <2>3, Zenon DEF LinkBlock
<1>6. TypeOK'
  BY <1>1, <1>2, <1>4, Zenon DEF TypeOK
<1>7. QED
  BY <1>2, <1>4, <1>5, <1>6, Zenon

\* Flushing the cache while no block runs: the buffer is full and the loop is
\* between blocks, or no emulation is active (do_tb_flush).
LEMMA FlushAll ==
    ASSUME IInv, TbFull \/ (Flush /\ "flush" \notin Calls)
    PROVE  IInv'
<1> USE DEF IInv
<1>0. level \in {0, 1} /\ 0 \in 0 .. NSlots /\ 1 .. 0 = {} /\ 0 \in 0 .. 0
  BY SlotsAssumption DEF LoopOK
<1>1. /\ used' = 0 /\ htable' = {} /\ dropped' = {} /\ invalid' = {}
      /\ first_tb' = [f \in Frames |-> {}] /\ jmp_cache' = EmptyJmpCache
      /\ tb' = [t \in Slot |-> NoBlock]
      /\ jmp_dest' = [j \in Jump |-> 0] /\ jmp_target' = [j \in Jump |-> 0]
      /\ jmp_shut' = {} /\ jmp_list' = [t \in Slot |-> {}]
      /\ vmap' = vmap /\ level' = level
  BY <1>0 DEF TbFull, Flush, tb_flush, loop
<1>2. NoBlock \in Block
  BY PagesAssumption DEF NoBlock, Block
<1>3. JumpsOK(0, {}, jmp_dest', jmp_shut', jmp_target', jmp_list')
  BY <1>0 DEF JumpsOK
<1>4. FindOK(0, {}, {}, tb', first_tb', jmp_cache', {})
  BY <1>0, <1>1, JmpCacheEmpty, Zenon DEF FindOK
<1>5. /\ LoopOK' /\ cpu' \in [1 .. MaxLevel -> Cpu] /\ next_count1' \in BOOLEAN
      /\ ops' \in 0 .. MaxOps
  <2>1. CASE TbFull
    <3> DEFINE c == [top EXCEPT !.last = 0]
    <3>1. level > 0 /\ top \in Cpu /\ top.at = "loop"
      BY <2>1, LoopingTypes DEF TbFull, Looping
    <3>2. cpu' = [cpu EXCEPT ![level] = c]
      BY <2>1, <3>1, TopTypes DEF TbFull, top, TypeOK
    <3>3. c \in Cpu /\ c.at = "loop" /\ c.last = 0
      BY <3>1 DEF Cpu
    <3> HIDE DEF c
    <3>4. LoopOK' /\ cpu' \in [1 .. MaxLevel -> Cpu]
      BY <1>0, <1>1, <3>1, <3>2, <3>3, LoopStep, Zenon
    <3>5. QED
      BY <2>1, <3>4, Zenon DEF TbFull, TypeOK
  <2>2. CASE Flush /\ "flush" \notin Calls
    <3>1. level = 0 /\ cpu' = cpu /\ next_count1' = next_count1 /\ ops' = ops + 1 /\ ops < MaxOps
      BY <2>2 DEF Flush, loop, ApiCall
    <3>2. ops \in 0 .. MaxOps /\ next_count1 \in BOOLEAN /\ cpu \in [1 .. MaxLevel -> Cpu]
      BY Zenon DEF TypeOK
    <3>3. ops' \in 0 .. MaxOps
      BY <3>1, <3>2, SlotsAssumption
    <3>4. QED
      BY <1>1, <3>1, <3>2, <3>3 DEF LoopOK
  <2>3. QED
    BY <2>1, <2>2
<1>6. NoOrphanBlocks'
  BY <1>1 DEF NoOrphanBlocks
<1>7. TypeOK'
  BY <1>0, <1>1, <1>2, <1>5, JmpCacheEmpty, Zenon DEF TypeOK
<1>8. QED
  BY <1>1, <1>3, <1>4, <1>5, <1>6, <1>7

\* Invalidating cached blocks, by a guest store, a removal or an unmap.
LEMMA InvalidateStep ==
    ASSUME IInv, NEW R \in SUBSET htable, do_tb_phys_invalidate(R),
           jmp_cache' = JmpCacheWithout(R) \/ jmp_cache' = EmptyJmpCache,
           dropped' \subseteq dropped \cup R \cup ((1 .. used) \cap invalid),
           LoopOK', cpu' \in [1 .. MaxLevel -> Cpu], level' = level, next_count1' \in BOOLEAN,
           ops' \in 0 .. MaxOps,
           vmap' \in [VPages -> Frames \cup {-1}], NoOrphanBlocks'
    PROVE  IInv'
<1> USE DEF IInv
<1>0. R \in SUBSET (1 .. used) /\ R \in SUBSET Slot /\ 1 .. used \subseteq Slot
  <2>1. R \in SUBSET (1 .. used)
    BY DEF FindOK
  <2>2. 1 .. used \subseteq Slot
    BY LiveSlots, Zenon
  <2>3. QED
    BY <2>1, <2>2
<1>1. JumpsOK(used', invalid', jmp_dest', jmp_shut', jmp_target', jmp_list')
  BY <1>0, InvalidateJumps
<1>2. FindOK(used', htable', invalid', tb', first_tb', jmp_cache', dropped')
  BY InvalidateFind
<1>3. jmp_cache' \in [{JmpHash[p] : p \in Pc} -> Slot \cup {0}]
  BY JmpCacheEmpty, Zenon DEF JmpCacheWithout, TypeOK
<1>4. TypeOK'
  <2>1. /\ used' \in 0 .. NSlots /\ tb' \in [Slot -> Block]
        /\ invalid' \subseteq Slot /\ htable' \subseteq Slot
        /\ first_tb' \in [Frames -> SUBSET Jump]
        /\ jmp_dest' \in [Jump -> Slot \cup {0}] /\ jmp_target' \in [Jump -> Slot \cup {0}]
        /\ jmp_shut' \subseteq Jump /\ jmp_list' \in [Slot -> SUBSET Jump]
    BY <1>0, InvalidateTypes
  <2>2. dropped' \subseteq Slot
    BY <1>0, Zenon DEF TypeOK
  <2>3. QED
    BY <1>3, <2>1, <2>2, Zenon DEF TypeOK
<1>5. QED
  BY <1>1, <1>2, <1>4

\* A list from which blocks are removed stays empty when it was.
LEMMA NoOrphansLeft ==
    ASSUME NoOrphanBlocks, NEW R, do_tb_phys_invalidate(R),
           \A f \in Frames : (\A v \in VPages : vmap'[v] # f) =>
                \/ \A v \in VPages : vmap[v] # f
                \/ \A e \in first_tb[f] : e[1] \in R
    PROVE  NoOrphanBlocks'
<1>1. SUFFICES ASSUME NEW f \in Frames, \A v \in VPages : vmap'[v] # f
               PROVE  first_tb'[f] = {}
  BY DEF NoOrphanBlocks
<1>2. first_tb'[f] = {e \in first_tb[f] : e[1] \notin R}
  BY Zenon DEF do_tb_phys_invalidate
<1>3. first_tb[f] = {} \/ \A e \in first_tb[f] : e[1] \in R
  BY <1>1, Zenon DEF NoOrphanBlocks
<1>4. QED
  BY <1>2, <1>3

\* The blocks R of one write, and the ghost set of what was written.
LEMMA RangeStep ==
    ASSUME IInv, NEW f \in Frames \cup {-1}, NEW lo \in Int, NEW hi \in Int, 0 <= lo, lo < hi,
           NEW R, R = InRange(f, lo, hi) \/ (R = {} /\ InRange(f, lo, hi) \cap TranslatedFrom(f, lo, hi) = {}),
           dropped' \subseteq dropped \cup (IF f = -1 THEN {} ELSE TranslatedFrom(f, lo, hi))
    PROVE  R \in SUBSET htable /\ dropped' \subseteq dropped \cup R \cup ((1 .. used) \cap invalid)
<1>1. /\ InRange(f, lo, hi) \subseteq htable
      /\ f \in Frames => TranslatedFrom(f, lo, hi) \subseteq InRange(f, lo, hi) \cup ((1 .. used) \cap invalid)
  BY RangeCached, Zenon DEF IInv
<1>2. CASE f = -1
  BY <1>1, <1>2
<1>3. CASE f \in Frames /\ f # -1
  BY <1>1, <1>3
<1>4. QED
  BY <1>2, <1>3

\* A store of the guest to a page with code (notdirty_write,
\* tb_invalidate_phys_page_fast).
LEMMA GuestStoreStep ==
    ASSUME IInv, NEW bitmap \in BOOLEAN, GuestStore(bitmap)
    PROVE  IInv'
<1> DEFINE t == top.tb
           a == StoreTo[tb[t].pc]
           f == get_page_addr_code(Page(a))
           S == InRange(f, Offset(a), Offset(a) + 1)
           R == IF bitmap /\ S \cap TranslatedFrom(f, Offset(a), Offset(a) + 1) = {} THEN {} ELSE S
           again == PreciseSmc /\ t \in R /\ ~tb[t].count1
<1>0. level > 0 /\ level = 1 /\ top \in Cpu /\ t \in 1 .. used /\ t \in Slot /\ tb[t] \in Block
  <2>1. level > 0 /\ top.at # "loop"
    BY Zenon DEF GuestStore, InBlock
  <2>2. level = 1 /\ t \in 1 .. used
    BY <2>1, LoopTop, Zenon DEF IInv
  <2>3. top \in Cpu /\ t \in Slot
    BY <2>1, <2>2, TopTypes, LiveSlots, Zenon DEF IInv
  <2>4. tb[t] \in Block
    BY <2>3, Zenon DEF IInv, TypeOK
  <2>5. QED
    BY <2>1, <2>2, <2>3, <2>4
<1>1. a \in Int /\ tb[t].pc \in Pc
  BY <1>0, CodeAssumption DEF Block
<1>2. f \in Frames \cup {-1}
  BY Zenon DEF IInv, TypeOK, get_page_addr_code
<1>3. Offset(a) \in Int /\ 0 <= Offset(a) /\ Offset(a) < Offset(a) + 1 /\ Offset(a) + 1 \in Int
  BY <1>1, SlotsAssumption DEF Offset
<1>4. /\ f # -1 /\ do_tb_phys_invalidate(R) /\ jmp_cache' = JmpCacheWithout(R)
      /\ dropped' = dropped \cup TranslatedFrom(f, Offset(a), Offset(a) + 1)
      /\ next_count1' = again /\ level' = level /\ vmap' = vmap /\ ops' = ops
      /\ cpu' = IF again THEN [cpu EXCEPT ![level] = BackToLoop(tb[t].pc, 0, 0)]
                ELSE [cpu EXCEPT ![level].at = "done"]
  BY Zenon DEF GuestStore
<1>5. again \in BOOLEAN /\ used' = used
  BY <1>4, Zenon DEF do_tb_phys_invalidate
<1>6. LoopOK' /\ cpu' \in [1 .. MaxLevel -> Cpu]
  <2>1. CASE again
    <3>1. /\ BackToLoop(tb[t].pc, 0, 0) \in Cpu
          /\ BackToLoop(tb[t].pc, 0, 0).at = "loop" /\ BackToLoop(tb[t].pc, 0, 0).last = 0
      <4>1. 0 \in Exit
        BY DEF Exit
      <4>2. \A p \in Pc : /\ BackToLoop(p, 0, 0) \in Cpu
                          /\ BackToLoop(p, 0, 0).at = "loop" /\ BackToLoop(p, 0, 0).last = 0
        BY <1>0, <4>1, TopTypes DEF IInv
      <4>3. QED
        BY <1>1, <4>2, Zenon
    <3>2. cpu' = [cpu EXCEPT ![level] = BackToLoop(tb[t].pc, 0, 0)]
      BY <1>4, <2>1, Zenon
    <3>3. 0 \in 0 .. used'
      BY <1>5, LiveSlots, Zenon DEF IInv
    <3>4. QED
      BY <1>0, <1>4, <3>1, <3>2, <3>3, LoopStep, Zenon DEF IInv
  <2>2. CASE ~again
    <3> DEFINE c == [top EXCEPT !.at = "done"]
    <3>1. cpu' = [cpu EXCEPT ![level] = c]
      BY <1>4, <2>2, Zenon DEF top
    <3>2. c \in Cpu /\ c.at = "done" /\ c.tb = t
      BY <1>0 DEF Cpu
    <3> HIDE DEF c, again, t
    <3>3. QED
      BY <1>0, <1>4, <1>5, <3>1, <3>2, LoopStep, Zenon DEF IInv
  <2>3. QED
    BY <2>1, <2>2, Zenon
<1> HIDE DEF t, a, f, again
<1>7. \/ R = InRange(f, Offset(a), Offset(a) + 1)
      \/ R = {} /\ InRange(f, Offset(a), Offset(a) + 1) \cap TranslatedFrom(f, Offset(a), Offset(a) + 1) = {}
  OBVIOUS
<1> HIDE DEF R, S
<1>8. R \in SUBSET htable /\ dropped' \subseteq dropped \cup R \cup ((1 .. used) \cap invalid)
  BY <1>2, <1>3, <1>4, <1>7, RangeStep
<1>9. NoOrphanBlocks'
  BY <1>4, NoOrphansLeft DEF IInv
<1>10. vmap' \in [VPages -> Frames \cup {-1}] /\ ops' \in 0 .. MaxOps /\ next_count1' \in BOOLEAN
  BY <1>4, <1>5 DEF IInv, TypeOK
<1>11. QED
  BY <1>4, <1>6, <1>8, <1>9, <1>10, InvalidateStep

\* uc_ctl_remove_cache, and the removals of uc_hook_del and resume_all_vcpus.
LEMMA RemoveCacheStep ==
    ASSUME IInv, NEW v \in VPages, NEW lo \in 0 .. PageSize, NEW hi \in 0 .. PageSize, lo < hi,
           RemoveCache(v, lo, hi)
    PROVE  IInv'
<1> DEFINE f == get_page_addr_code(v)
           R == InRange(f, lo, hi)
<1>1. f \in Frames \cup {-1} /\ lo \in Int /\ hi \in Int /\ 0 <= lo
  <2>1. f \in Frames \cup {-1}
    BY Zenon DEF IInv, TypeOK, get_page_addr_code
  <2>2. QED
    BY <2>1, SlotsAssumption
<1>2. /\ do_tb_phys_invalidate(R) /\ jmp_cache' = JmpCacheWithout(R)
      /\ dropped' = dropped \cup (IF f = -1 THEN {} ELSE TranslatedFrom(f, lo, hi))
      /\ vmap' = vmap /\ cpu' = cpu /\ level' = level /\ next_count1' = next_count1
      /\ ops' = ops + 1 /\ ops < MaxOps
  BY DEF RemoveCache, loop, ApiCall
<1>3. R = InRange(f, lo, hi)
  OBVIOUS
<1> HIDE DEF f, R
<1>4. R \in SUBSET htable /\ dropped' \subseteq dropped \cup R \cup ((1 .. used) \cap invalid)
  BY <1>1, <1>2, <1>3, RangeStep
<1>5. NoOrphanBlocks'
  BY <1>2, NoOrphansLeft, Zenon DEF IInv
<1>6. /\ vmap' \in [VPages -> Frames \cup {-1}] /\ ops' \in 0 .. MaxOps /\ next_count1' \in BOOLEAN
      /\ LoopOK' /\ cpu' \in [1 .. MaxLevel -> Cpu]
  <2>1. ops \in 0 .. MaxOps
    BY Zenon DEF IInv, TypeOK
  <2>2. ops' \in 0 .. MaxOps
    BY <1>2, <2>1, SlotsAssumption
  <2>3. QED
    BY <1>2, <2>2, Zenon DEF IInv, TypeOK, LoopOK, do_tb_phys_invalidate
<1>7. QED
  BY <1>2, <1>4, <1>5, <1>6, InvalidateStep

\* uc_mem_unmap: the range of a whole page holds every block of its list.
LEMMA UnmapAll ==
    ASSUME IInv, NEW v \in VPages, Unmap(v)
    PROVE  \A e \in first_tb[vmap[v]] : e[1] \in InRange(vmap[v], 0, PageSize)
<1> DEFINE f == vmap[v]
<1>1. f \in Frames /\ f # -1 /\ PageSize \in Int /\ 0 < PageSize
  <2>1. f \in Frames \cup {-1} /\ f # -1
    BY Zenon DEF IInv, TypeOK, Unmap
  <2>2. QED
    BY <2>1, SlotsAssumption
<1>2. SUFFICES ASSUME NEW e \in first_tb[f] PROVE Overlaps(e, 0, PageSize)
  BY <1>1, Zenon DEF InRange
<1>3. PICK t \in Slot, n \in Exit : e = <<t, n>>
  <2>1. first_tb[f] \in SUBSET Jump
    BY <1>1, Zenon DEF IInv, TypeOK
  <2> QED BY <2>1, JumpPair, Zenon
<1>4. tb[t] \in Block
  BY Zenon DEF IInv, TypeOK
<1>5. /\ Offset(tb[t].pc) \in Int /\ 0 <= Offset(tb[t].pc) /\ Offset(tb[t].pc) < PageSize
      /\ Offset(tb[t].pc + tb[t].size) \in Int /\ 0 <= Offset(tb[t].pc + tb[t].size)
      /\ tb[t].size \in Nat
  BY <1>4, BlockOffsets, Zenon
<1> QED BY <1>1, <1>3, <1>5 DEF Overlaps

\* uc_mem_unmap: every block of the page overlaps it, so its list becomes empty.
LEMMA UnmapStep ==
    ASSUME IInv, NEW v \in VPages, Unmap(v)
    PROVE  IInv'
<1> DEFINE f == vmap[v]
           R == InRange(f, 0, PageSize)
<1>1. f \in Frames /\ f # -1 /\ PageSize \in Int /\ 0 < PageSize
  <2>1. f \in Frames \cup {-1} /\ f # -1
    BY Zenon DEF IInv, TypeOK, Unmap
  <2>2. QED
    BY <2>1, SlotsAssumption
<1>2. /\ do_tb_phys_invalidate(R) /\ jmp_cache' = EmptyJmpCache
      /\ dropped' = dropped \cup TranslatedFrom(f, 0, PageSize)
      /\ vmap' = [vmap EXCEPT ![v] = -1] /\ cpu' = cpu /\ level' = level /\ next_count1' = next_count1
      /\ ops' = ops + 1 /\ ops < MaxOps
  BY DEF Unmap, loop, ApiCall
<1>3. \A e \in first_tb[f] : e[1] \in R
  BY UnmapAll
<1>4. R = InRange(f, 0, PageSize)
  OBVIOUS
<1>5. vmap' \in [VPages -> Frames \cup {-1}] /\ \A w \in VPages : w # v => vmap'[w] = vmap[w]
  BY <1>2, Zenon DEF IInv, TypeOK
<1>6. \A g \in Frames : (\A w \in VPages : vmap'[w] # g) =>
                \/ \A w \in VPages : vmap[w] # g
                \/ \A e \in first_tb[g] : e[1] \in R
  BY <1>3, <1>5, Zenon
<1> HIDE DEF f, R
<1>7. R \in SUBSET htable /\ dropped' \subseteq dropped \cup R \cup ((1 .. used) \cap invalid)
  BY <1>1, <1>2, <1>4, RangeStep
<1>8. NoOrphanBlocks'
  BY <1>2, <1>6, NoOrphansLeft, Zenon DEF IInv
<1>9. /\ ops' \in 0 .. MaxOps /\ next_count1' \in BOOLEAN
      /\ LoopOK' /\ cpu' \in [1 .. MaxLevel -> Cpu]
  <2>1. ops \in 0 .. MaxOps
    BY Zenon DEF IInv, TypeOK
  <2>2. ops' \in 0 .. MaxOps
    BY <1>2, <2>1, SlotsAssumption
  <2>3. QED
    BY <1>2, <2>2, Zenon DEF IInv, TypeOK, LoopOK, do_tb_phys_invalidate
<1>10. QED
  BY <1>2, <1>5, <1>7, <1>8, <1>9, InvalidateStep

\* uc_mem_map and a change of the guest's page table.
LEMMA RemapStep ==
    ASSUME IInv, NEW v \in VPages,
           (\E f \in Frames : Map(v, f)) \/ (\E w \in VPages : Retranslate(v, w))
    PROVE  IInv'
<1> USE DEF IInv
<1>1. /\ used' = used /\ tb' = tb /\ invalid' = invalid /\ htable' = htable /\ first_tb' = first_tb
      /\ jmp_dest' = jmp_dest /\ jmp_shut' = jmp_shut /\ jmp_target' = jmp_target
      /\ jmp_list' = jmp_list /\ jmp_cache' = EmptyJmpCache /\ dropped' = dropped
      /\ cpu' = cpu /\ level' = level /\ next_count1' = next_count1
      /\ ops < MaxOps /\ ops' = ops + 1
  BY DEF Map, Retranslate, ApiCall, cache, jumps, loop
<1>2. vmap' \in [VPages -> Frames \cup {-1}] /\ \A u \in VPages : \E w \in VPages : vmap[u] # -1 => vmap'[w] = vmap[u]
  BY Zenon DEF Map, Retranslate, TypeOK
<1>3. TypeOK' /\ LoopOK'
  <2>1. ops \in 0 .. MaxOps
    BY Zenon DEF TypeOK
  <2>2. ops' \in 0 .. MaxOps
    BY <1>1, <2>1, SlotsAssumption
  <2>3. QED
    BY <1>1, <1>2, <2>2, JmpCacheEmpty, Zenon DEF TypeOK, LoopOK
<1>4. FindOK(used', htable', invalid', tb', first_tb', jmp_cache', dropped')
  BY <1>1, JmpCacheEmpty, JmpCacheStep, Zenon
<1>5. JumpsOK(used', invalid', jmp_dest', jmp_shut', jmp_target', jmp_list')
  BY <1>1, Zenon
<1>6. NoOrphanBlocks'
  <2>1. SUFFICES ASSUME NEW f \in Frames, \A u \in VPages : vmap'[u] # f PROVE first_tb[f] = {}
    BY <1>1, Zenon DEF NoOrphanBlocks
  <2>2. \A u \in VPages : vmap[u] # f
    BY <1>2, <2>1, PagesAssumption
  <2>3. QED
    BY <2>2, Zenon DEF NoOrphanBlocks
<1>7. QED
  BY <1>3, <1>4, <1>5, <1>6

\* The loop finds its block, or translates it (tb_find).
LEMMA TbFindStep ==
    ASSUME IInv, \/ \E t \in Slot : TbFound(t)
                 \/ \E size \in Sizes : TbGen(size)
                 \/ \E size \in Sizes, t \in Slot : TbExisting(size, t)
                 \/ \E size \in Sizes, f \in Frames : TbOnDemand(size, f)
    PROVE  IInv'
<1>0. Looping
  BY Zenon DEF TbFound, TbGen, TbExisting, TbOnDemand
<1>1. /\ level = 1 /\ level > 0 /\ top \in Cpu /\ top.pc \in Pc /\ top.n \in Exit
      /\ top.last \in 0 .. used /\ next_count1 \in BOOLEAN
  BY <1>0, LoopingTypes DEF IInv
<1>2. \A size \in Sizes : size \in Nat
  BY <1>0, <1>1, CodeAssumption DEF Sizes
<1>3. ASSUME NEW t \in Slot, TbFound(t)
      PROVE  IInv'
  <2>1. t \in (1 .. used) \ invalid
    BY <1>1, <1>3, LookupLive, Zenon DEF IInv, TbFound
  <2>2. QED
    BY <1>0, <1>3, <2>1, FindBlock, Zenon DEF TbFound
<1>4. ASSUME NEW size \in Sizes, NEW t \in Slot, TbExisting(size, t)
      PROVE  IInv'
  <2>1. t \in (1 .. used) \ invalid
    BY <1>4, Zenon DEF IInv, FindOK, TbExisting, existing_tb
  <2>2. QED
    BY <1>0, <1>4, <2>1, FindBlock, Zenon DEF TbExisting
<1>5. ASSUME NEW size \in Sizes, TbGen(size)
      PROVE  IInv'
  <2> DEFINE b == NewBlock(top.pc, size, next_count1)
  <2>0. TypeOK /\ size \in Nat /\ top.pc \in Pc /\ next_count1 \in BOOLEAN
    BY <1>1, <1>2, Zenon DEF IInv
  <2>1. /\ b \in Block /\ ~b.nocache /\ b.page0 = get_page_addr_code(Page(top.pc))
        /\ \A f \in Frames : f \in {b.page0, b.page1} => \E v \in VPages : vmap[v] = f
    BY <2>0, NewBlockPages, ZenonT(30)
  <2>2. b.page0 \in Frames
    BY <1>5, <2>1, Zenon DEF TbGen, CodeMapped, Block
  <2>3. /\ used < NSlots /\ LinkBlock(used + 1, b)
        /\ jmp_cache' = [jmp_cache EXCEPT ![JmpHash[top.pc]] = used + 1]
        /\ tb_add_jump(used + 1, b.page1, FreshDest(used + 1), FreshShut(used + 1),
                       FreshTarget(used + 1), FreshList(used + 1))
        /\ cpu' = [cpu EXCEPT ![level] = Entered(used + 1)] /\ next_count1' = FALSE
        /\ vmap' = vmap /\ level' = level /\ ops' = ops
    BY <1>5, Zenon DEF TbGen
  <2>4. vmap' \in [VPages -> Frames \cup {-1}] /\ ops' \in 0 .. MaxOps
    BY <2>3, Zenon DEF IInv, TypeOK
  <2> HIDE DEF b
  <2>5. QED
    BY <1>0, <1>1, <2>1, <2>2, <2>3, <2>4, GenBlock, Zenon
<1>6. ASSUME NEW size \in Sizes, NEW f \in Frames, TbOnDemand(size, f)
      PROVE  IInv'
  <2> DEFINE b == [NewBlock(top.pc, size, next_count1) EXCEPT !.nocache = TRUE, !.page1 = -1]
  <2>1. NewBlock(top.pc, size, next_count1) \in Block /\ NewBlock(top.pc, size, next_count1).page0 = -1
    <3>1. get_page_addr_code(Page(top.pc)) = -1
      BY <1>6, Zenon DEF TbOnDemand
    <3>2. QED
      BY <1>1, <1>2, <3>1, NewBlockPages DEF IInv
  <2>2. b \in Block /\ b.nocache /\ b.page0 = -1 /\ b.page1 = -1
    BY <2>1, Zenon DEF Block
  <2>3. \A g \in Frames : g \notin {b.page0, b.page1}
    BY <2>2, PagesAssumption
  <2>4. /\ used < NSlots /\ LinkBlock(used + 1, b)
        /\ jmp_cache' = [EmptyJmpCache EXCEPT ![JmpHash[top.pc]] = used + 1]
        /\ tb_add_jump(used + 1, -1, FreshDest(used + 1), FreshShut(used + 1),
                       FreshTarget(used + 1), FreshList(used + 1))
        /\ cpu' = [cpu EXCEPT ![level] = Entered(used + 1)] /\ next_count1' = FALSE
        /\ vmap' = [vmap EXCEPT ![Page(top.pc)] = f] /\ level' = level
        /\ ops < MaxOps /\ ops' = ops + 1
    BY <1>6, Zenon DEF TbOnDemand
  <2>5. tb_add_jump(used + 1, b.page1, FreshDest(used + 1), FreshShut(used + 1),
                       FreshTarget(used + 1), FreshList(used + 1))
    BY <2>2, <2>4
  <2>6. vmap' \in [VPages -> Frames \cup {-1}] /\ ops' \in 0 .. MaxOps
    <3>1. vmap' = [vmap EXCEPT ![Page(top.pc)] = f] /\ vmap \in [VPages -> Frames \cup {-1}]
      BY <2>4 DEF IInv, TypeOK
    <3>2. vmap' \in [VPages -> Frames \cup {-1}]
      BY <3>1, Zenon
    <3>3. ops < MaxOps /\ ops' = ops + 1 /\ ops \in 0 .. MaxOps
      BY <2>4 DEF IInv, TypeOK
    <3>4. ops' \in 0 .. MaxOps
      BY <3>3, SlotsAssumption
    <3>5. QED
      BY <3>2, <3>4
  <2>7. \A v \in VPages : vmap[v] # -1 => vmap'[v] = vmap[v]
    <3>1. get_page_addr_code(Page(top.pc)) = -1 /\ Page(top.pc) \in VPages
      BY <1>1, <1>6, CodeAssumption, Zenon DEF TbOnDemand
    <3>2. QED
      BY <2>4, <3>1 DEF IInv, TypeOK, get_page_addr_code
  <2> HIDE DEF b
  <2>8. QED
    BY <1>0, <1>1, <2>2, <2>3, <2>4, <2>5, <2>6, <2>7, GenBlock, Zenon
<1>7. QED
  BY <1>3, <1>4, <1>5, <1>6

\* uc_ctl_request_cache finds or translates a block and does not run it.
LEMMA RequestCacheStep ==
    ASSUME IInv, NEW p \in Pc, NEW size \in Size[p], RequestCache(p, size)
    PROVE  IInv'
<1> DEFINE b == NewBlock(p, size, next_count1)
<1>0. /\ size \in Nat /\ next_count1 \in BOOLEAN /\ vmap' = vmap /\ cpu' = cpu /\ level' = level
      /\ next_count1' = next_count1 /\ ops' \in 0 .. MaxOps
      /\ vmap' \in [VPages -> Frames \cup {-1}]
  <2>1. /\ vmap' = vmap /\ cpu' = cpu /\ level' = level /\ next_count1' = next_count1
        /\ ops < MaxOps /\ ops' = ops + 1
    BY Zenon DEF RequestCache, ApiCall, loop
  <2>2. ops \in 0 .. MaxOps /\ next_count1 \in BOOLEAN /\ vmap \in [VPages -> Frames \cup {-1}]
    BY Zenon DEF IInv, TypeOK
  <2>3. ops' \in 0 .. MaxOps
    BY <2>1, <2>2, SlotsAssumption
  <2>4. size \in Nat
    BY CodeAssumption, Zenon
  <2>5. QED
    BY <2>1, <2>2, <2>3, <2>4, Zenon
<1>1. ASSUME NEW t \in (1 .. used) \ invalid, UNCHANGED <<cache, dropped>>,
             jmp_cache' = [jmp_cache EXCEPT ![JmpHash[p]] = t]
      PROVE  IInv'
  <2> USE DEF IInv
  <2>1. /\ used' = used /\ tb' = tb /\ invalid' = invalid /\ htable' = htable /\ first_tb' = first_tb
        /\ jmp_dest' = jmp_dest /\ jmp_shut' = jmp_shut /\ jmp_target' = jmp_target
        /\ jmp_list' = jmp_list /\ dropped' = dropped
    BY <1>1, Zenon DEF cache, jumps
  <2>2. t \in Slot
    BY LiveSlots, Zenon
  <2>3. /\ jmp_cache' \in [{JmpHash[q] : q \in Pc} -> Slot \cup {0}]
        /\ FindOK(used', htable', invalid', tb', first_tb', jmp_cache', dropped')
    BY <1>1, <2>1, <2>2, JmpCacheSet, JmpCacheStep, Zenon
  <2>4. TypeOK' /\ LoopOK' /\ NoOrphanBlocks'
    BY <1>0, <2>1, <2>3, Zenon DEF TypeOK, LoopOK, NoOrphanBlocks
  <2>5. QED
    BY <2>1, <2>3, <2>4, Zenon
<1>2. ASSUME NEW t \in Lookup(p, next_count1), UNCHANGED <<cache, dropped>>,
             jmp_cache' = [jmp_cache EXCEPT ![JmpHash[p]] = t]
      PROVE  IInv'
  <2>1. t \in (1 .. used) \ invalid
    BY <1>0, LookupLive, Zenon DEF IInv
  <2>2. QED
    BY <1>1, <1>2, <2>1, Zenon
<1>3. ASSUME NEW t \in existing_tb(b), UNCHANGED <<cache, dropped>>,
             jmp_cache' = [jmp_cache EXCEPT ![JmpHash[p]] = t]
      PROVE  IInv'
  <2>1. t \in (1 .. used) \ invalid
    BY Zenon DEF existing_tb, IInv, FindOK
  <2>2. QED
    BY <1>1, <1>3, <2>1, Zenon
<1>4. CASE /\ used < NSlots /\ CodeMapped(p, size) /\ LinkBlock(used + 1, b)
           /\ jmp_cache' = [jmp_cache EXCEPT ![JmpHash[p]] = used + 1]
           /\ jmp_dest' = FreshDest(used + 1) /\ jmp_target' = FreshTarget(used + 1)
           /\ jmp_shut' = FreshShut(used + 1) /\ jmp_list' = FreshList(used + 1)
  <2>1. /\ b \in Block /\ ~b.nocache /\ b.page0 = get_page_addr_code(Page(p))
        /\ \A f \in Frames : f \in {b.page0, b.page1} => \E v \in VPages : vmap[v] = f
    BY <1>0, NewBlockPages, Zenon DEF IInv
  <2>2. b.page0 \in Frames
    BY <1>4, <2>1, Zenon DEF CodeMapped, Block
  <2> HIDE DEF b
  <2>3. QED
    BY <1>0, <1>4, <2>1, <2>2, GenBlock, Zenon
<1> HIDE DEF b
<1>5. QED
  BY <1>2, <1>3, <1>4, Zenon DEF RequestCache, b
=============================================================================
