--------------------------- MODULE MemAccessProofs ---------------------------
(***************************************************************************)
(* For every program, memory map, hook list and number of calls: how an    *)
(* access gets from step to step through load_helper and store_helper,     *)
(* which errors uc_emu_start returns, and which hooks are called.          *)
(* Each theorem names the rules for callbacks that it needs.               *)
(***************************************************************************)
EXTENDS MemAccess, WellFoundedInduction, TLAPS

-----------------------------------------------------------------------------
(* The invariants *)

\* An access is under way.
InAccess == phase \in {"lookup", "unmapped", "plain", "permission", "prot", "go",
                       "stored", "after", "check"}

Frame == [at : Nat, sub : Nat, mr : BOOLEAN, hit : BOOLEAN, discard : BOOLEAN,
          flushed : BOOLEAN, freed : BOOLEAN, handled : BOOLEAN, old : BOOLEAN]

TypeOK ==
    /\ mapped \in SUBSET Page /\ present \in SUBSET Page /\ perms \in [Page -> SUBSET Perm]
    /\ mem \in [Byte -> Nat] /\ expect \in [Byte -> Nat] /\ tmp \in Nat
    /\ pc \in 1..Len(Program) + 1 /\ step \in Nat
    /\ cached \in SUBSET {n \in DOMAIN Program : Program[n].op = "fetch"}
    /\ phase \in {"idle", "next", "loop", "lookup", "unmapped", "plain", "permission", "prot",
                  "go", "stored", "after", "check"}
    /\ frame \in Frame /\ hook \in Nat \ {0}
    /\ stop_request \in BOOLEAN /\ exit_request \in BOOLEAN /\ size_recur_mem \in BOOLEAN
    /\ runs \in Nat

\* The call of the helper under way is for a byte of the instruction's access: its
\* first byte, or the byte that the recursion has got to.
Shape ==
    /\ phase \in {"next", "idle"} => step = 1
    /\ InAccess =>
        /\ pc \in DOMAIN Program /\ step \in DOMAIN Kinds(Insn.op)
        /\ frame.at \in Bytes(Insn)
        /\ frame.sub = 0 => frame.at = Insn.addr
        /\ frame.sub # 0 =>
              /\ Split(Insn) /\ kind # "fetch" /\ frame.sub <= Parts /\ size_recur_mem
              /\ kind = "store" => frame.at = Insn.addr + frame.sub - 1
              /\ kind = "load" /\ frame.sub = 1 => frame.at = Insn.addr
        /\ phase = "stored" => kind = "store"
        /\ phase = "after" => kind = "load" /\ frame.sub = 0
        /\ phase = "check" => frame.sub = 0
        /\ phase = "plain" => kind # "fetch" /\ frame.sub = 0 /\ (kind = "load" => frame.mr)

\* An error is one that an access of the instruction meets, and it makes the
\* emulation stop there.
Explains(e) ==
    /\ pc <= Len(Program)
    /\ \/ e = "MAP"
       \/ \E n \in DOMAIN Kinds(Insn.op) :
              LET k == Kinds(Insn.op)[n] IN e \in {UnmappedError(k), ProtError(k)}

Errors ==
    /\ phase \in {"idle", "next"} => invalid_error = NoError
    /\ phase = "next" => ~exit_request /\ ~stop_request
    /\ phase # "idle" /\ stop_request => exit_request
    /\ invalid_error # NoError => exit_request /\ Explains(invalid_error)
    /\ phase = "idle" /\ ret # NoError => Explains(ret)
    /\ phase = "idle" /\ runs > 0 /\ ret = NoError => stop_request \/ pc > Len(Program)

\* size_recur_mem is set within the calls of a split access and nowhere else.
Recursion ==
    /\ phase = "next" => ~size_recur_mem
    /\ \A n \in DOMAIN Program : Program[n].op = "load" /\ Split(Program[n])
           => PageOf(Program[n].addr + Program[n].size - 1) \in present
    /\ InAccess =>
        /\ size_recur_mem => frame.sub # 0
        /\ ~frame.old
        /\ frame.sub # 0 => {PageOf(Insn.addr), PageOf(Insn.addr + Insn.size - 1)} \subseteq present
        /\ phase \notin {"lookup", "check"} => P \in present

\* The hooks called so far for the access.
Calls(n) == {i \in DOMAIN Hooks[Upper(kind)] :
                 i < n /\ PageOf(Insn.addr) \in Hooks[Upper(kind)][i]}

AllCalls == Calls(Len(Hooks[Upper(kind)]) + 1)

\* No hook has been called yet.
Early == frame.sub = 0 /\ (phase = "lookup" \/ (phase = "unmapped" /\ kind = "load"))

Seen ==
    InAccess /\ kind # "fetch" /\ ~exit_request =>
        /\ Early => seen = {}
        /\ phase = "plain" => seen = Calls(hook)
        /\ ~Early /\ phase # "plain" => seen = AllCalls

-----------------------------------------------------------------------------
(* Instructions and frames *)

\* An instruction's fields, and the bytes of its access.
LEMMA InsnProps ==
    ASSUME NEW n \in DOMAIN Program
    PROVE  LET i == Program[n] IN
           /\ i \in [op : {"load", "store", "fetch", "inc"}, addr : Nat, size : Nat \ {0}, val : Nat]
           /\ i.op \in {"load", "store", "fetch", "inc"}
           /\ i.addr \in Nat /\ i.size \in Nat /\ i.size >= 1 /\ i.val \in Nat
           /\ i.addr \in Bytes(i) /\ i.addr + i.size - 1 \in Bytes(i)
           /\ Bytes(i) \subseteq Byte /\ Byte \subseteq Nat
           /\ i.op = "inc" => i.size = 1 /\ ~Split(i) /\ Bytes(i) = {i.addr}
<1> DEFINE i == Program[n]
<1>1. /\ i \in [op : {"load", "store", "fetch", "inc"}, addr : Nat, size : Nat \ {0}, val : Nat]
      /\ Bytes(i) \subseteq Byte /\ (i.op = "inc" => i.size = 1)
  <2> DEFINE R == [op : {"load", "store", "fetch", "inc"}, addr : Nat, size : Nat \ {0}, val : Nat]
  <2>1. Program \in Seq(R)
    BY ProgramAssumption
  <2> HIDE DEF R
  <2>2. i \in R
    BY <2>1
  <2> USE DEF R
  <2>3. Bytes(i) \subseteq Byte /\ (i.op = "inc" => i.size = 1)
    BY ProgramAssumption, Zenon
  <2> QED BY <2>2, <2>3
<1> HIDE DEF i
<1>2. i.addr \in Nat /\ i.size \in Nat /\ i.size >= 1 /\ i.val \in Nat
      /\ i.op \in {"load", "store", "fetch", "inc"}
  BY <1>1
<1>3. i.addr \in Bytes(i) /\ i.addr + i.size - 1 \in Bytes(i)
  BY <1>2 DEF Bytes
<1>4. i.size = 1 => i.addr + i.size - 1 = i.addr /\ Bytes(i) = {i.addr}
  BY <1>2 DEF Bytes
<1>5. Byte \subseteq Nat
  BY DEF Byte
<1> QED BY <1>1, <1>2, <1>3, <1>4, <1>5 DEF Split, i

\* The kinds of access an instruction makes.
LEMMA KindProps ==
    ASSUME pc \in DOMAIN Program, step \in DOMAIN Kinds(Insn.op)
    PROVE  /\ kind \in {"load", "store", "fetch"}
           /\ \/ Insn.op = kind /\ step = 1 /\ Len(Kinds(Insn.op)) = 1
              \/ Insn.op = "inc" /\ kind = "load" /\ step = 1 /\ Len(Kinds(Insn.op)) = 2
              \/ Insn.op = "inc" /\ kind = "store" /\ step = 2 /\ Len(Kinds(Insn.op)) = 2
           /\ DOMAIN Kinds(Insn.op) = 1..Len(Kinds(Insn.op))
<1>1. Insn.op \in {"load", "store", "fetch", "inc"}
  BY InsnProps DEF Insn
<1>2. CASE Insn.op = "inc"
  BY <1>2 DEF kind, Kinds
<1>3. CASE Insn.op # "inc"
  BY <1>1, <1>3 DEF kind, Kinds
<1> QED BY <1>2, <1>3

\* A TLB fill changes what the copy of the TLB word says, nothing else.
LEMMA FilledProps ==
    ASSUME NEW f \in Frame
    PROVE  /\ Filled(f) \in Frame
           /\ Filled(f).hit <=> PageOf(f.at) \in mapped
           /\ Filled(f).discard <=> "w" \notin perms[PageOf(f.at)]
           /\ ~Filled(f).flushed
           /\ Filled(f).at = f.at /\ Filled(f).sub = f.sub /\ Filled(f).mr = f.mr
           /\ Filled(f).freed = f.freed /\ Filled(f).old = f.old /\ Filled(f).handled = f.handled
<1> DEFINE h == PageOf(f.at) \in mapped
           d == "w" \notin perms[PageOf(f.at)]
<1>1. h \in BOOLEAN /\ d \in BOOLEAN
  OBVIOUS
<1>2. Filled(f) = [f EXCEPT !.hit = h, !.discard = d, !.flushed = FALSE]
  BY DEF Filled
<1> HIDE DEF h, d
<1>3. Filled(f) \in Frame
  BY <1>1, <1>2, Zenon DEF Frame
<1>4. Filled(f).hit = h /\ Filled(f).discard = d /\ Filled(f).flushed = FALSE
  BY <1>2 DEF Frame
<1>5. /\ Filled(f).at = f.at /\ Filled(f).sub = f.sub /\ Filled(f).mr = f.mr
      /\ Filled(f).freed = f.freed /\ Filled(f).old = f.old /\ Filled(f).handled = f.handled
  BY <1>2 DEF Frame
<1> QED BY <1>3, <1>4, <1>5, Zenon DEF h, d

\* What a call of the helper begins with.
LEMMA CallProps ==
    ASSUME NEW f \in Frame, NEW n \in Nat \ {0}, pc \in DOMAIN Program
    PROVE  LET c == CallFor(n, f) IN
           /\ c \in Frame /\ c.sub = n /\ c.old = f.old /\ ~c.mr /\ ~c.hit /\ ~c.flushed /\ ~c.freed
           /\ c.at = IF kind = "store" \/ n = 1 THEN Insn.addr + n - 1 ELSE Insn.addr + Insn.size - 1
<1>1. Insn.addr \in Nat /\ Insn.size \in Nat /\ Insn.size >= 1
  BY InsnProps DEF Insn
<1> DEFINE a == IF kind = "store" \/ n = 1 THEN Insn.addr + n - 1 ELSE Insn.addr + Insn.size - 1
<1>2. a \in Nat
  BY <1>1
<1> HIDE DEF a
<1> QED BY <1>2, Zenon DEF CallFor, NoFrame, Frame, a

\* A fresh record of locals: no region, no recursion, nothing freed.
LEMMA NoFrameProps ==
    /\ NoFrame \in Frame /\ NoFrame.sub = 0 /\ ~NoFrame.mr /\ ~NoFrame.freed /\ ~NoFrame.old
    /\ \A a \in Nat : LET f == [NoFrame EXCEPT !.at = a]
                      IN  f \in Frame /\ f.at = a /\ f.sub = 0 /\ ~f.mr /\ ~f.freed /\ ~f.old
BY Zenon DEF NoFrame, Frame

\* The page of a byte of the access.
LEMMA PageProps ==
    ASSUME pc \in DOMAIN Program, frame.at \in Bytes(Insn)
    PROVE  P \in Page /\ P \in AccessPages /\ frame.at \in Byte
           /\ P \in {PageOf(Insn.addr), PageOf(Insn.addr + Insn.size - 1)}
<1>1. frame.at \in Byte
  BY InsnProps DEF Insn
<1>2. PageOf(frame.at) \in Page
  BY <1>1, MapAssumption
<1>3. PageOf(frame.at) \in {PageOf(Insn.addr), PageOf(Insn.addr + Insn.size - 1)}
  BY ProgramAssumption DEF Insn
<1> QED BY <1>1, <1>2, <1>3 DEF P, AccessPages

-----------------------------------------------------------------------------
(* Callbacks *)

\* What a call that a callback makes may change: f is the helper's frame before.
CallEffect(f) ==
    /\ frame' \in Frame
    /\ frame'.at = f.at /\ frame'.sub = f.sub /\ frame'.mr = f.mr /\ frame'.hit = f.hit
    /\ frame'.discard = f.discard /\ frame'.old = f.old /\ frame'.handled = f.handled
    /\ frame'.flushed => f.flushed \/ MayFlush
    /\ frame'.freed => f.freed \/ "kept" \notin Rules \/ P \notin AccessPages
    /\ mapped' \in SUBSET Page /\ perms' \in [Page -> SUBSET Perm]
    /\ "kept" \in Rules => mapped \cap AccessPages \subseteq mapped'
    /\ ~MayFlush => mapped' = mapped /\ \A p \in Page : "w" \in perms'[p] <=> "w" \in perms[p]
    /\ \E Z \in SUBSET Page :
          /\ mem' = [b \in Byte |-> IF PageOf(b) \in Z THEN 0 ELSE mem[b]]
          /\ expect' = [b \in Byte |-> IF PageOf(b) \in Z THEN 0 ELSE expect[b]]
          /\ "kept" \in Rules => Z \cap mapped \cap AccessPages = {}
    /\ \/ UNCHANGED <<stop_request, exit_request>>
       \/ /\ stop_request' = TRUE /\ exit_request' = TRUE
          /\ "nostop" \in Rules => ~(Insn.op = "inc" /\ step = 2)
    /\ cached' \subseteq cached

\* The flags of a frame after a call that flushes the TLB or unmaps the region.
LEMMA FrameFlags ==
    ASSUME NEW f \in Frame, NEW g \in BOOLEAN
    PROVE  LET k == [Flushed(f) EXCEPT !.freed = g] IN
           /\ Flushed(f) \in Frame
           /\ Flushed(f).at = f.at /\ Flushed(f).sub = f.sub /\ Flushed(f).mr = f.mr
           /\ Flushed(f).hit = f.hit /\ Flushed(f).discard = f.discard
           /\ Flushed(f).old = f.old /\ Flushed(f).handled = f.handled /\ Flushed(f).freed = f.freed
           /\ k \in Frame /\ k.at = f.at /\ k.sub = f.sub /\ k.mr = f.mr /\ k.hit = f.hit
           /\ k.discard = f.discard /\ k.old = f.old /\ k.handled = f.handled /\ k.freed = g
<1>1. /\ Flushed(f) \in Frame
      /\ Flushed(f).at = f.at /\ Flushed(f).sub = f.sub /\ Flushed(f).mr = f.mr
      /\ Flushed(f).hit = f.hit /\ Flushed(f).discard = f.discard
      /\ Flushed(f).old = f.old /\ Flushed(f).handled = f.handled /\ Flushed(f).freed = f.freed
  BY Zenon DEF Flushed, Frame
<1> DEFINE h == Flushed(f)
           k == [h EXCEPT !.freed = g]
<1>2. h \in Frame
  BY <1>1
<1> HIDE DEF h
<1>3. /\ k \in Frame /\ k.at = h.at /\ k.sub = h.sub /\ k.mr = h.mr /\ k.hit = h.hit
      /\ k.discard = h.discard /\ k.old = h.old /\ k.handled = h.handled /\ k.freed = g
  BY <1>2 DEF Frame
<1> QED BY <1>1, <1>3 DEF h

\* uc_mem_map, uc_mem_unmap, uc_mem_protect and uc_emu_stop from a callback.
LEMMA CallEffects ==
    ASSUME TypeOK, NEW f \in Frame,
           \/ \E p \in Page : uc_mem_map(p, f) \/ uc_mem_unmap(p, f) \/ uc_mem_protect(p, f)
           \/ uc_emu_stop(f)
           \/ /\ frame' = f
              /\ UNCHANGED <<mapped, perms, mem, cached, expect, stop_request, exit_request>>
    PROVE  CallEffect(f)
<1>0. /\ mem = [b \in Byte |-> IF PageOf(b) \in {} THEN 0 ELSE mem[b]]
      /\ expect = [b \in Byte |-> IF PageOf(b) \in {} THEN 0 ELSE expect[b]]
  BY DEF TypeOK
<1>1. ASSUME NEW p \in Page, uc_mem_map(p, f) PROVE CallEffect(f)
  <2>1. MayFlush /\ p \notin mapped /\ mapped' = mapped \cup {p} /\ cached' = cached
        /\ UNCHANGED <<stop_request, exit_request>> /\ frame' = Flushed(f)
    BY <1>1 DEF uc_mem_map
  <2>2. mapped' \in SUBSET Page /\ mapped \subseteq mapped'
    BY <2>1 DEF TypeOK
  <2>3. perms' \in [Page -> SUBSET Perm]
    <3>1. PICK q \in {{"r", "w", "x"}, {"r"}} : perms' = [perms EXCEPT ![p] = q]
      BY <1>1, Zenon DEF uc_mem_map
    <3>2. q \in SUBSET Perm
      BY DEF Perm
    <3> QED BY <3>1, <3>2 DEF TypeOK
  <2>4. \E Z \in SUBSET Page :
          /\ mem' = [b \in Byte |-> IF PageOf(b) \in Z THEN 0 ELSE mem[b]]
          /\ expect' = [b \in Byte |-> IF PageOf(b) \in Z THEN 0 ELSE expect[b]]
          /\ "kept" \in Rules => Z \cap mapped \cap AccessPages = {}
    <3>1. /\ mem' = [b \in Byte |-> IF PageOf(b) \in {p} THEN 0 ELSE mem[b]]
          /\ expect' = [b \in Byte |-> IF PageOf(b) \in {p} THEN 0 ELSE expect[b]]
      BY <1>1 DEF uc_mem_map
    <3>2. {p} \in SUBSET Page /\ {p} \cap mapped \cap AccessPages = {}
      BY <2>1
    <3> QED BY <3>1, <3>2, Zenon
  <2> QED BY <2>1, <2>2, <2>3, <2>4, FrameFlags, Zenon DEF CallEffect
<1>2. ASSUME NEW p \in Page, uc_mem_unmap(p, f) PROVE CallEffect(f)
  <2>1. MayFlush /\ p \in mapped /\ mapped' = mapped \ {p} /\ cached' \subseteq cached
        /\ UNCHANGED <<stop_request, exit_request>>
        /\ ("kept" \in Rules => p \notin AccessPages)
        /\ perms' = [perms EXCEPT ![p] = {}]
    BY <1>2 DEF uc_mem_unmap
  <2>2. mapped' \in SUBSET Page /\ ("kept" \in Rules => mapped \cap AccessPages \subseteq mapped')
    BY <2>1 DEF TypeOK
  <2>3. perms' \in [Page -> SUBSET Perm]
    BY <2>1 DEF TypeOK
  <2>4. \E Z \in SUBSET Page :
          /\ mem' = [b \in Byte |-> IF PageOf(b) \in Z THEN 0 ELSE mem[b]]
          /\ expect' = [b \in Byte |-> IF PageOf(b) \in Z THEN 0 ELSE expect[b]]
          /\ "kept" \in Rules => Z \cap mapped \cap AccessPages = {}
    <3>1. /\ mem' = [b \in Byte |-> IF PageOf(b) \in {p} THEN 0 ELSE mem[b]]
          /\ expect' = [b \in Byte |-> IF PageOf(b) \in {p} THEN 0 ELSE expect[b]]
      BY <1>2 DEF uc_mem_unmap
    <3>2. {p} \in SUBSET Page /\ ("kept" \in Rules => {p} \cap mapped \cap AccessPages = {})
      BY <2>1
    <3> QED BY <3>1, <3>2, Zenon
  <2> DEFINE g == f.freed \/ (f.mr /\ p = P)
  <2>5. frame' = [Flushed(f) EXCEPT !.freed = g] /\ g \in BOOLEAN
    <3>1. frame' = [Flushed(f) EXCEPT !.freed = @ \/ (f.mr /\ p = P)]
      BY <1>2 DEF uc_mem_unmap
    <3>2. Flushed(f).freed = f.freed
      BY FrameFlags, Zenon
    <3> QED BY <3>1, <3>2, Zenon
  <2>6. g => f.freed \/ "kept" \notin Rules \/ P \notin AccessPages
    BY <2>1
  <2> HIDE DEF g
  <2> DEFINE k == [Flushed(f) EXCEPT !.freed = g]
  <2>7. /\ k \in Frame /\ k.at = f.at /\ k.sub = f.sub /\ k.mr = f.mr /\ k.hit = f.hit
        /\ k.discard = f.discard /\ k.old = f.old /\ k.handled = f.handled /\ k.freed = g
    BY <2>5, FrameFlags
  <2>8. frame' = k
    BY <2>5
  <2> HIDE DEF k
  <2> QED BY <2>1, <2>2, <2>3, <2>4, <2>6, <2>7, <2>8 DEF CallEffect
<1>3. ASSUME NEW p \in Page, uc_mem_protect(p, f) PROVE CallEffect(f)
  <2>1. PICK q \in SUBSET Perm :
           /\ (("w" \in q) # ("w" \in perms[p])) => MayFlush
           /\ frame' = IF ("w" \in q) # ("w" \in perms[p]) THEN Flushed(f) ELSE f
           /\ perms' = [perms EXCEPT ![p] = q]
    BY <1>3, Zenon DEF uc_mem_protect
  <2>2. UNCHANGED <<mapped, mem, cached, expect, stop_request, exit_request>>
    BY <1>3 DEF uc_mem_protect
  <2>3. perms' \in [Page -> SUBSET Perm] /\ mapped' \in SUBSET Page
    BY <2>1, <2>2 DEF TypeOK
  <2>4. ~MayFlush => \A r \in Page : "w" \in perms'[r] <=> "w" \in perms[r]
    BY <2>1 DEF TypeOK
  <2>5. /\ frame' \in Frame
        /\ frame'.at = f.at /\ frame'.sub = f.sub /\ frame'.mr = f.mr /\ frame'.hit = f.hit
        /\ frame'.discard = f.discard /\ frame'.old = f.old /\ frame'.handled = f.handled
        /\ frame'.freed = f.freed /\ (frame'.flushed => f.flushed \/ MayFlush)
    <3>1. CASE frame' = f
      BY <3>1, Zenon
    <3>2. CASE frame' = Flushed(f) /\ MayFlush
      BY <3>2, FrameFlags, Zenon
    <3> QED BY <2>1, <3>1, <3>2
  <2>6. {} \in SUBSET Page /\ ("kept" \in Rules => {} \cap mapped \cap AccessPages = {})
    OBVIOUS
  <2>7. \E Z \in SUBSET Page :
          /\ mem' = [b \in Byte |-> IF PageOf(b) \in Z THEN 0 ELSE mem[b]]
          /\ expect' = [b \in Byte |-> IF PageOf(b) \in Z THEN 0 ELSE expect[b]]
          /\ "kept" \in Rules => Z \cap mapped \cap AccessPages = {}
    BY <1>0, <2>2, <2>6, Zenon
  <2> QED BY <2>2, <2>3, <2>4, <2>5, <2>7 DEF CallEffect
<1>4. ASSUME frame' = f, UNCHANGED <<mapped, perms, mem, cached, expect>>,
             \/ UNCHANGED <<stop_request, exit_request>>
             \/ /\ stop_request' = TRUE /\ exit_request' = TRUE
                /\ "nostop" \in Rules => ~(Insn.op = "inc" /\ step = 2)
      PROVE  CallEffect(f)
  <2>1. mapped' \in SUBSET Page /\ perms' \in [Page -> SUBSET Perm] /\ cached' \subseteq cached
    BY <1>4 DEF TypeOK
  <2>2. {} \in SUBSET Page /\ ("kept" \in Rules => {} \cap mapped \cap AccessPages = {})
    OBVIOUS
  <2>3. \E Z \in SUBSET Page :
          /\ mem' = [b \in Byte |-> IF PageOf(b) \in Z THEN 0 ELSE mem[b]]
          /\ expect' = [b \in Byte |-> IF PageOf(b) \in Z THEN 0 ELSE expect[b]]
          /\ "kept" \in Rules => Z \cap mapped \cap AccessPages = {}
    BY <1>0, <1>4, <2>2, Zenon
  <2> QED BY <1>4, <2>1, <2>3 DEF CallEffect
<1>5. ASSUME uc_emu_stop(f) PROVE CallEffect(f)
  BY <1>4, <1>5, Zenon DEF uc_emu_stop
<1> QED BY <1>1, <1>2, <1>3, <1>4, <1>5, Zenon

\* A set of positions has a first one.
LEMMA Least ==
    ASSUME NEW S \in SUBSET Nat, S # {}
    PROVE  \E n \in S : \A m \in S : n <= m
<1> DEFINE R == OpToRel(<, Nat)
<1>1. IsWellFoundedOn(R, Nat)
  BY NatLessThanWellFounded, Zenon
<1>2. \A x, y \in Nat : <<y, x>> \notin R => x <= y
  BY DEF OpToRel
<1> HIDE DEF R
<1>3. PICK x \in S : \A y \in S : <<y, x>> \notin R
  BY <1>1, WFMin, Zenon
<1> QED BY <1>2, <1>3, Zenon

\* The list that is walked is a list of hooks.
LEMMA ListProps ==
    ASSUME Shape, Walking
    PROVE  /\ List \in Seq(SUBSET Page) /\ Len(List) \in Nat /\ DOMAIN List = 1..Len(List)
           /\ phase = "plain" => List = Hooks[Upper(kind)]
<1>1. kind \in {"load", "store", "fetch"} /\ (phase = "plain" => kind # "fetch")
  BY KindProps DEF Shape, Walking, InAccess
<1>2. /\ UnmappedError(kind) \in {"READ_UNMAPPED", "WRITE_UNMAPPED", "FETCH_UNMAPPED"}
      /\ ProtError(kind) \in {"READ_PROT", "WRITE_PROT", "FETCH_PROT"}
  BY <1>1 DEF UnmappedError, ProtError
<1>3. phase = "plain" => List = Hooks[Upper(kind)]
  BY DEF List
<1>4. kind # "fetch" => Upper(kind) \in {"READ", "WRITE"}
  BY <1>1 DEF Upper
<1>5. \E t \in DOMAIN Hooks : List = Hooks[t]
  BY <1>1, <1>2, <1>4, HooksAssumption DEF List, Walking
<1>6. List \in Seq(SUBSET Page)
  BY <1>5, HooksAssumption
<1> HIDE DEF List
<1> QED BY <1>3, <1>6

\* A callback of a hook list, with everything it may do.
LEMMA CallbackProps ==
    ASSUME TypeOK, Shape, Callback
    PROVE  /\ InAccess /\ Walking
           /\ UNCHANGED <<present, pc, step, phase, tmp, invalid_error, size_recur_mem, ret, runs, excused>>
           /\ hook' \in Nat \ {0}
           /\ \E h \in Answers, i \in Covering(hook) :
                 /\ CallEffect([frame EXCEPT !.handled = h])
                 /\ \A k \in Covering(hook) : i <= k
                 /\ hook' = IF h \/ stop_request' THEN Len(List) + 1 ELSE i + 1
                 /\ seen' = IF phase = "plain" THEN seen \cup {i} ELSE seen
<1>1. InAccess /\ Walking /\ Covering(hook) # {}
  BY DEF Callback, Walking, InAccess
<1>2. UNCHANGED <<present, pc, step, phase, tmp, invalid_error, size_recur_mem, ret, runs, excused>>
  BY DEF Callback
<1> DEFINE i == CHOOSE j \in Covering(hook) : \A k \in Covering(hook) : j <= k
<1>3. Len(List) \in Nat /\ Covering(hook) \in SUBSET (1..Len(List)) /\ hook \in Nat \ {0}
  <2>1. Len(List) \in Nat /\ hook \in Nat \ {0}
    BY <1>1, ListProps DEF TypeOK
  <2>2. hook..Len(List) \subseteq 1..Len(List)
    BY <2>1
  <2> QED BY <2>1, <2>2 DEF Covering
<1>4. i \in Covering(hook) /\ \A k \in Covering(hook) : i <= k
  <2>1. Covering(hook) \in SUBSET Nat
    BY <1>3
  <2>2. \E j \in Covering(hook) : \A k \in Covering(hook) : j <= k
    BY <1>1, <2>1, Least
  <2> QED BY <2>2, Zenon
<1>5. PICK h \in Answers :
         LET f == [frame EXCEPT !.handled = h] IN
         /\ \/ \E p \in Page : uc_mem_map(p, f) \/ uc_mem_unmap(p, f) \/ uc_mem_protect(p, f)
            \/ uc_emu_stop(f)
            \/ /\ frame' = f
               /\ UNCHANGED <<mapped, perms, mem, cached, expect, stop_request, exit_request>>
         /\ hook' = IF h \/ stop_request' THEN Len(List) + 1 ELSE i + 1
  BY Zenon DEF Callback
<1>6. seen' = IF phase = "plain" THEN seen \cup {i} ELSE seen
  BY Zenon DEF Callback
<1> DEFINE f == [frame EXCEPT !.handled = h]
<1>7. f \in Frame
  <2>1. h \in BOOLEAN /\ frame \in Frame
    BY Zenon DEF Answers, TypeOK
  <2> QED BY <2>1 DEF Frame
<1> HIDE DEF f, i
<1>8. CallEffect(f)
  BY <1>5, <1>7, CallEffects, Zenon DEF f
<1>9. hook' \in Nat \ {0}
  <2>1. i \in 1..Len(List) /\ hook' \in {Len(List) + 1, i + 1}
    BY <1>3, <1>4, <1>5 DEF f
  <2> QED BY <1>3, <2>1
<1>10. hook' = IF h \/ stop_request' THEN Len(List) + 1 ELSE i + 1
  BY <1>5
<1> QED BY <1>1, <1>2, <1>4, <1>6, <1>8, <1>9, <1>10, Zenon DEF f

\* In terms of the frame the callback was called with.
LEMMA CallbackFrame ==
    ASSUME TypeOK, Shape, Callback
    PROVE  /\ frame' \in Frame
           /\ frame'.at = frame.at /\ frame'.sub = frame.sub /\ frame'.mr = frame.mr
           /\ frame'.hit = frame.hit /\ frame'.discard = frame.discard /\ frame'.old = frame.old
           /\ frame'.flushed => frame.flushed \/ MayFlush
           /\ frame'.freed => frame.freed \/ "kept" \notin Rules
<1>1. PICK h \in Answers : CallEffect([frame EXCEPT !.handled = h])
  BY CallbackProps
<1>2. h \in BOOLEAN /\ frame \in Frame
  BY Zenon DEF Answers, TypeOK
<1> DEFINE f == [frame EXCEPT !.handled = h]
<1>3. /\ f \in Frame /\ f.at = frame.at /\ f.sub = frame.sub /\ f.mr = frame.mr
      /\ f.hit = frame.hit /\ f.discard = frame.discard /\ f.old = frame.old
      /\ f.flushed = frame.flushed /\ f.freed = frame.freed
  BY <1>2 DEF Frame
<1>4. P \in AccessPages
  BY CallbackProps, PageProps DEF Shape
<1> HIDE DEF f
<1> QED BY <1>1, <1>3, <1>4 DEF CallEffect, f

-----------------------------------------------------------------------------
(* The steps of the helpers, in terms of the fields of the frame *)

\* Where a call of the helper goes on.
LEMMA RegionPhase ==
    ASSUME NEW f \in Frame, NEW k
    PROVE  WithRegion(k, f) = IF ~f.mr THEN "unmapped"
                              ELSE IF k # "load" THEN "permission"
                              ELSE IF size_recur_mem THEN "go" ELSE "plain"
<1>1. f.mr \in BOOLEAN
  BY DEF Frame
<1> QED BY <1>1 DEF WithRegion

\* The lookup takes the region that is mapped now and the TLB word for it.
LEMMA LookupProps ==
    ASSUME TypeOK, Lookup
    PROVE  /\ phase = "lookup" /\ P \in present
           /\ frame' \in Frame /\ frame'.at = frame.at /\ frame'.sub = frame.sub
           /\ frame'.old = frame.old /\ ~frame'.flushed /\ ~frame'.freed
           /\ frame'.mr <=> P \in mapped
           /\ frame'.hit <=> P \in mapped
           /\ frame'.discard <=> "w" \notin perms[P]
           /\ phase' = IF kind = "store" /\ ~size_recur_mem THEN "plain"
                       ELSE IF ~frame'.mr THEN "unmapped"
                       ELSE IF kind # "load" THEN "permission"
                       ELSE IF size_recur_mem THEN "go" ELSE "plain"
           /\ hook' = 1
           /\ UNCHANGED <<mapped, perms, present, mem, pc, step, cached, tmp, invalid_error,
                          stop_request, exit_request, size_recur_mem, ret, runs, seen, excused, expect>>
<1> DEFINE m == P \in mapped
           g == Filled(frame)
<1>1. /\ g \in Frame /\ (g.hit <=> P \in mapped) /\ (g.discard <=> "w" \notin perms[P]) /\ ~g.flushed
      /\ g.at = frame.at /\ g.sub = frame.sub /\ g.old = frame.old
  BY FilledProps DEF TypeOK, P
<1>2. frame' = [g EXCEPT !.mr = m, !.freed = FALSE, !.handled = FALSE] /\ m \in BOOLEAN
  BY DEF Lookup
<1> HIDE DEF g, m
<1>3. /\ frame' \in Frame /\ frame'.mr = m /\ frame'.freed = FALSE
      /\ frame'.hit = g.hit /\ frame'.discard = g.discard /\ frame'.flushed = g.flushed
      /\ frame'.at = g.at /\ frame'.sub = g.sub /\ frame'.old = g.old
  BY <1>1, <1>2, Zenon DEF Frame
<1>4. phase' = AfterLookup(kind, frame') /\ phase = "lookup" /\ P \in present /\ hook' = 1
  BY DEF Lookup
<1>5. phase' = IF kind = "store" /\ ~size_recur_mem THEN "plain"
               ELSE IF ~frame'.mr THEN "unmapped"
               ELSE IF kind # "load" THEN "permission"
               ELSE IF size_recur_mem THEN "go" ELSE "plain"
  BY <1>3, <1>4, RegionPhase DEF AfterLookup
<1>6. UNCHANGED <<mapped, perms, present, mem, pc, step, cached, tmp, invalid_error,
                  stop_request, exit_request, size_recur_mem, ret, runs, seen, excused, expect>>
  BY DEF Lookup, world, where, engine, calls, ghost
<1> QED BY <1>1, <1>3, <1>4, <1>5, <1>6, Zenon DEF m

\* A failed access.
LEMMA FailProps ==
    ASSUME NEW e, Fail(e)
    PROVE  /\ invalid_error' = e /\ exit_request' = TRUE /\ hook' = 1
           /\ phase' = IF kind = "store" THEN "stored" ELSE "loop"
           /\ UNCHANGED <<mapped, perms, present, mem, pc, step, cached, tmp,
                          stop_request, size_recur_mem, ret, runs, seen, expect>>
BY DEF Fail, world, where, calls

\* After the UNMAPPED hooks.
UnmappedOutcome ==
    /\ phase = "unmapped" /\ hook' = 1
    /\ UNCHANGED <<mapped, perms, present, mem, pc, step, cached, tmp, stop_request,
                   size_recur_mem, ret, runs, seen, excused, expect>>
    /\ \/ /\ exit_request' = TRUE /\ phase' = IF kind = "store" THEN "stored" ELSE "loop"
          /\ frame' = frame
          /\ \/ invalid_error' = invalid_error /\ invalid_error # NoError
             \/ invalid_error' \in {UnmappedError(kind), "MAP"}
       \/ /\ P \in mapped /\ invalid_error' = NoError /\ exit_request' = exit_request
          /\ frame' \in Frame /\ frame'.mr
          /\ frame'.at = frame.at /\ frame'.sub = frame.sub /\ frame'.old = frame.old
          /\ frame'.freed = frame.freed
          /\ ~frame.hit => /\ frame'.hit /\ ~frame'.flushed
                           /\ frame'.discard <=> "w" \notin perms[P]
          /\ phase' = IF kind # "load" THEN "permission"
                      ELSE IF size_recur_mem THEN "go" ELSE "plain"

\* The UNMAPPED hooks end a helper call with an error, or it goes on with the page mapped.
LEMMA UnmappedProps ==
    ASSUME TypeOK, AfterUnmapped
    PROVE  UnmappedOutcome
<1>1. phase = "unmapped"
  BY DEF AfterUnmapped
<1>2. ASSUME ~frame.handled, Fail(IF Skipped THEN invalid_error ELSE UnmappedError(kind)),
             UNCHANGED <<frame, excused>>
      PROVE  UnmappedOutcome
  <2> DEFINE e == IF Skipped THEN invalid_error ELSE UnmappedError(kind)
  <2>1. (e = invalid_error /\ invalid_error # NoError) \/ e = UnmappedError(kind)
    BY DEF Skipped
  <2>2. Fail(e)
    BY <1>2
  <2> HIDE DEF e
  <2> QED BY <1>1, <1>2, <2>1, <2>2, FailProps, Zenon DEF UnmappedOutcome
<1>3. ASSUME Fail("MAP"), UNCHANGED <<frame, excused>>
      PROVE  UnmappedOutcome
  BY <1>1, <1>3, FailProps, Zenon DEF UnmappedOutcome
<1>4. ASSUME P \in mapped, invalid_error' = NoError,
             frame' = [(IF frame.hit THEN frame ELSE Filled(frame)) EXCEPT !.mr = TRUE],
             phase' = WithRegion(kind, frame'), hook' = 1,
             UNCHANGED <<world, where, tmp, stop_request, exit_request, size_recur_mem, calls, ghost>>
      PROVE  UnmappedOutcome
  <2> DEFINE g == IF frame.hit THEN frame ELSE Filled(frame)
  <2>1. /\ g \in Frame /\ g.at = frame.at /\ g.sub = frame.sub /\ g.old = frame.old
        /\ g.freed = frame.freed
        /\ ~frame.hit => g.hit /\ ~g.flushed /\ (g.discard <=> "w" \notin perms[P])
    <3>1. frame \in Frame
      BY DEF TypeOK
    <3>2. CASE frame.hit
      BY <3>1, <3>2
    <3>3. CASE ~frame.hit
      BY <1>4, <3>1, <3>3, FilledProps DEF P
    <3> QED BY <3>2, <3>3
  <2>2. frame' = [g EXCEPT !.mr = TRUE]
    BY <1>4
  <2> HIDE DEF g
  <2>3. /\ frame' \in Frame /\ frame'.mr = TRUE /\ frame'.hit = g.hit /\ frame'.discard = g.discard
        /\ frame'.flushed = g.flushed /\ frame'.freed = g.freed
        /\ frame'.at = g.at /\ frame'.sub = g.sub /\ frame'.old = g.old
    <3>1. g \in Frame
      BY <2>1
    <3> QED BY <2>2, <3>1, Zenon DEF Frame
  <2>4. phase' = IF kind # "load" THEN "permission" ELSE IF size_recur_mem THEN "go" ELSE "plain"
    <3>1. phase' = WithRegion(kind, frame') /\ frame' \in Frame /\ frame'.mr
      BY <1>4, <2>3
    <3> QED BY <3>1, RegionPhase, Zenon
  <2>5. UNCHANGED <<mapped, perms, present, mem, pc, step, cached, tmp, stop_request, exit_request,
                    size_recur_mem, ret, runs, seen, excused, expect>>
    BY <1>4 DEF world, where, calls, ghost
  <2> QED BY <1>1, <1>4, <2>1, <2>3, <2>4, <2>5 DEF UnmappedOutcome
<1> QED BY <1>2, <1>3, <1>4, Zenon DEF AfterUnmapped

\* After the READ or WRITE hooks.
LEMMA PlainProps ==
    ASSUME TypeOK, AfterPlain
    PROVE  /\ phase = "plain" /\ phase' = (IF frame.mr THEN "permission" ELSE "unmapped") /\ hook' = 1
           /\ Covering(hook) = {}
           /\ UNCHANGED <<mapped, perms, present, mem, pc, step, cached, tmp, invalid_error,
                          stop_request, exit_request, size_recur_mem, ret, runs, seen, excused, expect>>
           /\ frame' \in Frame /\ frame'.at = frame.at /\ frame'.sub = frame.sub
           /\ frame'.old = frame.old /\ frame'.freed = frame.freed /\ frame'.mr = frame.mr
           /\ \/ frame' = frame /\ ~(kind = "load" /\ frame.flushed)
              \/ /\ kind = "load" /\ ~frame'.flushed /\ (frame'.hit <=> P \in mapped)
                 /\ frame'.discard <=> "w" \notin perms[P]
<1>1. /\ phase = "plain" /\ phase' = (IF frame.mr THEN "permission" ELSE "unmapped") /\ hook' = 1
      /\ Covering(hook) = {}
      /\ UNCHANGED <<mapped, perms, present, mem, pc, step, cached, tmp, invalid_error,
                     stop_request, exit_request, size_recur_mem, ret, runs, seen, excused, expect>>
  BY DEF AfterPlain, Walked, Skipped, world, where, engine, calls, ghost
<1>2. frame \in Frame /\ frame' = IF kind = "load" /\ frame.flushed THEN Filled(frame) ELSE frame
  BY DEF AfterPlain, TypeOK
<1>3. CASE kind = "load" /\ frame.flushed
  BY <1>1, <1>2, <1>3, FilledProps DEF P
<1>4. CASE ~(kind = "load" /\ frame.flushed)
  BY <1>1, <1>2, <1>4
<1> QED BY <1>3, <1>4

\* The permission check.
LEMMA PermissionProps ==
    ASSUME TypeOK, Permission
    PROVE  /\ phase = "permission" /\ hook' = 1
           /\ phase' = (IF Need(kind) \in perms[P] THEN "go" ELSE "prot")
           /\ UNCHANGED <<mapped, perms, present, mem, pc, step, cached, tmp, invalid_error,
                          stop_request, exit_request, size_recur_mem, ret, runs, seen, excused, expect>>
           /\ frame' \in Frame /\ frame'.at = frame.at /\ frame'.sub = frame.sub
           /\ frame'.old = frame.old /\ frame'.freed = frame.freed /\ frame'.mr = frame.mr
           /\ frame'.hit = frame.hit /\ frame'.flushed = frame.flushed /\ frame'.discard = frame.discard
<1>1. frame \in Frame /\ frame' = [frame EXCEPT !.handled = FALSE]
  BY DEF Permission, TypeOK
<1>2. /\ frame' \in Frame /\ frame'.at = frame.at /\ frame'.sub = frame.sub
      /\ frame'.old = frame.old /\ frame'.freed = frame.freed /\ frame'.mr = frame.mr
      /\ frame'.hit = frame.hit /\ frame'.flushed = frame.flushed /\ frame'.discard = frame.discard
  BY <1>1, Zenon DEF Frame
<1> QED BY <1>2 DEF Permission, world, where, engine, calls, ghost

\* After the PROT hooks.
ProtOutcome ==
    /\ phase = "prot" /\ hook' = 1
    /\ UNCHANGED <<mapped, perms, present, mem, pc, step, cached, tmp, stop_request,
                   size_recur_mem, ret, runs, seen, expect>>
    /\ \/ /\ exit_request' = TRUE /\ phase' = IF kind = "store" THEN "stored" ELSE "loop"
          /\ frame' = frame /\ invalid_error' = ProtError(kind) /\ excused' = excused
       \/ /\ phase' = "go" /\ invalid_error' = NoError /\ exit_request' = exit_request
          /\ excused' = excused \cup {P}
          /\ frame' \in Frame /\ frame'.at = frame.at /\ frame'.sub = frame.sub
          /\ frame'.old = frame.old /\ frame'.freed = frame.freed /\ frame'.mr = frame.mr
          /\ frame.hit => frame' = frame

\* The PROT hooks end a helper call with an error, or let it through.
LEMMA ProtProps ==
    ASSUME TypeOK, AfterProt
    PROVE  ProtOutcome
<1>1. phase = "prot"
  BY DEF AfterProt
<1>2. ASSUME Fail(ProtError(kind)), UNCHANGED <<frame, excused>> PROVE ProtOutcome
  BY <1>1, <1>2, FailProps, Zenon DEF ProtOutcome
<1>3. ASSUME frame.handled, AfterProt PROVE ProtOutcome
  <2>1. frame \in Frame /\ frame' = IF frame.hit THEN frame ELSE Filled(frame)
    BY <1>3 DEF AfterProt, TypeOK
  <2>2. /\ frame' \in Frame /\ frame'.at = frame.at /\ frame'.sub = frame.sub
        /\ frame'.old = frame.old /\ frame'.freed = frame.freed /\ frame'.mr = frame.mr
        /\ frame.hit => frame' = frame
    BY <2>1, FilledProps
  <2> QED BY <1>1, <1>3, <2>2 DEF AfterProt, ProtOutcome, world, where, calls
<1> QED BY <1>2, <1>3 DEF AfterProt

\* A step that stays at an access stays at its instruction.
LEMMA SameInsn ==
    ASSUME pc' = pc, step' = step
    PROVE  Insn' = Insn /\ kind' = kind /\ Parts' = Parts /\ AccessPages' = AccessPages
BY Zenon DEF Insn, kind, Parts, AccessPages

\* The calls that a split access is made of are each for one of its bytes.
LEMMA CallShape ==
    ASSUME pc \in DOMAIN Program, kind \in {"load", "store"},
           NEW f \in Frame, NEW n \in 1..Parts
    PROVE  LET c == CallFor(n, f) IN
           /\ c \in Frame /\ c.sub = n /\ c.sub # 0 /\ c.sub <= Parts /\ c.old = f.old
           /\ ~c.mr /\ ~c.freed /\ ~c.flushed
           /\ c.at \in Bytes(Insn)
           /\ kind = "store" => c.at = Insn.addr + c.sub - 1
           /\ kind = "load" /\ c.sub = 1 => c.at = Insn.addr
<1> DEFINE c == CallFor(n, f)
<1>1. Insn.addr \in Nat /\ Insn.size \in Nat /\ Insn.size >= 1
  BY InsnProps DEF Insn
<1>2. n \in Nat \ {0} /\ n <= Parts /\ Parts \in Nat
  BY <1>1 DEF Parts
<1>3. /\ c \in Frame /\ c.sub = n /\ c.old = f.old /\ ~c.mr /\ ~c.freed /\ ~c.flushed
      /\ c.at = IF kind = "store" \/ n = 1 THEN Insn.addr + n - 1 ELSE Insn.addr + Insn.size - 1
  BY <1>2, CallProps
<1> HIDE DEF c
<1>4. CASE kind = "store"
  <2>1. c.at = Insn.addr + n - 1 /\ n <= Insn.size
    BY <1>2, <1>3, <1>4 DEF Parts
  <2> QED BY <1>1, <1>2, <1>3, <1>4, <2>1 DEF Bytes, c
<1>5. CASE kind = "load"
  <2>1. c.at = IF n = 1 THEN Insn.addr + n - 1 ELSE Insn.addr + Insn.size - 1
    BY <1>3, <1>5
  <2> QED BY <1>1, <1>2, <1>3, <1>5, <2>1 DEF Bytes, c
<1> QED BY <1>4, <1>5

\* One call of the helper is over.
FinishOutcome ==
    \/ /\ frame.sub \in 1..Parts - 1 /\ frame.sub + 1 \in 1..Parts
       /\ frame' = CallFor(frame.sub + 1, frame)
       /\ phase' = "lookup" /\ size_recur_mem' = size_recur_mem
    \/ /\ frame.sub = 0 \/ frame.sub = Parts
       /\ frame' \in Frame /\ frame'.at = Insn.addr /\ frame'.sub = 0 /\ frame'.old = frame.old
       /\ frame'.freed = frame.freed
       /\ size_recur_mem' = IF frame.sub = 0 THEN size_recur_mem ELSE frame.old
       /\ phase' = IF kind = "load" /\ ~size_recur_mem' THEN "after" ELSE "check"

\* A helper call that returns goes on with the next part of the access or ends it.
LEMMA FinishProps ==
    ASSUME TypeOK, Shape, InAccess, Finish
    PROVE  FinishOutcome
<1>1. frame \in Frame /\ frame.sub \in Nat /\ Insn.addr \in Nat /\ Insn.size \in Nat
  <2>1. frame \in Frame /\ pc \in DOMAIN Program
    BY DEF TypeOK, Shape
  <2>2. frame.sub \in Nat
    BY <2>1 DEF Frame
  <2> QED BY <2>1, <2>2, InsnProps DEF Insn
<1>2. Parts \in Nat /\ (frame.sub # 0 => frame.sub <= Parts)
  BY <1>1 DEF Parts, Shape
<1>3. CASE frame.sub \in 1..Parts - 1
  <2>1. frame.sub + 1 \in 1..Parts
    BY <1>1, <1>2, <1>3
  <2> QED BY <1>3, <2>1 DEF Finish, FinishOutcome
<1>4. CASE frame.sub \notin 1..Parts - 1
  <2>1. frame.sub = 0 \/ frame.sub = Parts
    BY <1>1, <1>2, <1>4
  <2>2. frame' = [frame EXCEPT !.at = Insn.addr, !.sub = 0]
    BY <1>4 DEF Finish
  <2>3. /\ frame' \in Frame /\ frame'.at = Insn.addr /\ frame'.sub = 0 /\ frame'.old = frame.old
        /\ frame'.freed = frame.freed
    BY <1>1, <2>2, Zenon DEF Frame
  <2>4. /\ size_recur_mem' = IF frame.sub = 0 THEN size_recur_mem ELSE frame.old
        /\ phase' = IF kind = "load" /\ ~size_recur_mem' THEN "after" ELSE "check"
    BY <1>4 DEF Finish
  <2> QED BY <2>1, <2>3, <2>4 DEF FinishOutcome
<1> QED BY <1>3, <1>4

-----------------------------------------------------------------------------
(* Types and the shape of an access *)

\* The variables of the engine and of the access keep their types.
LEMMA TypeStep ==
    ASSUME TypeOK, Shape, Next
    PROVE  TypeOK'
<1>0. /\ Len(Program) \in Nat /\ DOMAIN Program = 1..Len(Program) /\ pc \in Nat
      /\ (pc <= Len(Program) => pc \in DOMAIN Program)
  <2>1. Len(Program) \in Nat /\ DOMAIN Program = 1..Len(Program)
    BY ProgramAssumption
  <2> QED BY <2>1 DEF TypeOK
<1>1. CASE uc_emu_start
  <2>1. pc' \in 1..Len(Program) + 1 /\ step' \in Nat /\ runs' \in Nat
    BY <1>0, <1>1 DEF uc_emu_start, TypeOK
  <2> QED BY <1>1, <2>1, Zenon DEF uc_emu_start, TypeOK, world, ghost
<1>2. CASE Begin
  <2>1. Insn.addr \in Nat
    BY <1>0, <1>2, InsnProps DEF Begin, Insn
  <2>2. frame' \in Frame
    BY <1>2, <2>1, NoFrameProps DEF Begin
  <2> QED BY <1>2, <2>2 DEF Begin, TypeOK, world, where, engine, calls
<1>3. CASE AtExit
  BY <1>3, NoFrameProps DEF AtExit, Return, TypeOK, world, where
<1>4. CASE Lookup
  <2>1. phase' \in {"plain", "unmapped", "permission", "go"}
    BY <1>4, LookupProps
  <2> QED BY <1>4, <2>1, LookupProps DEF TypeOK
<1>5. CASE GuestFault
  <2>1. present' \in SUBSET Page
    BY <1>5 DEF GuestFault, TypeOK
  <2>2. UNCHANGED <<mapped, perms, mem, pc, cached, hook, tmp, stop_request, exit_request,
                    size_recur_mem, runs, expect>>
        /\ step' = 1 /\ frame' = NoFrame /\ phase' \in {"loop", "next"}
    BY <1>5 DEF GuestFault, engine, calls
  <2> QED BY <2>1, <2>2, NoFrameProps DEF TypeOK
<1>6. CASE Callback
  <2>1. UNCHANGED <<present, pc, step, phase, tmp, size_recur_mem, runs>> /\ hook' \in Nat \ {0}
    BY <1>6, CallbackProps
  <2>2. PICK f : CallEffect(f)
    BY <1>6, CallbackProps, Zenon
  <2>3. mem' \in [Byte -> Nat] /\ expect' \in [Byte -> Nat]
    BY <2>2 DEF CallEffect, TypeOK
  <2>4. /\ mapped' \in SUBSET Page /\ perms' \in [Page -> SUBSET Perm] /\ frame' \in Frame
        /\ cached' \subseteq cached /\ stop_request' \in BOOLEAN /\ exit_request' \in BOOLEAN
    <3>1. stop_request \in BOOLEAN /\ exit_request \in BOOLEAN
      BY DEF TypeOK
    <3> QED BY <2>2, <3>1, Zenon DEF CallEffect
  <2> QED BY <2>1, <2>3, <2>4 DEF TypeOK
<1>7. CASE AfterUnmapped
  <2>1. UnmappedOutcome
    BY <1>7, UnmappedProps
  <2>2. phase' \in {"stored", "loop", "permission", "go", "plain"} /\ frame' \in Frame
        /\ exit_request' \in BOOLEAN
    BY <2>1, Zenon DEF UnmappedOutcome, TypeOK
  <2>3. hook' = 1 /\ UNCHANGED <<mapped, perms, present, mem, pc, step, cached, tmp, stop_request,
                                 size_recur_mem, runs, expect>>
    BY <2>1 DEF UnmappedOutcome
  <2> QED BY <2>2, <2>3 DEF TypeOK
<1>8. CASE AfterPlain
  <2>1. phase' \in {"permission", "unmapped"} /\ frame' \in Frame /\ hook' = 1
        /\ UNCHANGED <<mapped, perms, present, mem, pc, step, cached, tmp, stop_request,
                       exit_request, size_recur_mem, runs, expect>>
    BY <1>8, PlainProps
  <2> QED BY <2>1 DEF TypeOK
<1>9. CASE Permission
  <2>1. phase' \in {"go", "prot"} /\ frame' \in Frame /\ hook' = 1
        /\ UNCHANGED <<mapped, perms, present, mem, pc, step, cached, tmp, stop_request,
                       exit_request, size_recur_mem, runs, expect>>
    BY <1>9, PermissionProps
  <2> QED BY <2>1 DEF TypeOK
<1>10. CASE AfterProt
  <2>1. ProtOutcome
    BY <1>10, ProtProps
  <2>2. phase' \in {"stored", "loop", "go"} /\ frame' \in Frame /\ exit_request' \in BOOLEAN
    BY <2>1, Zenon DEF ProtOutcome, TypeOK
  <2>3. hook' = 1 /\ UNCHANGED <<mapped, perms, present, mem, pc, step, cached, tmp, stop_request,
                                 size_recur_mem, runs, expect>>
    BY <2>1 DEF ProtOutcome
  <2> QED BY <2>2, <2>3 DEF TypeOK
<1>11. CASE BeginSplit
  <2>1. pc \in DOMAIN Program /\ frame \in Frame
    BY <1>11 DEF BeginSplit, Shape, InAccess, TypeOK
  <2> DEFINE g == [frame EXCEPT !.old = size_recur_mem]
  <2>2. g \in Frame
    BY <2>1, Zenon DEF Frame, TypeOK
  <2>3. frame' = CallFor(1, g)
    BY <1>11 DEF BeginSplit
  <2> HIDE DEF g
  <2>4. frame' \in Frame
    BY <2>1, <2>2, <2>3, CallProps
  <2> QED BY <1>11, <2>4 DEF BeginSplit, TypeOK, world, where, calls, ghost
<1>12. ASSUME Finish, phase \in {"go", "stored"}, tmp' \in Nat, hook' = 1,
              UNCHANGED <<world, where, invalid_error, stop_request, exit_request, calls, ghost>>
       PROVE  TypeOK'
  <2>1. InAccess /\ pc \in DOMAIN Program /\ frame \in Frame
    BY <1>12 DEF InAccess, Shape, TypeOK
  <2>2. FinishOutcome
    BY <1>12, <2>1, FinishProps
  <2>3. frame' \in Frame
    BY <2>1, <2>2, CallProps DEF FinishOutcome
  <2>4. size_recur_mem' \in BOOLEAN /\ phase' \in {"lookup", "after", "check"}
    <3>1. frame.old \in BOOLEAN /\ size_recur_mem \in BOOLEAN
      BY <2>1 DEF Frame, TypeOK
    <3> QED BY <2>2, <3>1 DEF FinishOutcome
  <2> QED BY <1>12, <2>3, <2>4 DEF TypeOK, world, where, calls, ghost
<1>13. CASE Load
  <2>1. tmp' \in Nat
    <3>1. frame.at \in Byte
      BY <1>13, PageProps DEF Load, Shape, InAccess
    <3> QED BY <1>13, <3>1 DEF Load, TypeOK
  <2> QED BY <1>12, <1>13, <2>1 DEF Load
<1>14. CASE Fetch
  <2>1. pc \in DOMAIN Program /\ Program[pc].op = "fetch"
    BY <1>14, KindProps DEF Fetch, Shape, InAccess, Insn
  <2> QED BY <1>14, <2>1 DEF Fetch, TypeOK, world, engine, calls, ghost
<1>15. CASE Store
  <2>1. mem' \in [Byte -> Nat]
    <3>1. Insn.val \in Nat
      BY <1>15, InsnProps DEF Store, Shape, InAccess, Insn
    <3> QED BY <1>15, <3>1 DEF Store, TypeOK
  <2> QED BY <1>15, <2>1 DEF Store, TypeOK, where, engine, calls, ghost
<1>16. CASE Stored
  <2>1. tmp' \in Nat
    BY <1>16 DEF Stored, TypeOK
  <2> QED BY <1>12, <1>16, <2>1, Zenon DEF Stored
<1>17. CASE AfterRead
  BY <1>17 DEF AfterRead, TypeOK, world, where, engine, calls, ghost
<1>18. CASE check_exit_request
  <2>1. pc \in DOMAIN Program /\ Insn.addr \in Nat /\ Insn.val \in Nat
    BY <1>18, InsnProps DEF check_exit_request, Shape, InAccess, Insn
  <2>2. expect' \in [Byte -> Nat]
    <3>1. Applied(Insn) \in [Byte -> Nat]
      BY <2>1 DEF Applied, TypeOK
    <3> QED BY <1>18, <3>1 DEF check_exit_request, TypeOK, ghost
  <2>3. frame' \in Frame /\ phase' \in {"loop", "lookup", "next"}
    BY <1>18, <2>1, NoFrameProps DEF check_exit_request, TypeOK
  <2>4. pc' \in 1..Len(Program) + 1 /\ step' \in Nat /\ cached' = cached
    BY <1>0, <1>18, <2>1 DEF check_exit_request, TypeOK, where
  <2> QED BY <1>18, <2>2, <2>3, <2>4 DEF check_exit_request, TypeOK, world, engine, calls
<1>19. CASE tcg_cpu_exec
  <2>1. /\ frame' \in Frame /\ phase' \in {"idle", "next"} /\ tmp' \in Nat
        /\ hook' \in Nat \ {0} /\ size_recur_mem' \in BOOLEAN
    <3>1. /\ frame' = NoFrame /\ phase' \in {"idle", "next"} /\ tmp' = 0 /\ hook' = 1
          /\ size_recur_mem' \in {size_recur_mem, FALSE}
      BY <1>19, Zenon DEF tcg_cpu_exec, Return
    <3>2. frame' \in Frame
      BY <3>1, NoFrameProps
    <3>3. size_recur_mem' \in BOOLEAN
      BY <3>1, Zenon DEF TypeOK
    <3> QED BY <3>1, <3>2, <3>3
  <2>2. exit_request' \in BOOLEAN /\ step' \in Nat
        /\ UNCHANGED <<mapped, perms, present, mem, pc, cached, stop_request, runs, expect>>
    BY <1>19, Zenon DEF tcg_cpu_exec, world
  <2> QED BY <2>1, <2>2 DEF TypeOK
<1> QED BY <1>1, <1>2, <1>3, <1>4, <1>5, <1>6, <1>7, <1>8, <1>9, <1>10, <1>11, <1>13, <1>14,
           <1>15, <1>16, <1>17, <1>18, <1>19 DEF Next

\* A step within a call of the helper.
LEMMA ShapeKept ==
    ASSUME Shape, InAccess, UNCHANGED <<pc, step, size_recur_mem>>,
           frame'.at = frame.at, frame'.sub = frame.sub,
           phase' \notin {"next", "idle"}, phase' = "stored" => kind = "store",
           phase' = "after" => phase = "after", phase' = "check" => frame.sub = 0,
           phase' = "plain" => kind # "fetch" /\ frame.sub = 0 /\ (kind = "load" => frame'.mr)
    PROVE  Shape'
<1>1. Insn' = Insn /\ kind' = kind /\ Parts' = Parts
  BY SameInsn
<1> QED BY <1>1 DEF Shape, InAccess

\* The end of a call of the helper.
LEMMA ShapeFinish ==
    ASSUME TypeOK, Shape, phase \in {"go", "stored"}, kind \in {"load", "store"},
           Finish, UNCHANGED <<pc, step>>
    PROVE  Shape'
<1>1. Insn' = Insn /\ kind' = kind /\ Parts' = Parts
  BY SameInsn
<1>2. InAccess /\ frame \in Frame /\ pc \in DOMAIN Program /\ step \in DOMAIN Kinds(Insn.op)
  BY DEF InAccess, Shape, TypeOK
<1>3. FinishOutcome
  BY <1>2, FinishProps
<1>4. Insn.addr \in Bytes(Insn)
  BY <1>2, InsnProps DEF Insn
<1>5. CASE /\ frame.sub \in 1..Parts - 1 /\ frame.sub + 1 \in 1..Parts
           /\ frame' = CallFor(frame.sub + 1, frame)
           /\ phase' = "lookup" /\ size_recur_mem' = size_recur_mem
  <2>1. /\ frame'.sub = frame.sub + 1 /\ frame'.sub # 0 /\ frame'.sub <= Parts
        /\ frame'.at \in Bytes(Insn)
        /\ kind = "store" => frame'.at = Insn.addr + frame'.sub - 1
        /\ kind = "load" /\ frame'.sub = 1 => frame'.at = Insn.addr
    BY <1>2, <1>5, CallShape, Zenon
  <2>2. frame.sub # 0
    BY <1>5
  <2>3. Split(Insn) /\ kind # "fetch" /\ size_recur_mem
    BY <1>2, <2>2 DEF Shape
  <2> QED BY <1>1, <1>2, <1>5, <2>1, <2>3 DEF Shape
<1>6. CASE /\ frame'.at = Insn.addr /\ frame'.sub = 0
           /\ phase' = IF kind = "load" /\ ~size_recur_mem' THEN "after" ELSE "check"
  BY <1>1, <1>2, <1>4, <1>6 DEF Shape
<1> QED BY <1>3, <1>5, <1>6 DEF FinishOutcome

\* Every step leaves the helper at a byte of the access.
LEMMA ShapeStep ==
    ASSUME TypeOK, Shape, Next
    PROVE  Shape'
<1>1. CASE uc_emu_start
  BY <1>1 DEF uc_emu_start, Shape, InAccess
<1>2. CASE Begin
  <2>1. pc \in DOMAIN Program
    BY <1>2, ProgramAssumption DEF Begin, TypeOK
  <2>2. UNCHANGED <<pc, step>> /\ step = 1 /\ phase' \in {"check", "lookup"}
        /\ frame' = [NoFrame EXCEPT !.at = Insn.addr]
    BY <1>2 DEF Begin, Shape, where
  <2>3. Insn.addr \in Nat /\ Insn.addr \in Bytes(Insn)
    BY <2>1, InsnProps DEF Insn
  <2>4. frame'.at = Insn.addr /\ frame'.sub = 0
    BY <2>2, <2>3, NoFrameProps
  <2>5. step \in DOMAIN Kinds(Insn.op)
    BY <2>2 DEF Kinds
  <2>6. Insn' = Insn
    BY <2>2 DEF Insn
  <2> QED BY <2>1, <2>2, <2>3, <2>4, <2>5, <2>6 DEF Shape
<1>3. CASE AtExit
  BY <1>3 DEF AtExit, Return, Shape, InAccess, where
<1>4. CASE Lookup
  <2>1. /\ phase = "lookup" /\ frame'.at = frame.at /\ frame'.sub = frame.sub
        /\ UNCHANGED <<pc, step, size_recur_mem>>
    BY <1>4, LookupProps
  <2>2. /\ phase' \in {"plain", "unmapped", "permission", "go"}
        /\ phase' = "plain" => /\ kind \in {"load", "store"} /\ ~size_recur_mem
                               /\ kind = "load" => frame'.mr
    BY <1>4, LookupProps
  <2>3. InAccess /\ (frame.sub # 0 => size_recur_mem)
    BY <2>1 DEF InAccess, Shape
  <2> QED BY <2>1, <2>2, <2>3, ShapeKept
<1>5. CASE GuestFault
  BY <1>5 DEF GuestFault, Shape, InAccess
<1>6. CASE Callback
  <2>1. UNCHANGED <<pc, step, phase, size_recur_mem>> /\ InAccess /\ Walking
    BY <1>6, CallbackProps
  <2>2. frame'.at = frame.at /\ frame'.sub = frame.sub /\ frame'.mr = frame.mr
    BY <1>6, CallbackFrame
  <2> QED BY <2>1, <2>2, ShapeKept DEF Walking, Shape
<1>7. CASE AfterUnmapped
  <2>1. UnmappedOutcome
    BY <1>7, UnmappedProps
  <2>2. phase = "unmapped" /\ UNCHANGED <<pc, step, size_recur_mem>>
        /\ frame'.at = frame.at /\ frame'.sub = frame.sub
    BY <2>1 DEF UnmappedOutcome
  <2>3. \/ phase' = "stored" /\ kind = "store"
        \/ phase' \in {"loop", "permission", "go"}
        \/ phase' = "plain" /\ kind = "load" /\ ~size_recur_mem /\ frame'.mr
    BY <2>1 DEF UnmappedOutcome
  <2>4. InAccess /\ (frame.sub # 0 => size_recur_mem)
    BY <2>2 DEF InAccess, Shape
  <2> QED BY <2>2, <2>3, <2>4, ShapeKept
<1>8. CASE AfterPlain
  <2>1. phase = "plain" /\ phase' \in {"permission", "unmapped"} /\ UNCHANGED <<pc, step, size_recur_mem>>
        /\ frame'.at = frame.at /\ frame'.sub = frame.sub
    BY <1>8, PlainProps, Zenon
  <2> QED BY <2>1, ShapeKept DEF InAccess
<1>9. CASE Permission
  <2>1. phase = "permission" /\ phase' \in {"go", "prot"} /\ UNCHANGED <<pc, step, size_recur_mem>>
        /\ frame'.at = frame.at /\ frame'.sub = frame.sub
    BY <1>9, PermissionProps
  <2> QED BY <2>1, ShapeKept DEF InAccess
<1>10. CASE AfterProt
  <2>1. ProtOutcome
    BY <1>10, ProtProps
  <2>2. phase = "prot" /\ UNCHANGED <<pc, step, size_recur_mem>>
        /\ frame'.at = frame.at /\ frame'.sub = frame.sub
    BY <2>1 DEF ProtOutcome
  <2>3. (phase' = "stored" /\ kind = "store") \/ phase' \in {"loop", "go"}
    BY <2>1 DEF ProtOutcome
  <2> QED BY <2>2, <2>3, ShapeKept DEF InAccess
<1>11. CASE BeginSplit
  <2>1. /\ phase = "go" /\ Split(Insn) /\ kind # "fetch" /\ size_recur_mem' = TRUE
        /\ phase' = "lookup" /\ UNCHANGED <<pc, step>>
    BY <1>11 DEF BeginSplit, Straddles, where
  <2>2. pc \in DOMAIN Program /\ frame \in Frame /\ step \in DOMAIN Kinds(Insn.op)
    BY <2>1 DEF Shape, InAccess, TypeOK
  <2>3. kind \in {"load", "store"}
    BY <2>1, <2>2, KindProps
  <2>4. 1 \in 1..Parts
    <3>1. Insn.size \in Nat /\ Insn.size >= 1
      BY <2>2, InsnProps DEF Insn
    <3> QED BY <3>1 DEF Parts
  <2> DEFINE g == [frame EXCEPT !.old = size_recur_mem]
  <2>5. g \in Frame
    BY <2>2, Zenon DEF Frame, TypeOK
  <2>6. frame' = CallFor(1, g)
    BY <1>11 DEF BeginSplit
  <2> HIDE DEF g
  <2>7. /\ frame'.sub # 0 /\ frame'.sub <= Parts
        /\ frame'.at \in Bytes(Insn)
        /\ kind = "store" => frame'.at = Insn.addr + frame'.sub - 1
        /\ kind = "load" /\ frame'.sub = 1 => frame'.at = Insn.addr
    BY <2>2, <2>3, <2>4, <2>5, <2>6, CallShape, Zenon
  <2>8. Insn' = Insn /\ kind' = kind /\ Parts' = Parts
    BY <2>1, SameInsn
  <2> QED BY <2>1, <2>2, <2>7, <2>8 DEF Shape
<1>12. CASE Load
  BY <1>12, ShapeFinish DEF Load, where
<1>13. CASE Fetch
  <2>1. phase = "go" /\ phase' = "check" /\ UNCHANGED <<pc, step, size_recur_mem, frame>> /\ kind = "fetch"
    BY <1>13 DEF Fetch, engine
  <2>2. InAccess /\ frame.sub = 0
    BY <2>1 DEF InAccess, Shape
  <2> QED BY <2>1, <2>2, ShapeKept
<1>14. CASE Store
  <2>1. /\ phase = "go" /\ phase' = "stored" /\ kind = "store"
        /\ UNCHANGED <<pc, step, size_recur_mem, frame>>
    BY <1>14 DEF Store, engine, where
  <2> QED BY <2>1, ShapeKept DEF InAccess
<1>15. CASE Stored
  <2>1. phase = "stored" /\ Finish /\ UNCHANGED <<pc, step>>
    BY <1>15 DEF Stored, where
  <2>2. kind = "store"
    BY <2>1 DEF Shape, InAccess
  <2> QED BY <2>1, <2>2, ShapeFinish
<1>16. CASE AfterRead
  <2>1. phase = "after" /\ phase' = "check" /\ UNCHANGED <<pc, step, size_recur_mem, frame>>
    BY <1>16 DEF AfterRead, engine, where
  <2>2. InAccess /\ frame.sub = 0
    BY <2>1 DEF InAccess, Shape
  <2> QED BY <2>1, <2>2, ShapeKept
<1>17. CASE check_exit_request
  <2>1. phase = "check" /\ InAccess /\ pc \in DOMAIN Program /\ step \in DOMAIN Kinds(Insn.op)
    BY <1>17 DEF check_exit_request, InAccess, Shape
  <2>2. CASE phase' = "loop"
    BY <2>2 DEF Shape, InAccess
  <2>3. CASE phase' = "next" /\ step' = 1
    BY <2>3 DEF Shape, InAccess
  <2>4. CASE /\ step < Len(Kinds(Insn.op)) /\ step' = step + 1 /\ phase' = "lookup"
             /\ frame' = [NoFrame EXCEPT !.at = Insn.addr] /\ pc' = pc
    <3>1. Insn.addr \in Nat /\ Insn.addr \in Bytes(Insn)
      BY <2>1, InsnProps DEF Insn
    <3>2. frame'.at = Insn.addr /\ frame'.sub = 0
      BY <2>4, <3>1, NoFrameProps
    <3>3. step' \in DOMAIN Kinds(Insn.op)
      BY <2>1, <2>4, KindProps
    <3>4. Insn' = Insn
      BY <2>4 DEF Insn
    <3> QED BY <2>1, <2>4, <3>1, <3>2, <3>3, <3>4 DEF Shape
  <2> QED BY <1>17, <2>2, <2>3, <2>4 DEF check_exit_request
<1>18. CASE tcg_cpu_exec
  BY <1>18 DEF tcg_cpu_exec, Return, Shape, InAccess
<1> QED BY <1>1, <1>2, <1>3, <1>4, <1>5, <1>6, <1>7, <1>8, <1>9, <1>10, <1>11, <1>12, <1>13, <1>14,
           <1>15, <1>16, <1>17, <1>18 DEF Next

-----------------------------------------------------------------------------
(* Errors *)

\* A step within an access: an error that it raises is one the instruction explains.
LEMMA ErrorsKept ==
    ASSUME phase' \notin {"idle", "next"}, pc' = pc, stop_request' => exit_request',
           invalid_error' = NoError \/ (exit_request' /\ Explains(invalid_error'))
    PROVE  Errors'
<1>1. Explains(invalid_error)' <=> Explains(invalid_error')
  BY Zenon DEF Explains, Insn
<1> QED BY <1>1 DEF Errors

\* The errors of the access under way are explained by its instruction.
LEMMA KindExplains ==
    ASSUME TypeOK, Shape, InAccess, NEW e \in {"MAP", UnmappedError(kind), ProtError(kind)}
    PROVE  Explains(e)
<1>1. pc \in DOMAIN Program /\ step \in DOMAIN Kinds(Insn.op)
  BY DEF Shape
<1>2. pc <= Len(Program)
  BY <1>1, ProgramAssumption DEF TypeOK
<1> QED BY <1>1, <1>2, Zenon DEF Explains, kind

\* Every step keeps an error pending until uc_emu_start returns it.
LEMMA ErrorsStep ==
    ASSUME TypeOK, Shape, Errors, Next
    PROVE  Errors'
<1>0. ASSUME phase # "idle", phase' \notin {"idle", "next"},
             UNCHANGED <<pc, stop_request, exit_request, invalid_error>>
      PROVE  Errors'
  BY <1>0, ErrorsKept DEF Errors
<1>1. CASE uc_emu_start
  BY <1>1 DEF uc_emu_start, Errors
<1>2. CASE Begin
  BY <1>0, <1>2 DEF Begin, where, engine
<1>3. CASE AtExit
  <2>1. /\ phase' = "idle" /\ invalid_error' = NoError /\ ret' = invalid_error /\ pc' = pc
        /\ pc > Len(Program) /\ phase = "next"
    BY <1>3 DEF AtExit, Return, where
  <2>2. ret' = NoError
    BY <2>1 DEF Errors
  <2> QED BY <2>1, <2>2 DEF Errors
<1>4. CASE Lookup
  <2>1. phase' \in {"plain", "unmapped", "permission", "go"}
    BY <1>4, LookupProps
  <2>2. phase = "lookup" /\ UNCHANGED <<pc, stop_request, exit_request, invalid_error>>
    BY <1>4, LookupProps
  <2> QED BY <1>0, <2>1, <2>2
<1>5. CASE GuestFault
  <2>1. /\ phase # "idle" /\ phase' = (IF exit_request THEN "loop" ELSE "next")
        /\ UNCHANGED <<pc, stop_request, exit_request, invalid_error>>
    BY <1>5 DEF GuestFault, engine
  <2>2. CASE exit_request
    BY <1>0, <2>1, <2>2
  <2>3. CASE ~exit_request
    <3>1. invalid_error = NoError /\ ~stop_request
      BY <2>1, <2>3 DEF Errors
    <3> QED BY <2>1, <2>3, <3>1 DEF Errors
  <2> QED BY <2>2, <2>3
<1>6. CASE Callback
  <2>1. UNCHANGED <<pc, phase, invalid_error>> /\ InAccess
    BY <1>6, CallbackProps
  <2>2. PICK f : CallEffect(f)
    BY <1>6, CallbackProps, Zenon
  <2>3. \/ UNCHANGED <<stop_request, exit_request>>
        \/ stop_request' = TRUE /\ exit_request' = TRUE
    BY <2>2, Zenon DEF CallEffect
  <2> QED BY <2>1, <2>3, ErrorsKept DEF Errors, InAccess
<1>7. CASE AfterUnmapped
  <2>1. UnmappedOutcome
    BY <1>7, UnmappedProps
  <2>2. phase = "unmapped" /\ UNCHANGED <<pc, stop_request>> /\ phase' \notin {"idle", "next"}
    BY <2>1 DEF UnmappedOutcome
  <2>3. \/ /\ exit_request' = TRUE
           /\ \/ invalid_error' = invalid_error /\ invalid_error # NoError
              \/ invalid_error' \in {UnmappedError(kind), "MAP"}
        \/ invalid_error' = NoError /\ exit_request' = exit_request
    BY <2>1, Zenon DEF UnmappedOutcome
  <2>4. invalid_error' = NoError \/ (exit_request' /\ Explains(invalid_error'))
    <3>1. InAccess
      BY <2>2 DEF InAccess
    <3> QED BY <2>3, <3>1, KindExplains DEF Errors
  <2> QED BY <2>2, <2>3, <2>4, ErrorsKept DEF Errors
<1>8. CASE AfterPlain
  <2>1. /\ phase = "plain" /\ phase' \in {"permission", "unmapped"}
        /\ UNCHANGED <<pc, stop_request, exit_request, invalid_error>>
    BY <1>8, PlainProps
  <2> QED BY <1>0, <2>1
<1>9. CASE Permission
  <2>1. /\ phase = "permission" /\ phase' \in {"go", "prot"}
        /\ UNCHANGED <<pc, stop_request, exit_request, invalid_error>>
    BY <1>9, PermissionProps
  <2> QED BY <1>0, <2>1
<1>10. CASE AfterProt
  <2>1. ProtOutcome
    BY <1>10, ProtProps
  <2>2. phase = "prot" /\ UNCHANGED <<pc, stop_request>> /\ phase' \notin {"idle", "next"}
    BY <2>1 DEF ProtOutcome
  <2>3. \/ exit_request' = TRUE /\ invalid_error' = ProtError(kind)
        \/ invalid_error' = NoError /\ exit_request' = exit_request
    BY <2>1, Zenon DEF ProtOutcome
  <2>4. invalid_error' = NoError \/ (exit_request' /\ Explains(invalid_error'))
    <3>1. InAccess
      BY <2>2 DEF InAccess
    <3> QED BY <2>3, <3>1, KindExplains
  <2> QED BY <2>2, <2>3, <2>4, ErrorsKept DEF Errors
<1>11. CASE BeginSplit
  BY <1>0, <1>11 DEF BeginSplit, where
<1>12. ASSUME phase \in {"go", "stored"}, Finish,
              UNCHANGED <<pc, stop_request, exit_request, invalid_error>>
       PROVE  Errors'
  <2>1. FinishOutcome
    BY <1>12, FinishProps DEF InAccess
  <2>2. phase' \in {"lookup", "after", "check"}
    BY <2>1 DEF FinishOutcome
  <2> QED BY <1>0, <1>12, <2>2
<1>13. CASE Load
  BY <1>12, <1>13 DEF Load, where
<1>14. CASE Fetch
  BY <1>0, <1>14 DEF Fetch, engine
<1>15. CASE Store
  BY <1>0, <1>15 DEF Store, where, engine
<1>16. CASE Stored
  BY <1>12, <1>16 DEF Stored, where
<1>17. CASE AfterRead
  BY <1>0, <1>17 DEF AfterRead, where, engine
<1>18. CASE check_exit_request
  <2>1. phase = "check" /\ UNCHANGED <<stop_request, exit_request, invalid_error>>
    BY <1>18 DEF check_exit_request, engine
  <2>2. CASE phase' \in {"loop", "lookup"} /\ pc' = pc
    BY <1>0, <2>1, <2>2
  <2>3. CASE ~exit_request /\ phase' = "next"
    <3>1. invalid_error = NoError /\ ~stop_request
      BY <2>1, <2>3 DEF Errors
    <3> QED BY <2>1, <2>3, <3>1 DEF Errors
  <2> QED BY <1>18, <2>2, <2>3 DEF check_exit_request, where
<1>19. CASE tcg_cpu_exec
  <2>1. phase = "loop" /\ exit_request' = FALSE /\ UNCHANGED <<pc, stop_request>>
    BY <1>19 DEF tcg_cpu_exec
  <2>2. CASE (stop_request \/ invalid_error # NoError) /\ Return
    <3>1. phase' = "idle" /\ invalid_error' = NoError /\ ret' = invalid_error
      BY <2>2 DEF Return
    <3>2. ret' # NoError => Explains(ret')
      BY <2>1, <3>1 DEF Errors
    <3>3. Explains(ret)' <=> Explains(ret')
      BY <2>1, Zenon DEF Explains, Insn
    <3> QED BY <2>1, <2>2, <3>1, <3>2, <3>3 DEF Errors
  <2>3. CASE ~stop_request /\ invalid_error = NoError /\ phase' = "next" /\ UNCHANGED invalid_error
    BY <2>1, <2>3 DEF Errors
  <2> QED BY <1>19, <2>2, <2>3 DEF tcg_cpu_exec
<1> QED BY <1>1, <1>2, <1>3, <1>4, <1>5, <1>6, <1>7, <1>8, <1>9, <1>10, <1>11, <1>13, <1>14,
           <1>15, <1>16, <1>17, <1>18, <1>19 DEF Next

-----------------------------------------------------------------------------
(* Calls of the helper by itself *)

\* A step within a call of the helper.
LEMMA RecursionKept ==
    ASSUME Recursion, InAccess, UNCHANGED <<pc, size_recur_mem, present>>,
           frame'.at = frame.at, frame'.sub = frame.sub, frame'.old = frame.old,
           phase' # "next", P \in present
    PROVE  Recursion'
<1>1. Insn' = Insn /\ P' = P
  BY DEF Insn, P
<1> QED BY <1>1 DEF Recursion

\* The end of a call of the helper.
LEMMA RecursionFinish ==
    ASSUME TypeOK, Shape, Recursion, phase \in {"go", "stored"}, kind \in {"load", "store"},
           Finish, UNCHANGED <<pc, step, present>>
    PROVE  Recursion'
<1>1. Insn' = Insn
  BY DEF Insn
<1>2. InAccess /\ frame \in Frame /\ pc \in DOMAIN Program
  BY DEF InAccess, Shape, TypeOK
<1>3. FinishOutcome
  BY <1>2, FinishProps
<1>4. ~frame.old /\ P \in present
  BY <1>2, Zenon DEF Recursion
<1>5. CASE /\ frame.sub \in 1..Parts - 1 /\ frame.sub + 1 \in 1..Parts
           /\ frame' = CallFor(frame.sub + 1, frame)
           /\ phase' = "lookup" /\ size_recur_mem' = size_recur_mem
  <2>1. frame'.sub # 0 /\ frame'.old = frame.old
    BY <1>2, <1>5, CallShape, Zenon
  <2>2. frame.sub # 0
    BY <1>5
  <2> QED BY <1>1, <1>2, <1>4, <1>5, <2>1, <2>2, Zenon DEF Recursion
<1>6. CASE /\ frame'.at = Insn.addr /\ frame'.sub = 0 /\ frame'.old = frame.old
           /\ size_recur_mem' = IF frame.sub = 0 THEN size_recur_mem ELSE frame.old
           /\ phase' = IF kind = "load" /\ ~size_recur_mem' THEN "after" ELSE "check"
  <2>1. ~size_recur_mem'
    BY <1>2, <1>4, <1>6 DEF Recursion
  <2>2. P' \in present
    <3>1. P' = PageOf(Insn.addr)
      BY <1>1, <1>6 DEF P
    <3>2. CASE frame.sub = 0
      <4>1. P' = P
        BY <1>2, <3>1, <3>2 DEF Shape, P
      <4> QED BY <1>4, <4>1
    <3>3. CASE frame.sub # 0
      BY <1>2, <3>1, <3>3, Zenon DEF Recursion
    <3> QED BY <3>2, <3>3
  <2> QED BY <1>1, <1>4, <1>6, <2>1, <2>2 DEF Recursion
<1> QED BY <1>3, <1>5, <1>6 DEF FinishOutcome

\* Every step keeps size_recur_mem within the calls of a split access.
LEMMA RecursionStep ==
    ASSUME TypeOK, Shape, Recursion, Next
    PROVE  Recursion'
<1>1. CASE uc_emu_start
  BY <1>1 DEF uc_emu_start, Recursion, InAccess, world
<1>2. CASE Begin
  <2>1. pc \in DOMAIN Program
    BY <1>2, ProgramAssumption DEF Begin, TypeOK
  <2>2. Insn.addr \in Nat
    BY <2>1, InsnProps DEF Insn
  <2>3. frame'.sub = 0 /\ ~frame'.old
    BY <1>2, <2>2, NoFrameProps DEF Begin
  <2>4. phase = "next" /\ phase' \in {"check", "lookup"} /\ UNCHANGED <<size_recur_mem, present>>
    BY <1>2 DEF Begin, engine, world
  <2> QED BY <2>3, <2>4 DEF Recursion
<1>3. CASE AtExit
  BY <1>3 DEF AtExit, Return, Recursion, InAccess, world
<1>4. CASE Lookup
  <2>1. /\ phase = "lookup" /\ frame'.at = frame.at /\ frame'.sub = frame.sub
        /\ frame'.old = frame.old /\ UNCHANGED <<pc, size_recur_mem, present>> /\ P \in present
    BY <1>4, LookupProps
  <2>2. phase' \in {"plain", "unmapped", "permission", "go"}
    BY <1>4, LookupProps
  <2> QED BY <2>1, <2>2, RecursionKept DEF InAccess
<1>5. CASE GuestFault
  <2>1. PICK p \in Page \ present :
           /\ \/ phase = "lookup" /\ p = P
              \/ phase = "go" /\ frame.sub = 0
           /\ present' = present \cup {p}
    BY <1>5, Zenon DEF GuestFault
  <2>2. phase' \in {"loop", "next"} /\ size_recur_mem' = size_recur_mem /\ InAccess
    BY <1>5, <2>1 DEF GuestFault, engine, InAccess
  <2>3. ~size_recur_mem
    <3>1. CASE phase = "go" /\ frame.sub = 0
      BY <2>2, <3>1 DEF Recursion
    <3>2. CASE phase = "lookup" /\ p = P
      <4>1. P \in {PageOf(Insn.addr), PageOf(Insn.addr + Insn.size - 1)}
        BY <2>2, PageProps DEF Shape
      <4> QED BY <2>1, <2>2, <3>2, <4>1 DEF Recursion
    <3> QED BY <2>1, <3>1, <3>2
  <2> QED BY <2>1, <2>2, <2>3 DEF Recursion, InAccess
<1>6. CASE Callback
  <2>1. UNCHANGED <<pc, phase, size_recur_mem, present>> /\ InAccess /\ Walking
    BY <1>6, CallbackProps
  <2>2. frame'.at = frame.at /\ frame'.sub = frame.sub /\ frame'.old = frame.old
    BY <1>6, CallbackFrame
  <2>3. P \in present
    BY <2>1 DEF Walking, Recursion
  <2> QED BY <2>1, <2>2, <2>3, RecursionKept DEF Walking
<1>7. CASE AfterUnmapped
  <2>1. UnmappedOutcome
    BY <1>7, UnmappedProps
  <2>2. phase = "unmapped" /\ UNCHANGED <<pc, size_recur_mem, present>> /\ phase' # "next"
        /\ frame'.at = frame.at /\ frame'.sub = frame.sub /\ frame'.old = frame.old
    BY <2>1 DEF UnmappedOutcome
  <2>3. InAccess /\ P \in present
    BY <2>2 DEF InAccess, Recursion
  <2> QED BY <2>2, <2>3, RecursionKept
<1>8. CASE AfterPlain
  <2>1. phase = "plain" /\ phase' # "next" /\ UNCHANGED <<pc, size_recur_mem, present>>
        /\ frame'.at = frame.at /\ frame'.sub = frame.sub /\ frame'.old = frame.old
    BY <1>8, PlainProps
  <2>2. InAccess /\ P \in present
    BY <2>1 DEF InAccess, Recursion
  <2> QED BY <2>1, <2>2, RecursionKept
<1>9. CASE Permission
  <2>1. phase = "permission" /\ phase' # "next" /\ UNCHANGED <<pc, size_recur_mem, present>>
        /\ frame'.at = frame.at /\ frame'.sub = frame.sub /\ frame'.old = frame.old
    BY <1>9, PermissionProps
  <2>2. InAccess /\ P \in present
    BY <2>1 DEF InAccess, Recursion
  <2> QED BY <2>1, <2>2, RecursionKept
<1>10. CASE AfterProt
  <2>1. ProtOutcome
    BY <1>10, ProtProps
  <2>2. phase = "prot" /\ UNCHANGED <<pc, size_recur_mem, present>> /\ phase' # "next"
        /\ frame'.at = frame.at /\ frame'.sub = frame.sub /\ frame'.old = frame.old
    BY <2>1 DEF ProtOutcome
  <2>3. InAccess /\ P \in present
    BY <2>2 DEF InAccess, Recursion
  <2> QED BY <2>2, <2>3, RecursionKept
<1>11. CASE BeginSplit
  <2>1. /\ phase = "go" /\ Split(Insn) /\ frame.sub = 0 /\ kind # "fetch" /\ size_recur_mem' = TRUE
        /\ kind = "store" => PageOf(Insn.addr + Insn.size - 1) \in present
        /\ phase' = "lookup" /\ UNCHANGED <<pc, step, present>>
    BY <1>11 DEF BeginSplit, Straddles, where, world
  <2>2. /\ pc \in DOMAIN Program /\ frame \in Frame /\ step \in DOMAIN Kinds(Insn.op)
        /\ InAccess /\ frame.at = Insn.addr
    BY <2>1 DEF Shape, InAccess, TypeOK
  <2>3. ~size_recur_mem /\ PageOf(Insn.addr) \in present
    BY <2>1, <2>2, Zenon DEF Recursion, P
  <2>4. PageOf(Insn.addr + Insn.size - 1) \in present
    <3>1. CASE kind = "store"
      BY <2>1, <3>1
    <3>2. CASE kind = "load"
      <4>1. Insn.op = "load"
        BY <2>1, <2>2, <3>2, KindProps, InsnProps DEF Insn
      <4> QED BY <2>1, <2>2, <4>1 DEF Recursion, Insn
    <3> QED BY <2>1, <2>2, <3>1, <3>2, KindProps
  <2> DEFINE g == [frame EXCEPT !.old = size_recur_mem]
  <2>5. g \in Frame /\ ~g.old
    BY <2>2, <2>3, Zenon DEF Frame, TypeOK
  <2>6. frame' = CallFor(1, g)
    BY <1>11 DEF BeginSplit
  <2> HIDE DEF g
  <2>7. frame'.sub = 1 /\ ~frame'.old
    BY <2>2, <2>5, <2>6, CallProps
  <2>8. Insn' = Insn
    BY <2>1 DEF Insn
  <2> QED BY <2>1, <2>3, <2>4, <2>7, <2>8 DEF Recursion
<1>12. CASE Load
  BY <1>12, RecursionFinish DEF Load, where, world
<1>13. CASE Fetch
  <2>1. phase = "go" /\ phase' = "check" /\ UNCHANGED <<pc, size_recur_mem, frame, present>>
    BY <1>13 DEF Fetch, engine, world
  <2>2. InAccess /\ P \in present
    BY <2>1 DEF InAccess, Recursion
  <2> QED BY <2>1, <2>2, RecursionKept
<1>14. CASE Store
  <2>1. phase = "go" /\ phase' = "stored" /\ UNCHANGED <<pc, size_recur_mem, frame, present>>
    BY <1>14 DEF Store, engine, where
  <2>2. InAccess /\ P \in present
    BY <2>1 DEF InAccess, Recursion
  <2> QED BY <2>1, <2>2, RecursionKept
<1>15. CASE Stored
  <2>1. phase = "stored" /\ Finish /\ UNCHANGED <<pc, step, present>>
    BY <1>15 DEF Stored, where, world
  <2>2. kind = "store"
    BY <2>1 DEF Shape, InAccess
  <2> QED BY <2>1, <2>2, RecursionFinish
<1>16. CASE AfterRead
  <2>1. phase = "after" /\ phase' = "check" /\ UNCHANGED <<pc, size_recur_mem, frame, present>>
    BY <1>16 DEF AfterRead, engine, where, world
  <2>2. InAccess /\ P \in present
    BY <2>1 DEF InAccess, Recursion
  <2> QED BY <2>1, <2>2, RecursionKept
<1>17. CASE check_exit_request
  <2>1. /\ phase = "check" /\ InAccess /\ pc \in DOMAIN Program /\ frame.sub = 0
        /\ UNCHANGED <<size_recur_mem, present>>
    BY <1>17 DEF check_exit_request, InAccess, Shape, engine, world
  <2>2. ~size_recur_mem
    BY <2>1 DEF Recursion
  <2>3. CASE phase' \in {"loop", "next"}
    BY <2>1, <2>2, <2>3 DEF Recursion, InAccess
  <2>4. CASE phase' = "lookup" /\ frame' = [NoFrame EXCEPT !.at = Insn.addr]
    <3>1. Insn.addr \in Nat
      BY <2>1, InsnProps DEF Insn
    <3>2. frame'.sub = 0 /\ ~frame'.old
      BY <2>4, <3>1, NoFrameProps
    <3> QED BY <2>1, <2>2, <2>4, <3>2 DEF Recursion
  <2> QED BY <1>17, <2>3, <2>4 DEF check_exit_request
<1>18. CASE tcg_cpu_exec
  <2>1. /\ present' = present /\ phase' \in {"idle", "next"}
        /\ phase' = "next" => ~size_recur_mem'
    BY <1>18 DEF tcg_cpu_exec, Return, world
  <2> QED BY <2>1 DEF Recursion, InAccess
<1> QED BY <1>1, <1>2, <1>3, <1>4, <1>5, <1>6, <1>7, <1>8, <1>9, <1>10, <1>11, <1>12, <1>13, <1>14,
           <1>15, <1>16, <1>17, <1>18 DEF Next

-----------------------------------------------------------------------------
(* The hooks called for an access *)

\* Walking the list from its first hook to its last calls every hook that covers the
\* access.
LEMMA CallsProps ==
    ASSUME TypeOK, Shape, InAccess, kind # "fetch"
    PROVE  /\ Calls(1) = {}
           /\ phase = "plain" => P = PageOf(Insn.addr) /\ List = Hooks[Upper(kind)]
           /\ phase = "plain" /\ Covering(hook) = {} => Calls(hook) = AllCalls
           /\ \A i \in Covering(hook) :
                 phase = "plain" /\ (\A k \in Covering(hook) : i <= k)
                     => Calls(i + 1) = Calls(hook) \cup {i}
<1> DEFINE L == Hooks[Upper(kind)]
<1>1. kind \in {"load", "store"}
  BY KindProps DEF Shape
<1>2. L \in Seq(SUBSET Page) /\ Len(L) \in Nat /\ DOMAIN L = 1..Len(L)
  <2>1. Upper(kind) \in DOMAIN Hooks
    BY <1>1, HooksAssumption DEF Upper
  <2>2. L \in Seq(SUBSET Page)
    BY <2>1, HooksAssumption
  <2> HIDE DEF L
  <2> QED BY <2>2
<1>3. hook \in Nat \ {0}
  BY DEF TypeOK
<1>4. phase = "plain" => P = PageOf(Insn.addr) /\ List = L
  BY ListProps, Zenon DEF Shape, P, Walking
<1>5. \A n : Calls(n) = {i \in DOMAIN L : i < n /\ PageOf(Insn.addr) \in L[i]}
  BY DEF Calls
<1>6. AllCalls = Calls(Len(L) + 1)
  BY DEF AllCalls
<1>7. phase = "plain" => Covering(hook) = {i \in hook..Len(L) : PageOf(Insn.addr) \in L[i]}
  BY <1>4 DEF Covering
<1> HIDE DEF L
<1>8. Calls(1) = {}
  BY <1>2, <1>5
<1>9. ASSUME phase = "plain", Covering(hook) = {} PROVE Calls(hook) = AllCalls
  <2>1. \A k \in hook..Len(L) : PageOf(Insn.addr) \notin L[k]
    BY <1>7, <1>9
  <2>2. \A k \in DOMAIN L : PageOf(Insn.addr) \in L[k] => k < hook /\ k < Len(L) + 1
    BY <1>2, <1>3, <2>1
  <2> QED BY <1>5, <1>6, <2>2, Zenon
<1>10. ASSUME phase = "plain", NEW i \in Covering(hook), \A k \in Covering(hook) : i <= k
       PROVE  Calls(i + 1) = Calls(hook) \cup {i}
  <2>1. i \in hook..Len(L) /\ PageOf(Insn.addr) \in L[i]
    BY <1>7, <1>10
  <2>2. \A k \in hook..Len(L) : PageOf(Insn.addr) \in L[k] => i <= k
    BY <1>7, <1>10
  <2> QED BY <1>2, <1>3, <1>5, <2>1, <2>2
<1> QED BY <1>4, <1>8, <1>9, <1>10 DEF L

\* A step that calls no hook, with all of them called.
LEMMA SeenKept ==
    ASSUME Seen, InAccess, UNCHANGED <<pc, step, seen>>, ~exit_request' => ~exit_request,
           ~Early, phase # "plain", ~Early', phase' # "plain"
    PROVE  Seen'
<1>1. kind' = kind /\ AllCalls' = AllCalls
  BY SameInsn DEF AllCalls, Calls
<1> QED BY <1>1 DEF Seen

\* Every step keeps count of the hooks called.
LEMMA SeenStep ==
    ASSUME TypeOK, Shape, Errors, Recursion, Seen, Next
    PROVE  Seen'
<1>1. CASE uc_emu_start
  BY <1>1 DEF uc_emu_start, Seen, InAccess
<1>2. CASE Begin
  <2>1. pc \in DOMAIN Program
    BY <1>2, ProgramAssumption DEF Begin, TypeOK
  <2>2. Insn.addr \in Nat /\ UNCHANGED <<pc, step>> /\ step = 1 /\ seen' = {}
    BY <1>2, <2>1, InsnProps DEF Insn, Begin, where, Shape
  <2>3. frame'.sub = 0
    BY <1>2, <2>2, NoFrameProps DEF Begin
  <2>4. CASE pc \in cached
    <3>1. Insn.op = "fetch"
      BY <2>4 DEF TypeOK, Insn
    <3>2. kind = "fetch" /\ kind' = kind
      BY <2>2, <3>1, SameInsn DEF kind, Kinds
    <3> QED BY <3>2 DEF Seen
  <2>5. CASE pc \notin cached
    <3>1. phase' = "lookup"
      BY <1>2, <2>5 DEF Begin
    <3> QED BY <2>2, <2>3, <3>1 DEF Seen, Early
  <2> QED BY <2>4, <2>5
<1>3. CASE AtExit
  BY <1>3 DEF AtExit, Return, Seen, InAccess
<1>4. CASE Lookup
  <2>1. /\ phase = "lookup" /\ frame'.sub = frame.sub
        /\ UNCHANGED <<pc, step, seen, exit_request>> /\ hook' = 1
    BY <1>4, LookupProps
  <2>2. InAccess /\ kind' = kind
    BY <2>1, SameInsn DEF InAccess
  <2>3. CASE frame.sub = 0
    <3>1. ~size_recur_mem
      BY <2>2, <2>3 DEF Recursion
    <3>2. phase' = "plain" \/ (phase' = "unmapped" /\ kind # "store") \/ (phase' = "permission" /\ kind \notin {"load", "store"})
      BY <1>4, <3>1, LookupProps, Zenon
    <3>3. kind \in {"load", "store", "fetch"}
      BY <2>2, KindProps DEF Shape
    <3>4. ASSUME kind # "fetch", ~exit_request PROVE seen = {} /\ Calls(1) = {}
      BY <2>1, <2>2, <2>3, <3>4, CallsProps DEF Seen, Early
    <3>5. Calls(1)' = Calls(1)
      BY <2>1, <2>2 DEF Calls, Insn
    <3>6. Calls(hook)' = Calls(1)'
      BY <2>1 DEF Calls
    <3> QED BY <2>1, <2>2, <2>3, <3>2, <3>3, <3>4, <3>5, <3>6 DEF Seen, Early
  <2>4. CASE frame.sub # 0
    <3>1. size_recur_mem
      BY <2>2, <2>4 DEF Shape
    <3>2. phase' # "plain"
      BY <1>4, <3>1, LookupProps
    <3> QED BY <2>1, <2>2, <2>4, <3>2, SeenKept DEF Early
  <2> QED BY <2>3, <2>4
<1>5. CASE GuestFault
  BY <1>5 DEF GuestFault, Seen, InAccess
<1>6. CASE Callback
  <2>1. UNCHANGED <<pc, step, phase>> /\ InAccess
    BY <1>6, CallbackProps
  <2>2. frame'.sub = frame.sub
    BY <1>6, CallbackFrame
  <2>3. PICK h \in Answers, i \in Covering(hook) :
           /\ CallEffect([frame EXCEPT !.handled = h])
           /\ \A k \in Covering(hook) : i <= k
           /\ hook' = IF h \/ stop_request' THEN Len(List) + 1 ELSE i + 1
           /\ seen' = IF phase = "plain" THEN seen \cup {i} ELSE seen
    BY <1>6, CallbackProps, Zenon
  <2>4. \/ UNCHANGED <<stop_request, exit_request>>
        \/ stop_request' = TRUE /\ exit_request' = TRUE
    BY <2>3 DEF CallEffect
  <2>5. ~exit_request' => ~exit_request /\ ~stop_request'
    BY <2>1, <2>4 DEF Errors, InAccess
  <2>6. kind' = kind /\ Insn' = Insn
    BY <2>1, SameInsn
  <2>7. Early' <=> Early
    BY <2>1, <2>2, <2>6 DEF Early
  <2>8. CASE phase = "plain"
    <3>1. SUFFICES ASSUME kind # "fetch", ~exit_request'
                   PROVE  seen' = Calls(hook)'
      BY <2>1, <2>6, <2>7, <2>8 DEF Seen, Early
    <3>2. seen = Calls(hook)
      BY <2>1, <2>5, <2>8, <3>1 DEF Seen
    <3>3. hook' = i + 1
      BY <2>3, <2>5, <2>8, <3>1 DEF Answers
    <3>4. Calls(i + 1) = Calls(hook) \cup {i}
      BY <2>1, <2>3, <2>8, <3>1, CallsProps
    <3>5. Calls(hook)' = Calls(i + 1)
      BY <2>6, <3>3, Zenon DEF Calls
    <3> QED BY <2>3, <2>8, <3>2, <3>4, <3>5
  <2>9. CASE phase # "plain"
    <3>1. seen' = seen
      BY <2>3, <2>9
    <3>2. AllCalls' = AllCalls
      BY <2>6 DEF AllCalls, Calls
    <3> QED BY <2>1, <2>5, <2>6, <2>7, <2>9, <3>1, <3>2 DEF Seen
  <2> QED BY <2>8, <2>9
<1>7. CASE AfterUnmapped
  <2>1. UnmappedOutcome
    BY <1>7, UnmappedProps
  <2>2. phase = "unmapped" /\ UNCHANGED <<pc, step, seen>> /\ frame'.sub = frame.sub /\ hook' = 1
    BY <2>1, Zenon DEF UnmappedOutcome
  <2>3. InAccess /\ kind' = kind /\ Insn' = Insn
    BY <2>2, SameInsn DEF InAccess
  <2>4. CASE exit_request' = TRUE
    BY <2>4 DEF Seen
  <2>5. CASE /\ exit_request' = exit_request
             /\ phase' = IF kind # "load" THEN "permission" ELSE IF size_recur_mem THEN "go" ELSE "plain"
    <3>1. CASE kind = "load" /\ frame.sub = 0
      <4>1. ~size_recur_mem /\ Calls(1) = {}
        BY <2>3, <3>1, CallsProps, Zenon DEF Recursion
      <4>2. phase' = "plain"
        BY <2>5, <3>1, <4>1
      <4>3. Calls(hook)' = Calls(1)
        BY <2>2, <2>3 DEF Calls
      <4>4. ~exit_request => seen = {}
        BY <2>2, <2>3, <3>1 DEF Seen, Early
      <4> QED BY <2>2, <2>5, <4>1, <4>2, <4>3, <4>4 DEF Seen, Early
    <3>2. CASE kind = "load" /\ frame.sub # 0
      <4>1. phase' = "go"
        BY <2>3, <2>5, <3>2 DEF Shape
      <4> QED BY <2>2, <2>3, <2>5, <3>2, <4>1, SeenKept DEF Early
    <3>3. CASE kind # "load"
      BY <2>2, <2>3, <2>5, <3>3, SeenKept DEF Early
    <3> QED BY <3>1, <3>2, <3>3
  <2> QED BY <2>1, <2>4, <2>5, Zenon DEF UnmappedOutcome
<1>8. CASE AfterPlain
  <2>1. /\ phase = "plain" /\ Covering(hook) = {} /\ UNCHANGED <<pc, step, seen, exit_request>>
        /\ phase' = (IF frame.mr THEN "permission" ELSE "unmapped")
    BY <1>8, PlainProps
  <2>2. InAccess /\ kind' = kind /\ Insn' = Insn /\ kind # "fetch" /\ (kind = "load" => frame.mr)
    BY <2>1, SameInsn DEF InAccess, Shape
  <2>3. Calls(hook) = AllCalls /\ AllCalls' = AllCalls
    BY <2>1, <2>2, CallsProps, Zenon DEF AllCalls, Calls
  <2>4. ~Early' /\ phase' # "plain"
    BY <2>1, <2>2 DEF Early
  <2> QED BY <2>1, <2>2, <2>3, <2>4 DEF Seen
<1>9. CASE Permission
  <2>1. phase = "permission" /\ phase' \in {"go", "prot"} /\ UNCHANGED <<pc, step, seen, exit_request>>
    BY <1>9, PermissionProps
  <2> QED BY <2>1, SeenKept DEF InAccess, Early
<1>10. CASE AfterProt
  <2>1. ProtOutcome
    BY <1>10, ProtProps
  <2>2. phase = "prot" /\ UNCHANGED <<pc, step, seen>>
        /\ (exit_request' = TRUE \/ (phase' = "go" /\ exit_request' = exit_request))
    BY <2>1 DEF ProtOutcome
  <2>3. CASE exit_request' = TRUE
    BY <2>3 DEF Seen
  <2>4. CASE phase' = "go" /\ exit_request' = exit_request
    BY <2>2, <2>4, SeenKept DEF InAccess, Early
  <2> QED BY <2>2, <2>3, <2>4, Zenon
<1>11. CASE BeginSplit
  <2>1. /\ phase = "go" /\ phase' = "lookup" /\ UNCHANGED <<pc, step, seen, exit_request>>
        /\ frame' = CallFor(1, [frame EXCEPT !.old = size_recur_mem])
    BY <1>11 DEF BeginSplit, where, ghost
  <2>2. InAccess /\ frame \in Frame /\ pc \in DOMAIN Program
    BY <2>1 DEF InAccess, TypeOK, Shape
  <2> DEFINE g == [frame EXCEPT !.old = size_recur_mem]
  <2>3. g \in Frame
    BY <2>2, Zenon DEF Frame, TypeOK
  <2>4. frame' = CallFor(1, g)
    BY <2>1
  <2> HIDE DEF g
  <2>5. frame'.sub = 1
    BY <2>2, <2>3, <2>4, CallProps
  <2> QED BY <2>1, <2>2, <2>5, SeenKept DEF Early
<1>12. ASSUME phase \in {"go", "stored"}, Finish, kind \in {"load", "store"},
              UNCHANGED <<pc, step, seen, exit_request>>
       PROVE  Seen'
  <2>1. InAccess /\ frame \in Frame /\ pc \in DOMAIN Program
    BY <1>12, Zenon DEF InAccess, TypeOK, Shape
  <2>2. FinishOutcome
    BY <1>12, <2>1, FinishProps
  <2>3. (phase' = "lookup" /\ frame'.sub # 0) \/ phase' \in {"after", "check"}
    <3>1. CASE /\ frame.sub + 1 \in 1..Parts /\ frame' = CallFor(frame.sub + 1, frame)
               /\ phase' = "lookup"
      <4>1. frame'.sub # 0
        BY <1>12, <2>1, <3>1, CallShape, Zenon
      <4> QED BY <3>1, <4>1
    <3>2. CASE phase' = IF kind = "load" /\ ~size_recur_mem' THEN "after" ELSE "check"
      BY <3>2
    <3> QED BY <2>2, <3>1, <3>2 DEF FinishOutcome
  <2> QED BY <1>12, <2>1, <2>3, SeenKept DEF Early
<1>13. CASE Load
  BY <1>12, <1>13 DEF Load, where, ghost
<1>14. CASE Fetch
  <2>1. phase = "go" /\ phase' = "check" /\ UNCHANGED <<pc, step, seen, exit_request>>
    BY <1>14 DEF Fetch, ghost, engine
  <2> QED BY <2>1, SeenKept DEF InAccess, Early
<1>15. CASE Store
  <2>1. phase = "go" /\ phase' = "stored" /\ UNCHANGED <<pc, step, seen, exit_request>>
    BY <1>15, Zenon DEF Store, ghost, engine, where
  <2> QED BY <2>1, SeenKept DEF InAccess, Early
<1>16. CASE Stored
  <2>1. phase = "stored" /\ Finish /\ UNCHANGED <<pc, step, seen, exit_request>>
    BY <1>16 DEF Stored, where, ghost
  <2>2. kind = "store"
    BY <2>1 DEF Shape, InAccess
  <2> QED BY <1>12, <2>1, <2>2
<1>17. CASE AfterRead
  <2>1. phase = "after" /\ phase' = "check" /\ UNCHANGED <<pc, step, seen, exit_request>>
    BY <1>17 DEF AfterRead, ghost, engine, where
  <2> QED BY <2>1, SeenKept DEF InAccess, Early
<1>18. CASE check_exit_request
  <2>1. phase = "check" /\ pc \in DOMAIN Program
    BY <1>18 DEF check_exit_request, InAccess, Shape
  <2>2. CASE phase' \in {"loop", "next"}
    BY <2>2 DEF Seen, InAccess
  <2>3. CASE phase' = "lookup" /\ frame' = [NoFrame EXCEPT !.at = Insn.addr] /\ seen' = {}
    <3>1. Insn.addr \in Nat
      BY <2>1, InsnProps DEF Insn
    <3>2. frame'.sub = 0
      BY <2>3, <3>1, NoFrameProps
    <3> QED BY <2>3, <3>2 DEF Seen, Early
  <2> QED BY <1>18, <2>2, <2>3 DEF check_exit_request
<1>19. CASE tcg_cpu_exec
  BY <1>19 DEF tcg_cpu_exec, Return, Seen, InAccess
<1> QED BY <1>1, <1>2, <1>3, <1>4, <1>5, <1>6, <1>7, <1>8, <1>9, <1>10, <1>11, <1>13, <1>14,
           <1>15, <1>16, <1>17, <1>18, <1>19 DEF Next

-----------------------------------------------------------------------------
(* The theorems *)

\* The initial states, and what a stuttering step leaves alone.
LEMMA Initially ==
    ASSUME Init
    PROVE  TypeOK /\ Shape /\ Errors /\ Seen /\ ("resident" \in Rules => Recursion)
<1>1. phase = "idle" /\ pc = 1 /\ step = 1 /\ ~InAccess
  BY DEF Init, InAccess
<1>2. TypeOK
  <2>1. mapped \in SUBSET Page /\ perms \in [Page -> SUBSET Perm] /\ present \in SUBSET Page
    BY MapAssumption DEF Init
  <2>2. pc \in 1..Len(Program) + 1
    BY <1>1, ProgramAssumption
  <2>3. mem \in [Byte -> Nat] /\ expect \in [Byte -> Nat] /\ frame \in Frame
    BY NoFrameProps DEF Init
  <2>4. /\ cached = {} /\ tmp = 0 /\ hook = 1 /\ runs = 0
        /\ stop_request = FALSE /\ exit_request = FALSE /\ size_recur_mem = FALSE
    BY Zenon DEF Init
  <2>5. cached \in SUBSET {n \in DOMAIN Program : Program[n].op = "fetch"}
    BY <2>4
  <2>6. tmp \in Nat /\ step \in Nat /\ hook \in Nat \ {0} /\ runs \in Nat
    BY <1>1, <2>4
  <2>7. /\ stop_request \in BOOLEAN /\ exit_request \in BOOLEAN /\ size_recur_mem \in BOOLEAN
        /\ phase \in {"idle", "next", "loop", "lookup", "unmapped", "plain", "permission", "prot",
                       "go", "stored", "after", "check"}
    BY <1>1, <2>4, Zenon
  <2> QED BY <2>1, <2>2, <2>3, <2>5, <2>6, <2>7, Zenon DEF TypeOK
<1>3. Shape /\ Seen
  BY <1>1 DEF Shape, Seen
<1>4. Errors
  BY <1>1 DEF Init, Errors
<1>5. "resident" \in Rules => Recursion
  BY <1>1 DEF Init, Recursion
<1> QED BY <1>2, <1>3, <1>4, <1>5

\* A stuttering step leaves every variable as it is.
LEMMA Stutter ==
    ASSUME UNCHANGED vars
    PROVE  /\ UNCHANGED <<mapped, perms, present, mem, pc, step, cached, phase, frame, hook, tmp>>
           /\ UNCHANGED <<invalid_error, stop_request, exit_request, size_recur_mem, ret, runs>>
           /\ UNCHANGED <<seen, excused, expect>>
BY DEF vars, world, where, engine, calls, ghost

\* The types and the shape of a helper call hold in every state.
LEMMA ShapeInductive == Spec => [](TypeOK /\ Shape)
<1>1. Init => TypeOK /\ Shape
  BY Initially
<1>2. ASSUME TypeOK, Shape, [Next]_vars PROVE TypeOK' /\ Shape'
  <2>1. CASE Next
    BY <1>2, <2>1, TypeStep, ShapeStep, Zenon
  <2>2. CASE UNCHANGED vars
    BY <1>2, <2>2, Stutter, SameInsn, Zenon DEF TypeOK, Shape, InAccess
  <2> QED BY <1>2, <2>1, <2>2
<1> QED BY <1>1, <1>2, PTL DEF Spec

\* A pending error is explained by the access under way in every state.
LEMMA ErrorsInductive == Spec => []Errors
<1>1. Init => Errors
  BY Initially
<1>2. ASSUME TypeOK, Shape, Errors, [Next]_vars PROVE Errors'
  <2>1. CASE Next
    BY <1>2, <2>1, ErrorsStep, Zenon
  <2>2. CASE UNCHANGED vars
    BY <1>2, <2>2, Stutter DEF Errors, Explains, Insn
  <2> QED BY <1>2, <2>1, <2>2
<1> QED BY <1>1, <1>2, ShapeInductive, PTL DEF Spec

\* size_recur_mem is set exactly in a recursive call in every state, when no load
\* faults on its second page.
LEMMA RecursionInductive ==
    ASSUME "resident" \in Rules
    PROVE  Spec => []Recursion
<1>1. Init => Recursion
  BY Initially
<1>2. ASSUME TypeOK, Shape, Recursion, [Next]_vars PROVE Recursion'
  <2>1. CASE Next
    BY <1>2, <2>1, RecursionStep, Zenon
  <2>2. CASE UNCHANGED vars
    <3>1. Insn' = Insn /\ P' = P /\ (InAccess' <=> InAccess)
      BY <2>2, Stutter DEF Insn, P, InAccess
    <3>2. phase' = phase /\ frame' = frame /\ present' = present /\ size_recur_mem' = size_recur_mem
      BY <2>2, Stutter
    <3> QED BY <1>2, <3>1, <3>2, Zenon DEF Recursion
  <2> QED BY <1>2, <2>1, <2>2
<1> QED BY <1>1, <1>2, ShapeInductive, PTL DEF Spec

\* uc_emu_start returns without an error only at the exit address or after a stop,
\* and an error leaves pc at an instruction that makes the access it is about: a
\* failed access sets invalid_error and exit_request together, and nothing but the
\* return or a later success clears them.
THEOREM ErrorsAreReported == Spec => []ErrorReported
<1>1. Errors => ErrorReported
  BY DEF Errors, ErrorReported, Explains
<1> QED BY <1>1, ErrorsInductive, PTL

\* Every READ or WRITE hook that covers a data access has been called for it when
\* the access is over, unless it was cut short: size_recur_mem silences the calls of
\* the helpers by themselves, and is set nowhere else.
THEOREM HooksAreSeen ==
    ASSUME "resident" \in Rules
    PROVE  Spec => []HooksSeen
<1>1. Init => Seen
  BY Initially
<1>2. ASSUME TypeOK, Shape, Errors, Recursion, Seen, [Next]_vars PROVE Seen'
  <2>1. CASE Next
    BY <1>2, <2>1, SeenStep, Zenon
  <2>2. CASE UNCHANGED vars
    BY <1>2, <2>2, Stutter, SameInsn, Zenon DEF Seen, InAccess, Early, Calls, AllCalls
  <2> QED BY <1>2, <2>1, <2>2
<1>3. ASSUME TypeOK, Shape, Seen PROVE HooksSeen
  <2> SUFFICES ASSUME phase = "check", kind # "fetch", ~exit_request
               PROVE  {i \in DOMAIN Hooks[Upper(kind)] :
                           PageOf(Insn.addr) \in Hooks[Upper(kind)][i]} = seen
    BY DEF HooksSeen
  <2> DEFINE L == Hooks[Upper(kind)]
  <2>1. InAccess /\ ~Early
    BY DEF InAccess, Early
  <2>2. seen = AllCalls
    BY <1>3, <2>1 DEF Seen
  <2>3. L \in Seq(SUBSET Page)
    <3>1. Upper(kind) \in DOMAIN Hooks
      BY <1>3, <2>1, KindProps, HooksAssumption DEF Upper, Shape
    <3> QED BY <3>1, HooksAssumption
  <2>4. AllCalls = {i \in DOMAIN L : i < Len(L) + 1 /\ PageOf(Insn.addr) \in L[i]}
    BY DEF AllCalls, Calls
  <2>5. \A i \in DOMAIN L : i < Len(L) + 1
    <3> HIDE DEF L
    <3> QED BY <2>3
  <2> QED BY <2>2, <2>4, <2>5
<1> QED BY <1>1, <1>2, <1>3, ShapeInductive, ErrorsInductive, RecursionInductive, PTL DEF Spec
=============================================================================
