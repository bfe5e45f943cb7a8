------------------------------ MODULE MemAccess ------------------------------
(***************************************************************************)
(* One guest memory access, from the call of load_helper or store_helper   *)
(* (qemu/accel/tcg/cputlb.c) to the exit check the translated code makes   *)
(* after it, and the emulation around it: the callbacks of the memory      *)
(* hooks, which may change the memory map, refuse or accept the access and *)
(* stop the emulation; accesses that straddle two pages, done by recursion;*)
(* the guest's page faults; and the loop that retries an instruction or    *)
(* returns from uc_emu_start.                                              *)
(*                                                                         *)
(* Memory is a sequence of bytes in pages of PageSize; every page is a     *)
(* region of its own.  What the helper keeps in C locals across callbacks  *)
(* is kept here: "mr", whether the region it looked up exists; "hit" and   *)
(* "discard", the flags of its copy of the TLB word; and "flushed" and     *)
(* "freed", what has become of the TLB entry and the region meanwhile.     *)
(* Hooks are installed for reads and writes, so that translated code takes *)
(* the helpers and not its inline path (tcg_uc_has_hookmem).  Regions are  *)
(* RAM: device regions are modelled in MemMap, copies on write in          *)
(* Snapshots and the blocks a store invalidates in TbCache.                *)
(***************************************************************************)
EXTENDS Naturals, Sequences, FiniteSets

CONSTANTS
    Page,       \* the pages, numbers from 0
    PageSize,   \* bytes per page
    Program,    \* the instructions: [op, addr, size, val]
    Hooks,      \* [hook type -> sequence of the page sets the hooks cover]
    Layouts,    \* the maps to start from: functions from pages to permissions
    Residents,  \* the sets of pages present in the guest's page table at first
    MaxRuns,    \* how often uc_emu_start is called
    MaxOps,     \* how many calls callbacks make
    Rules       \* what callbacks refrain from, see below

(***************************************************************************)
(* The rules, each necessary for a property below:                         *)
(*  "kept"      no callback unmaps a page of the access it is called for;  *)
(*  "still"     the callbacks of WRITE, READ_PROT, WRITE_PROT and          *)
(*              FETCH_PROT hooks make no call that flushes the TLB;        *)
(*  "nostop"    no callback called for the store of a read-modify-write    *)
(*              instruction stops the emulation;                           *)
(*  "resident"  the second page of a load that straddles two pages is      *)
(*              present in the guest's page table;                         *)
(*  "uniform"   a WRITE_PROT callback handles no byte of a store after an  *)
(*              earlier byte of it was refused.                            *)
(***************************************************************************)
ASSUME RulesAssumption == Rules \subseteq {"kept", "still", "nostop", "resident", "uniform"}

VARIABLES
    mapped,          \* the pages uc_mem_map has mapped
    perms,           \* their permissions (MemoryRegion.perms)
    present,         \* the pages the guest's page table has
    mem,             \* the bytes
    pc, step,        \* the instruction, and which of its accesses is under way
    cached,          \* the fetches done: their blocks are translated
    phase,           \* where in the helper, or in the loop around it, it is
    frame,           \* the locals of the helper
    hook,            \* the position in the hook list being walked
    tmp,             \* what the last load returned
    invalid_error, stop_request, exit_request, size_recur_mem,
    ret,             \* what the last uc_emu_start returned
    runs, ops,       \* calls made so far
    seen,            \* ghost: READ or WRITE hooks called for this access
    excused,         \* ghost: pages a PROT callback let this access through to
    expect           \* ghost: the bytes, had each retired instruction run once

world == <<mapped, perms, present, mem>>
where == <<pc, step, cached>>
engine == <<invalid_error, stop_request, exit_request, size_recur_mem>>
ghost == <<seen, excused, expect>>
calls == <<ret, runs, ops>>
vars == <<world, where, phase, frame, hook, tmp, engine, calls, ghost>>

Byte == 0 .. Cardinality(Page) * PageSize - 1
PageOf(b) == b \div PageSize
Perm == {"r", "w", "x"}
NoError == "OK"

\* The accesses an instruction makes: inc is a load and a store.
Kinds(op) == IF op = "inc" THEN <<"load", "store">> ELSE <<op>>
Insn == Program[pc]
kind == Kinds(Insn.op)[step]
Bytes(i) == i.addr .. i.addr + i.size - 1
Split(i) == PageOf(i.addr) # PageOf(i.addr + i.size - 1)

\* Accesses stay in the address space and span two pages at most; a
\* read-modify-write instruction has one byte.
ASSUME ProgramAssumption ==
    /\ Program \in Seq([op : {"load", "store", "fetch", "inc"}, addr : Nat,
                        size : Nat \ {0}, val : Nat])
    /\ \A n \in DOMAIN Program :
          LET i == Program[n]
          IN  /\ Bytes(i) \subseteq Byte
              /\ \A b \in Bytes(i) : PageOf(b) \in {PageOf(i.addr), PageOf(i.addr + i.size - 1)}
              /\ i.op = "inc" => i.size = 1
ASSUME MapAssumption ==
    /\ \A b \in Byte : PageOf(b) \in Page
    /\ \A l \in Layouts : DOMAIN l \subseteq Page /\ \A p \in DOMAIN l : l[p] \subseteq Perm
    /\ Residents \subseteq SUBSET Page
ASSUME HooksAssumption ==
    Hooks \in [{"READ", "WRITE", "READ_AFTER", "READ_UNMAPPED", "WRITE_UNMAPPED",
               "FETCH_UNMAPPED", "READ_PROT", "WRITE_PROT", "FETCH_PROT"} -> Seq(SUBSET Page)]

\* The permission an access needs, and the names of its hook lists.
Need(k) == CASE k = "load" -> "r" [] k = "store" -> "w" [] k = "fetch" -> "x"
Upper(k) == CASE k = "load" -> "READ" [] k = "store" -> "WRITE" [] k = "fetch" -> "FETCH"
UnmappedError(k) == CASE k = "load" -> "READ_UNMAPPED" [] k = "store" -> "WRITE_UNMAPPED"
                      [] k = "fetch" -> "FETCH_UNMAPPED"
ProtError(k) == CASE k = "load" -> "READ_PROT" [] k = "store" -> "WRITE_PROT"
                  [] k = "fetch" -> "FETCH_PROT"

\* The list walked in a phase.
List == CASE phase = "unmapped" -> Hooks[UnmappedError(kind)]
          [] phase = "prot" -> Hooks[ProtError(kind)]
          [] phase = "plain" -> Hooks[Upper(kind)]
          [] phase = "after" -> Hooks["READ_AFTER"]

\* at is the byte this call of the helper is for, sub its place among the
\* calls of a split access (0: the call from translated code), old the saved
\* size_recur_mem.
NoFrame == [at |-> 0, sub |-> 0, mr |-> FALSE, hit |-> FALSE, discard |-> FALSE,
            flushed |-> FALSE, freed |-> FALSE, handled |-> FALSE, old |-> FALSE]
P == PageOf(frame.at)

Init ==
    /\ \E l \in Layouts : mapped = DOMAIN l /\ perms = [p \in Page |->
                                        IF p \in DOMAIN l THEN l[p] ELSE {}]
    /\ present \in Residents
    /\ "resident" \in Rules => \A n \in DOMAIN Program :
           Program[n].op = "load" /\ Split(Program[n])
               => PageOf(Program[n].addr + Program[n].size - 1) \in present
    /\ mem = [b \in Byte |-> 0] /\ expect = mem
    /\ pc = 1 /\ step = 1 /\ cached = {} /\ phase = "idle" /\ frame = NoFrame /\ hook = 1 /\ tmp = 0
    /\ invalid_error = NoError /\ stop_request = FALSE
    /\ exit_request = FALSE /\ size_recur_mem = FALSE
    /\ ret = NoError /\ runs = 0 /\ ops = 0
    /\ seen = {} /\ excused = {}

----------------------------------------------------------------------------
\* uc_emu_start: from where the last emulation stopped, or from the start.
uc_emu_start ==
    /\ phase = "idle" /\ runs < MaxRuns
    /\ runs' = runs + 1
    /\ pc' = (IF pc > Len(Program) THEN 1 ELSE pc) /\ step' = 1
    /\ invalid_error' = NoError /\ size_recur_mem' = FALSE
    /\ stop_request' = FALSE /\ exit_request' = FALSE
    /\ ret' = NoError /\ phase' = "next"
    /\ UNCHANGED <<world, cached, frame, hook, tmp, ops, ghost>>

\* uc_emu_start returns the error of the emulation and clears it.
Return ==
    /\ ret' = invalid_error /\ invalid_error' = NoError
    /\ phase' = "idle" /\ frame' = NoFrame /\ hook' = 1 /\ tmp' = 0
    /\ seen' = {} /\ excused' = {}

\* The next instruction begins; a fetch is for a block that is not translated.
\* At the exit address the emulation ends.
Begin ==
    /\ phase = "next" /\ pc <= Len(Program)
    /\ frame' = [NoFrame EXCEPT !.at = Insn.addr]
    /\ phase' = (IF pc \in cached THEN "check" ELSE "lookup") /\ seen' = {} /\ excused' = {}
    /\ UNCHANGED <<world, where, hook, tmp, engine, calls, expect>>

AtExit ==
    /\ phase = "next" /\ pc > Len(Program)
    /\ Return
    /\ UNCHANGED <<world, where, stop_request, exit_request, size_recur_mem, runs, ops, expect>>

----------------------------------------------------------------------------
\* What a TLB fill finds: an entry for a mapped page, with writes discarded if
\* its region is read-only, or the blank entry, which nothing hits.
Filled(f) == [f EXCEPT !.hit = PageOf(f.at) \in mapped,
                       !.discard = "w" \notin perms[PageOf(f.at)],
                       !.flushed = FALSE]

\* Mutant: no permission is checked in any recursive call.
WithRegion_recur(k, f) ==
    CASE ~f.mr -> "unmapped"
      [] f.mr /\ size_recur_mem -> "go"
      [] f.mr /\ ~size_recur_mem -> IF k = "load" THEN "plain" ELSE "permission"

\* Where the helper goes with the region it has (mr): data reads call their
\* READ hooks on mapped memory only, stores call WRITE hooks before they look.
\* In a recursive call neither does, and a load checks no permission.
WithRegion(k, f) ==
    CASE ~f.mr -> "unmapped"
      [] f.mr /\ k = "load" -> IF size_recur_mem THEN "go" ELSE "plain"
      [] f.mr /\ k # "load" -> "permission"

AfterLookup(k, f) == IF k = "store" /\ ~size_recur_mem THEN "plain" ELSE WithRegion(k, f)

\* The helper looks its page up and takes the region that is mapped there.
Lookup ==
    /\ phase = "lookup" /\ P \in present
    /\ frame' = [Filled(frame) EXCEPT !.mr = P \in mapped, !.freed = FALSE,
                                      !.handled = FALSE]
    /\ phase' = AfterLookup(kind, frame') /\ hook' = 1
    /\ UNCHANGED <<world, where, tmp, engine, calls, ghost>>

\* The fill raises a page fault: the helper is left by a longjmp to cpu_exec,
\* which calls the interrupt callback.  It makes the page present, and unless
\* an exit was requested the instruction is run again.  A split store faults
\* before it writes.
GuestFault ==
    /\ \E p \in Page \ present :
           /\ \/ phase = "lookup" /\ p = P
              \/ phase = "go" /\ kind = "store" /\ frame.sub = 0 /\ Split(Insn)
                     /\ p = PageOf(Insn.addr + Insn.size - 1)
           /\ present' = present \cup {p}
    /\ step' = 1 /\ phase' = (IF exit_request THEN "loop" ELSE "next") /\ frame' = NoFrame
    /\ seen' = {} /\ excused' = {}
    /\ UNCHANGED <<mapped, perms, mem, pc, cached, hook, tmp, engine, calls, expect>>

----------------------------------------------------------------------------
\* What a callback may call.  Each flushes the TLB, except a uc_mem_protect
\* that leaves the page as writable as it was: the region's readonly flag is
\* what the flat view holds.
Flushed(f) == [f EXCEPT !.flushed = TRUE]

MayFlush == "still" \notin Rules \/ phase = "unmapped" \/ phase = "after"
                \/ (phase = "plain" /\ kind = "load")

AccessPages == {PageOf(b) : b \in Bytes(Insn)}

uc_mem_map(p, f) ==
    /\ MayFlush /\ p \in Page \ mapped
    /\ mapped' = mapped \cup {p}
    /\ \E q \in {{"r", "w", "x"}, {"r"}} : perms' = [perms EXCEPT ![p] = q]
    /\ mem' = [b \in Byte |-> IF PageOf(b) = p THEN 0 ELSE mem[b]]
    /\ expect' = [b \in Byte |-> IF PageOf(b) = p THEN 0 ELSE expect[b]]
    /\ frame' = Flushed(f)
    /\ UNCHANGED <<cached, stop_request, exit_request>>

uc_mem_unmap(p, f) ==
    /\ MayFlush /\ p \in mapped
    /\ "kept" \in Rules => p \notin AccessPages
    /\ mapped' = mapped \ {p}
    /\ perms' = [perms EXCEPT ![p] = {}]
    /\ mem' = [b \in Byte |-> IF PageOf(b) = p THEN 0 ELSE mem[b]]
    /\ expect' = [b \in Byte |-> IF PageOf(b) = p THEN 0 ELSE expect[b]]
    /\ frame' = [Flushed(f) EXCEPT !.freed = @ \/ (f.mr /\ p = P)]
    /\ cached' = {n \in cached : PageOf(Program[n].addr) # p}
    /\ UNCHANGED <<stop_request, exit_request>>

\* Execute permission is not taken away: that ends the emulation (EmuControl).
uc_mem_protect(p, f) ==
    /\ p \in mapped
    /\ \E q \in SUBSET Perm :
           /\ q # perms[p] /\ perms[p] \cap {"x"} \subseteq q
           /\ LET toggles == ("w" \in q) # ("w" \in perms[p])
              IN  /\ toggles => MayFlush
                  /\ frame' = IF toggles THEN Flushed(f) ELSE f
           /\ perms' = [perms EXCEPT ![p] = q]
    /\ UNCHANGED <<mapped, mem, cached, expect, stop_request, exit_request>>

uc_emu_stop(f) ==
    /\ "nostop" \in Rules => ~(Insn.op = "inc" /\ step = 2)
    /\ stop_request' = TRUE /\ exit_request' = TRUE
    /\ frame' = f
    /\ UNCHANGED <<mapped, perms, mem, cached, expect>>

Walking == phase \in {"unmapped", "prot", "plain", "after"}

\* The hooks of the list from position n on that cover the page.
Covering(n) == {i \in n .. Len(List) : P \in List[i]}

\* With an error pending a load calls no UNMAPPED hooks.
Skipped == phase = "unmapped" /\ kind # "store" /\ invalid_error # NoError

\* The answers of a callback: those of READ and WRITE hooks are not asked.
Answers ==
    IF phase \notin {"unmapped", "prot"} THEN {FALSE}
    ELSE IF phase = "prot" /\ invalid_error # NoError /\ "uniform" \in Rules THEN {FALSE}
    ELSE BOOLEAN

\* A callback: it may make a call, and says whether it handled the access, if
\* it is asked.  The walk goes on until a callback handles it or asks to stop.
Callback ==
    /\ Walking /\ ~Skipped /\ Covering(hook) # {}
    /\ LET i == CHOOSE j \in Covering(hook) : \A k \in Covering(hook) : j <= k
       IN  /\ \E h \in Answers :
                  LET f == [frame EXCEPT !.handled = h]
                  IN  /\ \/ /\ ops < MaxOps
                            /\ \/ \E p \in Page : \/ uc_mem_map(p, f)
                                                  \/ uc_mem_unmap(p, f)
                                                  \/ uc_mem_protect(p, f)
                               \/ uc_emu_stop(f)
                            /\ ops' = ops + 1
                         \/ /\ frame' = f
                            /\ UNCHANGED <<mapped, perms, mem, cached, expect,
                                           stop_request, exit_request, ops>>
                      /\ hook' = IF h \/ stop_request' THEN Len(List) + 1 ELSE i + 1
           /\ seen' = IF phase = "plain" THEN seen \cup {i} ELSE seen
    /\ UNCHANGED <<present, pc, step, phase, tmp, invalid_error, size_recur_mem, ret, runs, excused>>

Walked == Walking /\ (Skipped \/ Covering(hook) = {})

----------------------------------------------------------------------------
\* Mutant: a store that fails does not ask for the exit from the block.
Fail_noexit(e) ==
    /\ invalid_error' = e /\ exit_request' = (exit_request \/ kind # "store")
    /\ phase' = IF kind = "store" THEN "stored" ELSE "loop"
    /\ hook' = 1
    /\ UNCHANGED <<world, where, tmp, stop_request, size_recur_mem, calls, seen, expect>>

\* An access fails with an error: a load or fetch leaves the helper and the
\* block by a longjmp, a store returns to its caller.
Fail(e) ==
    /\ invalid_error' = e /\ exit_request' = TRUE
    /\ phase' = IF kind = "store" THEN "stored" ELSE "loop"
    /\ hook' = 1
    /\ UNCHANGED <<world, where, tmp, stop_request, size_recur_mem, calls, seen, expect>>

\* Mutant: a handled access to memory that is still unmapped is tried again.
AfterUnmapped_again ==
    /\ Walked /\ phase = "unmapped"
    /\ \/ /\ ~frame.handled
          /\ Fail(IF Skipped THEN invalid_error ELSE UnmappedError(kind))
          /\ UNCHANGED <<frame, excused>>
       \/ /\ frame.handled
          /\ invalid_error' = NoError
          /\ frame' = [(IF frame.hit THEN frame ELSE Filled(frame)) EXCEPT !.mr = P \in mapped]
          /\ phase' = WithRegion(kind, frame') /\ hook' = 1
          /\ UNCHANGED <<world, where, tmp, stop_request, exit_request,
                         size_recur_mem, calls, ghost>>

\* After the UNMAPPED hooks: a handled access looks its page up again, since
\* the copy of the TLB word is the blank entry's, and goes on if there is a
\* region now.
AfterUnmapped ==
    /\ Walked /\ phase = "unmapped"
    /\ \/ /\ ~frame.handled
          /\ Fail(IF Skipped THEN invalid_error ELSE UnmappedError(kind))
          /\ UNCHANGED <<frame, excused>>
       \/ /\ frame.handled /\ P \notin mapped
          /\ Fail("MAP")
          /\ UNCHANGED <<frame, excused>>
       \/ /\ frame.handled /\ P \in mapped
          /\ invalid_error' = NoError
          /\ frame' = [(IF frame.hit THEN frame ELSE Filled(frame)) EXCEPT !.mr = TRUE]
          /\ phase' = WithRegion(kind, frame') /\ hook' = 1
          /\ UNCHANGED <<world, where, tmp, stop_request, exit_request,
                         size_recur_mem, calls, ghost>>

\* Mutant: the load does not look whether its TLB entry was flushed.
AfterPlain_norefill ==
    /\ Walked /\ phase = "plain"
    /\ phase' = (IF frame.mr THEN "permission" ELSE "unmapped") /\ hook' = 1
    /\ UNCHANGED <<world, where, frame, tmp, engine, calls, ghost>>

\* After the READ or WRITE hooks: only the load looks whether the TLB was
\* flushed meanwhile; neither takes the region anew.
AfterPlain ==
    /\ Walked /\ phase = "plain"
    /\ frame' = IF kind = "load" /\ frame.flushed THEN Filled(frame) ELSE frame
    /\ phase' = (IF frame.mr THEN "permission" ELSE "unmapped") /\ hook' = 1
    /\ UNCHANGED <<world, where, tmp, engine, calls, ghost>>

\* The region's permissions are read as they are now.
Permission ==
    /\ phase = "permission"
    /\ phase' = (IF Need(kind) \in perms[P] THEN "go" ELSE "prot") /\ hook' = 1
    /\ frame' = [frame EXCEPT !.handled = FALSE]
    /\ UNCHANGED <<world, where, tmp, engine, calls, ghost>>

\* After the PROT hooks: a handled access goes on as it is, whatever the
\* permissions are now.
AfterProt ==
    /\ Walked /\ phase = "prot"
    /\ \/ /\ ~frame.handled
          /\ Fail(ProtError(kind))
          /\ UNCHANGED <<frame, excused>>
       \/ /\ frame.handled
          /\ invalid_error' = NoError
          /\ frame' = IF frame.hit THEN frame ELSE Filled(frame)
          /\ excused' = excused \cup {P}
          /\ phase' = "go" /\ hook' = 1
          /\ UNCHANGED <<world, where, tmp, stop_request, exit_request,
                         size_recur_mem, calls, seen, expect>>

----------------------------------------------------------------------------
Straddles == frame.sub = 0 /\ Split(Insn)

\* Mutant: the bytes of a split store after its first are all written to its last.
CallFor_same(n, f) == [NoFrame EXCEPT !.sub = n, !.old = f.old,
                          !.at = IF n = 1 THEN Insn.addr ELSE Insn.addr + Insn.size - 1]

\* A split access is done by calls of the helper: a load by two, for the
\* aligned words around it, a store by one for each byte.
CallFor(n, f) == [NoFrame EXCEPT !.sub = n, !.old = f.old,
                     !.at = IF kind = "store" \/ n = 1 THEN Insn.addr + n - 1
                            ELSE Insn.addr + Insn.size - 1]

BeginSplit ==
    /\ phase = "go" /\ Straddles /\ kind # "fetch"
    /\ kind = "store" => PageOf(Insn.addr + Insn.size - 1) \in present
    /\ size_recur_mem' = TRUE
    /\ frame' = CallFor(1, [frame EXCEPT !.old = size_recur_mem])
    /\ phase' = "lookup"
    /\ UNCHANGED <<world, where, hook, tmp, invalid_error, stop_request,
                   exit_request, calls, ghost>>

\* The calls a split access is made of.
Parts == IF kind = "store" THEN Insn.size ELSE 2

\* Mutant: size_recur_mem is not restored after a split access.
Finish_stuck ==
    IF frame.sub \in 1 .. Parts - 1
      THEN /\ frame' = CallFor(frame.sub + 1, frame)
           /\ phase' = "lookup"
           /\ UNCHANGED size_recur_mem
      ELSE /\ frame' = [frame EXCEPT !.at = Insn.addr, !.sub = 0]
           /\ phase' = IF kind = "load" /\ ~size_recur_mem THEN "after" ELSE "check"
           /\ UNCHANGED size_recur_mem

\* One call of the helper is over: the next one of a split access, or back to
\* translated code, by way of the READ_AFTER hooks for a load.
Finish ==
    IF frame.sub \in 1 .. Parts - 1
      THEN /\ frame' = CallFor(frame.sub + 1, frame)
           /\ phase' = "lookup"
           /\ UNCHANGED size_recur_mem
      ELSE /\ size_recur_mem' = IF frame.sub = 0 THEN size_recur_mem ELSE frame.old
           /\ frame' = [frame EXCEPT !.at = Insn.addr, !.sub = 0]
           /\ phase' = IF kind = "load" /\ ~size_recur_mem' THEN "after" ELSE "check"

Load ==
    /\ phase = "go" /\ kind = "load" /\ ~Straddles
    /\ tmp' = IF frame.hit THEN mem[frame.at] ELSE 0
    /\ Finish /\ hook' = 1
    /\ UNCHANGED <<world, where, invalid_error, stop_request, exit_request, calls, ghost>>

Fetch ==
    /\ phase = "go" /\ kind = "fetch"
    /\ phase' = "check" /\ cached' = cached \cup {pc}
    /\ UNCHANGED <<world, pc, step, frame, hook, tmp, engine, calls, ghost>>

\* The bytes this call of store_helper writes, and what; a copy of the TLB word
\* with TLB_DISCARD_WRITE drops the write.
Store ==
    /\ phase = "go" /\ kind = "store" /\ ~Straddles
    /\ mem' = [b \in Byte |->
                 IF ~frame.discard /\ b \in (IF frame.sub = 0 THEN Bytes(Insn) ELSE {frame.at})
                 THEN (IF Insn.op = "inc" THEN tmp + 1 ELSE Insn.val) ELSE mem[b]]
    /\ phase' = "stored"
    /\ UNCHANGED <<mapped, perms, present, where, frame, hook, tmp, engine, calls, ghost>>

Stored ==
    /\ phase = "stored"
    /\ Finish /\ hook' = 1
    /\ UNCHANGED <<world, where, tmp, invalid_error, stop_request, exit_request, calls, ghost>>

AfterRead ==
    /\ Walked /\ phase = "after"
    /\ phase' = "check" /\ hook' = 1
    /\ UNCHANGED <<world, where, frame, tmp, engine, calls, ghost>>

\* The bytes after an instruction retires, each applied once.  A page whose
\* WRITE_PROT callback let the store through keeps its bytes, those an earlier
\* attempt at the store wrote included.
Applied(i) ==
    [b \in Byte |->
        CASE b \in Bytes(i) /\ i.op = "store"
                 /\ (PageOf(b) \in excused => mem[b] = i.val) -> i.val
          [] b \in Bytes(i) /\ i.op = "inc" /\ PageOf(b) \notin excused -> expect[b] + 1
          [] OTHER -> expect[b]]

\* The exit check after an access.  A requested exit leaves the block with pc
\* at the instruction; otherwise the next access, or the next instruction.
check_exit_request ==
    /\ phase = "check"
    /\ \/ /\ exit_request
          /\ phase' = "loop"
          /\ UNCHANGED <<where, frame, ghost>>
       \/ /\ ~exit_request /\ step < Len(Kinds(Insn.op))
          /\ step' = step + 1
          /\ frame' = [NoFrame EXCEPT !.at = Insn.addr]
          /\ phase' = "lookup" /\ seen' = {} /\ excused' = {}
          /\ UNCHANGED <<pc, cached, expect>>
       \/ /\ ~exit_request /\ step = Len(Kinds(Insn.op))
          /\ pc' = pc + 1 /\ step' = 1 /\ cached' = cached
          /\ expect' = Applied(Insn)
          /\ frame' = NoFrame /\ phase' = "next" /\ seen' = {} /\ excused' = {}
    /\ UNCHANGED <<world, hook, tmp, engine, calls>>

\* cpu_exec has returned to tcg_cpu_exec: a stop or an error ends the
\* emulation, otherwise the instruction is run again.
tcg_cpu_exec ==
    /\ phase = "loop"
    /\ exit_request' = FALSE /\ step' = 1
    /\ \/ /\ stop_request \/ invalid_error # NoError
          /\ Return
          /\ UNCHANGED size_recur_mem
       \/ /\ ~stop_request /\ invalid_error = NoError
          /\ size_recur_mem' = FALSE
          /\ phase' = "next" /\ frame' = NoFrame /\ hook' = 1 /\ tmp' = 0
          /\ seen' = {} /\ excused' = {}
          /\ UNCHANGED <<invalid_error, ret>>
    /\ UNCHANGED <<world, pc, cached, stop_request, runs, ops, expect>>

Next ==
    \/ uc_emu_start \/ Begin \/ AtExit \/ Lookup \/ GuestFault \/ Callback
    \/ AfterUnmapped \/ AfterPlain \/ Permission \/ AfterProt
    \/ BeginSplit \/ Load \/ Fetch \/ Store \/ Stored \/ AfterRead
    \/ check_exit_request \/ tcg_cpu_exec

Spec == Init /\ [][Next]_vars

\* The thread that emulates keeps running: callbacks return.
FairSpec == Spec /\ WF_vars(Next /\ phase # "idle")
----------------------------------------------------------------------------

\* load_helper and store_helper go to memory through a TLB entry that still is
\* the page's, and read the permissions of a region that still exists, however
\* callbacks changed the memory map since they were looked up.
EntryLive ==
    /\ phase = "go" /\ ~Straddles => ~frame.flushed
    /\ phase \in {"permission", "go"} => ~frame.freed

\* Memory is reached with the permission the access needs, or because a PROT
\* callback let this access through.  The one exception is the second page of
\* a load that straddles two pages: load_helper checks no permission in the
\* calls it makes of itself.
Checked ==
    phase = "go" /\ ~(kind = "load" /\ frame.sub = 2)
        => Need(kind) \in perms[P] \/ P \in excused

\* Between instructions memory holds what the instructions that retired wrote,
\* each applied once, over stops, errors, faults and retries: check_exit_request
\* leaves pc at an instruction, which runs again from its start.  A store that pc
\* is at may have written some or all of its bytes.
AppliedOnce ==
    phase \in {"idle", "next"} =>
        \A b \in Byte : \/ mem[b] = expect[b]
                        \/ /\ pc <= Len(Program) /\ b \in Bytes(Insn)
                           /\ Insn.op = "store" /\ mem[b] = Insn.val

\* uc_emu_start returns without an error only at the exit address or after a
\* stop: an access that a callback refused is not passed over.  An error leaves
\* pc at an instruction that makes that kind of access.
ErrorReported ==
    phase = "idle" /\ runs > 0 =>
        /\ ret = NoError => stop_request \/ pc > Len(Program)
        /\ ret # NoError => /\ pc <= Len(Program)
                            /\ \/ ret = "MAP"
                               \/ \E n \in DOMAIN Kinds(Insn.op) :
                                      LET k == Kinds(Insn.op)[n]
                                      IN  ret \in {UnmappedError(k), ProtError(k)}

\* When a data access is over, every READ or WRITE hook that covers it has been
\* called for it, straddling accesses included, unless a stop or an error cut
\* the access short: size_recur_mem silences the calls within an access and
\* nothing else.
HooksSeen ==
    phase = "check" /\ kind # "fetch" /\ ~exit_request =>
        {i \in DOMAIN Hooks[Upper(kind)] : PageOf(Insn.addr) \in Hooks[Upper(kind)][i]} = seen

\* Every emulation returns: an access that callbacks keep handling either goes
\* through or fails with UC_ERR_MAP, and a retried instruction gets on.
Returns == phase # "idle" ~> phase = "idle"
=============================================================================
