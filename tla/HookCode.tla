------------------------------ MODULE HookCode ------------------------------
(***************************************************************************)
(* Code and block hooks compiled into translated blocks.  The translator   *)
(* looks at the hook lists and the exit addresses when it translates a     *)
(* block and compiles calls and halts into it; the block is then cached    *)
(* while hooks are added and deleted, exits move and the instruction count *)
(* is switched on and off.  uc_hook_del, the end of an emulation and       *)
(* uc_ctl_remove_cache drop the blocks that are out of date.               *)
(*                                                                         *)
(* An instruction is one cell of a region Cells = first .. last, whose     *)
(* pages have PageSize cells.  Going from block to block is modelled by a  *)
(* lookup: TbCache shows that chained jumps reach no block that a lookup   *)
(* would not.  One emulation is active at a time.                          *)
(***************************************************************************)
EXTENDS Integers, Sequences, FiniteSets, SequencesExt, FiniteSetsExt

CONSTANTS
    Cells,      \* the addresses of the region, an interval
    PageSize,   \* TARGET_PAGE_SIZE
    Jumps,      \* Jumps[a]: the targets of the instruction at a, {} when it is
                \* not a jump
    Hook,       \* the hooks of the program
    Count,      \* the hook uc_emu_start registers to count instructions
    Type,       \* Type[h]: "code" or "block", uc_hook_type
    Bounds,     \* Bounds[h]: the addresses in [begin, end] of the hook
    Helper,     \* a call to helper_uc_tracecode
    NoHook,
    Begins,     \* addresses emulations start at
    Untils,     \* the until arguments of uc_emu_start
    Exits,      \* the sets of addresses given to uc_ctl_set_exits
    Counts,     \* the count arguments of uc_emu_start, 0 for none
    MoveExits,  \* where the program may set exits: subset of {"off", "callback"}
    MaxOps      \* API calls in a behaviour

ASSUME HookAssumption == Count \notin Hook /\ Helper \notin Hook /\ NoHook \notin Hook
ASSUME CodeAssumption ==
    /\ Cells \subseteq Nat /\ IsFiniteSet(Cells) /\ PageSize \in Nat \ {0}
    /\ \A a \in Cells : a + 1 \notin Cells => Jumps[a] # {}

VARIABLES
    list,           \* uc->hook[t]: the hooks of a type, in order
    to_delete,      \* hooks with hook->to_delete, or already freed
    hooks_count,    \* uc->hooks_count[t]
    regions,        \* hook->hooked_regions: start and size of hooked blocks
    cache,          \* the block cached for each address, or NoBlock
    cpu,            \* the execution loop
    until,          \* uc->exits[0]
    use_exits, ctl_exits,
    emu_count, emu_counter,
    stop_request,
    setpc,          \* the program counter a callback has written, or -1
    done,           \* instructions executed that their block counts
    due,            \* hooks and addresses for which the cache was removed
    ops

hooks == <<list, to_delete, hooks_count, regions>>
exits == <<until, use_exits, ctl_exits>>
vars  == <<hooks, cache, cpu, exits, emu_count, emu_counter, stop_request, setpc, done, due, ops>>

AnyHook == Hook \cup {Count}
TypeOf(h) == IF h = Count THEN "code" ELSE Type[h]
\* HOOK_BOUND_CHECK without the to_delete test; the count hook has begin > end.
InBounds(h, a) == h = Count \/ a \in Bounds[h]
Page(a) == a \div PageSize

\* A block: its address and size, whether it ends with the halt of an exit address,
\* and the calls compiled into it, at its start and for each instruction.
NoBlock == [pc |-> -1, size |-> 0, stop |-> FALSE, block |-> {}, code |-> [a \in Cells |-> {}]]
\* The loop is "off", looking for a block ("loop"), at the calls before a block or an
\* instruction ("block", "code"), about to execute an instruction ("insn"), or at
\* the halt of an exit address ("halt").  cb is the callback that runs, k and rest
\* the position in the calls.
Off == [at |-> "off", b |-> NoBlock, pc |-> -1, cb |-> NoHook, k |-> 1, rest |-> {}]

Init ==
    /\ list = [t \in {"code", "block"} |-> <<>>]
    /\ to_delete = {} /\ hooks_count = [t \in {"code", "block"} |-> 0]
    /\ regions = [h \in AnyHook |-> {}]
    /\ cache = [a \in Cells |-> NoBlock]
    /\ cpu = Off
    /\ until = -1 /\ use_exits = FALSE /\ ctl_exits = {}
    /\ emu_count = 0 /\ emu_counter = 0 /\ stop_request = FALSE /\ setpc = -1
    /\ done = 0 /\ due = {} /\ ops = 0

-----------------------------------------------------------------------------
(* Dropping blocks. *)

\* uc_addr_is_exit.
uc_addr_is_exit(a) == IF use_exits THEN a \in ctl_exits ELSE a = until

\* Mutant: a block is taken to end one instruction early.
Invalidated_short(lo, hi) ==
    {p \in Cells : /\ cache[p] # NoBlock /\ lo \in Cells
                   /\ p < hi /\ lo < p + cache[p].size - 1}

\* The pages whose list has a halt without instructions at p: its own, and the one
\* of the byte before it.
StubPages(p) == {Page(p)} \cup (IF p - 1 \in Cells THEN {Page(p - 1)} ELSE {})

\* uc_invalidate_tb and tb_invalidate_phys_range: the blocks that overlap lo .. hi-1,
\* and the empty blocks of these pages.
Invalidated(lo, hi) ==
    {p \in Cells : /\ cache[p] # NoBlock /\ lo \in Cells
                   /\ IF cache[p].size > 0 THEN p < hi /\ lo < p + cache[p].size
                      ELSE \E a \in lo .. hi - 1 : Page(a) \in StubPages(p)}

Without(P) == [a \in Cells |-> IF a \in P THEN NoBlock ELSE cache[a]]

-----------------------------------------------------------------------------
(* Translating a block. *)

Live(t) == Range(list[t]) \ to_delete

\* HOOK_EXISTS_BOUNDED and gen_uc_tracecode: one live hook of this type is called
\* directly, several through the helper.
Compiled(t, a) ==
    IF \A h \in Live(t) : ~InBounds(h, a) THEN {}
    ELSE IF hooks_count[t] = 1 THEN Live(t) ELSE {Helper}

\* The instructions of a block at p: up to a jump, an exit or the end of the region.
Insns(p) ==
    {a \in Cells : p <= a /\ \A c \in p .. a : /\ ~uc_addr_is_exit(c)
                                               /\ c < a => Jumps[c] = {}}

\* Mutant: the hooks are noted with the address of the last instruction.
translator_loop_last(p) ==
    LET I == Insns(p)
        size == Cardinality(I)
        b == [pc |-> p, size |-> size, stop |-> (size = 0 \/ Jumps[p + size - 1] = {}),
              block |-> IF size = 0 THEN {} ELSE Compiled("block", p),
              code |-> [a \in Cells |-> IF a \in I THEN Compiled("code", a) ELSE {}]]
    IN  /\ cache' = [cache EXCEPT ![p] = b]
        /\ regions' = [h \in AnyHook |->
                        IF h \in Live(TypeOf(h)) /\ InBounds(h, p + size) THEN regions[h] \cup {<<p, size>>}
                        ELSE regions[h]]

\* translator_loop, disas_insn and hooked_regions_check: the block made of the code at
\* p, and the hooks that will drop it when they are deleted.
translator_loop(p) ==
    LET I == Insns(p)
        size == Cardinality(I)
        b == [pc |-> p, size |-> size, stop |-> (size = 0 \/ Jumps[p + size - 1] = {}),
              block |-> IF size = 0 THEN {} ELSE Compiled("block", p),
              code |-> [a \in Cells |-> IF a \in I THEN Compiled("code", a) ELSE {}]]
    IN  /\ cache' = [cache EXCEPT ![p] = b]
        /\ regions' = [h \in AnyHook |->
                        IF h \in Live(TypeOf(h)) /\ InBounds(h, p) THEN regions[h] \cup {<<p, size>>}
                        ELSE regions[h]]

-----------------------------------------------------------------------------
(* Starting and ending an emulation. *)

\* uc_hook_del: the blocks noted for the hook are dropped, and the hook is not called
\* any more; it leaves the list when the emulation ends (clear_deleted_hooks).
Noted(h) == UNION {Invalidated(r[1], r[1] + r[2]) : r \in regions[h]}

uc_hook_del(h) ==
    /\ cache' = Without(Noted(h))
    /\ regions' = [regions EXCEPT ![h] = {}]
    /\ to_delete' = to_delete \cup {h}
    /\ hooks_count' = [hooks_count EXCEPT ![TypeOf(h)] = @ - 1]

\* Mutant: the hook that counts is appended like any other.
count_setup_append(count) ==
    IF count = 0 /\ Count \in Live("code")
    THEN /\ to_delete' = to_delete \cup {Count}
         /\ hooks_count' = [hooks_count EXCEPT !["code"] = @ - 1]
         /\ regions' = [regions EXCEPT ![Count] = {}]
         /\ cache' = [a \in Cells |-> NoBlock]
         /\ UNCHANGED list
    ELSE IF count > 0 /\ Count \notin Live("code")
    THEN /\ list' = [list EXCEPT !["code"] = Append(@, Count)]
         /\ to_delete' = to_delete \ {Count}
         /\ hooks_count' = [hooks_count EXCEPT !["code"] = @ + 1]
         /\ UNCHANGED <<regions, cache>>
    ELSE UNCHANGED <<hooks, cache>>

\* The part of uc_emu_start about the count: without one the count hook is deleted
\* and every block dropped; with one it is put at the head of the list, and the
\* blocks are left as they are.
count_setup(count) ==
    IF count = 0 /\ Count \in Live("code")
    THEN /\ to_delete' = to_delete \cup {Count}
         /\ hooks_count' = [hooks_count EXCEPT !["code"] = @ - 1]
         /\ regions' = [regions EXCEPT ![Count] = {}]
         /\ cache' = [a \in Cells |-> NoBlock]
         /\ UNCHANGED list
    ELSE IF count > 0 /\ Count \notin Live("code")
    THEN /\ list' = [list EXCEPT !["code"] = <<Count>> \o @]
         /\ to_delete' = to_delete \ {Count}
         /\ hooks_count' = [hooks_count EXCEPT !["code"] = @ + 1]
         /\ UNCHANGED <<regions, cache>>
    ELSE UNCHANGED <<hooks, cache>>

uc_emu_start(begin, end, count) ==
    /\ cpu.at = "off" /\ ops < MaxOps /\ ops' = ops + 1
    /\ emu_counter' = 0 /\ stop_request' = FALSE /\ done' = 0
    /\ emu_count' = count
    /\ count_setup(count)
    /\ until' = IF use_exits THEN until ELSE end
    /\ cpu' = [Off EXCEPT !.at = "loop", !.pc = begin]
    /\ UNCHANGED <<use_exits, ctl_exits, setpc, due>>

\* Mutant: the byte at the exit is invalidated instead of the one before it.
exit_blocks_at(E) == UNION {Invalidated(e, e + 1) : e \in E}

\* uc_exit_invalidate_iter over the exits.
exit_blocks(E) == UNION {Invalidated(e - 1, e) : e \in E \ {0}}

\* The end of resume_all_vcpus and uc_emu_start.
Finish ==
    /\ cache' = Without(exit_blocks(IF use_exits THEN ctl_exits ELSE {until}))
    /\ list' = [t \in DOMAIN list |-> SelectSeq(list[t], LAMBDA h : h \notin to_delete)]
    /\ cpu' = Off
    /\ stop_request' = FALSE /\ setpc' = -1 /\ emu_count' = 0 /\ emu_counter' = 0 /\ done' = 0
    /\ UNCHANGED <<to_delete, hooks_count, regions, exits, due, ops>>

-----------------------------------------------------------------------------
(* The execution loop. *)

quiet == <<exits, emu_count, stop_request, setpc, due, ops>>

\* The loop finds the block cached for pc, or translates it.
Enter(b) == [cpu EXCEPT !.at = "block", !.b = b, !.k = 1, !.rest = b.block \ {Helper}]

tb_find ==
    /\ cpu.at = "loop"
    /\ IF cache[cpu.pc] # NoBlock
       THEN UNCHANGED <<cache, regions>>
       ELSE translator_loop(cpu.pc)
    /\ cpu' = Enter(cache'[cpu.pc])
    /\ UNCHANGED <<list, to_delete, hooks_count, emu_counter, done, quiet>>

\* The calls compiled for where the loop is.
calls == IF cpu.at = "block" THEN cpu.b.block ELSE cpu.b.code[cpu.pc]
AtCalls == cpu.at \in {"block", "code"} /\ cpu.cb = NoHook

\* helper_uc_tracecode: the positions in the list of the hooks it will still call;
\* none once a stop is requested.
Upcoming ==
    {k \in DOMAIN list[cpu.at] : /\ Helper \in calls /\ ~stop_request /\ k >= cpu.k
                                 /\ list[cpu.at][k] \notin to_delete
                                 /\ InBounds(list[cpu.at][k], cpu.pc)}

\* hook_count_cb: the callback of the count hook.
hook_count_cb ==
    /\ emu_counter' = emu_counter + 1
    /\ stop_request' = (stop_request \/ emu_counter + 1 > emu_count)

\* A callback is called: h, at the position k of the list if through the helper.
\* The count hook's does not leave the engine; the others run until they return.
CallBack(h, k) ==
    /\ IF h = Count
       THEN hook_count_cb /\ cpu' = [cpu EXCEPT !.k = k + 1, !.rest = @ \ {h}]
       ELSE /\ cpu' = [cpu EXCEPT !.cb = h, !.k = k + 1, !.rest = @ \ {h}]
            /\ UNCHANGED <<emu_counter, stop_request>>
    /\ UNCHANGED <<hooks, cache, done, exits, emu_count, setpc, due, ops>>

Call ==
    /\ AtCalls
    /\ \/ \E h \in cpu.rest : CallBack(h, cpu.k)
       \/ cpu.rest = {} /\ Upcoming # {} /\ CallBack(list[cpu.at][Min(Upcoming)], Min(Upcoming))

Return ==
    /\ cpu.cb # NoHook
    /\ cpu' = [cpu EXCEPT !.cb = NoHook]
    /\ UNCHANGED <<hooks, cache, emu_counter, done, quiet>>

\* Where the block goes on: at the calls of the instruction at a, or at its halt.
AtInsn(a) ==
    IF a = cpu.b.pc + cpu.b.size
    THEN [cpu EXCEPT !.at = "halt", !.pc = a, !.k = 1, !.rest = {}]
    ELSE [cpu EXCEPT !.at = "code", !.pc = a, !.k = 1, !.rest = cpu.b.code[a] \ {Helper}]

\* The calls are done and check_exit_request, if it was generated, finds no request.
Proceed ==
    /\ AtCalls /\ cpu.rest = {} /\ Upcoming = {}
    /\ (calls = {} /\ cpu.at = "code") \/ (~stop_request /\ setpc = -1)
    /\ cpu' = IF cpu.at = "block" THEN AtInsn(cpu.pc)
              ELSE [cpu EXCEPT !.at = "insn", !.k = 1]
    /\ UNCHANGED <<hooks, cache, emu_counter, done, quiet>>

\* Mutant: going on at a written program counter resets a stop, too.
Leave_setpc ==
    /\ AtCalls /\ cpu.rest = {} /\ Upcoming = {} /\ (calls # {} \/ cpu.at = "block")
    /\ \/ /\ stop_request /\ setpc = -1
          /\ Finish
       \/ /\ setpc # -1
          /\ cpu' = [Off EXCEPT !.at = "loop", !.pc = setpc]
          /\ setpc' = -1 /\ stop_request' = FALSE
          /\ UNCHANGED <<hooks, cache, exits, emu_count, emu_counter, done, due, ops>>

\* Mutant: a stop leaves the block and no more.
Leave_again ==
    /\ AtCalls /\ cpu.rest = {} /\ Upcoming = {} /\ (calls # {} \/ cpu.at = "block")
    /\ stop_request \/ setpc # -1
    /\ cpu' = [Off EXCEPT !.at = "loop", !.pc = IF setpc = -1 THEN cpu.pc ELSE setpc]
    /\ setpc' = -1
    /\ UNCHANGED <<hooks, cache, exits, emu_count, emu_counter, stop_request, done, due, ops>>

\* check_exit_request leaves the block: tcg_cpu_exec ends the emulation when a stop is
\* requested, and goes on at the program counter a callback wrote otherwise.
Leave ==
    /\ AtCalls /\ cpu.rest = {} /\ Upcoming = {} /\ (calls # {} \/ cpu.at = "block")
    /\ \/ stop_request /\ Finish
       \/ /\ ~stop_request /\ setpc # -1
          /\ cpu' = [Off EXCEPT !.at = "loop", !.pc = setpc]
          /\ setpc' = -1
          /\ UNCHANGED <<hooks, cache, exits, emu_count, emu_counter, stop_request, done, due, ops>>

\* The block calls hook h, or the helper that does, for the instruction at a.
CallsFor(b, h, a) == b.code[a] \cap {h, Helper} # {}

\* The instruction is executed.
Execute ==
    /\ cpu.at = "insn"
    /\ IF Jumps[cpu.pc] = {}
       THEN cpu' = AtInsn(cpu.pc + 1)
       ELSE \E a \in Jumps[cpu.pc] : cpu' = [Off EXCEPT !.at = "loop", !.pc = a]
    /\ done' = IF emu_count > 0 /\ CallsFor(cpu.b, Count, cpu.pc) THEN done + 1 ELSE done
    /\ UNCHANGED <<hooks, cache, emu_counter, quiet>>

\* The halt compiled at an exit address ends the emulation.
Halt == cpu.at = "halt" /\ Finish

Engine == tb_find \/ Call \/ Return \/ Proceed \/ Leave \/ Execute \/ Halt

-----------------------------------------------------------------------------
(* What the program and its callbacks do. *)

\* An API call between emulations or from a callback.
ApiCall == (cpu.at = "off" \/ cpu.cb # NoHook) /\ ops < MaxOps /\ ops' = ops + 1
idle == <<cpu, emu_count, emu_counter, done>>

uc_hook_add(h) ==
    /\ ApiCall /\ h \notin to_delete \cup Range(list[Type[h]])
    /\ list' = [list EXCEPT ![Type[h]] = Append(@, h)]
    /\ hooks_count' = [hooks_count EXCEPT ![Type[h]] = @ + 1]
    /\ UNCHANGED <<to_delete, regions, cache, exits, stop_request, setpc, due, idle>>

HookDel(h) ==
    /\ ApiCall /\ h \in Live(Type[h])
    /\ uc_hook_del(h)
    /\ due' = {d \in due : d[1] # h}
    /\ UNCHANGED <<list, exits, stop_request, setpc, idle>>

\* uc_ctl_remove_cache for the instruction at a.
RemoveCache(a) ==
    /\ ApiCall
    /\ cache' = Without(Invalidated(a, a + 1))
    /\ due' = due \cup {<<h, a>> : h \in {g \in Hook : g \in Live(Type[g]) /\ a \in Bounds[g]}}
    /\ UNCHANGED <<hooks, exits, stop_request, setpc, idle>>

\* uc_ctl_exits_enable, uc_ctl_set_exits and uc_ctl_exits_disable.
SetExits(use, E) ==
    /\ ApiCall /\ (IF cpu.at = "off" THEN "off" ELSE "callback") \in MoveExits
    /\ use_exits' = use /\ ctl_exits' = IF use THEN E ELSE ctl_exits
    /\ UNCHANGED <<hooks, cache, until, stop_request, setpc, due, idle>>

\* uc_emu_stop from a callback.
uc_emu_stop ==
    /\ ApiCall /\ cpu.at # "off"
    /\ stop_request' = TRUE
    /\ UNCHANGED <<hooks, cache, exits, setpc, due, idle>>

\* uc_reg_write of the program counter from a callback.
WritePc(a) ==
    /\ ApiCall /\ cpu.at # "off"
    /\ setpc' = a
    /\ UNCHANGED <<hooks, cache, exits, stop_request, due, idle>>

Api ==
    \/ \E h \in Hook : uc_hook_add(h) \/ HookDel(h)
    \/ \E a \in Cells : RemoveCache(a) \/ WritePc(a)
    \/ \E use \in BOOLEAN, E \in Exits : SetExits(use, E)
    \/ uc_emu_stop
    \/ \E begin \in Begins, end \in Untils, count \in Counts : uc_emu_start(begin, end, count)

Next == Engine \/ Api
Spec == Init /\ [][Next]_vars

\* The thread that called uc_emu_start executes the guest; callbacks return.
Fairness == WF_vars(Engine)
FairSpec == Spec /\ Fairness

-----------------------------------------------------------------------------
(* Properties. *)

\* An emulation with a count executes no more instructions than asked for, of those
\* whose block counts, and no callback of the program is called for the one after.
CountKept ==
    emu_count > 0 =>
        /\ done <= emu_count
        /\ cpu.at = "code" /\ cpu.cb # NoHook /\ CallsFor(cpu.b, Count, cpu.pc) => done < emu_count

\* No cached block calls a deleted hook directly, except a block that starts outside
\* the bounds of the hook and reaches into them (hooked_regions_check looks at the
\* start of the block only).
DeletedNotCalled ==
    \A p \in Cells : cache[p] # NoBlock =>
        \A h \in to_delete :
            (h \in cache[p].block \/ \E a \in Cells : h \in cache[p].code[a]) => ~InBounds(h, p)

\* "To ensure any modification to an address will take effect" (docs/FAQ.md): once the
\* cache of an address was removed, every block that reaches the address calls
\* the hooks that existed then; and once a callback has also written the program
\* counter, the block it runs in executes no further instruction.
RemovedTakesEffect ==
    /\ \A d \in due : \A p \in Cells :
        LET b == cache[p] IN
        /\ Type[d[1]] = "code" /\ d[2] \in p .. p + b.size - 1 => CallsFor(b, d[1], d[2])
        /\ Type[d[1]] = "block" /\ d[2] = p /\ b.size > 0 => b.block \cap {d[1], Helper} # {}
    /\ setpc # -1 => cpu.at # "insn"

\* The emulation is ended by the halt of a block only at an address where it was
\* asked to stop: "clear the cache of the exits address [...] if we dont do
\* this, next time we cannot emulate at that address" (resume_all_vcpus).
HaltsAtExit == cpu.at = "halt" => uc_addr_is_exit(cpu.pc)

\* A stop requested in a callback ends the emulation.
StopEnds == stop_request ~> cpu.at = "off"

\* Every cached block, and the running one, counts its instructions.
AllCount ==
    \A b \in {cache[p] : p \in Cells} \cup {cpu.b} : \A a \in b.pc .. b.pc + b.size - 1 : CallsFor(b, Count, a)

\* An emulation with a count ends, whatever the guest does, if the blocks that were
\* cached when it started count.
CountEnds == (cpu.at = "loop" /\ emu_count > 0 /\ AllCount) ~> cpu.at = "off"

\* "Address where emulation stops (i.e. when this address is hit)" (uc_emu_start,
\* unicorn.h): the instruction at the until address is not executed.
UntilHonoured == cpu.at = "insn" => ~uc_addr_is_exit(cpu.pc)
=============================================================================
