------------------------------- MODULE Hooks -------------------------------
(***************************************************************************)
(* The hook registry of uc.c: one linked list of struct hook per hook type *)
(* (uc->hook[i]), reference counts, deferred deletion (to_delete and       *)
(* uc->hooks_to_del), the instruction-count hook that uc_emu_start inserts *)
(* at the head of the code list, and the loop of helper_uc_tracecode that  *)
(* runs callbacks, which may themselves add and delete hooks, stop the     *)
(* emulation or start a nested one.                                        *)
(*                                                                         *)
(* The registry is used by one thread; a step is one whole API call, or    *)
(* one iteration of a loop that calls user code or frees memory.           *)
(***************************************************************************)
EXTENDS Integers, Sequences, FiniteSets, SequencesExt

CONSTANTS
    Hook,           \* addresses calloc may return for a struct hook
    NoHook,         \* the null uc_hook
    Idx,            \* the hook type indices in use, ordered as in uc_hook_idx
    INSN_IDX, CODE_IDX, BLOCK_IDX, TCG_OPCODE_IDX,
    MAX_NESTED,     \* UC_MAX_NESTED_LEVEL
    NoMemAt         \* calls in which malloc of a list item may fail:
                    \* a subset of {"add", "count", "del"}

ASSUME IdxAssumption ==
    /\ Idx \subseteq Nat /\ IsFiniteSet(Idx)
    /\ {INSN_IDX, CODE_IDX, BLOCK_IDX, TCG_OPCODE_IDX} \subseteq Idx
    /\ CODE_IDX \notin {INSN_IDX, TCG_OPCODE_IDX}
ASSUME HookAssumption == NoHook \notin Hook
ASSUME NestedAssumption == MAX_NESTED \in Nat
ASSUME NoMemAssumption == NoMemAt \subseteq {"add", "count", "del"}

VARIABLES
    hook,           \* uc->hook[i].head: the hooks of each list, in order
    hooks_to_del,   \* uc->hooks_to_del, one item per list the hook was in
    hooks_count,    \* uc->hooks_count[i]
    count_hook,     \* uc->count_hook
    heap,           \* the struct hooks that are allocated
    refs,           \* hook->refs
    to_delete,      \* hook->to_delete
    nested_level,   \* uc->nested_level
    stop_request,   \* uc->stop_request
    iters,          \* loops over a hook list that are inside a callback
    phase,          \* "open", or the loop of clear_deleted_hooks/uc_close that runs
    pos,            \* items of hooks_to_del that loop has passed
    closing         \* clear_deleted_hooks was called by uc_close

lists == <<hook, hooks_to_del, hooks_count, heap, refs, to_delete>>
vars  == <<lists, count_hook, nested_level, stop_request, iters, phase, pos, closing>>

\* What a loop does when a callback has requested a stop: end ("stop"), revert
\* the request and go on ("nostop"), or go on ("all").
Kind == {"stop", "nostop", "all"}
\* The emulation level a loop belongs to, its list, the hook under its cursor,
\* and whether it returns after this callback.
Iter == [level : Nat, index : Idx, cur : Hook, kind : Kind, last : BOOLEAN]

\* Types of the state of the registry; the nesting limit of uc_emu_start holds.
TypeOK ==
    /\ hook \in [Idx -> Seq(Hook)]
    /\ hooks_to_del \in Seq(Hook)
    /\ hooks_count \in [Idx -> Int]
    /\ count_hook \in Hook \cup {NoHook}
    /\ heap \in SUBSET Hook
    /\ refs \in [Hook -> Int]
    /\ to_delete \in [Hook -> BOOLEAN]
    /\ nested_level \in 0..MAX_NESTED
    /\ stop_request \in BOOLEAN
    /\ iters \in Seq(Iter)
    /\ phase \in {"open", "unlink", "free", "close", "closed"}
    /\ pos \in Nat
    /\ closing \in BOOLEAN

Init ==
    /\ hook = [i \in Idx |-> <<>>]
    /\ hooks_to_del = <<>>
    /\ hooks_count = [i \in Idx |-> 0]
    /\ count_hook = NoHook
    /\ heap = {}
    /\ refs = [h \in Hook |-> 0]
    /\ to_delete = [h \in Hook |-> FALSE]
    /\ nested_level = 0
    /\ stop_request = FALSE
    /\ iters = <<>>
    /\ phase = "open"
    /\ pos = 0
    /\ closing = FALSE

-----------------------------------------------------------------------------
(* Helpers *)

\* The lists a hook is linked in, and its items of hooks_to_del not yet freed
\* by the list_clear that ends clear_deleted_hooks.
Lists(h) == {i \in Idx : Contains(hook[i], h)}
Freed == IF phase = "free" THEN pos ELSE 0
Pending(h) == {k \in DOMAIN hooks_to_del : k > Freed /\ hooks_to_del[k] = h}

\* A hook is linked at most once in a list.
Position(i, h) == CHOOSE q \in DOMAIN hook[i] : hook[i][q] = h

\* A callback of the current emulation level is running.
InCallback == iters # <<>> /\ Last(iters).level = nested_level
\* User code runs outside emulations, and inside callbacks other than the
\* instruction counter hook_count_cb, which may only stop the emulation.
InUser == phase = "open" /\ (nested_level = 0 \/ (InCallback /\ Last(iters).cur # count_hook))
InEngine == phase = "open" /\ nested_level > 0 /\ ~InCallback

\* MUTANT: the test for the last reference is off by one.
hook_delete_early(h) ==
    /\ refs' = [refs EXCEPT ![h] = @ - 1]
    /\ heap' = IF refs[h] = 2 THEN heap \ {h} ELSE heap

hook_delete(h) ==
    /\ refs' = [refs EXCEPT ![h] = @ - 1]
    /\ heap' = IF refs[h] = 1 THEN heap \ {h} ELSE heap

\* The lists uc_hook_add links a hook of these type bits into.
ListsOf(types) ==
    IF INSN_IDX \in types THEN {INSN_IDX}
    ELSE IF TCG_OPCODE_IDX \in types THEN {TCG_OPCODE_IDX}
    ELSE types

\* The lists are filled in ascending order until a list item cannot be
\* allocated: what uc_hook_add may have linked when it returns.
Linked(target, call) ==
    {put \in SUBSET target :
        /\ \A i \in put, j \in target : j < i => j \in put
        /\ put = target \/ call \in NoMemAt}

\* MUTANT: uc->hook_insert is ignored.
uc_hook_add_append(h, types, put, front) ==
    /\ hook' = [i \in Idx |-> IF i \in put THEN Append(hook[i], h) ELSE hook[i]]
    /\ hooks_count' = [i \in Idx |-> hooks_count[i] + (IF i \in put THEN 1 ELSE 0)]
    /\ refs' = [refs EXCEPT ![h] = Cardinality(put)]
    /\ to_delete' = [to_delete EXCEPT ![h] = FALSE]
    /\ heap' = IF put = ListsOf(types) /\ put # {} THEN heap \cup {h} ELSE heap
    /\ UNCHANGED hooks_to_del

\* uc_hook_add for hook h, linked into put; h is freed if an item was missing
\* or no list was asked for.
uc_hook_add(h, types, put, front) ==
    /\ hook' = [i \in Idx |->
                  IF i \notin put THEN hook[i]
                  ELSE IF front THEN Cons(h, hook[i]) ELSE Append(hook[i], h)]
    /\ hooks_count' = [i \in Idx |-> hooks_count[i] + (IF i \in put THEN 1 ELSE 0)]
    /\ refs' = [refs EXCEPT ![h] = Cardinality(put)]
    /\ to_delete' = [to_delete EXCEPT ![h] = FALSE]
    /\ heap' = IF put = ListsOf(types) /\ put # {} THEN heap \cup {h} ELSE heap
    /\ UNCHANGED hooks_to_del

\* MUTANT: the loop over the lists stops at the first list that holds the hook.
uc_hook_del_break(h, kept) ==
    /\ to_delete' = [to_delete EXCEPT ![h] = @ \/ Lists(h) # {}]
    /\ hooks_count' = [i \in Idx |->
          hooks_count[i] - (IF i \in Lists(h) /\ \A j \in Lists(h) : i <= j THEN 1 ELSE 0)]
    /\ hooks_to_del' = IF kept = 0 THEN hooks_to_del ELSE Append(hooks_to_del, h)
    /\ refs' = [refs EXCEPT ![h] = @ + (IF kept = 0 THEN 0 ELSE 1)]
    /\ UNCHANGED <<hook, heap>>

\* uc_hook_del for hook h; kept counts the items hook_append could allocate.
uc_hook_del(h, kept) ==
    /\ to_delete' = [to_delete EXCEPT ![h] = @ \/ Lists(h) # {}]
    /\ hooks_count' = [i \in Idx |-> hooks_count[i] - (IF i \in Lists(h) THEN 1 ELSE 0)]
    /\ hooks_to_del' = hooks_to_del \o [k \in 1..kept |-> h]
    /\ refs' = [refs EXCEPT ![h] = @ + kept]
    /\ UNCHANGED <<hook, heap>>

Kept(h) == IF "del" \in NoMemAt THEN 0..Cardinality(Lists(h)) ELSE {Cardinality(Lists(h))}

-----------------------------------------------------------------------------
(* API calls made by user code *)

HookAdd(h, types, put) ==
    /\ InUser
    /\ h \notin heap
    /\ uc_hook_add(h, types, put, FALSE)
    /\ UNCHANGED <<count_hook, nested_level, stop_request, iters, phase, pos, closing>>

\* The caller holds the handle and has not deleted it before: "After this, @hh
\* is invalid" (unicorn.h).
HookDel(h, kept) ==
    /\ InUser
    /\ h \in heap /\ h # count_hook /\ ~to_delete[h]
    /\ uc_hook_del(h, kept)
    /\ UNCHANGED <<count_hook, nested_level, stop_request, iters, phase, pos, closing>>

\* Instruction counting is off or already set up as requested.
EmuStart(counting) ==
    /\ InUser /\ nested_level < MAX_NESTED
    /\ counting = (count_hook # NoHook)
    /\ nested_level' = nested_level + 1
    /\ stop_request' = FALSE
    /\ UNCHANGED <<lists, count_hook, iters, phase, pos, closing>>

\* count <= 0: a count hook left by an earlier call is removed.
EmuStartUncount(kept) ==
    /\ InUser /\ nested_level < MAX_NESTED
    /\ count_hook # NoHook
    /\ uc_hook_del(count_hook, kept)
    /\ count_hook' = NoHook
    /\ nested_level' = nested_level + 1
    /\ stop_request' = FALSE
    /\ UNCHANGED <<iters, phase, pos, closing>>

\* count > 0: the count hook is inserted before every other code hook. When the
\* list item cannot be allocated uc_emu_start returns, and uc->count_hook keeps
\* the address uc_hook_add stored before it freed the hook.
EmuStartCount(h, put) ==
    /\ InUser /\ nested_level < MAX_NESTED
    /\ count_hook = NoHook
    /\ h \notin heap
    /\ uc_hook_add(h, {CODE_IDX}, put, TRUE)
    /\ count_hook' = h
    /\ nested_level' = IF put # {} THEN nested_level + 1 ELSE nested_level
    /\ stop_request' = FALSE
    /\ UNCHANGED <<iters, phase, pos, closing>>

EmuStop ==
    /\ phase = "open" /\ (nested_level = 0 \/ InCallback)
    /\ stop_request' = TRUE
    /\ UNCHANGED <<lists, count_hook, nested_level, iters, phase, pos, closing>>

Close ==
    /\ InUser /\ nested_level = 0
    /\ phase' = "unlink" /\ pos' = 0 /\ closing' = TRUE
    /\ UNCHANGED <<lists, count_hook, nested_level, stop_request, iters>>

-----------------------------------------------------------------------------
(* The engine: hook dispatch and the end of an emulation *)

\* The hooks of list i after position p whose callback may be the next to run:
\* a hook marked to_delete is skipped, one whose bounds do not hold the address
\* may be.
Callable(i, p) == {h \in Hook : \E q \in DOMAIN hook[i] :
                        q > p /\ hook[i][q] = h /\ ~to_delete[h]}
FirstCallable(i, h) ==
    /\ h \in Callable(i, 0)
    /\ \A g \in Callable(i, 0) : Position(i, h) <= Position(i, g)

\* helper_uc_tracecode (code and block hooks), helper_uc_traceopcode (one TCG
\* opcode hook), and the HOOK_FOREACH loops over the other lists.
Traced == {CODE_IDX, BLOCK_IDX, TCG_OPCODE_IDX}
Kinds(i) == IF i \in {CODE_IDX, BLOCK_IDX} THEN {"stop", "nostop"}
            ELSE IF i = TCG_OPCODE_IDX THEN {"stop"} ELSE {"stop", "all"}

\* A loop up to its first callback. The trace helpers return when a stop is
\* already requested, or revert it (nostop: inside an ARM IT block). An invalid
\* block or instruction (size 0) reaches the instruction counter only.
Trace(i, h, kind, invalid) ==
    /\ InEngine
    /\ kind \in Kinds(i)
    /\ stop_request /\ i \in Traced => kind = "nostop"
    /\ h \in Callable(i, 0)
    /\ invalid => i = CODE_IDX /\ count_hook # NoHook /\ FirstCallable(i, h)
    /\ iters' = Append(iters, [level |-> nested_level, index |-> i, cur |-> h, kind |-> kind,
                               last |-> invalid \/ i = TCG_OPCODE_IDX])
    /\ stop_request' = (stop_request /\ kind # "nostop")
    /\ UNCHANGED <<lists, count_hook, nested_level, phase, pos, closing>>

\* No hook of the list takes the event; in an ARM IT block the stop request is
\* still reverted.
TraceNone ==
    /\ InEngine
    /\ stop_request
    /\ stop_request' = FALSE
    /\ UNCHANGED <<lists, count_hook, nested_level, iters, phase, pos, closing>>

\* The callback returns and the loop goes on to the callback of h.
CallbackNext(h) ==
    LET it == Last(iters) IN
    /\ phase = "open" /\ InCallback
    /\ ~it.last
    /\ stop_request => it.kind # "stop"
    /\ h \in Callable(it.index, Position(it.index, it.cur))
    /\ iters' = Append(Front(iters), [it EXCEPT !.cur = h])
    /\ stop_request' = (stop_request /\ it.kind # "nostop")
    /\ UNCHANGED <<lists, count_hook, nested_level, phase, pos, closing>>

\* The callback returns and no further callback runs.
CallbackLast ==
    LET it == Last(iters) IN
    /\ phase = "open" /\ InCallback
    /\ iters' = Front(iters)
    /\ stop_request' = (stop_request /\ (it.last \/ it.kind # "nostop"))
    /\ UNCHANGED <<lists, count_hook, nested_level, phase, pos, closing>>

\* MUTANT: deleted hooks are cleared when a nested emulation ends, too.
EmuEnd_everylevel ==
    /\ InEngine
    /\ nested_level' = nested_level - 1
    /\ phase' = "unlink"
    /\ pos' = 0
    /\ UNCHANGED <<lists, count_hook, stop_request, iters, closing>>

\* vm_start returned. Hooks are destroyed only when the outermost emulation ends.
EmuEnd ==
    /\ InEngine
    /\ nested_level' = nested_level - 1
    /\ phase' = IF nested_level = 1 THEN "unlink" ELSE "open"
    /\ pos' = 0
    /\ UNCHANGED <<lists, count_hook, stop_request, iters, closing>>

\* One iteration of the first loop of clear_deleted_hooks: the hook is unlinked
\* from the first list that holds it.
ClearUnlink ==
    /\ phase = "unlink" /\ pos < Len(hooks_to_del)
    /\ pos' = pos + 1
    /\ LET h == hooks_to_del[pos + 1] IN
       \/ /\ Lists(h) = {}
          /\ UNCHANGED <<hook, refs, heap>>
       \/ \E i \in Lists(h) :
          /\ \A j \in Lists(h) : i <= j
          /\ hook' = [hook EXCEPT ![i] = RemoveAt(@, Position(i, h))]
          /\ hook_delete(h)
    /\ UNCHANGED <<hooks_to_del, hooks_count, to_delete, count_hook, nested_level,
                   stop_request, iters, phase, closing>>

ClearUnlinked ==
    /\ phase = "unlink" /\ pos = Len(hooks_to_del)
    /\ phase' = "free" /\ pos' = 0
    /\ UNCHANGED <<lists, count_hook, nested_level, stop_request, iters, closing>>

\* list_clear(&uc->hooks_to_del), item by item.
ClearFree ==
    /\ phase = "free" /\ pos < Len(hooks_to_del)
    /\ pos' = pos + 1
    /\ hook_delete(hooks_to_del[pos + 1])
    /\ UNCHANGED <<hook, hooks_to_del, hooks_count, to_delete, count_hook,
                   nested_level, stop_request, iters, phase, closing>>

ClearDone ==
    /\ phase = "free" /\ pos = Len(hooks_to_del)
    /\ hooks_to_del' = <<>>
    /\ phase' = IF closing THEN "close" ELSE "open"
    /\ pos' = 0
    /\ UNCHANGED <<hook, hooks_count, heap, refs, to_delete, count_hook,
                   nested_level, stop_request, iters, closing>>

\* MUTANT: the hook lists have no delete_fn.
CloseItem_nodelete(i) ==
    /\ phase = "close"
    /\ hook[i] # <<>> /\ \A j \in Idx : j < i => hook[j] = <<>>
    /\ hook' = [hook EXCEPT ![i] = Tail(@)]
    /\ UNCHANGED <<hooks_to_del, hooks_count, heap, refs, to_delete, count_hook,
                   nested_level, stop_request, iters, phase, pos, closing>>

\* uc_close: list_clear(&uc->hook[i]) for each i, item by item.
CloseItem(i) ==
    /\ phase = "close"
    /\ hook[i] # <<>> /\ \A j \in Idx : j < i => hook[j] = <<>>
    /\ hook_delete(Head(hook[i]))
    /\ hook' = [hook EXCEPT ![i] = Tail(@)]
    /\ UNCHANGED <<hooks_to_del, hooks_count, to_delete, count_hook, nested_level,
                   stop_request, iters, phase, pos, closing>>

Closed ==
    /\ phase = "close" /\ \A i \in Idx : hook[i] = <<>>
    /\ phase' = "closed"
    /\ UNCHANGED <<lists, count_hook, nested_level, stop_request, iters, pos, closing>>

Next ==
    \/ \E h \in Hook, types \in SUBSET Idx :
          \E put \in Linked(ListsOf(types), "add") : HookAdd(h, types, put)
    \/ \E h \in Hook : \E kept \in Kept(h) : HookDel(h, kept)
    \/ \E counting \in BOOLEAN : EmuStart(counting)
    \/ \E kept \in Kept(count_hook) : EmuStartUncount(kept)
    \/ \E h \in Hook : \E put \in Linked({CODE_IDX}, "count") : EmuStartCount(h, put)
    \/ EmuStop
    \/ Close
    \/ \E i \in Idx, h \in Hook, kind \in Kind, invalid \in BOOLEAN : Trace(i, h, kind, invalid)
    \/ TraceNone
    \/ \E h \in Hook : CallbackNext(h)
    \/ CallbackLast
    \/ EmuEnd
    \/ ClearUnlink \/ ClearUnlinked \/ ClearFree \/ ClearDone
    \/ \E i \in Idx : CloseItem(i)
    \/ Closed

Spec == Init /\ [][Next]_vars

-----------------------------------------------------------------------------
(* Properties *)

\* Every item of a list points to an allocated hook: the hook lists, the part of
\* hooks_to_del that is still to be freed (uc.c hook_delete, clear_deleted_hooks).
NoDangling ==
    \A h \in Hook : Lists(h) # {} \/ Pending(h) # {} => h \in heap

\* hook->refs counts exactly the list items that point to the hook, so that the
\* last hook_delete, and no earlier one, frees it, and no hook is leaked.
RefsExact ==
    \A h \in heap :
        /\ refs[h] = Cardinality(Lists(h)) + Cardinality(Pending(h))
        /\ refs[h] > 0

\* The item under the cursor of every running loop over a hook list, at any
\* nesting depth, stays linked while callbacks delete hooks and run nested
\* emulations: destruction waits for the end of the outermost uc_emu_start.
IterSafe ==
    \A n \in DOMAIN iters : Contains(hook[iters[n].index], iters[n].cur)

\* hooks_count[i] is the number of hooks of list i that are not deleted: the
\* translator inlines the callback when it is 1.
CountExact ==
    phase # "close" /\ phase # "closed" =>
    \A i \in Idx : hooks_count[i] =
        Cardinality({h \in heap : Contains(hook[i], h) /\ ~to_delete[h]})

\* While counting is on, the first live hook of the code list is the instruction
\* counter: helper_uc_tracecode calls the first hook as the counter on an invalid
\* instruction.
CounterFirst ==
    count_hook # NoHook /\ phase = "open" =>
        FirstCallable(CODE_IDX, count_hook)

\* Once the outermost emulation has ended, no hook deleted before remains linked
\* or allocated (unless the bookkeeping item could not be allocated), and
\* uc_close leaves no hook behind, whatever state callbacks left the lists in.
DeletedDestroyed ==
    /\ phase = "open" /\ hooks_to_del = <<>> /\ "del" \notin NoMemAt =>
           \A h \in heap : ~to_delete[h]
    /\ phase = "closed" => heap = {}

=============================================================================
