---------------------------- MODULE SavedMemory ----------------------------
(***************************************************************************)
(* What memory snapshots promise: a memory, and contexts that hold what    *)
(* the memory was when they were saved.  Saving and writing, mapping and   *)
(* unmapping afterwards leave them alone, and restoring one brings back    *)
(* exactly what it holds.  Snapshots implements this specification.        *)
(***************************************************************************)
CONSTANTS
    Cell,       \* the addresses
    Val,        \* contents; 0 when a cell is fresh
    Unmapped,
    Ctx,        \* the contexts
    Gone        \* a context that holds nothing

VARIABLES
    mem,        \* Cell -> Val or Unmapped
    saved,      \* Ctx -> a memory or Gone
    ret         \* the result of the last call, the context for a restore

vars == <<mem, saved, ret>>

Init == mem = [a \in Cell |-> Unmapped] /\ saved = [c \in Ctx |-> Gone] /\ ret = "OK"

\* The cells of S get the value v, the others keep theirs.
Change(S, v) ==
    /\ mem' = [a \in Cell |-> IF a \in S THEN v ELSE mem[a]]
    /\ UNCHANGED saved

Map(S) == (\A a \in S : mem[a] = Unmapped) /\ Change(S, 0)
Write(S, v) == (\A a \in S : mem[a] # Unmapped) /\ Change(S, v)
Unmap(S) == Change(S, Unmapped)

Save(c) ==
    /\ saved' = [saved EXCEPT ![c] = mem]
    /\ UNCHANGED mem

\* Other contexts may be lost.
Restore(c) ==
    /\ saved[c] # Gone
    /\ mem' = saved[c]
    /\ \A d \in Ctx : saved'[d] \in {saved[d], Gone}
    /\ saved'[c] = saved[c]

\* A successful call is one of these; one that fails changes nothing.
Next ==
    \/ ret' \in Ctx /\ Restore(ret')
    \/ /\ ret' = "OK"
       /\ \/ \E c \in Ctx : Save(c)
          \/ \E S \in SUBSET Cell : Map(S) \/ Unmap(S) \/ \E v \in Val : Write(S, v)
    \/ ret' \notin Ctx \cup {"OK"} /\ UNCHANGED <<mem, saved>>

Spec == Init /\ [][Next]_vars
=============================================================================
