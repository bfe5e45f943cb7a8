---------------------------- MODULE AddressSpace ----------------------------
(* What the memory API of unicorn promises: a map from pages to cells, where *)
(* a call affects the pages it names and no others.  A cell says what backs  *)
(* a page and how the guest may access it.  MemMap, with its sorted array of *)
(* regions that are split and rebuilt, implements this specification.        *)
CONSTANTS
    Page,       \* the pages of the address space
    Unmapped,   \* a page that is not mapped
    Ranges,     \* the sets of pages a call can name
    New(_),     \* how a call can map a set of pages, as functions
    Granted(_, _),  \* the cell after uc_mem_protect with some permissions
    Written(_, _),  \* the cell after uc_mem_write of some content
    Perms, Tag

VARIABLES
    space,      \* Page -> cell or Unmapped
    ret         \* the result of the last call

vars == <<space, ret>>

Init == space = [p \in Page |-> Unmapped] /\ ret = "OK"

\* The pages of S go from c to d as Change(c, d) says, the others keep their cell.
Only(S, Change(_, _)) ==
    \A p \in Page : IF p \in S THEN Change(space[p], space'[p]) ELSE space'[p] = space[p]

\* uc_mem_map, uc_mem_map_ptr and uc_mmio_map fill pages that are all free.
Map(S) ==
    /\ Only(S, LAMBDA c, d : c = Unmapped)
    /\ [p \in S |-> space'[p]] \in New(S)

Unmap(S) ==
    Only(S, LAMBDA c, d : c # Unmapped /\ d = Unmapped)

Protect(S, perms) ==
    Only(S, LAMBDA c, d : c # Unmapped /\ d = Granted(c, perms))

Write(S, tag) ==
    Only(S, LAMBDA c, d : c # Unmapped /\ d = Written(c, tag))

\* A call that runs out of memory may have done a part of its work and may
\* lose pages, but it never gives a page other content or other permissions
\* than it had or was asked to get.
Lose(S, perms) ==
    \A p \in Page :
        \/ space'[p] \in {space[p], Unmapped}
        \/ p \in S /\ space[p] # Unmapped /\ space'[p] = Granted(space[p], perms)

\* A successful call is one of these on some range of pages.
Done ==
    \E S \in Ranges :
        \/ Map(S)
        \/ Unmap(S)
        \/ \E perms \in Perms : Protect(S, perms)
        \/ \E tag \in Tag : Write(S, tag)

\* A call that fails for its arguments changes nothing.
Next ==
    \/ ret' \in {"ARG", "MAP", "NOMEM", "UNMAPPED"} /\ UNCHANGED space
    \/ ret' = "NOMEM" /\ \E S \in Ranges, perms \in Perms : Lose(S, perms)
    \/ ret' = "OK" /\ Done

Spec == Init /\ [][Next]_vars
=============================================================================
