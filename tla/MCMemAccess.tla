----------------------------- MODULE MCMemAccess -----------------------------
(***************************************************************************)
(* Three pages of four bytes.  The program has a store that straddles      *)
(* pages 0 and 1, a fetch from page 1, a read-modify-write of a byte of    *)
(* page 0 and a load that straddles pages 1 and 2.  There are two          *)
(* WRITE_UNMAPPED and two WRITE hooks, one of each for one page only, and  *)
(* one hook of each other type.  Pages 0 and 1 may be absent from the      *)
(* guest's page table at first.                                            *)
(***************************************************************************)
EXTENDS MemAccess

MCPage == 0 .. 2
MCPageSize == 4
MCProgram == << [op |-> "store", addr |-> 2, size |-> 4, val |-> 7],
                [op |-> "fetch", addr |-> 5, size |-> 1, val |-> 0],
                [op |-> "inc",   addr |-> 0, size |-> 1, val |-> 0],
                [op |-> "load",  addr |-> 6, size |-> 4, val |-> 0] >>
MCHooks == [READ |-> <<{0, 1}>>, WRITE |-> <<{0}, {0, 1}>>, READ_AFTER |-> <<{0, 1}>>,
            READ_UNMAPPED |-> <<MCPage>>, WRITE_UNMAPPED |-> <<MCPage, {1}>>,
            FETCH_UNMAPPED |-> <<MCPage>>, READ_PROT |-> <<MCPage>>,
            WRITE_PROT |-> <<MCPage>>, FETCH_PROT |-> <<{1}>>]
MCLayouts == { [p \in {0, 1} |-> {"r", "w", "x"}],
               [p \in {0, 2} |-> {"r", "w"}],
               [p \in MCPage |-> IF p = 0 THEN {"r"} ELSE {"w"}] }
MCResidents == {MCPage, {2}}
=============================================================================
