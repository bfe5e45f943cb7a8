----------------------------- MODULE MCHookCode -----------------------------
(***************************************************************************)
(* Hooks in translated code: a region of four instructions on three pages: *)
(* 1 on the first, 2 and 3 on the second, 4 on the third.  The code from 1 *)
(* on is straight up to the jump at 3, so blocks starting at 1, 2 and 3    *)
(* overlap; 4 jumps back to 1.                                             *)
(***************************************************************************)
EXTENDS HookCode

CONSTANTS H1, H2, H3

MCCells == 1 .. 4
MCJumps == [a \in MCCells |-> IF a = 3 THEN {3, 4} ELSE IF a = 4 THEN {1} ELSE {}]
\* A hook on everything, one on the end of the first block, one on blocks.
MCHook == {H1, H2, H3}
MCType == [h \in MCHook |-> IF h = H3 THEN "block" ELSE "code"]
MCBounds == [h \in MCHook |-> IF h = H2 THEN {3} ELSE MCCells]
MCExits == {{3}, {2, 4}}
=============================================================================
