----------------------------- MODULE MCTbCache -----------------------------
(***************************************************************************)
(* TbCache for TLC: two pages of two cells.  The block at 0 has a          *)
(* conditional jump to 1 or back to itself and stores to its own cell; the *)
(* block at 1 may run over into the second page; 2 is the first address of *)
(* the second page, where emulation may also stop (a stub), and its code   *)
(* stores to cell 1.                                                       *)
(***************************************************************************)
EXTENDS TbCache, TLC

MCSize == 0 :> {1} @@ 1 :> {1, 2} @@ 2 :> {0, 1}
MCTarget == 0 :> (0 :> 1 @@ 1 :> 0) @@ 1 :> (0 :> 2 @@ 1 :> 0) @@ 2 :> (0 :> -1 @@ 1 :> -1)
MCIndirect == 0 :> {} @@ 1 :> {} @@ 2 :> {0, 1}
MCStoreTo == 0 :> 0 @@ 1 :> -1 @@ 2 :> 1
MCJmpHash == 0 :> 0 @@ 1 :> 1 @@ 2 :> 0
=============================================================================
