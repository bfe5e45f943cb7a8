------------------------------ MODULE MCMemMap ------------------------------
(* Small instances of MemMap. *)
EXTENDS MemMap

RO == {"READ"}
RW == {"READ", "WRITE"}
ROandRW == {RO, RW}
OnlyRW == {RW}
=============================================================================
