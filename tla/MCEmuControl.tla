---------------------------- MODULE MCEmuControl ----------------------------
(***************************************************************************)
(* EmuControl for TLC.  The configurations choose the timer threads, the   *)
(* depth of nesting, the counts, and what callbacks and guest may do.      *)
(***************************************************************************)
EXTENDS EmuControl
=============================================================================
