------------------------------ MODULE MCHooks ------------------------------
(* Small instances of Hooks. *)
EXTENDS Hooks, TLC

CONSTANTS h1, h2, h3

\* The count hook is told apart from user hooks by uc->count_hook only.
HookSymmetry == Permutations({h1, h2, h3})
HookSymmetry2 == Permutations({h1, h2})
=============================================================================
