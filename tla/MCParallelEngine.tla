-------------------------- MODULE MCParallelEngine --------------------------
(* Instances of ParallelEngine for TLC.                                     *)
EXTENDS ParallelEngine

CONSTANTS a

\* One prompt that the second caller may clone.
MCPrompts == {<<a, a>>}
=============================================================================
