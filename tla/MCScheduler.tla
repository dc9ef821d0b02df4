---------------------------- MODULE MCScheduler ----------------------------
(* Instances of Scheduler for TLC.                                          *)
EXTENDS Scheduler

CONSTANTS a, b

\* Two requests may share a two-token prompt (clone) or a one-token prompt
\* (never cloned, a prefix of the other); the last fills the context by itself.
MCPrompts == {<<a>>, <<a, b>>, <<a, a, a, a, a>>}
=============================================================================
