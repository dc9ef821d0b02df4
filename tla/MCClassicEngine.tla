-------------------------- MODULE MCClassicEngine ---------------------------
(* Instances of ClassicEngine for TLC.                                      *)
EXTENDS ClassicEngine

CONSTANTS a, b

\* Shorter than a block, and two prompts that fill the window: they share a
\* block and then differ.
MCPrompt == {<<a>>, <<a, b, a>>, <<a, b, b>>}
=============================================================================
