--------------------------- MODULE PlainDecoding ----------------------------
(***************************************************************************)
(* What a decoder promises, however it decodes: the text grows one token at *)
(* a time, each token is one the target model may produce after exactly     *)
(* that text, no end-of-generation token is delivered, and the text stays   *)
(* within the budget and the window.                                        *)
(***************************************************************************)
EXTENDS Integers, Sequences

CONSTANTS n_ctx, Eog

VARIABLES
  text,     \* the prompt and what was delivered after it, <<>> between calls
  budget,   \* tokens the call may still deliver
  support   \* the model: text's last token -> tokens of positive probability

vars == <<text, budget, support>>

Init == text = <<>> /\ budget = 0

Begin ==
  /\ text = <<>>
  /\ text' # <<>> /\ Len(text') <= n_ctx
  /\ budget' \in Nat
  /\ UNCHANGED support

Deliver ==
  /\ text # <<>> /\ budget > 0 /\ Len(text) < n_ctx
  /\ \E t \in support[text[Len(text)]] \ Eog : text' = Append(text, t)
  /\ budget' = budget - 1
  /\ UNCHANGED support

\* The call is over: end of generation, budget, window, callback, failure, or
\* the end of the process, which may come back with another model.
End == text # <<>> /\ text' = <<>> /\ budget' = 0

\* Between calls the process may come back with another model.
NewModel == text = <<>> /\ UNCHANGED <<text, budget>>

Next == Begin \/ Deliver \/ End \/ NewModel

Spec == Init /\ [][Next]_vars
=============================================================================
