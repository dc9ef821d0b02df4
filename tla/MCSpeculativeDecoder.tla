----------------------- MODULE MCSpeculativeDecoder -------------------------
(* Instances of SpeculativeDecoder for TLC.                                 *)
EXTENDS SpeculativeDecoder

CONSTANTS a, b, e, z

Vocab == {a, b, e}
Supports(fs) == {[vocab |-> Vocab, support |-> f] : f \in fs}

\* A greedy model that alternates and ends, and one that samples.
MCModel == Supports({
  (a :> {b}) @@ (b :> {e}) @@ (e :> {e}),
  (a :> {a, b}) @@ (b :> {a, e}) @@ (e :> {a})})
MCPrompt == {<<a>>, <<b, a>>}
MCForm == [t \in Token |-> IF t = b THEN <<a, b, a>> ELSE <<>>]

\* A model with a larger vocabulary was configured before.
MCModelChanged ==
  { [vocab |-> Vocab, support |-> (a :> {b}) @@ (b :> {a}) @@ (e :> {e})],
    [vocab |-> Vocab \cup {z},
     support |-> (a :> {z}) @@ (b :> {z}) @@ (z :> {a}) @@ (e :> {e})] }
=============================================================================
