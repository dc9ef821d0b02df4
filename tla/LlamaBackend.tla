---------------------------- MODULE LlamaBackend ----------------------------
(***************************************************************************)
(* One sequence of the model behind src/core/llama_backend_real.cpp: the    *)
(* cells of its KV cache, and the position counter the wrapper keeps of its *)
(* own.  Logits are abstracted to the tokens they were computed from.       *)
(***************************************************************************)
EXTENDS Integers, Sequences

CONSTANTS
  Token,   \* the vocabulary
  n_ctx    \* positions a sequence may hold

ASSUME BackendAssumption == n_ctx \in Nat \ {0}

Backend == [kv : Seq(Token), n_past : Nat]

\* reset(): memory cleared, counter at zero.
Fresh == [kv |-> <<>>, n_past |-> 0]

\* llama_decode() takes tokens that follow the last cell and that fit.
CanDecode(b, ts) ==
  /\ ts # <<>>
  /\ b.n_past = Len(b.kv)
  /\ b.n_past + Len(ts) <= n_ctx

\* decode_impl() succeeded.
Decoded(b, ts) == [kv |-> b.kv \o ts, n_past |-> b.n_past + Len(ts)]

\* decode_impl() threw: llama_decode() failed and kept some of the batch, or
\* (after the counter moved) no logits came back.
DecodeFailures(b, ts) ==
  {[kv |-> b.kv \o SubSeq(ts, 1, i), n_past |-> b.n_past] : i \in 0..Len(ts)}
  \cup (IF CanDecode(b, ts) THEN {Decoded(b, ts)} ELSE {})

\* truncate_to(n), for a sequence whose counter is right.
Truncated(b, n) ==
  IF n >= b.n_past THEN b ELSE [kv |-> SubSeq(b.kv, 1, n), n_past |-> n]
=============================================================================
