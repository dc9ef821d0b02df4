--------------------------- MODULE ClassicEngine ----------------------------
(***************************************************************************)
(* The engine without scheduler and speculation (src/core/engine.cpp): one  *)
(* sequence, prefilled through the shared-prefix cache                      *)
(* (src/cache/prefix_cache.cpp), a sampling loop, sessions and warm().      *)
(* Calls are serialised by the API handler; what interleaves with them is   *)
(* the cache losing entries, decodes that throw, and the process dying and  *)
(* starting again on the same cache directory.                              *)
(*                                                                          *)
(* The cache is used through what CacheManager is shown to implement        *)
(* (LossyCache).  A key is the tuple of what the code hashes: the kind, the *)
(* session and the tokens.                                                  *)
(***************************************************************************)
EXTENDS LlamaBackend, FiniteSets

CONSTANTS
  Prompt,         \* token sequences the prompts of a run tokenize to
  Sampled,        \* tokens the sampler picks in a run
  block_tokens,
  MaxNew,         \* bound: max_tokens of a request
  MaxSessions,    \* bound: create_session() calls of one process
  MaxSnapshots    \* what the byte budget admits, counted in snapshots

ASSUME ClassicAssumption ==
  /\ Prompt \subseteq {p \in Seq(Token) : Len(p) \in 1..n_ctx}
  /\ Sampled \subseteq Token
  /\ block_tokens \in Nat \ {0}
  /\ {MaxNew, MaxSessions, MaxSnapshots} \subseteq Nat

VARIABLES
  use_cache,       \* cache_dir is configured
  backend,
  snapshots,       \* the disk cache: key -> backend state
  context_tokens,
  sessions,        \* id -> tokens
  next_session_id,
  pc, call,        \* the call in progress: where it is, and which one
  tokens,          \* its local: the prompt, then everything generated
  pos,             \* prefill(): tokens in the KV so far
  produced, max_tokens

call_vars == <<call, tokens, pos, produced, max_tokens>>
session_vars == <<context_tokens, sessions, next_session_id>>
vars == <<use_cache, backend, snapshots, session_vars,
          pc, call_vars>>

PrefixKey(ts) == <<"prefix", ts>>
SessionKey(s, ts) == <<"session", s, ts>>
PrefixOf(s, n) == SubSeq(s, 1, n)

NoCall == /\ call = "none" /\ tokens = <<>> /\ pos = 0
          /\ produced = 0 /\ max_tokens = 0

Init ==
  /\ use_cache \in BOOLEAN
  /\ backend = Fresh
  /\ snapshots = <<>>
  /\ context_tokens = <<>>
  /\ sessions = <<>>
  /\ next_session_id = 1
  /\ pc = "idle"
  /\ NoCall

\* The call returns or throws: its locals are gone.
EndCall ==
  /\ pc' = "idle"
  /\ call' = "none" /\ tokens' = <<>> /\ pos' = 0
  /\ produced' = 0 /\ max_tokens' = 0

\* Any decode may throw; the KV is left as it is and nothing else is undone.
Throw(ts) ==
  /\ backend' \in DecodeFailures(backend, ts)
  /\ EndCall
  /\ UNCHANGED <<use_cache, snapshots, session_vars>>

-----------------------------------------------------------------------------
(* The cache: CacheManager::store_state() and load_state().                *)

\* f without the keys in lost.
Without(f, lost) == [k \in DOMAIN f \ lost |-> f[k]]

\* The state kv is written under k with counter n; the budget may cost older
\* entries.  A store that put() refuses or fails is one lost at once (Lose).
StoreState(k, kv, n) ==
  \E lost \in SUBSET (DOMAIN snapshots \ {k}) :
    LET kept == DOMAIN snapshots \ (lost \cup {k}) IN
    /\ Cardinality(kept) < MaxSnapshots
    /\ snapshots' = [j \in kept \cup {k} |->
         IF j = k THEN [kv |-> kv, n_past |-> n] ELSE snapshots[j]]

LoadState(k) == backend' = snapshots[k]

\* Evicted, displaced or damaged, at any moment.
Lose(k) ==
  /\ k \in DOMAIN snapshots
  /\ snapshots' = Without(snapshots, {k})
  /\ UNCHANGED <<use_cache, backend, session_vars, pc, call_vars>>

-----------------------------------------------------------------------------
(* PrefixCache::prefill()                                                  *)

\* boundaries(): every multiple of block_tokens, and the whole prefix.
Boundaries(size) ==
  {b \in 1..size : b % block_tokens = 0 \/ b = size}

\* Mutant: a completion prefills the whole prompt, last token included.
Goal_Whole == tokens

\* What the call prefills: warm() the whole prompt, a completion all but the
\* last token, which is decoded fresh for its logits.
Goal == IF call = "warm" THEN tokens ELSE PrefixOf(tokens, Len(tokens) - 1)

\* Mutant: the old sequence is left in place.
Reset_Kept == UNCHANGED backend
Reset == backend' = Fresh

\* Boundaries are tried from the longest down to the first one that loads; a
\* cached one above it was refused, and load_state() removed it.
Restore ==
  /\ pc = "restore"
  /\ \E r \in Boundaries(Len(Goal)) \cup {0} :
       /\ IF r = 0 THEN Reset
          ELSE /\ PrefixKey(PrefixOf(Goal, r)) \in DOMAIN snapshots
               /\ LoadState(PrefixKey(PrefixOf(Goal, r)))
       /\ snapshots' = Without(snapshots,
            {PrefixKey(PrefixOf(Goal, b)) :
               b \in {x \in Boundaries(Len(Goal)) : x > r}})
       /\ pos' = r
  /\ pc' = "blocks"
  /\ UNCHANGED <<use_cache, session_vars, call, tokens, produced,
                 max_tokens>>

\* The block that ends at the next boundary.
BlockEnd == CHOOSE b \in Boundaries(Len(Goal)) :
              b > pos /\ \A x \in Boundaries(Len(Goal)) : x > pos => b <= x
Block == SubSeq(Goal, pos + 1, BlockEnd)

\* The block is decoded and the boundary it reaches is snapshotted.
DecodeBlock ==
  /\ pc = "blocks" /\ pos < Len(Goal)
  /\ CanDecode(backend, Block)
  /\ backend' = Decoded(backend, Block)
  /\ StoreState(PrefixKey(PrefixOf(Goal, BlockEnd)), backend'.kv, BlockEnd)
  /\ pos' = BlockEnd
  /\ UNCHANGED <<use_cache, session_vars, pc, call,
                 tokens, produced, max_tokens>>

ThrowInBlock == pc = "blocks" /\ pos < Len(Goal) /\ Throw(Block)

\* warm() is done; a completion goes on to its last token.
PrefillDone ==
  /\ pc = "blocks" /\ pos = Len(Goal)
  /\ \/ call = "warm" /\ EndCall
     \/ call = "generate" /\ pc' = "tail" /\ UNCHANGED call_vars
  /\ UNCHANGED <<use_cache, backend, snapshots,
                 session_vars>>

-----------------------------------------------------------------------------
(* generate_stream_impl() and warm()                                       *)

generate(p, n) ==
  /\ pc = "idle"
  /\ call' = "generate" /\ tokens' = p /\ pos' = 0
  /\ produced' = 0 /\ max_tokens' = n
  /\ IF use_cache
     THEN pc' = "restore" /\ UNCHANGED backend
     ELSE pc' = "tail" /\ Reset
  /\ UNCHANGED <<use_cache, snapshots, session_vars>>

\* Without a cache warm() has nothing to fill and does nothing.
warm(p) ==
  /\ pc = "idle" /\ use_cache
  /\ pc' = "restore"
  /\ call' = "warm" /\ tokens' = p /\ pos' = 0
  /\ produced' = 0 /\ max_tokens' = 0
  /\ UNCHANGED <<use_cache, backend, snapshots,
                 session_vars>>

\* The last token of the prompt, or all of it without a cache.
LastTokens == IF use_cache THEN SubSeq(tokens, Len(tokens), Len(tokens)) ELSE tokens

DecodeTail ==
  /\ pc = "tail"
  /\ \/ CanDecode(backend, LastTokens) /\ backend' = Decoded(backend, LastTokens)
        /\ pc' = "sample" /\ UNCHANGED call_vars
        /\ UNCHANGED <<use_cache, snapshots, session_vars>>
     \/ Throw(LastTokens)

\* The loop ends: what was generated becomes the context.
EndGeneration(ts) ==
  /\ context_tokens' = ts
  /\ EndCall
  /\ UNCHANGED <<use_cache, backend, snapshots, sessions,
                 next_session_id>>

\* The budget is zero, the sampled token ends the text, or the callback
\* wants no more: the token is not recorded.
StopGeneration == pc = "sample" /\ EndGeneration(tokens)

\* One round of the loop, up to the next logits.
SampleToken(next) ==
  /\ pc = "sample" /\ produced < max_tokens
  /\ LET ts == Append(tokens, next) IN
     IF Len(ts) >= n_ctx \/ produced + 1 >= max_tokens
     THEN EndGeneration(ts)
     ELSE \/ /\ CanDecode(backend, <<next>>)
             /\ backend' = Decoded(backend, <<next>>)
             /\ tokens' = ts
             /\ produced' = produced + 1
             /\ UNCHANGED <<use_cache, snapshots,
                            session_vars, pc, call, pos, max_tokens>>
          \/ Throw(<<next>>)

-----------------------------------------------------------------------------
(* Sessions                                                                *)

\* Mutant: the counter stays, so the next session gets the same name.
create_session_SameId ==
  /\ pc = "idle" /\ next_session_id <= MaxSessions
  /\ sessions' = [i \in DOMAIN sessions \cup {next_session_id} |->
                    IF i = next_session_id THEN <<>> ELSE sessions[i]]
  /\ UNCHANGED <<use_cache, backend, snapshots,
                 context_tokens, next_session_id, pc, call_vars>>

create_session ==
  /\ pc = "idle" /\ next_session_id <= MaxSessions
  /\ sessions' = [i \in DOMAIN sessions \cup {next_session_id} |->
                    IF i = next_session_id THEN <<>> ELSE sessions[i]]
  /\ next_session_id' = next_session_id + 1
  /\ UNCHANGED <<use_cache, backend, snapshots,
                 context_tokens, pc, call_vars>>

\* The snapshot takes the backend as it is, under the context's tokens.
save_session(s) ==
  /\ pc = "idle" /\ s \in DOMAIN sessions
  /\ sessions' = [sessions EXCEPT ![s] = context_tokens]
  /\ IF use_cache /\ context_tokens # <<>>
     THEN StoreState(SessionKey(s, context_tokens), backend.kv,
                     Len(context_tokens))
     ELSE UNCHANGED snapshots
  /\ UNCHANGED <<use_cache, backend, context_tokens,
                 next_session_id, pc, call_vars>>

load_session(s) ==
  /\ pc = "idle" /\ s \in DOMAIN sessions
  /\ LET ts == sessions[s]
         k == SessionKey(s, ts) IN
     \/ /\ ts = <<>>
        /\ context_tokens' = ts
        /\ UNCHANGED <<backend, snapshots>>
     \/ /\ k \in DOMAIN snapshots
        /\ LoadState(k)
        /\ context_tokens' = ts
        /\ UNCHANGED snapshots
     \/ /\ ts # <<>>                          \* missed or refused: decode()
        /\ snapshots' = Without(snapshots, {k})
        /\ \/ /\ CanDecode(Fresh, ts)
              /\ backend' = Decoded(Fresh, ts)
              /\ context_tokens' = ts
           \/ /\ backend' \in DecodeFailures(Fresh, ts)
              /\ UNCHANGED context_tokens
  /\ UNCHANGED <<use_cache, sessions, next_session_id, pc, call_vars>>

delete_session(s) ==
  /\ pc = "idle" /\ s \in DOMAIN sessions
  /\ sessions' = Without(sessions, {s})
  /\ UNCHANGED <<use_cache, backend, snapshots,
                 context_tokens, next_session_id, pc, call_vars>>

\* The process ends, wherever it is, and another one opens the same cache
\* directory with the same model.
Restart ==
  /\ backend' = Fresh
  /\ context_tokens' = <<>> /\ sessions' = <<>> /\ next_session_id' = 1
  /\ EndCall
  /\ UNCHANGED <<use_cache, snapshots>>

Next ==
  \/ \E p \in Prompt : warm(p) \/ \E n \in 0..MaxNew : generate(p, n)
  \/ Restore \/ DecodeBlock \/ ThrowInBlock \/ PrefillDone
  \/ DecodeTail \/ StopGeneration
  \/ \E t \in Sampled : SampleToken(t)
  \/ create_session
  \/ \E s \in DOMAIN sessions :
       save_session(s) \/ load_session(s) \/ delete_session(s)
  \/ \E k \in DOMAIN snapshots : Lose(k)
  \/ Restart

Spec == Init /\ [][Next]_vars

-----------------------------------------------------------------------------
(* Properties                                                              *)

\* Types; a context is at most one token over the window (the token that
\* filled it is recorded and never decoded), and no session is numbered
\* ahead of the counter.
ClassicTypeOK ==
  /\ use_cache \in BOOLEAN
  /\ backend \in Backend
  /\ \A k \in DOMAIN snapshots :
       snapshots[k] \in Backend
  /\ context_tokens \in Seq(Token) /\ Len(context_tokens) <= n_ctx + 1
  /\ next_session_id \in Nat \ {0}
  /\ DOMAIN sessions \subseteq 1..(next_session_id - 1)
  /\ \A s \in DOMAIN sessions : sessions[s] \in Seq(Token)
  /\ pc \in {"idle", "restore", "blocks", "tail", "sample"}
  /\ call \in {"none", "generate", "warm"}
  /\ tokens \in Seq(Token) /\ Len(tokens) <= n_ctx
  /\ {pos, produced, max_tokens} \subseteq Nat

\* A prefix snapshot holds exactly the tokens it is filed under, whatever
\* sessions, failed decodes, evictions and restarts came before
\* (PrefixCache::prefill()): a completion that restores one continues its
\* own prompt.
PrefixSnapshotsExact ==
  \A k \in DOMAIN snapshots :
    k[1] = "prefix" =>
      snapshots[k] = [kv |-> k[2], n_past |-> Len(k[2])]

\* The logits a token is sampled from were computed from exactly the prompt
\* and the tokens generated so far ("from here `tokens` mirrors the KV cache
\* content"), whatever the backend held when the call began.
LogitsFollowTokens ==
  pc = "sample" => backend = [kv |-> tokens, n_past |-> Len(tokens)]
=============================================================================
