------------------------ MODULE SpeculativeDecoder --------------------------
(***************************************************************************)
(* Speculative decoding (src/speculative): a draft of several tokens, by a  *)
(* small model or by lookup, is verified by the target in one batch; the    *)
(* accepted prefix and one corrected token are delivered, and both KV       *)
(* caches are rolled back to what was accepted.                             *)
(*                                                                          *)
(* Probabilities are abstracted to their supports: accept_token() never     *)
(* accepts a token of target probability 0 and always one of probability 1; *)
(* the residual a correction is drawn from holds tokens of positive target  *)
(* probability, never the rejected one.  The KV caches are explicit.        *)
(*                                                                          *)
(* The rows of probabilities are indexed by the tokens proposed, unchecked. *)
(* Once a proposal has left the target's vocabulary the numbers read may be *)
(* anything, for as long as the process lives.                              *)
(***************************************************************************)
EXTENDS LlamaBackend, FiniteSets, FiniteSetsExt, SequencesExt

CONSTANTS
  Model,            \* models at model_path over time: [vocab, support]
  Eog, eos_token,   \* tokens that end a generation; the one eos_token() names
  DraftVocab,       \* tokens the draft model's embedding table has
  Prompt,
  form_draft,       \* FormDraft::propose(), tokenized: token -> proposal
  corpus_ngram,     \* key length of the archive's index
  lookup_max_ngram, lookup_min_ngram,
  min_draft_tokens, max_draft_tokens, draft_tokens,
  disable_after_drafted,
  DisablePercent,   \* disable_below_acceptance, in percent
  MaxNew,           \* bound: max_tokens of a request
  MaxCalls          \* bound: generations in a behaviour

ASSUME SpeculativeAssumption ==
  /\ eos_token \in Eog
  /\ \A m \in Model : /\ m.vocab \subseteq Token
                      /\ m.support \in [m.vocab -> (SUBSET m.vocab) \ {{}}]
                      /\ Prompt \subseteq {p \in Seq(m.vocab) : Len(p) \in 1..n_ctx}
  /\ DraftVocab \subseteq Token
  /\ form_draft \in [Token -> Seq(Token)]
  /\ corpus_ngram \in Nat \ {0}
  /\ 1 <= lookup_min_ngram /\ lookup_min_ngram <= lookup_max_ngram
  /\ 1 <= min_draft_tokens /\ min_draft_tokens <= draft_tokens
  /\ draft_tokens <= max_draft_tokens
  /\ {lookup_min_ngram, lookup_max_ngram, min_draft_tokens, draft_tokens,
      max_draft_tokens} \subseteq Nat
  /\ {MaxNew, MaxCalls, disable_after_drafted, DisablePercent} \subseteq Nat

VARIABLES
  mode,                  \* "model" or "lookup"
  model,                 \* the target loaded by this process
  target, draft_model,   \* the two backends
  corpus,                \* streams observed into the server archive
  speculative_active, current_draft_tokens,
  total_draft_tokens, total_accepted_tokens,
  pc,
  history, base, emitted, max_tokens, lookup_skip,   \* locals of the call
  draft,                 \* draft.tokens
  verdict,               \* accepted_tokens, then the correction
  accepted,              \* how many were accepted
  overrun,               \* an index has been outside the target's vocabulary
  calls

decoder_vars == <<speculative_active, current_draft_tokens, total_draft_tokens,
                  total_accepted_tokens>>
vars == <<mode, model, target, draft_model, corpus, decoder_vars, pc, history,
          base, emitted, max_tokens, lookup_skip, draft, verdict, accepted,
          overrun, calls>>

NewDecoder ==
  /\ speculative_active = TRUE
  /\ current_draft_tokens = draft_tokens
  /\ total_draft_tokens = 0 /\ total_accepted_tokens = 0

Init ==
  /\ mode \in {"model", "lookup"}
  /\ model \in Model
  /\ target = Fresh /\ draft_model = Fresh
  /\ corpus = {}
  /\ NewDecoder
  /\ pc = "idle"
  /\ history = <<>> /\ base = 0 /\ emitted = 0 /\ max_tokens = 0
  /\ lookup_skip = FALSE
  /\ draft = <<>> /\ verdict = <<>> /\ accepted = 0
  /\ overrun = FALSE /\ calls = 0

cur == Last(history)

\* Every exit: in lookup mode ObserveGuard hands the history to the archive.
EndCall ==
  /\ pc' = "idle"
  /\ corpus' = IF mode = "lookup" THEN corpus \cup {history} ELSE corpus
  /\ history' = <<>> /\ base' = 0 /\ emitted' = 0 /\ max_tokens' = 0
  /\ lookup_skip' = FALSE
  /\ draft' = <<>> /\ verdict' = <<>> /\ accepted' = 0
  /\ UNCHANGED <<mode, model, calls>>

\* The target threw; nothing catches it inside the decoder.
Throw(ts) ==
  /\ target' \in DecodeFailures(target, ts)
  /\ EndCall
  /\ UNCHANGED <<draft_model, decoder_vars>>

-----------------------------------------------------------------------------
(* The call and its prefill                                                *)

Prefilled(p) == IF Len(p) = 1 THEN Fresh ELSE Decoded(Fresh, Front(p))

\* The draft model cannot take a token beyond its table, and may fail.
PrefillDraft(p) ==
  IF speculative_active /\ mode = "model"
  THEN \/ /\ Range(Front(p)) \subseteq DraftVocab
          /\ draft_model' = Prefilled(p)
          /\ UNCHANGED speculative_active
       \/ /\ Len(p) > 1
          /\ draft_model' \in DecodeFailures(Fresh, Front(p))
          /\ speculative_active' = FALSE
  ELSE UNCHANGED <<draft_model, speculative_active>>

generate_stream(p, n) ==
  /\ pc = "idle" /\ calls < MaxCalls
  /\ calls' = calls + 1
  /\ history' = p /\ base' = Len(p) - 1
  /\ emitted' = 0 /\ max_tokens' = n
  /\ target' = Prefilled(p)
  /\ PrefillDraft(p)
  /\ pc' = "head"
  /\ UNCHANGED <<mode, model, corpus, current_draft_tokens, total_draft_tokens,
                 total_accepted_tokens, lookup_skip, draft, verdict, accepted,
                 overrun>>

\* The target's prefill throws.
PrefillThrows(p) ==
  /\ pc = "idle" /\ calls < MaxCalls /\ Len(p) > 1
  /\ calls' = calls + 1
  /\ target' \in DecodeFailures(Fresh, Front(p))
  /\ corpus' = IF mode = "lookup" THEN corpus \cup {p} ELSE corpus
  /\ UNCHANGED <<mode, model, draft_model, decoder_vars, pc, history, base,
                 emitted, max_tokens, lookup_skip, draft, verdict, accepted,
                 overrun>>

-----------------------------------------------------------------------------
(* The loop                                                                *)

InLoop == pc = "head" /\ emitted < max_tokens /\ Len(history) < n_ctx

LoopEnd == pc = "head" /\ ~InLoop /\ EndCall
           /\ UNCHANGED <<target, draft_model, decoder_vars, overrun>>

\* A token the draft model has no row for switches speculation off.
StillActive ==
  speculative_active /\ (mode = "model" => cur \in DraftVocab)

\* Mutant: the draft may run past the window.
n_draft_NoRoom == current_draft_tokens
n_draft == Min({current_draft_tokens, n_ctx - Len(history)})

\* Drafting only touches the draft model and its tokens.
DraftStep ==
  /\ InLoop /\ StillActive
  /\ UNCHANGED <<mode, model, target, corpus, current_draft_tokens,
                 total_draft_tokens, total_accepted_tokens, history, base,
                 emitted, max_tokens, verdict, accepted, overrun, calls>>

\* What a draft is fed to a model as: the newest token, then the draft
\* without its last one.
Batch(d) == <<cur>> \o Front(d)

\* generate_draft(): n_draft tokens, or fewer if the last one is eos.
ModelDraft ==
  /\ DraftStep /\ mode = "model"
  /\ \E d \in SeqOf(DraftVocab, n_draft) :
       /\ d # <<>>
       /\ \A i \in 1..(Len(d) - 1) : d[i] # eos_token
       /\ Len(d) = n_draft \/ Last(d) = eos_token
       /\ CanDecode(draft_model, Batch(d))
       /\ draft_model' = Decoded(draft_model, Batch(d))
       /\ draft' = d
  /\ pc' = "verify"
  /\ UNCHANGED <<speculative_active, lookup_skip>>

\* generate_draft() throws somewhere: speculation is off from here on.
ModelDraftFails ==
  /\ DraftStep /\ mode = "model"
  /\ \E d \in SeqOf(DraftVocab, n_draft) :
       draft_model' \in DecodeFailures(draft_model, <<cur>> \o d)
  /\ speculative_active' = FALSE
  /\ UNCHANGED <<pc, draft, lookup_skip>>

\* PromptLookup::find_draft(): the continuation of the most recent earlier
\* occurrence of the longest tail that has one.
Occurrences(h, n) ==
  {s \in 0..(Len(h) - n - 1) :
     SubSeq(h, s + 1, s + n) = SubSeq(h, Len(h) - n + 1, Len(h))}
find_draft(h, k) ==
  LET ns == {n \in lookup_min_ngram..lookup_max_ngram :
               n < Len(h) /\ Occurrences(h, n) # {}} IN
  IF ns = {} THEN <<>>
  ELSE LET c == Max(Occurrences(h, Max(ns))) + Max(ns) IN
       SubSeq(h, c + 1, Min({Len(h), c + k}))

\* What the archive may propose: the continuation of the history's last
\* n-gram in an observed stream (CorpusIndex says which one).
CorpusDrafts(h, k) ==
  LET n == corpus_ngram IN
  UNION {{SubSeq(s, i + 1, Min({Len(s), i + k})) :
            i \in {j \in n..(Len(s) - 1) :
                    /\ n <= Len(h)
                    /\ SubSeq(s, j - n + 1, j) = SubSeq(h, Len(h) - n + 1, Len(h))}} :
         s \in corpus}

\* The form's proposal for the end of the text, cut to k tokens.
FormDraft(h, k) ==
  LET f == form_draft[Last(h)] IN SubSeq(f, 1, Min({Len(f), k}))

\* Mutant: a miss does not fall back to one plain step.
LookupMiss_Retry == UNCHANGED <<pc, draft, lookup_skip>>

\* No source has a proposal: one plain step, then look again.
LookupMiss == lookup_skip' = TRUE /\ UNCHANGED <<pc, draft>>

\* History first, then the archive, then the form.  There may be no archive,
\* or it may have lost the stream.
LookupDraft ==
  /\ DraftStep /\ mode = "lookup" /\ ~lookup_skip
  /\ LET found == find_draft(history, n_draft) IN
     \E d \in IF found # <<>> THEN {found}
             ELSE CorpusDrafts(history, n_draft) \cup {FormDraft(history, n_draft)} :
       IF d = <<>> THEN LookupMiss
       ELSE draft' = d /\ pc' = "verify" /\ UNCHANGED lookup_skip
  /\ UNCHANGED <<draft_model, speculative_active>>

Sampled == IF overrun THEN model.vocab ELSE model.support[cur]

\* The plain path: one token, sampled from the target after the history.
PlainStep ==
  /\ InLoop /\ (~StillActive \/ lookup_skip)
  /\ CanDecode(target, <<cur>>)
  /\ target' = Decoded(target, <<cur>>)
  /\ base' = base + 1
  /\ speculative_active' = StillActive
  /\ lookup_skip' = FALSE
  /\ \E t \in Sampled \ Eog :
       history' = Append(history, t)
  /\ emitted' = emitted + 1
  /\ UNCHANGED <<mode, model, draft_model, corpus, current_draft_tokens,
                 total_draft_tokens, total_accepted_tokens, pc, max_tokens,
                 draft, verdict, accepted, overrun, calls>>

\* The sampled token ends the text, the callback declines it, or it throws.
PlainEnd ==
  /\ InLoop /\ (~StillActive \/ lookup_skip)
  /\ target' \in DecodeFailures(target, <<cur>>)
  /\ EndCall
  /\ speculative_active' = StillActive
  /\ UNCHANGED <<draft_model, current_draft_tokens, total_draft_tokens,
                 total_accepted_tokens, overrun>>

-----------------------------------------------------------------------------
(* Verification, KV sync and emission                                      *)

\* The target's distribution for the token after history and d's first i - 1.
SupportAt(d, i) == model.support[IF i = 1 THEN cur ELSE d[i - 1]]

\* Reading the rows of probabilities with d's tokens gives garbage.
Wild(d) == overrun \/ d \notin Seq(model.vocab)

Likely(d, i) == IF Wild(d) THEN model.vocab ELSE SupportAt(d, i)

\* verify_batch(): a prefix of the draft, and a correction unless all of it
\* was accepted.
Verdicts(d) ==
  UNION {{SubSeq(d, 1, i) \o c :
            c \in IF i = Len(d) THEN {<<>>}
                  ELSE {<<t>> : t \in Likely(d, i + 1) \ {d[i + 1]}}} :
         i \in {n \in 0..Len(d) :
                 Wild(d) \/ \A j \in 1..n : d[j] \in SupportAt(d, j)}}

\* How many tokens of d a verdict accepts.
AcceptedBy(v, d) == IF v = d THEN Len(d) ELSE Len(v) - 1

\* Mutant: the rollback forgets that the batch also fed `cur`.
Keep_OffByOne(n) == base + n
\* Positions to keep after a rejection.
Keep(n) == base + 1 + n

Verify ==
  /\ pc = "verify"
  /\ CanDecode(target, Batch(draft))
  /\ \E v \in Verdicts(draft) :
       LET n == AcceptedBy(v, draft)
           after == Decoded(target, Batch(draft)) IN
       /\ verdict' = v /\ accepted' = n
       /\ IF v # draft
          THEN /\ target' = Truncated(after, Keep(n))
               /\ draft_model' = IF mode = "model"
                                 THEN Truncated(draft_model, Keep(n))
                                 ELSE draft_model
               /\ base' = Keep(n)
          ELSE /\ target' = after
               /\ base' = base + Len(draft)
               /\ UNCHANGED draft_model
       /\ total_accepted_tokens' = total_accepted_tokens + n
  /\ total_draft_tokens' = total_draft_tokens + Len(draft)
  /\ pc' = "emit" /\ overrun' = Wild(draft)
  /\ UNCHANGED <<mode, model, corpus, speculative_active, current_draft_tokens,
                 history, emitted, max_tokens, lookup_skip, draft, calls>>

VerifyThrows ==
  pc = "verify" /\ Throw(Batch(draft)) /\ overrun' = Wild(draft)

\* Mutant: an end-of-generation token is delivered like any other.
EndsText_Never(t) == FALSE
EndsText(t) == t \in Eog

\* One round of the emission loop.
Emit ==
  /\ pc = "emit" /\ verdict # <<>>
  /\ emitted < max_tokens /\ Len(history) < n_ctx
  /\ ~EndsText(Head(verdict))
  /\ history' = Append(history, Head(verdict))
  /\ verdict' = Tail(verdict)
  /\ emitted' = emitted + 1
  /\ UNCHANGED <<mode, model, target, draft_model, corpus, decoder_vars, pc,
                 base, max_tokens, lookup_skip, draft, accepted, overrun, calls>>

\* End of generation, or the callback wants no more: return.
EmitEnd ==
  /\ pc = "emit" /\ verdict # <<>>
  /\ emitted < max_tokens /\ Len(history) < n_ctx
  /\ EndCall
  /\ UNCHANGED <<target, draft_model, decoder_vars, overrun>>

\* Mutant: the length follows the acceptance rate without its bounds.
Adapted_Unclamped ==
  CASE accepted * 10 >= 9 * Len(draft) -> current_draft_tokens + 2
    [] accepted * 10 <= 4 * Len(draft) -> current_draft_tokens - 2
    [] OTHER -> current_draft_tokens

\* adapt_draft_length(): up on at least 90% accepted, down on at most 40%.
Adapted ==
  CASE accepted * 10 >= 9 * Len(draft) ->
         Min({current_draft_tokens + 2, max_draft_tokens})
    [] accepted * 10 <= 4 * Len(draft) ->
         Max({current_draft_tokens - 2, min_draft_tokens})
    [] OTHER -> current_draft_tokens

\* maybe_auto_disable()
AutoDisabled ==
  /\ total_draft_tokens >= disable_after_drafted
  /\ total_accepted_tokens * 100 < DisablePercent * total_draft_tokens

\* The loop is left: all delivered, or budget or window reached.
Adapt ==
  /\ pc = "emit"
  /\ verdict = <<>> \/ emitted >= max_tokens \/ Len(history) >= n_ctx
  /\ current_draft_tokens' = Adapted
  /\ speculative_active' = (speculative_active /\ ~AutoDisabled)
  /\ pc' = "head"
  /\ draft' = <<>> /\ verdict' = <<>> /\ accepted' = 0
  /\ UNCHANGED <<mode, model, target, draft_model, corpus, total_draft_tokens,
                 total_accepted_tokens, history, base, emitted, max_tokens,
                 lookup_skip, overrun, calls>>

\* The process ends, at whatever point, and a new one comes up with the model
\* now configured, on the same cache directory.
Restart(m) ==
  /\ calls > 0
  /\ model' = m
  /\ target' = Fresh /\ draft_model' = Fresh
  /\ speculative_active' = TRUE /\ current_draft_tokens' = draft_tokens
  /\ total_draft_tokens' = 0 /\ total_accepted_tokens' = 0
  /\ pc' = "idle"
  /\ history' = <<>> /\ base' = 0 /\ emitted' = 0 /\ max_tokens' = 0
  /\ lookup_skip' = FALSE
  /\ draft' = <<>> /\ verdict' = <<>> /\ accepted' = 0 /\ overrun' = FALSE
  /\ UNCHANGED <<mode, corpus, calls>>

Step ==
  \/ LoopEnd \/ ModelDraft \/ ModelDraftFails \/ LookupDraft \/ PlainStep
  \/ PlainEnd \/ Verify \/ VerifyThrows \/ Emit \/ EmitEnd \/ Adapt

Next ==
  \/ \E p \in Prompt : PrefillThrows(p) \/ \E n \in 0..MaxNew : generate_stream(p, n)
  \/ Step
  \/ \E m \in Model : Restart(m)

Spec == Init /\ [][Next]_vars

\* A generation runs on one thread that is never blocked.
FairSpec == Spec /\ WF_vars(Step)

-----------------------------------------------------------------------------
(* Properties                                                              *)

\* Types; the adaptive draft length stays within its configured range.
SpeculativeTypeOK ==
  /\ mode \in {"model", "lookup"} /\ model \in Model
  /\ target \in Backend /\ draft_model \in Backend
  /\ speculative_active \in BOOLEAN
  /\ current_draft_tokens \in min_draft_tokens..max_draft_tokens
  /\ total_accepted_tokens <= total_draft_tokens
  /\ pc \in {"idle", "head", "verify", "emit"}
  /\ history \in Seq(Token) /\ Len(history) <= n_ctx
  /\ draft \in Seq(Token) /\ verdict \in Seq(Token)
  /\ {base, emitted, max_tokens, accepted} \subseteq Nat
  /\ emitted <= max_tokens
  /\ lookup_skip \in BOOLEAN /\ overrun \in BOOLEAN

\* "KV invariant: each model holds every token of `history` except the
\* newest one": after any mix of accepted, rejected and plain steps, whenever
\* the loop goes on, for the target and for a draft model still in use.
KvBehindByOne ==
  InLoop =>
    /\ target = [kv |-> Front(history), n_past |-> Len(history) - 1]
    /\ base = Len(history) - 1
    /\ speculative_active /\ mode = "model" => draft_model = target

\* Speculation never asks the target for more than its window: a verification
\* batch fits wherever a plain step would.
BatchFits == pc = "verify" => CanDecode(target, Batch(draft))

\* Speculative decoding delivers only what plain decoding could: every token
\* delivered has positive target probability after exactly the text before
\* it, end-of-generation tokens are not delivered, budget and window hold.
\* From the first proposal outside the target's vocabulary to the end of the
\* process nothing is promised.
Plain == INSTANCE PlainDecoding
           WITH text <- IF overrun THEN <<>> ELSE history,
                budget <- IF overrun THEN 0 ELSE max_tokens - emitted,
                support <- model.support
ImplementsPlainDecoding == Plain!Spec

\* Every generation ends: no round of drafting, rejection, lookup misses and
\* fall-backs repeats without delivering a token.
EveryGenerationEnds == pc # "idle" ~> pc = "idle"

\* "Lookup proposals are history tokens: always in the target vocabulary":
\* the one-hot rows built for a proposal are indexed by its tokens.
ProposalsInVocabulary == pc = "verify" => draft \in Seq(model.vocab)
=============================================================================
