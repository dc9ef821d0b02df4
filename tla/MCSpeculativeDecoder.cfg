CONSTANTS
  a = a
  b = b
  e = e
  z = z
  Token = {a, b, e, z}
  n_ctx = 5
  Model <- MCModel
  Eog = {e}
  eos_token = e
  DraftVocab = {a, e, z}
  Prompt <- MCPrompt
  form_draft <- MCForm
  corpus_ngram = 1
  lookup_max_ngram = 2
  lookup_min_ngram = 1
  min_draft_tokens = 1
  max_draft_tokens = 3
  draft_tokens = 2
  disable_after_drafted = 3
  DisablePercent = 40
  MaxNew = 4
  MaxCalls = 2
SPECIFICATION FairSpec
INVARIANTS SpeculativeTypeOK KvBehindByOne BatchFits
PROPERTIES ImplementsPlainDecoding EveryGenerationEnds
