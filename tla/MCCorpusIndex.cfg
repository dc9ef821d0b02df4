CONSTANTS
  Word = {0, 1, 2, 3, 4}
  Stream <- MCStream
  ngram = 1
  max_sites_per_ngram = 1
  Bucket = {0, 1}
  ngram_key <- MCKey
  Budgets = {2, 5}
  MaxFrame = 4
  MaxDraft = 2
  MaxFile = 7
SPECIFICATION Spec
INVARIANTS CorpusTypeOK DraftsContinueAStream NewestOccurrenceFound FileMirrorsFlushed
