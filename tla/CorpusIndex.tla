---------------------------- MODULE CorpusIndex -----------------------------
(***************************************************************************)
(* The generation memory (src/palimpsest/corpus_index.cpp): a flat log of   *)
(* tokens with the ends of its streams, an index from n-grams to the        *)
(* offsets that follow them, and a file of length-prefixed streams.         *)
(*                                                                          *)
(* Offsets count from 0 as in the code: the token at offset o is log[o + 1].*)
(* The file is a sequence of words; lengths and tokens are both words, so a *)
(* torn frame is misread the way the code misreads it.  The sites of a key  *)
(* are pushed in ascending order, so they are a set.                        *)
(***************************************************************************)
EXTENDS Integers, Sequences, FiniteSets, FiniteSetsExt

CONSTANTS
  Word,                 \* words of the file: token ids and lengths
  Stream,               \* streams observed in a run
  ngram, max_sites_per_ngram,
  Bucket, ngram_key(_), \* the hash of an n-gram; different ones may collide
  Budgets,              \* max_log_bytes in tokens, as configured at each start
  MaxFrame,             \* longest frame load() accepts
  MaxDraft,             \* bound: the k of a draft
  MaxFile               \* bound: words in the file

\* A stream is one generation: shorter than a frame may be.
ASSUME CorpusAssumption ==
  /\ Word \subseteq Nat
  /\ Stream \subseteq Seq(Word) \ {<<>>}
  /\ \A s \in Stream : Len(s) \in Word /\ Len(s) <= MaxFrame
  /\ {ngram, max_sites_per_ngram} \subseteq Nat \ {0}
  /\ \A g \in [1..ngram -> Word] : ngram_key(g) \in Bucket
  /\ Budgets \subseteq Nat
  /\ MaxFrame \in Nat

VARIABLES
  pc,               \* "down", or a process is "loading" or has loaded ("up")
  max_tokens,
  log, stream_ends, index, flushed_streams,
  file,             \* words on disk
  torn              \* a write has been lost or cut short

vars == <<pc, max_tokens, log, stream_ends, index, flushed_streams, file, torn>>

EmptyIndex == [x \in Bucket |-> {}]

-----------------------------------------------------------------------------
(* Log, index and draft                                                    *)

\* The n-gram at offset i.
NgramAt(lg, i) == SubSeq(lg, i + 1, i + ngram)

\* Sites a stream between two offsets has for key x.
SitesOf(lg, begin, end, x) ==
  {i + ngram : i \in {j \in begin..(end - ngram - 1) : ngram_key(NgramAt(lg, j)) = x}}

\* Mutant: a full key takes no new sites.
Trim_KeepsOldest(sites) ==
  {p \in sites : Cardinality({q \in sites : q < p}) < max_sites_per_ngram}
\* A key keeps its newest sites.
Trim(sites) ==
  {p \in sites : Cardinality({q \in sites : q > p}) < max_sites_per_ngram}

\* index_stream(): the sites are appended, key by key.
IndexStream(idx, lg, begin, end) ==
  [x \in Bucket |-> Trim(idx[x] \cup SitesOf(lg, begin, end, x))]

StreamStart(ends, s) == IF s = 1 THEN 0 ELSE ends[s - 1]
AllSites(lg, ends, x) ==
  UNION {SitesOf(lg, StreamStart(ends, s), ends[s], x) : s \in 1..Len(ends)}

\* rebuild_index(): every stream from nothing, oldest first.
Rebuilt(lg, ends) == [x \in Bucket |-> Trim(AllSites(lg, ends, x))]

\* Mutant: stops one token early.
DropStreams_Short(lg, ends) ==
  Min({d \in 0..Len(ends) : Len(lg) - StreamStart(ends, d + 1) <= max_tokens + 1})

\* evict_oldest(): how many of the oldest streams go.
DropStreams(lg, ends) ==
  Min({d \in 0..Len(ends) : Len(lg) - StreamStart(ends, d + 1) <= max_tokens})

\* Log and boundaries after it.
Evicted(lg, ends) ==
  LET d == DropStreams(lg, ends)
      cut == StreamStart(ends, d + 1) IN
  [log |-> SubSeq(lg, cut + 1, Len(lg)),
   ends |-> [s \in 1..(Len(ends) - d) |-> ends[s + d] - cut]]

stream_end_for(offset) ==
  LET later == {e \in {stream_ends[s] : s \in 1..Len(stream_ends)} : e > offset} IN
  IF later = {} THEN Len(log) ELSE Min(later)

\* The last n-gram of a tail.
LastNgram(tail) == SubSeq(tail, Len(tail) - ngram + 1, Len(tail))

\* A site whose n-gram really is the tail's, with something after it.
Usable(tail, start) ==
  /\ start < stream_end_for(start - 1)
  /\ LastNgram(tail) = NgramAt(log, start - ngram)

\* Up to k tokens from the newest of the sites.
Continuation(sites, k) ==
  IF sites = {} THEN <<>>
  ELSE LET start == Max(sites) IN
       SubSeq(log, start + 1, Min({stream_end_for(start - 1), start + k}))

\* Mutant: the hash is trusted.
draft_Unverified(tail, k) == Continuation(index[ngram_key(LastNgram(tail))], k)

\* draft(): the newest usable site of the tail's key.
draft(tail, k) ==
  IF k <= 0 \/ Len(tail) < ngram THEN <<>>
  ELSE Continuation({s \in index[ngram_key(LastNgram(tail))] : Usable(tail, s)}, k)

-----------------------------------------------------------------------------
(* The file                                                                *)

\* The frame of the written streams that word p belongs to.
FrameAt(ends, p) ==
  CHOOSE s \in 1..Len(ends) : StreamStart(ends, s) + s <= p /\ p <= ends[s] + s

\* Each stream's length and its tokens, in order.
Framed(lg, ends) ==
  [p \in 1..(Len(lg) + Len(ends)) |->
     LET s == FrameAt(ends, p) IN
     IF p = StreamStart(ends, s) + s THEN ends[s] - StreamStart(ends, s)
     ELSE lg[p - s]]

\* The words of the first n frames.
FrameWords(ends, n) == StreamStart(ends, n + 1) + n

\* The frames flush() appends.
Unflushed ==
  SubSeq(Framed(log, stream_ends), FrameWords(stream_ends, flushed_streams) + 1,
         Len(log) + Len(stream_ends))

Init ==
  /\ pc = "down" /\ max_tokens = 0
  /\ log = <<>> /\ stream_ends = <<>>
  /\ index = EmptyIndex /\ flushed_streams = 0
  /\ file = <<>> /\ torn = FALSE

Close ==
  /\ pc' = "down" /\ max_tokens' = 0
  /\ log' = <<>> /\ stream_ends' = <<>>
  /\ index' = EmptyIndex /\ flushed_streams' = 0

-----------------------------------------------------------------------------
(* Operations                                                              *)

\* A stream is appended to the log and indexed.
Remember(s) ==
  LET lg == log \o s IN
  /\ log' = lg /\ stream_ends' = Append(stream_ends, Len(lg))
  /\ index' = IndexStream(index, lg, Len(log), Len(lg))

\* rewrite_file(), which tests its stream as little as flush() does: the file
\* was not opened, or it is truncated and holds the first of the words.
Rewritten(words) ==
  \/ file' = file /\ torn' = TRUE
  \/ \E n \in 0..Len(words) :
       file' = SubSeq(words, 1, n) /\ torn' = (n < Len(words))

\* Memory and file after an eviction: the file is written anew.
Evict(lg, ends) ==
  LET ev == Evicted(lg, ends) IN
  /\ log' = ev.log /\ stream_ends' = ev.ends
  /\ index' = Rebuilt(ev.log, ev.ends)
  /\ Rewritten(Framed(ev.log, ev.ends))
  /\ flushed_streams' = Len(ev.ends)

\* The constructor: load() reads one frame after the other, until one is
\* missing, empty, too long or cut short.
Open(budget) ==
  /\ pc = "down" /\ pc' = "loading"
  /\ max_tokens' = budget
  /\ UNCHANGED <<log, stream_ends, index, flushed_streams, file, torn>>

NextWord == Len(log) + Len(stream_ends) + 1
FrameAhead ==
  /\ NextWord <= Len(file)
  /\ file[NextWord] # 0 /\ file[NextWord] <= MaxFrame
  /\ NextWord + file[NextWord] <= Len(file)

LoadFrame ==
  /\ pc = "loading" /\ FrameAhead
  /\ Remember(SubSeq(file, NextWord + 1, NextWord + file[NextWord]))
  /\ UNCHANGED <<pc, max_tokens, flushed_streams, file, torn>>

\* With an eviction if the budget has shrunk.
LoadEnd ==
  /\ pc = "loading" /\ ~FrameAhead
  /\ pc' = "up"
  /\ IF Len(log) > max_tokens
     THEN Evict(log, stream_ends)
     ELSE /\ flushed_streams' = Len(stream_ends)
          /\ UNCHANGED <<log, stream_ends, index, file, torn>>
  /\ UNCHANGED max_tokens

\* Mutant: a stream that only fits in memory counts as written.
observe_Flushed(s) ==
  /\ pc = "up" /\ Len(log \o s) <= max_tokens
  /\ Remember(s)
  /\ flushed_streams' = Len(stream_ends) + 1
  /\ UNCHANGED <<pc, max_tokens, file, torn>>

\* The stream is appended and indexed; over budget, the oldest streams go and
\* the file is rewritten.
observe(s) ==
  /\ pc = "up"
  /\ IF Len(log \o s) > max_tokens
     THEN Evict(log \o s, Append(stream_ends, Len(log \o s)))
     ELSE Remember(s) /\ UNCHANGED <<flushed_streams, file, torn>>
  /\ UNCHANGED <<pc, max_tokens>>

\* The words of flush() are appended, or the first of them, or none: no one
\* asks the stream whether it opened the file and wrote them all.
Flushed ==
  \E n \in 0..Len(Unflushed) :
    /\ Len(file) + n <= MaxFile
    /\ file' = file \o SubSeq(Unflushed, 1, n)
    /\ torn' = (torn \/ n < Len(Unflushed))

\* flush(): the streams count as flushed in every case.
flush ==
  /\ pc = "up" /\ Flushed
  /\ flushed_streams' = Len(stream_ends)
  /\ UNCHANGED <<pc, max_tokens, log, stream_ends, index>>

\* The destructor flushes and is gone.
Destroy == pc = "up" /\ Flushed /\ Close

-----------------------------------------------------------------------------
(* A crash, and the specification                                          *)

\* Memory is gone; what the last write left is on disk.
Crash == pc # "down" /\ Close /\ UNCHANGED <<file, torn>>

Next ==
  \/ \E m \in Budgets : Open(m)
  \/ LoadFrame \/ LoadEnd
  \/ \E s \in Stream : observe(s)
  \/ flush \/ Destroy \/ Crash

Spec == Init /\ [][Next]_vars

-----------------------------------------------------------------------------
(* Properties                                                              *)

\* Types; the log never outgrows its budget, its boundaries are ascending
\* offsets that end with it, and a key never has more sites than configured.
CorpusTypeOK ==
  /\ pc \in {"down", "loading", "up"} /\ torn \in BOOLEAN
  /\ {log, file} \subseteq Seq(Word)
  /\ pc # "loading" => Len(log) <= max_tokens
  /\ \A s \in 1..Len(stream_ends) : StreamStart(stream_ends, s) < stream_ends[s]
  /\ StreamStart(stream_ends, Len(stream_ends) + 1) = Len(log)
  /\ flushed_streams \in 0..Len(stream_ends)
  /\ \A x \in Bucket : Cardinality(index[x]) <= max_sites_per_ngram

\* Through observes, evictions, restarts and misread files, a draft is what
\* really followed the tail's n-gram: it continues an occurrence inside one
\* stream, never runs into the next one and never trusts a colliding hash.
DraftsContinueAStream ==
  \A g \in [1..ngram -> Word], k \in 1..MaxDraft :
    LET d == draft(g, k) IN
    d # <<>> =>
      /\ Len(d) <= k
      /\ \E s \in 1..Len(stream_ends) :
           \E o \in StreamStart(stream_ends, s)..(stream_ends[s] - ngram - Len(d)) :
             SubSeq(log, o + 1, o + ngram + Len(d)) = g \o d

\* The offsets of n-grams with a continuation in their stream.
Continued ==
  {o \in 0..(Len(log) - ngram - 1) :
     \E s \in 1..Len(stream_ends) : /\ StreamStart(stream_ends, s) <= o
                                    /\ o + ngram < stream_ends[s]}

\* Conversely an n-gram whose key no other n-gram of the log shares is answered
\* from its newest occurrence that has a continuation, although sites are
\* dropped as they are pushed and the offsets move with every eviction.
NewestOccurrenceFound ==
  \A g \in [1..ngram -> Word] :
    LET at == {o \in Continued : NgramAt(log, o) = g} IN
    (/\ at # {}
     /\ \A o \in Continued : ngram_key(NgramAt(log, o)) = ngram_key(g) => o \in at)
      => draft(g, 1) = <<log[Max(at) + ngram + 1]>>

\* These words are the frames of the first n streams, and nothing else.
Frames(words, lg, ends, n) ==
  /\ Len(words) = FrameWords(ends, n)
  /\ \A s \in 1..n :
       LET begin == StreamStart(ends, s) IN
       /\ words[begin + s] = ends[s] - begin
       /\ \A i \in (begin + 1)..ends[s] : words[i + s] = lg[i]

\* As long as no write was lost or cut short (by a crash, a full disk or a file
\* that would not open) the file holds exactly the streams that count as
\* flushed: a clean restart has read all of it when it is done, and flush()
\* neither repeats nor skips a stream, whatever was evicted in between.  An
\* eviction that writes the file as a whole makes good what was lost before.
FileMirrorsFlushed ==
  pc = "up" /\ ~torn => Frames(file, log, stream_ends, flushed_streams)
=============================================================================
