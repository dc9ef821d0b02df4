# Formal models of REAME

TLA+ models of the parts of REAME (a CPU inference server around llama.cpp) where
correctness depends on interleaving, ordering, failure or restart. TLC checks them on
small instances; TLAPS proves the main safety properties for every instance. Paths
below are relative to the repository root.

## 1. The system

| Part | Source | State it keeps | Operations | Interacts with |
|---|---|---|---|---|
| Scheduler | `src/core/scheduler.cpp` | deque `pending`, vector `active`, `slot_used`, map `done`, `next_id` | `submit`, `step` (admit, batched decode, sample, finish), `finished`, `error`, `idle` | drives the multi-sequence backend; called by the engine's worker |
| Parallel serving | `src/core/engine.cpp` (worker, `~Impl`, parallel branch of `generate_stream_impl`) | worker thread, `work_mutex`, two condition variables, `stopping` | `worker_loop`, submit-and-wait, destruction | API threads submit and block; tokens come back by callback from the worker |
| Backend | `src/core/llama_backend_real.cpp` | the KV cache of llama.cpp | `decode*`, `copy_seq`, `clear_seq`, `truncate_to`, state save and restore | everything above it |
| Disk cache store | `src/cache/disk_cache_store.cpp` | index `entries_` with recency, `total_bytes_`; one file per entry | `put`, `get`, `remove`, `clear`, constructor | cache manager, ARCA archive |
| Cache manager | `src/cache/cache_manager.cpp` | statistics | `store_state`, `load_state` | store below, prefix cache and sessions above |
| Prefix cache | `src/cache/prefix_cache.cpp` | none of its own | `prefill` | cache manager, backend |
| Classic decoding, sessions | `src/core/engine.cpp` | `context_tokens`, `sessions` | `generate_stream`, `warm`, `save/load/delete_session` | backend, prefix cache, cache manager |
| Response cache | `src/core/engine.cpp` | remote | lookup before, store after a generation | ARCA client |
| Conclave | `src/core/conclave.cpp`, `generate_best` | tally, stop flag, winner | attempts, early consensus, election | parallel serving |
| Speculative decoding | `src/speculative/` | KV of target and draft, adaptive draft length | draft, verify, roll back, emit | backend, corpus |
| Corpus index | `src/palimpsest/corpus_index.cpp` | token log, stream ends, n-gram index, file | `observe`, `draft`, `flush`, `load`, eviction | speculative decoding, archive |
| ARCA archive, server, client | `src/arca/` | store and corpus under a mutex; connections; one socket | commands, accept/serve/stop, get/set with timeouts | response cache |
| HTTP server, API handler | `src/server/` | connection count, `running`; generation gate | accept, handle, stop; routes | engine |
| Configuration, model checks, sampler, logger, command line | `src/utils/`, `src/core/`, `src/main.cpp` | - | - | - |

What is hard here:

* **Concurrency.** Three kinds of threads (API callers, the worker, the owner that
  destroys the engine) meet at two mutexes and two condition variables. Servers serve
  connections on detached threads and must get rid of them when they stop.
* **Shared KV.** Requests share one buffer; sequences are reused, and prompts are cloned
  from requests that are still generating. A wrong position is silent: the text is
  merely wrong.
  The speculative decoder keeps two models in step by positions alone.
* **Failure.** A batch, a sampler or a callback can throw; a write can be cut short; the
  process can die in the middle of `put()` or of an append; replies can fail to come and
  commands can take effect after the client has given up on them; serialising an answer
  can throw after the response has begun.
* **Persistence.** Index and files must agree after any of that, and what one process
  stored is used by the next.

`PROJECT.json` lists these under "hazards", each at its line with the properties that
would catch it.

## 2. Modules

```
RequestService <--refined by-- Scheduler   <--extended by-- ParallelEngine
LossyCache     <--refined by-- CacheManager --extends--> DiskCacheStore
      ^ used as the cache by
      |                  LlamaBackend <--extended by-- ClassicEngine
      |                       ^------------extended by-- SpeculativeDecoder --refines--> PlainDecoding
      |                                                        : drafts of CorpusIndex
ArcaClient  <--extended by-- Conclave
ApiHandler  <--extended by-- ConnectionServer
```

| Module | Content |
|---|---|
| `RequestService` | abstract: requests start in order, at most `n_parallel` run, tokens only while running, one outcome |
| `Scheduler` | the scheduler and the KV sequences it drives |
| `ParallelEngine` | worker, callers and destructor around `Scheduler` |
| `LossyCache` | abstract: a load restores the value stored last, or nothing |
| `DiskCacheStore` | the store, its directory, failed and cut writes, crash and restart |
| `CacheManager` | snapshots with a verified envelope on the store |
| `LlamaBackend` | one sequence of the backend: cells, position counter, what a failed decode may leave |
| `ClassicEngine` | prefix cache, sampling loop, sessions, `warm()`, restarts |
| `PlainDecoding` | abstract: one token at a time, each possible for the target after the text so far |
| `SpeculativeDecoder` | drafting (model, lookup, corpus, form), batch verification, rollback, adaptation |
| `CorpusIndex` | token log, n-gram index, eviction, the file and writes that are lost or cut short |
| `ApiHandler` | the gate, the engine's mutex and the response of each request |
| `ConnectionServer` | HTTP and ARCA server: accept thread, workers, `stop()`; runs `ApiHandler` |
| `ArcaClient` | the client's connection and the archive behind it |
| `Conclave` | `generate_best()` and the response cache on `ArcaClient` |
| `MC...` | instances for TLC |
| `SchedulerProofs`, `ParallelEngineProofs`, `CacheManagerProofs`, `ClassicEngineProofs`, `SpeculativeDecoderProofs`, `CorpusIndexProofs`, `ConnectionServerProofs`, `ConclaveProofs` | theorems |

An operator whose comment calls it a *mutant* (`Finish_KeepsSlot`, ...) is a plausible
bug of the definition it stands beside. It is used by no specification; it serves to show
that the property named with it in `PROJECT.json` does notice that bug.

### Scheduler

`submit` is one action. `step()` holds the scheduler's mutex throughout, but `finished()`
takes another mutex and sees requests complete one at a time, so a step is a sequence of
actions ordered by `pc`: `StepBegin`; `AdmitPrefill` or `AdmitClone` per iteration of
`admit()`; `AdmitEnd`; `DecodeOk` or `DecodeFail`; one `Sample...` per active request.
`submit` requires `pc = "idle"`, which is the mutex.

Ids grow and `pending` and `active` are appended to in that order, so "first in the
vector" is "least id" and `active` is a set. `kv[s]` maps the positions of sequence `s`
to cells that record the token and the request that computed it; copies share cells, so
`CellsOf` counts the unified buffer's cells. A decode that does not fit is refused; one
that fits may still fail. The sampler returns any token, an end-of-generation token or
throws; the callback returns either answer or throws. After a failed decode the
sequences involved are cleared by `finish()`, so what the decode left behind is not
modelled. `copy_seq` and `clear_seq` do not fail in the code.

### ParallelEngine

`worker`, `caller[c]` and `owner` are program counters with a step for every lock
operation, predicate evaluation, wait and notification; the scheduler's actions are those
of `Scheduler`, taken by the worker (`WorkerStep`) and the callers (`CallerSubmit`).
`wait()` with a predicate is: evaluate (mutex held), then release and sleep in one step.
`notify_all()` wakes those asleep at that moment. `idle()` inside the worker's predicate
needs the scheduler's mutex, hence `pc = "idle"` in `WorkerPredicate`; `finished()` does
not. When the engine is gone, what a caller still inside does is undefined, so
behaviours end there (hence no deadlock check).

### DiskCacheStore and CacheManager

Calls are serialised by the users of the store, so a call is one action. A file is
absent, torn after some bytes of its header or key, or holds a key and `len` bytes of a
value. `file_of` may map two keys to one file, as a 64-bit hash may. `PutDone` leaves any prefix in the file:
the code tests the stream before it flushes it. `PutCrash` stops after any number of
evictions or anywhere in the write. `Restart` is the constructor: it indexes the files it
can read (`Found`) at their present size, in order of modification. It passes over torn
headers and over keys longer than it allows (`MaxKeyBytes`), which `put()` writes and
`get()` reads all the same (`Readable`). Such files stay and are not counted, so
`BudgetHolds` is about the count and about the files a constructor finds; the directory as a
whole may be larger.
`load_state` is `get` followed by the check of the envelope; a value stands for envelope
and blob. `ManagerNext` keeps the raw operations, which the archive performs.

Assumed: modification times are distinct; the checksum tells a value from its proper
prefixes; `fs::remove` succeeds; data handed to the operating system survives the death
of the process. Recency counters and modification times are abstracted to the orders they
induce, each a set of pairs `<<older, newer>>`, and a sum of sizes is the number of bytes
(a cardinality). The evicting loop is the set of what it removes: an entry goes when
removing all that are older was not enough (`evict_until_fits`), and after a crash in the
loop exactly those older than some such entry are gone (`Before`).

### LlamaBackend and ClassicEngine

A backend is its cells and the counter `n_past` that the wrapper keeps itself; logits are
abstracted to the tokens they follow. A decode that throws leaves any part of the batch in
the cells without moving the counter, or has moved it and found no logits. The two then
disagree, and later decodes are refused until something resets or restores the sequence.

A call of `generate_stream` is `generate`, then (with a cache) `Restore` (the longest
boundary that loads), one `DecodeBlock` per block with its snapshot, `DecodeTail` for the
last token, and `SampleToken` or `StopGeneration` per round of the loop. `warm` shares the
prefill. Calls are serialised by the API handler's mutex, so nothing interleaves with them
except the cache losing entries (`Lose`), decodes that throw at any of these points, and
the process dying (`Restart`) on the same cache directory. The cache is what `CacheManager`
is proved to implement, with the key as the tuple that the code hashes; a store that is
refused is one that is lost at once.

`save_session` files the backend as it is under `context_tokens`, which may differ: the
newest token is never decoded, `warm()` and failed decodes move the KV only. The model
keeps that, and the properties say what must not depend on it: every prefix snapshot is
exact and every logit follows exactly the prompt and what was generated after it. A
session without snapshot is replayed by `load_session`, which may exceed the window by the
one undecoded token and then fails.

### SpeculativeDecoder

One object over several calls and, in lookup mode, several processes sharing the corpus.
A round is a draft (`ModelDraft`, `ModelDraftFails`, `LookupDraft`), `Verify` (batched
decode, verdict, rollback of both models), one `Emit` or `EmitEnd` per token, `Adapt`; or
`PlainStep`. Probabilities are abstracted to supports: acceptance never takes a token of
target probability zero and always takes one of probability one; a correction has positive
target probability and is not the rejected token. `find_draft` is prompt lookup in full;
when it finds nothing the corpus proposes a continuation of the last n-gram in an observed
stream, of which `CorpusIndex` says which, or nothing (it may be absent, or have evicted
the stream), and then the form does, a given function of the end of the text.

The draft model's vocabulary is any set of tokens: the constructor tolerates a difference
in either direction. The rows of probabilities are indexed by the proposed tokens without
a check, so a proposal outside the target's vocabulary reads (and in lookup mode writes)
out of bounds. From then on (`overrun`) every verdict and every sample is possible, or the
process ends (`Restart` at any point), and `ImplementsPlainDecoding` promises nothing until
a new process is up. The effect of the stray write on anything else is not modelled.
A draft that fails, or a token outside the draft model's table, switches speculation off
for the rest of the decoder's life; the prefill of a later call does not switch it on
again.

### CorpusIndex

Log, boundaries, index, `flushed_streams` and the file as a sequence of words: lengths and
tokens are both words, so what follows a torn frame is misread as the code misreads it.
`observe`, `flush`, the constructor, whose `load()` reads one frame per step and ends with
an eviction if the budget has shrunk, the destructor, and crashes. No stream is tested
after a write, so an append (`Flushed`) or a rewrite (`Rewritten`) leaves any prefix of its
words, the rewrite also the old file if it could not be opened, and the streams count as
flushed in every case; a crash inside a write is such a cut followed by `Crash`. `torn`
remembers that words were lost, until a rewrite succeeds. `ngram_key` may collide.
The sites of a key are a set: they are pushed in ascending order, so the newest is the
greatest. `MaxFrame` is the length above which `load()` takes a frame for garbage (2^26
tokens); a stream is one generation and shorter than that. The cut of a write is between
words. Loading a misread file gives streams nobody observed; the properties of drafts are
stated about the streams as loaded, and the one about the file for files without such a
cut.

### ApiHandler and ConnectionServer

Each worker has a program counter `at`. The handler's steps are the atomic operations of
the gate (`GateAdd` adds and compares, `GateRefuse` takes back, `GateRelease`), the engine's
mutex, and the response. A request is the path it takes; "cheap" is everything answered
without the engine. Which calls take the mutex, and which respond while holding it, is as
in the code. `respond()` calls `begin()`, serialises and ends: `begun` counts the first,
`heads` what reaches the socket, where the writer holds back all but streams until the
end. Serialising throws when a text is not UTF-8. For a generation the handler's own catch
then begins another response (`DumpThrows`); elsewhere, as with the other exceptions that
no handler catches, it leaves a detached thread and ends the process (`Escapes`, `alive`).

`ConnectionServer` is both servers. The HTTP server closes the acceptor, joins the accept
thread and polls a bounded number of times; the ARCA server joins, closes, shuts the
registered sockets down and waits. A worker is counted before its thread starts and
registers itself (ARCA) as its first step, so `stop()` may miss one that is on its way:
`StopReturns` says what is left of the guarantee. A server is started once.

### ArcaClient and Conclave

The connection is made lazily and dropped on any failure. A command the archive has
received may take effect after that (`late`). The archive answers in order, forgets, or
never answers; a read then waits until the archive closes the connection, because the
receive timeout does not end it (section 3). A request is a prompt with its parameters,
and `cache_key` maps requests to keys: those that differ in `repeat_penalty` or
`repeat_last_n`, or whose hashes collide, share one. An answer's text is the request it was
generated for, its final number, whether it was sampled and whether it is whole. `n = 1` is a plain call whose caller may stop it at any token.
Attempts run one after the other or as threads; `Deposit` is the critical section under
`tally_mutex`. The medoid by word overlap is any candidate. Of a conclave's attempts only
attempt 0 is cacheable, so the client has one user; calls follow one another.

## 3. Runs

| Run | Instance | Shows |
|---|---|---|
| `scheduler` | 3 requests, 2 slots, 5 cells, prompts `a`, `ab` and one of 5 tokens, 2 new tokens (280k states) | types; no request lost, repeated or overtaken; slots exclusive; KV = own history; each slice completes the history; results permanent; implements `RequestService`; every request finishes |
| `scheduler_budget` (violation) | 2 requests, 4 cells | admitted requests outgrow the shared buffer |
| `engine` | 2 callers, 1 spurious wake-up (240k states) | mutex discipline, stop flag not missed, callbacks on live frames, destruction ends |
| `engine_wakeup` (violation) | same | a lost wake-up leaves a call blocked |
| `cache_manager` | 3 keys on 2 files, one too long for the constructor, values of 0, 2 and 7 bytes, budget 8 (3,200 states) | index and files agree; the count is exact and within the budget; implements `LossyCache` |
| `classic_engine` | window 3, blocks of 2, a prompt shorter than a block and two that share a block, 1 session, 2 snapshots (3.3M states) | prefix snapshots are exact; every logit follows its own text |
| `speculative` | window 5, drafts of 1 to 3, a greedy and a sampling model, a draft model with a token neither has, 2 calls, restarts (707k states) | both models one token behind; batches fit; output is one of plain decoding until a proposal leaves the vocabulary; every generation ends |
| `lookup_vocabulary` (violation) | same, the second model has a larger vocabulary | a corpus proposal is out of the vocabulary |
| `corpus` | n-grams of 1, colliding keys, 1 site per key, budgets 2 and 5, 7 words of file (451k states) | drafts continue a stream; the newest occurrence is found; file and log agree |
| `serving` | 2 workers, gate of 1, 2 polls, both servers, both kinds of engine (104k states) | gate, mutex and connection accounting; responses; nobody after stop; stop returns; requests answered |
| `conclave` | 2 requests on 2 keys, 2 numbers, `n` of 1 to 3, 1 late command (452k states) | the cache replays only greedy texts of the call's key; an early verdict stands; every call whose generations and commands end comes back |
| `conclave_vote` (violation) | same, with a third request that shares a key | a text cut by its caller votes after being cached |

**Bounds.** `MaxRequests`, `MaxSpurious`, `MaxNew`, `MaxSessions`, `MaxSnapshots`,
`MaxCalls`, `MaxDraft`, `MaxFile`, `MaxPolls`, `MaxLate`, the prompts and the values are the
bounds. *Scheduler, engine:* two slots and three requests let a slot be reused while the
other is busy, a clone be taken from a donor that has moved on, and a queue form;
`n_ctx = 5` lets two requests outgrow the budget and lets one reach the context limit.
Spurious wake-ups are bounded because unlimited ones would, under weak fairness, keep a
mutex busy forever. *Store:* two keys on one file and a third elsewhere give both
displacement and eviction of another; the longest value with its header is over the
budget, two others fill it exactly, and one key is passed over at a restart. *Classic:* the prompts fill the window, so restores from a block boundary, from the
end and from nothing, generation that ends at the window, and a session one token over it
all occur; two snapshots force evictions. *Speculative:* drafts longer than the room left,
accepted in whole, in part and not at all, and one outside the target's vocabulary; a
second call after speculation was switched off. *Corpus:* streams as long as a budget, eviction at start and at run time, keys that
share a bucket. *Serving:* a full gate, a held mutex and a worker between accept and
registration need two workers; three were checked once for the safety properties.
*Conclave:* three candidates are the least with a majority before the last one, and two keys
are needed for a reply to be taken for another's. Requests that share a key would make the
liveness check too long; without it they were checked once, and the theorem `CacheIsExact`
is about every assignment of keys.

**Deadlock** is not checked for `engine` and `engine_wakeup` (behaviours end when the
engine is gone) and `serving` (the server stops, or the process ends).

**Fairness.** *Scheduler:* `WF(Step)`, because the worker calls `step()` while there
is work. *Engine:* weak fairness for the worker, for each caller once it has submitted,
and for the owner once destruction has begun: a runnable thread runs. Nothing is assumed
of callers that have not called, of the decision to destroy, or of spurious wake-ups.
*Speculative:* `WF(Step)`; a generation is one thread that is never blocked.
*Serving:* the accept thread, `stop()` once begun, each worker's own steps, and an ARCA
worker whose socket was shut down. Nothing of the clients, which may connect, stay silent,
hang up or not read, and nothing of an engine call or a write to a client (`Outside`), which
may never return: a parallel call may block (finding 2), and a reader that stalls holds the
mutex. `EveryRequestAnswered` has that as its hypothesis, so it says that the gate, the
mutex and the error paths by themselves hold nobody up. The mutex needs no strong fairness:
each worker handles one request, so the others cannot take it for ever. *Conclave:* a
thread that can start, hand in or elect does; nothing of the archive, the network or a
generation, which are the hypothesis of `EveryCallComesBack`.

**Disagreements found** (details with quotations in `PROJECT.json`, "findings"):

1. *KV budget.* `admit()` counts present lengths only, although its comments speak of
   waiting for space in a shared budget; a batch that has outgrown it fails for all.
2. *Lost wake-up.* `submit` and `notify_all` run outside `work_mutex`; the predicate the
   comment relies on does not close that gap. The next call or destruction wakes the
   worker.
3. *Lookup vocabulary.* Corpus tokens are taken for history tokens, which they are not
   after the configured model has changed.
4. *Truncated votes.* A generation stopped by its caller is cached as a complete response
   and votes in a later conclave.

**Known behaviour, modelled and without a run of its own.** A wait ended by `stopping`
returns normally with a partial text. A store file cut by a crash is indexed at its cut
length and served by the archive's `GET` (the cache manager's checksum catches it). Reads
do not count for the eviction order after a restart. Requests that are being refused
inflate the gate's counter and may have others refused below the limit. `stop()` of the HTTP
server may give up on workers that still use it, and that of the ARCA server waits for a
worker it did not find in `conns`. Corpus: `corpus_index.hpp:57`
says a crash loses at most the unflushed tail, but what is appended behind a torn frame is
misframed, a rewrite is in place and no write is checked; `corpus_index.hpp:25` says the oldest half is dropped,
the code drops as many streams as needed. `warm()` of a prompt that is later extended is of
use only up to its last whole block. Uncaught exceptions in a connection thread end the
process. The following are against a line of the repository:

* the constructor of the store leaves files with torn headers or keys over 4096 bytes in the
  directory, beside a budget's worth of counted ones, where `docs/ARCA.md:41` speaks of a
  byte budget on disk;
* `respond()` begins before it serialises, so a completion whose text is not UTF-8 is begun
  again by the handler's catch, where `http_types.hpp:41-42` says once; only the second
  is sent;
* a stream whose generation fails is followed by a complete error response on the same
  connection, where `http_server.cpp:22-24` has the close mark the end;
* `cache_key()` leaves out the repetition penalty, which changes greedy output, where
  `engine.cpp:232-233` says the key folds in everything that does, and its hash is not
  verified: a hit may answer another request;
* asio waits for a non-blocking socket without limit, whatever `SO_RCVTIMEO` says, where
  `client.cpp:26-27` says a read of a hung archive returns.

Not modelled: a snapshot is keyed by the model's path, so replacing the file behind it lets
the old model's KV be restored; `fs::remove` that fails leaves an entry to come back.

## 4. Proofs

All for arbitrary constants subject to the named assumptions (`SchedulerAssumption`,
`EngineAssumption`, `StoreAssumption`, `AbsentAssumption`, `BackendAssumption`,
`ClassicAssumption`, `SpeculativeAssumption`, `CorpusAssumption`, `HandlerAssumption`, `ServerAssumption`,
`ConclaveAssumption`).

* **`SchedulerProofs`.** `SchedulerInv` is inductive: types, `NoRequestLost`,
  `SlotsExclusive`, `KVMatchesHistory`, `SliceCompletesHistory` and `Bookkeeping`. None of
  the parts is inductive alone: that a clone is right needs the donor's KV to be right,
  which needs exclusive slots, which need free slots to be empty; that a free slot
  exists when `admit()` looks for one needs the count of active requests and the
  injection from them to slots (a pigeonhole argument on finite cardinalities).
  `Bookkeeping` records that a queued request is as `submit` left it. There is one lemma
  per action; `ResultsArePermanent` follows from the same invariant.
* **`SchedulerProofs`, the refinement.** Every step maps to a step of `RequestService` or to a stutter,
  with `Status` (where a request is kept) and `Output` (what follows its prompt).
* **`ParallelEngineProofs`.** `EngineSpec => Spec`: the threads take only steps of the
  scheduler, so its theorems hold under them. `EngineInv` adds that the flag is up exactly
  when the destructor has left its critical section, and that a call which returned on a
  running engine has a finished request; with the permanence of results that gives
  `CallbackSafety`.
* **`CacheManagerProofs`.** `FilesIndexed` with `StoreTyped` is inductive; it says a file is
  never longer than the index says, so that a hit's bytes are all the file has and the
  checksum decides. From it every step maps to a step of `LossyCache` or a stutter.
  `BudgetInv` adds `RecencyInv` (the index is finite and its order of use a line, and the
  readable files have a line of ages, from which a restart makes the order anew), an exact
  count, and found files within the budget. That the evicting loop really makes room
  (`EvictionFits`): if it keeps an entry, take the least recently used it keeps; what it
  evicted is then exactly what is older, and keeping that entry means it was enough; if it
  keeps none, the count is zero and an entry that is not too large fits. The sums rest on
  lemmas about cardinalities: of a part and the rest, and of a set mapped one to one into
  another (files to the keys they hold, and back at a restart).
* **`ClassicEngineProofs`.** `ClassicInv` says for each place of a call what the backend
  holds: in the prefill the beginning of the prompt up to the last block boundary, restored
  or decoded; before the tail all but the last token; in the loop the whole text. A failed
  decode ends the call, so nothing is claimed of the backend it leaves behind, nor of one
  restored from a session: the next call resets or restores it before it stores a snapshot.
  `PrefixSnapshotsExact` is part of it, because a restore is only as good as what was stored.
* **`SpeculativeDecoderProofs`.** `DecoderInv` is the types, `KvBehindByOne`, and what is
  true in the middle of a round: `VerifyInv` at the verification (the target is one token
  behind, the draft model has decoded the proposal but for its last token), `EmitInv` while
  accepted tokens are delivered (both caches already hold what will be delivered, less the
  newest token), `TextInv` on text and limits. As long as `overrun` is false the verdict of a
  batch is then a run of plain decoding, one delivered token at a time, which gives the
  refinement of `PlainDecoding`; a step that sets it, or follows it, maps to the end of a
  text or to a stutter.
* **`CorpusIndexProofs`.** `CorpusInv`: the boundaries ascend and end with the log
  (`Shape`), the index is at every moment what `rebuild_index()` would make of the log, and
  the file is as `FileInv` says. That the index is as rebuilt although sites are dropped
  while newer ones are pushed is `TrimInSteps`: trimming early and again comes to trimming
  once. From there the two properties of drafts are about one log and no history. A file
  that is still to be read is `Readable`: there are streams of which it is the frames, and
  what was loaded so far is their beginning. So the next frame is the next stream
  (`ReadableOn`), and loading stops at the end of the file and nowhere before
  (`ReadableEnd`), which is what makes `flushed_streams` right after a restart;
  `FlushedFrames` is the same for an append. A file that lost words has no such streams;
  the log loaded from it still has its shape, so the theorems on drafts cover it.
* **`ConnectionServerProofs`.** Six inductive invariants, each as small as its theorem
  allows. `GateInv` adds to `GateAccounting` where a slot may be held, so that the release
  is known to give back one that was taken; `MutexInv` says a worker inside an engine that
  is not parallel holds the mutex; `ConnInv` is the connection count; `StopInv` adds where
  `stop()` and the accept thread are: the accept thread has exited once joined, the acceptor
  is closed before the last wait, and a count of zero then means nobody is left. The counting steps are three
  lemmas about moving one worker between the places that are counted. `AnswerInv` says how
  many response heads a worker has on its socket at each place, which with `GateInv` gives
  `AnsweredOnce`; `ShapeInv` and the counts being cardinalities give the types, so neither
  counter can wrap below zero.
* **`ConclaveProofs`.** `CacheInv` is `WireInv` (the connection carries nothing but the one
  command attempt 0 waits for, or its reply), `ArchiveInv` (what is stored, and what may
  still be stored by a late command, is greedy and of its key) and `AttemptInv` (what each
  attempt holds is its own or the cache's). `cache_key` is any function. Without `WireInv` a reply could belong to another command.
  `VoteInv` relates the tally to the deposited texts: a number's count is at most the number of
  candidates that deposited it, so a majority in the tally is one of texts; later deposits
  only add to it. The types need both: that no number has more votes than candidates is
  `VoteInv`, that one command is outstanding is `WireInv`.

Only model-checked: the liveness properties (`EveryRequestFinishes`, `StopJoinsWorker`,
`EveryGenerationEnds`, `StopReturns`, `EveryRequestAnswered`, `EveryCallComesBack`), which
are out of the prover's reach. Every other property of a passing run is a theorem.

## 5. Not modelled, and what is left

Not modelled: the byte formats (KV serializer, RESP and HTTP parsers), whose state is local
and whose refusals are exits of the modelled actions; floating-point sampling and the
numeric part of acceptance; the wording of form drafts; configuration, automatic
configuration, logging and the command line; the stub backend and the model file checks.

Abstractions that leave something out: sessions of a speculative engine; a server started
again after `stop()`; two API threads that use the ARCA client of a parallel engine at the
same time, which race on its socket (the code has no lock there), so what is shown of the
response cache is for calls that follow one another; a model file replaced
under the same path; `fs::remove` failing; writes cut inside a word of the corpus file; a
corpus file that exists and cannot be opened for reading; what an out-of-bounds write of
the speculative decoder destroys.

Left to do: the ARCA client with two users, once its sharing is decided in the code.

## 6. Reproducing

In this directory: `tlc -config <cfg> <module>` for a run, `tlapm <module>.tla` for the
proofs of a module.
