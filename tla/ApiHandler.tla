----------------------------- MODULE ApiHandler -----------------------------
(***************************************************************************)
(* The API handler (src/server/api_handler.cpp), as the connection workers  *)
(* run it: the generation gate, the engine's mutex, and the response each   *)
(* request gets.  Requests are abstracted to the path they take; bodies,    *)
(* JSON and the engine's answers to success or failure.                     *)
(***************************************************************************)
EXTENDS Integers, FiniteSets

CONSTANTS
  Worker,                   \* connection workers, one request each
  max_concurrent_requests

Free == "free"
ASSUME HandlerAssumption ==
  /\ IsFiniteSet(Worker) /\ Free \notin Worker
  /\ max_concurrent_requests \in Nat

\* A streamed chat is a "stream": formatting its messages changes nothing.
\* "cheap" is every request answered without the engine: health, models,
\* metrics, CORS, and what authentication, routing or validation refuses.
Generation == {"completion", "chat", "stream"}
Kind == Generation \cup {"cheap", "warm", "session"}

VARIABLES
  parallel,             \* engine.parallel_capable()
  alive,                \* the process; an exception that escapes a worker ends it
  at,                   \* where each worker is
  kind,                 \* the request it handles
  failed,               \* the response will be an error
  slot,                 \* workers whose BusyGuard acquired
  begun,                \* begin() calls on each worker's response
  heads,                \* responses whose head is on the worker's socket
  engine_mutex,
  active_generations, total_requests, errors

handler_vars == <<parallel, alive, at, kind, failed, slot, begun, heads,
                  engine_mutex, active_generations, total_requests, errors>>

HandlerInit ==
  /\ parallel \in BOOLEAN
  /\ alive = TRUE
  /\ at = [w \in Worker |-> "none"]
  /\ kind = [w \in Worker |-> "cheap"]
  /\ failed = [w \in Worker |-> FALSE]
  /\ slot = {}
  /\ begun = [w \in Worker |-> 0] /\ heads = [w \in Worker |-> 0]
  /\ engine_mutex = Free
  /\ active_generations = 0 /\ total_requests = 0 /\ errors = 0

Goto(w, from, to) == alive /\ at[w] = from /\ at' = [at EXCEPT ![w] = to]

-----------------------------------------------------------------------------
(* route() and the gate                                                    *)

FirstStep(k) == CASE k = "cheap" -> "reply"
                  [] k = "chat" -> "format"
                  [] k \in {"completion", "stream"} -> "gate"
                  [] k \in {"warm", "session"} -> "lock"

Route(w) ==
  /\ \E k \in Kind :
       /\ Goto(w, "route", FirstStep(k))
       /\ kind' = [kind EXCEPT ![w] = k]
       /\ \E bad \in IF k = "cheap" THEN BOOLEAN ELSE {FALSE} :
            failed' = [failed EXCEPT ![w] = bad]
  /\ total_requests' = total_requests + 1
  /\ UNCHANGED <<parallel, alive, slot, begun, heads, engine_mutex,
                 active_generations, errors>>

\* format_chat() is called without the engine's mutex.
FormatChat(w) ==
  /\ Goto(w, "format", "gate")
  /\ UNCHANGED <<parallel, alive, kind, failed, slot, begun, heads, engine_mutex,
                 active_generations, total_requests, errors>>

\* Mutant: one request too many.
AtCapacity_OffByOne == active_generations > max_concurrent_requests
AtCapacity == active_generations >= max_concurrent_requests

\* BusyGuard adds first and then looks at what was there.
GateAdd(w) ==
  /\ active_generations' = active_generations + 1
  /\ IF AtCapacity
     THEN Goto(w, "gate", "refusing") /\ UNCHANGED slot
     ELSE /\ Goto(w, "gate", IF kind[w] = "stream" THEN "begin" ELSE "lock")
          /\ slot' = slot \cup {w}
  /\ UNCHANGED <<parallel, alive, kind, failed, begun, heads, engine_mutex,
                 total_requests, errors>>

\* Over capacity: taken back, and answered 503.
GateRefuse(w) ==
  /\ Goto(w, "refusing", "reply")
  /\ active_generations' = active_generations - 1
  /\ failed' = [failed EXCEPT ![w] = TRUE]
  /\ UNCHANGED <<parallel, alive, kind, slot, begun, heads, engine_mutex,
                 total_requests, errors>>

-----------------------------------------------------------------------------
(* The engine                                                              *)

\* A stream's head goes out before the generation starts.
BeginStream(w) ==
  /\ Goto(w, "begin", "lock")
  /\ begun' = [begun EXCEPT ![w] = @ + 1]
  /\ heads' = [heads EXCEPT ![w] = @ + 1]
  /\ UNCHANGED <<parallel, alive, kind, failed, slot, engine_mutex,
                 active_generations, total_requests, errors>>

\* Mutant: warm() counts as a read and is not serialised.
NeedsMutex_NotWarm(w) ==
  kind[w] = "session" \/ (~parallel /\ kind[w] # "warm")
\* Sessions always take the mutex, the others unless the engine is parallel.
NeedsMutex(w) == kind[w] = "session" \/ ~parallel

EnterEngine(w) ==
  /\ Goto(w, "lock", "engine")
  /\ IF NeedsMutex(w) THEN engine_mutex = Free /\ engine_mutex' = w
     ELSE UNCHANGED engine_mutex
  /\ UNCHANGED <<parallel, alive, kind, failed, slot, begun, heads,
                 active_generations, total_requests, errors>>

\* A session's response, and a successful warm()'s, go out under the mutex.
RepliesLocked(w, bad) == kind[w] = "session" \/ (kind[w] = "warm" /\ ~bad)

\* The call returns or throws what the handler catches.
LeaveEngine(w) ==
  /\ Goto(w, "engine", "reply")
  /\ \E bad \in BOOLEAN :
       /\ failed' = [failed EXCEPT ![w] = bad]
       /\ engine_mutex' = IF engine_mutex = w /\ ~RepliesLocked(w, bad)
                          THEN Free ELSE engine_mutex
  /\ UNCHANGED <<parallel, alive, kind, slot, begun, heads, active_generations,
                 total_requests, errors>>

-----------------------------------------------------------------------------
(* The response                                                            *)

\* Mutant: a response after every request, also after a stream's end.
Responds_Always(w) == TRUE
\* A stream that went well only needs its end; everything else respond()s.
Responds(w) == ~(kind[w] = "stream" /\ w \in slot /\ ~failed[w])

Begins(w) == begun' = [begun EXCEPT ![w] = @ + 1]
Counts(w) == errors' = IF failed[w] THEN errors + 1 ELSE errors

\* Mutant: an error response leaves the engine locked.
Unlocked_NotOnError(w) == IF engine_mutex = w /\ ~failed[w] THEN Free
                          ELSE engine_mutex
Unlocked(w) == IF engine_mutex = w THEN Free ELSE engine_mutex

\* respond() begins, serialises and ends a response; the writer of one that
\* is not a stream holds it back until its end.
Reply(w) ==
  /\ Goto(w, "reply", IF w \in slot THEN "release" ELSE "sent")
  /\ IF Responds(w)
     THEN Begins(w) /\ heads' = [heads EXCEPT ![w] = @ + 1]
     ELSE UNCHANGED <<begun, heads>>
  /\ Counts(w)
  /\ engine_mutex' = Unlocked(w)
  /\ UNCHANGED <<parallel, alive, kind, failed, slot, active_generations,
                 total_requests>>

\* The text of a generation is not UTF-8 (cut inside a character), and dump()
\* throws after begin(): the handler's own catch answers with an error.
DumpThrows(w) ==
  /\ Goto(w, "reply", "reply")
  /\ kind[w] \in {"completion", "chat"} /\ w \in slot /\ ~failed[w]
  /\ failed' = [failed EXCEPT ![w] = TRUE]
  /\ Begins(w)
  /\ UNCHANGED <<parallel, alive, kind, slot, heads, engine_mutex,
                 active_generations, total_requests, errors>>

\* An exception nobody catches leaves the detached thread and ends the
\* process: handle_sessions() catches EngineError only, and a failed decode
\* in load_session() is a ModelError; the fields of a generation's body are
\* converted outside its try block.
Uncaught(w) ==
  /\ \/ at[w] = "engine" /\ kind[w] = "session"
     \/ at[w] = "format"
     \/ at[w] = "begin"
     \/ at[w] = "lock" /\ kind[w] \in {"completion", "chat"}
  /\ UNCHANGED <<begun, errors>>

\* dump() throws outside every try block: an unknown endpoint's name, a
\* session's id or the configured model's is not UTF-8.
UncaughtDump(w) ==
  /\ at[w] = "reply"
  /\ kind[w] = "cheap" \/ (kind[w] = "session" /\ failed[w])
  /\ Begins(w) /\ Counts(w)

Escapes(w) ==
  /\ alive
  /\ Uncaught(w) \/ UncaughtDump(w)
  /\ alive' = FALSE
  /\ UNCHANGED <<parallel, at, kind, failed, slot, heads, engine_mutex,
                 active_generations, total_requests>>

\* Mutant: released by hand as well as by the destructor.
GateRelease_Twice(w) ==
  /\ Goto(w, "release", "sent")
  /\ active_generations' = active_generations - 2
  /\ slot' = slot \ {w}
  /\ UNCHANGED <<parallel, alive, kind, failed, begun, heads, engine_mutex,
                 total_requests, errors>>

\* ~BusyGuard()
GateRelease(w) ==
  /\ Goto(w, "release", "sent")
  /\ active_generations' = active_generations - 1
  /\ slot' = slot \ {w}
  /\ UNCHANGED <<parallel, alive, kind, failed, begun, heads, engine_mutex,
                 total_requests, errors>>

Handle(w) ==
  \/ Route(w) \/ FormatChat(w) \/ GateAdd(w) \/ GateRefuse(w) \/ BeginStream(w)
  \/ EnterEngine(w) \/ LeaveEngine(w) \/ Reply(w) \/ DumpThrows(w)
  \/ GateRelease(w)

-----------------------------------------------------------------------------
(* Properties                                                              *)

\* The gate's counter is the slots held plus the requests being refused: no
\* path (refusal, success, exception) leaks or frees one twice.  So, although
\* it adds before it compares and takes back afterwards, it never lets more
\* generations in than configured.
GateAccounting ==
  /\ active_generations =
       Cardinality(slot) + Cardinality({w \in Worker : at[w] = "refusing"})
  /\ Cardinality(slot) <= max_concurrent_requests

\* With an engine that is not parallel, no two requests are inside a
\* generation, a warm-up or a session operation at once.
EngineExclusive ==
  ~parallel => \A v, w \in Worker : at[v] = "engine" /\ at[w] = "engine" => v = w

\* Whatever fails, a request that took the gate has one response on its
\* socket when it gives its slot back.  Only a stream that fails after its
\* head went out has a second head on the socket, the error's; and only a
\* completion whose text could not be serialised has begun a response that
\* never reached it, once.
AnsweredOnce ==
  \A w \in Worker :
    /\ at[w] = "release" => heads[w] >= 1
    /\ heads[w] > 1 => heads[w] = 2 /\ kind[w] = "stream" /\ failed[w]
    /\ alive /\ begun[w] # heads[w] =>
         begun[w] = heads[w] + 1 /\ kind[w] \in {"completion", "chat"} /\ failed[w]
=============================================================================
