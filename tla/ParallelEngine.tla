--------------------------- MODULE ParallelEngine ---------------------------
(***************************************************************************)
(* Parallel serving in src/core/engine.cpp: one worker thread drives the    *)
(* scheduler; any number of threads call generate_stream(), submit a        *)
(* request and block until it completes; the owner destroys the engine.     *)
(* The scheduler is the module Scheduler itself: the worker takes its steps *)
(* and the callers its submits.                                             *)
(*                                                                          *)
(* A condition variable is modelled by its two halves: wait() releases      *)
(* work_mutex and goes to sleep in one step, but the predicate is evaluated *)
(* in a step of its own before it, and notify_all() wakes only the threads  *)
(* asleep at that moment.  A thread may also wake for no reason.            *)
(***************************************************************************)
EXTENDS Scheduler

CONSTANTS
  Caller,      \* threads that call generate_stream(), once each
  MaxSpurious  \* bound: wake-ups without a notification in a behaviour

Free == "free"
Worker == "worker"
Owner == "owner"
ASSUME EngineAssumption ==
  /\ {Free, Worker, Owner} \cap Caller = {}
  /\ MaxSpurious \in Nat

VARIABLES
  worker,      \* where worker_loop() is
  more,        \* its local: step() wants to be called again
  caller,      \* where each generate_stream() is
  id,          \* its local: the id submit() returned, 0 before
  owner,       \* where ~Impl() is; "alive" before it starts
  work_mutex,  \* the thread that holds it
  stopping,
  spurious     \* wake-ups without a notification so far

engine_vars == <<vars, worker, more, caller, id, owner, work_mutex, stopping,
                 spurious>>

EngineInit ==
  /\ Init
  /\ worker = "enter"
  /\ more = FALSE
  /\ caller = [c \in Caller |-> "start"]
  /\ id = [c \in Caller |-> 0]
  /\ owner = "alive"
  /\ work_mutex = Free
  /\ stopping = FALSE
  /\ spurious = 0

-----------------------------------------------------------------------------
(* worker_loop()                                                           *)

WorkerAt(from, to) == worker = from /\ worker' = to

\* The lock, on entry and after the stepping loop or a wake-up.
WorkerLock ==
  /\ \/ WorkerAt("enter", "while")
     \/ WorkerAt("relock", "pred")
  /\ work_mutex = Free
  /\ work_mutex' = Worker
  /\ UNCHANGED <<vars, more, caller, id, owner, stopping, spurious>>

\* while (!stopping): the lock is released either way.
WorkerWhile ==
  /\ WorkerAt("while", IF stopping THEN "exit" ELSE "step")
  /\ work_mutex' = Free
  /\ UNCHANGED <<vars, more, caller, id, owner, stopping, spurious>>

\* One call of step(): from StepBegin until the scheduler's mutex is released.
WorkerStep ==
  /\ worker = "step"
  /\ Step
  /\ more' = (active' # {} \/ pending' # <<>>)
  /\ worker' = IF pc # "idle" /\ pc' = "idle" THEN "notify" ELSE "step"
  /\ UNCHANGED <<caller, id, owner, work_mutex, stopping, spurious>>

\* done_cv.notify_all(), without work_mutex.
WorkerNotify ==
  /\ WorkerAt("notify", IF more THEN "step" ELSE "relock")
  /\ caller' = [c \in Caller |-> IF caller[c] = "asleep" THEN "lock"
                                 ELSE caller[c]]
  /\ UNCHANGED <<vars, more, id, owner, work_mutex, stopping, spurious>>

\* work_cv.wait(): the predicate; idle() needs the scheduler's mutex.
WorkerPredicate ==
  /\ pc = "idle"
  /\ WorkerAt("pred", IF stopping \/ ~idle THEN "while" ELSE "park")
  /\ UNCHANGED <<vars, more, caller, id, owner, work_mutex, stopping, spurious>>

WorkerPark ==
  /\ WorkerAt("park", "asleep")
  /\ work_mutex' = Free
  /\ UNCHANGED <<vars, more, caller, id, owner, stopping, spurious>>

WakeWorker == worker' = IF worker = "asleep" THEN "relock" ELSE worker

-----------------------------------------------------------------------------
(* generate_stream_impl(), its parallel branch.                            *)

CallerAt(c, from, to) ==
  caller[c] = from /\ caller' = [caller EXCEPT ![c] = to]

\* Calls are made on a live engine; they may still be running when it stops.
CallerSubmit(c) ==
  /\ owner = "alive"
  /\ CallerAt(c, "start", "notify")
  /\ \E prompt \in Prompts, m \in MaxTokens : submit(prompt, m)
  /\ id' = [id EXCEPT ![c] = next_id]
  /\ UNCHANGED <<worker, more, owner, work_mutex, stopping, spurious>>

\* work_cv.notify_all(), without work_mutex.
CallerNotify(c) ==
  /\ CallerAt(c, "notify", "lock")
  /\ WakeWorker
  /\ UNCHANGED <<vars, more, id, owner, work_mutex, stopping, spurious>>

CallerLock(c) ==
  /\ CallerAt(c, "lock", "pred")
  /\ work_mutex = Free
  /\ work_mutex' = c
  /\ UNCHANGED <<vars, worker, more, id, owner, stopping, spurious>>

\* Mutant: a wait without a predicate.
CallerReturn_NoPredicate(c) ==
  /\ CallerAt(c, "pred", "returned")
  /\ work_mutex' = Free
  /\ UNCHANGED <<vars, worker, more, id, owner, stopping, spurious>>

\* done_cv.wait(): the predicate holds, and the call returns or rethrows.
CallerReturn(c) ==
  /\ CallerAt(c, "pred", "returned")
  /\ finished(id[c]) \/ stopping
  /\ work_mutex' = Free
  /\ UNCHANGED <<vars, worker, more, id, owner, stopping, spurious>>

CallerKeepsWaiting(c) ==
  /\ CallerAt(c, "pred", "park")
  /\ ~(finished(id[c]) \/ stopping)
  /\ UNCHANGED <<vars, worker, more, id, owner, work_mutex, stopping, spurious>>

\* Mutant: sleep with the mutex held.
CallerPark_KeepsLock(c) ==
  /\ CallerAt(c, "park", "asleep")
  /\ UNCHANGED <<vars, worker, more, id, owner, work_mutex, stopping, spurious>>

CallerPark(c) ==
  /\ CallerAt(c, "park", "asleep")
  /\ work_mutex' = Free
  /\ UNCHANGED <<vars, worker, more, id, owner, stopping, spurious>>

-----------------------------------------------------------------------------
(* ~Impl()                                                                 *)

OwnerAt(from, to) == owner = from /\ owner' = to

\* The engine is being destroyed.
OwnerBegin ==
  /\ OwnerAt("alive", "lock")
  /\ UNCHANGED <<vars, worker, more, caller, id, work_mutex, stopping, spurious>>

\* Mutant: the flag is raised without work_mutex.
OwnerLock_Skipped ==
  /\ OwnerAt("lock", "notify")
  /\ stopping' = TRUE
  /\ UNCHANGED <<vars, worker, more, caller, id, work_mutex, spurious>>

OwnerLock ==
  /\ OwnerAt("lock", "set")
  /\ work_mutex = Free
  /\ work_mutex' = Owner
  /\ UNCHANGED <<vars, worker, more, caller, id, stopping, spurious>>

OwnerSet ==
  /\ OwnerAt("set", "notify")
  /\ stopping' = TRUE
  /\ work_mutex' = Free
  /\ UNCHANGED <<vars, worker, more, caller, id, spurious>>

\* Mutant: nobody is told of the flag.
OwnerNotify_Missing ==
  /\ OwnerAt("notify", "join")
  /\ UNCHANGED <<vars, worker, more, caller, id, work_mutex, stopping, spurious>>

OwnerNotify ==
  /\ OwnerAt("notify", "join")
  /\ WakeWorker
  /\ UNCHANGED <<vars, more, caller, id, work_mutex, stopping, spurious>>

OwnerJoin ==
  /\ OwnerAt("join", "gone")
  /\ worker = "exit"
  /\ UNCHANGED <<vars, worker, more, caller, id, work_mutex, stopping, spurious>>

-----------------------------------------------------------------------------
\* A wait may return without a notification.
SpuriousWakeup ==
  /\ spurious < MaxSpurious
  /\ spurious' = spurious + 1
  /\ \/ WorkerAt("asleep", "relock") /\ UNCHANGED caller
     \/ (\E c \in Caller : CallerAt(c, "asleep", "lock")) /\ UNCHANGED worker
  /\ UNCHANGED <<vars, more, id, owner, work_mutex, stopping>>

WorkerThread == \/ WorkerLock \/ WorkerWhile \/ WorkerStep \/ WorkerNotify
                \/ WorkerPredicate \/ WorkerPark
CallerThread(c) == \/ CallerNotify(c) \/ CallerLock(c) \/ CallerReturn(c)
                   \/ CallerKeepsWaiting(c) \/ CallerPark(c)
OwnerThread == OwnerLock \/ OwnerSet \/ OwnerNotify \/ OwnerJoin

\* With the engine gone its members are destroyed, and what a caller still
\* inside generate_stream() does next is undefined: behaviours end there.
EngineNext ==
  /\ owner # "gone"
  /\ \/ WorkerThread
     \/ \E c \in Caller : CallerSubmit(c) \/ CallerThread(c)
     \/ OwnerBegin
     \/ OwnerThread
     \/ SpuriousWakeup

\* Threads that can run do run.  Nobody has to call generate_stream() or to
\* destroy the engine, and no wait has to return without a notification.
EngineFairness ==
  /\ WF_engine_vars(owner # "gone" /\ WorkerThread)
  /\ \A c \in Caller : WF_engine_vars(owner # "gone" /\ CallerThread(c))
  /\ WF_engine_vars(owner # "gone" /\ OwnerThread)

EngineSpec == EngineInit /\ [][EngineNext]_engine_vars
EngineFairSpec == EngineSpec /\ EngineFairness
-----------------------------------------------------------------------------
(* Properties.                                                             *)

\* A thread is inside a critical section of work_mutex exactly when it holds
\* the mutex, and a caller knows an id once it has submitted.
EngineTypeOK ==
  /\ worker \in {"enter", "while", "step", "notify", "relock", "pred", "park",
                 "asleep", "exit"}
  /\ more \in BOOLEAN
  /\ caller \in [Caller -> {"start", "notify", "lock", "pred", "park", "asleep",
                           "returned"}]
  /\ id \in [Caller -> Id \cup {0}]
  /\ \A c \in Caller : (id[c] = 0) <=> (caller[c] = "start")
  /\ owner \in {"alive", "lock", "set", "notify", "join", "gone"}
  /\ work_mutex \in {Free, Worker, Owner} \cup Caller
  /\ (work_mutex = Worker) <=> (worker \in {"while", "pred", "park"})
  /\ \A c \in Caller : (work_mutex = c) <=> (caller[c] \in {"pred", "park"})
  /\ (work_mutex = Owner) <=> (owner = "set")
  /\ stopping \in BOOLEAN
  /\ spurious \in 0 .. MaxSpurious

\* The stop flag is never missed: the worker is not between a predicate it
\* found false and the wait when ~Impl() raises the flag, so a worker asleep
\* with the flag up still has its notification coming.
StopNeverMissed ==
  stopping => /\ worker # "park"
              /\ worker = "asleep" => owner = "notify"

\* The token callback captures the frame of generate_stream() by reference.
\* Unless the engine is stopping, the worker calls it only while that frame
\* is alive, whatever wakes the caller: id[c] gains tokens only before c
\* returns.
CallbackFrameAlive ==
  \A c \in Caller :
    caller[c] = "returned" /\ ~stopping =>
      \A i \in Id : i = id[c] => req'[i] = req[i]
CallbackSafety == [][CallbackFrameAlive]_engine_vars

\* What makes the two inductive: the flag is up once ~Impl() has left the
\* critical section, and a call that returned on a running engine has its
\* request finished.
EngineInv ==
  /\ EngineTypeOK
  /\ StopNeverMissed
  /\ stopping <=> owner \in {"notify", "join", "gone"}
  /\ \A c \in Caller : caller[c] = "returned" /\ ~stopping => finished(id[c])

\* Destroying the engine terminates: the worker drains what was submitted,
\* sees the flag and is joined.
StopJoinsWorker == owner = "lock" ~> owner = "gone"

\* engine.cpp: generate_stream() "submits and blocks until its request
\* completes", and the worker's predicate "guards against a submit that
\* landed between the last step() and this wait (lost-wakeup)".  So on a
\* live engine every call returns.
EveryCallReturns ==
  \A c \in Caller :
    caller[c] = "notify" ~> caller[c] = "returned" \/ owner # "alive"
=============================================================================
