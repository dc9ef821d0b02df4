------------------------ MODULE ParallelEngineProofs ------------------------
(***************************************************************************)
(* Safety of parallel serving for any number of callers: the engine only    *)
(* ever takes steps of the scheduler, its stop flag is never missed, and    *)
(* no token is delivered to a call that has returned.                       *)
(***************************************************************************)
EXTENDS ParallelEngine, SchedulerProofs

USE SchedulerAssumption, EngineAssumption DEF Id, Free, Worker, Owner

\* What an engine step does to the scheduler is a step of the scheduler.
LEMMA EngineStepsScheduler == [EngineNext]_engine_vars => [Next]_vars
<1> SUFFICES ASSUME [EngineNext]_engine_vars PROVE [Next]_vars
  OBVIOUS
<1>1. CASE WorkerStep
  BY <1>1 DEF WorkerStep, Next
<1>2. CASE \E c \in Caller : CallerSubmit(c)
  BY <1>2 DEF CallerSubmit, Next
<1>3. CASE WorkerLock \/ WorkerWhile \/ WorkerNotify \/ WorkerPredicate \/ WorkerPark
  BY <1>3 DEF WorkerLock, WorkerWhile, WorkerNotify, WorkerPredicate, WorkerPark
<1>4. CASE \E c \in Caller : CallerThread(c)
  BY <1>4 DEF CallerThread, CallerNotify, CallerLock, CallerReturn,
     CallerKeepsWaiting, CallerPark
<1>5. CASE OwnerBegin \/ OwnerThread \/ SpuriousWakeup
  BY <1>5 DEF OwnerBegin, OwnerThread, OwnerLock, OwnerSet, OwnerNotify, OwnerJoin,
     SpuriousWakeup
<1>6. CASE UNCHANGED engine_vars
  BY <1>6 DEF engine_vars
<1> QED
  BY <1>1, <1>2, <1>3, <1>4, <1>5, <1>6 DEF EngineNext, WorkerThread

\* The engine drives the scheduler only through submit() and step(), one
\* step at a time, so whatever holds of the scheduler holds inside it.
THEOREM EngineRunsScheduler == EngineSpec => Spec
<1>1. EngineInit => Init
  BY DEF EngineInit
<1> QED
  BY <1>1, EngineStepsScheduler, PTL DEF EngineSpec, Spec

LEMMA NoCallerName ==
  \A c \in Caller : c # "free" /\ c # "worker" /\ c # "owner"
  OBVIOUS

LEMMA EngineInitInv == EngineInit => EngineInv
<1> SUFFICES ASSUME EngineInit PROVE EngineInv
  OBVIOUS
<1>1. EngineTypeOK
  <2> USE DEF EngineInit
  <2>1. caller \in [Caller -> {"start"}] /\ id \in [Caller -> {0}]
    OBVIOUS
  <2>2. more \in BOOLEAN /\ stopping \in BOOLEAN
    OBVIOUS
  <2>3. spurious \in 0 .. MaxSpurious
    BY SMT
  <2> QED
    BY <2>1, <2>2, <2>3, NoCallerName DEF EngineTypeOK
<1> QED
  BY <1>1 DEF EngineInit, EngineInv, StopNeverMissed

\* A finished request stays finished in an engine step.
LEMMA FinishedStays ==
  ASSUME SchedulerInv, EngineInv, [EngineNext]_engine_vars,
         NEW c \in Caller, caller[c] = "returned", finished(id[c])
  PROVE  finished(id[c])' \/ id'[c] # id[c]
<1>1. id[c] \in Id
  BY DEF EngineInv, EngineTypeOK
<1>2. done'[id[c]] = done[id[c]]
  BY <1>1, StepKeepsResults, EngineStepsScheduler
<1> QED
  BY <1>2 DEF finished

LEMMA EngineNextInv ==
  ASSUME SchedulerInv, EngineInv, [EngineNext]_engine_vars
  PROVE  EngineInv'
<1> USE DEF EngineInv, EngineTypeOK, StopNeverMissed
<1>0. \A c \in Caller : caller[c] = "returned" /\ id'[c] = id[c] /\ finished(id[c])
                          => finished(id[c])'
  BY FinishedStays
<1>1. CASE WorkerThread
  <2>1. CASE WorkerLock
    BY <1>0, <2>1, NoCallerName DEF WorkerLock, WorkerAt
  <2>2. CASE WorkerWhile
    BY <1>0, <2>2, NoCallerName DEF WorkerWhile, WorkerAt
  <2>3. CASE WorkerStep
    BY <1>0, <2>3, NoCallerName DEF WorkerStep
  <2>4. CASE WorkerNotify
    BY <1>0, <2>4, NoCallerName DEF WorkerNotify, WorkerAt
  <2>5. CASE WorkerPredicate
    BY <1>0, <2>5, NoCallerName DEF WorkerPredicate, WorkerAt
  <2>6. CASE WorkerPark
    BY <1>0, <2>6, NoCallerName DEF WorkerPark, WorkerAt
  <2> QED
    BY <1>1, <2>1, <2>2, <2>3, <2>4, <2>5, <2>6 DEF WorkerThread
<1>2. ASSUME NEW c \in Caller, CallerSubmit(c) PROVE EngineInv'
  BY <1>0, <1>2, NoCallerName DEF CallerSubmit, CallerAt, submit
<1>3. ASSUME NEW c \in Caller, CallerThread(c) PROVE EngineInv'
  <2>1. CASE CallerNotify(c)
    BY <1>0, <2>1, NoCallerName DEF CallerNotify, CallerAt, WakeWorker
  <2>2. CASE CallerLock(c)
    BY <1>0, <2>2, NoCallerName DEF CallerLock, CallerAt
  <2>3. CASE CallerReturn(c)
    BY <1>0, <2>3, NoCallerName DEF CallerReturn, CallerAt, finished, vars
  <2>4. CASE CallerKeepsWaiting(c)
    BY <1>0, <2>4, NoCallerName DEF CallerKeepsWaiting, CallerAt
  <2>5. CASE CallerPark(c)
    BY <1>0, <2>5, NoCallerName DEF CallerPark, CallerAt
  <2> QED
    BY <1>3, <2>1, <2>2, <2>3, <2>4, <2>5 DEF CallerThread
<1>4. CASE OwnerBegin \/ OwnerThread
  <2>1. CASE OwnerBegin \/ OwnerJoin
    BY <1>0, <2>1 DEF OwnerBegin, OwnerJoin, OwnerAt
  <2>2. CASE OwnerLock
    BY <1>0, <2>2, NoCallerName DEF OwnerLock, OwnerAt
  <2>3. CASE OwnerSet
    BY <1>0, <2>3, NoCallerName DEF OwnerSet, OwnerAt
  <2>4. CASE OwnerNotify
    BY <1>0, <2>4 DEF OwnerNotify, OwnerAt, WakeWorker
  <2> QED
    BY <1>4, <2>1, <2>2, <2>3, <2>4 DEF OwnerThread
<1>5. CASE SpuriousWakeup
  BY <1>0, <1>5 DEF SpuriousWakeup, WorkerAt, CallerAt
<1>6. CASE UNCHANGED engine_vars
  BY <1>0, <1>6 DEF engine_vars
<1> QED
  BY <1>1, <1>2, <1>3, <1>4, <1>5, <1>6 DEF EngineNext

\* The mutex discipline of worker_loop(), generate_stream() and ~Impl(), and
\* the stop flag that is never missed, for any number of callers.
THEOREM EngineSafety == EngineSpec => [](EngineTypeOK /\ StopNeverMissed)
<1>1. EngineSpec => []SchedulerInv
  BY EngineRunsScheduler, SchedulerInvariant, PTL
<1>2. SchedulerInv /\ EngineInv /\ [EngineNext]_engine_vars => EngineInv'
  BY EngineNextInv
<1>3. EngineInv => EngineTypeOK /\ StopNeverMissed
  BY DEF EngineInv
<1> QED
  BY <1>1, <1>2, <1>3, EngineInitInv, PTL DEF EngineSpec

\* The types and the mutex discipline of the engine's threads alone.
THEOREM EngineTypes == EngineSpec => []EngineTypeOK
  BY EngineSafety, PTL

\* While the engine is not stopping, no callback of a call that has returned
\* is invoked: its request is finished and takes no more tokens.
THEOREM CallbacksAreSafe == EngineSpec => CallbackSafety
<1>1. EngineSpec => []SchedulerInv
  BY EngineRunsScheduler, SchedulerInvariant, PTL
<1>2. SchedulerInv /\ EngineInv /\ [EngineNext]_engine_vars => EngineInv'
  BY EngineNextInv
<1>3. ASSUME SchedulerInv, EngineInv, [EngineNext]_engine_vars,
             NEW c \in Caller, caller[c] = "returned", ~stopping,
             NEW i \in Id, i = id[c]
      PROVE  req'[i] = req[i]
  BY <1>3, StepKeepsResults, EngineStepsScheduler DEF EngineInv
<1>4. SchedulerInv /\ EngineInv /\ [EngineNext]_engine_vars
        => [CallbackFrameAlive]_engine_vars
  BY <1>3 DEF CallbackFrameAlive
<1> QED
  BY <1>1, <1>2, <1>4, EngineInitInv, PTL DEF EngineSpec, CallbackSafety
=============================================================================
