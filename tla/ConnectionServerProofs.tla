---------------------- MODULE ConnectionServerProofs ----------------------
(***************************************************************************)
(* The servers' accounting, for any number of connection workers and any    *)
(* capacity: the generation gate, the engine's mutex and the connection     *)
(* counter.                                                                 *)
(***************************************************************************)
EXTENDS ConnectionServer, FiniteSetTheorems, TLAPS

Refusing(f) == {w \in Worker : f[w] = "refusing"}
Gone == {"none", "pending", "reset", "done"}
Live(f) == {w \in Worker : f[w] \notin Gone}
InHandler == {"begin", "lock", "engine", "reply", "release"}

\* A slot is held only between the gate and its release.
GateInv ==
  /\ DOMAIN at = Worker
  /\ slot \subseteq Worker
  /\ \A w \in slot : at[w] \in InHandler
  /\ \A w \in Worker : at[w] = "release" => w \in slot
  /\ active_generations = Cardinality(slot) + Cardinality(Refusing(at))
  /\ Cardinality(slot) <= max_concurrent_requests

\* A worker inside an engine that is not parallel holds the mutex.
MutexInv ==
  /\ DOMAIN at = Worker
  /\ parallel \in BOOLEAN
  /\ ~parallel => \A w \in Worker : at[w] = "engine" => engine_mutex = w

ConnInv ==
  /\ DOMAIN at = Worker
  /\ active_connections = Cardinality(Live(at))

-----------------------------------------------------------------------------
(* What moving one worker does to the sets that are counted.               *)

\* Counting: a set of workers is finite, grows by one, or shrinks by one.
LEMMA Counting ==
  ASSUME NEW S \in SUBSET Worker
  PROVE  /\ Cardinality(S) \in Nat
         /\ \A w \in Worker \ S : Cardinality(S \cup {w}) = Cardinality(S) + 1
         /\ \A w \in S : Cardinality(S \ {w}) = Cardinality(S) - 1
<1>1. IsFiniteSet(S)
  BY HandlerAssumption, FS_Subset
<1> QED
  BY <1>1, FS_CardinalityType, FS_AddElement, FS_RemoveElement

\* A worker that enters, leaves or stays out of the place where requests are
\* refused.
LEMMA MoveRefusing ==
  ASSUME NEW w \in Worker, NEW from, NEW to, DOMAIN at = Worker,
         Goto(w, from, to)
  PROVE  /\ DOMAIN at' = Worker
         /\ from # "refusing" /\ to # "refusing" => Refusing(at') = Refusing(at)
         /\ from # "refusing" /\ to = "refusing" =>
              w \notin Refusing(at) /\ Refusing(at') = Refusing(at) \cup {w}
         /\ from = "refusing" /\ to # "refusing" =>
              w \in Refusing(at) /\ Refusing(at') = Refusing(at) \ {w}
  BY DEF Goto, Refusing

\* A worker that is counted from now on, no longer, or as before.
LEMMA MoveLive ==
  ASSUME NEW w \in Worker, NEW from, NEW to, DOMAIN at = Worker,
         Goto(w, from, to)
  PROVE  /\ DOMAIN at' = Worker
         /\ (from \in Gone <=> to \in Gone) => Live(at') = Live(at)
         /\ from \in Gone /\ to \notin Gone =>
              w \notin Live(at) /\ Live(at') = Live(at) \cup {w}
         /\ from \notin Gone /\ to \in Gone =>
              w \in Live(at) /\ Live(at') = Live(at) \ {w}
  BY DEF Goto, Live

-----------------------------------------------------------------------------
(* The gate                                                                *)

\* A step that leaves the gate alone and does not take a worker out of the
\* handler preserves the gate's invariant.
LEMMA GateQuiet ==
  ASSUME GateInv, NEW w \in Worker, NEW from, NEW to, Goto(w, from, to),
         from # "refusing", to \notin {"refusing", "release"},
         from \in InHandler => to \in InHandler,
         UNCHANGED <<slot, active_generations>>
  PROVE  GateInv'
<1>1. DOMAIN at' = Worker /\ Refusing(at') = Refusing(at)
  BY MoveRefusing DEF GateInv
<1>2. \A v \in slot : at'[v] \in InHandler
  BY DEF GateInv, Goto
<1>3. \A v \in Worker : at'[v] = "release" => v \in slot
  BY DEF GateInv, Goto
<1> QED
  BY <1>1, <1>2, <1>3 DEF GateInv

\* Every step of the handler preserves the gate's invariant.
LEMMA GateHandle ==
  ASSUME GateInv, NEW w \in Worker, Handle(w)
  PROVE  GateInv'
<1> USE DEF GateInv
<1>1. CASE Route(w)
  <2>1. PICK k \in Kind : Goto(w, "route", FirstStep(k))
    BY <1>1 DEF Route
  <2>2. FirstStep(k) \in {"reply", "format", "gate", "lock"}
    BY DEF FirstStep, Kind, Generation
  <2>3. /\ UNCHANGED <<slot, active_generations>>
        /\ "route" \notin InHandler
        /\ FirstStep(k) \notin {"refusing", "release"}
    BY <1>1, <2>2 DEF Route, InHandler
  <2> QED
    BY <2>1, <2>3, GateQuiet DEF GateInv
<1>2. CASE FormatChat(w)
  BY <1>2, GateQuiet DEF FormatChat, InHandler
<1>3. CASE GateAdd(w)
  <2>1. CASE AtCapacity
    <3>1. Goto(w, "gate", "refusing") /\ UNCHANGED slot
      BY <1>3, <2>1 DEF GateAdd
    <3>2. /\ DOMAIN at' = Worker
          /\ w \notin Refusing(at) /\ Refusing(at') = Refusing(at) \cup {w}
      BY <3>1, MoveRefusing
    <3>3. Cardinality(Refusing(at')) = Cardinality(Refusing(at)) + 1
      BY <3>2, Counting DEF Refusing
    <3>4. Cardinality(slot) \in Nat /\ Cardinality(Refusing(at)) \in Nat
      BY Counting DEF Refusing
    <3>5. active_generations' = Cardinality(slot') + Cardinality(Refusing(at'))
      BY <1>3, <3>1, <3>3, <3>4 DEF GateAdd
    <3>6. /\ \A v \in slot' : at'[v] \in InHandler
          /\ \A v \in Worker : at'[v] = "release" => v \in slot'
      BY <3>1 DEF Goto, InHandler
    <3> QED
      BY <3>1, <3>2, <3>5, <3>6
  <2>2. CASE ~AtCapacity
    <3> DEFINE to == IF kind[w] = "stream" THEN "begin" ELSE "lock"
    <3>1. Goto(w, "gate", to) /\ slot' = slot \cup {w}
      BY <1>3, <2>2 DEF GateAdd
    <3>2. to \in {"begin", "lock"}
      OBVIOUS
    <3>3. DOMAIN at' = Worker /\ Refusing(at') = Refusing(at)
      BY <3>1, <3>2, MoveRefusing
    <3>4. w \notin slot
      BY <3>1 DEF Goto, InHandler
    <3>5. Cardinality(slot') = Cardinality(slot) + 1
      BY <3>1, <3>4, Counting
    <3>6. Cardinality(slot) \in Nat /\ Cardinality(Refusing(at)) \in Nat
      BY Counting DEF Refusing
    <3>7. active_generations < max_concurrent_requests
      BY <2>2, <3>6, HandlerAssumption DEF AtCapacity
    <3>8. /\ active_generations' = Cardinality(slot') + Cardinality(Refusing(at'))
          /\ Cardinality(slot') <= max_concurrent_requests
      BY <1>3, <3>3, <3>5, <3>6, <3>7, HandlerAssumption DEF GateAdd
    <3>9. /\ \A v \in slot' : at'[v] \in InHandler
          /\ \A v \in Worker : at'[v] = "release" => v \in slot'
      BY <3>1, <3>2 DEF Goto, InHandler
    <3> QED
      BY <3>1, <3>3, <3>8, <3>9
  <2> QED
    BY <2>1, <2>2
<1>4. CASE GateRefuse(w)
  <2>1. Goto(w, "refusing", "reply") /\ UNCHANGED slot
    BY <1>4 DEF GateRefuse
  <2>2. /\ DOMAIN at' = Worker
        /\ w \in Refusing(at) /\ Refusing(at') = Refusing(at) \ {w}
    BY <2>1, MoveRefusing
  <2>3. Cardinality(Refusing(at')) = Cardinality(Refusing(at)) - 1
    BY <2>2, Counting DEF Refusing
  <2>4. Cardinality(slot) \in Nat /\ Cardinality(Refusing(at)) \in Nat
    BY Counting DEF Refusing
  <2>5. active_generations' = Cardinality(slot') + Cardinality(Refusing(at'))
    BY <1>4, <2>1, <2>3, <2>4 DEF GateRefuse
  <2>6. /\ \A v \in slot' : at'[v] \in InHandler
        /\ \A v \in Worker : at'[v] = "release" => v \in slot'
    BY <2>1 DEF Goto, InHandler
  <2> QED
    BY <2>1, <2>2, <2>5, <2>6
<1>5. CASE BeginStream(w)
  BY <1>5, GateQuiet DEF BeginStream, InHandler
<1>6. CASE EnterEngine(w)
  BY <1>6, GateQuiet DEF EnterEngine, InHandler
<1>7. CASE LeaveEngine(w)
  BY <1>7, GateQuiet DEF LeaveEngine, InHandler
<1>8. CASE Reply(w)
  <2>1. CASE w \in slot
    <3>1. Goto(w, "reply", "release") /\ UNCHANGED <<slot, active_generations>>
      BY <1>8, <2>1 DEF Reply
    <3>2. DOMAIN at' = Worker /\ Refusing(at') = Refusing(at)
      BY <3>1, MoveRefusing
    <3>3. /\ \A v \in slot' : at'[v] \in InHandler
          /\ \A v \in Worker : at'[v] = "release" => v \in slot'
      BY <2>1, <3>1 DEF Goto, InHandler
    <3> QED
      BY <3>1, <3>2, <3>3
  <2>2. CASE w \notin slot
    <3>1. Goto(w, "reply", "sent") /\ UNCHANGED <<slot, active_generations>>
      BY <1>8, <2>2 DEF Reply
    <3>2. DOMAIN at' = Worker /\ Refusing(at') = Refusing(at)
      BY <3>1, MoveRefusing
    <3>3. /\ \A v \in slot' : at'[v] \in InHandler
          /\ \A v \in Worker : at'[v] = "release" => v \in slot'
      BY <2>2, <3>1 DEF Goto, InHandler
    <3> QED
      BY <3>1, <3>2, <3>3
  <2> QED
    BY <2>1, <2>2
<1>9. CASE GateRelease(w)
  <2>1. Goto(w, "release", "sent") /\ slot' = slot \ {w}
    BY <1>9 DEF GateRelease
  <2>2. w \in slot
    BY <2>1 DEF Goto
  <2>3. DOMAIN at' = Worker /\ Refusing(at') = Refusing(at)
    BY <2>1, MoveRefusing
  <2>4. Cardinality(slot') = Cardinality(slot) - 1
    BY <2>1, <2>2, Counting
  <2>5. Cardinality(slot) \in Nat /\ Cardinality(Refusing(at)) \in Nat
    BY Counting DEF Refusing
  <2>6. /\ active_generations' = Cardinality(slot') + Cardinality(Refusing(at'))
        /\ Cardinality(slot') <= max_concurrent_requests
    BY <1>9, <2>3, <2>4, <2>5, HandlerAssumption DEF GateRelease
  <2>7. /\ \A v \in slot' : at'[v] \in InHandler
        /\ \A v \in Worker : at'[v] = "release" => v \in slot'
    BY <2>1 DEF Goto, InHandler
  <2> QED
    BY <2>1, <2>3, <2>6, <2>7
<1>10. CASE DumpThrows(w)
  BY <1>10, GateQuiet DEF DumpThrows, InHandler
<1> QED
  BY <1>1, <1>2, <1>3, <1>4, <1>5, <1>6, <1>7, <1>8, <1>9, <1>10 DEF Handle

\* Every step preserves the gate's invariant: outside the handler nobody
\* touches the gate, and stop() resets only connections nobody serves.
LEMMA GateStep == GateInv /\ [Next]_vars => GateInv'
<1> SUFFICES ASSUME GateInv, [Next]_vars PROVE GateInv'
  OBVIOUS
<1>1. CASE UNCHANGED <<at, slot, active_generations>>
  BY <1>1 DEF GateInv, Refusing
<1>2. CASE StopClose
  <2>1. /\ \A v \in Worker : at[v] # "pending" => at'[v] = at[v]
        /\ \A v \in Worker : at[v] = "pending" => at'[v] = "reset"
        /\ DOMAIN at' = Worker /\ UNCHANGED <<slot, active_generations>>
    BY <1>2 DEF StopClose, handler_rest
  <2>2. Refusing(at') = Refusing(at)
    BY <2>1 DEF Refusing
  <2> QED
    BY <2>1, <2>2 DEF GateInv, InHandler
<1>3. CASE \E w \in Worker : Handle(w)
  BY <1>3, GateHandle
<1>4. ASSUME NEW w \in Worker,
             \/ Accept(w) \/ Connect(w) \/ Begin(w) \/ ReadRequest(w)
             \/ ServeCommands(w) \/ ClientEnds(w) \/ ReadShutDown(w)
             \/ Unregister(w) \/ WorkerEnds(w)
      PROVE  GateInv'
  <2>1. UNCHANGED <<slot, active_generations>>
    BY <1>4 DEF Accept, Connect, Begin, ReadRequest, ServeCommands, ClientEnds,
                ReadShutDown, Unregister, WorkerEnds, ForgetRequest, handler_rest
  <2>2. \E from, to \in {"none", "pending", "accepted", "read", "route", "sent",
                        "serve", "dispatch", "unregister", "done"} :
          Goto(w, from, to)
    BY <1>4 DEF Accept, Connect, Begin, ReadRequest, ServeCommands, ClientEnds,
                ReadShutDown, Unregister, WorkerEnds
  <2> QED
    BY <2>1, <2>2, GateQuiet DEF InHandler
<1> QED
  BY <1>1, <1>2, <1>3, <1>4
  DEF Next, vars, handler_vars, WorkerStep, AcceptStep, StopStep, HandleRequest,
      HandlerDies, Escapes, Start, AcceptLoop, AcceptNothing, StopBegin,
      StopJoin, StopDrain, StopShutdown, StopWait

\* Initially nobody is in the handler.
LEMMA GateInitially == Init => GateInv
<1>1. Cardinality({}) = 0
  BY FS_EmptySet
<1>2. Init => Refusing(at) = {}
  BY DEF Init, HandlerInit, Refusing
<1> QED
  BY <1>1, <1>2, HandlerAssumption DEF Init, HandlerInit, GateInv

\* The gate (BusyGuard in api_handler.cpp) is exact and never admits more
\* generations than max_concurrent_requests, for any number of workers.
THEOREM GateIsExact == Spec => []GateAccounting
<1>1. Init => GateInv
  BY GateInitially
<1>2. GateInv => GateAccounting
  BY DEF GateInv, GateAccounting, Refusing
<1> QED
  BY <1>1, <1>2, GateStep, PTL DEF Spec

-----------------------------------------------------------------------------
(* The engine's mutex                                                      *)

\* A step of the handler that is not EnterEngine puts nobody in the engine,
\* and only the holder gives the mutex back.
LEMMA MutexStep == MutexInv /\ [Next]_vars => MutexInv'
<1> SUFFICES ASSUME MutexInv, [Next]_vars PROVE MutexInv'
  OBVIOUS
<1> USE DEF MutexInv
<1>1. CASE UNCHANGED <<at, parallel, engine_mutex>>
  BY <1>1
<1>2. CASE StopClose
  BY <1>2 DEF StopClose, handler_rest
<1>3. ASSUME NEW w \in Worker, NEW from, NEW to, Goto(w, from, to),
             to # "engine", UNCHANGED <<parallel, engine_mutex>>
      PROVE  MutexInv'
  BY <1>3 DEF Goto
<1>4. ASSUME NEW w \in Worker, Handle(w)
      PROVE  MutexInv'
  <2>1. CASE Route(w)
    <3>1. PICK k \in Kind : Goto(w, "route", FirstStep(k))
      BY <2>1 DEF Route
    <3>2. FirstStep(k) # "engine"
      BY DEF FirstStep, Kind, Generation
    <3> QED
      BY <1>3, <2>1, <3>1, <3>2 DEF Route
  <2>2. CASE FormatChat(w) \/ GateRefuse(w) \/ BeginStream(w) \/ GateRelease(w)
             \/ DumpThrows(w)
    BY <1>3, <2>2 DEF FormatChat, GateRefuse, BeginStream, GateRelease, DumpThrows
  <2>3. CASE GateAdd(w)
    BY <2>3 DEF GateAdd, Goto
  <2>4. CASE EnterEngine(w)
    BY <2>4, HandlerAssumption DEF EnterEngine, Goto, NeedsMutex
  <2>5. CASE LeaveEngine(w)
    BY <2>5 DEF LeaveEngine, Goto
  <2>6. CASE Reply(w)
    BY <2>6 DEF Reply, Goto, Unlocked
  <2> QED
    BY <1>4, <2>1, <2>2, <2>3, <2>4, <2>5, <2>6 DEF Handle
<1>5. ASSUME NEW w \in Worker,
             \/ Accept(w) \/ Connect(w) \/ Begin(w) \/ ReadRequest(w)
             \/ ServeCommands(w) \/ ClientEnds(w) \/ ReadShutDown(w)
             \/ Unregister(w) \/ WorkerEnds(w)
      PROVE  MutexInv'
  <2>1. UNCHANGED <<parallel, engine_mutex>>
    BY <1>5 DEF Accept, Connect, Begin, ReadRequest, ServeCommands, ClientEnds,
                ReadShutDown, Unregister, WorkerEnds, ForgetRequest, handler_rest
  <2>2. \E from, to \in {"none", "pending", "accepted", "read", "route", "sent",
                        "serve", "dispatch", "unregister", "done"} :
          Goto(w, from, to)
    BY <1>5 DEF Accept, Connect, Begin, ReadRequest, ServeCommands, ClientEnds,
                ReadShutDown, Unregister, WorkerEnds
  <2> QED
    BY <1>3, <2>1, <2>2
<1> QED
  BY <1>1, <1>2, <1>4, <1>5
  DEF Next, vars, handler_vars, WorkerStep, AcceptStep, StopStep, HandleRequest,
      HandlerDies, Escapes, Start, AcceptLoop, AcceptNothing, StopBegin,
      StopJoin, StopDrain, StopShutdown, StopWait

\* engine_mutex (api_handler.cpp) keeps generations, warm-ups and session
\* operations of a non-parallel engine apart, for any number of workers.
THEOREM EngineIsExclusive == Spec => []EngineExclusive
<1>1. Init => MutexInv
  BY DEF Init, HandlerInit, MutexInv
<1>2. MutexInv => EngineExclusive
  BY DEF MutexInv, EngineExclusive
<1> QED
  BY <1>1, <1>2, MutexStep, PTL DEF Spec

-----------------------------------------------------------------------------
(* The connection counter                                                  *)

\* The handler moves a worker between places where it is counted.
LEMMA HandleCounted ==
  ASSUME NEW w \in Worker, Handle(w)
  PROVE  \E from, to : Goto(w, from, to) /\ from \notin Gone /\ to \notin Gone
<1>1. CASE Route(w)
  <2>1. PICK k \in Kind : Goto(w, "route", FirstStep(k))
    BY <1>1 DEF Route
  <2>2. FirstStep(k) \in {"reply", "format", "gate", "lock"}
    BY DEF FirstStep, Kind, Generation
  <2> QED
    BY <2>1, <2>2 DEF Gone
<1>2. CASE Reply(w)
  <2>1. Goto(w, "reply", IF w \in slot THEN "release" ELSE "sent")
    BY <1>2 DEF Reply
  <2> QED
    BY <2>1 DEF Gone
<1>3. CASE GateAdd(w)
  <2>1. \E to \in {"refusing", "begin", "lock"} : Goto(w, "gate", to)
    BY <1>3 DEF GateAdd
  <2> QED
    BY <2>1 DEF Gone
<1>4. CASE FormatChat(w) \/ GateRefuse(w) \/ BeginStream(w) \/ EnterEngine(w)
           \/ LeaveEngine(w) \/ DumpThrows(w) \/ GateRelease(w)
  BY <1>4 DEF FormatChat, GateRefuse, BeginStream, EnterEngine, LeaveEngine,
              DumpThrows, GateRelease, Gone
<1> QED
  BY <1>1, <1>2, <1>3, <1>4 DEF Handle

\* Accept counts a connection before its worker runs, WorkerEnds is the
\* worker's last step, and nothing else crosses the line.
LEMMA ConnStep == ConnInv /\ [Next]_vars => ConnInv'
<1> SUFFICES ASSUME ConnInv, [Next]_vars PROVE ConnInv'
  OBVIOUS
<1> USE DEF ConnInv
<1>1. CASE UNCHANGED <<at, active_connections>>
  BY <1>1 DEF Live
<1>2. CASE StopClose
  <2>1. DOMAIN at' = Worker /\ UNCHANGED active_connections
    BY <1>2 DEF StopClose
  <2>2. Live(at') = Live(at)
    BY <1>2 DEF StopClose, Live, Gone
  <2> QED
    BY <2>1, <2>2
<1>3. ASSUME NEW w \in Worker, NEW from, NEW to, Goto(w, from, to),
             from \in Gone <=> to \in Gone, UNCHANGED active_connections
      PROVE  ConnInv'
  <2>1. DOMAIN at' = Worker /\ Live(at') = Live(at)
    BY <1>3, MoveLive
  <2> QED
    BY <1>3, <2>1
<1>4. ASSUME NEW w \in Worker, HandleRequest(w)
      PROVE  ConnInv'
  BY <1>3, <1>4, HandleCounted DEF HandleRequest, server_vars
<1>5. ASSUME NEW w \in Worker, Accept(w)
      PROVE  ConnInv'
  <2>1. Goto(w, "pending", "accepted")
    BY <1>5 DEF Accept
  <2>2. /\ DOMAIN at' = Worker
        /\ w \notin Live(at) /\ Live(at') = Live(at) \cup {w}
    BY <2>1, MoveLive DEF Gone
  <2>3. Cardinality(Live(at')) = Cardinality(Live(at)) + 1
    BY <2>2, Counting DEF Live
  <2> QED
    BY <1>5, <2>2, <2>3 DEF Accept
<1>6. ASSUME NEW w \in Worker, WorkerEnds(w)
      PROVE  ConnInv'
  <2>1. Goto(w, "sent", "done")
    BY <1>6 DEF WorkerEnds
  <2>2. /\ DOMAIN at' = Worker
        /\ w \in Live(at) /\ Live(at') = Live(at) \ {w}
    BY <2>1, MoveLive DEF Gone
  <2>3. Cardinality(Live(at')) = Cardinality(Live(at)) - 1
    BY <2>2, Counting DEF Live
  <2> QED
    BY <1>6, <2>2, <2>3 DEF WorkerEnds
<1>7. ASSUME NEW w \in Worker, Connect(w)
      PROVE  ConnInv'
  BY <1>3, <1>7 DEF Connect, server_vars, Gone
<1>8. ASSUME NEW w \in Worker,
             \/ Begin(w) \/ ReadRequest(w) \/ ServeCommands(w) \/ ClientEnds(w)
             \/ ReadShutDown(w) \/ Unregister(w)
      PROVE  ConnInv'
  <2>1. UNCHANGED active_connections
    BY <1>8 DEF Begin, ReadRequest, ServeCommands, ClientEnds, ReadShutDown,
                Unregister, server_vars
  <2>2. \E from, to \in {"accepted", "read", "route", "sent", "serve", "dispatch",
                        "unregister"} : Goto(w, from, to)
    BY <1>8 DEF Begin, ReadRequest, ServeCommands, ClientEnds, ReadShutDown,
                Unregister
  <2> QED
    BY <1>3, <2>1, <2>2 DEF Gone
<1> QED
  BY <1>1, <1>2, <1>4, <1>5, <1>6, <1>7, <1>8
  DEF Next, vars, handler_vars, server_vars, WorkerStep, AcceptStep, StopStep,
      HandlerDies, Escapes, Start, AcceptLoop, AcceptNothing, StopBegin,
      StopJoin, StopDrain, StopShutdown, StopWait

\* At the start nobody is counted.
LEMMA ConnInitially == Init => ConnInv
<1>1. Cardinality({}) = 0
  BY FS_EmptySet
<1>2. Init => Live(at) = {}
  BY DEF Init, HandlerInit, Live, Gone
<1> QED
  BY <1>1, <1>2 DEF Init, HandlerInit, ConnInv

\* active_connections counts exactly the workers that still use the server
\* (http_server.cpp, arca/server.cpp), so the drain in stop() waits for all
\* of them and for nothing else.
THEOREM ConnectionsAreCounted == Spec => []ConnectionAccounting
<1>1. Init => ConnInv
  BY ConnInitially
<1>2. ConnInv => ConnectionAccounting
  BY DEF ConnInv, ConnectionAccounting, Live, Gone
<1> QED
  BY <1>1, <1>2, ConnStep, PTL DEF Spec

-----------------------------------------------------------------------------
(* stop()                                                                  *)

Joined == stop \in IF server = "http" THEN {"drain", "returned"}
                  ELSE {"close", "shutdown", "wait", "returned"}
Closed == stop \in IF server = "http" THEN {"join", "drain", "returned"}
                  ELSE {"shutdown", "wait", "returned"}

\* Once stop() is past the join and the close, nobody can be accepted and
\* nobody waits to be.
StopInv ==
  /\ ConnInv
  /\ server \in {"http", "arca"}
  /\ stop = "drain" => server = "http"
  /\ stop \in {"shutdown", "wait"} => server = "arca"
  /\ running \/ stop # "none" => acceptor # "none"
  /\ Joined => accept_thread = "exit"
  /\ Closed => acceptor = "closed"
  /\ acceptor = "closed" => \A w \in Worker : at[w] # "pending"
  /\ NoWorkerAfterStop

\* With the counter at zero and the acceptor closed, every worker has ended.
LEMMA NobodyLeft ==
  ASSUME ConnInv, active_connections = 0, NEW w \in Worker, at[w] # "pending"
  PROVE  at[w] \in {"none", "reset", "done"}
<1>1. IsFiniteSet(Live(at))
  BY HandlerAssumption, FS_Subset DEF Live
<1>2. Live(at) = {}
  BY <1>1, FS_EmptySet DEF ConnInv
<1> QED
  BY <1>2 DEF Live, Gone

\* A worker's move does not concern stop() unless it starts from nothing or
\* from the backlog, and both are over when stop() returns.
LEMMA StopQuiet ==
  ASSUME StopInv, ConnInv', NEW w \in Worker, NEW from, NEW to,
         Goto(w, from, to), from \notin {"none", "reset", "done"},
         to # "pending",
         UNCHANGED <<server, running, acceptor, accept_thread, stop, polls>>
  PROVE  StopInv'
<1>1. acceptor' = "closed" => \A v \in Worker : at'[v] # "pending"
  BY DEF StopInv, ConnInv, Goto
<1>2. NoWorkerAfterStop'
  BY DEF StopInv, ConnInv, Goto, NoWorkerAfterStop
<1> QED
  BY <1>1, <1>2 DEF StopInv, Joined, Closed

\* Every step preserves what stop() relies on.
LEMMA StopStepOK == StopInv /\ [Next]_vars => StopInv'
<1> SUFFICES ASSUME StopInv, [Next]_vars PROVE StopInv'
  OBVIOUS
<1>0. ConnInv'
  BY ConnStep DEF StopInv
<1>1. CASE UNCHANGED <<at, server, running, acceptor, accept_thread, stop, polls>>
  BY <1>0, <1>1 DEF StopInv, Joined, Closed, NoWorkerAfterStop
<1>2. CASE Start \/ AcceptLoop \/ AcceptNothing
  <2>1. /\ UNCHANGED <<at, server, stop, polls>>
        /\ \/ acceptor' = acceptor /\ running' = running
           \/ acceptor = "none" /\ acceptor' = "open"
        /\ accept_thread = "exit" =>
             acceptor = "none" \/ accept_thread' = "exit"
    BY <1>2 DEF Start, AcceptLoop, AcceptNothing, handler_vars
  <2> QED
    BY <1>0, <2>1 DEF StopInv, Joined, Closed, NoWorkerAfterStop
<1>3. CASE StopBegin
  BY <1>0, <1>3
  DEF StopBegin, StopAt, StopInv, Joined, Closed, NoWorkerAfterStop,
      handler_vars
<1>4. CASE StopClose
  <2>1. acceptor' = "closed" /\ \A w \in Worker : at'[w] # "pending"
    BY <1>4 DEF StopClose
  <2> QED
    BY <1>0, <1>4, <2>1
    DEF StopClose, StopAt, StopInv, Joined, Closed, NoWorkerAfterStop
<1>5. CASE StopJoin \/ StopShutdown
  BY <1>0, <1>5
  DEF StopJoin, StopShutdown, StopAt, StopInv, Joined, Closed,
      NoWorkerAfterStop, handler_vars
<1>6. CASE StopDrain
  <2>1. CASE active_connections > 0 /\ polls < MaxPolls
    BY <1>0, <1>6, <2>1
    DEF StopDrain, StopAt, StopInv, Joined, Closed, NoWorkerAfterStop,
        handler_vars
  <2>2. CASE ~(active_connections > 0 /\ polls < MaxPolls)
    <3>1. /\ stop = "drain" /\ stop' = "returned"
          /\ UNCHANGED <<at, server, running, acceptor, accept_thread, polls>>
      BY <1>6, <2>2 DEF StopDrain, StopAt, handler_vars
    <3>2. active_connections \in Nat
      BY Counting DEF StopInv, ConnInv, Live
    <3>3. server = "http" /\ polls < MaxPolls =>
            \A w \in Worker : at[w] \in {"none", "reset", "done"}
      BY <2>2, <3>1, <3>2, NobodyLeft DEF StopInv, Closed
    <3>4. server = "http"
      BY <1>6, <2>2 DEF StopDrain, StopAt, StopInv
    <3> QED
      BY <1>0, <3>1, <3>3, <3>4
      DEF StopInv, Joined, Closed, NoWorkerAfterStop
  <2> QED
    BY <2>1, <2>2
<1>7. CASE StopWait
  <2>1. /\ stop = "wait" /\ stop' = "returned" /\ active_connections = 0
        /\ UNCHANGED <<at, server, running, acceptor, accept_thread, polls>>
    BY <1>7 DEF StopWait, StopAt, handler_vars
  <2>2. server = "arca"
    BY <2>1 DEF StopInv
  <2>3. \A w \in Worker : at[w] \in {"none", "reset", "done"}
    BY <2>1, <2>2, NobodyLeft DEF StopInv, Closed
  <2> QED
    BY <1>0, <2>1, <2>2, <2>3 DEF StopInv, Joined, Closed, NoWorkerAfterStop
<1>8. ASSUME NEW w \in Worker, Accept(w)
      PROVE  StopInv'
  <2>1. Goto(w, "pending", "accepted") /\ accept_thread = "accept"
    BY <1>8 DEF Accept
  <2>2. acceptor = "open" /\ accept_thread' = "loop"
        /\ UNCHANGED <<server, running, acceptor, stop, polls>>
    BY <1>8 DEF Accept
  <2>3. ~Joined /\ ~Closed /\ stop # "returned"
    BY <2>1, <2>2 DEF StopInv, Joined, Closed
  <2> QED
    BY <1>0, <2>2, <2>3 DEF StopInv, Joined, Closed, NoWorkerAfterStop
<1>9. ASSUME NEW w \in Worker, Connect(w)
      PROVE  StopInv'
  <2>1. acceptor = "open" /\ UNCHANGED server_vars
    BY <1>9 DEF Connect
  <2>2. ~Closed /\ stop # "returned"
    BY <2>1 DEF StopInv, Closed
  <2> QED
    BY <1>0, <2>1, <2>2
    DEF StopInv, Joined, Closed, NoWorkerAfterStop, server_vars
<1>10. ASSUME NEW w \in Worker, HandleRequest(w)
       PROVE  StopInv'
  <2>1. PICK from, to : Goto(w, from, to) /\ from \notin Gone /\ to \notin Gone
    BY <1>10, HandleCounted DEF HandleRequest
  <2> QED
    BY <1>0, <1>10, <2>1, StopQuiet DEF HandleRequest, server_vars, Gone
<1>11. ASSUME NEW w \in Worker,
              \/ Begin(w) \/ ReadRequest(w) \/ ServeCommands(w) \/ ClientEnds(w)
              \/ ReadShutDown(w) \/ Unregister(w) \/ WorkerEnds(w)
       PROVE  StopInv'
  <2>1. UNCHANGED <<server, running, acceptor, accept_thread, stop, polls>>
    BY <1>11 DEF Begin, ReadRequest, ServeCommands, ClientEnds, ReadShutDown,
                 Unregister, WorkerEnds, server_vars
  <2>2. \E from \in {"accepted", "read", "sent", "serve", "dispatch", "unregister"},
          to \in {"read", "route", "sent", "serve", "dispatch", "unregister",
                 "done"} : Goto(w, from, to)
    BY <1>11 DEF Begin, ReadRequest, ServeCommands, ClientEnds, ReadShutDown,
                 Unregister, WorkerEnds
  <2> QED
    BY <1>0, <2>1, <2>2, StopQuiet
<1> QED
  BY <1>1, <1>2, <1>3, <1>4, <1>5, <1>6, <1>7, <1>8, <1>9, <1>10, <1>11
  DEF Next, vars, handler_vars, server_vars, WorkerStep, AcceptStep, StopStep,
      HandlerDies, Escapes

\* stop() leaves no worker behind ("no worker may outlive the io_context",
\* arca/server.cpp; the drain of http_server.cpp unless it gave up), for any
\* number of connections in any state when it is called.
THEOREM StopLeavesNobody == Spec => []NoWorkerAfterStop
<1>1. Init => StopInv
  BY ConnInitially DEF Init, StopInv, Joined, Closed, NoWorkerAfterStop
<1>2. StopInv => NoWorkerAfterStop
  BY DEF StopInv
<1> QED
  BY <1>1, <1>2, StopStepOK, PTL DEF Spec

-----------------------------------------------------------------------------
(* The responses                                                           *)

\* How many responses a worker has on its socket, by where it is: a stream's
\* head goes out before the engine, everything else at the reply.
AnswerOf(w) ==
  /\ at[w] \notin {"lock", "engine", "reply", "release", "sent"} => heads[w] = 0
  /\ at[w] = "begin" => kind[w] = "stream" /\ w \in slot
  /\ at[w] \in {"lock", "engine", "reply"} =>
       heads[w] = IF kind[w] = "stream" /\ w \in slot THEN 1 ELSE 0
  /\ at[w] = "release" => heads[w] \in {1, 2}
  /\ at[w] = "sent" => heads[w] \in {0, 1, 2}
  /\ heads[w] = 2 => kind[w] = "stream" /\ failed[w]
  /\ at[w] \notin {"reply", "release", "sent"} => begun[w] = heads[w]
  /\ alive /\ begun[w] # heads[w] =>
       begun[w] = heads[w] + 1 /\ kind[w] \in {"completion", "chat"} /\ failed[w]

AnswerInv ==
  /\ GateInv
  /\ DOMAIN kind = Worker /\ DOMAIN failed = Worker /\ DOMAIN heads = Worker
  /\ DOMAIN begun = Worker
  /\ \A w \in Worker : AnswerOf(w)

\* A step of one worker concerns that worker's response only.
LEMMA OthersKeep ==
  ASSUME AnswerInv, GateInv', NEW w \in Worker, AnswerOf(w)',
         DOMAIN kind' = Worker, DOMAIN failed' = Worker, DOMAIN heads' = Worker,
         DOMAIN begun' = Worker, alive' => alive,
         \A v \in Worker \ {w} :
           /\ at'[v] = at[v] /\ kind'[v] = kind[v] /\ failed'[v] = failed[v]
           /\ heads'[v] = heads[v] /\ begun'[v] = begun[v] /\ (v \in slot' <=> v \in slot)
  PROVE  AnswerInv'
<1>1. ASSUME NEW v \in Worker PROVE AnswerOf(v)'
  <2>1. CASE v = w
    BY <2>1
  <2>2. CASE v # w
    BY <2>2 DEF AnswerInv, AnswerOf
  <2> QED
    BY <2>1, <2>2
<1> QED
  BY <1>1 DEF AnswerInv

\* Where the handler sends a worker, its response is as far as it should be.
LEMMA AnswerHandle ==
  ASSUME AnswerInv, GateInv', NEW w \in Worker, Handle(w)
  PROVE  AnswerInv'
<1>1. /\ DOMAIN at = Worker /\ DOMAIN kind = Worker /\ DOMAIN failed = Worker
      /\ DOMAIN heads = Worker /\ DOMAIN begun = Worker /\ AnswerOf(w)
      /\ w \in slot => at[w] \in InHandler
  BY DEF AnswerInv, GateInv
<1>2. CASE Route(w)
  <2>1. PICK k \in Kind :
          /\ at[w] = "route" /\ at' = [at EXCEPT ![w] = FirstStep(k)]
          /\ kind' = [kind EXCEPT ![w] = k]
          /\ \E bad \in BOOLEAN : failed' = [failed EXCEPT ![w] = bad]
    BY <1>2 DEF Route, Goto
  <2>2. FirstStep(k) \in {"reply", "format", "gate", "lock"}
    BY DEF FirstStep, Kind, Generation
  <2>3. UNCHANGED <<slot, heads, begun, alive>> /\ w \notin slot /\ heads[w] = 0
        /\ begun[w] = 0
    BY <1>1, <1>2, <2>1 DEF Route, AnswerOf, InHandler
  <2>4. AnswerOf(w)'
    BY <1>1, <2>1, <2>2, <2>3 DEF AnswerOf
  <2> QED
    BY <1>1, <2>1, <2>3, <2>4, OthersKeep
<1>3. CASE FormatChat(w)
  <2>1. /\ at[w] = "format" /\ at' = [at EXCEPT ![w] = "gate"]
        /\ UNCHANGED <<kind, failed, slot, heads, begun, alive>>
    BY <1>3 DEF FormatChat, Goto
  <2>2. AnswerOf(w)'
    BY <1>1, <2>1 DEF AnswerOf
  <2> QED
    BY <1>1, <2>1, <2>2, OthersKeep
<1>4. CASE GateAdd(w)
  <2>1. /\ at[w] = "gate" /\ UNCHANGED <<kind, failed, heads, begun, alive>>
        /\ \/ at' = [at EXCEPT ![w] = "refusing"] /\ slot' = slot
           \/ /\ at' = [at EXCEPT ![w] = IF kind[w] = "stream" THEN "begin" ELSE "lock"]
              /\ slot' = slot \cup {w}
    BY <1>4 DEF GateAdd, Goto
  <2>2. AnswerOf(w)'
    BY <1>1, <2>1 DEF AnswerOf
  <2> QED
    BY <1>1, <2>1, <2>2, OthersKeep
<1>5. CASE GateRefuse(w)
  <2>1. /\ at[w] = "refusing" /\ at' = [at EXCEPT ![w] = "reply"]
        /\ failed' = [failed EXCEPT ![w] = TRUE]
        /\ UNCHANGED <<kind, slot, heads, begun, alive>>
    BY <1>5 DEF GateRefuse, Goto
  <2>2. AnswerOf(w)'
    BY <1>1, <2>1 DEF AnswerOf, InHandler
  <2> QED
    BY <1>1, <2>1, <2>2, OthersKeep
<1>6. CASE BeginStream(w)
  <2>1. /\ at[w] = "begin" /\ at' = [at EXCEPT ![w] = "lock"]
        /\ heads' = [heads EXCEPT ![w] = @ + 1]
        /\ begun' = [begun EXCEPT ![w] = @ + 1]
        /\ UNCHANGED <<kind, failed, slot, alive>>
    BY <1>6 DEF BeginStream, Goto
  <2>2. AnswerOf(w)'
    BY <1>1, <2>1 DEF AnswerOf
  <2> QED
    BY <1>1, <2>1, <2>2, OthersKeep
<1>7. CASE EnterEngine(w)
  <2>1. /\ at[w] = "lock" /\ at' = [at EXCEPT ![w] = "engine"]
        /\ UNCHANGED <<kind, failed, slot, heads, begun, alive>>
    BY <1>7 DEF EnterEngine, Goto
  <2>2. AnswerOf(w)'
    BY <1>1, <2>1 DEF AnswerOf
  <2> QED
    BY <1>1, <2>1, <2>2, OthersKeep
<1>8. CASE LeaveEngine(w)
  <2>1. /\ at[w] = "engine" /\ at' = [at EXCEPT ![w] = "reply"]
        /\ \E bad \in BOOLEAN : failed' = [failed EXCEPT ![w] = bad]
        /\ UNCHANGED <<kind, slot, heads, begun, alive>>
    BY <1>8 DEF LeaveEngine, Goto
  <2>2. AnswerOf(w)'
    BY <1>1, <2>1 DEF AnswerOf
  <2> QED
    BY <1>1, <2>1, <2>2, OthersKeep
<1>9. CASE Reply(w)
  <2>1. /\ at[w] = "reply" /\ UNCHANGED <<kind, failed, slot, alive>>
        /\ at' = [at EXCEPT ![w] = IF w \in slot THEN "release" ELSE "sent"]
        /\ heads' = IF ~(kind[w] = "stream" /\ w \in slot /\ ~failed[w])
                    THEN [heads EXCEPT ![w] = @ + 1] ELSE heads
        /\ begun' = IF ~(kind[w] = "stream" /\ w \in slot /\ ~failed[w])
                    THEN [begun EXCEPT ![w] = @ + 1] ELSE begun
    BY <1>9 DEF Reply, Goto, Responds, Begins
  <2>2. AnswerOf(w)'
    BY <1>1, <2>1 DEF AnswerOf
  <2> QED
    BY <1>1, <2>1, <2>2, OthersKeep
<1>10. CASE GateRelease(w)
  <2>1. /\ at[w] = "release" /\ at' = [at EXCEPT ![w] = "sent"]
        /\ slot' = slot \ {w} /\ UNCHANGED <<kind, failed, heads, begun, alive>>
    BY <1>10 DEF GateRelease, Goto
  <2>2. AnswerOf(w)'
    BY <1>1, <2>1 DEF AnswerOf
  <2> QED
    BY <1>1, <2>1, <2>2, OthersKeep
<1>11. CASE DumpThrows(w)
  <2>1. /\ at[w] = "reply" /\ at' = [at EXCEPT ![w] = "reply"]
        /\ failed' = [failed EXCEPT ![w] = TRUE]
        /\ begun' = [begun EXCEPT ![w] = @ + 1]
        /\ kind[w] \in {"completion", "chat"} /\ w \in slot /\ ~failed[w] /\ alive
        /\ UNCHANGED <<kind, slot, heads, alive>>
    BY <1>11 DEF DumpThrows, Goto, Begins
  <2>2. AnswerOf(w)'
    BY <1>1, <2>1 DEF AnswerOf
  <2> QED
    BY <1>1, <2>1, <2>2, OthersKeep
<1> QED
  BY <1>2, <1>3, <1>4, <1>5, <1>6, <1>7, <1>8, <1>9, <1>10, <1>11 DEF Handle

\* Outside the handler nothing is answered, and a worker that ends forgets.
LEMMA AnswerStep == AnswerInv /\ [Next]_vars => AnswerInv'
<1> SUFFICES ASSUME AnswerInv, [Next]_vars PROVE AnswerInv'
  OBVIOUS
<1>0. GateInv'
  BY GateStep DEF AnswerInv
<1>1. CASE UNCHANGED <<at, kind, failed, slot, heads, begun, alive>>
  BY <1>0, <1>1 DEF AnswerInv, AnswerOf
<1>2. CASE StopClose
  <2>1. /\ \A v \in Worker : at[v] # "pending" => at'[v] = at[v]
        /\ \A v \in Worker : at[v] = "pending" => at'[v] = "reset"
        /\ UNCHANGED <<kind, failed, slot, heads, begun, alive>>
    BY <1>2 DEF StopClose, handler_rest
  <2> QED
    BY <1>0, <2>1 DEF AnswerInv, AnswerOf
<1>3. CASE \E w \in Worker : Handle(w)
  BY <1>0, <1>3, AnswerHandle
<1>4. ASSUME NEW w \in Worker,
             \/ Accept(w) \/ Connect(w) \/ Begin(w) \/ ReadRequest(w)
             \/ ServeCommands(w) \/ ClientEnds(w) \/ ReadShutDown(w)
             \/ Unregister(w)
      PROVE  AnswerInv'
  <2>1. UNCHANGED <<kind, failed, slot, heads, begun, alive>>
    BY <1>4 DEF Accept, Connect, Begin, ReadRequest, ServeCommands, ClientEnds,
                ReadShutDown, Unregister, handler_rest
  <2>2. PICK from \in {"none", "pending", "accepted", "read", "serve", "dispatch",
                       "unregister"},
             to \in {"pending", "accepted", "read", "route", "sent", "serve",
                     "dispatch", "unregister"} :
          at[w] = from /\ at' = [at EXCEPT ![w] = to]
    BY <1>4 DEF Accept, Connect, Begin, ReadRequest, ServeCommands, ClientEnds,
                ReadShutDown, Unregister, Goto
  <2>3. DOMAIN at = Worker /\ AnswerOf(w)
    BY DEF AnswerInv, GateInv
  <2>4. AnswerOf(w)'
    BY <2>1, <2>2, <2>3 DEF AnswerOf
  <2> QED
    BY <1>0, <2>1, <2>2, <2>3, <2>4, OthersKeep DEF AnswerInv
<1>5. ASSUME NEW w \in Worker, WorkerEnds(w)
      PROVE  AnswerInv'
  <2>1. /\ at' = [at EXCEPT ![w] = "done"] /\ UNCHANGED <<slot, alive>>
        /\ kind' = [kind EXCEPT ![w] = "cheap"]
        /\ failed' = [failed EXCEPT ![w] = FALSE]
        /\ heads' = [heads EXCEPT ![w] = 0]
        /\ begun' = [begun EXCEPT ![w] = 0]
    BY <1>5 DEF WorkerEnds, ForgetRequest, Goto
  <2>2. /\ DOMAIN at = Worker /\ DOMAIN kind = Worker /\ DOMAIN failed = Worker
        /\ DOMAIN heads = Worker /\ DOMAIN begun = Worker
    BY DEF AnswerInv, GateInv
  <2>3. AnswerOf(w)'
    BY <2>1, <2>2 DEF AnswerOf
  <2> QED
    BY <1>0, <2>1, <2>2, <2>3, OthersKeep
<1>6. ASSUME NEW w \in Worker, Escapes(w)
      PROVE  AnswerInv'
  <2>1. /\ UNCHANGED <<at, kind, failed, slot, heads>> /\ ~alive'
        /\ \/ begun' = begun
           \/ at[w] = "reply" /\ begun' = [begun EXCEPT ![w] = @ + 1]
    BY <1>6 DEF Escapes, Uncaught, UncaughtDump, Begins
  <2>2. DOMAIN begun = Worker /\ AnswerOf(w)
    BY DEF AnswerInv
  <2>3. AnswerOf(w)'
    BY <2>1, <2>2 DEF AnswerOf
  <2> QED
    BY <1>0, <2>1, <2>2, <2>3, OthersKeep DEF AnswerInv
<1> QED
  BY <1>1, <1>2, <1>3, <1>4, <1>5, <1>6
  DEF Next, vars, handler_vars, handler_rest, WorkerStep, AcceptStep, StopStep,
      HandleRequest, HandlerDies, Start, AcceptLoop, AcceptNothing, StopBegin,
      StopJoin, StopDrain, StopShutdown, StopWait

\* A request that took the gate leaves one response on its socket, whatever
\* the engine and the serialisation of its text do, and two only if it is a
\* stream that failed after its head (api_handler.cpp): for any number of
\* workers.
THEOREM RequestsAnsweredOnce == Spec => []AnsweredOnce
<1>1. Init => AnswerInv
  BY GateInitially DEF Init, HandlerInit, AnswerInv, AnswerOf
<1>2. AnswerInv => AnsweredOnce
  <2> SUFFICES ASSUME AnswerInv, NEW w \in Worker
               PROVE  /\ at[w] = "release" => heads[w] >= 1
                      /\ heads[w] > 1 => heads[w] = 2 /\ kind[w] = "stream" /\ failed[w]
                      /\ alive /\ begun[w] # heads[w] =>
                           /\ begun[w] = heads[w] + 1 /\ failed[w]
                           /\ kind[w] \in {"completion", "chat"}
    BY DEF AnsweredOnce
  <2>1. AnswerOf(w)
    BY DEF AnswerInv
  <2>2. heads[w] \in {0, 1, 2}
    BY <2>1 DEF AnswerOf
  <2> QED
    BY <2>1, <2>2 DEF AnswerOf
<1> QED
  BY <1>1, <1>2, AnswerStep, PTL DEF Spec

-----------------------------------------------------------------------------
(* The types                                                               *)

\* The parts of ServerTypeOK that are not counters.
ShapeInv ==
  /\ server \in {"http", "arca"} /\ {running, alive, parallel} \subseteq BOOLEAN
  /\ conns \subseteq Worker /\ shut \subseteq Worker
  /\ engine_mutex \in Worker \cup {Free}

\* Each step sets a flag, registers a worker or hands the mutex on.
LEMMA ShapeStep == ShapeInv /\ [Next]_vars => ShapeInv'
<1> SUFFICES ASSUME ShapeInv, [Next]_vars PROVE ShapeInv'
  OBVIOUS
<1>1. CASE UNCHANGED <<server, running, alive, parallel, conns, shut, engine_mutex>>
  BY <1>1 DEF ShapeInv
<1>2. CASE Start \/ StopBegin \/ StopShutdown
  BY <1>2 DEF Start, StopBegin, StopShutdown, handler_vars, ShapeInv
<1>3. CASE \E w \in Worker : Begin(w) \/ Unregister(w)
  BY <1>3 DEF Begin, Unregister, handler_rest, Goto, ShapeInv
<1>4. CASE \E w \in Worker : EnterEngine(w) /\ UNCHANGED server_vars
  BY <1>4 DEF EnterEngine, server_vars, ShapeInv
<1>5. CASE \E w \in Worker : LeaveEngine(w) /\ UNCHANGED server_vars
  BY <1>5 DEF LeaveEngine, server_vars, ShapeInv
<1>6. CASE \E w \in Worker : Reply(w) /\ UNCHANGED server_vars
  BY <1>6 DEF Reply, Unlocked, server_vars, ShapeInv
<1>7. CASE \E w \in Worker : HandlerDies(w)
  BY <1>7 DEF HandlerDies, Escapes, server_vars, ShapeInv
<1>8. ASSUME NEW w \in Worker, UNCHANGED server_vars,
             \/ Route(w) \/ FormatChat(w) \/ GateAdd(w) \/ GateRefuse(w)
             \/ BeginStream(w) \/ DumpThrows(w) \/ GateRelease(w)
      PROVE  UNCHANGED <<server, running, alive, parallel, conns, shut, engine_mutex>>
  BY <1>8 DEF Route, FormatChat, GateAdd, GateRefuse, BeginStream, DumpThrows,
              GateRelease, server_vars
<1>9. ASSUME NEW w \in Worker,
             \/ Accept(w) \/ Connect(w) \/ ReadRequest(w) \/ ServeCommands(w)
             \/ ClientEnds(w) \/ ReadShutDown(w) \/ WorkerEnds(w)
      PROVE  UNCHANGED <<server, running, alive, parallel, conns, shut, engine_mutex>>
  BY <1>9 DEF Accept, Connect, ReadRequest, ServeCommands, ClientEnds,
              ReadShutDown, WorkerEnds, ForgetRequest, handler_rest, server_vars
<1>10. ASSUME AcceptLoop \/ AcceptNothing \/ StopClose \/ StopJoin \/ StopDrain
              \/ StopWait
       PROVE  UNCHANGED <<server, running, alive, parallel, conns, shut, engine_mutex>>
  BY <1>10 DEF AcceptLoop, AcceptNothing, StopClose, StopJoin, StopDrain,
               StopWait, handler_vars, handler_rest
<1>11. CASE \E w \in Worker : HandleRequest(w)
  BY <1>1, <1>4, <1>5, <1>6, <1>8, <1>11 DEF HandleRequest, Handle
<1>12. CASE UNCHANGED vars
  BY <1>1, <1>12 DEF vars, handler_vars, server_vars
<1> QED
  BY <1>1, <1>2, <1>3, <1>7, <1>9, <1>10, <1>11, <1>12
  DEF Next, WorkerStep, AcceptStep, StopStep

\* No worker holds a slot while it is being refused, so the gate's counter is
\* the size of one set of workers.
LEMMA GateBounded ==
  ASSUME GateInv
  PROVE  active_generations \in 0..Cardinality(Worker)
<1>1. slot \cup Refusing(at) \in SUBSET Worker /\ slot \cap Refusing(at) = {}
  BY DEF GateInv, InHandler, Refusing
<1>2. IsFiniteSet(slot) /\ IsFiniteSet(Refusing(at))
  BY <1>1, HandlerAssumption, FS_Subset
<1>3. Cardinality(slot \cup Refusing(at)) =
        Cardinality(slot) + Cardinality(Refusing(at)) - Cardinality(slot \cap Refusing(at))
  BY <1>2, FS_Union
<1>4. Cardinality(slot \cup Refusing(at)) <= Cardinality(Worker)
  BY <1>1, HandlerAssumption, FS_Subset
<1>5. /\ Cardinality(slot) \in Nat /\ Cardinality(Refusing(at)) \in Nat
      /\ Cardinality(Worker) \in Nat /\ Cardinality(slot \cap Refusing(at)) = 0
  BY <1>1, <1>2, HandlerAssumption, FS_CardinalityType, FS_EmptySet
<1> QED
  BY <1>3, <1>4, <1>5 DEF GateInv

\* The connection counter is the size of a set of workers.
LEMMA ConnectionsBounded ==
  ASSUME ConnInv
  PROVE  active_connections \in 0..Cardinality(Worker)
<1>1. Live(at) \in SUBSET Worker
  BY DEF Live
<1>2. /\ Cardinality(Live(at)) <= Cardinality(Worker)
      /\ Cardinality(Live(at)) \in Nat /\ Cardinality(Worker) \in Nat
  BY <1>1, HandlerAssumption, FS_Subset, FS_CardinalityType
<1> QED
  BY <1>2 DEF ConnInv

\* The servers' types, for any number of workers: neither the connection
\* counter nor the generation counter is ever negative or exceeds the workers.
THEOREM ServerTypes == Spec => []ServerTypeOK
<1> DEFINE TypesInv == GateInv /\ ConnInv /\ ShapeInv
<1>1. Init => TypesInv
  <2>1. Init => ShapeInv
    BY DEF Init, HandlerInit, ShapeInv
  <2> QED
    BY <2>1, GateInitially, ConnInitially
<1>2. TypesInv /\ [Next]_vars => TypesInv'
  BY GateStep, ConnStep, ShapeStep
<1>3. TypesInv => ServerTypeOK
  <2> SUFFICES ASSUME TypesInv PROVE ServerTypeOK
    OBVIOUS
  <2>1. slot \subseteq Worker
    BY DEF GateInv
  <2> QED
    BY <2>1, GateBounded, ConnectionsBounded DEF ServerTypeOK, ShapeInv
<1> QED
  BY <1>1, <1>2, <1>3, PTL DEF Spec

=============================================================================
