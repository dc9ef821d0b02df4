-------------------------- MODULE ConnectionServer --------------------------
(***************************************************************************)
(* The two servers: HttpServer (src/server/http_server.cpp), whose workers  *)
(* run the API handler, and ArcaServer (src/arca/server.cpp), whose workers *)
(* serve commands until the connection ends.  Both accept on one polling    *)
(* thread, hand every connection to a detached, counted worker, and differ  *)
(* in how stop() gets rid of the workers.                                   *)
(***************************************************************************)
EXTENDS ApiHandler

CONSTANT MaxPolls   \* rounds of HttpServer's drain (600 in the code)
ASSUME ServerAssumption == MaxPolls \in Nat

VARIABLES
  server,               \* "http" or "arca"
  running,
  acceptor,             \* "none", "open" or "closed"
  accept_thread,        \* "off", "loop", "accept" or "exit"
  active_connections,
  conns,                \* ArcaServer: sockets of registered workers
  shut,                 \* sockets that stop() has shut down
  stop,                 \* where stop() is, "none" before it
  polls

server_vars == <<server, running, acceptor, accept_thread, active_connections,
                 conns, shut, stop, polls>>
vars == <<handler_vars, server_vars>>

Init ==
  /\ HandlerInit
  /\ server \in {"http", "arca"} /\ (server = "arca" => ~parallel)
  /\ running = FALSE /\ acceptor = "none" /\ accept_thread = "off"
  /\ active_connections = 0 /\ conns = {} /\ shut = {}
  /\ stop = "none" /\ polls = 0

handler_rest == <<parallel, alive, kind, failed, slot, begun, heads, engine_mutex,
                  active_generations, total_requests, errors>>

\* What the worker's thread had on its stack is gone with it.
ForgetRequest(w) ==
  /\ kind' = [kind EXCEPT ![w] = "cheap"]
  /\ failed' = [failed EXCEPT ![w] = FALSE]
  /\ begun' = [begun EXCEPT ![w] = 0]
  /\ heads' = [heads EXCEPT ![w] = 0]
  /\ UNCHANGED <<parallel, alive, slot, engine_mutex, active_generations,
                 total_requests, errors>>

-----------------------------------------------------------------------------
(* start() and accept_loop()                                               *)

Start ==
  /\ alive /\ acceptor = "none"
  /\ running' = TRUE /\ acceptor' = "open" /\ accept_thread' = "loop"
  /\ UNCHANGED <<handler_vars, server, active_connections, conns, shut, stop,
                 polls>>

\* A client connects; it waits in the backlog.
Connect(w) ==
  /\ acceptor = "open" /\ Goto(w, "none", "pending")
  /\ UNCHANGED <<handler_rest, server_vars>>

AcceptLoop ==
  /\ alive /\ accept_thread = "loop"
  /\ accept_thread' = IF running THEN "accept" ELSE "exit"
  /\ UNCHANGED <<handler_vars, server, running, acceptor, active_connections,
                 conns, shut, stop, polls>>

\* The connection is counted before its worker is started.
Accept(w) ==
  /\ accept_thread = "accept" /\ acceptor = "open"
  /\ Goto(w, "pending", "accepted")
  /\ accept_thread' = "loop"
  /\ active_connections' = active_connections + 1
  /\ UNCHANGED <<handler_rest, server, running, acceptor, conns, shut, stop,
                 polls>>

\* Nothing to accept, or the acceptor is closed under the loop.
AcceptNothing ==
  /\ alive /\ accept_thread = "accept"
  /\ acceptor = "closed" \/ \A w \in Worker : at[w] # "pending"
  /\ accept_thread' = "loop"
  /\ UNCHANGED <<handler_vars, server, running, acceptor, active_connections,
                 conns, shut, stop, polls>>

-----------------------------------------------------------------------------
(* Workers                                                                 *)

\* The worker's first own step: the ARCA server registers the socket.
Begin(w) ==
  /\ IF server = "http" THEN Goto(w, "accepted", "read") /\ UNCHANGED conns
     ELSE Goto(w, "accepted", "serve") /\ conns' = conns \cup {w}
  /\ UNCHANGED <<handler_rest, server, running, acceptor, accept_thread,
                 active_connections, shut, stop, polls>>

\* The request is complete; or the client is gone, or it is too large or
\* malformed and was answered here.
ReadRequest(w) ==
  /\ Goto(w, "read", "route") \/ Goto(w, "read", "sent")
  /\ UNCHANGED <<handler_rest, server_vars>>

HandleRequest(w) == Handle(w) /\ UNCHANGED server_vars
HandlerDies(w) == Escapes(w) /\ UNCHANGED server_vars

\* Bytes arrive on a connection that is not shut down: commands run, replies
\* go out, and the worker reads again.
ServeCommands(w) ==
  /\ \/ w \notin shut /\ Goto(w, "serve", "dispatch")
     \/ Goto(w, "dispatch", "serve")
  /\ UNCHANGED <<handler_rest, server_vars>>

\* The client hung up, seen by the read or by the write of the replies, or
\* sent what the parser refuses.
ClientEnds(w) ==
  /\ Goto(w, "serve", "unregister") \/ Goto(w, "dispatch", "unregister")
  /\ UNCHANGED <<handler_rest, server_vars>>

\* The read of a socket that stop() has shut down returns.
ReadShutDown(w) ==
  /\ w \in shut /\ Goto(w, "serve", "unregister")
  /\ UNCHANGED <<handler_rest, server_vars>>

Unregister(w) ==
  /\ Goto(w, "unregister", "sent")
  /\ conns' = conns \ {w}
  /\ UNCHANGED <<handler_rest, server, running, acceptor, accept_thread,
                 active_connections, shut, stop, polls>>

\* Mutant: the count is only dropped for connections that got an answer.
WorkerEnds_OnlyAnswered(w) ==
  /\ Goto(w, "sent", "done")
  /\ active_connections' = IF server = "http" /\ begun[w] = 0
                           THEN active_connections ELSE active_connections - 1
  /\ ForgetRequest(w)
  /\ UNCHANGED <<server, running, acceptor, accept_thread, conns, shut, stop,
                 polls>>

\* The worker's last access to the server's own state (the socket it was
\* moved from is destroyed after it).
WorkerEnds(w) ==
  /\ Goto(w, "sent", "done")
  /\ active_connections' = active_connections - 1
  /\ ForgetRequest(w)
  /\ UNCHANGED <<server, running, acceptor, accept_thread, conns, shut, stop,
                 polls>>

-----------------------------------------------------------------------------
(* stop()                                                                  *)

StopAt(from, to) == alive /\ stop = from /\ stop' = to

StopBegin ==
  /\ running
  /\ running' = FALSE
  /\ StopAt("none", IF server = "http" THEN "close" ELSE "join")
  /\ UNCHANGED <<handler_vars, server, acceptor, accept_thread,
                 active_connections, conns, shut, polls>>

\* Connections still in the backlog are reset.
StopClose ==
  /\ StopAt("close", IF server = "http" THEN "join" ELSE "shutdown")
  /\ acceptor' = "closed"
  /\ at' = [w \in Worker |-> IF at[w] = "pending" THEN "reset" ELSE at[w]]
  /\ UNCHANGED <<handler_rest, server, running, accept_thread,
                 active_connections, conns, shut, polls>>

StopJoin ==
  /\ accept_thread = "exit"
  /\ StopAt("join", IF server = "http" THEN "drain" ELSE "close")
  /\ UNCHANGED <<handler_vars, server, running, acceptor, accept_thread,
                 active_connections, conns, shut, polls>>

\* HttpServer: wait for the workers, but not for ever.
StopDrain ==
  /\ IF active_connections > 0 /\ polls < MaxPolls
     THEN StopAt("drain", "drain") /\ polls' = polls + 1
     ELSE StopAt("drain", "returned") /\ UNCHANGED polls
  /\ UNCHANGED <<handler_vars, server, running, acceptor, accept_thread,
                 active_connections, conns, shut>>

\* Mutant: the sockets are left open and only their workers waited for.
StopShutdown_None ==
  /\ StopAt("shutdown", "wait")
  /\ UNCHANGED <<handler_vars, server, running, acceptor, accept_thread,
                 active_connections, conns, shut, polls>>

\* ArcaServer: the sockets registered by now are shut down.
StopShutdown ==
  /\ StopAt("shutdown", "wait")
  /\ shut' = conns
  /\ UNCHANGED <<handler_vars, server, running, acceptor, accept_thread,
                 active_connections, conns, polls>>

\* Mutant: stop() does not wait for the workers to unwind.
StopWait_Skipped ==
  /\ StopAt("wait", "returned")
  /\ UNCHANGED <<handler_vars, server, running, acceptor, accept_thread,
                 active_connections, conns, shut, polls>>

StopWait ==
  /\ active_connections = 0
  /\ StopAt("wait", "returned")
  /\ UNCHANGED <<handler_vars, server, running, acceptor, accept_thread,
                 active_connections, conns, shut, polls>>

-----------------------------------------------------------------------------
\* What the server's own threads do.  Clients connect, send and hang up at
\* their own pace, or never; and a call into the engine, or a write to a
\* client that does not read, takes as long as it takes.
WorkerStep(w) ==
  \/ Begin(w) \/ HandleRequest(w) \/ ReadShutDown(w) \/ Unregister(w)
  \/ WorkerEnds(w)
AcceptStep == AcceptLoop \/ AcceptNothing \/ \E w \in Worker : Accept(w)
StopStep == StopClose \/ StopJoin \/ StopDrain \/ StopShutdown \/ StopWait

Next ==
  \/ Start \/ AcceptStep \/ StopBegin \/ StopStep
  \/ \E w \in Worker : \/ WorkerStep(w) \/ HandlerDies(w)
                       \/ Connect(w) \/ ReadRequest(w)
                       \/ ServeCommands(w) \/ ClientEnds(w)

Spec == Init /\ [][Next]_vars

\* Where a worker depends on the engine or on its client's reading, until
\* stop() has shut the socket down and reads and writes return.
Outside == {"begin", "engine", "reply"}
OwnStep(w) == at[w] \notin Outside /\ WorkerStep(w)
ShutStep(w) == w \in shut /\ at[w] = "dispatch" /\ (ServeCommands(w) \/ ClientEnds(w))

Fairness == /\ WF_vars(AcceptStep) /\ WF_vars(StopStep)
            /\ \A w \in Worker : WF_vars(OwnStep(w)) /\ WF_vars(ShutStep(w))
FairSpec == Spec /\ Fairness

-----------------------------------------------------------------------------
(* Properties                                                              *)

\* Types, and both counters never negative.
ServerTypeOK ==
  /\ server \in {"http", "arca"} /\ {running, alive, parallel} \subseteq BOOLEAN
  /\ active_connections \in 0..Cardinality(Worker)
  /\ active_generations \in 0..Cardinality(Worker)
  /\ slot \subseteq Worker /\ conns \subseteq Worker /\ shut \subseteq Worker
  /\ engine_mutex \in Worker \cup {Free}

\* The counter is exactly the workers that still use the server: counted
\* before the thread exists, dropped as its last step, on every exit path.
ConnectionAccounting ==
  active_connections =
    Cardinality({w \in Worker : at[w] \notin {"none", "pending", "reset", "done"}})

\* "no worker may outlive the io_context": when ArcaServer's stop() returns,
\* and when HttpServer's does without having given up, every worker has ended
\* and none can start.
NoWorkerAfterStop ==
  (stop = "returned" /\ (server = "http" => polls < MaxPolls)) =>
    \A w \in Worker : at[w] \in {"none", "reset", "done"}

\* stop() returns: HttpServer's whatever its clients do; ArcaServer's gets as
\* far as shutting the sockets down, and returns unless a worker was still on
\* its way to conns then, whose client may stay connected and silent.
StopReturns ==
  /\ (server = "http" /\ stop = "close") ~> (stop = "returned" \/ ~alive)
  /\ (server = "arca" /\ stop = "join") ~> (stop = "shutdown")
  /\ (stop = "shutdown" /\ \A w \in Worker : at[w] # "accepted")
       ~> (stop = "returned")

\* Nothing the handler itself does holds a request up for ever: if every
\* engine call returns and every client takes what is written to it, every
\* request that reached the handler is answered and its worker ends, although
\* they compete for the gate and the mutex and fail in all their ways.
EveryRequestAnswered ==
  (\A v \in Worker : []<>(at[v] \notin Outside)) =>
    \A w \in Worker : at[w] = "route" ~> at[w] = "done" \/ ~alive
=============================================================================
