----------------------------- MODULE ArcaClient -----------------------------
(***************************************************************************)
(* The engine's RESP client (src/arca/client.cpp) and, as far as the client *)
(* can see it, the archive at the other end: one connection, made lazily    *)
(* and dropped on any I/O failure, over which the archive answers commands  *)
(* in order, late, or never.  The archive may forget (LossyCache).          *)
(***************************************************************************)
EXTENDS Integers, Sequences, FiniteSets

CONSTANTS
  Key,
  Nil, Ok,      \* the replies $-1 and +OK
  MaxLate       \* commands of dropped connections the archive may still run

VARIABLES
  archive,      \* Key -> stored value or Nil
  sock,         \* the client has an open connection
  sent,         \* commands on it that the archive has not run yet
  replies,      \* replies on it that the client has not read yet
  late          \* SETs of dropped connections, still on their way

client_vars == <<archive, sock, sent, replies, late>>

ClientInit ==
  /\ archive = [k \in Key |-> Nil]
  /\ sock = FALSE /\ sent = <<>> /\ replies = <<>> /\ late = {}

Get(k) == [op |-> "GET", key |-> k, value |-> Nil]
Set(k, v) == [op |-> "SET", key |-> k, value |-> v]

\* connect() and write_all(): the command is on its way.
Send(cmd) ==
  /\ sock' = TRUE
  /\ sent' = Append(sent, cmd)
  /\ UNCHANGED <<archive, replies, late>>

\* drop(): what the archive has already received it may still run.
Drop ==
  /\ sock' = FALSE /\ sent' = <<>> /\ replies' = <<>>
  /\ \E keep \in SUBSET {sent[j] : j \in DOMAIN sent} :
       /\ \A c \in keep : c.op = "SET"
       /\ Cardinality(late \cup keep) <= MaxLate
       /\ late' = late \cup keep
  /\ UNCHANGED archive

\* read_reply(): one reply is taken off the connection.
TakeReply ==
  /\ replies # <<>>
  /\ replies' = Tail(replies)
  /\ UNCHANGED <<archive, sock, sent, late>>

-----------------------------------------------------------------------------
(* The archive                                                             *)

\* Archive::dispatch(): a SET may be refused by the budget.
Dispatch ==
  /\ sent # <<>>
  /\ sent' = Tail(sent)
  /\ LET cmd == Head(sent) IN
       \/ /\ cmd.op = "GET"
          /\ replies' = Append(replies, archive[cmd.key])
          /\ UNCHANGED archive
       \/ /\ cmd.op = "SET"
          /\ \/ archive' = [archive EXCEPT ![cmd.key] = cmd.value]
             \/ UNCHANGED archive
          /\ replies' = Append(replies, Ok)
  /\ UNCHANGED <<sock, late>>

DispatchLate ==
  /\ \E cmd \in late :
       /\ late' = late \ {cmd}
       /\ archive' = [archive EXCEPT ![cmd.key] = cmd.value]
  /\ UNCHANGED <<sock, sent, replies>>

Forget ==
  /\ \E k \in Key : archive[k] # Nil /\ archive' = [archive EXCEPT ![k] = Nil]
  /\ UNCHANGED <<sock, sent, replies, late>>

ArchiveStep == Dispatch \/ DispatchLate \/ Forget

\* The client never has more than one command outstanding.
OneOutstanding == Len(sent) + Len(replies) <= 1
=============================================================================
