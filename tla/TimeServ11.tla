------------------------------ MODULE TimeServ11 ------------------------------
(***************************************************************************)
(* timeserv.c and timeclent.c of ch11: the server writes the date itself,  *)
(* to one client after the other, and ends when any of its calls fails.    *)
(***************************************************************************)
EXTENDS Integers, FiniteSets

CONSTANTS Clients, NoFd, Backlog       \* as in TimeServer

VARIABLES client, queue, server, fd, bytes

vars == <<client, queue, server, fd, bytes>>

Init == /\ client = [c \in Clients |-> "connect"] /\ queue = {}
        /\ server = "socket" /\ fd = NoFd /\ bytes = {}

\* Only the server has the socket open on which it listens.
Listening == server \in {"accept", "fdopen", "fclose"}

Connect(c) == /\ client[c] = "connect"
              /\ \/ /\ Listening /\ Cardinality(queue) <= Backlog
                    /\ queue' = queue \cup {c}
                    /\ client' = [client EXCEPT ![c] = "read"]
                 \/ /\ client' = [client EXCEPT ![c] = "exited"]
                    /\ UNCHANGED queue
              /\ UNCHANGED <<server, fd, bytes>>

\* One read: the date, or the end of the connection, which a server that has
\* ended has closed, or reset where it was still in the queue.
Read(c) == /\ client[c] = "read"
           /\ c \in bytes \/ (c \notin queue /\ fd # c) \/ ~Listening
           /\ client' = [client EXCEPT ![c] = "exited"]
           /\ UNCHANGED <<queue, server, fd, bytes>>

\* socket, bind and listen.
MakeSocket == /\ server = "socket" /\ server' \in {"accept", "exited"}
              /\ UNCHANGED <<client, queue, fd, bytes>>

Accept == /\ server = "accept"
          /\ \/ \E c \in queue : queue' = queue \ {c} /\ fd' = c /\ server' = "fdopen"
             \/ server' = "exited" /\ UNCHANGED <<queue, fd>>
          /\ UNCHANGED <<client, bytes>>

Fdopen == /\ server = "fdopen" /\ server' \in {"fclose", "exited"}
          /\ UNCHANGED <<client, queue, fd, bytes>>

\* Slip, for BothImplement: fclose(sock_fp) forgotten, and with it the flush.
NoFclose == /\ server = "fclose" /\ server' = "accept"
            /\ UNCHANGED <<client, queue, fd, bytes>>

\* The lines leave the stream's buffer when it is closed.
Fclose == /\ server = "fclose" /\ server' = "accept"
          /\ bytes' = bytes \cup {fd} /\ fd' = NoFd
          /\ UNCHANGED <<client, queue>>

Server == MakeSocket \/ Fdopen \/ Fclose

Next == Server \/ Accept \/ \E c \in Clients : Connect(c) \/ Read(c)

\* As in TimeServer.
Fairness == /\ WF_vars(Server) /\ WF_vars(queue # {} /\ Accept)
            /\ \A c \in Clients : WF_vars(Connect(c)) /\ WF_vars(Read(c))
-----------------------------------------------------------------------------
\* A client of a server that is not started stays idle.
Status(c) == CASE client[c] \in {"connect", "absent"} -> "idle"
               [] client[c] = "read"   -> IF c \in bytes THEN "served" ELSE "waiting"
               [] client[c] = "exited" -> IF c \in bytes THEN "answered" ELSE "refused"

Promise == INSTANCE Service WITH status <- [c \in Clients |-> Status(c)]

\* Every client is answered, or hung up on, as Service says, one after the other.
ImplementService == Promise!Spec
===============================================================================
