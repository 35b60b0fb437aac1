----------------------------- MODULE TimeServer ------------------------------
(***************************************************************************)
(* timeserver.c and temeclient.c of ch12, on the sockets of socklib.h: the *)
(* server forks a child for every connection, the child writes the date    *)
(* into it by way of execlp, and the handler of SIGCHLD waits for the      *)
(* children that have ended.  The client reads once, until there are bytes *)
(* or everybody has closed the other end.                                  *)
(*                                                                         *)
(* A pending SIGCHLD stands for any number of ended children: the handler  *)
(* runs between any two steps of the server, to its end.  signal restarts  *)
(* the accept it interrupts.                                               *)
(***************************************************************************)
EXTENDS Integers, FiniteSets

CONSTANTS Clients,       \* each makes one connection, and may get one child
          NoFd,          \* no connection in fd
          Backlog        \* what listen is given; one more connection may wait

ASSUME NoFdAssumption == NoFd \notin Clients
ASSUME BacklogAssumption == Backlog \in Nat

VARIABLES client,        \* where each client is
          queue,         \* connections the kernel has made and accept has not
          server, fd,    \* the server, and the connection in its fd
          child,         \* the child of each connection
          open,          \* open[c]: who has the server's end of c open
          bytes,         \* connections with the date in them
          sigchld        \* is SIGCHLD pending?

vars == <<client, queue, server, fd, child, open, bytes, sigchld>>

Init == /\ client = [c \in Clients |-> "connect"]
        /\ queue = {}
        /\ server = "socket" /\ fd = NoFd
        /\ child = [c \in Clients |-> "none"]
        /\ open = [c \in Clients |-> {}]
        /\ bytes = {}
        /\ sigchld = FALSE
-----------------------------------------------------------------------------
(* temeclient *)

\* The children of the server inherit the socket it listens on and keep it open
\* through execlp, also when the server has ended.
Listening == \/ server \in {"accept", "fork", "close"}
             \/ \E c \in Clients : child[c] \in {"dup2", "exec", "exit"}

\* connect_to_server waits where the queue is full, and may fail, as it does
\* where nobody listens.
Connect(c) == /\ client[c] = "connect"
              /\ \/ /\ Listening
                    /\ Cardinality(queue) <= Backlog
                    /\ queue' = queue \cup {c}
                    /\ client' = [client EXCEPT ![c] = "read"]
                 \/ /\ client' = [client EXCEPT ![c] = "exited"]
                    /\ UNCHANGED queue
              /\ UNCHANGED <<server, fd, child, open, bytes, sigchld>>

\* One read: the date, or nothing once the other end is closed; a connection
\* in the queue of a socket that nobody listens on any more is reset.
Read(c) == /\ client[c] = "read"
           /\ \/ c \in bytes
              \/ c \notin queue /\ open[c] = {}
              \/ c \in queue /\ ~Listening
           /\ client' = [client EXCEPT ![c] = "exited"]
           /\ UNCHANGED <<queue, server, fd, child, open, bytes, sigchld>>
-----------------------------------------------------------------------------
(* The server *)

MakeSocket == /\ server = "socket"
              /\ server' \in {"accept", "exited"}
              /\ UNCHANGED <<client, queue, fd, child, open, bytes, sigchld>>

\* The first accept that fails ends the loop and the server.
Accept == /\ server = "accept"
          /\ \/ \E c \in queue : /\ queue' = queue \ {c}
                                 /\ fd' = c
                                 /\ open' = [open EXCEPT ![c] = {"server"}]
                                 /\ server' = "fork"
             \/ /\ server' = "exited"
                /\ UNCHANGED <<queue, fd, open>>
          /\ UNCHANGED <<client, child, bytes, sigchld>>

\* A fork that fails is not noticed.
Fork == /\ server = "fork"
        /\ \/ /\ child' = [child EXCEPT ![fd] = "dup2"]
              /\ open' = [open EXCEPT ![fd] = @ \cup {"child"}]
           \/ UNCHANGED <<child, open>>
        /\ server' = "close"
        /\ UNCHANGED <<client, queue, fd, bytes, sigchld>>

\* Slip, for BothImplement: close(fd) left out.
KeepOpen == /\ server = "close"
            /\ fd' = NoFd
            /\ server' = "accept"
            /\ UNCHANGED <<client, queue, child, open, bytes, sigchld>>

Close == /\ server = "close"
         /\ open' = [open EXCEPT ![fd] = @ \ {"server"}]
         /\ fd' = NoFd
         /\ server' = "accept"
         /\ UNCHANGED <<client, queue, child, bytes, sigchld>>

Zombies == {c \in Clients : child[c] = "zombie"}

\* Slip, for Reaped: if for while, one child for each signal.
WaitOnce == /\ sigchld
            /\ server # "exited"
            /\ sigchld' = FALSE
            /\ \/ \E c \in Zombies : child' = [child EXCEPT ![c] = "gone"]
               \/ Zombies = {} /\ UNCHANGED child
            /\ UNCHANGED <<client, queue, server, fd, open, bytes>>

child_waiter == /\ sigchld
                /\ server # "exited"
                /\ sigchld' = FALSE
                /\ child' = [c \in Clients |-> IF c \in Zombies THEN "gone" ELSE child[c]]
                /\ UNCHANGED <<client, queue, server, fd, open, bytes>>

Server == MakeSocket \/ Fork \/ Close \/ child_waiter
-----------------------------------------------------------------------------
(* A child *)

\* dup2 and close: the connection is its standard output, and nothing else is.
Dup2(c) == /\ child[c] = "dup2"
           /\ child' = [child EXCEPT ![c] = "exec"]
           /\ UNCHANGED <<client, queue, server, fd, open, bytes, sigchld>>

\* execlp looks for a program "data", which may not be there; one that is
\* writes and ends.
Exec(c) == /\ child[c] = "exec"
           /\ bytes' \in {bytes, bytes \cup {c}}
           /\ child' = [child EXCEPT ![c] = "exit"]
           /\ UNCHANGED <<client, queue, server, fd, open, sigchld>>

Exit(c) == /\ child[c] = "exit"
           /\ open' = [open EXCEPT ![c] = @ \ {"child"}]
           /\ child' = [child EXCEPT ![c] = "zombie"]
           /\ sigchld' = TRUE
           /\ UNCHANGED <<client, queue, server, fd, bytes>>

Child(c) == Dup2(c) \/ Exec(c) \/ Exit(c)
-----------------------------------------------------------------------------
Next == \/ Server \/ Accept
        \/ \E c \in Clients : Connect(c) \/ Read(c) \/ Child(c)

\* Server, children and clients run, a pending signal is delivered, and an
\* accept with a connection in the queue returns.
Fairness == /\ WF_vars(MakeSocket \/ Fork \/ Close)
            /\ WF_vars(child_waiter)
            /\ WF_vars(queue # {} /\ Accept)
            /\ \A c \in Clients : WF_vars(Child(c)) /\ WF_vars(Connect(c)) /\ WF_vars(Read(c))

Spec == Init /\ [][Next]_vars
FairSpec == Spec /\ Fairness
-----------------------------------------------------------------------------
\* The children that have ended are waited for although signals coalesce: no
\* zombie is left while the server lives.
Reaped == \A c \in Clients : child[c] = "zombie" ~> (child[c] = "gone" \/ server = "exited")

\* A client of a server that is not started stays idle.
Status(c) == CASE client[c] \in {"connect", "absent"} -> "idle"
               [] client[c] = "read"   -> IF c \in bytes THEN "served" ELSE "waiting"
               [] client[c] = "exited" -> IF c \in bytes THEN "answered" ELSE "refused"

Promise == INSTANCE Service WITH status <- [c \in Clients |-> Status(c)]

\* Every client is answered, or hung up on, as Service says, also when the fork
\* or the exec fails or the server has ended before its children.
ImplementService == Promise!Spec
=============================================================================
