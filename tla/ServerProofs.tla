---------------------------- MODULE ServerProofs -----------------------------
(***************************************************************************)
(* Proofs about the servers of StreamServers, for any number of clients    *)
(* and any backlog.  For both time servers, every step of the server, of a *)
(* child or of a client is a step of Service or changes nothing a client   *)
(* sees.  That rests on who still has a connection open: a client has      *)
(* given up only where nobody can write to it any more.  For the web       *)
(* server, any number of processes in the loop of main answer each         *)
(* connection once, which rests on there being one at most at work on it.  *)
(***************************************************************************)
EXTENDS StreamServers, TLAPS

Alive == {"dup2", "exec", "exit"}

TypeOK == /\ client \in [Clients -> {"absent", "connect", "read", "exited"}]
          /\ queue \subseteq Clients /\ bytes \subseteq Clients
          /\ server \in {"socket", "accept", "fork", "close", "exited"}
          /\ fd \in Clients \cup {NoFd}
          /\ child \in [Clients -> Alive \cup {"none", "zombie", "gone"}]
          /\ open \in [Clients -> SUBSET {"server", "child"}]

\* The server is at work on a connection it has open, and has no child for it
\* before it forks.
ServerInv == /\ server \in {"fork", "close"} => fd \in Clients /\ "server" \in open[fd]
             /\ server = "fork" => child[fd] = "none"
             /\ server = "socket" => queue = {} /\ \A c \in Clients : child[c] = "none"

\* A child has its connection open until it ends, and nobody has one that waits
\* in the queue or was never made.
OpenInv == \A c \in Clients :
  /\ child[c] \in Alive => "child" \in open[c]
  /\ c \in queue => open[c] = {} /\ child[c] = "none"
  /\ client[c] \in {"absent", "connect"} => c \notin queue \cup bytes /\ open[c] = {} /\ child[c] = "none"

\* A client that has left with nothing was hung up on for good.
LeftInv == \A c \in Clients :
  client[c] = "exited" /\ c \notin bytes =>
    /\ open[c] = {}
    /\ c \in queue => server = "exited" /\ \A d \in Clients : child[d] \notin Alive

IInv == TypeOK /\ ServerInv /\ OpenInv /\ LeftInv

\* The program starts in IInv, and one that is not started is in it.
LEMMA InitInv == Init \/ TimeEnded => IInv
BY NoFdAssumption DEF Init, TimeEnded, IInv, TypeOK, ServerInv, OpenInv, LeftInv, Alive

\* The steps of a client: it leaves with nothing where the connection is closed,
\* or in a queue that nobody accepts from any more.
LEMMA ClientStep == ASSUME IInv, NEW c \in Clients, Connect(c) \/ Read(c) PROVE IInv'
<1>1. UNCHANGED <<server, fd, child, open, bytes>>
  BY DEF Connect, Read
<1>2. CASE Connect(c)
  <2>1. TypeOK'
    BY <1>1, <1>2 DEF IInv, TypeOK, Connect
  <2>2. queue' # queue => queue' = queue \cup {c} /\ server # "socket"
    BY <1>2 DEF IInv, ServerInv, Connect, Listening
  <2>3. ServerInv'
    BY <1>1, <2>2 DEF IInv, ServerInv
  <2>4. OpenInv'
    BY <1>1, <1>2 DEF IInv, TypeOK, OpenInv, Connect
  <2>5. LeftInv'
    BY <1>1, <1>2 DEF IInv, TypeOK, OpenInv, LeftInv, Connect
  <2>6. QED
    BY <2>1, <2>3, <2>4, <2>5 DEF IInv
<1>3. CASE Read(c)
  <2>1. queue' = queue /\ client[c] = "read" /\ client' = [client EXCEPT ![c] = "exited"]
    BY <1>3 DEF Read
  <2>2. TypeOK' /\ ServerInv' /\ OpenInv'
    BY <1>1, <2>1 DEF IInv, TypeOK, ServerInv, OpenInv
  <2>3. c \notin bytes => open[c] = {} /\ (c \in queue => ~Listening)
    BY <1>3 DEF Read, IInv, OpenInv
  <2>4. c \in queue /\ ~Listening => server = "exited" /\ \A d \in Clients : child[d] \notin Alive
    BY DEF Listening, Alive, IInv, TypeOK, ServerInv
  <2>5. LeftInv'
    BY <1>1, <2>1, <2>3, <2>4 DEF IInv, TypeOK, LeftInv
  <2>6. QED
    BY <2>2, <2>5 DEF IInv
<1>4. QED
  BY <1>2, <1>3

\* The steps of the server: a connection it accepts has a client that waits.
LEMMA ServerStep == ASSUME IInv, Server \/ Accept PROVE IInv'
<1>1. CASE MakeSocket
  BY <1>1 DEF MakeSocket, IInv, TypeOK, ServerInv, OpenInv, LeftInv
<1>2. CASE Accept
  <2>1. UNCHANGED <<client, child, bytes>> /\ server = "accept"
    BY <1>2 DEF Accept
  <2>2. CASE server' = "exited" /\ UNCHANGED <<queue, fd, open>>
    BY <2>1, <2>2 DEF IInv, TypeOK, ServerInv, OpenInv, LeftInv
  <2>3. CASE \E c \in queue : /\ queue' = queue \ {c} /\ fd' = c
                              /\ open' = [open EXCEPT ![c] = {"server"}] /\ server' = "fork"
    <3>1. PICK c \in queue : /\ queue' = queue \ {c} /\ fd' = c
                             /\ open' = [open EXCEPT ![c] = {"server"}] /\ server' = "fork"
      BY <2>3
    <3>2. c \in Clients /\ child[c] = "none" /\ client[c] # "connect"
      BY <3>1 DEF IInv, TypeOK, OpenInv
    <3>3. \A d \in queue : ~(client[d] = "exited" /\ d \notin bytes)
      BY <2>1 DEF IInv, TypeOK, LeftInv
    <3>4. TypeOK' /\ ServerInv'
      BY <2>1, <3>1, <3>2 DEF IInv, TypeOK, ServerInv
    <3>5. OpenInv'
      BY <2>1, <3>1, <3>2 DEF IInv, TypeOK, OpenInv, Alive
    <3>6. LeftInv'
      BY <2>1, <3>1, <3>2, <3>3 DEF IInv, TypeOK, LeftInv
    <3>7. QED
      BY <3>4, <3>5, <3>6 DEF IInv
  <2>4. QED
    BY <1>2, <2>2, <2>3 DEF Accept
<1>3. CASE Fork
  <2>1. UNCHANGED <<client, queue, fd, bytes>> /\ server = "fork" /\ server' = "close" /\ fd \in Clients
    BY <1>3 DEF Fork, IInv, ServerInv
  <2>2. "server" \in open[fd] /\ child[fd] = "none" /\ fd \notin queue
        /\ client[fd] # "connect" /\ ~(client[fd] = "exited" /\ fd \notin bytes)
    BY <2>1 DEF IInv, TypeOK, ServerInv, OpenInv, LeftInv
  <2>3. CASE UNCHANGED <<child, open>>
    BY <2>1, <2>2, <2>3 DEF IInv, TypeOK, ServerInv, OpenInv, LeftInv
  <2>4. CASE child' = [child EXCEPT ![fd] = "dup2"] /\ open' = [open EXCEPT ![fd] = @ \cup {"child"}]
    <3>1. TypeOK' /\ ServerInv'
      BY <2>1, <2>2, <2>4 DEF IInv, TypeOK, ServerInv, Alive
    <3>2. OpenInv'
      BY <2>1, <2>2, <2>4 DEF IInv, TypeOK, OpenInv, Alive
    <3>3. \A d \in queue : ~(client[d] = "exited" /\ d \notin bytes)
      BY <2>1 DEF IInv, TypeOK, LeftInv
    <3>4. LeftInv'
      BY <2>1, <2>2, <2>4, <3>3 DEF IInv, TypeOK, LeftInv
    <3>5. QED
      BY <3>1, <3>2, <3>4 DEF IInv
  <2>5. QED
    BY <1>3, <2>3, <2>4 DEF Fork
<1>4. CASE Close
  <2>1. /\ UNCHANGED <<client, queue, child, bytes>> /\ server = "close" /\ server' = "accept" /\ fd' = NoFd
        /\ open' = [open EXCEPT ![fd] = @ \ {"server"}] /\ fd \in Clients
    BY <1>4 DEF Close, IInv, ServerInv
  <2>2. TypeOK' /\ ServerInv'
    BY <2>1 DEF IInv, TypeOK, ServerInv
  <2>3. OpenInv' /\ LeftInv'
    BY <2>1 DEF IInv, TypeOK, OpenInv, LeftInv
  <2>4. QED
    BY <2>2, <2>3 DEF IInv
<1>5. CASE child_waiter
  <2>1. /\ UNCHANGED <<client, queue, server, fd, open, bytes>> /\ server # "exited"
        /\ child' = [c \in Clients |-> IF c \in Zombies THEN "gone" ELSE child[c]]
    BY <1>5 DEF child_waiter
  <2>2. \A c \in Clients : child'[c] = child[c] \/ (child[c] = "zombie" /\ child'[c] = "gone")
    BY <2>1 DEF Zombies
  <2>3. TypeOK'
    BY <2>1, <2>2 DEF IInv, TypeOK
  <2>4. ServerInv' /\ OpenInv' /\ LeftInv'
    BY <2>1, <2>2 DEF IInv, TypeOK, ServerInv, OpenInv, LeftInv, Alive
  <2>5. QED
    BY <2>3, <2>4 DEF IInv
<1>6. QED
  BY <1>1, <1>2, <1>3, <1>4, <1>5 DEF Server

\* The steps of a child: it lets go of the connection when it ends.
LEMMA ChildStep == ASSUME IInv, NEW c \in Clients, Child(c) PROVE IInv'
<1>1. /\ UNCHANGED <<client, queue, server, fd>>
      /\ child[c] \in Alive /\ \E s \in {"exec", "exit", "zombie"} : child' = [child EXCEPT ![c] = s]
      /\ bytes' \in {bytes, bytes \cup {c}}
      /\ \/ open' = open /\ child'[c] \in Alive
         \/ open' = [open EXCEPT ![c] = @ \ {"child"}] /\ child'[c] = "zombie"
  BY DEF Child, Dup2, Exec, Exit, Alive, IInv, TypeOK
<1>2. client[c] # "connect" /\ c \notin queue /\ server # "socket"
  BY <1>1 DEF IInv, TypeOK, OpenInv, ServerInv, Alive
<1>3. server = "fork" => fd # c
  BY <1>1 DEF IInv, ServerInv, Alive
<1>4. TypeOK'
  BY <1>1 DEF IInv, TypeOK, Alive
<1>5. ServerInv'
  BY <1>1, <1>2, <1>3 DEF IInv, TypeOK, ServerInv
<1>6. OpenInv'
  BY <1>1, <1>2 DEF IInv, TypeOK, OpenInv, Alive
<1>7. LeftInv'
  BY <1>1, <1>2 DEF IInv, TypeOK, LeftInv
<1>8. QED
  BY <1>4, <1>5, <1>6, <1>7 DEF IInv

\* Every state of the server and its clients is in IInv: whoever can still write
\* to a connection has it open, and whoever left with nothing is forgotten.
THEOREM Invariance == OneSpec => []IInv
<1>1. IInv /\ [OneNext]_<<vars, web, first>> => IInv'
  <2>1. SUFFICES ASSUME IInv, Next \/ UNCHANGED vars PROVE IInv'
    BY DEF OneNext
  <2>2. CASE UNCHANGED vars
    BY <2>1, <2>2 DEF vars, IInv, TypeOK, ServerInv, OpenInv, LeftInv
  <2>3. QED
    BY <2>1, <2>2, ServerStep, ClientStep, ChildStep DEF Next
<1>2. OneInit => IInv
  BY InitInv DEF OneInit
<1>3. QED
  BY <1>1, <1>2, PTL DEF OneSpec
-----------------------------------------------------------------------------
seen == [c \in Clients |-> Status(c)]

\* A step that changes what one client sees, as Service allows it, is a step of Service.
LEMMA OneSees ==
  ASSUME NEW c \in Clients, \A d \in Clients \ {c} : Status(d)' = Status(d),
         <<Status(c), Status(c)'>> \in {<<"idle", "waiting">>, <<"idle", "refused">>, <<"waiting", "served">>,
                                        <<"waiting", "refused">>, <<"served", "answered">>}
  PROVE  Promise!Next
<1>1. seen' = [seen EXCEPT ![c] = Status(c)'] /\ seen[c] = Status(c)
  BY DEF seen
<1>2. Promise!Connect(c) \/ Promise!Serve(c) \/ Promise!Finish(c)
  BY <1>1 DEF seen, Promise!Connect, Promise!Serve, Promise!Finish, Promise!Become
<1>3. QED
  BY <1>2 DEF Promise!Next

\* What the clients see changes only as Service says.
LEMMA StepImplements == IInv /\ [Next]_vars => [Promise!Next]_seen
<1>1. SUFFICES ASSUME IInv, [Next]_vars PROVE Promise!Next \/ seen' = seen
  BY DEF seen
<1>2. CASE UNCHANGED <<client, bytes>>
  BY <1>2 DEF seen, Status
<1>3. ASSUME NEW c \in Clients, Connect(c) PROVE Promise!Next
  <2>1. client[c] = "connect" /\ c \notin bytes /\ bytes' = bytes /\ client \in [Clients -> {"absent", "connect", "read", "exited"}]
    BY <1>1, <1>3 DEF Connect, IInv, TypeOK, OpenInv
  <2>2. client' = [client EXCEPT ![c] = "read"] \/ client' = [client EXCEPT ![c] = "exited"]
    BY <1>3 DEF Connect
  <2>3. (\A d \in Clients \ {c} : Status(d)' = Status(d)) /\ Status(c) = "idle" /\ Status(c)' \in {"waiting", "refused"}
    BY <2>1, <2>2 DEF Status
  <2>4. QED
    BY <2>3, OneSees
<1>4. ASSUME NEW c \in Clients, Read(c) PROVE Promise!Next
  <2>1. client[c] = "read" /\ bytes' = bytes /\ client \in [Clients -> {"absent", "connect", "read", "exited"}]
        /\ client' = [client EXCEPT ![c] = "exited"]
    BY <1>1, <1>4 DEF Read, IInv, TypeOK
  <2>2. /\ \A d \in Clients \ {c} : Status(d)' = Status(d)
        /\ c \in bytes => Status(c) = "served" /\ Status(c)' = "answered"
        /\ c \notin bytes => Status(c) = "waiting" /\ Status(c)' = "refused"
    BY <2>1 DEF Status
  <2>3. QED
    BY <2>2, OneSees
<1>5. ASSUME NEW c \in Clients, Exec(c), c \notin bytes, bytes' = bytes \cup {c} PROVE Promise!Next
  <2>1. client' = client /\ child[c] = "exec"
    BY <1>5 DEF Exec
  <2>2. client[c] = "read"
    BY <1>1, <1>5, <2>1 DEF IInv, TypeOK, OpenInv, LeftInv, Alive
  <2>3. (\A d \in Clients \ {c} : Status(d)' = Status(d)) /\ Status(c) = "waiting" /\ Status(c)' = "served"
    BY <1>5, <2>1, <2>2 DEF Status
  <2>4. QED
    BY <2>3, OneSees
<1>6. ASSUME NEW c \in Clients, Child(c) PROVE Promise!Next \/ UNCHANGED <<client, bytes>>
  <2>1. CASE Exec(c)
    BY <1>5, <2>1 DEF Exec
  <2>2. QED
    BY <1>6, <2>1 DEF Child, Dup2, Exit
<1>7. Server \/ Accept => UNCHANGED <<client, bytes>>
  BY DEF Server, MakeSocket, Fork, Close, child_waiter, Accept
<1>8. QED
  BY <1>1, <1>2, <1>3, <1>4, <1>6, <1>7 DEF Next, vars

\* The server implements the safety part of Service: no client is answered and hung
\* up on, or gets an answer it has not connected for.
THEOREM ImplementsService == OneSpec => Promise!Init /\ [][Promise!Next]_seen
<1>1. OneInit => Promise!Init
  <2>1. Init \/ TimeEnded => Promise!Init
    BY DEF Init, TimeEnded, Promise!Init, Status
  <2>2. QED
    BY <2>1 DEF OneInit
<1>2. [OneNext]_<<vars, web, first>> => [Next]_vars
  BY DEF OneNext
<1>3. QED
  BY <1>1, <1>2, StepImplements, Invariance, PTL DEF OneSpec
-----------------------------------------------------------------------------
(* The first time server, which answers one client after the other.        *)

OldInv ==
  /\ caller \in [Clients -> {"absent", "connect", "read", "exited"}]
  /\ waiting \subseteq Clients /\ told \subseteq Clients
  /\ sequential \in {"socket", "accept", "fdopen", "fclose", "exited"}
  /\ sequential \in {"fdopen", "fclose"} => connection \in Clients /\ connection \notin told
  /\ sequential \in {"socket", "accept"} => connection \notin Clients
  /\ sequential = "socket" => waiting = {}
  /\ \A c \in Clients : /\ caller[c] \in {"absent", "connect"} => c \notin waiting \cup told /\ connection # c
                        /\ c \in waiting => c \notin told /\ connection # c
                        /\ caller[c] = "exited" /\ c \notin told =>
                             (c \notin waiting /\ connection # c) \/ sequential = "exited"

\* It starts in OldInv, and one that is not started is in it.
LEMMA OldInitInv == Old!Init \/ OldEnded => OldInv
BY NoFdAssumption DEF Old!Init, OldEnded, OldInv

\* A client leaves with nothing only where the server will not come to it any more.
LEMMA OldInvStep == ASSUME OldInv, Old!Next PROVE OldInv'
<1>1. CASE Old!Server \/ Old!Accept
  <2>1. UNCHANGED caller
    BY <1>1 DEF Old!Server, Old!MakeSocket, Old!Fdopen, Old!Fclose, Old!Accept
  <2>2. CASE Old!MakeSocket \/ Old!Fdopen
    BY <2>1, <2>2 DEF Old!MakeSocket, Old!Fdopen, OldInv
  <2>3. CASE Old!Fclose
    BY <2>1, <2>3, NoFdAssumption DEF Old!Fclose, OldInv
  <2>4. CASE Old!Accept
    BY <2>1, <2>4 DEF Old!Accept, OldInv
  <2>5. QED
    BY <1>1, <2>2, <2>3, <2>4 DEF Old!Server
<1>2. ASSUME NEW c \in Clients, Old!Connect(c) PROVE OldInv'
  <2>1. /\ UNCHANGED <<sequential, connection, told>> /\ caller[c] = "connect"
        /\ \/ /\ sequential \in {"accept", "fdopen", "fclose"} /\ waiting' = waiting \cup {c}
              /\ caller' = [caller EXCEPT ![c] = "read"]
           \/ waiting' = waiting /\ caller' = [caller EXCEPT ![c] = "exited"]
    BY <1>2 DEF Old!Connect, Old!Listening
  <2>2. QED
    BY <2>1 DEF OldInv
<1>3. ASSUME NEW c \in Clients, Old!Read(c) PROVE OldInv'
  <2>1. /\ UNCHANGED <<waiting, sequential, connection, told>> /\ caller[c] = "read"
        /\ caller' = [caller EXCEPT ![c] = "exited"]
        /\ c \in told \/ (c \notin waiting /\ connection # c) \/ sequential \in {"socket", "exited"}
    BY <1>3 DEF Old!Read, Old!Listening, OldInv
  <2>2. c \in waiting => sequential # "socket"
    BY <2>1 DEF OldInv
  <2>3. QED
    BY <2>1, <2>2 DEF OldInv
<1>4. QED
  BY <1>1, <1>2, <1>3 DEF Old!Next

heard == [c \in Clients |-> Old!Status(c)]

\* As OneSees, for a client of the first time server.
LEMMA OneHears ==
  ASSUME NEW c \in Clients, \A d \in Clients \ {c} : Old!Status(d)' = Old!Status(d),
         <<Old!Status(c), Old!Status(c)'>> \in {<<"idle", "waiting">>, <<"idle", "refused">>, <<"waiting", "served">>,
                                        <<"waiting", "refused">>, <<"served", "answered">>}
  PROVE  Old!Promise!Next
<1>1. heard' = [heard EXCEPT ![c] = Old!Status(c)'] /\ heard[c] = Old!Status(c)
  BY DEF heard
<1>2. Old!Promise!Connect(c) \/ Old!Promise!Serve(c) \/ Old!Promise!Finish(c)
  BY <1>1 DEF heard, Old!Promise!Connect, Old!Promise!Serve, Old!Promise!Finish, Old!Promise!Become
<1>3. QED
  BY <1>2 DEF Old!Promise!Next

\* What the clients of the first time server see changes only as Service says.
LEMMA OldStep == OldInv /\ Old!Next => [Old!Promise!Next]_heard
<1>1. SUFFICES ASSUME OldInv, Old!Next PROVE Old!Promise!Next \/ heard' = heard
  BY DEF heard
<1>2. CASE UNCHANGED <<caller, told>>
  BY <1>2 DEF heard, Old!Status
<1>3. ASSUME NEW c \in Clients, Old!Connect(c) PROVE Old!Promise!Next
  <2>1. /\ caller[c] = "connect" /\ c \notin told /\ told' = told
        /\ caller' = [caller EXCEPT ![c] = "read"] \/ caller' = [caller EXCEPT ![c] = "exited"]
    BY <1>1, <1>3 DEF Old!Connect, OldInv
  <2>2. /\ \A d \in Clients \ {c} : Old!Status(d)' = Old!Status(d)
        /\ Old!Status(c) = "idle" /\ Old!Status(c)' \in {"waiting", "refused"}
    BY <1>1, <2>1 DEF OldInv, Old!Status
  <2>3. QED
    BY <2>2, OneHears
<1>4. ASSUME NEW c \in Clients, Old!Read(c) PROVE Old!Promise!Next
  <2>1. caller[c] = "read" /\ told' = told /\ caller' = [caller EXCEPT ![c] = "exited"]
    BY <1>4 DEF Old!Read
  <2>2. /\ \A d \in Clients \ {c} : Old!Status(d)' = Old!Status(d)
        /\ c \in told => Old!Status(c) = "served" /\ Old!Status(c)' = "answered"
        /\ c \notin told => Old!Status(c) = "waiting" /\ Old!Status(c)' = "refused"
    BY <1>1, <2>1 DEF OldInv, Old!Status
  <2>3. QED
    BY <2>2, OneHears
<1>5. CASE Old!Fclose
  <2>1. /\ caller' = caller /\ told' = told \cup {connection} /\ connection \in Clients
        /\ connection \notin told /\ caller[connection] = "read"
    BY <1>1, <1>5 DEF Old!Fclose, OldInv
  <2>2. /\ \A d \in Clients \ {connection} : Old!Status(d)' = Old!Status(d)
        /\ Old!Status(connection) = "waiting" /\ (caller'[connection] = "read" /\ connection \in told')
    BY <2>1 DEF Old!Status
  <2>3. ASSUME NEW c \in Clients, c = connection PROVE Old!Promise!Next
    <3>1. Old!Status(c)' = "served" /\ Old!Status(c) = "waiting" /\ \A d \in Clients \ {c} : Old!Status(d)' = Old!Status(d)
      BY <2>1, <2>2, <2>3 DEF Old!Status
    <3>2. QED
      BY <3>1, OneHears
  <2>4. QED
    BY <2>1, <2>3
<1>6. CASE Old!MakeSocket \/ Old!Fdopen \/ Old!Accept
  BY <1>2, <1>6 DEF Old!MakeSocket, Old!Fdopen, Old!Accept
<1>7. QED
  BY <1>1, <1>3, <1>4, <1>5, <1>6 DEF Old!Next, Old!Server

\* The first time server implements the safety part of Service too.
THEOREM SequentialImplementsService == OneSpec => Old!Promise!Init /\ [][Old!Promise!Next]_heard
<1>1. OneInit => OldInv /\ Old!Promise!Init
  <2>1. OneInit => OldInv
    BY OldInitInv DEF OneInit
  <2>2. Old!Init \/ OldEnded => Old!Promise!Init
    BY DEF Old!Init, OldEnded, Old!Promise!Init, Old!Status
  <2>3. QED
    BY <2>1, <2>2 DEF OneInit
<1>2. OldInv /\ [OneNext]_<<vars, web, first>> => OldInv' /\ [Old!Promise!Next]_heard
  <2>1. CASE UNCHANGED first
    BY <2>1 DEF first, OldInv, heard, Old!Status
  <2>2. CASE Old!Next
    BY <2>2, OldInvStep, OldStep
  <2>3. QED
    BY <2>1, <2>2 DEF OneNext
<1>3. QED
  BY <1>1, <1>2, PTL DEF OneSpec
-----------------------------------------------------------------------------
(* The web server.                                                         *)

\* From the return of accept to the end of the answer.
Working == {"fgets", "read_til_crnl", "process_rq", "answer"}

WebTypeOK ==
  /\ browser \in [Clients -> {"connect", "connected", "line sent", "all sent", "silent", "finished"}]
  /\ wqueue \subseteq Clients
  /\ pc \in [Web!Servers -> Working \cup {"none", "accept", "fclose", "exited", "crashed"}]
  /\ wfd \in [Web!Servers -> Clients \cup {None}]
  /\ request \in [Web!Servers -> Clients \cup {None}]
  /\ wopen \in [Clients -> SUBSET Web!Servers]
  /\ answers \subseteq Clients \X (Clients \cup {None}) \X Web!Servers

\* Nobody works on, or has answered, a connection that waits or was never made.
Unmet == /\ \A c \in wqueue : browser[c] # "connect"
         /\ \A c \in Clients : c \in wqueue \/ browser[c] = "connect" =>
              (\A p \in Web!Servers : wfd[p] # c) /\ (\A x \in answers : x[1] # c)

\* A connection has one process at most that works on it, and is not answered yet.
OneWorks == \A p \in Web!Servers : pc[p] \in Working =>
              /\ wfd[p] \in Clients
              /\ \A x \in answers : x[1] # wfd[p]
              /\ \A q \in Web!Servers : q # p /\ pc[q] \in Working => wfd[q] # wfd[p]

\* Behind fgets the client has sent its line or hung up, and so it has once it is
\* answered.
Heard == /\ \A p \in Web!Servers : pc[p] \in Working \ {"fgets"} =>
              browser[wfd[p]] # "connected" /\ (browser[wfd[p]] # "silent" => request[p] = wfd[p])
         /\ \A x \in answers : browser[x[1]] # "connected"

WebInv == WebTypeOK /\ Unmet /\ OneWorks /\ Heard /\ OwnAnswer

\* The web server starts in WebInv, and what stands for one that is not started is
\* in it too.
LEMMA WebInit == Web!Init \/ WebEnded => WebInv
<1> USE WebAssumption DEF Web!Servers
<1>1. CASE Web!Init
  BY <1>1 DEF Web!Init, WebInv, WebTypeOK, Unmet, OneWorks, Heard, Working, OwnAnswer, Web!OneAnswer,
              Web!StaleOnlyToSilent
<1>2. CASE WebEnded
  BY <1>2 DEF WebEnded, WebInv, WebTypeOK, Unmet, OneWorks, Heard, Working, OwnAnswer, Web!OneAnswer,
              Web!StaleOnlyToSilent
<1>3. QED
  BY <1>1, <1>2

\* The steps of a client: one that hangs up has not been heard, and one that was
\* silent stays so.
LEMMA BrowserStep ==
  ASSUME WebInv, NEW c \in Clients, Web!Connect(c) \/ Web!Send(c) \/ Web!HangUp(c) \/ Web!Receive(c)
  PROVE  WebInv'
<1>1. UNCHANGED <<pc, wfd, request, wopen, answers>>
  BY DEF Web!Connect, Web!Send, Web!HangUp, Web!Receive, Web!server
<1>2. /\ browser[c] # "silent"
      /\ \E s \in {"connected", "line sent", "all sent", "silent", "finished"} :
           /\ browser' = [browser EXCEPT ![c] = s]
           /\ s = "connected" => browser[c] = "connect" /\ wqueue' = wqueue \cup {c}
           /\ s # "connected" => browser[c] # "connect" /\ wqueue' = wqueue
           /\ s = "silent" => browser[c] = "connected"
  BY DEF Web!Connect, Web!Send, Web!HangUp, Web!Receive
<1>3. WebTypeOK'
  BY <1>1, <1>2 DEF WebInv, WebTypeOK
<1>4. Unmet'
  BY <1>1, <1>2 DEF WebInv, WebTypeOK, Unmet
<1>5. OneWorks'
  BY <1>1 DEF WebInv, OneWorks
<1>6. Heard'
  <2>1. \A d \in Clients : /\ d # c => browser'[d] = browser[d]
                           /\ browser[d] \notin {"connect", "connected"} =>
                                browser'[d] # "connected" /\ (browser[d] = "silent" <=> browser'[d] = "silent")
    BY <1>2 DEF WebInv, WebTypeOK
  <2>2. \A d \in Clients : browser[d] = "connect" =>
          (\A p \in Web!Servers : wfd[p] # d) /\ (\A x \in answers : x[1] # d)
    BY DEF WebInv, Unmet
  <2>3. (\A p \in Web!Servers : pc[p] \in Working => wfd[p] \in Clients) /\ (\A x \in answers : x[1] \in Clients)
    BY DEF WebInv, WebTypeOK, OneWorks
  <2>4. QED
    BY <1>1, <2>1, <2>2, <2>3 DEF WebInv, Heard
<1>7. OwnAnswer'
  BY <1>1, <1>2 DEF WebInv, WebTypeOK, Heard, OwnAnswer, Web!OneAnswer, Web!StaleOnlyToSilent
<1>8. QED
  BY <1>3, <1>4, <1>5, <1>6, <1>7 DEF WebInv

\* accept gives a process a connection that nobody has met.
LEMMA AcceptStep == ASSUME WebInv, NEW p \in Web!Servers, Web!Accept(p) PROVE WebInv'
<1>1. UNCHANGED <<browser, request, answers>> /\ pc[p] = "accept"
  BY DEF Web!Accept, Web!Goto
<1>2. CASE pc' = [pc EXCEPT ![p] = "crashed"] /\ UNCHANGED <<wqueue, wfd, wopen>>
  BY <1>1, <1>2 DEF WebInv, WebTypeOK, Unmet, OneWorks, Heard, Working, OwnAnswer, Web!OneAnswer,
                    Web!StaleOnlyToSilent
<1>3. ASSUME NEW c \in wqueue, wqueue' = wqueue \ {c}, pc' = [pc EXCEPT ![p] = "fgets"],
             wfd' = [wfd EXCEPT ![p] = c], wopen' = [wopen EXCEPT ![c] = {p}]
      PROVE  WebInv'
  <2>1. c \in Clients /\ browser[c] # "connect" /\ (\A q \in Web!Servers : wfd[q] # c)
        /\ (\A x \in answers : x[1] # c)
    BY DEF WebInv, WebTypeOK, Unmet
  <2>2. WebTypeOK'
    BY <1>1, <1>3, <2>1 DEF WebInv, WebTypeOK, Working
  <2>3. Unmet'
    BY <1>1, <1>3, <2>1 DEF WebInv, WebTypeOK, Unmet
  <2>4. OneWorks'
    BY <1>1, <1>3, <2>1 DEF WebInv, WebTypeOK, OneWorks, Working
  <2>5. Heard' /\ OwnAnswer'
    BY <1>1, <1>3 DEF WebInv, WebTypeOK, Heard, Working, OwnAnswer, Web!OneAnswer, Web!StaleOnlyToSilent
  <2>6. QED
    BY <2>2, <2>3, <2>4, <2>5 DEF WebInv
<1>4. QED
  BY <1>2, <1>3 DEF Web!Accept, Web!Goto

\* The steps in which no connection changes hands: a process that has read a line
\* has its client's, unless the client is silent, and a process may stop working.
LEMMA LoopStep ==
  ASSUME WebInv, NEW p \in Web!Servers,
         Web!Fgets(p) \/ Web!read_til_crnl(p) \/ Web!Fork(p) \/ Web!Fclose(p)
  PROVE  WebInv'
<1>1. UNCHANGED <<browser, wqueue, answers>>
  BY DEF Web!Fgets, Web!read_til_crnl, Web!Fork, Web!Fclose
<1>2. CASE Web!Fgets(p)
  <2>1. /\ UNCHANGED <<wfd, wopen>> /\ pc[p] = "fgets" /\ pc' = [pc EXCEPT ![p] = "read_til_crnl"]
        /\ \/ request' = [request EXCEPT ![p] = wfd[p]] /\ browser[wfd[p]] \in {"line sent", "all sent"}
           \/ request' = request /\ browser[wfd[p]] = "silent"
    BY <1>2 DEF Web!Fgets, Web!Goto
  <2>2. wfd[p] \in Clients
    BY <2>1 DEF WebInv, OneWorks, Working
  <2>3. WebTypeOK' /\ Unmet'
    BY <1>1, <2>1, <2>2 DEF WebInv, WebTypeOK, Unmet, Working
  <2>4. OneWorks'
    BY <1>1, <2>1 DEF WebInv, WebTypeOK, OneWorks, Working
  <2>5. Heard' /\ OwnAnswer'
    BY <1>1, <2>1 DEF WebInv, WebTypeOK, Heard, Working, OwnAnswer, Web!OneAnswer, Web!StaleOnlyToSilent
  <2>6. QED
    BY <2>3, <2>4, <2>5 DEF WebInv
<1>3. CASE Web!read_til_crnl(p) \/ Web!Fork(p)
  <2>1. /\ UNCHANGED <<wfd, request, wopen>> /\ pc[p] \in {"read_til_crnl", "process_rq"}
        /\ \E s \in {"process_rq", "fclose"} : pc' = [pc EXCEPT ![p] = s]
    BY <1>3 DEF Web!read_til_crnl, Web!Fork, Web!Goto
  <2>2. WebTypeOK' /\ Unmet'
    BY <1>1, <2>1 DEF WebInv, WebTypeOK, Unmet, Working
  <2>3. OneWorks' /\ Heard' /\ OwnAnswer'
    BY <1>1, <2>1 DEF WebInv, WebTypeOK, OneWorks, Heard, Working, OwnAnswer, Web!OneAnswer,
                      Web!StaleOnlyToSilent
  <2>4. QED
    BY <2>2, <2>3 DEF WebInv
<1>4. CASE Web!Fclose(p)
  <2>1. /\ UNCHANGED request /\ pc' = [pc EXCEPT ![p] = "accept"] /\ wfd' = [wfd EXCEPT ![p] = None]
        /\ wopen' = [wopen EXCEPT ![wfd[p]] = @ \ {p}]
    BY <1>4 DEF Web!Fclose, Web!Goto
  <2>2. WebTypeOK' /\ Unmet'
    BY <1>1, <2>1, WebAssumption DEF WebInv, WebTypeOK, Unmet, Working
  <2>3. OneWorks' /\ Heard' /\ OwnAnswer'
    BY <1>1, <2>1 DEF WebInv, WebTypeOK, OneWorks, Heard, Working, OwnAnswer, Web!OneAnswer,
                      Web!StaleOnlyToSilent
  <2>4. QED
    BY <2>2, <2>3 DEF WebInv
<1>5. QED
  BY <1>2, <1>3, <1>4

\* The child takes the connection over from its parent, with the request.
LEMMA ForkStep ==
  ASSUME WebInv, NEW p \in Web!Servers, NEW q \in Web!Servers, Web!ForkChild(p, q)
  PROVE  WebInv'
<1>1. /\ UNCHANGED <<browser, wqueue, answers>> /\ pc[p] = "process_rq" /\ pc[q] = "none" /\ p # q
      /\ pc' = [pc EXCEPT ![p] = "fclose", ![q] = "answer"]
      /\ wfd' = [wfd EXCEPT ![q] = wfd[p]] /\ request' = [request EXCEPT ![q] = request[p]]
      /\ wopen' = [wopen EXCEPT ![wfd[p]] = @ \cup {q}]
  BY DEF Web!ForkChild
<1>2. wfd[p] \in Clients
  BY <1>1 DEF WebInv, OneWorks, Working
<1>3. WebTypeOK'
  BY <1>1, <1>2 DEF WebInv, WebTypeOK, Working
<1>4. Unmet'
  BY <1>1, <1>2 DEF WebInv, WebTypeOK, Unmet
<1>5. OneWorks'
  <2>1. /\ pc'[p] = "fclose" /\ pc'[q] = "answer" /\ wfd'[q] = wfd[p]
        /\ \A r \in Web!Servers : r \notin {p, q} => pc'[r] = pc[r] /\ wfd'[r] = wfd[r]
    BY <1>1 DEF WebInv, WebTypeOK
  <2>2. \A r \in Web!Servers : r # p /\ pc[r] \in Working => wfd[r] # wfd[p]
    BY <1>1 DEF WebInv, OneWorks, Working
  <2>3. (\A x \in answers : x[1] # wfd[p]) /\ "fclose" \notin Working
    BY <1>1 DEF WebInv, OneWorks, Working
  <2>4. SUFFICES ASSUME NEW r \in Web!Servers, pc'[r] \in Working
                 PROVE  /\ wfd'[r] \in Clients /\ \A x \in answers : x[1] # wfd'[r]
                        /\ \A s \in Web!Servers : s # r /\ pc'[s] \in Working => wfd'[s] # wfd'[r]
    BY <1>1 DEF OneWorks
  <2>5. CASE r = q
    BY <1>2, <2>1, <2>2, <2>3, <2>5
  <2>6. CASE r # q
    <3>1. r \notin {p, q} /\ wfd'[r] = wfd[r] /\ pc[r] \in Working /\ wfd[r] # wfd[p]
      BY <2>1, <2>2, <2>3, <2>4, <2>6
    <3>2. \A s \in Web!Servers : s # r /\ pc[s] \in Working => wfd[s] # wfd[r]
      BY <3>1 DEF WebInv, OneWorks
    <3>3. wfd[r] \in Clients /\ \A x \in answers : x[1] # wfd[r]
      BY <3>1 DEF WebInv, OneWorks
    <3>4. QED
      BY <2>1, <2>3, <3>1, <3>2, <3>3
  <2>7. QED
    BY <2>5, <2>6
<1>6. Heard' /\ OwnAnswer'
  BY <1>1 DEF WebInv, WebTypeOK, Heard, Working, OwnAnswer, Web!OneAnswer, Web!StaleOnlyToSilent
<1>7. QED
  BY <1>3, <1>4, <1>5, <1>6 DEF WebInv

\* The answer is the first to its connection, and the last.
LEMMA AnswerStep == ASSUME WebInv, NEW p \in Web!Servers, Web!Answer(p) PROVE WebInv'
<1>1. /\ UNCHANGED <<browser, wqueue, wfd, request>> /\ pc[p] = "answer"
      /\ \E s \in {"fclose", "exited"} : pc' = [pc EXCEPT ![p] = s]
      /\ \/ answers' = answers
         \/ answers' = answers \cup {<<wfd[p], request[p], p>>}
      /\ wopen' = wopen \/ wopen' = [wopen EXCEPT ![wfd[p]] = @ \ {p}]
  BY DEF Web!Answer, Web!Goto
<1>2. /\ wfd[p] \in Clients /\ \A x \in answers : x[1] # wfd[p]
      /\ browser[wfd[p]] # "connected" /\ (browser[wfd[p]] # "silent" => request[p] = wfd[p])
  BY <1>1 DEF WebInv, OneWorks, Heard, Working
<1>3. \A x \in answers' : x \in answers \/ (x = <<wfd[p], request[p], p>> /\ x[1] = wfd[p] /\ x[2] = request[p])
  BY <1>1
<1>4. /\ pc' \in [Web!Servers -> Working \cup {"none", "accept", "fclose", "exited", "crashed"}]
      /\ pc'[p] \notin Working /\ \A q \in Web!Servers : q # p => pc'[q] = pc[q]
  BY <1>1 DEF WebInv, WebTypeOK, Working
<1>5. WebTypeOK'
  <2>1. <<wfd[p], request[p], p>> \in Clients \X (Clients \cup {None}) \X Web!Servers
    BY <1>2 DEF WebInv, WebTypeOK
  <2>2. answers' \subseteq Clients \X (Clients \cup {None}) \X Web!Servers
    BY <1>1, <2>1 DEF WebInv, WebTypeOK
  <2>3. wopen \in [Clients -> SUBSET Web!Servers]
    BY DEF WebInv, WebTypeOK
  <2>4. wopen' \in [Clients -> SUBSET Web!Servers]
    BY <1>1, <1>2, <2>3
  <2>5. QED
    BY <1>1, <1>4, <2>2, <2>4 DEF WebInv, WebTypeOK
<1>6. Unmet'
  BY <1>1, <1>2, <1>3 DEF WebInv, Unmet
<1>7. OneWorks'
  BY <1>1, <1>2, <1>3, <1>4 DEF WebInv, OneWorks, Working
<1>8. Heard'
  BY <1>1, <1>2, <1>3, <1>4 DEF WebInv, Heard, Working
<1>9. OwnAnswer'
  BY <1>1, <1>2, <1>3 DEF WebInv, OwnAnswer, Web!OneAnswer, Web!StaleOnlyToSilent
<1>10. QED
  BY <1>5, <1>6, <1>7, <1>8, <1>9 DEF WebInv

\* For any number of clients and of processes in the loop, a connection is answered
\* once, and with its own request if it has sent one.
THEOREM WebAnswers == OneSpec => []OwnAnswer
<1>1. OneInit => WebInv
  BY WebInit DEF OneInit
<1>2. WebInv /\ [OneNext]_<<vars, web, first>> => WebInv'
  <2>1. SUFFICES ASSUME WebInv, [OneNext]_<<vars, web, first>> PROVE WebInv'
    OBVIOUS
  <2>2. CASE UNCHANGED web
    BY <2>1, <2>2 DEF web, WebInv, WebTypeOK, Unmet, OneWorks, Heard, OwnAnswer, Web!OneAnswer,
                      Web!StaleOnlyToSilent
  <2>3. CASE Web!Next
    BY <2>1, <2>3, BrowserStep, AcceptStep, LoopStep, ForkStep, AnswerStep DEF Web!Next, Web!Main
  <2>4. QED
    BY <2>1, <2>2, <2>3 DEF OneNext
<1>3. WebInv => OwnAnswer
  BY DEF WebInv
<1>4. QED
  BY <1>1, <1>2, <1>3, PTL DEF OneSpec
==============================================================================
