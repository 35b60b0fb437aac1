------------------------------ MODULE Datagrams ------------------------------
(***************************************************************************)
(* dgrecv.c, dgrecv2.c, dgsend.c and dgsend2.c on the sockets of dgram.c:  *)
(* a server receives datagrams and prints them, and that of dgrecv2 thanks *)
(* each sender for its message; the senders send one datagram each, and    *)
(* those of dgsend2 wait for the answer.                                   *)
(*                                                                         *)
(* A message is its length.  Datagrams may be lost, duplicated and         *)
(* reordered.  msglen is a size_t: the -1 of a failed recvfrom passes the  *)
(* test > 0, and the server goes on with what is in its buffer.            *)
(***************************************************************************)
EXTENDS Integers

CONSTANTS Senders,       \* the clients, dgsend and dgsend2
          Waiting,       \* those that wait for an answer: dgsend2
          Lengths,       \* the lengths of their messages
          BUFSIZ,
          MaxFaults,     \* bound on datagrams lost or duplicated and on errors
          Nobody         \* no address yet

ASSUME ConstantsAssumption ==
  /\ Waiting \subseteq Senders /\ Nobody \notin Senders
  /\ Lengths \subseteq Nat /\ BUFSIZ \in Nat \ {0}
  /\ MaxFaults \in Nat

VARIABLES pc,            \* where each sender is
          msg,           \* the length of its message
          reply,         \* the length the answer it printed names, or -1
          program,       \* which of the two the server is
          server,        \* where it is
          buf, saddr,    \* the length of the string in buf, and who sent it
          net,           \* datagrams on their way: <<kind, sender, length>>
          faults

senders == <<pc, msg, reply>>
vars == <<senders, program, server, buf, saddr, net, faults>>

Init == /\ pc = [s \in Senders |-> "socket"]
        /\ msg \in [Senders -> Lengths]
        /\ reply = [s \in Senders |-> -1]
        /\ program \in {"dgrecv", "dgrecv2"}
        /\ server = "socket"
        /\ buf = 0 /\ saddr = Nobody
        /\ net = {}
        /\ faults = 0
\* A datagram is delivered once, or stays in the net to be delivered again.
Deliver(d) == \/ net' = net \ {d} /\ UNCHANGED faults
              \/ faults < MaxFaults /\ faults' = faults + 1 /\ UNCHANGED net
-----------------------------------------------------------------------------
(* dgsend and dgsend2 *)

\* The socket and the address; the host name may be unknown to gethostbyname,
\* whose NULL make_internet_address uses before it compares it.
ClientSocket(s) == /\ pc[s] = "socket"
                   /\ \E next \in {"sendto", "exited", "crashed"} :
                        pc' = [pc EXCEPT ![s] = next]
                   /\ UNCHANGED <<msg, reply, program, server, buf, saddr, net, faults>>

Sendto(s) == /\ pc[s] = "sendto"
             /\ \/ /\ net' = net \cup {<<"message", s, msg[s]>>}
                   /\ pc' = [pc EXCEPT ![s] = IF s \in Waiting THEN "recv" ELSE "exited"]
                \/ /\ pc' = [pc EXCEPT ![s] = "exited"]          \* sendto failed
                   /\ UNCHANGED net
             /\ UNCHANGED <<msg, reply, program, server, buf, saddr, faults>>

Recv(s) == /\ pc[s] = "recv"
           /\ \E d \in {d \in net : d[1] = "reply" /\ d[2] = s} :
                /\ Deliver(d)
                /\ reply' = [reply EXCEPT ![s] = d[3]]
           /\ pc' = [pc EXCEPT ![s] = "exited"]
           /\ UNCHANGED <<msg, program, server, buf, saddr>>

Sender(s) == ClientSocket(s) \/ Sendto(s) \/ Recv(s)
-----------------------------------------------------------------------------
(* dgrecv and dgrecv2 *)

\* make_dgram_server_socket, which fails if the port is taken.
ServerSocket == /\ server = "socket"
                /\ server' \in {"recvfrom", "exited", "crashed"}
                /\ UNCHANGED <<senders, program, buf, saddr, net, faults>>

\* Slip, for RepliesTrue: the address of the sender kept from an earlier call.
ReceivedFrom(d) == /\ buf' = IF d[3] < BUFSIZ THEN d[3] ELSE BUFSIZ
                   /\ saddr' = IF saddr = Nobody THEN d[2] ELSE saddr

\* recvfrom fills buf, cuts what is longer than BUFSIZ, and sets saddr.
Received(d) == /\ buf' = IF d[3] < BUFSIZ THEN d[3] ELSE BUFSIZ
               /\ saddr' = d[2]

\* An empty datagram ends the loop and the server.  One of BUFSIZ bytes or more
\* has its end written behind buf, of which anything may come.
Recvfrom == /\ server = "recvfrom"
            /\ \E d \in {d \in net : d[1] = "message"} :
                 /\ Deliver(d)
                 /\ Received(d)
            /\ server' \in IF buf' = 0 THEN {"exited"}
                           ELSE IF buf' = BUFSIZ THEN {"reply", "crashed"}
                           ELSE {"reply"}
            /\ UNCHANGED <<senders, program>>

\* recvfrom fails: buf and saddr are as they were, and buf[-1] is written.
RecvfromFails == /\ server = "recvfrom"
                 /\ faults < MaxFaults
                 /\ faults' = faults + 1
                 /\ server' \in {"reply", "crashed"}
                 /\ UNCHANGED <<senders, program, buf, saddr, net>>

\* dgrecv prints the message and its sender, and that is all.
Printf == /\ program = "dgrecv" /\ server = "reply"
         /\ server' = "recvfrom"
         /\ UNCHANGED <<senders, program, buf, saddr, net, faults>>

\* Slip, for Answered: reply_to_sender left out.
PrintOnly == /\ server = "reply"
             /\ server' = "recvfrom"
             /\ UNCHANGED <<senders, program, buf, saddr, net, faults>>

\* dgrecv2 prints them too, and reply_to_sender answers.
Reply == /\ program = "dgrecv2" /\ server = "reply"
         /\ net' = IF saddr = Nobody THEN net ELSE net \cup {<<"reply", saddr, buf>>}
         /\ server' = "recvfrom"
         /\ UNCHANGED <<senders, program, buf, saddr, faults>>

Server == ServerSocket \/ Recvfrom \/ Printf \/ Reply
-----------------------------------------------------------------------------
Lose == /\ faults < MaxFaults
        /\ \E d \in net : net' = net \ {d}
        /\ faults' = faults + 1
        /\ UNCHANGED <<senders, program, server, buf, saddr>>

Next == \/ \E s \in Senders : Sender(s)
        \/ Server \/ RecvfromFails
        \/ Lose

\* Senders and server run; recvfrom need not fail and the network not err.
Fairness == WF_vars(Server) /\ \A s \in Senders : WF_vars(Sender(s))

Spec == Init /\ [][Next]_vars
FairSpec == Spec /\ Fairness
-----------------------------------------------------------------------------
\* The answer a sender prints is about its own message, as much of it as fits
\* in the buffer, though the server goes on with an old buffer when recvfrom
\* fails and datagrams overtake each other or come twice.
RepliesTrue == \A s \in Senders :
  reply[s] # -1 => reply[s] = IF msg[s] < BUFSIZ THEN msg[s] ELSE BUFSIZ

\* Where nothing is lost or fails and dgrecv2 serves, every sender of dgsend2 is
\* answered and ends; the one thing it may wait for in vain is a server that has
\* ended itself, as an empty datagram makes it do.
Answered == [](faults = 0) /\ program = "dgrecv2" => \A s \in Senders :
  <>(pc[s] \in {"exited", "crashed"} \/ (pc[s] = "recv" /\ server \in {"exited", "crashed"}))
=============================================================================
