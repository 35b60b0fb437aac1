--------------------------- MODULE DatagramProofs ----------------------------
(***************************************************************************)
(* Proofs about dgrecv2.c and dgsend2.c for any number of senders, lengths *)
(* of messages and faults of the network: an answer is about the sender's  *)
(* own message.  RepliesTrue follows from what every datagram on its way   *)
(* says, and that from what the server's buffer and saddr say together.    *)
(* And about lclnt_funcs1.c for any number of clients and tickets: no      *)
(* ticket ever comes back.                                                 *)
(***************************************************************************)
EXTENDS DatagramPrograms, TLAPS

\* As much of the message of s as fits in the buffer.
Cut(s) == IF msg[s] < BUFSIZ THEN msg[s] ELSE BUFSIZ

TypeOK == /\ pc \in [Senders -> {"socket", "sendto", "recv", "exited", "crashed"}]
          /\ msg \in [Senders -> Nat]
          /\ reply \in [Senders -> Int]
          /\ server \in {"socket", "recvfrom", "reply", "exited", "crashed"}
          /\ buf \in Nat /\ saddr \in Senders \cup {Nobody}
          /\ net \subseteq {"message", "reply"} \X Senders \X Nat
          /\ faults \in Nat

\* A message on its way is its sender's, an answer is about it.
NetInv == \A d \in net : d[3] = IF d[1] = "message" THEN msg[d[2]] ELSE Cut(d[2])

\* What is in the buffer came from saddr, also when recvfrom has failed since.
BufInv == saddr # Nobody => buf = Cut(saddr)

IInv == TypeOK /\ NetInv /\ BufInv /\ RepliesTrue

\* The system starts in IInv.
LEMMA InitInv == OneInit => IInv
<1>1. SUFFICES ASSUME Init \/ SendersEnded PROVE IInv
  BY DEF OneInit
<1>2. /\ msg \in [Senders -> Nat] /\ net = {} /\ saddr = Nobody
      /\ reply = [s \in Senders |-> -1]
  <2>1. CASE Init
    <3>1. msg \in [Senders -> Lengths] /\ Lengths \subseteq Nat
      BY <2>1, ConstantsAssumption DEF Init
    <3>2. msg \in [Senders -> Nat]
      BY <3>1
    <3>3. QED
      BY <2>1, <3>2 DEF Init
  <2>2. CASE SendersEnded
    BY <2>2 DEF SendersEnded
  <2>3. QED
    BY <1>1, <2>1, <2>2
<1>3. TypeOK
  BY <1>1, <1>2 DEF Init, SendersEnded, TypeOK
<1>4. NetInv /\ BufInv /\ RepliesTrue
  BY <1>2 DEF NetInv, BufInv, RepliesTrue
<1>5. QED
  BY <1>3, <1>4 DEF IInv

\* No message changes its length after the start.
LEMMA SameMessages ==
  ASSUME Next
  PROVE  msg' = msg /\ \A s \in Senders : Cut(s)' = Cut(s)
<1>1. msg' = msg
  BY DEF Next, Sender, ClientSocket, Sendto, Recv, Server, ServerSocket, Recvfrom, Printf,
         Reply, RecvfromFails, Lose, senders
<1>2. QED
  BY <1>1 DEF Cut

\* No step of a sender breaks the invariant: it may put its message into the net and
\* take its answer from there.
LEMMA SenderStep == ASSUME IInv, NEW s \in Senders, Sender(s) PROVE IInv'
<1> USE DEF IInv
<1>1. msg' = msg /\ \A u \in Senders : Cut(u)' = Cut(u)
  BY SameMessages DEF Next
<1>2. CASE ClientSocket(s)
  BY <1>1, <1>2 DEF ClientSocket, TypeOK, NetInv, BufInv, RepliesTrue
<1>3. CASE Sendto(s)
  <2>1. msg[s] \in Nat
    BY DEF TypeOK
  <2>2. net' \in {net, net \cup {<<"message", s, msg[s]>>}}
    BY <1>3 DEF Sendto
  <2>3. TypeOK'
    BY <1>3, <2>1, <2>2 DEF Sendto, TypeOK
  <2>4. NetInv'
    BY <1>1, <2>2 DEF TypeOK, NetInv
  <2>5. BufInv' /\ RepliesTrue'
    BY <1>1, <1>3 DEF Sendto, TypeOK, BufInv, RepliesTrue
  <2>6. QED
    BY <2>3, <2>4, <2>5
<1>4. CASE Recv(s)
  <2>1. PICK d \in net : /\ d[1] = "reply" /\ d[2] = s /\ Deliver(d)
                         /\ reply' = [reply EXCEPT ![s] = d[3]]
    BY <1>4 DEF Recv
  <2>2. d[3] = Cut(s) /\ d[3] \in Nat
    BY <2>1 DEF NetInv, TypeOK
  <2>3. net' \subseteq net /\ faults' \in Nat
    BY <2>1 DEF Deliver, TypeOK
  <2>4. TypeOK'
    BY <1>4, <2>1, <2>2, <2>3 DEF Recv, TypeOK
  <2>5. NetInv' /\ BufInv'
    BY <1>1, <1>4, <2>3 DEF Recv, TypeOK, NetInv, BufInv
  <2>6. RepliesTrue'
    BY <1>1, <2>1, <2>2 DEF TypeOK, RepliesTrue, Cut
  <2>7. QED
    BY <2>4, <2>5, <2>6
<1>5. QED
  BY <1>2, <1>3, <1>4 DEF Sender

\* Nor does one of the server.
LEMMA ServerStep == ASSUME IInv, Server \/ RecvfromFails PROVE IInv'
<1> USE DEF IInv
<1>1. msg' = msg /\ \A u \in Senders : Cut(u)' = Cut(u)
  BY SameMessages DEF Next
<1>2. UNCHANGED senders
  BY DEF Server, ServerSocket, Recvfrom, Printf, Reply, RecvfromFails
<1>3. RepliesTrue'
  BY <1>2 DEF senders, RepliesTrue
<1>4. CASE ServerSocket \/ RecvfromFails \/ Printf
  BY <1>1, <1>2, <1>3, <1>4 DEF ServerSocket, RecvfromFails, Printf, senders, TypeOK, NetInv, BufInv
<1>5. CASE Recvfrom
  <2>1. PICK d \in net : d[1] = "message" /\ Deliver(d) /\ Received(d)
    BY <1>5 DEF Recvfrom
  <2>2. d[2] \in Senders /\ d[3] = msg[d[2]] /\ d[3] \in Nat
    BY <2>1 DEF NetInv, TypeOK
  <2>3. saddr' = d[2] /\ buf' = Cut(d[2]) /\ buf' \in Nat
    BY <2>1, <2>2, ConstantsAssumption DEF Received, Cut
  <2>4. net' \subseteq net /\ faults' \in Nat
    BY <2>1 DEF Deliver, TypeOK
  <2>5. server' \in {"reply", "exited", "crashed"}
    BY <1>5 DEF Recvfrom
  <2>6. TypeOK'
    BY <1>2, <2>2, <2>3, <2>4, <2>5 DEF senders, TypeOK
  <2>7. NetInv' /\ BufInv'
    BY <1>1, <2>2, <2>3, <2>4 DEF TypeOK, NetInv, BufInv
  <2>8. QED
    BY <1>3, <2>6, <2>7
<1>6. CASE Reply
  <2>1. /\ buf' = buf /\ saddr' = saddr /\ faults' = faults /\ server' = "recvfrom"
        /\ net' = IF saddr = Nobody THEN net ELSE net \cup {<<"reply", saddr, buf>>}
    BY <1>6 DEF Reply
  <2>2. TypeOK'
    BY <1>2, <2>1 DEF senders, TypeOK
  <2>3. BufInv'
    BY <1>1, <2>1 DEF TypeOK, BufInv
  <2>4. NetInv'
    BY <1>1, <2>1 DEF TypeOK, NetInv, BufInv
  <2>5. QED
    BY <1>3, <2>2, <2>3, <2>4
<1>7. QED
  BY <1>4, <1>5, <1>6 DEF Server

\* The inductive invariant, whatever is lost, comes twice or overtakes.
THEOREM Invariance == OneSpec => []IInv
<1>1. IInv /\ [Next]_vars => IInv'
  <2>1. SUFFICES ASSUME IInv, [Next]_vars PROVE IInv'
    OBVIOUS
  <2>2. CASE Lose
    <3>1. net' \subseteq net /\ faults' \in Nat
      BY <2>1, <2>2 DEF Lose, IInv, TypeOK
    <3>2. QED
      BY <2>1, <2>2, <3>1 DEF Lose, senders, IInv, TypeOK, NetInv, BufInv, RepliesTrue, Cut
  <2>3. CASE UNCHANGED vars
    BY <2>1, <2>3 DEF vars, senders, IInv, TypeOK, NetInv, BufInv, RepliesTrue, Cut
  <2>4. QED
    BY <2>1, <2>2, <2>3, SenderStep, ServerStep DEF Next
<1>2. QED
  <2>1. [OneNext]_<<vars, license>> => [Next]_vars
    BY DEF OneNext
  <2>2. QED
    BY <1>1, <2>1, InitInv, PTL DEF OneSpec

\* Every answer that a sender prints is about its own message.
THEOREM AnswersTrue == OneSpec => []RepliesTrue
BY Invariance, PTL DEF IInv
-----------------------------------------------------------------------------
(* The licence clients.                                                    *)

\* No client believes that it has a ticket, and so none has sent one back.
NoneHeld == /\ have_ticket = [c \in Clients |-> FALSE]
            /\ \A m \in packets : m[2] \in {"HELO", "TICK", "FAIL", "THNX"}

\* What do_transaction returns is no ticket, whatever the server has answered.
LEMMA AnswerDropped ==
  ASSUME NoneHeld, NEW c \in Clients, License!Answer(c)
  PROVE  have_ticket' = have_ticket /\ packets' \subseteq packets
<1>1. PICK answer \in License!Replies :
        /\ packets' = packets \ {<<c, answer>>}
        /\ have_ticket' = [have_ticket EXCEPT ![c] = NULL = "TICK"]
  BY DEF License!Answer, License!Transaction
<1>2. (NULL = "TICK") = FALSE
  BY LicenseAssumption
<1>3. QED
  BY <1>1, <1>2 DEF NoneHeld

\* A client that has no ticket gives none back, however the network loses datagrams.
LEMMA NoneHeldStep == ASSUME NoneHeld, License!Next PROVE NoneHeld'
<1>1. ASSUME NEW c \in Clients, License!Client(c) PROVE NoneHeld'
  <2>1. CASE License!set_up(c) \/ License!Request(c)
    BY <2>1 DEF License!set_up, License!Request, NoneHeld
  <2>2. CASE License!Answer(c)
    BY <2>2, AnswerDropped DEF NoneHeld
  <2>3. CASE License!Finish(c)
    BY <2>3 DEF License!Finish, NoneHeld
  <2>4. QED
    BY <1>1, <2>1, <2>2, <2>3 DEF License!Client
<1>2. ASSUME NEW c \in Clients, License!Serve(c) PROVE NoneHeld'
  BY <1>2 DEF License!Serve, NoneHeld
<1>3. CASE License!Lose
  BY <1>3 DEF License!Lose, NoneHeld
<1>4. QED
  BY <1>1, <1>2, <1>3 DEF License!Next

\* The server never takes a ticket back: with every answer thrown away, no client is
\* left to return the one it was given, for any number of clients and tickets.
THEOREM TicketsLeak == OneSpec => OnlyLeaks
<1>1. OneInit => NoneHeld
  BY DEF OneInit, ClientsEnded, License!Init, NoneHeld
<1>2. NoneHeld /\ [OneNext]_<<vars, license>> => NoneHeld'
  <2>1. SUFFICES ASSUME NoneHeld, [OneNext]_<<vars, license>> PROVE NoneHeld'
    OBVIOUS
  <2>2. CASE UNCHANGED license
    BY <2>1, <2>2 DEF license, NoneHeld
  <2>3. QED
    BY <2>1, <2>2, NoneHeldStep DEF OneNext
<1>3. NoneHeld /\ [OneNext]_<<vars, license>> => [granted \subseteq granted']_(License!vars)
  <2>1. SUFFICES ASSUME NoneHeld, OneNext PROVE UNCHANGED license \/ granted \subseteq granted'
    BY DEF license, License!vars
  <2>2. ASSUME NEW c \in Clients, License!Serve(c) PROVE granted \subseteq granted'
    BY <2>1, <2>2 DEF License!Serve, NoneHeld
  <2>3. QED
    BY <2>1, <2>2 DEF OneNext, License!Next, License!Client, License!set_up, License!Request,
                      License!Answer, License!Finish, License!Lose
<1>4. QED
  BY <1>1, <1>2, <1>3, PTL DEF OneSpec, OnlyLeaks, License!OnlyLeaks
==============================================================================
