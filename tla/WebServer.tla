------------------------------- MODULE WebServer -----------------------------
(***************************************************************************)
(* webserver.c of ch12: one process accepts a connection, reads the first  *)
(* line and then the others of its request, and forks a child to answer    *)
(* it.  The functions that answer are not in the repository: each may exit *)
(* or return, and a child in which process_rq returns, as it does for a    *)
(* request of fewer than two words, goes on in the loop of main and        *)
(* accepts connections too.                                                *)
(*                                                                         *)
(* A request is the client it came from.  A client may close its           *)
(* connection before it has sent a line; request then still holds the      *)
(* previous one, or what was on the stack before the first.                *)
(***************************************************************************)
EXTENDS Integers, FiniteSets

CONSTANTS Clients,
          Malformed,     \* those whose first line has fewer than two words
          MaxServers,    \* bound on the processes
          None           \* no connection, and no request

Servers == 1..MaxServers         \* 1 is the parent

VARIABLES client,        \* where each client is
          queue,         \* connections made and not accepted
          pc, fd, request,       \* of each process
          open,          \* open[c]: the processes that have c's connection open
          answers        \* the answers sent, as <<client, request>>, and by whom

server == <<pc, fd, request>>
vars == <<client, queue, server, open, answers>>

Init == /\ client = [c \in Clients |-> "connect"]
        /\ queue = {}
        /\ pc = [p \in Servers |-> IF p = 1 THEN "accept" ELSE "none"]
        /\ fd = [p \in Servers |-> None]
        /\ request = [p \in Servers |-> None]
        /\ open = [c \in Clients |-> {}]
        /\ answers = {}

Goto(p, from, to) == pc[p] = from /\ pc' = [pc EXCEPT ![p] = to]
-----------------------------------------------------------------------------
(* The clients *)

Connect(c) == /\ client[c] = "connect"
              /\ client' = [client EXCEPT ![c] = "connected"]
              /\ queue' = queue \cup {c}
              /\ UNCHANGED <<server, open, answers>>

\* The first line, and then the rest, up to the empty one or the end.
Send(c) == /\ \/ client[c] = "connected" /\ client' = [client EXCEPT ![c] = "line sent"]
              \/ client[c] = "line sent" /\ client' = [client EXCEPT ![c] = "all sent"]
           /\ UNCHANGED <<queue, server, open, answers>>

\* It closes its end before it has sent a line.
HangUp(c) == /\ client[c] = "connected"
             /\ client' = [client EXCEPT ![c] = "silent"]
             /\ UNCHANGED <<queue, server, open, answers>>

\* The end of the answer: nobody has the other end open any more.
Receive(c) == /\ client[c] = "all sent" /\ c \notin queue /\ open[c] = {}
              /\ client' = [client EXCEPT ![c] = "finished"]
              /\ UNCHANGED <<queue, server, open, answers>>
-----------------------------------------------------------------------------
(* The loop of main *)

\* A descriptor of -1 gives fdopen's NULL to fgets.
Accept(p) == \/ \E c \in queue : /\ Goto(p, "accept", "fgets")
                                 /\ queue' = queue \ {c}
                                 /\ fd' = [fd EXCEPT ![p] = c]
                                 /\ open' = [open EXCEPT ![c] = {p}]
                                 /\ UNCHANGED <<client, request, answers>>
             \/ /\ Goto(p, "accept", "crashed")
                /\ UNCHANGED <<client, queue, fd, request, open, answers>>

\* The result of fgets is not tested: without a line request is left as it is.
Fgets(p) == /\ Goto(p, "fgets", "read_til_crnl")
            /\ \/ client[fd[p]] \in {"line sent", "all sent"} /\ request' = [request EXCEPT ![p] = fd[p]]
               \/ client[fd[p]] = "silent" /\ UNCHANGED request
            /\ UNCHANGED <<client, queue, fd, open, answers>>

read_til_crnl(p) == /\ Goto(p, "read_til_crnl", "process_rq")
                    /\ client[fd[p]] \in {"all sent", "silent"}
                    /\ UNCHANGED <<client, queue, fd, request, open, answers>>

\* A fork that fails is taken for the parent's return.
Fork(p) == /\ Goto(p, "process_rq", "fclose")
           /\ UNCHANGED <<client, queue, fd, request, open, answers>>

\* Slip, for OwnAnswer: the test of fork left out.
BothAnswer(p, child) == /\ pc[p] = "process_rq" /\ pc[child] = "none"
                        /\ pc' = [pc EXCEPT ![p] = "answer", ![child] = "answer"]
                        /\ fd' = [fd EXCEPT ![child] = fd[p]]
                        /\ request' = [request EXCEPT ![child] = request[p]]
                        /\ open' = [open EXCEPT ![fd[p]] = @ \cup {child}]
                        /\ UNCHANGED <<client, queue, answers>>

\* The child has all that the parent has.
ForkChild(p, child) == /\ pc[p] = "process_rq" /\ pc[child] = "none"
                       /\ pc' = [pc EXCEPT ![p] = "fclose", ![child] = "answer"]
                       /\ fd' = [fd EXCEPT ![child] = fd[p]]
                       /\ request' = [request EXCEPT ![child] = request[p]]
                       /\ open' = [open EXCEPT ![fd[p]] = @ \cup {child}]
                       /\ UNCHANGED <<client, queue, answers>>

Fclose(p) == /\ Goto(p, "fclose", "accept")
             /\ open' = [open EXCEPT ![fd[p]] = @ \ {p}]
             /\ fd' = [fd EXCEPT ![p] = None]
             /\ UNCHANGED <<client, queue, request, answers>>
-----------------------------------------------------------------------------
(* The rest of process_rq, in the child *)

\* Slip, for OwnAnswer: the child reads a request that main has read
\* since, as it would if the two shared their memory.
AnswerLatest(p) == /\ pc[p] = "answer"
                   /\ answers' = answers \cup {<<fd[p], request[1], p>>}
                   /\ pc' = [pc EXCEPT ![p] = "fclose"]
                   /\ UNCHANGED <<client, queue, fd, request, open>>

\* What request holds before the first one may be anything.
WellFormed(r) == IF r = None THEN {TRUE, FALSE} ELSE {r \notin Malformed}

Answer(p) == /\ pc[p] = "answer"
             /\ \/ /\ TRUE \in WellFormed(request[p])
                   /\ answers' = answers \cup {<<fd[p], request[p], p>>}
                   /\ \/ Goto(p, "answer", "fclose") /\ UNCHANGED open
                      \/ Goto(p, "answer", "exited") /\ open' = [open EXCEPT ![fd[p]] = @ \ {p}]
                \/ /\ FALSE \in WellFormed(request[p])
                   /\ Goto(p, "answer", "fclose")
                   /\ UNCHANGED <<open, answers>>
             /\ UNCHANGED <<client, queue, fd, request>>

Main(p) == Fgets(p) \/ read_til_crnl(p) \/ Fork(p) \/ Fclose(p) \/ Answer(p)
           \/ \E child \in Servers : ForkChild(p, child)

Next == \/ \E p \in Servers : Accept(p) \/ Main(p)
        \/ \E c \in Clients : Connect(c) \/ Send(c) \/ HangUp(c) \/ Receive(c)

Spec == Init /\ [][Next]_vars
-----------------------------------------------------------------------------
\* A connection is answered once, by one process, although the children that
\* return go on to accept connections beside the parent.
OneAnswer == \A x, y \in answers : x[1] = y[1] => x = y

\* The answer to a client that has sent a line is about that line, whatever the
\* other processes read meanwhile: the request of another is only answered to
\* one that has hung up without a word.
StaleOnlyToSilent == \A x \in answers : client[x[1]] # "silent" => x[2] = x[1]
=============================================================================
