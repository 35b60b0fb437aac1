---------------------------- MODULE LicenseClient ----------------------------
(***************************************************************************)
(* lclnt1.c and lclnt_funcs1.c, on the sockets of dgram.c: each client     *)
(* asks the licence server for a ticket with a datagram, works with it and *)
(* gives it back.  The server is not in the repository: it is modelled by  *)
(* the answers the client is written for, TICK, FAIL and THNX.  A datagram *)
(* may be lost, and the client has no timeout.                             *)
(*                                                                         *)
(* do_transaction assigns -1 to ret where it means to compare, and returns *)
(* NULL whatever it has received, so that no client gets as far as its     *)
(* work: what follows get_ticket is one step of which only the exit is     *)
(* ever taken.                                                             *)
(***************************************************************************)
EXTENDS Integers, FiniteSets

CONSTANTS Clients,
          Seats,         \* the tickets the server has
          MaxLoss,       \* bound on the datagrams lost
          NULL

Replies == {"TICK", "FAIL", "THNX"}
VARIABLES pc,            \* where each client's main is
          have_ticket,
          net,           \* datagrams on their way, as <<client, text>>
          granted,       \* the clients the server has a ticket out to
          lost           \* the datagrams lost so far

vars == <<pc, have_ticket, net, granted, lost>>

Init == /\ pc = [c \in Clients |-> "set_up"]
        /\ have_ticket = [c \in Clients |-> FALSE]
        /\ net = {}
        /\ granted = {}
        /\ lost = 0
-----------------------------------------------------------------------------
(* The client *)

\* No socket: exit.  A host name that is not found: hp is used before it is
\* compared with NULL.
set_up(c) == /\ pc[c] = "set_up"
             /\ \E next \in {"sendto", "exited", "crashed"} : pc' = [pc EXCEPT ![c] = next]
             /\ UNCHANGED <<have_ticket, net, granted, lost>>

\* get_ticket, as far as the sendto of do_transaction, which may fail.
Request(c) == /\ pc[c] = "sendto"
              /\ \/ /\ net' = net \cup {<<c, "HELO">>}
                    /\ pc' = [pc EXCEPT ![c] = "recvfrom"]
                 \/ /\ pc' = [pc EXCEPT ![c] = "main"]
                    /\ UNCHANGED net
              /\ UNCHANGED <<have_ticket, granted, lost>>

\* Slip, for OnlyLeaks: if (ret == -1), as it was meant.
Received(reply) == reply

\* if (ret = -1) return NULL
Transaction(reply) == NULL

\* The rest of do_transaction and of get_ticket; recvfrom blocks for the answer.
Answer(c) == /\ pc[c] = "recvfrom"
             /\ \E reply \in {r \in Replies : <<c, r>> \in net} :
                  /\ net' = net \ {<<c, reply>>}
                  /\ have_ticket' = [have_ticket EXCEPT ![c] = Transaction(reply) = "TICK"]
             /\ pc' = [pc EXCEPT ![c] = "main"]
             /\ UNCHANGED <<granted, lost>>

\* main: without a ticket exit(0), with one the work and release_ticket.
Finish(c) == /\ pc[c] = "main"
             /\ net' = IF have_ticket[c] THEN net \cup {<<c, "GBYE">>} ELSE net
             /\ pc' = [pc EXCEPT ![c] = "exited"]
             /\ UNCHANGED <<have_ticket, granted, lost>>

Client(c) == set_up(c) \/ Request(c) \/ Answer(c) \/ Finish(c)
-----------------------------------------------------------------------------
(* The server and the network *)

Serve(c) == /\ \E request \in {"HELO", "GBYE"} :
                 /\ <<c, request>> \in net
                 /\ LET reply == IF request = "GBYE" THEN "THNX"
                                 ELSE IF Cardinality(granted) < Seats THEN "TICK" ELSE "FAIL"
                    IN  /\ net' = (net \ {<<c, request>>}) \cup {<<c, reply>>}
                        /\ granted' = IF reply = "TICK" THEN granted \cup {c}
                                      ELSE IF reply = "THNX" THEN granted \ {c} ELSE granted
            /\ UNCHANGED <<pc, have_ticket, lost>>

Lose == /\ lost < MaxLoss
        /\ \E m \in net : net' = net \ {m}
        /\ lost' = lost + 1
        /\ UNCHANGED <<pc, have_ticket, granted>>
-----------------------------------------------------------------------------
Next == \/ \E c \in Clients : Client(c) \/ Serve(c)
        \/ Lose

Spec == Init /\ [][Next]_vars
-----------------------------------------------------------------------------
\* Tickets go out and never come back: no client that was given one works with
\* it or returns it, so that the server runs out of them for good.
OnlyLeaks == [][granted \subseteq granted']_vars
=============================================================================
