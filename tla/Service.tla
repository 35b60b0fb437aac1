------------------------------- MODULE Service --------------------------------
(***************************************************************************)
(* What a time server promises to its clients, whether it answers itself   *)
(* or by way of children: whoever is connected is answered, or hung up on, *)
(* and not both, and nobody waits for ever.                                *)
(***************************************************************************)
CONSTANT Clients

VARIABLE status

Init == status = [c \in Clients |-> "idle"]

Become(c, from, to) == status[c] = from /\ status' = [status EXCEPT ![c] = to]

Connect(c) == Become(c, "idle", "waiting") \/ Become(c, "idle", "refused")
Serve(c)   == Become(c, "waiting", "served")
Finish(c)  == Become(c, "waiting", "refused") \/ Become(c, "served", "answered")

Next == \E c \in Clients : Connect(c) \/ Serve(c) \/ Finish(c)

\* A client that is connected is told something in the end.
Spec == Init /\ [][Next]_status /\ \A c \in Clients : WF_status(Finish(c))
===============================================================================
