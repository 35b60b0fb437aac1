-------------------------- MODULE DatagramPrograms ---------------------------
(***************************************************************************)
(* What runs on dgram.c: a server with its senders, or the clients of the  *)
(* licence server.  They use different ports, and so only one of the two   *)
(* is started; the other is as if it had ended.                            *)
(***************************************************************************)
EXTENDS Datagrams

CONSTANTS Clients, Seats, MaxLoss, NULL          \* of the licence clients

ASSUME LicenseAssumption ==
  Seats \in Nat /\ MaxLoss \in Nat /\ NULL \notin {"TICK", "FAIL", "THNX"}

VARIABLES main,          \* where each licence client is
          have_ticket, packets, granted, lost

license == <<main, have_ticket, packets, granted, lost>>

License == INSTANCE LicenseClient WITH pc <- main, net <- packets

SendersEnded == /\ pc = [s \in Senders |-> "exited"] /\ server = "exited" /\ program = "dgrecv2"
                /\ msg = [s \in Senders |-> 0] /\ reply = [s \in Senders |-> -1]
                /\ buf = 0 /\ saddr = Nobody /\ net = {} /\ faults = 0

ClientsEnded == /\ main = [c \in Clients |-> "exited"]
                /\ have_ticket = [c \in Clients |-> FALSE]
                /\ packets = {} /\ granted = {} /\ lost = 0

OneInit == \/ Init /\ ClientsEnded
           \/ SendersEnded /\ License!Init

OneNext == \/ Next /\ UNCHANGED license
           \/ License!Next /\ UNCHANGED vars

OneSpec == OneInit /\ [][OneNext]_<<vars, license>> /\ Fairness
-----------------------------------------------------------------------------
\* Tickets go out and never come back, with datagrams lost or not.
OnlyLeaks == License!OnlyLeaks
==============================================================================
