---------------------------- MODULE StreamServers ----------------------------
(***************************************************************************)
(* The servers that take connections, each with its clients: the two time  *)
(* servers and the web server, of which one is started; the others are as  *)
(* if they had ended.                                                      *)
(***************************************************************************)
EXTENDS TimeServer

CONSTANTS Malformed, MaxServers, None            \* of the web server

ASSUME WebAssumption == /\ Malformed \subseteq Clients /\ None \notin Clients
                        /\ MaxServers \in Nat \ {0}

VARIABLES browser, wqueue, pc, wfd, request, wopen, answers

web == <<browser, wqueue, pc, wfd, request, wopen, answers>>

VARIABLES caller, waiting, sequential, connection, told

first == <<caller, waiting, sequential, connection, told>>

Web == INSTANCE WebServer WITH client <- browser, queue <- wqueue, fd <- wfd, open <- wopen
Old == INSTANCE TimeServ11 WITH client <- caller, queue <- waiting, server <- sequential,
                                fd <- connection, bytes <- told

TimeEnded == /\ client = [c \in Clients |-> "absent"] /\ queue = {}
             /\ server = "exited" /\ fd = NoFd
             /\ child = [c \in Clients |-> "none"]
             /\ open = [c \in Clients |-> {}] /\ bytes = {} /\ sigchld = FALSE

WebEnded == /\ browser = [c \in Clients |-> "finished"] /\ wqueue = {}
            /\ pc = [p \in Web!Servers |-> "exited"]
            /\ wfd = [p \in Web!Servers |-> None]
            /\ request = [p \in Web!Servers |-> None]
            /\ wopen = [c \in Clients |-> {}] /\ answers = {}

OldEnded == /\ caller = [c \in Clients |-> "absent"] /\ waiting = {}
            /\ sequential = "exited" /\ connection = NoFd /\ told = {}

OneInit == \/ Init /\ WebEnded /\ OldEnded
           \/ TimeEnded /\ Web!Init /\ OldEnded
           \/ TimeEnded /\ WebEnded /\ Old!Init

OneNext == \/ Next /\ UNCHANGED <<web, first>>
           \/ Web!Next /\ UNCHANGED <<vars, first>>
           \/ Old!Next /\ UNCHANGED <<vars, web>>

OneSpec == OneInit /\ [][OneNext]_<<vars, web, first>> /\ Fairness /\ Old!Fairness
-----------------------------------------------------------------------------
\* Both time servers keep Service's promise: every client is answered or refused,
\* and waits for neither for ever.
BothImplement == ImplementService /\ Old!ImplementService

\* Each connection of the web server is answered by one process only, and nobody
\* who has sent a line gets the answer to somebody else's.
OwnAnswer == Web!OneAnswer /\ Web!StaleOnlyToSilent
==============================================================================
