------------------------------ MODULE PipeDemo2 ------------------------------
(***************************************************************************)
(* pipedemo2.c of ch10: parent and child write into one pipe, which the    *)
(* parent reads; both keep both of its ends.  A process that sleeps is one *)
(* that is slow to take its next step.  Lengths are in bytes.              *)
(***************************************************************************)
EXTENDS Integers

CONSTANTS Capacity,      \* of the pipe
          BUFSIZ,        \* the size of buf
          CHILD_MESS, PAR_MESS           \* the lengths of the two messages

VARIABLES parent, child,
          pipe,          \* how much is in the pipe
          ahead,         \* how much the child has written since the parent last read
          fell_behind    \* was that ever more than buf has room for?

vars == <<parent, child, pipe, ahead, fell_behind>>

\* What may come from the child between two reads: the parent's own message and
\* the '\0' behind the text need room too.
Slack == BUFSIZ - 1 - PAR_MESS

Init == /\ parent = "pipe" /\ child = "none"
        /\ pipe = 0 /\ ahead = 0 /\ fell_behind = FALSE

\* pipe and fork, or exit(2).
Start == /\ parent = "pipe"
         /\ \/ parent' = "write" /\ child' = "write"
            \/ parent' = "exited" /\ UNCHANGED child
         /\ UNCHANGED <<pipe, ahead, fell_behind>>

\* Messages are shorter than PIPE_BUF: a write waits for room for all of it.
ChildWrite == /\ child = "write" /\ pipe + CHILD_MESS <= Capacity
              /\ pipe' = pipe + CHILD_MESS
              /\ ahead' = ahead + CHILD_MESS
              /\ fell_behind' = (fell_behind \/ ahead' > Slack)
              /\ UNCHANGED <<parent, child>>

\* Slip, for StuckForever: a write that does not wait, and fails.
ParentTries == /\ parent = "write"
               /\ IF pipe + PAR_MESS <= Capacity THEN parent' = "read" /\ pipe' = pipe + PAR_MESS
                                                 ELSE parent' = "exited" /\ UNCHANGED pipe
               /\ UNCHANGED <<child, ahead, fell_behind>>

ParentWrite == /\ parent = "write" /\ pipe + PAR_MESS <= Capacity
               /\ pipe' = pipe + PAR_MESS
               /\ parent' = "read"
               /\ UNCHANGED <<child, ahead, fell_behind>>

read_len == IF pipe < BUFSIZ THEN pipe ELSE BUFSIZ

\* Slip, for Pace: one message for one read.
ReadOne == /\ parent = "read" /\ pipe > 0
           /\ pipe' = pipe - PAR_MESS
           /\ ahead' = 0
           /\ parent' = "write"
           /\ UNCHANGED <<child, fell_behind>>

\* buf[read_len] = '\0' with read_len = BUFSIZ is a write behind buf.
Read == /\ parent = "read" /\ pipe > 0
        /\ pipe' = pipe - read_len
        /\ ahead' = 0
        /\ parent' = IF read_len < BUFSIZ THEN "show" ELSE "overrun"
        /\ UNCHANGED <<child, fell_behind>>

\* write(1, ...), whose result nobody looks at; SIGPIPE kills where standard
\* output is a pipe that nobody reads, and anything may happen after an overrun.
Show == /\ parent \in {"show", "overrun"}
        /\ parent' \in {"write", "killed"}
        /\ UNCHANGED <<child, pipe, ahead, fell_behind>>

Next == Start \/ ChildWrite \/ ParentWrite \/ Read \/ Show

\* Both run, and a write for which there is room returns.
Fairness == WF_vars(ChildWrite) /\ WF_vars(ParentWrite \/ Read \/ Show)
-----------------------------------------------------------------------------
ParentBlocked == parent = "write" /\ pipe + PAR_MESS > Capacity
ChildBlocked == child = "write" /\ pipe + CHILD_MESS > Capacity

\* As long as the child gets in no more than Slack between two reads, the parent
\* finds room for its message, reads all there is and keeps inside buf.
Pace == ~fell_behind => parent # "overrun" /\ ~ParentBlocked

\* A parent that waits for room waits for ever, as nobody else reads, and so does
\* in the end the child: a deadlock.  So does a child whose parent has been killed:
\* its own copy of the read end keeps SIGPIPE from it.
StuckForever == /\ ParentBlocked ~> [](ParentBlocked /\ ChildBlocked)
                /\ parent = "killed" ~> []ChildBlocked
==============================================================================
