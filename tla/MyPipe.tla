-------------------------------- MODULE MyPipe -------------------------------
(***************************************************************************)
(* mypipe.c of ch10: a pipe, a child that becomes the first command with   *)
(* the pipe as its output, and a parent that becomes the second with the   *)
(* pipe as its input.  Each has its table of files; an end of the pipe is  *)
(* open as long as any entry of any table names it, and that is what the   *)
(* end of the reader's input and the writer's SIGPIPE hang on.             *)
(***************************************************************************)
EXTENDS Integers, FiniteSetsExt

CONSTANTS Capacity,      \* what the pipe holds
          MaxWrites,     \* bound on what the first command writes
          StartedWith    \* the standard files mypipe may be started with

Processes == {"cmd1", "cmd2"}    \* the child and the parent
Files == 0..3                    \* 2, standard error, is left out

VARIABLES pc,
          fd,            \* fd[p][f]: "std", an end of the pipe, or "closed"
          thepipe,       \* the numbers pipe has given, of the parent and the child
          pipe,          \* how much is in the pipe
          wrote,         \* how much cmd1 has written
          sawEOF         \* has cmd2 read to the end?

vars == <<pc, fd, thepipe, pipe, wrote, sawEOF>>
data == <<pipe, wrote, sawEOF>>

Init == /\ pc = [p \in Processes |-> IF p = "cmd2" THEN "pipe" ELSE "none"]
        /\ \E open \in StartedWith :
             fd = [p \in Processes |-> [f \in Files |-> IF p = "cmd2" /\ f \in open THEN "std" ELSE "closed"]]
        /\ thepipe = <<>>
        /\ pipe = 0 /\ wrote = 0 /\ sawEOF = FALSE

Open(p) == {fd[p][f] : f \in Files}
Readers == {p \in Processes : "read end" \in Open(p)}
Writers == {p \in Processes : "write end" \in Open(p)}

\* exit closes every file.
Gone(p) == /\ pc' = [pc EXCEPT ![p] = "exited"]
           /\ fd' = [fd EXCEPT ![p] = [f \in Files |-> "closed"]]
-----------------------------------------------------------------------------
(* The parent up to the fork *)

\* pipe takes the two lowest numbers that are free.
Pipe == /\ pc["cmd2"] = "pipe"
        /\ \/ LET free == {f \in Files : fd["cmd2"][f] = "closed"}
                  r == Min(free)
                  w == Min(free \ {r})
              IN  /\ thepipe' = <<r, w>>
                  /\ fd' = [fd EXCEPT !["cmd2"][r] = "read end", !["cmd2"][w] = "write end"]
                  /\ pc' = [pc EXCEPT !["cmd2"] = "fork"]
           \/ Gone("cmd2") /\ UNCHANGED thepipe
        /\ UNCHANGED data

Fork == /\ pc["cmd2"] = "fork"
        /\ \/ /\ pc' = [p \in Processes |-> "close other"]
              /\ fd' = [p \in Processes |-> fd["cmd2"]]
           \/ Gone("cmd2")
        /\ UNCHANGED <<thepipe, data>>
-----------------------------------------------------------------------------
(* The branches of the parent and the child, which mirror each other *)

Mine(p) == IF p = "cmd2" THEN thepipe[1] ELSE thepipe[2]
Other(p) == IF p = "cmd2" THEN thepipe[2] ELSE thepipe[1]
Std(p) == IF p = "cmd2" THEN 0 ELSE 1

\* Slip, for BothEnd: the other end is left open.
KeepOther(p) == /\ pc[p] = "close other"
                /\ pc' = [pc EXCEPT ![p] = "dup2"]
                /\ UNCHANGED <<fd, thepipe, data>>

CloseOther(p) == /\ pc[p] = "close other"
                 /\ fd' = [fd EXCEPT ![p][Other(p)] = "closed"]
                 /\ pc' = [pc EXCEPT ![p] = "dup2"]
                 /\ UNCHANGED <<thepipe, data>>

Dup2(p) == /\ pc[p] = "dup2"
           /\ \/ /\ fd[p][Mine(p)] # "closed"
                 /\ fd' = [fd EXCEPT ![p][Std(p)] = fd[p][Mine(p)]]
                 /\ pc' = [pc EXCEPT ![p] = "close mine"]
              \/ Gone(p)
           /\ UNCHANGED <<thepipe, data>>

CloseMine(p) == /\ pc[p] = "close mine"
                /\ fd' = [fd EXCEPT ![p][Mine(p)] = "closed"]
                /\ pc' = [pc EXCEPT ![p] = "execlp"]
                /\ UNCHANGED <<thepipe, data>>

\* The command, or perror and return.
Execlp(p) == /\ pc[p] = "execlp"
             /\ \/ pc' = [pc EXCEPT ![p] = "command"] /\ UNCHANGED fd
                \/ Gone(p)
             /\ UNCHANGED <<thepipe, data>>

Main == Pipe \/ Fork
Redirect(p) == CloseOther(p) \/ Dup2(p) \/ CloseMine(p) \/ Execlp(p)
-----------------------------------------------------------------------------
(* The commands *)

\* A write to a pipe nobody can read kills, one to a full pipe waits.
Write == /\ pc["cmd1"] = "command" /\ fd["cmd1"][1] = "write end" /\ wrote < MaxWrites
         /\ \/ /\ Readers # {} /\ pipe < Capacity
               /\ wrote' = wrote + 1
               /\ pipe' = pipe + 1
               /\ UNCHANGED <<pc, fd, thepipe, sawEOF>>
            \/ /\ Readers = {}
               /\ Gone("cmd1")
               /\ UNCHANGED <<thepipe, data>>

\* A read from an empty pipe waits as long as somebody could write.
Read == /\ pc["cmd2"] = "command" /\ fd["cmd2"][0] = "read end" /\ ~sawEOF
        /\ \/ pipe > 0 /\ pipe' = pipe - 1 /\ UNCHANGED sawEOF
           \/ pipe = 0 /\ Writers = {} /\ sawEOF' = TRUE /\ UNCHANGED pipe
        /\ UNCHANGED <<pc, fd, thepipe, wrote>>

\* The first command ends when it has written what it has, or was not given its
\* output; the second at the end of its input.  Either may end before that.
Done(p) == IF p = "cmd1" THEN wrote = MaxWrites \/ fd[p][1] # "write end"
                         ELSE sawEOF \/ fd[p][0] # "read end"

Exit(p) == /\ pc[p] = "command"
           /\ Gone(p)
           /\ UNCHANGED <<thepipe, data>>

Next == \/ Main \/ Write \/ Read
        \/ \E p \in Processes : Redirect(p) \/ Exit(p)

\* mypipe runs; a command reads or writes as long as it can, and ends when it
\* has no more to do.
Fairness == /\ WF_vars(Main) /\ WF_vars(Write) /\ WF_vars(Read)
            /\ \A p \in Processes : WF_vars(Redirect(p)) /\ WF_vars(Done(p) /\ Exit(p))

-----------------------------------------------------------------------------
Running(p) == pc[p] = "command"

\* The second command finds the end of its input once the first has ended; a first
\* command that still writes is ended once the second is gone, and does not wait
\* for ever for room in the pipe.
BothEnd == /\ (pc["cmd1"] = "exited" /\ Running("cmd2")) ~> pc["cmd2"] = "exited"
           /\ (pc["cmd2"] = "exited" /\ Running("cmd1")) ~> pc["cmd1"] = "exited"
==============================================================================
