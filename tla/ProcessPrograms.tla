--------------------------- MODULE ProcessPrograms ---------------------------
(***************************************************************************)
(* The programs that fork, execute and redirect: the shells smsh1 and      *)
(* mysh1, mypipe, pipedemo2 and the two of stdinredic, of which one is     *)
(* started.                                                                *)
(***************************************************************************)
EXTENDS Smsh1, Integers, Sequences

CONSTANTS MAXARGS, Args,                              \* of mysh1
          Capacity, MaxWrites, StartedWith,           \* of mypipe
          Room, BUFSIZ, CHILD_MESS, PAR_MESS,         \* of pipedemo2: Room is its pipe's
          MaxPieces                                   \* of stdinredic

ASSUME Mysh1Assumption == MAXARGS \in Nat \ {0}
ASSUME MyPipeAssumption == /\ Capacity \in Nat \ {0} /\ MaxWrites \in Nat
                           /\ StartedWith \subseteq SUBSET {0, 1}
ASSUME PipeDemo2Assumption ==
  /\ {Room, BUFSIZ, CHILD_MESS, PAR_MESS} \subseteq Nat \ {0}
  /\ BUFSIZ <= Room /\ PAR_MESS < BUFSIZ
ASSUME MaxPiecesAssumption == MaxPieces \in Nat

VARIABLES sh1, arglist, sh1fatal, sh1child, argv, typed, eof
mysh1 == <<sh1, arglist, sh1fatal, sh1child, argv, typed, eof>>
My == INSTANCE Mysh1 WITH shell <- sh1, fatal <- sh1fatal, child <- sh1child

VARIABLES pc, fd, thepipe, pipe, wrote, sawEOF
mypipe == <<pc, fd, thepipe, pipe, wrote, sawEOF>>
Pipe == INSTANCE MyPipe

VARIABLES demo, demochild, content, ahead, fell_behind
pipedemo2 == <<demo, demochild, content, ahead, fell_behind>>
Demo == INSTANCE PipeDemo2 WITH Capacity <- Room, parent <- demo, child <- demochild, pipe <- content

VARIABLES program, redir, fd0, buffer, origin, sticky, line, text, lines
stdinredic == <<program, redir, fd0, buffer, origin, sticky, line, text, lines>>
Redir == INSTANCE Redirect WITH pc <- redir

NoSmsh1 == /\ shell = "unstarted" /\ child = "none" /\ commands = MaxCommands
           /\ fatal = [p \in Processes |-> {}]
NoMysh1 == /\ sh1 = "exited" /\ sh1child = "none" /\ sh1fatal = {}
           /\ arglist = <<>> /\ argv = <<>> /\ typed = <<>> /\ eof = TRUE
NoMyPipe == /\ pc = [p \in Pipe!Processes |-> "exited"]
            /\ fd = [p \in Pipe!Processes |-> [f \in Pipe!Files |-> "closed"]]
            /\ thepipe = <<>> /\ pipe = 0 /\ wrote = 0 /\ sawEOF = FALSE
NoDemo == /\ demo = "exited" /\ demochild = "none" /\ content = 0 /\ ahead = 0
          /\ fell_behind = FALSE
NoRedirect == /\ program = "none" /\ redir = "failed" /\ fd0 = "stdin"
              /\ buffer = <<>> /\ origin = "stdin" /\ sticky = FALSE
              /\ line = {} /\ text = <<>> /\ lines = <<>>

OneInit == \/ Init /\ NoMysh1 /\ NoMyPipe /\ NoDemo /\ NoRedirect
           \/ NoSmsh1 /\ My!Init /\ NoMyPipe /\ NoDemo /\ NoRedirect
           \/ NoSmsh1 /\ NoMysh1 /\ Pipe!Init /\ NoDemo /\ NoRedirect
           \/ NoSmsh1 /\ NoMysh1 /\ NoMyPipe /\ Demo!Init /\ NoRedirect
           \/ NoSmsh1 /\ NoMysh1 /\ NoMyPipe /\ NoDemo /\ Redir!Init

OneNext == \/ Next /\ UNCHANGED <<mysh1, mypipe, pipedemo2, stdinredic>>
           \/ My!Next /\ UNCHANGED <<vars, mypipe, pipedemo2, stdinredic>>
           \/ Pipe!Next /\ UNCHANGED <<vars, mysh1, pipedemo2, stdinredic>>
           \/ Demo!Next /\ UNCHANGED <<vars, mysh1, mypipe, stdinredic>>
           \/ Redir!Next /\ UNCHANGED <<vars, mysh1, mypipe, pipedemo2>>

OneSpec == /\ OneInit /\ [][OneNext]_<<vars, mysh1, mypipe, pipedemo2, stdinredic>>
           /\ Fairness /\ Pipe!Fairness /\ Demo!Fairness
-----------------------------------------------------------------------------
\* mysh1 runs each command with what was typed for it; and from its second prompt
\* on, it and all it runs are deaf to Ctrl-C.
FirstShell == []My!OwnArguments /\ My!Deaf

\* Of two commands joined by mypipe each learns that the other has ended.
BothEnd == Pipe!BothEnd

\* pipedemo2 keeps inside its buffer, and going, as long as the child is not faster
\* than the reads.
Pace == Demo!Pace

\* Once its pipe has no room for the parent, it waits for itself.
StuckForever == Demo!StuckForever

\* Of a redirected standard input stdio reads only when it has used up the old one, in
\* the middle of a line or after one.
ReadAhead == Redir!ReadAhead
==============================================================================
