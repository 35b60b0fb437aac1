-------------------------------- MODULE Mysh1 --------------------------------
(***************************************************************************)
(* mysh1.c of ch8: the arguments of a command are typed one by one, and an *)
(* empty line runs it.  The shell starts to ignore SIGINT when it waits    *)
(* for its first command, never stops to, and hands that down.             *)
(***************************************************************************)
EXTENDS Integers, Sequences

CONSTANTS MAXARGS,
          Args           \* what may be typed as an argument

VARIABLES shell,         \* where the shell is
          arglist,       \* the arguments so far; numargs is its length
          fatal,         \* the processes that SIGINT kills
          child, argv,   \* where the child is, and its command
          typed,         \* the arguments typed since the last command was run
          eof            \* has the input ended?

vars == <<shell, arglist, fatal, child, argv, typed, eof>>

Init == /\ shell = "fgets" /\ arglist = <<>>
        /\ fatal = {"shell"}             \* as an interactive shell starts its programs
        /\ child = "none" /\ argv = <<>>
        /\ typed = <<>> /\ eof = FALSE
-----------------------------------------------------------------------------
\* An argument, which makestring copies: malloc may fail.  With MAXARGS of them
\* the loop ends, and nothing is run.
Argument == /\ shell = "fgets" /\ ~eof
            /\ \E arg \in Args : /\ typed' = Append(typed, arg)
                                 /\ arglist' = Append(arglist, arg)
            /\ shell' \in {"exited"} \cup {s \in {"fgets"} : Len(arglist') < MAXARGS}
            /\ UNCHANGED <<fatal, child, argv, eof>>

\* "exit", or any part of it from its start.
Exit == /\ shell = "fgets" /\ ~eof
        /\ shell' = "exited"
        /\ UNCHANGED <<arglist, fatal, child, argv, typed, eof>>

\* An empty line, and no line at all: fgets returns NULL at the end of the input,
\* where the test for EOF is not reached.
Empty == /\ shell = "fgets" /\ arglist # <<>>
         /\ shell' = "fork"
         /\ UNCHANGED <<arglist, fatal, child, argv, typed, eof>>

\* The child begins with the signals of the shell.  A fork that fails leaves the
\* arguments for the next empty line.
Fork == /\ shell = "fork"
        /\ \/ /\ shell' = "signal" /\ child' = "execvp"
              /\ argv' = arglist /\ typed' = <<>>
              /\ fatal' = {p \in {"shell", "child"} : "shell" \in fatal}
           \/ /\ shell' = "fgets"
              /\ UNCHANGED <<child, argv, typed, fatal>>
        /\ UNCHANGED <<arglist, eof>>

\* Slip, for FirstShell: SIG_DFL for SIG_IGN.
SignalDefault == /\ shell = "signal" /\ shell' = "wait"
                 /\ UNCHANGED <<arglist, fatal, child, argv, typed, eof>>

Signal == /\ shell = "signal" /\ shell' = "wait"
          /\ fatal' = fatal \ {"shell"}
          /\ UNCHANGED <<arglist, child, argv, typed, eof>>

Wait == /\ shell = "wait" /\ child = "zombie"
        /\ child' = "none" /\ arglist' = <<>> /\ shell' = "fgets"
        /\ UNCHANGED <<fatal, argv, typed, eof>>

Shell == Argument \/ Exit \/ Empty \/ Fork \/ Signal \/ Wait
-----------------------------------------------------------------------------
\* The program, or perror and exit(1); a program ends when it likes, or never.
Child == /\ \/ child = "execvp" /\ child' \in {"program", "zombie"}
            \/ child = "program" /\ child' = "zombie"
         /\ UNCHANGED <<shell, arglist, fatal, argv, typed, eof>>

\* Ctrl-D, or the end of a file.
EndInput == ~eof /\ eof' = TRUE /\ UNCHANGED <<shell, arglist, fatal, child, argv, typed>>

\* Ctrl-C reaches whoever is alive and does not ignore it.
Killable == {p \in fatal : IF p = "shell" THEN shell \notin {"exited", "killed"}
                                          ELSE child \in {"execvp", "program"}}

Interrupt == /\ Killable # {}
             /\ shell' = IF "shell" \in Killable THEN "killed" ELSE shell
             /\ child' = IF "child" \in Killable THEN "zombie" ELSE child
             /\ UNCHANGED <<arglist, fatal, argv, typed, eof>>

Next == Shell \/ Child \/ EndInput \/ Interrupt
-----------------------------------------------------------------------------
\* A command is run with what has been typed since the last one that ran, also
\* when forks have failed in between.
OwnArguments == (shell = "fgets" => arglist = typed) /\ (shell = "signal" => argv = arglist)

\* A shell that has had one command is deaf, and all its commands with it: from
\* its next prompt on, Ctrl-C ends nothing any more.
Deaf == [](shell = "wait" => [](shell = "fgets" => [](Killable = {})))
=============================================================================
