-------------------------------- MODULE Smsh1 --------------------------------
(***************************************************************************)
(* smsh1.c and execute.c of ch8: the shell ignores SIGINT and SIGQUIT, its *)
(* child inherits that, takes the default action back and executes the     *)
(* command, and the shell waits for it.  The terminal sends a signal to    *)
(* both, at any moment.                                                    *)
(***************************************************************************)
EXTENDS Naturals

CONSTANT MaxCommands     \* bound on the lines read

ASSUME MaxCommandsAssumption == MaxCommands \in Nat

Signals == {"INT", "QUIT"}
Processes == {"shell", "child"}

VARIABLES shell,         \* where the shell is
          child,         \* where its child is
          fatal,         \* fatal[p]: the signals that kill p
          commands       \* lines read so far

vars == <<shell, child, fatal, commands>>

\* The program that starts the shell may have it ignore a signal already.
Init == /\ shell = "setup" /\ child = "none"
        /\ fatal \in [Processes -> SUBSET Signals] /\ fatal["child"] = {}
        /\ commands = 0

\* Slip, for ImplementsJobControl: only SIGINT ignored.
SetupInt == /\ shell = "setup" /\ shell' = "next_cmd"
            /\ fatal' = [fatal EXCEPT !["shell"] = @ \ {"INT"}]
            /\ UNCHANGED <<child, commands>>

\* signal twice, one after the other.
setup == /\ \/ /\ shell = "setup" /\ shell' = "setup QUIT"
               /\ fatal' = [fatal EXCEPT !["shell"] = @ \ {"INT"}]
            \/ /\ shell = "setup QUIT" /\ shell' = "next_cmd"
               /\ fatal' = [fatal EXCEPT !["shell"] = @ \ {"QUIT"}]
         /\ UNCHANGED <<child, commands>>

\* A line and its words, the end of the input, or no memory for them.
next_cmd == /\ shell = "next_cmd"
            /\ \/ /\ commands < MaxCommands
                  /\ commands' = commands + 1
                  /\ shell' = "execute"
               \/ /\ shell' = "exited"
                  /\ UNCHANGED commands
            /\ UNCHANGED <<child, fatal>>

\* splitline may find no memory, and no word; fork may fail.
Return == /\ shell = "execute"
          /\ shell' \in {"next_cmd", "exited"}
          /\ UNCHANGED <<child, fatal, commands>>

Fork == /\ shell = "execute"
        /\ shell' = "wait"
        /\ child' = "signal INT"
        /\ fatal' = [fatal EXCEPT !["child"] = fatal["shell"]]
        /\ UNCHANGED commands

\* Slip, for ImplementsJobControl: the shell does not wait.
NoWait == /\ shell = "wait" /\ shell' = "next_cmd"
          /\ UNCHANGED <<child, fatal, commands>>

Wait == /\ shell = "wait" /\ child = "zombie"
        /\ shell' = "next_cmd" /\ child' = "none"
        /\ UNCHANGED <<fatal, commands>>

Shell == setup \/ next_cmd \/ Return \/ Fork \/ Wait
-----------------------------------------------------------------------------
\* Slip, for Interruptible: the child goes on with what it has inherited.
NoDefault == /\ child = "signal INT"
             /\ child' = "execvp"
             /\ UNCHANGED <<shell, fatal, commands>>

Default == /\ \/ /\ child = "signal INT" /\ child' = "signal QUIT"
                 /\ fatal' = [fatal EXCEPT !["child"] = @ \cup {"INT"}]
              \/ /\ child = "signal QUIT" /\ child' = "execvp"
                 /\ fatal' = [fatal EXCEPT !["child"] = @ \cup {"QUIT"}]
           /\ UNCHANGED <<shell, commands>>

\* Slip, for Prompted: return for exit(1), so that the child is a shell too.
ExecReturns == /\ child = "execvp"
               /\ child' \in {"program", "next_cmd"}
               /\ UNCHANGED <<shell, fatal, commands>>

\* The program, or perror and exit(1).
Execvp == /\ child = "execvp"
          /\ child' \in {"program", "zombie"}
          /\ UNCHANGED <<shell, fatal, commands>>

\* A program ends when it likes, or never.
Program == /\ child = "program" /\ child' = "zombie"
           /\ UNCHANGED <<shell, fatal, commands>>

Alive == [p \in Processes |-> IF p = "shell" THEN shell \notin {"exited", "killed"}
                                              ELSE child \notin {"none", "zombie"}]

\* Ctrl-C and Ctrl-\ reach every process of the terminal's foreground.
Terminal(signal) ==
  /\ \E p \in Processes : Alive[p] /\ signal \in fatal[p]
  /\ shell' = IF Alive["shell"] /\ signal \in fatal["shell"] THEN "killed" ELSE shell
  /\ child' = IF Alive["child"] /\ signal \in fatal["child"] THEN "zombie" ELSE child
  /\ UNCHANGED <<fatal, commands>>

Next == \/ Shell \/ Default \/ Execvp \/ Program
        \/ \E signal \in Signals : Terminal(signal)

\* Shell and child run; a program need not end, and nobody has to hit Ctrl-C,
\* nor to type a line.
Fairness == WF_vars(setup \/ Return \/ Fork \/ Wait) /\ WF_vars(Default \/ Execvp)

Spec == Init /\ [][Next]_vars
-----------------------------------------------------------------------------
TypeOK == /\ shell \in {"unstarted", "setup", "setup QUIT", "next_cmd", "execute", "wait",
                        "exited", "killed"}
          /\ child \in {"none", "signal INT", "signal QUIT", "execvp", "program", "zombie"}
          /\ fatal \in [Processes -> SUBSET Signals]
          /\ commands \in 0..MaxCommands

\* A shell that is set up is ended by no signal of the terminal.
Undisturbed == [][shell \notin {"setup", "setup QUIT"} => shell' # "killed"]_vars

\* Although the shell ignores the signals and its children inherit that, every
\* program can be stopped with either of them.
Interruptible == child = "program" => fatal["child"] = Signals

\* The shell prompts again once the command has ended, by itself, for want of a
\* program or by a signal: only a program that runs keeps it waiting.
Prompted == shell = "wait" ~> (shell = "next_cmd" \/ child = "program")

\* A shell that is "unstarted" is one that another module leaves aside.
Job == INSTANCE JobControl WITH
  shell <- CASE shell \in {"unstarted", "setup", "setup QUIT"} -> "starting"
             [] shell = "next_cmd"             -> "prompt"
             [] shell \in {"execute", "wait"}  -> "busy"
             [] shell \in {"exited", "killed"} -> "gone",
  job   <- CASE child = "none"   -> "none"
             [] child = "zombie" -> "done"
             [] OTHER            -> "running"

\* One command at a time, waited for before the next prompt, and no shell that
\* ends while its command runs.
ImplementsJobControl == Job!Spec
=============================================================================
