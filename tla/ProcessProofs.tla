---------------------------- MODULE ProcessProofs ----------------------------
(***************************************************************************)
(* Proofs about the programs that fork, execute and redirect.  smsh1, for  *)
(* any number of commands: its invariants, that a signal of the terminal   *)
(* does not end a shell that is set up, and that it implements JobControl. *)
(* mysh1, for any commands: whose arguments run, and what is left of       *)
(* Ctrl-C.  pipedemo2, for any lengths: while the child is slow, the       *)
(* parent keeps inside buf and goes on.  stdinredic1 and stdinredic2:      *)
(* where the line after the redirection comes from.                        *)
(***************************************************************************)
EXTENDS ProcessPrograms, SequenceTheorems, TLAPS

all == <<vars, mysh1, mypipe, pipedemo2, stdinredic>>
-----------------------------------------------------------------------------
(* smsh1.                                                                  *)

\* A child is there exactly while the shell waits.
ChildWhenWaiting == child # "none" <=> shell = "wait"

\* What the shell ignores already, by where it is.
ShellIgnores == /\ shell = "setup QUIT" => "INT" \notin fatal["shell"]
                /\ shell \in {"unstarted", "next_cmd", "execute", "wait"} => fatal["shell"] = {}

\* What the child has taken back, by where it is.
ChildDefaults == /\ child = "signal QUIT" => "INT" \in fatal["child"]
                 /\ child \in {"execvp", "program"} => fatal["child"] = Signals

IInv == TypeOK /\ ChildWhenWaiting /\ ShellIgnores /\ ChildDefaults

\* The shell starts in IInv, and is there when it is not started.
LEMMA InitInv == OneInit => IInv
<1>1. CASE Init
  BY <1>1, MaxCommandsAssumption
  DEF Init, IInv, TypeOK, ChildWhenWaiting, ShellIgnores, ChildDefaults, Processes
<1>2. CASE NoSmsh1
  <2>1. fatal \in [Processes -> SUBSET Signals] /\ fatal["shell"] = {}
    BY <1>2 DEF NoSmsh1, Processes
  <2>2. QED
    BY <1>2, <2>1, MaxCommandsAssumption
    DEF NoSmsh1, IInv, TypeOK, ChildWhenWaiting, ShellIgnores, ChildDefaults
<1>3. QED
  BY <1>1, <1>2 DEF OneInit

\* A signal reaches a shell that is not set up, and then there is no child; or
\* it reaches the child, and then the shell ignores it.
LEMMA TerminalStep ==
  ASSUME IInv, NEW signal \in Signals, Terminal(signal)
  PROVE  \/ /\ shell \in {"setup", "setup QUIT"} /\ shell' = "killed"
            /\ child = "none" /\ child' = "none"
            /\ UNCHANGED <<fatal, commands>>
         \/ /\ shell = "wait" /\ UNCHANGED <<shell, fatal, commands>>
            /\ child \notin {"none", "zombie"} /\ child' = "zombie"
<1>1. UNCHANGED <<fatal, commands>>
  BY DEF Terminal
<1>2. CASE Alive["child"] /\ signal \in fatal["child"]
  <2>1. child \notin {"none", "zombie"}
    BY <1>2 DEF Alive, Processes
  <2>2. shell = "wait"
    BY <2>1 DEF IInv, ChildWhenWaiting
  <2>3. shell' = shell /\ child' = "zombie"
    BY <1>2, <2>2 DEF IInv, ShellIgnores, Terminal
  <2>4. QED
    BY <1>1, <2>1, <2>2, <2>3
<1>3. CASE ~(Alive["child"] /\ signal \in fatal["child"])
  <2>1. Alive["shell"] /\ signal \in fatal["shell"]
    BY <1>3 DEF Terminal, Processes
  <2>2. shell \in {"setup", "setup QUIT"}
    BY <2>1 DEF Alive, Processes, IInv, TypeOK, ShellIgnores
  <2>3. child = "none"
    BY <2>2 DEF IInv, ChildWhenWaiting
  <2>4. shell' = "killed" /\ child' = "none"
    BY <1>3, <2>1, <2>3 DEF Terminal
  <2>5. QED
    BY <1>1, <2>2, <2>3, <2>4
<1>4. QED
  BY <1>2, <1>3

LEMMA StepInv == IInv /\ [Next]_vars => IInv'
<1> SUFFICES ASSUME IInv, [Next]_vars PROVE IInv'
  OBVIOUS
<1> USE DEF IInv, TypeOK, ChildWhenWaiting, ShellIgnores, ChildDefaults, Processes, Signals
<1>1. CASE setup
  <2>1. child = "none" /\ child' = "none" /\ commands' = commands
    BY <1>1 DEF setup
  <2>2. CASE /\ shell = "setup" /\ shell' = "setup QUIT"
             /\ fatal' = [fatal EXCEPT !["shell"] = @ \ {"INT"}]
    BY <2>1, <2>2
  <2>3. CASE /\ shell = "setup QUIT" /\ shell' = "next_cmd"
             /\ fatal' = [fatal EXCEPT !["shell"] = @ \ {"QUIT"}]
    <3>1. fatal'["shell"] = {}
      BY <2>3
    <3>2. fatal' \in [Processes -> SUBSET Signals]
      BY <2>3
    <3>3. QED
      BY <2>1, <2>3, <3>1, <3>2
  <2>4. QED
    BY <1>1, <2>2, <2>3 DEF setup
<1>2. CASE next_cmd
  <2>1. commands' \in 0..MaxCommands
    BY <1>2, MaxCommandsAssumption DEF next_cmd
  <2>2. child = "none" /\ child' = "none" /\ fatal' = fatal
    BY <1>2 DEF next_cmd
  <2>3. shell = "next_cmd" /\ shell' \in {"execute", "exited"}
    BY <1>2 DEF next_cmd
  <2>4. QED
    BY <2>1, <2>2, <2>3
<1>3. CASE Return
  BY <1>3 DEF Return
<1>4. CASE Fork
  BY <1>4 DEF Fork
<1>5. CASE Wait
  BY <1>5 DEF Wait
<1>6. CASE Default
  BY <1>6 DEF Default
<1>7. CASE Execvp
  BY <1>7 DEF Execvp
<1>8. CASE Program
  BY <1>8 DEF Program
<1>9. ASSUME NEW signal \in Signals, Terminal(signal)
      PROVE  IInv'
  <2>1. CASE shell' = "killed" /\ child' = "none" /\ UNCHANGED <<fatal, commands>>
    BY <2>1
  <2>2. CASE shell = "wait" /\ child' = "zombie" /\ UNCHANGED <<shell, fatal, commands>>
    BY <2>2
  <2>3. QED
    BY <1>9, <2>1, <2>2, TerminalStep
<1>10. CASE UNCHANGED vars
  BY <1>10 DEF vars
<1>11. QED
  BY <1>1, <1>2, <1>3, <1>4, <1>5, <1>6, <1>7, <1>8, <1>9, <1>10 DEF Next, Shell

\* The invariant holds of every behaviour, whatever MaxCommands is.
THEOREM Invariance == OneSpec => []IInv
<1>1. [OneNext]_all => [Next]_vars
  BY DEF OneNext, all
<1>2. QED
  BY <1>1, InitInv, StepInv, PTL DEF OneSpec, all

\* The variables keep their types.
THEOREM TypeCorrect == OneSpec => []TypeOK
<1>1. IInv => TypeOK
  BY DEF IInv
<1>2. QED
  BY <1>1, Invariance, PTL

\* A program that the shell runs dies of both signals of the terminal, although
\* the shell ignores them and fork hands that down.
THEOREM ProgramsInterruptible == OneSpec => []Interruptible
<1>1. IInv => Interruptible
  BY DEF IInv, ChildDefaults, Interruptible
<1>2. QED
  BY <1>1, Invariance, PTL

\* Once both calls of signal have been made, neither signal ends the shell.
THEOREM ShellUndisturbed == OneSpec => Undisturbed
<1>1. IInv /\ [Next]_vars => [shell \notin {"setup", "setup QUIT"} => shell' # "killed"]_vars
  <2> SUFFICES ASSUME IInv, Next, shell \notin {"setup", "setup QUIT"}
               PROVE  shell' # "killed"
    OBVIOUS
  <2>1. CASE Shell
    BY <2>1 DEF Shell, setup, next_cmd, Return, Fork, Wait
  <2>2. CASE Default \/ Execvp \/ Program
    BY <2>2 DEF Default, Execvp, Program, IInv, ChildWhenWaiting
  <2>3. ASSUME NEW signal \in Signals, Terminal(signal)
        PROVE  shell' # "killed"
    BY <2>3, TerminalStep
  <2>4. QED
    BY <2>1, <2>2, <2>3 DEF Next
<1>2. [OneNext]_all => [Next]_vars
  BY DEF OneNext, all
<1>3. QED
  BY <1>1, <1>2, Invariance, PTL DEF OneSpec, all, Undisturbed

-----------------------------------------------------------------------------
LEMMA JobInit == OneInit => Job!Init
BY DEF OneInit, NoSmsh1, Init, Job!Init

LEMMA JobStep == IInv /\ [Next]_vars => [Job!Next]_Job!vars
<1> SUFFICES ASSUME IInv, [Next]_vars PROVE [Job!Next]_Job!vars
  OBVIOUS
<1> USE DEF IInv, TypeOK, ChildWhenWaiting, Job!vars
<1>1. CASE setup
  BY <1>1 DEF setup, Job!Next, Job!Ready
<1>2. CASE next_cmd
  BY <1>2 DEF next_cmd, Job!Next, Job!Read, Job!Leave
<1>3. CASE Return
  BY <1>3 DEF Return, Job!Next, Job!NoJob, Job!Leave
<1>4. CASE Fork
  BY <1>4 DEF Fork, Job!Next, Job!Launch
<1>5. CASE Wait
  BY <1>5 DEF Wait, Job!Next, Job!Reap
<1>6. CASE Default
  BY <1>6 DEF Default
<1>7. CASE Execvp \/ Program
  BY <1>7 DEF Execvp, Program, Job!Next, Job!Finish
<1>8. ASSUME NEW signal \in Signals, Terminal(signal)
      PROVE  [Job!Next]_Job!vars
  <2>1. CASE /\ shell \in {"setup", "setup QUIT"} /\ shell' = "killed"
             /\ child = "none" /\ child' = "none"
    BY <2>1 DEF Job!Next, Job!Leave
  <2>2. CASE /\ shell = "wait" /\ shell' = shell
             /\ child \notin {"none", "zombie"} /\ child' = "zombie"
    BY <2>2 DEF Job!Next, Job!Finish
  <2>3. QED
    BY <1>8, <2>1, <2>2, TerminalStep
<1>9. CASE UNCHANGED vars
  BY <1>9 DEF vars
<1>10. QED
  BY <1>1, <1>2, <1>3, <1>4, <1>5, <1>6, <1>7, <1>8, <1>9 DEF Next, Shell

\* However many commands are read: one at a time, each waited for, and no shell
\* that ends while its command runs.
THEOREM JobsControlled == OneSpec => ImplementsJobControl
<1>1. [OneNext]_all => [Next]_vars
  BY DEF OneNext, all
<1>2. QED
  BY <1>1, JobInit, JobStep, Invariance, PTL DEF OneSpec, all, ImplementsJobControl, Job!Spec
-----------------------------------------------------------------------------
(* mysh1, with any number of commands of any arguments.                    *)

\* The shell has no child at its prompt, and its arguments are those typed until
\* the child has them; it ignores SIGINT while it waits.
MyInv == /\ sh1child # "none" => sh1 \in {"signal", "wait", "killed"}
         /\ sh1 = "signal" => argv = arglist
         /\ sh1 \in {"fgets", "fork"} => arglist = typed
         /\ sh1 \in {"signal", "wait"} => typed = <<>>
         /\ sh1fatal \subseteq {"shell", "child"}
         /\ sh1 = "wait" => "shell" \notin sh1fatal

\* Neither the shell nor a child that is there is ended by SIGINT.
NobodyFatal == /\ "shell" \notin sh1fatal
               /\ "child" \in sh1fatal => sh1child = "none"

\* Once SIGINT is ignored it is never taken back.
LEMMA MyStep == ASSUME MyInv, [OneNext]_all
                PROVE  /\ MyInv'
                       /\ "shell" \notin sh1fatal => ("shell" \notin sh1fatal)'
                       /\ NobodyFatal => NobodyFatal'
<1>1. CASE UNCHANGED mysh1
  BY <1>1 DEF mysh1, MyInv, NobodyFatal
<1>2. CASE My!Argument \/ My!Exit \/ My!Empty \/ My!EndInput
  BY <1>2 DEF My!Argument, My!Exit, My!Empty, My!EndInput, MyInv, NobodyFatal
<1>3. CASE My!Fork
  BY <1>3 DEF My!Fork, MyInv, NobodyFatal
<1>4. CASE My!Signal \/ My!Wait \/ My!Child
  BY <1>4 DEF My!Signal, My!Wait, My!Child, MyInv, NobodyFatal
<1>5. CASE My!Interrupt
  BY <1>5 DEF My!Interrupt, My!Killable, MyInv, NobodyFatal
<1>6. QED
  BY <1>1, <1>2, <1>3, <1>4, <1>5 DEF OneNext, all, My!Next, My!Shell

\* mysh1 runs a command with what was typed for it, whatever forks fail before; and
\* Ctrl-C ends nothing any more from its second prompt on.
THEOREM FirstShellDeaf == OneSpec => FirstShell
<1>1. OneInit => MyInv
  BY DEF OneInit, My!Init, NoMysh1, MyInv
<1>2. MyInv => My!OwnArguments
  BY DEF MyInv, My!OwnArguments
<1>3. MyInv /\ sh1 = "wait" => "shell" \notin sh1fatal
  BY DEF MyInv
<1>4. MyInv /\ "shell" \notin sh1fatal /\ sh1 = "fgets" => NobodyFatal
  BY DEF MyInv, NobodyFatal
<1>5. MyInv /\ NobodyFatal => My!Killable = {}
  BY DEF MyInv, NobodyFatal, My!Killable
<1>6. QED
  BY <1>1, <1>2, <1>3, <1>4, <1>5, MyStep, PTL DEF OneSpec, FirstShell, My!Deaf, all
-----------------------------------------------------------------------------
(* stdinredic1 and stdinredic2, however much a read gives.                 *)

RedirTypeOK == /\ redir \in {"fgets", "redirect", "again", "exited", "failed"}
               /\ buffer \in Seq({"whole", "part"}) /\ text \in Seq({"whole", "part"}) /\ sticky \in BOOLEAN
               /\ fd0 \in {"stdin", "passwd", "closed"}
               /\ sticky => Len(buffer) = 0
               /\ \A k \in 1..Len(buffer) - 1 : buffer[k] = "whole"

\* While the first line is read, the text but for what is in the buffer is in the line,
\* and no piece of that was whole.
Used == Len(text) - Len(buffer)

FirstRead == redir = "fgets" =>
  /\ fd0 = "stdin" /\ origin = "stdin" /\ lines = <<>>
  /\ Used >= 0
  /\ \A k \in 1..Used : text[k] = "part"
  /\ \A k \in 1..Len(buffer) : buffer[k] = text[Used + k]

\* Then either the input has ended, or piece k, the first that is whole, has completed
\* the line and the next is still there, unless the new file is read for what it lacks.
Ended == sticky /\ \A k \in 1..Len(text) : text[k] = "part"

NewFile == /\ redir = "redirect" => Len(buffer) = 0
           /\ redir = "again" => fd0 = "passwd"
           /\ Len(buffer) > 0 => origin = "passwd" /\ buffer[1] = "whole"

LeftOver(k) ==
  /\ text[k] = "whole" /\ \A j \in 1..k - 1 : text[j] = "part"
  /\ redir = "again" => fd0 = "passwd"
  /\ k = Len(text) => line = {} /\ NewFile
  /\ k < Len(text) => \/ /\ line = {} /\ Len(buffer) > 0 /\ origin = "stdin" /\ buffer[1] = text[k + 1]
                         /\ buffer[1] = "part" => Len(buffer) = 1
                      \/ /\ redir = "again" /\ line = {"stdin"} /\ NewFile /\ text[k + 1] = "part"

SecondRead == redir \in {"redirect", "again"} =>
  /\ \E l : lines = <<l>>
  /\ \/ Ended /\ line = {}
     \/ ~sticky /\ \E k \in 1..Len(text) : LeftOver(k)

RedirInv == RedirTypeOK /\ FirstRead /\ SecondRead /\ ReadAhead

\* Of sequences: an empty one, the tail of one, and one after another.
LEMMA Empty == ASSUME NEW b, b = <<>> PROVE Len(b) = 0 /\ b \in Seq({"whole", "part"})
OBVIOUS

LEMMA NoneLeft == ASSUME NEW b \in Seq({"whole", "part"}), Len(b) = 0 PROVE b = <<>>
BY EmptySeq

LEMMA TailOf ==
  ASSUME NEW b \in Seq({"whole", "part"})
  PROVE  /\ Len(b) \in Nat
         /\ b = <<>> <=> Len(b) = 0
         /\ Len(b) > 0 => /\ Tail(b) \in Seq({"whole", "part"}) /\ Len(Tail(b)) = Len(b) - 1
                          /\ \A k \in 1..Len(b) - 1 : Tail(b)[k] = b[k + 1]
<1>1. Len(b) \in Nat
  OBVIOUS
<1>2. b = <<>> <=> Len(b) = 0
  BY EmptySeq
<1>3. Len(b) > 0 => /\ Tail(b) \in Seq({"whole", "part"}) /\ Len(Tail(b)) = Len(b) - 1
                    /\ \A k \in 1..Len(b) - 1 : Tail(b)[k] = b[k + 1]
  OBVIOUS
<1>4. QED
  BY <1>1, <1>2, <1>3

LEMMA Appended ==
  ASSUME NEW a \in Seq({"whole", "part"}), NEW b \in Seq({"whole", "part"})
  PROVE  /\ a \o b \in Seq({"whole", "part"}) /\ Len(a \o b) = Len(a) + Len(b)
         /\ \A k \in 1..Len(a) : (a \o b)[k] = a[k]
         /\ \A k \in 1..Len(b) : (a \o b)[Len(a) + k] = b[k]
OBVIOUS

\* What a read gives: so many pieces, all whole but perhaps the last.
LEMMA PiecesRead ==
  ASSUME NEW n \in Nat, NEW last \in {"whole", "part"}
  PROVE  /\ Redir!Pieces(n, last) \in Seq({"whole", "part"}) /\ Len(Redir!Pieces(n, last)) = n
         /\ \A k \in 1..n - 1 : Redir!Pieces(n, last)[k] = "whole"
         /\ n > 0 => (Redir!Pieces(n, last)[n] = last)
BY DEF Redir!Pieces

\* A read comes only where the buffer is empty: the first line still wants text, or the
\* second, of which the old input has given nothing, or a part that was not whole.
LEMMA FillStep == ASSUME RedirInv, Redir!Fill PROVE RedirInv'
<1>1. /\ UNCHANGED <<redir, fd0, line, lines>> /\ redir \in {"fgets", "again"}
      /\ Len(buffer) = 0 /\ sticky = FALSE /\ origin' = fd0
  BY Empty DEF Redir!Fill, RedirInv, RedirTypeOK
<1>2. PICK n \in 0..MaxPieces, last \in {"whole", "part"} :
        /\ fd0 = "passwd" => n > 1 \/ (n = 1 /\ last = "whole")
        /\ buffer' = Redir!Pieces(n, last) /\ sticky' = (n = 0)
        /\ \/ redir = "fgets" /\ text' = text \o Redir!Pieces(n, last)
           \/ redir = "again" /\ text' = text
  BY DEF Redir!Fill
<1>3. /\ n \in Nat /\ buffer' \in Seq({"whole", "part"}) /\ Len(buffer') = n
      /\ \A k \in 1..n - 1 : buffer'[k] = "whole"
  BY <1>2, PiecesRead, MaxPiecesAssumption
<1>4. sticky' \in BOOLEAN /\ (sticky' => n = 0) /\ (n # 0 => ~sticky')
  BY <1>2, Zenon
<1>5. text \in Seq({"whole", "part"}) /\ text' \in Seq({"whole", "part"})
  <2>1. text \in Seq({"whole", "part"})
    BY DEF RedirInv, RedirTypeOK
  <2>2. text' = text \o buffer' \/ text' = text
    BY <1>2
  <2>3. QED
    BY <1>3, <2>1, <2>2, Appended
<1>6. RedirTypeOK'
  BY <1>1, <1>3, <1>4, <1>5 DEF RedirInv, RedirTypeOK
<1>7. FirstRead'
  <2>1. SUFFICES ASSUME redir = "fgets" PROVE FirstRead'
    BY <1>1 DEF FirstRead
  <2>2. Len(buffer) = 0 /\ Used = Len(text)
    BY <1>1, <1>5 DEF Used
  <2>3. text' = text \o buffer'
    BY <1>2, <2>1
  <2>4. Len(text') = Len(text) + n /\ Used' = Len(text)
    <3>1. Len(text') = Len(text) + Len(buffer')
      BY <1>3, <1>5, <2>3, Appended
    <3>2. Len(text) \in Nat
      BY <1>5
    <3>3. QED
      BY <1>3, <3>1, <3>2 DEF Used
  <2>5. /\ \A k \in 1..Len(text) : text'[k] = text[k]
        /\ \A k \in 1..n : text'[Len(text) + k] = buffer'[k]
    BY <1>3, <1>5, <2>3, Appended
  <2>6. QED
    BY <1>1, <1>3, <1>5, <2>1, <2>2, <2>4, <2>5 DEF RedirInv, FirstRead
<1>8. SecondRead'
  <2>1. SUFFICES ASSUME redir = "again" PROVE SecondRead'
    BY <1>1 DEF SecondRead
  <2>2. PICK k \in 1..Len(text) : LeftOver(k)
    BY <1>1, <2>1 DEF RedirInv, SecondRead, Ended
  <2>3. fd0 = "passwd" /\ text' = text /\ n > 0 /\ buffer'[1] = "whole"
    <3>1. fd0 = "passwd" /\ text' = text
      BY <1>2, <2>1, <2>2 DEF LeftOver
    <3>2. n > 1 \/ (n = 1 /\ last = "whole")
      BY <1>2, <3>1
    <3>3. QED
      BY <1>2, <1>3, <3>1, <3>2, PiecesRead
  <2>4. NewFile'
    BY <1>1, <2>1, <2>3 DEF NewFile
  <2>5. LeftOver(k)'
    BY <1>1, <2>1, <2>2, <2>3, <2>4 DEF LeftOver
  <2>6. QED
    BY <1>1, <1>4, <2>1, <2>2, <2>3, <2>5 DEF RedirInv, SecondRead
<1>9. ReadAhead'
  BY <1>1 DEF ReadAhead, Redir!ReadAhead
<1>10. QED
  BY <1>6, <1>7, <1>8, <1>9 DEF RedirInv

\* fgets takes the first piece of the buffer, or meets the end.
LEMMA LineStep == ASSUME RedirInv, Redir!fgets PROVE RedirInv'
<1>1. /\ UNCHANGED <<fd0, origin, sticky, text>> /\ redir \in {"fgets", "again"}
      /\ buffer \in Seq({"whole", "part"}) /\ text \in Seq({"whole", "part"}) /\ Len(buffer) \in Nat /\ Len(text) \in Nat
  BY DEF Redir!fgets, RedirInv, RedirTypeOK
<1>2. \/ /\ Len(buffer) > 0 /\ buffer' = Tail(buffer) /\ buffer[1] = "whole" /\ Redir!Return(line \cup {origin})
      \/ /\ Len(buffer) > 0 /\ buffer' = Tail(buffer) /\ buffer[1] = "part"
         /\ line' = line \cup {origin} /\ UNCHANGED <<redir, lines>>
      \/ Len(buffer) = 0 /\ sticky /\ buffer' = buffer /\ Redir!Return(line)
  <2>1. buffer = <<>> <=> Len(buffer) = 0
    BY <1>1, TailOf
  <2>2. Len(buffer) > 0 => Head(buffer) = buffer[1]
    BY <1>1
  <2>3. QED
    BY <1>1, <2>1, <2>2 DEF Redir!fgets
<1>3. Len(buffer) > 0 => /\ Tail(buffer) \in Seq({"whole", "part"})
                         /\ Len(Tail(buffer)) = Len(buffer) - 1
                         /\ \A k \in 1..Len(buffer) - 1 : Tail(buffer)[k] = buffer[k + 1]
  BY <1>1, TailOf
<1>4. RedirTypeOK'
  <2>1. buffer' \in Seq({"whole", "part"}) /\ (sticky => Len(buffer') = 0) /\ \A k \in 1..Len(buffer') - 1 : buffer'[k] = "whole"
    <3>1. (sticky => Len(buffer) = 0) /\ \A k \in 1..Len(buffer) - 1 : buffer[k] = "whole"
      BY DEF RedirInv, RedirTypeOK
    <3>2. CASE Len(buffer) = 0 /\ buffer' = buffer
      BY <1>1, <3>1, <3>2
    <3>3. CASE Len(buffer) > 0 /\ buffer' = Tail(buffer)
      <4>1. buffer' \in Seq({"whole", "part"}) /\ Len(buffer') = Len(buffer) - 1 /\ ~sticky
        BY <1>3, <3>1, <3>3
      <4>2. ASSUME NEW k \in 1..Len(buffer') - 1 PROVE buffer'[k] = "whole"
        <5>1. k \in 1..Len(buffer) - 1 /\ k + 1 \in 1..Len(buffer) - 1
          BY <1>1, <4>1
        <5>2. QED
          BY <1>3, <3>1, <3>3, <5>1
      <4>3. QED
        BY <4>1, <4>2
    <3>4. QED
      BY <1>2, <3>2, <3>3
  <2>2. redir' \in {redir, "redirect", "exited"}
    BY <1>2 DEF Redir!Return
  <2>3. QED
    BY <1>1, <2>1, <2>2 DEF RedirInv, RedirTypeOK
<1>5. CASE redir = "fgets"
  <2>1. /\ fd0 = "stdin" /\ origin = "stdin" /\ lines = <<>> /\ Used >= 0 /\ Used \in Int
        /\ \A k \in 1..Used : text[k] = "part"
        /\ \A k \in 1..Len(buffer) : buffer[k] = text[Used + k]
    BY <1>1, <1>5 DEF RedirInv, FirstRead, Used
  <2>2. CASE Len(buffer) > 0 /\ buffer[1] = "part"
    <3>1. redir' = redir /\ lines' = lines /\ buffer' = Tail(buffer)
      BY <1>2, <2>2
    <3>2. Used' = Used + 1 /\ text[Used + 1] = "part"
      <4>1. Used' = Used + 1
        BY <1>1, <1>3, <2>2, <3>1 DEF Used
      <4>2. 1 \in 1..Len(buffer) /\ buffer[1] = "part"
        BY <1>1, <2>2
      <4>3. QED
        BY <2>1, <4>1, <4>2
    <3>3. \A k \in 1..Used' : text[k] = "part"
      BY <2>1, <3>2
    <3>4. \A k \in 1..Len(buffer') : buffer'[k] = text[Used' + k]
      <4>1. SUFFICES ASSUME NEW k \in 1..Len(buffer') PROVE buffer'[k] = text[Used' + k]
        OBVIOUS
      <4>2. k \in 1..Len(buffer) - 1 /\ k + 1 \in 1..Len(buffer) /\ Used + (k + 1) = (Used + 1) + k
        BY <1>1, <1>3, <2>1, <2>2, <3>1, <4>1
      <4>3. QED
        BY <1>3, <2>1, <2>2, <3>1, <3>2, <4>2
    <3>5. QED
      BY <1>1, <1>4, <1>5, <2>1, <3>1, <3>2, <3>3, <3>4 DEF RedirInv, FirstRead, SecondRead, ReadAhead, Redir!ReadAhead
  <2>3. CASE Len(buffer) > 0 /\ buffer[1] = "whole"
    <3>1. /\ redir' = "redirect" /\ line' = {} /\ \E l : lines' = <<l>>
          /\ buffer' = Tail(buffer) /\ ~sticky
      BY <1>2, <1>5, <2>1, <2>3 DEF Redir!Return, RedirInv, RedirTypeOK
    <3>0. PICK k \in Int : k = Used + 1
      BY <2>1
    <3>2. k \in 1..Len(text) /\ text[k] = "whole" /\ \A j \in 1..k - 1 : text[j] = "part"
      <4>1. 1 \in 1..Len(buffer) /\ buffer[1] = "whole" /\ Used + Len(buffer) = Len(text)
        BY <1>1, <2>3 DEF Used
      <4>2. QED
        BY <1>1, <2>1, <3>0, <4>1
    <3>3. k = Len(text) => Len(buffer') = 0
      BY <1>1, <1>3, <2>1, <2>3, <3>0, <3>1 DEF Used
    <3>4. k < Len(text) => Len(buffer') > 0 /\ buffer'[1] = text[k + 1]
      <4>1. SUFFICES ASSUME k < Len(text) PROVE Len(buffer') > 0 /\ buffer'[1] = text[k + 1]
        OBVIOUS
      <4>2. Len(buffer) >= 2 /\ 1 \in 1..Len(buffer) - 1 /\ 2 \in 1..Len(buffer) /\ Used + 2 = k + 1
        BY <1>1, <1>3, <2>1, <2>3, <3>0, <4>1 DEF Used
      <4>3. Len(buffer') > 0 /\ buffer'[1] = buffer[2]
        BY <1>1, <1>3, <2>3, <3>1, <4>2
      <4>4. QED
        BY <2>1, <4>2, <4>3
    <3>5. buffer'[1] = "part" /\ Len(buffer') > 0 => Len(buffer') = 1
      <4>1. Len(buffer') \in Nat /\ \A j \in 1..Len(buffer') - 1 : buffer'[j] = "whole"
        BY <1>4 DEF RedirTypeOK
      <4>2. Len(buffer') \in Nat /\ (Len(buffer') > 1 => buffer'[1] # "part")
        BY <4>1
      <4>3. \A m \in Nat : m > 0 /\ ~(m > 1) => m = 1
        OBVIOUS
      <4>4. QED
        BY <4>2, <4>3
    <3>6. LeftOver(k)'
      BY <1>1, <2>1, <3>1, <3>2, <3>3, <3>4, <3>5 DEF LeftOver, NewFile
    <3>7. QED
      BY <1>1, <1>4, <3>1, <3>2, <3>6 DEF RedirInv, FirstRead, SecondRead, ReadAhead, Redir!ReadAhead
  <2>4. CASE Len(buffer) = 0
    <3>1. redir' = "redirect" /\ line' = {} /\ (\E l : lines' = <<l>>) /\ sticky
      BY <1>2, <1>5, <2>1, <2>4 DEF Redir!Return
    <3>2. Ended'
      BY <1>1, <2>1, <2>4, <3>1 DEF Ended, Used
    <3>3. QED
      BY <1>1, <1>4, <3>1, <3>2 DEF RedirInv, FirstRead, SecondRead, ReadAhead, Redir!ReadAhead
  <2>5. QED
    BY <1>2, <2>2, <2>3, <2>4
<1>6. CASE redir = "again"
  <2>1. PICK l : lines = <<l>>
    BY <1>6 DEF RedirInv, SecondRead
  <2>2. \A got : Redir!Return(got) => redir' = "exited" /\ lines'[2] = got
    BY <1>6, <2>1 DEF Redir!Return
  <2>3. CASE Ended /\ line = {}
    <3>1. redir' = "exited" /\ lines'[2] = {}
      BY <1>2, <2>2, <2>3 DEF Ended, RedirInv, RedirTypeOK
    <3>2. ReadAhead'
      BY <1>1, <2>3, <3>1 DEF Ended, ReadAhead, Redir!ReadAhead
    <3>3. QED
      BY <1>4, <3>1, <3>2 DEF RedirInv, FirstRead, SecondRead
  <2>4. CASE ~sticky /\ \E k \in 1..Len(text) : LeftOver(k)
    <3>1. PICK k \in 1..Len(text) : LeftOver(k)
      BY <2>4
    <3>2. Len(buffer) > 0
      BY <1>2, <2>4
    <3>3. CASE buffer[1] = "whole"
      <4>1. redir' = "exited" /\ lines'[2] = line \cup {origin}
        BY <1>2, <2>2, <2>4, <3>3
      <4>2. line \cup {origin} = IF k = Len(text) THEN {"passwd"}
                                ELSE IF text[k + 1] = "whole" THEN {"stdin"} ELSE {"stdin", "passwd"}
        BY <1>1, <3>1, <3>2, <3>3 DEF LeftOver, NewFile
      <4>3. text[k] = "whole" /\ \A j \in 1..k - 1 : text[j] = "part"
        BY <3>1 DEF LeftOver
      <4>4. ReadAhead'
        BY <1>1, <3>1, <4>1, <4>2, <4>3 DEF ReadAhead, Redir!ReadAhead
      <4>5. QED
        BY <1>4, <4>1, <4>4 DEF RedirInv, FirstRead, SecondRead
    <3>4. CASE buffer[1] = "part"
      <4>1. redir' = redir /\ lines' = lines /\ line' = line \cup {origin} /\ buffer' = Tail(buffer)
        BY <1>2, <3>2, <3>4
      <4>2. /\ k < Len(text) /\ line = {} /\ origin = "stdin" /\ text[k + 1] = "part" /\ Len(buffer) = 1
        BY <1>1, <3>1, <3>2, <3>4 DEF LeftOver, NewFile
      <4>3. line' = {"stdin"} /\ Len(buffer') = 0
        BY <1>3, <3>2, <4>1, <4>2
      <4>4. LeftOver(k)'
        BY <1>1, <1>6, <3>1, <4>1, <4>2, <4>3 DEF LeftOver, NewFile
      <4>5. QED
        BY <1>1, <1>4, <1>6, <2>1, <2>4, <3>1, <4>1, <4>4
           DEF RedirInv, FirstRead, SecondRead, ReadAhead, Redir!ReadAhead
    <3>5. QED
      BY <1>2, <3>2, <3>3, <3>4
  <2>5. QED
    BY <1>6, <2>3, <2>4 DEF RedirInv, SecondRead
<1>7. QED
  BY <1>1, <1>5, <1>6

\* The new file is put in the place of the old one, below the buffer.
LEMMA RedirectStep == ASSUME RedirInv, Redir!CloseOpen \/ Redir!Dup2 PROVE RedirInv'
<1>1. /\ UNCHANGED <<buffer, origin, sticky, line, text, lines>> /\ redir = "redirect"
      /\ (redir' = "again" /\ fd0' = "passwd") \/ redir' = "failed"
      /\ fd0' \in {fd0, "passwd", "closed"}
  BY DEF Redir!CloseOpen, Redir!Dup2
<1>2. RedirTypeOK' /\ FirstRead' /\ ReadAhead'
  BY <1>1 DEF RedirInv, RedirTypeOK, FirstRead, ReadAhead, Redir!ReadAhead
<1>3. SecondRead'
  <2>1. (NewFile => NewFile') /\ (Ended => Ended')
    BY <1>1 DEF NewFile, Ended
  <2>2. \A k \in 1..Len(text) : redir' = "again" /\ LeftOver(k) => LeftOver(k)'
    BY <1>1, <2>1 DEF LeftOver
  <2>3. QED
    BY <1>1, <2>1, <2>2 DEF RedirInv, SecondRead
<1>4. QED
  BY <1>2, <1>3 DEF RedirInv

\* What the second line is follows from what the reads for the first have given, whole
\* lines or not.
THEOREM LinesFromOld == OneSpec => []ReadAhead
<1>1. OneInit => RedirInv
  <2>1. SUFFICES ASSUME Redir!Init \/ NoRedirect PROVE RedirInv
    BY DEF OneInit
  <2>2. /\ sticky = FALSE /\ lines = <<>> /\ origin = "stdin" /\ fd0 = "stdin"
        /\ redir \in {"fgets", "failed"}
    BY <2>1 DEF Redir!Init, NoRedirect
  <2>3. RedirTypeOK /\ FirstRead
    <3>1. /\ Len(buffer) = 0 /\ buffer \in Seq({"whole", "part"})
          /\ Len(text) = 0 /\ text \in Seq({"whole", "part"})
      BY <2>1, Empty DEF Redir!Init, NoRedirect
    <3>2. RedirTypeOK
      <4>1. \A k \in 1..Len(buffer) - 1 : buffer[k] = "whole"
        BY <3>1
      <4>2. QED
        BY <2>2, <3>1, <4>1 DEF RedirTypeOK
    <3>3. FirstRead
      BY <2>2, <3>1 DEF FirstRead, Used
    <3>4. QED
      BY <3>2, <3>3
  <2>4. SecondRead /\ ReadAhead
    BY <2>2 DEF SecondRead, ReadAhead, Redir!ReadAhead
  <2>5. QED
    BY <2>3, <2>4 DEF RedirInv
<1>2. RedirInv /\ [OneNext]_all => RedirInv'
  <2>1. SUFFICES ASSUME RedirInv, [OneNext]_all PROVE RedirInv'
    OBVIOUS
  <2>2. CASE UNCHANGED stdinredic
    BY <2>1, <2>2 DEF stdinredic, RedirInv, RedirTypeOK, FirstRead, Used, SecondRead, Ended, LeftOver, NewFile,
                      ReadAhead, Redir!ReadAhead
  <2>3. QED
    BY <2>1, <2>2, FillStep, LineStep, RedirectStep DEF OneNext, all, Redir!Next
<1>3. RedirInv => ReadAhead
  BY DEF RedirInv
<1>4. QED
  BY <1>1, <1>2, <1>3, PTL DEF OneSpec, all
-----------------------------------------------------------------------------
(* pipedemo2, for messages, buffers and pipes of any length.               *)

\* While the child has not fallen behind, what is in the pipe is what it has written
\* since the last read, and the parent's own message once that is there.
PaceInv == ~fell_behind =>
             /\ demo \in {"pipe", "write", "read", "show", "exited", "killed"}
             /\ content \in Nat /\ ahead \in Nat /\ ahead <= Demo!Slack
             /\ demo \in {"pipe", "write", "show"} => content = ahead
             /\ demo = "read" => content = ahead + PAR_MESS

\* A step of either keeps that up.
LEMMA PaceStep == ASSUME PaceInv, [OneNext]_all PROVE PaceInv'
<1> SUFFICES ASSUME ~fell_behind' PROVE PaceInv'
  BY DEF PaceInv
<1> USE PipeDemo2Assumption
<1>1. CASE UNCHANGED pipedemo2
  BY <1>1 DEF pipedemo2, PaceInv, Demo!Slack
<1>2. CASE Demo!Start \/ Demo!ParentWrite \/ Demo!Show
  BY <1>2 DEF Demo!Start, Demo!ParentWrite, Demo!Show, PaceInv, Demo!Slack
<1>3. CASE Demo!ChildWrite
  <2>1. ~fell_behind /\ ~(ahead' > Demo!Slack)
    BY <1>3, Zenon DEF Demo!ChildWrite
  <2>2. QED
    BY <1>3, <2>1 DEF Demo!ChildWrite, PaceInv, Demo!Slack
<1>4. CASE Demo!Read
  <2>1. ~fell_behind /\ content < BUFSIZ
    BY <1>4 DEF Demo!Read, PaceInv, Demo!Slack
  <2>2. content' = 0 /\ ahead' = 0 /\ demo' = "show"
    BY <1>4, <2>1 DEF Demo!Read, Demo!read_len, PaceInv
  <2>3. QED
    BY <2>2 DEF PaceInv, Demo!Slack
<1>5. QED
  BY <1>1, <1>2, <1>3, <1>4 DEF OneNext, all, Demo!Next

\* As long as the child gets in no more than buf has room for between two reads, the
\* parent writes inside buf and never waits for itself.
THEOREM PaceKept == OneSpec => []Pace
<1>1. OneInit => PaceInv
  BY PipeDemo2Assumption DEF OneInit, Demo!Init, NoDemo, PaceInv, Demo!Slack
<1>2. PaceInv => Pace
  BY PipeDemo2Assumption DEF PaceInv, Pace, Demo!Pace, Demo!ParentBlocked, Demo!Slack
<1>3. QED
  BY <1>1, <1>2, PaceStep, PTL DEF OneSpec, all
==============================================================================
