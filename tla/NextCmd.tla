------------------------------- MODULE NextCmd -------------------------------
(***************************************************************************)
(* next_cmd of splitline.c, called again and again by the loop of smsh1.c: *)
(* it reads a line into a buffer that grows by BUFSIZ at a time.  Each     *)
(* character is a turn of its loop.                                        *)
(***************************************************************************)
EXTENDS Integers, Sequences

CONSTANTS BUFSIZ,
          Char,          \* the characters that end no line
          Newline,
          Inputs         \* what the standard input may hold

\* With a BUFSIZ of 1 the growth would not make room for the end of the string.
ASSUME BUFSIZAssumption == BUFSIZ \in Nat /\ BUFSIZ >= 2
ASSUME InputsAssumption == Inputs \subseteq Seq(Char \cup {Newline})

EOF == <<>>

\* What getc returns at the end of the input is none of the characters.
ASSUME CharAssumption == Newline \notin Char /\ EOF \notin Char \cup {Newline}

VARIABLES stdin, input,  \* the whole input, and what getc has not returned of it
          pc,
          c,             \* the last character, or <<>> for EOF
          buf, bufspace, \* the string as far as it is stored; pos is its length
          cmdlines       \* the lines returned, with a newline after each

vars == <<stdin, input, pc, c, buf, bufspace, cmdlines>>

pos == Len(buf)

Init == /\ stdin \in Inputs /\ input = stdin
        /\ pc = "getc" /\ c = EOF
        /\ buf = <<>> /\ bufspace = 0
        /\ cmdlines = <<>>

getc == /\ pc = "getc"
        /\ IF input = <<>> THEN c' = EOF /\ pc' = "end" /\ UNCHANGED input
                           ELSE c' = Head(input) /\ input' = Tail(input) /\ pc' = "space"
        /\ UNCHANGED <<stdin, buf, bufspace, cmdlines>>

\* Slip, for InBounds: no place kept for the end of the string.
FullWhole == pos >= bufspace

Full == pos + 1 >= bufspace

\* emalloc for the first block, erealloc for the others; either exits for want
\* of memory.
Grow == /\ pc = "space"
        /\ IF Full THEN \/ bufspace' = bufspace + BUFSIZ /\ pc' = "store"
                        \/ bufspace' = bufspace /\ pc' = "fatal"
                   ELSE bufspace' = bufspace /\ pc' = "store"
        /\ UNCHANGED <<stdin, input, c, buf, cmdlines>>

Store == /\ pc = "store"
         /\ IF c = Newline THEN pc' = "end" /\ UNCHANGED buf
                           ELSE pc' = "getc" /\ buf' = Append(buf, c)
         /\ UNCHANGED <<stdin, input, c, bufspace, cmdlines>>

\* Slip, for Lines: NULL for every end of the input.
DropLast == /\ pc = "end"
            /\ IF c = EOF
               THEN pc' = "exited" /\ UNCHANGED <<buf, bufspace, cmdlines>>
               ELSE /\ cmdlines' = Append(cmdlines \o buf, Newline)
                    /\ buf' = <<>> /\ bufspace' = 0 /\ pc' = "getc"
            /\ UNCHANGED <<stdin, input, c>>

\* NULL, and main returns; or a line, and main calls next_cmd for the next.
Return == /\ pc = "end"
          /\ IF c = EOF /\ pos = 0
             THEN pc' = "exited" /\ UNCHANGED <<buf, bufspace, cmdlines>>
             ELSE /\ cmdlines' = Append(cmdlines \o buf, Newline)
                  /\ buf' = <<>> /\ bufspace' = 0 /\ pc' = "getc"
          /\ UNCHANGED <<stdin, input, c>>

Next == getc \/ Grow \/ Store \/ Return

Spec == Init /\ [][Next]_vars
-----------------------------------------------------------------------------
TypeOK == /\ stdin \in Inputs /\ input \in Seq(Char \cup {Newline})
          /\ pc \in {"getc", "space", "store", "end", "exited", "fatal"}
          /\ c \in Char \cup {Newline, EOF}
          /\ buf \in Seq(Char) /\ bufspace \in Nat
          /\ cmdlines \in Seq(Char \cup {Newline})

\* Every character stored, and the end of the string, lies inside the buffer:
\* the blocks are counted as the buffer is filled, for lines of any length.
InBounds == /\ pc = "store" => pos < bufspace
            /\ pc = "end" /\ ~(c = EOF /\ pos = 0) => pos < bufspace

\* The lines returned, what is read of the next one and what is left are the
\* whole input: no character is lost or comes twice, and a last line that no
\* newline ends is returned like one that has it.
Unended == stdin # <<>> /\ stdin[Len(stdin)] # Newline
Lines == /\ pc \in {"space", "store"} => cmdlines \o Append(buf, c) \o input = stdin
         /\ pc \in {"getc", "exited"} =>
              \/ cmdlines \o buf \o input = stdin
              \/ input = <<>> /\ Unended /\ cmdlines = Append(stdin, Newline)
         /\ pc = "exited" => cmdlines = IF Unended THEN Append(stdin, Newline) ELSE stdin
==============================================================================
