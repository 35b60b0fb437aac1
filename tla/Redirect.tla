------------------------------- MODULE Redirect ------------------------------
(***************************************************************************)
(* stdinredic1.c and stdinredic2.c of ch10: a line is read from the        *)
(* standard input, descriptor 0 is made to name another file, and a second *)
(* line is read.  stdio knows nothing of that: what its buffer holds is    *)
(* returned first.  Text comes in pieces, each what fgets can take at once *)
(* of what has been read: a whole line, or the most of a line that its     *)
(* array holds; and where what was read ends inside a line, a piece that   *)
(* is not whole, after which fgets reads on.                               *)
(***************************************************************************)
EXTENDS Naturals, Sequences

CONSTANT MaxPieces       \* bound on the text of a read, and on that of the first line's

VARIABLES program,       \* which of the two
          pc, fd0,       \* what descriptor 0 names
          buffer,        \* the pieces in the buffer of stdin, "whole" or "part"
          origin,        \* the file they were read from
          sticky,        \* has stdin met its end, which C99 has it remember?
          line,          \* the files from which fgets has put in the line
          text,          \* all the pieces read for the first line
          lines          \* the files the two lines come from, {} for no line

vars == <<program, pc, fd0, buffer, origin, sticky, line, text, lines>>

Init == /\ program \in {"stdinredic1", "stdinredic2"}
        /\ pc = "fgets" /\ fd0 = "stdin"
        /\ buffer = <<>> /\ origin = "stdin" /\ sticky = FALSE
        /\ line = {} /\ text = <<>> /\ lines = <<>>

\* n pieces, of which only the last may not be whole.
Pieces(n, last) == [k \in 1..n |-> IF k < n THEN "whole" ELSE last]

\* A terminal gives a line, or with Ctrl-D what there is of it, a file or pipe as much
\* as there is; nothing at the end.  /etc/passwd has a line.
Fill == /\ pc \in {"fgets", "again"} /\ buffer = <<>> /\ ~sticky
        /\ \E n \in 0..MaxPieces, last \in {"whole", "part"} :
             /\ fd0 = "closed" => n = 0
             /\ fd0 = "passwd" => n > 1 \/ (n = 1 /\ last = "whole")
             /\ buffer' = Pieces(n, last)
             /\ sticky' = (n = 0)
             /\ \/ pc = "fgets" /\ Len(text) + n <= MaxPieces /\ text' = text \o Pieces(n, last)
                \/ pc = "again" /\ UNCHANGED text
        /\ origin' = fd0
        /\ UNCHANGED <<program, pc, fd0, line, lines>>

Return(got) == /\ lines' = Append(lines, got) /\ line' = {}
               /\ pc' = IF pc = "fgets" THEN "redirect" ELSE "exited"

\* A piece that is not whole is put in the line, and fgets goes on; a whole one, or
\* the end, completes it.
fgets == /\ pc \in {"fgets", "again"}
         /\ \/ /\ buffer # <<>> /\ buffer' = Tail(buffer)
               /\ \/ Head(buffer) = "whole" /\ Return(line \cup {origin})
                  \/ Head(buffer) = "part" /\ line' = line \cup {origin} /\ UNCHANGED <<pc, lines>>
            \/ /\ buffer = <<>> /\ sticky /\ UNCHANGED buffer
               /\ Return(line)
         /\ UNCHANGED <<program, fd0, origin, sticky, text>>

\* Slip, for ReadAhead: open before close, which leaves nothing at 0.
OpenFirst == /\ pc = "redirect" /\ program = "stdinredic1"
             /\ fd0' = "closed" /\ pc' = "again"
             /\ UNCHANGED <<program, buffer, origin, sticky, line, text, lines>>

\* close(0), and open, which takes the lowest number that is free.
CloseOpen == /\ pc = "redirect" /\ program = "stdinredic1"
             /\ \/ fd0' = "passwd" /\ pc' = "again"
                \/ fd0' = "closed" /\ pc' = "failed"
             /\ UNCHANGED <<program, buffer, origin, sticky, line, text, lines>>

\* open, and dup2 of it to 0.
Dup2 == /\ pc = "redirect" /\ program = "stdinredic2"
        /\ \/ fd0' = "passwd" /\ pc' = "again"
           \/ pc' = "failed" /\ UNCHANGED fd0
        /\ UNCHANGED <<program, buffer, origin, sticky, line, text, lines>>

Next == Fill \/ fgets \/ CloseOpen \/ Dup2
-----------------------------------------------------------------------------
\* The second line is the new file's only when nothing was read beyond the first:
\* else it is the old input's next line, or the beginning of one that was read before
\* its end, and the new file's first line for the rest of it.  After the end of the
\* old input there is none.
ReadAhead ==
  pc = "exited" =>
    \/ /\ \A k \in 1..Len(text) : text[k] = "part"
       /\ lines[2] = {}
    \/ \E k \in 1..Len(text) :
         /\ text[k] = "whole" /\ \A j \in 1..k - 1 : text[j] = "part"
         /\ lines[2] = IF k = Len(text) THEN {"passwd"}
                       ELSE IF text[k + 1] = "whole" THEN {"stdin"} ELSE {"stdin", "passwd"}
==============================================================================
