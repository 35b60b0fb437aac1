-------------------------------- MODULE Copies -------------------------------
(***************************************************************************)
(* cp1.c and cat1.c of ch1: a file is read a block at a time and written   *)
(* to another, which may be the same one, or printed as a string.  Other   *)
(* processes append to the file meanwhile.                                 *)
(*                                                                         *)
(* A file is a sequence of bytes, and "NUL" is one of them.                 *)
(***************************************************************************)
EXTENDS Integers, Sequences

CONSTANTS Contents, Added,     \* of the source at first, and a byte that comes later
          BUFFSIZE,
          MaxAppends, MaxFails \* bounds on appends, and on reads of cat1 that fail

VARIABLES program, pc,
          src, original, dst,  \* the source now, as it was opened, and the copy
          same,                \* is the destination the source?
          offset, buf, n_chars,
          out,                 \* what cat1 has printed
          fails

file == <<src, original, dst, same>>
vars == <<program, pc, file, offset, buf, n_chars, out, fails>>

\* Nothing is read into buf yet: what is there may or may not end a string.
Init == /\ program \in {"cp1", "cat1"} /\ pc = "open"
        /\ src \in Contents /\ original = src /\ dst = <<>>
        /\ same \in {FALSE, program = "cp1"}
        /\ offset = 0 /\ n_chars = 0 /\ out = <<>> /\ fails = 0
        /\ buf \in {[k \in 1..BUFFSIZE |-> b] : b \in {"NUL", "?"}}

\* Both open their file, cp1 goes on to creat, which empties its file.
Open == /\ pc = "open"
        /\ \/ pc' = "stopped" /\ UNCHANGED file
           \/ /\ pc' = "read"
              /\ src' = IF same THEN <<>> ELSE src
              /\ original' = src
              /\ UNCHANGED <<dst, same>>
        /\ UNCHANGED <<program, offset, buf, n_chars, out, fails>>

\* Behind the bytes that were read, buf stays as it was.  None is the end.
Read == /\ pc = "read"
        /\ LET rest == Len(src) - offset
               n == IF rest < BUFFSIZE THEN rest ELSE BUFFSIZE
           IN  /\ n_chars' = n /\ offset' = offset + n
               /\ buf' = [k \in 1..BUFFSIZE |-> IF k <= n THEN src[offset + k] ELSE buf[k]]
               /\ pc' = IF n = 0 THEN "done" ELSE program
        /\ UNCHANGED <<program, file, out, fails>>

\* The result -1 ends the loop of cp1, and not that of cat1.
ReadFails == /\ pc = "read" /\ n_chars' = -1
             /\ \/ program = "cp1" /\ pc' = "stopped" /\ UNCHANGED fails
                \/ /\ program = "cat1" /\ pc' = "cat1"
                   /\ fails < MaxFails /\ fails' = fails + 1
             /\ UNCHANGED <<program, file, offset, buf, out>>

\* Slip, for BlocksCopied: the whole buffer is written.
WriteAll == /\ pc = "cp1" /\ pc' = "read"
            /\ dst' = dst \o buf
            /\ UNCHANGED <<program, src, original, same, offset, buf, n_chars, out, fails>>

\* A write that falls short stops cp1.  In a copy onto itself the bytes go where
\* they came from.
Write == /\ pc = "cp1"
         /\ \/ pc' = "stopped" /\ UNCHANGED dst
            \/ /\ pc' = "read"
               /\ dst' = IF same THEN dst ELSE dst \o SubSeq(buf, 1, n_chars)
         /\ UNCHANGED <<program, src, original, same, offset, buf, n_chars, out, fails>>

Ends == {k \in 1..BUFFSIZE : buf[k] = "NUL"}

\* Slip, for BlocksCopied: the string ended behind the bytes that were read.
PrintRead == /\ pc = "cat1" /\ pc' = "read"
             /\ out' = out \o SubSeq(buf, 1, n_chars)
             /\ UNCHANGED <<program, file, offset, buf, n_chars, fails>>

\* printf("%s"): up to the first zero, or what lies behind the buffer as well.
Printf == /\ pc = "cat1" /\ pc' = "read"
          /\ \/ /\ Ends # {}
                /\ out' = out \o SubSeq(buf, 1, (CHOOSE k \in Ends : \A j \in Ends : k <= j) - 1)
             \/ Ends = {} /\ out' \in {out \o buf, out \o Append(buf, "?")}
          /\ UNCHANGED <<program, file, offset, buf, n_chars, fails>>

\* Another process.
AppendByte == /\ Len(src) < Len(original) + MaxAppends /\ pc \notin {"open", "done", "stopped"}
              /\ src' = Append(src, Added)
              /\ UNCHANGED <<program, pc, original, dst, same, offset, buf, n_chars, out, fails>>

Next == Open \/ Read \/ ReadFails \/ Write \/ Printf \/ AppendByte
-----------------------------------------------------------------------------
\* A copy is what the source was when it was opened and some of what has been
\* appended since; of a file that is copied onto itself nothing is left but that.
CopyExact == (program = "cp1" /\ pc = "done") =>
             /\ offset = Len(src)
             /\ IF same THEN \A k \in DOMAIN src : src[k] = Added
                ELSE dst = src /\ SubSeq(dst, 1, Len(original)) = original

\* cat1 prints a text that does not change rightly when it is shorter than the
\* buffer and the buffer was clear; of one that is longer, and no multiple, it
\* prints a tail of the block before once more.
StaleTail == (program = "cat1" /\ pc = "done" /\ fails = 0 /\ src = original) =>
             LET n == Len(src)
             IN  (\A k \in 1..n : src[k] # "NUL") =>
                 /\ (n < BUFFSIZE /\ buf[BUFFSIZE] = "NUL") => out = src
                 /\ (n > BUFFSIZE /\ n % BUFFSIZE # 0) => Len(out) > n
=============================================================================
