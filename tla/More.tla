--------------------------------- MODULE More --------------------------------
(***************************************************************************)
(* more02.c of ch1, and more01.c, which does not open the terminal: show   *)
(* the files, or the standard input, a page at a time, and ask between the *)
(* pages.  The answers are read with getchar, and so from the standard     *)
(* input, also where that is the text.                                     *)
(*                                                                         *)
(* A text is a sequence of lines, and a line a sequence of characters, of  *)
(* which only " ", q and the newline, here the end of a line, matter.      *)
(***************************************************************************)
EXTENDS Integers, Sequences

CONSTANTS PAGELEN,
          StdinTexts,    \* texts that may be given on the standard input
          FileLists,     \* sequences of texts that may be given as files
          MaxKeys        \* bound on the keys hit

Keys == {" ", "q", "newline", "other"}

VARIABLES pc,
          piped,         \* is the text the standard input?
          files,         \* the files still to be shown
          fp,            \* what is left of the one that is being shown
          line, num_of_lines,
          typed, keys,   \* answers not yet read, and the keys hit so far
          whole, shown,  \* the texts there were, and what of each is on the screen
          broken         \* has q, the end of the keyboard, or a failure cut a text short?

screen == <<whole, shown, broken>>
vars == <<pc, piped, files, fp, line, num_of_lines, typed, keys, screen>>

Init == /\ piped \in BOOLEAN
        /\ files \in IF piped THEN {<<t>> : t \in StdinTexts} ELSE FileLists
        /\ whole = files
        /\ pc = "fopen"
        /\ fp = <<>> /\ line = <<>> /\ num_of_lines = 0
        /\ typed = <<>> /\ keys = 0
        /\ shown = <<>> /\ broken = FALSE

\* main, and do_more as far as its loop: the next text, or the end.  A file or
\* a terminal that cannot be opened ends it all.
Fopen == /\ pc = "fopen"
         /\ \/ /\ files # <<>>
               /\ fp' = Head(files) /\ files' = Tail(files)
               /\ num_of_lines' = 0 /\ shown' = Append(shown, <<>>)
               /\ pc' = "fgets"
               /\ UNCHANGED broken
            \/ /\ files = <<>> /\ pc' = "exited"
               /\ UNCHANGED <<fp, files, num_of_lines, shown, broken>>
            \/ /\ files # <<>> /\ pc' = "exited"
               /\ broken' = TRUE
               /\ UNCHANGED <<fp, files, num_of_lines, shown>>
         /\ UNCHANGED <<piped, line, typed, keys, whole>>

Fgets == /\ pc = "fgets"
         /\ IF fp = <<>> THEN pc' = "fopen" /\ UNCHANGED <<fp, line>>
            ELSE /\ line' = Head(fp) /\ fp' = Tail(fp)
                 /\ pc' = IF num_of_lines = PAGELEN THEN "see_more" ELSE "fputs"
         /\ UNCHANGED <<piped, files, num_of_lines, typed, keys, screen>>

\* Slip, for AllShown: the loop continued after an answer, without the line that
\* had been read before it.
ReplyContinue(c) == /\ num_of_lines' = num_of_lines - (IF c = " " THEN PAGELEN ELSE 1)
                    /\ pc' = IF c = "q" THEN "fopen" ELSE "fgets"
                    /\ broken' = (broken \/ c = "q")

\* The answer c of see_more, to do_more: others are passed over.
Reply(c) == IF c \in {" ", "newline"}
            THEN /\ num_of_lines' = num_of_lines - (IF c = " " THEN PAGELEN ELSE 1)
                 /\ pc' = "fputs"
                 /\ UNCHANGED broken
            ELSE /\ pc' = IF c = "q" THEN "fopen" ELSE "see_more"
                 /\ broken' = (broken \/ c = "q")
                 /\ UNCHANGED num_of_lines

\* getchar from the text takes characters of its next line, and its newline.
ReplyFromText == /\ piped /\ fp # <<>>
                 /\ IF Head(fp) = <<>> THEN fp' = Tail(fp) /\ Reply("newline")
                    ELSE fp' = <<Tail(Head(fp))>> \o Tail(fp) /\ Reply(Head(Head(fp)))
                 /\ UNCHANGED typed

ReplyFromKeyboard == /\ ~piped /\ typed # <<>>
                     /\ typed' = Tail(typed) /\ Reply(Head(typed))
                     /\ UNCHANGED fp

\* EOF counts as q.
EndOfReplies == /\ \/ piped /\ fp = <<>>
                   \/ ~piped /\ typed = <<>>
                /\ Reply("q")
                /\ UNCHANGED <<fp, typed>>

see_more == /\ pc = "see_more"
            /\ ReplyFromText \/ ReplyFromKeyboard \/ EndOfReplies
            /\ UNCHANGED <<piped, files, line, keys, whole, shown>>

\* fputs, which may fail and then ends the program.
Fputs == /\ pc = "fputs"
         /\ \/ /\ shown' = [shown EXCEPT ![Len(shown)] = Append(@, line)]
               /\ num_of_lines' = num_of_lines + 1
               /\ pc' = "fgets"
               /\ UNCHANGED broken
            \/ /\ pc' = "exited" /\ broken' = TRUE
               /\ UNCHANGED <<shown, num_of_lines>>
         /\ UNCHANGED <<piped, files, fp, line, typed, keys, whole>>

Type(k) == /\ ~piped /\ keys < MaxKeys /\ keys' = keys + 1
           /\ typed' = Append(typed, k)
           /\ UNCHANGED <<pc, piped, files, fp, line, num_of_lines, screen>>

Next == \/ Fopen \/ Fgets \/ see_more \/ Fputs
        \/ \E k \in Keys : Type(k)

Spec == Init /\ [][Next]_vars
-----------------------------------------------------------------------------
\* Every line of each file is shown, in order, unless q or a failure cuts one
\* short; where the keyboard is the standard input.
AllShown == (pc = "exited" /\ ~broken /\ ~piped) => shown = whole
=============================================================================
