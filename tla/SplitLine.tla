------------------------------ MODULE SplitLine ------------------------------
(***************************************************************************)
(* splitline of splitline.c: the words of a line, as copies, in an array   *)
(* that grows by a block of BUFSIZ bytes at a time and ends with NULL.     *)
(* spots, the number of pointers the code believes there is room for,      *)
(* grows by the whole new size where one block was added.                  *)
(***************************************************************************)
EXTENDS Integers, Sequences, Functions

CONSTANTS BUFSIZ, PtrSize,       \* bytes of a block and of a pointer
          Delims                 \* the characters between words

Slots == BUFSIZ \div PtrSize     \* the pointers in a block

VARIABLES line, cp,              \* the line, and where splitline is in it
          pc,
          args, bufspace, spots  \* argnum is the length of args

vars == <<line, cp, pc, args, bufspace, spots>>

argnum == Len(args)

is_delim(i) == line[i] \in Delims

\* The first place from i on that is P, or the end of the line.
From(i, P(_)) == CHOOSE j \in i..(Len(line) + 1) :
                   /\ j <= Len(line) => P(j)
                   /\ \A k \in i..(j - 1) : ~P(k)

\* The call, with emalloc, which may exit.
Call(l) == /\ line' = l /\ cp' = 1
           /\ args' = <<>>
           /\ bufspace' = BUFSIZ /\ spots' = Slots
           /\ pc' \in {"line", "fatal"}

Skip == /\ pc = "line"
        /\ cp' = From(cp, LAMBDA i : ~is_delim(i))
        /\ pc' = IF cp' = Len(line) + 1 THEN "end" ELSE "space"
        /\ UNCHANGED <<line, args, bufspace, spots>>

\* Slip, for TwoBlocks: no spot kept for the NULL.
FullWhole == argnum >= spots

Full == argnum + 1 >= spots

\* erealloc may exit.
Space == /\ pc = "space"
         /\ IF Full
            THEN \/ /\ bufspace' = bufspace + BUFSIZ
                    /\ spots' = spots + bufspace' \div PtrSize
                    /\ pc' = "word"
                 \/ pc' = "fatal" /\ UNCHANGED <<bufspace, spots>>
            ELSE pc' = "word" /\ UNCHANGED <<bufspace, spots>>
         /\ UNCHANGED <<line, cp, args>>

\* Is args[argnum] a place behind the array?  What is written there takes the
\* place of something else on the heap, where the words are too: anything may
\* follow, and the model ends.
Beyond == argnum >= bufspace \div PtrSize
Write(next) == pc' = IF Beyond THEN "overrun" ELSE next

\* Slip, for Words: a word that ends where the line does is cut.
EndBefore == From(cp + 1, LAMBDA i : is_delim(i) \/ i = Len(line))

EndOfWord == From(cp + 1, is_delim)

\* newstr copies the word.
Word == /\ pc = "word"
        /\ cp' = EndOfWord
        /\ args' = Append(args, SubSeq(line, cp, cp' - 1))
        /\ Write("line")
        /\ UNCHANGED <<line, bufspace, spots>>

End == /\ pc = "end"
       /\ Write("returned")
       /\ UNCHANGED <<line, cp, args, bufspace, spots>>

Next == Skip \/ Space \/ Word \/ End
-----------------------------------------------------------------------------
\* The words of a line, by what they are: the places where one starts and ends, and
\* from each start the letters up to the nearest end.
Starts == {i \in 1..Len(line) : ~is_delim(i) /\ (i > 1 => is_delim(i - 1))}
Ends == {i \in 1..Len(line) : ~is_delim(i) /\ (i < Len(line) => is_delim(i + 1))}
WordAt(i) == SubSeq(line, i, CHOOSE e \in Ends : e >= i /\ \A f \in Ends : f >= i => e <= f)

\* args are the words that start at these places, each once and in order.
AreWords(places) ==
  \E place \in Surjection(1..argnum, places) :
    /\ \A j, k \in 1..argnum : j < k => place[j] < place[k]
    /\ \A k \in 1..argnum : args[k] = WordAt(place[k])

\* Up to the first pointer that is written behind the array, if there is one:
\* the argument list is the words of the line, whatever blanks stand before,
\* between and behind them; and at each step those up to cp.
Words == /\ pc = "returned" => AreWords(Starts)
         /\ AreWords({i \in Starts : i < cp})

\* Nothing is written behind the array as long as the list fits in two blocks;
\* and the place behind them is not there, though spots says that it is.
TwoBlocks == pc \in {"word", "end"} =>
               /\ (argnum < 2 * Slots => ~Beyond)
               /\ (argnum = 2 * Slots => Beyond)
==============================================================================
