----------------------------- MODULE ReadCommand -----------------------------
(***************************************************************************)
(* The reading half of the loop of smsh1.c: next_cmd reads a line, and     *)
(* splitline makes an argument list of it before the next line is read.    *)
(* To run the command is left to Smsh1; it touches neither the input nor   *)
(* the buffers.                                                            *)
(***************************************************************************)
EXTENDS NextCmd, SequencesExt

CONSTANTS PtrSize, Delims,       \* of splitline
          MaxInput               \* bound on the length of the input

ASSUME SplitAssumption == /\ PtrSize \in Nat \ {0} /\ BUFSIZ % PtrSize = 0
                          /\ BUFSIZ >= 2 * PtrSize
                          /\ Delims \subseteq Char

VARIABLES line, cp, spc, args, argspace, spots

split == <<line, cp, spc, args, argspace, spots>>
all == <<vars, split>>

Split == INSTANCE SplitLine WITH pc <- spc, bufspace <- argspace

CommandInit == /\ Init
               /\ line = <<>> /\ cp = 1 /\ args = <<>>
               /\ argspace = 0 /\ spots = 0
               /\ spc = "returned"

\* What next_cmd has returned is what splitline is called with.
CallSplit == Split!Call(buf)

Read == /\ spc = "returned"
        /\ \/ (getc \/ Grow \/ Store) /\ UNCHANGED split
           \/ Return /\ IF pc' = "exited" THEN UNCHANGED split ELSE CallSplit

CommandNext == Read \/ (Split!Next /\ UNCHANGED vars)

CommandSpec == CommandInit /\ [][CommandNext]_all

\* The instance: every input of up to MaxInput characters, newlines among them.
MCInputs == BoundedSeq(Char \cup {Newline}, MaxInput)
-----------------------------------------------------------------------------
\* Where the list fits in two blocks (TwoBlocks), it is the words of the line that
\* was read last, whatever blanks stand before, between and behind them, and no
\* word of any other line.  A longer list is written over what stands behind the
\* array, and nothing is said of it.
LastLine == LET start == Len(cmdlines) - Len(line)
            IN  /\ SubSeq(cmdlines, start, Len(cmdlines)) = Append(line, Newline)
                /\ start > 1 => cmdlines[start - 1] = Newline
Words == Split!Words /\ (cmdlines # <<>> => LastLine)

\* The array of arguments holds what is written to it while the list fits in two
\* blocks, and is one place short when it just does not.
TwoBlocks == Split!TwoBlocks
==============================================================================
