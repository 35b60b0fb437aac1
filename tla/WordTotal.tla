------------------------------ MODULE WordTotal ------------------------------
(***************************************************************************)
(* What the three versions of the two-file word counter (twordcount2.c,    *)
(* twordcount3.c, twordcount4.c) promise: each file is counted once, on    *)
(* its own, and the total is reported once, after both files, as the sum   *)
(* of the two counts.  How the threads share their counts is left to the   *)
(* modules that implement this one.                                        *)
(***************************************************************************)
EXTENDS Integers

CONSTANT NotYet        \* the value of a count or of the total not known yet

VARIABLES words,       \* words[f]: the words of file f, which never change
          counted,     \* counted[f]: the finished count of file f, or NotYet
          total        \* the total the program reported, or NotYet

vars == <<words, counted, total>>

File == {1, 2}

Init == /\ words \in [File -> Nat]
        /\ counted = [f \in File |-> NotYet]
        /\ total = NotYet

\* The thread of file f ends; a file that cannot be opened counts for nothing.
Count(f) == /\ counted[f] = NotYet
            /\ \E n \in {0, words[f]} : counted' = [counted EXCEPT ![f] = n]
            /\ UNCHANGED <<words, total>>

\* The total is reported after both counts and is their sum.
Report == /\ total = NotYet
          /\ \A f \in File : counted[f] # NotYet
          /\ total' = counted[1] + counted[2]
          /\ UNCHANGED <<words, counted>>

Next == (\E f \in File : Count(f)) \/ Report

Spec == Init /\ [][Next]_vars
=============================================================================
