---------------------------- MODULE WordCounters -----------------------------
(***************************************************************************)
(* The three word counters, of which one is started on two files:          *)
(* twordcount2 with its shared total, twordcount3 and twordcount4, whose   *)
(* threads count in a struct arg_set each.                                 *)
(***************************************************************************)
EXTENDS WordCount2

CONSTANT ArgTexts        \* the files twordcount3 and twordcount4 are started on

ASSUME ArgTextsAssumption == ArgTexts \subseteq Texts

VARIABLES main3, threads3, args3, printed3,                            \* twordcount3
          pcs, lock, mailbox, count, reports_in, total4, joined,       \* twordcount4
          printed4, spurious

own2 == <<pc, tpc, counter_lock, total_words, reg, printed>>
own3 == <<main3, threads3, args3, printed3>>
own4 == <<pcs, lock, mailbox, count, reports_in, total4, joined, printed4, spurious>>

Three == INSTANCE WordCount3 WITH pc <- main3, tpc <- threads3, args <- args3, printed <- printed3
Four == INSTANCE WordCount4 WITH pc <- pcs, total_words <- total4, printed <- printed4

\* A program that is not started.
Idle2 == /\ pc = "not started" /\ tpc = [t \in Threads |-> "none"]
         /\ counter_lock = Free /\ total_words = 0
         /\ reg = [t \in Threads |-> 0] /\ printed = NotYet

Idle3 == /\ main3 = "not started" /\ threads3 = [t \in Threads |-> "none"]
         /\ args3 = [t \in Threads |-> 0] /\ printed3 = NotYet

Idle4 == /\ pcs = [p \in Four!Procs |-> IF p = Four!Main THEN "exited" ELSE "none"]
         /\ lock = Four!Free /\ mailbox = Four!NULL /\ count = [t \in Threads |-> 0]
         /\ reports_in = 0 /\ total4 = 0 /\ joined = {}
         /\ printed4 = NotYet /\ spurious = FALSE

OneInit == \/ Init /\ Idle3 /\ Idle4
           \/ Idle2 /\ Three!Init /\ Idle4 /\ text \in [Threads -> ArgTexts]
           \/ Idle2 /\ Idle3 /\ Four!Init /\ text \in [Threads -> ArgTexts]

OneNext == \/ Next /\ UNCHANGED <<own3, own4>>
           \/ Three!Next /\ UNCHANGED <<own2, own4>>
           \/ Four!Next /\ UNCHANGED <<own2, own3>>

OneSpec == /\ OneInit /\ [][OneNext]_<<scan, own2, own3, own4>>
           /\ Fairness /\ Three!Fairness /\ Four!Fairness

\* All pairs of files of at most four characters, and of three.
MCTexts == UNION {[1..n -> BOOLEAN] : n \in 0..4}
MCArgTexts == UNION {[1..n -> BOOLEAN] : n \in 0..3}
-----------------------------------------------------------------------------
\* No increment of the shared total is ever lost or counted twice, whatever the
\* interleaving of the two threads' loads and stores of total_words++.
LosesNone == pc # "not started" => NoLostCount

\* A report in the mailbox of twordcount4 is not overwritten before main has seen
\* it, as long as nobody wakes without a signal.
MailKept == Four!NoOverwrite

\* All three implement the word counter: one under a lock, one by handing a finished
\* count to main, one by nothing but the order of joins and reads.
AllImplement == ImplementsWordTotal /\ Three!ImplementsWordTotal /\ Four!ImplementsWordTotal

\* twordcount2 and twordcount3 end always; twordcount4 if t2 is the first to report,
\* and never if it is t1.
Ends == Terminates /\ Three!Terminates /\ Four!SecondFirstEnds /\ Four!FirstFirstHangs
==============================================================================
