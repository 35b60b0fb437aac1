----------------------------- MODULE WordCount3 ------------------------------
(***************************************************************************)
(* twordcount3.c: each thread counts in the struct arg_set main passed it, *)
(* and main adds the two counts once both threads have been joined.  There *)
(* is no lock: only the joins keep main from reading a count that is still *)
(* moving.                                                                 *)
(***************************************************************************)
EXTENDS CountWords

CONSTANT NotYet

VARIABLES pc,          \* where main is
          tpc,         \* where each thread is; "none" before it is created
          args,        \* args[t]: the count of its struct arg_set
          printed      \* the total main printed, or NotYet

vars == <<scan, pc, tpc, args, printed>>

Init == /\ ScanInit
        /\ pc = "create1" /\ tpc = [t \in Threads |-> "none"]
        /\ args = [t \in Threads |-> 0]
        /\ printed = NotYet

Create(t, at, next) == /\ pc = at /\ pc' = next
                       /\ args' = [args EXCEPT ![t] = 0]
                       /\ tpc' = [tpc EXCEPT ![t] = "fopen"]
                       /\ UNCHANGED <<scan, printed>>

\* Slip, for AllImplement: the threads are not waited for.
JoinNoWait(t, at, next) == pc = at /\ pc' = next /\ UNCHANGED <<scan, tpc, args, printed>>

Join(t, at, next) == /\ pc = at /\ tpc[t] = "done"
                     /\ pc' = next
                     /\ UNCHANGED <<scan, tpc, args, printed>>

PrintTotal == /\ pc = "print" /\ pc' = "exited"
              /\ printed' = args[1] + args[2]
              /\ UNCHANGED <<scan, tpc, args>>

Main == \/ Create(1, "create1", "create2") \/ Create(2, "create2", "join1")
        \/ Join(1, "join1", "join2") \/ Join(2, "join2", "print")
        \/ PrintTotal
-----------------------------------------------------------------------------
(* count_words *)

\* fopen, or perror.
Open(t) == /\ tpc[t] = "fopen"
           /\ \/ Fopen(t) /\ tpc' = [tpc EXCEPT ![t] = "getc"]
              \/ UNCHANGED scan /\ tpc' = [tpc EXCEPT ![t] = "done"]
           /\ UNCHANGED <<pc, args, printed>>

Scan(t) == /\ tpc[t] = "getc" /\ NotEOF(t)
           /\ args' = [args EXCEPT ![t] = IF WordEnd(t) THEN @ + 1 ELSE @]
           /\ NextChar(t)
           /\ UNCHANGED <<pc, tpc, printed>>

Fclose(t) == /\ tpc[t] = "getc" /\ ~NotEOF(t)
             /\ tpc' = [tpc EXCEPT ![t] = "done"]
             /\ UNCHANGED <<scan, pc, args, printed>>

Counter(t) == Open(t) \/ Scan(t) \/ Fclose(t)

Next == Main \/ \E t \in Threads : Counter(t)

\* Nothing blocks but the joins: to schedule every thread is enough.
Fairness == WF_vars(Main) /\ \A t \in Threads : WF_vars(Counter(t))
-----------------------------------------------------------------------------
\* twordcount3 implements the word counter without a lock: main prints the sum
\* of counts that are final.
counted == [t \in Threads |-> IF tpc[t] = "done" THEN args[t] ELSE NotYet]

Total == INSTANCE WordTotal WITH words <- Words, total <- printed
ImplementsWordTotal == Total!Spec

\* Both threads reach the end of their files, and main its last line.
Terminates == pc = "create1" ~> pc = "exited"
=============================================================================
