----------------------------- MODULE WordCount2 ------------------------------
(***************************************************************************)
(* twordcount2.c: two threads count the words of two files in one global   *)
(* counter, total_words, under the mutex counter_lock.                     *)
(*                                                                         *)
(* total_words++ is a load and a store: nothing but the mutex keeps two    *)
(* threads from overlapping there.                                         *)
(***************************************************************************)
EXTENDS CountWords

CONSTANT NotYet

ASSUME NotYetAssumption == NotYet \notin Int

VARIABLES pc,            \* where main is
          tpc,           \* where each thread is; "none" before it is created
          counter_lock,  \* the thread that holds the mutex, or Free
          total_words,
          reg,           \* reg[t]: what thread t loaded from total_words
          printed        \* the total main printed, or NotYet

vars == <<scan, pc, tpc, counter_lock, total_words, reg, printed>>

Free == 0

Init == /\ ScanInit
        /\ pc = "create1"
        /\ tpc = [t \in Threads |-> "none"]
        /\ counter_lock = Free
        /\ total_words = 0
        /\ reg = [t \in Threads |-> 0]
        /\ printed = NotYet
-----------------------------------------------------------------------------
(* Slips of the program that the properties must tell from the real one:   *)
(* the run of the named property fails when the action of that name is     *)
(* replaced.                                                               *)

\* LosesNone: the mutex does not exclude.
LockBusy(t) == /\ tpc[t] = "getc"
               /\ NotEOF(t)
               /\ WordEnd(t)
               /\ counter_lock' = t
               /\ tpc' = [tpc EXCEPT ![t] = "load"]
               /\ UNCHANGED <<scan, pc, total_words, reg, printed>>

\* AllImplement: main does not wait for the threads.
JoinNoWait(t, at, next) == /\ pc = at
                           /\ pc' = next
                           /\ UNCHANGED <<scan, tpc, counter_lock, total_words, reg, printed>>

\* Ends: pthread_mutex_unlock forgotten.
UnlockForgotten(t) == /\ tpc[t] = "unlock"
                      /\ NextChar(t)
                      /\ tpc' = [tpc EXCEPT ![t] = "getc"]
                      /\ UNCHANGED <<pc, counter_lock, total_words, reg, printed>>
-----------------------------------------------------------------------------
(* main *)

Create(t, at, next) == /\ pc = at
                       /\ pc' = next
                       /\ tpc' = [tpc EXCEPT ![t] = "fopen"]
                       /\ UNCHANGED <<scan, counter_lock, total_words, reg, printed>>

Join(t, at, next) == /\ pc = at
                     /\ tpc[t] = "done"
                     /\ pc' = next
                     /\ UNCHANGED <<scan, tpc, counter_lock, total_words, reg, printed>>

PrintTotal == /\ pc = "print"
              /\ pc' = "exited"
              /\ printed' = total_words
              /\ UNCHANGED <<scan, tpc, counter_lock, total_words, reg>>

Main == \/ Create(1, "create1", "create2")
        \/ Create(2, "create2", "join1")
        \/ Join(1, "join1", "join2")
        \/ Join(2, "join2", "print")
        \/ PrintTotal
-----------------------------------------------------------------------------
(* count_words *)

Open(t) == /\ tpc[t] = "fopen"
           /\ \/ /\ Fopen(t)
                 /\ tpc' = [tpc EXCEPT ![t] = "getc"]
              \/ /\ tpc' = [tpc EXCEPT ![t] = "done"]     \* perror(filename)
                 /\ UNCHANGED scan
           /\ UNCHANGED <<pc, counter_lock, total_words, reg, printed>>

Skip(t) == /\ tpc[t] = "getc"
           /\ NotEOF(t)
           /\ ~WordEnd(t)
           /\ NextChar(t)
           /\ UNCHANGED <<pc, tpc, counter_lock, total_words, reg, printed>>

Lock(t) == /\ tpc[t] = "getc"
           /\ NotEOF(t)
           /\ WordEnd(t)
           /\ counter_lock = Free
           /\ counter_lock' = t
           /\ tpc' = [tpc EXCEPT ![t] = "load"]
           /\ UNCHANGED <<scan, pc, total_words, reg, printed>>

Load(t) == /\ tpc[t] = "load"
           /\ reg' = [reg EXCEPT ![t] = total_words]
           /\ tpc' = [tpc EXCEPT ![t] = "store"]
           /\ UNCHANGED <<scan, pc, counter_lock, total_words, printed>>

Store(t) == /\ tpc[t] = "store"
            /\ total_words' = reg[t] + 1
            /\ tpc' = [tpc EXCEPT ![t] = "unlock"]
            /\ UNCHANGED <<scan, pc, counter_lock, reg, printed>>

Unlock(t) == /\ tpc[t] = "unlock"
             /\ counter_lock' = Free
             /\ NextChar(t)
             /\ tpc' = [tpc EXCEPT ![t] = "getc"]
             /\ UNCHANGED <<pc, total_words, reg, printed>>

Fclose(t) == /\ tpc[t] = "getc"
             /\ ~NotEOF(t)
             /\ tpc' = [tpc EXCEPT ![t] = "done"]
             /\ UNCHANGED <<scan, pc, counter_lock, total_words, reg, printed>>

Counter(t) == \/ Open(t) \/ Skip(t) \/ Fclose(t)
              \/ Lock(t) \/ Load(t) \/ Store(t) \/ Unlock(t)
-----------------------------------------------------------------------------
Next == Main \/ \E t \in Threads : Counter(t)

\* Every thread that can take a step is scheduled in the end.  A thread waits
\* for the mutex at most as often as the other one counts a word, so weak
\* fairness is enough.
Fairness == WF_vars(Main) /\ \A t \in Threads : WF_vars(Counter(t))

Spec == Init /\ [][Next]_vars
-----------------------------------------------------------------------------
TypeOK == /\ ScanTypeOK
          /\ pc \in {"create1", "create2", "join1", "join2", "print", "exited"}
          /\ tpc \in [Threads -> {"none", "fopen", "getc", "load", "store",
                                  "unlock", "done"}]
          /\ counter_lock \in Threads \cup {Free}
          /\ total_words \in Nat
          /\ reg \in [Threads -> Nat]
          /\ printed \in Nat \cup {NotYet}

\* What thread t has contributed to total_words: the words that ended before
\* its position, and the one it is about to step over.
Contribution(t) == Ended(t) + IF tpc[t] = "unlock" THEN 1 ELSE 0

\* No increment is ever lost or counted twice, whatever the interleaving of the
\* two threads' loads and stores of total_words++.
NoLostCount == total_words = Contribution(1) + Contribution(2)

\* The total falls short of the words of the two files by one for each file that
\* ends in a word: its last word is never counted.
WordsFound(t) == IF fp[t] = "NULL" THEN 0
                 ELSE LET s == text[t]
                      IN  Cardinality(WordStarts(s, Len(s))) - (IF EndsInWord(s, Len(s)) THEN 1 ELSE 0)
LastWordLost == pc = "exited" => printed = WordsFound(1) + WordsFound(2)

\* The holder of counter_lock is the one thread between lock and unlock, and
\* nobody has changed total_words since it loaded it.
LockInv == \A t \in Threads :
             /\ tpc[t] \in {"load", "store", "unlock"} <=> counter_lock = t
             /\ tpc[t] = "store" => reg[t] = total_words
             /\ tpc[t] \in {"load", "store", "unlock"} => NotEOF(t) /\ WordEnd(t)

\* What main knows at each point of its program.
Started(t) == tpc[t] # "none"
MainInv == /\ Started(1) <=> pc # "create1"
           /\ Started(2) <=> pc \notin {"create1", "create2"}
           /\ pc \in {"join2", "print", "exited"} => tpc[1] = "done"
           /\ pc \in {"print", "exited"} => tpc[2] = "done"
           /\ printed = IF pc = "exited" THEN total_words ELSE NotYet

FileInv == \A t \in Threads :
             /\ tpc[t] \in {"none", "fopen"} => fp[t] = "NULL"
             /\ tpc[t] \in {"getc", "load", "store", "unlock"} => fp[t] = "FILE"
             /\ tpc[t] = "done" /\ fp[t] = "FILE" => pos[t] = Len(text[t])

IInv == TypeOK /\ ScanInv /\ LockInv /\ FileInv /\ MainInv /\ NoLostCount

\* twordcount2 implements the word counter: a thread's count is finished when
\* the thread is, and the total is what main prints.
counted == [t \in Threads |-> IF tpc[t] # "done" THEN NotYet
                              ELSE IF fp[t] = "FILE" THEN Words[t] ELSE 0]

Total == INSTANCE WordTotal WITH words <- Words, total <- printed
ImplementsWordTotal == Total!Spec

\* The program ends: no thread is stuck on counter_lock, so both joins return.
Terminates == pc = "create1" ~> pc = "exited"
=============================================================================
