----------------------------- MODULE WordCount4 ------------------------------
(***************************************************************************)
(* twordcount4.c: each thread counts in its own struct arg_set and mails   *)
(* it to main through the one-slot mailbox, which the mutex lock and the   *)
(* condition variable flag protect.  Main adds the counts as they come in  *)
(* and joins the threads.                                                  *)
(*                                                                         *)
(* Main takes the lock before it creates the threads and gives it up only  *)
(* inside pthread_cond_wait: it joins, and exits, with the lock held.      *)
(***************************************************************************)
EXTENDS CountWords

CONSTANT NotYet            \* as in WordCount2

Main == 0                  \* main, as a thread that runs next to t1 and t2
Procs == Threads \cup {Main}
NULL == 0                  \* no struct in the mailbox
Free == -1                 \* nobody holds the lock

VARIABLES pc,              \* where main and the threads are
          lock,            \* the process that holds the mutex, or Free
          mailbox,         \* the thread whose struct is mailed, or NULL
          count,           \* count[t]: args_t.count
          reports_in, total_words,
          joined,          \* the threads main has joined
          printed,         \* the total main printed, or NotYet
          spurious         \* has pthread_cond_wait returned without a signal?

vars == <<scan, pc, lock, mailbox, count, reports_in, total_words, joined, printed, spurious>>

Init == /\ ScanInit
        /\ pc = [p \in Procs |-> IF p = Main THEN "start" ELSE "none"]
        /\ lock = Free
        /\ mailbox = NULL
        /\ count = [t \in Threads |-> 0]
        /\ reports_in = 0
        /\ total_words = 0
        /\ joined = {}
        /\ printed = NotYet
        /\ spurious = FALSE
-----------------------------------------------------------------------------
(* The condition variable.  A process blocked in pthread_cond_wait is at   *)
(* "wait"; once woken it is at "relock", waiting for the mutex.            *)

Goto(p, next) == pc' = [pc EXCEPT ![p] = next]

CondWait(p) == /\ lock' = Free
               /\ Goto(p, "wait")

\* pthread_cond_signal wakes one of the waiting processes, whichever it is; if
\* there is none the signal is lost.
Signal(p, next) ==
  LET waiting == {w \in Procs : pc[w] = "wait"}
  IN  \/ /\ waiting = {}
         /\ Goto(p, next)
      \/ \E w \in waiting : pc' = [pc EXCEPT ![p] = next, ![w] = "relock"]

Acquire(p, next) == /\ lock = Free
                    /\ lock' = p
                    /\ Goto(p, next)

Spurious(p) == /\ pc[p] = "wait"
               /\ Goto(p, "relock")
               /\ spurious' = TRUE
               /\ UNCHANGED <<scan, lock, mailbox, count, reports_in, total_words,
                              joined, printed>>
-----------------------------------------------------------------------------
(* Slips of the program that the properties must tell from the real one.   *)

\* MailKept: the mailbox not looked at before it is used.
CheckNothing(t) == /\ pc[t] = "check"
                   /\ Goto(t, "post")
                   /\ UNCHANGED <<scan, lock, mailbox, count, reports_in, total_words,
                                  joined, printed, spurious>>

\* Ends: the signal that the mailbox is empty forgotten.
ClearSilent == /\ pc[Main] = "clear"
               /\ mailbox' = NULL
               /\ Goto(Main, "loop")
               /\ reports_in' = reports_in + 1
               /\ UNCHANGED <<scan, lock, count, total_words, joined, printed, spurious>>

\* AllImplement and Ends: t1 is not waited for, or t2, as the if would have it.
JoinMailed(t, at, next) == /\ pc[Main] = at
                           /\ IF mailbox = t
                              THEN pc[t] = "done" /\ joined' = joined \cup {t}
                              ELSE UNCHANGED joined
                           /\ Goto(Main, next)
                           /\ UNCHANGED <<scan, lock, mailbox, count, reports_in, total_words,
                                          printed, spurious>>
-----------------------------------------------------------------------------
(* main *)

MainLock == /\ pc[Main] = "start"
            /\ Acquire(Main, "create1")
            /\ UNCHANGED <<scan, mailbox, count, reports_in, total_words, joined, printed, spurious>>

Create(t, at, next) == /\ pc[Main] = at
                       /\ count' = [count EXCEPT ![t] = 0]
                       /\ pc' = [pc EXCEPT ![Main] = next, ![t] = "fopen"]
                       /\ UNCHANGED <<scan, lock, mailbox, reports_in, total_words,
                                      joined, printed, spurious>>

MainWait == /\ pc[Main] = "loop"
            /\ reports_in < 2
            /\ CondWait(Main)
            /\ UNCHANGED <<scan, mailbox, count, reports_in, total_words, joined, printed, spurious>>

MainWake == /\ pc[Main] = "relock"
            /\ Acquire(Main, "tally")
            /\ UNCHANGED <<scan, mailbox, count, reports_in, total_words, joined, printed, spurious>>

\* mailbox->count is read whatever the mailbox holds.
Tally == /\ pc[Main] = "tally"
         /\ IF mailbox = NULL
            THEN /\ Goto(Main, "crashed")
                 /\ UNCHANGED total_words
            ELSE /\ total_words' = total_words + count[mailbox]
                 /\ Goto(Main, IF mailbox = 1 THEN "join1" ELSE "join2")
         /\ UNCHANGED <<scan, lock, mailbox, count, reports_in, joined, printed, spurious>>

\* The if before the second join ends in a semicolon: t2 is joined whoever
\* reported.  To join a thread again is undefined: it fails, or it crashes.
Join(t, at, next) == /\ pc[Main] = at
                     /\ \/ /\ t \notin joined
                           /\ pc[t] = "done"
                           /\ joined' = joined \cup {t}
                           /\ Goto(Main, next)
                        \/ /\ t \in joined
                           /\ Goto(Main, next) \/ Goto(Main, "crashed")
                           /\ UNCHANGED joined
                     /\ UNCHANGED <<scan, lock, mailbox, count, reports_in, total_words,
                                    printed, spurious>>

Clear == /\ pc[Main] = "clear"
         /\ mailbox' = NULL
         /\ Signal(Main, "loop")
         /\ reports_in' = reports_in + 1
         /\ UNCHANGED <<scan, lock, count, total_words, joined, printed, spurious>>

PrintTotal == /\ pc[Main] = "loop"
              /\ reports_in = 2
              /\ printed' = count[1] + count[2]
              /\ Goto(Main, "exited")
              /\ UNCHANGED <<scan, lock, mailbox, count, reports_in, total_words, joined, spurious>>

MainStep == \/ MainLock
            \/ Create(1, "create1", "create2")
            \/ Create(2, "create2", "loop")
            \/ MainWait \/ MainWake \/ Tally
            \/ Join(1, "join1", "join2")
            \/ Join(2, "join2", "clear")
            \/ Clear \/ PrintTotal
-----------------------------------------------------------------------------
(* count_words *)

Open(t) == /\ pc[t] = "fopen"
           /\ \/ Fopen(t) /\ Goto(t, "getc")
              \/ UNCHANGED scan /\ Goto(t, "lock")        \* perror(args->fname)
           /\ UNCHANGED <<lock, mailbox, count, reports_in, total_words, joined, printed, spurious>>

Scan(t) == /\ pc[t] = "getc"
           /\ NotEOF(t)
           /\ count' = [count EXCEPT ![t] = IF WordEnd(t) THEN @ + 1 ELSE @]
           /\ NextChar(t)
           /\ UNCHANGED <<pc, lock, mailbox, reports_in, total_words, joined, printed, spurious>>

Fclose(t) == /\ pc[t] = "getc"
             /\ ~NotEOF(t)
             /\ Goto(t, "lock")
             /\ UNCHANGED <<scan, lock, mailbox, count, reports_in, total_words, joined,
                            printed, spurious>>

Lock(t) == /\ pc[t] = "lock"
           /\ Acquire(t, "check")
           /\ UNCHANGED <<scan, mailbox, count, reports_in, total_words, joined, printed, spurious>>

\* An if, not a while: a woken thread does not look at the mailbox again.
Check(t) == /\ pc[t] = "check"
            /\ IF mailbox # NULL THEN CondWait(t)
                                 ELSE Goto(t, "post") /\ UNCHANGED lock
            /\ UNCHANGED <<scan, mailbox, count, reports_in, total_words, joined, printed, spurious>>

Wake(t) == /\ pc[t] = "relock"
           /\ Acquire(t, "post")
           /\ UNCHANGED <<scan, mailbox, count, reports_in, total_words, joined, printed, spurious>>

Post(t) == /\ pc[t] = "post"
           /\ mailbox' = t
           /\ Signal(t, "unlock")
           /\ UNCHANGED <<scan, lock, count, reports_in, total_words, joined, printed, spurious>>

Unlock(t) == /\ pc[t] = "unlock"
             /\ lock' = Free
             /\ Goto(t, "done")
             /\ UNCHANGED <<scan, mailbox, count, reports_in, total_words, joined, printed, spurious>>

Counter(t) == \/ Open(t) \/ Scan(t) \/ Fclose(t)
              \/ Lock(t) \/ Check(t) \/ Wake(t) \/ Post(t) \/ Unlock(t)
-----------------------------------------------------------------------------
\* When main returns or crashes, the process and its threads are gone.
Alive == pc[Main] \notin {"exited", "crashed"}

Next == /\ Alive
        /\ \/ MainStep
           \/ \E t \in Threads : Counter(t)
           \/ \E p \in Procs : Spurious(p)

\* Every process that can take a step is scheduled in the end; nobody owes
\* anyone a spurious wakeup.  A process takes the lock at most twice for every
\* report, so weak fairness is enough to get it.
Fairness == /\ WF_vars(Alive /\ MainStep)
            /\ \A t \in Threads : WF_vars(Alive /\ Counter(t))

-----------------------------------------------------------------------------
\* A thread never replaces mail main has not read, unless pthread_cond_wait has
\* returned without a signal: then the if of line 99 lets it.
NoOverwrite == [][mailbox # NULL /\ ~spurious => mailbox' \in {mailbox, NULL}]_mailbox

\* twordcount4 implements the word counter, as far as it ends at all.
Finished(t) == pc[t] \in {"lock", "check", "wait", "relock", "post", "unlock", "done"}
counted == [t \in Threads |-> IF Finished(t) THEN count[t] ELSE NotYet]

Total == INSTANCE WordTotal WITH words <- Words, total <- printed
ImplementsWordTotal == Total!Spec

\* If t2 is the first to report, main gets to its last line, or dies in the
\* second join of t2, without a spurious wakeup.
SecondFirstEnds == []~spurious =>
  (pc[Main] = "tally" /\ reports_in = 0 /\ mailbox = 2) ~> pc[Main] \in {"exited", "crashed"}

\* If t1 is the first to report, main never prints the total, though the counts
\* are there: it joins t2 with the lock held, for which t2 waits, and when t2 is
\* through already its report has been overwritten.
FirstFirstHangs == []((1 \in joined /\ reports_in = 0) => [](pc[Main] # "exited"))
=============================================================================
