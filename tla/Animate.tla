------------------------------- MODULE Animate -------------------------------
(***************************************************************************)
(* tanimate.c: one thread per string moves its string and posts it in the  *)
(* one-slot box propbox; the thread draw_screen draws what is posted; main *)
(* turns strings round on a key and quits on 'Q'.  The box is protected by *)
(* the mutex mx and the condition variable flag.                           *)
(*                                                                         *)
(* draw_screen calls pthread_cond_wait without holding mx, which POSIX     *)
(* leaves undefined.  The mutex here is the one of glibc: a lock word that *)
(* pthread_cond_wait and pthread_mutex_unlock clear, whoever set it, and   *)
(* that nobody can set twice, its own holder included.                     *)
(*                                                                         *)
(* The sleep of animate is left out: a thread that is slow to take its     *)
(* next step is a thread that sleeps.  So is the column a thread posts     *)
(* with its row: the row says whose post it is.  What is on the screen is  *)
(* not kept: draw_screen reads the box in DrawMove and DrawString.         *)
(***************************************************************************)
EXTENDS Integers, FiniteSets, FiniteSetsExt

CONSTANTS NumMsg,        \* the most strings on the command line
          COLS,          \* the width of the screen
          Len,           \* len of animate: strlen(info->str - 3)
          MaxKeys,       \* MaxKeys[n]: bound on the keys that turn one of n strings
          NULL           \* no string

Msgs == 0..NumMsg - 1

VARIABLES mpc, todo, neg,      \* main: where it is, the strings left to turn,
                               \* and the direction it has loaded and negated
          keys, turns,         \* keys pressed; turns[i]: times main turned i
          apc, col, dir,       \* animate: where it is, and its col and dir
          dpc, spurious,       \* draw_screen: where it is, and whether nobody has
                               \* signalled it this time
          mx,                  \* the lock word of the mutex: 0 or 1
          propbox              \* row (and with it col), str and flag

mainVars == <<mpc, todo, neg, keys, turns>>
animateVars == <<apc, col>>
drawVars == <<dpc, spurious>>
vars == <<mainVars, animateVars, dir, drawVars, mx, propbox>>

Init == /\ mpc = "getch" /\ todo = {} /\ neg = 1
        /\ keys = 0 /\ turns = [i \in Msgs |-> 0]
        /\ \E num_msg \in 1..NumMsg :
             apc = [i \in Msgs |-> IF i < num_msg THEN "lock" ELSE "none"]
        /\ col \in [Msgs -> 0..COLS - Len - 4]         \* rand() % (COLS - len - 3)
        /\ dir \in {d \in [Msgs -> {-1, 1}] : \A i \in Msgs : apc[i] = "none" => d[i] = 1}
        /\ dpc = "condwait" /\ spurious = FALSE
        /\ mx = 0
        /\ propbox = [row |-> -1, str |-> NULL, flag |-> 0]
-----------------------------------------------------------------------------
(* pthread_cond_signal(&flag) wakes any one of the processes in            *)
(* pthread_cond_wait, an animate thread or draw_screen; with none there it *)
(* is lost.                                                                *)

Signal(anext, dnext) ==
  \/ /\ \A i \in Msgs : apc[i] # "wait"
     /\ dpc # "wait"
     /\ apc' = anext /\ dpc' = dnext
  \/ \E i \in Msgs : apc[i] = "wait" /\ apc' = [anext EXCEPT ![i] = "relock"] /\ dpc' = dnext
  \/ dpc = "wait" /\ dpc' = "relock" /\ apc' = anext

\* pthread_cond_wait may return though nobody has signalled, and neither of its
\* callers would notice.
Spurious == \/ /\ \E i \in Msgs : apc[i] = "wait" /\ apc' = [apc EXCEPT ![i] = "relock"]
               /\ UNCHANGED <<dpc, spurious>>
            \/ /\ dpc = "wait" /\ dpc' = "relock" /\ spurious' = TRUE
               /\ UNCHANGED apc

Acquire == mx = 0 /\ mx' = 1

\* The strings there are, each with a thread of its own.
Strings == {i \in Msgs : apc[i] # "none"}
-----------------------------------------------------------------------------
(* Slips of the program that the properties must tell from the real one.   *)

Goto(i, next) == apc' = [apc EXCEPT ![i] = next]
DrawGoto(at, next) == dpc = at /\ dpc' = next

\* DrawsNewPosts: draw_screen, which holds the mutex already, does not lock it.
DrawNoLock == /\ DrawGoto("string", "clear")
              /\ UNCHANGED <<mainVars, animateVars, dir, spurious, mx, propbox>>

\* DriftBounded: the left edge not tested.
EdgeRightOnly(i) == /\ apc[i] = "edge"
                    /\ Goto(i, IF col[i] + Len >= COLS /\ dir[i] = 1 THEN "left" ELSE "lock")
                    /\ UNCHANGED <<mainVars, col, dir, drawVars, mx, propbox>>

\* FrozenForever: main quits without the lock.
ExitUnlocked == /\ mpc = "lock"
                /\ mpc' = "exited"
                /\ UNCHANGED <<todo, neg, keys, turns, animateVars, dir, drawVars, mx, propbox>>
-----------------------------------------------------------------------------
(* main *)

\* ' ' turns every string round, one after the other; '0'..'9' turns one.
Key == /\ mpc = "getch"
       /\ keys < MaxKeys[Cardinality(Strings)]
       /\ keys' = keys + 1
       /\ todo' \in {Strings} \cup {{i} : i \in Strings}
       /\ mpc' = "load"
       /\ UNCHANGED <<neg, turns, animateVars, dir, drawVars, mx, propbox>>

\* props[i].dir = -props[i].dir is a load and a store, with no lock.
Load == /\ mpc = "load"
        /\ neg' = -dir[Min(todo)]
        /\ mpc' = "store"
        /\ UNCHANGED <<todo, keys, turns, animateVars, dir, drawVars, mx, propbox>>

Store == /\ mpc = "store"
         /\ dir' = [dir EXCEPT ![Min(todo)] = neg]
         /\ turns' = [turns EXCEPT ![Min(todo)] = @ + 1]
         /\ todo' = todo \ {Min(todo)}
         /\ mpc' = IF todo' = {} THEN "getch" ELSE "load"
         /\ UNCHANGED <<neg, keys, animateVars, drawVars, mx, propbox>>

Quit == /\ mpc = "getch"
        /\ mpc' = "lock"
        /\ UNCHANGED <<todo, neg, keys, turns, animateVars, dir, drawVars, mx, propbox>>

\* With the lock main cancels the threads, ends curses and returns; the process
\* is gone before a cancelled thread could give anything back.
Exit == /\ mpc = "lock"
        /\ Acquire
        /\ mpc' = "exited"
        /\ UNCHANGED <<todo, neg, keys, turns, animateVars, dir, drawVars, propbox>>

Main == Key \/ Load \/ Store \/ Quit \/ Exit
-----------------------------------------------------------------------------
(* animate *)

Lock(i) == /\ apc[i] = "lock"
           /\ Acquire
           /\ Goto(i, "check")
           /\ UNCHANGED <<mainVars, col, dir, drawVars, propbox>>

\* An if, not a while: a woken thread does not look at the flag again.
Check(i) == /\ apc[i] = "check"
            /\ IF propbox.flag # 0 THEN Goto(i, "wait") /\ mx' = 0
                                   ELSE Goto(i, "place") /\ UNCHANGED mx
            /\ UNCHANGED <<mainVars, col, dir, drawVars, propbox>>

Wake(i) == /\ apc[i] = "relock"
           /\ Acquire
           /\ Goto(i, "place")
           /\ UNCHANGED <<mainVars, col, dir, drawVars, propbox>>

Place(i) == /\ apc[i] = "place"
            /\ propbox' = [propbox EXCEPT !.row = i]
            /\ Goto(i, "string")
            /\ UNCHANGED <<mainVars, col, dir, drawVars, mx>>

String(i) == /\ apc[i] = "string"
             /\ propbox' = [propbox EXCEPT !.str = i, !.flag = 1]
             /\ Goto(i, "signal")
             /\ UNCHANGED <<mainVars, col, dir, drawVars, mx>>

SignalScreen(i) == /\ apc[i] = "signal"
                   /\ Signal([apc EXCEPT ![i] = "unlock"], dpc)
                   /\ UNCHANGED <<mainVars, col, dir, spurious, mx, propbox>>

Unlock(i) == /\ apc[i] = "unlock"
             /\ mx' = 0
             /\ Goto(i, "move")
             /\ UNCHANGED <<mainVars, col, dir, drawVars, propbox>>

Move(i) == /\ apc[i] = "move"
           /\ col' = [col EXCEPT ![i] = @ + dir[i]]
           /\ Goto(i, "edge")
           /\ UNCHANGED <<mainVars, dir, drawVars, mx, propbox>>

\* The tests of the two edges and the store they lead to are apart, and main
\* may store the direction in between.
Edge(i) == /\ apc[i] = "edge"
           /\ Goto(i, IF col[i] <= 0 /\ dir[i] = -1 THEN "right"
                      ELSE IF col[i] + Len >= COLS /\ dir[i] = 1 THEN "left"
                      ELSE "lock")
           /\ UNCHANGED <<mainVars, col, dir, drawVars, mx, propbox>>

Turn(i) == /\ apc[i] \in {"left", "right"}
           /\ dir' = [dir EXCEPT ![i] = IF apc[i] = "right" THEN 1 ELSE -1]
           /\ Goto(i, "lock")
           /\ UNCHANGED <<mainVars, col, drawVars, mx, propbox>>

animate(i) == \/ Lock(i) \/ Check(i) \/ Wake(i) \/ Place(i) \/ String(i)
              \/ SignalScreen(i) \/ Unlock(i) \/ Move(i) \/ Edge(i) \/ Turn(i)
-----------------------------------------------------------------------------
(* draw_screen *)

\* Clears the lock word, whoever holds the mutex.
DrawWait == /\ DrawGoto("condwait", "wait")
            /\ mx' = 0
            /\ spurious' = FALSE
            /\ UNCHANGED <<mainVars, animateVars, dir, propbox>>

DrawWake == /\ DrawGoto("relock", "place")
            /\ Acquire
            /\ UNCHANGED <<mainVars, animateVars, dir, spurious, propbox>>

DrawMove == /\ DrawGoto("place", "string")
            /\ UNCHANGED <<mainVars, animateVars, dir, spurious, mx, propbox>>

DrawString == /\ DrawGoto("string", "lock")
              /\ UNCHANGED <<mainVars, animateVars, dir, spurious, mx, propbox>>

\* pthread_cond_wait has returned with mx held: to lock it again blocks until
\* somebody else clears the lock word.
DrawLock == /\ DrawGoto("lock", "clear")
            /\ Acquire
            /\ UNCHANGED <<mainVars, animateVars, dir, spurious, propbox>>

DrawClear == /\ DrawGoto("clear", "unlock")
             /\ propbox' = [propbox EXCEPT !.flag = 0]
             /\ UNCHANGED <<mainVars, animateVars, dir, spurious, mx>>

DrawUnlock == /\ DrawGoto("unlock", "signal")
              /\ mx' = 0
              /\ UNCHANGED <<mainVars, animateVars, dir, spurious, propbox>>

DrawSignal == /\ dpc = "signal"
              /\ Signal(apc, "condwait")
              /\ UNCHANGED <<mainVars, col, dir, spurious, mx, propbox>>

draw_screen == \/ DrawWait \/ DrawWake \/ DrawMove \/ DrawString
               \/ DrawLock \/ DrawClear \/ DrawUnlock \/ DrawSignal
-----------------------------------------------------------------------------
Running == mpc # "exited"

Wakeup == Spurious /\ UNCHANGED <<mainVars, col, dir, mx, propbox>>

Next == Running /\ (Main \/ draw_screen \/ Wakeup \/ \E i \in Msgs : animate(i))

\* Every thread that can take a step is scheduled in the end, and main when it
\* has read its key: nobody has to press one.  A thread that finds the mutex
\* free again and again gets it in the end.
Fairness == /\ WF_vars(Running /\ (Load \/ Store))
            /\ SF_vars(Running /\ Exit)
            /\ SF_vars(Running /\ draw_screen)
            /\ \A i \in Msgs : SF_vars(Running /\ animate(i))

Spec == Init /\ [][Next]_vars
FairSpec == Spec /\ Fairness
-----------------------------------------------------------------------------
\* draw_screen looks at no flag: still, when a signal has woken it the box holds a
\* string that was posted since the last frame, though two threads may be in the
\* critical section and a signal may be late.  Woken without a signal, it may hand
\* addstr the NULL of the empty box, or draw an old post again.
DrawsNewPosts == dpc \in {"relock", "place", "string"} /\ ~spurious =>
                   propbox.flag = 1 /\ propbox.str # NULL

\* A string leaves the screen, on either side, by at most one column for each
\* time main turned it round, whose stores race with those of animate; and one
\* on the left, where it may start at the edge and move out.
DriftBounded == \A i \in Msgs : /\ col[i] >= -1 - turns[i]
                                /\ col[i] + Len <= COLS + turns[i]

\* The threads that believe they hold mx and will clear its lock word.
Believers == {i \in Msgs : apc[i] \in {"check", "place", "string", "signal", "unlock"}}

\* draw_screen blocked on the mutex it holds itself, with nobody left who
\* would clear the lock word by mistake: the screen has frozen.
Frozen == dpc = "lock" /\ mx = 1 /\ Believers = {}

\* A frozen screen stays so: no frame is ever drawn again, and the program
\* does not end either.
FrozenForever == [][Frozen => Frozen' /\ UNCHANGED propbox /\ mpc' # "exited"]_vars

\* "'Q' to quit", says the last line of the screen.  It needs no wakeup without a
\* signal to fail.
QuitsOnQ == []~spurious => (mpc = "lock" ~> mpc = "exited")
-----------------------------------------------------------------------------
(* For TLC: three keys. *)
MCMaxKeys == [n \in 1..NumMsg |-> 3]
=============================================================================
