------------------------------ MODULE TBounce1d ------------------------------
(***************************************************************************)
(* tbounce1d.c: the bouncing word with a thread in the place of the        *)
(* handler.  Main and the thread share col, dir and delay with no lock, so *)
(* that main may act between any two steps of a frame; on 'Q' main cancels *)
(* the thread, which goes on to its next cancellation point, and ends      *)
(* curses without waiting for it.                                          *)
(*                                                                         *)
(* A thread that is slow to begin its next frame is one that sleeps:       *)
(* delay * 1000, which overflows after fourteen s, is not modelled.        *)
(***************************************************************************)
EXTENDS BounceArith

VARIABLES pc, neg,       \* main, and the dir it has loaded and negated
          keys, turns,   \* the keys pressed, and the times main stored dir
          cancelled,     \* has main cancelled the thread?
          late,          \* the frames drawn since
          delay, col, dir,
          tpc,           \* the thread: the next step of its frame
          newdir,        \* the direction it is about to store
          cursor         \* where curses writes next

mainVars == <<pc, neg, keys, turns, cancelled>>
vars == <<mainVars, late, delay, col, dir, tpc, newdir, cursor>>

Init == /\ pc = "getch" /\ neg = 1
        /\ keys = 0 /\ turns = 0
        /\ cancelled = FALSE /\ late = 0
        /\ delay = FirstDelay /\ col = 0 /\ dir = 1
        /\ tpc = "usleep" /\ newdir = 1
        /\ cursor = 0
-----------------------------------------------------------------------------
(* main *)

Press == /\ pc = "getch"
         /\ keys < MaxKeys
         /\ keys' = keys + 1

Space == /\ Press
         /\ neg' = -dir
         /\ pc' = "negated"
         /\ UNCHANGED <<turns, cancelled, late, delay, col, dir, tpc, newdir, cursor>>

StoreDir == /\ pc = "negated"
            /\ dir' = neg
            /\ turns' = turns + 1
            /\ pc' = "getch"
            /\ UNCHANGED <<neg, keys, cancelled, late, delay, col, tpc, newdir, cursor>>

KeyDelay == /\ Press
            /\ delay' \in {Faster(delay), Slower(delay)}
            /\ UNCHANGED <<pc, neg, turns, cancelled, late, col, dir, tpc, newdir, cursor>>

KeyQ == /\ pc = "getch"
        /\ cancelled' = TRUE
        /\ pc' = "endwin"
        /\ UNCHANGED <<neg, keys, turns, late, delay, col, dir, tpc, newdir, cursor>>

\* endwin, and the return that ends the process.
Return == /\ pc = "endwin"
          /\ pc' = "exited"
          /\ UNCHANGED <<neg, keys, turns, cancelled, late, delay, col, dir, tpc, newdir, cursor>>

Main == Space \/ StoreDir \/ KeyDelay \/ KeyQ \/ Return
-----------------------------------------------------------------------------
(* moving_msg *)

Step(at, next) == /\ tpc = at
                  /\ tpc' = next
                  /\ UNCHANGED <<mainVars, delay>>

\* usleep is a cancellation point.
Usleep == /\ Step("usleep", IF cancelled THEN "dead" ELSE "blank")
          /\ UNCHANGED <<late, col, dir, newdir, cursor>>

\* move(row, col) and the blanks; BLANK is as long as MESSAGE.
Blank == /\ Step("blank", "col")
         /\ cursor' = col + Len
         /\ UNCHANGED <<late, col, dir, newdir>>

MoveCol == /\ Step("col", "edge")
           /\ col' = col + dir
           /\ UNCHANGED <<late, dir, newdir, cursor>>

\* The test of the edges and the store it leads to.
Edge == /\ newdir' = AtEdge(col, dir)
        /\ Step("edge", IF newdir' # dir THEN "turn" ELSE "message")
        /\ UNCHANGED <<late, col, dir, cursor>>

Turn == /\ Step("turn", "message")
        /\ dir' = newdir
        /\ UNCHANGED <<late, col, newdir, cursor>>

\* addstr writes where the blanks ended: the cursor has not been moved to col.
Message == /\ Step("message", "usleep")
           /\ cursor' = cursor + Len
           /\ late' = IF pc = "endwin" THEN late + 1 ELSE late
           /\ UNCHANGED <<col, dir, newdir>>

moving_msg == Usleep \/ Blank \/ MoveCol \/ Edge \/ Turn \/ Message
-----------------------------------------------------------------------------
Next == pc # "exited" /\ (Main \/ moving_msg)

\* The thread is scheduled in the end; main gets on with the key it has read.
Fairness == /\ WF_vars(pc # "exited" /\ moving_msg)
            /\ WF_vars(StoreDir \/ Return)

Spec == Init /\ [][Next]_vars
FairSpec == Spec /\ Fairness
-----------------------------------------------------------------------------
\* Every time main turns the word round takes it at most one column off either
\* side, whatever the order of the loads and stores of main and the thread.
DriftBounded == -turns <= col /\ col + Len <= COLS + turns

\* A cancelled thread draws at most the frame it had begun, which is all the
\* terminal can get after endwin.
OneLateFrame == late <= 1

\* When main has turned the word round Len + 1 times at most, it comes back
\* between the edges and stays there.
StaysOnScreen == [](turns <= Len + 1) =>
  <>[](pc \in {"endwin", "exited"} \/ (0 <= col /\ col + Len <= COLS))
=============================================================================
