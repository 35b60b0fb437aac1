------------------------------ MODULE Bounce1d -------------------------------
(***************************************************************************)
(* bounce1d.c and set_ticker.c: a word bounces between the two sides of    *)
(* the screen.  The handler of SIGALRM moves and draws it, main reads the  *)
(* keys; the handler interrupts main between any two of its instructions   *)
(* and runs to its end.                                                    *)
(***************************************************************************)
EXTENDS BounceArith

VARIABLES pc,            \* where main is
          neg,           \* the dirc main has loaded and negated
          delay,
          timer,         \* it_interval and it_value of the interval timer
          col, dirc,
          shown,         \* the column the word was last drawn in
          keys           \* the keys pressed so far

vars == <<pc, neg, delay, timer, col, dirc, shown, keys>>

\* setitimer disarms the timer if it is given no time, and refuses a time with
\* a negative part or with a million microseconds or more.
TimeVal(ms) == [sec |-> ms \div 1000, usec |-> (ms % 1000) * 1000]

Init == /\ pc = "getch" /\ neg = 1
        /\ delay = FirstDelay
        /\ timer = TimeVal(FirstDelay)
        /\ col = 0 /\ dirc = 1 /\ shown = 0
        /\ keys = 0
-----------------------------------------------------------------------------
(* main *)

Press == /\ pc = "getch"
         /\ keys < MaxKeys
         /\ keys' = keys + 1

\* ' ': dirc = -dirc is a load and a store, and the handler may run between.
Space == /\ Press
         /\ neg' = -dirc
         /\ pc' = "negated"
         /\ UNCHANGED <<delay, timer, col, dirc, shown>>

StoreDirc == /\ pc = "negated"
             /\ dirc' = neg
             /\ pc' = "getch"
             /\ UNCHANGED <<neg, delay, timer, col, shown, keys>>

\* if (newdelay > 0) set_ticker(delay = newdelay)
KeyF == /\ Press
        /\ delay' = Faster(delay)
        /\ timer' = IF delay' # delay THEN TimeVal(delay') ELSE timer
        /\ UNCHANGED <<pc, neg, col, dirc, shown>>

KeyS == /\ Press
        /\ delay' = Slower(delay)
        /\ timer' = IF delay' # delay THEN TimeVal(delay') ELSE timer
        /\ UNCHANGED <<pc, neg, col, dirc, shown>>

KeyQ == /\ pc = "getch"
        /\ pc' = "exited"
        /\ UNCHANGED <<neg, delay, timer, col, dirc, shown, keys>>

Main == Space \/ StoreDirc \/ KeyF \/ KeyS \/ KeyQ
-----------------------------------------------------------------------------
(* The handler.  It draws the word before it looks at the edges.           *)

move_msg == /\ pc # "exited"
            /\ timer # [sec |-> 0, usec |-> 0]
            /\ col' = col + dirc
            /\ shown' = col'
            /\ dirc' = AtEdge(col', dirc)
            /\ UNCHANGED <<pc, neg, delay, timer, keys>>
-----------------------------------------------------------------------------
Next == Main \/ move_msg

\* The armed timer keeps sending its signal, and main gets on with a key it has
\* read; nobody has to press one.
Fairness == WF_vars(move_msg) /\ WF_vars(StoreDirc)

Spec == Init /\ [][Next]_vars
FairSpec == Spec /\ Fairness
-----------------------------------------------------------------------------
\* Whatever keys have set the delay, halved at the bottom and doubled into
\* overflow at the top, the timer is one setitimer accepts, is not disarmed,
\* and ticks every delay milliseconds.
TimerArmed == /\ 0 <= timer.usec /\ timer.usec < 1000000
              /\ timer.sec + timer.usec > 0
              /\ timer.sec * 1000 + timer.usec \div 1000 = delay

\* Every key takes the word at most one column off either side, though the
\* handler may run in the middle of dirc = -dirc.
DriftBounded == -keys <= shown /\ shown + Len <= COLS + keys

OnScreen == 0 <= shown /\ shown + Len <= COLS

\* After Len + 1 keys at most the word comes back to the screen and stays there.
\* One more, and it may be lost: a column further to the left, col + strlen is
\* negative and, unsigned, beyond the right edge.
StaysOnScreen == [](keys <= Len + 1) => <>[](pc = "exited" \/ OnScreen)
=============================================================================
