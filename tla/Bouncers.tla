------------------------------ MODULE Bouncers -------------------------------
(***************************************************************************)
(* The programs that move something on a screen, of which the user starts  *)
(* one: bounce2, bounce1d, tbounce1d or tanimate.  A program that is not   *)
(* started is one that has ended.                                          *)
(***************************************************************************)
EXTENDS Bounce2, BounceArith

CONSTANTS NumMsg, StrCols, StrLen, StrKeys, NULL       \* of tanimate

ASSUME StringsAssumption ==
  /\ NumMsg \in Nat \ {0}
  /\ StrLen \in 0..2 /\ StrCols \in Nat /\ StrCols >= StrLen + 4
  /\ StrKeys \in [1..NumMsg -> Nat]
  /\ NULL \notin Int

VARIABLES hpc, hneg, hdelay, timer, hcol, dirc, shown, hkeys,          \* bounce1d
          mpc, neg, keys, turns, cancelled, late, delay, col, dir,     \* tbounce1d
          tpc, newdir, cursor,
          main, todo, loaded, pressed, turned, apc, scol, sdir,        \* tanimate
          dpc, spurious, mx, propbox

handler == <<hpc, hneg, hdelay, timer, hcol, dirc, shown, hkeys>>
thread == <<mpc, neg, keys, turns, cancelled, late, delay, col, dir, tpc, newdir, cursor>>
strings == <<main, todo, loaded, pressed, turned, apc, scol, sdir, dpc, spurious, mx, propbox>>
all == <<vars, handler, thread, strings>>

Handler == INSTANCE Bounce1d WITH pc <- hpc, neg <- hneg, delay <- hdelay, col <- hcol, keys <- hkeys
Thread == INSTANCE TBounce1d WITH pc <- mpc, MaxKeys <- MaxKeys \div 2
Strings == INSTANCE Animate WITH COLS <- StrCols, Len <- StrLen, MaxKeys <- StrKeys,
             mpc <- main, neg <- loaded, keys <- pressed, turns <- turned,
             col <- scol, dir <- sdir

BallEnded == /\ pc = "exited" /\ c = 0 /\ armed = FALSE /\ curses = FALSE
             /\ y = SetUp(Y_INIT, Y_TTM) /\ x = SetUp(X_INIT, X_TTM)

HandlerEnded == /\ hpc = "exited" /\ hneg = 1 /\ hdelay = FirstDelay
                /\ timer = Handler!TimeVal(FirstDelay)
                /\ hcol = 0 /\ dirc = 1 /\ shown = 0 /\ hkeys = 0

ThreadEnded == /\ mpc = "exited" /\ neg = 1 /\ keys = 0 /\ turns = 0
               /\ cancelled = TRUE /\ late = 0
               /\ delay = FirstDelay /\ col = 0 /\ dir = 1
               /\ tpc = "dead" /\ newdir = 1 /\ cursor = 0

StringsEnded == /\ main = "exited" /\ todo = {} /\ loaded = 1 /\ pressed = 0
                /\ turned = [i \in Strings!Msgs |-> 0]
                /\ apc = [i \in Strings!Msgs |-> IF i = 0 THEN "lock" ELSE "none"]
                /\ scol = [i \in Strings!Msgs |-> 0] /\ sdir = [i \in Strings!Msgs |-> 1]
                /\ dpc = "condwait" /\ spurious = FALSE /\ mx = 1
                /\ propbox = [row |-> -1, str |-> NULL, flag |-> 0]

OneInit == \/ Init /\ HandlerEnded /\ ThreadEnded /\ StringsEnded
           \/ BallEnded /\ Handler!Init /\ ThreadEnded /\ StringsEnded
           \/ BallEnded /\ HandlerEnded /\ Thread!Init /\ StringsEnded
           \/ BallEnded /\ HandlerEnded /\ ThreadEnded /\ Strings!Init

OneNext == \/ Next /\ UNCHANGED <<handler, thread, strings>>
           \/ Handler!Next /\ UNCHANGED <<vars, thread, strings>>
           \/ Thread!Next /\ UNCHANGED <<vars, handler, strings>>
           \/ Strings!Next /\ UNCHANGED <<vars, handler, thread>>

OneSpec == /\ OneInit /\ [][OneNext]_all
           /\ WF_vars(ball_move) /\ Handler!Fairness /\ Thread!Fairness
-----------------------------------------------------------------------------
\* One string with three keys; two are left to the threads alone.
MCStrKeys == [n \in 1..NumMsg |-> IF n = 1 THEN 3 ELSE 0]
-----------------------------------------------------------------------------
\* The timer of bounce1d keeps time whatever keys have set the delay.
TimerArmed == Handler!TimerArmed

\* The word leaves the screen by a column for each key that turns it at most, and a
\* cancelled thread draws once more at most.
WordBounded == Handler!DriftBounded /\ Thread!DriftBounded /\ Thread!OneLateFrame

\* It comes back and stays when the keys were few.
ScreenKept == Handler!StaysOnScreen /\ Thread!StaysOnScreen

\* What draw_screen draws after a signal has been posted since the last frame.
DrawsNewPosts == Strings!DrawsNewPosts

\* A string leaves the screen by a column for each turn, and one, at most.
StringsBounded == Strings!DriftBounded

\* A screen that has locked itself out stays as it is, and its program does not end.
FrozenForever == Strings!FrozenForever
==============================================================================
