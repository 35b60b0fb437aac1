------------------------------- MODULE Bounce2 -------------------------------
(***************************************************************************)
(* bounce2.c and bounce.h: a ball moves in two directions, each at a rate  *)
(* of its own.  The handler of SIGALRM moves it, main reads the keys until *)
(* 'Q' and then stops the timer before it ends curses.                     *)
(*                                                                         *)
(* The handler ignores SIGALRM while it runs and cannot be interrupted by  *)
(* itself, so that it is one step.                                         *)
(***************************************************************************)
EXTENDS Integers

CONSTANTS Y_INIT, X_INIT, Y_TTM, X_TTM,
          TOP_ROW,       \* '5', the character: 53
          BOT_ROW        \* '20', of two characters: 50 * 256 + 48 = 12848

ASSUME ConstantsAssumption ==
  /\ Y_TTM \in Nat \ {0} /\ X_TTM \in Nat \ {0}
  /\ Y_INIT \in Nat /\ X_INIT \in Nat /\ TOP_ROW \in Nat /\ BOT_ROW \in Nat
  /\ Y_INIT < TOP_ROW /\ X_INIT < TOP_ROW /\ TOP_ROW < BOT_ROW

VARIABLES pc,            \* main: "getchar", "wrap_up", "endwin" or "exited"
          c,             \* what main's c holds
          armed,         \* is the interval timer running?
          curses,        \* is the terminal in curses' hands?
          y, x           \* pos, ttm, ttg and dir of each direction

vars == <<pc, c, armed, curses, y, x>>

SetUp(init, ttm) == [pos |-> init, ttm |-> ttm, ttg |-> ttm, dir |-> 1]

Init == /\ pc = "getchar" /\ c = 0
        /\ armed = TRUE /\ curses = TRUE
        /\ y = SetUp(Y_INIT, Y_TTM)
        /\ x = SetUp(X_INIT, X_TTM)
-----------------------------------------------------------------------------
(* The handler *)

\* Slip, for OnTime: the ticks to go not set again.
MoveOnce(v) == [v EXCEPT !.pos = IF v.ttm > 0 /\ v.ttg = 1 THEN @ + v.dir ELSE @,
                         !.ttg = IF v.ttm > 0 THEN @ - 1 ELSE @]

\* Slip, for Bounces: every row from TOP_ROW on sends the ball down.
BounceDown(v) == IF v.pos = BOT_ROW THEN [v EXCEPT !.dir = -1]
                 ELSE IF v.pos >= TOP_ROW THEN [v EXCEPT !.dir = 1]
                 ELSE v

\* v.ttm > 0 && v.ttg-- == 1
Due(v) == v.ttm > 0 /\ v.ttg = 1

Move(v) == IF Due(v) THEN [v EXCEPT !.pos = @ + v.dir, !.ttg = v.ttm]
           ELSE IF v.ttm > 0 THEN [v EXCEPT !.ttg = @ - 1]
           ELSE v

\* Both directions are held between TOP_ROW and BOT_ROW.
Bounce(v) == IF v.pos = TOP_ROW THEN [v EXCEPT !.dir = 1]
             ELSE IF v.pos = BOT_ROW THEN [v EXCEPT !.dir = -1]
             ELSE v

moved == Due(y) \/ Due(x)

ball_move == /\ armed
             /\ y' = IF moved THEN Bounce(Move(y)) ELSE Move(y)
             /\ x' = IF moved THEN Bounce(Move(x)) ELSE Move(x)
             /\ curses' = (curses \/ moved)         \* refresh
             /\ UNCHANGED <<pc, c, armed>>
-----------------------------------------------------------------------------
(* main *)

\* c is the outcome of the comparison, so that no key but 'Q' does anything.
\* At the end of the input getchar returns EOF again and again.
Key == /\ pc = "getchar"
       /\ c' = 1
       /\ LET ttm(v, faster, slower) == [v EXCEPT !.ttm = IF c' = faster THEN @ - 1
                                                         ELSE IF c' = slower THEN @ + 1 ELSE @]
          IN  x' = ttm(x, 102, 115) /\ y' = ttm(y, 70, 83)
       /\ UNCHANGED <<pc, armed, curses>>

KeyQ == /\ pc = "getchar"
        /\ c' = 0
        /\ pc' = "wrap_up"
        /\ UNCHANGED <<armed, curses, y, x>>

StopTicker == /\ pc = "wrap_up"
              /\ armed' = FALSE
              /\ pc' = "endwin"
              /\ UNCHANGED <<c, curses, y, x>>

Endwin == /\ pc = "endwin"
          /\ curses' = FALSE
          /\ pc' = "exited"
          /\ UNCHANGED <<c, armed, y, x>>

Main == Key \/ KeyQ \/ StopTicker \/ Endwin
-----------------------------------------------------------------------------
Next == ball_move \/ Main

\* The timer keeps ticking.  No fairness of main: the user may never press 'Q'.
Spec == Init /\ [][Next]_vars
FairSpec == Spec /\ WF_vars(ball_move)
-----------------------------------------------------------------------------
\* The handler moves a direction on every ttm-th tick, for ever: the ticks to go
\* never fall to 0, at which ttg-- == 1 would not come true again.
OnTime == /\ y.ttm = Y_TTM /\ y.ttg \in 1..Y_TTM
          /\ x.ttm = X_TTM /\ x.ttg \in 1..X_TTM

\* As long as the timer runs the ball keeps meeting both walls.
Bounces == <>~armed \/ \A row \in {TOP_ROW, BOT_ROW} : []<>(y.pos = row) /\ []<>(x.pos = row)
=============================================================================
