---------------------------- MODULE BouncerProofs ----------------------------
(***************************************************************************)
(* Proofs about bounce2.c, bounce1d.c, tbounce1d.c and tanimate.c for      *)
(* screens, words, delays and numbers of keys and threads of any size: the *)
(* ball moves on time, the timer is never disarmed, words leave the screen *)
(* by a column for each time they are turned at most, and a screen that    *)
(* has locked itself out stays frozen.                                     *)
(*                                                                         *)
(* The bounds are not inductive: a word about to step off an edge must     *)
(* have a column left for it, and when it is depends on the dir that       *)
(* somebody has loaded and not yet stored.                                 *)
(***************************************************************************)
EXTENDS Bouncers, WellFoundedInduction, TLAPS

\* 1 where a step is still owed, 0 otherwise.
Owed(b) == IF b THEN 1 ELSE 0

BallInv == /\ OnTime
           /\ y \in [pos : Int, ttm : Nat, ttg : Nat, dir : {-1, 1}]
           /\ x \in [pos : Int, ttm : Nat, ttg : Nat, dir : {-1, 1}]

\* bounce1d: what the timer is set to, and the columns the word still has to
\* either side, if it goes that way and main is about to turn it.
TimerInv == hdelay \in 1..IntMax /\ timer = Handler!TimeVal(hdelay)

HandlerInv ==
  /\ hpc \in {"getch", "negated", "exited"}
  /\ hcol \in Int /\ shown = hcol /\ dirc \in {-1, 1} /\ hneg \in {-1, 1} /\ hkeys \in Nat
  /\ hpc = "negated" => hkeys > 0
  /\ -hkeys <= hcol - Owed(dirc = -1) - Owed(hpc = "negated")
  /\ hcol + Len + Owed(dirc = 1) + Owed(hpc = "negated") <= COLS + hkeys

\* tbounce1d: the same for the thread.  Between MoveCol and Edge the word has gone
\* its step and may be turned, at "turn" it is newdir that counts.
Frame == {"usleep", "blank", "col", "message", "dead"}

\* Is a column owed to the left, or to the right?
OwedLeft == IF tpc = "edge" THEN dir = 1 ELSE IF tpc = "turn" THEN newdir = -1 ELSE dir = -1
OwedRight == IF tpc = "edge" THEN dir = -1 ELSE IF tpc = "turn" THEN newdir = 1 ELSE dir = 1

ThreadInv ==
  /\ mpc \in {"getch", "negated", "endwin", "exited"}
  /\ tpc \in Frame \cup {"edge", "turn"}
  /\ col \in Int /\ turns \in Nat /\ late \in Nat
  /\ dir \in {-1, 1} /\ neg \in {-1, 1} /\ newdir \in {-1, 1}
  /\ -turns <= col - Owed(OwedLeft)
  /\ col + Len + Owed(OwedRight) <= COLS + turns
  /\ cancelled <=> mpc \in {"endwin", "exited"}
  /\ late > 0 => cancelled /\ tpc \in {"usleep", "dead"}
  /\ late <= 1
  /\ tpc = "dead" => cancelled

\* tanimate: the types, and what is true of each string.
Msgs == Strings!Msgs

StringTypeOK ==
  /\ main \in {"getch", "load", "store", "lock", "exited"}
  /\ todo \subseteq Msgs /\ loaded \in {-1, 1} /\ turned \in [Msgs -> Nat]
  /\ apc \in [Msgs -> {"none", "lock", "check", "wait", "relock", "place", "string", "signal",
                       "unlock", "move", "edge", "right", "left"}]
  /\ scol \in [Msgs -> Int] /\ sdir \in [Msgs -> {-1, 1}]
  /\ propbox \in [row : Int, str : Msgs \cup {NULL}, flag : {0, 1}]

\* Somebody is there to be turned, and has not been when main is about to do it.
TodoInv == /\ \E i \in Msgs : apc[i] # "none"
           /\ main \in {"load", "store"} => todo # {}

\* A signal follows a post, and the post is there until draw_screen clears the flag.
Posted == propbox.flag = 1 /\ propbox.str # NULL

PostedInv == /\ dpc \in {"relock", "place", "string"} /\ ~spurious => Posted
             /\ \A i \in Msgs : apc[i] = "signal" => Posted

\* Who believes to hold mx.  draw_screen holds it twice when it clears the flag, and
\* then there is nobody else; as it waits without holding it, two may be inside.
Holds(i) == apc[i] \in {"check", "place", "string", "signal", "unlock"}

AtMostOne == \A i, j \in Msgs : Holds(i) /\ Holds(j) => i = j
AtMostTwo == \A i, j, k \in Msgs : Holds(i) /\ Holds(j) /\ Holds(k) => i = j \/ j = k \/ i = k
Nobody == \A i \in Msgs : ~Holds(i)

MutexInv ==
  /\ mx \in {0, 1}
  /\ dpc \in {"condwait", "wait", "relock", "place", "string", "lock", "clear", "unlock", "signal"}
  /\ dpc \in {"wait", "relock"} => AtMostTwo /\ (mx = 0 => AtMostOne)
  /\ dpc \in {"condwait", "place", "string", "lock", "signal"} => AtMostOne /\ (mx = 0 => Nobody)
  /\ dpc \in {"clear", "unlock"} => mx = 1 /\ Nobody

\* Is a column owed to string i on the left, or on the right?  Between Move and Edge
\* it has gone its step, and at "left" and "right" it is certain to be turned.
StrLeft(i) == IF apc[i] = "edge" THEN sdir[i] = 1
              ELSE IF apc[i] \in {"left", "right"} THEN apc[i] = "left" ELSE sdir[i] = -1
StrRight(i) == IF apc[i] = "edge" THEN sdir[i] = -1
               ELSE IF apc[i] \in {"left", "right"} THEN apc[i] = "right" ELSE sdir[i] = 1

ReachInv == \A i \in Msgs : /\ -1 - turned[i] <= scol[i] - Owed(StrLeft(i))
                            /\ scol[i] + StrLen + Owed(StrRight(i)) <= StrCols + turned[i]

StringsInv == StringTypeOK /\ TodoInv /\ PostedInv /\ ReachInv

OneInv == BallInv /\ TimerInv /\ HandlerInv /\ ThreadInv /\ MutexInv /\ StringsInv
-----------------------------------------------------------------------------
(* The ball.                                                               *)

\* A tick leaves the ticks to go of a direction between 1 and its ticks to move.
LEMMA MoveTypes ==
  ASSUME NEW v \in [pos : Int, ttm : Nat, ttg : Nat, dir : {-1, 1}], v.ttm > 0, v.ttg \in 1..v.ttm
  PROVE  \A w \in {Move(v), Bounce(Move(v))} :
           /\ w \in [pos : Int, ttm : Nat, ttg : Nat, dir : {-1, 1}]
           /\ w.ttm = v.ttm /\ w.ttg \in 1..v.ttm
<1>1. /\ Move(v) \in [pos : Int, ttm : Nat, ttg : Nat, dir : {-1, 1}]
      /\ Move(v).ttm = v.ttm /\ Move(v).ttg \in 1..v.ttm
  <2>1. CASE v.ttg = 1
    <3>1. Move(v) = [pos |-> v.pos + v.dir, ttm |-> v.ttm, ttg |-> v.ttm, dir |-> v.dir]
      BY <2>1 DEF Move, Due
    <3>2. v.pos + v.dir \in Int
      OBVIOUS
    <3>3. QED
      BY <3>1, <3>2
  <2>2. CASE v.ttg # 1
    <3>1. Move(v) = [v EXCEPT !.ttg = v.ttg - 1]
      BY <2>2 DEF Move, Due
    <3>2. v.ttg - 1 \in 1..v.ttm
      BY <2>2
    <3>3. QED
      BY <3>1, <3>2
  <2>3. QED
    BY <2>1, <2>2
<1>2. ASSUME NEW w \in [pos : Int, ttm : Nat, ttg : Nat, dir : {-1, 1}]
      PROVE  /\ Bounce(w) \in [pos : Int, ttm : Nat, ttg : Nat, dir : {-1, 1}]
             /\ Bounce(w).ttm = w.ttm /\ Bounce(w).ttg = w.ttg
  BY DEF Bounce
<1>3. QED
  BY <1>1, <1>2

\* Every step of bounce2 keeps the ball on time.
LEMMA BallStep == ASSUME BallInv, Next PROVE BallInv'
<1>1. CASE ball_move
  <2>1. y.ttm > 0 /\ y.ttg \in 1..y.ttm /\ x.ttm > 0 /\ x.ttg \in 1..x.ttm
    BY ConstantsAssumption DEF BallInv, OnTime
  <2>2. y' \in {Move(y), Bounce(Move(y))} /\ x' \in {Move(x), Bounce(Move(x))}
    BY <1>1 DEF ball_move
  <2>3. QED
    BY <2>1, <2>2, MoveTypes DEF BallInv, OnTime
<1>2. CASE KeyQ \/ StopTicker \/ Endwin
  BY <1>2 DEF KeyQ, StopTicker, Endwin, BallInv, OnTime
<1>3. CASE Key
  <2>1. c' = 1 /\ x' = [x EXCEPT !.ttm = @] /\ y' = [y EXCEPT !.ttm = @]
    BY <1>3 DEF Key
  <2>2. x' = x /\ y' = y
    BY <2>1 DEF BallInv
  <2>3. QED
    BY <2>2 DEF BallInv, OnTime
<1>4. QED
  BY <1>1, <1>2, <1>3 DEF Next, Main
-----------------------------------------------------------------------------
(* bounce1d.                                                               *)

\* A key leaves the delay positive and an int, also where doubling it overflows.
LEMMA DelayStays ==
  ASSUME NEW d \in 1..IntMax
  PROVE  Handler!Faster(d) \in 1..IntMax /\ Handler!Slower(d) \in 1..IntMax
BY ArithAssumption DEF Handler!Faster, Handler!Slower, Handler!SetDelay, Handler!Twice

\* For any delay that is positive, setitimer gets a time that it accepts.
LEMMA TimeValArms ==
  ASSUME NEW d \in Nat, d > 0
  PROVE  /\ 0 <= Handler!TimeVal(d).usec /\ Handler!TimeVal(d).usec < 1000000
         /\ Handler!TimeVal(d).sec + Handler!TimeVal(d).usec > 0
         /\ Handler!TimeVal(d).sec * 1000 + Handler!TimeVal(d).usec \div 1000 = d
<1> DEFINE s == d \div 1000
           m == d % 1000
<1>1. s \in Nat /\ m \in 0..999 /\ d = 1000 * s + m
  BY SMT
<1>2. (m * 1000) \div 1000 = m
  BY <1>1, SMT
<1>3. Handler!TimeVal(d) = [sec |-> s, usec |-> m * 1000]
  BY DEF Handler!TimeVal
<1>4. 0 <= m * 1000 /\ m * 1000 < 1000000 /\ s + m * 1000 > 0
  <2> HIDE DEF s, m
  <2>1. QED
    BY <1>1, SMT
<1>5. QED
  <2> HIDE DEF s, m
  <2>1. QED
    BY <1>1, <1>2, <1>3, <1>4, SMT

\* Every step of bounce1d keeps the timer armed.
LEMMA TimerStep == ASSUME TimerInv, Handler!Next PROVE TimerInv'
BY DelayStays DEF TimerInv, Handler!Next, Handler!Main, Handler!Press, Handler!Space, Handler!StoreDirc,
                  Handler!KeyF, Handler!KeyS, Handler!KeyQ, Handler!move_msg

\* Every step of bounce1d leaves the word the columns it owes.
LEMMA HandlerStep == ASSUME HandlerInv, Handler!Next PROVE HandlerInv'
<1> USE ArithAssumption DEF HandlerInv, Owed
<1>1. CASE Handler!Space
  BY <1>1 DEF Handler!Space, Handler!Press
<1>2. CASE Handler!StoreDirc
  BY <1>2 DEF Handler!StoreDirc
<1>3. CASE Handler!KeyF \/ Handler!KeyS
  BY <1>3 DEF Handler!KeyF, Handler!KeyS, Handler!Press
<1>4. CASE Handler!KeyQ
  BY <1>4 DEF Handler!KeyQ
<1>5. CASE Handler!move_msg
  <2>1. /\ hcol' = hcol + dirc /\ shown' = hcol' /\ UNCHANGED <<hpc, hneg, hkeys>>
        /\ dirc' = Handler!AtEdge(hcol', dirc)
    BY <1>5 DEF Handler!move_msg
  <2>2. CASE dirc = -1 /\ hcol' <= 0
    <3>1. dirc' = 1
      BY <2>1, <2>2 DEF Handler!AtEdge
    <3>2. QED
      BY <2>1, <2>2, <3>1
  <2>3. CASE dirc = -1 /\ hcol' > 0
    <3>1. dirc' = -1
      BY <2>1, <2>3 DEF Handler!AtEdge
    <3>2. QED
      BY <2>1, <2>3, <3>1
  <2>4. CASE dirc = 1 /\ (hcol' + Len < 0 \/ hcol' + Len >= COLS)
    <3>1. dirc' = -1
      BY <2>1, <2>4 DEF Handler!AtEdge
    <3>2. QED
      BY <2>1, <2>4, <3>1
  <2>5. CASE dirc = 1 /\ ~(hcol' + Len < 0 \/ hcol' + Len >= COLS)
    <3>1. dirc' = 1
      BY <2>1, <2>5 DEF Handler!AtEdge
    <3>2. QED
      BY <2>1, <2>5, <3>1
  <2>6. QED
    BY <2>1, <2>2, <2>3, <2>4, <2>5
<1>6. QED
  BY <1>1, <1>2, <1>3, <1>4, <1>5 DEF Handler!Next, Handler!Main
-----------------------------------------------------------------------------
(* tbounce1d.                                                              *)

\* So does every step of main or of the thread of tbounce1d.
LEMMA ThreadStep == ASSUME ThreadInv, Thread!Next PROVE ThreadInv'
<1> USE ArithAssumption DEF ThreadInv, Owed, OwedLeft, OwedRight, Frame, Thread!mainVars
<1>1. CASE Thread!Space \/ Thread!KeyDelay \/ Thread!KeyQ \/ Thread!Return
  BY <1>1 DEF Thread!Space, Thread!KeyDelay, Thread!KeyQ, Thread!Return, Thread!Press
<1>2. CASE Thread!StoreDir
  BY <1>2 DEF Thread!StoreDir
<1>3. CASE Thread!Usleep \/ Thread!Blank
  BY <1>3 DEF Thread!Usleep, Thread!Blank, Thread!Step
<1>4. CASE Thread!MoveCol
  BY <1>4 DEF Thread!MoveCol, Thread!Step
<1>5. CASE Thread!Edge
  <2>1. /\ tpc = "edge" /\ newdir' = Thread!AtEdge(col, dir)
        /\ tpc' = IF newdir' # dir THEN "turn" ELSE "message"
        /\ UNCHANGED <<mpc, neg, keys, turns, cancelled, delay, late, col, dir, cursor>>
    BY <1>5 DEF Thread!Edge, Thread!Step
  <2>2. CASE dir = -1 /\ col <= 0
    <3>1. newdir' = 1 /\ tpc' = "turn"
      BY <2>1, <2>2 DEF Thread!AtEdge
    <3>2. QED
      BY <2>1, <2>2, <3>1
  <2>3. CASE dir = -1 /\ col > 0
    <3>1. newdir' = -1 /\ tpc' = "message"
      BY <2>1, <2>3 DEF Thread!AtEdge
    <3>2. QED
      BY <2>1, <2>3, <3>1
  <2>4. CASE dir = 1 /\ (col + Len < 0 \/ col + Len >= COLS)
    <3>1. newdir' = -1 /\ tpc' = "turn"
      BY <2>1, <2>4 DEF Thread!AtEdge
    <3>2. QED
      BY <2>1, <2>4, <3>1
  <2>5. CASE dir = 1 /\ ~(col + Len < 0 \/ col + Len >= COLS)
    <3>1. newdir' = 1 /\ tpc' = "message"
      BY <2>1, <2>5 DEF Thread!AtEdge
    <3>2. QED
      BY <2>1, <2>5, <3>1
  <2>6. QED
    BY <2>1, <2>2, <2>3, <2>4, <2>5
<1>6. CASE Thread!Turn
  BY <1>6 DEF Thread!Turn, Thread!Step
<1>7. CASE Thread!Message
  BY <1>7 DEF Thread!Message, Thread!Step
<1>8. QED
  BY <1>1, <1>2, <1>3, <1>4, <1>5, <1>6, <1>7 DEF Thread!Next, Thread!Main, Thread!moving_msg
-----------------------------------------------------------------------------
(* tanimate.                                                               *)

\* The steps of a thread in which a column is owed otherwise than its direction says.
Stepped == {"edge", "left", "right"}

\* What a step does to a thread that it moves on or wakes: it is not one of these.
Onward == \A i \in Msgs : apc'[i] = apc[i] \/ Stepped \cap {apc[i], apc'[i]} = {}

\* Such a step owes nothing.
LEMMA OwesNothing ==
  ASSUME ReachInv, Onward, UNCHANGED <<turned, scol, sdir>>
  PROVE  ReachInv'
BY DEF ReachInv, Onward, Stepped, StrLeft, StrRight, Msgs, Strings!Msgs

\* The string that main turns next is one of those that are left.
LEMMA NextTodo == ASSUME StringTypeOK, todo # {} PROVE Strings!Min(todo) \in todo
<1>1. todo \in SUBSET Nat
  BY StringsAssumption DEF StringTypeOK, Msgs, Strings!Msgs
<1>2. PICK m \in todo : \A j \in todo : <<j, m>> \notin OpToRel(<, Nat)
  BY <1>1, NatLessThanWellFounded, WFMin
<1>3. \A j \in todo : ~(j < m)
  BY <1>1, <1>2 DEF OpToRel
<1>4. \A j \in todo : m <= j
  BY <1>1, <1>3
<1>5. QED
  BY <1>4 DEF Strings!Min

\* main: reading a key, and quitting.
LEMMA KeyStep ==
  ASSUME StringsInv, Strings!Key \/ Strings!Quit \/ Strings!Exit
  PROVE  StringsInv'
<1>1. UNCHANGED <<loaded, turned, apc, scol, sdir, dpc, spurious, propbox>>
  BY DEF Strings!Key, Strings!Quit, Strings!Exit, Strings!animateVars, Strings!drawVars
<1>2. PostedInv' /\ ReachInv'
  BY <1>1 DEF StringsInv, PostedInv, Posted, ReachInv, StrLeft, StrRight
<1>3. CASE Strings!Key
  <2>1. Strings!Strings # {} /\ Strings!Strings \subseteq Msgs
    BY DEF StringsInv, TodoInv, Strings!Strings, Msgs
  <2>2. todo' \subseteq Msgs /\ todo' # {} /\ main' = "load"
    BY <1>3, <2>1 DEF Strings!Key
  <2>3. QED
    BY <1>1, <1>2, <2>2 DEF StringsInv, StringTypeOK, TodoInv
<1>4. CASE Strings!Quit \/ Strings!Exit
  <2>1. todo' = todo /\ main' \in {"lock", "exited"}
    BY <1>4 DEF Strings!Quit, Strings!Exit
  <2>2. QED
    BY <1>1, <1>2, <2>1 DEF StringsInv, StringTypeOK, TodoInv
<1>5. QED
  BY <1>3, <1>4

\* main: turning a string, with a load and a store.
LEMMA TurnStep == ASSUME StringsInv, Strings!Load \/ Strings!Store PROVE StringsInv'
<1> DEFINE m == Strings!Min(todo)
<1>1. UNCHANGED <<apc, scol, dpc, spurious, propbox>> /\ main \in {"load", "store"}
  BY DEF Strings!Load, Strings!Store, Strings!animateVars, Strings!drawVars
<1>2. PostedInv'
  BY <1>1 DEF StringsInv, PostedInv, Posted
<1>3. m \in todo /\ m \in Msgs
  BY <1>1, NextTodo DEF StringsInv, StringTypeOK, TodoInv
<1> HIDE DEF m
<1>4. CASE Strings!Load
  <2>1. loaded' = -sdir[m] /\ main' = "store" /\ UNCHANGED <<todo, turned, sdir>>
    BY <1>4 DEF Strings!Load, m
  <2>2. loaded' \in {-1, 1}
    BY <1>3, <2>1 DEF StringsInv, StringTypeOK
  <2>3. QED
    BY <1>1, <1>2, <2>1, <2>2 DEF StringsInv, StringTypeOK, TodoInv, ReachInv, StrLeft, StrRight
<1>5. CASE Strings!Store
  <2>1. /\ sdir' = [sdir EXCEPT ![m] = loaded] /\ turned' = [turned EXCEPT ![m] = turned[m] + 1]
        /\ todo' = todo \ {m} /\ UNCHANGED loaded
        /\ main' = IF todo' = {} THEN "getch" ELSE "load"
    BY <1>5 DEF Strings!Store, m
  <2>2. StringTypeOK' /\ TodoInv'
    BY <1>1, <1>3, <2>1 DEF StringsInv, StringTypeOK, TodoInv
  <2>3. /\ sdir'[m] = loaded /\ turned'[m] = turned[m] + 1
        /\ \A i \in Msgs \ {m} : sdir'[i] = sdir[i] /\ turned'[i] = turned[i]
    BY <1>3, <2>1 DEF StringsInv, StringTypeOK
  <2>4. ASSUME NEW i \in Msgs
        PROVE  /\ -1 - turned'[i] <= scol'[i] - Owed(StrLeft(i)')
               /\ scol'[i] + StrLen + Owed(StrRight(i)') <= StrCols + turned'[i]
    <3>1. /\ turned[i] \in Nat /\ scol[i] \in Int
          /\ -1 - turned[i] <= scol[i] - Owed(StrLeft(i))
          /\ scol[i] + StrLen + Owed(StrRight(i)) <= StrCols + turned[i]
      BY DEF StringsInv, StringTypeOK, ReachInv
    <3>2. CASE i = m
      <4>1. scol'[i] = scol[i] /\ turned'[i] = turned[i] + 1
        BY <1>1, <2>3, <3>2
      <4>2. /\ Owed(StrLeft(i)) \in {0, 1} /\ Owed(StrLeft(i)') \in {0, 1}
            /\ Owed(StrRight(i)) \in {0, 1} /\ Owed(StrRight(i)') \in {0, 1}
        BY DEF Owed
      <4>3. -1 - turned[i] <= scol[i] /\ scol[i] + StrLen <= StrCols + turned[i]
        BY <3>1, <4>2, StringsAssumption
      <4>4. \A o \in {0, 1} : /\ -1 - (turned[i] + 1) <= scol[i] - o
                              /\ scol[i] + StrLen + o <= StrCols + (turned[i] + 1)
        <5>1. \A t \in Nat, k \in Int, l \in 0..2, w \in Nat, o \in {0, 1} :
                -1 - t <= k /\ k + l <= w + t => -1 - (t + 1) <= k - o /\ k + l + o <= w + (t + 1)
          OBVIOUS
        <5>2. QED
          BY <3>1, <4>3, <5>1, StringsAssumption
      <4>5. QED
        BY <4>1, <4>2, <4>4
    <3>3. CASE i # m
      BY <1>1, <2>3, <3>1, <3>3 DEF StrLeft, StrRight
    <3>4. QED
      BY <3>2, <3>3
  <2>5. ReachInv'
    BY <2>4 DEF ReachInv, Msgs, Strings!Msgs
  <2>6. QED
    BY <1>2, <2>2, <2>5 DEF StringsInv
<1>6. QED
  BY <1>4, <1>5

\* animate: the steps in which it posts, without its place in the row.
LEMMA PostStep ==
  ASSUME StringsInv, NEW i \in Msgs,
         \/ Strings!Lock(i) \/ Strings!Check(i) \/ Strings!Wake(i) \/ Strings!Place(i)
         \/ Strings!String(i) \/ Strings!Unlock(i)
  PROVE  StringsInv'
<1>1. UNCHANGED <<main, todo, loaded, turned, scol, sdir, dpc, spurious>>
  BY DEF Strings!Lock, Strings!Check, Strings!Wake, Strings!Place, Strings!String, Strings!Unlock,
         Strings!mainVars, Strings!drawVars
<1>2. PICK p \in {"check", "wait", "place", "string", "signal", "move"} :
        /\ apc' = [apc EXCEPT ![i] = p]
        /\ apc[i] \in {"lock", "check", "relock", "place", "string", "unlock"}
        /\ p = "signal" => propbox'.str = i /\ propbox'.flag = 1
        /\ propbox'.str \in {propbox.str, i} /\ propbox'.flag \in {propbox.flag, 1}
        /\ propbox' \in [row : Int, str : Msgs \cup {NULL}, flag : {0, 1}]
  <2>1. /\ Strings!Lock(i) => apc[i] = "lock" /\ Strings!Goto(i, "check") /\ propbox' = propbox
        /\ Strings!Wake(i) => apc[i] = "relock" /\ Strings!Goto(i, "place") /\ propbox' = propbox
        /\ Strings!Unlock(i) => apc[i] = "unlock" /\ Strings!Goto(i, "move") /\ propbox' = propbox
    BY DEF Strings!Lock, Strings!Wake, Strings!Unlock
  <2>2. Strings!Check(i) => /\ apc[i] = "check" /\ propbox' = propbox
                            /\ Strings!Goto(i, "wait") \/ Strings!Goto(i, "place")
    BY DEF Strings!Check
  <2>3. Strings!Place(i) => /\ apc[i] = "place" /\ Strings!Goto(i, "string")
                            /\ propbox' = [propbox EXCEPT !.row = i]
    BY DEF Strings!Place
  <2>4. Strings!String(i) => /\ apc[i] = "string" /\ Strings!Goto(i, "signal")
                             /\ propbox' = [propbox EXCEPT !.str = i, !.flag = 1]
    BY DEF Strings!String
  <2>5. i \in Int
    BY StringsAssumption DEF Msgs, Strings!Msgs
  <2>6. QED
    BY <2>1, <2>2, <2>3, <2>4, <2>5 DEF Strings!Goto, StringsInv, StringTypeOK
<1>3. /\ apc'[i] = p /\ \A j \in Msgs \ {i} : apc'[j] = apc[j]
  BY <1>2 DEF StringsInv, StringTypeOK
<1>4. StringTypeOK'
  BY <1>1, <1>2 DEF StringsInv, StringTypeOK
<1>5. TodoInv'
  BY <1>1, <1>2, <1>3 DEF StringsInv, TodoInv
<1>6. i # NULL
  BY StringsAssumption DEF Msgs, Strings!Msgs
<1>7. PostedInv'
  BY <1>1, <1>2, <1>3, <1>6 DEF StringsInv, PostedInv, Posted
<1>8. Onward
  BY <1>2, <1>3 DEF Onward, Stepped
<1>9. QED
  BY <1>1, <1>4, <1>5, <1>7, <1>8, OwesNothing DEF StringsInv

\* A signal of animate follows a post, one of draw_screen does not wake itself, and
\* a wakeup without a signal is told from them.
LEMMA SignalStep ==
  ASSUME StringsInv, Strings!DrawSignal \/ Strings!Wakeup \/ \E i \in Msgs : Strings!SignalScreen(i)
  PROVE  StringsInv'
<1>1. UNCHANGED <<main, todo, loaded, turned, scol, sdir, propbox>>
  BY DEF Strings!DrawSignal, Strings!SignalScreen, Strings!Wakeup, Strings!mainVars
<1>2. dpc' \in {"relock", "place", "string"} /\ ~spurious' => Posted
  <2>1. CASE Strings!DrawSignal
    BY <2>1 DEF Strings!DrawSignal, Strings!Signal
  <2>2. CASE Strings!Wakeup
    BY <2>2 DEF Strings!Wakeup, Strings!Spurious, StringsInv, PostedInv
  <2>3. CASE \E i \in Msgs : Strings!SignalScreen(i)
    BY <2>3 DEF Strings!SignalScreen, Strings!Signal, StringsInv, PostedInv
  <2>4. QED
    BY <2>1, <2>2, <2>3
<1> DEFINE Passed(j) == \/ apc'[j] = apc[j]
                        \/ apc[j] \in {"signal", "wait"} /\ apc'[j] \in {"unlock", "relock"}
<1>3. /\ apc' \in [Msgs -> {"none", "lock", "check", "wait", "relock", "place", "string", "signal",
                            "unlock", "move", "edge", "right", "left"}]
      /\ \A j \in Msgs : Passed(j)
  <2>1. CASE Strings!DrawSignal
    BY <2>1 DEF Strings!DrawSignal, Strings!Signal, StringsInv, StringTypeOK, Msgs
  <2>2. CASE \E i \in Msgs : Strings!SignalScreen(i)
    BY <2>2 DEF Strings!SignalScreen, Strings!Signal, StringsInv, StringTypeOK, Msgs
  <2>3. CASE Strings!Wakeup
    BY <2>3 DEF Strings!Wakeup, Strings!Spurious, StringsInv, StringTypeOK, Msgs
  <2>4. QED
    BY <2>1, <2>2, <2>3
<1>4. StringTypeOK' /\ TodoInv'
  BY <1>1, <1>3 DEF StringsInv, StringTypeOK, TodoInv
<1>5. PostedInv'
  <2>1. Posted' <=> Posted
    BY <1>1 DEF Posted
  <2>2. \A j \in Msgs : apc'[j] = "signal" => apc[j] = "signal"
    BY <1>3
  <2>3. QED
    BY <1>2, <2>1, <2>2 DEF StringsInv, PostedInv
<1>6. Onward
  BY <1>3 DEF Onward, Stepped
<1>7. QED
  BY <1>1, <1>4, <1>5, <1>6, OwesNothing DEF StringsInv

\* animate: a column further, and round at an edge.
LEMMA MoveStep ==
  ASSUME StringsInv, NEW i \in Msgs, Strings!Move(i) \/ Strings!Edge(i) \/ Strings!Turn(i)
  PROVE  StringsInv'
<1> DEFINE p == apc'[i]
<1>1. /\ UNCHANGED <<main, todo, loaded, turned, dpc, spurious, propbox>>
      /\ scol[i] \in Int /\ sdir[i] \in {-1, 1} /\ turned[i] \in Nat
      /\ -1 - turned[i] <= scol[i] - Owed(StrLeft(i))
      /\ scol[i] + StrLen + Owed(StrRight(i)) <= StrCols + turned[i]
  BY DEF Strings!Move, Strings!Edge, Strings!Turn, Strings!mainVars, Strings!drawVars,
         StringsInv, StringTypeOK, ReachInv
<1>2. /\ p \in {"edge", "right", "left", "lock"} /\ apc' = [apc EXCEPT ![i] = p]
      /\ scol'[i] \in Int /\ scol' = [scol EXCEPT ![i] = scol'[i]]
      /\ sdir'[i] \in {-1, 1} /\ sdir' = [sdir EXCEPT ![i] = sdir'[i]]
      /\ -1 - turned[i] <= scol'[i] - Owed(StrLeft(i)')
      /\ scol'[i] + StrLen + Owed(StrRight(i)') <= StrCols + turned[i]
  <2>1. CASE Strings!Move(i)
    <3>1. /\ apc[i] = "move" /\ p = "edge" /\ apc' = [apc EXCEPT ![i] = p]
          /\ scol'[i] = scol[i] + sdir[i] /\ scol' = [scol EXCEPT ![i] = scol'[i]]
          /\ sdir' = sdir /\ sdir = [sdir EXCEPT ![i] = sdir[i]]
      BY <2>1 DEF Strings!Move, Strings!Goto, StringsInv, StringTypeOK
    <3>2. QED
      BY <1>1, <3>1, StringsAssumption DEF StrLeft, StrRight, Owed
  <2>2. CASE Strings!Edge(i)
    <3>1. /\ apc[i] = "edge" /\ apc' = [apc EXCEPT ![i] = p]
          /\ p = IF scol[i] <= 0 /\ sdir[i] = -1 THEN "right"
                 ELSE IF scol[i] + StrLen >= StrCols /\ sdir[i] = 1 THEN "left" ELSE "lock"
          /\ scol' = scol /\ scol = [scol EXCEPT ![i] = scol[i]]
          /\ sdir' = sdir /\ sdir = [sdir EXCEPT ![i] = sdir[i]]
      BY <2>2 DEF Strings!Edge, Strings!Goto, StringsInv, StringTypeOK
    <3>2. QED
      BY <1>1, <3>1, StringsAssumption DEF StrLeft, StrRight, Owed
  <2>3. CASE Strings!Turn(i)
    <3>1. /\ apc[i] \in {"left", "right"} /\ p = "lock" /\ apc' = [apc EXCEPT ![i] = p]
          /\ scol' = scol /\ scol = [scol EXCEPT ![i] = scol[i]]
          /\ sdir'[i] = (IF apc[i] = "right" THEN 1 ELSE -1) /\ sdir' = [sdir EXCEPT ![i] = sdir'[i]]
      BY <2>3 DEF Strings!Turn, Strings!Goto, StringsInv, StringTypeOK
    <3>2. QED
      BY <1>1, <3>1, StringsAssumption DEF StrLeft, StrRight, Owed
  <2>4. QED
    BY <2>1, <2>2, <2>3
<1> HIDE DEF p
<1>3. /\ apc'[i] = p
      /\ \A j \in Msgs \ {i} : apc'[j] = apc[j] /\ scol'[j] = scol[j] /\ sdir'[j] = sdir[j]
  BY <1>2 DEF StringsInv, StringTypeOK
<1>4. StringTypeOK'
  BY <1>1, <1>2 DEF StringsInv, StringTypeOK
<1>5. TodoInv' /\ PostedInv'
  BY <1>1, <1>2, <1>3 DEF StringsInv, TodoInv, PostedInv, Posted
<1>6. ASSUME NEW j \in Msgs
      PROVE  /\ -1 - turned'[j] <= scol'[j] - Owed(StrLeft(j)')
             /\ scol'[j] + StrLen + Owed(StrRight(j)') <= StrCols + turned'[j]
  <2>1. CASE j = i
    BY <1>1, <1>2, <2>1
  <2>2. CASE j # i
    BY <1>1, <1>3, <2>2 DEF StringsInv, ReachInv, StrLeft, StrRight
  <2>3. QED
    BY <2>1, <2>2
<1>7. ReachInv'
  BY <1>6 DEF ReachInv, Msgs, Strings!Msgs
<1>8. QED
  BY <1>4, <1>5, <1>7 DEF StringsInv

\* draw_screen: while it clears the flag nobody else is between a post and its signal.
LEMMA DrawStep ==
  ASSUME StringsInv, MutexInv,
         \/ Strings!DrawWait \/ Strings!DrawWake \/ Strings!DrawMove \/ Strings!DrawString
         \/ Strings!DrawLock \/ Strings!DrawClear \/ Strings!DrawUnlock
  PROVE  StringsInv'
<1>1. UNCHANGED <<main, todo, loaded, turned, apc, scol, sdir>>
  BY DEF Strings!DrawWait, Strings!DrawWake, Strings!DrawMove, Strings!DrawString, Strings!DrawLock,
         Strings!DrawClear, Strings!DrawUnlock, Strings!mainVars, Strings!animateVars
<1>2. propbox' \in [row : Int, str : Msgs \cup {NULL}, flag : {0, 1}] /\ PostedInv'
  <2>1. CASE Strings!DrawClear
    <3>1. /\ dpc' = "unlock" /\ propbox' = [propbox EXCEPT !.flag = 0]
          /\ \A i \in Msgs : apc[i] # "signal"
      BY <2>1 DEF Strings!DrawClear, Strings!DrawGoto, MutexInv, Nobody, Holds
    <3>2. QED
      BY <1>1, <3>1 DEF StringsInv, StringTypeOK, PostedInv
  <2>2. CASE ~Strings!DrawClear
    <3>1. propbox' = propbox
      BY <2>2 DEF Strings!DrawWait, Strings!DrawWake, Strings!DrawMove, Strings!DrawString, Strings!DrawLock,
                  Strings!DrawUnlock
    <3>2. dpc' \in {"place", "string"} => dpc \in {"relock", "place"} /\ spurious' = spurious
      BY <2>2 DEF Strings!DrawWait, Strings!DrawWake, Strings!DrawMove, Strings!DrawString, Strings!DrawLock,
                  Strings!DrawUnlock, Strings!DrawGoto
    <3>3. dpc' # "relock"
      BY <2>2 DEF Strings!DrawWait, Strings!DrawWake, Strings!DrawMove, Strings!DrawString, Strings!DrawLock,
                  Strings!DrawUnlock, Strings!DrawGoto
    <3>4. QED
      BY <1>1, <3>1, <3>2, <3>3 DEF StringsInv, StringTypeOK, PostedInv, Posted
  <2>3. QED
    BY <2>1, <2>2
<1>3. QED
  BY <1>1, <1>2 DEF StringsInv, StringTypeOK, TodoInv, ReachInv, StrLeft, StrRight

\* Every step of tanimate.
LEMMA StringsStep == ASSUME StringsInv, MutexInv, Strings!Next PROVE StringsInv'
BY KeyStep, TurnStep, PostStep, SignalStep, MoveStep, DrawStep
   DEF Strings!Next, Strings!Main, Strings!animate, Strings!draw_screen, Msgs

\* mx: what of it is held, and by how many, at each step of draw_screen.
LEMMA MutexStep == ASSUME StringTypeOK, MutexInv, Strings!Next PROVE MutexInv'
<1>1. CASE Strings!Main
  <2>1. UNCHANGED <<apc, dpc>> /\ (mx' = mx \/ mx' = 1)
    BY <1>1 DEF Strings!Main, Strings!Key, Strings!Load, Strings!Store, Strings!Quit, Strings!Exit,
                Strings!Acquire, Strings!animateVars, Strings!drawVars
  <2>2. (AtMostOne' <=> AtMostOne) /\ (AtMostTwo' <=> AtMostTwo) /\ (Nobody' <=> Nobody)
    BY <2>1 DEF AtMostOne, AtMostTwo, Nobody, Holds
  <2>3. QED
    BY <2>1, <2>2 DEF MutexInv
<1>2. CASE Strings!draw_screen \/ Strings!Wakeup
  <2>1. \A i \in Msgs : Holds(i)' <=> Holds(i)
    <3>1. apc' = apc \/ \E i \in Msgs : apc[i] = "wait" /\ apc' = [apc EXCEPT ![i] = "relock"]
      BY <1>2 DEF Strings!draw_screen, Strings!DrawWait, Strings!DrawWake, Strings!DrawMove, Strings!DrawString,
                  Strings!DrawLock, Strings!DrawClear, Strings!DrawUnlock, Strings!DrawSignal, Strings!Signal,
                  Strings!Wakeup, Strings!Spurious, Strings!animateVars, Msgs
    <3>2. QED
      BY <3>1 DEF Holds, StringTypeOK
  <2>2. (AtMostOne' <=> AtMostOne) /\ (AtMostTwo' <=> AtMostTwo) /\ (Nobody' <=> Nobody)
    BY <2>1 DEF AtMostOne, AtMostTwo, Nobody
  <2>3. \/ dpc = "condwait" /\ dpc' = "wait" /\ mx' = 0
        \/ dpc = "wait" /\ dpc' \in {"wait", "relock"} /\ mx' = mx
        \/ dpc = "relock" /\ dpc' = "place" /\ mx = 0 /\ mx' = 1
        \/ dpc = "place" /\ dpc' = "string" /\ mx' = mx
        \/ dpc = "string" /\ dpc' = "lock" /\ mx' = mx
        \/ dpc = "lock" /\ dpc' = "clear" /\ mx = 0 /\ mx' = 1
        \/ dpc = "clear" /\ dpc' = "unlock" /\ mx' = mx
        \/ dpc = "unlock" /\ dpc' = "signal" /\ mx' = 0
        \/ dpc = "signal" /\ dpc' = "condwait" /\ mx' = mx
        \/ dpc' = dpc /\ mx' = mx
    BY <1>2 DEF Strings!draw_screen, Strings!DrawWait, Strings!DrawWake, Strings!DrawMove, Strings!DrawString,
                Strings!DrawLock, Strings!DrawClear, Strings!DrawUnlock, Strings!DrawSignal, Strings!Signal,
                Strings!Wakeup, Strings!Spurious, Strings!DrawGoto, Strings!Acquire
  <2>4. Nobody => AtMostOne /\ AtMostTwo
    BY DEF Nobody, AtMostOne, AtMostTwo
  <2>5. AtMostOne => AtMostTwo
    BY DEF AtMostOne, AtMostTwo
  <2>6. QED
    BY <2>2, <2>3, <2>4, <2>5 DEF MutexInv
<1>3. ASSUME NEW i \in Msgs, Strings!Lock(i) \/ Strings!Wake(i)
      PROVE  MutexInv'
  <2>1. dpc' = dpc /\ mx = 0 /\ mx' = 1
    BY <1>3 DEF Strings!Lock, Strings!Wake, Strings!Acquire, Strings!drawVars
  <2>2. \A j \in Msgs \ {i} : Holds(j)' <=> Holds(j)
    BY <1>3 DEF Strings!Lock, Strings!Wake, Strings!Goto, Holds, StringTypeOK
  <2>3. /\ Nobody => AtMostOne'
        /\ AtMostOne => AtMostTwo'
    BY <2>2 DEF Nobody, AtMostOne, AtMostTwo
  <2>4. QED
    BY <2>1, <2>3 DEF MutexInv
<1>4. ASSUME NEW i \in Msgs, Strings!animate(i), ~(Strings!Lock(i) \/ Strings!Wake(i))
      PROVE  MutexInv'
  <2>1. \A j \in Msgs : Holds(j)' => Holds(j)
    BY <1>4 DEF Strings!animate, Strings!Check, Strings!Place, Strings!String, Strings!SignalScreen, Strings!Signal,
                Strings!Unlock, Strings!Move, Strings!Edge, Strings!Turn, Strings!Goto, Holds, StringTypeOK, Msgs
  <2>2. dpc' = dpc \/ (dpc = "wait" /\ dpc' = "relock")
    BY <1>4 DEF Strings!animate, Strings!Check, Strings!Place, Strings!String, Strings!SignalScreen, Strings!Signal,
                Strings!Unlock, Strings!Move, Strings!Edge, Strings!Turn, Strings!drawVars
  <2>3. mx' = mx \/ (mx' = 0 /\ Holds(i) /\ ~Holds(i)')
    BY <1>4 DEF Strings!animate, Strings!Check, Strings!Place, Strings!String, Strings!SignalScreen,
                Strings!Unlock, Strings!Move, Strings!Edge, Strings!Turn, Strings!Goto, Holds, StringTypeOK, Msgs
  <2>4. (AtMostOne => AtMostOne') /\ (AtMostTwo => AtMostTwo') /\ (Nobody => Nobody')
    BY <2>1 DEF AtMostOne, AtMostTwo, Nobody
  <2>5. Holds(i) /\ ~Holds(i)' => (AtMostOne => Nobody') /\ (AtMostTwo => AtMostOne')
    BY <2>1 DEF AtMostOne, AtMostTwo, Nobody
  <2>6. ~(Holds(i) /\ Nobody)
    BY DEF Nobody
  <2>7. QED
    BY <2>2, <2>3, <2>4, <2>5, <2>6 DEF MutexInv
<1>5. QED
  BY <1>1, <1>2, <1>3, <1>4 DEF Strings!Next, Strings!animate, Msgs

\* A program that has ended leaves its strings in place.
LEMMA StringsInit == StringsEnded \/ Strings!Init => StringsInv
<1>1. CASE StringsEnded
  BY <1>1, StringsAssumption DEF StringsEnded, StringsInv, StringTypeOK, TodoInv, PostedInv, Posted, ReachInv,
                                 StrLeft, StrRight, Owed, Msgs, Strings!Msgs
<1>2. CASE Strings!Init
  <2>1. PICK n \in 1..NumMsg : apc = [i \in Msgs |-> IF i < n THEN "lock" ELSE "none"]
    BY <1>2 DEF Strings!Init, Msgs
  <2>2. /\ main = "getch" /\ todo = {} /\ loaded = 1 /\ dpc = "condwait"
        /\ turned = [i \in Msgs |-> 0]
        /\ scol \in [Msgs -> 0..StrCols - StrLen - 4] /\ sdir \in [Msgs -> {-1, 1}]
        /\ propbox = [row |-> -1, str |-> NULL, flag |-> 0]
    BY <1>2 DEF Strings!Init, Msgs
  <2>3. 0 \in Msgs /\ apc[0] = "lock"
    BY <2>1, StringsAssumption DEF Msgs, Strings!Msgs
  <2>4. StringTypeOK
    BY <2>1, <2>2, StringsAssumption DEF StringTypeOK
  <2>5. TodoInv /\ PostedInv
    BY <2>1, <2>2, <2>3 DEF TodoInv, PostedInv, Posted
  <2>6. ASSUME NEW i \in Msgs
        PROVE  /\ -1 - turned[i] <= scol[i] - Owed(StrLeft(i))
               /\ scol[i] + StrLen + Owed(StrRight(i)) <= StrCols + turned[i]
    <3>1. turned[i] = 0 /\ scol[i] \in 0..StrCols - StrLen - 4
      BY <2>2
    <3>2. Owed(StrLeft(i)) \in {0, 1} /\ Owed(StrRight(i)) \in {0, 1}
      BY DEF Owed
    <3>3. QED
      BY <3>1, <3>2, StringsAssumption
  <2>7. QED
    BY <2>4, <2>5, <2>6 DEF StringsInv, ReachInv
<1>3. QED
  BY <1>1, <1>2
\* At the start nobody holds mx.
LEMMA MutexInit == StringsEnded \/ Strings!Init => MutexInv
BY DEF StringsEnded, Strings!Init, MutexInv, AtMostOne, Nobody, Holds, Msgs
-----------------------------------------------------------------------------
\* The inductive invariant of the four programs, whichever is started.
THEOREM Invariance == OneSpec => []OneInv
<1>1. OneInit => OneInv
  <2>1. SUFFICES ASSUME OneInit PROVE OneInv
    OBVIOUS
  <2>2. BallInv
    BY <2>1, ConstantsAssumption DEF OneInit, Init, BallEnded, SetUp, BallInv, OnTime
  <2>3. TimerInv
    BY <2>1, ArithAssumption DEF OneInit, Handler!Init, HandlerEnded, TimerInv
  <2>4. HandlerInv
    BY <2>1, ArithAssumption DEF OneInit, Handler!Init, HandlerEnded, HandlerInv, Owed
  <2>5. ThreadInv
    BY <2>1, ArithAssumption DEF OneInit, Thread!Init, ThreadEnded, ThreadInv, Owed, OwedLeft, OwedRight, Frame
  <2>6. StringsInv /\ MutexInv
    BY <2>1, StringsInit, MutexInit DEF OneInit
  <2>7. QED
    BY <2>2, <2>3, <2>4, <2>5, <2>6 DEF OneInv
<1>2. OneInv /\ [OneNext]_all => OneInv'
  <2>1. SUFFICES ASSUME OneInv, [OneNext]_all PROVE OneInv'
    OBVIOUS
  <2>2. ASSUME UNCHANGED vars PROVE BallInv'
    BY <2>1, <2>2 DEF vars, OneInv, BallInv, OnTime
  <2>3. ASSUME UNCHANGED handler PROVE TimerInv' /\ HandlerInv'
    BY <2>1, <2>3 DEF handler, OneInv, TimerInv, HandlerInv
  <2>4. ASSUME UNCHANGED thread PROVE ThreadInv'
    BY <2>1, <2>4 DEF thread, OneInv, ThreadInv, OwedLeft, OwedRight
  <2>5. ASSUME UNCHANGED strings PROVE StringsInv' /\ MutexInv'
    <3>1. StringsInv'
      BY <2>1, <2>5 DEF strings, OneInv, StringsInv, StringTypeOK, TodoInv, PostedInv, Posted, ReachInv,
                        StrLeft, StrRight
    <3>2. MutexInv'
      BY <2>1, <2>5 DEF strings, OneInv, MutexInv, AtMostOne, AtMostTwo, Nobody, Holds
    <3>3. QED
      BY <3>1, <3>2
  <2>6. ASSUME Strings!Next PROVE StringsInv' /\ MutexInv'
    BY <2>1, <2>6, StringsStep, MutexStep DEF OneInv, StringsInv
  <2>7. QED
    BY <2>1, <2>2, <2>3, <2>4, <2>5, <2>6, BallStep, TimerStep, HandlerStep, ThreadStep DEF OneInv, OneNext, all
<1>3. QED
  BY <1>1, <1>2, PTL DEF OneSpec

\* The ticks to go never fall to 0, for rates of any size.
THEOREM BallOnTime == OneSpec => []OnTime
<1>1. OneInv => OnTime
  BY DEF OneInv, BallInv
<1>2. QED
  BY <1>1, Invariance, PTL

\* Whatever keys have set the delay, for any INT_MAX, the timer ticks every delay
\* milliseconds and is never disarmed.
THEOREM TimerKept == OneSpec => []TimerArmed
<1>1. OneInv => TimerArmed
  <2>1. SUFFICES ASSUME OneInv PROVE Handler!TimerArmed
    BY DEF TimerArmed
  <2>2. hdelay \in Nat /\ hdelay > 0 /\ timer = Handler!TimeVal(hdelay)
    BY <2>1, ArithAssumption DEF OneInv, TimerInv
  <2>3. QED
    BY <2>2, TimeValArms, SMT DEF Handler!TimerArmed
<1>2. QED
  BY <1>1, Invariance, PTL

\* However the handler, the thread and main interleave, a turn costs a column at most
\* and a cancelled thread draws once at most, for words and screens of any width.
THEOREM WordInReach == OneSpec => []WordBounded
<1>1. OneInv => WordBounded
  <2>1. SUFFICES ASSUME OneInv PROVE Handler!DriftBounded /\ Thread!DriftBounded /\ Thread!OneLateFrame
    BY DEF WordBounded
  <2>2. Handler!DriftBounded
    BY <2>1, ArithAssumption DEF OneInv, HandlerInv, Owed, Handler!DriftBounded
  <2>3. Thread!DriftBounded
    BY <2>1, ArithAssumption DEF OneInv, ThreadInv, Owed, Thread!DriftBounded
  <2>4. Thread!OneLateFrame
    BY <2>1 DEF OneInv, ThreadInv, Thread!OneLateFrame
  <2>5. QED
    BY <2>2, <2>3, <2>4
<1>2. QED
  BY <1>1, Invariance, PTL

\* Whoever signals, whoever is woken and however many are in the critical section,
\* what draw_screen draws after a signal was posted since the last frame, for any
\* number of threads.
THEOREM PostsDrawnOnce == OneSpec => []DrawsNewPosts
<1>1. OneInv => DrawsNewPosts
  BY DEF OneInv, StringsInv, PostedInv, Posted, DrawsNewPosts, Strings!DrawsNewPosts
<1>2. QED
  BY <1>1, Invariance, PTL

\* For any strings, screen and keys, a string leaves the screen by a column for each
\* store of main that raced with it, and one on the left, at most.
THEOREM StringsInReach == OneSpec => []StringsBounded
<1>1. OneInv => StringsBounded
  <2> SUFFICES ASSUME OneInv, NEW i \in Msgs
               PROVE  scol[i] >= -1 - turned[i] /\ scol[i] + StrLen <= StrCols + turned[i]
    BY DEF StringsBounded, Strings!DriftBounded, Msgs
  <2>1. /\ turned[i] \in Nat /\ scol[i] \in Int
        /\ -1 - turned[i] <= scol[i] - Owed(StrLeft(i))
        /\ scol[i] + StrLen + Owed(StrRight(i)) <= StrCols + turned[i]
    BY DEF OneInv, StringsInv, StringTypeOK, ReachInv
  <2>2. Owed(StrLeft(i)) \in {0, 1} /\ Owed(StrRight(i)) \in {0, 1}
    BY DEF Owed
  <2>3. StrLen \in Int /\ StrCols \in Int
    BY StringsAssumption
  <2>4. ASSUME NEW at \in Int, NEW turns0 \in Nat, NEW left \in {0, 1}, NEW right \in {0, 1},
               -1 - turns0 <= at - left, at + StrLen + right <= StrCols + turns0
        PROVE  at >= -1 - turns0 /\ at + StrLen <= StrCols + turns0
    BY <2>3, <2>4
  <2>5. QED
    BY <2>1, <2>2, <2>4
<1>2. QED
  BY <1>1, Invariance, PTL

\* Once draw_screen waits for the lock that it holds and no thread will clear the lock
\* word by mistake, it waits for ever and the program cannot quit, whatever
\* the other threads and main go on to do, for any number of threads.
THEOREM NeverThaws == OneSpec => FrozenForever
<1> DEFINE Kept == Strings!Frozen => /\ Strings!Frozen' /\ UNCHANGED propbox
                                     /\ main' # "exited"
<1>1. OneInv /\ [OneNext]_all => [Kept]_(Strings!vars)
  <2>1. SUFFICES ASSUME OneInv, [OneNext]_all, Strings!Frozen, ~UNCHANGED Strings!vars
                 PROVE  Strings!Frozen' /\ UNCHANGED propbox /\ main' # "exited"
    OBVIOUS
  <2>2. Strings!Next
    BY <2>1 DEF OneNext, all, strings, Strings!vars, Strings!mainVars, Strings!animateVars, Strings!drawVars
  <2>3. /\ dpc = "lock" /\ mx = 1 /\ main # "exited"
        /\ \A i \in Msgs : apc[i] \notin {"check", "place", "string", "signal", "unlock"}
    BY <2>1, <2>2 DEF Strings!Frozen, Strings!Believers, Strings!Next, Strings!Running, Msgs
  <2>4. SUFFICES ASSUME TRUE
                 PROVE  /\ dpc' = dpc /\ mx' = mx /\ UNCHANGED propbox /\ main' # "exited"
                        /\ \A i \in Msgs : apc'[i] \in {apc[i], "relock", "edge", "right", "left", "lock"}
    BY <2>3 DEF Strings!Frozen, Strings!Believers, Msgs
  <2>5. CASE Strings!Main
    BY <2>3, <2>5 DEF Strings!Main, Strings!Key, Strings!Load, Strings!Store, Strings!Quit, Strings!Exit,
                      Strings!Acquire, Strings!animateVars, Strings!drawVars
  <2>6. ~Strings!draw_screen
    BY <2>3 DEF Strings!draw_screen, Strings!DrawWait, Strings!DrawWake, Strings!DrawMove, Strings!DrawString,
                Strings!DrawLock, Strings!DrawClear, Strings!DrawUnlock, Strings!DrawSignal, Strings!DrawGoto,
                Strings!Acquire
  <2>7. ASSUME NEW i \in Msgs, Strings!animate(i)
        PROVE  /\ dpc' = dpc /\ mx' = mx /\ UNCHANGED propbox /\ main' # "exited"
               /\ \A j \in Msgs : apc'[j] \in {apc[j], "edge", "right", "left", "lock"}
    <3>1. Strings!Move(i) \/ Strings!Edge(i) \/ Strings!Turn(i)
      BY <2>3, <2>7 DEF Strings!animate, Strings!Lock, Strings!Check, Strings!Wake, Strings!Place,
                        Strings!String, Strings!SignalScreen, Strings!Unlock, Strings!Acquire
    <3>2. QED
      BY <2>1, <2>3, <3>1 DEF Strings!Move, Strings!Edge, Strings!Turn, Strings!Goto, Strings!mainVars,
                              Strings!drawVars, OneInv, StringsInv, StringTypeOK
  <2>8. CASE Strings!Wakeup
    BY <2>1, <2>3, <2>8 DEF Strings!Wakeup, Strings!Spurious, Strings!mainVars, OneInv, StringsInv, StringTypeOK
  <2>9. QED
    BY <2>2, <2>5, <2>6, <2>7, <2>8 DEF Strings!Next, Msgs
<1>2. QED
  BY <1>1, Invariance, PTL DEF OneSpec, FrozenForever, Strings!FrozenForever
==============================================================================
