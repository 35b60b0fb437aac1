------------------------------ MODULE PlayAgain ------------------------------
(***************************************************************************)
(* play_again.c of ch4: ask a question, take y or n from a terminal whose  *)
(* driver neither echoes nor waits, give up after some attempts, and leave *)
(* the terminal as it was, also when Ctrl-C ends the program once it has   *)
(* been caught.                                                            *)
(*                                                                         *)
(* The terminal is what outlives the program: tty holds the bits of it     *)
(* that the program touches, line the keys its driver keeps until a        *)
(* newline, input those it has handed over.  A signal arrives between any  *)
(* two steps.                                                              *)
(***************************************************************************)
EXTENDS Integers, Sequences

CONSTANTS TRIES,
          MaxKeys,       \* bound on the keys hit
          NULL           \* no tty mode stored, no input yet

ASSUME ConstantsAssumption == TRIES \in Nat /\ MaxKeys \in Nat

Modes == [canon : BOOLEAN, echo : BOOLEAN, nodelay : BOOLEAN]
Keys == {"y", "n", "other", "newline"}
Signals == {"INT", "QUIT"}

ASSUME NULLAssumption == NULL \notin Modes /\ NULL \notin Keys

VARIABLES pc,            \* where main, or what it calls, is
          tty,           \* the mode of the terminal
          before,        \* its mode when the program was started
          original,      \* original_mode and original_flags of tty_mode
          caught,        \* the signals that no longer kill the program
          maxtries, c, response,
          line, input,
          keys           \* the keys hit so far

terminal == <<line, input, keys>>
question == <<maxtries, c, response>>
vars == <<pc, tty, before, original, caught, question, terminal>>

Init == /\ pc = "tty_mode(0)"
        /\ tty \in Modes /\ before = tty
        /\ original = NULL
        /\ caught = {}
        /\ maxtries = TRIES /\ c = NULL /\ response = 1
        /\ line = <<>> /\ input = <<>> /\ keys = 0

Running == pc \notin {"exited", "interrupted", "killed"}
Goto(from, to) == pc = from /\ pc' = to
-----------------------------------------------------------------------------
(* main, and the settings it makes *)

Save == /\ Goto("tty_mode(0)", "set_cr_noecho_mode")
        /\ original' = tty
        /\ UNCHANGED <<tty, before, caught, question, terminal>>

\* ICANON is cleared in c_cflag, where it is another bit: the driver goes on as
\* it was and hands over whole lines.
set_cr_noecho_mode == /\ Goto("set_cr_noecho_mode", "set_nodelay_mode")
                      /\ tty' = [tty EXCEPT !.echo = FALSE]
                      /\ UNCHANGED <<before, original, caught, question, terminal>>

set_nodelay_mode == /\ Goto("set_nodelay_mode", "signal INT")
                    /\ tty' = [tty EXCEPT !.nodelay = TRUE]
                    /\ UNCHANGED <<before, original, caught, question, terminal>>

Signal == /\ \/ Goto("signal INT", "signal QUIT") /\ caught' = caught \cup {"INT"}
             \/ Goto("signal QUIT", "sleep") /\ caught' = caught \cup {"QUIT"}
          /\ UNCHANGED <<tty, before, original, question, terminal>>

\* tty_mode(1) sets the mode and the flags one after the other.
Restore == /\ \/ /\ Goto("tcsetattr", "F_SETFL")
                 /\ tty' = [original EXCEPT !.nodelay = tty.nodelay]
              \/ /\ Goto("F_SETFL", "exited")
                 /\ tty' = [tty EXCEPT !.nodelay = original.nodelay]
           /\ UNCHANGED <<before, original, caught, question, terminal>>
-----------------------------------------------------------------------------
(* get_response *)

Sleep == /\ Goto("sleep", "getchar")
         /\ UNCHANGED <<tty, before, original, caught, question, terminal>>

\* Slip, for Heard: one getchar for each attempt.
GetOne == /\ pc = "getchar"
          /\ \/ /\ input # <<>>
                /\ c' = Head(input) /\ input' = Tail(input)
             \/ /\ input = <<>> /\ tty.nodelay
                /\ c' = NULL /\ UNCHANGED input
          /\ pc' = "input"
          /\ UNCHANGED <<tty, before, original, caught, maxtries, response, line, keys>>

\* get_ok_char: keys up to the first y or n, or EOF where the driver has no more.
get_ok_char == /\ pc = "getchar"
               /\ \/ /\ input # <<>>
                     /\ c' = Head(input) /\ input' = Tail(input)
                     /\ pc' = IF c' \in {"y", "n"} THEN "input" ELSE "getchar"
                  \/ /\ input = <<>> /\ tty.nodelay
                     /\ c' = NULL /\ pc' = "input"
                     /\ UNCHANGED input
               /\ UNCHANGED <<tty, before, original, caught, maxtries, response, line, keys>>

Respond == /\ pc = "input"
           /\ \/ /\ c \in {"y", "n"}
                 /\ response' = IF c = "y" THEN 0 ELSE 1
                 /\ pc' = "tcsetattr"
                 /\ UNCHANGED maxtries
              \/ /\ c \notin {"y", "n"}
                 /\ maxtries' = maxtries - 1
                 /\ IF maxtries = 0 THEN response' = 2 /\ pc' = "tcsetattr"
                                    ELSE pc' = "sleep" /\ UNCHANGED response
           /\ UNCHANGED <<tty, before, original, caught, c, terminal>>

Main == \/ Save \/ set_cr_noecho_mode \/ set_nodelay_mode \/ Signal \/ Restore
        \/ Sleep \/ get_ok_char \/ Respond
-----------------------------------------------------------------------------
(* The keyboard *)

\* A driver in canonical mode hands over a line when it is complete.
Type(k) == /\ keys < MaxKeys /\ Running
           /\ keys' = keys + 1
           /\ IF ~tty.canon THEN input' = Append(input, k) /\ UNCHANGED line
              ELSE IF k = "newline" THEN input' = input \o Append(line, k) /\ line' = <<>>
              ELSE line' = Append(line, k) /\ UNCHANGED input
           /\ UNCHANGED <<pc, tty, before, original, caught, question>>

\* Slip, for Restored: exit alone.
HandlerExits == tty' = tty

\* tty_mode(1), which does nothing where nothing is stored.
ctrl_c_handle == tty' = IF original = NULL THEN tty ELSE original

\* Ctrl-C and Ctrl-\ : INT is handled or kills, QUIT is ignored or kills.
Kill(signal) == /\ Running
                /\ \/ /\ signal \notin caught
                      /\ pc' = "killed"
                      /\ UNCHANGED tty
                   \/ /\ signal = "INT" /\ signal \in caught
                      /\ ctrl_c_handle
                      /\ pc' = "interrupted"
                /\ UNCHANGED <<before, original, caught, question, terminal>>

Next == \/ Main
        \/ \E k \in Keys : Type(k)
        \/ \E signal \in Signals : Kill(signal)

\* Main runs; nobody has to hit a key.
Spec == Init /\ [][Next]_vars
FairSpec == Spec /\ WF_vars(Main)
-----------------------------------------------------------------------------
\* However the program exits, by an answer, for want of one or by Ctrl-C from the
\* moment it is caught, also between the two calls that put the terminal back, the
\* terminal is in the mode it was found in.  Only a signal before both are set, which
\* kills, leaves what the program has changed so far: echo first, then the flag.
Changed == {before, [before EXCEPT !.echo = FALSE], [before EXCEPT !.echo = FALSE, !.nodelay = TRUE]}

Restored == /\ pc \in {"exited", "interrupted"} => tty = before
            /\ pc = "killed" => "QUIT" \notin caught /\ tty \in Changed

FirstAnswer == SelectSeq(input, LAMBDA k : k \in {"y", "n"})

\* The first y or n that the driver has handed over before an attempt is the
\* answer, whatever keys come before and after it.
Heard == \A r \in {0, 1} :
  (pc = "sleep" /\ FirstAnswer # <<>> /\ Head(FirstAnswer) = <<"y", "n">>[r + 1])
    ~> (pc \in {"interrupted", "killed"} \/ (pc = "tcsetattr" /\ response = r))
=============================================================================
