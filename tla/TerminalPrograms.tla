-------------------------- MODULE TerminalPrograms ---------------------------
(***************************************************************************)
(* The programs at a terminal: play_again, which changes its mode, more,   *)
(* and the signal demonstrations, of which one is started; the others are  *)
(* as if they had ended.                                                   *)
(***************************************************************************)
EXTENDS PlayAgain

CONSTANTS PAGELEN, StdinTexts, FileLists,        \* of more
          MaxPresses                             \* of the demonstrations

ASSUME PAGELENAssumption == PAGELEN \in Nat \ {0} /\ MaxPresses \in Nat

\* The lines of a text, each without its newline.
Lines == Seq({" ", "q", "other"})

ASSUME TextsAssumption == StdinTexts \subseteq Seq(Lines) /\ FileLists \subseteq Seq(Seq(Lines))

VARIABLES do_more, piped, files, fp, text_line, num_of_lines, typed, answers, whole, shown, broken

more == <<do_more, piped, files, fp, text_line, num_of_lines, typed, answers, whole, shown, broken>>

VARIABLES program, main, text, action, stack, pending, ran, presses

demo == <<program, main, text, action, stack, pending, ran, presses>>

Pages == INSTANCE More WITH pc <- do_more, line <- text_line, keys <- answers
Demo == INSTANCE SigDemo WITH pc <- main, input <- text

PlayAgainEnded == /\ pc = "exited"
                  /\ tty = [canon |-> TRUE, echo |-> TRUE, nodelay |-> FALSE]
                  /\ before = tty /\ original = tty /\ caught = Signals
                  /\ maxtries = 0 /\ c = NULL /\ response = 2
                  /\ line = <<>> /\ input = <<>> /\ keys = 0

MoreEnded == /\ do_more = "exited"
             /\ piped = FALSE /\ files = <<>> /\ fp = <<>> /\ text_line = <<>> /\ num_of_lines = 0
             /\ typed = <<>> /\ answers = MaxKeys
             /\ whole = <<>> /\ shown = <<>> /\ broken = FALSE

DemoEnded == /\ program = "sigdemo1" /\ main = "returned" /\ text = "unset"
             /\ action = [s \in Demo!Sigs |-> "default"]
             /\ stack = <<>> /\ pending = {} /\ presses = MaxPresses
             /\ ran = [s \in Demo!Sigs |-> 0]

OneInit == \/ Init /\ MoreEnded /\ DemoEnded
           \/ PlayAgainEnded /\ Pages!Init /\ DemoEnded
           \/ PlayAgainEnded /\ MoreEnded /\ Demo!Init

OneNext == \/ Next /\ UNCHANGED <<more, demo>>
           \/ Pages!Next /\ UNCHANGED <<vars, demo>>
           \/ Demo!Next /\ UNCHANGED <<vars, more>>

\* play_again runs, and signals are handled; nobody has to hit a key.
OneSpec == OneInit /\ [][OneNext]_<<vars, more, demo>> /\ WF_vars(Main) /\ Demo!Fairness
-----------------------------------------------------------------------------
(* The instance: texts of up to four lines, of a letter in a file and of every *)
(* kind on the standard input.                                               *)

MCStdinTexts == UNION {[1..n -> {<<>>, <<" ">>, <<"q">>, <<"other">>}] : n \in 0..4}
MCFileLists == LET Texts == UNION {[1..n -> {<<"other">>}] : n \in 0..4}
               IN  UNION {[1..n -> Texts] : n \in 1..2}
-----------------------------------------------------------------------------
\* Every line of the files given to more is shown, in order, unless q or a
\* failure cuts one short.
AllShown == Pages!AllShown

\* sigactdemo survives one Ctrl-C, and the next ends it.
OneReprieve == Demo!OneReprieve
==============================================================================
