--------------------------- MODULE TerminalProofs ----------------------------
(***************************************************************************)
(* Proofs about play_again.c for any number of attempts, any keys and any  *)
(* mode of the terminal: the terminal is put back.  Restored rests on what *)
(* original holds: from the first call of tty_mode(0) on it is the mode    *)
(* that the terminal was found in, and only then is Ctrl-C caught; until   *)
(* Ctrl-\ is too, what has been changed follows from the step.             *)
(*                                                                         *)
(* And about more02.c for any files, keys and length of the pages: what is *)
(* on the screen, the line that waits for an answer and the rest of the    *)
(* file are at each step the whole text.                                   *)
(***************************************************************************)
EXTENDS TerminalPrograms, SequenceTheorems, TLAPS

TypeOK == /\ pc \in {"tty_mode(0)", "set_cr_noecho_mode", "set_nodelay_mode", "signal INT",
                     "signal QUIT", "sleep", "getchar", "input", "tcsetattr", "F_SETFL",
                     "exited", "interrupted", "killed"}
          /\ tty \in Modes /\ before \in Modes /\ original \in Modes \cup {NULL}
          /\ caught \subseteq Signals
          /\ maxtries \in Int /\ c \in Keys \cup {NULL} /\ response \in 0..2
          /\ line \in Seq(Keys) /\ input \in Seq(Keys) /\ keys \in Nat

\* Nothing is changed before the mode is stored, and it is stored once.
StoredInv == /\ pc = "tty_mode(0)" => tty = before /\ original = NULL /\ caught = {}
             /\ pc \notin {"tty_mode(0)", "killed"} => original = before

\* Between the two calls of tty_mode(1) only the flag may be another.
HalfInv == pc = "F_SETFL" => tty = [before EXCEPT !.nodelay = tty.nodelay]

\* What the settings have changed, and which signals they catch, at each step.
SetInv == /\ pc \in {"tty_mode(0)", "set_cr_noecho_mode"} => tty = before
          /\ pc = "set_nodelay_mode" => tty = [before EXCEPT !.echo = FALSE]
          /\ pc \in {"signal INT", "signal QUIT"} => tty = [before EXCEPT !.echo = FALSE, !.nodelay = TRUE]
          /\ pc \in {"tty_mode(0)", "set_cr_noecho_mode", "set_nodelay_mode", "signal INT", "signal QUIT"}
               => "QUIT" \notin caught
          /\ pc = "signal QUIT" => "INT" \in caught
          /\ pc \in {"sleep", "getchar", "input", "tcsetattr", "F_SETFL"} => {"INT", "QUIT"} \subseteq caught

IInv == TypeOK /\ StoredInv /\ HalfInv /\ SetInv /\ Restored

\* play_again starts in IInv, and as if it had ended it is there as well.
LEMMA InitInv == OneInit => IInv
<1>1. <<>> \in Seq(Keys)
  BY EmptySeq
<1>2. CASE Init
  BY <1>1, <1>2, ConstantsAssumption DEF Init, IInv, TypeOK, StoredInv, HalfInv, SetInv, Restored, Changed, Signals
<1>3. CASE PlayAgainEnded
  <2>1. tty \in Modes
    BY <1>3 DEF PlayAgainEnded, Modes
  <2>2. QED
    BY <1>1, <1>3, <2>1 DEF PlayAgainEnded, IInv, TypeOK, StoredInv, HalfInv, SetInv, Restored, Changed
<1>4. QED
  BY <1>2, <1>3 DEF OneInit

\* Two modes are the same when their fields are.
LEMMA SameMode ==
  ASSUME NEW m \in Modes, NEW o \in Modes
  PROVE  /\ [m EXCEPT !.nodelay = o.nodelay] \in Modes
         /\ [[m EXCEPT !.nodelay = o.nodelay] EXCEPT !.nodelay = m.nodelay] = m
BY DEF Modes

\* The steps that leave the terminal alone, and the attempts among them.
LEMMA QuestionStep ==
  ASSUME IInv, Save \/ Signal \/ Sleep \/ get_ok_char \/ Respond
  PROVE  IInv'
<1> USE DEF IInv
<1>1. CASE Save
  BY <1>1 DEF Save, Goto, question, terminal, TypeOK, StoredInv, HalfInv, SetInv, Restored, Changed
<1>2. CASE Signal
  BY <1>2 DEF Signal, Goto, Signals, question, terminal, TypeOK, StoredInv, HalfInv, SetInv, Restored, Changed
<1>3. CASE Sleep
  BY <1>3 DEF Sleep, Goto, question, terminal, TypeOK, StoredInv, HalfInv, SetInv, Restored, Changed
<1>4. CASE get_ok_char
  <2>1. input # <<>> => Head(input) \in Keys /\ Tail(input) \in Seq(Keys)
    BY HeadTailProperties DEF TypeOK
  <2>2. c' \in Keys \cup {NULL} /\ input' \in Seq(Keys) /\ pc' \in {"getchar", "input"}
    BY <1>4, <2>1 DEF get_ok_char, TypeOK
  <2>3. UNCHANGED <<tty, before, original, caught, maxtries, response, line, keys>> /\ pc = "getchar"
    BY <1>4 DEF get_ok_char
  <2>4. QED
    BY <2>2, <2>3 DEF TypeOK, StoredInv, HalfInv, SetInv, Restored, Changed
<1>5. CASE Respond
  <2>1. maxtries' \in Int /\ response' \in 0..2 /\ pc' \in {"tcsetattr", "sleep"}
    BY <1>5 DEF Respond, TypeOK
  <2>2. UNCHANGED <<tty, before, original, caught, c, line, input, keys>> /\ pc = "input"
    BY <1>5 DEF Respond, terminal
  <2>3. QED
    BY <2>1, <2>2 DEF TypeOK, StoredInv, HalfInv, SetInv, Restored, Changed
<1>6. QED
  BY <1>1, <1>2, <1>3, <1>4, <1>5

\* The steps that change it.
LEMMA ModeStep ==
  ASSUME IInv, set_cr_noecho_mode \/ set_nodelay_mode \/ Restore
  PROVE  IInv'
<1> USE DEF IInv
<1>1. UNCHANGED <<before, original, caught, maxtries, c, response, line, input, keys>>
  BY DEF set_cr_noecho_mode, set_nodelay_mode, Restore, question, terminal
<1>2. CASE set_cr_noecho_mode \/ set_nodelay_mode
  <2>1. /\ pc \in {"set_cr_noecho_mode", "set_nodelay_mode"}
        /\ pc' \in {"set_nodelay_mode", "signal INT"}
    BY <1>2 DEF set_cr_noecho_mode, set_nodelay_mode, Goto
  <2>2. tty' \in Modes
    BY <1>2 DEF set_cr_noecho_mode, set_nodelay_mode, TypeOK, Modes
  <2>3. SetInv'
    <3>1. before \in Modes /\ before' = before /\ caught' = caught
      BY <1>1 DEF TypeOK
    <3>2. CASE set_cr_noecho_mode
      <4>1. pc = "set_cr_noecho_mode" /\ pc' = "set_nodelay_mode" /\ tty' = [before EXCEPT !.echo = FALSE]
        BY <3>2 DEF set_cr_noecho_mode, Goto, SetInv
      <4>2. QED
        BY <3>1, <4>1 DEF SetInv
    <3>3. CASE set_nodelay_mode
      <4>1. /\ pc = "set_nodelay_mode" /\ pc' = "signal INT"
            /\ tty' = [before EXCEPT !.echo = FALSE, !.nodelay = TRUE]
        BY <3>1, <3>3 DEF set_nodelay_mode, Goto, SetInv, Modes
      <4>2. QED
        BY <3>1, <4>1 DEF SetInv
    <3>4. QED
      BY <1>2, <3>2, <3>3
  <2>4. QED
    BY <1>1, <2>1, <2>2, <2>3 DEF TypeOK, StoredInv, HalfInv, Restored
<1>3. CASE Restore
  <2>1. original = before /\ before \in Modes /\ tty \in Modes
    BY <1>3 DEF Restore, Goto, TypeOK, StoredInv
  <2>2. CASE Goto("tcsetattr", "F_SETFL") /\ tty' = [original EXCEPT !.nodelay = tty.nodelay]
    <3>1. tty' = [before EXCEPT !.nodelay = tty.nodelay] /\ tty' \in Modes
      BY <2>1, <2>2, SameMode
    <3>2. tty'.nodelay = tty.nodelay
      BY <2>1, <3>1 DEF Modes
    <3>3. QED
      BY <1>1, <2>1, <2>2, <3>1, <3>2 DEF Goto, TypeOK, StoredInv, HalfInv, SetInv, Restored, Changed
  <2>3. CASE Goto("F_SETFL", "exited") /\ tty' = [tty EXCEPT !.nodelay = original.nodelay]
    <3>1. tty = [before EXCEPT !.nodelay = tty.nodelay]
      BY <2>3 DEF Goto, HalfInv
    <3>2. tty' = before
      BY <2>1, <2>3, <3>1, SameMode
    <3>3. QED
      BY <1>1, <2>1, <2>3, <3>2 DEF Goto, TypeOK, StoredInv, HalfInv, SetInv, Restored, Changed
  <2>4. QED
    BY <1>3, <2>2, <2>3 DEF Restore
<1>4. QED
  BY <1>2, <1>3

\* A key goes to the driver.
LEMMA TypeStep == ASSUME IInv, NEW k \in Keys, Type(k) PROVE IInv'
<1>1. UNCHANGED <<pc, tty, before, original, caught, maxtries, c, response>>
  BY DEF Type, question
<1>2. line' \in Seq(Keys) /\ input' \in Seq(Keys) /\ keys' \in Nat
  <2>1. line \in Seq(Keys) /\ input \in Seq(Keys) /\ keys \in Nat
    BY DEF IInv, TypeOK
  <2>2. Append(line, k) \in Seq(Keys) /\ Append(input, k) \in Seq(Keys)
    BY <2>1
  <2>3. input \o Append(line, k) \in Seq(Keys) /\ <<>> \in Seq(Keys)
    BY <2>1, <2>2, EmptySeq, ConcatProperties
  <2>4. QED
    <3>1. CASE ~tty.canon
      BY <2>1, <2>2, <3>1 DEF Type
    <3>2. CASE tty.canon /\ k = "newline"
      <4>1. line' = <<>> /\ input' = input \o Append(line, k) /\ keys' = keys + 1
        BY <3>2, Zenon DEF Type
      <4>2. line' \in Seq(Keys) /\ input' \in Seq(Keys)
        BY <2>3, <4>1, Zenon
      <4>3. QED
        BY <2>1, <4>1, <4>2
    <3>3. CASE tty.canon /\ k # "newline"
      BY <2>1, <2>2, <3>3 DEF Type
    <3>4. QED
      BY <3>1, <3>2, <3>3
<1>3. QED
  BY <1>1, <1>2 DEF IInv, TypeOK, StoredInv, HalfInv, SetInv, Restored, Changed

\* A signal ends the program, and the handler has the mode to put back.
LEMMA KillStep == ASSUME IInv, NEW signal \in Signals, Kill(signal) PROVE IInv'
<1> USE DEF IInv
<1>1. UNCHANGED <<before, original, caught, maxtries, c, response, line, input, keys>>
  BY DEF Kill, question, terminal
<1>2. CASE pc' = "killed" /\ tty' = tty
  <2>1. "QUIT" \notin caught /\ tty \in Changed
    BY <1>2 DEF Kill, Running, Signals, TypeOK, StoredInv, SetInv, Changed
  <2>2. QED
    BY <1>1, <1>2, <2>1 DEF TypeOK, StoredInv, HalfInv, SetInv, Restored, Changed
<1>3. CASE signal \in caught /\ pc' = "interrupted" /\ ctrl_c_handle
  <2>1. pc \notin {"tty_mode(0)", "killed"}
    BY <1>3 DEF Kill, Running, StoredInv
  <2>2. original = before /\ original # NULL
    BY <2>1, NULLAssumption DEF TypeOK, StoredInv
  <2>3. tty' = before
    BY <1>3, <2>2 DEF ctrl_c_handle
  <2>4. QED
    BY <1>1, <1>3, <2>2, <2>3 DEF TypeOK, StoredInv, HalfInv, SetInv, Restored, Changed
<1>4. QED
  BY <1>2, <1>3 DEF Kill

\* The inductive invariant, with a signal at any step.
THEOREM Invariance == OneSpec => []IInv
<1>1. IInv /\ [OneNext]_<<vars, more, demo>> => IInv'
  <2>1. SUFFICES ASSUME IInv, [OneNext]_<<vars, more, demo>> PROVE IInv'
    OBVIOUS
  <2>2. CASE UNCHANGED vars
    BY <2>1, <2>2 DEF vars, question, terminal, IInv, TypeOK, StoredInv, HalfInv, SetInv, Restored, Changed
  <2>3. CASE Next
    BY <2>1, <2>3, QuestionStep, ModeStep, TypeStep, KillStep DEF Next, Main
  <2>4. QED
    BY <2>1, <2>2, <2>3 DEF OneNext
<1>2. QED
  BY <1>1, InitInv, PTL DEF OneSpec

\* However the program exits, the terminal is in the mode it was found in; a signal
\* that kills it comes before Ctrl-\ is ignored, and leaves what was changed so far.
THEOREM TerminalRestored == OneSpec => []Restored
BY Invariance, PTL DEF IInv
-----------------------------------------------------------------------------
(***************************************************************************)
(* more, as long as nothing has cut a text short and the keyboard is not   *)
(* the text: n of the texts have been opened, all but the last of them     *)
(* have been shown, and of that one the part on the screen, the line that  *)
(* has been read and the rest of the file make up the whole.               *)
(***************************************************************************)
Texts == Seq(Lines)

PagesTypeOK == /\ whole \in Seq(Texts) /\ files \in Seq(Texts) /\ shown \in Seq(Texts)
               /\ fp \in Texts /\ text_line \in Lines
               /\ do_more \in {"fopen", "fgets", "see_more", "fputs", "exited"}

\* The texts that have not been opened are the last ones.
FilesInv == LET n == Len(shown)
            IN  /\ Len(whole) = n + Len(files)
                /\ \A k \in 1..Len(files) : files[k] = whole[n + k]
                /\ do_more = "exited" => files = <<>>

\* Where the lines of those are that have been opened.
ShownInv == LET n == Len(shown)
            IN  /\ \A k \in 1..n : k < n \/ do_more \in {"fopen", "exited"} => shown[k] = whole[k]
                /\ do_more = "fgets" => n > 0 /\ shown[n] \o fp = whole[n]
                /\ do_more \in {"see_more", "fputs"} =>
                     n > 0 /\ (shown[n] \o <<text_line>>) \o fp = whole[n]

PagesInv == ~piped /\ ~broken => PagesTypeOK /\ FilesInv /\ ShownInv

\* more starts with all of its texts before it, and as if ended with none.
LEMMA PagesInit == OneInit => PagesInv
<1>1. <<>> \in Seq(Texts) /\ <<>> \in Texts /\ <<>> \in Lines
  BY EmptySeq DEF Texts, Lines
<1>2. CASE MoreEnded
  BY <1>1, <1>2 DEF MoreEnded, PagesInv, PagesTypeOK, FilesInv, ShownInv
<1>3. CASE Pages!Init
  <2>1. ~piped => files \in Seq(Texts)
    BY <1>3, TextsAssumption DEF Pages!Init, Texts
  <2>2. /\ whole = files /\ shown = <<>> /\ fp = <<>> /\ text_line = <<>> /\ do_more = "fopen"
    BY <1>3 DEF Pages!Init
  <2>3. QED
    BY <1>1, <2>1, <2>2 DEF PagesInv, PagesTypeOK, FilesInv, ShownInv
<1>4. QED
  BY <1>2, <1>3 DEF OneInit

\* What putting a text together from its parts amounts to.
LEMMA TextParts ==
  ASSUME NEW s \in Texts, NEW t \in Texts, NEW l \in Lines
  PROVE  /\ s \o <<>> = s /\ <<>> \o t = t /\ <<>> \in Texts
         /\ Append(s, l) \in Texts /\ Append(s, l) = s \o <<l>>
         /\ t # <<>> => /\ Head(t) \in Lines /\ Tail(t) \in Texts
                        /\ (s \o <<Head(t)>>) \o Tail(t) = s \o t
<1> USE DEF Texts
<1>1. <<>> \in Texts /\ s \o <<>> = s /\ <<>> \o t = t
  BY EmptySeq, ConcatEmptySeq
<1>2. <<l>> \in Texts /\ Append(s, l) = s \o <<l>> /\ Append(s, l) \in Texts
  BY AppendIsConcat, AppendProperties
<1>3. ASSUME t # <<>>
      PROVE  /\ Head(t) \in Lines /\ Tail(t) \in Texts
             /\ (s \o <<Head(t)>>) \o Tail(t) = s \o t
  <2>1. Head(t) \in Lines /\ Tail(t) \in Texts /\ <<Head(t)>> \in Texts /\ <<Head(t)>> \o Tail(t) = t
    BY <1>3
  <2>2. QED
    BY <2>1, ConcatAssociative
<1>4. QED
  BY <1>1, <1>2, <1>3

\* A text is opened, or the last one has been shown.
LEMMA FopenStep == ASSUME PagesInv, Pages!Fopen PROVE PagesInv'
<1> SUFFICES ASSUME ~piped', ~broken' PROVE (PagesTypeOK /\ FilesInv /\ ShownInv)'
  BY DEF PagesInv
<1>1. /\ do_more = "fopen" /\ ~piped /\ ~broken
      /\ UNCHANGED <<text_line, whole>>
  BY DEF Pages!Fopen
<1>2. PagesTypeOK /\ FilesInv /\ ShownInv
  BY <1>1 DEF PagesInv
<1>3. CASE files # <<>> /\ fp' = Head(files) /\ files' = Tail(files)
           /\ shown' = Append(shown, <<>>) /\ do_more' = "fgets"
  <2>1. files \in Seq(Texts) /\ shown \in Seq(Texts) /\ whole \in Seq(Texts)
    BY <1>2 DEF PagesTypeOK
  <2>2. <<>> \in Texts
    BY EmptySeq DEF Texts
  <2>3. /\ shown' \in Seq(Texts) /\ Len(shown') = Len(shown) + 1 /\ shown'[Len(shown')] = <<>>
        /\ \A k \in 1..Len(shown) : shown'[k] = shown[k]
    BY <1>3, <2>1, <2>2
  <2>4. /\ files' \in Seq(Texts) /\ Len(files') = Len(files) - 1 /\ fp' = files[1] /\ fp' \in Texts
        /\ Len(files) \in Nat /\ Len(files) > 0
        /\ \A k \in 1..Len(files') : files'[k] = files[k + 1]
    BY <1>3, <2>1
  <2>5. PagesTypeOK'
    BY <1>1, <1>2, <1>3, <2>3, <2>4 DEF PagesTypeOK
  <2>6. FilesInv'
    BY <1>1, <1>2, <1>3, <2>1, <2>3, <2>4 DEF FilesInv
  <2>7. fp' = whole[Len(shown')]
    BY <1>2, <2>1, <2>3, <2>4 DEF FilesInv
  <2>8. shown'[Len(shown')] \o fp' = whole'[Len(shown')]
    BY <1>1, <2>3, <2>4, <2>7 DEF Texts
  <2>9. \A k \in 1..Len(shown') : k < Len(shown') => shown'[k] = whole'[k]
    <3>1. \A k \in 1..Len(shown) : shown[k] = whole[k]
      BY <1>1, <1>2 DEF ShownInv
    <3>2. Len(shown) \in Nat
      BY <2>1
    <3>3. QED
      BY <1>1, <2>3, <3>1, <3>2
  <2>10. ShownInv'
    <3>1. Len(shown') > 0
      BY <2>1, <2>3
    <3>2. QED
      BY <1>3, <2>8, <2>9, <3>1 DEF ShownInv
  <2>11. QED
    BY <2>5, <2>6, <2>10
<1>4. CASE files = <<>> /\ do_more' = "exited" /\ UNCHANGED <<fp, files, shown>>
  BY <1>1, <1>2, <1>4 DEF PagesTypeOK, FilesInv, ShownInv
<1>5. QED
  BY <1>3, <1>4 DEF Pages!Fopen

\* A line is read, or the text has come to its end.
LEMMA FgetsStep == ASSUME PagesInv, Pages!Fgets PROVE PagesInv'
<1> SUFFICES ASSUME ~piped', ~broken' PROVE (PagesTypeOK /\ FilesInv /\ ShownInv)'
  BY DEF PagesInv
<1> DEFINE n == Len(shown)
<1>1. /\ do_more = "fgets" /\ ~piped /\ ~broken
      /\ UNCHANGED <<whole, files, shown>>
  BY DEF Pages!Fgets, Pages!screen
<1>2. PagesTypeOK /\ FilesInv /\ ShownInv
  BY <1>1 DEF PagesInv
<1>3. /\ n > 0 /\ n \in Nat /\ shown[n] \in Texts /\ shown[n] \o fp = whole[n]
      /\ fp \in Texts /\ text_line \in Lines
  BY <1>1, <1>2 DEF PagesTypeOK, ShownInv
<1>4. CASE fp = <<>>
  <2>1. shown[n] = whole[n]
    BY <1>3, <1>4, TextParts
  <2>2. do_more' = "fopen" /\ UNCHANGED <<fp, text_line>>
    BY <1>4 DEF Pages!Fgets
  <2>3. QED
    BY <1>1, <1>2, <1>3, <2>1, <2>2 DEF PagesTypeOK, FilesInv, ShownInv
<1>5. CASE fp # <<>>
  <2>1. /\ text_line' = Head(fp) /\ fp' = Tail(fp) /\ do_more' \in {"see_more", "fputs"}
    BY <1>5 DEF Pages!Fgets
  <2>2. text_line' \in Lines /\ fp' \in Texts /\ (shown[n] \o <<text_line'>>) \o fp' = whole[n]
    BY <1>3, <1>5, <2>1, TextParts
  <2>3. QED
    BY <1>1, <1>2, <1>3, <2>1, <2>2 DEF PagesTypeOK, FilesInv, ShownInv
<1>6. QED
  BY <1>4, <1>5

\* An answer leaves the line that waits, or it is q.
LEMMA AnswerStep == ASSUME PagesInv, Pages!see_more PROVE PagesInv'
<1> SUFFICES ASSUME ~piped', ~broken' PROVE (PagesTypeOK /\ FilesInv /\ ShownInv)'
  BY DEF PagesInv
<1>1. /\ do_more = "see_more" /\ ~piped
      /\ UNCHANGED <<files, text_line, whole, shown, fp>>
  BY DEF Pages!see_more, Pages!ReplyFromText, Pages!ReplyFromKeyboard, Pages!EndOfReplies
<1>2. \E c_1 : Pages!Reply(c_1)
  BY DEF Pages!see_more, Pages!ReplyFromText, Pages!ReplyFromKeyboard, Pages!EndOfReplies
<1>3. ~broken /\ do_more' \in {"see_more", "fputs"}
  <2>1. PICK c_1 : Pages!Reply(c_1)
    BY <1>2
  <2>2. CASE c_1 \in {" ", "newline"}
    BY <2>1, <2>2 DEF Pages!Reply
  <2>3. CASE c_1 \notin {" ", "newline"}
    <3>1. ~broken /\ c_1 # "q"
      BY <2>1, <2>3, Zenon DEF Pages!Reply
    <3>2. QED
      BY <2>1, <2>3, <3>1 DEF Pages!Reply
  <2>4. QED
    BY <2>2, <2>3
<1>4. QED
  BY <1>1, <1>3 DEF PagesInv, PagesTypeOK, FilesInv, ShownInv

\* The line is shown behind those of its text.
LEMMA FputsStep == ASSUME PagesInv, Pages!Fputs PROVE PagesInv'
<1> SUFFICES ASSUME ~piped', ~broken' PROVE (PagesTypeOK /\ FilesInv /\ ShownInv)'
  BY DEF PagesInv
<1> DEFINE n == Len(shown)
<1>1. /\ do_more = "fputs" /\ do_more' = "fgets" /\ ~piped /\ ~broken
      /\ shown' = [shown EXCEPT ![n] = Append(shown[n], text_line)]
      /\ UNCHANGED <<files, fp, text_line, whole>>
  BY DEF Pages!Fputs
<1>2. PagesTypeOK /\ FilesInv /\ ShownInv
  BY <1>1 DEF PagesInv
<1>3. /\ n > 0 /\ n \in Nat /\ shown \in Seq(Texts) /\ shown[n] \in Texts
      /\ (shown[n] \o <<text_line>>) \o fp = whole[n]
      /\ fp \in Texts /\ text_line \in Lines
  BY <1>1, <1>2 DEF PagesTypeOK, ShownInv
<1>4. Append(shown[n], text_line) \in Texts /\ Append(shown[n], text_line) = shown[n] \o <<text_line>>
  BY <1>3, TextParts
<1>5. /\ shown' \in Seq(Texts) /\ Len(shown') = n
      /\ shown'[n] = shown[n] \o <<text_line>>
      /\ \A k \in 1..n : k < n => shown'[k] = shown[k]
  BY <1>1, <1>3, <1>4
<1>6. PagesTypeOK' /\ FilesInv'
  BY <1>1, <1>2, <1>5 DEF PagesTypeOK, FilesInv
<1>7. ShownInv'
  BY <1>1, <1>2, <1>3, <1>5 DEF ShownInv
<1>8. QED
  BY <1>6, <1>7

\* Texts are shown whole and in order up to the place where more is.
LEMMA PagesStep == PagesInv /\ [OneNext]_<<vars, more, demo>> => PagesInv'
<1> SUFFICES ASSUME PagesInv, [OneNext]_<<vars, more, demo>> PROVE PagesInv'
  OBVIOUS
<1>1. CASE UNCHANGED more
  BY <1>1 DEF more, PagesInv, PagesTypeOK, FilesInv, ShownInv
<1>2. ASSUME NEW k \in Pages!Keys, Pages!Type(k) PROVE PagesInv'
  BY <1>2 DEF Pages!Type, Pages!screen, PagesInv, PagesTypeOK, FilesInv, ShownInv
<1>3. CASE Pages!Next
  BY <1>2, <1>3, FopenStep, FgetsStep, AnswerStep, FputsStep DEF Pages!Next
<1>4. QED
  BY <1>1, <1>3 DEF OneNext

\* more shows every line of its files, in order, unless q or a failure cuts one
\* short: for any files and keys, and pages of any length.
THEOREM AllTextsShown == OneSpec => []AllShown
<1>1. PagesInv => AllShown
  <2> SUFFICES ASSUME PagesInv, do_more = "exited", ~broken, ~piped PROVE shown = whole
    BY DEF AllShown, Pages!AllShown
  <2>1. shown \in Seq(Texts) /\ whole \in Seq(Texts) /\ Len(shown) = Len(whole)
    BY DEF PagesInv, PagesTypeOK, FilesInv
  <2>2. \A k \in 1..Len(shown) : shown[k] = whole[k]
    BY DEF PagesInv, ShownInv
  <2>3. QED
    BY <2>1, <2>2, SeqEqual
<1>2. QED
  BY <1>1, PagesInit, PagesStep, PTL DEF OneSpec
==============================================================================
