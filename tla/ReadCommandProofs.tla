-------------------------- MODULE ReadCommandProofs --------------------------
(***************************************************************************)
(* For inputs and lines of any length and blocks of any size from 2,       *)
(* next_cmd stays inside its buffer, and loses no character; the arguments *)
(* are the words of the line that was read last; and their array holds two *)
(* blocks of pointers and not one more.                                    *)
(***************************************************************************)
EXTENDS ReadCommand, SequenceTheorems, WellFoundedInduction, TLAPS

\* What is known of the room in the buffer, by where next_cmd is: once it has
\* been looked for, there is room for one character more than will be stored.
Room == /\ pc \in {"getc", "space"} => pos < bufspace \/ (pos = 0 /\ bufspace = 0)
        /\ pc = "store" => pos + 1 < bufspace
        /\ pc = "end" => pos < bufspace \/ (pos = 0 /\ bufspace = 0 /\ c = EOF)

\* What is going to be stored is a character, and not EOF.
CharRead == pc \in {"space", "store"} => c \in Char \cup {Newline}

IInv == TypeOK /\ Room /\ CharRead

LEMMA InitInv == Init => IInv
<1> SUFFICES ASSUME Init PROVE IInv
  OBVIOUS
<1>1. TypeOK
  BY InputsAssumption, BUFSIZAssumption DEF Init, TypeOK
<1>2. Room
  BY DEF Init, Room, pos
<1>3. QED
  BY <1>1, <1>2 DEF IInv, Init, CharRead

\* The types go on holding; only a character that ends no line is stored.
LEMMA StepTypes ==
  ASSUME TypeOK, CharRead, Next
  PROVE  TypeOK'
<1> USE DEF TypeOK
<1>1. CASE getc
  <2>1. CASE input = <<>>
    BY <1>1, <2>1 DEF getc, EOF
  <2>2. CASE input # <<>>
    <3>1. Head(input) \in Char \cup {Newline} /\ Tail(input) \in Seq(Char \cup {Newline})
      BY <2>2
    <3>2. QED
      BY <1>1, <2>2, <3>1 DEF getc
  <2>3. QED
    BY <2>1, <2>2
<1>2. CASE Grow
  BY <1>2, BUFSIZAssumption DEF Grow
<1>3. CASE Store
  <2>1. c \in Char \cup {Newline}
    BY <1>3 DEF Store, CharRead
  <2>2. c # Newline => Append(buf, c) \in Seq(Char)
    BY <2>1
  <2>3. QED
    BY <1>3, <2>2 DEF Store
<1>4. CASE Return
  <2>1. CASE c = EOF /\ pos = 0
    BY <1>4, <2>1 DEF Return
  <2>2. CASE ~(c = EOF /\ pos = 0)
    <3>1. cmdlines \o buf \in Seq(Char \cup {Newline})
      OBVIOUS
    <3>2. Append(cmdlines \o buf, Newline) \in Seq(Char \cup {Newline})
      BY <3>1
    <3>3. /\ cmdlines' = Append(cmdlines \o buf, Newline)
          /\ buf' = <<>> /\ bufspace' = 0 /\ pc' = "getc"
          /\ UNCHANGED <<stdin, input, c>>
      BY <1>4, <2>2 DEF Return
    <3>4. cmdlines' \in Seq(Char \cup {Newline})
      BY <3>2, <3>3
    <3>5. QED
      BY <3>3, <3>4
  <2>3. QED
    BY <2>1, <2>2
<1>5. QED
  BY <1>1, <1>2, <1>3, <1>4 DEF Next

LEMMA StepRoom ==
  ASSUME IInv, Next
  PROVE  Room'
<1> USE DEF IInv, TypeOK, Room, pos
<1>1. CASE getc
  BY <1>1 DEF getc, EOF
<1>2. CASE Grow
  BY <1>2, BUFSIZAssumption DEF Grow, Full
<1>3. CASE Store
  BY <1>3 DEF Store
<1>4. CASE Return
  BY <1>4 DEF Return
<1>5. QED
  BY <1>1, <1>2, <1>3, <1>4 DEF Next

LEMMA StepCharRead ==
  ASSUME IInv, Next
  PROVE  CharRead'
<1> USE DEF IInv, TypeOK, CharRead
<1>1. CASE getc
  <2>1. input # <<>> => Head(input) \in Char \cup {Newline}
    OBVIOUS
  <2>2. QED
    BY <1>1, <2>1 DEF getc
<1>2. CASE Grow
  BY <1>2 DEF Grow
<1>3. CASE Store \/ Return
  BY <1>3 DEF Store, Return
<1>4. QED
  BY <1>1, <1>2, <1>3 DEF Next

LEMMA StepInv == IInv /\ [Next]_vars => IInv'
<1>1. ASSUME IInv, Next PROVE IInv'
  BY <1>1, StepTypes, StepRoom, StepCharRead DEF IInv
<1>2. ASSUME IInv, UNCHANGED vars PROVE IInv'
  BY <1>2 DEF vars, IInv, TypeOK, Room, CharRead, pos
<1>3. QED
  BY <1>1, <1>2

\* Whatever splitline does in between, next_cmd takes its steps or none.
LEMMA OnlyNext == CommandSpec => Spec
<1>1. CommandInit => Init
  BY DEF CommandInit
<1>2. [CommandNext]_all => [Next]_vars
  BY DEF CommandNext, Read, Next, all
<1>3. QED
  BY <1>1, <1>2, PTL DEF CommandSpec, Spec

\* The invariant holds of every behaviour.
THEOREM Invariance == CommandSpec => []IInv
BY OnlyNext, InitInv, StepInv, PTL DEF Spec

\* The variables keep their types: no newline is ever stored.
THEOREM TypeCorrect == CommandSpec => []TypeOK
<1>1. IInv => TypeOK
  BY DEF IInv
<1>2. QED
  BY <1>1, Invariance, PTL

\* Whatever the input, next_cmd writes no character and no end of a string
\* outside the blocks it has asked for.
THEOREM Bounded == CommandSpec => []InBounds
<1>1. IInv => InBounds
  BY DEF IInv, TypeOK, Room, InBounds, pos
<1>2. QED
  BY <1>1, Invariance, PTL

-----------------------------------------------------------------------------
\* Where every character of the input is, before the end of the input.
Everything == cmdlines \o buf \o input = stdin

\* Where it is after a last line without a newline has been returned.
LastReturned == input = <<>> /\ buf = <<>> /\ Unended /\ cmdlines = Append(stdin, Newline)

\* Every line returned has its newline.
LinesEnd == cmdlines # <<>> => cmdlines[Len(cmdlines)] = Newline

Kept == /\ pc = "getc" => Everything \/ LastReturned
        /\ pc \in {"space", "store"} => cmdlines \o Append(buf, c) \o input = stdin
        /\ pc = "end" => \/ c = Newline /\ cmdlines \o Append(buf, c) \o input = stdin
                         \/ c = EOF /\ input = <<>> /\ (Everything \/ LastReturned)
        /\ pc = "exited" => \/ LastReturned
                            \/ input = <<>> /\ buf = <<>> /\ ~Unended /\ cmdlines = stdin

KInv == IInv /\ LinesEnd /\ Kept

Chars == Char \cup {Newline}

\* The first character of what follows, moved to the end of what is read.
LEMMA MoveOne ==
  ASSUME NEW s \in Seq(Chars), NEW t \in Seq(Chars), NEW u \in Seq(Chars), u # <<>>
  PROVE  s \o Append(t, Head(u)) \o Tail(u) = s \o t \o u
<1> DEFINE h == <<Head(u)>>
<1>1. Head(u) \in Chars /\ Tail(u) \in Seq(Chars) /\ h \in Seq(Chars)
  BY HeadTailProperties
<1>2. u = h \o Tail(u)
  <2>1. Len(h \o Tail(u)) = Len(u) /\ h \o Tail(u) \in Seq(Chars)
    BY <1>1, HeadTailProperties, ConcatProperties
  <2>2. ASSUME NEW i \in 1..Len(u)
        PROVE  u[i] = (h \o Tail(u))[i]
    BY <1>1, HeadTailProperties
  <2>3. QED
    BY <2>1, <2>2, SeqEqual
<1>3. Append(t, Head(u)) = t \o h
  BY <1>1, AppendIsConcat
<1>4. s \o t \in Seq(Chars)
  OBVIOUS
<1>5. s \o (t \o h) = (s \o t) \o h
  BY <1>1, ConcatAssociative
<1>6. ((s \o t) \o h) \o Tail(u) = (s \o t) \o (h \o Tail(u))
  BY <1>1, <1>4, ConcatAssociative
<1>7. QED
  BY <1>2, <1>3, <1>5, <1>6

LEMMA InitKept == Init => KInv
<1> SUFFICES ASSUME Init PROVE KInv
  OBVIOUS
<1>1. IInv
  BY InitInv
<1>2. Everything
  <2>1. stdin \in Seq(Chars)
    BY InputsAssumption DEF Init, Chars
  <2>2. <<>> \o <<>> = <<>> /\ <<>> \o stdin = stdin
    BY <2>1, ConcatEmptySeq
  <2>3. QED
    BY <2>2 DEF Init, Everything
<1>3. QED
  BY <1>1, <1>2 DEF KInv, Init, LinesEnd, Kept

LEMMA StepKept ==
  ASSUME KInv, Next
  PROVE  LinesEnd' /\ Kept'
<1>1. /\ stdin \in Seq(Chars) /\ input \in Seq(Chars) /\ buf \in Seq(Char)
      /\ buf \in Seq(Chars) /\ cmdlines \in Seq(Chars)
  BY InputsAssumption DEF KInv, IInv, TypeOK, Chars
<1>2. CASE getc
  <2>1. LinesEnd'
    BY <1>2 DEF KInv, LinesEnd, getc
  <2>2. CASE input = <<>>
    <3>1. /\ pc = "getc" /\ pc' = "end" /\ c' = EOF /\ input' = <<>>
          /\ UNCHANGED <<stdin, input, buf, cmdlines>>
      BY <1>2, <2>2 DEF getc
    <3>2. Everything \/ LastReturned
      BY <3>1 DEF KInv, Kept
    <3>3. Everything' \/ LastReturned'
      BY <3>1, <3>2 DEF Everything, LastReturned, Unended
    <3>4. QED
      BY <2>1, <3>1, <3>3 DEF Kept
  <2>3. CASE input # <<>>
    <3>1. cmdlines \o buf \o input = stdin
      BY <1>2, <2>3 DEF KInv, Kept, getc, Everything, LastReturned
    <3>2. cmdlines \o Append(buf, Head(input)) \o Tail(input) = cmdlines \o buf \o input
      <4>1. \A s, t, u \in Seq(Chars) :
              u # <<>> => s \o Append(t, Head(u)) \o Tail(u) = s \o t \o u
        BY MoveOne
      <4>2. QED
        BY <1>1, <2>3, <4>1, Zenon
    <3>3. QED
      BY <1>2, <2>1, <2>3, <3>1, <3>2 DEF Kept, getc
  <2>4. QED
    BY <2>1, <2>2, <2>3
<1>3. CASE Grow
  BY <1>3 DEF KInv, LinesEnd, Kept, Grow
<1>4. CASE Store
  <2>1. cmdlines \o Append(buf, c) \o input = stdin
    BY <1>4 DEF KInv, Kept, Store
  <2>2. QED
    BY <1>4, <2>1 DEF KInv, LinesEnd, Kept, Store, Everything
<1>5. CASE Return
  <2> USE DEF KInv
  <2>1. CASE c = EOF /\ pos = 0
    <3>1. buf = <<>> /\ input = <<>>
      BY <1>1, <1>5, <2>1, CharAssumption DEF Return, Kept, pos
    <3>2. CASE LastReturned
      BY <1>5, <2>1, <3>2 DEF Return, Kept, LastReturned, Unended, LinesEnd
    <3>3. CASE Everything
      <4>1. cmdlines \o <<>> = cmdlines
        BY <1>1, ConcatEmptySeq
      <4>2. cmdlines = stdin
        BY <3>1, <3>3, <4>1 DEF Everything
      <4>3. ~Unended
        BY <4>2 DEF Unended, LinesEnd
      <4>4. QED
        BY <1>5, <2>1, <3>1, <4>2, <4>3 DEF Return, Kept, LinesEnd, Unended
    <3>4. QED
      BY <1>5, <2>1, <3>2, <3>3, CharAssumption DEF Return, Kept
  <2>2. CASE ~(c = EOF /\ pos = 0)
    <3>1. /\ cmdlines' = Append(cmdlines \o buf, Newline)
          /\ buf' = <<>> /\ pc' = "getc"
          /\ stdin' = stdin /\ input' = input
      BY <1>5, <2>2 DEF Return
    <3>2. cmdlines \o buf \in Seq(Chars) /\ Newline \in Chars
      BY <1>1 DEF Chars
    <3>3. cmdlines' \in Seq(Chars) /\ cmdlines'[Len(cmdlines')] = Newline
      BY <3>1, <3>2, AppendProperties
    <3>4. cmdlines' \o <<>> = cmdlines'
      BY <3>3, ConcatEmptySeq
    <3>5. CASE c = Newline
      <4>1. cmdlines \o Append(buf, Newline) \o input = stdin
        BY <1>5, <3>5, CharAssumption DEF Return, Kept
      <4>2. Append(buf, Newline) = buf \o <<Newline>> /\ <<Newline>> \in Seq(Chars)
        BY <1>1, <3>2, AppendIsConcat
      <4>3. cmdlines' = (cmdlines \o buf) \o <<Newline>>
        BY <3>1, <3>2, AppendIsConcat
      <4>4. cmdlines' = cmdlines \o Append(buf, Newline)
        BY <1>1, <4>2, <4>3, ConcatAssociative
      <4>5. Everything'
        BY <3>1, <3>4, <4>1, <4>4 DEF Everything
      <4>6. QED
        BY <3>1, <3>3, <4>5 DEF Kept, LinesEnd
    <3>6. CASE c # Newline
      <4>1. c = EOF /\ input = <<>> /\ buf # <<>>
        BY <1>5, <2>2, <3>6 DEF Return, Kept, pos
      <4>2. cmdlines \o buf \o <<>> = stdin
        BY <1>5, <3>6, <4>1 DEF Return, Kept, Everything, LastReturned
      <4>3. cmdlines \o buf = stdin
        BY <3>2, <4>2, ConcatEmptySeq
      <4>4. stdin # <<>> /\ stdin[Len(stdin)] = buf[Len(buf)]
        <5>1. Len(buf) > 0 /\ Len(buf) \in Nat /\ Len(cmdlines) \in Nat
          BY <1>1, <4>1
        <5>2. Len(stdin) = Len(cmdlines) + Len(buf)
          BY <1>1, <4>3, ConcatProperties
        <5>3. QED
          BY <1>1, <4>3, <5>1, <5>2, ConcatProperties
      <4>5. buf[Len(buf)] \in Char
        BY <1>1, <4>1
      <4>6. Unended
        BY <4>4, <4>5, CharAssumption DEF Unended
      <4>7. LastReturned'
        BY <3>1, <4>1, <4>3, <4>6 DEF LastReturned, Unended
      <4>8. QED
        BY <3>1, <3>3, <4>7 DEF Kept, LinesEnd
    <3>7. QED
      BY <3>5, <3>6
  <2>3. QED
    BY <2>1, <2>2
<1>6. QED
  BY <1>2, <1>3, <1>4, <1>5 DEF Next

LEMMA StepKInv == KInv /\ [Next]_vars => KInv'
<1>1. ASSUME KInv, Next PROVE KInv'
  BY <1>1, StepInv, StepKept DEF KInv
<1>2. ASSUME KInv, UNCHANGED vars PROVE KInv'
  <2>1. IInv'
    BY <1>2, StepInv DEF KInv
  <2>2. LinesEnd' /\ Kept'
    BY <1>2 DEF vars, KInv, LinesEnd, Kept, Everything, LastReturned, Unended
  <2>3. QED
    BY <2>1, <2>2 DEF KInv
<1>3. QED
  BY <1>1, <1>2

\* Whatever the input: what has been returned, is being read and is left make
\* up the input, and at the end it has been returned line by line.
THEOREM NothingLost == CommandSpec => []Lines
<1>1. KInv => Lines
  <2> SUFFICES ASSUME KInv PROVE Lines
    OBVIOUS
  <2>1. CASE pc = "exited" /\ ~LastReturned
    <3>1. cmdlines \in Seq(Chars)
      BY DEF KInv, IInv, TypeOK, Chars
    <3>2. cmdlines \o <<>> = cmdlines
      BY <3>1, ConcatEmptySeq
    <3>3. QED
      BY <2>1, <3>2 DEF KInv, Kept, Lines
  <2>2. CASE pc # "exited" \/ LastReturned
    BY <2>2 DEF KInv, Kept, Lines, Everything, LastReturned
  <2>3. QED
    BY <2>1, <2>2
<1>2. CommandSpec => []KInv
  BY OnlyNext, InitKept, StepKInv, PTL DEF Spec
<1>3. QED
  BY <1>1, <1>2, PTL
-----------------------------------------------------------------------------
(* The array of arguments, however many words a line has.                  *)

\* The pointers in a block, and in two.
LEMMA SlotsProperty ==
  /\ Split!Slots \in Nat /\ Split!Slots >= 2
  /\ BUFSIZ \div PtrSize = Split!Slots /\ (BUFSIZ + BUFSIZ) \div PtrSize = 2 * Split!Slots
BY BUFSIZAssumption, SplitAssumption DEF Split!Slots

\* Which words they are does not matter here.
IsList == \E W : args \in Seq(W)

\* The room that spots tells of is in one block what there is, and one more word
\* is written only where it has a spot and the NULL another.  Two blocks it takes
\* for three; the list leaves the two before those would be full.
OneBlock == /\ argspace = BUFSIZ /\ spots = Split!Slots
            /\ Len(args) < Split!Slots /\ (spc = "word" => Len(args) + 1 < Split!Slots)
TakenForThree == /\ argspace = BUFSIZ + BUFSIZ /\ spots = 3 * Split!Slots
                 /\ Len(args) <= 2 * Split!Slots

Splitting == {"line", "space", "word", "end"}

ArrayInv == /\ spc \in Splitting \cup {"returned", "overrun", "fatal"}
            /\ IsList
            /\ spc \in Splitting => OneBlock \/ TakenForThree

LEMMA SplitStep == ASSUME ArrayInv, Split!Next PROVE ArrayInv'
<1> DEFINE S == Split!Slots
<1>1. S \in Nat /\ S >= 2
  BY SlotsProperty
<1>2. Len(args) \in Nat
  <2>1. PICK W : args \in Seq(W)
    BY DEF ArrayInv, IsList
  <2>2. QED
    BY <2>1
<1>3. CASE Split!Skip
  <2>1. spc = "line" /\ spc' \in {"end", "space"} /\ UNCHANGED <<args, argspace, spots>>
    BY <1>3 DEF Split!Skip
  <2>2. QED
    BY <2>1 DEF ArrayInv, IsList, Splitting, OneBlock, TakenForThree
<1>4. CASE Split!Space
  <2>1. spc = "space" /\ args' = args /\ IsList'
    BY <1>4 DEF Split!Space, ArrayInv, IsList
  <2>2. CASE spc' = "fatal"
    BY <2>1, <2>2 DEF ArrayInv, Splitting
  <2>3. CASE /\ Len(args) + 1 >= spots /\ spc' = "word"
             /\ argspace' = argspace + BUFSIZ
             /\ spots' = spots + argspace' \div PtrSize
    <3>1. CASE OneBlock
      <4>1. argspace' = BUFSIZ + BUFSIZ /\ spots' = S + 2 * S
        BY <2>3, <3>1, SlotsProperty DEF OneBlock
      <4>2. TakenForThree'
        BY <1>1, <1>2, <2>1, <3>1, <4>1 DEF OneBlock, TakenForThree
      <4>3. QED
        BY <2>1, <2>3, <4>2 DEF ArrayInv, Splitting
    <3>2. CASE TakenForThree
      BY <1>1, <1>2, <2>3, <3>2 DEF TakenForThree
    <3>3. QED
      BY <2>1, <3>1, <3>2 DEF ArrayInv, Splitting
  <2>4. CASE ~(Len(args) + 1 >= spots) /\ spc' = "word" /\ UNCHANGED <<argspace, spots>>
    <3>1. OneBlock => OneBlock'
      BY <1>1, <1>2, <2>1, <2>4 DEF OneBlock
    <3>2. TakenForThree => TakenForThree'
      BY <1>1, <1>2, <2>1, <2>4 DEF TakenForThree
    <3>3. QED
      BY <2>1, <2>4, <3>1, <3>2 DEF ArrayInv, Splitting
  <2>5. QED
    BY <1>4, <2>2, <2>3, <2>4 DEF Split!Space, Split!Full, Split!argnum
<1>5. CASE Split!Word
  <2>1. /\ spc = "word" /\ spc' \in {"line", "overrun"} /\ UNCHANGED <<argspace, spots>>
        /\ \E w : args' = Append(args, w)
    BY <1>5 DEF Split!Word, Split!Write
  <2>2. PICK W : args \in Seq(W)
    BY DEF ArrayInv, IsList
  <2>3. PICK w : args' = Append(args, w)
    BY <2>1
  <2>4. args \in Seq(W \cup {w}) /\ w \in W \cup {w}
    BY <2>2
  <2>5. args' \in Seq(W \cup {w}) /\ Len(args') = Len(args) + 1
    BY <2>3, <2>4, AppendProperties
  <2>6. IsList'
    BY <2>5 DEF IsList
  <2>7. OneBlock => OneBlock'
    BY <1>1, <1>2, <2>1, <2>5 DEF OneBlock
  <2>8. TakenForThree /\ spc' = "line" => TakenForThree'
    <3>1. TakenForThree /\ spc' = "line" => Len(args) < 2 * Split!Slots
      BY <1>2, <1>5, SlotsProperty
      DEF Split!Word, Split!Write, Split!Beyond, Split!argnum, TakenForThree
    <3>2. QED
      BY <1>1, <1>2, <2>1, <2>5, <3>1, SlotsProperty DEF TakenForThree
  <2>9. QED
    BY <2>1, <2>6, <2>7, <2>8 DEF ArrayInv, Splitting
<1>6. CASE Split!End
  BY <1>6 DEF Split!End, Split!Write, ArrayInv, Splitting, IsList
<1>7. QED
  BY <1>3, <1>4, <1>5, <1>6 DEF Split!Next

LEMMA ArrayStep == ArrayInv /\ [CommandNext]_all => ArrayInv'
<1>1. ASSUME ArrayInv, UNCHANGED split PROVE ArrayInv'
  BY <1>1 DEF split, ArrayInv, IsList, OneBlock, TakenForThree
<1>2. ASSUME CallSplit PROVE ArrayInv'
  <2>1. /\ args' = <<>> /\ argspace' = BUFSIZ /\ spots' = Split!Slots
        /\ spc' \in {"line", "fatal"}
    BY <1>2 DEF CallSplit, Split!Call
  <2>2. args' \in Seq({}) /\ Len(args') = 0
    BY <2>1
  <2>3. IsList'
    BY <2>2 DEF IsList
  <2>4. OneBlock'
    BY <2>1, <2>2, SlotsProperty DEF OneBlock
  <2>5. QED
    BY <2>1, <2>3, <2>4 DEF ArrayInv, Splitting
<1>3. QED
  BY <1>1, <1>2, SplitStep DEF CommandNext, Read, all

\* Whatever the lines: the array holds what is written to it as long as the list
\* fits in two blocks, and is one place short when it just does not.
THEOREM ArrayTwoBlocks == CommandSpec => []TwoBlocks
<1>1. CommandInit => ArrayInv
  <2>1. <<>> \in Seq({})
    OBVIOUS
  <2>2. QED
    BY <2>1 DEF CommandInit, ArrayInv, IsList, Splitting
<1>2. ArrayInv => TwoBlocks
  <2> SUFFICES ASSUME ArrayInv, spc \in {"word", "end"}
               PROVE  /\ Len(args) < 2 * Split!Slots => ~Split!Beyond
                      /\ Len(args) = 2 * Split!Slots => Split!Beyond
    BY DEF TwoBlocks, Split!TwoBlocks, Split!argnum
  <2>1. Len(args) \in Nat
    <3>1. PICK W : args \in Seq(W)
      BY DEF ArrayInv, IsList
    <3>2. QED
      BY <3>1
  <2>2. CASE OneBlock
    BY <2>1, <2>2, SlotsProperty DEF OneBlock, Split!Beyond, Split!argnum
  <2>3. CASE TakenForThree
    BY <2>1, <2>3, SlotsProperty DEF TakenForThree, Split!Beyond, Split!argnum
  <2>4. QED
    BY <2>2, <2>3 DEF ArrayInv, Splitting
<1>3. QED
  BY <1>1, <1>2, ArrayStep, PTL DEF CommandSpec
-----------------------------------------------------------------------------
(* The words of a line, however many and however long.                     *)

\* A set of numbers that is not empty has a least one.
LEMMA Least == ASSUME NEW S \in SUBSET Nat, S # {} PROVE \E m \in S : \A j \in S : m <= j
<1>1. PICK m \in S : \A j \in S : <<j, m>> \notin OpToRel(<, Nat)
  BY NatLessThanWellFounded, WFMin
<1>2. \A j \in S : ~(j < m)
  BY <1>1 DEF OpToRel
<1>3. QED
  BY <1>2

\* There is a first place from i on that is in S, or n + 1.
LEMMA FirstPlace ==
  ASSUME NEW n \in Nat, NEW i \in 1..(n + 1), NEW S
  PROVE  \E j \in i..(n + 1) : (j <= n => j \in S) /\ \A k \in i..(j - 1) : k \notin S
<1> DEFINE T == {j \in i..(n + 1) : j <= n => j \in S}
<1>1. T \in SUBSET Nat /\ n + 1 \in T
  OBVIOUS
<1>2. PICK j \in T : \A k \in T : j <= k
  BY <1>1, Least
<1>3. \A k \in i..(j - 1) : k \notin S
  BY <1>2
<1>4. QED
  BY <1>2, <1>3

L == Len(line)
Blank == {i \in 1..L : Split!is_delim(i)}

\* Where skipping the blanks from cp ends.
LEMMA SkipPlace ==
  ASSUME L \in Nat, cp \in 1..(L + 1)
  PROVE  LET j == Split!From(cp, LAMBDA i : ~Split!is_delim(i))
         IN  /\ j \in cp..(L + 1)
             /\ j <= L => j \notin Blank
             /\ \A k \in cp..(j - 1) : k \in Blank
<1> DEFINE First(j) == /\ j <= L => ~Split!is_delim(j)
                       /\ \A k \in cp..(j - 1) : ~~Split!is_delim(k)
<1>1. Split!From(cp, LAMBDA i : ~Split!is_delim(i)) = CHOOSE j \in cp..(L + 1) : First(j)
  BY DEF Split!From, L
<1>2. PICK j \in cp..(L + 1) : /\ j <= L => j \in (1..L) \ Blank
                               /\ \A k \in cp..(j - 1) : k \notin (1..L) \ Blank
  BY FirstPlace
<1>3. First(j)
  BY <1>2 DEF Blank
<1>4. \E jj \in cp..(L + 1) : First(jj)
  BY <1>3
<1> DEFINE c0 == CHOOSE jj \in cp..(L + 1) : First(jj)
<1>5. c0 \in cp..(L + 1) /\ First(c0)
  BY <1>4
<1> HIDE DEF c0
<1>6. /\ c0 <= L => c0 \notin Blank
      /\ \A k \in cp..(c0 - 1) : k \in Blank
  BY <1>5 DEF Blank
<1>7. QED
  BY <1>1, <1>5, <1>6 DEF c0

\* Where the word that starts at cp ends: behind it is a blank or nothing.
LEMMA WordPlace ==
  ASSUME L \in Nat, cp \in 1..L, cp \notin Blank
  PROVE  LET j == Split!EndOfWord
         IN  /\ j \in (cp + 1)..(L + 1)
             /\ j <= L => j \in Blank
             /\ \A k \in cp..(j - 1) : k \notin Blank
<1> DEFINE First(j) == /\ j <= L => Split!is_delim(j)
                       /\ \A k \in (cp + 1)..(j - 1) : ~Split!is_delim(k)
<1>1. Split!EndOfWord = CHOOSE j \in (cp + 1)..(L + 1) : First(j)
  BY DEF Split!From, Split!EndOfWord, L
<1>2. PICK j \in (cp + 1)..(L + 1) : /\ j <= L => j \in Blank
                                     /\ \A k \in (cp + 1)..(j - 1) : k \notin Blank
  <2>1. cp + 1 \in 1..(L + 1)
    OBVIOUS
  <2>2. QED
    BY <2>1, FirstPlace
<1>3. First(j)
  BY <1>2 DEF Blank
<1>4. \E jj \in (cp + 1)..(L + 1) : First(jj)
  BY <1>3
<1> DEFINE c0 == CHOOSE jj \in (cp + 1)..(L + 1) : First(jj)
<1>5. c0 \in (cp + 1)..(L + 1) /\ First(c0)
  BY <1>4
<1> HIDE DEF c0
<1>6. /\ c0 <= L => c0 \in Blank
      /\ \A k \in cp..(c0 - 1) : k \notin Blank
  BY <1>5 DEF Blank
<1>7. QED
  BY <1>1, <1>5, <1>6 DEF c0

\* The words that have been copied, and what cp points to at each step.
Done == {i \in Split!Starts : i < cp}

WordsInv == /\ line \in Seq(Char) /\ cp \in 1..(L + 1) /\ args \in Seq(Seq(Char))
            /\ spc = "line" => cp \in Blank \cup {1, L + 1}
            /\ spc \in {"space", "word"} => cp \in Split!Starts
            /\ spc \in {"end", "returned"} => cp = L + 1
            /\ Split!AreWords(Done)

\* Between blanks no word starts.
LEMMA NoneStarts ==
  ASSUME L \in Nat, NEW i \in 1..(L + 1), NEW j \in i..(L + 1),
         \/ \A k \in i..(j - 1) : k \in Blank
         \/ (i > 1 => i - 1 \notin Blank) /\ i # 1 /\ \A k \in i..(j - 1) : k \notin Blank
  PROVE  {k \in Split!Starts : k < j} = {k \in Split!Starts : k < i}
<1>1. ASSUME NEW k \in Split!Starts, k >= i, k < j PROVE FALSE
  <2>1. k \in 1..L /\ k \notin Blank /\ (k > 1 => k - 1 \in Blank)
    BY DEF Split!Starts, Blank, L
  <2>2. k \in i..(j - 1)
    BY <1>1, <2>1
  <2>3. k - 1 \in i..(j - 1) \/ k = i
    BY <2>1, <2>2
  <2>4. QED
    BY <2>1, <2>2, <2>3
<1>2. Split!Starts \subseteq Nat
  BY DEF Split!Starts
<1>3. \A k \in Split!Starts : k < j <=> k < i
  <2> SUFFICES ASSUME NEW k \in Split!Starts PROVE k < j <=> k < i
    OBVIOUS
  <2>1. k \in Nat /\ i \in Nat /\ j \in Nat /\ i <= j
    BY <1>2
  <2>2. ~(k >= i /\ k < j)
    BY <1>1
  <2>3. QED
    BY <2>1, <2>2
<1>4. QED
  BY <1>3

\* A word that is copied is that of the line.
LEMMA WordCopied ==
  ASSUME line \in Seq(Char), cp \in 1..L, cp \notin Blank
  PROVE  SubSeq(line, cp, Split!EndOfWord - 1) = Split!WordAt(cp)
<1> DEFINE j == Split!EndOfWord
           Nearest(e) == e >= cp /\ \A f \in Split!Ends : f >= cp => e <= f
<1>1. L \in Nat
  BY DEF L
<1>2. /\ j \in (cp + 1)..(L + 1)
      /\ j <= L => j \in Blank
      /\ \A k \in cp..(j - 1) : k \notin Blank
  BY <1>1, WordPlace
<1> HIDE DEF j
<1>3. j - 1 \in Split!Ends
  <2>1. j - 1 \in 1..L /\ j - 1 \notin Blank
    BY <1>1, <1>2
  <2>2. j - 1 < L => j \in Blank
    BY <1>1, <1>2
  <2>3. (j - 1) + 1 = j
    BY <1>2
  <2>4. ~Split!is_delim(j - 1) /\ (j - 1 < L => Split!is_delim((j - 1) + 1))
    BY <2>1, <2>2, <2>3 DEF Blank
  <2>5. QED
    BY <2>1, <2>4 DEF Split!Ends, L
<1>4. \A f \in Split!Ends : f >= cp => j - 1 <= f
  <2>1. SUFFICES ASSUME NEW f \in Split!Ends, f >= cp, f < j - 1 PROVE FALSE
    BY <1>2 DEF Split!Ends, L
  <2>2. f \in 1..L /\ f < L /\ f + 1 \in cp..(j - 1) /\ f + 1 \in 1..L
    BY <1>1, <1>2, <2>1 DEF Split!Ends, L
  <2>3. f + 1 \in Blank
    BY <2>2 DEF Split!Ends, Blank, L
  <2>4. QED
    BY <1>2, <2>2, <2>3
<1>5. Nearest(j - 1)
  BY <1>2, <1>4
<1>6. ASSUME NEW e \in Split!Ends, Nearest(e) PROVE e = j - 1
  <2>1. e <= j - 1 /\ j - 1 <= e
    BY <1>2, <1>3, <1>4, <1>6
  <2>2. e \in Nat
    BY DEF Split!Ends
  <2>3. QED
    BY <1>2, <2>1, <2>2
<1>7. (CHOOSE e \in Split!Ends : Nearest(e)) = j - 1
  BY <1>3, <1>5, <1>6
<1>8. Split!WordAt(cp) = SubSeq(line, cp, CHOOSE e \in Split!Ends : Nearest(e))
  BY DEF Split!WordAt
<1>9. QED
  BY <1>7, <1>8 DEF j

\* The words of the line are the same as long as the line is.
LEMMA SameLine ==
  ASSUME UNCHANGED line
  PROVE  /\ L' = L /\ Blank' = Blank /\ Split!Starts' = Split!Starts
         /\ \A i : Split!WordAt(i)' = Split!WordAt(i)
BY DEF L, Blank, Split!Starts, Split!Ends, Split!WordAt, Split!is_delim

\* Skipping blanks passes no start of a word, and stops at one or at the end.
LEMMA SkipWords == ASSUME WordsInv, Split!Skip PROVE WordsInv'
<1>1. PICK d : d = Split!From(cp, LAMBDA i : ~Split!is_delim(i))
  OBVIOUS
<1>2. /\ UNCHANGED <<line, args>> /\ spc = "line" /\ cp' = d
      /\ spc' = IF d = L + 1 THEN "end" ELSE "space"
  BY <1>1 DEF Split!Skip, L
<1>3. /\ L \in Nat /\ cp \in 1..(L + 1) /\ cp \in Blank \cup {1, L + 1}
  BY <1>2 DEF WordsInv, L
<1>4. /\ d \in cp..(L + 1)
      /\ d <= L => d \notin Blank
      /\ \A k \in cp..(d - 1) : k \in Blank
  BY <1>1, <1>3, SkipPlace
<1>5. Done' = Done
  <2>1. {k \in Split!Starts : k < d} = {k \in Split!Starts : k < cp}
    BY <1>3, <1>4, NoneStarts
  <2>2. QED
    BY <1>2, <2>1, SameLine DEF Done
<1>6. Split!AreWords(Done)'
  BY <1>2, <1>5, SameLine DEF WordsInv, Split!AreWords, Split!argnum
<1>7. d # L + 1 => d \in Split!Starts
  <2> SUFFICES ASSUME d # L + 1 PROVE d \in Split!Starts
    OBVIOUS
  <2>1. d \in 1..L /\ d \notin Blank
    BY <1>3, <1>4
  <2>2. d > 1 => d - 1 \in Blank
    <3>1. CASE d = cp
      BY <1>3, <2>1, <3>1
    <3>2. CASE d > cp
      <4>1. d - 1 \in cp..(d - 1)
        BY <1>3, <1>4, <3>2
      <4>2. QED
        BY <1>4, <4>1
    <3>3. QED
      BY <1>3, <1>4, <3>1, <3>2
  <2>3. QED
    BY <2>1, <2>2 DEF Split!Starts, Blank, L
<1>8. d \in 1..(L + 1)
  BY <1>3, <1>4
<1>9. QED
  BY <1>2, <1>6, <1>7, <1>8, SameLine DEF WordsInv

\* Copying a word adds the one that starts at cp.
LEMMA WordWords == ASSUME WordsInv, Split!Word PROVE WordsInv'
<1>1. PICK d : d = Split!EndOfWord
  OBVIOUS
<1>2. PICK n : n = Len(args)
  OBVIOUS
<1>3. PICK w : w = SubSeq(line, cp, d - 1)
  OBVIOUS
<1>4. /\ UNCHANGED line /\ spc = "word" /\ spc' \in {"line", "overrun"}
      /\ cp' = d /\ args' = Append(args, w)
  BY <1>1, <1>3 DEF Split!Word, Split!Write
<1>5. /\ L \in Nat /\ cp \in 1..L /\ cp \notin Blank /\ cp \in Split!Starts
      /\ line \in Seq(Char) /\ args \in Seq(Seq(Char)) /\ n \in Nat
  BY <1>4, <1>2 DEF WordsInv, L, Split!Starts, Blank
<1>6. /\ d \in (cp + 1)..(L + 1)
      /\ d <= L => d \in Blank
      /\ \A k \in cp..(d - 1) : k \notin Blank
  BY <1>5, <1>1, WordPlace
<1>7. L \in Nat /\ cp \in Nat /\ d \in Nat /\ 1 <= cp /\ cp < d /\ d <= L + 1
  BY <1>5, <1>6
<1>8. w = Split!WordAt(cp)
  BY <1>5, <1>1, <1>3, WordCopied
<1>9. w \in Seq(Char)
  <2>1. d - 1 \in Int /\ cp \in Int /\ \A k \in cp..(d - 1) : k \in 1..Len(line)
    BY <1>7 DEF L
  <2>2. QED
    BY <1>5, <1>3, <2>1
<1>10. /\ args' \in Seq(Seq(Char)) /\ Len(args') = n + 1 /\ args'[n + 1] = w
      /\ \A k \in 1..n : args'[k] = args[k]
  BY <1>4, <1>5, <1>9, <1>2
<1>11. Done' = Done \cup {cp}
  <2>1. {k \in Split!Starts : k < d} = {k \in Split!Starts : k < cp + 1}
    <3>1. cp + 1 \in 1..(L + 1) /\ d \in (cp + 1)..(L + 1) /\ cp + 1 # 1 /\ (cp + 1) - 1 = cp
      BY <1>7
    <3>2. \A k \in (cp + 1)..(d - 1) : k \notin Blank
      <4>1. \A k \in (cp + 1)..(d - 1) : k \in cp..(d - 1)
        BY <1>7
      <4>2. QED
        BY <1>6, <4>1
    <3>3. (cp + 1) - 1 \notin Blank
      BY <1>5, <3>1
    <3>4. QED
      BY <1>7, <3>1, <3>2, <3>3, NoneStarts
  <2>2. {k \in Split!Starts : k < cp + 1} = {k \in Split!Starts : k < cp} \cup {cp}
    <3>1. \A k \in Split!Starts : k \in Nat
      BY DEF Split!Starts
    <3>2. \A k \in Split!Starts : k < cp + 1 <=> k < cp \/ k = cp
      BY <1>7, <3>1
    <3>3. QED
      BY <1>5, <3>2
  <2>3. QED
    BY <1>4, <2>1, <2>2, SameLine DEF Done
<1>12. Split!AreWords(Done)'
  <2>1. PICK place \in Split!Surjection(1..n, Done) :
          /\ \A j, k \in 1..n : j < k => place[j] < place[k]
          /\ \A k \in 1..n : args[k] = Split!WordAt(place[k])
    <3>1. Split!AreWords(Done) /\ Split!argnum = n
      BY <1>2 DEF WordsInv, Split!argnum
    <3>2. QED
      BY <3>1, Zenon DEF Split!AreWords
  <2>2. PICK more : more = [k \in 1..(n + 1) |-> IF k = n + 1 THEN cp ELSE place[k]]
    OBVIOUS
  <2>3. more[n + 1] = cp /\ \A k \in 1..n : more[k] = place[k]
    BY <1>5, <2>2
  <2>4. \A k \in 1..n : place[k] \in Done
    BY <2>1 DEF Split!Surjection
  <2>5. more \in [1..(n + 1) -> Done \cup {cp}]
    BY <1>5, <2>4, <2>2
  <2>6. \A t \in Done \cup {cp} : \E k \in 1..(n + 1) : more[k] = t
    <3>1. \A t \in Done : \E k \in 1..n : place[k] = t
      BY <2>1 DEF Split!Surjection
    <3>2. QED
      BY <1>5, <2>3, <3>1
  <2>7. more \in Split!Surjection(1..(n + 1), Done')
    BY <1>11, <2>5, <2>6 DEF Split!Surjection
  <2>8. \A j, k \in 1..(n + 1) : j < k => more[j] < more[k]
    <3>1. \A j \in 1..n : place[j] < cp
      BY <2>4 DEF Done
    <3>2. QED
      <4> SUFFICES ASSUME NEW j \in 1..(n + 1), NEW k \in 1..(n + 1), j < k
                   PROVE  more[j] < more[k]
        OBVIOUS
      <4>1. j \in 1..n /\ (k = n + 1 \/ k \in 1..n)
        BY <1>5
      <4>2. QED
        BY <2>1, <2>3, <3>1, <4>1
  <2>9. \A k \in 1..(n + 1) : args'[k] = Split!WordAt(more[k])'
    <3>1. \A k \in 1..(n + 1) : args'[k] = Split!WordAt(more[k])
      BY <1>5, <1>8, <1>10, <2>1, <2>3
    <3>2. \A i : Split!WordAt(i)' = Split!WordAt(i)
      BY <1>4, SameLine
    <3>3. QED
      BY <3>1, <3>2, Zenon
  <2>10. Split!argnum' = n + 1
    BY <1>10 DEF Split!argnum
  <2>11. QED
    BY <2>7, <2>8, <2>9, <2>10, Zenon DEF Split!AreWords
<1>13. cp' \in 1..(L' + 1) /\ cp' \in Blank' \cup {1, L' + 1}
  <2>1. d \in 1..(L + 1) /\ d \in Blank \cup {1, L + 1}
    BY <1>5, <1>6
  <2>2. QED
    BY <1>4, <2>1, SameLine
<1>14. QED
  BY <1>4, <1>5, <1>10, <1>12, <1>13 DEF WordsInv

\* No step of splitline breaks the invariant.
LEMMA SplitWords == ASSUME WordsInv, Split!Next PROVE WordsInv'
<1>1. ASSUME UNCHANGED <<line, cp, args>>
      PROVE  /\ L' = L /\ Blank' = Blank /\ Split!Starts' = Split!Starts
             /\ Split!AreWords(Done) => Split!AreWords(Done)'
  <2>1. /\ L' = L /\ Blank' = Blank /\ Split!Starts' = Split!Starts
        /\ Split!argnum' = Split!argnum /\ Done' = Done
    BY <1>1, SameLine DEF Split!argnum, Done
  <2>2. \A i : Split!WordAt(i)' = Split!WordAt(i)
    BY <1>1, SameLine
  <2>3. Split!AreWords(Done) => Split!AreWords(Done)'
    BY <1>1, <2>1, <2>2, Zenon DEF Split!AreWords
  <2>4. QED
    BY <2>1, <2>3
<1>2. CASE Split!Space
  <2>1. spc = "space" /\ spc' \in {"word", "fatal"} /\ UNCHANGED <<line, cp, args>>
    BY <1>2 DEF Split!Space
  <2>2. QED
    BY <1>1, <2>1 DEF WordsInv
<1>3. CASE Split!End
  <2>1. spc = "end" /\ spc' \in {"returned", "overrun"} /\ UNCHANGED <<line, cp, args>>
    BY <1>3 DEF Split!End, Split!Write
  <2>2. QED
    BY <1>1, <2>1 DEF WordsInv
<1>4. QED
  BY <1>2, <1>3, SkipWords, WordWords DEF Split!Next

\* No word of an empty list.
LEMMA NoWords == args = <<>> => Split!AreWords({})
<1> SUFFICES ASSUME args = <<>> PROVE Split!AreWords({})
  OBVIOUS
<1> DEFINE none == [k \in 1..0 |-> 0]
<1>1. Len(args) = 0
  OBVIOUS
<1>2. none \in Split!Surjection(1..0, {})
  BY DEF Split!Surjection
<1>3. QED
  BY <1>1, <1>2 DEF Split!AreWords, Split!argnum

\* The line of splitline is the last one that next_cmd has returned.
LineInv == cmdlines # <<>> => LastLine

\* Nor does next_cmd, whose line is the last of the input read so far.
LEMMA WordsStep == KInv /\ WordsInv /\ LineInv /\ [CommandNext]_all => WordsInv' /\ LineInv'
<1> SUFFICES ASSUME KInv, WordsInv, LineInv, [CommandNext]_all PROVE WordsInv' /\ LineInv'
  OBVIOUS
<1>1. ASSUME UNCHANGED split PROVE WordsInv'
  BY <1>1, SameLine DEF split, WordsInv, Split!AreWords, Split!argnum, Done
<1>2. ASSUME UNCHANGED <<line, cmdlines>> PROVE LineInv'
  BY <1>2 DEF LineInv, LastLine
<1>3. CASE Split!Next /\ UNCHANGED vars
  <2>1. UNCHANGED <<line, cmdlines>>
    BY <1>3 DEF vars, Split!Next, Split!Skip, Split!Space, Split!Word, Split!End
  <2>2. QED
    BY <1>2, <1>3, <2>1, SplitWords
<1>4. CASE (getc \/ Grow \/ Store) /\ UNCHANGED split
  <2>1. UNCHANGED <<line, cmdlines>>
    BY <1>4 DEF getc, Grow, Store, split
  <2>2. QED
    BY <1>1, <1>2, <1>4, <2>1
<1>5. CASE Return /\ pc' = "exited" /\ UNCHANGED split
  <2>1. UNCHANGED <<line, cmdlines>>
    BY <1>5 DEF Return, split
  <2>2. QED
    BY <1>1, <1>2, <1>5, <2>1
<1>6. CASE Return /\ pc' # "exited" /\ CallSplit
  <2>1. /\ cmdlines' = Append(cmdlines \o buf, Newline)
        /\ line' = buf /\ cp' = 1 /\ args' = <<>> /\ spc' \in {"line", "fatal"}
    BY <1>6 DEF Return, CallSplit, Split!Call
  <2>2. /\ cmdlines \in Seq(Chars) /\ buf \in Seq(Char) /\ buf \in Seq(Chars) /\ Newline \in Chars
        /\ cmdlines # <<>> => cmdlines[Len(cmdlines)] = Newline
    <3>1. cmdlines \in Seq(Chars) /\ buf \in Seq(Char)
      BY DEF KInv, IInv, TypeOK, Chars
    <3>2. QED
      BY <3>1 DEF KInv, LinesEnd, Chars
  <2>3. WordsInv'
    <3>1. Done' = {}
      BY <2>1 DEF Done, Split!Starts
    <3>2. Split!AreWords(Done)'
      <4> DEFINE none == [k \in 1..0 |-> 0]
      <4>1. Split!argnum' = 0
        BY <2>1 DEF Split!argnum
      <4>2. none \in Split!Surjection(1..0, {})
        BY DEF Split!Surjection
      <4>3. /\ \A j, k \in 1..0 : j < k => none[j] < none[k]
            /\ \A k \in 1..0 : args'[k] = Split!WordAt(none[k])'
        OBVIOUS
      <4> HIDE DEF none
      <4>4. QED
        BY <3>1, <4>1, <4>2, <4>3, Zenon DEF Split!AreWords
    <3>3. line' \in Seq(Char) /\ args' \in Seq(Seq(Char)) /\ cp' \in 1..(L' + 1)
      <4>1. line' \in Seq(Char) /\ args' \in Seq(Seq(Char))
        BY <2>1, <2>2
      <4>2. L' \in Nat
        BY <4>1 DEF L
      <4>3. \A m \in Nat : 1 \in 1..(m + 1)
        OBVIOUS
      <4>4. QED
        BY <2>1, <4>1, <4>2, <4>3
    <3>4. QED
      BY <2>1, <3>2, <3>3 DEF WordsInv
  <2>4. LineInv'
    <3> DEFINE m == Len(cmdlines)
               b == Len(buf)
    <3>1. /\ cmdlines' \in Seq(Chars) /\ Len(cmdlines') = m + b + 1 /\ m \in Nat /\ b \in Nat
          /\ \A k \in 1..m : cmdlines'[k] = cmdlines[k]
          /\ \A k \in 1..b : cmdlines'[m + k] = buf[k]
          /\ cmdlines'[m + b + 1] = Newline
      BY <2>1, <2>2
    <3>2. Len(cmdlines') - Len(line') = m + 1
      BY <2>1, <3>1
    <3>3. SubSeq(cmdlines', m + 1, m + b + 1) = Append(buf, Newline)
      <4> DEFINE s == SubSeq(cmdlines', m + 1, m + b + 1)
                 t == Append(buf, Newline)
      <4>1. /\ s \in Seq(Chars) /\ Len(s) = b + 1
            /\ \A k \in 1..(b + 1) : s[k] = cmdlines'[m + k]
        BY <3>1
      <4>2. /\ t \in Seq(Chars) /\ Len(t) = b + 1 /\ t[b + 1] = Newline
            /\ \A k \in 1..b : t[k] = buf[k]
        BY <2>2
      <4>3. ASSUME NEW k \in 1..(b + 1) PROVE s[k] = t[k]
        <5>1. CASE k = b + 1
          BY <3>1, <4>1, <4>2, <5>1
        <5>2. CASE k # b + 1
          <6>1. k \in 1..b
            BY <3>1, <5>2
          <6>2. QED
            BY <3>1, <4>1, <4>2, <6>1
        <5>3. QED
          BY <5>1, <5>2
      <4>4. QED
        BY <4>1, <4>2, <4>3, SeqEqual
    <3>4. m + 1 > 1 => cmdlines'[(m + 1) - 1] = Newline
      <4>1. ASSUME m > 0 PROVE m \in 1..m /\ cmdlines # <<>> /\ (m + 1) - 1 = m
        BY <2>2, <3>1, <4>1
      <4>2. QED
        BY <2>2, <3>1, <4>1
    <3>5. QED
      BY <2>1, <3>1, <3>2, <3>3, <3>4 DEF LineInv, LastLine
  <2>5. QED
    BY <2>3, <2>4
<1>7. CASE UNCHANGED all
  BY <1>1, <1>2, <1>7 DEF all, vars, split
<1>8. QED
  BY <1>3, <1>4, <1>5, <1>6, <1>7 DEF CommandNext, Read

\* Whatever the input: an argument list that splitline returns without a write
\* behind the array, which is every one of fewer words than two blocks have places
\* (ArrayTwoBlocks), is the words of the line read last, each once, whole and in
\* order, whatever blanks stand around them.
THEOREM ArgumentsAreWords == CommandSpec => []Words
<1>1. CommandInit => WordsInv /\ LineInv
  <2> SUFFICES ASSUME CommandInit PROVE WordsInv /\ LineInv
    OBVIOUS
  <2>1. /\ line = <<>> /\ cp = 1 /\ args = <<>> /\ spc = "returned" /\ cmdlines = <<>>
    BY DEF CommandInit, Init
  <2>2. Done = {} /\ L = 0
    BY <2>1 DEF Done, Split!Starts, L
  <2>3. line \in Seq(Char) /\ args \in Seq(Seq(Char)) /\ cp \in 1..(L + 1) /\ cp = L + 1
    BY <2>1, <2>2
  <2>4. QED
    BY <2>1, <2>2, <2>3, NoWords DEF WordsInv, LineInv
<1>2. WordsInv /\ LineInv => Words
  <2> SUFFICES ASSUME WordsInv, LineInv PROVE Words
    OBVIOUS
  <2>1. spc = "returned" => Split!Starts = Done
    BY DEF WordsInv, Done, Split!Starts, L
  <2>2. Split!AreWords(Done)
    BY DEF WordsInv
  <2>3. QED
    BY <2>1, <2>2 DEF Words, Split!Words, LineInv, Done
<1>3. CommandSpec => []KInv
  BY OnlyNext, InitKept, StepKInv, PTL DEF Spec
<1>4. QED
  BY <1>1, <1>2, <1>3, WordsStep, PTL DEF CommandSpec
=============================================================================
