----------------------------- MODULE CountWords ------------------------------
(***************************************************************************)
(* The loop of count_words, which twordcount2.c, twordcount3.c and         *)
(* twordcount4.c share: a thread opens its file, reads it one character at *)
(* a time and counts a word at each character that is not alphanumeric and *)
(* follows one that is.  What "counts a word" does to memory is what the   *)
(* three programs differ in, and is left to their own modules.             *)
(*                                                                         *)
(* A file is the sequence of the values isalnum(c) of its characters: the  *)
(* loop looks at nothing else.                                             *)
(***************************************************************************)
EXTENDS Integers, Sequences, FiniteSets

CONSTANT Texts         \* the files the program may be started on

ASSUME TextsAssumption == Texts \subseteq Seq(BOOLEAN)

Threads == {1, 2}      \* t1 and t2, one for each of argv[1] and argv[2]

VARIABLES text,        \* text[t]: the contents of thread t's file
          fp,          \* fp[t]: "NULL", or "FILE" once fopen has succeeded
          pos,         \* pos[t]: the characters thread t has dealt with
          prevc        \* prevc[t]: isalnum of the last of them

scan == <<text, fp, pos, prevc>>

ScanInit == /\ text \in [Threads -> Texts]
            /\ fp = [t \in Threads |-> "NULL"]
            /\ pos = [t \in Threads |-> 0]
            /\ prevc = [t \in Threads |-> FALSE]        \* '\0'

Fopen(t) == /\ fp' = [fp EXCEPT ![t] = "FILE"]
            /\ UNCHANGED <<text, pos, prevc>>

\* The character that getc returns next, when it is not EOF.
NotEOF(t) == pos[t] < Len(text[t])
Getc(t) == text[t][pos[t] + 1]

\* Slip, for LastWordLost: && isalnum(prevc) forgotten.
Separator(t) == ~Getc(t)

WordEnd(t) == ~Getc(t) /\ prevc[t]

\* The end of one turn of the loop: prevc = c.
NextChar(t) == /\ pos' = [pos EXCEPT ![t] = @ + 1]
               /\ prevc' = [prevc EXCEPT ![t] = Getc(t)]
               /\ UNCHANGED <<text, fp>>
-----------------------------------------------------------------------------
(***************************************************************************)
(* What the loop should compute, stated without a loop: the positions      *)
(* among the first n at which a word has just ended.                       *)
(***************************************************************************)
WordEnds(s, n) == {i \in 2..n : s[i - 1] /\ ~s[i]}

\* The words that have begun among the first n.
WordStarts(s, n) == {i \in 1..n : s[i] /\ (i = 1 \/ ~s[i - 1])}
EndsInWord(s, n) == n > 0 /\ s[n]

Ended(t) == Cardinality(WordEnds(text[t], pos[t]))
Words == [t \in Threads |-> Cardinality(WordEnds(text[t], Len(text[t])))]

ScanTypeOK == /\ text \in [Threads -> Texts]
              /\ fp \in [Threads -> {"NULL", "FILE"}]
              /\ pos \in [Threads -> Nat]
              /\ prevc \in [Threads -> BOOLEAN]

\* The loop invariant of count_words: prevc is the character before the
\* position, and no thread reads past the end or without an open file.
ScanInv == \A t \in Threads :
             /\ pos[t] <= Len(text[t])
             /\ prevc[t] <=> (pos[t] > 0 /\ text[t][pos[t]])
             /\ fp[t] = "NULL" => pos[t] = 0
=============================================================================
