-------------------------- MODULE WordCounterProofs --------------------------
(***************************************************************************)
(* Proofs about the three word counters for files of any length:           *)
(* twordcount2 loses no increment, twordcount4 no report, and all three    *)
(* implement WordTotal.  Each program has an inductive invariant of its    *)
(* own; OneInv says that it holds of the program that was started.         *)
(***************************************************************************)
EXTENDS WordCounters, FiniteSetTheorems, TLAPS
-----------------------------------------------------------------------------
(* Lemmas on WordEnds, the loop-free definition of what count_words counts:  *)
(* one turn of the loop moves Ended(t) by one exactly at a word end.         *)

\* The word ends of a file are finitely many, so that they can be counted.
LEMMA WordEndsFinite ==
  ASSUME NEW s \in Seq(BOOLEAN), NEW n \in Nat
  PROVE  /\ IsFiniteSet(WordEnds(s, n))
         /\ Cardinality(WordEnds(s, n)) \in Nat
<1>1. IsFiniteSet(2..n)
  BY FS_Interval
<1>2. WordEnds(s, n) \in SUBSET (2..n)
  BY DEF WordEnds
<1>3. QED
  BY <1>1, <1>2, FS_Subset, FS_CardinalityType

\* Before the first character nothing has ended.
LEMMA NoWordEnds ==
  ASSUME NEW s \in Seq(BOOLEAN)
  PROVE  Cardinality(WordEnds(s, 0)) = 0
<1>1. WordEnds(s, 0) = {}
  BY DEF WordEnds
<1>2. QED
  BY <1>1, FS_EmptySet

\* One more character ends a word exactly when it is not alphanumeric and the
\* one before it is.
LEMMA OneMoreChar ==
  ASSUME NEW s \in Seq(BOOLEAN), NEW n \in Nat, n < Len(s)
  PROVE  Cardinality(WordEnds(s, n + 1)) =
           Cardinality(WordEnds(s, n)) + (IF n > 0 /\ s[n] /\ ~s[n + 1] THEN 1 ELSE 0)
<1>1. IsFiniteSet(WordEnds(s, n)) /\ Cardinality(WordEnds(s, n)) \in Nat
  BY WordEndsFinite
<1>2. CASE n > 0 /\ s[n] /\ ~s[n + 1]
  <2>1. WordEnds(s, n + 1) = WordEnds(s, n) \cup {n + 1}
    BY <1>2 DEF WordEnds
  <2>2. n + 1 \notin WordEnds(s, n)
    BY DEF WordEnds
  <2>3. QED
    BY <1>1, <1>2, <2>1, <2>2, FS_AddElement
<1>3. CASE ~(n > 0 /\ s[n] /\ ~s[n + 1])
  <2>1. WordEnds(s, n + 1) = WordEnds(s, n)
    BY <1>3 DEF WordEnds
  <2>2. QED
    BY <1>1, <1>3, <2>1
<1>4. QED
  BY <1>2, <1>3
-----------------------------------------------------------------------------

\* What Ended(t) is in a state of the right type.
LEMMA EndedTypes ==
  ASSUME ScanTypeOK, NEW t \in Threads
  PROVE  /\ text[t] \in Seq(BOOLEAN)
         /\ Len(text[t]) \in Nat
         /\ pos[t] \in Nat
         /\ Ended(t) \in Nat
         /\ Words[t] \in Nat
<1>1. text[t] \in Seq(BOOLEAN) /\ Len(text[t]) \in Nat /\ pos[t] \in Nat
  BY TextsAssumption DEF ScanTypeOK
<1>2. Cardinality(WordEnds(text[t], pos[t])) \in Nat
  BY <1>1, WordEndsFinite
<1>3. Cardinality(WordEnds(text[t], Len(text[t]))) \in Nat
  BY <1>1, WordEndsFinite
<1>4. QED
  BY <1>1, <1>2, <1>3 DEF Ended, Words

\* One turn of the loop of count_words moves Ended by one at a word end and
\* leaves it alone anywhere else, and keeps the loop invariant.
LEMMA OneTurn ==
  ASSUME ScanTypeOK, ScanInv, NEW t \in Threads, NotEOF(t), fp[t] = "FILE", NextChar(t)
  PROVE  /\ ScanTypeOK' /\ ScanInv'
         /\ Ended(t)' = Ended(t) + (IF WordEnd(t) THEN 1 ELSE 0)
         /\ \A u \in Threads \ {t} : Ended(u)' = Ended(u) /\ pos'[u] = pos[u]
<1>1. text[t] \in Seq(BOOLEAN) /\ Len(text[t]) \in Nat /\ pos[t] \in Nat
  BY EndedTypes
<1>2. pos[t] + 1 \in 1..Len(text[t]) /\ text[t][pos[t] + 1] \in BOOLEAN
  BY <1>1 DEF NotEOF
<1>3. pos'[t] = pos[t] + 1 /\ prevc'[t] = text[t][pos[t] + 1] /\ text' = text /\ fp' = fp
  BY DEF NextChar, ScanTypeOK, Getc
<1>4. \A u \in Threads \ {t} : pos'[u] = pos[u] /\ prevc'[u] = prevc[u]
  BY DEF NextChar, ScanTypeOK
<1>5. ScanTypeOK'
  BY <1>1, <1>2, <1>3 DEF NextChar, ScanTypeOK, Getc
<1>6. ScanInv'
  <2>1. pos'[t] <= Len(text'[t])
    BY <1>1, <1>3 DEF NotEOF
  <2>2. prevc'[t] <=> (pos'[t] > 0 /\ text'[t][pos'[t]])
    BY <1>1, <1>2, <1>3
  <2>3. fp'[t] = "NULL" => pos'[t] = 0
    BY <1>3
  <2>4. QED
    BY <1>3, <1>4, <2>1, <2>2, <2>3 DEF ScanInv
<1>7. Ended(t)' = Ended(t) + (IF WordEnd(t) THEN 1 ELSE 0)
  <2>1. Cardinality(WordEnds(text[t], pos[t] + 1)) =
          Cardinality(WordEnds(text[t], pos[t]))
            + (IF pos[t] > 0 /\ text[t][pos[t]] /\ ~text[t][pos[t] + 1] THEN 1 ELSE 0)
    BY <1>1, OneMoreChar DEF NotEOF
  <2>2. WordEnd(t) <=> (pos[t] > 0 /\ text[t][pos[t]] /\ ~text[t][pos[t] + 1])
    BY DEF WordEnd, Getc, ScanInv
  <2>3. Ended(t)' = Cardinality(WordEnds(text[t], pos[t] + 1))
    BY <1>3 DEF Ended
  <2>4. QED
    BY <2>1, <2>2, <2>3 DEF Ended
<1>8. \A u \in Threads \ {t} : Ended(u)' = Ended(u)
  BY <1>3, <1>4 DEF Ended
<1>9. QED
  BY <1>4, <1>5, <1>6, <1>7, <1>8
-----------------------------------------------------------------------------
(* The inductive invariant.  NoLostCount alone is not inductive: that an   *)
(* increment stores what it should rests on LockInv, which says that       *)
(* nobody else stored since the load, and that it counts once rests on     *)
(* ScanInv and on the position of the thread, FileInv and MainInv.         *)

\* The program starts in IInv.
LEMMA InitInv == Init => IInv
<1>1. SUFFICES ASSUME Init PROVE IInv
  OBVIOUS
<1>2. ScanTypeOK /\ ScanInv
  <2>1. ScanTypeOK
    BY <1>1 DEF Init, ScanInit, ScanTypeOK
  <2>2. \A t \in Threads : Len(text[t]) \in Nat
    BY <2>1, EndedTypes
  <2>3. QED
    BY <1>1, <2>1, <2>2 DEF Init, ScanInit, ScanInv
<1>3. TypeOK /\ LockInv /\ FileInv /\ MainInv
  BY <1>1, <1>2, NotYetAssumption
     DEF Init, ScanInit, TypeOK, LockInv, FileInv, MainInv, Started, Threads, Free
<1>4. Ended(1) = 0 /\ Ended(2) = 0
  <2>1. ASSUME NEW t \in Threads PROVE Ended(t) = 0
    <3>1. pos[t] = 0 /\ text[t] \in Seq(BOOLEAN)
      BY <1>1, <1>2, EndedTypes DEF Init, ScanInit
    <3>2. QED
      BY <3>1, NoWordEnds DEF Ended
  <2>2. QED
    BY <2>1 DEF Threads
<1>5. NoLostCount
  BY <1>1, <1>4 DEF NoLostCount, Contribution, Init, Threads
<1>6. QED
  BY <1>2, <1>3, <1>5 DEF IInv

\* Nothing of the scan state moves: neither do its invariants nor the counts.
LEMMA ScanUnchanged ==
  ASSUME ScanTypeOK, ScanInv, UNCHANGED scan
  PROVE  ScanTypeOK' /\ ScanInv' /\ \A t \in Threads : Ended(t)' = Ended(t)
BY DEF scan, ScanTypeOK, ScanInv, Ended

\* No step of main breaks the invariant.
LEMMA MainStepInv == ASSUME IInv, Main PROVE IInv'
<1> USE DEF IInv
<1>0. UNCHANGED scan
  BY DEF Main, Create, Join, PrintTotal
<1>1. ScanTypeOK' /\ ScanInv' /\ \A t \in Threads : Ended(t)' = Ended(t)
  BY <1>0, ScanUnchanged DEF TypeOK
<1>2. pos' = pos /\ text' = text /\ fp' = fp /\ prevc' = prevc
  BY <1>0 DEF scan
<1> USE <1>1, <1>2 DEF Threads, Free
<1>3. ASSUME NEW t \in Threads, NEW at, NEW next, Create(t, at, next),
             <<t, at, next>> \in {<<1, "create1", "create2">>, <<2, "create2", "join1">>}
      PROVE  IInv'
  <2>1. TypeOK'
    BY <1>3 DEF Create, TypeOK
  <2>2. LockInv' /\ FileInv' /\ MainInv'
    BY <1>3 DEF Create, TypeOK, LockInv, FileInv, MainInv, Started, NotEOF, WordEnd, Getc
  <2>3. NoLostCount'
    BY <1>3 DEF Create, TypeOK, NoLostCount, Contribution, LockInv, MainInv, Started
  <2>4. QED
    BY <2>1, <2>2, <2>3
<1>4. ASSUME NEW t \in Threads, NEW at, NEW next, Join(t, at, next),
             <<t, at, next>> \in {<<1, "join1", "join2">>, <<2, "join2", "print">>}
      PROVE  IInv'
  <2>1. TypeOK'
    BY <1>4 DEF Join, TypeOK
  <2>2. LockInv' /\ FileInv' /\ MainInv'
    BY <1>4 DEF Join, TypeOK, LockInv, FileInv, MainInv, Started, NotEOF, WordEnd, Getc
  <2>3. NoLostCount'
    BY <1>4 DEF Join, NoLostCount, Contribution
  <2>4. QED
    BY <2>1, <2>2, <2>3
<1>5. CASE PrintTotal
  <2>1. TypeOK'
    BY <1>5 DEF PrintTotal, TypeOK
  <2>2. LockInv' /\ FileInv' /\ MainInv'
    BY <1>5 DEF PrintTotal, TypeOK, LockInv, FileInv, MainInv, Started, NotEOF, WordEnd, Getc
  <2>3. NoLostCount'
    BY <1>5 DEF PrintTotal, NoLostCount, Contribution
  <2>4. QED
    BY <2>1, <2>2, <2>3
<1>6. QED
  BY <1>3, <1>4, <1>5 DEF Main

\* Nor does a step of a thread.
LEMMA CounterStepInv == ASSUME IInv, NEW t \in Threads, Counter(t) PROVE IInv'
<1> USE DEF IInv, Threads, Free
<1>1. t \in {1, 2} /\ TypeOK /\ ScanTypeOK /\ ScanInv
  BY DEF TypeOK
<1>2. Ended(1) \in Nat /\ Ended(2) \in Nat
  BY <1>1, EndedTypes
<1>3. CASE Open(t)
  <2>1. text' = text /\ pos' = pos /\ prevc' = prevc
    BY <1>3 DEF Open, Fopen, scan
  <2>2. ScanTypeOK' /\ ScanInv'
    BY <1>1, <1>3, <2>1 DEF Open, Fopen, scan, ScanTypeOK, ScanInv, FileInv
  <2>3. Ended(1)' = Ended(1) /\ Ended(2)' = Ended(2)
    BY <2>1 DEF Ended
  <2>4. TypeOK'
    BY <1>3, <2>2 DEF Open, TypeOK
  <2>5. LockInv'
    BY <1>3, <2>1 DEF Open, TypeOK, LockInv, NotEOF, WordEnd, Getc
  <2>6. FileInv'
    BY <1>1, <1>3, <2>1 DEF Open, Fopen, scan, TypeOK, ScanTypeOK, FileInv
  <2>7. MainInv'
    BY <1>3 DEF Open, TypeOK, MainInv, Started
  <2>8. NoLostCount'
    BY <1>3, <2>3 DEF Open, TypeOK, NoLostCount, Contribution
  <2>9. QED
    BY <2>2, <2>4, <2>5, <2>6, <2>7, <2>8
<1>4. CASE Skip(t)
  <2>1. fp[t] = "FILE"
    BY <1>4 DEF Skip, FileInv
  <2>2. /\ ScanTypeOK' /\ ScanInv' /\ Ended(t)' = Ended(t)
        /\ \A u \in Threads \ {t} : Ended(u)' = Ended(u) /\ pos'[u] = pos[u]
    BY <1>1, <1>2, <1>4, <2>1, OneTurn DEF Skip
  <2>3. TypeOK'
    BY <1>4, <2>2 DEF Skip, TypeOK
  <2>4. text' = text /\ fp' = fp /\ \A u \in Threads \ {t} : prevc'[u] = prevc[u]
    BY <1>1, <1>4 DEF Skip, NextChar, ScanTypeOK
  <2>5. LockInv'
    BY <1>4, <2>2, <2>4 DEF Skip, TypeOK, LockInv, NotEOF, WordEnd, Getc
  <2>6. FileInv' /\ MainInv'
    BY <1>4, <2>2, <2>4 DEF Skip, TypeOK, FileInv, MainInv, Started
  <2>7. NoLostCount'
    BY <1>4, <2>2 DEF Skip, NoLostCount, Contribution
  <2>8. QED
    BY <2>2, <2>3, <2>5, <2>6, <2>7
<1>5. CASE Lock(t) \/ Load(t) \/ Store(t) \/ Fclose(t)
  <2>0. UNCHANGED scan
    BY <1>5 DEF Lock, Load, Store, Fclose
  <2>1. text' = text /\ pos' = pos /\ prevc' = prevc /\ fp' = fp
    BY <2>0 DEF scan
  <2>2. ScanTypeOK' /\ ScanInv' /\ Ended(1)' = Ended(1) /\ Ended(2)' = Ended(2)
    BY <1>1, <2>0, ScanUnchanged
  <2>3. TypeOK'
    BY <1>5, <2>2 DEF Lock, Load, Store, Fclose, TypeOK
  <2>4. LockInv'
    BY <1>1, <1>5, <2>1 DEF Lock, Load, Store, Fclose, TypeOK, LockInv, NotEOF, WordEnd, Getc
  <2>5. FileInv'
    <3>1. Len(text[t]) \in Nat /\ pos[t] \in Nat /\ pos[t] <= Len(text[t])
      BY <1>1, EndedTypes DEF ScanInv
    <3>2. QED
      BY <1>5, <2>1, <3>1 DEF Lock, Load, Store, Fclose, TypeOK, FileInv, NotEOF
  <2>6. MainInv'
    BY <1>1, <1>5 DEF Lock, Load, Store, Fclose, TypeOK, MainInv, LockInv, Started
  <2>7. NoLostCount'
    BY <1>1, <1>2, <1>5, <2>2 DEF Lock, Load, Store, Fclose, TypeOK, LockInv, NoLostCount, Contribution
  <2>8. QED
    BY <2>2, <2>3, <2>4, <2>5, <2>6, <2>7
<1>6. CASE Unlock(t)
  <2>1. fp[t] = "FILE" /\ NotEOF(t) /\ WordEnd(t)
    BY <1>6 DEF Unlock, FileInv, LockInv
  <2>2. /\ ScanTypeOK' /\ ScanInv' /\ Ended(t)' = Ended(t) + 1
        /\ \A u \in Threads \ {t} : Ended(u)' = Ended(u) /\ pos'[u] = pos[u]
    BY <1>1, <1>6, <2>1, OneTurn DEF Unlock
  <2>3. TypeOK'
    BY <1>6, <2>2 DEF Unlock, TypeOK
  <2>4. text' = text /\ fp' = fp /\ \A u \in Threads \ {t} : prevc'[u] = prevc[u]
    BY <1>1, <1>6 DEF Unlock, NextChar, ScanTypeOK
  <2>5. LockInv'
    BY <1>6, <2>2, <2>4 DEF Unlock, TypeOK, LockInv, NotEOF, WordEnd, Getc
  <2>6. FileInv' /\ MainInv'
    BY <1>6, <2>2, <2>4 DEF Unlock, TypeOK, FileInv, MainInv, Started
  <2>7. NoLostCount'
    BY <1>2, <1>6, <2>2 DEF Unlock, TypeOK, NoLostCount, Contribution
  <2>8. QED
    BY <2>2, <2>3, <2>5, <2>6, <2>7
<1>7. QED
  BY <1>3, <1>4, <1>5, <1>6 DEF Counter

\* The invariant of twordcount2 is inductive: the holder of counter_lock is the one
\* thread inside total_words++, and total_words is the number of words that ended
\* before the two positions.
LEMMA NextInv == ASSUME IInv, [Next]_vars PROVE IInv'
<1>1. CASE Next
  BY <1>1, MainStepInv, CounterStepInv DEF Next
<1>2. CASE UNCHANGED vars
  <2>1. ScanTypeOK' /\ ScanInv' /\ \A t \in Threads : Ended(t)' = Ended(t)
    BY <1>2, ScanUnchanged DEF vars, IInv, TypeOK
  <2>2. QED
    BY <1>2, <2>1 DEF vars, scan, IInv, TypeOK, LockInv, FileInv, MainInv, Started,
                  NoLostCount, Contribution, NotEOF, WordEnd, Getc, Threads
<1>3. QED
  BY <1>1, <1>2
-----------------------------------------------------------------------------
(* The words that the loop misses.  The words begun before the position of *)
(* a thread are those ended before it, and the one it is in.               *)

\* One more character begins a word exactly when it is alphanumeric and none, or one
\* that is not, stands before it.
LEMMA OneMoreStart ==
  ASSUME NEW s \in Seq(BOOLEAN), NEW n \in Nat, n < Len(s)
  PROVE  /\ IsFiniteSet(WordStarts(s, n)) /\ Cardinality(WordStarts(s, n)) \in Nat
         /\ Cardinality(WordStarts(s, n + 1)) =
              Cardinality(WordStarts(s, n)) + (IF s[n + 1] /\ (n = 0 \/ ~s[n]) THEN 1 ELSE 0)
<1>1. IsFiniteSet(WordStarts(s, n)) /\ Cardinality(WordStarts(s, n)) \in Nat
  <2>1. IsFiniteSet(1..n) /\ WordStarts(s, n) \in SUBSET (1..n)
    BY FS_Interval DEF WordStarts
  <2>2. QED
    BY <2>1, FS_Subset, FS_CardinalityType
<1>2. CASE s[n + 1] /\ (n = 0 \/ ~s[n])
  <2>1. WordStarts(s, n + 1) = WordStarts(s, n) \cup {n + 1}
    BY <1>2 DEF WordStarts
  <2>2. n + 1 \notin WordStarts(s, n)
    BY DEF WordStarts
  <2>3. QED
    BY <1>1, <1>2, <2>1, <2>2, FS_AddElement
<1>3. CASE ~(s[n + 1] /\ (n = 0 \/ ~s[n]))
  <2>1. WordStarts(s, n + 1) = WordStarts(s, n)
    BY <1>3 DEF WordStarts
  <2>2. QED
    BY <1>1, <1>3, <2>1
<1>4. QED
  BY <1>1, <1>2, <1>3

Begun(t) == Cardinality(WordStarts(text[t], pos[t]))
BegunInv == \A t \in Threads : Begun(t) = Ended(t) + (IF prevc[t] THEN 1 ELSE 0)

\* A turn of the loop keeps BegunInv.
LEMMA OneTurnBegun ==
  ASSUME ScanTypeOK, ScanInv, BegunInv, NEW t \in Threads, NotEOF(t), fp[t] = "FILE", NextChar(t)
  PROVE  BegunInv'
<1>1. text[t] \in Seq(BOOLEAN) /\ Len(text[t]) \in Nat /\ pos[t] \in Nat /\ Ended(t) \in Nat
  BY EndedTypes
<1>2. pos[t] < Len(text[t]) /\ text[t][pos[t] + 1] \in BOOLEAN /\ prevc[t] \in BOOLEAN
  BY <1>1 DEF NotEOF, ScanTypeOK
<1>3. /\ Ended(t)' = Ended(t) + (IF WordEnd(t) THEN 1 ELSE 0)
      /\ \A u \in Threads \ {t} : Ended(u)' = Ended(u) /\ pos'[u] = pos[u]
  BY OneTurn
<1>4. pos'[t] = pos[t] + 1 /\ prevc'[t] = Getc(t) /\ text' = text
  BY DEF NextChar, ScanTypeOK
<1>5. \A u \in Threads \ {t} : prevc'[u] = prevc[u]
  BY DEF NextChar, ScanTypeOK
<1>6. \A u \in Threads \ {t} : Begun(u)' = Begun(u)
  BY <1>3, <1>4 DEF Begun
<1>7. Begun(t)' = Begun(t) + (IF Getc(t) /\ ~prevc[t] THEN 1 ELSE 0)
  <2>1. Begun(t)' = Cardinality(WordStarts(text[t], pos[t] + 1))
    BY <1>4 DEF Begun
  <2>2. (text[t][pos[t] + 1] /\ (pos[t] = 0 \/ ~text[t][pos[t]])) <=> (Getc(t) /\ ~prevc[t])
    BY <1>1 DEF Getc, ScanInv
  <2>3. QED
    BY <1>1, <1>2, <2>1, <2>2, OneMoreStart DEF Begun
<1>8. Begun(t)' = Ended(t)' + (IF prevc'[t] THEN 1 ELSE 0)
  BY <1>1, <1>2, <1>3, <1>4, <1>7 DEF BegunInv, WordEnd, Getc
<1>9. QED
  BY <1>3, <1>5, <1>6, <1>8 DEF BegunInv

\* Every step of the program does.
LEMMA BegunStep == ASSUME IInv, BegunInv, [Next]_vars PROVE BegunInv'
<1>1. ScanTypeOK /\ ScanInv /\ LockInv /\ FileInv
  BY DEF IInv, TypeOK
<1>2. ASSUME UNCHANGED <<text, pos, prevc>> PROVE BegunInv'
  BY <1>2 DEF BegunInv, Begun, Ended
<1>3. ASSUME NEW t \in Threads, Skip(t) \/ Unlock(t) PROVE BegunInv'
  <2>1. NextChar(t) /\ fp[t] = "FILE" /\ NotEOF(t)
    BY <1>1, <1>3 DEF Skip, Unlock, LockInv, FileInv
  <2>2. QED
    BY <1>1, <2>1, OneTurnBegun
<1>4. ASSUME NEW t \in Threads, Open(t) \/ Lock(t) \/ Load(t) \/ Store(t) \/ Fclose(t)
      PROVE  UNCHANGED <<text, pos, prevc>>
  BY <1>4 DEF Open, Fopen, Lock, Load, Store, Fclose, scan
<1>5. CASE Main \/ UNCHANGED vars
  BY <1>2, <1>5 DEF Main, Create, Join, PrintTotal, vars, scan
<1>6. QED
  BY <1>2, <1>3, <1>4, <1>5 DEF Next, Counter

\* At the end a thread has contributed the words that have begun, but for one that
\* the end of the file cuts off.
LEMMA FoundContributed ==
  ASSUME IInv, BegunInv, NEW t \in Threads, tpc[t] = "done"
  PROVE  WordsFound(t) = Ended(t) /\ Contribution(t) = Ended(t)
<1>1. ScanTypeOK /\ FileInv /\ ScanInv
  BY DEF IInv, TypeOK
<1>2. text[t] \in Seq(BOOLEAN) /\ Ended(t) \in Nat /\ pos[t] \in Nat
  BY <1>1, EndedTypes
<1>3. Contribution(t) = Ended(t)
  BY <1>2 DEF Contribution
<1>4. CASE fp[t] = "FILE"
  <2>1. pos[t] = Len(text[t])
    BY <1>1, <1>4 DEF FileInv
  <2>2. EndsInWord(text[t], Len(text[t])) <=> prevc[t]
    BY <1>1, <2>1 DEF EndsInWord, ScanInv
  <2>3. Begun(t) = Ended(t) + (IF prevc[t] THEN 1 ELSE 0)
    BY DEF BegunInv
  <2>4. WordsFound(t) = Begun(t) - (IF prevc[t] THEN 1 ELSE 0)
    BY <1>4, <2>1, <2>2 DEF WordsFound, Begun
  <2>5. QED
    BY <1>2, <1>3, <2>3, <2>4
<1>5. CASE fp[t] = "NULL"
  <2>1. pos[t] = 0
    BY <1>1, <1>5 DEF ScanInv
  <2>2. Ended(t) = 0
    BY <1>2, <2>1, NoWordEnds DEF Ended
  <2>3. QED
    BY <1>3, <1>5, <2>2 DEF WordsFound
<1>6. QED
  BY <1>1, <1>4, <1>5 DEF ScanTypeOK

\* It holds when the program starts.
LEMMA BegunInit == Init => BegunInv
<1>1. SUFFICES ASSUME Init, NEW t \in Threads PROVE Begun(t) = Ended(t) + (IF prevc[t] THEN 1 ELSE 0)
  BY DEF BegunInv
<1>2. pos[t] = 0 /\ prevc[t] = FALSE
  BY <1>1 DEF Init, ScanInit
<1>3. text[t] \in Seq(BOOLEAN)
  BY <1>1, InitInv, EndedTypes DEF IInv, TypeOK
<1>4. WordStarts(text[t], 0) = {} /\ Ended(t) = 0
  BY <1>2, <1>3, NoWordEnds DEF WordStarts, Ended
<1>5. QED
  BY <1>2, <1>4, FS_EmptySet DEF Begun

\* What twordcount2 prints is short by one for each file that ends in a word.
LEMMA PrintedShort == IInv /\ BegunInv => LastWordLost
<1>1. SUFFICES ASSUME IInv, BegunInv, pc = "exited"
               PROVE  printed = WordsFound(1) + WordsFound(2)
  BY DEF LastWordLost
<1>2. printed = total_words /\ tpc[1] = "done" /\ tpc[2] = "done"
  BY <1>1 DEF IInv, MainInv
<1>3. total_words = Contribution(1) + Contribution(2)
  BY <1>1 DEF IInv, NoLostCount
<1>4. QED
  BY <1>1, <1>2, <1>3, FoundContributed DEF Threads
-----------------------------------------------------------------------------
(* twordcount2 implements WordTotal: a thread that ends takes the step     *)
(* Count, main's printf is Report, every other step stutters.              *)

\* A count is a number or NotYet, and never both.
LEMMA CountedDef ==
  ASSUME TypeOK
  PROVE  /\ counted \in [Threads -> Nat \cup {NotYet}]
         /\ \A t \in Threads : counted[t] = NotYet <=> tpc[t] # "done"
<1>1. \A t \in Threads : Words[t] \in Nat
  BY EndedTypes DEF TypeOK
<1>2. QED
  BY <1>1, NotYetAssumption DEF counted

\* At the end of its thread a count is what the thread contributed.
LEMMA FinalCount ==
  ASSUME IInv, NEW t \in Threads, tpc[t] = "done"
  PROVE  counted[t] = Contribution(t)
<1>1. ScanTypeOK /\ FileInv /\ ScanInv
  BY DEF IInv, TypeOK
<1>2. Ended(t) \in Nat /\ Words[t] \in Nat /\ text[t] \in Seq(BOOLEAN)
  BY <1>1, EndedTypes
<1>3. Contribution(t) = Ended(t)
  BY <1>2 DEF Contribution
<1>4. CASE fp[t] = "FILE"
  <2>1. pos[t] = Len(text[t])
    BY <1>1, <1>4 DEF FileInv
  <2>2. QED
    BY <1>3, <1>4, <2>1 DEF counted, Ended, Words
<1>5. CASE fp[t] = "NULL"
  <2>1. Ended(t) = 0
    BY <1>1, <1>2, <1>5, NoWordEnds DEF ScanInv, Ended
  <2>2. QED
    BY <1>3, <1>5, <2>1 DEF counted
<1>6. QED
  BY <1>1, <1>4, <1>5 DEF ScanTypeOK

\* Initial states map to initial states.
LEMMA InitRefines == Init => Total!Init
<1>1. SUFFICES ASSUME Init PROVE Total!Init
  OBVIOUS
<1>2. IInv
  BY <1>1, InitInv
<1>3. \A t \in Threads : Words[t] \in Nat
  BY <1>2, EndedTypes DEF IInv, TypeOK
<1>4. Words \in [Threads -> Nat]
  BY <1>3 DEF Words
<1>5. counted = [t \in Threads |-> NotYet] /\ printed = NotYet
  BY <1>1 DEF Init, counted
<1>6. QED
  BY <1>4, <1>5 DEF Total!Init, Total!File, Threads

\* Every step of main maps to Report or to a stutter.
LEMMA MainRefines == ASSUME IInv, Main PROVE Total!Report \/ UNCHANGED Total!vars
<1>1. text' = text /\ fp' = fp
  BY DEF Main, Create, Join, PrintTotal, scan
<1>2. Words' = Words
  BY <1>1 DEF Words
<1>3. ASSUME NEW t \in Threads, NEW at, NEW next,
             \/ Create(t, at, next) /\ pc = at /\ tpc[t] = "none"
             \/ Join(t, at, next)
      PROVE  UNCHANGED Total!vars
  <2>1. printed' = printed
    BY <1>3 DEF Create, Join
  <2>2. \A u \in Threads : tpc'[u] = "done" <=> tpc[u] = "done"
    BY <1>3 DEF Create, Join, IInv, TypeOK
  <2>3. counted' = counted
    BY <1>1, <1>2, <2>2 DEF counted
  <2>4. QED
    BY <1>2, <2>1, <2>3 DEF Total!vars
<1>4. CASE PrintTotal
  <2>1. tpc[1] = "done" /\ tpc[2] = "done" /\ printed = NotYet
    BY <1>4 DEF PrintTotal, IInv, MainInv
  <2>2. total_words = counted[1] + counted[2]
    BY <2>1, FinalCount DEF IInv, NoLostCount, Threads
  <2>3. counted[1] # NotYet /\ counted[2] # NotYet
    BY <2>1, CountedDef DEF IInv, Threads
  <2>4. counted' = counted
    BY <1>1, <1>2, <1>4 DEF PrintTotal, counted
  <2>5. QED
    BY <1>2, <1>4, <2>1, <2>2, <2>3, <2>4 DEF PrintTotal, Total!Report, Total!File
<1>5. CASE Create(1, "create1", "create2") \/ Create(2, "create2", "join1")
  BY <1>3, <1>5 DEF Create, IInv, MainInv, Started, Threads
<1>6. CASE Join(1, "join1", "join2") \/ Join(2, "join2", "print")
  BY <1>3, <1>6 DEF Threads
<1>7. QED
  BY <1>4, <1>5, <1>6 DEF Main

\* The last step of thread t maps to Count(t), its other steps to stutters.
LEMMA CounterRefines ==
  ASSUME IInv, NEW t \in Threads, Counter(t)
  PROVE  Total!Count(t) \/ UNCHANGED Total!vars
<1>1. text' = text /\ printed' = printed
  BY DEF Counter, Open, Fopen, Skip, Lock, Load, Store, Unlock, Fclose, NextChar, scan
<1>2. Words' = Words
  BY <1>1 DEF Words
<1>3. \A u \in Threads \ {t} : fp'[u] = fp[u] /\ tpc'[u] = tpc[u]
  BY DEF Counter, Open, Fopen, Skip, Lock, Load, Store, Unlock, Fclose, NextChar, scan,
         IInv, TypeOK, ScanTypeOK
<1>4. \A u \in Threads \ {t} : counted'[u] = counted[u]
  BY <1>2, <1>3 DEF counted
<1>5. tpc[t] # "done" /\ counted[t] = NotYet
  BY DEF Counter, Open, Skip, Lock, Load, Store, Unlock, Fclose, counted
<1>6. CASE tpc'[t] # "done"
  <2>1. counted'[t] = NotYet
    BY <1>6 DEF counted
  <2>2. counted' = counted
    BY <1>4, <1>5, <2>1 DEF counted
  <2>3. QED
    BY <1>1, <1>2, <2>2 DEF Total!vars
<1>7. CASE tpc'[t] = "done"
  <2>1. counted'[t] \in {0, Words[t]}
    BY <1>2, <1>7 DEF counted
  <2>2. counted' = [counted EXCEPT ![t] = counted'[t]]
    BY <1>4 DEF counted
  <2>3. QED
    BY <1>1, <1>2, <1>5, <2>1, <2>2 DEF Total!Count
<1>8. QED
  BY <1>6, <1>7

\* Every step of twordcount2 is one of WordTotal, or a stutter.
LEMMA NextRefines == ASSUME IInv, [Next]_vars PROVE [Total!Next]_(Total!vars)
<1>1. CASE Main
  BY <1>1, MainRefines DEF Total!Next
<1>2. CASE \E t \in Threads : Counter(t)
  BY <1>2, CounterRefines DEF Total!Next, Total!File, Threads
<1>3. CASE UNCHANGED vars
  BY <1>3 DEF vars, scan, Total!vars, counted, Words
<1>4. QED
  BY <1>1, <1>2, <1>3 DEF Next
-----------------------------------------------------------------------------
(* twordcount3: a thread's count is the number of words that ended before  *)
(* its position, at every step, and main adds counts that are final.       *)

\* The steps of a thread in its file are those of CountWords.
LEMMA SameScan3 ==
  ASSUME NEW t \in Threads
  PROVE  /\ Three!Threads = Threads /\ Three!Words = Words /\ Three!scan = scan
         /\ (Three!NotEOF(t) <=> NotEOF(t)) /\ (Three!WordEnd(t) <=> WordEnd(t))
         /\ (Three!NextChar(t) <=> NextChar(t)) /\ (Three!Fopen(t) <=> Fopen(t))
<1>1. Three!Threads = Threads /\ Three!Words = Words /\ Three!scan = scan
  <2>1. Three!Threads = Threads /\ Three!scan = scan
    BY DEF Three!Threads, Three!scan, Threads, scan
  <2>2. ASSUME NEW s, NEW n PROVE Three!WordEnds(s, n) = WordEnds(s, n)
    BY DEF Three!WordEnds, WordEnds
  <2>3. Three!Words = Words
    <3>1. ASSUME NEW S PROVE Three!Cardinality(S) = Cardinality(S)
      BY DEF Three!Cardinality, Cardinality
    <3>2. QED
      BY <2>1, <2>2, <3>1, Zenon DEF Three!Words, Words
  <2>4. QED
    BY <2>1, <2>3
<1>2. (Three!NotEOF(t) <=> NotEOF(t)) /\ (Three!WordEnd(t) <=> WordEnd(t))
  BY DEF Three!NotEOF, Three!WordEnd, Three!Getc, NotEOF, WordEnd, Getc
<1>3. (Three!NextChar(t) <=> NextChar(t)) /\ (Three!Fopen(t) <=> Fopen(t))
  BY DEF Three!NextChar, Three!Fopen, Three!Getc, NextChar, Fopen, Getc
<1>4. QED
  BY <1>1, <1>2, <1>3

\* The loop of count_words in a program that counts in cnt: threads are at the
\* steps that at tells, which are before the loop, in it or behind it.
CountInv(at, cnt, before, behind) ==
  /\ ScanTypeOK /\ ScanInv
  /\ \A t \in Threads :
       /\ cnt[t] = Ended(t)
       /\ at[t] \in before => fp[t] = "NULL"
       /\ at[t] = "getc" => fp[t] = "FILE"
       /\ at[t] \in behind /\ fp[t] = "FILE" => pos[t] = Len(text[t])

Inv3 ==
  /\ main3 \in {"create1", "create2", "join1", "join2", "print", "exited"}
  /\ threads3 \in [Threads -> {"none", "fopen", "getc", "done"}]
  /\ args3 \in [Threads -> Nat]
  /\ CountInv(threads3, args3, {"none", "fopen"}, {"done"})
  /\ threads3[1] # "none" <=> main3 # "create1"
  /\ threads3[2] # "none" <=> main3 \notin {"create1", "create2"}
  /\ main3 \in {"join2", "print", "exited"} => threads3[1] = "done"
  /\ main3 \in {"print", "exited"} => threads3[2] = "done"
  /\ main3 # "exited" => printed3 = NotYet

\* A count behind the loop is the number of words of the file, or nothing was read.
LEMMA CountFinal ==
  ASSUME NEW at, NEW cnt, NEW before, NEW behind, CountInv(at, cnt, before, behind),
         NEW t \in Threads, at[t] \in behind
  PROVE  cnt[t] \in {0, Words[t]} /\ cnt[t] \in Nat
<1>1. ScanTypeOK /\ ScanInv /\ cnt[t] = Ended(t)
  BY DEF CountInv
<1>2. Ended(t) \in Nat /\ text[t] \in Seq(BOOLEAN)
  BY <1>1, EndedTypes
<1>3. CASE fp[t] = "FILE"
  <2>1. pos[t] = Len(text[t])
    BY <1>3 DEF CountInv
  <2>2. QED
    BY <1>1, <1>2, <2>1 DEF Ended, Words
<1>4. CASE fp[t] = "NULL"
  <2>1. pos[t] = 0
    BY <1>1, <1>4 DEF ScanInv
  <2>2. QED
    BY <1>1, <1>2, <2>1, NoWordEnds DEF Ended
<1>5. QED
  BY <1>1, <1>3, <1>4 DEF ScanTypeOK

\* Before the loop a count is 0.
LEMMA CountNone ==
  ASSUME NEW at, NEW cnt, NEW before, NEW behind, CountInv(at, cnt, before, behind),
         NEW t \in Threads, at[t] \in before
  PROVE  cnt[t] = 0
<1>1. ScanTypeOK /\ ScanInv /\ cnt[t] = Ended(t) /\ fp[t] = "NULL"
  BY DEF CountInv
<1>2. pos[t] = 0 /\ text[t] \in Seq(BOOLEAN)
  BY <1>1, EndedTypes DEF ScanInv
<1>3. QED
  BY <1>1, <1>2, NoWordEnds DEF Ended

\* The files as main finds them, in which nothing has been counted.
LEMMA CountStart ==
  ASSUME ScanInit, NEW at, NEW before, NEW behind, NEW cnt,
         \A t \in Threads : cnt[t] = 0 /\ at[t] # "getc" /\ at[t] \notin behind
  PROVE  CountInv(at, cnt, before, behind)
<1>1. ScanTypeOK
  BY DEF ScanInit, ScanTypeOK
<1>2. \A t \in Threads : text[t] \in Seq(BOOLEAN) /\ Len(text[t]) \in Nat
  BY <1>1, EndedTypes
<1>3. ScanInv
  BY <1>2 DEF ScanInit, ScanInv
<1>4. \A t \in Threads : Ended(t) = 0
  BY <1>2, NoWordEnds DEF ScanInit, Ended
<1>5. QED
  BY <1>1, <1>3, <1>4 DEF CountInv, ScanInit

\* Where no thread reads a character, what has been counted stays counted.
LEMMA CountUnread ==
  ASSUME NEW at, NEW cnt, NEW before, NEW behind, CountInv(at, cnt, before, behind),
         UNCHANGED <<text, pos, prevc>>, fp' \in [Threads -> {"NULL", "FILE"}],
         \A u \in Threads : fp'[u] = "NULL" => fp[u] = "NULL"
  PROVE  ScanTypeOK' /\ ScanInv' /\ \A u \in Threads : Ended(u)' = cnt[u]
<1>1. ScanTypeOK /\ ScanInv /\ \A u \in Threads : Ended(u) = cnt[u]
  BY DEF CountInv
<1>2. ScanTypeOK'
  BY <1>1 DEF ScanTypeOK
<1>3. ScanInv'
  BY <1>1 DEF ScanInv
<1>4. QED
  BY <1>1, <1>2, <1>3 DEF Ended

\* twordcount3 starts in its invariant.
LEMMA Init3 == Three!Init => Inv3
<1>1. SUFFICES ASSUME Three!Init PROVE Inv3
  OBVIOUS
<1>2. ScanInit
  BY <1>1 DEF Three!Init, Three!ScanInit, Three!Threads, ScanInit, Threads
<1>3. CountInv(threads3, args3, {"none", "fopen"}, {"done"})
  BY <1>1, <1>2, CountStart DEF Three!Init, Three!Threads, Threads
<1>4. QED
  BY <1>1, <1>3 DEF Three!Init, Three!Threads, Threads, Inv3

\* Main of twordcount3 keeps it.
LEMMA Main3 == ASSUME Inv3, Three!Main PROVE Inv3' /\ UNCHANGED scan
<1> USE DEF Inv3, Threads
<1>0. UNCHANGED scan
  BY DEF Three!Main, Three!Create, Three!Join, Three!PrintTotal, Three!scan, scan
<1>1. ScanTypeOK' /\ ScanInv' /\ \A u \in Threads : Ended(u)' = args3[u]
  BY <1>0, ScanUnchanged DEF CountInv
<1>2. fp' = fp /\ pos' = pos /\ text' = text
  BY <1>0 DEF scan
<1>3. ASSUME NEW t \in Threads, NEW at, NEW next, Three!Create(t, at, next),
             <<t, at, next>> \in {<<1, "create1", "create2">>, <<2, "create2", "join1">>}
      PROVE  Inv3'
  <2>1. threads3[t] = "none"
    BY <1>3 DEF Three!Create
  <2>2. args3[t] = 0
    BY <2>1, CountNone
  <2>3. args3' = args3
    BY <1>3, <2>2 DEF Three!Create
  <2>4. CountInv(threads3, args3, {"none", "fopen"}, {"done"})'
    BY <1>1, <1>2, <1>3, <2>1, <2>3 DEF Three!Create, CountInv
  <2>5. QED
    BY <1>3, <2>3, <2>4 DEF Three!Create
<1>4. ASSUME NEW t \in Threads, NEW at, NEW next, Three!Join(t, at, next),
             <<t, at, next>> \in {<<1, "join1", "join2">>, <<2, "join2", "print">>}
      PROVE  Inv3'
  <2>1. CountInv(threads3, args3, {"none", "fopen"}, {"done"})'
    BY <1>1, <1>2, <1>4 DEF Three!Join, CountInv
  <2>2. QED
    BY <1>4, <2>1 DEF Three!Join
<1>5. CASE Three!PrintTotal
  <2>1. CountInv(threads3, args3, {"none", "fopen"}, {"done"})'
    BY <1>1, <1>2, <1>5 DEF Three!PrintTotal, CountInv
  <2>2. QED
    BY <1>0, <1>5, <2>1 DEF Three!PrintTotal
<1>6. QED
  BY <1>0, <1>3, <1>4, <1>5 DEF Three!Main

\* So does every thread.
LEMMA Counter3 == ASSUME Inv3, NEW t \in Threads, Three!Counter(t) PROVE Inv3'
<1> USE DEF Inv3, Threads
<1>1. CASE Three!Open(t)
  <2>1. UNCHANGED <<text, pos, prevc>> /\ fp' \in [Threads -> {"NULL", "FILE"}]
    BY <1>1, SameScan3 DEF Three!Open, Three!scan, Fopen, CountInv, ScanTypeOK
  <2>2. fp[t] = "NULL" /\ \A u \in Threads \ {t} : fp'[u] = fp[u]
    BY <1>1, SameScan3 DEF Three!Open, Three!scan, Fopen, CountInv, ScanTypeOK
  <2>3. ScanTypeOK' /\ ScanInv' /\ \A u \in Threads : Ended(u)' = args3[u]
    BY <2>1, <2>2, CountUnread
  <2>4. \/ fp'[t] = "FILE" /\ threads3' = [threads3 EXCEPT ![t] = "getc"]
        \/ fp'[t] = "NULL" /\ threads3' = [threads3 EXCEPT ![t] = "done"]
    BY <1>1, <2>2, SameScan3 DEF Three!Open, Three!scan, Fopen, CountInv, ScanTypeOK
  <2>5. CountInv(threads3, args3, {"none", "fopen"}, {"done"})'
    BY <1>1, <2>1, <2>2, <2>3, <2>4 DEF Three!Open, CountInv
  <2>6. QED
    BY <1>1, <2>4, <2>5 DEF Three!Open
<1>2. CASE Three!Scan(t)
  <2>1. NotEOF(t) /\ NextChar(t) /\ fp[t] = "FILE" /\ ScanTypeOK /\ ScanInv
    BY <1>2, SameScan3 DEF Three!Scan, CountInv
  <2>2. /\ ScanTypeOK' /\ ScanInv'
        /\ Ended(t)' = Ended(t) + (IF WordEnd(t) THEN 1 ELSE 0)
        /\ \A u \in Threads \ {t} : Ended(u)' = Ended(u) /\ pos'[u] = pos[u]
    BY <2>1, OneTurn
  <2>3. args3' = [args3 EXCEPT ![t] = IF WordEnd(t) THEN @ + 1 ELSE @]
    BY <1>2, SameScan3 DEF Three!Scan
  <2>4. \A u \in Threads : args3'[u] = Ended(u)'
    BY <2>2, <2>3 DEF CountInv
  <2>5. UNCHANGED <<main3, threads3, printed3, text, fp>>
    BY <1>2, <2>1 DEF Three!Scan, NextChar
  <2>6. threads3[t] = "getc"
    BY <1>2 DEF Three!Scan
  <2>7. CountInv(threads3, args3, {"none", "fopen"}, {"done"})'
    BY <2>2, <2>4, <2>5, <2>6 DEF CountInv
  <2>8. QED
    BY <2>3, <2>5, <2>7
<1>3. CASE Three!Fclose(t)
  <2>1. UNCHANGED scan /\ threads3' = [threads3 EXCEPT ![t] = "done"] /\ ~NotEOF(t)
    BY <1>3, SameScan3 DEF Three!Fclose, Three!scan, scan
  <2>2. ScanTypeOK' /\ ScanInv' /\ \A u \in Threads : Ended(u)' = args3[u]
    BY <2>1, ScanUnchanged DEF CountInv
  <2>3. pos[t] = Len(text[t])
    <3>1. Len(text[t]) \in Nat /\ pos[t] \in Nat /\ pos[t] <= Len(text[t])
      BY EndedTypes DEF CountInv, ScanInv
    <3>2. QED
      BY <2>1, <3>1 DEF NotEOF
  <2>4. CountInv(threads3, args3, {"none", "fopen"}, {"done"})'
    BY <1>3, <2>1, <2>2, <2>3 DEF Three!Fclose, CountInv, scan
  <2>5. QED
    BY <1>3, <2>1, <2>4 DEF Three!Fclose
<1>4. QED
  BY <1>1, <1>2, <1>3 DEF Three!Counter

\* A thread of twordcount3 that has ended has counted its file, or not opened it; and
\* so it has in the next state.
Final3 == \A t \in Threads : threads3[t] = "done" => args3[t] \in {0, Words[t]}

LEMMA Counted3 == (Inv3 => Final3) /\ (Inv3' => Final3')
<1>1. Inv3 => Final3
  BY CountFinal DEF Inv3, Final3
<1>2. QED
  BY <1>1, PTL

\* Every step of twordcount3 keeps the invariant and is one of WordTotal, or a
\* stutter: a thread that ends is Count, main's printf is Report.
LEMMA Step3 == ASSUME Inv3, Three!Next PROVE Inv3' /\ [Three!Total!Next]_(Three!Total!vars)
<1> USE DEF Three!Total!vars, Three!counted, Three!Threads, Threads
<1>1. CASE Three!Main
  <2>1. Inv3' /\ UNCHANGED scan
    BY <1>1, Main3
  <2>2. UNCHANGED Three!Words
    BY <2>1 DEF scan, Three!Words
  <2>3. CASE UNCHANGED <<threads3, printed3>>
    <3>1. \A t \in Threads : threads3[t] = "done" => args3'[t] = args3[t]
      BY <1>1, <2>3 DEF Three!Main, Three!Create, Three!Join, Three!PrintTotal, Inv3, Threads
    <3>2. Three!counted' = Three!counted
      BY <2>3, <3>1
    <3>3. QED
      BY <2>1, <2>2, <2>3, <3>2
  <2>4. CASE Three!PrintTotal
    <3>1. \A t \in Threads : threads3[t] = "done" /\ args3[t] # NotYet
      BY <2>4, NotYetAssumption DEF Three!PrintTotal, Inv3, Threads
    <3>2. UNCHANGED Three!counted
      BY <2>4 DEF Three!PrintTotal
    <3>3. Three!Total!Report
      BY <2>2, <2>4, <3>1, <3>2 DEF Three!Total!Report, Three!Total!File, Three!PrintTotal, Inv3, Threads
    <3>4. QED
      BY <2>1, <3>3 DEF Three!Total!Next
  <2>5. ASSUME NEW t \in Threads, NEW at, NEW next, Three!Create(t, at, next), threads3[t] = "none"
        PROVE  UNCHANGED <<Three!Words, Three!counted, printed3>>
    <3>1. \A u \in Threads : threads3'[u] = "done" <=> threads3[u] = "done"
      BY <2>5 DEF Three!Create, Inv3
    <3>2. \A u \in Threads : threads3[u] = "done" => args3'[u] = args3[u]
      BY <2>5 DEF Three!Create, Inv3
    <3>3. UNCHANGED Three!counted
      BY <3>1, <3>2
    <3>4. QED
      BY <2>2, <2>5, <3>3 DEF Three!Create
  <2>6. CASE Three!Create(1, "create1", "create2") \/ Three!Create(2, "create2", "join1")
    BY <2>1, <2>5, <2>6 DEF Three!Create, Inv3, Threads
  <2>7. CASE Three!Join(1, "join1", "join2") \/ Three!Join(2, "join2", "print")
    BY <2>3, <2>7 DEF Three!Join
  <2>8. QED
    BY <1>1, <2>4, <2>6, <2>7 DEF Three!Main
<1>2. ASSUME NEW t \in Threads, Three!Counter(t)
      PROVE  Inv3' /\ [Three!Total!Next]_(Three!Total!vars)
  <2>1. Inv3'
    BY <1>2, Counter3
  <2>2. UNCHANGED <<text, printed3>>
    BY <1>2, SameScan3 DEF Three!Counter, Three!Open, Three!Scan, Three!Fclose, Three!scan, Fopen, NextChar
  <2>3. UNCHANGED <<Words, Three!Words>>
    BY <2>2 DEF Words, Three!Words
  <2>4. threads3[t] # "done" /\ \A u \in Threads \ {t} : threads3'[u] = threads3[u] /\ args3'[u] = args3[u]
    BY <1>2 DEF Three!Counter, Three!Open, Three!Scan, Three!Fclose, Inv3
  <2>5. CASE threads3'[t] # "done"
    <3>1. UNCHANGED Three!counted
      BY <2>4, <2>5
    <3>2. QED
      BY <2>1, <2>2, <2>3, <3>1
  <2>6. CASE threads3'[t] = "done"
    <3>1. args3'[t] \in {0, Words'[t]}
      BY <2>1, <2>6, Counted3 DEF Final3
    <3>2. Three!counted[t] = NotYet /\ Three!counted' = [Three!counted EXCEPT ![t] = args3'[t]]
      BY <2>4, <2>6
    <3>3. Three!Total!Count(t)
      BY <2>2, <2>3, <3>1, <3>2, SameScan3 DEF Three!Total!Count
    <3>4. QED
      BY <2>1, <3>3 DEF Three!Total!Next, Three!Total!File, Threads
  <2>7. QED
    BY <2>5, <2>6
<1>3. QED
  BY <1>1, <1>2, SameScan3 DEF Three!Next, Three!Threads, Threads
-----------------------------------------------------------------------------
(* twordcount4: the mutex has one holder, a thread that waits does so      *)
(* because the other has reported, and a woken thread finds the mailbox    *)
(* empty, unless pthread_cond_wait has returned without a signal.          *)

MainHolds == {"create1", "create2", "loop", "tally", "join1", "join2", "clear", "exited", "crashed"}
ThreadHolds == {"check", "post", "unlock"}
Behind == {"lock", "check", "wait", "relock", "post", "unlock", "done"}
Reported == {"unlock", "done"}

Steps == MainHolds \cup Behind \cup {"start", "none", "fopen", "getc"}

Types4 == /\ pcs \in [{0, 1, 2} -> Steps]
          /\ pcs[0] \in MainHolds \cup {"start", "wait", "relock"}
          /\ \A t \in Threads : pcs[t] \in Behind \cup {"none", "fopen", "getc"}
          /\ lock \in {-1, 0, 1, 2} /\ mailbox \in {0, 1, 2}
          /\ count \in [Threads -> Nat] /\ reports_in \in 0..2
          /\ joined \subseteq Threads /\ spurious \in BOOLEAN

Holder4 == /\ lock = 0 <=> pcs[0] \in MainHolds
           /\ \A t \in Threads : lock = t <=> pcs[t] \in ThreadHolds

\* A thread that waits, or has waited, found the report of the other.
Mail4 == \A t \in Threads :
           /\ mailbox = t => pcs[t] \in Reported
           /\ pcs[t] \in {"wait", "relock"} => \A u \in Threads \ {t} : pcs[u] \in Reported
           /\ ~spurious /\ pcs[t] \in {"relock", "post"} => mailbox = 0

\* Main joins t2 for every report, and t1 for the second at the latest.
Joins4 == /\ pcs[1] = "none" <=> pcs[0] \in {"start", "create1"}
          /\ pcs[2] = "none" <=> pcs[0] \in {"start", "create1", "create2"}
          /\ \A t \in joined : pcs[t] = "done"
          /\ reports_in > 0 \/ pcs[0] = "clear" => 2 \in joined
          /\ reports_in > 0 => mailbox # 2
          /\ reports_in = 1 /\ pcs[0] \in {"join2", "clear"} => 1 \in joined
          /\ reports_in = 2 => 1 \in joined /\ pcs[0] \in {"loop", "exited"}
          /\ pcs[0] # "exited" => printed4 = NotYet

Inv4 == /\ Types4 /\ Holder4 /\ Mail4 /\ Joins4
        /\ CountInv(pcs, count, {"none", "fopen"}, Behind)

\* The steps of a thread in its file are those of CountWords in twordcount4, too.
LEMMA SameScan4 ==
  ASSUME NEW t \in Threads
  PROVE  /\ Four!Threads = Threads /\ Four!Words = Words /\ Four!scan = scan
         /\ (Four!NotEOF(t) <=> NotEOF(t)) /\ (Four!WordEnd(t) <=> WordEnd(t))
         /\ (Four!NextChar(t) <=> NextChar(t)) /\ (Four!Fopen(t) <=> Fopen(t))
<1>1. Four!Threads = Threads /\ Four!Words = Words /\ Four!scan = scan
  <2>1. Four!Threads = Threads /\ Four!scan = scan
    BY DEF Four!Threads, Four!scan, Threads, scan
  <2>2. ASSUME NEW s, NEW n PROVE Four!WordEnds(s, n) = WordEnds(s, n)
    BY DEF Four!WordEnds, WordEnds
  <2>3. Four!Words = Words
    <3>1. ASSUME NEW S PROVE Four!Cardinality(S) = Cardinality(S)
      BY DEF Four!Cardinality, Cardinality
    <3>2. QED
      BY <2>1, <2>2, <3>1, Zenon DEF Four!Words, Words
  <2>4. QED
    BY <2>1, <2>3
<1>2. (Four!NotEOF(t) <=> NotEOF(t)) /\ (Four!WordEnd(t) <=> WordEnd(t))
  BY DEF Four!NotEOF, Four!WordEnd, Four!Getc, NotEOF, WordEnd, Getc
<1>3. (Four!NextChar(t) <=> NextChar(t)) /\ (Four!Fopen(t) <=> Fopen(t))
  BY DEF Four!NextChar, Four!Fopen, Four!Getc, NextChar, Fopen, Getc
<1>4. QED
  BY <1>1, <1>2, <1>3

\* twordcount4 starts in its invariant.
LEMMA Init4 == Four!Init => Inv4
<1>1. SUFFICES ASSUME Four!Init PROVE Inv4
  OBVIOUS
<1> USE DEF Four!Init, Four!Threads, Four!Procs, Four!Main, Four!Free, Four!NULL, Threads
<1>2. ScanInit
  BY <1>1 DEF Four!ScanInit, ScanInit
<1>3. CountInv(pcs, count, {"none", "fopen"}, Behind)
  BY <1>1, <1>2, CountStart DEF Behind
<1>4. pcs[0] = "start" /\ pcs[1] = "none" /\ pcs[2] = "none"
  BY <1>1
<1>5. Types4
  <2>1. Four!Procs = {0, 1, 2}
    OBVIOUS
  <2>2. pcs \in [{0, 1, 2} -> Steps]
    BY <1>1, <2>1 DEF Steps
  <2>3. spurious \in BOOLEAN /\ joined \subseteq Threads
    BY <1>1, Zenon
  <2>4. count \in [Threads -> Nat]
    BY <1>1
  <2>5. QED
    BY <1>1, <1>4, <2>2, <2>3, <2>4 DEF Types4
<1>6. Holder4 /\ Mail4 /\ Joins4
  BY <1>1, <1>4 DEF Holder4, Mail4, Joins4, MainHolds, ThreadHolds
<1>7. QED
  BY <1>3, <1>5, <1>6 DEF Inv4

\* A step that leaves files and counts alone, and every thread before, in or behind
\* its loop, leaves the counts right.
LEMMA CountKept ==
  ASSUME CountInv(pcs, count, {"none", "fopen"}, Behind), UNCHANGED <<scan, count>>,
         \A t \in Threads : \/ pcs'[t] = pcs[t]
                            \/ {pcs[t], pcs'[t]} \subseteq {"none", "fopen"}
                            \/ {pcs[t], pcs'[t]} \subseteq Behind
  PROVE  CountInv(pcs, count, {"none", "fopen"}, Behind)'
<1>1. ScanTypeOK' /\ ScanInv' /\ \A u \in Threads : Ended(u)' = count'[u]
  BY ScanUnchanged DEF CountInv
<1>2. fp' = fp /\ pos' = pos /\ text' = text
  BY DEF scan
<1>3. QED
  BY <1>1, <1>2 DEF CountInv, Behind

\* Main of twordcount4 keeps the invariant.
LEMMA Main4 == ASSUME Inv4, Four!MainStep, Four!Alive PROVE Inv4' /\ UNCHANGED scan
<1> USE DEF Inv4, Four!Threads, Four!Procs, Four!Main, Four!Free, Four!NULL, Threads,
            Four!Goto, Four!Acquire
<1>0. UNCHANGED scan
  BY DEF Four!MainStep, Four!MainLock, Four!Create, Four!MainWait, Four!MainWake, Four!Tally,
         Four!Join, Four!Clear, Four!PrintTotal, Four!scan, scan
<1>1. ASSUME UNCHANGED count,
             \A t \in Threads : \/ pcs'[t] = pcs[t]
                                \/ {pcs[t], pcs'[t]} \subseteq {"none", "fopen"}
                                \/ {pcs[t], pcs'[t]} \subseteq Behind
      PROVE  CountInv(pcs, count, {"none", "fopen"}, Behind)'
  BY <1>0, <1>1, CountKept
<1> USE DEF Types4, Holder4, Mail4, Joins4, Steps, MainHolds, ThreadHolds, Behind, Reported
<1>2. CASE Four!MainLock \/ Four!MainWait \/ Four!MainWake \/ Four!Tally \/ Four!PrintTotal
  <2>1. \A t \in Threads : pcs'[t] = pcs[t]
    BY <1>2 DEF Four!MainLock, Four!MainWait, Four!MainWake, Four!Tally, Four!PrintTotal, Four!CondWait
  <2>2. CountInv(pcs, count, {"none", "fopen"}, Behind)'
    BY <1>1, <1>2, <2>1 DEF Four!MainLock, Four!MainWait, Four!MainWake, Four!Tally, Four!PrintTotal
  <2>3. CASE Four!MainLock
    BY <1>0, <2>1, <2>2, <2>3 DEF Four!MainLock
  <2>4. CASE Four!MainWait
    BY <1>0, <2>1, <2>2, <2>4 DEF Four!MainWait, Four!CondWait
  <2>5. CASE Four!MainWake
    BY <1>0, <2>1, <2>2, <2>5 DEF Four!MainWake
  <2>6. CASE Four!Tally
    BY <1>0, <2>1, <2>2, <2>6 DEF Four!Tally
  <2>7. CASE Four!PrintTotal
    BY <1>0, <2>1, <2>2, <2>7 DEF Four!PrintTotal
  <2>8. QED
    BY <1>0, <1>2, <2>2, <2>3, <2>4, <2>5, <2>6, <2>7
<1>3. ASSUME NEW t \in Threads, NEW at, NEW next, Four!Create(t, at, next),
             <<t, at, next>> \in {<<1, "create1", "create2">>, <<2, "create2", "loop">>}
      PROVE  Inv4'
  <2>1. pcs[t] = "none" /\ pcs' = [pcs EXCEPT ![0] = next, ![t] = "fopen"]
    BY <1>3 DEF Four!Create
  <2>2. count' = count
    BY <1>3, <2>1, CountNone DEF Four!Create
  <2>3. CountInv(pcs, count, {"none", "fopen"}, Behind)'
    BY <1>1, <2>1, <2>2
  <2>4. QED
    BY <1>3, <2>1, <2>2, <2>3 DEF Four!Create
<1>4. ASSUME NEW t \in Threads, NEW at, NEW next, Four!Join(t, at, next),
             <<t, at, next>> \in {<<1, "join1", "join2">>, <<2, "join2", "clear">>}
      PROVE  Inv4'
  <2>1. \A u \in Threads : pcs'[u] = pcs[u]
    BY <1>4 DEF Four!Join
  <2>2. CountInv(pcs, count, {"none", "fopen"}, Behind)'
    BY <1>1, <1>4, <2>1 DEF Four!Join
  <2>3. pcs[0] = at /\ pcs' = [pcs EXCEPT ![0] = pcs'[0]] /\ pcs'[0] \in {next, "crashed"}
    BY <1>4 DEF Four!Join
  <2>4. joined' = joined \cup {t} /\ pcs[t] = "done"
    BY <1>4 DEF Four!Join
  <2>5. UNCHANGED <<lock, mailbox, count, reports_in, printed4, spurious>>
    BY <1>4 DEF Four!Join
  <2>6. Types4' /\ Holder4' /\ Mail4'
    BY <1>4, <2>3, <2>4, <2>5
  <2>7. Joins4'
    BY <1>4, <2>3, <2>4, <2>5
  <2>8. QED
    BY <2>2, <2>6, <2>7
<1>5. CASE Four!Clear
  <2>1. pcs[0] = "clear" /\ mailbox' = 0 /\ reports_in' = reports_in + 1 /\ pcs'[0] = "loop"
    BY <1>5 DEF Four!Clear, Four!Signal
  <2>2. \A t \in Threads : pcs'[t] = pcs[t] \/ (pcs[t] = "wait" /\ pcs'[t] = "relock")
    BY <1>5 DEF Four!Clear, Four!Signal
  <2>3. UNCHANGED <<lock, count, joined, printed4, spurious>>
    BY <1>5 DEF Four!Clear
  <2>4. CountInv(pcs, count, {"none", "fopen"}, Behind)'
    BY <1>1, <2>2, <2>3
  <2>5. Types4'
    BY <1>5, <2>1, <2>2, <2>3 DEF Four!Clear, Four!Signal
  <2>6. Holder4' /\ Mail4' /\ Joins4'
    BY <2>1, <2>2, <2>3
  <2>7. QED
    BY <1>0, <2>4, <2>5, <2>6
<1>6. QED
  BY <1>0, <1>2, <1>3, <1>4, <1>5 DEF Four!MainStep

\* So does a thread.
LEMMA Counter4 == ASSUME Inv4, NEW t \in Threads, Four!Counter(t) PROVE Inv4'
<1> USE DEF Inv4, Four!Threads, Four!Procs, Four!Main, Four!Free, Four!NULL, Threads,
            Four!Goto, Four!Acquire
<1> USE DEF Types4, Holder4, Mail4, Joins4, Steps, MainHolds, ThreadHolds, Behind, Reported
<1>1. ASSUME UNCHANGED <<scan, count>>,
             \A u \in Threads : pcs'[u] = pcs[u] \/ {pcs[u], pcs'[u]} \subseteq Behind
      PROVE  CountInv(pcs, count, {"none", "fopen"}, Behind)'
  BY <1>1, CountKept
<1>2. CASE Four!Open(t)
  <2>1. UNCHANGED <<text, pos, prevc>> /\ fp' \in [Threads -> {"NULL", "FILE"}]
    BY <1>2, SameScan4 DEF Four!Open, Four!scan, Fopen, CountInv, ScanTypeOK
  <2>2. fp[t] = "NULL" /\ \A u \in Threads \ {t} : fp'[u] = fp[u]
    BY <1>2, SameScan4 DEF Four!Open, Four!scan, Fopen, CountInv, ScanTypeOK
  <2>3. ScanTypeOK' /\ ScanInv' /\ \A u \in Threads : Ended(u)' = count[u]
    BY <2>1, <2>2, CountUnread
  <2>4. \/ fp'[t] = "FILE" /\ pcs' = [pcs EXCEPT ![t] = "getc"]
        \/ fp'[t] = "NULL" /\ pcs' = [pcs EXCEPT ![t] = "lock"]
    BY <1>2, <2>2, SameScan4 DEF Four!Open, Four!scan, Fopen, CountInv, ScanTypeOK
  <2>5. CountInv(pcs, count, {"none", "fopen"}, Behind)'
    BY <1>2, <2>1, <2>2, <2>3, <2>4 DEF Four!Open, CountInv
  <2>6. QED
    BY <1>2, <2>4, <2>5 DEF Four!Open
<1>3. CASE Four!Scan(t)
  <2>1. NotEOF(t) /\ NextChar(t) /\ fp[t] = "FILE" /\ ScanTypeOK /\ ScanInv
    BY <1>3, SameScan4 DEF Four!Scan, CountInv
  <2>2. /\ ScanTypeOK' /\ ScanInv'
        /\ Ended(t)' = Ended(t) + (IF WordEnd(t) THEN 1 ELSE 0)
        /\ \A u \in Threads \ {t} : Ended(u)' = Ended(u) /\ pos'[u] = pos[u]
    BY <2>1, OneTurn
  <2>3. count' = [count EXCEPT ![t] = IF WordEnd(t) THEN @ + 1 ELSE @]
    BY <1>3, SameScan4 DEF Four!Scan
  <2>4. \A u \in Threads : count'[u] = Ended(u)'
    BY <2>2, <2>3 DEF CountInv
  <2>5. UNCHANGED <<pcs, lock, mailbox, reports_in, joined, printed4, spurious, text, fp>>
    BY <1>3, <2>1 DEF Four!Scan, NextChar
  <2>6. pcs[t] = "getc"
    BY <1>3 DEF Four!Scan
  <2>7. CountInv(pcs, count, {"none", "fopen"}, Behind)'
    BY <2>2, <2>4, <2>5, <2>6 DEF CountInv
  <2>8. QED
    BY <2>3, <2>5, <2>7
<1>4. CASE Four!Fclose(t)
  <2>1. UNCHANGED scan /\ pcs' = [pcs EXCEPT ![t] = "lock"] /\ ~NotEOF(t) /\ count' = count
    BY <1>4, SameScan4 DEF Four!Fclose, Four!scan, scan
  <2>2. ScanTypeOK' /\ ScanInv' /\ \A u \in Threads : Ended(u)' = count[u]
    BY <2>1, ScanUnchanged DEF CountInv
  <2>3. pos[t] = Len(text[t])
    <3>1. Len(text[t]) \in Nat /\ pos[t] \in Nat /\ pos[t] <= Len(text[t])
      BY EndedTypes DEF CountInv, ScanInv
    <3>2. QED
      BY <2>1, <3>1 DEF NotEOF
  <2>4. CountInv(pcs, count, {"none", "fopen"}, Behind)'
    BY <1>4, <2>1, <2>2, <2>3 DEF Four!Fclose, CountInv, scan
  <2>5. QED
    BY <1>4, <2>1, <2>4 DEF Four!Fclose
<1>5. CASE Four!Lock(t) \/ Four!Check(t) \/ Four!Wake(t) \/ Four!Unlock(t)
  <2>1. UNCHANGED <<scan, count>>
    BY <1>5 DEF Four!Lock, Four!Check, Four!Wake, Four!Unlock, Four!scan, scan
  <2>2. \A u \in Threads : pcs'[u] = pcs[u] \/ {pcs[u], pcs'[u]} \subseteq Behind
    BY <1>5 DEF Four!Lock, Four!Check, Four!Wake, Four!Unlock, Four!CondWait
  <2>3. CountInv(pcs, count, {"none", "fopen"}, Behind)'
    BY <1>1, <2>1, <2>2
  <2>4. CASE Four!Lock(t)
    BY <2>3, <2>4 DEF Four!Lock
  <2>5. CASE Four!Check(t)
    BY <2>3, <2>5 DEF Four!Check, Four!CondWait
  <2>6. CASE Four!Wake(t)
    BY <2>3, <2>6 DEF Four!Wake
  <2>7. CASE Four!Unlock(t)
    BY <2>3, <2>7 DEF Four!Unlock
  <2>8. QED
    BY <1>5, <2>4, <2>5, <2>6, <2>7
<1>6. CASE Four!Post(t)
  <2>1. pcs[t] = "post" /\ mailbox' = t /\ pcs'[t] = "unlock"
    BY <1>6 DEF Four!Post, Four!Signal
  <2>2. \A u \in {0, 1, 2} \ {t} : pcs'[u] = pcs[u] \/ (pcs[u] = "wait" /\ pcs'[u] = "relock")
    BY <1>6 DEF Four!Post, Four!Signal
  <2>3. UNCHANGED <<scan, lock, count, reports_in, joined, printed4, spurious>>
    BY <1>6 DEF Four!Post, Four!scan, scan
  <2>4. CountInv(pcs, count, {"none", "fopen"}, Behind)'
    BY <1>1, <2>1, <2>2, <2>3
  <2>5. \A u \in Threads \ {t} : pcs'[u] = pcs[u]
    BY <2>1, <2>2
  <2>6. Types4'
    BY <1>6, <2>1, <2>2, <2>3 DEF Four!Post, Four!Signal
  <2>7. Holder4' /\ Mail4' /\ Joins4'
    BY <2>1, <2>2, <2>3, <2>5
  <2>8. QED
    BY <2>4, <2>6, <2>7
<1>7. QED
  BY <1>2, <1>3, <1>4, <1>5, <1>6 DEF Four!Counter

\* So does a wakeup that nobody signalled.
LEMMA Spurious4 == ASSUME Inv4, NEW p \in {0, 1, 2}, Four!Spurious(p) PROVE Inv4'
<1> USE DEF Inv4, Four!Goto
<1>1. UNCHANGED <<scan, count, lock, mailbox, reports_in, joined, printed4>>
  BY DEF Four!Spurious, Four!scan, scan
<1>2. pcs[p] = "wait" /\ pcs' = [pcs EXCEPT ![p] = "relock"] /\ spurious' = TRUE
  BY DEF Four!Spurious
<1>3. CountInv(pcs, count, {"none", "fopen"}, Behind)'
  BY <1>1, <1>2, CountKept DEF Types4, Behind, Threads
<1>4. QED
  BY <1>1, <1>2, <1>3 DEF Types4, Holder4, Mail4, Joins4, Steps, MainHolds, ThreadHolds, Behind, Reported, Threads

\* A thread of twordcount4 that is behind its loop has counted its file, or not
\* opened it.
Final4 == \A t \in Threads : pcs[t] \in Behind => count[t] \in {0, Words[t]}

LEMMA Counted4 == (Inv4 => Final4) /\ (Inv4' => Final4')
<1>1. Inv4 => Final4
  BY CountFinal DEF Inv4, Final4
<1>2. QED
  BY <1>1, PTL

\* Every step of twordcount4 keeps its invariant.
LEMMA Next4 == ASSUME Inv4, Four!Next PROVE Inv4'
<1>1. Four!Procs = {0, 1, 2} /\ Four!Threads = Threads
  BY DEF Four!Procs, Four!Threads, Four!Main, Threads
<1>2. QED
  BY <1>1, Main4, Counter4, Spurious4 DEF Four!Next

\* No step replaces a report by another, as long as nobody has woken unasked: whoever
\* posts finds the mailbox empty.
LEMMA KeepsMail ==
  ASSUME Inv4, Four!Next, mailbox # Four!NULL, ~spurious
  PROVE  mailbox' \in {mailbox, Four!NULL}
<1>1. ASSUME NEW t \in Threads, Four!Post(t) PROVE FALSE
  BY <1>1 DEF Four!Post, Inv4, Mail4, Four!NULL
<1>2. ASSUME NEW t \in Threads, Four!Counter(t) PROVE mailbox' = mailbox
  BY <1>1, <1>2 DEF Four!Counter, Four!Open, Four!Scan, Four!Fclose, Four!Lock, Four!Check, Four!Wake,
                    Four!Unlock
<1>3. CASE Four!MainStep
  BY <1>3 DEF Four!MainStep, Four!MainLock, Four!Create, Four!MainWait, Four!MainWake, Four!Tally,
              Four!Join, Four!Clear, Four!PrintTotal
<1>4. CASE \E p \in Four!Procs : Four!Spurious(p)
  BY <1>4 DEF Four!Spurious
<1>5. QED
  BY <1>2, <1>3, <1>4 DEF Four!Next, Four!Threads, Threads

\* Every step of twordcount4 is one of WordTotal, or a stutter: a thread that leaves its
\* loop, or finds no file, is Count, main's printf is Report.
LEMMA Refines4 == ASSUME Inv4, Four!Next PROVE [Four!Total!Next]_(Four!Total!vars)
<1> USE DEF Four!Total!vars, Four!counted, Four!Finished, Four!Threads, Threads, Four!Goto, Four!Main
<1>0. Inv4'
  BY Next4
<1>1. ASSUME UNCHANGED <<text, printed4, count>>,
             \A t \in Threads : pcs'[t] \in Behind <=> pcs[t] \in Behind
      PROVE  UNCHANGED Four!Total!vars
  <2>1. UNCHANGED Four!Words
    BY <1>1 DEF Four!Words
  <2>2. UNCHANGED Four!counted
    BY <1>1 DEF Behind
  <2>3. QED
    BY <1>1, <2>1, <2>2
<1>2. CASE Four!MainStep
  <2>1. UNCHANGED scan
    BY <1>2, Main4 DEF Four!Next
  <2>2. UNCHANGED Four!Words
    BY <2>1 DEF scan, Four!Words
  <2>3. CASE Four!PrintTotal
    <3>1. reports_in = 2 /\ pcs[0] # "exited" /\ printed4' = count[1] + count[2]
      BY <2>3 DEF Four!PrintTotal
    <3>2. printed4 = NotYet /\ pcs[1] = "done" /\ pcs[2] = "done"
      BY <3>1 DEF Inv4, Joins4, Types4
    <3>3. UNCHANGED Four!counted
      BY <2>3 DEF Four!PrintTotal, Inv4, Types4
    <3>4. Four!counted[1] = count[1] /\ Four!counted[2] = count[2] /\ count[1] # NotYet /\ count[2] # NotYet
      BY <3>2, NotYetAssumption DEF Inv4, Types4
    <3>5. Four!Total!Report
      BY <2>2, <3>1, <3>2, <3>3, <3>4 DEF Four!Total!Report, Four!Total!File
    <3>6. QED
      BY <3>5 DEF Four!Total!Next
  <2>4. ASSUME NEW t \in Threads, NEW at, NEW next, Four!Create(t, at, next), pcs[t] = "none"
        PROVE  UNCHANGED Four!Total!vars
    <3>1. pcs' = [pcs EXCEPT ![0] = next, ![t] = "fopen"] /\ printed4' = printed4
      BY <2>4 DEF Four!Create
    <3>2. count' = count
      BY <2>4, CountNone DEF Four!Create, Inv4, Types4
    <3>3. QED
      BY <1>1, <2>1, <2>4, <3>1, <3>2 DEF Inv4, Types4, Behind, scan
  <2>5. CASE Four!Create(1, "create1", "create2") \/ Four!Create(2, "create2", "loop")
    BY <2>4, <2>5 DEF Four!Create, Inv4, Joins4
  <2>6. CASE \/ Four!MainLock \/ Four!MainWait \/ Four!MainWake \/ Four!Tally
             \/ Four!Join(1, "join1", "join2") \/ Four!Join(2, "join2", "clear")
    <3>1. UNCHANGED <<printed4, count>> /\ \A t \in Threads : pcs'[t] = pcs[t]
      BY <2>6 DEF Four!MainLock, Four!MainWait, Four!MainWake, Four!Tally, Four!Join, Four!Acquire,
                  Four!CondWait, Inv4, Types4
    <3>2. QED
      BY <1>1, <2>1, <3>1 DEF scan
  <2>7. CASE Four!Clear
    <3>1. \A t \in Threads : pcs'[t] = pcs[t] \/ (pcs[t] = "wait" /\ pcs'[t] = "relock")
      BY <2>7 DEF Four!Clear, Four!Signal, Inv4, Types4
    <3>2. QED
      BY <1>1, <2>1, <2>7, <3>1 DEF Four!Clear, Behind, scan
  <2>8. QED
    BY <1>2, <2>3, <2>5, <2>6, <2>7 DEF Four!MainStep
<1>3. ASSUME NEW t \in Threads, Four!Counter(t)
      PROVE  [Four!Total!Next]_(Four!Total!vars)
  <2>1. UNCHANGED <<text, printed4>>
    BY <1>3, SameScan4 DEF Four!Counter, Four!Open, Four!Scan, Four!Fclose, Four!Lock, Four!Check,
                           Four!Wake, Four!Post, Four!Unlock, Four!scan, Fopen, NextChar
  <2>2. UNCHANGED <<Words, Four!Words>>
    BY <2>1 DEF Words, Four!Words
  <2>3. \A u \in Threads \ {t} : count'[u] = count[u] /\ (pcs'[u] \in Behind <=> pcs[u] \in Behind)
    BY <1>3 DEF Four!Counter, Four!Open, Four!Scan, Four!Fclose, Four!Lock, Four!Check, Four!Wake,
                Four!Post, Four!Signal, Four!Unlock, Four!Acquire, Four!CondWait, Inv4, Types4, Behind
  <2>4. CASE pcs[t] \in Behind
    <3>1. count' = count /\ pcs'[t] \in Behind
      BY <1>3, <2>4 DEF Four!Counter, Four!Open, Four!Scan, Four!Fclose, Four!Lock, Four!Check,
               Four!Wake, Four!Post, Four!Signal, Four!Unlock, Four!Acquire, Four!CondWait,
               Inv4, Types4, Behind
    <3>2. QED
      BY <1>1, <2>1, <2>3, <2>4, <3>1
  <2>5. CASE pcs[t] \notin Behind /\ pcs'[t] \notin Behind
    <3>1. UNCHANGED Four!counted
      BY <2>3, <2>5 DEF Behind
    <3>2. QED
      BY <2>1, <2>2, <3>1
  <2>6. CASE pcs[t] \notin Behind /\ pcs'[t] \in Behind
    <3>1. count'[t] \in {0, Four!Words[t]}
      BY <1>0, <2>2, <2>6, Counted4, SameScan4 DEF Final4
    <3>2. Four!counted[t] = NotYet /\ Four!counted' = [Four!counted EXCEPT ![t] = count'[t]]
      BY <2>3, <2>6 DEF Behind
    <3>3. Four!Total!Count(t)
      BY <2>1, <2>2, <3>1, <3>2 DEF Four!Total!Count
    <3>4. QED
      BY <3>3 DEF Four!Total!Next, Four!Total!File
  <2>7. QED
    BY <2>4, <2>5, <2>6
<1>4. ASSUME NEW p \in Four!Procs, Four!Spurious(p)
      PROVE  UNCHANGED Four!Total!vars
  <2>1. UNCHANGED <<text, count, printed4>> /\ pcs[p] = "wait" /\ pcs' = [pcs EXCEPT ![p] = "relock"]
    BY <1>4 DEF Four!Spurious, Four!scan
  <2>2. QED
    BY <1>1, <1>4, <2>1 DEF Inv4, Types4, Behind, Four!Procs
<1>5. QED
  BY <1>2, <1>3, <1>4 DEF Four!Next
-----------------------------------------------------------------------------
(* The three programs, of which one is started.                            *)

allVars == <<scan, own2, own3, own4>>

\* One program has been started, and its invariant holds.
OneInv == \/ IInv /\ BegunInv /\ Idle3 /\ Idle4
          \/ Idle2 /\ Inv3 /\ Idle4
          \/ Idle2 /\ Idle3 /\ Inv4

\* A program that is not started takes no step.
LEMMA IdleStuck ==
  /\ Idle2 => ~Next
  /\ Idle3 => ~Three!Next
  /\ Idle4 => ~Four!Next
<1>1. Idle2 => ~Next
  BY DEF Idle2, Next, Main, Create, Join, PrintTotal, Counter, Open, Skip, Lock, Load, Store, Unlock,
         Fclose
<1>2. Idle3 => ~Three!Next
  BY DEF Idle3, Three!Next, Three!Main, Three!Create, Three!Join, Three!PrintTotal, Three!Counter,
         Three!Open, Three!Scan, Three!Fclose, Three!Threads, Threads
<1>3. Idle4 => ~Four!Next
  BY DEF Idle4, Four!Next, Four!Alive, Four!Main, Four!Procs
<1>4. QED
  BY <1>1, <1>2, <1>3

\* It stays as it is, and no program changes a file.
LEMMA OthersIdle ==
  ASSUME OneInv, [OneNext]_allVars
  PROVE  /\ Idle2 => Idle2' /\ UNCHANGED own2
         /\ Idle3 => Idle3' /\ UNCHANGED own3
         /\ Idle4 => Idle4' /\ UNCHANGED own4
         /\ text' = text
<1>1. Idle2 => UNCHANGED own2
  BY IdleStuck DEF OneNext, allVars
<1>2. Idle3 => UNCHANGED own3
  BY IdleStuck DEF OneNext, allVars
<1>3. Idle4 => UNCHANGED own4
  BY IdleStuck DEF OneNext, allVars
<1>4. ASSUME Next PROVE text' = text
  BY <1>4 DEF Next, Main, Create, Join, PrintTotal, Counter, Open, Fopen, Skip, Lock, Load, Store,
              Unlock, Fclose, NextChar, scan
<1>5. ASSUME Three!Next PROVE text' = text
  BY <1>5 DEF Three!Next, Three!Main, Three!Create, Three!Join, Three!PrintTotal, Three!Counter,
              Three!Open, Three!Scan, Three!Fclose, Three!Fopen, Three!NextChar, Three!scan
<1>6. ASSUME Four!Next PROVE text' = text
  BY <1>6 DEF Four!Next, Four!MainStep, Four!MainLock, Four!Create, Four!MainWait, Four!MainWake,
              Four!Tally, Four!Join, Four!Clear, Four!PrintTotal, Four!Counter, Four!Open, Four!Scan,
              Four!Fclose, Four!Lock, Four!Check, Four!Wake, Four!Post, Four!Unlock, Four!Spurious,
              Four!Fopen, Four!NextChar, Four!scan
<1>7. text' = text
  BY <1>4, <1>5, <1>6 DEF OneNext, allVars, scan
<1>8. QED
  BY <1>1, <1>2, <1>3, <1>7 DEF Idle2, Idle3, Idle4, own2, own3, own4

\* The invariant of the program that was started is inductive.
LEMMA OneStep == ASSUME OneInv, [OneNext]_allVars PROVE OneInv'
<1>1. CASE IInv /\ BegunInv /\ Idle3 /\ Idle4
  <2>1. [Next]_vars
    BY <1>1, IdleStuck DEF OneNext, allVars, own2, vars
  <2>2. QED
    BY <1>1, <2>1, NextInv, BegunStep, OthersIdle DEF OneInv
<1>2. CASE Idle2 /\ Inv3 /\ Idle4
  <2>1. CASE Three!Next
    BY <1>2, <2>1, Step3, OthersIdle DEF OneInv
  <2>2. CASE UNCHANGED allVars
    <3>1. ScanTypeOK' /\ ScanInv' /\ \A t \in Threads : Ended(t)' = Ended(t)
      BY <1>2, <2>2, ScanUnchanged DEF Inv3, CountInv, allVars
    <3>2. Inv3'
      BY <1>2, <2>2, <3>1 DEF Inv3, CountInv, allVars, own3, scan
    <3>3. QED
      BY <1>2, <3>2, OthersIdle DEF OneInv
  <2>3. QED
    BY <1>2, <2>1, <2>2, IdleStuck DEF OneNext
<1>3. CASE Idle2 /\ Idle3 /\ Inv4
  <2>1. CASE Four!Next
    BY <1>3, <2>1, Next4, OthersIdle DEF OneInv
  <2>2. CASE UNCHANGED allVars
    <3>1. CountInv(pcs, count, {"none", "fopen"}, Behind)'
      BY <1>3, <2>2, CountKept DEF Inv4, allVars, own4
    <3>2. Inv4'
      BY <1>3, <2>2, <3>1 DEF Inv4, Types4, Holder4, Mail4, Joins4, allVars, own4
    <3>3. QED
      BY <1>3, <3>2, OthersIdle DEF OneInv
  <2>3. QED
    BY <1>3, <2>1, <2>2, IdleStuck DEF OneNext
<1>4. QED
  BY <1>1, <1>2, <1>3 DEF OneInv

\* In every reachable state the invariant of the program that was started holds: for
\* twordcount2 that of its mutex and its total, for twordcount3 and twordcount4 that every
\* count is that of the characters read, and for twordcount4 that of lock and mailbox.
THEOREM Invariance == OneSpec => []OneInv
<1>1. OneInit => OneInv
  BY InitInv, BegunInit, Init3, Init4 DEF OneInit, OneInv
<1>2. OneInv /\ [OneNext]_allVars => OneInv'
  BY OneStep
<1>3. QED
  BY <1>1, <1>2, PTL DEF OneSpec, allVars

\* Every variable of twordcount2 keeps its type, once it is started.
THEOREM TypeCorrect == OneSpec => [](pc # "not started" => TypeOK)
<1>1. OneInv => (pc # "not started" => TypeOK)
  BY DEF OneInv, IInv, Idle2
<1>2. QED
  BY <1>1, Invariance, PTL

\* No increment of total_words is lost or counted twice, for files of any length.
THEOREM CountsExact == OneSpec => []LosesNone
<1>1. OneInv => LosesNone
  BY DEF OneInv, IInv, Idle2, LosesNone
<1>2. QED
  BY <1>1, Invariance, PTL

\* What twordcount2 prints falls short of the words of the files by one for each
\* that ends in a word, for files of any length.
THEOREM ShortByLastWords == OneSpec => []LastWordLost
<1>1. OneInv => LastWordLost
  BY PrintedShort DEF OneInv, Idle2, LastWordLost
<1>2. QED
  BY <1>1, Invariance, PTL

\* A report in the mailbox of twordcount4 is not overwritten, unless pthread_cond_wait
\* has returned without a signal, for files of any length.
THEOREM ReportsKept == OneSpec => MailKept
<1>1. OneInv /\ [OneNext]_allVars => [mailbox # Four!NULL /\ ~spurious => mailbox' \in {mailbox, Four!NULL}]_mailbox
  <2>1. SUFFICES ASSUME OneInv, OneNext, mailbox # Four!NULL, ~spurious
                 PROVE  mailbox' \in {mailbox, Four!NULL}
    BY DEF allVars, own4
  <2>2. CASE Four!Next
    BY <2>1, <2>2, KeepsMail, IdleStuck DEF OneInv
  <2>3. CASE UNCHANGED own4
    BY <2>3 DEF own4
  <2>4. QED
    BY <2>1, <2>2, <2>3 DEF OneNext
<1>2. QED
  BY <1>1, Invariance, PTL DEF OneSpec, allVars, MailKept, Four!NoOverwrite

\* All three programs implement WordTotal: each file is counted once and what main
\* prints is the sum of the two counts, for files of any length, whoever reports first and
\* whatever wakes without a signal.
THEOREM Implementation == OneSpec => AllImplement
<1>1. OneInit => Total!Init /\ Three!Total!Init /\ Four!Total!Init
  <2>1. SUFFICES ASSUME OneInit PROVE Total!Init /\ Three!Total!Init /\ Four!Total!Init
    OBVIOUS
  <2>2. ScanTypeOK
    BY <2>1, InitInv, Init3, Init4 DEF OneInit, IInv, TypeOK, Inv3, Inv4, CountInv
  <2>3. Words \in [Threads -> Nat]
    BY <2>2, EndedTypes DEF Words
  <2>4. Total!Init
    BY <2>1, <2>3 DEF OneInit, Init, Idle2, Total!Init, Total!File, counted, Threads
  <2>5. Three!Total!Init
    BY <2>1, <2>3, SameScan3 DEF OneInit, Three!Init, Idle3, Three!Total!Init, Three!Total!File,
                                 Three!counted, Three!Threads, Threads
  <2>6. Four!Total!Init
    <3>1. printed4 = NotYet /\ \A t \in Threads : pcs[t] = "none"
      BY <2>1 DEF OneInit, Four!Init, Idle4, Four!Threads, Four!Procs, Four!Main, Threads
    <3>2. Four!counted = [t \in Threads |-> NotYet]
      BY <3>1 DEF Four!counted, Four!Finished, Four!Threads, Threads
    <3>3. QED
      BY <2>3, <3>1, <3>2, SameScan4 DEF Four!Total!Init, Four!Total!File, Threads
  <2>7. QED
    BY <2>4, <2>5, <2>6
<1>2. OneInv /\ [OneNext]_allVars => /\ [Total!Next]_(Total!vars)
                                     /\ [Three!Total!Next]_(Three!Total!vars)
                                     /\ [Four!Total!Next]_(Four!Total!vars)
  <2>1. SUFFICES ASSUME OneInv, [OneNext]_allVars
                 PROVE  /\ [Total!Next]_(Total!vars)
                        /\ [Three!Total!Next]_(Three!Total!vars)
                        /\ [Four!Total!Next]_(Four!Total!vars)
    OBVIOUS
  <2>2. text' = text
    BY <2>1, OthersIdle
  <2>3. [Total!Next]_(Total!vars)
    <3>1. CASE IInv /\ [Next]_vars
      BY <3>1, NextRefines
    <3>2. CASE Idle2 /\ UNCHANGED own2
      BY <2>2, <3>2 DEF Idle2, own2, Total!vars, counted, Words
    <3>3. QED
      BY <2>1, <3>1, <3>2, OthersIdle, IdleStuck DEF OneInv, OneNext, allVars, own2, vars
  <2>4. [Three!Total!Next]_(Three!Total!vars)
    <3>1. CASE Inv3 /\ Three!Next
      BY <3>1, Step3
    <3>2. CASE UNCHANGED own3
      BY <2>2, <3>2 DEF own3, Three!Total!vars, Three!counted, Three!Words
    <3>3. QED
      BY <2>1, <3>1, <3>2, OthersIdle, IdleStuck DEF OneInv, OneNext, allVars
  <2>5. [Four!Total!Next]_(Four!Total!vars)
    <3>1. CASE Inv4 /\ Four!Next
      BY <3>1, Refines4
    <3>2. CASE UNCHANGED own4
      BY <2>2, <3>2 DEF own4, Four!Total!vars, Four!counted, Four!Finished, Four!Words
    <3>3. QED
      BY <2>1, <3>1, <3>2, OthersIdle, IdleStuck DEF OneInv, OneNext, allVars
  <2>6. QED
    BY <2>3, <2>4, <2>5
<1>3. QED
  BY <1>1, <1>2, Invariance, PTL
     DEF OneSpec, allVars, AllImplement, ImplementsWordTotal, Three!ImplementsWordTotal,
         Four!ImplementsWordTotal, Total!Spec, Three!Total!Spec, Four!Total!Spec
=============================================================================
