----------------------------- MODULE FileProofs ------------------------------
(***************************************************************************)
(* Proofs about utmplib.c, mypwd1.c, ls3.c, ls2.c, cp1.c and cat1.c, for   *)
(* files, buffers and trees of any size.  EachOnce rests on where utmplib  *)
(* is in the file, PlaceInv, and on the records of its buffer being no     *)
(* newer than those of the file, BufferInv, which go out of step once a    *)
(* read has failed.  TruePath rests on the directories behind mypwd1 being *)
(* a way down to where it started; BlocksCopied on what the                *)
(* buffer still holds of the block before; Listed on the pointers of ls3   *)
(* being one to each entry of a buffer that is not filled again, and at    *)
(* least one to each that was read last; LinesTrue                         *)
(* on a name being on a line, still to be taken or just taken.             *)
(***************************************************************************)
EXTENDS FilePrograms, SequenceTheorems, WellFoundedInduction, TLAPS

all == <<vars, pwd, ls, ls2, copies>>

\* The oldest form in which record k may be shown.
Low(k) == IF k <= Len(opened) THEN opened[k] ELSE 1

TypeOK == /\ file \in Seq(Nat) /\ opened \in Seq(Nat) /\ shown \in Seq(Nat)
          /\ pc \in {"utmp_open", "utmp_next", "exited", "crashed"}
          /\ offset \in Nat /\ cur_rec \in Nat /\ num_recs \in Int
          /\ utmpbuf \in [0..(NRECS - 1) -> Nat]
          /\ writes \in Nat /\ errors \in Nat

\* Records are not taken away and do not get older, and no more are read than there are.
FileInv == /\ Len(opened) <= Len(file) /\ offset <= Len(file)
           /\ \A k \in 1..Len(file) : Low(k) <= file[k]

\* The library has read offset records, and handed out all but the rest of the buffer.
PlaceInv == /\ num_recs \in 0..NRECS /\ cur_rec <= num_recs /\ num_recs <= offset
            /\ Len(shown) + num_recs = offset + cur_rec
            /\ pc = "utmp_open" => shown = <<>> /\ num_recs = 0
            /\ pc = "exited" => Len(shown) >= Len(opened)

BufferInv == \A j \in 0..(NRECS - 1) :
  j < num_recs => utmpbuf[j] \in Low(offset - num_recs + j + 1)..file[offset - num_recs + j + 1]

ShownInv == \A k \in 1..Len(shown) : shown[k] \in Low(k)..file[k]

InStep == PlaceInv /\ BufferInv /\ ShownInv

IInv == /\ TypeOK /\ FileInv
        /\ pc = "utmp_open" => opened = <<>>
        /\ errors = 0 => InStep

\* What EachOnce says is part of it.
LEMMA InvImplies == IInv => EachOnce
<1>1. SUFFICES ASSUME IInv, errors = 0
               PROVE  /\ Len(shown) <= Len(file)
                      /\ \A k \in 1..Len(shown) : shown[k] \in Low(k)..file[k]
                      /\ (pc = "exited" /\ num_recs = 0) => Len(shown) >= Len(opened)
  BY DEF EachOnce, Low
<1>2. Len(shown) \in Nat /\ Len(file) \in Nat /\ offset \in Nat /\ cur_rec \in Nat
  BY <1>1, LenProperties DEF IInv, TypeOK
<1>3. ShownInv /\ PlaceInv /\ offset <= Len(file)
  BY <1>1 DEF IInv, InStep, FileInv
<1>4. Len(shown) <= Len(file)
  BY <1>2, <1>3, ConstantsAssumption DEF PlaceInv
<1>5. QED
  BY <1>3, <1>4 DEF ShownInv, PlaceInv

\* The program starts in IInv.
LEMMA InitInv == Init => IInv
<1>1. SUFFICES ASSUME Init PROVE IInv
  OBVIOUS
<1>2. PICK n \in 0..MaxRecs : file \in [1..n -> {1}]
  BY <1>1 DEF Init
<1>3. file \in Seq(Nat) /\ Len(file) \in Nat /\ \A k \in 1..Len(file) : file[k] = 1
  BY <1>2, ConstantsAssumption
<1>4. opened = <<>> /\ shown = <<>>
  BY <1>1 DEF Init
<1>5. TypeOK
  BY <1>1, <1>3, <1>4, ConstantsAssumption DEF Init, TypeOK, Unread
<1>6. FileInv
  BY <1>1, <1>3, <1>4 DEF Init, FileInv, Low
<1>7. InStep
  BY <1>1, <1>3, <1>4, ConstantsAssumption DEF Init, InStep, PlaceInv, BufferInv, ShownInv
<1>8. QED
  BY <1>4, <1>5, <1>6, <1>7 DEF IInv

\* Opening the file: what is in it then is what has to be shown.
LEMMA OpenStep == ASSUME IInv, utmp_open PROVE IInv'
<1>1. UNCHANGED <<file, offset, utmpbuf, num_recs, cur_rec, shown, writes, errors>> /\ pc = "utmp_open"
  BY DEF utmp_open, library
<1>2. \/ pc' = "utmp_next" /\ opened' = file
      \/ pc' = "exited" /\ opened' = opened
  BY DEF utmp_open
<1>3. TypeOK'
  BY <1>1, <1>2 DEF IInv, TypeOK
<1>4. FileInv'
  BY <1>1, <1>2, LenProperties DEF IInv, TypeOK, FileInv, Low
<1>5. ASSUME errors = 0 PROVE InStep'
  <2>1. shown = <<>> /\ num_recs = 0 /\ InStep /\ opened = <<>>
    BY <1>1, <1>5 DEF IInv, InStep, PlaceInv
  <2>2. PlaceInv' /\ BufferInv' /\ ShownInv'
    BY <1>1, <1>2, <2>1 DEF InStep, PlaceInv, BufferInv, ShownInv, IInv, TypeOK
  <2>3. QED
    BY <2>2 DEF InStep
<1>6. QED
  BY <1>1, <1>2, <1>3, <1>4, <1>5 DEF IInv

\* A record out of the buffer: it is the one that is due.
LEMMA TakeStep == ASSUME IInv, Take PROVE IInv'
<1>1. UNCHANGED <<file, opened, offset, utmpbuf, num_recs, writes, errors>> /\ pc = "utmp_next" /\ cur_rec # num_recs
  BY DEF Take, Empty
<1>2. FileInv'
  BY <1>1 DEF IInv, FileInv, Low
<1>3. CASE cur_rec >= NRECS /\ pc' = "crashed" /\ UNCHANGED <<shown, cur_rec>>
  <2>1. errors # 0
    BY <1>1, <1>3, ConstantsAssumption DEF IInv, InStep, PlaceInv, TypeOK
  <2>2. QED
    BY <1>1, <1>2, <1>3, <2>1 DEF IInv, TypeOK
<1>4. CASE cur_rec < NRECS /\ shown' = Append(shown, utmpbuf[cur_rec]) /\ cur_rec' = cur_rec + 1 /\ UNCHANGED pc
  <2>1. utmpbuf[cur_rec] \in Nat /\ shown \in Seq(Nat)
    BY <1>4, ConstantsAssumption DEF IInv, TypeOK
  <2>2. /\ shown' \in Seq(Nat) /\ Len(shown') = Len(shown) + 1 /\ Len(shown) \in Nat
        /\ shown'[Len(shown) + 1] = utmpbuf[cur_rec]
        /\ \A k \in 1..Len(shown) : shown'[k] = shown[k]
    BY <1>4, <2>1, AppendProperties
  <2>3. TypeOK'
    BY <1>1, <1>4, <2>2 DEF IInv, TypeOK
  <2>4. ASSUME errors = 0 PROVE InStep'
    <3>1. PlaceInv /\ BufferInv /\ ShownInv
      BY <2>4 DEF IInv, InStep
    <3>2. PlaceInv'
      <4>1. num_recs \in 0..NRECS /\ cur_rec <= num_recs /\ Len(shown) + num_recs = offset + cur_rec /\ cur_rec \in Nat /\ offset \in Nat
        BY <3>1 DEF PlaceInv, IInv, TypeOK
      <4>2. Len(shown) + 1 + num_recs = offset + (cur_rec + 1) /\ cur_rec + 1 <= num_recs
        BY <1>1, <2>2, <4>1, ConstantsAssumption
      <4>3. QED
        BY <1>1, <1>4, <2>2, <3>1, <4>2 DEF PlaceInv
    <3>3. BufferInv'
      BY <1>1, <3>1 DEF BufferInv, Low
    <3>4. utmpbuf[cur_rec] \in Low(Len(shown) + 1)..file[Len(shown) + 1]
      <4>1. offset - num_recs + cur_rec + 1 = Len(shown) + 1 /\ cur_rec < num_recs
        <5>1. num_recs \in 0..NRECS /\ cur_rec <= num_recs /\ Len(shown) + num_recs = offset + cur_rec /\ cur_rec \in Nat /\ offset \in Nat
          BY <3>1 DEF PlaceInv, IInv, TypeOK
        <5>2. QED
          BY <1>1, <2>2, <5>1, ConstantsAssumption
      <4>2. cur_rec \in 0..(NRECS - 1)
        BY <1>4, ConstantsAssumption DEF IInv, TypeOK
      <4>3. QED
        BY <3>1, <4>1, <4>2 DEF BufferInv
    <3>5. ShownInv'
      BY <1>1, <2>2, <3>1, <3>4 DEF ShownInv, Low
    <3>6. QED
      BY <3>2, <3>3, <3>5 DEF InStep
  <2>5. QED
    BY <1>1, <1>2, <1>4, <2>3, <2>4 DEF IInv
<1>5. QED
  BY <1>3, <1>4 DEF Take

\* The next records of the file: what is left of it, up to NRECS.
LEMMA ReloadStep == ASSUME IInv, utmp_reload PROVE IInv'
<1> DEFINE rest == Len(file) - offset
<1> DEFINE n == IF rest < NRECS THEN rest ELSE NRECS
<1>1. UNCHANGED <<file, opened, shown, writes, errors>> /\ pc = "utmp_next" /\ cur_rec = num_recs /\ cur_rec' = 0
  BY DEF utmp_reload, Empty
<1>2. /\ utmpbuf' = [j \in DOMAIN utmpbuf |-> IF j < n THEN file[offset + j + 1] ELSE utmpbuf[j]]
      /\ num_recs' = n /\ offset' = offset + n
      /\ pc' = IF n = 0 THEN "exited" ELSE "utmp_next"
  BY DEF utmp_reload
<1>3. Len(file) \in Nat /\ offset \in Nat /\ NRECS \in Nat \ {0} /\ errors \in Nat /\ utmpbuf \in [0..(NRECS - 1) -> Nat]
  BY ConstantsAssumption, LenProperties DEF IInv, TypeOK
<1>4. rest \in Nat /\ n \in 0..NRECS /\ offset + n <= Len(file) /\ (n = 0 => offset = Len(file))
  BY <1>3 DEF IInv, FileInv
<1>5. \A j \in 0..(NRECS - 1) : j < n => offset + j + 1 \in 1..Len(file)
  BY <1>3, <1>4
<1>6. \A j \in 0..(NRECS - 1) : utmpbuf'[j] = IF j < n THEN file[offset + j + 1] ELSE utmpbuf[j]
  BY <1>2, <1>3
<1>7. \A k \in 1..Len(file) : file[k] \in Nat /\ Low(k) \in Nat /\ Low(k) <= file[k]
  <2>1. \A k \in 1..Len(file) : file[k] \in Nat
    BY ElementOfSeq DEF IInv, TypeOK
  <2>2. \A k \in 1..Len(opened) : opened[k] \in Nat
    BY ElementOfSeq DEF IInv, TypeOK
  <2>3. QED
    BY <1>3, <2>1, <2>2, LenProperties DEF Low, IInv, FileInv, TypeOK
<1>8. TypeOK'
  <2>1. utmpbuf' \in [0..(NRECS - 1) -> Nat]
    BY <1>2, <1>3, <1>5, <1>7
  <2>2. offset' \in Nat /\ num_recs' \in Int /\ cur_rec' \in Nat
    BY <1>1, <1>2, <1>3, <1>4
  <2>3. QED
    BY <1>1, <1>2, <2>1, <2>2 DEF IInv, TypeOK
<1>9. FileInv'
  <2>1. offset' <= Len(file')
    BY <1>1, <1>2, <1>4
  <2>2. QED
    BY <1>1, <1>7, <2>1 DEF IInv, FileInv, Low
<1>10. ASSUME errors = 0 PROVE InStep'
  <2>1. PlaceInv /\ ShownInv
    BY <1>10 DEF IInv, InStep
  <2>2. PlaceInv'
    <3>1. Len(shown) \in Nat /\ Len(opened) \in Nat /\ Len(opened) <= Len(file)
      BY LenProperties DEF IInv, TypeOK, FileInv
    <3>2. Len(shown) + num_recs = offset + num_recs /\ num_recs \in Int
      BY <1>1, <2>1 DEF PlaceInv
    <3>3. Len(shown) = offset
      BY <1>3, <3>1, <3>2
    <3>4. /\ n \in 0..NRECS /\ 0 <= n
          /\ Len(shown) + n = offset + n + 0
          /\ n = 0 => Len(shown) >= Len(opened)
          /\ n <= offset + n
      BY <1>3, <1>4, <3>1, <3>3
    <3>5. QED
      BY <1>1, <1>2, <3>4 DEF PlaceInv
  <2>3. BufferInv'
    <3>1. SUFFICES ASSUME NEW j \in 0..(NRECS - 1), j < n
                   PROVE  utmpbuf'[j] \in Low(offset + j + 1)..file[offset + j + 1]
      <4>1. offset' - num_recs' = offset
        BY <1>2, <1>3, <1>4
      <4>2. \A j \in 0..(NRECS - 1) : j < n => utmpbuf'[j] \in Low(offset + j + 1)..file[offset + j + 1]
        BY <3>1
      <4>3. \A k : Low(k)' = Low(k)
        BY <1>1 DEF Low
      <4>4. num_recs' = n /\ file' = file
        BY <1>1, <1>2
      <4>5. QED
        BY <4>1, <4>2, <4>3, <4>4 DEF BufferInv
    <3>2. utmpbuf'[j] = file[offset + j + 1]
      BY <1>6, <3>1
    <3>3. QED
      BY <1>5, <1>7, <3>1, <3>2
  <2>4. ShownInv'
    BY <1>1, <2>1 DEF ShownInv, Low
  <2>5. QED
    BY <2>2, <2>3, <2>4 DEF InStep
<1>11. QED
  BY <1>1, <1>2, <1>8, <1>9, <1>10 DEF IInv

\* A read that fails puts the library out of step, and leaves the file alone.
LEMMA ReloadFailsStep == ASSUME IInv, ReloadFails PROVE IInv'
<1>1. /\ UNCHANGED <<file, opened, pc, offset, utmpbuf, shown, writes>>
      /\ pc = "utmp_next" /\ errors' = errors + 1 /\ num_recs' = ErrorRecs /\ cur_rec' = 0
  BY DEF ReloadFails
<1>2. errors' # 0 /\ TypeOK'
  BY <1>1, ConstantsAssumption DEF IInv, TypeOK
<1>3. FileInv'
  BY <1>1 DEF IInv, FileInv, Low
<1>4. QED
  BY <1>1, <1>2, <1>3 DEF IInv

\* A write makes one record newer, or adds one.
LEMMA WriteStep == ASSUME IInv, Write PROVE IInv'
<1>1. UNCHANGED <<opened, pc, offset, utmpbuf, num_recs, cur_rec, shown, errors>> /\ writes' = writes + 1
  BY DEF Write, library
<1>2. Len(file) \in Nat /\ file \in Seq(Nat) /\ \A k \in 1..Len(file) : file[k] \in Nat
  BY LenProperties, ElementOfSeq DEF IInv, TypeOK
<1>3. /\ file' \in Seq(Nat) /\ Len(file') \in Nat /\ Len(file) <= Len(file')
      /\ \A k \in 1..Len(file) : file'[k] \in Nat /\ file[k] <= file'[k]
      /\ \A k \in 1..Len(file') : k \notin 1..Len(file) => file'[k] = 1
  <2>1. CASE \E j \in DOMAIN file : file' = [file EXCEPT ![j] = @ + 1]
    <3>1. PICK j \in 1..Len(file) : file' = [file EXCEPT ![j] = file[j] + 1]
      BY <1>2, <2>1, LenProperties
    <3>2. file' \in Seq(Nat) /\ Len(file') = Len(file)
      BY <1>2, <3>1, ExceptSeq
    <3>3. \A k \in 1..Len(file) : file'[k] = IF k = j THEN file[j] + 1 ELSE file[k]
      BY <1>2, <3>1, LenProperties
    <3>4. \A k \in 1..Len(file) : file[k] \in Nat
      BY <1>2
    <3>5. \A k \in 1..Len(file) : file'[k] \in Nat /\ file[k] <= file'[k]
      BY <3>3, <3>4
    <3>6. QED
      BY <1>2, <3>2, <3>5
  <2>2. CASE file' = Append(file, 1)
    <3>1. /\ file' \in Seq(Nat) /\ Len(file') = Len(file) + 1 /\ file'[Len(file) + 1] = 1
          /\ \A k \in 1..Len(file) : file'[k] = file[k]
      BY <1>2, <2>2, AppendProperties
    <3>2. QED
      BY <1>2, <3>1
  <2>3. QED
    BY <2>1, <2>2 DEF Write
<1>4. \A k : Low(k)' = Low(k)
  BY <1>1 DEF Low
<1>5. \A k \in 1..Len(opened) : opened[k] \in Nat
  BY ElementOfSeq DEF IInv, TypeOK
<1>6. Len(opened) \in Nat /\ offset \in Nat /\ Len(opened) <= Len(file) /\ offset <= Len(file)
  BY LenProperties DEF IInv, TypeOK, FileInv
<1>7. TypeOK'
  BY <1>1, <1>3 DEF IInv, TypeOK
<1>8. FileInv'
  <2>1. \A k \in 1..Len(file') : Low(k) <= file'[k]
    <3>1. SUFFICES ASSUME NEW k \in 1..Len(file') PROVE Low(k) <= file'[k]
      OBVIOUS
    <3>2. CASE k \in 1..Len(file)
      <4>1. Low(k) <= file[k] /\ Low(k) \in Nat
        BY <1>5, <3>2 DEF IInv, FileInv, Low
      <4>2. QED
        BY <1>2, <1>3, <3>2, <4>1
    <3>3. CASE k \notin 1..Len(file)
      BY <1>2, <1>3, <1>6, <3>3 DEF Low
    <3>4. QED
      BY <3>2, <3>3
  <2>2. Len(opened') <= Len(file') /\ offset' <= Len(file')
    BY <1>1, <1>2, <1>3, <1>6
  <2>3. QED
    BY <1>4, <2>1, <2>2 DEF FileInv
<1>9. ASSUME errors = 0 PROVE InStep'
  <2>1. PlaceInv /\ BufferInv /\ ShownInv
    BY <1>9 DEF IInv, InStep
  <2>2. PlaceInv'
    BY <1>1, <2>1 DEF PlaceInv
  <2>3. Len(shown) \in Nat /\ Len(shown) <= Len(file) /\ offset - num_recs \in Nat /\ num_recs \in Nat
    <3>1. Len(shown) \in Nat /\ cur_rec \in Nat
      BY LenProperties DEF IInv, TypeOK
    <3>2. num_recs \in 0..NRECS /\ cur_rec <= num_recs /\ num_recs <= offset /\ Len(shown) + num_recs = offset + cur_rec
      BY <2>1 DEF PlaceInv
    <3>3. QED
      BY <1>2, <1>6, <3>1, <3>2, ConstantsAssumption
  <2>4. BufferInv'
    <3>1. SUFFICES ASSUME NEW j \in 0..(NRECS - 1), j < num_recs
                   PROVE  utmpbuf[j] \in Low(offset - num_recs + j + 1)..file'[offset - num_recs + j + 1]
      BY <1>1, <1>4 DEF BufferInv
    <3>2. utmpbuf[j] \in Low(offset - num_recs + j + 1)..file[offset - num_recs + j + 1]
      BY <2>1, <3>1 DEF BufferInv
    <3>3. offset - num_recs + j + 1 \in 1..Len(file)
      BY <1>2, <1>6, <2>3, <3>1, ConstantsAssumption
    <3>4. QED
      BY <1>2, <1>3, <3>2, <3>3
  <2>5. ShownInv'
    <3>1. SUFFICES ASSUME NEW k \in 1..Len(shown) PROVE shown[k] \in Low(k)..file'[k]
      BY <1>1, <1>4 DEF ShownInv
    <3>2. shown[k] \in Low(k)..file[k] /\ k \in 1..Len(file)
      BY <1>2, <2>1, <2>3 DEF ShownInv
    <3>3. QED
      BY <1>2, <1>3, <3>2
  <2>6. QED
    BY <2>2, <2>4, <2>5 DEF InStep
<1>10. QED
  BY <1>1, <1>7, <1>8, <1>9 DEF IInv

\* Every state of who2 is in IInv: the library's place and buffer stay in step
\* with the file until a read fails.
THEOREM Invariance == OneSpec => []IInv
<1>1. OneInit => IInv
  <2>1. WhoEnded => IInv
    <3>1. SUFFICES ASSUME WhoEnded PROVE IInv
      OBVIOUS
    <3>2. TypeOK
      BY <3>1, ConstantsAssumption DEF WhoEnded, TypeOK, Unread
    <3>3. FileInv /\ InStep
      BY <3>1, ConstantsAssumption DEF WhoEnded, FileInv, InStep, PlaceInv, BufferInv, ShownInv
    <3>4. QED
      BY <3>1, <3>2, <3>3 DEF IInv, WhoEnded
  <2>2. QED
    BY <2>1, InitInv DEF OneInit
<1>2. IInv /\ [OneNext]_all => IInv'
  <2>1. SUFFICES ASSUME IInv, [OneNext]_all PROVE IInv'
    OBVIOUS
  <2>2. CASE UNCHANGED vars
    BY <2>1, <2>2 DEF vars, library, IInv, TypeOK, FileInv, InStep, PlaceInv, BufferInv, ShownInv, Low
  <2>3. QED
    BY <2>1, <2>2, OpenStep, TakeStep, ReloadStep, ReloadFailsStep, WriteStep DEF OneNext, all, Next
<1>3. QED
  BY <1>1, <1>2, PTL DEF OneSpec, all

\* EachOnce: what who2 shows is every record once, in order, none older than when
\* the file was opened, as long as no read fails.
THEOREM EachRecordOnce == OneSpec => []EachOnce
<1>1. QED
  BY Invariance, InvImplies, PTL
-----------------------------------------------------------------------------
(* mypwd1, in a tree of any size, whatever is mounted and moved.           *)

Entries == Dirs \cup {".", "..", "unset"}

PwdTypes == /\ parent \in [Dirs -> Dirs] /\ dev \in [Dirs -> Dirs]
            /\ ino \in [Dirs -> Nat \ {0}] /\ had \in [Dirs -> SUBSET Dirs]
            /\ cwd \in Dirs /\ start \in Dirs
            /\ path \in Seq(Entries) /\ complained \in BOOLEAN

\* A directory moves within its file system and never into itself; the root of a file
\* system stays where it is; and numbers tell the directories of one apart.
FileSystems ==
  /\ dev[Root] = Root /\ parent[Root] = Root /\ Pwd!IsNumbering(dev, ino)
  /\ \A d \in Dirs : /\ parent[d] \in had[d]
                     /\ dev[d] = d => had[d] = {parent[d]}
                     /\ dev[d] # d => \A e \in had[d] : e # d /\ dev[e] = dev[d]

\* The names found are on a way from top down to start.
WayFrom(top) ==
  \E way \in [1..(Len(path) + 1) -> Dirs] : way[1] = top /\ Pwd!IsWay(way)

\* The way goes down from where the process is, or from the directory whose name it
\* looks for, which has been below.
Climb ==
  /\ printpathto = "printpathto" => this_node = ino[cwd] /\ WayFrom(cwd)
  /\ printpathto = "inum_to_name" =>
       \E d \in Dirs : cwd \in had[d] /\ ~Pwd!Top(d) /\ this_node = ino[d] /\ WayFrom(d)
  /\ printpathto = "printed" => \E d \in Dirs : Pwd!Top(d) /\ WayFrom(d)

PwdInv == PwdTypes /\ FileSystems /\ Climb

\* A name found for the top of a way in the directory above makes a way from there.
LEMMA LongerWay ==
  ASSUME PwdTypes, NEW d \in Dirs, WayFrom(d), cwd \in had[d], ~Pwd!Top(d),
         NEW found \in Entries, path' = <<found>> \o path,
         UNCHANGED <<parent, dev, had, start, cwd>>, complained => complained',
         found \in (IF dev[d] = d THEN {} ELSE {d})
                    \cup (IF dev[d] = d \/ d \in had[cwd] THEN {".."} ELSE {})
                    \cup (IF complained' THEN {"unset"} ELSE {})
  PROVE  path' \in Seq(Entries) /\ WayFrom(cwd)'
<1>1. PICK way \in [1..(Len(path) + 1) -> Dirs] : way[1] = d /\ Pwd!IsWay(way)
  BY DEF WayFrom
<1>2. path \in Seq(Entries) /\ Len(path) \in Nat
  BY DEF PwdTypes
<1>3. /\ path' \in Seq(Entries) /\ Len(path') = Len(path) + 1
      /\ path'[1] = found /\ \A k \in 1..Len(path) : path'[k + 1] = path[k]
  BY <1>2
<1>4. PICK longer \in [1..(Len(path') + 1) -> Dirs] :
        \A k \in 1..(Len(path') + 1) : longer[k] = IF k = 1 THEN cwd ELSE way[k - 1]
  <2> DEFINE way2 == [k \in 1..(Len(path') + 1) |-> IF k = 1 THEN cwd ELSE way[k - 1]]
  <2>1. way2 \in [1..(Len(path') + 1) -> Dirs]
    BY <1>2, <1>3 DEF PwdTypes
  <2>2. QED
    BY <2>1
<1>5. longer[1] = cwd' /\ longer[2] = d
  BY <1>1, <1>2, <1>3, <1>4
<1>6. longer[Len(path') + 1] = start
  BY <1>1, <1>2, <1>3, <1>4 DEF Pwd!IsWay
<1>7. ASSUME NEW k \in 1..Len(path')
      PROVE  /\ longer[k] \in had[longer[k + 1]] /\ ~Pwd!Top(longer[k + 1])'
             /\ path'[k] \in Pwd!NameFor(longer[k + 1], longer[k])'
  <2>1. CASE k = 1
    BY <1>3, <1>5, <2>1 DEF Pwd!Top, Pwd!IsRoot, Pwd!NameFor
  <2>2. CASE k # 1
    <3>1. k - 1 \in 1..Len(path) /\ (k - 1) + 1 = k
      BY <1>2, <1>3, <2>2
    <3>2. longer[k] = way[k - 1] /\ longer[k + 1] = way[k] /\ path'[k] = path[k - 1]
      BY <1>2, <1>3, <1>4, <2>2, <3>1
    <3>3. /\ way[k - 1] \in had[way[k]] /\ ~Pwd!Top(way[k])
          /\ path[k - 1] \in Pwd!NameFor(way[k], way[k - 1])
      BY <1>1, <3>1 DEF Pwd!IsWay
    <3>4. QED
      BY <3>2, <3>3 DEF Pwd!Top, Pwd!IsRoot, Pwd!NameFor
  <2>3. QED
    BY <2>1, <2>2
<1>8. Pwd!IsWay(longer)'
  BY <1>3, <1>6, <1>7 DEF Pwd!IsWay
<1>9. QED
  BY <1>3, <1>4, <1>5, <1>8 DEF WayFrom

LEMMA PwdInit == ASSUME Pwd!Init PROVE PwdInv
<1>1. /\ parent \in [Dirs -> Dirs] /\ Pwd!IsTree(parent)
      /\ dev \in [Dirs -> Dirs] /\ Pwd!AreDevs(parent, dev)
      /\ ino \in [Dirs -> Inos] /\ Pwd!IsNumbering(dev, ino)
      /\ had = [d \in Dirs |-> {parent[d]}] /\ start \in Dirs /\ cwd = start
      /\ path = <<>> /\ complained = FALSE
  BY DEF Pwd!Init
<1>2. PwdTypes
  <2>1. ino \in [Dirs -> Nat \ {0}]
    BY <1>1, DirsAssumption
  <2>2. path \in Seq(Entries)
    BY <1>1
  <2>3. had \in [Dirs -> SUBSET Dirs]
    BY <1>1
  <2>4. QED
    BY <1>1, <2>1, <2>2, <2>3 DEF PwdTypes
<1>3. ASSUME NEW d \in Dirs, parent[d] = d PROVE d = Root
  <2>1. Root \in Pwd!Above(parent, d)
    BY <1>1 DEF Pwd!IsTree
  <2>2. {d} \in SUBSET Dirs /\ \A x \in {d} : parent[x] \in {d}
    BY <1>3
  <2>3. QED
    BY <2>1, <2>2 DEF Pwd!Above
<1>4. FileSystems
  BY <1>1, <1>3 DEF FileSystems, Pwd!IsTree, Pwd!AreDevs
<1>5. WayFrom(cwd)
  <2> DEFINE way == [k \in 1..1 |-> start]
  <2>1. Len(path) = 0 /\ way \in [1..1 -> Dirs] /\ way[1] = start
    BY <1>1
  <2>2. Pwd!IsWay(way)
    BY <2>1 DEF Pwd!IsWay
  <2>3. QED
    BY <1>1, <2>1, <2>2 DEF WayFrom
<1>6. QED
  BY <1>1, <1>2, <1>4, <1>5 DEF PwdInv, Climb, Pwd!Init

\* A way stays one when a directory is moved.
LEMMA RenameStep == ASSUME PwdInv, Pwd!Rename PROVE PwdInv'
<1> USE DEF PwdInv
<1>1. PICK d \in Dirs, e \in Dirs : /\ dev[d] # d /\ dev[d] = dev[e]
                                    /\ d \notin Pwd!Above(parent, e)
                                    /\ parent' = [parent EXCEPT ![d] = e]
                                    /\ had' = [had EXCEPT ![d] = @ \cup {e}]
  BY DEF Pwd!Rename, Pwd!IsRoot
<1>2. UNCHANGED <<dev, ino, printpathto, cwd, start, this_node, path, complained>>
  BY DEF Pwd!Rename
<1>3. e # d
  BY <1>1 DEF Pwd!Above
<1>4. PwdTypes'
  BY <1>1, <1>2 DEF PwdTypes
<1>5. d # Root
  BY <1>1 DEF FileSystems
<1>6. FileSystems'
  <2>1. dev'[Root] = Root /\ parent'[Root] = Root /\ Pwd!IsNumbering(dev, ino)'
    BY <1>1, <1>2, <1>5, DirsAssumption DEF PwdTypes, FileSystems, Pwd!IsNumbering
  <2>2. ASSUME NEW x \in Dirs
        PROVE  /\ parent'[x] \in had'[x]
               /\ dev'[x] = x => had'[x] = {parent'[x]}
               /\ dev'[x] # x => \A y \in had'[x] : y # x /\ dev'[y] = dev'[x]
    <3>1. CASE x = d
      BY <1>1, <1>2, <1>3, <3>1 DEF PwdTypes, FileSystems
    <3>2. CASE x # d
      BY <1>1, <1>2, <3>2 DEF PwdTypes, FileSystems
    <3>3. QED
      BY <3>1, <3>2
  <2>3. QED
    BY <2>1, <2>2 DEF FileSystems
<1>7. \A x \in Dirs : had[x] \subseteq had'[x] /\ (Pwd!Top(x)' <=> Pwd!Top(x))
  BY <1>1, <1>2 DEF PwdTypes, Pwd!Top, Pwd!IsRoot
<1>8. ASSUME NEW top \in Dirs, WayFrom(top) PROVE WayFrom(top)'
  <2>1. PICK way \in [1..(Len(path) + 1) -> Dirs] : way[1] = top /\ Pwd!IsWay(way)
    BY <1>8 DEF WayFrom
  <2>2. Len(path) \in Nat
    BY DEF PwdTypes
  <2>3. ASSUME NEW k \in 1..Len(path)
        PROVE  /\ way[k] \in had'[way[k + 1]] /\ ~Pwd!Top(way[k + 1])'
               /\ path[k] \in Pwd!NameFor(way[k + 1], way[k])'
    <3>1. way[k] \in Dirs /\ way[k + 1] \in Dirs
      BY <2>2
    <3>2. /\ way[k] \in had[way[k + 1]] /\ ~Pwd!Top(way[k + 1])
          /\ path[k] \in Pwd!NameFor(way[k + 1], way[k])
      BY <2>1 DEF Pwd!IsWay
    <3>3. QED
      BY <1>2, <1>7, <3>1, <3>2 DEF Pwd!NameFor, Pwd!IsRoot
  <2>4. Pwd!IsWay(way)'
    BY <1>2, <2>1, <2>3 DEF Pwd!IsWay
  <2>5. QED
    BY <1>2, <2>1, <2>4 DEF WayFrom
<1>9. Climb'
  BY <1>2, <1>7, <1>8 DEF Climb, PwdTypes
<1>10. QED
  BY <1>4, <1>6, <1>9

\* Only the roots of file systems have the number of the directory above; and an
\* entry with the number looked for is that of the directory below, or, where that
\* is a root, the one that leads up to another.
LEMMA PwdStep == ASSUME PwdInv, Pwd!Next PROVE PwdInv'
<1> USE DEF PwdInv
<1>1. CASE Pwd!Rename
  BY <1>1, RenameStep
<1>2. SUFFICES ASSUME UNCHANGED <<parent, dev, ino, had, moves, start>>
               PROVE  PwdTypes' /\ Climb'
  BY <1>1 DEF Pwd!Next, Pwd!printpathto, Pwd!getinodeFails, Pwd!inum_to_name,
       Pwd!LookingFailed, Pwd!OpendirFails, Pwd!tree, FileSystems, Pwd!IsNumbering
<1>3. CASE Pwd!getinodeFails \/ Pwd!LookingFailed
  BY <1>2, <1>3 DEF Pwd!getinodeFails, Pwd!LookingFailed, PwdTypes, Climb
<1>4. CASE Pwd!printpathto
  <2>1. printpathto = "printpathto" /\ UNCHANGED <<this_node, path, complained>>
    BY <1>4 DEF Pwd!printpathto
  <2>2. this_node = ino[cwd] /\ WayFrom(cwd) /\ parent[cwd] \in Dirs
    BY <2>1 DEF Climb, PwdTypes
  <2>3. ASSUME NEW top \in Dirs, WayFrom(top) PROVE WayFrom(top)'
    BY <1>2, <2>1, <2>3 DEF WayFrom, Pwd!IsWay, Pwd!NameFor, Pwd!Top, Pwd!IsRoot
  <2>4. ino[parent[cwd]] = ino[cwd] <=> Pwd!Top(cwd)
    <3>1. Pwd!Top(cwd) => ino[parent[cwd]] = ino[cwd]
      BY <2>2 DEF PwdTypes, FileSystems, Pwd!IsNumbering, Pwd!Top, Pwd!IsRoot
    <3>2. dev[cwd] # cwd => ino[parent[cwd]] # ino[cwd]
      BY <2>2 DEF PwdTypes, FileSystems, Pwd!IsNumbering
    <3>3. dev[cwd] = cwd /\ ino[parent[cwd]] = ino[cwd] => dev[parent[cwd]] = parent[cwd]
      BY <2>2 DEF PwdTypes, FileSystems, Pwd!IsNumbering
    <3>4. QED
      BY <3>1, <3>2, <3>3 DEF Pwd!Top, Pwd!IsRoot
  <2>5. CASE Pwd!AtTop
    <3>1. printpathto' = "printed" /\ cwd' = cwd
      BY <1>4, <2>5 DEF Pwd!printpathto
    <3>2. Pwd!Top(cwd)
      BY <2>2, <2>4, <2>5 DEF Pwd!AtTop
    <3>3. PICK top \in Dirs : top = cwd
      BY DEF PwdTypes
    <3>4. Pwd!Top(top)' /\ WayFrom(top)'
      BY <1>2, <2>2, <2>3, <3>2, <3>3 DEF Pwd!Top, Pwd!IsRoot
    <3>5. QED
      BY <1>2, <2>1, <3>1, <3>4 DEF PwdTypes, Climb
  <2>6. CASE ~Pwd!AtTop
    <3>1. printpathto' = "inum_to_name" /\ cwd' = parent[cwd]
      BY <1>4, <2>6 DEF Pwd!printpathto
    <3>2. PICK d \in Dirs : d = cwd
      BY DEF PwdTypes
    <3>3. cwd' \in had[d] /\ ~Pwd!Top(d) /\ this_node = ino[d]
      BY <2>2, <2>4, <2>6, <3>1, <3>2 DEF Pwd!AtTop, FileSystems, PwdTypes
    <3>4. WayFrom(d)' /\ ~Pwd!Top(d)'
      BY <1>2, <2>2, <2>3, <3>2, <3>3 DEF Pwd!Top, Pwd!IsRoot
    <3>5. QED
      BY <1>2, <2>1, <2>2, <3>1, <3>3, <3>4 DEF PwdTypes, Climb
  <2>7. QED
    BY <2>5, <2>6
<1>5. ASSUME Pwd!inum_to_name \/ Pwd!OpendirFails PROVE PwdTypes' /\ Climb'
  <2>1. /\ printpathto = "inum_to_name" /\ printpathto' \in {"printpathto", "overrun"}
        /\ this_node' = ino[cwd] /\ cwd' = cwd /\ complained' \in BOOLEAN
        /\ complained => complained'
    BY <1>5 DEF Pwd!inum_to_name, Pwd!OpendirFails, PwdTypes
  <2>2. PICK d \in Dirs : cwd \in had[d] /\ ~Pwd!Top(d) /\ this_node = ino[d] /\ WayFrom(d)
    BY <2>1 DEF Climb
  <2>3. ASSUME NEW entry \in Pwd!Matches
        PROVE  /\ entry \in Entries
               /\ \/ entry = d /\ dev[d] # d
                  \/ entry = ".." /\ (dev[d] = d \/ d \in had[cwd])
    <3>1. entry \in Entries
      BY <2>3 DEF Pwd!Matches, Entries
    <3>2. /\ cwd \in Dirs /\ parent[cwd] \in had[cwd] /\ parent[cwd] \in Dirs
          /\ ino[d] # 0
      BY DEF PwdTypes, FileSystems
    <3>3. CASE dev[d] = d
      <4>1. ino[d] = Pwd!RootIno /\ cwd = parent[d] /\ dev[cwd] # cwd
        BY <2>2, <3>3 DEF FileSystems, Pwd!IsNumbering, Pwd!Top, Pwd!IsRoot
      <4>2. ino[cwd] # this_node
        BY <2>2, <3>2, <4>1 DEF FileSystems, Pwd!IsNumbering
      <4>3. \A x \in Dirs : Pwd!d_ino(x) # this_node
        BY <2>2, <4>1 DEF FileSystems, Pwd!IsNumbering, Pwd!d_ino, Pwd!IsRoot, Pwd!HiddenIno,
             Pwd!RootIno
      <4>4. entry = ".."
        BY <2>3, <4>2, <4>3 DEF Pwd!Matches
      <4>5. QED
        BY <3>1, <3>3, <4>4
    <3>4. CASE dev[d] # d
      <4>1. /\ ino[d] # Pwd!RootIno /\ cwd # d /\ dev[cwd] = dev[d]
            /\ \A x \in Dirs : dev[x] = dev[d] /\ ino[x] = ino[d] => x = d
        BY <2>2, <3>4 DEF FileSystems, Pwd!IsNumbering
      <4>2. ino[cwd] # this_node
        BY <2>2, <3>2, <4>1
      <4>3. ino[Pwd!DotDot] = this_node => d \in had[cwd]
        <5>1. CASE dev[cwd] = cwd
          BY <4>2, <5>1 DEF Pwd!DotDot, Pwd!IsRoot
        <5>2. CASE dev[cwd] # cwd
          <6>1. Pwd!DotDot = parent[cwd] /\ dev[parent[cwd]] = dev[cwd]
            BY <3>2, <5>2 DEF Pwd!DotDot, Pwd!IsRoot, FileSystems
          <6>2. QED
            BY <2>2, <3>2, <4>1, <6>1
        <5>3. QED
          BY <5>1, <5>2
      <4>4. ASSUME NEW x \in Dirs, parent[x] = cwd, Pwd!d_ino(x) = this_node PROVE x = d
        <5>1. dev[x] # x /\ ino[x] = ino[d]
          BY <2>2, <3>2, <4>4 DEF Pwd!d_ino, Pwd!IsRoot, Pwd!HiddenIno
        <5>2. dev[x] = dev[d]
          BY <4>1, <4>4, <5>1 DEF FileSystems
        <5>3. QED
          BY <4>1, <5>1, <5>2
      <4>5. entry = d \/ (entry = ".." /\ ino[Pwd!DotDot] = this_node)
        BY <2>3, <4>2, <4>4 DEF Pwd!Matches
      <4>6. QED
        BY <3>1, <3>4, <4>3, <4>5
    <3>5. QED
      BY <3>3, <3>4
  <2>4. PICK found \in Entries :
          /\ path' = <<found>> \o path
          /\ found \in (IF dev[d] = d THEN {} ELSE {d})
                        \cup (IF dev[d] = d \/ d \in had[cwd] THEN {".."} ELSE {})
                        \cup (IF complained' THEN {"unset"} ELSE {})
    <3>1. CASE Pwd!OpendirFails
      BY <3>1 DEF Pwd!OpendirFails, Entries
    <3>2. CASE Pwd!inum_to_name
      <4>1. PICK entry \in Pwd!Matches : path' = <<entry>> \o path
        BY <3>2 DEF Pwd!inum_to_name
      <4>2. QED
        BY <2>3, <4>1
    <3>3. QED
      BY <1>5, <3>1, <3>2
  <2>5. path' \in Seq(Entries) /\ WayFrom(cwd)'
    BY <1>2, <2>1, <2>2, <2>4, LongerWay
  <2>6. QED
    BY <1>2, <2>1, <2>5 DEF PwdTypes, Climb
<1>6. QED
  BY <1>1, <1>3, <1>4, <1>5 DEF Pwd!Next

\* In a tree of any size, whatever is mounted and moved and whatever cannot be read:
\* what is printed are the names on a way to the directory where mypwd1 was started,
\* from the first directory above it whose number is that of its "..".
THEOREM PathIsTrue == OneSpec => []TruePath
<1>1. OneInit => PwdInv
  <2>1. ASSUME PwdEnded PROVE PwdInv
    <3>1. /\ parent = [d \in Dirs |-> Root] /\ had = [d \in Dirs |-> {Root}]
          /\ dev = [d \in Dirs |-> d] /\ ino = [d \in Dirs |-> 2]
          /\ printpathto = "exited" /\ cwd = Root /\ start = Root
          /\ path = <<>> /\ complained = FALSE
      BY <2>1 DEF PwdEnded, Pwd!RootIno
    <3>2. PwdTypes
      <4>1. path \in Seq(Entries)
        BY <3>1
      <4>2. parent \in [Dirs -> Dirs] /\ dev \in [Dirs -> Dirs] /\ ino \in [Dirs -> Nat \ {0}]
        BY <3>1, DirsAssumption
      <4>3. had \in [Dirs -> SUBSET Dirs]
        BY <3>1, DirsAssumption
      <4>4. QED
        BY <3>1, <4>1, <4>2, <4>3, DirsAssumption DEF PwdTypes
    <3>3. FileSystems
      BY <3>1, DirsAssumption DEF FileSystems, Pwd!IsNumbering, Pwd!RootIno
    <3>4. QED
      BY <3>1, <3>2, <3>3 DEF PwdInv, Climb
  <2>2. QED
    BY <2>1, PwdInit DEF OneInit
<1>2. PwdInv /\ [OneNext]_all => PwdInv'
  <2>1. ASSUME PwdInv, UNCHANGED pwd PROVE PwdInv'
    <3>1. PwdTypes' /\ FileSystems'
      BY <2>1 DEF pwd, PwdInv, PwdTypes, FileSystems, Pwd!IsNumbering
    <3>2. ASSUME NEW top, WayFrom(top) PROVE WayFrom(top)'
      BY <2>1, <3>2 DEF pwd, WayFrom, Pwd!IsWay, Pwd!NameFor, Pwd!Top, Pwd!IsRoot
    <3>3. \A d \in Dirs : Pwd!Top(d)' <=> Pwd!Top(d)
      BY <2>1 DEF pwd, Pwd!Top, Pwd!IsRoot
    <3>4. Climb'
      BY <2>1, <3>2, <3>3 DEF pwd, PwdInv, Climb
    <3>5. QED
      BY <3>1, <3>4 DEF PwdInv
  <2>2. QED
    BY <2>1, PwdStep DEF OneNext, all
<1>3. PwdInv => TruePath
  BY DEF PwdInv, Climb, WayFrom, TruePath, Pwd!TruePath
<1>4. QED
  BY <1>1, <1>2, <1>3, PTL DEF OneSpec, all
-----------------------------------------------------------------------------
(* cp1 and cat1, for texts of any length, buffers of any size and any      *)
(* number of appends.                                                      *)

CopyTypeOK == /\ program \in {"cp1", "cat1"} /\ (program = "cat1" => same = FALSE)
              /\ copy \in {"cp1", "cat1"} => copy = program
              /\ {src, original, dst, out} \subseteq Seq(Bytes)
              /\ pos \in Nat /\ n_chars \in Int /\ fails \in Nat /\ same \in BOOLEAN
              /\ copy # "done" => buf \in [1..BUFFSIZE -> Bytes]

\* Where the bytes of the source are from: all from before it was opened are there,
\* but in a copy onto itself, where none is.
SourceInv == /\ pos <= Len(src)
             /\ copy = "open" => original = src /\ dst = <<>> /\ out = <<>> /\ pos = 0
             /\ copy = "done" => pos = Len(src)
             /\ same = FALSE => /\ Len(original) <= Len(src)
                                /\ \A k \in 1..Len(original) : src[k] = original[k]
             /\ same = TRUE /\ copy \notin {"open", "stopped"} => \A k \in 1..Len(src) : src[k] = Added

\* The bytes written and those read for the next write are the first of the source.
Copied(n) == \A k \in 1..n : dst[k] = src[k]
WrittenInv ==
  program = "cp1" /\ same = FALSE =>
    /\ copy \in {"read", "done"} => Len(dst) = pos /\ Copied(Len(dst))
    /\ copy = "cp1" => /\ n_chars \in 1..BUFFSIZE /\ Len(dst) + n_chars = pos /\ Copied(Len(dst))
                       /\ \A k \in 1..n_chars : buf[k] = src[Len(dst) + k]

\* A text without zeros, of which nothing has been appended to and no read has failed.
Plain == /\ program = "cat1" /\ fails = 0 /\ src = original
         /\ \A k \in 1..Len(src) : src[k] # "NUL"

\* It fits in a buffer that was clear: one read has it all, and one print.
Fits == Len(src) < BUFFSIZE /\ buf[BUFFSIZE] = "NUL"
ShortInv ==
  Plain /\ Fits =>
    /\ copy \in {"open", "read"} => \/ pos = 0 /\ out = <<>> /\ \A k \in 1..BUFFSIZE : buf[k] = "NUL"
                                    \/ pos = Len(src) /\ out = src
    /\ copy = "cat1" => /\ pos = Len(src) /\ out = <<>>
                        /\ \A k \in 1..Len(src) : buf[k] = src[k]
                        /\ \A k \in Len(src) + 1..BUFFSIZE : buf[k] = "NUL"
    /\ copy = "done" => out = src

\* It is longer, and no multiple: from the first block on no zero is left in the
\* buffer, and each print is of a block at least.
Longer == Len(src) > BUFFSIZE /\ Len(src) % BUFFSIZE # 0
NoZero == \A k \in 1..BUFFSIZE : buf[k] # "NUL"
LongInv ==
  Plain /\ Longer =>
    /\ copy = "read" => \/ /\ pos < Len(src) /\ pos % BUFFSIZE = 0
                           /\ Len(out) >= pos /\ (pos > 0 => NoZero)
                        \/ pos = Len(src) /\ Len(out) > pos
    /\ copy = "cat1" => /\ NoZero
                        /\ \/ pos < Len(src) /\ pos % BUFFSIZE = 0 /\ Len(out) + BUFFSIZE >= pos
                           \/ pos = Len(src) /\ Len(out) + BUFFSIZE > pos
    /\ copy = "done" => Len(out) > Len(src)

CopyInv == CopyTypeOK /\ SourceInv /\ WrittenInv /\ ShortInv /\ LongInv

LEMMA NextBlock ==
  /\ 0 % BUFFSIZE = 0
  /\ \A p \in Nat : p % BUFFSIZE = 0 => (p + BUFFSIZE) % BUFFSIZE = 0
<1>1. BUFFSIZE \in Nat \ {0}
  BY CopiesAssumption
<1>2. ASSUME NEW p \in Nat, p % BUFFSIZE = 0 PROVE (p + BUFFSIZE) % BUFFSIZE = 0
  <2>1. PICK q \in Nat : p = q * BUFFSIZE
    BY <1>1, <1>2, Z3
  <2>2. p + BUFFSIZE = (q + 1) * BUFFSIZE
    BY <1>1, <2>1
  <2>3. \A r \in Nat : (r * BUFFSIZE) % BUFFSIZE = 0
    BY <1>1, Z3
  <2>4. q + 1 \in Nat
    OBVIOUS
  <2>5. ((q + 1) * BUFFSIZE) % BUFFSIZE = 0
    BY <2>3, <2>4
  <2>6. QED
    BY <2>2, <2>5
<1>3. QED
  BY <1>1, <1>2

LEMMA CopyInit == ASSUME Copy!Init PROVE CopyInv
<1>1. /\ program \in {"cp1", "cat1"} /\ (program = "cat1" => same = FALSE) /\ same \in BOOLEAN
      /\ copy = "open" /\ src \in Contents /\ original = src /\ dst = <<>> /\ out = <<>>
      /\ pos = 0 /\ n_chars = 0 /\ fails = 0
      /\ \E b \in {"NUL", "?"} : buf = [k \in 1..BUFFSIZE |-> b]
  BY DEF Copy!Init
<1>2. CopyTypeOK
  BY <1>1, CopiesAssumption DEF CopyTypeOK
<1>3. SourceInv /\ WrittenInv /\ LongInv
  BY <1>1, <1>2, LenProperties DEF CopyTypeOK, SourceInv, WrittenInv, LongInv
<1>4. ShortInv
  BY <1>1, CopiesAssumption DEF ShortInv, Fits
<1>5. QED
  BY <1>2, <1>3, <1>4 DEF CopyInv

\* Whatever is in the buffer is a sequence of bytes as long as it.
LEMMA BufferText == ASSUME CopyTypeOK, copy # "done"
                    PROVE  buf \in Seq(Bytes) /\ Len(buf) = BUFFSIZE
BY CopiesAssumption DEF CopyTypeOK

LEMMA OpenCopy == ASSUME CopyInv, Copy!Open PROVE CopyInv'
<1>1. copy = "open" /\ UNCHANGED <<program, dst, same, pos, buf, n_chars, out, fails>>
  BY DEF Copy!Open, Copy!file
<1>2. CASE copy' = "stopped" /\ UNCHANGED <<src, original>>
  BY <1>1, <1>2 DEF CopyInv, CopyTypeOK, SourceInv, WrittenInv, Copied, ShortInv, LongInv, Plain
<1>3. CASE /\ copy' = "read" /\ original' = src
           /\ src' = IF same THEN <<>> ELSE src
  <2>1. CopyTypeOK /\ original = src /\ dst = <<>> /\ out = <<>> /\ pos = 0
    BY <1>1 DEF CopyInv, SourceInv
  <2>2. src' \in Seq(Bytes) /\ Len(src') \in Nat
    BY <1>3, <2>1 DEF CopyTypeOK
  <2>3. same = TRUE => Len(src') = 0
    BY <1>3
  <2>4. same = FALSE => src' = src
    BY <1>3
  <2>5. CopyTypeOK'
    BY <1>1, <1>3, <2>1, <2>2 DEF CopyTypeOK
  <2>6. SourceInv'
    BY <1>1, <1>3, <2>1, <2>2, <2>3, <2>4 DEF SourceInv, CopyTypeOK
  <2>7. WrittenInv'
    BY <1>1, <1>3, <2>1 DEF WrittenInv, Copied
  <2>8. ShortInv' /\ LongInv'
    <3>1. SUFFICES ASSUME Plain' PROVE ShortInv' /\ LongInv'
      BY DEF ShortInv, LongInv
    <3>2. same = FALSE /\ Plain /\ src' = src
      BY <1>1, <1>3, <2>1, <2>4, <3>1 DEF Plain, CopyTypeOK
    <3>3. ShortInv'
      BY <1>1, <1>3, <2>1, <3>2 DEF CopyInv, ShortInv, Fits, Plain
    <3>4. Longer' => pos' < Len(src')
      BY <1>1, <2>1, <2>2, CopiesAssumption DEF Longer
    <3>5. LongInv'
      BY <1>1, <1>3, <2>1, <3>4, NextBlock DEF LongInv
    <3>6. QED
      BY <3>3, <3>5
  <2>9. QED
    BY <2>5, <2>6, <2>7, <2>8 DEF CopyInv
<1>4. QED
  BY <1>1, <1>2, <1>3 DEF Copy!Open, Copy!file

\* What a read does to the buffer.
LEMMA ReadCopy == ASSUME CopyInv, Copy!Read PROVE CopyInv'
<1> DEFINE B == BUFFSIZE
           rest == Len(src) - pos
<1>1. /\ copy = "read" /\ UNCHANGED <<program, src, original, dst, same, out, fails>>
      /\ B \in Nat \ {0} /\ Len(src) \in Nat /\ pos \in Nat /\ pos <= Len(src)
      /\ src \in Seq(Bytes) /\ buf \in [1..B -> Bytes]
  BY CopiesAssumption, LenProperties DEF CopyInv, CopyTypeOK, SourceInv, Copy!Read, Copy!file
<1>2. PICK n \in Nat :
        /\ n = IF rest < B THEN rest ELSE B
        /\ n_chars' = n /\ pos' = pos + n
        /\ buf' = [k \in 1..B |-> IF k <= n THEN src[pos + k] ELSE buf[k]]
        /\ copy' = IF n = 0 THEN "done" ELSE program
  <2> DEFINE m == IF rest < B THEN rest ELSE B
  <2>1. m \in Nat
    BY <1>1
  <2>2. /\ n_chars' = m /\ pos' = pos + m
        /\ buf' = [k \in 1..B |-> IF k <= m THEN src[pos + k] ELSE buf[k]]
        /\ copy' = IF m = 0 THEN "done" ELSE program
    BY DEF Copy!Read
  <2>3. QED
    BY <2>1, <2>2
<1>3. n <= B /\ n <= rest /\ (n = 0 => rest = 0) /\ (n < B => n = rest)
  BY <1>1, <1>2
<1>4. /\ \A k \in 1..n : buf'[k] = src[pos + k] /\ src[pos + k] \in Bytes
      /\ \A k \in n + 1..B : buf'[k] = buf[k]
      /\ buf' \in [1..B -> Bytes]
  <2>1. \A k \in 1..n : pos + k \in 1..Len(src)
    BY <1>1, <1>3
  <2>2. \A k \in 1..n : src[pos + k] \in Bytes
    BY <1>1, <2>1
  <2>3. QED
    BY <1>1, <1>2, <1>3, <2>2
<1>5. CopyTypeOK'
  BY <1>1, <1>2, <1>4 DEF CopyInv, CopyTypeOK
<1>6. SourceInv'
  BY <1>1, <1>2, <1>3 DEF CopyInv, CopyTypeOK, SourceInv
<1>7. WrittenInv'
  <2>1. SUFFICES ASSUME program = "cp1", same = FALSE
                 PROVE  /\ copy' = "done" => Len(dst) = pos' /\ Copied(Len(dst))
                        /\ copy' = "cp1" => /\ n_chars' \in 1..B /\ Len(dst) + n_chars' = pos'
                                            /\ Copied(Len(dst))
                                            /\ \A k \in 1..n_chars' : buf'[k] = src[Len(dst) + k]
    BY <1>1, <1>2 DEF WrittenInv, Copied, CopyInv, CopyTypeOK
  <2>2. Len(dst) = pos /\ Copied(Len(dst))
    BY <1>1, <2>1 DEF CopyInv, WrittenInv
  <2>3. CASE n = 0
    BY <1>1, <1>2, <2>1, <2>2, <2>3
  <2>4. CASE n # 0
    <3>1. copy' = "cp1" /\ n_chars' = n /\ n \in 1..B /\ Len(dst) + n = pos'
      BY <1>1, <1>2, <1>3, <2>1, <2>2, <2>4
    <3>2. \A k \in 1..n : buf'[k] = src[Len(dst) + k]
      BY <1>4, <2>2
    <3>3. QED
      BY <2>2, <3>1, <3>2
  <2>5. QED
    BY <2>3, <2>4
<1>8. ShortInv'
  <2>1. SUFFICES ASSUME Plain', Fits' PROVE ShortInv'
    BY DEF ShortInv
  <2>2. Plain /\ Len(src) < B /\ program = "cat1" /\ buf[B] = "NUL"
    BY <1>1, <1>2, <1>3, <1>4, <2>1 DEF Plain, Fits
  <2>3. CASE pos = 0 /\ out = <<>> /\ \A k \in 1..B : buf[k] = "NUL"
    <3>1. n = Len(src) /\ pos' = Len(src)
      BY <1>1, <1>2, <2>2, <2>3
    <3>2. \A k \in 1..Len(src) : buf'[k] = src[k]
      BY <1>1, <1>4, <2>3, <3>1
    <3>3. \A k \in Len(src) + 1..B : buf'[k] = "NUL"
      BY <1>1, <1>4, <2>3, <3>1
    <3>4. CASE n = 0
      <4>1. src = <<>> /\ copy' = "done"
        BY <1>1, <1>2, <3>1, <3>4, EmptySeq
      <4>2. QED
        BY <1>1, <2>3, <4>1 DEF ShortInv
    <3>5. CASE n # 0
      BY <1>1, <1>2, <2>2, <2>3, <3>1, <3>2, <3>3, <3>5 DEF ShortInv
    <3>6. QED
      BY <3>4, <3>5
  <2>4. CASE pos = Len(src) /\ out = src
    <3>1. copy' = "done"
      BY <1>1, <1>2, <1>3, <2>4
    <3>2. QED
      BY <1>1, <2>4, <3>1 DEF ShortInv
  <2>5. QED
    BY <1>1, <2>2, <2>3, <2>4 DEF CopyInv, ShortInv, Fits
<1>9. LongInv'
  <2>1. SUFFICES ASSUME Plain', Longer' PROVE LongInv'
    BY DEF LongInv
  <2>2. Plain /\ Longer /\ program = "cat1"
    BY <1>1, <2>1 DEF Plain, Longer
  <2>3. CASE pos = Len(src) /\ Len(out) > pos
    <3>1. copy' = "done"
      BY <1>1, <1>2, <1>3, <2>3
    <3>2. QED
      BY <1>1, <2>3, <3>1 DEF LongInv
  <2>4. CASE /\ pos < Len(src) /\ pos % B = 0
             /\ Len(out) >= pos /\ (pos > 0 => NoZero)
    <3>1. n # 0 /\ copy' = "cat1" /\ Len(out) \in Nat
      BY <1>1, <1>2, <1>3, <2>2, <2>4, LenProperties DEF CopyInv, CopyTypeOK
    <3>2. \A k \in 1..n : buf'[k] # "NUL"
      <4>1. \A k \in 1..n : pos + k \in 1..Len(src)
        BY <1>1, <1>3
      <4>2. QED
        BY <1>4, <2>2, <4>1 DEF Plain
    <3>3. CASE n = B
      <4>1. NoZero'
        BY <3>2, <3>3 DEF NoZero
      <4>2. pos' = pos + B /\ pos' % B = 0 /\ pos' # Len(src)
        BY <1>1, <1>2, <2>2, <2>4, <3>3, NextBlock DEF Longer
      <4>3. pos' < Len(src') /\ Len(out') + B >= pos'
        BY <1>1, <1>2, <1>3, <2>4, <3>1, <3>3, <4>2
      <4>4. QED
        BY <3>1, <4>1, <4>2, <4>3 DEF LongInv
    <3>4. CASE n < B
      <4>1. n = rest /\ pos' = Len(src) /\ pos > 0
        BY <1>1, <1>2, <1>3, <2>2, <3>4 DEF Longer
      <4>2. NoZero'
        <5>1. ASSUME NEW k \in 1..B PROVE buf'[k] # "NUL"
          <6>1. k \in 1..n \/ k \in n + 1..B
            BY <1>1, <1>3
          <6>2. buf[k] # "NUL"
            BY <2>4, <4>1 DEF NoZero
          <6>3. QED
            BY <1>4, <3>2, <6>1, <6>2
        <5>2. QED
          BY <5>1 DEF NoZero
      <4>3. pos' = Len(src') /\ Len(out') + B > pos'
        BY <1>1, <1>2, <1>3, <2>4, <3>1, <3>4, <4>1
      <4>4. QED
        BY <3>1, <4>2, <4>3 DEF LongInv
    <3>5. QED
      BY <1>1, <1>3, <3>3, <3>4
  <2>5. QED
    BY <1>1, <2>2, <2>3, <2>4 DEF CopyInv, LongInv
<1>10. QED
  BY <1>5, <1>6, <1>7, <1>8, <1>9 DEF CopyInv

LEMMA FailCopy == ASSUME CopyInv, Copy!ReadFails PROVE CopyInv'
<1>1. /\ copy = "read" /\ n_chars' = -1
      /\ UNCHANGED <<program, src, original, dst, same, pos, buf, out>>
      /\ \/ program = "cp1" /\ copy' = "stopped" /\ fails' = fails
         \/ program = "cat1" /\ copy' = "cat1" /\ fails' = fails + 1
  BY DEF Copy!ReadFails, Copy!file
<1>2. CopyTypeOK'
  BY <1>1 DEF CopyInv, CopyTypeOK
<1>3. SourceInv' /\ WrittenInv'
  BY <1>1 DEF CopyInv, CopyTypeOK, SourceInv, WrittenInv, Copied
<1>4. ~Plain'
  BY <1>1 DEF CopyInv, CopyTypeOK, Plain
<1>5. QED
  BY <1>2, <1>3, <1>4 DEF CopyInv, ShortInv, LongInv

LEMMA WriteCopy == ASSUME CopyInv, Copy!Write PROVE CopyInv'
<1>1. /\ copy = "cp1" /\ UNCHANGED <<program, src, original, same, pos, buf, n_chars, out, fails>>
      /\ CopyTypeOK /\ {src, dst} \subseteq Seq(Bytes) /\ Len(dst) \in Nat
  BY LenProperties DEF Copy!Write, CopyInv, CopyTypeOK
<1>2. CASE copy' = "stopped" /\ dst' = dst
  BY <1>1, <1>2 DEF CopyInv, CopyTypeOK, SourceInv, WrittenInv, ShortInv, LongInv
<1>3. CASE copy' = "read" /\ dst' = IF same THEN dst ELSE dst \o SubSeq(buf, 1, n_chars)
  <2>1. program = "cp1"
    BY <1>1 DEF CopyTypeOK
  <2>2. CASE same = TRUE
    BY <1>1, <1>3, <2>1, <2>2 DEF CopyInv, CopyTypeOK, SourceInv, WrittenInv, ShortInv, LongInv, Plain
  <2>3. CASE same = FALSE
    <3>1. /\ n_chars \in 1..BUFFSIZE /\ Len(dst) + n_chars = pos /\ Copied(Len(dst))
          /\ \A k \in 1..n_chars : buf[k] = src[Len(dst) + k]
      BY <1>1, <2>1, <2>3 DEF CopyInv, WrittenInv
    <3>2. buf \in Seq(Bytes) /\ Len(buf) = BUFFSIZE /\ BUFFSIZE \in Nat
      BY <1>1, BufferText, CopiesAssumption
    <3>3. /\ SubSeq(buf, 1, n_chars) \in Seq(Bytes) /\ Len(SubSeq(buf, 1, n_chars)) = n_chars
          /\ \A k \in 1..n_chars : SubSeq(buf, 1, n_chars)[k] = buf[k]
      BY <3>1, <3>2
    <3>4. dst' = dst \o SubSeq(buf, 1, n_chars)
      BY <1>3, <2>3
    <3>5. /\ dst' \in Seq(Bytes) /\ Len(dst') = pos
          /\ \A k \in 1..Len(dst) : dst'[k] = dst[k]
          /\ \A k \in 1..n_chars : dst'[Len(dst) + k] = buf[k]
      BY <1>1, <3>1, <3>3, <3>4
    <3>6. ASSUME NEW k \in 1..pos PROVE dst'[k] = src[k]
      <4>1. CASE k \in 1..Len(dst)
        BY <3>1, <3>5, <4>1 DEF Copied
      <4>2. CASE k \notin 1..Len(dst)
        <5>1. k - Len(dst) \in 1..n_chars /\ Len(dst) + (k - Len(dst)) = k
          BY <1>1, <3>1, <4>2
        <5>2. dst'[Len(dst) + (k - Len(dst))] = src[Len(dst) + (k - Len(dst))]
          BY <3>1, <3>5, <5>1
        <5>3. QED
          BY <5>1, <5>2
      <4>3. QED
        BY <4>1, <4>2
    <3>7. CopyTypeOK'
      BY <1>1, <1>3, <3>5 DEF CopyTypeOK
    <3>8. SourceInv'
      BY <1>1, <1>3 DEF CopyInv, SourceInv
    <3>9. WrittenInv'
      BY <1>1, <1>3, <3>5, <3>6 DEF WrittenInv, Copied
    <3>10. ShortInv' /\ LongInv'
      BY <1>1, <2>1 DEF ShortInv, LongInv, Plain
    <3>11. QED
      BY <3>7, <3>8, <3>9, <3>10 DEF CopyInv
  <2>4. QED
    BY <1>1, <2>2, <2>3 DEF CopyTypeOK
<1>4. QED
  BY <1>1, <1>2, <1>3 DEF Copy!Write

LEMMA Least == ASSUME NEW S \in SUBSET Nat, S # {} PROVE \E m \in S : \A j \in S : m <= j
<1>1. PICK m \in S : \A j \in S : <<j, m>> \notin OpToRel(<, Nat)
  BY NatLessThanWellFounded, WFMin
<1>2. \A j \in S : ~(j < m)
  BY <1>1 DEF OpToRel
<1>3. QED
  BY <1>2

\* What is printed ends at the first zero, and where there is none not before the
\* end of the buffer.
LEMMA PrintCopy == ASSUME CopyInv, Copy!Printf PROVE CopyInv'
<1> DEFINE B == BUFFSIZE
<1>1. /\ copy = "cat1" /\ copy' = "read"
      /\ UNCHANGED <<program, src, original, dst, same, pos, buf, n_chars, fails>>
      /\ program = "cat1" /\ {src, out} \subseteq Seq(Bytes) /\ Len(src) \in Nat
      /\ Len(out) \in Nat /\ buf \in Seq(Bytes) /\ Len(buf) = B /\ B \in Nat \ {0}
  BY BufferText, CopiesAssumption, LenProperties DEF Copy!Printf, Copy!file, CopyInv, CopyTypeOK
<1>2. \/ \E e \in Copy!Ends : (\A j \in Copy!Ends : e <= j) /\ out' = out \o SubSeq(buf, 1, e - 1)
      \/ Copy!Ends = {} /\ out' \in {out \o buf, out \o Append(buf, "?")}
  <2>1. CASE Copy!Ends # {}
    <3>1. Copy!Ends \in SUBSET Nat
      BY <1>1 DEF Copy!Ends
    <3>2. \E e \in Copy!Ends : \A j \in Copy!Ends : e <= j
      BY <2>1, <3>1, Least
    <3>3. DEFINE e == CHOOSE k \in Copy!Ends : \A j \in Copy!Ends : k <= j
    <3>4. e \in Copy!Ends /\ \A j \in Copy!Ends : e <= j
      BY <3>2
    <3>5. out' = out \o SubSeq(buf, 1, e - 1)
      BY <2>1 DEF Copy!Printf
    <3>6. QED
      BY <3>4, <3>5
  <2>2. CASE Copy!Ends = {}
    BY <2>2 DEF Copy!Printf
  <2>3. QED
    BY <2>1, <2>2
<1>3. out' \in Seq(Bytes)
  <2>1. ASSUME NEW e \in Copy!Ends PROVE out \o SubSeq(buf, 1, e - 1) \in Seq(Bytes)
    <3>1. e - 1 \in 0..Len(buf)
      BY <1>1 DEF Copy!Ends
    <3>2. SubSeq(buf, 1, e - 1) \in Seq(Bytes)
      BY <1>1, <3>1
    <3>3. QED
      BY <1>1, <3>2
  <2>2. out \o buf \in Seq(Bytes) /\ out \o Append(buf, "?") \in Seq(Bytes)
    BY <1>1, CopiesAssumption, AppendProperties
  <2>3. QED
    BY <1>2, <2>1, <2>2
<1>4. CopyTypeOK' /\ SourceInv' /\ WrittenInv'
  BY <1>1, <1>3 DEF CopyInv, CopyTypeOK, SourceInv, WrittenInv
<1>5. ShortInv'
  <2>1. SUFFICES ASSUME Plain, Fits PROVE pos = Len(src) /\ out' = src
    BY <1>1 DEF ShortInv, Plain, Fits
  <2>2. /\ pos = Len(src) /\ out = <<>> /\ Len(src) < B
        /\ \A k \in 1..Len(src) : buf[k] = src[k] /\ src[k] # "NUL"
        /\ \A k \in Len(src) + 1..B : buf[k] = "NUL"
    BY <1>1, <2>1 DEF CopyInv, ShortInv, Fits, Plain
  <2>3. Len(src) + 1 \in Copy!Ends /\ \A e \in Copy!Ends : e >= Len(src) + 1 /\ e \in Nat
    BY <1>1, <2>2 DEF Copy!Ends
  <2>4. PICK e \in Copy!Ends : (\A j \in Copy!Ends : e <= j) /\ out' = out \o SubSeq(buf, 1, e - 1)
    BY <1>2, <2>3
  <2>5. e - 1 = Len(src)
    BY <1>1, <2>3, <2>4
  <2>6. SubSeq(buf, 1, Len(src)) = src
    <3>1. /\ SubSeq(buf, 1, Len(src)) \in Seq(Bytes) /\ Len(SubSeq(buf, 1, Len(src))) = Len(src)
          /\ \A k \in 1..Len(src) : SubSeq(buf, 1, Len(src))[k] = buf[k]
      BY <1>1, <2>2
    <3>2. QED
      BY <1>1, <2>2, <3>1, SeqEqual
  <2>7. out' = <<>> \o src
    BY <2>2, <2>4, <2>5, <2>6
  <2>8. QED
    BY <1>1, <2>2, <2>7, ConcatEmptySeq
<1>6. LongInv'
  <2>1. SUFFICES ASSUME Plain, Longer
                 PROVE  \/ /\ pos < Len(src) /\ pos % B = 0
                           /\ Len(out') >= pos /\ NoZero
                        \/ pos = Len(src) /\ Len(out') > pos
    BY <1>1 DEF LongInv, Plain, Longer, NoZero
  <2>2. NoZero /\ \/ pos < Len(src) /\ pos % B = 0 /\ Len(out) + B >= pos
                  \/ pos = Len(src) /\ Len(out) + B > pos
    BY <1>1, <2>1 DEF CopyInv, LongInv
  <2>3. Copy!Ends = {}
    BY <2>2 DEF NoZero, Copy!Ends
  <2>4. Len(out') >= Len(out) + B /\ Len(out') \in Nat
    <3>1. CASE out' = out \o buf
      BY <1>1, <3>1
    <3>2. CASE out' = out \o Append(buf, "?")
      <4>1. Append(buf, "?") \in Seq(Bytes) /\ Len(Append(buf, "?")) = B + 1
        BY <1>1, CopiesAssumption, AppendProperties
      <4>2. QED
        BY <1>1, <3>2, <4>1
    <3>3. QED
      BY <1>2, <2>3, <3>1, <3>2
  <2>5. pos \in Nat
    BY DEF CopyInv, CopyTypeOK
  <2>6. QED
    BY <1>1, <2>2, <2>4, <2>5
<1>7. QED
  BY <1>4, <1>5, <1>6 DEF CopyInv

\* What is appended comes behind all, and the text is no longer the one opened.
LEMMA AppendCopy == ASSUME CopyInv, Copy!AppendByte PROVE CopyInv'
<1>1. /\ copy \notin {"open", "done", "stopped"} /\ src' = Append(src, Added)
      /\ UNCHANGED <<program, copy, original, dst, same, pos, buf, n_chars, out, fails>>
      /\ src \in Seq(Bytes) /\ Added \in Bytes /\ original \in Seq(Bytes)
      /\ Len(src) \in Nat /\ Len(original) \in Nat
  BY CopiesAssumption, LenProperties DEF Copy!AppendByte, CopyInv, CopyTypeOK
<1>2. /\ src' \in Seq(Bytes) /\ Len(src') = Len(src) + 1 /\ src'[Len(src) + 1] = Added
      /\ \A k \in 1..Len(src) : src'[k] = src[k]
  BY <1>1, AppendProperties
<1>3. CopyTypeOK'
  BY <1>1, <1>2 DEF CopyInv, CopyTypeOK
<1>4. SourceInv'
  BY <1>1, <1>2 DEF CopyInv, CopyTypeOK, SourceInv
<1>5. WrittenInv'
  <2>1. SUFFICES ASSUME program = "cp1", same = FALSE PROVE WrittenInv'
    BY <1>1 DEF WrittenInv, CopyInv, CopyTypeOK
  <2>2. pos \in Nat /\ pos <= Len(src) /\ Len(dst) \in Nat
    BY LenProperties DEF CopyInv, CopyTypeOK, SourceInv
  <2>3. CASE copy = "cp1"
    <3>1. /\ n_chars \in 1..BUFFSIZE /\ Len(dst) + n_chars = pos /\ Copied(Len(dst))
          /\ \A k \in 1..n_chars : buf[k] = src[Len(dst) + k]
      BY <2>1, <2>3 DEF CopyInv, WrittenInv
    <3>2. \A k \in 1..n_chars : Len(dst) + k \in 1..Len(src)
      BY <2>2, <3>1
    <3>3. \A k \in 1..n_chars : buf[k] = src'[Len(dst) + k]
      BY <1>2, <3>1, <3>2
    <3>4. Copied(Len(dst))'
      BY <1>1, <1>2, <2>2, <3>1 DEF Copied
    <3>5. QED
      BY <1>1, <2>3, <3>1, <3>3, <3>4 DEF WrittenInv
  <2>4. CASE copy = "read"
    BY <1>1, <1>2, <2>1, <2>2, <2>4 DEF CopyInv, WrittenInv, Copied
  <2>5. QED
    BY <1>1, <2>3, <2>4 DEF WrittenInv
<1>6. ~Plain'
  <2>1. SUFFICES ASSUME program = "cat1", src' = original PROVE FALSE
    BY <1>1 DEF Plain
  <2>2. Len(original) <= Len(src)
    BY <2>1 DEF CopyInv, CopyTypeOK, SourceInv
  <2>3. QED
    BY <1>1, <1>2, <2>1, <2>2
<1>7. QED
  BY <1>3, <1>4, <1>5, <1>6 DEF CopyInv, ShortInv, LongInv

\* A copy is the source, and of a file copied onto itself nothing is left; cat1
\* prints a short text rightly and a tail of the block before once more of a
\* longer one: for every text and size of the buffer.
THEOREM CopiedOrLost == OneSpec => []BlocksCopied
<1>1. OneInit => CopyInv
  <2>1. SUFFICES ASSUME CopyEnded PROVE CopyInv
    BY CopyInit DEF OneInit
  <2>2. /\ program = "cp1" /\ copy = "done" /\ src = <<>> /\ original = <<>> /\ dst = <<>>
        /\ same = FALSE /\ pos = 0 /\ n_chars = 0 /\ out = <<>> /\ fails = 0
    BY <2>1 DEF CopyEnded
  <2>3. <<>> \in Seq(Bytes) /\ Len(<<>>) = 0
    OBVIOUS
  <2>4. CopyTypeOK
    <3>1. {src, original, dst, out} \subseteq Seq(Bytes)
      BY <2>2, <2>3
    <3>2. pos \in Nat /\ n_chars \in Int /\ fails \in Nat
      BY <2>2
    <3>3. same \in BOOLEAN
      BY <2>2, Zenon
    <3>4. QED
      BY <2>2, <3>1, <3>2, <3>3 DEF CopyTypeOK
  <2>5. SourceInv
    BY <2>2 DEF SourceInv
  <2>6. WrittenInv
    BY <2>2 DEF WrittenInv, Copied
  <2>7. ShortInv /\ LongInv
    BY <2>2 DEF ShortInv, LongInv, Plain
  <2>8. QED
    BY <2>4, <2>5, <2>6, <2>7 DEF CopyInv
<1>2. CopyInv /\ [OneNext]_all => CopyInv'
  <2>1. SUFFICES ASSUME CopyInv, [OneNext]_all PROVE CopyInv'
    OBVIOUS
  <2>2. CASE UNCHANGED copies
    BY <2>1, <2>2 DEF copies, CopyInv, CopyTypeOK, SourceInv, WrittenInv, Copied, ShortInv, LongInv,
                      Plain, Fits, Longer, NoZero
  <2>3. QED
    BY <2>1, <2>2, OpenCopy, ReadCopy, FailCopy, WriteCopy, PrintCopy, AppendCopy
       DEF OneNext, all, Copy!Next
<1>3. CopyInv => BlocksCopied
  <2>1. SUFFICES ASSUME CopyInv PROVE Copy!CopyExact /\ Copy!StaleTail
    BY DEF BlocksCopied
  <2>2. Copy!CopyExact
    <3>1. SUFFICES ASSUME program = "cp1", copy = "done"
                   PROVE  /\ pos = Len(src)
                          /\ IF same THEN \A k \in DOMAIN src : src[k] = Added
                             ELSE dst = src /\ SubSeq(dst, 1, Len(original)) = original
      BY DEF Copy!CopyExact
    <3>2. /\ {src, original, dst} \subseteq Seq(Bytes) /\ same \in BOOLEAN /\ pos = Len(src)
          /\ DOMAIN src = 1..Len(src) /\ Len(original) \in Nat
      BY <2>1, <3>1, LenProperties DEF CopyInv, CopyTypeOK, SourceInv
    <3>3. CASE same = TRUE
      BY <2>1, <3>1, <3>2, <3>3 DEF CopyInv, SourceInv
    <3>4. CASE same = FALSE
      <4>1. Len(dst) = Len(src) /\ \A k \in 1..Len(dst) : dst[k] = src[k]
        BY <2>1, <3>1, <3>2, <3>4 DEF CopyInv, WrittenInv, Copied
      <4>2. dst = src
        BY <3>2, <4>1, SeqEqual
      <4>3. Len(original) <= Len(src) /\ \A k \in 1..Len(original) : src[k] = original[k]
        BY <2>1, <3>4 DEF CopyInv, SourceInv
      <4>4. /\ SubSeq(src, 1, Len(original)) \in Seq(Bytes)
            /\ Len(SubSeq(src, 1, Len(original))) = Len(original)
            /\ \A k \in 1..Len(original) : SubSeq(src, 1, Len(original))[k] = src[k]
        BY <3>2, <4>3
      <4>5. SubSeq(src, 1, Len(original)) = original
        BY <3>2, <4>3, <4>4, SeqEqual
      <4>6. QED
        BY <3>2, <3>4, <4>2, <4>5
    <3>5. QED
      BY <3>2, <3>3, <3>4
  <2>3. Copy!StaleTail
    <3>1. SUFFICES ASSUME program = "cat1", copy = "done", fails = 0, src = original,
                          \A k \in 1..Len(src) : src[k] # "NUL"
                   PROVE  /\ (Len(src) < BUFFSIZE /\ buf[BUFFSIZE] = "NUL") => out = src
                          /\ (Len(src) > BUFFSIZE /\ Len(src) % BUFFSIZE # 0) => Len(out) > Len(src)
      BY DEF Copy!StaleTail
    <3>2. Plain
      BY <3>1 DEF Plain
    <3>3. QED
      BY <2>1, <3>1, <3>2 DEF CopyInv, ShortInv, LongInv, Fits, Longer
  <2>4. QED
    BY <2>2, <2>3
<1>4. QED
  BY <1>1, <1>2, <1>3, PTL DEF OneSpec, all
-----------------------------------------------------------------------------
(* ls3, for directories of any size, any order of their names and any      *)
(* size of the stream's buffer and of the window.                          *)

Listing == {"readdir", "qsort", "print", "closed"}

LsTypeOK == /\ files \in [Places -> SUBSET Names] /\ dir \in Places
            /\ flag \in {"ls", "ls_l"} /\ do_ls \in Listing \cup {"chdir", "opendir", "exited", "stopped"}
            /\ do_ls \notin {"exited", "stopped"} => av \in ArgLists /\ ac \in 0..Len(av)
            /\ ever \subseteq Names /\ wraps \in Nat

\* What the stream has read at once are entries that have been there, in the order
\* of the directory, and all of those that were there all the time and are not beyond.
StreamInv == /\ buffer \in Seq(Nat) /\ filled = Len(buffer) /\ at \in 0..filled /\ last \in Int
             /\ wraps = 0 => buffer = <<>> /\ last = -1
             /\ \A k \in 1..filled : buffer[k] \in ever /\ buffer[k] <= last
             /\ \A j, k \in 1..filled : j < k => buffer[j] < buffer[k]
             /\ always \subseteq files[dir] /\ files[dir] \subseteq ever
             /\ \A n \in always : n > last \/ \E k \in 1..filled : n = buffer[k]

\* The array points to each entry that was taken, and once that is done to all.
ArrayInv == /\ array \in Seq(Nat) /\ Len(array) = at
            /\ do_ls = "readdir" => \A k \in 1..at : array[k] = k
            /\ \A k \in 1..at : array[k] \in 1..at
            /\ \A j, k \in 1..at : array[j] = array[k] => j = k
            /\ \A p \in 1..at : \E k \in 1..at : array[k] = p
            /\ do_ls # "readdir" => /\ at = filled
                                    /\ \A n \in always : \E k \in 1..filled : n = buffer[k]
            /\ do_ls = "qsort" => flag = "ls_l"
            /\ flag = "ls_l" /\ do_ls \in {"print", "closed"} =>
                 \A j, k \in 1..at : j < k => Before(buffer[array[j]], buffer[array[k]])

\* The names of the array that the loop has passed.
Passed == {buffer[array[k]] : k \in 1..i}

RowsInv == /\ i \in 0..at /\ rows \in Seq(Seq(Nat)) /\ rows # <<>>
           /\ do_ls \in {"readdir", "qsort"} => i = 0
           /\ do_ls = "closed" => i = at
           /\ \A s, t \in Ls!Spots : Ls!At(s) = Ls!At(t) => s = t
           /\ Ls!Shown \cup problems \subseteq Passed \cap Ls!Visible
           /\ Ls!Shown \cap problems = {}
           /\ always \cap Passed \cap Ls!Visible \subseteq Ls!Shown \cup problems
           /\ flag = "ls_l" => Ls!Sorted

ReadAtOnce == do_ls \in Listing /\ wraps <= 1

LsInv == LsTypeOK /\ (ReadAtOnce => StreamInv /\ ArrayInv /\ RowsInv)

\* The spots of the rows R, and what is there.
SpotsOf(R) == UNION {{r} \X DOMAIN R[r] : r \in DOMAIN R}
In(R, s) == R[s[1]][s[2]]
Comes(s, t) == s[1] < t[1] \/ (s[1] = t[1] /\ s[2] < t[2])

LEMMA SpotsAre ==
  ASSUME NEW R \in Seq(Seq(Nat))
  PROVE  /\ \A s \in SpotsOf(R) : /\ s[1] \in 1..Len(R) /\ s[2] \in 1..Len(R[s[1]])
                                  /\ s = <<s[1], s[2]>>
                                  /\ In(R, s) \in Nat
         /\ \A r \in 1..Len(R) : \A k \in 1..Len(R[r]) : <<r, k>> \in SpotsOf(R)
<1>1. DOMAIN R = 1..Len(R) /\ \A r \in 1..Len(R) : R[r] \in Seq(Nat) /\ DOMAIN R[r] = 1..Len(R[r])
  OBVIOUS
<1>2. ASSUME NEW s \in SpotsOf(R)
      PROVE  /\ s[1] \in 1..Len(R) /\ s[2] \in 1..Len(R[s[1]])
             /\ s = <<s[1], s[2]>>
             /\ In(R, s) \in Nat
  <2>1. PICK r \in 1..Len(R) : s \in {r} \X (1..Len(R[r]))
    BY <1>1 DEF SpotsOf
  <2>2. PICK k \in 1..Len(R[r]) : s = <<r, k>>
    BY <2>1
  <2>3. R[r][k] \in Nat
    BY <1>1
  <2>4. QED
    BY <2>2, <2>3 DEF In
<1>3. ASSUME NEW r \in 1..Len(R), NEW k \in 1..Len(R[r]) PROVE <<r, k>> \in SpotsOf(R)
  <2>1. <<r, k>> \in {r} \X DOMAIN R[r]
    BY <1>1
  <2>2. QED
    BY <1>1, <2>1 DEF SpotsOf
<1>4. QED
  BY <1>2, <1>3

\* What a name does to the rows, at the end of the last row or in a row of its own.
AddsSpot(R, S, n) ==
  /\ S \in Seq(Seq(Nat)) /\ S # <<>>
  /\ \E z \in SpotsOf(S) : /\ SpotsOf(S) = SpotsOf(R) \cup {z} /\ z \notin SpotsOf(R)
                           /\ In(S, z) = n
                           /\ \A s \in SpotsOf(R) : In(S, s) = In(R, s) /\ Comes(s, z) /\ ~Comes(z, s)

LEMMA AppendToRow ==
  ASSUME NEW R \in Seq(Seq(Nat)), R # <<>>, NEW n \in Nat
  PROVE  AddsSpot(R, [R EXCEPT ![Len(R)] = Append(@, n)], n)
<1> DEFINE m == Len(R)
           S == [R EXCEPT ![m] = Append(@, n)]
           z == <<m, Len(R[m]) + 1>>
<1>1. m \in Nat /\ m >= 1 /\ R[m] \in Seq(Nat) /\ Len(R[m]) \in Nat
  BY EmptySeq
<1>2. /\ S \in Seq(Seq(Nat)) /\ Len(S) = m /\ S # <<>>
      /\ S[m] = Append(R[m], n)
      /\ \A r \in 1..m : r # m => S[r] = R[r]
  BY <1>1
<1>3. /\ Len(S[m]) = Len(R[m]) + 1 /\ S[m][Len(R[m]) + 1] = n
      /\ \A k \in 1..Len(R[m]) : S[m][k] = R[m][k]
  <2>1. ASSUME NEW q \in Seq(Nat)
        PROVE  /\ Len(Append(q, n)) = Len(q) + 1 /\ Append(q, n)[Len(q) + 1] = n
               /\ \A k \in 1..Len(q) : Append(q, n)[k] = q[k]
    BY AppendProperties
  <2>2. QED
    BY <1>1, <1>2, <2>1
<1> HIDE DEF S
<1>4. z \in SpotsOf(S) /\ In(S, z) = n /\ z \notin SpotsOf(R)
  <2>1. z \in SpotsOf(S)
    <3>1. m \in 1..Len(S) /\ Len(R[m]) + 1 \in 1..Len(S[m])
      BY <1>1, <1>2, <1>3
    <3>2. QED
      BY <1>2, <3>1, SpotsAre
  <2>2. ASSUME z \in SpotsOf(R) PROVE FALSE
    <3>1. z[2] \in 1..Len(R[z[1]])
      BY <2>2, SpotsAre
    <3>2. QED
      BY <1>1, <3>1
  <2>3. QED
    BY <1>3, <2>1, <2>2 DEF In
<1>5. ASSUME NEW s \in SpotsOf(R)
      PROVE  s \in SpotsOf(S) /\ In(S, s) = In(R, s) /\ Comes(s, z) /\ ~Comes(z, s)
  <2>1. s[1] \in 1..m /\ s[2] \in 1..Len(R[s[1]]) /\ s = <<s[1], s[2]>>
    BY SpotsAre
  <2>2. CASE s[1] = m
    <3>1. s[2] \in 1..Len(R[m]) /\ s[2] \in 1..Len(S[m])
      BY <1>1, <1>3, <2>1, <2>2
    <3>2. <<m, s[2]>> \in SpotsOf(S)
      <4>1. m \in 1..Len(S)
        BY <1>1, <1>2
      <4>2. QED
        BY <1>2, <3>1, <4>1, SpotsAre
    <3>3. In(S, s) = In(R, s)
      BY <1>3, <2>2, <3>1 DEF In
    <3>4. Comes(s, z) /\ ~Comes(z, s)
      BY <1>1, <2>2, <3>1 DEF Comes
    <3>5. QED
      BY <2>1, <2>2, <3>2, <3>3, <3>4
  <2>3. CASE s[1] # m
    <3>1. s[1] < m /\ S[s[1]] = R[s[1]]
      BY <1>1, <1>2, <2>1, <2>3
    <3>2. <<s[1], s[2]>> \in SpotsOf(S)
      BY <1>2, <2>1, <3>1, SpotsAre
    <3>3. Comes(s, z) /\ ~Comes(z, s)
      BY <1>1, <2>1, <3>1 DEF Comes
    <3>4. QED
      BY <2>1, <3>1, <3>2, <3>3 DEF In
  <2>4. QED
    BY <2>2, <2>3
<1>6. ASSUME NEW s \in SpotsOf(S), s # z PROVE s \in SpotsOf(R)
  <2>1. s[1] \in 1..m /\ s[2] \in 1..Len(S[s[1]]) /\ s = <<s[1], s[2]>>
    BY <1>2, SpotsAre
  <2>2. s[2] \in 1..Len(R[s[1]])
    <3>1. CASE s[1] = m
      <4>1. s[2] # Len(R[m]) + 1
        BY <1>6, <2>1, <3>1
      <4>2. QED
        BY <1>1, <1>3, <2>1, <3>1, <4>1
    <3>2. CASE s[1] # m
      BY <1>2, <2>1, <3>2
    <3>3. QED
      BY <3>1, <3>2
  <2>3. QED
    BY <2>1, <2>2, SpotsAre
<1>7. QED
  BY <1>2, <1>4, <1>5, <1>6 DEF AddsSpot, S

\* An empty row has no spots.
LEMMA EmptyRow ==
  ASSUME NEW R \in Seq(Seq(Nat))
  PROVE  LET S == Append(R, <<>>)
         IN  /\ S \in Seq(Seq(Nat)) /\ S # <<>> /\ SpotsOf(S) = SpotsOf(R)
             /\ \A s \in SpotsOf(R) : In(S, s) = In(R, s)
<1> DEFINE S == Append(R, <<>>)
<1>1. /\ S \in Seq(Seq(Nat)) /\ Len(S) = Len(R) + 1 /\ S[Len(R) + 1] = <<>>
      /\ Len(R) \in Nat /\ S # <<>>
      /\ \A r \in 1..Len(R) : S[r] = R[r]
  <2>1. <<>> \in Seq(Nat) /\ Len(R) \in Nat
    BY EmptySeq
  <2>2. /\ S \in Seq(Seq(Nat)) /\ Len(S) = Len(R) + 1 /\ S[Len(R) + 1] = <<>>
        /\ \A r \in 1..Len(R) : S[r] = R[r]
    BY <2>1, AppendProperties
  <2>3. S # <<>>
    BY <2>1, <2>2
  <2>4. QED
    BY <2>1, <2>2, <2>3
<1> HIDE DEF S
<1>2. ASSUME NEW s \in SpotsOf(R) PROVE s \in SpotsOf(S) /\ In(S, s) = In(R, s)
  <2>1. s[1] \in 1..Len(R) /\ s[2] \in 1..Len(R[s[1]]) /\ s = <<s[1], s[2]>>
    BY SpotsAre
  <2>2. S[s[1]] = R[s[1]] /\ s[1] \in 1..Len(S)
    BY <1>1, <2>1
  <2>3. <<s[1], s[2]>> \in SpotsOf(S)
    BY <1>1, <2>1, <2>2, SpotsAre
  <2>4. QED
    BY <2>1, <2>2, <2>3 DEF In
<1>3. ASSUME NEW s \in SpotsOf(S) PROVE s \in SpotsOf(R)
  <2>1. s[1] \in 1..(Len(R) + 1) /\ s[2] \in 1..Len(S[s[1]]) /\ s = <<s[1], s[2]>>
    BY <1>1, SpotsAre
  <2>2. s[1] # Len(R) + 1
    BY <1>1, <2>1, EmptySeq
  <2>3. s[1] \in 1..Len(R) /\ s[2] \in 1..Len(R[s[1]])
    BY <1>1, <2>1, <2>2
  <2>4. QED
    BY <2>1, <2>3, SpotsAre
<1>4. QED
  BY <1>1, <1>2, <1>3 DEF S

\* A name after the last of a full row is the first of the next.
LEMMA RowOfItsOwn ==
  ASSUME NEW R \in Seq(Seq(Nat)), NEW n \in Nat
  PROVE  AddsSpot(R, Append(R, <<n>>), n)
<1> DEFINE E == Append(R, <<>>)
           S == [E EXCEPT ![Len(E)] = Append(@, n)]
<1>1. /\ E \in Seq(Seq(Nat)) /\ E # <<>> /\ SpotsOf(E) = SpotsOf(R)
      /\ \A s \in SpotsOf(R) : In(E, s) = In(R, s)
  BY EmptyRow
<1>2. AddsSpot(E, S, n)
  BY <1>1, AppendToRow
<1>3. S = Append(R, <<n>>)
  <2>1. Len(R) \in Nat /\ Len(E) = Len(R) + 1 /\ E[Len(R) + 1] = <<>>
    BY EmptySeq, AppendProperties
  <2>2. Append(<<>>, n) = <<n>>
    OBVIOUS
  <2>3. S = [E EXCEPT ![Len(R) + 1] = <<n>>]
    BY <2>1, <2>2
  <2>4. /\ <<n>> \in Seq(Nat) /\ <<>> \in Seq(Nat) /\ Len(R) \in Nat
        /\ R \in Seq(Seq(Nat))
    BY EmptySeq
  <2>5. DEFINE A == Append(R, <<n>>)
  <2>6. /\ A \in Seq(Seq(Nat)) /\ Len(A) = Len(R) + 1 /\ A[Len(R) + 1] = <<n>>
        /\ \A r \in 1..Len(R) : A[r] = R[r]
    BY <2>4, AppendProperties
  <2>7. /\ E \in Seq(Seq(Nat)) /\ \A r \in 1..Len(R) : E[r] = R[r]
    BY <2>4, AppendProperties
  <2>8. HIDE DEF A, E
  <2>9. /\ S \in Seq(Seq(Nat)) /\ Len(S) = Len(R) + 1 /\ S[Len(R) + 1] = <<n>>
        /\ \A r \in 1..Len(R) : S[r] = R[r]
    BY <2>1, <2>3, <2>4, <2>7
  <2>10. A = S
    <3>1. HIDE DEF S
    <3>2. ASSUME NEW r \in 1..Len(A) PROVE A[r] = S[r]
      <4>1. r \in 1..Len(R) \/ r = Len(R) + 1
        BY <2>4, <2>6
      <4>2. QED
        BY <2>6, <2>9, <4>1
    <3>3. QED
      BY <2>6, <2>9, <3>2, SeqEqual
  <2>11. QED
    BY <2>10 DEF A
<1>4. QED
  BY <1>1, <1>2, <1>3 DEF AddsSpot

LEMMA SpotsOfRows == /\ Ls!Spots = SpotsOf(rows)
                     /\ \A s : Ls!At(s) = In(rows, s)
                     /\ Ls!Shown = {In(rows, s) : s \in SpotsOf(rows)}
                     /\ Ls!Sorted <=> \A s, t \in SpotsOf(rows) : Comes(s, t) => Before(In(rows, s), In(rows, t))
<1>1. Ls!Spots = SpotsOf(rows) /\ (\A s : Ls!At(s) = In(rows, s)) /\ (\A s, t : Ls!Earlier(s, t) <=> Comes(s, t))
  BY DEF Ls!Spots, SpotsOf, Ls!At, In, Ls!Earlier, Comes
<1>2. QED
  BY <1>1 DEF Ls!Shown, Ls!Sorted

\* The loops of do_ls and do_ls_l: the next name is not one they have passed, and
\* passing it leaves the rows as they should be.
LEMMA PassName ==
  ASSUME LsInv, ReadAtOnce, do_ls = "print", i < at, i' = i + 1, do_ls' = "print",
         UNCHANGED <<buffer, filled, array, at, always, flag>>,
         \/ UNCHANGED <<rows, problems>> /\ Ls!Name \notin always \cap Ls!Visible
         \/ Ls!Name \in Ls!Visible /\ rows' = rows /\ problems' = problems \cup {Ls!Name}
         \/ Ls!Name \in Ls!Visible /\ AddsSpot(rows, rows', Ls!Name) /\ problems' = problems
  PROVE  RowsInv'
<1> DEFINE n == Ls!Name
<1>1. /\ i \in Nat /\ at \in Nat /\ i + 1 \in 1..at /\ n = buffer[array[i + 1]]
      /\ flag = "ls_l" => \A j \in 1..i : Before(buffer[array[j]], n)
  <2>1. i \in 0..at /\ at \in 0..filled /\ filled \in Nat
    BY DEF LsInv, RowsInv, StreamInv
  <2>2. i \in Nat /\ at \in Nat /\ i + 1 \in 1..at
    BY <2>1
  <2>3. ASSUME flag = "ls_l", NEW j \in 1..i PROVE Before(buffer[array[j]], buffer[array[i + 1]])
    <3>1. j \in 1..at /\ j < i + 1
      BY <2>2
    <3>2. QED
      BY <2>2, <2>3, <3>1 DEF LsInv, ArrayInv
  <2>4. QED
    BY <2>2, <2>3 DEF Ls!Name
<1>2. n \notin Passed /\ Passed' = Passed \cup {n}
  <2>1. ASSUME NEW k \in 1..i, buffer[array[k]] = n PROVE FALSE
    <3>1. k \in 1..at /\ k # i + 1
      BY <1>1
    <3>2. array[k] \in 1..filled /\ array[i + 1] \in 1..filled /\ array[k] # array[i + 1]
      BY <1>1, <3>1 DEF LsInv, ArrayInv, ReadAtOnce
    <3>3. \A j \in 1..filled : buffer[j] \in Nat
      BY DEF LsInv, StreamInv
    <3>4. \A b, c0 \in 1..filled : b < c0 => buffer[b] < buffer[c0]
      BY DEF LsInv, StreamInv
    <3>5. \A b, c0 \in 1..filled : b # c0 => buffer[b] # buffer[c0]
      BY <3>3, <3>4
    <3>6. QED
      BY <1>1, <2>1, <3>2, <3>5
  <2>2. n \notin Passed
    BY <2>1 DEF Passed
  <2>3. 1..(i + 1) = (1..i) \cup {i + 1}
    BY <1>1
  <2>4. Passed' = {buffer[array[k]] : k \in 1..(i + 1)}
    BY DEF Passed
  <2>5. QED
    BY <1>1, <2>2, <2>3, <2>4 DEF Passed
<1>3. Ls!Visible' = Ls!Visible
  BY DEF Ls!Visible
<1>4. /\ rows \in Seq(Seq(Nat)) /\ rows # <<>>
      /\ \A s, t \in SpotsOf(rows) : In(rows, s) = In(rows, t) => s = t
      /\ Ls!Shown \cup problems \subseteq Passed \cap Ls!Visible /\ Ls!Shown \cap problems = {}
      /\ always \cap Passed \cap Ls!Visible \subseteq Ls!Shown \cup problems
      /\ flag = "ls_l" => Ls!Sorted
  BY SpotsOfRows DEF LsInv, RowsInv
<1>5. i' \in 0..at' /\ do_ls' = "print"
  BY <1>1
<1>6. CASE /\ rows' = rows
           /\ \/ problems' = problems /\ n \notin always \cap Ls!Visible
              \/ problems' = problems \cup {n} /\ n \in Ls!Visible
  <2>1. Ls!Spots' = Ls!Spots /\ Ls!Shown' = Ls!Shown /\ (Ls!Sorted <=> Ls!Sorted')
        /\ \A s : Ls!At(s)' = Ls!At(s)
    BY <1>6 DEF Ls!Spots, Ls!Shown, Ls!Sorted, Ls!At
  <2>2. \A s, t \in Ls!Spots : Ls!At(s) = Ls!At(t) => s = t
    BY DEF LsInv, RowsInv
  <2>3. QED
    BY <1>2, <1>3, <1>4, <1>5, <1>6, <2>1, <2>2 DEF RowsInv
<1>7. CASE n \in Ls!Visible /\ AddsSpot(rows, rows', n) /\ problems' = problems
  <2>1. /\ Ls!Spots' = SpotsOf(rows') /\ Ls!Shown' = {In(rows', s) : s \in SpotsOf(rows')}
        /\ \A s : Ls!At(s)' = In(rows', s)
        /\ Ls!Sorted' <=> \A s, t \in SpotsOf(rows') : Comes(s, t) => Before(In(rows', s), In(rows', t))
    <3>1. (/\ Ls!Spots = SpotsOf(rows) /\ \A s : Ls!At(s) = In(rows, s)
           /\ Ls!Shown = {In(rows, s) : s \in SpotsOf(rows)}
           /\ Ls!Sorted <=> \A s, t \in SpotsOf(rows) : Comes(s, t) => Before(In(rows, s), In(rows, t)))'
      BY SpotsOfRows, PTL
    <3>2. QED
      BY <3>1
  <2>2. PICK z \in SpotsOf(rows') :
          /\ SpotsOf(rows') = SpotsOf(rows) \cup {z} /\ z \notin SpotsOf(rows)
          /\ In(rows', z) = n
          /\ \A s \in SpotsOf(rows) : In(rows', s) = In(rows, s) /\ Comes(s, z) /\ ~Comes(z, s)
    BY <1>7 DEF AddsSpot
  <2>3. rows' \in Seq(Seq(Nat)) /\ rows' # <<>>
    BY <1>7 DEF AddsSpot
  <2>4. Ls!Shown' = Ls!Shown \cup {n}
    BY <2>1, <2>2, SpotsOfRows
  <2>5. \A s \in SpotsOf(rows) : In(rows, s) \in Passed /\ In(rows, s) # n
    BY <1>2, <1>4, SpotsOfRows
  <2>6. \A s, t \in SpotsOf(rows') : In(rows', s) = In(rows', t) => s = t
    BY <1>4, <2>2, <2>5
  <2>7. ~Comes(z, z)
    BY <2>3, SpotsAre DEF Comes
  <2>8. ASSUME flag = "ls_l", NEW s \in SpotsOf(rows'), NEW t \in SpotsOf(rows'), Comes(s, t)
        PROVE  Before(In(rows', s), In(rows', t))
    <3>1. s \in SpotsOf(rows)
      BY <2>2, <2>7, <2>8
    <3>2. CASE t \in SpotsOf(rows)
      BY <1>4, <2>2, <2>8, <3>1, <3>2, SpotsOfRows
    <3>3. CASE t = z
      <4>1. PICK j \in 1..i : In(rows, s) = buffer[array[j]]
        BY <2>5, <3>1 DEF Passed
      <4>2. QED
        BY <1>1, <2>2, <2>8, <3>1, <3>3, <4>1
    <3>4. QED
      BY <2>2, <3>2, <3>3
  <2>9. QED
    BY <1>2, <1>3, <1>4, <1>5, <1>7, <2>1, <2>3, <2>4, <2>6, <2>8 DEF RowsInv
<1>8. QED
  BY <1>6, <1>7

\* Any step that leaves the rows and what has been passed alone.
LEMMA SameRows ==
  ASSUME RowsInv, UNCHANGED <<rows, problems, flag, i>>, Passed' = Passed, always' \subseteq always, i \in 0..at',
         do_ls' \in {"readdir", "qsort"} => i = 0,
         do_ls' = "closed" => i = at'
  PROVE  RowsInv'
<1>1. Ls!Spots' = Ls!Spots /\ Ls!Shown' = Ls!Shown /\ (Ls!Sorted <=> Ls!Sorted')
      /\ (\A s : Ls!At(s)' = Ls!At(s)) /\ Ls!Visible' = Ls!Visible
  BY DEF Ls!Spots, Ls!Shown, Ls!Sorted, Ls!At, Ls!Visible
<1>2. QED
  BY <1>1 DEF RowsInv

\* What main and the other processes start from, and what a program that is not
\* started is in.
LEMMA LsInit == Ls!Init \/ LsEnded => LsInv
<1>1. CASE Ls!Init
  <2>1. ac = Len(av) /\ av \in ArgLists /\ Len(av) \in Nat
    BY <1>1, LsAssumption DEF Ls!Init
  <2>2. QED
    BY <1>1, <2>1, LsAssumption DEF Ls!Init, LsInv, LsTypeOK, ReadAtOnce, Listing
<1>2. CASE LsEnded
  BY <1>2, LsAssumption DEF LsEnded, LsInv, LsTypeOK, ReadAtOnce, Listing
<1>3. QED
  BY <1>1, <1>2

\* main, up to the next directory: chdir leads to a directory.
LEMMA MainStep == ASSUME LsInv, Ls!chdir \/ Ls!NoWindow \/ Ls!NextDir PROVE LsInv'
<1>1. ~ReadAtOnce'
  BY DEF Ls!chdir, Ls!NoWindow, Ls!NextDir, ReadAtOnce, Listing
<1>2. dir' \in Places /\ (do_ls' \notin {"exited", "stopped"} => av' \in ArgLists /\ ac' \in 0..Len(av'))
  <2>1. CASE Ls!chdir /\ ac > 0
    <3>1. av \in ArgLists /\ ac \in 1..Len(av) /\ ac - 1 \in 0..Len(av)
      <4>1. av \in ArgLists /\ Len(av) \in Nat /\ ac \in 0..Len(av)
        BY <2>1, LsAssumption DEF LsInv, LsTypeOK, Ls!chdir
      <4>2. QED
        BY <2>1, <4>1
    <3>2. Resolve(dir, av[ac]) \in Places
      BY <3>1, LsAssumption DEF LsInv, LsTypeOK
    <3>3. QED
      BY <2>1, <3>1, <3>2 DEF Ls!chdir
  <2>2. CASE Ls!chdir /\ ~(ac > 0)
    BY <2>2 DEF Ls!chdir, LsInv, LsTypeOK
  <2>3. CASE Ls!NoWindow \/ Ls!NextDir
    BY <2>3 DEF Ls!NoWindow, Ls!NextDir, Ls!main, LsInv, LsTypeOK
  <2>4. QED
    BY <2>1, <2>2, <2>3
<1>3. UNCHANGED <<files, flag, ever, wraps>> /\ do_ls' \in {"exited", "opendir", "stopped", "chdir"}
  BY DEF Ls!chdir, Ls!NoWindow, Ls!NextDir, Ls!stream, Ls!main
<1>4. QED
  BY <1>1, <1>2, <1>3 DEF LsInv, LsTypeOK

\* A listing starts with empty hands.
LEMMA BeginStep == ASSUME LsInv, Ls!opendir PROVE LsInv'
<1>1. /\ buffer' = <<>> /\ filled' = 0 /\ at' = 0 /\ last' = -1 /\ wraps' = 0
      /\ array' = <<>> /\ i' = 0 /\ rows' = <<<<>>>> /\ problems' = {}
      /\ always' = files[dir] /\ ever' = files[dir]
      /\ do_ls' \in {"readdir", "chdir"} /\ UNCHANGED <<files, dir, flag, av, ac>>
  BY DEF Ls!opendir
<1>2. files[dir] \subseteq Names /\ LsTypeOK'
  BY <1>1 DEF Ls!opendir, LsInv, LsTypeOK, Listing
<1>3. <<>> \in Seq(Nat) /\ Len(<<>>) = 0
  BY EmptySeq
<1>4. ASSUME do_ls' = "readdir" PROVE StreamInv' /\ ArrayInv' /\ RowsInv'
  <2>1. \A n \in files[dir] : n > -1
    <3>1. files[dir] \subseteq Nat
      BY <1>2, LsAssumption
    <3>2. \A n \in Nat : n > -1
      OBVIOUS
    <3>3. QED
      BY <3>1, <3>2
  <2>2. StreamInv'
    BY <1>1, <1>3, <2>1 DEF StreamInv
  <2>3. ArrayInv'
    BY <1>1, <1>3, <1>4 DEF ArrayInv
  <2>4. rows' \in Seq(Seq(Nat)) /\ rows' # <<>> /\ Len(rows') = 1 /\ rows'[1] = <<>>
    BY <1>1, <1>3
  <2>5. \A s \in SpotsOf(rows') : FALSE
    BY <1>3, <2>4, SpotsAre
  <2>6. Ls!Spots' = {} /\ Ls!Shown' = {}
    <3>1. Ls!Spots' = SpotsOf(rows')
      BY DEF Ls!Spots, SpotsOf
    <3>2. Ls!Spots' = {}
      BY <2>5, <3>1
    <3>3. QED
      BY <3>2 DEF Ls!Shown
  <2>7. Ls!Sorted'
    BY <2>6 DEF Ls!Sorted
  <2>8. Passed' = {}
    BY <1>1 DEF Passed
  <2>9. QED
    BY <1>1, <1>4, <2>2, <2>3, <2>4, <2>6, <2>7, <2>8 DEF RowsInv
<1>5. QED
  BY <1>1, <1>2, <1>4 DEF LsInv, ReadAtOnce, Listing

\* The entry behind those that the array points to.
LEMMA OneMoreEntry ==
  ASSUME ArrayInv, do_ls = "readdir", do_ls' = "readdir", at \in Nat, Ls!Store(at + 1)
  PROVE  ArrayInv'
<1>1. array' = Append(array, at + 1) /\ at' = at + 1
  BY DEF Ls!Store
<1>2. /\ array \in Seq(Nat) /\ Len(array) = at
      /\ \A k \in 1..at : array[k] = k
  BY DEF ArrayInv
<1>3. /\ array' \in Seq(Nat) /\ Len(array') = at + 1 /\ array'[at + 1] = at + 1
      /\ \A k \in 1..at : array'[k] = array[k]
  BY <1>1, <1>2, AppendProperties
<1>4. \A k \in 1..(at + 1) : array'[k] = k
  <2>1. \A k \in 1..(at + 1) : k \in 1..at \/ k = at + 1
    OBVIOUS
  <2>2. QED
    BY <1>2, <1>3, <2>1
<1>5. QED
  BY <1>1, <1>3, <1>4 DEF ArrayInv

\* What getdents reads into an empty buffer; when it reads over something the
\* directory is not read at once.
LEMMA FirstEntries ==
  ASSUME LsInv, ReadAtOnce, do_ls = "readdir", at = filled, Ls!Getdents, Ls!Store(1), do_ls' = do_ls,
         UNCHANGED <<files, dir, always, ever, flag, i>>, ReadAtOnce'
  PROVE  StreamInv' /\ ArrayInv' /\ Passed' = {} /\ i = 0 /\ at' = 1
<1> USE DEF Listing
<1>1. wraps = 0 /\ wraps' = 1 /\ buffer = <<>> /\ filled = 0 /\ at = 0 /\ array = <<>> /\ last = -1
  <2>1. wraps' = wraps + 1 /\ wraps \in Nat /\ wraps' <= 1
    BY DEF Ls!Getdents, LsInv, LsTypeOK, ReadAtOnce
  <2>2. wraps = 0 /\ wraps' = 1
    BY <2>1
  <2>3. buffer = <<>> /\ last = -1 /\ filled = Len(buffer) /\ array \in Seq(Nat) /\ Len(array) = at
    BY <2>2 DEF LsInv, StreamInv, ArrayInv
  <2>4. QED
    BY <2>2, <2>3, EmptySeq
<1>2. PICK m \in 1..PerRead : \E new \in [1..m -> Ls!Unread] :
        /\ Ls!NextEntries(new)
        /\ buffer' = new \o SubSeq(buffer, m + 1, Len(buffer))
        /\ filled' = m
        /\ last' = new[m]
  BY DEF Ls!Getdents
<1>3. PICK new \in [1..m -> Ls!Unread] :
        /\ Ls!NextEntries(new)
        /\ buffer' = new \o SubSeq(buffer, m + 1, Len(buffer))
        /\ filled' = m
        /\ last' = new[m]
  BY <1>2
<1>4. m \in Nat /\ m >= 1
  BY LsAssumption
<1>5. Ls!Unread = {n \in files[dir] : n > last} /\ Ls!Unread \subseteq files[dir] /\ files[dir] \subseteq Nat
  BY LsAssumption DEF Ls!Unread, LsInv, LsTypeOK
<1>6. new \in Seq(Nat) /\ Len(new) = m /\ DOMAIN new = 1..m
  BY <1>4, <1>5
<1>7. buffer' = new
  <2>1. SubSeq(<<>>, m + 1, 0) = <<>>
    BY <1>4
  <2>2. new \o <<>> = new
    BY <1>6, ConcatEmptySeq
  <2>3. QED
    BY <1>1, <1>3, <2>1, <2>2, EmptySeq
<1>8. /\ \A j, k \in 1..m : j < k => new[j] < new[k]
      /\ \A n \in Ls!Unread : n > new[m] \/ \E k \in 1..m : n = new[k]
  BY <1>3, <1>6 DEF Ls!NextEntries, Ls!Increasing, Ls!Range
<1>9. StreamInv'
  <2>1. \A k \in 1..m : new[k] \in Nat /\ new[k] <= new[m]
    <3>1. ASSUME NEW k \in 1..m PROVE new[k] \in Nat /\ new[k] <= new[m]
      <4>1. new[k] \in Nat /\ new[m] \in Nat /\ m \in 1..m
        BY <1>4, <1>5
      <4>2. k = m \/ k < m
        BY <1>4
      <4>3. QED
        BY <1>8, <4>1, <4>2
    <3>2. QED
      BY <3>1
  <2>2. \A k \in 1..m : new[k] \in ever
    <3>1. Ls!Unread \subseteq ever
      BY <1>5 DEF LsInv, StreamInv
    <3>2. QED
      BY <3>1
  <2>3. always \subseteq Ls!Unread
    <3>1. always \subseteq files[dir]
      BY DEF LsInv, StreamInv
    <3>2. \A n \in Nat : n > -1
      OBVIOUS
    <3>3. QED
      BY <1>1, <1>5, <3>1, <3>2
  <2>4. at' = 1
    BY DEF Ls!Store
  <2>5. QED
    BY <1>1, <1>3, <1>4, <1>5, <1>6, <1>7, <1>8, <2>1, <2>2, <2>3, <2>4 DEF StreamInv, LsInv
<1>10. ArrayInv'
  BY <1>1, OneMoreEntry DEF LsInv
<1>11. i = 0 /\ Passed' = {}
  <2>1. i = 0 /\ i' = i
    BY DEF LsInv, RowsInv
  <2>2. QED
    BY <2>1 DEF Passed
<1>12. QED
  BY <1>9, <1>10, <1>11 DEF Ls!Store

\* readdir: an entry of the buffer, the first of a new one, or the end.
LEMMA ReaddirStep == ASSUME LsInv, Ls!readdir PROVE LsInv'
<1> USE DEF Listing
<1>1. /\ do_ls = "readdir" /\ do_ls' \in {"readdir", "print", "qsort"}
      /\ UNCHANGED <<files, dir, av, ac, flag, ever, always, i, rows, problems>>
  BY DEF Ls!readdir, Ls!main, Ls!screen
<1>2. LsTypeOK'
  <2>1. wraps' \in Nat
    BY DEF Ls!readdir, Ls!Getdents, Ls!stream, LsInv, LsTypeOK
  <2>2. QED
    BY <1>1, <2>1 DEF LsInv, LsTypeOK
<1>3. SUFFICES ASSUME ReadAtOnce' PROVE StreamInv' /\ ArrayInv' /\ RowsInv'
  BY <1>2 DEF LsInv
<1>4. ReadAtOnce
  <2>1. wraps' = wraps \/ wraps' = wraps + 1
    BY DEF Ls!readdir, Ls!Getdents, Ls!stream
  <2>2. wraps \in Nat /\ wraps' <= 1
    BY <1>3 DEF LsInv, LsTypeOK, ReadAtOnce
  <2>3. QED
    BY <1>1, <2>1, <2>2 DEF ReadAtOnce
<1>5. i = 0 /\ Passed' = {} /\ Passed = {}
  <2>1. i = 0 /\ i' = 0
    BY <1>1, <1>4 DEF LsInv, RowsInv
  <2>2. QED
    BY <2>1 DEF Passed
<1>6. filled \in Nat /\ at \in 0..filled
  BY <1>4 DEF LsInv, StreamInv
<1>7. CASE at < filled /\ UNCHANGED <<do_ls, buffer, filled, last, wraps>> /\ Ls!Store(at + 1)
  <2>1. at' = at + 1 /\ at' \in 0..filled'
    BY <1>6, <1>7 DEF Ls!Store
  <2>2. StreamInv'
    BY <1>1, <1>4, <1>7, <2>1 DEF LsInv, StreamInv
  <2>3. ArrayInv'
    BY <1>1, <1>4, <1>6, <1>7, OneMoreEntry DEF LsInv
  <2>4. RowsInv'
    BY <1>1, <1>4, <1>5, <1>6, <1>7, <2>1, SameRows DEF LsInv
  <2>5. QED
    BY <2>2, <2>3, <2>4
<1>8. CASE at = filled /\ Ls!Getdents /\ Ls!Store(1) /\ UNCHANGED do_ls
  <2>1. StreamInv' /\ ArrayInv' /\ at' = 1
    BY <1>1, <1>3, <1>4, <1>8, FirstEntries
  <2>2. RowsInv'
    BY <1>1, <1>4, <1>5, <1>8, <2>1, SameRows DEF LsInv
  <2>3. QED
    BY <2>1, <2>2
<1>9. CASE /\ at = filled /\ Ls!Unread = {} /\ do_ls' = IF flag = "ls" THEN "print" ELSE "qsort"
           /\ UNCHANGED <<Ls!stream, array>>
  <2>1. UNCHANGED <<buffer, filled, at, last, array, wraps>>
    BY <1>9 DEF Ls!stream
  <2>2. StreamInv'
    BY <1>1, <1>4, <2>1 DEF LsInv, StreamInv
  <2>3. \A n \in always : \E k \in 1..filled : n = buffer[k]
    BY <1>4, <1>9 DEF LsInv, StreamInv, Ls!Unread
  <2>4. flag \in {"ls", "ls_l"}
    BY DEF LsInv, LsTypeOK
  <2>5. ArrayInv'
    BY <1>1, <1>4, <1>9, <2>1, <2>3, <2>4 DEF LsInv, ArrayInv
  <2>6. RowsInv'
    BY <1>1, <1>4, <1>5, <1>6, <1>9, <2>1, SameRows DEF LsInv
  <2>7. QED
    BY <2>2, <2>5, <2>6
<1>10. QED
  BY <1>7, <1>8, <1>9 DEF Ls!readdir

\* qsort leaves an array of the same pointers, and the names that they point to in
\* order, since no two are the same.
LEMMA QsortStep == ASSUME LsInv, Ls!qsort PROVE LsInv'
<1> USE DEF Listing
<1>1. /\ do_ls = "qsort" /\ do_ls' = "print"
      /\ UNCHANGED <<files, dir, av, ac, flag, ever, always, i, rows, problems, buffer, filled, at, last, wraps>>
  BY DEF Ls!qsort, Ls!main, Ls!stream, Ls!screen
<1>2. LsTypeOK'
  BY <1>1 DEF LsInv, LsTypeOK
<1>3. SUFFICES ASSUME ReadAtOnce PROVE StreamInv' /\ ArrayInv' /\ RowsInv'
  BY <1>1, <1>2 DEF LsInv, ReadAtOnce
<1>4. PICK s \in Ls!Bijection(DOMAIN array, DOMAIN array) :
        /\ array' = [k \in DOMAIN array |-> array[s[k]]]
        /\ Ls!InOrder(array')
  BY DEF Ls!qsort
<1>5. /\ array \in Seq(Nat) /\ Len(array) = at /\ DOMAIN array = 1..at /\ at \in Nat /\ at = filled
      /\ flag = "ls_l"
      /\ \A k \in 1..at : array[k] \in 1..at
      /\ \A j, k \in 1..at : array[j] = array[k] => j = k
      /\ \A p \in 1..at : \E k \in 1..at : array[k] = p
  BY <1>1, <1>3 DEF LsInv, ArrayInv
<1>6. /\ \A k \in 1..at : s[k] \in 1..at
      /\ \A j, k \in 1..at : s[j] = s[k] => j = k
      /\ \A p \in 1..at : \E k \in 1..at : s[k] = p
  BY <1>4, <1>5 DEF Ls!Bijection, Ls!Injection, Ls!Surjection, Ls!IsInjective
<1>7. array' = [k \in 1..at |-> array[s[k]]]
  BY <1>4, <1>5
<1>8. array' \in Seq(Nat) /\ Len(array') = at /\ DOMAIN array' = 1..at
  <2>1. ASSUME NEW k \in 1..at PROVE array[s[k]] \in Nat
    <3>1. s[k] \in 1..at
      BY <1>6
    <3>2. array[s[k]] \in 1..at
      BY <1>5, <3>1
    <3>3. QED
      BY <1>5, <3>2
  <2>2. array' \in [1..at -> Nat]
    BY <1>7, <2>1
  <2>3. QED
    BY <1>5, <2>2
<1>9. \A k \in 1..at : array'[k] = array[s[k]]
  BY <1>7
<1>10. /\ \A k \in 1..at : array'[k] \in 1..at
       /\ \A j, k \in 1..at : array'[j] = array'[k] => j = k
       /\ \A p \in 1..at : \E k \in 1..at : array'[k] = p
  <2>1. ASSUME NEW p \in 1..at PROVE \E k \in 1..at : array'[k] = p
    <3>1. PICK q \in 1..at : array[q] = p
      BY <1>5
    <3>2. PICK k \in 1..at : s[k] = q
      BY <1>6
    <3>3. QED
      BY <1>9, <3>1, <3>2
  <2>2. ASSUME NEW k \in 1..at PROVE array'[k] \in 1..at
    <3>1. s[k] \in 1..at
      BY <1>6
    <3>2. QED
      BY <1>5, <1>9, <3>1
  <2>3. ASSUME NEW j \in 1..at, NEW k \in 1..at, array'[j] = array'[k] PROVE j = k
    <3>1. s[j] \in 1..at /\ s[k] \in 1..at /\ array[s[j]] = array[s[k]]
      BY <1>6, <1>9, <2>3
    <3>2. s[j] = s[k]
      BY <1>5, <3>1
    <3>3. QED
      BY <1>6, <3>2
  <2>4. QED
    BY <2>1, <2>2, <2>3
<1>11. \A j, k \in 1..at : j < k => Before(buffer[array'[j]], buffer[array'[k]])
  <2>1. ASSUME NEW j \in 1..at, NEW k \in 1..at, j < k
        PROVE  Before(buffer[array'[j]], buffer[array'[k]])
    <3>1. ~Before(buffer[array'[k]], buffer[array'[j]])
      BY <1>4, <1>8, <2>1 DEF Ls!InOrder
    <3>2. PICK a \in 1..filled, b \in 1..filled : a = array'[j] /\ b = array'[k] /\ a # b
      <4>1. array'[j] \in 1..at /\ array'[k] \in 1..at
        BY <1>10
      <4>2. j # k
        BY <1>5, <2>1
      <4>3. array'[j] # array'[k]
        BY <1>10, <4>2
      <4>4. QED
        BY <1>5, <4>1, <4>3
    <3>3. buffer[a] \in Names /\ buffer[b] \in Names /\ buffer[a] # buffer[b]
      <4>1. \A n, m \in 1..filled : n < m => buffer[n] < buffer[m]
        BY <1>3 DEF LsInv, StreamInv
      <4>2. buffer[a] \in Nat /\ buffer[b] \in Nat /\ buffer[a] \in ever /\ buffer[b] \in ever
        BY <1>3 DEF LsInv, StreamInv
      <4>3. ever \subseteq Names
        BY DEF LsInv, LsTypeOK
      <4>4. a < b \/ b < a
        <5>1. a \in Int /\ b \in Int
          OBVIOUS
        <5>2. QED
          BY <3>2, <5>1
      <4>5. QED
        BY <4>1, <4>2, <4>3, <4>4
    <3>4. QED
      BY <3>1, <3>2, <3>3, LsAssumption
  <2>2. QED
    BY <2>1
<1>12. StreamInv'
  BY <1>1, <1>3 DEF LsInv, StreamInv
<1>13. ArrayInv'
  BY <1>1, <1>3, <1>5, <1>8, <1>10, <1>11 DEF LsInv, ArrayInv
<1>14. RowsInv'
  <2>1. i = 0
    BY <1>1, <1>3 DEF LsInv, RowsInv
  <2>2. Passed' = {} /\ Passed = {}
    BY <1>1, <2>1 DEF Passed
  <2>3. QED
    BY <1>1, <1>3, <1>5, <2>1, <2>2, SameRows DEF LsInv
<1>15. QED
  BY <1>12, <1>13, <1>14

\* A step of a loop over the array: all but i, the rows and where ls3 is stay.
LoopStep == /\ do_ls = "print" /\ i < Len(array) /\ i' = i + 1 /\ do_ls' \in {"print", "stopped"}
            /\ UNCHANGED <<files, dir, av, ac, flag, ever, always, buffer, filled, at, last, wraps, array>>

LEMMA LoopKeeps == ASSUME LsInv, LoopStep, ReadAtOnce => do_ls' = "stopped" \/ RowsInv' PROVE LsInv'
<1> USE DEF Listing
<1>1. LsTypeOK'
  BY DEF LsInv, LsTypeOK, LoopStep
<1>2. CASE do_ls' = "stopped"
  BY <1>1, <1>2 DEF LsInv, ReadAtOnce
<1>3. CASE do_ls' = "print"
  <2>1. ReadAtOnce' => ReadAtOnce
    BY DEF LoopStep, ReadAtOnce
  <2>2. ASSUME ReadAtOnce PROVE StreamInv' /\ ArrayInv'
    <3>1. StreamInv'
      BY <2>2 DEF LsInv, StreamInv, LoopStep
    <3>2. ArrayInv'
      BY <1>3, <2>2 DEF LsInv, ArrayInv, LoopStep
    <3>3. QED
      BY <3>1, <3>2
  <2>3. QED
    BY <1>1, <1>3, <2>1, <2>2 DEF LsInv
<1>4. QED
  BY <1>2, <1>3 DEF LoopStep

\* The next name of the array is one that has been there.
LEMMA NameThere == ASSUME LsInv, ReadAtOnce, i < at PROVE Ls!Name \in Names /\ Ls!Name \in Nat
<1>1. i \in 0..at /\ at \in Nat /\ i + 1 \in 1..at /\ at \in 0..filled /\ filled \in Nat
  <2>1. i \in 0..at /\ at \in 0..filled /\ filled \in Nat
    BY DEF LsInv, RowsInv, StreamInv
  <2>2. QED
    BY <2>1
<1>2. array[i + 1] \in 1..filled
  BY <1>1 DEF LsInv, ArrayInv
<1>3. QED
  BY <1>2 DEF LsInv, StreamInv, LsTypeOK, Ls!Name

\* do_ls passes over names with a dot, and starts a row when one is full.
LEMMA PrintNameStep == ASSUME LsInv, Ls!PrintName PROVE LsInv'
<1> DEFINE more == [rows EXCEPT ![Len(rows)] = Append(@, Ls!Name)]
<1>1. LoopStep /\ flag = "ls"
  BY DEF Ls!PrintName, Ls!main, Ls!stream, LoopStep
<1>2. ASSUME ReadAtOnce, do_ls' # "stopped" PROVE RowsInv'
  <2>1. do_ls' = "print" /\ i < at /\ Ls!Visible = Names \ Hidden
    BY <1>1, <1>2 DEF LoopStep, LsInv, ArrayInv, Ls!Visible
  <2>2. Ls!Name \in Names /\ Ls!Name \in Nat
    BY <1>2, <2>1, NameThere
  <2>3. CASE Ls!Name \in Hidden
    BY <1>1, <1>2, <2>1, <2>3, PassName DEF Ls!PrintName, LoopStep
  <2>4. CASE Ls!Name \notin Hidden
    <3>1. rows \in Seq(Seq(Nat)) /\ rows # <<>>
      BY <1>2 DEF LsInv, RowsInv
    <3>2. AddsSpot(rows, more, Ls!Name)
      BY <2>2, <3>1, AppendToRow
    <3>3. AddsSpot(rows, Append(more, <<>>), Ls!Name)
      <4>1. more \in Seq(Seq(Nat))
        BY <3>2 DEF AddsSpot
      <4>2. /\ Append(more, <<>>) \in Seq(Seq(Nat)) /\ Append(more, <<>>) # <<>>
            /\ SpotsOf(Append(more, <<>>)) = SpotsOf(more)
            /\ \A s \in SpotsOf(more) : In(Append(more, <<>>), s) = In(more, s)
        BY <4>1, EmptyRow
      <4>3. HIDE DEF more
      <4>4. QED
        BY <3>2, <4>2 DEF AddsSpot
    <3>4. rows' = more \/ rows' = Append(more, <<>>)
      BY <1>2, <2>4 DEF Ls!PrintName
    <3>5. AddsSpot(rows, rows', Ls!Name) /\ Ls!Name \in Ls!Visible
      BY <2>1, <2>2, <2>4, <3>2, <3>3, <3>4
    <3>6. problems' = problems
      BY DEF Ls!PrintName
    <3>7. QED
      BY <1>1, <1>2, <2>1, <3>5, <3>6, PassName DEF LoopStep
  <2>5. QED
    BY <2>3, <2>4
<1>3. QED
  BY <1>1, <1>2, LoopKeeps

\* do_stat gives a name a line, or a complaint.
LEMMA StatStep == ASSUME LsInv, Ls!do_stat PROVE LsInv'
<1>1. LoopStep /\ flag = "ls_l" /\ do_ls' = "print"
  BY DEF Ls!do_stat, Ls!main, Ls!stream, LoopStep
<1>2. ASSUME ReadAtOnce PROVE RowsInv'
  <2>1. i < at /\ Ls!Visible = Names
    BY <1>1, <1>2 DEF LoopStep, LsInv, ArrayInv, Ls!Visible
  <2>2. Ls!Name \in Names /\ Ls!Name \in Nat
    BY <1>2, <2>1, NameThere
  <2>3. CASE rows' = Append(rows, <<Ls!Name>>) /\ problems' = problems
    <3>1. AddsSpot(rows, rows', Ls!Name)
      BY <1>2, <2>2, <2>3, RowOfItsOwn DEF LsInv, RowsInv
    <3>2. QED
      BY <1>1, <1>2, <2>1, <2>2, <2>3, <3>1, PassName DEF LoopStep
  <2>4. CASE rows' = rows /\ problems' = problems \cup {Ls!Name}
    BY <1>1, <1>2, <2>1, <2>2, <2>4, PassName DEF LoopStep
  <2>5. QED
    BY <2>3, <2>4 DEF Ls!do_stat
<1>3. QED
  BY <1>1, <1>2, LoopKeeps

LEMMA CloseStep == ASSUME LsInv, Ls!closedir PROVE LsInv'
<1> USE DEF Listing
<1>1. /\ do_ls = "print" /\ do_ls' = "closed" /\ i = Len(array)
      /\ UNCHANGED <<files, dir, av, ac, flag, ever, always, i, rows, problems, buffer, filled, at, last, wraps, array>>
  BY DEF Ls!closedir, Ls!main, Ls!stream, Ls!screen
<1>2. LsTypeOK'
  BY <1>1 DEF LsInv, LsTypeOK
<1>3. ASSUME ReadAtOnce PROVE StreamInv' /\ ArrayInv' /\ RowsInv'
  <2>1. StreamInv'
    BY <1>1, <1>3 DEF LsInv, StreamInv
  <2>2. ArrayInv'
    BY <1>1, <1>3 DEF LsInv, ArrayInv
  <2>3. i = at' /\ i \in 0..at'
    BY <1>1, <1>3 DEF LsInv, ArrayInv, RowsInv
  <2>4. Passed' = Passed
    BY <1>1 DEF Passed
  <2>5. QED
    BY <1>1, <1>3, <2>1, <2>2, <2>3, <2>4, SameRows DEF LsInv
<1>4. QED
  BY <1>1, <1>2, <1>3 DEF LsInv, ReadAtOnce

\* Who creates or removes a file does not touch what has been read.
LEMMA ChangeStep == ASSUME LsInv, NEW d \in Places, NEW n \in Names, Ls!Change(d, n) PROVE LsInv'
<1> USE DEF Listing
<1>1. /\ files' = [files EXCEPT ![d] = IF n \in @ THEN @ \ {n} ELSE @ \cup {n}]
      /\ always' = IF d = dir THEN always \ {n} ELSE always
      /\ ever' = IF d = dir THEN ever \cup {n} ELSE ever
      /\ UNCHANGED <<do_ls, dir, av, ac, flag, i, rows, problems, buffer, filled, at, last, wraps, array>>
  BY DEF Ls!Change, Ls!main, Ls!stream, Ls!screen
<1>2. LsTypeOK'
  BY <1>1 DEF LsInv, LsTypeOK
<1>3. always' \subseteq always /\ ever \subseteq ever'
  BY <1>1
<1>4. ASSUME ReadAtOnce PROVE StreamInv' /\ ArrayInv' /\ RowsInv'
  <2>1. always' \subseteq files'[dir'] /\ files'[dir'] \subseteq ever'
    <3>1. always \subseteq files[dir] /\ files[dir] \subseteq ever /\ dir \in Places
      BY <1>4 DEF LsInv, StreamInv, LsTypeOK
    <3>2. CASE d = dir
      <4>1. files'[dir] \in {files[dir] \ {n}, files[dir] \cup {n}}
        BY <1>1, <3>1, <3>2 DEF LsInv, LsTypeOK
      <4>2. QED
        BY <1>1, <3>1, <3>2, <4>1
    <3>3. CASE d # dir
      BY <1>1, <3>1, <3>3 DEF LsInv, LsTypeOK
    <3>4. QED
      BY <3>2, <3>3
  <2>2. StreamInv'
    BY <1>1, <1>3, <1>4, <2>1 DEF LsInv, StreamInv
  <2>3. ArrayInv'
    BY <1>1, <1>3, <1>4 DEF LsInv, ArrayInv
  <2>4. Passed' = Passed
    BY <1>1 DEF Passed
  <2>5. RowsInv'
    BY <1>1, <1>3, <1>4, <2>4, SameRows DEF LsInv, RowsInv
  <2>6. QED
    BY <2>2, <2>3, <2>5
<1>5. QED
  BY <1>1, <1>2, <1>4 DEF LsInv, ReadAtOnce

LEMMA LsStep == ASSUME LsInv, Ls!Next PROVE LsInv'
BY MainStep, BeginStep, ReaddirStep, QsortStep, PrintNameStep, StatStep, CloseStep, ChangeStep DEF Ls!Next

\* However often the buffer has been filled again: the array points to every entry
\* taken from it since, and the names passed that were there all the time are listed
\* or complained of, as long as nothing is read over them.
PartInv == do_ls \in Listing =>
  /\ buffer \in Seq(Nat) /\ array \in Seq(Nat) /\ rows \in Seq(Seq(Nat)) /\ rows # <<>>
  /\ filled \in 0..Len(buffer) /\ at \in 0..filled /\ i \in 0..Len(array)
  /\ \A k \in 1..Len(array) : array[k] \in 1..Len(buffer)
  /\ \A p \in 1..at : \E k \in 1..Len(array) : array[k] = p
  /\ do_ls # "readdir" => at = filled
  /\ do_ls \in {"readdir", "qsort"} => i = 0
  /\ do_ls = "closed" => i = Len(array)
  /\ always \cap Passed \cap Ls!Visible \subseteq Ls!Shown \cup problems

\* One more pointer, to the next entry taken, in a buffer that does not get shorter.
LEMMA PartStore ==
  ASSUME PartInv, do_ls = "readdir", UNCHANGED <<do_ls, i, rows>>,
         buffer' \in Seq(Nat), Len(buffer') >= Len(buffer), filled' \in 0..Len(buffer'),
         NEW p \in 1..filled', p = 1 \/ (p = at + 1), array' = Append(array, p), at' = p
  PROVE  PartInv'
<1> USE DEF Listing
<1>1. /\ array \in Seq(Nat) /\ Len(array) \in Nat /\ i = 0 /\ i' = 0 /\ p \in Nat
      /\ at \in Nat /\ Len(buffer) \in Nat /\ Len(buffer') \in Nat /\ filled' \in Nat
  BY DEF PartInv
<1>2. /\ array' \in Seq(Nat) /\ Len(array') = Len(array) + 1 /\ array'[Len(array) + 1] = p
      /\ \A k \in 1..Len(array) : array'[k] = array[k]
  BY <1>1, AppendProperties
<1>3. \A k \in 1..Len(array') : array'[k] \in 1..Len(buffer')
  <2>1. ASSUME NEW k \in 1..Len(array') PROVE array'[k] \in 1..Len(buffer')
    <3>1. CASE k = Len(array) + 1
      BY <1>1, <1>2, <3>1
    <3>2. CASE k # Len(array) + 1
      <4>1. k \in 1..Len(array)
        BY <1>1, <1>2, <3>2
      <4>2. array[k] \in 1..Len(buffer) /\ array'[k] = array[k]
        BY <1>2, <4>1 DEF PartInv
      <4>3. QED
        BY <1>1, <4>2
    <3>3. QED
      BY <3>1, <3>2
  <2>2. QED
    BY <2>1
<1>4. \A q \in 1..at' : \E k \in 1..Len(array') : array'[k] = q
  <2>1. ASSUME NEW q \in 1..at' PROVE \E k \in 1..Len(array') : array'[k] = q
    <3>1. CASE q = p
      <4>1. Len(array) + 1 \in 1..Len(array')
        BY <1>1, <1>2
      <4>2. QED
        BY <1>2, <3>1, <4>1
    <3>2. CASE q # p
      <4>1. q \in 1..at
        BY <1>1, <3>2
      <4>2. PICK k \in 1..Len(array) : array[k] = q
        BY <4>1 DEF PartInv
      <4>3. k \in 1..Len(array') /\ array'[k] = q
        BY <1>1, <1>2, <4>2
      <4>4. QED
        BY <4>3
    <3>3. QED
      BY <3>1, <3>2
  <2>2. QED
    BY <2>1
<1>5. Passed' = {}
  BY <1>1 DEF Passed
<1>6. at' \in 0..filled' /\ i' \in 0..Len(array')
  BY <1>1, <1>2
<1>7. QED
  BY <1>2, <1>3, <1>4, <1>5, <1>6 DEF PartInv

\* readdir reads the next entries over the first of those that were there.
LEMMA PartReaddir == ASSUME LsInv, PartInv, Ls!readdir PROVE PartInv'
<1> USE DEF Listing
<1>1. /\ do_ls = "readdir" /\ do_ls' \in {"readdir", "print", "qsort"}
      /\ UNCHANGED <<files, flag, always, i, rows, problems>>
  BY DEF Ls!readdir, Ls!main, Ls!screen
<1>2. /\ buffer \in Seq(Nat) /\ filled \in 0..Len(buffer) /\ at \in 0..filled /\ i = 0
      /\ Len(buffer) \in Nat
  BY <1>1 DEF PartInv
<1>3. CASE at < filled /\ UNCHANGED <<do_ls, buffer, filled>> /\ Ls!Store(at + 1)
  <2>1. at + 1 \in 1..filled'
    BY <1>2, <1>3
  <2>2. array' = Append(array, at + 1) /\ at' = at + 1
    BY <1>3 DEF Ls!Store
  <2>3. PICK p \in 1..filled' : p = at + 1
    BY <2>1
  <2>4. QED
    BY <1>1, <1>2, <1>3, <2>2, <2>3, PartStore
<1>4. CASE at = filled /\ Ls!Getdents /\ Ls!Store(1) /\ UNCHANGED do_ls
  <2>1. PICK m \in 1..PerRead : \E new \in [1..m -> Ls!Unread] :
          /\ buffer' = new \o SubSeq(buffer, m + 1, Len(buffer))
          /\ filled' = m
    BY <1>4 DEF Ls!Getdents
  <2>2. PICK new \in [1..m -> Ls!Unread] :
          /\ buffer' = new \o SubSeq(buffer, m + 1, Len(buffer))
          /\ filled' = m
    BY <2>1
  <2>3. m \in Nat /\ m >= 1 /\ m <= PerRead /\ PerRead \in Nat
    BY LsAssumption
  <2>4. Ls!Unread \subseteq Nat
    BY LsAssumption DEF Ls!Unread, LsInv, LsTypeOK
  <2>5. new \in Seq(Nat) /\ Len(new) = m
    <3>1. new \in [1..m -> Nat]
      BY <2>4
    <3>2. QED
      BY <2>3, <3>1
  <2>6. SubSeq(buffer, m + 1, Len(buffer)) \in Seq(Nat)
    BY <1>2, <2>3, SubSeqProperties
  <2>7. Len(SubSeq(buffer, m + 1, Len(buffer))) = IF m + 1 <= Len(buffer) THEN Len(buffer) - m ELSE 0
    BY <1>2, <2>3, SubSeqProperties
  <2>8. buffer' \in Seq(Nat) /\ Len(buffer') = m + Len(SubSeq(buffer, m + 1, Len(buffer)))
    BY <2>2, <2>5, <2>6, ConcatProperties
  <2>9. Len(buffer') >= Len(buffer) /\ filled' \in 0..Len(buffer')
    BY <1>2, <2>2, <2>3, <2>7, <2>8
  <2>10. array' = Append(array, 1) /\ at' = 1
    BY <1>4 DEF Ls!Store
  <2>11. PICK p \in 1..filled' : p = 1
    BY <2>2, <2>3
  <2>12. QED
    BY <1>1, <1>4, <2>8, <2>9, <2>10, <2>11, PartStore
<1>5. CASE at = filled /\ do_ls' # "readdir" /\ UNCHANGED <<Ls!stream, array>>
  <2>1. UNCHANGED <<buffer, filled, at, array>> /\ Passed' = {}
    BY <1>1, <1>2, <1>5 DEF Ls!stream, Passed
  <2>2. QED
    BY <1>1, <1>2, <1>5, <2>1 DEF PartInv
<1>6. QED
  BY <1>3, <1>4, <1>5 DEF Ls!readdir

\* qsort leaves the pointers that there are.
LEMMA PartQsort == ASSUME PartInv, Ls!qsort PROVE PartInv'
<1> USE DEF Listing
<1>1. /\ do_ls = "qsort" /\ do_ls' = "print"
      /\ UNCHANGED <<flag, always, i, rows, problems, buffer, filled, at>>
  BY DEF Ls!qsort, Ls!main, Ls!stream, Ls!screen
<1>2. PICK s \in Ls!Bijection(DOMAIN array, DOMAIN array) :
        array' = [k \in DOMAIN array |-> array[s[k]]]
  BY DEF Ls!qsort
<1>3. array \in Seq(Nat) /\ DOMAIN array = 1..Len(array) /\ Len(array) \in Nat /\ i = 0
  BY <1>1 DEF PartInv
<1>4. /\ \A k \in 1..Len(array) : s[k] \in 1..Len(array)
      /\ \A q \in 1..Len(array) : \E k \in 1..Len(array) : s[k] = q
  BY <1>2, <1>3 DEF Ls!Bijection, Ls!Injection, Ls!Surjection
<1>5. \A k \in 1..Len(array) : array'[k] = array[s[k]] /\ array[s[k]] \in Nat
  <2>1. \A k \in 1..Len(array) : array'[k] = array[s[k]]
    BY <1>2, <1>3
  <2>2. \A k \in 1..Len(array) : array[k] \in Nat
    BY <1>3
  <2>3. QED
    BY <1>4, <2>1, <2>2
<1>6. array' \in Seq(Nat) /\ Len(array') = Len(array)
  <2>1. array' \in [1..Len(array) -> Nat]
    BY <1>2, <1>3, <1>5
  <2>2. QED
    BY <1>3, <2>1
<1>7. \A k \in 1..Len(array) : array'[k] \in 1..Len(buffer)
  BY <1>1, <1>4, <1>5 DEF PartInv
<1>8. ASSUME NEW p \in 1..at PROVE \E k \in 1..Len(array) : array'[k] = p
  <2>1. PICK q \in 1..Len(array) : array[q] = p
    BY <1>1 DEF PartInv
  <2>2. PICK k \in 1..Len(array) : s[k] = q
    BY <1>4
  <2>3. QED
    BY <1>5, <2>1, <2>2
<1>9. Passed' = {}
  BY <1>1, <1>3 DEF Passed
<1>10. QED
  BY <1>1, <1>3, <1>6, <1>7, <1>8, <1>9 DEF PartInv

\* A loop passes a name that it shows, complains of, or may leave out.
LEMMA PartPass ==
  ASSUME PartInv, LoopStep, do_ls' = "print",
         \/ UNCHANGED <<rows, problems>> /\ Ls!Name \notin Ls!Visible
         \/ rows' = rows /\ problems' = problems \cup {Ls!Name}
         \/ AddsSpot(rows, rows', Ls!Name) /\ problems' = problems
  PROVE  PartInv'
<1> USE DEF Listing
<1> DEFINE n == Ls!Name
<1>1. /\ do_ls = "print" /\ i \in Nat /\ Len(array) \in Nat /\ i < Len(array) /\ i' = i + 1
      /\ UNCHANGED <<flag, always, buffer, filled, at, array>>
  BY DEF LoopStep, PartInv
<1>2. Passed' = Passed \cup {n} /\ Ls!Visible' = Ls!Visible
  <2>1. 1..(i + 1) = (1..i) \cup {i + 1}
    BY <1>1
  <2>2. Passed' = {buffer[array[k]] : k \in 1..(i + 1)}
    BY <1>1 DEF Passed
  <2>3. QED
    BY <1>1, <2>1, <2>2 DEF Passed, Ls!Name, Ls!Visible
<1>3. i' \in 0..Len(array')
  BY <1>1
<1>4. SUFFICES ASSUME TRUE
      PROVE  /\ rows' \in Seq(Seq(Nat)) /\ rows' # <<>>
             /\ always \cap (Passed \cup {n}) \cap Ls!Visible \subseteq Ls!Shown' \cup problems'
  BY <1>1, <1>2, <1>3 DEF PartInv
<1>5. always \cap Passed \cap Ls!Visible \subseteq Ls!Shown \cup problems
  BY <1>1 DEF PartInv
<1>6. CASE rows' = rows
  <2>1. Ls!Shown' = Ls!Shown /\ rows \in Seq(Seq(Nat)) /\ rows # <<>>
    BY <1>1, <1>6 DEF Ls!Shown, Ls!Spots, Ls!At, PartInv
  <2>2. \/ problems' = problems /\ n \notin Ls!Visible
        \/ problems' = problems \cup {n}
        \/ AddsSpot(rows, rows, n)
    BY <1>6
  <2>3. ~AddsSpot(rows, rows, n)
    BY DEF AddsSpot
  <2>4. QED
    BY <1>5, <1>6, <2>1, <2>2, <2>3
<1>7. CASE AddsSpot(rows, rows', n) /\ problems' = problems
  <2>1. /\ Ls!Shown' = {In(rows', s) : s \in SpotsOf(rows')}
        /\ Ls!Shown = {In(rows, s) : s \in SpotsOf(rows)}
    <3>1. (Ls!Shown = {In(rows, s) : s \in SpotsOf(rows)})'
      BY SpotsOfRows, PTL
    <3>2. QED
      BY <3>1, SpotsOfRows
  <2>2. PICK z \in SpotsOf(rows') :
          /\ SpotsOf(rows') = SpotsOf(rows) \cup {z}
          /\ In(rows', z) = n
          /\ \A s \in SpotsOf(rows) : In(rows', s) = In(rows, s)
    BY <1>7 DEF AddsSpot
  <2>3. Ls!Shown' = Ls!Shown \cup {n}
    BY <2>1, <2>2
  <2>4. QED
    BY <1>5, <1>7, <2>3 DEF AddsSpot
<1>8. QED
  BY <1>6, <1>7

LEMMA PartLoop == ASSUME PartInv, Ls!PrintName \/ Ls!do_stat PROVE PartInv'
<1> USE DEF Listing
<1> DEFINE more == [rows EXCEPT ![Len(rows)] = Append(@, Ls!Name)]
<1>1. LoopStep
  BY DEF Ls!PrintName, Ls!do_stat, Ls!main, Ls!stream, LoopStep
<1>2. CASE do_ls' = "stopped"
  BY <1>2 DEF PartInv
<1>3. CASE do_ls' = "print"
  <2>1. /\ rows \in Seq(Seq(Nat)) /\ rows # <<>> /\ buffer \in Seq(Nat) /\ Len(array) \in Nat
        /\ i \in Nat /\ i + 1 \in 1..Len(array)
    BY <1>1 DEF LoopStep, PartInv
  <2>2. Ls!Name \in Nat
    <3>1. array[i + 1] \in 1..Len(buffer)
      BY <1>1, <2>1 DEF LoopStep, PartInv
    <3>2. QED
      BY <2>1, <3>1 DEF Ls!Name
  <2>3. CASE Ls!PrintName /\ Ls!Name \in Hidden
    <3>1. Ls!Name \notin Ls!Visible /\ UNCHANGED <<rows, problems>>
      BY <2>3 DEF Ls!PrintName, Ls!Visible
    <3>2. QED
      BY <1>1, <1>3, <3>1, PartPass
  <2>4. CASE Ls!PrintName /\ Ls!Name \notin Hidden
    <3>1. AddsSpot(rows, more, Ls!Name)
      BY <2>1, <2>2, AppendToRow
    <3>2. AddsSpot(rows, Append(more, <<>>), Ls!Name)
      <4>1. more \in Seq(Seq(Nat))
        BY <3>1 DEF AddsSpot
      <4>2. /\ Append(more, <<>>) \in Seq(Seq(Nat)) /\ Append(more, <<>>) # <<>>
            /\ SpotsOf(Append(more, <<>>)) = SpotsOf(more)
            /\ \A s \in SpotsOf(more) : In(Append(more, <<>>), s) = In(more, s)
        BY <4>1, EmptyRow
      <4>3. HIDE DEF more
      <4>4. QED
        BY <3>1, <4>2 DEF AddsSpot
    <3>3. (rows' = more \/ rows' = Append(more, <<>>)) /\ problems' = problems
      BY <1>3, <2>4 DEF Ls!PrintName
    <3>4. AddsSpot(rows, rows', Ls!Name)
      BY <3>1, <3>2, <3>3
    <3>5. QED
      BY <1>1, <1>3, <3>3, <3>4, PartPass
  <2>5. CASE Ls!do_stat
    <3>1. CASE rows' = Append(rows, <<Ls!Name>>) /\ problems' = problems
      <4>1. AddsSpot(rows, rows', Ls!Name)
        BY <2>1, <2>2, <3>1, RowOfItsOwn
      <4>2. QED
        BY <1>1, <1>3, <3>1, <4>1, PartPass
    <3>2. CASE rows' = rows /\ problems' = problems \cup {Ls!Name}
      BY <1>1, <1>3, <3>2, PartPass
    <3>3. QED
      BY <2>5, <3>1, <3>2 DEF Ls!do_stat
  <2>6. QED
    BY <2>3, <2>4, <2>5
<1>4. QED
  BY <1>1, <1>2, <1>3 DEF LoopStep

LEMMA PartStep == ASSUME LsInv, PartInv, Ls!Next PROVE PartInv'
<1> USE DEF Listing
<1>1. CASE Ls!chdir \/ Ls!NoWindow \/ Ls!NextDir
  BY <1>1 DEF Ls!chdir, Ls!NoWindow, Ls!NextDir, PartInv
<1>2. CASE Ls!opendir
  <2>1. /\ buffer' = <<>> /\ filled' = 0 /\ at' = 0 /\ array' = <<>> /\ i' = 0 /\ rows' = <<<<>>>>
        /\ do_ls' \in {"readdir", "chdir"}
    BY <1>2 DEF Ls!opendir
  <2>2. <<>> \in Seq(Nat) /\ Len(<<>>) = 0 /\ rows' \in Seq(Seq(Nat)) /\ rows' # <<>>
    BY <2>1
  <2>3. Passed' = {}
    BY <2>1 DEF Passed
  <2>4. QED
    BY <2>1, <2>2, <2>3 DEF PartInv
<1>3. CASE Ls!closedir
  <2>1. /\ do_ls = "print" /\ do_ls' = "closed" /\ i = Len(array)
        /\ UNCHANGED <<flag, always, i, rows, problems, buffer, filled, at, array>>
    BY <1>3 DEF Ls!closedir, Ls!main, Ls!stream, Ls!screen
  <2>2. Passed' = Passed /\ Ls!Shown' = Ls!Shown /\ Ls!Visible' = Ls!Visible
    BY <2>1 DEF Passed, Ls!Shown, Ls!Spots, Ls!At, Ls!Visible
  <2>3. QED
    BY <2>1, <2>2 DEF PartInv
<1>4. ASSUME NEW d \in Places, NEW n \in Names, Ls!Change(d, n) PROVE PartInv'
  <2>1. /\ always' \subseteq always
        /\ UNCHANGED <<do_ls, flag, i, rows, problems, buffer, filled, at, array>>
    BY <1>4 DEF Ls!Change, Ls!main, Ls!stream, Ls!screen
  <2>2. Passed' = Passed /\ Ls!Shown' = Ls!Shown /\ Ls!Visible' = Ls!Visible
    BY <2>1 DEF Passed, Ls!Shown, Ls!Spots, Ls!At, Ls!Visible
  <2>3. QED
    BY <2>1, <2>2 DEF PartInv
<1>5. QED
  BY <1>1, <1>2, <1>3, <1>4, PartReaddir, PartQsort, PartLoop DEF Ls!Next

\* A directory that is read at once is listed whole but for the names that stat fails
\* for, each name once and with "-" in order, whatever comes and goes meanwhile; of a
\* longer one at least what is read last.
THEOREM ListedWhole == OneSpec => []Listed
<1>1. OneInit => LsInv /\ PartInv
  <2>1. OneInit => LsInv
    BY LsInit DEF OneInit
  <2>2. OneInit => do_ls \notin Listing
    BY DEF OneInit, LsEnded, Ls!Init, Listing
  <2>3. QED
    BY <2>1, <2>2 DEF PartInv
<1>2. LsInv /\ PartInv /\ [OneNext]_all => LsInv' /\ PartInv'
  <2>1. ASSUME LsInv, PartInv, UNCHANGED ls PROVE LsInv' /\ PartInv'
    <3>1. Ls!Spots' = Ls!Spots /\ Ls!Shown' = Ls!Shown /\ (Ls!Sorted <=> Ls!Sorted')
          /\ (\A s : Ls!At(s)' = Ls!At(s)) /\ Ls!Visible' = Ls!Visible
      BY <2>1 DEF ls, Ls!Spots, Ls!Shown, Ls!Sorted, Ls!At, Ls!Visible
    <3>2. RowsInv => RowsInv'
      BY <2>1, <3>1 DEF ls, RowsInv, Passed
    <3>3. LsTypeOK' /\ (StreamInv => StreamInv') /\ (ArrayInv => ArrayInv') /\ (ReadAtOnce' <=> ReadAtOnce)
      BY <2>1 DEF ls, LsInv, LsTypeOK, StreamInv, ArrayInv, ReadAtOnce
    <3>4. PartInv'
      <4>1. Passed' = Passed
        BY <2>1 DEF ls, Passed
      <4>2. UNCHANGED <<do_ls, buffer, array, rows, filled, at, i, always, problems>>
        BY <2>1 DEF ls
      <4>3. QED
        BY <2>1, <3>1, <4>1, <4>2 DEF PartInv
    <3>5. QED
      BY <2>1, <3>2, <3>3, <3>4 DEF LsInv
  <2>2. QED
    BY <2>1, LsStep, PartStep DEF OneNext, all
<1>3. LsInv /\ PartInv => Listed
  <2>1. ASSUME LsInv, do_ls = "closed", wraps <= 1 PROVE Ls!Whole /\ (flag = "ls_l" => Ls!Sorted)
    <3>1. StreamInv /\ ArrayInv /\ RowsInv /\ LsTypeOK
      BY <2>1 DEF LsInv, ReadAtOnce, Listing
    <3>2. i = at /\ at = filled
      BY <2>1, <3>1 DEF RowsInv, ArrayInv
    <3>3. Passed \subseteq ever
      <4>1. \A k \in 1..at : array[k] \in 1..filled
        BY <3>1, <3>2 DEF ArrayInv
      <4>2. QED
        BY <3>1, <3>2, <4>1 DEF Passed, StreamInv
    <3>4. always \subseteq Passed
      <4>1. ASSUME NEW n \in always PROVE n \in Passed
        <5>1. PICK p \in 1..at : n = buffer[p]
          BY <2>1, <3>1, <3>2 DEF ArrayInv
        <5>2. PICK k \in 1..at : array[k] = p
          BY <3>1 DEF ArrayInv
        <5>3. QED
          BY <3>2, <5>1, <5>2 DEF Passed
      <4>2. QED
        BY <4>1
    <3>5. QED
      BY <3>1, <3>3, <3>4 DEF RowsInv, Ls!Whole
  <2>2. ASSUME PartInv, do_ls = "closed"
        PROVE  {buffer[k] : k \in 1..filled} \cap always \cap Ls!Visible \subseteq Ls!Shown \cup problems
    <3>1. ASSUME NEW k \in 1..filled PROVE buffer[k] \in Passed
      <4>1. at = filled /\ i = Len(array)
        BY <2>2 DEF PartInv, Listing
      <4>2. PICK j \in 1..Len(array) : array[j] = k
        BY <2>2, <4>1 DEF PartInv, Listing
      <4>3. QED
        BY <4>1, <4>2 DEF Passed
    <3>2. QED
      BY <2>2, <3>1 DEF PartInv, Listing
  <2>3. QED
    BY <2>1, <2>2 DEF Listed, Ls!Complete, Ls!LongSorted, Ls!LastPart
<1>4. QED
  BY <1>1, <1>2, <1>3, PTL DEF OneSpec, all
-----------------------------------------------------------------------------
(* ls2, for any files, arguments, width of ids and size of numstr.         *)

\* What the standard modules define powers to be, which the provers do not know.
Powers == \A b \in {2, 10} : b^0 = 1 /\ \A d \in Nat : b^(d + 1) = b * b^d

\* Powers are no less than 1, and those of 10 increase and are beyond those of 2.
LEMMA PowersGrow ==
  ASSUME Powers
  PROVE  /\ \A d \in Nat : 2^d \in Nat \ {0} /\ 10^d \in Nat \ {0} /\ 2^d <= 10^d
         /\ \A c1, d \in Nat : c1 <= d => 10^c1 <= 10^d
<1> DEFINE Good(d) == 2^d \in Nat \ {0} /\ 10^d \in Nat \ {0} /\ 2^d <= 10^d
<1>1. \A d \in Nat : Good(d)
  <2> DEFINE Bad == {d \in Nat : ~Good(d)}
  <2>1. SUFFICES ASSUME Bad # {} PROVE FALSE
    OBVIOUS
  <2>2. PICK m \in Bad : \A j \in Bad : m <= j
    <3>1. Bad \in SUBSET Nat
      OBVIOUS
    <3> HIDE DEF Bad
    <3>2. QED
      BY <2>1, <3>1, Least
  <2>3. m # 0
    <3>1. 2^0 = 1 /\ 10^0 = 1
      BY DEF Powers
    <3>2. Good(0)
      BY <3>1
    <3>3. QED
      BY <2>2, <3>2
  <2>4. m - 1 \in Nat /\ m - 1 \notin Bad /\ m - 1 + 1 = m
    BY <2>2, <2>3
  <2>5. Good(m - 1)
    BY <2>4
  <2>6. 2^m = 2 * 2^(m - 1) /\ 10^m = 10 * 10^(m - 1)
    BY <2>4 DEF Powers
  <2>7. Good(m)
    BY <2>5, <2>6
  <2>8. QED
    BY <2>2, <2>7
<1>2. \A c1, d \in Nat : c1 <= d => 10^c1 <= 10^d
  <2>1. SUFFICES ASSUME NEW c1 \in Nat PROVE \A d \in Nat : c1 <= d => 10^c1 <= 10^d
    OBVIOUS
  <2> DEFINE Bad == {d \in Nat : c1 <= d /\ ~(10^c1 <= 10^d)}
  <2>2. SUFFICES ASSUME Bad # {} PROVE FALSE
    OBVIOUS
  <2>3. PICK m \in Bad : \A j \in Bad : m <= j
    <3>1. Bad \in SUBSET Nat
      OBVIOUS
    <3> HIDE DEF Bad
    <3>2. QED
      BY <2>2, <3>1, Least
  <2>4. m # c1 /\ 10^c1 \in Nat
    BY <1>1, <2>3
  <2>5. m - 1 \in Nat /\ c1 <= m - 1 /\ m - 1 \notin Bad /\ m - 1 + 1 = m
    BY <2>3, <2>4
  <2>6. 10^c1 <= 10^(m - 1) /\ 10^(m - 1) \in Nat
    BY <1>1, <2>5
  <2>7. 10^m = 10 * 10^(m - 1)
    BY <2>5 DEF Powers
  <2>8. 10^c1 <= 10^m
    BY <2>4, <2>6, <2>7
  <2>9. QED
    BY <2>3, <2>8
<1>3. QED
  BY <1>1, <1>2

\* The digits of a number below 2^Width, as many as it takes.
Digits(m) == CHOOSE d \in 1..Width : m < 10^d /\ (d = 1 \/ m >= 10^(d - 1))

LEMMA DigitsEnough ==
  ASSUME Powers, NEW m \in Nat, m < 2^Width
  PROVE  /\ Digits(m) \in 1..Width /\ m < 10^Digits(m)
         /\ Digits(m) = 1 \/ m >= 10^(Digits(m) - 1)
<1>1. \A d \in Nat : 10^d \in Nat \ {0} /\ 2^d \in Nat \ {0} /\ 2^d <= 10^d
  BY PowersGrow
<1> DEFINE S == {d \in 1..Width : m < 10^d}
<1>2. Width \in S
  <2>1. Width \in Nat /\ Width \in 1..Width
    BY LongAssumption
  <2>2. m < 10^Width
    BY <1>1, <2>1
  <2>3. QED
    BY <2>1, <2>2
<1>3. PICK d \in S : \A j \in S : d <= j
  <2>1. S \in SUBSET Nat
    BY LongAssumption
  <2> HIDE DEF S
  <2>2. QED
    BY <1>2, <2>1, Least
<1>4. d = 1 \/ m >= 10^(d - 1)
  <2>1. SUFFICES ASSUME d # 1 PROVE m >= 10^(d - 1)
    OBVIOUS
  <2>2. d - 1 \in 1..Width /\ d - 1 \notin S /\ d - 1 \in Nat
    BY <1>3, <2>1, LongAssumption
  <2>3. 10^(d - 1) \in Nat /\ ~(m < 10^(d - 1))
    BY <1>1, <2>2
  <2>4. QED
    BY <2>3
<1>5. \E e \in 1..Width : m < 10^e /\ (e = 1 \/ m >= 10^(e - 1))
  BY <1>3, <1>4
<1>6. QED
  BY <1>5 DEF Digits

\* An id as an int, and back.
LEMMA IntOfId ==
  ASSUME Powers, NEW id \in 0..(2^Width - 1)
  PROVE  /\ Long!AsInt(id) % 2^Width = id /\ id % 2^Width = id
         /\ 2^Width \in Nat /\ 2^(Width - 1) \in Nat
         /\ \/ Long!AsInt(id) = id /\ id < 2^(Width - 1)
            \/ Long!AsInt(id) = id - 2^Width /\ id >= 2^(Width - 1)
<1>1. Width - 1 \in Nat /\ Width \in Nat /\ Width - 1 + 1 = Width
  BY LongAssumption
<1>2. 2^Width \in Nat \ {0} /\ 2^(Width - 1) \in Nat \ {0}
  BY <1>1, PowersGrow
<1>3. \A m \in Nat \ {0} : \A k \in 0..(m - 1) : k % m = k /\ (k - m) % m = k
  OBVIOUS
<1>4. id % 2^Width = id /\ (id - 2^Width) % 2^Width = id
  BY <1>2, <1>3
<1>5. Long!AsInt(id) = IF id >= 2^(Width - 1) THEN id - 2^Width ELSE id
  BY DEF Long!AsInt
<1>6. id \in Nat
  OBVIOUS
<1>7. CASE id >= 2^(Width - 1)
  BY <1>2, <1>4, <1>5, <1>7
<1>8. CASE ~(id >= 2^(Width - 1))
  <2>1. \A h \in Nat : ~(id >= h) => id < h
    BY <1>6
  <2>2. id < 2^(Width - 1)
    BY <1>2, <1>8, <2>1
  <2>3. Long!AsInt(id) = id
    BY <1>5, <1>8
  <2>4. QED
    BY <1>2, <1>4, <2>2, <2>3
<1>9. QED
  BY <1>7, <1>8

\* Only an id of too many digits overruns numstr.
LEMMA OverrunLong ==
  ASSUME Powers, NEW id \in 0..(2^Width - 1), Long!Overrun(id)
  PROVE  id \notin Named /\ ~Long!Short(id)
<1> DEFINE n == Long!AsInt(id)
           M == 2^Width
           H == 2^(Width - 1)
<1>1. /\ M \in Nat /\ H \in Nat /\ id \in Nat /\ id < M
      /\ (n = id /\ id < H) \/ (n = id - M /\ id >= H)
      /\ M = 2 * H
  <2>1. Width - 1 \in Nat /\ Width - 1 + 1 = Width
    BY LongAssumption
  <2>2. M = 2 * H
    BY <2>1 DEF Powers
  <2>3. QED
    BY <2>2, IntOfId
<1>2. /\ NumSize \in Nat /\ NumSize >= 2 /\ 10^(NumSize - 1) <= H
      /\ 10^(NumSize - 2) \in Nat \ {0} /\ 10^(NumSize - 1) \in Nat \ {0}
      /\ 10^(NumSize - 2) <= 10^(NumSize - 1)
  <2>1. NumSize - 1 \in Nat /\ NumSize - 2 \in Nat /\ NumSize - 2 <= NumSize - 1
    BY LongAssumption
  <2>2. QED
    BY <2>1, PowersGrow, LongAssumption
<1>3. id \notin Named /\ Long!Chars(n) > NumSize
  BY DEF Long!Overrun
<1>4. Long!Chars(n) = 1 + (IF n < 0 THEN 1 + Digits(-n) ELSE Digits(n))
  BY DEF Long!Chars, Digits
<1>5. CASE n = id /\ id < H
  <2>1. PICK d \in 1..Width : d = Digits(id) /\ (d = 1 \/ id >= 10^(d - 1))
    BY <1>1, DigitsEnough
  <2>2. 1 + d > NumSize /\ d \in Nat
    BY <1>1, <1>3, <1>4, <1>5, <2>1, LongAssumption
  <2>3. NumSize - 1 \in Nat /\ d - 1 \in Nat /\ NumSize - 1 <= d - 1 /\ d # 1
    BY <1>2, <2>2
  <2>4. 10^(NumSize - 1) <= 10^(d - 1) /\ 10^(d - 1) \in Nat
    BY <2>3, PowersGrow
  <2>5. id >= 10^(NumSize - 1)
    BY <1>1, <1>2, <2>1, <2>3, <2>4
  <2>6. id <= M - 10^(NumSize - 2)
    BY <1>1, <1>2, <1>5
  <2>7. QED
    BY <1>1, <1>2, <1>3, <2>5, <2>6 DEF Long!Short
<1>6. CASE n = id - M /\ id >= H
  <2>1. M - id \in Nat /\ M - id < M /\ M - id >= 1 /\ n < 0 /\ -n = M - id
    <3>1. H >= 1
      <4>1. \A a \in Nat \ {0}, h \in Nat : a <= h => h >= 1
        OBVIOUS
      <4>2. QED
        BY <1>1, <1>2, <4>1
    <3>2. QED
      BY <1>1, <1>6, <3>1
  <2>2. PICK d \in 1..Width : d = Digits(M - id) /\ (d = 1 \/ M - id >= 10^(d - 1))
    BY <2>1, DigitsEnough
  <2>3. 2 + d > NumSize /\ d \in Nat
    BY <1>3, <1>4, <2>1, <2>2, LongAssumption
  <2>4. NumSize - 2 \in Nat /\ d - 1 \in Nat /\ NumSize - 2 <= d - 1
    BY <1>2, <2>3
  <2>5. 10^(NumSize - 2) <= 10^(d - 1) /\ 10^(d - 1) \in Nat
    BY <2>4, PowersGrow
  <2>6. M - id >= 10^(NumSize - 2)
    <3>1. CASE d = 1
      <4>1. NumSize - 2 = 0
        BY <1>2, <2>4, <3>1
      <4>2. 10^(NumSize - 2) = 1
        BY <4>1 DEF Powers
      <4>3. QED
        BY <2>1, <4>2
    <3>2. CASE d # 1
      BY <1>2, <2>1, <2>2, <2>5, <3>2
    <3>3. QED
      BY <3>1, <3>2
  <2>7. QED
    BY <1>1, <1>2, <1>3, <1>6, <2>6 DEF Long!Short
<1>7. QED
  BY <1>1, <1>5, <1>6

\* A line tells what show_file_info was given.
LEMMA LineTells ==
  ASSUME Powers, NEW f, f.uid \in 0..(2^Width - 1), f.gid \in 0..(2^Width - 1), NEW row,
         f.mode.bits \subseteq {"ur", "uw", "ux", "gr", "gw", "gx", "or", "ow", "ox"},
         row.letters = Long!mode_to_letters(f.mode),
         row.owner = Long!NameOf(f.uid), row.group = Long!NameOf(f.gid)
  PROVE  Long!Tells(row, f)
<1>1. \A id \in 0..(2^Width - 1) : Long!NameOf(id)[2] % 2^Width = id
  BY IntOfId DEF Long!NameOf
<1>2. row.letters[1] = IF f.mode.type \in {"d", "c", "b"} THEN f.mode.type ELSE "-"
  BY DEF Long!mode_to_letters
<1>3. \A k \in 1..9 : row.letters[k + 1] = IF Long!Bits[k] \in f.mode.bits THEN Long!Shown[k] ELSE "-"
  <2>1. SUFFICES ASSUME NEW k \in 1..9
                 PROVE  row.letters[k + 1] = IF Long!Bits[k] \in f.mode.bits THEN Long!Shown[k] ELSE "-"
    OBVIOUS
  <2>2. k + 1 \in 1..10 /\ k + 1 # 1 /\ k + 1 - 1 = k
    OBVIOUS
  <2>3. QED
    BY <2>2 DEF Long!mode_to_letters
<1>4. \A k \in 1..9 : Long!Shown[k] # "-"
  BY DEF Long!Shown
<1>5. {k \in 1..9 : Long!Bits[k] \in f.mode.bits} = {k \in 1..9 : row.letters[k + 1] # "-"}
  BY <1>3, <1>4
<1>6. QED
  BY <1>1, <1>2, <1>5 DEF Long!Tells

Reading == {"readdir", "do_stat", "overrun"}

\* Where the names of the directory are: on a line, still to be taken, or just taken.
LinesTypeOK ==
  /\ main \in {"do_ls", "readdir", "do_stat", "overrun"}
  /\ \E A : asked \in Seq(A)
  /\ main \in Reading => asked # <<>>
  /\ \E R : lines \in Seq(R)
  /\ present \subseteq DOMAIN info
  /\ \A f \in DOMAIN info : /\ info[f].mode.bits \subseteq {"ur", "uw", "ux", "gr", "gw", "gx", "or", "ow", "ox"}
                            /\ info[f].uid \in 0..(2^Width - 1) /\ info[f].gid \in 0..(2^Width - 1)

TakenInv ==
  /\ \A k \in 1..Len(lines) : /\ Len(lines[k].heading) \in Nat /\ Len(lines[k].heading) >= Len(asked)
                              /\ main = "do_ls" => Len(lines[k].heading) > Len(asked)
                              /\ lines[k].heading = asked => lines[k].name \notin left
                              /\ lines[k].heading = asked /\ main = "do_stat" => lines[k].name # name
  /\ main = "do_stat" => name \notin left

LinesInv == LinesTypeOK /\ TakenInv /\ LinesTrue

\* Of ls2 and of the others, for which it is as if it had ended.
LEMMA LinesInit == Long!Init \/ LongEnded => LinesInv
<1>1. <<>> \in Seq({}) /\ Len(<<>>) = 0
  BY EmptySeq
<1>2. CASE Long!Init
  <2>1. /\ lines = <<>> /\ main = "do_ls" /\ info \in Infos /\ present = DOMAIN info
        /\ asked \in {IF a = <<>> THEN <<Start>> ELSE a : a \in ArgLists}
    BY <1>2 DEF Long!Init
  <2>2. \E A : asked \in Seq(A)
    <3>1. PICK a \in ArgLists : asked = IF a = <<>> THEN <<Start>> ELSE a
      BY <2>1
    <3>2. a \in Seq(STRING) /\ <<Start>> \in Seq({Start})
      BY LsAssumption
    <3>3. QED
      BY <3>1, <3>2
  <2>3. LinesTrue
    BY <1>1, <2>1 DEF LinesTrue, Long!LinesTrue
  <2>4. \A f \in DOMAIN info :
          /\ info[f].mode.bits \subseteq {"ur", "uw", "ux", "gr", "gw", "gx", "or", "ow", "ox"}
          /\ info[f].uid \in 0..(2^Width - 1) /\ info[f].gid \in 0..(2^Width - 1)
    BY <2>1, LongAssumption
  <2>5. QED
    BY <1>1, <2>1, <2>2, <2>3, <2>4 DEF LinesInv, LinesTypeOK, TakenInv, Reading
<1>3. CASE LongEnded
  BY <1>1, <1>3 DEF LongEnded, LinesInv, LinesTypeOK, TakenInv, LinesTrue, Long!LinesTrue, Reading
<1>4. QED
  BY <1>2, <1>3

\* The next argument is shorter, so that its lines are under a heading of their own.
LEMMA DirStep == ASSUME LinesInv, Long!opendir \/ Long!readdir PROVE LinesInv'
<1>1. /\ UNCHANGED <<info, present, lines>>
      /\ main \in {"do_ls", "readdir"} /\ main' \in {"do_ls", "readdir", "do_stat"}
  BY DEF Long!opendir, Long!readdir
<1>2. asked # <<>>
  BY DEF LinesInv, LinesTypeOK, Reading, Long!opendir, Long!readdir
<1>3. PICK A : asked \in Seq(A)
  BY DEF LinesInv, LinesTypeOK
<1>4. Len(asked) \in Nat /\ Tail(asked) \in Seq(A) /\ Len(Tail(asked)) = Len(asked) - 1
  BY <1>2, <1>3, LenProperties, HeadTailProperties
<1>5. /\ asked' \in {asked, Tail(asked)}
      /\ main' = "do_ls" <=> asked' = Tail(asked)
      /\ asked' = asked =>
           \/ main = "do_ls" /\ main' = "readdir"
           \/ main = "readdir" /\ main' = "do_stat" /\ name' \in left /\ left' = left \ {name'}
  <2>1. Tail(asked) # asked
    <3>1. \A m \in Nat : m # m - 1
      OBVIOUS
    <3>2. QED
      BY <1>4, <3>1, Zenon
  <2>2. CASE Long!opendir
    <3>1. /\ main = "do_ls"
          /\ \/ main' = "readdir" /\ asked' = asked
             \/ main' = main /\ asked' = Tail(asked)
      BY <2>2, Zenon DEF Long!opendir
    <3>2. QED
      BY <2>1, <3>1
  <2>3. CASE Long!readdir
    BY <2>1, <2>3 DEF Long!readdir
  <2>4. QED
    BY <2>2, <2>3
<1>6. \E B : asked' \in Seq(B)
  BY <1>5, <1>4, <1>3
<1>7. ASSUME NEW k \in 1..Len(lines)
      PROVE  /\ Len(lines[k].heading) \in Nat /\ Len(lines[k].heading) >= Len(asked')
             /\ main' = "do_ls" => Len(lines[k].heading) > Len(asked')
             /\ lines[k].heading = asked' => lines[k].name \notin left'
             /\ lines[k].heading = asked' /\ main' = "do_stat" => lines[k].name # name'
  <2>1. /\ Len(lines[k].heading) \in Nat /\ Len(lines[k].heading) >= Len(asked)
        /\ main = "do_ls" => Len(lines[k].heading) > Len(asked)
        /\ lines[k].heading = asked => lines[k].name \notin left
    BY Zenon DEF LinesInv, TakenInv
  <2>2. CASE asked' = Tail(asked)
    <3>1. Len(lines[k].heading) > Len(asked') /\ Len(asked') \in Nat
      BY <1>4, <2>1, <2>2
    <3>2. lines[k].heading # asked'
      BY <2>1, <3>1
    <3>3. QED
      BY <2>1, <3>1, <3>2
  <2>3. CASE asked' = asked
    <3>1. CASE main = "do_ls" /\ main' = "readdir"
      <4>1. Len(lines[k].heading) # Len(asked)
        BY <1>4, <2>1, <3>1
      <4>2. QED
        BY <2>1, <2>3, <3>1, <4>1
    <3>2. CASE main' = "do_stat" /\ name' \in left /\ left' = left \ {name'}
      BY <2>1, <2>3, <3>2
    <3>3. QED
      BY <1>5, <2>3, <3>1, <3>2
  <2>4. QED
    BY <1>5, <2>2, <2>3
<1>8. main' = "do_stat" => name' \notin left'
  BY <1>1, <1>5
<1>9. LinesTrue'
  <2>1. LinesTrue
    BY DEF LinesInv
  <2>2. QED
    BY <1>1, <2>1 DEF LinesTrue, Long!LinesTrue, Long!Tells
<1>10. LinesTypeOK'
  <2>1. main' \in Reading => asked' # <<>>
    BY <1>1, <1>2, <1>5 DEF Reading
  <2>2. QED
    BY <1>1, <1>6, <2>1 DEF LinesInv, LinesTypeOK
<1>11. TakenInv'
  BY <1>1, <1>7, <1>8 DEF TakenInv
<1>12. QED
  BY <1>9, <1>10, <1>11 DEF LinesInv

\* A name that is there gets a line that tells of it, and is on no line yet.
LEMMA LineStep == ASSUME Powers, LinesInv, Long!do_stat PROVE LinesInv'
<1> DEFINE f == info[<<Start, name>>]
           row == [heading |-> asked, name |-> name, letters |-> Long!mode_to_letters(f.mode),
                   owner |-> Long!NameOf(f.uid), group |-> Long!NameOf(f.gid)]
<1>1. main = "do_stat" /\ UNCHANGED <<info, present, asked, left, name>> /\ asked # <<>>
  BY DEF Long!do_stat, LinesInv, LinesTypeOK, Reading
<1>2. CASE <<Start, name>> \notin present
  <2>1. main' = "readdir" /\ lines' = lines
    BY <1>2 DEF Long!do_stat
  <2>2. LinesTrue'
    <3>1. LinesTrue
      BY DEF LinesInv
    <3>2. QED
      BY <1>1, <2>1, <3>1 DEF LinesTrue, Long!LinesTrue, Long!Tells
  <2>3. QED
    BY <1>1, <2>1, <2>2 DEF LinesInv, LinesTypeOK, TakenInv, Reading
<1>3. CASE <<Start, name>> \in present
  <2>1. /\ f.mode.bits \subseteq {"ur", "uw", "ux", "gr", "gw", "gx", "or", "ow", "ox"}
        /\ f.uid \in 0..(2^Width - 1) /\ f.gid \in 0..(2^Width - 1)
    BY <1>3 DEF LinesInv, LinesTypeOK
  <2>2. CASE Long!Overrun(f.uid) \/ Long!Overrun(f.gid)
    <3>1. main' = "overrun" /\ lines' = lines
      BY <1>3, <2>2 DEF Long!do_stat, Long!show_file_info
    <3>2. \E id \in {f.uid, f.gid} \ Named : ~Long!Short(id)
      <4>1. CASE Long!Overrun(f.uid)
        BY <2>1, <4>1, OverrunLong
      <4>2. CASE Long!Overrun(f.gid)
        BY <2>1, <4>2, OverrunLong
      <4>3. QED
        BY <2>2, <4>1, <4>2
    <3>3. LinesTrue'
      <4>1. LinesTrue
        BY DEF LinesInv
      <4>2. QED
        BY <1>1, <3>1, <3>2, <4>1 DEF LinesTrue, Long!LinesTrue, Long!Tells, Long!Short
    <3>4. QED
      BY <1>1, <3>1, <3>3 DEF LinesInv, LinesTypeOK, TakenInv, Reading
  <2>3. CASE ~(Long!Overrun(f.uid) \/ Long!Overrun(f.gid))
    <3>1. main' = "readdir" /\ lines' = Append(lines, row)
      BY <1>3, <2>3 DEF Long!do_stat, Long!show_file_info
    <3>2. Long!Tells(row, f)
      BY <2>1, LineTells
    <3>3. PICK R : lines \in Seq(R)
      BY DEF LinesInv, LinesTypeOK
    <3>4. lines \in Seq(R \cup {row}) /\ Len(lines) \in Nat /\ row \in R \cup {row}
      BY <3>3
    <3>5. /\ lines' \in Seq(R \cup {row}) /\ Len(lines') = Len(lines) + 1 /\ lines'[Len(lines) + 1] = row
          /\ \A k \in 1..Len(lines) : lines'[k] = lines[k]
      <4> HIDE DEF row
      <4>1. QED
        BY <3>1, <3>4, AppendProperties
    <3>6. row.heading = asked /\ row.name = name
      OBVIOUS
    <3> HIDE DEF row, f
    <3>7. DOMAIN lines = 1..Len(lines) /\ DOMAIN lines' = 1..(Len(lines) + 1)
      BY <3>4, <3>5, LenProperties
    <3>8. \A k \in 1..(Len(lines) + 1) : k \in 1..Len(lines) \/ k = Len(lines) + 1
      BY <3>4
    <3>9. PICK A : asked \in Seq(A)
      BY DEF LinesInv, LinesTypeOK
    <3>10. name \notin left /\ Len(asked) \in Nat
      BY <1>1, <3>9, LenProperties DEF LinesInv, TakenInv
    <3>11. \A k \in 1..Len(lines) : lines[k].heading = asked => lines[k].name # name
      BY <1>1, Zenon DEF LinesInv, TakenInv
    <3>12. ASSUME NEW k \in 1..Len(lines')
           PROVE  /\ Len(lines'[k].heading) \in Nat /\ Len(lines'[k].heading) >= Len(asked)
                  /\ lines'[k].heading = asked => lines'[k].name \notin left
      <4>1. CASE k \in 1..Len(lines)
        BY <3>5, <4>1, Zenon DEF LinesInv, TakenInv
      <4>2. CASE k = Len(lines) + 1
        BY <3>5, <3>6, <3>10, <4>2
      <4>3. QED
        BY <3>5, <3>8, <4>1, <4>2
    <3>13. LinesTrue'
      <4>1. LinesTrue
        BY DEF LinesInv
      <4>2. ASSUME NEW k \in DOMAIN lines' PROVE Long!Tells(lines'[k], info[<<Start, lines'[k].name>>])
        <5>1. CASE k \in 1..Len(lines)
          BY <3>5, <3>7, <4>1, <5>1 DEF LinesTrue, Long!LinesTrue
        <5>2. CASE k = Len(lines) + 1
          BY <3>2, <3>5, <3>6, <5>2 DEF f
        <5>3. QED
          BY <3>7, <3>8, <5>1, <5>2
      <4>3. ASSUME NEW j \in DOMAIN lines', NEW k \in DOMAIN lines', j < k,
                   lines'[j].heading = lines'[k].heading
            PROVE  lines'[j].name # lines'[k].name
        <5>1. j \in 1..Len(lines)
          <6>1. j # Len(lines) + 1
            BY <3>4, <3>7, <4>3
          <6>2. QED
            BY <3>7, <3>8, <6>1
        <5>2. CASE k \in 1..Len(lines)
          BY <3>5, <3>7, <4>1, <4>3, <5>1, <5>2 DEF LinesTrue, Long!LinesTrue
        <5>3. CASE k = Len(lines) + 1
          BY <3>5, <3>6, <3>11, <4>3, <5>1, <5>3
        <5>4. QED
          BY <3>7, <3>8, <5>2, <5>3
      <4>4. \A k \in DOMAIN lines' : Long!Tells(lines'[k], info'[<<Start, lines'[k].name>>])
        BY <1>1, <4>2
      <4>5. main' # "overrun"
        BY <3>1
      <4>6. QED
        BY <4>3, <4>4, <4>5 DEF LinesTrue, Long!LinesTrue, Long!Tells
    <3>14. \E Q : lines' \in Seq(Q)
      BY <3>5
    <3>15. LinesTypeOK'
      BY <1>1, <3>1, <3>14 DEF LinesInv, LinesTypeOK, Reading
    <3>16. TakenInv'
      BY <1>1, <3>1, <3>12 DEF TakenInv
    <3>17. QED
      BY <3>13, <3>15, <3>16 DEF LinesInv
  <2>4. QED
    BY <2>2, <2>3
<1>4. QED
  BY <1>2, <1>3

\* Nobody reads that a file is there but do_stat.
LEMMA RemoveStep == ASSUME LinesInv, Long!Remove PROVE LinesInv'
<1>1. /\ UNCHANGED <<info, main, asked, left, name, lines>>
      /\ present' \subseteq present /\ main # "overrun"
  BY DEF Long!Remove
<1>2. LinesTrue'
  <2>1. LinesTrue
    BY DEF LinesInv
  <2>2. QED
    BY <1>1, <2>1 DEF LinesTrue, Long!LinesTrue, Long!Tells
<1>3. LinesTypeOK' /\ TakenInv'
  BY <1>1 DEF LinesInv, LinesTypeOK, TakenInv
<1>4. QED
  BY <1>2, <1>3 DEF LinesInv

\* Each line of ls2 tells the bits, the letter of the type and the owners of the
\* file of its name in the directory where ls2 was started, once to a heading, and
\* only an id of too many digits overruns the buffer of uid_to_name or gid_to_name,
\* whatever the files are and go away meanwhile.
THEOREM LinesAreTrue == ASSUME Powers PROVE OneSpec => []LinesTrue
<1>1. OneInit => LinesInv
  BY LinesInit DEF OneInit
<1>2. LinesInv /\ [OneNext]_all => LinesInv'
  <2>1. SUFFICES ASSUME LinesInv, [OneNext]_all PROVE LinesInv'
    OBVIOUS
  <2>2. CASE Long!Next
    BY <2>1, <2>2, DirStep, LineStep, RemoveStep DEF Long!Next
  <2>3. CASE UNCHANGED ls2
    <3>1. UNCHANGED <<info, present, main, asked, left, name, lines>>
      BY <2>3 DEF ls2
    <3>2. LinesTypeOK'
      BY <2>1, <3>1 DEF LinesInv, LinesTypeOK
    <3>3. TakenInv'
      BY <2>1, <3>1 DEF LinesInv, TakenInv
    <3>4. LinesTrue'
      <4>1. LinesTrue
        BY <2>1 DEF LinesInv
      <4>2. QED
        BY <3>1, <4>1 DEF LinesTrue, Long!LinesTrue, Long!Tells
    <3>5. QED
      BY <3>2, <3>3, <3>4 DEF LinesInv
  <2>4. QED
    BY <2>1, <2>2, <2>3 DEF OneNext, all
<1>3. LinesInv => LinesTrue
  BY DEF LinesInv
<1>4. QED
  BY <1>1, <1>2, <1>3, PTL DEF OneSpec, all
==============================================================================
