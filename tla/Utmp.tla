--------------------------------- MODULE Utmp --------------------------------
(***************************************************************************)
(* utmplib.c of ch1, as who2.c uses it: the records of the utmp file are   *)
(* read NRECS at a time into a buffer and handed out one by one, while     *)
(* other processes log in and out and so change records and append new     *)
(* ones.  A record is the number of times it has been written.             *)
(***************************************************************************)
EXTENDS Integers, Sequences

CONSTANTS NRECS,
          MaxRecs, MaxWrites,    \* bounds on the records of the file and on writes
          MaxErrors,             \* bound on reads that fail
          ErrorRecs              \* num_recs after such a read

\* -1 / UTSIZE is (size_t)-1 / 384, whose lower half is, as an int, -1431655766:
\* what matters of it is that no number of records is like it.
ASSUME ConstantsAssumption == /\ NRECS \in Nat \ {0}
                              /\ MaxRecs \in Nat /\ MaxWrites \in Nat /\ MaxErrors \in Nat
                              /\ ErrorRecs \in Int \ (0..NRECS)

VARIABLES file,          \* the records of the file
          opened,        \* the records it had when it was opened
          pc,            \* where who2 is
          offset,        \* how far the file is read, in records
          utmpbuf, num_recs, cur_rec,
          shown,         \* the records utmp_next has returned
          writes, errors

library == <<offset, utmpbuf, num_recs, cur_rec>>
vars == <<file, opened, pc, library, shown, writes, errors>>

Unread == 0              \* what utmpbuf holds before anything is read into it

Init == /\ file \in UNION {[1..n -> {1}] : n \in 0..MaxRecs}
        /\ opened = <<>>
        /\ pc = "utmp_open"
        /\ offset = 0
        /\ utmpbuf = [i \in 0..(NRECS - 1) |-> Unread]
        /\ num_recs = 0 /\ cur_rec = 0
        /\ shown = <<>>
        /\ writes = 0 /\ errors = 0

\* main: utmp_open, or exit(1).
utmp_open == /\ pc = "utmp_open"
             /\ \/ pc' = "utmp_next" /\ opened' = file
                \/ pc' = "exited" /\ UNCHANGED opened
             /\ UNCHANGED <<file, library, shown, writes, errors>>

\* Slip, for EachOnce: cur_rec compared with the size of the buffer.
EmptyBuffer == cur_rec = NRECS

Empty == cur_rec = num_recs

\* The next record of the buffer.  Where it goes on behind the buffer, it ends
\* in a fault: ErrorRecs is out of reach.
Take == /\ pc = "utmp_next" /\ ~Empty
        /\ \/ /\ cur_rec < NRECS
              /\ shown' = Append(shown, utmpbuf[cur_rec])
              /\ cur_rec' = cur_rec + 1
              /\ UNCHANGED pc
           \/ /\ cur_rec >= NRECS /\ pc' = "crashed"
              /\ UNCHANGED <<shown, cur_rec>>
        /\ UNCHANGED <<file, opened, offset, utmpbuf, num_recs, writes, errors>>

\* utmp_reload reads what there is, up to NRECS records; none ends main's loop.
utmp_reload == /\ pc = "utmp_next" /\ Empty
               /\ LET left == Len(file) - offset
                      n == IF left < NRECS THEN left ELSE NRECS
                  IN  /\ utmpbuf' = [i \in DOMAIN utmpbuf |-> IF i < n THEN file[offset + i + 1] ELSE utmpbuf[i]]
                      /\ num_recs' = n
                      /\ offset' = offset + n
                      /\ pc' = IF n = 0 THEN "exited" ELSE "utmp_next"
               /\ cur_rec' = 0
               /\ UNCHANGED <<file, opened, shown, writes, errors>>

\* The result -1 of read is divided as a size_t, and is not 0.
ReloadFails == /\ pc = "utmp_next" /\ Empty
               /\ errors < MaxErrors /\ errors' = errors + 1
               /\ num_recs' = ErrorRecs
               /\ cur_rec' = 0
               /\ UNCHANGED <<file, opened, pc, offset, utmpbuf, shown, writes>>

\* A login or a logout.
Write == /\ writes < MaxWrites /\ writes' = writes + 1
         /\ \/ \E i \in DOMAIN file : file' = [file EXCEPT ![i] = @ + 1]
            \/ Len(file) < MaxRecs /\ file' = Append(file, 1)
         /\ UNCHANGED <<opened, pc, library, shown, errors>>

Next == utmp_open \/ Take \/ utmp_reload \/ ReloadFails \/ Write

Spec == Init /\ [][Next]_vars
-----------------------------------------------------------------------------
\* Every record is shown once and in the file's order, as it was at some time
\* since the file was opened, and none that was there then is left out, as long as
\* no read has failed.
EachOnce == errors = 0 =>
            /\ Len(shown) <= Len(file)
            /\ \A k \in 1..Len(shown) :
                 shown[k] \in (IF k <= Len(opened) THEN opened[k] ELSE 1)..file[k]
            /\ (pc = "exited" /\ num_recs = 0) => Len(shown) >= Len(opened)
=============================================================================
