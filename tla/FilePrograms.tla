---------------------------- MODULE FilePrograms -----------------------------
(***************************************************************************)
(* The programs that read what other processes write meanwhile: who2,      *)
(* mypwd1, ls3, ls2, cp1 and cat1, of which one is started; the others are *)
(* as if they had ended.                                                   *)
(***************************************************************************)
EXTENDS Utmp, FiniteSets

CONSTANTS Dirs, Root, Inos, MaxMoves,                            \* of mypwd1
          Names, Hidden, Before(_, _), Length(_),                \* of ls3
          Places, Start, Resolve(_, _), ArgLists,
          FirstSize, PerRead, WsCol, MaxChanges,
          Width, NumSize, Named, Infos,                          \* of ls2
          Bytes, Contents, Added,                                \* of cp1 and cat1
          BUFFSIZE, MaxAppends, MaxFails

ASSUME DirsAssumption ==
  Root \in Dirs /\ Inos \subseteq Nat \ {0} /\ MaxMoves \in Nat

ASSUME LsAssumption ==
  /\ Names \subseteq Nat /\ Hidden \subseteq Names /\ Start \in Places
  /\ \A m, n \in Names : Before(m, n) \/ Before(n, m) \/ m = n
  /\ ArgLists \subseteq Seq(STRING)
  /\ \A av0 \in ArgLists, d \in Places : \A k \in DOMAIN av0 : Resolve(d, av0[k]) \in Places
  /\ {FirstSize, PerRead, WsCol} \subseteq Nat \ {0} /\ MaxChanges \in Nat

\* A short number fits numstr where it is no negative int.
ASSUME LongAssumption ==
  /\ Width \in Nat \ {0} /\ NumSize \in Nat /\ NumSize >= 2 /\ 10^(NumSize - 1) <= 2^(Width - 1)
  /\ \A files0 \in Infos : \A f \in DOMAIN files0 :
       /\ files0[f].mode.bits \subseteq {"ur", "uw", "ux", "gr", "gw", "gx", "or", "ow", "ox"}
       /\ {files0[f].uid, files0[f].gid} \subseteq 0..(2^Width - 1)

ASSUME CopiesAssumption == /\ {"NUL", "?", Added} \subseteq Bytes /\ Contents \subseteq Seq(Bytes)
                           /\ BUFFSIZE \in Nat \ {0} /\ {MaxAppends, MaxFails} \subseteq Nat

VARIABLES parent, dev, ino, had, moves, printpathto, cwd, start, this_node, path, complained

pwd == <<parent, dev, ino, had, moves, printpathto, cwd, start, this_node, path, complained>>

VARIABLES files, changes, do_ls, ac, av, flag, dir, buffer, filled, at, last,
          array, array_size, max_name_len, i, rows, problems, always, ever, wraps

ls == <<files, changes, do_ls, ac, av, flag, dir, buffer, filled, at, last,
        array, array_size, max_name_len, i, rows, problems, always, ever, wraps>>

VARIABLES info, present, main, asked, left, name, lines

ls2 == <<info, present, main, asked, left, name, lines>>

VARIABLES program, copy, src, original, dst, same, pos, buf, n_chars, out, fails

copies == <<program, copy, src, original, dst, same, pos, buf, n_chars, out, fails>>

-----------------------------------------------------------------------------
(* The instance: three files for ls3, named b, a and .c in the order of their  *)
(* directory, a window of four columns, and a directory below the one where    *)
(* ls3 is started.                                                            *)

MCBefore(m, n) == LET Rank == <<3, 2, 1>> IN Rank[m] < Rank[n]
MCLength(n) == <<2, 1, 4>>[n]
MCResolve(d, a) == IF d = "top" THEN a ELSE d
MCArgLists == {<<>>, <<"sub">>, <<"sub", "sub">>}

Sample == [mode |-> [type |-> "f", bits |-> {"ur", "gw", "ox"}], uid |-> 0, gid |-> 11]

\* One file where ls2 is started with any type, few or nearly all bits, and owners
\* at the ends of what fits; another directory with a file of the same name.
MCInfos ==
  LET AllBits == {"ur", "uw", "ux", "gr", "gw", "gx", "or", "ow", "ox"}
      Modes == [type : {"d", "c", "b", "f"}, bits : {b \in SUBSET AllBits : Cardinality(b) \notin 2..7}]
      Ids == {0, 9, 10, 99, 100, 127, 128, 246, 247, 255}
      Any == [mode : Modes, uid : {0}, gid : {11}] \cup [mode : {Sample.mode}, uid : Ids, gid : Ids]
  IN  {[f \in {<<"top", 1>>, <<"top", 2>>, <<"sub", 1>>, <<"sub", 3>>} |->
          IF f = <<"top", 1>> THEN any ELSE Sample] : any \in Any}

MCContents == UNION {[1..n -> {"x", "y", "NUL"}] : n \in 0..3} \cup [1..5 -> {"x"}]
-----------------------------------------------------------------------------
Pwd == INSTANCE Mypwd WITH pc <- printpathto
Ls == INSTANCE Ls3 WITH Dirs <- Places, pc <- do_ls, cwd <- dir, complained <- problems
Long == INSTANCE LongList WITH Cwd <- Start, pc <- main, av <- asked, rows <- lines
Copy == INSTANCE Copies WITH pc <- copy, offset <- pos

WhoEnded == /\ file = <<>> /\ opened = <<>> /\ pc = "exited"
            /\ offset = 0 /\ utmpbuf = [r \in 0..(NRECS - 1) |-> Unread]
            /\ num_recs = 0 /\ cur_rec = 0 /\ shown = <<>>
            /\ writes = MaxWrites /\ errors = 0

PwdEnded == /\ parent = [d \in Dirs |-> Root] /\ had = [d \in Dirs |-> {Root}]
            /\ dev = [d \in Dirs |-> d] /\ ino = [d \in Dirs |-> Pwd!RootIno]
            /\ printpathto = "exited" /\ cwd = Root /\ start = Root
            /\ this_node = Pwd!RootIno /\ path = <<>> /\ complained = FALSE
            /\ moves = MaxMoves

LsEnded == /\ files = [d \in Places |-> {}] /\ changes = MaxChanges
           /\ do_ls = "exited" /\ ac = 0 /\ av = <<>> /\ flag = "ls" /\ dir = Start
           /\ buffer = <<>> /\ filled = 0 /\ at = 0 /\ last = -1 /\ wraps = 0
           /\ array = <<>> /\ array_size = FirstSize /\ max_name_len = 0
           /\ i = 0 /\ rows = <<<<>>>> /\ problems = {} /\ always = {} /\ ever = {}

LongEnded == /\ info = <<>> /\ present = {} /\ main = "do_ls" /\ asked = <<>>
             /\ left = {} /\ name = 0 /\ lines = <<>>

CopyEnded == /\ program = "cp1" /\ copy = "done" /\ src = <<>> /\ original = <<>> /\ dst = <<>>
             /\ same = FALSE /\ pos = 0 /\ buf = <<>> /\ n_chars = 0 /\ out = <<>> /\ fails = 0

OneInit == \/ Init /\ PwdEnded /\ LsEnded /\ LongEnded /\ CopyEnded
           \/ WhoEnded /\ Pwd!Init /\ LsEnded /\ LongEnded /\ CopyEnded
           \/ WhoEnded /\ PwdEnded /\ Ls!Init /\ LongEnded /\ CopyEnded
           \/ WhoEnded /\ PwdEnded /\ LsEnded /\ Long!Init /\ CopyEnded
           \/ WhoEnded /\ PwdEnded /\ LsEnded /\ LongEnded /\ Copy!Init

OneNext == \/ Next /\ UNCHANGED <<pwd, ls, ls2, copies>>
           \/ Pwd!Next /\ UNCHANGED <<vars, ls, ls2, copies>>
           \/ Ls!Next /\ UNCHANGED <<vars, pwd, ls2, copies>>
           \/ Long!Next /\ UNCHANGED <<vars, pwd, ls, copies>>
           \/ Copy!Next /\ UNCHANGED <<vars, pwd, ls, ls2>>

OneSpec == OneInit /\ [][OneNext]_<<vars, pwd, ls, ls2, copies>>
-----------------------------------------------------------------------------
\* Whatever is mounted and moved: what mypwd1 prints are the names on a way to the
\* directory it was started in, from the first above it that is the root of a file
\* system and Root or in another root: "pwd" of a directory below /home loses /home.
TruePath == Pwd!TruePath

\* In a directory that the stream reads at once, ls3 lists, or says that it cannot,
\* each name that was there all the time, once, and none that never was, and
\* do_ls_l lists them in order.  In a longer one it misses none that it reads last.
Listed == Ls!Complete /\ Ls!LongSorted /\ Ls!LastPart

\* Each line of ls2 tells about the file of that name in the directory where ls2
\* was started, and an id overruns its buffer only by its digits.
LinesTrue == Long!LinesTrue

\* A copy is the source, and a file copied onto itself is lost; cat1 prints a short
\* text rightly, and the tail of a block twice of a longer.
BlocksCopied == Copy!CopyExact /\ Copy!StaleTail
==============================================================================
