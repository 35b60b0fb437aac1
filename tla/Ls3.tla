---------------------------------- MODULE Ls3 --------------------------------
(***************************************************************************)
(* ls3.c of ch1: the names in directories, and with "-" what stat says of  *)
(* each.  The names are not copied: name_array and dparray keep what       *)
(* readdir returned, pointers into the buffer of the directory stream,     *)
(* which is read PerRead entries at a time, each in a place of its own:    *)
(* how an entry is cut by others, of other sizes, that are read over it is *)
(* left out.  Files come and go meanwhile.                                 *)
(*                                                                         *)
(* A name is a number, in the order in which directories keep their names. *)
(***************************************************************************)
EXTENDS Integers, Sequences, Functions

CONSTANTS Names,
          Hidden,              \* the names that begin with a dot
          Before(_, _),        \* strcmp
          Length(_),           \* strlen
          Dirs, Start,         \* directories, and the one ls3 is started in
          Resolve(_, _),       \* Resolve(d, a), where chdir(a) leads from d
          ArgLists,            \* the directories that may be asked for
          FirstSize,           \* 64, the first array_size
          PerRead, WsCol,      \* entries to a buffer, and columns to the window
          MaxChanges           \* bound on the changes by other processes

VARIABLES files, changes,      \* the names in each directory
          pc, ac, av, flag,    \* main: arguments not done, all of them, -l or not
          cwd,                 \* where it is
          buffer, filled, at, last,    \* the stream: entries, those taken, offset
          array, array_size, max_name_len,
          i, rows,             \* the loop over array, and the lines on the screen
          complained,          \* the names that perror complained of
          always, ever,        \* names there all through a listing, and at any time
          wraps                \* how often the stream's buffer was filled

main == <<ac, av, flag, cwd>>
stream == <<buffer, filled, at, last, wraps>>
screen == <<rows, complained>>
vars == <<files, changes, pc, main, stream, array, array_size, max_name_len, i, screen, always, ever>>

\* main: without a directory "." is listed.
Init == /\ files \in [Dirs -> SUBSET Names] /\ changes = 0
        /\ av \in ArgLists /\ ac = Len(av) /\ flag \in {"ls", "ls_l"}
        /\ pc = (IF ac = 0 THEN "opendir" ELSE "chdir") /\ cwd = Start
        /\ buffer = <<>> /\ filled = 0 /\ at = 0 /\ last = -1 /\ wraps = 0
        /\ array = <<>> /\ array_size = FirstSize /\ max_name_len = 0
        /\ i = 0 /\ rows = <<<<>>>> /\ complained = {}
        /\ always = {} /\ ever = {}

\* The arguments, the last one first; a chdir that fails goes unnoticed.
chdir == /\ pc = "chdir"
         /\ \/ ac = 0 /\ pc' = "exited" /\ UNCHANGED <<ac, cwd>>
            \/ /\ ac > 0 /\ ac' = ac - 1
               /\ cwd' = Resolve(cwd, av[ac])
               /\ pc' = "opendir"
         /\ UNCHANGED <<files, changes, av, flag, stream, array, array_size, max_name_len, i, screen, always, ever>>

\* get_win_size fails when the output is no terminal: exit(1).
NoWindow == /\ pc = "opendir" /\ flag = "ls" /\ pc' = "stopped"
            /\ UNCHANGED <<files, changes, main, stream, array, array_size, max_name_len, i, screen, always, ever>>

\* A directory that cannot be read is complained of and passed over.
opendir == /\ pc = "opendir"
           /\ pc' \in {"readdir", "chdir"}
           /\ buffer' = <<>> /\ filled' = 0 /\ at' = 0 /\ last' = -1 /\ wraps' = 0
           /\ array' = <<>> /\ array_size' = FirstSize /\ max_name_len' = 0
           /\ i' = 0 /\ rows' = <<<<>>>> /\ complained' = {}
           /\ always' = files[cwd] /\ ever' = files[cwd]
           /\ UNCHANGED <<files, changes, ac, av, flag, cwd>>

Full == Len(array) = array_size

\* Slip, for Listed: a new array, and the old one not copied.
StoreFresh(p) == /\ array' = IF Full THEN <<p>> ELSE Append(array, p)
                 /\ array_size' = IF Full THEN 2 * array_size ELSE array_size
                 /\ at' = p /\ UNCHANGED max_name_len

\* The entry at position p of the stream's buffer goes into the array.
Store(p) == /\ array' = Append(array, p)
            /\ array_size' = IF Full THEN 2 * array_size ELSE array_size
            /\ max_name_len' = IF flag = "ls" /\ Length(buffer'[p]) > max_name_len
                               THEN Length(buffer'[p]) ELSE max_name_len
            /\ at' = p

Unread == {n \in files[cwd] : n > last}

\* The next entries in the order of the directory, fewer than there is room for only
\* when there are no more.
Increasing(s) == \A j, k \in DOMAIN s : j < k => s[j] < s[k]
NextEntries(new) == /\ Increasing(new)
                    /\ \A n \in Unread \ Range(new) : n > new[Len(new)]
                    /\ Len(new) < PerRead => Unread = Range(new)

\* They are read over those that were in the buffer.
Getdents == \E n \in 1..PerRead : \E new \in [1..n -> Unread] :
  /\ NextEntries(new)
  /\ buffer' = new \o SubSeq(buffer, n + 1, Len(buffer))
  /\ filled' = n
  /\ last' = new[n]
  /\ wraps' = wraps + 1

readdir ==
  /\ pc = "readdir"
  /\ \/ /\ at < filled
        /\ UNCHANGED <<pc, buffer, filled, last, wraps>> /\ Store(at + 1)
     \/ /\ at = filled /\ Unread # {}
        /\ Getdents /\ Store(1)
        /\ UNCHANGED pc
     \/ /\ at = filled /\ Unread = {}
        /\ pc' = IF flag = "ls" THEN "print" ELSE "qsort"
        /\ UNCHANGED <<stream, array, array_size, max_name_len>>
  /\ UNCHANGED <<files, changes, main, i, screen, always, ever>>

\* Slip, for Listed: the call forgotten, as in do_ls.
NoQsort == /\ pc = "qsort" /\ pc' = "print"
           /\ UNCHANGED <<files, changes, main, stream, array, array_size, max_name_len, i, screen, always, ever>>

\* compar looks at the names where the pointers point to now.
InOrder(a) == \A j, k \in DOMAIN a : j < k => ~Before(buffer[a[k]], buffer[a[j]])

qsort == /\ pc = "qsort" /\ pc' = "print"
         /\ \E s \in Bijection(DOMAIN array, DOMAIN array) :
              /\ array' = [k \in DOMAIN array |-> array[s[k]]]
              /\ InOrder(array')
         /\ UNCHANGED <<files, changes, main, stream, array_size, max_name_len, i, screen, always, ever>>

\* Names to a line.
col == WsCol \div (max_name_len + 1)

Name == buffer[array[i + 1]]

\* The loop of do_ls; j % col is a division by 0 when a name is as long as the
\* window is wide.
PrintName ==
  /\ pc = "print" /\ flag = "ls" /\ i < Len(array)
  /\ i' = i + 1
  /\ IF Name \in Hidden THEN UNCHANGED <<pc, rows>>
     ELSE LET more == [rows EXCEPT ![Len(rows)] = Append(@, Name)]
          IN  IF col = 0 THEN pc' = "stopped" /\ UNCHANGED rows
              ELSE /\ rows' = IF Len(more[Len(rows)]) = col THEN Append(more, <<>>) ELSE more
                   /\ UNCHANGED pc
  /\ UNCHANGED <<files, changes, main, stream, array, array_size, max_name_len, complained, always, ever>>

\* That of do_ls_l: stat, and a line, or a complaint when the file is gone, or there
\* and a link that leads nowhere, or in a directory that must not be searched.
do_stat ==
  /\ pc = "print" /\ flag = "ls_l" /\ i < Len(array)
  /\ i' = i + 1
  /\ \/ Name \in files[cwd] /\ rows' = Append(rows, <<Name>>) /\ UNCHANGED complained
     \/ complained' = complained \cup {Name} /\ UNCHANGED rows
  /\ UNCHANGED <<files, changes, pc, main, stream, array, array_size, max_name_len, always, ever>>

closedir == /\ pc = "print" /\ i = Len(array) /\ pc' = "closed"
            /\ UNCHANGED <<files, changes, main, stream, array, array_size, max_name_len, i, screen, always, ever>>

NextDir == /\ pc = "closed" /\ pc' = "chdir"
           /\ UNCHANGED <<files, changes, main, stream, array, array_size, max_name_len, i, screen, always, ever>>

\* Another process creates or removes a file.
Change(d, n) == /\ changes < MaxChanges /\ changes' = changes + 1
                /\ files' = [files EXCEPT ![d] = IF n \in @ THEN @ \ {n} ELSE @ \cup {n}]
                /\ always' = IF d = cwd THEN always \ {n} ELSE always
                /\ ever' = IF d = cwd THEN ever \cup {n} ELSE ever
                /\ UNCHANGED <<pc, main, stream, array, array_size, max_name_len, i, screen>>

Next == \/ chdir \/ NoWindow \/ opendir \/ readdir \/ qsort \/ PrintName \/ do_stat
        \/ closedir \/ NextDir
        \/ \E d \in Dirs, n \in Names : Change(d, n)

Spec == Init /\ [][Next]_vars
-----------------------------------------------------------------------------
\* The places on the screen, and the names in them.
Spots == UNION {{r} \X DOMAIN rows[r] : r \in DOMAIN rows}
At(s) == rows[s[1]][s[2]]
Shown == {At(s) : s \in Spots}
Visible == IF flag = "ls" THEN Names \ Hidden ELSE Names

\* The names listed are, each once, those that were there all the time, but for
\* those that do_ls_l complains of; maybe some that were there for a time; and no
\* others.
Whole == /\ \A s, t \in Spots : At(s) = At(t) => s = t
         /\ always \cap Visible \subseteq Shown \cup complained
         /\ Shown \cup complained \subseteq ever \cap Visible
         /\ Shown \cap complained = {}

\* So it is in a directory that the stream reads at once.
Complete == (pc = "closed" /\ wraps <= 1) => Whole

\* However often the stream was filled again, over the names that the array points
\* to: those that were read last are listed or complained of.
LastPart == pc = "closed" =>
  {buffer[k] : k \in 1..filled} \cap always \cap Visible \subseteq Shown \cup complained

\* do_ls_l lists the names in order, in a directory that is read at once.
Earlier(s, t) == s[1] < t[1] \/ (s[1] = t[1] /\ s[2] < t[2])
Sorted == \A s, t \in Spots : Earlier(s, t) => Before(At(s), At(t))
LongSorted == (pc = "closed" /\ flag = "ls_l" /\ wraps <= 1) => Sorted
=============================================================================
