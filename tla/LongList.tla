------------------------------- MODULE LongList ------------------------------
(***************************************************************************)
(* ls2.c of ch1, and with it the lines that ls3.c prints by functions of   *)
(* the same text: for each argument the names of a directory, and what     *)
(* stat says of each name, which it looks up in the directory where ls2    *)
(* was started.  Files may go meanwhile.                                   *)
(***************************************************************************)
EXTENDS Integers, Sequences

CONSTANTS Cwd, ArgLists,
          Infos,               \* what stat may say of the files: functions on
                               \* pairs of a directory and a name
          Width,               \* 32, the bits of uid_t
          NumSize,             \* 10, the size of numstr
          Named                \* the ids that have names

VARIABLES info, present,       \* of the files, and those that are there
          pc, av, left, name,  \* arguments and names still to be listed
          rows                 \* the lines: [heading, name, letters, owner, group]

vars == <<info, present, pc, av, left, name, rows>>

\* main: "." without arguments.
Init == /\ info \in Infos /\ present = DOMAIN info
        /\ pc = "do_ls" /\ av \in {IF a = <<>> THEN <<Cwd>> ELSE a : a \in ArgLists}
        /\ left = {} /\ name = 0 /\ rows = <<>>

\* A directory that cannot be opened is complained of.
opendir == /\ pc = "do_ls" /\ av # <<>>
           /\ \/ pc' = "readdir" /\ left' = {f[2] : f \in {g \in present : g[1] = Head(av)}} /\ UNCHANGED av
              \/ av' = Tail(av) /\ UNCHANGED <<pc, left>>
           /\ UNCHANGED <<info, present, name, rows>>

readdir == /\ pc = "readdir"
           /\ \/ \E n \in left : left' = left \ {n} /\ name' = n /\ pc' = "do_stat" /\ UNCHANGED av
              \/ left = {} /\ av' = Tail(av) /\ pc' = "do_ls" /\ UNCHANGED <<left, name>>
           /\ UNCHANGED <<info, present, rows>>

\* The type, of three that have letters, and nine bits in their order.
Bits == <<"ur", "uw", "ux", "gr", "gw", "gx", "or", "ow", "ox">>
Shown == <<"r", "w", "x", "r", "w", "x", "r", "w", "x">>

\* Slip, for LinesTrue: the type of a block device not looked for.
NoBlock(mode) == [k \in 1..10 |-> IF k = 1 THEN IF mode.type \in {"d", "c"} THEN mode.type ELSE "-"
                                  ELSE IF Bits[k - 1] \in mode.bits THEN Shown[k - 1] ELSE "-"]

mode_to_letters(mode) ==
  [k \in 1..10 |-> IF k = 1 THEN IF mode.type \in {"d", "c", "b"} THEN mode.type ELSE "-"
                   ELSE IF Bits[k - 1] \in mode.bits THEN Shown[k - 1] ELSE "-"]

\* "%d": the id as an int, and the characters of it and its end.
AsInt(id) == IF id >= 2^(Width - 1) THEN id - 2^Width ELSE id
Chars(n) == LET Digits(m) == CHOOSE d \in 1..Width : m < 10^d /\ (d = 1 \/ m >= 10^(d - 1))
            IN  1 + (IF n < 0 THEN 1 + Digits(-n) ELSE Digits(n))

Overrun(id) == id \notin Named /\ Chars(AsInt(id)) > NumSize

\* uid_to_name and gid_to_name.
NameOf(id) == IF id \in Named THEN <<"name", id>> ELSE <<"number", AsInt(id)>>

\* sprintf behind the end of numstr is where the model ends.  The heading of a line
\* is that of the first of the arguments that were left.
show_file_info(f) ==
  IF Overrun(f.uid) \/ Overrun(f.gid) THEN pc' = "overrun" /\ UNCHANGED rows
  ELSE /\ pc' = "readdir"
       /\ rows' = Append(rows, [heading |-> av, name |-> name, letters |-> mode_to_letters(f.mode),
                                owner |-> NameOf(f.uid), group |-> NameOf(f.gid)])

\* A name that is not there, or is not that of a file of the directory where ls2
\* is, gets a complaint.
do_stat == /\ pc = "do_stat"
           /\ IF <<Cwd, name>> \in present THEN show_file_info(info[<<Cwd, name>>])
              ELSE pc' = "readdir" /\ UNCHANGED rows
           /\ UNCHANGED <<info, present, av, left, name>>

\* Another process.
Remove == \E f \in present : /\ pc # "overrun" /\ present' = present \ {f}
                             /\ UNCHANGED <<info, pc, av, left, name, rows>>

Next == opendir \/ readdir \/ do_stat \/ Remove
-----------------------------------------------------------------------------
\* Each line names a file once to a heading, and tells the bits, the type as far
\* as it has a letter, and the owners of the file of that name in the directory
\* where ls2 is, also under the heading of another; and numstr is overrun only by
\* an id without a name of too many digits.
Tells(row, f) ==
  /\ {k \in 1..9 : Bits[k] \in f.mode.bits} = {k \in 1..9 : row.letters[k + 1] # "-"}
  /\ row.letters[1] = f.mode.type \/ (row.letters[1] = "-" /\ f.mode.type \notin {"d", "c", "b"})
  /\ row.owner[2] % 2^Width = f.uid /\ row.group[2] % 2^Width = f.gid

Short(id) == id < 10^(NumSize - 1) \/ id > 2^Width - 10^(NumSize - 2)

LinesTrue ==
  /\ \A k \in DOMAIN rows : Tells(rows[k], info[<<Cwd, rows[k].name>>])
  /\ \A j, k \in DOMAIN rows : j < k /\ rows[j].heading = rows[k].heading => rows[j].name # rows[k].name
  /\ pc = "overrun" => LET f == info[<<Cwd, name>>] IN \E id \in {f.uid, f.gid} \ Named : ~Short(id)
=============================================================================
