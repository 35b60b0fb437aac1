--------------------------------- MODULE Mypwd -------------------------------
(***************************************************************************)
(* mypwd1.c of ch4: the path of the working directory, found by going up   *)
(* to the root and looking, in each directory, for the entry with the      *)
(* inode number of the directory below.  Another process may rename a      *)
(* directory meanwhile.                                                    *)
(*                                                                         *)
(* Inode numbers tell directories of one file system apart, and the root   *)
(* of every file system has number RootIno.  The entry of a directory that *)
(* is mounted on has the number of what is hidden below it.  A directory   *)
(* keeps its name, by which it is known here.                              *)
(***************************************************************************)
EXTENDS Integers, Sequences

CONSTANTS Dirs, Root,
          Inos,          \* the numbers of directories
          MaxMoves       \* bound on the renames

RootIno == 2
HiddenIno == 0           \* the number of no directory that can be reached

VARIABLES parent,        \* parent[d], the directory with d's entry, and its ..
          dev,           \* dev[d], the root of the file system of d
          ino,           \* ino[d], as stat has it
          pc, cwd, start,        \* the process, where it is and where it began
          this_node,     \* the argument of printpathto
          path,          \* the names found, outermost first
          complained,    \* has opendir failed?
          had,           \* had[d], the directories that have had d's entry
          moves

tree == <<parent, dev, ino, had, moves>>
vars == <<tree, pc, cwd, start, this_node, path, complained>>

\* The directories above d, with d and Root: those in every set with d that has
\* the directory above of all its members.
Above(p, d) == {e \in Dirs : \A S \in SUBSET Dirs : d \in S /\ (\A x \in S : p[x] \in S) => e \in S}

IsTree(p) == p[Root] = Root /\ \A d \in Dirs : Root \in Above(p, d)

\* Root, and whatever is mounted, is the root of a file system; any other directory
\* is in that of the directory above.
AreDevs(p, v) == v[Root] = Root /\ \A d \in Dirs : v[d] \in {d, v[p[d]]}

IsRoot(d) == dev[d] = d

IsNumbering(v, i) == \A d, e \in Dirs : /\ i[d] = RootIno <=> v[d] = d
                                        /\ d # e /\ v[d] = v[e] => i[d] # i[e]

d_ino(d) == IF IsRoot(d) THEN HiddenIno ELSE ino[d]

Init == /\ parent \in {p \in [Dirs -> Dirs] : IsTree(p)}
        /\ dev \in {v \in [Dirs -> Dirs] : AreDevs(parent, v)}
        /\ ino \in {i \in [Dirs -> Inos] : IsNumbering(dev, i)}
        /\ had = [d \in Dirs |-> {parent[d]}] /\ moves = 0
        /\ start \in Dirs /\ cwd = start
        /\ pc = "printpathto" /\ this_node = ino[start]
        /\ path = <<>> /\ complained = FALSE

\* stat fails, for want of permission: exit(1), before anything has been printed.
getinodeFails == /\ pc = "printpathto"
                 /\ pc' = "exited"
                 /\ UNCHANGED <<tree, cwd, start, this_node, path, complained>>

\* Slip, for TruePath: done in a directory of the root.
AtTopEarly == ino[parent[cwd]] = RootIno

\* The directory above has the same number: the names are printed.
AtTop == ino[parent[cwd]] = this_node

printpathto ==
  /\ pc = "printpathto"
  /\ IF AtTop THEN pc' = "printed" /\ UNCHANGED cwd
              ELSE pc' = "inum_to_name" /\ cwd' = parent[cwd]
  /\ UNCHANGED <<tree, start, this_node, path, complained>>

\* The entries with number this_node.  The .. of a file system's root is itself.
DotDot == IF IsRoot(cwd) THEN cwd ELSE parent[cwd]
Matches == (IF ino[cwd] = this_node THEN {"."} ELSE {})
             \cup (IF ino[DotDot] = this_node THEN {".."} ELSE {})
             \cup {d \in Dirs \ {Root} : parent[d] = cwd /\ d_ino(d) = this_node}

\* The first match is taken, in the order of the directory, and printpathto
\* called with the number of this directory.  strncpy fills its_name and a byte
\* behind it: anything may come of that, and there the model ends.
inum_to_name ==
  /\ pc = "inum_to_name"
  /\ \E name \in Matches : path' = <<name>> \o path
  /\ pc' \in {"printpathto", "overrun"} /\ this_node' = ino[cwd]
  /\ UNCHANGED <<tree, cwd, start, complained>>

\* There is none: exit(1), before anything has been printed.
LookingFailed ==
  /\ pc = "inum_to_name" /\ Matches = {}
  /\ pc' = "exited"
  /\ UNCHANGED <<tree, cwd, start, this_node, path, complained>>

\* A directory that may be passed through and not read: its_name is not set.
OpendirFails ==
  /\ pc = "inum_to_name"
  /\ complained' = TRUE
  /\ path' = <<"unset">> \o path
  /\ pc' = "printpathto" /\ this_node' = ino[cwd]
  /\ UNCHANGED <<tree, cwd, start>>

\* Another process moves a directory, within its file system.
Rename == /\ moves < MaxMoves /\ moves' = moves + 1
          /\ \E d, e \in Dirs :
               /\ ~IsRoot(d) /\ dev[d] = dev[e]
               /\ d \notin Above(parent, e)
               /\ parent' = [parent EXCEPT ![d] = e]
               /\ had' = [had EXCEPT ![d] = @ \cup {e}]
          /\ UNCHANGED <<dev, ino, pc, cwd, start, this_node, path, complained>>

Next == printpathto \/ getinodeFails \/ inum_to_name \/ LookingFailed \/ OpendirFails \/ Rename

Spec == Init /\ [][Next]_vars
-----------------------------------------------------------------------------
\* The root of a file system that is Root, or that stands in another's root: the
\* two have the same number.
Top(d) == IsRoot(d) /\ IsRoot(parent[d])

\* What may be found for directory d in the directory above: its name; ".." where a
\* file system is mounted on d, or if the directory above has been moved into d; and
\* nothing where the directory above cannot be read.
NameFor(d, above) == (IF IsRoot(d) THEN {} ELSE {d})
                       \cup (IF IsRoot(d) \/ d \in had[above] THEN {".."} ELSE {})
                       \cup (IF complained THEN {"unset"} ELSE {})

\* way goes down to start, from each directory to one that had its entry there.
IsWay(way) == /\ way[Len(path) + 1] = start
              /\ \A k \in 1..Len(path) : /\ way[k] \in had[way[k + 1]] /\ ~Top(way[k + 1])
                                         /\ path[k] \in NameFor(way[k + 1], way[k])

\* Whatever is mounted and moved: what mypwd1 prints are the names on a way to the
\* directory it was started in, from the first directory that is Top, which may be
\* far below Root.  Where nothing is moved, there is one such way.
TruePath == pc = "printed" => \E way \in [1..(Len(path) + 1) -> Dirs] : Top(way[1]) /\ IsWay(way)
=============================================================================
