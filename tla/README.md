# A verification project for *practice-of-Linux-programming*

The repository holds some sixty C programs, the exercises of a course on Unix
systems programming: word counters with threads, animations driven by timers
and threads, two shells, a pipe, clients and servers on sockets, pagers and
listings. Each is short; what makes them hard is what happens between their
lines: signals, threads without locks, datagrams that get lost, children that
end when nobody waits, buffers at their limit.

This directory models the programs that have such behaviour, checks the models
with TLC on small instances, and proves the most important results with TLAPS
for all values of the constants. `PROJECT.json` is the index: components,
runs, the slip each property catches, the source lines of every definition,
disagreements found, hazards, and theorems.

    tlc -workers 2 -config Bouncers.cfg Bouncers.tla      # one run
    tlapm WordCounterProofs.tla                           # one set of proofs

## 1. The system's parts

Every program is a process of its own; they meet only through the system
(terminal, files, pipes, sockets) and through the sources they share
(`set_ticker.c`, `socklib.h`, `dgram.c`, `splitline.c`, `utmplib.c`).

| Part | Source | State | Operations | What is hard | What makes it correct |
|---|---|---|---|---|---|
| word counters | `ch14/twordcount2-4.c` | shared total, or one `arg_set` each, or a mailbox with mutex and condition variable | count a word, report, join | unlocked load and store, lost and spurious wakeups, join with the lock held | no word lost but a last one without a separator, total reported after both files, ends |
| animated strings | `ch14/tanimate.c` | `propset[]`, the box `propbox`, `mx`, `flag` | a thread per string posts, one draws, main turns strings and quits | `pthread_cond_wait` without the mutex and with no flag to test, main's unlocked `dir = -dir` | draws what was posted, quits on Q, strings stay in sight |
| bouncing word | `bounce/bounce1d.c`, `set_ticker.c`; `ch14/tbounce1d.c` | `col`, direction, delay, timer | tick or frame, keys f, s, blank, Q | handler or thread between load and store; signed/unsigned sums; overflow of the delay | stays on the screen, the timer stays armed |
| bouncing ball | `bounce/bounce2.c`, `bounce.h` | `the_ball` | tick, keys | counters compared for equality, timer against `endwin` | moves on time, in its field, meets all walls |
| shell | `ch8/smsh1.c`, `execute.c`, `splitline.c`, `smsh.h` | signal actions of shell and child, buffers of a line | read, split, fork, exec, wait | Ctrl-C at any moment, inherited signal actions, buffers that grow | one command at a time, shell survives, program can be stopped, nothing lost or written outside a buffer |
| first shell | `ch8/mysh1.c` | `arglist`, `numargs` | read an argument, run | the same, end of input, failed fork | a command runs with its own arguments; what is left of Ctrl-C |
| pipe of two writers | `ch10/pipedemo2.c` | what is in the pipe, `buf` | write, read, show | the only reader waits for room; a read that fills `buf` | goes on while the child is slow |
| redirections | `ch10/stdinredic1.c`, `stdinredic2.c` | descriptor 0, the buffer of stdin | read a line, replace 0 | stdio has read ahead | the second line comes from the new file |
| signal demonstrations | `ch7/sigdemo1.c`, `sigdemo3.c`, `sigactdemo.c` | actions, blocked and pending signals, running handlers | install, deliver, return, read | handlers that interrupt each other, an action reset on delivery | one handler runs to its end |
| pipe between commands | `ch10/mypipe.c` | two tables of files, the pipe | close, dup2, exec | ends left open: no end of file, no SIGPIPE | both commands end |
| terminal question | `ch4/play_again.c` | mode and flags of the terminal, saved copies | ask, read, give up, handler | Ctrl-C between two calls, attempts that time out | terminal restored, answer heard |
| licence client | `ch13/lclnt1.c`, `lclnt_funcs1.c`, `dgram.c` | ticket held or not, outstanding request | get and release a ticket | loss without a timeout | ticket comes back |
| datagrams | `ch13/dgrecv.c`, `dgrecv2.c`, `dgsend.c`, `dgsend2.c` | buffers, last sender's address | receive, answer, send, wait | loss, doubles, reordering, -1 as a `size_t`, empty datagrams | an answer is about the message of the one it goes to |
| time server | `ch12/timeserver.c`, `temeclient.c`, `socklib.h` | open files of parent and children, pending SIGCHLD | accept, fork, exec, reap, connect, read | coalescing signals, forgotten descriptors, failing fork and exec | no zombie stays, every client served |
| first time server | `ch11/timeserv.c`, `timeclent.c` | listening socket, one connection | accept, write, close | unflushed stream, an end with clients in the queue | every client answered or hung up on |
| web server | `ch12/webserver.c`, `webserver.h` | `request` buffer, processes in the loop | accept, read a request, fork, answer | children that return into the loop, stale buffer after a hang-up | one answer, to one's own request |
| login records | `ch1/utmplib.c`, `who2.c` | block of records, cursor | open, next, reload | file changes while it is read, failing read | each record shown once |
| pager | `ch1/more01.c`, `more02.c` | lines shown and asked for | show, ask | line read before the answer, stdin both text and answers | all lines shown, no more than asked for |
| working directory | `ch4/mypwd1.c` | directory reached, names found | climb, look up | renames meanwhile, mount points, unreadable directories | the path is right, or how far it is |
| long listing | `ch1/ls2.c` (and `ls3.c`) | names, `modestr`, `numstr` | read, stat, print a line | stat in another directory, files that go, ids with many digits | a line tells about the file it names |
| copying and showing | `ch1/cp1.c`, `cat1.c` | block, offset | read, write, print | a copy onto itself, short blocks, failing reads | the copy is the source |
| listing | `ch1/ls3.c` | array of names, stream buffer | read, sort, print | pointers into a buffer that is refilled, growth, files that go, links that lead nowhere | names listed once, sorted, fitting the window |

Not modelled, because nothing in them can meet anything else, or because a
model here has it already (the reasons are under "components" in
`PROJECT.json`): `ls1.c` (the loop of `ls2.c` without its stat), `who1.c` (one
read to a record), `opentest.c`, `rotate.c`, `echostate.c`, the curses greetings,
`ticker_demo.c` and `killouch.c` (a handler while main pauses), `pipedemo.c` (one
process that reads back what it has written), `exec1.c`, and `lsfromCSDN.c`, which
is somebody else's program. The `cmake-build-*` directories are generated.

## 2. The modules

    WordTotal   <-- implemented by -- WordCount2, WordCount3, WordCount4 (each EXTENDS CountWords)
    JobControl  <-- implemented by -- Smsh1
    Service     <-- implemented by -- TimeServer, TimeServ11

    ReadCommand       =  NextCmd ; SplitLine              (a line is read, then split)
    WordCounters      =  WordCount2 | WordCount3 | WordCount4
    Bouncers          =  Bounce2 | Bounce1d | TBounce1d | Animate   (with BounceArith)
    ProcessPrograms   =  Smsh1 | Mysh1 | MyPipe | PipeDemo2 | Redirect
    TerminalPrograms  =  PlayAgain | More | SigDemo
    DatagramPrograms  =  Datagrams | LicenseClient
    StreamServers     =  TimeServer | TimeServ11 | WebServer
    FilePrograms      =  Utmp | Mypwd | Ls3 | LongList | Copies

    WordCounterProofs, BouncerProofs, ReadCommandProofs, ProcessProofs,
    TerminalProofs, DatagramProofs, ServerProofs, FileProofs
                      EXTEND the composition of that name with its theorems

A run is named by its module (`animate_quit`: `Animate` alone); the definitions `MC...` of that module are the
values that its `.cfg` gives to constants.

`ReadCommand` composes two functions that call each other. The modules with `|`
put together programs of which the user starts one: `OneInit` is the `Init` of
one of them, the others being in the state they end in, and `OneNext` a step of
any one while the others stand still. So the programs share a run, with the
fairness that each has in its own module, and nothing else; a property of a
program that was not started holds of its final state. The names of variables
that would collide are renamed in `INSTANCE ... WITH`.

`pc`-like variables name the call a process is about to make; an action is
named after the C function or system call it stands for, and a comment on it
says which failure it includes. Constants carry the source's names (`BUFSIZ`,
`NRECS`, `PAGELEN`, `TRIES`, `COLS`). "Slip" definitions are
plausible mistakes in the definition that follows them; no specification uses
them, and `mutants` in `PROJECT.json` says which property each one breaks.

**Word counters.** `CountWords` has the loop of `count_words`, one character a
turn, and `WordEnds`, the loop-free definition of what it counts. `WordTotal` is
what all versions promise: each file counted once, and the sum reported after
both. `WordCount2` makes `total_words++` a load and a store under
`counter_lock`; `WordCount3` has a struct for each thread and no lock, and prints
what it reads after both joins; `WordCount4` has the mutex, the condition variable (a set of
sleepers, one woken per signal; `spurious` remembers whether one woke without)
and the mailbox.

**Animations.** `Animate` models the mutex as glibc builds it, since
`draw_screen` calls `pthread_cond_wait` without holding it, which is undefined
in POSIX: the lock word is cleared whoever set it. Waiters may wake without a signal,
as in `WordCount4`, and `spurious` remembers that one did. `Bounce1d` has the handler as
one step between any two steps of main, `TBounce1d` a thread with a step for
each access; `BounceArith` has the unsigned right-edge test and the delay
modulo `2 * (IntMax + 1)`. `Bounce2` has both counters of the ball.

**Shells.** `Smsh1` follows shell and child through every call of `signal`,
`fork`, `execvp` and `wait`, with the terminal's signals at any step. `JobControl`
is the abstract promise. `NextCmd` reads a line character by character, and
`SplitLine` splits it. `Mysh1` is the first shell, argument by argument, with what
was typed since the last command beside its `arglist`. `MyPipe` has the file
tables of both processes, so that end of file and SIGPIPE follow from who still
has an end open. `PipeDemo2` counts bytes: in the pipe, in `buf`, and what the
child is ahead of the reads. `Redirect` has descriptor 0 and, above it, the
buffer of stdin, which outlives it. A `read` may end inside a line, and `fgets` then
reads again, from whatever descriptor 0 has become: the line is a mixture.

**Terminal.** `PlayAgain` keeps the terminal's bits outside the program, which
may die while they are changed. `SigDemo` has the stack of handlers that run, the
mask that follows from it, and the signals that wait. `More` has lines, answers and where answers come
from.

**Network.** `LicenseClient` and `Datagrams` have a network that loses, doubles
and reorders. The server of `Datagrams` is `dgrecv.c`, which prints, or `dgrecv2.c`,
which also answers. The licence server is not in the repository: the model has the
answers that the client is written for, and is marked external. `TimeServer` has
open files per process and SIGCHLD as a bit; `TimeServ11` is its sequential
predecessor, and `Service` what a client may expect of either; `WebServer` the processes that end
up in the loop of main, and the request buffer each of them inherited. The
functions that would answer a request are not in the repository; they may
return or exit.

**Files.** `Utmp` reads a file that changes, `Mypwd` climbs a tree of
several file systems in which directories are moved (`had` remembers what had the entry
of each), `Ls3` keeps pointers into the buffer of the directory
stream, and complains (`complained`) of names that stat fails for. `LongList` is the line that `ls2.c` and, by functions of the same text,
`ls3.c` print of a file. `Copies` has the loops of `cp1.c` and `cat1.c` with a
buffer that keeps what the last block left in it.

## 3. What is checked

Bounds are in the `.cfg` files. The run `animate_quit` is expected to fail: it
states what the program says of itself and shows that the code does something
else (section 5).

| Run | Shows | Bounds, and why they are enough |
|---|---|---|
| `word_counters` | no lost increment, the total short by a last word without a separator, mail overwritten only after a spurious wakeup; all three implement `WordTotal`; the first two end, and who reports first decides whether `twordcount4` does | all pairs of files of four characters for `twordcount2`: a word at the start, inside, at the end, none; of three for the others, whose protocols do not depend on the count |
| `animate_quit` | Q does not quit | one string |
| `bouncers` | ball on time and meeting all walls; timer armed; a key costs a column at most and up to Len + 1 keys never lose the word; a cancelled thread draws one more frame at most; what is drawn after a signal was posted since the last frame, a key costs a string a column at most, and once frozen, the strings are frozen for good | a screen of five columns, a word of two; an `int` of eleven bits, so that ten keys overflow the delay; five keys with the thread; rates 3 and 2 of the ball, whose phases meet in every way; two strings, posters and a drawer on one condition variable, spurious wakeups at any time, and three keys for one of them, for the races of main with a thread |
| `processes` | `smsh1`: job control, interruptible programs, the prompt comes back; `mysh1`: own arguments, deaf from its second prompt on; a pipe's commands both end; `pipedemo2` keeps its pace while the child is slow, and once it waits for room it waits for good; where the second line of `stdinredic` comes from, a mixture of both inputs included | eight commands of smsh1; up to three arguments of two values, which MAXARGS ends; a pipe of three with eight writes, started with 0 and 1 open or closed; a demo pipe of few messages and a `buf` smaller than it; three pieces of lines read ahead, ended or not |
| `read_command` | lines exact, buffer of the line respected, words exact in a list that fits in two blocks, the array of words respected up to there and not beyond | all inputs of seven characters, a letter, a blank and a newline; blocks of two bytes and of two pointers: up to four blocks of a line and three of words. The proofs drop these bounds |
| `terminal` | terminal restored on exit, and by every Ctrl-C that is caught; a signal before that leaves what was set so far; y or n heard; one Ctrl-C survived by `sigactdemo` and no second; nothing skipped between pages | every mode to begin with, three keys, a signal at any step; presses of both keys during every handler; pages of two, files of up to four lines |
| `datagrams` | answers about one's own message; one waits in vain for an answer of `dgrecv2` only when it has ended; tickets only leak | three senders, lengths 0 to `BUFSIZ` + 1, one fault; three licence clients, two tickets, two losses |
| `servers` | zombies reaped; both time servers implement `Service`, its liveness included; one answer, and to one's own request | three clients and a backlog of one: two children end during one handler, a connection waits while the queue is full, and one request is malformed; three processes in the web server's loop |
| `files` | each record once; the path is right from the root where the climb ends, below mounted file systems and moved directories too; names once each, sorted, but for those complained of; lines that tell the truth; copies exact, what `cat1` prints twice | buffer of two, five records: full, short and empty blocks; every tree of four directories, with any of them mounted and every numbering, two moves; three names, stream buffer of two, array that grows from one; no argument, a directory and the same twice; every type, bits few and nearly all, ids at the ends of what fits three places, of eight bits; texts of up to three bytes with NULs and one of five, blocks of two |

**Deadlock** is not checked where a program may end or wait for input for ever;
the liveness properties say where it must not.

**Fairness.** Weak fairness of a thread or process says that the scheduler runs
it; nothing else is assumed of the code itself. Where threads compete for a
mutex that is given up again and again (`Animate`, in `animate_quit`), strong fairness per thread:
glibc's mutexes queue in the kernel and a released one is not kept from a
sleeping thread for ever. Timers are fair (`Bounce1d`, `Bounce2`): an armed
interval timer fires. Users, clients and programs that run in a shell need
not do anything, except that the client of the time server, a program of the
repository, runs.

## 4. What is proved

Each proof module is about a composition, and its theorems are about the
specification that the run of that composition checks (`OneSpec`, or
`CommandSpec` of `ReadCommand`), for all values of the constants that the
`ASSUME`s of the modules admit. TLC evaluates these on every run. No proof uses a
bound of a run. A program that was not started stays in the state it ends in, so
that the invariant of each program holds of it too, or says that it was not
started. 29 of the 40 properties are theorems.

* **`WordCounterProofs`** (files of any length). For `twordcount2` the inductive
  invariant says who holds `counter_lock`; that a total loaded but not stored is
  still the current one, which is where mutual exclusion enters; the loop
  invariant of `count_words`; and what main knows after each join. `LosesNone` alone
  is not inductive: it says nothing of the moment between load and store. For
  `twordcount4` it says whom the mailbox may name, that a thread waits only where the
  other has reported, that one which was woken finds the mailbox empty (up to a
  spurious wakeup), and whom main has joined after each report. `ReportsKept` and
  the refinement rest on it. `Implementation` is that every step of each of the three
  is a step of `WordTotal` or a stutter. The arithmetic rests on `OneMoreChar`,
  by the library's theorems on finite cardinalities; `ShortByLastWords` counts the
  starts of words against their ends.
* **`BouncerProofs`** (any screen, word, rates, delay and width of `int`, any number
  of keys and strings). `BallOnTime`: the counters of the ball never pass the value
  they are compared with. `TimerKept`: the delay keeps to what an `int` of a positive number of
  milliseconds can be, wrapping included, and the timer is what `set_ticker` makes of it. `WordInReach` and `StringsInReach`: the bounds
  are not inductive, since a word about to step off an edge must have a column
  left for it; when it is depends on the direction that main has loaded and not
  stored, and on where the thread is. `PostsDrawnOnce` cannot
  rest on mutual exclusion, which `pthread_cond_wait` without the mutex breaks; `MutexInv`
  says how far it is broken: two may be inside while draw_screen waits, and nobody when it
  clears the flag, so that a post is still in the box when its signal comes. After a
  spurious wakeup nothing is promised.
  `NeverThaws` is an action property, that no step leads out of the lockout.
* **`ReadCommandProofs`** (every input, every `BUFSIZ` from 2, and of at least two
  pointers for the array). `Bounded`: once the room in the line has been looked
  for, there is place for one character more than will be stored. `NothingLost`:
  `Kept` says where every character of the input is at each `pc`, and `LinesEnd` that
  every line returned has its newline; without the latter the end of the input
  with an empty buffer could not be told from a lost last line. `ArrayTwoBlocks`:
  what the array has room for, from the number of spots that `splitline` believes
  in. `ArgumentsAreWords` is about the lists that are returned without a write behind
  the array, since such a write may hit the words themselves, and the model ends there:
  what has been split is, in order, the words before the place that is looked at; that a word starts where one is found needs
  the last delimiter before it, by the least-element principle.
* **`ProcessProofs`**. For `smsh1` (any number of commands) the invariant adds that
  a child exists exactly while the shell waits, what the shell ignores at each of
  its calls of `signal`, and what the child has taken back. The key lemma is
  `TerminalStep`: a signal reaches either a shell that is not set up, and then
  there is no child, or the child of a shell that ignores it. From it follow
  `ShellUndisturbed`, `ProgramsInterruptible` and `JobsControlled` (the refinement of
  `JobControl`). For `mysh1` (any arguments, forks that fail) `FirstShellDeaf` needs
  where SIGINT is ignored, and that it is never taken back; for `pipedemo2` (any lengths) `PaceKept` counts what is
  in the pipe and how far the child is ahead; for the redirections (any lines)
  `LinesFromOld` says what the buffer of stdin can hold, whole lines and the beginning of
  one, and where the line that is being put together comes from.
* **`TerminalProofs`**. For `play_again` (any number of tries and keys, Ctrl-C at any
  step): `original` holds the mode the terminal was found in from the first call
  of `tty_mode(0)` on, no signal is caught before, and between the two
  calls of `tty_mode(1)` only the flag may still differ. A signal before line 38 is done
  kills, and `TerminalRestored` says what it can leave: the mode as found, without echo,
  or without echo and with the flag. For `more` (any files, keys and
  length of the pages): what is on the screen, the line that waits for an answer
  and the rest of the file are at each step the whole text.
* **`DatagramProofs`** (any senders, message lengths, `BUFSIZ` and faults). The
  invariant says of every datagram on its way whose message it is about, and that
  the server's buffer and the address beside it belong together, also after a
  `recvfrom` that failed; `RepliesTrue` alone says nothing of an answer that is
  still under way. `TicketsLeak` (any clients and tickets): a client never holds a
  ticket that it could give back.
* **`ServerProofs`** (any clients, any backlog). `OpenInv` and `LeftInv` say who has a
  connection open: a client that left with nothing was hung up on for good, and
  no child can write to it any more. From them `ImplementsService` proves that every
  step of the forking time server is a step of `Service` or changes nothing a client
  sees, and `SequentialImplementsService` the same of the one of ch11. For the web
  server, `WebAnswers`: at most one process is at work on a connection, whatever
  number of them is in the loop, and its buffer holds what was sent over that one
  unless nothing was.
* **`FileProofs`**. For `utmplib` (files and buffers of any size, any writes and
  failing reads) `PlaceInv` ties the offset in the file to the records handed out
  and the rest of the buffer, and `BufferInv` bounds the age of what the buffer holds
  by what the file held when it was opened and holds now. Both are lost with the
  first read that fails, and with them `EachOnce`, which is stated up to then. For
  `mypwd1` (any tree, file systems, numbering and moves) `PathIsTrue` carries the way from
  `cwd` down to `start` that belongs to the names found so far; that a number names one
  directory of a file system, and the root of each is 2, says what may match.
  For `cp1` and `cat1` (any texts, any buffer, a source that grows) `CopiedOrLost` needs
  what a short block has left of the one before in the buffer. For `ls3` (any directories
  that change meanwhile, any total order and lengths of names, any size of buffer,
  array and window) `ListedWhole`: where a directory is read at once, the
  pointers are one to each entry of the buffer, before and after sorting, and
  the names that were passed are on the screen, each at one spot, or complained of; in one
  that is read in parts (`PartInv`), each entry of the buffer has a pointer, whatever the
  older ones point to. `readdir` and
  `qsort` are relations, whose results the proof does not depend on. For `ls2` (any files, any
  width of an id and size of `numstr`) `LinesAreTrue`: a name of the directory is on a
  line, still to be taken or just taken, and an id overruns `numstr` only with too
  many digits. The provers know nothing of powers, so that the theorem has as
  its hypothesis `Powers` their definition in the standard modules, for the bases
  2 and 10; what digits there are follows by the least-element principle.

Where an argument goes by the first or the last of several places, the proofs
use the least-element principle of the library's well-founded orders, since its
induction theorems take an operator that no installed prover can instantiate.

Only model-checked:

* liveness, which TLAPS does not prove under fairness: `Ends`, `Bounces`, `Prompted`,
  `BothEnd`, `Heard`, `OneReprieve`, `Answered`, `Reaped`, `ScreenKept`, that half of
  `Service` in `BothImplement`, and `StuckForever`.

## 5. Where code and comments disagree

A run shows these, and `findings` in `PROJECT.json` quotes the lines:

* `tanimate.c:155` locks a mutex that it holds already, after line 145 waited
  without it: Q does not quit (`animate_quit` fails, and `FrozenForever` holds).
* `twordcount4.c:62` joins with the lock held and before it empties the mailbox,
  so that a thread may wait for ever (`Ends` holds, which says exactly when).
* `splitline.c:89` adds the new size, not the block, to the number of spots
  (`TwoBlocks` says from which word on it writes behind the array, and `Words` holds of
  the lists before that).
* `lclnt_funcs1.c:130` assigns where it means to compare, and no answer is ever
  returned (`OnlyLeaks` holds).

The models have these too, and the properties are stated around them; no run is
spent on showing them:

* `twordcount2.c:45` and its like count a word at the character after it, and so
  not the last word of a file that ends with it: `LastWordLost` says by how much the
  total is short.
* `twordcount4.c:99` looks at the mailbox once, and a spurious wakeup overwrites
  mail: `MailKept` leaves that case out.
* `tanimate.c:145` clears a lock it does not hold: two strings are posted at once, and a frame may mix them. It tests no flag, so that a spurious wakeup draws
  the empty box or an old post: `DrawsNewPosts` is about wakeups by a signal.
* `bounce1d.c:68` compares an unsigned sum: with more than Len + 1 turns the word
  can be lost at the left. Line 46: s is slower, not faster.
* `mypipe.c:42` closes what it has just redirected when it was started with
  descriptor 0 or 1 closed; both commands still end.
* `play_again.c:80` sets a flag in the wrong field of `termios`, so that keys wait
  for a newline; line 61 allows one attempt more than `TRIES`. Lines 35 and 36
  change the terminal before line 37 catches Ctrl-C and line 38 ignores SIGQUIT:
  `Restored` says what a signal leaves then.
* `dgrecv2.c:49` takes an empty datagram for the end: `Answered` has the case.
* `utmplib.c:47` divides -1 by a `size_t`: `EachOnce` is about reads that succeed.
* `more02.c:59` reads its answers from stdin and not from the terminal it opened:
  `AllShown` leaves out the text on the standard input.
* `mypwd1.c:34` looks at no `st_dev`: below a file system that is mounted in the root it
  stops there (line 23 tells of `/home`, which is not printed), and elsewhere it
  finds `..` for a directory that is mounted on: `TruePath` says what is printed. Line 60 writes a
  byte behind `its_name` at every call.
* `ls3.c:85` keeps pointers that the next `readdir` may invalidate: `Listed` has all
  names of directories that are read at once, and of longer ones what is read last. Line
  150 complains of a link that leads nowhere instead of listing it. `do_ls` sorts nothing, and line 247
  changes from one relative directory to the next.
* `mysh1.c:49` ignores SIGINT once the first command runs and never takes it
  back: `FirstShell` says that nothing is interruptible from the second prompt on.
* `pipedemo2.c:53` writes behind `buf` after a full read, and line 44 may wait for
  ever: `Pace` says what it takes, and `StuckForever` that this is the end.
* `stdinredic1.c:21` and `stdinredic2.c:40` may read what stdio holds of the old
  input: `ReadAhead` says when.
* `ls2.c:57` looks names up in the wrong directory, and line 113 has room for nine
  characters: `LinesTrue` is about the file that stat found, and about ids.
* `cat1.c:27` prints a block that has no end: `BlocksCopied` has the cases that are
  right, and those that are not. `cp1.c:29` empties a file that is its own copy.
* `timeserv.c:62` ends the server at the first accept that fails: the clients in
  the queue are hung up on, which `Service` allows.

Read in passing and without a run: `lclnt1.c` calls `shut_down`, which
`lclnt_funcs1.c` misspells; `webserver.h` declares functions that are nowhere
defined; `tbounce1d.c:76` writes the word where the blanks end; `sigactdemo.c:35`
prints an argument it does not pass.

## 6. Abstractions

Texts are reduced to what the properties tell apart: a character is "ends a
word or not" in the counters, "a delimiter or not" in the shell, one of four kinds in
the pager; a datagram is its length and sender; a record of utmp is the number
of times it was written. Allocation failures are modelled where the code looks
for them (`emalloc`, `erealloc`, `makestring`). A write outside an array is modelled as
such in `SplitLine`, `Mypwd`, `Datagrams`, `PipeDemo2` and `LongList`, where anything may follow or
the model ends, and left out elsewhere. `Animate` keeps the box and no screen, the
entries of a directory take equal places in `Ls3`, and a directory keeps its name in `Mypwd`. An id is eight bits and `numstr` three
places in `LongList`; both are constants.
Output that cannot fail in a way the code notices is left out.

## 7. What is left

A program that is added joins the composition it belongs to, so that runs stay
few and large. In the order of what is most worth having:

1. Proofs: that `sigactdemo` survives one Ctrl-C, the safety half of `OneReprieve`;
   who has an end of the pipe open in `MyPipe`; `NextCmd` and `SplitLine` against what
   a line is.
2. Files of utmp that end inside a record, and a `Mypwd` in which `chdir`
   fails: the steps that "partly" stands for in `PROJECT.json`.
3. The answers of `webserver.h` and a licence server, should the repository get
   them.
