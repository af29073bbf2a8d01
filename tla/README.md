# KusaOS in TLA+

TLA+ models of KusaOS, a small 32 bit teaching operating system (a descendant
of Orange'S, with a Minix style message passing kernel), checked with TLC and,
where it says so, proved with TLAPS.  Paths are relative to `src/`.

## 1. The system

KusaOS has a kernel in ring 0 and five tasks in ring 1 that serve the user
processes: TTY, SYS, HD, FS and MM.  Nothing is shared between a client and a
server but messages; everything a process asks for is a `send_recv(BOTH, task)`
and everything a task does is a loop around `send_recv(RECEIVE, ANY)`.

| component | source | state | operations | talks to |
|---|---|---|---|---|
| IPC kernel | `kernel/proc.c`, `lib/misc.c` | `p_flags`, `p_msg`, `p_sendto`, `p_recvfrom`, `has_int_msg`, `q_sending`/`next_sending` of each process | `msg_send`, `msg_receive`, `inform_int`, `deadlock` | every process by system call, interrupt handlers by `inform_int` |
| scheduler and clock | `kernel/proc.c`, `kernel/clock.c` | `p_proc_ready`, `ticks`, `priority`, `schedule_policy` | `schedule`, `rr_schedule`, `priority_schedule`, `clock_handler` | IPC (`block`), MM (changes policy and priority) |
| process manager (MM) | `mm/main.c`, `mm/forkexit.c`, `mm/exec.c` | `p_flags` (WAITING, HANGING, FREE_SLOT), `p_parent`, `exit_status`, memory images | fork, exit, wait, exec, kill, policy and priority | every process; FS for exit, fork and exec |
| buddy allocator | `mm/main.c`, `lib/buddy.c` | `mem_buf`, the tree of blocks | `alloc`, `do_buddy` | its caller, in a conversation of ten answers and requests |
| file system (FS) | `fs/*.c` | inode table, `f_desc_table`, `filp`, inode map, sector map, directory | open, close, read, write, unlink, stat, fork, exit, resume | HD, TTY, every process |
| terminal (TTY) | `kernel/tty.c` | `in_buf`, `tty_caller`, `tty_procnr`, `tty_left_cnt`, `tty_trans_cnt` | read, write, keyboard input, RESUME_PROC | FS, clock interrupt |
| keyboard | `kernel/keyboard.c` | `kb_in` ring, shift and lock state | `keyboard_handler`, `keyboard_read` | TTY, clock (`key_pressed`) |
| console | `kernel/console.c` | cursor, origin, scroll position of three consoles | `out_char`, `scroll_screen`, `select_console` | TTY |
| disk driver (HD) | `kernel/hd.c` | `hd_info`, `open_cnt`, `hd_status` | open, close, read/write, ioctl | FS, disk interrupt, SYS for time-outs |
| SYS task | `kernel/systask.c` | none | ticks, pid, time | any process |
| boot, INIT and shell | `boot/*.asm`, `kernel/main.c`, `kernel/start.c`, `kernel/protect.c`, `kernel/i8259.c` | process table at start, installed commands | `kernel_main`, `untar`, `Init`, `shabby_shell` | FS, MM |
| commands and C library | `command/*.c`, `lib/*.c` | none of their own | stubs for the messages above | FS, MM, SYS |

How they meet:

* Programs, FS, MM, HD and SYS meet only through messages.  A call of the
  library is `send_recv(BOTH, server, &m)`: a SEND and then a RECEIVE, two
  system calls with a gap in which everybody else may run.  A server's loop is
  a RECEIVE from ANY, some work, and a SEND of the answer.
* There are exceptions, and the hard behaviour is around them.  MM and FS read
  and write `proc_table` of other processes directly (`p_flags`, `p_parent`,
  `filp`, the saved registers) while those may be inside a call.  FS leaves a
  read of a terminal unanswered until TTY sends RESUME_PROC, so that a server
  (TTY) begins a call to its own client (FS).  `printx` of any process runs
  `out_char` in TTY's data.
* Interrupts reach the tasks HD and TTY by `inform_int`, which either completes
  the task's RECEIVE or leaves a mark that the next RECEIVE must find.  They
  also come in the middle of a system call, which enables them
  (kernel/kernel.asm:364).
* `p_proc_ready` is changed by a call that blocks and by the clock.

What makes each part correct, and where that is hard:

| component | has to hold | hard because of |
|---|---|---|
| IPC | nobody sleeps on a message that is there; the queue is exactly who waits; a circle of senders is found before it closes; a message arrives once, unchanged, at who wanted it | both sides look at each other before blocking; senders leave the queue from its middle; interrupts come at any time |
| scheduler | who is resumed can run; nobody starves who is promised the processor | ticks wrap, the table changes between two ticks |
| MM | every call is answered once, a freed entry leaves no trace, children find a parent | `wait`, `exit` and `kill` of several processes overlap; MM calls FS in the middle of its own requests |
| FS server, TTY | a suspended read is resumed once, and only who reads has its memory written | TTY and FS call each other; keys, switches of terminals and the clock come in between |
| files | counts equal the descriptors behind them; maps, inodes and directory agree | fork copies first and counts later; removal has several steps; a slot of the cache is used again |
| file data | what is written stays and is read again; sizes follow | sectors are shared through one buffer, and a read or write is cut into chunks; ends of files and sectors |
| buddy allocator | blocks that are handed out do not overlap | a mark must say something of all blocks above and below |
| keyboard | a key does what it is for; modifiers follow the typist | a key is up to six bytes, which come in one call of `keyboard_read` or in several |
| console | window and cursor stay inside; the monitor shows the current console; lines stay in order | the console wraps while the user scrolls or switches |
| disk driver | one interrupt is awaited for each sector; data land where they should | the disk may answer before the driver waits; a time-out races it |

The hazards of the code, each with its line and the properties that look at it,
are the list `hazards` of `PROJECT.json`.

## 2. Plan

IPC comes first because everything rests on it, then what composes with it.

1. `IPC`, with the abstract `Rendezvous` that it implements, and its proofs;
   `IntrWindow`, the same calls in smaller steps, with its proofs.
2. `ProcLife` (MM, FS as a server, programs) and `TtyFs` (TTY, FS, keyboard,
   clock, programs), which extend `IPC` with the tasks' own steps.
3. `Scheduler`, which takes blocking and releasing as arbitrary, and its proofs.
4. `Files` (what FS does to its tables between two messages) and `FileData`
   (what it does to the bytes of files).
5. `Console`, and its proofs.
6. `HdDriver` (HD, SYS, the disk and its interrupt), which extends `IPC`, and its
   proofs; `TtyFs`, `ProcLife`, `Files` and `FileData` have proofs too.
7. `Keyboard` (scan codes), with proofs, and `Buddy` (the blocks of `do_buddy`).

These exist and are described below.  What is left, most important first:

8. `SendList`: the `next_sending` pointers, refining the sequences of `IPC`.
9. Paths below the root (`strip_path`, fs/misc.c), in `Files`.

The runs are kept to a dozen: a later module's run takes the place of one whose
question another answers.

## 3. Modules and code

The map in `PROJECT.json` names, for every definition, the lines it stands for.
An operator with a suffix (`Selects_newest` beside `Selects`) is the same piece
of code with a plausible mistake; no specification uses it.

**IPC** (`kernel/proc.c`, `lib/misc.c`).  `p_flags` is a set of bits, `p_msg`
says whether the pointer is set, and the chain of `next_sending` is the sequence
`q_sending`.  `msg_send` is `SendDeadlock \/ SendHandOff \/ SendBlock`,
`msg_receive` is `RecvInterrupt \/ RecvFromQueue \/ RecvBlock`, and `inform_int`
is `IntDeliver \/ IntMark`: one system call or interrupt a step.  Every
`assert` of the code is part of its action and sets `panic` when it fails.
`MayReceive` is how tasks use the call; `HdDriver` shows that the driver keeps
to it, and TTY only receives from ANY.

**Rendezvous** has no table: `call[p]` is the call `p` is blocked in, and a
call completes at the same instant as the one that matches it or blocks because
none does.  `IPC` implements it under `callOf`, with `q_sending`, `p_msg` and
the like forgotten.

**IntrWindow** (`kernel/proc.c`, `kernel/kernel.asm`) extends `IPC` and takes
`msg_send` and `msg_receive` apart at each access to a word that `inform_int`
may change; `call` is the one system call in the kernel and where it is, and
`Interrupt` may come between any two of its steps.

**Scheduler** (`kernel/proc.c`, `kernel/clock.c`, MM's changes of priority and
policy).  `Tick(user)` is `clock_handler`, with `user` for an interrupt that does
not nest; `Block` is `block()`, and `Wait` is what MM's `wait` does to the flags of
somebody else; `rr_schedule` and `priority_schedule` are
operators of the states and the ticks, so that they can be proved about.

**ProcLife** (`mm/main.c`, `mm/forkexit.c`, `mm/exec.c`, stubs in `lib/`).
Extends `IPC`: a user is an arbitrary program (`UserSend`, `UserAwait`,
`UserReturn`) and `mm_pc` says where MM is in its handlers.  A step of MM goes
from one of its system calls, or one of its writes to somebody's `p_flags`, to
the next.  FS answers what it is asked.  `do_buddy` answers with a SEND and a
RECEIVE in the middle of its handler (`MMBuddySend`, `MMBuddyAwait`), and the
programs' side of that conversation is `still`.  Where MM writes an entry of the
table that its owner may be using, the load and the store are steps of their own
(`MMForkRegs` and `MMForkCopy`, `MMWait` and `MMWaitStore`), and `astray` remembers
that the entry was in use (section 6).

**Buddy** (`mm/main.c`).  The tree as the set of marked nodes; `do_buddy` is a fold
of `alloc` over the sizes drawn so far.  `alloc` without a free node returns no
value in C and an address below the memory here.  `ProcLife` extends it.

**TtyFs** (`kernel/tty.c`, `fs/main.c`, `fs/read_write.c`, `kernel/keyboard.c`,
`kernel/clock.c`).  Extends `IPC`: FS's loop with SUSPEND_PROC and RESUME_PROC,
TTY's loop over its terminals, the ring of the keyboard and `key_pressed`.

**Files** (`fs/open.c`, `fs/link.c`, `fs/misc.c`, `fs/main.c`).  `filp`,
`f_desc_table` and `inode_table` are the code's tables; `imap`, `smap`, `inodes`
and `dir` are the disk.  One action is one request, and fork is two.  The sector
map is bits, which `alloc_smap_bit` and `do_unlink` set and clear byte by byte
(`Bits`, `Allocated`, `Freed`), with cmd.tar behind the files as `mkfs` puts it.
`lost` and `wiped` remember the files that were cut off and the bits of cmd.tar
that files have got.

**FileData** (`fs/read_write.c`, `fs/open.c`, `kernel/main.c`).  The disk is bytes.
A step is one turn of `do_rdwt`'s loop, with the sectors that it reads and
writes; `untar` runs first, as INIT does, and the programs' reads, writes, seeks
and opens follow.  `written` remembers for the properties what was written.

**Keyboard** (`kernel/keyboard.c`, `include/sys/keymap.h`).  The typist presses and
releases keys, whose bytes the handler puts into the ring one at a time;
`keyboard_read` takes them between any two.  `set_leds` and `kb_ack` are steps: the
answers of the keyboard are bytes that the handler puts into the ring as well.  `owed` is what the keys under way
are to do and `done` what the last one did; `cleared` that an Alt key was released
while the other was held.

**Console** (`kernel/console.c`).  A position is a row and a column, and a row
holds how many lines were begun after its own, which is negative for a line that
was erased but had been copied by the wrap.  `out_char`, the turns of its
loop and its end are separate steps, as `scroll_screen` shows what it does.

**HdDriver** (`kernel/hd.c`, `kernel/systask.c`).  Extends `IPC`: the driver from
one poll of the disk or system call to the next, `waitfor` with its calls to
SYS, the disk as the code expects it (external), and the interrupt.  `Elapsed` is
the product of hd.c:499 in an int of `WORD` values.

**IPC_proofs**, **IntrWindow_proofs**, **ProcLife_proofs**, **TtyFs_proofs**,
**HdDriver_proofs**, **Files_proofs**, **FileData_proofs** and **Kernel_proofs**
(`Scheduler`, `Console` and `Keyboard`) hold the theorems.  **MCIPC**,
**MCIntrWindow**, **MCProcLife**, **MCScheduler**, **MCTtyFs**, **MCFiles**,
**MCFileData**, **MCKeyboard**, **MCConsole** and **MCHdDriver** give the
constants their values for TLC.

## 4. Runs

Every run is exhaustive within its bounds.  States are distinct states.

| run | instance | states | what it shows |
|---|---|---|---|
| `ipc` | four processes, one of them interrupt driven, one type | 36,888 | queues are exact, entries consistent, no match is missed, no circle of senders, no assert fails, a released call got what it asked for; a server that keeps receiving serves everybody; `IPC` implements `Rendezvous` |
| `ipc_window` | an interrupt driven task and two others | violation | section 6 |
| `proc` | INIT, a shell that kills and a command, MM, FS; every call, those to FS from exec and the conversation; conversations of three rounds, with requests of 1 to 3 of 16 units | 103,698 | until MM goes astray (section 6): no panic; no caller is forgotten and a freed entry leaves no trace; every answer is expected and real; the living are a tree below INIT; every call that can return does.  And blocks do not overlap |
| `proc_orphan_wait` | INIT and two entries, with kill | violation | section 6 |
| `sched` | MM, TestA and two programs, ticks modulo 5 | 21,120 | who is resumed can run; who is promised the processor gets it |
| `tty` | two terminals, a program on the first, another that only uses FS, rings of one, reads of two | 134,918 | no panic; only the reader's buffer is written; the echo is the input; no key is slept on; a reported read returns |
| `tty_deadlock` | two programs with a terminal each | violation | section 6 |
| `files` | three processes, two names, two descriptors each, two entries of `f_desc_table`, three files; bytes of two bits, four sectors a file | 151,012 | counts have their sharers and an open file stays the file it is; maps, inodes and directory agree but for what is `lost` and `wiped`; an assert fails only for a program that removes a lost file |
| `filedata` | two files of two sectors of two bytes, two archives, two descriptors, up to three bytes at once | 2,641,320 | what is written stays and is read again, also between the turns of a call; sizes cover it; every file comes out of the archive |
| `keyboard` | thirteen keys, both Alt keys among them, four presses and releases, a ring of eight | 6,016,587 | every key does what it is for; modifiers and locks follow the typist but for an Alt key held while the other is released; TTY never spins for a byte that is not coming |
| `console` | two consoles of 7 rows of 2 cells, a screen of 3 rows | 188,515 | window and cursor stay inside, the monitor shows the current console, lines stay in order, `out_char` ends |
| `hd` | FS, HD, SYS; two tables, three sectors, two values, a time-out of 2 ticks, ticks that wrap at 4 | 578,624 | every interrupt is awaited, transfers are exact, every request of a count that fits is answered or the disk given up, after the time-out or where the ticks wrap |

Why the bounds are enough:

* `ipc`: with four processes a receiver can have three senders, so one leaves
  the queue from its middle, and circles of two, three and four form.  One
  message type is enough, since messages are told apart by who sent them.
* `ipc_window`: what it finds is three steps of one call and one interrupt.
* `proc*`: two entries besides INIT give siblings, a grandchild, and an entry
  that is used again while another process still refers to it.  `KillFloor` is
  the code's, so that the entries are on both sides of it.  In `proc` INIT, the
  shell and the command make the calls that theirs in kernel/main.c and command/
  do.  States in which MM is astray are checked and not gone on from
  (`MCUntilAstray`): the properties promise nothing from there on, those that
  name `astray` are kept for good, and `BlocksDisjoint` depends on the rounds of a
  conversation only.  For `CallsReturn` that cuts off no counterexample, as a
  behaviour that goes astray meets it, and whether an action could go on is judged
  by the action, also when it leads there.  A
  conversation of three rounds has a first, a middle and a last one.  Three
  blocks of 1, 2 and 4 units always fit in 16, whatever their order, and `proc`
  looks at every choice of sizes in every state of a conversation
  (`BlocksDisjoint`); the sizes change nothing else.
* `sched`: two entries in the part that SCHED_PRI scans and two in the part
  that it compares.  `MaxTicks` = 5 leaves a remainder by 2 `NrSched`, as
  `MAX_TICKS` does by 24, so that a round is cut short where the ticks wrap.
* `tty`: a ring of one makes every second key a lost one, and a count of two is
  the first that a backspace can go back in.
* `files`: two entries of `f_desc_table` are full with three processes about.
  Three files are the first that leave a hole and a file behind it for the fault
  of fs/link.c:205, and the third ends in the byte of the map where cmd.tar
  begins, as the fifteenth does on the disk of the code (section 6).  From
  the third file on, and once it has left its mark, `MCOneMore` leaves the disk to
  one process and each inode to one reference: what a third file adds is about
  maps and directory, which do not depend on the counts.  An inode with `MaxCnt` = 4 references is not taken
  once more: enough for a file opened twice that a fork shares, or for three
  processes and a request in between.  A file has bits in three bytes of the
  map, a whole one between two parts, as in the code.
* `filedata`: three bytes are more than a sector and less than a file, and files
  of two sectors have a first, a last and a boundary between.  No program goes
  on after a call has passed the sectors of its file (`Overrun`).
* `keyboard`: four events are the press of a modifier around a key and both its
  releases, or both Alt keys and a release of each; the ring holds the longest
  sequence and not two.
* `console`: the wrap at the end of a console comes after seven lines, and three
  rows on a screen have a first, a middle and a last.  A read of four characters
  begins above the wrap and can be erased again below it, back to the first row.
* `hd`: two sectors are the first count with a sector after which the driver
  waits again, and `COUNTS` = 2 makes that the count that one byte holds as 0;
  three are the first count that the byte cannot hold, and `MaxCnt` = 3 asks for it.
  `HD_TIMEOUT`, `MILLI`, `HZ` and `WORD` keep what matters of the code's: the
  longest times across the wrap come out of the product as more than the time-out.

`sched` has no property for programs below the highest under SCHED_PRI: in the
ticks that are theirs only the first `NrSched` entries are scanned, so such a
program gets the processor only when `block()` calls `rr_schedule` and happens
to come to it (kernel/proc.c:65).  No document promises more.

Deadlock is checked in `ipc` (a halted kernel steps in place) and in `sched`.
The other configurations switch it off because their systems may stop: programs
need not call, everybody may wait for a key, and a panic ends everything.

## 5. Fairness

The clock interrupt keeps coming and `rr_schedule`, which is the default policy,
starves nobody (`EveryoneRuns`), so a task that can run does run.  That is why
the tasks' steps are weakly fair.  What programs choose to do never is.

* `FairLifeSpec`: `MMNext`, `FSNext`, and `UserGoesOn(p)` of each user: nothing
  stands between the SEND and the RECEIVE of a `send_recv(BOTH, ...)`, and
  `buddy()` once begun makes all its calls.
* `FairTtySpec`: `FSNext`, `TtyNext`, `UserAwait` as above, and `ClockTick`, the
  hardware clock that wakes TTY when a key was pressed.  Keys are not fair.
* `FairHdSpec`: the driver, SYS, the second half of FS's request, the disk's turn
  (how many ticks it takes is open, so it may be later than the time-out)
  and `hd_handler`, an interrupt that is asserted and not masked.  The clock's
  ticks are not fair: a poll that is not timed out ends because the disk does.
* `FairConsoleSpec`: `out_char` goes on with its loop; it has nothing to wait for.
* `FairSchedSpec`: strong fairness of a clock interrupt from ring 1 to 3 at each
  value of `ticks % (2 * NrSched)`.  An interrupt that nests only counts, and
  it nests only for the length of a system call or of another handler, so
  that no residue is missed by all later rounds.  Weak fairness would not do,
  as each residue is disabled by the next tick.
* `ServerServesAll` of `IPC` assumes nothing of the scheduler.  Its premise is a
  server that performs a RECEIVE from ANY again and again.

## 6. Where the code differs from what it says, and what the models assume away

Three runs are expected to find a violation, each of a line of the repository:

* `ipc_window`: `sys_call` enables interrupts (kernel/kernel.asm:364), so one may
  come after `msg_receive` has looked at `has_int_msg` (kernel/proc.c:410) and
  before it has set `p_recvfrom` (kernel/proc.c:522).  `inform_int` then marks a
  task that is about to sleep, and the assertion of kernel/proc.c:532 fails.
* `proc_orphan_wait`: `do_exit` of a child whose parent is not waiting frees the
  entry and leaves its `p_parent` (mm/forkexit.c:222), although the text above
  the function has it HANGING then.  A later `wait()` counts the free entry as
  a child, and the parent waits for ever.
* `tty_deadlock`: TTY tells FS that a line is complete (kernel/tty.c:284) while FS
  sends it another program's characters.  The kernel finds the circle of
  senders and panics.

Other things the code does, found while modelling.  Where a constant turns one
on, the runs leave it off; the others are in the models as they are:

* Fork copies the whole entry of its caller (mm/forkexit.c:59), with the
  `p_flags` it has at that moment.  A caller that had to queue for MM can be
  between its SEND and its RECEIVE, with `p_flags` 0, and the child can then
  run before MM has copied its memory and answered it, against
  mm/forkexit.c:35, which says that the answer is what unblocks the child.
  The properties of `ProcLife` hold with it; it makes the child return early.
* MM goes `astray` (`GoesAstrayIf`): it writes an entry of the process table under
  the process that uses it.  There are four ways, all in the models and the runs:
  the caller of fork begins its RECEIVE while the words of its entry are being
  copied (mm/forkexit.c:59); the caller of `wait` does so between the load and the
  store of `p_flags |= WAITING` (mm/forkexit.c:295; Makefile:20 builds without
  optimisation), and its RECEIVING is lost; kill frees an entry that stands in a
  queue or has one (mm/forkexit.c:159), and the next RECEIVE of its server fails
  the assertion of kernel/proc.c:447; exec overwrites the saved `eip` of a caller
  that has not begun its RECEIVE (mm/exec.c:115), so that nobody takes the answer
  and MM stays in its SEND.  What follows is what the code does, but an assertion
  may fail and a call be lost, so that the properties of `ProcLife` are stated up to
  that moment.  They say that nothing else goes wrong: every other exit, kill,
  fork, `wait` and exec keeps all of them.
* An interrupt between the steps of a hand-off of `msg_send` to a driver
  (kernel/proc.c:333 to 345) completes the driver's RECEIVE first.  Depending on
  where it comes, the assertion of line 336 fails, or the sender's message is
  copied over the interrupt's, or either is lost without a trace.
* Removing the last entry of a directory that has a hole makes the directory too
  small for the entries before it (fs/link.c:205); removing the file that is
  now behind its end fails an assertion, after its bits and its inode are cleared.
  `lost` has the files that are cut off so.  `DiskConsistent` says that nothing else
  cuts one off and that it keeps its inode and sectors; `NoFsAssert` that only
  the removal of one stops FS.
* Where cmd.tar begins in a byte of the map that a file takes, `alloc_smap_bit`
  clears bits of cmd.tar before it asserts that they are 0 (fs/open.c:482): on the
  disk of the code that is the fifteenth file, in the run the third.  The file
  shares sectors with cmd.tar, and its removal clears their bits.  `wiped` has the
  bits, and `DiskConsistent` says that no others are shared or cleared.
* A read at the end of a file gives as many bytes as were asked for, out of the
  sectors behind, and makes the file longer (fs/read_write.c:123).  A write past
  the last sector of a file is cut in sectors but not in bytes
  (fs/read_write.c:78), and damages the first sector of the next file.
  `ReadGivesWritten`, `WrittenKept` and `SizeCovers` are stated around this
  (`Hit`), and say that nothing worse happens.
* `untar` stops at the first file that exists, so a second boot extracts nothing.
  `lseek` has no stub in the library; FS serves it.
* The right Alt key sets `alt_l`, so that with both pressed the release of one
  clears it (kernel/keyboard.c:216), and F1 does not scroll although an Alt key is
  held.  `ModifiersFollow` and `KeysExact` except just that (`cleared`).
* `kb_ack` polls for the answer of the keyboard, which the handler may take first and
  a key that comes then hides: TTY spins for ever (kernel/keyboard.c:384).  The
  model has it, and what was read before stays right.
* The keys behind PrintScreen or Pause in the same call of
  `keyboard_read` are dropped, as `key` keeps its value (kernel/keyboard.c:176).
  The model has both; `lost` marks what was dropped.
* `OpensDirs`: a directory that is open can be removed (fs/link.c:65), and its
  inode is used again; `OpenFileKept` fails.
* The count of a disk command is one byte (kernel/hd.c:184, include/sys/hd.h:225),
  but FS may ask for 2048 sectors at once (fs/read_write.c:85).  Of 257 or more
  the disk transfers the remainder of 256 and the driver waits for ever.  In `hd`
  FS makes such requests (`MaxCnt` > `COUNTS`); `RequestsAnswered` promises an
  answer to the others.
* `msg_receive` from INTERRUPT looks at `proc_table[-10]` before it blocks
  (kernel/proc.c:458).  What stands there is taken not to look like a sender.
* `clear_screen` spaces memory from the cursor's cell and leaves the rest of the
  row (kernel/console.c:133): such rows are `Torn` in `Console`, and
  `ViewInOrder` leaves them and the row below the cursor out.
* `waitfor` tests its time before it polls, so that a disk that answers late by a
  poll is given up.  The ticks wrap at `MAX_TICKS`, and the difference across the
  wrap times 1000 overflows an int to some 215 seconds (kernel/hd.c:499): a disk
  that is polled just then is given up at once.  `HdDriver` has both, and `HdQuiet`
  says that there is no third reason.

## 7. What is proved

All proofs are checked by TLAPS without any unproved step, about 20,000
obligations.  They hold for every value of the constants that satisfies the
module's assumptions: any number of processes, tasks and types for IPC, any
table size and any priorities for the scheduler, any screen and any number of
consoles for the console, any ring and any number of keys for the keyboard, any disk and any request for the driver, any process
table and any programs for the process manager, any processes,
names and tables for the file system, any sizes of sectors, files and buffers and
any archive for the bytes of files.

**IPC_proofs.**  The inductive invariant is

    IInv == TypeOK /\ QueueExact /\ EntryConsistent /\ NoMissedRendezvous
            /\ NoMissedInterrupt /\ SendersAcyclic /\ NoAssertFails

No part stands alone.  That the queues are exact needs consistent entries (who
is running sends to nobody, so appending it keeps members distinct); that no
assertion fails needs exact queues; that no match is missed needs that a
released process is really idle; and that `deadlock()` is right needs both.
There is a lemma for each action, and below them lemmas on `Append`, `RemoveAt`
and `Unlink` of sequences without repetition.  From `IInv` follow `TypeCorrect`,
`QueueCorrect`, `EntryCorrect`, `NothingMissed`, `NoSendCircle` and
`AssertsHold`.  `EveryCallMatched` is an action property: a SEND that is
released was delivered, unchanged, to who it named, and a RECEIVE that is
released got a message from who it named.  Besides `IInv` it needs
`BufferHeld`: the message of a blocked sender is still the one it sent.

`NoSendCircle` is the interesting one.  A new edge p -> d closes a circle only
if p is reachable from d; `SendChain(d)` is the least set that the walk of
`deadlock()` covers, and the walk did not meet p.  `SendersAcyclic` says that
every set of senders has one whose receiver is outside the set.

`Implements`: `Spec => RV!RvSpec`.  Each system call and interrupt is one step of
the rendezvous or leaves it unchanged.  The abstract specification gives up at a
SEND that would close a circle and says so with sets of processes;
`CircleIsDeadlock` proves that this is what the pointer walk finds.

What the modules that extend `IPC` need of it is told in its last section without
the process table: `SendDoes`, `RecvDoes` and `IntDoes` say what a call does to
`callOf` (what each process is blocked in), to the messages and to the marks of
interrupts, and that `IInv` is kept.  A SEND needs a reason why it closes no
circle: whoever its receiver sends to is somebody else and sends to nobody.

**HdDriver_proofs.**  `HdStaysQuiet` and `TransfersExact`, for partitions,
requests and time-outs of every size, from

    HdInv == IInv /\ BufferHeld /\ HdTypes /\ FsMeets /\ SysMeets /\ TodoFits
             /\ BaseKnown /\ DevFollows /\ DataCopied /\ TimeSeen /\ ...

`FsMeets` and `SysMeets` say where the three tasks stand in their two
conversations, so that every SEND meets its RECEIVE and no circle can form.
`DevFollows` is the heart: at each place in the driver's code it says what the
disk may be doing, how many sectors it still counts, and whether its interrupt is
to come, has come and is marked, or has been taken.  A read has an interrupt before
each sector and a write after, which is why there are four cases.  The disk's count
is a byte: for 257 sectors and more it stops short, which `uncounted` carries along;
nothing unsafe follows, the request is just never answered (section 6).
`TimeSeen` bounds the ticks that HD was told by those that went by, so that the
driver gives up only after HD_TIMEOUT of them or when it is told fewer than it began
with.  `TransferExact` has an action
property in it: besides `HdInv` it needs what `DiskTurn` may store.

**TtyFs_proofs.**  `TtyNeverPanics`, `OnlyReadersServed` and `ScreenShowsTheRead`, for
any number of terminals, of other programs that make FS serve them, and for rings
and buffers of every size.  They assume `OneReader`: one program uses the terminals.
That is no convenience: with two of them FS and TTY can end up sending to each
other, as the run `tty_deadlock` shows.  The invariant is

    TtyInv == IInv /\ BufferHeld /\ TtyTypeOK /\ UserFits /\ TtyCalls
              /\ Conversation /\ OthersServed /\ ReadFits /\ ...

`Conversation` says how far the call of that program is: FS has not got to TTY with
it (`Resting`), TTY has it and FS waits (`Asked`), TTY answers (`Answered`), or FS
has been told to let the caller wait and is busy with others while TTY reads
(`Suspended`).  In each of them at most one of FS and TTY sends to the other, which
no single property says and every one needs.  `OthersServed`: FS serves a program
exactly while it owes it an answer, so that no answer goes astray.  `ReadFits` ties
TTY's counters to the request of the process that it copies for.

**ProcLife_proofs.**  `LifeNeverPanics`, `NobodyForgotten`, `AnswersGoToCallers` and
`LivingFormATree`, for process tables of every size and any programs, those that kill
too.  They assume `InitStays`: INIT, which is a loop, does not exit.  `LifeInvariance`
is `astray \/ LifeInv` at every moment: the invariant holds until MM goes astray, and
who has gone astray stays so (`AstrayForGood`); each step need only be followed as far
as it does not (section 6).  What makes kill fit is `InUse`: an entry that is freed
and neither sends, nor is sent to, nor has FS working for it leaves nothing behind in
any queue (`MmFreesKeeps`), whether its owner was about to call or was waiting for
children.  In the same way `MMForkCopy` and `MMWaitStore` write what stands in the
entry, as nothing has changed since `mm_load` was read, and exec finds its caller in
its RECEIVE.
`IPC_proofs` speaks of the kernel alone, but MM writes to the process table by
itself: `fork` copies an entry, `exit` frees one and `wait` sets WAITING.  So the
kernel's invariant is taken up again, with the two bits of MM in it:

    LifeInv == Kernel /\ LifeTypeOK /\ UsersFit /\ FsFits /\ MmCall
               /\ MmRole /\ Accounted /\ Tree

`Kernel` says which values `p_flags` can have, that they agree with the other words
of the entry, and that the queues are exact.  `UsersFit` and `FsFits` say where the
programs and FS are in their calls, and `MmCall` in which call MM can be at each
place of its loop.  `Accounted` carries the proof: a call to MM is taken and not
answered exactly if MM serves it (`Taken`, `MmServes`), from which follows that no
answer is sent twice, to nobody or to a free entry, and that no SEND of MM or FS
closes a circle.  Fork makes two of one caller: both its child and itself
are served until each has its answer, and a copy of a caller that has not
begun its RECEIVE is in `Taken` as well.  `MmRole` remembers from one handler step
to the next whose call is served.  `Tree` is `TreeBelowInit` at every moment: every
set of living processes has one whose parent is outside the set, where the parent
may be the dead process whose children MM is about to give to INIT.  `LeastOf`, the
least element of a set of entries, is what the search of `do_fork` finds; it follows
from the well-foundedness of < on Nat, for which `LifeAssumption` has `Proc` a set
of indices.

**Files_proofs.**  `OpenStaysOpen` (`OpenFileKept`), `SameFileWhileOpen`
(`DescriptorStable`) and `PutInodeAsserts`, for any processes, names, tables and
files, whatever is opened, forked, closed, renamed and removed, from

    FilesInv == FilesTypes /\ ForkFits /\ SharersCounted /\ UsersCounted
                /\ CacheExact /\ OpenRegular /\ DirFits

The counts are cardinalities of sets of pairs of a process and a descriptor, so
that a fork, which gives a child all the descriptors of its parent at once, adds
to each count what its two loops over descriptors add.  Between the copy by MM and
the count by FS the child is left out of them, and `ForkFits` says that it has just
its parent's descriptors.  `UsersCounted` is no equation: a refused unlink, `is_dir`
and `ls` keep a reference (fs/link.c:74), so that a count can be too high but never
too low.  `CacheExact`, no inode is cached twice, is what makes a count say something
of a file: a remove or an open that finds the inode finds the slot with the count
(`SlotTaken` is the counting argument that a slot in use is never the free one that
`get_inode` takes).  `OpenRegular` holds because who removes a file asks for its
count first (`NotOpen`).  `DirFits` speaks of all slots of the directory, those
behind its size too, as `search_file` looks at the slot right behind it.  The
theorems assume `~ OpensDirs`: an open directory can be removed, and then
`OpenFileKept` does fail (section 6).

**FileData_proofs.**  `NothingLost` (`WrittenKept`), `ReadsWhatWasWritten`
(`ReadGivesWritten`), `SizesCover` (`SizeCovers`) and `UntarExtracts`
(`ArchiveExtracted`), from

    FdInv == FdTypes /\ CallFits /\ ReadSoFar /\ Behind /\ Covered /\ InRoom
             /\ WrittenKept /\ UntarFits

`CallFits` is the heart: where the next sector of a call is on the disk, and that
its last turn reaches no further than a sector past its file, although the count
of bytes does not end at the file (`End` may lie anywhere behind it).  So a turn
writes bytes of its own file or of that sector (`TurnElsewhere`), for which
`WrittenKept` alone does not say enough.  `ReadSoFar` says that what a read has
given stands on the disk, `Behind` and `Covered` are `SizeCovers` with a call under
way.  `UntarFits` says where untar is in cmd.tar: the entries up to one are `Done`,
of that one the first `c` bytes are `Copied` or about to be, and the rest of the
archive, from the next header on, stands at the byte where `fd` is (`Stands`).
What the recursive function `Image` gives is not asked: it is enough that the rest
from an entry on is the block of the entry and the rest from the next one
(`SuffixIs`), and that such a function exists, for which the least entry from
which it does is taken, as in the other modules.  The proofs rest on
`FileDataSizes`: FS's buffer holds a file (1 MB each), no program's buffer is
longer than a file, and cmd.tar ends with a sector of zeros and has each file
once, none longer than its room.  TLC evaluates it for the run's instance.

**Kernel_proofs, the scheduler.**  `SchedTypeCorrect` and `OnlyReadyRun`: whatever the policy,
the resumed process can run.  The invariant adds that the spinning processes
TestA, TestB and TestC are always ready: without them both searches could look
for ever, and `FirstFrom` would not be defined.  `LeastNat` stands in for
induction: it takes the least element from the well-foundedness of < on Nat.

**Kernel_proofs, the consoles.**  `ConTypeCorrect`, `ConNeverHalts`, `MonitorCorrect` and
`RowsInOrder`, from

    ConInv == ConTypeOK /\ NoConAssert /\ MonitorInv

`MonitorFollows` speaks of the moments between two characters; `MonitorInv` says
what the controller holds while `out_char` is in its loop, which scrolls through
the same registers.  `ConsoleAssumption` has `CON_ROWS >= 2 * SCR_ROWS`, which
the 68 and 25 rows of the code satisfy.  `RowsInOrder` (`ViewInOrder`) needs
`RowsInv` besides: which line a row holds follows from where the cursor is alone
(`LineOf`), by one formula down to the cursor and by another below it, whose
difference is the number of rows that `w_copy` moves by.  It holds in every
window, so that how far the user has scrolled does not matter.

**Kernel_proofs, the keyboard.**  `KeysAreExact` (`KeysExact`), `ModifiersAreFollowed`
(`ModifiersFollow`) and `NoWaitIsEndless` (`NoEndlessWait`), from

    KbdInv == KbdTypes /\ (~ lost => AllThere) /\ KeysExact

`AllThere` is about bytes where the properties are about keys: there is a history of
presses and releases such that the bytes behind those already decoded are exactly what
`keyboard_read` has taken for the next key, what the ring holds and what the
keyboard has yet to send; the flags and locks of keyboard.c are those of the history
where `keyboard_read` is, the typist's are those at its end, and `owed` is what lies
between.  `CodesParse` is what makes each step keep it: of what a press or release
sends, `NeedsMore` holds until the last byte is there and not then, so that the loop
never takes a byte of the next key with it, nor waits for one.  `DecodesRight` says
that the row and the column of `keymap`, the number pad and `in_process` give what
the key is for.  The theorems hold for every set of keys, both Alt keys among them, any
size of the ring and any number of keys; `cleared` is the history of the one flag
that both Alt keys share (section 6).

**IntrWindow_proofs.**  With interrupts in the middle of system calls, entries are
no longer consistent and assertions do fail, but not everything is lost: for any
number of processes and tasks the queues stay exact (`WindowQueueCorrect`), no circle of
senders forms (`WindowNoCircle`), and between two calls every entry agrees with
itself but those of the tasks that interrupts are for
(`WindowOthersConsistent`).  The invariant is

    WInv == Queues /\ CallOK /\ SendUnderWay /\ ReceiveUnderWay /\ RestAgree

where `CallOK` says where the call can be and between whom, `SendUnderWay` and
`ReceiveUnderWay` what its steps so far have made of the entries it changes,
and `RestAgree` that all others agree.  The queues survive because an
interrupt touches RECEIVING only, and a call changes `p_sendto` and a queue in
one step.

Only model-checked: all liveness (`ServerServesAll`, `CallsReturn`, `EveryoneRuns`,
`PriorityServed`, `KeysTaken`, `ReadsResume`, `OutCharEnds`, `RequestsAnswered`),
and of safety `BlocksDisjoint` of `Buddy` and `DiskConsistent` and `NoFsAssert` of
`Files`.  Liveness under fairness and ENABLED are out of TLAPS's reach, and so
are induction over data (`do_buddy` is a fold over the sizes) and recursive operators,
which no module with a theorem uses.  `DiskConsistent` and `NoFsAssert` are no theorems
of `Files`: they rest on what the bytes of the sector map hold after any removals,
which is arithmetic of bits; what does not depend on it is `DirFits` and
`PutInodeAsserts`.

## 8. Assumptions, and what is not modelled

* A system call is atomic in every module but `IntrWindow`, although `sys_call`
  enables interrupts (kernel/kernel.asm:364).  `IntrWindow` has one system call
  at a time, as there is one kernel stack, and two interrupts are for two tasks.
* `ProcLife`: FS only answers; memory, images and the answer's values are left
  out, except that an answer is one.  `do_buddy` also asks SYS for the ticks
  (mm/main.c:363), once and before its first answer: SYS answers whoever asks and
  asks nobody, so that this only takes time, in which MM is between two steps.
* `TtyFs`: one reader per terminal (a second read overwrites the first,
  kernel/tty.c:308).  What a message says is forgotten once it can no longer be
  read.  What the keyboard decodes is a key.
* `Files`: the root directory only, files of one size, names compared as wholes,
  renames to names no longer than the path they replace, no device files;
  stat changes nothing.
* `FileData`: a byte is a number that tells where it came from; the header of a
  file in the archive is one byte, its number; descriptors are not shared.
* `Keyboard`: keys send what the appendix of include/sys/keymap.h lists; the
  keyboard answers each of the two bytes of `set_leds` once.
* `Buddy`: the sizes drawn are any sequence.
* `Console`: one `out_char` at a time (kernel/console.c:127); all that is printed
  goes to console 0 in the run; a read's characters fit the screen.
* `HdDriver`: one client; DEV_OPEN once, and DEV_CLOSE never, as nobody sends it;
  transfers are multiples of a sector; the disk is modelled from how the
  driver uses it.
* Not modelled: the boot loaders, descriptors and interrupt controllers (set up
  once, alone), the disk log (nothing calls it), reports of MM and SYS,
  formatting, the commands' own output, paths below the root.
