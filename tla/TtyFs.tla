-------------------------------- MODULE TtyFs --------------------------------
(***************************************************************************)
(* Reading from a terminal: the terminal task TTY (kernel/tty.c), the file *)
(* system task FS that programs reach it through (fs/read_write.c), the    *)
(* keyboard and clock interrupts, and the programs, on top of IPC.         *)
(*                                                                         *)
(* A read() of a terminal is answered late: TTY tells FS to suspend the    *)
(* caller, FS goes on without answering, and when the line is complete TTY *)
(* sends FS a RESUME_PROC that names the process to answer.                *)
(*                                                                         *)
(* The message words DEVICE, PROC_NR and CNT travel in the type field of   *)
(* IPC's messages.  What a task computes on its own words alone rides on   *)
(* the step that follows it.                                               *)
(***************************************************************************)
EXTENDS IPC, Integers

CONSTANTS FS, TTY,       \* the two tasks
          NR_CONSOLES,
          TtyUser,       \* programs that use a terminal
          StdTty,        \* the terminal that each of them has opened
          FileUser,      \* programs that make FS serve other requests
          MaxCnt,        \* what a program reads or writes at once
          KB_IN_BYTES,   \* size of the keyboard's ring
          TTY_IN_BYTES,  \* size of a terminal's ring
          Typed          \* the keys that are typed

User == TtyUser \cup FileUser
Tty == 0..(NR_CONSOLES - 1)

Body(kind, device, proc, cnt) ==
  [kind |-> kind, DEVICE |-> device, PROC_NR |-> proc, CNT |-> cnt]

TerminalCall == {"READ", "WRITE", "OPEN"}

(* What the programs ask of FS; STAT stands for what FS serves by itself.  *)
Requests(p) ==
  IF p \in TtyUser
    THEN {Body(k, StdTty[p], p, MaxCnt) : k \in TerminalCall}
    ELSE {Body("STAT", 0, p, 0)}

Kind == {"READ", "WRITE", "OPEN", "STAT", "DEV_READ", "DEV_WRITE", "DEV_OPEN",
         "SUSPEND_PROC", "RESUME_PROC", "SYSCALL_RET"}

(* What a key means to in_process: a printable character, backspace,       *)
(* enter, or a page key, which changes the console.                        *)
Key == {"c", "BACKSPACE", "ENTER", "PAGEUP", "PAGEDOWN"}
Char == {"c", "BACKSPACE", "ENTER"}

ASSUME TtyAssumption ==
  /\ MaxCnt \in Nat \ {0} /\ KB_IN_BYTES \in Nat \ {0} /\ TTY_IN_BYTES \in Nat \ {0}
  /\ NR_CONSOLES \in Nat \ {0}
  /\ FS # TTY /\ FS \notin User /\ TTY \notin User
  /\ TtyUser \cap FileUser = {} /\ TtyUser # {}
  /\ StdTty \in [TtyUser -> Tty]
  /\ Typed \subseteq Key
  /\ Proc = User \cup {FS, TTY} /\ IntTask = {TTY}
  /\ Type = {Body(k, t, p, n) : k \in Kind, t \in Tty, p \in User, n \in 0..MaxCnt}

VARIABLES
  stage, request,       \* of a user: where its call is, and which it is
  fs_pc, fs_src,        \* where FS is, and whom it serves
  kb_in,                \* keys that keyboard_handler stored
  key_pressed,          \* told to TTY by the next clock interrupt
  current_console,
  tty_pc, tty_at,       \* where TTY is, and the terminal it is at
  ibuf,                 \* characters that wait for their echo
  tty_procnr, tty_left_cnt, tty_trans_cnt,   \* the read of each terminal
  shown                 \* characters of that read on the screen

userVars == <<stage, request>>
fsVars == <<fs_pc, fs_src>>
kbVars == <<kb_in, key_pressed>>
readVars == <<tty_procnr, tty_left_cnt, tty_trans_cnt, shown>>
ttyVars == <<current_console, tty_pc, tty_at, ibuf, readVars>>
vars == <<ipcVars, userVars, fsVars, kbVars, ttyVars>>

(* The value of a process number that is not set, and a cleared message.   *)
NobodyYet == CHOOSE p \in User : TRUE
Cleared == Body("SYSCALL_RET", 0, NobodyYet, 0)

TtyInit ==
  /\ Init
  /\ stage = [p \in User |-> "idle"]
  /\ request = [p \in User |-> Cleared]
  /\ fs_pc = "receive" /\ fs_src = NobodyYet
  /\ kb_in = <<>> /\ key_pressed = FALSE
  /\ current_console = 0
  /\ tty_pc = "drain" /\ tty_at = 0
  /\ ibuf = [t \in Tty |-> <<>>]
  /\ tty_procnr = [t \in Tty |-> NO_TASK]
  /\ tty_left_cnt = [t \in Tty |-> 0]
  /\ tty_trans_cnt = [t \in Tty |-> 0]
  /\ shown = [t \in Tty |-> 0]

-----------------------------------------------------------------------------
(* What a process does not read again of its MESSAGE is not kept.          *)
Forget(p) ==
  /\ mbuf' = [mbuf EXCEPT ![p] = Signed(p, NoType)]
  /\ UNCHANGED <<p_flags, p_msg, p_sendto, p_recvfrom, has_int_msg, q_sending, panic>>

(***************************************************************************)
(* Programs: read(), write(), open() and stat() are each a SEND to FS and  *)
(* a RECEIVE from it.                                                      *)
(***************************************************************************)
InCall(p) == \/ stage[p] = "called"
             \/ stage[p] = "waiting" /\ RECEIVING \in p_flags[p]

UserSend(p) ==
  /\ stage[p] = "idle"
  /\ \E r \in Requests(p) :
        /\ msg_send(p, FS, r)
        /\ request' = [request EXCEPT ![p] = r]
  /\ stage' = [stage EXCEPT ![p] = "called"]
  /\ UNCHANGED <<fsVars, kbVars, ttyVars>>

UserAwait(p) ==
  /\ stage[p] = "called"
  /\ msg_receive(p, FS)
  /\ stage' = [stage EXCEPT ![p] = "waiting"]
  /\ UNCHANGED <<request, fsVars, kbVars, ttyVars>>

UserReturn(p) ==
  /\ stage[p] = "waiting" /\ Running(p)
  /\ stage' = [stage EXCEPT ![p] = "idle"]
  /\ request' = [request EXCEPT ![p] = Cleared]
  /\ Forget(p)
  /\ UNCHANGED <<fsVars, kbVars, ttyVars>>

-----------------------------------------------------------------------------
(***************************************************************************)
(* task_fs, do_rdwt and do_open for a terminal.                            *)
(***************************************************************************)
FSReceive ==
  /\ fs_pc = "receive"
  /\ msg_receive(FS, ANY)
  /\ fs_pc' = "dispatch"
  /\ UNCHANGED <<fs_src, userVars, kbVars, ttyVars>>

DriverKind(k) == CASE k = "READ" -> "DEV_READ" [] k = "WRITE" -> "DEV_WRITE"
                   [] k = "OPEN" -> "DEV_OPEN"

FSCallTty ==
  /\ Running(FS) /\ fs_pc = "dispatch"
  /\ mbuf[FS].type.kind \in TerminalCall
  /\ LET m == mbuf[FS].type
     IN  msg_send(FS, TTY, Body(DriverKind(m.kind), m.DEVICE, mbuf[FS].source, m.CNT))
  /\ fs_src' = mbuf[FS].source
  /\ fs_pc' = "await_tty"
  /\ UNCHANGED <<userVars, kbVars, ttyVars>>

FSAwaitTty ==
  /\ fs_pc = "await_tty"
  /\ msg_receive(FS, TTY)
  /\ fs_pc' = "answered"
  /\ UNCHANGED <<fs_src, userVars, kbVars, ttyVars>>

(* The process that a message makes FS answer at once, if any.             *)
FSAnswers_unresumed(p) ==
  LET m == mbuf[FS].type
  IN  \/ fs_pc = "dispatch" /\ m.kind = "STAT" /\ p = mbuf[FS].source
      \/ fs_pc = "answered" /\ m.kind = "SYSCALL_RET" /\ p = fs_src
FSAnswers_suspended(p) ==
  LET m == mbuf[FS].type
  IN  \/ fs_pc = "dispatch" /\ m.kind = "STAT" /\ p = mbuf[FS].source
      \/ fs_pc = "dispatch" /\ m.kind = "RESUME_PROC" /\ p = m.PROC_NR
      \/ fs_pc = "answered" /\ m.kind \in {"SYSCALL_RET", "SUSPEND_PROC"} /\ p = fs_src
FSAnswers(p) ==
  LET m == mbuf[FS].type
  IN  \/ fs_pc = "dispatch" /\ m.kind = "STAT" /\ p = mbuf[FS].source
      \/ fs_pc = "dispatch" /\ m.kind = "RESUME_PROC" /\ p = m.PROC_NR
      \/ fs_pc = "answered" /\ m.kind = "SYSCALL_RET" /\ p = fs_src

FSReply ==
  /\ Running(FS) /\ fs_pc \in {"dispatch", "answered"}
  /\ \E p \in User :
        /\ FSAnswers(p)
        /\ msg_send(FS, p, [mbuf[FS].type EXCEPT !.kind = "SYSCALL_RET"])
  /\ fs_src' = NobodyYet
  /\ fs_pc' = "receive"
  /\ UNCHANGED <<userVars, kbVars, ttyVars>>

FSSuspend ==
  /\ Running(FS)
  /\ fs_pc = "answered" /\ mbuf[FS].type.kind = "SUSPEND_PROC"
  /\ \A p \in User : ~ FSAnswers(p)
  /\ fs_pc' = "receive" /\ fs_src' = NobodyYet
  /\ Forget(FS)
  /\ UNCHANGED <<userVars, kbVars, ttyVars>>

-----------------------------------------------------------------------------
(***************************************************************************)
(* keyboard_handler and the part of clock_handler that wakes TTY.          *)
(***************************************************************************)
KeyPress(k) ==
  /\ panic = "none"
  /\ kb_in' = IF Len(kb_in) < KB_IN_BYTES THEN Append(kb_in, k) ELSE kb_in
  /\ key_pressed' = TRUE
  /\ UNCHANGED <<ipcVars, userVars, fsVars, ttyVars>>

ClockTick ==
  /\ key_pressed
  /\ inform_int(TTY)
  /\ UNCHANGED <<userVars, fsVars, kbVars, ttyVars>>

-----------------------------------------------------------------------------
(***************************************************************************)
(* task_tty visits every terminal and then receives.  TtyLocal is a step   *)
(* of its own code from pc to next at the same terminal.                   *)
(***************************************************************************)
TtyLocal(pc, next) ==
  /\ Running(TTY) /\ tty_pc = pc
  /\ tty_pc' = next
  /\ UNCHANGED <<ipcVars, userVars, fsVars>>

(* The loop over the terminals: one that is not the current console has    *)
(* nothing to do, so after terminal t the loop comes to the current one if *)
(* that is further on, and else to the receive.  (Before the loop t is -1.) *)
VisitAfter(t) ==
  IF current_console > t
    THEN tty_pc' = "drain" /\ tty_at' = current_console
    ELSE tty_pc' = "receive" /\ tty_at' = 0

TtyScan ==
  /\ Running(TTY) /\ tty_pc = "scan"
  /\ Forget(TTY)
  /\ VisitAfter(-1)
  /\ UNCHANGED <<userVars, fsVars, kbVars, current_console, ibuf, readVars>>

PutKey(t, k) ==
  ibuf' = IF k \in Char /\ Len(ibuf[t]) < TTY_IN_BYTES
            THEN [ibuf EXCEPT ![t] = Append(@, k)] ELSE ibuf

NextConsole(k) ==
  CASE k = "PAGEUP"   -> (current_console + 1) % NR_CONSOLES
    [] k = "PAGEDOWN" -> (current_console + NR_CONSOLES - 1) % NR_CONSOLES
    [] OTHER          -> current_console

(* keyboard_read takes one key after the other, also past a page key.      *)
TtyTakeKey ==
  /\ kb_in # <<>>
  /\ TtyLocal("drain", "drain")
  /\ PutKey(tty_at, Head(kb_in))
  /\ current_console' = NextConsole(Head(kb_in))
  /\ kb_in' = Tail(kb_in)
  /\ UNCHANGED <<key_pressed, tty_at, readVars>>

TtyDrained ==
  /\ kb_in = <<>>
  /\ TtyLocal("drain", "echo")
  /\ UNCHANGED <<kbVars, current_console, tty_at, ibuf, readVars>>

(***************************************************************************)
(* tty_dev_write: the next character is echoed and copied if a read waits, *)
(* and dropped if none does.  Backspace takes back what this read got.     *)
(***************************************************************************)
Erases_prompt(t, ch) == ch = "BACKSPACE"
Erases(t, ch) == ch = "BACKSPACE" /\ tty_trans_cnt[t] > 0

Step(t, ch) == IF ch = "c" THEN 1 ELSE IF Erases(t, ch) THEN -1 ELSE 0
LeftStep(t, ch) == - Step(t, ch)

Echo(t, ch) ==
  /\ tty_left_cnt[t] > 0
  /\ ibuf' = [ibuf EXCEPT ![t] = Tail(@)]
  /\ tty_trans_cnt' = [tty_trans_cnt EXCEPT ![t] = @ + Step(t, ch)]
  /\ tty_left_cnt' = [tty_left_cnt EXCEPT ![t] = @ + LeftStep(t, ch)]
  /\ UNCHANGED <<tty_procnr, current_console, tty_at, kbVars>>

Completes(t, ch) == ch = "ENTER" \/ tty_left_cnt[t] + LeftStep(t, ch) = 0

TtyEcho ==
  /\ ibuf[tty_at] # <<>>
  /\ Echo(tty_at, Head(ibuf[tty_at]))
  /\ ~ Completes(tty_at, Head(ibuf[tty_at]))
  /\ shown' = [shown EXCEPT ![tty_at] = @ + Step(tty_at, Head(ibuf[tty_at]))]
  /\ TtyLocal("echo", "echo")

TtyResume ==
  /\ tty_pc = "echo" /\ ibuf[tty_at] # <<>>
  /\ Echo(tty_at, Head(ibuf[tty_at]))
  /\ Completes(tty_at, Head(ibuf[tty_at]))
  /\ shown' = [shown EXCEPT ![tty_at] = 0]     \* out_char(console, '\n')
  /\ msg_send(TTY, FS,
              Body("RESUME_PROC", tty_at, tty_procnr[tty_at], tty_trans_cnt'[tty_at]))
  /\ tty_pc' = "resumed"
  /\ UNCHANGED <<userVars, fsVars>>

(* Only after its SEND is done TTY forgets the read.  (Its other words are *)
(* dead until the next read sets them, and are cleared here.)              *)
AfterResume_kept(t) == tty_left_cnt[t]
AfterResume(t) == 0

TtyResumed ==
  /\ Running(TTY) /\ tty_pc = "resumed"
  /\ tty_pc' = "echo"
  /\ Forget(TTY)
  /\ tty_left_cnt' = [tty_left_cnt EXCEPT ![tty_at] = AfterResume(tty_at)]
  /\ IF AfterResume(tty_at) = 0
       THEN /\ tty_trans_cnt' = [tty_trans_cnt EXCEPT ![tty_at] = 0]
            /\ tty_procnr' = [tty_procnr EXCEPT ![tty_at] = NO_TASK]
       ELSE UNCHANGED <<tty_trans_cnt, tty_procnr>>
  /\ UNCHANGED <<userVars, fsVars, kbVars, current_console, tty_at, ibuf, shown>>

TtyDrop ==
  /\ ibuf[tty_at] # <<>> /\ tty_left_cnt[tty_at] = 0
  /\ TtyLocal("echo", "echo")
  /\ ibuf' = [ibuf EXCEPT ![tty_at] = Tail(@)]
  /\ UNCHANGED <<kbVars, current_console, tty_at, readVars>>

TtyNextTerminal_clears ==
  /\ Running(TTY) /\ tty_pc = "echo" /\ ibuf[tty_at] = <<>>
  /\ VisitAfter(tty_at)
  /\ key_pressed' = (tty_pc' = "drain" /\ key_pressed)
  /\ UNCHANGED <<ipcVars, userVars, fsVars, kb_in, current_console, ibuf, readVars>>
TtyNextTerminal ==
  /\ Running(TTY) /\ tty_pc = "echo" /\ ibuf[tty_at] = <<>>
  /\ VisitAfter(tty_at)
  /\ UNCHANGED <<ipcVars, userVars, fsVars, kbVars, current_console, ibuf, readVars>>

TtyReceive ==
  /\ tty_pc = "receive"
  /\ msg_receive(TTY, ANY)
  /\ tty_pc' = "dispatch"
  /\ UNCHANGED <<userVars, fsVars, kbVars, current_console, tty_at, ibuf, readVars>>

TtyHardInt ==
  /\ Running(TTY) /\ tty_pc = "dispatch" /\ mbuf[TTY].type = HARD_INT
  /\ key_pressed' = FALSE
  /\ Forget(TTY)
  /\ VisitAfter(-1)
  /\ UNCHANGED <<userVars, fsVars, kb_in, current_console, ibuf, readVars>>

TtyAnswer(body) ==
  /\ tty_pc = "dispatch"
  /\ msg_send(TTY, FS, body)
  /\ tty_pc' = "scan"
  /\ UNCHANGED <<userVars, fsVars, kbVars, current_console, tty_at, ibuf>>

(* The message that TTY got, with another type.                            *)
SentBack(kind) == [mbuf[TTY].type EXCEPT !.kind = kind]

Got(kind) ==
  /\ Running(TTY) /\ tty_pc = "dispatch"
  /\ mbuf[TTY].type # HARD_INT
  /\ mbuf[TTY].type.kind = kind

TtyDoRead ==
  /\ Got("DEV_READ")
  /\ TtyAnswer(SentBack("SUSPEND_PROC"))
  /\ LET m == mbuf[TTY].type
     IN  /\ tty_procnr' = [tty_procnr EXCEPT ![m.DEVICE] = m.PROC_NR]
         /\ tty_left_cnt' = [tty_left_cnt EXCEPT ![m.DEVICE] = m.CNT]
         /\ tty_trans_cnt' = [tty_trans_cnt EXCEPT ![m.DEVICE] = 0]
         /\ shown' = [shown EXCEPT ![m.DEVICE] = 0]

TtyDoWrite ==
  Got("DEV_WRITE") /\ TtyAnswer(SentBack("SYSCALL_RET")) /\ UNCHANGED readVars

(* reset_msg clears the message before it is sent back.                    *)
TtyDoOpen ==
  Got("DEV_OPEN") /\ TtyAnswer(Cleared) /\ UNCHANGED readVars

-----------------------------------------------------------------------------
FSNext == FSReceive \/ FSCallTty \/ FSAwaitTty \/ FSReply \/ FSSuspend

TtyNext ==
  \/ TtyScan \/ TtyTakeKey \/ TtyDrained
  \/ TtyEcho \/ TtyResume \/ TtyResumed \/ TtyDrop \/ TtyNextTerminal
  \/ TtyReceive \/ TtyHardInt \/ TtyDoRead \/ TtyDoWrite \/ TtyDoOpen

SysNext ==
  \/ \E p \in User : UserSend(p) \/ UserAwait(p) \/ UserReturn(p)
  \/ FSNext
  \/ TtyNext
  \/ \E k \in Typed : KeyPress(k)
  \/ ClockTick

TtySpec == TtyInit /\ [][SysNext]_vars

(* The clock goes on for ever and the scheduler runs whoever can.          *)
FairTtySpec ==
  /\ TtySpec
  /\ WF_vars(FSNext) /\ WF_vars(TtyNext) /\ WF_vars(ClockTick)
  /\ WF_vars(\E p \in User : UserAwait(p))

-----------------------------------------------------------------------------
TtyTypeOK ==
  /\ TypeOK
  /\ stage \in [User -> {"idle", "called", "waiting"}]
  /\ \A p \in User : request[p] \in Requests(p) \cup {Cleared}
  /\ fs_pc \in {"receive", "dispatch", "await_tty", "answered"}
  /\ fs_src \in User
  /\ kb_in \in Seq(Key) /\ Len(kb_in) <= KB_IN_BYTES
  /\ key_pressed \in BOOLEAN
  /\ current_console \in Tty /\ tty_at \in Tty
  /\ tty_pc \in {"scan", "drain", "echo", "resumed", "receive", "dispatch"}
  /\ ibuf \in [Tty -> Seq(Char)] /\ \A t \in Tty : Len(ibuf[t]) <= TTY_IN_BYTES
  /\ tty_procnr \in [Tty -> User \cup {NO_TASK}]
  /\ tty_left_cnt \in [Tty -> 0..MaxCnt]
  /\ tty_trans_cnt \in [Tty -> 0..MaxCnt]
  /\ shown \in [Tty -> 0..MaxCnt]

(* A read that TTY has been asked for and not reported as done.            *)
Reading(t) == tty_left_cnt[t] > 0 /\ ~ (tty_pc = "resumed" /\ tty_at = t)

(* A program may write while another one reads, and TTY and FS do not send *)
(* to each other at the same time, which would stop the system.  README.md *)
(* line 39 has a program that prints for ever beside the shell that reads. *)
NoSystemDeadlock == panic # "deadlock"

(* With one program that uses the terminals, no circle of senders forms    *)
(* between TTY and FS and no assert() fails, whatever is typed and when,   *)
(* and the counts and buffers of the terminals stay within their bounds.   *)
TtyNoPanic == TtyTypeOK /\ panic = "none"

(* TTY copies characters into the memory of a process only while that      *)
(* process waits in the very read() that asked for them; and FS answers    *)
(* only a process that waits for an answer, and only once: an answer to    *)
(* anybody else would block FS, and with it the system.                    *)
ReaderWaits ==
  /\ \A t \in Tty : Reading(t) =>
        LET p == tty_procnr[t]
        IN  InCall(p) /\ request[p].kind = "READ" /\ request[p].DEVICE = t
  /\ \A p \in User : Sends(FS, p) => InCall(p) /\ request[p] # Cleared

(* The copy stays inside the buffer that the program passed, and the       *)
(* screen shows just the characters that the program will get: backspace   *)
(* never erases what was there before the read.                            *)
EchoIsRead ==
  \A t \in Tty : Reading(t) =>
     /\ tty_trans_cnt[t] \in 0..request[tty_procnr[t]].CNT
     /\ tty_trans_cnt[t] + tty_left_cnt[t] = request[tty_procnr[t]].CNT
     /\ shown[t] = tty_trans_cnt[t]

(* Keys do not stay in the ring: however the clock interrupt that reports  *)
(* them falls, key_pressed is never cleared for a key that nobody takes.   *)
KeysTaken == kb_in # <<>> ~> tty_pc = "drain"

(* A process that TTY reports as done is resumed, whatever FS was doing.   *)
Reported(p) ==
  \/ Sends(TTY, FS) /\ mbuf[TTY].type.kind = "RESUME_PROC" /\ mbuf[TTY].type.PROC_NR = p
  \/ /\ fs_pc = "dispatch" /\ Running(FS)
     /\ mbuf[FS].type.kind = "RESUME_PROC" /\ mbuf[FS].type.PROC_NR = p

ReadsResume == \A p \in TtyUser : Reported(p) ~> ~ InCall(p)

=============================================================================
