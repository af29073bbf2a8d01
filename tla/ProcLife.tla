------------------------------ MODULE ProcLife ------------------------------
(***************************************************************************)
(* The life of processes: the process manager task MM (mm/main.c,          *)
(* mm/forkexit.c, mm/exec.c) with the user processes that call it and the  *)
(* file system task that it calls, on top of the message passing of IPC.   *)
(*                                                                         *)
(* Between two system calls MM runs in ring 1 with interrupts on, so any   *)
(* other process may run between any two of its steps.  A user process is  *)
(* an arbitrary program: it makes any of its calls in any order.  lib/     *)
(* makes each of them a send_recv(BOTH, server, &msg): a SEND and then a   *)
(* RECEIVE, with a gap between them.  buddy() is a conversation: rounds in *)
(* which MM answers, and waits for the caller alone to ask again, while    *)
(* the caller prints what it got.                                          *)
(*                                                                         *)
(* OPEN stands for the calls to FS, FORK for FORK_PRI too, and TOTAL for   *)
(* those that MM answers at once: TOTAL, MSTAT, PSTAT, MONITOR, CSCHED and *)
(* CPROCPRI (what the last two change is in Scheduler).                    *)
(***************************************************************************)
EXTENDS IPC, Buddy, Integers

CONSTANTS FS, MM, INIT_PID,   \* numbers of the tasks and of the first process
          Slot,           \* the entries of proc_table that fork can use
          Calls,          \* of a user: the calls that its programs make
          BuddyRounds,    \* blocks that do_buddy allocates
          KillFloor       \* do_kill refuses smaller pids

User == Slot \cup {INIT_PID}
CallType == {"FORK", "WAIT", "EXIT", "EXEC", "KILLP", "TOTAL", "BUDDY", "OPEN"}

ASSUME LifeAssumption ==
  /\ Proc \subseteq Nat
  /\ FS # MM /\ FS \notin User /\ MM \notin User /\ INIT_PID \notin Slot
  /\ Proc = User \cup {FS, MM}
  /\ Calls \in [User -> SUBSET CallType] /\ BuddyRounds \in Nat \ {0}
  /\ KillFloor \in Nat /\ INIT_PID < KillFloor
  /\ Type = CallType \cup {"SYSCALL_RET"}

VARIABLES
  stage,     \* of a user: "idle", "called" after the SEND, "waiting" after the RECEIVE
  request,   \* of a user: the call it made last
  still,     \* of a user: the calls that buddy() has still to make
  p_parent,  \* pid of the parent process
  mm_pc,     \* where MM is
  mm_src, mm_type,   \* mm_msg.source and mm_msg.type
  mm_who,    \* the process that MM forks or buries
  mm_load,   \* the p_flags that MM has loaded, to set a bit in or to copy
  astray,    \* history: MM has lost, or left behind, something of a process
  mm_nth,    \* which of its calls to FS do_exec is at, or round of do_buddy
  fs_pc      \* where FS is

userVars == <<stage, request, still>>
mmVars == <<mm_pc, mm_src, mm_type, mm_who, mm_load, astray, mm_nth>>
lifeVars == <<ipcVars, userVars, p_parent, mmVars, fs_pc>>

Free(p) == FREE_SLOT \in p_flags[p]
ServerOf(t) == IF t = "OPEN" THEN FS ELSE MM

(* A process that has made a call and has not got the answer.              *)
InCall(p) == \/ stage[p] = "called"
             \/ stage[p] = "waiting" /\ RECEIVING \in p_flags[p]

Returns(p) == stage[p] = "waiting" /\ Running(p)

LifeTypeOK ==
  /\ TypeOK
  /\ stage \in [User -> {"idle", "called", "waiting"}]
  /\ request \in [User -> CallType \cup {"none"}]
  /\ still \in [User -> Seq({"OPEN", "BUDDY"})]
  /\ p_parent \in [User -> User \cup {NO_TASK}]
  /\ mm_pc \in {"receive", "dispatch", "reply", "fork_regs", "fork_copy", "fork_fs", "fork_fs_wait", "fork_child", "exit_fs",
                "exit_fs_wait", "exit_parent", "cleanup_send", "cleanup_free",
                "adopt", "wait", "wait_store", "wait_none", "exec_fs",
                "exec_fs_wait", "exec_next", "exec_load",
                "buddy_send", "buddy_await"}
  /\ mm_src \in User /\ mm_who \in User
  /\ mm_type \in CallType \cup {"none"}
  /\ mm_load \in SUBSET Flag /\ astray \in BOOLEAN
  /\ mm_nth \in Nat
  /\ fs_pc \in {"receive", "reply"}

(***************************************************************************)
(* kernel_main: INIT is runnable, the slots are free.  (Their p_parent is  *)
(* 0, the number of a task, which nobody forks from: NO_TASK here.)        *)
(***************************************************************************)
LifeInit ==
  /\ p_flags = [p \in Proc |-> IF p \in Slot THEN {FREE_SLOT} ELSE {}]
  /\ p_msg = [p \in Proc |-> FALSE]
  /\ p_sendto = [p \in Proc |-> NO_TASK]
  /\ p_recvfrom = [p \in Proc |-> NO_TASK]
  /\ has_int_msg = [p \in Proc |-> FALSE]
  /\ q_sending = [p \in Proc |-> <<>>]
  /\ mbuf = [p \in Proc |-> Signed(p, NoType)]
  /\ panic = "none"
  /\ stage = [p \in User |-> "idle"]
  /\ request = [p \in User |-> "none"]
  /\ still = [p \in User |-> <<>>]
  /\ p_parent = [p \in User |-> NO_TASK]
  /\ mm_pc = "receive" /\ mm_src = INIT_PID /\ mm_type = "none" /\ mm_who = INIT_PID
  /\ mm_load = {} /\ mm_nth = 0 /\ astray = FALSE
  /\ fs_pc = "receive"

-----------------------------------------------------------------------------
(***************************************************************************)
(* User processes: fork(), wait(), exit(), execv(), kill_process(),        *)
(* buddy() and the others.  buddy() prints the block it got and asks once  *)
(* more for each of them.                                                  *)
(***************************************************************************)
Rounds == [n \in 1..(2 * BuddyRounds) |-> IF n % 2 = 1 THEN "OPEN" ELSE "BUDDY"]

UserSend(p) ==
  /\ stage[p] = "idle"
  /\ \E t \in IF still[p] = <<>> THEN Calls[p] ELSE {Head(still[p])} :
        /\ msg_send(p, ServerOf(t), t)
        /\ request' = [request EXCEPT ![p] = t]
        /\ still' = [still EXCEPT ![p] = IF @ # <<>> THEN Tail(@)
                                         ELSE IF t = "BUDDY" THEN Rounds ELSE <<>>]
  /\ stage' = [stage EXCEPT ![p] = "called"]
  /\ UNCHANGED <<p_parent, mmVars, fs_pc>>

UserAwait(p) ==
  /\ stage[p] = "called"
  /\ msg_receive(p, ServerOf(request[p]))
  /\ stage' = [stage EXCEPT ![p] = "waiting"]
  /\ UNCHANGED <<request, still, p_parent, mmVars, fs_pc>>

(* The function of lib/ returns: its MESSAGE is a local variable.          *)
UserReturn(p) ==
  /\ Returns(p)
  /\ stage' = [stage EXCEPT ![p] = "idle"]
  /\ request' = [request EXCEPT ![p] = "none"]
  /\ mbuf' = [mbuf EXCEPT ![p] = Signed(p, NoType)]
  /\ UNCHANGED <<p_flags, p_msg, p_sendto, p_recvfrom, has_int_msg, q_sending,
                 panic, still, p_parent, mmVars, fs_pc>>

(***************************************************************************)
(* task_fs: take a message, serve it, answer it.                           *)
(***************************************************************************)
FSReceive ==
  /\ fs_pc = "receive"
  /\ msg_receive(FS, ANY)
  /\ fs_pc' = "reply"
  /\ UNCHANGED <<userVars, p_parent, mmVars>>

FSReply ==
  /\ fs_pc = "reply"
  /\ msg_send(FS, mbuf[FS].source, "SYSCALL_RET")
  /\ fs_pc' = "receive"
  /\ UNCHANGED <<userVars, p_parent, mmVars>>

-----------------------------------------------------------------------------
(***************************************************************************)
(* task_mm's loop.  What is local to one round of it starts afresh.        *)
(***************************************************************************)
Fresh == mm_src' = INIT_PID /\ mm_type' = "none" /\ mm_who' = INIT_PID /\ mm_nth' = 0

MMReceive ==
  /\ mm_pc = "receive"
  /\ msg_receive(MM, ANY)
  /\ mm_pc' = "dispatch"
  /\ Fresh
  /\ UNCHANGED <<userVars, p_parent, mm_load, astray, fs_pc>>

(* MM at pc goes to next without touching the process table.               *)
MMGoto(pc, next) ==
  /\ Running(MM) /\ mm_pc = pc
  /\ mm_pc' = next
  /\ UNCHANGED <<ipcVars, userVars, p_parent, fs_pc>>

(* MM at pc sends a message and goes on at next when it is released.       *)
MMSend(pc, d, t, next) ==
  /\ mm_pc = pc
  /\ msg_send(MM, d, t)
  /\ mm_pc' = next
  /\ UNCHANGED <<userVars, p_parent, mm_src, mm_type, mm_who, mm_load, astray,
                 mm_nth, fs_pc>>

MMAwaitFS(pc, next) ==
  /\ mm_pc = pc
  /\ msg_receive(MM, FS)
  /\ mm_pc' = next
  /\ UNCHANGED <<userVars, p_parent, mm_src, mm_type, mm_who, mm_load, astray,
                 mm_nth, fs_pc>>

FreeSlots == {s \in Slot : p_flags[s] = {FREE_SLOT}}

MMDispatch ==
  /\ \E next \in {"reply", "fork_regs", "exit_fs", "wait", "exec_fs", "buddy_send"} :
        /\ MMGoto("dispatch", next)
        /\ mm_src' = mbuf[MM].source
        /\ mm_type' = mbuf[MM].type
        /\ CASE mm_type' = "FORK" ->
                  /\ next = IF FreeSlots = {} THEN "reply" ELSE "fork_regs"
                  /\ mm_who' = mm_who
             [] mm_type' = "EXIT" -> next = "exit_fs" /\ mm_who' = mm_src'
             [] mm_type' = "WAIT" -> next = "wait" /\ mm_who' = mm_who
             [] mm_type' = "EXEC" -> next = "exec_fs" /\ mm_who' = mm_who
             [] mm_type' = "TOTAL" -> next = "reply" /\ mm_who' = mm_who
             [] mm_type' = "BUDDY" -> next = "buddy_send" /\ mm_who' = mm_who
             [] mm_type' = "KILLP" ->   \* the command refuses its own pid
                  \E t \in User \ {mm_src'} :
                     IF t < KillFloor \/ Free(t)
                       THEN next = "reply" /\ mm_who' = mm_who
                       ELSE next = "exit_fs" /\ mm_who' = t
  /\ UNCHANGED <<mm_load, astray, mm_nth>>

MMReply == MMSend("reply", mm_src, "SYSCALL_RET", "receive")

(***************************************************************************)
(* MM has gone astray: it has written an entry of the table under the      *)
(* process that used it.  The caller of fork(), wait() or exec() has begun *)
(* its RECEIVE between two words of the copy, or between the load and the  *)
(* store of a `|=', or has not begun it when its eip is overwritten; or an *)
(* entry is freed that stands in a queue, has one, or that FS serves.      *)
(* What follows is what the code does, but promises nothing any more.      *)
(***************************************************************************)
GoesAstrayIf(b) == astray' = (astray \/ b)

InUse(p) == \/ SENDING \in p_flags[p] \/ q_sending[p] # <<>>
            \/ fs_pc = "reply" /\ Running(FS) /\ mbuf[FS].source = p

(***************************************************************************)
(* do_fork: the first free entry becomes a copy of the caller's, p_flags   *)
(* and saved registers included, and gets a copy of its memory; FS is      *)
(* told; the child is sent the 0 that its fork() returns.  The copy takes  *)
(* the registers (stage) first and the rest later.  When the caller began  *)
(* its RECEIVE in between, the child is one that has yet to begin it, with *)
(* the bits of one that waits: the mixture if the caller ran right after   *)
(* the registers.                                                          *)
(***************************************************************************)
MMForkRegs ==
  /\ MMGoto("fork_regs", "fork_copy")
  /\ mm_load' = p_flags[mm_src]
  /\ UNCHANGED <<mm_src, mm_type, mm_who, astray, mm_nth>>

MMForkCopy ==
  LET kid == CHOOSE s \in FreeSlots : \A o \in FreeSlots : s <= o
      Copy(f) == [f EXCEPT ![kid] = f[mm_src]]
      torn == p_flags[mm_src] # mm_load
  IN  /\ Running(MM) /\ mm_pc = "fork_copy"
      /\ mm_pc' = "fork_fs"
      /\ GoesAstrayIf(torn)
      /\ mm_load' = {}
      /\ mm_who' = kid
      /\ p_flags' = Copy(p_flags)
      /\ p_msg' = Copy(p_msg)
      /\ p_sendto' = Copy(p_sendto)
      /\ p_recvfrom' = Copy(p_recvfrom)
      /\ has_int_msg' = Copy(has_int_msg)
      /\ q_sending' = Copy(q_sending)
      /\ mbuf' = Copy(mbuf)
      /\ stage' = [stage EXCEPT ![kid] = IF torn THEN "called" ELSE stage[mm_src]]
      /\ request' = Copy(request)
      /\ still' = Copy(still)
      /\ p_parent' = [p_parent EXCEPT ![kid] = mm_src]
      /\ UNCHANGED <<panic, mm_src, mm_type, mm_nth, fs_pc>>

MMForkTellFS  == MMSend("fork_fs", FS, "FORK", "fork_fs_wait")
MMForkAwaitFS == MMAwaitFS("fork_fs_wait", "fork_child")
MMForkChild_only == MMSend("fork_child", mm_who, "SYSCALL_RET", "receive")
MMForkChild   == MMSend("fork_child", mm_who, "SYSCALL_RET", "reply")

(***************************************************************************)
(* do_exit and do_exit_by_mm, which do_kill calls: FS is told, a WAITING   *)
(* parent is answered, the entry is freed and the children become INIT's.  *)
(* (The loop's HANGING case is never taken: nothing sets HANGING.)         *)
(***************************************************************************)
MMExitTellFS  == MMSend("exit_fs", FS, "EXIT", "exit_fs_wait")
MMExitAwaitFS == MMAwaitFS("exit_fs_wait", "exit_parent")

ParentWaits(p) == p_parent[p] \in User /\ WAITING \in p_flags[p_parent[p]]

MMExitWakes_marked ==
  /\ MMGoto("exit_parent", "cleanup_send") /\ ParentWaits(mm_who)
  /\ UNCHANGED <<mm_src, mm_type, mm_who, mm_load, astray, mm_nth>>

(* A process that is marked does not run, and MM alone unmarks it: nobody  *)
(* else writes the word between the load and the store of `&= ~WAITING'.   *)
MMExitWakes ==
  /\ Running(MM) /\ mm_pc = "exit_parent"
  /\ ParentWaits(mm_who)
  /\ p_flags' = [p_flags EXCEPT ![p_parent[mm_who]] = @ \ {WAITING}]
  /\ mm_pc' = "cleanup_send"
  /\ UNCHANGED <<p_msg, p_sendto, p_recvfrom, has_int_msg, q_sending, mbuf, panic,
                 userVars, p_parent, mm_src, mm_type, mm_who, mm_load, astray,
                 mm_nth, fs_pc>>

(* The entry of p becomes free, whatever p was doing: nobody looks whether *)
(* it was in use, by a process that is killed, say.                        *)
FreeEntry(p) ==
  /\ p_flags' = [p_flags EXCEPT ![p] = {FREE_SLOT}]
  /\ GoesAstrayIf(InUse(p))
  /\ UNCHANGED <<p_msg, p_sendto, p_recvfrom, has_int_msg, q_sending, mbuf, panic>>

MMExitFrees ==
  /\ Running(MM) /\ mm_pc = "exit_parent"
  /\ ~ ParentWaits(mm_who)
  /\ FreeEntry(mm_who)
  /\ mm_pc' = "adopt"
  /\ UNCHANGED <<userVars, p_parent, mm_src, mm_type, mm_who, mm_load,
                 mm_nth, fs_pc>>

MMCleanupSend ==
  MMSend("cleanup_send", p_parent[mm_who], "SYSCALL_RET", "cleanup_free")

MMCleanupFree_orphans ==
  /\ Running(MM) /\ mm_pc = "cleanup_free"
  /\ FreeEntry(mm_who)
  /\ mm_pc' = "receive"
  /\ UNCHANGED <<userVars, p_parent, mm_src, mm_type, mm_who, mm_load,
                 mm_nth, fs_pc>>
MMCleanupFree ==
  /\ Running(MM) /\ mm_pc = "cleanup_free"
  /\ FreeEntry(mm_who)
  /\ mm_pc' = IF mm_type = "WAIT" THEN "receive" ELSE "adopt"
  /\ UNCHANGED <<userVars, p_parent, mm_src, mm_type, mm_who, mm_load,
                 mm_nth, fs_pc>>

MMAdopt ==
  /\ Running(MM) /\ mm_pc = "adopt"
  /\ p_parent' = [c \in User |-> IF p_parent[c] = mm_who THEN INIT_PID ELSE p_parent[c]]
  /\ mm_pc' = IF mm_type = "KILLP" THEN "reply" ELSE "receive"
  /\ UNCHANGED <<ipcVars, userVars, mm_src, mm_type, mm_who, mm_load, astray,
                 mm_nth, fs_pc>>

(***************************************************************************)
(* do_wait.  Without optimisation `p_flags |= WAITING' loads the word,     *)
(* sets the bit and stores it: the caller may run in between.              *)
(***************************************************************************)
Children(p) == {c \in User : p_parent[c] = p}
Hanging(p) == {c \in Children(p) : HANGING \in p_flags[c]}

MMWait ==
  /\ \E next \in {"cleanup_send", "wait_store", "wait_none"} :
        /\ MMGoto("wait", next)
        /\ next = IF Hanging(mm_src) # {} THEN "cleanup_send"
                  ELSE IF Children(mm_src) # {} THEN "wait_store" ELSE "wait_none"
  /\ mm_who' = IF Hanging(mm_src) # {}
                 THEN CHOOSE c \in Hanging(mm_src) : \A o \in Hanging(mm_src) : c <= o
                 ELSE mm_who
  /\ mm_load' = IF mm_pc' = "wait_store" THEN p_flags[mm_src] ELSE {}
  /\ UNCHANGED <<mm_src, mm_type, astray, mm_nth>>

Stored == mm_load \cup {WAITING}

MMWaitStore ==
  /\ Running(MM) /\ mm_pc = "wait_store"
  /\ p_flags' = [p_flags EXCEPT ![mm_src] = Stored]
  /\ GoesAstrayIf(p_flags[mm_src] # mm_load)
  /\ mm_pc' = "receive"
  /\ mm_load' = {}
  /\ UNCHANGED <<p_msg, p_sendto, p_recvfrom, has_int_msg, q_sending, mbuf, panic,
                 userVars, p_parent, mm_src, mm_type, mm_who, mm_nth, fs_pc>>

MMWaitNone_silent ==
  MMGoto("wait_none", "receive") /\ UNCHANGED <<mm_src, mm_type, mm_who, mm_load, astray, mm_nth>>
MMWaitNone_replies == MMSend("wait_none", mm_src, "SYSCALL_RET", "reply")
MMWaitNone == MMSend("wait_none", mm_src, "SYSCALL_RET", "receive")

(***************************************************************************)
(* do_exec: stat(), open(), read() and close() are calls to FS, the first  *)
(* two may fail.  The new image sets the caller's saved registers: a       *)
(* caller that has not begun its RECEIVE never will.                       *)
(***************************************************************************)
MMExecTellFS  == MMSend("exec_fs", FS, "OPEN", "exec_fs_wait")
MMExecAwaitFS == MMAwaitFS("exec_fs_wait", "exec_next")

MMExecNext ==
  /\ \/ MMGoto("exec_next", "reply") /\ mm_nth < 2
     \/ MMGoto("exec_next", "exec_fs") /\ mm_nth < 3
     \/ MMGoto("exec_next", "exec_load") /\ mm_nth = 3
  /\ mm_nth' = mm_nth + 1
  /\ UNCHANGED <<mm_src, mm_type, mm_who, mm_load, astray>>

MMExecLoad ==
  /\ Running(MM) /\ mm_pc = "exec_load"
  /\ GoesAstrayIf(stage[mm_src] = "called")
  /\ stage' = [stage EXCEPT ![mm_src] = IF @ = "called" THEN "idle" ELSE @]
  /\ mm_pc' = "reply"
  /\ UNCHANGED <<ipcVars, request, still, p_parent, mm_src, mm_type, mm_who,
                 mm_load, mm_nth, fs_pc>>

(***************************************************************************)
(* do_buddy: a send_recv(BOTH, mm_msg.source, ...) for each block, so MM   *)
(* serves nobody else before the caller has asked once more for the last.  *)
(* The sizes that are drawn and the blocks of module Buddy that are handed *)
(* out change nothing else, so that BlocksDisjoint looks at all of them.   *)
(* (Its get_ticks() is a call to SYS, which answers at once and asks MM    *)
(* for nothing: left out.)                                                 *)
(***************************************************************************)
MMBuddySend == MMSend("buddy_send", mm_src, "SYSCALL_RET", "buddy_await")

NextRound == IF mm_nth + 1 < BuddyRounds THEN "buddy_send" ELSE "reply"

MMBuddyAwait ==
  /\ mm_pc = "buddy_await"
  /\ msg_receive(MM, mm_src)
  /\ mm_pc' = NextRound
  /\ mm_nth' = mm_nth + 1
  /\ UNCHANGED <<userVars, p_parent, mm_src, mm_type, mm_who, mm_load, astray, fs_pc>>

-----------------------------------------------------------------------------
FSNext == FSReceive \/ FSReply

MMNext ==
  \/ MMReceive \/ MMDispatch \/ MMReply
  \/ MMForkRegs \/ MMForkCopy \/ MMForkTellFS \/ MMForkAwaitFS \/ MMForkChild
  \/ MMExitTellFS \/ MMExitAwaitFS \/ MMExitWakes \/ MMExitFrees
  \/ MMCleanupSend \/ MMCleanupFree \/ MMAdopt
  \/ MMWait \/ MMWaitStore \/ MMWaitNone
  \/ MMExecTellFS \/ MMExecAwaitFS \/ MMExecNext \/ MMExecLoad
  \/ MMBuddySend \/ MMBuddyAwait

(* Everybody may wait: INIT in wait() with no other process, say.           *)
LifeNext ==
  \/ \E p \in User : UserSend(p) \/ UserAwait(p) \/ UserReturn(p)
  \/ FSNext
  \/ MMNext

LifeSpec == LifeInit /\ [][LifeNext]_lifeVars

(***************************************************************************)
(* The scheduler gives every runnable process its turn (see Scheduler), so *)
(* a task goes on whenever it can, a user that has sent a request goes on  *)
(* to await the answer, and buddy() goes on with its rounds.               *)
(***************************************************************************)
UserGoesOn(p) ==
  UserAwait(p) \/ (still[p] # <<>> /\ (UserSend(p) \/ UserReturn(p)))

FairLifeSpec ==
  /\ LifeSpec
  /\ WF_lifeVars(MMNext)
  /\ WF_lifeVars(FSNext)
  /\ \A p \in User : WF_lifeVars(UserGoesOn(p))

-----------------------------------------------------------------------------
(***************************************************************************)
(* Safety: what the promises are until MM goes astray.  (GoesAstrayIf says *)
(* when it does; afterwards an assert() may fail, a server stop or a call  *)
(* return with nothing.)                                                   *)
(***************************************************************************)

(* No assert() of the message kernel fails and no circle of senders forms, *)
(* whatever programs do with the calls of this configuration, unless MM    *)
(* went astray before: MM and FS only send to who waits for them, and the  *)
(* words of p_flags that MM copies, marks, unmarks and frees fit what the  *)
(* kernel finds when the process makes its next call.  The process tables  *)
(* and the places of MM and FS in their loops stay of their types.         *)
NoPanic == astray \/ (LifeTypeOK /\ panic = "none")

(* A free entry is in no queue and has none.                               *)
FreeEntryQuiet ==
  \A s \in Slot : Free(s) =>
     /\ q_sending[s] = <<>>
     /\ \A p \in Proc : s \notin ToSet(q_sending[p])

(* Nobody is forgotten, unless MM went astray: a process that has called   *)
(* MM and has no answer is in MM's queue, or served now, or waits for a    *)
(* child, or is a child being born, or its answer is on its way.  And no   *)
(* entry is forgotten in a queue: a fork that takes it finds no trace of   *)
(* who had it, be it one who exited or one who was killed.                 *)
Served(p) ==
  \/ mm_pc = "dispatch" /\ mbuf[MM].source = p
  \/ mm_pc \notin {"receive", "dispatch"} /\ p \in {mm_src, mm_who}
  \/ mm_pc = "cleanup_send" /\ p_parent[mm_who] = p

CallerAccounted ==
  \/ astray
  \/ /\ \A p \in User :
          (InCall(p) /\ ~ Free(p) /\ ServerOf(request[p]) = MM) =>
            Sends(p, MM) \/ Served(p) \/ WAITING \in p_flags[p] \/ Sends(MM, p)
     /\ FreeEntryQuiet

(* Unless MM went astray, MM and FS send an answer only to a process that  *)
(* lives and that is in a call to them: nobody is answered twice, no       *)
(* answer goes to an entry that was freed, which would stop the server for *)
(* good, and a call returns only with the answer of its server.            *)
AnswersMatched ==
  astray \/
  \A p \in User :
    /\ \A srv \in {FS, MM} :
          Sends(srv, p) => ~ Free(p) /\ InCall(p) /\ ServerOf(request[p]) = srv
    /\ Returns(p) => mbuf[p] = Signed(ServerOf(request[p]), "SYSCALL_RET")

(* Between two requests, and unless MM went astray, the living processes   *)
(* form a tree below INIT, also after a kill: every set of them has a      *)
(* member whose parent lives and is not in the set.                        *)
TreeBelowInit ==
  (mm_pc = "receive" /\ ~ astray) =>
    \A S \in SUBSET {s \in Slot : ~ Free(s)} :
       S # {} => \E y \in S : p_parent[y] \in User \ S /\ ~ Free(p_parent[y])

(* Whatever sizes do_buddy drew so far, the block of each round lies in    *)
(* the memory, and no unit of it is in a block of an earlier round.        *)
BlocksDisjoint ==
  mm_pc \in {"buddy_send", "buddy_await"} =>
    \A sizes \in [1..(mm_nth + 1) -> Sizes] :
      LET blocks == do_buddy(sizes)
      IN  \A m \in 1..(mm_nth + 1) :
            /\ Units(blocks[m]) \subseteq 0..(BUDDY_SIZE - 1)
            /\ \A n \in 1..(m - 1) : Units(blocks[m]) \cap Units(blocks[n]) = {}

(* A process that waits for children has one that lives (forkexit.c:272).  *)
WaitingHasChild ==
  \A p \in User : WAITING \in p_flags[p] => \E c \in Children(p) : ~ Free(c)

(***************************************************************************)
(* Liveness                                                                *)
(***************************************************************************)

(* A call that must come to an end, and when it has.                       *)
Woken(p) == mm_pc = "exit_parent" /\ p_parent[mm_who] = p /\ ParentWaits(mm_who)
Owed(p) == InCall(p) /\ (request[p] = "WAIT" => Woken(p))
Answered(p) == Free(p) \/ (request[p] # "EXIT" /\ ~ InCall(p))

(* Every call returns, each round of buddy() too, while MM serves nobody   *)
(* else, unless the caller is killed or MM goes astray; exit() ends with   *)
(* the entry free, and wait() returns once a child has got as far as its   *)
(* parent in exit() or in a kill.                                          *)
CallsReturn == \A p \in User : Owed(p) ~> (Answered(p) \/ astray)

=============================================================================
