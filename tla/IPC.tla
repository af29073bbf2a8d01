-------------------------------- MODULE IPC --------------------------------
(***************************************************************************)
(* The message passing kernel of KusaOS: sys_sendrec, msg_send,            *)
(* msg_receive, deadlock and inform_int of kernel/proc.c.                  *)
(*                                                                         *)
(* Processes rendezvous: a sender waits until the receiver takes its       *)
(* message and a receiver until somebody sends.  A process that waits has  *)
(* SENDING or RECEIVING in p_flags, and the senders of a process wait in   *)
(* its q_sending, which is kept here as the sequence the chain of          *)
(* next_sending pointers stands for.                                       *)
(*                                                                         *)
(* One action is one system call of one process, or one interrupt.  Which  *)
(* process runs next is left open: any process whose p_flags are clear may *)
(* take the next step.  An assert() or panic() of the code sets panic and  *)
(* the system halts.                                                       *)
(***************************************************************************)
EXTENDS SequencesExt

CONSTANTS Proc,       \* indices of proc_table
          IntTask,    \* the tasks that inform_int is called for: HD and TTY
          Type,       \* message types used by SEND
          ANY, INTERRUPT, NO_TASK,   \* the special process numbers
          HARD_INT,   \* the message type of an interrupt
          NoType      \* the type of a buffer that memset() cleared

ASSUME TaskAssumption == IntTask \subseteq Proc

ASSUME NumberAssumption ==
  /\ {ANY, INTERRUPT, NO_TASK} \cap Proc = {}
  /\ ANY # INTERRUPT /\ ANY # NO_TASK /\ INTERRUPT # NO_TASK

ASSUME TypeAssumption ==
  /\ HARD_INT \notin Type
  /\ NoType \notin Type
  /\ NoType # HARD_INT

(* The bits of p_flags that exist; a set of them is the value of the word. *)
SENDING   == "SENDING"
RECEIVING == "RECEIVING"
WAITING   == "WAITING"
HANGING   == "HANGING"
FREE_SLOT == "FREE_SLOT"
Flag == {SENDING, RECEIVING, WAITING, HANGING, FREE_SLOT}

Message == [source : Proc \cup {INTERRUPT}, type : Type \cup {HARD_INT, NoType}]

VARIABLES
  p_flags,      \* the process runs iff it has no flag
  p_msg,        \* TRUE iff the pointer to the blocked call's message is set
  p_sendto,     \* whom a SENDING process sends to
  p_recvfrom,   \* whom a RECEIVING process wants to hear of
  has_int_msg,  \* an interrupt came that the task has not been told of
  q_sending,    \* the processes waiting to send to this one, oldest first
  mbuf,         \* the MESSAGE that the process passed to its last sendrec()
  panic         \* "none", or why the system has halted

ipcVars == <<p_flags, p_msg, p_sendto, p_recvfrom, has_int_msg, q_sending,
             mbuf, panic>>

TypeOK ==
  /\ p_flags \in [Proc -> SUBSET Flag]
  /\ p_msg \in [Proc -> BOOLEAN]
  /\ p_sendto \in [Proc -> Proc \cup {NO_TASK}]
  /\ p_recvfrom \in [Proc -> Proc \cup {ANY, INTERRUPT, NO_TASK}]
  /\ has_int_msg \in [Proc -> BOOLEAN]
  /\ q_sending \in [Proc -> Seq(Proc)]
  /\ mbuf \in [Proc -> Message]
  /\ panic \in {"none", "deadlock", "assert"}

(* sys_sendrec signs the caller's MESSAGE.                                 *)
Signed(p, t) == [source |-> p, type |-> t]

(***************************************************************************)
(* kernel_main: every process of the boot image is runnable and idle.      *)
(***************************************************************************)
Init ==
  /\ p_flags = [p \in Proc |-> {}]
  /\ p_msg = [p \in Proc |-> FALSE]
  /\ p_sendto = [p \in Proc |-> NO_TASK]
  /\ p_recvfrom = [p \in Proc |-> NO_TASK]
  /\ has_int_msg = [p \in Proc |-> FALSE]
  /\ q_sending = [p \in Proc |-> <<>>]
  /\ mbuf = [p \in Proc |-> Signed(p, NoType)]
  /\ panic = "none"

Running_only_receivers_wait(p) == panic = "none" /\ RECEIVING \notin p_flags[p]
Running(p) == panic = "none" /\ p_flags[p] = {}

Sends(p, d) == SENDING \in p_flags[p] /\ p_sendto[p] = d

(* What the asserts of a call demand of a process with no call blocked.    *)
Idle(p) == /\ p_flags[p] = {}
           /\ ~ p_msg[p]
           /\ p_recvfrom[p] = NO_TASK
           /\ p_sendto[p] = NO_TASK

AssertThat(P) == panic' = IF P THEN panic ELSE "assert"

-----------------------------------------------------------------------------
(***************************************************************************)
(* deadlock(src, dest) follows p_sendto from dest for as long as the       *)
(* process it reaches is SENDING, and reports the chain that gets to src.  *)
(* SendChain(d) are the processes that this walk visits.                   *)
(***************************************************************************)
SendChain(d) ==
  {y \in Proc :
     \A T \in SUBSET Proc :
        (/\ d \in T
         /\ \A z \in T, w \in Proc : Sends(z, w) => w \in T)
        => y \in T}

deadlock_one_hop(src, dest) == Sends(dest, src)
deadlock(src, dest) == \E y \in SendChain(dest) : Sends(y, src)

(* The destination is blocked in a receive that this message satisfies.    *)
Accepts_named_only(d, p) == RECEIVING \in p_flags[d] /\ p_recvfrom[d] = p
Accepts(d, p) == RECEIVING \in p_flags[d] /\ p_recvfrom[d] \in {p, ANY}

(***************************************************************************)
(* msg_send(current, dest, m), with the caller's MESSAGE filled in by      *)
(* sys_sendrec: a chain of senders that would close stops the system, a    *)
(* waiting receiver gets the message at once, otherwise the sender blocks  *)
(* at the end of dest's queue.                                             *)
(***************************************************************************)
SendDeadlock(p, d, t) ==
  /\ Running(p) /\ p # d
  /\ deadlock(p, d)
  /\ mbuf' = [mbuf EXCEPT ![p] = Signed(p, t)]
  /\ panic' = "deadlock"
  /\ UNCHANGED <<p_flags, p_msg, p_sendto, p_recvfrom, has_int_msg, q_sending>>

SendHandOff(p, d, t) ==
  /\ Running(p) /\ p # d
  /\ ~ deadlock(p, d)
  /\ Accepts(d, p)
  /\ mbuf' = [mbuf EXCEPT ![p] = Signed(p, t), ![d] = Signed(p, t)]
  /\ p_msg' = [p_msg EXCEPT ![d] = FALSE]
  /\ p_flags' = [p_flags EXCEPT ![d] = @ \ {RECEIVING}]
  /\ p_recvfrom' = [p_recvfrom EXCEPT ![d] = NO_TASK]
  /\ AssertThat(/\ p_msg[d] /\ p_flags[d] = {RECEIVING}
                /\ p_sendto[d] = NO_TASK
                /\ Idle(p))
  /\ UNCHANGED <<p_sendto, has_int_msg, q_sending>>

SendBlock(p, d, t) ==
  /\ Running(p) /\ p # d
  /\ ~ deadlock(p, d)
  /\ ~ Accepts(d, p)
  /\ mbuf' = [mbuf EXCEPT ![p] = Signed(p, t)]
  /\ p_flags' = [p_flags EXCEPT ![p] = @ \cup {SENDING}]
  /\ p_sendto' = [p_sendto EXCEPT ![p] = d]
  /\ p_msg' = [p_msg EXCEPT ![p] = TRUE]
  /\ q_sending' = [q_sending EXCEPT ![d] = Append(@, p)]
  /\ AssertThat(p_recvfrom[p] = NO_TASK)
  /\ UNCHANGED <<p_recvfrom, has_int_msg>>

msg_send(p, d, t) ==
  SendDeadlock(p, d, t) \/ SendHandOff(p, d, t) \/ SendBlock(p, d, t)

-----------------------------------------------------------------------------
(* An interrupt that has come is reported before any message.              *)
IntFirst_any_only(p, src) == has_int_msg[p] /\ src = ANY
IntFirst(p, src) == has_int_msg[p] /\ src \in {ANY, INTERRUPT}

(* The sender f whose message msg_receive takes, if there is one.  For the *)
(* source INTERRUPT, -10, the code looks at a word in front of proc_table, *)
(* which is taken not to look like a sender to p.                          *)
Selects_newest(p, src, f) ==
  IF src = ANY
    THEN q_sending[p] # <<>> /\ f = Last(q_sending[p])
    ELSE f = src /\ Sends(f, p)
Selects_any_destination(p, src, f) ==
  IF src = ANY
    THEN q_sending[p] # <<>> /\ f = Head(q_sending[p])
    ELSE f = src /\ SENDING \in p_flags[f]
Selects(p, src, f) ==
  IF src = ANY
    THEN q_sending[p] # <<>> /\ f = Head(q_sending[p])
    ELSE f = src /\ Sends(f, p)

(* The queue q once f has been unlinked from it.                           *)
Unlink_head(q, f) == Tail(q)
Unlink(q, f) ==
  IF f \in ToSet(q) THEN RemoveAt(q, CHOOSE k \in DOMAIN q : q[k] = f) ELSE q

(***************************************************************************)
(* msg_receive(current, src, m).  sys_sendrec writes the caller's own      *)
(* number into m before the call.                                          *)
(***************************************************************************)
RecvInterrupt(p, src) ==
  /\ Running(p)
  /\ IntFirst(p, src)
  /\ mbuf' = [mbuf EXCEPT ![p] = Signed(INTERRUPT, HARD_INT)]
  /\ has_int_msg' = [has_int_msg EXCEPT ![p] = FALSE]
  /\ AssertThat(~ p_msg[p] /\ p_sendto[p] = NO_TASK)
  /\ UNCHANGED <<p_flags, p_msg, p_sendto, p_recvfrom, q_sending>>

RecvFromQueue(p, src, f) ==
  /\ Running(p)
  /\ ~ IntFirst(p, src)
  /\ Selects(p, src, f)
  /\ mbuf' = [mbuf EXCEPT ![p] = mbuf[f]]
  /\ q_sending' = [q_sending EXCEPT ![p] = Unlink(@, f)]
  /\ p_msg' = [p_msg EXCEPT ![f] = FALSE]
  /\ p_sendto' = [p_sendto EXCEPT ![f] = NO_TASK]
  /\ p_flags' = [p_flags EXCEPT ![f] = @ \ {SENDING}]
  /\ AssertThat(/\ Idle(p)
                /\ f \in ToSet(q_sending[p])
                /\ p_flags[f] = {SENDING} /\ p_msg[f]
                /\ p_recvfrom[f] = NO_TASK /\ p_sendto[f] = p)
  /\ UNCHANGED <<p_recvfrom, has_int_msg>>

(* The buffer is cleared as send_recv does before a RECEIVE.  Before the    *)
(* second half of BOTH it is not, and has the request until the answer     *)
(* comes; nothing here looks at the buffer of a blocked receiver.          *)
RecvBlock(p, src) ==
  /\ Running(p)
  /\ ~ IntFirst(p, src)
  /\ ~ \E f \in Proc : Selects(p, src, f)
  /\ mbuf' = [mbuf EXCEPT ![p] = Signed(p, NoType)]
  /\ p_flags' = [p_flags EXCEPT ![p] = @ \cup {RECEIVING}]
  /\ p_msg' = [p_msg EXCEPT ![p] = TRUE]
  /\ p_recvfrom' = [p_recvfrom EXCEPT ![p] = src]
  /\ AssertThat(p_sendto[p] = NO_TASK /\ ~ has_int_msg[p])
  /\ UNCHANGED <<p_sendto, has_int_msg, q_sending>>

(***************************************************************************)
(* How the tasks use the call.  Only the two interrupt driven tasks        *)
(* receive from INTERRUPT (interrupt_wait of the hard disk driver), and    *)
(* they ask a specific process for an answer only while no interrupt is    *)
(* outstanding: the driver talks to SYS (waitfor, get_ticks) before it     *)
(* issues a command, and the terminal task receives from ANY alone.        *)
(***************************************************************************)
MayReceive(p, src) ==
  /\ p # src
  /\ src = INTERRUPT => p \in IntTask
  /\ src \in Proc => ~ has_int_msg[p]

msg_receive(p, src) ==
  /\ MayReceive(p, src)
  /\ \/ RecvInterrupt(p, src)
     \/ \E f \in Proc : RecvFromQueue(p, src, f)
     \/ RecvBlock(p, src)

-----------------------------------------------------------------------------
(***************************************************************************)
(* inform_int(task_nr), called by the interrupt handlers: a task blocked   *)
(* for it gets HARD_INT now, any other is marked.                          *)
(***************************************************************************)
WaitsForInt(p) == RECEIVING \in p_flags[p] /\ p_recvfrom[p] \in {INTERRUPT, ANY}

IntDeliver(p) ==
  /\ panic = "none"
  /\ WaitsForInt(p)
  /\ mbuf' = [mbuf EXCEPT ![p] = Signed(INTERRUPT, HARD_INT)]
  /\ p_msg' = [p_msg EXCEPT ![p] = FALSE]
  /\ has_int_msg' = [has_int_msg EXCEPT ![p] = FALSE]
  /\ p_flags' = [p_flags EXCEPT ![p] = @ \ {RECEIVING}]
  /\ p_recvfrom' = [p_recvfrom EXCEPT ![p] = NO_TASK]
  /\ AssertThat(p_flags[p] = {RECEIVING} /\ p_sendto[p] = NO_TASK)
  /\ UNCHANGED <<p_sendto, q_sending>>

IntMark(p) ==
  /\ panic = "none"
  /\ ~ WaitsForInt(p)
  /\ has_int_msg' = [has_int_msg EXCEPT ![p] = TRUE]
  /\ UNCHANGED <<p_flags, p_msg, p_sendto, p_recvfrom, q_sending, mbuf, panic>>

inform_int(p) == IntDeliver(p) \/ IntMark(p)

(* panic() and a failed assert() stop the machine.                         *)
Halted == panic # "none" /\ UNCHANGED ipcVars

SendRec(p) ==
  \/ \E d \in Proc, t \in Type : msg_send(p, d, t)
  \/ \E src \in Proc \cup {ANY, INTERRUPT} : msg_receive(p, src)

Next ==
  \/ \E p \in Proc : SendRec(p)
  \/ \E p \in IntTask : inform_int(p)
  \/ Halted

Spec == Init /\ [][Next]_ipcVars

-----------------------------------------------------------------------------
(***************************************************************************)
(* Invariants                                                              *)
(***************************************************************************)

(* A process stands exactly once in the queue of the process it is sending *)
(* to and in no other: msg_send's append and msg_receive's unlinking (from *)
(* the front or from the middle) never lose or duplicate a sender.         *)
QueueExact ==
  \A d \in Proc :
    /\ \A i, j \in DOMAIN q_sending[d] :
          q_sending[d][i] = q_sending[d][j] => i = j
    /\ \A p \in Proc : p \in ToSet(q_sending[d]) <=> Sends(p, d)

(* The words of a process table entry agree: p_msg is set exactly while a  *)
(* call is blocked, p_sendto and p_recvfrom exactly while that call is a   *)
(* SEND or a RECEIVE, and never both.                                      *)
EntryConsistent ==
  \A p \in Proc :
    /\ p_flags[p] \in {{}, {SENDING}, {RECEIVING}}
    /\ p_msg[p] <=> p_flags[p] # {}
    /\ p_sendto[p] # NO_TASK <=> p_flags[p] = {SENDING}
    /\ p_recvfrom[p] # NO_TASK <=> p_flags[p] = {RECEIVING}

(* No two processes wait for one another's match: when a receiver is       *)
(* blocked, no sender whose message it would take is blocked on it.  This  *)
(* is what msg_send's and msg_receive's looks at the other side are for.   *)
NoMissedRendezvous ==
  \A p, d \in Proc :
    Sends(p, d) => ~ (RECEIVING \in p_flags[d] /\ p_recvfrom[d] \in {p, ANY})

(* A task blocked in a receive that an interrupt would satisfy has none    *)
(* marked: interrupts that came between two receives are never slept on.   *)
NoMissedInterrupt ==
  \A p \in Proc : WaitsForInt(p) => ~ has_int_msg[p]

(* Nobody is blocked whose match has come.                                 *)
NoMissedMatch == NoMissedRendezvous /\ NoMissedInterrupt

(* Senders never wait in a circle, so the walk of deadlock() ends: every   *)
(* nonempty set of processes has a member that is not sending into it.     *)
SendersAcyclic ==
  \A S \in SUBSET Proc :
    S # {} => \E y \in S : \A z \in S : ~ Sends(y, z)

(* None of the assert()s of msg_send, msg_receive, inform_int, block and   *)
(* unblock fails.                                                          *)
NoAssertFails == panic # "assert"

(***************************************************************************)
(* Action properties                                                       *)
(***************************************************************************)

(* A SEND completes only by its message reaching the process it was for:   *)
(* when the sender is released, the destination's MESSAGE holds its        *)
(* message, and the destination had asked for it or runs its receive now.  *)
SendDelivers ==
  [][\A p, d \in Proc :
        (Sends(p, d) /\ SENDING \notin p_flags'[p]) =>
           /\ mbuf'[d] = mbuf[p] /\ mbuf[p].source = p
           /\ p_flags[d] = {} /\ p_flags'[d] = {}]_ipcVars

(* A blocked receive completes only with a message it asked for: from the  *)
(* process it named, or an interrupt if it waits for one, or anything for  *)
(* ANY, and never its own number that sys_sendrec left in the buffer.      *)
ReceiveGetsWanted ==
  [][\A p \in Proc :
        (RECEIVING \in p_flags[p] /\ RECEIVING \notin p_flags'[p]) =>
           LET m == mbuf'[p]
           IN  /\ p_recvfrom[p] # ANY => m.source = p_recvfrom[p]
               /\ m.source # p
               /\ m.source = INTERRUPT <=> m.type = HARD_INT]_ipcVars

(* No blocked call completes without its match.                            *)
CallsMatched == SendDelivers /\ ReceiveGetsWanted

(***************************************************************************)
(* Liveness                                                                *)
(***************************************************************************)

(* The receive of a server loop, send_recv(RECEIVE, ANY, ...).             *)
ServerReceives(d) == msg_receive(d, ANY)

(* A task that keeps receiving from ANY and is not driven by interrupts    *)
(* releases every process that sends to it: the queue is first come, first *)
(* served.  (An interrupt is always taken first, so a storm of them may    *)
(* keep the senders of an interrupt driven task waiting.)                  *)
ServerServesAll ==
  \A p \in Proc, d \in Proc \ IntTask :
    ([]<><<ServerReceives(d)>>_ipcVars) => (Sends(p, d) ~> ~ Sends(p, d))

-----------------------------------------------------------------------------
(***************************************************************************)
(* Refinement                                                              *)
(***************************************************************************)

(* The process table implements the rendezvous that senders and receivers  *)
(* are promised: every completed call met a matching one, every blocked    *)
(* call had none, and the message in the buffer is the one that was sent.  *)
callOf == [p \in Proc |->
             IF SENDING \in p_flags[p] THEN [op |-> "send", dest |-> p_sendto[p]]
             ELSE IF RECEIVING \in p_flags[p]
                    THEN [op |-> "receive", src |-> p_recvfrom[p]]
                    ELSE [op |-> "none"]]

RV == INSTANCE Rendezvous WITH
        call <- callOf, buffer <- mbuf, halted <- panic # "none",
        pending <- {p \in Proc : has_int_msg[p]}

ImplementsRendezvous == RV!RvSpec

=============================================================================
