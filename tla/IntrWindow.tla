----------------------------- MODULE IntrWindow -----------------------------
(***************************************************************************)
(* A system call with the interrupts that come while it is in the kernel.  *)
(* IPC takes sendrec() as one step; but sys_call (kernel/kernel.asm)       *)
(* enables interrupts before it calls sys_sendrec and disables them behind *)
(* it, so inform_int may change a task's entry between any two accesses    *)
(* that msg_send or msg_receive make to it.                                *)
(*                                                                         *)
(* There is one kernel stack and one system call at a time: an interrupt   *)
(* that finds k_reenter above 0 returns to the call and nobody else runs.  *)
(* A step of the call is what it does between two accesses to p_flags,     *)
(* p_msg, p_recvfrom and has_int_msg of a task that inform_int may be      *)
(* called for; the other fields are not touched by an interrupt.           *)
(***************************************************************************)
EXTENDS IPC

VARIABLE call    \* the system call in the kernel: where it is, whose, with whom

winVars == <<ipcVars, call>>

NoCall == [at |-> "user"]

At(pc) == panic = "none" /\ call.at = pc
Goto(pc) == call' = [call EXCEPT !.at = pc]
Return == call' = NoCall

WindowInit == Init /\ call = NoCall

-----------------------------------------------------------------------------
(* msg_send: whether dest accepts is read once.                            *)
Send(p, d, t) ==
  /\ At("user")
  /\ \/ (SendDeadlock(p, d, t) \/ SendBlock(p, d, t)) /\ UNCHANGED call
     \/ /\ Running(p) /\ p # d /\ ~ deadlock(p, d) /\ Accepts(d, p)
        /\ mbuf' = [mbuf EXCEPT ![p] = Signed(p, t)]
        /\ call' = [at |-> "accepted", who |-> p, with |-> d]
        /\ UNCHANGED <<p_flags, p_msg, p_sendto, p_recvfrom, has_int_msg, q_sending, panic>>

Sender == call.who
Dest == call.with

(* assert(p_dest->p_msg).                                                  *)
SendChecks ==
  /\ At("accepted")
  /\ AssertThat(p_msg[Dest])
  /\ Goto("copy")
  /\ UNCHANGED <<p_flags, p_msg, p_sendto, p_recvfrom, has_int_msg, q_sending, mbuf>>

(* phys_copy to p_msg, which may be null by now.                           *)
SendCopies ==
  /\ At("copy")
  /\ mbuf' = IF p_msg[Dest] THEN [mbuf EXCEPT ![Dest] = mbuf[Sender]] ELSE mbuf
  /\ Goto("copied")
  /\ UNCHANGED <<p_flags, p_msg, p_sendto, p_recvfrom, has_int_msg, q_sending, panic>>

SendClearsMsg ==
  /\ At("copied")
  /\ p_msg' = [p_msg EXCEPT ![Dest] = FALSE]
  /\ Goto("no_msg")
  /\ UNCHANGED <<p_flags, p_sendto, p_recvfrom, has_int_msg, q_sending, mbuf, panic>>

SendClearsFlag ==
  /\ At("no_msg")
  /\ p_flags' = [p_flags EXCEPT ![Dest] = @ \ {RECEIVING}]
  /\ Goto("no_flag")
  /\ UNCHANGED <<p_msg, p_sendto, p_recvfrom, has_int_msg, q_sending, mbuf, panic>>

(* p_recvfrom is cleared, and what follows are assertions.                 *)
SendEnds ==
  /\ At("no_flag")
  /\ p_recvfrom' = [p_recvfrom EXCEPT ![Dest] = NO_TASK]
  /\ AssertThat(/\ p_flags[Dest] = {} /\ ~ p_msg[Dest] /\ p_sendto[Dest] = NO_TASK
                /\ Idle(Sender))
  /\ Return
  /\ UNCHANGED <<p_flags, p_msg, p_sendto, has_int_msg, q_sending, mbuf>>

-----------------------------------------------------------------------------
(* msg_receive: has_int_msg is read once, and first.                       *)
Receive(p, src) ==
  /\ At("user") /\ Running(p) /\ MayReceive(p, src)
  /\ mbuf' = [mbuf EXCEPT ![p] = IF IntFirst(p, src) THEN Signed(INTERRUPT, HARD_INT)
                                                     ELSE Signed(p, NoType)]
  /\ has_int_msg' = [has_int_msg EXCEPT ![p] = @ /\ ~ IntFirst(p, src)]
  /\ call' = [at |-> IF IntFirst(p, src) THEN "informed" ELSE "looks", who |-> p, with |-> src]
  /\ UNCHANGED <<p_flags, p_msg, p_sendto, p_recvfrom, q_sending, panic>>

Receiver == call.who
Source == call.with

(* assert(has_int_msg == 0), when the mark has just been taken.            *)
ReceivedInterrupt ==
  /\ At("informed")
  /\ AssertThat(p_flags[Receiver] = {} /\ ~ p_msg[Receiver] /\ ~ has_int_msg[Receiver])
  /\ Return
  /\ UNCHANGED <<p_flags, p_msg, p_sendto, p_recvfrom, has_int_msg, q_sending, mbuf>>

(* A sender waits: its fields and the queue are not the interrupt's.       *)
ReceiveTakes(f) ==
  /\ At("looks")
  /\ Selects(Receiver, Source, f)
  /\ mbuf' = [mbuf EXCEPT ![Receiver] = mbuf[f]]
  /\ q_sending' = [q_sending EXCEPT ![Receiver] = Unlink(@, f)]
  /\ p_msg' = [p_msg EXCEPT ![f] = FALSE]
  /\ p_sendto' = [p_sendto EXCEPT ![f] = NO_TASK]
  /\ p_flags' = [p_flags EXCEPT ![f] = @ \ {SENDING}]
  /\ AssertThat(Idle(Receiver) /\ p_flags[f] = {SENDING} /\ p_msg[f])
  /\ Return
  /\ UNCHANGED <<p_recvfrom, has_int_msg>>

ReceiveSetsFlag ==
  /\ At("looks")
  /\ ~ \E f \in Proc : Selects(Receiver, Source, f)
  /\ p_flags' = [p_flags EXCEPT ![Receiver] = @ \cup {RECEIVING}]
  /\ Goto("flag")
  /\ UNCHANGED <<p_msg, p_sendto, p_recvfrom, has_int_msg, q_sending, mbuf, panic>>

ReceiveSetsMsg ==
  /\ At("flag")
  /\ p_msg' = [p_msg EXCEPT ![Receiver] = TRUE]
  /\ Goto("msg")
  /\ UNCHANGED <<p_flags, p_sendto, p_recvfrom, has_int_msg, q_sending, mbuf, panic>>

ReceiveSetsFrom ==
  /\ At("msg")
  /\ p_recvfrom' = [p_recvfrom EXCEPT ![Receiver] = Source]
  /\ Goto("from")
  /\ UNCHANGED <<p_flags, p_msg, p_sendto, has_int_msg, q_sending, mbuf, panic>>

(* block() and the assertions behind it, the last of which is that no      *)
(* interrupt is marked.                                                    *)
ReceiveBlocks ==
  /\ At("from")
  /\ AssertThat(/\ p_flags[Receiver] = {RECEIVING} /\ p_msg[Receiver]
                /\ p_recvfrom[Receiver] # NO_TASK /\ p_sendto[Receiver] = NO_TASK
                /\ ~ has_int_msg[Receiver])
  /\ Return
  /\ UNCHANGED <<p_flags, p_msg, p_sendto, p_recvfrom, has_int_msg, q_sending, mbuf>>

-----------------------------------------------------------------------------
(***************************************************************************)
(* inform_int at any moment: the handler of one interrupt is not           *)
(* interrupted by the same one, and two are for two tasks.                 *)
(***************************************************************************)
Interrupt(p) ==
  /\ UNCHANGED call
  /\ IF WaitsForInt(p) /\ ~ p_msg[p]
       THEN /\ panic = "none"      \* writes to where a null pointer points
            /\ p_flags' = [p_flags EXCEPT ![p] = @ \ {RECEIVING}]
            /\ p_recvfrom' = [p_recvfrom EXCEPT ![p] = NO_TASK]
            /\ has_int_msg' = [has_int_msg EXCEPT ![p] = FALSE]
            /\ UNCHANGED <<p_msg, p_sendto, q_sending, mbuf, panic>>
       ELSE inform_int(p)

WindowNext ==
  \/ \E p, d \in Proc, t \in Type : Send(p, d, t)
  \/ SendChecks \/ SendCopies \/ SendClearsMsg \/ SendClearsFlag \/ SendEnds
  \/ \E p \in Proc, src \in Proc \cup {ANY, INTERRUPT} : Receive(p, src)
  \/ \E f \in Proc : ReceiveTakes(f)
  \/ ReceivedInterrupt
  \/ ReceiveSetsFlag \/ ReceiveSetsMsg \/ ReceiveSetsFrom \/ ReceiveBlocks
  \/ \E p \in IntTask : Interrupt(p)
  \/ Halted /\ UNCHANGED call

WindowSpec == WindowInit /\ [][WindowNext]_winVars

-----------------------------------------------------------------------------
(* A task never goes to sleep for an interrupt that has come: line 532 of  *)
(* kernel/proc.c asserts it for the moment when the task is blocked.       *)
BlocksUnmarked ==
  (At("from") /\ Source \in {ANY, INTERRUPT}) => ~ has_int_msg[Receiver]

(* What the interrupts damage is an entry of a task that they are for: the *)
(* words of every other entry agree whenever no call is under way.         *)
Agrees(p) ==
  /\ p_flags[p] \in {{}, {SENDING}, {RECEIVING}}
  /\ p_msg[p] <=> p_flags[p] # {}
  /\ p_sendto[p] # NO_TASK <=> p_flags[p] = {SENDING}
  /\ p_recvfrom[p] # NO_TASK <=> p_flags[p] = {RECEIVING}

OthersConsistent == call = NoCall => \A p \in Proc \ IntTask : Agrees(p)

=============================================================================
