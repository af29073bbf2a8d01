-------------------------- MODULE IntrWindow_proofs --------------------------
(***************************************************************************)
(* Proofs about IntrWindow, for every set of processes and tasks: whatever *)
(* an interrupt in the middle of a system call does, the queues of senders *)
(* stay exact and free of circles, and no entry is damaged but those of    *)
(* the tasks that interrupts are for.                                      *)
(***************************************************************************)
EXTENDS IntrWindow, IPC_proofs

USE DEF Signed

SendPc == {"accepted", "copy", "copied", "no_msg", "no_flag"}
ReceivePc == {"informed", "looks", "flag", "msg", "from"}

(* Where a call can be, and between whom.                                  *)
CallOK ==
  \/ call = NoCall
  \/ /\ call \in [at : SendPc, who : Proc, with : Proc]
     /\ Sender # Dest
  \/ call \in [at : ReceivePc, who : Proc, with : Proc \cup {ANY, INTERRUPT}]

(* What the steps so far have made of the two entries of a SEND, and of    *)
(* the entry of a RECEIVE, when no interrupt is for them.                  *)
SendUnderWay ==
  call.at \in SendPc =>
    /\ Sender \notin IntTask => Idle(Sender)
    /\ Dest \notin IntTask =>
         /\ p_flags[Dest] = IF call.at = "no_flag" THEN {} ELSE {RECEIVING}
         /\ p_msg[Dest] <=> call.at \in {"accepted", "copy", "copied"}
         /\ p_sendto[Dest] = NO_TASK /\ p_recvfrom[Dest] # NO_TASK

ReceiveUnderWay ==
  (call.at \in ReceivePc /\ Receiver \notin IntTask) =>
    /\ p_flags[Receiver] = IF call.at \in {"informed", "looks"} THEN {} ELSE {RECEIVING}
    /\ p_msg[Receiver] <=> call.at \in {"msg", "from"}
    /\ p_sendto[Receiver] = NO_TASK
    /\ p_recvfrom[Receiver] = IF call.at = "from" THEN Source ELSE NO_TASK

Changing(p) ==
  \/ call.at \in SendPc /\ p = Dest
  \/ call.at \in ReceivePc /\ p = Receiver

RestAgree == \A p \in Proc \ IntTask : Changing(p) \/ Agrees(p)

SendersNamed == \A p \in Proc : SENDING \in p_flags[p] => p_sendto[p] \in Proc

Queues == TypeOK /\ QueueExact /\ SendersNamed /\ SendersAcyclic

WInv == Queues /\ CallOK /\ SendUnderWay /\ ReceiveUnderWay /\ RestAgree

(* The state of the call, told apart.                                      *)
LEMMA CallCases ==
  ASSUME CallOK
  PROVE  /\ call.at = "user" <=> call = NoCall
         /\ call.at \in SendPc =>
              /\ Sender \in Proc /\ Dest \in Proc /\ Sender # Dest
              /\ \A pc \in SendPc :
                   [call EXCEPT !.at = pc] \in [at : SendPc, who : Proc, with : Proc]
         /\ call.at \in ReceivePc =>
              /\ Receiver \in Proc /\ Source \in Proc \cup {ANY, INTERRUPT}
              /\ \A pc \in ReceivePc :
                   [call EXCEPT !.at = pc]
                     \in [at : ReceivePc, who : Proc, with : Proc \cup {ANY, INTERRUPT}]
         /\ call.at \in {"user"} \cup SendPc \cup ReceivePc
BY DEF CallOK, NoCall, SendPc, ReceivePc, Sender, Dest, Receiver, Source

-----------------------------------------------------------------------------
(* Queues.                                                                 *)

(* A step that changes no sender and no queue.                             *)
LEMMA SameSenders ==
  ASSUME QueueExact, SendersAcyclic, q_sending' = q_sending,
         \A y \in Proc : \A z : Sends(y, z)' <=> Sends(y, z)
  PROVE  QueueExact' /\ SendersAcyclic'
<1>1. QueueExact'
  BY DEF QueueExact
<1>2. SendersAcyclic'
  BY FewerSendersAcyclic
<1>3. QED
  BY <1>1, <1>2

(* A SEND that blocks joins the queue of a process it cannot wait for in a *)
(* circle.                                                                 *)
LEMMA BlockQueues ==
  ASSUME Queues, NEW p \in Proc, NEW d \in Proc, NEW t \in Type, SendBlock(p, d, t)
  PROVE  Queues'
<1>1. \A z : ~ Sends(p, z)
  BY DEF SendBlock, Running, Sends
<1>2. \A z \in Proc : p \notin ToSet(q_sending[z])
  BY <1>1 DEF Queues, QueueExact
<1>3. \A y \in Proc : \A z : Sends(y, z)' <=> Sends(y, z) \/ (y = p /\ z = d)
  BY <1>1 DEF SendBlock, Sends, Queues, TypeOK, Running
<1>4. TypeOK'
  BY DEF Queues, TypeOK, Message, SendBlock, AssertThat, Flag, SENDING
<1>5. QueueExact'
  <2>1. ASSUME NEW e \in Proc, e # d
        PROVE  q_sending'[e] = q_sending[e] /\ \A y \in Proc : Sends(y, e)' <=> Sends(y, e)
    BY <2>1, <1>3 DEF SendBlock, Queues, TypeOK
  <2>2. q_sending'[d] = Append(q_sending[d], p)
    BY DEF SendBlock, Queues, TypeOK
  <2>3. q_sending[d] \in Seq(Proc) /\ Once(q_sending[d]) /\ p \notin ToSet(q_sending[d])
    BY <1>2 DEF Queues, TypeOK, QueueExact, Once
  <2>4. Once(q_sending'[d]) /\ ToSet(q_sending'[d]) = ToSet(q_sending[d]) \cup {p}
    BY <2>2, <2>3, AppendExact
  <2>5. \A y \in Proc : y \in ToSet(q_sending'[d]) <=> Sends(y, d)'
    BY <2>4, <1>3 DEF Queues, QueueExact
  <2>6. QED
    BY <2>1, <2>4, <2>5 DEF Queues, QueueExact, Once
<1>6. SendersAcyclic'
  <2>3. \A y \in Proc : \A w : Sends(y, w) => w \in Proc
    BY DEF Queues, SendersNamed, Sends
  <2>1. p # d /\ ~ deadlock(p, d)
    BY DEF SendBlock
  <2>2. QED
    BY <2>1, <2>3, <1>1, <1>3, NewSenderAcyclic DEF Queues
<1>7. SendersNamed'
  BY DEF Queues, TypeOK, SendersNamed, SendBlock
<1>8. QED
  BY <1>4, <1>5, <1>6, <1>7 DEF Queues

(* A sender that is taken leaves the queue, wherever it stands.            *)
LEMMA TakeQueues ==
  ASSUME Queues, CallOK, NEW f \in Proc, ReceiveTakes(f)
  PROVE  Queues' /\ Sends(f, Receiver)
<1>1. Receiver \in Proc
  BY CallCases DEF ReceiveTakes, At, ReceivePc
<1> SUFFICES ASSUME NEW p \in Proc, p = Receiver
             PROVE  Queues' /\ Sends(f, p)
  BY <1>1
<1>2. f \in ToSet(q_sending[p]) /\ Sends(f, p)
  <2>1. CASE Source = ANY
    <3>1. q_sending[p] \in Seq(Proc) /\ q_sending[p] # <<>> /\ f = Head(q_sending[p])
      BY <1>1, <2>1 DEF ReceiveTakes, Selects, Queues, TypeOK
    <3>2. f \in ToSet(q_sending[p])
      BY <3>1, HeadInQueue
    <3>3. QED
      BY <1>1, <3>2 DEF Queues, QueueExact
  <2>2. CASE Source # ANY
    BY <1>1, <2>2 DEF ReceiveTakes, Selects, Queues, QueueExact
  <2>3. QED
    BY <2>1, <2>2
<1>3. \A y \in Proc : \A z : Sends(y, z)' <=> Sends(y, z) /\ y # f
  BY DEF ReceiveTakes, Sends, Queues, TypeOK
<1>4. /\ q_sending[p] \in Seq(Proc) /\ Once(q_sending[p])
      /\ q_sending' = [q_sending EXCEPT ![p] = Unlink(q_sending[p], f)]
  BY <1>1 DEF ReceiveTakes, Queues, TypeOK, QueueExact, Once
<1>5. /\ Unlink(q_sending[p], f) \in Seq(Proc)
      /\ Once(Unlink(q_sending[p], f))
      /\ ToSet(Unlink(q_sending[p], f)) = ToSet(q_sending[p]) \ {f}
  BY <1>2, <1>4, UnlinkExact
<1>6. TypeOK'
  BY <1>1, <1>4, <1>5 DEF Queues, TypeOK, ReceiveTakes, AssertThat
<1>7. QueueExact'
  <2>1. ASSUME NEW e \in Proc, e # p
        PROVE  q_sending'[e] = q_sending[e] /\ \A y \in Proc : Sends(y, e)' <=> Sends(y, e)
    BY <2>1, <1>2, <1>3, <1>4 DEF Sends, Queues, TypeOK
  <2>2. q_sending'[p] = Unlink(q_sending[p], f)
    BY <1>1, <1>4 DEF Queues, TypeOK
  <2>3. \A y \in Proc : y \in ToSet(q_sending'[p]) <=> Sends(y, p)'
    BY <1>1, <2>2, <1>3, <1>5 DEF Queues, QueueExact
  <2>4. QED
    BY <2>1, <2>2, <2>3, <1>5 DEF Queues, QueueExact, Once
<1>8. SendersAcyclic'
  BY <1>3, FewerSendersAcyclic DEF Queues
<1>9. SendersNamed'
  BY DEF Queues, TypeOK, SendersNamed, ReceiveTakes
<1>10. QED
  BY <1>2, <1>6, <1>7, <1>8, <1>9 DEF Queues

-----------------------------------------------------------------------------
(***************************************************************************)
(* One lemma per action: it keeps the invariant.                           *)
(***************************************************************************)

LEMMA WindowInitInv == WindowInit => WInv
<1> SUFFICES ASSUME WindowInit PROVE WInv
  OBVIOUS
<1>1. Init /\ call = NoCall
  BY DEF WindowInit
<1>2. Queues
  BY <1>1, InitInv DEF IInv, Queues, SendersNamed, Init, SENDING
<1>3. CallOK /\ SendUnderWay /\ ReceiveUnderWay
  BY <1>1 DEF CallOK, SendUnderWay, ReceiveUnderWay, NoCall, SendPc, ReceivePc
<1>4. RestAgree
  BY <1>1 DEF Init, RestAgree, Agrees, SENDING, RECEIVING
<1>5. QED
  BY <1>2, <1>3, <1>4 DEF WInv

(* A process outside a call that may run is idle, unless it is a task.     *)
LEMMA RunnerAgrees ==
  ASSUME WInv, NEW p \in Proc \ IntTask, Running(p), At("user")
  PROVE  Idle(p)
<1>1. ~ Changing(p)
  BY CallCases DEF WInv, At, Changing, SendPc, ReceivePc
<1>2. QED
  BY <1>1 DEF WInv, RestAgree, Agrees, Running, Idle, SENDING, RECEIVING

LEMMA SendInv ==
  ASSUME WInv, NEW p \in Proc, NEW d \in Proc, NEW t \in Type, Send(p, d, t)
  PROVE  WInv'
<1>1. call = NoCall /\ call.at = "user"
  BY CallCases DEF WInv, Send, At
<1>2. CASE SendDeadlock(p, d, t) /\ UNCHANGED call
  <2>1. /\ TypeOK'
        /\ \A y \in Proc : \A z : Sends(y, z)' <=> Sends(y, z)
    BY <1>2 DEF SendDeadlock, WInv, Queues, TypeOK, Message, Sends
  <2>2. Queues'
    BY <1>2, <2>1, SameSenders DEF SendDeadlock, WInv, Queues, SendersNamed
  <2>3. QED
    BY <1>1, <1>2, <2>2
    DEF SendDeadlock, WInv, CallOK, SendUnderWay, ReceiveUnderWay, RestAgree, Changing,
        Agrees, SendPc, ReceivePc
<1>3. CASE SendBlock(p, d, t) /\ UNCHANGED call
  <2>1. Queues'
    BY <1>3, BlockQueues DEF WInv
  <2>2. CallOK' /\ SendUnderWay' /\ ReceiveUnderWay'
    BY <1>1, <1>3 DEF WInv, CallOK, SendUnderWay, ReceiveUnderWay, SendPc, ReceivePc
  <2>3. ASSUME NEW y \in Proc \ IntTask
        PROVE  Agrees(y)'
    <3>1. Agrees(y)
      BY <1>1 DEF WInv, RestAgree, Changing, SendPc, ReceivePc
    <3>2. CASE y = p
      <4>1. Idle(p)
        BY <1>1, <1>3, <3>2, RunnerAgrees DEF SendBlock, Running, At
      <4>2. QED
        BY <1>3, <3>2, <4>1, NumberAssumption
        DEF SendBlock, Idle, Agrees, WInv, Queues, TypeOK, SENDING, RECEIVING
    <3>3. CASE y # p
      BY <1>3, <3>1, <3>3 DEF SendBlock, Agrees, WInv, Queues, TypeOK
    <3>4. QED
      BY <3>2, <3>3
  <2>4. QED
    BY <2>1, <2>2, <2>3 DEF WInv, RestAgree
<1>4. CASE /\ Running(p) /\ p # d /\ Accepts(d, p)
           /\ mbuf' = [mbuf EXCEPT ![p] = Signed(p, t)]
           /\ call' = [at |-> "accepted", who |-> p, with |-> d]
           /\ UNCHANGED <<p_flags, p_msg, p_sendto, p_recvfrom, has_int_msg, q_sending, panic>>
  <2>1. /\ TypeOK'
        /\ \A y \in Proc : \A z : Sends(y, z)' <=> Sends(y, z)
    BY <1>4 DEF WInv, Queues, TypeOK, Message, Sends
  <2>2. Queues'
    BY <1>4, <2>1, SameSenders DEF WInv, Queues, SendersNamed
  <2>3. CallOK' /\ ReceiveUnderWay'
    BY <1>4 DEF CallOK, ReceiveUnderWay, SendPc, ReceivePc, Sender, Dest
  <2>4. \A y \in Proc \ IntTask : Agrees(y) /\ Agrees(y)'
    BY <1>1, <1>4 DEF WInv, RestAgree, Changing, SendPc, ReceivePc, Agrees
  <2>5. p \notin IntTask => Idle(p)
    BY <1>4, RunnerAgrees DEF Send, SendBlock, SendDeadlock, At, Running
  <2>6. d \notin IntTask => /\ p_flags[d] = {RECEIVING} /\ p_msg[d]
                            /\ p_sendto[d] = NO_TASK /\ p_recvfrom[d] # NO_TASK
    BY <1>4, <2>4 DEF Agrees, Accepts, SENDING, RECEIVING
  <2>7. SendUnderWay'
    BY <1>4, <2>5, <2>6 DEF SendUnderWay, Idle, Sender, Dest, SendPc
  <2>8. QED
    BY <2>2, <2>3, <2>4, <2>7 DEF WInv, RestAgree
<1>5. QED
  BY <1>2, <1>3, <1>4 DEF Send

(* The steps of a SEND change the entry of the destination only.           *)
LEMMA SendStepInv ==
  ASSUME WInv, SendChecks \/ SendCopies \/ SendClearsMsg \/ SendClearsFlag \/ SendEnds
  PROVE  WInv'
<1> DEFINE NextPc == CASE call.at = "accepted" -> "copy"
                       [] call.at = "copy" -> "copied"
                       [] call.at = "copied" -> "no_msg"
                       [] call.at = "no_msg" -> "no_flag"
                       [] OTHER -> "user"
<1>1. /\ call.at \in SendPc /\ Sender \in Proc /\ Dest \in Proc /\ Sender # Dest
      /\ \A pc \in SendPc : [call EXCEPT !.at = pc] \in [at : SendPc, who : Proc, with : Proc]
  BY CallCases
  DEF WInv, At, SendPc, SendChecks, SendCopies, SendClearsMsg, SendClearsFlag, SendEnds
<1> SUFFICES ASSUME NEW s \in Proc, NEW d \in Proc, s = Sender, d = Dest, s # d
             PROVE  WInv'
  BY <1>1
<1>2. /\ TypeOK'
      /\ \A y \in Proc : \A z : Sends(y, z)' <=> Sends(y, z)
      /\ q_sending' = q_sending /\ p_sendto' = p_sendto
      /\ \A y \in Proc : y # d => /\ p_flags'[y] = p_flags[y] /\ p_msg'[y] = p_msg[y]
                                  /\ p_recvfrom'[y] = p_recvfrom[y]
  <2>1. CASE SendChecks
    BY <2>1 DEF WInv, SendChecks, Queues, TypeOK, AssertThat, Sends
  <2>2. CASE SendCopies
    BY <2>2 DEF WInv, SendCopies, Queues, TypeOK, Sends
  <2>3. CASE SendClearsMsg
    BY <2>3 DEF WInv, SendClearsMsg, Queues, TypeOK, Sends
  <2>4. CASE SendClearsFlag
    BY <2>4 DEF WInv, SendClearsFlag, Queues, TypeOK, Sends, SENDING, RECEIVING
  <2>5. CASE SendEnds
    BY <2>5 DEF WInv, SendEnds, Queues, TypeOK, AssertThat, Sends
  <2>6. QED
    BY <2>1, <2>2, <2>3, <2>4, <2>5
<1>3. Queues'
  BY <1>2, SameSenders DEF WInv, Queues, SendersNamed, Sends
<1>4. IF call.at = "no_flag" THEN call' = NoCall ELSE call' = [call EXCEPT !.at = NextPc]
  BY DEF At, Goto, Return, SendChecks, SendCopies, SendClearsMsg, SendClearsFlag, SendEnds
<1>5. CASE call.at = "no_flag"
  <2>1. SendEnds /\ call' = NoCall
    BY <1>4, <1>5 DEF At, SendChecks, SendCopies, SendClearsMsg, SendClearsFlag
  <2>2. CallOK' /\ SendUnderWay' /\ ReceiveUnderWay'
    BY <2>1 DEF CallOK, SendUnderWay, ReceiveUnderWay, NoCall, SendPc, ReceivePc
  <2>3. d \notin IntTask => Agrees(d)'
    BY <1>1, <1>5, <2>1
    DEF WInv, Queues, TypeOK, SendUnderWay, SendEnds, Agrees, SENDING, RECEIVING
  <2>4. \A y \in Proc \ IntTask : y # d => Agrees(y)'
    BY <1>1, <1>2 DEF WInv, RestAgree, Changing, Agrees, SendPc, ReceivePc
  <2>5. QED
    BY <1>3, <2>2, <2>3, <2>4 DEF WInv, RestAgree
<1>6. CASE call.at # "no_flag"
  <2>1. /\ NextPc \in SendPc /\ call' = [call EXCEPT !.at = NextPc]
        /\ call'.at = NextPc /\ Sender' = s /\ Dest' = d
        /\ call' \in [at : SendPc, who : Proc, with : Proc]
    BY <1>1, <1>4, <1>6 DEF SendPc, Sender, Dest, WInv, CallOK, NoCall, ReceivePc
  <2>2. CallOK' /\ ReceiveUnderWay'
    BY <2>1 DEF CallOK, ReceiveUnderWay, SendPc, ReceivePc
  <2>3. s \notin IntTask => Idle(s)'
    BY <1>1, <1>2 DEF WInv, SendUnderWay, Idle
  <2>4. ASSUME d \notin IntTask
        PROVE  /\ p_flags'[d] = IF NextPc = "no_flag" THEN {} ELSE {RECEIVING}
               /\ p_msg'[d] <=> NextPc \in {"accepted", "copy", "copied"}
               /\ p_sendto'[d] = NO_TASK /\ p_recvfrom'[d] # NO_TASK
    <3>1. /\ p_flags[d] = {RECEIVING} /\ p_sendto[d] = NO_TASK /\ p_recvfrom[d] # NO_TASK
          /\ p_msg[d] <=> call.at \in {"accepted", "copy", "copied"}
      BY <1>1, <1>6, <2>4 DEF WInv, SendUnderWay
    <3>2. CASE SendChecks \/ SendCopies
      BY <3>1, <3>2 DEF SendChecks, SendCopies, At
    <3>3. CASE SendClearsMsg
      BY <3>1, <3>3 DEF SendClearsMsg, At, WInv, Queues, TypeOK
    <3>4. CASE SendClearsFlag
      BY <3>1, <3>4 DEF SendClearsFlag, At, WInv, Queues, TypeOK
    <3>5. QED
      BY <1>6, <3>2, <3>3, <3>4 DEF SendEnds, At
  <2>5. SendUnderWay'
    BY <2>1, <2>3, <2>4 DEF SendUnderWay
  <2>6. RestAgree'
    BY <1>1, <1>2, <2>1 DEF WInv, RestAgree, Changing, Agrees, SendPc, ReceivePc
  <2>7. QED
    BY <1>3, <2>2, <2>5, <2>6 DEF WInv
<1>7. QED
  BY <1>5, <1>6

LEMMA ReceiveInv ==
  ASSUME WInv, NEW p \in Proc, NEW src \in Proc \cup {ANY, INTERRUPT}, Receive(p, src)
  PROVE  WInv'
<1>1. call = NoCall /\ call.at = "user"
  BY CallCases DEF WInv, Receive, At
<1>2. /\ TypeOK'
      /\ \A y \in Proc : \A z : Sends(y, z)' <=> Sends(y, z)
  BY TypeAssumption DEF Receive, WInv, Queues, TypeOK, Message, Sends
<1>3. Queues'
  BY <1>2, SameSenders DEF Receive, WInv, Queues, SendersNamed
<1>4. /\ call' \in [at : {"informed", "looks"}, who : Proc, with : Proc \cup {ANY, INTERRUPT}]
      /\ call'.who = p
  BY DEF Receive
<1>5. CallOK' /\ SendUnderWay'
  BY <1>4 DEF CallOK, SendUnderWay, SendPc, ReceivePc
<1>6. \A y \in Proc \ IntTask : Agrees(y) /\ Agrees(y)'
  BY <1>1 DEF Receive, WInv, RestAgree, Changing, SendPc, ReceivePc, Agrees
<1>7. ReceiveUnderWay'
  <2>1. p \notin IntTask => Idle(p)
    BY <1>1, RunnerAgrees DEF Receive
  <2>2. QED
    BY <1>4, <2>1 DEF Receive, ReceiveUnderWay, Receiver, Idle
<1>8. QED
  BY <1>3, <1>5, <1>6, <1>7 DEF WInv, RestAgree

LEMMA ReceiveTakesInv ==
  ASSUME WInv, NEW f \in Proc, ReceiveTakes(f)
  PROVE  WInv'
<1>1. Queues' /\ Sends(f, Receiver)
  BY TakeQueues DEF WInv
<1>2. Receiver \in Proc /\ call.at = "looks" /\ call' = NoCall
  BY CallCases DEF WInv, ReceiveTakes, At, Return, ReceivePc
<1>3. CallOK' /\ SendUnderWay' /\ ReceiveUnderWay'
  BY <1>2 DEF CallOK, SendUnderWay, ReceiveUnderWay, NoCall, SendPc, ReceivePc
<1>4. ASSUME NEW y \in Proc \ IntTask
      PROVE  Agrees(y)
  <2>1. CASE y = Receiver
    BY <1>2, <2>1 DEF WInv, ReceiveUnderWay, Agrees, ReceivePc, SENDING, RECEIVING
  <2>2. CASE y # Receiver
    BY <1>2, <2>2 DEF WInv, RestAgree, Changing, SendPc
  <2>3. QED
    BY <2>1, <2>2
<1>5. ASSUME NEW y \in Proc \ IntTask
      PROVE  Agrees(y)'
  <2>1. CASE y = f
    <3>1. /\ p_flags[f] = {SENDING} /\ p_recvfrom[f] = NO_TASK
          /\ p_flags'[f] = p_flags[f] \ {SENDING} /\ ~ p_msg'[f]
          /\ p_sendto'[f] = NO_TASK /\ p_recvfrom'[f] = p_recvfrom[f]
      <4>1. p_flags[f] = {SENDING}
        BY <1>1, <1>4, <2>1 DEF Sends, Agrees, SENDING, RECEIVING
      <4>2. p_recvfrom[f] = NO_TASK
        BY <1>4, <2>1, <4>1 DEF Agrees, SENDING, RECEIVING
      <4>3. QED
        BY <4>1, <4>2 DEF ReceiveTakes, WInv, Queues, TypeOK
    <3>2. p_flags'[f] = {}
      BY <3>1
    <3>3. QED
      BY <2>1, <3>1, <3>2 DEF Agrees
  <2>2. CASE y # f
    BY <1>4, <2>2 DEF ReceiveTakes, Agrees, WInv, Queues, TypeOK
  <2>3. QED
    BY <2>1, <2>2
<1>6. QED
  BY <1>1, <1>3, <1>5 DEF WInv, RestAgree

(* The steps of a RECEIVE that blocks change the caller's entry only.      *)
LEMMA ReceiveStepInv ==
  ASSUME WInv,
         ReceivedInterrupt \/ ReceiveSetsFlag \/ ReceiveSetsMsg \/ ReceiveSetsFrom
           \/ ReceiveBlocks
  PROVE  WInv'
<1> DEFINE NextPc == CASE call.at = "looks" -> "flag"
                       [] call.at = "flag" -> "msg"
                       [] OTHER -> "from"
<1>1. /\ call.at \in ReceivePc /\ Receiver \in Proc /\ Source \in Proc \cup {ANY, INTERRUPT}
      /\ \A pc \in ReceivePc : [call EXCEPT !.at = pc]
           \in [at : ReceivePc, who : Proc, with : Proc \cup {ANY, INTERRUPT}]
  BY CallCases
  DEF WInv, At, ReceivePc, ReceivedInterrupt, ReceiveSetsFlag, ReceiveSetsMsg,
      ReceiveSetsFrom, ReceiveBlocks
<1> SUFFICES ASSUME NEW p \in Proc, NEW src \in Proc \cup {ANY, INTERRUPT},
                    p = Receiver, src = Source
             PROVE  WInv'
  BY <1>1
<1>2. src # NO_TASK
  BY NumberAssumption
<1>3. /\ TypeOK'
      /\ \A y \in Proc : \A z : Sends(y, z)' <=> Sends(y, z)
      /\ q_sending' = q_sending /\ p_sendto' = p_sendto
      /\ \A y \in Proc : y # p => /\ p_flags'[y] = p_flags[y] /\ p_msg'[y] = p_msg[y]
                                  /\ p_recvfrom'[y] = p_recvfrom[y]
  <2>1. CASE ReceivedInterrupt
    BY <2>1 DEF WInv, ReceivedInterrupt, Queues, TypeOK, AssertThat, Sends
  <2>2. CASE ReceiveSetsFlag
    BY <2>2 DEF WInv, ReceiveSetsFlag, Queues, TypeOK, Sends, Flag, SENDING, RECEIVING
  <2>3. CASE ReceiveSetsMsg
    BY <2>3 DEF WInv, ReceiveSetsMsg, Queues, TypeOK, Sends
  <2>4. CASE ReceiveSetsFrom
    BY <2>4 DEF WInv, ReceiveSetsFrom, Queues, TypeOK, Sends
  <2>5. CASE ReceiveBlocks
    BY <2>5 DEF WInv, ReceiveBlocks, Queues, TypeOK, AssertThat, Sends
  <2>6. QED
    BY <2>1, <2>2, <2>3, <2>4, <2>5
<1>4. Queues'
  BY <1>3, SameSenders DEF WInv, Queues, SendersNamed, Sends
<1>5. CASE ReceivedInterrupt \/ ReceiveBlocks
  <2>1. call' = NoCall /\ UNCHANGED <<p_flags, p_msg, p_sendto, p_recvfrom>>
        /\ call.at \in {"informed", "from"}
    BY <1>5 DEF ReceivedInterrupt, ReceiveBlocks, Return, At
  <2>2. CallOK' /\ SendUnderWay' /\ ReceiveUnderWay'
    BY <2>1 DEF CallOK, SendUnderWay, ReceiveUnderWay, NoCall, SendPc, ReceivePc
  <2>3. p \notin IntTask => Agrees(p)'
    BY <1>2, <2>1 DEF WInv, ReceiveUnderWay, Agrees, ReceivePc, SENDING, RECEIVING
  <2>4. \A y \in Proc \ IntTask : y # p => Agrees(y)'
    BY <1>1, <2>1 DEF WInv, RestAgree, Changing, Agrees, SendPc, ReceivePc
  <2>5. QED
    BY <1>4, <2>2, <2>3, <2>4 DEF WInv, RestAgree
<1>6. CASE ReceiveSetsFlag \/ ReceiveSetsMsg \/ ReceiveSetsFrom
  <2>1. /\ NextPc \in ReceivePc /\ call' = [call EXCEPT !.at = NextPc]
        /\ call.at \in {"looks", "flag", "msg"}
    BY <1>6 DEF At, Goto, ReceiveSetsFlag, ReceiveSetsMsg, ReceiveSetsFrom, ReceivePc
  <2>2. /\ call'.at = NextPc /\ Receiver' = p /\ Source' = src
        /\ call' \in [at : ReceivePc, who : Proc, with : Proc \cup {ANY, INTERRUPT}]
    BY <1>1, <2>1 DEF WInv, CallOK, SendPc, ReceivePc, NoCall, Receiver, Source
  <2>3. CallOK' /\ SendUnderWay'
    BY <2>2 DEF CallOK, SendUnderWay, SendPc, ReceivePc
  <2>4. ASSUME p \notin IntTask
        PROVE  /\ p_flags'[p] = {RECEIVING}
               /\ p_msg'[p] <=> NextPc \in {"msg", "from"}
               /\ p_sendto'[p] = NO_TASK
               /\ p_recvfrom'[p] = IF NextPc = "from" THEN src ELSE NO_TASK
    <3>1. /\ p_flags[p] = IF call.at = "looks" THEN {} ELSE {RECEIVING}
          /\ p_msg[p] <=> call.at = "msg"
          /\ p_sendto[p] = NO_TASK /\ p_recvfrom[p] = NO_TASK
      BY <2>1, <2>4 DEF WInv, ReceiveUnderWay, ReceivePc
    <3>2. CASE ReceiveSetsFlag
      BY <3>1, <3>2 DEF ReceiveSetsFlag, At, WInv, Queues, TypeOK
    <3>3. CASE ReceiveSetsMsg
      BY <3>1, <3>3 DEF ReceiveSetsMsg, At, WInv, Queues, TypeOK
    <3>4. CASE ReceiveSetsFrom
      BY <3>1, <3>4 DEF ReceiveSetsFrom, At, WInv, Queues, TypeOK
    <3>5. QED
      BY <1>6, <3>2, <3>3, <3>4
  <2>5. ReceiveUnderWay'
    BY <2>1, <2>2, <2>4 DEF ReceiveUnderWay
  <2>6. RestAgree'
    BY <1>1, <1>3, <2>2 DEF WInv, RestAgree, Changing, Agrees, SendPc, ReceivePc
  <2>7. QED
    BY <1>4, <2>3, <2>5, <2>6 DEF WInv
<1>7. QED
  BY <1>5, <1>6

(* An interrupt changes the entry of the task it is for.                   *)
LEMMA InterruptInv ==
  ASSUME WInv, NEW p \in IntTask, Interrupt(p)
  PROVE  WInv'
<1>1. p \in Proc /\ call' = call
  BY TaskAssumption DEF Interrupt
<1>2. /\ TypeOK'
      /\ \A y \in Proc : \A z : Sends(y, z)' <=> Sends(y, z)
      /\ q_sending' = q_sending /\ p_sendto' = p_sendto
      /\ \A y \in Proc : y # p => /\ p_flags'[y] = p_flags[y] /\ p_msg'[y] = p_msg[y]
                                  /\ p_recvfrom'[y] = p_recvfrom[y]
  <2>1. CASE WaitsForInt(p) /\ ~ p_msg[p]
    <3>1. /\ p_flags' = [p_flags EXCEPT ![p] = @ \ {RECEIVING}]
          /\ p_recvfrom' = [p_recvfrom EXCEPT ![p] = NO_TASK]
          /\ has_int_msg' = [has_int_msg EXCEPT ![p] = FALSE]
          /\ UNCHANGED <<p_msg, p_sendto, q_sending, mbuf, panic>>
      BY <2>1 DEF Interrupt
    <3>2. QED
      BY <1>1, <3>1 DEF WInv, Queues, TypeOK, Sends, SENDING, RECEIVING
  <2>2. CASE IntDeliver(p)
    BY <1>1, <2>2
    DEF WInv, IntDeliver, Queues, TypeOK, Message, AssertThat, Sends, SENDING, RECEIVING
  <2>3. CASE IntMark(p)
    BY <1>1, <2>3 DEF WInv, IntMark, Queues, TypeOK, Sends
  <2>4. QED
    BY <2>1, <2>2, <2>3 DEF Interrupt, inform_int
<1>3. Queues'
  BY <1>2, SameSenders DEF WInv, Queues, SendersNamed, Sends
<1>4. CallOK' /\ SendUnderWay' /\ ReceiveUnderWay'
  BY <1>1, <1>2, CallCases
  DEF WInv, CallOK, SendUnderWay, ReceiveUnderWay, Idle, Sender, Dest, Receiver, Source
<1>5. RestAgree'
  BY <1>1, <1>2 DEF WInv, RestAgree, Changing, Agrees, Dest, Receiver
<1>6. QED
  BY <1>3, <1>4, <1>5 DEF WInv

LEMMA WindowStepInv == WInv /\ [WindowNext]_winVars => WInv'
<1> SUFFICES ASSUME WInv, [WindowNext]_winVars PROVE WInv'
  OBVIOUS
<1>1. CASE UNCHANGED winVars
  <2> USE <1>1 DEF winVars, ipcVars
  <2>1. TypeOK' /\ SendersNamed'
    BY DEF WInv, Queues, TypeOK, SendersNamed
  <2>2. QueueExact' /\ SendersAcyclic'
    BY DEF WInv, Queues, QueueExact, SendersAcyclic, Sends
  <2>3. CallOK' /\ SendUnderWay' /\ ReceiveUnderWay' /\ RestAgree'
    BY DEF WInv, CallOK, SendUnderWay, ReceiveUnderWay, RestAgree, Changing, Agrees, Idle,
           Sender, Dest, Receiver, Source
  <2>4. QED
    BY <2>1, <2>2, <2>3 DEF WInv, Queues
<1>2. ASSUME NEW p \in Proc, NEW d \in Proc, NEW t \in Type, Send(p, d, t)
      PROVE  WInv'
  BY <1>2, SendInv
<1>3. ASSUME NEW p \in Proc, NEW src \in Proc \cup {ANY, INTERRUPT}, Receive(p, src)
      PROVE  WInv'
  BY <1>3, ReceiveInv
<1>4. ASSUME NEW f \in Proc, ReceiveTakes(f)
      PROVE  WInv'
  BY <1>4, ReceiveTakesInv
<1>5. ASSUME NEW p \in IntTask, Interrupt(p)
      PROVE  WInv'
  BY <1>5, InterruptInv
<1>6. QED
  BY <1>1, <1>2, <1>3, <1>4, <1>5, SendStepInv, ReceiveStepInv
  DEF WindowNext, Halted, winVars

LEMMA WindowInvariance == WindowSpec => []WInv
BY WindowInitInv, WindowStepInv, PTL DEF WindowSpec

-----------------------------------------------------------------------------
(***************************************************************************)
(* The theorems.                                                           *)
(***************************************************************************)

(* With interrupts in the middle of system calls too, q_sending is always  *)
(* exactly the senders of a process, without repetition.                   *)
THEOREM WindowQueueCorrect == WindowSpec => []QueueExact
<1>1. WInv => QueueExact
  BY DEF WInv, Queues
<1>2. QED
  BY <1>1, WindowInvariance, PTL

(* No interrupt lets senders wait in a circle.                             *)
THEOREM WindowNoCircle == WindowSpec => []SendersAcyclic
<1>1. WInv => SendersAcyclic
  BY DEF WInv, Queues
<1>2. QED
  BY <1>1, WindowInvariance, PTL

(* Interrupts in the middle of calls damage the entries of the tasks they  *)
(* are for, and no other.                                                  *)
THEOREM WindowOthersConsistent == WindowSpec => []OthersConsistent
<1>1. WInv => OthersConsistent
  BY DEF WInv, OthersConsistent, RestAgree, Changing, NoCall, SendPc, ReceivePc
<1>2. QED
  BY <1>1, WindowInvariance, PTL

=============================================================================
