--------------------------- MODULE ProcLife_proofs ---------------------------
(***************************************************************************)
(* Proofs about ProcLife, for every number of entries in the process table *)
(* and every set of programs, those that kill too.  Unless MM has gone     *)
(* astray, no assert() of the message kernel fails and no circle of        *)
(* senders forms, every caller of MM is accounted for and gets one answer, *)
(* and the living processes form a tree below INIT.                        *)
(***************************************************************************)
EXTENDS ProcLife, IPC_proofs, WellFoundedInduction

(* Init() of kernel/main.c is a loop: INIT never exits.                    *)
InitStays == "EXIT" \notin Calls[INIT_PID]

-----------------------------------------------------------------------------
(***************************************************************************)
(* The inductive invariant.  The process table, with the two bits that MM  *)
(* manages next to those of the kernel.                                    *)
(***************************************************************************)
Waits(p) == WAITING \in p_flags[p]

Entries ==
  \A p \in Proc :
    /\ p_flags[p] \in {{}, {SENDING}, {RECEIVING}, {WAITING}, {RECEIVING, WAITING}, {FREE_SLOT}}
    /\ ~ Free(p) => /\ p_msg[p] <=> p_flags[p] \cap {SENDING, RECEIVING} # {}
                    /\ p_sendto[p] # NO_TASK <=> SENDING \in p_flags[p]
                    /\ p_recvfrom[p] # NO_TASK <=> RECEIVING \in p_flags[p]
    /\ ~ has_int_msg[p]

Kernel == TypeOK /\ QueueExact /\ Entries /\ panic = "none"

(* The users and their calls.                                              *)
Answer == "SYSCALL_RET"
Serv(p) == ServerOf(request[p])

UserIs(p) ==
  CASE stage[p] = "idle"    -> callOf[p] = Unblocked /\ ~ Waits(p)
    [] stage[p] = "called"  -> \/ callOf[p] = Unblocked
                               \/ callOf[p] = SendTo(Serv(p)) /\ mbuf[p] = Signed(p, request[p])
    [] stage[p] = "waiting" -> \/ callOf[p] = RecvFrom(Serv(p))
                               \/ /\ callOf[p] = Unblocked /\ ~ Waits(p)
                                  /\ mbuf[p] = Signed(Serv(p), Answer)
UsersFit ==
  /\ \A p \in Proc : /\ Waits(p) => p \in User /\ request[p] = "WAIT"
                     /\ Free(p) => p \in Slot
  /\ \A p \in User : /\ ~ Free(p) => UserIs(p)
                     /\ request[p] = "EXIT" => p # INIT_PID
                     /\ request[p] = "none" => stage[p] = "idle"

(* A call that the server has taken and not answered.                      *)
Taken(p, s) ==
  /\ ~ Free(p) /\ ~ Waits(p) /\ Serv(p) = s
  /\ \/ stage[p] = "called" /\ callOf[p] = Unblocked
     \/ stage[p] = "waiting" /\ callOf[p] = RecvFrom(s)
Asking == {"fork_fs_wait", "exit_fs_wait", "exec_fs_wait"}
Asked == {"fork_child", "exit_parent", "exec_next"}
MmTaken == \/ mm_pc \in Asking /\ callOf[MM] = Unblocked
           \/ mm_pc \in Asked /\ callOf[MM] = RecvFrom(FS)

(* FS, towards whom it serves.                                             *)
FsOwes(c) == IF c = MM THEN MmTaken ELSE Taken(c, FS)
FsIdle == \/ fs_pc = "receive" /\ callOf[FS] = Unblocked
          \/ fs_pc = "reply" /\ callOf[FS] = RecvFrom(ANY)
FsHolds(c) == fs_pc = "reply" /\ callOf[FS] = Unblocked /\ mbuf[FS].source = c
FsAnswers(c) == /\ fs_pc = "receive" /\ callOf[FS] = SendTo(c)
                /\ mbuf[FS] = Signed(FS, Answer) /\ callOf[c] = Unblocked
FsFits ==
  FsIdle \/ \E c \in User \cup {MM} : FsOwes(c) /\ (FsHolds(c) \/ FsAnswers(c))

(* MM, at each place of its loop: the call it may be blocked in, and what  *)
(* it knows of the processes that it serves.                               *)
MmAnswers(c) ==
  callOf[MM] = SendTo(c) /\ mbuf[MM] = Signed(MM, Answer) /\ callOf[c] = Unblocked

MmCall ==
  \/ callOf[MM] = Unblocked
  \/ callOf[MM] = RecvFrom(ANY) /\ mm_pc = "dispatch"
  \/ callOf[MM] = SendTo(FS) /\ mbuf[MM].source = MM /\ mm_pc \in Asking
  \/ callOf[MM] = RecvFrom(FS) /\ mm_pc \in Asked
  \/ callOf[MM] = RecvFrom(mm_src) /\ mm_pc \in {"buddy_send", "reply"}
  \/ \E c \in User :
       /\ MmAnswers(c)
       /\ \/ mm_pc \in {"receive", "buddy_await"}
          \/ mm_pc \in {"cleanup_free", "reply"} /\ c # mm_src

ForkPcs == {"fork_fs", "fork_fs_wait", "fork_child"}
ExitPcs == {"exit_fs", "exit_fs_wait", "exit_parent", "cleanup_send", "cleanup_free"}
Serving(t) == request[mm_src] = t

(* Who dies has called exit(), or mm_src has called kill() for it.         *)
Buries(p) ==
  p \in Slot /\ ((mm_type = "EXIT" /\ p = mm_src) \/ (mm_type = "KILLP" /\ p # mm_src))

MmRole ==
  /\ mm_pc = "dispatch" /\ callOf[MM] = Unblocked =>
       \E c \in User : mbuf[MM] = Signed(c, request[c])
  /\ mm_pc \in ForkPcs \cup {"fork_regs", "fork_copy"} => Serving("FORK")
  /\ mm_pc \in {"fork_regs", "fork_copy"} => FreeSlots # {}
  /\ mm_pc \in ForkPcs => mm_who # mm_src
  /\ mm_pc \in ExitPcs \cup {"adopt"} => Buries(mm_who)
  /\ mm_pc \in ExitPcs => Serving(mm_type) /\ ~ Free(mm_who)
  /\ mm_pc = "cleanup_send" =>
       p_parent[mm_who] \in User /\ request[p_parent[mm_who]] = "WAIT"
  /\ mm_pc = "adopt" => Free(mm_who)
  /\ mm_pc \in {"wait", "wait_store"} => Serving("WAIT")

(* Whom MM owes an answer, in those places.                                *)
MmServes(p) ==
  \/ callOf[MM] = SendTo(p)
  \/ mm_pc = "dispatch" /\ callOf[MM] = Unblocked /\ mbuf[MM].source = p
  \/ /\ mm_pc \notin {"receive", "dispatch", "buddy_await"}
     /\ mm_pc = "adopt" => mm_type = "KILLP"
     /\ p = mm_src /\ callOf[MM] # RecvFrom(mm_src)
  \/ mm_pc \in ForkPcs /\ p = mm_who
  \/ mm_pc = "cleanup_send" /\ p = p_parent[mm_who]
Accounted == \A p \in User : Taken(p, MM) <=> MmServes(p)

(* The tree of the living; MM is about to give the children of the dead    *)
(* to INIT in between.                                                     *)
Up(y) ==
  /\ p_parent[y] \in User
  /\ Free(p_parent[y]) => mm_pc = "adopt" /\ p_parent[y] = mm_who
Tree ==
  \A S \in SUBSET {s \in Slot : ~ Free(s)} :
     S # {} => \E y \in S : Up(y) /\ p_parent[y] \notin S

LifeInv == Kernel /\ LifeTypeOK /\ UsersFit /\ FsFits /\ MmCall /\ MmRole /\ Accounted /\ Tree

-----------------------------------------------------------------------------
(* The processes, their bits and their calls.                              *)
LEMMA Folk ==
  /\ FS \in Proc /\ MM \in Proc /\ FS # MM /\ INIT_PID \in User /\ INIT_PID \notin Slot
  /\ \A p \in User : p \in Proc /\ p # FS /\ p # MM
  /\ \A p \in Slot : p \in User
  /\ \A p \in Proc : p \in User \/ p = FS \/ p = MM
  /\ \A p \in Proc : p # ANY /\ p # INTERRUPT /\ p # NO_TASK
  /\ ANY # INTERRUPT /\ ANY # NO_TASK
  /\ Answer \in Type /\ CallType \subseteq Type
  /\ \A t : ServerOf(t) \in {FS, MM}
BY LifeAssumption, NumberAssumption DEF User, Answer, ServerOf

LEMMA Calling ==
  ASSUME Kernel, NEW p \in Proc
  PROVE  /\ callOf[p] = Unblocked <=> SENDING \notin p_flags[p] /\ RECEIVING \notin p_flags[p]
         /\ \A d : callOf[p] = SendTo(d) <=> Sends(p, d)
         /\ \A s : callOf[p] = RecvFrom(s)
                     <=> RECEIVING \in p_flags[p] /\ p_recvfrom[p] = s
<1> USE DEF Unblocked, SendTo, RecvFrom, RV!NoCall, RV!SendTo, RV!RecvFrom
<1> DEFINE f == p_flags[p]
<1>1. f \in {{}, {SENDING}, {RECEIVING}, {WAITING}, {RECEIVING, WAITING}, {FREE_SLOT}}
  BY DEF Kernel, Entries
<1>2. ~ (SENDING \in f /\ RECEIVING \in f)
  BY <1>1 DEF SENDING, RECEIVING, WAITING, FREE_SLOT
<1>3. CASE SENDING \in f
  <2>1. callOf[p] = SendTo(p_sendto[p])
    BY <1>3 DEF callOf
  <2>2. QED
    BY <1>2, <1>3, <2>1, CallsDiffer DEF Sends
<1>4. CASE RECEIVING \in f
  <2>1. callOf[p] = RecvFrom(p_recvfrom[p])
    BY <1>2, <1>4 DEF callOf
  <2>2. QED
    BY <1>2, <1>4, <2>1, CallsDiffer DEF Sends
<1>5. CASE SENDING \notin f /\ RECEIVING \notin f
  <2>1. callOf[p] = Unblocked
    BY <1>5 DEF callOf
  <2>2. QED
    BY <1>5, <2>1, CallsDiffer DEF Sends
<1>6. QED
  BY <1>3, <1>4, <1>5

LEMMA BitsOf ==
  ASSUME Kernel, NEW p \in Proc
  PROVE  /\ Running(p) <=> callOf[p] = Unblocked /\ ~ Waits(p) /\ ~ Free(p)
         /\ Running(p) <=> p_flags[p] = {}
         /\ Free(p) <=> p_flags[p] = {FREE_SLOT}
         /\ Free(p) => callOf[p] = Unblocked /\ ~ Waits(p)
         /\ Waits(p) => \A d : callOf[p] # SendTo(d)
         /\ ~ Waits(p) /\ ~ Free(p) => p_flags[p] \in {{}, {SENDING}, {RECEIVING}}
         /\ panic = "none" /\ ~ has_int_msg[p]
<1>1. p_flags[p] \in {{}, {SENDING}, {RECEIVING}, {WAITING}, {RECEIVING, WAITING}, {FREE_SLOT}}
      /\ panic = "none" /\ ~ has_int_msg[p]
  BY DEF Kernel, Entries
<1>2. callOf[p] = Unblocked <=> SENDING \notin p_flags[p] /\ RECEIVING \notin p_flags[p]
  BY Calling
<1>3. \A d : callOf[p] = SendTo(d) => SENDING \in p_flags[p]
  BY Calling DEF Sends
<1>4. QED
  BY <1>1, <1>2, <1>3
  DEF Running, Waits, Free, SENDING, RECEIVING, WAITING, FREE_SLOT

LEMMA CallDomain ==
  ASSUME Kernel
  PROVE  DOMAIN callOf = Proc /\ DOMAIN mbuf = Proc
BY DEF callOf, Kernel, TypeOK

BitsKept == \A q \in Proc : (Waits(q)' <=> Waits(q)) /\ (Free(q)' <=> Free(q))

(* The other entries of a queue and the processes that wait to send.       *)
LEMMA InQueue ==
  ASSUME Kernel, NEW p \in Proc, NEW f \in Proc
  PROVE  /\ f \in ToSet(q_sending[p]) <=> callOf[f] = SendTo(p)
         /\ (\A x \in Proc : callOf[x] # SendTo(p)) => q_sending[p] = <<>>
         /\ q_sending[p] # <<>> => callOf[Head(q_sending[p])] = SendTo(p) /\ Head(q_sending[p]) \in Proc
<1>1. \A x \in Proc : x \in ToSet(q_sending[p]) <=> callOf[x] = SendTo(p)
  BY Calling DEF Kernel, QueueExact
<1>2. q_sending[p] \in Seq(Proc)
  BY DEF Kernel, TypeOK
<1>3. q_sending[p] # <<>> => Head(q_sending[p]) \in ToSet(q_sending[p]) /\ Head(q_sending[p]) \in Proc
  BY <1>2, HeadInQueue
<1>4. QED
  BY <1>1, <1>3

(***************************************************************************)
(* What the kernel does for a process that runs, with the bits of MM set   *)
(* or not.                                                                 *)
(***************************************************************************)
LEMMA KernelSends ==
  ASSUME Kernel, NEW p \in Proc, NEW d \in Proc, NEW t \in Type, msg_send(p, d, t),
         ~ deadlock(p, d),
         callOf[d] \in {RecvFrom(p), RecvFrom(ANY)} => ~ Waits(d)
  PROVE  /\ Kernel' /\ BitsKept /\ p # d
         /\ callOf[p] = Unblocked /\ ~ Waits(p) /\ ~ Free(p)
         /\ \A q \in Proc : q # p /\ q # d => callOf'[q] = callOf[q] /\ mbuf'[q] = mbuf[q]
         /\ \/ /\ callOf[d] \in {RecvFrom(p), RecvFrom(ANY)}
               /\ callOf'[d] = Unblocked /\ mbuf'[d] = Signed(p, t)
               /\ callOf'[p] = Unblocked
            \/ /\ callOf[d] \notin {RecvFrom(p), RecvFrom(ANY)}
               /\ callOf'[p] = SendTo(d) /\ mbuf'[p] = Signed(p, t)
               /\ callOf'[d] = callOf[d] /\ mbuf'[d] = mbuf[d]
<1>1. Running(p) /\ p # d /\ ~ SendDeadlock(p, d, t)
  BY DEF msg_send, SendDeadlock, SendHandOff, SendBlock
<1>2. /\ callOf[p] = Unblocked /\ ~ Waits(p) /\ ~ Free(p) /\ p_flags[p] = {} /\ panic = "none"
      /\ p_sendto[p] = NO_TASK /\ p_recvfrom[p] = NO_TASK /\ ~ p_msg[p] /\ Idle(p)
  BY <1>1, BitsOf DEF Kernel, Entries, Idle
<1>3. callOf[d] \in {RecvFrom(p), RecvFrom(ANY)} <=> Accepts(d, p)
  BY Calling DEF Accepts
<1>4. Signed(p, t) \in Message
  BY DEF Signed, Message
<1>5. CASE SendHandOff(p, d, t)
  <2>1. Accepts(d, p) /\ RECEIVING \in p_flags[d] /\ ~ Waits(d)
    BY <1>3, <1>5 DEF SendHandOff, Accepts
  <2>2. p_flags[d] = {RECEIVING} /\ ~ Free(d)
    BY <2>1, BitsOf DEF RECEIVING, SENDING, FREE_SLOT
  <2>3. p_sendto[d] = NO_TASK /\ p_msg[d]
    BY <2>2 DEF Kernel, Entries, SENDING, RECEIVING
  <2>4. panic' = "none"
    BY <1>2, <1>5, <2>2, <2>3 DEF SendHandOff, AssertThat
  <2>5. /\ p_flags' = [p_flags EXCEPT ![d] = {}]
        /\ p_msg' = [p_msg EXCEPT ![d] = FALSE]
        /\ p_recvfrom' = [p_recvfrom EXCEPT ![d] = NO_TASK]
        /\ mbuf' = [mbuf EXCEPT ![p] = Signed(p, t), ![d] = Signed(p, t)]
        /\ UNCHANGED <<p_sendto, has_int_msg, q_sending>>
    BY <1>5, <2>2 DEF SendHandOff
  <2>6. \A y \in Proc : \A z : Sends(y, z)' <=> Sends(y, z)
    BY <2>2, <2>5 DEF Sends, Kernel, TypeOK, SENDING, RECEIVING
  <2>7. TypeOK'
    BY <1>4, <2>4, <2>5 DEF Kernel, TypeOK
  <2>8. QueueExact'
    BY <2>5, <2>6 DEF Kernel, QueueExact
  <2>9. Entries'
    BY <2>2, <2>3, <2>5 DEF Kernel, TypeOK, Entries, Free, SENDING, RECEIVING, FREE_SLOT
  <2>10. Kernel'
    BY <2>4, <2>7, <2>8, <2>9 DEF Kernel
  <2>11. BitsKept
    BY <2>2, <2>5 DEF BitsKept, Waits, Free, Kernel, TypeOK, RECEIVING, WAITING, FREE_SLOT
  <2>12. \A q \in Proc : q # d => callOf'[q] = callOf[q]
    BY <2>5 DEF callOf, Kernel, TypeOK
  <2>13. callOf'[d] = Unblocked
    BY <2>5 DEF callOf, Unblocked, RV!NoCall, Kernel, TypeOK
  <2>14. mbuf'[d] = Signed(p, t) /\ \A q \in Proc : q # p /\ q # d => mbuf'[q] = mbuf[q]
    BY <2>5 DEF Kernel, TypeOK
  <2>15. QED
    BY <1>1, <1>2, <1>3, <2>1, <2>10, <2>11, <2>12, <2>13, <2>14
<1>6. CASE SendBlock(p, d, t)
  <2>1. ~ Accepts(d, p)
    BY <1>6 DEF SendBlock
  <2>2. panic' = "none"
    BY <1>2, <1>6 DEF SendBlock, AssertThat
  <2>3. /\ p_flags' = [p_flags EXCEPT ![p] = {SENDING}]
        /\ p_sendto' = [p_sendto EXCEPT ![p] = d]
        /\ p_msg' = [p_msg EXCEPT ![p] = TRUE]
        /\ q_sending' = [q_sending EXCEPT ![d] = Append(q_sending[d], p)]
        /\ mbuf' = [mbuf EXCEPT ![p] = Signed(p, t)]
        /\ UNCHANGED <<p_recvfrom, has_int_msg>>
    BY <1>2, <1>6 DEF SendBlock
  <2>4. \A y \in Proc : \A z : Sends(y, z)' <=> Sends(y, z) \/ (y = p /\ z = d)
    BY <1>2, <2>3 DEF Sends, Kernel, TypeOK
  <2>5. \A z \in Proc : p \notin ToSet(q_sending[z])
    BY <1>2, InQueue, CallsDiffer
  <2>6. q_sending[d] \in Seq(Proc) /\ Once(q_sending[d]) /\ p \notin ToSet(q_sending[d])
    BY <2>5 DEF Kernel, TypeOK, QueueExact, Once
  <2>7. /\ Append(q_sending[d], p) \in Seq(Proc) /\ Once(Append(q_sending[d], p))
        /\ ToSet(Append(q_sending[d], p)) = ToSet(q_sending[d]) \cup {p}
    BY <2>6, AppendExact
  <2>8. TypeOK'
    BY <1>4, <2>2, <2>3, <2>7 DEF Kernel, TypeOK, Flag, SENDING
  <2>9. QueueExact'
    <3>1. ASSUME NEW e \in Proc, e # d
          PROVE  q_sending'[e] = q_sending[e] /\ \A y \in Proc : Sends(y, e)' <=> Sends(y, e)
      BY <3>1, <2>3, <2>4 DEF Kernel, TypeOK
    <3>2. q_sending'[d] = Append(q_sending[d], p)
      BY <2>3 DEF Kernel, TypeOK
    <3>3. \A y \in Proc : y \in ToSet(q_sending'[d]) <=> Sends(y, d)'
      BY <2>4, <2>7, <3>2 DEF Kernel, QueueExact
    <3>4. \A e \in Proc : Once(q_sending'[e]) /\ \A y \in Proc : y \in ToSet(q_sending'[e]) <=> Sends(y, e)'
      <4>1. QueueExact
        BY DEF Kernel
      <4>2. ASSUME NEW e \in Proc, e # d
            PROVE  Once(q_sending'[e]) /\ \A y \in Proc : y \in ToSet(q_sending'[e]) <=> Sends(y, e)'
        BY <3>1, <4>1, <4>2 DEF QueueExact, Once
      <4>3. QED
        BY <2>7, <3>2, <3>3, <4>2
    <3>5. QED
      BY <3>4 DEF QueueExact, Once
  <2>10. Entries'
    BY <1>2, <2>3, Folk
    DEF Kernel, TypeOK, Entries, Free, SENDING, RECEIVING, FREE_SLOT
  <2>11. Kernel'
    BY <2>2, <2>8, <2>9, <2>10 DEF Kernel
  <2>12. BitsKept
    BY <1>2, <2>3 DEF BitsKept, Waits, Free, Kernel, TypeOK, SENDING, WAITING, FREE_SLOT
  <2>13. \A q \in Proc : q # p => callOf'[q] = callOf[q] /\ mbuf'[q] = mbuf[q]
    BY <2>3 DEF callOf, Kernel, TypeOK
  <2>14. callOf'[p] = SendTo(d) /\ mbuf'[p] = Signed(p, t)
    BY <2>3 DEF callOf, SendTo, RV!SendTo, Kernel, TypeOK
  <2>15. QED
    BY <1>1, <1>2, <1>3, <2>1, <2>11, <2>12, <2>13, <2>14
<1>7. QED
  BY <1>1, <1>5, <1>6 DEF msg_send

LEMMA KernelReceives ==
  ASSUME Kernel, NEW p \in Proc, NEW src \in Proc \cup {ANY}, msg_receive(p, src),
         \A f \in Proc : callOf[f] = SendTo(p) => ~ Free(f)
  PROVE  /\ Kernel' /\ BitsKept
         /\ callOf[p] = Unblocked /\ ~ Waits(p) /\ ~ Free(p)
         /\ \A q \in Proc : q # p => mbuf'[q] = mbuf[q]
         /\ \/ \E f \in Proc :
                 /\ callOf[f] = SendTo(p) /\ src \in {f, ANY} /\ f # p
                 /\ callOf'[f] = Unblocked /\ mbuf'[p] = mbuf[f]
                 /\ \A q \in Proc : q # f => callOf'[q] = callOf[q]
            \/ /\ \A f \in Proc : callOf[f] = SendTo(p) => src \notin {f, ANY}
               /\ callOf'[p] = RecvFrom(src)
               /\ \A q \in Proc : q # p => callOf'[q] = callOf[q]
<1>1. Running(p) /\ ~ has_int_msg[p] /\ ~ IntFirst(p, src)
  BY BitsOf DEF msg_receive, RecvInterrupt, RecvFromQueue, RecvBlock, IntFirst
<1>2. /\ callOf[p] = Unblocked /\ ~ Waits(p) /\ ~ Free(p) /\ p_flags[p] = {} /\ panic = "none"
      /\ p_sendto[p] = NO_TASK /\ p_recvfrom[p] = NO_TASK /\ ~ p_msg[p] /\ Idle(p)
  BY <1>1, BitsOf DEF Kernel, Entries, Idle
<1>3. ASSUME NEW f \in Proc, RecvFromQueue(p, src, f)
      PROVE  /\ Kernel' /\ BitsKept /\ \A q \in Proc : q # p => mbuf'[q] = mbuf[q]
             /\ callOf[f] = SendTo(p) /\ src \in {f, ANY} /\ f # p
             /\ callOf'[f] = Unblocked /\ mbuf'[p] = mbuf[f]
             /\ \A q \in Proc : q # f => callOf'[q] = callOf[q]
  <2>1. callOf[f] = SendTo(p) /\ src \in {f, ANY}
    <3>1. CASE src = ANY
      BY <1>3, <3>1, InQueue DEF RecvFromQueue, Selects
    <3>2. CASE src # ANY
      BY <1>3, <3>2, Calling DEF RecvFromQueue, Selects
    <3>3. QED
      BY <3>1, <3>2
  <2>2. f # p /\ ~ Free(f) /\ ~ Waits(f) /\ p_flags[f] = {SENDING} /\ p_sendto[f] = p
    <3>1. Sends(f, p) /\ f # p /\ ~ Free(f)
      BY <1>2, <2>1, Calling, CallsDiffer
    <3>2. ~ Waits(f)
      BY <2>1, BitsOf
    <3>3. QED
      BY <3>1, <3>2, BitsOf DEF Sends, SENDING, RECEIVING
  <2>3. p_msg[f] /\ p_recvfrom[f] = NO_TASK /\ f \in ToSet(q_sending[p])
    BY <2>1, <2>2, InQueue DEF Kernel, Entries, SENDING, RECEIVING
  <2>4. panic' = "none"
    BY <1>2, <1>3, <2>2, <2>3 DEF RecvFromQueue, AssertThat
  <2>5. /\ p_flags' = [p_flags EXCEPT ![f] = {}]
        /\ p_sendto' = [p_sendto EXCEPT ![f] = NO_TASK]
        /\ p_msg' = [p_msg EXCEPT ![f] = FALSE]
        /\ q_sending' = [q_sending EXCEPT ![p] = Unlink(q_sending[p], f)]
        /\ mbuf' = [mbuf EXCEPT ![p] = mbuf[f]]
        /\ UNCHANGED <<p_recvfrom, has_int_msg>>
    BY <1>3, <2>2 DEF RecvFromQueue
  <2>6. \A y \in Proc : \A z : Sends(y, z)' <=> Sends(y, z) /\ y # f
    BY <2>2, <2>5 DEF Sends, Kernel, TypeOK
  <2>7. q_sending[p] \in Seq(Proc) /\ Once(q_sending[p])
    BY DEF Kernel, TypeOK, QueueExact, Once
  <2>8. /\ Unlink(q_sending[p], f) \in Seq(Proc) /\ Once(Unlink(q_sending[p], f))
        /\ ToSet(Unlink(q_sending[p], f)) = ToSet(q_sending[p]) \ {f}
    BY <2>3, <2>7, UnlinkExact
  <2>9. TypeOK'
    BY <2>4, <2>5, <2>8 DEF Kernel, TypeOK
  <2>10. QueueExact'
    <3>1. ASSUME NEW e \in Proc, e # p
          PROVE  q_sending'[e] = q_sending[e] /\ \A y \in Proc : Sends(y, e)' <=> Sends(y, e)
      BY <3>1, <2>2, <2>5, <2>6 DEF Sends, Kernel, TypeOK
    <3>2. q_sending'[p] = Unlink(q_sending[p], f)
      BY <2>5 DEF Kernel, TypeOK
    <3>3. \A y \in Proc : y \in ToSet(q_sending'[p]) <=> Sends(y, p)'
      BY <2>6, <2>8, <3>2 DEF Kernel, QueueExact
    <3>4. QED
      BY <2>8, <3>1, <3>2, <3>3 DEF Kernel, QueueExact, Once
  <2>11. Entries'
    BY <2>2, <2>3, <2>5 DEF Kernel, TypeOK, Entries, Free, SENDING, RECEIVING, FREE_SLOT
  <2>12. Kernel'
    BY <2>4, <2>9, <2>10, <2>11 DEF Kernel
  <2>13. BitsKept
    BY <2>2, <2>5 DEF BitsKept, Waits, Free, Kernel, TypeOK, SENDING, WAITING, FREE_SLOT
  <2>14. \A q \in Proc : q # f => callOf'[q] = callOf[q]
    BY <2>5 DEF callOf, Kernel, TypeOK
  <2>15. callOf'[f] = Unblocked
    BY <2>5 DEF callOf, Unblocked, RV!NoCall, Kernel, TypeOK
  <2>16. mbuf'[p] = mbuf[f] /\ \A q \in Proc : q # p => mbuf'[q] = mbuf[q]
    BY <2>5 DEF Kernel, TypeOK
  <2>17. QED
    BY <2>1, <2>2, <2>12, <2>13, <2>14, <2>15, <2>16
<1>4. CASE RecvBlock(p, src)
  <2>1. \A f \in Proc : callOf[f] = SendTo(p) => src \notin {f, ANY}
    <3>1. SUFFICES ASSUME NEW f \in Proc, callOf[f] = SendTo(p), src \in {f, ANY} PROVE FALSE
      OBVIOUS
    <3>2. \A g \in Proc : ~ Selects(p, src, g)
      BY <1>4 DEF RecvBlock
    <3>3. CASE src = ANY
      <4>1. q_sending[p] # <<>>
        BY <3>1, InQueue DEF ToSet
      <4>2. Head(q_sending[p]) \in Proc
        BY <4>1, InQueue
      <4>3. QED
        BY <3>2, <3>3, <4>1, <4>2 DEF Selects
    <3>4. CASE src # ANY
      BY <3>1, <3>2, <3>4, Calling DEF Selects
    <3>5. QED
      BY <3>3, <3>4
  <2>2. panic' = "none"
    BY <1>1, <1>2, <1>4 DEF RecvBlock, AssertThat
  <2>3. /\ p_flags' = [p_flags EXCEPT ![p] = {RECEIVING}]
        /\ p_recvfrom' = [p_recvfrom EXCEPT ![p] = src]
        /\ p_msg' = [p_msg EXCEPT ![p] = TRUE]
        /\ mbuf' = [mbuf EXCEPT ![p] = Signed(p, NoType)]
        /\ UNCHANGED <<p_sendto, has_int_msg, q_sending>>
    BY <1>2, <1>4 DEF RecvBlock
  <2>4. Signed(p, NoType) \in Message
    BY DEF Signed, Message
  <2>5. \A y \in Proc : \A z : Sends(y, z)' <=> Sends(y, z)
    BY <1>2, <2>3 DEF Sends, Kernel, TypeOK, SENDING, RECEIVING
  <2>6. TypeOK'
    BY <2>2, <2>3, <2>4 DEF Kernel, TypeOK, Flag, RECEIVING
  <2>7. QueueExact'
    BY <2>3, <2>5 DEF Kernel, QueueExact
  <2>8. Entries'
    BY <1>2, <2>3, Folk DEF Kernel, TypeOK, Entries, Free, SENDING, RECEIVING, FREE_SLOT
  <2>9. Kernel'
    BY <2>2, <2>6, <2>7, <2>8 DEF Kernel
  <2>10. BitsKept
    BY <1>2, <2>3 DEF BitsKept, Waits, Free, Kernel, TypeOK, RECEIVING, WAITING, FREE_SLOT
  <2>11. \A q \in Proc : q # p => callOf'[q] = callOf[q] /\ mbuf'[q] = mbuf[q]
    BY <2>3 DEF callOf, Kernel, TypeOK
  <2>12. callOf'[p] = RecvFrom(src)
    BY <2>3 DEF callOf, RecvFrom, RV!RecvFrom, SENDING, RECEIVING, Kernel, TypeOK
  <2>13. QED
    BY <1>2, <2>1, <2>9, <2>10, <2>11, <2>12
<1>5. QED
  BY <1>1, <1>2, <1>3, <1>4 DEF msg_receive, RecvInterrupt

(***************************************************************************)
(* What MM does to entries by itself.                                      *)
(***************************************************************************)
LEMMA KernelStays ==
  ASSUME Kernel, UNCHANGED ipcVars
  PROVE  Kernel' /\ BitsKept /\ callOf' = callOf /\ mbuf' = mbuf
<1> USE DEF ipcVars
<1>1. TypeOK' /\ QueueExact' /\ Entries' /\ panic' = "none"
  BY DEF Kernel, TypeOK, QueueExact, Sends, Entries, Free
<1>2. QED
  BY <1>1 DEF Kernel, BitsKept, Waits, Free, callOf

LEMMA KernelForgets ==
  ASSUME Kernel, NEW p \in Proc, callOf[p] = Unblocked, mbuf' = [mbuf EXCEPT ![p] = Signed(p, NoType)],
         UNCHANGED <<p_flags, p_msg, p_sendto, p_recvfrom, has_int_msg, q_sending, panic>>
  PROVE  /\ Kernel' /\ BitsKept /\ callOf' = callOf
         /\ \A q \in Proc : q # p => mbuf'[q] = mbuf[q]
<1>1. Signed(p, NoType) \in Message
  BY DEF Signed, Message
<1>2. TypeOK'
  BY <1>1 DEF Kernel, TypeOK
<1>3. QueueExact' /\ Entries' /\ panic' = "none"
  BY DEF Kernel, QueueExact, Sends, Entries, Free
<1>4. QED
  BY <1>2, <1>3 DEF Kernel, BitsKept, Waits, Free, callOf, TypeOK

(* A bit set or cleared next to those of the kernel.                       *)
LEMMA KernelBit ==
  ASSUME Kernel, NEW p \in Proc, NEW bits, p_flags' = [p_flags EXCEPT ![p] = bits],
         bits \in {p_flags[p] \cup {WAITING}, p_flags[p] \ {WAITING}},
         ~ Free(p), \A d : callOf[p] # SendTo(d),
         UNCHANGED <<p_msg, p_sendto, p_recvfrom, has_int_msg, q_sending, mbuf, panic>>
  PROVE  /\ Kernel' /\ callOf' = callOf /\ mbuf' = mbuf
         /\ Waits(p)' <=> bits = p_flags[p] \cup {WAITING}
         /\ \A q \in Proc : (Free(q)' <=> Free(q)) /\ (q # p => (Waits(q)' <=> Waits(q)))
<1>1. p_flags[p] \in {{}, {RECEIVING}, {WAITING}, {RECEIVING, WAITING}}
  <2>1. SENDING \notin p_flags[p]
    BY Calling DEF Sends
  <2>2. p_flags[p] \in {{}, {SENDING}, {RECEIVING}, {WAITING}, {RECEIVING, WAITING}, {FREE_SLOT}}
    BY DEF Kernel, Entries
  <2>3. QED
    BY <2>1, <2>2 DEF Free
<1>2. /\ bits \in {{}, {RECEIVING}, {WAITING}, {RECEIVING, WAITING}}
      /\ (RECEIVING \in bits <=> RECEIVING \in p_flags[p])
      /\ WAITING \in bits <=> bits = p_flags[p] \cup {WAITING}
  BY <1>1 DEF RECEIVING, WAITING
<1>3. p_flags'[p] = bits /\ \A q \in Proc : q # p => p_flags'[q] = p_flags[q]
  BY DEF Kernel, TypeOK
<1>4. \A q \in Proc : SENDING \in p_flags'[q] <=> SENDING \in p_flags[q]
  BY <1>1, <1>2, <1>3 DEF SENDING, RECEIVING, WAITING
<1>5. \A q \in Proc : RECEIVING \in p_flags'[q] <=> RECEIVING \in p_flags[q]
  BY <1>2, <1>3
<1>6. \A q \in Proc : FREE_SLOT \in p_flags'[q] <=> FREE_SLOT \in p_flags[q]
  BY <1>1, <1>2, <1>3 DEF FREE_SLOT, RECEIVING, WAITING
<1>7. bits \in SUBSET Flag
  BY <1>2 DEF Flag
<1>8. TypeOK'
  BY <1>7 DEF Kernel, TypeOK
<1>9. QueueExact'
  BY <1>4 DEF Kernel, QueueExact, Sends
<1>10. Entries'
  <2>1. ASSUME NEW q \in Proc
        PROVE  p_flags'[q] \in {{}, {SENDING}, {RECEIVING}, {WAITING}, {RECEIVING, WAITING}, {FREE_SLOT}}
    BY <1>2, <1>3 DEF Kernel, Entries
  <2>2. ASSUME NEW q \in Proc
        PROVE  p_flags'[q] \cap {SENDING, RECEIVING} # {} <=> p_flags[q] \cap {SENDING, RECEIVING} # {}
    BY <1>4, <1>5
  <2>3. QED
    BY <1>4, <1>5, <1>6, <2>1, <2>2 DEF Kernel, Entries, Free
<1>11. callOf' = callOf
  BY <1>4, <1>5 DEF callOf
<1>12. QED
  BY <1>2, <1>3, <1>6, <1>8, <1>9, <1>10, <1>11 DEF Kernel, Waits, Free

LEMMA KernelFrees ==
  ASSUME Kernel, NEW p \in Proc, FreeEntry(p), \A d : callOf[p] # SendTo(d)
  PROVE  /\ Kernel' /\ mbuf' = mbuf /\ Free(p)' /\ ~ Waits(p)' /\ callOf'[p] = Unblocked
         /\ \A q \in Proc : q # p => /\ callOf'[q] = callOf[q]
                                     /\ Free(q)' <=> Free(q)
                                     /\ Waits(q)' <=> Waits(q)
<1> USE DEF FreeEntry
<1>1. p_flags'[p] = {FREE_SLOT} /\ \A q \in Proc : q # p => p_flags'[q] = p_flags[q]
  BY DEF Kernel, TypeOK
<1>2. SENDING \notin p_flags[p]
  BY Calling DEF Sends
<1>3. \A q \in Proc : SENDING \in p_flags'[q] <=> SENDING \in p_flags[q]
  BY <1>1, <1>2 DEF SENDING, FREE_SLOT
<1>4. TypeOK'
  BY DEF Kernel, TypeOK, Flag
<1>5. QueueExact'
  BY <1>3 DEF Kernel, QueueExact, Sends
<1>6. Entries'
  BY <1>1 DEF Kernel, Entries, Free
<1>7. callOf'[p] = Unblocked
  BY <1>1 DEF callOf, Unblocked, RV!NoCall, SENDING, RECEIVING, FREE_SLOT
<1>8. \A q \in Proc : q # p => callOf'[q] = callOf[q]
  BY <1>1 DEF callOf
<1>9. QED
  BY <1>1, <1>4, <1>5, <1>6, <1>7, <1>8 DEF Kernel, Free, Waits, FREE_SLOT, WAITING

(* An entry that becomes a copy of one that nobody sends to.               *)
LEMMA KernelCopies ==
  ASSUME Kernel, NEW s \in Proc, NEW kid \in Proc, Free(kid), ~ Free(s), ~ Waits(s),
         \A d : callOf[s] # SendTo(d),
         \A x \in Proc : callOf[x] # SendTo(s) /\ callOf[x] # SendTo(kid),
         p_flags' = [p_flags EXCEPT ![kid] = p_flags[s]],
         p_msg' = [p_msg EXCEPT ![kid] = p_msg[s]],
         p_sendto' = [p_sendto EXCEPT ![kid] = p_sendto[s]],
         p_recvfrom' = [p_recvfrom EXCEPT ![kid] = p_recvfrom[s]],
         has_int_msg' = [has_int_msg EXCEPT ![kid] = has_int_msg[s]],
         q_sending' = [q_sending EXCEPT ![kid] = q_sending[s]],
         mbuf' = [mbuf EXCEPT ![kid] = mbuf[s]], panic' = panic
  PROVE  /\ Kernel' /\ s # kid
         /\ ~ Free(kid)' /\ ~ Waits(kid)' /\ callOf'[kid] = callOf[s] /\ mbuf'[kid] = mbuf[s]
         /\ \A q \in Proc : q # kid => /\ callOf'[q] = callOf[q] /\ mbuf'[q] = mbuf[q]
                                       /\ Free(q)' <=> Free(q)
                                       /\ Waits(q)' <=> Waits(q)
<1>1. s # kid
  OBVIOUS
<1>2. q_sending[s] = <<>> /\ q_sending[kid] = <<>>
  BY InQueue
<1>3. q_sending' = q_sending
  BY <1>2 DEF Kernel, TypeOK
<1>4. p_flags[s] \in {{}, {RECEIVING}}
  <2>1. SENDING \notin p_flags[s]
    BY Calling DEF Sends
  <2>2. QED
    BY <2>1, BitsOf
<1>5. p_flags'[kid] = p_flags[s] /\ \A q \in Proc : q # kid => p_flags'[q] = p_flags[q]
  BY DEF Kernel, TypeOK
<1>6. p_flags[kid] = {FREE_SLOT}
  BY BitsOf
<1>7. \A q \in Proc : SENDING \in p_flags'[q] <=> SENDING \in p_flags[q]
  BY <1>4, <1>5, <1>6 DEF SENDING, RECEIVING, FREE_SLOT
<1>8. TypeOK'
  BY <1>3 DEF Kernel, TypeOK
<1>9. QueueExact'
  <2>1. \A y, z \in Proc : Sends(y, z)' <=> Sends(y, z)
    BY <1>4, <1>5, <1>6, <1>7 DEF Sends, Kernel, TypeOK, SENDING, RECEIVING, FREE_SLOT
  <2>2. QED
    BY <1>3, <2>1 DEF Kernel, QueueExact
<1>10. Entries'
  <2>1. \A q \in Proc : q # kid => /\ p_flags'[q] = p_flags[q] /\ p_msg'[q] = p_msg[q]
                                   /\ p_sendto'[q] = p_sendto[q] /\ p_recvfrom'[q] = p_recvfrom[q]
                                   /\ has_int_msg'[q] = has_int_msg[q]
    BY DEF Kernel, TypeOK
  <2>2. /\ p_flags'[kid] = p_flags[s] /\ p_msg'[kid] = p_msg[s]
        /\ p_sendto'[kid] = p_sendto[s] /\ p_recvfrom'[kid] = p_recvfrom[s]
        /\ has_int_msg'[kid] = has_int_msg[s]
    BY DEF Kernel, TypeOK
  <2>3. QED
    BY <2>1, <2>2 DEF Kernel, Entries, Free
<1>11. callOf'[kid] = callOf[s] /\ \A q \in Proc : q # kid => callOf'[q] = callOf[q]
  BY <1>5 DEF callOf, Kernel, TypeOK
<1>12. mbuf'[kid] = mbuf[s] /\ \A q \in Proc : q # kid => mbuf'[q] = mbuf[q]
  BY DEF Kernel, TypeOK
<1>13. QED
  BY <1>1, <1>5, <1>8, <1>9, <1>10, <1>11, <1>12 DEF Kernel, Free, Waits

-----------------------------------------------------------------------------
(* What the invariant says of who sends and who is served.                 *)
LEMMA Words ==
  /\ \A p : Unblocked # SendTo(p) /\ Unblocked # RecvFrom(p)
  /\ \A p, q : SendTo(p) # RecvFrom(q)
  /\ \A p, q : SendTo(p) = SendTo(q) => p = q
  /\ \A p, q : RecvFrom(p) = RecvFrom(q) => p = q
  /\ SendTo(FS) # SendTo(MM) /\ RecvFrom(FS) # RecvFrom(MM)
  /\ \A p \in Proc : RecvFrom(p) # RecvFrom(ANY)
<1>1. \A s, r : RecvFrom(s) = RecvFrom(r) => s = r
  BY CallsDiffer
<1>2. \A s, r : SendTo(s) = SendTo(r) => s = r
  BY CallsDiffer
<1>3. \A p : Unblocked # SendTo(p) /\ Unblocked # RecvFrom(p)
  BY CallsDiffer
<1>4. \A p, q : SendTo(p) # RecvFrom(q)
  BY CallsDiffer
<1>5. QED
  BY <1>1, <1>2, <1>3, <1>4, Folk

LEMMA SignedWords ==
  \A p, t : Signed(p, t).source = p /\ Signed(p, t).type = t
BY DEF Signed

(* The place of the invariant's types.                                     *)
LEMMA Types ==
  ASSUME LifeInv
  PROVE  /\ \A p \in User : /\ stage[p] \in {"idle", "called", "waiting"}
                            /\ request[p] \in CallType \cup {"none"}
                            /\ p_parent[p] \in User \cup {NO_TASK}
         /\ DOMAIN stage = User /\ DOMAIN request = User /\ DOMAIN p_parent = User
         /\ mm_src \in User /\ mm_who \in User /\ mm_src \in Proc /\ mm_who \in Proc
         /\ mm_src # FS /\ mm_src # MM
BY Folk DEF LifeInv, LifeTypeOK

(* A user whose call is taken waits for the answer and sends nothing.      *)
LEMMA TakenIs ==
  ASSUME LifeInv, NEW p \in User, NEW s, Taken(p, s)
  PROVE  /\ stage[p] # "idle" /\ request[p] \in CallType
         /\ s \in {FS, MM} /\ ServerOf(request[p]) = s
         /\ callOf[p] \in {Unblocked, RecvFrom(s)} /\ \A d : callOf[p] # SendTo(d)
         /\ ~ Free(p) /\ ~ Waits(p)
BY Types, Words, Folk DEF Taken, LifeInv, UsersFit, Serv

(* FS serves at most one caller, and MM only while it waits for that.      *)
LEMMA FsIs ==
  ASSUME LifeInv
  PROVE  /\ callOf[FS] = Unblocked \/ callOf[FS] = RecvFrom(ANY) \/ \E c \in User \cup {MM} : callOf[FS] = SendTo(c)
         /\ \A c : callOf[FS] = SendTo(c) => c \in User \cup {MM} /\ FsOwes(c) /\ FsAnswers(c)
         /\ fs_pc = "reply" /\ callOf[FS] = Unblocked =>
              mbuf[FS].source \in User \cup {MM} /\ FsOwes(mbuf[FS].source)
         /\ fs_pc = "receive" => callOf[FS] # RecvFrom(ANY)
         /\ ~ Waits(FS) /\ ~ Free(FS) /\ ~ Waits(MM) /\ ~ Free(MM)
<1>1. ~ Waits(FS) /\ ~ Free(FS) /\ ~ Waits(MM) /\ ~ Free(MM)
  BY Folk DEF LifeInv, UsersFit
<1>2. FsFits
  BY DEF LifeInv
<1>3. CASE FsIdle
  BY <1>1, <1>3, Words DEF FsIdle
<1>4. ASSUME NEW c \in User \cup {MM}, FsOwes(c), FsHolds(c) \/ FsAnswers(c)
      PROVE  /\ callOf[FS] = Unblocked \/ callOf[FS] = RecvFrom(ANY) \/ \E x \in User \cup {MM} : callOf[FS] = SendTo(x)
             /\ \A x : callOf[FS] = SendTo(x) => x \in User \cup {MM} /\ FsOwes(x) /\ FsAnswers(x)
             /\ fs_pc = "reply" /\ callOf[FS] = Unblocked =>
                  mbuf[FS].source \in User \cup {MM} /\ FsOwes(mbuf[FS].source)
             /\ fs_pc = "receive" => callOf[FS] # RecvFrom(ANY)
  BY <1>4, Words DEF FsHolds, FsAnswers
<1>5. QED
  BY <1>1, <1>2, <1>3, <1>4 DEF FsFits

(* Whoever waits to send is a user with its request, or a server with its  *)
(* answer for one that waits for it, or MM with a request to FS.           *)
LEMMA Senders ==
  ASSUME LifeInv, NEW p \in Proc, NEW d, callOf[p] = SendTo(d)
  PROVE  /\ ~ Free(p) /\ ~ Waits(p) /\ d \in Proc /\ ~ Free(d)
         /\ p \in User => d = Serv(p) /\ d \in {FS, MM} /\ stage[p] = "called" /\ mbuf[p] = Signed(p, request[p])
         /\ p = FS => d \in User \cup {MM} /\ FsOwes(d) /\ FsAnswers(d) /\ callOf[d] = Unblocked
         /\ p = MM => \/ d = FS /\ mm_pc \in Asking
                      \/ /\ d \in User /\ Taken(d, MM) /\ MmAnswers(d)
                         /\ mm_pc \in {"receive", "buddy_await", "cleanup_free", "reply"}
                         /\ mm_pc \in {"cleanup_free", "reply"} => d # mm_src
<1>1. ~ Free(p) /\ ~ Waits(p)
  BY BitsOf, Words DEF LifeInv
<1>2. CASE p \in User
  <2>1. UserIs(p) /\ stage[p] \in {"idle", "called", "waiting"}
    BY <1>1, <1>2, Types DEF LifeInv, UsersFit
  <2>2. callOf[p] = SendTo(Serv(p)) /\ stage[p] = "called" /\ mbuf[p] = Signed(p, request[p])
    BY <2>1, Words DEF UserIs
  <2>3. d = Serv(p) /\ d \in {FS, MM}
    BY <2>2, Words, Folk DEF Serv
  <2>4. ~ Free(d) /\ d \in Proc
    BY <2>3, FsIs, Folk
  <2>5. QED
    BY <1>1, <1>2, <2>2, <2>3, <2>4, Folk
<1>3. CASE p = FS
  <2>1. d \in User \cup {MM} /\ FsOwes(d) /\ FsAnswers(d)
    BY <1>3, FsIs
  <2>2. ~ Free(d)
    BY <2>1, FsIs DEF FsOwes, Taken
  <2>3. QED
    BY <1>1, <1>3, <2>1, <2>2, Folk DEF FsAnswers
<1>4. CASE p = MM
  <2>1. MmCall /\ Accounted
    BY DEF LifeInv
  <2>2. CASE d = FS /\ mm_pc \in Asking
    BY <1>1, <1>4, <2>2, FsIs, Folk
  <2>3. CASE ~ (d = FS /\ mm_pc \in Asking)
    <3>1. PICK c \in User : /\ MmAnswers(c)
                            /\ \/ mm_pc \in {"receive", "buddy_await"}
                               \/ mm_pc \in {"cleanup_free", "reply"} /\ c # mm_src
      BY <1>4, <2>1, <2>3, Words DEF MmCall
    <3>2. d = c /\ Taken(c, MM)
      BY <1>4, <2>1, <3>1, Words DEF MmAnswers, Accounted, MmServes
    <3>3. QED
      BY <1>1, <1>4, <3>1, <3>2, Folk DEF Taken
  <2>4. QED
    BY <2>2, <2>3
<1>5. QED
  BY <1>2, <1>3, <1>4, Folk

(* The sends that cannot close a circle.                                   *)
LEMMA Circleless ==
  ASSUME Kernel, NEW p \in Proc, NEW d \in Proc,
         \/ \A y \in Proc : callOf[y] # SendTo(p)
         \/ \A w \in Proc : callOf[d] = SendTo(w) => w # p /\ \A x \in Proc : callOf[w] # SendTo(x)
  PROVE  ~ deadlock(p, d)
<1>1. \A x, y \in Proc : callOf[x] = SendTo(y) <=> Sends(x, y)
  BY Calling
<1>2. CASE \A y \in Proc : callOf[y] # SendTo(p)
  BY <1>1, <1>2 DEF deadlock, SendChain
<1>3. CASE \A w \in Proc : callOf[d] = SendTo(w) => w # p /\ \A x \in Proc : callOf[w] # SendTo(x)
  BY <1>1, <1>3, NoDeadlock
<1>4. QED
  BY <1>2, <1>3

-----------------------------------------------------------------------------
(* What a step leaves as it was.                                           *)
Same(p) ==
  /\ stage'[p] = stage[p] /\ request'[p] = request[p]
  /\ callOf'[p] = callOf[p] /\ mbuf'[p] = mbuf[p]
  /\ (Waits(p)' <=> Waits(p)) /\ (Free(p)' <=> Free(p))

(* One process, as UsersFit has it.                                        *)
Fits(p) ==
  /\ Waits(p) => request[p] = "WAIT"
  /\ Free(p) => p \in Slot
  /\ ~ Free(p) => UserIs(p)
  /\ request[p] = "EXIT" => p # INIT_PID
  /\ request[p] = "none" => stage[p] = "idle"

LEMMA UserKept ==
  ASSUME NEW p \in User, Same(p)
  PROVE  /\ UserIs(p)' <=> UserIs(p)
         /\ \A s \in {FS, MM} : Taken(p, s)' <=> Taken(p, s)
<1>1. Serv(p)' = Serv(p)
  BY DEF Same, Serv, ServerOf
<1>2. UserIs(p)' <=> UserIs(p)
  BY <1>1 DEF Same, UserIs, Unblocked, SendTo, RecvFrom, RV!NoCall, RV!SendTo, RV!RecvFrom, Signed, Answer
<1>3. \A s \in {FS, MM} : Taken(p, s)' <=> Taken(p, s)
  BY <1>1 DEF Same, Taken, Unblocked, RecvFrom, RV!NoCall, RV!RecvFrom
<1>4. QED
  BY <1>2, <1>3

LEMMA UsersKept ==
  ASSUME LifeInv, NEW S \in SUBSET User, \A q \in User \ S : Same(q), \A q \in S : Fits(q)',
         \A q \in {FS, MM} : ~ Waits(q)' /\ ~ Free(q)'
  PROVE  UsersFit'
<1>1. UsersFit
  BY DEF LifeInv
<1>2. \A q \in User \ S : Fits(q)'
  <2>1. SUFFICES ASSUME NEW q \in User \ S PROVE Fits(q)'
    OBVIOUS
  <2>2. Fits(q) /\ Same(q)
    BY <1>1, Folk DEF UsersFit, Fits
  <2>3. UserIs(q)' <=> UserIs(q)
    BY <2>2, UserKept
  <2>4. QED
    BY <2>2, <2>3 DEF Fits, Same
<1>3. \A q \in User : Fits(q)'
  BY <1>2
<1>4. QED
  BY <1>3, Folk DEF UsersFit, Fits

LEMMA AllUsersKept ==
  ASSUME LifeInv, \A q \in User : Same(q), \A q \in {FS, MM} : ~ Waits(q)' /\ ~ Free(q)'
  PROVE  UsersFit' /\ \A q \in User : \A s \in {FS, MM} : Taken(q, s)' <=> Taken(q, s)
<1> DEFINE None == {}
<1>1. None \in SUBSET User /\ (\A q \in User \ None : Same(q)) /\ \A q \in None : Fits(q)'
  OBVIOUS
<1>2. UsersFit'
  BY <1>1, UsersKept
<1>3. QED
  BY <1>2, UserKept

LEMMA FsKept ==
  ASSUME LifeInv, fs_pc' = fs_pc, callOf'[FS] = callOf[FS], mbuf'[FS] = mbuf[FS],
         \A c \in User \cup {MM} : FsOwes(c) => /\ FsOwes(c)'
                                               /\ (callOf[FS] = SendTo(c) => callOf'[c] = Unblocked)
  PROVE  FsFits'
<1> USE DEF Unblocked, SendTo, RecvFrom, RV!NoCall, RV!SendTo, RV!RecvFrom, Signed, Answer
<1>1. CASE FsIdle
  BY <1>1 DEF FsIdle, FsFits
<1>2. ASSUME NEW c \in User \cup {MM}, FsOwes(c), FsHolds(c) \/ FsAnswers(c)
      PROVE  FsFits'
  <2>1. FsOwes(c)' /\ (callOf[FS] = SendTo(c) => callOf'[c] = Unblocked)
    BY <1>2
  <2>2. FsHolds(c)' \/ FsAnswers(c)'
    BY <1>2, <2>1 DEF FsHolds, FsAnswers
  <2>3. QED
    BY <2>1, <2>2 DEF FsFits
<1>3. QED
  BY <1>1, <1>2 DEF LifeInv, FsFits

(* What MM knows of who dies, while it is at it.                           *)
LEMMA BurialKept ==
  ASSUME LifeInv, mm_pc \in ExitPcs, UNCHANGED <<mm_src, mm_type, mm_who>>,
         request'[mm_src] = request[mm_src], \A q \in User : Free(q)' <=> Free(q)
  PROVE  Buries(mm_who)' /\ Serving(mm_type)' /\ ~ Free(mm_who)'
<1>1. Buries(mm_who) /\ Serving(mm_type) /\ ~ Free(mm_who) /\ mm_who \in User
  BY Types DEF LifeInv, MmRole
<1>2. ~ Free(mm_who)'
  BY <1>1 DEF Free
<1>3. QED
  BY <1>1, <1>2 DEF Buries, Serving

(* MM at its place while somebody else moves.                              *)
LEMMA ServingIsTaken ==
  ASSUME LifeInv
  PROVE  /\ mm_pc \in ForkPcs \cup ExitPcs \cup {"fork_regs", "fork_copy", "wait", "wait_store", "wait_none"} => Taken(mm_src, MM)
         /\ mm_pc \in ForkPcs => Taken(mm_who, MM)
         /\ mm_pc = "cleanup_send" => Taken(p_parent[mm_who], MM)
         /\ callOf[MM] = Unblocked =>
              /\ mm_pc \in {"reply", "buddy_send", "exec_fs", "exec_next", "exec_load"} => Taken(mm_src, MM)
              /\ mm_pc = "dispatch" =>
                    mbuf[MM].source \in User /\ Taken(mbuf[MM].source, MM)
<1>1. MmCall /\ MmRole /\ Accounted /\ mm_src \in User /\ mm_who \in User
  BY Types DEF LifeInv
<1>2. mm_pc \in ForkPcs \cup ExitPcs \cup {"fork_regs", "fork_copy", "wait", "wait_store", "wait_none"}
        => callOf[MM] # RecvFrom(mm_src) /\ mm_pc \notin {"receive", "dispatch", "adopt", "buddy_await"}
  <2>1. CASE mm_pc = "receive" \/ mm_pc = "dispatch"
    BY <2>1 DEF ForkPcs, ExitPcs
  <2>2. CASE mm_pc \notin {"receive", "dispatch"}
    <3>1. RecvFrom(mm_src) # RecvFrom(ANY) /\ RecvFrom(mm_src) # RecvFrom(FS) /\ RecvFrom(mm_src) # Unblocked
      BY Words, Types, Folk
    <3>2. \A c : RecvFrom(mm_src) # SendTo(c)
      BY Words
    <3>3. callOf[MM] = RecvFrom(mm_src) => mm_pc \in {"buddy_send", "reply"}
      BY <1>1, <3>1, <3>2 DEF MmCall, MmAnswers
    <3>4. QED
      BY <3>3 DEF ForkPcs, ExitPcs
  <2>3. QED
    BY <2>1, <2>2
<1>3. mm_pc = "cleanup_send" => p_parent[mm_who] \in User
  BY <1>1 DEF MmRole
<1>4. callOf[MM] = Unblocked => callOf[MM] # RecvFrom(mm_src)
  BY Words
<1>5. callOf[MM] = Unblocked /\ mm_pc = "dispatch" => mbuf[MM].source \in User
  BY <1>1, SignedWords DEF MmRole
<1>6. \A p \in User : MmServes(p) => Taken(p, MM)
  BY <1>1 DEF Accounted
<1>7. mm_pc \in ForkPcs \cup ExitPcs \cup {"fork_regs", "fork_copy", "wait", "wait_store", "wait_none"} => MmServes(mm_src)
  BY <1>2 DEF MmServes
<1>8. (mm_pc \in ForkPcs => MmServes(mm_who)) /\ (mm_pc = "cleanup_send" => MmServes(p_parent[mm_who]))
  BY DEF MmServes
<1>9. callOf[MM] = Unblocked =>
              /\ mm_pc \in {"reply", "buddy_send", "exec_fs", "exec_next", "exec_load"} => MmServes(mm_src)
              /\ mm_pc = "dispatch" => MmServes(mbuf[MM].source)
  BY <1>4 DEF MmServes
<1>10. QED
  BY <1>1, <1>3, <1>5, <1>6, <1>7, <1>8, <1>9

LEMMA MmKept ==
  ASSUME LifeInv, Kernel', UNCHANGED <<mmVars, p_parent>>, callOf'[MM] = callOf[MM], mbuf'[MM] = mbuf[MM],
         \A q \in User : Free(q)' <=> Free(q),
         \A c \in User : /\ Taken(c, MM) => request'[c] = request[c]
                         /\ callOf[MM] = SendTo(c) => callOf'[c] = Unblocked
  PROVE  MmCall' /\ MmRole' /\ \A p \in User : MmServes(p)' <=> MmServes(p)
<1> USE DEF Unblocked, SendTo, RecvFrom, RV!NoCall, RV!SendTo, RV!RecvFrom, mmVars
<1>1. MmCall /\ MmRole /\ mm_src \in User /\ mm_who \in User
  BY Types DEF LifeInv
<1>2. MmCall'
  BY <1>1 DEF MmCall, MmAnswers, Asking, Asked, Signed, Answer
<1>3. \A p \in User : MmServes(p)' <=> MmServes(p)
  BY DEF MmServes, ForkPcs
<1>4. FreeSlots' = FreeSlots
  <2>1. \A s \in Slot : p_flags[s] = {FREE_SLOT} <=> Free(s)
    BY BitsOf, Folk DEF LifeInv
  <2>2. \A s \in Slot : p_flags'[s] = {FREE_SLOT} <=> Free(s)'
    <3>1. ASSUME NEW s \in Slot PROVE p_flags'[s] = {FREE_SLOT} <=> Free(s)'
      <4>1. s \in Proc /\ Entries'
        BY Folk DEF Kernel
      <4>2. p_flags'[s] \in {{}, {SENDING}, {RECEIVING}, {WAITING}, {RECEIVING, WAITING}, {FREE_SLOT}}
        BY <4>1 DEF Entries
      <4>3. QED
        BY <4>2 DEF Free, SENDING, RECEIVING, WAITING, FREE_SLOT
    <3>2. QED
      BY <3>1
  <2>3. QED
    BY <2>1, <2>2, Folk DEF FreeSlots
<1>5. \A t : mm_pc \in ForkPcs \cup ExitPcs \cup {"fork_regs", "fork_copy", "wait", "wait_store"} =>
        (Serving(t)' <=> Serving(t))
  BY <1>1, ServingIsTaken DEF Serving
<1>6. mm_pc = "cleanup_send" /\ p_parent[mm_who] \in User =>
        request'[p_parent[mm_who]] = request[p_parent[mm_who]]
  BY ServingIsTaken
<1>7. mm_pc = "dispatch" /\ callOf[MM] = Unblocked =>
        \E c \in User : mbuf'[MM] = Signed(c, request'[c])
  <2>1. SUFFICES ASSUME mm_pc = "dispatch", callOf[MM] = Unblocked
                 PROVE  \E c \in User : mbuf'[MM] = Signed(c, request'[c])
    OBVIOUS
  <2>2. PICK c \in User : mbuf[MM] = Signed(c, request[c])
    BY <1>1, <2>1 DEF MmRole
  <2>3. Taken(c, MM)
    BY <2>1, <2>2, ServingIsTaken, SignedWords
  <2>4. QED
    BY <2>2, <2>3
<1>8. MmRole'
  <2>1. mm_pc' = mm_pc /\ mm_src' = mm_src /\ mm_type' = mm_type /\ mm_who' = mm_who /\ p_parent' = p_parent
    OBVIOUS
  <2>2. mm_pc = "adopt" => (Free(mm_who)' <=> Free(mm_who))
    BY <1>1
  <2>3. /\ mm_pc \in ForkPcs \cup {"fork_regs", "fork_copy"} => Serving("FORK")'
        /\ mm_pc \in ExitPcs => Serving(mm_type)' /\ ~ Free(mm_who)'
        /\ mm_pc \in {"wait", "wait_store"} => Serving("WAIT")'
    BY <1>1, <1>5 DEF MmRole
  <2>4. QED
    BY <1>1, <1>4, <1>6, <1>7, <2>1, <2>2, <2>3 DEF MmRole, Signed, Buries
<1>9. QED
  BY <1>2, <1>3, <1>8

LEMMA TreeKept ==
  ASSUME LifeInv, p_parent' = p_parent, \A q \in User : Free(q)' <=> Free(q),
         mm_pc = "adopt" => mm_pc' = "adopt" /\ mm_who' = mm_who
  PROVE  Tree'
<1>1. Tree
  BY DEF LifeInv
<1>2. {s \in Slot : ~ Free(s)}' = {s \in Slot : ~ Free(s)}
  BY Folk
<1>3. \A y : Up(y) => Up(y)'
  BY DEF Up
<1>4. QED
  BY <1>1, <1>2, <1>3 DEF Tree

-----------------------------------------------------------------------------
(* The user processes.                                                     *)
LEMMA UserSendKeeps ==
  ASSUME LifeInv, InitStays, NEW p \in User, UserSend(p)
  PROVE  LifeInv'
<1>1. PICK t \in IF still[p] = <<>> THEN Calls[p] ELSE {Head(still[p])} :
        /\ msg_send(p, ServerOf(t), t)
        /\ request' = [request EXCEPT ![p] = t]
        /\ still' = [still EXCEPT ![p] = IF @ # <<>> THEN Tail(@)
                                         ELSE IF t = "BUDDY" THEN Rounds ELSE <<>>]
  BY DEF UserSend
<1> DEFINE d == ServerOf(t)
<1>2. /\ stage[p] = "idle" /\ stage' = [stage EXCEPT ![p] = "called"]
      /\ UNCHANGED <<p_parent, mmVars, fs_pc>>
  BY DEF UserSend
<1>3. /\ t \in CallType /\ t \in Type /\ (t = "EXIT" => p # INIT_PID)
      /\ still'[p] \in Seq({"OPEN", "BUDDY"})
  <2>1. still[p] \in Seq({"OPEN", "BUDDY"}) /\ DOMAIN still = User
    BY DEF LifeInv, LifeTypeOK
  <2>2. CASE still[p] # <<>>
    <3>1. t \in {"OPEN", "BUDDY"} /\ Tail(still[p]) \in Seq({"OPEN", "BUDDY"})
      BY <1>1, <2>1, <2>2
    <3>2. QED
      BY <1>1, <2>1, <2>2, <3>1, Folk DEF CallType
  <2>3. CASE still[p] = <<>>
    <3>1. t \in Calls[p]
      BY <1>1, <2>3
    <3>2. t \in CallType /\ (t = "EXIT" => p # INIT_PID)
      BY <3>1, LifeAssumption DEF InitStays
    <3>3. Rounds \in Seq({"OPEN", "BUDDY"}) /\ <<>> \in Seq({"OPEN", "BUDDY"})
      <4>1. BuddyRounds \in Nat
        BY LifeAssumption
      <4>2. QED
        BY <4>1 DEF Rounds
    <3>4. QED
      BY <1>1, <2>1, <2>3, <3>2, <3>3, Folk
  <2>4. QED
    BY <2>2, <2>3
<1>4. /\ d \in {FS, MM} /\ d \in Proc /\ p \in Proc /\ p # FS /\ p # MM /\ FS # MM
      /\ ~ Waits(d) /\ ~ Free(d) /\ Kernel
  BY FsIs, Folk DEF LifeInv
<1>5. \A s : ~ Taken(p, s)
  BY <1>2 DEF Taken
<1>6. \A y \in Proc : callOf[y] # SendTo(p)
  BY <1>4, <1>5, Senders, Folk DEF FsOwes
<1>7. ~ deadlock(p, d)
  BY <1>4, <1>6, Circleless
<1>8. /\ Kernel' /\ BitsKept
      /\ callOf[p] = Unblocked /\ ~ Waits(p) /\ ~ Free(p)
      /\ \A q \in Proc : q # p /\ q # d => callOf'[q] = callOf[q] /\ mbuf'[q] = mbuf[q]
      /\ \/ /\ callOf[d] \in {RecvFrom(p), RecvFrom(ANY)}
            /\ callOf'[d] = Unblocked /\ mbuf'[d] = Signed(p, t)
            /\ callOf'[p] = Unblocked
         \/ /\ callOf[d] \notin {RecvFrom(p), RecvFrom(ANY)}
            /\ callOf'[p] = SendTo(d) /\ mbuf'[p] = Signed(p, t)
            /\ callOf'[d] = callOf[d] /\ mbuf'[d] = mbuf[d]
  BY <1>1, <1>3, <1>4, <1>7, KernelSends
<1>9. /\ stage'[p] = "called" /\ request'[p] = t /\ Serv(p)' = d
      /\ \A q \in User : q # p => stage'[q] = stage[q] /\ request'[q] = request[q]
  BY <1>1, <1>2, Types DEF Serv
<1>10. \A q \in User \ {p} : Same(q)
  BY <1>4, <1>8, <1>9, Folk DEF Same, BitsKept
<1>11. \A q \in User : Free(q)' <=> Free(q)
  BY <1>8, Folk DEF BitsKept
<1>12. ~ Waits(p)' /\ ~ Free(p)' /\ \A q \in {FS, MM} : ~ Waits(q)' /\ ~ Free(q)'
  BY <1>4, <1>8, FsIs, Folk DEF BitsKept
<1>13. UserIs(p)'
  BY <1>8, <1>9, Words DEF UserIs, Unblocked, SendTo, RV!NoCall, RV!SendTo, Signed
<1>14. UsersFit'
  <2>1. Fits(p)'
    BY <1>3, <1>9, <1>12, <1>13 DEF Fits, CallType
  <2>2. {p} \in SUBSET User /\ \A q \in {p} : Fits(q)'
    BY <2>1
  <2>3. QED
    BY <1>10, <1>12, <2>2, UsersKept
<1>15. Tree' /\ LifeTypeOK'
  <2>1. Tree'
    BY <1>2, <1>11, TreeKept DEF mmVars
  <2>2. still' \in [User -> Seq({"OPEN", "BUDDY"})]
    BY <1>1, <1>3 DEF LifeInv, LifeTypeOK
  <2>3. QED
    BY <1>1, <1>2, <1>3, <1>8, <2>1, <2>2 DEF LifeInv, Kernel, LifeTypeOK, mmVars
<1>16. \A q \in User \ {p} : \A s \in {FS, MM} : Taken(q, s)' <=> Taken(q, s)
  BY <1>10, UserKept
<1>17. \A s \in {FS, MM} : Taken(p, s)' <=> s = d /\ callOf'[p] = Unblocked
  BY <1>9, <1>12 DEF Taken, Unblocked, RV!NoCall
<1> HIDE DEF d
<1>18. CASE d = FS
  <2>1. callOf'[MM] = callOf[MM] /\ mbuf'[MM] = mbuf[MM]
    BY <1>4, <1>8, <1>18, Folk
  <2>2. \A c \in User : /\ Taken(c, MM) => request'[c] = request[c]
                        /\ callOf[MM] = SendTo(c) => callOf'[c] = Unblocked
    BY <1>4, <1>5, <1>6, <1>8, <1>9, <1>18, Senders, Folk DEF MmAnswers
  <2>3. MmCall' /\ MmRole' /\ \A q \in User : MmServes(q)' <=> MmServes(q)
    BY <1>2, <1>8, <1>11, <2>1, <2>2, MmKept
  <2>4. \A q \in User : Taken(q, MM)' <=> Taken(q, MM)
    BY <1>4, <1>5, <1>16, <1>17, <1>18
  <2>5. Accounted'
    BY <2>3, <2>4 DEF LifeInv, Accounted
  <2>6. MmTaken' <=> MmTaken
    BY <1>2, <2>1 DEF MmTaken, mmVars, Unblocked, RecvFrom, RV!NoCall, RV!RecvFrom, Asking, Asked
  <2>7. FsFits'
    <3>1. CASE callOf[FS] \in {RecvFrom(p), RecvFrom(ANY)}
      <4>1. callOf'[FS] = Unblocked /\ mbuf'[FS] = Signed(p, t) /\ callOf'[p] = Unblocked
        BY <1>8, <1>18, <3>1
      <4>2. fs_pc = "reply"
        BY <1>4, <3>1, FsIs, Words DEF LifeInv, LifeTypeOK
      <4>3. FsHolds(p)' /\ FsOwes(p)'
        BY <1>2, <1>4, <1>17, <1>18, <4>1, <4>2 DEF FsHolds, FsOwes, Signed, Unblocked, RV!NoCall
      <4>4. QED
        BY <4>3 DEF FsFits
    <3>2. CASE callOf[FS] \notin {RecvFrom(p), RecvFrom(ANY)}
      <4>1. callOf'[FS] = callOf[FS] /\ mbuf'[FS] = mbuf[FS]
        BY <1>8, <1>18, <3>2
      <4>2. ASSUME NEW c \in User \cup {MM}, FsOwes(c)
            PROVE  FsOwes(c)' /\ (callOf[FS] = SendTo(c) => callOf'[c] = Unblocked)
        <5>1. c # p /\ FsOwes(c)'
          BY <1>4, <1>5, <1>16, <2>6, <4>2 DEF FsOwes
        <5>2. c \in Proc /\ c # FS
          BY Folk
        <5>3. callOf'[c] = callOf[c]
          BY <1>8, <1>18, <5>1, <5>2
        <5>4. QED
          BY <5>1, <5>2, <5>3, Senders, Folk
      <4>3. QED
        BY <1>2, <4>1, <4>2, FsKept
    <3>3. QED
      BY <3>1, <3>2
  <2>8. QED
    BY <1>8, <1>14, <1>15, <2>3, <2>5, <2>7 DEF LifeInv
<1>19. CASE d = MM
  <2>1. callOf'[FS] = callOf[FS] /\ mbuf'[FS] = mbuf[FS]
    BY <1>4, <1>8, <1>19, Folk
  <2>2. MmTaken => MmTaken' /\ callOf'[MM] = callOf[MM]
    <3>1. MmTaken => callOf[MM] \in {Unblocked, RecvFrom(FS)}
      BY DEF MmTaken
    <3>2. MmTaken => callOf'[MM] = callOf[MM]
      BY <1>4, <1>8, <1>19, <3>1, Words, Folk
    <3>3. QED
      BY <1>2, <3>2 DEF MmTaken, mmVars, Unblocked, RecvFrom, RV!NoCall, RV!RecvFrom, Asking, Asked
  <2>3. FsFits'
    <3>1. ASSUME NEW c \in User \cup {MM}, FsOwes(c)
          PROVE  FsOwes(c)' /\ (callOf[FS] = SendTo(c) => callOf'[c] = Unblocked)
      <4>1. c # p /\ FsOwes(c)'
        BY <1>4, <1>5, <1>16, <2>2, <3>1 DEF FsOwes
      <4>2. callOf'[c] = callOf[c]
        BY <1>8, <1>19, <2>2, <3>1, <4>1, Folk DEF FsOwes
      <4>3. QED
        BY <4>1, <4>2, Senders, Folk
    <3>2. QED
      BY <1>2, <2>1, <3>1, FsKept
  <2>4. MmCall' /\ MmRole' /\ Accounted'
    <3>1. CASE callOf[MM] \notin {RecvFrom(p), RecvFrom(ANY)}
      <4>1. callOf'[MM] = callOf[MM] /\ mbuf'[MM] = mbuf[MM] /\ callOf'[p] = SendTo(MM)
        BY <1>8, <1>19, <3>1
      <4>2. \A c \in User : /\ Taken(c, MM) => request'[c] = request[c]
                            /\ callOf[MM] = SendTo(c) => callOf'[c] = Unblocked
        BY <1>4, <1>5, <1>6, <1>8, <1>9, <1>19, Senders, Folk DEF MmAnswers
      <4>3. MmCall' /\ MmRole' /\ \A q \in User : MmServes(q)' <=> MmServes(q)
        BY <1>2, <1>8, <1>11, <4>1, <4>2, MmKept
      <4>4. \A q \in User : Taken(q, MM)' <=> Taken(q, MM)
        BY <1>5, <1>16, <1>17, <4>1, Words
      <4>5. QED
        BY <4>3, <4>4 DEF LifeInv, Accounted
    <3>2. CASE callOf[MM] \in {RecvFrom(p), RecvFrom(ANY)}
      <4>1. callOf'[MM] = Unblocked /\ mbuf'[MM] = Signed(p, t) /\ callOf'[p] = Unblocked
        BY <1>8, <1>19, <3>2
      <4>2. \/ mm_pc = "dispatch"
            \/ callOf[MM] = RecvFrom(mm_src) /\ mm_pc \in {"buddy_send", "reply"} /\ p = mm_src
        <5>1. callOf[MM] # Unblocked /\ callOf[MM] # RecvFrom(FS) /\ \A c : callOf[MM] # SendTo(c)
          BY <1>4, <3>2, Words, Folk
        <5>2. callOf[MM] = RecvFrom(mm_src) => p = mm_src
          BY <3>2, Words, Types, Folk
        <5>3. QED
          BY <5>1, <5>2 DEF LifeInv, MmCall, MmAnswers
      <4>3. \A q : ~ MmServes(q)
        <5>1. callOf[MM] # Unblocked /\ \A c : callOf[MM] # SendTo(c)
          BY <3>2, Words
        <5>2. QED
          BY <4>2, <5>1 DEF MmServes, ForkPcs
      <4>4. \A q \in User : MmServes(q)' <=> q = p
        <5>1. \A q : /\ callOf'[MM] # SendTo(q)'
                     /\ callOf'[MM] # RecvFrom(q)' /\ callOf'[MM] = Unblocked'
          BY <4>1 DEF Unblocked, SendTo, RecvFrom, RV!NoCall, RV!SendTo, RV!RecvFrom
        <5>2. \A q \in User : MmServes(q)' <=>
                 \/ mm_pc = "dispatch" /\ mbuf'[MM].source = q
                 \/ mm_pc # "dispatch" /\ q = mm_src
          BY <1>2, <4>2, <5>1 DEF MmServes, ForkPcs, mmVars
        <5>3. QED
          BY <4>1, <4>2, <5>2, SignedWords
      <4>5. Accounted'
        BY <1>16, <1>17, <1>19, <4>1, <4>3, <4>4 DEF LifeInv, Accounted
      <4>6. MmCall'
        BY <4>1 DEF MmCall, Unblocked, RV!NoCall
      <4>7. MmRole'
        BY <1>2, <1>9, <4>1, <4>2 DEF MmRole, mmVars, ForkPcs, ExitPcs, Signed
      <4>8. QED
        BY <4>5, <4>6, <4>7
    <3>3. QED
      BY <3>1, <3>2
  <2>5. QED
    BY <1>8, <1>14, <1>15, <2>3, <2>4 DEF LifeInv
<1>20. QED
  BY <1>4, <1>18, <1>19

LEMMA UserAwaitKeeps ==
  ASSUME LifeInv, NEW p \in User, UserAwait(p)
  PROVE  LifeInv'
<1> DEFINE srv == Serv(p)
<1>1. /\ stage[p] = "called" /\ msg_receive(p, srv)
      /\ stage' = [stage EXCEPT ![p] = "waiting"]
      /\ UNCHANGED <<request, still, p_parent, mmVars, fs_pc>>
  BY DEF UserAwait, Serv
<1>2. /\ srv \in {FS, MM} /\ srv \in Proc /\ srv # ANY /\ p \in Proc /\ p # FS /\ p # MM /\ FS # MM
      /\ Kernel
  BY Folk DEF LifeInv, Serv
<1>3. \A f \in Proc : callOf[f] = SendTo(p) => ~ Free(f)
  BY Senders
<1>4. /\ Kernel' /\ BitsKept
      /\ callOf[p] = Unblocked /\ ~ Waits(p) /\ ~ Free(p)
      /\ \A q \in Proc : q # p => mbuf'[q] = mbuf[q]
      /\ \/ \E f \in Proc :
              /\ callOf[f] = SendTo(p) /\ srv \in {f, ANY} /\ f # p
              /\ callOf'[f] = Unblocked /\ mbuf'[p] = mbuf[f]
              /\ \A q \in Proc : q # f => callOf'[q] = callOf[q]
         \/ /\ \A f \in Proc : callOf[f] = SendTo(p) => srv \notin {f, ANY}
            /\ callOf'[p] = RecvFrom(srv)
            /\ \A q \in Proc : q # p => callOf'[q] = callOf[q]
  BY <1>1, <1>2, <1>3, KernelReceives
<1> DEFINE Meets == callOf[srv] = SendTo(p)
<1>5. Meets => /\ callOf'[srv] = Unblocked /\ mbuf'[p] = mbuf[srv]
               /\ \A q \in Proc : q # srv => callOf'[q] = callOf[q]
  BY <1>2, <1>4
<1>6. ~ Meets => /\ callOf'[p] = RecvFrom(srv)
                 /\ \A q \in Proc : q # p => callOf'[q] = callOf[q]
  BY <1>2, <1>4
<1>7. Taken(p, srv) /\ \A s : Taken(p, s) => s = srv
  BY <1>1, <1>4 DEF Taken
<1>8. /\ stage'[p] = "waiting" /\ Serv(p)' = srv /\ request' = request
      /\ \A q \in User : q # p => stage'[q] = stage[q]
  BY <1>1, Types DEF Serv, ServerOf
<1>9. \A q \in User \ {p} : Same(q)
  BY <1>2, <1>4, <1>5, <1>6, <1>8, Folk DEF Same, BitsKept
<1>10. \A q \in User : Free(q)' <=> Free(q)
  BY <1>4, Folk DEF BitsKept
<1>11. ~ Waits(p)' /\ ~ Free(p)' /\ \A q \in {FS, MM} : ~ Waits(q)' /\ ~ Free(q)'
  BY <1>2, <1>4, FsIs, Folk DEF BitsKept
<1>12. Meets => mbuf[srv] = Signed(srv, Answer)
  BY <1>2, Senders DEF FsAnswers, MmAnswers, Asking
<1>13. UserIs(p)'
  <2>1. CASE Meets
    <3>1. callOf'[p] = Unblocked /\ mbuf'[p] = Signed(srv, Answer)
      BY <1>2, <1>4, <1>5, <1>12, <2>1
    <3>2. QED
      BY <1>8, <1>11, <3>1 DEF UserIs, Unblocked, RV!NoCall, Signed, Answer
  <2>2. CASE ~ Meets
    <3>1. callOf'[p] = RecvFrom(srv)
      BY <1>6, <2>2
    <3>2. QED
      BY <1>8, <3>1 DEF UserIs, RecvFrom, RV!RecvFrom
  <2>3. QED
    BY <2>1, <2>2
<1>14. \A s \in {FS, MM} : Taken(p, s)' <=> s = srv /\ ~ Meets
  <2>1. Meets => callOf'[p] = Unblocked
    BY <1>2, <1>4, <1>5
  <2>2. \A s : callOf'[p] = RecvFrom(s)' <=> s = srv /\ ~ Meets
    BY <1>6, <2>1, Words, CallsDiffer DEF RecvFrom, RV!RecvFrom, Unblocked, RV!NoCall
  <2>3. QED
    BY <1>8, <1>11, <2>2 DEF Taken
<1>15. \A q \in User \ {p} : \A s \in {FS, MM} : Taken(q, s)' <=> Taken(q, s)
  BY <1>9, UserKept
<1> HIDE DEF srv, Meets
<1>16. UsersFit'
  <2>1. (request[p] = "EXIT" => p # INIT_PID) /\ request[p] # "none"
    BY <1>1 DEF LifeInv, UsersFit
  <2>2. Fits(p)'
    BY <1>8, <1>11, <1>13, <2>1 DEF Fits
  <2>3. {p} \in SUBSET User /\ \A q \in {p} : Fits(q)'
    BY <2>2
  <2>4. QED
    BY <1>9, <1>11, <2>3, UsersKept
<1>17. Tree' /\ LifeTypeOK'
  <2>1. Tree'
    BY <1>1, <1>10, TreeKept DEF mmVars
  <2>2. QED
    BY <1>1, <1>4, <2>1 DEF LifeInv, Kernel, LifeTypeOK, mmVars
<1>18. MmTaken' <=> MmTaken
  <2>1. CASE Meets /\ srv = MM
    <3>1. callOf[MM] = SendTo(p) /\ callOf'[MM] = Unblocked /\ mm_pc \notin Asking
      <4>1. callOf[MM] = SendTo(p)
        BY <2>1 DEF Meets
      <4>2. mm_pc \notin Asking
        BY <1>2, <4>1, Senders, Folk DEF Asking
      <4>3. QED
        BY <1>5, <2>1, <4>1, <4>2
    <3>2. ~ MmTaken
      BY <3>1, Words DEF MmTaken
    <3>3. callOf'[MM] # RecvFrom(FS)'
      BY <3>1 DEF RecvFrom, RV!RecvFrom, Unblocked, RV!NoCall
    <3>4. QED
      BY <1>1, <3>1, <3>2, <3>3 DEF MmTaken, mmVars, Asking
  <2>2. CASE ~ (Meets /\ srv = MM)
    <3>1. callOf'[MM] = callOf[MM]
      BY <1>2, <1>5, <1>6, <2>2, Folk
    <3>2. QED
      BY <1>1, <3>1 DEF MmTaken, mmVars, Unblocked, RecvFrom, RV!NoCall, RV!RecvFrom, Asking, Asked
  <2>3. QED
    BY <2>1, <2>2
<1>19. FsFits'
  <2>1. CASE Meets /\ srv = FS
    <3>1. callOf[FS] = SendTo(p) /\ callOf'[FS] = Unblocked
      BY <1>5, <2>1 DEF Meets
    <3>2. fs_pc = "receive"
      BY <3>1, FsIs DEF FsAnswers
    <3>3. QED
      BY <1>1, <3>1, <3>2 DEF FsFits, FsIdle, Unblocked, RV!NoCall
  <2>2. CASE ~ (Meets /\ srv = FS)
    <3>1. callOf'[FS] = callOf[FS] /\ mbuf'[FS] = mbuf[FS]
      BY <1>2, <1>4, <1>5, <1>6, <2>2, Folk
    <3>2. ASSUME NEW c \in User \cup {MM}, FsOwes(c)
          PROVE  FsOwes(c)' /\ (callOf[FS] = SendTo(c) => callOf'[c] = Unblocked)
      <4>1. CASE c = p
        <5>1. srv = FS /\ ~ Meets
          BY <1>2, <1>7, <2>2, <3>2, <4>1 DEF FsOwes
        <5>2. FsOwes(p)'
          BY <1>2, <1>14, <5>1 DEF FsOwes
        <5>3. callOf[FS] # SendTo(p)
          BY <5>1 DEF Meets
        <5>4. QED
          BY <4>1, <5>2, <5>3
      <4>2. CASE c # p
        <5>1. FsOwes(c)'
          BY <1>15, <1>18, <3>2, <4>2 DEF FsOwes
        <5>2. CASE callOf[FS] = SendTo(c)
          <6>1. callOf[c] = Unblocked
            BY <5>2, Senders, Folk
          <6>2. callOf'[c] = Unblocked
            BY <1>2, <1>5, <1>6, <4>2, <6>1, Folk
          <6>3. QED
            BY <5>1, <6>2
        <5>3. QED
          BY <5>1, <5>2
      <4>3. QED
        BY <4>1, <4>2
    <3>3. QED
      BY <1>1, <3>1, <3>2, FsKept
  <2>3. QED
    BY <2>1, <2>2
<1>20. MmCall' /\ MmRole' /\ Accounted'
  <2>1. CASE Meets /\ srv = MM
    <3>1. callOf[MM] = SendTo(p) /\ callOf'[MM] = Unblocked
      BY <1>5, <2>1 DEF Meets
    <3>2. /\ mm_pc \in {"receive", "buddy_await", "cleanup_free", "reply"}
          /\ mm_pc \in {"cleanup_free", "reply"} => p # mm_src
      BY <1>2, <3>1, Senders, Folk
    <3>3. MmCall'
      BY <3>1 DEF MmCall, Unblocked, RV!NoCall
    <3>4. MmRole'
      <4>1. mm_pc = "cleanup_free" => Buries(mm_who)' /\ Serving(mm_type)' /\ ~ Free(mm_who)'
        <5>1. \A q \in User : Free(q)' <=> Free(q)
          BY <1>4, Folk DEF BitsKept
        <5>2. QED
          BY <1>1, <5>1, BurialKept DEF mmVars, ExitPcs
      <4>2. QED
        BY <1>1, <3>2, <4>1 DEF LifeInv, MmRole, mmVars, ForkPcs, ExitPcs
    <3>5. \A q \in User : MmServes(q)' <=> q # p /\ MmServes(q)
      <4>1. \A q : callOf[MM] = SendTo(q) <=> q = p
        BY <3>1, Words
      <4>2. callOf[MM] # RecvFrom(mm_src)
        BY <3>1, Words
      <4>3. \A q : callOf'[MM] # SendTo(q)' /\ callOf'[MM] # RecvFrom(mm_src)'
        BY <3>1 DEF Unblocked, SendTo, RecvFrom, RV!NoCall, RV!SendTo, RV!RecvFrom
      <4>4. QED
        BY <1>1, <3>2, <4>1, <4>2, <4>3 DEF MmServes, ForkPcs, mmVars
    <3>6. Accounted'
      BY <1>14, <1>15, <2>1, <3>5 DEF LifeInv, Accounted
    <3>7. QED
      BY <3>3, <3>4, <3>6
  <2>2. CASE ~ (Meets /\ srv = MM)
    <3>1. callOf'[MM] = callOf[MM] /\ mbuf'[MM] = mbuf[MM]
      BY <1>2, <1>4, <1>5, <1>6, <2>2, Folk
    <3>2. ASSUME NEW c \in User, callOf[MM] = SendTo(c)
          PROVE  callOf'[c] = Unblocked
      <4>1. Taken(c, MM) /\ callOf[c] = Unblocked
        BY <1>2, <3>2, Senders, Folk DEF MmAnswers
      <4>2. c # p
        BY <1>7, <2>2, <3>2, <4>1 DEF Meets
      <4>3. QED
        BY <1>2, <1>5, <1>6, <4>1, <4>2, Folk
    <3>3. MmCall' /\ MmRole' /\ \A q \in User : MmServes(q)' <=> MmServes(q)
      BY <1>1, <1>4, <1>10, <3>1, <3>2, MmKept
    <3>4. \A q \in User : Taken(q, MM)' <=> Taken(q, MM)
      BY <1>7, <1>14, <1>15, <2>2
    <3>5. QED
      BY <3>3, <3>4 DEF LifeInv, Accounted
  <2>3. QED
    BY <2>1, <2>2
<1>21. QED
  BY <1>4, <1>16, <1>17, <1>19, <1>20 DEF LifeInv

LEMMA UserReturnKeeps ==
  ASSUME LifeInv, NEW p \in User, UserReturn(p)
  PROVE  LifeInv'
<1>1. /\ stage[p] = "waiting" /\ Running(p)
      /\ stage' = [stage EXCEPT ![p] = "idle"]
      /\ request' = [request EXCEPT ![p] = "none"]
      /\ mbuf' = [mbuf EXCEPT ![p] = Signed(p, NoType)]
      /\ UNCHANGED <<p_flags, p_msg, p_sendto, p_recvfrom, has_int_msg, q_sending,
                     panic, still, p_parent, mmVars, fs_pc>>
  BY DEF UserReturn, Returns
<1>2. p \in Proc /\ p # FS /\ p # MM /\ Kernel
  BY Folk DEF LifeInv
<1>3. callOf[p] = Unblocked /\ ~ Waits(p) /\ ~ Free(p)
  BY <1>1, <1>2, BitsOf
<1>4. Kernel' /\ BitsKept /\ callOf' = callOf /\ \A q \in Proc : q # p => mbuf'[q] = mbuf[q]
  BY <1>1, <1>2, <1>3, KernelForgets
<1>5. /\ stage'[p] = "idle" /\ request'[p] = "none"
      /\ \A q \in User : q # p => stage'[q] = stage[q] /\ request'[q] = request[q]
  BY <1>1, Types
<1>6. \A q \in User \ {p} : Same(q)
  BY <1>4, <1>5, Folk DEF Same, BitsKept
<1>7. \A q \in User : Free(q)' <=> Free(q)
  BY <1>4, Folk DEF BitsKept
<1>8. ~ Waits(p)' /\ ~ Free(p)' /\ \A q \in {FS, MM} : ~ Waits(q)' /\ ~ Free(q)'
  BY <1>2, <1>3, <1>4, FsIs, Folk DEF BitsKept
<1>9. UsersFit'
  <2>1. UserIs(p)'
    BY <1>3, <1>4, <1>5, <1>8 DEF UserIs, Unblocked, RV!NoCall
  <2>2. Fits(p)'
    BY <1>5, <1>8, <2>1 DEF Fits
  <2>3. {p} \in SUBSET User /\ \A q \in {p} : Fits(q)'
    BY <2>2
  <2>4. QED
    BY <1>6, <1>8, <2>3, UsersKept
<1>10. Tree' /\ LifeTypeOK'
  <2>1. Tree'
    BY <1>1, <1>7, TreeKept DEF mmVars
  <2>2. QED
    BY <1>1, <1>4, <2>1 DEF LifeInv, Kernel, LifeTypeOK, mmVars
<1>11. \A s \in {FS, MM} : \A q \in User : Taken(q, s)' <=> Taken(q, s)
  <2>1. \A s : ~ Taken(p, s)
    BY <1>1, <1>3, Words DEF Taken
  <2>2. \A s \in {FS, MM} : ~ Taken(p, s)'
    BY <1>5 DEF Taken
  <2>3. QED
    BY <1>6, <2>1, <2>2, UserKept
<1>12. \A s : ~ Taken(p, s)
  BY <1>1, <1>3, Words DEF Taken
<1>13. MmCall' /\ MmRole' /\ \A q \in User : MmServes(q)' <=> MmServes(q)
  <2>1. \A c \in User : /\ Taken(c, MM) => request'[c] = request[c]
                        /\ callOf[MM] = SendTo(c) => callOf'[c] = Unblocked
    BY <1>4, <1>5, <1>12, Senders, Folk DEF MmAnswers
  <2>2. QED
    BY <1>1, <1>2, <1>4, <1>7, <2>1, Folk, MmKept
<1>14. FsFits'
  <2>1. MmTaken' <=> MmTaken
    BY <1>1, <1>4 DEF MmTaken, mmVars, Unblocked, RecvFrom, RV!NoCall, RV!RecvFrom, Asking, Asked
  <2>2. \A c \in User \cup {MM} : FsOwes(c) => FsOwes(c)' /\ (callOf[FS] = SendTo(c) => callOf'[c] = Unblocked)
    BY <1>4, <1>11, <2>1, Senders, Folk DEF FsOwes
  <2>3. QED
    BY <1>1, <1>2, <1>4, <2>2, Folk, FsKept
<1>15. QED
  BY <1>4, <1>9, <1>10, <1>11, <1>13, <1>14 DEF LifeInv, Accounted

-----------------------------------------------------------------------------
(* FS.                                                                     *)
LEMMA MmReleased ==
  ASSUME LifeInv, UNCHANGED <<mmVars, p_parent, request>>,
         callOf[MM] \in {SendTo(FS), RecvFrom(FS)}, callOf'[MM] = Unblocked,
         \A q \in User : Free(q)' <=> Free(q)
  PROVE  /\ MmCall' /\ MmRole' /\ mm_pc \in Asking \cup Asked
         /\ \A p \in User : MmServes(p)' <=> MmServes(p)
<1>1. /\ \A q \in User : callOf[MM] # SendTo(q)
      /\ callOf[MM] # Unblocked /\ callOf[MM] # RecvFrom(mm_src) /\ callOf[MM] # RecvFrom(ANY)
  BY Words, Types, Folk
<1>2. mm_pc \in Asking \cup Asked
  BY <1>1 DEF LifeInv, MmCall, MmAnswers
<1>3. \A q : callOf'[MM] # SendTo(q)' /\ callOf'[MM] # RecvFrom(mm_src)'
  BY DEF Unblocked, SendTo, RecvFrom, RV!NoCall, RV!SendTo, RV!RecvFrom
<1>4. MmCall'
  BY DEF MmCall, Unblocked, RV!NoCall
<1>5. MmRole'
  <2>1. mm_pc \in {"exit_fs_wait", "exit_parent"} => Buries(mm_who)' /\ Serving(mm_type)' /\ ~ Free(mm_who)'
    BY BurialKept DEF mmVars, ExitPcs
  <2>2. QED
    BY <1>2, <2>1 DEF LifeInv, MmRole, Serving, mmVars, ForkPcs, ExitPcs, Asking, Asked
<1>6. \A p \in User : MmServes(p)' <=> MmServes(p)
  BY <1>1, <1>2, <1>3 DEF MmServes, ForkPcs, mmVars, Asking, Asked
<1>7. QED
  BY <1>2, <1>4, <1>5, <1>6

LEMMA FSReceiveKeeps ==
  ASSUME LifeInv, FSReceive
  PROVE  LifeInv'
<1>1. /\ fs_pc = "receive" /\ msg_receive(FS, ANY) /\ fs_pc' = "reply"
      /\ UNCHANGED <<userVars, p_parent, mmVars>>
  BY DEF FSReceive
<1>2. FS \in Proc /\ FS # MM /\ ANY \in Proc \cup {ANY} /\ Kernel
  BY Folk DEF LifeInv
<1>3. \A f \in Proc : callOf[f] = SendTo(FS) => ~ Free(f)
  BY Senders
<1>4. /\ Kernel' /\ BitsKept /\ callOf[FS] = Unblocked
      /\ \A q \in Proc : q # FS => mbuf'[q] = mbuf[q]
      /\ \/ \E f \in Proc :
              /\ callOf[f] = SendTo(FS) /\ f # FS
              /\ callOf'[f] = Unblocked /\ mbuf'[FS] = mbuf[f]
              /\ \A q \in Proc : q # f => callOf'[q] = callOf[q]
         \/ /\ callOf'[FS] = RecvFrom(ANY)
            /\ \A q \in Proc : q # FS => callOf'[q] = callOf[q]
  BY <1>1, <1>2, <1>3, KernelReceives
<1>5. stage' = stage /\ request' = request
  BY <1>1 DEF userVars
<1>6. \A q \in User : (Free(q)' <=> Free(q)) /\ (Waits(q)' <=> Waits(q))
  BY <1>4, Folk DEF BitsKept
<1>7. \A q \in {FS, MM} : ~ Waits(q)' /\ ~ Free(q)'
  BY <1>4, FsIs, Folk DEF BitsKept
<1>8. Tree' /\ LifeTypeOK'
  <2>1. Tree'
    BY <1>1, <1>6, TreeKept DEF mmVars
  <2>2. QED
    BY <1>1, <1>4, <2>1 DEF LifeInv, Kernel, LifeTypeOK, mmVars, userVars
<1>9. \A q \in User : callOf'[q] = callOf[q] => Same(q)
  BY <1>4, <1>5, <1>6, Folk DEF Same
<1>10. CASE /\ callOf'[FS] = RecvFrom(ANY)
            /\ \A q \in Proc : q # FS => callOf'[q] = callOf[q]
  <2>1. \A q \in User : Same(q)
    BY <1>9, <1>10, Folk
  <2>2. UsersFit'
    BY <1>7, <2>1, AllUsersKept
  <2>3. \A q \in User : Taken(q, MM)' <=> Taken(q, MM)
    BY <2>1, UserKept
  <2>4. MmCall' /\ MmRole' /\ \A q \in User : MmServes(q)' <=> MmServes(q)
    <3>1. callOf'[MM] = callOf[MM] /\ mbuf'[MM] = mbuf[MM]
      BY <1>2, <1>4, <1>10, Folk
    <3>2. \A c \in User : callOf[MM] = SendTo(c) => callOf'[c] = Unblocked
      BY <1>10, Senders, Folk DEF MmAnswers
    <3>3. QED
      BY <1>1, <1>4, <1>5, <1>6, <3>1, <3>2, MmKept
  <2>5. FsFits'
    BY <1>1, <1>10 DEF FsFits, FsIdle, RecvFrom, RV!RecvFrom
  <2>6. QED
    BY <1>4, <1>8, <2>2, <2>3, <2>4, <2>5 DEF LifeInv, Accounted
<1>11. ASSUME NEW f \in Proc, callOf[f] = SendTo(FS), f # FS,
              callOf'[f] = Unblocked, mbuf'[FS] = mbuf[f],
              \A q \in Proc : q # f => callOf'[q] = callOf[q]
       PROVE  LifeInv'
  <2>1. callOf'[FS] = Unblocked
    BY <1>2, <1>4, <1>11
  <2>2. CASE f \in User
    <3>1. /\ ~ Free(f) /\ ~ Waits(f) /\ Serv(f) = FS /\ stage[f] = "called"
          /\ mbuf[f] = Signed(f, request[f])
      BY <1>11, <2>2, Senders, Folk
    <3>2. \A q \in User \ {f} : Same(q)
      BY <1>9, <1>11, Folk
    <3>3. Serv(f)' = FS
      BY <1>5, <3>1 DEF Serv, ServerOf
    <3>4. UsersFit'
      <4>1. UserIs(f)'
        BY <1>5, <1>11, <3>1 DEF UserIs, Unblocked, RV!NoCall
      <4>2. (request[f] = "EXIT" => f # INIT_PID) /\ request[f] # "none"
        BY <2>2, <3>1 DEF LifeInv, UsersFit
      <4>3. Fits(f)'
        BY <1>5, <1>6, <2>2, <3>1, <4>1, <4>2 DEF Fits
      <4>4. {f} \in SUBSET User /\ \A q \in {f} : Fits(q)'
        BY <2>2, <4>3
      <4>5. QED
        BY <1>7, <3>2, <4>4, UsersKept
    <3>5. \A q \in User : Taken(q, MM)' <=> Taken(q, MM)
      <4>1. ~ Taken(f, MM) /\ ~ Taken(f, MM)'
        BY <1>2, <3>1, <3>3 DEF Taken
      <4>2. QED
        BY <3>2, <4>1, UserKept
    <3>6. Taken(f, FS)'
      BY <1>5, <1>6, <1>11, <2>2, <3>1, <3>3 DEF Taken, Unblocked, RV!NoCall
    <3>7. FsFits'
      <4>1. FsHolds(f)' /\ FsOwes(f)'
        BY <1>1, <1>11, <2>1, <2>2, <3>1, <3>6, Folk DEF FsHolds, FsOwes, Signed, Unblocked, RV!NoCall
      <4>2. QED
        BY <2>2, <4>1 DEF FsFits
    <3>8. MmCall' /\ MmRole' /\ \A q \in User : MmServes(q)' <=> MmServes(q)
      <4>1. callOf'[MM] = callOf[MM] /\ mbuf'[MM] = mbuf[MM]
        BY <1>2, <1>4, <1>11, <2>2, Folk
      <4>2. ASSUME NEW c \in User, callOf[MM] = SendTo(c) PROVE callOf'[c] = Unblocked
        <5>1. callOf[c] = Unblocked
          BY <4>2, Senders, Folk DEF MmAnswers
        <5>2. c # f
          BY <1>11, <5>1, Words
        <5>3. QED
          BY <1>11, <5>1, <5>2, Folk
      <4>3. QED
        BY <1>1, <1>4, <1>5, <1>6, <4>1, <4>2, MmKept
    <3>9. QED
      BY <1>4, <1>8, <3>4, <3>5, <3>7, <3>8 DEF LifeInv, Accounted
  <2>3. CASE f = MM
    <3>1. mm_pc \in Asking /\ mbuf[MM].source = MM
      <4>1. \A q \in User : SendTo(q) # SendTo(FS)
        BY Words, Folk
      <4>2. QED
        BY <1>11, <2>3, <4>1, Words DEF LifeInv, MmCall, MmAnswers
    <3>2. \A q \in User : Same(q)
      BY <1>9, <1>11, <2>3, Folk
    <3>3. UsersFit'
      BY <1>7, <3>2, AllUsersKept
    <3>4. \A q \in User : Taken(q, MM)' <=> Taken(q, MM)
      BY <3>2, UserKept
    <3>5. MmCall' /\ MmRole' /\ \A q \in User : MmServes(q)' <=> MmServes(q)
      BY <1>1, <1>5, <1>6, <1>11, <2>3, MmReleased
    <3>6. FsFits'
      <4>1. FsHolds(MM)' /\ FsOwes(MM)'
        BY <1>1, <1>11, <2>1, <2>3, <3>1
        DEF FsHolds, FsOwes, MmTaken, mmVars, Asking, Unblocked, RV!NoCall
      <4>2. QED
        BY <4>1 DEF FsFits
    <3>7. QED
      BY <1>4, <1>8, <3>3, <3>4, <3>5, <3>6 DEF LifeInv, Accounted
  <2>4. QED
    BY <1>11, <2>2, <2>3, Folk
<1>12. QED
  BY <1>4, <1>10, <1>11

LEMMA FSReplyKeeps ==
  ASSUME LifeInv, FSReply
  PROVE  LifeInv'
<1>0. PICK c : c = mbuf[FS].source
  OBVIOUS
<1>1. /\ fs_pc = "reply" /\ msg_send(FS, c, Answer) /\ fs_pc' = "receive"
      /\ UNCHANGED <<userVars, p_parent, mmVars>>
  BY <1>0 DEF FSReply, Answer
<1>2. FS \in Proc /\ FS # MM /\ Kernel /\ Answer \in Type
  BY Folk DEF LifeInv
<1>3. callOf[FS] = Unblocked
  <2>1. Running(FS)
    BY <1>1 DEF msg_send, SendDeadlock, SendHandOff, SendBlock
  <2>2. QED
    BY <1>2, <2>1, BitsOf
<1>4. c \in User \cup {MM} /\ FsOwes(c) /\ c \in Proc /\ c # FS
  BY <1>0, <1>1, <1>3, FsIs, Folk
<1>5. ~ Waits(c) /\ callOf[c] \in {Unblocked, RecvFrom(FS)}
  BY <1>4, FsIs, Folk DEF FsOwes, MmTaken, Taken
<1>6. ~ deadlock(FS, c)
  <2>1. \A w \in Proc : callOf[c] # SendTo(w)
    BY <1>5, Words
  <2>2. QED
    BY <1>2, <1>4, <2>1, Circleless
<1>7. /\ Kernel' /\ BitsKept
      /\ \A q \in Proc : q # FS /\ q # c => callOf'[q] = callOf[q] /\ mbuf'[q] = mbuf[q]
      /\ \/ /\ callOf[c] \in {RecvFrom(FS), RecvFrom(ANY)}
            /\ callOf'[c] = Unblocked /\ mbuf'[c] = Signed(FS, Answer)
            /\ callOf'[FS] = Unblocked
         \/ /\ callOf[c] \notin {RecvFrom(FS), RecvFrom(ANY)}
            /\ callOf'[FS] = SendTo(c) /\ mbuf'[FS] = Signed(FS, Answer)
            /\ callOf'[c] = callOf[c] /\ mbuf'[c] = mbuf[c]
  BY <1>1, <1>2, <1>4, <1>5, <1>6, KernelSends
<1>8. stage' = stage /\ request' = request
  BY <1>1 DEF userVars
<1>9. \A q \in User : (Free(q)' <=> Free(q)) /\ (Waits(q)' <=> Waits(q))
  BY <1>7, Folk DEF BitsKept
<1>10. \A q \in {FS, MM} : ~ Waits(q)' /\ ~ Free(q)'
  BY <1>7, FsIs, Folk DEF BitsKept
<1>11. Tree' /\ LifeTypeOK'
  <2>1. Tree'
    BY <1>1, <1>9, TreeKept DEF mmVars
  <2>2. QED
    BY <1>1, <1>7, <2>1 DEF LifeInv, Kernel, LifeTypeOK, mmVars, userVars
<1>12. \A q \in User \ {c} : Same(q)
  BY <1>7, <1>8, <1>9, Folk DEF Same
<1>13. CASE callOf[c] = RecvFrom(FS)
  <2>1. callOf'[c] = Unblocked /\ mbuf'[c] = Signed(FS, Answer) /\ callOf'[FS] = Unblocked
    BY <1>7, <1>13
  <2>2. FsFits'
    BY <1>1, <2>1 DEF FsFits, FsIdle, Unblocked, RV!NoCall
  <2>3. CASE c \in User
    <3>1. Taken(c, FS) /\ stage[c] = "waiting" /\ ~ Free(c) /\ Serv(c) = FS
      BY <1>4, <1>13, <2>3, Folk, Words DEF FsOwes, Taken
    <3>2. Serv(c)' = FS
      BY <1>8, <3>1 DEF Serv, ServerOf
    <3>3. UsersFit'
      <4>1. UserIs(c)'
        BY <1>5, <1>8, <1>9, <2>1, <2>3, <3>1, <3>2 DEF UserIs, Unblocked, RV!NoCall, Signed, Answer
      <4>2. (request[c] = "EXIT" => c # INIT_PID) /\ request[c] # "none"
        BY <2>3, <3>1 DEF LifeInv, UsersFit
      <4>3. Fits(c)'
        BY <1>5, <1>8, <1>9, <2>3, <3>1, <4>1, <4>2 DEF Fits
      <4>4. {c} \in SUBSET User /\ \A q \in {c} : Fits(q)'
        BY <2>3, <4>3
      <4>5. QED
        BY <1>10, <1>12, <4>4, UsersKept
    <3>4. \A q \in User : Taken(q, MM)' <=> Taken(q, MM)
      <4>1. ~ Taken(c, MM) /\ ~ Taken(c, MM)'
        BY <1>2, <3>1, <3>2 DEF Taken
      <4>2. QED
        BY <1>12, <4>1, UserKept
    <3>5. MmCall' /\ MmRole' /\ \A q \in User : MmServes(q)' <=> MmServes(q)
      <4>1. callOf'[MM] = callOf[MM] /\ mbuf'[MM] = mbuf[MM]
        BY <1>2, <1>7, <2>3, Folk
      <4>2. ASSUME NEW e \in User, callOf[MM] = SendTo(e) PROVE callOf'[e] = Unblocked
        <5>1. callOf[e] = Unblocked
          BY <4>2, Senders, Folk DEF MmAnswers
        <5>2. QED
          BY <1>7, <2>1, <5>1, Folk
      <4>3. QED
        BY <1>1, <1>7, <1>8, <1>9, <4>1, <4>2, MmKept
    <3>6. QED
      BY <1>7, <1>11, <2>2, <3>3, <3>4, <3>5 DEF LifeInv, Accounted
  <2>4. CASE c = MM
    <3>1. \A q \in User : Same(q)
      BY <1>12, <2>4, Folk
    <3>2. UsersFit'
      BY <1>10, <3>1, AllUsersKept
    <3>3. \A q \in User : Taken(q, MM)' <=> Taken(q, MM)
      BY <3>1, UserKept
    <3>4. MmCall' /\ MmRole' /\ \A q \in User : MmServes(q)' <=> MmServes(q)
      BY <1>1, <1>8, <1>9, <1>13, <2>1, <2>4, MmReleased
    <3>5. QED
      BY <1>7, <1>11, <2>2, <3>2, <3>3, <3>4 DEF LifeInv, Accounted
  <2>5. QED
    BY <1>4, <2>3, <2>4
<1>14. CASE callOf[c] = Unblocked
  <2>1. callOf'[FS] = SendTo(c) /\ mbuf'[FS] = Signed(FS, Answer) /\ callOf'[c] = Unblocked /\ mbuf'[c] = mbuf[c]
    BY <1>7, <1>14, Words
  <2>2. \A q \in User : Same(q)
    BY <1>8, <1>9, <1>12, <1>14, <2>1 DEF Same
  <2>3. UsersFit'
    BY <1>10, <2>2, AllUsersKept
  <2>4. \A s \in {FS, MM} : \A q \in User : Taken(q, s)' <=> Taken(q, s)
    BY <2>2, UserKept
  <2>5. callOf'[MM] = callOf[MM] /\ mbuf'[MM] = mbuf[MM]
    BY <1>2, <1>7, <1>14, <2>1, Folk
  <2>6. MmCall' /\ MmRole' /\ \A q \in User : MmServes(q)' <=> MmServes(q)
    <3>1. \A e \in User : callOf[MM] = SendTo(e) => callOf'[e] = Unblocked
      BY <2>2, Senders, Folk DEF MmAnswers, Same
    <3>2. QED
      BY <1>1, <1>7, <1>8, <1>9, <2>5, <3>1, MmKept
  <2>7. FsFits'
    <3>1. MmTaken' <=> MmTaken
      BY <1>1, <2>5 DEF MmTaken, mmVars, Unblocked, RecvFrom, RV!NoCall, RV!RecvFrom, Asking, Asked
    <3>2. FsOwes(c)'
      BY <1>4, <2>4, <3>1, Folk DEF FsOwes
    <3>3. FsAnswers(c)'
      BY <1>1, <2>1 DEF FsAnswers, Unblocked, SendTo, RV!NoCall, RV!SendTo, Signed, Answer
    <3>4. QED
      BY <1>4, <3>2, <3>3 DEF FsFits
  <2>8. QED
    BY <1>7, <1>11, <2>3, <2>4, <2>6, <2>7 DEF LifeInv, Accounted
<1>15. QED
  BY <1>5, <1>13, <1>14

-----------------------------------------------------------------------------
(* MM: what it leaves alone, and whom it serves while no call blocks it.   *)
LEMMA MmQuietFs ==
  ASSUME LifeInv, fs_pc' = fs_pc, callOf'[FS] = callOf[FS], mbuf'[FS] = mbuf[FS],
         callOf[MM] = Unblocked, mm_pc \notin Asking,
         \A c \in User : Taken(c, FS) =>
            Taken(c, FS)' /\ (callOf[FS] = SendTo(c) => callOf'[c] = Unblocked)
  PROVE  FsFits' /\ callOf[FS] # SendTo(MM)
<1>1. ~ MmTaken
  BY Words DEF MmTaken
<1>2. \A c \in User \cup {MM} : FsOwes(c) =>
         FsOwes(c)' /\ (callOf[FS] = SendTo(c) => callOf'[c] = Unblocked)
  BY <1>1, Folk DEF FsOwes
<1>3. FsFits'
  BY <1>2, FsKept
<1>4. callOf[FS] # SendTo(MM)
  BY <1>1, FsIs, Folk DEF FsOwes
<1>5. QED
  BY <1>3, <1>4

ServesNow(p) ==
  \/ mm_pc = "dispatch" /\ mbuf[MM].source = p
  \/ /\ mm_pc \notin {"receive", "dispatch", "buddy_await"} /\ p = mm_src
     /\ mm_pc = "adopt" => mm_type = "KILLP"
  \/ mm_pc \in ForkPcs /\ p = mm_who
  \/ mm_pc = "cleanup_send" /\ p = p_parent[mm_who]

LEMMA ServesFree ==
  ASSUME callOf[MM] = Unblocked
  PROVE  \A p \in User : MmServes(p) <=> ServesNow(p)
BY Words DEF MmServes, ServesNow

LEMMA ServesFreeNext ==
  ASSUME callOf'[MM] = Unblocked
  PROVE  \A p \in User : MmServes(p)' <=> ServesNow(p)'
<1>1. \A q : callOf'[MM] # SendTo(q)'
  BY DEF Unblocked, SendTo, RV!NoCall, RV!SendTo
<1>2. callOf'[MM] # RecvFrom(mm_src)' /\ callOf'[MM] = Unblocked'
  BY DEF Unblocked, RecvFrom, RV!NoCall, RV!RecvFrom
<1>3. QED
  BY <1>1, <1>2 DEF MmServes, ServesNow

(* A step of MM by itself.                                                 *)
LEMMA MmSilent ==
  ASSUME LifeInv, Running(MM), mm_pc \notin Asking, UNCHANGED <<ipcVars, stage, request, fs_pc>>
  PROVE  /\ Kernel' /\ UsersFit' /\ FsFits' /\ MmCall'
         /\ callOf[MM] = Unblocked /\ callOf' = callOf /\ mbuf' = mbuf /\ BitsKept
         /\ \A q \in User : (Taken(q, MM)' <=> Taken(q, MM)) /\ (Free(q)' <=> Free(q))
         /\ (\A q \in User : ServesNow(q)' <=> ServesNow(q)) => Accounted'
<1>1. Kernel /\ MM \in Proc
  BY Folk DEF LifeInv
<1>2. Kernel' /\ BitsKept /\ callOf' = callOf /\ mbuf' = mbuf
  BY <1>1, KernelStays
<1>3. callOf[MM] = Unblocked
  BY <1>1, BitsOf
<1>4. \A q \in User : Same(q)
  BY <1>2, Folk DEF Same, BitsKept
<1>5. \A q \in {FS, MM} : ~ Waits(q)' /\ ~ Free(q)'
  BY <1>2, FsIs, Folk DEF BitsKept
<1>6. UsersFit' /\ \A q \in User : \A s \in {FS, MM} : Taken(q, s)' <=> Taken(q, s)
  BY <1>4, <1>5, AllUsersKept
<1>7. FsFits'
  <2>1. \A c \in User : Taken(c, FS) =>
            Taken(c, FS)' /\ (callOf[FS] = SendTo(c) => callOf'[c] = Unblocked)
    BY <1>2, <1>6, Senders, Folk
  <2>2. QED
    BY <1>2, <1>3, <2>1, MmQuietFs
<1>8. MmCall'
  BY <1>2, <1>3 DEF MmCall, Unblocked, RV!NoCall
<1>9. ASSUME \A q \in User : ServesNow(q)' <=> ServesNow(q)
      PROVE  Accounted'
  <2>1. \A q \in User : MmServes(q)' <=> MmServes(q)
    BY <1>2, <1>3, <1>9, ServesFree, ServesFreeNext
  <2>2. QED
    BY <1>6, <2>1 DEF LifeInv, Accounted
<1>10. QED
  BY <1>2, <1>3, <1>4, <1>6, <1>7, <1>8, <1>9 DEF Same

LEMMA MMReceiveKeeps ==
  ASSUME LifeInv, MMReceive
  PROVE  LifeInv'
<1>1. /\ mm_pc = "receive" /\ msg_receive(MM, ANY) /\ mm_pc' = "dispatch" /\ Fresh
      /\ UNCHANGED <<userVars, p_parent, mm_load, astray, fs_pc>>
  BY DEF MMReceive
<1>2. MM \in Proc /\ FS # MM /\ ANY \in Proc \cup {ANY} /\ Kernel
  BY Folk DEF LifeInv
<1>3. \A f \in Proc : callOf[f] = SendTo(MM) => ~ Free(f)
  BY Senders
<1>4. /\ Kernel' /\ BitsKept /\ callOf[MM] = Unblocked
      /\ \A q \in Proc : q # MM => mbuf'[q] = mbuf[q]
      /\ \/ \E f \in Proc :
              /\ callOf[f] = SendTo(MM) /\ f # MM
              /\ callOf'[f] = Unblocked /\ mbuf'[MM] = mbuf[f]
              /\ \A q \in Proc : q # f => callOf'[q] = callOf[q]
         \/ /\ callOf'[MM] = RecvFrom(ANY)
            /\ \A q \in Proc : q # MM => callOf'[q] = callOf[q]
  BY <1>1, <1>2, <1>3, KernelReceives
<1>5. stage' = stage /\ request' = request
  BY <1>1 DEF userVars
<1>6. \A q \in User : (Free(q)' <=> Free(q)) /\ (Waits(q)' <=> Waits(q))
  BY <1>4, Folk DEF BitsKept
<1>7. \A q \in {FS, MM} : ~ Waits(q)' /\ ~ Free(q)'
  BY <1>4, FsIs, Folk DEF BitsKept
<1>8. Tree' /\ LifeTypeOK'
  <2>1. Tree'
    BY <1>1, <1>6, TreeKept
  <2>2. QED
    BY <1>1, <1>2, <1>4, <2>1, Folk DEF LifeInv, Kernel, LifeTypeOK, userVars, Fresh
<1>9. \A q \in User : callOf'[q] = callOf[q] => Same(q)
  BY <1>4, <1>5, <1>6, Folk DEF Same
<1>10. callOf[FS] # SendTo(MM)
  BY <1>1, <1>2, Senders, Folk DEF FsOwes, MmTaken, Asking, Asked
<1>11. \A q \in User : ~ Taken(q, MM)
  BY <1>1, <1>4, ServesFree DEF LifeInv, Accounted, ServesNow, ForkPcs
<1>12. ASSUME callOf'[MM] = RecvFrom(ANY), \A q \in Proc : q # MM => callOf'[q] = callOf[q]
       PROVE  LifeInv'
  <2>1. \A q \in User : Same(q)
    BY <1>9, <1>12, Folk
  <2>2. UsersFit' /\ \A q \in User : \A s \in {FS, MM} : Taken(q, s)' <=> Taken(q, s)
    BY <1>7, <2>1, AllUsersKept
  <2>3. FsFits'
    <3>1. callOf'[FS] = callOf[FS] /\ mbuf'[FS] = mbuf[FS]
      BY <1>2, <1>4, <1>12, Folk
    <3>2. \A c \in User : Taken(c, FS) =>
            Taken(c, FS)' /\ (callOf[FS] = SendTo(c) => callOf'[c] = Unblocked)
      BY <2>1, <2>2, Senders, Folk DEF Same
    <3>3. QED
      BY <1>1, <1>4, <3>1, <3>2, MmQuietFs DEF Asking
  <2>4. \A q \in User : ~ MmServes(q)'
    <3>1. \A q : callOf'[MM] # SendTo(q)' /\ callOf'[MM] # Unblocked'
      BY <1>12 DEF Unblocked, SendTo, RecvFrom, RV!NoCall, RV!SendTo, RV!RecvFrom
    <3>2. QED
      BY <1>1, <3>1 DEF MmServes, ForkPcs
  <2>5. MmCall'
    BY <1>1, <1>12 DEF MmCall, RecvFrom, RV!RecvFrom
  <2>6. MmRole'
    <3>1. callOf'[MM] # Unblocked'
      BY <1>12 DEF Unblocked, RecvFrom, RV!NoCall, RV!RecvFrom
    <3>2. QED
      BY <1>1, <3>1 DEF MmRole, ForkPcs, ExitPcs
  <2>7. QED
    BY <1>4, <1>8, <1>11, <2>2, <2>3, <2>4, <2>5, <2>6 DEF LifeInv, Accounted
<1>13. ASSUME NEW f \in Proc, callOf[f] = SendTo(MM), f # MM,
              callOf'[f] = Unblocked, mbuf'[MM] = mbuf[f],
              \A q \in Proc : q # f => callOf'[q] = callOf[q]
       PROVE  LifeInv'
  <2>1. callOf'[MM] = Unblocked
    BY <1>2, <1>4, <1>13
  <2>2. f \in User
    BY <1>10, <1>13, Folk
  <2>3. /\ ~ Free(f) /\ ~ Waits(f) /\ Serv(f) = MM /\ stage[f] = "called"
        /\ mbuf[f] = Signed(f, request[f])
    BY <1>2, <1>13, <2>2, Senders, Folk
  <2>4. \A q \in User \ {f} : Same(q)
    BY <1>9, <1>13, Folk
  <2>5. Serv(f)' = MM
    BY <1>5, <2>3 DEF Serv, ServerOf
  <2>6. UsersFit'
    <3>1. UserIs(f)'
      BY <1>5, <1>13, <2>3 DEF UserIs, Unblocked, RV!NoCall
    <3>2. (request[f] = "EXIT" => f # INIT_PID) /\ request[f] # "none"
      BY <2>2, <2>3 DEF LifeInv, UsersFit
    <3>3. Fits(f)'
      BY <1>5, <1>6, <2>2, <2>3, <3>1, <3>2 DEF Fits
    <3>4. {f} \in SUBSET User /\ \A q \in {f} : Fits(q)'
      BY <2>2, <3>3
    <3>5. QED
      BY <1>7, <2>4, <3>4, UsersKept
  <2>7. \A q \in User : Taken(q, MM)' <=> q = f
    <3>1. Taken(f, MM)'
      BY <1>5, <1>6, <1>13, <2>2, <2>3, <2>5 DEF Taken, Unblocked, RV!NoCall
    <3>2. QED
      BY <1>11, <2>4, <3>1, UserKept
  <2>8. FsFits'
    <3>1. callOf'[FS] = callOf[FS] /\ mbuf'[FS] = mbuf[FS]
      BY <1>2, <1>4, <1>13, <2>2, Folk
    <3>2. ASSUME NEW c \in User, Taken(c, FS)
          PROVE  Taken(c, FS)' /\ (callOf[FS] = SendTo(c) => callOf'[c] = Unblocked)
      <4>1. c # f
        BY <1>2, <2>3, <3>2 DEF Taken
      <4>2. Same(c) /\ Taken(c, FS)'
        BY <2>4, <3>2, <4>1, UserKept
      <4>3. QED
        BY <4>2, Senders, Folk DEF Same
    <3>3. QED
      BY <1>1, <1>4, <3>1, <3>2, MmQuietFs DEF Asking
  <2>9. \A q \in User : MmServes(q)' <=> q = f
    BY <1>1, <1>13, <2>1, <2>3, ServesFreeNext, SignedWords DEF ServesNow, ForkPcs
  <2>10. MmCall'
    BY <2>1 DEF MmCall, Unblocked, RV!NoCall
  <2>11. MmRole'
    BY <1>1, <1>5, <1>13, <2>2, <2>3 DEF MmRole, ForkPcs, ExitPcs, Signed
  <2>12. QED
    BY <1>4, <1>8, <2>6, <2>7, <2>8, <2>9, <2>10, <2>11 DEF LifeInv, Accounted
<1>14. QED
  BY <1>4, <1>12, <1>13

LEMMA MMDispatchKeeps ==
  ASSUME LifeInv, MMDispatch
  PROVE  LifeInv'
<1>1. PICK next \in {"reply", "fork_regs", "exit_fs", "wait", "exec_fs", "buddy_send"} :
        /\ MMGoto("dispatch", next)
        /\ mm_src' = mbuf[MM].source
        /\ mm_type' = mbuf[MM].type
        /\ CASE mm_type' = "FORK" ->
                  /\ next = IF FreeSlots = {} THEN "reply" ELSE "fork_regs"
                  /\ mm_who' = mm_who
             [] mm_type' = "EXIT" -> next = "exit_fs" /\ mm_who' = mm_src'
             [] mm_type' = "WAIT" -> next = "wait" /\ mm_who' = mm_who
             [] mm_type' = "EXEC" -> next = "exec_fs" /\ mm_who' = mm_who
             [] mm_type' = "TOTAL" -> next = "reply" /\ mm_who' = mm_who
             [] mm_type' = "BUDDY" -> next = "buddy_send" /\ mm_who' = mm_who
             [] mm_type' = "KILLP" ->
                  \E t \in User \ {mm_src'} :
                     IF t < KillFloor \/ Free(t)
                       THEN next = "reply" /\ mm_who' = mm_who
                       ELSE next = "exit_fs" /\ mm_who' = t
  BY DEF MMDispatch
<1>2. mm_load' = mm_load /\ astray' = astray /\ mm_nth' = mm_nth
  BY DEF MMDispatch
<1>3. /\ Running(MM) /\ mm_pc = "dispatch" /\ mm_pc' = next
      /\ UNCHANGED <<ipcVars, userVars, p_parent, fs_pc>>
  BY <1>1 DEF MMGoto
<1>4. stage' = stage /\ request' = request /\ still' = still /\ p_flags' = p_flags
  BY <1>3 DEF userVars, ipcVars
<1>5. /\ Kernel' /\ UsersFit' /\ FsFits' /\ MmCall' /\ callOf[MM] = Unblocked
      /\ callOf' = callOf /\ mbuf' = mbuf
      /\ \A q \in User : Free(q)' <=> Free(q)
      /\ (\A q \in User : ServesNow(q)' <=> ServesNow(q)) => Accounted'
  BY <1>3, <1>4, MmSilent DEF Asking
<1>6. PICK c \in User : mbuf[MM] = Signed(c, request[c])
  BY <1>3, <1>5 DEF LifeInv, MmRole
<1>7. /\ mbuf[MM].source = c /\ mbuf[MM].type = request[c] /\ Taken(c, MM)
      /\ request[c] \in CallType \ {"OPEN"}
  <2>1. mbuf[MM].source = c /\ mbuf[MM].type = request[c]
    BY <1>6, SignedWords
  <2>2. Taken(c, MM)
    BY <1>3, <1>5, <2>1, ServingIsTaken
  <2>3. request[c] # "OPEN"
    BY <2>2, Folk DEF Taken, Serv, ServerOf
  <2>4. QED
    BY <2>1, <2>2, <2>3, TakenIs
<1>8. mm_src' = c /\ mm_type' = request[c]
  BY <1>1, <1>7
<1>9. /\ next = "fork_regs" => request[c] = "FORK" /\ FreeSlots # {} /\ mm_who' = mm_who
      /\ next = "exit_fs" => /\ mm_who' \in Slot /\ ~ Free(mm_who')
                              /\ \/ request[c] = "EXIT" /\ mm_who' = c
                                 \/ request[c] = "KILLP" /\ mm_who' # c
      /\ next = "wait" => request[c] = "WAIT" /\ mm_who' = mm_who
      /\ mm_who' \in User
  <2>0. mm_who \in User /\ c \in User
    BY Types
  <2>1. request[c] \in {"FORK", "EXIT", "WAIT", "EXEC", "TOTAL", "BUDDY", "KILLP"}
    BY <1>7 DEF CallType
  <2>2. CASE request[c] = "FORK"
    BY <1>1, <1>8, <2>0, <2>2
  <2>3. CASE request[c] = "EXIT"
    <3>1. c # INIT_PID /\ ~ Free(c)
      BY <1>7, <2>0, <2>3 DEF LifeInv, UsersFit, Taken
    <3>2. QED
      BY <1>1, <1>8, <2>0, <2>3, <3>1 DEF User
  <2>4. CASE request[c] = "WAIT"
    BY <1>1, <1>8, <2>0, <2>4
  <2>5. CASE request[c] \in {"EXEC", "TOTAL", "BUDDY"}
    BY <1>1, <1>8, <2>0, <2>5
  <2>6. CASE request[c] = "KILLP"
    <3>1. PICK t \in User \ {c} :
            IF t < KillFloor \/ Free(t)
              THEN next = "reply" /\ mm_who' = mm_who
              ELSE next = "exit_fs" /\ mm_who' = t
      BY <1>1, <1>8, <2>6
    <3>2. CASE t < KillFloor \/ Free(t)
      BY <2>0, <3>1, <3>2
    <3>3. CASE ~ (t < KillFloor \/ Free(t))
      <4>1. t # INIT_PID
        BY <3>3, LifeAssumption
      <4>2. t \in Slot
        BY <4>1 DEF User
      <4>3. QED
        BY <2>6, <3>1, <3>3, <4>2
    <3>4. QED
      BY <3>2, <3>3
  <2>7. QED
    BY <2>1, <2>2, <2>3, <2>4, <2>5, <2>6
<1>10. Accounted'
  <2>1. \A q \in User : ServesNow(q) <=> q = c
    BY <1>3, <1>7 DEF ServesNow, ForkPcs
  <2>2. \A q \in User : ServesNow(q)' <=> q = c
    BY <1>1, <1>3, <1>8 DEF ServesNow, ForkPcs
  <2>3. QED
    BY <1>5, <2>1, <2>2
<1>11. MmRole'
  <2>1. FreeSlots' = FreeSlots
    BY <1>4 DEF FreeSlots
  <2>2. \A t : Serving(t)' <=> request[c] = t
    BY <1>4, <1>8 DEF Serving
  <2>3. mm_pc' \notin ForkPcs /\ mm_pc' \notin {"dispatch", "cleanup_send", "adopt", "wait_store"}
        /\ (mm_pc' \in ExitPcs => next = "exit_fs") /\ mm_pc' # "fork_copy"
    BY <1>1, <1>3 DEF ForkPcs, ExitPcs
  <2>4. next = "exit_fs" => /\ Buries(mm_who)' /\ Serving(mm_type)' /\ ~ Free(mm_who)'
    <3>1. next = "exit_fs" => Buries(mm_who)'
      BY <1>8, <1>9 DEF Buries
    <3>2. Serving(mm_type)'
      BY <1>4, <1>8 DEF Serving
    <3>3. next = "exit_fs" => ~ Free(mm_who)'
      BY <1>4, <1>9 DEF Free
    <3>4. QED
      BY <3>1, <3>2, <3>3
  <2>5. QED
    BY <1>3, <1>8, <1>9, <2>1, <2>2, <2>3, <2>4 DEF MmRole
<1>12. Tree'
  BY <1>3, <1>5, TreeKept
<1>13. LifeTypeOK'
  <2>1. mm_pc' \in {"reply", "fork_regs", "exit_fs", "wait", "exec_fs", "buddy_send"}
    BY <1>1, <1>3
  <2>2. mm_src' \in User /\ mm_who' \in User /\ mm_type' \in CallType \cup {"none"}
    BY <1>7, <1>8, <1>9, Types
  <2>3. QED
    BY <1>2, <1>3, <1>4, <1>5, <2>1, <2>2 DEF LifeInv, Kernel, LifeTypeOK
<1>14. QED
  BY <1>5, <1>10, <1>11, <1>12, <1>13 DEF LifeInv

LEMMA MMWaitKeeps ==
  ASSUME LifeInv, MMWait
  PROVE  LifeInv'
<1>1. Hanging(mm_src) = {}
  <2>1. \A q \in User : HANGING \notin p_flags[q]
    BY Folk DEF LifeInv, Kernel, Entries, HANGING, SENDING, RECEIVING, WAITING, FREE_SLOT
  <2>2. QED
    BY <2>1 DEF Hanging, Children
<1>2. PICK next \in {"cleanup_send", "wait_store", "wait_none"} :
        /\ MMGoto("wait", next)
        /\ next = IF Hanging(mm_src) # {} THEN "cleanup_send"
                  ELSE IF Children(mm_src) # {} THEN "wait_store" ELSE "wait_none"
  BY DEF MMWait
<1>3. /\ mm_who' = mm_who /\ mm_load' = (IF mm_pc' = "wait_store" THEN p_flags[mm_src] ELSE {})
      /\ UNCHANGED <<mm_src, mm_type, astray, mm_nth>>
  BY <1>1 DEF MMWait
<1>4. /\ Running(MM) /\ mm_pc = "wait" /\ mm_pc' = next /\ next \in {"wait_store", "wait_none"}
      /\ UNCHANGED <<ipcVars, userVars, p_parent, fs_pc>>
  BY <1>1, <1>2 DEF MMGoto
<1>5. stage' = stage /\ request' = request /\ still' = still
  BY <1>4 DEF userVars
<1>6. /\ Kernel' /\ UsersFit' /\ FsFits' /\ MmCall' /\ callOf[MM] = Unblocked
      /\ \A q \in User : Free(q)' <=> Free(q)
      /\ (\A q \in User : ServesNow(q)' <=> ServesNow(q)) => Accounted'
  BY <1>4, <1>5, MmSilent DEF Asking
<1>7. Accounted'
  <2>1. \A q \in User : ServesNow(q)' <=> ServesNow(q)
    BY <1>3, <1>4 DEF ServesNow, ForkPcs
  <2>2. QED
    BY <1>6, <2>1
<1>8. MmRole'
  BY <1>3, <1>4, <1>5 DEF LifeInv, MmRole, Serving, ForkPcs, ExitPcs
<1>9. Tree'
  BY <1>4, <1>6, TreeKept
<1>10. LifeTypeOK'
  <2>1. mm_load' \in SUBSET Flag
    BY <1>3, Types DEF LifeInv, LifeTypeOK, TypeOK
  <2>2. QED
    BY <1>3, <1>4, <1>5, <1>6, <2>1 DEF LifeInv, Kernel, LifeTypeOK
<1>11. QED
  BY <1>6, <1>7, <1>8, <1>9, <1>10 DEF LifeInv

LEMMA MMExecNextKeeps ==
  ASSUME LifeInv, MMExecNext
  PROVE  LifeInv'
<1>1. PICK next \in {"reply", "exec_fs", "exec_load"} : MMGoto("exec_next", next)
  BY DEF MMExecNext
<1>2. mm_nth' = mm_nth + 1 /\ UNCHANGED <<mm_src, mm_type, mm_who, mm_load, astray>>
  BY DEF MMExecNext
<1>3. /\ Running(MM) /\ mm_pc = "exec_next" /\ mm_pc' = next
      /\ UNCHANGED <<ipcVars, userVars, p_parent, fs_pc>>
  BY <1>1 DEF MMGoto
<1>4. stage' = stage /\ request' = request /\ still' = still
  BY <1>3 DEF userVars
<1>5. /\ Kernel' /\ UsersFit' /\ FsFits' /\ MmCall' /\ callOf[MM] = Unblocked
      /\ \A q \in User : Free(q)' <=> Free(q)
      /\ (\A q \in User : ServesNow(q)' <=> ServesNow(q)) => Accounted'
  BY <1>3, <1>4, MmSilent DEF Asking
<1>6. Accounted'
  <2>1. \A q \in User : ServesNow(q)' <=> ServesNow(q)
    BY <1>1, <1>2, <1>3 DEF ServesNow, ForkPcs
  <2>2. QED
    BY <1>5, <2>1
<1>7. MmRole'
  BY <1>1, <1>3 DEF MmRole, ForkPcs, ExitPcs
<1>8. Tree'
  BY <1>3, <1>5, TreeKept
<1>9. LifeTypeOK'
  BY <1>1, <1>2, <1>3, <1>4, <1>5 DEF LifeInv, Kernel, LifeTypeOK
<1>10. QED
  BY <1>5, <1>6, <1>7, <1>8, <1>9 DEF LifeInv

LEMMA MMExecLoadKeeps ==
  ASSUME LifeInv, MMExecLoad, ~ astray'
  PROVE  LifeInv'
<1>1. /\ Running(MM) /\ mm_pc = "exec_load" /\ stage[mm_src] # "called"
      /\ stage' = [stage EXCEPT ![mm_src] = IF @ = "called" THEN "idle" ELSE @]
      /\ mm_pc' = "reply"
      /\ UNCHANGED <<ipcVars, request, still, p_parent, mm_src, mm_type, mm_who, mm_load, mm_nth, fs_pc>> /\ astray' \in BOOLEAN
  BY DEF MMExecLoad, GoesAstrayIf
<1>2. stage' = stage
  BY <1>1 DEF LifeInv, LifeTypeOK
<1>3. /\ Kernel' /\ UsersFit' /\ FsFits' /\ MmCall' /\ callOf[MM] = Unblocked
      /\ \A q \in User : Free(q)' <=> Free(q)
      /\ (\A q \in User : ServesNow(q)' <=> ServesNow(q)) => Accounted'
  BY <1>1, <1>2, MmSilent DEF Asking
<1>4. Accounted'
  <2>1. \A q \in User : ServesNow(q)' <=> ServesNow(q)
    BY <1>1 DEF ServesNow, ForkPcs
  <2>2. QED
    BY <1>3, <2>1
<1>5. MmRole'
  BY <1>1 DEF MmRole, ForkPcs, ExitPcs
<1>6. Tree'
  BY <1>1, <1>3, TreeKept
<1>7. LifeTypeOK'
  BY <1>1, <1>2, <1>3 DEF LifeInv, Kernel, LifeTypeOK
<1>8. QED
  BY <1>3, <1>4, <1>5, <1>6, <1>7 DEF LifeInv

LEMMA MMAdoptKeeps ==
  ASSUME LifeInv, MMAdopt
  PROVE  LifeInv'
<1>1. /\ Running(MM) /\ mm_pc = "adopt"
      /\ p_parent' = [c \in User |-> IF p_parent[c] = mm_who THEN INIT_PID ELSE p_parent[c]]
      /\ mm_pc' = IF mm_type = "KILLP" THEN "reply" ELSE "receive"
      /\ UNCHANGED <<ipcVars, userVars, mm_src, mm_type, mm_who, mm_load, astray, mm_nth, fs_pc>>
  BY DEF MMAdopt
<1>2. stage' = stage /\ request' = request /\ still' = still
  BY <1>1 DEF userVars
<1>3. (mm_pc' = "receive" /\ mm_type = "EXIT") \/ (mm_pc' = "reply" /\ mm_type = "KILLP")
  BY <1>1 DEF LifeInv, MmRole, Buries
<1>4. /\ Kernel' /\ UsersFit' /\ FsFits' /\ MmCall' /\ callOf[MM] = Unblocked
      /\ \A q \in User : Free(q)' <=> Free(q)
      /\ (\A q \in User : ServesNow(q)' <=> ServesNow(q)) => Accounted'
  BY <1>1, <1>2, MmSilent DEF Asking
<1>5. Accounted'
  <2>1. \A q \in User : ServesNow(q)' <=> ServesNow(q)
    BY <1>1, <1>3 DEF ServesNow, ForkPcs
  <2>2. QED
    BY <1>4, <2>1
<1>6. MmRole'
  BY <1>3 DEF MmRole, ForkPcs, ExitPcs
<1>7. Tree'
  <2>1. SUFFICES ASSUME NEW S \in SUBSET {s \in Slot : ~ Free(s)'}, S # {}
                 PROVE  \E y \in S : Up(y)' /\ p_parent'[y] \notin S
    BY DEF Tree
  <2>2. S \in SUBSET {s \in Slot : ~ Free(s)}
    BY <1>4, Folk
  <2>3. PICK y \in S : Up(y) /\ p_parent[y] \notin S
    BY <2>1, <2>2 DEF LifeInv, Tree
  <2>4. y \in User /\ p_parent'[y] = IF p_parent[y] = mm_who THEN INIT_PID ELSE p_parent[y]
    BY <1>1, <2>1, Folk
  <2>5. INIT_PID \in User /\ INIT_PID \notin S /\ ~ Free(INIT_PID)
    BY <2>1, Folk DEF LifeInv, UsersFit
  <2>6. p_parent'[y] \notin S /\ p_parent'[y] \in User /\ ~ Free(p_parent'[y])
    BY <2>3, <2>4, <2>5 DEF Up
  <2>7. ~ (Free(p_parent[y])')
    <3>1. \A q \in User : p_parent'[y] = q /\ ~ Free(q) => ~ (Free(p_parent[y])')
      BY <1>1 DEF Free, ipcVars
    <3>2. QED
      BY <2>6, <3>1
  <2>8. QED
    BY <2>6, <2>7 DEF Up
<1>8. LifeTypeOK'
  <2>1. p_parent' \in [User -> User \cup {NO_TASK}]
    BY <1>1, Folk, Types
  <2>2. QED
    BY <1>1, <1>2, <1>3, <1>4, <2>1 DEF LifeInv, Kernel, LifeTypeOK
<1>9. QED
  BY <1>4, <1>5, <1>6, <1>7, <1>8 DEF LifeInv

-----------------------------------------------------------------------------
(* MM answers a process whose call it has taken.                           *)
AnswersTo(pc, next, c) ==
  \/ pc = "reply" /\ next = "receive" /\ c = mm_src
  \/ pc = "wait_none" /\ next = "receive" /\ c = mm_src
  \/ pc = "buddy_send" /\ next = "buddy_await" /\ c = mm_src
  \/ pc = "fork_child" /\ next = "reply" /\ c = mm_who
  \/ pc = "cleanup_send" /\ next = "cleanup_free" /\ c = p_parent[mm_who]

LEMMA MmAnswersKeeps ==
  ASSUME LifeInv, NEW pc, NEW next, NEW c, AnswersTo(pc, next, c), MMSend(pc, c, Answer, next)
  PROVE  LifeInv'
<1>1. /\ mm_pc = pc /\ msg_send(MM, c, Answer) /\ mm_pc' = next
      /\ UNCHANGED <<userVars, p_parent, mm_src, mm_type, mm_who, mm_load, astray, mm_nth, fs_pc>>
  BY DEF MMSend
<1>2. MM \in Proc /\ FS # MM /\ Kernel /\ Answer \in Type
  BY Folk DEF LifeInv
<1>3. callOf[MM] = Unblocked
  <2>1. Running(MM)
    BY <1>1 DEF msg_send, SendDeadlock, SendHandOff, SendBlock
  <2>2. QED
    BY <1>2, <2>1, BitsOf
<1>4. c \in User /\ Taken(c, MM)
  BY <1>1, <1>3, ServingIsTaken, Types DEF AnswersTo, LifeInv, MmRole, ForkPcs
<1>5. /\ stage[c] # "idle" /\ request[c] \in CallType /\ Serv(c) = MM
      /\ callOf[c] \in {Unblocked, RecvFrom(MM)} /\ ~ Free(c) /\ ~ Waits(c)
      /\ c \in Proc /\ c # FS /\ c # MM
  BY <1>4, TakenIs, Folk DEF Serv
<1>6. ~ deadlock(MM, c)
  <2>1. \A w \in Proc : callOf[c] # SendTo(w)
    BY <1>5, Words
  <2>2. QED
    BY <1>2, <1>5, <2>1, Circleless
<1>7. /\ Kernel' /\ BitsKept
      /\ \A q \in Proc : q # MM /\ q # c => callOf'[q] = callOf[q] /\ mbuf'[q] = mbuf[q]
      /\ \/ /\ callOf[c] \in {RecvFrom(MM), RecvFrom(ANY)}
            /\ callOf'[c] = Unblocked /\ mbuf'[c] = Signed(MM, Answer)
            /\ callOf'[MM] = Unblocked
         \/ /\ callOf[c] \notin {RecvFrom(MM), RecvFrom(ANY)}
            /\ callOf'[MM] = SendTo(c) /\ mbuf'[MM] = Signed(MM, Answer)
            /\ callOf'[c] = callOf[c] /\ mbuf'[c] = mbuf[c]
  BY <1>1, <1>2, <1>5, <1>6, KernelSends
<1>8. stage' = stage /\ request' = request /\ still' = still
  BY <1>1 DEF userVars
<1>9. \A q \in User : (Free(q)' <=> Free(q)) /\ (Waits(q)' <=> Waits(q))
  BY <1>7, Folk DEF BitsKept
<1>10. \A q \in {FS, MM} : ~ Waits(q)' /\ ~ Free(q)'
  BY <1>7, FsIs, Folk DEF BitsKept
<1>11. \A q \in User \ {c} : Same(q) /\ \A s \in {FS, MM} : Taken(q, s)' <=> Taken(q, s)
  <2>1. \A q \in User \ {c} : Same(q)
    BY <1>7, <1>8, <1>9, Folk DEF Same
  <2>2. QED
    BY <2>1, UserKept
<1>12. Tree' /\ LifeTypeOK'
  <2>1. mm_pc # "adopt" /\ mm_pc' \in {"receive", "buddy_await", "reply", "cleanup_free"}
    BY <1>1 DEF AnswersTo
  <2>2. Tree'
    BY <1>1, <1>9, <2>1, TreeKept
  <2>3. QED
    BY <1>1, <1>7, <1>8, <2>1, <2>2 DEF LifeInv, Kernel, LifeTypeOK
<1>13. FsFits'
  <2>1. callOf'[FS] = callOf[FS] /\ mbuf'[FS] = mbuf[FS]
    BY <1>2, <1>5, <1>7, Folk
  <2>2. ASSUME NEW q \in User, Taken(q, FS)
        PROVE  Taken(q, FS)' /\ (callOf[FS] = SendTo(q) => callOf'[q] = Unblocked)
    <3>1. q # c
      BY <1>2, <1>5, <2>2 DEF Taken
    <3>2. Same(q) /\ Taken(q, FS)'
      BY <1>11, <2>2, <3>1
    <3>3. QED
      BY <3>2, Senders, Folk DEF Same
  <2>3. mm_pc \notin Asking
    BY <1>1 DEF AnswersTo, Asking
  <2>4. QED
    BY <1>1, <1>3, <2>1, <2>2, <2>3, MmQuietFs
<1>14. MmRole'
  <2>1. mm_pc' = "cleanup_free" => mm_pc = "cleanup_send"
    BY <1>1 DEF AnswersTo
  <2>2. mm_pc' \in {"receive", "buddy_await", "reply", "cleanup_free"}
    BY <1>1 DEF AnswersTo
  <2>3. mm_pc = "cleanup_send" => Buries(mm_who)' /\ Serving(mm_type)' /\ ~ Free(mm_who)'
    BY <1>1, <1>8, <1>9, BurialKept DEF ExitPcs
  <2>4. QED
    BY <1>1, <2>1, <2>2, <2>3 DEF LifeInv, MmRole, ForkPcs, ExitPcs
<1>15. mm_pc' \in {"reply", "cleanup_free"} => c # mm_src
  BY <1>1, <1>8 DEF AnswersTo, LifeInv, MmRole, Buries, Serving, ForkPcs, ExitPcs
<1>16. \A q \in User \ {c} : MmServes(q) <=> mm_pc' \in {"reply", "cleanup_free"} /\ q = mm_src
  BY <1>1, <1>3, ServesFree DEF ServesNow, AnswersTo, ForkPcs
<1>17. CASE callOf[c] = RecvFrom(MM)
  <2>1. callOf'[c] = Unblocked /\ mbuf'[c] = Signed(MM, Answer) /\ callOf'[MM] = Unblocked
    BY <1>7, <1>17
  <2>2. stage[c] = "waiting" /\ Serv(c)' = MM
    <3>1. stage[c] = "waiting"
      BY <1>4, <1>17, Words DEF Taken
    <3>2. Serv(c)' = Serv(c)
      BY <1>8 DEF Serv, ServerOf
    <3>3. QED
      BY <1>5, <3>1, <3>2
  <2>3. UsersFit'
    <3>1. UserIs(c)'
      BY <1>5, <1>8, <1>9, <1>4, <2>1, <2>2 DEF UserIs, Unblocked, RV!NoCall, Signed, Answer
    <3>2. (request[c] = "EXIT" => c # INIT_PID) /\ request[c] # "none"
      BY <1>4, <1>5 DEF LifeInv, UsersFit
    <3>3. Fits(c)'
      BY <1>4, <1>5, <1>8, <1>9, <3>1, <3>2 DEF Fits
    <3>4. {c} \in SUBSET User /\ \A q \in {c} : Fits(q)'
      BY <1>4, <3>3
    <3>5. QED
      BY <1>10, <1>11, <3>4, UsersKept
  <2>4. ~ Taken(c, MM)'
    <3>1. callOf'[c] # RecvFrom(MM)'
      BY <2>1 DEF Unblocked, RecvFrom, RV!NoCall, RV!RecvFrom
    <3>2. QED
      BY <1>8, <2>2, <3>1 DEF Taken
  <2>5. \A q \in User : MmServes(q)' <=> mm_pc' \in {"reply", "cleanup_free"} /\ q = mm_src
    BY <1>1, <2>1, ServesFreeNext DEF ServesNow, AnswersTo, ForkPcs
  <2>6. Accounted'
    BY <1>2, <1>4, <1>11, <1>15, <1>16, <2>4, <2>5 DEF LifeInv, Accounted
  <2>7. MmCall'
    BY <2>1 DEF MmCall, Unblocked, RV!NoCall
  <2>8. QED
    BY <1>7, <1>12, <1>13, <1>14, <2>3, <2>6, <2>7 DEF LifeInv
<1>18. CASE callOf[c] = Unblocked
  <2>1. /\ callOf'[MM] = SendTo(c) /\ mbuf'[MM] = Signed(MM, Answer)
        /\ callOf'[c] = Unblocked /\ mbuf'[c] = mbuf[c]
    BY <1>7, <1>18, Words
  <2>2. \A q \in User : Same(q)
    BY <1>8, <1>9, <1>11, <1>18, <2>1 DEF Same
  <2>3. UsersFit' /\ \A q \in User : \A s \in {FS, MM} : Taken(q, s)' <=> Taken(q, s)
    BY <1>10, <2>2, AllUsersKept
  <2>4. \A q \in User : MmServes(q)' <=> q = c \/ (mm_pc' \in {"reply", "cleanup_free"} /\ q = mm_src)
    <3>1. /\ \A q : callOf'[MM] = SendTo(q)' <=> q = c
          /\ callOf'[MM] # Unblocked' /\ callOf'[MM] # RecvFrom(mm_src)'
      BY <2>1, CallsDiffer DEF Unblocked, SendTo, RecvFrom, RV!NoCall, RV!SendTo, RV!RecvFrom
    <3>2. QED
      BY <1>1, <3>1 DEF MmServes, AnswersTo, ForkPcs
  <2>5. Accounted'
    <3>1. \A q \in User \ {c} : Taken(q, MM)' <=> MmServes(q)'
      BY <1>16, <2>3, <2>4 DEF LifeInv, Accounted
    <3>2. QED
      BY <1>4, <2>3, <2>4, <3>1 DEF Accounted
  <2>6. MmCall'
    <3>1. MmAnswers(c)'
      BY <2>1 DEF MmAnswers, Unblocked, SendTo, RV!NoCall, RV!SendTo, Signed, Answer
    <3>2. \/ mm_pc' \in {"receive", "buddy_await"}
          \/ mm_pc' \in {"cleanup_free", "reply"} /\ c # mm_src'
      BY <1>1, <1>15 DEF AnswersTo
    <3>3. QED
      BY <1>4, <3>1, <3>2 DEF MmCall
  <2>7. QED
    BY <1>7, <1>12, <1>13, <1>14, <2>3, <2>5, <2>6 DEF LifeInv
<1>19. QED
  BY <1>5, <1>17, <1>18

(* MM asks FS, on behalf of a caller.                                      *)
Asks(pc, next, t) ==
  \/ pc = "fork_fs" /\ next = "fork_fs_wait" /\ t = "FORK"
  \/ pc = "exit_fs" /\ next = "exit_fs_wait" /\ t = "EXIT"
  \/ pc = "exec_fs" /\ next = "exec_fs_wait" /\ t = "OPEN"

LEMMA MmAsksKeeps ==
  ASSUME LifeInv, NEW pc, NEW next, NEW t, Asks(pc, next, t), MMSend(pc, FS, t, next)
  PROVE  LifeInv'
<1>1. /\ mm_pc = pc /\ msg_send(MM, FS, t) /\ mm_pc' = next
      /\ UNCHANGED <<userVars, p_parent, mm_src, mm_type, mm_who, mm_load, astray, mm_nth, fs_pc>>
  BY DEF MMSend
<1>2. MM \in Proc /\ FS \in Proc /\ FS # MM /\ Kernel /\ t \in Type
  BY Folk DEF LifeInv, Asks, CallType
<1>3. callOf[MM] = Unblocked
  <2>1. Running(MM)
    BY <1>1 DEF msg_send, SendDeadlock, SendHandOff, SendBlock
  <2>2. QED
    BY <1>2, <2>1, BitsOf
<1>4. FsOwes(MM) <=> FALSE
  BY <1>1, <1>3, Words DEF FsOwes, MmTaken, Asks, Asking
<1>5. ~ deadlock(MM, FS)
  <2>1. \A w \in Proc : callOf[FS] = SendTo(w) => w # MM /\ \A x \in Proc : callOf[w] # SendTo(x)
    BY <1>2, <1>4, Senders, Words
  <2>2. QED
    BY <1>2, <2>1, Circleless
<1>6. /\ Kernel' /\ BitsKept
      /\ \A q \in Proc : q # MM /\ q # FS => callOf'[q] = callOf[q] /\ mbuf'[q] = mbuf[q]
      /\ \/ /\ callOf[FS] \in {RecvFrom(MM), RecvFrom(ANY)}
            /\ callOf'[FS] = Unblocked /\ mbuf'[FS] = Signed(MM, t)
            /\ callOf'[MM] = Unblocked
         \/ /\ callOf[FS] \notin {RecvFrom(MM), RecvFrom(ANY)}
            /\ callOf'[MM] = SendTo(FS) /\ mbuf'[MM] = Signed(MM, t)
            /\ callOf'[FS] = callOf[FS] /\ mbuf'[FS] = mbuf[FS]
  BY <1>1, <1>2, <1>5, FsIs, KernelSends
<1>7. stage' = stage /\ request' = request /\ still' = still
  BY <1>1 DEF userVars
<1>8. \A q \in User : (Free(q)' <=> Free(q)) /\ (Waits(q)' <=> Waits(q))
  BY <1>6, Folk DEF BitsKept
<1>9. \A q \in {FS, MM} : ~ Waits(q)' /\ ~ Free(q)'
  BY <1>6, FsIs, Folk DEF BitsKept
<1>10. \A q \in User : Same(q)
  BY <1>6, <1>7, <1>8, Folk DEF Same
<1>11. UsersFit' /\ \A q \in User : \A s \in {FS, MM} : Taken(q, s)' <=> Taken(q, s)
  BY <1>9, <1>10, AllUsersKept
<1>12. mm_pc' \in Asking /\ mm_pc \in {"fork_fs", "exit_fs", "exec_fs"}
  BY <1>1 DEF Asks, Asking
<1>13. Tree' /\ LifeTypeOK'
  <2>1. Tree'
    BY <1>1, <1>8, <1>12, TreeKept
  <2>2. QED
    BY <1>1, <1>6, <1>7, <1>12, <2>1 DEF LifeInv, Kernel, LifeTypeOK, Asking
<1>14. MmRole'
  <2>1. mm_pc = "exit_fs" => Buries(mm_who)' /\ Serving(mm_type)' /\ ~ Free(mm_who)'
    BY <1>1, <1>7, <1>8, BurialKept DEF ExitPcs
  <2>2. QED
    BY <1>1, <1>7, <2>1 DEF LifeInv, MmRole, Serving, Asks, ForkPcs, ExitPcs
<1>15. \A q \in User : ServesNow(q)' <=> ServesNow(q)
  BY <1>1 DEF ServesNow, Asks, ForkPcs
<1>16. CASE callOf[FS] \in {RecvFrom(MM), RecvFrom(ANY)}
  <2>1. callOf'[FS] = Unblocked /\ mbuf'[FS] = Signed(MM, t) /\ callOf'[MM] = Unblocked
    BY <1>6, <1>16
  <2>2. fs_pc = "reply"
    <3>1. callOf[FS] # Unblocked /\ \A c : callOf[FS] # SendTo(c)
      BY <1>16, Words
    <3>2. QED
      BY <3>1, FsIs DEF LifeInv, LifeTypeOK
  <2>3. FsFits'
    <3>1. FsHolds(MM)' /\ FsOwes(MM)'
      BY <1>1, <1>12, <2>1, <2>2 DEF FsHolds, FsOwes, MmTaken, Asking, Signed, Unblocked, RV!NoCall
    <3>2. QED
      BY <3>1 DEF FsFits
  <2>4. Accounted'
    BY <1>3, <1>11, <1>15, <2>1, ServesFree, ServesFreeNext DEF LifeInv, Accounted
  <2>5. MmCall'
    BY <2>1 DEF MmCall, Unblocked, RV!NoCall
  <2>6. QED
    BY <1>6, <1>11, <1>13, <1>14, <2>3, <2>4, <2>5 DEF LifeInv
<1>17. CASE callOf[FS] \notin {RecvFrom(MM), RecvFrom(ANY)}
  <2>1. /\ callOf'[MM] = SendTo(FS) /\ mbuf'[MM] = Signed(MM, t)
        /\ callOf'[FS] = callOf[FS] /\ mbuf'[FS] = mbuf[FS]
    BY <1>6, <1>17
  <2>2. FsFits'
    <3>1. \A c \in User : Taken(c, FS) =>
            Taken(c, FS)' /\ (callOf[FS] = SendTo(c) => callOf'[c] = Unblocked)
      BY <1>10, <1>11, Senders, Folk DEF Same
    <3>2. QED
      BY <1>1, <1>3, <1>12, <2>1, <3>1, MmQuietFs DEF Asking
  <2>3. Accounted'
    <3>1. /\ \A q \in User : callOf'[MM] # SendTo(q)'
          /\ callOf'[MM] # Unblocked' /\ callOf'[MM] # RecvFrom(mm_src)'
      BY <2>1, CallsDiffer, Folk DEF Unblocked, SendTo, RecvFrom, RV!NoCall, RV!SendTo, RV!RecvFrom
    <3>2. \A q \in User : MmServes(q)' <=> ServesNow(q)'
      BY <1>12, <3>1 DEF MmServes, ServesNow, Asking
    <3>3. QED
      BY <1>3, <1>11, <1>15, <3>2, ServesFree DEF LifeInv, Accounted
  <2>4. MmCall'
    BY <1>12, <2>1 DEF MmCall, SendTo, RV!SendTo, Signed, Asking
  <2>5. QED
    BY <1>6, <1>11, <1>13, <1>14, <2>2, <2>3, <2>4 DEF LifeInv
<1>18. QED
  BY <1>16, <1>17

(* MM hears what FS answered.                                              *)
Awaits(pc, next) ==
  \/ pc = "fork_fs_wait" /\ next = "fork_child"
  \/ pc = "exit_fs_wait" /\ next = "exit_parent"
  \/ pc = "exec_fs_wait" /\ next = "exec_next"

LEMMA MmAwaitsKeeps ==
  ASSUME LifeInv, NEW pc, NEW next, Awaits(pc, next), MMAwaitFS(pc, next)
  PROVE  LifeInv'
<1>1. /\ mm_pc = pc /\ msg_receive(MM, FS) /\ mm_pc' = next
      /\ UNCHANGED <<userVars, p_parent, mm_src, mm_type, mm_who, mm_load, astray, mm_nth, fs_pc>>
  BY DEF MMAwaitFS
<1>2. MM \in Proc /\ FS \in Proc /\ FS \in Proc \cup {ANY} /\ FS # ANY /\ FS # MM /\ Kernel
  BY Folk DEF LifeInv
<1>3. \A f \in Proc : callOf[f] = SendTo(MM) => ~ Free(f)
  BY Senders
<1>4. /\ Kernel' /\ BitsKept /\ callOf[MM] = Unblocked
      /\ \A q \in Proc : q # MM => mbuf'[q] = mbuf[q]
      /\ \/ \E f \in Proc :
              /\ callOf[f] = SendTo(MM) /\ FS \in {f, ANY} /\ f # MM
              /\ callOf'[f] = Unblocked /\ mbuf'[MM] = mbuf[f]
              /\ \A q \in Proc : q # f => callOf'[q] = callOf[q]
         \/ /\ \A f \in Proc : callOf[f] = SendTo(MM) => FS \notin {f, ANY}
            /\ callOf'[MM] = RecvFrom(FS)
            /\ \A q \in Proc : q # MM => callOf'[q] = callOf[q]
  BY <1>1, <1>2, <1>3, KernelReceives
<1>5. stage' = stage /\ request' = request /\ still' = still
  BY <1>1 DEF userVars
<1>6. \A q \in User : (Free(q)' <=> Free(q)) /\ (Waits(q)' <=> Waits(q))
  BY <1>4, Folk DEF BitsKept
<1>7. \A q \in {FS, MM} : ~ Waits(q)' /\ ~ Free(q)'
  BY <1>4, FsIs, Folk DEF BitsKept
<1>8. \A q \in User : Same(q)
  BY <1>2, <1>4, <1>5, <1>6, Folk DEF Same
<1>9. UsersFit' /\ \A q \in User : \A s \in {FS, MM} : Taken(q, s)' <=> Taken(q, s)
  BY <1>7, <1>8, AllUsersKept
<1>10. mm_pc \in Asking /\ mm_pc' \in {"fork_child", "exit_parent", "exec_next"}
  BY <1>1 DEF Awaits, Asking
<1>11. Tree' /\ LifeTypeOK'
  <2>1. Tree'
    BY <1>1, <1>6, <1>10, TreeKept DEF Asking
  <2>2. QED
    BY <1>1, <1>4, <1>5, <1>10, <2>1 DEF LifeInv, Kernel, LifeTypeOK
<1>12. MmRole'
  <2>1. mm_pc = "exit_fs_wait" => Buries(mm_who)' /\ Serving(mm_type)' /\ ~ Free(mm_who)'
    BY <1>1, <1>5, <1>6, BurialKept DEF ExitPcs
  <2>2. QED
    BY <1>1, <1>5, <2>1 DEF LifeInv, MmRole, Serving, Awaits, ForkPcs, ExitPcs
<1>13. \A q \in User : ServesNow(q)' <=> ServesNow(q)
  BY <1>1 DEF ServesNow, Awaits, ForkPcs
<1>14. FsOwes(MM)
  BY <1>4, <1>10 DEF FsOwes, MmTaken
<1>15. CASE callOf[FS] = SendTo(MM)
  <2>1. callOf'[FS] = Unblocked /\ callOf'[MM] = Unblocked /\ fs_pc = "receive"
    <3>1. callOf'[FS] = Unblocked /\ callOf'[MM] = callOf[MM]
      BY <1>2, <1>4, <1>15
    <3>2. QED
      BY <1>4, <1>15, <3>1, FsIs DEF FsAnswers
  <2>2. FsFits'
    BY <1>1, <2>1 DEF FsFits, FsIdle, Unblocked, RV!NoCall
  <2>3. Accounted'
    BY <1>4, <1>9, <1>13, <2>1, ServesFree, ServesFreeNext DEF LifeInv, Accounted
  <2>4. MmCall'
    BY <2>1 DEF MmCall, Unblocked, RV!NoCall
  <2>5. QED
    BY <1>4, <1>9, <1>11, <1>12, <2>2, <2>3, <2>4 DEF LifeInv
<1>16. CASE callOf[FS] # SendTo(MM)
  <2>1. callOf'[MM] = RecvFrom(FS) /\ callOf'[FS] = callOf[FS] /\ mbuf'[FS] = mbuf[FS]
    BY <1>2, <1>4, <1>16
  <2>2. FsFits'
    <3>1. FsOwes(MM)'
      BY <1>10, <2>1 DEF FsOwes, MmTaken, Asked, RecvFrom, RV!RecvFrom
    <3>2. \A c \in User : FsOwes(c) => FsOwes(c)' /\ (callOf[FS] = SendTo(c) => callOf'[c] = Unblocked)
      BY <1>8, <1>9, Senders, Folk DEF FsOwes, Same
    <3>3. \A c \in User \cup {MM} : FsOwes(c) => /\ FsOwes(c)'
                                               /\ (callOf[FS] = SendTo(c) => callOf'[c] = Unblocked)
      BY <1>16, <3>1, <3>2
    <3>4. QED
      BY <1>1, <2>1, <3>3, FsKept
  <2>3. Accounted'
    <3>1. /\ \A q \in User : callOf'[MM] # SendTo(q)'
          /\ callOf'[MM] # Unblocked' /\ callOf'[MM] # RecvFrom(mm_src)'
      <4>1. RecvFrom(FS) # RecvFrom(mm_src')
        BY <1>1, Words, Types
      <4>2. QED
        BY <2>1, <4>1 DEF Unblocked, SendTo, RecvFrom, RV!NoCall, RV!SendTo, RV!RecvFrom
    <3>2. \A q \in User : MmServes(q)' <=> ServesNow(q)'
      BY <1>10, <3>1 DEF MmServes, ServesNow
    <3>3. QED
      BY <1>4, <1>9, <1>13, <3>2, ServesFree DEF LifeInv, Accounted
  <2>4. MmCall'
    BY <1>10, <2>1 DEF MmCall, RecvFrom, RV!RecvFrom, Asked
  <2>5. QED
    BY <1>4, <1>9, <1>11, <1>12, <2>2, <2>3, <2>4 DEF LifeInv
<1>17. QED
  BY <1>15, <1>16

LEMMA MMBuddyAwaitKeeps ==
  ASSUME LifeInv, MMBuddyAwait
  PROVE  LifeInv'
<1>0. PICK f : f = mm_src
  OBVIOUS
<1>1. /\ mm_pc = "buddy_await" /\ msg_receive(MM, f) /\ mm_pc' = NextRound /\ mm_nth' = mm_nth + 1
      /\ UNCHANGED <<userVars, p_parent, mm_src, mm_type, mm_who, mm_load, astray, fs_pc>>
  BY <1>0 DEF MMBuddyAwait
<1>2. MM \in Proc /\ f \in User /\ f \in Proc \cup {ANY} /\ f # ANY /\ f # MM /\ f # FS /\ FS # MM /\ Kernel
  BY <1>0, Types, Folk DEF LifeInv
<1>3. \A x \in Proc : callOf[x] = SendTo(MM) => ~ Free(x)
  BY Senders
<1>4. /\ Kernel' /\ BitsKept /\ callOf[MM] = Unblocked
      /\ \A q \in Proc : q # MM => mbuf'[q] = mbuf[q]
      /\ \/ \E x \in Proc :
              /\ callOf[x] = SendTo(MM) /\ f \in {x, ANY} /\ x # MM
              /\ callOf'[x] = Unblocked /\ mbuf'[MM] = mbuf[x]
              /\ \A q \in Proc : q # x => callOf'[q] = callOf[q]
         \/ /\ \A x \in Proc : callOf[x] = SendTo(MM) => f \notin {x, ANY}
            /\ callOf'[MM] = RecvFrom(f)
            /\ \A q \in Proc : q # MM => callOf'[q] = callOf[q]
  BY <1>1, <1>2, <1>3, KernelReceives
<1>5. stage' = stage /\ request' = request /\ still' = still /\ mm_src' = f
  BY <1>0, <1>1 DEF userVars
<1>6. \A q \in User : (Free(q)' <=> Free(q)) /\ (Waits(q)' <=> Waits(q))
  BY <1>4, Folk DEF BitsKept
<1>7. \A q \in {FS, MM} : ~ Waits(q)' /\ ~ Free(q)'
  BY <1>4, FsIs, Folk DEF BitsKept
<1>8. mm_pc' \in {"buddy_send", "reply"}
  BY <1>1 DEF NextRound
<1>9. Tree' /\ LifeTypeOK'
  <2>1. Tree'
    BY <1>1, <1>6, TreeKept
  <2>2. QED
    BY <1>1, <1>4, <1>5, <1>8, <2>1 DEF LifeInv, Kernel, LifeTypeOK
<1>10. \A q \in User : callOf'[q] = callOf[q] => Same(q)
  BY <1>4, <1>5, <1>6, Folk DEF Same
<1>11. \A q \in User : ~ Taken(q, MM)
  BY <1>1, <1>4, ServesFree DEF LifeInv, Accounted, ServesNow, ForkPcs
<1>12. callOf'[FS] = callOf[FS] /\ mbuf'[FS] = mbuf[FS]
  BY <1>2, <1>4, Folk
<1>13. MmRole'
  BY <1>8 DEF MmRole, ForkPcs, ExitPcs
<1>14. CASE callOf[f] = SendTo(MM)
  <2>1. /\ callOf'[f] = Unblocked /\ callOf'[MM] = Unblocked
        /\ \A q \in Proc : q # f => callOf'[q] = callOf[q]
    BY <1>2, <1>4, <1>14, Folk
  <2>2. ~ Free(f) /\ ~ Waits(f) /\ Serv(f) = MM /\ stage[f] = "called"
    BY <1>2, <1>14, Senders, Folk
  <2>3. \A q \in User \ {f} : Same(q)
    BY <1>10, <2>1, Folk
  <2>4. Serv(f)' = MM
    BY <1>5, <2>2 DEF Serv, ServerOf
  <2>5. UsersFit'
    <3>1. UserIs(f)'
      BY <1>5, <2>1, <2>2 DEF UserIs, Unblocked, RV!NoCall
    <3>2. (request[f] = "EXIT" => f # INIT_PID) /\ request[f] # "none"
      BY <1>2, <2>2 DEF LifeInv, UsersFit
    <3>3. Fits(f)'
      BY <1>2, <1>5, <1>6, <2>2, <3>1, <3>2 DEF Fits
    <3>4. {f} \in SUBSET User /\ \A q \in {f} : Fits(q)'
      BY <1>2, <3>3
    <3>5. QED
      BY <1>7, <2>3, <3>4, UsersKept
  <2>6. \A q \in User : Taken(q, MM)' <=> q = f
    <3>1. Taken(f, MM)'
      BY <1>2, <1>5, <1>6, <2>1, <2>2, <2>4 DEF Taken, Unblocked, RV!NoCall
    <3>2. QED
      BY <1>11, <2>3, <3>1, UserKept
  <2>7. FsFits'
    <3>1. ASSUME NEW c \in User, Taken(c, FS)
          PROVE  Taken(c, FS)' /\ (callOf[FS] = SendTo(c) => callOf'[c] = Unblocked)
      <4>1. c # f
        BY <1>2, <2>2, <3>1 DEF Taken
      <4>2. Same(c) /\ Taken(c, FS)'
        BY <2>3, <3>1, <4>1, UserKept
      <4>3. QED
        BY <4>2, Senders, Folk DEF Same
    <3>2. QED
      BY <1>1, <1>4, <1>12, <3>1, MmQuietFs DEF Asking
  <2>8. \A q \in User : MmServes(q)' <=> q = f
    BY <1>5, <1>8, <2>1, ServesFreeNext DEF ServesNow, ForkPcs
  <2>9. MmCall'
    BY <2>1 DEF MmCall, Unblocked, RV!NoCall
  <2>10. QED
    BY <1>4, <1>9, <1>13, <2>5, <2>6, <2>7, <2>8, <2>9 DEF LifeInv, Accounted
<1>15. CASE callOf[f] # SendTo(MM)
  <2>1. callOf'[MM] = RecvFrom(f) /\ \A q \in Proc : q # MM => callOf'[q] = callOf[q]
    BY <1>2, <1>4, <1>15
  <2>2. \A q \in User : Same(q)
    BY <1>10, <2>1, Folk
  <2>3. UsersFit' /\ \A q \in User : \A s \in {FS, MM} : Taken(q, s)' <=> Taken(q, s)
    BY <1>7, <2>2, AllUsersKept
  <2>4. FsFits'
    <3>1. \A c \in User : Taken(c, FS) =>
            Taken(c, FS)' /\ (callOf[FS] = SendTo(c) => callOf'[c] = Unblocked)
      BY <2>2, <2>3, Senders, Folk DEF Same
    <3>2. QED
      BY <1>1, <1>4, <1>12, <3>1, MmQuietFs DEF Asking
  <2>5. \A q \in User : ~ MmServes(q)'
    <3>1. /\ \A q : callOf'[MM] # SendTo(q)'
          /\ callOf'[MM] = RecvFrom(mm_src)' /\ callOf'[MM] # Unblocked'
      BY <1>5, <2>1 DEF Unblocked, SendTo, RecvFrom, RV!NoCall, RV!SendTo, RV!RecvFrom
    <3>2. QED
      BY <1>8, <3>1 DEF MmServes, ForkPcs
  <2>6. MmCall'
    BY <1>5, <1>8, <2>1 DEF MmCall, RecvFrom, RV!RecvFrom
  <2>7. QED
    BY <1>4, <1>9, <1>11, <1>13, <2>3, <2>4, <2>5, <2>6 DEF LifeInv, Accounted
<1>16. QED
  BY <1>14, <1>15

-----------------------------------------------------------------------------
(* MM and the entries.                                                     *)
LEMMA LeastOf ==
  ASSUME NEW S \in SUBSET Nat, S # {}
  PROVE  \E m \in S : \A o \in S : m <= o
<1> DEFINE Less == {xy \in Nat \X Nat : xy[1] < xy[2]}
<1>1. IsWellFoundedOn(OpToRel(<, Nat), Nat)
  BY NatLessThanWellFounded, Zenon
<1>2. OpToRel(<, Nat) = Less
  BY Zenon DEF OpToRel
<1>3. IsWellFoundedOn(Less, Nat)
  BY <1>1, <1>2, Zenon
<1>4. \A x, y \in Nat : ~ (<<x, y>> \in Less) => y <= x
  OBVIOUS
<1> HIDE DEF Less
<1>5. PICK m \in S : \A o \in S : ~ (<<o, m>> \in Less)
  BY <1>3, WFMin
<1>6. QED
  BY <1>4, <1>5

(* The entry that fork takes.                                              *)
LEMMA ForkTakes ==
  ASSUME LifeInv, mm_pc = "fork_copy"
  PROVE  LET kid == CHOOSE s \in FreeSlots : \A o \in FreeSlots : s <= o
         IN  kid \in Slot /\ Free(kid)
<1>1. FreeSlots # {} /\ FreeSlots \in SUBSET Nat
  BY LifeAssumption DEF LifeInv, MmRole, FreeSlots, User
<1>2. \E m \in FreeSlots : \A o \in FreeSlots : m <= o
  BY <1>1, LeastOf
<1> DEFINE kid == CHOOSE s \in FreeSlots : \A o \in FreeSlots : s <= o
<1>3. kid \in FreeSlots
  BY <1>2
<1>4. kid \in Slot /\ Free(kid)
  BY <1>3 DEF FreeSlots, Free
<1>5. QED
  BY <1>4

LEMMA MMForkRegsKeeps ==
  ASSUME LifeInv, MMForkRegs
  PROVE  LifeInv'
<1>1. /\ Running(MM) /\ mm_pc = "fork_regs" /\ mm_pc' = "fork_copy" /\ mm_load' = p_flags[mm_src]
      /\ UNCHANGED <<ipcVars, userVars, p_parent, fs_pc, mm_src, mm_type, mm_who, astray, mm_nth>>
  BY DEF MMForkRegs, MMGoto
<1>2. stage' = stage /\ request' = request /\ still' = still /\ p_flags' = p_flags
  BY <1>1 DEF userVars, ipcVars
<1>3. /\ Kernel' /\ UsersFit' /\ FsFits' /\ MmCall' /\ callOf[MM] = Unblocked
      /\ \A q \in User : Free(q)' <=> Free(q)
      /\ (\A q \in User : ServesNow(q)' <=> ServesNow(q)) => Accounted'
  BY <1>1, <1>2, MmSilent DEF Asking
<1>4. Accounted'
  <2>1. \A q \in User : ServesNow(q)' <=> ServesNow(q)
    BY <1>1 DEF ServesNow, ForkPcs
  <2>2. QED
    BY <1>3, <2>1
<1>5. MmRole'
  BY <1>1, <1>2 DEF LifeInv, MmRole, Serving, FreeSlots, ForkPcs, ExitPcs
<1>6. Tree'
  BY <1>1, <1>3, TreeKept
<1>7. LifeTypeOK'
  <2>1. mm_load' \in SUBSET Flag
    BY <1>1, Types DEF LifeInv, LifeTypeOK, TypeOK
  <2>2. QED
    BY <1>1, <1>2, <1>3, <2>1 DEF LifeInv, Kernel, LifeTypeOK
<1>8. QED
  BY <1>3, <1>4, <1>5, <1>6, <1>7 DEF LifeInv

LEMMA MMForkCopyKeeps ==
  ASSUME LifeInv, MMForkCopy, ~ astray'
  PROVE  LifeInv'
<1>0. PICK kid : kid = CHOOSE s \in FreeSlots : \A o \in FreeSlots : s <= o
  OBVIOUS
<1>s. PICK s : s = mm_src
  OBVIOUS
<1>1. /\ Running(MM) /\ mm_pc = "fork_copy" /\ mm_pc' = "fork_fs" /\ mm_who' = kid
      /\ p_flags' = [p_flags EXCEPT ![kid] = p_flags[s]]
      /\ p_msg' = [p_msg EXCEPT ![kid] = p_msg[s]]
      /\ p_sendto' = [p_sendto EXCEPT ![kid] = p_sendto[s]]
      /\ p_recvfrom' = [p_recvfrom EXCEPT ![kid] = p_recvfrom[s]]
      /\ has_int_msg' = [has_int_msg EXCEPT ![kid] = has_int_msg[s]]
      /\ q_sending' = [q_sending EXCEPT ![kid] = q_sending[s]]
      /\ mbuf' = [mbuf EXCEPT ![kid] = mbuf[s]]
      /\ stage' = [stage EXCEPT ![kid] = stage[s]]
      /\ request' = [request EXCEPT ![kid] = request[s]]
      /\ still' = [still EXCEPT ![kid] = still[s]]
      /\ p_parent' = [p_parent EXCEPT ![kid] = s]
      /\ mm_load' = {} /\ astray' \in BOOLEAN
      /\ UNCHANGED <<panic, mm_src, mm_type, mm_nth, fs_pc>>
  BY <1>0, <1>s DEF MMForkCopy, GoesAstrayIf
<1>2. kid \in Slot /\ Free(kid) /\ kid \in User /\ kid \in Proc /\ kid # FS /\ kid # MM
  BY <1>0, <1>1, ForkTakes, Folk
<1>3. /\ s \in User /\ s \in Proc /\ s # FS /\ s # MM /\ mm_src = s /\ mm_src' = s
      /\ MM \in Proc /\ FS \in Proc /\ FS # MM /\ Kernel
  BY <1>s, <1>1, Types, Folk DEF LifeInv
<1>4. Taken(s, MM) /\ request[s] = "FORK"
  BY <1>s, <1>1, ServingIsTaken DEF LifeInv, MmRole, Serving
<1>5. /\ stage[s] \in {"called", "waiting"} /\ Serv(s) = MM
      /\ callOf[s] \in {Unblocked, RecvFrom(MM)} /\ ~ Free(s) /\ ~ Waits(s)
      /\ \A d : callOf[s] # SendTo(d)
  BY <1>3, <1>4, TakenIs, Types DEF Serv
<1>6. callOf[MM] = Unblocked
  BY <1>1, <1>3, BitsOf
<1>7. \A x \in Proc : callOf[x] # SendTo(s) /\ callOf[x] # SendTo(kid)
  <2>1. ASSUME NEW x \in Proc, NEW d \in {s, kid}, callOf[x] = SendTo(d) PROVE FALSE
    <3>1. d \in User /\ d # FS /\ d # MM /\ ~ Free(d)
      BY <1>2, <1>3, <2>1, Senders
    <3>2. d = s
      BY <1>2, <2>1, <3>1
    <3>3. x # MM /\ x \notin User
      BY <1>6, <2>1, <3>1, Senders, Words, Folk
    <3>4. x = FS /\ Taken(s, FS)
      BY <1>3, <2>1, <3>1, <3>2, <3>3, Senders, Folk DEF FsOwes
    <3>5. QED
      BY <1>3, <1>5, <3>4 DEF Taken
  <2>2. QED
    BY <2>1
<1>8. /\ Kernel' /\ s # kid
      /\ ~ Free(kid)' /\ ~ Waits(kid)' /\ callOf'[kid] = callOf[s] /\ mbuf'[kid] = mbuf[s]
      /\ \A q \in Proc : q # kid => /\ callOf'[q] = callOf[q] /\ mbuf'[q] = mbuf[q]
                                    /\ Free(q)' <=> Free(q)
                                    /\ Waits(q)' <=> Waits(q)
  BY <1>1, <1>2, <1>3, <1>5, <1>7, KernelCopies
<1>9. /\ stage'[kid] = stage[s] /\ request'[kid] = "FORK" /\ p_parent'[kid] = s
      /\ \A q \in User : q # kid => /\ stage'[q] = stage[q] /\ request'[q] = request[q]
                                    /\ p_parent'[q] = p_parent[q]
  BY <1>1, <1>2, <1>4, Types
<1>10. \A q \in User \ {kid} : Same(q) /\ \A d \in {FS, MM} : Taken(q, d)' <=> Taken(q, d)
  <2>1. \A q \in User \ {kid} : Same(q)
    BY <1>8, <1>9, Folk DEF Same
  <2>2. QED
    BY <2>1, UserKept
<1>11. \A q \in {FS, MM} : ~ Waits(q)' /\ ~ Free(q)'
  BY <1>2, <1>3, <1>8, FsIs
<1>12. Serv(kid)' = MM
  BY <1>9 DEF Serv, ServerOf
<1>13. Taken(kid, MM)' /\ UserIs(kid)'
  <2>1. \/ stage[s] = "called" /\ callOf[s] = Unblocked
        \/ stage[s] = "waiting" /\ callOf[s] = RecvFrom(MM)
    BY <1>4 DEF Taken
  <2>2. CASE stage[s] = "called" /\ callOf[s] = Unblocked
    <3>1. stage'[kid] = "called" /\ callOf'[kid] = Unblocked
      BY <1>8, <1>9, <2>2
    <3>2. QED
      BY <1>8, <1>12, <3>1 DEF Taken, UserIs, Unblocked, RV!NoCall
  <2>3. CASE stage[s] = "waiting" /\ callOf[s] = RecvFrom(MM)
    <3>1. stage'[kid] = "waiting" /\ callOf'[kid] = RecvFrom(MM)
      BY <1>8, <1>9, <2>3
    <3>2. QED
      BY <1>8, <1>12, <3>1 DEF Taken, UserIs, RecvFrom, RV!RecvFrom
  <2>4. QED
    BY <2>1, <2>2, <2>3
<1>14. UsersFit'
  <2>1. Fits(kid)'
    BY <1>8, <1>9, <1>13 DEF Fits
  <2>2. {kid} \in SUBSET User /\ \A q \in {kid} : Fits(q)'
    BY <1>2, <2>1
  <2>3. QED
    BY <1>10, <1>11, <2>2, UsersKept
<1>15. FsFits'
  <2>1. callOf'[FS] = callOf[FS] /\ mbuf'[FS] = mbuf[FS]
    BY <1>2, <1>3, <1>8
  <2>2. ASSUME NEW c \in User, Taken(c, FS)
        PROVE  Taken(c, FS)' /\ (callOf[FS] = SendTo(c) => callOf'[c] = Unblocked)
    <3>1. c # kid
      BY <1>2, <2>2 DEF Taken
    <3>2. QED
      BY <1>10, <2>2, <3>1, Senders, Folk DEF Same
  <2>3. QED
    BY <1>1, <1>6, <2>1, <2>2, MmQuietFs DEF Asking
<1>16. callOf'[MM] = Unblocked
  BY <1>2, <1>3, <1>6, <1>8
<1>17. Accounted'
  <2>1. \A q \in User : MmServes(q) <=> q = s
    BY <1>1, <1>3, <1>6, ServesFree DEF ServesNow, ForkPcs
  <2>2. \A q \in User : MmServes(q)' <=> q = s \/ q = kid
    BY <1>1, <1>3, <1>16, ServesFreeNext DEF ServesNow, ForkPcs
  <2>3. QED
    BY <1>10, <1>13, <2>1, <2>2 DEF LifeInv, Accounted
<1>18. MmCall' /\ MmRole'
  <2>1. MmCall'
    BY <1>16 DEF MmCall, Unblocked, RV!NoCall
  <2>2. Serving("FORK")'
    BY <1>3, <1>4, <1>8, <1>9 DEF Serving
  <2>3. QED
    BY <1>1, <1>3, <1>8, <2>1, <2>2 DEF MmRole, ForkPcs, ExitPcs
<1>19. Tree'
  <2>1. SUFFICES ASSUME NEW S \in SUBSET {x \in Slot : ~ Free(x)'}, S # {}
                 PROVE  \E y \in S : Up(y)' /\ p_parent'[y] \notin S
    BY DEF Tree
  <2>2. S \subseteq User /\ \A x \in S \ {kid} : x \in Slot /\ ~ Free(x)
    BY <1>8, Folk
  <2>3. CASE S = {kid}
    <3>1. ~ Free(s)'
      BY <1>3, <1>5, <1>8
    <3>2. Up(kid)'
      <4>1. \A q : p_parent'[kid] = q /\ ~ Free(q)' => ~ (Free(p_parent[kid])')
        BY DEF Free
      <4>2. QED
        BY <1>3, <1>9, <3>1, <4>1 DEF Up
    <3>3. QED
      BY <1>8, <1>9, <2>3, <3>2
  <2>4. CASE S # {kid}
    <3>1. S \ {kid} \in SUBSET {x \in Slot : ~ Free(x)} /\ S \ {kid} # {}
      BY <2>1, <2>2, <2>4
    <3>2. PICK y \in S \ {kid} : Up(y) /\ p_parent[y] \notin S \ {kid}
      BY <3>1 DEF LifeInv, Tree
    <3>3. p_parent[y] \in User /\ ~ Free(p_parent[y]) /\ p_parent[y] # kid
      BY <1>1, <1>2, <3>2 DEF Up
    <3>4. p_parent'[y] = p_parent[y] /\ FREE_SLOT \notin p_flags'[p_parent'[y]]
      <4>1. p_parent'[y] = p_parent[y] /\ y \in User
        BY <1>9, <2>2, <3>2
      <4>2. PICK q : q = p_parent[y]
        OBVIOUS
      <4>3. ~ Free(q)'
        BY <1>8, <3>3, <4>2, Folk
      <4>4. QED
        BY <4>1, <4>2, <4>3 DEF Free
    <3>5. Up(y)'
      BY <3>3, <3>4 DEF Up, Free
    <3>6. QED
      BY <3>2, <3>3, <3>4, <3>5
  <2>5. QED
    BY <2>3, <2>4
<1>20. LifeTypeOK'
  <2>1. mm_who' \in User /\ p_parent' \in [User -> User \cup {NO_TASK}]
    BY <1>1, <1>2, <1>3 DEF LifeInv, LifeTypeOK
  <2>2. /\ stage' \in [User -> {"idle", "called", "waiting"}]
        /\ request' \in [User -> CallType \cup {"none"}]
        /\ still' \in [User -> Seq({"OPEN", "BUDDY"})]
    BY <1>1, <1>3 DEF LifeInv, LifeTypeOK
  <2>3. QED
    BY <1>1, <1>8, <2>1, <2>2 DEF LifeInv, Kernel, LifeTypeOK
<1>21. QED
  BY <1>8, <1>14, <1>15, <1>17, <1>18, <1>19, <1>20 DEF LifeInv

(* The bit WAITING of a parent is cleared.                                 *)
LEMMA MMExitWakesKeeps ==
  ASSUME LifeInv, MMExitWakes
  PROVE  LifeInv'
<1>0. PICK par : par = p_parent[mm_who]
  OBVIOUS
<1>1. /\ Running(MM) /\ mm_pc = "exit_parent" /\ par \in User /\ Waits(par)
      /\ p_flags' = [p_flags EXCEPT ![par] = p_flags[par] \ {WAITING}]
      /\ mm_pc' = "cleanup_send"
      /\ UNCHANGED <<p_msg, p_sendto, p_recvfrom, has_int_msg, q_sending, mbuf, panic,
                     userVars, p_parent, mm_src, mm_type, mm_who, mm_load, astray, mm_nth, fs_pc>>
  BY <1>0 DEF MMExitWakes, ParentWaits, Waits
<1>2. /\ MM \in Proc /\ FS \in Proc /\ FS # MM /\ Kernel /\ par \in Proc /\ par # FS /\ par # MM
      /\ mm_src \in User /\ p_parent'[mm_who'] = par
  BY <1>0, <1>1, Types, Folk DEF LifeInv
<1>3. callOf[MM] = Unblocked
  BY <1>1, <1>2, BitsOf
<1>4. ~ Free(par) /\ (\A d : callOf[par] # SendTo(d)) /\ request[par] = "WAIT" /\ Serv(par) = MM
  BY <1>1, <1>2, BitsOf DEF LifeInv, UsersFit, Serv, ServerOf
<1>5. /\ Kernel' /\ callOf' = callOf /\ mbuf' = mbuf /\ ~ Waits(par)'
      /\ \A q \in Proc : (Free(q)' <=> Free(q)) /\ (q # par => (Waits(q)' <=> Waits(q)))
  <2>1. PICK bits : bits = p_flags[par] \ {WAITING}
    OBVIOUS
  <2>2. p_flags' = [p_flags EXCEPT ![par] = bits] /\ bits \in {p_flags[par] \cup {WAITING}, p_flags[par] \ {WAITING}}
    BY <1>1, <2>1
  <2>3. bits # p_flags[par] \cup {WAITING}
    BY <2>1
  <2>4. QED
    BY <1>1, <1>2, <1>4, <2>2, <2>3, KernelBit
<1>6. stage' = stage /\ request' = request /\ still' = still
  BY <1>1 DEF userVars
<1>7. \A q \in User \ {par} : Same(q) /\ \A s \in {FS, MM} : Taken(q, s)' <=> Taken(q, s)
  <2>1. \A q \in User \ {par} : Same(q)
    BY <1>5, <1>6, Folk DEF Same
  <2>2. QED
    BY <2>1, UserKept
<1>8. \A q \in {FS, MM} : ~ Waits(q)' /\ ~ Free(q)'
  BY <1>2, <1>5, FsIs
<1>9. Serv(par)' = MM
  BY <1>4, <1>6 DEF Serv, ServerOf
<1>10. \/ stage[par] = "called" /\ callOf[par] = Unblocked
       \/ stage[par] = "waiting" /\ callOf[par] = RecvFrom(MM)
  <2>1. UserIs(par) /\ stage[par] \in {"idle", "called", "waiting"}
    BY <1>1, <1>4, Types DEF LifeInv, UsersFit
  <2>2. QED
    BY <1>1, <1>4, <2>1 DEF UserIs
<1>11. Taken(par, MM)' /\ UserIs(par)'
  <2>1. CASE stage[par] = "called" /\ callOf[par] = Unblocked
    BY <1>4, <1>5, <1>6, <1>9, <1>2, <2>1 DEF Taken, UserIs, Unblocked, RV!NoCall
  <2>2. CASE stage[par] = "waiting" /\ callOf[par] = RecvFrom(MM)
    BY <1>4, <1>5, <1>6, <1>9, <1>2, <2>2 DEF Taken, UserIs, RecvFrom, RV!RecvFrom
  <2>3. QED
    BY <1>10, <2>1, <2>2
<1>12. UsersFit'
  <2>1. Fits(par)'
    BY <1>2, <1>4, <1>5, <1>6, <1>11 DEF Fits
  <2>2. {par} \in SUBSET User /\ \A q \in {par} : Fits(q)'
    BY <1>1, <2>1
  <2>3. QED
    BY <1>7, <1>8, <2>2, UsersKept
<1>13. FsFits'
  <2>1. \A c \in User : Taken(c, FS) =>
            Taken(c, FS)' /\ (callOf[FS] = SendTo(c) => callOf'[c] = Unblocked)
    <3>1. ~ Taken(par, FS)
      BY <1>1 DEF Taken
    <3>2. QED
      BY <1>5, <1>7, <3>1, Senders, Folk
  <2>2. QED
    BY <1>1, <1>3, <1>5, <2>1, MmQuietFs DEF Asking
<1>14. Accounted'
  <2>1. \A q \in User : MmServes(q) <=> q = mm_src
    BY <1>1, <1>3, ServesFree DEF ServesNow, ForkPcs
  <2>2. \A q \in User : MmServes(q)' <=> q = mm_src \/ q = par
    BY <1>1, <1>2, <1>3, <1>5, ServesFreeNext DEF ServesNow, ForkPcs
  <2>3. QED
    BY <1>1, <1>7, <1>11, <2>1, <2>2 DEF LifeInv, Accounted
<1>15. MmCall' /\ MmRole'
  <2>1. MmCall'
    BY <1>3, <1>5 DEF MmCall, Unblocked, RV!NoCall
  <2>2. Buries(mm_who)' /\ Serving(mm_type)' /\ ~ Free(mm_who)'
    <3>1. Buries(mm_who) /\ Serving(mm_type) /\ ~ Free(mm_who) /\ mm_who \in Proc
      BY <1>1, Types, Folk DEF LifeInv, MmRole, ExitPcs
    <3>2. ~ Free(mm_who)'
      BY <1>1, <1>5, <3>1 DEF Free
    <3>3. QED
      BY <1>1, <1>6, <3>1, <3>2 DEF Buries, Serving
  <2>3. QED
    BY <1>1, <1>2, <1>4, <1>6, <2>1, <2>2 DEF MmRole, ForkPcs, ExitPcs
<1>16. Tree' /\ LifeTypeOK'
  <2>1. Tree'
    BY <1>1, <1>5, Folk, TreeKept
  <2>2. QED
    BY <1>1, <1>5, <1>6, <2>1 DEF LifeInv, Kernel, LifeTypeOK
<1>17. QED
  BY <1>5, <1>12, <1>13, <1>14, <1>15, <1>16 DEF LifeInv

(* The entry of the process that exits or is killed becomes free: nobody   *)
(* is in its queue, it is in none, and FS does not serve it.               *)
LEMMA MmFreesKeeps ==
  ASSUME LifeInv, Running(MM), mm_pc \in {"exit_parent", "cleanup_free"}, FreeEntry(mm_who),
         mm_pc' = IF mm_pc = "cleanup_free" /\ mm_type = "WAIT" THEN "receive" ELSE "adopt",
         UNCHANGED <<userVars, p_parent, mm_src, mm_type, mm_who, mm_load, mm_nth, fs_pc>>,
         ~ astray'
  PROVE  LifeInv'
<1>0. PICK s : s = mm_who
  OBVIOUS
<1>1. /\ Buries(s) /\ mm_type \in {"EXIT", "KILLP"} /\ mm_pc' = "adopt" /\ s \in Slot
      /\ mm_src' = mm_src /\ mm_who' = s /\ mm_type' = mm_type /\ (mm_type = "EXIT" => s = mm_src)
      /\ astray' \in BOOLEAN /\ ~ InUse(s)
  BY <1>0 DEF LifeInv, MmRole, ExitPcs, Buries, FreeEntry, GoesAstrayIf
<1>2. /\ MM \in Proc /\ FS \in Proc /\ FS # MM /\ Kernel /\ s \in User /\ s \in Proc /\ s # FS /\ s # MM
  BY <1>0, Types, Folk DEF LifeInv
<1>3. callOf[MM] = Unblocked
  BY <1>2, BitsOf
<1>4. \A x \in Proc : callOf[s] # SendTo(x) /\ callOf[x] # SendTo(s)
  <2>1. ASSUME NEW x \in Proc, callOf[x] = SendTo(s) PROVE FALSE
    <3>1. x \in ToSet(q_sending[s])
      BY <1>2, <2>1, InQueue
    <3>2. QED
      BY <1>1, <3>1 DEF InUse, ToSet
  <2>2. SENDING \notin p_flags[s]
    BY <1>1 DEF InUse
  <2>3. \A x : callOf[s] # SendTo(x)
    BY <1>2, <2>2, Calling DEF Sends
  <2>4. QED
    BY <2>1, <2>3
<1>5. /\ Kernel' /\ mbuf' = mbuf /\ Free(s)' /\ ~ Waits(s)' /\ callOf'[s] = Unblocked
      /\ \A q \in Proc : q # s => /\ callOf'[q] = callOf[q]
                                  /\ Free(q)' <=> Free(q)
                                  /\ Waits(q)' <=> Waits(q)
  <2>1. \A d : callOf[s] # SendTo(d)
    BY <1>1, <1>2, Calling DEF InUse, Sends
  <2>2. QED
    BY <1>0, <1>2, <2>1, KernelFrees
<1>6. stage' = stage /\ request' = request /\ still' = still
  BY DEF userVars
<1>7. \A q \in User \ {s} : Same(q) /\ \A d \in {FS, MM} : Taken(q, d)' <=> Taken(q, d)
  <2>1. \A q \in User \ {s} : Same(q)
    BY <1>5, <1>6, Folk DEF Same
  <2>2. QED
    BY <2>1, UserKept
<1>8. \A q \in {FS, MM} : ~ Waits(q)' /\ ~ Free(q)'
  BY <1>2, <1>5, FsIs
<1>9. UsersFit'
  <2>1. request[s] = "none" => stage[s] = "idle"
    BY <1>2 DEF LifeInv, UsersFit
  <2>2. Fits(s)'
    BY <1>1, <1>5, <1>6, <2>1, Folk DEF Fits
  <2>3. {s} \in SUBSET User /\ \A q \in {s} : Fits(q)'
    BY <1>2, <2>2
  <2>4. QED
    BY <1>7, <1>8, <2>3, UsersKept
<1>10. FsFits'
  <2>1. callOf'[FS] = callOf[FS] /\ mbuf'[FS] = mbuf[FS]
    BY <1>2, <1>5
  <2>2. CASE FsIdle
    BY <2>1, <2>2 DEF FsIdle, FsFits, Unblocked, RecvFrom, RV!NoCall, RV!RecvFrom
  <2>3. ASSUME NEW c \in User \cup {MM}, FsOwes(c), FsHolds(c) \/ FsAnswers(c)
        PROVE  FsFits'
    <3>1. c # MM
      BY <1>3, <2>3, Words DEF FsOwes, MmTaken, Asking
    <3>2. c # s
      <4>1. FsHolds(s) => InUse(s)
        BY <1>2, BitsOf, FsIs DEF FsHolds, InUse
      <4>2. ~ FsAnswers(s)
        BY <1>2, <1>4 DEF FsAnswers
      <4>3. QED
        BY <1>1, <2>3, <4>1, <4>2
    <3>3. Taken(c, FS)' /\ callOf'[c] = callOf[c]
      BY <1>5, <1>7, <2>3, <3>1, <3>2, Folk DEF FsOwes
    <3>4. FsOwes(c)' /\ (FsHolds(c)' \/ FsAnswers(c)')
      BY <2>1, <2>3, <3>1, <3>3
      DEF FsOwes, FsHolds, FsAnswers, Unblocked, SendTo, RV!NoCall, RV!SendTo, Signed, Answer
    <3>5. QED
      BY <2>3, <3>4 DEF FsFits
  <2>4. QED
    BY <2>2, <2>3 DEF LifeInv, FsFits
<1>11. Accounted'
  <2>1. \A q \in User : MmServes(q) <=> q = mm_src
    BY <1>1, <1>3, ServesFree DEF ServesNow, ForkPcs
  <2>2. \A q \in User : MmServes(q)' <=> q = mm_src /\ mm_type = "KILLP"
    BY <1>1, <1>2, <1>3, <1>5, ServesFreeNext DEF ServesNow, ForkPcs
  <2>3. ~ Taken(s, MM)' /\ (mm_type = "KILLP" => s # mm_src)
    BY <1>1, <1>5 DEF Taken, Buries
  <2>4. QED
    BY <1>1, <1>7, <2>1, <2>2, <2>3 DEF LifeInv, Accounted
<1>12. MmCall' /\ MmRole'
  <2>1. MmCall'
    BY <1>2, <1>3, <1>5 DEF MmCall, Unblocked, RV!NoCall
  <2>2. Free(mm_who)'
    BY <1>1, <1>5 DEF Free
  <2>3. QED
    BY <1>1, <2>1, <2>2 DEF MmRole, Buries, ForkPcs, ExitPcs
<1>13. Tree'
  <2>1. SUFFICES ASSUME NEW S \in SUBSET {x \in Slot : ~ Free(x)'}, S # {}
                 PROVE  \E y \in S : Up(y)' /\ p_parent'[y] \notin S
    BY DEF Tree
  <2>2. S \in SUBSET {x \in Slot : ~ Free(x)}
    BY <1>5, Folk
  <2>3. PICK y \in S : Up(y) /\ p_parent[y] \notin S
    BY <2>1, <2>2 DEF LifeInv, Tree
  <2>4. PICK q : q = p_parent[y]
    OBVIOUS
  <2>5. q \in User /\ ~ Free(q) /\ p_parent'[y] = q
    BY <2>3, <2>4 DEF Up
  <2>6. Free(q)' => q = s
    BY <1>5, <2>5, Folk
  <2>7. Up(y)'
    BY <1>1, <2>5, <2>6 DEF Up, Free
  <2>8. QED
    BY <2>3, <2>7
<1>14. LifeTypeOK'
  BY <1>1, <1>5, <1>6 DEF LifeInv, Kernel, LifeTypeOK
<1>15. QED
  BY <1>5, <1>9, <1>10, <1>11, <1>12, <1>13, <1>14 DEF LifeInv

(* The bit WAITING of the caller is set.                                   *)
LEMMA MMWaitStoreKeeps ==
  ASSUME LifeInv, MMWaitStore, ~ astray'
  PROVE  LifeInv'
<1>0. PICK s : s = mm_src
  OBVIOUS
<1>1. /\ Running(MM) /\ mm_pc = "wait_store"
      /\ p_flags' = [p_flags EXCEPT ![s] = p_flags[s] \cup {WAITING}]
      /\ mm_pc' = "receive" /\ mm_load' = {}
      /\ UNCHANGED <<p_msg, p_sendto, p_recvfrom, has_int_msg, q_sending, mbuf, panic,
                     userVars, p_parent, mm_src, mm_type, mm_who, mm_nth, fs_pc>>
      /\ astray' \in BOOLEAN
  BY <1>0 DEF MMWaitStore, Stored, GoesAstrayIf
<1>2. /\ MM \in Proc /\ FS \in Proc /\ FS # MM /\ Kernel /\ s \in User /\ s \in Proc /\ s # FS /\ s # MM
  BY <1>0, Types, Folk DEF LifeInv
<1>3. callOf[MM] = Unblocked
  BY <1>1, <1>2, BitsOf
<1>4. /\ Taken(s, MM) /\ request[s] = "WAIT" /\ Serv(s) = MM /\ ~ Free(s)
      /\ \A d : callOf[s] # SendTo(d)
  <2>1. Taken(s, MM)
    BY <1>0, <1>1, ServingIsTaken
  <2>2. request[s] = "WAIT"
    BY <1>0, <1>1 DEF LifeInv, MmRole, Serving
  <2>3. QED
    BY <1>2, <2>1, <2>2, TakenIs DEF Serv
<1>5. /\ Kernel' /\ callOf' = callOf /\ mbuf' = mbuf /\ Waits(s)'
      /\ \A q \in Proc : (Free(q)' <=> Free(q)) /\ (q # s => (Waits(q)' <=> Waits(q)))
  <2>1. PICK bits : bits = p_flags[s] \cup {WAITING}
    OBVIOUS
  <2>2. p_flags' = [p_flags EXCEPT ![s] = bits] /\ bits \in {p_flags[s] \cup {WAITING}, p_flags[s] \ {WAITING}}
    BY <1>1, <2>1
  <2>3. QED
    BY <1>1, <1>2, <1>4, <2>1, <2>2, KernelBit
<1>6. stage' = stage /\ request' = request /\ still' = still
  BY <1>1 DEF userVars
<1>7. \A q \in User \ {s} : Same(q) /\ \A d \in {FS, MM} : Taken(q, d)' <=> Taken(q, d)
  <2>1. \A q \in User \ {s} : Same(q)
    BY <1>5, <1>6, Folk DEF Same
  <2>2. QED
    BY <2>1, UserKept
<1>8. \A q \in {FS, MM} : ~ Waits(q)' /\ ~ Free(q)'
  BY <1>2, <1>5, FsIs
<1>9. Serv(s)' = MM
  BY <1>4, <1>6 DEF Serv, ServerOf
<1>10. UserIs(s)'
  <2>1. \/ stage[s] = "called" /\ callOf[s] = Unblocked
        \/ stage[s] = "waiting" /\ callOf[s] = RecvFrom(MM)
    BY <1>4 DEF Taken
  <2>2. CASE stage[s] = "called" /\ callOf[s] = Unblocked
    BY <1>5, <1>6, <2>2 DEF UserIs, Unblocked, RV!NoCall
  <2>3. CASE stage[s] = "waiting" /\ callOf[s] = RecvFrom(MM)
    BY <1>5, <1>6, <1>9, <2>3 DEF UserIs, RecvFrom, RV!RecvFrom
  <2>4. QED
    BY <2>1, <2>2, <2>3
<1>11. UsersFit'
  <2>1. Fits(s)'
    BY <1>2, <1>4, <1>5, <1>6, <1>10 DEF Fits
  <2>2. {s} \in SUBSET User /\ \A q \in {s} : Fits(q)'
    BY <1>2, <2>1
  <2>3. QED
    BY <1>7, <1>8, <2>2, UsersKept
<1>12. FsFits'
  <2>1. ASSUME NEW c \in User, Taken(c, FS)
        PROVE  Taken(c, FS)' /\ (callOf[FS] = SendTo(c) => callOf'[c] = Unblocked)
    <3>1. c # s
      BY <1>2, <1>4, <2>1 DEF Taken
    <3>2. QED
      BY <1>7, <2>1, <3>1, Senders, Folk DEF Same
  <2>2. QED
    BY <1>1, <1>3, <1>5, <2>1, MmQuietFs DEF Asking
<1>13. Accounted'
  <2>1. \A q \in User : MmServes(q) <=> q = s
    BY <1>0, <1>1, <1>3, ServesFree DEF ServesNow, ForkPcs
  <2>2. \A q \in User : ~ MmServes(q)'
    BY <1>1, <1>3, <1>5, ServesFreeNext DEF ServesNow, ForkPcs
  <2>3. ~ Taken(s, MM)'
    BY <1>5 DEF Taken
  <2>4. QED
    BY <1>7, <2>1, <2>2, <2>3 DEF LifeInv, Accounted
<1>14. MmCall' /\ MmRole'
  BY <1>1, <1>3, <1>5 DEF MmCall, MmRole, ForkPcs, ExitPcs, Unblocked, RV!NoCall
<1>15. Tree' /\ LifeTypeOK'
  <2>1. Tree'
    BY <1>1, <1>5, Folk, TreeKept
  <2>2. QED
    BY <1>1, <1>5, <1>6, <2>1 DEF LifeInv, Kernel, LifeTypeOK
<1>16. QED
  BY <1>5, <1>11, <1>12, <1>13, <1>14, <1>15 DEF LifeInv

-----------------------------------------------------------------------------
(***************************************************************************)
(* The invariant holds in every run until MM goes astray.                  *)
(***************************************************************************)
LEMMA LifeInitInv == LifeInit => LifeInv
<1> SUFFICES ASSUME LifeInit PROVE LifeInv
  OBVIOUS
<1>1. \A p \in Proc : /\ p_flags[p] = (IF p \in Slot THEN {FREE_SLOT} ELSE {})
                      /\ ~ Waits(p) /\ (Free(p) <=> p \in Slot)
                      /\ callOf[p] = Unblocked
  <2>1. \A p \in Proc : /\ p_flags[p] = (IF p \in Slot THEN {FREE_SLOT} ELSE {})
                        /\ SENDING \notin p_flags[p] /\ RECEIVING \notin p_flags[p]
                        /\ WAITING \notin p_flags[p] /\ (FREE_SLOT \in p_flags[p] <=> p \in Slot)
    BY DEF LifeInit, SENDING, RECEIVING, WAITING, FREE_SLOT
  <2>2. QED
    BY <2>1 DEF Waits, Free, callOf, Unblocked, RV!NoCall
<1>2. TypeOK
  <2>1. \A p \in Proc : Signed(p, NoType) \in Message
    BY DEF Signed, Message
  <2>2. mbuf \in [Proc -> Message]
    BY <2>1 DEF LifeInit
  <2>3. \A p \in Proc : p_flags[p] \in SUBSET Flag
    BY <1>1 DEF Flag
  <2>4. p_flags \in [Proc -> SUBSET Flag]
    BY <2>3 DEF LifeInit
  <2>5. QED
    BY <2>2, <2>4 DEF LifeInit, TypeOK
<1>3. QueueExact
  BY <1>1 DEF LifeInit, QueueExact, Sends, ToSet, SENDING, FREE_SLOT
<1>4. Entries
  BY <1>1 DEF LifeInit, Entries, Free, SENDING, RECEIVING, FREE_SLOT
<1>5. Kernel
  BY <1>2, <1>3, <1>4 DEF Kernel, LifeInit
<1>6. LifeTypeOK
  <2>1. astray \in BOOLEAN /\ mm_load \in SUBSET Flag
    BY DEF LifeInit
  <2>2. QED
    BY <1>2, <2>1, Folk DEF LifeInit, LifeTypeOK
<1>7. UsersFit
  BY <1>1, Folk DEF UsersFit, UserIs, LifeInit
<1>8. FsFits /\ MmCall /\ MmRole
  BY <1>1, Folk DEF LifeInit, FsFits, FsIdle, MmCall, MmRole, ForkPcs, ExitPcs
<1>9. Accounted
  <2>1. \A p \in User : ~ Taken(p, MM)
    BY DEF LifeInit, Taken
  <2>2. \A p \in User : ~ MmServes(p)
    BY <1>1, ServesFree, Folk DEF LifeInit, ServesNow, ForkPcs
  <2>3. QED
    BY <2>1, <2>2 DEF Accounted
<1>10. Tree
  BY <1>1, Folk DEF Tree
<1>11. QED
  BY <1>5, <1>6, <1>7, <1>8, <1>9, <1>10 DEF LifeInv

LEMMA LifeStutters ==
  ASSUME LifeInv, UNCHANGED lifeVars
  PROVE  LifeInv'
<1>1. UNCHANGED <<ipcVars, stage, request, still, p_parent, mmVars, fs_pc>>
  BY DEF lifeVars, userVars
<1>2. Kernel' /\ BitsKept /\ callOf' = callOf /\ mbuf' = mbuf
  BY <1>1, KernelStays DEF LifeInv
<1>3. \A q \in User : Free(q)' <=> Free(q)
  BY <1>2, Folk DEF BitsKept
<1>4. \A q \in User : Same(q)
  BY <1>1, <1>2, Folk DEF Same, BitsKept
<1>5. \A q \in {FS, MM} : ~ Waits(q)' /\ ~ Free(q)'
  BY <1>2, FsIs, Folk DEF BitsKept
<1>6. UsersFit' /\ \A q \in User : \A s \in {FS, MM} : Taken(q, s)' <=> Taken(q, s)
  BY <1>4, <1>5, AllUsersKept
<1>7. FsFits'
  <2>1. MmTaken' <=> MmTaken
    BY <1>1, <1>2 DEF MmTaken, mmVars, Unblocked, RecvFrom, RV!NoCall, RV!RecvFrom, Asking, Asked
  <2>2. \A c \in User \cup {MM} : FsOwes(c) => /\ FsOwes(c)'
                                               /\ (callOf[FS] = SendTo(c) => callOf'[c] = Unblocked)
    BY <1>2, <1>6, <2>1, Senders, Folk DEF FsOwes
  <2>3. QED
    BY <1>1, <1>2, <2>2, FsKept
<1>8. MmCall' /\ MmRole' /\ \A q \in User : MmServes(q)' <=> MmServes(q)
  <2>1. \A c \in User : callOf[MM] = SendTo(c) => callOf'[c] = Unblocked
    BY <1>2, Senders, Folk DEF MmAnswers
  <2>2. QED
    BY <1>1, <1>2, <1>3, <2>1, MmKept
<1>9. Tree' /\ LifeTypeOK'
  <2>1. Tree'
    BY <1>1, <1>3, TreeKept DEF mmVars
  <2>2. QED
    BY <1>1, <1>2, <2>1 DEF LifeInv, Kernel, LifeTypeOK, mmVars
<1>10. QED
  BY <1>2, <1>6, <1>7, <1>8, <1>9 DEF LifeInv, Accounted

LEMMA LifeStepInv ==
  ASSUME LifeInv, InitStays, [LifeNext]_lifeVars, ~ astray'
  PROVE  LifeInv'
<1>1. ASSUME NEW p \in User, UserSend(p) PROVE LifeInv'
  BY <1>1, UserSendKeeps
<1>2. ASSUME NEW p \in User, UserAwait(p) PROVE LifeInv'
  BY <1>2, UserAwaitKeeps
<1>3. ASSUME NEW p \in User, UserReturn(p) PROVE LifeInv'
  BY <1>3, UserReturnKeeps
<1>4. CASE FSReceive
  BY <1>4, FSReceiveKeeps
<1>5. CASE FSReply
  BY <1>5, FSReplyKeeps
<1>6. CASE MMReceive
  BY <1>6, MMReceiveKeeps
<1>7. CASE MMDispatch
  BY <1>7, MMDispatchKeeps
<1>8. CASE MMReply
  <2>1. PICK c : c = mm_src
    OBVIOUS
  <2>2. AnswersTo("reply", "receive", c) /\ MMSend("reply", c, Answer, "receive")
    BY <1>8, <2>1 DEF MMReply, AnswersTo, Answer
  <2>3. QED
    BY <2>2, MmAnswersKeeps
<1>9. CASE MMForkRegs \/ MMForkCopy
  BY <1>9, MMForkRegsKeeps, MMForkCopyKeeps
<1>10. CASE MMForkTellFS
  <2>1. Asks("fork_fs", "fork_fs_wait", "FORK")
    BY DEF Asks
  <2>2. QED
    BY <1>10, <2>1, MmAsksKeeps DEF MMForkTellFS
<1>11. CASE MMForkAwaitFS
  <2>1. Awaits("fork_fs_wait", "fork_child")
    BY DEF Awaits
  <2>2. QED
    BY <1>11, <2>1, MmAwaitsKeeps DEF MMForkAwaitFS
<1>12. CASE MMForkChild
  <2>1. PICK c : c = mm_who
    OBVIOUS
  <2>2. AnswersTo("fork_child", "reply", c) /\ MMSend("fork_child", c, Answer, "reply")
    BY <1>12, <2>1 DEF MMForkChild, AnswersTo, Answer
  <2>3. QED
    BY <2>2, MmAnswersKeeps
<1>13. CASE MMExitTellFS
  <2>1. Asks("exit_fs", "exit_fs_wait", "EXIT")
    BY DEF Asks
  <2>2. QED
    BY <1>13, <2>1, MmAsksKeeps DEF MMExitTellFS
<1>14. CASE MMExitAwaitFS
  <2>1. Awaits("exit_fs_wait", "exit_parent")
    BY DEF Awaits
  <2>2. QED
    BY <1>14, <2>1, MmAwaitsKeeps DEF MMExitAwaitFS
<1>15. CASE MMExitWakes
  BY <1>15, MMExitWakesKeeps
<1>16. CASE MMExitFrees
  <2>1. /\ Running(MM) /\ mm_pc \in {"exit_parent", "cleanup_free"} /\ FreeEntry(mm_who)
        /\ mm_pc' = IF mm_pc = "cleanup_free" /\ mm_type = "WAIT" THEN "receive" ELSE "adopt"
        /\ UNCHANGED <<userVars, p_parent, mm_src, mm_type, mm_who, mm_load, mm_nth, fs_pc>>
    BY <1>16 DEF MMExitFrees
  <2>2. QED
    BY <2>1, MmFreesKeeps
<1>17. CASE MMCleanupSend
  <2>1. PICK c : c = p_parent[mm_who]
    OBVIOUS
  <2>2. AnswersTo("cleanup_send", "cleanup_free", c) /\ MMSend("cleanup_send", c, Answer, "cleanup_free")
    BY <1>17, <2>1 DEF MMCleanupSend, AnswersTo, Answer
  <2>3. QED
    BY <2>2, MmAnswersKeeps
<1>18. CASE MMCleanupFree
  <2>1. /\ Running(MM) /\ mm_pc \in {"exit_parent", "cleanup_free"} /\ FreeEntry(mm_who)
        /\ mm_pc' = IF mm_pc = "cleanup_free" /\ mm_type = "WAIT" THEN "receive" ELSE "adopt"
        /\ UNCHANGED <<userVars, p_parent, mm_src, mm_type, mm_who, mm_load, mm_nth, fs_pc>>
    BY <1>18 DEF MMCleanupFree
  <2>2. QED
    BY <2>1, MmFreesKeeps
<1>19. CASE MMAdopt
  BY <1>19, MMAdoptKeeps
<1>20. CASE MMWait
  BY <1>20, MMWaitKeeps
<1>21. CASE MMWaitStore
  BY <1>21, MMWaitStoreKeeps
<1>22. CASE MMWaitNone
  <2>1. PICK c : c = mm_src
    OBVIOUS
  <2>2. AnswersTo("wait_none", "receive", c) /\ MMSend("wait_none", c, Answer, "receive")
    BY <1>22, <2>1 DEF MMWaitNone, AnswersTo, Answer
  <2>3. QED
    BY <2>2, MmAnswersKeeps
<1>23. CASE MMExecTellFS
  <2>1. Asks("exec_fs", "exec_fs_wait", "OPEN")
    BY DEF Asks
  <2>2. QED
    BY <1>23, <2>1, MmAsksKeeps DEF MMExecTellFS
<1>24. CASE MMExecAwaitFS
  <2>1. Awaits("exec_fs_wait", "exec_next")
    BY DEF Awaits
  <2>2. QED
    BY <1>24, <2>1, MmAwaitsKeeps DEF MMExecAwaitFS
<1>25. CASE MMExecNext
  BY <1>25, MMExecNextKeeps
<1>26. CASE MMExecLoad
  BY <1>26, MMExecLoadKeeps
<1>27. CASE MMBuddySend
  <2>1. PICK c : c = mm_src
    OBVIOUS
  <2>2. AnswersTo("buddy_send", "buddy_await", c) /\ MMSend("buddy_send", c, Answer, "buddy_await")
    BY <1>27, <2>1 DEF MMBuddySend, AnswersTo, Answer
  <2>3. QED
    BY <2>2, MmAnswersKeeps
<1>28. CASE MMBuddyAwait
  BY <1>28, MMBuddyAwaitKeeps
<1>29. CASE UNCHANGED lifeVars
  BY <1>29, LifeStutters
<1>30. QED
  BY <1>1, <1>2, <1>3, <1>4, <1>5, <1>6, <1>7, <1>8, <1>9, <1>10, <1>11, <1>12, <1>13, <1>14,
     <1>15, <1>16, <1>17, <1>18, <1>19, <1>20, <1>21, <1>22, <1>23, <1>24, <1>25, <1>26, <1>27,
     <1>28, <1>29 DEF LifeNext, FSNext, MMNext

(* Nothing brings MM back.                                                 *)
LEMMA AstrayForGood ==
  ASSUME astray, [LifeNext]_lifeVars
  PROVE  astray'
<1>1. ASSUME NEW p \in User, UserSend(p) \/ UserAwait(p) \/ UserReturn(p) PROVE astray'
  BY <1>1 DEF UserSend, UserAwait, UserReturn, mmVars
<1>2. CASE FSNext
  BY <1>2 DEF FSNext, FSReceive, FSReply, mmVars
<1>3. CASE MMReceive \/ MMDispatch \/ MMReply
  BY <1>3 DEF MMReceive, MMDispatch, MMReply, MMSend
<1>4. CASE MMForkRegs \/ MMForkCopy \/ MMForkTellFS \/ MMForkAwaitFS \/ MMForkChild
  BY <1>4 DEF MMForkRegs, MMForkCopy, MMForkTellFS, MMForkAwaitFS, MMForkChild, MMSend, MMAwaitFS,
              GoesAstrayIf
<1>5. CASE MMExitTellFS \/ MMExitAwaitFS \/ MMExitWakes \/ MMExitFrees
  BY <1>5 DEF MMExitTellFS, MMExitAwaitFS, MMExitWakes, MMExitFrees, MMSend, MMAwaitFS, FreeEntry,
              GoesAstrayIf
<1>6. CASE MMCleanupSend \/ MMCleanupFree \/ MMAdopt \/ MMWait \/ MMWaitStore \/ MMWaitNone
  BY <1>6 DEF MMCleanupSend, MMCleanupFree, MMAdopt, MMWait, MMWaitStore, MMWaitNone, MMSend,
              FreeEntry, GoesAstrayIf
<1>7. CASE MMExecTellFS \/ MMExecAwaitFS \/ MMExecNext \/ MMExecLoad
  BY <1>7 DEF MMExecTellFS, MMExecAwaitFS, MMExecNext, MMExecLoad, MMSend, MMAwaitFS, GoesAstrayIf
<1>8. CASE MMBuddySend \/ MMBuddyAwait
  BY <1>8 DEF MMBuddySend, MMBuddyAwait, MMSend
<1>9. CASE UNCHANGED lifeVars
  BY <1>9 DEF lifeVars, mmVars
<1>10. QED
  BY <1>1, <1>2, <1>3, <1>4, <1>5, <1>6, <1>7, <1>8, <1>9 DEF LifeNext, MMNext

(* Until MM goes astray LifeInv, the inductive invariant, holds, whatever  *)
(* programs do (kernel_main, lib/, task_fs, task_mm, do_fork, do_exit,     *)
(* do_kill, do_wait, do_exec, do_buddy over sys_sendrec).                  *)
THEOREM LifeInvariance ==
  ASSUME InitStays
  PROVE  LifeSpec => [](astray \/ LifeInv)
<1>1. (astray \/ LifeInv) /\ [LifeNext]_lifeVars => (astray \/ LifeInv)'
  BY LifeStepInv, AstrayForGood
<1>2. LifeInit => astray \/ LifeInv
  BY LifeInitInv
<1>3. QED
  BY <1>1, <1>2, PTL DEF LifeSpec

-----------------------------------------------------------------------------
(***************************************************************************)
(* What it means for the programs.                                         *)
(***************************************************************************)

(* No assert() of msg_send, msg_receive, block and unblock fails and no    *)
(* circle of senders makes deadlock() panic, unless MM went astray: MM and *)
(* FS only send to who waits for them, and a word of p_flags that MM has   *)
(* loaded and stored, or copied, is the one that the kernel left.          *)
THEOREM LifeNeverPanics ==
  ASSUME InitStays
  PROVE  LifeSpec => []NoPanic
<1>1. (astray \/ LifeInv) => NoPanic
  BY DEF LifeInv, Kernel, NoPanic
<1>2. QED
  BY <1>1, LifeInvariance, PTL

(* task_mm forgets nobody unless it went astray: who has called MM and has *)
(* no answer is in its queue, or served, or waits for a child, or is sent  *)
(* its answer; and an entry that do_fork may take is in no queue and has   *)
(* none, although do_kill looks at no queue before it frees one.           *)
THEOREM NobodyForgotten ==
  ASSUME InitStays
  PROVE  LifeSpec => []CallerAccounted
<1>1. (astray \/ LifeInv) => CallerAccounted
  <2>1. SUFFICES ASSUME LifeInv PROVE CallerAccounted
    BY DEF CallerAccounted
  <2>2. Kernel
    BY <2>1 DEF LifeInv
  <2>3. ASSUME NEW p \in User, InCall(p), ~ Free(p), Serv(p) = MM
        PROVE  Sends(p, MM) \/ Served(p) \/ WAITING \in p_flags[p] \/ Sends(MM, p)
    <3>1. CASE Waits(p)
      BY <3>1 DEF Waits
    <3>2. CASE callOf[p] = SendTo(MM)
      BY <2>2, <3>2, Calling, Folk
    <3>3. CASE ~ Waits(p) /\ callOf[p] # SendTo(MM)
      <4>1. UserIs(p)
        BY <2>1, <2>3 DEF LifeInv, UsersFit
      <4>2. RECEIVING \in p_flags[p] => callOf[p] # Unblocked
        BY <2>2, Calling, Folk
      <4>3. Taken(p, MM)
        BY <2>3, <3>3, <4>1, <4>2 DEF InCall, UserIs, Taken
      <4>4. MmServes(p)
        BY <2>1, <4>3 DEF LifeInv, Accounted
      <4>5. callOf[MM] = SendTo(p) => Sends(MM, p)
        BY <2>2, Calling, Folk
      <4>6. QED
        BY <4>4, <4>5 DEF MmServes, Served, ForkPcs
    <3>4. QED
      BY <3>1, <3>2, <3>3
  <2>4. FreeEntryQuiet
    <3>1. ASSUME NEW s \in Slot, Free(s), NEW x \in Proc PROVE callOf[x] # SendTo(s)
      BY <2>1, <3>1, Senders, Folk
    <3>2. ASSUME NEW s \in Slot, Free(s), NEW p \in Proc PROVE callOf[s] # SendTo(p)
      BY <2>2, <3>2, BitsOf, Words, Folk
    <3>3. QED
      BY <2>2, <3>1, <3>2, InQueue, Folk DEF FreeEntryQuiet
  <2>5. QED
    BY <2>3, <2>4 DEF CallerAccounted, Serv
<1>2. QED
  BY <1>1, LifeInvariance, PTL

(* Unless MM went astray, each answer of MM and FS is for a process that   *)
(* lives and is in a call to the one that answers, and a call of lib/      *)
(* returns with that answer.                                               *)
THEOREM AnswersGoToCallers ==
  ASSUME InitStays
  PROVE  LifeSpec => []AnswersMatched
<1>1. (astray \/ LifeInv) => AnswersMatched
  <2>1. SUFFICES ASSUME LifeInv, NEW p \in User
                 PROVE  /\ \A srv \in {FS, MM} :
                              Sends(srv, p) => ~ Free(p) /\ InCall(p) /\ ServerOf(request[p]) = srv
                        /\ Returns(p) => mbuf[p] = Signed(ServerOf(request[p]), "SYSCALL_RET")
    BY DEF AnswersMatched
  <2>2. Kernel /\ p \in Proc /\ p # FS /\ p # MM
    BY <2>1, Folk DEF LifeInv
  <2>3. ASSUME NEW srv \in {FS, MM}, Sends(srv, p)
        PROVE  ~ Free(p) /\ InCall(p) /\ ServerOf(request[p]) = srv
    <3>1. srv \in Proc /\ callOf[srv] = SendTo(p)
      BY <2>2, <2>3, Calling, Folk
    <3>2. Taken(p, srv)
      BY <2>1, <2>2, <3>1, Senders, Folk DEF FsOwes
    <3>3. callOf[p] = RecvFrom(srv) => RECEIVING \in p_flags[p]
      BY <2>2, Calling
    <3>4. QED
      BY <3>2, <3>3 DEF Taken, InCall, Serv
  <2>4. ASSUME Returns(p)
        PROVE  mbuf[p] = Signed(ServerOf(request[p]), "SYSCALL_RET")
    <3>1. stage[p] = "waiting" /\ callOf[p] = Unblocked /\ ~ Free(p)
      BY <2>2, <2>4, BitsOf DEF Returns
    <3>2. UserIs(p) /\ callOf[p] # RecvFrom(Serv(p))
      BY <2>1, <3>1, Words DEF LifeInv, UsersFit
    <3>3. QED
      BY <3>1, <3>2 DEF UserIs, Serv, Answer
  <2>5. QED
    BY <2>3, <2>4
<1>2. QED
  BY <1>1, LifeInvariance, PTL

(* Whenever task_mm takes its next message, and unless it went astray, the *)
(* living processes are a tree below INIT: do_fork adds a leaf, and what   *)
(* exit() and kill() leave is adopted.                                     *)
THEOREM LivingFormATree ==
  ASSUME InitStays
  PROVE  LifeSpec => []TreeBelowInit
<1>1. (astray \/ LifeInv) => TreeBelowInit
  <2>1. SUFFICES ASSUME LifeInv, mm_pc = "receive", ~ astray,
                        NEW S \in SUBSET {s \in Slot : ~ Free(s)}, S # {}
                 PROVE  \E y \in S : p_parent[y] \in User \ S /\ ~ Free(p_parent[y])
    BY DEF TreeBelowInit
  <2>2. PICK y \in S : Up(y) /\ p_parent[y] \notin S
    BY <2>1 DEF LifeInv, Tree
  <2>3. QED
    BY <2>1, <2>2 DEF Up
<1>2. QED
  BY <1>1, LifeInvariance, PTL

=============================================================================
