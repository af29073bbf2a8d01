----------------------------- MODULE IPC_proofs -----------------------------
(***************************************************************************)
(* Proofs about IPC, for every set of processes: the kernel's process      *)
(* table stays consistent, no rendezvous and no interrupt is missed,       *)
(* senders never wait in a circle, no assert() fails, and what it does is  *)
(* the abstract rendezvous.                                                *)
(***************************************************************************)
EXTENDS IPC, SequenceTheorems, TLAPS

USE DEF Signed

-----------------------------------------------------------------------------
(* Queues.                                                                 *)

Once(q) == \A i, j \in DOMAIN q : q[i] = q[j] => i = j

(* Appending a process that is not in the queue yet keeps it a queue       *)
(* without repetition (the sender joins p_dest's q_sending).               *)
LEMMA AppendExact ==
  ASSUME NEW S, NEW q \in Seq(S), NEW x \in S, Once(q), x \notin ToSet(q)
  PROVE  /\ Append(q, x) \in Seq(S)
         /\ Once(Append(q, x))
         /\ ToSet(Append(q, x)) = ToSet(q) \cup {x}
<1>1. /\ Append(q, x) \in Seq(S)
      /\ Len(Append(q, x)) = Len(q) + 1
      /\ \A i \in 1..Len(q) : Append(q, x)[i] = q[i]
      /\ Append(q, x)[Len(q) + 1] = x
  OBVIOUS
<1>2. DOMAIN q = 1..Len(q) /\ DOMAIN Append(q, x) = 1..(Len(q) + 1)
      /\ Len(q) \in Nat
  BY <1>1
<1>3. \A i \in DOMAIN q : q[i] # x
  BY DEF ToSet
<1>4. Once(Append(q, x))
  BY <1>1, <1>2, <1>3 DEF Once
<1>5. ToSet(Append(q, x)) = ToSet(q) \cup {x}
  BY <1>1, <1>2 DEF ToSet
<1>6. QED
  BY <1>1, <1>4, <1>5

(* Cutting element k out of a sequence shifts the later ones down by one.  *)
LEMMA RemoveAtExact ==
  ASSUME NEW S, NEW q \in Seq(S), NEW k \in 1..Len(q)
  PROVE  /\ RemoveAt(q, k) \in Seq(S)
         /\ Len(RemoveAt(q, k)) = Len(q) - 1
         /\ \A i \in 1..(Len(q) - 1) :
               RemoveAt(q, k)[i] = IF i < k THEN q[i] ELSE q[i + 1]
<1> DEFINE n  == Len(q)
           lo == SubSeq(q, 1, k - 1)
           hi == SubSeq(q, k + 1, n)
<1>1. n \in Nat /\ k \in 1..n /\ \A i \in 1..n : q[i] \in S
  OBVIOUS
<1> HIDE DEF n
<1>2. /\ lo \in Seq(S)
      /\ Len(lo) = k - 1
      /\ \A i \in 1..(k-1) : lo[i] = q[i]
  BY <1>1
<1>3. /\ hi \in Seq(S)
      /\ Len(hi) = n - k
      /\ \A i \in 1..(n - k) : hi[i] = q[k + i]
  <2> DEFINE m == k + 1
             h == SubSeq(q, m, n)
  <2>1. m \in Int /\ n \in Int /\ \A i \in m..n : q[i] \in S
    BY <1>1
  <2> HIDE DEF m
  <2>2. /\ h \in Seq(S)
        /\ Len(h) = IF m <= n THEN n - m + 1 ELSE 0
        /\ \A i \in 1..(n - m + 1) : h[i] = q[m + i - 1]
    BY <2>1, SubSeqProperties
  <2> HIDE DEF h
  <2>3. m = k + 1 /\ hi = h
    BY DEF m, h
  <2> HIDE DEF hi
  <2>4. QED
    BY <1>1, <2>2, <2>3
<1> HIDE DEF lo, hi
<1>4. /\ lo \o hi \in Seq(S)
      /\ Len(lo \o hi) = Len(lo) + Len(hi)
      /\ \A i \in 1..(Len(lo) + Len(hi)) :
            (lo \o hi)[i] = IF i <= Len(lo) THEN lo[i] ELSE hi[i - Len(lo)]
  BY <1>2, <1>3, ConcatProperties, Zenon
<1>5. RemoveAt(q, k) = lo \o hi
  BY DEF RemoveAt, lo, hi, n
<1>6. ASSUME NEW i \in 1..(n - 1)
      PROVE  (lo \o hi)[i] = IF i < k THEN q[i] ELSE q[i + 1]
  <2>1. i \in 1..(Len(lo) + Len(hi)) /\ (i <= Len(lo) <=> i < k)
    BY <1>1, <1>2, <1>3
  <2>2. CASE i < k
    BY <2>1, <2>2, <1>1, <1>2, <1>4
  <2>3. CASE ~ (i < k)
    <3>1. i - (k - 1) \in 1..(n - k) /\ k + (i - (k - 1)) = i + 1
      BY <2>3, <1>1
    <3>2. hi[i - (k - 1)] = q[i + 1]
      BY <3>1, <1>3
    <3>3. QED
      BY <2>1, <2>3, <3>2, <1>2, <1>4
  <2>4. QED
    BY <2>2, <2>3
<1>7. Len(lo \o hi) = n - 1
  BY <1>1, <1>2, <1>3, <1>4
<1>8. QED
  BY <1>4, <1>5, <1>6, <1>7 DEF n

(* Unlinking a process from a queue, wherever it stands, removes it and    *)
(* nobody else.                                                            *)
LEMMA UnlinkExact ==
  ASSUME NEW S, NEW q \in Seq(S), NEW f \in ToSet(q), Once(q)
  PROVE  /\ Unlink(q, f) \in Seq(S)
         /\ Once(Unlink(q, f))
         /\ ToSet(Unlink(q, f)) = ToSet(q) \ {f}
<1> DEFINE k == CHOOSE j \in DOMAIN q : q[j] = f
           u == Unlink(q, f)
<1>1. /\ DOMAIN q = 1..Len(q) /\ Len(q) \in Nat
      /\ k \in 1..Len(q) /\ q[k] = f
  BY DEF ToSet
<1> HIDE DEF k
<1>2. u = RemoveAt(q, k)
  BY DEF Unlink, k
<1> HIDE DEF u
<1>5. /\ u \in Seq(S)
      /\ Len(u) = Len(q) - 1
      /\ \A i \in 1..(Len(q) - 1) : u[i] = IF i < k THEN q[i] ELSE q[i + 1]
  BY <1>1, <1>2, RemoveAtExact
<1>6. DOMAIN u = 1..(Len(q) - 1)
  BY <1>1, <1>5
<1>7. Once(u)
  <2> SUFFICES ASSUME NEW i \in DOMAIN u, NEW j \in DOMAIN u, u[i] = u[j]
               PROVE  i = j
    BY DEF Once
  <2> DEFINE at(x) == IF x < k THEN x ELSE x + 1
  <2>1. /\ i \in 1..(Len(q) - 1) /\ j \in 1..(Len(q) - 1)
        /\ at(i) \in DOMAIN q /\ at(j) \in DOMAIN q
        /\ u[i] = q[at(i)] /\ u[j] = q[at(j)]
    BY <1>1, <1>5, <1>6
  <2>2. at(i) = at(j)
    BY <2>1 DEF Once
  <2>3. QED
    BY <2>1, <2>2, <1>1
<1>8. ToSet(u) = ToSet(q) \ {f}
  <2>1. ASSUME NEW i \in DOMAIN u
        PROVE  u[i] \in ToSet(q) \ {f}
    <3> DEFINE a == IF i < k THEN i ELSE i + 1
    <3>1. a \in DOMAIN q /\ u[i] = q[a] /\ a # k
      BY <1>1, <1>5, <1>6
    <3>2. q[a] # f
      BY <3>1, <1>1 DEF Once
    <3>3. QED
      BY <3>1, <3>2 DEF ToSet
  <2>2. ASSUME NEW x \in ToSet(q) \ {f}
        PROVE  x \in ToSet(u)
    <3>1. PICK a \in DOMAIN q : q[a] = x
      BY DEF ToSet
    <3>2. a # k
      BY <3>1, <1>1
    <3> DEFINE i == IF a < k THEN a ELSE a - 1
    <3>3. i \in DOMAIN u /\ u[i] = x
      BY <3>1, <3>2, <1>1, <1>5, <1>6
    <3>4. QED
      BY <3>3 DEF ToSet
  <2>3. QED
    BY <2>1, <2>2 DEF ToSet
<1>9. QED
  BY <1>5, <1>7, <1>8 DEF u

(* The first process of a queue is in it.                                  *)
LEMMA HeadInQueue ==
  ASSUME NEW S, NEW q \in Seq(S), q # <<>>
  PROVE  Head(q) \in ToSet(q)
BY DEF ToSet

-----------------------------------------------------------------------------
(***************************************************************************)
(* The inductive invariant.  No single invariant of IPC is inductive: the  *)
(* queue is exact only because a process that runs has no call blocked     *)
(* (EntryConsistent), asserts hold because of both, and a receive does not *)
(* miss a sender because the queue is exact.  Only SendersAcyclic stands   *)
(* on deadlock() alone.                                                    *)
(***************************************************************************)
IInv == /\ TypeOK
        /\ QueueExact
        /\ EntryConsistent
        /\ NoMissedRendezvous
        /\ NoMissedInterrupt
        /\ SendersAcyclic
        /\ NoAssertFails

LEMMA InitInv == Init => IInv
<1> SUFFICES ASSUME Init PROVE IInv
  OBVIOUS
<1> USE DEF Init
<1>1. TypeOK
  BY DEF TypeOK, Message
<1>2. QueueExact
  BY DEF QueueExact, Sends, ToSet
<1>3. EntryConsistent
  BY DEF EntryConsistent, SENDING, RECEIVING
<1>4. NoMissedRendezvous /\ NoMissedInterrupt /\ SendersAcyclic
  BY DEF NoMissedRendezvous, NoMissedInterrupt, WaitsForInt, SendersAcyclic, Sends
<1>5. NoAssertFails
  BY DEF NoAssertFails
<1>6. QED
  BY <1>1, <1>2, <1>3, <1>4, <1>5 DEF IInv

(* What a process that may run looks like.                                 *)
LEMMA RunnerIsIdle ==
  ASSUME IInv, NEW p \in Proc, Running(p)
  PROVE  /\ Idle(p)
         /\ panic = "none"
         /\ \A d \in Proc : ~ Sends(p, d) /\ p \notin ToSet(q_sending[d])
<1>1. Idle(p) /\ panic = "none"
  BY DEF IInv, EntryConsistent, Running, Idle, SENDING, RECEIVING
<1>2. \A d \in Proc : ~ Sends(p, d)
  BY DEF Running, Sends
<1>3. QED
  BY <1>1, <1>2 DEF IInv, QueueExact

(* Releasing senders cannot close a circle.                                *)
LEMMA FewerSendersAcyclic ==
  ASSUME SendersAcyclic, \A y, z \in Proc : Sends(y, z)' => Sends(y, z)
  PROVE  SendersAcyclic'
BY DEF SendersAcyclic

(***************************************************************************)
(* The argument for deadlock(): if the walk from d meets nobody sending to *)
(* p, the processes on it do not include p, and a circle through the new   *)
(* edge from p to d would hold one among them already.                     *)
(***************************************************************************)
LEMMA NewSenderAcyclic ==
  ASSUME SendersAcyclic, NEW p \in Proc, NEW d \in Proc, p # d,
         ~ deadlock(p, d),
         \A z \in Proc : ~ Sends(p, z),
         \A y, z \in Proc : Sends(y, z)' => Sends(y, z) \/ (y = p /\ z = d),
         \A y \in Proc : \A w : Sends(y, w) => w \in Proc
  PROVE  SendersAcyclic'
<1> SUFFICES ASSUME NEW S \in SUBSET Proc, S # {},
                    \A y \in S : \E z \in S : Sends(y, z)'
             PROVE  FALSE
  BY DEF SendersAcyclic
<1>1. p \in S
  <2> SUFFICES ASSUME p \notin S PROVE FALSE
    OBVIOUS
  <2>1. \A y \in S : \E z \in S : Sends(y, z)
    OBVIOUS
  <2>2. QED
    BY <2>1 DEF SendersAcyclic
<1>2. d \in S
  BY <1>1
<1>3. \A z \in S : z # p => \E w \in S : Sends(z, w)
  OBVIOUS
<1>4. \A z \in S, w \in Proc : Sends(z, w) => w \in S
  BY <1>3 DEF Sends
<1> DEFINE U == SendChain(d)
<1>5. U \subseteq S
  BY <1>2, <1>4 DEF SendChain
<1>6. d \in U
  BY DEF SendChain
<1>7. \A z \in U, w \in Proc : Sends(z, w) => w \in U
  BY DEF SendChain
<1>8. p \notin U
  <2> DEFINE T == U \ {p}
  <2>1. \A z \in T, w \in Proc : Sends(z, w) => w \in T
    BY <1>7 DEF deadlock
  <2>2. d \in T /\ T \in SUBSET Proc
    BY <1>6 DEF SendChain
  <2>3. QED
    BY <2>1, <2>2 DEF SendChain
<1>9. \A z \in U : \E w \in U : Sends(z, w)
  BY <1>3, <1>5, <1>7, <1>8
<1>10. U \in SUBSET Proc /\ U # {}
  BY <1>6 DEF SendChain
<1>11. QED
  BY <1>9, <1>10 DEF SendersAcyclic

-----------------------------------------------------------------------------
(***************************************************************************)
(* One lemma per action: it keeps the invariant.                           *)
(***************************************************************************)

LEMMA SendDeadlockInv ==
  ASSUME IInv, NEW p \in Proc, NEW d \in Proc, NEW t \in Type,
         SendDeadlock(p, d, t)
  PROVE  IInv'
<1>1. TypeOK' /\ NoAssertFails'
  BY DEF IInv, TypeOK, Message, SendDeadlock, NoAssertFails
<1>2. QueueExact' /\ EntryConsistent' /\ NoMissedRendezvous' /\ SendersAcyclic'
  BY DEF IInv, SendDeadlock, QueueExact, EntryConsistent, NoMissedRendezvous,
         SendersAcyclic, Sends
<1>3. NoMissedInterrupt'
  BY DEF IInv, NoMissedInterrupt, WaitsForInt, SendDeadlock
<1>4. QED
  BY <1>1, <1>2, <1>3 DEF IInv

LEMMA SendHandOffInv ==
  ASSUME IInv, NEW p \in Proc, NEW d \in Proc, NEW t \in Type,
         SendHandOff(p, d, t)
  PROVE  IInv'
<1>1. Idle(p) /\ panic = "none"
  BY RunnerIsIdle DEF SendHandOff
<1>2. p_flags[d] = {RECEIVING} /\ p_msg[d] /\ p_sendto[d] = NO_TASK
  BY DEF SendHandOff, Accepts, IInv, EntryConsistent, SENDING, RECEIVING
<1>3. \A y \in Proc : \A z : Sends(y, z)' <=> Sends(y, z)
  BY <1>2 DEF SendHandOff, Sends, IInv, TypeOK, SENDING, RECEIVING
<1>4. TypeOK'
  BY DEF IInv, TypeOK, Message, SendHandOff, AssertThat
<1>5. QueueExact'
  BY <1>3 DEF IInv, QueueExact, SendHandOff
<1>6. EntryConsistent'
  BY <1>2 DEF IInv, TypeOK, EntryConsistent, SendHandOff, SENDING, RECEIVING
<1>7. NoMissedRendezvous'
  BY <1>3 DEF IInv, TypeOK, NoMissedRendezvous, SendHandOff
<1>8. NoMissedInterrupt'
  BY DEF IInv, TypeOK, NoMissedInterrupt, WaitsForInt, SendHandOff
<1>9. SendersAcyclic'
  BY <1>3, FewerSendersAcyclic DEF IInv
<1>10. NoAssertFails'
  BY <1>1, <1>2 DEF NoAssertFails, SendHandOff, AssertThat
<1>11. QED
  BY <1>4, <1>5, <1>6, <1>7, <1>8, <1>9, <1>10 DEF IInv

LEMMA SendBlockInv ==
  ASSUME IInv, NEW p \in Proc, NEW d \in Proc, NEW t \in Type,
         SendBlock(p, d, t)
  PROVE  IInv'
<1>1. Idle(p) /\ panic = "none"
      /\ \A z \in Proc : ~ Sends(p, z) /\ p \notin ToSet(q_sending[z])
  BY RunnerIsIdle DEF SendBlock
<1>2. \A y \in Proc : \A z : Sends(y, z)' <=> Sends(y, z) \/ (y = p /\ z = d)
  BY <1>1 DEF SendBlock, Sends, Idle, IInv, TypeOK
<1>3. TypeOK'
  BY DEF IInv, TypeOK, Message, SendBlock, AssertThat, Flag, SENDING
<1>4. QueueExact'
  <2>1. ASSUME NEW e \in Proc, e # d
        PROVE  q_sending'[e] = q_sending[e] /\ \A y \in Proc : Sends(y, e)' <=> Sends(y, e)
    BY <2>1, <1>2 DEF SendBlock, IInv, TypeOK
  <2>2. q_sending'[d] = Append(q_sending[d], p)
    BY DEF SendBlock, IInv, TypeOK
  <2>3. q_sending[d] \in Seq(Proc) /\ Once(q_sending[d]) /\ p \notin ToSet(q_sending[d])
    BY <1>1 DEF IInv, TypeOK, QueueExact, Once
  <2>4. Once(q_sending'[d]) /\ ToSet(q_sending'[d]) = ToSet(q_sending[d]) \cup {p}
    BY <2>2, <2>3, AppendExact
  <2>5. \A y \in Proc : y \in ToSet(q_sending'[d]) <=> Sends(y, d)'
    BY <2>4, <1>2 DEF IInv, QueueExact
  <2>6. QED
    BY <2>1, <2>4, <2>5 DEF IInv, QueueExact, Once
<1>5. EntryConsistent'
  BY <1>1, NumberAssumption
  DEF IInv, TypeOK, EntryConsistent, Idle, SendBlock, SENDING, RECEIVING
<1>6. NoMissedRendezvous'
  BY <1>1, <1>2
  DEF IInv, TypeOK, NoMissedRendezvous, SendBlock, Accepts, Idle, SENDING, RECEIVING
<1>7. NoMissedInterrupt'
  BY DEF IInv, TypeOK, NoMissedInterrupt, WaitsForInt, SendBlock, SENDING, RECEIVING
<1>8. SendersAcyclic'
  <2>1. ASSUME NEW y \in Proc, NEW w, Sends(y, w)
        PROVE  w \in Proc
    <3>1. p_flags[y] = {SENDING} /\ p_sendto[y] = w
      BY <2>1 DEF IInv, EntryConsistent, Sends, SENDING, RECEIVING
    <3>2. w # NO_TASK
      BY <3>1 DEF IInv, EntryConsistent
    <3>3. QED
      BY <3>1, <3>2 DEF IInv, TypeOK
  <2>2. p # d /\ ~ deadlock(p, d)
    BY DEF SendBlock
  <2>3. QED
    BY <1>1, <1>2, <2>1, <2>2, NewSenderAcyclic DEF IInv
<1>9. NoAssertFails'
  BY <1>1 DEF NoAssertFails, SendBlock, AssertThat, Idle
<1>10. QED
  BY <1>3, <1>4, <1>5, <1>6, <1>7, <1>8, <1>9 DEF IInv

LEMMA RecvInterruptInv ==
  ASSUME IInv, NEW p \in Proc, NEW src, RecvInterrupt(p, src)
  PROVE  IInv'
<1>1. Idle(p) /\ panic = "none"
  BY RunnerIsIdle DEF RecvInterrupt
<1>2. TypeOK' /\ NoAssertFails'
  BY <1>1 DEF IInv, TypeOK, Message, RecvInterrupt, AssertThat, Idle, NoAssertFails
<1>3. QueueExact' /\ EntryConsistent' /\ NoMissedRendezvous' /\ SendersAcyclic'
  BY DEF IInv, RecvInterrupt, QueueExact, EntryConsistent, NoMissedRendezvous,
         SendersAcyclic, Sends
<1>4. NoMissedInterrupt'
  BY DEF IInv, TypeOK, NoMissedInterrupt, WaitsForInt, RecvInterrupt
<1>5. QED
  BY <1>2, <1>3, <1>4 DEF IInv

LEMMA RecvFromQueueInv ==
  ASSUME IInv, NEW p \in Proc, NEW src, NEW f \in Proc, RecvFromQueue(p, src, f)
  PROVE  IInv'
<1>1. Idle(p) /\ panic = "none"
  BY RunnerIsIdle DEF RecvFromQueue
<1>2. f \in ToSet(q_sending[p]) /\ Sends(f, p)
  <2>1. CASE src = ANY
    <3>1. q_sending[p] \in Seq(Proc) /\ q_sending[p] # <<>> /\ f = Head(q_sending[p])
      BY <2>1 DEF RecvFromQueue, Selects, IInv, TypeOK
    <3>2. f \in ToSet(q_sending[p])
      BY <3>1, HeadInQueue
    <3>3. QED
      BY <3>2 DEF IInv, QueueExact
  <2>2. CASE src # ANY
    BY <2>2 DEF RecvFromQueue, Selects, IInv, QueueExact
  <2>3. QED
    BY <2>1, <2>2
<1>3. p_flags[f] = {SENDING} /\ p_msg[f] /\ p_recvfrom[f] = NO_TASK /\ p_sendto[f] = p
  BY <1>2 DEF IInv, EntryConsistent, Sends, SENDING, RECEIVING
<1>4. p \in Proc /\ p # NO_TASK /\ f # p
  BY <1>1, <1>3, NumberAssumption DEF Idle
<1>5. \A y \in Proc : \A z : Sends(y, z)' <=> Sends(y, z) /\ y # f
  BY <1>3 DEF RecvFromQueue, Sends, IInv, TypeOK
<1>6. /\ q_sending[p] \in Seq(Proc) /\ Once(q_sending[p])
      /\ q_sending' = [q_sending EXCEPT ![p] = Unlink(q_sending[p], f)]
  BY DEF RecvFromQueue, IInv, TypeOK, QueueExact, Once
<1>7. /\ Unlink(q_sending[p], f) \in Seq(Proc)
      /\ Once(Unlink(q_sending[p], f))
      /\ ToSet(Unlink(q_sending[p], f)) = ToSet(q_sending[p]) \ {f}
  BY <1>2, <1>6, UnlinkExact
<1>8. TypeOK'
  BY <1>6, <1>7 DEF IInv, TypeOK, RecvFromQueue, AssertThat
<1>9. QueueExact'
  <2>1. ASSUME NEW e \in Proc, e # p
        PROVE  q_sending'[e] = q_sending[e] /\ \A y \in Proc : Sends(y, e)' <=> Sends(y, e)
    BY <2>1, <1>3, <1>5, <1>6 DEF Sends, IInv, TypeOK
  <2>2. q_sending'[p] = Unlink(q_sending[p], f)
    BY <1>6 DEF IInv, TypeOK
  <2>3. \A y \in Proc : y \in ToSet(q_sending'[p]) <=> Sends(y, p)'
    BY <2>2, <1>5, <1>7 DEF IInv, QueueExact
  <2>4. QED
    BY <2>1, <2>2, <2>3, <1>7 DEF IInv, QueueExact, Once
<1>10. EntryConsistent'
  BY <1>3 DEF IInv, TypeOK, EntryConsistent, RecvFromQueue, SENDING, RECEIVING
<1>11. NoMissedRendezvous'
  BY <1>5 DEF IInv, TypeOK, NoMissedRendezvous, RecvFromQueue
<1>12. NoMissedInterrupt'
  BY DEF IInv, TypeOK, NoMissedInterrupt, WaitsForInt, RecvFromQueue
<1>13. SendersAcyclic'
  BY <1>5, FewerSendersAcyclic DEF IInv
<1>14. NoAssertFails'
  BY <1>1, <1>2, <1>3 DEF NoAssertFails, RecvFromQueue, AssertThat
<1>15. QED
  BY <1>8, <1>9, <1>10, <1>11, <1>12, <1>13, <1>14 DEF IInv

LEMMA RecvBlockInv ==
  ASSUME IInv, NEW p \in Proc, NEW src \in Proc \cup {ANY, INTERRUPT},
         MayReceive(p, src), RecvBlock(p, src)
  PROVE  IInv'
<1>1. Idle(p) /\ panic = "none"
  BY RunnerIsIdle DEF RecvBlock
<1>2. \A y \in Proc : \A z : Sends(y, z)' <=> Sends(y, z)
  BY <1>1 DEF RecvBlock, Sends, Idle, IInv, TypeOK, SENDING, RECEIVING
<1>3. ~ has_int_msg[p]
  BY DEF RecvBlock, MayReceive, IntFirst
<1>4. \A f \in Proc : Sends(f, p) => src # f /\ src # ANY
  <2> SUFFICES ASSUME NEW f \in Proc, Sends(f, p)
               PROVE  src # f /\ src # ANY
    OBVIOUS
  <2>1. q_sending[p] \in Seq(Proc) /\ f \in ToSet(q_sending[p])
    BY DEF IInv, TypeOK, QueueExact
  <2>2. q_sending[p] # <<>> /\ Head(q_sending[p]) \in Proc
    BY <2>1 DEF ToSet
  <2>3. src # ANY
    BY <2>2 DEF RecvBlock, Selects
  <2>4. src # f
    BY <2>3 DEF RecvBlock, Selects
  <2>5. QED
    BY <2>3, <2>4
<1>5. TypeOK'
  BY DEF IInv, TypeOK, Message, RecvBlock, AssertThat, Flag, RECEIVING
<1>6. QueueExact'
  BY <1>2 DEF IInv, QueueExact, RecvBlock
<1>7. EntryConsistent'
  BY <1>1, NumberAssumption
  DEF IInv, TypeOK, EntryConsistent, Idle, RecvBlock, SENDING, RECEIVING
<1>8. NoMissedRendezvous'
  BY <1>2, <1>4 DEF IInv, TypeOK, NoMissedRendezvous, RecvBlock
<1>9. NoMissedInterrupt'
  BY <1>3 DEF IInv, TypeOK, NoMissedInterrupt, WaitsForInt, RecvBlock
<1>10. SendersAcyclic'
  BY <1>2, FewerSendersAcyclic DEF IInv
<1>11. NoAssertFails'
  BY <1>1, <1>3 DEF NoAssertFails, RecvBlock, AssertThat, Idle
<1>12. QED
  BY <1>5, <1>6, <1>7, <1>8, <1>9, <1>10, <1>11 DEF IInv

LEMMA IntDeliverInv ==
  ASSUME IInv, NEW p \in Proc, IntDeliver(p)
  PROVE  IInv'
<1>1. p_flags[p] = {RECEIVING} /\ p_sendto[p] = NO_TASK
  BY DEF IntDeliver, WaitsForInt, IInv, EntryConsistent, SENDING, RECEIVING
<1>2. \A y \in Proc : \A z : Sends(y, z)' <=> Sends(y, z)
  BY <1>1 DEF IntDeliver, Sends, IInv, TypeOK, SENDING, RECEIVING
<1>3. TypeOK'
  BY DEF IInv, TypeOK, Message, IntDeliver, AssertThat
<1>4. QueueExact'
  BY <1>2 DEF IInv, QueueExact, IntDeliver
<1>5. EntryConsistent'
  BY <1>1 DEF IInv, TypeOK, EntryConsistent, IntDeliver, SENDING, RECEIVING
<1>6. NoMissedRendezvous'
  BY <1>2 DEF IInv, TypeOK, NoMissedRendezvous, IntDeliver
<1>7. NoMissedInterrupt'
  BY DEF IInv, TypeOK, NoMissedInterrupt, WaitsForInt, IntDeliver
<1>8. SendersAcyclic'
  BY <1>2, FewerSendersAcyclic DEF IInv
<1>9. NoAssertFails'
  BY <1>1 DEF NoAssertFails, IntDeliver, AssertThat
<1>10. QED
  BY <1>3, <1>4, <1>5, <1>6, <1>7, <1>8, <1>9 DEF IInv

LEMMA IntMarkInv ==
  ASSUME IInv, NEW p \in Proc, IntMark(p)
  PROVE  IInv'
<1>1. TypeOK' /\ NoAssertFails'
  BY DEF IInv, TypeOK, IntMark, NoAssertFails
<1>2. QueueExact' /\ EntryConsistent' /\ NoMissedRendezvous' /\ SendersAcyclic'
  BY DEF IInv, IntMark, QueueExact, EntryConsistent, NoMissedRendezvous,
         SendersAcyclic, Sends
<1>3. NoMissedInterrupt'
  BY DEF IInv, TypeOK, NoMissedInterrupt, WaitsForInt, IntMark
<1>4. QED
  BY <1>1, <1>2, <1>3 DEF IInv

LEMMA StepInv == IInv /\ [Next]_ipcVars => IInv'
<1> SUFFICES ASSUME IInv, [Next]_ipcVars PROVE IInv'
  OBVIOUS
<1>1. ASSUME NEW p \in Proc, NEW d \in Proc, NEW t \in Type, msg_send(p, d, t)
      PROVE  IInv'
  BY <1>1, SendDeadlockInv, SendHandOffInv, SendBlockInv DEF msg_send
<1>2. ASSUME NEW p \in Proc, NEW src \in Proc \cup {ANY, INTERRUPT},
             msg_receive(p, src)
      PROVE  IInv'
  BY <1>2, RecvInterruptInv, RecvFromQueueInv, RecvBlockInv DEF msg_receive
<1>3. ASSUME NEW p \in IntTask, inform_int(p)
      PROVE  IInv'
  BY <1>3, TaskAssumption, IntDeliverInv, IntMarkInv DEF inform_int
<1>4. CASE UNCHANGED ipcVars
  <2> USE <1>4 DEF ipcVars
  <2>1. TypeOK' /\ NoAssertFails'
    BY DEF IInv, TypeOK, NoAssertFails
  <2>2. QueueExact' /\ EntryConsistent' /\ NoMissedRendezvous' /\ SendersAcyclic'
    BY DEF IInv, QueueExact, EntryConsistent, NoMissedRendezvous, SendersAcyclic, Sends
  <2>3. NoMissedInterrupt'
    BY DEF IInv, NoMissedInterrupt, WaitsForInt
  <2>4. QED
    BY <2>1, <2>2, <2>3 DEF IInv
<1>5. QED
  BY <1>1, <1>2, <1>3, <1>4 DEF Next, SendRec, Halted

-----------------------------------------------------------------------------
(***************************************************************************)
(* The theorems.                                                           *)
(***************************************************************************)

(* Every reachable state of the kernel satisfies the inductive invariant.  *)
THEOREM Invariance == Spec => []IInv
BY InitInv, StepInv, PTL DEF Spec

(* The process table holds values of the right kind in every reachable     *)
(* state.                                                                  *)
THEOREM TypeCorrect == Spec => []TypeOK
<1>1. IInv => TypeOK
  BY DEF IInv
<1>2. QED
  BY <1>1, Invariance, PTL

(* q_sending is always exactly the senders of a process, without           *)
(* repetition.                                                             *)
THEOREM QueueCorrect == Spec => []QueueExact
<1>1. IInv => QueueExact
  BY DEF IInv
<1>2. QED
  BY <1>1, Invariance, PTL

(* p_flags, p_msg, p_sendto and p_recvfrom always agree.                   *)
THEOREM EntryCorrect == Spec => []EntryConsistent
<1>1. IInv => EntryConsistent
  BY DEF IInv
<1>2. QED
  BY <1>1, Invariance, PTL

(* A sender and a receiver that match are never both blocked, and no task  *)
(* sleeps on an interrupt that has come.                                   *)
THEOREM NothingMissed == Spec => []NoMissedMatch
<1>1. IInv => NoMissedMatch
  BY DEF IInv, NoMissedMatch
<1>2. QED
  BY <1>1, Invariance, PTL

(* Senders never wait in a circle: deadlock() refuses the call that would  *)
(* close it, and its walk over p_sendto always ends.                       *)
THEOREM NoSendCircle == Spec => []SendersAcyclic
<1>1. IInv => SendersAcyclic
  BY DEF IInv
<1>2. QED
  BY <1>1, Invariance, PTL

(* No assert() of the message passing code ever fails.                     *)
THEOREM AssertsHold == Spec => []NoAssertFails
<1>1. IInv => NoAssertFails
  BY DEF IInv
<1>2. QED
  BY <1>1, Invariance, PTL

-----------------------------------------------------------------------------
(***************************************************************************)
(* Messages.  A blocked sender's buffer still holds the message that       *)
(* sys_sendrec signed with its number.                                     *)
(***************************************************************************)
BufferHeld ==
  \A p \in Proc :
    SENDING \in p_flags[p] => mbuf[p].source = p /\ mbuf[p].type \in Type

LEMMA BufferHeldStep == IInv /\ BufferHeld /\ [Next]_ipcVars => BufferHeld'
<1> SUFFICES ASSUME IInv, BufferHeld, [Next]_ipcVars,
                    NEW q \in Proc, SENDING \in p_flags'[q]
             PROVE  mbuf'[q].source = q /\ mbuf'[q].type \in Type
  BY DEF BufferHeld
<1>1. ASSUME SENDING \in p_flags[q], mbuf'[q] = mbuf[q]
      PROVE  mbuf'[q].source = q /\ mbuf'[q].type \in Type
  BY <1>1 DEF BufferHeld
<1>2. ASSUME NEW p \in Proc, NEW d \in Proc, NEW t \in Type, msg_send(p, d, t)
      PROVE  mbuf'[q].source = q /\ mbuf'[q].type \in Type
  <2>1. CASE SendBlock(p, d, t)
    <3>1. CASE q = p
      BY <2>1, <3>1 DEF SendBlock, IInv, TypeOK
    <3>2. CASE q # p
      BY <2>1, <3>2, <1>1 DEF SendBlock, IInv, TypeOK
    <3>3. QED
      BY <3>1, <3>2
  <2>2. CASE SendHandOff(p, d, t)
    <3>1. SENDING \in p_flags[q] /\ q # d /\ q # p
      BY <2>2 DEF SendHandOff, Accepts, Running, IInv, TypeOK, EntryConsistent, SENDING, RECEIVING
    <3>2. QED
      BY <2>2, <3>1, <1>1 DEF SendHandOff, IInv, TypeOK
  <2>3. CASE SendDeadlock(p, d, t)
    <3>1. SENDING \in p_flags[q] /\ q # p
      BY <2>3 DEF SendDeadlock, Running
    <3>2. QED
      BY <2>3, <3>1, <1>1 DEF SendDeadlock, IInv, TypeOK
  <2>4. QED
    BY <1>2, <2>1, <2>2, <2>3 DEF msg_send
<1>3. ASSUME NEW p \in Proc, NEW src \in Proc \cup {ANY, INTERRUPT}, msg_receive(p, src)
      PROVE  mbuf'[q].source = q /\ mbuf'[q].type \in Type
  <2>1. CASE RecvInterrupt(p, src)
    <3>1. SENDING \in p_flags[q] /\ q # p
      BY <2>1 DEF RecvInterrupt, Running
    <3>2. QED
      BY <2>1, <3>1, <1>1 DEF RecvInterrupt, IInv, TypeOK
  <2>2. ASSUME NEW f \in Proc, RecvFromQueue(p, src, f)
        PROVE  mbuf'[q].source = q /\ mbuf'[q].type \in Type
    <3>1. SENDING \in p_flags[q] /\ p_flags[p] = {}
      BY <2>2 DEF RecvFromQueue, Running, IInv, TypeOK
    <3>2. QED
      BY <2>2, <3>1, <1>1 DEF RecvFromQueue, IInv, TypeOK
  <2>3. CASE RecvBlock(p, src)
    <3>1. SENDING \in p_flags[q] /\ p_flags[p] = {}
      BY <2>3 DEF RecvBlock, Running, IInv, TypeOK, SENDING, RECEIVING
    <3>2. QED
      BY <2>3, <3>1, <1>1 DEF RecvBlock, IInv, TypeOK
  <2>4. QED
    BY <1>3, <2>1, <2>2, <2>3 DEF msg_receive
<1>4. ASSUME NEW p \in IntTask, inform_int(p)
      PROVE  mbuf'[q].source = q /\ mbuf'[q].type \in Type
  <2>1. CASE IntDeliver(p)
    <3>1. p \in Proc /\ p_flags[p] = {RECEIVING}
      BY <2>1, TaskAssumption
      DEF IntDeliver, WaitsForInt, IInv, EntryConsistent, SENDING, RECEIVING
    <3>2. SENDING \in p_flags[q] /\ q # p
      BY <2>1, <3>1 DEF IntDeliver, IInv, TypeOK, SENDING, RECEIVING
    <3>3. QED
      BY <2>1, <3>1, <3>2, <1>1 DEF IntDeliver, IInv, TypeOK
  <2>2. CASE IntMark(p)
    BY <2>2, <1>1 DEF IntMark
  <2>3. QED
    BY <1>4, <2>1, <2>2 DEF inform_int
<1>5. CASE UNCHANGED ipcVars
  BY <1>5, <1>1 DEF ipcVars
<1>6. QED
  BY <1>2, <1>3, <1>4, <1>5 DEF Next, SendRec, Halted

LEMMA BufferHeldInv == Spec => []BufferHeld
<1>1. Init => BufferHeld
  BY DEF Init, BufferHeld
<1>2. QED
  BY <1>1, BufferHeldStep, Invariance, PTL DEF Spec

(* A SEND completes only by its message reaching the process it was for.   *)
THEOREM SendsDelivered == Spec => SendDelivers
<1> DEFINE Delivered(p, d) ==
             (Sends(p, d) /\ SENDING \notin p_flags'[p]) =>
                /\ mbuf'[d] = mbuf[p] /\ mbuf[p].source = p
                /\ p_flags[d] = {} /\ p_flags'[d] = {}
<1>1. ASSUME IInv, BufferHeld, [Next]_ipcVars, NEW p \in Proc, NEW d \in Proc
      PROVE  Delivered(p, d)
  <2> SUFFICES ASSUME Sends(p, d), SENDING \notin p_flags'[p]
               PROVE  /\ mbuf'[d] = mbuf[p] /\ mbuf[p].source = p
                      /\ p_flags[d] = {} /\ p_flags'[d] = {}
    OBVIOUS
  <2>1. p_flags[p] = {SENDING} /\ p_sendto[p] = d /\ mbuf[p].source = p
    BY <1>1 DEF Sends, IInv, EntryConsistent, BufferHeld, SENDING, RECEIVING
  <2>2. ASSUME NEW c \in Proc, NEW e \in Proc, NEW t \in Type, msg_send(c, e, t)
        PROVE  FALSE
    <3>1. CASE SendDeadlock(c, e, t)
      BY <2>1, <3>1 DEF SendDeadlock
    <3>2. CASE SendHandOff(c, e, t)
      BY <2>1, <3>2, <1>1 DEF SendHandOff, IInv, TypeOK, SENDING, RECEIVING
    <3>3. CASE SendBlock(c, e, t)
      BY <2>1, <3>3, <1>1 DEF SendBlock, IInv, TypeOK
    <3>4. QED
      BY <2>2, <3>1, <3>2, <3>3 DEF msg_send
  <2>3. ASSUME NEW c \in Proc, NEW src \in Proc \cup {ANY, INTERRUPT},
               RecvInterrupt(c, src) \/ RecvBlock(c, src)
        PROVE  FALSE
    <3>1. CASE RecvInterrupt(c, src)
      BY <2>1, <3>1 DEF RecvInterrupt
    <3>2. CASE RecvBlock(c, src)
      BY <2>1, <3>2, <1>1 DEF RecvBlock, IInv, TypeOK
    <3>3. QED
      BY <2>3, <3>1, <3>2
  <2>4. ASSUME NEW c \in Proc, NEW src \in Proc \cup {ANY, INTERRUPT},
               NEW f \in Proc, RecvFromQueue(c, src, f)
        PROVE  mbuf'[d] = mbuf[p] /\ p_flags[d] = {} /\ p_flags'[d] = {}
    <3>1. f = p
      BY <2>1, <2>4, <1>1 DEF RecvFromQueue, IInv, TypeOK
    <3>2. Sends(f, c)
      <4>1. CASE src = ANY
        <5>1. f \in ToSet(q_sending[c])
          BY <2>4, <4>1, <1>1, HeadInQueue DEF RecvFromQueue, Selects, IInv, TypeOK
        <5>2. QED
          BY <5>1, <1>1 DEF IInv, QueueExact
      <4>2. CASE src # ANY
        BY <2>4, <4>2 DEF RecvFromQueue, Selects
      <4>3. QED
        BY <4>1, <4>2
    <3>3. c = d
      BY <3>1, <3>2, <2>1 DEF Sends
    <3>4. QED
      BY <3>1, <3>3, <2>4, <2>1, <1>1 DEF RecvFromQueue, Running, IInv, TypeOK
  <2>5. ASSUME NEW c \in IntTask, inform_int(c)
        PROVE  FALSE
    <3>1. c \in Proc
      BY TaskAssumption
    <3>2. p_flags' = p_flags \/ p_flags' = [p_flags EXCEPT ![c] = p_flags[c] \ {RECEIVING}]
      BY <2>5 DEF inform_int, IntDeliver, IntMark
    <3>3. QED
      BY <2>1, <3>1, <3>2, <1>1 DEF IInv, TypeOK, SENDING, RECEIVING
  <2>6. CASE UNCHANGED ipcVars
    BY <2>6, <2>1 DEF ipcVars
  <2>7. QED
    BY <1>1, <2>1, <2>2, <2>3, <2>4, <2>5, <2>6
    DEF Next, SendRec, msg_receive, Halted
<1>2. IInv /\ BufferHeld /\ [Next]_ipcVars => [\A p, d \in Proc : Delivered(p, d)]_ipcVars
  BY <1>1
<1>3. QED
  BY <1>2, Invariance, BufferHeldInv, PTL DEF Spec, SendDelivers

(* A blocked receive completes only with a message it asked for.           *)
THEOREM ReceivesWanted == Spec => ReceiveGetsWanted
<1> DEFINE Wanted(p) ==
             (RECEIVING \in p_flags[p] /\ RECEIVING \notin p_flags'[p]) =>
                LET m == mbuf'[p]
                IN  /\ p_recvfrom[p] # ANY => m.source = p_recvfrom[p]
                    /\ m.source # p
                    /\ m.source = INTERRUPT <=> m.type = HARD_INT
<1>1. ASSUME IInv, [Next]_ipcVars, NEW p \in Proc
      PROVE  Wanted(p)
  <2> SUFFICES ASSUME RECEIVING \in p_flags[p], RECEIVING \notin p_flags'[p]
               PROVE  /\ p_recvfrom[p] # ANY => mbuf'[p].source = p_recvfrom[p]
                      /\ mbuf'[p].source # p
                      /\ mbuf'[p].source = INTERRUPT <=> mbuf'[p].type = HARD_INT
    OBVIOUS
  <2>1. p_flags[p] = {RECEIVING} /\ INTERRUPT \notin Proc /\ HARD_INT \notin Type
    BY <1>1, NumberAssumption, TypeAssumption
    DEF IInv, EntryConsistent, SENDING, RECEIVING
  <2>2. ASSUME NEW c \in Proc, NEW d \in Proc, NEW t \in Type, SendHandOff(c, d, t)
        PROVE  /\ p_recvfrom[p] # ANY => mbuf'[p].source = p_recvfrom[p]
               /\ mbuf'[p].source = c /\ mbuf'[p].type = t /\ c # p
    <3>1. d = p
      BY <2>1, <2>2, <1>1 DEF SendHandOff, IInv, TypeOK
    <3>2. mbuf'[p] = [source |-> c, type |-> t]
      BY <3>1, <2>2, <1>1 DEF SendHandOff, IInv, TypeOK
    <3>3. QED
      BY <3>1, <3>2, <2>2 DEF SendHandOff, Accepts
  <2>3. ASSUME NEW c \in Proc, NEW d \in Proc, NEW t \in Type,
               SendDeadlock(c, d, t) \/ SendBlock(c, d, t)
        PROVE  FALSE
    <3>1. CASE SendDeadlock(c, d, t)
      BY <2>1, <3>1 DEF SendDeadlock
    <3>2. CASE SendBlock(c, d, t)
      BY <2>1, <3>2, <1>1 DEF SendBlock, IInv, TypeOK
    <3>3. QED
      BY <2>3, <3>1, <3>2
  <2>4. ASSUME NEW c \in Proc, NEW src \in Proc \cup {ANY, INTERRUPT},
               msg_receive(c, src)
        PROVE  FALSE
    <3>1. CASE RecvInterrupt(c, src)
      BY <2>1, <3>1 DEF RecvInterrupt
    <3>2. CASE RecvBlock(c, src)
      BY <2>1, <3>2, <1>1 DEF RecvBlock, IInv, TypeOK
    <3>3. ASSUME NEW f \in Proc, RecvFromQueue(c, src, f)
          PROVE  FALSE
      BY <2>1, <3>3, <1>1 DEF RecvFromQueue, IInv, TypeOK, SENDING, RECEIVING
    <3>4. QED
      BY <2>4, <3>1, <3>2, <3>3 DEF msg_receive
  <2>5. ASSUME NEW c \in IntTask, inform_int(c)
        PROVE  /\ p_recvfrom[p] # ANY => mbuf'[p].source = p_recvfrom[p]
               /\ mbuf'[p] = [source |-> INTERRUPT, type |-> HARD_INT]
    <3>1. CASE IntDeliver(c)
      <4>1. c = p
        BY <2>1, <3>1, <1>1, TaskAssumption DEF IntDeliver, IInv, TypeOK
      <4>2. mbuf'[p] = [source |-> INTERRUPT, type |-> HARD_INT]
        BY <4>1, <3>1, <1>1 DEF IntDeliver, IInv, TypeOK
      <4>3. QED
        BY <4>1, <4>2, <3>1 DEF IntDeliver, WaitsForInt
    <3>2. CASE IntMark(c)
      BY <2>1, <3>2 DEF IntMark
    <3>3. QED
      BY <2>5, <3>1, <3>2 DEF inform_int
  <2>6. CASE UNCHANGED ipcVars
    BY <2>6, <2>1 DEF ipcVars
  <2>7. CASE \E c, d \in Proc, t \in Type : SendHandOff(c, d, t)
    <3>1. PICK c \in Proc, d \in Proc, t \in Type : SendHandOff(c, d, t)
      BY <2>7
    <3>2. QED
      BY <3>1, <2>1, <2>2
  <2>8. CASE \E c \in IntTask : inform_int(c)
    <3>1. PICK c \in IntTask : inform_int(c)
      BY <2>8
    <3>2. mbuf'[p].source = INTERRUPT /\ mbuf'[p].type = HARD_INT
      BY <3>1, <2>5
    <3>3. QED
      BY <3>1, <3>2, <2>1, <2>5
  <2>9. QED
    BY <1>1, <2>3, <2>4, <2>6, <2>7, <2>8 DEF Next, SendRec, msg_send, Halted
<1>2. IInv /\ [Next]_ipcVars => [\A p \in Proc : Wanted(p)]_ipcVars
  BY <1>1
<1>3. QED
  BY <1>2, Invariance, PTL DEF Spec, ReceiveGetsWanted

(* Both together: no blocked call of msg_send or msg_receive completes     *)
(* without its match.                                                      *)
THEOREM EveryCallMatched == Spec => CallsMatched
  BY SendsDelivered, ReceivesWanted DEF CallsMatched

-----------------------------------------------------------------------------
(***************************************************************************)
(* IPC implements Rendezvous: each step of the process table is a step of  *)
(* the abstract rendezvous, or changes nothing it can see.                 *)
(***************************************************************************)

(* The walk from a process that sends to w goes on as the walk from w.     *)
LEMMA ChainStep ==
  ASSUME NEW y \in Proc, NEW w \in Proc, Sends(y, w)
  PROVE  SendChain(y) \subseteq {y} \cup SendChain(w)
<1> DEFINE T == {y} \cup SendChain(w)
<1>1. T \in SUBSET Proc /\ y \in T /\ w \in T
  BY DEF SendChain
<1>2. \A z \in T, v \in Proc : Sends(z, v) => v \in T
  BY DEF SendChain, Sends
<1>3. QED
  BY <1>1, <1>2 DEF SendChain

(* If deadlock(p, d) reports a chain, everybody on it but p is sending.    *)
LEMMA ReportedChain ==
  ASSUME NEW p \in Proc, NEW d \in Proc, deadlock(p, d),
         \A z \in Proc : ~ Sends(p, z)
  PROVE  \A y \in SendChain(d) \ {p} : \E w \in SendChain(d) : Sends(y, w)
<1> DEFINE U == SendChain(d)
           T == {y \in U : p \in SendChain(y)}
<1>1. /\ U \in SUBSET Proc /\ d \in U
      /\ \A z \in U, w \in Proc : Sends(z, w) => w \in U
  BY DEF SendChain
<1>2. p \in U
  BY <1>1 DEF deadlock
<1>3. ASSUME NEW z \in T, NEW w \in Proc, Sends(z, w)
      PROVE  w \in T
  <2>1. z \in Proc /\ z # p
    BY <1>3, <1>1
  <2>2. p \in SendChain(w)
    BY <2>1, <1>3, ChainStep
  <2>3. QED
    BY <2>2, <1>1, <1>3
<1>4. U \subseteq T
  <2>1. T \in SUBSET Proc /\ d \in T
    BY <1>1, <1>2
  <2>2. QED
    BY <2>1, <1>3 DEF SendChain
<1>5. ASSUME NEW y \in U \ {p}, \A w \in Proc : ~ Sends(y, w)
      PROVE  FALSE
  <2> DEFINE V == {y}
  <2>1. y \in Proc /\ V \in SUBSET Proc /\ y \in V
    BY <1>1
  <2>2. \A z \in V, w \in Proc : Sends(z, w) => w \in V
    BY <1>5
  <2>3. SendChain(y) \subseteq V
    BY <2>1, <2>2 DEF SendChain
  <2>4. QED
    BY <2>3, <1>4, <1>5
<1>6. QED
  BY <1>1, <1>5

LEMMA CallOf ==
  ASSUME IInv, NEW p \in Proc
  PROVE  /\ callOf[p] = [op |-> "none"] <=> p_flags[p] = {}
         /\ p_flags[p] = {} => callOf[p] = [op |-> "none"]
         /\ \A d : callOf[p] = [op |-> "send", dest |-> d] <=> Sends(p, d)
         /\ \A s : callOf[p] = [op |-> "receive", src |-> s]
                     <=> RECEIVING \in p_flags[p] /\ p_recvfrom[p] = s
<1>1. CASE p_flags[p] = {}
  <2>1. callOf[p] = [op |-> "none"]
    BY <1>1 DEF callOf
  <2>2. QED
    BY <1>1, <2>1 DEF Sends
<1>2. CASE p_flags[p] = {SENDING}
  <2>1. callOf[p] = [op |-> "send", dest |-> p_sendto[p]]
    BY <1>2 DEF callOf
  <2>2. \A d : [op |-> "send", dest |-> p_sendto[p]] = [op |-> "send", dest |-> d]
               <=> p_sendto[p] = d
    OBVIOUS
  <2>3. QED
    BY <1>2, <2>1, <2>2 DEF Sends, SENDING, RECEIVING
<1>3. CASE p_flags[p] = {RECEIVING}
  <2>1. callOf[p] = [op |-> "receive", src |-> p_recvfrom[p]]
    BY <1>3 DEF callOf, SENDING, RECEIVING
  <2>2. \A d : [op |-> "receive", src |-> p_recvfrom[p]] = [op |-> "receive", src |-> d]
               <=> p_recvfrom[p] = d
    OBVIOUS
  <2>3. QED
    BY <1>3, <2>1, <2>2 DEF Sends, SENDING, RECEIVING
<1>4. QED
  BY <1>1, <1>2, <1>3 DEF IInv, EntryConsistent

(* The abstract circle is the chain that deadlock() looks for.             *)
LEMMA CircleIsDeadlock ==
  ASSUME IInv, NEW p \in Proc, NEW d \in Proc, p # d, p_flags[p] = {}
  PROVE  RV!InCircle(p, d) <=> deadlock(p, d)
<1>1. \A y \in Proc : \A z : callOf[y] = RV!SendTo(z) <=> Sends(y, z)
  BY CallOf DEF RV!SendTo
<1>2. \A z \in Proc : ~ Sends(p, z)
  BY DEF Sends
<1> DEFINE U == SendChain(d)
<1>3. /\ U \in SUBSET Proc /\ d \in U
      /\ \A z \in U, w \in Proc : Sends(z, w) => w \in U
  BY DEF SendChain
<1>4. ASSUME deadlock(p, d) PROVE RV!InCircle(p, d)
  <2> DEFINE S == U \ {p}
  <2>1. S \in SUBSET (Proc \ {p}) /\ d \in S
    BY <1>3
  <2>2. \A y \in S : \E z \in S \cup {p} : callOf[y] = RV!SendTo(z)
    BY <1>1, <1>2, <1>3, <1>4, ReportedChain
  <2>3. QED
    BY <2>1, <2>2 DEF RV!InCircle
<1>5. ASSUME RV!InCircle(p, d), ~ deadlock(p, d) PROVE FALSE
  <2>1. PICK S \in SUBSET (Proc \ {p}) :
           d \in S /\ \A y \in S : \E z \in S \cup {p} : Sends(y, z)
    BY <1>1, <1>5 DEF RV!InCircle
  <2> DEFINE T == U \cap S
  <2>2. \A y \in T, w \in Proc : Sends(y, w) => w \in T
    BY <2>1, <1>3, <1>5 DEF deadlock, Sends
  <2>3. U \subseteq S
    BY <2>1, <2>2, <1>3 DEF SendChain
  <2>4. \A y \in U : \E z \in U : Sends(y, z)
    BY <2>1, <2>3, <1>3, <1>5 DEF deadlock
  <2>5. QED
    BY <2>4, <1>3 DEF IInv, SendersAcyclic
<1>6. QED
  BY <1>4, <1>5

-----------------------------------------------------------------------------
(* callOf as a function, and what a step does to it.                       *)
LEMMA CallStep ==
  ASSUME NEW p \in Proc,
         \A y \in Proc : y # p => /\ p_flags'[y] = p_flags[y]
                                /\ p_sendto'[y] = p_sendto[y]
                                /\ p_recvfrom'[y] = p_recvfrom[y]
  PROVE  callOf' = [callOf EXCEPT ![p] = callOf'[p]]
<1>1. callOf = [y \in Proc |-> callOf[y]] /\ callOf' = [y \in Proc |-> callOf'[y]]
  BY DEF callOf
<1>2. ASSUME NEW y \in Proc, y # p
      PROVE  callOf'[y] = callOf[y]
  BY <1>2 DEF callOf
<1>3. QED
  BY <1>1, <1>2

LEMMA RefineInit == Init => RV!RvInit
BY DEF Init, RV!RvInit, callOf, RV!NoCall, SENDING, RECEIVING

LEMMA RefineSend ==
  ASSUME IInv, IInv', NEW p \in Proc, NEW d \in Proc, NEW t \in Type, msg_send(p, d, t)
  PROVE  RV!RvNext
<1> USE DEF RV!NoCall, RV!SendTo, RV!RecvFrom
<1>1. p_flags[p] = {} /\ panic = "none" /\ p # d /\ RV!Free(p)
  BY CallOf
  DEF msg_send, SendDeadlock, SendHandOff, SendBlock, Running, RV!Free
<1>2. RV!InCircle(p, d) <=> deadlock(p, d)
  BY <1>1, CircleIsDeadlock
<1>3. RV!Wants(d, p) <=> Accepts(d, p)
  BY CallOf DEF RV!Wants, Accepts
<1>4. CASE SendDeadlock(p, d, t)
  <2>1. callOf' = callOf
    BY <1>4 DEF SendDeadlock, callOf
  <2>2. RV!GiveUp(p, d)
    BY <1>1, <1>2, <1>4, <2>1 DEF SendDeadlock, RV!GiveUp
  <2>3. QED
    BY <2>2 DEF RV!RvNext
<1>5. CASE SendHandOff(p, d, t)
  <2>1. p_flags'[d] = {}
    BY <1>5 DEF SendHandOff, Accepts, IInv, TypeOK, EntryConsistent, SENDING, RECEIVING
  <2>2. callOf'[d] = RV!NoCall
    BY <2>1 DEF callOf
  <2>3. callOf' = [callOf EXCEPT ![d] = RV!NoCall]
    BY <1>5, <2>2, CallStep DEF SendHandOff, IInv, TypeOK
  <2>4. panic' = "none"
    BY <1>5, <1>1 DEF SendHandOff, AssertThat, IInv, NoAssertFails
  <2>5. RV!SendMeets(p, d)
    BY <1>1, <1>3, <1>5, <2>3, <2>4 DEF SendHandOff, RV!SendMeets
  <2>6. QED
    BY <2>5 DEF RV!RvNext
<1>6. CASE SendBlock(p, d, t)
  <2>1. p_flags'[p] = {SENDING} /\ p_sendto'[p] = d
    BY <1>1, <1>6 DEF SendBlock, IInv, TypeOK
  <2>2. callOf'[p] = RV!SendTo(d)
    BY <2>1 DEF callOf
  <2>3. callOf' = [callOf EXCEPT ![p] = RV!SendTo(d)]
    BY <1>6, <2>2, CallStep DEF SendBlock, IInv, TypeOK
  <2>4. panic' = "none"
    BY <1>6, <1>1 DEF SendBlock, AssertThat, IInv, NoAssertFails
  <2>5. RV!SendWaits(p, d)
    BY <1>1, <1>2, <1>3, <1>6, <2>3, <2>4 DEF SendBlock, RV!SendWaits
  <2>6. QED
    BY <2>5 DEF RV!RvNext
<1>7. QED
  BY <1>4, <1>5, <1>6 DEF msg_send

LEMMA RefineReceive ==
  ASSUME IInv, IInv', NEW p \in Proc, NEW src \in Proc \cup {ANY, INTERRUPT},
         msg_receive(p, src)
  PROVE  RV!RvNext
<1> USE DEF RV!NoCall, RV!SendTo, RV!RecvFrom
<1> DEFINE waiting == {y \in Proc : has_int_msg[y]}
<1>1. p_flags[p] = {} /\ panic = "none" /\ RV!Free(p)
  BY CallOf DEF msg_receive, RecvInterrupt, RecvFromQueue, RecvBlock, Running, RV!Free
<1>2. CASE RecvInterrupt(p, src)
  <2>1. callOf' = callOf
    BY <1>2 DEF RecvInterrupt, callOf
  <2>2. panic' = "none"
    BY <1>2, <1>1 DEF RecvInterrupt, AssertThat, IInv, NoAssertFails
  <2>3. waiting' = waiting \ {p} /\ p \in waiting
    BY <1>2 DEF RecvInterrupt, IntFirst, IInv, TypeOK
  <2>4. RV!RecvNotice(p)
    BY <1>1, <1>2, <2>1, <2>2, <2>3 DEF RecvInterrupt, RV!RecvNotice, RV!Note
  <2>5. QED
    BY <2>4 DEF RV!RvNext
<1>3. ASSUME NEW f \in Proc, RecvFromQueue(p, src, f)
      PROVE  RV!RvNext
  <2>1. Sends(f, p) /\ src \in {f, ANY}
    <3>1. CASE src = ANY
      <4>1. f \in ToSet(q_sending[p])
        BY <1>3, <3>1, HeadInQueue DEF RecvFromQueue, Selects, IInv, TypeOK
      <4>2. QED
        BY <3>1, <4>1 DEF IInv, QueueExact
    <3>2. CASE src # ANY
      BY <1>3, <3>2 DEF RecvFromQueue, Selects
    <3>3. QED
      BY <3>1, <3>2
  <2>2. p_flags[f] = {SENDING} /\ callOf[f] = RV!SendTo(p)
    BY <2>1, CallOf DEF IInv, EntryConsistent, Sends, SENDING, RECEIVING
  <2>3. p_flags'[f] = {}
    BY <1>3, <2>2 DEF RecvFromQueue, IInv, TypeOK
  <2>4. callOf'[f] = RV!NoCall
    BY <2>3 DEF callOf
  <2>5. callOf' = [callOf EXCEPT ![f] = RV!NoCall]
    BY <1>3, <2>4, CallStep DEF RecvFromQueue, IInv, TypeOK
  <2>6. panic' = "none"
    BY <1>3, <1>1 DEF RecvFromQueue, AssertThat, IInv, NoAssertFails
  <2>7. src = ANY => p \notin waiting
    BY <1>3 DEF RecvFromQueue, IntFirst
  <2>8. waiting' = waiting
    BY <1>3 DEF RecvFromQueue
  <2>9. RV!RecvMeets(p, src, f)
    BY <1>1, <1>3, <2>1, <2>2, <2>5, <2>6, <2>7, <2>8 DEF RecvFromQueue, RV!RecvMeets
  <2>10. QED
    BY <2>1, <2>9 DEF RV!RvNext
<1>4. CASE RecvBlock(p, src)
  <2>1. p_flags'[p] = {RECEIVING} /\ p_recvfrom'[p] = src
    BY <1>1, <1>4 DEF RecvBlock, IInv, TypeOK
  <2>2. callOf'[p] = RV!RecvFrom(src)
    BY <2>1 DEF callOf, SENDING, RECEIVING
  <2>3. callOf' = [callOf EXCEPT ![p] = RV!RecvFrom(src)]
    BY <1>4, <2>2, CallStep DEF RecvBlock, IInv, TypeOK
  <2>4. panic' = "none"
    BY <1>4, <1>1 DEF RecvBlock, AssertThat, IInv, NoAssertFails
  <2>5. ASSUME NEW f \in Proc, callOf[f] = RV!SendTo(p)
        PROVE  src \notin {f, ANY}
    <3>1. Sends(f, p)' /\ f # p
      <4>1. Sends(f, p)
        BY <2>5, CallOf
      <4>2. f # p
        BY <4>1, <1>1 DEF Sends
      <4>3. QED
        BY <4>1, <4>2, <1>4 DEF RecvBlock, Sends, IInv, TypeOK
    <3>2. ~ (p_recvfrom'[p] \in {f, ANY})
      BY <3>1, <2>1 DEF IInv, NoMissedRendezvous
    <3>3. QED
      BY <3>2, <2>1
  <2>6. src \in {ANY, INTERRUPT} => p \notin waiting
    BY <1>4 DEF RecvBlock, IntFirst
  <2>7. waiting' = waiting
    BY <1>4 DEF RecvBlock
  <2>8. RV!RecvWaits(p, src)
    BY <1>1, <1>4, <2>3, <2>4, <2>5, <2>6, <2>7 DEF RecvBlock, RV!RecvWaits
  <2>9. QED
    BY <2>8 DEF RV!RvNext
<1>5. QED
  BY <1>2, <1>3, <1>4 DEF msg_receive

LEMMA RefineInterrupt ==
  ASSUME IInv, IInv', NEW p \in IntTask, inform_int(p)
  PROVE  RV!RvNext
<1> USE DEF RV!NoCall, RV!RecvFrom
<1> DEFINE waiting == {y \in Proc : has_int_msg[y]}
<1>1. p \in Proc
  BY TaskAssumption
<1>2. panic = "none"
  BY DEF inform_int, IntDeliver, IntMark
<1>3. callOf[p] \in {RV!RecvFrom(INTERRUPT), RV!RecvFrom(ANY)} <=> WaitsForInt(p)
  BY <1>1, CallOf DEF WaitsForInt
<1>4. CASE IntDeliver(p)
  <2>1. p_flags'[p] = {}
    BY <1>1, <1>4
    DEF IntDeliver, WaitsForInt, IInv, TypeOK, EntryConsistent, SENDING, RECEIVING
  <2>2. callOf'[p] = RV!NoCall
    BY <1>1, <2>1 DEF callOf
  <2>3. callOf' = [callOf EXCEPT ![p] = RV!NoCall]
    BY <1>1, <1>4, <2>2, CallStep DEF IntDeliver, IInv, TypeOK
  <2>4. panic' = "none"
    BY <1>4, <1>2 DEF IntDeliver, AssertThat, IInv, NoAssertFails
  <2>5. waiting' = waiting
    BY <1>1, <1>4 DEF IntDeliver, IInv, TypeOK, NoMissedInterrupt
  <2>6. RV!NoticeMeets(p)
    BY <1>2, <1>3, <1>4, <2>3, <2>4, <2>5 DEF IntDeliver, RV!NoticeMeets, RV!Note
  <2>7. QED
    BY <2>6 DEF RV!RvNext
<1>5. CASE IntMark(p)
  <2>1. callOf' = callOf
    BY <1>5 DEF IntMark, callOf
  <2>2. waiting' = waiting \cup {p}
    BY <1>1, <1>5 DEF IntMark, IInv, TypeOK
  <2>3. RV!NoticeKept(p)
    BY <1>2, <1>3, <1>5, <2>1, <2>2 DEF IntMark, RV!NoticeKept
  <2>4. QED
    BY <2>3 DEF RV!RvNext
<1>6. QED
  BY <1>4, <1>5 DEF inform_int

(* The kernel's process table implements the rendezvous it promises.       *)
THEOREM Implements == Spec => ImplementsRendezvous
<1>1. Init => RV!RvInit
  BY RefineInit
<1>2. IInv /\ IInv' /\ [Next]_ipcVars => [RV!RvNext]_(RV!rvVars)
  <2> SUFFICES ASSUME IInv, IInv', [Next]_ipcVars
               PROVE  RV!RvNext \/ UNCHANGED RV!rvVars
    OBVIOUS
  <2>1. CASE UNCHANGED ipcVars
    BY <2>1 DEF ipcVars, RV!rvVars, callOf
  <2>2. QED
    BY <2>1, RefineSend, RefineReceive, RefineInterrupt DEF Next, SendRec, Halted
<1>3. QED
  BY <1>1, <1>2, Invariance, PTL DEF Spec, ImplementsRendezvous, RV!RvSpec

-----------------------------------------------------------------------------
(***************************************************************************)
(* What a call does, told without the process table: the lemmas that the   *)
(* proofs about the tasks and programs that use IPC cite.                  *)
(***************************************************************************)
Unblocked == RV!NoCall
SendTo(d) == RV!SendTo(d)
RecvFrom(s) == RV!RecvFrom(s)

(* p's SEND of a message of type t to d met d's blocked receive, or waits. *)
SendEffect(p, d, t) ==
  /\ callOf[p] = Unblocked /\ p # d
  /\ \/ /\ callOf[d] \in {RecvFrom(p), RecvFrom(ANY)}
        /\ callOf' = [callOf EXCEPT ![d] = Unblocked]
        /\ mbuf' = [mbuf EXCEPT ![p] = Signed(p, t), ![d] = Signed(p, t)]
     \/ /\ callOf[d] \notin {RecvFrom(p), RecvFrom(ANY)}
        /\ callOf' = [callOf EXCEPT ![p] = SendTo(d)]
        /\ mbuf' = [mbuf EXCEPT ![p] = Signed(p, t)]
  /\ has_int_msg' = has_int_msg
  /\ panic' = panic

(* p's RECEIVE from src got an interrupt, or what f waited to send, or     *)
(* waits because there is neither.                                         *)
GetsInterrupt(p, src) ==
  /\ has_int_msg[p] /\ src \in {ANY, INTERRUPT}
  /\ callOf' = callOf
  /\ mbuf' = [mbuf EXCEPT ![p] = Signed(INTERRUPT, HARD_INT)]
  /\ has_int_msg' = [has_int_msg EXCEPT ![p] = FALSE]
GetsMessage(p, src, f) ==
  /\ ~ IntFirst(p, src)
  /\ callOf[f] = SendTo(p) /\ src \in {f, ANY}
  /\ callOf' = [callOf EXCEPT ![f] = Unblocked]
  /\ mbuf' = [mbuf EXCEPT ![p] = mbuf[f]]
  /\ has_int_msg' = has_int_msg
GetsNothing(p, src) ==
  /\ ~ IntFirst(p, src)
  /\ \A f \in Proc : callOf[f] = SendTo(p) => src \notin {f, ANY}
  /\ callOf' = [callOf EXCEPT ![p] = RecvFrom(src)]
  /\ mbuf' = [mbuf EXCEPT ![p] = Signed(p, NoType)]
  /\ has_int_msg' = has_int_msg
RecvEffect(p, src) ==
  /\ callOf[p] = Unblocked
  /\ \/ GetsInterrupt(p, src)
     \/ \E f \in Proc : GetsMessage(p, src, f)
     \/ GetsNothing(p, src)
  /\ panic' = panic

(* The interrupt was taken by p's blocked receive, or is kept for p.       *)
IntEffect(p) ==
  /\ \/ /\ callOf[p] \in {RecvFrom(INTERRUPT), RecvFrom(ANY)}
        /\ callOf' = [callOf EXCEPT ![p] = Unblocked]
        /\ mbuf' = [mbuf EXCEPT ![p] = Signed(INTERRUPT, HARD_INT)]
        /\ has_int_msg' = has_int_msg
     \/ /\ callOf[p] \notin {RecvFrom(INTERRUPT), RecvFrom(ANY)}
        /\ callOf' = callOf /\ mbuf' = mbuf
        /\ has_int_msg' = [has_int_msg EXCEPT ![p] = TRUE]
  /\ panic' = panic

(* The calls are told apart.                                               *)
LEMMA CallsDiffer ==
  /\ \A d : Unblocked # SendTo(d) /\ Unblocked # RecvFrom(d)
  /\ \A d, s : SendTo(d) # RecvFrom(s)
  /\ \A d, e : SendTo(d) = SendTo(e) => d = e
  /\ \A s, r : RecvFrom(s) = RecvFrom(r) => s = r
<1> USE DEF Unblocked, SendTo, RecvFrom, RV!NoCall, RV!SendTo, RV!RecvFrom
<1>1. \A d : Unblocked # SendTo(d) /\ Unblocked # RecvFrom(d)
  <2> TAKE d
  <2>1. Unblocked.op = "none" /\ SendTo(d).op = "send" /\ RecvFrom(d).op = "receive"
    OBVIOUS
  <2>2. QED
    BY <2>1
<1>2. \A d, s : SendTo(d) # RecvFrom(s)
  <2> TAKE d, s
  <2>1. SendTo(d).op = "send" /\ RecvFrom(s).op = "receive"
    OBVIOUS
  <2>2. QED
    BY <2>1
<1>3. \A d, e : SendTo(d) = SendTo(e) => d = e
  <2> TAKE d, e
  <2>1. SendTo(d).dest = d /\ SendTo(e).dest = e
    OBVIOUS
  <2>2. QED
    BY <2>1
<1>4. \A s, r : RecvFrom(s) = RecvFrom(r) => s = r
  <2> TAKE s, r
  <2>1. RecvFrom(s).src = s /\ RecvFrom(r).src = r
    OBVIOUS
  <2>2. QED
    BY <2>1
<1>5. QED
  BY <1>1, <1>2, <1>3, <1>4

(* What callOf says of p, in the words of the process table.               *)
LEMMA CallIs ==
  ASSUME IInv, NEW p \in Proc
  PROVE  /\ callOf[p] = Unblocked <=> p_flags[p] = {}
         /\ \A d : callOf[p] = SendTo(d) <=> Sends(p, d)
         /\ \A s : callOf[p] = RecvFrom(s)
                     <=> RECEIVING \in p_flags[p] /\ p_recvfrom[p] = s
BY CallOf DEF Unblocked, SendTo, RecvFrom, RV!NoCall, RV!SendTo, RV!RecvFrom

(* A SEND does not close a circle when the process it is for is not        *)
(* sending, or sends to another one that is not.                           *)
LEMMA NoDeadlock ==
  ASSUME NEW p \in Proc, NEW d \in Proc,
         \A w \in Proc : Sends(d, w) => w # p /\ \A x \in Proc : ~ Sends(w, x)
  PROVE  ~ deadlock(p, d)
<1> DEFINE T == {d} \cup {w \in Proc : Sends(d, w)}
<1>1. SendChain(d) \subseteq T
  <2>1. T \in SUBSET Proc /\ d \in T /\ \A z \in T, w \in Proc : Sends(z, w) => w \in T
    OBVIOUS
  <2>2. QED
    BY <2>1 DEF SendChain
<1>2. \A z \in T : ~ Sends(z, p)
  OBVIOUS
<1>3. QED
  BY <1>1, <1>2 DEF deadlock

(* A SEND that closes no circle.                                           *)
LEMMA SendDoes ==
  ASSUME IInv, NEW p \in Proc, NEW d \in Proc, NEW t \in Type, msg_send(p, d, t),
         \A w \in Proc : callOf[d] = SendTo(w) =>
                           w # p /\ \A x \in Proc : callOf[w] # SendTo(x)
  PROVE  IInv' /\ SendEffect(p, d, t) /\ [Next]_ipcVars
<1>1. /\ callOf[p] = Unblocked /\ p # d /\ panic = "none" /\ p_flags[p] = {}
      /\ callOf[d] \in {RecvFrom(p), RecvFrom(ANY)} <=> Accepts(d, p)
  BY CallIs DEF msg_send, SendDeadlock, SendHandOff, SendBlock, Running, Accepts
<1>2. ~ deadlock(p, d)
  BY CallIs, NoDeadlock
<1>3. IInv' /\ [Next]_ipcVars
  BY StepInv DEF Next, SendRec
<1>4. CASE SendHandOff(p, d, t)
  <2>1. p_flags'[d] = {}
    BY <1>4 DEF SendHandOff, Accepts, IInv, TypeOK, EntryConsistent, SENDING, RECEIVING
  <2>2. callOf'[d] = Unblocked
    BY <2>1 DEF callOf, Unblocked, RV!NoCall
  <2>3. callOf' = [callOf EXCEPT ![d] = Unblocked]
    BY <1>4, <2>2, CallStep DEF SendHandOff, IInv, TypeOK
  <2>4. panic' = panic
    BY <1>4, <1>1, <1>3 DEF SendHandOff, AssertThat, IInv, NoAssertFails
  <2>5. QED
    BY <1>1, <1>3, <1>4, <2>3, <2>4 DEF SendHandOff, SendEffect
<1>5. CASE SendBlock(p, d, t)
  <2>1. p_flags'[p] = {SENDING} /\ p_sendto'[p] = d
    BY <1>1, <1>5 DEF SendBlock, IInv, TypeOK
  <2>2. callOf'[p] = SendTo(d)
    BY <2>1 DEF callOf, SendTo, RV!SendTo
  <2>3. callOf' = [callOf EXCEPT ![p] = SendTo(d)]
    BY <1>5, <2>2, CallStep DEF SendBlock, IInv, TypeOK
  <2>4. panic' = panic
    BY <1>5, <1>1, <1>3 DEF SendBlock, AssertThat, IInv, NoAssertFails
  <2>5. QED
    BY <1>1, <1>3, <1>5, <2>3, <2>4 DEF SendBlock, SendEffect
<1>6. QED
  BY <1>2, <1>4, <1>5 DEF msg_send, SendDeadlock

(* A RECEIVE.                                                              *)
LEMMA RecvDoes ==
  ASSUME IInv, NEW p \in Proc, NEW src \in Proc \cup {ANY, INTERRUPT}, msg_receive(p, src)
  PROVE  IInv' /\ RecvEffect(p, src) /\ [Next]_ipcVars
<1>1. callOf[p] = Unblocked /\ panic = "none" /\ p_flags[p] = {}
  BY CallIs DEF msg_receive, RecvInterrupt, RecvFromQueue, RecvBlock, Running
<1>2. IInv' /\ [Next]_ipcVars
  BY StepInv DEF Next, SendRec
<1>3. CASE RecvInterrupt(p, src)
  <2>1. callOf' = callOf
    BY <1>3 DEF RecvInterrupt, callOf
  <2>2. panic' = panic
    BY <1>1, <1>2, <1>3 DEF RecvInterrupt, AssertThat, IInv, NoAssertFails
  <2>3. QED
    BY <1>1, <1>2, <1>3, <2>1, <2>2
    DEF RecvInterrupt, IntFirst, RecvEffect, GetsInterrupt
<1>4. ASSUME NEW f \in Proc, RecvFromQueue(p, src, f)
      PROVE  RecvEffect(p, src)
  <2>1. Sends(f, p) /\ src \in {f, ANY}
    <3>1. CASE src = ANY
      <4>1. q_sending[p] \in Seq(Proc) /\ q_sending[p] # <<>> /\ f = Head(q_sending[p])
        BY <1>4, <3>1 DEF RecvFromQueue, Selects, IInv, TypeOK
      <4>2. QED
        BY <3>1, <4>1, HeadInQueue DEF IInv, QueueExact
    <3>2. CASE src # ANY
      BY <1>4, <3>2 DEF RecvFromQueue, Selects
    <3>3. QED
      BY <3>1, <3>2
  <2>2. p_flags[f] = {SENDING}
    BY <2>1 DEF IInv, EntryConsistent, Sends, SENDING, RECEIVING
  <2>3. p_flags'[f] = {}
    BY <1>4, <2>2 DEF RecvFromQueue, IInv, TypeOK
  <2>4. callOf'[f] = Unblocked
    BY <2>3 DEF callOf, Unblocked, RV!NoCall
  <2>5. callOf' = [callOf EXCEPT ![f] = Unblocked]
    BY <1>4, <2>4, CallStep DEF RecvFromQueue, IInv, TypeOK
  <2>6. panic' = panic
    BY <1>1, <1>2, <1>4 DEF RecvFromQueue, AssertThat, IInv, NoAssertFails
  <2>7. callOf[f] = SendTo(p)
    BY <2>1, CallIs
  <2>8. GetsMessage(p, src, f)
    BY <1>4, <2>1, <2>5, <2>7 DEF RecvFromQueue, GetsMessage
  <2>9. QED
    BY <1>1, <2>6, <2>8 DEF RecvEffect
<1>5. CASE RecvBlock(p, src)
  <2>1. ASSUME NEW f \in Proc, Sends(f, p), src \in {f, ANY}
        PROVE  FALSE
    <3>1. CASE src = ANY
      <4>1. q_sending[p] \in Seq(Proc) /\ f \in ToSet(q_sending[p])
        BY <2>1 DEF IInv, TypeOK, QueueExact
      <4>2. q_sending[p] # <<>> /\ Head(q_sending[p]) \in Proc
        BY <4>1 DEF ToSet
      <4>3. QED
        BY <1>5, <3>1, <4>2 DEF RecvBlock, Selects
    <3>2. CASE src # ANY
      BY <1>5, <2>1, <3>2 DEF RecvBlock, Selects
    <3>3. QED
      BY <3>1, <3>2
  <2>2. \A f \in Proc : callOf[f] = SendTo(p) => src \notin {f, ANY}
    BY <2>1, CallIs
  <2>3. p_flags'[p] = {RECEIVING} /\ p_recvfrom'[p] = src
    BY <1>1, <1>5 DEF RecvBlock, IInv, TypeOK
  <2>4. callOf'[p] = RecvFrom(src)
    BY <2>3 DEF callOf, RecvFrom, RV!RecvFrom, SENDING, RECEIVING
  <2>5. callOf' = [callOf EXCEPT ![p] = RecvFrom(src)]
    BY <1>5, <2>4, CallStep DEF RecvBlock, IInv, TypeOK
  <2>6. panic' = panic
    BY <1>1, <1>2, <1>5 DEF RecvBlock, AssertThat, IInv, NoAssertFails
  <2>7. GetsNothing(p, src)
    BY <1>5, <2>2, <2>5 DEF RecvBlock, GetsNothing
  <2>8. QED
    BY <1>1, <1>2, <2>6, <2>7 DEF RecvEffect
<1>6. QED
  BY <1>2, <1>3, <1>4, <1>5 DEF msg_receive

(* An interrupt that a task is told of.                                    *)
LEMMA IntDoes ==
  ASSUME IInv, NEW p \in IntTask, inform_int(p)
  PROVE  IInv' /\ IntEffect(p) /\ [Next]_ipcVars
<1>1. p \in Proc /\ panic = "none"
  BY TaskAssumption DEF inform_int, IntDeliver, IntMark
<1>2. IInv' /\ [Next]_ipcVars
  BY StepInv DEF Next
<1>3. callOf[p] \in {RecvFrom(INTERRUPT), RecvFrom(ANY)} <=> WaitsForInt(p)
  BY <1>1, CallIs DEF WaitsForInt
<1>4. CASE IntDeliver(p)
  <2>1. p_flags'[p] = {}
    BY <1>1, <1>4
    DEF IntDeliver, WaitsForInt, IInv, TypeOK, EntryConsistent, SENDING, RECEIVING
  <2>2. callOf'[p] = Unblocked
    BY <1>1, <2>1 DEF callOf, Unblocked, RV!NoCall
  <2>3. callOf' = [callOf EXCEPT ![p] = Unblocked]
    BY <1>1, <1>4, <2>2, CallStep DEF IntDeliver, IInv, TypeOK
  <2>4. panic' = panic
    BY <1>1, <1>2, <1>4 DEF IntDeliver, AssertThat, IInv, NoAssertFails
  <2>5. has_int_msg' = has_int_msg
    BY <1>1, <1>4 DEF IntDeliver, IInv, TypeOK, NoMissedInterrupt
  <2>6. QED
    BY <1>2, <1>3, <1>4, <2>3, <2>4, <2>5 DEF IntDeliver, IntEffect
<1>5. CASE IntMark(p)
  <2>1. callOf' = callOf
    BY <1>5 DEF IntMark, callOf
  <2>2. QED
    BY <1>2, <1>3, <1>5, <2>1 DEF IntMark, IntEffect
<1>6. QED
  BY <1>4, <1>5 DEF inform_int

=============================================================================
