----------------------------- MODULE Rendezvous -----------------------------
(***************************************************************************)
(* What the message passing of KusaOS promises, without its process table: *)
(* a call either blocks, or completes at the same instant as the blocked   *)
(* call of another process that matches it, and the message then stands in *)
(* the receiver's buffer.  A call blocks only if nothing matches it.       *)
(***************************************************************************)
CONSTANTS Proc, IntTask, Type, ANY, INTERRUPT, HARD_INT, NoType

NoCall == [op |-> "none"]
SendTo(d)   == [op |-> "send", dest |-> d]
RecvFrom(s) == [op |-> "receive", src |-> s]
Call == {NoCall} \cup {SendTo(d) : d \in Proc}
                 \cup {RecvFrom(s) : s \in Proc \cup {ANY, INTERRUPT}}

VARIABLES
  call,     \* the call each process is blocked in
  buffer,   \* the message each process passed to its last call
  pending,  \* the tasks that an interrupt is waiting for
  halted

rvVars == <<call, buffer, pending, halted>>

RvInit ==
  /\ call = [p \in Proc |-> NoCall]
  /\ buffer = [p \in Proc |-> [source |-> p, type |-> NoType]]
  /\ pending = {}
  /\ halted = FALSE

Free(p) == ~ halted /\ call[p] = NoCall
Note(m) == [source |-> INTERRUPT, type |-> m]

(* The blocked receive of d takes a message of p.                          *)
Wants(d, p) == call[d] \in {RecvFrom(p), RecvFrom(ANY)}

(* d waits to send, through others perhaps, to p.                          *)
InCircle(p, d) ==
  \E S \in SUBSET (Proc \ {p}) :
     /\ d \in S
     /\ \A y \in S : \E z \in S \cup {p} : call[y] = SendTo(z)

(* p sends to a process that waits for it: d goes on with the message.     *)
SendMeets(p, d) ==
  /\ Free(p) /\ p # d
  /\ Wants(d, p)
  /\ \E t \in Type :
       LET m == [source |-> p, type |-> t]
       IN  buffer' = [buffer EXCEPT ![p] = m, ![d] = m]
  /\ call' = [call EXCEPT ![d] = NoCall]
  /\ UNCHANGED <<pending, halted>>

SendWaits(p, d) ==
  /\ Free(p) /\ p # d
  /\ ~ Wants(d, p)
  /\ ~ InCircle(p, d)
  /\ \E t \in Type : buffer' = [buffer EXCEPT ![p] = [source |-> p, type |-> t]]
  /\ call' = [call EXCEPT ![p] = SendTo(d)]
  /\ UNCHANGED <<pending, halted>>

(* d receives from src what a blocked sender f offers: f goes on.          *)
RecvMeets(d, src, f) ==
  /\ Free(d)
  /\ call[f] = SendTo(d)
  /\ src \in {f, ANY}
  /\ src = ANY => d \notin pending
  /\ buffer' = [buffer EXCEPT ![d] = buffer[f]]
  /\ call' = [call EXCEPT ![f] = NoCall]
  /\ UNCHANGED <<pending, halted>>

RecvNotice(d) ==
  /\ Free(d)
  /\ d \in pending
  /\ buffer' = [buffer EXCEPT ![d] = Note(HARD_INT)]
  /\ pending' = pending \ {d}
  /\ UNCHANGED <<call, halted>>

(* d waits, because nothing that src stands for is on offer.               *)
RecvWaits(d, src) ==
  /\ Free(d)
  /\ \A f \in Proc : call[f] = SendTo(d) => src \notin {f, ANY}
  /\ src \in {ANY, INTERRUPT} => d \notin pending
  /\ buffer' = [buffer EXCEPT ![d] = [source |-> d, type |-> NoType]]
  /\ call' = [call EXCEPT ![d] = RecvFrom(src)]
  /\ UNCHANGED <<pending, halted>>

NoticeMeets(d) ==
  /\ ~ halted
  /\ call[d] \in {RecvFrom(INTERRUPT), RecvFrom(ANY)}
  /\ buffer' = [buffer EXCEPT ![d] = Note(HARD_INT)]
  /\ call' = [call EXCEPT ![d] = NoCall]
  /\ UNCHANGED <<pending, halted>>

NoticeKept(d) ==
  /\ ~ halted
  /\ call[d] \notin {RecvFrom(INTERRUPT), RecvFrom(ANY)}
  /\ pending' = pending \cup {d}
  /\ UNCHANGED <<call, buffer, halted>>

(* The system gives up on p's SEND to d: the message would wait for p.     *)
GiveUp(p, d) ==
  /\ Free(p) /\ p # d
  /\ InCircle(p, d)
  /\ \E t \in Type : buffer' = [buffer EXCEPT ![p] = [source |-> p, type |-> t]]
  /\ halted' = TRUE
  /\ UNCHANGED <<call, pending>>

RvNext ==
  \/ \E p, d \in Proc : SendMeets(p, d) \/ SendWaits(p, d)
  \/ \E d, f \in Proc, src \in Proc \cup {ANY} : RecvMeets(d, src, f)
  \/ \E d \in Proc, src \in Proc \cup {ANY, INTERRUPT} : RecvWaits(d, src)
  \/ \E d \in Proc : RecvNotice(d)
  \/ \E d \in IntTask : NoticeMeets(d) \/ NoticeKept(d)
  \/ \E p, d \in Proc : GiveUp(p, d)

RvSpec == RvInit /\ [][RvNext]_rvVars

=============================================================================
