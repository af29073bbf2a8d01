---------------------------- MODULE TtyFs_proofs ----------------------------
(***************************************************************************)
(* Proofs about TtyFs, for every set of programs that make FS serve other  *)
(* requests, every number of terminals and every size of their rings, with *)
(* one program that uses a terminal: no circle of senders forms and no     *)
(* assert() of the message kernel fails, TTY copies only for the read()    *)
(* that waits, FS answers only who waits, and the screen shows what the    *)
(* program gets.                                                           *)
(***************************************************************************)
EXTENDS TtyFs, IPC_proofs

(* With two such programs the system can stop: see NoSystemDeadlock.       *)
OneReader == \A p, q \in TtyUser : p = q
Reader == CHOOSE p \in TtyUser : TRUE

-----------------------------------------------------------------------------
(***************************************************************************)
(* The inductive invariant: where a program's call is between the program, *)
(* FS and TTY.                                                             *)
(***************************************************************************)

(* A program waits for an answer to a request that has been taken.         *)
Owed(p) == \/ stage[p] = "called" /\ callOf[p] = Unblocked
           \/ stage[p] = "waiting" /\ callOf[p] = RecvFrom(FS)

UserIs(p) ==
  CASE stage[p] = "idle"    -> callOf[p] = Unblocked /\ request[p] = Cleared
    [] stage[p] = "called"  -> /\ request[p] \in Requests(p)
                               /\ \/ callOf[p] = Unblocked
                                  \/ callOf[p] = SendTo(FS) /\ mbuf[p] = Signed(p, request[p])
    [] stage[p] = "waiting" -> /\ request[p] \in Requests(p)
                               /\ callOf[p] \in {Unblocked, RecvFrom(FS)}
UserFits == DOMAIN request = User /\ \A p \in User : UserIs(p)

(* FS, towards the programs.                                               *)
FsFree == \/ fs_pc = "receive" /\ callOf[FS] = Unblocked
          \/ fs_pc = "dispatch" /\ callOf[FS] = RecvFrom(ANY)
FsHolds(p) ==
  fs_pc = "dispatch" /\ callOf[FS] = Unblocked /\ mbuf[FS] = Signed(p, request[p])
FsReplies(p) == fs_pc = "receive" /\ callOf[FS] = SendTo(p) /\ stage[p] = "called"
Serves(p) == FsHolds(p) \/ FsReplies(p)
FsElsewhere == FsFree \/ \E p \in FileUser : Serves(p)

(* FS, towards TTY.                                                        *)
DevCall == Body(DriverKind(request[Reader].kind), StdTty[Reader], Reader, MaxCnt)
Tells(m, kind) == m.source = TTY /\ m.type \in Type /\ m.type.kind = kind

FsAsks == /\ fs_pc = "await_tty" /\ fs_src = Reader
          /\ callOf[FS] = SendTo(TTY) /\ mbuf[FS] = Signed(FS, DevCall)
FsWaits == /\ fs_src = Reader
           /\ \/ fs_pc = "await_tty" /\ callOf[FS] = Unblocked
              \/ fs_pc = "answered" /\ callOf[FS] = RecvFrom(TTY)
FsTold(kind) == /\ fs_pc = "answered" /\ fs_src = Reader
                /\ callOf[FS] = Unblocked /\ Tells(mbuf[FS], kind)
FsResumes == /\ fs_pc = "dispatch" /\ callOf[FS] = Unblocked
             /\ Tells(mbuf[FS], "RESUME_PROC") /\ mbuf[FS].type.PROC_NR = Reader

(* TTY, towards FS.                                                        *)
TtyCalls ==
  \/ callOf[TTY] = Unblocked
  \/ tty_pc = "dispatch" /\ callOf[TTY] = RecvFrom(ANY)
  \/ tty_pc \in {"scan", "resumed"} /\ callOf[TTY] = SendTo(FS)
TtyQuiet ==
  /\ callOf[TTY] # SendTo(FS)
  /\ tty_pc = "dispatch" /\ callOf[TTY] = Unblocked => mbuf[TTY].type = HARD_INT
TtyHas == tty_pc = "dispatch" /\ callOf[TTY] = Unblocked /\ mbuf[TTY] = Signed(FS, DevCall)
TtyAnswers(kind) ==
  tty_pc = "scan" /\ callOf[TTY] = SendTo(FS) /\ Tells(mbuf[TTY], kind)
TtyReports == /\ tty_pc = "resumed" /\ callOf[TTY] = SendTo(FS)
              /\ Tells(mbuf[TTY], "RESUME_PROC") /\ mbuf[TTY].type.PROC_NR = Reader

NoRead == \A t \in Tty : ~ Reading(t)
ItReads == Reading(StdTty[Reader])

(* How far the call of the program at the terminal is.                     *)
Resting ==
  /\ TtyQuiet /\ NoRead
  /\ IF Owed(Reader) THEN Serves(Reader) \/ FsAsks \/ FsTold("SYSCALL_RET") \/ FsResumes
                     ELSE FsElsewhere
Asked == FsWaits /\ TtyHas /\ NoRead /\ Owed(Reader)
Answered ==
  /\ FsWaits /\ fs_pc = "await_tty" /\ Owed(Reader)
  /\ \/ TtyAnswers("SYSCALL_RET") /\ NoRead
     \/ TtyAnswers("SUSPEND_PROC") /\ ItReads
Suspended ==
  /\ FsElsewhere \/ FsTold("SUSPEND_PROC")
  /\ Owed(Reader)
  /\ \/ TtyQuiet /\ ItReads
     \/ TtyReports /\ NoRead

Conversation == Resting \/ Asked \/ Answered \/ Suspended
OthersServed == \A p \in FileUser : Owed(p) <=> Serves(p)

(* The read that TTY knows of is the one that the program waits for.       *)
ReadFits ==
  /\ tty_pc = "resumed" => tty_at = StdTty[Reader]
  /\ \A t \in Tty :
       /\ tty_left_cnt[t] > 0 => t = StdTty[Reader]
       /\ Reading(t) => /\ tty_procnr[t] = Reader /\ request[Reader].kind = "READ"
                        /\ tty_trans_cnt[t] + tty_left_cnt[t] = MaxCnt
                        /\ shown[t] = tty_trans_cnt[t]

TtyInv ==
  /\ IInv /\ BufferHeld /\ panic = "none" /\ \A p \in Proc : p # TTY => ~ has_int_msg[p]
  /\ TtyTypeOK /\ UserFits /\ TtyCalls /\ Conversation /\ OthersServed /\ ReadFits

-----------------------------------------------------------------------------
(* The processes, and the words that they exchange.                        *)
LEMMA Parties ==
  ASSUME OneReader
  PROVE  /\ FS \in Proc /\ TTY \in Proc /\ FS # TTY /\ TTY \in IntTask
         /\ Reader \in User /\ Reader \in TtyUser /\ Reader \notin FileUser
         /\ StdTty[Reader] \in Tty
         /\ \A p \in User : p \in Proc /\ p # FS /\ p # TTY /\ (p = Reader \/ p \in FileUser)
         /\ \A p \in FileUser : p \in User /\ p # Reader
         /\ \A p \in Proc : p \in User \/ p = FS \/ p = TTY
         /\ \A p \in Proc : p # ANY /\ p # INTERRUPT /\ p # NO_TASK
         /\ ANY # INTERRUPT /\ NobodyYet \in User
<1>1. Reader \in TtyUser
  BY TtyAssumption DEF Reader
<1>2. NobodyYet \in User
  BY <1>1 DEF NobodyYet, User
<1>3. \A p \in TtyUser : p = Reader
  BY <1>1 DEF OneReader
<1>4. QED
  BY <1>1, <1>2, <1>3, TtyAssumption, NumberAssumption DEF User

LEMMA ProcCalls ==
  ASSUME OneReader
  PROVE  /\ \A p : Unblocked # SendTo(p) /\ Unblocked # RecvFrom(p)
         /\ \A p, q : SendTo(p) # RecvFrom(q)
         /\ \A p, q : SendTo(p) = SendTo(q) => p = q
         /\ \A p, q : RecvFrom(p) = RecvFrom(q) => p = q
         /\ SendTo(FS) # SendTo(TTY) /\ RecvFrom(FS) # RecvFrom(TTY)
         /\ \A p \in Proc : RecvFrom(p) # RecvFrom(ANY)
<1>1. \A s, r : RecvFrom(s) = RecvFrom(r) => s = r
  BY CallsDiffer
<1>2. \A s, r : SendTo(s) = SendTo(r) => s = r
  BY CallsDiffer
<1>3. \A p : Unblocked # SendTo(p) /\ Unblocked # RecvFrom(p)
  BY CallsDiffer
<1>4. \A p, q : SendTo(p) # RecvFrom(q)
  BY CallsDiffer
<1>5. QED
  BY <1>1, <1>2, <1>3, <1>4, Parties

LEMMA BodyWords ==
  \A k, t, p, n : /\ Body(k, t, p, n).kind = k /\ Body(k, t, p, n).DEVICE = t
                  /\ Body(k, t, p, n).PROC_NR = p /\ Body(k, t, p, n).CNT = n
BY DEF Body

LEMMA SignedWords ==
  \A p, t : Signed(p, t).source = p /\ Signed(p, t).type = t
BY DEF Signed

LEMMA TypeWords ==
  /\ \A k \in Kind, t \in Tty, p \in User, n \in 0..MaxCnt : Body(k, t, p, n) \in Type
  /\ \A m \in Type : /\ m.kind \in Kind /\ m.DEVICE \in Tty
                     /\ m.PROC_NR \in User /\ m.CNT \in 0..MaxCnt
  /\ \A m \in Type, k \in Kind :
        /\ [m EXCEPT !.kind = k] \in Type
        /\ [m EXCEPT !.kind = k].kind = k
        /\ [m EXCEPT !.kind = k].PROC_NR = m.PROC_NR
  /\ HARD_INT \notin Type /\ NoType \notin Type
<1>1. Type = {Body(k, t, p, n) : k \in Kind, t \in Tty, p \in User, n \in 0..MaxCnt}
  BY TtyAssumption
<1>2. ASSUME NEW m \in Type, NEW k \in Kind
      PROVE  /\ [m EXCEPT !.kind = k] \in Type
             /\ [m EXCEPT !.kind = k].kind = k
             /\ [m EXCEPT !.kind = k].PROC_NR = m.PROC_NR
  <2>1. PICK j \in Kind, t \in Tty, p \in User, n \in 0..MaxCnt : m = Body(j, t, p, n)
    BY <1>1, <1>2
  <2>2. [m EXCEPT !.kind = k] = Body(k, t, p, n)
    BY <2>1 DEF Body
  <2>3. QED
    BY <1>1, <2>1, <2>2, BodyWords
<1>3. ASSUME NEW m \in Type
      PROVE  m.kind \in Kind /\ m.DEVICE \in Tty /\ m.PROC_NR \in User /\ m.CNT \in 0..MaxCnt
  <2>1. PICK j \in Kind, t \in Tty, p \in User, n \in 0..MaxCnt : m = Body(j, t, p, n)
    BY <1>1, <1>3
  <2>2. QED
    BY <2>1, BodyWords
<1>4. \A k \in Kind, t \in Tty, p \in User, n \in 0..MaxCnt : Body(k, t, p, n) \in Type
  BY <1>1
<1>5. QED
  BY <1>2, <1>3, <1>4, TypeAssumption

(* What the programs ask for.                                              *)
LEMMA RequestWords ==
  ASSUME OneReader
  PROVE  /\ \A p \in User : \A r \in Requests(p) :
              r \in Type /\ r # Cleared /\ r.PROC_NR = p /\ r.kind \in TerminalCall \cup {"STAT"}
         /\ \A r \in Requests(Reader) :
              /\ r.kind \in TerminalCall
              /\ r.DEVICE = StdTty[Reader] /\ r.CNT = MaxCnt
         /\ \A p \in FileUser : \A r \in Requests(p) : r.kind = "STAT"
         /\ Cleared \in Type /\ Cleared.kind = "SYSCALL_RET" /\ Cleared.PROC_NR \in User
<1>1. 0 \in Tty /\ 0 \in 0..MaxCnt /\ MaxCnt \in 0..MaxCnt
  BY TtyAssumption DEF Tty
<1>2. \A p \in TtyUser : StdTty[p] \in Tty /\ p \in User
  BY TtyAssumption DEF User
<1>3. TerminalCall \subseteq Kind /\ "STAT" \in Kind /\ "SYSCALL_RET" \in Kind
      /\ "SYSCALL_RET" \notin TerminalCall \cup {"STAT"}
  BY DEF TerminalCall, Kind
<1>4. Cleared \in Type /\ Cleared.kind = "SYSCALL_RET" /\ Cleared.PROC_NR \in User
  BY <1>1, <1>3, TypeWords, BodyWords, Parties DEF Cleared
<1>5. ASSUME NEW p \in TtyUser, NEW r \in Requests(p)
      PROVE  /\ r \in Type /\ r # Cleared /\ r.PROC_NR = p /\ r.kind \in TerminalCall
             /\ r.DEVICE = StdTty[p] /\ r.CNT = MaxCnt
  <2>1. PICK k \in TerminalCall : r = Body(k, StdTty[p], p, MaxCnt)
    BY <1>5 DEF Requests
  <2>2. QED
    BY <2>1, <1>1, <1>2, <1>3, <1>4, TypeWords, BodyWords
<1>6. ASSUME NEW p \in FileUser, NEW r \in Requests(p)
      PROVE  r \in Type /\ r # Cleared /\ r.PROC_NR = p /\ r.kind = "STAT"
  <2>1. p \in User /\ p \notin TtyUser
    BY <1>6, TtyAssumption DEF User
  <2>2. r = Body("STAT", 0, p, 0)
    BY <2>1, <1>6 DEF Requests
  <2>3. QED
    BY <2>1, <2>2, <1>1, <1>3, <1>4, TypeWords, BodyWords
<1>7. QED
  BY <1>4, <1>5, <1>6, Parties DEF User

LEMMA ReaderCall ==
  ASSUME OneReader, TtyInv, Owed(Reader)
  PROVE  /\ request[Reader] \in Requests(Reader) /\ request[Reader].kind \in TerminalCall
         /\ DevCall \in Type /\ DevCall.kind = DriverKind(request[Reader].kind)
         /\ DevCall.kind \in {"DEV_READ", "DEV_WRITE", "DEV_OPEN"}
         /\ DevCall.kind = "DEV_READ" => request[Reader].kind = "READ"
         /\ DevCall.DEVICE = StdTty[Reader] /\ DevCall.PROC_NR = Reader /\ DevCall.CNT = MaxCnt
<1>1. request[Reader] \in Requests(Reader)
  BY Parties DEF TtyInv, UserFits, UserIs, Owed
<1>2. request[Reader].kind \in {"READ", "WRITE", "OPEN"}
  BY <1>1, RequestWords DEF TerminalCall
<1>3. /\ DriverKind(request[Reader].kind) \in {"DEV_READ", "DEV_WRITE", "DEV_OPEN"}
      /\ DriverKind(request[Reader].kind) = "DEV_READ" => request[Reader].kind = "READ"
  BY <1>2 DEF DriverKind
<1>4. StdTty[Reader] \in Tty /\ Reader \in User /\ MaxCnt \in 0..MaxCnt
  BY Parties, TtyAssumption
<1>5. {"DEV_READ", "DEV_WRITE", "DEV_OPEN"} \subseteq Kind
  BY DEF Kind
<1>6. QED
  BY <1>1, <1>2, <1>3, <1>4, <1>5, TypeWords, BodyWords DEF DevCall, TerminalCall

-----------------------------------------------------------------------------
(***************************************************************************)
(* What a step of the kernel does, process by process.                     *)
(***************************************************************************)
LEMMA Domains ==
  ASSUME TtyInv
  PROVE  /\ DOMAIN callOf = Proc /\ DOMAIN mbuf = Proc /\ DOMAIN has_int_msg = Proc
         /\ \A p \in Proc : has_int_msg[p] \in BOOLEAN
BY DEF callOf, TtyInv, IInv, TypeOK

LEMMA RunsIdle ==
  ASSUME TtyInv, NEW p \in Proc, Running(p)
  PROVE  callOf[p] = Unblocked
BY CallIs DEF TtyInv, Running

LEMMA OwnStep ==
  ASSUME TtyInv, UNCHANGED ipcVars
  PROVE  /\ IInv' /\ BufferHeld' /\ panic' = "none"
         /\ callOf' = callOf /\ mbuf' = mbuf /\ has_int_msg' = has_int_msg
<1>1. IInv' /\ BufferHeld'
  BY StepInv, BufferHeldStep DEF TtyInv
<1>2. QED
  BY <1>1 DEF TtyInv, ipcVars, callOf

LEMMA Forgets ==
  ASSUME TtyInv, NEW p \in Proc, callOf[p] = Unblocked, Forget(p)
  PROVE  /\ IInv' /\ BufferHeld' /\ panic' = "none"
         /\ callOf' = callOf /\ has_int_msg' = has_int_msg
         /\ \A q \in Proc : q # p => mbuf'[q] = mbuf[q]
<1>1. UNCHANGED <<p_flags, p_msg, p_sendto, p_recvfrom, has_int_msg, q_sending, panic>>
      /\ mbuf' = [mbuf EXCEPT ![p] = Signed(p, NoType)]
  BY DEF Forget
<1>2. p_flags[p] = {}
  BY CallIs DEF TtyInv
<1>3. mbuf' \in [Proc -> Message]
  <2>1. Signed(p, NoType) \in Message
    BY DEF Signed, Message
  <2>2. QED
    BY <1>1, <2>1 DEF TtyInv, IInv, TypeOK
<1>4. callOf' = callOf
  BY <1>1 DEF callOf
<1>5. IInv'
  <2>1. TypeOK'
    BY <1>1, <1>3 DEF TtyInv, IInv, TypeOK
  <2>2. QueueExact' /\ SendersAcyclic' /\ EntryConsistent' /\ NoAssertFails'
    BY <1>1 DEF TtyInv, IInv, QueueExact, SendersAcyclic, EntryConsistent, NoAssertFails, Sends
  <2>3. NoMissedRendezvous' /\ NoMissedInterrupt'
    BY <1>1 DEF TtyInv, IInv, NoMissedRendezvous, NoMissedInterrupt, Sends, WaitsForInt
  <2>4. QED
    BY <2>1, <2>2, <2>3 DEF IInv
<1>6. BufferHeld'
  BY <1>1, <1>2 DEF TtyInv, BufferHeld, IInv, TypeOK
<1>7. QED
  BY <1>1, <1>4, <1>5, <1>6 DEF TtyInv, IInv, TypeOK

LEMMA TtySends ==
  ASSUME TtyInv, NEW p \in Proc, NEW d \in Proc, NEW t \in Type, msg_send(p, d, t),
         \A w \in Proc : callOf[d] = SendTo(w) => w # p /\ \A x \in Proc : callOf[w] # SendTo(x)
  PROVE  /\ IInv' /\ BufferHeld' /\ panic' = "none" /\ has_int_msg' = has_int_msg
         /\ callOf[p] = Unblocked /\ p # d
         /\ \A q \in Proc : q # p /\ q # d => callOf'[q] = callOf[q] /\ mbuf'[q] = mbuf[q]
         /\ \/ /\ callOf[d] \in {RecvFrom(p), RecvFrom(ANY)}
               /\ callOf'[d] = Unblocked /\ mbuf'[d] = Signed(p, t)
               /\ callOf'[p] = Unblocked
            \/ /\ callOf[d] \notin {RecvFrom(p), RecvFrom(ANY)}
               /\ callOf'[p] = SendTo(d) /\ mbuf'[p] = Signed(p, t)
               /\ callOf'[d] = callOf[d] /\ mbuf'[d] = mbuf[d]
<1>1. IInv' /\ SendEffect(p, d, t) /\ [Next]_ipcVars
  BY SendDoes DEF TtyInv
<1>2. BufferHeld'
  BY <1>1, BufferHeldStep DEF TtyInv
<1>3. QED
  BY <1>1, <1>2, Domains DEF SendEffect, TtyInv

LEMMA TtyReceives ==
  ASSUME TtyInv, NEW p \in Proc, NEW src \in Proc \cup {ANY, INTERRUPT}, msg_receive(p, src)
  PROVE  /\ IInv' /\ BufferHeld' /\ panic' = "none" /\ callOf[p] = Unblocked
         /\ \A q \in Proc : has_int_msg'[q] => has_int_msg[q]
         /\ \A q \in Proc : q # p => mbuf'[q] = mbuf[q]
         /\ \/ /\ has_int_msg[p] /\ callOf' = callOf
               /\ mbuf'[p] = Signed(INTERRUPT, HARD_INT)
            \/ \E f \in Proc :
                 /\ callOf[f] = SendTo(p) /\ src \in {f, ANY}
                 /\ callOf'[f] = Unblocked /\ mbuf'[p] = mbuf[f]
                 /\ \A q \in Proc : q # f => callOf'[q] = callOf[q]
            \/ /\ \A f \in Proc : callOf[f] = SendTo(p) => src \notin {f, ANY}
               /\ callOf'[p] = RecvFrom(src)
               /\ \A q \in Proc : q # p => callOf'[q] = callOf[q]
<1>1. IInv' /\ RecvEffect(p, src) /\ [Next]_ipcVars
  BY RecvDoes DEF TtyInv
<1>2. BufferHeld'
  BY <1>1, BufferHeldStep DEF TtyInv
<1>3. callOf[p] = Unblocked /\ panic' = "none"
  BY <1>1 DEF RecvEffect, TtyInv
<1>4. CASE GetsInterrupt(p, src)
  BY <1>1, <1>2, <1>3, <1>4, Domains DEF GetsInterrupt
<1>5. CASE \E f \in Proc : GetsMessage(p, src, f)
  <2>1. PICK f \in Proc : GetsMessage(p, src, f)
    BY <1>5
  <2>2. /\ callOf[f] = SendTo(p) /\ src \in {f, ANY}
        /\ callOf'[f] = Unblocked /\ mbuf'[p] = mbuf[f]
        /\ \A q \in Proc : q # f => callOf'[q] = callOf[q]
        /\ \A q \in Proc : q # p => mbuf'[q] = mbuf[q]
        /\ has_int_msg' = has_int_msg
    BY <2>1, Domains DEF GetsMessage
  <2>3. QED
    BY <1>1, <1>2, <1>3, <2>2
<1>6. CASE GetsNothing(p, src)
  BY <1>1, <1>2, <1>3, <1>6, Domains DEF GetsNothing
<1>7. QED
  BY <1>1, <1>4, <1>5, <1>6 DEF RecvEffect

-----------------------------------------------------------------------------
(***************************************************************************)
(* TTY by itself.                                                          *)
(***************************************************************************)

(* Whoever TTY serves when it has nothing from FS.                         *)
LEMMA TtyByItself ==
  ASSUME OneReader, TtyInv, TtyQuiet
  PROVE  \/ Resting
         \/ Suspended /\ ItReads /\ ~ TtyReports
BY ReaderCall, ProcCalls, SignedWords, TypeWords
DEF TtyInv, Conversation, Resting, Asked, Answered, Suspended, TtyQuiet, TtyHas, TtyAnswers,
    TtyReports

LEMMA TtyOwnStep ==
  ASSUME OneReader, TtyInv, TtyQuiet, callOf[TTY] = Unblocked,
         callOf' = callOf, \A q \in Proc : q # TTY => mbuf'[q] = mbuf[q],
         UNCHANGED <<userVars, fsVars>>,
         tty_pc' # "dispatch", NoRead' <=> NoRead, ItReads' <=> ItReads
  PROVE  UserFits' /\ TtyCalls' /\ Conversation' /\ OthersServed'
<1>1. UNCHANGED <<stage, request, fs_pc, fs_src>>
  BY DEF userVars, fsVars
<1>2. \A p \in User : mbuf'[p] = mbuf[p]
  BY Parties
<1>3. mbuf'[FS] = mbuf[FS]
  BY Parties
<1>4. UserFits' /\ TtyCalls' /\ TtyQuiet'
  BY <1>1, <1>2, ProcCalls DEF TtyInv, UserFits, UserIs, TtyCalls, TtyQuiet
<1>5. \A p \in User : Owed(p)' = Owed(p) /\ Serves(p)' = Serves(p)
  BY <1>1, <1>3 DEF Owed, Serves, FsHolds, FsReplies
<1>6. OthersServed' /\ FsElsewhere' = FsElsewhere
  BY <1>1, <1>5, Parties DEF TtyInv, OthersServed, FsElsewhere, FsFree
<1>7. FsAsks' = FsAsks /\ FsResumes' = FsResumes
      /\ FsTold("SYSCALL_RET")' = FsTold("SYSCALL_RET")
      /\ FsTold("SUSPEND_PROC")' = FsTold("SUSPEND_PROC")
  BY <1>1, <1>3 DEF FsAsks, FsResumes, FsTold, Tells, DevCall
<1>8. Conversation'
  BY <1>4, <1>5, <1>6, <1>7, TtyByItself, Parties DEF Conversation, Resting, Suspended
<1>9. QED
  BY <1>4, <1>6, <1>8

LEMMA ConversationSame ==
  ASSUME TtyInv, callOf' = callOf, mbuf' = mbuf, UNCHANGED <<userVars, fsVars, ttyVars>>
  PROVE  UserFits' /\ TtyCalls' /\ Conversation' /\ OthersServed' /\ ReadFits'
<1>1. UNCHANGED <<stage, request, fs_pc, fs_src, tty_pc, tty_at, tty_procnr, tty_left_cnt,
                  tty_trans_cnt, shown>>
  BY DEF userVars, fsVars, ttyVars, readVars
<1>2. UserFits' /\ TtyCalls' /\ ReadFits'
  BY <1>1 DEF TtyInv, UserFits, UserIs, TtyCalls, ReadFits, Reading
<1>3. \A p : Owed(p)' = Owed(p) /\ Serves(p)' = Serves(p)
  BY <1>1 DEF Owed, Serves, FsHolds, FsReplies
<1>4. FsElsewhere' = FsElsewhere /\ OthersServed' = OthersServed
  BY <1>1, <1>3 DEF FsElsewhere, FsFree, OthersServed
<1>5. FsAsks' = FsAsks /\ FsWaits' = FsWaits /\ FsResumes' = FsResumes
      /\ \A k : FsTold(k)' = FsTold(k) /\ TtyAnswers(k)' = TtyAnswers(k)
  BY <1>1 DEF FsAsks, FsWaits, FsResumes, FsTold, TtyAnswers, Tells, DevCall
<1>6. TtyQuiet' = TtyQuiet /\ TtyHas' = TtyHas /\ TtyReports' = TtyReports
      /\ NoRead' = NoRead /\ ItReads' = ItReads
  BY <1>1 DEF TtyQuiet, TtyHas, TtyReports, Tells, DevCall, NoRead, ItReads, Reading
<1>7. Conversation'
  BY <1>1, <1>3, <1>4, <1>5, <1>6
  DEF TtyInv, Conversation, Resting, Asked, Answered, Suspended
<1>8. QED
  BY <1>2, <1>4, <1>7 DEF TtyInv

LEMMA KeyPressInv ==
  ASSUME OneReader, TtyInv, NEW k \in Typed, KeyPress(k)
  PROVE  TtyInv'
<1>1. UNCHANGED <<ipcVars, userVars, fsVars, ttyVars>>
  BY DEF KeyPress
<1>2. /\ IInv' /\ BufferHeld' /\ panic' = "none"
      /\ callOf' = callOf /\ mbuf' = mbuf /\ has_int_msg' = has_int_msg
  BY <1>1, OwnStep
<1>3. kb_in' \in Seq(Key) /\ Len(kb_in') <= KB_IN_BYTES /\ key_pressed' \in BOOLEAN
  <2>1. k \in Key /\ KB_IN_BYTES \in Nat /\ kb_in \in Seq(Key) /\ Len(kb_in) <= KB_IN_BYTES
    BY TtyAssumption DEF TtyInv, TtyTypeOK
  <2>2. key_pressed' = TRUE /\ kb_in' \in {kb_in, Append(kb_in, k)}
        /\ (kb_in' # kb_in => Len(kb_in) < KB_IN_BYTES)
    BY DEF KeyPress
  <2>3. Append(kb_in, k) \in Seq(Key) /\ Len(Append(kb_in, k)) = Len(kb_in) + 1
    BY <2>1
  <2>4. QED
    BY <2>1, <2>2, <2>3
<1>4. TtyTypeOK'
  BY <1>1, <1>2, <1>3
  DEF TtyInv, TtyTypeOK, IInv, userVars, fsVars, ttyVars, readVars
<1>5. QED
  BY <1>1, <1>2, <1>4, ConversationSame DEF TtyInv

(* TTY runs: FS has not sent it anything that it has not yet looked at.    *)
LEMMA TtyRuns ==
  ASSUME OneReader, TtyInv, Running(TTY), tty_pc # "dispatch" \/ mbuf[TTY].type = HARD_INT
  PROVE  callOf[TTY] = Unblocked /\ TtyQuiet
BY RunsIdle, Parties, ProcCalls DEF TtyQuiet

LEMMA ReadsSame ==
  ASSUME tty_left_cnt' = tty_left_cnt, tty_pc # "resumed", tty_pc' # "resumed"
  PROVE  /\ \A t : Reading(t)' <=> Reading(t)
         /\ NoRead' <=> NoRead
         /\ ItReads' <=> ItReads
BY DEF Reading, NoRead, ItReads

LEMMA VisitsTty ==
  ASSUME TtyInv, NEW t, VisitAfter(t)
  PROVE  tty_pc' \in {"drain", "receive"} /\ tty_at' \in Tty
<1>1. 0 \in Tty /\ current_console \in Tty
  BY TtyAssumption DEF Tty, TtyInv, TtyTypeOK
<1>2. QED
  BY <1>1 DEF VisitAfter

(* A step of TTY that leaves the read as it is.                            *)
LEMMA TtyPlainStep ==
  ASSUME OneReader, TtyInv, TtyQuiet, callOf[TTY] = Unblocked,
         IInv', BufferHeld', panic' = "none",
         callOf' = callOf, has_int_msg' = has_int_msg,
         \A q \in Proc : q # TTY => mbuf'[q] = mbuf[q],
         UNCHANGED <<userVars, fsVars, readVars>>,
         tty_pc # "resumed", tty_pc' \in {"drain", "echo", "receive"}, tty_at' \in Tty,
         kb_in' \in Seq(Key), Len(kb_in') <= KB_IN_BYTES, key_pressed' \in BOOLEAN,
         current_console' \in Tty,
         ibuf' \in [Tty -> Seq(Char)], \A t \in Tty : Len(ibuf'[t]) <= TTY_IN_BYTES
  PROVE  TtyInv'
<1>1. UNCHANGED <<stage, request, fs_pc, fs_src, tty_procnr, tty_left_cnt, tty_trans_cnt, shown>>
  BY DEF userVars, fsVars, readVars
<1>2. TtyTypeOK'
  BY <1>1 DEF TtyInv, TtyTypeOK, IInv
<1>3. (\A t : Reading(t)' <=> Reading(t)) /\ (NoRead' <=> NoRead) /\ (ItReads' <=> ItReads)
  BY <1>1, ReadsSame
<1>4. UserFits' /\ TtyCalls' /\ Conversation' /\ OthersServed'
  BY <1>3, TtyOwnStep
<1>5. ReadFits'
  BY <1>1, <1>3 DEF TtyInv, ReadFits
<1>6. QED
  BY <1>2, <1>4, <1>5 DEF TtyInv

LEMMA KeptTypes ==
  ASSUME TtyInv
  PROVE  /\ kb_in \in Seq(Key) /\ Len(kb_in) <= KB_IN_BYTES /\ key_pressed \in BOOLEAN
         /\ current_console \in Tty /\ tty_at \in Tty
         /\ ibuf \in [Tty -> Seq(Char)] /\ \A t \in Tty : Len(ibuf[t]) <= TTY_IN_BYTES
         /\ KB_IN_BYTES \in Nat /\ TTY_IN_BYTES \in Nat
BY TtyAssumption DEF TtyInv, TtyTypeOK

LEMMA TtyScanInv == ASSUME OneReader, TtyInv, TtyScan PROVE TtyInv'
<1>1. /\ Running(TTY) /\ tty_pc = "scan" /\ Forget(TTY) /\ VisitAfter(-1)
      /\ UNCHANGED <<userVars, fsVars, readVars, kb_in, key_pressed, current_console, ibuf>>
  BY DEF TtyScan, kbVars
<1>2. TtyQuiet /\ callOf[TTY] = Unblocked
  BY <1>1, TtyRuns
<1>3. QED
  BY <1>1, <1>2, Forgets, VisitsTty, KeptTypes, TtyPlainStep, Parties

LEMMA TtyHardIntInv == ASSUME OneReader, TtyInv, TtyHardInt PROVE TtyInv'
<1>1. /\ Running(TTY) /\ tty_pc = "dispatch" /\ mbuf[TTY].type = HARD_INT /\ Forget(TTY)
      /\ VisitAfter(-1) /\ key_pressed' = FALSE
      /\ UNCHANGED <<userVars, fsVars, readVars, kb_in, current_console, ibuf>>
  BY DEF TtyHardInt
<1>2. TtyQuiet /\ callOf[TTY] = Unblocked
  BY <1>1, TtyRuns
<1>3. QED
  BY <1>1, <1>2, Forgets, VisitsTty, KeptTypes, TtyPlainStep, Parties

LEMMA TtyNextTerminalInv == ASSUME OneReader, TtyInv, TtyNextTerminal PROVE TtyInv'
<1>1. /\ Running(TTY) /\ tty_pc = "echo" /\ VisitAfter(tty_at)
      /\ UNCHANGED <<ipcVars, userVars, fsVars, readVars, kb_in, key_pressed, current_console, ibuf>>
  BY DEF TtyNextTerminal, kbVars
<1>2. TtyQuiet /\ callOf[TTY] = Unblocked
  BY <1>1, TtyRuns
<1>3. QED
  BY <1>1, <1>2, OwnStep, VisitsTty, KeptTypes, TtyPlainStep

LEMMA TtyDrainedInv == ASSUME OneReader, TtyInv, TtyDrained PROVE TtyInv'
<1>1. /\ Running(TTY) /\ tty_pc = "drain" /\ tty_pc' = "echo"
      /\ UNCHANGED <<ipcVars, userVars, fsVars, readVars, kb_in, key_pressed, current_console,
                     tty_at, ibuf>>
  BY DEF TtyDrained, TtyLocal, kbVars
<1>2. TtyQuiet /\ callOf[TTY] = Unblocked
  BY <1>1, TtyRuns
<1>3. QED
  BY <1>1, <1>2, OwnStep, KeptTypes, TtyPlainStep

LEMMA TtyTakeKeyInv == ASSUME OneReader, TtyInv, TtyTakeKey PROVE TtyInv'
<1>1. /\ Running(TTY) /\ tty_pc = "drain" /\ tty_pc' = "drain"
      /\ kb_in # <<>> /\ PutKey(tty_at, Head(kb_in))
      /\ current_console' = NextConsole(Head(kb_in)) /\ kb_in' = Tail(kb_in)
      /\ UNCHANGED <<ipcVars, userVars, fsVars, readVars, key_pressed, tty_at>>
  BY DEF TtyTakeKey, TtyLocal
<1>2. TtyQuiet /\ callOf[TTY] = Unblocked
  BY <1>1, TtyRuns
<1>3. kb_in' \in Seq(Key) /\ Len(kb_in') <= KB_IN_BYTES
  BY <1>1, KeptTypes
<1>4. current_console' \in Tty
  <2>1. NR_CONSOLES \in Nat \ {0} /\ current_console \in 0..NR_CONSOLES - 1
    BY KeptTypes, TtyAssumption DEF Tty
  <2>2. current_console' \in {(current_console + 1) % NR_CONSOLES,
                              (current_console + NR_CONSOLES - 1) % NR_CONSOLES, current_console}
    BY <1>1 DEF NextConsole
  <2>3. (current_console + 1) % NR_CONSOLES \in 0..NR_CONSOLES - 1
        /\ (current_console + NR_CONSOLES - 1) % NR_CONSOLES \in 0..NR_CONSOLES - 1
    BY <2>1
  <2>4. QED
    BY <2>1, <2>2, <2>3 DEF Tty
<1>5. ibuf' \in [Tty -> Seq(Char)] /\ \A t \in Tty : Len(ibuf'[t]) <= TTY_IN_BYTES
  <2>1. CASE ibuf' = ibuf
    BY <2>1, KeptTypes
  <2>2. CASE ibuf' # ibuf
    <3>1. /\ Head(kb_in) \in Char /\ Len(ibuf[tty_at]) < TTY_IN_BYTES
          /\ ibuf' = [ibuf EXCEPT ![tty_at] = Append(ibuf[tty_at], Head(kb_in))]
      BY <1>1, <2>2 DEF PutKey
    <3>2. tty_at \in Tty /\ ibuf[tty_at] \in Seq(Char)
      BY KeptTypes
    <3>3. /\ Append(ibuf[tty_at], Head(kb_in)) \in Seq(Char)
          /\ Len(Append(ibuf[tty_at], Head(kb_in))) = Len(ibuf[tty_at]) + 1
      BY <3>1, <3>2
    <3>4. Len(ibuf[tty_at]) + 1 <= TTY_IN_BYTES
      BY <3>1, <3>2, KeptTypes
    <3>5. QED
      BY <3>1, <3>2, <3>3, <3>4, KeptTypes
  <2>3. QED
    BY <2>1, <2>2
<1>6. QED
  BY <1>1, <1>2, <1>3, <1>4, <1>5, OwnStep, KeptTypes, TtyPlainStep

LEMMA TtyDropInv == ASSUME OneReader, TtyInv, TtyDrop PROVE TtyInv'
<1>1. /\ Running(TTY) /\ tty_pc = "echo" /\ tty_pc' = "echo"
      /\ ibuf[tty_at] # <<>> /\ ibuf' = [ibuf EXCEPT ![tty_at] = Tail(ibuf[tty_at])]
      /\ UNCHANGED <<ipcVars, userVars, fsVars, readVars, kb_in, key_pressed, current_console,
                     tty_at>>
  BY DEF TtyDrop, TtyLocal, kbVars
<1>2. TtyQuiet /\ callOf[TTY] = Unblocked
  BY <1>1, TtyRuns
<1>3. tty_at \in Tty /\ ibuf[tty_at] \in Seq(Char) /\ Len(ibuf[tty_at]) <= TTY_IN_BYTES
  BY KeptTypes
<1>4. Tail(ibuf[tty_at]) \in Seq(Char) /\ Len(Tail(ibuf[tty_at])) <= TTY_IN_BYTES
  BY <1>1, <1>3, KeptTypes
<1>5. ibuf' \in [Tty -> Seq(Char)] /\ \A t \in Tty : Len(ibuf'[t]) <= TTY_IN_BYTES
  BY <1>1, <1>3, <1>4, KeptTypes
<1>6. QED
  BY <1>1, <1>2, <1>5, OwnStep, KeptTypes, TtyPlainStep

-----------------------------------------------------------------------------
(***************************************************************************)
(* The read and its end.                                                   *)
(***************************************************************************)
LEMMA EchoDoes ==
  ASSUME OneReader, TtyInv, tty_pc = "echo", ibuf[tty_at] # <<>>,
         Echo(tty_at, Head(ibuf[tty_at]))
  PROVE  /\ tty_at = StdTty[Reader] /\ tty_at \in Tty /\ Reading(tty_at) /\ ItReads
         /\ tty_procnr[tty_at] = Reader /\ request[Reader].kind = "READ"
         /\ ibuf' \in [Tty -> Seq(Char)] /\ \A t \in Tty : Len(ibuf'[t]) <= TTY_IN_BYTES
         /\ tty_trans_cnt' \in [Tty -> 0..MaxCnt] /\ tty_left_cnt' \in [Tty -> 0..MaxCnt]
         /\ tty_trans_cnt'[tty_at] + tty_left_cnt'[tty_at] = MaxCnt
         /\ tty_trans_cnt'[tty_at] = shown[tty_at] + Step(tty_at, Head(ibuf[tty_at]))
         /\ tty_left_cnt'[tty_at] = tty_left_cnt[tty_at] + LeftStep(tty_at, Head(ibuf[tty_at]))
         /\ \A t \in Tty : t # tty_at => tty_left_cnt'[t] = tty_left_cnt[t] /\ ~ (tty_left_cnt[t] > 0)
<1> DEFINE t == tty_at
           ch == Head(ibuf[t])
<1>1. /\ tty_left_cnt[t] > 0
      /\ ibuf' = [ibuf EXCEPT ![t] = Tail(ibuf[t])]
      /\ tty_trans_cnt' = [tty_trans_cnt EXCEPT ![t] = tty_trans_cnt[t] + Step(t, ch)]
      /\ tty_left_cnt' = [tty_left_cnt EXCEPT ![t] = tty_left_cnt[t] + LeftStep(t, ch)]
  BY DEF Echo
<1>2. /\ t \in Tty /\ ibuf[t] \in Seq(Char) /\ Len(ibuf[t]) <= TTY_IN_BYTES /\ TTY_IN_BYTES \in Nat
      /\ ibuf \in [Tty -> Seq(Char)] /\ \A u \in Tty : Len(ibuf[u]) <= TTY_IN_BYTES
  BY KeptTypes
<1>3. /\ tty_trans_cnt \in [Tty -> 0..MaxCnt] /\ tty_left_cnt \in [Tty -> 0..MaxCnt]
      /\ MaxCnt \in Nat /\ tty_trans_cnt[t] \in 0..MaxCnt /\ tty_left_cnt[t] \in 1..MaxCnt
  <2>1. tty_trans_cnt \in [Tty -> 0..MaxCnt] /\ tty_left_cnt \in [Tty -> 0..MaxCnt]
    BY DEF TtyInv, TtyTypeOK
  <2>2. MaxCnt \in Nat
    BY TtyAssumption
  <2>3. tty_trans_cnt[t] \in 0..MaxCnt /\ tty_left_cnt[t] \in 0..MaxCnt
    BY <1>2, <2>1
  <2>4. QED
    BY <1>1, <2>1, <2>2, <2>3
<1>4. /\ t = StdTty[Reader] /\ Reading(t) /\ ItReads
      /\ tty_procnr[t] = Reader /\ request[Reader].kind = "READ"
      /\ tty_trans_cnt[t] + tty_left_cnt[t] = MaxCnt /\ shown[t] = tty_trans_cnt[t]
      /\ \A u \in Tty : tty_left_cnt[u] > 0 => u = t
  BY <1>1, <1>2 DEF TtyInv, ReadFits, Reading, ItReads
<1>5. /\ Step(t, ch) \in {-1, 0, 1} /\ LeftStep(t, ch) = - Step(t, ch)
      /\ Step(t, ch) = -1 => tty_trans_cnt[t] > 0
  BY DEF Step, LeftStep, Erases
<1>6. ibuf' \in [Tty -> Seq(Char)] /\ \A u \in Tty : Len(ibuf'[u]) <= TTY_IN_BYTES
  <2>1. Tail(ibuf[t]) \in Seq(Char) /\ Len(Tail(ibuf[t])) <= TTY_IN_BYTES
    BY <1>2
  <2>2. QED
    BY <1>1, <1>2, <2>1
<1> HIDE DEF t, ch
<1>7. /\ tty_trans_cnt[t] + Step(t, ch) \in 0..MaxCnt
      /\ tty_left_cnt[t] + LeftStep(t, ch) \in 0..MaxCnt
      /\ tty_trans_cnt[t] + Step(t, ch) + (tty_left_cnt[t] + LeftStep(t, ch)) = MaxCnt
  BY <1>3, <1>4, <1>5
<1>8. /\ tty_trans_cnt' \in [Tty -> 0..MaxCnt] /\ tty_left_cnt' \in [Tty -> 0..MaxCnt]
      /\ tty_trans_cnt'[t] = tty_trans_cnt[t] + Step(t, ch)
      /\ tty_left_cnt'[t] = tty_left_cnt[t] + LeftStep(t, ch)
      /\ \A u \in Tty : u # t => tty_left_cnt'[u] = tty_left_cnt[u]
  BY <1>1, <1>2, <1>3, <1>7
<1>9. QED
  BY <1>2, <1>4, <1>6, <1>7, <1>8 DEF t, ch

LEMMA TtyEchoInv == ASSUME OneReader, TtyInv, TtyEcho PROVE TtyInv'
<1>1. /\ Running(TTY) /\ tty_pc = "echo" /\ tty_pc' = "echo"
      /\ ibuf[tty_at] # <<>> /\ Echo(tty_at, Head(ibuf[tty_at]))
      /\ ~ Completes(tty_at, Head(ibuf[tty_at]))
      /\ shown' = [shown EXCEPT ![tty_at] = shown[tty_at] + Step(tty_at, Head(ibuf[tty_at]))]
      /\ UNCHANGED <<ipcVars, userVars, fsVars, tty_procnr, current_console, tty_at, kb_in,
                     key_pressed>>
  BY DEF TtyEcho, TtyLocal, Echo, kbVars
<1>2. TtyQuiet /\ callOf[TTY] = Unblocked
  BY <1>1, TtyRuns
<1>3. /\ IInv' /\ BufferHeld' /\ panic' = "none"
      /\ callOf' = callOf /\ mbuf' = mbuf /\ has_int_msg' = has_int_msg
  BY <1>1, OwnStep
<1>4. /\ tty_at = StdTty[Reader] /\ tty_at \in Tty /\ Reading(tty_at) /\ ItReads
      /\ tty_procnr[tty_at] = Reader /\ request[Reader].kind = "READ"
      /\ ibuf' \in [Tty -> Seq(Char)] /\ \A t \in Tty : Len(ibuf'[t]) <= TTY_IN_BYTES
      /\ tty_trans_cnt' \in [Tty -> 0..MaxCnt] /\ tty_left_cnt' \in [Tty -> 0..MaxCnt]
      /\ tty_trans_cnt'[tty_at] + tty_left_cnt'[tty_at] = MaxCnt
      /\ tty_trans_cnt'[tty_at] = shown[tty_at] + Step(tty_at, Head(ibuf[tty_at]))
      /\ tty_left_cnt'[tty_at] = tty_left_cnt[tty_at] + LeftStep(tty_at, Head(ibuf[tty_at]))
      /\ \A t \in Tty : t # tty_at => tty_left_cnt'[t] = tty_left_cnt[t] /\ ~ (tty_left_cnt[t] > 0)
  BY <1>1, EchoDoes
<1>5. tty_left_cnt'[tty_at] > 0 /\ tty_left_cnt'[tty_at] \in 0..MaxCnt /\ MaxCnt \in Nat
  <2>1. tty_left_cnt'[tty_at] # 0
    BY <1>1, <1>4 DEF Completes
  <2>2. tty_left_cnt'[tty_at] \in 0..MaxCnt /\ MaxCnt \in Nat
    BY <1>4, TtyAssumption
  <2>3. QED
    BY <2>1, <2>2
<1>6. /\ shown' \in [Tty -> 0..MaxCnt] /\ shown'[tty_at] = tty_trans_cnt'[tty_at]
  <2>1. shown \in [Tty -> 0..MaxCnt] /\ tty_trans_cnt'[tty_at] \in 0..MaxCnt
    BY <1>4 DEF TtyInv, TtyTypeOK
  <2>2. QED
    BY <1>1, <1>4, <2>1
<1>7. UNCHANGED <<stage, request, fs_pc, fs_src>>
  BY <1>1 DEF userVars, fsVars
<1>8. TtyTypeOK'
  BY <1>1, <1>3, <1>4, <1>6, <1>7 DEF TtyInv, TtyTypeOK, IInv
<1>9. ItReads' /\ ~ NoRead /\ ~ NoRead'
  BY <1>1, <1>4, <1>5 DEF ItReads, NoRead, Reading
<1>10. UserFits' /\ TtyCalls' /\ Conversation' /\ OthersServed'
  BY <1>1, <1>2, <1>3, <1>4, <1>9, TtyOwnStep
<1>11. ReadFits'
  BY <1>1, <1>4, <1>6, <1>7 DEF ReadFits, Reading
<1>12. QED
  BY <1>3, <1>8, <1>10, <1>11 DEF TtyInv

LEMMA TtyResumedInv == ASSUME OneReader, TtyInv, TtyResumed PROVE TtyInv'
<1>1. /\ Running(TTY) /\ tty_pc = "resumed" /\ tty_pc' = "echo" /\ Forget(TTY)
      /\ tty_left_cnt' = [tty_left_cnt EXCEPT ![tty_at] = 0]
      /\ tty_trans_cnt' = [tty_trans_cnt EXCEPT ![tty_at] = 0]
      /\ tty_procnr' = [tty_procnr EXCEPT ![tty_at] = NO_TASK]
      /\ UNCHANGED <<userVars, fsVars, kb_in, key_pressed, current_console, tty_at, ibuf, shown>>
  BY DEF TtyResumed, AfterResume, kbVars
<1>2. TtyQuiet /\ callOf[TTY] = Unblocked
  BY <1>1, TtyRuns
<1>3. /\ IInv' /\ BufferHeld' /\ panic' = "none"
      /\ callOf' = callOf /\ has_int_msg' = has_int_msg
      /\ \A q \in Proc : q # TTY => mbuf'[q] = mbuf[q]
  BY <1>1, <1>2, Forgets, Parties
<1>4. /\ tty_at = StdTty[Reader] /\ tty_at \in Tty
      /\ \A t \in Tty : tty_left_cnt[t] > 0 => t = tty_at
  BY <1>1, KeptTypes DEF TtyInv, ReadFits
<1>5. /\ tty_left_cnt \in [Tty -> 0..MaxCnt] /\ tty_trans_cnt \in [Tty -> 0..MaxCnt]
      /\ tty_procnr \in [Tty -> User \cup {NO_TASK}] /\ 0 \in 0..MaxCnt
  BY TtyAssumption, SMTT(30) DEF TtyInv, TtyTypeOK
<1>6. UNCHANGED <<stage, request, fs_pc, fs_src>>
  BY <1>1 DEF userVars, fsVars
<1>7. TtyTypeOK'
  <2>1. /\ tty_left_cnt' \in [Tty -> 0..MaxCnt] /\ tty_trans_cnt' \in [Tty -> 0..MaxCnt]
        /\ tty_procnr' \in [Tty -> User \cup {NO_TASK}]
    BY <1>1, <1>5
  <2>2. QED
    BY <1>1, <1>3, <1>6, <2>1 DEF TtyInv, TtyTypeOK, IInv
<1>8. \A t \in Tty : ~ (tty_left_cnt'[t] > 0)
  BY <1>1, <1>4, <1>5
<1>9. NoRead /\ NoRead' /\ ~ ItReads /\ ~ ItReads'
  BY <1>1, <1>4, <1>8, Parties DEF NoRead, ItReads, Reading
<1>10. UserFits' /\ TtyCalls' /\ Conversation' /\ OthersServed'
  BY <1>1, <1>2, <1>3, <1>9, TtyOwnStep
<1>11. ReadFits'
  BY <1>1, <1>8 DEF ReadFits, Reading
<1>12. QED
  BY <1>3, <1>7, <1>10, <1>11 DEF TtyInv

(* FS sends only to a process that does not send itself.                   *)
LEMMA FsSending ==
  ASSUME OneReader, TtyInv, NEW w \in Proc, callOf[FS] = SendTo(w)
  PROVE  /\ \A x : callOf[w] # SendTo(x)
         /\ w \in User => FsReplies(w) /\ Owed(w)
         /\ w = TTY => FsAsks /\ Resting /\ Owed(Reader)
         /\ w # FS
<1>1. CASE FsAsks /\ Resting /\ Owed(Reader)
  <2>1. w = TTY /\ callOf[TTY] # SendTo(FS)
    BY <1>1, ProcCalls DEF FsAsks, Resting, TtyQuiet
  <2>2. \A x : callOf[TTY] # SendTo(x)
    BY <2>1, ProcCalls DEF TtyInv, TtyCalls
  <2>3. QED
    BY <1>1, <2>1, <2>2, Parties
<1>2. CASE \E p \in User : FsReplies(p) /\ Owed(p)
  <2>1. PICK p \in User : FsReplies(p) /\ Owed(p)
    BY <1>2
  <2>2. p = w
    BY <2>1, ProcCalls DEF FsReplies
  <2>3. callOf[p] = Unblocked
    BY <2>1 DEF FsReplies, Owed
  <2>4. QED
    BY <2>1, <2>2, <2>3, ProcCalls, Parties
<1>3. FsElsewhere => \E p \in User : FsReplies(p) /\ Owed(p)
  <2> SUFFICES ASSUME FsElsewhere PROVE \E p \in User : FsReplies(p) /\ Owed(p)
    OBVIOUS
  <2>1. PICK p \in FileUser : Serves(p)
    BY ProcCalls DEF FsElsewhere, FsFree
  <2>2. FsReplies(p)
    BY <2>1, ProcCalls DEF Serves, FsHolds
  <2>3. Owed(p)
    BY <2>1 DEF TtyInv, OthersServed
  <2>4. QED
    BY <2>2, <2>3, Parties
<1>4. Conversation /\ ~ FsWaits /\ ~ FsResumes /\ (\A k : ~ FsTold(k))
      /\ (Serves(Reader) => FsReplies(Reader))
  BY ProcCalls DEF TtyInv, FsWaits, FsResumes, FsTold, Serves, FsHolds
<1>5. QED
  BY <1>1, <1>2, <1>3, <1>4, Parties DEF Conversation, Resting, Asked, Answered, Suspended

-----------------------------------------------------------------------------
(***************************************************************************)
(* The programs.                                                           *)
(***************************************************************************)

(* What FS has taken from its queue, it owes an answer to.                 *)
LEMMA FsHolding ==
  ASSUME OneReader, TtyInv, NEW p \in User, FsHolds(p)
  PROVE  Owed(p)
<1>1. ~ FsFree /\ ~ FsAsks /\ ~ FsWaits /\ ~ FsResumes /\ \A k : ~ FsTold(k)
  BY ProcCalls, Parties, SignedWords
  DEF FsHolds, FsFree, FsAsks, FsWaits, FsResumes, FsTold, Tells
<1>2. ASSUME NEW q \in User, Serves(q) PROVE q = p
  BY <1>2, ProcCalls, SignedWords DEF Serves, FsHolds, FsReplies
<1>3. CASE FsElsewhere
  BY <1>1, <1>2, <1>3, Parties DEF FsElsewhere, TtyInv, OthersServed
<1>4. CASE Serves(Reader) /\ Owed(Reader)
  BY <1>2, <1>4, Parties
<1>5. QED
  BY <1>1, <1>3, <1>4 DEF TtyInv, Conversation, Resting, Asked, Answered, Suspended

(* A step of program p that FS and TTY do not notice.                      *)
LEMMA UserOwnStep ==
  ASSUME OneReader, TtyInv, NEW p \in User,
         \A q \in Proc : q # p => callOf'[q] = callOf[q] /\ mbuf'[q] = mbuf[q],
         \A q \in User : q # p => stage'[q] = stage[q] /\ request'[q] = request[q],
         UNCHANGED <<fsVars, ttyVars>>,
         Owed(p)' <=> Owed(p),
         Owed(p) => request'[p] = request[p] /\ (FsReplies(p) => stage'[p] = "called")
  PROVE  TtyCalls' /\ Conversation' /\ OthersServed' /\ ReadFits'
<1>1. UNCHANGED <<fs_pc, fs_src, tty_pc, tty_at, tty_procnr, tty_left_cnt, tty_trans_cnt, shown>>
  BY DEF fsVars, ttyVars, readVars
<1>2. /\ callOf'[FS] = callOf[FS] /\ mbuf'[FS] = mbuf[FS]
      /\ callOf'[TTY] = callOf[TTY] /\ mbuf'[TTY] = mbuf[TTY]
  BY Parties
<1>3. \A q \in User : Owed(q)' <=> Owed(q)
  BY Parties DEF Owed
<1>4. ASSUME NEW q \in User, q # p PROVE Serves(q)' <=> Serves(q)
  BY <1>1, <1>2, <1>4 DEF Serves, FsHolds, FsReplies
<1>5. Owed(p) => (Serves(p)' <=> Serves(p))
  <2>1. SUFFICES ASSUME Owed(p) PROVE Serves(p)' <=> Serves(p)
    OBVIOUS
  <2>2. FsHolds(p)' <=> FsHolds(p)
    BY <1>1, <1>2, <2>1 DEF FsHolds
  <2>3. FsReplies(p) => FsReplies(p)'
    BY <1>1, <1>2, <2>1 DEF FsReplies
  <2>4. FsReplies(p)' => FsReplies(p)
    <3>1. SUFFICES ASSUME FsReplies(p)' PROVE stage[p] = "called" /\ FsReplies(p)
      OBVIOUS
    <3>2. callOf[FS] = SendTo(p) /\ fs_pc = "receive"
      BY <1>1, <1>2, <3>1 DEF FsReplies
    <3>3. FsReplies(p)
      BY <3>2, FsSending, Parties
    <3>4. QED
      BY <3>3 DEF FsReplies
  <2>5. QED
    BY <2>2, <2>3, <2>4 DEF Serves
<1>6. ~ Owed(p) => ~ Serves(p)
  <2>1. FsReplies(p) => Owed(p)
    BY FsSending, Parties DEF FsReplies
  <2>2. QED
    BY <2>1, FsHolding DEF Serves
<1>7. ~ Owed(p) /\ p \in FileUser => ~ Serves(p)'
  <2> SUFFICES ASSUME ~ Owed(p), p \in FileUser, Serves(p)' PROVE FALSE
    OBVIOUS
  <2>1. ~ FsReplies(p)'
    <3>1. SUFFICES ASSUME FsReplies(p)' PROVE FALSE
      OBVIOUS
    <3>2. callOf[FS] = SendTo(p)
      BY <1>2, <3>1 DEF FsReplies
    <3>3. QED
      BY <3>2, FsSending, Parties
  <2>2. fs_pc = "dispatch" /\ callOf[FS] = Unblocked /\ mbuf[FS].source = p
    BY <1>1, <1>2, <2>1, SignedWords DEF Serves, FsHolds
  <2>3. ~ FsFree /\ ~ FsAsks /\ ~ FsWaits /\ ~ FsResumes /\ (\A k : ~ FsTold(k))
    BY <2>2, ProcCalls, Parties DEF FsFree, FsAsks, FsWaits, FsResumes, FsTold, Tells
  <2>4. PICK q \in User : Serves(q)
    BY <2>3, Parties DEF TtyInv, Conversation, Resting, Asked, Answered, Suspended, FsElsewhere
  <2>5. q = p
    BY <2>2, <2>4, ProcCalls, SignedWords DEF Serves, FsHolds, FsReplies
  <2>6. QED
    BY <1>6, <2>4, <2>5
<1>8. OthersServed'
  BY <1>3, <1>4, <1>5, <1>7, Parties DEF TtyInv, OthersServed
<1>9. FsElsewhere' <=> FsElsewhere
  <2>1. \A q \in FileUser : Serves(q)' <=> Serves(q)
    BY <1>4, <1>5, <1>6, <1>7, Parties
  <2>2. FsFree' = FsFree
    BY <1>1, <1>2 DEF FsFree
  <2>3. QED
    BY <2>1, <2>2 DEF FsElsewhere
<1>10. Owed(Reader) => /\ request'[Reader] = request[Reader] /\ DevCall' = DevCall
                       /\ (Serves(Reader)' <=> Serves(Reader))
  BY <1>4, <1>5, Parties DEF DevCall
<1>11. /\ Owed(Reader) => /\ FsAsks' = FsAsks /\ TtyHas' = TtyHas
       /\ FsWaits' = FsWaits /\ FsResumes' = FsResumes
       /\ \A k : FsTold(k)' = FsTold(k) /\ TtyAnswers(k)' = TtyAnswers(k)
       /\ TtyQuiet' = TtyQuiet /\ TtyReports' = TtyReports
       /\ NoRead' = NoRead /\ ItReads' = ItReads
  BY <1>1, <1>2, <1>10
  DEF FsAsks, TtyHas, FsWaits, FsResumes, FsTold, TtyAnswers, TtyQuiet, TtyReports, Tells,
      NoRead, ItReads, Reading
<1>12. Conversation'
  <2>1. Owed(Reader)' <=> Owed(Reader)
    BY <1>3, Parties
  <2>2. CASE Resting
    BY <1>9, <1>10, <1>11, <2>1, <2>2 DEF Conversation, Resting
  <2>3. CASE Asked
    BY <1>11, <2>1, <2>3 DEF Conversation, Asked
  <2>4. CASE Answered
    BY <1>1, <1>11, <2>1, <2>4 DEF Conversation, Answered
  <2>5. CASE Suspended
    BY <1>9, <1>11, <2>1, <2>5 DEF Conversation, Suspended
  <2>6. QED
    BY <2>2, <2>3, <2>4, <2>5 DEF TtyInv, Conversation
<1>13. TtyCalls'
  BY <1>1, <1>2 DEF TtyInv, TtyCalls
<1>14. ReadFits'
  <2>1. \A t \in Tty : Reading(t)' <=> Reading(t)
    BY <1>1 DEF Reading
  <2>2. ~ Owed(Reader) => NoRead
    BY DEF TtyInv, Conversation, Resting, Asked, Answered, Suspended
  <2>3. CASE Owed(Reader)
    BY <1>1, <1>10, <2>1, <2>3 DEF TtyInv, ReadFits
  <2>4. CASE ~ Owed(Reader)
    BY <1>1, <2>1, <2>2, <2>4 DEF TtyInv, ReadFits, NoRead
  <2>5. QED
    BY <2>3, <2>4
<1>15. QED
  BY <1>8, <1>12, <1>13, <1>14

(* What a program's step leaves alone, and the types after it.             *)
LEMMA UserTypes ==
  ASSUME OneReader, TtyInv, NEW p \in User, IInv',
         NEW s \in {"idle", "called", "waiting"}, stage' = [stage EXCEPT ![p] = s],
         NEW r \in Requests(p) \cup {Cleared},
         request' = [request EXCEPT ![p] = r] \/ (request' = request /\ r = request[p]),
         UNCHANGED <<fsVars, kbVars, ttyVars>>
  PROVE  /\ TtyTypeOK' /\ stage'[p] = s
         /\ request'[p] = r /\ DOMAIN request' = User
         /\ \A q \in User : q # p => stage'[q] = stage[q] /\ request'[q] = request[q]
<1>1. /\ DOMAIN request' = User /\ request'[p] = r
      /\ \A q \in User : q # p => stage'[q] = stage[q] /\ request'[q] = request[q]
  BY DEF TtyInv, UserFits, TtyTypeOK
<1>2. stage' \in [User -> {"idle", "called", "waiting"}] /\ stage'[p] = s
  BY DEF TtyInv, TtyTypeOK
<1>3. \A q \in User : request'[q] \in Requests(q) \cup {Cleared}
  BY <1>1 DEF TtyInv, TtyTypeOK
<1>4. TtyTypeOK'
  BY <1>2, <1>3 DEF TtyInv, TtyTypeOK, IInv, fsVars, kbVars, ttyVars, readVars
<1>5. QED
  BY <1>1, <1>2, <1>4

LEMMA OtherUsers ==
  ASSUME OneReader, TtyInv, NEW p \in User, NEW q \in User, q # p,
         callOf'[q] = callOf[q], mbuf'[q] = mbuf[q],
         stage'[q] = stage[q], request'[q] = request[q]
  PROVE  UserIs(q)'
BY DEF TtyInv, UserFits, UserIs

LEMMA UserReturnInv ==
  ASSUME OneReader, TtyInv, NEW p \in User, UserReturn(p)
  PROVE  TtyInv'
<1>1. /\ stage[p] = "waiting" /\ Running(p) /\ Forget(p)
      /\ stage' = [stage EXCEPT ![p] = "idle"] /\ request' = [request EXCEPT ![p] = Cleared]
      /\ UNCHANGED <<fsVars, kbVars, ttyVars>>
  BY DEF UserReturn
<1>2. callOf[p] = Unblocked /\ p \in Proc /\ p # TTY
  BY <1>1, RunsIdle, Parties
<1>3. /\ IInv' /\ BufferHeld' /\ panic' = "none"
      /\ callOf' = callOf /\ has_int_msg' = has_int_msg
      /\ \A q \in Proc : q # p => mbuf'[q] = mbuf[q]
  BY <1>1, <1>2, Forgets
<1>4. /\ TtyTypeOK' /\ stage'[p] = "idle" /\ request'[p] = Cleared /\ DOMAIN request' = User
      /\ \A q \in User : q # p => stage'[q] = stage[q] /\ request'[q] = request[q]
  BY <1>1, <1>3, UserTypes
<1>5. ~ Owed(p) /\ ~ Owed(p)'
  BY <1>1, <1>2, <1>3, <1>4, ProcCalls DEF Owed
<1>6. TtyCalls' /\ Conversation' /\ OthersServed' /\ ReadFits'
  BY <1>1, <1>3, <1>4, <1>5, UserOwnStep
<1>7. UserFits'
  <2>1. UserIs(p)'
    BY <1>2, <1>3, <1>4 DEF UserIs
  <2>2. QED
    BY <2>1, <1>3, <1>4, OtherUsers, Parties DEF UserFits
<1>8. QED
  BY <1>3, <1>4, <1>6, <1>7 DEF TtyInv

(* The request finds FS in its receive, or waits until FS takes it.        *)
LEMMA UserSendInv ==
  ASSUME OneReader, TtyInv, NEW p \in User, UserSend(p)
  PROVE  TtyInv'
<1>1. PICK r \in Requests(p) : /\ msg_send(p, FS, r)
                               /\ request' = [request EXCEPT ![p] = r]
  BY DEF UserSend
<1>2. /\ stage[p] = "idle" /\ stage' = [stage EXCEPT ![p] = "called"]
      /\ UNCHANGED <<fsVars, kbVars, ttyVars>>
  BY DEF UserSend
<1>3. p \in Proc /\ p # FS /\ p # TTY /\ r \in Type
  BY Parties, RequestWords
<1>4. \A w \in Proc : callOf[FS] = SendTo(w) => w # p /\ \A x \in Proc : callOf[w] # SendTo(x)
  BY <1>2, FsSending DEF FsReplies
<1>5. /\ IInv' /\ BufferHeld' /\ panic' = "none" /\ has_int_msg' = has_int_msg
      /\ callOf[p] = Unblocked
      /\ \A q \in Proc : q # p /\ q # FS => callOf'[q] = callOf[q] /\ mbuf'[q] = mbuf[q]
      /\ \/ /\ callOf[FS] \in {RecvFrom(p), RecvFrom(ANY)}
            /\ callOf'[FS] = Unblocked /\ mbuf'[FS] = Signed(p, r)
            /\ callOf'[p] = Unblocked
         \/ /\ callOf[FS] \notin {RecvFrom(p), RecvFrom(ANY)}
            /\ callOf'[p] = SendTo(FS) /\ mbuf'[p] = Signed(p, r)
            /\ callOf'[FS] = callOf[FS] /\ mbuf'[FS] = mbuf[FS]
  BY <1>1, <1>3, <1>4, TtySends, Parties
<1>6. /\ TtyTypeOK' /\ stage'[p] = "called" /\ request'[p] = r /\ DOMAIN request' = User
      /\ \A q \in User : q # p => stage'[q] = stage[q] /\ request'[q] = request[q]
  BY <1>1, <1>2, <1>5, UserTypes
<1>7. UserFits'
  <2>1. UserIs(p)'
    BY <1>5, <1>6 DEF UserIs
  <2>2. QED
    BY <2>1, <1>5, <1>6, OtherUsers, Parties DEF UserFits
<1>8. ~ Owed(p)
  BY <1>2 DEF Owed
<1>9. CASE callOf[FS] \notin {RecvFrom(p), RecvFrom(ANY)}
  <2>1. ~ Owed(p)'
    BY <1>5, <1>6, <1>9, ProcCalls DEF Owed
  <2>2. \A q \in Proc : q # p => callOf'[q] = callOf[q] /\ mbuf'[q] = mbuf[q]
    BY <1>5, <1>9
  <2>3. TtyCalls' /\ Conversation' /\ OthersServed' /\ ReadFits'
    BY <1>2, <1>6, <1>8, <2>1, <2>2, UserOwnStep
  <2>4. QED
    BY <1>5, <1>6, <1>7, <2>3 DEF TtyInv
<1>10. CASE callOf[FS] \in {RecvFrom(p), RecvFrom(ANY)}
  <2>1. /\ callOf'[FS] = Unblocked /\ mbuf'[FS] = Signed(p, r) /\ callOf'[p] = Unblocked
    BY <1>5, <1>10
  <2>2. UNCHANGED <<fs_pc, fs_src, tty_pc, tty_at, tty_procnr, tty_left_cnt, tty_trans_cnt, shown>>
        /\ callOf'[TTY] = callOf[TTY] /\ mbuf'[TTY] = mbuf[TTY]
    BY <1>2, <1>3, <1>5, Parties DEF fsVars, ttyVars, readVars
  <2>3. FsFree /\ fs_pc = "dispatch" /\ callOf[FS] = RecvFrom(ANY)
        /\ \A q \in User : ~ Serves(q)
    BY <1>10, ProcCalls, Parties
    DEF TtyInv, Conversation, Resting, Asked, Answered, Suspended, FsElsewhere, FsFree, FsAsks,
        FsWaits, FsTold, FsResumes, Serves, FsHolds, FsReplies
  <2>4. FsHolds(p)' /\ Owed(p)'
    BY <1>6, <2>1, <2>2, <2>3 DEF FsHolds, Owed
  <2>5. \A q \in User : q # p => (Owed(q)' <=> Owed(q)) /\ ~ Serves(q)'
    BY <1>3, <1>5, <1>6, <2>1, <2>2, Parties, SignedWords, ProcCalls
    DEF Owed, Serves, FsHolds, FsReplies
  <2>6. OthersServed'
    BY <2>3, <2>4, <2>5, Parties DEF TtyInv, OthersServed, Serves
  <2>7. TtyQuiet' = TtyQuiet /\ TtyReports' = TtyReports /\ NoRead' = NoRead /\ ItReads' = ItReads
    BY <2>2 DEF TtyQuiet, TtyReports, Tells, NoRead, ItReads, Reading
  <2>8. \/ Resting /\ ~ Owed(Reader)
        \/ Suspended /\ Owed(Reader)
    BY <2>3, ProcCalls, Parties
    DEF TtyInv, Conversation, Resting, Asked, Answered, Suspended, FsAsks, FsWaits, FsTold,
        FsResumes
  <2>9. Conversation'
    <3>1. CASE p = Reader
      <4>1. Resting
        BY <1>8, <2>8, <3>1
      <4>2. QED
        BY <2>4, <2>7, <3>1, <4>1 DEF Conversation, Resting, Serves
    <3>2. CASE p # Reader
      <4>1. FsElsewhere' /\ (Owed(Reader)' <=> Owed(Reader))
        BY <2>4, <2>5, <3>2, Parties DEF FsElsewhere, Serves
      <4>2. QED
        BY <2>7, <2>8, <4>1 DEF Conversation, Resting, Suspended
    <3>3. QED
      BY <3>1, <3>2
  <2>10. TtyCalls'
    BY <2>2 DEF TtyInv, TtyCalls
  <2>11. ReadFits'
    <3>1. \A t \in Tty : Reading(t)' <=> Reading(t)
      BY <2>2 DEF Reading
    <3>2. p = Reader => NoRead
      BY <1>8, <2>8 DEF Resting
    <3>3. p # Reader => request'[Reader] = request[Reader]
      BY <1>6, Parties
    <3>4. QED
      BY <2>2, <3>1, <3>2, <3>3 DEF TtyInv, ReadFits, NoRead
  <2>12. QED
    BY <1>5, <1>6, <1>7, <2>6, <2>9, <2>10, <2>11 DEF TtyInv
<1>11. QED
  BY <1>9, <1>10

(* The answer is there, or the program waits for it.                       *)
LEMMA UserAwaitInv ==
  ASSUME OneReader, TtyInv, NEW p \in User, UserAwait(p)
  PROVE  TtyInv'
<1>1. /\ stage[p] = "called" /\ msg_receive(p, FS)
      /\ stage' = [stage EXCEPT ![p] = "waiting"]
      /\ UNCHANGED <<request, fsVars, kbVars, ttyVars>>
  BY DEF UserAwait
<1>2. p \in Proc /\ p # FS /\ p # TTY /\ ~ has_int_msg[p] /\ FS # ANY
  BY Parties DEF TtyInv
<1>3. /\ IInv' /\ BufferHeld' /\ panic' = "none" /\ callOf[p] = Unblocked
      /\ \A q \in Proc : q # TTY => ~ has_int_msg'[q]
      /\ \A q \in Proc : q # p => mbuf'[q] = mbuf[q]
      /\ \/ /\ callOf[FS] = SendTo(p) /\ callOf'[FS] = Unblocked
            /\ \A q \in Proc : q # FS => callOf'[q] = callOf[q]
         \/ /\ callOf[FS] # SendTo(p) /\ callOf'[p] = RecvFrom(FS)
            /\ \A q \in Proc : q # p => callOf'[q] = callOf[q]
  BY <1>1, <1>2, TtyReceives, Parties DEF TtyInv
<1>4. request[p] \in Requests(p) /\ Owed(p)
  BY <1>1, <1>3 DEF TtyInv, UserFits, UserIs, Owed
<1>5. /\ TtyTypeOK' /\ stage'[p] = "waiting"
      /\ \A q \in User : q # p => stage'[q] = stage[q]
      /\ request' = request /\ DOMAIN request' = User
  BY <1>1, <1>3, <1>4, UserTypes
<1>6. UserFits'
  <2>1. UserIs(p)'
    BY <1>2, <1>3, <1>4, <1>5, Parties DEF UserIs
  <2>2. \A q \in User : q # p => callOf'[q] = callOf[q] /\ mbuf'[q] = mbuf[q]
    BY <1>3, Parties
  <2>3. QED
    BY <2>1, <2>2, <1>5, OtherUsers DEF UserFits
<1>7. CASE callOf[FS] # SendTo(p)
  <2>1. /\ callOf'[p] = RecvFrom(FS)
        /\ \A q \in Proc : q # p => callOf'[q] = callOf[q] /\ mbuf'[q] = mbuf[q]
    BY <1>3, <1>7
  <2>2. Owed(p)' /\ ~ FsReplies(p)
    BY <1>5, <1>7, <2>1 DEF Owed, FsReplies
  <2>3. TtyCalls' /\ Conversation' /\ OthersServed' /\ ReadFits'
    BY <1>1, <1>4, <1>5, <2>1, <2>2, UserOwnStep
  <2>4. QED
    BY <1>3, <1>5, <1>6, <2>3 DEF TtyInv
<1>8. CASE callOf[FS] = SendTo(p)
  <2>1. /\ callOf'[FS] = Unblocked /\ mbuf'[FS] = mbuf[FS]
        /\ \A q \in Proc : q # FS => callOf'[q] = callOf[q]
        /\ callOf'[p] = Unblocked
    BY <1>2, <1>3, <1>8, ProcCalls, Parties
  <2>2. UNCHANGED <<fs_pc, fs_src, tty_pc, tty_at, tty_procnr, tty_left_cnt, tty_trans_cnt, shown>>
        /\ callOf'[TTY] = callOf[TTY] /\ mbuf'[TTY] = mbuf[TTY]
    BY <1>1, <1>2, <1>3, <2>1, Parties DEF fsVars, ttyVars, readVars
  <2>3. FsReplies(p) /\ \A q \in User : Serves(q) => q = p
    BY <1>8, FsSending, ProcCalls, Parties DEF Serves, FsHolds, FsReplies
  <2>4. FsFree' /\ ~ Owed(p)' /\ ~ Serves(p)'
    BY <1>5, <2>1, <2>2, <2>3, ProcCalls DEF FsReplies, FsFree, Owed, Serves, FsHolds
  <2>5. \A q \in User : q # p => (Owed(q)' <=> Owed(q)) /\ ~ Serves(q)'
    BY <1>5, <2>1, <2>2, <2>3, Parties, ProcCalls DEF Owed, Serves, FsHolds, FsReplies
  <2>6. OthersServed'
    BY <2>3, <2>4, <2>5, Parties DEF TtyInv, OthersServed
  <2>7. TtyQuiet' = TtyQuiet /\ TtyReports' = TtyReports /\ NoRead' = NoRead /\ ItReads' = ItReads
    BY <2>2 DEF TtyQuiet, TtyReports, Tells, NoRead, ItReads, Reading
  <2>8. /\ Resting \/ Suspended
        /\ p # Reader => (Resting /\ ~ Owed(Reader)) \/ (Suspended /\ Owed(Reader))
        /\ p = Reader => Resting
    BY <1>8, <2>3, ProcCalls, Parties
    DEF TtyInv, Conversation, Resting, Asked, Answered, Suspended, FsAsks, FsWaits, FsTold,
        FsResumes, FsReplies, FsElsewhere, FsFree
  <2>9. Conversation'
    <3>1. FsElsewhere'
      BY <2>4 DEF FsElsewhere
    <3>2. CASE p = Reader
      BY <2>4, <2>7, <2>8, <3>1, <3>2 DEF Conversation, Resting
    <3>3. CASE p # Reader
      <4>1. Owed(Reader)' <=> Owed(Reader)
        BY <2>5, <3>3, Parties
      <4>2. QED
        BY <2>7, <2>8, <3>1, <3>3, <4>1 DEF Conversation, Resting, Suspended
    <3>4. QED
      BY <3>2, <3>3
  <2>10. TtyCalls' /\ ReadFits'
    BY <1>1, <2>2 DEF TtyInv, TtyCalls, ReadFits, Reading
  <2>11. QED
    BY <1>3, <1>5, <1>6, <2>6, <2>9, <2>10 DEF TtyInv
<1>9. QED
  BY <1>7, <1>8

-----------------------------------------------------------------------------
(***************************************************************************)
(* FS.                                                                     *)
(***************************************************************************)
LEMMA UsersSame ==
  ASSUME OneReader, TtyInv, UNCHANGED userVars,
         \A q \in User : callOf'[q] = callOf[q] /\ mbuf'[q] = mbuf[q]
  PROVE  /\ UserFits' /\ DevCall' = DevCall
         /\ \A q \in User : Owed(q)' <=> Owed(q)
<1>1. UNCHANGED <<stage, request>>
  BY DEF userVars
<1>2. UserFits' /\ DevCall' = DevCall
  BY <1>1 DEF TtyInv, UserFits, UserIs, DevCall
<1>3. \A q \in User : Owed(q)' <=> Owed(q)
  BY <1>1 DEF Owed
<1>4. QED
  BY <1>2, <1>3

(* What a step of FS leaves alone.                                         *)
LEMMA FsStep ==
  ASSUME TtyInv, IInv', UNCHANGED <<userVars, kbVars, ttyVars>>,
         fs_pc' \in {"receive", "dispatch", "await_tty", "answered"}, fs_src' \in User
  PROVE  TtyTypeOK' /\ ReadFits' /\ NoRead' = NoRead /\ ItReads' = ItReads
         /\ UNCHANGED <<stage, request, tty_pc>>
<1>1. UNCHANGED <<stage, request, kb_in, key_pressed, current_console, tty_pc, tty_at, ibuf,
                  tty_procnr, tty_left_cnt, tty_trans_cnt, shown>>
  BY DEF userVars, kbVars, ttyVars, readVars
<1>2. TtyTypeOK'
  BY <1>1 DEF TtyInv, TtyTypeOK, IInv
<1>3. ReadFits' /\ NoRead' = NoRead /\ ItReads' = ItReads
  BY <1>1 DEF TtyInv, ReadFits, NoRead, ItReads, Reading
<1>4. QED
  BY <1>1, <1>2, <1>3

(* Where FS may be when it has no call blocked and serves a request.       *)
LEMMA FsServing ==
  ASSUME OneReader, TtyInv, callOf[FS] = Unblocked
  PROVE  /\ fs_pc = "receive" => /\ \A q \in User : ~ Serves(q)
                                 /\ \/ Resting /\ ~ Owed(Reader)
                                    \/ Suspended /\ Owed(Reader)
         /\ fs_pc = "dispatch" => \/ \E q \in User : FsHolds(q) /\ Owed(q)
                                  \/ FsResumes /\ Resting /\ Owed(Reader)
         /\ fs_pc = "await_tty" => Asked \/ Answered
         /\ fs_pc = "answered" => \/ FsTold("SYSCALL_RET") /\ Resting /\ Owed(Reader)
                                  \/ FsTold("SUSPEND_PROC") /\ Suspended
<1>1. /\ ~ FsAsks /\ \A q : ~ FsReplies(q)
      /\ FsFree => fs_pc = "receive"
      /\ FsWaits => fs_pc = "await_tty"
  BY ProcCalls DEF FsAsks, FsReplies, FsFree, FsWaits
<1>2. /\ \A q : FsHolds(q) => fs_pc = "dispatch"
      /\ FsResumes => fs_pc = "dispatch"
      /\ \A k : FsTold(k) => fs_pc = "answered"
  BY DEF FsHolds, FsResumes, FsTold
<1>3. \A q \in User : FsHolds(q) => Owed(q)
  BY FsHolding
<1>4. CASE Resting
  BY <1>1, <1>2, <1>3, <1>4, Parties DEF Resting, FsElsewhere, Serves
<1>5. CASE Asked \/ Answered
  BY <1>1, <1>2, <1>5 DEF Asked, Answered
<1>6. CASE Suspended
  BY <1>1, <1>2, <1>3, <1>6, Parties DEF Suspended, FsElsewhere, Serves
<1>7. QED
  BY <1>4, <1>5, <1>6 DEF TtyInv, Conversation

LEMMA FSSuspendInv == ASSUME OneReader, TtyInv, FSSuspend PROVE TtyInv'
<1>1. /\ Running(FS) /\ fs_pc = "answered" /\ mbuf[FS].type.kind = "SUSPEND_PROC"
      /\ fs_pc' = "receive" /\ fs_src' = NobodyYet /\ Forget(FS)
      /\ UNCHANGED <<userVars, kbVars, ttyVars>>
  BY DEF FSSuspend
<1>2. callOf[FS] = Unblocked /\ FS \in Proc /\ FS # TTY
  BY <1>1, RunsIdle, Parties
<1>3. FsTold("SUSPEND_PROC") /\ Suspended
  BY <1>1, <1>2, FsServing DEF FsTold, Tells
<1>4. /\ IInv' /\ BufferHeld' /\ panic' = "none"
      /\ callOf' = callOf /\ has_int_msg' = has_int_msg
      /\ \A q \in Proc : q # FS => mbuf'[q] = mbuf[q]
  BY <1>1, <1>2, Forgets
<1>5. TtyTypeOK' /\ ReadFits' /\ NoRead' = NoRead /\ ItReads' = ItReads
      /\ UNCHANGED <<stage, request, tty_pc>>
  BY <1>1, <1>4, FsStep, Parties
<1>6. UserFits' /\ \A q \in User : Owed(q)' <=> Owed(q)
  BY <1>1, <1>4, UsersSame, Parties
<1>7. FsFree' /\ \A q \in User : ~ Serves(q) /\ ~ Serves(q)'
  BY <1>1, <1>2, <1>4, ProcCalls DEF FsFree, Serves, FsHolds, FsReplies
<1>8. OthersServed' /\ FsElsewhere'
  BY <1>6, <1>7, Parties DEF TtyInv, OthersServed, FsElsewhere
<1>9. TtyQuiet' = TtyQuiet /\ TtyReports' = TtyReports /\ TtyCalls'
  BY <1>2, <1>4, <1>5, Parties DEF TtyInv, TtyQuiet, TtyReports, Tells, TtyCalls
<1>10. Conversation'
  BY <1>3, <1>5, <1>6, <1>8, <1>9, Parties DEF Conversation, Suspended
<1>11. QED
  BY <1>4, <1>5, <1>6, <1>8, <1>9, <1>10 DEF TtyInv

(* FS gets a request of a program, or TTY's report, or waits for them.     *)
LEMMA FSReceiveInv == ASSUME OneReader, TtyInv, FSReceive PROVE TtyInv'
<1>1. /\ fs_pc = "receive" /\ msg_receive(FS, ANY) /\ fs_pc' = "dispatch"
      /\ UNCHANGED <<fs_src, userVars, kbVars, ttyVars>>
  BY DEF FSReceive
<1>2. FS \in Proc /\ FS # TTY /\ ~ has_int_msg[FS] /\ fs_src \in User
  BY Parties DEF TtyInv, TtyTypeOK
<1>3. /\ IInv' /\ BufferHeld' /\ panic' = "none" /\ callOf[FS] = Unblocked
      /\ \A q \in Proc : has_int_msg'[q] => has_int_msg[q]
      /\ \A q \in Proc : q # FS => mbuf'[q] = mbuf[q]
      /\ \/ \E f \in Proc :
              /\ callOf[f] = SendTo(FS) /\ callOf'[f] = Unblocked /\ mbuf'[FS] = mbuf[f]
              /\ \A q \in Proc : q # f => callOf'[q] = callOf[q]
         \/ /\ callOf'[FS] = RecvFrom(ANY)
            /\ \A q \in Proc : q # FS => callOf'[q] = callOf[q]
  BY <1>1, <1>2, TtyReceives
<1>4. TtyTypeOK' /\ ReadFits' /\ NoRead' = NoRead /\ ItReads' = ItReads
      /\ UNCHANGED <<stage, request, tty_pc>>
  BY <1>1, <1>2, <1>3, FsStep
<1>5. /\ \A q \in User : ~ Serves(q)
      /\ \/ Resting /\ ~ Owed(Reader)
         \/ Suspended /\ Owed(Reader)
  BY <1>1, <1>3, FsServing
<1>6. \A q \in Proc : q # TTY => ~ has_int_msg'[q]
  BY <1>3 DEF TtyInv
<1>7. CASE /\ callOf'[FS] = RecvFrom(ANY)
           /\ \A q \in Proc : q # FS => callOf'[q] = callOf[q]
  <2>1. UserFits' /\ \A q \in User : Owed(q)' <=> Owed(q)
    BY <1>1, <1>3, <1>7, UsersSame, Parties
  <2>2. FsFree' /\ \A q \in User : ~ Serves(q)'
    BY <1>1, <1>7, ProcCalls DEF FsFree, Serves, FsHolds, FsReplies
  <2>3. OthersServed' /\ FsElsewhere'
    BY <1>5, <2>1, <2>2, Parties DEF TtyInv, OthersServed, FsElsewhere
  <2>4. TtyQuiet' = TtyQuiet /\ TtyReports' = TtyReports /\ TtyCalls'
    BY <1>2, <1>3, <1>4, <1>7, Parties DEF TtyInv, TtyQuiet, TtyReports, Tells, TtyCalls
  <2>5. Conversation'
    BY <1>4, <1>5, <2>1, <2>3, <2>4, Parties DEF Conversation, Resting, Suspended
  <2>6. QED
    BY <1>3, <1>4, <1>6, <2>1, <2>3, <2>4, <2>5 DEF TtyInv
<1>8. ASSUME NEW f \in Proc,
             callOf[f] = SendTo(FS), callOf'[f] = Unblocked, mbuf'[FS] = mbuf[f],
             \A q \in Proc : q # f => callOf'[q] = callOf[q]
      PROVE  TtyInv'
  <2>1. f # FS /\ callOf'[FS] = Unblocked
    BY <1>2, <1>3, <1>8, ProcCalls
  <2>2. CASE f \in User
    <3>1. stage[f] = "called" /\ mbuf[f] = Signed(f, request[f]) /\ request[f] \in Requests(f)
      <4>1. UserIs(f) /\ stage[f] \in {"idle", "called", "waiting"}
        BY <2>2 DEF TtyInv, UserFits, TtyTypeOK
      <4>2. QED
        BY <1>8, <4>1, ProcCalls DEF UserIs
    <3>2. ~ Owed(f) /\ Owed(f)' /\ FsHolds(f)'
      BY <1>1, <1>4, <1>8, <2>1, <3>1, ProcCalls DEF Owed, FsHolds
    <3>3. \A q \in User : q # f => (Owed(q)' <=> Owed(q)) /\ ~ Serves(q)'
      BY <1>1, <1>4, <1>8, <2>1, <3>1, SignedWords, ProcCalls, Parties
      DEF Owed, Serves, FsHolds, FsReplies
    <3>4. UserFits'
      <4>1. UserIs(f)'
        BY <1>4, <1>8, <3>1 DEF UserIs
      <4>2. QED
        BY <1>3, <1>4, <1>8, <2>2, <4>1, OtherUsers, Parties DEF TtyInv, UserFits
    <3>5. OthersServed'
      BY <1>5, <3>2, <3>3, Parties DEF TtyInv, OthersServed, Serves
    <3>6. TtyQuiet' = TtyQuiet /\ TtyReports' = TtyReports /\ TtyCalls'
      BY <1>2, <1>3, <1>4, <1>8, <2>2, Parties DEF TtyInv, TtyQuiet, TtyReports, Tells, TtyCalls
    <3>7. Conversation'
      <4>1. CASE f = Reader
        BY <1>4, <1>5, <3>2, <3>6, <4>1 DEF Conversation, Resting, Serves
      <4>2. CASE f # Reader
        <5>1. FsElsewhere' /\ (Owed(Reader)' <=> Owed(Reader))
          BY <2>2, <3>2, <3>3, <4>2, Parties DEF FsElsewhere, Serves
        <5>2. QED
          BY <1>4, <1>5, <3>6, <5>1 DEF Conversation, Resting, Suspended
      <4>3. QED
        BY <4>1, <4>2
    <3>8. QED
      BY <1>3, <1>4, <1>6, <3>4, <3>5, <3>6, <3>7 DEF TtyInv
  <2>3. CASE f = TTY
    <3>1. Suspended /\ Owed(Reader) /\ TtyReports /\ NoRead
      BY <1>5, <1>8, <2>3 DEF Resting, Suspended, TtyQuiet
    <3>2. UserFits' /\ \A q \in User : Owed(q)' <=> Owed(q)
      BY <1>1, <1>3, <1>8, <2>3, UsersSame, Parties
    <3>3. FsResumes'
      BY <1>1, <1>8, <2>1, <2>3, <3>1 DEF FsResumes, TtyReports, Tells
    <3>4. \A q \in User : ~ Serves(q)'
      BY <1>1, <1>8, <2>1, <2>3, <3>1, SignedWords, Parties
      DEF Serves, FsHolds, FsReplies, TtyReports, Tells
    <3>5. OthersServed'
      BY <1>5, <3>2, <3>4, Parties DEF TtyInv, OthersServed
    <3>6. TtyQuiet' /\ TtyCalls'
      BY <1>4, <1>8, <2>3, <3>1, ProcCalls DEF TtyQuiet, TtyCalls, TtyReports
    <3>7. Conversation'
      BY <1>4, <3>1, <3>2, <3>3, <3>6, Parties DEF Conversation, Resting
    <3>8. QED
      BY <1>3, <1>4, <1>6, <3>2, <3>5, <3>6, <3>7 DEF TtyInv
  <2>4. QED
    BY <2>1, <2>2, <2>3, Parties
<1>9. QED
  BY <1>3, <1>7, <1>8

(* FS asks TTY for what the program at the terminal wants.                 *)
LEMMA FSCallTtyInv == ASSUME OneReader, TtyInv, FSCallTty PROVE TtyInv'
<1>1. /\ Running(FS) /\ fs_pc = "dispatch" /\ mbuf[FS].type.kind \in TerminalCall
      /\ msg_send(FS, TTY, Body(DriverKind(mbuf[FS].type.kind), mbuf[FS].type.DEVICE,
                                mbuf[FS].source, mbuf[FS].type.CNT))
      /\ fs_src' = mbuf[FS].source /\ fs_pc' = "await_tty"
      /\ UNCHANGED <<userVars, kbVars, ttyVars>>
  BY DEF FSCallTty
<1>2. callOf[FS] = Unblocked /\ FS \in Proc /\ TTY \in Proc /\ FS # TTY
  BY <1>1, RunsIdle, Parties
<1>3. FsHolds(Reader) /\ Owed(Reader)
  <2>1. ~ FsResumes
    BY <1>1 DEF FsResumes, Tells, TerminalCall
  <2>2. PICK q \in User : FsHolds(q) /\ Owed(q)
    BY <1>1, <1>2, <2>1, FsServing
  <2>3. request[q] \in Requests(q)
    BY <2>2 DEF TtyInv, UserFits, UserIs, TtyTypeOK, Owed
  <2>4. request[q].kind \in TerminalCall
    BY <1>1, <2>2, SignedWords DEF FsHolds
  <2>5. q \notin FileUser
    BY <2>3, <2>4, RequestWords DEF TerminalCall
  <2>6. QED
    BY <2>2, <2>5, Parties
<1>4. Resting /\ \A q \in User : Serves(q) => q = Reader
  BY <1>2, <1>3, ProcCalls, SignedWords, Parties
  DEF TtyInv, Conversation, Resting, Asked, Answered, Suspended, Serves, FsElsewhere, FsFree,
      FsAsks, FsWaits, FsTold, FsResumes, FsHolds, FsReplies, Tells
<1>5. /\ mbuf[FS] = Signed(Reader, request[Reader]) /\ DevCall \in Type
      /\ Body(DriverKind(mbuf[FS].type.kind), mbuf[FS].type.DEVICE,
              mbuf[FS].source, mbuf[FS].type.CNT) = DevCall
  <2>1. mbuf[FS] = Signed(Reader, request[Reader])
    BY <1>3 DEF FsHolds
  <2>2. DevCall \in Type /\ request[Reader] \in Requests(Reader)
    BY <1>3, ReaderCall
  <2>3. request[Reader].DEVICE = StdTty[Reader] /\ request[Reader].CNT = MaxCnt
    BY <2>2, RequestWords
  <2>4. QED
    BY <2>1, <2>2, <2>3, SignedWords DEF DevCall
<1>6. TtyQuiet /\ NoRead /\ \A x : callOf[TTY] # SendTo(x)
  BY <1>4, ProcCalls DEF Resting, TtyQuiet, TtyInv, TtyCalls
<1>7. /\ IInv' /\ BufferHeld' /\ panic' = "none" /\ has_int_msg' = has_int_msg
      /\ \A q \in Proc : q # FS /\ q # TTY => callOf'[q] = callOf[q] /\ mbuf'[q] = mbuf[q]
      /\ \/ /\ callOf[TTY] \in {RecvFrom(FS), RecvFrom(ANY)}
            /\ callOf'[TTY] = Unblocked /\ mbuf'[TTY] = Signed(FS, DevCall)
            /\ callOf'[FS] = Unblocked
         \/ /\ callOf[TTY] \notin {RecvFrom(FS), RecvFrom(ANY)}
            /\ callOf'[FS] = SendTo(TTY) /\ mbuf'[FS] = Signed(FS, DevCall)
            /\ callOf'[TTY] = callOf[TTY] /\ mbuf'[TTY] = mbuf[TTY]
  BY <1>1, <1>2, <1>5, <1>6, TtySends
<1>8. fs_src' = Reader
  BY <1>1, <1>5, SignedWords
<1>9. TtyTypeOK' /\ ReadFits' /\ NoRead' = NoRead /\ ItReads' = ItReads
      /\ UNCHANGED <<stage, request, tty_pc>>
  BY <1>1, <1>7, <1>8, FsStep, Parties
<1>10. UserFits' /\ DevCall' = DevCall /\ \A q \in User : Owed(q)' <=> Owed(q)
  BY <1>1, <1>7, UsersSame, Parties
<1>11. \A q \in User : ~ Serves(q)'
  BY <1>1 DEF Serves, FsHolds, FsReplies
<1>12. OthersServed'
  BY <1>4, <1>10, <1>11, Parties DEF TtyInv, OthersServed
<1>13. CASE callOf'[TTY] = Unblocked /\ mbuf'[TTY] = Signed(FS, DevCall) /\ callOf'[FS] = Unblocked
            /\ callOf[TTY] \in {RecvFrom(FS), RecvFrom(ANY)}
  <2>1. tty_pc = "dispatch"
    BY <1>13, ProcCalls DEF TtyInv, TtyCalls
  <2>2. TtyHas' /\ FsWaits' /\ TtyCalls'
    BY <1>1, <1>8, <1>9, <1>10, <1>13, <2>1 DEF TtyHas, FsWaits, TtyCalls
  <2>3. Conversation'
    BY <1>3, <1>6, <1>9, <1>10, <2>2, Parties DEF Conversation, Asked
  <2>4. QED
    BY <1>7, <1>9, <1>10, <1>12, <2>2, <2>3 DEF TtyInv
<1>14. CASE callOf'[FS] = SendTo(TTY) /\ mbuf'[FS] = Signed(FS, DevCall)
            /\ callOf'[TTY] = callOf[TTY] /\ mbuf'[TTY] = mbuf[TTY]
  <2>1. FsAsks' /\ TtyQuiet' /\ TtyCalls'
    BY <1>1, <1>6, <1>8, <1>9, <1>10, <1>14 DEF FsAsks, TtyQuiet, TtyInv, TtyCalls
  <2>2. Conversation'
    BY <1>3, <1>6, <1>9, <1>10, <2>1, Parties DEF Conversation, Resting
  <2>3. QED
    BY <1>7, <1>9, <1>10, <1>12, <2>1, <2>2 DEF TtyInv
<1>15. QED
  BY <1>7, <1>13, <1>14

(* FS waits for TTY's answer, or gets it.                                  *)
LEMMA FSAwaitTtyInv == ASSUME OneReader, TtyInv, FSAwaitTty PROVE TtyInv'
<1>1. /\ fs_pc = "await_tty" /\ msg_receive(FS, TTY) /\ fs_pc' = "answered"
      /\ UNCHANGED <<fs_src, userVars, kbVars, ttyVars>>
  BY DEF FSAwaitTty
<1>2. FS \in Proc /\ TTY \in Proc /\ FS # TTY /\ ~ has_int_msg[FS] /\ fs_src \in User /\ TTY # ANY
  BY Parties DEF TtyInv, TtyTypeOK
<1>3. /\ IInv' /\ BufferHeld' /\ panic' = "none" /\ callOf[FS] = Unblocked
      /\ \A q \in Proc : has_int_msg'[q] => has_int_msg[q]
      /\ \A q \in Proc : q # FS => mbuf'[q] = mbuf[q]
      /\ \/ /\ callOf[TTY] = SendTo(FS) /\ callOf'[TTY] = Unblocked /\ mbuf'[FS] = mbuf[TTY]
            /\ \A q \in Proc : q # TTY => callOf'[q] = callOf[q]
         \/ /\ callOf[TTY] # SendTo(FS) /\ callOf'[FS] = RecvFrom(TTY)
            /\ \A q \in Proc : q # FS => callOf'[q] = callOf[q]
  BY <1>1, <1>2, TtyReceives
<1>4. TtyTypeOK' /\ ReadFits' /\ NoRead' = NoRead /\ ItReads' = ItReads
      /\ UNCHANGED <<stage, request, tty_pc>>
  BY <1>1, <1>2, <1>3, FsStep
<1>5. /\ \A q \in Proc : q # TTY => ~ has_int_msg'[q]
      /\ UserFits' /\ DevCall' = DevCall /\ \A q \in User : Owed(q)' <=> Owed(q)
  BY <1>1, <1>3, UsersSame, Parties DEF TtyInv
<1>6. \A q \in User : ~ Serves(q) /\ ~ Serves(q)'
  BY <1>1 DEF Serves, FsHolds, FsReplies
<1>7. OthersServed'
  BY <1>5, <1>6, Parties DEF TtyInv, OthersServed
<1>8. (Asked \/ Answered) /\ fs_src = Reader /\ Owed(Reader)
  BY <1>1, <1>3, FsServing DEF Asked, Answered, FsWaits
<1>9. CASE callOf[TTY] # SendTo(FS)
  <2>1. Asked /\ callOf'[FS] = RecvFrom(TTY)
        /\ callOf'[TTY] = callOf[TTY] /\ mbuf'[TTY] = mbuf[TTY]
    BY <1>2, <1>3, <1>8, <1>9 DEF Answered, TtyAnswers
  <2>2. FsWaits' /\ TtyHas' /\ TtyCalls'
    BY <1>1, <1>4, <1>5, <1>8, <2>1 DEF FsWaits, Asked, TtyHas, TtyCalls
  <2>3. Conversation'
    BY <1>4, <1>5, <1>8, <2>1, <2>2, Parties DEF Conversation, Asked
  <2>4. QED
    BY <1>3, <1>4, <1>5, <1>7, <2>2, <2>3 DEF TtyInv
<1>10. CASE callOf[TTY] = SendTo(FS)
  <2>1. Answered /\ callOf'[TTY] = Unblocked /\ mbuf'[FS] = mbuf[TTY] /\ callOf'[FS] = Unblocked
    BY <1>2, <1>3, <1>8, <1>10, ProcCalls DEF Asked, TtyHas
  <2>2. TtyQuiet' /\ TtyCalls'
    BY <1>4, <2>1, ProcCalls DEF Answered, TtyAnswers, TtyQuiet, TtyCalls
  <2>3. CASE TtyAnswers("SYSCALL_RET") /\ NoRead
    <3>1. FsTold("SYSCALL_RET")'
      BY <1>1, <1>8, <2>1, <2>3 DEF TtyAnswers, FsTold, Tells
    <3>2. Conversation'
      BY <1>4, <1>5, <1>8, <2>2, <2>3, <3>1, Parties DEF Conversation, Resting
    <3>3. QED
      BY <1>3, <1>4, <1>5, <1>7, <2>2, <3>2 DEF TtyInv
  <2>4. CASE TtyAnswers("SUSPEND_PROC") /\ ItReads
    <3>1. FsTold("SUSPEND_PROC")'
      BY <1>1, <1>8, <2>1, <2>4 DEF TtyAnswers, FsTold, Tells
    <3>2. Conversation'
      BY <1>4, <1>5, <1>8, <2>2, <2>4, <3>1, Parties DEF Conversation, Suspended
    <3>3. QED
      BY <1>3, <1>4, <1>5, <1>7, <2>2, <3>2 DEF TtyInv
  <2>5. QED
    BY <2>1, <2>3, <2>4 DEF Answered
<1>11. QED
  BY <1>9, <1>10

(* FS answers a program that waits for it.                                 *)
LEMMA FSReplyInv == ASSUME OneReader, TtyInv, FSReply PROVE TtyInv'
<1>1. /\ Running(FS) /\ fs_pc \in {"dispatch", "answered"}
      /\ fs_src' = NobodyYet /\ fs_pc' = "receive"
      /\ UNCHANGED <<userVars, kbVars, ttyVars>>
  BY DEF FSReply
<1>2. PICK p \in User : /\ FSAnswers(p)
                        /\ msg_send(FS, p, [mbuf[FS].type EXCEPT !.kind = "SYSCALL_RET"])
  BY DEF FSReply
<1>3. callOf[FS] = Unblocked /\ FS \in Proc /\ p \in Proc /\ FS # p /\ p # TTY /\ FS # TTY
  BY <1>1, RunsIdle, Parties
<1>4. /\ Owed(p) /\ mbuf[FS].type \in Type
      /\ \/ p = Reader /\ Resting
         \/ p \in FileUser /\ ((Resting /\ ~ Owed(Reader)) \/ (Suspended /\ Owed(Reader)))
      /\ \A q \in User : Serves(q) => q = p
  <2>1. CASE \E q \in User : FsHolds(q) /\ Owed(q)
    <3>1. PICK q \in User : FsHolds(q) /\ Owed(q)
      BY <2>1
    <3>2. request[q] \in Requests(q) /\ fs_pc = "dispatch"
          /\ mbuf[FS].type = request[q] /\ mbuf[FS].source = q
      <4>1. UserIs(q) /\ stage[q] \in {"called", "waiting"}
        BY <3>1 DEF TtyInv, UserFits, Owed
      <4>2. request[q] \in Requests(q)
        BY <4>1 DEF UserIs
      <4>3. QED
        BY <3>1, <4>2, SignedWords DEF FsHolds
    <3>3. p = q /\ request[q] \in Type /\ request[q].kind = "STAT"
      BY <1>2, <3>2, RequestWords DEF FSAnswers, TerminalCall
    <3>4. q # Reader
      BY <3>2, <3>3, RequestWords DEF TerminalCall
    <3>5. \A r \in User : Serves(r) => r = q
      BY <1>3, <3>2, ProcCalls, SignedWords DEF Serves, FsHolds, FsReplies
    <3>6. (Resting /\ ~ Owed(Reader)) \/ (Suspended /\ Owed(Reader))
      <4>1. ~ FsAsks /\ ~ FsWaits /\ ~ FsResumes /\ (\A k : ~ FsTold(k)) /\ ~ Serves(Reader)
        BY <1>3, <3>2, <3>4, <3>5, ProcCalls, Parties
        DEF FsAsks, FsWaits, FsResumes, FsTold, Tells
      <4>2. ~ Asked /\ ~ Answered
        BY <4>1 DEF Asked, Answered
      <4>3. Resting => ~ Owed(Reader)
        BY <4>1 DEF Resting
      <4>4. Suspended => Owed(Reader)
        BY DEF Suspended
      <4>5. QED
        BY <4>2, <4>3, <4>4 DEF TtyInv, Conversation
    <3>7. QED
      BY <3>1, <3>2, <3>3, <3>4, <3>5, <3>6, Parties
  <2>2. CASE FsResumes /\ Resting /\ Owed(Reader)
    <3>1. p = Reader /\ mbuf[FS].type \in Type /\ mbuf[FS].source = TTY /\ fs_pc = "dispatch"
      BY <1>2, <2>2 DEF FsResumes, Tells, FSAnswers
    <3>2. \A r \in User : ~ Serves(r)
      BY <1>3, <3>1, ProcCalls, SignedWords, Parties DEF Serves, FsHolds, FsReplies
    <3>3. QED
      BY <2>2, <3>1, <3>2
  <2>3. CASE FsTold("SYSCALL_RET") /\ Resting /\ Owed(Reader)
    <3>1. p = Reader /\ mbuf[FS].type \in Type /\ fs_pc = "answered"
      BY <1>2, <2>3 DEF FsTold, Tells, FSAnswers
    <3>2. \A r \in User : ~ Serves(r)
      BY <3>1 DEF Serves, FsHolds, FsReplies
    <3>3. QED
      BY <2>3, <3>1, <3>2
  <2>4. ~ FsTold("SUSPEND_PROC")
    BY <1>2 DEF FsTold, Tells, FSAnswers
  <2>5. QED
    BY <1>1, <1>3, <2>1, <2>2, <2>3, <2>4, FsServing
<1>5. [mbuf[FS].type EXCEPT !.kind = "SYSCALL_RET"] \in Type
  BY <1>4, TypeWords DEF Kind
<1>6. \A w \in Proc : callOf[p] # SendTo(w)
  BY <1>4, ProcCalls DEF Owed
<1>7. /\ IInv' /\ BufferHeld' /\ panic' = "none" /\ has_int_msg' = has_int_msg
      /\ \A q \in Proc : q # FS /\ q # p => callOf'[q] = callOf[q] /\ mbuf'[q] = mbuf[q]
      /\ \/ /\ callOf[p] \in {RecvFrom(FS), RecvFrom(ANY)}
            /\ callOf'[p] = Unblocked /\ callOf'[FS] = Unblocked
         \/ /\ callOf[p] \notin {RecvFrom(FS), RecvFrom(ANY)}
            /\ callOf'[FS] = SendTo(p)
            /\ callOf'[p] = callOf[p] /\ mbuf'[p] = mbuf[p]
  BY <1>2, <1>3, <1>5, <1>6, TtySends
<1>8. TtyTypeOK' /\ ReadFits' /\ NoRead' = NoRead /\ ItReads' = ItReads
      /\ UNCHANGED <<stage, request, tty_pc>>
  BY <1>1, <1>7, FsStep, Parties
<1>9. /\ TtyQuiet' = TtyQuiet /\ TtyReports' = TtyReports /\ TtyCalls'
  BY <1>3, <1>7, <1>8, Parties DEF TtyInv, TtyQuiet, TtyReports, Tells, TtyCalls
<1>10. /\ \A q \in User : q # p => (Owed(q)' <=> Owed(q)) /\ ~ Serves(q) /\ ~ Serves(q)'
       /\ \/ FsFree' /\ ~ Owed(p)' /\ ~ Serves(p)'
          \/ FsReplies(p)' /\ Owed(p)'
  <2>1. \A q \in User : q # p => (Owed(q)' <=> Owed(q)) /\ ~ Serves(q) /\ ~ Serves(q)'
    BY <1>1, <1>4, <1>7, <1>8, ProcCalls, Parties DEF Owed, Serves, FsHolds, FsReplies
  <2>2. CASE callOf[p] \in {RecvFrom(FS), RecvFrom(ANY)}
    <3>1. stage[p] = "waiting"
      BY <1>4, <2>2, ProcCalls DEF Owed
    <3>2. QED
      BY <1>1, <1>7, <1>8, <2>1, <2>2, <3>1, ProcCalls
      DEF FsFree, Owed, Serves, FsHolds, FsReplies
  <2>3. CASE callOf[p] \notin {RecvFrom(FS), RecvFrom(ANY)}
    <3>1. stage[p] = "called" /\ callOf[p] = Unblocked
      BY <1>4, <2>3 DEF Owed
    <3>2. QED
      BY <1>1, <1>7, <1>8, <2>1, <2>3, <3>1 DEF FsReplies, Owed
  <2>4. QED
    BY <2>2, <2>3
<1>11. UserFits'
  <2>1. UserIs(p)'
    <3>1. UserIs(p)
      BY DEF TtyInv, UserFits
    <3>2. CASE callOf[p] \in {RecvFrom(FS), RecvFrom(ANY)}
      BY <1>4, <1>7, <1>8, <3>1, <3>2, ProcCalls DEF UserIs, Owed
    <3>3. CASE callOf[p] \notin {RecvFrom(FS), RecvFrom(ANY)}
      BY <1>7, <1>8, <3>1, <3>3 DEF UserIs
    <3>4. QED
      BY <3>2, <3>3
  <2>2. QED
    BY <2>1, <1>7, <1>8, OtherUsers, Parties DEF TtyInv, UserFits
<1>12. OthersServed'
  BY <1>10, Parties DEF TtyInv, OthersServed, Serves
<1>13. Conversation'
  <2>1. CASE p = Reader /\ Resting
    BY <1>8, <1>9, <1>10, <2>1 DEF Conversation, Resting, FsElsewhere, Serves
  <2>2. CASE p \in FileUser /\ ((Resting /\ ~ Owed(Reader)) \/ (Suspended /\ Owed(Reader)))
    <3>1. FsElsewhere' /\ (Owed(Reader)' <=> Owed(Reader))
      BY <1>10, <2>2, Parties DEF FsElsewhere, Serves
    <3>2. QED
      BY <1>8, <1>9, <2>2, <3>1 DEF Conversation, Resting, Suspended
  <2>3. QED
    BY <1>4, <2>1, <2>2
<1>14. QED
  BY <1>7, <1>8, <1>9, <1>11, <1>12, <1>13 DEF TtyInv

-----------------------------------------------------------------------------
(***************************************************************************)
(* TTY, towards FS.                                                        *)
(***************************************************************************)

(* What a step of TTY that leaves its reads alone does to the types.       *)
LEMMA TtyMoves ==
  ASSUME TtyInv, IInv',
         UNCHANGED <<userVars, fsVars, kbVars, current_console, tty_at, ibuf, readVars>>,
         tty_pc' \in {"scan", "dispatch"}, tty_pc # "resumed"
  PROVE  TtyTypeOK' /\ ReadFits' /\ NoRead' = NoRead /\ ItReads' = ItReads
         /\ UNCHANGED <<stage, request, fs_pc, fs_src>>
<1>1. UNCHANGED <<stage, request, fs_pc, fs_src, kb_in, key_pressed, current_console, tty_at, ibuf,
                  tty_procnr, tty_left_cnt, tty_trans_cnt, shown>>
  BY DEF userVars, fsVars, kbVars, readVars
<1>2. TtyTypeOK'
  BY <1>1 DEF TtyInv, TtyTypeOK, IInv
<1>3. ReadFits' /\ NoRead' = NoRead /\ ItReads' = ItReads
  BY <1>1 DEF TtyInv, ReadFits, NoRead, ItReads, Reading
<1>4. QED
  BY <1>1, <1>2, <1>3

(* What a step in which FS and the programs take no part keeps of theirs.  *)
LEMMA FsSame ==
  ASSUME OneReader, TtyInv, UNCHANGED <<userVars, fsVars>>,
         \A q \in Proc : q # TTY => callOf'[q] = callOf[q] /\ mbuf'[q] = mbuf[q]
  PROVE  /\ UserFits' /\ OthersServed' /\ DevCall' = DevCall
         /\ \A q \in User : (Owed(q)' <=> Owed(q)) /\ (Serves(q)' <=> Serves(q))
         /\ FsElsewhere' = FsElsewhere /\ FsAsks' = FsAsks /\ FsWaits' = FsWaits
         /\ FsResumes' = FsResumes /\ \A k : FsTold(k)' = FsTold(k)
<1>1. UNCHANGED <<stage, request, fs_pc, fs_src>>
      /\ callOf'[FS] = callOf[FS] /\ mbuf'[FS] = mbuf[FS]
  BY Parties DEF userVars, fsVars
<1>2. UserFits' /\ DevCall' = DevCall /\ \A q \in User : Owed(q)' <=> Owed(q)
  BY UsersSame, Parties
<1>3. \A q \in User : Serves(q)' <=> Serves(q)
  BY <1>1 DEF Serves, FsHolds, FsReplies
<1>4. OthersServed' /\ FsElsewhere' = FsElsewhere
  BY <1>1, <1>2, <1>3, Parties DEF TtyInv, OthersServed, FsElsewhere, FsFree
<1>5. FsAsks' = FsAsks /\ FsWaits' = FsWaits /\ FsResumes' = FsResumes
      /\ \A k : FsTold(k)' = FsTold(k)
  BY <1>1, <1>2 DEF FsAsks, FsWaits, FsResumes, FsTold, Tells
<1>6. QED
  BY <1>2, <1>3, <1>4, <1>5

(* TTY gets an interrupt, or what FS asks, or waits for either.            *)
LEMMA TtyReceiveInv == ASSUME OneReader, TtyInv, TtyReceive PROVE TtyInv'
<1>1. /\ tty_pc = "receive" /\ msg_receive(TTY, ANY) /\ tty_pc' = "dispatch"
      /\ UNCHANGED <<userVars, fsVars, kbVars, current_console, tty_at, ibuf, readVars>>
  BY DEF TtyReceive
<1>2. TTY \in Proc /\ FS \in Proc /\ FS # TTY
  BY Parties
<1>3. /\ IInv' /\ BufferHeld' /\ panic' = "none" /\ callOf[TTY] = Unblocked
      /\ \A q \in Proc : has_int_msg'[q] => has_int_msg[q]
      /\ \A q \in Proc : q # TTY => mbuf'[q] = mbuf[q]
      /\ \/ callOf' = callOf /\ mbuf'[TTY] = Signed(INTERRUPT, HARD_INT)
         \/ \E f \in Proc :
              /\ callOf[f] = SendTo(TTY) /\ callOf'[f] = Unblocked /\ mbuf'[TTY] = mbuf[f]
              /\ \A q \in Proc : q # f => callOf'[q] = callOf[q]
         \/ /\ callOf'[TTY] = RecvFrom(ANY)
            /\ \A q \in Proc : q # TTY => callOf'[q] = callOf[q]
  BY <1>1, <1>2, TtyReceives
<1>4. TtyTypeOK' /\ ReadFits' /\ NoRead' = NoRead /\ ItReads' = ItReads
      /\ UNCHANGED <<stage, request, fs_pc, fs_src>>
  BY <1>1, <1>3, TtyMoves
<1>5. TtyQuiet /\ (Resting \/ (Suspended /\ ItReads /\ ~ TtyReports))
  <2>1. TtyQuiet
    BY <1>1, <1>3, ProcCalls DEF TtyQuiet
  <2>2. QED
    BY <2>1, TtyByItself
<1>6. \A q \in Proc : q # TTY => ~ has_int_msg'[q]
  BY <1>3 DEF TtyInv
<1>7. CASE \/ callOf' = callOf /\ mbuf'[TTY] = Signed(INTERRUPT, HARD_INT)
           \/ /\ callOf'[TTY] = RecvFrom(ANY)
              /\ \A q \in Proc : q # TTY => callOf'[q] = callOf[q]
  <2>1. TtyQuiet' /\ TtyCalls'
    BY <1>1, <1>3, <1>7, ProcCalls, SignedWords DEF TtyQuiet, TtyCalls
  <2>2. /\ UserFits' /\ OthersServed' /\ FsElsewhere' = FsElsewhere /\ FsAsks' = FsAsks
        /\ FsResumes' = FsResumes /\ (\A k : FsTold(k)' = FsTold(k))
        /\ \A q \in User : (Owed(q)' <=> Owed(q)) /\ (Serves(q)' <=> Serves(q))
    <3>1. \A q \in Proc : q # TTY => callOf'[q] = callOf[q] /\ mbuf'[q] = mbuf[q]
      BY <1>3, <1>7
    <3>2. QED
      BY <1>1, <3>1, FsSame
  <2>3. Conversation'
    BY <1>4, <1>5, <2>1, <2>2, Parties DEF Conversation, Resting, Suspended
  <2>4. QED
    BY <1>3, <1>4, <1>6, <2>1, <2>2, <2>3 DEF TtyInv
<1>8. ASSUME NEW f \in Proc,
             callOf[f] = SendTo(TTY), callOf'[f] = Unblocked, mbuf'[TTY] = mbuf[f],
             \A q \in Proc : q # f => callOf'[q] = callOf[q]
      PROVE  TtyInv'
  <2>1. f = FS
    <3>1. f # TTY
      BY <1>3, <1>8, ProcCalls
    <3>2. f \notin User
      <4>1. SUFFICES ASSUME f \in User PROVE FALSE
        OBVIOUS
      <4>2. UserIs(f) /\ stage[f] \in {"idle", "called", "waiting"}
        BY <4>1 DEF TtyInv, UserFits, TtyTypeOK
      <4>3. QED
        BY <1>8, <4>2, ProcCalls DEF UserIs
    <3>3. QED
      BY <3>1, <3>2, Parties
  <2>2. FsAsks /\ Resting /\ Owed(Reader)
    BY <1>2, <1>8, <2>1, FsSending
  <2>3. mbuf'[TTY] = Signed(FS, DevCall) /\ callOf'[TTY] = Unblocked /\ callOf'[FS] = Unblocked
    BY <1>2, <1>3, <1>8, <2>1, <2>2 DEF FsAsks
  <2>4. UserFits' /\ DevCall' = DevCall /\ \A q \in User : Owed(q)' <=> Owed(q)
    BY <1>1, <1>3, <1>8, <2>1, UsersSame, Parties
  <2>5. \A q \in User : ~ Serves(q) /\ ~ Serves(q)'
    BY <1>4, <2>2 DEF FsAsks, Serves, FsHolds, FsReplies
  <2>6. OthersServed'
    BY <2>4, <2>5, Parties DEF TtyInv, OthersServed
  <2>7. FsWaits' /\ TtyHas' /\ TtyCalls'
    BY <1>1, <1>4, <2>2, <2>3, <2>4 DEF FsAsks, FsWaits, TtyHas, TtyCalls
  <2>8. Conversation'
    BY <1>4, <2>2, <2>4, <2>7, Parties DEF Conversation, Resting, Asked
  <2>9. QED
    BY <1>3, <1>4, <1>6, <2>4, <2>6, <2>7, <2>8 DEF TtyInv
<1>9. QED
  BY <1>3, <1>7, <1>8

(* What TTY has got from FS is what FS waits for the answer to.            *)
LEMMA TtyGot ==
  ASSUME OneReader, TtyInv, NEW kind, Got(kind)
  PROVE  /\ callOf[TTY] = Unblocked /\ tty_pc = "dispatch"
         /\ mbuf[TTY].type = DevCall /\ DevCall \in Type /\ DevCall.kind = kind
         /\ Asked
<1>1. /\ Running(TTY) /\ tty_pc = "dispatch" /\ mbuf[TTY].type # HARD_INT
      /\ mbuf[TTY].type.kind = kind
  BY DEF Got
<1>2. callOf[TTY] = Unblocked
  BY <1>1, RunsIdle, Parties
<1>3. ~ TtyQuiet /\ ~ TtyReports /\ \A k : ~ TtyAnswers(k)
  BY <1>1, <1>2 DEF TtyQuiet, TtyReports, TtyAnswers
<1>4. Asked /\ TtyHas
  BY <1>3 DEF TtyInv, Conversation, Resting, Answered, Suspended, Asked
<1>5. mbuf[TTY].type = DevCall /\ DevCall \in Type
  BY <1>4, ReaderCall, SignedWords DEF TtyHas, Asked
<1>6. QED
  BY <1>1, <1>2, <1>4, <1>5

(* TTY's answer finds FS in its receive, or waits until FS comes there.    *)
LEMMA TtyAnswerDoes ==
  ASSUME OneReader, TtyInv, Asked, NEW m \in Type, msg_send(TTY, FS, m), tty_pc' = "scan",
         UNCHANGED <<userVars, fsVars>>
  PROVE  /\ IInv' /\ BufferHeld' /\ panic' = "none" /\ has_int_msg' = has_int_msg
         /\ UserFits' /\ TtyCalls' /\ OthersServed' /\ (Owed(Reader)' <=> Owed(Reader))
         /\ \/ FsTold(m.kind)' /\ TtyQuiet'
            \/ FsWaits' /\ fs_pc' = "await_tty" /\ TtyAnswers(m.kind)'
<1>1. TTY \in Proc /\ FS \in Proc /\ FS # TTY /\ TTY # ANY
  BY Parties
<1>2. \A w : callOf[FS] # SendTo(w)
  BY ProcCalls DEF Asked, FsWaits
<1>3. /\ IInv' /\ BufferHeld' /\ panic' = "none" /\ has_int_msg' = has_int_msg
      /\ callOf[TTY] = Unblocked
      /\ \A q \in Proc : q # TTY /\ q # FS => callOf'[q] = callOf[q] /\ mbuf'[q] = mbuf[q]
      /\ \/ /\ callOf[FS] \in {RecvFrom(TTY), RecvFrom(ANY)}
            /\ callOf'[FS] = Unblocked /\ mbuf'[FS] = Signed(TTY, m)
            /\ callOf'[TTY] = Unblocked
         \/ /\ callOf[FS] \notin {RecvFrom(TTY), RecvFrom(ANY)}
            /\ callOf'[TTY] = SendTo(FS) /\ mbuf'[TTY] = Signed(TTY, m)
            /\ callOf'[FS] = callOf[FS] /\ mbuf'[FS] = mbuf[FS]
  BY <1>1, <1>2, TtySends
<1>4. UserFits' /\ \A q \in User : Owed(q)' <=> Owed(q)
  BY <1>3, UsersSame, Parties
<1>5. UNCHANGED <<stage, request, fs_pc, fs_src>>
  BY DEF userVars, fsVars
<1>6. fs_src = Reader /\ fs_pc \in {"await_tty", "answered"}
  BY DEF Asked, FsWaits
<1>7. \A q \in User : ~ Serves(q) /\ ~ Serves(q)'
  BY <1>5, <1>6 DEF Serves, FsHolds, FsReplies
<1>8. OthersServed' /\ (Owed(Reader)' <=> Owed(Reader))
  BY <1>4, <1>7, Parties DEF TtyInv, OthersServed
<1>9. Signed(TTY, m).source = TTY /\ Signed(TTY, m).type = m
  BY SignedWords
<1>10. CASE callOf[FS] \in {RecvFrom(TTY), RecvFrom(ANY)}
  <2>1. fs_pc = "answered"
    BY <1>10, ProcCalls DEF Asked, FsWaits
  <2>2. FsTold(m.kind)'
    BY <1>3, <1>5, <1>6, <1>9, <1>10, <2>1 DEF FsTold, Tells
  <2>3. TtyQuiet' /\ TtyCalls'
    BY <1>3, <1>10, ProcCalls DEF TtyQuiet, TtyCalls
  <2>4. QED
    BY <1>3, <1>4, <1>8, <2>2, <2>3
<1>11. CASE callOf[FS] \notin {RecvFrom(TTY), RecvFrom(ANY)}
  <2>1. fs_pc = "await_tty" /\ callOf[FS] = Unblocked
    BY <1>11 DEF Asked, FsWaits
  <2>2. FsWaits' /\ fs_pc' = "await_tty"
    BY <1>3, <1>5, <1>6, <1>11, <2>1 DEF FsWaits
  <2>3. TtyAnswers(m.kind)' /\ TtyCalls'
    BY <1>3, <1>9, <1>11 DEF TtyAnswers, Tells, TtyCalls
  <2>4. QED
    BY <1>3, <1>4, <1>8, <2>2, <2>3
<1>12. QED
  BY <1>10, <1>11

(* An answer that ends the call: TTY has done what was asked.              *)
LEMMA TtyDone ==
  ASSUME OneReader, TtyInv, NEW kind, Got(kind), NEW m \in Type, m.kind = "SYSCALL_RET",
         TtyAnswer(m), UNCHANGED readVars
  PROVE  TtyInv'
<1>1. /\ tty_pc = "dispatch" /\ msg_send(TTY, FS, m) /\ tty_pc' = "scan"
      /\ UNCHANGED <<userVars, fsVars, kbVars, current_console, tty_at, ibuf>>
  BY DEF TtyAnswer
<1>2. Asked /\ NoRead /\ Owed(Reader)
  BY TtyGot DEF Asked
<1>3. /\ IInv' /\ BufferHeld' /\ panic' = "none" /\ has_int_msg' = has_int_msg
      /\ UserFits' /\ TtyCalls' /\ OthersServed' /\ Owed(Reader)'
      /\ \/ FsTold("SYSCALL_RET")' /\ TtyQuiet'
         \/ FsWaits' /\ fs_pc' = "await_tty" /\ TtyAnswers("SYSCALL_RET")'
  BY <1>1, <1>2, TtyAnswerDoes
<1>4. TtyTypeOK' /\ ReadFits' /\ NoRead' = NoRead
  BY <1>1, <1>3, TtyMoves
<1>5. Conversation'
  BY <1>2, <1>3, <1>4 DEF Conversation, Resting, Answered
<1>6. QED
  BY <1>3, <1>4, <1>5 DEF TtyInv

LEMMA TtyDoWriteInv == ASSUME OneReader, TtyInv, TtyDoWrite PROVE TtyInv'
<1>1. Got("DEV_WRITE") /\ TtyAnswer(SentBack("SYSCALL_RET")) /\ UNCHANGED readVars
  BY DEF TtyDoWrite
<1>2. mbuf[TTY].type \in Type /\ "SYSCALL_RET" \in Kind
  BY <1>1, TtyGot DEF Kind
<1>3. SentBack("SYSCALL_RET") \in Type /\ SentBack("SYSCALL_RET").kind = "SYSCALL_RET"
  BY <1>2, TypeWords DEF SentBack
<1>4. QED
  BY <1>1, <1>3, TtyDone

LEMMA TtyDoOpenInv == ASSUME OneReader, TtyInv, TtyDoOpen PROVE TtyInv'
<1>1. Got("DEV_OPEN") /\ TtyAnswer(Cleared) /\ UNCHANGED readVars
  BY DEF TtyDoOpen
<1>2. QED
  BY <1>1, RequestWords, TtyDone

(* The read begins, and its caller is to wait for it.                      *)
LEMMA TtyDoReadInv == ASSUME OneReader, TtyInv, TtyDoRead PROVE TtyInv'
<1>1. /\ Got("DEV_READ") /\ TtyAnswer(SentBack("SUSPEND_PROC"))
      /\ tty_procnr' = [tty_procnr EXCEPT ![mbuf[TTY].type.DEVICE] = mbuf[TTY].type.PROC_NR]
      /\ tty_left_cnt' = [tty_left_cnt EXCEPT ![mbuf[TTY].type.DEVICE] = mbuf[TTY].type.CNT]
      /\ tty_trans_cnt' = [tty_trans_cnt EXCEPT ![mbuf[TTY].type.DEVICE] = 0]
      /\ shown' = [shown EXCEPT ![mbuf[TTY].type.DEVICE] = 0]
  BY DEF TtyDoRead
<1>2. Asked /\ NoRead /\ Owed(Reader) /\ mbuf[TTY].type = DevCall /\ DevCall \in Type
      /\ DevCall.kind = "DEV_READ" /\ tty_pc = "dispatch"
  BY <1>1, TtyGot DEF Asked
<1>3. /\ request[Reader].kind = "READ" /\ DevCall.DEVICE = StdTty[Reader]
      /\ DevCall.PROC_NR = Reader /\ DevCall.CNT = MaxCnt
  BY <1>2, ReaderCall
<1>4. SentBack("SUSPEND_PROC") \in Type /\ SentBack("SUSPEND_PROC").kind = "SUSPEND_PROC"
  BY <1>2, TypeWords DEF SentBack, Kind
<1>5. /\ msg_send(TTY, FS, SentBack("SUSPEND_PROC")) /\ tty_pc' = "scan"
      /\ UNCHANGED <<userVars, fsVars, kbVars, current_console, tty_at, ibuf>>
  BY <1>1 DEF TtyAnswer
<1>6. /\ IInv' /\ BufferHeld' /\ panic' = "none" /\ has_int_msg' = has_int_msg
      /\ UserFits' /\ TtyCalls' /\ OthersServed' /\ Owed(Reader)'
      /\ \/ FsTold("SUSPEND_PROC")' /\ TtyQuiet'
         \/ FsWaits' /\ fs_pc' = "await_tty" /\ TtyAnswers("SUSPEND_PROC")'
  BY <1>2, <1>4, <1>5, TtyAnswerDoes
<1>7. UNCHANGED <<stage, request, fs_pc, fs_src, kb_in, key_pressed, current_console, tty_at, ibuf>>
  BY <1>5 DEF userVars, fsVars, kbVars
<1>8. /\ StdTty[Reader] \in Tty /\ Reader \in User /\ MaxCnt \in Nat /\ MaxCnt > 0
      /\ MaxCnt \in 0..MaxCnt /\ 0 \in 0..MaxCnt
  BY Parties, TtyAssumption
<1>9. /\ tty_procnr \in [Tty -> User \cup {NO_TASK}] /\ tty_left_cnt \in [Tty -> 0..MaxCnt]
      /\ tty_trans_cnt \in [Tty -> 0..MaxCnt] /\ shown \in [Tty -> 0..MaxCnt]
  BY DEF TtyInv, TtyTypeOK
<1>10. /\ tty_procnr' \in [Tty -> User \cup {NO_TASK}] /\ tty_procnr'[StdTty[Reader]] = Reader
       /\ tty_left_cnt' \in [Tty -> 0..MaxCnt] /\ tty_left_cnt'[StdTty[Reader]] = MaxCnt
       /\ tty_trans_cnt' \in [Tty -> 0..MaxCnt] /\ tty_trans_cnt'[StdTty[Reader]] = 0
       /\ shown' \in [Tty -> 0..MaxCnt] /\ shown'[StdTty[Reader]] = 0
       /\ \A t \in Tty : t # StdTty[Reader] => tty_left_cnt'[t] = tty_left_cnt[t]
  BY <1>1, <1>2, <1>3, <1>8, <1>9
<1>11. TtyTypeOK'
  BY <1>5, <1>6, <1>7, <1>10 DEF TtyInv, TtyTypeOK, IInv
<1>12. \A t \in Tty : tty_left_cnt'[t] > 0 => t = StdTty[Reader]
  BY <1>10 DEF TtyInv, ReadFits
<1>13. ReadFits' /\ ItReads'
  BY <1>3, <1>5, <1>7, <1>8, <1>10, <1>12 DEF ReadFits, ItReads, Reading
<1>14. Conversation'
  BY <1>6, <1>13 DEF Conversation, Answered, Suspended
<1>15. QED
  BY <1>6, <1>11, <1>13, <1>14 DEF TtyInv

(* The line or the buffer is full: TTY reports the read to FS.             *)
LEMMA TtyResumeInv == ASSUME OneReader, TtyInv, TtyResume PROVE TtyInv'
<1> DEFINE m == Body("RESUME_PROC", tty_at, tty_procnr[tty_at], tty_trans_cnt'[tty_at])
<1>1. /\ tty_pc = "echo" /\ tty_pc' = "resumed"
      /\ ibuf[tty_at] # <<>> /\ Echo(tty_at, Head(ibuf[tty_at]))
      /\ shown' = [shown EXCEPT ![tty_at] = 0]
      /\ msg_send(TTY, FS, m)
      /\ UNCHANGED <<userVars, fsVars, tty_procnr, current_console, tty_at, kb_in, key_pressed>>
  BY DEF TtyResume, Echo, kbVars
<1>2. /\ tty_at = StdTty[Reader] /\ tty_at \in Tty /\ ItReads
      /\ tty_procnr[tty_at] = Reader
      /\ ibuf' \in [Tty -> Seq(Char)] /\ \A t \in Tty : Len(ibuf'[t]) <= TTY_IN_BYTES
      /\ tty_trans_cnt' \in [Tty -> 0..MaxCnt] /\ tty_left_cnt' \in [Tty -> 0..MaxCnt]
      /\ \A t \in Tty : t # tty_at => tty_left_cnt'[t] = tty_left_cnt[t] /\ ~ (tty_left_cnt[t] > 0)
  BY <1>1, EchoDoes
<1>3. m \in Type /\ m.kind = "RESUME_PROC" /\ m.PROC_NR = Reader
  <2>1. "RESUME_PROC" \in Kind /\ Reader \in User /\ tty_trans_cnt'[tty_at] \in 0..MaxCnt
    BY <1>2, Parties DEF Kind
  <2>2. QED
    BY <1>2, <2>1, TypeWords, BodyWords
<1> HIDE DEF m
<1>4. /\ TTY \in Proc /\ FS \in Proc /\ FS # TTY /\ callOf[TTY] = Unblocked
  BY <1>1, Parties, RunsIdle DEF msg_send, SendDeadlock, SendHandOff, SendBlock
<1>5. TtyQuiet /\ ~ Resting /\ Suspended /\ Owed(Reader)
  <2>1. TtyQuiet /\ ~ Resting
    BY <1>1, <1>2, <1>4, ProcCalls, Parties DEF TtyQuiet, Resting, NoRead, ItReads
  <2>2. QED
    BY <2>1, TtyByItself DEF Suspended
<1>6. \A w \in Proc : callOf[FS] = SendTo(w) => w # TTY /\ \A x \in Proc : callOf[w] # SendTo(x)
  BY <1>5, FsSending
<1>7. /\ IInv' /\ BufferHeld' /\ panic' = "none" /\ has_int_msg' = has_int_msg
      /\ \A q \in Proc : q # TTY /\ q # FS => callOf'[q] = callOf[q] /\ mbuf'[q] = mbuf[q]
      /\ \/ /\ callOf[FS] \in {RecvFrom(TTY), RecvFrom(ANY)}
            /\ callOf'[FS] = Unblocked /\ mbuf'[FS] = Signed(TTY, m)
            /\ callOf'[TTY] = Unblocked
         \/ /\ callOf[FS] \notin {RecvFrom(TTY), RecvFrom(ANY)}
            /\ callOf'[TTY] = SendTo(FS) /\ mbuf'[TTY] = Signed(TTY, m)
            /\ callOf'[FS] = callOf[FS] /\ mbuf'[FS] = mbuf[FS]
  BY <1>1, <1>3, <1>4, <1>6, TtySends
<1>8. UNCHANGED <<stage, request, fs_pc, fs_src>>
  BY <1>1 DEF userVars, fsVars
<1>9. TtyTypeOK'
  <2>1. shown' \in [Tty -> 0..MaxCnt]
    BY <1>1, TtyAssumption DEF TtyInv, TtyTypeOK
  <2>2. QED
    BY <1>1, <1>2, <1>7, <1>8, <2>1 DEF TtyInv, TtyTypeOK, IInv
<1>10. NoRead' /\ ReadFits'
  <2>1. \A t \in Tty : ~ Reading(t)'
    BY <1>1, <1>2 DEF Reading
  <2>2. \A t \in Tty : tty_left_cnt'[t] > 0 => t = StdTty[Reader]
    BY <1>2
  <2>3. QED
    BY <1>1, <1>2, <2>1, <2>2 DEF NoRead, ReadFits
<1>11. UserFits' /\ \A q \in User : Owed(q)' <=> Owed(q)
  BY <1>1, <1>7, UsersSame, Parties
<1>12. Signed(TTY, m).source = TTY /\ Signed(TTY, m).type = m
  BY SignedWords
<1>13. CASE callOf[FS] \in {RecvFrom(TTY), RecvFrom(ANY)}
  <2>1. fs_pc = "dispatch" /\ \A q \in User : ~ Serves(q)
    BY <1>5, <1>13, ProcCalls, Parties
    DEF Suspended, FsElsewhere, FsFree, FsTold, Serves, FsHolds, FsReplies
  <2>2. FsResumes'
    BY <1>3, <1>7, <1>8, <1>12, <1>13, <2>1 DEF FsResumes, Tells
  <2>3. \A q \in User : ~ Serves(q)'
    BY <1>7, <1>8, <1>12, <1>13, <2>1, SignedWords, Parties DEF Serves, FsHolds, FsReplies
  <2>4. OthersServed'
    BY <1>11, <2>1, <2>3, Parties DEF TtyInv, OthersServed
  <2>5. TtyQuiet' /\ TtyCalls'
    BY <1>1, <1>7, <1>13, ProcCalls DEF TtyQuiet, TtyCalls
  <2>6. Conversation'
    BY <1>5, <1>10, <1>11, <2>2, <2>5, Parties DEF Conversation, Resting
  <2>7. QED
    BY <1>7, <1>9, <1>10, <1>11, <2>4, <2>5, <2>6 DEF TtyInv
<1>14. CASE callOf[FS] \notin {RecvFrom(TTY), RecvFrom(ANY)}
  <2>1. /\ OthersServed' /\ FsElsewhere' = FsElsewhere
        /\ FsTold("SUSPEND_PROC")' = FsTold("SUSPEND_PROC")
    BY <1>1, <1>7, <1>14, FsSame
  <2>2. TtyReports' /\ TtyCalls'
    BY <1>1, <1>3, <1>7, <1>12, <1>14 DEF TtyReports, Tells, TtyCalls
  <2>3. Conversation'
    BY <1>5, <1>10, <1>11, <2>1, <2>2, Parties DEF Conversation, Suspended
  <2>4. QED
    BY <1>7, <1>9, <1>10, <1>11, <2>1, <2>2, <2>3 DEF TtyInv
<1>15. QED
  BY <1>13, <1>14

(* The clock interrupt wakes TTY.                                          *)
LEMMA ClockTickInv == ASSUME OneReader, TtyInv, ClockTick PROVE TtyInv'
<1>1. inform_int(TTY) /\ UNCHANGED <<userVars, fsVars, kbVars, ttyVars>>
  BY DEF ClockTick
<1>2. TTY \in Proc /\ TTY \in IntTask /\ FS # TTY /\ FS \in Proc
  BY Parties
<1>3. IInv' /\ IntEffect(TTY) /\ [Next]_ipcVars
  BY <1>1, <1>2, IntDoes DEF TtyInv
<1>4. /\ BufferHeld' /\ panic' = "none"
      /\ \A q \in Proc : q # TTY => ~ has_int_msg'[q]
      /\ \A q \in Proc : q # TTY => callOf'[q] = callOf[q] /\ mbuf'[q] = mbuf[q]
      /\ \/ /\ callOf[TTY] \in {RecvFrom(INTERRUPT), RecvFrom(ANY)}
            /\ callOf'[TTY] = Unblocked /\ mbuf'[TTY] = Signed(INTERRUPT, HARD_INT)
         \/ callOf' = callOf /\ mbuf' = mbuf
  BY <1>2, <1>3, Domains, BufferHeldStep DEF IntEffect, TtyInv
<1>5. UNCHANGED <<stage, request, fs_pc, fs_src, kb_in, key_pressed, current_console, tty_pc,
                  tty_at, ibuf, tty_procnr, tty_left_cnt, tty_trans_cnt, shown>>
  BY <1>1 DEF userVars, fsVars, kbVars, ttyVars, readVars
<1>6. TtyTypeOK'
  BY <1>3, <1>5 DEF TtyInv, TtyTypeOK, IInv
<1>7. CASE callOf' = callOf /\ mbuf' = mbuf
  BY <1>1, <1>3, <1>4, <1>6, <1>7, ConversationSame DEF TtyInv
<1>8. CASE /\ callOf[TTY] \in {RecvFrom(INTERRUPT), RecvFrom(ANY)}
           /\ callOf'[TTY] = Unblocked /\ mbuf'[TTY] = Signed(INTERRUPT, HARD_INT)
  <2>1. TtyQuiet /\ callOf[TTY] # Unblocked
    BY <1>8, ProcCalls DEF TtyQuiet
  <2>2. Resting \/ (Suspended /\ ItReads /\ ~ TtyReports)
    BY <2>1, TtyByItself
  <2>3. /\ UserFits' /\ OthersServed' /\ FsElsewhere' = FsElsewhere /\ FsAsks' = FsAsks
        /\ FsResumes' = FsResumes /\ (\A k : FsTold(k)' = FsTold(k))
        /\ \A q \in User : (Owed(q)' <=> Owed(q)) /\ (Serves(q)' <=> Serves(q))
    BY <1>1, <1>4, FsSame
  <2>4. TtyQuiet' /\ TtyCalls'
    BY <1>8, SignedWords, ProcCalls DEF TtyQuiet, TtyCalls
  <2>5. NoRead' = NoRead /\ ItReads' = ItReads /\ ReadFits'
    BY <1>5 DEF NoRead, ItReads, Reading, TtyInv, ReadFits
  <2>6. Conversation'
    BY <2>2, <2>3, <2>4, <2>5, Parties DEF Conversation, Resting, Suspended
  <2>7. QED
    BY <1>3, <1>4, <1>6, <2>3, <2>4, <2>5, <2>6 DEF TtyInv
<1>9. QED
  BY <1>4, <1>7, <1>8

-----------------------------------------------------------------------------
(***************************************************************************)
(* The specification.                                                      *)
(***************************************************************************)
LEMMA TtyInitInv == ASSUME OneReader, TtyInit PROVE TtyInv
<1>1. /\ Init /\ stage = [p \in User |-> "idle"] /\ request = [p \in User |-> Cleared]
      /\ fs_pc = "receive" /\ fs_src = NobodyYet /\ kb_in = <<>> /\ key_pressed = FALSE
      /\ current_console = 0 /\ tty_pc = "drain" /\ tty_at = 0
      /\ ibuf = [t \in Tty |-> <<>>] /\ tty_procnr = [t \in Tty |-> NO_TASK]
      /\ tty_left_cnt = [t \in Tty |-> 0] /\ tty_trans_cnt = [t \in Tty |-> 0]
      /\ shown = [t \in Tty |-> 0]
  BY DEF TtyInit
<1>2. IInv /\ BufferHeld /\ panic = "none" /\ \A p \in Proc : p # TTY => ~ has_int_msg[p]
  BY <1>1, InitInv DEF Init, BufferHeld
<1>3. \A p \in Proc : callOf[p] = Unblocked
  BY <1>1, <1>2, CallIs DEF Init
<1>4. TtyTypeOK
  <2>1. 0 \in Tty /\ 0 \in 0..MaxCnt /\ KB_IN_BYTES \in Nat /\ TTY_IN_BYTES \in Nat
    BY TtyAssumption DEF Tty
  <2>2. <<>> \in Seq(Key) /\ <<>> \in Seq(Char) /\ Len(<<>>) = 0
    OBVIOUS
  <2>3. /\ stage \in [User -> {"idle", "called", "waiting"}]
        /\ \A p \in User : request[p] \in Requests(p) \cup {Cleared}
        /\ fs_pc \in {"receive", "dispatch", "await_tty", "answered"} /\ fs_src \in User
        /\ tty_pc \in {"scan", "drain", "echo", "resumed", "receive", "dispatch"}
    BY <1>1, Parties
  <2>4. /\ kb_in \in Seq(Key) /\ Len(kb_in) <= KB_IN_BYTES /\ key_pressed \in BOOLEAN
    <3>1. kb_in = <<>> /\ key_pressed = FALSE
      BY <1>1
    <3>2. Len(kb_in) = 0 /\ 0 <= KB_IN_BYTES
      BY <2>1, <2>2, <3>1
    <3>3. QED
      BY <2>2, <3>1, <3>2
  <2>6. ibuf \in [Tty -> Seq(Char)] /\ \A t \in Tty : Len(ibuf[t]) <= TTY_IN_BYTES
    <3>1. \A t \in Tty : ibuf[t] = <<>> /\ DOMAIN ibuf = Tty
      BY <1>1
    <3>2. 0 <= TTY_IN_BYTES
      BY <2>1
    <3>3. ibuf \in [Tty -> Seq(Char)]
      BY <1>1, <2>2
    <3>4. QED
      BY <2>2, <3>1, <3>2, <3>3
  <2>5. /\ tty_procnr \in [Tty -> User \cup {NO_TASK}] /\ tty_left_cnt \in [Tty -> 0..MaxCnt]
        /\ tty_trans_cnt \in [Tty -> 0..MaxCnt] /\ shown \in [Tty -> 0..MaxCnt]
        /\ current_console \in Tty /\ tty_at \in Tty
    BY <1>1, <2>1
  <2>7. QED
    BY <1>2, <2>3, <2>4, <2>5, <2>6 DEF TtyTypeOK, IInv
<1>5. UserFits
  BY <1>1, <1>3, Parties DEF UserFits, UserIs
<1>6. FsFree /\ TtyCalls /\ TtyQuiet
  BY <1>1, <1>3, ProcCalls, Parties DEF FsFree, TtyCalls, TtyQuiet
<1>7. NoRead /\ ReadFits
  BY <1>1 DEF NoRead, ReadFits, Reading
<1>8. \A p \in User : ~ Owed(p) /\ ~ Serves(p)
  BY <1>1, <1>3, ProcCalls, Parties DEF Owed, Serves, FsHolds, FsReplies
<1>9. Conversation /\ OthersServed
  BY <1>6, <1>7, <1>8, Parties DEF Conversation, Resting, FsElsewhere, OthersServed
<1>10. QED
  BY <1>2, <1>4, <1>5, <1>6, <1>7, <1>9 DEF TtyInv

LEMMA TtyStutterInv == ASSUME OneReader, TtyInv, UNCHANGED vars PROVE TtyInv'
<1>1. UNCHANGED <<ipcVars, userVars, fsVars, kbVars, ttyVars>>
  BY DEF vars
<1>2. /\ IInv' /\ BufferHeld' /\ panic' = "none"
      /\ callOf' = callOf /\ mbuf' = mbuf /\ has_int_msg' = has_int_msg
  BY <1>1, OwnStep
<1>3. TtyTypeOK'
  BY <1>1, <1>2 DEF TtyInv, TtyTypeOK, IInv, userVars, fsVars, kbVars, ttyVars, readVars
<1>4. QED
  BY <1>1, <1>2, <1>3, ConversationSame DEF TtyInv

LEMMA TtyStepInv == ASSUME OneReader, TtyInv, [SysNext]_vars PROVE TtyInv'
<1>1. CASE \E p \in User : UserSend(p) \/ UserAwait(p) \/ UserReturn(p)
  BY <1>1, UserSendInv, UserAwaitInv, UserReturnInv
<1>2. CASE FSNext
  BY <1>2, FSReceiveInv, FSCallTtyInv, FSAwaitTtyInv, FSReplyInv, FSSuspendInv DEF FSNext
<1>3. CASE TtyScan \/ TtyTakeKey \/ TtyDrained \/ TtyEcho \/ TtyResume \/ TtyResumed
  BY <1>3, TtyScanInv, TtyTakeKeyInv, TtyDrainedInv, TtyEchoInv, TtyResumeInv, TtyResumedInv
<1>4. CASE \/ TtyDrop \/ TtyNextTerminal
           \/ TtyReceive \/ TtyHardInt \/ TtyDoRead \/ TtyDoWrite \/ TtyDoOpen
  BY <1>4, TtyDropInv, TtyNextTerminalInv, TtyReceiveInv, TtyHardIntInv, TtyDoReadInv,
     TtyDoWriteInv, TtyDoOpenInv
<1>5. CASE \E k \in Typed : KeyPress(k)
  BY <1>5, KeyPressInv
<1>6. CASE ClockTick
  BY <1>6, ClockTickInv
<1>7. CASE UNCHANGED vars
  BY <1>7, TtyStutterInv
<1>8. QED
  BY <1>1, <1>2, <1>3, <1>4, <1>5, <1>6, <1>7 DEF SysNext, TtyNext


(* At every step the call of each program is where the invariant says.     *)
THEOREM TtyInvariance == ASSUME OneReader PROVE TtySpec => []TtyInv
<1>1. TtyInit => TtyInv
  BY TtyInitInv
<1>2. TtyInv /\ [SysNext]_vars => TtyInv'
  BY TtyStepInv
<1>3. QED
  BY <1>1, <1>2, PTL DEF TtySpec

(* With one program that uses the terminals no circle of senders forms     *)
(* between TTY and FS (kernel/tty.c, fs/read_write.c), no assert() of the  *)
(* message kernel fails, and the counts and rings stay in their bounds.    *)
THEOREM TtyNeverPanics == ASSUME OneReader PROVE TtySpec => []TtyNoPanic
<1>1. TtyInv => TtyNoPanic
  BY DEF TtyInv, TtyNoPanic
<1>2. QED
  BY <1>1, TtyInvariance, PTL

(* tty_dev_write copies only for a process that waits in that very read(), *)
(* and FS sends an answer only to a process that waits for one.            *)
THEOREM OnlyReadersServed == ASSUME OneReader PROVE TtySpec => []ReaderWaits
<1>1. ASSUME TtyInv PROVE ReaderWaits
  <2>1. ASSUME NEW p \in User, Owed(p)
        PROVE  InCall(p) /\ request[p] # Cleared /\ request[p] \in Requests(p)
    <3>1. UserIs(p) /\ stage[p] \in {"called", "waiting"}
      BY <1>1, <2>1 DEF TtyInv, UserFits, Owed
    <3>2. request[p] \in Requests(p)
      BY <3>1 DEF UserIs
    <3>3. stage[p] = "waiting" => RECEIVING \in p_flags[p]
      BY <1>1, <2>1, CallIs, Parties DEF Owed, TtyInv
    <3>4. QED
      BY <3>1, <3>2, <3>3, RequestWords DEF InCall
  <2>2. ASSUME NEW t \in Tty, Reading(t)
        PROVE  LET p == tty_procnr[t]
               IN  InCall(p) /\ request[p].kind = "READ" /\ request[p].DEVICE = t
    <3>1. /\ tty_procnr[t] = Reader /\ request[Reader].kind = "READ"
          /\ t = StdTty[Reader]
      BY <1>1, <2>2 DEF TtyInv, ReadFits, Reading
    <3>2. Owed(Reader)
      BY <1>1, <2>2 DEF TtyInv, Conversation, Resting, Asked, Answered, Suspended, NoRead
    <3>3. QED
      BY <2>1, <3>1, <3>2, RequestWords, Parties
  <2>3. ASSUME NEW p \in User, Sends(FS, p) PROVE InCall(p) /\ request[p] # Cleared
    <3>1. callOf[FS] = SendTo(p)
      BY <1>1, <2>3, CallIs, Parties DEF TtyInv
    <3>2. QED
      BY <1>1, <2>1, <3>1, FsSending, Parties
  <2>4. QED
    BY <2>2, <2>3 DEF ReaderWaits
<1>2. QED
  BY <1>1, TtyInvariance, PTL

(* The copy stays inside the caller's buffer, and the screen shows what    *)
(* the caller will get: backspace never erases what was there before.      *)
THEOREM ScreenShowsTheRead == ASSUME OneReader PROVE TtySpec => []EchoIsRead
<1>1. ASSUME TtyInv PROVE EchoIsRead
  <2>1. SUFFICES ASSUME NEW t \in Tty, Reading(t)
                 PROVE  /\ tty_trans_cnt[t] \in 0..request[tty_procnr[t]].CNT
                        /\ tty_trans_cnt[t] + tty_left_cnt[t] = request[tty_procnr[t]].CNT
                        /\ shown[t] = tty_trans_cnt[t]
    BY DEF EchoIsRead
  <2>2. /\ tty_procnr[t] = Reader /\ tty_trans_cnt[t] + tty_left_cnt[t] = MaxCnt
        /\ shown[t] = tty_trans_cnt[t] /\ tty_trans_cnt[t] \in 0..MaxCnt
    BY <1>1, <2>1 DEF TtyInv, ReadFits, TtyTypeOK
  <2>3. Owed(Reader)
    BY <1>1, <2>1 DEF TtyInv, Conversation, Resting, Asked, Answered, Suspended, NoRead
  <2>4. request[Reader].CNT = MaxCnt
    BY <1>1, <2>3, ReaderCall, RequestWords
  <2>5. QED
    BY <2>2, <2>4
<1>2. QED
  BY <1>1, TtyInvariance, PTL

=============================================================================
