--------------------------- MODULE HdDriver_proofs ---------------------------
(***************************************************************************)
(* Proofs about HdDriver, for every partition, every size of a request and *)
(* every timeout: the driver never fails an assert() of the message kernel *)
(* nor finds an interrupt of its disk in its main loop, it gives the disk  *)
(* up only when HD_TIMEOUT has gone by or the ticks began again from 0     *)
(* while it waited, and a transfer that is answered has moved just the     *)
(* sectors it was for.                                                     *)
(***************************************************************************)
EXTENDS HdDriver, IPC_proofs

-----------------------------------------------------------------------------
(***************************************************************************)
(* The inductive invariant: where the three tasks stand in their           *)
(* conversation, what the disk is doing meanwhile, and how much of the     *)
(* transfer is done.                                                       *)
(***************************************************************************)

(* HD works on a request that it has taken from FS.                        *)
Handled == {"next", "ask", "hear", "heard", "cmd_out", "int_wait", "int_got",
            "port_write", "panic"}

HdCommand == [command : {"IDENTIFY", "READ", "WRITE"}, sect : Nat, count : 1..MaxCnt]

HdTypes ==
  /\ fs_pc \in {"open", "ready", "asked", "waiting"}
  /\ request \in Transfers \cup {NoRequest, Request("DEV_OPEN", 0, 0)}
  /\ fsbuf \in [1..MaxCnt -> Content] /\ disk \in [Sector -> Content]
  /\ hd_pc \in Handled \cup {"receive", "dispatch"}
  /\ todo \in Seq(HdCommand)
  /\ left \in 0..MaxCnt /\ base \in {0, NrTables} /\ want \in {"BSY", "DRQ"}
  /\ since \in {NotYet} \cup 0..MAX_TICKS - 1 /\ told \in 0..MAX_TICKS - 1
  /\ sys_pc \in {"receive", "answer"}
  /\ ticks \in 0..MAX_TICKS - 1 /\ waited \in Nat
  /\ dev \in {"idle", "busy", "drq"} /\ dev_left \in 0..COUNTS
  /\ dev_sect \in Nat /\ intrq \in BOOLEAN

(* FS and HD meet twice for a request: between the two, HD handles it.     *)
Between ==   \* HD has nothing to do: FS has not asked, or has its answer
  /\ hd_pc = "receive" /\ callOf[HD] = Unblocked
  /\ callOf[FS] = IF fs_pc = "asked" THEN SendTo(HD) ELSE Unblocked
Listening ==
  /\ hd_pc = "dispatch" /\ callOf[HD] = RecvFrom(ANY)
  /\ fs_pc # "asked" /\ callOf[FS] = Unblocked
Handling ==
  /\ \/ hd_pc = "dispatch" /\ callOf[HD] = Unblocked /\ mbuf[HD].type # HARD_INT
     \/ hd_pc \in Handled
  /\ \/ fs_pc = "asked" /\ callOf[FS] = Unblocked
     \/ fs_pc = "waiting" /\ callOf[FS] = RecvFrom(HD)
Answering ==
  /\ hd_pc = "receive" /\ callOf[HD] = SendTo(FS)
  /\ fs_pc = "asked" /\ callOf[FS] = Unblocked

FsMeets == Between \/ Listening \/ Handling \/ Answering

(* HD asks SYS for the ticks, and waits for an interrupt, by itself.       *)
SysRests == \/ sys_pc = "receive" /\ callOf[SYS] = Unblocked
            \/ sys_pc = "answer" /\ callOf[SYS] = RecvFrom(ANY)
SysKnows == sys_pc = "answer" /\ callOf[SYS] = Unblocked /\ mbuf[SYS].source = HD
SysWaits == sys_pc = "receive" /\ callOf[SYS] = SendTo(HD)

SysMeets ==
  CASE hd_pc = "hear" ->
         \/ callOf[HD] = SendTo(SYS) /\ sys_pc = "receive" /\ callOf[SYS] = Unblocked
         \/ callOf[HD] = Unblocked /\ (SysKnows \/ SysWaits)
    [] hd_pc = "heard" ->
         \/ callOf[HD] = RecvFrom(SYS) /\ SysKnows
         \/ callOf[HD] = Unblocked /\ SysRests
    [] hd_pc = "int_got" ->
         callOf[HD] \in {Unblocked, RecvFrom(INTERRUPT)} /\ SysRests
    [] hd_pc \in {"receive", "dispatch"} -> SysRests
    [] OTHER -> callOf[HD] = Unblocked /\ SysRests

(* What is left to do of the request that HD handles.                      *)
TodoFits ==
  hd_pc \in Handled =>
    /\ hd_pc # "next" => todo # <<>>
    /\ request \in Transfers => base = NrTables /\ todo \in {<<>>, <<hd_rdwt(request)>>}
    /\ request.type = "DEV_OPEN" =>
         \A i \in DOMAIN todo : todo[i].command # "WRITE" /\ todo[i].count = 1
    /\ request.type = "DEV_IOCTL" => todo = <<>>

(* The partition's place is known once the disk has been opened.           *)
Opening ==
  /\ request.type = "DEV_OPEN" /\ fs_pc \in {"asked", "waiting"}
  /\ \/ callOf[FS] = SendTo(HD)
     \/ hd_pc = "dispatch" /\ callOf[HD] = Unblocked
     \/ hd_pc \in Handled /\ todo # <<>>
BaseKnown == base = NrTables \/ fs_pc = "open" \/ Opening

(***************************************************************************)
(* The disk is idle unless a command has been issued.  Then it is at the   *)
(* sector that HD is at, or one further if that one has been written; it   *)
(* never gets to the sectors that its byte of a count does not count.      *)
(***************************************************************************)
cmd == Head(todo)
uncounted == cmd.count - Byte(cmd.count)
Polling == hd_pc \in {"ask", "hear", "heard", "panic"}
Issued == hd_pc \in {"int_wait", "int_got", "port_write"} \/ (Polling /\ want = "DRQ")
Awaits == hd_pc = "int_wait" \/ (hd_pc = "int_got" /\ callOf[HD] = RecvFrom(INTERRUPT))

NoNotice  == ~ intrq /\ ~ has_int_msg[HD]
OneNotice == intrq <=> ~ has_int_msg[HD]

Before == /\ dev_left = left - uncounted
          /\ dev_left > 0 => dev_sect = cmd.sect + cmd.count - left
After  == /\ dev_left = left - uncounted - 1
          /\ dev_left > 0 => dev_sect = cmd.sect + cmd.count - left + 1

DevReads ==
  /\ hd_pc \in {"int_wait", "int_got"} /\ Before
  /\ \/ dev = "busy" /\ dev_left > 0 /\ Awaits /\ NoNotice
     \/ dev = "drq" /\ dev_left > 0 /\ Awaits /\ OneNotice
     \/ dev = "drq" /\ dev_left > 0 /\ ~ Awaits /\ NoNotice
     \/ dev = "idle" /\ dev_left = 0 /\ Awaits /\ NoNotice
DevAccepts ==
  /\ Polling \/ hd_pc = "port_write"
  /\ Before /\ NoNotice
  /\ \/ dev = "busy" /\ dev_data = Garbage /\ dev_left > 0 /\ Polling
     \/ dev = "drq" /\ dev_left > 0
     \/ dev = "idle" /\ dev_left = 0 /\ Polling
DevStores ==
  /\ Awaits /\ Before /\ NoNotice
  /\ dev = "busy" /\ dev_left > 0 /\ dev_data = fsbuf[At]
DevStored ==
  /\ hd_pc \in {"int_wait", "int_got"} /\ After
  /\ dev = IF dev_left > 0 THEN "drq" ELSE "idle"
  /\ disk[cmd.sect + cmd.count - left] = fsbuf[At]
  /\ IF Awaits THEN OneNotice ELSE NoNotice

DevFollows ==
  IF Issued
    THEN /\ dev_cmd = cmd.command /\ left \in 1..cmd.count
         /\ IF cmd.command = "WRITE" THEN DevAccepts \/ DevStores \/ DevStored
                                     ELSE DevReads
    ELSE dev = "idle" /\ NoNotice

(* What has been transferred.                                              *)
Copied(k) == \A i \in 1..k : fsbuf[i] = disk[NrTables + request.sect + i - 1]
Answered == Answering \/ (fs_pc = "waiting" /\ callOf[FS] = Unblocked)
DataCopied ==
  request \in Transfers =>
    /\ Issued => Copied(request.cnt - left)
    /\ (hd_pc = "next" /\ todo = <<>>) \/ Answered => Copied(request.cnt)
    /\ request.type = "DEV_WRITE" /\ fs_pc \in {"asked", "waiting"} =>
         \A i \in 1..request.cnt : fsbuf[i] \in Value

(* waited has seen the ticks since t was told, whether HD has it already   *)
(* or not.                                                                 *)
ToldFirst == \/ hd_pc = "hear" /\ callOf[SYS] = SendTo(HD)
             \/ hd_pc = "heard" /\ callOf[HD] = Unblocked
TimeSeen ==
  /\ since # NotYet => /\ Polling
                       /\ \/ Overdue(waited)
                          \/ ticks <= since + waited /\ told <= since + waited
  /\ since = NotYet /\ ToldFirst => Overdue(waited) \/ ticks <= told + waited
  /\ hd_pc = "panic" => Overdue(waited) \/ told < since

HdInv ==
  /\ IInv /\ BufferHeld /\ panic = "none"
  /\ ~ has_int_msg[FS] /\ ~ has_int_msg[SYS]
  /\ HdTypes /\ FsMeets /\ SysMeets /\ TodoFits /\ BaseKnown
  /\ DevFollows /\ DataCopied /\ TimeSeen

-----------------------------------------------------------------------------
(* The tasks and the calls that they make are told apart.                  *)
LEMMA Tasks ==
  /\ FS \in Proc /\ HD \in Proc /\ SYS \in Proc /\ HD \in IntTask
  /\ FS # HD /\ HD # SYS /\ SYS # FS
  /\ \A p \in Proc : p # ANY /\ p # INTERRUPT
  /\ ANY # INTERRUPT
  /\ {"DEV_OPEN", "DEV_READ", "DEV_WRITE", "DEV_IOCTL", "GET_TICKS"} = Type
  /\ INTERRUPT \in Proc \cup {ANY, INTERRUPT} /\ ANY \in Proc \cup {ANY, INTERRUPT}
BY HdAssumption, NumberAssumption

LEMMA TaskCalls ==
  /\ \A p : Unblocked # SendTo(p) /\ Unblocked # RecvFrom(p)
  /\ \A p, q : SendTo(p) # RecvFrom(q)
  /\ SendTo(FS) # SendTo(HD) /\ SendTo(FS) # SendTo(SYS) /\ SendTo(HD) # SendTo(SYS)
  /\ RecvFrom(FS) # RecvFrom(HD) /\ RecvFrom(FS) # RecvFrom(SYS)
  /\ RecvFrom(HD) # RecvFrom(SYS) /\ RecvFrom(ANY) # RecvFrom(INTERRUPT)
  /\ \A p \in Proc : RecvFrom(p) # RecvFrom(ANY) /\ RecvFrom(p) # RecvFrom(INTERRUPT)
<1>1. \A s, r : RecvFrom(s) = RecvFrom(r) => s = r
  BY CallsDiffer
<1>2. \A s, r : SendTo(s) = SendTo(r) => s = r
  BY CallsDiffer
<1>3. \A p : Unblocked # SendTo(p) /\ Unblocked # RecvFrom(p)
  BY CallsDiffer
<1>4. \A p, q : SendTo(p) # RecvFrom(q)
  BY CallsDiffer
<1>5. QED
  BY <1>1, <1>2, <1>3, <1>4, Tasks

(* callOf is known process by process.                                     *)
LEMMA CallDomain == DOMAIN callOf = Proc /\ DOMAIN callOf' = Proc
BY DEF callOf

(* A step of a task's own code, no call of the kernel.                     *)
LEMMA LocalStep ==
  ASSUME HdInv, UNCHANGED ipcVars
  PROVE  /\ IInv' /\ BufferHeld' /\ panic' = "none"
         /\ callOf' = callOf /\ mbuf' = mbuf /\ has_int_msg' = has_int_msg
<1>1. IInv' /\ BufferHeld'
  BY StepInv, BufferHeldStep DEF HdInv
<1>2. QED
  BY <1>1 DEF HdInv, ipcVars, callOf

LEMMA RunsFree ==
  ASSUME HdInv, NEW p \in Proc, Running(p)
  PROVE  callOf[p] = Unblocked
BY CallIs DEF HdInv, Running

LEMMA FSAnsweredInv == HdInv /\ FSAnswered => HdInv'
<1> SUFFICES ASSUME HdInv, FSAnswered PROVE HdInv'
  OBVIOUS
<1>1. /\ IInv' /\ BufferHeld' /\ panic' = "none"
      /\ callOf' = callOf /\ mbuf' = mbuf /\ has_int_msg' = has_int_msg
  BY LocalStep DEF FSAnswered
<1>2. callOf[FS] = Unblocked
  BY RunsFree, Tasks DEF FSAnswered
<1>3. HdTypes'
  BY DEF HdInv, HdTypes, FSAnswered, hdVars, sysVars, clkVars, devVars, Content
<1>4. FsMeets' /\ (Between \/ Listening)
  BY <1>1, <1>2, Tasks, TaskCalls
  DEF HdInv, FsMeets, Between, Listening, Handling, Answering, FSAnswered, hdVars
<1>5. SysMeets'
  BY <1>1 DEF HdInv, SysMeets, SysRests, SysKnows, SysWaits, FSAnswered, hdVars, sysVars
<1>6. TodoFits' /\ BaseKnown'
  BY <1>1, <1>2, <1>4, Tasks, TaskCalls
  DEF HdInv, TodoFits, BaseKnown, Opening, FSAnswered, hdVars, hdVars, Between, Listening,
      Handled
<1>7. DevFollows'
  BY <1>1, <1>4 DEF HdInv, DevFollows, Issued, Polling, NoNotice, FSAnswered, hdVars,
    devVars, Between, Listening
<1>8. DataCopied'
  BY <1>1, <1>4, Tasks, TaskCalls
  DEF DataCopied, Issued, Polling, Answered, Answering, Between, Listening, FSAnswered, hdVars
<1>9. TimeSeen'
  BY <1>1 DEF HdInv, TimeSeen, ToldFirst, Overdue, Polling, FSAnswered, hdVars, sysVars, clkVars
<1>10. QED
  BY <1>1, <1>3, <1>4, <1>5, <1>6, <1>7, <1>8, <1>9 DEF HdInv

LEMMA ClockInv == HdInv /\ clock_handler => HdInv'
<1> SUFFICES ASSUME HdInv, clock_handler PROVE HdInv'
  OBVIOUS
<1> USE DEF clock_handler, fsVars, hdVars, sysVars, devVars
<1>1. /\ IInv' /\ BufferHeld' /\ panic' = "none"
      /\ callOf' = callOf /\ mbuf' = mbuf /\ has_int_msg' = has_int_msg
  BY LocalStep
<1>2. /\ ticks \in Nat /\ waited \in Nat
      /\ ticks' \in 0..MAX_TICKS - 1 /\ ticks' <= ticks + 1
      /\ waited' \in Nat
      /\ waited' = IF hd_pc \notin {"ask", "hear", "heard"} \/ Overdue(waited)
                    THEN waited ELSE waited + 1
  <2>1. MAX_TICKS \in Nat \ {0}
    BY HdAssumption
  <2>2. ticks \in 0..MAX_TICKS - 1 /\ waited \in Nat
    BY DEF HdInv, HdTypes
  <2>3. (ticks + 1) % MAX_TICKS = IF ticks + 1 = MAX_TICKS THEN 0 ELSE ticks + 1
    BY <2>1, <2>2
  <2>4. QED
    BY <2>1, <2>2, <2>3
<1>3. HdTypes'
  BY <1>2 DEF HdInv, HdTypes
<1>4. FsMeets' /\ SysMeets'
  BY <1>1 DEF HdInv, FsMeets, Between, Listening, Handling, Answering,
     SysMeets, SysRests, SysKnows, SysWaits
<1>5. TodoFits' /\ BaseKnown'
  BY <1>1 DEF HdInv, TodoFits, BaseKnown, Opening, hd_rdwt
<1>6. DevFollows'
  BY <1>1 DEF HdInv, DevFollows, Issued, Polling, NoNotice, OneNotice, Awaits,
     cmd, uncounted, Before, After, DevReads, DevAccepts, DevStores, DevStored, At
<1>7. DataCopied'
  BY <1>1 DEF HdInv, DataCopied, Copied, Issued, Polling, Answered, Answering
<1>8. TimeSeen'
  <2>1. told \in Nat /\ since \in {NotYet} \cup Nat
    BY DEF HdInv, HdTypes
  <2>2. hd_pc # "panic"
    BY DEF Up
  <2>3. waited' = waited => Overdue(waited)' = Overdue(waited)
    BY DEF Overdue
  <2>4. QED
    BY <1>1, <1>2, <2>1, <2>2, <2>3 DEF HdInv, TimeSeen, ToldFirst, Polling
<1>9. QED
  BY <1>1, <1>3, <1>4, <1>5, <1>6, <1>7, <1>8 DEF HdInv

LEMMA HDDispatchInv == HdInv /\ HDDispatch => HdInv'
<1> SUFFICES ASSUME HdInv, HDDispatch PROVE HdInv'
  OBVIOUS
<1> USE DEF HDDispatch, fsVars, sysVars, clkVars, devVars
<1>1. /\ IInv' /\ BufferHeld' /\ panic' = "none"
      /\ callOf' = callOf /\ mbuf' = mbuf /\ has_int_msg' = has_int_msg
  BY LocalStep
<1>2. callOf[HD] = Unblocked
  BY RunsFree, Tasks
<1>3. Handling /\ mbuf[HD].type # HARD_INT /\ fs_pc \in {"asked", "waiting"}
  BY <1>2, TaskCalls DEF HdInv, FsMeets, Between, Listening, Handling, Handled, Answering
<1>4. hd_pc' = "next" /\ todo' = Commands(request)
  BY <1>3
<1>5. fs_pc # "open" /\ callOf[FS] # SendTo(HD)
  BY <1>3, TaskCalls DEF Handling
<1>6. /\ request \in Transfers \cup {NoRequest, Request("DEV_OPEN", 0, 0)}
      /\ MaxCnt \in Nat \ {0} /\ NrTables \in Nat \ {0} /\ NrSects \in Nat
      /\ base \in {0, NrTables}
  BY HdAssumption DEF HdInv, HdTypes
<1>7. ASSUME request \in Transfers
      PROVE  /\ base = NrTables /\ todo' = <<hd_rdwt(request)>>
             /\ hd_rdwt(request) \in HdCommand /\ hd_rdwt(request)' = hd_rdwt(request)
             /\ request.type \in {"DEV_READ", "DEV_WRITE"}
  <2>1. /\ request.type \in {"DEV_READ", "DEV_WRITE"}
        /\ request.sect \in Nat /\ request.cnt \in 1..MaxCnt
    BY <1>6, <1>7 DEF Transfers
  <2>2. todo' = <<hd_rdwt(request)>>
    BY <1>4, <1>7, <2>1 DEF Commands
  <2>3. base = NrTables
    BY <1>5, <2>1 DEF HdInv, BaseKnown, Opening
  <2>4. hd_rdwt(request) \in HdCommand
    BY <1>6, <2>1 DEF hd_rdwt, Command, HdCommand
  <2>5. QED
    BY <2>1, <2>2, <2>3, <2>4 DEF hd_rdwt
<1>8. ASSUME request = Request("DEV_OPEN", 0, 0)
      PROVE  /\ request.type = "DEV_OPEN" /\ request \notin Transfers
             /\ todo' \in Seq(HdCommand) /\ todo' # <<>>
             /\ \A i \in DOMAIN todo' : todo'[i].command # "WRITE" /\ todo'[i].count = 1
  <2>1. request.type = "DEV_OPEN" /\ request \notin Transfers
    BY <1>8 DEF Request, Transfers
  <2>2. todo' = hd_open
    BY <1>4, <2>1 DEF Commands
  <2>3. hd_identify \in HdCommand /\ hd_identify.command = "IDENTIFY" /\ hd_identify.count = 1
    BY <1>6 DEF hd_identify, HdCommand, Command
  <2>4. \A k \in 1..NrTables : /\ get_part_table(k) \in HdCommand
                               /\ get_part_table(k).command = "READ"
                               /\ get_part_table(k).count = 1
    BY <1>6 DEF get_part_table, HdCommand, Command
  <2>5. partition \in Seq(HdCommand) /\ Len(partition) = NrTables
        /\ \A k \in 1..NrTables : partition[k] = get_part_table(k)
    BY <2>4, <1>6 DEF partition
  <2> HIDE DEF partition
  <2>6. <<hd_identify>> \in Seq(HdCommand) /\ Len(<<hd_identify>>) = 1
        /\ <<hd_identify>>[1] = hd_identify
    BY <2>3
  <2>7. /\ hd_open \in Seq(HdCommand) /\ Len(hd_open) = 1 + NrTables
        /\ \A i \in 1..1 + NrTables :
              hd_open[i] = IF i <= 1 THEN <<hd_identify>>[i] ELSE partition[i - 1]
    BY <2>5, <2>6, ConcatProperties, Zenon DEF hd_open
  <2> HIDE DEF hd_open
  <2>8. ASSUME NEW i \in DOMAIN hd_open
        PROVE  hd_open[i].command # "WRITE" /\ hd_open[i].count = 1
    <3>1. i \in 1..1 + NrTables
      BY <2>7
    <3>2. CASE i = 1
      BY <3>1, <3>2, <2>3, <2>6, <2>7, <1>6
    <3>3. CASE i # 1
      <4>1. i - 1 \in 1..NrTables
        BY <3>1, <3>3, <1>6
      <4>2. hd_open[i] = get_part_table(i - 1)
        BY <3>1, <3>3, <4>1, <2>5, <2>7, <1>6
      <4>3. QED
        BY <4>1, <4>2, <2>4
    <3>4. QED
      BY <3>2, <3>3
  <2>9. hd_open # <<>>
    BY <2>7, <1>6
  <2>10. QED
    BY <2>1, <2>2, <2>7, <2>8, <2>9
<1>9. ASSUME request = NoRequest
      PROVE  request.type = "DEV_IOCTL" /\ todo' = <<>> /\ request \notin Transfers
  <2>1. request.type = "DEV_IOCTL" /\ request \notin Transfers
    BY <1>9 DEF NoRequest, Request, Transfers
  <2>2. QED
    BY <1>4, <2>1 DEF Commands
<1>10. todo' \in Seq(HdCommand)
  <2>1. \A c \in HdCommand : <<c>> \in Seq(HdCommand)
    OBVIOUS
  <2>2. CASE request \in Transfers
    BY <2>1, <2>2, <1>7
  <2>3. CASE request = NoRequest
    BY <2>3, <1>9
  <2>4. QED
    BY <2>2, <2>3, <1>6, <1>8
<1>11. HdTypes'
  BY <1>4, <1>10 DEF HdInv, HdTypes, Handled
<1>12. FsMeets' /\ SysMeets'
  BY <1>1, <1>2, <1>3, <1>4, TaskCalls DEF HdInv, FsMeets, Handling, Handled,
     SysMeets, SysRests, SysKnows, SysWaits
<1>13. TodoFits'
  BY <1>4, <1>6, <1>7, <1>8, <1>9 DEF TodoFits
<1>14. BaseKnown'
  BY <1>1, <1>3, <1>4, <1>5, <1>6, <1>7, <1>8, <1>9 DEF HdInv, BaseKnown, Opening, Handled
<1>15. DevFollows'
  BY <1>1, <1>4 DEF HdInv, DevFollows, Issued, Polling, NoNotice
<1>16. DataCopied'
  BY <1>1, <1>3, <1>4, <1>6, <1>7, <1>8, <1>9, TaskCalls
  DEF HdInv, DataCopied, Issued, Polling, Answered, Answering, Handling
<1>17. TimeSeen'
  BY <1>1, <1>4 DEF HdInv, TimeSeen, ToldFirst, Overdue, Polling
<1>18. QED
  BY <1>1, <1>11, <1>12, <1>13, <1>14, <1>15, <1>16, <1>17 DEF HdInv

-----------------------------------------------------------------------------
(* The command that HD is at.                                              *)
LEMMA CurrentCommand ==
  ASSUME HdInv, hd_pc \in Handled, todo # <<>>
  PROVE  /\ cmd \in HdCommand /\ cmd = todo[1]
         /\ Tail(todo) \in Seq(HdCommand) /\ Len(todo) \in Nat \ {0}
         /\ \A i \in DOMAIN Tail(todo) : i + 1 \in DOMAIN todo /\ Tail(todo)[i] = todo[i + 1]
         /\ request \in Transfers =>
              /\ base = NrTables /\ Tail(todo) = <<>>
              /\ request.type \in {"DEV_READ", "DEV_WRITE"}
              /\ cmd.command = IF request.type = "DEV_READ" THEN "READ" ELSE "WRITE"
              /\ cmd.count = request.cnt /\ cmd.sect = NrTables + request.sect
              /\ request.cnt \in 1..MaxCnt /\ request.sect \in Nat
              /\ request.sect + request.cnt <= NrSects
         /\ request \notin Transfers =>
              request.type = "DEV_OPEN" /\ cmd.command # "WRITE" /\ cmd.count = 1
<1>1. todo \in Seq(HdCommand)
  BY DEF HdInv, HdTypes
<1>2. /\ cmd \in HdCommand /\ cmd = todo[1] /\ 1 \in DOMAIN todo
      /\ Tail(todo) \in Seq(HdCommand) /\ Len(todo) \in Nat \ {0}
      /\ \A i \in DOMAIN Tail(todo) : i + 1 \in DOMAIN todo /\ Tail(todo)[i] = todo[i + 1]
  BY <1>1 DEF cmd
<1>3. CASE request \in Transfers
  <2>1. base = NrTables /\ todo = <<hd_rdwt(request)>>
    BY <1>3 DEF HdInv, TodoFits
  <2>2. cmd = hd_rdwt(request) /\ Tail(todo) = <<>>
    BY <2>1 DEF cmd
  <2>3. QED
    BY <1>2, <1>3, <2>1, <2>2, HdAssumption DEF hd_rdwt, Command, Transfers
<1>4. CASE request \notin Transfers
  <2>1. request \in {NoRequest, Request("DEV_OPEN", 0, 0)}
    BY <1>4 DEF HdInv, HdTypes
  <2>2. request.type = "DEV_OPEN"
    BY <2>1 DEF NoRequest, Request, HdInv, TodoFits
  <2>3. cmd.command # "WRITE" /\ cmd.count = 1
    BY <1>2, <2>2 DEF HdInv, TodoFits
  <2>4. QED
    BY <1>2, <1>4, <2>2, <2>3
<1>5. QED
  BY <1>3, <1>4

(* The byte of a count never counts more than there is.                    *)
LEMMA ByteFits ==
  ASSUME NEW n \in Nat \ {0}
  PROVE  Byte(n) \in 1..COUNTS /\ Byte(n) <= n
<1>1. COUNTS \in Nat \ {0}
  BY HdAssumption
<1>2. n % COUNTS \in 0..COUNTS - 1 /\ n % COUNTS <= n
  BY <1>1
<1>3. n % COUNTS = 0 => n >= COUNTS
  BY <1>1
<1>4. QED
  BY <1>1, <1>2, <1>3 DEF Byte

(* While HD handles a request of its own accord FS waits for the answer.   *)
LEMMA HandlingHD ==
  ASSUME HdInv, hd_pc \in Handled
  PROVE  /\ Handling /\ fs_pc \in {"asked", "waiting"}
         /\ callOf[FS] \in {Unblocked, RecvFrom(HD)}
         /\ callOf[FS] = Unblocked <=> fs_pc = "asked"
BY TaskCalls DEF HdInv, FsMeets, Between, Listening, Handling, Handled, Answering

LEMMA HDNextCommandInv == HdInv /\ HDNextCommand => HdInv'
<1> SUFFICES ASSUME HdInv, HDNextCommand PROVE HdInv'
  OBVIOUS
<1> USE DEF HDNextCommand, Waitfor, fsVars, sysVars, clkVars, devVars
<1>1. /\ IInv' /\ BufferHeld' /\ panic' = "none"
      /\ callOf' = callOf /\ mbuf' = mbuf /\ has_int_msg' = has_int_msg
  BY LocalStep
<1>2. callOf[HD] = Unblocked
  BY RunsFree, Tasks
<1>3. Handling /\ fs_pc \in {"asked", "waiting"}
  BY HandlingHD DEF Handled
<1>4. HdTypes'
  BY DEF HdInv, HdTypes, Handled
<1>5. FsMeets' /\ SysMeets'
  BY <1>1, <1>2, <1>3 DEF HdInv, FsMeets, Handling, Handled,
     SysMeets, SysRests, SysKnows, SysWaits
<1>6. TodoFits' /\ BaseKnown'
  BY <1>1, <1>3 DEF HdInv, TodoFits, BaseKnown, Opening, Handled, hd_rdwt
<1>7. DevFollows'
  BY <1>1 DEF HdInv, DevFollows, Issued, Polling, NoNotice
<1>8. DataCopied'
  BY <1>1, <1>2, <1>3, TaskCalls
  DEF HdInv, DataCopied, Issued, Polling, Answered, Answering, Handling, Copied
<1>9. TimeSeen'
  BY DEF HdInv, TimeSeen, ToldFirst
<1>10. QED
  BY <1>1, <1>4, <1>5, <1>6, <1>7, <1>8, <1>9 DEF HdInv

LEMMA HDBeginInv == HdInv /\ HDBegin => HdInv'
<1> SUFFICES ASSUME HdInv, HDBegin PROVE HdInv'
  OBVIOUS
<1> USE DEF HDBegin, fsVars, sysVars, clkVars, devVars
<1>1. /\ IInv' /\ BufferHeld' /\ panic' = "none"
      /\ callOf' = callOf /\ mbuf' = mbuf /\ has_int_msg' = has_int_msg
  BY LocalStep
<1>2. callOf[HD] = Unblocked
  BY RunsFree, Tasks
<1>3. Handling /\ fs_pc \in {"asked", "waiting"}
  BY HandlingHD DEF Handled
<1>4. HdTypes'
  BY HdAssumption DEF HdInv, HdTypes, Handled
<1>5. FsMeets' /\ SysMeets'
  BY <1>1, <1>2, <1>3, TaskCalls DEF HdInv, FsMeets, Handling, Handled,
     SysMeets, SysRests, SysKnows, SysWaits
<1>6. TodoFits' /\ BaseKnown'
  BY <1>1, <1>3 DEF HdInv, TodoFits, BaseKnown, Opening, Handled, hd_rdwt
<1>7. DevFollows'
  BY <1>1 DEF HdInv, DevFollows, Issued, Polling, NoNotice, Awaits,
     cmd, uncounted, Before, DevReads, DevAccepts, DevStores, DevStored
<1>8. DataCopied'
  BY <1>1, <1>2, <1>3, TaskCalls
  DEF HdInv, DataCopied, Issued, Polling, Answered, Answering, Handling, Copied
<1>9. TimeSeen'
  <2>1. waited \in Nat /\ told \in Nat
    BY HdAssumption DEF HdInv, HdTypes
  <2>2. QED
    BY <1>2, <2>1 DEF HdInv, TimeSeen, ToldFirst, Overdue, Polling
<1>10. QED
  BY <1>1, <1>4, <1>5, <1>6, <1>7, <1>8, <1>9 DEF HdInv

LEMMA HDPollInv == HdInv /\ HDPoll => HdInv'
<1> SUFFICES ASSUME HdInv, HDPoll PROVE HdInv'
  OBVIOUS
<1> USE DEF HDPoll, fsVars, sysVars, clkVars
<1>1. /\ IInv' /\ BufferHeld' /\ panic' = "none"
      /\ callOf' = callOf /\ mbuf' = mbuf /\ has_int_msg' = has_int_msg
  BY LocalStep
<1>2. callOf[HD] = Unblocked
  BY RunsFree, Tasks
<1>3. Handling /\ fs_pc \in {"asked", "waiting"}
  BY HandlingHD DEF Handled
<1>4. hd_pc' \in {"ask", "cmd_out", "port_write"}
  OBVIOUS
<1>5. HdTypes'
  <2>1. /\ hd_pc' \in Handled /\ want' \in {"BSY", "DRQ"} /\ intrq' \in BOOLEAN
        /\ since' \in {NotYet} \cup 0..MAX_TICKS - 1 /\ waited' \in Nat
    BY <1>4 DEF HdInv, HdTypes, Handled
  <2>2. told' \in 0..MAX_TICKS - 1
    BY HdAssumption
  <2>3. UNCHANGED <<todo, left, base, fsVars, sys_pc, ticks,
                    dev, dev_cmd, dev_left, dev_sect, dev_data, disk>>
    OBVIOUS
  <2>4. QED
    BY <2>1, <2>2, <2>3 DEF HdInv, HdTypes
<1>6. FsMeets' /\ SysMeets'
  BY <1>1, <1>2, <1>3, <1>4, TaskCalls DEF HdInv, FsMeets, Handling, Handled,
     SysMeets, SysRests, SysKnows, SysWaits
<1>7. TodoFits' /\ BaseKnown'
  BY <1>1, <1>3, <1>4 DEF HdInv, TodoFits, BaseKnown, Opening, Handled, hd_rdwt
<1>8. DevFollows' /\ (Issued' <=> Issued)
  <2>1. CASE want = "BSY"
    BY <1>1, <2>1 DEF HdInv, DevFollows, Issued, Polling, NoNotice, Satisfied
  <2>2. CASE want = "DRQ"
    BY <1>1, <2>2 DEF HdInv, DevFollows, Issued, Polling, NoNotice, Satisfied, Awaits,
     cmd, uncounted, Before, DevReads, DevAccepts, DevStores, DevStored
  <2>3. QED
    BY <2>1, <2>2 DEF HdInv, HdTypes
<1>9. DataCopied'
  BY <1>1, <1>2, <1>3, <1>4, <1>8, TaskCalls
  DEF HdInv, DataCopied, Answered, Answering, Handling, Copied
<1>10. TimeSeen'
  <2>1. waited \in Nat /\ told \in Nat /\ since \in Nat /\ waited' \in Nat
    BY DEF HdInv, HdTypes
  <2>2. waited' = waited => Overdue(waited)' = Overdue(waited)
    BY DEF Overdue
  <2>3. QED
    BY <1>1, <1>4, <2>1, <2>2 DEF HdInv, TimeSeen, ToldFirst, Polling
<1>11. QED
  BY <1>1, <1>5, <1>6, <1>7, <1>8, <1>9, <1>10 DEF HdInv

(* Int32 changes no number that the int holds.                             *)
LEMMA IntKept ==
  ASSUME NEW n \in Nat, 2 * n < WORD
  PROVE  Int32(n) = n
<1>1. WORD \in Nat \ {0} /\ n % WORD = n
  BY HdAssumption
<1>2. QED
  BY <1>1 DEF Int32

(* The driver gives the disk up only when the time has really gone by, or  *)
(* when t is later than now: n ticks from t to now that are not overdue    *)
(* are a product that does not overflow, and less than HD_TIMEOUT.         *)
LEMMA OverdueFirst ==
  ASSUME NEW t \in Nat, NEW now \in Nat, NEW n \in Nat,
         Elapsed(t, now) >= HD_TIMEOUT, t <= now, now <= t + n
  PROVE  Overdue(n)
<1> SUFFICES ASSUME ~ Overdue(n) PROVE FALSE
  OBVIOUS
<1>1. /\ HD_TIMEOUT \in Nat \ {0} /\ MILLI \in Nat \ {0} /\ HZ \in Nat \ {0} /\ WORD \in Nat
      /\ 2 * (HD_TIMEOUT * HZ) <= WORD
  <2>1. HD_TIMEOUT \in Nat /\ HZ \in Nat /\ 2 * HD_TIMEOUT * HZ <= WORD
    BY HdAssumption
  <2>2. 2 * HD_TIMEOUT * HZ = 2 * (HD_TIMEOUT * HZ)
    BY <2>1
  <2>3. QED
    BY <2>1, <2>2, HdAssumption
<1> DEFINE product == (now - t) * MILLI
           limit   == HD_TIMEOUT * HZ
<1>2. product \in Nat /\ limit \in Nat /\ product < limit
  <2>1. now - t \in 0..n /\ n * MILLI < limit /\ n * MILLI \in Nat /\ limit \in Nat
    BY <1>1 DEF Overdue
  <2>2. \A a \in Nat : a <= n => a * MILLI \in Nat /\ a * MILLI <= n * MILLI
    BY <1>1
  <2>3. QED
    BY <2>1, <2>2
<1>3. Int32(product) = product
  BY <1>1, <1>2, IntKept
<1>4. product \div HZ < HD_TIMEOUT
  <2>1. product \div HZ \in Int /\ HZ * (product \div HZ) <= product
    BY <1>1, <1>2
  <2>2. \A q \in Int : HZ * q < HD_TIMEOUT * HZ => q < HD_TIMEOUT
    BY <1>1
  <2>3. QED
    BY <1>1, <1>2, <2>1, <2>2
<1>5. QED
  BY <1>1, <1>3, <1>4 DEF Elapsed

LEMMA HDTimeoutInv == HdInv /\ HDTimeout => HdInv'
<1> SUFFICES ASSUME HdInv, HDTimeout PROVE HdInv'
  OBVIOUS
<1> USE DEF HDTimeout, fsVars, sysVars, clkVars, devVars
<1>1. /\ IInv' /\ BufferHeld' /\ panic' = "none"
      /\ callOf' = callOf /\ mbuf' = mbuf /\ has_int_msg' = has_int_msg
  BY LocalStep
<1>2. callOf[HD] = Unblocked
  BY RunsFree, Tasks
<1>3. Handling /\ fs_pc \in {"asked", "waiting"}
  BY HandlingHD DEF Handled
<1>4. HdTypes'
  BY DEF HdInv, HdTypes, Handled
<1>5. FsMeets' /\ SysMeets'
  BY <1>1, <1>2, <1>3, TaskCalls DEF HdInv, FsMeets, Handling, Handled,
     SysMeets, SysRests, SysKnows, SysWaits
<1>6. TodoFits' /\ BaseKnown'
  BY <1>1, <1>3 DEF HdInv, TodoFits, BaseKnown, Opening, Handled, hd_rdwt
<1>7. DevFollows'
  BY <1>1 DEF HdInv, DevFollows, Issued, Polling, NoNotice, Awaits,
     cmd, uncounted, Before, DevReads, DevAccepts, DevStores, DevStored
<1>8. DataCopied'
  BY <1>1, <1>2, <1>3, TaskCalls
  DEF HdInv, DataCopied, Issued, Polling, Answered, Answering, Handling, Copied
<1>9. TimeSeen'
  <2>1. waited \in Nat /\ told \in Nat /\ since \in Nat
    BY DEF HdInv, HdTypes
  <2>2. Overdue(waited) \/ told < since
    BY <2>1, OverdueFirst DEF HdInv, TimeSeen
  <2>3. Overdue(waited)' = Overdue(waited)
    BY DEF Overdue
  <2>4. QED
    BY <1>1, <2>2, <2>3 DEF HdInv, TimeSeen, ToldFirst, Polling
<1>10. QED
  BY <1>1, <1>4, <1>5, <1>6, <1>7, <1>8, <1>9 DEF HdInv

LEMMA HdCmdOutInv == HdInv /\ hd_cmd_out => HdInv'
<1> SUFFICES ASSUME HdInv, hd_cmd_out PROVE HdInv'
  OBVIOUS
<1> USE DEF hd_cmd_out, AfterCommand, Waitfor, fsVars, sysVars, clkVars
<1>1. /\ IInv' /\ BufferHeld' /\ panic' = "none"
      /\ callOf' = callOf /\ mbuf' = mbuf /\ has_int_msg' = has_int_msg
  BY LocalStep
<1>2. callOf[HD] = Unblocked
  BY RunsFree, Tasks
<1>3. Handling /\ fs_pc \in {"asked", "waiting"}
  BY HandlingHD DEF Handled
<1>4. /\ cmd \in HdCommand /\ todo # <<>>
      /\ request \in Transfers => cmd.count = request.cnt
  BY CurrentCommand DEF Handled, HdInv, TodoFits
<1>5. /\ cmd.count \in 1..MaxCnt /\ cmd.sect \in Nat /\ MaxCnt \in Nat
      /\ cmd.command \in {"IDENTIFY", "READ", "WRITE"}
      /\ Byte(cmd.count) \in 1..COUNTS /\ COUNTS \in Nat
  BY <1>4, ByteFits, HdAssumption DEF HdCommand
<1>6. /\ dev' = "busy" /\ dev_cmd' = cmd.command /\ dev_sect' = cmd.sect
      /\ dev_left' = Byte(cmd.count) /\ dev_data' = Garbage /\ ~ intrq'
      /\ left' = cmd.count
      /\ IF cmd.command = "WRITE" THEN hd_pc' = "ask" /\ want' = "DRQ" /\ since' = NotYet
         ELSE hd_pc' = "int_wait" /\ want' = want /\ since' = since
      /\ cmd' = cmd /\ uncounted' = uncounted
  BY DEF cmd, uncounted, Byte
<1>7. HdTypes'
  <2>1. /\ hd_pc' \in Handled /\ want' \in {"BSY", "DRQ"}
        /\ since' \in {NotYet} \cup 0..MAX_TICKS - 1
        /\ left' \in 0..MaxCnt /\ dev_left' \in 0..COUNTS
    BY <1>5, <1>6 DEF HdInv, HdTypes, Handled
  <2>2. QED
    BY <1>5, <1>6, <2>1 DEF HdInv, HdTypes
<1>8. FsMeets' /\ SysMeets'
  BY <1>1, <1>2, <1>3, <1>6 DEF HdInv, FsMeets, Handling, Handled,
     SysMeets, SysRests, SysKnows, SysWaits
<1>9. TodoFits' /\ BaseKnown'
  BY <1>1, <1>3, <1>4, <1>6 DEF HdInv, TodoFits, BaseKnown, Opening, Handled, hd_rdwt
<1>10. NoNotice' /\ Before'
  <2>1. NoNotice
    BY DEF HdInv, DevFollows, Issued, Polling
  <2>2. QED
    BY <1>1, <1>5, <1>6, <2>1 DEF NoNotice, Before, uncounted
<1>11. DevFollows'
  <2>1. Issued' /\ dev_cmd' = cmd'.command /\ left' \in 1..cmd'.count /\ dev_left' > 0
    BY <1>5, <1>6 DEF Issued, Polling
  <2>2. CASE cmd.command = "WRITE"
    BY <1>6, <1>10, <2>1, <2>2 DEF DevFollows, DevAccepts, Polling
  <2>3. CASE cmd.command # "WRITE"
    BY <1>6, <1>10, <2>1, <2>3 DEF DevFollows, DevReads, Awaits
  <2>4. QED
    BY <2>2, <2>3
<1>12. DataCopied'
  <2>1. request \in Transfers => 1..request.cnt - left' = {}
    BY <1>4, <1>5, <1>6
  <2>2. hd_pc' \in {"ask", "int_wait"} /\ ~ Answered'
    BY <1>1, <1>2, <1>3, <1>6, TaskCalls DEF Answered, Answering, Handling
  <2>3. QED
    BY <2>1, <2>2 DEF HdInv, DataCopied, Copied
<1>13. TimeSeen'
  BY <1>1, <1>6 DEF HdInv, TimeSeen, ToldFirst, Overdue, Polling
<1>14. QED
  BY <1>1, <1>7, <1>8, <1>9, <1>11, <1>12, <1>13 DEF HdInv

LEMMA HDPortWriteInv == HdInv /\ HDPortWrite => HdInv'
<1> SUFFICES ASSUME HdInv, HDPortWrite PROVE HdInv'
  OBVIOUS
<1> USE DEF HDPortWrite, fsVars, sysVars, clkVars
<1>1. /\ IInv' /\ BufferHeld' /\ panic' = "none"
      /\ callOf' = callOf /\ mbuf' = mbuf /\ has_int_msg' = has_int_msg
  BY LocalStep
<1>2. callOf[HD] = Unblocked
  BY RunsFree, Tasks
<1>3. Handling /\ fs_pc \in {"asked", "waiting"}
  BY HandlingHD DEF Handled
<1>4. HdTypes'
  BY DEF HdInv, HdTypes, Handled
<1>5. FsMeets' /\ SysMeets'
  BY <1>1, <1>2, <1>3 DEF HdInv, FsMeets, Handling, Handled,
     SysMeets, SysRests, SysKnows, SysWaits
<1>6. TodoFits' /\ BaseKnown'
  BY <1>1, <1>3 DEF HdInv, TodoFits, BaseKnown, Opening, Handled, hd_rdwt
<1>7. DevFollows'
  BY <1>1 DEF HdInv, DevFollows, Issued, Polling, NoNotice, Awaits, At,
     cmd, uncounted, Before, DevReads, DevAccepts, DevStores, DevStored
<1>8. DataCopied'
  BY <1>1, <1>2, <1>3, TaskCalls
  DEF HdInv, DataCopied, Issued, Polling, Answered, Answering, Handling, Copied
<1>9. TimeSeen'
  BY DEF HdInv, TimeSeen, ToldFirst, Overdue, Polling
<1>10. QED
  BY <1>1, <1>4, <1>5, <1>6, <1>7, <1>8, <1>9 DEF HdInv

(***************************************************************************)
(* A sector is done: what its last one and every other one have in common. *)
(***************************************************************************)
LEMMA SectorDoneFits ==
  ASSUME HdInv, hd_pc = "int_got", callOf[HD] = Unblocked, callOf' = callOf, mbuf' = mbuf,
         UNCHANGED <<fs_pc, request, sysVars>>, left' = left - 1,
         \/ /\ left > 1 /\ hd_pc' \in {"int_wait", "ask"}
            /\ UNCHANGED <<todo, base>>
         \/ /\ left <= 1 /\ hd_pc' = "next" /\ todo' = Tail(todo)
            /\ base' = IF request.type = "DEV_OPEN" /\ Len(todo) = 1 THEN NrTables ELSE base
  PROVE  /\ FsMeets' /\ SysMeets' /\ TodoFits' /\ BaseKnown' /\ ~ Answered'
         /\ todo' \in Seq(HdCommand) /\ left' \in 0..MaxCnt /\ base' \in {0, NrTables}
         /\ left \in 1..cmd.count
<1> USE DEF sysVars
<1>1. Handling /\ fs_pc \in {"asked", "waiting"} /\ callOf[FS] # SendTo(HD)
  BY HandlingHD, TaskCalls DEF Handled
<1>2. hd_pc \in Handled /\ todo # <<>>
  BY DEF HdInv, TodoFits, Handled
<1>3. cmd \in HdCommand /\ left \in 1..cmd.count /\ cmd.count \in 1..MaxCnt /\ MaxCnt \in Nat
  BY <1>2, CurrentCommand, HdAssumption DEF HdInv, DevFollows, Issued, HdCommand
<1>4. FsMeets' /\ SysMeets' /\ ~ Answered'
  BY <1>1, TaskCalls DEF HdInv, FsMeets, Handling, Handled,
     SysMeets, SysRests, SysKnows, SysWaits, Answered, Answering
<1>5. CASE left > 1
  <2>1. TodoFits' /\ BaseKnown'
    BY <1>1, <1>2, <1>3, <1>5 DEF HdInv, TodoFits, BaseKnown, Opening, Handled, hd_rdwt
  <2>2. QED
    BY <1>3, <1>4, <1>5, <2>1 DEF HdInv, HdTypes
<1>6. CASE left <= 1
  <2>1. /\ Tail(todo) \in Seq(HdCommand) /\ Len(todo) \in Nat \ {0}
        /\ \A i \in DOMAIN Tail(todo) : i + 1 \in DOMAIN todo /\ Tail(todo)[i] = todo[i + 1]
        /\ request \in Transfers => base = NrTables /\ Tail(todo) = <<>>
        /\ request.type = "DEV_OPEN" => request \notin Transfers
        /\ request \notin Transfers => request.type = "DEV_OPEN"
    BY <1>2, CurrentCommand
  <2>2. TodoFits'
    <3>1. hd_pc' = "next" /\ todo' = Tail(todo) /\ request' = request
          /\ (request.type # "DEV_OPEN" => base' = base)
      BY <1>3, <1>6
    <3>2. ASSUME request.type = "DEV_OPEN"
          PROVE  \A i \in DOMAIN Tail(todo) :
                    Tail(todo)[i].command # "WRITE" /\ Tail(todo)[i].count = 1
      BY <3>2, <1>2, <2>1 DEF HdInv, TodoFits
    <3>3. request' \in Transfers => base' = NrTables /\ todo' = <<>>
      BY <2>1, <3>1
    <3>4. request'.type # "DEV_IOCTL" /\ hd_pc' = "next"
      BY <1>2, <3>1 DEF HdInv, TodoFits
    <3>5. request'.type = "DEV_OPEN" =>
            \A i \in DOMAIN todo' : todo'[i].command # "WRITE" /\ todo'[i].count = 1
      BY <3>1, <3>2
    <3>6. QED
      BY <3>3, <3>4, <3>5 DEF TodoFits
  <2>3. Len(todo) # 1 => Tail(todo) # <<>>
    <3>1. Len(Tail(todo)) = Len(todo) - 1
      BY <1>2 DEF HdInv, HdTypes
    <3> DEFINE n == Len(todo)
               m == Len(Tail(todo))
    <3> HIDE DEF n, m
    <3>2. m = 0 => n = 1
      <4>1. n \in Nat /\ m = n - 1
        BY <2>1, <3>1 DEF n, m
      <4>2. QED
        BY <4>1
    <3>3. Len(<<>>) = 0
      OBVIOUS
    <3>4. QED
      BY <3>2, <3>3, Zenon DEF n, m
  <2>4. BaseKnown'
    BY <1>1, <1>2, <1>3, <1>6, <2>1, <2>3 DEF HdInv, BaseKnown, Opening, Handled
  <2>5. left' \in 0..MaxCnt /\ base' \in {0, NrTables}
    BY <1>3, <1>6 DEF HdInv, HdTypes
  <2>6. todo' \in Seq(HdCommand)
    <3>1. todo' \in {todo, Tail(todo)}
      BY <1>3, <1>6
    <3>2. QED
      BY <2>1, <3>1
  <2>7. QED
    BY <1>3, <1>4, <2>2, <2>4, <2>5, <2>6
<1>7. QED
  BY <1>3, <1>5, <1>6

LEMMA HDSectorReadInv == HdInv /\ HDSectorRead => HdInv'
<1> SUFFICES ASSUME HdInv, HDSectorRead PROVE HdInv'
  OBVIOUS
<1>1. /\ IInv' /\ BufferHeld' /\ panic' = "none"
      /\ callOf' = callOf /\ mbuf' = mbuf /\ has_int_msg' = has_int_msg
  BY LocalStep DEF HDSectorRead
<1>2. hd_pc = "int_got" /\ callOf[HD] = Unblocked /\ callOf[HD] # RecvFrom(INTERRUPT)
  BY RunsFree, Tasks, TaskCalls DEF HDSectorRead
<1>3. hd_pc \in Handled /\ todo # <<>> /\ Issued /\ cmd.command # "WRITE"
  BY <1>2 DEF HDSectorRead, HdInv, TodoFits, Handled, Issued, cmd
<1>4. /\ left \in 1..cmd.count /\ cmd.count \in 1..MaxCnt /\ MaxCnt \in Nat
      /\ cmd.sect \in Nat /\ Byte(cmd.count) \in 1..COUNTS /\ Byte(cmd.count) <= cmd.count
      /\ COUNTS \in Nat
  <2>1. cmd \in HdCommand /\ left \in 1..cmd.count
    BY <1>3, CurrentCommand DEF HdInv, DevFollows
  <2>2. cmd.count \in 1..MaxCnt /\ MaxCnt \in Nat /\ cmd.sect \in Nat /\ COUNTS \in Nat
    BY <2>1, HdAssumption DEF HdCommand
  <2>3. QED
    BY <2>1, <2>2, ByteFits
<1>5. /\ dev_cmd = cmd.command /\ Before /\ dev = "drq" /\ dev_left > 0 /\ NoNotice
      /\ dev_left \in Nat
  BY <1>2, <1>3 DEF HdInv, DevFollows, DevReads, Awaits, HdTypes
<1>6. /\ dev' = IF dev_left > 1 THEN "busy" ELSE "idle"
      /\ dev_sect' = NextSector /\ dev_left' = dev_left - 1 /\ left' = left - 1
      /\ fsbuf' = IF request.type = "DEV_READ" THEN [fsbuf EXCEPT ![At] = disk[dev_sect]]
                  ELSE fsbuf
      /\ UNCHANGED <<fs_pc, request, sysVars, clkVars, dev_cmd, dev_data, intrq, disk>>
  BY <1>5 DEF HDSectorRead, SectorDone, Offered
<1>7. /\ left > 1 => hd_pc' = "int_wait" /\ UNCHANGED <<todo, base, want, since>>
      /\ left <= 1 => /\ hd_pc' = "next" /\ todo' = Tail(todo) /\ UNCHANGED <<want, since>>
                      /\ base' = IF request.type = "DEV_OPEN" /\ Len(todo) = 1
                                   THEN NrTables ELSE base
  BY <1>4 DEF HDSectorRead, SectorDone
<1>8. /\ FsMeets' /\ SysMeets' /\ TodoFits' /\ BaseKnown' /\ ~ Answered'
      /\ todo' \in Seq(HdCommand) /\ left' \in 0..MaxCnt /\ base' \in {0, NrTables}
  <2>1. \/ left > 1 /\ hd_pc' \in {"int_wait", "ask"} /\ UNCHANGED <<todo, base>>
        \/ /\ left <= 1 /\ hd_pc' = "next" /\ todo' = Tail(todo)
           /\ base' = IF request.type = "DEV_OPEN" /\ Len(todo) = 1 THEN NrTables ELSE base
    BY <1>4, <1>7
  <2>2. QED
    BY <1>1, <1>2, <1>6, <2>1, SectorDoneFits
(* A DEV_READ gets the sector that belongs where la points.                *)
<1>9. ASSUME request.type = "DEV_READ"
      PROVE  /\ request \in Transfers /\ request.cnt = cmd.count
             /\ At \in 1..MaxCnt /\ dev_sect \in Sector
             /\ At = request.cnt - left + 1 /\ dev_sect = NrTables + request.sect + At - 1
  <2>1. request \in Transfers
    BY <1>9, <1>3, CurrentCommand
  <2>2. /\ request.cnt = cmd.count /\ cmd.sect = NrTables + request.sect
        /\ request.sect \in Nat /\ request.sect + request.cnt <= NrSects
    BY <2>1, <1>3, CurrentCommand
  <2>3. NrTables \in Nat /\ NrSects \in Nat
    BY HdAssumption
  <2>4. /\ At = request.cnt - left + 1 /\ At \in 1..request.cnt /\ At \in 1..MaxCnt
        /\ dev_sect = NrTables + request.sect + At - 1
    BY <1>4, <1>5, <2>2, <2>3 DEF At, Before
  <2>5. dev_sect \in Sector
    BY <1>4, <2>2, <2>3, <2>4 DEF Sector
  <2>6. QED
    BY <2>1, <2>2, <2>4, <2>5
<1>10. /\ fsbuf' \in [1..MaxCnt -> Content]
       /\ \A i \in 1..MaxCnt : i # At => fsbuf'[i] = fsbuf[i]
       /\ request.type = "DEV_READ" => fsbuf'[At] = disk[dev_sect]
       /\ request.type # "DEV_READ" => fsbuf' = fsbuf
  BY <1>6, <1>9 DEF HdInv, HdTypes
<1>11. HdTypes'
  <2>1. /\ hd_pc' \in Handled /\ want' = want /\ since' = since
        /\ dev_left' \in 0..COUNTS /\ dev_sect' \in Nat /\ dev' \in {"idle", "busy", "drq"}
    BY <1>4, <1>5, <1>6, <1>7 DEF NextSector, HdInv, HdTypes, Handled
  <2>2. QED
    BY <1>6, <1>8, <1>10, <2>1 DEF HdInv, HdTypes, sysVars, clkVars
<1>12. DevFollows'
  <2>1. CASE left > 1
    <3>1. cmd' = cmd /\ uncounted' = uncounted /\ hd_pc' = "int_wait" /\ Issued'
      BY <1>7, <2>1 DEF cmd, uncounted, Byte, Issued
    <3>2. Before' /\ left' \in 1..cmd.count /\ NoNotice' /\ Awaits'
      BY <1>1, <1>4, <1>5, <1>6, <2>1, <3>1 DEF NextSector, Before, uncounted, NoNotice, Awaits
    <3>3. DevReads'
      BY <1>5, <1>6, <3>1, <3>2 DEF DevReads
    <3>4. QED
      BY <1>3, <1>5, <1>6, <3>1, <3>2, <3>3 DEF DevFollows
  <2>2. CASE left <= 1
    <3>1. ~ Issued' /\ NoNotice'
      BY <1>1, <1>5, <1>6, <1>7, <2>2 DEF Issued, Polling, NoNotice
    <3>2. dev' = "idle"
      BY <1>4, <1>5, <1>6, <2>2 DEF Before, uncounted
    <3>3. QED
      BY <3>1, <3>2 DEF DevFollows
  <2>3. QED
    BY <1>4, <2>1, <2>2
<1>13. DataCopied'
  <2> SUFFICES ASSUME request \in Transfers PROVE DataCopied'
    BY <1>6 DEF DataCopied
  <2>1. /\ request.type = "DEV_READ" /\ request.cnt = cmd.count
        /\ request.cnt \in 1..MaxCnt
    BY <1>3, CurrentCommand
  <2>2. Copied(request.cnt - left)
    BY <1>3 DEF HdInv, DataCopied
  <2>3. request.cnt - left + 1 \in 1..MaxCnt /\ left \in 1..request.cnt
    BY <1>4, <2>1
  <2>4. ASSUME NEW i \in 1..request.cnt - left + 1
        PROVE  fsbuf'[i] = disk[NrTables + request.sect + i - 1]
    <3>1. CASE i = At
      BY <3>1, <2>1, <1>9, <1>10
    <3>2. CASE i # At
      <4>1. i \in 1..request.cnt - left /\ i \in 1..MaxCnt
        BY <3>2, <2>1, <2>3, <1>4 DEF At
      <4>2. QED
        BY <3>2, <4>1, <2>2, <1>10 DEF Copied
    <3>3. QED
      BY <3>1, <3>2
  <2>5. request.cnt - left' = request.cnt - left + 1
    BY <1>4, <2>1, <2>3, <1>6
  <2>6. hd_pc' = "next" => left = 1
    BY <1>4, <1>7
  <2>7. hd_pc' = "next" => Copied(request.cnt)'
    <3>1. left = 1 => request.cnt - left + 1 = request.cnt
      BY <1>4, <2>1, <2>3
    <3>2. QED
      BY <1>6, <2>4, <2>6, <3>1 DEF Copied
  <2>8. Copied(request.cnt - left)'
    BY <1>6, <2>4, <2>5 DEF Copied
  <2>9. QED
    BY <1>6, <1>8, <2>1, <2>7, <2>8 DEF DataCopied
<1>14. TimeSeen'
  BY <1>2, <1>4, <1>6, <1>7 DEF HdInv, TimeSeen, ToldFirst, Overdue, Polling, sysVars, clkVars
<1>15. QED
  BY <1>1, <1>8, <1>11, <1>12, <1>13, <1>14 DEF HdInv

LEMMA HDSectorWrittenInv == HdInv /\ HDSectorWritten => HdInv'
<1> SUFFICES ASSUME HdInv, HDSectorWritten PROVE HdInv'
  OBVIOUS
<1>1. /\ IInv' /\ BufferHeld' /\ panic' = "none"
      /\ callOf' = callOf /\ mbuf' = mbuf /\ has_int_msg' = has_int_msg
  BY LocalStep DEF HDSectorWritten
<1>2. hd_pc = "int_got" /\ callOf[HD] = Unblocked /\ callOf[HD] # RecvFrom(INTERRUPT)
  BY RunsFree, Tasks, TaskCalls DEF HDSectorWritten
<1>3. hd_pc \in Handled /\ todo # <<>> /\ Issued /\ cmd.command = "WRITE"
  BY <1>2 DEF HDSectorWritten, HdInv, TodoFits, Handled, Issued, cmd
<1>4. /\ left \in 1..cmd.count /\ cmd.count \in 1..MaxCnt /\ MaxCnt \in Nat
      /\ cmd.sect \in Nat /\ Byte(cmd.count) \in 1..COUNTS /\ Byte(cmd.count) <= cmd.count
  <2>1. cmd \in HdCommand /\ left \in 1..cmd.count
    BY <1>3, CurrentCommand DEF HdInv, DevFollows
  <2>2. cmd.count \in 1..MaxCnt /\ MaxCnt \in Nat /\ cmd.sect \in Nat
    BY <2>1, HdAssumption DEF HdCommand
  <2>3. QED
    BY <2>1, <2>2, ByteFits
<1>5. /\ dev_cmd = cmd.command /\ After /\ NoNotice /\ dev_left \in Nat
      /\ dev = IF dev_left > 0 THEN "drq" ELSE "idle"
      /\ disk[cmd.sect + cmd.count - left] = fsbuf[At]
  BY <1>2, <1>3
  DEF HdInv, DevFollows, DevAccepts, DevStores, DevStored, Polling, Awaits, HdTypes
<1>6. /\ left' = left - 1
      /\ left > 1 => /\ hd_pc' = "ask" /\ want' = "DRQ" /\ since' = NotYet
                     /\ UNCHANGED <<todo, base>>
      /\ left <= 1 => /\ hd_pc' = "next" /\ todo' = Tail(todo) /\ UNCHANGED <<want, since>>
                      /\ base' = IF request.type = "DEV_OPEN" /\ Len(todo) = 1
                                   THEN NrTables ELSE base
      /\ UNCHANGED <<fsVars, sysVars, clkVars, devVars>>
  BY <1>4 DEF HDSectorWritten, SectorDone, Waitfor
<1>7. /\ FsMeets' /\ SysMeets' /\ TodoFits' /\ BaseKnown' /\ ~ Answered'
      /\ todo' \in Seq(HdCommand) /\ left' \in 0..MaxCnt /\ base' \in {0, NrTables}
  <2>1. \/ left > 1 /\ hd_pc' \in {"int_wait", "ask"} /\ UNCHANGED <<todo, base>>
        \/ /\ left <= 1 /\ hd_pc' = "next" /\ todo' = Tail(todo)
           /\ base' = IF request.type = "DEV_OPEN" /\ Len(todo) = 1 THEN NrTables ELSE base
    BY <1>4, <1>6
  <2>2. QED
    BY <1>1, <1>2, <1>6, <2>1, SectorDoneFits DEF fsVars
<1>8. HdTypes'
  <2>1. /\ hd_pc' \in Handled /\ want' \in {"BSY", "DRQ"}
        /\ since' \in {NotYet} \cup 0..MAX_TICKS - 1
    BY <1>4, <1>6 DEF HdInv, HdTypes, Handled
  <2>2. QED
    BY <1>6, <1>7, <2>1 DEF HdInv, HdTypes, fsVars, sysVars, clkVars, devVars
<1>9. DevFollows'
  <2>1. CASE left > 1
    <3>1. cmd' = cmd /\ uncounted' = uncounted /\ Polling' /\ Issued'
      BY <1>6, <2>1 DEF cmd, uncounted, Byte, Issued, Polling
    <3>2. Before' /\ left' \in 1..cmd.count /\ NoNotice'
      BY <1>1, <1>4, <1>5, <1>6, <2>1, <3>1 DEF Before, After, uncounted, NoNotice, devVars
    <3>3. DevAccepts'
      BY <1>5, <1>6, <3>1, <3>2 DEF DevAccepts, devVars
    <3>4. QED
      BY <1>3, <1>5, <1>6, <3>1, <3>2, <3>3 DEF DevFollows, devVars
  <2>2. CASE left <= 1
    <3>1. ~ Issued' /\ NoNotice'
      BY <1>1, <1>5, <1>6, <2>2 DEF Issued, Polling, NoNotice, devVars
    <3>2. dev = "idle"
      BY <1>4, <1>5, <2>2 DEF After, uncounted
    <3>3. QED
      BY <1>6, <3>1, <3>2 DEF DevFollows, devVars
  <2>3. QED
    BY <1>4, <2>1, <2>2
<1>10. DataCopied'
  <2> SUFFICES ASSUME request \in Transfers PROVE DataCopied'
    BY <1>6 DEF DataCopied, fsVars
  <2>1. /\ request.cnt = cmd.count /\ request.cnt \in 1..MaxCnt
        /\ request.sect \in Nat /\ cmd.sect = NrTables + request.sect
    BY <1>3, CurrentCommand
  <2>2. Copied(request.cnt - left)
    BY <1>3 DEF HdInv, DataCopied
  <2>3. /\ request.cnt \in Nat /\ left \in 1..request.cnt /\ NrTables \in Nat
        /\ cmd.sect + cmd.count - left = NrTables + request.sect + At - 1
        /\ At = request.cnt - left + 1
    BY <1>4, <1>5, <2>1, HdAssumption DEF At
  <2>4. ASSUME NEW i \in 1..request.cnt - left + 1
        PROVE  fsbuf[i] = disk[NrTables + request.sect + i - 1]
    <3>1. CASE i = At
      BY <3>1, <2>3, <1>5
    <3>2. CASE i # At
      <4>1. i \in 1..request.cnt - left
        BY <3>2, <2>3
      <4>2. QED
        BY <4>1, <2>2 DEF Copied
    <3>3. QED
      BY <3>1, <3>2
  <2>5. request.cnt - left' = request.cnt - left + 1
    BY <2>3, <1>6
  <2>6. hd_pc' = "next" => Copied(request.cnt)'
    <3>1. hd_pc' = "next" => request.cnt - left + 1 = request.cnt
      BY <1>6, <2>3
    <3>2. QED
      BY <1>6, <2>4, <3>1 DEF Copied, fsVars, devVars
  <2>7. Copied(request.cnt - left)'
    BY <1>6, <2>4, <2>5 DEF Copied, fsVars, devVars
  <2>8. request.type = "DEV_WRITE" /\ fs_pc \in {"asked", "waiting"} =>
           \A i \in 1..request.cnt : fsbuf[i] \in Value
    BY DEF HdInv, DataCopied
  <2>9. QED
    BY <1>6, <1>7, <2>6, <2>7, <2>8 DEF DataCopied, fsVars
<1>11. TimeSeen'
  BY <1>2, <1>4, <1>6 DEF HdInv, TimeSeen, ToldFirst, Overdue, Polling, sysVars, clkVars
<1>12. QED
  BY <1>1, <1>6, <1>7, <1>8, <1>9, <1>10, <1>11 DEF HdInv

(* A sector goes to the disk: it is the one where la points.               *)
LEMMA DiskStores ==
  ASSUME HdInv, DiskTurn, dev_cmd = "WRITE", ~ (dev_data = Garbage /\ ~ Awaits)
  PROVE  /\ Before /\ dev_left > 0 /\ Awaits /\ NoNotice
         /\ request \in Transfers /\ request.type = "DEV_WRITE" /\ request.cnt = cmd.count
         /\ cmd.sect = NrTables + request.sect /\ request.sect \in Nat
         /\ request.sect + request.cnt <= NrSects
         /\ NrTables \in Nat /\ NrSects \in Nat /\ request.cnt \in Nat
         /\ At = request.cnt - left + 1 /\ At \in 1..request.cnt
         /\ dev_sect = NrTables + request.sect + At - 1
         /\ left \in 1..request.cnt /\ dev_sect \in Sector
         /\ fsbuf[At] \in Value
         /\ disk' = [disk EXCEPT ![dev_sect] = fsbuf[At]]
         /\ dev_left' = dev_left - 1 /\ dev_sect' = NextSector
         /\ dev' = IF dev_left > 1 THEN "drq" ELSE "idle"
         /\ intrq' = TRUE
<1>1. dev = "busy" /\ Issued /\ DevFollows
  BY DEF DiskTurn, HdInv, DevFollows
<1>2. hd_pc \in Handled /\ todo # <<>> /\ dev_cmd = cmd.command /\ left \in 1..cmd.count
  BY <1>1 DEF HdInv, TodoFits, Handled, Issued, Polling, DevFollows
<1>3. cmd \in HdCommand /\ cmd.count \in 1..MaxCnt /\ MaxCnt \in Nat /\ cmd.sect \in Nat
  BY <1>2, CurrentCommand, HdAssumption DEF HdCommand
<1>4. Before /\ dev_left > 0 /\ Awaits /\ NoNotice /\ dev_data = fsbuf[At]
  BY <1>1, <1>2 DEF DevFollows, DevAccepts, DevStores, DevStored, Polling, Awaits
<1>5. /\ request \in Transfers /\ request.type = "DEV_WRITE" /\ request.cnt = cmd.count
      /\ cmd.sect = NrTables + request.sect /\ request.sect \in Nat
      /\ request.sect + request.cnt <= NrSects
  BY <1>2, CurrentCommand
<1>6. /\ NrTables \in Nat /\ NrSects \in Nat /\ request.cnt \in Nat
      /\ At = request.cnt - left + 1 /\ At \in 1..request.cnt
      /\ dev_sect = NrTables + request.sect + At - 1
      /\ left \in 1..request.cnt /\ dev_sect \in Sector
  <2>1. NrTables \in Nat /\ NrSects \in Nat /\ request.cnt \in Nat
    BY <1>3, <1>5, HdAssumption
  <2>2. left \in 1..request.cnt
    BY <1>2, <1>5
  <2>3. At = request.cnt - left + 1 /\ At \in 1..request.cnt
    BY <2>1, <2>2 DEF At
  <2>4. dev_sect = NrTables + request.sect + At - 1
    BY <1>4, <1>5, <2>1, <2>2, <2>3 DEF Before
  <2>5. dev_sect \in Sector
    BY <1>5, <2>1, <2>3, <2>4 DEF Sector
  <2>6. QED
    BY <2>1, <2>2, <2>3, <2>4, <2>5
<1>7. fsbuf[At] \in Value /\ dev_data # Garbage
  <2>1. fs_pc \in {"asked", "waiting"}
    BY <1>2, HandlingHD
  <2>2. \A i \in 1..request.cnt : fsbuf[i] \in Value
    BY <1>5, <2>1 DEF HdInv, DataCopied
  <2>3. QED
    BY <1>4, <1>6, <2>2, ValueAssumption
<1>8. /\ disk' = [disk EXCEPT ![dev_sect] = fsbuf[At]]
      /\ dev_left' = dev_left - 1 /\ dev_sect' = NextSector
      /\ dev' = IF dev_left > 1 THEN "drq" ELSE "idle"
      /\ intrq' = TRUE
  BY <1>4, <1>7 DEF DiskTurn
<1>9. QED
  BY <1>4, <1>5, <1>6, <1>7, <1>8

LEMMA DiskTurnInv == HdInv /\ DiskTurn => HdInv'
<1> SUFFICES ASSUME HdInv, DiskTurn PROVE HdInv'
  OBVIOUS
<1>1. /\ IInv' /\ BufferHeld' /\ panic' = "none"
      /\ callOf' = callOf /\ mbuf' = mbuf /\ has_int_msg' = has_int_msg
  BY LocalStep DEF DiskTurn
<1>2. dev = "busy" /\ Issued /\ DevFollows
  BY DEF DiskTurn, HdInv, DevFollows
<1>3. hd_pc \in Handled /\ todo # <<>> /\ dev_cmd = cmd.command /\ left \in 1..cmd.count
  BY <1>2 DEF HdInv, TodoFits, Handled, Issued, Polling, DevFollows
<1>4. cmd \in HdCommand /\ cmd.count \in 1..MaxCnt /\ MaxCnt \in Nat /\ cmd.sect \in Nat
  BY <1>3, CurrentCommand, HdAssumption DEF HdCommand
<1>5. UNCHANGED <<dev_cmd, fsVars, hdVars, sysVars, clkVars>> /\ dev_data' = Garbage
  BY DEF DiskTurn
<1>6. cmd' = cmd /\ uncounted' = uncounted /\ Issued' = Issued /\ Awaits' = Awaits
      /\ Polling' = Polling /\ At' = At
  BY <1>1, <1>5 DEF cmd, uncounted, Byte, Issued, Awaits, Polling, At, hdVars, fsVars
<1>7. FsMeets' /\ SysMeets' /\ TodoFits' /\ BaseKnown' /\ TimeSeen'
  BY <1>1, <1>5 DEF HdInv, FsMeets, Between, Listening, Handling, Answering,
     SysMeets, SysRests, SysKnows, SysWaits, TodoFits, BaseKnown, Opening, hd_rdwt,
     TimeSeen, ToldFirst, Overdue, Polling, fsVars, hdVars, sysVars, clkVars
<1>8. CASE dev_cmd # "WRITE"
  <2>1. DevReads /\ Before /\ dev_left > 0 /\ Awaits /\ NoNotice
    BY <1>2, <1>3, <1>8 DEF DevFollows, DevReads
  <2>2. dev' = "drq" /\ intrq' /\ intrq' \in BOOLEAN /\ UNCHANGED <<dev_left, dev_sect, disk>>
    BY <1>8 DEF DiskTurn
  <2>3. HdTypes'
    BY <1>5, <2>2 DEF HdInv, HdTypes, fsVars, hdVars, sysVars, clkVars
  <2>4. DevFollows'
    <3>1. Before' /\ OneNotice'
      BY <1>1, <1>5, <1>6, <2>1, <2>2 DEF Before, NoNotice, OneNotice, hdVars
    <3>2. DevReads'
      BY <1>5, <1>6, <2>1, <2>2, <3>1 DEF DevReads, hdVars
    <3>3. QED
      BY <1>2, <1>3, <1>5, <1>6, <1>8, <3>2 DEF DevFollows, hdVars
  <2>5. DataCopied'
    BY <1>1, <1>5, <2>2 DEF HdInv, DataCopied, Copied, Issued, Polling, Answered, Answering,
       fsVars, hdVars
  <2>6. QED
    BY <1>1, <1>7, <2>3, <2>4, <2>5 DEF HdInv
<1>9. CASE dev_cmd = "WRITE" /\ dev_data = Garbage /\ ~ Awaits
  <2>1. DevAccepts /\ Before /\ dev_left > 0 /\ Polling /\ NoNotice
    BY <1>2, <1>3, <1>9 DEF DevFollows, DevAccepts, DevStores, DevStored
  <2>2. dev' = "drq" /\ UNCHANGED <<dev_left, dev_sect, intrq, disk>>
    BY <1>9 DEF DiskTurn
  <2>3. HdTypes'
    BY <1>5, <2>2 DEF HdInv, HdTypes, fsVars, hdVars, sysVars, clkVars
  <2>4. DevFollows'
    <3>1. Before' /\ NoNotice'
      BY <1>1, <1>5, <1>6, <2>1, <2>2 DEF Before, NoNotice, hdVars
    <3>2. DevAccepts'
      BY <1>5, <1>6, <2>1, <2>2, <3>1 DEF DevAccepts, hdVars
    <3>3. QED
      BY <1>2, <1>3, <1>5, <1>6, <1>9, <3>2 DEF DevFollows, hdVars
  <2>5. DataCopied'
    BY <1>1, <1>5, <2>2 DEF HdInv, DataCopied, Copied, Issued, Polling, Answered, Answering,
       fsVars, hdVars
  <2>6. QED
    BY <1>1, <1>7, <2>3, <2>4, <2>5 DEF HdInv
<1>10. CASE dev_cmd = "WRITE" /\ ~ (dev_data = Garbage /\ ~ Awaits)
  <2>1. /\ Before /\ dev_left > 0 /\ Awaits /\ NoNotice
        /\ request \in Transfers /\ request.type = "DEV_WRITE" /\ request.cnt = cmd.count
        /\ cmd.sect = NrTables + request.sect /\ request.sect \in Nat
        /\ request.sect + request.cnt <= NrSects
        /\ NrTables \in Nat /\ NrSects \in Nat /\ request.cnt \in Nat
        /\ At = request.cnt - left + 1 /\ At \in 1..request.cnt
        /\ dev_sect = NrTables + request.sect + At - 1
        /\ left \in 1..request.cnt /\ dev_sect \in Sector
        /\ fsbuf[At] \in Value
    BY <1>10, DiskStores
  <2>2. /\ disk' = [disk EXCEPT ![dev_sect] = fsbuf[At]]
        /\ dev_left' = dev_left - 1 /\ dev_sect' = NextSector
        /\ dev' = IF dev_left > 1 THEN "drq" ELSE "idle"
        /\ intrq' = TRUE
    BY <1>10, DiskStores
  <2>3. /\ disk' \in [Sector -> Content] /\ disk'[dev_sect] = fsbuf[At]
        /\ \A s \in Sector : s # dev_sect => disk'[s] = disk[s]
    BY <2>1, <2>2 DEF HdInv, HdTypes, Content
  <2>4. /\ dev_left' \in 0..COUNTS /\ dev_sect' \in Nat /\ dev_left \in Nat
        /\ dev_sect = cmd.sect + cmd.count - left
    <3>1. dev_left \in 0..COUNTS /\ dev_sect \in Nat /\ COUNTS \in Nat /\ dev_left > 0
      BY <2>1, HdAssumption DEF HdInv, HdTypes
    <3>2. QED
      BY <2>1, <2>2, <3>1 DEF NextSector, Before
  <2>5. HdTypes'
    BY <1>5, <2>2, <2>3, <2>4 DEF HdInv, HdTypes, fsVars, hdVars, sysVars, clkVars
  <2>6. DevFollows'
    <3>1. After' /\ OneNotice'
      BY <1>1, <1>4, <1>5, <1>6, <2>1, <2>2 DEF NextSector, Before, After, NoNotice, OneNotice, hdVars
    <3>2. dev' = IF dev_left' > 0 THEN "drq" ELSE "idle"
      BY <2>2, <2>4
    <3>3. DevStored'
      <4>1. hd_pc' \in {"int_wait", "int_got"} /\ Awaits'
        BY <1>5, <1>6, <2>1 DEF Awaits, hdVars
      <4>2. disk'[cmd'.sect + cmd'.count - left'] = fsbuf'[At']
        BY <1>5, <1>6, <2>3, <2>4 DEF fsVars, hdVars
      <4>3. QED
        BY <3>1, <3>2, <4>1, <4>2 DEF DevStored
    <3>4. QED
      BY <1>2, <1>3, <1>5, <1>6, <1>10, <3>3 DEF DevFollows, hdVars
  <2>7. DataCopied'
    <3>1. Copied(request.cnt - left)
      BY <1>2, <2>1 DEF HdInv, DataCopied
    <3>2. Copied(request.cnt - left)'
      <4> SUFFICES ASSUME NEW i \in 1..request.cnt - left
                   PROVE  fsbuf[i] = disk'[NrTables + request.sect + i - 1]
        BY <1>5 DEF Copied, fsVars, hdVars
      <4> DEFINE s == NrTables + request.sect + i - 1
      <4>1. s \in Sector /\ s # dev_sect
        BY <2>1 DEF Sector
      <4>2. QED
        BY <4>1, <2>3, <3>1 DEF Copied
    <3>3. ~ Answered' /\ hd_pc' # "next"
      BY <1>1, <1>3, <1>5, <2>1, HandlingHD, TaskCalls
      DEF Answered, Answering, Handling, Awaits, fsVars, hdVars
    <3>4. QED
      BY <1>5, <3>2, <3>3 DEF HdInv, DataCopied, fsVars
  <2>8. QED
    BY <1>1, <1>7, <2>5, <2>6, <2>7 DEF HdInv
<1>11. QED
  BY <1>8, <1>9, <1>10

-----------------------------------------------------------------------------
(***************************************************************************)
(* The steps that call the kernel.                                         *)
(***************************************************************************)

(* What the words of the kernel range over.                                *)
LEMMA KernelWords ==
  ASSUME HdInv
  PROVE  /\ DOMAIN callOf = Proc /\ DOMAIN mbuf = Proc /\ DOMAIN has_int_msg = Proc
         /\ \A p \in Proc : has_int_msg[p] \in BOOLEAN
BY CallDomain DEF HdInv, IInv, TypeOK

(* Nobody sends but to the task that its pc says.                          *)
LEMMA Callers ==
  ASSUME HdInv
  PROVE  /\ callOf[FS] \in {Unblocked, SendTo(HD), RecvFrom(HD)}
         /\ callOf[SYS] \in {Unblocked, SendTo(HD), RecvFrom(ANY)}
         /\ callOf[SYS] = SendTo(HD) => hd_pc = "hear" /\ callOf[HD] = Unblocked
         /\ callOf[HD] = SendTo(FS) => Answering
         /\ callOf[HD] = SendTo(SYS) => hd_pc = "hear"
         /\ callOf[FS] = SendTo(HD) => \/ hd_pc = "receive" /\ callOf[HD] = Unblocked
<1>1. /\ callOf[FS] \in {Unblocked, SendTo(HD), RecvFrom(HD)}
      /\ callOf[FS] = SendTo(HD) => hd_pc = "receive" /\ callOf[HD] = Unblocked
  BY TaskCalls DEF HdInv, FsMeets, Between, Listening, Handling, Answering
<1>2. /\ callOf[SYS] \in {Unblocked, SendTo(HD), RecvFrom(ANY)}
      /\ callOf[SYS] = SendTo(HD) => hd_pc = "hear" /\ callOf[HD] = Unblocked
  BY TaskCalls DEF HdInv, SysMeets, SysRests, SysKnows, SysWaits
<1>3. callOf[HD] = SendTo(FS) => Answering
  BY TaskCalls DEF HdInv, FsMeets, Between, Listening, Handling, Answering, Handled, SysMeets
<1>4. callOf[HD] = SendTo(SYS) => hd_pc = "hear"
  BY TaskCalls DEF HdInv, FsMeets, Between, Listening, Handling, Answering, Handled, SysMeets
<1>5. QED
  BY <1>1, <1>2, <1>3, <1>4

(* A message that is on its way is signed by its sender.                   *)
LEMMA MessageOnTheWay ==
  ASSUME HdInv, NEW p \in Proc, NEW d \in Proc, callOf[p] = SendTo(d)
  PROVE  mbuf[p].source = p /\ mbuf[p].type # HARD_INT
<1>1. SENDING \in p_flags[p]
  BY CallIs DEF HdInv, Sends
<1>2. QED
  BY <1>1, TypeAssumption DEF HdInv, BufferHeld

LEMMA HdSends ==
  ASSUME HdInv, NEW p \in Proc, NEW d \in Proc, NEW t \in Type, msg_send(p, d, t),
         callOf[d] = Unblocked \/ \E s : callOf[d] = RecvFrom(s)
  PROVE  /\ IInv' /\ BufferHeld' /\ panic' = "none" /\ has_int_msg' = has_int_msg
         /\ callOf[p] = Unblocked /\ p # d
         /\ \/ /\ callOf[d] \in {RecvFrom(p), RecvFrom(ANY)}
               /\ callOf'[d] = Unblocked /\ mbuf'[d] = Signed(p, t)
               /\ \A q \in Proc : q # d => callOf'[q] = callOf[q]
               /\ \A q \in Proc : q # p /\ q # d => mbuf'[q] = mbuf[q]
            \/ /\ callOf[d] \notin {RecvFrom(p), RecvFrom(ANY)}
               /\ callOf'[p] = SendTo(d)
               /\ \A q \in Proc : q # p => callOf'[q] = callOf[q] /\ mbuf'[q] = mbuf[q]
<1>1. \A w : callOf[d] # SendTo(w)
  BY TaskCalls
<1>2. IInv' /\ SendEffect(p, d, t) /\ [Next]_ipcVars
  BY <1>1, SendDoes DEF HdInv
<1>3. BufferHeld'
  BY <1>2, BufferHeldStep DEF HdInv
<1>4. QED
  BY <1>2, <1>3, KernelWords DEF SendEffect, HdInv

LEMMA HdReceives ==
  ASSUME HdInv, NEW p \in Proc, NEW src \in Proc \cup {ANY, INTERRUPT}, Receives(p, src),
         MayReceive(p, src)
  PROVE  /\ IInv' /\ BufferHeld' /\ panic' = "none" /\ callOf[p] = Unblocked
         /\ \/ /\ has_int_msg[p] /\ ~ has_int_msg'[p] /\ callOf' = callOf
               /\ \A q \in Proc : q # p => has_int_msg'[q] = has_int_msg[q] /\ mbuf'[q] = mbuf[q]
            \/ /\ has_int_msg' = has_int_msg
               /\ \E f \in Proc :
                    /\ callOf[f] = SendTo(p) /\ src \in {f, ANY}
                    /\ callOf'[f] = Unblocked /\ mbuf'[p] = mbuf[f]
                    /\ \A q \in Proc : q # f => callOf'[q] = callOf[q]
                    /\ \A q \in Proc : q # p => mbuf'[q] = mbuf[q]
            \/ /\ has_int_msg' = has_int_msg /\ (src \in {ANY, INTERRUPT} => ~ has_int_msg[p])
               /\ \A f \in Proc : callOf[f] = SendTo(p) => src \notin {f, ANY}
               /\ callOf'[p] = RecvFrom(src)
               /\ \A q \in Proc : q # p => callOf'[q] = callOf[q] /\ mbuf'[q] = mbuf[q]
<1>1. msg_receive(p, src)
  BY DEF Receives, msg_receive
<1>2. IInv' /\ RecvEffect(p, src) /\ [Next]_ipcVars
  BY <1>1, RecvDoes DEF HdInv
<1>3. BufferHeld'
  BY <1>2, BufferHeldStep DEF HdInv
<1>4. callOf[p] = Unblocked /\ panic' = "none"
  BY <1>2 DEF RecvEffect, HdInv
<1>5. CASE GetsInterrupt(p, src)
  BY <1>2, <1>3, <1>4, <1>5, KernelWords DEF GetsInterrupt
<1>6. CASE \E f \in Proc : GetsMessage(p, src, f)
  <2>1. PICK f \in Proc : GetsMessage(p, src, f)
    BY <1>6
  <2>2. /\ callOf[f] = SendTo(p) /\ src \in {f, ANY}
        /\ callOf'[f] = Unblocked /\ mbuf'[p] = mbuf[f]
        /\ \A q \in Proc : q # f => callOf'[q] = callOf[q]
        /\ \A q \in Proc : q # p => mbuf'[q] = mbuf[q]
        /\ has_int_msg' = has_int_msg
    BY <2>1, KernelWords DEF GetsMessage
  <2>3. QED
    BY <1>2, <1>3, <1>4, <2>2
<1>7. CASE GetsNothing(p, src)
  BY <1>2, <1>3, <1>4, <1>7, KernelWords DEF GetsNothing, IntFirst
<1>8. QED
  BY <1>2, <1>5, <1>6, <1>7 DEF RecvEffect

LEMMA FSAskInv == HdInv /\ FSAsk => HdInv'
<1> SUFFICES ASSUME HdInv, FSAsk PROVE HdInv'
  OBVIOUS
<1>1. /\ fs_pc \in {"open", "ready"} /\ fs_pc' = "asked"
      /\ msg_send(FS, HD, request'.type)
      /\ UNCHANGED <<hdVars, sysVars, clkVars, devVars>>
  BY DEF FSAsk
<1>2. /\ \/ Between /\ callOf[HD] = Unblocked
         \/ Listening /\ callOf[HD] = RecvFrom(ANY)
      /\ callOf[FS] = Unblocked
  BY <1>1, TaskCalls DEF HdInv, FsMeets, Between, Listening, Handling, Answering
<1>3. /\ request' \in Transfers \cup {NoRequest, Request("DEV_OPEN", 0, 0)}
      /\ fs_pc = "open" => request'.type = "DEV_OPEN"
      /\ request'.type \in Type
  <2>1. \/ fs_pc = "open" /\ request' = Request("DEV_OPEN", 0, 0)
        \/ fs_pc = "ready" /\ (request' = NoRequest \/ request' \in Transfers)
    BY DEF FSAsk
  <2>2. /\ \A r \in Transfers : r.type \in {"DEV_READ", "DEV_WRITE"}
        /\ NoRequest.type = "DEV_IOCTL" /\ Request("DEV_OPEN", 0, 0).type = "DEV_OPEN"
    BY DEF Transfers, NoRequest, Request
  <2>3. QED
    BY <1>1, <2>1, <2>2, Tasks
<1>4. /\ IInv' /\ BufferHeld' /\ panic' = "none" /\ has_int_msg' = has_int_msg
      /\ \/ /\ callOf[HD] = RecvFrom(ANY)
            /\ callOf'[HD] = Unblocked /\ mbuf'[HD].type # HARD_INT
            /\ callOf'[FS] = callOf[FS]
         \/ /\ callOf[HD] # RecvFrom(ANY)
            /\ callOf'[FS] = SendTo(HD) /\ callOf'[HD] = callOf[HD]
      /\ callOf'[SYS] = callOf[SYS] /\ mbuf'[SYS] = mbuf[SYS]
  <2>1. callOf[HD] = Unblocked \/ \E s : callOf[HD] = RecvFrom(s)
    BY <1>2
  <2>2. Signed(FS, request'.type).type # HARD_INT
    BY <1>3, TypeAssumption DEF Signed
  <2>3. callOf[HD] # RecvFrom(FS)
    BY <1>2, TaskCalls, Tasks
  <2>4. QED
    BY <1>1, <1>3, <2>1, <2>2, <2>3, HdSends, Tasks
<1>5. /\ fsbuf' \in [1..MaxCnt -> Content]
      /\ request' \in Transfers /\ request'.type = "DEV_WRITE" =>
           \A i \in 1..request'.cnt : fsbuf'[i] \in Value
  <2>1. CASE fsbuf' = fsbuf /\ request'.type # "DEV_WRITE"
    BY <2>1 DEF HdInv, HdTypes
  <2>2. CASE request' \in Transfers /\ request'.type # "DEV_READ"
    <3>1. PICK b \in Buffer :
             fsbuf' = [i \in 1..MaxCnt |-> IF i <= request'.cnt THEN b[i] ELSE Garbage]
      BY <2>2 DEF FSAsk, Transfers, NoRequest, Request
    <3>2. request'.cnt \in 1..MaxCnt /\ MaxCnt \in Nat /\ b \in [1..MaxCnt -> Value]
      BY <2>2, <3>1, HdAssumption DEF Transfers
    <3>3. ASSUME NEW i \in 1..MaxCnt
          PROVE  fsbuf'[i] \in Content /\ (i <= request'.cnt => fsbuf'[i] \in Value)
      BY <3>1, <3>2 DEF Content
    <3>4. QED
      BY <3>1, <3>2, <3>3
  <2>3. \/ fsbuf' = fsbuf /\ request'.type # "DEV_WRITE"
        \/ request' \in Transfers /\ request'.type # "DEV_READ"
    BY DEF FSAsk, NoRequest, Request, Transfers
  <2>4. QED
    BY <2>1, <2>2, <2>3
<1>6. HdTypes'
  BY <1>1, <1>3, <1>5 DEF HdInv, HdTypes, hdVars, sysVars, clkVars, devVars
<1>7. FsMeets' /\ SysMeets'
  BY <1>1, <1>2, <1>4, TaskCalls
  DEF HdInv, FsMeets, Between, Listening, Handling, SysMeets, SysRests, SysKnows, SysWaits,
      hdVars, sysVars
<1>8. TodoFits' /\ ~ Issued' /\ ~ Issued /\ ~ Answered'
  BY <1>1, <1>2, <1>4, TaskCalls DEF Between, Listening, TodoFits, Issued, Polling, Handled,
     Answered, Answering, hdVars
<1>9. BaseKnown'
  BY <1>1, <1>2, <1>3, <1>4, TaskCalls
  DEF HdInv, BaseKnown, Opening, Between, Listening, hdVars
<1>10. DevFollows'
  BY <1>1, <1>4, <1>8 DEF HdInv, DevFollows, NoNotice, devVars
<1>11. DataCopied'
  BY <1>1, <1>2, <1>5, <1>8 DEF DataCopied, Between, Listening, hdVars
<1>12. TimeSeen'
  BY <1>1, <1>2 DEF HdInv, TimeSeen, ToldFirst, Overdue, Polling, Between, Listening, hdVars, sysVars, clkVars
<1>13. QED
  BY <1>4, <1>6, <1>7, <1>8, <1>9, <1>10, <1>11, <1>12 DEF HdInv

LEMMA FSAwaitInv == HdInv /\ FSAwait => HdInv'
<1> SUFFICES ASSUME HdInv, FSAwait PROVE HdInv'
  OBVIOUS
<1>1. /\ fs_pc = "asked" /\ fs_pc' = "waiting" /\ Receives(FS, HD)
      /\ UNCHANGED <<request, fsbuf, hdVars, sysVars, clkVars, devVars>>
  BY DEF FSAwait
<1>2. /\ IInv' /\ BufferHeld' /\ panic' = "none" /\ has_int_msg' = has_int_msg
      /\ callOf[FS] = Unblocked
      /\ \/ callOf[HD] = SendTo(FS) /\ callOf'[HD] = Unblocked /\ callOf'[FS] = Unblocked
         \/ /\ callOf[HD] # SendTo(FS)
            /\ callOf'[HD] = callOf[HD] /\ callOf'[FS] = RecvFrom(HD)
            /\ mbuf'[HD] = mbuf[HD]
      /\ callOf'[SYS] = callOf[SYS] /\ mbuf'[SYS] = mbuf[SYS]
  <2>1. MayReceive(FS, HD) /\ ~ has_int_msg[FS]
    BY Tasks DEF MayReceive, HdInv
  <2>2. QED
    BY <1>1, <2>1, HdReceives, Tasks
<1>3. \/ Answering /\ callOf'[HD] = Unblocked /\ callOf'[FS] = Unblocked
      \/ /\ Handling /\ callOf'[HD] = callOf[HD] /\ callOf'[FS] = RecvFrom(HD)
         /\ mbuf'[HD] = mbuf[HD]
  BY <1>1, <1>2, Callers, TaskCalls
  DEF HdInv, FsMeets, Between, Listening, Handling, Answering
<1>4. HdTypes'
  BY <1>1 DEF HdInv, HdTypes, hdVars, sysVars, clkVars, devVars
<1>5. FsMeets' /\ SysMeets'
  BY <1>1, <1>2, <1>3, TaskCalls
  DEF HdInv, FsMeets, Between, Handling, Answering, SysMeets, SysRests, SysKnows, SysWaits,
      Handled, hdVars, sysVars
<1>6. TodoFits' /\ BaseKnown'
  BY <1>1, <1>2, <1>3, TaskCalls
  DEF HdInv, TodoFits, BaseKnown, Opening, Answering, Handled, hd_rdwt, hdVars
<1>7. CASE Answering
  <2>1. ~ Issued /\ ~ Issued'
    BY <1>1, <1>7 DEF Issued, Polling, Answering, hdVars
  <2>2. DevFollows'
    BY <1>1, <1>2, <2>1 DEF HdInv, DevFollows, NoNotice, devVars
  <2>3. DataCopied'
    BY <1>1, <1>7, <2>1 DEF HdInv, DataCopied, Answered, Copied, Answering, hdVars, devVars
  <2>4. TimeSeen'
    BY <1>1, <1>7 DEF HdInv, TimeSeen, ToldFirst, Overdue, Polling, Answering, hdVars, sysVars, clkVars
  <2>5. QED
    BY <1>2, <1>4, <1>5, <1>6, <2>2, <2>3, <2>4 DEF HdInv
<1>8. CASE Handling /\ callOf'[HD] = callOf[HD] /\ callOf'[FS] = RecvFrom(HD)
  <2>1. DevFollows'
    BY <1>1, <1>2, <1>8
    DEF HdInv, DevFollows, Issued, Polling, NoNotice, OneNotice, Awaits, cmd, uncounted,
        Before, After, DevReads, DevAccepts, DevStores, DevStored, At, hdVars, devVars
  <2>2. DataCopied'
    BY <1>1, <1>8, TaskCalls DEF HdInv, DataCopied, Issued, Polling, Answered, Copied,
       Answering, Handling, Handled, hdVars, devVars
  <2>3. TimeSeen'
    BY <1>1, <1>2, <1>8 DEF HdInv, TimeSeen, ToldFirst, Overdue, Polling, hdVars, sysVars, clkVars
  <2>4. QED
    BY <1>2, <1>4, <1>5, <1>6, <2>1, <2>2, <2>3 DEF HdInv
<1>9. QED
  BY <1>3, <1>7, <1>8

LEMMA SysReceiveInv == HdInv /\ SysReceive => HdInv'
<1> SUFFICES ASSUME HdInv, SysReceive PROVE HdInv'
  OBVIOUS
<1>1. /\ sys_pc = "receive" /\ sys_pc' = "answer" /\ Receives(SYS, ANY)
      /\ UNCHANGED <<told, fsVars, hdVars, clkVars, devVars>>
  BY DEF SysReceive
<1>2. /\ IInv' /\ BufferHeld' /\ panic' = "none" /\ has_int_msg' = has_int_msg
      /\ callOf[SYS] = Unblocked
      /\ \/ /\ callOf[HD] = SendTo(SYS) /\ callOf'[HD] = Unblocked /\ callOf'[SYS] = Unblocked
            /\ mbuf'[SYS].source = HD
         \/ /\ callOf[HD] # SendTo(SYS) /\ callOf'[HD] = callOf[HD]
            /\ callOf'[SYS] = RecvFrom(ANY)
      /\ callOf'[FS] = callOf[FS] /\ mbuf'[HD] = mbuf[HD]
  <2>1. MayReceive(SYS, ANY) /\ ~ has_int_msg[SYS]
    BY Tasks DEF MayReceive, HdInv
  <2>2. \A f \in Proc : callOf[f] = SendTo(SYS) => f = HD
    BY Callers, TaskCalls, HdAssumption
  <2>3. callOf[HD] = SendTo(SYS) => mbuf[HD].source = HD
    BY MessageOnTheWay, Tasks
  <2>4. QED
    BY <1>1, <2>1, <2>2, <2>3, HdReceives, Tasks
<1>3. hd_pc # "hear" \/ callOf[HD] = SendTo(SYS)
  BY <1>1, <1>2, TaskCalls DEF HdInv, SysMeets, SysKnows, SysWaits
<1>4. HdTypes'
  BY <1>1 DEF HdInv, HdTypes, fsVars, hdVars, clkVars, devVars
<1>5. callOf'[HD] # callOf[HD] => hd_pc = "hear"
  BY <1>2, Callers
<1>6. SysMeets'
  BY <1>1, <1>2, <1>3, <1>5, Callers, TaskCalls
  DEF HdInv, SysMeets, SysRests, SysKnows, SysWaits, hdVars
<1>7. FsMeets' /\ TodoFits' /\ BaseKnown'
  BY <1>1, <1>2, <1>5
  DEF HdInv, FsMeets, Between, Listening, Handling, Answering, TodoFits, BaseKnown, Opening,
      hd_rdwt, fsVars, hdVars
<1>8. DevFollows' /\ DataCopied'
  BY <1>1, <1>2, <1>5
  DEF HdInv, DevFollows, Issued, Polling, NoNotice, OneNotice, Awaits, cmd, uncounted,
      Before, After, DevReads, DevAccepts, DevStores, DevStored, At, DataCopied, Answered,
      Copied, Answering, fsVars, hdVars, devVars
<1>9. TimeSeen'
  BY <1>1, <1>2, <1>3, <1>5, TaskCalls DEF HdInv, TimeSeen, ToldFirst, Overdue, Polling, hdVars, clkVars
<1>10. QED
  BY <1>2, <1>4, <1>6, <1>7, <1>8, <1>9 DEF HdInv

LEMMA SysAnswerInv == HdInv /\ SysAnswer => HdInv'
<1> SUFFICES ASSUME HdInv, SysAnswer PROVE HdInv'
  OBVIOUS
<1>1. /\ sys_pc = "answer" /\ sys_pc' = "receive"
      /\ msg_send(SYS, mbuf[SYS].source, "GET_TICKS")
      /\ told' = ticks /\ waited' = IF since = NotYet THEN 0 ELSE waited
      /\ UNCHANGED <<ticks, fsVars, hdVars, devVars>>
  BY DEF SysAnswer
<1>2. callOf[SYS] = Unblocked
  BY <1>1, CallIs, Tasks
  DEF HdInv, msg_send, SendDeadlock, SendHandOff, SendBlock, Running
<1>3. /\ SysKnows
      /\ \/ hd_pc = "hear" /\ callOf[HD] = Unblocked
         \/ hd_pc = "heard" /\ callOf[HD] = RecvFrom(SYS)
  BY <1>1, <1>2, TaskCalls DEF HdInv, SysMeets, SysRests, SysKnows, SysWaits
<1>4. /\ IInv' /\ BufferHeld' /\ panic' = "none" /\ has_int_msg' = has_int_msg
      /\ \/ /\ hd_pc = "heard" /\ callOf'[HD] = Unblocked /\ callOf'[SYS] = Unblocked
         \/ /\ hd_pc = "hear" /\ callOf'[SYS] = SendTo(HD) /\ callOf'[HD] = Unblocked
      /\ callOf'[FS] = callOf[FS]
  <2>1. msg_send(SYS, HD, "GET_TICKS")
    BY <1>1, <1>3 DEF SysKnows
  <2>2. callOf[HD] = Unblocked \/ \E s : callOf[HD] = RecvFrom(s)
    BY <1>3
  <2>3. "GET_TICKS" \in Type
    BY Tasks
  <2>4. QED
    BY <1>2, <1>3, <2>1, <2>2, <2>3, HdSends, Tasks, TaskCalls
<1>5. HdTypes'
  BY <1>1, HdAssumption DEF HdInv, HdTypes, fsVars, hdVars, devVars
<1>6. FsMeets' /\ SysMeets'
  BY <1>1, <1>3, <1>4 DEF HdInv, FsMeets, Between, Listening, Handling, Answering,
     SysMeets, SysRests, SysWaits, fsVars, hdVars
<1>7. TodoFits' /\ BaseKnown'
  BY <1>1, <1>3, <1>4 DEF HdInv, TodoFits, BaseKnown, Opening, hd_rdwt, fsVars, hdVars
<1>8. DevFollows' /\ DataCopied'
  BY <1>1, <1>3, <1>4
  DEF HdInv, DevFollows, Issued, Polling, NoNotice, OneNotice, Awaits, cmd, uncounted,
      Before, After, DevReads, DevAccepts, DevStores, DevStored, At, DataCopied, Answered,
      Copied, Answering, fsVars, hdVars, devVars
<1>9. TimeSeen'
  <2>1. ticks \in Nat /\ since \in Int /\ waited \in Nat
    BY DEF HdInv, HdTypes, NotYet
  <2>2. waited' = waited => Overdue(waited)' = Overdue(waited)
    BY DEF Overdue
  <2>3. QED
    BY <1>1, <1>3, <2>1, <2>2 DEF HdInv, TimeSeen, Polling, hdVars
<1>10. QED
  BY <1>4, <1>5, <1>6, <1>7, <1>8, <1>9 DEF HdInv

LEMMA HdHandlerInv == HdInv /\ hd_handler => HdInv'
<1> SUFFICES ASSUME HdInv, hd_handler PROVE HdInv'
  OBVIOUS
<1>1. /\ intrq /\ intrq' = FALSE /\ inform_int(HD)
      /\ UNCHANGED <<dev, dev_cmd, dev_left, dev_sect, dev_data, disk,
                     fsVars, hdVars, sysVars, clkVars>>
  BY DEF hd_handler
<1>2. Issued /\ Awaits /\ OneNotice /\ ~ has_int_msg[HD]
  BY <1>1 DEF HdInv, DevFollows, NoNotice, OneNotice, DevReads, DevAccepts, DevStores, DevStored
<1>3. \/ hd_pc = "int_wait" /\ callOf[HD] = Unblocked
      \/ hd_pc = "int_got" /\ callOf[HD] = RecvFrom(INTERRUPT)
  BY <1>2 DEF HdInv, SysMeets, Awaits
<1>4. IInv' /\ IntEffect(HD) /\ [Next]_ipcVars
  BY <1>1, IntDoes, Tasks DEF HdInv
<1>5. BufferHeld' /\ panic' = "none"
  BY <1>4, BufferHeldStep DEF HdInv, IntEffect
<1>6. /\ \/ /\ hd_pc = "int_got" /\ callOf'[HD] = Unblocked /\ has_int_msg' = has_int_msg
         \/ /\ hd_pc = "int_wait" /\ callOf'[HD] = Unblocked /\ has_int_msg'[HD]
      /\ callOf'[FS] = callOf[FS] /\ callOf'[SYS] = callOf[SYS]
      /\ mbuf'[SYS] = mbuf[SYS]
      /\ ~ has_int_msg'[FS] /\ ~ has_int_msg'[SYS]
  BY <1>3, <1>4, KernelWords, TaskCalls, Tasks DEF HdInv, IntEffect
<1>7. HdTypes'
  <2>1. HdTypes /\ intrq' \in BOOLEAN
    BY <1>1 DEF HdInv
  <2>2. UNCHANGED <<fs_pc, request, fsbuf, disk, hd_pc, todo, left, base, want, since, told,
                    sys_pc, ticks, waited, dev, dev_left, dev_sect>>
    BY <1>1 DEF fsVars, hdVars, sysVars, clkVars
  <2>3. QED
    BY <2>1, <2>2 DEF HdTypes
<1>8. Handling /\ hd_pc \in Handled
  BY <1>3, HandlingHD DEF Handled
<1>9. FsMeets' /\ SysMeets'
  BY <1>1, <1>3, <1>6, <1>8 DEF HdInv, FsMeets, Handling, SysMeets, SysRests,
     fsVars, hdVars, sysVars
<1>10. TodoFits' /\ BaseKnown' /\ TimeSeen'
  BY <1>1, <1>3, <1>6 DEF HdInv, TodoFits, BaseKnown, Opening, hd_rdwt, TimeSeen, ToldFirst, Overdue, Polling,
     fsVars, hdVars, sysVars, clkVars
<1>11. Issued' /\ cmd' = cmd /\ uncounted' = uncounted /\ Before' = Before /\ After' = After
       /\ At' = At
  BY <1>1, <1>2 DEF Issued, Polling, cmd, uncounted, Byte, Before, After, At, hdVars, fsVars
<1>12. DevFollows'
  <2>1. CASE hd_pc = "int_wait"
    <3>1. OneNotice' /\ Awaits'
      BY <1>1, <1>6, <2>1 DEF OneNotice, Awaits, hdVars
    <3>2. QED
      BY <1>1, <1>2, <1>11, <2>1, <3>1
      DEF HdInv, DevFollows, DevReads, DevAccepts, DevStores, DevStored, Polling, NoNotice,
          fsVars, hdVars
  <2>2. CASE hd_pc = "int_got"
    <3>1. NoNotice' /\ ~ Awaits'
      BY <1>1, <1>2, <1>6, <2>2, TaskCalls DEF NoNotice, Awaits, hdVars
    <3>2. QED
      BY <1>1, <1>2, <1>11, <2>2, <3>1
      DEF HdInv, DevFollows, DevReads, DevAccepts, DevStores, DevStored, Polling, NoNotice,
          fsVars, hdVars
  <2>3. QED
    BY <1>3, <2>1, <2>2
<1>13. DataCopied'
  BY <1>1, <1>2, <1>3, <1>6, <1>11
  DEF HdInv, DataCopied, Answered, Copied, Answering, fsVars, hdVars
<1>14. QED
  BY <1>4, <1>5, <1>6, <1>7, <1>9, <1>10, <1>12, <1>13 DEF HdInv

LEMMA HDReceiveInv == HdInv /\ HDReceive => HdInv'
<1> SUFFICES ASSUME HdInv, HDReceive PROVE HdInv'
  OBVIOUS
<1>1. /\ hd_pc = "receive" /\ hd_pc' = "dispatch" /\ Receives(HD, ANY)
      /\ UNCHANGED <<todo, left, want, since, base, fsVars, sysVars, clkVars, devVars>>
  BY DEF HDReceive
<1>2. ~ has_int_msg[HD]
  BY <1>1 DEF HdInv, DevFollows, Issued, Polling, NoNotice
<1>3. /\ IInv' /\ BufferHeld' /\ panic' = "none" /\ has_int_msg' = has_int_msg
      /\ callOf[HD] = Unblocked
      /\ \/ /\ callOf[FS] = SendTo(HD) /\ callOf'[FS] = Unblocked /\ callOf'[HD] = Unblocked
            /\ mbuf'[HD].type # HARD_INT
         \/ /\ callOf[FS] # SendTo(HD) /\ callOf'[FS] = callOf[FS]
            /\ callOf'[HD] = RecvFrom(ANY)
      /\ callOf'[SYS] = callOf[SYS] /\ mbuf'[SYS] = mbuf[SYS]
  <2>1. MayReceive(HD, ANY)
    BY Tasks DEF MayReceive
  <2>2. \A f \in Proc : callOf[f] = SendTo(HD) => f = FS
    <3>1. callOf[HD] = Unblocked
      BY <1>1, <2>1, HdReceives, Tasks
    <3>2. QED
      BY <1>1, <3>1, Callers, TaskCalls, HdAssumption
  <2>3. callOf[FS] = SendTo(HD) => mbuf[FS].type # HARD_INT
    BY MessageOnTheWay, Tasks
  <2>4. QED
    BY <1>1, <1>2, <2>1, <2>2, <2>3, HdReceives, Tasks
<1>4. Between
  BY <1>1, <1>3, TaskCalls DEF HdInv, FsMeets, Between, Listening, Handling, Answering, Handled
<1>5. HdTypes'
  BY <1>1 DEF HdInv, HdTypes, fsVars, sysVars, clkVars, devVars
<1>6. FsMeets' /\ SysMeets'
  BY <1>1, <1>3, <1>4, TaskCalls
  DEF HdInv, FsMeets, Between, Listening, Handling, SysMeets, SysRests, fsVars, sysVars
<1>7. TodoFits' /\ BaseKnown' /\ TimeSeen'
  BY <1>1, <1>3, <1>4 DEF HdInv, TodoFits, BaseKnown, Opening, hd_rdwt, TimeSeen, ToldFirst, Overdue, Polling,
     Handled, fsVars, sysVars, clkVars
<1>8. DevFollows' /\ DataCopied'
  BY <1>1, <1>3, <1>4, TaskCalls
  DEF HdInv, DevFollows, Issued, Polling, NoNotice, DataCopied, Answered,
      Copied, Answering, Between, fsVars, devVars
<1>9. QED
  BY <1>3, <1>5, <1>6, <1>7, <1>8 DEF HdInv

LEMMA HDReplyInv == HdInv /\ HDReply => HdInv'
<1> SUFFICES ASSUME HdInv, HDReply PROVE HdInv'
  OBVIOUS
<1>1. /\ hd_pc = "next" /\ todo = <<>> /\ hd_pc' = "receive"
      /\ msg_send(HD, FS, request.type)
      /\ UNCHANGED <<todo, left, want, since, base, fsVars, sysVars, clkVars, devVars>>
  BY DEF HDReply
<1>2. Handling /\ callOf[HD] = Unblocked
  BY <1>1, HandlingHD DEF Handled, HdInv, SysMeets
<1>3. /\ IInv' /\ BufferHeld' /\ panic' = "none" /\ has_int_msg' = has_int_msg
      /\ \/ fs_pc = "waiting" /\ callOf'[FS] = Unblocked /\ callOf'[HD] = Unblocked
         \/ /\ fs_pc = "asked" /\ callOf'[FS] = Unblocked /\ callOf'[HD] = SendTo(FS)
      /\ callOf'[SYS] = callOf[SYS] /\ mbuf'[SYS] = mbuf[SYS]
  <2>1. callOf[FS] = Unblocked \/ \E s : callOf[FS] = RecvFrom(s)
    BY <1>2 DEF Handling
  <2>2. request.type \in Type
    BY Tasks DEF HdInv, HdTypes, Transfers, NoRequest, Request
  <2>3. QED
    BY <1>1, <1>2, <2>1, <2>2, HdSends, Tasks, TaskCalls DEF Handling
<1>4. HdTypes'
  BY <1>1 DEF HdInv, HdTypes, fsVars, sysVars, clkVars, devVars
<1>5. FsMeets' /\ SysMeets'
  BY <1>1, <1>3 DEF HdInv, FsMeets, Between, Answering, SysMeets, SysRests, fsVars, sysVars
<1>6. TodoFits' /\ BaseKnown' /\ TimeSeen'
  BY <1>1, <1>2, <1>3, TaskCalls
  DEF HdInv, TodoFits, BaseKnown, Opening, Handling, TimeSeen, ToldFirst, Overdue, Polling, Handled,
      fsVars, sysVars, clkVars
<1>7. DevFollows' /\ DataCopied'
  BY <1>1, <1>3
  DEF HdInv, DevFollows, Issued, Polling, NoNotice, DataCopied, Answered,
      Copied, Answering, fsVars, devVars
<1>8. QED
  BY <1>3, <1>4, <1>5, <1>6, <1>7 DEF HdInv

LEMMA HDAskInv == HdInv /\ HDAsk => HdInv'
<1> SUFFICES ASSUME HdInv, HDAsk PROVE HdInv'
  OBVIOUS
<1>1. /\ hd_pc = "ask" /\ hd_pc' = "hear" /\ msg_send(HD, SYS, "GET_TICKS")
      /\ UNCHANGED <<todo, left, want, since, base, fsVars, sysVars, clkVars, devVars>>
  BY DEF HDAsk
<1>2. Handling /\ SysRests /\ callOf[HD] = Unblocked
  BY <1>1, HandlingHD DEF Handled, HdInv, SysMeets
<1>3. /\ IInv' /\ BufferHeld' /\ panic' = "none" /\ has_int_msg' = has_int_msg
      /\ \/ /\ sys_pc = "receive" /\ callOf'[SYS] = Unblocked /\ callOf'[HD] = SendTo(SYS)
         \/ /\ sys_pc = "answer" /\ callOf'[SYS] = Unblocked /\ callOf'[HD] = Unblocked
            /\ mbuf'[SYS].source = HD
      /\ callOf'[FS] = callOf[FS]
  <2>1. callOf[SYS] = Unblocked \/ \E s : callOf[SYS] = RecvFrom(s)
    BY <1>2 DEF SysRests
  <2>2. "GET_TICKS" \in Type /\ Signed(HD, "GET_TICKS").source = HD
    BY Tasks DEF Signed
  <2>3. QED
    BY <1>1, <1>2, <2>1, <2>2, HdSends, Tasks, TaskCalls DEF SysRests
<1>4. HdTypes'
  BY <1>1 DEF HdInv, HdTypes, Handled, fsVars, sysVars, clkVars, devVars
<1>5. FsMeets' /\ SysMeets'
  BY <1>1, <1>2, <1>3 DEF HdInv, FsMeets, Handling, Handled, SysMeets, SysKnows, fsVars, sysVars
<1>6. TodoFits' /\ BaseKnown' /\ TimeSeen'
  BY <1>1, <1>2, <1>3, TaskCalls
  DEF HdInv, TodoFits, BaseKnown, Opening, Handling, TimeSeen, ToldFirst, Overdue, Polling, Handled, hd_rdwt,
      fsVars, sysVars, clkVars
<1>7. DevFollows' /\ DataCopied'
  BY <1>1, <1>2, <1>3, TaskCalls
  DEF HdInv, DevFollows, Issued, Polling, NoNotice, OneNotice, Awaits, cmd, uncounted,
      Before, After, DevReads, DevAccepts, DevStores, DevStored, At, DataCopied, Answered,
      Copied, Answering, Handling, fsVars, devVars
<1>8. QED
  BY <1>3, <1>4, <1>5, <1>6, <1>7 DEF HdInv

LEMMA HDHearInv == HdInv /\ HDHear => HdInv'
<1> SUFFICES ASSUME HdInv, HDHear PROVE HdInv'
  OBVIOUS
<1>1. /\ hd_pc = "hear" /\ hd_pc' = "heard" /\ Receives(HD, SYS)
      /\ UNCHANGED <<todo, left, want, since, base, fsVars, sysVars, clkVars, devVars>>
  BY DEF HDHear
<1>2. Handling /\ ~ has_int_msg[HD]
  BY <1>1, HandlingHD DEF Handled, HdInv, DevFollows, Issued, Polling, NoNotice,
     DevReads, DevAccepts, DevStores, DevStored, Awaits
<1>3. /\ IInv' /\ BufferHeld' /\ panic' = "none" /\ has_int_msg' = has_int_msg
      /\ callOf[HD] = Unblocked
      /\ \/ callOf[SYS] = SendTo(HD) /\ callOf'[SYS] = Unblocked /\ callOf'[HD] = Unblocked
         \/ /\ callOf[SYS] # SendTo(HD) /\ callOf'[SYS] = callOf[SYS]
            /\ callOf'[HD] = RecvFrom(SYS) /\ mbuf'[SYS] = mbuf[SYS]
      /\ callOf'[FS] = callOf[FS]
  <2>1. MayReceive(HD, SYS)
    BY <1>2, Tasks DEF MayReceive
  <2>2. QED
    BY <1>1, <1>2, <2>1, HdReceives, Tasks
<1>4. SysKnows \/ SysWaits
  BY <1>1, <1>3, TaskCalls DEF HdInv, SysMeets
<1>5. HdTypes'
  BY <1>1 DEF HdInv, HdTypes, Handled, fsVars, sysVars, clkVars, devVars
<1>6. FsMeets' /\ SysMeets'
  BY <1>1, <1>2, <1>3, <1>4, TaskCalls
  DEF HdInv, FsMeets, Handling, Handled, SysMeets, SysKnows, SysWaits, SysRests,
      fsVars, sysVars
<1>7. TodoFits' /\ BaseKnown'
  BY <1>1, <1>2, <1>3, TaskCalls
  DEF HdInv, TodoFits, BaseKnown, Opening, Handling, Handled, hd_rdwt, fsVars
<1>8. TimeSeen'
  BY <1>1, <1>3, <1>4, TaskCalls
  DEF HdInv, TimeSeen, ToldFirst, Overdue, Polling, SysKnows, SysWaits, sysVars, clkVars
<1>9. DevFollows' /\ DataCopied'
  BY <1>1, <1>2, <1>3, TaskCalls
  DEF HdInv, DevFollows, Issued, Polling, NoNotice, OneNotice, Awaits, cmd, uncounted,
      Before, After, DevReads, DevAccepts, DevStores, DevStored, At, DataCopied, Answered,
      Copied, Answering, Handling, fsVars, devVars
<1>10. QED
  BY <1>3, <1>5, <1>6, <1>7, <1>8, <1>9 DEF HdInv

LEMMA InterruptWaitInv == HdInv /\ interrupt_wait => HdInv'
<1> SUFFICES ASSUME HdInv, interrupt_wait PROVE HdInv'
  OBVIOUS
<1>1. /\ hd_pc = "int_wait" /\ hd_pc' = "int_got" /\ Receives(HD, INTERRUPT)
      /\ UNCHANGED <<todo, left, want, since, base, fsVars, sysVars, clkVars, devVars>>
  BY DEF interrupt_wait
<1>2. Handling /\ Issued /\ Awaits
  BY <1>1, HandlingHD DEF Handled, Issued, Awaits
<1>3. /\ IInv' /\ BufferHeld' /\ panic' = "none" /\ callOf[HD] = Unblocked
      /\ \/ has_int_msg[HD] /\ ~ has_int_msg'[HD] /\ callOf'[HD] = Unblocked
         \/ ~ has_int_msg[HD] /\ ~ has_int_msg'[HD] /\ callOf'[HD] = RecvFrom(INTERRUPT)
      /\ callOf'[FS] = callOf[FS] /\ callOf'[SYS] = callOf[SYS]
      /\ mbuf'[SYS] = mbuf[SYS] /\ ~ has_int_msg'[FS] /\ ~ has_int_msg'[SYS]
  <2>1. MayReceive(HD, INTERRUPT)
    BY Tasks DEF MayReceive
  <2>2. \A f \in Proc : INTERRUPT \notin {f, ANY}
    BY Tasks
  <2>3. ~ has_int_msg[FS] /\ ~ has_int_msg[SYS]
    BY DEF HdInv
  <2>4. QED
    BY <1>1, <2>1, <2>2, <2>3, HdReceives, Tasks
<1>4. HdTypes'
  BY <1>1 DEF HdInv, HdTypes, Handled, fsVars, sysVars, clkVars, devVars
<1>5. FsMeets' /\ SysMeets'
  BY <1>1, <1>2, <1>3 DEF HdInv, FsMeets, Handling, Handled, SysMeets, SysRests, fsVars, sysVars
<1>6. TodoFits' /\ BaseKnown' /\ TimeSeen'
  BY <1>1, <1>2, <1>3, TaskCalls
  DEF HdInv, TodoFits, BaseKnown, Opening, Handling, TimeSeen, ToldFirst, Overdue, Polling, Handled, hd_rdwt,
      fsVars, sysVars, clkVars
<1>7. Issued' /\ cmd' = cmd /\ uncounted' = uncounted /\ Before' = Before /\ After' = After
      /\ At' = At
  BY <1>1 DEF Issued, Polling, cmd, uncounted, Byte, Before, After, At, fsVars, devVars
<1>8. DevFollows'
  <2>1. CASE has_int_msg[HD]
    <3>1. OneNotice /\ NoNotice' /\ ~ Awaits'
      BY <1>1, <1>2, <1>3, <2>1, TaskCalls
      DEF HdInv, DevFollows, DevReads, DevAccepts, DevStores, DevStored, NoNotice, OneNotice,
          Awaits, devVars
    <3>2. QED
      BY <1>1, <1>2, <1>7, <2>1, <3>1
      DEF HdInv, DevFollows, DevReads, DevAccepts, DevStores, DevStored, Polling, NoNotice,
          fsVars, devVars
  <2>2. CASE ~ has_int_msg[HD]
    <3>1. NoNotice' = NoNotice /\ OneNotice' = OneNotice /\ Awaits'
      BY <1>1, <1>3, <2>2, TaskCalls DEF NoNotice, OneNotice, Awaits, devVars
    <3>2. QED
      BY <1>1, <1>2, <1>7, <3>1
      DEF HdInv, DevFollows, DevReads, DevAccepts, DevStores, DevStored, Polling,
          fsVars, devVars
  <2>3. QED
    BY <2>1, <2>2
<1>9. DataCopied'
  BY <1>1, <1>2, <1>3, <1>7, TaskCalls
  DEF HdInv, DataCopied, Answered, Copied, Answering, Handling, fsVars, devVars
<1>10. QED
  BY <1>3, <1>4, <1>5, <1>6, <1>8, <1>9 DEF HdInv

-----------------------------------------------------------------------------
(***************************************************************************)
(* What holds of every behaviour.                                          *)
(***************************************************************************)
LEMMA HdInitInv == HdInit => HdInv
<1> SUFFICES ASSUME HdInit PROVE HdInv
  OBVIOUS
<1>1. IInv /\ BufferHeld /\ panic = "none" /\ ~ has_int_msg[FS] /\ ~ has_int_msg[SYS]
      /\ ~ has_int_msg[HD]
  BY InitInv, Tasks DEF HdInit, Init, BufferHeld
<1>2. callOf[FS] = Unblocked /\ callOf[HD] = Unblocked /\ callOf[SYS] = Unblocked
  BY <1>1, CallIs, Tasks DEF HdInit, Init
<1>3. HdTypes
  <2>1. /\ MaxCnt \in Nat /\ NrTables \in Nat /\ COUNTS \in Nat
        /\ MAX_TICKS \in Nat \ {0}
    BY HdAssumption
  <2>2. fsbuf \in [1..MaxCnt -> Content] /\ disk \in [Sector -> Content]
    BY DEF HdInit, Content
  <2>3. todo \in Seq(HdCommand)
    BY DEF HdInit
  <2>4. /\ left \in 0..MaxCnt /\ told \in 0..MAX_TICKS - 1 /\ ticks \in 0..MAX_TICKS - 1
        /\ waited \in Nat /\ dev_left \in 0..COUNTS /\ dev_sect \in Nat
    BY <2>1 DEF HdInit
  <2>5. /\ fs_pc = "open" /\ request = NoRequest /\ hd_pc = "receive" /\ base = 0 /\ want = "BSY"
        /\ since = NotYet /\ sys_pc = "receive" /\ dev = "idle" /\ intrq = FALSE
    BY DEF HdInit
  <2>6. QED
    BY <2>2, <2>3, <2>4, <2>5 DEF HdTypes, Handled
<1>4. FsMeets /\ SysMeets
  BY <1>2 DEF HdInit, FsMeets, Between, SysMeets, SysRests
<1>5. TodoFits /\ BaseKnown /\ TimeSeen
  BY DEF HdInit, TodoFits, Handled, BaseKnown, TimeSeen, ToldFirst
<1>6. DevFollows
  BY <1>1 DEF HdInit, DevFollows, Issued, Polling, NoNotice
<1>7. DataCopied
  BY DEF HdInit, DataCopied, NoRequest, Request, Transfers
<1>8. QED
  BY <1>1, <1>3, <1>4, <1>5, <1>6, <1>7 DEF HdInv

LEMMA HdStutterInv == HdInv /\ UNCHANGED vars => HdInv'
<1> SUFFICES ASSUME HdInv, UNCHANGED vars PROVE HdInv'
  OBVIOUS
<1>1. UNCHANGED <<ipcVars, fsVars, hdVars, sysVars, clkVars, devVars>>
  BY DEF vars
<1>2. /\ IInv' /\ BufferHeld' /\ panic' = "none"
      /\ callOf' = callOf /\ mbuf' = mbuf /\ has_int_msg' = has_int_msg
  BY <1>1, LocalStep
<1>3. HdTypes' /\ FsMeets' /\ SysMeets'
  BY <1>1, <1>2 DEF HdInv, HdTypes, FsMeets, Between, Listening, Handling, Answering,
     SysMeets, SysRests, SysKnows, SysWaits, fsVars, hdVars, sysVars, clkVars, devVars
<1>4. TodoFits' /\ BaseKnown' /\ TimeSeen'
  BY <1>1, <1>2 DEF HdInv, TodoFits, BaseKnown, Opening, hd_rdwt, TimeSeen, ToldFirst, Overdue, Polling,
     fsVars, hdVars, sysVars, clkVars, devVars
<1>5. DevFollows'
  BY <1>1, <1>2 DEF HdInv, DevFollows, Issued, Polling, NoNotice, OneNotice, Awaits,
     cmd, uncounted, Before, After, DevReads, DevAccepts, DevStores, DevStored, At, Byte,
     fsVars, hdVars, devVars
<1>6. DataCopied'
  BY <1>1, <1>2 DEF HdInv, DataCopied, Copied, Issued, Polling, Answered, Answering,
     fsVars, hdVars, devVars
<1>7. QED
  BY <1>2, <1>3, <1>4, <1>5, <1>6 DEF HdInv

LEMMA HdStepInv == HdInv /\ [HdNext]_vars => HdInv'
BY HDReceiveInv, HDDispatchInv, HDReplyInv, HDNextCommandInv, HDAskInv, HDHearInv,
   HDBeginInv, HDPollInv, HDTimeoutInv, HdCmdOutInv, InterruptWaitInv, HDSectorReadInv,
   HDPortWriteInv, HDSectorWrittenInv, FSAskInv, FSAwaitInv, FSAnsweredInv, SysReceiveInv,
   SysAnswerInv, ClockInv, DiskTurnInv, HdHandlerInv, HdStutterInv
DEF HdNext, HDTask, FSTask, SysTask

(* The driver's invariant: the tasks, the disk and the data stay in step.  *)
THEOREM HdInvariance == HdSpec => []HdInv
BY HdInitInv, HdStepInv, PTL DEF HdSpec

(* No assert() of the message kernel fails although nothing keeps the      *)
(* driver from asking at the wrong moment, no interrupt of the disk is     *)
(* left over for the main loop, and the driver gives the disk up only      *)
(* after HD_TIMEOUT of silence or when the ticks have begun again since.   *)
THEOREM HdStaysQuiet == HdSpec => []HdQuiet
<1>1. HdInv => HdQuiet
  BY DEF HdInv, HdQuiet, HdTypes, Handled, IInv, TimeSeen
<1>2. QED
  BY <1>1, HdInvariance, PTL

(* A transfer that is answered has copied each of its sectors, and nothing *)
(* but a DEV_WRITE changes the disk, within the sectors it is for: the     *)
(* partition tables are never written.                                     *)
THEOREM TransfersExact == HdSpec => TransferExact
<1> DEFINE Done == (fs_pc = "waiting" /\ Running(FS) /\ request \in Transfers) =>
                     \A i \in 1..request.cnt :
                       fsbuf[i] = disk[NrTables + request.sect + i - 1]
           Writes == \A s \in Sector : disk'[s] # disk[s] =>
                       request.type = "DEV_WRITE" /\ InRequest(s) /\ s >= NrTables
<1>1. HdInv => Done
  BY RunsFree, Tasks DEF HdInv, DataCopied, Answered, Copied
<1>2. ASSUME HdInv, [HdNext]_vars PROVE [Writes]_vars
  <2> SUFFICES ASSUME NEW s \in Sector, disk'[s] # disk[s]
               PROVE  request.type = "DEV_WRITE" /\ InRequest(s) /\ s >= NrTables
    OBVIOUS
  <2>1. DiskTurn
    BY <1>2 DEF vars, HdNext, HDTask, FSTask, SysTask, HDReceive, HDDispatch, HDReply,
       HDNextCommand, HDAsk, HDHear, HDBegin, HDPoll, HDTimeout, hd_cmd_out, interrupt_wait,
       HDSectorRead, HDPortWrite, HDSectorWritten, FSAsk, FSAwait, FSAnswered, SysReceive,
       SysAnswer, clock_handler, hd_handler, devVars
  <2>2. dev_cmd = "WRITE" /\ dev_data # Garbage
    BY <2>1 DEF DiskTurn
  <2>3. s = dev_sect
    <3>1. disk' = [disk EXCEPT ![dev_sect] = dev_data]
      BY <2>1, <2>2 DEF DiskTurn
    <3>2. QED
      BY <1>2, <3>1 DEF HdInv, HdTypes
  <2>4. /\ request \in Transfers /\ request.type = "DEV_WRITE"
        /\ request.sect \in Nat /\ NrTables \in Nat /\ request.cnt \in Nat
        /\ At \in 1..request.cnt /\ dev_sect = NrTables + request.sect + At - 1
        /\ hd_pc \in Handled
    BY <1>2, <2>1, <2>2, DiskStores DEF HdInv, Awaits, Handled
  <2>5. base = NrTables
    BY <1>2, <2>4 DEF HdInv, TodoFits
  <2>6. QED
    BY <2>3, <2>4, <2>5 DEF InRequest
<1>3. QED
  BY <1>1, <1>2, HdInvariance, PTL DEF HdSpec, TransferExact, Done, Writes

=============================================================================
