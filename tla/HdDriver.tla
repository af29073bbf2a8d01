------------------------------ MODULE HdDriver ------------------------------
(***************************************************************************)
(* The hard disk driver, task HD of kernel/hd.c, between the file system   *)
(* FS that sends it requests, SYS that tells it the ticks, the clock, the  *)
(* disk and the disk's interrupt, on top of IPC.                           *)
(*                                                                         *)
(* The driver polls the disk before it gives a command and before it       *)
(* writes a sector, and sleeps in a RECEIVE from INTERRUPT until a sector  *)
(* was read or stored.  Reading the status withdraws an interrupt that has *)
(* not been served.                                                        *)
(*                                                                         *)
(* IPC's assumption on what a driver may receive, MayReceive, is not used: *)
(* NoAssertFails shows here that the driver keeps to it.                   *)
(***************************************************************************)
EXTENDS IPC, Integers

CONSTANTS FS, HD, SYS,   \* the three tasks
          COUNTS,        \* 256, the values of the one byte of hd_cmd.count
          MaxCnt,        \* sectors that FS asks for at once
          NrTables,      \* partition tables on the disk, in its first sectors
          NrSects,       \* sectors of the partition behind them
          Value,         \* what a sector may hold
          Buffer,        \* what FS has to write, of which a request takes the first cnt
          HD_TIMEOUT,    \* in milliseconds
          MILLI, HZ,     \* milliseconds, and ticks, in a second
          WORD,          \* 2^32, the values of an int
          MAX_TICKS

ASSUME HdAssumption ==
  /\ Proc = {FS, HD, SYS} /\ FS # HD /\ HD # SYS /\ SYS # FS /\ IntTask = {HD}
  /\ Type = {"DEV_OPEN", "DEV_READ", "DEV_WRITE", "DEV_IOCTL", "GET_TICKS"}
  /\ COUNTS \in Nat \ {0} /\ MaxCnt \in Nat \ {0} /\ NrTables \in Nat \ {0}
  /\ NrSects \in Nat /\ MaxCnt <= NrSects
  /\ Buffer \subseteq [1..MaxCnt -> Value]
  /\ HD_TIMEOUT \in Nat \ {0} /\ MILLI \in Nat \ {0} /\ HZ \in Nat \ {0}
  /\ WORD \in Nat /\ MAX_TICKS \in Nat \ {0}
  /\ 2 * HD_TIMEOUT * HZ <= WORD   \* 10 s are counted without an overflow

VARIABLES
  fs_pc, request, fsbuf,   \* FS: its request, and its buffer
  hd_pc,
  todo,                    \* commands of this request, the current one first
  left,                    \* sectors that the current one has to transfer yet
  want,                    \* what waitfor() waits for
  since,                   \* its t, or NotYet
  base,                    \* hd_info's first sector of the partition
  sys_pc, told,            \* SYS, and the RETVAL of its answer, 0 when that is gone
  ticks,
  waited,                  \* history: ticks since t was told, until they are overdue
  dev, dev_cmd, dev_left, dev_sect, dev_data,   \* the disk's controller
  intrq,                   \* its interrupt, not served yet
  disk                     \* the sectors

fsVars  == <<fs_pc, request, fsbuf>>
hdVars  == <<hd_pc, todo, left, want, since, base>>
sysVars == <<sys_pc, told>>
clkVars == <<ticks, waited>>
devVars == <<dev, dev_cmd, dev_left, dev_sect, dev_data, intrq, disk>>
vars    == <<ipcVars, fsVars, hdVars, sysVars, clkVars, devVars>>

NotYet  == -1
Garbage == "garbage"          \* the data port when the disk offers no data
Sector  == 0..NrTables + NrSects - 1
Content == Value \cup {Garbage, "table"}

(* What a sector holds is never taken for a port that holds nothing.       *)
ASSUME ValueAssumption == {Garbage, "table"} \cap Value = {}

Request(type, sect, cnt) == [type |-> type, sect |-> sect, cnt |-> cnt]
Transfers ==
  {r \in [type : {"DEV_READ", "DEV_WRITE"}, sect : 0..NrSects - 1, cnt : 1..MaxCnt] :
     r.sect + r.cnt <= NrSects}
NoRequest == Request("DEV_IOCTL", 0, 0)

HdInit ==
  /\ Init
  /\ fs_pc = "open" /\ request = NoRequest
  /\ fsbuf = [i \in 1..MaxCnt |-> Garbage]
  /\ hd_pc = "receive" /\ todo = <<>> /\ left = 0
  /\ want = "BSY" /\ since = NotYet /\ base = 0
  /\ sys_pc = "receive" /\ told = 0
  /\ ticks = 0 /\ waited = 0
  /\ dev = "idle" /\ dev_cmd = "IDENTIFY" /\ dev_left = 0 /\ dev_sect = 0
  /\ dev_data = Garbage /\ intrq = FALSE
  /\ disk \in {d \in [Sector -> Value \cup {"table"}] :
                 \A s \in Sector : d[s] = "table" <=> s < NrTables}

-----------------------------------------------------------------------------
(***************************************************************************)
(* (get_ticks() - t) * 1000 / HZ of waitfor() is computed in ints: the     *)
(* product keeps the low bits only.  (C divides towards zero and \div down, *)
(* which is the same to a comparison with a positive limit.)               *)
(***************************************************************************)
Int32(n) == IF 2 * (n % WORD) < WORD THEN n % WORD ELSE (n % WORD) - WORD
Elapsed(t, now) == Int32((now - t) * MILLI) \div HZ

(* n ticks are HD_TIMEOUT milliseconds or more.                            *)
Overdue(n) == n * MILLI >= HD_TIMEOUT * HZ

(* panic() of the driver has not stopped the system.                       *)
Up == hd_pc # "panic"

(* send_recv() of a task.                                                  *)
Receives(p, src) ==
  RecvInterrupt(p, src) \/ (\E f \in Proc : RecvFromQueue(p, src, f)) \/ RecvBlock(p, src)

(***************************************************************************)
(* FS opens the disk once, in init_fs; then it asks for the geometry or    *)
(* for sectors, one request at a time, and waits for the answer.           *)
(***************************************************************************)
FSAsk ==
  /\ Up
  /\ \/ fs_pc = "open" /\ request' = Request("DEV_OPEN", 0, 0) /\ UNCHANGED fsbuf
     \/ fs_pc = "ready" /\ request' = NoRequest /\ UNCHANGED fsbuf
     \/ /\ fs_pc = "ready"
        /\ request' \in Transfers
        /\ IF request'.type = "DEV_READ" THEN UNCHANGED fsbuf
           ELSE \E b \in Buffer :
                  fsbuf' = [i \in 1..MaxCnt |-> IF i <= request'.cnt THEN b[i] ELSE Garbage]
  /\ msg_send(FS, HD, request'.type)
  /\ fs_pc' = "asked"
  /\ UNCHANGED <<hdVars, sysVars, clkVars, devVars>>

FSAwait ==
  /\ Up /\ fs_pc = "asked" /\ Receives(FS, HD)
  /\ fs_pc' = "waiting"
  /\ UNCHANGED <<request, fsbuf, hdVars, sysVars, clkVars, devVars>>

FSAnswered ==
  /\ Up /\ fs_pc = "waiting" /\ Running(FS)
  /\ fs_pc' = "ready"
  /\ fsbuf' = [i \in 1..MaxCnt |-> Garbage]   \* what FS does with it is its own
  /\ UNCHANGED <<ipcVars, request, hdVars, sysVars, clkVars, devVars>>

(***************************************************************************)
(* SYS, as far as it is asked for the ticks.                               *)
(***************************************************************************)
SysReceive ==
  /\ Up /\ sys_pc = "receive" /\ Receives(SYS, ANY)
  /\ sys_pc' = "answer"
  /\ UNCHANGED <<told, fsVars, hdVars, clkVars, devVars>>

SysAnswer ==
  /\ Up /\ sys_pc = "answer"
  /\ msg_send(SYS, mbuf[SYS].source, "GET_TICKS")
  /\ told' = ticks
  /\ waited' = IF since = NotYet THEN 0 ELSE waited
  /\ sys_pc' = "receive"
  /\ UNCHANGED <<ticks, fsVars, hdVars, devVars>>

clock_handler ==
  /\ Up
  /\ ticks' = (ticks + 1) % MAX_TICKS
  /\ waited' = IF hd_pc \notin {"ask", "hear", "heard"} \/ Overdue(waited)
                 THEN waited ELSE waited + 1
  /\ UNCHANGED <<ipcVars, fsVars, hdVars, sysVars, devVars>>

-----------------------------------------------------------------------------
(***************************************************************************)
(* The disk.  A command takes it some time, after which it offers a sector *)
(* or asks for one; each sector that it has ready or has stored is         *)
(* announced by an interrupt, the request for the first one is not.        *)
(***************************************************************************)
NextSector == IF dev_left > 1 THEN dev_sect + 1 ELSE 0
DiskTurn ==
  /\ Up /\ dev = "busy"
  /\ IF dev_cmd = "WRITE"
       THEN IF dev_data = Garbage
              THEN dev' = "drq" /\ UNCHANGED <<dev_left, dev_sect, intrq, disk>>
              ELSE /\ disk' = [disk EXCEPT ![dev_sect] = dev_data]
                   /\ dev_left' = dev_left - 1 /\ dev_sect' = NextSector
                   /\ dev' = IF dev_left > 1 THEN "drq" ELSE "idle"
                   /\ intrq' = TRUE
       ELSE dev' = "drq" /\ intrq' = TRUE /\ UNCHANGED <<dev_left, dev_sect, disk>>
  /\ dev_data' = Garbage
  /\ UNCHANGED <<dev_cmd, ipcVars, fsVars, hdVars, sysVars, clkVars>>

hd_handler ==
  /\ Up /\ intrq /\ intrq' = FALSE
  /\ inform_int(HD)
  /\ UNCHANGED <<dev, dev_cmd, dev_left, dev_sect, dev_data, disk,
                 fsVars, hdVars, sysVars, clkVars>>

(* What a poll of the status register finds.                               *)
Satisfied(w) == IF w = "BSY" THEN dev # "busy" ELSE dev = "drq"

-----------------------------------------------------------------------------
(***************************************************************************)
(* task_hd: a request is taken and turned into commands.  To open the disk *)
(* is to identify it and read its partition tables, one after the other.   *)
(***************************************************************************)
Command(name, sect, cnt) == [command |-> name, sect |-> sect, count |-> cnt]

(* hd_open(): hd_identify(), and get_part_table() for each table.          *)
hd_identify == Command("IDENTIFY", 0, 1)
get_part_table(k) == Command("READ", k - 1, 1)
partition == [k \in 1..NrTables |-> get_part_table(k)]
hd_open == <<hd_identify>> \o partition

hd_rdwt(r) ==
  Command(IF r.type = "DEV_READ" THEN "READ" ELSE "WRITE", base + r.sect, r.cnt)

Commands(r) ==
  CASE r.type = "DEV_OPEN"  -> hd_open
    [] r \in Transfers      -> <<hd_rdwt(r)>>
    [] r.type = "DEV_IOCTL" -> <<>>

HDReceive ==
  /\ hd_pc = "receive" /\ Receives(HD, ANY)
  /\ hd_pc' = "dispatch"
  /\ UNCHANGED <<todo, left, want, since, base, fsVars, sysVars, clkVars, devVars>>

(* FS waits for the answer, so request still is what HD's message says.    *)
HDDispatch ==
  /\ hd_pc = "dispatch" /\ Running(HD)
  /\ IF mbuf[HD].type = HARD_INT
       THEN hd_pc' = "spin" /\ UNCHANGED todo   \* an unknown message
       ELSE hd_pc' = "next" /\ todo' = Commands(request)
  /\ UNCHANGED <<ipcVars, left, want, since, base, fsVars, sysVars, clkVars, devVars>>

HDReply ==
  /\ hd_pc = "next" /\ todo = <<>>
  /\ msg_send(HD, FS, request.type)
  /\ hd_pc' = "receive"
  /\ UNCHANGED <<todo, left, want, since, base, fsVars, sysVars, clkVars, devVars>>

(***************************************************************************)
(* waitfor(): the ticks are asked for at the beginning and before every    *)
(* poll, and the time is tested first.                                     *)
(***************************************************************************)
Waitfor(w) == hd_pc' = "ask" /\ want' = w /\ since' = NotYet

HDNextCommand ==
  /\ hd_pc = "next" /\ todo # <<>> /\ Running(HD)
  /\ Waitfor("BSY")
  /\ UNCHANGED <<ipcVars, todo, left, base, fsVars, sysVars, clkVars, devVars>>

HDAsk ==
  /\ hd_pc = "ask" /\ msg_send(HD, SYS, "GET_TICKS")
  /\ hd_pc' = "hear"
  /\ UNCHANGED <<todo, left, want, since, base, fsVars, sysVars, clkVars, devVars>>

HDHear ==
  /\ hd_pc = "hear" /\ Receives(HD, SYS)
  /\ hd_pc' = "heard"
  /\ UNCHANGED <<todo, left, want, since, base, fsVars, sysVars, clkVars, devVars>>

HDBegin ==
  /\ hd_pc = "heard" /\ Running(HD) /\ since = NotYet
  /\ since' = told /\ told' = 0 /\ hd_pc' = "ask"
  /\ UNCHANGED <<ipcVars, todo, left, want, base, fsVars, sys_pc, clkVars, devVars>>

HDPoll ==
  /\ hd_pc = "heard" /\ Running(HD) /\ since # NotYet
  /\ Elapsed(since, told) < HD_TIMEOUT
  /\ intrq' = FALSE /\ told' = 0
  /\ hd_pc' = IF ~ Satisfied(want) THEN "ask"
              ELSE IF want = "BSY" THEN "cmd_out" ELSE "port_write"
  /\ since' = IF Satisfied(want) THEN NotYet ELSE since
  /\ waited' = IF Satisfied(want) THEN 0 ELSE waited
  /\ want' = IF Satisfied(want) THEN "BSY" ELSE want
  /\ UNCHANGED <<ipcVars, todo, left, base, fsVars, sys_pc, ticks,
                 dev, dev_cmd, dev_left, dev_sect, dev_data, disk>>

(* panic("hd error.") or panic("hd writing error."): the system stops.     *)
HDTimeout ==
  /\ hd_pc = "heard" /\ Running(HD) /\ since # NotYet
  /\ Elapsed(since, told) >= HD_TIMEOUT
  /\ hd_pc' = "panic"
  /\ UNCHANGED <<ipcVars, todo, left, want, since, base, fsVars, sysVars, clkVars, devVars>>

(***************************************************************************)
(* hd_cmd_out(): the count goes to the disk as one byte, of which 0 means  *)
(* all that a byte can count; the driver goes on with its own.             *)
(***************************************************************************)
Byte(n) == IF n % COUNTS = 0 THEN COUNTS ELSE n % COUNTS

AfterCommand_unawaited(c) ==
  IF c.command = "WRITE" THEN Waitfor("DRQ")
  ELSE hd_pc' = "int_got" /\ UNCHANGED <<want, since>>
AfterCommand(c) ==
  IF c.command = "WRITE" THEN Waitfor("DRQ")
  ELSE hd_pc' = "int_wait" /\ UNCHANGED <<want, since>>

hd_cmd_out ==
  /\ hd_pc = "cmd_out" /\ Running(HD)
  /\ LET c == Head(todo)
     IN /\ dev' = "busy" /\ dev_cmd' = c.command
        /\ dev_sect' = c.sect /\ dev_left' = Byte(c.count)
        /\ dev_data' = Garbage /\ intrq' = FALSE
        /\ left' = c.count
        /\ AfterCommand(c)
  /\ UNCHANGED <<ipcVars, todo, base, disk, fsVars, sysVars, clkVars>>

interrupt_wait ==
  /\ hd_pc = "int_wait" /\ Receives(HD, INTERRUPT)
  /\ hd_pc' = "int_got"
  /\ UNCHANGED <<todo, left, want, since, base, fsVars, sysVars, clkVars, devVars>>

(* A sector is done: after the last one of the last command the request is *)
(* served, and after the last table hd_info is complete.                   *)
SectorDone_late(more) ==
  /\ left' = left - 1
  /\ IF left > 0 THEN more /\ UNCHANGED <<todo, base>>
     ELSE /\ hd_pc' = "next" /\ todo' = Tail(todo)
          /\ UNCHANGED <<want, since, base>>
SectorDone(more) ==
  /\ left' = left - 1
  /\ IF left > 1 THEN more /\ UNCHANGED <<todo, base>>
     ELSE /\ hd_pc' = "next" /\ todo' = Tail(todo)
          /\ base' = IF request.type = "DEV_OPEN" /\ Len(todo) = 1 THEN NrTables ELSE base
          /\ UNCHANGED <<want, since>>

(* The sector of the buffer, where la points.                              *)
At_first == 1
At == request.cnt - left + 1

(* port_read() into hdbuf, and from there to the buffer of a DEV_READ.     *)
Offered == IF dev = "drq" THEN disk[dev_sect] ELSE Garbage

HDSectorRead ==
  /\ hd_pc = "int_got" /\ Running(HD) /\ Head(todo).command # "WRITE"
  /\ fsbuf' = IF request.type = "DEV_READ"
                THEN [fsbuf EXCEPT ![At] = Offered] ELSE fsbuf
  /\ IF dev = "drq"
       THEN /\ dev' = IF dev_left > 1 THEN "busy" ELSE "idle"
            /\ dev_sect' = NextSector /\ dev_left' = dev_left - 1
       ELSE UNCHANGED <<dev, dev_sect, dev_left>>
  /\ SectorDone(hd_pc' = "int_wait" /\ UNCHANGED <<want, since>>)
  /\ UNCHANGED <<ipcVars, fs_pc, request, sysVars, clkVars, dev_cmd, dev_data, intrq, disk>>

(* port_write() from the buffer of a DEV_WRITE.                            *)
HDPortWrite ==
  /\ hd_pc = "port_write" /\ Running(HD)
  /\ dev' = "busy"
  /\ dev_data' = fsbuf[At]
  /\ hd_pc' = "int_wait"
  /\ UNCHANGED <<ipcVars, todo, left, want, since, base, fsVars, sysVars, clkVars,
                 dev_cmd, dev_left, dev_sect, intrq, disk>>

HDSectorWritten ==
  /\ hd_pc = "int_got" /\ Running(HD) /\ Head(todo).command = "WRITE"
  /\ SectorDone(Waitfor("DRQ"))
  /\ UNCHANGED <<ipcVars, fsVars, sysVars, clkVars, devVars>>

HDTask ==
  \/ HDReceive \/ HDDispatch \/ HDReply \/ HDNextCommand
  \/ HDAsk \/ HDHear \/ HDBegin \/ HDPoll \/ HDTimeout
  \/ hd_cmd_out \/ interrupt_wait \/ HDSectorRead \/ HDPortWrite \/ HDSectorWritten

FSTask  == FSAsk \/ FSAwait \/ FSAnswered
SysTask == SysReceive \/ SysAnswer

HdNext ==
  HDTask \/ FSTask \/ SysTask \/ clock_handler \/ DiskTurn \/ hd_handler

HdSpec == HdInit /\ [][HdNext]_vars

(* A task that can run gets the processor in the end, an interrupt is      *)
(* served, and the disk finishes what it does.                             *)
FairHdSpec ==
  /\ HdSpec
  /\ WF_vars(HDTask) /\ WF_vars(SysTask) /\ WF_vars(FSAwait \/ FSAnswered)
  /\ WF_vars(DiskTurn) /\ WF_vars(hd_handler)

-----------------------------------------------------------------------------
(* The variables stay of their types; no assert() of the message kernel    *)
(* fails, as the driver never asks SYS while an interrupt is outstanding;  *)
(* none of the disk's interrupts is left over for the driver's main loop,  *)
(* where it would be an unknown message; and the driver gives the disk up  *)
(* only when it has been silent for HD_TIMEOUT, unless the ticks began     *)
(* again from 0 while it waited: then t is greater than what it was told,  *)
(* and the product of hd.c:499 that overflows looks like a long time.      *)
HdQuiet ==
  /\ TypeOK /\ panic = "none"
  /\ fs_pc \in {"open", "ready", "asked", "waiting"}
  /\ request \in Transfers \cup {NoRequest, Request("DEV_OPEN", 0, 0)}
  /\ fsbuf \in [1..MaxCnt -> Content] /\ disk \in [Sector -> Content]
  /\ hd_pc \in {"receive", "dispatch", "next", "ask", "hear", "heard", "cmd_out",
                "int_wait", "int_got", "port_write", "panic"}
  /\ left \in 0..MaxCnt /\ base \in {0, NrTables}
  /\ since \in {NotYet} \cup 0..MAX_TICKS - 1 /\ told \in 0..MAX_TICKS - 1
  /\ dev \in {"idle", "busy", "drq"} /\ dev_left \in 0..COUNTS
  /\ hd_pc = "panic" => Overdue(waited) \/ told < since

(* When a transfer is answered the buffer and the sectors it was for are   *)
(* the same, sector by sector in order, and no others were ever written.   *)
InRequest(s) == s \in base + request.sect .. base + request.sect + request.cnt - 1

TransferExact ==
  /\ []((fs_pc = "waiting" /\ Running(FS) /\ request \in Transfers) =>
          \A i \in 1..request.cnt : fsbuf[i] = disk[NrTables + request.sect + i - 1])
  /\ [][\A s \in Sector : disk'[s] # disk[s] =>
          request.type = "DEV_WRITE" /\ InRequest(s) /\ s >= NrTables]_vars

(* Every request is answered, unless the driver gives the disk up, as long *)
(* as its sectors can be counted in the byte that the disk is told.  One   *)
(* of more sectors, which FS does make, is not: the disk transfers the     *)
(* remainder, and the driver waits for an interrupt that does not come.    *)
RequestsAnswered ==
  (fs_pc = "asked" /\ request.cnt <= COUNTS) ~> (fs_pc = "ready" \/ hd_pc = "panic")

=============================================================================
