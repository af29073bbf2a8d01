------------------------------ MODULE FileData ------------------------------
(***************************************************************************)
(* The bytes of files: do_rdwt (fs/read_write.c) and do_lseek (fs/open.c)  *)
(* with the sectors that they ask the hard disk driver for, below read()   *)
(* and write(), and untar (kernel/main.c), with which INIT extracts the    *)
(* commands before any other process exists.                               *)
(*                                                                         *)
(* FS serves one call after the other; a step is one turn of do_rdwt's     *)
(* loop, so a file's size and positions are seen as they are between the   *)
(* turns.  All files lie behind one another on the disk, as the sector map *)
(* hands them out, and cmd.tar behind them.  A byte is a number that tells *)
(* where it came from.  (read() and write() of a descriptor that is not    *)
(* open for O_RDWR return 0 at once and are no step.)                      *)
(***************************************************************************)
EXTENDS Integers, Sequences

CONSTANTS NrFiles,       \* files that untar may create; cmd.tar is file NrFiles
          SECTOR_SIZE,
          NR_DEFAULT_FILE_SECTS,
          INSTALL_NR_SECTS,   \* sectors of cmd.tar
          FSBUF_SECTS,        \* FSBUF_SIZE in sectors
          UntarSects,         \* untar's buffer in sectors
          Desc,               \* descriptors that programs use
          Lens,               \* how much programs read and write at once
          Written,            \* the bytes they write
          Archives            \* what cmd.tar may hold: files and their sizes

Tar == NrFiles
File == 0..(NrFiles - 1)
Extracted == File \cup {Tar}
Entry == Desc \cup {"fd", "fdout"}     \* with the two of untar
Data(f, k) == 100 * (f + 1) + k        \* byte k of file f in the archive

Nr_sects(f) == IF f = Tar THEN INSTALL_NR_SECTS ELSE NR_DEFAULT_FILE_SECTS
Start(f) == f * NR_DEFAULT_FILE_SECTS
Limit(f) == Nr_sects(f) * SECTOR_SIZE
Disk == 0..(Start(Tar) * SECTOR_SIZE + Limit(Tar) - 1)
Addr(f, pos) == Start(f) * SECTOR_SIZE + pos

ASSUME FileDataAssumption ==
  /\ NrFiles \in Nat \ {0} /\ SECTOR_SIZE \in Nat \ {0}
  /\ NR_DEFAULT_FILE_SECTS \in Nat \ {0} /\ INSTALL_NR_SECTS \in Nat \ {0}
  /\ FSBUF_SECTS \in Nat \ {0} /\ UntarSects \in Nat \ {0}
  /\ Desc \cap {"fd", "fdout"} = {}
  /\ Lens \subseteq Nat \ {0} /\ Written \subseteq Nat
  /\ Archives \subseteq Seq([file : File, size : Nat])

VARIABLES
  disk,                \* the bytes of the disk
  i_size,
  fd_inode, fd_pos,    \* the file that a descriptor is open for, and where it is
  rw,                  \* the call of do_rdwt that FS is at
  buf,                 \* the buffer of the caller
  untar,               \* where untar is, and its bytes_left
  archive,             \* what cmd.tar holds
  written              \* for the properties: the bytes written to each file

fdVars == <<disk, i_size, fd_inode, fd_pos, rw, buf, untar, archive, written>>

NoCall == [op |-> "none"]
NoBytes == <<>>
Never == 0 - 1

Least(m, n) == IF m < n THEN m ELSE n

(***************************************************************************)
(* The archive: a sector with the name and the size of a file, of which    *)
(* one byte stands here, the sectors of the file, and so on; a sector of   *)
(* zeros ends it.                                                          *)
(***************************************************************************)
Padded(bytes) == bytes \o [n \in 1..((0 - Len(bytes)) % SECTOR_SIZE) |-> 0]

Image(a) ==
  LET image[n \in 1..(Len(a) + 1)] ==
        IF n > Len(a) THEN NoBytes
        ELSE Padded(<<n>>) \o Padded([k \in 1..a[n].size |-> Data(a[n].file, k - 1)])
             \o image[n + 1]
  IN  image[1]

(* The sizes that the proofs rest on.  FS's buffer has as many sectors as  *)
(* a file (FSBUF_SIZE, kernel/global.c:88; NR_DEFAULT_FILE_SECTS,          *)
(* include/sys/const.h:307), and no buffer of a program is longer: the     *)
(* image that has it in it is of 1 MB as well (PROC_IMAGE_SIZE_DEFAULT,    *)
(* include/sys/proc.h:96).  cmd.tar has its last sector, of zeros, and its *)
(* files fit, each once.                                                   *)
ASSUME FileDataSizes ==
  /\ NR_DEFAULT_FILE_SECTS <= FSBUF_SECTS
  /\ \A len \in Lens : len <= NR_DEFAULT_FILE_SECTS * SECTOR_SIZE
  /\ \A a \in Archives :
       /\ Len(Image(a)) + SECTOR_SIZE <= Limit(Tar)
       /\ \A n \in DOMAIN a : a[n].size <= NR_DEFAULT_FILE_SECTS * SECTOR_SIZE
       /\ \A m, n \in DOMAIN a : a[m].file = a[n].file => m = n

FileDataInit ==
  /\ archive \in Archives
  /\ disk = [b \in Disk |-> IF b < Addr(Tar, 0) THEN 0
                            ELSE IF b - Addr(Tar, 0) < Len(Image(archive))
                              THEN Image(archive)[b - Addr(Tar, 0) + 1]
                              ELSE 0]
  /\ i_size = [f \in Extracted |-> IF f = Tar THEN Limit(Tar) ELSE 0]
  /\ fd_inode = [d \in Entry |-> Tar]
  /\ fd_pos = [d \in Entry |-> 0]
  /\ rw = NoCall /\ buf = NoBytes
  /\ untar = [pc |-> "header", bytes_left |-> 0]
  /\ written = [f \in File |-> [k \in 0..(Limit(f) + SECTOR_SIZE - 1) |-> Never]]

-----------------------------------------------------------------------------
(***************************************************************************)
(* do_rdwt.  A read ends at the end of the file and a write at the end of  *)
(* its sectors, but only in the choice of the sectors: the count of bytes  *)
(* is what the caller asked for.                                           *)
(***************************************************************************)
pos_end(op, f, pos, len) ==
  Least(pos + len, IF op = "READ" THEN i_size[f] ELSE Limit(f))

do_rdwt(op, d, len, bytes) ==
  LET f == fd_inode[d]
      pos == fd_pos[d]
      rw_sect_min == Start(f) + pos \div SECTOR_SIZE
      rw_sect_max == Start(f) + pos_end(op, f, pos, len) \div SECTOR_SIZE
  IN  /\ rw = NoCall
      /\ rw' = [op |-> op, fd |-> d, from |-> pos, i |-> rw_sect_min,
                rw_sect_max |-> rw_sect_max, off |-> pos % SECTOR_SIZE,
                chunk |-> Least(rw_sect_max - rw_sect_min + 1, FSBUF_SECTS),
                bytes_rw |-> 0, bytes_left |-> len]
      /\ buf' = bytes
      /\ UNCHANGED <<disk, i_size, fd_inode, fd_pos, archive, written>>

(* rw_sector: the chunk of sectors from rw.i on.  Read, it gives the caller *)
(* its bytes; to be written, it gets them from the caller.                 *)
fsbuf == [b \in 0..(rw.chunk * SECTOR_SIZE - 1) |-> disk[rw.i * SECTOR_SIZE + b]]

Given_unshifted(bytes) == [n \in 1..bytes |-> fsbuf[n - 1]]
Given(bytes) == [n \in 1..bytes |-> fsbuf[rw.off + n - 1]]

Filled_unread(bytes) ==
  [b \in DOMAIN fsbuf |->
     IF b \in rw.off..(rw.off + bytes - 1) THEN buf[rw.bytes_rw + b - rw.off + 1] ELSE 0]
Filled(bytes) ==
  [b \in DOMAIN fsbuf |->
     IF b \in rw.off..(rw.off + bytes - 1) THEN buf[rw.bytes_rw + b - rw.off + 1]
     ELSE fsbuf[b]]

RdwtTurn ==
  /\ rw # NoCall /\ rw.i <= rw.rw_sect_max
  /\ LET bytes == Least(rw.bytes_left, rw.chunk * SECTOR_SIZE - rw.off)
         sectors == (rw.i * SECTOR_SIZE)..((rw.i + rw.chunk) * SECTOR_SIZE - 1)
     IN  /\ IF rw.op = "READ"
              THEN /\ buf' = buf \o Given(bytes)
                   /\ UNCHANGED <<disk, written>>
              ELSE /\ disk' = [b \in Disk |-> IF b \in sectors
                                                THEN Filled(bytes)[b - rw.i * SECTOR_SIZE]
                                                ELSE disk[b]]
                   /\ written' = [written EXCEPT ![fd_inode[rw.fd]] =
                        [k \in DOMAIN @ |-> IF k \in fd_pos[rw.fd]..(fd_pos[rw.fd] + bytes - 1)
                                              THEN buf[k - rw.from + 1] ELSE @[k]]]
                   /\ UNCHANGED buf
         /\ fd_pos' = [fd_pos EXCEPT ![rw.fd] = @ + bytes]
         /\ rw' = [rw EXCEPT !.i = @ + rw.chunk, !.off = 0,
                             !.bytes_rw = @ + bytes, !.bytes_left = @ - bytes]
  /\ UNCHANGED <<i_size, fd_inode, untar, archive>>

(* Behind the loop: the size follows the position, of a read too.          *)
NewSize_first(f) == IF i_size[f] = 0 THEN fd_pos[rw.fd] ELSE i_size[f]
NewSize(f) == IF fd_pos[rw.fd] > i_size[f] THEN fd_pos[rw.fd] ELSE i_size[f]

RdwtReturn ==
  /\ rw # NoCall /\ rw.i > rw.rw_sect_max
  /\ i_size' = [i_size EXCEPT ![fd_inode[rw.fd]] = NewSize(fd_inode[rw.fd])]
  /\ rw' = NoCall
  /\ buf' = IF untar.pc = "done" THEN NoBytes ELSE buf
  /\ UNCHANGED <<disk, fd_inode, fd_pos, untar, archive, written>>

-----------------------------------------------------------------------------
(***************************************************************************)
(* untar.  Only INIT runs.                                                 *)
(***************************************************************************)
Then(pc, left) == untar' = [pc |-> pc, bytes_left |-> left]

UntarReadHeader ==
  /\ untar.pc = "header"
  /\ do_rdwt("READ", "fd", SECTOR_SIZE, NoBytes)
  /\ Then("got_header", 0)

UntarOpen ==
  /\ untar.pc = "got_header" /\ rw = NoCall
  /\ buf[1] # 0
  /\ LET entry == archive[buf[1]]
     IN  /\ fd_inode' = [fd_inode EXCEPT !["fdout"] = entry.file]
         /\ Then(IF entry.size = 0 THEN "header" ELSE "copy", entry.size)
  /\ fd_pos' = [fd_pos EXCEPT !["fdout"] = 0]
  /\ buf' = NoBytes
  /\ UNCHANGED <<disk, i_size, rw, archive, written>>

iobytes == Least(UntarSects * SECTOR_SIZE, untar.bytes_left)

WholeSectors_not == iobytes
WholeSectors == ((iobytes - 1) \div SECTOR_SIZE + 1) * SECTOR_SIZE

UntarRead ==
  /\ untar.pc = "copy"
  /\ do_rdwt("READ", "fd", WholeSectors, NoBytes)
  /\ Then("copied", untar.bytes_left)

UntarWrite ==
  /\ untar.pc = "copied"
  /\ do_rdwt("WRITE", "fdout", iobytes, buf)
  /\ Then(IF untar.bytes_left = iobytes THEN "header" ELSE "copy", untar.bytes_left - iobytes)

UntarDone ==
  /\ untar.pc = "got_header" /\ rw = NoCall
  /\ buf[1] = 0
  /\ Then("done", 0)
  /\ buf' = NoBytes
  /\ UNCHANGED <<disk, i_size, fd_inode, fd_pos, rw, archive, written>>

-----------------------------------------------------------------------------
(***************************************************************************)
(* The programs after that.  The bound of the model: none goes on when a   *)
(* call has gone past the sectors of its file.                             *)
(***************************************************************************)
Overrun(f) == i_size[f] > Limit(f)
MayCall == untar.pc = "done" /\ rw = NoCall /\ \A f \in File : ~ Overrun(f)

do_open(d, f) ==
  /\ MayCall
  /\ fd_inode' = [fd_inode EXCEPT ![d] = f]
  /\ fd_pos' = [fd_pos EXCEPT ![d] = 0]
  /\ UNCHANGED <<disk, i_size, rw, buf, untar, archive, written>>

Read(d, len) ==
  MayCall /\ fd_inode[d] # Tar /\ do_rdwt("READ", d, len, NoBytes) /\ UNCHANGED untar

Write(d, len, b) ==
  /\ MayCall /\ fd_inode[d] # Tar
  /\ do_rdwt("WRITE", d, len, [n \in 1..len |-> b])
  /\ UNCHANGED untar

(* do_lseek refuses a position outside the file.                           *)
Seeks(d) == 0..i_size[fd_inode[d]]

do_lseek(d) ==
  /\ MayCall /\ fd_inode[d] # Tar
  /\ \E pos \in Seeks(d) : fd_pos' = [fd_pos EXCEPT ![d] = pos]
  /\ UNCHANGED <<disk, i_size, fd_inode, rw, buf, untar, archive, written>>

FileDataNext ==
  \/ RdwtTurn \/ RdwtReturn
  \/ UntarReadHeader \/ UntarOpen \/ UntarRead \/ UntarWrite \/ UntarDone
  \/ \E d \in Desc :
       \/ \E f \in File : do_open(d, f)
       \/ \E len \in Lens : Read(d, len) \/ \E b \in Written : Write(d, len, b)
       \/ do_lseek(d)

FileDataSpec == FileDataInit /\ [][FileDataNext]_fdVars

-----------------------------------------------------------------------------
(* The bytes of g's first sectors that a call may have got at which went   *)
(* past the sectors of the file in front of it.                            *)
Hit(f, pos) ==
  \E g \in File : /\ \E d \in Entry : fd_inode[d] = g /\ fd_pos[d] > Limit(g)
                  /\ Addr(f, pos) \in Addr(g, Limit(g))..Addr(g, Limit(g) + SECTOR_SIZE - 1)

(* Nothing that was written is lost: every byte stays on the disk, where   *)
(* its file has it, until it is written again, whatever other programs do  *)
(* with that file and with its neighbours, and between the turns of a call *)
(* too.  Only a call that runs past the last sector of its file damages    *)
(* another one, and that in its first sector alone.                        *)
WrittenKept ==
  \A f \in File : \A k \in DOMAIN written[f] :
     (written[f][k] # Never /\ k < Limit(f)) => (disk[Addr(f, k)] = written[f][k] \/ Hit(f, k))

(* A read gives its caller the bytes that were written at the place where  *)
(* the descriptor stood.  (There are more of them than the file has, if    *)
(* the caller asked for more: those were never written.)                   *)
ReadGivesWritten ==
  (rw # NoCall /\ rw.op = "READ" /\ fd_inode[rw.fd] # Tar) =>
     \A n \in 1..Len(buf) :
        LET k == rw.from + n - 1
        IN  (k < Limit(fd_inode[rw.fd]) /\ written[fd_inode[rw.fd]][k] # Never)
              => buf[n] = written[fd_inode[rw.fd]][k]

(* A file reaches as far as it was written and as far as any descriptor    *)
(* stands: between two calls no program is behind the end of its file and  *)
(* no byte it wrote is.                                                    *)
SizeCovers ==
  rw = NoCall =>
    /\ \A d \in Entry : fd_pos[d] <= i_size[fd_inode[d]]
    /\ \A f \in File : \A k \in DOMAIN written[f] : written[f][k] # Never => k < i_size[f]

(* untar ends with every file of the archive as the archive has it, and    *)
(* with the size that its header says.                                     *)
ArchiveExtracted ==
  (untar.pc = "got_header" /\ rw = NoCall /\ buf[1] = 0) =>
     \A n \in DOMAIN archive :
        /\ i_size[archive[n].file] = archive[n].size
        /\ \A k \in 0..(archive[n].size - 1) :
              disk[Addr(archive[n].file, k)] = Data(archive[n].file, k)

=============================================================================
