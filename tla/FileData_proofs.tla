--------------------------- MODULE FileData_proofs ---------------------------
(***************************************************************************)
(* Proofs about FileData, for every number of files and every size of      *)
(* sectors, files and buffers: what is written stays and is read again,    *)
(* the sizes cover it, and untar extracts the archive.                     *)
(***************************************************************************)
EXTENDS FileData, TLAPS, SequenceTheorems, WellFoundedInduction

Room == NR_DEFAULT_FILE_SECTS * SECTOR_SIZE

-----------------------------------------------------------------------------
(***************************************************************************)
(* The inductive invariant.                                                *)
(***************************************************************************)
Calls == [op : {"READ", "WRITE"}, fd : Entry, from : Nat, i : Nat, rw_sect_max : Nat,
          off : 0..(SECTOR_SIZE - 1), chunk : Nat \ {0}, bytes_rw : Nat, bytes_left : Nat]
UntarPcs == {"header", "got_header", "copy", "copied", "done"}

FdTypes ==
  /\ archive \in Archives
  /\ disk \in [Disk -> Nat]
  /\ i_size \in [Extracted -> Nat]
  /\ fd_inode \in [Entry -> Extracted] /\ fd_inode["fd"] = Tar
  /\ fd_pos \in [Entry -> Nat]
  /\ rw \in Calls \cup {NoCall}
  /\ buf \in Seq(Nat)
  /\ untar \in [pc : UntarPcs, bytes_left : Nat]
  /\ written \in [File -> [0..(Room + SECTOR_SIZE - 1) -> Nat \cup {Never}]]

(* The call of do_rdwt, between two turns: its file, its end, and where    *)
(* the next sector is.  The last turn of a write may begin less than a     *)
(* sector before its end, and reach no further than a sector past the file.*)
InCall == rw # NoCall
InFile == fd_inode[rw.fd]
At == fd_pos[rw.fd]
End == rw.from + rw.bytes_rw + rw.bytes_left

CallFits ==
  InCall =>
    /\ At = rw.from + rw.bytes_rw
    /\ rw.bytes_left > 0 => rw.i * SECTOR_SIZE + rw.off = Addr(InFile, At)
    /\ rw.op = "READ" => Len(buf) = rw.bytes_rw
    /\ rw.op = "WRITE" => Len(buf) >= rw.bytes_rw + rw.bytes_left /\ InFile \in File
    /\ InFile = Tar => rw.fd = "fd" /\ End <= Limit(Tar)
    /\ untar.pc # "done" => /\ rw.fd \in {"fd", "fdout"} /\ End <= Limit(InFile)
                            /\ Addr(InFile, End) < (rw.rw_sect_max + 1) * SECTOR_SIZE
    /\ InFile \in File =>
         /\ At <= Room + SECTOR_SIZE
         /\ \/ /\ rw.i + rw.chunk = rw.rw_sect_max + 1
               /\ (rw.i + rw.chunk) * SECTOR_SIZE <= Addr(InFile, Room + SECTOR_SIZE)
            \/ rw.i > rw.rw_sect_max
            \/ End <= Room + SECTOR_SIZE

(* What a read has given so far stands on the disk.                        *)
ReadSoFar ==
  InCall /\ rw.op = "READ" =>
    \A n \in 1..Len(buf) : buf[n] = disk[Addr(InFile, rw.from + n - 1)]

(* No descriptor is behind the end of its file, and nothing was written    *)
(* there, but for the call that is under way; and none is past the sectors *)
(* of a file until the call that brings it there returns.                  *)
Behind == \A d \in Entry : (InCall => d # rw.fd) => fd_pos[d] <= i_size[fd_inode[d]]
Covered ==
  \A f \in File : \A k \in DOMAIN written[f] : written[f][k] # Never =>
     \/ k < i_size[f]
     \/ InCall /\ f = InFile /\ k < At
InRoom ==
  /\ i_size[Tar] = Limit(Tar)
  /\ untar.pc # "done" \/ InCall => \A f \in File : ~ Overrun(f)

(* The rest of cmd.tar, from its entry n on, begins at its byte q.         *)
Suffix(a) ==
  LET image[n \in 1..(Len(a) + 1)] ==
        IF n > Len(a) THEN NoBytes
        ELSE Padded(<<n>>) \o Padded([k \in 1..a[n].size |-> Data(a[n].file, k - 1)])
             \o image[n + 1]
  IN  image

Stands(n, q) ==
  LET rest == Suffix(archive)[n]
  IN  /\ q + Len(rest) + SECTOR_SIZE <= Limit(Tar)
      /\ \A b \in 1..Len(rest) : disk[Addr(Tar, q + b - 1)] = rest[b]
      /\ \A b \in (q + Len(rest))..(Limit(Tar) - 1) : disk[Addr(Tar, b)] = 0

(* A read of cmd.tar, under way or done.                                   *)
TarRead(q, len) ==
  IF InCall THEN rw.op = "READ" /\ rw.fd = "fd" /\ rw.from = q /\ End = q + len
  ELSE /\ fd_pos["fd"] = q + len /\ Len(buf) = len
       /\ \A n \in 1..len : buf[n] = disk[Addr(Tar, q + n - 1)]
NoTarRead == InCall => rw.fd # "fd"
NoFileWrite == InCall => rw.fd # "fdout"

(* Entry m is the one that fdout was opened for last; of its file the      *)
(* first c bytes are written, or about to be.                              *)
Done(m) ==
  LET f == archive[m].file
  IN  /\ i_size[f] = archive[m].size
      /\ \A k \in 0..(archive[m].size - 1) : disk[Addr(f, k)] = Data(f, k)

Copied(m, c) ==
  LET f == archive[m].file
  IN  /\ fd_inode["fdout"] = f
      /\ \A k \in 0..(fd_pos["fdout"] - 1) : disk[Addr(f, k)] = Data(f, k)
      /\ IF InCall /\ rw.fd = "fdout"
           THEN /\ i_size[f] <= fd_pos["fdout"]
                /\ rw.op = "WRITE" /\ End = c
                /\ \A k \in rw.from..(c - 1) : buf[k - rw.from + 1] = Data(f, k)
           ELSE i_size[f] = c /\ fd_pos["fdout"] = c

Extracting(m, c) ==
  /\ \A j \in 1..(m - 1) : Done(j)
  /\ \A j \in (m + 1)..Len(archive) : i_size[archive[j].file] = 0
  /\ IF m > 0 THEN Copied(m, c) ELSE NoFileWrite

SizeOf(m) == IF m = 0 THEN 0 ELSE archive[m].size

BetweenFiles(m, q, c) ==
  /\ c = SizeOf(m) /\ Extracting(m, c)
  /\ Stands(m + 1, q)
  /\ \/ untar.pc = "header" /\ fd_pos["fd"] = q /\ NoTarRead
     \/ untar.pc = "got_header" /\ TarRead(q, SECTOR_SIZE)

InsideFile(m, q, c) ==
  /\ untar.bytes_left > 0 /\ c + untar.bytes_left = archive[m].size
  /\ c % SECTOR_SIZE = 0
  /\ Extracting(m, c)
  /\ Stands(m, q)
  /\ \/ untar.pc = "copy" /\ fd_pos["fd"] = q + SECTOR_SIZE + c /\ NoTarRead
     \/ untar.pc = "copied" /\ TarRead(q + SECTOR_SIZE + c, WholeSectors)

UntarFits ==
  \/ untar.pc = "done"
  \/ \E m \in 0..Len(archive), q \in 0..Limit(Tar), c \in 0..Room :
       BetweenFiles(m, q, c) \/ (m > 0 /\ InsideFile(m, q, c))

FdInv ==
  /\ FdTypes /\ CallFits /\ ReadSoFar /\ Behind /\ Covered /\ InRoom /\ WrittenKept
  /\ UntarFits

-----------------------------------------------------------------------------
(* Sectors and bytes.                                                      *)
LEMMA Consts ==
  /\ NrFiles \in Nat /\ NrFiles > 0 /\ SECTOR_SIZE \in Nat /\ SECTOR_SIZE > 0
  /\ NR_DEFAULT_FILE_SECTS \in Nat /\ NR_DEFAULT_FILE_SECTS > 0
  /\ INSTALL_NR_SECTS \in Nat /\ INSTALL_NR_SECTS > 0
  /\ FSBUF_SECTS \in Nat /\ FSBUF_SECTS > 0 /\ UntarSects \in Nat /\ UntarSects > 0
  /\ Room \in Nat /\ Room >= SECTOR_SIZE /\ Limit(Tar) \in Nat /\ Limit(Tar) >= SECTOR_SIZE
  /\ Limit(Tar) = INSTALL_NR_SECTS * SECTOR_SIZE
  /\ Tar \in Nat /\ Tar \notin File /\ Tar \in Extracted
  /\ \A f \in File : f \in Nat /\ f < Tar /\ f \in Extracted /\ f # Tar /\ Limit(f) = Room
  /\ \A f \in Extracted : f \in Nat /\ (f \in File \/ f = Tar)
  /\ "fd" \in Entry /\ "fdout" \in Entry /\ "fd" # "fdout"
  /\ \A d \in Desc : d \in Entry /\ d # "fd" /\ d # "fdout"
  /\ Never \notin Nat
<1>1. /\ NrFiles \in Nat /\ NrFiles > 0 /\ SECTOR_SIZE \in Nat /\ SECTOR_SIZE > 0
      /\ NR_DEFAULT_FILE_SECTS \in Nat /\ NR_DEFAULT_FILE_SECTS > 0
      /\ INSTALL_NR_SECTS \in Nat /\ INSTALL_NR_SECTS > 0
      /\ FSBUF_SECTS \in Nat /\ FSBUF_SECTS > 0 /\ UntarSects \in Nat /\ UntarSects > 0
  BY FileDataAssumption
<1>2. ASSUME NEW n \in Nat, n > 0 PROVE n * SECTOR_SIZE \in Nat /\ n * SECTOR_SIZE >= SECTOR_SIZE
  BY <1>1, <1>2
<1>3. /\ Tar \in Nat /\ Tar \notin File /\ Tar \in Extracted
      /\ \A f \in File : f \in Nat /\ f < Tar /\ f \in Extracted /\ f # Tar
      /\ \A f \in Extracted : f \in Nat /\ (f \in File \/ f = Tar)
  BY <1>1 DEF Tar, File, Extracted
<1>4. /\ "fd" \in Entry /\ "fdout" \in Entry /\ "fd" # "fdout"
      /\ \A d \in Desc : d \in Entry /\ d # "fd" /\ d # "fdout"
  BY FileDataAssumption DEF Entry
<1>5. Never \notin Nat
  BY DEF Never
<1>6. /\ Limit(Tar) = INSTALL_NR_SECTS * SECTOR_SIZE
      /\ \A f \in File : Limit(f) = Room
  BY <1>3 DEF Limit, Nr_sects, Room
<1>7. /\ Room \in Nat /\ Room >= SECTOR_SIZE /\ Limit(Tar) \in Nat /\ Limit(Tar) >= SECTOR_SIZE
  BY <1>1, <1>2, <1>6 DEF Room
<1>8. QED
  BY <1>1, <1>3, <1>4, <1>5, <1>6, <1>7

LEMMA Multiples ==
  ASSUME NEW m \in Int, NEW n \in Int
  PROVE  /\ m * SECTOR_SIZE \in Int
         /\ (m + n) * SECTOR_SIZE = m * SECTOR_SIZE + n * SECTOR_SIZE
         /\ (m - n) * SECTOR_SIZE = m * SECTOR_SIZE - n * SECTOR_SIZE
         /\ m >= 0 => m * SECTOR_SIZE >= 0
         /\ m <= n => m * SECTOR_SIZE <= n * SECTOR_SIZE
         /\ m < n => m * SECTOR_SIZE + SECTOR_SIZE <= n * SECTOR_SIZE
BY Consts

LEMMA Division ==
  ASSUME NEW x \in Nat
  PROVE  /\ x \div SECTOR_SIZE \in Nat /\ x % SECTOR_SIZE \in 0..(SECTOR_SIZE - 1)
         /\ x = (x \div SECTOR_SIZE) * SECTOR_SIZE + (x % SECTOR_SIZE)
         /\ \A q \in Int : \A r \in 0..(SECTOR_SIZE - 1) :
              x = q * SECTOR_SIZE + r => q = x \div SECTOR_SIZE /\ r = x % SECTOR_SIZE
<1>1. SECTOR_SIZE \in Nat /\ SECTOR_SIZE > 0
  BY Consts
<1>2. x \div SECTOR_SIZE \in Nat
  BY <1>1
<1>3. x % SECTOR_SIZE = x - SECTOR_SIZE * (x \div SECTOR_SIZE)
  BY <1>1
<1>4. x % SECTOR_SIZE \in 0..(SECTOR_SIZE - 1)
  BY <1>1
<1>5. x = (x \div SECTOR_SIZE) * SECTOR_SIZE + (x % SECTOR_SIZE)
  <2>1. PICK q \in Int : q = x \div SECTOR_SIZE
    BY <1>2
  <2>2. PICK r \in Int : r = x % SECTOR_SIZE
    BY <1>4
  <2>3. r = x - SECTOR_SIZE * q
    BY <1>3, <2>1, <2>2, Zenon
  <2>4. x = q * SECTOR_SIZE + r
    BY <1>1, <2>3
  <2>5. QED
    BY <2>1, <2>2, <2>4, Zenon
<1>6. ASSUME NEW q \in Int, NEW r \in 0..(SECTOR_SIZE - 1), x = q * SECTOR_SIZE + r
      PROVE  q = x \div SECTOR_SIZE /\ r = x % SECTOR_SIZE
  BY <1>1, <1>6
<1>7. QED
  BY <1>2, <1>4, <1>5, <1>6

LEMMA Addresses ==
  /\ \A f \in Extracted : /\ f * Room \in Nat /\ Start(f) \in Nat
                          /\ Start(f) * SECTOR_SIZE = f * Room
                          /\ \A p : Addr(f, p) = f * Room + p
  /\ \A f, g \in Extracted : f < g => f * Room + Room <= g * Room
  /\ Disk = 0..(Tar * Room + Limit(Tar) - 1)
<1>1. ASSUME NEW f \in Extracted
      PROVE  /\ f * Room \in Nat /\ Start(f) \in Nat
             /\ Start(f) * SECTOR_SIZE = f * Room
             /\ \A p : Addr(f, p) = f * Room + p
  <2>1. f \in Nat
    BY <1>1, Consts
  <2>2. Start(f) * SECTOR_SIZE = f * Room
    BY <2>1, Consts DEF Start, Room
  <2>3. f * Room \in Nat /\ Start(f) \in Nat
    BY <2>1, Consts DEF Start
  <2>4. QED
    BY <2>2, <2>3 DEF Addr
<1>2. ASSUME NEW f \in Extracted, NEW g \in Extracted, f < g
      PROVE  f * Room + Room <= g * Room
  <2>1. f \in Nat /\ g \in Nat /\ f + 1 <= g
    BY <1>2, Consts
  <2>2. (f + 1) * Room <= g * Room
    BY <2>1, Consts
  <2>3. QED
    BY <2>1, <2>2, Consts
<1>3. Disk = 0..(Tar * Room + Limit(Tar) - 1)
  BY <1>1, Consts DEF Disk
<1>4. QED
  BY <1>1, <1>2, <1>3

-----------------------------------------------------------------------------
(* A turn of the loop: n bytes of file f, from its byte p on.              *)
TurnBytes == Least(rw.bytes_left, rw.chunk * SECTOR_SIZE - rw.off)

LEMMA CallTypes ==
  ASSUME FdTypes, InCall
  PROVE  /\ rw \in Calls /\ rw.op \in {"READ", "WRITE"} /\ rw.fd \in Entry
         /\ rw.from \in Nat /\ rw.i \in Nat /\ rw.rw_sect_max \in Nat
         /\ rw.off \in 0..(SECTOR_SIZE - 1) /\ rw.chunk \in Nat /\ rw.chunk > 0
         /\ rw.bytes_rw \in Nat /\ rw.bytes_left \in Nat
         /\ InFile \in Extracted /\ At \in Nat /\ End \in Nat
<1>1. rw \in Calls
  BY DEF FdTypes, InCall
<1>2. /\ rw.op \in {"READ", "WRITE"} /\ rw.fd \in Entry
      /\ rw.from \in Nat /\ rw.i \in Nat /\ rw.rw_sect_max \in Nat
      /\ rw.off \in 0..(SECTOR_SIZE - 1) /\ rw.chunk \in Nat /\ rw.chunk > 0
      /\ rw.bytes_rw \in Nat /\ rw.bytes_left \in Nat
  BY <1>1 DEF Calls
<1>3. InFile \in Extracted /\ At \in Nat
  BY <1>2 DEF FdTypes, InFile, At
<1>4. End \in Nat
  BY <1>2 DEF End
<1>5. QED
  BY <1>1, <1>2, <1>3, <1>4

LEMMA TurnReaches ==
  ASSUME FdTypes, CallFits, RdwtTurn,
         NEW n, n = TurnBytes, NEW f, f = InFile, NEW p, p = At
  PROVE  /\ InCall /\ f \in Extracted /\ p \in Nat /\ n \in Nat
         /\ n <= rw.bytes_left /\ p + n <= End
         /\ n < rw.bytes_left => n = rw.chunk * SECTOR_SIZE - rw.off
         /\ n > 0 => rw.i * SECTOR_SIZE + rw.off = f * Room + p
         /\ n <= rw.chunk * SECTOR_SIZE - rw.off
         /\ f \in File => p + n <= Room + SECTOR_SIZE
         /\ f = Tar => p + n <= Limit(Tar)
<1>1. InCall /\ rw.i <= rw.rw_sect_max
  BY DEF RdwtTurn, InCall
<1> DEFINE c == rw.chunk * SECTOR_SIZE
<1>2. f \in Extracted /\ p \in Nat /\ rw.off < c /\ c \in Nat /\ rw.bytes_left \in Nat
      /\ rw.off \in Nat /\ rw.i \in Nat /\ rw.chunk \in Nat /\ rw.from \in Nat /\ rw.bytes_rw \in Nat
  BY <1>1, CallTypes, Multiples, Consts
<1>3. /\ n \in Nat /\ n <= rw.bytes_left /\ n <= c - rw.off
      /\ n < rw.bytes_left => n = rw.chunk * SECTOR_SIZE - rw.off
  BY <1>2 DEF TurnBytes, Least
<1>4. p = rw.from + rw.bytes_rw /\ p + rw.bytes_left = End
  BY <1>1, <1>2 DEF CallFits, End
<1>5. n > 0 => rw.i * SECTOR_SIZE + rw.off = f * Room + p
  BY <1>1, <1>2, <1>3, Addresses DEF CallFits
<1>6. ASSUME f \in File
      PROVE  p + n <= Room + SECTOR_SIZE
  <2>1. p <= Room + SECTOR_SIZE
    BY <1>1, <1>6 DEF CallFits
  <2>2. CASE End <= Room + SECTOR_SIZE
    BY <1>2, <1>3, <1>4, <2>2, Consts
  <2>3. CASE n > 0 /\ (rw.i + rw.chunk) * SECTOR_SIZE <= Addr(f, Room + SECTOR_SIZE)
    <3>1. PICK x \in Int : x = rw.i * SECTOR_SIZE
      BY <1>2, Consts
    <3>2. PICK y \in Nat : y = f * Room
      BY <1>2, Addresses
    <3>3. (rw.i + rw.chunk) * SECTOR_SIZE = x + c
      BY <1>2, <3>1, Consts
    <3>4. Addr(f, Room + SECTOR_SIZE) = y + (Room + SECTOR_SIZE)
      BY <1>2, <3>2, Addresses
    <3>5. x + c <= y + (Room + SECTOR_SIZE) /\ x + rw.off = y + p
      BY <1>5, <2>3, <3>1, <3>2, <3>3, <3>4
    <3>6. QED
      BY <1>2, <1>3, <3>5, Consts
  <2>4. \/ n = 0 \/ End <= Room + SECTOR_SIZE
        \/ n > 0 /\ (rw.i + rw.chunk) * SECTOR_SIZE <= Addr(f, Room + SECTOR_SIZE)
    <3>1. \/ (rw.i + rw.chunk) * SECTOR_SIZE <= Addr(f, Room + SECTOR_SIZE)
          \/ rw.i > rw.rw_sect_max
          \/ End <= Room + SECTOR_SIZE
      BY <1>1, <1>6 DEF CallFits
    <3>2. ~ (rw.i > rw.rw_sect_max)
      BY <1>1, CallTypes
    <3>3. QED
      BY <1>3, <3>1, <3>2
  <2>5. QED
    BY <1>2, <2>1, <2>2, <2>3, <2>4, Consts
<1>7. ASSUME f = Tar PROVE p + n <= Limit(Tar)
  BY <1>1, <1>2, <1>3, <1>4, <1>7, Consts DEF CallFits
<1>8. p + n <= End
  BY <1>2, <1>3, <1>4
<1>9. QED
  BY <1>1, <1>2, <1>3, <1>5, <1>6, <1>7, <1>8

LEMMA TurnOnDisk ==
  ASSUME FdTypes, CallFits, RdwtTurn,
         NEW n, n = TurnBytes, NEW f, f = InFile, NEW p, p = At,
         NEW b \in (f * Room + p)..(f * Room + p + n - 1)
  PROVE  b \in Disk
<1>1. /\ f \in Extracted /\ p \in Nat /\ n \in Nat
      /\ f \in File => p + n <= Room + SECTOR_SIZE
      /\ f = Tar => p + n <= Limit(Tar)
  BY TurnReaches
<1>2. PICK y \in Nat : y = f * Room
  BY <1>1, Addresses
<1>3. PICK z \in Nat : z = Tar * Room
  BY Addresses, Consts
<1>4. Disk = 0..(z + Limit(Tar) - 1)
  BY <1>3, Addresses
<1>5. b \in Nat /\ b < y + (p + n)
  BY <1>1, <1>2
<1>6. CASE f = Tar
  BY <1>1, <1>2, <1>3, <1>4, <1>5, <1>6, Consts
<1>7. CASE f \in File
  <2>1. y + Room <= z
    BY <1>1, <1>2, <1>3, <1>7, Addresses, Consts
  <2>2. QED
    BY <1>1, <1>4, <1>5, <1>7, <2>1, Consts
<1>8. QED
  BY <1>1, <1>6, <1>7, Consts

LEMMA TurnReads ==
  ASSUME FdTypes, CallFits, RdwtTurn, rw.op = "READ",
         NEW n, n = TurnBytes, NEW f, f = InFile, NEW p, p = At
  PROVE  /\ disk' = disk /\ written' = written
         /\ buf' \in Seq(Nat) /\ Len(buf') = Len(buf) + n
         /\ \A k \in 1..Len(buf) : buf'[k] = buf[k]
         /\ \A k \in 1..n : buf'[Len(buf) + k] = disk[f * Room + p + k - 1]
<1>1. /\ InCall /\ f \in Extracted /\ p \in Nat /\ n \in Nat
      /\ n > 0 => rw.i * SECTOR_SIZE + rw.off = f * Room + p
      /\ n <= rw.chunk * SECTOR_SIZE - rw.off
  BY TurnReaches
<1>2. disk' = disk /\ written' = written /\ buf' = buf \o Given(n)
  BY DEF RdwtTurn, TurnBytes
<1>3. rw.off \in Nat /\ rw.chunk \in Nat /\ rw.i \in Nat
  BY <1>1, CallTypes, Consts
<1>4. ASSUME NEW k \in 1..n
      PROVE  Given(n)[k] = disk[f * Room + p + k - 1] /\ Given(n)[k] \in Nat
  <2>1. PICK x \in Nat : x = rw.i * SECTOR_SIZE
    BY <1>3, Consts
  <2>2. PICK y \in Nat : y = f * Room
    BY <1>1, Addresses
  <2>3. PICK c \in Nat : c = rw.chunk * SECTOR_SIZE
    BY <1>3, Consts
  <2>4. x + rw.off = y + p /\ n <= c - rw.off
    BY <1>1, <2>1, <2>2, <2>3
  <2>5. rw.off + k - 1 \in 0..(c - 1) /\ x + (rw.off + k - 1) = y + p + k - 1
    BY <1>1, <1>3, <2>4
  <2>6. fsbuf[rw.off + k - 1] = disk[x + (rw.off + k - 1)]
    BY <2>1, <2>3, <2>5 DEF fsbuf
  <2>7. Given(n)[k] = fsbuf[rw.off + k - 1]
    BY <1>1 DEF Given
  <2>8. y + p + k - 1 \in Disk
    <3>1. y + p + k - 1 \in (f * Room + p)..(f * Room + p + n - 1)
      BY <1>1, <2>2
    <3>2. QED
      BY <3>1, TurnOnDisk
  <2>9. QED
    BY <2>2, <2>5, <2>6, <2>7, <2>8 DEF FdTypes
<1>5. Given(n) \in Seq(Nat) /\ Len(Given(n)) = n
  <2>1. DOMAIN Given(n) = 1..n /\ Given(n) = [k \in 1..n |-> Given(n)[k]]
    BY DEF Given
  <2>2. Given(n) \in [1..n -> Nat]
    BY <1>4, <2>1
  <2>3. QED
    BY <1>1, <2>2
<1>6. buf \in Seq(Nat)
  BY DEF FdTypes
<1>7. /\ buf' \in Seq(Nat) /\ Len(buf') = Len(buf) + n
      /\ \A k \in 1..(Len(buf) + n) :
           buf'[k] = IF k <= Len(buf) THEN buf[k] ELSE Given(n)[k - Len(buf)]
  <2>1. PICK g \in Seq(Nat) : g = Given(n) /\ Len(g) = n
    BY <1>5
  <2>2. /\ buf \o g \in Seq(Nat) /\ Len(buf \o g) = Len(buf) + Len(g)
        /\ \A k \in 1..(Len(buf) + Len(g)) :
             (buf \o g)[k] = IF k <= Len(buf) THEN buf[k] ELSE g[k - Len(buf)]
    BY <1>6, ConcatProperties
  <2>3. QED
    BY <1>2, <2>1, <2>2
<1>8. Len(buf) \in Nat
  BY <1>6
<1>9. \A k \in 1..Len(buf) : buf'[k] = buf[k]
  BY <1>1, <1>7, <1>8
<1>10. \A k \in 1..n : buf'[Len(buf) + k] = Given(n)[k]
  <2>1. ASSUME NEW k \in 1..n PROVE buf'[Len(buf) + k] = Given(n)[k]
    <3>1. Len(buf) + k \in 1..(Len(buf) + n) /\ ~ (Len(buf) + k <= Len(buf))
          /\ (Len(buf) + k) - Len(buf) = k
      BY <1>1, <1>8
    <3>2. QED
      BY <1>7, <3>1
  <2>2. QED
    BY <2>1
<1>11. QED
  BY <1>2, <1>4, <1>7, <1>9, <1>10

LEMMA TurnWrites ==
  ASSUME FdTypes, CallFits, RdwtTurn, rw.op = "WRITE",
         NEW n, n = TurnBytes, NEW f, f = InFile, NEW p, p = At
  PROVE  /\ f \in File /\ buf' = buf
         /\ disk' \in [Disk -> Nat]
         /\ \A b \in Disk : b \notin (f * Room + p)..(f * Room + p + n - 1) => disk'[b] = disk[b]
         /\ \A k \in p..(p + n - 1) : disk'[f * Room + k] = buf[k - rw.from + 1]
         /\ written' = [written EXCEPT ![f] =
              [k \in DOMAIN @ |-> IF k \in p..(p + n - 1) THEN buf[k - rw.from + 1] ELSE @[k]]]
<1>1. /\ InCall /\ f \in Extracted /\ p \in Nat /\ n \in Nat
      /\ n > 0 => rw.i * SECTOR_SIZE + rw.off = f * Room + p
      /\ n <= rw.chunk * SECTOR_SIZE - rw.off /\ n <= rw.bytes_left
  BY TurnReaches
<1>2. /\ rw.off \in Nat /\ rw.chunk \in Nat /\ rw.i \in Nat /\ rw.from \in Nat
      /\ rw.bytes_rw \in Nat /\ rw.bytes_left \in Nat
  BY <1>1, CallTypes, Consts
<1>3. f \in File /\ p = rw.from + rw.bytes_rw /\ Len(buf) >= rw.bytes_rw + rw.bytes_left
  BY <1>1 DEF CallFits
<1> DEFINE w == rw.bytes_rw  o == rw.from  len == Len(buf)
<1>0. w \in Nat /\ o \in Nat /\ len \in Nat /\ p \in Nat /\ n \in Nat /\ p = o + w /\ len >= w + n
  <2>1. buf \in Seq(Nat)
    BY DEF FdTypes
  <2>2. len \in Nat
    BY <2>1
  <2>3. w \in Nat /\ o \in Nat /\ p \in Nat /\ n \in Nat /\ rw.bytes_left \in Nat
        /\ n <= rw.bytes_left /\ p = o + w /\ len >= w + rw.bytes_left
    BY <1>1, <1>2, <1>3
  <2> HIDE DEF w, o, len
  <2>4. QED
    BY <2>2, <2>3
<1> HIDE DEF w, o, len
<1>4. PICK x \in Nat : x = rw.i * SECTOR_SIZE
  BY <1>2, Consts
<1>5. PICK y \in Nat : y = f * Room
  BY <1>1, Addresses
<1>6. PICK c \in Nat : c = rw.chunk * SECTOR_SIZE
  BY <1>2, Consts
<1>7. (rw.i + rw.chunk) * SECTOR_SIZE = x + c
  BY <1>2, <1>4, <1>6, Consts
<1>8. /\ buf' = buf
      /\ disk' = [b \in Disk |-> IF b \in x..(x + c - 1) THEN Filled(n)[b - x] ELSE disk[b]]
      /\ written' = [written EXCEPT ![f] =
              [k \in DOMAIN @ |-> IF k \in p..(p + n - 1) THEN buf[k - rw.from + 1] ELSE @[k]]]
  BY <1>4, <1>7 DEF RdwtTurn, TurnBytes, InFile, At
<1>9. ASSUME NEW b \in Disk
      PROVE  disk'[b] = IF b \in (y + p)..(y + p + n - 1)
                          THEN buf[rw.bytes_rw + (b - (y + p)) + 1] ELSE disk[b]
  <2>1. b \in Nat
    BY Addresses, Consts DEF Disk
  <2>2. CASE b \in x..(x + c - 1)
    <3>1. b - x \in 0..(c - 1) /\ x + (b - x) = b
      BY <2>1, <2>2
    <3>2. DOMAIN fsbuf = 0..(c - 1) /\ fsbuf[b - x] = disk[b]
      BY <1>4, <1>6, <3>1 DEF fsbuf
    <3>3. Filled(n)[b - x] = IF b - x \in rw.off..(rw.off + n - 1)
                               THEN buf[rw.bytes_rw + (b - x) - rw.off + 1] ELSE disk[b]
      BY <3>1, <3>2 DEF Filled
    <3>4. b - x \in rw.off..(rw.off + n - 1) <=> b \in (y + p)..(y + p + n - 1)
      BY <1>1, <1>2, <1>4, <1>5, <2>1
    <3>5. b - x \in rw.off..(rw.off + n - 1) =>
            rw.bytes_rw + (b - x) - rw.off + 1 = rw.bytes_rw + (b - (y + p)) + 1
      BY <1>1, <1>2, <1>4, <1>5, <2>1
    <3>6. disk'[b] = Filled(n)[b - x]
      BY <1>8, <2>2
    <3>7. QED
      BY <3>3, <3>4, <3>5, <3>6
  <2>3. CASE b \notin x..(x + c - 1)
    <3>1. b \notin (y + p)..(y + p + n - 1)
      BY <1>1, <1>2, <1>4, <1>5, <1>6, <2>1, <2>3
    <3>2. QED
      BY <1>8, <2>3, <3>1
  <2>4. QED
    BY <2>2, <2>3
<1>10. \A b \in Disk : b \notin (f * Room + p)..(f * Room + p + n - 1) => disk'[b] = disk[b]
  BY <1>5, <1>9
<1>11. ASSUME NEW k \in p..(p + n - 1)
       PROVE  disk'[f * Room + k] = buf[k - rw.from + 1]
  <2>1. y + k \in (y + p)..(y + p + n - 1)
    BY <1>1
  <2>2. y + k \in Disk
    BY <1>5, <2>1, TurnOnDisk
  <2>3. w + ((y + k) - (y + p)) + 1 = k - o + 1
    BY <1>5, <1>0
  <2>4. QED
    BY <1>5, <1>9, <2>1, <2>2, <2>3 DEF w, o
<1>12. disk' \in [Disk -> Nat]
  <2>1. ASSUME NEW b \in Disk PROVE disk'[b] \in Nat
    <3>1. CASE b \in (y + p)..(y + p + n - 1)
      <4>1. b - (y + p) \in 0..(n - 1)
        BY <1>5, <1>0, <3>1
      <4>2. w + (b - (y + p)) + 1 \in 1..len
        BY <1>0, <4>1
      <4>3. rw.bytes_rw + (b - (y + p)) + 1 \in 1..Len(buf)
        BY <4>2 DEF w, len
      <4>4. QED
        BY <1>9, <3>1, <4>3 DEF FdTypes
    <3>2. CASE b \notin (y + p)..(y + p + n - 1)
      BY <1>9, <3>2 DEF FdTypes
    <3>3. QED
      BY <3>1, <3>2
  <2>2. disk' = [b \in Disk |-> disk'[b]]
    BY <1>8
  <2>3. QED
    BY <2>1, <2>2
<1>13. QED
  BY <1>3, <1>8, <1>10, <1>11, <1>12

-----------------------------------------------------------------------------
(* A turn keeps the invariant.                                             *)
LEMMA TurnMoves ==
  ASSUME FdTypes, CallFits, RdwtTurn,
         NEW n, n = TurnBytes, NEW f, f = InFile, NEW p, p = At
  PROVE  /\ UNCHANGED <<i_size, fd_inode, untar, archive>>
         /\ fd_pos' = [fd_pos EXCEPT ![rw.fd] = p + n]
         /\ rw' \in Calls /\ InCall' /\ InFile' = f /\ At' = p + n /\ End' = End
         /\ rw'.op = rw.op /\ rw'.fd = rw.fd /\ rw'.from = rw.from
         /\ rw'.rw_sect_max = rw.rw_sect_max /\ rw'.i = rw.i + rw.chunk /\ rw'.off = 0
         /\ rw'.chunk = rw.chunk /\ rw'.bytes_rw = rw.bytes_rw + n
         /\ rw'.bytes_left = rw.bytes_left - n
<1>1. /\ InCall /\ f \in Extracted /\ p \in Nat /\ n \in Nat /\ n <= rw.bytes_left
  BY TurnReaches
<1>2. /\ rw \in Calls /\ rw.op \in {"READ", "WRITE"} /\ rw.fd \in Entry
      /\ rw.i \in Nat /\ rw.chunk \in Nat /\ rw.from \in Nat /\ rw.bytes_rw \in Nat /\ rw.bytes_left \in Nat
  BY <1>1, CallTypes
<1>3. /\ UNCHANGED <<i_size, fd_inode, untar, archive>>
      /\ fd_pos' = [fd_pos EXCEPT ![rw.fd] = @ + n]
      /\ rw' = [rw EXCEPT !.i = @ + rw.chunk, !.off = 0, !.bytes_rw = @ + n, !.bytes_left = @ - n]
  BY DEF RdwtTurn, TurnBytes
<1>4. fd_pos' = [fd_pos EXCEPT ![rw.fd] = p + n] /\ fd_pos'[rw.fd] = p + n
  BY <1>2, <1>3 DEF At, FdTypes
<1>5. /\ rw'.op = rw.op /\ rw'.fd = rw.fd /\ rw'.from = rw.from
      /\ rw'.rw_sect_max = rw.rw_sect_max /\ rw'.i = rw.i + rw.chunk /\ rw'.off = 0
      /\ rw'.chunk = rw.chunk /\ rw'.bytes_rw = rw.bytes_rw + n
      /\ rw'.bytes_left = rw.bytes_left - n
  BY <1>2, <1>3 DEF Calls
<1>6. rw' \in Calls
  <2>1. rw.i + rw.chunk \in Nat /\ 0 \in 0..(SECTOR_SIZE - 1) /\ rw.bytes_rw + n \in Nat
        /\ rw.bytes_left - n \in Nat
    BY <1>1, <1>2, Consts
  <2>2. QED
    BY <1>2, <1>3, <2>1 DEF Calls
<1>7. InCall'
  BY <1>2, <1>5 DEF InCall, NoCall
<1>8. InFile' = f /\ At' = p + n
  BY <1>3, <1>4, <1>5 DEF InFile, At
<1>9. End' = End
  BY <1>1, <1>2, <1>5 DEF End
<1>10. QED
  BY <1>3, <1>4, <1>5, <1>6, <1>7, <1>8, <1>9

LEMMA TurnTypes ==
  ASSUME FdTypes, CallFits, RdwtTurn
  PROVE  FdTypes'
<1>1. PICK n : n = TurnBytes
  OBVIOUS
<1>2. PICK f : f = InFile
  OBVIOUS
<1>3. PICK p : p = At
  OBVIOUS
<1>4. /\ InCall /\ f \in Extracted /\ p \in Nat /\ n \in Nat /\ n <= rw.bytes_left
      /\ f \in File => p + n <= Room + SECTOR_SIZE
  BY <1>1, <1>2, <1>3, TurnReaches
<1>5. rw.op \in {"READ", "WRITE"} /\ rw.fd \in Entry /\ rw.from \in Nat /\ rw.bytes_rw \in Nat
      /\ rw.bytes_left \in Nat
  BY <1>4, CallTypes
<1>6. /\ UNCHANGED <<i_size, fd_inode, untar, archive>>
      /\ fd_pos' = [fd_pos EXCEPT ![rw.fd] = p + n]
      /\ rw' \in Calls
  BY <1>1, <1>2, <1>3, TurnMoves
<1>7. fd_pos' \in [Entry -> Nat]
  BY <1>4, <1>5, <1>6 DEF FdTypes
<1>8. /\ disk' \in [Disk -> Nat] /\ buf' \in Seq(Nat)
      /\ written' \in [File -> [0..(Room + SECTOR_SIZE - 1) -> Nat \cup {Never}]]
  <2>1. CASE rw.op = "READ"
    BY <1>1, <1>2, <1>3, <2>1, TurnReads DEF FdTypes
  <2>2. CASE rw.op = "WRITE"
    <3>1. /\ f \in File /\ buf' = buf /\ disk' \in [Disk -> Nat]
          /\ written' = [written EXCEPT ![f] =
              [k \in DOMAIN @ |-> IF k \in p..(p + n - 1) THEN buf[k - rw.from + 1] ELSE @[k]]]
      BY <1>1, <1>2, <1>3, <2>2, TurnWrites
    <3>2. DOMAIN written[f] = 0..(Room + SECTOR_SIZE - 1)
      BY <3>1 DEF FdTypes
    <3>3. p = rw.from + rw.bytes_rw /\ Len(buf) >= rw.bytes_rw + rw.bytes_left
      BY <1>2, <1>3, <1>4, <2>2 DEF CallFits
    <3>4. ASSUME NEW k \in DOMAIN written[f]
          PROVE  (IF k \in p..(p + n - 1) THEN buf[k - rw.from + 1] ELSE written[f][k]) \in Nat \cup {Never}
      <4>1. CASE k \in p..(p + n - 1)
        <5>1. Len(buf) \in Nat
          BY DEF FdTypes
        <5> DEFINE o == rw.from  w == rw.bytes_rw  len == Len(buf)
        <5>2. o \in Nat /\ w \in Nat /\ len \in Nat /\ p = o + w /\ len >= w + n
          BY <1>4, <1>5, <3>3, <5>1
        <5>3. k \in Int /\ p <= k /\ k <= p + n - 1
          BY <1>4, <4>1
        <5> HIDE DEF o, w, len
        <5>4. k - o + 1 \in 1..len
          BY <1>4, <5>2, <5>3
        <5>5. QED
          BY <4>1, <5>4 DEF FdTypes, o, len
      <4>2. CASE k \notin p..(p + n - 1)
        BY <3>1, <3>2, <4>2 DEF FdTypes
      <4>3. QED
        BY <4>1, <4>2
    <3>5. QED
      BY <3>1, <3>2, <3>4 DEF FdTypes
  <2>3. QED
    BY <1>5, <2>1, <2>2
<1>9. QED
  BY <1>6, <1>7, <1>8 DEF FdTypes

LEMMA TurnFits ==
  ASSUME FdTypes, CallFits, RdwtTurn
  PROVE  CallFits'
<1>1. PICK n : n = TurnBytes
  OBVIOUS
<1>2. PICK f : f = InFile
  OBVIOUS
<1>3. PICK p : p = At
  OBVIOUS
<1>4. /\ InCall /\ f \in Extracted /\ p \in Nat /\ n \in Nat /\ n <= rw.bytes_left
      /\ n < rw.bytes_left => n = rw.chunk * SECTOR_SIZE - rw.off
      /\ f \in File => p + n <= Room + SECTOR_SIZE
  BY <1>1, <1>2, <1>3, TurnReaches
<1>5. /\ rw.op \in {"READ", "WRITE"} /\ rw.fd \in Entry /\ rw.from \in Nat /\ rw.bytes_rw \in Nat
      /\ rw.bytes_left \in Nat /\ rw.i \in Nat /\ rw.chunk \in Nat /\ rw.off \in Nat
      /\ rw.rw_sect_max \in Nat
  BY <1>4, CallTypes, Consts
<1>6. /\ untar' = untar
      /\ InCall' /\ InFile' = f /\ At' = p + n /\ End' = End
      /\ rw'.op = rw.op /\ rw'.fd = rw.fd /\ rw'.from = rw.from
      /\ rw'.rw_sect_max = rw.rw_sect_max /\ rw'.i = rw.i + rw.chunk /\ rw'.off = 0
      /\ rw'.chunk = rw.chunk /\ rw'.bytes_rw = rw.bytes_rw + n
      /\ rw'.bytes_left = rw.bytes_left - n
  BY <1>1, <1>2, <1>3, TurnMoves
<1>7. p + n = rw.from + (rw.bytes_rw + n)
  <2>1. p = rw.from + rw.bytes_rw
    BY <1>3, <1>4 DEF CallFits
  <2>2. n \in Nat /\ rw.from \in Nat /\ rw.bytes_rw \in Nat
    BY <1>4, <1>5
  <2>3. QED
    BY <2>1, <2>2
<1>8. rw.bytes_left - n > 0 => (rw.i + rw.chunk) * SECTOR_SIZE + 0 = Addr(f, p + n)
  <2>1. PICK x \in Nat : x = rw.i * SECTOR_SIZE
    BY <1>5, Consts
  <2>2. PICK y \in Nat : y = f * Room
    BY <1>4, Addresses
  <2>3. PICK c \in Nat : c = rw.chunk * SECTOR_SIZE
    BY <1>5, Consts
  <2>4. (rw.i + rw.chunk) * SECTOR_SIZE = x + c
    BY <1>5, <2>1, <2>3, Consts
  <2>5. Addr(f, p + n) = y + (p + n) /\ Addr(f, p) = y + p
    BY <1>4, <2>2, Addresses
  <2>6. rw.bytes_left > 0 => x + rw.off = y + p
    BY <1>2, <1>3, <1>4, <2>1, <2>5 DEF CallFits
  <2>7. PICK o \in Nat, l \in Nat : o = rw.off /\ l = rw.bytes_left
    BY <1>5
  <2>8. n < l => n = c - o
    BY <1>4, <2>3, <2>7
  <2>9. l - n > 0 => x + c = y + (p + n)
    BY <1>4, <2>6, <2>7, <2>8
  <2>10. QED
    BY <2>4, <2>5, <2>7, <2>9
<1>9. rw.op = "READ" => Len(buf') = rw.bytes_rw + n
  BY <1>1, <1>2, <1>3, <1>4, TurnReads DEF CallFits
<1>10. rw.op = "WRITE" => Len(buf') >= (rw.bytes_rw + n) + (rw.bytes_left - n) /\ f \in File
  <2>1. rw.op = "WRITE" => Len(buf) >= rw.bytes_rw + rw.bytes_left /\ buf' = buf /\ f \in File
    BY <1>1, <1>2, <1>3, <1>4, TurnWrites DEF CallFits
  <2>2. QED
    BY <1>4, <1>5, <2>1
<1>11. /\ f = Tar => rw.fd = "fd" /\ End <= Limit(Tar)
       /\ untar.pc # "done" => /\ rw.fd \in {"fd", "fdout"} /\ End <= Limit(f)
                               /\ Addr(f, End) < (rw.rw_sect_max + 1) * SECTOR_SIZE
  BY <1>2, <1>4 DEF CallFits
<1>12. f \in File => rw.i + rw.chunk > rw.rw_sect_max \/ End <= Room + SECTOR_SIZE
  <2>1. ~ (rw.i > rw.rw_sect_max)
    BY <1>5 DEF RdwtTurn
  <2>2. f \in File => rw.i + rw.chunk = rw.rw_sect_max + 1 \/ End <= Room + SECTOR_SIZE
    BY <1>2, <1>4, <2>1 DEF CallFits
  <2>3. QED
    BY <1>5, <2>2
<1>13. QED
  BY <1>4, <1>6, <1>7, <1>8, <1>9, <1>10, <1>11, <1>12 DEF CallFits

LEMMA TurnReadSoFar ==
  ASSUME FdTypes, CallFits, ReadSoFar, RdwtTurn
  PROVE  ReadSoFar'
<1>1. PICK n : n = TurnBytes
  OBVIOUS
<1>2. PICK f : f = InFile
  OBVIOUS
<1>3. PICK p : p = At
  OBVIOUS
<1>4. /\ InCall /\ f \in Extracted /\ p \in Nat /\ n \in Nat
  BY <1>1, <1>2, <1>3, TurnReaches
<1>5. rw'.op = rw.op /\ rw'.from = rw.from /\ InFile' = f
  BY <1>1, <1>2, <1>3, TurnMoves
<1>6. SUFFICES ASSUME rw.op = "READ", NEW k \in 1..Len(buf')
               PROVE  buf'[k] = disk'[Addr(f, rw.from + k - 1)]
  BY <1>5 DEF ReadSoFar
<1>7. /\ disk' = disk /\ buf' \in Seq(Nat) /\ Len(buf') = Len(buf) + n
      /\ \A j \in 1..Len(buf) : buf'[j] = buf[j]
      /\ \A j \in 1..n : buf'[Len(buf) + j] = disk[f * Room + p + j - 1]
  BY <1>1, <1>2, <1>3, <1>6, TurnReads
<1>8. p = rw.from + Len(buf) /\ Len(buf) \in Nat /\ rw.from \in Nat
  BY <1>2, <1>3, <1>4, <1>6, CallTypes DEF CallFits
<1>9. CASE k <= Len(buf)
  <2>1. k \in 1..Len(buf)
    BY <1>4, <1>6, <1>7, <1>8, <1>9
  <2>2. QED
    BY <1>2, <1>4, <1>6, <1>7, <2>1 DEF ReadSoFar
<1>10. CASE k > Len(buf)
  <2>1. PICK j : j = k - Len(buf)
    OBVIOUS
  <2>2. j \in 1..n /\ Len(buf) + j = k
    BY <1>4, <1>6, <1>7, <1>8, <1>10, <2>1
  <2>3. PICK y \in Nat : y = f * Room
    BY <1>4, Addresses
  <2>4. Addr(f, rw.from + k - 1) = y + (rw.from + k - 1)
    BY <1>4, <2>3, Addresses
  <2>5. y + (rw.from + k - 1) = y + p + j - 1
    <3> DEFINE o == rw.from  len == Len(buf)
    <3>1. p = o + len /\ len \in Nat /\ o \in Nat /\ j \in Int /\ len + j = k
      BY <1>4, <1>8, <2>2
    <3> HIDE DEF o, len
    <3>2. y + (o + k - 1) = y + p + j - 1
      BY <2>3, <3>1
    <3>3. QED
      BY <3>2 DEF o
  <2>6. QED
    BY <1>7, <2>2, <2>3, <2>4, <2>5
<1>11. QED
  BY <1>4, <1>6, <1>7, <1>8, <1>9, <1>10

LEMMA TurnSizes ==
  ASSUME FdTypes, CallFits, Behind, Covered, InRoom, RdwtTurn
  PROVE  Behind' /\ Covered' /\ InRoom'
<1>1. PICK n : n = TurnBytes
  OBVIOUS
<1>2. PICK f : f = InFile
  OBVIOUS
<1>3. PICK p : p = At
  OBVIOUS
<1>4. /\ InCall /\ f \in Extracted /\ p \in Nat /\ n \in Nat
  BY <1>1, <1>2, <1>3, TurnReaches
<1>5. /\ UNCHANGED <<i_size, fd_inode, untar, archive>>
      /\ fd_pos' = [fd_pos EXCEPT ![rw.fd] = p + n]
      /\ InCall' /\ InFile' = f /\ At' = p + n /\ rw'.fd = rw.fd
  BY <1>1, <1>2, <1>3, TurnMoves
<1>6. Behind'
  BY <1>4, <1>5 DEF Behind, FdTypes
<1>7. ASSUME NEW g \in File, NEW k \in DOMAIN written'[g], written'[g][k] # Never
      PROVE  k < i_size[g] \/ (g = f /\ k < p + n)
  <2>1. DOMAIN written'[g] = 0..(Room + SECTOR_SIZE - 1) /\ k \in Int
    <3>1. written' \in [File -> [0..(Room + SECTOR_SIZE - 1) -> Nat \cup {Never}]]
      BY TurnTypes DEF FdTypes
    <3>2. QED
      BY <1>7, <3>1, Consts
  <2>2. DOMAIN written[g] = 0..(Room + SECTOR_SIZE - 1)
    BY DEF FdTypes
  <2>3. CASE written[g][k] # Never
    <3>1. k < i_size[g] \/ (g = f /\ k < p)
      BY <1>2, <1>3, <2>1, <2>2, <2>3 DEF Covered
    <3>2. QED
      BY <1>4, <2>1, <3>1
  <2>4. CASE written[g][k] = Never
    <3>1. rw.op # "READ"
      BY <1>1, <1>2, <1>3, <1>7, <2>4, TurnReads
    <3>2. rw.op = "WRITE"
      BY <1>4, <3>1, CallTypes
    <3>3. written' = [written EXCEPT ![f] =
              [j \in DOMAIN @ |-> IF j \in p..(p + n - 1) THEN buf[j - rw.from + 1] ELSE @[j]]]
      BY <1>1, <1>2, <1>3, <3>2, TurnWrites
    <3>4. g = f /\ k \in p..(p + n - 1)
      BY <1>7, <2>1, <2>2, <2>4, <3>3 DEF FdTypes
    <3>5. QED
      BY <1>4, <2>1, <3>4
  <2>5. QED
    BY <2>3, <2>4
<1>8. Covered'
  BY <1>5, <1>7 DEF Covered
<1>9. InRoom'
  BY <1>4, <1>5 DEF InRoom, Overrun
<1>10. QED
  BY <1>6, <1>8, <1>9

LEMMA OnDisk ==
  ASSUME NEW g \in Extracted, NEW k \in Nat, k < Limit(g)
  PROVE  g * Room + k \in Disk
<1>1. PICK y \in Nat : y = g * Room
  BY Addresses
<1>2. PICK z \in Nat : z = Tar * Room
  BY Addresses, Consts
<1>3. Disk = 0..(z + Limit(Tar) - 1)
  BY <1>2, Addresses
<1>4. CASE g = Tar
  BY <1>1, <1>2, <1>3, <1>4, Consts
<1>5. CASE g \in File
  <2>1. y + Room <= z
    BY <1>1, <1>2, <1>5, Addresses, Consts
  <2>2. k < Room
    BY <1>5, Consts
  <2>3. y + k \in 0..(z + Limit(Tar) - 1)
    BY <2>1, <2>2, <1>1, <1>2, Consts
  <2>4. QED
    BY <1>1, <1>3, <2>3
<1>6. QED
  BY <1>4, <1>5, Consts

(* A turn changes the bytes it is for, and only one that goes past its     *)
(* file any others.                                                        *)
LEMMA TurnElsewhere ==
  ASSUME FdTypes, CallFits, RdwtTurn,
         NEW n, n = TurnBytes, NEW f, f = InFile, NEW p, p = At,
         NEW g \in Extracted, NEW k \in Nat, k < Limit(g),
         ~ (rw.op = "WRITE" /\ g = f /\ k \in p..(p + n - 1)),
         disk'[Addr(g, k)] # disk[Addr(g, k)]
  PROVE  /\ f \in File /\ p + n > Room
         /\ Addr(g, k) \in Addr(f, Limit(f))..Addr(f, Limit(f) + SECTOR_SIZE - 1)
<1>1. /\ InCall /\ f \in Extracted /\ p \in Nat /\ n \in Nat
      /\ f \in File => p + n <= Room + SECTOR_SIZE
  BY TurnReaches
<1>2. rw.op # "READ"
  BY TurnReads
<1>3. rw.op = "WRITE"
  BY <1>1, <1>2, CallTypes
<1>4. /\ f \in File
      /\ \A b \in Disk : b \notin (f * Room + p)..(f * Room + p + n - 1) => disk'[b] = disk[b]
  BY <1>3, TurnWrites
<1>5. PICK y \in Nat : y = g * Room
  BY Addresses
<1>6. PICK z \in Nat : z = f * Room
  BY <1>1, Addresses
<1>7. Addr(g, k) = y + k /\ Addr(f, Limit(f)) = z + Room
      /\ Addr(f, Limit(f) + SECTOR_SIZE - 1) = z + (Room + SECTOR_SIZE - 1)
  BY <1>1, <1>4, <1>5, <1>6, Addresses, Consts
<1>8. y + k \in Disk
  BY <1>5, OnDisk
<1>9. y + k \in (z + p)..(z + p + n - 1)
  BY <1>4, <1>5, <1>6, <1>7, <1>8
<1>10. g # f
  BY <1>1, <1>3, <1>5, <1>6, <1>9
<1>11. ~ (g < f)
  <2>1. SUFFICES ASSUME g < f PROVE FALSE
    OBVIOUS
  <2>2. g \in File
    BY <1>4, <2>1, Consts
  <2>3. k < Room
    BY <2>2, Consts
  <2>4. y + Room <= z
    BY <1>1, <1>5, <1>6, <2>1, Addresses
  <2>5. QED
    BY <1>1, <1>5, <1>6, <1>9, <2>3, <2>4, Consts
<1>12. z + Room <= y
  <2>1. f < g
    BY <1>1, <1>10, <1>11, Consts
  <2>2. QED
    BY <1>1, <1>5, <1>6, <2>1, Addresses
<1>13. p + n > Room
  BY <1>1, <1>5, <1>6, <1>9, <1>12, Consts
<1>14. y + k \in (z + Room)..(z + (Room + SECTOR_SIZE - 1))
  BY <1>1, <1>4, <1>5, <1>6, <1>9, <1>12, Consts
<1>15. QED
  BY <1>4, <1>7, <1>13, <1>14

LEMMA TurnKeeps ==
  ASSUME FdTypes, CallFits, WrittenKept, RdwtTurn
  PROVE  WrittenKept'
<1>1. PICK n : n = TurnBytes
  OBVIOUS
<1>2. PICK f : f = InFile
  OBVIOUS
<1>3. PICK p : p = At
  OBVIOUS
<1>4. /\ InCall /\ f \in Extracted /\ p \in Nat /\ n \in Nat /\ rw.fd \in Entry
      /\ rw.op \in {"READ", "WRITE"}
  BY <1>1, <1>2, <1>3, TurnReaches, CallTypes
<1>5. fd_inode' = fd_inode /\ fd_pos' = [fd_pos EXCEPT ![rw.fd] = p + n]
  BY <1>1, <1>2, <1>3, TurnMoves
<1>6. SUFFICES ASSUME NEW g \in File, NEW k \in DOMAIN written'[g],
                      written'[g][k] # Never, k < Limit(g)
               PROVE  disk'[Addr(g, k)] = written'[g][k] \/ Hit(g, k)'
  BY DEF WrittenKept, Limit, Addr, Start
<1>7. /\ DOMAIN written[g] = 0..(Room + SECTOR_SIZE - 1) /\ DOMAIN written'[g] = DOMAIN written[g]
      /\ k \in Nat /\ g \in Extracted
  <2>1. written' \in [File -> [0..(Room + SECTOR_SIZE - 1) -> Nat \cup {Never}]]
    BY TurnTypes DEF FdTypes
  <2>2. DOMAIN written[g] = 0..(Room + SECTOR_SIZE - 1)
    BY DEF FdTypes
  <2>3. QED
    BY <1>6, <2>1, <2>2, Consts
<1>8. CASE rw.op = "WRITE" /\ g = f /\ k \in p..(p + n - 1)
  <2>1. /\ disk'[f * Room + k] = buf[k - rw.from + 1]
        /\ written' = [written EXCEPT ![f] =
              [j \in DOMAIN @ |-> IF j \in p..(p + n - 1) THEN buf[j - rw.from + 1] ELSE @[j]]]
    BY <1>1, <1>2, <1>3, <1>8, TurnWrites
  <2>2. written'[g][k] = buf[k - rw.from + 1]
    BY <1>6, <1>7, <1>8, <2>1 DEF FdTypes
  <2>3. QED
    BY <1>4, <1>8, <2>1, <2>2, Addresses
<1>9. CASE ~ (rw.op = "WRITE" /\ g = f /\ k \in p..(p + n - 1))
  <2>1. written'[g][k] = written[g][k]
    <3>1. CASE rw.op = "READ"
      BY <1>1, <1>2, <1>3, <3>1, TurnReads
    <3>2. CASE rw.op = "WRITE"
      <4>1. written' = [written EXCEPT ![f] =
              [j \in DOMAIN @ |-> IF j \in p..(p + n - 1) THEN buf[j - rw.from + 1] ELSE @[j]]]
        BY <1>1, <1>2, <1>3, <3>2, TurnWrites
      <4>2. QED
        BY <1>7, <1>9, <3>2, <4>1 DEF FdTypes
    <3>3. QED
      BY <1>4, <3>1, <3>2
  <2>2. CASE disk'[Addr(g, k)] # disk[Addr(g, k)]
    <3>1. /\ f \in File /\ p + n > Room
          /\ Addr(g, k) \in Addr(f, Limit(f))..Addr(f, Limit(f) + SECTOR_SIZE - 1)
      BY <1>1, <1>2, <1>3, <1>6, <1>7, <1>9, <2>2, TurnElsewhere
    <3>2. fd_inode'[rw.fd] = f /\ fd_pos'[rw.fd] > Limit(f)
      BY <1>2, <1>4, <1>5, <3>1, Consts DEF FdTypes, InFile
    <3>3. QED
      BY <1>4, <3>1, <3>2 DEF Hit, Limit, Addr, Start
  <2>3. CASE disk'[Addr(g, k)] = disk[Addr(g, k)]
    <3>1. disk[Addr(g, k)] = written[g][k] \/ Hit(g, k)
      BY <1>6, <1>7, <2>1 DEF WrittenKept
    <3>2. Hit(g, k) => Hit(g, k)'
      <4>1. SUFFICES ASSUME NEW h \in File, NEW d \in Entry, fd_inode[d] = h, fd_pos[d] > Limit(h)
                     PROVE  fd_inode'[d] = h /\ fd_pos'[d] > Limit(h)
        BY DEF Hit, Limit, Addr, Start
      <4>2. Limit(h) = Room /\ Room \in Nat
        BY Consts
      <4>3. CASE d = rw.fd
        <5>1. fd_pos'[d] = p + n /\ p = fd_pos[d]
          BY <1>3, <1>4, <1>5, <4>3 DEF At, FdTypes
        <5>2. QED
          BY <1>4, <1>5, <4>1, <4>2, <5>1
      <4>4. CASE d # rw.fd
        BY <1>5, <4>1, <4>4 DEF FdTypes
      <4>5. QED
        BY <4>3, <4>4
    <3>3. QED
      BY <2>1, <2>3, <3>1, <3>2
  <2>4. QED
    BY <2>2, <2>3
<1>10. QED
  BY <1>8, <1>9

-----------------------------------------------------------------------------
(* The call returns; what it has moved past its end becomes the size.      *)
LEMMA ReturnDoes ==
  ASSUME FdTypes, RdwtReturn, NEW f, f = InFile, NEW p, p = At
  PROVE  /\ InCall /\ ~ InCall' /\ rw' = NoCall /\ f \in Extracted /\ p \in Nat
         /\ UNCHANGED <<disk, fd_inode, fd_pos, untar, archive, written>>
         /\ \A g \in Extracted :
              i_size'[g] = IF g = f /\ p > i_size[f] THEN p ELSE i_size[g]
         /\ i_size' \in [Extracted -> Nat]
<1>1. InCall /\ ~ InCall' /\ rw' = NoCall
  BY DEF RdwtReturn, InCall
<1>2. f \in Extracted /\ p \in Nat
  BY <1>1, CallTypes
<1>3. i_size' = [i_size EXCEPT ![f] = IF p > i_size[f] THEN p ELSE i_size[f]]
  BY DEF RdwtReturn, NewSize, InFile, At
<1>4. i_size \in [Extracted -> Nat]
  BY DEF FdTypes
<1>5. \A g \in Extracted : i_size'[g] = IF g = f /\ p > i_size[f] THEN p ELSE i_size[g]
  BY <1>2, <1>3, <1>4
<1>6. i_size' \in [Extracted -> Nat]
  BY <1>2, <1>3, <1>4
<1>7. UNCHANGED <<disk, fd_inode, fd_pos, untar, archive, written>>
  BY DEF RdwtReturn
<1>8. QED
  BY <1>1, <1>2, <1>5, <1>6, <1>7

LEMMA ReturnKeeps ==
  ASSUME FdTypes, CallFits, Behind, Covered, InRoom, WrittenKept, RdwtReturn
  PROVE  FdTypes' /\ CallFits' /\ ReadSoFar' /\ Behind' /\ Covered' /\ InRoom' /\ WrittenKept'
<1>1. PICK f : f = InFile
  OBVIOUS
<1>2. PICK p : p = At
  OBVIOUS
<1>3. /\ InCall /\ ~ InCall' /\ rw' = NoCall /\ f \in Extracted /\ p \in Nat
      /\ UNCHANGED <<disk, fd_inode, fd_pos, untar, archive, written>>
      /\ \A g \in Extracted :
           i_size'[g] = IF g = f /\ p > i_size[f] THEN p ELSE i_size[g]
      /\ i_size' \in [Extracted -> Nat]
  BY <1>1, <1>2, ReturnDoes
<1>4. buf' \in Seq(Nat)
  <2>1. buf' = NoBytes \/ buf' = buf
    BY DEF RdwtReturn
  <2>2. NoBytes \in Seq(Nat)
    BY EmptySeq DEF NoBytes
  <2>3. QED
    BY <2>1, <2>2 DEF FdTypes
<1>5. FdTypes'
  BY <1>3, <1>4 DEF FdTypes
<1>6. CallFits' /\ ReadSoFar'
  BY <1>3 DEF CallFits, ReadSoFar
<1>7. i_size \in [Extracted -> Nat] /\ fd_inode \in [Entry -> Extracted] /\ fd_pos \in [Entry -> Nat]
  BY DEF FdTypes
<1>8. Behind'
  <2>1. SUFFICES ASSUME NEW d \in Entry PROVE fd_pos[d] <= i_size'[fd_inode[d]]
    BY <1>3 DEF Behind
  <2>2. CASE d = rw.fd
    BY <1>1, <1>2, <1>3, <1>7, <2>2 DEF InFile, At
  <2>3. CASE d # rw.fd
    <3>1. fd_pos[d] <= i_size[fd_inode[d]]
      BY <2>3 DEF Behind
    <3>2. QED
      BY <1>3, <1>7, <3>1
  <2>4. QED
    BY <2>2, <2>3
<1>9. Covered'
  <2>1. SUFFICES ASSUME NEW g \in File, NEW k \in DOMAIN written[g], written[g][k] # Never
                 PROVE  k < i_size'[g]
    BY <1>3 DEF Covered
  <2>2. k < i_size[g] \/ (g = f /\ k < p)
    BY <1>1, <1>2, <2>1 DEF Covered
  <2>3. k \in Nat /\ g \in Extracted
    BY <2>1, Consts DEF FdTypes
  <2>4. QED
    BY <1>3, <1>7, <2>2, <2>3
<1>10. InRoom'
  <2>1. f = Tar => p <= i_size[Tar]
    <3>1. SUFFICES ASSUME f = Tar PROVE p <= i_size[Tar]
      OBVIOUS
    <3>2. p + rw.bytes_left <= Limit(Tar) /\ rw.bytes_left \in Nat
      BY <1>1, <1>2, <1>3, <3>1, CallTypes DEF CallFits, End
    <3>3. QED
      BY <1>3, <3>2, Consts DEF InRoom
  <2>2. i_size'[Tar] = Limit(Tar)
    BY <1>3, <1>7, <2>1, Consts DEF InRoom
  <2>3. ASSUME untar.pc # "done", NEW g \in File
        PROVE  i_size'[g] <= Limit(g)
    <3>1. i_size[g] <= Limit(g)
      BY <1>3, <1>7, <2>3, Consts DEF InRoom, Overrun
    <3>2. p <= Limit(f)
      <4>1. p + rw.bytes_left <= Limit(f) /\ rw.bytes_left \in Nat
        BY <1>1, <1>2, <1>3, <2>3, CallTypes DEF CallFits, End
      <4>2. Limit(f) \in Nat
        BY <1>3, Consts
      <4>3. QED
        BY <1>3, <4>1, <4>2
    <3>3. QED
      BY <1>3, <2>3, <3>1, <3>2, Consts
  <2>4. ASSUME untar.pc # "done", NEW g \in File
        PROVE  ~ (i_size'[g] > Limit(g))
    BY <1>3, <2>3, <2>4, Consts
  <2>5. QED
    BY <1>3, <2>2, <2>4 DEF InRoom, Overrun, Limit, Nr_sects
<1>11. WrittenKept'
  BY <1>3 DEF WrittenKept, Hit, Limit, Addr, Start
<1>12. QED
  BY <1>5, <1>6, <1>8, <1>9, <1>10, <1>11

-----------------------------------------------------------------------------
(* A call begins.                                                          *)
LEMMA RoundsDown ==
  ASSUME NEW x \in Nat, NEW y \in Nat, x <= y
  PROVE  x \div SECTOR_SIZE <= y \div SECTOR_SIZE
<1>1. PICK q \in Nat : q = x \div SECTOR_SIZE
  BY Division
<1>2. PICK r \in Nat : r = y \div SECTOR_SIZE
  BY Division
<1>3. PICK a \in 0..(SECTOR_SIZE - 1) : x = q * SECTOR_SIZE + a
  BY <1>1, Division
<1>4. PICK b \in 0..(SECTOR_SIZE - 1) : y = r * SECTOR_SIZE + b
  BY <1>2, Division
<1>5. CASE r < q
  <2>1. r * SECTOR_SIZE + SECTOR_SIZE <= q * SECTOR_SIZE
    BY <1>5, Multiples
  <2>2. q * SECTOR_SIZE \in Int /\ r * SECTOR_SIZE \in Int
    BY Consts
  <2>3. QED
    BY <1>3, <1>4, <2>1, <2>2, Consts
<1>6. QED
  BY <1>1, <1>2, <1>5

(* What the callers of do_rdwt ask for.                                    *)
Asks(op, d, len, bytes) ==
  /\ op \in {"READ", "WRITE"} /\ d \in Entry /\ len \in Nat /\ bytes \in Seq(Nat)
  /\ op = "READ" => bytes = NoBytes
  /\ op = "WRITE" => Len(bytes) >= len /\ fd_inode[d] \in File
  /\ \A f \in File : ~ Overrun(f)
  /\ fd_inode[d] = Tar => d = "fd" /\ fd_pos[d] + len <= Limit(Tar)
  /\ fd_inode[d] \in File => len <= Room
  /\ untar'.pc # "done" => /\ d \in {"fd", "fdout"} /\ fd_pos[d] + len <= Limit(fd_inode[d])
                           /\ op = "READ" => d = "fd"

LEMMA CallBegins ==
  ASSUME FdTypes, Behind, InRoom, NEW op, NEW d, NEW len, NEW bytes,
         Asks(op, d, len, bytes), do_rdwt(op, d, len, bytes),
         NEW f, f = fd_inode[d], NEW p, p = fd_pos[d]
  PROVE  /\ ~ InCall /\ InCall' /\ f \in Extracted /\ p \in Nat /\ p <= Limit(f)
         /\ UNCHANGED <<disk, i_size, fd_inode, fd_pos, archive, written>>
         /\ rw' \in Calls /\ buf' = bytes
         /\ rw'.op = op /\ rw'.fd = d /\ rw'.from = p /\ rw'.bytes_rw = 0 /\ rw'.bytes_left = len
         /\ rw'.i = Start(f) + p \div SECTOR_SIZE /\ rw'.off = p % SECTOR_SIZE
         /\ rw'.rw_sect_max = Start(f) + pos_end(op, f, p, len) \div SECTOR_SIZE
         /\ rw'.chunk = Least(rw'.rw_sect_max - rw'.i + 1, FSBUF_SECTS)
         /\ pos_end(op, f, p, len) \in Nat /\ p <= pos_end(op, f, p, len)
         /\ pos_end(op, f, p, len) <= Limit(f) /\ pos_end(op, f, p, len) <= p + len
<1>1. ~ InCall /\ d \in Entry /\ f \in Extracted /\ p \in Nat /\ len \in Nat
  BY DEF do_rdwt, InCall, Asks, FdTypes
<1>2. p <= i_size[f] /\ i_size[f] \in Nat
  BY <1>1 DEF Behind, FdTypes
<1>3. Limit(f) \in Nat /\ i_size[f] <= Limit(f)
  <2>1. CASE f = Tar
    BY <1>2, <2>1, Consts DEF InRoom
  <2>2. CASE f \in File
    BY <1>2, <2>2, Consts DEF Asks, Overrun
  <2>3. QED
    BY <1>1, <2>1, <2>2, Consts
<1>4. PICK e : e = pos_end(op, f, p, len)
  OBVIOUS
<1>5. e \in Nat /\ p <= e /\ e <= Limit(f) /\ e <= p + len
  BY <1>1, <1>2, <1>3, <1>4 DEF pos_end, Least
<1>6. p \div SECTOR_SIZE \in Nat /\ e \div SECTOR_SIZE \in Nat
      /\ p \div SECTOR_SIZE <= e \div SECTOR_SIZE /\ p % SECTOR_SIZE \in 0..(SECTOR_SIZE - 1)
  BY <1>1, <1>5, RoundsDown, Division
<1> DEFINE min == Start(f) + p \div SECTOR_SIZE
           max == Start(f) + e \div SECTOR_SIZE
           chunk == Least(max - min + 1, FSBUF_SECTS)
<1>7. min \in Nat /\ max \in Nat /\ chunk \in Nat \ {0}
  <2>1. Start(f) \in Nat
    BY <1>1, Addresses
  <2>2. min \in Nat /\ max \in Nat /\ max - min + 1 \in Nat \ {0}
    BY <1>6, <2>1
  <2>3. QED
    BY <2>2, Consts DEF Least
<1>8. /\ UNCHANGED <<disk, i_size, fd_inode, fd_pos, archive, written>>
      /\ rw' = [op |-> op, fd |-> d, from |-> p, i |-> min,
                rw_sect_max |-> max, off |-> p % SECTOR_SIZE,
                chunk |-> chunk, bytes_rw |-> 0, bytes_left |-> len]
      /\ buf' = bytes
  BY <1>4 DEF do_rdwt
<1>9. rw' \in Calls
  BY <1>1, <1>6, <1>7, <1>8 DEF Calls, Asks
<1>10. InCall'
  BY <1>8 DEF InCall, NoCall, Asks
<1>11. p <= Limit(f)
  BY <1>1, <1>2, <1>3
<1>12. QED
  BY <1>1, <1>4, <1>5, <1>8, <1>9, <1>10, <1>11

LEMMA BeginFits ==
  ASSUME FdTypes, Behind, InRoom, NEW op, NEW d, NEW len, NEW bytes,
         Asks(op, d, len, bytes), do_rdwt(op, d, len, bytes)
  PROVE  CallFits'
<1>1. PICK f : f = fd_inode[d]
  OBVIOUS
<1>2. PICK p : p = fd_pos[d]
  OBVIOUS
<1>3. PICK e : e = pos_end(op, f, p, len)
  OBVIOUS
<1>4. /\ f \in Extracted /\ p \in Nat /\ p <= Limit(f)
      /\ UNCHANGED <<fd_inode, fd_pos>> /\ buf' = bytes
      /\ rw'.op = op /\ rw'.fd = d /\ rw'.from = p /\ rw'.bytes_rw = 0 /\ rw'.bytes_left = len
      /\ rw'.i = Start(f) + p \div SECTOR_SIZE /\ rw'.off = p % SECTOR_SIZE
      /\ rw'.rw_sect_max = Start(f) + e \div SECTOR_SIZE
      /\ rw'.chunk = Least(rw'.rw_sect_max - rw'.i + 1, FSBUF_SECTS)
      /\ e \in Nat /\ p <= e /\ e <= Limit(f) /\ e <= p + len
  BY <1>1, <1>2, <1>3, CallBegins
<1>5. len \in Nat /\ InFile' = f /\ At' = p /\ End' = p + len
  BY <1>1, <1>2, <1>4 DEF Asks, InFile, At, End
<1>6. PICK y \in Nat : y = f * Room
  BY <1>4, Addresses
<1>7. PICK s \in Nat : s = Start(f) /\ s * SECTOR_SIZE = y
  BY <1>4, <1>6, Addresses
<1>8. PICK a \in Nat, r \in 0..(SECTOR_SIZE - 1) :
        a = p \div SECTOR_SIZE /\ r = p % SECTOR_SIZE /\ p = a * SECTOR_SIZE + r
  BY <1>4, Division
<1>9. PICK b \in Nat, t \in 0..(SECTOR_SIZE - 1) :
        b = e \div SECTOR_SIZE /\ t = e % SECTOR_SIZE /\ e = b * SECTOR_SIZE + t
  BY <1>4, Division
<1>10. /\ (s + a) * SECTOR_SIZE = y + a * SECTOR_SIZE
       /\ (s + b + 1) * SECTOR_SIZE = y + b * SECTOR_SIZE + SECTOR_SIZE
       /\ a * SECTOR_SIZE \in Nat /\ b * SECTOR_SIZE \in Nat
  BY <1>7, <1>8, <1>9, Consts
<1>11. \A q : Addr(f, q) = y + q
  BY <1>4, <1>6, Addresses
<1>12. rw'.i = s + a /\ rw'.off = r /\ rw'.rw_sect_max = s + b
  BY <1>4, <1>7, <1>8, <1>9
<1>13. rw'.i * SECTOR_SIZE + rw'.off = Addr(f, p)
  <2>1. (s + a) * SECTOR_SIZE + r = y + p
    BY <1>8, <1>10, Consts
  <2>2. QED
    BY <1>11, <1>12, <2>1
<1>14. op = "READ" => Len(buf') = 0
  BY <1>4, EmptySeq DEF Asks, NoBytes
<1>15. op = "WRITE" => Len(buf') >= 0 + len /\ f \in File
  BY <1>1, <1>4, <1>5 DEF Asks
<1>16. f = Tar => d = "fd" /\ p + len <= Limit(Tar)
  BY <1>1, <1>2 DEF Asks
<1>17. ASSUME untar'.pc # "done"
       PROVE  /\ d \in {"fd", "fdout"} /\ p + len <= Limit(f)
              /\ Addr(f, p + len) < (rw'.rw_sect_max + 1) * SECTOR_SIZE
  <2>1. d \in {"fd", "fdout"} /\ p + len <= Limit(f) /\ op \in {"READ", "WRITE"}
        /\ (op = "READ" => d = "fd")
    BY <1>1, <1>2, <1>17 DEF Asks
  <2>2. op = "READ" => i_size[f] = Limit(f)
    BY <1>1, <2>1 DEF FdTypes, InRoom
  <2>3. e = p + len
    BY <1>3, <1>4, <1>5, <2>1, <2>2, Consts DEF pos_end, Least
  <2>4. (rw'.rw_sect_max + 1) * SECTOR_SIZE = y + b * SECTOR_SIZE + SECTOR_SIZE
    BY <1>10, <1>12
  <2>5. y + e < y + b * SECTOR_SIZE + SECTOR_SIZE
    BY <1>9, <1>10, Consts
  <2>6. QED
    BY <1>11, <2>1, <2>3, <2>4, <2>5
<1>18. ASSUME f \in File
       PROVE  /\ p <= Room + SECTOR_SIZE
              /\ \/ /\ rw'.i + rw'.chunk = rw'.rw_sect_max + 1
                    /\ (rw'.i + rw'.chunk) * SECTOR_SIZE <= Addr(f, Room + SECTOR_SIZE)
                 \/ p + len <= Room + SECTOR_SIZE
  <2>1. Limit(f) = Room /\ len <= Room
    BY <1>1, <1>18, Consts DEF Asks
  <2>2. p <= Room + SECTOR_SIZE /\ b * SECTOR_SIZE <= Room
    BY <1>4, <1>9, <1>10, <2>1, Consts
  <2>3. rw'.chunk = Least(b - a + 1, FSBUF_SECTS)
    <3>1. (s + b) - (s + a) + 1 = b - a + 1
      BY <1>7, <1>8, <1>9
    <3>2. QED
      BY <1>4, <1>12, <3>1
  <2>4. CASE b - a + 1 < FSBUF_SECTS
    <3>1. rw'.chunk = b - a + 1
      BY <2>3, <2>4 DEF Least
    <3>2. rw'.i + rw'.chunk = s + b + 1 /\ rw'.rw_sect_max + 1 = s + b + 1
      <4>1. (s + a) + (b - a + 1) = s + b + 1 /\ (s + b) + 1 = s + b + 1
        BY <1>7, <1>8, <1>9
      <4>2. QED
        BY <1>12, <3>1, <4>1
    <3>3. (s + b + 1) * SECTOR_SIZE <= y + (Room + SECTOR_SIZE)
      BY <1>10, <2>2, Consts
    <3>4. QED
      BY <1>11, <2>2, <3>2, <3>3
  <2>5. CASE ~ (b - a + 1 < FSBUF_SECTS)
    <3>1. b <= NR_DEFAULT_FILE_SECTS
      <4>1. SUFFICES ASSUME NR_DEFAULT_FILE_SECTS < b PROVE FALSE
        BY Consts
      <4>2. NR_DEFAULT_FILE_SECTS * SECTOR_SIZE + SECTOR_SIZE <= b * SECTOR_SIZE
        BY <4>1, Multiples, Consts
      <4>3. QED
        BY <1>10, <2>2, <4>2, Consts DEF Room
    <3>2. NR_DEFAULT_FILE_SECTS <= FSBUF_SECTS
      BY FileDataSizes
    <3>3. a <= 1
      BY <2>5, <3>1, <3>2, Consts
    <3>4. CASE a = 0
      <4>1. p < SECTOR_SIZE
        BY <1>8, <3>4, Consts
      <4>2. QED
        BY <1>4, <1>5, <2>1, <2>2, <4>1, Consts
    <3>5. CASE a = 1
      <4>1. b - a + 1 = FSBUF_SECTS
        BY <2>5, <3>1, <3>2, <3>5, Consts
      <4>2. rw'.chunk = b - a + 1
        BY <2>3, <4>1, Consts DEF Least
      <4>3. rw'.i + rw'.chunk = s + b + 1 /\ rw'.rw_sect_max + 1 = s + b + 1
        <5>1. (s + a) + (b - a + 1) = s + b + 1 /\ (s + b) + 1 = s + b + 1
          BY <1>7, <1>8, <1>9
        <5>2. QED
          BY <1>12, <4>2, <5>1
      <4>4. (s + b + 1) * SECTOR_SIZE <= y + (Room + SECTOR_SIZE)
        BY <1>10, <2>2, Consts
      <4>5. QED
        BY <1>11, <2>2, <4>3, <4>4
    <3>6. QED
      BY <3>3, <3>4, <3>5
  <2>6. QED
    BY <2>4, <2>5
<1>19. p = p + 0 /\ p + len = p + 0 + len
  BY <1>4, <1>5
<1>20. rw'.op \in {"READ", "WRITE"}
  BY <1>4 DEF Asks
<1>21. QED
  BY <1>4, <1>5, <1>13, <1>14, <1>15, <1>16, <1>17, <1>18, <1>19, <1>20 DEF CallFits, Limit, Nr_sects, Addr, Start

LEMMA BeginKeeps ==
  ASSUME FdTypes, Behind, InRoom, Covered, WrittenKept,
         NEW op, NEW d, NEW len, NEW bytes,
         Asks(op, d, len, bytes), do_rdwt(op, d, len, bytes),
         untar' \in [pc : UntarPcs, bytes_left : Nat]
  PROVE  FdTypes' /\ CallFits' /\ ReadSoFar' /\ Behind' /\ Covered' /\ InRoom' /\ WrittenKept'
<1>1. /\ ~ InCall /\ InCall' /\ rw' \in Calls /\ buf' = bytes /\ rw'.op = op
      /\ UNCHANGED <<disk, i_size, fd_inode, fd_pos, archive, written>>
  <2>1. PICK f : f = fd_inode[d]
    OBVIOUS
  <2>2. PICK p : p = fd_pos[d]
    OBVIOUS
  <2>3. QED
    BY <2>1, <2>2, CallBegins
<1>2. FdTypes'
  BY <1>1 DEF FdTypes, Asks
<1>3. CallFits'
  BY BeginFits
<1>4. ReadSoFar'
  <2>1. op = "READ" => Len(buf') = 0
    BY <1>1, EmptySeq DEF Asks, NoBytes
  <2>2. QED
    BY <1>1, <2>1 DEF ReadSoFar
<1>5. Behind' /\ Covered'
  BY <1>1 DEF Behind, Covered
<1>6. InRoom'
  BY <1>1 DEF InRoom, Asks, Overrun, Limit, Nr_sects
<1>7. WrittenKept'
  BY <1>1 DEF WrittenKept, Hit, Limit, Addr, Start
<1>8. QED
  BY <1>2, <1>3, <1>4, <1>5, <1>6, <1>7

-----------------------------------------------------------------------------
(* Whole sectors.                                                          *)
LEMMA Pads ==
  ASSUME NEW x \in Nat
  PROVE  /\ (0 - x) % SECTOR_SIZE \in 0..(SECTOR_SIZE - 1)
         /\ \E t \in Nat : x + ((0 - x) % SECTOR_SIZE) = t * SECTOR_SIZE
<1>1. SECTOR_SIZE \in Nat /\ SECTOR_SIZE > 0
  BY Consts
<1>2. PICK y \in Int : y = 0 - x
  OBVIOUS
<1>3. PICK r \in 0..(SECTOR_SIZE - 1) : r = y % SECTOR_SIZE
  BY <1>1
<1>4. PICK q \in Int : q = y \div SECTOR_SIZE
  BY <1>1
<1>5. r = y - SECTOR_SIZE * q
  <2>1. y % SECTOR_SIZE = y - SECTOR_SIZE * (y \div SECTOR_SIZE)
    BY <1>1
  <2>2. QED
    BY <1>3, <1>4, <2>1, Zenon
<1>6. x + r = (0 - q) * SECTOR_SIZE
  BY <1>1, <1>2, <1>3, <1>5
<1>7. 0 - q \in Nat
  <2>1. SUFFICES ASSUME q > 0 PROVE FALSE
    OBVIOUS
  <2>2. SECTOR_SIZE * q >= SECTOR_SIZE
    BY <1>1, <2>1
  <2>3. QED
    BY <1>1, <1>2, <1>3, <1>5, <2>2
<1>8. QED
  BY <1>2, <1>3, <1>6, <1>7

LEMMA PaddedIs ==
  ASSUME NEW s \in Seq(Nat)
  PROVE  /\ Padded(s) \in Seq(Nat) /\ Len(Padded(s)) \in Nat
         /\ Len(s) <= Len(Padded(s)) /\ Len(Padded(s)) < Len(s) + SECTOR_SIZE
         /\ \E t \in Nat : Len(Padded(s)) = t * SECTOR_SIZE
         /\ \A k \in 1..Len(s) : Padded(s)[k] = s[k]
<1>1. PICK x \in Nat : x = Len(s)
  OBVIOUS
<1>2. PICK r \in 0..(SECTOR_SIZE - 1) : r = (0 - x) % SECTOR_SIZE
  BY Pads
<1>3. PICK t \in Nat : x + r = t * SECTOR_SIZE
  BY <1>2, Pads
<1>4. PICK z \in Seq(Nat) : z = [n \in 1..r |-> 0] /\ Len(z) = r
  <2>1. r \in Nat
    BY <1>2, Consts
  <2>2. [n \in 1..r |-> 0] \in Seq(Nat) /\ Len([n \in 1..r |-> 0]) = r
    BY <2>1
  <2>3. QED
    BY <2>2
<1>5. Padded(s) = s \o z
  BY <1>1, <1>2, <1>4 DEF Padded
<1>6. /\ s \o z \in Seq(Nat) /\ Len(s \o z) = Len(s) + Len(z)
      /\ \A i \in 1..(Len(s) + Len(z)) : (s \o z)[i] = IF i <= Len(s) THEN s[i] ELSE z[i - Len(s)]
  BY ConcatProperties
<1>7. Len(Padded(s)) = x + r
  BY <1>1, <1>4, <1>5, <1>6
<1>8. \A k \in 1..Len(s) : Padded(s)[k] = s[k]
  BY <1>1, <1>2, <1>4, <1>5, <1>6, Consts
<1>9. \E u \in Nat : Len(Padded(s)) = u * SECTOR_SIZE
  BY <1>3, <1>7
<1>10. Padded(s) \in Seq(Nat) /\ Len(s) <= x + r /\ x + r < Len(s) + SECTOR_SIZE /\ x + r \in Nat
  BY <1>1, <1>2, <1>5, <1>6, Consts
<1>11. QED
  BY <1>7, <1>8, <1>9, <1>10

LEMMA SameMultiple ==
  ASSUME NEW s \in Int, NEW t \in Int, NEW x \in Int,
         x <= s * SECTOR_SIZE, s * SECTOR_SIZE < x + SECTOR_SIZE,
         x <= t * SECTOR_SIZE, t * SECTOR_SIZE < x + SECTOR_SIZE
  PROVE  s = t
<1>1. ASSUME NEW a \in Int, NEW b \in Int, a < b, x <= a * SECTOR_SIZE,
             b * SECTOR_SIZE < x + SECTOR_SIZE
      PROVE  FALSE
  <2>1. a * SECTOR_SIZE + SECTOR_SIZE <= b * SECTOR_SIZE
    BY <1>1, Multiples
  <2>2. a * SECTOR_SIZE \in Int /\ b * SECTOR_SIZE \in Int
    BY Consts
  <2>3. QED
    BY <1>1, <2>1, <2>2, Consts
<1>2. QED
  BY <1>1

LEMMA WholeSectorsIs ==
  ASSUME FdTypes, iobytes > 0
  PROVE  /\ iobytes \in Nat /\ iobytes <= untar.bytes_left
         /\ WholeSectors \in Nat /\ iobytes <= WholeSectors
         /\ WholeSectors < iobytes + SECTOR_SIZE
         /\ \E t \in Nat : WholeSectors = t * SECTOR_SIZE
<1>1. UntarSects * SECTOR_SIZE \in Nat /\ untar.bytes_left \in Nat
  BY Consts DEF FdTypes
<1>2. PICK x \in Nat : x = iobytes /\ x <= untar.bytes_left
  BY <1>1 DEF iobytes, Least
<1>3. x - 1 \in Nat
  BY <1>2
<1>4. PICK q \in Nat, r \in 0..(SECTOR_SIZE - 1) :
        q = (x - 1) \div SECTOR_SIZE /\ x - 1 = q * SECTOR_SIZE + r
  BY <1>3, Division
<1>5. WholeSectors = (q + 1) * SECTOR_SIZE
  BY <1>2, <1>4 DEF WholeSectors
<1>6. (q + 1) * SECTOR_SIZE = q * SECTOR_SIZE + SECTOR_SIZE /\ q * SECTOR_SIZE \in Nat
  BY Consts
<1>7. q + 1 \in Nat
  OBVIOUS
<1>8. x <= (q + 1) * SECTOR_SIZE /\ (q + 1) * SECTOR_SIZE < x + SECTOR_SIZE
      /\ (q + 1) * SECTOR_SIZE \in Nat
  BY <1>4, <1>6, Consts
<1>9. QED
  BY <1>2, <1>5, <1>7, <1>8

-----------------------------------------------------------------------------
(* The archive.  An entry of cmd.tar is a sector for its header and those  *)
(* of its file.                                                            *)
LEMMA LeastOf ==
  ASSUME NEW S \in SUBSET Nat, S # {}
  PROVE  \E m \in S : \A o \in S : m <= o
<1> DEFINE Less == {xy \in Nat \X Nat : xy[1] < xy[2]}
<1>1. IsWellFoundedOn(OpToRel(<, Nat), Nat)
  BY NatLessThanWellFounded, Zenon
<1>2. OpToRel(<, Nat) = Less
  BY Zenon DEF OpToRel
<1>3. IsWellFoundedOn(Less, Nat)
  BY <1>1, <1>2, Zenon
<1>4. \A x, y \in Nat : ~ (<<x, y>> \in Less) => y <= x
  OBVIOUS
<1> HIDE DEF Less
<1>5. PICK m \in S : \A o \in S : ~ (<<o, m>> \in Less)
  BY <1>3, WFMin
<1>6. QED
  BY <1>4, <1>5

Bytes(a, n) == [k \in 1..a[n].size |-> Data(a[n].file, k - 1)]
Block(a, n) == Padded(<<n>>) \o Padded(Bytes(a, n))
Rest(a, image, n) == IF n > Len(a) THEN NoBytes ELSE Block(a, n) \o image[n + 1]

LEMMA EntryIs ==
  ASSUME NEW a \in Archives, NEW n \in 1..Len(a)
  PROVE  /\ Len(a) \in Nat /\ a[n].file \in File /\ a[n].size \in Nat
         /\ Bytes(a, n) \in Seq(Nat) /\ Len(Bytes(a, n)) = a[n].size
         /\ \A k \in 1..a[n].size : Bytes(a, n)[k] = Data(a[n].file, k - 1)
         /\ <<n>> \in Seq(Nat) /\ Len(<<n>>) = 1 /\ <<n>>[1] = n
<1> DEFINE R == [file : File, size : Nat]
<1>1. a \in Seq(R)
  BY FileDataAssumption
<1>2. a[n] \in R /\ Len(a) \in Nat
  <2> HIDE DEF R
  <2>1. QED
    BY <1>1
<1>3. a[n].file \in File /\ a[n].size \in Nat
  BY <1>2
<1>4. \A k \in 1..a[n].size : Data(a[n].file, k - 1) \in Nat
  BY <1>3, Consts, SMTT(30) DEF Data
<1>5. Bytes(a, n) \in [1..a[n].size -> Nat]
  BY <1>4 DEF Bytes
<1>6. Bytes(a, n) \in Seq(Nat) /\ Len(Bytes(a, n)) = a[n].size
  BY <1>3, <1>5
<1>7. \A k \in 1..a[n].size : Bytes(a, n)[k] = Data(a[n].file, k - 1)
  BY DEF Bytes
<1>8. n \in Nat
  BY <1>2
<1>9. <<n>> \in Seq(Nat) /\ Len(<<n>>) = 1 /\ <<n>>[1] = n
  BY <1>8
<1>10. QED
  BY <1>2, <1>3, <1>6, <1>7, <1>9

(* A block has its number first and the bytes of its file from the second  *)
(* sector on.                                                              *)
LEMMA BlockIs ==
  ASSUME NEW a \in Archives, NEW n \in 1..Len(a)
  PROVE  \E len \in Nat :
           /\ Block(a, n) \in Seq(Nat) /\ Len(Block(a, n)) = SECTOR_SIZE + len
           /\ Block(a, n)[1] = n
           /\ \A k \in 1..a[n].size : Block(a, n)[SECTOR_SIZE + k] = Data(a[n].file, k - 1)
           /\ a[n].size <= len /\ len < a[n].size + SECTOR_SIZE
           /\ \E t \in Nat : len = t * SECTOR_SIZE
<1>1. PICK h \in Seq(Nat) : h = Padded(<<n>>)
  BY EntryIs, PaddedIs
<1>2. PICK b \in Seq(Nat) : b = Padded(Bytes(a, n))
  BY EntryIs, PaddedIs
<1>3. Len(h) = SECTOR_SIZE /\ h[1] = n
  <2>1. PICK s \in Seq(Nat) : s = <<n>> /\ Len(s) = 1 /\ s[1] = n
    BY EntryIs
  <2>2. /\ Len(Padded(s)) \in Nat
        /\ Len(s) <= Len(Padded(s)) /\ Len(Padded(s)) < Len(s) + SECTOR_SIZE
        /\ \E t \in Nat : Len(Padded(s)) = t * SECTOR_SIZE
        /\ \A k \in 1..Len(s) : Padded(s)[k] = s[k]
    BY PaddedIs
  <2>3. h = Padded(s)
    BY <1>1, <2>1
  <2>4. PICK t \in Nat : Len(h) = t * SECTOR_SIZE
    BY <2>2, <2>3
  <2>5. 1 * SECTOR_SIZE = SECTOR_SIZE /\ SECTOR_SIZE \in Nat /\ SECTOR_SIZE > 0
    BY Consts
  <2>6. /\ 1 <= t * SECTOR_SIZE /\ t * SECTOR_SIZE < 1 + SECTOR_SIZE
        /\ 1 <= 1 * SECTOR_SIZE /\ 1 * SECTOR_SIZE < 1 + SECTOR_SIZE
    <3>1. Len(h) \in Nat /\ 1 <= Len(h) /\ Len(h) < 1 + SECTOR_SIZE
      BY <2>1, <2>2, <2>3
    <3>2. QED
      BY <2>4, <2>5, <3>1
  <2>7. t = 1
    BY <2>6, SameMultiple
  <2>8. h[1] = n
    BY <2>1, <2>2, <2>3, SMTT(30)
  <2>9. QED
    BY <2>4, <2>5, <2>7, <2>8
<1>4. /\ Len(b) \in Nat /\ a[n].size <= Len(b) /\ Len(b) < a[n].size + SECTOR_SIZE
      /\ \E t \in Nat : Len(b) = t * SECTOR_SIZE
      /\ \A k \in 1..a[n].size : b[k] = Data(a[n].file, k - 1)
  <2>1. PICK s \in Seq(Nat) : s = Bytes(a, n)
    BY EntryIs
  <2>2. Len(s) = a[n].size /\ \A k \in 1..a[n].size : s[k] = Data(a[n].file, k - 1)
    BY <2>1, EntryIs
  <2>3. /\ Len(Padded(s)) \in Nat
        /\ Len(s) <= Len(Padded(s)) /\ Len(Padded(s)) < Len(s) + SECTOR_SIZE
        /\ \E t \in Nat : Len(Padded(s)) = t * SECTOR_SIZE
        /\ \A k \in 1..Len(s) : Padded(s)[k] = s[k]
    BY PaddedIs
  <2>4. b = Padded(s)
    BY <1>2, <2>1
  <2>5. QED
    BY <2>2, <2>3, <2>4
<1>5. /\ h \o b \in Seq(Nat) /\ Len(h \o b) = Len(h) + Len(b)
      /\ \A i \in 1..(Len(h) + Len(b)) : (h \o b)[i] = IF i <= Len(h) THEN h[i] ELSE b[i - Len(h)]
  BY ConcatProperties
<1>6. Block(a, n) = h \o b
  BY <1>1, <1>2 DEF Block
<1>7. (h \o b)[1] = n
  BY <1>3, <1>4, <1>5, Consts, SMTT(30)
<1>8. ASSUME NEW k \in 1..a[n].size
      PROVE  (h \o b)[SECTOR_SIZE + k] = Data(a[n].file, k - 1)
  <2>1. /\ a[n].size \in Nat /\ SECTOR_SIZE + k \in 1..(Len(h) + Len(b))
        /\ ~ (SECTOR_SIZE + k <= Len(h)) /\ (SECTOR_SIZE + k) - Len(h) = k
    BY <1>3, <1>4, EntryIs, Consts, SMTT(30)
  <2>2. QED
    BY <1>4, <1>5, <2>1
<1>9. QED
  BY <1>3, <1>4, <1>5, <1>6, <1>7, <1>8

LEMMA SuffixIs ==
  ASSUME NEW a \in Archives
  PROVE  \A n \in 1..(Len(a) + 1) : Suffix(a)[n] = Rest(a, Suffix(a), n)
<1> DEFINE D == 1..(Len(a) + 1)
           Fits(m) == \E g \in [D -> Seq(Nat)] : \A n \in m..(Len(a) + 1) : g[n] = Rest(a, g, n)
           M == {m \in D : Fits(m)}
<1>1. Len(a) \in Nat
  BY FileDataAssumption
<1>2. Len(a) + 1 \in D /\ Fits(Len(a) + 1)
  <2>1. [n \in D |-> NoBytes] \in [D -> Seq(Nat)]
    BY EmptySeq DEF NoBytes
  <2>2. \A n \in (Len(a) + 1)..(Len(a) + 1) :
           [k \in D |-> NoBytes][n] = Rest(a, [k \in D |-> NoBytes], n)
    BY <1>1 DEF Rest
  <2>3. QED
    BY <1>1, <2>1, <2>2
<1>3. ASSUME NEW m \in 2..(Len(a) + 1), Fits(m)
      PROVE  Fits(m - 1)
  <2>1. m - 1 \in 1..Len(a) /\ m - 1 \in D /\ m \in D /\ m \in Nat
    BY <1>1
  <2>2. PICK g \in [D -> Seq(Nat)] : \A n \in m..(Len(a) + 1) : g[n] = Rest(a, g, n)
    BY <1>3
  <2> DEFINE h == [g EXCEPT ![m - 1] = Block(a, m - 1) \o g[m]]
  <2>3. Block(a, m - 1) \o g[m] \in Seq(Nat)
    BY <2>1, <2>2, BlockIs, ConcatProperties
  <2>4. h \in [D -> Seq(Nat)]
    BY <2>3
  <2>5. ASSUME NEW n \in (m - 1)..(Len(a) + 1)
        PROVE  h[n] = Rest(a, h, n)
    <3>1. CASE n = m - 1
      <4>1. h[n] = Block(a, n) \o g[m]
        BY <1>1, <2>1, <2>2, <3>1
      <4>2. n + 1 = m /\ ~ (n > Len(a)) /\ h[m] = g[m]
        BY <1>1, <2>1, <2>2, <3>1
      <4> HIDE DEF h
      <4>3. QED
        BY <4>1, <4>2 DEF Rest
    <3>2. CASE n # m - 1
      <4>1. n \in m..(Len(a) + 1) /\ n \in D
        BY <1>1, <2>1, <2>5, <3>2
      <4>2. h[n] = g[n] /\ g[n] = Rest(a, g, n)
        BY <2>2, <2>1, <3>2, <4>1
      <4>3. n <= Len(a) => h[n + 1] = g[n + 1]
        BY <1>1, <2>1, <2>2, <4>1
      <4> HIDE DEF h
      <4>4. QED
        BY <1>1, <4>1, <4>2, <4>3 DEF Rest
    <3>3. QED
      BY <3>1, <3>2
  <2> HIDE DEF h
  <2>6. QED
    BY <2>4, <2>5
<1>4. Fits(1)
  <2> HIDE DEF Fits
  <2>1. M \in SUBSET Nat /\ M # {}
    BY <1>1, <1>2
  <2>2. PICK m \in M : \A o \in M : m <= o
    BY <2>1, LeastOf
  <2>3. CASE m = 1
    BY <2>2, <2>3
  <2>4. CASE m # 1
    <3>1. m \in 2..(Len(a) + 1) /\ Fits(m) /\ m - 1 \in D /\ m \in Nat
      BY <1>1, <2>2, <2>4
    <3>2. m - 1 \in M
      BY <1>3, <3>1
    <3>3. QED
      BY <2>2, <3>1, <3>2
  <2>5. QED
    BY <2>3, <2>4
<1>5. PICK g \in [D -> Seq(Nat)] : \A n \in 1..(Len(a) + 1) : g[n] = Rest(a, g, n)
  BY <1>4
<1>6. g = [n \in D |-> Rest(a, g, n)]
  BY <1>5
<1>7. Suffix(a) = CHOOSE image : image = [n \in D |-> Rest(a, image, n)]
  BY DEF Suffix, Rest, Block, Bytes
<1>8. Suffix(a) = [n \in D |-> Rest(a, Suffix(a), n)]
  BY <1>6, <1>7
<1> HIDE DEF D
<1>9. \A n \in D : Suffix(a)[n] = Rest(a, Suffix(a), n)
  BY <1>8
<1>10. QED
  BY <1>9 DEF D

LEMMA SuffixTypes ==
  ASSUME NEW a \in Archives
  PROVE  /\ Suffix(a)[Len(a) + 1] = NoBytes
         /\ \A n \in 1..Len(a) : Suffix(a)[n] = Block(a, n) \o Suffix(a)[n + 1]
         /\ \A n \in 1..(Len(a) + 1) : Suffix(a)[n] \in Seq(Nat)
<1>1. Len(a) \in Nat
  BY FileDataAssumption
<1>2. Suffix(a)[Len(a) + 1] = NoBytes
  <2>1. Len(a) + 1 \in 1..(Len(a) + 1) /\ Len(a) + 1 > Len(a)
    BY <1>1
  <2>2. QED
    BY <2>1, SuffixIs DEF Rest
<1>3. ASSUME NEW n \in 1..Len(a)
      PROVE  Suffix(a)[n] = Block(a, n) \o Suffix(a)[n + 1]
  <2>1. n \in 1..(Len(a) + 1) /\ ~ (n > Len(a))
    BY <1>1
  <2>2. QED
    BY <2>1, SuffixIs DEF Rest
<1>4. \A n \in 1..(Len(a) + 1) : Suffix(a)[n] \in Seq(Nat)
  <2> DEFINE M == {n \in Nat : n <= Len(a) + 1 /\ Suffix(a)[Len(a) + 1 - n] \notin Seq(Nat)
                                                /\ n <= Len(a)}
  <2>1. M = {}
    <3>1. SUFFICES ASSUME M # {} PROVE FALSE
      OBVIOUS
    <3>2. PICK m \in M : \A o \in M : m <= o
      <4>1. M \in SUBSET Nat
        OBVIOUS
      <4> HIDE DEF M
      <4>2. QED
        BY <3>1, <4>1, LeastOf
    <3>3. m # 0
      <4>1. Suffix(a)[Len(a) + 1 - m] \notin Seq(Nat)
        BY <3>2
      <4>2. m = 0 => Len(a) + 1 - m = Len(a) + 1
        BY <1>1
      <4>3. NoBytes \in Seq(Nat)
        BY EmptySeq DEF NoBytes
      <4>4. QED
        BY <1>2, <4>1, <4>2, <4>3
    <3>4. PICK n \in 1..Len(a) : n = Len(a) + 1 - m
      BY <1>1, <3>2, <3>3
    <3>5. Suffix(a)[n + 1] \in Seq(Nat)
      <4>1. m - 1 \in Nat /\ ~ (m <= m - 1) /\ m - 1 <= Len(a) /\ Len(a) + 1 - (m - 1) = n + 1
        BY <1>1, <3>2, <3>3, <3>4
      <4>2. m - 1 \notin M
        BY <3>2, <4>1
      <4>3. m - 1 <= Len(a) + 1
        BY <1>1, <4>1
      <4>4. PICK k \in Nat : k = m - 1 /\ k \notin M /\ k <= Len(a) /\ k <= Len(a) + 1
        BY <4>1, <4>2, <4>3
      <4>5. Suffix(a)[Len(a) + 1 - k] \in Seq(Nat)
        BY <4>4
      <4> HIDE DEF M
      <4>6. QED
        BY <4>1, <4>4, <4>5
    <3>6. Block(a, n) \in Seq(Nat)
      BY BlockIs
    <3> HIDE DEF M
    <3>7. Suffix(a)[n] \in Seq(Nat)
      <4>1. PICK s \in Seq(Nat), r \in Seq(Nat) : s = Block(a, n) /\ r = Suffix(a)[n + 1]
        BY <3>5, <3>6
      <4>2. s \o r \in Seq(Nat)
        BY ConcatProperties
      <4>3. QED
        BY <1>3, <4>1, <4>2
    <3> USE DEF M
    <3>8. QED
      BY <3>2, <3>4, <3>7
  <2>2. QED
    <3>1. ASSUME NEW n \in 1..(Len(a) + 1)
          PROVE  Suffix(a)[n] \in Seq(Nat)
      <4>1. PICK m \in Nat : m = Len(a) + 1 - n /\ m <= Len(a) /\ Len(a) + 1 - m = n
        BY <1>1
      <4>2. m \notin M
        BY <2>1
      <4>3. m <= Len(a) + 1
        BY <1>1, <4>1
      <4>4. Suffix(a)[Len(a) + 1 - m] \in Seq(Nat)
        BY <4>1, <4>2, <4>3
      <4>5. QED
        BY <4>1, <4>4
    <3>2. QED
      BY <3>1
<1>5. QED
  BY <1>2, <1>3, <1>4

(* What stands at q, when the entries from n on do.                        *)
LEMMA StandsEnd ==
  ASSUME FdTypes, NEW q \in Nat, Stands(Len(archive) + 1, q)
  PROVE  q + SECTOR_SIZE <= Limit(Tar) /\ disk[Addr(Tar, q)] = 0
<1>1. Len(archive) \in Nat /\ archive \in Archives
  BY FileDataAssumption DEF FdTypes
<1>2. Suffix(archive)[Len(archive) + 1] = NoBytes /\ Len(NoBytes) = 0
  BY <1>1, SuffixTypes DEF NoBytes
<1>3. /\ q + 0 + SECTOR_SIZE <= Limit(Tar)
      /\ \A b \in (q + 0)..(Limit(Tar) - 1) : disk[Addr(Tar, b)] = 0
  BY <1>2 DEF Stands
<1>4. QED
  BY <1>3, Consts

LEMMA StandsNext ==
  ASSUME FdTypes, NEW n \in 1..Len(archive), NEW q \in Nat, Stands(n, q)
  PROVE  \E len \in Nat :
           /\ archive[n].size <= len /\ len < archive[n].size + SECTOR_SIZE
           /\ \E t \in Nat : len = t * SECTOR_SIZE
           /\ q + SECTOR_SIZE + len + SECTOR_SIZE <= Limit(Tar)
           /\ disk[Addr(Tar, q)] = n
           /\ \A k \in 0..(archive[n].size - 1) :
                disk[Addr(Tar, q + SECTOR_SIZE + k)] = Data(archive[n].file, k)
           /\ Stands(n + 1, q + SECTOR_SIZE + len)
<1>1. Len(archive) \in Nat /\ archive \in Archives /\ archive[n].size \in Nat
  BY EntryIs DEF FdTypes
<1>2. PICK len \in Nat :
        /\ Block(archive, n) \in Seq(Nat) /\ Len(Block(archive, n)) = SECTOR_SIZE + len
        /\ Block(archive, n)[1] = n
        /\ \A k \in 1..archive[n].size :
             Block(archive, n)[SECTOR_SIZE + k] = Data(archive[n].file, k - 1)
        /\ archive[n].size <= len /\ len < archive[n].size + SECTOR_SIZE
        /\ \E t \in Nat : len = t * SECTOR_SIZE
  BY <1>1, BlockIs
<1>3. PICK r \in Seq(Nat) : r = Suffix(archive)[n + 1]
  BY <1>1, SuffixTypes
<1>4. PICK s \in Seq(Nat) : s = Block(archive, n)
  BY <1>2
<1>5. Suffix(archive)[n] = s \o r
  BY <1>1, <1>3, <1>4, SuffixTypes
<1>6. /\ Len(s \o r) = Len(s) + Len(r)
      /\ \A i \in 1..(Len(s) + Len(r)) : (s \o r)[i] = IF i <= Len(s) THEN s[i] ELSE r[i - Len(s)]
  BY ConcatProperties
<1>7. Len(s) = SECTOR_SIZE + len /\ Len(r) \in Nat
  BY <1>2, <1>4
<1>8. PICK z \in Nat : z = Len(r)
  BY <1>7
<1>9. /\ q + (SECTOR_SIZE + len + z) + SECTOR_SIZE <= Limit(Tar)
      /\ \A b \in 1..(SECTOR_SIZE + len + z) : disk[Addr(Tar, q + b - 1)] = (s \o r)[b]
      /\ \A b \in (q + (SECTOR_SIZE + len + z))..(Limit(Tar) - 1) : disk[Addr(Tar, b)] = 0
  BY <1>5, <1>6, <1>7, <1>8 DEF Stands
<1>10. disk[Addr(Tar, q)] = n
  <2>1. 1 \in 1..(SECTOR_SIZE + len + z) /\ 1 <= Len(s) /\ q + 1 - 1 = q
    BY <1>7, Consts
  <2>2. disk[Addr(Tar, q + 1 - 1)] = (s \o r)[1]
    BY <1>9, <2>1
  <2>3. (s \o r)[1] = s[1]
    BY <1>6, <1>7, <1>8, <2>1
  <2>4. QED
    BY <1>2, <1>4, <2>1, <2>2, <2>3
<1>11. ASSUME NEW k \in 0..(archive[n].size - 1)
       PROVE  disk[Addr(Tar, q + SECTOR_SIZE + k)] = Data(archive[n].file, k)
  <2>1. PICK b \in Nat : /\ b = SECTOR_SIZE + (k + 1) /\ b \in 1..(SECTOR_SIZE + len + z)
                         /\ b <= Len(s) /\ q + b - 1 = q + SECTOR_SIZE + k
    <3>1. k \in Nat /\ k + 1 <= len
      <4>1. PICK size \in Nat : size = archive[n].size
        BY <1>1
      <4>2. k \in 0..(size - 1) /\ size <= len
        BY <1>2, <4>1
      <4>3. QED
        BY <4>2
    <3>2. SECTOR_SIZE \in Nat
      BY Consts
    <3>3. /\ SECTOR_SIZE + (k + 1) \in 1..(SECTOR_SIZE + len + z)
          /\ SECTOR_SIZE + (k + 1) \in Nat /\ SECTOR_SIZE + (k + 1) <= SECTOR_SIZE + len
          /\ q + (SECTOR_SIZE + (k + 1)) - 1 = q + SECTOR_SIZE + k
      BY <3>1, <3>2
    <3>4. QED
      BY <1>7, <3>3
  <2>2. disk[Addr(Tar, q + b - 1)] = (s \o r)[b]
    BY <1>9, <2>1
  <2>3. (s \o r)[b] = s[b]
    BY <1>6, <1>7, <1>8, <2>1
  <2>4. k + 1 \in 1..archive[n].size /\ k + 1 - 1 = k
    BY <1>1
  <2>5. s[b] = Data(archive[n].file, k + 1 - 1)
    <3>1. Block(archive, n)[SECTOR_SIZE + (k + 1)] = Data(archive[n].file, k + 1 - 1)
      BY <1>2, <2>4, SMTT(30)
    <3>2. QED
      BY <1>4, <2>1, <3>1
  <2>6. QED
    BY <2>1, <2>2, <2>3, <2>4, <2>5
<1>12. Stands(n + 1, q + SECTOR_SIZE + len)
  <2> DEFINE p == q + SECTOR_SIZE + len
  <2>1. p \in Nat /\ p + z = q + (SECTOR_SIZE + len + z)
    BY Consts
  <2>2. p + z + SECTOR_SIZE <= Limit(Tar)
    BY <1>9, <2>1
  <2>3. \A b \in (p + z)..(Limit(Tar) - 1) : disk[Addr(Tar, b)] = 0
    BY <1>9, <2>1
  <2>4. ASSUME NEW b \in 1..z
        PROVE  disk[Addr(Tar, p + b - 1)] = r[b]
    <3>1. PICK i \in Nat : /\ i = SECTOR_SIZE + len + b /\ i \in 1..(SECTOR_SIZE + len + z)
                           /\ ~ (i <= Len(s)) /\ i - Len(s) = b /\ q + i - 1 = p + b - 1
      BY <1>7, <1>8, Consts
    <3>2. disk[Addr(Tar, q + i - 1)] = (s \o r)[i]
      BY <1>9, <3>1
    <3>3. (s \o r)[i] = r[b]
      BY <1>6, <1>7, <1>8, <3>1
    <3>4. QED
      BY <3>1, <3>2, <3>3
  <2> HIDE DEF p
  <2>5. Stands(n + 1, p)
    BY <1>3, <1>8, <2>2, <2>3, <2>4 DEF Stands
  <2>6. QED
    BY <2>5 DEF p
<1>13. QED
  <2>1. q + SECTOR_SIZE + len + SECTOR_SIZE <= Limit(Tar)
    BY <1>8, <1>9, Consts
  <2>2. QED
    BY <1>2, <1>10, <1>11, <1>12, <2>1

(* It stands as long as cmd.tar is not written.                            *)
LEMMA StandsKept ==
  ASSUME NEW n, NEW q \in Nat, FdTypes, n \in 1..(Len(archive) + 1), Stands(n, q),
         archive' = archive,
         \A b \in 0..(Limit(Tar) - 1) : disk'[Addr(Tar, b)] = disk[Addr(Tar, b)]
  PROVE  Stands(n, q)'
<1>1. archive \in Archives
  BY DEF FdTypes
<1>2. PICK r \in Seq(Nat) : r = Suffix(archive)[n]
  BY <1>1, SuffixTypes
<1>3. r = Suffix(archive)[n]'
  <2>1. Suffix(archive)' = Suffix(archive)
    BY SMT DEF Suffix, Padded, Data, NoBytes
  <2>2. QED
    BY <1>2, <2>1
<1>4. PICK z \in Nat : z = Len(r)
  OBVIOUS
<1>5. /\ q + z + SECTOR_SIZE <= Limit(Tar)
      /\ \A b \in 1..z : disk[Addr(Tar, q + b - 1)] = r[b]
      /\ \A b \in (q + z)..(Limit(Tar) - 1) : disk[Addr(Tar, b)] = 0
  BY <1>2, <1>4 DEF Stands
<1>6. \A b \in 1..z : disk'[Addr(Tar, q + b - 1)] = r[b]
  <2>1. ASSUME NEW b \in 1..z PROVE disk'[Addr(Tar, q + b - 1)] = r[b]
    <3>1. q + b - 1 \in 0..(Limit(Tar) - 1)
      BY <1>5, Consts
    <3>2. QED
      BY <1>5, <3>1
  <2>2. QED
    BY <2>1
<1>7. \A b \in (q + z)..(Limit(Tar) - 1) : disk'[Addr(Tar, b)] = 0
  <2>1. ASSUME NEW b \in (q + z)..(Limit(Tar) - 1) PROVE disk'[Addr(Tar, b)] = 0
    <3>1. b \in 0..(Limit(Tar) - 1)
      BY Consts
    <3>2. QED
      BY <1>5, <3>1
  <2>2. QED
    BY <2>1
<1>8. QED
  BY <1>3, <1>4, <1>5, <1>6, <1>7 DEF Stands, Limit, Nr_sects, Addr, Start, Tar

-----------------------------------------------------------------------------
(***************************************************************************)
(* The steps and UntarFits.                                                *)
(***************************************************************************)
(* The files of the archive, each in a place of its own.                   *)
LEMMA EntriesAre ==
  ASSUME FdTypes
  PROVE  /\ archive \in Archives /\ Len(archive) \in Nat /\ DOMAIN archive = 1..Len(archive)
         /\ \A n \in 1..Len(archive) : /\ archive[n].file \in File /\ archive[n].size \in Nat
                                       /\ archive[n].size <= Room
         /\ \A m, n \in 1..Len(archive) : archive[m].file = archive[n].file => m = n
<1>1. archive \in Archives /\ archive \in Seq([file : File, size : Nat])
  BY FileDataAssumption DEF FdTypes
<1>2. Len(archive) \in Nat /\ DOMAIN archive = 1..Len(archive)
  BY <1>1
<1>3. /\ \A n \in DOMAIN archive : archive[n].size <= Room
      /\ \A m, n \in DOMAIN archive : archive[m].file = archive[n].file => m = n
  BY <1>1, FileDataSizes DEF Room
<1>4. \A n \in 1..Len(archive) : archive[n].file \in File /\ archive[n].size \in Nat
  BY <1>1, EntryIs
<1>5. QED
  BY <1>1, <1>2, <1>3, <1>4

(* A step that neither writes nor moves fdout.                             *)
LEMMA ExtractingStays ==
  ASSUME FdTypes, NEW m, NEW c, m \in 0..Len(archive), Extracting(m, c),
         archive' = archive, disk' = disk, fd_inode' = fd_inode,
         \A f \in File : i_size'[f] = i_size[f],
         fd_pos'["fdout"] = fd_pos["fdout"], NoFileWrite, NoFileWrite'
  PROVE  Extracting(m, c)'
<1>1. /\ Len(archive) \in Nat /\ \A n \in 1..Len(archive) : archive[n].file \in File
  BY EntriesAre
<1>2. \A f, k : Addr(f, k)' = Addr(f, k)
  BY DEF Addr, Start
<1>3. \A j \in 1..(m - 1) : Done(j)'
  <2>1. ASSUME NEW j \in 1..(m - 1) PROVE Done(j)'
    <3>1. Done(j) /\ archive[j].file \in File
      BY <1>1 DEF Extracting
    <3>2. QED
      BY <1>2, <3>1 DEF Done, Data
  <2>2. QED
    BY <2>1
<1>4. \A j \in (m + 1)..Len(archive)' : i_size'[archive'[j].file] = 0
  <2>1. ASSUME NEW j \in (m + 1)..Len(archive) PROVE i_size'[archive[j].file] = 0
    <3>1. j \in 1..Len(archive)
      BY <1>1
    <3>2. archive[j].file \in File /\ i_size[archive[j].file] = 0
      BY <1>1, <3>1 DEF Extracting
    <3>3. QED
      BY <3>2
  <2>2. QED
    BY <2>1
<1>5. ASSUME m > 0 PROVE Copied(m, c)'
  <2>1. Copied(m, c) /\ archive[m].file \in File
    BY <1>1, <1>5 DEF Extracting
  <2>2. QED
    BY <1>2, <2>1 DEF Copied, NoFileWrite, Data
<1>6. QED
  BY <1>3, <1>4, <1>5 DEF Extracting

(* A turn of a read of cmd.tar.                                            *)
LEMMA TurnReadsTar ==
  ASSUME FdTypes, CallFits, RdwtTurn, rw.fd = "fd",
         NEW m \in Nat, NEW q \in Nat, NEW c \in Nat, m <= Len(archive)
  PROVE  /\ BetweenFiles(m, q, c) => BetweenFiles(m, q, c)'
         /\ m > 0 /\ InsideFile(m, q, c) => InsideFile(m, q, c)'
<1>1. InCall /\ InCall' /\ UNCHANGED <<i_size, fd_inode, untar, archive>>
      /\ fd_pos' = [fd_pos EXCEPT ![rw.fd] = At + TurnBytes]
      /\ rw'.fd = "fd" /\ rw'.op = rw.op /\ rw'.from = rw.from /\ End' = End
  BY TurnReaches, TurnMoves
<1>2. InFile = Tar /\ rw.op = "READ"
  <2>1. InFile = Tar
    BY DEF FdTypes, InFile
  <2>2. QED
    BY <1>1, <2>1, CallTypes, Consts DEF CallFits
<1>3. disk' = disk
  BY <1>2, TurnReads
<1>4. fd_pos'["fdout"] = fd_pos["fdout"] /\ NoFileWrite /\ NoFileWrite'
  BY <1>1, Consts DEF NoFileWrite, FdTypes
<1>5. \A x \in Nat : Extracting(m, x) => Extracting(m, x)'
  BY <1>1, <1>3, <1>4, ExtractingStays, EntriesAre
<1>6. \A n \in 1..(Len(archive) + 1) : Stands(n, q) => Stands(n, q)'
  BY <1>1, <1>3, StandsKept
<1>7. \A x, len : TarRead(x, len) => TarRead(x, len)'
  BY <1>1, <1>2 DEF TarRead
<1>8. ~ NoTarRead
  BY <1>1 DEF NoTarRead
<1>9. ASSUME BetweenFiles(m, q, c) PROVE BetweenFiles(m, q, c)'
  <2>1. /\ c = SizeOf(m) /\ Extracting(m, c) /\ Stands(m + 1, q)
        /\ untar.pc = "got_header" /\ TarRead(q, SECTOR_SIZE)
    BY <1>8, <1>9 DEF BetweenFiles
  <2>2. m + 1 \in 1..(Len(archive) + 1)
    BY EntriesAre
  <2>3. SizeOf(m)' = SizeOf(m)
    BY <1>1 DEF SizeOf
  <2>4. Extracting(m, c)' /\ Stands(m + 1, q)' /\ TarRead(q, SECTOR_SIZE)'
    BY <1>5, <1>6, <1>7, <2>1, <2>2
  <2>5. QED
    BY <1>1, <2>1, <2>3, <2>4 DEF BetweenFiles
<1>10. ASSUME m > 0, InsideFile(m, q, c) PROVE InsideFile(m, q, c)'
  <2>1. PICK w : w = WholeSectors /\ w = WholeSectors'
    BY <1>1 DEF WholeSectors, iobytes
  <2>2. /\ untar.bytes_left > 0 /\ c + untar.bytes_left = archive[m].size
        /\ c % SECTOR_SIZE = 0 /\ Extracting(m, c) /\ Stands(m, q)
        /\ untar.pc = "copied" /\ TarRead(q + SECTOR_SIZE + c, w)
    BY <1>8, <1>10, <2>1 DEF InsideFile
  <2>3. m \in 1..(Len(archive) + 1)
    BY <1>10, EntriesAre
  <2>4. Extracting(m, c)' /\ Stands(m, q)' /\ TarRead(q + SECTOR_SIZE + c, w)'
    BY <1>5, <1>6, <1>7, <2>2, <2>3
  <2>5. QED
    BY <1>1, <2>1, <2>2, <2>4 DEF InsideFile
<1>11. QED
  BY <1>9, <1>10

(* What a turn of untar's write leaves on the disk: its bytes are in the   *)
(* file, and the bytes of other files are as they were.                    *)
LEMMA TurnWritesFile ==
  ASSUME FdTypes, CallFits, RdwtTurn, untar.pc # "done", rw.op = "WRITE",
         NEW n, n = TurnBytes, NEW f, f = InFile, NEW p, p = At
  PROVE  /\ p + n <= End /\ f \in File
         /\ \A g \in Extracted : \A k \in 0..(Limit(g) - 1) :
              (g = f => k \notin p..(p + n - 1)) => disk'[Addr(g, k)] = disk[Addr(g, k)]
         /\ \A k \in p..(p + n - 1) : disk'[Addr(f, k)] = buf[k - rw.from + 1]
<1>1. InCall /\ f \in Extracted /\ p \in Nat /\ n \in Nat /\ p + n <= End
  BY TurnReaches
<1>2. f \in File /\ \A k \in p..(p + n - 1) : disk'[f * Room + k] = buf[k - rw.from + 1]
  BY TurnWrites
<1>3. End <= Room /\ End \in Nat /\ Room \in Nat
  BY <1>1, <1>2, CallTypes, Consts DEF CallFits
<1>4. ASSUME NEW g \in Extracted, NEW k \in 0..(Limit(g) - 1), g = f => k \notin p..(p + n - 1)
      PROVE  disk'[Addr(g, k)] = disk[Addr(g, k)]
  <2>1. SUFFICES ASSUME disk'[Addr(g, k)] # disk[Addr(g, k)] PROVE FALSE
    OBVIOUS
  <2>2. Limit(g) \in Nat
    BY <1>4, Consts
  <2>3. k \in Nat /\ k < Limit(g)
    BY <2>2
  <2>4. p + n > Room
    BY <1>4, <2>1, <2>3, TurnElsewhere
  <2>5. QED
    BY <1>1, <1>3, <2>4
<1>5. \A k \in p..(p + n - 1) : disk'[Addr(f, k)] = buf[k - rw.from + 1]
  BY <1>1, <1>2, Addresses
<1>6. QED
  BY <1>1, <1>2, <1>4, <1>5

(* A turn of untar's write.                                                *)
LEMMA TurnWritesOut ==
  ASSUME FdTypes, CallFits, RdwtTurn, untar.pc # "done", rw.fd = "fdout",
         NEW m \in Nat, NEW q \in Nat, NEW c \in Nat, m <= Len(archive)
  PROVE  /\ BetweenFiles(m, q, c) => BetweenFiles(m, q, c)'
         /\ m > 0 /\ InsideFile(m, q, c) => InsideFile(m, q, c)'
<1> DEFINE n == TurnBytes
           p == At
<1>1. /\ InCall /\ InCall' /\ UNCHANGED <<i_size, fd_inode, untar, archive>>
      /\ fd_pos' = [fd_pos EXCEPT ![rw.fd] = p + n] /\ p \in Nat /\ n \in Nat
      /\ rw'.fd = "fdout" /\ rw'.op = rw.op /\ rw'.from = rw.from /\ End' = End
  BY TurnReaches, TurnMoves
<1>2. /\ fd_pos' \in [Entry -> Nat] /\ fd_pos'["fdout"] = p + n
      /\ fd_pos'["fd"] = fd_pos["fd"] /\ p = fd_pos["fdout"]
  <2>1. p = fd_pos["fdout"] /\ fd_pos \in [Entry -> Nat]
    BY DEF At, FdTypes
  <2>2. p + n \in Nat
    BY <1>1
  <2> HIDE DEF p, n
  <2>3. QED
    BY <1>1, <2>1, <2>2, Consts
<1>3. ASSUME NEW x \in Nat, Extracting(m, x) PROVE Extracting(m, x)'
  <2>1. m > 0 /\ Copied(m, x)
    BY <1>1, <1>3 DEF Extracting, NoFileWrite
  <2>2. PICK f \in File : f = archive[m].file /\ m \in 1..Len(archive)
    BY <2>1, EntriesAre
  <2>3. /\ InFile = f /\ rw.op = "WRITE" /\ End = x /\ i_size[f] <= p
        /\ \A k \in 0..(p - 1) : disk[Addr(f, k)] = Data(f, k)
        /\ \A k \in rw.from..(x - 1) : buf[k - rw.from + 1] = Data(f, k)
    BY <1>1, <1>2, <2>1, <2>2 DEF Copied, InFile
  <2>4. /\ p + n <= x
        /\ \A g \in Extracted : \A k \in 0..(Limit(g) - 1) :
             (g = f => k \notin p..(p + n - 1)) => disk'[Addr(g, k)] = disk[Addr(g, k)]
        /\ \A k \in p..(p + n - 1) : disk'[Addr(f, k)] = buf[k - rw.from + 1]
    BY <2>3, TurnWritesFile
  <2>5. buf' = buf
    BY <2>3, TurnWrites
  <2>6. rw.from \in Nat /\ rw.from <= p
    BY <1>1, CallTypes, SMTT(30) DEF CallFits
  <2>7. x <= Room /\ Room \in Nat
    BY <1>1, <2>2, <2>3, Consts DEF CallFits
  <2> HIDE DEF n, p
  <2>8. \A g, k : Addr(g, k)' = Addr(g, k)
    BY DEF Addr, Start
  <2>9. ASSUME NEW j \in 1..(m - 1) PROVE Done(j)'
    <3>1. PICK g \in File : g = archive[j].file /\ archive[j].size \in Nat /\ archive[j].size <= Room
      BY <2>2, EntriesAre
    <3>2. g # f /\ Limit(g) = Room /\ g \in Extracted
      BY <2>2, <3>1, EntriesAre, Consts
    <3>3. i_size[g] = archive[j].size
          /\ \A k \in 0..(archive[j].size - 1) : disk[Addr(g, k)] = Data(g, k)
      BY <1>3, <3>1 DEF Extracting, Done
    <3>4. \A k \in 0..(archive[j].size - 1) : disk'[Addr(g, k)] = Data(g, k)
      BY <2>4, <2>7, <3>1, <3>2, <3>3
    <3>5. QED
      BY <1>1, <2>8, <3>1, <3>3, <3>4 DEF Done, Data
  <2>10. \A j \in (m + 1)..Len(archive) : i_size[archive[j].file] = 0
    BY <1>3 DEF Extracting
  <2>11. ASSUME NEW k \in 0..(p + n - 1) PROVE disk'[Addr(f, k)] = Data(f, k)
    <3>1. CASE k < p
      <4>1. k \in 0..(p - 1) /\ k \notin p..(p + n - 1)
        BY <1>1, <3>1
      <4>2. k \in 0..(Limit(f) - 1) /\ f \in Extracted
        BY <1>1, <2>4, <2>7, Consts
      <4>3. QED
        BY <2>3, <2>4, <4>1, <4>2
    <3>2. CASE ~ (k < p)
      <4>1. k \in p..(p + n - 1) /\ k \in rw.from..(x - 1)
        BY <1>1, <2>4, <2>6, <3>2
      <4>2. QED
        BY <2>3, <2>4, <4>1
    <3>3. QED
      BY <3>1, <3>2
  <2>12. i_size[f] <= p + n
    <3>1. i_size[f] \in Nat
      BY Consts DEF FdTypes
    <3>2. QED
      BY <1>1, <2>3, <3>1
  <2>13. fd_inode["fdout"] = f
    BY <2>1, <2>2 DEF Copied
  <2>14. Copied(m, x)'
    BY <1>1, <1>2, <2>2, <2>3, <2>5, <2>8, <2>11, <2>12, <2>13, SMTT(30) DEF Copied, Data
  <2>15. \A j \in (m + 1)..Len(archive') : i_size'[archive'[j].file] = 0
    BY <1>1, <2>10
  <2>16. \A j \in 1..(m - 1) : Done(j)'
    BY <2>9
  <2>17. QED
    BY <2>1, <2>14, <2>15, <2>16 DEF Extracting
<1>4. \A b \in 0..(Limit(Tar) - 1) : disk'[Addr(Tar, b)] = disk[Addr(Tar, b)]
  <2>1. CASE rw.op = "READ"
    BY <2>1, TurnReads
  <2>2. CASE rw.op = "WRITE"
    BY <2>2, TurnWritesFile, Consts
  <2>3. QED
    BY <1>1, <2>1, <2>2, CallTypes
<1> HIDE DEF n, p
<1>5. \A i \in 1..(Len(archive) + 1) : Stands(i, q) => Stands(i, q)'
  BY <1>1, <1>4, StandsKept
<1>6. \A x, len : ~ TarRead(x, len)
  BY <1>1, Consts DEF TarRead
<1>7. NoTarRead'
  BY <1>1, Consts DEF NoTarRead
<1>8. ASSUME BetweenFiles(m, q, c) PROVE BetweenFiles(m, q, c)'
  <2>1. /\ c = SizeOf(m) /\ Extracting(m, c) /\ Stands(m + 1, q)
        /\ untar.pc = "header" /\ fd_pos["fd"] = q
    BY <1>6, <1>8 DEF BetweenFiles
  <2>2. m + 1 \in 1..(Len(archive) + 1)
    BY EntriesAre
  <2>3. SizeOf(m)' = SizeOf(m)
    BY <1>1 DEF SizeOf
  <2>4. Extracting(m, c)' /\ Stands(m + 1, q)'
    BY <1>3, <1>5, <2>1, <2>2
  <2>5. QED
    BY <1>1, <1>2, <1>7, <2>1, <2>3, <2>4 DEF BetweenFiles
<1>9. ASSUME m > 0, InsideFile(m, q, c) PROVE InsideFile(m, q, c)'
  <2>1. /\ untar.bytes_left > 0 /\ c + untar.bytes_left = archive[m].size
        /\ c % SECTOR_SIZE = 0 /\ Extracting(m, c) /\ Stands(m, q)
        /\ untar.pc = "copy" /\ fd_pos["fd"] = q + SECTOR_SIZE + c
    BY <1>6, <1>9 DEF InsideFile
  <2>2. m \in 1..(Len(archive) + 1)
    BY <1>9, EntriesAre
  <2>3. Extracting(m, c)' /\ Stands(m, q)'
    BY <1>3, <1>5, <2>1, <2>2
  <2>4. QED
    BY <1>1, <1>2, <1>7, <2>1, <2>3 DEF InsideFile
<1>10. QED
  BY <1>8, <1>9

LEMMA TurnUntar ==
  ASSUME FdTypes, CallFits, UntarFits, RdwtTurn
  PROVE  UntarFits'
<1>1. InCall /\ UNCHANGED <<untar, archive>>
  BY TurnReaches, TurnMoves
<1>2. CASE untar.pc = "done"
  BY <1>1, <1>2 DEF UntarFits
<1>3. CASE untar.pc # "done"
  <2>1. PICK m \in 0..Len(archive), q \in 0..Limit(Tar), c \in 0..Room :
          BetweenFiles(m, q, c) \/ (m > 0 /\ InsideFile(m, q, c))
    BY <1>3 DEF UntarFits
  <2>2. m \in Nat /\ q \in Nat /\ c \in Nat /\ m <= Len(archive)
    BY <2>1, EntriesAre, Consts
  <2>3. rw.fd = "fd" \/ rw.fd = "fdout"
    BY <1>1, <1>3 DEF CallFits
  <2>4. \/ BetweenFiles(m, q, c)'
        \/ m > 0 /\ InsideFile(m, q, c)'
    BY <1>3, <2>1, <2>2, <2>3, TurnReadsTar, TurnWritesOut
  <2>5. Limit(Tar)' = Limit(Tar) /\ Room' = Room
    BY DEF Limit, Room, Nr_sects, Tar
  <2>6. QED
    BY <1>1, <2>1, <2>4, <2>5 DEF UntarFits
<1>4. QED
  BY <1>2, <1>3

(* untar's calls do all that they were asked for.                          *)
LEMMA CallEnds ==
  ASSUME FdTypes, CallFits, RdwtReturn, untar.pc # "done"
  PROVE  rw.bytes_left = 0 /\ At = End
<1>1. InCall /\ rw.i > rw.rw_sect_max
  BY DEF RdwtReturn, InCall
<1>2. /\ rw.i \in Nat /\ rw.rw_sect_max \in Nat /\ InFile \in Extracted /\ At \in Nat /\ End \in Nat
      /\ rw.bytes_left \in Nat /\ rw.off \in Nat /\ rw.from \in Nat /\ rw.bytes_rw \in Nat
  BY <1>1, CallTypes, Consts
<1>3. At = rw.from + rw.bytes_rw /\ At + rw.bytes_left = End
  BY <1>1, <1>2 DEF CallFits, End
<1>4. PICK x \in Int : x = rw.i * SECTOR_SIZE
  BY <1>2, Consts
<1>5. PICK y \in Nat : y = InFile * Room
  BY <1>2, Addresses
<1>6. y + End < x
  <2>1. Addr(InFile, End) = y + End /\ Addr(InFile, End) < (rw.rw_sect_max + 1) * SECTOR_SIZE
    BY <1>1, <1>2, <1>5, Addresses DEF CallFits
  <2>2. (rw.rw_sect_max + 1) * SECTOR_SIZE <= rw.i * SECTOR_SIZE
    <3>1. rw.rw_sect_max + 1 \in Int /\ rw.i \in Int /\ rw.rw_sect_max + 1 <= rw.i
      BY <1>1, <1>2
    <3>2. QED
      BY <3>1, Multiples
  <2>3. (rw.rw_sect_max + 1) * SECTOR_SIZE \in Int
    <3>1. rw.rw_sect_max + 1 \in Int
      BY <1>2
    <3>2. QED
      BY <3>1, Multiples
  <2>4. QED
    BY <1>2, <1>4, <1>5, <2>1, <2>2, <2>3
<1>7. rw.bytes_left > 0 => x + rw.off = y + At
  BY <1>1, <1>2, <1>4, <1>5, Addresses DEF CallFits
<1>8. QED
  BY <1>2, <1>3, <1>4, <1>5, <1>6, <1>7

LEMMA ReturnUntar ==
  ASSUME FdTypes, CallFits, ReadSoFar, InRoom, UntarFits, RdwtReturn
  PROVE  UntarFits'
<1>1. /\ InCall /\ ~ InCall'
      /\ UNCHANGED <<disk, fd_inode, fd_pos, untar, archive>>
      /\ \A g \in Extracted :
           i_size'[g] = IF g = InFile /\ At > i_size[InFile] THEN At ELSE i_size[g]
      /\ InFile \in Extracted /\ At \in Nat /\ rw.fd \in Entry
  BY ReturnDoes, CallTypes
<1>2. CASE untar.pc = "done"
  BY <1>1, <1>2 DEF UntarFits
<1>3. CASE untar.pc # "done"
  <2>1. rw.bytes_left = 0 /\ At = End /\ End \in Nat
    BY <1>1, <1>3, CallEnds
  <2>2. PICK m \in 0..Len(archive), q \in 0..Limit(Tar), c \in 0..Room :
          BetweenFiles(m, q, c) \/ (m > 0 /\ InsideFile(m, q, c))
    BY <1>3 DEF UntarFits
  <2>3. m \in Nat /\ q \in Nat /\ c \in Nat /\ m <= Len(archive)
    BY <2>2, EntriesAre, Consts
  <2>4. rw.fd = "fd" \/ rw.fd = "fdout"
    BY <1>1, <1>3 DEF CallFits
  <2>5. NoTarRead' /\ NoFileWrite'
    BY <1>1 DEF NoTarRead, NoFileWrite
  <2>6. buf' = buf
    BY <1>3 DEF RdwtReturn
  <2>7. \A n \in 1..(Len(archive) + 1) : Stands(n, q) => Stands(n, q)'
    BY <1>1, <2>3, StandsKept
  <2>8. ASSUME Extracting(m, c) PROVE Extracting(m, c)'
    <3>1. CASE rw.fd = "fd"
      <4>1. InFile = Tar
        BY <3>1 DEF FdTypes, InFile
      <4>2. \A f \in File : i_size'[f] = i_size[f]
        BY <1>1, <4>1, Consts
      <4>3. NoFileWrite
        BY <3>1, Consts DEF NoFileWrite
      <4>4. QED
        BY <1>1, <2>5, <2>8, <4>2, <4>3, ExtractingStays
    <3>2. CASE rw.fd = "fdout"
      <4>1. m > 0 /\ Copied(m, c)
        BY <1>1, <2>8, <3>2 DEF Extracting, NoFileWrite
      <4>2. PICK f \in File : f = archive[m].file /\ m \in 1..Len(archive)
        BY <2>3, <4>1, EntriesAre
      <4>3. /\ InFile = f /\ End = c /\ At = fd_pos["fdout"] /\ i_size[f] <= c /\ c = At
            /\ \A k \in 0..(At - 1) : disk[Addr(f, k)] = Data(f, k)
        BY <1>1, <2>1, <3>2, <4>1, <4>2 DEF Copied, InFile, At
      <4>4. i_size'[f] = c
        <5>1. i_size[f] \in Nat /\ f \in Extracted
          BY Consts DEF FdTypes
        <5>2. QED
          BY <1>1, <2>3, <4>3, <5>1
      <4>5. \A g \in File : g # f => i_size'[g] = i_size[g]
        BY <1>1, <4>3, Consts
      <4>6. \A g, k : Addr(g, k)' = Addr(g, k)
        BY DEF Addr, Start
      <4>7. ASSUME NEW j \in 1..(m - 1) PROVE Done(j)'
        <5>1. archive[j].file \in File /\ archive[j].file # f
          BY <2>3, <4>2, EntriesAre
        <5>2. Done(j)
          BY <2>8 DEF Extracting
        <5>3. QED
          BY <1>1, <4>5, <4>6, <5>1, <5>2 DEF Done, Data
      <4>8. \A j \in (m + 1)..Len(archive') : i_size'[archive'[j].file] = 0
        <5>1. ASSUME NEW j \in (m + 1)..Len(archive) PROVE i_size'[archive[j].file] = 0
          <6>1. archive[j].file \in File /\ archive[j].file # f
            BY <2>3, <4>2, EntriesAre
          <6>2. i_size[archive[j].file] = 0
            BY <2>8 DEF Extracting
          <6>3. QED
            BY <4>5, <6>1, <6>2
        <5>2. QED
          BY <1>1, <5>1
      <4>9. Copied(m, c)'
        <5>1. fd_inode["fdout"] = f
          BY <4>1, <4>2 DEF Copied
        <5>2. QED
          BY <1>1, <4>2, <4>3, <4>4, <4>6, <5>1 DEF Copied, Data
      <4>10. QED
        BY <4>1, <4>7, <4>8, <4>9 DEF Extracting
    <3>3. QED
      BY <2>4, <3>1, <3>2
  <2>9. ASSUME NEW x \in Nat, NEW len \in Nat, TarRead(x, len) PROVE TarRead(x, len)'
    <3>1. rw.op = "READ" /\ rw.fd = "fd" /\ rw.from = x /\ End = x + len
      BY <1>1, <2>9 DEF TarRead
    <3>2. InFile = Tar /\ At = fd_pos["fd"]
      BY <3>1 DEF FdTypes, InFile, At
    <3>3. Len(buf) = rw.bytes_rw /\ rw.bytes_rw \in Nat /\ At = rw.from + rw.bytes_rw
      BY <1>1, <3>1, CallTypes DEF CallFits
    <3>4. Len(buf) = len /\ fd_pos["fd"] = x + len
      BY <2>1, <3>1, <3>2, <3>3
    <3>5. \A n \in 1..len : buf[n] = disk[Addr(Tar, x + n - 1)]
      BY <1>1, <3>1, <3>2, <3>4 DEF ReadSoFar
    <3>6. \A k : Addr(Tar, k)' = Addr(Tar, k)
      BY DEF Addr, Start, Tar
    <3>7. QED
      BY <1>1, <2>6, <3>4, <3>5, <3>6 DEF TarRead, Tar
  <2>10. CASE BetweenFiles(m, q, c)
    <3>1. SizeOf(m)' = SizeOf(m) /\ m + 1 \in 1..(Len(archive) + 1) /\ SECTOR_SIZE \in Nat
      BY <1>1, <2>3, EntriesAre, Consts DEF SizeOf
    <3>2. BetweenFiles(m, q, c)'
      BY <1>1, <2>3, <2>5, <2>7, <2>8, <2>9, <2>10, <3>1 DEF BetweenFiles
    <3>3. QED
      BY <1>1, <2>2, <3>2 DEF UntarFits, Limit, Room, Nr_sects, Tar
  <2>11. CASE m > 0 /\ InsideFile(m, q, c)
    <3>1. PICK w : w = WholeSectors /\ w = WholeSectors'
      BY <1>1 DEF WholeSectors, iobytes
    <3>2. /\ untar.bytes_left > 0 /\ c + untar.bytes_left = archive[m].size
          /\ c % SECTOR_SIZE = 0 /\ Extracting(m, c) /\ Stands(m, q)
          /\ \/ untar.pc = "copy" /\ fd_pos["fd"] = q + SECTOR_SIZE + c
             \/ untar.pc = "copied" /\ TarRead(q + SECTOR_SIZE + c, w)
      BY <2>11, <3>1 DEF InsideFile
    <3>3. w \in Nat /\ q + SECTOR_SIZE + c \in Nat
      <4>1. iobytes > 0
        BY <3>2, Consts DEF iobytes, Least, FdTypes
      <4>2. QED
        BY <2>3, <3>1, <4>1, WholeSectorsIs, Consts
    <3>4. m \in 1..(Len(archive) + 1)
      BY <2>3, <2>11, EntriesAre
    <3>5. /\ Extracting(m, c)' /\ Stands(m, q)'
          /\ \/ untar.pc = "copy" /\ fd_pos["fd"] = q + SECTOR_SIZE + c
             \/ untar.pc = "copied" /\ TarRead(q + SECTOR_SIZE + c, w)'
      BY <2>7, <2>8, <2>9, <3>2, <3>3, <3>4
    <3>6. InsideFile(m, q, c)'
      BY <1>1, <2>5, <3>1, <3>2, <3>5 DEF InsideFile
    <3>7. QED
      BY <1>1, <2>2, <2>11, <3>6 DEF UntarFits, Limit, Room, Nr_sects, Tar
  <2>12. QED
    BY <2>2, <2>10, <2>11
<1>4. QED
  BY <1>2, <1>3

LEMMA StandsBelow ==
  ASSUME FdTypes, NEW n \in 1..(Len(archive) + 1), NEW q \in Nat, Stands(n, q)
  PROVE  q + SECTOR_SIZE <= Limit(Tar)
<1>1. CASE n = Len(archive) + 1
  BY <1>1, StandsEnd
<1>2. CASE n # Len(archive) + 1
  <2>1. n \in 1..Len(archive)
    BY <1>2, EntriesAre
  <2>2. PICK len \in Nat : q + SECTOR_SIZE + len + SECTOR_SIZE <= Limit(Tar)
    BY <2>1, StandsNext
  <2>3. QED
    BY <2>2, Consts
<1>3. QED
  BY <1>1, <1>2

(* untar asks for len bytes of cmd.tar.                                    *)
LEMMA TarReadBegins ==
  ASSUME FdTypes, Behind, InRoom, untar.pc # "done",
         NEW len \in Nat, fd_pos["fd"] + len <= Limit(Tar),
         do_rdwt("READ", "fd", len, NoBytes)
  PROVE  /\ Asks("READ", "fd", len, NoBytes)
         /\ UNCHANGED <<disk, i_size, fd_inode, fd_pos, archive>> /\ InCall'
         /\ TarRead(fd_pos["fd"], len)'
         /\ \A m \in 0..Len(archive) : \A c : Extracting(m, c) => Extracting(m, c)'
<1>1. Asks("READ", "fd", len, NoBytes)
  <2>1. fd_inode["fd"] = Tar /\ \A f \in File : ~ Overrun(f)
    BY DEF FdTypes, InRoom
  <2>2. NoBytes \in Seq(Nat)
    BY EmptySeq DEF NoBytes
  <2>3. QED
    BY <2>1, <2>2, Consts DEF Asks
<1>2. /\ ~ InCall /\ InCall'
      /\ UNCHANGED <<disk, i_size, fd_inode, fd_pos, archive, written>>
      /\ rw'.op = "READ" /\ rw'.fd = "fd" /\ rw'.from = fd_pos["fd"]
      /\ rw'.bytes_rw = 0 /\ rw'.bytes_left = len
  BY <1>1, CallBegins
<1>3. End' = fd_pos["fd"] + len
  <2>1. fd_pos["fd"] \in Nat
    BY Consts DEF FdTypes
  <2>2. End' = rw'.from + rw'.bytes_rw + rw'.bytes_left
    BY DEF End
  <2>3. QED
    BY <1>2, <2>1, <2>2
<1>4. TarRead(fd_pos["fd"], len)'
  BY <1>2, <1>3 DEF TarRead
<1>5. NoFileWrite /\ NoFileWrite'
  BY <1>2, Consts DEF NoFileWrite
<1>6. \A m \in 0..Len(archive) : \A c : Extracting(m, c) => Extracting(m, c)'
  BY <1>2, <1>5, ExtractingStays
<1>7. QED
  BY <1>1, <1>2, <1>4, <1>6

LEMMA HeaderRead ==
  ASSUME FdTypes, Behind, InRoom, UntarFits, UntarReadHeader
  PROVE  Asks("READ", "fd", SECTOR_SIZE, NoBytes) /\ UntarFits'
<1>1. /\ untar.pc = "header" /\ do_rdwt("READ", "fd", SECTOR_SIZE, NoBytes)
      /\ untar' = [pc |-> "got_header", bytes_left |-> 0]
  BY DEF UntarReadHeader, Then
<1>2. PICK m \in 0..Len(archive), q \in 0..Limit(Tar), c \in 0..Room : BetweenFiles(m, q, c)
  BY <1>1 DEF UntarFits, InsideFile
<1>3. c = SizeOf(m) /\ Extracting(m, c) /\ Stands(m + 1, q) /\ fd_pos["fd"] = q
  BY <1>1, <1>2 DEF BetweenFiles
<1>4. m + 1 \in 1..(Len(archive) + 1) /\ q \in Nat /\ SECTOR_SIZE \in Nat
  BY EntriesAre, Consts
<1>5. fd_pos["fd"] + SECTOR_SIZE <= Limit(Tar)
  BY <1>3, <1>4, StandsBelow
<1>6. /\ Asks("READ", "fd", SECTOR_SIZE, NoBytes)
      /\ UNCHANGED <<disk, i_size, fd_inode, fd_pos, archive>>
      /\ TarRead(fd_pos["fd"], SECTOR_SIZE)' /\ Extracting(m, c)'
  BY <1>1, <1>3, <1>4, <1>5, TarReadBegins
<1>7. Stands(m + 1, q)'
  BY <1>3, <1>4, <1>6, StandsKept
<1>8. SizeOf(m)' = SizeOf(m)
  BY <1>6 DEF SizeOf
<1>9. TarRead(q, SECTOR_SIZE)'
  BY <1>3, <1>6 DEF TarRead
<1>10. BetweenFiles(m, q, c)'
  BY <1>1, <1>3, <1>6, <1>7, <1>8, <1>9 DEF BetweenFiles
<1>11. QED
  BY <1>6, <1>10 DEF UntarFits, Limit, Room, Nr_sects, Tar

LEMMA SectorsRead ==
  ASSUME FdTypes, Behind, InRoom, UntarFits, UntarRead
  PROVE  Asks("READ", "fd", WholeSectors, NoBytes) /\ UntarFits'
<1>1. /\ untar.pc = "copy" /\ do_rdwt("READ", "fd", WholeSectors, NoBytes)
      /\ untar' = [pc |-> "copied", bytes_left |-> untar.bytes_left]
  BY DEF UntarRead, Then
<1>2. PICK m \in 0..Len(archive), q \in 0..Limit(Tar), c \in 0..Room :
        m > 0 /\ InsideFile(m, q, c)
  BY <1>1 DEF UntarFits, BetweenFiles
<1>3. /\ untar.bytes_left > 0 /\ c + untar.bytes_left = archive[m].size
      /\ c % SECTOR_SIZE = 0 /\ Extracting(m, c) /\ Stands(m, q)
      /\ fd_pos["fd"] = q + SECTOR_SIZE + c
  BY <1>1, <1>2 DEF InsideFile
<1>4. m \in 1..Len(archive) /\ q \in Nat /\ SECTOR_SIZE \in Nat /\ c \in Nat
  BY <1>2, EntriesAre, Consts
<1>5. PICK w \in Nat : w = WholeSectors /\ w < untar.bytes_left + SECTOR_SIZE
                       /\ \E t \in Nat : w = t * SECTOR_SIZE
  <2>1. iobytes > 0 /\ untar.bytes_left \in Nat
    BY <1>3, Consts DEF iobytes, Least, FdTypes
  <2>2. /\ iobytes \in Nat /\ iobytes <= untar.bytes_left /\ WholeSectors \in Nat
        /\ WholeSectors < iobytes + SECTOR_SIZE
        /\ \E t \in Nat : WholeSectors = t * SECTOR_SIZE
    BY <2>1, WholeSectorsIs
  <2>3. WholeSectors < untar.bytes_left + SECTOR_SIZE
    BY <1>4, <2>1, <2>2
  <2>4. QED
    BY <2>2, <2>3
<1>6. q + SECTOR_SIZE + c + w <= Limit(Tar)
  <2>1. PICK len \in Nat :
          /\ archive[m].size <= len /\ q + SECTOR_SIZE + len + SECTOR_SIZE <= Limit(Tar)
          /\ \E t \in Nat : len = t * SECTOR_SIZE
    <3>1. Stands(m, q)
      BY <1>3
    <3>2. \E len \in Nat :
            /\ archive[m].size <= len /\ len < archive[m].size + SECTOR_SIZE
            /\ \E t \in Nat : len = t * SECTOR_SIZE
            /\ q + SECTOR_SIZE + len + SECTOR_SIZE <= Limit(Tar)
            /\ disk[Addr(Tar, q)] = m
            /\ \A k \in 0..(archive[m].size - 1) :
                 disk[Addr(Tar, q + SECTOR_SIZE + k)] = Data(archive[m].file, k)
            /\ Stands(m + 1, q + SECTOR_SIZE + len)
      BY <1>4, <3>1, StandsNext
    <3>3. QED
      BY <3>2, Zenon
  <2>2. PICK u \in Nat : len = u * SECTOR_SIZE
    BY <2>1
  <2>3. PICK t \in Nat : w = t * SECTOR_SIZE
    BY <1>5
  <2>4. PICK v \in Nat : c = v * SECTOR_SIZE
    <3>1. c = (c \div SECTOR_SIZE) * SECTOR_SIZE + (c % SECTOR_SIZE) /\ c \div SECTOR_SIZE \in Nat
      BY <1>4, Division
    <3>2. PICK v \in Nat : v = c \div SECTOR_SIZE
      BY <3>1
    <3>3. c = v * SECTOR_SIZE + 0
      BY <1>3, <3>1, <3>2, Zenon
    <3>4. QED
      BY <1>4, <3>3
  <2>5. (v + t) * SECTOR_SIZE = c + w /\ v + t \in Int /\ u \in Int
    BY <2>3, <2>4, Multiples
  <2>6. archive[m].size \in Nat /\ c + w < len + SECTOR_SIZE
    <3>1. archive[m].size \in Nat /\ untar.bytes_left \in Nat
      BY <1>4, EntriesAre DEF FdTypes
    <3>2. PICK x \in Nat : x = untar.bytes_left
      BY <3>1
    <3>3. c + x <= len /\ w < x + SECTOR_SIZE
      BY <1>3, <1>5, <2>1, <3>2
    <3>4. c \in Nat /\ w \in Nat /\ len \in Nat /\ SECTOR_SIZE \in Nat
      BY <1>4
    <3>5. QED
      BY <3>1, <3>3, <3>4
  <2>7. ~ (u < v + t)
    <3>1. u < v + t => u * SECTOR_SIZE + SECTOR_SIZE <= (v + t) * SECTOR_SIZE
      BY <2>5, Multiples
    <3>2. QED
      BY <1>4, <2>2, <2>5, <2>6, <3>1
  <2>8. c + w <= len
    <3>1. v + t <= u => (v + t) * SECTOR_SIZE <= u * SECTOR_SIZE
      BY <2>5, Multiples
    <3>2. QED
      BY <2>2, <2>5, <2>7, <3>1
  <2>9. PICK z \in Nat : z = Limit(Tar)
    BY Consts
  <2>10. q + SECTOR_SIZE + len + SECTOR_SIZE <= z
    BY <2>1, <2>9
  <2>11. q + SECTOR_SIZE + c + w <= z
    BY <1>4, <1>5, <2>8, <2>10
  <2>12. QED
    BY <2>9, <2>11
<1>7. do_rdwt("READ", "fd", w, NoBytes)
  BY <1>1, <1>5
<1>8. /\ Asks("READ", "fd", w, NoBytes)
      /\ UNCHANGED <<disk, i_size, fd_inode, fd_pos, archive>>
      /\ TarRead(fd_pos["fd"], w)' /\ Extracting(m, c)'
  BY <1>1, <1>3, <1>4, <1>6, <1>7, TarReadBegins
<1>9. m \in 1..(Len(archive) + 1)
  BY <1>4, EntriesAre
<1>10. Stands(m, q)'
  BY <1>3, <1>4, <1>8, <1>9, StandsKept
<1>11. TarRead(q + SECTOR_SIZE + c, w)'
  BY <1>3, <1>8 DEF TarRead
<1>12. WholeSectors' = w
  BY <1>1, <1>5 DEF WholeSectors, iobytes
<1>13. InsideFile(m, q, c)'
  BY <1>1, <1>3, <1>8, <1>10, <1>11, <1>12 DEF InsideFile
<1>14. QED
  BY <1>2, <1>5, <1>8, <1>13 DEF UntarFits, Limit, Room, Nr_sects, Tar

LEMMA MultipleOf ==
  ASSUME NEW c \in Nat
  PROVE  c % SECTOR_SIZE = 0 <=> \E v \in Nat : c = v * SECTOR_SIZE
<1>1. SECTOR_SIZE \in Nat /\ SECTOR_SIZE > 0
  BY Consts
<1>2. ASSUME c % SECTOR_SIZE = 0 PROVE \E v \in Nat : c = v * SECTOR_SIZE
  <2>1. c = (c \div SECTOR_SIZE) * SECTOR_SIZE + (c % SECTOR_SIZE) /\ c \div SECTOR_SIZE \in Nat
    BY Division
  <2>2. PICK v \in Nat : v = c \div SECTOR_SIZE
    BY <2>1
  <2>3. c = v * SECTOR_SIZE + 0
    BY <1>2, <2>1, <2>2, Zenon
  <2>4. QED
    BY <1>1, <2>3
<1>3. ASSUME NEW v \in Nat, c = v * SECTOR_SIZE PROVE c % SECTOR_SIZE = 0
  <2>1. c = v * SECTOR_SIZE + 0 /\ 0 \in 0..(SECTOR_SIZE - 1) /\ v \in Int
    BY <1>1, <1>3
  <2>2. 0 = c % SECTOR_SIZE
    BY <2>1, Division
  <2>3. QED
    BY <2>2
<1>4. QED
  BY <1>2, <1>3

LEMMA FileOpened ==
  ASSUME FdTypes, UntarFits, UntarOpen
  PROVE  UntarFits'
<1>1. /\ untar.pc = "got_header" /\ ~ InCall /\ buf[1] # 0
      /\ UNCHANGED <<disk, i_size, rw, archive>> /\ ~ InCall'
  BY DEF UntarOpen, InCall
<1>2. PICK m \in 0..Len(archive), q \in 0..Limit(Tar), c \in 0..Room : BetweenFiles(m, q, c)
  BY <1>1 DEF UntarFits, InsideFile
<1>3. c = SizeOf(m) /\ Extracting(m, c) /\ Stands(m + 1, q) /\ TarRead(q, SECTOR_SIZE)
  BY <1>1, <1>2 DEF BetweenFiles
<1>4. m \in Nat /\ Len(archive) \in Nat /\ q \in Nat /\ SECTOR_SIZE \in Nat /\ SECTOR_SIZE > 0
  BY EntriesAre, Consts
<1>5. fd_pos["fd"] = q + SECTOR_SIZE /\ buf[1] = disk[Addr(Tar, q)]
  <2>1. 1 \in 1..SECTOR_SIZE /\ q + 1 - 1 = q
    BY <1>4
  <2>2. fd_pos["fd"] = q + SECTOR_SIZE /\ buf[1] = disk[Addr(Tar, q + 1 - 1)]
    BY <1>1, <1>3, <2>1 DEF TarRead
  <2>3. QED
    BY <2>1, <2>2
<1>6. m # Len(archive)
  BY <1>1, <1>3, <1>4, <1>5, StandsEnd
<1>7. PICK n \in 1..Len(archive) : n = m + 1
  BY <1>4, <1>6
<1>8. PICK len \in Nat :
        /\ len < archive[n].size + SECTOR_SIZE /\ \E t \in Nat : len = t * SECTOR_SIZE
        /\ q + SECTOR_SIZE + len + SECTOR_SIZE <= Limit(Tar)
        /\ disk[Addr(Tar, q)] = n
        /\ Stands(n + 1, q + SECTOR_SIZE + len)
  BY <1>3, <1>4, <1>7, StandsNext
<1>9. PICK f \in File : f = archive[n].file /\ archive[n].size \in Nat
  BY EntriesAre
<1>10. /\ fd_inode' = [fd_inode EXCEPT !["fdout"] = f]
       /\ fd_pos' = [fd_pos EXCEPT !["fdout"] = 0]
       /\ untar' = [pc |-> IF archive[n].size = 0 THEN "header" ELSE "copy",
                    bytes_left |-> archive[n].size]
  BY <1>5, <1>8, <1>9 DEF UntarOpen, Then
<1>11. /\ fd_inode'["fdout"] = f /\ fd_pos'["fdout"] = 0
       /\ fd_pos'["fd"] = q + SECTOR_SIZE
  BY <1>5, <1>10, Consts DEF FdTypes
<1>12. \A g, k : Addr(g, k)' = Addr(g, k)
  BY DEF Addr, Start
<1>13. Extracting(n, 0)'
  <2>1. ASSUME NEW j \in 1..(n - 1) PROVE Done(j)'
    <3>1. CASE j \in 1..(m - 1)
      <4>1. Done(j)
        BY <1>3, <3>1 DEF Extracting
      <4>2. QED
        BY <1>1, <1>12, <4>1 DEF Done, Data
    <3>2. CASE j = m
      <4>1. m > 0 /\ m # 0
        BY <3>2
      <4>2. Copied(m, c) /\ c = archive[m].size
        BY <1>3, <4>1 DEF Extracting, SizeOf
      <4>3. Done(m)
        BY <1>1, <4>2 DEF Copied, Done
      <4>4. QED
        BY <1>1, <1>12, <3>2, <4>3 DEF Done, Data
    <3>3. QED
      BY <1>4, <1>7, <3>1, <3>2
  <2>2. \A j \in (n + 1)..Len(archive) : i_size[archive[j].file] = 0
    BY <1>3, <1>4, <1>7 DEF Extracting
  <2>3. i_size[f] = 0
    <3>1. n \in (m + 1)..Len(archive)
      BY <1>4, <1>7
    <3>2. QED
      BY <1>3, <1>9, <3>1 DEF Extracting
  <2>4. Copied(n, 0)'
    <3>1. \A k \in 0..(0 - 1) : FALSE
      OBVIOUS
    <3>2. QED
      BY <1>1, <1>9, <1>11, <2>3, <3>1 DEF Copied
  <2>5. \A j \in (n + 1)..Len(archive') : i_size'[archive'[j].file] = 0
    BY <1>1, <2>2
  <2>6. QED
    BY <1>7, <2>1, <2>4, <2>5 DEF Extracting
<1>14. NoTarRead'
  BY <1>1 DEF NoTarRead
<1>15. \A b \in 0..(Limit(Tar) - 1) : disk'[Addr(Tar, b)] = disk[Addr(Tar, b)]
  BY <1>1
<1>16. CASE archive[n].size = 0
  <2>1. len = 0
    <3>1. PICK t \in Nat : len = t * SECTOR_SIZE
      BY <1>8
    <3>2. 1 <= t => 1 * SECTOR_SIZE <= t * SECTOR_SIZE
      BY Multiples
    <3>3. 1 * SECTOR_SIZE = SECTOR_SIZE /\ 0 * SECTOR_SIZE = 0
      BY <1>4
    <3>4. len < SECTOR_SIZE
      BY <1>4, <1>8, <1>16
    <3>5. ~ (1 <= t)
      BY <1>4, <3>1, <3>2, <3>3, <3>4
    <3>6. t = 0
      BY <3>5
    <3>7. QED
      BY <3>1, <3>3, <3>6, Zenon
  <2>2. PICK p \in Nat : p = q + SECTOR_SIZE
    BY <1>4
  <2>3. Stands(n + 1, p) /\ n + 1 \in 1..(Len(archive) + 1) /\ p <= Limit(Tar)
    <3>1. q + SECTOR_SIZE + len = p
      BY <1>4, <2>1, <2>2
    <3>2. QED
      BY <1>4, <1>8, <3>1, Consts, SMTT(30)
  <2>4. Stands(n + 1, p)'
    BY <1>1, <1>15, <2>3, StandsKept
  <2>5. SizeOf(n)' = 0
    BY <1>1, <1>7, <1>4, <1>16 DEF SizeOf
  <2>6. BetweenFiles(n, p, 0)'
    BY <1>10, <1>11, <1>13, <1>14, <1>16, <2>2, <2>4, <2>5 DEF BetweenFiles
  <2>7. p \in 0..Limit(Tar) /\ 0 \in 0..Room /\ n \in 0..Len(archive)
    BY <2>3, Consts
  <2>8. QED
    BY <1>1, <2>6, <2>7 DEF UntarFits, Limit, Room, Nr_sects, Tar
<1>17. CASE archive[n].size # 0
  <2>1. 0 % SECTOR_SIZE = 0
    <3>1. 0 = 0 * SECTOR_SIZE
      BY <1>4
    <3>2. QED
      BY <3>1, MultipleOf
  <2>2. Stands(n, q)'
    <3>1. n \in 1..(Len(archive) + 1) /\ Stands(n, q)
      BY <1>3, <1>4, <1>7
    <3>2. QED
      BY <1>1, <1>4, <1>15, <3>1, StandsKept
  <2>3. q + SECTOR_SIZE + 0 = q + SECTOR_SIZE /\ 0 + archive[n].size = archive[n].size
        /\ archive[n].size > 0
    BY <1>4, <1>9, <1>17
  <2>4. InsideFile(n, q, 0)'
    BY <1>1, <1>10, <1>11, <1>13, <1>14, <1>17, <2>1, <2>2, <2>3 DEF InsideFile
  <2>5. 0 \in 0..Room /\ n \in 0..Len(archive) /\ n > 0
    BY Consts
  <2>6. QED
    BY <1>1, <2>4, <2>5 DEF UntarFits, Limit, Room, Nr_sects, Tar
<1>18. QED
  BY <1>16, <1>17

LEMMA BytesWritten ==
  ASSUME FdTypes, Behind, InRoom, UntarFits, UntarWrite
  PROVE  Asks("WRITE", "fdout", iobytes, buf) /\ UntarFits'
<1>1. /\ untar.pc = "copied" /\ do_rdwt("WRITE", "fdout", iobytes, buf)
      /\ untar' = [pc |-> IF untar.bytes_left = iobytes THEN "header" ELSE "copy",
                   bytes_left |-> untar.bytes_left - iobytes]
      /\ ~ InCall
  BY DEF UntarWrite, Then, do_rdwt, InCall
<1>2. PICK m \in 0..Len(archive), q \in 0..Limit(Tar), c \in 0..Room :
        m > 0 /\ InsideFile(m, q, c)
  BY <1>1 DEF UntarFits, BetweenFiles
<1>3. /\ untar.bytes_left > 0 /\ c + untar.bytes_left = archive[m].size
      /\ c % SECTOR_SIZE = 0 /\ Extracting(m, c) /\ Stands(m, q)
      /\ TarRead(q + SECTOR_SIZE + c, WholeSectors)
  BY <1>1, <1>2 DEF InsideFile
<1>4. m \in 1..Len(archive) /\ q \in Nat /\ SECTOR_SIZE \in Nat /\ SECTOR_SIZE > 0 /\ c \in Nat
      /\ Room \in Nat /\ untar.bytes_left \in Nat
  BY <1>2, EntriesAre, Consts DEF FdTypes
<1>5. PICK x \in Nat : x = untar.bytes_left /\ x > 0
  BY <1>3, <1>4
<1>6. PICK size \in Nat : size = archive[m].size /\ size <= Room /\ c + x = size
  BY <1>3, <1>4, <1>5, EntriesAre
<1>7. PICK io \in Nat : io = iobytes /\ io > 0 /\ io <= x /\ (io < x => io = UntarSects * SECTOR_SIZE)
  <2>1. UntarSects * SECTOR_SIZE \in Nat /\ UntarSects * SECTOR_SIZE > 0
    BY Consts
  <2>2. QED
    BY <1>5, <2>1 DEF iobytes, Least
<1>8. PICK w \in Nat : w = WholeSectors /\ io <= w /\ w < io + SECTOR_SIZE
                       /\ \E t \in Nat : w = t * SECTOR_SIZE
  BY <1>7, WholeSectorsIs
<1>9. PICK len \in Nat :
        /\ size <= len /\ len < size + SECTOR_SIZE
        /\ \E t \in Nat : len = t * SECTOR_SIZE
        /\ q + SECTOR_SIZE + len + SECTOR_SIZE <= Limit(Tar)
        /\ \A k \in 0..(size - 1) :
             disk[Addr(Tar, q + SECTOR_SIZE + k)] = Data(archive[m].file, k)
        /\ Stands(m + 1, q + SECTOR_SIZE + len)
  <2>1. Stands(m, q)
    BY <1>3
  <2>2. PICK len \in Nat :
          /\ archive[m].size <= len /\ len < archive[m].size + SECTOR_SIZE
          /\ \E t \in Nat : len = t * SECTOR_SIZE
          /\ q + SECTOR_SIZE + len + SECTOR_SIZE <= Limit(Tar)
          /\ \A k \in 0..(archive[m].size - 1) :
               disk[Addr(Tar, q + SECTOR_SIZE + k)] = Data(archive[m].file, k)
          /\ Stands(m + 1, q + SECTOR_SIZE + len)
    BY <1>4, <2>1, StandsNext
  <2>3. archive[m].size = size
    BY <1>6
  <2>4. WITNESS len \in Nat
  <2>5. QED
    BY <2>2, <2>3, Zenon
<1>10. PICK f \in File : f = archive[m].file
  BY <1>4, EntriesAre
<1>11. /\ fd_inode["fdout"] = f /\ fd_pos["fdout"] = c /\ i_size[f] = c
       /\ \A k \in 0..(c - 1) : disk[Addr(f, k)] = Data(f, k)
  BY <1>1, <1>3, <1>4, <1>10 DEF Extracting, Copied
<1>12. /\ fd_pos["fd"] = q + SECTOR_SIZE + c + w /\ Len(buf) = w
       /\ \A n \in 1..w : buf[n] = disk[Addr(Tar, q + SECTOR_SIZE + c + n - 1)]
  BY <1>1, <1>3, <1>8 DEF TarRead
<1>13. Asks("WRITE", "fdout", io, buf)
  <2>1. \A g \in File : ~ Overrun(g)
    BY <1>1 DEF InRoom
  <2>2. f # Tar /\ Limit(f) = Room /\ "fdout" \in Entry
    BY Consts
  <2>3. c + io <= Room /\ io <= Room
    BY <1>4, <1>6, <1>7
  <2>4. buf \in Seq(Nat)
    BY DEF FdTypes
  <2>5. QED
    BY <1>8, <1>11, <1>12, <2>1, <2>2, <2>3, <2>4 DEF Asks
<1>14. do_rdwt("WRITE", "fdout", io, buf)
  BY <1>1, <1>7
<1>15. /\ InCall' /\ UNCHANGED <<disk, i_size, fd_inode, fd_pos, archive>> /\ buf' = buf
       /\ rw'.op = "WRITE" /\ rw'.fd = "fdout" /\ rw'.from = c
       /\ rw'.bytes_rw = 0 /\ rw'.bytes_left = io
  BY <1>11, <1>13, <1>14, CallBegins
<1>16. PICK d \in Nat : d = c + io
  BY <1>4
<1>17. End' = d
  <2>1. End' = rw'.from + rw'.bytes_rw + rw'.bytes_left
    BY DEF End
  <2>2. QED
    BY <1>4, <1>15, <1>16, <2>1
<1>18. ASSUME NEW k \in c..(d - 1) PROVE buf[k - c + 1] = Data(f, k)
  <2>1. PICK n \in 1..w : n = k - c + 1
    BY <1>4, <1>8, <1>16
  <2>2. q + SECTOR_SIZE + c + n - 1 = q + SECTOR_SIZE + k
    BY <1>4, <2>1
  <2>3. k \in 0..(size - 1)
    BY <1>4, <1>6, <1>7, <1>16
  <2>4. QED
    BY <1>9, <1>10, <1>12, <2>1, <2>2, <2>3
<1>19. \A g, k : Addr(g, k)' = Addr(g, k)
  BY DEF Addr, Start
<1>20. Extracting(m, d)'
  <2>1. ASSUME NEW j \in 1..(m - 1) PROVE Done(j)'
    <3>1. Done(j)
      BY <1>3 DEF Extracting
    <3>2. QED
      BY <1>15, <1>19, <3>1 DEF Done, Data
  <2>2. \A j \in (m + 1)..Len(archive') : i_size'[archive'[j].file] = 0
    BY <1>3, <1>15 DEF Extracting
  <2>3. \A k \in rw'.from..(d - 1) : buf'[k - rw'.from + 1] = Data(f, k)
    BY <1>15, <1>18
  <2>4. i_size[f] <= fd_pos["fdout"]
    BY <1>4, <1>11
  <2>5. Copied(m, d)'
    BY <1>10, <1>11, <1>15, <1>17, <1>19, <2>3, <2>4 DEF Copied, Data
  <2>6. QED
    BY <1>4, <2>1, <2>2, <2>5 DEF Extracting
<1>21. NoTarRead'
  BY <1>15, Consts DEF NoTarRead
<1>22. \A b \in 0..(Limit(Tar) - 1) : disk'[Addr(Tar, b)] = disk[Addr(Tar, b)]
  BY <1>15
<1>23. PICK t \in Nat, u \in Nat, v \in Nat :
         w = t * SECTOR_SIZE /\ len = u * SECTOR_SIZE /\ c = v * SECTOR_SIZE
  <2>1. \E v \in Nat : c = v * SECTOR_SIZE
    BY <1>3, <1>4, MultipleOf
  <2>2. QED
    BY <1>8, <1>9, <2>1, Zenon
<1>24. (v + t) * SECTOR_SIZE = c + w /\ v + t \in Int /\ u \in Int /\ t \in Int
  BY <1>23, Multiples
<1>25. CASE x = io
  <2>1. c + w = len
    <3>1. /\ size <= (v + t) * SECTOR_SIZE /\ (v + t) * SECTOR_SIZE < size + SECTOR_SIZE
      <4>1. size <= c + w /\ c + w < size + SECTOR_SIZE
        BY <1>4, <1>6, <1>8, <1>25
      <4>2. QED
        BY <1>24, <4>1
    <3>2. size <= u * SECTOR_SIZE /\ u * SECTOR_SIZE < size + SECTOR_SIZE
      BY <1>9, <1>23
    <3>3. v + t = u
      BY <1>24, <3>1, <3>2, SameMultiple
    <3>4. QED
      BY <1>23, <1>24, <3>3, Zenon
  <2>2. PICK p \in Nat : p = q + SECTOR_SIZE + len
    BY <1>4
  <2>3. fd_pos["fd"] = p
    BY <1>4, <1>12, <2>1, <2>2
  <2>4. m + 1 \in 1..(Len(archive) + 1) /\ Stands(m + 1, p) /\ p <= Limit(Tar)
    <3>1. p <= Limit(Tar)
      BY <1>4, <1>9, <2>2, Consts
    <3>2. QED
      BY <1>4, <1>9, <2>2, <3>1, EntriesAre
  <2>5. Stands(m + 1, p)'
    BY <1>15, <1>22, <2>4, StandsKept
  <2>6. SizeOf(m)' = d
    BY <1>4, <1>6, <1>15, <1>16, <1>25 DEF SizeOf
  <2>7. untar'.pc = "header"
    BY <1>1, <1>5, <1>7, <1>25
  <2>8. BetweenFiles(m, p, d)'
    BY <1>15, <1>20, <1>21, <2>3, <2>5, <2>6, <2>7 DEF BetweenFiles
  <2>9. p \in 0..Limit(Tar) /\ d \in 0..Room
    BY <1>4, <1>6, <1>16, <1>25, <2>4, Consts
  <2>10. UntarFits'
    BY <1>15, <2>8, <2>9 DEF UntarFits, Limit, Room, Nr_sects, Tar
  <2>11. QED
    BY <1>7, <1>13, <2>10
<1>26. CASE x # io
  <2>1. io < x
    BY <1>7, <1>26
  <2>2. w = io
    <3>1. io = UntarSects * SECTOR_SIZE /\ UntarSects \in Int
      BY <1>7, <2>1, Consts
    <3>2. io <= UntarSects * SECTOR_SIZE /\ UntarSects * SECTOR_SIZE < io + SECTOR_SIZE
      BY <1>4, <3>1
    <3>3. io <= t * SECTOR_SIZE /\ t * SECTOR_SIZE < io + SECTOR_SIZE
      BY <1>8, <1>23
    <3>4. t = UntarSects
      BY <1>24, <3>1, <3>2, <3>3, SameMultiple
    <3>5. QED
      BY <1>23, <3>1, <3>4, Zenon
  <2>3. d % SECTOR_SIZE = 0
    <3>1. v + t \in Nat /\ d = (v + t) * SECTOR_SIZE
      BY <1>16, <1>24, <2>2
    <3>2. QED
      BY <3>1, MultipleOf
  <2>4. untar' = [pc |-> "copy", bytes_left |-> x - io]
    BY <1>1, <1>5, <1>7, <1>26
  <2>5. fd_pos["fd"] = q + SECTOR_SIZE + d
    BY <1>4, <1>12, <1>16, <2>2
  <2>6. Stands(m, q)'
    <3>1. m \in 1..(Len(archive) + 1)
      BY <1>4, EntriesAre
    <3>2. QED
      BY <1>3, <1>4, <1>15, <1>22, <3>1, StandsKept
  <2>7. x - io > 0 /\ d + (x - io) = size /\ d <= Room
    BY <1>4, <1>6, <1>16, <2>1
  <2>8. InsideFile(m, q, d)'
    BY <1>6, <1>15, <1>20, <1>21, <2>3, <2>4, <2>5, <2>6, <2>7 DEF InsideFile
  <2>9. UntarFits'
    BY <1>2, <1>15, <2>7, <2>8 DEF UntarFits, Limit, Room, Nr_sects, Tar
  <2>10. QED
    BY <1>7, <1>13, <2>9
<1>27. QED
  BY <1>25, <1>26

-----------------------------------------------------------------------------
(***************************************************************************)
(* The steps that are no call of do_rdwt, the initial states, and the      *)
(* invariant.                                                              *)
(***************************************************************************)
LEMMA QuietStep ==
  ASSUME FdTypes, Behind, Covered, InRoom, WrittenKept, ~ InCall,
         \A f \in File : ~ Overrun(f),
         UNCHANGED <<disk, i_size, rw, archive, written>>, FdTypes',
         \A d \in Entry : fd_pos'[d] <= i_size[fd_inode'[d]]
  PROVE  FdTypes' /\ CallFits' /\ ReadSoFar' /\ Behind' /\ Covered' /\ InRoom' /\ WrittenKept'
<1>1. ~ InCall'
  BY DEF InCall
<1>2. CallFits' /\ ReadSoFar'
  BY <1>1 DEF CallFits, ReadSoFar
<1>3. Behind'
  BY DEF Behind
<1>4. \A f \in File : \A k \in DOMAIN written[f] : written[f][k] # Never => k < i_size[f]
  BY DEF Covered
<1>5. Covered'
  BY <1>4 DEF Covered, Never
<1>6. \A f : Limit(f)' = Limit(f)
  BY DEF Limit, Nr_sects, Tar
<1>7. InRoom'
  <2>1. i_size'[Tar] = Limit(Tar) /\ Tar' = Tar
    BY DEF InRoom, Tar
  <2>2. \A f \in File : ~ Overrun(f)'
    BY <1>6 DEF Overrun
  <2>3. QED
    BY <1>6, <2>1, <2>2 DEF InRoom
<1>8. \A f \in File : \A k : ~ Hit(f, k)
  <2>1. ASSUME NEW g \in File, NEW d \in Entry, fd_inode[d] = g, fd_pos[d] > Limit(g)
        PROVE  FALSE
    <3>1. fd_pos[d] <= i_size[g] /\ i_size[g] <= Limit(g)
      <4>1. i_size[g] \in Nat /\ Limit(g) \in Nat
        BY Consts DEF FdTypes
      <4>2. ~ (i_size[g] > Limit(g))
        BY DEF Overrun
      <4>3. QED
        BY <2>1, <4>1, <4>2 DEF Behind
    <3>2. fd_pos[d] \in Nat /\ i_size[g] \in Nat /\ Limit(g) \in Nat
      BY Consts DEF FdTypes
    <3>3. QED
      BY <2>1, <3>1, <3>2
  <2>2. QED
    BY <2>1 DEF Hit
<1>9. \A f \in File : \A k \in DOMAIN written[f] :
        (written[f][k] # Never /\ k < Limit(f)) => disk[Addr(f, k)] = written[f][k]
  BY <1>8 DEF WrittenKept
<1>10. \A f, k : Addr(f, k)' = Addr(f, k)
  BY DEF Addr, Start
<1>11. WrittenKept'
  BY <1>6, <1>9, <1>10 DEF WrittenKept, Never
<1>12. QED
  BY <1>2, <1>3, <1>5, <1>7, <1>11

LEMMA OpenKeeps ==
  ASSUME FdTypes, Behind, Covered, InRoom, WrittenKept, UntarFits, UntarOpen
  PROVE  FdInv'
<1>1. /\ untar.pc = "got_header" /\ ~ InCall /\ buf[1] # 0
      /\ UNCHANGED <<disk, i_size, rw, archive, written>>
      /\ fd_inode' = [fd_inode EXCEPT !["fdout"] = archive[buf[1]].file]
      /\ fd_pos' = [fd_pos EXCEPT !["fdout"] = 0] /\ buf' = NoBytes
      /\ untar' = [pc |-> IF archive[buf[1]].size = 0 THEN "header" ELSE "copy",
                   bytes_left |-> archive[buf[1]].size]
  BY DEF UntarOpen, InCall, Then
<1>2. UntarFits'
  BY FileOpened
<1>3. buf[1] \in 1..Len(archive)
  <2>1. PICK m \in 0..Len(archive), q \in 0..Limit(Tar), c \in 0..Room : BetweenFiles(m, q, c)
    BY <1>1 DEF UntarFits, InsideFile
  <2>2. Stands(m + 1, q) /\ TarRead(q, SECTOR_SIZE)
    BY <1>1, <2>1 DEF BetweenFiles
  <2>3. q \in Nat /\ m \in Nat /\ Len(archive) \in Nat /\ 1 \in 1..SECTOR_SIZE /\ q + 1 - 1 = q
    BY EntriesAre, Consts
  <2>4. buf[1] = disk[Addr(Tar, q + 1 - 1)]
    BY <1>1, <2>2, <2>3 DEF TarRead
  <2>5. m # Len(archive)
    BY <1>1, <2>2, <2>3, <2>4, StandsEnd
  <2>6. m + 1 \in 1..Len(archive)
    BY <2>3, <2>5
  <2>7. disk[Addr(Tar, q)] = m + 1
    BY <2>2, <2>3, <2>6, StandsNext
  <2>8. QED
    BY <2>3, <2>4, <2>6, <2>7
<1>4. PICK f \in File, s \in Nat : f = archive[buf[1]].file /\ s = archive[buf[1]].size
  BY <1>3, EntriesAre
<1>5. fd_inode' \in [Entry -> Extracted] /\ fd_inode'["fd"] = Tar /\ fd_pos' \in [Entry -> Nat]
  BY <1>1, <1>4, Consts DEF FdTypes
<1>6. untar' \in [pc : UntarPcs, bytes_left : Nat]
  BY <1>1, <1>4 DEF UntarPcs
<1>7. buf' \in Seq(Nat)
  BY <1>1, EmptySeq DEF NoBytes
<1>8. FdTypes'
  BY <1>1, <1>5, <1>6, <1>7 DEF FdTypes, Calls, NoCall, Tar, Disk, Extracted, File, Limit, Nr_sects,
                                Start, Entry, UntarPcs, Room, Never
<1>9. \A d \in Entry : fd_pos'[d] <= i_size[fd_inode'[d]]
  <2>1. ASSUME NEW d \in Entry PROVE fd_pos'[d] <= i_size[fd_inode'[d]]
    <3>1. CASE d = "fdout"
      <4>1. fd_pos'[d] = 0 /\ i_size[fd_inode'[d]] \in Nat
        BY <1>1, <1>5, <3>1 DEF FdTypes
      <4>2. QED
        BY <4>1
    <3>2. CASE d # "fdout"
      <4>1. fd_pos'[d] = fd_pos[d] /\ fd_inode'[d] = fd_inode[d]
        BY <1>1, <3>2 DEF FdTypes
      <4>2. QED
        BY <1>1, <4>1 DEF Behind
    <3>3. QED
      BY <3>1, <3>2
  <2>2. QED
    BY <2>1
<1>10. \A g \in File : ~ Overrun(g)
  BY <1>1 DEF InRoom
<1>11. FdTypes' /\ CallFits' /\ ReadSoFar' /\ Behind' /\ Covered' /\ InRoom' /\ WrittenKept'
  BY <1>1, <1>8, <1>9, <1>10, QuietStep
<1>12. QED
  BY <1>2, <1>11 DEF FdInv

LEMMA DoneKeeps ==
  ASSUME FdTypes, Behind, Covered, InRoom, WrittenKept, UntarDone
  PROVE  FdInv'
<1>1. /\ untar.pc = "got_header" /\ ~ InCall
      /\ UNCHANGED <<disk, i_size, fd_inode, fd_pos, rw, archive, written>>
      /\ buf' = NoBytes /\ untar' = [pc |-> "done", bytes_left |-> 0]
  BY DEF UntarDone, InCall, Then
<1>2. UntarFits'
  BY <1>1 DEF UntarFits
<1>3. buf' \in Seq(Nat) /\ untar' \in [pc : UntarPcs, bytes_left : Nat]
  BY <1>1, EmptySeq DEF NoBytes, UntarPcs
<1>4. FdTypes'
  BY <1>1, <1>3 DEF FdTypes, Calls, NoCall, Tar, Disk, Extracted, File, Limit, Nr_sects,
                    Start, Entry, UntarPcs, Room, Never
<1>5. \A d \in Entry : fd_pos'[d] <= i_size[fd_inode'[d]]
  BY <1>1 DEF Behind
<1>6. \A g \in File : ~ Overrun(g)
  BY <1>1 DEF InRoom
<1>7. FdTypes' /\ CallFits' /\ ReadSoFar' /\ Behind' /\ Covered' /\ InRoom' /\ WrittenKept'
  BY <1>1, <1>4, <1>5, <1>6, QuietStep
<1>8. QED
  BY <1>2, <1>7 DEF FdInv

(* do_open and do_lseek: descriptor d goes to byte p of file f.            *)
LEMMA DescriptorMoves ==
  ASSUME FdTypes, Behind, Covered, InRoom, WrittenKept, MayCall,
         UNCHANGED <<disk, i_size, rw, buf, untar, archive, written>>,
         NEW d \in Desc, NEW f \in Extracted, NEW p \in Nat, p <= i_size[f],
         fd_inode' = [fd_inode EXCEPT ![d] = f], fd_pos' = [fd_pos EXCEPT ![d] = p]
  PROVE  FdInv'
<1>1. untar.pc = "done" /\ ~ InCall /\ \A g \in File : ~ Overrun(g)
  BY DEF MayCall, InCall
<1>2. UntarFits'
  BY <1>1 DEF UntarFits
<1>3. fd_inode' \in [Entry -> Extracted] /\ fd_inode'["fd"] = Tar /\ fd_pos' \in [Entry -> Nat]
  BY Consts DEF FdTypes
<1>4. FdTypes'
  BY <1>3 DEF FdTypes, Calls, NoCall, Tar, Disk, Extracted, File, Limit, Nr_sects,
              Start, Entry, UntarPcs, Room, Never
<1>5. ASSUME NEW e \in Entry PROVE fd_pos'[e] <= i_size[fd_inode'[e]]
  <2>1. CASE e = d
    BY <2>1 DEF FdTypes
  <2>2. CASE e # d
    <3>1. fd_pos'[e] = fd_pos[e] /\ fd_inode'[e] = fd_inode[e]
      BY <2>2 DEF FdTypes
    <3>2. QED
      BY <1>1, <3>1 DEF Behind
  <2>3. QED
    BY <2>1, <2>2
<1>6. FdTypes' /\ CallFits' /\ ReadSoFar' /\ Behind' /\ Covered' /\ InRoom' /\ WrittenKept'
  BY <1>1, <1>4, <1>5, QuietStep
<1>7. QED
  BY <1>2, <1>6 DEF FdInv

(* A program's read or write.                                              *)
LEMMA ProgramCalls ==
  ASSUME FdTypes, Behind, Covered, InRoom, WrittenKept, MayCall, UNCHANGED untar,
         NEW op \in {"READ", "WRITE"}, NEW d \in Desc, fd_inode[d] # Tar,
         NEW len \in Lens, NEW bytes \in Seq(Nat), op = "READ" => bytes = NoBytes,
         op = "WRITE" => Len(bytes) >= len,
         do_rdwt(op, d, len, bytes)
  PROVE  FdInv'
<1>1. untar.pc = "done" /\ \A g \in File : ~ Overrun(g)
  BY DEF MayCall
<1>2. d \in Entry /\ fd_inode[d] \in File
  BY Consts DEF FdTypes
<1>3. len \in Nat /\ len <= Room
  BY FileDataAssumption, FileDataSizes DEF Room
<1>4. Asks(op, d, len, bytes)
  BY <1>1, <1>2, <1>3 DEF Asks
<1>5. untar' \in [pc : UntarPcs, bytes_left : Nat]
  BY DEF FdTypes
<1>6. FdTypes' /\ CallFits' /\ ReadSoFar' /\ Behind' /\ Covered' /\ InRoom' /\ WrittenKept'
  BY <1>4, <1>5, BeginKeeps
<1>7. UntarFits'
  BY <1>1 DEF UntarFits
<1>8. QED
  BY <1>6, <1>7 DEF FdInv

LEMMA ProgramStep ==
  ASSUME FdInv, NEW d \in Desc,
         \/ \E f \in File : do_open(d, f)
         \/ \E len \in Lens : Read(d, len) \/ \E b \in Written : Write(d, len, b)
         \/ do_lseek(d)
  PROVE  FdInv'
<1> USE DEF FdInv
<1>1. CASE \E f \in File : do_open(d, f)
  <2>1. PICK f \in File : do_open(d, f)
    BY <1>1
  <2>2. f \in Extracted /\ 0 \in Nat /\ 0 <= i_size[f]
    BY Consts DEF FdTypes
  <2>3. QED
    BY <2>1, <2>2, DescriptorMoves DEF do_open
<1>2. CASE do_lseek(d)
  <2>1. PICK pos \in Seeks(d) : fd_pos' = [fd_pos EXCEPT ![d] = pos]
    BY <1>2 DEF do_lseek
  <2>2. d \in Entry /\ fd_inode[d] \in Extracted /\ i_size[fd_inode[d]] \in Nat
    BY Consts DEF FdTypes
  <2>3. pos \in Nat /\ pos <= i_size[fd_inode[d]]
    BY <2>2 DEF Seeks
  <2>4. fd_inode' = [fd_inode EXCEPT ![d] = fd_inode[d]]
    BY <1>2 DEF do_lseek, FdTypes
  <2>5. MayCall /\ UNCHANGED <<disk, i_size, rw, buf, untar, archive, written>>
    BY <1>2 DEF do_lseek
  <2>6. QED
    BY <2>1, <2>2, <2>3, <2>4, <2>5, DescriptorMoves
<1>3. ASSUME NEW len \in Lens, Read(d, len) PROVE FdInv'
  <2>1. NoBytes \in Seq(Nat)
    BY EmptySeq DEF NoBytes
  <2>2. /\ MayCall /\ fd_inode[d] # Tar /\ do_rdwt("READ", d, len, NoBytes) /\ UNCHANGED untar
    BY <1>3 DEF Read
  <2>3. QED
    BY <2>1, <2>2, ProgramCalls
<1>4. ASSUME NEW len \in Lens, NEW b \in Written, Write(d, len, b) PROVE FdInv'
  <2>1. len \in Nat /\ b \in Nat
    BY FileDataAssumption
  <2>2. PICK bytes \in Seq(Nat) : bytes = [n \in 1..len |-> b] /\ Len(bytes) = len
    <3>1. PICK k \in Nat, x \in Nat : k = len /\ x = b
      BY <2>1
    <3>2. [n \in 1..k |-> x] \in Seq(Nat) /\ Len([n \in 1..k |-> x]) = k
      OBVIOUS
    <3>3. QED
      BY <3>1, <3>2
  <2>3. /\ MayCall /\ fd_inode[d] # Tar /\ do_rdwt("WRITE", d, len, bytes) /\ UNCHANGED untar
    BY <1>4, <2>2 DEF Write
  <2>4. Len(bytes) >= len
    BY <2>1, <2>2
  <2>5. QED
    BY <2>3, <2>4, ProgramCalls
<1>5. QED
  BY <1>1, <1>2, <1>3, <1>4

LEMMA StutterKeeps ==
  ASSUME FdInv, UNCHANGED fdVars
  PROVE  FdInv'
<1>1. UNCHANGED <<disk, i_size, fd_inode, fd_pos, rw, buf, untar, archive, written>>
  BY DEF fdVars
<1>2. FdTypes'
  BY <1>1 DEF FdInv, FdTypes, Calls, NoCall, Tar, Disk, Extracted, File, Limit, Nr_sects,
              Start, Entry, UntarPcs, Room, Never
<1>3. CallFits' /\ ReadSoFar'
  BY <1>1 DEF FdInv, CallFits, ReadSoFar, InCall, InFile, At, End, Addr, Start, Limit, Nr_sects,
              Tar, File, Room, NoCall
<1>4. Behind' /\ Covered' /\ InRoom'
  BY <1>1 DEF FdInv, Behind, Covered, InRoom, InCall, InFile, At, Limit, Nr_sects, Tar, File,
              Overrun, NoCall, Never, Entry
<1>5. WrittenKept'
  BY <1>1 DEF FdInv, WrittenKept, Hit, Addr, Start, Limit, Nr_sects, Tar, File, Never, Entry
<1>6. UntarFits'
  <2>1. CASE untar.pc = "done"
    BY <1>1, <2>1 DEF UntarFits
  <2>2. CASE untar.pc # "done"
    <3>1. PICK m \in 0..Len(archive), q \in 0..Limit(Tar), c \in 0..Room :
            BetweenFiles(m, q, c) \/ (m > 0 /\ InsideFile(m, q, c))
      BY <2>2 DEF FdInv, UntarFits
    <3>2. FdTypes /\ q \in Nat /\ m \in Nat /\ Len(archive) \in Nat
      BY EntriesAre, Consts DEF FdInv
    <3>3. \A n \in 1..(Len(archive) + 1) : Stands(n, q) => Stands(n, q)'
      BY <1>1, <3>2, StandsKept
    <3>4. Extracting(m, c) => Extracting(m, c)'
      BY <1>1 DEF Extracting, Done, Copied, NoFileWrite, InCall, End, Addr, Start, Data, NoCall
    <3>5. \A x, len : TarRead(x, len) => TarRead(x, len)'
      BY <1>1 DEF TarRead, InCall, End, Addr, Start, Tar, NoCall
    <3>6. NoTarRead => NoTarRead'
      BY <1>1 DEF NoTarRead, InCall, NoCall
    <3>7. m + 1 \in 1..(Len(archive) + 1) /\ (m > 0 => m \in 1..(Len(archive) + 1))
      BY <3>2
    <3>8. BetweenFiles(m, q, c) => BetweenFiles(m, q, c)'
      <4>1. SizeOf(m)' = SizeOf(m)
        BY <1>1 DEF SizeOf
      <4>2. QED
        BY <1>1, <3>3, <3>4, <3>5, <3>6, <3>7, <4>1 DEF BetweenFiles
    <3>9. m > 0 /\ InsideFile(m, q, c) => InsideFile(m, q, c)'
      <4>1. PICK w : w = WholeSectors /\ w = WholeSectors'
        BY <1>1 DEF WholeSectors, iobytes
      <4>2. TarRead(q + SECTOR_SIZE + c, w) => TarRead(q + SECTOR_SIZE + c, w)'
        BY <3>5
      <4>3. QED
        BY <1>1, <3>3, <3>4, <3>6, <3>7, <4>1, <4>2 DEF InsideFile
    <3>10. QED
      BY <1>1, <3>1, <3>8, <3>9 DEF UntarFits, Limit, Room, Nr_sects, Tar
  <2>3. QED
    BY <2>1, <2>2
<1>7. QED
  BY <1>2, <1>3, <1>4, <1>5, <1>6 DEF FdInv

LEMMA StepKeeps ==
  ASSUME FdInv, [FileDataNext]_fdVars
  PROVE  FdInv'
<1>1. CASE RdwtTurn
  <2>1. FdTypes /\ CallFits /\ ReadSoFar /\ Behind /\ Covered /\ InRoom /\ WrittenKept /\ UntarFits
    BY DEF FdInv
  <2>2. FdTypes' /\ CallFits' /\ ReadSoFar'
    BY <1>1, <2>1, TurnTypes, TurnFits, TurnReadSoFar
  <2>3. Behind' /\ Covered' /\ InRoom'
    BY <1>1, <2>1, TurnSizes
  <2>4. WrittenKept' /\ UntarFits'
    BY <1>1, <2>1, TurnKeeps, TurnUntar
  <2>5. QED
    BY <2>2, <2>3, <2>4 DEF FdInv
<1>2. CASE RdwtReturn
  BY <1>2, ReturnKeeps, ReturnUntar DEF FdInv
<1>3. CASE UntarReadHeader
  <2>1. Asks("READ", "fd", SECTOR_SIZE, NoBytes) /\ UntarFits'
    BY <1>3, HeaderRead DEF FdInv
  <2>2. untar' \in [pc : UntarPcs, bytes_left : Nat] /\ do_rdwt("READ", "fd", SECTOR_SIZE, NoBytes)
    BY <1>3 DEF UntarReadHeader, Then, UntarPcs
  <2>3. FdTypes' /\ CallFits' /\ ReadSoFar' /\ Behind' /\ Covered' /\ InRoom' /\ WrittenKept'
    BY <2>1, <2>2, BeginKeeps DEF FdInv
  <2>4. QED
    BY <2>1, <2>3 DEF FdInv
<1>4. CASE UntarOpen
  BY <1>4, OpenKeeps DEF FdInv
<1>5. CASE UntarRead
  <2>1. Asks("READ", "fd", WholeSectors, NoBytes) /\ UntarFits'
    BY <1>5, SectorsRead DEF FdInv
  <2>2. PICK w : w = WholeSectors
    OBVIOUS
  <2>3. untar' \in [pc : UntarPcs, bytes_left : Nat] /\ do_rdwt("READ", "fd", w, NoBytes)
        /\ Asks("READ", "fd", w, NoBytes)
    BY <1>5, <2>1, <2>2 DEF UntarRead, Then, UntarPcs, FdInv, FdTypes
  <2>4. FdTypes' /\ CallFits' /\ ReadSoFar' /\ Behind' /\ Covered' /\ InRoom' /\ WrittenKept'
    BY <2>3, BeginKeeps DEF FdInv
  <2>5. QED
    BY <2>1, <2>4 DEF FdInv
<1>6. CASE UntarWrite
  <2>1. Asks("WRITE", "fdout", iobytes, buf) /\ UntarFits'
    BY <1>6, BytesWritten DEF FdInv
  <2>2. PICK io, bytes : io = iobytes /\ bytes = buf
    OBVIOUS
  <2>3. Asks("WRITE", "fdout", io, bytes) /\ do_rdwt("WRITE", "fdout", io, bytes)
    BY <1>6, <2>1, <2>2 DEF UntarWrite
  <2>4. untar' \in [pc : UntarPcs, bytes_left : Nat]
    <3>1. untar.bytes_left \in Nat /\ UntarSects * SECTOR_SIZE \in Nat
      BY Consts DEF FdInv, FdTypes
    <3>2. untar.bytes_left - iobytes \in Nat
      BY <3>1 DEF iobytes, Least
    <3>3. QED
      BY <1>6, <3>2 DEF UntarWrite, Then, UntarPcs
  <2>5. FdTypes' /\ CallFits' /\ ReadSoFar' /\ Behind' /\ Covered' /\ InRoom' /\ WrittenKept'
    BY <2>3, <2>4, BeginKeeps DEF FdInv
  <2>6. QED
    BY <2>1, <2>5 DEF FdInv
<1>7. CASE UntarDone
  BY <1>7, DoneKeeps DEF FdInv
<1>8. CASE \E d \in Desc :
             \/ \E f \in File : do_open(d, f)
             \/ \E len \in Lens : Read(d, len) \/ \E b \in Written : Write(d, len, b)
             \/ do_lseek(d)
  BY <1>8, ProgramStep
<1>9. CASE UNCHANGED fdVars
  BY <1>9, StutterKeeps
<1>10. QED
  BY <1>1, <1>2, <1>3, <1>4, <1>5, <1>6, <1>7, <1>8, <1>9 DEF FileDataNext

(* Image is the rest of the archive from its first entry on.               *)
LEMMA InitStands ==
  ASSUME FileDataInit
  PROVE  disk \in [Disk -> Nat] /\ Stands(1, 0)
<1>1. archive \in Archives /\ Len(archive) \in Nat
  BY FileDataAssumption DEF FileDataInit
<1>2. Image(archive) = Suffix(archive)[1]
  BY Zenon DEF Image, Suffix
<1>3. PICK r \in Seq(Nat) : r = Image(archive)
  <2>1. 1 \in 1..(Len(archive) + 1)
    BY <1>1
  <2>2. QED
    BY <1>1, <1>2, <2>1, SuffixTypes
<1>4. PICK z \in Nat : z = Len(r)
  OBVIOUS
<1>5. z + SECTOR_SIZE <= Limit(Tar)
  BY <1>1, <1>3, <1>4, FileDataSizes
<1>6. PICK y \in Nat : y = Tar * Room
  BY Addresses, Consts
<1>7. Disk = 0..(y + Limit(Tar) - 1) /\ \A p : Addr(Tar, p) = y + p
  BY <1>6, Addresses, Consts
<1>8. disk = [b \in Disk |-> IF b < y + 0 THEN 0 ELSE IF b - (y + 0) < z THEN r[b - (y + 0) + 1] ELSE 0]
  BY <1>3, <1>4, <1>7 DEF FileDataInit
<1>9. ASSUME NEW b \in Disk PROVE disk[b] \in Nat
  <2>1. CASE b >= y /\ b - y < z
    <3>1. b - (y + 0) + 1 \in 1..Len(r)
      BY <1>4, <1>7, <2>1
    <3>2. r[b - (y + 0) + 1] \in Nat
      BY <3>1
    <3>3. QED
      BY <1>7, <1>8, <2>1, <3>2
  <2>2. CASE ~ (b >= y /\ b - y < z)
    BY <1>7, <1>8, <2>2
  <2>3. QED
    BY <2>1, <2>2
<1>10. disk \in [Disk -> Nat]
  BY <1>8, <1>9
<1>11. ASSUME NEW b \in 1..z PROVE disk[Addr(Tar, 0 + b - 1)] = r[b]
  <2>1. PICK x \in Nat : x = y + (0 + b - 1) /\ x \in Disk /\ x >= y /\ x - (y + 0) + 1 = b
    BY <1>5, <1>7, Consts
  <2>2. disk[x] = r[x - (y + 0) + 1]
    BY <1>8, <2>1
  <2>3. QED
    BY <1>7, <2>1, <2>2
<1>12. ASSUME NEW b \in (0 + z)..(Limit(Tar) - 1) PROVE disk[Addr(Tar, b)] = 0
  <2>1. y + b \in Disk /\ y + b >= y /\ ~ ((y + b) - (y + 0) < z)
    BY <1>5, <1>7, Consts
  <2>2. QED
    BY <1>7, <1>8, <2>1
<1>13. 0 + z + SECTOR_SIZE <= Limit(Tar)
  BY <1>5, Consts
<1>14. Stands(1, 0)
  BY <1>2, <1>3, <1>4, <1>11, <1>12, <1>13 DEF Stands
<1>15. QED
  BY <1>10, <1>14

LEMMA InitKeeps ==
  ASSUME FileDataInit
  PROVE  FdInv
<1>1. /\ archive \in Archives /\ rw = NoCall /\ buf = NoBytes /\ ~ InCall
      /\ untar = [pc |-> "header", bytes_left |-> 0]
      /\ i_size = [f \in Extracted |-> IF f = Tar THEN Limit(Tar) ELSE 0]
      /\ fd_inode = [d \in Entry |-> Tar] /\ fd_pos = [d \in Entry |-> 0]
      /\ written = [f \in File |-> [k \in 0..(Limit(f) + SECTOR_SIZE - 1) |-> Never]]
  BY DEF FileDataInit, InCall
<1>2. disk \in [Disk -> Nat] /\ Stands(1, 0)
  BY InitStands
<1>3. i_size \in [Extracted -> Nat] /\ i_size[Tar] = Limit(Tar) /\ \A f \in File : i_size[f] = 0
  BY <1>1, Consts
<1>4. fd_inode \in [Entry -> Extracted] /\ fd_pos \in [Entry -> Nat]
      /\ fd_inode["fd"] = Tar /\ fd_pos["fd"] = 0
      /\ \A d \in Entry : fd_inode[d] = Tar /\ fd_pos[d] = 0
  BY <1>1, Consts
<1>5. /\ written \in [File -> [0..(Room + SECTOR_SIZE - 1) -> Nat \cup {Never}]]
      /\ \A f \in File : \A k \in DOMAIN written[f] : written[f][k] = Never
  <2>1. \A f \in File : Limit(f) = Room
    BY Consts
  <2>2. written = [f \in File |-> [k \in 0..(Room + SECTOR_SIZE - 1) |-> Never]]
    BY <1>1, <2>1
  <2>3. QED
    BY <2>2
<1>6. FdTypes
  <2>1. buf \in Seq(Nat)
    BY <1>1, EmptySeq DEF NoBytes
  <2>2. untar \in [pc : UntarPcs, bytes_left : Nat]
    BY <1>1 DEF UntarPcs
  <2>3. QED
    BY <1>1, <1>2, <1>3, <1>4, <1>5, <2>1, <2>2 DEF FdTypes
<1>7. CallFits /\ ReadSoFar
  BY <1>1 DEF CallFits, ReadSoFar
<1>8. Behind
  BY <1>3, <1>4, Consts DEF Behind
<1>9. Covered /\ WrittenKept
  BY <1>5 DEF Covered, WrittenKept
<1>10. InRoom
  BY <1>3, Consts DEF InRoom, Overrun
<1>11. UntarFits
  <2>1. Len(archive) \in Nat /\ \A n \in 1..Len(archive) : archive[n].file \in File
    BY <1>6, EntriesAre
  <2>2. Extracting(0, 0)
    <3>1. \A j \in 1..(0 - 1) : FALSE
      OBVIOUS
    <3>2. \A j \in (0 + 1)..Len(archive) : i_size[archive[j].file] = 0
      BY <1>3, <2>1
    <3>3. ~ (0 > 0) /\ NoFileWrite
      BY <1>1 DEF NoFileWrite
    <3>4. QED
      BY <3>1, <3>2, <3>3 DEF Extracting
  <2>3. BetweenFiles(0, 0, 0)
    BY <1>1, <1>2, <1>4, <2>2 DEF BetweenFiles, SizeOf, NoTarRead
  <2>4. 0 \in 0..Len(archive) /\ 0 \in 0..Limit(Tar) /\ 0 \in 0..Room
    BY <2>1, Consts
  <2>5. QED
    BY <2>3, <2>4 DEF UntarFits
<1>12. QED
  BY <1>6, <1>7, <1>8, <1>9, <1>10, <1>11 DEF FdInv

(* What the invariant gives.                                               *)
LEMMA NoHitInCall ==
  ASSUME FdInv, InCall, NEW f \in File, f = InFile, NEW k \in Nat, k < Limit(f)
  PROVE  ~ Hit(f, k)
<1>1. SUFFICES ASSUME NEW g \in File, NEW d \in Entry, fd_inode[d] = g, fd_pos[d] > Limit(g),
                      Addr(f, k) \in Addr(g, Limit(g))..Addr(g, Limit(g) + SECTOR_SIZE - 1)
               PROVE  FALSE
  BY DEF Hit
<1>2. FdTypes /\ Behind /\ InRoom
  BY DEF FdInv
<1>3. CASE d = rw.fd
  <2>1. g = f /\ f \in Extracted /\ Limit(f) \in Nat
    BY <1>1, <1>3, Consts DEF InFile
  <2>2. PICK y \in Nat : y = f * Room
    BY <2>1, Addresses
  <2>3. Addr(f, k) = y + k /\ Addr(g, Limit(g)) = y + Limit(f)
    BY <2>1, <2>2, Addresses
  <2>4. PICK e \in Int : e = Addr(g, Limit(g) + SECTOR_SIZE - 1)
    <3>1. Limit(g) + SECTOR_SIZE - 1 \in Int
      BY <2>1, Consts
    <3>2. QED
      BY <2>1, <2>2, <3>1, Addresses
  <2>5. y + k \in (y + Limit(f))..e
    BY <1>1, <2>3, <2>4
  <2>6. QED
    BY <2>1, <2>2, <2>5
<1>4. CASE d # rw.fd
  <2>1. fd_pos[d] <= i_size[g] /\ ~ (i_size[g] > Limit(g))
    BY <1>1, <1>2, <1>4 DEF Behind, InRoom, Overrun
  <2>2. fd_pos[d] \in Nat /\ i_size[g] \in Nat /\ Limit(g) \in Nat
    BY <1>2, Consts DEF FdTypes
  <2>3. QED
    BY <1>1, <2>1, <2>2
<1>5. QED
  BY <1>3, <1>4

LEMMA ReadsFollow ==
  ASSUME FdInv
  PROVE  ReadGivesWritten
<1>1. SUFFICES ASSUME InCall, rw.op = "READ", InFile # Tar, NEW n \in 1..Len(buf),
                      NEW k, k = rw.from + n - 1, k < Limit(InFile), written[InFile][k] # Never
               PROVE  buf[n] = written[InFile][k]
  BY DEF ReadGivesWritten, InCall, InFile
<1>2. FdTypes /\ ReadSoFar /\ WrittenKept
  BY DEF FdInv
<1>3. PICK f \in File : f = InFile /\ Limit(f) = Room
  BY <1>1, <1>2, CallTypes, Consts
<1>4. k \in Nat /\ Len(buf) \in Nat
  <2>1. rw.from \in Nat /\ buf \in Seq(Nat)
    BY <1>1, <1>2, CallTypes DEF FdTypes
  <2>2. QED
    BY <1>1, <2>1
<1>5. k \in DOMAIN written[f]
  <2>1. DOMAIN written[f] = 0..(Room + SECTOR_SIZE - 1)
    BY <1>2 DEF FdTypes
  <2>2. QED
    BY <1>1, <1>3, <1>4, <2>1, Consts
<1>6. disk[Addr(f, k)] = written[f][k]
  BY <1>1, <1>2, <1>3, <1>4, <1>5, NoHitInCall DEF WrittenKept
<1>7. buf[n] = disk[Addr(f, k)]
  BY <1>1, <1>2, <1>3 DEF ReadSoFar
<1>8. QED
  BY <1>3, <1>6, <1>7

LEMMA SizesFollow ==
  ASSUME FdInv
  PROVE  SizeCovers
BY DEF FdInv, SizeCovers, Behind, Covered, InCall

LEMMA ArchiveFollows ==
  ASSUME FdInv
  PROVE  ArchiveExtracted
<1>1. SUFFICES ASSUME untar.pc = "got_header", ~ InCall, buf[1] = 0, NEW n \in DOMAIN archive
               PROVE  Done(n)
  BY DEF ArchiveExtracted, Done, InCall
<1>2. FdTypes /\ UntarFits
  BY DEF FdInv
<1>3. PICK m \in 0..Len(archive), q \in 0..Limit(Tar), c \in 0..Room : BetweenFiles(m, q, c)
  BY <1>1, <1>2 DEF UntarFits, InsideFile
<1>4. c = SizeOf(m) /\ Extracting(m, c) /\ Stands(m + 1, q) /\ TarRead(q, SECTOR_SIZE)
  BY <1>1, <1>3 DEF BetweenFiles
<1>5. /\ q \in Nat /\ m \in Nat /\ Len(archive) \in Nat /\ 1 \in 1..SECTOR_SIZE /\ q + 1 - 1 = q
      /\ n \in 1..Len(archive)
  BY <1>1, <1>2, EntriesAre, Consts
<1>6. disk[Addr(Tar, q)] = 0
  <2>1. buf[1] = disk[Addr(Tar, q + 1 - 1)]
    BY <1>1, <1>4, <1>5 DEF TarRead
  <2>2. QED
    BY <1>1, <1>5, <2>1
<1>7. m = Len(archive)
  <2>1. SUFFICES ASSUME m # Len(archive) PROVE FALSE
    OBVIOUS
  <2>2. m + 1 \in 1..Len(archive)
    BY <1>5, <2>1
  <2>3. disk[Addr(Tar, q)] = m + 1
    BY <1>2, <1>4, <1>5, <2>2, StandsNext
  <2>4. QED
    BY <1>5, <1>6, <2>3
<1>8. CASE n = m
  <2>1. m > 0 /\ m # 0
    BY <1>5, <1>8
  <2>2. Copied(m, c) /\ c = archive[m].size
    BY <1>4, <2>1 DEF Extracting, SizeOf
  <2>3. QED
    BY <1>1, <1>8, <2>2 DEF Copied, Done
<1>9. CASE n # m
  <2>1. n \in 1..(m - 1)
    BY <1>5, <1>7, <1>9
  <2>2. QED
    BY <1>4, <2>1 DEF Extracting
<1>10. QED
  BY <1>8, <1>9

-----------------------------------------------------------------------------
(* The invariant holds.                                                    *)
THEOREM FdInvariance == FileDataSpec => []FdInv
<1>1. FileDataInit => FdInv
  BY InitKeeps
<1>2. FdInv /\ [FileDataNext]_fdVars => FdInv'
  BY StepKeeps
<1>3. QED
  BY <1>1, <1>2, PTL DEF FileDataSpec

(* What a program has written to a file is on the disk until it is written *)
(* again: no other call and no other file loses it (do_rdwt's reading of   *)
(* the sectors that it fills only in part), but for the first sector       *)
(* behind a file whose call ran past its last one.                         *)
THEOREM NothingLost == FileDataSpec => []WrittenKept
<1>1. FdInv => WrittenKept
  BY DEF FdInv
<1>2. QED
  BY <1>1, FdInvariance, PTL

(* A read gives what was written where its descriptor stood.               *)
THEOREM ReadsWhatWasWritten == FileDataSpec => []ReadGivesWritten
<1>1. FdInv => ReadGivesWritten
  BY ReadsFollow
<1>2. QED
  BY <1>1, FdInvariance, PTL

(* Between two calls the size of a file covers what was written to it and  *)
(* where its descriptors stand (the end of do_rdwt).                       *)
THEOREM SizesCover == FileDataSpec => []SizeCovers
<1>1. FdInv => SizeCovers
  BY SizesFollow
<1>2. QED
  BY <1>1, FdInvariance, PTL

(* untar ends with every file of cmd.tar as the archive has it, of the     *)
(* size that its header says, whatever the sizes of the files and of       *)
(* untar's buffer.                                                         *)
THEOREM UntarExtracts == FileDataSpec => []ArchiveExtracted
<1>1. FdInv => ArchiveExtracted
  BY ArchiveFollows
<1>2. QED
  BY <1>1, FdInvariance, PTL

=============================================================================
