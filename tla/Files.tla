------------------------------- MODULE Files -------------------------------
(***************************************************************************)
(* The tables of the file system task FS: open files (filp, f_desc_table), *)
(* cached inodes (inode_table), and on the disk the two bitmaps, the       *)
(* inodes and the root directory (fs/main.c, fs/open.c, fs/link.c,         *)
(* fs/misc.c).                                                             *)
(*                                                                         *)
(* FS serves one request after the other, so an action is one request of   *)
(* one process.  A fork has two: MM copies the filp of the parent and then *)
(* FS counts the copies; other processes go on in between.                 *)
(*                                                                         *)
(* An inode of the cache is written through to the disk whenever it is     *)
(* changed, so both have one value, inodes.  Files are in the root         *)
(* directory and all have NR_DEFAULT_FILE_SECTS sectors; the device files  *)
(* are left out, and of cmd.tar, which nobody removes, there are its bits  *)
(* in the sector map.  Reading and writing is in FileData.                 *)
(***************************************************************************)
EXTENDS FiniteSetsExt, Integers

CONSTANTS Proc,          \* entries of proc_table that programs use
          First,         \* the process that is there at the start
          Name,          \* file names
          NR_FILES,      \* open files of a process
          NR_FILE_DESC,  \* entries of f_desc_table
          MaxFiles,      \* bound: files that exist at a time
          MaxCnt,        \* bound: references to a cached inode
          OpensDirs,     \* programs open() directories
          BITS,          \* bits of a byte of the maps
          NR_DEFAULT_FILE_SECTS,
          INSTALL_BIT    \* the first bit of cmd.tar in the sector map

Fd == 1..NR_FILES
Desc == 1..NR_FILE_DESC
ROOT_INODE == 1
Num == ROOT_INODE..(MaxFiles + 1)    \* inode numbers
DirMax == MaxFiles + 1
Slot == 1..(MaxFiles + 1)            \* inode_table has room for all of them

ASSUME FilesAssumption ==
  /\ First \in Proc /\ IsFiniteSet(Proc)
  /\ NR_FILES \in Nat \ {0} /\ NR_FILE_DESC \in Nat \ {0}
  /\ MaxFiles \in Nat \ {0} /\ MaxCnt \in Nat \ {0}
  /\ OpensDirs \in BOOLEAN
  /\ BITS \in Nat \ {0} /\ INSTALL_BIT \in Nat
  /\ NR_DEFAULT_FILE_SECTS \in Nat /\ NR_DEFAULT_FILE_SECTS >= BITS
  /\ "." \notin Name /\ "" \notin Name

VARIABLES
  alive, forking,      \* processes; parent and child of the fork that MM is at
  filp,                \* of a process: its entries of f_desc_table, 0 is null
  f_desc_table, inode_table,
  imap, smap,          \* what the two bitmaps have as used
  inodes,              \* i_mode and i_start_sect
  dir, nr_dir_entries, \* the slots of the root directory and i_size of its inode
  lost, wiped,         \* history: the files that a directory that shrank has
                       \* cut off, and the bits of cmd.tar that files have got
  panic                \* "none", "full" for a full table, or "assert"

procVars == <<alive, forking>>
openVars == <<filp, f_desc_table, inode_table>>
diskVars == <<imap, smap, inodes, dir, nr_dir_entries, lost, wiped>>
filesVars == <<procVars, openVars, diskVars, panic>>

NoEntry == [inode_nr |-> 0, name |-> ""]
NoInode == [i_mode |-> "none", i_start_sect |-> 0]
Closed == [fd_inode |-> 0, fd_cnt |-> 0]
Unused == [i_num |-> 0, i_cnt |-> 0]

(***************************************************************************)
(* The sector map: bit b stands for sector b - 1 of those behind the       *)
(* inodes, from which sectors are counted here, and bit 0 for none.        *)
(***************************************************************************)
NrBytes == INSTALL_BIT \div BITS + 2
Byte(j) == (j * BITS)..(j * BITS + BITS - 1)
SmapBit == 0..(NrBytes * BITS - 1)
InstallBits == {b \in SmapBit : b >= INSTALL_BIT}

(* mkfs and init_fs.                                                       *)
FilesInit ==
  /\ alive = {First} /\ forking = <<>>
  /\ filp = [p \in Proc |-> [k \in Fd |-> 0]]
  /\ f_desc_table = [d \in Desc |-> Closed]
  /\ inode_table = [s \in Slot |-> IF s = 1 THEN [i_num |-> ROOT_INODE, i_cnt |-> 1]
                                            ELSE Unused]
  /\ imap = {ROOT_INODE} /\ smap = 0..NR_DEFAULT_FILE_SECTS \cup InstallBits
  /\ inodes = [i \in Num |-> IF i = ROOT_INODE THEN [i_mode |-> "I_DIRECTORY", i_start_sect |-> 0]
                                              ELSE NoInode]
  /\ dir = [k \in 1..DirMax |-> IF k = 1 THEN [inode_nr |-> ROOT_INODE, name |-> "."]
                                         ELSE NoEntry]
  /\ nr_dir_entries = 1
  /\ lost = {} /\ wiped = {}
  /\ panic = "none"

-----------------------------------------------------------------------------
(***************************************************************************)
(* search_file compares before it counts, so it also sees the slot behind  *)
(* the last one; do_ls looks at every slot of the sector.                  *)
(***************************************************************************)
InodeNamed(n, slots) ==
  LET found == {k \in slots : dir[k].name = n}
  IN  IF found = {} THEN 0 ELSE dir[Min(found)].inode_nr

search_file(n) == InodeNamed(n, {k \in 1..DirMax : k <= nr_dir_entries + 1})

(* get_inode: the slot of a cached inode, or else the first unused one.    *)
Cached(i) == {s \in Slot : inode_table[s].i_cnt > 0 /\ inode_table[s].i_num = i}
SlotFor(i) ==
  IF Cached(i) # {} THEN Min(Cached(i))
  ELSE Min({s \in Slot : inode_table[s].i_cnt = 0})

get_inode(i) ==
  [inode_table EXCEPT ![SlotFor(i)] = [i_num |-> i, i_cnt |-> @.i_cnt + 1]]
MayGet(i) == inode_table[SlotFor(i)].i_cnt < MaxCnt

(* n references less; the number of an unused slot is not kept.            *)
Dropped(inode, n) ==
  IF inode.i_cnt = n THEN Unused ELSE [inode EXCEPT !.i_cnt = @ - n]
put_inode(s) == [inode_table EXCEPT ![s] = Dropped(@, 1)]

Stop(why) == panic' = why /\ UNCHANGED <<procVars, openVars, diskVars>>

(* A process that may call FS: not one that is forking or being born.      *)
MayCall(p) == /\ panic = "none"
              /\ p \in alive
              /\ \A k \in DOMAIN forking : forking[k] # p

-----------------------------------------------------------------------------
(***************************************************************************)
(* do_open: entries of filp and f_desc_table are looked for first.         *)
(***************************************************************************)
FreeFd(p) == {k \in Fd : filp[p][k] = 0}
FreeDesc == {d \in Desc : f_desc_table[d].fd_inode = 0}
HasRoom(p) == FreeFd(p) # {} /\ FreeDesc # {}

OpenPanics(p) ==
  /\ MayCall(p) /\ ~ HasRoom(p)
  /\ Stop("full")

Attach(p, s) ==
  /\ filp' = [filp EXCEPT ![p][Min(FreeFd(p))] = Min(FreeDesc)]
  /\ f_desc_table' = [f_desc_table EXCEPT ![Min(FreeDesc)] = [fd_inode |-> s, fd_cnt |-> 1]]

do_open(p, n) ==
  LET i == search_file(n)
  IN  /\ MayCall(p) /\ HasRoom(p)
      /\ i # 0 /\ MayGet(i)
      /\ OpensDirs \/ inodes[i].i_mode # "I_DIRECTORY"
      /\ inode_table' = get_inode(i)
      /\ Attach(p, SlotFor(i))
      /\ UNCHANGED <<procVars, diskVars, panic>>

(***************************************************************************)
(* create_file: alloc_imap_bit, alloc_smap_bit, new_inode, new_dir_entry.  *)
(***************************************************************************)
EmptySlot ==
  LET holes == {k \in 1..nr_dir_entries : dir[k].inode_nr = 0}
  IN  IF holes # {} THEN Min(holes) ELSE nr_dir_entries + 1

new_inode(i) == [inode_table EXCEPT ![SlotFor(i)] = [i_num |-> i, i_cnt |-> 1]]

alloc_imap_bit == Min(Num \ imap)

(* alloc_smap_bit looks for a byte of zeros and begins there; it clears    *)
(* each byte that it comes to before it sets bits, so what was set there   *)
(* does not stop it.                                                       *)
alloc_smap_bit == BITS * Min({j \in 0..(NrBytes - 1) : Byte(j) \cap smap = {}})
Bits(first) == first..(first + NR_DEFAULT_FILE_SECTS - 1)
BytesOf(bits) == UNION {Byte(b \div BITS) : b \in bits}

Allocated(first) == (smap \ BytesOf(Bits(first))) \cup Bits(first)

new_dir_entry(i, n) ==
  /\ dir' = [dir EXCEPT ![EmptySlot] = [inode_nr |-> i, name |-> n]]
  /\ nr_dir_entries' = IF EmptySlot > nr_dir_entries THEN EmptySlot ELSE nr_dir_entries

create_file(i, n, mode) ==
  /\ imap # Num                          \* the bound MaxFiles
  /\ i = alloc_imap_bit
  /\ imap' = imap \cup {i}
  /\ smap' = Allocated(alloc_smap_bit)
  /\ wiped' = wiped \cup (BytesOf(Bits(alloc_smap_bit)) \cap InstallBits)
  /\ lost' = lost
  /\ inodes' = [inodes EXCEPT ![i] = [i_mode |-> mode, i_start_sect |-> alloc_smap_bit - 1]]
  /\ new_dir_entry(i, n)

do_open_creat(p, n) ==
  /\ MayCall(p) /\ HasRoom(p)
  /\ search_file(n) = 0
  /\ \E i \in Num :
        /\ create_file(i, n, "I_REGULAR")
        /\ inode_table' = new_inode(i)
        /\ Attach(p, SlotFor(i))
  /\ UNCHANGED <<procVars, panic>>

(* mkdir() does not look whether the name exists.  Its put_inode takes     *)
(* back the one reference that new_inode has set.                          *)
do_mkdir(p, n) ==
  /\ MayCall(p)
  /\ \E i \in Num :
        /\ create_file(i, n, "I_DIRECTORY")
        /\ inode_table' = [inode_table EXCEPT ![SlotFor(i)] = Unused]
  /\ UNCHANGED <<procVars, filp, f_desc_table, panic>>

-----------------------------------------------------------------------------
(* do_close.                                                               *)
Released(desc, n) == IF desc.fd_cnt = n THEN Closed ELSE [desc EXCEPT !.fd_cnt = @ - n]

do_close(p, k) ==
  LET d == filp[p][k]
      s == f_desc_table[d].fd_inode
  IN  /\ MayCall(p) /\ d # 0
      /\ IF inode_table[s].i_cnt = 0
           THEN Stop("assert")
           ELSE /\ inode_table' = put_inode(s)
                /\ f_desc_table' = [f_desc_table EXCEPT ![d] = Released(@, 1)]
                /\ filp' = [filp EXCEPT ![p][k] = 0]
                /\ UNCHANGED <<procVars, diskVars, panic>>

(* The references of p: to an entry of f_desc_table, and through that to   *)
(* a cached inode.                                                         *)
RefsTo(p, d) == Cardinality({k \in Fd : filp[p][k] = d})
Reaches(p, k, s) == filp[p][k] # 0 /\ f_desc_table[filp[p][k]].fd_inode = s
InodeRefs(p, s) == Cardinality({k \in Fd : Reaches(p, k, s)})

(* MM copies the parent's entry of proc_table and asks FS to count.        *)
ForkCopy(p, c) ==
  /\ MayCall(p) /\ forking = <<>> /\ c \in Proc \ alive
  /\ alive' = alive \cup {c}
  /\ forking' = <<p, c>>
  /\ filp' = [filp EXCEPT ![c] = filp[p]]
  /\ UNCHANGED <<f_desc_table, inode_table, diskVars, panic>>

FdCounted(d, c) == f_desc_table[d].fd_cnt + RefsTo(c, d)
InodeCounted_not(s, c) == inode_table[s].i_cnt
InodeCounted(s, c) == inode_table[s].i_cnt + InodeRefs(c, s)

fs_fork ==
  /\ panic = "none" /\ forking # <<>>
  /\ LET c == forking[2]
     IN  /\ f_desc_table' = [d \in Desc |-> [f_desc_table[d] EXCEPT !.fd_cnt = FdCounted(d, c)]]
         /\ inode_table' = [s \in Slot |-> [inode_table[s] EXCEPT !.i_cnt = InodeCounted(s, c)]]
  /\ forking' = <<>>
  /\ UNCHANGED <<alive, filp, diskVars, panic>>

(* exit() and kill: MM is at no fork, and the process is gone afterwards.  *)
fs_exit(p) ==
  /\ MayCall(p) /\ forking = <<>> /\ p # First
  /\ inode_table' = [s \in Slot |-> Dropped(inode_table[s], InodeRefs(p, s))]
  /\ f_desc_table' = [d \in Desc |-> Released(f_desc_table[d], RefsTo(p, d))]
  /\ filp' = [filp EXCEPT ![p] = [k \in Fd |-> 0]]
  /\ alive' = alive \ {p}
  /\ UNCHANGED <<forking, diskVars, panic>>

-----------------------------------------------------------------------------
(***************************************************************************)
(* do_unlink.  Directories are empty here.  A refused call keeps its       *)
(* reference to the inode.                                                 *)
(***************************************************************************)
Refuses_never(i) == FALSE
Refuses(i) ==
  /\ get_inode(i)[SlotFor(i)].i_cnt > 1
  /\ inodes[i].i_mode # "I_DIRECTORY"

UnlinkRefused(p, n) ==
  LET i == search_file(n)
  IN  /\ MayCall(p)
      /\ i # 0 /\ MayGet(i) /\ Refuses(i)
      /\ inode_table' = get_inode(i)
      /\ UNCHANGED <<procVars, filp, f_desc_table, diskVars, panic>>

(* The slots that refer to inode i, as far as the directory's size goes.   *)
EntryOf(i) == {k \in 1..nr_dir_entries : dir[k].inode_nr = i}

(* The size after the entry in slot k is gone: if it was the last one, the *)
(* room of the entries in use before it.                                   *)
Shrunk_always(k) == Cardinality({j \in 1..(k - 1) : dir[j].inode_nr # 0})
Shrunk(k) ==
  IF k = nr_dir_entries THEN Cardinality({j \in 1..(k - 1) : dir[j].inode_nr # 0})
  ELSE nr_dir_entries

Erased(k) == [dir EXCEPT ![k] = NoEntry]

(* The files behind that size although they exist: the size of a directory *)
(* that has a hole, once its last entry goes (link.c:205).                 *)
CutOff(k) ==
  LET room == Cardinality({j \in 1..(k - 1) : dir[j].inode_nr # 0})
  IN  IF k = nr_dir_entries THEN {dir[j].inode_nr : j \in (room + 1)..(k - 1)} \ {0} ELSE {}

(* The bits that do_unlink clears: those in the first byte, then whole     *)
(* bytes, then the rest in the last one.                                   *)
Freed_rest(bit) ==
  LET byte_cnt == NR_DEFAULT_FILE_SECTS \div BITS
  IN  bit..(bit + (BITS - (bit % BITS)) + byte_cnt * BITS - 1)
Freed(bit) ==
  LET head == BITS - (bit % BITS)
      byte_cnt == (NR_DEFAULT_FILE_SECTS - head) \div BITS
      bits_left == NR_DEFAULT_FILE_SECTS - head - byte_cnt * BITS
      last == bit + head + byte_cnt * BITS
  IN  bit..(bit + head - 1)
      \cup UNION {Byte(bit \div BITS + n) : n \in 1..byte_cnt}
      \cup last..(last + bits_left - 1)

do_unlink(p, n) ==
  LET i == search_file(n)
      bits == Freed(inodes[i].i_start_sect + 1)
  IN  /\ MayCall(p)
      /\ i # 0 /\ MayGet(i) /\ ~ Refuses(i)
      /\ IF i \in imap /\ bits \subseteq smap /\ EntryOf(i) # {}
           THEN /\ imap' = imap \ {i}
                /\ smap' = smap \ bits
                /\ inodes' = [inodes EXCEPT ![i] = NoInode]
                /\ dir' = Erased(Min(EntryOf(i)))
                /\ nr_dir_entries' = Shrunk(Min(EntryOf(i)))
                /\ lost' = lost \cup CutOff(Min(EntryOf(i)))
                /\ UNCHANGED <<procVars, openVars, wiped, panic>>
           ELSE Stop("assert")

(* do_rename does not look whether the new name exists.  (A new name that  *)
(* is longer than the path would be copied in part; it is not used here.)  *)
do_rename(p, n, new) ==
  LET i == search_file(n)
  IN  /\ MayCall(p)
      /\ i # 0 /\ MayGet(i) /\ ~ Refuses(i)
      /\ EntryOf(i) # {}
      /\ dir' = [dir EXCEPT ![Min(EntryOf(i))].name = new]
      /\ UNCHANGED <<procVars, openVars, imap, smap, inodes, nr_dir_entries, lost, wiped, panic>>

(* do_is_dir of a directory and do_ls of any name keep a reference.        *)
KeepsReference(p, i) ==
  /\ MayCall(p)
  /\ i # 0 /\ MayGet(i)
  /\ inode_table' = get_inode(i)
  /\ UNCHANGED <<procVars, filp, f_desc_table, diskVars, panic>>

do_is_dir(p, n) ==
  /\ search_file(n) # 0 /\ inodes[search_file(n)].i_mode = "I_DIRECTORY"
  /\ KeepsReference(p, search_file(n))

do_ls(p, n) == KeepsReference(p, InodeNamed(n, 1..DirMax))

-----------------------------------------------------------------------------
FilesNext ==
  \/ \E p \in Proc :
        \/ OpenPanics(p)
        \/ \E k \in Fd : do_close(p, k)
        \/ \E c \in Proc : ForkCopy(p, c)
        \/ fs_exit(p)
        \/ \E n \in Name :
              \/ do_open(p, n) \/ do_open_creat(p, n) \/ do_mkdir(p, n)
              \/ do_unlink(p, n) \/ UnlinkRefused(p, n)
              \/ do_is_dir(p, n) \/ do_ls(p, n)
              \/ \E new \in Name \ {n} : do_rename(p, n, new)
  \/ fs_fork

FilesSpec == FilesInit /\ [][FilesNext]_filesVars

-----------------------------------------------------------------------------
FilesTypeOK ==
  /\ alive \subseteq Proc
  /\ forking \in {<<>>} \cup {<<p, c>> : p \in Proc, c \in Proc}
  /\ filp \in [Proc -> [Fd -> Desc \cup {0}]]
  /\ f_desc_table \in [Desc -> [fd_inode : Slot \cup {0}, fd_cnt : 0..Cardinality(Proc)]]
  /\ inode_table \in [Slot -> [i_num : Num \cup {0}, i_cnt : Nat]]
  /\ imap \subseteq Num /\ smap \subseteq SmapBit
  /\ inodes \in [Num -> [i_mode : {"none", "I_REGULAR", "I_DIRECTORY"}, i_start_sect : SmapBit]]
  /\ dir \in [1..DirMax -> [inode_nr : Num \cup {0}, name : Name \cup {"", "."}]]
  /\ nr_dir_entries \in 1..DirMax
  /\ lost \subseteq Num /\ wiped \subseteq InstallBits
  /\ panic \in {"none", "full", "assert"}

(* The processes whose references FS has counted.                          *)
CountedProc == {p \in alive : forking # <<>> => p # forking[2]}

(* The references to an entry, and those through entries to an inode.      *)
Sharers(d) == {r \in CountedProc \X Fd : filp[r[1]][r[2]] = d}
Users(s) == {r \in CountedProc \X Fd : Reaches(r[1], r[2], s)}

(* fd_cnt is the number of processes that share an entry (fs.h:125), and   *)
(* an entry is free just when nobody has it: after any forks, exits and    *)
(* closes, while a child is being born too.                                *)
SharersCounted ==
  \A d \in Desc :
    /\ f_desc_table[d].fd_cnt = Cardinality(Sharers(d))
    /\ f_desc_table[d].fd_inode = 0 <=> f_desc_table[d].fd_cnt = 0

(* A file that a process has open exists: its inode stays cached with at   *)
(* least the count of its users, and allocated; and the entry of           *)
(* f_desc_table has the count of just those who share it.                  *)
OpenFileKept ==
  /\ SharersCounted
  /\ \A p \in alive, k \in Fd : filp[p][k] # 0 =>
       LET s == f_desc_table[filp[p][k]].fd_inode
           i == inode_table[s].i_num
       IN  /\ inode_table[s].i_cnt >= Cardinality(Users(s))
           /\ i \in imap /\ inodes[i].i_mode # "none"

(* The sectors of the file of inode i, as bits of the sector map.          *)
SectorsOf(i) == Bits(inodes[i].i_start_sect + 1)

(* What a check of the disk would find: the inode map has just the inodes  *)
(* that the directory names, each named once, and those that were cut off  *)
(* when it shrank; no two files, cut off or not, share a sector; and the   *)
(* sector map has just their sectors and those bits of cmd.tar that no     *)
(* file ever got.  Nothing else goes wrong on the disk: a file is lost     *)
(* only when the last entry goes and there is a hole (link.c:205), and     *)
(* loses sectors to nobody; cmd.tar loses bits only to files whose bytes   *)
(* of the map reach into its own (open.c:482).                             *)
DiskConsistent ==
  LET used == {k \in 1..nr_dir_entries : dir[k].inode_nr # 0}
      named == {dir[k].inode_nr : k \in used}
  IN  /\ FilesTypeOK
      /\ imap = named \cup lost /\ named \cap lost = {}
      /\ Cardinality(used) = Cardinality(named)
      /\ smap = {0} \cup (InstallBits \ wiped) \cup UNION {SectorsOf(i) : i \in imap}
      /\ \A i \in imap : /\ SectorsOf(i) \cap InstallBits \subseteq wiped
                        /\ \A j \in imap \ {i} : SectorsOf(i) \cap SectorsOf(j) = {}

(* FS's assert()s, put_inode's and those of do_unlink on the maps and that *)
(* the file it removes is found, fail in one case only: a program removes  *)
(* a file that was cut off, and search_file, which looks one slot too far, *)
(* still finds it (misc.c:166, link.c:203).                                *)
NoFsAssert == panic = "assert" => \E n \in Name : search_file(n) \in lost

(* An open file stays the same file: nothing that other processes do makes *)
(* FS cache another inode in the place that a descriptor refers to.        *)
FileOf(d) == inode_table[f_desc_table[d].fd_inode].i_num

DescriptorStable ==
  [][\A d \in Desc :
        (f_desc_table[d].fd_inode # 0 /\ f_desc_table'[d].fd_inode # 0) => FileOf(d)' = FileOf(d)]_filesVars

=============================================================================
