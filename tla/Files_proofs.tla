---------------------------- MODULE Files_proofs ----------------------------
(***************************************************************************)
(* Proofs about Files, for any processes, names, tables and files: the     *)
(* counts of FS are those of who shares, an open file stays the file it    *)
(* is, cached and allocated, and no descriptor comes to refer to another.  *)
(* They take that nobody opens a directory: an open one can be removed.    *)
(***************************************************************************)
EXTENDS Files, FiniteSetTheorems, TLAPS

FilesTypes ==
  /\ alive \subseteq Proc
  /\ filp \in [Proc -> [Fd -> Desc \cup {0}]]
  /\ f_desc_table \in [Desc -> [fd_inode : Slot \cup {0}, fd_cnt : Nat]]
  /\ inode_table \in [Slot -> [i_num : Num \cup {0}, i_cnt : Nat]]
  /\ imap \subseteq Num
  /\ DOMAIN inodes = Num
  /\ \A i \in Num : inodes[i].i_mode \in {"none", "I_REGULAR", "I_DIRECTORY"}
  /\ dir \in [1..DirMax -> [inode_nr : Num \cup {0}, name : Name \cup {"", "."}]]
  /\ nr_dir_entries \in Nat

(* Until FS has counted it, a child has what its parent has, and both wait.*)
ForkFits ==
  \/ forking = <<>>
  \/ \E p, c \in alive : p # c /\ forking = <<p, c>> /\ filp[c] = filp[p]

(* A cached inode has at least the count of its users (refused calls keep  *)
(* more), and no inode is cached twice.                                    *)
UsersCounted == \A s \in Slot : inode_table[s].i_cnt >= Cardinality(Users(s))

CacheExact ==
  /\ \A s \in Slot : inode_table[s].i_cnt > 0 => inode_table[s].i_num # 0
  /\ \A s, t \in Slot :
       /\ inode_table[s].i_cnt > 0 /\ inode_table[t].i_cnt > 0
       /\ inode_table[s].i_num = inode_table[t].i_num
       => s = t

OpenRegular ==
  \A d \in Desc : f_desc_table[d].fd_inode # 0 =>
    FileOf(d) \in imap /\ inodes[FileOf(d)].i_mode = "I_REGULAR"

(* Every slot of the directory, those behind its size too, is empty or has *)
(* an allocated inode that no other slot has.                              *)
DirFits ==
  /\ \A i \in imap : inodes[i].i_mode # "none"
  /\ \A k \in 1..DirMax : dir[k].inode_nr # 0 => dir[k].inode_nr \in imap
  /\ \A k, l \in 1..DirMax :
       dir[k].inode_nr # 0 /\ dir[k].inode_nr = dir[l].inode_nr => k = l

FilesInv ==
  /\ FilesTypes /\ ForkFits /\ SharersCounted /\ UsersCounted /\ CacheExact
  /\ OpenRegular /\ DirFits

(* What a step does not do to a descriptor that stays open.                *)
SameFiles ==
  \A d \in Desc :
    (f_desc_table[d].fd_inode # 0 /\ f_desc_table'[d].fd_inode # 0) => FileOf(d)' = FileOf(d)

-----------------------------------------------------------------------------
(* The least of some numbers is one of them.                               *)
LEMMA MinIn ==
  ASSUME NEW T \in SUBSET Nat, T # {}
  PROVE  Min(T) \in T /\ \A y \in T : Min(T) <= y
<1>1. PICK x \in T : \A y \in T : <<y, x>> \notin OpToRel(<, Nat)
  BY NatLessThanWellFounded, WFMin, Zenon
<1>2. \A y \in T : x <= y
  <2>1. TAKE y \in T
  <2>2. ~ (y < x)
    BY <1>1 DEF OpToRel
  <2> QED BY <2>2
<1> QED BY <1>2 DEF Min

LEMMA Ranges ==
  /\ Fd \subseteq Nat /\ Desc \subseteq Nat /\ 0 \notin Desc
  /\ Slot \subseteq Nat /\ 0 \notin Slot /\ Slot = Num /\ 0 \notin Num /\ Num \subseteq Nat
  /\ IsFiniteSet(Fd) /\ IsFiniteSet(Desc) /\ IsFiniteSet(Slot) /\ IsFiniteSet(Num)
  /\ IsFiniteSet(Proc) /\ 1..DirMax = Num /\ DirMax \in Nat
<1>1. NR_FILES \in Nat /\ NR_FILE_DESC \in Nat /\ MaxFiles \in Nat /\ IsFiniteSet(Proc)
  BY FilesAssumption
<1>2. IsFiniteSet(1..NR_FILES) /\ IsFiniteSet(1..NR_FILE_DESC) /\ IsFiniteSet(1..(MaxFiles + 1))
  BY <1>1, FS_Interval
<1>3. Slot = 1..(MaxFiles + 1) /\ Num = 1..(MaxFiles + 1) /\ 1..DirMax = 1..(MaxFiles + 1)
  BY DEF Slot, Num, ROOT_INODE, DirMax
<1> QED BY <1>1, <1>2, <1>3 DEF Fd, Desc, DirMax

(* Counts of references are numbers.                                       *)
LEMMA Countable ==
  ASSUME FilesTypes
  PROVE  /\ CountedProc \subseteq Proc
         /\ \A T \in SUBSET (CountedProc \X Fd) : IsFiniteSet(T) /\ Cardinality(T) \in Nat
         /\ \A d : IsFiniteSet(Sharers(d)) /\ Cardinality(Sharers(d)) \in Nat
         /\ \A s : IsFiniteSet(Users(s)) /\ Cardinality(Users(s)) \in Nat
<1>1. CountedProc \subseteq Proc
  BY DEF CountedProc, FilesTypes
<1>2. IsFiniteSet(CountedProc)
  BY <1>1, Ranges, FS_Subset
<1>3. IsFiniteSet(CountedProc \X Fd)
  BY <1>2, Ranges, FS_Product
<1>4. \A T \in SUBSET (CountedProc \X Fd) : IsFiniteSet(T) /\ Cardinality(T) \in Nat
  BY <1>3, FS_Subset, FS_CardinalityType
<1>5. \A d : Sharers(d) \in SUBSET (CountedProc \X Fd)
  BY DEF Sharers
<1>6. \A s : Users(s) \in SUBSET (CountedProc \X Fd)
  BY DEF Users
<1> QED BY <1>1, <1>4, <1>5, <1>6

SharersFinite == \A d \in Desc : IsFiniteSet(Sharers(d))

LEMMA TypesFinite == FilesTypes => SharersFinite
BY Countable DEF SharersFinite

LEMMA SharerIs ==
  ASSUME FilesTypes, NEW p \in CountedProc, NEW k \in Fd
  PROVE  /\ \A d : <<p, k>> \in Sharers(d) <=> filp[p][k] = d
         /\ \A s : <<p, k>> \in Users(s) <=> Reaches(p, k, s)
BY DEF Sharers, Users

(* A descriptor that somebody has is open, and so is one that is open had; *)
(* the child of a fork, which is not counted, has what its parent has.     *)
LEMMA HadIsOpen ==
  ASSUME FilesInv, NEW p \in alive, NEW k \in Fd, filp[p][k] # 0
  PROVE  /\ filp[p][k] \in Desc
         /\ f_desc_table[filp[p][k]].fd_inode \in Slot
         /\ f_desc_table[filp[p][k]].fd_cnt > 0
<1> DEFINE d == filp[p][k]
<1>1. d \in Desc
  <2>1. p \in Proc /\ filp \in [Proc -> [Fd -> Desc \cup {0}]]
    BY DEF FilesInv, FilesTypes
  <2> QED BY <2>1
<1>2. \E q \in CountedProc : filp[q] = filp[p]
  BY DEF FilesInv, ForkFits, CountedProc
<1>3. Sharers(d) # {}
  BY <1>2, SharerIs DEF FilesInv
<1>4. Cardinality(Sharers(d)) \in Nat /\ Cardinality(Sharers(d)) # 0
  BY <1>3, Countable, FS_EmptySet DEF FilesInv
<1>5. f_desc_table[d].fd_cnt # 0 /\ f_desc_table[d].fd_cnt \in Nat
  BY <1>1, <1>4 DEF FilesInv, SharersCounted
<1>6. f_desc_table[d].fd_inode # 0 /\ f_desc_table[d].fd_inode \in Slot \cup {0}
  BY <1>1, <1>5 DEF FilesInv, SharersCounted, FilesTypes
<1> QED BY <1>1, <1>5, <1>6

LEMMA OpenIsHad ==
  ASSUME FilesInv, NEW d \in Desc, f_desc_table[d].fd_inode # 0
  PROVE  /\ f_desc_table[d].fd_inode \in Slot
         /\ \E q \in CountedProc, k \in Fd : filp[q][k] = d
         /\ inode_table[f_desc_table[d].fd_inode].i_cnt > 0
<1> DEFINE s == f_desc_table[d].fd_inode
<1>1. s \in Slot
  BY DEF FilesInv, FilesTypes
<1>2. Cardinality(Sharers(d)) # 0
  BY DEF FilesInv, SharersCounted
<1>3. Sharers(d) # {}
  BY <1>2, FS_EmptySet
<1>4. PICK q \in CountedProc, k \in Fd : filp[q][k] = d
  BY <1>3 DEF Sharers
<1>5. <<q, k>> \in Users(s)
  <2>1. Reaches(q, k, s)
    BY <1>4, Ranges DEF Reaches
  <2> QED BY <2>1, SharerIs DEF FilesInv
<1>6. Cardinality(Users(s)) \in Nat /\ Cardinality(Users(s)) # 0
  BY <1>5, Countable, FS_EmptySet DEF FilesInv
<1>7. inode_table[s].i_cnt >= Cardinality(Users(s)) /\ inode_table[s].i_cnt \in Nat
  BY <1>1 DEF FilesInv, UsersCounted, FilesTypes
<1> QED BY <1>1, <1>4, <1>6, <1>7

(* The slot that get_inode and new_inode take: the one of the inode, or an *)
(* unused one, of which there is one because no inode is cached twice.     *)
LEMMA SlotTaken ==
  ASSUME FilesInv, NEW i \in Num
  PROVE  /\ SlotFor(i) \in Slot
         /\ \/ SlotFor(i) \in Cached(i)
            \/ inode_table[SlotFor(i)].i_cnt = 0 /\ Cached(i) = {}
<1>1. CASE Cached(i) # {}
  <2>1. Min(Cached(i)) \in Cached(i)
    BY <1>1, MinIn, Ranges DEF Cached
  <2> QED BY <1>1, <2>1 DEF SlotFor, Cached
<1>2. CASE Cached(i) = {}
  <2> DEFINE unused == {s \in Slot : inode_table[s].i_cnt = 0}
  <2>1. unused # {}
    <3>0. \A s \in Slot : inode_table[s].i_cnt \in Nat
      BY DEF FilesInv, FilesTypes
    <3> SUFFICES ASSUME \A s \in Slot : inode_table[s].i_cnt > 0
                 PROVE  FALSE
      BY <3>0
    <3> DEFINE f == [s \in Slot |-> inode_table[s].i_num]
               T == Num \ {i}
    <3>1. f \in [Slot -> T]
      BY <1>2 DEF Cached, FilesInv, CacheExact, FilesTypes
    <3>2. \A s, t \in Slot : f[s] = f[t] => s = t
      BY DEF FilesInv, CacheExact
    <3>3. IsFiniteSet(T) /\ Cardinality(T) = Cardinality(Num) - 1
      BY Ranges, FS_RemoveElement
    <3>4. Cardinality(Num) \in Nat /\ Slot = Num
      BY Ranges, FS_CardinalityType
    <3>5. Cardinality(T) < Cardinality(Slot) /\ IsFiniteSet(Slot)
      BY <3>3, <3>4, Ranges
    <3> HIDE DEF f, T
    <3>6. \E s, t \in Slot : s # t /\ f[s] = f[t]
      BY <3>1, <3>3, <3>5, FS_PigeonHole
    <3> QED BY <3>2, <3>6
  <2>2. Min(unused) \in unused
    BY <2>1, MinIn, Ranges
  <2> QED BY <1>2, <2>2 DEF SlotFor
<1> QED BY <1>1, <1>2

(* What is open keeps its slot when another inode is looked for.           *)
LEMMA SlotOfOpen ==
  ASSUME FilesInv, NEW i \in Num, NEW d \in Desc,
         f_desc_table[d].fd_inode = SlotFor(i)
  PROVE  FileOf(d) = i /\ i \in imap /\ inodes[i].i_mode = "I_REGULAR"
<1>1. f_desc_table[d].fd_inode # 0
  BY SlotTaken, Ranges
<1>2. inode_table[SlotFor(i)].i_cnt > 0
  BY <1>1, OpenIsHad
<1>3. inode_table[SlotFor(i)].i_num = i
  BY <1>2, SlotTaken DEF Cached
<1> QED BY <1>1, <1>3 DEF FileOf, FilesInv, OpenRegular

(* Nobody uses a slot that no descriptor refers to.                        *)
LEMMA UsersOfNone ==
  ASSUME FilesInv, NEW s \in Slot, \A d \in Desc : f_desc_table[d].fd_inode # s
  PROVE  Users(s) = {}
<1> SUFFICES ASSUME NEW p \in CountedProc, NEW k \in Fd, Reaches(p, k, s)
             PROVE  FALSE
  BY DEF Users
<1>1. p \in alive
  BY DEF CountedProc
<1>2. filp[p][k] \in Desc
  BY <1>1, HadIsOpen DEF Reaches
<1> QED BY <1>2 DEF Reaches

(* Names that are found are those of allocated inodes.                     *)
LEMMA NamedExists ==
  ASSUME FilesInv, NEW n, NEW slots \in SUBSET (1..DirMax), InodeNamed(n, slots) # 0
  PROVE  InodeNamed(n, slots) \in imap /\ InodeNamed(n, slots) \in Num
<1> DEFINE found == {k \in slots : dir[k].name = n}
<1>1. found # {} /\ InodeNamed(n, slots) = dir[Min(found)].inode_nr
  BY DEF InodeNamed
<1>2. Min(found) \in found
  <2>1. found \in SUBSET Nat
    BY Ranges
  <2> HIDE DEF found
  <2> QED BY <1>1, <2>1, MinIn
<1>3. Min(found) \in 1..DirMax
  BY <1>2
<1>4. InodeNamed(n, slots) \in imap
  BY <1>1, <1>3 DEF FilesInv, DirFits
<1> QED BY <1>4 DEF FilesInv, FilesTypes

-----------------------------------------------------------------------------
(* Who calls FS is counted and is at no fork.                              *)
LEMMA CallerCounted ==
  ASSUME FilesInv, NEW p, MayCall(p)
  PROVE  /\ p \in CountedProc /\ p \in Proc /\ p \in alive
         /\ forking # <<>> => p # forking[1] /\ p # forking[2]
<1>1. p \in alive /\ \A k \in DOMAIN forking : forking[k] # p
  BY DEF MayCall
<1>2. forking # <<>> => p # forking[1] /\ p # forking[2]
  <2>1. ASSUME NEW a, NEW b, forking = <<a, b>>
        PROVE  p # forking[1] /\ p # forking[2]
    BY <1>1, <2>1
  <2> QED BY <2>1 DEF FilesInv, ForkFits
<1> QED BY <1>1, <1>2 DEF CountedProc, FilesInv, FilesTypes

(* What is not about a fork of the caller stays.                           *)
LEMMA ForkUntouched ==
  ASSUME FilesInv, NEW p, MayCall(p), UNCHANGED procVars,
         \A q \in Proc : q # p => filp'[q] = filp[q]
  PROVE  ForkFits' /\ CountedProc' = CountedProc
<1>1. alive' = alive /\ forking' = forking
  BY DEF procVars
<1>2. CountedProc' = CountedProc
  BY <1>1 DEF CountedProc
<1>3. ASSUME NEW a \in alive, NEW b \in alive, a # b, forking = <<a, b>>, filp[b] = filp[a]
      PROVE  ForkFits'
  <2>1. p # a /\ p # b
    BY <1>3, CallerCounted
  <2>2. filp'[a] = filp[a] /\ filp'[b] = filp[b]
    BY <2>1 DEF FilesInv, FilesTypes
  <2> QED BY <1>1, <1>3, <2>2 DEF ForkFits
<1>4. ASSUME forking = <<>> PROVE ForkFits'
  BY <1>1, <1>4 DEF ForkFits
<1> QED BY <1>2, <1>3, <1>4 DEF FilesInv, ForkFits

(* One reference more to inode i.                                          *)
LEMMA GetDoes ==
  ASSUME FilesInv, NEW i \in Num, inode_table' = get_inode(i)
  PROVE  /\ inode_table' \in [Slot -> [i_num : Num \cup {0}, i_cnt : Nat]]
         /\ CacheExact'
         /\ \A s \in Slot : s # SlotFor(i) => inode_table'[s] = inode_table[s]
         /\ inode_table'[SlotFor(i)].i_cnt = inode_table[SlotFor(i)].i_cnt + 1
         /\ inode_table'[SlotFor(i)].i_num = i
         /\ \A d \in Desc : f_desc_table[d].fd_inode # 0 =>
              inode_table'[f_desc_table[d].fd_inode].i_num = FileOf(d)
<1> DEFINE t == SlotFor(i)
<1>1. t \in Slot /\ (t \in Cached(i) \/ (inode_table[t].i_cnt = 0 /\ Cached(i) = {}))
  BY SlotTaken
<1>2. inode_table \in [Slot -> [i_num : Num \cup {0}, i_cnt : Nat]]
  BY DEF FilesInv, FilesTypes
<1>3. inode_table' = [inode_table EXCEPT ![t] = [i_num |-> i, i_cnt |-> inode_table[t].i_cnt + 1]]
  BY DEF get_inode
<1> HIDE DEF t
<1>4. /\ inode_table' \in [Slot -> [i_num : Num \cup {0}, i_cnt : Nat]]
      /\ \A s \in Slot : s # t => inode_table'[s] = inode_table[s]
      /\ inode_table'[t] = [i_num |-> i, i_cnt |-> inode_table[t].i_cnt + 1]
  BY <1>1, <1>2, <1>3
<1>5. CacheExact'
  <2>1. \A s \in Slot : s # t /\ inode_table[s].i_cnt > 0 => inode_table[s].i_num # i
    BY <1>1 DEF Cached, FilesInv, CacheExact
  <2>2. \A s \in Slot : inode_table'[s].i_cnt > 0 => inode_table'[s].i_num # 0
    BY <1>4, Ranges DEF FilesInv, CacheExact
  <2>3. ASSUME NEW s \in Slot, NEW u \in Slot,
               inode_table'[s].i_cnt > 0, inode_table'[u].i_cnt > 0,
               inode_table'[s].i_num = inode_table'[u].i_num
        PROVE  s = u
    <3>1. CASE s # t /\ u # t
      BY <1>4, <2>3, <3>1 DEF FilesInv, CacheExact
    <3>2. CASE s = t \/ u = t
      BY <1>4, <2>1, <2>3, <3>2
    <3> QED BY <3>1, <3>2
  <2> QED BY <2>2, <2>3 DEF CacheExact
<1>6. ASSUME NEW d \in Desc, f_desc_table[d].fd_inode # 0
      PROVE  inode_table'[f_desc_table[d].fd_inode].i_num = FileOf(d)
  <2>1. f_desc_table[d].fd_inode \in Slot
    BY <1>6, OpenIsHad
  <2>2. CASE f_desc_table[d].fd_inode = t
    BY <1>4, <2>2, SlotOfOpen DEF t
  <2>3. CASE f_desc_table[d].fd_inode # t
    BY <1>4, <2>1, <2>3 DEF FileOf
  <2> QED BY <2>2, <2>3
<1> QED BY <1>4, <1>5, <1>6 DEF t

(* A new inode, whose slot nobody refers to, takes it or leaves it unused. *)
LEMMA NewDoes ==
  ASSUME FilesInv, NEW i \in Num \ imap, NEW v \in {[i_num |-> i, i_cnt |-> 1], Unused},
         inode_table' = [inode_table EXCEPT ![SlotFor(i)] = v]
  PROVE  /\ SlotFor(i) \in Slot
         /\ inode_table' \in [Slot -> [i_num : Num \cup {0}, i_cnt : Nat]]
         /\ CacheExact'
         /\ \A s \in Slot : s # SlotFor(i) => inode_table'[s] = inode_table[s]
         /\ inode_table'[SlotFor(i)] = v
         /\ Users(SlotFor(i)) = {}
         /\ \A d \in Desc : f_desc_table[d].fd_inode # SlotFor(i)
<1> DEFINE t == SlotFor(i)
<1>1. t \in Slot /\ (t \in Cached(i) \/ (inode_table[t].i_cnt = 0 /\ Cached(i) = {}))
  BY SlotTaken
<1>2. inode_table \in [Slot -> [i_num : Num \cup {0}, i_cnt : Nat]]
  BY DEF FilesInv, FilesTypes
<1>3. \A d \in Desc : f_desc_table[d].fd_inode # t
  BY SlotOfOpen
<1>4. Users(t) = {}
  BY <1>1, <1>3, UsersOfNone
<1> HIDE DEF t
<1>5. v \in [i_num : Num \cup {0}, i_cnt : Nat] /\ v.i_num \in {i, 0} /\ (v.i_cnt > 0 => v.i_num = i)
  BY DEF Unused
<1>6. /\ inode_table' \in [Slot -> [i_num : Num \cup {0}, i_cnt : Nat]]
      /\ \A s \in Slot : s # t => inode_table'[s] = inode_table[s]
      /\ inode_table'[t] = v
  BY <1>1, <1>2, <1>5 DEF t
<1>7. CacheExact'
  <2>1. \A s \in Slot : s # t /\ inode_table[s].i_cnt > 0 => inode_table[s].i_num # i
    BY <1>1 DEF Cached, FilesInv, CacheExact
  <2>2. \A s \in Slot : inode_table'[s].i_cnt > 0 => inode_table'[s].i_num # 0
    BY <1>5, <1>6, Ranges DEF FilesInv, CacheExact
  <2>3. ASSUME NEW s \in Slot, NEW u \in Slot,
               inode_table'[s].i_cnt > 0, inode_table'[u].i_cnt > 0,
               inode_table'[s].i_num = inode_table'[u].i_num
        PROVE  s = u
    <3>1. CASE s # t /\ u # t
      BY <1>6, <2>3, <3>1 DEF FilesInv, CacheExact
    <3>2. CASE s = t \/ u = t
      BY <1>5, <1>6, <2>1, <2>3, <3>2
    <3> QED BY <3>1, <3>2
  <2> QED BY <2>2, <2>3 DEF CacheExact
<1> QED BY <1>1, <1>3, <1>4, <1>6, <1>7 DEF t

(* The new descriptor of do_open.                                          *)
LEMMA AttachDoes ==
  ASSUME FilesInv, NEW p, MayCall(p), HasRoom(p), NEW s \in Slot, Attach(p, s),
         UNCHANGED procVars
  PROVE  /\ filp' \in [Proc -> [Fd -> Desc \cup {0}]]
         /\ f_desc_table' \in [Desc -> [fd_inode : Slot \cup {0}, fd_cnt : Nat]]
         /\ ForkFits' /\ SharersCounted'
         /\ Cardinality(Users(s)') = Cardinality(Users(s)) + 1
         /\ \A t \in Slot : t # s => Users(t)' = Users(t)
         /\ \A d \in Desc : f_desc_table[d].fd_inode # 0 => f_desc_table'[d] = f_desc_table[d]
         /\ \A d \in Desc : f_desc_table'[d].fd_inode # 0 =>
              f_desc_table[d].fd_inode # 0 \/ f_desc_table'[d].fd_inode = s
<1>0. /\ p \in CountedProc /\ p \in Proc
      /\ filp \in [Proc -> [Fd -> Desc \cup {0}]]
      /\ f_desc_table \in [Desc -> [fd_inode : Slot \cup {0}, fd_cnt : Nat]]
  BY CallerCounted DEF FilesInv, FilesTypes
<1>1. PICK k \in Fd : k = Min(FreeFd(p)) /\ filp[p][k] = 0
  <2>1. Min(FreeFd(p)) \in FreeFd(p)
    BY MinIn, Ranges DEF FreeFd, HasRoom
  <2> QED BY <2>1 DEF FreeFd
<1>2. PICK d \in Desc : d = Min(FreeDesc) /\ f_desc_table[d].fd_inode = 0
  <2>1. Min(FreeDesc) \in FreeDesc
    BY MinIn, Ranges DEF FreeDesc, HasRoom
  <2> QED BY <2>1 DEF FreeDesc
<1>3. /\ filp' = [filp EXCEPT ![p][k] = d]
      /\ f_desc_table' = [f_desc_table EXCEPT ![d] = [fd_inode |-> s, fd_cnt |-> 1]]
  BY <1>1, <1>2 DEF Attach
<1>4. /\ filp' \in [Proc -> [Fd -> Desc \cup {0}]]
      /\ f_desc_table' \in [Desc -> [fd_inode : Slot \cup {0}, fd_cnt : Nat]]
      /\ f_desc_table'[d] = [fd_inode |-> s, fd_cnt |-> 1]
      /\ \A e \in Desc : e # d => f_desc_table'[e] = f_desc_table[e]
      /\ \A q \in Proc : q # p => filp'[q] = filp[q]
      /\ filp'[p][k] = d
      /\ \A l \in Fd : l # k => filp'[p][l] = filp[p][l]
  <2>1. [fd_inode |-> s, fd_cnt |-> 1] \in [fd_inode : Slot \cup {0}, fd_cnt : Nat]
    OBVIOUS
  <2> QED BY <1>0, <1>1, <1>2, <1>3, <2>1
<1>5. ForkFits' /\ CountedProc' = CountedProc
  BY <1>4, ForkUntouched
<1>6. Sharers(d) = {}
  <2>1. f_desc_table[d].fd_cnt = 0
    BY <1>2 DEF FilesInv, SharersCounted
  <2> QED BY <1>2, <2>1, Countable, FS_EmptySet DEF FilesInv, SharersCounted
<1>7. CountedProc \subseteq Proc
  BY Countable DEF FilesInv
<1>8. \A q \in CountedProc, l \in Fd : filp[q][l] # d
  BY <1>6, SharerIs DEF FilesInv
<1>9. SharersCounted'
  <2>1. Sharers(d)' = {<<p, k>>}
    <3>1. \A q \in CountedProc, l \in Fd : filp'[q][l] = d <=> q = p /\ l = k
      BY <1>0, <1>1, <1>4, <1>7, <1>8
    <3>2. \A r \in CountedProc \X Fd : filp'[r[1]][r[2]] = d <=> r = <<p, k>>
      BY <3>1
    <3>3. <<p, k>> \in CountedProc \X Fd
      BY <1>0, <1>1
    <3>4. Sharers(d)' = {r \in CountedProc \X Fd : filp'[r[1]][r[2]] = d}
      BY <1>5 DEF Sharers
    <3> QED BY <3>2, <3>3, <3>4
  <2>2. \A e \in Desc : e # d => Sharers(e)' = Sharers(e)
    <3> SUFFICES ASSUME NEW e \in Desc, e # d
                 PROVE  Sharers(e)' = Sharers(e)
      OBVIOUS
    <3>1. \A q \in CountedProc, l \in Fd : filp'[q][l] = e <=> filp[q][l] = e
      BY <1>0, <1>1, <1>4, <1>7, Ranges
    <3> QED BY <1>5, <3>1 DEF Sharers
  <2>3. Cardinality({<<p, k>>}) = 1
    BY FS_Singleton
  <2>4. s # 0
    BY Ranges
  <2>5. ASSUME NEW e \in Desc
        PROVE  /\ f_desc_table'[e].fd_cnt = Cardinality(Sharers(e)')
               /\ f_desc_table'[e].fd_inode = 0 <=> f_desc_table'[e].fd_cnt = 0
    <3>1. CASE e = d
      <4>1. f_desc_table'[e].fd_cnt = 1 /\ f_desc_table'[e].fd_inode = s
        BY <1>4, <3>1
      <4>2. Cardinality(Sharers(e)') = 1
        BY <2>1, <2>3, <3>1
      <4> QED BY <2>4, <4>1, <4>2
    <3>2. CASE e # d
      BY <1>4, <2>2, <3>2 DEF SharersCounted, FilesInv
    <3> QED BY <3>1, <3>2
  <2> QED BY <2>5 DEF SharersCounted
<1>10. ASSUME NEW t \in Slot, NEW q \in CountedProc, NEW l \in Fd
       PROVE  Reaches(q, l, t)' <=> Reaches(q, l, t) \/ (q = p /\ l = k /\ t = s)
  <2>1. CASE q = p /\ l = k
    BY <1>1, <1>2, <1>4, <2>1, Ranges DEF Reaches
  <2>2. CASE ~(q = p /\ l = k)
    <3>1. filp'[q][l] = filp[q][l] /\ filp[q][l] # d /\ filp[q][l] \in Desc \cup {0}
      BY <1>0, <1>4, <1>7, <1>8, <2>2
    <3> QED BY <1>4, <2>2, <3>1 DEF Reaches
  <2> QED BY <2>1, <2>2
<1>11. \A t \in Slot : t # s => Users(t)' = Users(t)
  BY <1>5, <1>10 DEF Users
<1>12. Cardinality(Users(s)') = Cardinality(Users(s)) + 1
  <2>1. Users(s)' = Users(s) \cup {<<p, k>>}
    BY <1>0, <1>1, <1>5, <1>10 DEF Users
  <2>2. <<p, k>> \notin Users(s)
    BY <1>1 DEF Users, Reaches
  <2>3. IsFiniteSet(Users(s))
    BY Countable DEF FilesInv
  <2> QED BY <2>1, <2>2, <2>3, FS_AddElement
<1>13. \A e \in Desc : f_desc_table[e].fd_inode # 0 => f_desc_table'[e] = f_desc_table[e]
  BY <1>2, <1>4
<1>14. \A e \in Desc : f_desc_table'[e].fd_inode # 0 =>
          f_desc_table[e].fd_inode # 0 \/ f_desc_table'[e].fd_inode = s
  BY <1>4
<1> QED BY <1>4, <1>5, <1>9, <1>11, <1>12, <1>13, <1>14

-----------------------------------------------------------------------------
(* A state in which the counts are right has the inodes of what is open.   *)
OpenCached ==
  \A d \in Desc : f_desc_table[d].fd_inode # 0 =>
    f_desc_table[d].fd_inode \in Slot /\ inode_table[f_desc_table[d].fd_inode].i_cnt > 0

LEMMA CountsKeepOpen == FilesTypes /\ SharersCounted /\ UsersCounted => OpenCached
<1> SUFFICES ASSUME FilesTypes, SharersCounted, UsersCounted,
                    NEW d \in Desc, f_desc_table[d].fd_inode # 0
             PROVE  f_desc_table[d].fd_inode \in Slot /\ inode_table[f_desc_table[d].fd_inode].i_cnt > 0
  BY DEF OpenCached
<1> DEFINE s == f_desc_table[d].fd_inode
<1>1. s \in Slot
  BY DEF FilesTypes
<1>2. Sharers(d) # {}
  BY FS_EmptySet DEF SharersCounted
<1>3. PICK q \in CountedProc, k \in Fd : filp[q][k] = d
  BY <1>2 DEF Sharers
<1>4. <<q, k>> \in Users(s)
  BY <1>3, SharerIs, Ranges DEF Reaches
<1>5. Cardinality(Users(s)) \in Nat /\ Cardinality(Users(s)) # 0
  BY <1>4, Countable, FS_EmptySet
<1>6. inode_table[s].i_cnt >= Cardinality(Users(s)) /\ inode_table[s].i_cnt \in Nat
  BY <1>1 DEF UsersCounted, FilesTypes
<1> QED BY <1>1, <1>5, <1>6

(* So a step after which the counts are right, and which gives a cached    *)
(* inode no other number, leaves every open descriptor with its file.      *)
LEMMA CountsKeepFiles ==
  ASSUME FilesTypes', SharersCounted', UsersCounted',
         \A d \in Desc : f_desc_table'[d].fd_inode # 0 =>
           f_desc_table[d].fd_inode = f_desc_table'[d].fd_inode,
         \A s \in Slot : inode_table'[s].i_cnt > 0 => inode_table'[s].i_num = inode_table[s].i_num
  PROVE  /\ SameFiles
         /\ \A d \in Desc : f_desc_table'[d].fd_inode # 0 => FileOf(d)' = FileOf(d)
<1>1. (FilesTypes /\ SharersCounted /\ UsersCounted => OpenCached)'
  BY CountsKeepOpen, PTL
<1>2. OpenCached'
  BY <1>1
<1>3. ASSUME NEW d \in Desc, f_desc_table'[d].fd_inode # 0
      PROVE  FileOf(d)' = FileOf(d)
  BY <1>2, <1>3 DEF OpenCached, FileOf
<1> QED BY <1>3 DEF SameFiles

(* Who has what does not change.                                           *)
LEMMA RefsSame ==
  ASSUME FilesInv, UNCHANGED <<procVars, filp, f_desc_table>>
  PROVE  /\ ForkFits' /\ SharersCounted'
         /\ \A s : Users(s)' = Users(s)
<1>1. alive' = alive /\ forking' = forking /\ filp' = filp /\ f_desc_table' = f_desc_table
  BY DEF procVars
<1>2. ForkFits'
  BY <1>1 DEF FilesInv, ForkFits
<1>3. CountedProc' = CountedProc
  BY <1>1 DEF CountedProc
<1>4. \A d : Sharers(d)' = Sharers(d)
  BY <1>1, <1>3 DEF Sharers
<1>5. \A s : Users(s)' = Users(s)
  BY <1>1, <1>3 DEF Users, Reaches
<1> QED BY <1>1, <1>2, <1>4, <1>5 DEF FilesInv, SharersCounted

(* What is on the disk does not change, and open descriptors have their    *)
(* files, or a regular file that is allocated.                             *)
LEMMA DiskSame ==
  ASSUME FilesInv, UNCHANGED diskVars,
         \A d \in Desc : f_desc_table'[d].fd_inode # 0 =>
           \/ f_desc_table[d].fd_inode # 0 /\ FileOf(d)' = FileOf(d)
           \/ FileOf(d)' \in imap /\ inodes[FileOf(d)'].i_mode = "I_REGULAR"
  PROVE  OpenRegular' /\ DirFits'
<1>1. imap' = imap /\ inodes' = inodes /\ dir' = dir
  BY DEF diskVars
<1>2. ASSUME NEW d \in Desc, f_desc_table'[d].fd_inode # 0
      PROVE  FileOf(d)' \in imap /\ inodes[FileOf(d)'].i_mode = "I_REGULAR"
  BY <1>2 DEF FilesInv, OpenRegular
<1> QED BY <1>1, <1>2 DEF FilesInv, OpenRegular, DirFits

LEMMA DiskTypes ==
  ASSUME FilesInv, UNCHANGED diskVars
  PROVE  /\ imap' \subseteq Num
         /\ DOMAIN inodes' = Num
         /\ \A i \in Num : inodes'[i].i_mode \in {"none", "I_REGULAR", "I_DIRECTORY"}
         /\ dir' \in [1..DirMax -> [inode_nr : Num \cup {0}, name : Name \cup {"", "."}]]
         /\ nr_dir_entries' \in Nat
BY DEF FilesInv, FilesTypes, diskVars

-----------------------------------------------------------------------------
(* A reference that is kept: do_is_dir, do_ls and a refused do_unlink.     *)
LEMMA GetStep ==
  ASSUME FilesInv, NEW i \in Num, inode_table' = get_inode(i),
         UNCHANGED <<procVars, filp, f_desc_table, diskVars>>
  PROVE  FilesInv' /\ SameFiles
<1>1. alive' = alive /\ filp' = filp /\ f_desc_table' = f_desc_table /\ UNCHANGED diskVars
  BY DEF procVars
<1>2. ForkFits' /\ SharersCounted' /\ \A s : Users(s)' = Users(s)
  BY RefsSame
<1>3. FilesTypes'
  <2>1. inode_table' \in [Slot -> [i_num : Num \cup {0}, i_cnt : Nat]]
    BY GetDoes
  <2> QED BY <1>1, <2>1, DiskTypes DEF FilesTypes, FilesInv
<1>4. CacheExact'
  BY GetDoes
<1>5. UsersCounted'
  <2>1. \A s \in Slot : inode_table'[s].i_cnt >= inode_table[s].i_cnt /\ inode_table[s].i_cnt \in Nat
    <3>1. \A s \in Slot : inode_table[s].i_cnt \in Nat
      BY DEF FilesInv, FilesTypes
    <3> QED BY <3>1, GetDoes
  <2>2. \A s \in Slot : inode_table'[s].i_cnt \in Nat /\ Cardinality(Users(s)) \in Nat
    BY <1>3, Countable DEF FilesTypes, FilesInv
  <2>3. \A s \in Slot : inode_table[s].i_cnt >= Cardinality(Users(s))
    BY DEF FilesInv, UsersCounted
  <2>4. \A s \in Slot : inode_table'[s].i_cnt >= Cardinality(Users(s))
    BY <2>1, <2>2, <2>3
  <2> QED BY <1>2, <2>4 DEF UsersCounted
<1>6. \A d \in Desc : f_desc_table[d].fd_inode # 0 => FileOf(d)' = FileOf(d)
  BY <1>1, GetDoes DEF FileOf
<1>7. OpenRegular' /\ DirFits'
  BY <1>1, <1>6, DiskSame
<1> QED BY <1>1, <1>2, <1>3, <1>4, <1>5, <1>6, <1>7 DEF FilesInv, SameFiles

LEMMA OpenStep ==
  ASSUME FilesInv, ~ OpensDirs, NEW p, NEW n, do_open(p, n)
  PROVE  FilesInv' /\ SameFiles
<1>1. PICK i \in Num : i = search_file(n) /\ i \in imap
  BY NamedExists DEF do_open, search_file
<1>2. /\ MayCall(p) /\ HasRoom(p) /\ inode_table' = get_inode(i) /\ Attach(p, SlotFor(i))
      /\ UNCHANGED <<procVars, diskVars, panic>> /\ inodes[i].i_mode # "I_DIRECTORY"
  BY <1>1 DEF do_open
<1>3. inodes[i].i_mode = "I_REGULAR"
  BY <1>1, <1>2 DEF FilesInv, FilesTypes, DirFits
<1>4. PICK s \in Slot : s = SlotFor(i)
  BY SlotTaken
<1>5. Attach(p, s)
  BY <1>2, <1>4
<1>6. alive' = alive /\ UNCHANGED diskVars /\ UNCHANGED procVars
  BY <1>2 DEF procVars
<1>7. FilesTypes'
  <2>1. inode_table' \in [Slot -> [i_num : Num \cup {0}, i_cnt : Nat]]
    BY <1>2, GetDoes
  <2>2. /\ filp' \in [Proc -> [Fd -> Desc \cup {0}]]
        /\ f_desc_table' \in [Desc -> [fd_inode : Slot \cup {0}, fd_cnt : Nat]]
    BY <1>2, <1>5, <1>6, AttachDoes
  <2> QED BY <1>6, <2>1, <2>2, DiskTypes DEF FilesTypes, FilesInv
<1>8. ForkFits' /\ SharersCounted'
  BY <1>2, <1>5, <1>6, AttachDoes
<1>9. CacheExact'
  BY <1>2, GetDoes
<1>10. UsersCounted'
  <2>1. \A t \in Slot : inode_table[t].i_cnt \in Nat /\ Cardinality(Users(t)) \in Nat
                        /\ inode_table[t].i_cnt >= Cardinality(Users(t))
    BY Countable DEF FilesInv, FilesTypes, UsersCounted
  <2>2. ASSUME NEW t \in Slot PROVE inode_table'[t].i_cnt >= Cardinality(Users(t)')
    <3>1. CASE t = s
      <4>1. Cardinality(Users(s)') = Cardinality(Users(s)) + 1
        BY <1>2, <1>5, <1>6, AttachDoes
      <4>2. inode_table'[s].i_cnt = inode_table[s].i_cnt + 1
        BY <1>2, <1>4, GetDoes
      <4> QED BY <2>1, <3>1, <4>1, <4>2
    <3>2. CASE t # s
      <4>1. Users(t)' = Users(t)
        BY <1>2, <1>5, <1>6, <3>2, AttachDoes
      <4>2. inode_table'[t] = inode_table[t]
        BY <1>2, <1>4, <3>2, GetDoes
      <4> QED BY <2>1, <4>1, <4>2
    <3> QED BY <3>1, <3>2
  <2> QED BY <2>2 DEF UsersCounted
<1>11. ASSUME NEW d \in Desc, f_desc_table[d].fd_inode # 0
       PROVE  FileOf(d)' = FileOf(d)
  <2>1. f_desc_table'[d] = f_desc_table[d]
    BY <1>2, <1>5, <1>6, <1>11, AttachDoes
  <2>2. inode_table'[f_desc_table[d].fd_inode].i_num = FileOf(d)
    BY <1>2, <1>11, GetDoes
  <2> QED BY <2>1, <2>2 DEF FileOf
<1>12. ASSUME NEW d \in Desc, f_desc_table'[d].fd_inode # 0, f_desc_table[d].fd_inode = 0
       PROVE  FileOf(d)' = i
  <2>1. f_desc_table'[d].fd_inode = s
    BY <1>2, <1>5, <1>6, <1>12, AttachDoes
  <2>2. inode_table'[s].i_num = i
    BY <1>2, <1>4, GetDoes
  <2> QED BY <2>1, <2>2 DEF FileOf
<1>13. OpenRegular' /\ DirFits'
  BY <1>1, <1>3, <1>6, <1>11, <1>12, DiskSame
<1> QED BY <1>7, <1>8, <1>9, <1>10, <1>11, <1>13 DEF FilesInv, SameFiles

-----------------------------------------------------------------------------
(* A new file or directory: its inode was not allocated, so that no slot   *)
(* of the directory had it and no open descriptor.                         *)
LEMMA CreateDoes ==
  ASSUME FilesInv, NEW i \in Num, NEW n \in Name,
         NEW mode \in {"I_REGULAR", "I_DIRECTORY"}, create_file(i, n, mode)
  PROVE  /\ i \in Num \ imap
         /\ imap' = imap \cup {i}
         /\ DOMAIN inodes' = Num
         /\ \A j \in Num : inodes'[j].i_mode = IF j = i THEN mode ELSE inodes[j].i_mode
         /\ dir' \in [1..DirMax -> [inode_nr : Num \cup {0}, name : Name \cup {"", "."}]]
         /\ nr_dir_entries' \in Nat
         /\ DirFits'
<1>1. i \in Num \ imap
  <2>1. Num \ imap # {} /\ Num \ imap \in SUBSET Nat
    BY Ranges DEF create_file, FilesInv, FilesTypes
  <2>2. Min(Num \ imap) \in Num \ imap
    BY <2>1, MinIn
  <2> QED BY <2>2 DEF create_file, alloc_imap_bit
<1>2. PICK sect : inodes' = [inodes EXCEPT ![i] = [i_mode |-> mode, i_start_sect |-> sect]]
  BY DEF create_file
<1>3. DOMAIN inodes = Num /\ imap' = imap \cup {i}
  BY DEF FilesInv, FilesTypes, create_file
<1>4. DOMAIN inodes' = Num /\ \A j \in Num : inodes'[j].i_mode = IF j = i THEN mode ELSE inodes[j].i_mode
  BY <1>2, <1>3
<1>5. PICK k \in Nat : k = EmptySlot
  <2>1. nr_dir_entries \in Nat
    BY DEF FilesInv, FilesTypes
  <2> DEFINE holes == {l \in 1..nr_dir_entries : dir[l].inode_nr = 0}
  <2>2. holes # {} => Min(holes) \in Nat
    <3>1. holes \in SUBSET Nat
      OBVIOUS
    <3> HIDE DEF holes
    <3> QED BY <3>1, MinIn
  <2>3. EmptySlot = IF holes # {} THEN Min(holes) ELSE nr_dir_entries + 1
    BY Zenon DEF EmptySlot
  <2> HIDE DEF holes
  <2>4. EmptySlot \in Nat
    BY <2>1, <2>2, <2>3
  <2> QED BY <2>4
<1>6. dir' = [dir EXCEPT ![k] = [inode_nr |-> i, name |-> n]] /\ nr_dir_entries' \in {k, nr_dir_entries}
  BY <1>5 DEF create_file, new_dir_entry
<1>7. dir \in [1..DirMax -> [inode_nr : Num \cup {0}, name : Name \cup {"", "."}]]
  BY DEF FilesInv, FilesTypes
<1>8. dir' \in [1..DirMax -> [inode_nr : Num \cup {0}, name : Name \cup {"", "."}]]
  BY <1>6, <1>7
<1>9. \A l \in 1..DirMax : dir'[l].inode_nr = IF l = k THEN i ELSE dir[l].inode_nr
  BY <1>6, <1>7
<1>10. DirFits'
  <2>1. \A l \in 1..DirMax : dir[l].inode_nr # i
    BY <1>1, Ranges DEF FilesInv, DirFits
  <2>2. \A j \in imap' : inodes'[j].i_mode # "none"
    BY <1>3, <1>4 DEF FilesInv, FilesTypes, DirFits
  <2>3. \A l \in 1..DirMax : dir'[l].inode_nr # 0 => dir'[l].inode_nr \in imap'
    BY <1>3, <1>9 DEF FilesInv, DirFits
  <2>4. \A l, m \in 1..DirMax :
          dir'[l].inode_nr # 0 /\ dir'[l].inode_nr = dir'[m].inode_nr => l = m
    <3> SUFFICES ASSUME NEW l \in 1..DirMax, NEW m \in 1..DirMax,
                        dir'[l].inode_nr # 0, dir'[l].inode_nr = dir'[m].inode_nr
                 PROVE  l = m
      OBVIOUS
    <3> QED BY <1>9, <2>1 DEF FilesInv, DirFits
  <2> QED BY <2>2, <2>3, <2>4 DEF DirFits
<1>11. nr_dir_entries' \in Nat
  BY <1>5, <1>6 DEF FilesInv, FilesTypes
<1> QED BY <1>1, <1>3, <1>4, <1>8, <1>10, <1>11

LEMMA CreatStep ==
  ASSUME FilesInv, NEW p, NEW n \in Name, do_open_creat(p, n)
  PROVE  FilesInv' /\ SameFiles
<1>1. PICK i \in Num : /\ create_file(i, n, "I_REGULAR")
                      /\ inode_table' = new_inode(i) /\ Attach(p, SlotFor(i))
  BY DEF do_open_creat
<1>2. MayCall(p) /\ HasRoom(p) /\ UNCHANGED procVars /\ alive' = alive
  BY DEF do_open_creat, procVars
<1>3. /\ i \in Num \ imap /\ imap' = imap \cup {i} /\ DOMAIN inodes' = Num
      /\ \A j \in Num : inodes'[j].i_mode = IF j = i THEN "I_REGULAR" ELSE inodes[j].i_mode
      /\ dir' \in [1..DirMax -> [inode_nr : Num \cup {0}, name : Name \cup {"", "."}]]
      /\ nr_dir_entries' \in Nat /\ DirFits'
  BY <1>1, CreateDoes
<1>4. PICK v : v = [i_num |-> i, i_cnt |-> 1]
  OBVIOUS
<1>5. inode_table' = [inode_table EXCEPT ![SlotFor(i)] = v] /\ v \in {[i_num |-> i, i_cnt |-> 1], Unused}
  BY <1>1, <1>4 DEF new_inode
<1>6. PICK s \in Slot : s = SlotFor(i)
  BY <1>3, SlotTaken
<1>7. /\ inode_table' \in [Slot -> [i_num : Num \cup {0}, i_cnt : Nat]] /\ CacheExact'
      /\ \A t \in Slot : t # s => inode_table'[t] = inode_table[t]
      /\ inode_table'[s] = v /\ Users(s) = {}
      /\ \A d \in Desc : f_desc_table[d].fd_inode # s
  BY <1>3, <1>5, <1>6, NewDoes
<1>8. /\ filp' \in [Proc -> [Fd -> Desc \cup {0}]]
      /\ f_desc_table' \in [Desc -> [fd_inode : Slot \cup {0}, fd_cnt : Nat]]
      /\ ForkFits' /\ SharersCounted'
      /\ Cardinality(Users(s)') = Cardinality(Users(s)) + 1
      /\ \A t \in Slot : t # s => Users(t)' = Users(t)
      /\ \A d \in Desc : f_desc_table[d].fd_inode # 0 => f_desc_table'[d] = f_desc_table[d]
      /\ \A d \in Desc : f_desc_table'[d].fd_inode # 0 =>
           f_desc_table[d].fd_inode # 0 \/ f_desc_table'[d].fd_inode = s
  <2>1. Attach(p, s)
    BY <1>1, <1>6
  <2> QED BY <1>2, <2>1, AttachDoes
<1>9. FilesTypes'
  BY <1>2, <1>3, <1>7, <1>8 DEF FilesTypes, FilesInv
<1>10. UsersCounted'
  <2>1. \A t \in Slot : t # s => inode_table'[t].i_cnt >= Cardinality(Users(t)')
    BY <1>7, <1>8 DEF FilesInv, UsersCounted
  <2>2. Cardinality(Users(s)') = 1
    BY <1>7, <1>8, FS_EmptySet
  <2>3. inode_table'[s].i_cnt >= Cardinality(Users(s)')
    BY <1>4, <1>7, <2>2
  <2> QED BY <2>1, <2>3 DEF UsersCounted
<1>11. ASSUME NEW d \in Desc, f_desc_table[d].fd_inode # 0
       PROVE  FileOf(d)' = FileOf(d)
  <2>1. f_desc_table'[d] = f_desc_table[d] /\ f_desc_table[d].fd_inode \in Slot
    BY <1>8, <1>11, OpenIsHad
  <2> QED BY <1>7, <2>1 DEF FileOf
<1>12. ASSUME NEW d \in Desc, f_desc_table'[d].fd_inode # 0
       PROVE  FileOf(d)' \in imap' /\ inodes'[FileOf(d)'].i_mode = "I_REGULAR"
  <2>1. CASE f_desc_table[d].fd_inode # 0
    <3>1. FileOf(d)' = FileOf(d) /\ FileOf(d) \in imap /\ inodes[FileOf(d)].i_mode = "I_REGULAR"
      BY <1>11, <2>1 DEF FilesInv, OpenRegular
    <3>2. FileOf(d) \in Num
      BY <3>1 DEF FilesInv, FilesTypes
    <3> QED BY <1>3, <3>1, <3>2
  <2>2. CASE f_desc_table[d].fd_inode = 0
    <3>1. f_desc_table'[d].fd_inode = s
      BY <1>8, <1>12, <2>2
    <3>2. FileOf(d)' = i
      BY <1>4, <1>7, <3>1 DEF FileOf
    <3> QED BY <1>3, <3>2
  <2> QED BY <2>1, <2>2
<1>13. OpenRegular'
  BY <1>12 DEF OpenRegular
<1> QED BY <1>3, <1>7, <1>8, <1>9, <1>10, <1>11, <1>13 DEF FilesInv, SameFiles

LEMMA MkdirStep ==
  ASSUME FilesInv, NEW p, NEW n \in Name, do_mkdir(p, n)
  PROVE  FilesInv' /\ SameFiles
<1>1. PICK i \in Num : /\ create_file(i, n, "I_DIRECTORY")
                      /\ inode_table' = [inode_table EXCEPT ![SlotFor(i)] = Unused]
  BY DEF do_mkdir
<1>2. alive' = alive /\ UNCHANGED <<procVars, filp, f_desc_table>> /\ filp' = filp /\ f_desc_table' = f_desc_table
  BY DEF do_mkdir, procVars
<1>3. /\ i \in Num \ imap /\ imap' = imap \cup {i} /\ DOMAIN inodes' = Num
      /\ \A j \in Num : inodes'[j].i_mode = IF j = i THEN "I_DIRECTORY" ELSE inodes[j].i_mode
      /\ dir' \in [1..DirMax -> [inode_nr : Num \cup {0}, name : Name \cup {"", "."}]]
      /\ nr_dir_entries' \in Nat /\ DirFits'
  BY <1>1, CreateDoes
<1>4. PICK s \in Slot : s = SlotFor(i)
  BY <1>3, SlotTaken
<1>5. /\ inode_table' \in [Slot -> [i_num : Num \cup {0}, i_cnt : Nat]] /\ CacheExact'
      /\ \A t \in Slot : t # s => inode_table'[t] = inode_table[t]
      /\ inode_table'[s] = Unused /\ Users(s) = {}
      /\ \A d \in Desc : f_desc_table[d].fd_inode # s
  BY <1>1, <1>3, <1>4, NewDoes
<1>6. ForkFits' /\ SharersCounted' /\ \A t : Users(t)' = Users(t)
  BY <1>2, RefsSame
<1>7. FilesTypes'
  BY <1>2, <1>3, <1>5 DEF FilesTypes, FilesInv
<1>8. UsersCounted'
  <2>1. \A t \in Slot : t # s => inode_table'[t].i_cnt >= Cardinality(Users(t)')
    BY <1>5, <1>6 DEF FilesInv, UsersCounted
  <2>2. inode_table'[s].i_cnt >= Cardinality(Users(s)')
    BY <1>5, <1>6, FS_EmptySet, SMTT(30) DEF Unused
  <2> QED BY <2>1, <2>2 DEF UsersCounted
<1>9. ASSUME NEW d \in Desc, f_desc_table[d].fd_inode # 0
      PROVE  FileOf(d)' = FileOf(d)
  <2>1. f_desc_table[d].fd_inode \in Slot
    BY <1>9, OpenIsHad
  <2> QED BY <1>2, <1>5, <2>1 DEF FileOf
<1>10. ASSUME NEW d \in Desc, f_desc_table[d].fd_inode # 0
       PROVE  FileOf(d)' \in imap' /\ inodes'[FileOf(d)'].i_mode = "I_REGULAR"
  <2>1. FileOf(d)' = FileOf(d) /\ FileOf(d) \in imap /\ inodes[FileOf(d)].i_mode = "I_REGULAR"
    BY <1>9, <1>10 DEF FilesInv, OpenRegular
  <2>2. FileOf(d) \in Num
    BY <2>1 DEF FilesInv, FilesTypes
  <2> QED BY <1>3, <2>1, <2>2
<1>11. OpenRegular'
  BY <1>2, <1>10 DEF OpenRegular
<1> QED BY <1>2, <1>3, <1>5, <1>6, <1>7, <1>8, <1>9, <1>11 DEF FilesInv, SameFiles

-----------------------------------------------------------------------------
(* An entry of f_desc_table or of the cache with n references less.        *)
LEMMA ReleasedIs ==
  ASSUME NEW desc \in [fd_inode : Slot \cup {0}, fd_cnt : Nat],
         NEW n \in Nat, n <= desc.fd_cnt
  PROVE  /\ Released(desc, n) \in [fd_inode : Slot \cup {0}, fd_cnt : Nat]
         /\ Released(desc, n).fd_cnt = desc.fd_cnt - n
         /\ Released(desc, n).fd_inode = IF desc.fd_cnt = n THEN 0 ELSE desc.fd_inode
<1>1. CASE desc.fd_cnt = n
  BY <1>1 DEF Released, Closed
<1>2. CASE desc.fd_cnt # n
  <2>1. Released(desc, n) = [desc EXCEPT !.fd_cnt = desc.fd_cnt - n]
    BY <1>2 DEF Released
  <2>2. desc.fd_cnt - n \in Nat /\ desc.fd_inode \in Slot \cup {0}
    OBVIOUS
  <2>3. desc = [fd_inode |-> desc.fd_inode, fd_cnt |-> desc.fd_cnt]
    OBVIOUS
  <2> QED BY <1>2, <2>1, <2>2, <2>3
<1> QED BY <1>1, <1>2

LEMMA DroppedIs ==
  ASSUME NEW inode \in [i_num : Num \cup {0}, i_cnt : Nat],
         NEW n \in Nat, n <= inode.i_cnt
  PROVE  /\ Dropped(inode, n) \in [i_num : Num \cup {0}, i_cnt : Nat]
         /\ Dropped(inode, n).i_cnt = inode.i_cnt - n
         /\ Dropped(inode, n).i_cnt > 0 => Dropped(inode, n).i_num = inode.i_num
<1>1. CASE inode.i_cnt = n
  BY <1>1 DEF Dropped, Unused
<1>2. CASE inode.i_cnt # n
  <2>1. Dropped(inode, n) = [inode EXCEPT !.i_cnt = inode.i_cnt - n]
    BY <1>2 DEF Dropped
  <2>2. inode.i_cnt - n \in Nat /\ inode.i_num \in Num \cup {0}
    OBVIOUS
  <2>3. inode = [i_num |-> inode.i_num, i_cnt |-> inode.i_cnt]
    OBVIOUS
  <2> QED BY <1>2, <2>1, <2>2, <2>3
<1> QED BY <1>1, <1>2

LEMMA RemovedOne ==
  ASSUME NEW T, IsFiniteSet(T), NEW x \in T
  PROVE  Cardinality(T \ {x}) = Cardinality(T) - 1
BY FS_RemoveElement

(* The assertion of put_inode holds, and one user less is counted where    *)
(* one user less is.                                                       *)
LEMMA CloseStep ==
  ASSUME FilesInv, NEW p, NEW h \in Fd, do_close(p, h)
  PROVE  FilesInv' /\ SameFiles /\ panic' = panic
<1>1. /\ p \in CountedProc /\ p \in Proc /\ p \in alive /\ MayCall(p) /\ filp[p][h] # 0
      /\ CountedProc \subseteq Proc
  BY CallerCounted, Countable DEF do_close, FilesInv
<1>2. PICK d \in Desc : d = filp[p][h]
  BY <1>1, HadIsOpen
<1>3. PICK s \in Slot : s = f_desc_table[d].fd_inode
  BY <1>1, <1>2, HadIsOpen
<1>4. /\ filp \in [Proc -> [Fd -> Desc \cup {0}]]
      /\ f_desc_table \in [Desc -> [fd_inode : Slot \cup {0}, fd_cnt : Nat]]
      /\ inode_table \in [Slot -> [i_num : Num \cup {0}, i_cnt : Nat]]
  BY DEF FilesInv, FilesTypes
<1>5. /\ <<p, h>> \in Sharers(d) /\ <<p, h>> \in Users(s)
      /\ IsFiniteSet(Sharers(d)) /\ IsFiniteSet(Users(s))
      /\ Cardinality(Sharers(d)) \in Nat \ {0} /\ Cardinality(Users(s)) \in Nat \ {0}
  <2>1. <<p, h>> \in Sharers(d) /\ <<p, h>> \in Users(s)
    BY <1>1, <1>2, <1>3, SharerIs DEF FilesInv, Reaches
  <2> QED BY <2>1, Countable, FS_EmptySet DEF FilesInv
<1>6. /\ f_desc_table[d].fd_cnt = Cardinality(Sharers(d))
      /\ inode_table[s].i_cnt >= Cardinality(Users(s)) /\ inode_table[s].i_cnt # 0
  BY <1>4, <1>5 DEF FilesInv, SharersCounted, UsersCounted
<1>7. /\ inode_table' = [inode_table EXCEPT ![s] = Dropped(@, 1)]
      /\ f_desc_table' = [f_desc_table EXCEPT ![d] = Released(@, 1)]
      /\ filp' = [filp EXCEPT ![p][h] = 0]
      /\ UNCHANGED <<procVars, diskVars, panic>>
  BY <1>2, <1>3, <1>6 DEF do_close, put_inode
<1>8. /\ filp' \in [Proc -> [Fd -> Desc \cup {0}]]
      /\ \A q \in Proc : q # p => filp'[q] = filp[q]
      /\ filp'[p][h] = 0
      /\ \A l \in Fd : l # h => filp'[p][l] = filp[p][l]
  BY <1>1, <1>4, <1>7
<1>9. /\ f_desc_table' \in [Desc -> [fd_inode : Slot \cup {0}, fd_cnt : Nat]]
      /\ f_desc_table'[d] = Released(f_desc_table[d], 1)
      /\ \A e \in Desc : e # d => f_desc_table'[e] = f_desc_table[e]
      /\ f_desc_table'[d].fd_cnt = f_desc_table[d].fd_cnt - 1
      /\ f_desc_table'[d].fd_inode = IF f_desc_table[d].fd_cnt = 1 THEN 0 ELSE s
  <2>1. /\ Released(f_desc_table[d], 1) \in [fd_inode : Slot \cup {0}, fd_cnt : Nat]
        /\ Released(f_desc_table[d], 1).fd_cnt = f_desc_table[d].fd_cnt - 1
        /\ Released(f_desc_table[d], 1).fd_inode = IF f_desc_table[d].fd_cnt = 1 THEN 0 ELSE s
    <3>1. f_desc_table[d] \in [fd_inode : Slot \cup {0}, fd_cnt : Nat] /\ 1 <= f_desc_table[d].fd_cnt
      BY <1>4, <1>5, <1>6
    <3> QED BY <1>3, <3>1, ReleasedIs
  <2> QED BY <1>4, <1>7, <2>1
<1>10. /\ inode_table' \in [Slot -> [i_num : Num \cup {0}, i_cnt : Nat]]
       /\ \A t \in Slot : t # s => inode_table'[t] = inode_table[t]
       /\ inode_table'[s].i_cnt = inode_table[s].i_cnt - 1
       /\ inode_table'[s].i_cnt > 0 => inode_table'[s].i_num = inode_table[s].i_num
  <2>1. /\ Dropped(inode_table[s], 1) \in [i_num : Num \cup {0}, i_cnt : Nat]
        /\ Dropped(inode_table[s], 1).i_cnt = inode_table[s].i_cnt - 1
        /\ Dropped(inode_table[s], 1).i_cnt > 0 => Dropped(inode_table[s], 1).i_num = inode_table[s].i_num
    <3>1. inode_table[s] \in [i_num : Num \cup {0}, i_cnt : Nat] /\ 1 <= inode_table[s].i_cnt
      BY <1>4, <1>5, <1>6
    <3> QED BY <3>1, DroppedIs
  <2> QED BY <1>4, <1>7, <2>1
<1>11. alive' = alive /\ UNCHANGED diskVars /\ UNCHANGED procVars
  BY <1>7 DEF procVars
<1>12. FilesTypes'
  BY <1>8, <1>9, <1>10, <1>11, DiskTypes DEF FilesTypes, FilesInv
<1>13. ForkFits' /\ CountedProc' = CountedProc
  BY <1>1, <1>8, <1>11, ForkUntouched
<1>14. SharersCounted'
  <2>1. \A q \in CountedProc, l \in Fd, e \in Desc :
          filp'[q][l] = e <=> filp[q][l] = e /\ ~(q = p /\ l = h)
    BY <1>1, <1>8, Ranges
  <2>2. Sharers(d)' = Sharers(d) \ {<<p, h>>}
    BY <1>13, <2>1 DEF Sharers
  <2>3. Cardinality(Sharers(d)') = Cardinality(Sharers(d)) - 1
    <3>1. Cardinality(Sharers(d) \ {<<p, h>>}) = Cardinality(Sharers(d)) - 1
      BY <1>5, RemovedOne
    <3> QED BY <2>2, <3>1
  <2>4. ASSUME NEW e \in Desc, e # d PROVE Sharers(e)' = Sharers(e)
    <3>1. \A q \in CountedProc, l \in Fd : filp'[q][l] = e <=> filp[q][l] = e
      BY <1>2, <2>1, <2>4
    <3> QED BY <1>13, <3>1 DEF Sharers
  <2>5. ASSUME NEW e \in Desc
        PROVE  /\ f_desc_table'[e].fd_cnt = Cardinality(Sharers(e)')
               /\ f_desc_table'[e].fd_inode = 0 <=> f_desc_table'[e].fd_cnt = 0
    <3>1. CASE e = d
      <4>1. f_desc_table'[d].fd_cnt = Cardinality(Sharers(d)')
        BY <1>6, <1>9, <2>3
      <4>2. f_desc_table'[d].fd_inode = 0 <=> f_desc_table'[d].fd_cnt = 0
        BY <1>5, <1>6, <1>9, Ranges
      <4> QED BY <3>1, <4>1, <4>2
    <3>2. CASE e # d
      BY <1>9, <2>4, <3>2 DEF SharersCounted, FilesInv
    <3> QED BY <3>1, <3>2
  <2> QED BY <2>5 DEF SharersCounted
<1>15. ASSUME NEW q \in CountedProc, NEW l \in Fd, NEW t \in Slot
       PROVE  Reaches(q, l, t)' <=> Reaches(q, l, t) /\ ~(q = p /\ l = h)
  <2>1. CASE q = p /\ l = h
    BY <1>8, <2>1 DEF Reaches
  <2>2. CASE ~(q = p /\ l = h) /\ filp[q][l] = d
    <3>1. filp'[q][l] = d
      BY <1>1, <1>8, <2>2
    <3>2. <<q, l>> \in Sharers(d)'
      BY <1>13, <3>1 DEF Sharers
    <3>3. Cardinality(Sharers(d)') # 0
      <4>1. (FilesTypes => SharersFinite)'
        BY TypesFinite, PTL
      <4>2. IsFiniteSet(Sharers(d)')
        BY <1>12, <4>1 DEF SharersFinite
      <4> QED BY <3>2, <4>2, FS_EmptySet
    <3>4. f_desc_table'[d].fd_inode # 0
      BY <1>14, <3>3 DEF SharersCounted
    <3>5. f_desc_table'[d].fd_inode = f_desc_table[d].fd_inode
      BY <1>3, <1>9, <3>4
    <3> QED BY <2>2, <3>1, <3>5 DEF Reaches
  <2>3. CASE ~(q = p /\ l = h) /\ filp[q][l] # d
    <3>1. filp'[q][l] = filp[q][l] /\ filp[q][l] \in Desc \cup {0}
      BY <1>1, <1>4, <1>8, <2>3
    <3> QED BY <1>9, <2>3, <3>1 DEF Reaches
  <2> QED BY <2>1, <2>2, <2>3
<1>16. UsersCounted'
  <2>1. \A t \in Slot : Users(t)' = Users(t) \ {<<p, h>>}
    BY <1>13, <1>15 DEF Users
  <2>2. ASSUME NEW t \in Slot PROVE inode_table'[t].i_cnt >= Cardinality(Users(t)')
    <3>1. CASE t = s
      <4>0. Cardinality(Users(s) \ {<<p, h>>}) = Cardinality(Users(s)) - 1
        BY <1>5, RemovedOne
      <4>1. Cardinality(Users(s)') = Cardinality(Users(s)) - 1
        BY <2>1, <4>0
      <4> QED BY <1>4, <1>5, <1>6, <1>10, <3>1, <4>1
    <3>2. CASE t # s
      <4>1. <<p, h>> \notin Users(t)
        BY <1>1, <1>2, <1>3, <3>2, SharerIs DEF FilesInv, Reaches
      <4>2. Users(t)' = Users(t)
        BY <2>1, <4>1
      <4> QED BY <1>10, <3>2, <4>2 DEF FilesInv, UsersCounted
    <3> QED BY <3>1, <3>2
  <2> QED BY <2>2 DEF UsersCounted
<1>17. CacheExact'
  <2>1. \A t \in Slot : inode_table'[t].i_cnt > 0 =>
          inode_table[t].i_cnt > 0 /\ inode_table'[t].i_num = inode_table[t].i_num
    BY <1>4, <1>6, <1>10
  <2> QED BY <2>1 DEF CacheExact, FilesInv
<1>18. SameFiles /\ \A e \in Desc : f_desc_table'[e].fd_inode # 0 => FileOf(e)' = FileOf(e)
  <2>1. \A e \in Desc : f_desc_table'[e].fd_inode # 0 => f_desc_table[e].fd_inode = f_desc_table'[e].fd_inode
    BY <1>3, <1>9
  <2>2. \A t \in Slot : inode_table'[t].i_cnt > 0 => inode_table'[t].i_num = inode_table[t].i_num
    BY <1>10
  <2> QED BY <1>12, <1>14, <1>16, <2>1, <2>2, CountsKeepFiles
<1>19. OpenRegular' /\ DirFits'
  <2>1. \A e \in Desc : f_desc_table'[e].fd_inode # 0 => f_desc_table[e].fd_inode # 0
    BY <1>3, <1>9, Ranges
  <2> QED BY <1>11, <1>18, <2>1, DiskSame
<1> QED BY <1>7, <1>12, <1>13, <1>14, <1>16, <1>17, <1>18, <1>19 DEF FilesInv


-----------------------------------------------------------------------------
(* MM's copy for the child, which is not counted yet.                      *)
LEMMA ForkCopyStep ==
  ASSUME FilesInv, NEW p, NEW c \in Proc, ForkCopy(p, c)
  PROVE  FilesInv' /\ SameFiles
<1>1. /\ p \in alive /\ c \notin alive /\ c # p /\ p \in Proc
      /\ forking = <<>> /\ forking' = <<p, c>> /\ alive' = alive \cup {c}
      /\ filp' = [filp EXCEPT ![c] = filp[p]]
      /\ f_desc_table' = f_desc_table /\ inode_table' = inode_table /\ UNCHANGED diskVars
  BY CallerCounted DEF ForkCopy
<1>2. filp \in [Proc -> [Fd -> Desc \cup {0}]]
  BY DEF FilesInv, FilesTypes
<1>3. /\ filp' \in [Proc -> [Fd -> Desc \cup {0}]]
      /\ filp'[c] = filp[p] /\ \A q \in Proc : q # c => filp'[q] = filp[q]
  BY <1>1, <1>2
<1>4. alive' \subseteq Proc /\ alive \subseteq Proc
  BY <1>1 DEF FilesInv, FilesTypes
<1>5. FilesTypes'
  BY <1>1, <1>3, <1>4, DiskTypes DEF FilesTypes, FilesInv
<1>6. ForkFits'
  BY <1>1, <1>3 DEF ForkFits
<1>7. CountedProc' = alive /\ CountedProc = alive
  <2>1. forking' # <<>> /\ forking'[2] = c
    BY <1>1
  <2> QED BY <1>1, <2>1 DEF CountedProc
<1>8. \A q \in alive : filp'[q] = filp[q]
  BY <1>1, <1>3, <1>4
<1>9. SharersCounted'
  <2>1. \A d \in Desc : Sharers(d)' = Sharers(d)
    BY <1>7, <1>8 DEF Sharers
  <2> QED BY <1>1, <2>1 DEF SharersCounted, FilesInv
<1>10. UsersCounted'
  <2>1. \A s \in Slot : Users(s)' = Users(s)
    BY <1>1, <1>7, <1>8 DEF Users, Reaches
  <2> QED BY <1>1, <2>1 DEF UsersCounted, FilesInv
<1>11. CacheExact'
  BY <1>1 DEF CacheExact, FilesInv
<1>12. \A d \in Desc : FileOf(d)' = FileOf(d)
  BY <1>1 DEF FileOf
<1>13. OpenRegular' /\ DirFits'
  BY <1>1, <1>12, DiskSame
<1> QED BY <1>5, <1>6, <1>9, <1>10, <1>11, <1>12, <1>13 DEF FilesInv, SameFiles

(* The references of one process, as descriptors and as pairs.             *)
LEMMA OfOne ==
  ASSUME NEW c, NEW K \in SUBSET Fd
  PROVE  /\ IsFiniteSet({c} \X K) /\ Cardinality({c} \X K) = Cardinality(K)
         /\ IsFiniteSet(K) /\ Cardinality(K) \in Nat
<1>1. IsFiniteSet(K) /\ Cardinality(K) \in Nat
  BY Ranges, FS_Subset, FS_CardinalityType
<1>2. IsFiniteSet({c}) /\ Cardinality({c}) = 1
  BY FS_Singleton
<1>3. IsFiniteSet({c} \X K) /\ Cardinality({c} \X K) = 1 * Cardinality(K)
  BY <1>1, <1>2, FS_Product
<1> QED BY <1>1, <1>3

(* What is counted together where one of two sets is of one process.       *)
LEMMA CountedWith ==
  ASSUME NEW T, IsFiniteSet(T), NEW c, NEW K \in SUBSET Fd, \A k \in K : <<c, k>> \notin T
  PROVE  Cardinality(T \cup ({c} \X K)) = Cardinality(T) + Cardinality(K)
<1> DEFINE U == {c} \X K
<1>1. T \cap U = {}
  OBVIOUS
<1>2. IsFiniteSet(U) /\ Cardinality(U) = Cardinality(K) /\ Cardinality(K) \in Nat
  BY OfOne
<1> HIDE DEF U
<1>3. Cardinality(T \cup U) = Cardinality(T) + Cardinality(U) - Cardinality({})
  BY <1>1, <1>2, FS_Union
<1>4. Cardinality(T) \in Nat /\ Cardinality({}) = 0
  BY FS_CardinalityType, FS_EmptySet
<1>5. Cardinality(T \cup U) = Cardinality(T) + Cardinality(K)
  BY <1>2, <1>3, <1>4
<1> QED BY <1>5 DEF U

LEMMA CountedWithout ==
  ASSUME NEW T, IsFiniteSet(T), NEW c, NEW K \in SUBSET Fd, \A k \in K : <<c, k>> \in T
  PROVE  /\ Cardinality(T \ ({c} \X K)) = Cardinality(T) - Cardinality(K)
         /\ Cardinality(K) <= Cardinality(T)
<1>1. ({c} \X K) \subseteq T
  OBVIOUS
<1>2. IsFiniteSet(T \ ({c} \X K))
  BY FS_Difference
<1>3. T = (T \ ({c} \X K)) \cup ({c} \X K) /\ \A k \in K : <<c, k>> \notin T \ ({c} \X K)
  BY <1>1
<1>4. Cardinality(T) = Cardinality(T \ ({c} \X K)) + Cardinality(K)
  <2> DEFINE R == T \ ({c} \X K)
  <2>1. IsFiniteSet(R) /\ \A k \in K : <<c, k>> \notin R
    BY <1>2, <1>3
  <2> HIDE DEF R
  <2>2. Cardinality(R \cup ({c} \X K)) = Cardinality(R) + Cardinality(K)
    BY <2>1, CountedWith
  <2> QED BY <1>3, <2>2 DEF R
<1>5. Cardinality(T \ ({c} \X K)) \in Nat /\ Cardinality(K) \in Nat /\ Cardinality(T) \in Nat
  BY <1>2, OfOne, FS_CardinalityType
<1> QED BY <1>4, <1>5


(* FS counts what the child has; the child has nothing that its parent     *)
(* does not have, so what was free stays free.                             *)
LEMMA ForkStep ==
  ASSUME FilesInv, fs_fork
  PROVE  FilesInv' /\ SameFiles
<1>1. PICK p \in alive, c \in alive : p # c /\ forking = <<p, c>> /\ filp[c] = filp[p]
  BY DEF FilesInv, ForkFits, fs_fork
<1>2. /\ filp \in [Proc -> [Fd -> Desc \cup {0}]]
      /\ f_desc_table \in [Desc -> [fd_inode : Slot \cup {0}, fd_cnt : Nat]]
      /\ inode_table \in [Slot -> [i_num : Num \cup {0}, i_cnt : Nat]]
      /\ alive \subseteq Proc
  BY DEF FilesInv, FilesTypes
<1>3. CountedProc = alive \ {c} /\ p \in CountedProc
  BY <1>1 DEF CountedProc
<1>4. /\ f_desc_table' = [d \in Desc |-> [f_desc_table[d] EXCEPT !.fd_cnt = FdCounted(d, c)]]
      /\ inode_table' = [s \in Slot |-> [inode_table[s] EXCEPT !.i_cnt = InodeCounted(s, c)]]
      /\ forking' = <<>> /\ alive' = alive /\ filp' = filp /\ UNCHANGED diskVars
  BY <1>1 DEF fs_fork
<1>5. CountedProc' = alive
  BY <1>4 DEF CountedProc
<1> DEFINE Has(d) == {k \in Fd : filp[c][k] = d}
           Uses(s) == {k \in Fd : Reaches(c, k, s)}
<1>6. /\ \A d : Has(d) \in SUBSET Fd /\ Cardinality(Has(d)) \in Nat
      /\ \A s : Uses(s) \in SUBSET Fd /\ Cardinality(Uses(s)) \in Nat
  <2>1. \A K \in SUBSET Fd : Cardinality(K) \in Nat
    BY OfOne
  <2> QED BY <2>1
<1>7. \A d \in Desc : /\ f_desc_table'[d].fd_inode = f_desc_table[d].fd_inode
                      /\ f_desc_table'[d].fd_cnt = f_desc_table[d].fd_cnt + Cardinality(Has(d))
                      /\ f_desc_table'[d] \in [fd_inode : Slot \cup {0}, fd_cnt : Nat]
  <2>1. TAKE d \in Desc
  <2>2. FdCounted(d, c) = f_desc_table[d].fd_cnt + Cardinality(Has(d))
    BY DEF FdCounted, RefsTo
  <2>3. f_desc_table[d] \in [fd_inode : Slot \cup {0}, fd_cnt : Nat] /\ FdCounted(d, c) \in Nat
    <3>1. f_desc_table[d].fd_cnt \in Nat /\ Cardinality(Has(d)) \in Nat
      BY <1>2, <1>6
    <3> HIDE DEF Has
    <3> QED BY <1>2, <2>2, <3>1
  <2>4. f_desc_table'[d] = [f_desc_table[d] EXCEPT !.fd_cnt = FdCounted(d, c)]
    BY <1>4
  <2> QED BY <2>2, <2>3, <2>4
<1>8. \A s \in Slot : /\ inode_table'[s].i_num = inode_table[s].i_num
                      /\ inode_table'[s].i_cnt = inode_table[s].i_cnt + Cardinality(Uses(s))
                      /\ inode_table'[s] \in [i_num : Num \cup {0}, i_cnt : Nat]
  <2>1. TAKE s \in Slot
  <2>2. InodeCounted(s, c) = inode_table[s].i_cnt + Cardinality(Uses(s))
    BY DEF InodeCounted, InodeRefs
  <2>3. inode_table[s] \in [i_num : Num \cup {0}, i_cnt : Nat] /\ InodeCounted(s, c) \in Nat
    <3>1. inode_table[s].i_cnt \in Nat /\ Cardinality(Uses(s)) \in Nat
      BY <1>2, <1>6
    <3> HIDE DEF Uses
    <3> QED BY <1>2, <2>2, <3>1
  <2>4. inode_table'[s] = [inode_table[s] EXCEPT !.i_cnt = InodeCounted(s, c)]
    BY <1>4
  <2> QED BY <2>2, <2>3, <2>4
<1>9. FilesTypes'
  <2>1. /\ f_desc_table' \in [Desc -> [fd_inode : Slot \cup {0}, fd_cnt : Nat]]
        /\ inode_table' \in [Slot -> [i_num : Num \cup {0}, i_cnt : Nat]]
    BY <1>4, <1>7, <1>8
  <2> QED BY <1>2, <1>4, <2>1, DiskTypes DEF FilesTypes
<1>10. ForkFits'
  BY <1>4 DEF ForkFits
<1>11. \A q \in alive, k \in Fd : filp[q][k] \in Desc \cup {0}
  BY <1>2
<1>12. \A q \in alive, k \in Fd, s \in Slot : Reaches(q, k, s)' <=> Reaches(q, k, s)
  BY <1>4, <1>7, <1>11 DEF Reaches
<1>13. ASSUME NEW d \in Desc
       PROVE  Cardinality(Sharers(d)') = Cardinality(Sharers(d)) + Cardinality(Has(d))
  <2>1. Sharers(d)' = Sharers(d) \cup ({c} \X Has(d))
    BY <1>3, <1>4, <1>5 DEF Sharers
  <2>2. \A k \in Has(d) : <<c, k>> \notin Sharers(d)
    BY <1>3 DEF Sharers
  <2>3. IsFiniteSet(Sharers(d)) /\ Has(d) \in SUBSET Fd
    BY <1>6, Countable DEF FilesInv
  <2> HIDE DEF Has
  <2>4. Cardinality(Sharers(d) \cup ({c} \X Has(d))) = Cardinality(Sharers(d)) + Cardinality(Has(d))
    BY <2>2, <2>3, CountedWith
  <2> QED BY <2>1, <2>4
<1>14. ASSUME NEW s \in Slot
       PROVE  Cardinality(Users(s)') = Cardinality(Users(s)) + Cardinality(Uses(s))
  <2>1. Users(s)' = Users(s) \cup ({c} \X Uses(s))
    <3>1. Users(s)' = {r \in alive \X Fd : Reaches(r[1], r[2], s)'}
      BY <1>5 DEF Users
    <3>2. Users(s)' = {r \in alive \X Fd : Reaches(r[1], r[2], s)}
      BY <1>12, <3>1
    <3>3. Users(s) = {r \in (alive \ {c}) \X Fd : Reaches(r[1], r[2], s)}
      BY <1>3 DEF Users
    <3> QED BY <3>2, <3>3
  <2>2. \A k \in Uses(s) : <<c, k>> \notin Users(s)
    BY <1>3 DEF Users
  <2>3. IsFiniteSet(Users(s)) /\ Uses(s) \in SUBSET Fd
    BY <1>6, Countable DEF FilesInv
  <2> HIDE DEF Uses
  <2>4. Cardinality(Users(s) \cup ({c} \X Uses(s))) = Cardinality(Users(s)) + Cardinality(Uses(s))
    BY <2>2, <2>3, CountedWith
  <2> QED BY <2>1, <2>4
<1>15. SharersCounted'
  <2>1. ASSUME NEW d \in Desc
        PROVE  /\ f_desc_table'[d].fd_cnt = Cardinality(Sharers(d)')
               /\ f_desc_table'[d].fd_inode = 0 <=> f_desc_table'[d].fd_cnt = 0
    <3>1. /\ f_desc_table[d].fd_cnt = Cardinality(Sharers(d)) /\ f_desc_table[d].fd_cnt \in Nat
          /\ f_desc_table[d].fd_inode = 0 <=> f_desc_table[d].fd_cnt = 0
      BY <1>2 DEF FilesInv, SharersCounted
    <3>2. f_desc_table[d].fd_cnt = 0 => Has(d) = {}
      <4>1. f_desc_table[d].fd_cnt = 0 => Sharers(d) = {}
        BY <3>1, Countable, FS_EmptySet DEF FilesInv
      <4>2. Sharers(d) = {} => \A k \in Fd : filp[p][k] # d
        BY <1>3, SharerIs DEF FilesInv
      <4> QED BY <1>1, <4>1, <4>2
    <3>3. Cardinality({}) = 0
      BY FS_EmptySet
    <3>4. Cardinality(Has(d)) \in Nat /\ (f_desc_table[d].fd_cnt = 0 => Cardinality(Has(d)) = 0)
      BY <1>6, <3>2, <3>3
    <3> HIDE DEF Has
    <3> QED BY <1>7, <1>13, <3>1, <3>4
  <2> QED BY <2>1 DEF SharersCounted
<1>16. UsersCounted'
  <2>1. ASSUME NEW s \in Slot PROVE inode_table'[s].i_cnt >= Cardinality(Users(s)')
    <3>1. inode_table[s].i_cnt >= Cardinality(Users(s)) /\ inode_table[s].i_cnt \in Nat
      BY <1>2 DEF FilesInv, UsersCounted
    <3>2. Cardinality(Users(s)) \in Nat /\ Cardinality(Uses(s)) \in Nat
      BY <1>6, Countable DEF FilesInv
    <3> HIDE DEF Uses
    <3> QED BY <1>8, <1>14, <3>1, <3>2
  <2> QED BY <2>1 DEF UsersCounted
<1>17. \A s \in Slot : inode_table'[s].i_cnt > 0 => inode_table[s].i_cnt > 0
  <2> SUFFICES ASSUME NEW s \in Slot, inode_table[s].i_cnt = 0
               PROVE  inode_table'[s].i_cnt = 0
    <3>1. \A s \in Slot : inode_table[s].i_cnt \in Nat /\ inode_table'[s].i_cnt \in Nat
      BY <1>2, <1>8
    <3> QED BY <3>1
  <2>1. Cardinality(Users(s)) = 0
    BY Countable DEF FilesInv, UsersCounted
  <2>2. Users(s) = {}
    BY <2>1, Countable, FS_EmptySet DEF FilesInv
  <2>3. \A k \in Fd : ~ Reaches(p, k, s)
    BY <1>3, <2>2, SharerIs DEF FilesInv
  <2>4. Uses(s) = {}
    BY <1>1, <2>3 DEF Reaches
  <2>5. Cardinality(Uses(s)) = 0
    BY <2>4, FS_EmptySet
  <2> HIDE DEF Uses
  <2> QED BY <1>8, <2>5
<1>18. CacheExact'
  BY <1>8, <1>17 DEF CacheExact, FilesInv
<1>19. SameFiles /\ \A e \in Desc : f_desc_table'[e].fd_inode # 0 => FileOf(e)' = FileOf(e)
  BY <1>7, <1>8, <1>9, <1>15, <1>16, CountsKeepFiles
<1>20. OpenRegular' /\ DirFits'
  BY <1>4, <1>7, <1>19, DiskSame
<1> QED BY <1>9, <1>10, <1>15, <1>16, <1>18, <1>19, <1>20 DEF FilesInv


(* The references of a process that is gone are no longer counted; what    *)
(* others share stays open.                                                *)
LEMMA ExitStep ==
  ASSUME FilesInv, NEW p, fs_exit(p)
  PROVE  FilesInv' /\ SameFiles
<1>1. /\ p \in CountedProc /\ p \in Proc /\ p \in alive /\ forking = <<>>
      /\ CountedProc = alive /\ alive \subseteq Proc
  BY CallerCounted DEF fs_exit, CountedProc, FilesInv, FilesTypes
<1>2. /\ filp \in [Proc -> [Fd -> Desc \cup {0}]]
      /\ f_desc_table \in [Desc -> [fd_inode : Slot \cup {0}, fd_cnt : Nat]]
      /\ inode_table \in [Slot -> [i_num : Num \cup {0}, i_cnt : Nat]]
  BY DEF FilesInv, FilesTypes
<1>3. /\ f_desc_table' = [d \in Desc |-> Released(f_desc_table[d], RefsTo(p, d))]
      /\ inode_table' = [s \in Slot |-> Dropped(inode_table[s], InodeRefs(p, s))]
      /\ filp' = [filp EXCEPT ![p] = [k \in Fd |-> 0]]
      /\ forking' = forking /\ alive' = alive \ {p} /\ UNCHANGED diskVars
  BY DEF fs_exit
<1>4. /\ filp' \in [Proc -> [Fd -> Desc \cup {0}]]
      /\ \A q \in Proc : q # p => filp'[q] = filp[q]
  BY <1>1, <1>2, <1>3
<1>5. CountedProc' = alive \ {p}
  BY <1>1, <1>3 DEF CountedProc
<1> DEFINE Has(d) == {k \in Fd : filp[p][k] = d}
           Uses(s) == {k \in Fd : Reaches(p, k, s)}
<1>6. /\ \A d : Has(d) \in SUBSET Fd /\ Cardinality(Has(d)) \in Nat
      /\ \A s : Uses(s) \in SUBSET Fd /\ Cardinality(Uses(s)) \in Nat
  <2>1. \A K \in SUBSET Fd : Cardinality(K) \in Nat
    BY OfOne
  <2> QED BY <2>1
<1>7. \A d : /\ Cardinality(Sharers(d) \ ({p} \X Has(d))) = Cardinality(Sharers(d)) - Cardinality(Has(d))
             /\ Cardinality(Has(d)) <= Cardinality(Sharers(d))
  <2>1. TAKE d
  <2>2. \A k \in Has(d) : <<p, k>> \in Sharers(d)
    BY <1>1, SharerIs DEF FilesInv
  <2>3. IsFiniteSet(Sharers(d)) /\ Has(d) \in SUBSET Fd
    BY <1>6, Countable DEF FilesInv
  <2> HIDE DEF Has
  <2> QED BY <2>2, <2>3, CountedWithout
<1>8. \A s : /\ Cardinality(Users(s) \ ({p} \X Uses(s))) = Cardinality(Users(s)) - Cardinality(Uses(s))
             /\ Cardinality(Uses(s)) <= Cardinality(Users(s))
  <2>1. TAKE s
  <2>2. \A k \in Uses(s) : <<p, k>> \in Users(s)
    BY <1>1, SharerIs DEF FilesInv
  <2>3. IsFiniteSet(Users(s)) /\ Uses(s) \in SUBSET Fd
    BY <1>6, Countable DEF FilesInv
  <2> HIDE DEF Uses
  <2> QED BY <2>2, <2>3, CountedWithout
<1>9. \A d \in Desc :
        /\ f_desc_table'[d] \in [fd_inode : Slot \cup {0}, fd_cnt : Nat]
        /\ f_desc_table'[d].fd_cnt = f_desc_table[d].fd_cnt - Cardinality(Has(d))
        /\ f_desc_table'[d].fd_inode =
             IF f_desc_table[d].fd_cnt = Cardinality(Has(d)) THEN 0 ELSE f_desc_table[d].fd_inode
  <2>1. TAKE d \in Desc
  <2>2. f_desc_table'[d] = Released(f_desc_table[d], Cardinality(Has(d)))
    BY <1>3 DEF RefsTo
  <2>3. f_desc_table[d] \in [fd_inode : Slot \cup {0}, fd_cnt : Nat] /\ Cardinality(Has(d)) \in Nat
    BY <1>2, <1>6
  <2>4. Cardinality(Has(d)) <= f_desc_table[d].fd_cnt
    <3>1. f_desc_table[d].fd_cnt = Cardinality(Sharers(d))
      BY DEF FilesInv, SharersCounted
    <3> HIDE DEF Has
    <3> QED BY <1>7, <3>1
  <2> HIDE DEF Has
  <2> QED BY <2>2, <2>3, <2>4, ReleasedIs
<1>10. \A s \in Slot :
        /\ inode_table'[s] \in [i_num : Num \cup {0}, i_cnt : Nat]
        /\ inode_table'[s].i_cnt = inode_table[s].i_cnt - Cardinality(Uses(s))
        /\ inode_table'[s].i_cnt > 0 => inode_table'[s].i_num = inode_table[s].i_num
  <2>1. TAKE s \in Slot
  <2>2. inode_table'[s] = Dropped(inode_table[s], Cardinality(Uses(s)))
    BY <1>3 DEF InodeRefs
  <2>3. inode_table[s] \in [i_num : Num \cup {0}, i_cnt : Nat] /\ Cardinality(Uses(s)) \in Nat
    BY <1>2, <1>6
  <2>4. Cardinality(Uses(s)) <= inode_table[s].i_cnt
    <3>1. inode_table[s].i_cnt >= Cardinality(Users(s)) /\ Cardinality(Users(s)) \in Nat
      BY Countable DEF FilesInv, UsersCounted
    <3>2. inode_table[s].i_cnt \in Nat
      BY <1>2
    <3> HIDE DEF Uses
    <3> QED BY <1>8, <2>3, <3>1, <3>2
  <2> HIDE DEF Uses
  <2> QED BY <2>2, <2>3, <2>4, DroppedIs
<1>11. FilesTypes'
  <2>1. /\ f_desc_table' \in [Desc -> [fd_inode : Slot \cup {0}, fd_cnt : Nat]]
        /\ inode_table' \in [Slot -> [i_num : Num \cup {0}, i_cnt : Nat]]
    BY <1>3, <1>9, <1>10
  <2> QED BY <1>1, <1>3, <1>4, <2>1, DiskTypes DEF FilesTypes
<1>12. ForkFits'
  BY <1>1, <1>3 DEF ForkFits
<1>13. \A d \in Desc : Sharers(d)' = Sharers(d) \ ({p} \X Has(d))
  <2> SUFFICES ASSUME NEW d \in Desc
               PROVE  Sharers(d)' = Sharers(d) \ ({p} \X Has(d))
    OBVIOUS
  <2>1. \A q \in alive \ {p}, k \in Fd : filp'[q][k] = filp[q][k]
    BY <1>1, <1>4
  <2>2. Sharers(d)' = {r \in (alive \ {p}) \X Fd : filp[r[1]][r[2]] = d}
    BY <1>5, <2>1 DEF Sharers
  <2>3. Sharers(d) = {r \in alive \X Fd : filp[r[1]][r[2]] = d}
    BY <1>1 DEF Sharers
  <2> QED BY <2>2, <2>3
<1>14. SharersCounted'
  <2>1. ASSUME NEW d \in Desc
        PROVE  /\ f_desc_table'[d].fd_cnt = Cardinality(Sharers(d)')
               /\ f_desc_table'[d].fd_inode = 0 <=> f_desc_table'[d].fd_cnt = 0
    <3>1. /\ f_desc_table[d].fd_cnt = Cardinality(Sharers(d)) /\ f_desc_table[d].fd_cnt \in Nat
          /\ f_desc_table[d].fd_inode = 0 <=> f_desc_table[d].fd_cnt = 0
      BY <1>2 DEF FilesInv, SharersCounted
    <3>2. Cardinality(Sharers(d)') = Cardinality(Sharers(d)) - Cardinality(Has(d))
      BY <1>7, <1>13
    <3>3. Cardinality(Has(d)) \in Nat
      BY <1>6
    <3> HIDE DEF Has
    <3> QED BY <1>9, <3>1, <3>2, <3>3
  <2> QED BY <2>1 DEF SharersCounted
<1>15. ASSUME NEW q \in alive \ {p}, NEW k \in Fd, NEW s \in Slot
       PROVE  Reaches(q, k, s)' <=> Reaches(q, k, s)
  <2>1. filp'[q][k] = filp[q][k] /\ filp[q][k] \in Desc \cup {0}
    BY <1>1, <1>2, <1>4
  <2>2. CASE filp[q][k] = 0
    BY <2>1, <2>2 DEF Reaches
  <2>3. CASE filp[q][k] # 0
    <3>1. PICK d \in Desc : d = filp[q][k]
      BY <2>1, <2>3
    <3>2. <<q, k>> \in Sharers(d)'
      BY <1>5, <2>1, <3>1 DEF Sharers
    <3>3. IsFiniteSet(Sharers(d)')
      <4>1. (FilesTypes => SharersFinite)'
        BY TypesFinite, PTL
      <4> QED BY <1>11, <4>1 DEF SharersFinite
    <3>4. Cardinality(Sharers(d)') # 0
      BY <3>2, <3>3, FS_EmptySet
    <3>5. f_desc_table'[d].fd_inode # 0
      BY <1>14, <3>4 DEF SharersCounted
    <3>6. f_desc_table'[d].fd_inode = f_desc_table[d].fd_inode
      BY <1>9, <3>5
    <3> QED BY <2>1, <3>1, <3>6 DEF Reaches
  <2> QED BY <2>2, <2>3
<1>16. UsersCounted'
  <2>1. ASSUME NEW s \in Slot PROVE inode_table'[s].i_cnt >= Cardinality(Users(s)')
    <3>1. Users(s)' = Users(s) \ ({p} \X Uses(s))
      <4>1. Users(s)' = {r \in (alive \ {p}) \X Fd : Reaches(r[1], r[2], s)'}
        BY <1>5 DEF Users
      <4>2. Users(s)' = {r \in (alive \ {p}) \X Fd : Reaches(r[1], r[2], s)}
        BY <1>15, <4>1
      <4>3. Users(s) = {r \in alive \X Fd : Reaches(r[1], r[2], s)}
        BY <1>1 DEF Users
      <4> QED BY <4>2, <4>3
    <3>2. Cardinality(Users(s)') = Cardinality(Users(s)) - Cardinality(Uses(s))
      BY <1>8, <3>1
    <3>3. inode_table[s].i_cnt >= Cardinality(Users(s)) /\ inode_table[s].i_cnt \in Nat
      BY <1>2 DEF FilesInv, UsersCounted
    <3>4. Cardinality(Users(s)) \in Nat /\ Cardinality(Uses(s)) \in Nat
      BY <1>6, Countable DEF FilesInv
    <3> HIDE DEF Uses
    <3> QED BY <1>10, <3>2, <3>3, <3>4
  <2> QED BY <2>1 DEF UsersCounted
<1>17. CacheExact'
  <2>1. \A s \in Slot : inode_table'[s].i_cnt > 0 => inode_table[s].i_cnt > 0
    <3>1. \A s \in Slot : inode_table[s].i_cnt \in Nat /\ Cardinality(Uses(s)) \in Nat
      BY <1>2, <1>6
    <3> HIDE DEF Uses
    <3> QED BY <1>10, <3>1
  <2> QED BY <1>10, <2>1 DEF CacheExact, FilesInv
<1>18. \A e \in Desc : f_desc_table'[e].fd_inode # 0 => f_desc_table[e].fd_inode = f_desc_table'[e].fd_inode
  BY <1>9
<1>19. SameFiles /\ \A e \in Desc : f_desc_table'[e].fd_inode # 0 => FileOf(e)' = FileOf(e)
  BY <1>10, <1>11, <1>14, <1>16, <1>18, CountsKeepFiles
<1>20. OpenRegular' /\ DirFits'
  BY <1>3, <1>18, <1>19, DiskSame
<1> QED BY <1>11, <1>12, <1>14, <1>16, <1>17, <1>19, <1>20 DEF FilesInv


-----------------------------------------------------------------------------
(* A panic leaves the tables.                                              *)
LEMMA StopStep ==
  ASSUME FilesInv, UNCHANGED <<procVars, openVars, diskVars>>
  PROVE  FilesInv' /\ SameFiles
<1>1. /\ alive' = alive /\ forking' = forking /\ filp' = filp
      /\ f_desc_table' = f_desc_table /\ inode_table' = inode_table /\ UNCHANGED diskVars
      /\ UNCHANGED <<procVars, filp, f_desc_table>>
  BY DEF procVars, openVars
<1>2. FilesTypes'
  BY <1>1, DiskTypes DEF FilesTypes, FilesInv
<1>3. ForkFits' /\ SharersCounted' /\ \A s : Users(s)' = Users(s)
  BY <1>1, RefsSame
<1>4. UsersCounted' /\ CacheExact'
  BY <1>1, <1>3 DEF UsersCounted, CacheExact, FilesInv
<1>5. \A d \in Desc : FileOf(d)' = FileOf(d)
  BY <1>1 DEF FileOf
<1>6. OpenRegular' /\ DirFits'
  BY <1>1, <1>5, DiskSame
<1> QED BY <1>2, <1>3, <1>4, <1>5, <1>6 DEF FilesInv, SameFiles

(* What do_unlink and do_rename do not refuse is not open.                 *)
LEMMA NotOpen ==
  ASSUME FilesInv, NEW i \in Num, ~ Refuses(i), NEW d \in Desc, f_desc_table[d].fd_inode # 0
  PROVE  FileOf(d) # i
<1> SUFFICES ASSUME FileOf(d) = i
             PROVE  FALSE
  OBVIOUS
<1>1. inodes[i].i_mode = "I_REGULAR"
  BY DEF FilesInv, OpenRegular
<1>2. f_desc_table[d].fd_inode \in Cached(i)
  BY OpenIsHad DEF Cached, FileOf
<1>3. SlotFor(i) \in Slot /\ inode_table[SlotFor(i)].i_cnt > 0
  BY <1>2, SlotTaken DEF Cached
<1>4. inode_table \in [Slot -> [i_num : Num \cup {0}, i_cnt : Nat]]
  BY DEF FilesInv, FilesTypes
<1>5. PICK s \in Slot : s = SlotFor(i)
  BY <1>3
<1>6. get_inode(i)[s].i_cnt = inode_table[s].i_cnt + 1
  <2>1. get_inode(i) = [inode_table EXCEPT ![s] = [i_num |-> i, i_cnt |-> inode_table[s].i_cnt + 1]]
    BY <1>5 DEF get_inode
  <2> QED BY <1>4, <2>1
<1>7. inode_table[s].i_cnt > 0 /\ inode_table[s].i_cnt \in Nat
  BY <1>3, <1>4, <1>5
<1>8. get_inode(i)[SlotFor(i)].i_cnt > 1
  BY <1>5, <1>6, <1>7
<1> QED BY <1>1, <1>8 DEF Refuses

(* The slot of the directory that do_unlink erases is the one that named   *)
(* the file.                                                               *)
LEMMA EntryFound ==
  ASSUME FilesInv, NEW n, search_file(n) # 0, EntryOf(search_file(n)) # {}
  PROVE  /\ Min(EntryOf(search_file(n))) \in 1..DirMax
         /\ dir[Min(EntryOf(search_file(n)))].inode_nr = search_file(n)
         /\ Shrunk(Min(EntryOf(search_file(n)))) \in Nat
<1>1. PICK i : i = search_file(n)
  OBVIOUS
<1> DEFINE slots == {k \in 1..DirMax : k <= nr_dir_entries + 1}
           found == {k \in slots : dir[k].name = n}
<1>2. found # {} /\ i = dir[Min(found)].inode_nr
  BY <1>1 DEF search_file, InodeNamed
<1>3. PICK l \in 1..DirMax : l <= nr_dir_entries + 1 /\ dir[l].inode_nr = i
  <2>1. found \in SUBSET Nat
    BY Ranges
  <2>2. Min(found) \in found
    <3> HIDE DEF found
    <3> QED BY <1>2, <2>1, MinIn
  <2> QED BY <1>2, <2>2
<1>4. nr_dir_entries \in Nat /\ DirMax \in Nat
  BY Ranges DEF FilesInv, FilesTypes
<1>5. PICK k \in EntryOf(i) : k = Min(EntryOf(i)) /\ \A m \in EntryOf(i) : k <= m
  <2>1. EntryOf(i) \in SUBSET Nat /\ EntryOf(i) # {}
    BY <1>1, <1>4 DEF EntryOf
  <2> QED BY <2>1, MinIn
<1>6. k \in 1..nr_dir_entries /\ dir[k].inode_nr = i
  BY <1>5 DEF EntryOf
<1>7. k <= l
  <2>1. CASE l <= nr_dir_entries
    <3>1. l \in EntryOf(i)
      BY <1>3, <1>4, <2>1 DEF EntryOf
    <3> QED BY <1>5, <3>1
  <2>2. CASE l = nr_dir_entries + 1
    BY <1>4, <1>6, <2>2
  <2> QED BY <1>3, <1>4, <2>1, <2>2
<1>8. k \in 1..DirMax
  BY <1>3, <1>4, <1>6, <1>7
<1>9. Shrunk(k) \in Nat
  <2> DEFINE used == {j \in 1..(k - 1) : dir[j].inode_nr # 0}
  <2>1. IsFiniteSet(1..(k - 1))
    BY <1>4, <1>6, FS_Interval
  <2>2. IsFiniteSet(used)
    BY <2>1, FS_Subset
  <2> HIDE DEF used
  <2>3. Cardinality(used) \in Nat
    BY <2>2, FS_CardinalityType
  <2> QED BY <1>4, <2>3 DEF Shrunk, used
<1> QED BY <1>1, <1>5, <1>6, <1>8, <1>9

LEMMA UnlinkStep ==
  ASSUME FilesInv, NEW p, NEW n, do_unlink(p, n)
  PROVE  FilesInv' /\ SameFiles
<1>1. PICK i \in Num : i = search_file(n) /\ i \in imap
  BY NamedExists DEF do_unlink, search_file
<1>2. i # 0 /\ ~ Refuses(i) /\ UNCHANGED <<procVars, openVars>>
  <2>1. i # 0 /\ ~ Refuses(i)
    BY <1>1 DEF do_unlink
  <2> QED BY <2>1 DEF do_unlink, Stop
<1>3. CASE UNCHANGED diskVars
  BY <1>2, <1>3, StopStep
<1>4. CASE /\ imap' = imap \ {i} /\ inodes' = [inodes EXCEPT ![i] = NoInode]
           /\ EntryOf(i) # {} /\ dir' = Erased(Min(EntryOf(i)))
           /\ nr_dir_entries' = Shrunk(Min(EntryOf(i)))
  <2>1. PICK k \in 1..DirMax : k = Min(EntryOf(i)) /\ dir[k].inode_nr = i /\ Shrunk(k) \in Nat
    BY <1>1, <1>2, <1>4, EntryFound
  <2>2. /\ alive' = alive /\ filp' = filp /\ f_desc_table' = f_desc_table /\ inode_table' = inode_table
        /\ UNCHANGED <<procVars, filp, f_desc_table>>
    BY <1>2 DEF procVars, openVars
  <2>3. dir \in [1..DirMax -> [inode_nr : Num \cup {0}, name : Name \cup {"", "."}]] /\ DOMAIN inodes = Num
    BY DEF FilesInv, FilesTypes
  <2>4. /\ dir' \in [1..DirMax -> [inode_nr : Num \cup {0}, name : Name \cup {"", "."}]]
        /\ \A l \in 1..DirMax : dir'[l].inode_nr = IF l = k THEN 0 ELSE dir[l].inode_nr
    <3>1. dir' = [dir EXCEPT ![k] = [inode_nr |-> 0, name |-> ""]]
      BY <1>4, <2>1 DEF Erased, NoEntry
    <3> QED BY <2>3, <3>1
  <2>5. /\ DOMAIN inodes' = Num /\ inodes'[i].i_mode = "none"
        /\ \A j \in Num : j # i => inodes'[j] = inodes[j]
    BY <1>4, <2>3 DEF NoInode
  <2>6. nr_dir_entries' \in Nat
    BY <1>4, <2>1
  <2>7. FilesTypes'
    <3>1. imap' \subseteq Num /\ \A j \in Num : inodes'[j].i_mode \in {"none", "I_REGULAR", "I_DIRECTORY"}
      BY <1>4, <2>5 DEF FilesInv, FilesTypes
    <3> QED BY <2>2, <2>4, <2>5, <2>6, <3>1 DEF FilesTypes, FilesInv
  <2>8. ForkFits' /\ SharersCounted' /\ \A s : Users(s)' = Users(s)
    BY <2>2, RefsSame
  <2>9. UsersCounted' /\ CacheExact'
    BY <2>2, <2>8 DEF UsersCounted, CacheExact, FilesInv
  <2>10. SameFiles /\ \A d \in Desc : FileOf(d)' = FileOf(d)
    BY <2>2 DEF FileOf, SameFiles
  <2>11. OpenRegular'
    <3>1. ASSUME NEW d \in Desc, f_desc_table'[d].fd_inode # 0
          PROVE  FileOf(d)' \in imap' /\ inodes'[FileOf(d)'].i_mode = "I_REGULAR"
      <4>1. FileOf(d) # i /\ FileOf(d) \in imap /\ inodes[FileOf(d)].i_mode = "I_REGULAR"
        BY <1>2, <2>2, <3>1, NotOpen DEF FilesInv, OpenRegular
      <4>2. FileOf(d) \in Num
        BY <4>1 DEF FilesInv, FilesTypes
      <4> QED BY <1>4, <2>5, <2>10, <4>1, <4>2
    <3> QED BY <3>1 DEF OpenRegular
  <2>12. DirFits'
    <3>1. \A j \in imap' : inodes'[j].i_mode # "none"
      BY <1>4, <2>5 DEF FilesInv, FilesTypes, DirFits
    <3>2. \A l \in 1..DirMax : l # k => dir[l].inode_nr # i
      BY <1>2, <2>1 DEF FilesInv, DirFits
    <3>3. \A l \in 1..DirMax : dir'[l].inode_nr # 0 => dir'[l].inode_nr \in imap'
      BY <1>4, <2>4, <3>2 DEF FilesInv, DirFits
    <3>4. \A l, m \in 1..DirMax :
            dir'[l].inode_nr # 0 /\ dir'[l].inode_nr = dir'[m].inode_nr => l = m
      BY <2>4 DEF FilesInv, DirFits
    <3> QED BY <3>1, <3>3, <3>4 DEF DirFits
  <2> QED BY <2>7, <2>8, <2>9, <2>10, <2>11, <2>12 DEF FilesInv
<1> QED
  <2>1. \/ /\ imap' = imap \ {i} /\ inodes' = [inodes EXCEPT ![i] = NoInode]
           /\ EntryOf(i) # {} /\ dir' = Erased(Min(EntryOf(i)))
           /\ nr_dir_entries' = Shrunk(Min(EntryOf(i)))
        \/ UNCHANGED diskVars
    BY <1>1 DEF do_unlink, Stop
  <2> QED BY <1>3, <1>4, <2>1

LEMMA RenameStep ==
  ASSUME FilesInv, NEW p, NEW n, NEW new \in Name, do_rename(p, n, new)
  PROVE  FilesInv' /\ SameFiles
<1>1. PICK k : dir' = [dir EXCEPT ![k].name = new]
  BY DEF do_rename
<1>2. /\ alive' = alive /\ filp' = filp /\ f_desc_table' = f_desc_table /\ inode_table' = inode_table
      /\ UNCHANGED <<procVars, filp, f_desc_table>>
      /\ imap' = imap /\ inodes' = inodes /\ nr_dir_entries' = nr_dir_entries
  BY DEF do_rename, procVars, openVars
<1>3. dir \in [1..DirMax -> [inode_nr : Num \cup {0}, name : Name \cup {"", "."}]]
  BY DEF FilesInv, FilesTypes
<1>4. /\ dir' \in [1..DirMax -> [inode_nr : Num \cup {0}, name : Name \cup {"", "."}]]
      /\ \A l \in 1..DirMax : dir'[l].inode_nr = dir[l].inode_nr
  <2>1. ASSUME NEW l \in 1..DirMax
        PROVE  /\ dir'[l] \in [inode_nr : Num \cup {0}, name : Name \cup {"", "."}]
               /\ dir'[l].inode_nr = dir[l].inode_nr
    <3>1. dir[l] \in [inode_nr : Num \cup {0}, name : Name \cup {"", "."}]
      BY <1>3
    <3>2. dir'[l] = dir[l] \/ dir'[l] = [dir[l] EXCEPT !.name = new]
      BY <1>1, <1>3
    <3> QED BY <3>1, <3>2
  <2>2. dir' = [l \in 1..DirMax |-> dir'[l]]
    BY <1>1, <1>3
  <2> QED BY <2>1, <2>2
<1>5. FilesTypes'
  BY <1>2, <1>4 DEF FilesTypes, FilesInv
<1>6. ForkFits' /\ SharersCounted' /\ \A s : Users(s)' = Users(s)
  BY <1>2, RefsSame
<1>7. UsersCounted' /\ CacheExact'
  BY <1>2, <1>6 DEF UsersCounted, CacheExact, FilesInv
<1>8. SameFiles /\ OpenRegular'
  BY <1>2 DEF FileOf, SameFiles, OpenRegular, FilesInv
<1>9. DirFits'
  BY <1>2, <1>4 DEF DirFits, FilesInv
<1> QED BY <1>5, <1>6, <1>7, <1>8, <1>9 DEF FilesInv


-----------------------------------------------------------------------------
LEMMA InitFits == FilesInit => FilesInv
<1> SUFFICES ASSUME FilesInit
             PROVE  FilesInv
  OBVIOUS
<1> USE DEF FilesInit
<1>1. First \in Proc /\ MaxFiles \in Nat \ {0}
  BY FilesAssumption
<1>2. 1 \in Num /\ 1 \in Slot /\ DirMax \in Nat
  BY <1>1, Ranges DEF Num, Slot, ROOT_INODE
<1>3. ROOT_INODE = 1
  BY DEF ROOT_INODE
<1>4. FilesTypes
  <2>1. filp \in [Proc -> [Fd -> Desc \cup {0}]]
    OBVIOUS
  <2>2. f_desc_table \in [Desc -> [fd_inode : Slot \cup {0}, fd_cnt : Nat]]
    BY DEF Closed
  <2>3. inode_table \in [Slot -> [i_num : Num \cup {0}, i_cnt : Nat]]
    BY <1>2, <1>3 DEF Unused
  <2>4. DOMAIN inodes = Num /\ \A i \in Num : inodes[i].i_mode \in {"none", "I_REGULAR", "I_DIRECTORY"}
    BY DEF NoInode
  <2>5. dir \in [1..DirMax -> [inode_nr : Num \cup {0}, name : Name \cup {"", "."}]]
    BY <1>2, <1>3 DEF NoEntry
  <2> QED BY <1>1, <1>2, <1>3, <2>1, <2>2, <2>3, <2>4, <2>5 DEF FilesTypes
<1>5. ForkFits
  BY DEF ForkFits
<1>6. CountedProc = {First} /\ \A k \in Fd : filp[First][k] = 0
  BY <1>1 DEF CountedProc
<1>7. SharersCounted
  <2>1. \A d \in Desc : Sharers(d) = {}
    BY <1>6, Ranges DEF Sharers
  <2> QED BY <2>1, FS_EmptySet DEF SharersCounted, Closed
<1>8. UsersCounted
  <2>1. \A s \in Slot : Users(s) = {}
    BY <1>6 DEF Users, Reaches
  <2>2. \A s \in Slot : inode_table[s].i_cnt >= 0
    BY DEF Unused
  <2> QED BY <2>1, <2>2, FS_EmptySet DEF UsersCounted
<1>9. CacheExact
  BY <1>2, <1>3 DEF CacheExact, Unused
<1>10. OpenRegular
  BY DEF OpenRegular, Closed
<1>11. DirFits
  BY <1>2, <1>3 DEF DirFits, NoEntry
<1> QED BY <1>4, <1>5, <1>7, <1>8, <1>9, <1>10, <1>11 DEF FilesInv

LEMMA NextKeeps ==
  ASSUME ~ OpensDirs, FilesInv, [FilesNext]_filesVars
  PROVE  FilesInv' /\ SameFiles
<1>1. ASSUME NEW p \in Proc, OpenPanics(p)
      PROVE  FilesInv' /\ SameFiles
  BY <1>1, StopStep DEF OpenPanics, Stop
<1>2. ASSUME NEW p \in Proc, NEW k \in Fd, do_close(p, k)
      PROVE  FilesInv' /\ SameFiles
  BY <1>2, CloseStep
<1>3. ASSUME NEW p \in Proc, NEW c \in Proc, ForkCopy(p, c)
      PROVE  FilesInv' /\ SameFiles
  BY <1>3, ForkCopyStep
<1>4. ASSUME NEW p \in Proc, fs_exit(p)
      PROVE  FilesInv' /\ SameFiles
  BY <1>4, ExitStep
<1>5. ASSUME NEW p \in Proc, NEW n \in Name, do_open(p, n)
      PROVE  FilesInv' /\ SameFiles
  BY <1>5, OpenStep
<1>6. ASSUME NEW p \in Proc, NEW n \in Name, do_open_creat(p, n)
      PROVE  FilesInv' /\ SameFiles
  BY <1>6, CreatStep
<1>7. ASSUME NEW p \in Proc, NEW n \in Name, do_mkdir(p, n)
      PROVE  FilesInv' /\ SameFiles
  BY <1>7, MkdirStep
<1>8. ASSUME NEW p \in Proc, NEW n \in Name, do_unlink(p, n)
      PROVE  FilesInv' /\ SameFiles
  BY <1>8, UnlinkStep
<1>9. ASSUME NEW p \in Proc, NEW n \in Name,
             UnlinkRefused(p, n) \/ do_is_dir(p, n) \/ do_ls(p, n)
      PROVE  FilesInv' /\ SameFiles
  <2>1. PICK i : /\ i = search_file(n) \/ i = InodeNamed(n, 1..DirMax)
                /\ i # 0 /\ inode_table' = get_inode(i)
                /\ UNCHANGED <<procVars, filp, f_desc_table, diskVars, panic>>
    BY <1>9 DEF UnlinkRefused, do_is_dir, do_ls, KeepsReference
  <2>2. i \in Num
    BY <2>1, NamedExists DEF search_file
  <2> QED BY <2>1, <2>2, GetStep
<1>10. ASSUME NEW p \in Proc, NEW n \in Name, NEW new \in Name \ {n}, do_rename(p, n, new)
       PROVE  FilesInv' /\ SameFiles
  BY <1>10, RenameStep
<1>11. ASSUME fs_fork
       PROVE  FilesInv' /\ SameFiles
  BY <1>11, ForkStep
<1>12. ASSUME UNCHANGED filesVars
       PROVE  FilesInv' /\ SameFiles
  BY <1>12, StopStep DEF filesVars
<1> QED BY <1>1, <1>2, <1>3, <1>4, <1>5, <1>6, <1>7, <1>8, <1>9, <1>10, <1>11, <1>12 DEF FilesNext

(* The tables of FS hold what they may, after any calls of any processes   *)
(* and while a child is being born.                                        *)
THEOREM FilesInvariance == ASSUME ~ OpensDirs PROVE FilesSpec => []FilesInv
BY InitFits, NextKeeps, PTL DEF FilesSpec

(* The assertion of put_inode (fs/main.c) never fails on a close: the      *)
(* inode of every entry of f_desc_table that is in use is cached, although *)
(* forks copy the entries before FS counts them.                           *)
THEOREM PutInodeAsserts == ASSUME ~ OpensDirs PROVE FilesSpec => []OpenCached
BY FilesInvariance, CountsKeepOpen, PTL DEF FilesInv

(* A file that somebody has open stays allocated and its inode cached,     *)
(* with at least its users counted: nobody removes it, and the slot of the *)
(* cache is not taken for another inode (fs/link.c:74, fs/misc.c:47).      *)
THEOREM OpenStaysOpen == ASSUME ~ OpensDirs PROVE FilesSpec => []OpenFileKept
<1>1. FilesInv => OpenFileKept
  <2> SUFFICES ASSUME FilesInv, NEW p \in alive, NEW k \in Fd, filp[p][k] # 0
               PROVE  LET s == f_desc_table[filp[p][k]].fd_inode
                          i == inode_table[s].i_num
                      IN  /\ inode_table[s].i_cnt >= Cardinality(Users(s))
                          /\ i \in imap /\ inodes[i].i_mode # "none"
    BY DEF OpenFileKept, FilesInv
  <2>1. PICK d \in Desc : d = filp[p][k] /\ f_desc_table[d].fd_inode \in Slot
    BY HadIsOpen
  <2>2. FileOf(d) \in imap /\ inodes[FileOf(d)].i_mode = "I_REGULAR"
    BY <2>1, Ranges DEF FilesInv, OpenRegular
  <2> QED BY <2>1, <2>2 DEF FilesInv, UsersCounted, FileOf
<1> QED BY <1>1, FilesInvariance, PTL

(* As long as an entry of f_desc_table is in use it refers to one file,    *)
(* whatever others open, create, remove and rename.                        *)
THEOREM SameFileWhileOpen == ASSUME ~ OpensDirs PROVE FilesSpec => DescriptorStable
<1>1. FilesInv /\ [FilesNext]_filesVars => [SameFiles]_filesVars
  BY NextKeeps
<1>2. FilesSpec => [][SameFiles]_filesVars
  BY <1>1, FilesInvariance, PTL DEF FilesSpec
<1>3. [][SameFiles]_filesVars => DescriptorStable
  BY DEF DescriptorStable, SameFiles
<1> QED BY <1>2, <1>3

=============================================================================
