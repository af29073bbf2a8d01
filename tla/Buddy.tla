------------------------------- MODULE Buddy -------------------------------
(***************************************************************************)
(* The memory that do_buddy hands out, block by block (mm/main.c): a       *)
(* complete binary tree over BUDDY_SIZE units, whose nodes mem_buf marks.  *)
(* Node i has the children 2i + 1 and 2i + 2; a level of the tree divides  *)
(* the memory into blocks of one size.                                     *)
(***************************************************************************)
EXTENDS Integers, SequencesExt

CONSTANTS BUDDY_SIZE,
          Sizes       \* that do_buddy draws

ASSUME BuddyAssumption ==
  /\ BUDDY_SIZE \in Nat \ {0}
  /\ Sizes \subseteq 1..BUDDY_SIZE

Node == 0..(BUDDY_SIZE * 2 - 2)

set_child[i \in Nat] ==
  IF i \in Node THEN {i} \cup set_child[2 * i + 1] \cup set_child[2 * i + 2] ELSE {}

Parent(i) == IF i = 0 THEN 0 ELSE (i - 1) \div 2     \* C's division
set_parent[i \in Nat] ==
  IF Parent(i) = 0 THEN {0} ELSE {Parent(i)} \cup set_parent[Parent(i)]

Marked_down(i) == set_child[i]
Marked(i) == set_child[i] \cup set_parent[i]

(* The first node of the level with the smallest blocks for sz, and their  *)
(* size, from the node and the size of a level that has blocks for it.     *)
Level[cur_sz \in Nat, sz \in Nat] ==
  IF cur_sz \div 2 >= sz
    THEN LET below == Level[cur_sz \div 2, sz]
         IN  [index |-> 2 * below.index + 1, cur_sz |-> below.cur_sz]
    ELSE [index |-> 0, cur_sz |-> cur_sz]

(* A state is mem_buf, as the set of marked nodes, with the blocks that    *)
(* were handed out.  Without a free node alloc returns no value.           *)
alloc(state, sz) ==
  LET level == Level[BUDDY_SIZE, sz]
      free == (level.index..(2 * level.index)) \ state.mem_buf
      i == CHOOSE n \in free : \A o \in free : n <= o
  IN  IF free = {} THEN [state EXCEPT !.blocks = Append(@, [addr |-> 0 - 1, sz |-> sz])]
      ELSE [mem_buf |-> state.mem_buf \cup Marked(i),
            blocks  |-> Append(state.blocks,
                               [addr |-> (i - level.index) * level.cur_sz, sz |-> sz])]

(* A do_buddy begins with no node marked.                                  *)
do_buddy(sizes) == FoldLeft(alloc, [mem_buf |-> {}, blocks |-> <<>>], sizes).blocks

(* The units of a block that its owner uses.                               *)
Units(block) == block.addr..(block.addr + block.sz - 1)

=============================================================================
