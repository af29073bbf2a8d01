------------------------------ MODULE MCFiles ------------------------------
(* Three processes and three files, the third of which reaches into the    *)
(* byte of the sector map where cmd.tar begins.                            *)
EXTENDS Files, TLC

CONSTANTS p1, p2, p3,  \* processes
          x, y         \* names

MCThree == {p1, p2, p3}
MCXY    == {x, y}

(* Bound: just one process, and one reference to an inode, once there is a *)
(* third file, or was one that left its mark.                              *)
MCOneMore == \/ Cardinality(imap) <= MaxFiles /\ lost = {} /\ wiped = {}
             \/ alive = {First} /\ \A s \in Slot : inode_table[s].i_cnt <= 1

MCSymmetry == Permutations({p2, p3}) \cup Permutations(MCXY)

=============================================================================
