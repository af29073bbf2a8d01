--------------------------- MODULE Kernel_proofs ---------------------------
(***************************************************************************)
(* Proofs about the parts of the kernel that send no messages themselves:  *)
(* the scheduler, for every number of processes and whatever they do, the  *)
(* consoles, for consoles and screens of every size, and the keyboard, for *)
(* every number of keys pressed and every size of its ring.                *)
(***************************************************************************)
EXTENDS Scheduler, Console, Keyboard, WellFoundedInduction, SequenceTheorems, TLAPS

-----------------------------------------------------------------------------
(***************************************************************************)
(* The scheduler resumes only processes that can run: because TestA, TestB *)
(* and TestC never block, both of its searches find somebody.              *)
(***************************************************************************)
(* The processes of the boot image that loop for ever can always run.      *)
SpinnersReady == \A s \in Spinner : state[s] = "ready"

SInv == SchedTypeOK /\ SpinnersReady /\ RunsReady

(* A nonempty set of naturals has a least member.                          *)
LEMMA LeastNat ==
  ASSUME NEW T \in SUBSET Nat, T # {}
  PROVE  \E x \in T : \A y \in T : x <= y
<1>1. PICK x \in T : \A y \in T : <<y, x>> \notin OpToRel(<, Nat)
  BY NatLessThanWellFounded, WFMin, Zenon
<1>2. \A y \in T : x <= y
  <2>1. TAKE y \in T
  <2>2. ~ (y < x)
    BY <1>1 DEF OpToRel
  <2> QED BY <2>2
<1> QED BY <1>2

(* The walk of rr_schedule and priority_schedule stops at a member of the  *)
(* set of processes it looks for.                                          *)
LEMMA FirstFromIn ==
  ASSUME NEW n \in Nat, NEW R \in SUBSET (0 .. n - 1), R # {}, NEW p \in 0 .. n - 1
  PROVE  FirstFrom(p, R, n) \in R
<1> DEFINE T == {Steps(p, q, n) : q \in R}
<1>1. T \in SUBSET Nat /\ T # {}
  <2>1. \A q \in R : q \in Int /\ 0 <= q /\ q <= n - 1
    OBVIOUS
  <2>2. \A q \in R : Steps(p, q, n) \in Nat
    BY <2>1 DEF Steps
  <2>3. PICK q \in R : TRUE
    OBVIOUS
  <2>4. Steps(p, q, n) \in T
    OBVIOUS
  <2> QED BY <2>2, <2>4
<1>2. PICK x \in T : \A y \in T : x <= y
  <2> HIDE DEF T
  <2> QED BY <1>1, LeastNat
<1>3. PICK q \in R : x = Steps(p, q, n)
  OBVIOUS
<1>4. \A o \in R : Steps(p, q, n) <= Steps(p, o, n)
  BY <1>2, <1>3
<1> QED BY <1>4 DEF FirstFrom

(* What schedule() and rr_schedule() return can run.                       *)
LEMMA RoundRobinReady ==
  ASSUME SchedTypeOK, NEW st, \E p \in Pid : st[p] = "ready"
  PROVE  rr_schedule(st) \in Ready(st)
<1>1. NR \in Nat /\ NR > 0
  BY SchedAssumption
<1>2. (p_proc_ready + 1) % NR \in 0 .. NR - 1
  BY <1>1 DEF SchedTypeOK, Pid
<1>3. Ready(st) \in SUBSET (0 .. NR - 1) /\ Ready(st) # {}
  BY DEF Ready, Pid
<1> QED BY <1>1, <1>2, <1>3, FirstFromIn DEF rr_schedule

LEMMA PriorityReady ==
  ASSUME SchedTypeOK, NEW st, NEW now \in Nat, \A s \in Spinner : st[s] = "ready"
  PROVE  priority_schedule(st, now) \in Ready(st)
<1> DEFINE r == now % (2 * NrSched)
           low == {p \in Ready(st) : p < NrSched}
<1>1. NR \in Nat /\ NrSched \in Nat /\ NrSched > 0 /\ NrSched <= NR
  BY SchedAssumption
<1>2. r \in Nat
  BY <1>1
<1>3. ScanStart(r) \in 0 .. NrSched - 1
  BY <1>1, <1>2 DEF ScanStart
<1>4. low \in SUBSET (0 .. NrSched - 1)
  BY <1>1 DEF Ready, Pid
<1>5. low # {}
  <2>1. PICK s \in Spinner : TRUE
    BY SchedAssumption
  <2>2. s \in 0 .. NrSched - 1 /\ st[s] = "ready"
    BY <2>1, SchedAssumption
  <2>3. s \in low
    BY <2>2, <1>1 DEF Ready, Pid
  <2> QED BY <2>3
<1>6. CASE r >= NrSched /\ \E p \in Pid : RunsTop(p, st)
  <2>1. priority_schedule(st, now) = CHOOSE p \in Pid : RunsTop(p, st)
    BY <1>6 DEF priority_schedule
  <2>2. (CHOOSE p \in Pid : RunsTop(p, st)) \in Pid
        /\ RunsTop(CHOOSE p \in Pid : RunsTop(p, st), st)
    BY <1>6, Zenon
  <2> QED BY <2>1, <2>2 DEF RunsTop, Ready
<1>7. CASE ~ (r >= NrSched /\ \E p \in Pid : RunsTop(p, st))
  <2>1. priority_schedule(st, now) = FirstFrom(ScanStart(r), low, NrSched)
    BY <1>7 DEF priority_schedule
  <2>2. FirstFrom(ScanStart(r), low, NrSched) \in low
    <3> HIDE DEF r, low
    <3> QED BY <1>1, <1>3, <1>4, <1>5, FirstFromIn
  <2> QED BY <2>1, <2>2
<1> QED BY <1>6, <1>7

LEMMA ScheduleReady ==
  ASSUME SchedTypeOK, NEW st, NEW now \in Nat, \A s \in Spinner : st[s] = "ready"
  PROVE  schedule(st, now) \in Pid /\ st[schedule(st, now)] = "ready"
<1>1. \E p \in Pid : st[p] = "ready"
  <2>1. PICK s \in Spinner : st[s] = "ready"
    BY SchedAssumption
  <2>2. s \in 0 .. NrSched - 1 /\ NrSched \in 1 .. NR
    BY SchedAssumption
  <2> QED BY <2>1, <2>2, SchedAssumption DEF Pid
<1> QED BY <1>1, RoundRobinReady, PriorityReady DEF schedule, Ready

-----------------------------------------------------------------------------
LEMMA SchedInitInv == SchedInit => SInv
<1> SUFFICES ASSUME SchedInit PROVE SInv
  OBVIOUS
<1>1. 0 \in Pid /\ 0 \notin Slot /\ SCHED_RR \in {SCHED_RR}
  BY SchedAssumption DEF Pid, Slot
<1>2. SchedTypeOK
  BY <1>1, SchedAssumption DEF SchedInit, SchedTypeOK
<1>3. SpinnersReady
  BY SchedAssumption DEF SchedInit, SpinnersReady, Pid
<1>4. RunsReady
  BY <1>1 DEF SchedInit, RunsReady
<1> QED BY <1>2, <1>3, <1>4 DEF SInv

LEMMA TickInv ==
  ASSUME SInv, NEW user \in BOOLEAN, Tick(user)
  PROVE  SInv'
<1>1. PICK W \in SUBSET IntTask : state' = Released(W)
  BY DEF Tick
<1>2. state' \in [Pid -> {"ready", "blocked", "free"}]
  BY <1>1 DEF Released, SInv, SchedTypeOK
<1>3. \A p \in Pid : state[p] = "ready" => state'[p] = "ready"
  BY <1>1 DEF Released
<1>4. \A s \in Spinner : state'[s] = "ready"
  BY <1>3, SchedAssumption DEF SInv, SpinnersReady, Pid
<1>5. ticks' \in 0 .. MaxTicks - 1 /\ ticks' \in Nat
  BY SchedAssumption DEF Tick, NextTick, SInv, SchedTypeOK
<1>6. slice' \in [Pid -> Int]
  BY DEF Tick, SInv, SchedTypeOK
<1>7. p_proc_ready' \in Pid /\ state'[p_proc_ready'] = "ready"
  <2>1. p_proc_ready \in Pid /\ state'[p_proc_ready] = "ready"
    BY <1>3 DEF SInv, SchedTypeOK, RunsReady
  <2>2. schedule(state', ticks') \in Pid /\ state'[schedule(state', ticks')] = "ready"
    BY <1>4, <1>5, ScheduleReady DEF SInv
  <2>3. p_proc_ready' = schedule(state', ticks') \/ p_proc_ready' = p_proc_ready
    BY DEF Tick
  <2> QED BY <2>1, <2>2, <2>3
<1>8. SchedTypeOK'
  BY <1>2, <1>5, <1>6, <1>7 DEF Tick, SInv, SchedTypeOK
<1> QED BY <1>4, <1>7, <1>8 DEF SInv, SpinnersReady, RunsReady

LEMMA BlockInv ==
  ASSUME SInv, Block
  PROVE  SInv'
<1>1. \A s \in Spinner : s \in Pid /\ state'[s] = "ready"
  BY SchedAssumption DEF Block, SInv, SpinnersReady, SchedTypeOK, Pid
<1>2. \E p \in Pid : state'[p] = "ready"
  BY <1>1, SchedAssumption
<1>3. p_proc_ready' \in Pid /\ state'[p_proc_ready'] = "ready"
  BY <1>2, RoundRobinReady DEF Block, SInv, Ready
<1> QED BY <1>1, <1>3 DEF Block, SInv, SchedTypeOK, SpinnersReady, RunsReady

LEMMA SchedStepInv == SInv /\ [SchedNext]_schedVars => SInv'
<1> SUFFICES ASSUME SInv, [SchedNext]_schedVars PROVE SInv'
  OBVIOUS
<1> USE DEF SInv, SchedTypeOK, SpinnersReady, RunsReady
<1>1. ASSUME NEW user \in BOOLEAN, Tick(user) PROVE SInv'
  BY <1>1, TickInv DEF SInv
<1>2. CASE Interrupt
  <2>1. PICK W \in SUBSET IntTask : state' = Released(W)
    BY <1>2 DEF Interrupt
  <2>2. \A p \in Pid : state[p] = "ready" => state'[p] = "ready"
    BY <2>1 DEF Released
  <2>3. state' \in [Pid -> {"ready", "blocked", "free"}]
    BY <2>1 DEF Released
  <2> QED BY <1>2, <2>2, <2>3, SchedAssumption DEF Interrupt, Pid
<1>3. CASE Block
  BY <1>3, BlockInv DEF SInv
<1>4. CASE Unblock
  BY <1>4, SchedAssumption DEF Unblock
<1>5. CASE Fork
  BY <1>5, SchedAssumption DEF Fork, Prioritised, Pid, Slot
<1>6. CASE Exit
  BY <1>6, SchedAssumption DEF Exit, Pid, Slot
<1>7. CASE try_change_proc_priority
  BY <1>7 DEF try_change_proc_priority, Prioritised
<1>10. CASE Wait
  BY <1>10, SchedAssumption DEF Wait, Pid
<1>8. CASE try_change_schedule_policy
  BY <1>8 DEF try_change_schedule_policy
<1>9. CASE UNCHANGED schedVars
  BY <1>9 DEF schedVars
<1> QED BY <1>1, <1>2, <1>3, <1>4, <1>5, <1>6, <1>7, <1>8, <1>9, <1>10 DEF SchedNext

(* The invariant holds in every reachable state.                           *)
THEOREM SchedInvariance == SchedSpec => []SInv
<1> QED BY SchedInitInv, SchedStepInv, PTL DEF SchedSpec

(* Every variable of the scheduler keeps its type: p_proc_ready always is  *)
(* an entry of proc_table, and the clock stays below MAX_TICKS.            *)
THEOREM SchedTypeCorrect == SchedSpec => []SchedTypeOK
<1>1. SInv => SchedTypeOK
  BY DEF SInv
<1> QED BY <1>1, SchedInvariance, PTL

(* schedule() and rr_schedule() never resume a process that cannot run.    *)
THEOREM OnlyReadyRun == SchedSpec => []RunsReady
<1>1. SInv => RunsReady
  BY DEF SInv
<1> QED BY <1>1, SchedInvariance, PTL

-----------------------------------------------------------------------------
(***************************************************************************)
(* The window and the cursor stay in their console, the assertions of      *)
(* out_char hold, the monitor shows the current console, and the rows on a *)
(* screen are in the order in which they were written.                     *)
(***************************************************************************)
(* While out_char is in its loop for another console, the controller shows *)
(* the current one: flush() leaves the registers alone then.               *)
MonitorInv ==
  printing # current_console
    => crtc = Registers(current_console, console[current_console])

ConInv == ConTypeOK /\ NoConAssert /\ MonitorInv

-----------------------------------------------------------------------------
(* Scrolling in either direction keeps the window in the console.          *)
LEMMA ScrollInside ==
  ASSUME NEW k \in Console
  PROVE  StartUp(k) \in 0..CON_ROWS - SCR_ROWS /\ StartDown(k) \in 0..CON_ROWS - SCR_ROWS
<1> DEFINE s == k.crtc_start
<1>1. /\ k.y \in 0..CON_ROWS - 1 /\ k.is_full \in BOOLEAN
      /\ s \in 0..CON_ROWS - SCR_ROWS
      /\ CON_ROWS \in Nat /\ SCR_ROWS \in Nat /\ SCR_ROWS > 1
      /\ CON_ROWS >= 2 * SCR_ROWS
  BY ConsoleAssumption DEF Console, Row
<1>2. StartUp(k) \in 0..CON_ROWS - SCR_ROWS
  <2>1. CASE AtBottom(k)
    BY <1>1, <2>1 DEF StartUp
  <2>2. CASE ~AtBottom(k) /\ k.is_full
    BY <1>1, <2>2 DEF StartUp
  <2>3. CASE ~AtBottom(k) /\ ~k.is_full
    BY <1>1, <2>3 DEF StartUp, AtBottom
  <2> QED BY <2>1, <2>2, <2>3, <1>1
<1>3. StartDown(k) \in 0..CON_ROWS - SCR_ROWS
  <2> DEFINE p == IF s > 0 THEN s - 1 ELSE 0
  <2>1. p \in 0..CON_ROWS - SCR_ROWS
    BY <1>1
  <2>2. StartDown(k) \in {p, s, CON_ROWS - SCR_ROWS}
    <3>1. CASE ~k.is_full
      BY <3>1, <1>1 DEF StartDown
    <3>2. CASE k.is_full /\ s = Oldest(k)
      BY <3>2, <1>1 DEF StartDown
    <3>3. CASE k.is_full /\ s # Oldest(k)
      BY <3>3, <1>1 DEF StartDown
    <3> QED BY <3>1, <3>2, <3>3, <1>1
  <2> QED BY <2>1, <2>2, <1>1
<1> QED BY <1>2, <1>3

(* Before it is taken back, the cursor is at most one row below the last.  *)
LEMMA MovedInside ==
  ASSUME NEW k \in Console, NEW ch \in {"printable", "newline", "backspace"}
  PROVE  Moved(k, ch) \in [y : 0..CON_ROWS, x : 0..SCR_WIDTH - 1, is_full : BOOLEAN,
                           crtc_start : 0..CON_ROWS - SCR_ROWS]
<1> DEFINE m == Moved(k, ch)
<1>1. /\ k.y \in 0..CON_ROWS - 1 /\ k.x \in 0..SCR_WIDTH - 1
      /\ CON_ROWS \in Nat /\ SCR_ROWS \in Nat /\ SCR_ROWS > 1
      /\ CON_ROWS >= 2 * SCR_ROWS /\ SCR_WIDTH \in Nat \ {0}
  BY ConsoleAssumption DEF Console, Row
<1>2. m \in [y : 0..CON_ROWS, x : 0..SCR_WIDTH - 1, is_full : BOOLEAN,
             crtc_start : 0..CON_ROWS - SCR_ROWS]
  <2> DEFINE M == [y : 0..CON_ROWS, x : 0..SCR_WIDTH - 1, is_full : BOOLEAN,
                   crtc_start : 0..CON_ROWS - SCR_ROWS]
  <2>1. \A y \in 0..CON_ROWS, x \in 0..SCR_WIDTH - 1 : [k EXCEPT !.y = y, !.x = x] \in M
    BY DEF Console
  <2>2. \A x \in 0..SCR_WIDTH - 1 : [k EXCEPT !.x = x] \in M
    BY <1>1 DEF Console, Row
  <2>3. k \in M
    BY <1>1 DEF Console, Row
  <2>4. k.y + 1 \in 0..CON_ROWS /\ 0 \in 0..SCR_WIDTH - 1 /\ SCR_WIDTH - 1 \in 0..SCR_WIDTH - 1
    BY <1>1
  <2> SUFFICES m \in M
    OBVIOUS
  <2> HIDE DEF M
  <2>5. CASE ch = "newline"
    <3>1. m = [k EXCEPT !.y = k.y + 1, !.x = 0]
      BY <2>5 DEF Moved
    <3> QED BY <3>1, <2>1, <2>4
  <2>6. CASE ch = "backspace"
    <3>1. CASE k.x > 0
      <4>1. m = [k EXCEPT !.x = k.x - 1] /\ k.x - 1 \in 0..SCR_WIDTH - 1
        BY <2>6, <3>1, <1>1 DEF Moved
      <4> QED BY <4>1, <2>2
    <3>2. CASE ~(k.x > 0) /\ k.y > 0
      <4>1. m = [k EXCEPT !.y = k.y - 1, !.x = SCR_WIDTH - 1] /\ k.y - 1 \in 0..CON_ROWS
        BY <2>6, <3>2, <1>1 DEF Moved
      <4> QED BY <4>1, <2>1, <2>4
    <3>3. CASE ~(k.x > 0) /\ ~(k.y > 0)
      <4>1. m = k
        BY <2>6, <3>3 DEF Moved
      <4> QED BY <4>1, <2>3
    <3> QED BY <3>1, <3>2, <3>3
  <2>7. CASE ch = "printable"
    <3>1. CASE k.x + 1 < SCR_WIDTH
      <4>1. m = [k EXCEPT !.x = k.x + 1] /\ k.x + 1 \in 0..SCR_WIDTH - 1
        BY <2>7, <3>1, <1>1 DEF Moved
      <4> QED BY <4>1, <2>2
    <3>2. CASE ~(k.x + 1 < SCR_WIDTH)
      <4>1. m = [k EXCEPT !.y = k.y + 1, !.x = 0]
        BY <2>7, <3>2 DEF Moved
      <4> QED BY <4>1, <2>1, <2>4
    <3> QED BY <3>1, <3>2
  <2> QED BY <2>5, <2>6, <2>7
<1> QED BY <1>2

(* Whatever is printed, the cursor is back in its console afterwards.      *)
LEMMA CursorInside ==
  ASSUME NEW k \in Console, NEW ch \in {"printable", "newline", "backspace"}
  PROVE  LET m == Moved(k, ch)
         IN (IF Leaves(m) THEN Wrapped(m) ELSE m) \in Console
<1> DEFINE m == Moved(k, ch)
<1>1. /\ k.y \in 0..CON_ROWS - 1 /\ k.x \in 0..SCR_WIDTH - 1
      /\ CON_ROWS \in Nat /\ SCR_ROWS \in Nat /\ SCR_ROWS > 1
      /\ CON_ROWS >= 2 * SCR_ROWS /\ SCR_WIDTH \in Nat \ {0}
  BY ConsoleAssumption DEF Console, Row
<1>2. m \in [y : 0..CON_ROWS, x : 0..SCR_WIDTH - 1, is_full : BOOLEAN,
             crtc_start : 0..CON_ROWS - SCR_ROWS]
  BY MovedInside
<1>3. CASE Leaves(m)
  <2>1. SCR_ROWS - 1 \in 0..CON_ROWS - 1 /\ 0 \in 0..CON_ROWS - SCR_ROWS
    BY <1>1
  <2>2. Wrapped(m) \in Console
    BY <1>2, <2>1 DEF Wrapped, Console, Row
  <2> QED BY <2>2, <1>3
<1>4. CASE ~Leaves(m)
  <2>1. m.y \in 0..CON_ROWS - 1
    BY <1>1, <1>2, <1>4 DEF Leaves
  <2>2. m \in Console
    BY <1>2, <2>1 DEF Console, Row
  <2> QED BY <2>2, <1>4
<1> QED BY <1>3, <1>4

(* The marks of the rows stay integers.                                    *)
LEMMA TextInt ==
  ASSUME NEW t \in [Row -> Int], NEW old \in Console, NEW new, new.y \in Int
  PROVE  /\ Written(t, old, new) \in [Row -> Int]
         /\ Copied(t) \in [Row -> Int]
<1>1. CON_ROWS \in Nat /\ SCR_ROWS \in Nat /\ SCR_ROWS > 1 /\ CON_ROWS >= 2 * SCR_ROWS
  BY ConsoleAssumption
<1>2. \A y \in Int : Begun(t, y) \in [Row -> Int] /\ Unbegun(t, y) \in [Row -> Int]
  BY <1>1 DEF Begun, Unbegun, Blank, Torn
<1>3. Written(t, old, new) \in [Row -> Int]
  <2>1. old.y \in Int
    BY <1>1 DEF Console, Row
  <2> QED BY <1>2, <2>1 DEF Written
<1>4. Copied(t) \in [Row -> Int]
  <2>1. \A r \in Row : r < SCR_ROWS - 1 => r + CopyFrom \in Row
    BY <1>1 DEF Row, CopyFrom
  <2>2. \A r \in Row : (CASE r < SCR_ROWS - 1 -> t[r + CopyFrom]
                          [] r = SCR_ROWS - 1 -> 0
                          [] OTHER -> t[r]) \in Int
    <3> SUFFICES ASSUME NEW r \in Row
                 PROVE (CASE r < SCR_ROWS - 1 -> t[r + CopyFrom]
                          [] r = SCR_ROWS - 1 -> 0
                          [] OTHER -> t[r]) \in Int
      OBVIOUS
    <3>1. CASE r < SCR_ROWS - 1
      BY <3>1, <2>1, <1>1 DEF Row
    <3>2. CASE ~(r < SCR_ROWS - 1)
      BY <3>2, <1>1 DEF Row
    <3> QED BY <3>1, <3>2
  <2> QED BY <2>2 DEF Copied
<1> QED BY <1>3, <1>4

-----------------------------------------------------------------------------
LEMMA ConInit == ConsoleInit => ConInv
<1> SUFFICES ASSUME ConsoleInit PROVE ConInv
  OBVIOUS
<1> USE ConsoleAssumption
<1>1. PICK booted \in 0..SCR_ROWS - 1, column \in 0..SCR_WIDTH - 1 :
        LET First(c) == [y |-> IF c = 0 THEN booted ELSE 1,
                         x |-> IF c = 0 THEN column ELSE 0,
                         crtc_start |-> 0, is_full |-> FALSE]
        IN /\ console = [c \in Con |-> First(c)]
           /\ crtc = Registers(0, First(0))
           /\ text = [c \in Con |-> [r \in Row |->
                        IF r <= First(c).y THEN First(c).y - r ELSE Blank]]
           /\ current_console = 0
           /\ erasable = [c \in Con |-> 0]
           /\ printing = Nobody
           /\ halted = FALSE
  BY DEF ConsoleInit
<1> DEFINE First(c) == [y |-> IF c = 0 THEN booted ELSE 1,
                        x |-> IF c = 0 THEN column ELSE 0,
                        crtc_start |-> 0, is_full |-> FALSE]
<1>2. \A c \in Con : First(c) \in Console
  BY DEF Console, Row, Con
<1>3. 0 \in Con
  BY DEF Con
<1>4. console \in [Con -> Console] /\ console[0] = First(0)
  BY <1>1, <1>2, <1>3
<1>5. crtc = Registers(0, console[0])
  BY <1>1, <1>4
<1>6. text \in [Con -> [Row -> Int]]
  <2>1. \A c \in Con : First(c).y \in Int
    BY DEF Con
  <2>2. \A c \in Con : [r \in Row |-> IF r <= First(c).y THEN First(c).y - r ELSE Blank]
                         \in [Row -> Int]
    BY <2>1 DEF Row, Blank
  <2> QED BY <1>1, <2>2
<1>7. crtc \in [con : Con, y : Row, x : 0..SCR_WIDTH - 1, start : 0..CON_ROWS - SCR_ROWS]
  BY <1>3, <1>4, <1>5 DEF Registers, Console
<1>8. erasable \in [Con -> 0..MaxLine]
  <2>1. 0 \in 0..MaxLine
    OBVIOUS
  <2> QED BY <1>1, <2>1
<1>9. ConTypeOK /\ NoConAssert
  BY <1>1, <1>3, <1>4, <1>6, <1>7, <1>8 DEF ConTypeOK, NoConAssert
<1>10. MonitorInv
  BY <1>1, <1>5 DEF MonitorInv
<1> QED BY <1>9, <1>10 DEF ConInv

(* Printing a character; erasable is left to the caller.                   *)
LEMMA OutCharStep ==
  ASSUME ConInv, NEW c \in Con, NEW ch \in {"printable", "newline", "backspace"},
         out_char(c, ch), erasable' \in [Con -> 0..MaxLine]
  PROVE  ConInv'
<1> DEFINE k == console[c]
           m == Moved(k, ch)
           n == IF Leaves(m) THEN Wrapped(m) ELSE m
           t == Written(text[c], k, m)
<1>1. k \in Console /\ text[c] \in [Row -> Int]
  BY DEF ConInv, ConTypeOK
<1>2. n \in Console
  BY <1>1, CursorInside
<1>3. console' = [console EXCEPT ![c] = n] /\ printing' = c
      /\ halted' = (k.y \notin Row \/ n.y \notin Row)
      /\ text' = [text EXCEPT ![c] = IF Leaves(m) THEN Copied(t) ELSE t]
      /\ UNCHANGED <<current_console, crtc>>
  BY DEF out_char
<1>4. m.y \in Int
  <2>1. k.y \in Int /\ CON_ROWS \in Nat
    BY <1>1, ConsoleAssumption DEF Console, Row
  <2> QED BY <2>1, <1>1 DEF Moved, Console
<1>5. t \in [Row -> Int]
  BY <1>1, <1>4, TextInt
<1>6. Copied(t) \in [Row -> Int]
  BY <1>1, <1>4, <1>5, TextInt
<1>7. k.y \in Row /\ n.y \in Row
  BY <1>1, <1>2 DEF Console
<1>8. halted' = FALSE
  BY <1>3, <1>7
<1>9. console' \in [Con -> Console] /\ text' \in [Con -> [Row -> Int]]
  BY <1>2, <1>3, <1>5, <1>6 DEF ConInv, ConTypeOK
<1>10. ConTypeOK'
  BY <1>3, <1>8, <1>9 DEF ConInv, ConTypeOK
<1>11. MonitorInv'
  <2> SUFFICES ASSUME c # current_console
               PROVE  crtc = Registers(current_console, console'[current_console])
    BY <1>3 DEF MonitorInv
  <2>1. console'[current_console] = console[current_console]
    BY <1>3 DEF ConInv, ConTypeOK
  <2>2. printing # current_console
    BY DEF out_char, Nobody, ConInv, ConTypeOK, Con
  <2> QED BY <2>1, <2>2 DEF ConInv, MonitorInv
<1> QED BY <1>8, <1>10, <1>11 DEF ConInv, NoConAssert

(* clear_screen leaves marks of rows too.                                  *)
LEMMA ClearedInt ==
  ASSUME ConTypeOK, NEW c \in Con
  PROVE  clear_screen(c) \in [Con -> [Row -> Int]]
<1>1. \A d \in Con : \A r \in Row : text[d][r] \in Int
  BY DEF ConTypeOK
<1> QED BY <1>1, ConsoleAssumption DEF clear_screen, Pierced, Blank, Torn

(* A new window for a console, as scroll_screen sets it and flushes it.    *)
LEMMA Flushed ==
  ASSUME ConInv, NEW c \in Con, NEW start \in 0..CON_ROWS - SCR_ROWS,
         console' = [console EXCEPT ![c] = [console[c] EXCEPT !.crtc_start = start]],
         crtc' = flush(c, [console[c] EXCEPT !.crtc_start = start]),
         current_console' = current_console,
         printing = c \/ printing = Nobody
  PROVE  /\ console' \in [Con -> Console]
         /\ crtc' \in [con : Con, y : Row, x : 0..SCR_WIDTH - 1,
                       start : 0..CON_ROWS - SCR_ROWS]
         /\ crtc' = Registers(current_console', console'[current_console'])
<1> DEFINE k == [console[c] EXCEPT !.crtc_start = start]
<1>1. k \in Console
  BY DEF ConInv, ConTypeOK, Console
<1>2. console' \in [Con -> Console] /\ console'[c] = k
  BY <1>1 DEF ConInv, ConTypeOK
<1>3. crtc' = Registers(current_console', console'[current_console'])
  <2>1. CASE c = current_console
    BY <2>1, <1>2 DEF flush
  <2>2. CASE c # current_console
    <3>1. printing # current_console
      BY <2>2 DEF ConInv, ConTypeOK, Con, Nobody
    <3>2. console'[current_console] = console[current_console]
      BY <2>2 DEF ConInv, ConTypeOK
    <3> QED BY <2>2, <3>1, <3>2 DEF flush, ConInv, MonitorInv
  <2> QED BY <2>1, <2>2
<1>4. crtc' \in [con : Con, y : Row, x : 0..SCR_WIDTH - 1, start : 0..CON_ROWS - SCR_ROWS]
  <2>1. current_console' \in Con /\ console'[current_console'] \in Console
    BY <1>2 DEF ConInv, ConTypeOK
  <2> QED BY <1>3, <2>1 DEF Registers, Console
<1> QED BY <1>2, <1>3, <1>4

LEMMA ConStep == ConInv /\ [ConsoleNext]_vars => ConInv'
<1> SUFFICES ASSUME ConInv, [ConsoleNext]_vars PROVE ConInv'
  OBVIOUS
<1>0. MaxLine \in Nat
  BY ConsoleAssumption
<1>1. ASSUME NEW c \in Used, Echo(c) PROVE ConInv'
  <2>1. c \in Con
    BY ConsoleAssumption DEF Con
  <2>2. erasable' \in [Con -> 0..MaxLine]
    BY <1>0, <1>1, <2>1 DEF Echo, ConInv, ConTypeOK
  <2> QED BY <1>1, <2>1, <2>2, OutCharStep DEF Echo
<1>2. ASSUME NEW c \in Used, EchoErase(c) PROVE ConInv'
  <2>1. c \in Con
    BY ConsoleAssumption DEF Con
  <2>2. erasable' \in [Con -> 0..MaxLine]
    BY <1>0, <1>2, <2>1 DEF EchoErase, ConInv, ConTypeOK
  <2> QED BY <1>2, <2>1, <2>2, OutCharStep DEF EchoErase
<1>3. ASSUME NEW c \in Used, EchoEnd(c) PROVE ConInv'
  <2>1. c \in Con
    BY ConsoleAssumption DEF Con
  <2>2. erasable' \in [Con -> 0..MaxLine]
    BY <1>0, <1>3, <2>1 DEF EchoEnd, ConInv, ConTypeOK
  <2> QED BY <1>3, <2>1, <2>2, OutCharStep DEF EchoEnd
<1>4. ASSUME NEW c \in Used, Write(c) PROVE ConInv'
  <2>1. c \in Con
    BY ConsoleAssumption DEF Con
  <2>2. PICK ch \in {"printable", "newline"} : out_char(c, ch)
    BY <1>4 DEF Write
  <2>3. erasable' \in [Con -> 0..MaxLine]
    BY <1>4 DEF Write, ConInv, ConTypeOK
  <2> QED BY <2>1, <2>2, <2>3, OutCharStep
<1>5. ASSUME ScrollTurn PROVE ConInv'
  <2> DEFINE c == printing
             start == StartUp(console[c])
  <2>1. c \in Con /\ console[c] \in Console
    BY <1>5 DEF ScrollTurn, ConInv, ConTypeOK
  <2>2. start \in 0..CON_ROWS - SCR_ROWS
    BY <2>1, ScrollInside
  <2>3. /\ console' = [console EXCEPT ![c] = [console[c] EXCEPT !.crtc_start = start]]
        /\ crtc' = flush(c, [console[c] EXCEPT !.crtc_start = start])
        /\ text' = clear_screen(c)
        /\ UNCHANGED <<current_console, erasable, printing, halted>>
    BY <1>5 DEF ScrollTurn
  <2>4. text' \in [Con -> [Row -> Int]]
    BY <2>1, <2>3, ClearedInt DEF ConInv
  <2>5. /\ console' \in [Con -> Console]
        /\ crtc' \in [con : Con, y : Row, x : 0..SCR_WIDTH - 1,
                      start : 0..CON_ROWS - SCR_ROWS]
        /\ crtc' = Registers(current_console', console'[current_console'])
    BY <2>1, <2>2, <2>3, Flushed
  <2> QED BY <2>3, <2>4, <2>5 DEF ConInv, ConTypeOK, NoConAssert, MonitorInv
<1>6. ASSUME OutCharReturns PROVE ConInv'
  <2> DEFINE c == printing
             start == console[c].crtc_start
  <2>1. c \in Con /\ console[c] \in Console /\ console \in [Con -> Console]
    BY <1>6 DEF OutCharReturns, ConInv, ConTypeOK
  <2>2. start \in 0..CON_ROWS - SCR_ROWS
    BY <2>1 DEF Console
  <2>3. /\ crtc' = flush(c, console[c])
        /\ printing' = Nobody
        /\ UNCHANGED <<console, current_console, text, erasable, halted>>
    BY <1>6 DEF OutCharReturns
  <2>4. [console[c] EXCEPT !.crtc_start = start] = console[c]
    BY <2>1 DEF Console
  <2>5. console' = [console EXCEPT ![c] = [console[c] EXCEPT !.crtc_start = start]]
    BY <2>1, <2>3, <2>4
  <2>6. /\ crtc' \in [con : Con, y : Row, x : 0..SCR_WIDTH - 1,
                      start : 0..CON_ROWS - SCR_ROWS]
        /\ crtc' = Registers(current_console', console'[current_console'])
    BY <2>1, <2>2, <2>3, <2>4, <2>5, Flushed
  <2> QED BY <2>3, <2>6 DEF ConInv, ConTypeOK, NoConAssert, MonitorInv
<1>7. ASSUME ScrollKey PROVE ConInv'
  <2> DEFINE c == current_console
  <2>1. c \in Con /\ console[c] \in Console
    BY DEF ConInv, ConTypeOK
  <2>2. PICK start \in {StartDown(console[c]), StartUp(console[c])} :
          /\ console' = [console EXCEPT ![c] = [console[c] EXCEPT !.crtc_start = start]]
          /\ crtc' = flush(c, [console[c] EXCEPT !.crtc_start = start])
    BY <1>7 DEF ScrollKey
  <2>3. start \in 0..CON_ROWS - SCR_ROWS
    BY <2>1, <2>2, ScrollInside
  <2>4. printing = Nobody /\ UNCHANGED <<current_console, text, erasable, printing, halted>>
    BY <1>7 DEF ScrollKey
  <2>5. /\ console' \in [Con -> Console]
        /\ crtc' \in [con : Con, y : Row, x : 0..SCR_WIDTH - 1,
                      start : 0..CON_ROWS - SCR_ROWS]
        /\ crtc' = Registers(current_console', console'[current_console'])
    BY <2>1, <2>2, <2>3, <2>4, Flushed
  <2> QED BY <2>4, <2>5 DEF ConInv, ConTypeOK, NoConAssert, MonitorInv
<1>8. ASSUME select_console PROVE ConInv'
  <2>1. PICK nr_console \in Con :
          /\ current_console' = nr_console
          /\ crtc' = Registers(nr_console, console[nr_console])
    BY <1>8 DEF select_console
  <2>2. UNCHANGED <<console, text, erasable, printing, halted>>
    BY <1>8 DEF select_console
  <2>3. console[nr_console] \in Console
    BY <2>1 DEF ConInv, ConTypeOK
  <2>4. crtc' \in [con : Con, y : Row, x : 0..SCR_WIDTH - 1, start : 0..CON_ROWS - SCR_ROWS]
    BY <2>1, <2>3 DEF Registers, Console
  <2> QED BY <2>1, <2>2, <2>4 DEF ConInv, ConTypeOK, NoConAssert, MonitorInv
<1>9. ASSUME UNCHANGED vars PROVE ConInv'
  BY <1>9 DEF vars, ConInv, ConTypeOK, NoConAssert, MonitorInv
<1> QED
  BY <1>1, <1>2, <1>3, <1>4, <1>5, <1>6, <1>7, <1>8, <1>9 DEF ConsoleNext

(* ConInv is an inductive invariant of Console.                            *)
THEOREM ConInvariant == ConsoleSpec => []ConInv
<1> QED BY ConInit, ConStep, PTL DEF ConsoleSpec

(* The cursor stays in its console and so does the window, for consoles    *)
(* and screens of every size: neither wrapping nor scrolling leads out.    *)
THEOREM ConTypeCorrect == ConsoleSpec => []ConTypeOK
<1>1. ConInv => ConTypeOK
  BY DEF ConInv
<1> QED BY <1>1, ConInvariant, PTL

(* The two assertions of out_char never fail.                              *)
THEOREM ConNeverHalts == ConsoleSpec => []NoConAssert
<1>1. ConInv => NoConAssert
  BY DEF ConInv
<1> QED BY <1>1, ConInvariant, PTL

(* Between two characters the controller has the window and the cursor of  *)
(* the current console.                                                    *)
THEOREM MonitorCorrect == ConsoleSpec => []MonitorFollows
<1>1. ConInv => MonitorFollows
  BY DEF ConInv, ConTypeOK, MonitorInv, MonitorFollows, Con, Nobody
<1> QED BY <1>1, ConInvariant, PTL

-----------------------------------------------------------------------------
(* The line that a row holds follows from where the cursor is: the rows    *)
(* down to the cursor's were written one after the other, and those below  *)
(* it in the round before, of which the last rows were copied to the top.  *)
LineOf(y, r) == IF r <= y THEN y - r ELSE y - r + CopyFrom

InRows(t, y) == \A r \in Row : Line(t[r]) => t[r] = LineOf(y, r)

RowsInv == \A c \in Con : InRows(text[c], console[c].y)

(* A line begun in the next row, or unbegun, moves all the others by one.  *)
LEMMA BegunInRows ==
  ASSUME NEW t \in [Row -> Int], NEW y \in Row, InRows(t, y)
  PROVE  /\ InRows(Begun(t, y + 1), y + 1)
         /\ InRows(Unbegun(t, y), y - 1)
<1>1. CON_ROWS \in Nat /\ SCR_ROWS \in Nat /\ CON_ROWS > 0
  BY ConsoleAssumption
<1>2. y \in Int /\ CopyFrom \in Int
  BY <1>1 DEF Row, CopyFrom
<1>3. ASSUME NEW r \in Row, Line(Begun(t, y + 1)[r])
      PROVE  Begun(t, y + 1)[r] = LineOf(y + 1, r)
  <2>1. r \in Int /\ t[r] \in Int
    BY <1>1 DEF Row
  <2>2. CASE r = y + 1
    <3>1. Begun(t, y + 1)[r] \in {0, Torn}
      BY <2>2 DEF Begun
    <3>2. ~Line(Torn)
      BY <1>1 DEF Line, Torn, Blank
    <3> QED BY <1>2, <1>3, <2>1, <2>2, <3>1, <3>2 DEF LineOf
  <2>3. CASE r # y + 1
    <3>1. Begun(t, y + 1)[r] = IF Line(t[r]) THEN t[r] + 1 ELSE t[r]
      BY <2>3 DEF Begun
    <3>2. Line(t[r]) /\ t[r] = LineOf(y, r)
      BY <1>3, <3>1 DEF InRows
    <3> QED BY <1>2, <2>1, <2>3, <3>1, <3>2 DEF LineOf
  <2> QED BY <2>2, <2>3
<1>4. ASSUME NEW r \in Row, Line(Unbegun(t, y)[r])
      PROVE  Unbegun(t, y)[r] = LineOf(y - 1, r)
  <2>1. r \in Int /\ t[r] \in Int
    BY <1>1 DEF Row
  <2>2. CASE r = y
    <3>1. Unbegun(t, y)[r] = IF t[r] = 0 THEN Blank ELSE t[r]
      BY <2>2 DEF Unbegun
    <3>2. t[r] # 0 /\ Line(t[r])
      BY <1>1, <1>4, <3>1 DEF Line, Blank
    <3>3. t[r] = LineOf(y, r)
      BY <3>2 DEF InRows
    <3> QED BY <1>2, <2>2, <3>2, <3>3 DEF LineOf
  <2>3. CASE r # y
    <3>1. Unbegun(t, y)[r] = IF Line(t[r]) THEN t[r] - 1 ELSE t[r]
      BY <2>3 DEF Unbegun
    <3>2. Line(t[r]) /\ t[r] = LineOf(y, r)
      BY <1>4, <3>1 DEF InRows
    <3> QED BY <1>2, <2>1, <2>3, <3>1, <3>2 DEF LineOf
  <2> QED BY <2>2, <2>3
<1> QED BY <1>3, <1>4 DEF InRows

(* Wrapping: the last rows are in order at the top, and the rows below     *)
(* them are those of the round before.                                     *)
LEMMA CopiedInRows ==
  ASSUME NEW t \in [Row -> Int], InRows(t, CON_ROWS)
  PROVE  InRows(Copied(t), SCR_ROWS - 1)
<1>1. /\ CON_ROWS \in Nat /\ SCR_ROWS \in Nat /\ SCR_ROWS > 1
      /\ CON_ROWS >= 2 * SCR_ROWS
  BY ConsoleAssumption
<1>2. ASSUME NEW r \in Row, Line(Copied(t)[r])
      PROVE  Copied(t)[r] = LineOf(SCR_ROWS - 1, r)
  <2>1. r \in 0..CON_ROWS - 1
    BY DEF Row
  <2>2. CASE r < SCR_ROWS - 1
    <3>1. Copied(t)[r] = t[r + CopyFrom]
      BY <1>1, <2>1, <2>2 DEF Copied
    <3>2. r + CopyFrom \in Row
      BY <1>1, <2>1, <2>2 DEF Row, CopyFrom
    <3>3. t[r + CopyFrom] = LineOf(CON_ROWS, r + CopyFrom)
      BY <1>2, <3>1, <3>2 DEF InRows
    <3> QED BY <1>1, <2>1, <2>2, <3>1, <3>3 DEF LineOf, CopyFrom
  <2>3. CASE r = SCR_ROWS - 1
    <3>1. Copied(t)[r] = 0
      BY <1>1, <2>3 DEF Copied
    <3> QED BY <1>1, <2>3, <3>1 DEF LineOf
  <2>4. CASE r > SCR_ROWS - 1
    <3>1. Copied(t)[r] = t[r]
      BY <1>1, <2>1, <2>4 DEF Copied
    <3>2. t[r] = LineOf(CON_ROWS, r)
      BY <1>2, <3>1 DEF InRows
    <3> QED BY <1>1, <2>1, <2>4, <3>1, <3>2 DEF LineOf, CopyFrom
  <2> QED BY <1>1, <2>1, <2>2, <2>3, <2>4
<1> QED BY <1>2 DEF InRows

(* What out_char writes, before the cursor is taken back into its console. *)
LEMMA WrittenInRows ==
  ASSUME NEW t \in [Row -> Int], NEW k \in Console, InRows(t, k.y),
         NEW ch \in {"printable", "newline", "backspace"}
  PROVE  /\ InRows(Written(t, k, Moved(k, ch)), Moved(k, ch).y)
         /\ Moved(k, ch).y \in 0..CON_ROWS
<1> DEFINE m == Moved(k, ch)
<1>1. k.y \in Row /\ k.y \in 0..CON_ROWS - 1 /\ CON_ROWS \in Nat
  BY ConsoleAssumption DEF Console, Row
<1>2. m.y \in {k.y, k.y + 1, k.y - 1} /\ m.y \in 0..CON_ROWS
  <2>1. CASE ch = "newline"
    <3>1. m = [k EXCEPT !.y = k.y + 1, !.x = 0]
      BY <2>1 DEF Moved
    <3> QED BY <1>1, <3>1 DEF Console
  <2>2. CASE ch = "backspace"
    <3>1. m = IF k.x > 0 THEN [k EXCEPT !.x = k.x - 1]
              ELSE IF k.y > 0 THEN [k EXCEPT !.y = k.y - 1, !.x = SCR_WIDTH - 1]
              ELSE k
      BY <2>2 DEF Moved
    <3> QED BY <1>1, <3>1 DEF Console
  <2>3. CASE ch = "printable"
    <3>1. m = IF k.x + 1 < SCR_WIDTH THEN [k EXCEPT !.x = k.x + 1]
              ELSE [k EXCEPT !.y = k.y + 1, !.x = 0]
      BY <2>3 DEF Moved
    <3> QED BY <1>1, <3>1 DEF Console
  <2> QED BY <2>1, <2>2, <2>3
<1>3. CASE m.y = k.y
  <2>1. Written(t, k, m) = t
    BY <1>1, <1>3 DEF Written
  <2> QED BY <1>2, <1>3, <2>1
<1>4. CASE m.y = k.y + 1
  <2>1. Written(t, k, m) = Begun(t, k.y + 1)
    BY <1>1, <1>4 DEF Written
  <2> QED BY <1>1, <1>2, <1>4, <2>1, BegunInRows
<1>5. CASE m.y = k.y - 1
  <2>1. Written(t, k, m) = Unbegun(t, k.y)
    BY <1>1, <1>5 DEF Written
  <2> QED BY <1>1, <1>2, <1>5, <2>1, BegunInRows
<1> QED BY <1>2, <1>3, <1>4, <1>5

LEMMA OutCharRows ==
  ASSUME ConInv, RowsInv, NEW c \in Con,
         NEW ch \in {"printable", "newline", "backspace"}, out_char(c, ch)
  PROVE  RowsInv'
<1> DEFINE k == console[c]
           m == Moved(k, ch)
           n == IF Leaves(m) THEN Wrapped(m) ELSE m
           t == Written(text[c], k, m)
           u == IF Leaves(m) THEN Copied(t) ELSE t
<1>1. /\ console \in [Con -> Console] /\ text \in [Con -> [Row -> Int]]
      /\ k \in Console /\ text[c] \in [Row -> Int] /\ InRows(text[c], k.y)
  BY DEF ConInv, ConTypeOK, RowsInv
<1>2. console' = [console EXCEPT ![c] = n] /\ text' = [text EXCEPT ![c] = u]
  BY DEF out_char
<1>3. InRows(t, m.y) /\ m.y \in 0..CON_ROWS
  BY <1>1, WrittenInRows
<1>4. t \in [Row -> Int]
  <2>1. m.y \in Int
    BY <1>3, ConsoleAssumption
  <2> QED BY <1>1, <2>1, TextInt
<1>5. InRows(u, n.y)
  <2>1. CASE ~Leaves(m)
    BY <1>3, <2>1
  <2>2. CASE Leaves(m)
    <3>1. m.y = CON_ROWS
      BY <1>3, <2>2, ConsoleAssumption DEF Leaves
    <3>2. InRows(Copied(t), SCR_ROWS - 1)
      BY <1>3, <1>4, <3>1, CopiedInRows
    <3>3. n.y = SCR_ROWS - 1
      <4>1. m \in [y : 0..CON_ROWS, x : 0..SCR_WIDTH - 1, is_full : BOOLEAN,
                   crtc_start : 0..CON_ROWS - SCR_ROWS]
        BY <1>1, MovedInside
      <4> QED BY <2>2, <4>1 DEF Wrapped
    <3> QED BY <2>2, <3>2, <3>3
  <2> QED BY <2>1, <2>2
<1>6. ASSUME NEW d \in Con PROVE InRows(text'[d], console'[d].y)
  <2>1. CASE d = c
    <3>1. text'[d] = u /\ console'[d] = n
      BY <1>1, <1>2, <2>1
    <3> QED BY <1>5, <3>1
  <2>2. CASE d # c
    <3>1. text'[d] = text[d] /\ console'[d] = console[d]
      BY <1>1, <1>2, <2>2
    <3> QED BY <3>1 DEF RowsInv
  <2> QED BY <2>1, <2>2
<1>7. \A d \in Con : InRows(text'[d], console'[d].y)
  BY <1>6
<1> QED BY <1>7 DEF RowsInv, InRows

(* A console whose window moves keeps its cursor, so that what its rows    *)
(* hold stays right; what clear_screen does to a row spoils it, or makes   *)
(* it the empty line of the cursor.                                        *)
LEMMA ClearedInRows ==
  ASSUME ConTypeOK, RowsInv, NEW c \in Con, NEW d \in Con
  PROVE  InRows(clear_screen(c)[d], console[d].y)
<1>1. CON_ROWS \in Nat /\ ConsoleAssumption
  BY ConsoleAssumption
<1>2. ASSUME NEW r \in Row, Line(clear_screen(c)[d][r])
      PROVE  clear_screen(c)[d][r] = LineOf(console[d].y, r)
  <2>1. /\ r \in Int /\ console[d].y \in Int
        /\ Line(text[d][r]) => text[d][r] = LineOf(console[d].y, r)
    <3>1. console[d] \in Console /\ InRows(text[d], console[d].y)
      BY DEF ConTypeOK, RowsInv
    <3>2. r \in Int /\ console[d].y \in Int
      BY <1>1, <3>1 DEF Row, Console
    <3> QED BY <3>1, <3>2 DEF InRows
  <2>2. ~Line(Pierced(text[d][r]))
    BY <1>1 DEF Line, Pierced, Torn, Blank
  <2>3. \/ clear_screen(c)[d][r] = Pierced(text[d][r])
        \/ d = c /\ r = console[c].y /\ clear_screen(c)[d][r] = 0
        \/ clear_screen(c)[d][r] = text[d][r]
    BY DEF clear_screen
  <2>4. LineOf(r, r) = 0
    BY <2>1 DEF LineOf
  <2> QED BY <1>2, <2>1, <2>2, <2>3, <2>4
<1> QED BY <1>2 DEF InRows

LEMMA RowsStep == ConInv /\ RowsInv /\ [ConsoleNext]_vars => RowsInv'
<1> SUFFICES ASSUME ConInv, RowsInv, [ConsoleNext]_vars PROVE RowsInv'
  OBVIOUS
<1>0. /\ Used \subseteq Con
      /\ console \in [Con -> Console] /\ text \in [Con -> [Row -> Int]]
      /\ printing \in Con \cup {Nobody} /\ current_console \in Con
  BY ConsoleAssumption DEF Con, ConInv, ConTypeOK
<1>1. ASSUME NEW c \in Used, Echo(c) \/ EchoErase(c) \/ EchoEnd(c) \/ Write(c)
      PROVE  RowsInv'
  <2>1. PICK ch \in {"printable", "newline", "backspace"} : out_char(c, ch)
    BY <1>1 DEF Echo, EchoErase, EchoEnd, Write
  <2> QED BY <1>0, <2>1, OutCharRows
<1>2. ASSUME NEW c \in Con, NEW start,
             console' = [console EXCEPT ![c] = [console[c] EXCEPT !.crtc_start = start]]
      PROVE  \A d \in Con : console'[d].y = console[d].y
  BY <1>0, <1>2 DEF Console
<1>3. ASSUME ScrollTurn PROVE RowsInv'
  <2> DEFINE c == printing
  <2>1. c \in Con /\ text' = clear_screen(c)
    BY <1>3 DEF ScrollTurn
  <2>2. \A d \in Con : console'[d].y = console[d].y
    BY <1>2, <1>3, <2>1 DEF ScrollTurn
  <2>3. \A d \in Con : InRows(clear_screen(c)[d], console[d].y)
    BY <2>1, ClearedInRows DEF ConInv
  <2>4. \A d \in Con : InRows(text'[d], console'[d].y)
    BY <2>1, <2>2, <2>3
  <2> QED BY <2>4 DEF RowsInv, InRows
<1>4. ASSUME ScrollKey PROVE RowsInv'
  <2>1. \A d \in Con : console'[d].y = console[d].y
    BY <1>0, <1>2, <1>4 DEF ScrollKey
  <2>2. text' = text
    BY <1>4 DEF ScrollKey
  <2>3. \A d \in Con : InRows(text'[d], console'[d].y)
    BY <2>1, <2>2 DEF RowsInv
  <2> QED BY <2>3 DEF RowsInv, InRows
<1>5. ASSUME OutCharReturns \/ select_console \/ UNCHANGED vars PROVE RowsInv'
  <2>1. text' = text /\ console' = console
    BY <1>5 DEF OutCharReturns, select_console, vars
  <2> QED BY <2>1 DEF RowsInv, InRows
<1> QED BY <1>1, <1>3, <1>4, <1>5 DEF ConsoleNext

LEMMA RowsInit == ConsoleInit => RowsInv
<1> SUFFICES ASSUME ConsoleInit, NEW c \in Con, NEW r \in Row, Line(text[c][r])
             PROVE  text[c][r] = LineOf(console[c].y, r)
  BY DEF RowsInv, InRows
<1>1. text[c][r] = IF r <= console[c].y THEN console[c].y - r ELSE Blank
  BY DEF ConsoleInit
<1>2. ~Line(Blank)
  BY ConsoleAssumption DEF Line, Blank
<1> QED BY <1>1, <1>2 DEF LineOf

(* However far a console has been scrolled back, and although its rows     *)
(* wrap, rows one below the other hold lines written one after the other.  *)
THEOREM RowsInOrder == ConsoleSpec => []ViewInOrder
<1>1. ConInv /\ RowsInv => ViewInOrder
  <2> SUFFICES ASSUME ConInv, RowsInv, NEW c \in Con, NEW i \in 0..SCR_ROWS - 2,
                      LET r == console[c].crtc_start + i
                      IN r # console[c].y /\ Line(text[c][r]) /\ Line(text[c][r + 1])
               PROVE  LET r == console[c].crtc_start + i
                      IN text[c][r] = text[c][r + 1] + 1
    BY DEF ViewInOrder
  <2> DEFINE y == console[c].y
             r == console[c].crtc_start + i
  <2>1. console[c] \in Console /\ CON_ROWS \in Nat /\ SCR_ROWS \in Nat
    BY ConsoleAssumption DEF ConInv, ConTypeOK
  <2>2. r \in Row /\ r + 1 \in Row /\ r \in Int /\ y \in Int /\ CopyFrom \in Int
    BY <2>1 DEF Console, Row, CopyFrom
  <2>3. text[c][r] = LineOf(y, r) /\ text[c][r + 1] = LineOf(y, r + 1)
    BY <2>2 DEF RowsInv, InRows
  <2>4. r # y
    OBVIOUS
  <2> HIDE DEF r, y
  <2>5. LineOf(y, r) = LineOf(y, r + 1) + 1
    BY <2>2, <2>4 DEF LineOf
  <2> QED BY <2>3, <2>5 DEF r
<1>2. ConsoleSpec => []RowsInv
  BY RowsInit, RowsStep, ConInvariant, PTL DEF ConsoleSpec
<1> QED BY <1>1, <1>2, ConInvariant, PTL

-----------------------------------------------------------------------------
(***************************************************************************)
(* The scan codes.  However the bytes of the keys come to keyboard_read,   *)
(* it takes those of one press or release at a time, so that it is always  *)
(* at some place in the history of the keys, with the modifiers and locks  *)
(* that the typist had there.                                              *)
(***************************************************************************)
(* The keys whose code is a byte, or a byte behind E0; and those bytes.    *)
Plain == DOMAIN ScanCode \ Special
Extended == {"CTRL_R", "ALT_R", "PAD_SLASH", "UP", "PAGEUP"}
Base(k) == ScanCode[k][IF k \in Extended THEN 2 ELSE 1]

(* The bytes of the special keys, by what tells keyboard_read of them.     *)
Esc == \hE0
PauseEsc == \hE1
PrtMake == \h2A
PrtBreak == \hB7
Pause2 == \h1D
Pause3 == \h45
Pause5 == \h9D

(* What the keyboard sends when a key is pressed ("make") or released, and *)
(* when it answers to set_leds.                                            *)
Way == {"make", "break"}
Sender == DOMAIN ScanCode \cup {"ACK"}
Sent(k, w) ==
  IF k = "ACK" THEN <<KB_ACK>> ELSE IF w = "make" THEN MakeCode(k) ELSE BreakCode(k)

(* The keys, and the codes of those.                                       *)
LEMMA KeyNames ==
  DOMAIN ScanCode = {"A", "ONE", "ENTER", "F1", "SHIFT_L", "SHIFT_R", "CTRL_L", "CTRL_R",
                     "ALT_L", "ALT_R", "CAPS_LOCK", "NUM_LOCK", "PAD_8", "PAD_9", "PAD_SLASH",
                     "UP", "PAGEUP", "PRINTSCREEN", "PAUSEBREAK"}
BY DEF ScanCode

(* A plain code is below 96, and behind E0 it is none of PrintScreen.      *)
LEMMA PlainCodes ==
  ASSUME NEW k \in Plain
  PROVE  /\ Base(k) \in Nat /\ Base(k) < 96
         /\ k \in Extended => Base(k) \notin {\h2A, \h37}
         /\ ScanCode[k] = IF k \in Extended THEN <<\hE0, Base(k)>> ELSE <<Base(k)>>
<1>1. k \in {"A", "ONE", "ENTER", "F1", "SHIFT_L", "SHIFT_R", "CTRL_L", "CTRL_R", "ALT_L", "ALT_R",
             "CAPS_LOCK", "NUM_LOCK", "PAD_8", "PAD_9", "PAD_SLASH", "UP", "PAGEUP"}
  BY KeyNames DEF Plain, Special
<1> QED BY <1>1 DEF ScanCode, Base, Extended

(* The last byte of an event of an ordinary key.                           *)
Byte(k, w) == IF w = "make" THEN Base(k) ELSE Base(k) + FLAG_BREAK

(* No byte of an ordinary key is E0 or E1 but the E0 in front.             *)
LEMMA PlainSent ==
  ASSUME NEW k \in Plain, NEW w \in Way
  PROVE  /\ Byte(k, w) \in Nat /\ Byte(k, w) \notin {Esc, PauseEsc}
         /\ k \in Extended => Byte(k, w) \notin {PrtMake, PrtBreak}
         /\ Sent(k, w) = IF k \in Extended THEN <<Esc, Byte(k, w)>> ELSE <<Byte(k, w)>>
<1> USE DEF Esc, PauseEsc, PrtMake, PrtBreak
<1>1. k \notin Special
  BY DEF Plain
<1>2. PICK b \in Nat : b = Base(k)
  BY PlainCodes
<1>3. b < 96 /\ (k \in Extended => b \notin {\h2A, \h37})
  BY <1>2, PlainCodes
<1>4. ScanCode[k] = IF k \in Extended THEN <<\hE0, b>> ELSE <<b>>
  BY <1>2, PlainCodes
<1>5. MakeCode(k) = IF k \in Extended THEN <<\hE0, b>> ELSE <<b>>
  BY <1>4 DEF MakeCode
<1>6. BreakCode(k) = IF k \in Extended THEN <<\hE0, b + FLAG_BREAK>> ELSE <<b + FLAG_BREAK>>
  <2>1. BreakCode(k) = [ScanCode[k] EXCEPT ![Len(ScanCode[k])] = @ + FLAG_BREAK]
    BY <1>1 DEF BreakCode, Special
  <2>2. CASE k \in Extended
    <3>1. ScanCode[k] = <<\hE0, b>>
      BY <1>4, <2>2
    <3>2. [<<\hE0, b>> EXCEPT ![2] = b + FLAG_BREAK] = <<\hE0, b + FLAG_BREAK>>
      OBVIOUS
    <3> QED BY <2>1, <2>2, <3>1, <3>2
  <2>3. CASE k \notin Extended
    <3>1. ScanCode[k] = <<b>>
      BY <1>4, <2>3
    <3>2. [<<b>> EXCEPT ![1] = b + FLAG_BREAK] = <<b + FLAG_BREAK>>
      OBVIOUS
    <3> QED BY <2>1, <2>3, <3>1, <3>2
  <2> QED BY <2>2, <2>3
<1>7. Byte(k, w) = IF w = "make" THEN b ELSE b + 128
  BY <1>2 DEF Byte, FLAG_BREAK
<1>8. Sent(k, w) = IF k \in Extended THEN <<\hE0, Byte(k, w)>> ELSE <<Byte(k, w)>>
  <2>1. k # "ACK"
    BY KeyNames DEF Plain
  <2> QED BY <1>5, <1>6, <1>7, <2>1 DEF Sent, FLAG_BREAK
<1>9. Byte(k, w) \in Nat /\ Byte(k, w) \notin {\hE0, \hE1}
  BY <1>3, <1>7
<1>10. k \in Extended => Byte(k, w) \notin {\h2A, \hB7}
  BY <1>3, <1>7
<1> QED BY <1>8, <1>9, <1>10

(* What the special keys send.                                             *)
LEMMA SpecialSent ==
  /\ Sent("PRINTSCREEN", "make") = <<\hE0, \h2A, \hE0, \h37>>
  /\ Sent("PRINTSCREEN", "break") = <<\hE0, \hB7, \hE0, \hAA>>
  /\ Sent("PAUSEBREAK", "make") = <<\hE1, \h1D, \h45, \hE1, \h9D, \hC5>>
  /\ Sent("PAUSEBREAK", "break") = <<>>
BY DEF Sent, MakeCode, BreakCode, ScanCode

(* The same, byte by byte as far as keyboard_read looks.                   *)
LEMMA SpecialBytes ==
  /\ \A w \in Way :
       LET t == Sent("PRINTSCREEN", w)
       IN  /\ t \in Seq(Nat) /\ Len(t) = 4 /\ t[1] = Esc
           /\ t[2] = (IF w = "make" THEN PrtMake ELSE PrtBreak) /\ t[3] = Esc
  /\ LET t == Sent("PAUSEBREAK", "make")
     IN  /\ t \in Seq(Nat) /\ Len(t) = 6
         /\ t[1] = PauseEsc /\ t[2] = Pause2 /\ t[3] = Pause3 /\ t[4] = PauseEsc /\ t[5] = Pause5
<1> USE DEF Esc, PauseEsc, PrtMake, PrtBreak, Pause2, Pause3, Pause5
<1>1. ASSUME NEW t, t = <<\hE0, \h2A, \hE0, \h37>>
      PROVE  t \in Seq(Nat) /\ Len(t) = 4 /\ t[1] = \hE0 /\ t[2] = \h2A /\ t[3] = \hE0
  BY <1>1
<1>2. ASSUME NEW t, t = <<\hE0, \hB7, \hE0, \hAA>>
      PROVE  t \in Seq(Nat) /\ Len(t) = 4 /\ t[1] = \hE0 /\ t[2] = \hB7 /\ t[3] = \hE0
  BY <1>2
<1>3. ASSUME NEW t, t = <<\hE1, \h1D, \h45, \hE1, \h9D, \hC5>>
      PROVE  /\ t \in Seq(Nat) /\ Len(t) = 6
             /\ t[1] = \hE1 /\ t[2] = \h1D /\ t[3] = \h45 /\ t[4] = \hE1 /\ t[5] = \h9D
  BY <1>3
<1>4. ASSUME NEW w \in Way
      PROVE  LET t == Sent("PRINTSCREEN", w)
             IN  /\ t \in Seq(Nat) /\ Len(t) = 4 /\ t[1] = Esc
                 /\ t[2] = (IF w = "make" THEN PrtMake ELSE PrtBreak) /\ t[3] = Esc
  <2>1. CASE w = "make"
    BY <1>1, <2>1, SpecialSent
  <2>2. CASE w = "break"
    BY <1>2, <2>2, SpecialSent
  <2> QED BY <2>1, <2>2 DEF Way
<1>5. LET t == Sent("PAUSEBREAK", "make")
      IN  /\ t \in Seq(Nat) /\ Len(t) = 6
          /\ t[1] = PauseEsc /\ t[2] = Pause2 /\ t[3] = Pause3 /\ t[4] = PauseEsc /\ t[5] = Pause5
  BY <1>3, SpecialSent
<1> QED BY <1>4, <1>5

(* The answer to set_leds is a byte, and that of no key.                   *)
LEMMA AckSent ==
  ASSUME NEW w
  PROVE  /\ Sent("ACK", w) = <<KB_ACK>> /\ KB_ACK \in Nat /\ KB_ACK \notin {Esc, PauseEsc}
         /\ "ACK" \notin DOMAIN ScanCode
BY KeyNames DEF Sent, KB_ACK, Esc, PauseEsc

(* Only the release of Pause sends nothing.                                *)
LEMMA SentIsSeq ==
  ASSUME NEW k \in Sender, NEW w \in Way
  PROVE  /\ Sent(k, w) \in Seq(Nat)
         /\ Sent(k, w) = <<>> <=> k = "PAUSEBREAK" /\ w = "break"
<1>1. CASE k = "PRINTSCREEN"
  <2>1. Sent(k, w) \in Seq(Nat) /\ Len(Sent(k, w)) = 4
    BY <1>1, SpecialBytes
  <2> QED BY <1>1, <2>1
<1>2. CASE k = "PAUSEBREAK" /\ w = "make"
  <2>1. Sent(k, w) \in Seq(Nat) /\ Len(Sent(k, w)) = 6
    BY <1>2, SpecialBytes
  <2> QED BY <1>2, <2>1, SMTT(30)
<1>3. CASE k = "PAUSEBREAK" /\ w = "break"
  <2>1. <<>> \in Seq(Nat)
    OBVIOUS
  <2>2. Sent(k, w) = <<>>
    BY <1>3, SpecialSent, Zenon
  <2> QED BY <1>3, <2>1, <2>2
<1>4. CASE k \in Plain
  <2>1. PICK b \in Nat : Sent(k, w) = IF k \in Extended THEN <<Esc, b>> ELSE <<b>>
    BY <1>4, PlainSent
  <2>2. <<Esc, b>> \in Seq(Nat) /\ <<b>> \in Seq(Nat) /\ <<Esc, b>> # <<>> /\ <<b>> # <<>>
    BY DEF Esc
  <2>3. k # "PAUSEBREAK"
    BY <1>4 DEF Plain, Special
  <2> QED BY <2>1, <2>2, <2>3
<1>5. CASE k = "ACK"
  <2>1. PICK b \in Nat : Sent(k, w) = <<b>>
    BY <1>5, AckSent
  <2>2. <<b>> \in Seq(Nat) /\ <<b>> # <<>>
    OBVIOUS
  <2>3. k # "PAUSEBREAK"
    BY <1>5
  <2> QED BY <2>1, <2>2, <2>3
<1> QED BY <1>1, <1>2, <1>3, <1>4, <1>5 DEF Plain, Special, Way, Sender

(* Beginning of a sequence, byte by byte.                                  *)
LEMMA StrictPrefixIs ==
  ASSUME NEW s \in Seq(Nat), NEW t \in Seq(Nat)
  PROVE  IsStrictPrefix(s, t) <=> Len(s) < Len(t) /\ \A i \in 1..Len(s) : s[i] = t[i]
<1>1. Len(s) \in Nat /\ Len(t) \in Nat
  OBVIOUS
<1>2. SubSeq(s, 1, Len(s)) = s
  BY SubSeqFull
<1>3. CASE Len(s) <= Len(t)
  <2>1. /\ SubSeq(t, 1, Len(s)) \in Seq(Nat) /\ Len(SubSeq(t, 1, Len(s))) = Len(s)
        /\ \A i \in 1..Len(s) : SubSeq(t, 1, Len(s))[i] = t[i]
    BY <1>1, <1>3, SubSeqProperties
  <2>2. s = SubSeq(t, 1, Len(s)) <=> \A i \in 1..Len(s) : s[i] = t[i]
    BY <2>1, SeqEqual
  <2>3. CASE Len(s) = Len(t)
    <3>1. (\A i \in 1..Len(s) : s[i] = t[i]) => s = t
      BY <2>3, SeqEqual
    <3> QED BY <1>2, <2>2, <2>3, <3>1 DEF IsStrictPrefix, IsPrefix
  <2>4. CASE Len(s) < Len(t)
    <3>1. s # t
      BY <1>1, <2>4
    <3> QED BY <1>2, <1>3, <2>2, <2>4, <3>1 DEF IsStrictPrefix, IsPrefix
  <2> QED BY <1>1, <1>3, <2>3, <2>4
<1>4. CASE ~(Len(s) <= Len(t))
  BY <1>1, <1>4 DEF IsStrictPrefix, IsPrefix
<1> QED BY <1>3, <1>4

(* The bytes g are the beginning of s.                                     *)
Begins(g, s) == Len(g) < Len(s) /\ \A i \in 1..Len(g) : g[i] = s[i]

(* So they are when the bytes that tell the special keys apart agree.      *)
LEMMA BeginsAt ==
  ASSUME NEW g, NEW s, Len(s) \in {4, 6}
  PROVE  /\ Len(g) = 1 => (Begins(g, s) <=> g[1] = s[1])
         /\ Len(g) = 2 => (Begins(g, s) <=> g[1] = s[1] /\ g[2] = s[2])
         /\ (Len(g) = 4 /\ Begins(g, s)) => g[1] = s[1]
         /\ (Len(g) = Len(s) \/ Len(g) = 6) => ~ Begins(g, s)
<1>0. 1..1 = {1} /\ 1..2 = {1, 2} /\ 1 \in 1..4
  OBVIOUS
<1>1. Len(g) = 1 => (Begins(g, s) <=> g[1] = s[1])
  BY <1>0 DEF Begins
<1>2. Len(g) = 2 => (Begins(g, s) <=> g[1] = s[1] /\ g[2] = s[2])
  BY <1>0 DEF Begins
<1>3. (Len(g) = 4 /\ Begins(g, s)) => g[1] = s[1]
  BY <1>0 DEF Begins
<1>4. (Len(g) = Len(s) \/ Len(g) = 6) => ~ Begins(g, s)
  BY DEF Begins
<1> QED BY <1>1, <1>2, <1>3, <1>4

(* keyboard_read takes another byte at the beginning of a special key.     *)
LEMMA NeedsMoreIs ==
  ASSUME NEW g \in Seq(Nat)
  PROVE  NeedsMore(g) <=>
           \/ g = <<\hE0>>
           \/ Begins(g, Sent("PRINTSCREEN", "make")) \/ Begins(g, Sent("PRINTSCREEN", "break"))
           \/ Begins(g, Sent("PAUSEBREAK", "make"))
<1>1. NeedsMore(g) <=>
        \/ g = <<\hE0>>
        \/ IsStrictPrefix(g, Sent("PRINTSCREEN", "make")) \/ IsStrictPrefix(g, Sent("PRINTSCREEN", "break"))
        \/ IsStrictPrefix(g, Sent("PAUSEBREAK", "make"))
  BY DEF NeedsMore, Sent
<1>2. /\ Sent("PRINTSCREEN", "make") \in Seq(Nat) /\ Sent("PRINTSCREEN", "break") \in Seq(Nat)
      /\ Sent("PAUSEBREAK", "make") \in Seq(Nat)
  BY SpecialBytes DEF Way
<1>3. \A s \in Seq(Nat) : IsStrictPrefix(g, s) <=> Begins(g, s)
  BY StrictPrefixIs DEF Begins
<1> QED BY <1>1, <1>2, <1>3

(* By the number of bytes so far.                                          *)
LEMMA NeedsMoreAt ==
  ASSUME NEW g \in Seq(Nat)
  PROVE  /\ Len(g) = 1 => (NeedsMore(g) <=> g[1] = Esc \/ g[1] = PauseEsc)
         /\ (Len(g) = 2 /\ NeedsMore(g)) => \/ g[1] = Esc /\ (g[2] = PrtMake \/ g[2] = PrtBreak)
                                            \/ g[1] = PauseEsc
         /\ (Len(g) = 4 /\ NeedsMore(g)) => g[1] = PauseEsc
         /\ Len(g) = 6 => ~ NeedsMore(g)
<1>1. g = <<Esc>> <=> Len(g) = 1 /\ g[1] = Esc
  OBVIOUS
<1>2. PICK s : s = Sent("PRINTSCREEN", "make")
  OBVIOUS
<1>3. PICK t : t = Sent("PRINTSCREEN", "break")
  OBVIOUS
<1>4. PICK u : u = Sent("PAUSEBREAK", "make")
  OBVIOUS
<1>5. /\ Len(s) = 4 /\ s[1] = Esc /\ s[2] = PrtMake
      /\ Len(t) = 4 /\ t[1] = Esc /\ t[2] = PrtBreak
      /\ Len(u) = 6 /\ u[1] = PauseEsc
  BY <1>2, <1>3, <1>4, SpecialBytes DEF Way
<1>6. NeedsMore(g) <=> g = <<Esc>> \/ Begins(g, s) \/ Begins(g, t) \/ Begins(g, u)
  BY <1>2, <1>3, <1>4, NeedsMoreIs DEF Esc
<1>7. ASSUME Len(g) = 1
      PROVE  NeedsMore(g) <=> g[1] = Esc \/ g[1] = PauseEsc
  <2>1. Begins(g, s) <=> g[1] = Esc
    BY <1>5, <1>7, BeginsAt
  <2>2. Begins(g, t) <=> g[1] = Esc
    BY <1>5, <1>7, BeginsAt
  <2>3. Begins(g, u) <=> g[1] = PauseEsc
    BY <1>5, <1>7, BeginsAt
  <2> QED BY <1>1, <1>6, <1>7, <2>1, <2>2, <2>3, Zenon
<1>8. ASSUME Len(g) = 2, NeedsMore(g)
      PROVE  (g[1] = Esc /\ (g[2] = PrtMake \/ g[2] = PrtBreak)) \/ g[1] = PauseEsc
  <2>1. Begins(g, s) => g[1] = Esc /\ g[2] = PrtMake
    BY <1>5, <1>8, BeginsAt
  <2>2. Begins(g, t) => g[1] = Esc /\ g[2] = PrtBreak
    BY <1>5, <1>8, BeginsAt
  <2>3. Begins(g, u) => g[1] = PauseEsc
    BY <1>5, <1>8, BeginsAt
  <2>4. g # <<Esc>>
    BY <1>1, <1>8
  <2> QED BY <1>6, <1>8, <2>1, <2>2, <2>3, <2>4, Zenon
<1>9. ASSUME Len(g) = 4, NeedsMore(g)
      PROVE  g[1] = PauseEsc
  <2>1. Begins(g, u) => g[1] = PauseEsc
    BY <1>5, <1>9, BeginsAt
  <2>2. g # <<Esc>> /\ ~ Begins(g, s) /\ ~ Begins(g, t)
    BY <1>1, <1>5, <1>9, BeginsAt
  <2> QED BY <1>6, <1>9, <2>1, <2>2, Zenon
<1>10. ASSUME Len(g) = 6
       PROVE  ~ NeedsMore(g)
  <2>1. g # <<Esc>> /\ ~ Begins(g, s) /\ ~ Begins(g, t) /\ ~ Begins(g, u)
    BY <1>1, <1>5, <1>10, BeginsAt, SMTT(30)
  <2> QED BY <1>6, <2>1, Zenon
<1> QED BY <1>7, <1>8, <1>9, <1>10, Zenon

(* keyboard_read takes exactly the bytes of one event, whatever follows.   *)
LEMMA CodesParse ==
  ASSUME NEW k \in Sender, NEW w \in Way, NEW g \in Seq(Nat), Len(g) > 0,
         NEW c, c = Sent(k, w), Len(g) <= Len(c), \A i \in 1..Len(g) : g[i] = c[i]
  PROVE  NeedsMore(g) <=> Len(g) < Len(c)
<1>1. PICK n \in Nat : n = Len(g)
  OBVIOUS
<1>2. n # 0 /\ g[1] = c[1]
  BY <1>1
<1>3. n < Len(c) => Begins(g, c)
  BY <1>1 DEF Begins
<1>4. n = Len(c) => ~ (n < Len(c))
  BY <1>1
<1>5. n < Len(c) \/ n = Len(c)
  <2>1. c \in Seq(Nat)
    BY SentIsSeq
  <2>2. Len(c) \in Nat
    BY <2>1
  <2> QED BY <1>1, <2>2
<1>6. CASE k = "PRINTSCREEN"
  <2>1. Len(c) = 4 /\ c[1] = Esc
    BY <1>6, SpecialBytes
  <2>2. n < Len(c) => NeedsMore(g)
    BY <1>3, <1>6, NeedsMoreIs DEF Way
  <2>3. n = Len(c) => ~ NeedsMore(g)
    <3>1. Esc # PauseEsc
      BY DEF Esc, PauseEsc
    <3>2. n = Len(c) => Len(g) = 4
      BY <1>1, <2>1
    <3> QED BY <1>2, <2>1, <3>1, <3>2, NeedsMoreAt
  <2> QED BY <1>1, <1>4, <1>5, <2>2, <2>3
<1>7. CASE k = "PAUSEBREAK"
  <2>1. w = "make"
    <3>1. w = "break" => c = <<>>
      BY <1>7, SpecialSent, Zenon
    <3>2. c # <<>>
      BY <1>1, <1>2
    <3> QED BY <3>1, <3>2 DEF Way
  <2>2. Len(c) = 6
    BY <1>7, <2>1, SpecialBytes
  <2>3. n < Len(c) => NeedsMore(g)
    BY <1>3, <1>7, <2>1, NeedsMoreIs
  <2>4. n = Len(c) => ~ NeedsMore(g)
    BY <1>1, <2>2, NeedsMoreAt
  <2> QED BY <1>1, <1>4, <1>5, <2>3, <2>4
<1>8. CASE k \in Plain
  <2>1. PICK b \in Nat : /\ b \notin {Esc, PauseEsc} /\ (k \in Extended => b \notin {PrtMake, PrtBreak})
                         /\ c = IF k \in Extended THEN <<Esc, b>> ELSE <<b>>
    BY <1>8, PlainSent
  <2>2. CASE k \in Extended
    <3>1. Len(c) = 2 /\ c[1] = Esc /\ c[2] = b
      BY <2>1, <2>2
    <3>2. n < Len(c) => n = 1
      BY <1>2, <3>1
    <3>3. n = 1 => NeedsMore(g)
      BY <1>1, <1>2, <3>1, NeedsMoreAt
    <3>4. n = Len(c) => ~ NeedsMore(g)
      <4>1. n = Len(c) => n = 2 /\ g[2] = b
        BY <1>1, <3>1
      <4>2. Esc # PauseEsc
        BY DEF Esc, PauseEsc
      <4> QED BY <1>1, <1>2, <2>1, <2>2, <3>1, <4>1, <4>2, NeedsMoreAt
    <3> QED BY <1>1, <1>4, <1>5, <3>2, <3>3, <3>4
  <2>3. CASE k \notin Extended
    <3>1. Len(c) = 1 /\ c[1] = b
      BY <2>1, <2>3
    <3>2. n = 1
      BY <1>2, <1>5, <3>1
    <3>3. ~ NeedsMore(g)
      BY <1>1, <1>2, <2>1, <3>1, <3>2, NeedsMoreAt
    <3> QED BY <1>1, <1>4, <1>5, <3>1, <3>2, <3>3
  <2> QED BY <2>2, <2>3
<1>9. CASE k = "ACK"
  <2>1. PICK b \in Nat : b \notin {Esc, PauseEsc} /\ c = <<b>>
    BY <1>9, AckSent
  <2>2. Len(c) = 1 /\ c[1] = b
    BY <2>1
  <2>3. n = 1
    BY <1>2, <1>5, <2>2
  <2>4. ~ NeedsMore(g)
    BY <1>1, <1>2, <2>1, <2>2, <2>3, NeedsMoreAt
  <2> QED BY <1>1, <1>4, <1>5, <2>2, <2>3, <2>4
<1> QED BY <1>6, <1>7, <1>8, <1>9 DEF Plain, Special, Sender

(* Meant, with the modifiers and locks given.                              *)
MeantAt(k, d, l) ==
  LET shifted == d \cap Shift # {}
  IN  CASE k = "A"         -> <<"put", IF shifted # ("CAPS_LOCK" \in l) THEN "A" ELSE "a">>
        [] k = "ONE"       -> <<"put", IF shifted THEN "!" ELSE "1">>
        [] k = "ENTER"     -> <<"put", "ENTER">>
        [] k = "PAD_SLASH" -> <<"put", "/">>
        [] k = "PAD_8"     -> IF shifted \/ "NUM_LOCK" \in l THEN <<"put", "8">> ELSE Nothing
        [] k = "PAD_9"     -> IF shifted \/ "NUM_LOCK" \in l THEN <<"put", "9">>
                              ELSE <<"select", "PAGEUP">>
        [] k = "UP"        -> IF shifted THEN <<"scroll", "UP">> ELSE Nothing
        [] k = "PAGEUP"    -> <<"select", "PAGEUP">>
        [] k = "F1"        -> IF d \cap Alt # {} THEN <<"select", "F1">> ELSE Nothing
        [] OTHER           -> Nothing

(* The code of every key, and the row of keymap for every code.            *)
LEMMA BaseIs ==
  /\ Base("A") = \h1E /\ Base("ONE") = \h02 /\ Base("ENTER") = \h1C /\ Base("F1") = \h3B
  /\ Base("SHIFT_L") = \h2A /\ Base("SHIFT_R") = \h36 /\ Base("CTRL_L") = \h1D
  /\ Base("CTRL_R") = \h1D /\ Base("ALT_L") = \h38 /\ Base("ALT_R") = \h38
  /\ Base("CAPS_LOCK") = \h3A /\ Base("NUM_LOCK") = \h45 /\ Base("PAD_8") = \h48
  /\ Base("PAD_9") = \h49 /\ Base("PAD_SLASH") = \h35 /\ Base("UP") = \h48 /\ Base("PAGEUP") = \h49
BY DEF Base, ScanCode, Extended

(* What the rows of keymap hold.                                           *)
LEMMA RowIs ==
  /\ keymap(\h02) = <<"1", "!", "0">>
  /\ keymap(\h1C) = <<"ENTER", "ENTER", "PAD_ENTER">>
  /\ keymap(\h1D) = <<"CTRL_L", "CTRL_L", "CTRL_R">>
  /\ keymap(\h1E) = <<"a", "A", "0">>
  /\ keymap(\h2A) = <<"SHIFT_L", "SHIFT_L", "0">>
  /\ keymap(\h35) = <<"/", "?", "PAD_SLASH">>
  /\ keymap(\h36) = <<"SHIFT_R", "SHIFT_R", "0">>
  /\ keymap(\h38) = <<"ALT_L", "ALT_L", "ALT_R">>
  /\ keymap(\h3A) = <<"CAPS_LOCK", "CAPS_LOCK", "0">>
  /\ keymap(\h3B) = <<"F1", "F1", "0">>
  /\ keymap(\h45) = <<"NUM_LOCK", "NUM_LOCK", "0">>
  /\ keymap(\h48) = <<"PAD_8", "8", "UP">>
  /\ keymap(\h49) = <<"PAD_9", "9", "PAGEUP">>
BY DEF keymap

(* The byte that keyboard_read looks up, and the column of E0.             *)
LEMMA CodeIs ==
  ASSUME NEW k \in Plain, NEW w \in Way, got = Sent(k, w)
  PROVE  /\ scan_code < FLAG_BREAK <=> w = "make"
         /\ scan_code % FLAG_BREAK = Base(k)
         /\ code_with_E0 <=> k \in Extended
<1>1. PICK b \in Nat : b = Byte(k, w) /\ b # Esc /\ b # PauseEsc
  BY PlainSent
<1>2. got = IF k \in Extended THEN <<Esc, b>> ELSE <<b>>
  BY <1>1, PlainSent
<1>3. scan_code = b /\ (code_with_E0 <=> k \in Extended)
  <2>1. CASE k \in Extended
    <3>1. got = <<Esc, b>> /\ Esc # PauseEsc /\ Esc = \hE0 /\ PauseEsc = \hE1
      BY <1>2, <2>1 DEF Esc, PauseEsc
    <3>2. Len(got) = 2 /\ got[1] = Esc /\ got[2] = b /\ Head(got) = Esc
      BY <3>1
    <3> QED BY <2>1, <3>1, <3>2 DEF scan_code, code_with_E0, Last
  <2>2. CASE k \notin Extended
    <3>1. got = <<b>> /\ PauseEsc = \hE1
      BY <1>2, <2>2 DEF PauseEsc
    <3>2. Len(got) = 1 /\ got[1] = b /\ Head(got) = b
      BY <3>1
    <3> QED BY <1>1, <2>2, <3>1, <3>2 DEF scan_code, code_with_E0, Last
  <2> QED BY <2>1, <2>2
<1>4. PICK a \in Nat : a = Base(k) /\ a < 96
  BY PlainCodes
<1>5. b = IF w = "make" THEN a ELSE a + 128
  BY <1>1, <1>4 DEF Byte, FLAG_BREAK
<1>6. b % 128 = a /\ (b < 128 <=> w = "make")
  BY <1>4, <1>5 DEF Way
<1> QED BY <1>3, <1>4, <1>6 DEF FLAG_BREAK

(* What the code of a key is looked up as.                                 *)
LEMMA LookedUp ==
  ASSUME NEW k \in Plain, NEW w \in Way, got = Sent(k, w), NEW x,
         x = keymap(scan_code % FLAG_BREAK)[Column]
  PROVE  /\ k \in Modifier \cup Lock \cup {"ENTER", "F1"} => x = k
         /\ k = "A" => x = IF (down \cap Shift # {}) # ("CAPS_LOCK" \in locks) THEN "A" ELSE "a"
         /\ k = "ONE" => x = IF down \cap Shift # {} THEN "!" ELSE "1"
         /\ k = "PAD_8" => x = IF down \cap Shift # {} THEN "8" ELSE "PAD_8"
         /\ k = "PAD_9" => x = IF down \cap Shift # {} THEN "9" ELSE "PAD_9"
         /\ k \in {"PAD_SLASH", "UP", "PAGEUP"} => x = k
<1>1. PICK r : r = keymap(Base(k))
  OBVIOUS
<1>2. x = r[Column] /\ Column = IF k \in Extended THEN 3
                                ELSE IF (down \cap Shift # {}) # (r[1] \in Letter /\ "CAPS_LOCK" \in locks)
                                       THEN 2 ELSE 1
  BY <1>1, CodeIs DEF Column
<1>3. CASE k \in Extended
  <2>1. x = r[3]
    BY <1>2, <1>3
  <2> QED BY <1>1, <1>3, <2>1, BaseIs, RowIs DEF Extended, Modifier, Shift, Alt, Lock
<1>4. CASE k \in {"SHIFT_L", "SHIFT_R", "CTRL_L", "ALT_L", "CAPS_LOCK", "NUM_LOCK", "ENTER", "F1"}
  <2>1. x = r[1] \/ x = r[2]
    BY <1>2, <1>4 DEF Extended
  <2>2. r = <<k, k, "0">> \/ (r[1] = k /\ r[2] = k)
    BY <1>1, <1>4, BaseIs, RowIs
  <2>3. r[1] = k /\ r[2] = k
    BY <2>2
  <2> QED BY <1>4, <2>1, <2>3
<1>5. CASE k = "A"
  <2>1. r[1] = "a" /\ r[2] = "A"
    BY <1>1, <1>5, BaseIs, RowIs
  <2>2. x = IF (down \cap Shift # {}) # ("CAPS_LOCK" \in locks) THEN r[2] ELSE r[1]
    BY <1>2, <1>5, <2>1 DEF Extended, Letter
  <2> QED BY <1>5, <2>1, <2>2 DEF Modifier, Shift, Alt, Lock
<1>6. CASE k \in {"ONE", "PAD_8", "PAD_9"}
  <2>1. r[1] \notin Letter
    BY <1>1, <1>6, BaseIs, RowIs DEF Letter
  <2>2. x = IF down \cap Shift # {} THEN r[2] ELSE r[1]
    BY <1>2, <1>6, <2>1 DEF Extended
  <2> QED BY <1>1, <1>6, <2>2, BaseIs, RowIs DEF Modifier, Shift, Alt, Lock
<1>7. k \in Extended \cup {"SHIFT_L", "SHIFT_R", "CTRL_L", "ALT_L", "CAPS_LOCK", "NUM_LOCK", "ENTER", "F1"}
            \cup {"A"} \cup {"ONE", "PAD_8", "PAD_9"}
  BY KeyNames DEF Plain, Special, Extended
<1> QED BY <1>3, <1>4, <1>5, <1>6, <1>7

(* The answer to set_leds is looked up as no key.                          *)
LEMMA AckLookedUp ==
  ASSUME NEW w, got = Sent("ACK", w)
  PROVE  ~ (scan_code < FLAG_BREAK) /\ keymap(scan_code % FLAG_BREAK)[Column] = "0"
<1>1. got = <<\hFA>>
  BY AckSent DEF KB_ACK
<1>2. Len(got) = 1 /\ Head(got) = \hFA /\ got[Len(got)] = \hFA
  BY <1>1
<1>3. scan_code = \hFA /\ ~ code_with_E0
  BY <1>2 DEF scan_code, code_with_E0, Last
<1>4. scan_code % FLAG_BREAK = \h7A /\ ~ (scan_code < FLAG_BREAK)
  BY <1>3 DEF FLAG_BREAK
<1>5. keymap(\h7A) = <<"0", "0", "0">>
  BY DEF keymap
<1>6. Column \in {1, 2, 3}
  BY DEF Column
<1> QED BY <1>4, <1>5, <1>6

(* It is what the key is for with the modifiers and locks as they are.     *)
LEMMA DecodesRight ==
  ASSUME NEW k \in Plain, NEW w \in Way, got = Sent(k, w), NEW x,
         x = keymap(scan_code % FLAG_BREAK)[Column]
  PROVE  /\ k \in Modifier => x = k
         /\ k \notin Modifier => x \notin Modifier
         /\ k \in Lock => x = k
         /\ k \notin Lock => x \notin Lock
         /\ k \in Modifier => \A m : in_process(Numpad(x), m) = MeantAt(k, down, locks)
         /\ k \notin Modifier => in_process(Numpad(x), down) = MeantAt(k, down, locks)
<1>1. CASE k \in Modifier
  <2>1. x = k
    BY <1>1, LookedUp
  <2>2. Numpad(k) = k
    BY <1>1 DEF Numpad, Modifier, Shift, Alt
  <2>3. \A m : in_process(k, m) = Nothing
    BY <1>1 DEF in_process, Modifier, Shift, Alt
  <2>4. MeantAt(k, down, locks) = Nothing
    BY <1>1 DEF MeantAt, Modifier, Shift, Alt
  <2> QED BY <1>1, <2>1, <2>2, <2>3, <2>4 DEF Modifier, Shift, Alt, Lock
<1>2. CASE k \in Lock
  <2>1. x = k
    BY <1>2, LookedUp
  <2>2. Numpad(k) = k
    BY <1>2 DEF Numpad, Lock
  <2>3. in_process(k, down) = Nothing
    BY <1>2 DEF in_process, Lock, Shift, Alt
  <2>4. MeantAt(k, down, locks) = Nothing
    BY <1>2 DEF MeantAt, Lock
  <2> QED BY <1>2, <2>1, <2>2, <2>3, <2>4 DEF Modifier, Shift, Alt, Lock
<1>3. CASE k = "A"
  <2>1. x = (IF (down \cap Shift # {}) # ("CAPS_LOCK" \in locks) THEN "A" ELSE "a")
    BY <1>3, LookedUp
  <2>2. in_process(Numpad(x), down) = <<"put", x>>
    BY <2>1 DEF Numpad, in_process, Modifier, Shift, Alt, Lock, Special
  <2>3. MeantAt(k, down, locks) = <<"put", x>>
    BY <1>3, <2>1 DEF MeantAt
  <2> QED BY <1>3, <2>1, <2>2, <2>3 DEF Modifier, Shift, Alt, Lock
<1>4. CASE k \in {"ONE", "ENTER"}
  <2>1. x = IF k = "ENTER" THEN "ENTER" ELSE IF down \cap Shift # {} THEN "!" ELSE "1"
    BY <1>4, LookedUp
  <2>2. in_process(Numpad(x), down) = <<"put", x>>
    BY <2>1 DEF Numpad, in_process, Modifier, Shift, Alt, Lock, Special
  <2>3. MeantAt(k, down, locks) = <<"put", x>>
    BY <1>4, <2>1 DEF MeantAt
  <2> QED BY <1>4, <2>1, <2>2, <2>3 DEF Modifier, Shift, Alt, Lock
<1>5. CASE k = "F1" \/ k = "PAGEUP" \/ k = "UP" \/ k = "PAD_SLASH"
  <2>1. x = k
    BY <1>5, LookedUp
  <2>2. Numpad(k) = IF k = "PAD_SLASH" THEN "/" ELSE k
    BY <1>5 DEF Numpad
  <2>3. in_process(Numpad(k), down) = MeantAt(k, down, locks)
    <3>1. CASE k = "F1"
      BY <2>2, <3>1 DEF in_process, MeantAt, Modifier, Shift, Alt, Lock, Special
    <3>2. CASE k = "PAGEUP"
      <4>1. in_process("PAGEUP", down) = <<"select", "PAGEUP">>
        BY DEF in_process, Modifier, Shift, Alt, Lock, Special
      <4>2. MeantAt("PAGEUP", down, locks) = <<"select", "PAGEUP">>
        BY DEF MeantAt
      <4> QED BY <2>2, <3>2, <4>1, <4>2
    <3>3. CASE k = "UP"
      BY <2>2, <3>3 DEF in_process, MeantAt, Modifier, Shift, Alt, Lock, Special
    <3>4. CASE k = "PAD_SLASH"
      BY <2>2, <3>4 DEF in_process, MeantAt, Modifier, Shift, Alt, Lock, Special
    <3> QED BY <1>5, <3>1, <3>2, <3>3, <3>4
  <2> QED BY <1>5, <2>1, <2>3 DEF Modifier, Shift, Alt, Lock
<1>6. CASE k = "PAD_8"
  <2>1. x = IF down \cap Shift # {} THEN "8" ELSE "PAD_8"
    BY <1>6, LookedUp
  <2>2. Numpad(x) = IF down \cap Shift # {} \/ "NUM_LOCK" \in locks THEN "8" ELSE "UP"
    BY <2>1 DEF Numpad
  <2>3. in_process("8", down) = <<"put", "8">> /\ (down \cap Shift = {} => in_process("UP", down) = Nothing)
    BY DEF in_process, Modifier, Shift, Alt, Lock, Special
  <2>4. MeantAt(k, down, locks) = IF down \cap Shift # {} \/ "NUM_LOCK" \in locks THEN <<"put", "8">>
                                  ELSE Nothing
    BY <1>6 DEF MeantAt
  <2> QED BY <1>6, <2>1, <2>2, <2>3, <2>4 DEF Modifier, Shift, Alt, Lock
<1>7. CASE k = "PAD_9"
  <2>1. x = IF down \cap Shift # {} THEN "9" ELSE "PAD_9"
    BY <1>7, LookedUp
  <2>2. Numpad(x) = IF down \cap Shift # {} \/ "NUM_LOCK" \in locks THEN "9" ELSE "PAGEUP"
    BY <2>1 DEF Numpad
  <2>3. in_process("9", down) = <<"put", "9">> /\ in_process("PAGEUP", down) = <<"select", "PAGEUP">>
    BY DEF in_process, Modifier, Shift, Alt, Lock, Special
  <2>4. MeantAt(k, down, locks) = IF down \cap Shift # {} \/ "NUM_LOCK" \in locks THEN <<"put", "9">>
                                  ELSE <<"select", "PAGEUP">>
    BY <1>7 DEF MeantAt
  <2> QED BY <1>7, <2>1, <2>2, <2>3, <2>4 DEF Modifier, Shift, Alt, Lock
<1>8. k \in Modifier \/ k \in Lock \/ k \in {"A", "ONE", "ENTER", "F1", "PAGEUP", "UP", "PAD_SLASH", "PAD_8", "PAD_9"}
  BY KeyNames DEF Plain, Special, Modifier, Shift, Alt, Lock
<1> QED BY <1>1, <1>2, <1>3, <1>4, <1>5, <1>6, <1>7, <1>8

(* What an event does to the modifiers and locks, and what it is for.      *)
DownAfter(k, w, d) == IF w = "make" THEN d \cup ({Flag(k)} \cap Modifier) ELSE d \ {Flag(k)}
LocksAfter(k, w, l) == IF w = "make" /\ k \in Lock THEN Toggled(l, k) ELSE l
Due(k, w, d, l) == IF w = "make" THEN MeantAt(k, d, l) ELSE Nothing

(* The flags that stand for the keys h, when alt_l was cleared (c) though  *)
(* one of them is an Alt key; and those of the keys held.                  *)
Flags(h, c) == {Flag(m) : m \in h \cap Modifier} \ (IF c THEN {"ALT_L"} ELSE {})
HeldFlags == Flags(held, cleared)

(* The events so far, with the modifiers and locks after each, and how     *)
(* many bytes had been sent by then.                                       *)
Event == [key : Sender, way : Way, down : SUBSET Modifier, locks : SUBSET Lock, at : Nat]
Deed == {Due(v.key, v.way, v.down, v.locks) : v \in Event}
SentBy(v) == Sent(v.key, v.way)

(* Event v comes after u, and S holds its bytes there.                     *)
Follows(S, u, v) ==
  /\ Len(SentBy(v)) > 0 /\ v.at = u.at + Len(SentBy(v))
  /\ \A i \in 1..Len(SentBy(v)) : S[u.at + i] = SentBy(v)[i]
  /\ v.down = DownAfter(v.key, v.way, u.down) /\ v.locks = LocksAfter(v.key, v.way, u.locks)

(* S is what was sent for the events 1..n; e[0] stands for those before.   *)
Typed(S, e, n) ==
  /\ \A j \in 0..n : e[j].at <= e[n].at
  /\ \A j \in 1..n : Follows(S, e[j - 1], e[j])

(* Another event, of key k.                                                *)
OneMore(S, e, n, T, f, k, w) ==
  /\ Typed(T, f, n + 1)
  /\ \A i \in Nat : i <= e[n].at => T[i] = S[i]
  /\ \A j \in 0..n : f[j] = e[j]
  /\ f[n + 1].key = k /\ f[n + 1].way = w

(* What is on its way of them: lo are done, of hi.                         *)
Between(S, e, lo, hi, g, kb, p, o) ==
  /\ lo <= hi
  /\ e[lo].at + Len(g) + Len(kb) + Len(p) = e[hi].at
  /\ \A i \in 1..Len(g) : g[i] = S[e[lo].at + i]
  /\ \A i \in 1..Len(kb) : kb[i] = S[e[lo].at + Len(g) + i]
  /\ \A i \in 1..Len(p) : p[i] = S[e[lo].at + Len(g) + Len(kb) + i]
  /\ Len(g) > 0 => lo < hi /\ Len(g) <= Len(SentBy(e[lo + 1]))
  /\ Len(o) = hi - lo
  /\ \A i \in 1..hi - lo :
       o[i] = Due(e[lo + i].key, e[lo + i].way, e[lo + i - 1].down, e[lo + i - 1].locks)

(* keyboard_read is behind event lo, the typist behind event hi.           *)
InFlight(S, e, lo, hi) ==
  /\ Between(S, e, lo, hi, got, kb_in, pending, owed)
  /\ e[lo].down = down /\ e[lo].locks = locks
  /\ e[hi].down = HeldFlags /\ e[hi].locks = caps

(* All bytes and all events.                                               *)
Bytes == [Nat -> Nat]
Past == [Nat -> Event]

(* The types of the variables; between two calls no byte is half taken.    *)
KbdTypes ==
  /\ pending \in Seq(Nat) /\ kb_in \in Seq(Nat) /\ got \in Seq(Nat)
  /\ down \subseteq Modifier /\ locks \subseteq Lock /\ held \subseteq Keys /\ caps \subseteq Lock
  /\ owed \in Seq(Deed) /\ lost \in BOOLEAN
  /\ pc # "in" => got = <<>>
  /\ cleared \in BOOLEAN

(* There is a history whose bytes are exactly those that keyboard_read has *)
(* taken for a key, that wait in the ring and that are yet to be sent; the *)
(* modifiers, the locks and what is owed are those of its events.          *)
AllThere ==
  \E S \in Bytes, e \in Past, lo, hi \in Nat : Typed(S, e, hi) /\ InFlight(S, e, lo, hi)

(* The inductive invariant.                                                *)
KbdInv == KbdTypes /\ (~ lost => AllThere) /\ KeysExact

-----------------------------------------------------------------------------
(* What a key is for with the keys held, and the flags they stand for.     *)
LEMMA MeantIs ==
  ASSUME NEW k
  PROVE  Meant(k) = MeantAt(k, HeldFlags, caps)
<1>1. Shifted <=> HeldFlags \cap Shift # {}
  BY DEF Shifted, HeldFlags, Flags, Flag, Modifier, Shift, Alt
<1>2. held \cap Alt # {} /\ ~ cleared <=> HeldFlags \cap Alt # {}
  BY DEF HeldFlags, Flags, Flag, Modifier, Shift, Alt
<1> QED BY <1>1, <1>2 DEF Meant, MeantAt

(* A key that is pressed sets its flag.                                    *)
LEMMA PressedFlags ==
  ASSUME NEW h, NEW c, NEW k
  PROVE  DownAfter(k, "make", Flags(h, c)) = Flags(h \cup {k}, c /\ k \notin Alt)
<1>1. Flag(k) \in Modifier <=> k \in Modifier
  BY DEF Flag, Modifier, Shift, Alt
<1>2. Flag(k) = "ALT_L" <=> k \in Alt
  BY DEF Flag, Alt
<1>3. {Flag(m) : m \in (h \cup {k}) \cap Modifier}
        = {Flag(m) : m \in h \cap Modifier} \cup ({Flag(k)} \cap Modifier)
  BY <1>1
<1>4. CASE k \in Alt
  <2>1. Flag(k) \in Modifier /\ Flag(k) = "ALT_L"
    BY <1>2, <1>4 DEF Modifier, Shift, Alt
  <2> QED BY <1>3, <1>4, <2>1 DEF DownAfter, Flags
<1>5. CASE k \notin Alt
  BY <1>2, <1>3, <1>5 DEF DownAfter, Flags
<1> QED BY <1>4, <1>5

(* One that is released clears it, that of the other Alt key too.          *)
LEMMA ReleasedFlags ==
  ASSUME NEW h, NEW c, NEW k \in h
  PROVE  DownAfter(k, "break", Flags(h, c))
           = Flags(h \ {k}, IF k \in Alt THEN (h \ {k}) \cap Alt # {} ELSE c)
<1>1. CASE k \in Alt
  <2>1. Flag(k) = "ALT_L"
    BY <1>1 DEF Flag, Alt
  <2>2. \A m : Flag(m) = "ALT_L" <=> m \in Alt
    BY DEF Flag, Alt
  <2> QED BY <1>1, <2>1, <2>2 DEF DownAfter, Flags
<1>2. CASE k \notin Alt
  <2>1. \A m \in h \cap Modifier : Flag(m) = Flag(k) => m = k
    BY <1>2 DEF Flag, Modifier, Shift, Alt
  <2> QED BY <1>2, <2>1 DEF DownAfter, Flags
<1> QED BY <1>1, <1>2

(* Flags are modifiers.                                                    *)
LEMMA FlagsFit == \A h, c : Flags(h, c) \subseteq Modifier
BY DEF Flags, Flag, Modifier, Shift, Alt

(* After an event they are still.                                          *)
LEMMA AfterFits ==
  ASSUME NEW k, NEW w, NEW d \in SUBSET Modifier, NEW l \in SUBSET Lock
  PROVE  DownAfter(k, w, d) \in SUBSET Modifier /\ LocksAfter(k, w, l) \in SUBSET Lock
BY DEF DownAfter, LocksAfter, Toggled

(* A history can be continued with any event that sends a byte.            *)
LEMMA AnotherTyped ==
  ASSUME NEW S \in Bytes, NEW e \in Past, NEW n \in Nat, Typed(S, e, n),
         NEW k \in Sender, NEW w \in Way, Sent(k, w) # <<>>
  PROVE  \E T \in Bytes, f \in Past : OneMore(S, e, n, T, f, k, w)
<1> USE DEF Bytes, Past
<1>1. PICK c \in Seq(Nat) : c = Sent(k, w) /\ c # <<>>
  BY SentIsSeq
<1>2. PICK len \in Nat : len = Len(c) /\ len > 0
  BY <1>1
<1>3. PICK at \in Nat : at = e[n].at
  BY DEF Event
<1>17. \A y \in Nat : y <= at => y <= at + len
  OBVIOUS
<1> DEFINE v == [key |-> k, way |-> w, down |-> DownAfter(k, w, e[n].down),
                 locks |-> LocksAfter(k, w, e[n].locks), at |-> at + len]
           T == [x \in Nat |-> IF x <= at THEN S[x] ELSE IF x - at <= len THEN c[x - at] ELSE 0]
           f == [e EXCEPT ![n + 1] = v]
<1>4. v \in Event
  <2>1. e[n].down \in SUBSET Modifier /\ e[n].locks \in SUBSET Lock
    BY DEF Event
  <2>2. DownAfter(k, w, e[n].down) \in SUBSET Modifier /\ LocksAfter(k, w, e[n].locks) \in SUBSET Lock
    BY <2>1, AfterFits
  <2>3. at + len \in Nat
    OBVIOUS
  <2> QED BY <2>2, <2>3 DEF Event
<1>5. f \in [Nat -> Event]
  BY <1>4
<1>6. \A j \in 0..n : f[j] = e[j]
  OBVIOUS
<1>7. f[n + 1] = v
  OBVIOUS
<1>8. T \in [Nat -> Nat]
  <2>1. \A x \in Nat : ~(x <= at) /\ x - at <= len => c[x - at] \in Nat
    <3>1. SUFFICES ASSUME NEW x \in Nat, ~(x <= at), x - at <= len
                   PROVE  c[x - at] \in Nat
      OBVIOUS
    <3>2. x - at \in 1..Len(c)
      BY <1>2, <3>1
    <3> QED BY <3>2, ElementOfSeq
  <2> QED BY <2>1
<1>9. \A i \in Nat : i <= at => T[i] = S[i]
  OBVIOUS
<1>10. \A i \in 1..len : T[at + i] = c[i]
  OBVIOUS
<1>11. SentBy(v) = c
  BY <1>1 DEF SentBy
<1> HIDE DEF T, f
<1>12. Follows(T, f[n], f[n + 1])
  <2>1. f[n] = e[n]
    BY <1>6
  <2> HIDE DEF v
  <2>2. v.at = at + len /\ v.key = k /\ v.way = w /\ v.down = DownAfter(k, w, e[n].down)
        /\ v.locks = LocksAfter(k, w, e[n].locks)
    BY DEF v
  <2> QED BY <1>2, <1>3, <1>7, <1>10, <1>11, <2>1, <2>2 DEF Follows
<1>13. ASSUME NEW j \in 1..n
       PROVE  Follows(T, f[j - 1], f[j])
  <2>1. f[j - 1] = e[j - 1] /\ f[j] = e[j] /\ Follows(S, e[j - 1], e[j])
    <3>1. j \in 0..n /\ j - 1 \in 0..n
      OBVIOUS
    <3> QED BY <1>6, <3>1 DEF Typed
  <2>2. PICK a \in Nat, b \in Nat : a = e[j - 1].at /\ b = e[j].at
    <3>1. j \in Nat /\ j - 1 \in Nat
      OBVIOUS
    <3>2. e[j] \in Event /\ e[j - 1] \in Event
      BY <3>1
    <3> QED BY <3>2 DEF Event
  <2>3. b <= at
    BY <1>3, <2>2 DEF Typed
  <2>4. PICK t : t = SentBy(e[j])
    OBVIOUS
  <2>5. t \in Seq(Nat)
    BY <2>4, SentIsSeq DEF SentBy, Event
  <2>6. b = a + Len(t) /\ Len(t) \in Nat /\ \A i \in 1..Len(t) : S[a + i] = t[i]
    <3>1. Len(t) \in Nat
      BY <2>5
    <3>2. b = a + Len(t) /\ \A i \in 1..Len(t) : S[a + i] = t[i]
      BY <2>1, <2>2, <2>4 DEF Follows
    <3> QED BY <3>1, <3>2
  <2>7. ASSUME NEW i \in 1..Len(t)
        PROVE  T[a + i] = t[i]
    <3>1. a + i \in Nat /\ a + i <= at
      BY <2>3, <2>6
    <3> QED BY <1>9, <2>6, <3>1
  <2> QED BY <2>1, <2>2, <2>4, <2>7 DEF Follows
<1>14. \A j \in 0..n + 1 : f[j].at <= f[n + 1].at
  <2>1. f[n + 1].at = at + len
    BY <1>7
  <2>2. ASSUME NEW j \in 0..n
        PROVE  f[j].at <= at /\ f[j].at \in Nat
    <3>1. f[j] = e[j] /\ e[j] \in Event
      BY <1>6, SMTT(30)
    <3> QED BY <1>3, <3>1 DEF Typed, Event
  <2>3. ASSUME NEW j \in 0..n + 1
        PROVE  f[j].at <= f[n + 1].at
    <3>1. CASE j = n + 1
      BY <2>1, <3>1
    <3>2. CASE j # n + 1
      <4>1. j \in 0..n
        BY <3>2
      <4>2. f[j].at <= at /\ f[j].at \in Nat
        BY <2>2, <4>1
      <4>3. PICK y \in Nat : y = f[j].at /\ y <= at
        BY <4>2
      <4>4. y <= at + len
        BY <1>17, <4>3
      <4> QED BY <2>1, <4>3, <4>4
    <3> QED BY <3>1, <3>2
  <2> QED BY <2>3
<1>15. Typed(T, f, n + 1)
  <2>1. ASSUME NEW j \in 1..n + 1
        PROVE  Follows(T, f[j - 1], f[j])
    <3>1. CASE j = n + 1
      BY <1>12, <3>1
    <3>2. CASE j # n + 1
      BY <1>13, <3>2
    <3> QED BY <3>1, <3>2
  <2> QED BY <1>14, <2>1 DEF Typed
<1>16. f[n + 1].key = k /\ f[n + 1].way = w
  BY <1>7
<1> QED BY <1>3, <1>5, <1>6, <1>8, <1>9, <1>15, <1>16 DEF OneMore

(* The event whose bytes are taken.                                        *)
LEMMA NextEvent ==
  ASSUME NEW S \in Bytes, NEW e \in Past, NEW lo \in Nat, NEW hi \in Nat,
         Typed(S, e, hi), lo < hi
  PROVE  /\ e[lo + 1] \in Event /\ e[lo].at \in Nat /\ e[hi].at \in Nat
         /\ SentBy(e[lo + 1]) \in Seq(Nat) /\ Len(SentBy(e[lo + 1])) \in Nat
         /\ Len(SentBy(e[lo + 1])) > 0
         /\ e[lo].at + Len(SentBy(e[lo + 1])) = e[lo + 1].at /\ e[lo + 1].at <= e[hi].at
         /\ Follows(S, e[lo], e[lo + 1])
<1>1. lo + 1 \in Nat /\ lo + 1 \in 1..hi /\ lo + 1 \in 0..hi /\ lo + 1 - 1 = lo
  OBVIOUS
<1>2. e[lo + 1] \in Event /\ e[lo] \in Event /\ e[hi] \in Event
  BY <1>1 DEF Past
<1>3. Follows(S, e[lo + 1 - 1], e[lo + 1]) /\ e[lo + 1].at <= e[hi].at
  BY <1>1 DEF Typed
<1>4. Follows(S, e[lo], e[lo + 1])
  BY <1>1, <1>3
<1>5. SentBy(e[lo + 1]) \in Seq(Nat)
  BY <1>2, SentIsSeq DEF SentBy, Event
<1>6. Len(SentBy(e[lo + 1])) \in Nat
  BY <1>5
<1>7. Len(SentBy(e[lo + 1])) > 0 /\ e[lo + 1].at = e[lo].at + Len(SentBy(e[lo + 1]))
  BY <1>4 DEF Follows
<1>8. e[lo].at \in Nat /\ e[hi].at \in Nat
  BY <1>2 DEF Event
<1> QED BY <1>2, <1>3, <1>4, <1>5, <1>6, <1>7, <1>8

(* The bytes so far are those of the event, and more are needed just when  *)
(* not all of them are here.                                               *)
LEMMA Parses ==
  ASSUME KbdTypes, NEW S \in Bytes, NEW e \in Past, NEW lo \in Nat, NEW hi \in Nat,
         Typed(S, e, hi), InFlight(S, e, lo, hi), got # <<>>
  PROVE  /\ lo < hi
         /\ NeedsMore(got) <=> Len(got) < Len(SentBy(e[lo + 1]))
         /\ ~ NeedsMore(got) => got = SentBy(e[lo + 1])
<1>1. PICK n \in Nat : n = Len(got) /\ n > 0
  BY DEF KbdTypes
<1>2. lo < hi /\ n <= Len(SentBy(e[lo + 1]))
  BY <1>1 DEF InFlight, Between
<1>3. PICK c \in Seq(Nat) : c = SentBy(e[lo + 1]) /\ Len(c) \in Nat
  BY <1>2, NextEvent
<1>4. n <= Len(c) /\ \A i \in 1..Len(c) : S[e[lo].at + i] = c[i]
  <2>1. Follows(S, e[lo], e[lo + 1])
    BY <1>2, NextEvent
  <2> QED BY <1>2, <1>3, <2>1 DEF Follows
<1>5. \A i \in 1..n : got[i] = c[i]
  <2>1. \A i \in 1..n : got[i] = S[e[lo].at + i]
    BY <1>1 DEF InFlight, Between
  <2>2. \A i \in 1..n : i \in 1..Len(c)
    BY <1>3, <1>4
  <2> QED BY <1>4, <2>1, <2>2
<1>6. PICK k \in Sender, w \in Way : c = Sent(k, w)
  BY <1>2, <1>3, NextEvent DEF SentBy, Event
<1>7. got \in Seq(Nat)
  BY DEF KbdTypes
<1>8. NeedsMore(got) <=> n < Len(c)
  BY <1>1, <1>4, <1>5, <1>6, <1>7, CodesParse
<1>9. ~ NeedsMore(got) => got = c
  <2>1. ~ NeedsMore(got) => n = Len(c)
    BY <1>3, <1>4, <1>8
  <2> QED BY <1>1, <1>5, <1>7, <2>1, SeqEqual
<1> QED BY <1>1, <1>2, <1>3, <1>8, <1>9

-----------------------------------------------------------------------------
(* Before the first event.                                                 *)
LEMMA InitFits == KeyboardInit => KbdInv
<1> SUFFICES ASSUME KeyboardInit
             PROVE  KbdInv
  OBVIOUS
<1>1. KbdTypes
  <2>1. <<>> \in Seq(Nat) /\ <<>> \in Seq(Deed)
    OBVIOUS
  <2>2. {"NUM_LOCK"} \subseteq Lock
    BY DEF Lock
  <2> QED BY <2>1, <2>2 DEF KeyboardInit, KbdTypes
<1>2. KeysExact
  BY DEF KeyboardInit, KeysExact
<1>3. AllThere
  <2> DEFINE v == [key |-> "A", way |-> "make", down |-> {}, locks |-> {"NUM_LOCK"}, at |-> 0]
             S == [i \in Nat |-> 0]
             e == [i \in Nat |-> v]
  <2>1. v \in Event
    BY KeyNames DEF Event, Way, Lock, Sender
  <2>2. S \in Bytes /\ e \in Past
    BY <2>1 DEF Bytes, Past
  <2>3. e[0] = v /\ v.at = 0 /\ v.down = {} /\ v.locks = {"NUM_LOCK"}
    OBVIOUS
  <2>4. Typed(S, e, 0)
    BY <2>3 DEF Typed
  <2>5. Len(got) = 0 /\ Len(kb_in) = 0 /\ Len(pending) = 0 /\ Len(owed) = 0
    BY DEF KeyboardInit
  <2>6. HeldFlags = {} /\ down = {} /\ locks = {"NUM_LOCK"} /\ caps = {"NUM_LOCK"}
    BY DEF KeyboardInit, HeldFlags, Flags
  <2> HIDE DEF e, v, S
  <2>7. InFlight(S, e, 0, 0)
    BY <2>3, <2>5, <2>6 DEF InFlight, Between
  <2> QED BY <2>2, <2>4, <2>7 DEF AllThere
<1> QED BY <1>1, <1>2, <1>3 DEF KbdInv

(* What the keyboard is about to send is behind what is on its way.        *)
LEMMA AnotherFlies ==
  ASSUME KbdTypes, AllThere,
         NEW k \in Sender, NEW w \in Way, NEW c, c = Sent(k, w), c # <<>>,
         pending' = pending \o c, owed' = Append(owed, Due(k, w, HeldFlags, caps)),
         UNCHANGED <<kb_in, got, down, locks>>,
         HeldFlags' = DownAfter(k, w, HeldFlags), caps' = LocksAfter(k, w, caps)
  PROVE  AllThere'
<1>1. PICK S \in Bytes, e \in Past, lo \in Nat, hi \in Nat :
             Typed(S, e, hi) /\ InFlight(S, e, lo, hi)
  BY DEF AllThere
<1>2. PICK T \in Bytes, f \in Past : OneMore(S, e, hi, T, f, k, w)
  BY <1>1, AnotherTyped
<1> USE DEF OneMore
<1>3. hi + 1 \in Nat /\ hi + 1 \in 1..hi + 1 /\ hi + 1 - 1 = hi /\ hi \in 0..hi /\ lo \in 0..hi /\ lo <= hi
  BY <1>1 DEF InFlight, Between
<1>4. f[lo] = e[lo] /\ f[hi] = e[hi]
  BY <1>2, <1>3
<1>5. PICK a \in Nat, b \in Nat : a = e[lo].at /\ b = e[hi].at
  BY DEF Past, Event
<1>6. PICK n \in Nat, m \in Nat, l \in Nat : n = Len(got) /\ m = Len(kb_in) /\ l = Len(pending)
  BY DEF KbdTypes
<1>7. a + n + m + l = b
  BY <1>1, <1>5, <1>6 DEF InFlight, Between
<1>8. SentBy(f[hi + 1]) = c
  BY <1>2 DEF SentBy
<1>9. Follows(T, e[hi], f[hi + 1])
  <2>1. Follows(T, f[hi + 1 - 1], f[hi + 1])
    BY <1>2, <1>3 DEF Typed
  <2> QED BY <1>3, <1>4, <2>1
<1>10. PICK len \in Nat : len = Len(c) /\ c \in Seq(Nat)
  BY SentIsSeq
<1>11. /\ f[hi + 1].at = b + len /\ \A i \in 1..len : T[b + i] = c[i]
       /\ f[hi + 1].down = DownAfter(k, w, e[hi].down) /\ f[hi + 1].locks = LocksAfter(k, w, e[hi].locks)
  BY <1>2, <1>5, <1>8, <1>9, <1>10 DEF Follows
<1>12. /\ lo <= hi + 1
       /\ f[lo].at + Len(got') + Len(kb_in') + Len(pending') = f[hi + 1].at
  <2>1. Len(got') = n /\ Len(kb_in') = m /\ f[lo].at = a
    BY <1>4, <1>5, <1>6
  <2>4. Len(pending') = l + len
    BY <1>6, <1>10 DEF KbdTypes
  <2>2. a + n + m + (l + len) = f[hi + 1].at
    BY <1>7, <1>11
  <2>3. lo <= hi + 1
    BY <1>3
  <2> QED BY <2>1, <2>2, <2>3, <2>4
<1>13. \A i \in 1..Len(got') : got'[i] = T[f[lo].at + i]
  <2>1. \A i \in 1..n : got[i] = S[a + i]
    BY <1>1, <1>5, <1>6 DEF InFlight, Between
  <2>2. \A i \in 1..n : T[a + i] = S[a + i]
    <3>1. \A i \in 1..n : a + i \in Nat /\ a + i <= b
      BY <1>7
    <3> QED BY <1>2, <1>5, <3>1
  <2> QED BY <1>4, <1>5, <1>6, <2>1, <2>2
<1>14. \A i \in 1..Len(kb_in') : kb_in'[i] = T[f[lo].at + Len(got') + i]
  <2>1. \A i \in 1..m : kb_in[i] = S[a + n + i]
    BY <1>1, <1>5, <1>6 DEF InFlight, Between
  <2>2. \A i \in 1..m : T[a + n + i] = S[a + n + i]
    <3>1. \A i \in 1..m : a + n + i \in Nat /\ a + n + i <= b
      BY <1>7
    <3> QED BY <1>2, <1>5, <3>1
  <2> QED BY <1>4, <1>5, <1>6, <2>1, <2>2
<1>15. \A i \in 1..Len(pending') : pending'[i] = T[f[lo].at + Len(got') + Len(kb_in') + i]
  <2>1. \A i \in 1..l : pending[i] = S[a + n + m + i]
    BY <1>1, <1>5, <1>6 DEF InFlight, Between
  <2>2. \A i \in 1..l : T[a + n + m + i] = S[a + n + m + i]
    <3>1. \A i \in 1..l : a + n + m + i \in Nat /\ a + n + m + i <= b
      BY <1>7
    <3> QED BY <1>2, <1>5, <3>1
  <2>3. f[lo].at + Len(got') + Len(kb_in') = a + n + m
    BY <1>4, <1>5, <1>6
  <2>4. PICK p \in Seq(Nat), d \in Seq(Nat) : p = pending /\ d = c /\ Len(p) = l /\ Len(d) = len
    BY <1>6, <1>10 DEF KbdTypes
  <2>8. pending' = p \o d /\ Len(pending') = l + len
    <3>1. pending' = p \o d
      BY <2>4
    <3>2. Len(p \o d) = Len(p) + Len(d)
      OBVIOUS
    <3> QED BY <2>4, <3>1, <3>2
  <2>5. SUFFICES ASSUME NEW i \in 1..l + len
                 PROVE  (p \o d)[i] = T[a + n + m + i]
    BY <2>3, <2>8
  <2>6. CASE i <= l
    <3>1. i \in 1..l /\ (p \o d)[i] = p[i]
      BY <2>4, <2>6
    <3> QED BY <2>1, <2>2, <2>4, <3>1
  <2>7. CASE ~ (i <= l)
    <3>1. PICK j \in 1..len : j = i - l
      BY <2>7
    <3>2. (p \o d)[i] = d[j] /\ a + n + m + i = b + j
      BY <1>7, <2>4, <2>7, <3>1, SMTT(30)
    <3>3. d[j] = T[b + j]
      BY <1>11, <2>4
    <3> QED BY <3>2, <3>3
  <2> QED BY <2>6, <2>7
<1>16. Len(got') > 0 => lo < hi + 1 /\ Len(got') <= Len(SentBy(f[lo + 1]))
  <2>1. SUFFICES ASSUME Len(got) > 0
                 PROVE  lo < hi + 1 /\ Len(got) <= Len(SentBy(f[lo + 1]))
    OBVIOUS
  <2>2. lo < hi /\ Len(got) <= Len(SentBy(e[lo + 1]))
    BY <1>1, <2>1 DEF InFlight, Between
  <2>3. lo + 1 \in 0..hi
    BY <2>2
  <2>4. f[lo + 1] = e[lo + 1]
    BY <1>2, <2>3
  <2> QED BY <1>3, <2>2, <2>4
<1>17. PICK q \in Seq(Deed), x \in Deed : q = owed /\ x = Due(k, w, HeldFlags, caps)
  <2>1. HeldFlags \in SUBSET Modifier /\ caps \in SUBSET Lock
    BY FlagsFit DEF KbdTypes, HeldFlags
  <2>2. Due(k, w, HeldFlags, caps) \in Deed
    <3> DEFINE v == [key |-> k, way |-> w, down |-> HeldFlags, locks |-> caps, at |-> 0]
    <3>1. v \in Event
      BY <2>1 DEF Event
    <3>2. Due(v.key, v.way, v.down, v.locks) \in Deed
      BY <3>1, Zenon DEF Deed
    <3> QED BY <3>2
  <2> QED BY <2>2 DEF KbdTypes
<1>24. Len(q) = hi - lo
  BY <1>1, <1>17 DEF InFlight, Between
<1>25. /\ Len(Append(q, x)) = Len(q) + 1 /\ Append(q, x)[Len(q) + 1] = x
       /\ \A i \in 1..Len(q) : Append(q, x)[i] = q[i]
  OBVIOUS
<1>18. Len(owed') = hi + 1 - lo
  BY <1>17, <1>24, <1>25
<1>19. ASSUME NEW i \in 1..hi + 1 - lo
       PROVE  owed'[i] = Due(f[lo + i].key, f[lo + i].way, f[lo + i - 1].down, f[lo + i - 1].locks)
  <2>1. CASE i = hi + 1 - lo
    <3>1. owed'[i] = Due(k, w, HeldFlags, caps)
      BY <1>17, <1>24, <1>25, <2>1
    <3>2. lo + i = hi + 1 /\ lo + i - 1 = hi
      BY <2>1
    <3>3. f[lo + i - 1].down = HeldFlags /\ f[lo + i - 1].locks = caps
      BY <1>1, <1>4, <3>2 DEF InFlight, Between
    <3>4. f[lo + i].key = k /\ f[lo + i].way = w
      BY <1>2, <3>2
    <3> QED BY <3>1, <3>3, <3>4
  <2>2. CASE i # hi + 1 - lo
    <3>1. i \in 1..hi - lo /\ lo + i \in 0..hi /\ lo + i - 1 \in 0..hi
      BY <1>3, <2>2
    <3>2. f[lo + i] = e[lo + i] /\ f[lo + i - 1] = e[lo + i - 1]
      BY <1>2, <3>1
    <3>3. owed'[i] = owed[i]
      BY <1>17, <1>24, <1>25, <3>1
    <3> QED BY <1>1, <3>1, <3>2, <3>3 DEF InFlight, Between
  <2> QED BY <2>1, <2>2
<1>20. f[lo].down = down' /\ f[lo].locks = locks'
  BY <1>1, <1>4 DEF InFlight, Between
<1>21. f[hi + 1].down = HeldFlags' /\ f[hi + 1].locks = caps'
  BY <1>1, <1>11 DEF InFlight, Between
<1>22. Between(T, f, lo, hi + 1, got', kb_in', pending', owed')
  <2>1. lo <= hi + 1 /\ f[lo].at + Len(got') + Len(kb_in') + Len(pending') = f[hi + 1].at
    BY <1>12
  <2>2. \A i \in 1..hi + 1 - lo :
          owed'[i] = Due(f[lo + i].key, f[lo + i].way, f[lo + i - 1].down, f[lo + i - 1].locks)
    BY <1>19
  <2> HIDE DEF OneMore
  <2>3. PICK g, kb, p, o : g = got' /\ kb = kb_in' /\ p = pending' /\ o = owed'
    OBVIOUS
  <2>4. /\ \A i \in 1..Len(g) : g[i] = T[f[lo].at + i]
        /\ \A i \in 1..Len(kb) : kb[i] = T[f[lo].at + Len(g) + i]
        /\ \A i \in 1..Len(p) : p[i] = T[f[lo].at + Len(g) + Len(kb) + i]
    BY <1>13, <1>14, <1>15, <2>3, Zenon
  <2>5. /\ Len(g) > 0 => lo < hi + 1 /\ Len(g) <= Len(SentBy(f[lo + 1]))
        /\ Len(o) = hi + 1 - lo
        /\ \A i \in 1..hi + 1 - lo :
             o[i] = Due(f[lo + i].key, f[lo + i].way, f[lo + i - 1].down, f[lo + i - 1].locks)
    BY <1>16, <1>18, <2>2, <2>3, Zenon
  <2>6. lo <= hi + 1 /\ f[lo].at + Len(g) + Len(kb) + Len(p) = f[hi + 1].at
    BY <2>1, <2>3, Zenon
  <2>7. Between(T, f, lo, hi + 1, g, kb, p, o)
    BY <2>4, <2>5, <2>6, SMTT(30) DEF Between
  <2> QED BY <2>3, <2>7
<1>26. InFlight(T, f, lo, hi + 1)'
  BY <1>20, <1>21, <1>22 DEF InFlight, HeldFlags
<1>23. Typed(T, f, hi + 1)'
  BY <1>2 DEF Typed, Follows
<1> QED BY <1>3, <1>23, <1>26 DEF AllThere

(* A press or a release, which sends something or (Pause) nothing.         *)
LEMMA TypesStep ==
  ASSUME KbdInv, NEW k \in Sender, NEW w \in Way,
         Types(Sent(k, w), Due(k, w, HeldFlags, caps)),
         held' \subseteq Keys, caps' \subseteq Lock,
         cleared' \in BOOLEAN,
         HeldFlags' = DownAfter(k, w, HeldFlags), caps' = LocksAfter(k, w, caps)
  PROVE  KbdInv'
<1>1. PICK c \in Seq(Nat) : c = Sent(k, w) /\ (c = <<>> => k = "PAUSEBREAK" /\ w = "break")
  BY SentIsSeq
<1>2. Due(k, w, HeldFlags, caps) \in Deed
  <2> DEFINE v == [key |-> k, way |-> w, down |-> HeldFlags, locks |-> caps, at |-> 0]
  <2>1. v \in Event
    BY FlagsFit DEF Event, KbdInv, KbdTypes, HeldFlags
  <2>2. Due(v.key, v.way, v.down, v.locks) \in Deed
    BY <2>1, Zenon DEF Deed
  <2> QED BY <2>2
<1>3. /\ pending = <<>> /\ pending' = c /\ done' = <<>>
      /\ owed' = IF lost \/ c = <<>> THEN owed ELSE Append(owed, Due(k, w, HeldFlags, caps))
      /\ UNCHANGED <<kb_in, pc, got, down, locks, lost>>
  BY <1>1 DEF Types
<1>4. KbdTypes'
  BY <1>2, <1>3 DEF KbdInv, KbdTypes
<1>5. KeysExact'
  BY <1>3 DEF KeysExact
<1>6. ASSUME ~ lost
      PROVE  AllThere'
  <2>1. CASE c # <<>>
    <3>1. pending' = pending \o c
      BY <1>1, <1>3
    <3> QED BY <1>1, <1>3, <1>6, <2>1, <3>1, AnotherFlies DEF KbdInv
  <2>2. CASE c = <<>>
    <3>1. UNCHANGED <<pending, owed>>
      BY <1>3, <2>2
    <3>2. HeldFlags' = HeldFlags /\ caps' = caps
      <4>1. k = "PAUSEBREAK" /\ w = "break"
        BY <1>1, <2>2
      <4>2. "PAUSEBREAK" \notin HeldFlags
        BY FlagsFit DEF HeldFlags, Modifier, Shift, Alt
      <4>3. DownAfter(k, w, HeldFlags) = HeldFlags \ {"PAUSEBREAK"}
        BY <4>1 DEF DownAfter, Flag
      <4> QED BY <4>1, <4>2, <4>3 DEF LocksAfter
    <3>3. PICK S \in Bytes, e \in Past, lo \in Nat, hi \in Nat :
                 Typed(S, e, hi) /\ InFlight(S, e, lo, hi)
      BY <1>6 DEF KbdInv, AllThere
    <3>4. InFlight(S, e, lo, hi)'
      BY <1>3, <3>1, <3>2, <3>3 DEF InFlight, HeldFlags
    <3>5. Typed(S, e, hi)'
      BY <3>3 DEF Typed, Follows
    <3> QED BY <3>4, <3>5 DEF AllThere
  <2> QED BY <2>1, <2>2
<1> QED BY <1>3, <1>4, <1>5, <1>6 DEF KbdInv

(* A press.                                                                *)
LEMMA PressStep ==
  ASSUME KbdInv, NEW k \in Keys, Press(k)
  PROVE  KbdInv'
<1>1. k \in Sender /\ k # "ACK" /\ "make" \in Way
  BY KeyboardAssumption, KeyNames DEF Way, Sender
<1>2. Types(Sent(k, "make"), Due(k, "make", HeldFlags, caps))
  BY <1>1, MeantIs DEF Press, Sent, Due
<1>3. /\ held' = held \cup {k} /\ caps' = LocksAfter(k, "make", caps)
      /\ cleared' = (cleared /\ k \notin Alt)
  BY DEF Press, LocksAfter
<1>4. /\ held' \subseteq Keys /\ caps' \subseteq Lock
      /\ cleared' \in BOOLEAN
  BY <1>3 DEF KbdInv, KbdTypes, LocksAfter, Toggled
<1>5. HeldFlags' = DownAfter(k, "make", HeldFlags)
  BY <1>3, PressedFlags DEF HeldFlags
<1> QED BY <1>1, <1>2, <1>3, <1>4, <1>5, TypesStep

(* A release.                                                              *)
LEMMA ReleaseStep ==
  ASSUME KbdInv, NEW k \in Keys, Release(k)
  PROVE  KbdInv'
<1>1. k \in Sender /\ k # "ACK" /\ "break" \in Way
  BY KeyboardAssumption, KeyNames DEF Way, Sender
<1>2. Types(Sent(k, "break"), Due(k, "break", HeldFlags, caps))
  BY <1>1 DEF Release, Sent, Due
<1>3. /\ k \in held /\ held' = held \ {k} /\ caps' = LocksAfter(k, "break", caps)
      /\ cleared' = IF k \in Alt THEN (held \ {k}) \cap Alt # {} ELSE cleared
  BY DEF Release, LocksAfter
<1>4. /\ held' \subseteq Keys /\ caps' \subseteq Lock
      /\ cleared' \in BOOLEAN
  BY <1>3 DEF KbdInv, KbdTypes, LocksAfter
<1>5. HeldFlags' = DownAfter(k, "break", HeldFlags)
  BY <1>3, ReleasedFlags DEF HeldFlags
<1> QED BY <1>1, <1>2, <1>3, <1>4, <1>5, TypesStep

(* The bytes x are those of S behind the first a.                          *)
LiesAt(x, S, a) == \A i \in 1..Len(x) : x[i] = S[a + i]

(* A byte moves on from y to x: its place among all bytes is the same.     *)
LEMMA ByteMoves ==
  ASSUME NEW x \in Seq(Nat), NEW y \in Seq(Nat), Len(y) > 0, NEW S, NEW a \in Nat,
         LiesAt(x, S, a), LiesAt(y, S, a + Len(x))
  PROVE  /\ Len(Append(x, Head(y))) = Len(x) + 1 /\ Len(Tail(y)) = Len(y) - 1
         /\ LiesAt(Append(x, Head(y)), S, a) /\ LiesAt(Tail(y), S, a + (Len(x) + 1))
<1>1. Len(x) \in Nat /\ Len(y) \in Nat /\ Len(y) > 0
  OBVIOUS
<1>2. Head(y) = y[1] /\ y[1] \in Nat
  OBVIOUS
<1>3. /\ Append(x, Head(y)) \in Seq(Nat) /\ Tail(y) \in Seq(Nat)
      /\ Len(Append(x, Head(y))) = Len(x) + 1 /\ Len(Tail(y)) = Len(y) - 1
  BY <1>2
<1>4. ASSUME NEW i \in 1..Len(x) + 1
      PROVE  Append(x, Head(y))[i] = S[a + i]
  <2>1. CASE i = Len(x) + 1
    <3>1. Append(x, Head(y))[i] = y[1]
      BY <1>2, <2>1
    <3>2. y[1] = S[a + Len(x) + 1] /\ a + Len(x) + 1 = a + i
      BY <1>1, <2>1 DEF LiesAt
    <3> QED BY <3>1, <3>2
  <2>2. CASE i # Len(x) + 1
    <3>1. i \in 1..Len(x)
      BY <1>1, <2>2
    <3>2. Append(x, Head(y))[i] = x[i]
      BY <3>1
    <3> QED BY <3>1, <3>2 DEF LiesAt
  <2> QED BY <2>1, <2>2
<1>5. ASSUME NEW i \in 1..Len(y) - 1
      PROVE  Tail(y)[i] = S[a + (Len(x) + 1) + i]
  <2>1. Tail(y)[i] = y[i + 1] /\ i + 1 \in 1..Len(y)
    BY <1>1
  <2>2. a + Len(x) + (i + 1) = a + (Len(x) + 1) + i
    BY <1>1
  <2>3. y[i + 1] = S[a + Len(x) + (i + 1)]
    BY <2>1 DEF LiesAt
  <2> QED BY <2>1, <2>2, <2>3
<1> QED BY <1>3, <1>4, <1>5 DEF LiesAt

(* The interrupt handler: into the ring, or lost.                          *)
LEMMA HandlerStep ==
  ASSUME KbdInv, keyboard_handler
  PROVE  KbdInv'
<1>1. /\ pending # <<>> /\ pending' = Tail(pending) /\ pending \in Seq(Nat) /\ kb_in \in Seq(Nat)
      /\ done' = <<>> /\ UNCHANGED <<pc, got, down, locks, held, caps, cleared>>
  BY DEF keyboard_handler, KbdInv, KbdTypes
<1>2. KeysExact'
  BY <1>1 DEF KeysExact
<1>3. CASE Len(kb_in) < KB_IN_BYTES
  <2>1. kb_in' = Append(kb_in, Head(pending)) /\ UNCHANGED <<owed, lost>>
    BY <1>3 DEF keyboard_handler
  <2>2. KbdTypes'
    BY <1>1, <2>1, SMTT(30) DEF KbdInv, KbdTypes
  <2>3. ASSUME ~ lost
        PROVE  AllThere'
    <3>1. PICK S \in Bytes, e \in Past, lo \in Nat, hi \in Nat :
                 Typed(S, e, hi) /\ InFlight(S, e, lo, hi)
      BY <2>3 DEF KbdInv, AllThere
    <3>2. PICK a \in Nat, b \in Nat : a = e[lo].at /\ b = e[hi].at
      BY DEF Past, Event
    <3>3. PICK n \in Nat, m \in Nat, l \in Nat : n = Len(got) /\ m = Len(kb_in) /\ l = Len(pending)
      BY <1>1 DEF KbdInv, KbdTypes
    <3>4. a + n + m + l = b
      BY <3>1, <3>2, <3>3 DEF InFlight, Between
    <3>5. /\ \A i \in 1..Len(kb_in) : kb_in[i] = S[a + n + i]
          /\ \A i \in 1..Len(pending) : pending[i] = S[a + n + Len(kb_in) + i]
      BY <3>1, <3>2, <3>3 DEF InFlight, Between
    <3>6. /\ Len(kb_in') = m + 1 /\ Len(pending') = l - 1
          /\ \A i \in 1..m + 1 : kb_in'[i] = S[a + n + i]
          /\ \A i \in 1..l - 1 : pending'[i] = S[a + n + (m + 1) + i]
      <4>1. PICK c \in Nat : c = a + n
        OBVIOUS
      <4>2. LiesAt(kb_in, S, c) /\ LiesAt(pending, S, c + Len(kb_in))
        BY <3>5, <4>1 DEF LiesAt
      <4>3. /\ Len(Append(kb_in, Head(pending))) = Len(kb_in) + 1 /\ Len(Tail(pending)) = Len(pending) - 1
            /\ LiesAt(Append(kb_in, Head(pending)), S, c) /\ LiesAt(Tail(pending), S, c + (Len(kb_in) + 1))
        BY <1>1, <4>1, <4>2, ByteMoves
      <4> QED BY <1>1, <2>1, <3>3, <4>1, <4>3 DEF LiesAt
    <3>7. a + n + (m + 1) + (l - 1) = b
      BY <3>4
    <3>8. Between(S, e, lo, hi, got', kb_in', pending', owed')
      BY <1>1, <2>1, <3>1, <3>2, <3>3, <3>6, <3>7 DEF InFlight, Between
    <3>9. InFlight(S, e, lo, hi)'
      BY <1>1, <3>1, <3>8 DEF InFlight, HeldFlags
    <3>10. Typed(S, e, hi)'
      BY <3>1 DEF Typed, Follows
    <3> QED BY <3>9, <3>10 DEF AllThere
  <2> QED BY <1>2, <2>1, <2>2, <2>3 DEF KbdInv
<1>4. CASE ~(Len(kb_in) < KB_IN_BYTES)
  <2>1. lost' = TRUE /\ owed' = <<>> /\ UNCHANGED kb_in
    BY <1>4 DEF keyboard_handler
  <2>2. <<>> \in Seq(Deed)
    OBVIOUS
  <2>3. KbdTypes'
    BY <1>1, <2>1, <2>2 DEF KbdInv, KbdTypes
  <2> QED BY <1>2, <2>1, <2>3 DEF KbdInv
<1> QED BY <1>3, <1>4

(* The loop of keyboard_read begins and ends between two events, and waits *)
(* for the answers to set_leds there.                                      *)
LEMMA ReadStep ==
  ASSUME KbdInv, ReadStart \/ ReadEnd \/ kb_ack \/ UNCHANGED kbdVars
  PROVE  KbdInv'
<1>1. /\ UNCHANGED <<pending, kb_in, got, down, locks, held, caps, cleared, owed, lost>>
      /\ done' = <<>> \/ UNCHANGED done
      /\ pc' # "in" => got = <<>>
  BY DEF ReadStart, ReadEnd, kb_ack, kbdVars, KbdInv, KbdTypes
<1>2. KbdTypes' /\ KeysExact'
  BY <1>1 DEF KbdInv, KbdTypes, KeysExact
<1>3. ASSUME ~ lost
      PROVE  AllThere'
  <2>1. PICK S \in Bytes, e \in Past, lo \in Nat, hi \in Nat :
               Typed(S, e, hi) /\ InFlight(S, e, lo, hi)
    BY <1>3 DEF KbdInv, AllThere
  <2>2. InFlight(S, e, lo, hi)'
    BY <1>1, <2>1 DEF InFlight, HeldFlags
  <2>3. Typed(S, e, hi)'
    BY <2>1 DEF Typed, Follows
  <2> QED BY <2>2, <2>3 DEF AllThere
<1> QED BY <1>1, <1>2, <1>3 DEF KbdInv

(* get_byte: out of the ring, to the bytes of the event.                   *)
LEMMA GetByteStep ==
  ASSUME KbdInv, get_byte
  PROVE  KbdInv'
<1>1. /\ kb_in # <<>> /\ got' = Append(got, Head(kb_in)) /\ kb_in' = Tail(kb_in)
      /\ got \in Seq(Nat) /\ kb_in \in Seq(Nat)
      /\ done' = <<>> /\ pc' = "in" /\ UNCHANGED <<pending, down, locks, held, caps, cleared, owed, lost>>
      /\ (got = <<>> \/ NeedsMore(got))
  BY DEF get_byte, KbdInv, KbdTypes
<1>2. KbdTypes' /\ KeysExact'
  BY <1>1, SMTT(30) DEF KbdInv, KbdTypes, KeysExact
<1>3. ASSUME ~ lost
      PROVE  AllThere'
  <2>1. PICK S \in Bytes, e \in Past, lo \in Nat, hi \in Nat :
               Typed(S, e, hi) /\ InFlight(S, e, lo, hi)
    BY <1>3 DEF KbdInv, AllThere
  <2>2. PICK a \in Nat, b \in Nat : a = e[lo].at /\ b = e[hi].at
    BY DEF Past, Event
  <2>3. PICK n \in Nat, m \in Nat, l \in Nat : n = Len(got) /\ m = Len(kb_in) /\ l = Len(pending)
    BY <1>1 DEF KbdInv, KbdTypes
  <2>4. a + n + m + l = b /\ m > 0 /\ lo <= hi
    BY <1>1, <2>1, <2>2, <2>3 DEF InFlight, Between
  <2>5. /\ \A i \in 1..Len(got) : got[i] = S[a + i]
        /\ \A i \in 1..Len(kb_in) : kb_in[i] = S[a + Len(got) + i]
    BY <2>1, <2>2 DEF InFlight, Between
  <2>6. /\ Len(got') = n + 1 /\ Len(kb_in') = m - 1
        /\ \A i \in 1..n + 1 : got'[i] = S[a + i]
        /\ \A i \in 1..m - 1 : kb_in'[i] = S[a + (n + 1) + i]
    <3>1. LiesAt(got, S, a) /\ LiesAt(kb_in, S, a + Len(got))
      BY <2>5 DEF LiesAt
    <3>2. /\ Len(Append(got, Head(kb_in))) = Len(got) + 1 /\ Len(Tail(kb_in)) = Len(kb_in) - 1
          /\ LiesAt(Append(got, Head(kb_in)), S, a) /\ LiesAt(Tail(kb_in), S, a + (Len(got) + 1))
      BY <1>1, <2>3, <2>4, <3>1, ByteMoves
    <3> QED BY <1>1, <2>3, <3>2 DEF LiesAt
  <2>7. lo < hi /\ n + 1 <= Len(SentBy(e[lo + 1]))
    <3>1. lo < hi
      BY <2>2, <2>4
    <3>2. PICK x \in Nat : x = Len(SentBy(e[lo + 1])) /\ x > 0
      BY <2>1, <3>1, NextEvent
    <3>3. CASE got = <<>>
      <4>1. n = 0
        BY <2>3, <3>3
      <4> QED BY <3>1, <3>2, <4>1
    <3>4. CASE got # <<>>
      <4>1. n < x
        BY <1>1, <2>1, <2>3, <3>2, <3>4, Parses DEF KbdInv
      <4> QED BY <3>1, <3>2, <4>1
    <3> QED BY <3>3, <3>4
  <2>8. /\ a + (n + 1) + (m - 1) + l = b
        /\ \A i \in 1..l : pending[i] = S[a + (n + 1) + (m - 1) + i]
    <3>1. \A i \in 1..l : pending[i] = S[a + n + m + i]
      BY <2>1, <2>2, <2>3 DEF InFlight, Between
    <3>2. a + (n + 1) + (m - 1) = a + n + m
      OBVIOUS
    <3> QED BY <2>4, <3>1, <3>2
  <2>9. Between(S, e, lo, hi, got', kb_in', pending', owed')
    BY <1>1, <2>1, <2>2, <2>3, <2>6, <2>7, <2>8, ZenonT(40) DEF InFlight, Between
  <2>10. InFlight(S, e, lo, hi)'
    BY <1>1, <2>1, <2>9 DEF InFlight, HeldFlags
  <2>11. Typed(S, e, hi)'
    BY <2>1 DEF Typed, Follows
  <2> QED BY <2>10, <2>11 DEF AllThere
<1> QED BY <1>1, <1>2, <1>3 DEF KbdInv

(* The sequences of the special keys are those of no other key.            *)
LEMMA SpecialIs ==
  ASSUME NEW k \in Sender, NEW w \in Way, NEW g, g = Sent(k, w), Len(g) > 0
  PROVE  k \in Special <=> g \in {MakeCode(s) : s \in Special} \cup {BreakCode("PRINTSCREEN")}
<1> DEFINE P == MakeCode("PRINTSCREEN")
           R == BreakCode("PRINTSCREEN")
           U == MakeCode("PAUSEBREAK")
<1>1. P = Sent("PRINTSCREEN", "make") /\ R = Sent("PRINTSCREEN", "break") /\ U = Sent("PAUSEBREAK", "make")
  BY DEF Sent
<1>2. {MakeCode(s) : s \in Special} \cup {BreakCode("PRINTSCREEN")} = {P, R, U}
  BY DEF Special
<1> HIDE DEF P, R, U
<1>3. Len(P) = 4 /\ Len(R) = 4 /\ Len(U) = 6
  BY <1>1, SpecialSent
<1>4. CASE k \in Special
  <2>1. Len(Sent("PAUSEBREAK", "break")) = 0
    BY SpecialSent
  <2>2. ~(k = "PAUSEBREAK" /\ w = "break")
    BY <2>1
  <2>3. g \in {P, R, U}
    BY <1>1, <1>4, <2>2 DEF Special, Way
  <2> QED BY <1>2, <1>4, <2>3
<1>5. CASE k \notin Special /\ k # "ACK"
  <2>1. k \in Plain
    BY <1>5 DEF Plain, Sender
  <2>2. PICK x \in Nat : x = Byte(k, w) /\ (g = <<Esc, x>> \/ g = <<x>>)
    BY <2>1, PlainSent
  <2>3. Len(g) \in {1, 2}
    BY <2>2
  <2>4. g \notin {P, R, U}
    <3>1. Len(g) # 4 /\ Len(g) # 6
      BY <2>3
    <3> QED BY <1>3, <3>1, Zenon
  <2> QED BY <1>2, <1>5, <2>4
<1>6. CASE k = "ACK"
  <2>1. k \notin Special
    BY <1>6 DEF Special
  <2>2. Len(g) = 1
    BY <1>6, AckSent
  <2>3. g \notin {P, R, U}
    <3>1. Len(g) # 4 /\ Len(g) # 6
      BY <2>2
    <3> QED BY <1>3, <3>1, Zenon
  <2> QED BY <1>2, <2>1, <2>3
<1> QED BY <1>4, <1>5, <1>6 DEF Sender

(* The answer to set_leds is no key's.                                     *)
LEMMA AckIs ==
  ASSUME NEW k \in Sender, NEW w \in Way, NEW g, g = Sent(k, w), g = <<KB_ACK>>
  PROVE  k = "ACK"
<1>1. Len(g) = 1 /\ g[1] = \hFA
  BY DEF KB_ACK
<1>2. CASE k \in Plain
  <2>1. PICK b \in Nat : b = Byte(k, w) /\ g = IF k \in Extended THEN <<Esc, b>> ELSE <<b>>
    BY <1>2, PlainSent
  <2>2. b = \hFA
    BY <1>1, <2>1
  <2>3. PICK a \in Nat : a = Base(k) /\ a < 96
    BY <1>2, PlainCodes
  <2> QED BY <2>1, <2>2, <2>3 DEF Byte, FLAG_BREAK
<1>3. CASE k \in Special
  <2>1. CASE k = "PRINTSCREEN"
    <3>1. Len(g) = 4
      BY <2>1, SpecialBytes
    <3> QED BY <1>1, <3>1
  <2>2. CASE k = "PAUSEBREAK" /\ w = "make"
    <3>1. Len(g) = 6
      BY <2>2, SpecialBytes
    <3> QED BY <1>1, <3>1
  <2>3. CASE k = "PAUSEBREAK" /\ w = "break"
    <3>1. Sent("PAUSEBREAK", "break") = <<>>
      BY SpecialSent
    <3>2. g = <<>>
      BY <2>3, <3>1
    <3>3. <<>> # <<KB_ACK>>
      OBVIOUS
    <3> QED BY <3>2, <3>3
  <2> QED BY <1>3, <2>1, <2>2, <2>3 DEF Special, Way
<1> QED BY <1>2, <1>3 DEF Sender, Plain

(* All bytes of the next event are here: what it was to do is the first    *)
(* that is owed.                                                           *)
LEMMA EventOwed ==
  ASSUME KbdTypes, NEW S \in Bytes, NEW e \in Past, NEW lo \in Nat, NEW hi \in Nat,
         Typed(S, e, hi), InFlight(S, e, lo, hi), lo < hi
  PROVE  Head(owed) = Due(e[lo + 1].key, e[lo + 1].way, down, locks)
<1>1. Len(owed) = hi - lo /\ 1 \in 1..hi - lo
  BY DEF InFlight, Between
<1>2. owed[1] = Due(e[lo + 1].key, e[lo + 1].way, e[lo + 1 - 1].down, e[lo + 1 - 1].locks)
  BY <1>1 DEF InFlight, Between
<1>3. lo + 1 - 1 = lo
  OBVIOUS
<1>4. e[lo].down = down /\ e[lo].locks = locks
  BY DEF InFlight
<1>5. Head(owed) = owed[1]
  BY <1>1 DEF KbdTypes
<1> QED BY <1>2, <1>3, <1>4, <1>5

(* It is done: the next one begins behind it.                              *)
LEMMA EventDone ==
  ASSUME KbdTypes, NEW S \in Bytes, NEW e \in Past, NEW lo \in Nat, NEW hi \in Nat,
         Typed(S, e, hi), InFlight(S, e, lo, hi), lo < hi, got = SentBy(e[lo + 1]),
         got' = <<>>, owed' = Tail(owed),
         down' = DownAfter(e[lo + 1].key, e[lo + 1].way, down),
         locks' = LocksAfter(e[lo + 1].key, e[lo + 1].way, locks),
         UNCHANGED <<pending, kb_in, held, caps, cleared>>
  PROVE  AllThere'
<1>1. PICK a \in Nat, b \in Nat : a = e[lo].at /\ b = e[hi].at
  BY NextEvent
<1>2. PICK n \in Nat, m \in Nat, l \in Nat : n = Len(got) /\ m = Len(kb_in) /\ l = Len(pending)
  BY DEF KbdTypes
<1>3. e[lo + 1].at = a + n /\ a + n + m + l = b
  <2>1. e[lo].at + Len(SentBy(e[lo + 1])) = e[lo + 1].at
    BY NextEvent
  <2>2. a + n + m + l = b
    BY <1>1, <1>2 DEF InFlight, Between
  <2> QED BY <1>1, <1>2, <2>1, <2>2
<1>4. e[lo + 1].down = down' /\ e[lo + 1].locks = locks'
  <2>1. Follows(S, e[lo], e[lo + 1])
    BY NextEvent
  <2> QED BY <2>1 DEF Follows, InFlight
<1>5. /\ \A i \in 1..m : kb_in[i] = S[a + n + i]
      /\ \A i \in 1..l : pending[i] = S[a + n + m + i]
  BY <1>1, <1>2 DEF InFlight, Between
<1>6. lo + 1 <= hi /\ lo + 1 \in Nat /\ Len(got') = 0
  OBVIOUS
<1>7. PICK q \in Seq(Deed) : q = owed /\ Len(q) = hi - lo
  BY DEF KbdTypes, InFlight, Between
<1>8. Len(owed') = hi - (lo + 1) /\ \A i \in 1..hi - (lo + 1) : owed'[i] = owed[i + 1]
  <2>1. q # <<>>
    BY <1>7
  <2>2. Len(Tail(q)) = Len(q) - 1 /\ \A i \in 1..Len(q) - 1 : Tail(q)[i] = q[i + 1]
    BY <2>1
  <2> QED BY <1>7, <2>2
<1>9. ASSUME NEW i \in 1..hi - (lo + 1)
      PROVE  owed'[i] = Due(e[lo + 1 + i].key, e[lo + 1 + i].way, e[lo + 1 + i - 1].down, e[lo + 1 + i - 1].locks)
  <2>1. PICK j \in 1..hi - lo : j = i + 1 /\ lo + j = lo + 1 + i /\ lo + j - 1 = lo + 1 + i - 1
    BY <1>6
  <2>2. owed[j] = Due(e[lo + j].key, e[lo + j].way, e[lo + j - 1].down, e[lo + j - 1].locks)
    BY <2>1 DEF InFlight, Between
  <2> QED BY <1>8, <2>1, <2>2
<1>10. PICK x, y, z, o : x = got' /\ y = kb_in' /\ z = pending' /\ o = owed'
  OBVIOUS
<1>11. Len(x) = 0 /\ Len(y) = m /\ Len(z) = l
  BY <1>2, <1>6, <1>10
<1>12. /\ \A i \in 1..m : y[i] = S[a + n + 0 + i]
       /\ \A i \in 1..l : z[i] = S[a + n + 0 + m + i]
  <2>1. a + n + 0 = a + n
    OBVIOUS
  <2> QED BY <1>5, <1>10, <2>1
<1>13. Between(S, e, lo + 1, hi, x, y, z, o)
  <2>1. \A i \in 1..Len(x) : x[i] = S[e[lo + 1].at + i]
    BY <1>11
  <2>2. e[lo + 1].at + Len(x) + Len(y) + Len(z) = e[hi].at
    BY <1>1, <1>3, <1>11
  <2>3. /\ \A i \in 1..Len(y) : y[i] = S[e[lo + 1].at + Len(x) + i]
        /\ \A i \in 1..Len(z) : z[i] = S[e[lo + 1].at + Len(x) + Len(y) + i]
    BY <1>3, <1>11, <1>12
  <2>4. ~(Len(x) > 0)
    BY <1>11
  <2>5. Len(o) = hi - (lo + 1)
    BY <1>8, <1>10
  <2>6. \A i \in 1..hi - (lo + 1) :
          o[i] = Due(e[lo + 1 + i].key, e[lo + 1 + i].way, e[lo + 1 + i - 1].down, e[lo + 1 + i - 1].locks)
    BY <1>9, <1>10
  <2> QED BY <1>6, <2>1, <2>2, <2>3, <2>4, <2>5, <2>6 DEF Between
<1>14. InFlight(S, e, lo + 1, hi)'
  <2>1. e[hi].down = HeldFlags' /\ e[hi].locks = caps'
    BY DEF InFlight, HeldFlags
  <2> QED BY <1>4, <1>10, <1>13, <2>1 DEF InFlight
<1>15. Typed(S, e, hi)'
  BY DEF Typed, Follows
<1> QED BY <1>6, <1>14, <1>15 DEF AllThere

(* PrintScreen and Pause do nothing, and change no flag.                   *)
LEMMA DecodeSpecialStep ==
  ASSUME KbdInv, DecodeSpecial
  PROVE  KbdInv'
<1>1. /\ got # <<>> /\ ~ NeedsMore(got) /\ pc = "in"
      /\ got' = <<>> /\ UNCHANGED <<pending, kb_in, pc, held, caps, cleared, down, locks>>
      /\ lost' \in BOOLEAN /\ (lost => lost')
      /\ lost' => owed' = <<>> /\ done' = <<>>
      /\ ~ lost' => owed' = Tail(owed) /\ done' = <<Nothing, Head(owed)>>
      /\ ~ lost' => got \in {MakeCode(s) : s \in Special} \cup {BreakCode("PRINTSCREEN"), <<KB_ACK>>}
  BY DEF DecodeSpecial, Whole, Finish, KbdInv, KbdTypes
<1>2. CASE lost'
  <2>1. <<>> \in Seq(Deed) /\ <<>> \in Seq(Nat)
    OBVIOUS
  <2>2. KbdTypes'
    BY <1>1, <1>2, <2>1 DEF KbdInv, KbdTypes
  <2> QED BY <1>1, <1>2, <2>2 DEF KbdInv, KeysExact
<1>3. CASE ~ lost'
  <2>1. PICK S \in Bytes, e \in Past, lo \in Nat, hi \in Nat :
               Typed(S, e, hi) /\ InFlight(S, e, lo, hi)
    BY <1>1, <1>3 DEF KbdInv, AllThere
  <2>2. lo < hi /\ got = SentBy(e[lo + 1])
    BY <1>1, <2>1, Parses DEF KbdInv
  <2>3. PICK k \in Sender, w \in Way : k = e[lo + 1].key /\ w = e[lo + 1].way
    BY <2>1, <2>2, NextEvent DEF Event
  <2>4. got = Sent(k, w) /\ Len(got) > 0
    BY <1>1, <2>2, <2>3 DEF SentBy, KbdInv, KbdTypes
  <2>5. k \in Special \cup {"ACK"}
    BY <1>1, <1>3, <2>4, SpecialIs, AckIs
  <2>6. Head(owed) = Nothing /\ owed # <<>>
    <3>1. MeantAt(k, down, locks) = Nothing
      BY <2>5 DEF MeantAt, Special
    <3>2. Head(owed) = Due(k, w, down, locks)
      BY <2>1, <2>2, <2>3, EventOwed DEF KbdInv
    <3>3. Len(owed) > 0
      BY <2>1, <2>2 DEF InFlight, Between
    <3> QED BY <3>1, <3>2, <3>3 DEF Due
  <2>7. down' = DownAfter(k, w, down) /\ locks' = LocksAfter(k, w, locks)
    <3>1. k \notin Modifier /\ k \notin Lock /\ Flag(k) = k
      BY <2>5 DEF Special, Modifier, Shift, Alt, Lock, Flag
    <3>2. down \subseteq Modifier
      BY DEF KbdInv, KbdTypes
    <3> QED BY <1>1, <3>1, <3>2 DEF DownAfter, LocksAfter
  <2>8. AllThere'
    BY <1>1, <1>3, <2>1, <2>2, <2>3, <2>7, EventDone DEF KbdInv
  <2>9. KbdTypes'
    <3>1. Tail(owed) \in Seq(Deed)
      BY <2>6 DEF KbdInv, KbdTypes
    <3>2. owed' \in Seq(Deed) /\ got' \in Seq(Nat)
      BY <1>1, <1>3, <3>1
    <3> QED BY <1>1, <1>3, <3>2 DEF KbdInv, KbdTypes
  <2>10. KeysExact'
    BY <1>1, <1>3, <2>6 DEF KeysExact
  <2> QED BY <2>8, <2>9, <2>10 DEF KbdInv
<1> QED BY <1>2, <1>3

(* The key that is looked up changes the flags as the event did.           *)
LEMMA FollowsRight ==
  ASSUME NEW k \in Plain, NEW w \in Way, NEW x, down \subseteq Modifier,
         k \in Modifier => x = k, k \notin Modifier => x \notin Modifier,
         k \in Lock => x = k, k \notin Lock => x \notin Lock
  PROVE  /\ Follow(x, w = "make") = DownAfter(k, w, down)
         /\ (IF w = "make" /\ x \in Lock THEN Toggled(locks, x) ELSE locks) = LocksAfter(k, w, locks)
<1>1. \A y : Flag(y) \in Modifier <=> y \in Modifier
  BY DEF Flag, Modifier, Shift, Alt
<1>2. Follow(x, w = "make") = DownAfter(k, w, down)
  <2>1. CASE k \in Modifier
    BY <2>1 DEF Follow, DownAfter
  <2>2. CASE k \notin Modifier
    <3>1. Flag(x) \notin Modifier /\ Flag(k) \notin Modifier
      BY <1>1, <2>2
    <3> QED BY <3>1 DEF Follow, DownAfter
  <2> QED BY <2>1, <2>2
<1>3. (IF w = "make" /\ x \in Lock THEN Toggled(locks, x) ELSE locks) = LocksAfter(k, w, locks)
  BY DEF LocksAfter
<1> QED BY <1>2, <1>3

(* Another key does what it was pressed for.                               *)
LEMMA DecodeKeyStep ==
  ASSUME KbdInv, DecodeKey
  PROVE  KbdInv'
<1>0. PICK x : x = keymap(scan_code % FLAG_BREAK)[Column]
  OBVIOUS
<1>1. PICK made \in BOOLEAN : made <=> scan_code < FLAG_BREAK
  OBVIOUS
<1>2. /\ got # <<>> /\ ~ NeedsMore(got) /\ pc = "in" /\ SpecialKey \notin Special
      /\ got' = <<>> /\ UNCHANGED <<pending, kb_in, held, caps, cleared>>
      /\ down' = Follow(x, made)
      /\ locks' = IF made /\ x \in Lock THEN Toggled(locks, x) ELSE locks
      /\ lost' = lost /\ lost \in BOOLEAN
      /\ lost => owed' = <<>> /\ done' = <<>>
      /\ ~ lost => owed' = Tail(owed)
                   /\ done' = <<IF made THEN in_process(Numpad(x), down') ELSE Nothing, Head(owed)>>
  BY <1>0, <1>1 DEF DecodeKey, Whole, Finish, KbdInv, KbdTypes
<1>3. down' \subseteq Modifier /\ locks' \subseteq Lock
  BY <1>2 DEF Follow, Toggled, KbdInv, KbdTypes
<1>4. CASE lost
  <2>1. <<>> \in Seq(Deed) /\ <<>> \in Seq(Nat)
    OBVIOUS
  <2>2. KbdTypes'
    BY <1>2, <1>3, <1>4, <2>1 DEF KbdInv, KbdTypes
  <2> QED BY <1>2, <1>4, <2>2 DEF KbdInv, KeysExact
<1>5. CASE ~ lost
  <2>1. PICK S \in Bytes, e \in Past, lo \in Nat, hi \in Nat :
               Typed(S, e, hi) /\ InFlight(S, e, lo, hi)
    BY <1>5 DEF KbdInv, AllThere
  <2>2. lo < hi /\ got = SentBy(e[lo + 1])
    BY <1>2, <2>1, Parses DEF KbdInv
  <2>3. PICK k \in Sender, w \in Way : k = e[lo + 1].key /\ w = e[lo + 1].way
    BY <2>1, <2>2, NextEvent DEF Event
  <2>4. got = Sent(k, w) /\ Len(got) > 0
    BY <1>2, <2>2, <2>3 DEF SentBy, KbdInv, KbdTypes
  <2>5. k \in Plain \cup {"ACK"}
    <3>1. got \in {MakeCode(s) : s \in Special} \cup {BreakCode("PRINTSCREEN")} => SpecialKey \in Special
      BY DEF SpecialKey, Special
    <3> QED BY <1>2, <2>4, <3>1, SpecialIs DEF Plain, Sender
  <2>15. k = "ACK" => ~ made /\ x = "0"
    BY <1>0, <1>1, <2>4, AckLookedUp
  <2>6. k \in Plain => (made <=> w = "make")
    BY <1>1, <2>4, CodeIs
  <2>7. /\ k \in Modifier => x = k
        /\ k \notin Modifier => x \notin Modifier
        /\ k \in Lock => x = k
        /\ k \notin Lock => x \notin Lock
        /\ (k \in Plain /\ k \in Modifier) =>
             \A m : in_process(Numpad(x), m) = MeantAt(k, down, locks)
        /\ (k \in Plain /\ k \notin Modifier) =>
             in_process(Numpad(x), down) = MeantAt(k, down, locks)
    <3>1. CASE k \in Plain
      BY <1>0, <2>4, <3>1, DecodesRight
    <3>2. CASE k = "ACK"
      <4>1. k \notin Plain
        BY <3>2, KeyNames DEF Plain
      <4> QED BY <2>15, <3>2, <4>1 DEF Modifier, Shift, Alt, Lock
    <3> QED BY <2>5, <3>1, <3>2
  <2>8. down' = DownAfter(k, w, down) /\ locks' = LocksAfter(k, w, locks)
    <3>1. down \subseteq Modifier
      BY DEF KbdInv, KbdTypes
    <3>2. CASE k \in Plain
      <4>1. made = (w = "make")
        BY <2>6, <3>2
      <4>2. /\ Follow(x, w = "make") = DownAfter(k, w, down)
            /\ (IF w = "make" /\ x \in Lock THEN Toggled(locks, x) ELSE locks) = LocksAfter(k, w, locks)
        BY <2>7, <3>1, <3>2, FollowsRight
      <4> QED BY <1>2, <2>6, <3>2, <4>1, <4>2
    <3>3. CASE k = "ACK"
      <4>1. Flag(x) = "0" /\ Flag(k) = "ACK"
        BY <2>15, <3>3 DEF Flag
      <4>2. down' = down \ {"0"} /\ locks' = locks
        BY <1>2, <2>15, <3>3, <4>1 DEF Follow
      <4>3. "0" \notin Modifier /\ "ACK" \notin Modifier /\ "ACK" \notin Lock
        BY DEF Modifier, Shift, Alt, Lock
      <4> QED BY <3>1, <3>3, <4>1, <4>2, <4>3 DEF DownAfter, LocksAfter
    <3> QED BY <2>5, <3>2, <3>3
  <2>9. Head(owed) = Due(k, w, down, locks) /\ owed # <<>>
    <3>1. Head(owed) = Due(k, w, down, locks)
      BY <2>1, <2>2, <2>3, EventOwed DEF KbdInv
    <3>2. Len(owed) > 0
      BY <2>1, <2>2 DEF InFlight, Between
    <3> QED BY <3>1, <3>2
  <2>10. (IF made THEN in_process(Numpad(x), down') ELSE Nothing) = Due(k, w, down, locks)
    <3>0. MeantAt("ACK", down, locks) = Nothing
      BY DEF MeantAt
    <3>4. CASE k = "ACK"
      BY <2>15, <3>0, <3>4 DEF Due
    <3>5. SUFFICES ASSUME k \in Plain
                   PROVE  (IF made THEN in_process(Numpad(x), down') ELSE Nothing) = Due(k, w, down, locks)
      BY <2>5, <3>4
    <3>1. CASE made /\ k \notin Modifier
      <4>1. Flag(k) \notin Modifier
        BY <3>1 DEF Flag, Modifier, Shift, Alt
      <4>2. down' = down
        BY <2>6, <2>8, <3>1, <3>5, <4>1 DEF DownAfter
      <4> QED BY <2>6, <2>7, <3>1, <3>5, <4>2 DEF Due
    <3>2. CASE made /\ k \in Modifier
      BY <2>6, <2>7, <3>2, <3>5 DEF Due
    <3>3. CASE ~ made
      BY <2>6, <3>3, <3>5 DEF Due
    <3> QED BY <3>1, <3>2, <3>3
  <2>11. AllThere'
    BY <1>2, <1>5, <2>1, <2>2, <2>3, <2>8, EventDone DEF KbdInv
  <2>12. KbdTypes'
    <3>1. Tail(owed) \in Seq(Deed)
      BY <2>9 DEF KbdInv, KbdTypes
    <3>2. owed' \in Seq(Deed) /\ got' \in Seq(Nat)
      BY <1>2, <1>5, <3>1
    <3> QED BY <1>2, <1>3, <1>5, <3>2 DEF KbdInv, KbdTypes
  <2>13. KeysExact'
    <3>1. done' = <<Due(k, w, down, locks), Due(k, w, down, locks)>>
      BY <1>2, <1>5, <2>9, <2>10
    <3> QED BY <3>1 DEF KeysExact
  <2> QED BY <2>11, <2>12, <2>13 DEF KbdInv
<1> QED BY <1>4, <1>5

(* set_leds, whose answer is sent behind what is on its way.               *)
LEMMA SetLedsStep ==
  ASSUME KbdInv, set_leds
  PROVE  KbdInv'
<1>1. /\ pending' = Append(pending, KB_ACK) /\ owed' = IF lost THEN owed ELSE Append(owed, Nothing)
      /\ done' = <<>> /\ got = <<>> /\ pending \in Seq(Nat)
      /\ UNCHANGED <<kb_in, got, down, locks, held, caps, cleared, lost>>
  BY DEF set_leds, KbdInv, KbdTypes
<1>2. /\ "ACK" \in Sender /\ "make" \in Way /\ Sent("ACK", "make") = <<KB_ACK>> /\ KB_ACK \in Nat
      /\ "ACK" \notin Modifier /\ "ACK" \notin Lock
  BY AckSent DEF Sender, Way, Modifier, Shift, Alt, Lock
<1>3. Due("ACK", "make", HeldFlags, caps) = Nothing
  BY DEF Due, MeantAt
<1>4. HeldFlags' = DownAfter("ACK", "make", HeldFlags) /\ caps' = LocksAfter("ACK", "make", caps)
  <2>1. HeldFlags' = HeldFlags
    BY <1>1 DEF HeldFlags
  <2>2. Flag("ACK") = "ACK"
    BY DEF Flag
  <2> QED BY <1>1, <1>2, <2>1, <2>2 DEF DownAfter, LocksAfter
<1>5. Nothing \in Deed
  <2> DEFINE v == [key |-> "ACK", way |-> "make", down |-> {}, locks |-> {}, at |-> 0]
  <2>1. v \in Event
    BY <1>2 DEF Event
  <2>2. Due(v.key, v.way, v.down, v.locks) \in Deed
    BY <2>1, Zenon DEF Deed
  <2>3. Due(v.key, v.way, v.down, v.locks) = Nothing
    BY DEF Due, MeantAt
  <2> QED BY <2>2, <2>3
<1>6. KbdTypes'
  BY <1>1, <1>2, <1>5 DEF KbdInv, KbdTypes
<1>7. KeysExact'
  BY <1>1 DEF KeysExact
<1>8. ASSUME ~ lost
      PROVE  AllThere'
  <2>1. pending' = pending \o <<KB_ACK>> /\ <<KB_ACK>> # <<>>
    BY <1>1, <1>2
  <2> QED BY <1>1, <1>2, <1>3, <1>4, <1>8, <2>1, AnotherFlies DEF KbdInv
<1> QED BY <1>1, <1>6, <1>7, <1>8 DEF KbdInv

-----------------------------------------------------------------------------
(* The theorems hold for every set of keys, for every size of the ring,    *)
(* and however many keys are pressed.                                      *)

(* The state of the keyboard is always that of some history of keys.       *)
THEOREM KeyboardInvariance ==
  KeyboardSpec => []KbdInv
<1>1. KeyboardInit => KbdInv
  BY InitFits
<1>2. KbdInv /\ [KeyboardNext]_kbdVars => KbdInv'
  <2>1. SUFFICES ASSUME KbdInv, KeyboardNext \/ UNCHANGED kbdVars
                 PROVE  KbdInv'
    OBVIOUS
  <2>2. ASSUME NEW k \in Keys, Press(k)
        PROVE  KbdInv'
    BY <2>1, <2>2, PressStep
  <2>3. ASSUME NEW k \in Keys, Release(k)
        PROVE  KbdInv'
    BY <2>1, <2>3, ReleaseStep
  <2>4. CASE keyboard_handler
    BY <2>1, <2>4, HandlerStep
  <2>9. CASE set_leds
    BY <2>1, <2>9, SetLedsStep
  <2>5. CASE ReadStart \/ ReadEnd \/ kb_ack \/ UNCHANGED kbdVars
    BY <2>1, <2>5, ReadStep
  <2>6. CASE get_byte
    BY <2>1, <2>6, GetByteStep
  <2>7. CASE DecodeSpecial
    BY <2>1, <2>7, DecodeSpecialStep
  <2>8. CASE DecodeKey
    BY <2>1, <2>8, DecodeKeyStep
  <2> QED BY <2>1, <2>2, <2>3, <2>4, <2>5, <2>6, <2>7, <2>8, <2>9 DEF KeyboardNext
<1> QED BY <1>1, <1>2, PTL DEF KeyboardSpec

(* KeysExact: every key does what it is for with the modifiers and locks   *)
(* as they were when it was pressed, in the order of the keys, as long as  *)
(* no byte and no key is lost, and but for F1 with an Alt key that is held *)
(* while the other was released.                                           *)
THEOREM KeysAreExact ==
  KeyboardSpec => []KeysExact
<1>1. KbdInv => KeysExact
  BY DEF KbdInv
<1> QED BY <1>1, KeyboardInvariance, PTL

(* ModifiersFollow: when all bytes are taken, no flag of keyboard.c sticks *)
(* and none is forgotten, with both Alt keys too, but for that of the one  *)
(* that is held while the other was released.                              *)
THEOREM ModifiersAreFollowed ==
  KeyboardSpec => []ModifiersFollow
<1>1. KbdInv => ModifiersFollow
  <2>1. SUFFICES ASSUME KbdInv, ~ lost, pending = <<>>, kb_in = <<>>, got = <<>>
                 PROVE  down = HeldFlags /\ locks = caps
    <3>1. /\ HeldFlags \ Alt = (held \cap Modifier) \ Alt
          /\ HeldFlags \cap Alt # {} <=> held \cap Alt # {} /\ ~ cleared
      BY DEF HeldFlags, Flags, Flag, Modifier, Shift, Alt
    <3> QED BY <3>1 DEF ModifiersFollow
  <2>2. PICK S \in Bytes, e \in Past, lo \in Nat, hi \in Nat :
               Typed(S, e, hi) /\ InFlight(S, e, lo, hi)
    BY <2>1 DEF KbdInv, AllThere
  <2>3. e[lo].at \in Nat /\ e[hi].at \in Nat
    BY DEF Past, Event
  <2>4. e[lo].at = e[hi].at /\ lo <= hi
    <3>1. Len(got) = 0 /\ Len(kb_in) = 0 /\ Len(pending) = 0
      BY <2>1
    <3> QED BY <2>2, <2>3, <3>1 DEF InFlight, Between
  <2>5. lo = hi
    <3>1. SUFFICES ASSUME lo < hi
                   PROVE  FALSE
      BY <2>4
    <3>2. PICK x \in Nat : x = Len(SentBy(e[lo + 1])) /\ x > 0
      BY <2>2, <3>1, NextEvent
    <3>3. PICK y \in Nat : y = e[lo + 1].at
      BY DEF Past, Event
    <3>4. e[lo].at + x = y /\ y <= e[hi].at
      BY <2>2, <3>1, <3>2, <3>3, NextEvent
    <3> QED BY <2>3, <2>4, <3>2, <3>4
  <2> QED BY <2>2, <2>5 DEF InFlight
<1> QED BY <1>1, KeyboardInvariance, PTL

(* NoEndlessWait: a byte that keyboard_read spins for is one that the      *)
(* keyboard is already about to send.                                      *)
THEOREM NoWaitIsEndless ==
  KeyboardSpec => []NoEndlessWait
<1>1. KbdInv => NoEndlessWait
  <2>1. SUFFICES ASSUME KbdInv, ~ lost, got # <<>>, NeedsMore(got), kb_in = <<>>, pending = <<>>
                 PROVE  FALSE
    BY DEF NoEndlessWait
  <2>2. PICK S \in Bytes, e \in Past, lo \in Nat, hi \in Nat :
               Typed(S, e, hi) /\ InFlight(S, e, lo, hi)
    BY <2>1 DEF KbdInv, AllThere
  <2>3. lo < hi /\ Len(got) < Len(SentBy(e[lo + 1]))
    BY <2>1, <2>2, Parses DEF KbdInv
  <2>4. PICK x \in Nat, y \in Nat, a \in Nat, b \in Nat :
           /\ a = e[lo].at /\ b = e[hi].at /\ x = Len(SentBy(e[lo + 1]))
           /\ a + x = y /\ y <= b
    <3>1. PICK a \in Nat, b \in Nat, y \in Nat : a = e[lo].at /\ b = e[hi].at /\ y = e[lo + 1].at
      BY DEF Past, Event
    <3>2. PICK x \in Nat : x = Len(SentBy(e[lo + 1]))
      BY <2>2, <2>3, NextEvent
    <3>3. a + x = y /\ y <= b
      BY <2>2, <2>3, <3>1, <3>2, NextEvent
    <3> QED BY <3>1, <3>2, <3>3
  <2>5. PICK n \in Nat : n = Len(got)
    BY <2>1 DEF KbdInv, KbdTypes
  <2>6. a + n = b
    <3>1. Len(kb_in) = 0 /\ Len(pending) = 0
      BY <2>1
    <3> QED BY <2>2, <2>4, <2>5, <3>1 DEF InFlight, Between
  <2> QED BY <2>3, <2>4, <2>5, <2>6, SMTT(30)
<1> QED BY <1>1, KeyboardInvariance, PTL

=============================================================================
