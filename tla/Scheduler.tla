----------------------------- MODULE Scheduler -----------------------------
(***************************************************************************)
(* The processor: schedule, rr_schedule and priority_schedule of           *)
(* kernel/proc.c, the clock handler that calls them, and MM's changes of   *)
(* policies, priorities and process table entries.                         *)
(*                                                                         *)
(* p_proc_ready is the process that restart() resumes.  It changes in      *)
(* block(), at the end of a system call that the process could not         *)
(* complete, and at a clock interrupt that came in ring 1 to 3.  A clock   *)
(* interrupt that came in ring 0 (k_reenter # 0) only counts.              *)
(*                                                                         *)
(* Why a process blocks and who releases it is the business of IPC; here   *)
(* the running process may block and release others as it likes.           *)
(***************************************************************************)
EXTENDS Integers

CONSTANTS NR,          \* NR_TASKS + NR_PROCS
          NrSched,     \* priority_schedule's nr_tasks
          MM,          \* the process manager
          IntTask,     \* the tasks that interrupts release
          Spinner,     \* TestA, TestB, TestC: for(;;);
          NrTasks,     \* NR_TASKS, which MM gives no other priority
          FirstSlot,   \* the first entry that fork can use
          MinPriority, DefaultPriority,
          Priority,    \* the priorities that programs ask for
          Policy,      \* the policies that programs ask for
          MaxTicks     \* MAX_TICKS, where the tick count wraps

SCHED_RR == 1
SCHED_PRI == 2

Pid == 0 .. NR - 1
Slot == FirstSlot .. NR - 1
Ranked == NrSched .. NR - 1      \* those whose priority schedule() looks at

ASSUME SchedAssumption ==
  /\ NR \in Nat /\ NrSched \in 1 .. NR /\ FirstSlot \in 1 .. NR
  /\ NrTasks \in Nat
  /\ MM \in Pid \ Slot /\ IntTask \subseteq Pid \ Slot
  /\ Spinner \subseteq (0 .. NrSched - 1) \ Slot
  /\ Spinner # {} /\ MM \notin Spinner /\ IntTask \cap Spinner = {}
  /\ DefaultPriority \in Priority /\ Priority \subseteq Int /\ MinPriority \in Int
  /\ Policy \subseteq Int
  /\ MaxTicks \in Nat \ {0}

VARIABLES
  state,            \* p_flags: "ready" if zero, "free" if FREE_SLOT, or "blocked"
  p_proc_ready,     \* the process that runs
  slice,            \* the field ticks of the process table: what is left
  priority,         \* of the ranked processes
  schedule_policy,
  ticks             \* the clock

schedVars == <<state, p_proc_ready, slice, priority, schedule_policy, ticks>>

SchedTypeOK ==
  /\ state \in [Pid -> {"ready", "blocked", "free"}]
  /\ p_proc_ready \in Pid
  /\ slice \in [Pid -> Int]
  /\ priority \in [Ranked -> Priority]
  /\ schedule_policy \in Policy \cup {SCHED_RR}
  /\ ticks \in 0 .. MaxTicks - 1

(***************************************************************************)
(* kernel_main.                                                            *)
(***************************************************************************)
SchedInit ==
  /\ state = [p \in Pid |-> IF p \in Slot THEN "free" ELSE "ready"]
  /\ p_proc_ready = 0
  /\ priority = [p \in Ranked |-> DefaultPriority]
  /\ slice = [p \in Pid |-> DefaultPriority]
  /\ schedule_policy = SCHED_RR
  /\ ticks = 0

Ready(st) == {p \in Pid : st[p] = "ready"}

(* The member of R that a walk comes to first that begins at p and goes on *)
(* from n - 1 to 0.                                                        *)
Steps(p, q, n) == IF p <= q THEN q - p ELSE n - p + q
FirstFrom(p, R, n) == CHOOSE q \in R : \A o \in R : Steps(p, q, n) <= Steps(p, o, n)

(* rr_schedule: the next runnable process in the table, at last the same.  *)
rr_schedule_from_first(st) == FirstFrom(0, Ready(st), NR)
rr_schedule(st) == FirstFrom((p_proc_ready + 1) % NR, Ready(st), NR)

(***************************************************************************)
(* priority_schedule: in every other 12 ticks the last of the user         *)
(* processes with the highest priority, if it can run; otherwise, and in   *)
(* the ticks between, the first of the other processes that can run,       *)
(* beginning with the one that the tick points at.                         *)
(***************************************************************************)
Wanted(p, st) ==
  p \in Ranked /\ priority[p] >= MinPriority /\ st[p] # "free"

Top(p, st) ==
  /\ Wanted(p, st)
  /\ \A o \in Pid : Wanted(o, st) =>
        \/ priority[o] < priority[p]
        \/ priority[o] = priority[p] /\ o <= p

RunsTop_blocked(p, st) == Top(p, st)
RunsTop(p, st) == Top(p, st) /\ st[p] = "ready"

ScanStart_zero(r) == 0
ScanStart(r) == r % NrSched

priority_schedule(st, now) ==
  LET r == now % (2 * NrSched)
      low == {p \in Ready(st) : p < NrSched}
  IN  IF r >= NrSched /\ \E p \in Pid : RunsTop(p, st)
        THEN CHOOSE p \in Pid : RunsTop(p, st)
        ELSE FirstFrom(ScanStart(r), low, NrSched)

schedule(st, now) ==
  IF schedule_policy = SCHED_PRI THEN priority_schedule(st, now) ELSE rr_schedule(st)

-----------------------------------------------------------------------------
(***************************************************************************)
(* clock_handler.  inform_int may release tasks (W) if they wait.  Under   *)
(* round robin a process goes on until its slice is used up; the slice is  *)
(* never filled again.                                                     *)
(***************************************************************************)
Released(W) == [p \in Pid |-> IF p \in W /\ state[p] = "blocked" THEN "ready" ELSE state[p]]

NextTick == (ticks + 1) % MaxTicks

Tick(user) ==
  \E W \in SUBSET IntTask :
    /\ state' = Released(W)
    /\ ticks' = NextTick
    /\ slice' = IF schedule_policy = SCHED_RR /\ slice[p_proc_ready] # 0
                  THEN [slice EXCEPT ![p_proc_ready] = @ - 1] ELSE slice
    /\ p_proc_ready' =
         IF user /\ (schedule_policy = SCHED_RR => slice'[p_proc_ready] <= 0)
           THEN schedule(state', ticks') ELSE p_proc_ready
    /\ UNCHANGED <<priority, schedule_policy>>

(* Any other interrupt.                                                    *)
Interrupt ==
  \E W \in SUBSET IntTask :
    /\ state' = Released(W)
    /\ UNCHANGED <<p_proc_ready, slice, priority, schedule_policy, ticks>>

(* The running process blocks in a system call: block() always calls       *)
(* rr_schedule, whatever the policy.                                       *)
Block ==
  /\ p_proc_ready \notin Spinner
  /\ state' = [state EXCEPT ![p_proc_ready] = "blocked"]
  /\ p_proc_ready' = rr_schedule(state')
  /\ UNCHANGED <<slice, priority, schedule_policy, ticks>>

(* ... or completes one and releases another process by it.                *)
Unblock ==
  /\ p_proc_ready \notin Spinner
  /\ \E q \in Pid :
        /\ state[q] = "blocked"
        /\ state' = [state EXCEPT ![q] = "ready"]
  /\ UNCHANGED <<p_proc_ready, slice, priority, schedule_policy, ticks>>

Prioritised(s, v) == [p \in Ranked |-> IF p = s THEN v ELSE priority[p]]

(* do_fork: the child's p_flags are the parent's; do_exit and do_kill.     *)
Fork ==
  /\ p_proc_ready = MM
  /\ \E s \in Slot, v \in Priority, f \in {"ready", "blocked"} :
        /\ state[s] = "free"
        /\ state' = [state EXCEPT ![s] = f]
        /\ priority' = Prioritised(s, v)
        /\ slice' = [slice EXCEPT ![s] = v]
  /\ UNCHANGED <<p_proc_ready, schedule_policy, ticks>>

Exit ==
  /\ p_proc_ready = MM
  /\ \E s \in Slot :
        /\ state[s] # "free"
        /\ state' = [state EXCEPT ![s] = "free"]
  /\ UNCHANGED <<p_proc_ready, slice, priority, schedule_policy, ticks>>

(* do_wait marks the process that waits: by then it is blocked in its call *)
(* or not yet, and another system call may have released it since MM       *)
(* looked.                                                                 *)
Wait ==
  /\ p_proc_ready = MM
  /\ \E p \in Pid \ (Spinner \cup {MM}) : state' = [state EXCEPT ![p] = "blocked"]
  /\ UNCHANGED <<p_proc_ready, slice, priority, schedule_policy, ticks>>

(* try_change_proc_priority stores what the message says: the range check  *)
(* changes a copy only.                                                    *)
try_change_proc_priority ==
  /\ p_proc_ready = MM
  /\ \E s \in Pid, v \in Priority :
        /\ s >= NrTasks /\ state[s] # "free"
        /\ priority' = Prioritised(s, v)
  /\ UNCHANGED <<state, p_proc_ready, slice, schedule_policy, ticks>>

try_change_schedule_policy ==
  /\ p_proc_ready = MM
  /\ schedule_policy' \in Policy
  /\ UNCHANGED <<state, p_proc_ready, slice, priority, ticks>>

SchedNext ==
  \/ Tick(TRUE) \/ Tick(FALSE) \/ Interrupt
  \/ Block \/ Unblock
  \/ Fork \/ Exit \/ Wait
  \/ try_change_proc_priority \/ try_change_schedule_policy

SchedSpec == SchedInit /\ [][SchedNext]_schedVars

(* The clock goes on interrupting programs, at every phase of its count:   *)
(* interrupts that come in ring 0 do not take all the turns.               *)
FairSchedSpec ==
  /\ SchedSpec
  /\ \A r \in 0 .. 2 * NrSched - 1 :
        SF_schedVars(Tick(TRUE) /\ ticks' % (2 * NrSched) = r)

-----------------------------------------------------------------------------
(* The process that is resumed can run: a process that blocked, was killed *)
(* or was chosen for its priority alone is never resumed.                  *)
RunsReady == state[p_proc_ready] = "ready"

(* Round robin starves nobody: as long as the policy is not SCHED_PRI,     *)
(* every process that can run gets the processor.                          *)
EveryoneRuns ==
  <>[](schedule_policy # SCHED_PRI) =>
    \A p \in Pid : state[p] = "ready" ~> (p_proc_ready = p \/ state[p] # "ready")

(* A process with a higher priority than all others.                       *)
Highest(p) ==
  /\ state[p] = "ready" /\ p \in Ranked /\ priority[p] >= MinPriority
  /\ \A o \in Ranked :
        (o # p /\ state[o] # "free") => priority[o] < priority[p]

(* SCHED_PRI starves no task and no process of the boot image, which have  *)
(* the first NrSched entries, and it runs the process that has the highest *)
(* priority, wherever the ticks wrap.                                      *)
Served(p) == state[p] = "ready" /\ (p < NrSched \/ Highest(p))

PriorityServed ==
  <>[](schedule_policy = SCHED_PRI) =>
    \A p \in Pid : Served(p) ~> (p_proc_ready = p \/ ~ Served(p))

=============================================================================
