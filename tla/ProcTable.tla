----------------------------- MODULE ProcTable -----------------------------
(***************************************************************************)
(* The process table of grass/process.c and the MLFQ policy that lives in  *)
(* the same file.  Every C function that changes the table is an operator  *)
(* from a kernel-state record k to the record after the call, so that the  *)
(* dispatcher of grass/kernel.c (module Kernel) can chain the calls in the *)
(* order its handlers make them.  The fields of k are the variables of     *)
(* module Kernel: proc_set[] split into one function per PCB field,        *)
(* core_to_proc_idx[], the static counters of proc_alloc and               *)
(* mlfq_reset_level, the clock mtime and the halted flag set by FATAL.     *)
(*                                                                         *)
(* Abstracted: the lifecycle statistics (creation/first-schedule/          *)
(* termination time, total_cpu_time, timer_interrupt_count) and the        *)
(* termination report, saved registers and mepc, MMU calls.  They are      *)
(* written by the same lines but read by nothing that decides control.    *)
(***************************************************************************)
EXTENDS Integers, FiniteSets, FiniteSetsExt

CONSTANTS
    MAX_NPROCESS,       \* process.h: proc_set has MAX_NPROCESS + 1 slots
    MLFQ_NLEVELS,       \* process.c: number of MLFQ levels
    QUANTUM,            \* MLFQ_LEVEL_RUNTIME(0), 100000 us in the source
    MLFQ_RESET_PERIOD,  \* process.c: 10000000 us in the source
    GPID_ALL,           \* wildcard pid of RECV and proc_free
    GPID_SHELL,         \* pid boosted on keyboard input
    GPID_USER_START,    \* first pid run in user mode
    MaxPid,             \* bound: number of pids proc_alloc may hand out
    Msgs,               \* abstract message payloads
    NoMsg               \* payload of a record that carries none

ASSUME MAX_NPROCESS \in Nat \ {0} /\ MLFQ_NLEVELS \in Nat \ {0}
ASSUME GPID_ALL \notin 0..MaxPid /\ GPID_USER_START \in 1..(MaxPid + 1)

Slots       == 0..MAX_NPROCESS          \* proc_set[0..MAX_NPROCESS]; 0 is the idle slot
Pids        == 1..MaxPid
\* The index range of every helper loop in process.c and of proc_try_send:
\* for (uint i = 0; i < MAX_NPROCESS; i++)
HelperRange == 0..(MAX_NPROCESS - 1)

Statuses == {"UNUSED", "LOADING", "READY", "RUNNING", "RUNNABLE", "PENDING_SYSCALL"}

\* struct syscall: type, sender, receiver, status, content[SYSCALL_MSG_LEN]
SyscallRecords ==
    [type: {"UNUSED", "SEND", "RECV"}, sender: {GPID_ALL, 0} \cup Pids,
     receiver: {0} \cup Pids, status: {"PENDING", "DONE"}, content: Msgs \cup {NoMsg}]

\* A zero-initialised struct syscall (type 0 is neither SEND nor RECV).
ZeroSyscall == [type |-> "UNUSED", sender |-> 0, receiver |-> 0,
                status |-> "PENDING", content |-> NoMsg]

\* MLFQ_LEVEL_RUNTIME(x): quantum of level x
MLFQ_LEVEL_RUNTIME(x) == (x + 1) * QUANTUM

Halt(k) == [k EXCEPT !.halted = TRUE]       \* FATAL(...)

\* The first slot in the helpers' range holding pid p, or -1.  The helpers
\* match on pid only, whatever the slot's status.
FirstSlot(k, p) ==
    LET S == {i \in HelperRange : k.pid[i] = p} IN IF S = {} THEN -1 ELSE Min(S)

(***************************************************************************)
(* MLFQ (process.c)                                                        *)
(***************************************************************************)
\* Variant without the bottom-level early return.
mlfq_update_level_nocap(k, i, runtime) ==
    LET t == k.queue_time[i] + runtime IN
    IF t >= MLFQ_LEVEL_RUNTIME(k.queue_level[i])
    THEN [k EXCEPT !.queue_level[i] = @ + 1, !.queue_time[i] = 0]
    ELSE [k EXCEPT !.queue_time[i] = t]

mlfq_update_level(k, i, runtime) ==
    IF k.queue_level[i] >= MLFQ_NLEVELS - 1 THEN k
    ELSE LET t == k.queue_time[i] + runtime IN
         IF t >= MLFQ_LEVEL_RUNTIME(k.queue_level[i])
         THEN [k EXCEPT !.queue_level[i] = @ + 1, !.queue_time[i] = 0]
         ELSE [k EXCEPT !.queue_time[i] = t]

mlfq_reset_level(k) ==
    LET shell  == {i \in HelperRange : k.pid[i] = GPID_SHELL /\ k.status[i] # "UNUSED"}
        kb     == IF k.tty_input /\ shell # {}
                  THEN [k EXCEPT !.queue_level[Min(shell)] = 0, !.queue_time[Min(shell)] = 0]
                  ELSE k
        live   == {i \in HelperRange : kb.status[i] # "UNUSED"}
    IN IF k.mtime - k.MLFQ_last_reset_time >= MLFQ_RESET_PERIOD
       THEN [kb EXCEPT
               !.queue_level = [i \in Slots |-> IF i \in live THEN 0 ELSE @[i]],
               !.queue_time  = [i \in Slots |-> IF i \in live THEN 0 ELSE @[i]],
               !.MLFQ_last_reset_time = k.mtime]
       ELSE kb

(***************************************************************************)
(* Status helpers (process.c)                                              *)
(***************************************************************************)
\* Variant that charges whatever the status.
ChargeAlways(k, i) ==
    IF k.last_schedule_time[i] > 0
    THEN mlfq_update_level(k, i, k.mtime - k.last_schedule_time[i])
    ELSE k

\* Leaving RUNNING charges mtime - last_schedule_time to the MLFQ level
\* (and to total_cpu_time, abstracted).
ChargeIfRunning(k, i) ==
    IF k.status[i] = "RUNNING" /\ k.last_schedule_time[i] > 0
    THEN mlfq_update_level(k, i, k.mtime - k.last_schedule_time[i])
    ELSE k

proc_set_status(k, p, s) ==
    [k EXCEPT !.status = [i \in Slots |->
                            IF i \in HelperRange /\ k.pid[i] = p THEN s ELSE @[i]]]

proc_set_ready(k, p) ==
    LET i == FirstSlot(k, p) IN
    IF i < 0 THEN k ELSE [k EXCEPT !.status[i] = "READY"]

proc_set_running(k, p) ==
    LET i == FirstSlot(k, p) IN
    IF i < 0 THEN k
    ELSE [k EXCEPT !.last_schedule_time[i] = k.mtime, !.status[i] = "RUNNING"]

proc_set_runnable(k, p) ==
    LET i == FirstSlot(k, p) IN
    IF i < 0 THEN k ELSE [ChargeIfRunning(k, i) EXCEPT !.status[i] = "RUNNABLE"]

proc_set_pending(k, p) ==
    LET i == FirstSlot(k, p) IN
    IF i < 0 THEN k ELSE [ChargeIfRunning(k, i) EXCEPT !.status[i] = "PENDING_SYSCALL"]

(***************************************************************************)
(* Allocation and termination (process.c)                                  *)
(***************************************************************************)
\* The first UNUSED slot in 1..MAX_NPROCESS gets pid ++curr_pid.  The
\* syscall record of the slot is not reset.
proc_alloc(k) ==
    LET free == {i \in 1..MAX_NPROCESS : k.status[i] = "UNUSED"} IN
    IF free = {} THEN Halt(k)
    ELSE LET i == Min(free) IN
         [k EXCEPT !.pid[i] = k.curr_pid + 1, !.status[i] = "LOADING",
                   !.queue_level[i] = 0, !.queue_time[i] = 0,
                   !.last_schedule_time[i] = 0, !.wakeup_time[i] = 0,
                   !.curr_pid = k.curr_pid + 1]

\* Bind(val, Op) is Op(val), with val evaluated once.  When TLC computes
\* ENABLED it re-evaluates a LET or an operator argument at every use, so
\* the record chains of proc_yield pass their intermediate records on
\* through a bound variable, whose value is computed once.
Bind(val, Op(_)) == CHOOSE r \in {Op(v) : v \in {val}} : TRUE

\* proc_sleep(pid, usec): the first live slot of pid blocks until
\* mtime + usec.  Its syscall record is left as it is.
proc_sleep(k, p, usec) ==
    LET S == {i \in HelperRange : k.pid[i] = p /\ k.status[i] # "UNUSED"} IN
    IF S = {} THEN k
    ELSE [k EXCEPT !.wakeup_time[Min(S)] = k.mtime + usec,
                   !.status[Min(S)] = "PENDING_SYSCALL"]

\* proc_free(pid) for one pid, or for every user pid when pid = GPID_ALL.
\* The statistics report and mmu_free are abstracted.
proc_free(k, p) ==
    IF p # GPID_ALL
    THEN IF \E i \in HelperRange : k.pid[i] = p /\ k.status[i] # "UNUSED"
         THEN proc_set_status(k, p, "UNUSED")
         ELSE k
    ELSE [k EXCEPT !.status = [i \in Slots |->
            IF i \in HelperRange /\ k.pid[i] >= GPID_USER_START /\ @[i] # "UNUSED"
            THEN "UNUSED" ELSE @[i]]]
=============================================================================
