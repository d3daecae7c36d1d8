------------------------------- MODULE Kernel -------------------------------
(***************************************************************************)
(* The trap dispatcher of grass/kernel.c: kernel_entry, excp_entry,        *)
(* intr_entry, proc_yield and the IPC engine proc_try_send, proc_try_recv, *)
(* proc_try_syscall, on NCORES cores serialised by the kernel lock (every  *)
(* trap is one atomic step).  Around the kernel: the processes running on  *)
(* the cores (system calls, faults), the kernel processes that call        *)
(* proc_alloc / proc_set_ready / proc_free directly, the timer, the clock  *)
(* and the keyboard.                                                       *)
(***************************************************************************)
EXTENDS ProcTable

CONSTANTS
    Cores,      \* the harts, 0..NCORES-1
    MaxTime,    \* bound on mtime
    Peers,      \* the pids that processes name in SEND and RECV
    SleepTimes  \* the usec arguments a kernel process passes to proc_sleep

ASSUME Peers \subseteq Pids /\ SleepTimes \subseteq Nat \ {0}

VARIABLES
    status, pid, syscall,                               \* proc_set[i] fields
    queue_level, queue_time, last_schedule_time, wakeup_time,
    core_to_proc_idx,
    curr_pid,               \* static counter of proc_alloc
    MLFQ_last_reset_time,   \* static of mlfq_reset_level
    mtime,                  \* mtime_get()
    tty_input,              \* ~earth->tty_input_empty()
    mtip,                   \* per core: timer interrupt pending (mip.MTIP)
    halted,                 \* a FATAL was reached
    inbox,                  \* syscall record in user space at SYSCALL_ARG, per pid
    want                    \* history: what last blocked each pid: the sender
                            \* filter of a RECV, 0 for a SEND, SLEEPING for proc_sleep

kvars == <<status, pid, syscall, queue_level, queue_time, last_schedule_time,
           wakeup_time, core_to_proc_idx, curr_pid, MLFQ_last_reset_time,
           mtime, tty_input, halted, inbox>>
vars == <<kvars, mtip, want>>

\* The kernel state as a record, for the sequential operators of ProcTable.
Sigma == [status |-> status, pid |-> pid, syscall |-> syscall,
          queue_level |-> queue_level, queue_time |-> queue_time,
          last_schedule_time |-> last_schedule_time, wakeup_time |-> wakeup_time,
          core_to_proc_idx |-> core_to_proc_idx, curr_pid |-> curr_pid,
          MLFQ_last_reset_time |-> MLFQ_last_reset_time, mtime |-> mtime,
          tty_input |-> tty_input, halted |-> halted, inbox |-> inbox]

Commit(k) ==
    /\ status' = k.status /\ pid' = k.pid /\ syscall' = k.syscall
    /\ queue_level' = k.queue_level /\ queue_time' = k.queue_time
    /\ last_schedule_time' = k.last_schedule_time /\ wakeup_time' = k.wakeup_time
    /\ core_to_proc_idx' = k.core_to_proc_idx /\ curr_pid' = k.curr_pid
    /\ MLFQ_last_reset_time' = k.MLFQ_last_reset_time
    /\ mtime' = k.mtime /\ tty_input' = k.tty_input
    /\ halted' = k.halted /\ inbox' = k.inbox

(***************************************************************************)
(* IPC engine                                                              *)
(***************************************************************************)
\* The first live slot of the named receiver decides; an unknown receiver
\* is fatal.  A match overwrites the receiver's record in the kernel PCB.
proc_try_send(k, s) ==
    LET dst == {i \in HelperRange : k.pid[i] = k.syscall[s].receiver
                                    /\ k.status[i] # "UNUSED"}
    IN IF dst = {} THEN Halt(k)
       ELSE LET d == Min(dst)
                r == k.syscall[d]
            IN IF ~(r.type = "RECV" /\ r.status = "PENDING") THEN k
               ELSE IF ~(r.sender \in {GPID_ALL, k.pid[s]}) THEN k
               ELSE [k EXCEPT !.syscall[d] = [@ EXCEPT !.status = "DONE",
                                 !.sender = k.pid[s], !.content = k.syscall[s].content]]

\* Variant without the early return on a still PENDING record.
proc_try_recv_nocheck(k, r) ==
    LET k1 == [k EXCEPT !.inbox[k.pid[r]] = k.syscall[r]]
    IN proc_set_runnable(proc_set_runnable(k1, k.pid[r]), k.syscall[r].sender)

\* A completed RECV is copied back to user space and both ends are released.
proc_try_recv(k, r) ==
    IF k.syscall[r].status = "PENDING" THEN k
    ELSE Bind(proc_set_runnable([k EXCEPT !.inbox[k.pid[r]] = k.syscall[r]], k.pid[r]),
              LAMBDA k1 : proc_set_runnable(k1, k.syscall[r].sender))

proc_try_syscall(k, i) ==
    CASE k.syscall[i].type = "RECV" -> proc_try_recv(k, i)
      [] k.syscall[i].type = "SEND" -> proc_try_send(k, i)
      [] OTHER                      -> Halt(k)

(***************************************************************************)
(* proc_yield                                                              *)
(***************************************************************************)
Schedulable(k, i) == k.status[i] \in {"READY", "RUNNABLE"}
Sleeping(k, i)    == k.wakeup_time[i] > 0 /\ k.mtime < k.wakeup_time[i]

\* Variant that clears wakeup_time but leaves the slot blocked.
WakeIfDueNoStatus(k, i) ==
    IF k.status[i] = "PENDING_SYSCALL" /\ k.wakeup_time[i] > 0
       /\ k.mtime >= k.wakeup_time[i]
    THEN [k EXCEPT !.wakeup_time[i] = 0]
    ELSE k

WakeIfDue(k, i) ==
    IF k.status[i] = "PENDING_SYSCALL" /\ k.wakeup_time[i] > 0
       /\ k.mtime >= k.wakeup_time[i]
    THEN [k EXCEPT !.wakeup_time[i] = 0, !.status[i] = "RUNNABLE"]
    ELSE k

\* Variant that retries blocked senders only.
RetrySendsOnly(k, i) ==
    IF k.status[i] = "PENDING_SYSCALL" /\ k.syscall[i].type = "SEND"
    THEN proc_try_syscall(k, i) ELSE k

RetryIfPending(k, i) ==
    IF k.status[i] = "PENDING_SYSCALL" THEN proc_try_syscall(k, i) ELSE k

\* First loop of proc_yield: wake, retry the pending syscall, then take slot
\* i if it beats the best level so far.  Returns <<k, next_idx>>.
RECURSIVE LevelScan(_, _, _, _)
LevelScan(k, i, next, min) ==
    IF i > MAX_NPROCESS \/ k.halted THEN <<k, next>>
    ELSE Bind(WakeIfDue(k, i), LAMBDA kw : Bind(RetryIfPending(kw, i), LAMBDA k1 :
           LET take == ~Sleeping(k1, i) /\ Schedulable(k1, i) /\ k1.queue_level[i] < min
           IN LevelScan(k1, i + 1, IF take THEN i ELSE next,
                        IF take THEN k1.queue_level[i] ELSE min)))

\* Variant of the second loop without the skip of sleeping slots.
RECURSIVE FallbackScanNoSkip(_, _)
FallbackScanNoSkip(k, i) ==
    IF i > MAX_NPROCESS \/ k.halted THEN <<k, MAX_NPROCESS>>
    ELSE Bind(RetryIfPending(k, i), LAMBDA k1 :
           IF Schedulable(k1, i) THEN <<k1, i>> ELSE FallbackScanNoSkip(k1, i + 1))

\* Second loop: retry, then the first schedulable slot (break).
RECURSIVE FallbackScan(_, _)
FallbackScan(k, i) ==
    IF i > MAX_NPROCESS \/ k.halted THEN <<k, MAX_NPROCESS>>
    ELSE Bind(RetryIfPending(k, i), LAMBDA k1 :
           IF ~Sleeping(k1, i) /\ Schedulable(k1, i) THEN <<k1, i>>
           ELSE FallbackScan(k1, i + 1))

\* MAX_NPROCESS doubles as "none found", so next_idx = MAX_NPROCESS idles.
proc_yield(k, c) ==
    LET cur == k.core_to_proc_idx[c] IN
    Bind(IF k.status[cur] = "RUNNING" THEN proc_set_runnable(k, k.pid[cur]) ELSE k, LAMBDA k1 :
    Bind(LevelScan(mlfq_reset_level(k1), 1, MAX_NPROCESS, MLFQ_NLEVELS), LAMBDA s1 :
    Bind(IF s1[2] = MAX_NPROCESS THEN FallbackScan(s1[1], 1) ELSE s1, LAMBDA s2 :
    LET k2  == s2[1]
        nxt == s2[2]
    IN IF k2.halted THEN k2
       ELSE IF nxt < MAX_NPROCESS
       THEN proc_set_running([k2 EXCEPT !.last_schedule_time[nxt] = k2.mtime,
                                        !.core_to_proc_idx[c] = nxt], k2.pid[nxt])
       ELSE [k2 EXCEPT !.core_to_proc_idx[c] = 0])))

(***************************************************************************)
(* Traps                                                                   *)
(***************************************************************************)
\* System-call records a process can place at SYSCALL_ARG.
SendCalls == [type: {"SEND"}, sender: {0}, receiver: Peers,
              status: {"PENDING"}, content: Msgs]
RecvCalls == [type: {"RECV"}, sender: {GPID_ALL} \cup Peers, receiver: {0},
              status: {"PENDING"}, content: {NoMsg}]

Running(c) == core_to_proc_idx[c] # 0

\* excp_entry(ECALL): copy the record in, block the caller, try the call
\* once, yield.
Ecall(c, call) ==
    LET i  == core_to_proc_idx[c]
        k1 == proc_set_pending([Sigma EXCEPT !.syscall[i] = call], pid[i])
        k2 == proc_try_syscall(k1, i)
    IN /\ ~halted /\ Running(c)
       /\ Commit(IF k2.halted THEN k2 ELSE proc_yield(k2, c))
       /\ want' = [want EXCEPT ![pid[i]] = call.sender]
       /\ UNCHANGED mtip

\* excp_entry(other): a user process is killed and the core yields.
\* (A kernel-mode process never faults here; that path is FATAL.)
Fault(c) ==
    LET i == core_to_proc_idx[c] IN
    /\ ~halted /\ Running(c) /\ pid[i] >= GPID_USER_START
    /\ Commit(proc_yield(proc_free(Sigma, pid[i]), c))
    /\ UNCHANGED <<mtip, want>>

\* intr_entry(INTR_ID_TIMER): charge the slice since last_schedule_time,
\* restart the slice, yield.  Also taken by an idle core (index 0).
Timer(c) ==
    LET i  == core_to_proc_idx[c]
        k1 == IF i > 0 /\ i <= MAX_NPROCESS
              THEN LET kc == IF last_schedule_time[i] > 0
                             THEN mlfq_update_level(Sigma, i, mtime - last_schedule_time[i])
                             ELSE Sigma
                   IN [kc EXCEPT !.last_schedule_time[i] = mtime]
              ELSE Sigma
    IN /\ ~halted /\ mtip[c]
       /\ \E k \in {k1} : \E k2 \in {proc_yield(k, c)} : Commit(k2)
       /\ mtip' = [mtip EXCEPT ![c] = FALSE]
       /\ UNCHANGED want

\* kernel_entry on core c, under the kernel lock (one trap at a time): by
\* mcause, an interrupt goes to intr_entry and an exception to excp_entry
\* (an ECALL or a fault).  Saving and restoring mepc and the registers of
\* the process around the handler moves no state the model keeps.
kernel_entry(c) ==
    \/ \E call \in SendCalls \cup RecvCalls : Ecall(c, call)
    \/ Fault(c)
    \/ Timer(c)

(***************************************************************************)
(* Kernel-mode processes calling the grass interface                       *)
(***************************************************************************)
RunsKernelProcess(c) ==
    /\ Running(c)
    /\ pid[core_to_proc_idx[c]] < GPID_USER_START
    /\ status[core_to_proc_idx[c]] = "RUNNING"

Spawn(c) ==
    /\ ~halted /\ RunsKernelProcess(c) /\ curr_pid < MaxPid
    /\ Commit(proc_alloc(Sigma))
    /\ UNCHANGED <<mtip, want>>

\* The loader marks a process it has loaded READY.
Load(c, p) ==
    /\ ~halted /\ RunsKernelProcess(c)
    /\ \E i \in 1..MAX_NPROCESS : pid[i] = p /\ status[i] = "LOADING"
    /\ Commit(proc_set_ready(Sigma, p))
    /\ UNCHANGED <<mtip, want>>

\* proc_free(p) of a user pid, or proc_free(GPID_ALL).
Kill(c, p) ==
    /\ ~halted /\ RunsKernelProcess(c)
    /\ Commit(proc_free(Sigma, p))
    /\ UNCHANGED <<mtip, want>>

SLEEPING == -1

\* A kernel process puts itself to sleep.  It goes on running until the
\* next trap of its core, whose proc_yield finds it PENDING_SYSCALL.  The
\* model's clock stops at MaxTime, so only sleeps that end by then are made.
Sleep(c, u) ==
    /\ ~halted /\ RunsKernelProcess(c) /\ mtime + u <= MaxTime
    /\ Commit(proc_sleep(Sigma, pid[core_to_proc_idx[c]], u))
    /\ want' = [want EXCEPT ![pid[core_to_proc_idx[c]]] = SLEEPING]
    /\ UNCHANGED mtip

(***************************************************************************)
(* Environment                                                             *)
(***************************************************************************)
\* The timer of core c expires (the deadline set by earth->timer_reset).
TimerExpires(c) ==
    /\ ~halted /\ ~mtip[c]
    /\ mtip' = [mtip EXCEPT ![c] = TRUE]
    /\ UNCHANGED <<kvars, want>>

Tick ==
    /\ ~halted /\ mtime < MaxTime
    /\ mtime' = mtime + 1
    /\ UNCHANGED <<status, pid, syscall, queue_level, queue_time, last_schedule_time,
                   wakeup_time, core_to_proc_idx, curr_pid, MLFQ_last_reset_time,
                   tty_input, halted, inbox, mtip, want>>

KeyPress ==
    /\ ~halted
    /\ tty_input' = ~tty_input
    /\ UNCHANGED <<status, pid, syscall, queue_level, queue_time, last_schedule_time,
                   wakeup_time, core_to_proc_idx, curr_pid, MLFQ_last_reset_time,
                   mtime, halted, inbox, mtip, want>>

\* FATAL halts the machine for good.
Halted == halted /\ UNCHANGED vars

(***************************************************************************)
(* Specification                                                           *)
(***************************************************************************)
\* Boot has loaded the first process (pid 1, a kernel process) into slot 1;
\* every core waits for its first timer interrupt.  mtime is past 0.
Init ==
    /\ status = [i \in Slots |-> IF i = 1 THEN "READY" ELSE "UNUSED"]
    /\ pid = [i \in Slots |-> IF i = 1 THEN 1 ELSE 0]
    /\ syscall = [i \in Slots |-> ZeroSyscall]
    /\ queue_level = [i \in Slots |-> 0]
    /\ queue_time = [i \in Slots |-> 0]
    /\ last_schedule_time = [i \in Slots |-> 0]
    /\ wakeup_time = [i \in Slots |-> 0]
    /\ core_to_proc_idx = [c \in Cores |-> 0]
    /\ curr_pid = 1
    /\ MLFQ_last_reset_time = 0
    /\ mtime = 1
    /\ tty_input = FALSE
    /\ halted = FALSE
    /\ inbox = [p \in Pids |-> ZeroSyscall]
    /\ want = [p \in Pids |-> GPID_ALL]
    /\ mtip = [c \in Cores |-> FALSE]

Next ==
    \/ \E c \in Cores :
          \/ kernel_entry(c)
          \/ TimerExpires(c)
          \/ Spawn(c)
          \/ \E p \in Pids : Load(c, p)
          \/ \E p \in (GPID_USER_START..MaxPid) \cup {GPID_ALL} : Kill(c, p)
          \/ \E u \in SleepTimes : Sleep(c, u)
    \/ Tick
    \/ KeyPress
    \/ Halted

Spec == Init /\ [][Next]_vars

\* The hardware timer keeps interrupting every core: timer_reset arms it at
\* every dispatch and before wfi, so a core whose timer is not pending gets
\* one (TimerExpires), and the trap of a pending timer is taken as soon as
\* the kernel lock is free (Timer); neither step is ever disabled by
\* another core.  mtime is a hardware counter, so it keeps advancing (Tick,
\* up to the model's bound).  Processes and kernel processes get no
\* fairness.
Fairness ==
    /\ \A c \in Cores : WF_vars(TimerExpires(c)) /\ WF_vars(Timer(c))
    /\ WF_vars(Tick)

FairSpec == Spec /\ Fairness

(***************************************************************************)
(* Properties                                                              *)
(***************************************************************************)
TypeOK ==
    /\ status \in [Slots -> Statuses]
    /\ pid \in [Slots -> 0..MaxPid]
    /\ syscall \in [Slots -> SyscallRecords]
    /\ queue_level \in [Slots -> 0..(MLFQ_NLEVELS - 1)]
    /\ queue_time \in [Slots -> 0..MaxTime]
    /\ last_schedule_time \in [Slots -> 0..MaxTime]
    /\ wakeup_time \in [Slots -> Nat]
    /\ core_to_proc_idx \in [Cores -> Slots]
    /\ curr_pid \in 1..MaxPid
    /\ mtime \in 1..MaxTime
    /\ halted \in BOOLEAN
    /\ mtip \in [Cores -> BOOLEAN]
    /\ inbox \in [Pids -> SyscallRecords]

\* IPC refinement (spec 4.5): the kernel implements the rendez-vous of
\* module IPC.  A pid's request is the record of its PENDING_SYSCALL slot
\* (the filter of a RECV from the history want, since proc_try_send
\* overwrites it), and its box is the record proc_try_recv copied to its
\* user space.  A pid whose last blocking call was proc_sleep is asleep,
\* not in a request.  Every trap must be one IPC step: a SEND and a RECV are
\* completed together, only when they match, exactly once, and a request
\* is dropped only when its process is freed (IPC's Exit, which the
\* mapping of alive to the pids of live slots ties to proc_free).
ReqOf(p) ==
    LET S == {i \in Slots : pid[i] = p /\ status[i] = "PENDING_SYSCALL"}
        r == syscall[Min(S)]
    IN IF S = {} \/ want[p] = SLEEPING THEN [kind |-> "IDLE", peer |-> GPID_ALL, msg |-> NoMsg]
       ELSE IF r.type = "SEND"
       THEN [kind |-> "SEND", peer |-> r.receiver, msg |-> r.content]
       ELSE [kind |-> "RECV", peer |-> want[p], msg |-> NoMsg]

Req == [p \in Pids |-> ReqOf(p)]

IPCAbs == INSTANCE IPC WITH Procs <- Pids, ALL <- GPID_ALL, req <- Req,
              box <- [p \in Pids |-> [from |-> inbox[p].sender, msg |-> inbox[p].content]],
              alive <- {p \in Pids : \E i \in Slots : pid[i] = p /\ status[i] # "UNUSED"}

IPCRefines == IPCAbs!Spec

\* MLFQ: only a process that was on a core when the step began is charged
\* CPU time and demoted (intr_entry, and proc_set_runnable/pending when the
\* process leaves RUNNING); a blocked or waiting process never loses its
\* level through someone else's trap.
DemotionOnlyByOwnCPU ==
    [][\A i \in Slots :
         queue_level'[i] > queue_level[i] => \E c \in Cores : core_to_proc_idx[c] = i]_vars

\* IPC progress (spec 4.5): matching is level-triggered, so once a SEND
\* and a RECV that match are both blocked, the retries of later yields
\* complete them under the timer's fairness, unless one of the two dies
\* or the kernel halts.  Taking two yields when proc_try_send marks a
\* receiver scanned earlier.
RendezvousCompletes ==
    \A s, r \in Pids :
        IPCAbs!Matches(Req, s, r) ~> (~IPCAbs!Matches(Req, s, r) \/ halted)

\* proc_free (spec 4.2): after proc_free(p) no live slot holds p, and after
\* proc_free(GPID_ALL) no live slot holds a user pid.
KillFreesProcess ==
    [][\A c \in Cores, p \in Pids \cup {GPID_ALL} :
         Kill(c, p) =>
            \A i \in Slots : (IF p = GPID_ALL THEN pid'[i] >= GPID_USER_START ELSE pid'[i] = p)
                             => status'[i] = "UNUSED"]_vars

\* Lifecycle (spec 3): a slot leaves UNUSED only through proc_alloc, which
\* makes it LOADING under a fresh pid; a freed process never comes back.
NoResurrection ==
    [][\A i \in 1..MAX_NPROCESS :
         (status[i] = "UNUSED" /\ status'[i] # "UNUSED")
            => (status'[i] = "LOADING" /\ pid'[i] > pid[i])]_vars

\* Selection (spec 4.3/4.4): after a yield on core c the core runs a
\* schedulable process of the smallest queue_level, or idles only when no
\* process is schedulable.  The spec retries every pending syscall before
\* selecting; the code retries and selects in one loop.
SchedulableNow(y) == status[y] \in {"READY", "RUNNABLE"}
                     /\ ~(wakeup_time[y] > 0 /\ mtime < wakeup_time[y])

PickIsBest(c) ==
    LET x == core_to_proc_idx[c] IN
    IF x = 0 THEN \A y \in 1..MAX_NPROCESS : ~SchedulableNow(y)
    ELSE \A y \in 1..MAX_NPROCESS : SchedulableNow(y) => queue_level[y] >= queue_level[x]

DispatchHonoursPriority ==
    [][\A c \in Cores : (kernel_entry(c) /\ ~halted') => PickIsBest(c)']_vars

\* Sleep lower bound (spec 6): a process that called proc_sleep(u) at time
\* t is not dispatched before t + u.  The wake-up test runs before the
\* retry of the pending syscall, and a retry can make the sleeper RUNNABLE
\* (a stale record released by its peer), so it is the skip in both scan
\* loops of proc_yield that must keep it off the cores.
SleepLowerBound ==
    \A c \in Cores :
        LET i == core_to_proc_idx[c] IN
        (i # 0 /\ status[i] = "RUNNING") => ~(wakeup_time[i] > 0 /\ mtime < wakeup_time[i])

\* Sleep wake-up (spec 8, scenario 4): a process asleep in proc_sleep is
\* made RUNNABLE by the first yield at or after its wakeup_time, whatever
\* its stale syscall record does in the retries, unless it is freed or the
\* kernel halts.
AsleepAt(i) == status[i] = "PENDING_SYSCALL" /\ want[pid[i]] = SLEEPING

SleeperWakes == \A i \in 1..MAX_NPROCESS : AsleepAt(i) ~> (~AsleepAt(i) \/ halted)

\* Spec 9 and 7: a sender whose receiver dies stays blocked, and a sleep
\* that has not elapsed is transient blocking; FATAL is kept for a SEND
\* naming a pid that does not exist.  So a step may halt the kernel only
\* as the system call of a process that names a pid no live slot holds,
\* never in the retries of proc_yield for a process blocked earlier.
NoSlotHolds(p) == ~\E i \in 1..MAX_NPROCESS : pid[i] = p /\ status[i] # "UNUSED"

HaltsOnlyOnUnknownReceiver ==
    [][(~halted /\ halted') =>
         \E c \in Cores, call \in SendCalls : Ecall(c, call) /\ NoSlotHolds(call.receiver)]_vars
=============================================================================
