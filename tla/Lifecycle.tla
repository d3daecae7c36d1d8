----------------------------- MODULE Lifecycle -----------------------------
(***************************************************************************)
(* The lifecycle statistics of one PCB (struct process, grass/process.h)   *)
(* on a one-core machine: creation_time, first_schedule_time,              *)
(* last_schedule_time and total_cpu_time, written by proc_alloc, by the    *)
(* dispatch at the end of proc_yield and proc_set_running, by the charges  *)
(* of intr_entry, proc_set_runnable and proc_set_pending, and read by the  *)
(* termination report of proc_free.                                        *)
(*                                                                         *)
(* Every step is a trap or a call of the kernel as this slot sees it: a    *)
(* trap taken while the slot is on the core (Timer, Ecall, Fault, and a    *)
(* kernel process's proc_sleep), or a step of the kernel while another     *)
(* process or the idle loop has the core (Alloc, Load, Dispatch, Release,  *)
(* Kill).  Which slot proc_yield picks is decided by the other slots, so   *)
(* it is a free choice here; the scan itself is module Kernel.  The slot   *)
(* is one of proc_set[1..MAX_NPROCESS-1], where the helpers find it.       *)
(*                                                                         *)
(* on_cpu is a history variable: the clock ticks this slot spent on the    *)
(* core since proc_alloc, and first_dispatch the time of its first         *)
(* dispatch.  Abstracted: timer_interrupt_count and queue_level (printed   *)
(* only; the MLFQ is module ProcTable), the wording of the report.         *)
(***************************************************************************)
EXTENDS Integers

CONSTANTS
    MaxTime,        \* bound on mtime
    USEC_PER_MS,    \* the "/ 1000" of the report: mtime is in microseconds
    RESPONSE_CAP,   \* 10000000 us (10 s) in proc_free
    INT_WIDTH       \* width of the C int the report casts to

ASSUME /\ MaxTime \in Nat \ {0} /\ USEC_PER_MS \in Nat \ {0}
       /\ RESPONSE_CAP \in Nat /\ INT_WIDTH \in Nat \ {0}

VARIABLES
    p,              \* proc_set[i]: status and the statistics fields
    on_core,        \* core_to_proc_idx[0] = i
    user,           \* pid >= GPID_USER_START (killed on a fault)
    mtime,          \* mtime_get()
    report,         \* the last termination report printed for the slot
    on_cpu,         \* history: ticks spent on the core since proc_alloc
    first_dispatch  \* history: mtime of the first dispatch since proc_alloc

vars == <<p, on_core, user, mtime, report, on_cpu, first_dispatch>>

NoReport == [turnaround |-> -1, response |-> -1, cpu |-> -1, waiting |-> -1]

(***************************************************************************)
(* The statistics code                                                     *)
(***************************************************************************)
\* Variant that charges whatever the status.
ChargeAlways(q) ==
    IF q.last_schedule_time > 0
    THEN [q EXCEPT !.total_cpu_time = @ + (mtime - q.last_schedule_time)]
    ELSE q

\* A charge of the slice since last_schedule_time, made when the slot
\* leaves RUNNING (proc_set_runnable, proc_set_pending).
ChargeIfRunning(q) ==
    IF q.status = "RUNNING" /\ q.last_schedule_time > 0
    THEN [q EXCEPT !.total_cpu_time = @ + (mtime - q.last_schedule_time)]
    ELSE q

proc_set_runnable(q) == [ChargeIfRunning(q) EXCEPT !.status = "RUNNABLE"]

proc_set_pending(q)  == [ChargeIfRunning(q) EXCEPT !.status = "PENDING_SYSCALL"]

\* The dispatch of proc_yield (first_schedule_time on the first dispatch,
\* last_schedule_time), then proc_set_running, which does the same again.
DispatchStats(q) ==
    [q EXCEPT !.first_schedule_time = IF @ = 0 THEN mtime ELSE @,
              !.last_schedule_time = mtime]

proc_set_running(q) == [DispatchStats(q) EXCEPT !.status = "RUNNING"]

\* Variant that charges without restarting the slice.
intr_entry_charge_norestart(q) ==
    [q EXCEPT !.total_cpu_time = IF q.last_schedule_time > 0
                                 THEN @ + (mtime - q.last_schedule_time) ELSE @]

\* intr_entry: charge the slice and restart it, whatever the status.
intr_entry_charge(q) ==
    [q EXCEPT !.total_cpu_time = IF q.last_schedule_time > 0
                                 THEN @ + (mtime - q.last_schedule_time) ELSE @,
              !.last_schedule_time = mtime]

proc_alloc(q) ==
    [q EXCEPT !.status = "LOADING", !.creation_time = mtime,
              !.first_schedule_time = 0, !.total_cpu_time = 0,
              !.last_schedule_time = 0]

\* (int)x: the low INT_WIDTH bits of x, two's complement.
IntCast(x) == ((x + 2^(INT_WIDTH - 1)) % 2^INT_WIDTH) - 2^(INT_WIDTH - 1)

\* A time in microseconds as the report prints it: / 1000, (int), and
\* negative values printed as 0.
Ms(x) == LET v == IntCast(x \div USEC_PER_MS) IN IF v < 0 THEN 0 ELSE v

\* Variant that clamps a response equal to the cap as well.
ReportCapInclusive(q) ==
    LET turnaround == mtime - q.creation_time
        measured   == IF q.first_schedule_time > q.creation_time
                      THEN q.first_schedule_time - q.creation_time ELSE 0
        response   == IF measured > turnaround \/ measured >= RESPONSE_CAP
                      THEN turnaround \div 2 ELSE measured
        waiting    == IF turnaround > response + q.total_cpu_time
                      THEN turnaround - response - q.total_cpu_time ELSE 0
    IN [turnaround |-> Ms(turnaround), response |-> Ms(response),
        cpu |-> Ms(q.total_cpu_time), waiting |-> Ms(waiting)]

\* The termination report of proc_free, at mtime.
Report(q) ==
    LET turnaround == mtime - q.creation_time
        measured   == IF q.first_schedule_time > q.creation_time
                      THEN q.first_schedule_time - q.creation_time ELSE 0
        response   == IF measured > turnaround \/ measured > RESPONSE_CAP
                      THEN turnaround \div 2 ELSE measured
        waiting    == IF turnaround > response + q.total_cpu_time
                      THEN turnaround - response - q.total_cpu_time ELSE 0
    IN [turnaround |-> Ms(turnaround), response |-> Ms(response),
        cpu |-> Ms(q.total_cpu_time), waiting |-> Ms(waiting)]

(***************************************************************************)
(* Steps                                                                   *)
(***************************************************************************)
Schedulable(q) == q.status \in {"READY", "RUNNABLE"}

\* The end of a trap of this slot: proc_yield picks the slot again if it
\* is schedulable, or gives the core to another slot or the idle loop.  A
\* release of the slot by the same scan (the wake rule, or a retry that
\* completes its call) is a Release and a Dispatch at the same mtime.
Yield(q) ==
    LET q1 == IF q.status = "RUNNING" THEN proc_set_runnable(q) ELSE q IN
    \/ /\ Schedulable(q1)
       /\ p' = proc_set_running(q1) /\ on_core' = TRUE
       /\ first_dispatch' = IF first_dispatch = 0 THEN mtime ELSE first_dispatch
    \/ /\ p' = q1 /\ on_core' = FALSE /\ UNCHANGED first_dispatch

\* A kernel process allocates the slot (proc_alloc).
Alloc ==
    /\ p.status = "UNUSED"
    /\ p' = proc_alloc(p)
    /\ user' \in BOOLEAN
    /\ on_cpu' = 0 /\ first_dispatch' = 0
    /\ UNCHANGED <<on_core, mtime, report>>

\* The loader marks it READY (proc_set_ready).
Load ==
    /\ p.status = "LOADING"
    /\ p' = [p EXCEPT !.status = "READY"]
    /\ UNCHANGED <<on_core, user, mtime, report, on_cpu, first_dispatch>>

\* The proc_yield of another process's trap, or of the idle core, picks it.
Dispatch ==
    /\ ~on_core /\ Schedulable(p)
    /\ p' = proc_set_running(p) /\ on_core' = TRUE
    /\ first_dispatch' = IF first_dispatch = 0 THEN mtime ELSE first_dispatch
    /\ UNCHANGED <<user, mtime, report, on_cpu>>

\* The proc_yield of another trap releases it: the wake rule, or
\* proc_try_recv completing its call (proc_set_runnable of a blocked slot
\* charges nothing).
Release ==
    /\ ~on_core /\ p.status = "PENDING_SYSCALL"
    /\ p' = proc_set_runnable(p)
    /\ UNCHANGED <<on_core, user, mtime, report, on_cpu, first_dispatch>>

\* intr_entry on the core it holds.
Timer ==
    /\ on_core
    /\ Yield(intr_entry_charge(p))
    /\ UNCHANGED <<user, mtime, report, on_cpu>>

\* excp_entry(ECALL): proc_set_pending, one try of the call, proc_yield.
\* A kernel process that slept is PENDING_SYSCALL already.
Ecall ==
    /\ on_core
    /\ Yield(proc_set_pending(p))
    /\ UNCHANGED <<user, mtime, report, on_cpu>>

\* A kernel process calls proc_sleep: PENDING_SYSCALL, still on the core.
Sleep ==
    /\ on_core /\ ~user /\ p.status = "RUNNING"
    /\ p' = [p EXCEPT !.status = "PENDING_SYSCALL"]
    /\ UNCHANGED <<on_core, user, mtime, report, on_cpu, first_dispatch>>

\* proc_free of the slot: the report, then UNUSED.
Free ==
    /\ report' = Report(p)
    /\ p' = [p EXCEPT !.status = "UNUSED", !.termination_time = mtime]
    /\ on_core' = FALSE
    /\ UNCHANGED <<user, mtime, on_cpu, first_dispatch>>

\* excp_entry(fault) of a user process: proc_free(curr_pid), proc_yield.
Fault == on_core /\ user /\ Free

\* A kernel process on the core calls proc_free(pid) or proc_free(GPID_ALL).
Kill == ~on_core /\ user /\ p.status # "UNUSED" /\ Free

Tick ==
    /\ mtime < MaxTime
    /\ mtime' = mtime + 1
    /\ on_cpu' = IF on_core THEN on_cpu + 1 ELSE on_cpu
    /\ UNCHANGED <<p, on_core, user, report, first_dispatch>>

Init ==
    /\ p = [status |-> "UNUSED", creation_time |-> 0, first_schedule_time |-> 0,
            last_schedule_time |-> 0, total_cpu_time |-> 0, termination_time |-> 0]
    /\ on_core = FALSE /\ user = TRUE
    /\ mtime = 1
    /\ report = NoReport
    /\ on_cpu = 0 /\ first_dispatch = 0

Next == Alloc \/ Load \/ Dispatch \/ Release \/ Timer \/ Ecall \/ Sleep
        \/ Fault \/ Kill \/ Tick

Spec == Init /\ [][Next]_vars

(***************************************************************************)
(* Properties                                                              *)
(***************************************************************************)
TypeOK ==
    /\ p.status \in {"UNUSED", "LOADING", "READY", "RUNNING", "RUNNABLE", "PENDING_SYSCALL"}
    /\ {p.creation_time, p.first_schedule_time, p.last_schedule_time,
        p.termination_time, p.total_cpu_time} \subseteq 0..MaxTime
    /\ on_core \in BOOLEAN /\ user \in BOOLEAN
    /\ mtime \in 1..MaxTime
    /\ on_cpu \in 0..MaxTime /\ first_dispatch \in 0..MaxTime

\* CPU accounting: total_cpu_time is charged at three places (intr_entry,
\* proc_set_runnable, proc_set_pending) from the one last_schedule_time,
\* which only the dispatch and intr_entry restart.  Whatever order the
\* traps, sleeps, releases and re-dispatches come in, the slot is never
\* charged more CPU time than it spent on the core.
CpuNeverOvercharged == p.total_cpu_time <= on_cpu

\* Response time (spec 4.2 and scenario 6): the report of a freed process
\* never states a response longer than its turnaround, and when the
\* measured response (first dispatch - creation) is within the 10 s cap it
\* states exactly that one, though the cap then replaces it by half the
\* turnaround above the cap.
ResponseAsMeasured ==
    (p.status = "UNUSED" /\ report # NoReport) =>
        LET measured == IF first_dispatch > p.creation_time
                        THEN first_dispatch - p.creation_time ELSE 0
        IN /\ report.response <= report.turnaround
           /\ measured <= RESPONSE_CAP => report.response = Ms(measured)
=============================================================================
