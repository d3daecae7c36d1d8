# TLA+ models of the egos-2001 kernel core

These modules model the kernel core under `src/grass/`:

- the trap dispatcher (`kernel.c`);
- the process table with its MLFQ policy (`process.c`, `process.h`);
- the synchronous SEND/RECV message passing (`kernel.c`);
- the per-process lifecycle statistics and the termination report (`process.c`, `kernel.c`).

The TLC runs check the core's safety and progress properties. They also show seven places where the code disagrees with `spec.md`.

## The system

| Part | Source | State | Operations |
|---|---|---|---|
| C1 time and HAL shim | `kernel.c` (`kernel_entry`), earth | `mtime`, tty buffer, timer | `mtime_get`, `timer_reset`, `tty_input_empty`, MMU calls |
| C2 process table | `process.c:17-212`, `process.c:258-267`, `process.h` | `proc_set[0..MAX_NPROCESS]`: pid, status, syscall record, MLFQ fields, statistics; static `curr_pid` | `proc_alloc`, `proc_set_{status,ready,running,runnable,pending}`, `proc_free`, `proc_sleep` |
| C3 MLFQ | `process.c:214-256` | `queue_level`, `queue_time`, `last_schedule_time`; static `MLFQ_last_reset_time` | `mlfq_update_level`, `mlfq_reset_level` |
| C4 dispatcher | `kernel.c:26-235` | `core_to_proc_idx[NCORES]` | `excp_entry` (ECALL, fault), `intr_entry` (timer), `proc_yield` |
| C5 IPC | `kernel.c:237-284` | the syscall record of each PCB and its user-space copy at `SYSCALL_ARG` | `proc_try_send`, `proc_try_recv`, `proc_try_syscall` |

**How the parts interact.** Every trap enters `kernel_entry` under the global kernel lock, so the whole handler runs on one core without interruption.

- **ECALL.** The handler copies the caller's record into its PCB, blocks the caller (`proc_set_pending`), tries the call once, and yields.
- **Timer.** The handler charges the running slice to the MLFQ and yields.
- **Other exception.** The handler frees a user process, then yields.
- **`proc_yield`:**
  1. It makes the current process RUNNABLE (charging it) and applies the boost and the periodic reset.
  2. In one loop over slots 1..MAX_NPROCESS it wakes sleepers, retries every pending system call, and selects the lowest level.
  3. If nothing was selected, a fallback loop retries again and takes the first schedulable slot.
  4. It then dispatches the pick, or idles the core.
- **Kernel processes.** These are pids below `GPID_USER_START`, such as the shell and the loader. They call `proc_alloc`, `proc_set_ready`, `proc_free` and `proc_sleep` directly. `proc_sleep` does not yield: the caller goes on running until its core's next trap.

**Hard behaviours:**

- several cores share one table, and a process can be freed while it runs elsewhere;
- IPC retries run in the middle of the selection scan;
- a blocked sender's receiver can die;
- off-by-one loop bounds, and a sentinel value that is also a valid index;
- the demotion cap at the bottom MLFQ level;
- progress of the level-triggered rendez-vous;
- sleepers that keep a stale syscall record, which every yield retries, and a `wakeup_time` that only the wake rule clears.

**What makes each part correct:**

- **C2:** a freed pid is not live, a slot leaves UNUSED only through `proc_alloc`, a process is never charged more CPU time than it ran, and its report states the response time it had.
- **C3:** only time a process really ran demotes it, and levels stay in range.
- **C4:** each core's index names a RUNNING slot that no other core runs, the pick has the best level, and no sleeper is dispatched before its `wakeup_time`.
- **C5:** the kernel behaves as the abstract rendez-vous of module `IPC`, and matching requests are eventually completed.

## Modules

- **`ProcTable.tla`** models C2 and C3 as pure operators. Each C function is an operator from a kernel-state record `k` to the record after the call, with the same name as the function. A loop over the table is a set comprehension over `HelperRange` (0..MAX_NPROCESS-1), which is the bound the code uses. The helpers match on pid alone, as the code does (`FirstSlot`). `FATAL` sets `k.halted`.
- **`IPC.tla`** is the abstract specification of SEND/RECV (spec 4.5). Each pid has at most one request, and a rendez-vous completes a matching SEND and RECV in one step. One kernel trap is one IPC step: one of four things happens:
  - the trapping process may post a request (`Call`);
  - some live processes may die (`Exit`), which drops their requests;
  - a fresh pid may be born (`Spawn`);
  - or none of these (`Yield`).

  The yield may then complete any set of disjoint matching pairs (`Apply`). The module keeps the set `alive`, so a request can end without a rendez-vous only through the death of its process.
- **`Kernel.tla`** extends ProcTable and models C4, C5 and the environment.
  - **Variables.** One variable per PCB field that a decision reads (`status`, `pid`, `syscall`, `queue_level`, `queue_time`, `last_schedule_time`, `wakeup_time`), plus:
    - `core_to_proc_idx`;
    - the two statics, `curr_pid` and `MLFQ_last_reset_time`;
    - `mtime`, `tty_input`, `halted`;
    - `mtip`, the pending timer bit of each core;
    - `inbox`, the user-space syscall record of each pid.
  - **History variable.** `want[p]` records what last blocked pid p: the sender filter of a RECV (which `proc_try_send` overwrites in the PCB), 0 for a SEND, or `SLEEPING` for `proc_sleep`. The code's state cannot tell a sleeper from a process blocked in IPC after a sleep.
  - **Refinement.** `IPCAbs == INSTANCE IPC WITH ...` maps a pid's PENDING_SYSCALL record to its request (Idle if it is asleep) its user-space record to its box, and `alive` to the pids of non-UNUSED slots. A SEND or RECV released with nothing delivered, by a process that is still live, is therefore a refinement violation. `IPCRefines == IPCAbs!Spec` is checked as a property.
  - **Handlers.** `Sigma` packs the variables into the record, and `Commit` writes a result back. So a handler is one action that chains the operators in code order.
  - **Scans.** The two loops of `proc_yield` are the RECURSIVE operators `LevelScan` and `FallbackScan`.
  - **`Bind`.** The scans and `proc_yield` pass each intermediate record on through `Bind(val, LAMBDA k : ...)` rather than a LET. The two mean the same. But when TLC evaluates `ENABLED` for a fairness condition, it re-evaluates a LET or an operator argument at every use, which is exponential in the depth of the scan. A bound variable's value is computed once.
  - **Actions:**

    | Action | Code |
    |---|---|
    | `kernel_entry(c)` | `kernel_entry`: the trap on core c, by `mcause` one of the three below |
    | `Ecall(c, call)` | `excp_entry`, ECALL path |
    | `Fault(c)` | `excp_entry`, user-fault path |
    | `Timer(c)` | `intr_entry` |
    | `Spawn`, `Load`, `Kill`, `Sleep` | a kernel process calling `proc_alloc`, `proc_set_ready`, `proc_free`, `proc_sleep` |
    | `TimerExpires`, `Tick`, `KeyPress` | the hardware |
    | `Halted` | the stopped machine after a FATAL |
- **`Lifecycle.tla`** models the statistics of C2 for one PCB on one core.
  - **State.** The record `p` holds the PCB's status and its statistics fields: `creation_time`, `first_schedule_time`, `last_schedule_time`, `total_cpu_time` and `termination_time`. Alongside it are `on_core` (whether the core's index names the slot), `user`, `mtime` and `report`, the last termination report.
  - **History variables.** `on_cpu` counts the ticks the slot spent on the core since `proc_alloc`. `first_dispatch` records the time of its first dispatch.
  - **Operators.** `ChargeIfRunning`, `proc_set_runnable`, `proc_set_pending`, `proc_set_running`, `DispatchStats` (`kernel.c:176-179`), `intr_entry_charge` (`kernel.c:80-98`), `proc_alloc` and `Report` (`process.c:117-151`) are the statistics lines of those functions.
  - **Report arithmetic.** `Report` keeps the clamp, the `max(0, ...)` of the waiting time, the `/ 1000`, the `(int)` cast (`IntCast`, two's complement at `INT_WIDTH` bits) and the `< 0` test.
  - **Actions.** Every action is a kernel step as the slot sees it:
    - `Timer`, `Ecall`, `Fault` and `Sleep` are traps and calls made while the slot holds the core;
    - `Alloc`, `Load`, `Dispatch`, `Release` and `Kill` are steps of other processes' traps.
  - **Which slot `proc_yield` picks** depends on the other slots, so it is a free choice here (`Yield`). The scan itself is in `Kernel`.
- **`MCKernel.tla`** is the module TLC runs. The `.cfg` files give it its constants.

## Runs

The `MCKernel` runs use MLFQ constants scaled down to `QUANTUM = 1` and `MLFQ_RESET_PERIOD = 3`. `Msgs = {m1}` and `GPID_ALL` is a model value. `SleepTimes` is empty except in the three sleep configurations.

| Run | cfg | Bounds | Result |
|---|---|---|---|
| kernel_safety | `MCKernel.cfg` | 1 core, MAX_NPROCESS = 3, 3 pids (1 kernel), 2 levels, mtime ≤ 4 | pass, 1.8 M states, ~50 s |
| kernel_liveness | `MCKernel_live.cfg` | 1 core, MAX_NPROCESS = 4, 3 pids, 1 level, mtime frozen, `FairSpec` | pass, 22 k states, ~20 s |
| ipc_refinement | `MCKernel_ipc.cfg` | 2 cores, MAX_NPROCESS = 4, 3 kernel pids, peers 1 and 2, 1 level, mtime frozen | pass, 46 k states, ~40 s |
| sleep_lower_bound | `MCKernel_sleep.cfg` | 1 core, MAX_NPROCESS = 3, 2 kernel pids, 1 level, mtime ≤ 3, sleeps of 1 and 2, `FairSpec` | pass, 97 k states, ~55 s |
| kill_slot_max | `MCKernel_kill.cfg` | as safety | `KillFreesProcess` violated |
| priority_scan | `MCKernel_priority.cfg` | as safety | `DispatchHonoursPriority` violated |
| dead_peer_fatal | `MCKernel_deadpeer.cfg` | 2 pids | `HaltsOnlyOnUnknownReceiver` violated |
| two_core_resurrection | `MCKernel_2core.cfg` | 2 cores | `NoResurrection` violated |
| dead_sender_delivered | `MCKernel_deadsender.cfg` | as ipc_refinement, pids 2 and 3 user | `IPCRefines` violated |
| sleep_fatal | `MCKernel_sleepfatal.cfg` | 3 kernel pids, mtime ≤ 4, sleeps of 1 and 2 | `HaltsOnlyOnUnknownReceiver` violated |
| stale_wakeup | `MCKernel_sleepipc.cfg` | as sleep_fatal | `IPCRefines` violated |
| lifecycle_stats | `MCLifecycle.cfg` (module `Lifecycle`) | one PCB, mtime ≤ 6 us, report unit 2 us, response cap 2 us, 4-bit int | pass, 16 k states, ~1 s |

**kernel_safety** checks `TypeOK`, whose ranges include the MLFQ level cap, and `DemotionOnlyByOwnCPU`: a level rises only for a slot that some core was running. Three pids and three slots allow a spawn, a reuse, a kill and a fault. Two levels and a clock to 4 allow demotion, the bottom cap and one periodic reset.

**kernel_liveness** checks `RendezvousCompletes`: once a SEND and a RECV that match are both blocked, they are eventually completed, unless one of them dies or the kernel halts. Three dispatchable processes need four slots, because slot MAX_NPROCESS is never dispatched. The clock is frozen and there is one level, which keeps the run small without removing any retry path.

**ipc_refinement** checks `IPCRefines`. All three processes are kernel processes, as egos's servers are, so nothing is killed. Two cores include every one-core behaviour, because a core may never take a trap. Three peers on two cores take about six minutes, so the receivers and filters are pids 1 and 2; pid 3 still sends and receives from anyone. This run shows that the retries inside the scan, the two-phase delivery (`proc_try_send` marks, a later `proc_try_recv` copies and releases) and the wildcard filter together implement the abstract rendez-vous.

**sleep_lower_bound** checks `SleepLowerBound`: a core never runs a process whose `wakeup_time` is still ahead. This is not a matter of the guard alone. A retry of a sleeper's stale record can make it RUNNABLE early, and only the sleep skip in both scan loops keeps it off the core. The mutant without the skip in the fallback loop is caught. The run also checks `SleeperWakes` (spec 8, scenario 4): under the fairness below, every sleeper is made RUNNABLE once its `wakeup_time` has passed, whatever its stale record does in the retries. A sleep is only made if it ends by `MaxTime`, because the model's clock stops there.

**lifecycle_stats** checks two properties of the statistics, and `TypeOK` of the module.

- `CpuNeverOvercharged`: `total_cpu_time` never exceeds `on_cpu`.
  - Three places charge from the one `last_schedule_time`. Only the dispatch and `intr_entry` restart it.
  - The property fails if `intr_entry` charges without restarting the slice, because `proc_set_runnable` then charges the same slice again.
  - It also fails if `ChargeIfRunning` charges a blocked slot, because `Release` then counts the time it was off the core.
- `ResponseAsMeasured`: the report of a freed process never states a response longer than its turnaround. When the measured response (first dispatch minus creation) is within the cap, the report states exactly that response.

The cap is scaled with the clock, as the MLFQ constants are. A clock of 6 us with a cap of 2 us reaches measured responses of 0 to 5, which fall below, at and above the cap, and turnarounds long enough for the clamp to apply. The int width is kept wide enough for every report value.

Two paths lose the last slice and so under-charge:

- a fault frees a process while it is RUNNING (`kernel.c:68`);
- a kernel process sleeps and then makes an ECALL, so `proc_set_pending` sees PENDING_SYSCALL and skips its charge.

The run reaches both paths. The spec states no exactness of the CPU time, so no property claims it.

**The violation runs** each reach their counterexample in a few steps. `PROJECT.json` ("findings") says what each one shows:

- `proc_free` skips slot MAX_NPROCESS;
- retries run inside the selection scan;
- a dead receiver turns into a kernel FATAL, where the spec says the sender stays blocked;
- a process freed while running on another core leaves that core's index on an UNUSED slot, and comes back to life at its next system call;
- on one core, a message whose sender was killed between `proc_try_send` and `proc_try_recv` is delivered, and the dead sender's slot is revived;
- a sleep before any system call ends in the FATAL of `proc_try_syscall`;
- a process that slept and then blocks in SEND is released by the stale wake-up with its message undelivered.

**Why the bounds are enough.** Each hazard needs at most three processes and two cores. The loops are uniform in MAX_NPROCESS, with special cases only at slot 0 and slot MAX_NPROCESS, and three or four slots include both. Sleeps of 1 and 2 ticks, with a clock to 3 or 4, allow a sleeper to be due, not yet due, and woken at a later yield. Every mutant in `PROJECT.json` is caught under these bounds.

## Fairness

`FairSpec == Spec /\ Fairness`, where `Fairness` is weak fairness of `TimerExpires(c)` and `Timer(c)` for each core, and of `Tick`. The two liveness runs use it.

The code justifies it:

- `proc_yield` calls `earth->timer_reset` on every dispatch (`kernel.c:234`) and before `wfi` (`kernel.c:209`), so every core's timer is always armed;
- a pending timer interrupt is taken as soon as the core leaves the kernel, and no other step clears `mtip`;
- `mtime` is a hardware counter, so it keeps advancing.

Taking a trap clears `mtip`, so every timer trap is a real step, even when the yield changes nothing else. Without the bit, a trap that changes nothing would be a stutter step, and fairness would be satisfied by the very behaviours in which the kernel is stuck.

No fairness is assumed for processes or kernel processes: a process need never make a system call, and the loader need never run.

## Not modelled

- Register save and restore, `mepc`, `mstatus.MPP` and the MMU. They move data that no scheduling or IPC decision reads.
- `proc_coresinfo`, which only prints.
- `timer_interrupt_count` and the final queue level in the termination report. They are only printed, and the MLFQ level itself is modelled in `ProcTable`. The report's wording is not modelled either. The wrap of the `(int)` casts after 2^31 ms of turnaround is modelled by `IntCast` but not explored, because the run's int is wide.
- The user applications `grep` and `wcl`, which only make system calls.
- The syscall payload bytes, which are abstracted to model values.
- The slot-MAX lifecycle (`process.c:23`). A process allocated into slot MAX_NPROCESS is never marked READY. The loader's call on it changes nothing, so it is a stuttering step, and no action property sees it. `KillFreesProcess` covers the same loop bound through `proc_free`.

Possible next steps:

- a loader history variable, to state that a loaded process becomes READY;
- the statistics of several PCBs composed with `Kernel`'s scan, on two cores, where a process freed or released under another core's run is charged by both;
- two cores with IPC and sleep together;
- dispatch liveness for each level. Spec 10 accepts starvation among processes at the same level, so only a weaker form would hold.
