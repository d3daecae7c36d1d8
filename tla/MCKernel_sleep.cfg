\* One core, three slots, two pids, every process a kernel process (no
\* faults or kills) that may call proc_sleep(1) or proc_sleep(2), and a
\* clock that runs to 3 so that sleepers wake; the timer and the clock
\* are fair.
CONSTANTS
    MAX_NPROCESS = 3
    MLFQ_NLEVELS = 1
    QUANTUM = 1
    MLFQ_RESET_PERIOD = 3
    GPID_ALL = GPID_ALL
    GPID_SHELL = 1
    GPID_USER_START = 3
    MaxPid = 2
    Msgs = {m1}
    NoMsg = NoMsg
    Cores = {0}
    MaxTime = 3
    Peers = {1, 2}
    SleepTimes = {1, 2}
SPECIFICATION FairSpec
INVARIANT SleepLowerBound
PROPERTY SleeperWakes
