\* One core, three slots (slot 3 is the MAX_NPROCESS slot), three pids,
\* two MLFQ levels of quantum 1 and 2, a reset every 3 ticks, clock 1..4.
CONSTANTS
    MAX_NPROCESS = 3
    MLFQ_NLEVELS = 2
    QUANTUM = 1
    MLFQ_RESET_PERIOD = 3
    GPID_ALL = GPID_ALL
    GPID_SHELL = 1
    GPID_USER_START = 2
    MaxPid = 3
    Msgs = {m1}
    NoMsg = NoMsg
    Cores = {0}
    MaxTime = 4
    Peers = {1, 2, 3}
    SleepTimes = {}
SPECIFICATION Spec
INVARIANT TypeOK
PROPERTY DemotionOnlyByOwnCPU
