\* The sleep configuration (one core, three slots, kernel processes that
\* may call proc_sleep(1) or proc_sleep(2), clock to 4), checking that a
\* sleeping process takes no part in the rendez-vous of module IPC.
CONSTANTS
    MAX_NPROCESS = 3
    MLFQ_NLEVELS = 1
    QUANTUM = 1
    MLFQ_RESET_PERIOD = 3
    GPID_ALL = GPID_ALL
    GPID_SHELL = 1
    GPID_USER_START = 4
    MaxPid = 3
    Msgs = {m1}
    NoMsg = NoMsg
    Cores = {0}
    MaxTime = 4
    Peers = {1, 2}
    SleepTimes = {1, 2}
SPECIFICATION Spec
PROPERTY IPCRefines
