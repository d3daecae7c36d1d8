\* As MCKernel_ipc.cfg, but pids 2 and 3 are user processes that the kernel
\* process pid 1 may kill: a sender killed after its SEND completed the
\* receiver's RECV record.
CONSTANTS
    MAX_NPROCESS = 4
    MLFQ_NLEVELS = 1
    QUANTUM = 1
    MLFQ_RESET_PERIOD = 3
    GPID_ALL = GPID_ALL
    GPID_SHELL = 1
    GPID_USER_START = 2
    MaxPid = 3
    Msgs = {m1}
    NoMsg = NoMsg
    Cores = {0}
    MaxTime = 1
    Peers = {1, 2, 3}
    SleepTimes = {}
SPECIFICATION Spec
PROPERTY IPCRefines
