\* One core, four slots (slot 4 is the MAX_NPROCESS slot) so that three
\* processes can run, one MLFQ level and a frozen clock: the IPC retry loop
\* of proc_yield under the timer's fairness.
CONSTANTS
    MAX_NPROCESS = 4
    MLFQ_NLEVELS = 1
    QUANTUM = 1
    MLFQ_RESET_PERIOD = 3
    GPID_ALL = GPID_ALL
    GPID_SHELL = 1
    GPID_USER_START = 2
    MaxPid = 3
    Msgs = {m1}
    NoMsg = NoMsg
    Cores = {0}
    MaxTime = 1
    Peers = {1, 2}
    SleepTimes = {}
SPECIFICATION FairSpec
PROPERTY RendezvousCompletes
