\* The kernel against the rendez-vous of module IPC.  Two cores, four slots
\* (slot 4 is never dispatched) so that three processes run, all of them
\* kernel-mode (GPID_USER_START above every pid) like the kernel servers
\* that talk over IPC, so none is killed.  One MLFQ level and a frozen
\* clock: no IPC decision reads them.  Processes name pids 1 and 2 as
\* receivers and RECV filters; pid 3 sends and receives from anyone.
CONSTANTS
    MAX_NPROCESS = 4
    MLFQ_NLEVELS = 1
    QUANTUM = 1
    MLFQ_RESET_PERIOD = 3
    GPID_ALL = GPID_ALL
    GPID_SHELL = 1
    GPID_USER_START = 4
    MaxPid = 3
    Msgs = {m1}
    NoMsg = NoMsg
    Cores = {0, 1}
    MaxTime = 1
    Peers = {1, 2}
    SleepTimes = {}
SPECIFICATION Spec
PROPERTY IPCRefines
