\* One slot, a clock to 6 us, reports in units of 2 us, the response cap
\* at 2 us so that measured responses fall below, at and above it, and an
\* int wide enough for every report value.
CONSTANTS
    MaxTime = 6
    USEC_PER_MS = 2
    RESPONSE_CAP = 2
    INT_WIDTH = 4
SPECIFICATION Spec
INVARIANT TypeOK
INVARIANT CpuNeverOvercharged
INVARIANT ResponseAsMeasured
