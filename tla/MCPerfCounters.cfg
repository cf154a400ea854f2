CONSTANTS
    SeqRange = 4
    MaxSent = 7
SPECIFICATION PerfSpec
INVARIANTS PerfTypeOK DropsExact ReportsAddUp
CHECK_DEADLOCK FALSE
