CONSTANTS
    Procs = {p1}
    Refs = {r1}
    Selective = {p1}
    NoProc = NoProc
SPECIFICATION Spec
INVARIANT SegmentTagGetAnswers
CHECK_DEADLOCK FALSE
