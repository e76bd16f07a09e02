CONSTANTS
    p1 = p1
    p2 = p2
    p3 = p3
    Procs <- MCProcs
    Foreign = Foreign
    None = None
SYMMETRY CopySymmetry
SPECIFICATION Spec
INVARIANT OnePastDuplicateCheck
\* Every copy ends dead or blocked in app.run(): the run really stops.
CHECK_DEADLOCK FALSE
