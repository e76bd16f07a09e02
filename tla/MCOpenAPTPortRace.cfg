CONSTANTS
    p1 = p1
    p2 = p2
    p3 = p3
    Procs <- MCProcsTwo
    Foreign = Foreign
    None = None
SPECIFICATION FairSpec
PROPERTY CheckedCopyServes
\* Every copy ends dead or blocked in app.run(): the run really stops.
CHECK_DEADLOCK FALSE
