CONSTANTS
    Speed = 10
    ShutterTime = 5
    Far = 1000000
    AbsTargets = {95, 360}
    RelDiffs <- MCRelDiffs
    MaxCmds = 4
SPECIFICATION Spec
INVARIANT SingleTimer
CHECK_DEADLOCK FALSE
