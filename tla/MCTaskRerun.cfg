CONSTANTS
    t1 = t1
    t2 = t2
    t3 = t3
    NoTask = NoTask
    Tasks = {t1, t2}
    TaskName <- DistinctNames
    Names = {"A", "B"}
    MaxLen = 2
    Ops = {"addTask", "executeAllTasks", "executeTaskByName"}
SPECIFICATION Spec
PROPERTY CompletedNotRerun
