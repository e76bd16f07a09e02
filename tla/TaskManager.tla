----------------------------- MODULE TaskManager -----------------------------
(***************************************************************************)
(* Lithium::Task::TaskManager (src/src/modules/task/task_manager.cpp).     *)
(* The manager keeps the tasks twice: m_TaskList, the ordered vector that  *)
(* executeAllTasks runs, and m_TaskMap, a name -> task map that the        *)
(* ...ByName operations search.  Each member function is one action; a     *)
(* call that fails its guard (null task, bad index, unknown name) changes  *)
(* nothing and is a stuttering step.  BasicTask::Execute is external: its  *)
(* outcome (true, false or an exception) is chosen nondeterministically.   *)
(***************************************************************************)
EXTENDS Integers, Sequences, SequencesExt, FiniteSets

CONSTANTS
    Tasks,      \* task objects (model values), never null
    TaskName,   \* [Tasks -> Names]: get_name() of each task
    Names,      \* task names
    NoTask,     \* nullptr: an empty map slot, or a null task argument
    MaxLen,     \* bound on Len(m_TaskList)
    Ops         \* the member functions a run calls

OpNames == {"addTask", "insertTask", "executeAllTasks", "stopTask",
            "executeTaskByName", "modifyTask", "modifyTaskByName",
            "deleteTask", "deleteTaskByName", "saveTasksToJson"}

ASSUME /\ TaskName \in [Tasks -> Names]
       /\ NoTask \notin Tasks
       /\ MaxLen \in Nat
       /\ Ops \subseteq OpNames

VARIABLES
    list,       \* m_TaskList
    map,        \* m_TaskMap: [Names -> Tasks \cup {NoTask}]
    stop,       \* m_StopFlag
    completed,  \* ghost: tasks executeAllTasks ran to success and erased,
                \* and not handed to the manager again since
    ran,        \* ghost: the tasks whose Execute() the last step called
    saved       \* the names in the JSON array last written to m_FileName

vars == <<list, map, stop, completed, ran, saved>>

-----------------------------------------------------------------------------

\* findTaskByName: the keys whose task has get_name() == name.  find_if
\* walks the unordered_map in an unspecified order, so any of them.
Found(name) == {k \in Names : map[k] # NoTask /\ TaskName[map[k]] = name}

\* Handing t to the manager again makes it pending once more.
Readd(t) == completed \ {t}

Init ==
    /\ list = <<>>
    /\ map = [k \in Names |-> NoTask]
    /\ stop = FALSE
    /\ completed = {}
    /\ ran = {}
    /\ saved = <<>>

\* addTask: a non-null task is appended and stored under its name.
addTask(t) ==
    /\ t # NoTask
    /\ Len(list) < MaxLen
    /\ list' = Append(list, t)
    /\ map' = [map EXCEPT ![TaskName[t]] = t]
    /\ completed' = Readd(t)
    /\ ran' = {}
    /\ UNCHANGED <<stop, saved>>

\* insertTask: position must be an existing index (0 <= p < size); only
\* the list changes.
insertTask(t, p) ==
    /\ t # NoTask
    /\ Len(list) < MaxLen
    /\ 0 <= p /\ p < Len(list)
    /\ list' = InsertAt(list, p + 1, t)
    /\ completed' = Readd(t)
    /\ ran' = {}
    /\ UNCHANGED <<map, stop, saved>>

\* The list without the positions in gone, in order.
EraseAt(s, gone) ==
    LET kept == SetToSortSeq(DOMAIN s \ gone, <) IN [i \in DOMAIN kept |-> s[kept[i]]]

\* executeAllTasks: unless stopped, each non-null task in order is
\* executed and erased if Execute() returned true; false or an exception
\* keeps it.  ok is the set of positions whose Execute() returned true.
executeAllTasks(ok) ==
    /\ ~stop
    /\ \A i \in ok : list[i] # NoTask
    /\ list' = EraseAt(list, ok)
    /\ completed' = (completed \cup {list[i] : i \in ok}) \ Range(list')
    /\ ran' = Range(list) \ {NoTask}
    /\ UNCHANGED <<map, stop, saved>>

\* stopTask: sets the flag for good.
stopTask ==
    /\ stop' = TRUE
    /\ ran' = {}
    /\ UNCHANGED <<list, map, completed, saved>>

\* executeTaskByName: runs the task found under name, unless stopped.
\* Nothing is erased whatever Execute() does.
executeTaskByName(name) ==
    /\ ~stop
    /\ \E k \in Found(name) : ran' = {map[k]}
    /\ UNCHANGED <<list, map, stop, completed, saved>>

\* Mutant: modifyTask without its null-task check.
modifyTaskNoNullCheck(i, t) ==
    /\ 0 <= i /\ i < Len(list)
    /\ list' = [list EXCEPT ![i + 1] = t]
    /\ completed' = Readd(t)
    /\ ran' = {}
    /\ UNCHANGED <<map, stop, saved>>

\* modifyTask: the list slot is overwritten; the map is left alone.
modifyTask(i, t) ==
    /\ t # NoTask
    /\ 0 <= i /\ i < Len(list)
    /\ list' = [list EXCEPT ![i + 1] = t]
    /\ completed' = Readd(t)
    /\ ran' = {}
    /\ UNCHANGED <<map, stop, saved>>

\* modifyTaskByName: the map entry found under name now holds t; the
\* list is left alone.
modifyTaskByName(name, t) ==
    /\ t # NoTask
    /\ \E k \in Found(name) : map' = [map EXCEPT ![k] = t]
    /\ completed' = Readd(t)
    /\ ran' = {}
    /\ UNCHANGED <<list, stop, saved>>

\* deleteTask: the list slot is erased; the map is left alone.
deleteTask(i) ==
    /\ 0 <= i /\ i < Len(list)
    /\ list' = RemoveAt(list, i + 1)
    /\ ran' = {}
    /\ UNCHANGED <<map, stop, completed, saved>>

\* deleteTaskByName: every occurrence of the found task leaves the list
\* (erase-remove) and its map entry is erased.
deleteTaskByName(name) ==
    \E k \in Found(name) :
        /\ list' = SelectSeq(list, LAMBDA x : x # map[k])
        /\ map' = [map EXCEPT ![k] = NoTask]
        /\ ran' = {}
        /\ UNCHANGED <<stop, completed, saved>>

\* saveTasksToJson: the names of the non-null tasks of the list, in order,
\* replace the file's content; a file that cannot be opened is left alone.
saveTasksToJson ==
    LET tasks == SelectSeq(list, LAMBDA t : t # NoTask) IN
    /\ saved' = [i \in DOMAIN tasks |-> TaskName[tasks[i]]]
    /\ ran' = {}
    /\ UNCHANGED <<list, map, stop, completed>>

Next ==
    \/ "addTask" \in Ops /\ \E t \in Tasks \cup {NoTask} : addTask(t)
    \/ "insertTask" \in Ops /\ \E t \in Tasks \cup {NoTask}, p \in -1..MaxLen : insertTask(t, p)
    \/ "executeAllTasks" \in Ops /\ \E ok \in SUBSET DOMAIN list : executeAllTasks(ok)
    \/ "stopTask" \in Ops /\ stopTask
    \/ "executeTaskByName" \in Ops /\ \E n \in Names : executeTaskByName(n)
    \/ "modifyTask" \in Ops /\ \E t \in Tasks \cup {NoTask}, i \in -1..MaxLen : modifyTask(i, t)
    \/ "modifyTaskByName" \in Ops /\ \E n \in Names, t \in Tasks \cup {NoTask} : modifyTaskByName(n, t)
    \/ "deleteTask" \in Ops /\ \E i \in -1..MaxLen : deleteTask(i)
    \/ "deleteTaskByName" \in Ops /\ \E n \in Names : deleteTaskByName(n)
    \/ "saveTasksToJson" \in Ops /\ saveTasksToJson

Spec == Init /\ [][Next]_vars

-----------------------------------------------------------------------------
(* Properties.                                                             *)

TypeOK ==
    /\ list \in Seq(Tasks) /\ Len(list) <= MaxLen
    /\ map \in [Names -> Tasks \cup {NoTask}]
    /\ stop \in BOOLEAN
    /\ completed \subseteq Tasks
    /\ ran \subseteq Tasks
    /\ saved \in Seq(Names) /\ Len(saved) <= MaxLen

\* A task that executeAllTasks completed and erased is not executed again
\* unless it is handed to the manager again.
CompletedNotRerun == [][ran' \cap completed = {}]_vars

=============================================================================
