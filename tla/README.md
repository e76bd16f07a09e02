# TLA+ models of the Lithium repository

This directory holds TLA+ models of the parts of Lithium whose behaviour
depends on the order of events: the Hydrogen (INDI-style) message server
first (its client and its driver connections), then the task manager, the error stack, the device manager, the
dome simulator driver and the program's start-up. Each module is written from the C++ under `src/`.
Where the code a model needs is not in the repository, the model follows
`spec.md`, and PROJECT.json marks those definitions `spec_modelled`.

## 1. Inventory

### Hydrogen server (the message broker)

Only `src/modules/HydrogenServer/client_info.cpp` (ClInfo) is in the
repository. MsgQueue, DvrInfo, Msg and Property are referenced but absent.

| Component | State | Operations | Interacts with |
|---|---|---|---|
| ClInfo (client connection) | `allprops` (0 selective, 1 all devices, 2 chained upstream server); `props`, the list of Property (dev, name, blob) in insertion order; `blob`, the whole-client BLOB policy; its MsgQueue | `onMessage`, `q2Clients`, `q2Servers`, `findDevice`, `addDevice`, `crackBLOBHandling`, `close`, constructor and destructor | the static `clients` registry; DvrInfo (q2RDrivers, q2SDrivers); Msg |
| MsgQueue (base of both connections) | pending messages and their byte count (`msgQSize`) | `pushMsg`, the write pump, `close` | every fan-out; spec 4.2 |
| DvrInfo (driver connection) | the devices it has defined, its snoop table | `onMessage`, `q2RDrivers`, `q2SDrivers` | calls ClInfo::q2Clients and q2Servers |
| Msg | parsed stanza, reference count | `fromXml`, `queuingDone` | shared by every queue that holds it |

How the broker works. One dispatcher thread runs all handlers (spec 5), so
each handler is atomic. A client stanza first updates the client's interest
(lines 45-59). An `enableBLOB` stanza then updates its BLOB policy. A
`pingRequest` is answered to the sender alone. A malformed stanza closes
the client. Any other stanza goes to the drivers, then to snooping drivers
for `set*`, then back to other clients for `new*` (q2Clients). Driver
stanzas reach clients through q2Clients with no sender, and reach chained
upstream servers through q2Servers. Both fan-out loops iterate a snapshot
of client ids, skip vanished slots, and may `close()` (delete) a client
that is too far behind.

What is hard here:
- the order of a client's stanzas decides its subscription mode and BLOB
  policies;
- the loop-carried state of the fan-out loops (`devFound` in q2Servers);
- backlog limits checked before the push they guard;
- clients deleted in the middle of a fan-out.

What makes it correct:
- a client gets exactly the stanzas it subscribed to;
- the BLOB policies it asked for are honoured;
- no open queue exceeds the hard ceiling;
- the Property list never holds duplicates;
- upstream forwarding reaches only chained or interested peers.

### Task manager (`src/src/modules/task/task_manager.cpp`)

State: `m_TaskList`, an ordered vector of tasks; `m_TaskMap`, a name to task
map; `m_StopFlag`. Operations: addTask, insertTask, executeAllTasks,
executeTaskByName, modifyTask, modifyTaskByName, deleteTask,
deleteTaskByName, queryTaskByName, stopTask and saveTasksToJson. Each operation updates a
different subset of the two containers. What makes it correct: the list and
the map describe the same tasks. Other checks: an executed task leaves
both; stop halts execution for good.

### Error stack (`src/src/atom/error/error_stack.cpp`)

State: `errorStack` and `compressedErrorStack`, which are lists of
(message, module, timestamp). Operations: InsertError, InsertErrorCompressed
and UpdateCompressedErrors, which rebuilds and then sorts by timestamp.
What makes it correct: the compressed list holds one entry per
(message, module) with its latest timestamp, newest first.

### Device manager (`src/src/modules/device/device_manager.cpp`)

State: one device list per DeviceType, and the config keys written through
ConfigManager. Operations: addDevice, removeDevice, removeDevicesByName,
AddDeviceObserver and getDevice, all under `m_mutex`; getDeviceList, which
takes no lock; and messageBusPublish, which an observed device calls on
every property change.
What makes it correct: device names are unique, and a config key exists
exactly when its device does. addDevice returns true and writes the key
for the types whose construction is commented out.

### Dome simulator (`src/drivers/hydrogen-simulator/dome_simulator.cpp`)

State: azimuth, `targetAz`, `shutterTimer`, the states of the azimuth and
shutter properties, and the park state. Operations: TimerHit every second,
Move, MoveAbs, MoveRel, Park, UnPark, ControlShutter and Abort. What makes
it correct: a started move ends at the target, and the shutter settles.
This is a liveness question about the azimuth wrap (`range360`) and the
one-step tolerance.

### Program start-up (`src/src/openapt.cpp`)

State: the copies of the program that are running, which step of `main`
each is at, and which process listens on port 8000. `main` registers a
SIGINT handler, parses the arguments, then calls check_duplicate_process,
TestAll, CheckAndKillProgramOnPort(8000) and `app.run()`. Copies started
close together run these steps concurrently and kill each other.
What makes it correct: a restart leaves exactly one copy serving, the new
one, as the comment of check_duplicate_process says.

### Not modelled

- `device_utils.cpp` (a Win32 pipe), `is_network_connected` (never
  called), the Windows branches of `openapt.cpp` and its websocket handler
  (it only logs) are pure I/O.
- The JSON checker, random strings, type utilities, callable wrappers and
  exception specification are stateless.
- The remaining headers declare interfaces whose implementations are not
  in the repository. LithiumApp.hpp's inline functions check a pointer
  and forward to MessageBus or CommandDispatcher, which are absent too.
- `PHD2Controller.hpp`: each REST endpoint makes one call into
  `Lithium::MyApp` (createProcess, terminateProcessByName,
  getRunningProcesses) and builds a response. The modify endpoint's two
  branches are empty. The process manager is not in the repository, so
  a model could only restate the response fields. Two observations
  need no model. StartPHD2 with empty `phd2_params` starts nothing and
  answers without an error. Nothing checks whether phd2 is already
  running before createProcess.
- DvrInfo (driver connections, q2RDrivers, q2SDrivers snooping), MsgQueue
  (pushMsg, the write pump, the queue ceilings) and Msg (parsing,
  reference counting) are not in the repository. HydrogenClient keeps
  of them only what the client code in src/ decides: which stanzas
  reach which client queue and which go upstream. pushMsg's overflow
  close is kept as the step that ends a client. Properties over the
  drivers' queues, the snoop tables or the reference counts would check
  a model of the spec against itself, so none is stated.

## 2. Plan

Modules, in order of importance:

1. **HydrogenClient** (done): ClInfo. It includes the driver side that
   reaches clients (def/set fan-out, getProperties through q2Servers) and
   MsgQueue push/pump/close, both from the spec.
2. **HydrogenDriver**: not modelled. DvrInfo, MsgQueue and Msg are not
   in the repository. A model of them would be translated from the spec
   alone, and its properties would hold whatever the code in src/ does
   (see "Not modelled").
3. **HydrogenRouting**: an abstract spec of what a client receives, a
   filter over the driver's stream by subscription and policy. Its
   refinement from HydrogenClient is checked as a PROPERTY through
   INSTANCE ... WITH.
4. **TaskManager** (done): list and map as variables, one action per
   member function. Checks that no null task enters either container, and
   shows that a completed task is run again (the list and the map
   disagree after executeAllTasks).
5. **DomeSim** (done): integer azimuth, TimerHit under
   weak fairness (the 1-second timer). Liveness: a MoveAbs or MoveRel
   reaches the target and the shutter settles.
6. **ErrorStack** (done): the compressed list against a reference
   definition (latest timestamp per key, sorted newest first) over bounded
   insert sequences.
7. **DeviceManager** (done): the device lists, observers and config keys.
   The locked operations run against the unlocked getDeviceList.
8. **OpenAPTMain** (done): `main` of several copies started concurrently.
   It checks that the duplicate check leaves one copy, and whether that
   copy is the newest.

Left for later sittings:
- item 3 (the routing refinement);
- done since: the abstract DeviceRegistry and its refinement from
  DeviceManager (section 6), and the start-up liveness property, which
  fails (section 8).

## 3. HydrogenClient: the model

| Model | Code |
|---|---|
| `live[c]` | `clients[c] != nullptr` |
| `allprops`, `props`, `blob` | the ClInfo fields of the same names |
| `q[c]` | the MsgQueue of client c, with entries (tag, dev, name, stream flag, route, source driver) |
| `dvrDev[d]` | DvrInfo::dev of driver d |
| `asked` | a ghost: the last `enableBLOB` requests of each client, used only by properties |
| `ClientMessage` | ClInfo::onMessage, the whole handler, including the echo via q2Clients |
| `Q2Clients`, `Q2ClientsOutcome`, `BlobRefused` | the q2Clients loop, per client |
| `Q2Servers`, `Q2ServersLoop` | the q2Servers loop, RECURSIVE over the ids in order, carrying `devFound` |
| `FindDevice`, `AddDevice`, `SnagInterest`, `CrackBLOBHandling` | the helpers of the same names |
| `Accept`, `Hangup` | the constructor, and close() together with the destructor |
| `Deliver` | pushMsg on each target and close on each victim (spec 4.2); pushMsg closes a queue pushed past maxqsiz |
| `Drain` | the write pump sends the head of a queue |
| `DriverDef`, `DriverSet`, `DriverGetProperties` | DvrInfo stanzas that reach clients (from the spec) |

Abstractions:
- Stanzas are reduced to their tag, device, property name, and whether a
  BLOB's format says "stream".
- Sizes are 1 per stanza and `BlobSize` per BLOB vector.
- A ping reply carries no device.
- The iteration order of `clients.ids()` is ascending ids.
- `DefaultBlob` is the policy of a new ClInfo and of a new Property. It is
  Never in every run, the INDI default; the headers that set it are not
  in the repository.

Bounds:
- Devices CCD1 and CCD2, property name IMG (plus "" and "*").
- maxqsiz 2, maxstreamsiz 1, BLOB size 2, so both ceilings and the stream
  drop are reached.
- `MaxProps` = 2 caps each Property list (state constraint `PropsBound`).
  Two entries are enough for a duplicate, and for a whole-client request
  to meet a per-property one.
- Two client slots where a run needs a second client (echo, q2Servers),
  one slot otherwise.

No fairness is assumed; all checks are safety.

### Runs

| Run | cfg | Expect | What it shows |
|---|---|---|---|
| client_single | MCHydrogenClient.cfg | pass (about 132K states, 2.5 min) | For one client sending every stanza kind, with all device forms: no duplicate Property (`NoDuplicateProps`); no setBLOBVector the client refused by its latest request (`SetBLOBRefusalHonoured`). |
| upstream_devfound | MCUpstreamDevFound.cfg | violation | `devFound` in q2Servers is never reset. Once a chained client matches, a later client with no subscription also gets the driver's getProperties. |

Two more disagreements with the spec were found while modelling. Each
shows after one or two stanzas, so no run is spent on them (PROJECT.json
lists them as hazards):
- onMessage computes `isblob` only for setBLOBVector (line 43). A client's
  newBLOBVector is echoed as a non-BLOB stanza to clients whose policy is
  Never; spec 4.3 says Never suppresses binary vectors.
- q2Clients suppresses non-BLOB stanzas only for a whole-client Only (line
  132). A per-property enableBLOB Only leaves that property's number, text
  and switch vectors flowing; spec 8 says they are suppressed.

Every property of the passing run has a mutant of the code that TLC
catches: addDevice without the BLOB-path dedup (`NoDuplicateProps`),
addDevice leaving the policy unset (`TypeOK`), and crackBLOBHandling not copying a whole-client policy
to the Properties.

## 4. TaskManager: the model

| Model | Code |
|---|---|
| `list`, `map`, `stop` | `m_TaskList`, `m_TaskMap` (name -> task, `NoTask` for no entry), `m_StopFlag` |
| `Found(name)` | `findTaskByName`: the keys whose task has that name; `find_if` walks an unordered_map, so any of them |
| one action per member function | addTask, insertTask, executeAllTasks, stopTask, executeTaskByName, modifyTask, modifyTaskByName, deleteTask, deleteTaskByName, saveTasksToJson |
| `saved` | the file saveTasksToJson writes, reduced to the names of its JSON array, in order |
| `EraseAt` | the erase inside the loop of executeAllTasks |
| `completed`, `ran` | ghosts: tasks executeAllTasks completed and erased; tasks whose Execute() the last step called |

The outcome of `BasicTask::Execute` (true, false or an exception) is an
input: `executeAllTasks(ok)` takes the set of positions that returned true.
Arguments include `nullptr` (`NoTask`) and the indices -1 and size, so the
code's argument checks are all exercised. A call that fails its check is a
stuttering step. Tasks are model values with a fixed `get_name()`. The run
uses two tasks with distinct names and at most 3 list entries (`MaxLen`).
This is enough for inserts before, modifications of and deletions at
every position, and for one task to sit in the list twice.

| Run | cfg | Expect | What it shows |
|---|---|---|---|
| tasks_all_ops | MCTaskManager.cfg | pass (12.8K states) | No null task ever enters the list or the map (`TypeOK`). |
| tasks_rerun | MCTaskRerun.cfg | violation | A task that executeAllTasks ran successfully and erased from the list stays in the map, and executeTaskByName executes it again (`CompletedNotRerun`, task_manager.cpp:87). |

executeAllTasks erases a completed task from the list but not from the
map, and executeTaskByName then runs it again (task_manager.cpp:87).
`CompletedNotRerun` states the intended behaviour as an action property
over the ghosts `completed` and `ran`; TLC finds it violated by
addTask, executeAllTasks, executeTaskByName.
The list and the map also disagree after a single insertTask: it adds
to the list only. modifyTask, deleteTask and modifyTaskByName each touch
one container as well. Both problems show up in one or two calls, and
PROJECT.json lists them as hazards. m_StopFlag is never cleared, so
after stopTask no task runs again; nothing says whether that is intended,
so it is a hazard without a property.

Mutant: modifyTask without its null check breaks `TypeOK`.

## 5. ErrorStack: the model

| Model | Code |
|---|---|
| `errorStack`, `compressedErrorStack` | the vectors of the same names, with an error reduced to (message, module, timestamp) |
| `filteredModules` | `filteredModules`, as a set (only membership is read) |
| `now`, `Tick` | `std::time(nullptr)`, a clock that advances one second at a time up to `MaxTime` |
| `InsertError`, `InsertErrorCompressed`, `SetFilteredModules`, `ClearFilteredModules` | the member functions |
| `CompressStep`, `UpdateCompressedErrors` | one iteration of the rebuild loop, and the whole rebuild as a `FoldLeft` |
| `SortCompressedErrorStack` | `std::sort` with `>` on the timestamp. It is not stable, so it yields the set of orders it may leave ties in |
| `occurred`, `synced` | ghosts: the last time each error was reported; whether the last insert rebuilt the compressed list |

`Reference` is an independent definition of what the compressed list
should hold: each reported (message, module) once, with its last report
time. Two properties are checked after each rebuild:
- `CompressedOrdered`: the list has the reference's keys, each once,
  newest first.
- `CompressedIsLatest`: in addition, the timestamps are the reference's.

Bounds: 2 messages × 2 modules, 3 stored errors, clock up to 3. Several
errors can then share a second (sort ties), one error can be reported at
three different times, and one can be stored twice by InsertError.

| Run | cfg | Expect | What it shows |
|---|---|---|---|
| errors_compressed | MCErrorStack.cfg | pass (73K states) | With every operation, including InsertError, the compressed list after each rebuild holds each reported error once, newest first (`CompressedOrdered`). |
| errors_mixed | MCErrorStackMixed.cfg | violation | Once InsertError has stored an error twice, InsertErrorCompressed refreshes the first copy. The rebuild takes the last copy's older timestamp. |

Mutant: a sort comparator swapped to oldest first breaks `CompressedOrdered`.

Also seen while modelling, outside any run: GetCompressedErrors (line 162)
writes `compressedErrors << error`, which calls the free
`operator<<(const std::string &, const ErrorInfo &)`. That operator returns
a new string, and the result is discarded, so GetCompressedErrors always
returns an empty string. The model's properties are about
`compressedErrorStack` itself.

## 6. DeviceManager: the model

| Model | Code |
|---|---|
| `devices` | `m_devices`: one sequence of names per DeviceType, each seeded with a null slot (`NoDevice`) by the constructor |
| `config` | the ConfigManager keys `driver/<name>/<prop>`, as pairs (name, prop) |
| `observed` | the devices carrying the messageBusPublish observer |
| `AddDeviceObserver`, `messageBusPublish` | the member functions: the first attaches the callback, the second is the callback writing `driver/<name>/<prop>` |
| `DeleteSubtree` | `deleteValue("driver/<name>")` in both removals |
| `addDevice`, `removeDevice`, `removeDevicesByName` | the member functions; each holds `m_mutex`, so each is one step |
| `findDevice`, `findDeviceByName` | the helpers |
| `getDeviceListStart`, `getDeviceListEnd` | getDeviceList takes no lock. Its call is two steps, and writers may run in between |
| `raced` | ghost: a writer changed the vector a getDeviceList call was walking |

**Abstract specification and refinement.** `DeviceRegistry.tla` states
what the manager promises without vectors, null slots, locks or
observers. Its state is `registry`, a map from names to device kinds, and
`settings`, the stored `<<name, setting>>` pairs. It has three actions.
`Register` takes a free name and records its "name" setting. `Publish`
stores a setting of a registered device. `Unregister` removes a device and
every setting it stored. DeviceManager instantiates it as `Registry`:
`registry` is mapped to the type whose list holds the name (`KindOf`),
and `settings` to `config`. `RegistryRefined == Registry!Spec` is checked
as a PROPERTY. It says more than an invariant over `config`: every step
must be one of the three abstract steps or leave both unchanged. So a key
may appear only at registration or for a registered device, and a removal
deletes every key of the name in the same step. The mapping cannot see two
devices of one name in one list; findDeviceByName refuses a second
device of a registered name before addDevice writes anything.

addDevice is modelled for every type. For a Camera, the device is built in
place, or it comes from a library through GetInstance. GetInstance may give
a device, a null pointer, or an exception. The other types add nothing, as
their constructors are commented out. The rename loop is never entered: it
runs only if findDevice finds the name, and then findDeviceByName has
already refused it. The ConfigManager is not in the repository, so one
thing is assumed: deleting `driver/<name>` removes every key under it. 
No code in the repository keeps a device after the manager erases it, so
an erased device is destroyed together with its observer. A device kept
alive elsewhere would keep publishing and re-create `driver/<name>`: that
is the mutant of the refinement below. The
same holds for a publish already running when removeDevice deletes the
subtree: messageBusPublish takes no lock. This is listed as a hazard, not
modelled: which thread calls the observers is decided by the Device class,
which is not in the repository. The value type decides whether
messageBusPublish writes at all. Only the writing case changes state, so
only it is an action. `Props` is one property name.

| Run | cfg | Expect | What it shows |
|---|---|---|---|
| devices_camera | MCDeviceManager.cfg | pass (10.9K states) | Cameras built in place, up to 4 per list and 4 names, observed and publishing, with an unlocked reader. The manager implements DeviceRegistry (`RegistryRefined`). |

getDeviceList takes no lock, while every writer holds `m_mutex`. A call
of getDeviceList that runs while addDevice or removeDevice changes the
same vector is a data race: emplace_back may reallocate, and erase shifts
elements. The model keeps this read as two steps and the ghost `raced`, and
`NoRacyRead` states that the race never happens. Two steps break it: a
getDeviceList start, then a locked writer on that type. Its violation run
was retired to make room for the start-up port race (section 8). The race
is listed as a hazard.

Outside the passing run's inputs, addDevice for a Telescope, Focuser,
FilterWheel, Solver or Guider reports success and writes
`driver/<name>/name`. So does a Camera whose library gives a null
instance. No device is held in either case, so the step is no step of
DeviceRegistry and `RegistryRefined` fails after a single call. The passing run therefore checks only cameras
built in place.

Mutant: a removeDevice that erases the device but leaves its
observer installed (the device kept alive by another reference) breaks
`RegistryRefined`. It takes four steps: add, observe, remove, and a publish
that writes a key for a name the registry no longer holds.

## 7. DomeSim: the model

| Model | Code |
|---|---|
| `az`, `targetAz`, `shutterTimer` | `DomeAbsPosN[0].value`, `targetAz`, `shutterTimer`, in integer degrees and ticks |
| `absS`, `shutterS`, `shutterOp` | `DomeAbsPosNP.s`, `DomeShutterSP.s`, and which switch of `DomeShutterS` (open, close) the last request turned on |
| `parkAz` | the Axis1 park position: GetAxis1Park / SetAxis1Park |
| `connected`, `timers` | isConnected(), and the timers armed by SetTimer and not yet fired |
| `TimerHit` = `AzimuthStep` + `ShutterStep` | TimerHit |
| `Connect`, `Disconnect`, `Move`, `MoveAbs`, `MoveRel`, `ControlShutter`, `Abort`, `Park`, `UnPark`, `SetCurrentPark`, `SetDefaultPark` | the driver functions; Connect includes SetupParms; Park includes the Dome::ControlShutter and Dome::MoveAbs calls it makes |
| `Range360` | range360 from libindi (not in the repository): adds or subtracts 360 until the value is in [0, 360] |

The HYDROGEN::Dome base class is not in the repository. The module header
lists what the model takes from it: how the busy and ok states of the
properties follow the driver's return values, and that SetupParms runs on
connect. The park position starts at SetDefaultPark's 90. The base
class's own parked status is not modelled. Park's move is an ordinary
busy move to the park azimuth, so `MoveEnds` covers it. Bounds: at most 4 client commands (`MaxCmds`), counting connects and
disconnects. MoveAbs targets are 95 and 360. MoveRel offsets are -20,
which turns back past 0, and 350. The azimuth takes every value a 10-degree
step reaches from these targets, including 350 to 360.

Fairness: `WF_vars(TimerHit)`. While connected, the driver re-arms a
1-second timer at the end of every TimerHit, so the timer step stays
enabled. No fairness is assumed for clients. `CHECK_DEADLOCK FALSE` is
set because a dome at rest with no commands left stutters: its timer keeps
firing without changing anything.

| Run | cfg | Expect | What it shows |
|---|---|---|---|
| dome_liveness | MCDomeSim.cfg | pass (123K states) | Every move (including Park's) that leaves the azimuth busy with a target on the dial ends (`MoveEnds`). Every shutter operation settles (`ShutterSettles`). Both hold while connected, across continuous moves and reconnects. |
| dome_double_timer | MCDomeTimer.cfg | violation | Disconnect then Connect within a second leaves two self-re-arming timers (`SingleTimer`). |

Mutants: a step taken away from the target breaks `MoveEnds`. A shutter
count that is never decremented breaks `ShutterSettles`. Stepping from 350
snaps onto a target of 360 before any wrap. So `MoveEnds` holds whether
range360 keeps 360 or maps it to 0.

## 8. OpenAPTMain: the model

| Model | Code |
|---|---|
| `pc[p]` | the step of `main` copy p is at: idle (not started), dup, kill, test, port, run, serving, dead |
| `port` | the process listening on port 8000: a copy, `Foreign` (another program), or `None` |
| `toKill[p]` | the pids check_duplicate_process still has to kill, in readdir order |
| `Launch` | registerInterruptHandler and parse_args; an unknown option prints the help and exits |
| `check_duplicate_process`, `DuplicateKill` | the /proc scan, and one iteration of its kill loop |
| `TestAll` | LoadUrl and TestAll, reduced to their chance of throwing (main catches and exits) |
| `CheckAndKillProgramOnPort` | the test bind, lsof and kill of the port's holder |
| `Run` | `app.port(8000).run()` |
| `interruptHandler`, `Exit` | SIGINT: interruptHandler calls quit(), which exits |
| `signalled`, `Terminate` | processes sent SIGTERM and not yet ended; the kernel ending one, which frees the port it held |
| `launched`, `kills`, `interrupted` | ghosts: the start order, every successful kill as (killer, victim), and the copies a SIGINT ended |

Only the Linux branches are modelled. What the model assumes of the
operating system:
- the /proc scan is one atomic snapshot of the live copies, and its pid
  order is any order;
- SIGTERM has its default action (only SIGINT has a handler). kill() and
  the `kill` command return once the signal is sent. The victim runs no
  more of its code, but it stays in /proc and keeps its port until the
  kernel ends it (`Terminate`). A copy that signals its own pid dies before
  kill() returns. A pid that has exited is gone: zombies are not modelled;
- kill() of a copy that has exited since the scan fails;
- another program may hold port 8000 from the start;
- `app.run()` on a taken port fails and main exits.

The failures of socket(), popen, lsof and kill are choices of the model.
So are an exception in TestAll and an unknown command-line option. DEBUG is
`true` in the source, so TestAll always runs. What TestAll does to the
managers is left to their own modules.

Bounds: three copies, started once each, in any interleaving. Three copies
let one copy serve while two newer ones scan, each seeing the others.
Symmetry over the copies is sound for the invariant runs: the copies are
model values that no definition tells apart. Those runs assume no
fairness. The liveness run uses two copies and no symmetry. Its `FairSpec`
assumes weak fairness of each copy's main thread (`ProgramStep`): a
process that is not blocked keeps running. It also assumes weak fairness of
`Terminate`: the kernel delivers a pending SIGTERM. Starting a copy and
SIGINT come from the user and get no fairness.
`OnePastDuplicateCheck` does not count copies that are already signalled:
they run no more code. `CHECK_DEADLOCK FALSE` is
set because every copy ends dead or blocked in `app.run()`, and the
program does stop there.

| Run | cfg | Expect | What it shows |
|---|---|---|---|
| startup_single_copy | MCOpenAPTMain.cfg | pass (128K states) | With SIGINTs, failing kills and a foreign process on the port, two copies are never past check_duplicate_process at once (`OnePastDuplicateCheck`). |
| startup_self_kill | MCOpenAPTSelfKill.cfg | violation | check_duplicate_process counts its own pid among the duplicates and kills every one of them. A copy kills itself, and a copy scanning while a newer copy starts kills the newer one (`KillsOnlyPrevious`). A restart leaves no server running. |
| startup_port_race | MCOpenAPTPortRace.cfg | violation | A copy that passed CheckAndKillProgramOnPort does not always end up serving (`CheckedCopyServes`). The function sends the port's holder SIGTERM through `std::system("kill <pid>")` and returns true at once. `app.run()` then runs while the holder still has port 8000 bound, fails, and main exits. The counterexample: a foreign server holds the port; a copy's port check signals it; the copy's `app.run()` fails before the kernel ends the holder. |

`lsof -i :8000 -t` prints every process with a socket on the port, clients
connected to the server included, one per line. Only trailing newlines are
trimmed, so with two pids the shell runs `kill <pid1>` and then `<pid2>`
as a command. kill then reports failure and main quits, after pid1 was
already killed. The model has one holder and reduces lsof and kill to
success or failure, so this is a hazard without a run.

Mutant: the scan accepting one other copy (`pids.size() <= 2`) breaks
`OnePastDuplicateCheck`.
