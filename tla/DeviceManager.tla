---------------------------- MODULE DeviceManager ----------------------------
(***************************************************************************)
(* Lithium::DeviceManager (src/src/modules/device/device_manager.cpp).     *)
(* One device vector per DeviceType, each seeded with a null slot by the   *)
(* constructor; a device is reduced to its "name" property.  The          *)
(* ConfigManager is reduced to its keys driver/<name>/<prop> as pairs     *)
(* <<name, prop>>: addDevice writes driver/<name>/name, messageBusPublish  *)
(* writes driver/<name>/<prop> for a device with an observer, and the      *)
(* removals delete the subtree driver/<name>.  addDevice, removeDevice,    *)
(* removeDevicesByName and AddDeviceObserver hold m_mutex and are atomic   *)
(* steps; getDeviceList takes no lock, so its call is a start and an end   *)
(* with writers free to run in between.  No code of the repository keeps a *)
(* device past its removal, so an erased device is destroyed together with *)
(* the observer it carries.                                                *)
(***************************************************************************)
EXTENDS Integers, Sequences, SequencesExt, FiniteSets

CONSTANTS
    Types,      \* the DeviceType values a run adds to
    Names,      \* device names
    Libs,       \* lib_name arguments; "" builds the device in place
    Props,      \* names of the properties a device publishes
    NoDevice,   \* a null std::shared_ptr<Device>
    NoRead,     \* no getDeviceList call in progress
    MaxDevs     \* bound on the devices of one type

DeviceTypes == {"Camera", "Telescope", "Focuser", "FilterWheel", "Solver", "Guider"}

ASSUME /\ Types \subseteq DeviceTypes
       /\ Libs \subseteq {"", "lib"}
       /\ NoDevice \notin Names
       /\ MaxDevs \in Nat
       /\ "name" \notin Props

VARIABLES
    devices,    \* m_devices
    config,     \* the ConfigManager keys driver/<name>/<prop>, as <<name, prop>>
    observed,   \* names of the devices carrying the messageBusPublish observer
    readerAt,   \* the type a getDeviceList call is iterating, or NoRead
    raced       \* ghost: a locked writer changed that vector during the call

vars == <<devices, config, observed, readerAt, raced>>

-----------------------------------------------------------------------------

\* findDeviceByName: some non-null device of any type has this name.
findDeviceByName(name) ==
    \E t \in DeviceTypes : name \in Range(devices[t])

\* findDevice: the first index of a device with this name, 0 if none
\* (the code's size_t -1).
findDevice(t, name) == SelectInSeq(devices[t], LAMBDA d : d = name)

\* A writer step on the vectors marks a getDeviceList call that is
\* iterating a vector it changes.
Racing == readerAt # NoRead /\ devices'[readerAt] # devices[readerAt]

Init ==
    /\ devices = [t \in DeviceTypes |-> <<NoDevice>>]
    /\ config = {}
    /\ observed = {}
    /\ readerAt = NoRead
    /\ raced = FALSE

\* addDevice with a name no device has yet (the rename loop is then never
\* entered).  A Camera is emplaced: built in place, or from a library by
\* GetInstance, which may give a null pointer or throw.  The other types
\* add nothing.  Unless something threw, driver/<name>/name is written and
\* true returned.
addDevice(t, name, lib) ==
    /\ ~findDeviceByName(name)
    /\ Len(devices[t]) < MaxDevs
    /\ \E added \in IF t # "Camera" THEN {<<>>}
                    ELSE IF lib = "" THEN {<<name>>}
                    ELSE {<<name>>, <<NoDevice>>, "throw"} :
         IF added = "throw"
         THEN UNCHANGED <<devices, config>>
         ELSE /\ devices' = [devices EXCEPT ![t] = @ \o added]
              /\ config' = config \cup {<<name, "name">>}
    /\ raced' = (raced \/ Racing)
    /\ UNCHANGED <<observed, readerAt>>

\* The ConfigManager without the subtree driver/<name>.
DeleteSubtree(name) == {k \in config : k[1] # name}

\* Mutant: the erased device is not destroyed; its observer stays
\* installed (a copy of the shared_ptr kept elsewhere).
removeDeviceKeepObserver(t, name) ==
    LET i == findDevice(t, name) IN
    /\ i > 0
    /\ devices' = [devices EXCEPT ![t] = RemoveAt(@, i)]
    /\ config' = DeleteSubtree(name)
    /\ raced' = (raced \/ Racing)
    /\ UNCHANGED <<observed, readerAt>>

\* removeDevice: the first device of type t with this name is erased (and
\* destroyed with its observer) and driver/<name> deleted.
removeDevice(t, name) ==
    LET i == findDevice(t, name) IN
    /\ i > 0
    /\ devices' = [devices EXCEPT ![t] = RemoveAt(@, i)]
    /\ config' = DeleteSubtree(name)
    /\ observed' = observed \ {name}
    /\ raced' = (raced \/ Racing)
    /\ UNCHANGED readerAt

\* removeDevicesByName: every device of every type with this name is erased
\* and driver/<name> deleted, found or not.
removeDevicesByName(name) ==
    /\ devices' = [t \in DeviceTypes |-> SelectSeq(devices[t], LAMBDA d : d # name)]
    /\ config' = DeleteSubtree(name)
    /\ observed' = observed \ {name}
    /\ raced' = (raced \/ Racing)
    /\ UNCHANGED readerAt

\* AddDeviceObserver: the first device of type t with this name gets the
\* callback that forwards its property changes to messageBusPublish.  A
\* second call adds a second callback; both write the same keys.
AddDeviceObserver(t, name) ==
    /\ findDevice(t, name) > 0
    /\ observed' = observed \cup {name}
    /\ UNCHANGED <<devices, config, readerAt, raced>>

\* messageBusPublish: a device with an observer changed property p; the
\* message goes to the bus and, for an int, double or string value,
\* driver/<device_name>/<p> is written.  A value of another type writes
\* nothing and is a stuttering step.
messageBusPublish(name, p) ==
    /\ name \in observed
    /\ config' = config \cup {<<name, p>>}
    /\ UNCHANGED <<devices, observed, readerAt, raced>>

\* getDeviceList(t) starts iterating m_devices[t] without m_mutex ...
getDeviceListStart(t) ==
    /\ readerAt = NoRead
    /\ readerAt' = t
    /\ UNCHANGED <<devices, config, observed, raced>>

\* ... and returns.
getDeviceListEnd ==
    /\ readerAt # NoRead
    /\ readerAt' = NoRead
    /\ UNCHANGED <<devices, config, observed, raced>>

Next ==
    \/ \E t \in Types, n \in Names, l \in Libs : addDevice(t, n, l)
    \/ \E t \in Types, n \in Names : removeDevice(t, n)
    \/ \E n \in Names : removeDevicesByName(n)
    \/ \E t \in Types, n \in Names : AddDeviceObserver(t, n)
    \/ \E n \in Names, p \in Props : messageBusPublish(n, p)
    \/ \E t \in Types : getDeviceListStart(t)
    \/ getDeviceListEnd

Spec == Init /\ [][Next]_vars

-----------------------------------------------------------------------------
(* Properties.                                                             *)

\* No getDeviceList call iterates a vector while addDevice, removeDevice or
\* removeDevicesByName change it: the unlocked read is never a data race.
NoRacyRead == ~raced

\* The kind a device name is registered under, as the registry sees it.
KindOf(n) ==
    IF \E t \in DeviceTypes : n \in Range(devices[t])
    THEN CHOOSE t \in DeviceTypes : n \in Range(devices[t])
    ELSE NoDevice

Registry == INSTANCE DeviceRegistry
              WITH Kinds <- DeviceTypes, Absent <- NoDevice,
                   registry <- [n \in Names |-> KindOf(n)], settings <- config

\* The manager implements the registry: every addDevice, removeDevice,
\* removeDevicesByName, AddDeviceObserver, messageBusPublish and
\* getDeviceList step is a registration of a free name with its "name"
\* key, an unregistration that deletes every key of the name, a key
\* published for a registered device, or leaves both unchanged.  In
\* particular no observer writes driver/<name>/<prop> for a device that is
\* no longer held.
RegistryRefined == Registry!Spec


=============================================================================
