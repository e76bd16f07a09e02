---------------------------- MODULE DeviceRegistry ---------------------------
(***************************************************************************)
(* What the device manager promises its callers, without vectors, null    *)
(* slots, locks or observers: a registry from device names to device       *)
(* kinds, and the device settings the ConfigManager keeps, as pairs        *)
(* <<name, setting>>.  A name is registered at most once; registering     *)
(* records its "name" setting; a registered device may publish more        *)
(* settings; unregistering a name forgets all of its settings.  Nothing   *)
(* else ever changes the settings.                                         *)
(***************************************************************************)
CONSTANTS
    Kinds,      \* the kinds a device may have
    Names,      \* device names
    Props,      \* the settings a device publishes besides its "name"
    Absent      \* the registry has no device of this name

VARIABLES
    registry,   \* [Names -> Kinds \cup {Absent}]
    settings    \* the stored settings, a set of <<name, setting>>

Registered(n) == registry[n] # Absent

Init ==
    /\ registry = [n \in Names |-> Absent]
    /\ settings = {}

\* A device of kind k is registered under a free name n.
Register(k, n) ==
    /\ ~Registered(n)
    /\ registry' = [registry EXCEPT ![n] = k]
    /\ settings' = settings \cup {<<n, "name">>}

\* A registered device stores the value of one of its settings.
Publish(n, p) ==
    /\ Registered(n)
    /\ settings' = settings \cup {<<n, p>>}
    /\ UNCHANGED registry

\* A registered device is removed together with every setting it stored.
Unregister(n) ==
    /\ Registered(n)
    /\ registry' = [registry EXCEPT ![n] = Absent]
    /\ settings' = {s \in settings : s[1] # n}

Next ==
    \/ \E k \in Kinds, n \in Names : Register(k, n)
    \/ \E n \in Names, p \in Props : Publish(n, p)
    \/ \E n \in Names : Unregister(n)

Spec == Init /\ [][Next]_<<registry, settings>>

=============================================================================
