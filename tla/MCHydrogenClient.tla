------------------------- MODULE MCHydrogenClient --------------------------
(* Model-checking instance of HydrogenClient: two client slots, one     *)
(* driver serving two devices, one property name.                       *)
EXTENDS HydrogenClient

CONSTANTS d1

MCDrivers == {d1}
MCDriverDevs == [d \in MCDrivers |-> {"CCD1", "CCD2"}]

\* Bound on each client's Property list (addDevice has no cap of its own).
MaxProps == 2
PropsBound == \A c \in Clients : Len(props[c]) <= MaxProps
=============================================================================
