--------------------------- MODULE HydrogenClient ---------------------------
(***************************************************************************)
(* The client side of the Hydrogen (INDI-style) server: ClInfo in          *)
(* src/modules/HydrogenServer/client_info.cpp.  A client connection keeps  *)
(* its subscription mode (allprops), its list of subscribed properties     *)
(* (props, each with its own BLOB policy), a whole-client BLOB policy and  *)
(* an outbound queue.  Client stanzas are handled by ClInfo::onMessage;    *)
(* driver stanzas are fanned out to clients by ClInfo::q2Clients and to    *)
(* chained upstream servers by ClInfo::q2Servers.                          *)
(*                                                                         *)
(* The server runs one dispatcher, so every handler is one atomic step.    *)
(* MsgQueue (pushMsg, the write pump, msgQSize) and DvrInfo are not under  *)
(* src/; their part here is modelled from the spec (sections 4.2, 4.4).    *)
(***************************************************************************)
EXTENDS Integers, Sequences, SequencesExt, FiniteSets

CONSTANTS
    Clients,        \* client slot ids 1..N; clients.ids() iterates in this order
    Drivers,        \* driver connections (model values)
    DriverDevs,     \* [Drivers -> SUBSET Devs]: the devices each driver serves
    Devs,           \* device names (never "" and never "*")
    Names,          \* property names (never "")
    DefaultBlob,    \* BLOB policy of a new ClInfo and of a new Property
    MaxQSiz,        \* maxqsiz: hard backlog ceiling
    MaxStreamSiz,   \* maxstreamsiz: soft ceiling for streamed BLOB frames
    BlobSize,       \* serialized size of a BLOB vector (other stanzas: 1)
    Stanzas,        \* the client stanza tags a run lets clients send
    ClientDevs      \* the device attributes client stanzas carry

Policies == {"Never", "Also", "Only"}       \* B_NEVER, B_ALSO, B_ONLY

\* Stanzas a client may send; "malformed" is one Msg::fromXml rejects.
ClientTags == {"getProperties", "enableBLOB", "pingRequest", "newNumberVector",
               "newBLOBVector", "setBLOBVector", "malformed"}


ASSUME /\ Clients \subseteq Nat
       /\ DriverDevs \in [Drivers -> SUBSET Devs]
       /\ "" \notin Devs \cup Names /\ "*" \notin Devs
       /\ DefaultBlob \in Policies
       /\ 0 \notin Clients                      \* 0 stands for notme = NULL
       /\ {MaxQSiz, MaxStreamSiz, BlobSize} \subseteq Nat
       /\ Stanzas \subseteq ClientTags
       /\ ClientDevs \subseteq Devs \cup {"", "*"}

VARIABLES
    live,       \* live[c]: slot c holds a connected ClInfo (clients[c] # nullptr)
    allprops,   \* 0 selective, 1 all devices, 2 chained upstream server
    props,      \* Seq of [dev, name, blob]: the Property list, in insertion order
    blob,       \* whole-client BLOB policy
    q,          \* outbound queue: Seq of entries still to be written
    dvrDev,     \* dvrDev[d]: devices driver d has defined (DvrInfo::dev)
    asked       \* ghost: the enableBLOB requests of client c; asked[c].all is
                \* its last whole-client policy, asked[c].prop[<<dev, name>>]
                \* the policy it last asked for that property, "none" if it
                \* has not asked since its last whole-client request

vars == <<live, allprops, props, blob, q, dvrDev, asked>>

\* Stanza tags that carry BLOBs; they are serialized with size BlobSize.
BlobTags == {"setBLOBVector", "newBLOBVector"}

\* An outbound queue entry: the stanza, whether its BLOB format says
\* "stream", the fan-out path that queued it and the driver it came from.
Entry == [tag : ClientTags \cup {"pingReply", "defNumberVector",
                                 "setNumberVector"},
          dev : Devs \cup {"", "*"}, name : Names \cup {""},
          stream : BOOLEAN, route : {"ping", "clients", "servers"},
          src : Drivers \cup {"client"}]

\* Properties a client can name: a device (or "" or "*") and a name (or "").
Pairs == (Devs \cup {"", "*"}) \X (Names \cup {""})

\* Nothing asked yet: the whole-client policy is the default.
NoAsk == [all |-> DefaultBlob, prop |-> [p \in Pairs |-> "none"]]

Prop == [dev : Devs \cup {"", "*"}, name : Names \cup {""}, blob : Policies]

-----------------------------------------------------------------------------
(* Queue accounting (MsgQueue, modelled from the spec).                    *)

Size(e) == IF e.tag \in BlobTags THEN BlobSize ELSE 1

RECURSIVE QSize(_)
\* msgQSize(): bytes still queued
QSize(s) == IF s = <<>> THEN 0 ELSE Size(Head(s)) + QSize(Tail(s))

-----------------------------------------------------------------------------
(* Subscription matching (ClInfo::findDevice, addDevice).                  *)

\* findDevice(dev, name) == 0: the client wants stanzas of dev/name.
FindDevice(ap, ps, dev, name) ==
    \/ ap >= 1
    \/ dev = ""
    \/ \E i \in DOMAIN ps : ps[i].dev = dev /\ (ps[i].name = "" \/ ps[i].name = name)

\* Index of the first Property exactly (dev, name), 0 if none.
ExactProp(ps, dev, name) ==
    SelectInSeq(ps, LAMBDA p : p.dev = dev /\ p.name = name)

\* Mutant of AddDevice: the BLOB path skips its exact-match dedup.
AddDeviceNoExactCheck(ap, ps, dev, name, isblob) ==
    IF ~isblob /\ FindDevice(ap, ps, dev, name)
    THEN ps
    ELSE Append(ps, [dev |-> dev, name |-> name, blob |-> DefaultBlob])

\* Mutant of AddDevice: the new Property's blob field left unset.
AddDeviceUninitBlob(ap, ps, dev, name, isblob) ==
    IF IF isblob THEN ExactProp(ps, dev, name) # 0
                 ELSE FindDevice(ap, ps, dev, name)
    THEN ps
    ELSE Append(ps, [dev |-> dev, name |-> name])

\* addDevice: a BLOB request adds (dev, name) unless exactly present; any
\* other adds it unless findDevice already matches it.
AddDevice(ap, ps, dev, name, isblob) ==
    IF IF isblob THEN ExactProp(ps, dev, name) # 0
                 ELSE FindDevice(ap, ps, dev, name)
    THEN ps
    ELSE Append(ps, [dev |-> dev, name |-> name, blob |-> DefaultBlob])

\* Lines 49-59 of onMessage: a device in the stanza subscribes to it, "*"
\* on a fresh client marks a chained server, getProperties without a
\* device on a fresh client asks for all devices.  Result <<allprops, props>>.
SnagInterest(ap, ps, tag, dev, name, isblob) ==
    IF dev # ""
    THEN IF dev = "*" /\ ps = <<>> THEN <<2, ps>>
                                   ELSE <<ap, AddDevice(ap, ps, dev, name, isblob)>>
    ELSE IF tag = "getProperties" /\ ps = <<>> /\ ap # 2 THEN <<1, ps>>
                                                         ELSE <<ap, ps>>

\* Mutant of CrackBLOBHandling: a whole-client request is not copied to
\* the Properties.
CrackBLOBWholeOnly(ap, ps, b, dev, name, val) ==
    IF name # ""
    THEN LET ps1 == AddDevice(ap, ps, dev, name, TRUE)
             i   == ExactProp(ps1, dev, name)
         IN  <<[ps1 EXCEPT ![i].blob = val], b>>
    ELSE <<ps, val>>

\* crackBLOBHandling: with a property name the policy goes to that
\* Property (added if missing); without one it becomes the whole-client
\* policy and is copied to every Property.  Result <<props, blob>>.
CrackBLOBHandling(ap, ps, b, dev, name, val) ==
    IF name # ""
    THEN LET ps1 == AddDevice(ap, ps, dev, name, TRUE)
             i   == ExactProp(ps1, dev, name)
         IN  <<[ps1 EXCEPT ![i].blob = val], b>>
    ELSE <<[i \in DOMAIN ps |-> [ps[i] EXCEPT !.blob = val]], val>>

-----------------------------------------------------------------------------
(* Fan-out.                                                                *)

\* The BLOB-policy test of q2Clients for a BLOB stanza: the exact
\* Property's policy if there is one, else the whole-client policy.
BlobRefused(c, dev, name) ==
    LET i == ExactProp(props[c], dev, name)
    IN  IF i # 0 THEN props[c][i].blob = "Never" ELSE blob[c] = "Never"

\* What one iteration of the q2Clients loop does with client c.
Q2ClientsOutcome(c, notme, isblob, dev, name, stream) ==
    IF \/ ~live[c] \/ c = notme
       \/ ~FindDevice(allprops[c], props[c], dev, name)
       \/ ~isblob /\ blob[c] = "Only"
       \/ isblob /\ BlobRefused(c, dev, name)
    THEN "skip"
    ELSE IF isblob /\ MaxStreamSiz > 0 /\ QSize(q[c]) > MaxStreamSiz /\ stream
    THEN "skip"                                     \* drop a streamed frame
    ELSE IF QSize(q[c]) > MaxQSiz THEN "close" ELSE "push"

\* q2Clients: <<clients that get the stanza, clients shut down>>.
Q2Clients(notme, isblob, dev, name, stream) ==
    LET out(c) == Q2ClientsOutcome(c, notme, isblob, dev, name, stream)
    IN  <<{c \in Clients : out(c) = "push"}, {c \in Clients : out(c) = "close"}>>

\* The loop of q2Servers over the client ids in order.  devFound is set
\* by a matching client and, as in the code, never cleared for the next.
RECURSIVE Q2ServersLoop(_, _, _, _, _)
Q2ServersLoop(me, ids, devFound, push, kill) ==
    IF ids = <<>> THEN <<push, kill>>
    ELSE LET c  == Head(ids)
             df == CASE allprops[c] = 0 ->
                          devFound \/ \E i \in DOMAIN props[c] : props[c][i].dev \in dvrDev[me]
                     [] allprops[c] = 1 -> devFound
                     [] allprops[c] = 2 -> TRUE
         IN  CASE ~live[c] -> Q2ServersLoop(me, Tail(ids), devFound, push, kill)
               [] ~df      -> Q2ServersLoop(me, Tail(ids), df, push, kill)
               [] QSize(q[c]) > MaxQSiz -> Q2ServersLoop(me, Tail(ids), df, push, kill \cup {c})
               [] OTHER    -> Q2ServersLoop(me, Tail(ids), df, push \cup {c}, kill)

Q2Servers(me) == Q2ServersLoop(me, SetToSortSeq(Clients, <), FALSE, {}, {})

\* Apply one fan-out: pushMsg(e) to each client of push, close() to each of
\* kill.  pushMsg closes a queue its backlog now exceeds maxqsiz on (spec
\* 4.2).  A closed slot is reset; ap, ps, bl, ak are the fields before.
Deliver(e, push, kill, ap, ps, bl, ak) ==
    LET dead == kill \cup {c \in push : QSize(q[c]) + Size(e) > MaxQSiz}
    IN  /\ live'     = [c \in Clients |-> live[c] /\ c \notin dead]
        /\ q'        = [c \in Clients |-> IF c \in dead THEN <<>>
                                          ELSE IF c \in push THEN Append(q[c], e)
                                          ELSE q[c]]
        /\ allprops' = [c \in Clients |-> IF c \in dead THEN 0 ELSE ap[c]]
        /\ props'    = [c \in Clients |-> IF c \in dead THEN <<>> ELSE ps[c]]
        /\ blob'     = [c \in Clients |-> IF c \in dead THEN DefaultBlob ELSE bl[c]]
        /\ asked'    = [c \in Clients |-> IF c \in dead THEN NoAsk ELSE ak[c]]

-----------------------------------------------------------------------------
(* Actions.                                                                *)

Init ==
    /\ live = [c \in Clients |-> FALSE]
    /\ allprops = [c \in Clients |-> 0]
    /\ props = [c \in Clients |-> <<>>]
    /\ blob = [c \in Clients |-> DefaultBlob]
    /\ q = [c \in Clients |-> <<>>]
    /\ dvrDev = [d \in Drivers |-> {}]
    /\ asked = [c \in Clients |-> NoAsk]

\* ClInfo::ClInfo: a new client connection takes a free slot.
Accept(c) ==
    /\ ~live[c]
    /\ live' = [live EXCEPT ![c] = TRUE]
    /\ UNCHANGED <<allprops, props, blob, q, dvrDev, asked>>

\* ClInfo::close on a lost connection: the slot is freed, queue released.
Hangup(c) ==
    /\ live[c]
    /\ live' = [live EXCEPT ![c] = FALSE]
    /\ q' = [q EXCEPT ![c] = <<>>]
    /\ allprops' = [allprops EXCEPT ![c] = 0]
    /\ props' = [props EXCEPT ![c] = <<>>]
    /\ blob' = [blob EXCEPT ![c] = DefaultBlob]
    /\ asked' = [asked EXCEPT ![c] = NoAsk]
    /\ UNCHANGED dvrDev

\* ClInfo::onMessage for one stanza from client c.
ClientMessage(c, tag, dev, name, val, stream) ==
    LET isblob == tag = "setBLOBVector"
        snag   == SnagInterest(allprops[c], props[c], tag, dev, name, isblob)
        crack  == IF tag = "enableBLOB"
                  THEN CrackBLOBHandling(snag[1], snag[2], blob[c], dev, name, val)
                  ELSE <<snag[2], blob[c]>>
        ap == [allprops EXCEPT ![c] = snag[1]]
        ps == [props EXCEPT ![c] = crack[1]]
        bl == [blob EXCEPT ![c] = crack[2]]
        ak == IF tag # "enableBLOB" THEN asked
              ELSE IF name = "" THEN [asked EXCEPT ![c] = [all |-> val, prop |-> NoAsk.prop]]
              ELSE [asked EXCEPT ![c].prop[<<dev, name>>] = val]
        e  == [tag |-> tag, dev |-> dev, name |-> name, stream |-> stream,
               route |-> "clients", src |-> "client"]
        fan == Q2Clients(c, isblob, dev, name, stream)
    IN  /\ live[c]
        /\ CASE tag = "pingRequest" ->
                  Deliver([e EXCEPT !.tag = "pingReply", !.dev = "", !.name = "",
                                    !.route = "ping"],
                          {c}, {}, ap, ps, bl, ak)
             [] tag = "malformed" -> Deliver(e, {}, {c}, ap, ps, bl, ak)
             [] tag \in {"newNumberVector", "newBLOBVector"} ->
                  Deliver(e, fan[1], fan[2], ap, ps, bl, ak)
             [] OTHER -> Deliver(e, {}, {}, ap, ps, bl, ak)
        /\ UNCHANGED dvrDev

\* The write pump sends the head of a client's queue (spec 4.2).
Drain(c) ==
    /\ live[c] /\ q[c] # <<>>
    /\ q' = [q EXCEPT ![c] = Tail(@)]
    /\ UNCHANGED <<live, allprops, props, blob, dvrDev, asked>>

\* A driver defines a property of one of its devices: the device is
\* recorded as the driver's and the def is fanned out to clients (spec 4.4).
DriverDef(d, dev, name) ==
    LET fan == Q2Clients(0, FALSE, dev, name, FALSE)
    IN  /\ dvrDev' = [dvrDev EXCEPT ![d] = @ \cup {dev}]
        /\ Deliver([tag |-> "defNumberVector", dev |-> dev, name |-> name,
                    stream |-> FALSE, route |-> "clients", src |-> d],
                   fan[1], fan[2], allprops, props, blob, asked)

\* A driver updates a defined property; q2Clients with notme = NULL.
DriverSet(d, tag, dev, name, stream) ==
    LET isblob == tag = "setBLOBVector"
        fan    == Q2Clients(0, isblob, dev, name, stream)
    IN  /\ dev \in dvrDev[d]
        /\ Deliver([tag |-> tag, dev |-> dev, name |-> name, stream |-> stream,
                    route |-> "clients", src |-> d],
                   fan[1], fan[2], allprops, props, blob, asked)
        /\ UNCHANGED dvrDev

\* A driver snoops on (dev, name): its getProperties goes to the chained
\* upstream servers through q2Servers (spec 4.5, routeToUpstream).
DriverGetProperties(d, dev, name) ==
    LET fan == Q2Servers(d)
    IN  /\ Deliver([tag |-> "getProperties", dev |-> dev, name |-> name,
                    stream |-> FALSE, route |-> "servers", src |-> d],
                   fan[1], fan[2], allprops, props, blob, asked)
        /\ UNCHANGED dvrDev

Next ==
    \/ \E c \in Clients : Accept(c) \/ Hangup(c) \/ Drain(c)
    \/ \E c \in Clients, tag \in Stanzas, dev \in ClientDevs,
          name \in Names \cup {""}, val \in Policies :
          /\ (tag # "enableBLOB" => val = DefaultBlob)
          /\ ClientMessage(c, tag, dev, name, val, FALSE)
    \/ \E d \in Drivers, dev \in Devs, name \in Names :
          \/ dev \in DriverDevs[d] /\ DriverDef(d, dev, name)
          \/ DriverGetProperties(d, dev, name)
          \/ \E stream \in BOOLEAN :
                \/ DriverSet(d, "setNumberVector", dev, name, FALSE) /\ ~stream
                \/ DriverSet(d, "setBLOBVector", dev, name, stream)

Spec == Init /\ [][Next]_vars

-----------------------------------------------------------------------------
(* Properties.                                                             *)

TypeOK ==
    /\ live \in [Clients -> BOOLEAN]
    /\ allprops \in [Clients -> {0, 1, 2}]
    /\ \A c \in Clients : props[c] \in Seq(Prop) /\ q[c] \in Seq(Entry)
    /\ blob \in [Clients -> Policies]
    /\ dvrDev \in [Drivers -> SUBSET Devs]
    /\ asked \in [Clients -> [all : Policies, prop : [Pairs -> Policies \cup {"none"}]]]

\* The BLOB policy client c asked for (dev, name): its last request naming
\* the property if it made one after its last whole-client request, else
\* the whole-client one (spec 4.3).
Asked(c, dev, name) ==
    IF asked[c].prop[<<dev, name>>] # "none" THEN asked[c].prop[<<dev, name>>]
                                            ELSE asked[c].all

\* The entry a step appends to the queue of client c, if it appends one.
Appended(c) == live'[c] /\ Len(q'[c]) > Len(q[c])

\* addDevice never records the same (device, property) twice for a client,
\* whatever mix of subscribing stanzas and enableBLOB requests it sends:
\* the BLOB path dedups by exact match, the others by findDevice.
NoDuplicateProps ==
    \A c \in Clients : \A i, j \in DOMAIN props[c] :
        i < j => <<props[c][i].dev, props[c][i].name>> # <<props[c][j].dev, props[c][j].name>>

\* The step queues a BLOB vector with one of tags for a client only if
\* the policy the client asked for that property is not Never.
RefusalHonouredStep(tags) ==
    \A c \in Clients :
        Appended(c) /\ Last(q'[c]).tag \in tags
          => Asked(c, Last(q'[c]).dev, Last(q'[c]).name) # "Never" 

\* q2Clients never queues a driver's setBLOBVector to a client that said
\* Never for it: crackBLOBHandling's per-property and whole-client updates
\* and the exact-Property lookup of q2Clients together keep the client's
\* latest request.
SetBLOBRefusalHonoured == [][RefusalHonouredStep({"setBLOBVector"})]_vars

\* Spec 4.5: q2Servers forwards a driver's stanza only to upstream
\* clients in chained mode or subscribed to one of that driver's devices;
\* a plain all-devices client or one watching other devices never gets it.
UpstreamOnlyToInterested ==
    \A c \in Clients : \A i \in DOMAIN q[c] :
        q[c][i].route = "servers" =>
            \/ allprops[c] = 2
            \/ \E p \in Range(props[c]) : p.dev \in dvrDev[q[c][i].src]

=============================================================================
