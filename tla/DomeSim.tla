------------------------------- MODULE DomeSim -------------------------------
(***************************************************************************)
(* The dome simulator driver (src/drivers/hydrogen-simulator/              *)
(* dome_simulator.cpp).  A one-second timer (TimerHit) moves the azimuth   *)
(* DOME_SPEED degrees towards targetAz and counts the shutter down; client *)
(* commands set the target or start the shutter.  The HYDROGEN::Dome base  *)
(* class is not in the repository; what the model takes from it:          *)
(*  - it calls Connect() and then updateProperties() (so SetupParms) on a   *)
(*    connect request, and calls the commands only while connected;        *)
(*  - Dome::MoveAbs/MoveRel set the azimuth property busy when the driver  *)
(*    returns IPS_BUSY and ok when it returns IPS_OK; setDomeState(SYNCED) *)
(*    on arrival sets it ok;                                               *)
(*  - Dome::ControlShutter turns on the OPEN or CLOSE switch and sets the  *)
(*    shutter property busy (the driver always returns IPS_BUSY);          *)
(*  - the azimuth property ranges over [0, 360];                           *)
(*  - the park position (GetAxis1Park) starts at the default that          *)
(*    SetDefaultPark writes when no park data is stored; the base class's  *)
(*    own park status (ParkSP) is not modelled.                            *)
(***************************************************************************)
EXTENDS Integers

CONSTANTS
    Speed,          \* DOME_SPEED, degrees per timer tick
    ShutterTime,    \* SHUTTER_TIMER, ticks
    Far,            \* the 1e6 target of a continuous Move
    AbsTargets,     \* MoveAbs arguments
    RelDiffs,       \* MoveRel arguments
    MaxCmds         \* bound on client commands and connects/disconnects

ASSUME /\ Speed \in Nat \ {0} /\ ShutterTime \in Nat /\ Far \in Nat
       /\ AbsTargets \subseteq 0..360 /\ RelDiffs \subseteq -360..360
       /\ MaxCmds \in Nat

PropStates == {"Idle", "Ok", "Busy", "Alert"}

VARIABLES
    connected,      \* isConnected()
    timers,         \* timers armed by SetTimer and not yet fired
    az,             \* DomeAbsPosN[0].value
    targetAz,       \* targetAz
    absS,           \* DomeAbsPosNP.s
    shutterS,       \* DomeShutterSP.s
    shutterTimer,   \* shutterTimer
    parkAz,         \* the Axis1 park position (GetAxis1Park)
    shutterOp,      \* DomeShutterS: the switch of the last open/close request
    cmds            \* commands issued so far

vars == <<connected, timers, az, targetAz, absS, shutterS, shutterTimer, parkAz, shutterOp, cmds>>

Abs(x) == IF x < 0 THEN -x ELSE x

-----------------------------------------------------------------------------

\* range360 (libindi indicom): add or subtract 360 until in [0, 360].
RECURSIVE Range360(_)
Range360(x) ==
    IF x < 0 THEN Range360(x + 360) ELSE IF x > 360 THEN Range360(x - 360) ELSE x

\* Mutant: the step is taken away from the target.
AzimuthStepReversed ==
    IF absS # "Busy" THEN <<az, absS>>
    ELSE LET moved == Range360(IF targetAz > az THEN az - Speed
                               ELSE IF targetAz < az THEN az + Speed ELSE az)
         IN IF Abs(targetAz - moved) <= Speed THEN <<targetAz, "Ok">>
            ELSE <<moved, "Busy">>

\* The azimuth half of TimerHit: one step towards the target, wrapped;
\* within one step of the target the dome is put on it and synced.
\* Returns <<az, DomeAbsPosNP.s>>.
AzimuthStep ==
    IF absS # "Busy" THEN <<az, absS>>
    ELSE LET moved == Range360(IF targetAz > az THEN az + Speed
                               ELSE IF targetAz < az THEN az - Speed ELSE az)
         IN IF Abs(targetAz - moved) <= Speed THEN <<targetAz, "Ok">>
            ELSE <<moved, "Busy">>

\* Mutant: the shutter count is tested but never decremented.
ShutterStepNoCountdown ==
    IF shutterS # "Busy" THEN <<shutterS, shutterTimer>>
    ELSE IF shutterTimer <= 0 THEN <<"Ok", 0>> ELSE <<"Busy", shutterTimer>>

\* The shutter half of TimerHit: if (shutterTimer-- <= 0) the shutter is
\* done.  Returns <<DomeShutterSP.s, shutterTimer>>.
ShutterStep ==
    IF shutterS # "Busy" THEN <<shutterS, shutterTimer>>
    ELSE IF shutterTimer <= 0 THEN <<"Ok", 0>> ELSE <<"Busy", shutterTimer - 1>>

\* The azimuth property after a MoveAbs/MoveRel to t (the driver's
\* "within one cycle" test, and the base class's reaction).
MoveState(t) == IF Abs(t - az) < Speed THEN "Ok" ELSE "Busy"

\* SetDefaultPark's position.
DefaultPark == 90

Command == connected /\ cmds < MaxCmds /\ cmds' = cmds + 1

Init ==
    /\ connected = FALSE
    /\ timers = 0
    /\ az = 0
    /\ targetAz = 0
    /\ absS = "Idle"
    /\ shutterS = "Idle"
    /\ shutterTimer = 0
    /\ parkAz = DefaultPark
    /\ shutterOp = "None"
    /\ cmds = 0

\* Connect arms the timer; updateProperties then runs SetupParms.
Connect ==
    /\ ~connected /\ cmds < MaxCmds /\ cmds' = cmds + 1
    /\ connected' = TRUE
    /\ timers' = timers + 1
    /\ targetAz' = 0 /\ shutterTimer' = ShutterTime /\ az' = 0
    /\ UNCHANGED <<absS, shutterS, parkAz, shutterOp>>

\* Disconnect leaves an armed timer armed.
Disconnect ==
    /\ Command
    /\ connected' = FALSE
    /\ UNCHANGED <<timers, az, targetAz, absS, shutterS, shutterTimer, parkAz, shutterOp>>

\* TimerHit: a timer fires.  Disconnected, it is not re-armed; connected,
\* the azimuth and the shutter advance and SetTimer re-arms it.
TimerHit ==
    /\ timers > 0
    /\ IF ~connected
       THEN /\ timers' = timers - 1
            /\ UNCHANGED <<az, absS, shutterS, shutterTimer, shutterOp>>
       ELSE LET dome == AzimuthStep
                shutter == ShutterStep
            IN /\ az' = dome[1] /\ absS' = dome[2]
               /\ shutterS' = shutter[1] /\ shutterTimer' = shutter[2]
               /\ UNCHANGED timers
    /\ UNCHANGED <<connected, targetAz, parkAz, shutterOp, cmds>>

\* Move: MOTION_START heads for +-1e6 (turns until stopped); otherwise the
\* target is reset and the azimuth property goes idle.
Move(dir, start) ==
    /\ Command
    /\ targetAz' = IF ~start THEN 0 ELSE IF dir = "CW" THEN Far ELSE -Far
    /\ absS' = IF start THEN "Busy" ELSE "Idle"
    /\ UNCHANGED <<connected, timers, az, shutterS, shutterTimer, parkAz, shutterOp>>

MoveAbs(a) ==
    /\ Command
    /\ targetAz' = a
    /\ absS' = MoveState(a)
    /\ UNCHANGED <<connected, timers, az, shutterS, shutterTimer, parkAz, shutterOp>>

\* MoveRel: the target is wrapped once into [min, max] = [0, 360].
MoveRel(d) ==
    LET t0 == az + d
        t1 == IF t0 < 0 THEN t0 + 360 ELSE t0
        t2 == IF t1 > 360 THEN t1 - 360 ELSE t1
    IN /\ Command
       /\ targetAz' = t2
       /\ absS' = MoveState(t2)
       /\ UNCHANGED <<connected, timers, az, shutterS, shutterTimer, parkAz, shutterOp>>

\* ControlShutter: open or close alike restart the countdown.
ControlShutter(op) ==
    /\ Command
    /\ shutterOp' = op
    /\ shutterTimer' = ShutterTime
    /\ shutterS' = "Busy"
    /\ UNCHANGED <<connected, timers, az, targetAz, absS, parkAz>>

\* Abort: only a shutter in motion is affected; it is left in alert.
Abort ==
    /\ Command
    /\ shutterS' = IF shutterS = "Busy" THEN "Alert" ELSE shutterS
    /\ UNCHANGED <<connected, timers, az, targetAz, absS, shutterTimer, parkAz, shutterOp>>

\* Park: targetAz is set from DomeParamN, then Dome::ControlShutter(CLOSE)
\* restarts the shutter countdown and Dome::MoveAbs(GetAxis1Park())
\* overwrites the target with the park position.
Park ==
    /\ Command
    /\ shutterOp' = "Close"
    /\ shutterTimer' = ShutterTime
    /\ shutterS' = "Busy"
    /\ targetAz' = parkAz
    /\ absS' = MoveState(parkAz)
    /\ UNCHANGED <<connected, timers, az, parkAz>>

\* UnPark: Dome::ControlShutter(OPEN), which restarts the countdown.
UnPark ==
    /\ Command
    /\ shutterOp' = "Open"
    /\ shutterTimer' = ShutterTime
    /\ shutterS' = "Busy"
    /\ UNCHANGED <<connected, timers, az, targetAz, absS, parkAz>>

SetCurrentPark ==
    /\ Command
    /\ parkAz' = az
    /\ UNCHANGED <<connected, timers, az, targetAz, absS, shutterS, shutterTimer, shutterOp>>

SetDefaultPark ==
    /\ Command
    /\ parkAz' = DefaultPark
    /\ UNCHANGED <<connected, timers, az, targetAz, absS, shutterS, shutterTimer, shutterOp>>

Next ==
    \/ Connect
    \/ Disconnect
    \/ TimerHit
    \/ \E dir \in {"CW", "CCW"}, start \in BOOLEAN : Move(dir, start)
    \/ \E a \in AbsTargets : MoveAbs(a)
    \/ \E d \in RelDiffs : MoveRel(d)
    \/ Park
    \/ UnPark
    \/ \E op \in {"Open", "Close"} : ControlShutter(op)
    \/ Abort
    \/ SetCurrentPark
    \/ SetDefaultPark

Spec == Init /\ [][Next]_vars

\* The timer fires every second for as long as one is armed.
LiveSpec == Spec /\ WF_vars(TimerHit)

-----------------------------------------------------------------------------
(* Properties.                                                             *)

\* A MoveAbs or MoveRel that left the azimuth busy with a target on the
\* dial ends: TimerHit brings the dome onto the target, unless the driver
\* is disconnected or a continuous Move replaces the target.
MoveEnds ==
    (absS = "Busy" /\ targetAz \in 0..360)
        ~> (absS # "Busy" \/ targetAz \notin 0..360 \/ ~connected)

\* A shutter set moving by ControlShutter settles (or is aborted) while
\* the driver stays connected.
ShutterSettles ==
    shutterS = "Busy" ~> (shutterS # "Busy" \/ ~connected)

\* The driver runs a single one-second timer: TimerHit is not running
\* twice per second.
SingleTimer == timers <= 1

=============================================================================
