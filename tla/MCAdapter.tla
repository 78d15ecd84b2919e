------------------------------ MODULE MCAdapter ------------------------------
(***************************************************************************)
(* The GnssAdapter for TLC: tracking sessions, the control of the receiver *)
(* and the events that the modem reports.  They share no state, so each    *)
(* behaviour runs one of them, the one that `part` names, and leaves the   *)
(* others in their first state.                                            *)
(***************************************************************************)
EXTENDS Tracking, GpsControl, EventMask

CONSTANT Parts             \* the parts that are explored

VARIABLE part

O(interval, power, distance) ==
    [minInterval |-> interval, powerMode |-> power, minDistance |-> distance]

\* A slow and a fast session of different power modes, and a distance based one.
ThreeKinds == {O(2, 1, 0), O(1, 2, 0), O(2, 1, 1)}

\* Time based ones of every interval and power mode.
TimeBasedKinds == {O(i, p, 0) : i \in 1..3, p \in 1..2}

\* gps.conf locks nothing, or all; the framework locks non-framework applications only.
ConfChoices == {{}, LockBits}
UpdateChoices == {{"NFW"}}

\* A client of each kind, and devices that differ in who makes which sentences.
KindsOfCallbacks == {{}, {"tracking", "measurements"}, {"nmea"}, {"data"}, {"nHzMeasurements"}}
SomeDevices == {{}, {"ENGINE_DEBUG_DATA", "NMEA_PROVIDER_MP"}, {"DEBUG_NMEA", "engHub"}}

\* The clients with sessions and those with callbacks can be exchanged: no invariant names one.
Symmetry == Permutations(Client \cup MaskClient)

AdapterInit == /\ part \in Parts
               /\ Init /\ CtrlInit /\ MaskInit
               /\ part # "control" => GPS_LOCK = {}
               /\ part # "mask" => device = {}

Only(p) == part = p /\ part' = p

AdapterNext == \/ Only("tracking") /\ Next /\ UNCHANGED <<ctrlVars, maskVars>>
               \/ Only("control") /\ CtrlNext /\ UNCHANGED <<vars, maskVars>>
               \/ Only("mask") /\ MaskNext /\ UNCHANGED <<vars, ctrlVars>>

\* Every part keeps its types.
AdapterTypeOK == TypeOK /\ CtrlTypeOK /\ MaskTypeOK
=============================================================================
