------------------------------ MODULE MCClients ------------------------------
(***************************************************************************)
(* The clients' side for TLC: the HAL's API client, the batching and the   *)
(* geofence adapter, the configuration of the receiver, the observer of    *)
(* the framework, and the IGnss objects.  They share no state, so each     *)
(* behaviour runs one of them, the one that `part` names, and leaves the   *)
(* others in their first state.                                            *)
(***************************************************************************)
EXTENDS ApiClient, Batching, Geofencing, GnssConfig, OsObserver, HalGnss

CONSTANT Parts             \* the parts that are explored

VARIABLE part

O(mode, distance, interval) == [mode |-> mode, distance |-> distance, interval |-> interval]

\* One routine and one on demand session, and two trips of which each beats the other.
FourKinds == {O("routine", 0, 1), O("noAutoReport", 0, 1), O("trip", 1, 2), O("trip", 2, 1)}

\* Nothing, one satellite or all satellites of a constellation are blacklisted; one
\* constellation is enabled or disabled.
SomeBlacklists == {{}, {<<"glo", 1>>}, {<<"glo", 0>>}}
OneType == {[size |-> 1, on |-> {"glo"}, off |-> {}], [size |-> 1, on |-> {}, off |-> {"glo"}]}

\* A client's calls on fences and its NI responses have queues of their own, and fences a map:
\* "client" runs the calls on all kinds of sessions, "otherCalls" those two with plain tracking.
Unused(queues) == \A q \in queues : mRequestQueues'[q] = Idle

Init == /\ part \in Parts
        /\ ClientInit /\ BatchInit /\ FenceInit /\ CfgInit /\ OsInit /\ HalInit
        /\ part # "batching" => calm = FALSE

Only(p) == part = p /\ part' = p

Next == \/ Only("client") /\ ClientNext /\ Unused({"geofence", "ni"})
           /\ UNCHANGED <<batchVars, fenceVars, cfgVars, osVars, halVars>>
        \/ Only("otherCalls") /\ ClientNext /\ Unused({"session"})
           /\ UNCHANGED <<batchVars, fenceVars, cfgVars, osVars, halVars>>
        \/ Only("batching") /\ BatchNext
           /\ UNCHANGED <<clientVars, fenceVars, cfgVars, osVars, halVars>>
        \/ Only("geofence") /\ FenceNext
           /\ UNCHANGED <<clientVars, batchVars, cfgVars, osVars, halVars>>
        \/ Only("config") /\ CfgNext
           /\ UNCHANGED <<clientVars, batchVars, fenceVars, osVars, halVars>>
        \/ Only("observer") /\ OsNext
           /\ UNCHANGED <<clientVars, batchVars, fenceVars, cfgVars, halVars>>
        \/ Only("hal") /\ HalNext
           /\ UNCHANGED <<clientVars, batchVars, fenceVars, cfgVars, osVars>>

\* The part that runs keeps its types; the others stay as it finds them.
ClientsTypeOK == /\ part \in {"client", "otherCalls"} => ClientTypeOK
                 /\ part = "batching" => BatchTypeOK
                 /\ part = "geofence" => FenceTypeOK
                 /\ part = "config" => CfgTypeOK
                 /\ part = "observer" => OsTypeOK
                 /\ part = "hal" => HalTypeOK
=============================================================================
