------------------------------ MODULE MCServices ------------------------------
(***************************************************************************)
(* The services for TLC: the message queue with its thread, the timers,    *)
(* the remote key provisioning worker, the network initiated requests, the *)
(* requests for coarse positions, and the life of LocationAPI objects.     *)
(* They share no state, so each behaviour runs one of them, the one that   *)
(* `part` names, and leaves the others in their first state.               *)
(***************************************************************************)
EXTENDS MsgQueue, LocTimer, Rkp, NiSessions, Odcpi, LocationApi

CONSTANT Parts             \* the parts that are explored

VARIABLE part

\* A client without callbacks and one of two adapters; a build with all libraries and one
\* with gnss only.
CallbackChoices == {{}, {"gnss", "batching"}}
LibraryChoices == {Adapter, {"gnss"}}

vars == <<part, queueVars, timerVars, rkpVars, niVars, odcpiVars, apiVars>>

Init == /\ part \in Parts
        /\ QueueInit /\ TimerInit /\ RkpInit /\ NiInit /\ OdcpiInit /\ ApiInit
        /\ part # "api" => libraries = Adapter

Only(p) == part = p /\ part' = p

Next == \/ Only("queue") /\ QueueNext
           /\ UNCHANGED <<timerVars, rkpVars, niVars, odcpiVars, apiVars>>
        \/ Only("timer") /\ TimerNext
           /\ UNCHANGED <<queueVars, rkpVars, niVars, odcpiVars, apiVars>>
        \/ Only("rkp") /\ RkpNext
           /\ UNCHANGED <<queueVars, timerVars, niVars, odcpiVars, apiVars>>
        \/ Only("ni") /\ NiNext
           /\ UNCHANGED <<queueVars, timerVars, rkpVars, odcpiVars, apiVars>>
        \/ Only("odcpi") /\ OdcpiNext
           /\ UNCHANGED <<queueVars, timerVars, rkpVars, niVars, apiVars>>
        \/ Only("api") /\ ApiNext
           /\ UNCHANGED <<queueVars, timerVars, rkpVars, niVars, odcpiVars>>

\* The fairness of each part, in the behaviours that run it.
Fairness == /\ WF_queueVars(Only("queue") /\ TaskStep)
            /\ WF_queueVars(Only("queue") /\ (MsgQUnblock \/ StopRelease))
            /\ WF_timerVars(Only("timer") /\ MsgTask)
            /\ WF_timerVars(Only("timer") /\ PollTask)
            /\ WF_timerVars(Only("timer") /\ Tick)
            /\ WF_rkpVars(Only("rkp") /\ ServiceStep)
            /\ WF_rkpVars(Only("rkp") /\ ServiceTimeout)
            /\ WF_rkpVars(Only("rkp") /\ Alarm)
            /\ WF_rkpVars(Only("rkp") /\ SetDeathSignal)
            /\ WF_rkpVars(Only("rkp") /\ LookForParent)
            /\ \A k \in NiKind : WF_niVars(Only("ni") /\ NiTimeout(k))
            /\ WF_niVars(Only("ni") /\ \E t \in niTails : NiThreadTail(t))
            /\ WF_odcpiVars(Only("odcpi") /\ ProcOdcpi)
            /\ WF_odcpiVars(Only("odcpi") /\ OdcpiTimerFires)
            /\ WF_odcpiVars(Only("odcpi") /\ OdcpiEngineUp)
            /\ WF_apiVars(Only("api") /\ Proc)

Spec == Init /\ [][Next]_vars /\ Fairness

\* Whom a service waits for may never answer, a worker process or the user: timeouts end
\* every key provisioning request and every NI request all the same.
EveryRequestEnds == RequestsEnd /\ NiRequestEnds

\* Every part keeps its types.
ServicesTypeOK == /\ QueueTypeOK /\ TimerTypeOK /\ RkpTypeOK
                  /\ NiTypeOK /\ OdcpiTypeOK /\ ApiTypeOK
=============================================================================
