-------------------------------- MODULE Agps --------------------------------
(***************************************************************************)
(* The AGPS manager and its two state machines (gps/gnss/Agps.cpp): modem  *)
(* handles ask for an assistance data connection (ATL), the machine of the *)
(* interface asks the platform for one connection on behalf of all of      *)
(* them, and tells every handle how its request or its release ended.      *)
(*                                                                         *)
(* This module is the component alone: its methods may be called in any    *)
(* order with any arguments.  AgpsSystem adds the callers.                 *)
(***************************************************************************)
EXTENDS Naturals, FiniteSets

CONSTANT Handle            \* connection handles chosen by the modem

Nif == {"AGNSS", "Internet"}
AgpsType == {"SUPL", "SUPL_ES", "WWAN_ANY"}

VARIABLES
    created,               \* machines created: mAgnssNif, mInternetNif
    mState,                \* AgpsStateMachine::mState
    mSubscribers,          \* the handles on mSubscriberList
    mInactive,             \* those of them whose mIsInactive is set
    calls                  \* the callbacks the last call made

vars == <<created, mState, mSubscribers, mInactive, calls>>

AgpsState == {"RELEASED", "PENDING", "ACQUIRED", "RELEASING"}

(***************************************************************************)
(* The callbacks of one call: atlOpenStatus(h, 1), atlOpenStatus(h, 0) and *)
(* atlCloseStatus(h, 1) to the modem, and the request or release of the    *)
(* data connection of one interface to the platform.                       *)
(***************************************************************************)
NoConn  == [nif |-> "none", conn |-> "none"]
Request(n) == [nif |-> n, conn |-> "request"]
Release(n) == [nif |-> n, conn |-> "release"]

Calls == [opened : SUBSET Handle, failed : SUBSET Handle, closed : SUBSET Handle,
          conn : {NoConn} \cup [nif : Nif, conn : {"request", "release"}]]

Call(o, f, c, conn) == [opened |-> o, failed |-> f, closed |-> c, conn |-> conn]
Quiet == Call({}, {}, {}, NoConn)

NotifyOpened(H) == Call(H, {}, {}, NoConn)
NotifyFailed(H) == Call({}, H, {}, NoConn)
NotifyClosed(H) == Call({}, {}, H, NoConn)

Active(n) == mSubscribers[n] \ mInactive[n]

MutInitNoState == /\ created = {}
                  /\ mState = [n \in Nif |-> "INVALID"]
                  /\ mSubscribers = [n \in Nif |-> {}]
                  /\ mInactive = [n \in Nif |-> {}]
                  /\ calls = Quiet

Init == /\ created = {}
        /\ mState = [n \in Nif |-> "RELEASED"]
        /\ mSubscribers = [n \in Nif |-> {}]
        /\ mInactive = [n \in Nif |-> {}]
        /\ calls = Quiet

-----------------------------------------------------------------------------
(* AgpsStateMachine.  An operator whose name starts with Mut is the one    *)
(* that follows it with a mistake in it; no specification uses it, the     *)
(* properties are tried against it.                                        *)

TransitionState(n, s) == mState' = [mState EXCEPT ![n] = s]

\* A handle that is already listed keeps its entry, inactive or not.
AddSubscriber(n, h) == /\ mSubscribers' = [mSubscribers EXCEPT ![n] = @ \cup {h}]
                       /\ UNCHANGED mInactive

DeleteSubscribers(n, H) == /\ mSubscribers' = [mSubscribers EXCEPT ![n] = @ \ H]
                           /\ mInactive' = [mInactive EXCEPT ![n] = @ \ H]

\* Asks the platform again for every handle.
MutSubscribeAsksAgain(n, h) ==
    /\ AddSubscriber(n, h)
    /\ IF mState[n] \in {"RELEASED", "PENDING"}
       THEN TransitionState(n, "PENDING") /\ calls' = Call({}, {}, {}, Request(n))
       ELSE /\ calls' = IF mState[n] = "ACQUIRED" THEN NotifyOpened({h}) ELSE Quiet
            /\ UNCHANGED mState

Subscribe(n, h) ==
    /\ AddSubscriber(n, h)
    /\ \/ /\ mState[n] = "RELEASED"
          /\ TransitionState(n, "PENDING")
          /\ calls' = Call({}, {}, {}, Request(n))
       \/ /\ mState[n] \in {"PENDING", "RELEASING"}
          /\ calls' = Quiet
          /\ UNCHANGED mState
       \/ /\ mState[n] = "ACQUIRED"
          /\ calls' = NotifyOpened({h})
          /\ UNCHANGED mState

(***************************************************************************)
(* Every subscriber is created with mWaitForCloseComplete set (requestATL, *)
(* the only place that creates one), so a release marks the handle         *)
(* inactive and never takes it off the list; and a listed handle's machine *)
(* is never RELEASED (ListedIffBusy), so neither of the other branches of  *)
(* the code can run.                                                       *)
(***************************************************************************)
Unsubscribe(n, h) ==
    /\ mState[n] \in {"PENDING", "ACQUIRED", "RELEASING"}
    /\ mInactive' = [mInactive EXCEPT ![n] = @ \cup {h}]
    /\ UNCHANGED mSubscribers
    /\ \/ /\ mState[n] \in {"PENDING", "ACQUIRED"}
          /\ Active(n) \subseteq {h}
          /\ TransitionState(n, "RELEASING")
          /\ calls' = Call({}, {}, {}, Release(n))
       \/ /\ mState[n] = "RELEASING" \/ ~ (Active(n) \subseteq {h})
          /\ calls' = Quiet
          /\ UNCHANGED mState

Granted(n) ==
    \/ /\ mState[n] = "PENDING"
       /\ TransitionState(n, "ACQUIRED")
       /\ calls' = NotifyOpened(Active(n))
       /\ UNCHANGED <<mSubscribers, mInactive>>
    \/ /\ mState[n] # "PENDING"
       /\ calls' = Quiet
       /\ UNCHANGED <<mState, mSubscribers, mInactive>>

\* Drops those who came during the release as well.
MutFinishReleaseDropsAll(n) ==
    /\ mState[n] = "RELEASING"
    /\ DeleteSubscribers(n, mSubscribers[n])
    /\ TransitionState(n, "RELEASED")
    /\ calls' = NotifyClosed(mInactive[n])

\* Does not ask again for those who came during the release.
MutFinishReleaseNoRequest(n) ==
    /\ mState[n] = "RELEASING"
    /\ DeleteSubscribers(n, mInactive[n])
    /\ TransitionState(n, "RELEASED")
    /\ calls' = NotifyClosed(mInactive[n])

\* The end of RELEASING, on a RELEASED or on a DENIED event: those who were
\* waiting for the close are told, those who came meanwhile want a new one.
FinishRelease(n) ==
    /\ mState[n] = "RELEASING"
    /\ DeleteSubscribers(n, mInactive[n])
    /\ \/ /\ Active(n) # {}
          /\ TransitionState(n, "PENDING")
          /\ calls' = Call({}, {}, mInactive[n], Request(n))
       \/ /\ Active(n) = {}
          /\ TransitionState(n, "RELEASED")
          /\ calls' = NotifyClosed(mInactive[n])

\* Ignores a connection that the platform takes away.
MutReleasedIgnoresForce(n) ==
    \/ FinishRelease(n)
    \/ /\ mState[n] # "RELEASING"
       /\ calls' = Quiet
       /\ UNCHANGED <<mState, mSubscribers, mInactive>>

Released(n) ==
    \/ /\ mState[n] = "ACQUIRED"
       /\ TransitionState(n, "RELEASED")
       /\ DeleteSubscribers(n, mSubscribers[n])
       /\ calls' = NotifyClosed(mSubscribers[n])
    \/ FinishRelease(n)
    \/ /\ mState[n] \in {"RELEASED", "PENDING"}
       /\ calls' = Quiet
       /\ UNCHANGED <<mState, mSubscribers, mInactive>>

\* Notifies without deleting (deleteSubscriberPostNotify false).
MutDeniedKeepsList(n) ==
    \/ /\ mState[n] = "PENDING"
       /\ TransitionState(n, "RELEASED")
       /\ calls' = NotifyFailed(mSubscribers[n])
       /\ UNCHANGED <<mSubscribers, mInactive>>
    \/ FinishRelease(n)
    \/ /\ mState[n] \in {"RELEASED", "ACQUIRED"}
       /\ calls' = Quiet
       /\ UNCHANGED <<mState, mSubscribers, mInactive>>

Denied(n) ==
    \/ /\ mState[n] = "PENDING"
       /\ TransitionState(n, "RELEASED")
       /\ DeleteSubscribers(n, mSubscribers[n])
       /\ calls' = NotifyFailed(mSubscribers[n])
    \/ FinishRelease(n)
    \/ /\ mState[n] \in {"RELEASED", "ACQUIRED"}
       /\ calls' = Quiet
       /\ UNCHANGED <<mState, mSubscribers, mInactive>>

-----------------------------------------------------------------------------
(* AgpsManager *)

machines == <<mState, mSubscribers, mInactive>>

CreateStateMachines(N) == /\ created' = created \cup N
                          /\ calls' = Quiet
                          /\ UNCHANGED machines

\* Emergency SUPL shares the AGNSS machine with SUPL, whether or not gps.conf
\* turns the one into the other first.
NifOf(type) == IF type = "WWAN_ANY" THEN "Internet" ELSE "AGNSS"

RequestATL(h, type) ==
    LET n == NifOf(type)
    IN  /\ UNCHANGED created
        /\ \/ n \in created /\ Subscribe(n, h)
           \/ /\ n \notin created
              /\ calls' = NotifyFailed({h})
              /\ UNCHANGED machines

ListedAt(h) == {n \in created : h \in mSubscribers[n]}

\* Searches the AGNSS machine only.
MutReleaseAgnssOnly(h) ==
    /\ UNCHANGED created
    /\ \/ "AGNSS" \in ListedAt(h) /\ Unsubscribe("AGNSS", h)
       \/ "AGNSS" \notin ListedAt(h) /\ calls' = Quiet /\ UNCHANGED machines

\* The AGNSS machine is searched first.
ReleaseATL(h) ==
    /\ UNCHANGED created
    /\ \/ "AGNSS" \in ListedAt(h) /\ Unsubscribe("AGNSS", h)
       \/ ListedAt(h) = {"Internet"} /\ Unsubscribe("Internet", h)
       \/ /\ ListedAt(h) = {}
          /\ calls' = Quiet
          /\ UNCHANGED machines

\* An event for an interface whose machine does not exist is dropped.
Report(n, Event(_)) ==
    /\ UNCHANGED created
    /\ \/ n \in created /\ Event(n)
       \/ /\ n \notin created
          /\ calls' = Quiet
          /\ UNCHANGED machines

ReportAtlOpenSuccess(n) == Report(n, Granted)
ReportAtlOpenFailed(n)  == Report(n, Denied)
ReportAtlClosed(n)      == Report(n, Released)

Next == \/ \E N \in SUBSET Nif : CreateStateMachines(N)
        \/ \E h \in Handle : ReleaseATL(h) \/ \E type \in AgpsType : RequestATL(h, type)
        \/ \E n \in Nif : \/ ReportAtlOpenSuccess(n)
                          \/ ReportAtlOpenFailed(n)
                          \/ ReportAtlClosed(n)

Spec == Init /\ [][Next]_vars

-----------------------------------------------------------------------------
(* Properties *)

TypeOK == /\ created \subseteq Nif
          /\ mState \in [Nif -> AgpsState]
          /\ mSubscribers \in [Nif -> SUBSET Handle]
          /\ mInactive \in [Nif -> SUBSET Handle]
          /\ calls \in Calls

\* A machine that was not created has no subscriber and never left RELEASED.
OnlyCreatedWork == \A n \in Nif \ created : mState[n] = "RELEASED"

\* "Subscriber list should be empty if we are in released state": the code
\* that assumes it (processAgpsEventReleased) only logs when it is not so.
ListedIffBusy == \A n \in Nif : mSubscribers[n] = {} <=> mState[n] = "RELEASED"

\* A connection that is asked for or held has somebody who wants it, and one
\* that is being released has somebody waiting for its close.
SomebodyWaits ==
    \A n \in Nif : /\ mState[n] \in {"PENDING", "ACQUIRED"} => Active(n) # {}
                   /\ mState[n] = "RELEASING" => mInactive[n] # {}

\* The inductive invariant behind them.
IInv == /\ TypeOK
        /\ \A n \in Nif : mInactive[n] \subseteq mSubscribers[n]
        /\ OnlyCreatedWork
        /\ ListedIffBusy
        /\ SomebodyWaits

\* No handle disappears from a machine without being told how it ended
\* (notifyAllSubscribers before erase).
NobodyForgotten ==
    [][\A n \in Nif : mSubscribers[n] \ mSubscribers'[n]
                           \subseteq calls'.failed \cup calls'.closed]_vars

\* The platform sees requests and releases alternate on each interface:
\* requestOrReleaseDataConn never asks twice for what it already holds.
PhaseOf(state) == CASE state = "RELEASED" -> "idle"
                    [] state = "RELEASING" -> "closing"
                    [] OTHER -> "wanted"
ConnPhase == [n \in Nif |-> PhaseOf(mState[n])]

Conn == INSTANCE DataConn WITH phase <- ConnPhase, sent <- calls.conn

DataConnSpec == Conn!Spec
=============================================================================
