# A verification project for the location stack of `device_xiaomi_sm8450-common`

The repository is the device tree of a family of Android phones. Most of it is
data: overlays, policies, boot scripts. Its program logic is the GNSS location
stack in `gps/` (C++), which runs as a vendor service between Android, the modem
and the clients of the location API, and the service of `duck-rkp`. This project
models the parts where threads, processes, messages and answers meet, checks the
models with TLC, and proves the most important results with TLAPS.

## 1. Inventory

How the parts fit together: a client calls `LocationAPI`; a call becomes a
`LocMsg` in the queue of an adapter (`GnssAdapter`, `BatchingAdapter`,
`GeofenceAdapter`), whose one thread (`MsgTask`) runs `proc()` of one message
after the other. The adapter asks the modem through `LocApiBase`; the modem
answers with a `LocApiResponse`, which is again a message of the same queue.
Timers and system events (`LocTimer`, `SystemStatusOsObserver`) call back from
threads of their own. So inside an adapter nothing races, and most of what
is hard comes from what happens *between* two messages.

| Component | State | Operations | Hard behaviour | What makes it correct |
|---|---|---|---|---|
| AGPS: `gnss/Agps.cpp` | per interface a state, a list of subscribers, who of them is inactive | request and release of a handle (ATL), reports granted, denied, closed | several handles share one connection; answers of the platform are late and carry no reference to their request | each handle is told how it ended; a connection is asked for and given back in turn; handles told GRANTED have one |
| AGPS callers: `gnss/NativeAgpsHandler.cpp`, AGPS part of `GnssAdapter.cpp`, `android/2.1/AGnss.cpp` | network state, queued messages | commands of the modem's thread, of binder threads and of the WDS library | three threads, a handler that answers inside the call, a report outside the queue | requests and releases are answered; nothing leaks |
| Tracking: `GnssAdapter.cpp` 2584-3630 | time based and distance based sessions, postponed messages, power state, capabilities | start, update, stop, removal of a client, suspend and resume, modem up | sessions share one session of the modem; the answer arrives many messages later; modem restarts | the modem runs what the sessions need; no session lost or left over; each call answered |
| Configuration: `GnssAdapter.cpp` 1440-2010, 6300-6500 | blacklist, constellations, secondary band, settings, file | update, reset, restart | written by two threads, told to the modem by one, forgotten by the modem | what was configured last is stored, and the modem has it, also after a restart |
| Event mask: `GnssAdapter.cpp`, `LocApiBase.cpp` | masks of the adapters, NMEA types | callbacks of clients, services, engine hub | whole-mask writes against single bits; restart | the modem reports what somebody needs |
| GPS lock: `GnssAdapter.cpp`, control client, XTRA observer | locks of the file, of the framework and in the modem; control id | enable, disable, update | commands queued while others are on the way; restart | modem and XTRA know the lock the last command asks for |
| NI: `GnssAdapter.cpp` 4800-5040 | two sessions, a thread for each request | request, answer, timeout | timer against answer against the next request | the modem is told once, and what the user said |
| ODCPI: `GnssAdapter.cpp` 5041-5375 | request active, timer, handlers by priority | start, stop, emergency, expiry | requests around the expiry of the timer | sessions are repeated, none waits for a timer that does not run |
| `LocTimer`: `utils/LocTimer.cpp`, `LocHeap.cpp` | delegates, heap, timerfd, epoll set | start, stop, expire | clients, poll thread and message thread | each start ends once, not early, not never; each delegate deleted once |
| Message queue: `utils/msg_q.c`, `MsgTask.cpp`, `LocThread.cpp` | list, `unblocked`, thread state | send, receive, unblock, flush, destroy | shutdown while senders and the receiver are active | FIFO, no message lost before unblock, the thread ends |
| Adapter base: `core/LocAdapterBase.cpp`, `LocApiBase.cpp`, `ContextBase.cpp` | clients, session ids, event mask, adapters | add/remove client, open/close, restart | restart of the modem between any two messages | events reach those who registered |
| `core/SystemStatus*.cpp` | caches of reports, subscriptions to OS data | subscribe, unsubscribe, notify | subscription merging over clients and the OS | an item is asked of the OS while somebody wants it |
| `batching/BatchingAdapter.cpp` | sessions, trips, distances left | start, stop, update, trip completed | trips of all clients share one of the modem; restart | the modem batches what the sessions need |
| `geofence/GeofenceAdapter.cpp` | fences and the modem's numbers for them | add, remove, pause, resume, modify | calls on several fences; new numbers after a restart | ids map one to one, each id answered |
| `location/LocationAPI.cpp` | client map, clients being destroyed | create, update, destroy, adapter done | adapters finish on their own threads | object deleted once, after all adapters |
| `location/LocationAPIClientBase.cpp` | request queues, session maps | match responses with calls | responses out of order, sessions switched between tracking and batching | each callback belongs to its call |
| Android HAL: `android/` | one object of HIDL and one of AIDL, their API clients, callbacks by version, pending configuration | set callback, start, stop, cleanup, capabilities | the framework dies and comes back; two threads tell capabilities | the present callback is called, and knows what the last one was told |
| `duck-rkp` | none (one worker process for each request) | request, worker, kill, reap | two timeouts (35 s at the service's socket, an alarm after 30 s in the worker), crash of the worker or of the library | one answer for each request, every worker reaped |
| `XtraSystemStatusObserver`, `LocIpc` | sockets | send/receive | peer goes away | - |
| `udfps/`, `sensors/`, `parts/` | device nodes last written, settings of an application | callbacks that set kernel nodes | callbacks against a polling thread | the node follows the last event |

`PROJECT.json` lists under `hazards` where each of these bites, and which
property looks after it.

## 2. Modules

| Module | Models | Used by |
|---|---|---|
| `DataConn` | what AGPS promises to the platform (abstract) | instantiated by `Agps` |
| `Agps` | `AgpsStateMachine`, `AgpsManager` | `AgpsSystem`, `AgpsProofs` |
| `AgpsSystem` | adapter queue, modem, native handler, framework, WDS library | `MCAgpsSystem` |
| `Tracking` | tracking sessions, multiplexing, modem requests | `MCAdapter`, `TrackingProofs` |
| `ApiClient` | `LocationAPIClientBase`: calls, request queues, answers | `MCClients`, `ApiClientProofs` |
| `Batching` | batching sessions and trips | `MCClients` |
| `Geofencing` | fences, the modem's numbers, calls on several fences | `MCClients`, `GeofencingProofs` |
| `GpsControl` | GPS lock, control client, NFW | `MCAdapter`, `AdapterProofs` |
| `GnssConfig` | what clients configure, in the adapter and in the modem | `MCClients`, `GnssConfigProofs` |
| `EventMask` | events and NMEA types asked of the modem | `MCAdapter`, `AdapterProofs` |
| `OsObserver` | subscriptions to data items of the framework | `MCClients`, `ServicesProofs` |
| `HalGnss` | the two `IGnss` objects and their clients | `MCClients`, `ServicesProofs` |
| `LocTimer` | timers, heap, poll thread, message thread | `MCServices`, `MCLocTimer`, `UtilsProofs` |
| `MsgQueue` | `msg_q`, `MsgTask`, end of the thread | `MCServices`, `UtilsProofs` |
| `NiSessions` | NI requests, their threads and timeouts | `MCServices`, `AdapterProofs` |
| `Odcpi` | coarse position requests and their timer | `MCServices`, `AdapterProofs` |
| `LocationApi` | creation and destruction of clients against the adapters | `MCServices`, `ServicesProofs` |
| `Rkp` | key provisioning: service, worker, vendor's library | `MCServices`, `ServicesProofs` |
| `AgpsProofs`, `UtilsProofs`, `AdapterProofs`, `GnssConfigProofs`, `TrackingProofs`, `ServicesProofs`, `GeofencingProofs`, `ApiClientProofs` | theorems about the modules they extend; `UtilsProofs` serves `MsgQueue` and `LocTimer`, `AdapterProofs` `Odcpi`, `NiSessions`, `GpsControl` and `EventMask`, `ServicesProofs` `OsObserver`, `Rkp`, `LocationApi` and `HalGnss` | |

`MCAdapter`, `MCClients` and `MCServices` put components side by side that share no state: a
behaviour explores the component that `part` names and leaves the others in their
first state, so a run checks each of them completely and the sum of their states
instead of the product. Only `ApiClient` is run in two parts that share state (Section 3). `AgpsSystem` composes components that do interact.

Operators whose name starts with `Mut` are plausible slips of the code. They are
used by no specification; each shows that some property would notice the slip.
Variables commented as history record what a property needs and steer no step.

### Agps

`mState`, `mSubscribers` and `mInactive` are the fields of one
`AgpsStateMachine` for each interface: `AGNSS` serves the SUPL types, `Internet`
serves `WWAN_ANY`. `created` says which machines the manager has. `calls` is
what the last operation called: who was told what (`atlOpenStatusCb`,
`atlCloseStatusCb`), and what was asked of the platform. One action for each
operation of `AgpsManager`; the five `processAgpsEvent...` functions are
operators on one machine.

Left out: APN, bearer, subscription id, and the type of a request beyond the
choice of the machine. `mWaitForCloseComplete` is always TRUE
(`requestATL` is the only place that makes a subscriber), so the branches for
FALSE are dead. `handleModemSSR` has no caller.

### AgpsSystem

`queue` is the adapter's message queue. Each `Proc...` action is `proc()` of the
message at its head, with the callbacks it makes: `CarryOut` tells the modem,
and hands a call to the platform. `NativeAgpsHandler` answers inside the call,
by posting a message; the framework keeps the call in `inbox` and answers later.
`session[h]` is what the modem thinks of a handle; `held[n]` says whether the
platform has a connection up. A modem uses a handle again only after it was told
that the last use is over. `releaseEarly` says whether it may release a handle
before it is answered.

A report with a bad APN is handled on the binder thread, with no lock; it is
modelled as one step between two messages. That a lost mobile network is not
reported is left out (`held` follows what the handler was asked). A failed close
reported by an external library is left out.

### Tracking

`timeBased` and `distanceBased` are the two maps of sessions; `queue` holds the
clients' messages and the modem's answers, `requests` what the modem has been
asked and has not done. Requests are served in order; each answer comes back as
a message that names the handler to run (`startDone`, `updateDone`, ...), as the
lambdas in `LocApiResponse` do. `ToStart`, `ToStop`, `ToUpdate` and `ToRestart`
are the four places where the options of several sessions are combined. The
modem may refuse the kinds of request in `Fails`.

Left out: quality level, fixed N-Hz sessions, DGNSS, the engine hub, the clamp of
the interval, the M4 fallback, clients without callbacks, power mode INVALID.
A modem restart with requests on the way is outside the bound.

### ApiClient

The calls of one client, the four request queues of `LocationAPIClientBase`, and of the adapters
behind it what decides when and how a call is answered. The adapters' thread comes to the calls
in their order (those that `BatchingAdapter` and `GeofenceAdapter` put aside until the capabilities are known come
later) and then either answers at once (`AnswerAtOnce`: the multiplexed session need not change, or the session is
unknown), says nothing (`SayNothing`), or asks the modem (`AskModem`), whose answer comes later
(`ModemAnswers`) and may be an error for the kinds in `MayFail`. So an update or a stop can be
answered before the start of the same session. `running` are the sessions that the
adapters have saved.

`QueueFor` and `Deliver` are `getRequestBySession` and the pop of the request, under `mMutex`; what the
request does afterwards runs without it, so `Forget` (`removeSession`) is a step of its own and calls come
in between. All numbered sessions share one queue of requests, which a new call does not wait for.
`SwitchSession` is the path where an update turns a tracking session into a batching one or back: the
old session is stopped without a request and the new one started, and the update waits for that start. An update
of batching is answered twice, for its stop and its start. A removal of fences drops their names at the
call, whatever the adapter answers.

Two histories: `irregular` says that numbered sessions may be out of step, because the client called
about one while answers for numbered sessions were outstanding, a call was put aside and overtaken,
the modem refused a part of an update or a stop of tracking, or an NI request has the number
of a session; `resumeLost` that a refused resumption of fences was not answered.

Left out: trips of numbered sessions, which no client in the repository asks for (`Batching` has
trips), and what positions the callbacks deliver.

### Batching

Routine sessions, sessions on demand and trips with what is left of their
distance. `asked` is what the modem was asked; a completed trip, an answer and
a restart come back as messages. Suspension stops everything and `restartSessions`
asks again. `SuspendsBusy` says whether the device may be suspended while
requests are on the way, `calm` runs do one call at a time (see bounds).

The adapter's books of a trip say what it had covered when the modem's trip last started
(`onRestart`), at the last count (`this`), and the modem's count when it joined (`ongoing`). The history `slips`
says what has put them out of step with the modem: "midway", the modem started again while a trip had
joined midway (finding 6); "overlap", a trip was updated beside another; "stale",
what is left was worked out before the modem said how much was covered since.

### Geofencing

`mGeofences` and `mGeofenceIds` are the maps between a client's id and the
modem's number. A call on several ids becomes one item each; each waits in the
queue of the modem's interface, and the answer of the last one answers the call.
After a restart all fences are added again under new numbers, and paused ones
paused. `FenceRefused` says what the modem may refuse. The code keeps requests by
the modem's number, and the modem gives out the least one that is free: `crossed`
says that a number was given out while a request still had it, after a restart or
because two removals of one fence were under way. Each call keeps what it told for each of its
fences (`told`) and for which the modem did what was asked (`done`), so that the two can be compared.

### GpsControl, GnssConfig, EventMask

Three parts of `GnssAdapter` that keep a copy of something in the modem. In each
of them the adapter's thread handles commands, the thread of `LocApiBase` tells the
modem in the order the messages were sent, and a restart of the modem clears its
copy. `GpsControl` has the lock (`GPS_LOCK` of the file, the framework's bits, the
control client's enable and disable) and the copy that XTRA is told.
`GnssConfig` has constellations, blacklist, secondary band and settings, which
are written from both threads; `crossedWrites` is the history of such writes that
crossed. `EventMask` has one mask for each adapter and the NMEA types. The histories
in `maskHistory` mark the situations that Section 6 lists, where
the code loses a bit, so that the properties can be stated for everything else.

### OsObserver

The two maps from observers to data items and back, kept as the code keeps them,
the framework's subscription object that arrives late, and the cache of last
values. All calls carry what they need, so handlers run in any order.

### HalGnss

Two `IGnss` objects, HIDL and AIDL, each with a binder thread that serves one call
after the other; the adapter's thread comes in between and tells capabilities.
`setCallback` is the steps clear, `getApi` with the slot and enable,
`requestCapabilities`, and `onCapabilitiesCb` as two steps (store, then call).
A callback stands for the incarnation of the framework that gave it; the next one
calls only when the binder has told of the death of the last. The AIDL object's
`mApi` is never initialised (`aidl-impl/Gnss.h:72`) and is taken for null, since the
platform's allocator clears memory. The control of the receiver is one for both.

Two exemptions are named and stated in the properties. `capCrossed`: the binder
thread stores and tells a mask that the other thread has replaced meanwhile.
`LostToNi`: a framework of `IGnss` 1.1 that sets an NI callback loses its own,
because the callback of 1.0, which is null, is handed on (`Gnss.cpp:223-231`). And the
name of an assistance server that waits for the client is lost: it is copied only
if there was one before.

### LocTimer

A delegate is a pair of its timer and a number; each start creates one. `heap`
and `top` stand for `LocHeap`: a set and its first element, where the choice
among equals is left open. `queue` holds the Push, Remove and Expire messages;
`armed` and `polled` are the timerfd and its place in the epoll set. The poll
thread has three steps (wake, disarm, post). `proc()` of Expire is several
steps: pop, read `mClient`, stop, call back, next, because clients run in
between. `Stop` and `Start` are one step each, since they run under the lock
that the timer shares with its delegates. `ended` is a history of how each
delegate ended. One container is modelled of the two. Deleting a `LocTimer`
object and the C wrapper are left out.

### MsgQueue

The sections under `list_mutex` are single steps: send, receive, unblock, flush. The
receiver's thread and the owner each hold a reference to the runnable; who lets go
last flushes and frees. History counts where every message went.

### NiSessions, Odcpi, LocationApi, Rkp

`NiSessions` has two sessions and a thread for each request; `tLock` is a lock, what the
code does outside it is a step of its own. `Odcpi` has the adapter's handlers, the
timer of ten seconds and the engine-up message. `LocationApi` has the client map, the map
of clients being destroyed, and the queue of the adapters' thread; the three
adapters answer in any order. `Rkp` has the service, its worker process and the
library inside the worker, which answers, fails, hangs or crashes at any point;
a reply may be whole or partial.

## 3. What is checked

| Run | Bounds | Result |
|---|---|---|
| `agps_safety` | 2 handles, 2 types, 2 interfaces, early releases, bad APN, 1 PDN query, 2 unanswered messages before the modem asks again | 238,684 states, all hold |
| `agps_live` | the same with no PDN query and good APNs, fairness | 36,118 states, all hold |
| `agps_stale_answer` | early releases, up to 4 unanswered messages | `GrantMeansConnection` violated |
| `agps_bad_apn` | orderly modem, bad APN | `RequestAnswered` violated |
| `adapter` | the three parts of `MCAdapter`; tracking: 2 clients that wait for answers, 3 kinds of session, 2 sessions, 1 update, 2 modem starts, 2 power changes, refused distance starts | 1,736,702 states, all hold |
| `tracking_ghost` | clients that do not wait | `NoGhostSession` violated |
| `tracking_power` | 3 time based sessions of 6 kinds | `EnginePowerEnough` violated |
| `clients` | the seven parts of `MCClients`, bounds below | 1,175,403 states, all hold |
| `services` | the six parts of `MCServices`, bounds below, fairness | 128,374 states, all hold |
| `loctimer_early` | 2 timers, 3 starts, delays 1 and 2, clock to 3 | `NeverEarly` violated |
| `trips_restart` | the sessions of `clients` in batching | `TripsGoOn` violated |
| `client_batching` | one id, 2 batching sessions, 2 answers owed, no refusal | `NamedSessionRuns` violated |

Why these bounds are enough for the interesting cases.

* AGPS: two handles on one interface already meet in every state of a machine (one
  leaves while the other waits, holds or joins), and a third adds no new guard, since
  the code asks only whether a list is empty or has an active member.
* Tracking: two sessions give the last, the first and the fastest session, and a switch
  while another one shares the modem; the power mode needs a third.
* ApiClient: two session ids that share a queue, two fence ids, one NI number that no session has
  (101), two sessions of the adapters, two answers owed, sessions of tracking
  and of routine batching. An id can be queued twice, be switched, and have an answer that comes after its session
  was replaced; two ids can get each other's answers. Calls on fences and NI responses have queues of
  their own, and run with plain tracking, without numbered sessions (`otherCalls`); all kinds of calls
  together, with one fence, gave 535,514 states, in which all properties held. With one id and three sessions, or with NI numbers
  2 and 101 and two ids (526,000 states), all properties held too, and four calls on fences
  with a modem that refuses resumptions gave 3.26 million states.
* Batching: one client with two sessions of four kinds (a routine one, one on demand, two
  trips each of which beats the other in one thing), two requests on the way, two modem
  starts, a refused start. Two trips are enough for one that joins the other midway, for a restart with both, and
  for one that is updated or ends beside the other. Trips (`calm`) do one call at a time, and the device is not
  suspended while requests are on the way (`SuspendsBusy = FALSE`): what happens
  otherwise is in Section 6.
* Geofencing: one client, two fences, two calls of up to two ids, one restart, two power
  changes, refused modify and resume. `crossed` exempts numbers that were given out again while
  a request had them, and a restart during suspension. A number crosses without a restart
  only with three calls (6,188,926 states with one place in the queue, all properties hold);
  the theorems hold for any number.
* GpsControl: one control client, four calls, two modem starts; file and framework lock
  nothing or something. GnssConfig: one constellation with two satellites, one setting, two
  calls, one restart; with three calls 10,088,550 states held. EventMask: two clients,
  the same two as in tracking and exchanged by symmetry with them, of each kind of callback, three devices, three calls, one
  restart; with a fourth device (only `NMEA_PROVIDER_MP`) 545,486 states
  held. OsObserver: two observers, two items, one of them only requested.
* HalGnss: two incarnations of the framework, versions 1.0 and 2.1 of HIDL and the AIDL
  object, three calls, two masks, two items of configuration; with version 1.1 as well 562,055
  states held. Three calls allow two versions one after the other around a death.
* MsgQueue: four messages of two senders and of the thread itself. Timers: two timers, two
  starts, two delays: a timer that is started again while its old delegate is in every place.
  With three starts, where another timer takes the first place of the heap meanwhile, 255,147
  states of the timers alone held. Rkp: two requests, so that a late worker meets the
  next one. NI: two requests of each kind. ODCPI: three requests, two handlers, one restart;
  with four requests 208,829 states held. LocationApi: two clients, one change of callbacks,
  one session. `ApiIInv` of `ServicesProofs` itself was run with three sets of callbacks and
  calls while up to three messages wait (`MaxBacklog = 3`): 2,075,186 states held.

`clients`, `services`, `adapter` and `loctimer_early` do not check for deadlock: the bounds
on calls, restarts and time end the behaviour. The AGPS runs check it.

### What the properties say

AGPS:

* `SessionsTracked`: what the modem thinks of a handle is what the machines hold
  for it, up to queued messages.
* `NobodyForgotten`: no handle leaves a list without being told in the same step.
* `DataConnSpec`: on each interface, requests and releases alternate as `DataConn`
  says: nothing is asked that is wanted already, nothing given back twice.
* `OrderlyConnections`: for a modem that releases only what it was granted, a machine in
  ACQUIRED has a connection or will read that it is gone, and a RELEASED one leaves none up.
* `HandlesAnswered`: no handle waits for ever, neither after a request nor after a release.

Tracking:

* `EngineServesSessions`: when nothing is suspended, the modem has been asked for an interval
  as small as the sessions need, and for nothing when there are none.
* `SessionsAsTold`: when everything is answered, the sessions are those that were started
  and not stopped: none is left over and none is lost.
* `EveryCallAnswered`: no call is left without an answer.

Clients:

* `AnswersMatched`: in whatever order the adapters and the modem answer, each answer for tracking and
  for geofences finds a call of its own session, the tracking queue and the queue of geofences are as long as
  answers are owed to them, and no NI answer is waited for that will not come.
* `SessionsInStep`: while a client of numbered sessions calls in turn (`irregular` is FALSE), the one
  queue they share has the requests that are owed an answer, in their order, and each answer finds its own; and
  when all is answered the adapters have the sessions that have a name and no others, over refused
  starts, stops and updates and over switches between tracking and batching. What a client gets that
  does not call in turn shows finding 7.
* `SessionsAreBatched`: when things are settled the modem batches for the sessions of the
  clients and no others and reports full batches while somebody needs them. While clients have trips the
  modem goes on counting, at the least of their intervals, and its trip ends where the first of theirs
  does: each of the three but for the slips that concern it (`slips`).
* `FencesTracked`: an id's number names the fence of that id, until a number has crossed; and the
  adapter knows each fence that the modem watches, with its options.
* `FenceCallsAnswered`: no call is answered twice, and each is answered once nothing of it is under
  way, but for a resume that was refused.
* `FenceAnswersHold`: what a client is told is true and lasts. The answer to an add, a removal or a pause
  tells each fence its own result, in the place it has in the call, unless the last one is unknown
  (`OwnResults`). And a fence that was added and not removed is watched once everything is quiet, and paused if it was
  paused and not resumed, through a restart of the modem (`FencesKept`), for runs in which no number
  has crossed and the power state has not paused fences.
* `LockAgreed`: modem, XTRA and the user's switch agree about the lock.
* `ConfigKept`, `RestartRestores`: what clients said last is stored and in the modem; a modem
  that came up has what was stored, merged as the code merges it.
* `ModemReports`: the modem reports every event a callback or a service needs and none that no
  adapter asks for, and makes the sentences of the file and of the clients.
* `ObserversServed`: an observer has the last value of each item it subscribed to, and the
  framework is asked for what somebody wants and nothing else.
* `HalServesClient`: between calls, the callback that is called is the one set last; it was told
  the capabilities of the modem; what was configured before it came has been handed on.
* `DeadClientReleased`: after the death of the framework no session runs for it and it holds
  no power and no control of the receiver.

Services:

* `QueueSafe`: the queue is not used after it was freed; messages are handled in order, each
  deleted once. `QueueProgress`: a task that is stopped ends and frees its queue; a
  message is handled unless the task is stopped.
* `DelegateAccounted`: a delegate is in one place at a time and deleted once. `WakeupPending`:
  a delegate in the heap is looked at in time; the race of the poll thread with a newly armed
  timerfd loses a setting, and the Expire message that follows makes it good. `EndsOnce`: a
  delegate is stopped or fires, never both. `EveryTimerEnds`: nothing is missed.
* `RequestsEndClean`: a request is answered only when its worker is reaped, and OK only with the
  whole reply to this request.
* `ModemToldRightly`: the modem is told once for each NI request, what the user said if the user
  was in time, and an emergency overrides.
* `EveryRequestEnds`: every key provisioning request is answered and no worker outlives a service that
  died (`RequestsEnd`), and every NI request ends (`NiRequestEnds`), thanks to the timeouts.
* `OdcpiConsistent`: a timer that counts as active comes back, an active session is repeated, an
  emergency call ends with its session. `OdcpiIsAsked`: every session reaches its handler.
* `DeadAreForgotten`: once a `LocationAPI` object is deleted no adapter knows it and no message will
  bring it back. `ClientServed`: adapters work with the callbacks set last and tell the
  capabilities. `ClosingEnds`: a destroyed client is deleted in the end.

`IInv`, `SysTypeOK`, `AdapterTypeOK`, `ClientsTypeOK`, `ServicesTypeOK` are the inductive and type invariants.

### Fairness

`agps_live` assumes that the adapter's thread runs while its queue is not empty
(it blocks on a condition variable and nothing else), that the framework
and the WDS library answer what they were asked, and that the modem gives up an
open connection in the end; the last one because an open connection is the only
thing a waiting handle can wait for. Nobody has to ask, no connection has to
be lost, and a modem need not withdraw a request.

`services` assumes weak fairness of what runs by itself: the thread of a queue, and a stop
that was begun; the message and poll threads of the timers, and time; the service's thread
of `duck-rkp`, the timeout of its socket and the worker's alarm, and the worker's first two
system calls (the rest of the worker may hang for ever, since it is the vendor's
code); the timeouts of NI threads and the thread's end; the adapter's thread, the timer and
the engine-up message of ODCPI; the adapters' message thread of `LocationApi`. Users,
clients, the modem, senders and the framework owe nothing.

`adapter` and `clients` have no fairness: their properties are invariants, and those about
the end of things are stated for the states where nothing is under way.

## 4. Where the code does not do what it says

1. **AGPS answers are not matched with requests** (`agps_stale_answer`). A handle is
   released while its request is unanswered, another one asks, and the denial of the
   old request is taken for the close: from then on each answer is taken for the next
   question, and handles are told of a connection that nobody holds.
2. **A bad APN is reported as a close** (`agps_bad_apn`), which a waiting machine
   ignores. The handle waits for ever.
3. **A timer started again can fire at once** (`loctimer_early`). `expire()` reads
   the client without the lock and stops whatever the client is running by then.
4. **A postponed start survives its stop** (`tracking_ghost`). `mPendingMsgs` is not
   searched when a session is stopped.
5. **The power mode of the other sessions is lost** (`tracking_power`) when a session
   with a smaller interval starts: it is collected, compared and not assigned.
6. **Trips stop after a restart of the modem** (`trips_restart`). `restartSessions` resets the
   starting point of each trip in a copy (`for (auto tripSession : mTripSessions)`,
   `BatchingAdapter.cpp:221-238`). A trip that joined another midway is then not complete when the modem's
   trip ends, nor is any other; nothing is asked for again and no trip is ever completed.
7. **A stopped batching session keeps its name** (`client_batching`). A client asks for its positions
   while its stop waits for the modem. The adapter no longer has the session and answers `ID_UNKNOWN` at
   once; that answer is given to the stop, which keeps the name because of the error, and the stop's success
   to the other call. The id can be started no more (`ALREADY_STARTED`).

The bad APN is left out of `agps_live`, and impatient clients out of
`adapter`, so that the other properties are still checked for everything else.
`SessionsAreBatched` exempts what finding 6 spoils, and `SessionsInStep` clients
that do not call in turn.

## 5. What is proved

`AgpsProofs`, for every set of handles, with no assumption on it:

* `InvariantHolds`: `Spec => []IInv`. The type invariant alone is not inductive, nor is
  the statement the code comments make ("Subscriber list should be empty if we are in
  released state"). `IInv` adds that inactive handles are subscribers, that a machine
  which does not exist is RELEASED, that a list is empty exactly in RELEASED, and that
  PENDING and ACQUIRED have an active subscriber and RELEASING an inactive one. The
  last one is needed for `Denied` and `Released`: in RELEASING those who wait for the
  close are told and removed, and the list must end up empty exactly when the machine
  goes to RELEASED. The proof is machine by machine: `IInvIsPointwise` splits the
  invariant, `StepIsEvent` shows that an operation is one event of one machine or
  leaves the machines alone, `EventIsLocal` that an event leaves the other machine
  alone, and `EventKeepsMachine` does the five events.
* `HandlesAreToldWhenDelisted`: `Spec => NobodyForgotten`, from `EventCalls`.
* `ImplementsDataConn`: `Spec => DataConnSpec`: the initial state maps to the initial
  state, and every step maps to a step of `DataConn` or to a silent one.

The same module then proves the composition with the modem, the platform and the queue, for any
number of messages in it:

* `SystemUsesComponent`: `SysSpec => Spec /\ []SysTypeOK`. Every step of the system is a step of
  `Agps` or leaves its variables alone, so the three theorems above carry over. The types are not
  inductive alone: `CarryOut` needs that a handle the component tells is one of the modem's.
* `SessionsAreTracked`: `SysSpec => []SessionsTracked`. `SysIInv` has one conjunct for each handle
  (`HandleInv`): what the modem believes of it fits the machines *after the queue is worked off*, so
  it speaks of the last request or release in the queue that names the handle. A step that appends
  and one that takes a message have a lemma each, which says how "the last one" changes; the step
  lemmas then go through the events of a machine.
* `ConnectionsAgree`: `~WdsQuery => (SysSpec => []OrderlyConnections)`. `OrderlyIInv` adds that each
  message of the platform in the queue or its inbox fits the phase of the machine (`ConnFits`,
  `InboxFits`): for a modem that releases only what it was granted, a machine has one thing under way
  at most. The hypothesis is needed: with `libloc_api_wds.so` the answer to a PDN type query can be
  handled after the report that the connection it is about was lost, and TLC finds the
  property violated. Bad APNs are allowed, and so is any bound of the queue.

The last property speaks of a modem that never releases a handle before it is answered
(`releaseEarly` is FALSE, and no step changes it); for the other one the first finding shows how it fails.

`TrackingProofs`, for any clients, options and intervals, any number of calls, power changes and
restarts, under the hypotheses `Obliging`: `TrackingTypeOK` and `SessionsServed` (`Obliging => (Spec => []EngineServesSessions)`). What
the modem will run is the last time based request under way, or what it runs now (`Target`); one
lemma each says that what `ToStart`, `ToStop`, `ToUpdate` and `ToRestart` ask for serves the sessions that remain,
from lemmas about `Fastest`, `Multiplexed` and `Combined`. That this is inductive needs that a session
changes only by its own messages, so `TrackIInv` has three parts more:

* `OneInFlight`: at most one message about a session is queued, postponed or the answer to a request of the modem's.
* `FlightFits`: it is about a session as the maps have it, by its kind (`Says`) - a start about one in neither
  map, an update's answer about one that is time based - while its client waits for the answer (`Awaited`);
  or it is the rest of a session whose client is being removed (`Orphaned`).
* `RemovalFits`: a client is removed once, and `Postponed`: nothing waits once the capabilities are known.

`Obliging` names the hypotheses, each of which TLC shows to be needed: without it the property is
violated. Distance based sessions are supported: otherwise a time based session updated to a distance based one is stopped
at the modem and saved as a time based one (`GnssAdapter.cpp:3371-3385`). A client waits for an answer
before its next call on a session: of three updates at once the first answer is taken for the second. The modem
refuses no start and no stop of the time based session: after a refused first start the sessions that joined
it stay in the map (`GnssAdapter.cpp:3271`). It may refuse a start or a stop of a distance based one.

`SessionsHeld` and `CallsAnswered` prove the other two properties of tracking in the `adapter` run. Both speak of the moment
when the queue and the requests are empty, so the invariant, `HeldInv`, says of each session what
holds on the way there. `Held` has two halves. Either a message about the session is in flight, or
it rests (`Rests`): if it is in a map then its client is known and has not stopped it, and nobody waits for an
answer. And either the adapter is at work on it - what is in flight is no new start or update - or
a client that was told "success" finds it in a map (`Lives`). The second half is split otherwise than the first because
a postponed message may be all that is in flight when nothing is left to do, and a session that is
about to be updated must be there even so. One lemma serves every handler (`AnswerHeld`): it has told the client and then the
session is in a map as it was told, or it asks the modem and the answer is in flight. The
theorems need one hypothesis more: the modem refuses no stop of a distance based session. TLC
shows both properties violated otherwise: the session of a removed client stays in the map for good
(`GnssAdapter.cpp:2657`), and a client that updates a distance based session is never told that its restart
failed (`RestartStopDone`). A refused start of a distance based session, which the run has, is covered.

`UtilsProofs`, for any timers, delays, starts and any time: `NoDelegateIsLost`, `TimersEndOnce` and
`NoTimerIsSleptThrough`. `DelegateAccounted` needs to know how many messages of each kind name a
delegate, because a queue may hold a Push and a Remove of it at once; `TimerIInv` gives, for each delegate, the
few combinations of alive, in the heap, Push and Remove under way that can occur (`AllPlaced`), and
that a timer points at a delegate that is not deleted (`TimersLinked`). How often a message is in a
queue is the cardinality of its places, with lemmas for a message appended and one taken.
`EndsOnce` is proved from the same invariant. `WakeupPending` is inductive beside it, by a case analysis
over who can touch the timerfd between the three steps of the poll thread.

`AdapterProofs`, four services of `GnssAdapter`, for any bounds:

* `CoarsePositionsHold`: `OdcpiSpec => []OdcpiConsistent`. That an emergency call ends with its session
  needs the order of what is queued: between a START of an emergency and a normal request
  there is a STOP (`CallsOrdered`).
* `ModemHearsTheUser`: `NiSpec => []ModemToldRightly`. The invariant says that each request is in one
  place - a session's, a thread's, a message - and that what a message carries is what the user answered
  (`InOnePlace`, `AnswersFit`).
* `LockFollowsUser`: `CtrlSpec => []LockAgreed`. The property looks at the modem when all is worked off;
  the invariant at the last lock on its way (`ModemWillAgree`), at the last switch of each client
  (`LoneClient`), and at what XTRA was told last.
* `ModemIsOpened`: `MaskSpec => []ModemReports`. The modem has a mask for each adapter, written whole or by
  a bit, by two threads. The property excepts what the code loses, which `nHzCut`, `powerLate` and `dataCut`
  record (Section 6); so does the theorem. `MaskWillAgree` says what the modem will have when LocApiBase's queue is
  worked off, `BitsFit` and `TypesFit` what the adapter's own copies must hold for the callbacks.

`GnssConfigProofs`, for any constellations, satellites, settings, calls and restarts: `ConfigIsKept` and
`RestartIsRestored`. Blacklist, constellations, band, settings and gps.conf travel through two
queues; of each kind the last message counts, unless a reset or a restart comes after it. `LastFits`
says that of a queue, and one lemma each says how it changes when messages are sent and when one
is taken; `CfgIInv` has a conjunct for each kind. It assumes (`GnssConfigAssumption`) that 0 is no
satellite's number, as it stands for all of a constellation, that blacklists and constellations are made of
the constellations there are, and that the settings are finitely many.

`UtilsProofs`, for any senders and any number of messages: `QueueIsSafe`
(`QueueSpec => []QueueSafe`). That nobody touches a freed queue depends on who holds a
reference, so `QueueIInv` ties the references to where thread and destructor are
(`RefsCounted`), and says that a thread ends only after unblock (`EndsWhenUnblocked`). That
messages are accounted for needs `MessageInv` besides: what is handled, under way and queued,
in this order, is increasing (`Ordered`), and every message sent is in one of the places
(`Accounted`).

`ServicesProofs`, for any observers and items: `ObserversAreServed`
(`OsSpec => []ObserversServed`). A notification finds observers through one map and what to send
them through the other, so the invariant `OsIInv` needs that the maps are inverse
(`MapsAgree`), and that nothing was asked before the framework's object was there.
It assumes that the items that may only be requested are items (`OsObserverAssumption`).

The same module, for any number of requests: `RequestsAreClean`
(`RkpSpec => []RequestsEndClean`). `RkpIInv` says what the worker may have sent by where it is
(`WorkerTruthful`) and what the service has received by where it is (`ServiceKnows`).

The same module, for any clients, sets of callbacks, libraries and bounds: `DeletedIsForgotten`
(`ApiSpec => []DeadAreForgotten`) and `ClientsAreServed` (`ApiSpec => []ClientServed`). Adds and
removals wait in the adapters' queue, and clients call while they do, so the invariant `ApiIInv`
speaks of what the queue will leave behind. For every adapter and client the last registration in
the queue, or else the entry, fits the callbacks (`Settles`); an adapter that is not loaded has
neither, and whatever a client wants is loaded if it exists (`Unloaded`, `EntriesLoaded`). The
life of an object (`Life`) fits its entry in `gData` and the queue: while it closes, each adapter
it waits for has exactly one completing removal, behind every other registration of that client,
and each other adapter has forgotten it; so the removal that empties the mask is the last trace of
the client. For the capabilities, the request is behind the client's own add, or put aside at an
adapter that has the client and does not know them yet (`WillBeTold`). The only assumption is that
callbacks and libraries are sets of adapters and the bounds are numbers (`LocationApiAssumption`).

And the `IGnss` objects (`HalGnss`), for any versions of `IGnss`, any number of frameworks, calls and changes of the
capabilities: `FrameworkIsServed` (`HalSpec => []HalServesClient`) and `DeadFrameworkIsReleased`
(`HalSpec => []DeadClientReleased`). Both properties speak of objects between two calls, so the
invariant says what holds in the middle of one: without a callback no call that sets one is under way
and nothing is held (`NoCallback`); without a client there is nothing to hold (`NoClient`); the callback
is in its slot when `getApi` is over and no other slot is filled (`SlotsFit`); what was configured waits
or was handed on (`ConfKept`); and whoever is about to tell the capabilities, or will read them from the
cache, has those of the modem (`CapsFresh`), from which it follows that they were told (`CapsTold`). Each
theme has a lemma with a step for each action that can disturb it. The only assumption is on the names
of the versions (`HalGnssAssumption`), which TLC evaluates in `clients`; the proof does not need it.

`GeofencingProofs`, for any clients, fences, calls, requests of any length, refusals, suspensions and
restarts of the modem: `FencesAreTracked`, `FenceCallsAreAnswered` and `FenceTypes`. `FenceInv` says
three things more than the properties:

* No part of a call is in the queue twice (`PartsOnce`), as a turn or as a request, so that a call has
  its answer exactly when its last part has left the queue (`RepliesOf`). Earlier parts may be under
  way still: a part that becomes a request goes to the end of the queue again.
* What is to be added, for a call or after a restart, is in the queue once and is not saved, and no
  fence is saved under two numbers (`AddedOnce`). Hence fewer fences are watched than there are numbers
  while one is to be added, by a counting argument over finite sets (`FreeNumber`), and the modem's choice
  of a number exists.
* An id that has a number names a fence that is saved and watched, and no removal of a client's fence
  that is still to come has that number (`NamesFences`), until a number has crossed.

What the steps do to the queue is one relation, `Moves`: the head may leave and items may enter at the end.
The lemmas about it are proved once and serve all eight actions. The proof has changed what is checked:
`FencesTracked` and `FenceCallsAnswered` used to be claimed of settled states only, and the first one was
false with three calls, because a removal for a client that leaves can meet another fence under its number
(`GeofenceAdapter.cpp:96`). Both now hold in every state. The only assumption is that the bounds are
numbers (`FenceBounds`).

`ApiClientProofs`, for any numbers of sessions, fences and NI requests, any number of outstanding
answers, any refusals and every order of the answers: `EveryAnswerMatched` (`ClientSpec => []AnswersMatched`). It has no
hypothesis about clients, adapters or modem. An answer names a session and not a call, and `getRequestBySession` takes
the first request of a queue, so the argument is one of counting. `ClientInv` has these parts:

* `TrackingMatched` and `FencesMatched`: a queue has as many requests as answers are owed to its session, and
  `NiMatched`: the NI queue has at most as many. The answers owed to a session are a set of places
  in `owed`, whatever their order; `PlacesGrown` and `PlacesShrunk` say how its cardinality changes when a call is
  made and when an answer in any place is given, and `PlacesFinite` that there is one.
* `OwnRequests`: all requests of a queue are for the queue's session, so that any of them will do for an answer.
* `Apart`: the number that the tracking queue has, or had when an answer was owed to it, is never that of a
  numbered session; so the answers of numbered sessions take no request of the tracking queue, nor the other
  way round. Numbers of geofences and NI requests are apart by `ClientNumbers` or by the property's exception.
  `Shape` has the types this needs.

A step that makes a call changes one queue and one count (`OtherCall`, `NumberedCall`), one that gives an answer
takes from the queue that `QueueFor` finds (`DeliverIs`, `LeavesKeeps`). The exceptions are in the
property: NI numbers that are also a session's (`NiIds` may overlap them), and geofences after a refused resumption
(`resumeLost`). `ClientNumbers` assumes that the numbers of sessions end below 999, which collective answers
stand for, that NI numbers are neither 999 nor 0, and that fences are finitely many.

That each of several calls of *one* session gets its own answer does not hold in the code, and for the queue
that numbered sessions share not even that the answer is of the right session; what holds when calls
come in turn is `SessionsInStep`, which is model-checked.

Only model-checked: `SessionsInStep` of `ApiClient`, and `FenceAnswersHold` of `Geofencing`, which
looks back at the whole history of calls. `SessionsAreBatched` of `Batching`, whose handlers loop over the sessions of a
client and over the trips (`StopClientSessions`, `Suspend`, `RestartSessions`, `LeastOf`). The model
writes these loops as folds, and what a fold yields for every number of sessions needs an induction
over data. Also the type invariants `AdapterTypeOK`, `ClientsTypeOK` (which has the types of `Batching`) and
`ServicesTypeOK` of the compositions: the inductive invariants above have those types of the other
parts that their proofs need. And what is out of the prover's reach: all liveness and fairness, and what a recursive
definition computes for every input; no module that a proof uses has one.

## 6. Not modelled, and what is known of it

* **Rest of `GnssAdapter`**: energy settings, DGNSS, answers to configuration calls and what clients
  read back, engine hub, power and battery indications, report fan-out and conversion.
* **`SystemStatus`**: its caches and parsers are data. `updateSubscription` has no caller; `turnOn`
  and `turnOff` pass straight on. `removeAdapter` has no caller, as `deinitialize` has none.
* **HAL**: measurements, batching, geofencing and visibility objects, and all conversions.
* **Utilities**: `loc_nmea`, `loc_cfg`, `LocIpc`, log buffers: formatting, parsing, sockets.
* **`udfps/`, `sensors/`, `parts/`**: small and apart from the location stack.
* **Data**: overlays, policies, scripts; the large data headers (`gps_extended_c.h`, `loc_gps.h`,
  `LocationDataTypes.h`, `SystemStatus.h`) hold types and no behaviour. Together they are the
  greater part of the repository's lines, so the map covers a small share of it.

Things met while modelling that no property claims, because the code does not do what one would
state, or because the step lies outside the bounds:

* `LocationAPI`: `destroyCompleteCb` is tested the wrong way round (`LocationAPI.cpp:215`, `359`).
* `LocationAPIClientBase`: an update of batching is answered twice and passes no options but the mode when the session
  was batching before (`LocationAPIClientBase.cpp:585`); a switch whose start is refused leaves a name with no session;
  a stop's callback comes before the name is removed, so that a start in the callback is refused
  (`LocationAPIClientBase.h:427-433`); a removal of fences that is refused, or is overtaken, leaves a watched fence without a name
  (`LocationAPIClientBase.cpp:676-692`); NI requests and sessions are numbered apart, both from 1, and looked up by
  number in one search (`GnssAdapter.cpp:4921`, `LocationAPIClientBase.cpp:948`).
* Batching: a refused stop saves the session with the options of the call
  (`BatchingAdapter.cpp:519`); a second trip is not in `mBatchingSessions` (792-863); trips that
  overlap while an answer is awaited confuse the distances that are left; a trip that is updated beside
  another leaves an interval that is not the least, and what is left is worked out before the query when a trip
  stops (935-1017), where `mTripWithOngoing...Dropped` are never reset; `reportCompletedTripsEvent`
  reads a map element after it was erased (680-690); the start, stop or update of an unknown or unsupported session is not
  answered.
* Geofencing: a fence of a client that leaves is removed by number even when a removal of it is under
  way; the second removal takes whatever fence has the number by then, and leaves that fence's id in
  `mGeofenceIds` (`GeofenceAdapter.cpp:95-110`). A refused change is answered SUCCESS, since the modem's
  answer is kept only when it is one (625-636); a refused resumption is not answered (546-565). A call whose
  last fence is unknown is answered, and its results freed, before the modem was asked about the others. A fence
  that is paused again after a restart is saved as not paused (211-217), so that a second restart leaves it running.
* ODCPI: an emergency START within ten seconds of an emergency STOP is put off and the call is not
  reported; a restart of the modem drops a session without telling the framework; a START between a
  restart and the engine-up message is forgotten.
* Configuration: `gnssUpdateSvConfig` sends the stored constellations and stores the new ones afterwards, so that the
  modem hears of each change one call late until it restarts (6428-6434); a new blacklist is not merged with the constellations that are disabled; writes of
  the two threads that cross lose the client's value (`crossedWrites`); `AGPS_CONFIG_INJECT` clears
  `LPPE_CONTROL_PLANE` twice (1213-1219); the lambdas of `gnssGetConfigCommand` capture a message
  that is deleted (1700-1895); the energy block of `gnssConfig` (5379-5410).
* Event mask: an N-Hz callback given twice turns its bit off, also a client's (7097-7105);
  a power indication after a measurements client does not ask for its event before the next change
  of the mask (6949, 2719); a modem that restarts makes no debug sentences for clients with
  `gnssDataCb` before the next one (1101-1124, 2737). `nHzCut`, `powerLate` and `dataCut` mark these.
* AGPS: `reportAtlClosed` on the binder thread (`GnssAdapter.cpp:5744`); type, APN and subscription of
  a new requester overwrite those of an open connection (`Agps.cpp:592`).
* Tracking: a start without callbacks is refused silently (`GnssAdapter.cpp:3141`), which the death of
  a measurements client runs into: `measurementSetCallback` with null leaves the base class tracking,
  and the next client gets no measurements before it closes once
  (`LocationAPIClientBase.cpp:351`); `GnssAdapter.cpp:3382`; the wrap-around of session ids
  (`LocAdapterBase.cpp:103`).
* HAL: `odcpiRequestCb` reads callbacks without a lock (`Gnss.cpp:539-583`); a second control client is
  refused, and closing the first one locks the receiver for both; the AIDL object keeps a dead
  callback in its client and never unlinks.
* DGNSS: enabling with new parameters while started forgets that it was started; a GGA queued before a
  suspension restarts the source.

What would come next: a proof of `SessionsInStep`, and of `SessionsAreBatched` with a prover for induction over data; the measurements,
batching and geofencing objects of the HAL.
