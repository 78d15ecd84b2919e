----------------------------- MODULE LocationApi -----------------------------
(***************************************************************************)
(* The life of a LocationAPI object (gps/location/LocationAPI.cpp): it is  *)
(* created with a set of callbacks, served by up to three adapters, and    *)
(* deleted when every adapter has forgotten it.  Clients call from threads *)
(* of their own under gDataMutex; the adapters share one MsgTask, which    *)
(* handles their messages in the order they were sent.                     *)
(***************************************************************************)
EXTENDS Naturals, Sequences, FiniteSets, SequencesExt

CONSTANTS
    Client,                \* the LocationAPI objects that are ever made
    Libraries,             \* the sets of adapters a build may have on disk
    Callbacks,             \* the sets of adapters that clients have callbacks for
    MaxUpdates,            \* bound: calls of updateCallbacks
    MaxRequests,           \* bound: requests for sessions
    MaxBacklog             \* bound: messages in the queue when a client calls

Adapter == {"gnss", "batching", "geofence"}

ASSUME LocationApiAssumption == /\ Libraries \subseteq SUBSET Adapter
                                /\ Callbacks \subseteq SUBSET Adapter
                                /\ {MaxUpdates, MaxRequests, MaxBacklog} \subseteq Nat

None == {"none"}           \* no entry of a map

VARIABLES
    libraries,             \* the libraries that can be loaded
    interfaces,            \* the interface pointers of gData that are not NULL
    clientData,            \* gData.clientData: the callbacks of each client
    waitAdapterMask,       \* gData.destroyClientData: the adapters to wait for
    object,                \* what became of the memory of each client
    completed,             \* the clients whose destroyCompleteCb was called
    queue,                 \* the messages of the adapters
    mClientData,           \* mClientData of each adapter
    known,                 \* the adapters with isEngineCapabilitiesKnown()
    mPendingMsgs,          \* of each adapter
    capabilitiesTold,      \* the clients that got their capabilities
    updates, requests      \* counts of the bounded calls

gData == <<interfaces, clientData, waitAdapterMask>>
adapters == <<mClientData, known, mPendingMsgs, capabilitiesTold>>
apiVars == <<libraries, gData, object, completed, queue, adapters, updates, requests>>

Msg(op, a, c, arg) == [op |-> op, adapter |-> a, client |-> c, arg |-> arg]

ApiInit ==
    /\ libraries \in Libraries
    /\ interfaces = {}
    /\ clientData = [c \in Client |-> None]
    /\ waitAdapterMask = [c \in Client |-> {}]
    /\ object = [c \in Client |-> "unborn"]
    /\ completed = {}
    /\ queue = <<>>
    /\ mClientData = [a \in Adapter |-> [c \in Client |-> None]]
    /\ known = {}
    /\ mPendingMsgs = [a \in Adapter |-> <<>>]
    /\ capabilitiesTold = {}
    /\ updates = 0 /\ requests = 0

\* Mutant: interfaces that were loaded before are forgotten.
MutLoadAnew(wanted) == wanted \cap libraries

\* loadLibGnss and its two twins, for the adapters in wanted.
Load(wanted) == interfaces \cup (wanted \cap libraries)

Just(a, S) == IF a \in S THEN <<a>> ELSE <<>>
InOrder(S) == Just("gnss", S) \o Just("batching", S) \o Just("geofence", S)
Each(S, Build(_)) == [i \in 1..Len(InOrder(S)) |-> Build(InOrder(S)[i])]

\* A client with callbacks for none of the adapters goes to gnss, for its capabilities.
Adders(cbs) == IF Load(cbs) \cap cbs = {} THEN Load({"gnss"}) \cap {"gnss"} ELSE Load(cbs) \cap cbs

\* The first adapter that takes the client is asked for the capabilities, after its own add.
AddMsgs(c, cbs) ==
    LET adders == Adders(cbs)
    IN  IF adders = {} THEN <<>>
        ELSE LET first == Head(InOrder(adders))
                 Add(a) == Msg("addClient", a, c, cbs)
             IN  <<Add(first), Msg("requestCapabilities", first, c, cbs)>>
                 \o Each(adders \ {first}, Add)

\* An adapter that is made when the modem's capabilities are known starts with them.
KnownAfter(loaded) == IF known = {} THEN {} ELSE known \cup (loaded \ interfaces)

CreateInstance(c, cbs) ==
    /\ object[c] = "unborn"
    /\ object' = [object EXCEPT ![c] = "live"]
    /\ interfaces' = Load(cbs) \cup Adders(cbs)
    /\ queue' = queue \o AddMsgs(c, cbs)
    /\ clientData' = [clientData EXCEPT ![c] = cbs]
    /\ known' = KnownAfter(interfaces')
    /\ UNCHANGED <<libraries, waitAdapterMask, completed, mClientData, mPendingMsgs, capabilitiesTold, updates, requests>>

\* Mutant: adapters that the client has no callbacks for any more are not told.
MutUpdateCallbacksAddsOnly(c, cbs) ==
    /\ clientData[c] # None
    /\ updates < MaxUpdates
    /\ updates' = updates + 1
    /\ interfaces' = Load(cbs)
    /\ clientData' = [clientData EXCEPT ![c] = cbs]
    /\ LET Send(a) == Msg("addClient", a, c, cbs)
       IN  queue' = queue \o Each(interfaces' \cap cbs, Send)
    /\ known' = KnownAfter(interfaces')
    /\ UNCHANGED <<libraries, waitAdapterMask, object, completed, mClientData, mPendingMsgs,
                   capabilitiesTold, requests>>

UpdateCallbacks(c, cbs) ==
    /\ clientData[c] # None
    /\ updates < MaxUpdates
    /\ updates' = updates + 1
    /\ interfaces' = Load(cbs)
    /\ clientData' = [clientData EXCEPT ![c] = cbs]
    /\ LET Send(a) == IF a \in cbs THEN Msg("addClient", a, c, cbs)
                      ELSE Msg("removeClient", a, c, {})
       IN  queue' = queue \o Each(interfaces' \cap (cbs \cup clientData[c]), Send)
    /\ known' = KnownAfter(interfaces')
    /\ UNCHANGED <<libraries, waitAdapterMask, object, completed, mClientData, mPendingMsgs, capabilitiesTold, requests>>

\* The call of destroyCompleteCb, behind its test.
InvokeDestroyCb(c, given) == completed' = IF ~given THEN completed \cup {c} ELSE completed

\* Mutant: adapters that were never loaded are waited for, too.
MutDestroyWaitsForAll(c, destroyCompleteCb) ==
    /\ clientData[c] # None
    /\ waitAdapterMask' = [waitAdapterMask EXCEPT ![c] = IF destroyCompleteCb THEN Adapter ELSE {}]
    /\ LET Send(a) == Msg("removeClient", a, c, {"complete"})
       IN  queue' = queue \o Each(interfaces, Send)
    /\ clientData' = [clientData EXCEPT ![c] = None]
    /\ object' = [object EXCEPT ![c] = IF destroyCompleteCb THEN "closing" ELSE "leaked"]
    /\ UNCHANGED <<libraries, interfaces, completed, adapters, updates, requests>>

\* destroy() with or without a destroyCompleteCb.  Without one the object is deleted
\* only if no adapter was ever loaded, and then only after a call of an empty
\* std::function, which ends the process: that case is left out.
Destroy(c, destroyCompleteCb) ==
    /\ clientData[c] # None
    /\ waitAdapterMask' = [waitAdapterMask EXCEPT ![c] = IF destroyCompleteCb THEN interfaces ELSE {}]
    /\ LET Send(a) == Msg("removeClient", a, c, {"complete"})
       IN  queue' = queue \o Each(interfaces, Send)
    /\ clientData' = [clientData EXCEPT ![c] = None]
    /\ object' = [object EXCEPT ![c] = IF interfaces = {} THEN "deleted"
                                       ELSE IF destroyCompleteCb THEN "closing" ELSE "leaked"]
    /\ IF interfaces = {} THEN destroyCompleteCb /\ InvokeDestroyCb(c, destroyCompleteCb)
       ELSE UNCHANGED completed
    /\ UNCHANGED <<libraries, interfaces, adapters, updates, requests>>

\* A call that starts a session: a message for an adapter that is loaded, whether or
\* not the client was ever added there.  Tracking looks the client up first.
RequestSession(c, a) ==
    /\ object[c] = "live" /\ a \in interfaces
    /\ a = "gnss" => clientData[c] # None
    /\ requests < MaxRequests
    /\ requests' = requests + 1
    /\ queue' = Append(queue, Msg("startSession", a, c, {}))
    /\ UNCHANGED <<libraries, gData, object, completed, adapters, updates>>

\* Mutant: the first adapter that answers deletes the object.
MutOnRemoveFirstDeletes(c, a) ==
    IF waitAdapterMask[c] = {}
    THEN UNCHANGED <<waitAdapterMask, object, completed>>
    ELSE /\ waitAdapterMask' = [waitAdapterMask EXCEPT ![c] = {}]
         /\ object' = [object EXCEPT ![c] = "deleted"]
         /\ InvokeDestroyCb(c, TRUE)

\* onRemoveClientCompleteCb: the last adapter to wait for deletes the object.
OnRemoveClientCompleteCb(c, a) ==
    IF waitAdapterMask[c] = {}
    THEN UNCHANGED <<waitAdapterMask, object, completed>>
    ELSE LET left == waitAdapterMask[c] \ {a}
         IN  /\ waitAdapterMask' = [waitAdapterMask EXCEPT ![c] = left]
             /\ object' = [object EXCEPT ![c] = IF left = {} THEN "deleted" ELSE @]
             /\ IF left = {} THEN InvokeDestroyCb(c, TRUE) ELSE UNCHANGED completed

HeadIs(op) == queue # <<>> /\ Head(queue).op = op

ProcAddClient ==
    /\ HeadIs("addClient")
    /\ LET m == Head(queue) IN mClientData' = [mClientData EXCEPT ![m.adapter][m.client] = m.arg]
    /\ queue' = Tail(queue)
    /\ UNCHANGED <<libraries, gData, object, completed, known, mPendingMsgs, capabilitiesTold, updates, requests>>

ProcRemoveClient ==
    /\ HeadIs("removeClient")
    /\ LET m == Head(queue)
       IN  /\ mClientData' = [mClientData EXCEPT ![m.adapter][m.client] = None]
           /\ IF m.arg = {"complete"} THEN OnRemoveClientCompleteCb(m.client, m.adapter)
              ELSE UNCHANGED <<waitAdapterMask, object, completed>>
    /\ queue' = Tail(queue)
    /\ UNCHANGED <<libraries, interfaces, clientData, known, mPendingMsgs, capabilitiesTold, updates, requests>>

\* Requests for capabilities and sessions are put aside until the modem is up; a
\* session that an adapter starts for a client it does not know is refused in silence.
ProcDeferrable ==
    /\ queue # <<>> /\ Head(queue).op \in {"requestCapabilities", "startSession"}
    /\ queue' = Tail(queue)
    /\ LET m == Head(queue)
       IN  IF m.adapter \notin known
           THEN /\ mPendingMsgs' = [mPendingMsgs EXCEPT ![m.adapter] = Append(@, m)]
                /\ UNCHANGED capabilitiesTold
           ELSE /\ capabilitiesTold' = capabilitiesTold \cup
                      {c \in {m.client} : m.op = "requestCapabilities" /\ mClientData[m.adapter][c] # None}
                /\ UNCHANGED mPendingMsgs
    /\ UNCHANGED <<libraries, gData, object, completed, mClientData, known, updates, requests>>

\* handleEngineUpEvent, when its message comes up: broadcastCapabilities, then the messages put aside are sent again.
EngineUp(a) ==
    /\ a \in interfaces \ known
    /\ known' = known \cup {a}
    /\ capabilitiesTold' = capabilitiesTold \cup {c \in Client : mClientData[a][c] # None}
    /\ queue' = queue \o mPendingMsgs[a]
    /\ mPendingMsgs' = [mPendingMsgs EXCEPT ![a] = <<>>]
    /\ UNCHANGED <<libraries, gData, object, completed, mClientData, updates, requests>>

Proc == ProcAddClient \/ ProcRemoveClient \/ ProcDeferrable

ClientCalls(c) ==
    /\ Len(queue) <= MaxBacklog
    /\ \/ \E cbs \in Callbacks : CreateInstance(c, cbs) \/ UpdateCallbacks(c, cbs)
       \/ \E cb \in BOOLEAN : Destroy(c, cb)
       \/ \E a \in Adapter : RequestSession(c, a)

ApiNext == \/ \E c \in Client : ClientCalls(c)
           \/ \E a \in Adapter : EngineUp(a)
           \/ Proc

ApiSpec == ApiInit /\ [][ApiNext]_apiVars /\ WF_apiVars(Proc)

ApiTypeOK ==
    /\ libraries \in Libraries /\ interfaces \subseteq libraries
    /\ clientData \in [Client -> Callbacks \cup {None}]
    /\ waitAdapterMask \in [Client -> SUBSET Adapter]
    /\ object \in [Client -> {"unborn", "live", "closing", "leaked", "deleted"}]
    /\ completed \subseteq Client
    /\ mClientData \in [Adapter -> [Client -> Callbacks \cup {None}]]
    /\ known \subseteq interfaces
    /\ capabilitiesTold \subseteq Client
    /\ updates \in 0..MaxUpdates /\ requests \in 0..MaxRequests

Queued(c, ops) == \E i \in 1..Len(queue) : queue[i].client = c /\ queue[i].op \in ops

\* Once a LocationAPI object is deleted, no adapter holds its callbacks and no queued
\* message will call into it or register it again: `delete this` comes after the last
\* adapter's removal, whatever was sent in between.
DeadAreForgotten ==
    \A c \in Client : object[c] = "deleted" =>
        /\ \A a \in Adapter : mClientData[a][c] = None
        /\ ~Queued(c, {"addClient", "removeClient"})

\* When no registration of a client is under way, every loaded adapter it has callbacks
\* for works with the callbacks it set last, and no other adapter reports to it; only
\* gnss, which took it for its capabilities, may keep it.
AdaptersFollowCallbacks ==
    \A c \in Client : clientData[c] # None /\ ~Queued(c, {"addClient", "removeClient"}) =>
        \A a \in interfaces :
            mClientData[a][c] \in IF a \in clientData[c] THEN {clientData[c]}
                                  ELSE IF a = "gnss" THEN Callbacks \cup {None} ELSE {None}

\* A client that does not change its callbacks has been told the capabilities once the
\* adapters that serve it know them and the queue is empty.
CapabilitiesTold ==
    queue = <<>> /\ updates = 0 =>
        \A c \in Client :
            LET serving == {a \in Adapter : mClientData[a][c] # None}
            IN  serving # {} /\ serving \subseteq known => c \in capabilitiesTold

\* A client gets what it has callbacks for, and nothing else.
ClientServed == AdaptersFollowCallbacks /\ CapabilitiesTold

\* destroy() with a callback ends with the object deleted: every adapter it waits for
\* answers (LocationAPI.cpp, onRemoveClientCompleteCb).
ClosingEnds == \A c \in Client : object[c] = "closing" ~> object[c] = "deleted"
=============================================================================
