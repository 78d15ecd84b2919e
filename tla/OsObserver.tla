------------------------------ MODULE OsObserver ------------------------------
(***************************************************************************)
(* SystemStatusOsObserver (core/SystemStatusOsObserver.cpp) hands the data *)
(* items of the framework (network, cell, ...) on to the observers inside  *)
(* the HAL.  It keeps who wants what in two maps, one for each direction   *)
(* (utils/LocUnorderedSetMap.h), and asks the framework for what anybody   *)
(* wants.  Every call is a message to one MsgTask and carries all it       *)
(* needs, so each handler is one step and they come in any order.          *)
(***************************************************************************)
EXTENDS Naturals

CONSTANTS
    DataItemObserver,      \* who subscribes: the AGPS handler, the XTRA observer
    DataItemId,
    RequestedItems,        \* the items that are only asked for by requestData
    MaxItemValue           \* bound: the values an item takes

ASSUME OsObserverAssumption == RequestedItems \subseteq DataItemId /\ MaxItemValue \in Nat

ItemValue == 1..MaxItemValue

VARIABLES
    mSubscriptionObj,      \* the framework has given its object
    mDataItemToClients,    \* an item without clients has no entry
    mClientToDataItems,    \* a client without items has no entry
    mDataItemCache,        \* the last value of each item, 0 for none
    frameworkItems,        \* what the framework is subscribed to
    notified               \* the last value each observer has got of each item

osVars == <<mSubscriptionObj, mDataItemToClients, mClientToDataItems, mDataItemCache,
            frameworkItems, notified>>

OsInit ==
    /\ mSubscriptionObj = FALSE
    /\ mDataItemToClients = [i \in DataItemId |-> {}]
    /\ mClientToDataItems = [c \in DataItemObserver |-> {}]
    /\ mDataItemCache = [i \in DataItemId |-> 0]
    /\ frameworkItems = {}
    /\ notified = [c \in DataItemObserver |-> [i \in DataItemId |-> 0]]

\* mDataItemToClients.getKeys()
ItemKeys == {i \in DataItemId : mDataItemToClients[i] # {}}

\* The object comes after the first subscriptions, or comes again.
SetSubsObj ==
    /\ mSubscriptionObj' = TRUE
    /\ frameworkItems' = frameworkItems \cup ItemKeys
    /\ UNCHANGED <<mDataItemToClients, mClientToDataItems, mDataItemCache, notified>>

\* HandleSubscribeReq, for subscribe and for requestData: the observer gets what is in
\* the cache, and only an item that nobody had is asked of the framework.
HandleSubscribeReq(c, items, toRequestData) ==
    /\ items # {}
    /\ items \subseteq IF toRequestData THEN RequestedItems ELSE DataItemId \ RequestedItems
    /\ mDataItemToClients' =
          [i \in DataItemId |-> mDataItemToClients[i] \cup IF i \in items THEN {c} ELSE {}]
    /\ mClientToDataItems' = [mClientToDataItems EXCEPT ![c] = @ \cup items]
    /\ notified' = [notified EXCEPT ![c] =
          [i \in DataItemId |-> IF i \in items /\ mDataItemCache[i] # 0 THEN mDataItemCache[i] ELSE @[i]]]
    /\ frameworkItems' = IF mSubscriptionObj /\ ~toRequestData
                         THEN frameworkItems \cup (items \ ItemKeys) ELSE frameworkItems
    /\ UNCHANGED <<mSubscriptionObj, mDataItemCache>>

\* Mutant: the entry of an item goes with the first client that gives it up.
MutGiveUpDropsEntry(c, items) ==
    LET unused == mClientToDataItems[c] \cap items
    IN  /\ mClientToDataItems' = [mClientToDataItems EXCEPT ![c] = @ \ items]
        /\ mDataItemToClients' = [i \in DataItemId |-> IF i \in unused THEN {} ELSE mDataItemToClients[i]]
        /\ frameworkItems' = IF mSubscriptionObj THEN frameworkItems \ unused ELSE frameworkItems
        /\ UNCHANGED <<mSubscriptionObj, mDataItemCache, notified>>

\* The two trimOrRemove of an unsubscription: of what the client gives up, and of its
\* entries for the items it really had.
GiveUp(c, items) ==
    LET unused == mClientToDataItems[c] \cap items
        toUnsubscribe == {i \in unused : mDataItemToClients[i] # {} /\ mDataItemToClients[i] \subseteq {c}}
    IN  /\ mClientToDataItems' = [mClientToDataItems EXCEPT ![c] = @ \ items]
        /\ mDataItemToClients' =
              [i \in DataItemId |-> mDataItemToClients[i] \ IF i \in unused THEN {c} ELSE {}]
        /\ frameworkItems' = IF mSubscriptionObj THEN frameworkItems \ toUnsubscribe ELSE frameworkItems
        /\ UNCHANGED <<mSubscriptionObj, mDataItemCache, notified>>

HandleUnsubscribeReq(c, items) == items # {} /\ GiveUp(c, items)
HandleUnsubscribeAllReq(c) == GiveUp(c, mClientToDataItems[c])

\* HandleNotify: items that changed go into the cache and to everyone who has them, an
\* observer found through the one map and what it is sent through the other.  The
\* framework may have sent them before it was unsubscribed.
HandleNotify(items, v) ==
    LET updated == {i \in items : mDataItemCache[i] # v}
        clientSet == UNION {mDataItemToClients[i] : i \in updated}
    IN  /\ mDataItemCache' = [i \in DataItemId |-> IF i \in updated THEN v ELSE mDataItemCache[i]]
        /\ notified' = [c \in DataItemObserver |-> [i \in DataItemId |->
              IF c \in clientSet /\ i \in updated \cap mClientToDataItems[c] THEN v ELSE notified[c][i]]]
        /\ UNCHANGED <<mSubscriptionObj, mDataItemToClients, mClientToDataItems, frameworkItems>>

OsNext == \/ SetSubsObj
          \/ \E c \in DataItemObserver, items \in SUBSET DataItemId :
                \/ \E toRequestData \in BOOLEAN : HandleSubscribeReq(c, items, toRequestData)
                \/ HandleUnsubscribeReq(c, items)
          \/ \E c \in DataItemObserver : HandleUnsubscribeAllReq(c)
          \/ \E items \in SUBSET DataItemId, v \in ItemValue : HandleNotify(items, v)

OsSpec == OsInit /\ [][OsNext]_osVars

OsTypeOK ==
    /\ mSubscriptionObj \in BOOLEAN
    /\ mDataItemToClients \in [DataItemId -> SUBSET DataItemObserver]
    /\ mClientToDataItems \in [DataItemObserver -> SUBSET DataItemId]
    /\ mDataItemCache \in [DataItemId -> 0..MaxItemValue]
    /\ frameworkItems \subseteq DataItemId
    /\ notified \in [DataItemObserver -> [DataItemId -> 0..MaxItemValue]]

\* Each of the two maps is the inverse of the other.
MapsAgree == \A c \in DataItemObserver, i \in DataItemId :
                 c \in mDataItemToClients[i] <=> i \in mClientToDataItems[c]

\* The framework, once it can be, is subscribed to what somebody has subscribed to, and
\* to nothing that nobody has any more.
FrameworkFollows ==
    mSubscriptionObj => ItemKeys \ RequestedItems \subseteq frameworkItems /\ frameworkItems \subseteq ItemKeys

\* Whoever has an item has got its latest value, however subscriptions, their ends and
\* the framework's notifications are mixed, and the framework keeps sending the items
\* that are subscribed to and no other.
ObserversServed ==
    /\ \A c \in DataItemObserver : \A i \in mClientToDataItems[c] :
           mDataItemCache[i] # 0 => notified[c][i] = mDataItemCache[i]
    /\ FrameworkFollows
=============================================================================
