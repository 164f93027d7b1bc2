----------------------------- MODULE Publisher -----------------------------
(***************************************************************************)
(* Publisher<T> of publisher.h: one thread attempts to publish, another    *)
(* starts the publisher and shuts it down.  The state of the connection is *)
(* an ObservableObject whose listener tells the FileUploadStreamer whether *)
(* the network is there.  publishData is up to the derived class, which    *)
(* says where it begins (EnterPublish) and what comes of it (Published).   *)
(***************************************************************************)
EXTENDS Naturals

CONSTANT MaxStarts      \* bound: times start() is called
ASSUME PublisherAssumption == MaxStarts \in Nat

VARIABLES
    service_state,      \* Service::state_
    publisher_state,
    network,            \* what the listener heard last: is the state CONNECTED
    publish_mutex,      \* who holds it
    worker,             \* where the publishing thread is in attemptPublish
    status,             \* published_status
    owner,              \* where the owner is in shutdown
    starts

publisherVars == <<service_state, publisher_state, network, publish_mutex, worker, status,
                   owner, starts>>

PublisherTypeOK(steps) ==
    /\ service_state \in {"CREATED", "STARTED", "SHUTDOWN"}
    /\ publisher_state \in {"UNKNOWN", "CONNECTED", "NOT_CONNECTED"}
    /\ network \in BOOLEAN
    /\ publish_mutex \in {"free", "worker", "owner"}
    /\ worker \in {"idle", "enter", "store", "tell"} \cup steps
    /\ status \in {"UNKNOWN", "FAIL", "SUCCESS", "INVALID_DATA"}
    /\ owner \in {"idle", "lock", "tell", "reset"}
    /\ starts \in 0..MaxStarts

PublisherInit ==
    /\ service_state = "CREATED"
    /\ publisher_state = "UNKNOWN" /\ network = FALSE
    /\ publish_mutex = "free"
    /\ worker = "idle" /\ status = "UNKNOWN"
    /\ owner = "idle" /\ starts = 0
-----------------------------------------------------------------------------
(* attemptPublish *)

(* The look at the service state, before the lock.                         *)
AttemptPublish ==
    /\ worker = "idle"
    /\ IF service_state = "STARTED"
         THEN worker' = "enter" /\ UNCHANGED status
         ELSE worker' = "idle" /\ status' = "FAIL"
    /\ UNCHANGED <<service_state, publisher_state, network, publish_mutex, owner, starts>>

EnterPublish(step, s) ==
    /\ worker = "enter"
    /\ publish_mutex = "free"
    /\ publish_mutex' = "worker"
    /\ worker' = step
    /\ status' = s
    /\ UNCHANGED <<service_state, publisher_state, network, owner, starts>>

Published(s) ==
    /\ worker' = "store"
    /\ status' = s
    /\ UNCHANGED <<service_state, publisher_state, network, publish_mutex, owner, starts>>

PublishGoesOn(step) ==
    /\ worker' = step
    /\ UNCHANGED <<service_state, publisher_state, network, publish_mutex, status, owner, starts>>

(* setValue stores the value and then calls the listeners; attemptPublish  *)
(* holds the lock until it returns.                                        *)
StoreUnlocked ==                                                  \* mutated form
    /\ publish_mutex' = "free"
    /\ publisher_state' = IF status = "SUCCESS" THEN "CONNECTED" ELSE "NOT_CONNECTED"
StoreLocked ==
    /\ UNCHANGED publish_mutex
    /\ publisher_state' = IF status = "SUCCESS" THEN "CONNECTED" ELSE "NOT_CONNECTED"

StoreState ==
    /\ worker = "store"
    /\ StoreLocked
    /\ worker' = "tell"
    /\ UNCHANGED <<service_state, network, status, owner, starts>>

(* The listener the factories register is the streamer's.                  *)
onPublisherStateChange(state) == network' = (state = "CONNECTED")

TellListeners ==
    /\ worker = "tell"
    /\ onPublisherStateChange(IF status = "SUCCESS" THEN "CONNECTED" ELSE "NOT_CONNECTED")
    /\ publish_mutex' = "free"
    /\ worker' = "idle"
    /\ UNCHANGED <<service_state, publisher_state, status, owner, starts>>
-----------------------------------------------------------------------------
(* start and shutdown *)

StartPublisher ==
    /\ owner = "idle"
    /\ service_state # "STARTED"
    /\ starts < MaxStarts
    /\ starts' = starts + 1
    /\ service_state' = "STARTED"
    /\ UNCHANGED <<publisher_state, network, publish_mutex, worker, status, owner>>

(* Service::shutdown, then the lock, then setValue(UNKNOWN).               *)
ShutdownPublisher ==
    /\ owner = "idle"
    /\ service_state = "STARTED"
    /\ service_state' = "SHUTDOWN"
    /\ owner' = "lock"
    /\ UNCHANGED <<publisher_state, network, publish_mutex, worker, status, starts>>

StoreUnknown ==
    /\ owner = "lock"
    /\ publish_mutex = "free"
    /\ publish_mutex' = "owner"
    /\ publisher_state' = "UNKNOWN"
    /\ owner' = "tell"
    /\ UNCHANGED <<service_state, network, worker, status, starts>>

TellUnknown(next) ==
    /\ owner = "tell"
    /\ onPublisherStateChange("UNKNOWN")
    /\ publish_mutex' = "free"
    /\ owner' = next
    /\ UNCHANGED <<service_state, publisher_state, worker, status, starts>>
=============================================================================
