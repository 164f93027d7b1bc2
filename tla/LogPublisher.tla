--------------------------- MODULE LogPublisher ---------------------------
(***************************************************************************)
(* LogPublisher (log_publisher.cpp) with CloudWatchLogsFacade: configure   *)
(* makes sure of a log group, a stream and a sequence token, SendLogs      *)
(* sends the chunks of a batch one request after the other.  Each request  *)
(* is one step, with what the service does and what comes back.            *)
(*                                                                         *)
(* The service is external: it takes a request with the token it expects,  *)
(* and may lose or refuse any.  Others write to the stream, and delete it. *)
(* Of a token only matters whether it is the one the service expects: that *)
(* is "current" ("" for a stream nobody wrote to), any other is "stale",   *)
(* and UNINITIALIZED_TOKEN is "unset".                                     *)
(***************************************************************************)
EXTENDS Publisher

CONSTANTS
    MaxChunks,          \* bound: requests a batch takes
    MaxFaults           \* bound: what goes wrong outside

ASSUME LogAssumption == MaxChunks \in Nat \ {0} /\ MaxFaults \in Nat

VARIABLES
    run_state,
    next_token,
    batch,              \* the data: number of chunks, and the one the service rejects
    chunk,              \* the chunk to send next
    send_status,
    \* the service
    group, stream,      \* do they exist
    \* history
    accepted,           \* chunks of this attempt the service has taken, in order
    faults,
    was_shutdown

logVars == <<run_state, next_token, batch, chunk, send_status>>
serviceVars == <<group, stream>>
vars == <<publisherVars, logVars, serviceVars, accepted, faults, was_shutdown>>

Steps == {"group", "makeGroup", "stream", "makeStream", "token", "configured", "send", "refresh"}
Batch == [chunks : 0..MaxChunks, bad : 0..MaxChunks]

TypeOK ==
    /\ PublisherTypeOK(Steps)
    /\ run_state \in {"CREATE_GROUP", "CREATE_STREAM", "INIT_TOKEN", "SEND_LOGS"}
    /\ next_token \in {"unset", "current", "stale"}
    /\ batch \in Batch
    /\ chunk \in 1..MaxChunks
    /\ send_status \in {"NOT_CONNECTED", "FAILED", "INVALID_PARAMETER"}
    /\ group \in BOOLEAN /\ stream \in BOOLEAN
    /\ accepted \in 0..MaxChunks
    /\ faults \in 0..MaxFaults
    /\ was_shutdown \in BOOLEAN

Empty == batch.chunks = 0
HasBadChunk == batch.bad \in 1..batch.chunks

(* Something outside goes wrong: a request or a response is lost, a        *)
(* request is refused.                                                     *)
Fault == faults < MaxFaults /\ faults' = faults + 1
Fine  == UNCHANGED faults
-----------------------------------------------------------------------------
(* publishData *)

(* What it does is taken up in the caller's step: the data are given.      *)
Attempt(b) ==
    /\ AttemptPublish
    /\ batch' = b
    /\ accepted' = 0
    /\ UNCHANGED <<run_state, next_token, chunk, send_status, serviceVars, faults, was_shutdown>>

FirstStep == CASE run_state = "CREATE_GROUP"  -> "group"
               [] run_state = "CREATE_STREAM" -> "stream"
               [] run_state = "INIT_TOKEN"    -> "token"
               [] run_state = "SEND_LOGS"     -> "send"

publishData ==
    /\ IF Empty THEN EnterPublish("store", "INVALID_DATA") ELSE EnterPublish(FirstStep, status)
    /\ chunk' = 1
    /\ UNCHANGED <<run_state, next_token, batch, send_status, serviceVars, accepted, faults,
                   was_shutdown>>

SameBatch == UNCHANGED <<batch, chunk, send_status, accepted, was_shutdown>>

ConfigureFails == Published("FAIL") /\ UNCHANGED run_state
ConfigureGoesOn(state, step) == run_state' = state /\ PublishGoesOn(step)

(* An answer that is an error, but not one of the connection, is taken for *)
(* a group that does not exist.                                            *)
CheckLogGroupExists ==
    /\ worker = "group"
    /\ \/ Fault /\ ConfigureFails
       \/ Fault /\ ConfigureGoesOn(run_state, "makeGroup")
       \/ Fine /\ group /\ ConfigureGoesOn("CREATE_STREAM", "stream")
       \/ Fine /\ ~ group /\ ConfigureGoesOn(run_state, "makeGroup")
    /\ UNCHANGED <<next_token, serviceVars>> /\ SameBatch

CreateLogGroup ==
    /\ worker = "makeGroup"
    /\ \/ Fault /\ ConfigureFails /\ UNCHANGED group
       \/ Fault /\ ConfigureFails /\ group' = TRUE
       \/ Fine /\ ConfigureGoesOn("CREATE_STREAM", "stream") /\ group' = TRUE
    /\ UNCHANGED <<next_token, stream>> /\ SameBatch

CreateGroup == CheckLogGroupExists \/ CreateLogGroup

CheckLogStreamExists ==
    /\ worker = "stream"
    /\ \/ Fault /\ ConfigureFails
       \/ Fault /\ ConfigureGoesOn(run_state, "makeStream")
       \/ Fine /\ stream /\ ConfigureGoesOn("INIT_TOKEN", "token")
       \/ Fine /\ ~ stream /\ ConfigureGoesOn(run_state, "makeStream")
    /\ UNCHANGED <<next_token, serviceVars>> /\ SameBatch

CreateLogStream ==
    /\ worker = "makeStream"
    /\ \/ Fault /\ ConfigureFails /\ UNCHANGED stream
       \/ Fault /\ ConfigureFails /\ stream' = (stream \/ group)
       \/ Fine /\ group /\ ConfigureGoesOn("INIT_TOKEN", "token") /\ stream' = TRUE
       \/ Fine /\ ~ group /\ ConfigureFails /\ UNCHANGED stream
    /\ UNCHANGED <<next_token, group>> /\ SameBatch

CreateStream == CheckLogStreamExists \/ CreateLogStream

(* GetLogStreamToken has one answer for a missing stream, an error and a   *)
(* lost connection: its status is SUCCEEDED where it looks for another.    *)
TokenNotAssigned == UNCHANGED next_token                          \* mutated form
TokenAssigned == next_token' = "current"

InitToken ==
    /\ worker = "token"
    /\ \/ Fine /\ stream /\ TokenAssigned
       \/ (Fault \/ (Fine /\ ~ stream)) /\ next_token' = "unset"
    /\ ConfigureGoesOn(run_state, "configured")
    /\ UNCHANGED serviceVars /\ SameBatch

(* configure looks at what InitToken returned and at the token, which is   *)
(* unset whenever that was false.                                          *)
TokenTaken == TRUE                                                \* mutated form
TokenUsable == next_token # "unset"

Configured ==
    /\ worker = "configured"
    /\ IF TokenUsable THEN ConfigureGoesOn("SEND_LOGS", "send") ELSE ConfigureFails
    /\ UNCHANGED <<next_token, serviceVars, faults>> /\ SameBatch

(* One SendLogsRequest of SendLogsToCloudWatch, with what PutLogEvents     *)
(* does and answers.                                                       *)
IsPastLast(k) == k > batch.chunks                                 \* mutated form
IsLast(k) == k = batch.chunks

NextChunkOrDone(token) ==
    /\ next_token' = token
    /\ UNCHANGED send_status
    /\ IF IsLast(chunk) THEN Published("SUCCESS") /\ run_state' = "SEND_LOGS" /\ UNCHANGED chunk
       ELSE chunk' = chunk + 1 /\ PublishGoesOn("send") /\ UNCHANGED run_state

FailGoesOn(s, token) == NextChunkOrDone(token)                    \* mutated form
SendFails(s, token) ==
    /\ next_token' = token
    /\ send_status' = s
    /\ PublishGoesOn("refresh")
    /\ UNCHANGED <<run_state, chunk>>

Takes == group /\ stream /\ next_token = "current"
AfterWrite == IF next_token = "current" THEN "stale" ELSE next_token

SendLogsRequest ==
    /\ worker = "send"
    /\ \/ Fine /\ Takes /\ chunk # batch.bad
          /\ accepted' = accepted + 1 /\ NextChunkOrDone("current")
       \/ Fine /\ chunk = batch.bad
          /\ SendFails("INVALID_PARAMETER", next_token) /\ UNCHANGED accepted
       \/ Fine /\ ~ Takes /\ SendFails("FAILED", next_token) /\ UNCHANGED accepted
       \/ Fault /\ SendFails("FAILED", next_token) /\ UNCHANGED accepted
       \/ Fault /\ SendFails("NOT_CONNECTED", next_token) /\ UNCHANGED accepted
       \/ Fault /\ Takes /\ chunk # batch.bad
          /\ accepted' = accepted + 1 /\ SendFails("NOT_CONNECTED", AfterWrite)
    /\ UNCHANGED <<batch, serviceVars, was_shutdown>>

FailureIsInvalid(s) == "INVALID_DATA"                             \* mutated form
StatusOf(s) == IF s = "INVALID_PARAMETER" THEN "INVALID_DATA" ELSE "FAIL"

(* After a failure SendLogs asks for the token.  kMaxRetries is one: it    *)
(* does not send again, the next attempt does.                             *)
RefreshToken ==
    /\ worker = "refresh"
    /\ \/ Fine /\ stream /\ TokenAssigned
       \/ (Fault \/ (Fine /\ ~ stream)) /\ UNCHANGED next_token
    /\ run_state' = "INIT_TOKEN"
    /\ Published(StatusOf(send_status))
    /\ UNCHANGED serviceVars /\ SameBatch
-----------------------------------------------------------------------------
(* The steps of the base class *)

SameLog == UNCHANGED <<run_state, next_token, serviceVars, faults>> /\ SameBatch

Tell == (StoreState \/ TellListeners) /\ SameLog

StartOrStop ==
    /\ StartPublisher \/ StoreUnknown \/ TellUnknown("reset")
    /\ SameLog

ShutdownLogs ==
    /\ ShutdownPublisher
    /\ was_shutdown' = TRUE
    /\ UNCHANGED <<logVars, serviceVars, accepted, faults>>

(* resetInitToken, with no lock: an attempt that was past its look at the  *)
(* service state may be under way.                                         *)
ResetInitToken ==
    /\ owner = "reset"
    /\ owner' = "idle"
    /\ next_token' = "unset"
    /\ UNCHANGED <<service_state, publisher_state, network, publish_mutex, worker, status, starts,
                   run_state, serviceVars, faults>> /\ SameBatch
-----------------------------------------------------------------------------
(* Other clients of the service *)

OtherWrites ==
    /\ Fault
    /\ stream
    /\ next_token' = AfterWrite
    /\ UNCHANGED <<publisherVars, run_state, serviceVars>> /\ SameBatch

OtherDeletes ==
    /\ Fault
    /\ stream
    /\ stream' = FALSE
    /\ group' \in {group, FALSE}
    /\ next_token' = AfterWrite
    /\ UNCHANGED <<publisherVars, run_state>> /\ SameBatch
-----------------------------------------------------------------------------
Init ==
    /\ PublisherInit
    /\ run_state = "CREATE_GROUP" /\ next_token = "unset"
    /\ batch = [chunks |-> 0, bad |-> 0] /\ chunk = 1 /\ send_status = "FAILED"
    /\ group \in BOOLEAN /\ stream \in {FALSE, group}
    /\ accepted = 0 /\ faults = 0 /\ was_shutdown = FALSE

PublishStep == \/ publishData
               \/ CreateGroup \/ CreateStream \/ InitToken \/ Configured
               \/ SendLogsRequest \/ RefreshToken
               \/ Tell

Next == \/ \E b \in Batch : Attempt(b)
        \/ PublishStep
        \/ StartOrStop \/ ShutdownLogs \/ ResetInitToken
        \/ OtherWrites \/ OtherDeletes

Spec == Init /\ [][Next]_vars

(* The worker goes on and publishes again and again, a batch without       *)
(* anything to reject among others; shutdown comes to its end.             *)
GoodAttempt == \E b \in Batch : b.chunks > 0 /\ b.bad = 0 /\ Attempt(b)
Fairness == /\ WF_vars(PublishStep)
            /\ SF_vars(GoodAttempt)
            /\ WF_vars(StoreUnknown /\ SameLog) /\ WF_vars(TellUnknown("reset") /\ SameLog)
            /\ WF_vars(ResetInitToken)
FairSpec == Spec /\ Fairness
-----------------------------------------------------------------------------
(* Properties *)

(* SUCCESS is reported when the service has taken every chunk of the       *)
(* batch: the data are deleted then (SendLogsToCloudWatch, publishData).   *)
SuccessMeansAccepted ==
    worker = "store" /\ status = "SUCCESS" => accepted = batch.chunks /\ ~ Empty

(* INVALID_DATA, upon which the batch is dropped, is reported for a batch  *)
(* with nothing in it or with a chunk the service rejects, and all before  *)
(* that chunk was taken; never for what a retry can help (SendLogs).       *)
DroppedOnlyBad ==
    worker = "store" /\ status = "INVALID_DATA" =>
        Empty \/ (HasBadChunk /\ accepted = batch.bad - 1)

(* With nobody in attemptPublish or shutdown, what the streamer was told   *)
(* of the network is the publisher's state (setValue, attemptPublish,      *)
(* shutdown).                                                              *)
StreamerHearsState == publish_mutex = "free" => (network <=> publisher_state = "CONNECTED")

(* UNINITIALIZED_TOKEN is not sent before a shutdown has reset the token   *)
(* under a running attempt or for the next one (configure, resetInitToken).*)
UnsetNotSent == worker = "send" /\ next_token = "unset" => was_shutdown

(* The publisher does not go back to making group and stream.              *)
Gone == \/ ~ stream /\ run_state \in {"INIT_TOKEN", "SEND_LOGS"}
        \/ ~ group /\ run_state = "CREATE_STREAM"

(* After losses, refusals, stale tokens and restarts, data are published   *)
(* again, unless stream or group are gone (publishData, configure).        *)
Recovers ==
    <>[](service_state = "STARTED" /\ owner = "idle") =>
        []<>(worker = "store" /\ status = "SUCCESS") \/ <>[]Gone
=============================================================================
