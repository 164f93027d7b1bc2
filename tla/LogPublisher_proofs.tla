------------------------ MODULE LogPublisher_proofs ------------------------
(***************************************************************************)
(* Theorems about the log publisher, for batches of any number of chunks   *)
(* and any number of faults, shutdowns and restarts.                       *)
(***************************************************************************)
EXTENDS LogPublisher, TLAPS

Publishing == Steps \cup {"store", "tell"}
Configuring == {"group", "makeGroup", "stream", "makeStream", "token", "configured"}

(* publish_mutex_ is held by who is inside.                                *)
MutexInv ==
    /\ publish_mutex = "worker" <=> worker \in Publishing
    /\ publish_mutex = "owner" <=> owner = "tell"

(* The strengthening of StreamerHearsState: between store and broadcast    *)
(* the state is what will be told.                                         *)
HeardInv ==
    /\ StreamerHearsState
    /\ worker = "tell" => (publisher_state = "CONNECTED" <=> status = "SUCCESS")
    /\ owner = "tell" => publisher_state = "UNKNOWN"

(* The strengthening of SuccessMeansAccepted and DroppedOnlyBad: the       *)
(* chunks before the next one were taken, and no other.                    *)
AcceptedInv ==
    /\ worker = "enter" => accepted = 0
    /\ worker \in Configuring => accepted = 0 /\ chunk = 1 /\ ~ Empty
    /\ worker = "send" => accepted = chunk - 1 /\ chunk <= batch.chunks
    /\ worker = "refresh" /\ send_status = "INVALID_PARAMETER" =>
         accepted = chunk - 1 /\ chunk = batch.bad /\ HasBadChunk
    /\ SuccessMeansAccepted
    /\ DroppedOnlyBad

(* The strengthening of UnsetNotSent: run_state_ says where configure is,  *)
(* and the token is set when it says LOG_PUBLISHER_ATTEMPT_SEND_LOGS.      *)
TokenInv ==
    /\ worker \in {"group", "makeGroup"} => run_state = "CREATE_GROUP"
    /\ worker \in {"stream", "makeStream"} => run_state = "CREATE_STREAM"
    /\ worker \in {"token", "configured"} => run_state = "INIT_TOKEN"
    /\ worker = "send" => run_state = "SEND_LOGS"
    /\ ~ was_shutdown => owner = "idle" /\ (run_state = "SEND_LOGS" => next_token # "unset")

LInv == TypeOK /\ MutexInv /\ HeardInv /\ AcceptedInv /\ TokenInv

-----------------------------------------------------------------------------
LEMMA InitInv == Init => LInv
<1> SUFFICES ASSUME Init
             PROVE  LInv
  OBVIOUS
<1>1. TypeOK
  <2>1. PublisherTypeOK(Steps)
    <3>1. network \in BOOLEAN
      BY Zenon DEF Init, PublisherInit
    <3>2. /\ service_state = "CREATED" /\ publisher_state = "UNKNOWN" /\ publish_mutex = "free"
          /\ worker = "idle" /\ status = "UNKNOWN" /\ owner = "idle" /\ starts = 0
      BY Zenon DEF Init, PublisherInit
    <3>3. QED
      BY <3>1, <3>2, PublisherAssumption DEF PublisherTypeOK
  <2>2. batch \in Batch /\ 1 \in 1..MaxChunks /\ 0 \in 0..MaxChunks /\ 0 \in 0..MaxFaults
    BY LogAssumption DEF Init, Batch
  <2>3. group \in BOOLEAN /\ stream \in BOOLEAN /\ was_shutdown \in BOOLEAN
    BY Zenon DEF Init
  <2>4. /\ run_state = "CREATE_GROUP" /\ next_token = "unset" /\ send_status = "FAILED"
        /\ chunk = 1 /\ accepted = 0 /\ faults = 0
    BY DEF Init
  <2>5. QED
    BY <2>1, <2>2, <2>3, <2>4 DEF TypeOK
<1> USE DEF Init, PublisherInit
<1>2. MutexInv
  BY DEF MutexInv, Publishing, Steps
<1>3. HeardInv
  BY DEF HeardInv, StreamerHearsState
<1>4. AcceptedInv
  BY DEF AcceptedInv, Configuring, SuccessMeansAccepted, DroppedOnlyBad
<1>5. TokenInv
  BY DEF TokenInv
<1>6. QED
  BY <1>1, <1>2, <1>3, <1>4, <1>5 DEF LInv

LEMMA AttemptInv ==
    ASSUME LInv, NEW b \in Batch, Attempt(b)
    PROVE  LInv'
<1> USE DEF LInv, Attempt, AttemptPublish
<1>1. TypeOK'
  BY LogAssumption DEF TypeOK, PublisherTypeOK, Steps, Batch, serviceVars
<1>2. MutexInv'
  BY DEF MutexInv, Publishing, Steps
<1>3. HeardInv'
  BY DEF HeardInv, StreamerHearsState
<1>4. AcceptedInv'
  BY DEF AcceptedInv, Configuring, SuccessMeansAccepted, DroppedOnlyBad, TypeOK
<1>5. TokenInv'
  BY DEF TokenInv
<1>6. QED
  BY <1>1, <1>2, <1>3, <1>4, <1>5

LEMMA PublishDataInv ==
    ASSUME LInv, publishData
    PROVE  LInv'
<1> USE DEF LInv, publishData, EnterPublish, FirstStep
<1>1. TypeOK'
  BY LogAssumption DEF TypeOK, PublisherTypeOK, Steps, Batch, serviceVars
<1>2. MutexInv'
  BY DEF MutexInv, Publishing, Steps, TypeOK
<1>3. HeardInv'
  BY DEF HeardInv, StreamerHearsState, TypeOK
<1>4. AcceptedInv'
  BY DEF AcceptedInv, Configuring, SuccessMeansAccepted, DroppedOnlyBad, Empty, HasBadChunk,
     TypeOK, Batch
<1>5. TokenInv'
  BY DEF TokenInv, TypeOK
<1>6. QED
  BY <1>1, <1>2, <1>3, <1>4, <1>5
LEMMA CheckLogGroupInv ==
    ASSUME LInv, CheckLogGroupExists
    PROVE  LInv'
<1> USE DEF LInv, CheckLogGroupExists, SameBatch, Fault, Fine, ConfigureFails, ConfigureGoesOn, Published, PublishGoesOn
<1>1. TypeOK'
  BY LogAssumption, PublisherAssumption
     DEF TypeOK, PublisherTypeOK, Steps, Batch, serviceVars, logVars
<1>2. MutexInv'
  BY DEF MutexInv, Publishing, Steps, TypeOK, serviceVars, logVars
<1>3. HeardInv'
  BY DEF HeardInv, StreamerHearsState, MutexInv, Publishing, Steps, TypeOK
<1>4. AcceptedInv'
  BY DEF AcceptedInv, Configuring, SuccessMeansAccepted, DroppedOnlyBad, Empty, HasBadChunk,
     TypeOK, Batch, logVars
<1>5. TokenInv'
  BY DEF TokenInv, TypeOK, logVars
<1>6. QED
  BY <1>1, <1>2, <1>3, <1>4, <1>5

LEMMA CreateLogGroupInv ==
    ASSUME LInv, CreateLogGroup
    PROVE  LInv'
<1> USE DEF LInv, CreateLogGroup, SameBatch, Fault, Fine, ConfigureFails, ConfigureGoesOn, Published, PublishGoesOn
<1>1. TypeOK'
  <2>1. PublisherTypeOK(Steps)'
    BY DEF TypeOK, PublisherTypeOK, Steps
  <2>2. group' \in BOOLEAN /\ stream' \in BOOLEAN
    BY Zenon DEF TypeOK
  <2>3. /\ run_state' \in {"CREATE_GROUP", "CREATE_STREAM", "INIT_TOKEN", "SEND_LOGS"}
        /\ next_token' \in {"unset", "current", "stale"}
        /\ faults' \in 0..MaxFaults
    BY LogAssumption DEF TypeOK
  <2>4. QED
    BY <2>1, <2>2, <2>3, Zenon DEF TypeOK
<1>2. MutexInv'
  BY DEF MutexInv, Publishing, Steps, TypeOK, serviceVars, logVars
<1>3. HeardInv'
  BY DEF HeardInv, StreamerHearsState, MutexInv, Publishing, Steps, TypeOK
<1>4. AcceptedInv'
  BY DEF AcceptedInv, Configuring, SuccessMeansAccepted, DroppedOnlyBad, Empty, HasBadChunk,
     TypeOK, Batch, logVars
<1>5. TokenInv'
  BY DEF TokenInv, TypeOK, logVars
<1>6. QED
  BY <1>1, <1>2, <1>3, <1>4, <1>5

LEMMA CheckLogStreamInv ==
    ASSUME LInv, CheckLogStreamExists
    PROVE  LInv'
<1> USE DEF LInv, CheckLogStreamExists, SameBatch, Fault, Fine, ConfigureFails, ConfigureGoesOn, Published, PublishGoesOn
<1>1. TypeOK'
  BY LogAssumption, PublisherAssumption
     DEF TypeOK, PublisherTypeOK, Steps, Batch, serviceVars, logVars
<1>2. MutexInv'
  BY DEF MutexInv, Publishing, Steps, TypeOK, serviceVars, logVars
<1>3. HeardInv'
  BY DEF HeardInv, StreamerHearsState, MutexInv, Publishing, Steps, TypeOK
<1>4. AcceptedInv'
  BY DEF AcceptedInv, Configuring, SuccessMeansAccepted, DroppedOnlyBad, Empty, HasBadChunk,
     TypeOK, Batch, logVars
<1>5. TokenInv'
  BY DEF TokenInv, TypeOK, logVars
<1>6. QED
  BY <1>1, <1>2, <1>3, <1>4, <1>5

LEMMA CreateLogStreamInv ==
    ASSUME LInv, CreateLogStream
    PROVE  LInv'
<1> USE DEF LInv, CreateLogStream, SameBatch, Fault, Fine, ConfigureFails, ConfigureGoesOn, Published, PublishGoesOn
<1>1. TypeOK'
  <2>1. PublisherTypeOK(Steps)'
    BY DEF TypeOK, PublisherTypeOK, Steps
  <2>2. group' \in BOOLEAN /\ stream' \in BOOLEAN
    BY Zenon DEF TypeOK
  <2>3. /\ run_state' \in {"CREATE_GROUP", "CREATE_STREAM", "INIT_TOKEN", "SEND_LOGS"}
        /\ next_token' \in {"unset", "current", "stale"}
        /\ faults' \in 0..MaxFaults
    BY LogAssumption DEF TypeOK
  <2>4. QED
    BY <2>1, <2>2, <2>3, Zenon DEF TypeOK
<1>2. MutexInv'
  BY DEF MutexInv, Publishing, Steps, TypeOK, serviceVars, logVars
<1>3. HeardInv'
  BY DEF HeardInv, StreamerHearsState, MutexInv, Publishing, Steps, TypeOK
<1>4. AcceptedInv'
  BY DEF AcceptedInv, Configuring, SuccessMeansAccepted, DroppedOnlyBad, Empty, HasBadChunk,
     TypeOK, Batch, logVars
<1>5. TokenInv'
  BY DEF TokenInv, TypeOK, logVars
<1>6. QED
  BY <1>1, <1>2, <1>3, <1>4, <1>5

LEMMA InitTokenInv ==
    ASSUME LInv, InitToken
    PROVE  LInv'
<1> USE DEF LInv, InitToken, TokenAssigned,
       SameBatch, Fault, Fine, ConfigureFails, ConfigureGoesOn, Published, PublishGoesOn
<1>1. TypeOK'
  BY LogAssumption, PublisherAssumption
     DEF TypeOK, PublisherTypeOK, Steps, Batch, serviceVars, logVars
<1>2. MutexInv'
  BY DEF MutexInv, Publishing, Steps, TypeOK, serviceVars, logVars
<1>3. HeardInv'
  BY DEF HeardInv, StreamerHearsState, MutexInv, Publishing, Steps, TypeOK
<1>4. AcceptedInv'
  BY DEF AcceptedInv, Configuring, SuccessMeansAccepted, DroppedOnlyBad, Empty, HasBadChunk,
     TypeOK, Batch, logVars
<1>5. TokenInv'
  BY DEF TokenInv, TypeOK, logVars
<1>6. QED
  BY <1>1, <1>2, <1>3, <1>4, <1>5

LEMMA ConfiguredInv ==
    ASSUME LInv, Configured
    PROVE  LInv'
<1> USE DEF LInv, Configured, TokenUsable,
       SameBatch, Fault, Fine, ConfigureFails, ConfigureGoesOn, Published, PublishGoesOn
<1>1. TypeOK'
  BY LogAssumption, PublisherAssumption
     DEF TypeOK, PublisherTypeOK, Steps, Batch, serviceVars, logVars
<1>2. MutexInv'
  BY DEF MutexInv, Publishing, Steps, TypeOK, serviceVars, logVars
<1>3. HeardInv'
  BY DEF HeardInv, StreamerHearsState, MutexInv, Publishing, Steps, TypeOK
<1>4. AcceptedInv'
  BY DEF AcceptedInv, Configuring, SuccessMeansAccepted, DroppedOnlyBad, Empty, HasBadChunk,
     TypeOK, Batch, logVars
<1>5. TokenInv'
  BY DEF TokenInv, TypeOK, logVars
<1>6. QED
  BY <1>1, <1>2, <1>3, <1>4, <1>5

LEMMA RefreshTokenInv ==
    ASSUME LInv, RefreshToken
    PROVE  LInv'
<1> USE DEF LInv, RefreshToken, TokenAssigned, StatusOf,
       SameBatch, Fault, Fine, Published
<1>1. TypeOK'
  BY LogAssumption, PublisherAssumption
     DEF TypeOK, PublisherTypeOK, Steps, Batch, serviceVars, logVars
<1>2. MutexInv'
  BY DEF MutexInv, Publishing, Steps, TypeOK, serviceVars, logVars
<1>3. HeardInv'
  BY DEF HeardInv, StreamerHearsState, MutexInv, Publishing, Steps, TypeOK
<1>4. AcceptedInv'
  BY DEF AcceptedInv, Configuring, SuccessMeansAccepted, DroppedOnlyBad, Empty, HasBadChunk,
     TypeOK, Batch, logVars
<1>5. TokenInv'
  BY DEF TokenInv, TypeOK, logVars
<1>6. QED
  BY <1>1, <1>2, <1>3, <1>4, <1>5

LEMMA TellInv ==
    ASSUME LInv, Tell
    PROVE  LInv'
<1> USE DEF LInv, Tell, SameLog, SameBatch, StoreState, StoreLocked, TellListeners,
       onPublisherStateChange
<1>1. TypeOK'
  <2>1. network' \in BOOLEAN /\ group' \in BOOLEAN /\ stream' \in BOOLEAN /\ was_shutdown' \in BOOLEAN
    BY Zenon DEF TypeOK, PublisherTypeOK, serviceVars
  <2>2. /\ service_state' \in {"CREATED", "STARTED", "SHUTDOWN"}
        /\ publisher_state' \in {"UNKNOWN", "CONNECTED", "NOT_CONNECTED"}
        /\ publish_mutex' \in {"free", "worker", "owner"}
        /\ worker' \in {"idle", "enter", "store", "tell"} \cup Steps
        /\ status' \in {"UNKNOWN", "FAIL", "SUCCESS", "INVALID_DATA"}
        /\ owner' \in {"idle", "lock", "tell", "reset"}
        /\ starts' \in 0..MaxStarts
    BY PublisherAssumption DEF TypeOK, PublisherTypeOK
  <2>3. /\ run_state' \in {"CREATE_GROUP", "CREATE_STREAM", "INIT_TOKEN", "SEND_LOGS"}
        /\ next_token' \in {"unset", "current", "stale"}
        /\ batch' \in Batch
        /\ chunk' \in 1..MaxChunks
        /\ send_status' \in {"NOT_CONNECTED", "FAILED", "INVALID_PARAMETER"}
        /\ accepted' \in 0..MaxChunks
        /\ faults' \in 0..MaxFaults
    BY LogAssumption DEF TypeOK
  <2>4. QED
    BY <2>1, <2>2, <2>3, Zenon DEF TypeOK, PublisherTypeOK
<1>2. MutexInv'
  BY DEF MutexInv, Publishing, Steps, TypeOK, serviceVars, logVars
<1>3. HeardInv'
  BY DEF HeardInv, StreamerHearsState, MutexInv, Publishing, Steps, TypeOK
<1>4. AcceptedInv'
  BY DEF AcceptedInv, Configuring, SuccessMeansAccepted, DroppedOnlyBad, Empty, HasBadChunk,
     TypeOK, Batch, logVars
<1>5. TokenInv'
  BY DEF TokenInv, TypeOK, logVars
<1>6. QED
  BY <1>1, <1>2, <1>3, <1>4, <1>5

LEMMA StartOrStopInv ==
    ASSUME LInv, StartOrStop
    PROVE  LInv'
<1> USE DEF LInv, StartOrStop, SameLog, SameBatch, StartPublisher,
       StoreUnknown, TellUnknown, onPublisherStateChange
<1>1. TypeOK'
  <2>1. network' \in BOOLEAN /\ group' \in BOOLEAN /\ stream' \in BOOLEAN /\ was_shutdown' \in BOOLEAN
    BY Zenon DEF TypeOK, PublisherTypeOK, serviceVars
  <2>2. /\ service_state' \in {"CREATED", "STARTED", "SHUTDOWN"}
        /\ publisher_state' \in {"UNKNOWN", "CONNECTED", "NOT_CONNECTED"}
        /\ publish_mutex' \in {"free", "worker", "owner"}
        /\ worker' \in {"idle", "enter", "store", "tell"} \cup Steps
        /\ status' \in {"UNKNOWN", "FAIL", "SUCCESS", "INVALID_DATA"}
        /\ owner' \in {"idle", "lock", "tell", "reset"}
        /\ starts' \in 0..MaxStarts
    BY PublisherAssumption DEF TypeOK, PublisherTypeOK
  <2>3. /\ run_state' \in {"CREATE_GROUP", "CREATE_STREAM", "INIT_TOKEN", "SEND_LOGS"}
        /\ next_token' \in {"unset", "current", "stale"}
        /\ batch' \in Batch
        /\ chunk' \in 1..MaxChunks
        /\ send_status' \in {"NOT_CONNECTED", "FAILED", "INVALID_PARAMETER"}
        /\ accepted' \in 0..MaxChunks
        /\ faults' \in 0..MaxFaults
    BY LogAssumption DEF TypeOK
  <2>4. QED
    BY <2>1, <2>2, <2>3, Zenon DEF TypeOK, PublisherTypeOK
<1>2. MutexInv'
  BY DEF MutexInv, Publishing, Steps, TypeOK, serviceVars, logVars
<1>3. HeardInv'
  <2>1. CASE StartPublisher
    BY <2>1 DEF HeardInv, StreamerHearsState
  <2>2. CASE StoreUnknown
    BY <2>2 DEF HeardInv, StreamerHearsState, MutexInv, Publishing, Steps, TypeOK
  <2>3. CASE TellUnknown("reset")
    <3>1. network' = FALSE
      BY <2>3, Zenon
    <3>2. QED
      BY <2>3, <3>1 DEF HeardInv, StreamerHearsState, MutexInv, Publishing, Steps, TypeOK
  <2>4. QED
    BY <2>1, <2>2, <2>3
<1>4. AcceptedInv'
  BY DEF AcceptedInv, Configuring, SuccessMeansAccepted, DroppedOnlyBad, Empty, HasBadChunk,
     TypeOK, Batch, logVars
<1>5. TokenInv'
  BY DEF TokenInv, TypeOK, logVars
<1>6. QED
  BY <1>1, <1>2, <1>3, <1>4, <1>5

LEMMA ShutdownLogsInv ==
    ASSUME LInv, ShutdownLogs
    PROVE  LInv'
<1> USE DEF LInv, ShutdownLogs, ShutdownPublisher
<1>1. TypeOK'
  BY LogAssumption, PublisherAssumption
     DEF TypeOK, PublisherTypeOK, Steps, Batch, serviceVars, logVars
<1>2. MutexInv'
  BY DEF MutexInv, Publishing, Steps, TypeOK, serviceVars, logVars
<1>3. HeardInv'
  BY DEF HeardInv, StreamerHearsState, MutexInv, Publishing, Steps, TypeOK
<1>4. AcceptedInv'
  BY DEF AcceptedInv, Configuring, SuccessMeansAccepted, DroppedOnlyBad, Empty, HasBadChunk,
     TypeOK, Batch, logVars
<1>5. TokenInv'
  BY DEF TokenInv, TypeOK, logVars
<1>6. QED
  BY <1>1, <1>2, <1>3, <1>4, <1>5

LEMMA ResetInitTokenInv ==
    ASSUME LInv, ResetInitToken
    PROVE  LInv'
<1> USE DEF LInv, ResetInitToken, SameBatch
<1>1. TypeOK'
  BY LogAssumption, PublisherAssumption
     DEF TypeOK, PublisherTypeOK, Steps, Batch, serviceVars, logVars
<1>2. MutexInv'
  BY DEF MutexInv, Publishing, Steps, TypeOK, serviceVars, logVars
<1>3. HeardInv'
  BY DEF HeardInv, StreamerHearsState, MutexInv, Publishing, Steps, TypeOK
<1>4. AcceptedInv'
  BY DEF AcceptedInv, Configuring, SuccessMeansAccepted, DroppedOnlyBad, Empty, HasBadChunk,
     TypeOK, Batch, logVars
<1>5. TokenInv'
  BY DEF TokenInv, TypeOK, logVars
<1>6. QED
  BY <1>1, <1>2, <1>3, <1>4, <1>5

LEMMA OthersInv ==
    ASSUME LInv, OtherWrites \/ OtherDeletes
    PROVE  LInv'
<1>1. UNCHANGED <<publisherVars, run_state, batch, chunk, send_status, accepted, was_shutdown>>
  BY Zenon DEF OtherWrites, OtherDeletes, SameBatch
<1>2. Fault /\ next_token' = AfterWrite
  BY Zenon DEF OtherWrites, OtherDeletes
<1>3. group' \in BOOLEAN /\ stream' \in BOOLEAN
  BY Zenon DEF OtherWrites, OtherDeletes, LInv, TypeOK, serviceVars
<1>4. TypeOK'
  <2>1. PublisherTypeOK(Steps)'
    BY <1>1, Zenon DEF LInv, TypeOK, PublisherTypeOK, publisherVars
  <2>2. faults' \in 0..MaxFaults
    BY <1>2, LogAssumption DEF LInv, TypeOK, Fault
  <2>3. next_token' \in {"unset", "current", "stale"}
    BY <1>2 DEF LInv, TypeOK, AfterWrite
  <2>4. QED
    BY <1>1, <1>3, <2>1, <2>2, <2>3, Zenon DEF LInv, TypeOK
<1>5. MutexInv'
  BY <1>1, Zenon DEF LInv, MutexInv, publisherVars
<1>6. HeardInv'
  BY <1>1, Zenon DEF LInv, HeardInv, StreamerHearsState, publisherVars
<1>7. AcceptedInv'
  BY <1>1 DEF LInv, AcceptedInv, SuccessMeansAccepted, DroppedOnlyBad, Empty, HasBadChunk,
     publisherVars
<1>8. TokenInv'
  <2>1. next_token' = "unset" => next_token = "unset"
    BY <1>2 DEF AfterWrite
  <2>2. QED
    BY <1>1, <2>1, Zenon DEF LInv, TokenInv, publisherVars
<1>9. QED
  BY <1>4, <1>5, <1>6, <1>7, <1>8 DEF LInv

(* One request: the three ways it ends.                                    *)
LEMMA RequestOutcomes ==
    ASSUME LInv, SendLogsRequest
    PROVE  /\ worker = "send"
           /\ UNCHANGED <<service_state, publisher_state, network, publish_mutex, owner, starts,
                          batch, group, stream, was_shutdown>>
           /\ Fine \/ Fault
           /\ \/ /\ next_token = "current" /\ accepted' = accepted + 1
                 /\ NextChunkOrDone("current")
              \/ /\ accepted' = accepted /\ chunk = batch.bad
                 /\ SendFails("INVALID_PARAMETER", next_token)
              \/ \E s \in {"FAILED", "NOT_CONNECTED"}, t \in {next_token, "stale"} :
                   /\ accepted' \in {accepted, accepted + 1}
                   /\ SendFails(s, t)
<1>1. UNCHANGED <<batch, group, stream, was_shutdown>> /\ worker = "send"
  BY Zenon DEF SendLogsRequest, serviceVars
<1>2. UNCHANGED <<service_state, publisher_state, network, publish_mutex, owner, starts>>
  BY Zenon DEF SendLogsRequest, NextChunkOrDone, SendFails, Published, PublishGoesOn
<1>3. Fine \/ Fault
  BY Zenon DEF SendLogsRequest
<1>4. AfterWrite \in {next_token, "stale"}
  BY DEF AfterWrite
<1>5. QED
  <2> DEFINE Outcome ==
              \/ /\ next_token = "current" /\ accepted' = accepted + 1
                 /\ NextChunkOrDone("current")
              \/ /\ accepted' = accepted /\ chunk = batch.bad
                 /\ SendFails("INVALID_PARAMETER", next_token)
              \/ \E s \in {"FAILED", "NOT_CONNECTED"}, t \in {next_token, "stale"} :
                   /\ accepted' \in {accepted, accepted + 1}
                   /\ SendFails(s, t)
  <2>1. ASSUME Takes /\ accepted' = accepted + 1 /\ NextChunkOrDone("current") PROVE Outcome
    BY <2>1, Zenon DEF Takes
  <2>2. ASSUME chunk = batch.bad /\ SendFails("INVALID_PARAMETER", next_token)
                 /\ accepted' = accepted
          PROVE  Outcome
    BY <2>2, Zenon
  <2>3. ASSUME SendFails("FAILED", next_token) /\ accepted' = accepted PROVE Outcome
    BY <2>3, Zenon
  <2>4. ASSUME SendFails("NOT_CONNECTED", next_token) /\ accepted' = accepted PROVE Outcome
    BY <2>4, Zenon
  <2>5. ASSUME accepted' = accepted + 1 /\ SendFails("NOT_CONNECTED", AfterWrite) PROVE Outcome
    BY <1>4, <2>5, Zenon
  <2>6. Outcome
    BY <2>1, <2>2, <2>3, <2>4, <2>5, Zenon DEF SendLogsRequest
  <2>7. QED
    BY <1>1, <1>2, <1>3, <2>6, Zenon

LEMMA SendLogsRequestInv ==
    ASSUME LInv, SendLogsRequest
    PROVE  LInv'
<1>1. /\ worker = "send"
      /\ UNCHANGED <<service_state, publisher_state, network, publish_mutex, owner, starts,
                     batch, group, stream, was_shutdown>>
      /\ Fine \/ Fault
  BY RequestOutcomes, Zenon
<1>2. accepted = chunk - 1 /\ chunk \in 1..MaxChunks /\ chunk <= batch.chunks /\ batch \in Batch
      /\ run_state = "SEND_LOGS" /\ publish_mutex = "worker"
  BY <1>1 DEF LInv, AcceptedInv, TokenInv, MutexInv, TypeOK, Publishing, Steps
<1>3. faults' \in 0..MaxFaults
  BY <1>1, LogAssumption DEF LInv, TypeOK, Fine, Fault
<1>4. network' \in BOOLEAN /\ group' \in BOOLEAN /\ stream' \in BOOLEAN /\ was_shutdown' \in BOOLEAN
  BY <1>1, Zenon DEF LInv, TypeOK, PublisherTypeOK
<1>5. ~ StreamerHearsState' => FALSE
  BY <1>1, <1>2 DEF StreamerHearsState
<1>6. /\ worker' \in {"send", "store", "refresh"}
      /\ status' \in {"UNKNOWN", "FAIL", "SUCCESS", "INVALID_DATA"}
      /\ run_state' = "SEND_LOGS"
      /\ next_token' \in {next_token, "current", "stale"}
      /\ chunk' \in 1..MaxChunks
      /\ send_status' \in {"NOT_CONNECTED", "FAILED", "INVALID_PARAMETER"}
      /\ accepted' \in 0..MaxChunks
      /\ AcceptedInv'
  <2> USE DEF AcceptedInv, Configuring, SuccessMeansAccepted, DroppedOnlyBad, Empty, HasBadChunk,
              Batch
  <2>1. status \in {"UNKNOWN", "FAIL", "SUCCESS", "INVALID_DATA"}
        /\ send_status \in {"NOT_CONNECTED", "FAILED", "INVALID_PARAMETER"}
    BY DEF LInv, TypeOK, PublisherTypeOK
  <2>2. CASE next_token = "current" /\ accepted' = accepted + 1 /\ NextChunkOrDone("current")
    BY <1>1, <1>2, <2>1, <2>2, LogAssumption
       DEF NextChunkOrDone, Published, PublishGoesOn, IsLast
  <2>3. CASE accepted' = accepted /\ chunk = batch.bad /\ SendFails("INVALID_PARAMETER", next_token)
    BY <1>1, <1>2, <2>1, <2>3, LogAssumption DEF SendFails, PublishGoesOn
  <2>4. CASE \E s \in {"FAILED", "NOT_CONNECTED"}, t \in {next_token, "stale"} :
               accepted' \in {accepted, accepted + 1} /\ SendFails(s, t)
    BY <1>1, <1>2, <2>1, <2>4, LogAssumption DEF SendFails, PublishGoesOn
  <2>5. QED
    BY <2>2, <2>3, <2>4, RequestOutcomes, Zenon
<1>7. TypeOK'
  <2>1. PublisherTypeOK(Steps)'
    <3>1. worker' \in {"idle", "enter", "store", "tell"} \cup Steps
      BY <1>6 DEF Steps
    <3>2. QED
      BY <1>1, <1>4, <1>6, <3>1, Zenon DEF LInv, TypeOK, PublisherTypeOK
  <2>2. next_token' \in {"unset", "current", "stale"}
    BY <1>6 DEF LInv, TypeOK
  <2>3. QED
    BY <1>1, <1>2, <1>3, <1>4, <1>6, <2>1, <2>2, Zenon DEF TypeOK
<1>8. MutexInv'
  BY <1>1, <1>2, <1>6 DEF LInv, MutexInv, Publishing, Steps
<1>9. HeardInv'
  BY <1>1, <1>5, <1>6 DEF LInv, HeardInv
<1>10. TokenInv'
  BY <1>1, <1>2, <1>6 DEF LInv, TokenInv
<1>11. QED
  BY <1>6, <1>7, <1>8, <1>9, <1>10 DEF LInv

LEMMA StepInv == LInv /\ [Next]_vars => LInv'
<1> SUFFICES ASSUME LInv, [Next]_vars
             PROVE  LInv'
  OBVIOUS
<1>1. CASE \E b \in Batch : Attempt(b)
  BY <1>1, AttemptInv, Zenon
<1>2. CASE publishData
  BY <1>2, PublishDataInv
<1>3. CASE CheckLogGroupExists
  BY <1>3, CheckLogGroupInv
<1>4. CASE CreateLogGroup
  BY <1>4, CreateLogGroupInv
<1>5. CASE CheckLogStreamExists
  BY <1>5, CheckLogStreamInv
<1>6. CASE CreateLogStream
  BY <1>6, CreateLogStreamInv
<1>7. CASE InitToken
  BY <1>7, InitTokenInv
<1>8. CASE Configured
  BY <1>8, ConfiguredInv
<1>9. CASE SendLogsRequest
  BY <1>9, SendLogsRequestInv
<1>10. CASE RefreshToken
  BY <1>10, RefreshTokenInv
<1>11. CASE Tell
  BY <1>11, TellInv
<1>12. CASE StartOrStop
  BY <1>12, StartOrStopInv
<1>13. CASE ShutdownLogs
  BY <1>13, ShutdownLogsInv
<1>14. CASE ResetInitToken
  BY <1>14, ResetInitTokenInv
<1>15. CASE OtherWrites \/ OtherDeletes
  BY <1>15, OthersInv
<1>16. CASE UNCHANGED vars
  <2>1. UNCHANGED <<service_state, publisher_state, network, publish_mutex, worker, status, owner,
                    starts, run_state, next_token, batch, chunk, send_status, group, stream,
                    accepted, faults, was_shutdown>>
    BY <1>16, Zenon DEF vars, publisherVars, logVars, serviceVars
  <2>2. TypeOK'
    <3>1. PublisherTypeOK(Steps)'
      BY <2>1, Zenon DEF LInv, TypeOK, PublisherTypeOK
    <3>2. QED
      BY <2>1, <3>1, Zenon DEF LInv, TypeOK
  <2>3. MutexInv' /\ HeardInv' /\ TokenInv'
    BY <2>1, Zenon DEF LInv, MutexInv, HeardInv, StreamerHearsState, TokenInv
  <2>4. AcceptedInv'
    <3>1. UNCHANGED <<worker, status, batch, chunk, send_status, accepted>>
      BY <2>1, Zenon
    <3>2. QED
      BY <3>1 DEF LInv, AcceptedInv, SuccessMeansAccepted, DroppedOnlyBad, Empty, HasBadChunk
  <2>5. QED
    BY <2>2, <2>3, <2>4 DEF LInv
<1>17. QED
  BY <1>1, <1>2, <1>3, <1>4, <1>5, <1>6, <1>7, <1>8, <1>9, <1>10, <1>11, <1>12, <1>13, <1>14,
     <1>15, <1>16, Zenon DEF Next, PublishStep, CreateGroup, CreateStream

LEMMA LogPublisherInvariant == Spec => []LInv
<1>1. QED
  BY InitInv, StepInv, PTL DEF Spec
-----------------------------------------------------------------------------
(* Every variable of publisher, log publisher and service keeps its type,  *)
(* and what publishData counts stays within the batch.                     *)
THEOREM LogTypeCorrect == Spec => []TypeOK
<1>1. LInv => TypeOK
  BY DEF LInv
<1>2. QED
  BY <1>1, LogPublisherInvariant, PTL

(* A batch is reported published only when the service took every chunk,   *)
(* whatever was lost, refused or shut down meanwhile (publishData).        *)
THEOREM SuccessIsAccepted == Spec => []SuccessMeansAccepted
<1>1. LInv => SuccessMeansAccepted
  BY DEF LInv, AcceptedInv
<1>2. QED
  BY <1>1, LogPublisherInvariant, PTL

(* A batch is given up as invalid only when it is empty or the service     *)
(* rejected one of its chunks: a lost connection never drops data          *)
(* (SendLogs, publishData).                                                *)
THEOREM OnlyBadDropped == Spec => []DroppedOnlyBad
<1>1. LInv => DroppedOnlyBad
  BY DEF LInv, AcceptedInv
<1>2. QED
  BY <1>1, LogPublisherInvariant, PTL

(* Whenever publish_mutex_ is free, what the FileUploadStreamer heard of   *)
(* the network is what the publisher's state says (setValue, shutdown).    *)
THEOREM StreamerHears == Spec => []StreamerHearsState
<1>1. LInv => StreamerHearsState
  BY DEF LInv, HeardInv
<1>2. QED
  BY <1>1, LogPublisherInvariant, PTL

(* Before any shutdown configure never leads to a request with the token   *)
(* that stands for none (configure, InitToken).                            *)
THEOREM UnsetTokenNotSent == Spec => []UnsetNotSent
<1>1. LInv => UnsetNotSent
  BY DEF LInv, TokenInv, UnsetNotSent
<1>2. QED
  BY <1>1, LogPublisherInvariant, PTL
=============================================================================
