-------------------------- MODULE MetricPublisher --------------------------
(***************************************************************************)
(* MetricPublisher (metric_publisher.cpp) with CloudWatchMetricsFacade:    *)
(* a collection of metrics is sent in requests of at most                  *)
(* MAX_METRIC_DATUMS_PER_REQUEST data each.  What the service makes of a   *)
(* request is external.  shutdown() of this publisher does nothing: the    *)
(* steps of Publisher's shutdown are not taken.                            *)
(***************************************************************************)
EXTENDS Publisher

CONSTANT MaxChunks      \* bound: requests a collection takes

VARIABLES
    chunks,             \* requests the data take; 0 when there are none
    chunk,              \* the request to send next
    taken               \* history: the requests of this attempt the service took

metricVars == <<chunks, chunk, taken>>
vars == <<publisherVars, metricVars>>

TypeOK ==
    /\ PublisherTypeOK({"send"})
    /\ chunks \in 0..MaxChunks
    /\ chunk \in 1..MaxChunks
    /\ taken \subseteq 1..MaxChunks

Attempt(n) ==
    /\ AttemptPublish
    /\ chunks' = n
    /\ taken' = {}
    /\ UNCHANGED chunk

publishData ==
    /\ IF chunks = 0 THEN EnterPublish("store", "INVALID_DATA") ELSE EnterPublish("send", status)
    /\ chunk' = 1
    /\ UNCHANGED <<chunks, taken>>

StatusOf(answer) == CASE answer = "SUCCESS"      -> "SUCCESS"
                      [] answer = "INVALID_DATA" -> "INVALID_DATA"
                      [] answer \in {"FAILURE", "NETWORK_FAILURE"} -> "FAIL"

(* One SendMetricsRequest: only a lost connection ends the loop; after any *)
(* other answer the next request's takes the place of this one's.          *)
SendMetricsRequest(answer) ==
    /\ worker = "send"
    /\ \/ answer = "SUCCESS" /\ taken' = taken \cup {chunk}
       \/ answer # "SUCCESS" /\ taken' \in {taken, taken \cup {chunk}}
    /\ IF chunk = chunks \/ answer = "NETWORK_FAILURE"
         THEN Published(StatusOf(answer)) /\ UNCHANGED chunk
         ELSE PublishGoesOn("send") /\ chunk' = chunk + 1
    /\ UNCHANGED chunks

Init == PublisherInit /\ chunks = 0 /\ chunk = 1 /\ taken = {}

Next == \/ \E n \in 0..MaxChunks : Attempt(n)
        \/ publishData
        \/ \E answer \in {"SUCCESS", "NETWORK_FAILURE", "INVALID_DATA", "FAILURE"} :
             SendMetricsRequest(answer)
        \/ (StoreState \/ TellListeners \/ StartPublisher) /\ UNCHANGED metricVars

Spec == Init /\ [][Next]_vars

(* A collection is reported published only when the service took all of    *)
(* it: one request that fails fails the entire set                         *)
(* (SendMetricsToCloudWatch).                                              *)
SuccessMeansSent == worker = "store" /\ status = "SUCCESS" => taken = 1..chunks
=============================================================================
