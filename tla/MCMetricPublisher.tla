------------------------- MODULE MCMetricPublisher -------------------------
(* A small instance of the metric publisher: the bounds are in the cfg.    *)
EXTENDS MetricPublisher
=============================================================================
