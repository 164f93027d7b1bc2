-------------------------- MODULE MCLogPublisher --------------------------
(* A small instance of the log publisher: the bounds are in the cfg.       *)
EXTENDS LogPublisher
=============================================================================
