------------------------------ MODULE MCBroker ------------------------------
(* A name service, a server and a client whose threads share one broker. *)
EXTENDS Broker
CONSTANTS t1, t2
=============================================================================
