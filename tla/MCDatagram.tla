------------------------------ MODULE MCDatagram ------------------------------
(* datagram::Channel on a small instance: the constants are in the .cfg.   *)
EXTENDS DatagramChannel
=============================================================================
