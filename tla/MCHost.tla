-------------------------------- MODULE MCHost --------------------------------
(* Host and its objects on a small instance: the constants are in the .cfg. *)
EXTENDS Host
=============================================================================
