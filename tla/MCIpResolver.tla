---------------------------- MODULE MCIpResolver ----------------------------
(* The instance of IpResolver for TLC; its cfg gives the constants.         *)
EXTENDS IpResolver
=============================================================================
