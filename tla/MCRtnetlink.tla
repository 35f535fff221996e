----------------------------- MODULE MCRtnetlink ----------------------------
(* The instance of Rtnetlink for TLC; its cfg gives the constants.          *)
EXTENDS RtnetlinkInvariant
=============================================================================
