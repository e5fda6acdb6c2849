-------------------------- MODULE MCChannelStream --------------------------
(***************************************************************************)
(* One viewer, two connections that can overlap, a window of one record,   *)
(* one restricted reply among the Messages.                                *)
(***************************************************************************)
EXTENDS ChannelStream
============================================================================
