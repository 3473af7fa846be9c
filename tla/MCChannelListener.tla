-------------------------- MODULE MCChannelListener -------------------------
(***************************************************************************)
(* ChannelListener for TLC: the constants are model values of the .cfg.    *)
(***************************************************************************)
EXTENDS ChannelListener
=============================================================================
