----------------------------- MODULE MCForwards -----------------------------
(***************************************************************************)
(* Forwards for TLC: the .cfg gives the forwarders and the connections.    *)
(***************************************************************************)
EXTENDS Forwards
=============================================================================
