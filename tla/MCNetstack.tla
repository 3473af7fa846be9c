----------------------------- MODULE MCNetstack -----------------------------
(***************************************************************************)
(* Netstack for TLC: the .cfg gives the goroutines.  One writer sends two   *)
(* packets, the others one: enough for two packets of one flow to overtake *)
(* each other, and for a full queue to lose one.                           *)
(***************************************************************************)
EXTENDS Netstack

MCQuota == [w \in Writers |-> IF w = CHOOSE v \in Writers : TRUE THEN 2 ELSE 1]
=============================================================================
