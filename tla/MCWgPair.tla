------------------------------ MODULE MCWgPair ------------------------------
(***************************************************************************)
(* WgPair for TLC.                                                         *)
(***************************************************************************)
EXTENDS WgPair

MCClientIP == [c \in Clients |-> Address(4, IF c = "c1" THEN 1 ELSE 2)]
MCEndpoints == {[ip |-> Address(4, 5), port |-> 1], [ip |-> Address(4, 5), port |-> 2]}

\* Nothing was sent yet; all differ, and one is too large for an int.
MCCounters == {[sec |-> 0, nsec |-> 0, tx |-> 0, rx |-> 0], [sec |-> 3, nsec |-> 1, tx |-> 2, rx |-> 6]}
=============================================================================
