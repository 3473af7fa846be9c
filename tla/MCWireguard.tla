----------------------------- MODULE MCWireguard ----------------------------
(***************************************************************************)
(* Wireguard for TLC: the option lists that client.go, server.go and the   *)
(* tests use, and some that lead to the failures of New.                   *)
(***************************************************************************)
EXTENDS Wireguard

MCOptionLists ==
    { <<"config", "nop", "netdevice">>,
      <<"config", "bind", "netdevice">>,
      <<"netdevice", "closer", "netdevice", "config">>,
      <<"netdevice", "device", "closer">>,
      <<"closer", "netdevice", "err">>,
      <<"config", "closer">> }
=============================================================================
