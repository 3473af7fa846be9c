------------------------------ MODULE Networks ------------------------------
(***************************************************************************)
(* How names become networks: the Provision of the wireguard client and    *)
(* server modules, and of the point-c app that collects their Networks()   *)
(* for Lookup.  A net is known here by the local address it answers with.  *)
(* The modules are taken to be found in the namespace point-c.net that     *)
(* NetworksRaw is loaded from; they are registered as proxy.net.* (see     *)
(* README.md, Findings).                                                   *)
(***************************************************************************)
EXTENDS Naturals, Sequences

CONSTANTS
    Configs,    \* the values of NetworksRaw: sequences of network configurations
    Names,      \* hostnames
    Addrs       \* local addresses

Peers == [name : Names, ip : Addrs]
NetConfigs == [name : Names, ip : Addrs, peers : Seq(Peers)]

ASSUME ConfigAssumption == Configs \subseteq Seq(NetConfigs)

VARIABLES
    config,     \* NetworksRaw
    status,     \* "load", "merge", "ok", "failed" or "crashed"
    at,         \* the network being provisioned, or merged
    peer,       \* the peers of it that were added
    nets,       \* nets[i]: what Networks() of the i-th network returns
    up,         \* the networks whose interface is up
    net         \* wg.net of the app

netVars == <<config, status, at, peer, nets, up, net>>

NoNets == [x \in {} |-> {}]
Maps == UNION {[S -> Addrs] : S \in SUBSET Names}
Set(m, n, v) == [x \in DOMAIN m \cup {n} |-> IF x = n THEN v ELSE m[x]]

NetworksTypeOK ==
    /\ config \in Configs
    /\ status \in {"load", "merge", "ok", "failed", "crashed"}
    /\ at \in 1..(Len(config) + 1)
    /\ peer \in Nat
    /\ nets \in Seq(Maps)
    /\ up \subseteq DOMAIN config
    /\ net \in Maps

NetInit ==
    /\ config \in Configs
    /\ status = "load"
    /\ at = 1
    /\ peer = 0
    /\ nets = <<>>
    /\ up = {}
    /\ net = NoNets
-----------------------------------------------------------------------------
Here == config[at]

\* A client, or a server before its peers: its own name and address.
LoadOwn ==
    /\ status = "load"
    /\ at <= Len(config)
    /\ Len(nets) < at
    /\ nets' = Append(nets, [x \in {Here.name} |-> Here.ip])
    /\ peer' = 0
    /\ UNCHANGED <<config, status, at, up, net>>

\* One turn of the loop of Server.Provision over its peers: the name of the peer is
\* looked for, and its address stored under the name of the server.
AddPeer ==
    /\ status = "load"
    /\ Len(nets) = at
    /\ peer < Len(Here.peers)
    /\ LET p == Here.peers[peer + 1]
       IN  IF p.name \in DOMAIN nets[at]
           THEN status' = "crashed" /\ UNCHANGED <<nets, peer>>
           ELSE /\ nets' = [nets EXCEPT ![at] = Set(@, Here.name, p.ip)]
                /\ peer' = peer + 1
                /\ UNCHANGED status
    /\ UNCHANGED <<config, at, up, net>>

\* wg.New brings the interface up, or fails.  After a failed Provision, here and above,
\* Caddy calls Cleanup, which calls Close on the *Wireguard that there is not.
NewInterface ==
    /\ status = "load"
    /\ Len(nets) = at
    /\ peer = Len(Here.peers)
    /\ \/ at' = at + 1 /\ up' = up \cup {at} /\ UNCHANGED status
       \/ status' = "crashed" /\ UNCHANGED <<at, up>>
    /\ UNCHANGED <<config, peer, nets, net>>

LoadEnds ==
    /\ status = "load"
    /\ at = Len(config) + 1
    /\ status' = "merge"
    /\ at' = 1
    /\ UNCHANGED <<config, peer, nets, up, net>>

\* mutant: all entries share the variable of the loop
MergeAliases ==
    /\ status = "merge"
    /\ at <= Len(config)
    /\ IF DOMAIN nets[at] \cap DOMAIN net # {}
       THEN status' = "failed" /\ UNCHANGED <<at, net>>
       ELSE /\ net' = [x \in DOMAIN net \cup DOMAIN nets[at] |-> nets[at][Here.name]]
            /\ at' = at + 1
            /\ UNCHANGED status
    /\ UNCHANGED <<config, peer, nets, up>>

\* Pointc.Provision merges the names of one network, unless one is known already.
Merge ==
    /\ status = "merge"
    /\ at <= Len(config)
    /\ IF DOMAIN nets[at] \cap DOMAIN net # {}
       THEN status' = "failed" /\ UNCHANGED <<at, net>>
       ELSE /\ net' = [x \in DOMAIN net \cup DOMAIN nets[at] |->
                          IF x \in DOMAIN net THEN net[x] ELSE nets[at][x]]
            /\ at' = at + 1
            /\ UNCHANGED status
    /\ UNCHANGED <<config, peer, nets, up>>

MergeEnds ==
    /\ status = "merge"
    /\ at = Len(config) + 1
    /\ status' = "ok"
    /\ UNCHANGED <<config, at, peer, nets, up, net>>

ProvisionPointc == LoadOwn \/ AddPeer \/ NewInterface \/ LoadEnds \/ Merge \/ MergeEnds

\* Lookup of a name that is known.
Lookup(n) == net[n]
-----------------------------------------------------------------------------
(* Properties *)

\* What Lookup finds under a name lies in the network that declared the name, as its
\* own or as that of a peer: no name leads into another tunnel.
LookupStaysInside == status = "ok" => \A n \in DOMAIN net :
    \E i \in DOMAIN config :
        LET all == {[name |-> config[i].name, ip |-> config[i].ip]}
                       \cup {config[i].peers[j] : j \in DOMAIN config[i].peers}
        IN  (\E p \in all : p.name = n) /\ (\E p \in all : p.ip = Lookup(n))

\* "Network is a map of a unique name to a Net tunnel": after a successful load each
\* name, that of a server and those of its peers alike, is known and leads to the
\* address declared with it.  The code stores the peers under the server's name.
NamesResolve == status = "ok" => \A i \in DOMAIN config :
    /\ config[i].name \in DOMAIN net /\ Lookup(config[i].name) = config[i].ip
    /\ \A j \in DOMAIN config[i].peers :
           LET p == config[i].peers[j]
           IN  p.name \in DOMAIN net /\ Lookup(p.name) = p.ip
=============================================================================
