-------------------------------- MODULE WgPair --------------------------------
(***************************************************************************)
(* A wireguard server and its clients, configured by SetConfig with the    *)
(* texts of WgApi and read back by GetConfig.  The devices are those of    *)
(* wireguard-go, external: of them is modelled what the lines of a         *)
(* configuration do, one after the other, and what a get operation writes. *)
(***************************************************************************)
EXTENDS WgApi, FiniteSets

CONSTANTS
    Clients,    \* the clients
    ClientIP,   \* the address of each in the tunnel
    Endpoints,  \* addresses the server can be reached at
    MaxKeys,    \* bound: keys generated
    Counters,   \* what a device has counted of a peer
    NoConfig    \* a device that was not configured, or not with success

Srv == "server"
Hosts == Clients \cup {Srv}

ASSUME ServerAssumption == Srv \notin Clients

\* A port is a uint16; of a peer a device counts bytes received and sent, in a uint64, and
\* knows the time of the last handshake, in two int64.
ASSUME NumbersAssumption ==
    /\ \A e \in Endpoints : e.port \in Nat /\ e.port < 2^16
    /\ Counters # {}
    /\ \A n \in Counters : /\ n.rx \in Nat /\ n.tx \in Nat /\ n.rx < 2^IntBits /\ n.tx < 2^IntBits
                           /\ n.sec \in Nat /\ n.nsec \in Nat
                           /\ n.sec < 2^(IntBits - 1) /\ n.nsec < 2^(IntBits - 1)

VARIABLES
    cfg,        \* cfg[h]: the configuration last made for h
    keys,       \* how many keys were generated
    applied,    \* applied[h]: the configuration last written to the device of h
    text,       \* text[h]: the lines of it the device has still to read
    dev,        \* dev[h]: the device
    got         \* what GetConfig has just returned, and for which device

vars == <<cfg, keys, applied, text, dev, got>>

NoResult == [ipcs |-> {}, of |-> <<>>]
NoDevice ==
    [private |-> PrivateKey(0), port |-> 0, peers |-> <<>>, routes |-> <<>>, current |-> <<>>]

Init ==
    /\ cfg = [h \in Hosts |-> NoConfig]
    /\ keys = 0
    /\ applied = [h \in Hosts |-> NoConfig]
    /\ text = [h \in Hosts |-> <<>>]
    /\ dev = [h \in Hosts |-> NoDevice]
    /\ got = NoResult
-----------------------------------------------------------------------------
(* Configurations.                                                         *)

\* A new pair: the server knows this one client.
Pair(c, e) ==
    /\ keys + 3 <= MaxKeys
    /\ keys' = keys + 3
    /\ LET pair == GenerateConfigPair(keys + 1, e, ClientIP[c])
       IN  cfg' = [cfg EXCEPT ![c] = pair.client, ![Srv] = pair.server]
    /\ got' = NoResult
    /\ UNCHANGED <<applied, text, dev>>

\* One more client, with keys of its own, is added to the server.
Join(c, e) ==
    /\ keys + 2 <= MaxKeys
    /\ cfg[Srv] # NoConfig
    /\ e.port = cfg[Srv].port
    /\ \A i \in DOMAIN cfg[Srv].peers : cfg[Srv].peers[i].allowed[1].ip # ClientIP[c]
    /\ keys' = keys + 2
    /\ LET private == PrivateKey(keys + 1)
           shared == PresharedKey(keys + 2)
       IN  cfg' = [cfg EXCEPT ![c] = Client(private, Public(cfg[Srv].private), shared, e),
                              ![Srv] = AddPeer(@, Public(private), shared, ClientIP[c])]
    /\ got' = NoResult
    /\ UNCHANGED <<applied, text, dev>>
-----------------------------------------------------------------------------
(* The device.                                                             *)
DeviceKeys == {"private_key", "listen_port", "replace_peers"}
PeerKeys == {"preshared_key", "endpoint", "persistent_keepalive_interval", "allowed_ip"}

Put(f, x, v) == [y \in DOMAIN f \cup {x} |-> IF y = x THEN v ELSE f[y]]
NewPeer == [preshared |-> PresharedKey(0), endpoint |-> <<>>, keepalive |-> 0]

\* What a line does to a device, as a set: empty when the line is refused.  Lines of a
\* peer follow its public_key; an address is routed to the peer that was given it last.
Apply(d, line) ==
    LET v == line.value
        peer(field, val) == IF d.current = <<>> THEN {}
                            ELSE {[d EXCEPT !.peers[d.current[1]][field] = val]}
    IN  CASE line.key \in DeviceKeys /\ d.current # <<>> -> {}
          [] line.key = "private_key" /\ d.current = <<>> -> {[d EXCEPT !.private = v]}
          [] line.key = "listen_port" /\ d.current = <<>> -> {[d EXCEPT !.port = v]}
          [] line.key = "replace_peers" /\ d.current = <<>> -> {[d EXCEPT !.peers = <<>>, !.routes = <<>>]}
          [] line.key = "public_key" ->
                 {[d EXCEPT !.current = <<v>>,
                            !.peers = IF v \in DOMAIN @ THEN @ ELSE Put(@, v, NewPeer)]}
          [] line.key = "preshared_key" -> peer("preshared", v)
          [] line.key = "endpoint" -> peer("endpoint", <<v>>)
          [] line.key = "persistent_keepalive_interval" -> peer("keepalive", v)
          [] line.key = "allowed_ip" /\ d.current # <<>> ->
                 {[d EXCEPT !.routes = Put(@, [v EXCEPT !.ip = IF v.ones = 0 THEN Zero(@.v) ELSE @],
                                           d.current[1])]}
          [] OTHER -> {}

\* SetConfig.
SetConfig(h) ==
    /\ cfg[h] # NoConfig
    /\ text[h] = <<>>
    /\ applied' = [applied EXCEPT ![h] = cfg[h]]
    /\ text' = [text EXCEPT ![h] = IF h = Srv THEN ServerConfig(cfg[h]) ELSE ClientConfig(cfg[h])]
    /\ dev' = [dev EXCEPT ![h].current = <<>>]
    /\ got' = NoResult
    /\ UNCHANGED <<cfg, keys>>

\* A line that is refused ends the operation; what was done of it stays.
Line(h) ==
    /\ text[h] # <<>>
    /\ LET ds == Apply(dev[h], Head(text[h]))
       IN  IF ds = {}
           THEN /\ text' = [text EXCEPT ![h] = <<>>]
                /\ applied' = [applied EXCEPT ![h] = NoConfig]
                /\ UNCHANGED dev
           ELSE /\ text' = [text EXCEPT ![h] = Tail(@)]
                /\ \E d \in ds : dev' = [dev EXCEPT ![h] = d]
                /\ UNCHANGED applied
    /\ got' = NoResult
    /\ UNCHANGED <<cfg, keys>>
-----------------------------------------------------------------------------
(* Reading back.                                                           *)
Some(key, vs) == [i \in DOMAIN vs |-> KV(key, vs[i])]
NonZero(v, zero) == IF v = zero THEN <<>> ELSE <<v>>

PeerLines(d, p, n) ==
    LET routes == SetToSeq({r \in DOMAIN d.routes : d.routes[r] = p})
    IN  <<KV("public_key", p), KV("preshared_key", d.peers[p].preshared), KV("protocol_version", 1)>>
        \o Some("endpoint", d.peers[p].endpoint)
        \o <<KV("last_handshake_time_sec", n.sec), KV("last_handshake_time_nsec", n.nsec),
             KV("tx_bytes", n.tx), KV("rx_bytes", n.rx),
             KV("persistent_keepalive_interval", d.peers[p].keepalive)>>
        \o Some("allowed_ip", routes)

\* What a get operation writes: peers is the order of the peers, count[p] what has been
\* counted of p.
IpcGet(d, peers, count) ==
    Some("private_key", NonZero(d.private, PrivateKey(0))) \o Some("listen_port", NonZero(d.port, 0))
        \o FlattenSeq([i \in DOMAIN peers |-> PeerLines(d, peers[i], count[peers[i]])])

\* GetConfig: the device writes to a new IPCGet, and Value reads it.  No line is being
\* read meanwhile.  A socket ends the same reply with an errno and a blank line.
GetConfig(h) ==
    /\ text[h] = <<>>
    /\ \E peers \in SetToSeqs(DOMAIN dev[h].peers), count \in [DOMAIN dev[h].peers -> Counters],
          end \in {<<>>, <<KV("errno", 0), Blank>>} :
           LET reply == IpcGet(dev[h], peers, count) \o end
           IN  got' = [ipcs |-> Value(reply), of |-> <<[dev |-> dev[h], count |-> count, reply |-> reply]>>]
    /\ UNCHANGED <<cfg, keys, applied, text, dev>>

Next ==
    \/ \E c \in Clients, e \in Endpoints : Pair(c, e) \/ Join(c, e)
    \/ \E h \in Hosts : SetConfig(h) \/ Line(h) \/ GetConfig(h)

Spec == Init /\ [][Next]_vars
-----------------------------------------------------------------------------
(* Properties *)

\* The device of h has read all of a configuration.
Configured(h) == applied[h] # NoConfig /\ text[h] = <<>>

\* The peer a packet for an address is sent to, and the only one it is accepted from: that
\* of the longest prefix.
Route(d, ip) ==
    LET own == {r \in DOMAIN d.routes : r.ip = ip /\ r.ones > 0}
        all == {r \in DOMAIN d.routes : r.ip.v = ip.v /\ r.ones = 0}
    IN  {d.routes[r] : r \in IF own # {} THEN own ELSE all}

\* The client c and the server are configured for each other.
Paired(c) ==
    /\ Configured(c) /\ Configured(Srv)
    /\ \E i \in DOMAIN applied[Srv].peers : applied[Srv].peers[i].public = Public(applied[c].private)

\* Client and server of one configuration can speak to each other: each knows the other's
\* public key and has the same preshared key for it, the client knows where the server
\* listens and keeps the connection alive, and each sends what is for the other's address
\* to it, and accepts it from it.
Speak(c) ==
    LET me == Public(dev[c].private)
        it == Public(dev[Srv].private)
    IN  /\ me \in DOMAIN dev[Srv].peers /\ it \in DOMAIN dev[c].peers
        /\ dev[c].peers[it].preshared = dev[Srv].peers[me].preshared
        /\ dev[c].peers[it].endpoint # <<>> /\ dev[c].peers[it].endpoint[1].port = dev[Srv].port
        /\ dev[c].peers[it].keepalive > 0
        /\ Route(dev[Srv], ClientIP[c]) = {me}
        /\ Route(dev[c], Address(ClientIP[c].v, 9)) = {it}

\* "GenerateConfigPair generates a client and server config that are set up to connect to
\* each other": this holds for every client with an address of version 4, whatever the
\* devices were configured with before, for other clients or with other keys.
PairConnects == \A c \in Clients : Paired(c) /\ ClientIP[c].v = 4 => Speak(c)

\* A client has one peer, its server: what a former configuration had is replaced.
OnlyServer == \A c \in Clients : Configured(c) => DOMAIN dev[c].peers = {applied[c].public}

\* A device as it can be seen in an IPC.
Values(ipc, key) == {ipc[i].value : i \in {j \in DOMAIN ipc : ipc[j].key = key}}
OfPeer(ipc, p) ==
    LET first == CHOOSE i \in DOMAIN ipc : ipc[i].key = "public_key" /\ ipc[i].value = p
        later == {i \in DOMAIN ipc : i > first /\ ipc[i].key = "public_key"}
        end == IF later = {} THEN Len(ipc) ELSE Min(later) - 1
    IN  SubSeq(ipc, first, end)

\* A counter that an int does not hold.
Large(line) == line.key \in Uint64s /\ line.value >= 2^(IntBits - 1)

\* Value after a single reply returns the device as it was: its key and port, and every peer
\* with its keys, endpoint, keepalive, counters, last handshake and addresses.  Nothing of
\* the reply is lost or added: written again, the IPC is line for line the text of the reply
\* before the blank line, but for the counters that are too large for an int.
ReadBack == got.of # <<>> =>
    LET d == got.of[1].dev
        count == got.of[1].count
        reply == got.of[1].reply
    IN  \E ipc0 \in got.ipcs :
        /\ Values(ipc0, "private_key") = {d.private} \ {PrivateKey(0)}
        /\ Values(ipc0, "listen_port") = {d.port} \ {0}
        /\ Values(ipc0, "public_key") = DOMAIN d.peers
        /\ \A p \in DOMAIN d.peers :
               LET ipc == OfPeer(ipc0, p)
               IN  /\ Values(ipc, "preshared_key") = {d.peers[p].preshared}
                   /\ Values(ipc, "protocol_version") = {1}
                   /\ Values(ipc, "endpoint") = ToSet(d.peers[p].endpoint)
                   /\ Values(ipc, "last_handshake_time_sec") = {count[p].sec}
                   /\ Values(ipc, "last_handshake_time_nsec") = {count[p].nsec}
                   /\ Values(ipc, "tx_bytes") = {count[p].tx}
                   /\ Values(ipc, "rx_bytes") = {count[p].rx}
                   /\ Values(ipc, "persistent_keepalive_interval") = {d.peers[p].keepalive}
                   /\ {IPNetString(a) : a \in Values(ipc, "allowed_ip")}
                          = {r \in DOMAIN d.routes : d.routes[r] = p}
        /\ DOMAIN ipc0 = {i \in DOMAIN reply : reply[i].key # ""}
        /\ \A i \in DOMAIN ipc0 : WGConfig(ipc0)[i] = reply[i] \/ Large(reply[i])
===============================================================================
