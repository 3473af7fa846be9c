-------------------------------- MODULE WgApi --------------------------------
(***************************************************************************)
(* The text in which wireguard-go is configured and reports: packages      *)
(* wgapi and wgconfig.  An IPC is a sequence of values, each with its key; *)
(* its text is one line key=value for each.  The text of a key is the key, *)
(* the text of a number the integer it shows.                              *)
(***************************************************************************)
EXTENDS Integers, SequencesExt

CONSTANTS
    IntBits     \* the width of int, and of Uint64

ASSUME IntBitsAssumption == IntBits \in Nat \ {0}

KV(key, value) == [key |-> key, value |-> value]

\* Keys: one type each for private, public and preshared ones.
PrivateKey(n) == [type |-> "private", n |-> n]
PresharedKey(n) == [type |-> "preshared", n |-> n]
Public(private) == [type |-> "public", n |-> private.n]
-----------------------------------------------------------------------------
(* Addresses, of version 4 or 6.  A net.IPNet may hold an address of       *)
(* version 4 in 16 bytes: its mask is then one of 128 bits.                *)
Address(v, a) == [v |-> v, a |-> a]
Zero(v) == Address(v, 0)
IPNet(ip, ones, bits) == [ip |-> ip, ones |-> ones, bits |-> bits]

EmptySubnet == IPNet(Zero(4), 0, 32)

\* mutant: the mask of a site, as if of an address of 4 bytes
IdentitySubnetSite(ip) == IPNet(ip, 32, 128)
IdentitySubnet(ip) == IPNet(ip, 128, 128)

\* IPNet.String shows a mask of 128 bits on an address of version 4 by its last 32.
IPNetString(n) ==
    [ip |-> n.ip, ones |-> IF n.ip.v = 4 /\ n.bits = 128
                           THEN IF n.ones < 96 THEN 0 ELSE n.ones - 96
                           ELSE n.ones]

\* ParseIPNet keeps the network: with the masks in use, the address or nothing of it.
ParseIPNet(text) ==
    IPNet(IF text.ones = 0 THEN Zero(text.ip.v) ELSE text.ip, text.ones, IF text.ip.v = 4 THEN 32 ELSE 128)
-----------------------------------------------------------------------------
(* Printing and parsing one value.                                         *)
Uint64s == {"rx_bytes", "tx_bytes"}

\* mutant: one key is missing in the table of parsers
Int64sShort == {"errno", "last_handshake_time_sec"}
Int64s == {"errno", "last_handshake_time_sec", "last_handshake_time_nsec"}
Ones == {"get", "set", "protocol_version"}
Trues == {"replace_peers", "remove", "update_only", "replace_allowed_ips"}
Constants == [key \in Ones \cup Trues |-> IF key \in Ones THEN 1 ELSE TRUE]
KeyTypes == [key \in {"private_key", "public_key", "preshared_key"} |->
                CASE key = "private_key" -> "private"
                  [] key = "public_key" -> "public"
                  [] key = "preshared_key" -> "preshared"]
Uint16s == {"listen_port", "persistent_keepalive_interval"}

\* Every integer is printed through int, in which a Uint64 may be negative.
\* mutant: through an int of one bit less
numStringNarrow(n) == IF n < 2^(IntBits - 2) THEN n ELSE n - 2^(IntBits - 1)
numString(n) == IF n < 2^(IntBits - 1) THEN n ELSE n - 2^IntBits

String(kv) == CASE kv.key \in Uint64s -> numString(kv.value)
                [] kv.key = "allowed_ip" -> IPNetString(kv.value)
                [] OTHER -> kv.value

\* IPC.WGConfig, as its lines.
WGConfig(ipc) == [i \in DOMAIN ipc |-> KV(ipc[i].key, String(ipc[i]))]

\* A number is read if it is within the width of its key.
Within(n, low, high) == {m \in {n} : low <= m /\ m < high}

\* The parsers, by key: the set of the value, empty for an error or an unknown key.
\* (Nothing here sets fwmark, the one number of 32 bits.)
Parse(line) ==
    LET v == line.value
    IN  CASE line.key \in DOMAIN Constants -> {v} \cap {Constants[line.key]}
          [] line.key \in DOMAIN KeyTypes -> IF v.type = KeyTypes[line.key] THEN {v} ELSE {}
          [] line.key \in Uint64s -> Within(v, 0, 2^IntBits)
          [] line.key \in Uint16s -> Within(v, 0, 2^16)
          [] line.key \in Int64s -> Within(v, -(2^(IntBits - 1)), 2^(IntBits - 1))
          [] line.key = "allowed_ip" -> {ParseIPNet(v)}
          [] line.key = "endpoint" -> {v}
          [] OTHER -> {}

\* IPCGet.Value on the lines in the buffer: those before the first blank one, as
\* a set that is empty for an error.
Blank == KV("", 0)
Lines(buf) ==
    LET blanks == {i \in DOMAIN buf : buf[i].key = ""}
    IN  IF blanks = {} THEN buf ELSE SubSeq(buf, 1, Min(blanks) - 1)

\* mutant: what is zero is not shown
ValueNonZero(buf) ==
    LET lines == SelectSeq(Lines(buf), LAMBDA l : ~(l.key \in Uint64s /\ l.value = 0))
    IN  IF \E i \in DOMAIN lines : Parse(lines[i]) = {} THEN {}
        ELSE {[i \in DOMAIN lines |-> KV(lines[i].key, CHOOSE v \in Parse(lines[i]) : TRUE)]}
Value(buf) ==
    LET lines == Lines(buf)
    IN  IF \E i \in DOMAIN lines : Parse(lines[i]) = {} THEN {}
        ELSE {[i \in DOMAIN lines |-> KV(lines[i].key, CHOOSE v \in Parse(lines[i]) : TRUE)]}
-----------------------------------------------------------------------------
(* wgconfig.                                                               *)
DefaultPersistentKeepalive == 25

Client(private, public, preshared, endpoint) ==
    [private |-> private, public |-> public, preshared |-> preshared, endpoint |-> endpoint,
     keepalive |-> <<DefaultPersistentKeepalive>>, allowed |-> <<EmptySubnet>>]
Server(private, port) == [private |-> private, port |-> port, peers |-> <<>>]

AllowedIPs(subnets) == [i \in DOMAIN subnets |-> KV("allowed_ip", subnets[i])]

AddPeer(server, public, preshared, ip) ==
    [server EXCEPT !.peers = Append(@, [public |-> public, preshared |-> preshared,
                                        allowed |-> <<IdentitySubnet(ip)>>])]

\* mutant: only what is there is updated
ClientHeadKeeps(c) ==
    <<KV("private_key", c.private), KV("public_key", c.public), KV("endpoint", c.endpoint),
      KV("preshared_key", c.preshared)>>
ClientHead(c) ==
    <<KV("private_key", c.private), KV("replace_peers", TRUE), KV("public_key", c.public),
      KV("endpoint", c.endpoint), KV("preshared_key", c.preshared)>>

ClientConfig(c) ==
    WGConfig(ClientHead(c)
             \o [i \in DOMAIN c.keepalive |-> KV("persistent_keepalive_interval", c.keepalive[i])]
             \o AllowedIPs(c.allowed))

PeerConfig(p) ==
    WGConfig(<<KV("public_key", p.public), KV("preshared_key", p.preshared)>> \o AllowedIPs(p.allowed))

ServerConfig(s) ==
    WGConfig(<<KV("private_key", s.private), KV("listen_port", s.port)>>)
        \o FlattenSeq([i \in DOMAIN s.peers |-> PeerConfig(s.peers[i])])

\* GenerateConfigPair; the three keys it generates are numbered from n.
GenerateConfigPair(n, endpoint, ip) ==
    [client |-> Client(PrivateKey(n), Public(PrivateKey(n + 1)), PresharedKey(n + 2), endpoint),
     server |-> AddPeer(Server(PrivateKey(n + 1), endpoint.port), Public(PrivateKey(n)), PresharedKey(n + 2), ip)]
=============================================================================
