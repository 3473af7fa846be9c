---------------------------- MODULE WgPairProofs ----------------------------
(***************************************************************************)
(* Theorems about WgPair, for any number of clients, keys, endpoints and   *)
(* configurations of the devices.                                          *)
(***************************************************************************)
EXTENDS WgPair, SequenceLemmas, FiniteSetTheorems

-----------------------------------------------------------------------------
(* Configurations: what WgApi generates from the first n keys.             *)
ClientConfigs(n) == {Client(PrivateKey(i), Public(PrivateKey(j)), PresharedKey(l), e) :
                         i \in 1..n, j \in 1..n, l \in 1..n, e \in Endpoints}

\* A peer of the server for a client.
Known(i, l, ip) == [public |-> Public(PrivateKey(i)), preshared |-> PresharedKey(l),
                    allowed |-> <<IdentitySubnet(ip)>>]
KnownPeers(n) == {Known(i, l, ClientIP[c]) : i \in 1..n, l \in 1..n, c \in Clients}

IP(p) == p.allowed[1].ip

\* No two peers of a server have a key or an address in common.
Apart(s) == \A i, j \in 1..Len(s.peers) :
    i # j => s.peers[i].public # s.peers[j].public /\ IP(s.peers[i]) # IP(s.peers[j])

IsServerConfig(s, n) ==
    /\ DOMAIN s = {"private", "port", "peers"}
    /\ \E j \in 1..n : s.private = PrivateKey(j)
    /\ s.peers \in Seq(KnownPeers(n))
    /\ Apart(s)

\* The peer that has the key of a client configuration was made with it.
Match(c, k, s) == \A i \in 1..Len(s.peers) : s.peers[i].public = Public(k.private) =>
    /\ k.public = Public(s.private)
    /\ s.peers[i].preshared = k.preshared
    /\ s.port = k.endpoint.port
    /\ IP(s.peers[i]) = ClientIP[c]

\* The configurations in use.
Of(c) == {cfg[c], applied[c]} \ {NoConfig}
Servers == {cfg[Srv], applied[Srv]} \ {NoConfig}

ConfigShape ==
    /\ keys \in Nat /\ DOMAIN cfg = Hosts /\ DOMAIN applied = Hosts
    /\ \A c \in Clients : Of(c) \subseteq ClientConfigs(keys)
    /\ \A s \in Servers : IsServerConfig(s, keys)
    /\ \A c \in Clients : \A k \in Of(c) : \A s \in Servers : Match(c, k, s)
-----------------------------------------------------------------------------
(* Devices, by the number n of lines read of the configuration applied.    *)
DeviceFields == {"private", "port", "peers", "routes", "current"}
PeerFields == {"preshared", "endpoint", "keepalive"}

\* What is still to read are the last lines of the text.
Rest(t, lines) ==
    /\ t \in Seq(ToSet(lines)) /\ Len(t) <= Len(lines)
    /\ \A i \in 1..Len(t) : t[i] = lines[Len(lines) - Len(t) + i]

AllRoute == IPNetString(EmptySubnet)

ClientSoFar(k, d, n) ==
    /\ n < 3 => d.current = <<>>
    /\ n >= 1 => d.private = k.private
    /\ n = 2 => d.peers = <<>> /\ d.routes = <<>>
    /\ n >= 3 => d.current = <<k.public>> /\ DOMAIN d.peers = {k.public}
                 /\ DOMAIN d.peers[k.public] = PeerFields
    /\ n \in 3..6 => d.routes = <<>>
    /\ n >= 4 => d.peers[k.public].endpoint = <<k.endpoint>>
    /\ n >= 5 => d.peers[k.public].preshared = k.preshared
    /\ n >= 6 => d.peers[k.public].keepalive = DefaultPersistentKeepalive
    /\ n = 7 => DOMAIN d.routes = {AllRoute} /\ d.routes[AllRoute] = k.public

ClientRead == \A c \in Clients : applied[c] # NoConfig =>
    /\ Rest(text[c], ClientConfig(applied[c]))
    /\ ClientSoFar(applied[c], dev[c], 7 - Len(text[c]))

\* How the net of an address is shown.
Exact(ip) == IPNetString(IdentitySubnet(ip))

ServerSoFar(s, d, n) ==
    /\ n <= 2 => d.current = <<>>
    /\ n >= 1 => d.private = s.private
    /\ n >= 2 => d.port = s.port
    /\ \A i \in 1..Len(s.peers) :
           LET p == s.peers[i]
           IN  /\ n \in 3*i..(3*i + 2) => d.current = <<p.public>>
               /\ n >= 3*i => p.public \in DOMAIN d.peers
               /\ n >= 3*i + 1 => d.peers[p.public].preshared = p.preshared
               /\ n >= 3*i + 2 => Exact(IP(p)) \in DOMAIN d.routes /\ d.routes[Exact(IP(p))] = p.public

ServerRead == applied[Srv] # NoConfig =>
    /\ Rest(text[Srv], ServerConfig(applied[Srv]))
    /\ ServerSoFar(applied[Srv], dev[Srv], Len(ServerConfig(applied[Srv])) - Len(text[Srv]))

\* The server is given addresses, never larger nets.
AddressesOnly(d) ==
    /\ \A p \in DOMAIN d.peers : DOMAIN d.peers[p] = PeerFields
    /\ \A r \in DOMAIN d.routes : r = Exact(r.ip)

DeviceShape ==
    /\ DOMAIN text = Hosts /\ DOMAIN dev = Hosts
    /\ \A h \in Hosts : DOMAIN dev[h] = DeviceFields
    /\ \A h \in Hosts : applied[h] = NoConfig => text[h] = <<>>

PairInv == ConfigShape /\ DeviceShape /\ ClientRead /\ ServerRead /\ AddressesOnly(dev[Srv])
-----------------------------------------------------------------------------
(* The lines of the configurations.                                        *)
LEMMA KVParts == ASSUME NEW key, NEW value PROVE KV(key, value).key = key /\ KV(key, value).value = value
BY DEF KV

Plain == {"private_key", "listen_port", "replace_peers", "public_key", "endpoint", "preshared_key",
          "persistent_keepalive_interval"}

\* A key, an endpoint or a small number is printed as it is, ...
LEMMA StringPlain == ASSUME NEW key \in Plain, NEW value PROVE String(KV(key, value)) = value
<1>1. KV(key, value).key = key /\ KV(key, value).value = value
  BY KVParts
<1>2. key \notin Uint64s /\ key # "allowed_ip"
  BY DEF Plain, Uint64s
<1> HIDE DEF KV
<1>3. QED
  BY <1>1, <1>2 DEF String

\* ... and a net as IPNet.String shows it.
LEMMA StringNet == ASSUME NEW n PROVE String(KV("allowed_ip", n)) = IPNetString(n)
<1>1. KV("allowed_ip", n).key = "allowed_ip" /\ KV("allowed_ip", n).value = n
  BY KVParts
<1>2. "allowed_ip" \notin Uint64s
  BY DEF Uint64s
<1>3. QED
  BY <1>1, <1>2 DEF String

\* The lines of one peer of the server.
LEMMA PeerLinesOf ==
  ASSUME NEW p, NEW n, p.allowed = <<n>>
  PROVE  LET q == PeerConfig(p)
             v == <<KV("public_key", p.public), KV("preshared_key", p.preshared),
                    KV("allowed_ip", IPNetString(n))>>
         IN  q \in Seq({v[1], v[2], v[3]}) /\ Len(q) = 3 /\ \A j \in 1..3 : q[j] = v[j]
<1> DEFINE a == KV("public_key", p.public)
           b == KV("preshared_key", p.preshared)
           e == KV("allowed_ip", n)
           w == <<a, b>> \o AllowedIPs(p.allowed)
           z == KV("allowed_ip", IPNetString(n))
<1>1. AllowedIPs(p.allowed) = <<e>>
  BY DEF AllowedIPs
<1>2. /\ a.key = "public_key" /\ String(a) = p.public
      /\ b.key = "preshared_key" /\ String(b) = p.preshared
      /\ e.key = "allowed_ip" /\ String(e) = IPNetString(n)
  BY KVParts, StringPlain, StringNet DEF Plain
<1>3. KV(a.key, String(a)) = a /\ KV(b.key, String(b)) = b /\ KV(e.key, String(e)) = z
  BY <1>2
<1> HIDE DEF a, b, e, z
<1>4. /\ <<a, b>> \in Seq({a, b, e}) /\ Len(<<a, b>>) = 2 /\ <<a, b>>[1] = a /\ <<a, b>>[2] = b
      /\ <<e>> \in Seq({a, b, e}) /\ Len(<<e>>) = 1 /\ <<e>>[1] = e
  OBVIOUS
<1>5. /\ w \in Seq({a, b, e}) /\ Len(w) = 3
      /\ \A i \in 1..2 : w[i] = <<a, b>>[i]
      /\ \A i \in 1..1 : w[2 + i] = <<e>>[i]
  <2> DEFINE s == <<a, b>>
             t == <<e>>
  <2>1. s \in Seq({a, b, e}) /\ t \in Seq({a, b, e}) /\ w = s \o t
    BY <1>1, <1>4
  <2>2. Len(s) = 2 /\ Len(t) = 1
    BY <1>4
  <2> HIDE DEF s, t, w
  <2>3. /\ w \in Seq({a, b, e}) /\ Len(w) = 2 + 1
        /\ \A i \in 1..2 : w[i] = s[i]
        /\ \A i \in 1..1 : w[2 + i] = t[i]
    <3>1. /\ w \in Seq({a, b, e}) /\ Len(w) = Len(s) + Len(t)
          /\ \A i \in 1..Len(s) : w[i] = s[i]
          /\ \A i \in 1..Len(t) : w[Len(s) + i] = t[i]
      BY <2>1
    <3>2. QED
      BY <2>2, <3>1
  <2>4. QED
    BY <2>3 DEF s, t
<1> HIDE DEF w
<1>6. w[1] = a /\ w[2] = b /\ w[3] = e
  <2>1. 1 \in 1..2 /\ 2 \in 1..2 /\ 1 \in 1..1 /\ 2 + 1 = 3
    OBVIOUS
  <2>2. QED
    BY <1>4, <1>5, <2>1
<1>7. PeerConfig(p) = [i \in 1..3 |-> KV(w[i].key, String(w[i]))]
  BY <1>5 DEF PeerConfig, WGConfig, w, a, b
<1>8. /\ Len(PeerConfig(p)) = 3
      /\ PeerConfig(p)[1] = a /\ PeerConfig(p)[2] = b /\ PeerConfig(p)[3] = z
  BY <1>3, <1>6, <1>7
<1>9. PeerConfig(p) \in Seq({a, b, z})
  BY <1>7, <1>8
<1>10. QED
  BY <1>8, <1>9 DEF a, b, z

\* What is read next, and what is left then.
LEMMA NextLine ==
  ASSUME NEW lines, Len(lines) \in Nat, NEW t, Rest(t, lines), t # <<>>
  PROVE  /\ Len(t) \in 1..Len(lines) /\ Len(Tail(t)) = Len(t) - 1
         /\ Head(t) = lines[Len(lines) - Len(t) + 1]
         /\ Rest(Tail(t), lines)
<1> DEFINE X == ToSet(lines)
           m == Len(lines)
<1>1. t \in Seq(X) /\ Len(t) <= m /\ \A i \in 1..Len(t) : t[i] = lines[m - Len(t) + i]
  BY DEF Rest
<1>2. m \in Nat
  OBVIOUS
<1> HIDE DEF X, m
<1>3. Len(t) \in 1..m
  BY <1>1, <1>2
<1>4. Tail(t) \in Seq(X) /\ Len(Tail(t)) = Len(t) - 1 /\ Head(t) = t[1]
  BY <1>1, <1>3
<1>5. \A i \in 1..Len(Tail(t)) : Tail(t)[i] = t[i + 1]
  BY <1>1, <1>3
<1>6. Head(t) = lines[m - Len(t) + 1]
  BY <1>1, <1>3, <1>4
<1>7. ASSUME NEW i \in 1..Len(Tail(t)) PROVE Tail(t)[i] = lines[m - Len(Tail(t)) + i]
  <2>1. i + 1 \in 1..Len(t) /\ m - Len(t) + (i + 1) = m - Len(Tail(t)) + i
    BY <1>2, <1>3, <1>4
  <2>2. QED
    BY <1>1, <1>5, <2>1
<1>8. Rest(Tail(t), lines)
  BY <1>2, <1>3, <1>4, <1>7 DEF Rest, X, m
<1>9. QED
  BY <1>3, <1>4, <1>6, <1>8 DEF m

\* Before the first line is read, all are left.
LEMMA AllLeft ==
  ASSUME NEW X, NEW lines \in Seq(X)
  PROVE  Rest(lines, lines)
<1>1. DOMAIN lines = 1..Len(lines) /\ Len(lines) \in Nat
  OBVIOUS
<1>2. \A i \in 1..Len(lines) : lines[i] \in ToSet(lines)
  BY <1>1 DEF ToSet
<1>3. lines \in Seq(ToSet(lines))
  BY <1>1, <1>2
<1>4. QED
  BY <1>1, <1>3 DEF Rest

\* The lines of a configuration are its values, as they are printed.
LEMMA Printed ==
  ASSUME NEW X, NEW q \in Seq(X)
  PROVE  /\ WGConfig(q) \in Seq({KV(q[i].key, String(q[i])) : i \in 1..Len(q)})
         /\ Len(WGConfig(q)) = Len(q)
         /\ \A i \in 1..Len(q) : WGConfig(q)[i] = KV(q[i].key, String(q[i]))
<1> DEFINE line(i) == KV(q[i].key, String(q[i]))
           Y == {line(i) : i \in 1..Len(q)}
<1>1. DOMAIN q = 1..Len(q) /\ Len(q) \in Nat
  OBVIOUS
<1>2. WGConfig(q) = [i \in 1..Len(q) |-> line(i)]
  BY <1>1 DEF WGConfig
<1> HIDE DEF line
<1>3. \A i \in 1..Len(q) : line(i) \in Y
  OBVIOUS
<1>4. QED
  BY <1>1, <1>2, <1>3 DEF line

\* The fields of a client configuration.
LEMMA ClientParts ==
  ASSUME NEW private, NEW public, NEW preshared, NEW e
  PROVE  LET k == Client(private, public, preshared, e)
         IN  /\ k.private = private /\ k.public = public /\ k.preshared = preshared /\ k.endpoint = e
             /\ k.keepalive = <<DefaultPersistentKeepalive>> /\ k.allowed = <<EmptySubnet>>
BY DEF Client

\* The lines of a client configuration, whatever its keys and its endpoint.
LEMMA ClientLines ==
  ASSUME NEW last, NEW k \in ClientConfigs(last)
  PROVE  LET q == ClientConfig(k)
         IN  /\ q \in Seq(ToSet(q)) /\ Len(q) = 7
             /\ q[1] = KV("private_key", k.private) /\ q[2] = KV("replace_peers", TRUE)
             /\ q[3] = KV("public_key", k.public) /\ q[4] = KV("endpoint", k.endpoint)
             /\ q[5] = KV("preshared_key", k.preshared)
             /\ q[6] = KV("persistent_keepalive_interval", DefaultPersistentKeepalive)
             /\ q[7] = KV("allowed_ip", AllRoute)
<1> DEFINE h == ClientHead(k)
           a == KV("persistent_keepalive_interval", DefaultPersistentKeepalive)
           b == KV("allowed_ip", EmptySubnet)
           ha == h \o <<a>>
           w == ha \o <<b>>
           X == {h[1], h[2], h[3], h[4], h[5], a, b}
<1>1. k.keepalive = <<DefaultPersistentKeepalive>> /\ k.allowed = <<EmptySubnet>>
  BY ClientParts DEF ClientConfigs
<1>2. ClientConfig(k) = WGConfig(w)
  <2>1. [i \in DOMAIN k.keepalive |-> KV("persistent_keepalive_interval", k.keepalive[i])] = <<a>>
    BY <1>1
  <2>2. AllowedIPs(k.allowed) = <<b>>
    BY <1>1 DEF AllowedIPs
  <2>3. QED
    BY <2>1, <2>2 DEF ClientConfig
<1>3. /\ h[1] = KV("private_key", k.private) /\ h[2] = KV("replace_peers", TRUE)
      /\ h[3] = KV("public_key", k.public) /\ h[4] = KV("endpoint", k.endpoint)
      /\ h[5] = KV("preshared_key", k.preshared) /\ Len(h) = 5
  BY DEF ClientHead
<1>4. h \in Seq(X)
  BY DEF ClientHead
<1>5. <<a>> \in Seq(X) /\ Len(<<a>>) = 1 /\ <<a>>[1] = a /\ <<b>> \in Seq(X) /\ Len(<<b>>) = 1 /\ <<b>>[1] = b
  <2> HIDE DEF a, b, h
  <2>1. QED
    OBVIOUS
<1> HIDE DEF X, h
<1>6. ha \in Seq(X) /\ Len(ha) = 6 /\ (\A i \in 1..5 : ha[i] = h[i]) /\ ha[6] = a
  <2> DEFINE t == <<a>>
  <2>1. h \in Seq(X) /\ t \in Seq(X) /\ ha = h \o t
    BY <1>4, <1>5
  <2>2. Len(t) = 1 /\ t[1] = a /\ Len(h) = 5
    BY <1>3, <1>5
  <2> HIDE DEF t, ha, a
  <2>3. /\ ha \in Seq(X) /\ Len(ha) = Len(h) + Len(t)
        /\ \A i \in 1..Len(h) : ha[i] = h[i]
        /\ \A i \in 1..Len(t) : ha[Len(h) + i] = t[i]
    BY <2>1
  <2>4. QED
    BY <2>2, <2>3
<1> HIDE DEF ha
<1>7. w \in Seq(X) /\ Len(w) = 7 /\ (\A i \in 1..6 : w[i] = ha[i]) /\ w[7] = b
  <2> DEFINE t == <<b>>
  <2>1. ha \in Seq(X) /\ t \in Seq(X) /\ w = ha \o t
    BY <1>6, <1>5
  <2>2. Len(t) = 1 /\ t[1] = b /\ Len(ha) = 6
    BY <1>6, <1>5
  <2> HIDE DEF t, w, b
  <2>3. /\ w \in Seq(X) /\ Len(w) = Len(ha) + Len(t)
        /\ \A i \in 1..Len(ha) : w[i] = ha[i]
        /\ \A i \in 1..Len(t) : w[Len(ha) + i] = t[i]
    BY <2>1
  <2>4. QED
    BY <2>2, <2>3
<1> HIDE DEF w
<1>8. /\ Len(WGConfig(w)) = 7 /\ WGConfig(w) \in Seq({KV(w[i].key, String(w[i])) : i \in 1..Len(w)})
      /\ \A i \in 1..7 : WGConfig(w)[i] = KV(w[i].key, String(w[i]))
  BY <1>7, Printed
<1>9. WGConfig(w) \in Seq(ToSet(WGConfig(w)))
  BY <1>8, AllLeft DEF Rest
<1>10. ASSUME NEW key \in Plain, NEW value
       PROVE  KV(KV(key, value).key, String(KV(key, value))) = KV(key, value)
  BY KVParts, StringPlain
<1>11. KV(b.key, String(b)) = KV("allowed_ip", AllRoute)
  BY KVParts, StringNet DEF AllRoute
<1>12. (\A i \in 1..5 : w[i] = h[i]) /\ w[6] = a /\ w[7] = b
  BY <1>6, <1>7
<1>13. KV(h[2].key, String(h[2])) = h[2]
  <2>1. "replace_peers" \in Plain
    BY DEF Plain
  <2>2. QED
    BY <1>3, <1>10, <2>1, Zenon
<1>14. /\ KV(h[1].key, String(h[1])) = h[1] /\ KV(h[3].key, String(h[3])) = h[3]
       /\ KV(h[4].key, String(h[4])) = h[4] /\ KV(h[5].key, String(h[5])) = h[5]
       /\ KV(a.key, String(a)) = a
  BY <1>3, <1>10 DEF Plain
<1>15. \A i \in 1..5 : WGConfig(w)[i] = h[i]
  <2> HIDE DEF a, b
  <2>1. /\ WGConfig(w)[1] = h[1] /\ WGConfig(w)[2] = h[2] /\ WGConfig(w)[3] = h[3]
        /\ WGConfig(w)[4] = h[4] /\ WGConfig(w)[5] = h[5]
    BY <1>8, <1>12, <1>13, <1>14
  <2>2. QED
    BY <2>1
<1>16. WGConfig(w)[6] = a /\ WGConfig(w)[7] = KV("allowed_ip", AllRoute)
  <2> HIDE DEF a, b
  <2>1. QED
    BY <1>8, <1>11, <1>12, <1>14
<1>17. WGConfig(w)[2] = KV("replace_peers", TRUE)
  <2>1. 2 \in 1..5
    OBVIOUS
  <2>2. QED
    BY <1>3, <1>15, <2>1, Zenon
<1>18. /\ WGConfig(w)[1] = KV("private_key", k.private) /\ WGConfig(w)[3] = KV("public_key", k.public)
       /\ WGConfig(w)[4] = KV("endpoint", k.endpoint) /\ WGConfig(w)[5] = KV("preshared_key", k.preshared)
  BY <1>3, <1>15
<1>19. Len(WGConfig(w)) = 7
  BY <1>8
<1>20. QED
  BY <1>2, <1>9, <1>16, <1>17, <1>18, <1>19, Zenon DEF a

\* A peer of the server has one address.
LEMMA PeerParts ==
  ASSUME NEW last, NEW p \in KnownPeers(last)
  PROVE  p.allowed = <<IdentitySubnet(IP(p))>>
<1>1. PICK i \in 1..last, l \in 1..last, c \in Clients : p = Known(i, l, ClientIP[c])
  BY DEF KnownPeers
<1>2. p.allowed = <<IdentitySubnet(ClientIP[c])>>
  BY <1>1 DEF Known
<1>3. IP(p) = ClientIP[c]
  BY <1>2 DEF IP, IdentitySubnet, IPNet
<1>4. QED
  BY <1>2, <1>3

\* The lines of a server configuration: two for the server and three for each peer.
LEMMA ServerLines ==
  ASSUME NEW s, NEW last, s.peers \in Seq(KnownPeers(last))
  PROVE  LET q == ServerConfig(s)
         IN  /\ q \in Seq(ToSet(q)) /\ Len(q) = 2 + 3 * Len(s.peers)
             /\ q[1] = KV("private_key", s.private) /\ q[2] = KV("listen_port", s.port)
             /\ \A i \in 1..Len(s.peers) :
                    LET p == s.peers[i]
                    IN  /\ q[3 * i] = KV("public_key", p.public)
                        /\ q[3 * i + 1] = KV("preshared_key", p.preshared)
                        /\ q[3 * i + 2] = KV("allowed_ip", Exact(IP(p)))
<1> DEFINE m == Len(s.peers)
           a == KV("private_key", s.private)
           b == KV("listen_port", s.port)
           h == WGConfig(<<a, b>>)
           g == [i \in DOMAIN s.peers |-> PeerConfig(s.peers[i])]
           From(i) == ToSet(PeerConfig(s.peers[i]))
           X == {a, b} \cup UNION {From(i) : i \in 1..m}
           r == FlattenSeq(g)
<1>1. m \in Nat /\ DOMAIN s.peers = 1..m /\ \A i \in 1..m : s.peers[i] \in KnownPeers(last)
  OBVIOUS
<1>2. h \in Seq(X) /\ Len(h) = 2 /\ h[1] = a /\ h[2] = b
  <2>1. <<a, b>> \in Seq({a, b}) /\ Len(<<a, b>>) = 2 /\ <<a, b>>[1] = a /\ <<a, b>>[2] = b
    <3> HIDE DEF a, b
    <3>1. QED
      OBVIOUS
  <2>2. KV(a.key, String(a)) = a /\ KV(b.key, String(b)) = b
    BY KVParts, StringPlain DEF Plain
  <2>3. h = [i \in 1..2 |-> KV(<<a, b>>[i].key, String(<<a, b>>[i]))]
    BY <2>1 DEF WGConfig
  <2> DEFINE x == <<a, b>>
  <2>4. h = [i \in 1..2 |-> KV(x[i].key, String(x[i]))] /\ x[1] = a /\ x[2] = b
    BY <2>1, <2>3
  <2> HIDE DEF x, a, b, h
  <2>5. Len(h) = 2 /\ h[1] = a /\ h[2] = b /\ DOMAIN h = 1..2
    BY <2>2, <2>4
  <2>6. a \in X /\ b \in X
    OBVIOUS
  <2> HIDE DEF X
  <2>7. h[1] \in X /\ h[2] \in X
    BY <2>5, <2>6
  <2>8. \A i \in 1..2 : h[i] \in X
    BY <2>7
  <2>9. h = [i \in 1..2 |-> h[i]]
    BY <2>4, <2>5
  <2>10. h \in Seq(X)
    BY <2>8, <2>9
  <2>11. QED
    BY <2>5, <2>10
<1>3. ASSUME NEW i \in 1..m
      PROVE  /\ PeerConfig(s.peers[i]) \in Seq(X) /\ Len(PeerConfig(s.peers[i])) = 3
             /\ PeerConfig(s.peers[i])[1] = KV("public_key", s.peers[i].public)
             /\ PeerConfig(s.peers[i])[2] = KV("preshared_key", s.peers[i].preshared)
             /\ PeerConfig(s.peers[i])[3] = KV("allowed_ip", Exact(IP(s.peers[i])))
  <2> DEFINE p == s.peers[i]
             q == PeerConfig(p)
             v == <<KV("public_key", p.public), KV("preshared_key", p.preshared),
                    KV("allowed_ip", IPNetString(IdentitySubnet(IP(p))))>>
  <2>1. p.allowed = <<IdentitySubnet(IP(p))>>
    BY <1>1, PeerParts
  <2>2. q \in Seq({v[1], v[2], v[3]}) /\ Len(q) = 3 /\ \A j \in 1..3 : q[j] = v[j]
    <3> HIDE DEF p
    <3>1. QED
      BY <2>1, PeerLinesOf
  <2>3. /\ q[1] = KV("public_key", p.public) /\ q[2] = KV("preshared_key", p.preshared)
        /\ q[3] = KV("allowed_ip", Exact(IP(p)))
    BY <2>2 DEF Exact
  <2>4. q \in Seq(ToSet(q))
    BY <2>2, AllLeft DEF Rest
  <2>5. ToSet(q) \subseteq X
    OBVIOUS
  <2> HIDE DEF X, q
  <2>6. q \in Seq(X)
    BY <2>4, <2>5
  <2>7. QED
    BY <2>2, <2>3, <2>6 DEF q
<1> HIDE DEF X
<1>4. /\ g \in Seq(Seq(X)) /\ Len(g) = m /\ \A i \in 1..m : g[i] = PeerConfig(s.peers[i])
  <2>1. g = [i \in 1..m |-> PeerConfig(s.peers[i])]
    BY <1>1
  <2> HIDE DEF g, m
  <2>2. QED
    BY <1>1, <1>3, <2>1
<1> HIDE DEF g
<1>5. \A i \in 1..Len(g) : Len(g[i]) = 3
  BY <1>3, <1>4
<1>6. /\ r \in Seq(X) /\ Len(r) = 3 * m
      /\ \A i \in 1..m : \A j \in 1..3 : r[3 * i - 3 + j] = g[i][j]
  BY <1>4, <1>5, FlattenThrees
<1> DEFINE u == ServerConfig(s)
<1>7. u = h \o r
  BY DEF ServerConfig, g
<1> HIDE DEF r, u, h
<1>8. /\ u \in Seq(X) /\ Len(u) = Len(h) + Len(r)
      /\ \A k \in 1..Len(h) : u[k] = h[k]
      /\ \A k \in 1..Len(r) : u[Len(h) + k] = r[k]
  <2>1. h \in Seq(X) /\ r \in Seq(X)
    BY <1>2, <1>6
  <2>2. QED
    BY <1>7, <2>1
<1>9. Len(u) = 2 + 3 * m /\ u[1] = a /\ u[2] = b
  <2> HIDE DEF a, b, m
  <2>1. QED
    BY <1>2, <1>6, <1>8
<1>10. ASSUME NEW i \in 1..m, NEW j \in 1..3 PROVE u[3 * i - 1 + j] = PeerConfig(s.peers[i])[j]
  <2> HIDE DEF m
  <2>1. 3 * i - 3 + j \in 1..Len(r) /\ Len(h) + (3 * i - 3 + j) = 3 * i - 1 + j
    BY <1>1, <1>2, <1>6
  <2>2. u[3 * i - 1 + j] = r[3 * i - 3 + j]
    BY <1>8, <2>1
  <2>3. QED
    BY <1>4, <1>6, <2>2
<1>11. ASSUME NEW i \in 1..m
       PROVE  /\ u[3 * i] = KV("public_key", s.peers[i].public)
              /\ u[3 * i + 1] = KV("preshared_key", s.peers[i].preshared)
              /\ u[3 * i + 2] = KV("allowed_ip", Exact(IP(s.peers[i])))
  <2>1. /\ u[3 * i] = PeerConfig(s.peers[i])[1] /\ u[3 * i + 1] = PeerConfig(s.peers[i])[2]
        /\ u[3 * i + 2] = PeerConfig(s.peers[i])[3]
    <3>1. 3 * i - 1 + 1 = 3 * i /\ 3 * i - 1 + 2 = 3 * i + 1 /\ 3 * i - 1 + 3 = 3 * i + 2
      BY <1>1
    <3>2. 1 \in 1..3 /\ 2 \in 1..3 /\ 3 \in 1..3
      OBVIOUS
    <3> HIDE DEF m
    <3>3. QED
      BY <1>10, <3>1, <3>2
  <2>2. QED
    BY <1>3, <2>1
<1>12. u \in Seq(ToSet(u))
  BY <1>8, AllLeft DEF Rest
<1>13. QED
  BY <1>9, <1>11, <1>12 DEF u

-----------------------------------------------------------------------------
(* The device reads one line.                                              *)
\* What a line does to a device.
LEMMA LinePrivate ==
  ASSUME NEW d, DOMAIN d = DeviceFields, NEW v, NEW e \in Apply(d, KV("private_key", v))
  PROVE  /\ DOMAIN e = DeviceFields /\ e.private = v /\ e.port = d.port /\ e.peers = d.peers
         /\ e.routes = d.routes /\ e.current = d.current
<1>1. KV("private_key", v).key = "private_key" /\ KV("private_key", v).value = v
  BY KVParts
<1>2. e = [d EXCEPT !.private = v]
  BY <1>1 DEF Apply, DeviceKeys
<1>3. QED
  BY <1>2 DEF DeviceFields

\* listen_port.
LEMMA LinePort ==
  ASSUME NEW d, DOMAIN d = DeviceFields, NEW v, NEW e \in Apply(d, KV("listen_port", v))
  PROVE  /\ DOMAIN e = DeviceFields /\ e.port = v /\ e.private = d.private /\ e.peers = d.peers
         /\ e.routes = d.routes /\ e.current = d.current
<1>1. KV("listen_port", v).key = "listen_port" /\ KV("listen_port", v).value = v
  BY KVParts
<1>2. e = [d EXCEPT !.port = v]
  BY <1>1 DEF Apply, DeviceKeys
<1>3. QED
  BY <1>2 DEF DeviceFields

\* replace_peers.
LEMMA LineReplace ==
  ASSUME NEW d, DOMAIN d = DeviceFields, NEW e \in Apply(d, KV("replace_peers", TRUE))
  PROVE  /\ DOMAIN e = DeviceFields /\ e.private = d.private /\ e.port = d.port /\ e.peers = <<>>
         /\ e.routes = <<>> /\ e.current = d.current
<1>1. KV("replace_peers", TRUE).key = "replace_peers"
  BY KVParts
<1>2. e = [d EXCEPT !.peers = <<>>, !.routes = <<>>]
  BY <1>1 DEF Apply, DeviceKeys
<1>3. QED
  BY <1>2 DEF DeviceFields

\* public_key: lines that follow are of this peer, which is a new one or a known one.
LEMMA LinePublic ==
  ASSUME NEW d, DOMAIN d = DeviceFields, NEW v, NEW e \in Apply(d, KV("public_key", v))
  PROVE  /\ DOMAIN e = DeviceFields /\ e.private = d.private /\ e.port = d.port /\ e.routes = d.routes
         /\ e.current = <<v>>
         /\ DOMAIN e.peers = DOMAIN d.peers \cup {v}
         /\ \A y \in DOMAIN d.peers : e.peers[y] = d.peers[y]
         /\ v \notin DOMAIN d.peers => e.peers[v] = NewPeer
<1>1. KV("public_key", v).key = "public_key" /\ KV("public_key", v).value = v
  BY KVParts
<1>2. e = [d EXCEPT !.current = <<v>>,
                    !.peers = IF v \in DOMAIN d.peers THEN d.peers ELSE Put(d.peers, v, NewPeer)]
  BY <1>1 DEF Apply, DeviceKeys, DeviceFields
<1>3. /\ DOMAIN e = DeviceFields /\ e.private = d.private /\ e.port = d.port /\ e.routes = d.routes
      /\ e.current = <<v>>
      /\ e.peers = IF v \in DOMAIN d.peers THEN d.peers ELSE Put(d.peers, v, NewPeer)
  BY <1>2 DEF DeviceFields
<1> HIDE DEF NewPeer
<1>4. QED
  BY <1>3 DEF Put

\* One field of the current peer.
OneField(d, e, p, field, val) ==
  /\ DOMAIN e = DeviceFields /\ e.private = d.private /\ e.port = d.port /\ e.routes = d.routes
  /\ e.current = d.current /\ DOMAIN e.peers = DOMAIN d.peers
  /\ \A y \in DOMAIN d.peers \ {p} : e.peers[y] = d.peers[y]
  /\ DOMAIN e.peers[p] = PeerFields /\ e.peers[p][field] = val
  /\ \A f \in PeerFields \ {field} : e.peers[p][f] = d.peers[p][f]

\* One field of the current peer is set, and nothing else.
LEMMA SetField ==
  ASSUME NEW d, DOMAIN d = DeviceFields, NEW p \in DOMAIN d.peers, d.current = <<p>>,
         DOMAIN d.peers[p] = PeerFields, NEW field \in PeerFields, NEW val,
         NEW e, e = [d EXCEPT !.peers[d.current[1]][field] = val]
  PROVE  OneField(d, e, p, field, val)
<1>1. d.current[1] = p
  OBVIOUS
<1>2. /\ DOMAIN e = DeviceFields /\ e.private = d.private /\ e.port = d.port /\ e.routes = d.routes
      /\ e.current = d.current /\ e.peers = [d.peers EXCEPT ![p][field] = val]
  BY <1>1 DEF DeviceFields
<1>3. DOMAIN e.peers = DOMAIN d.peers /\ (\A y \in DOMAIN d.peers \ {p} : e.peers[y] = d.peers[y])
      /\ e.peers[p] = [d.peers[p] EXCEPT ![field] = val]
  BY <1>2
<1>4. /\ DOMAIN e.peers[p] = PeerFields /\ e.peers[p][field] = val
      /\ \A f \in PeerFields \ {field} : e.peers[p][f] = d.peers[p][f]
  BY <1>3
<1>5. QED
  BY <1>2, <1>3, <1>4 DEF OneField

\* preshared_key, endpoint and persistent_keepalive_interval.
LEMMA LinePeer ==
  ASSUME NEW d, DOMAIN d = DeviceFields, NEW p \in DOMAIN d.peers, d.current = <<p>>,
         DOMAIN d.peers[p] = PeerFields, NEW v
  PROVE  /\ \A e \in Apply(d, KV("preshared_key", v)) : OneField(d, e, p, "preshared", v)
         /\ \A e \in Apply(d, KV("endpoint", v)) : OneField(d, e, p, "endpoint", <<v>>)
         /\ \A e \in Apply(d, KV("persistent_keepalive_interval", v)) : OneField(d, e, p, "keepalive", v)
<1>1. d.current # <<>>
  OBVIOUS
<1>2. ASSUME NEW e \in Apply(d, KV("preshared_key", v)) PROVE OneField(d, e, p, "preshared", v)
  <2>1. KV("preshared_key", v).key = "preshared_key" /\ KV("preshared_key", v).value = v
    BY KVParts
  <2>2. e = [d EXCEPT !.peers[d.current[1]]["preshared"] = v]
    BY <1>1, <2>1 DEF Apply, DeviceKeys
  <2>3. QED
    BY <2>2, SetField DEF PeerFields
<1>3. ASSUME NEW e \in Apply(d, KV("endpoint", v)) PROVE OneField(d, e, p, "endpoint", <<v>>)
  <2>1. KV("endpoint", v).key = "endpoint" /\ KV("endpoint", v).value = v
    BY KVParts
  <2>2. e = [d EXCEPT !.peers[d.current[1]]["endpoint"] = <<v>>]
    BY <1>1, <2>1 DEF Apply, DeviceKeys
  <2>3. QED
    BY <2>2, SetField DEF PeerFields
<1>4. ASSUME NEW e \in Apply(d, KV("persistent_keepalive_interval", v))
      PROVE  OneField(d, e, p, "keepalive", v)
  <2>1. /\ KV("persistent_keepalive_interval", v).key = "persistent_keepalive_interval"
        /\ KV("persistent_keepalive_interval", v).value = v
    BY KVParts
  <2>2. e = [d EXCEPT !.peers[d.current[1]]["keepalive"] = v]
    BY <1>1, <2>1 DEF Apply, DeviceKeys
  <2>3. QED
    BY <2>2, SetField DEF PeerFields
<1>5. QED
  BY <1>2, <1>3, <1>4

\* allowed_ip, for the nets of WgApi.
LEMMA LineRoute ==
  ASSUME NEW d, DOMAIN d = DeviceFields, NEW p, d.current = <<p>>,
         NEW r, r = AllRoute \/ (\E ip : r = Exact(ip)), NEW e \in Apply(d, KV("allowed_ip", r))
  PROVE  /\ DOMAIN e = DeviceFields /\ e.private = d.private /\ e.port = d.port /\ e.peers = d.peers
         /\ e.current = d.current /\ DOMAIN e.routes = DOMAIN d.routes \cup {r} /\ e.routes[r] = p
         /\ \A y \in DOMAIN d.routes \ {r} : e.routes[y] = d.routes[y]
<1>1. KV("allowed_ip", r).key = "allowed_ip" /\ KV("allowed_ip", r).value = r
  BY KVParts
<1>2. d.current # <<>> /\ d.current[1] = p
  OBVIOUS
<1>3. [r EXCEPT !.ip = IF r.ones = 0 THEN Zero(r.ip.v) ELSE r.ip] = r
  <2>1. CASE r = AllRoute
    BY <2>1 DEF AllRoute, EmptySubnet, IPNetString, IPNet, Zero, Address
  <2>2. CASE \E ip : r = Exact(ip)
    BY <2>2 DEF Exact, IdentitySubnet, IPNetString, IPNet
  <2>3. QED
    BY <2>1, <2>2
<1>4. e = [d EXCEPT !.routes = Put(@, [r EXCEPT !.ip = IF r.ones = 0 THEN Zero(@.v) ELSE @], d.current[1])]
  BY <1>1, <1>2 DEF Apply, DeviceKeys
<1>5. e = [d EXCEPT !.routes = Put(d.routes, r, p)]
  BY <1>2, <1>3, <1>4 DEF DeviceFields
<1>6. /\ DOMAIN e = DeviceFields /\ e.private = d.private /\ e.port = d.port /\ e.peers = d.peers
      /\ e.current = d.current /\ e.routes = Put(d.routes, r, p)
  BY <1>5 DEF DeviceFields
<1>7. QED
  BY <1>6 DEF Put

\* The device of a client reads the next of its seven lines.
LEMMA ClientStep ==
  ASSUME NEW last, NEW k \in ClientConfigs(last), NEW d, DOMAIN d = DeviceFields,
         NEW n \in 0..6, ClientSoFar(k, d, n),
         NEW e \in Apply(d, ClientConfig(k)[n + 1])
  PROVE  DOMAIN e = DeviceFields /\ ClientSoFar(k, e, n + 1)
<1> DEFINE p == k.public
           q == ClientConfig(k)
<1>1. /\ q[1] = KV("private_key", k.private) /\ q[2] = KV("replace_peers", TRUE)
      /\ q[3] = KV("public_key", p) /\ q[4] = KV("endpoint", k.endpoint)
      /\ q[5] = KV("preshared_key", k.preshared)
      /\ q[6] = KV("persistent_keepalive_interval", DefaultPersistentKeepalive)
      /\ q[7] = KV("allowed_ip", AllRoute)
  BY ClientLines, Zenon
<1>2. /\ n = 0 => e \in Apply(d, q[1])
      /\ n = 1 => e \in Apply(d, q[2])
      /\ n = 2 => e \in Apply(d, q[3])
      /\ n = 3 => e \in Apply(d, q[4])
      /\ n = 4 => e \in Apply(d, q[5])
      /\ n = 5 => e \in Apply(d, q[6])
      /\ n = 6 => e \in Apply(d, q[7])
  <2> DEFINE A(x) == Apply(d, x)
  <2>1. e \in A(q[n + 1])
    OBVIOUS
  <2> HIDE DEF A, q
  <2>2. QED
    BY <2>1 DEF A
<1> HIDE DEF q
<1>3. CASE n = 0
  <2>1. e \in Apply(d, KV("private_key", k.private))
    BY <1>3, <1>1, <1>2, Zenon
  <2>2. DOMAIN e = DeviceFields /\ e.private = k.private /\ e.current = d.current
    BY <2>1, LinePrivate
  <2>3. d.current = <<>>
    BY <1>3 DEF ClientSoFar
  <2>4. QED
    BY <1>3, <2>2, <2>3 DEF ClientSoFar
<1>4. CASE n = 1
  <2>1. e \in Apply(d, KV("replace_peers", TRUE))
    BY <1>4, <1>1, <1>2, Zenon
  <2>2. /\ DOMAIN e = DeviceFields /\ e.private = d.private /\ e.current = d.current
        /\ e.peers = <<>> /\ e.routes = <<>>
    BY <2>1, LineReplace
  <2>3. d.current = <<>> /\ d.private = k.private
    BY <1>4 DEF ClientSoFar
  <2>4. QED
    BY <1>4, <2>2, <2>3 DEF ClientSoFar
<1>5. CASE n = 2
  <2>1. e \in Apply(d, KV("public_key", p))
    BY <1>5, <1>1, <1>2, Zenon
  <2>2. d.current = <<>> /\ d.private = k.private /\ d.peers = <<>> /\ d.routes = <<>>
    BY <1>5 DEF ClientSoFar
  <2>3. DOMAIN d.peers = {}
    BY <2>2
  <2>4. /\ DOMAIN e = DeviceFields /\ e.private = d.private /\ e.current = <<p>> /\ e.routes = d.routes
        /\ DOMAIN e.peers = {p} /\ e.peers[p] = NewPeer
    <3> HIDE DEF p
    <3>1. /\ DOMAIN e.peers = DOMAIN d.peers \cup {p} /\ (p \notin DOMAIN d.peers => e.peers[p] = NewPeer)
          /\ DOMAIN e = DeviceFields /\ e.private = d.private /\ e.current = <<p>> /\ e.routes = d.routes
      BY <2>1, LinePublic
    <3>2. QED
      BY <2>3, <3>1
  <2>5. DOMAIN e.peers[p] = PeerFields
    BY <2>4 DEF NewPeer, PeerFields
  <2>6. QED
    BY <1>5, <2>2, <2>4, <2>5 DEF ClientSoFar
<1>6. ASSUME n \in 3..5
      PROVE  /\ p \in DOMAIN d.peers /\ d.current = <<p>> /\ DOMAIN d.peers[p] = PeerFields
             /\ DOMAIN d.peers = {p} /\ d.private = k.private /\ d.routes = <<>>
  BY <1>6 DEF ClientSoFar
<1>7. ASSUME n \in 3..5, NEW field \in PeerFields, NEW val, OneField(d, e, p, field, val)
      PROVE  /\ DOMAIN e = DeviceFields /\ e.private = k.private /\ e.current = <<p>> /\ e.routes = <<>>
             /\ DOMAIN e.peers = {p} /\ DOMAIN e.peers[p] = PeerFields /\ e.peers[p][field] = val
             /\ \A f \in PeerFields \ {field} : e.peers[p][f] = d.peers[p][f]
  <2> HIDE DEF p
  <2>1. QED
    BY <1>6, <1>7 DEF OneField
<1>8. CASE n = 3
  <2>1. e \in Apply(d, KV("endpoint", k.endpoint))
    BY <1>8, <1>1, <1>2, Zenon
  <2>2. OneField(d, e, p, "endpoint", <<k.endpoint>>)
    <3>1. p \in DOMAIN d.peers /\ d.current = <<p>> /\ DOMAIN d.peers[p] = PeerFields
      BY <1>6, <1>8
    <3> HIDE DEF p
    <3>2. QED
      BY <2>1, <3>1, LinePeer, Zenon
  <2>3. e.peers[p].endpoint = <<k.endpoint>>
    BY <1>7, <1>8, <2>2 DEF PeerFields
  <2>4. /\ DOMAIN e = DeviceFields /\ e.private = k.private /\ e.current = <<p>> /\ e.routes = <<>>
        /\ DOMAIN e.peers = {p} /\ DOMAIN e.peers[p] = PeerFields
    <3>1. "endpoint" \in PeerFields
      BY DEF PeerFields
    <3>2. QED
      BY <1>7, <1>8, <2>2, <3>1
  <2>5. QED
    BY <1>8, <2>3, <2>4 DEF ClientSoFar
<1>9. CASE n = 4
  <2>1. e \in Apply(d, KV("preshared_key", k.preshared))
    BY <1>9, <1>1, <1>2, Zenon
  <2>2. OneField(d, e, p, "preshared", k.preshared)
    <3>1. p \in DOMAIN d.peers /\ d.current = <<p>> /\ DOMAIN d.peers[p] = PeerFields
      BY <1>6, <1>9
    <3> HIDE DEF p
    <3>2. QED
      BY <2>1, <3>1, LinePeer, Zenon
  <2>3. e.peers[p].preshared = k.preshared /\ e.peers[p].endpoint = d.peers[p].endpoint
    BY <1>7, <1>9, <2>2 DEF PeerFields
  <2>4. /\ DOMAIN e = DeviceFields /\ e.private = k.private /\ e.current = <<p>> /\ e.routes = <<>>
        /\ DOMAIN e.peers = {p} /\ DOMAIN e.peers[p] = PeerFields
    <3>1. "preshared" \in PeerFields
      BY DEF PeerFields
    <3>2. QED
      BY <1>7, <1>9, <2>2, <3>1
  <2>5. d.peers[p].endpoint = <<k.endpoint>>
    BY <1>9 DEF ClientSoFar
  <2>6. QED
    BY <1>9, <2>3, <2>4, <2>5 DEF ClientSoFar
<1>10. CASE n = 5
  <2>1. e \in Apply(d, KV("persistent_keepalive_interval", DefaultPersistentKeepalive))
    BY <1>10, <1>1, <1>2, Zenon
  <2>2. OneField(d, e, p, "keepalive", DefaultPersistentKeepalive)
    <3>1. p \in DOMAIN d.peers /\ d.current = <<p>> /\ DOMAIN d.peers[p] = PeerFields
      BY <1>6, <1>10
    <3> HIDE DEF p
    <3>2. QED
      BY <2>1, <3>1, LinePeer, Zenon
  <2>3. /\ e.peers[p].keepalive = DefaultPersistentKeepalive
        /\ e.peers[p].preshared = d.peers[p].preshared /\ e.peers[p].endpoint = d.peers[p].endpoint
    BY <1>7, <1>10, <2>2 DEF PeerFields
  <2>4. /\ DOMAIN e = DeviceFields /\ e.private = k.private /\ e.current = <<p>> /\ e.routes = <<>>
        /\ DOMAIN e.peers = {p} /\ DOMAIN e.peers[p] = PeerFields
    <3>1. "keepalive" \in PeerFields
      BY DEF PeerFields
    <3>2. QED
      BY <1>7, <1>10, <2>2, <3>1
  <2>5. d.peers[p].endpoint = <<k.endpoint>> /\ d.peers[p].preshared = k.preshared
    BY <1>10 DEF ClientSoFar
  <2>6. QED
    BY <1>10, <2>3, <2>4, <2>5 DEF ClientSoFar
<1>11. CASE n = 6
  <2>1. e \in Apply(d, KV("allowed_ip", AllRoute))
    BY <1>11, <1>1, <1>2, Zenon
  <2>2. /\ d.current = <<p>> /\ DOMAIN d.peers = {p} /\ DOMAIN d.peers[p] = PeerFields
        /\ d.private = k.private /\ d.routes = <<>> /\ d.peers[p].endpoint = <<k.endpoint>>
        /\ d.peers[p].preshared = k.preshared /\ d.peers[p].keepalive = DefaultPersistentKeepalive
    BY <1>11 DEF ClientSoFar
  <2>3. DOMAIN d.routes = {}
    BY <2>2
  <2>4. /\ DOMAIN e = DeviceFields /\ e.private = d.private /\ e.peers = d.peers
        /\ e.current = d.current /\ DOMAIN e.routes = {AllRoute} /\ e.routes[AllRoute] = p
    <3> DEFINE r == AllRoute
    <3>1. d.current = <<p>>
      BY <2>2
    <3>2. /\ DOMAIN e = DeviceFields /\ e.private = d.private /\ e.peers = d.peers
          /\ e.current = d.current /\ DOMAIN e.routes = DOMAIN d.routes \cup {r} /\ e.routes[r] = p
      BY <2>1, <3>1, LineRoute
    <3> HIDE DEF r
    <3>3. QED
      BY <2>3, <3>2 DEF r
  <2>5. QED
    BY <1>11, <2>2, <2>4 DEF ClientSoFar
<1>12. QED
  BY <1>3, <1>4, <1>5, <1>8, <1>9, <1>10, <1>11

\* Which line of which peer a line is.
LEMMA Thirds ==
  ASSUME NEW m \in Nat, NEW n \in 2..(1 + 3 * m)
  PROVE  \E i \in 1..m : n + 1 \in {3 * i, 3 * i + 1, 3 * i + 2}
<1>1. PICK i \in Int : n + 1 = 3 * i \/ n + 1 = 3 * i + 1 \/ n + 1 = 3 * i + 2
  <2> DEFINE i == (n + 1) \div 3
  <2>1. i \in Int /\ 3 * i <= n + 1 /\ n + 1 < 3 * i + 3
    OBVIOUS
  <2> HIDE DEF i
  <2>2. n + 1 = 3 * i \/ n + 1 = 3 * i + 1 \/ n + 1 = 3 * i + 2
    BY <2>1
  <2>3. QED
    BY <2>1, <2>2
<1>2. i \in 1..m
  BY <1>1
<1>3. QED
  BY <1>1, <1>2

\* The net of an address has the address.
LEMMA ExactIP == ASSUME NEW ip PROVE Exact(ip).ip = ip
BY DEF Exact, IdentitySubnet, IPNet, IPNetString

\* The part of ServerSoFar about one peer.
PeerSoFar(p, d, n, i) ==
  /\ n \in 3*i..(3*i + 2) => d.current = <<p.public>>
  /\ n >= 3*i => p.public \in DOMAIN d.peers
  /\ n >= 3*i + 1 => d.peers[p.public].preshared = p.preshared
  /\ n >= 3*i + 2 => Exact(IP(p)) \in DOMAIN d.routes /\ d.routes[Exact(IP(p))] = p.public

\* ServerSoFar, by peer.
LEMMA ServerPeers ==
  ASSUME NEW s, NEW d, NEW n
  PROVE  ServerSoFar(s, d, n) <=>
             /\ n <= 2 => d.current = <<>>
             /\ n >= 1 => d.private = s.private
             /\ n >= 2 => d.port = s.port
             /\ \A i \in 1..Len(s.peers) : PeerSoFar(s.peers[i], d, n, i)
BY DEF ServerSoFar, PeerSoFar

\* The device of the server reads the next line.  It is about one peer, and leaves alone
\* what the lines before it did for the others: they have other keys and other addresses.
LEMMA ServerStep ==
  ASSUME NEW s, NEW last, s.peers \in Seq(KnownPeers(last)), Apart(s), NEW d, DOMAIN d = DeviceFields,
         NEW n \in 0..(1 + 3 * Len(s.peers)), ServerSoFar(s, d, n), AddressesOnly(d),
         NEW e \in Apply(d, ServerConfig(s)[n + 1])
  PROVE  DOMAIN e = DeviceFields /\ ServerSoFar(s, e, n + 1) /\ AddressesOnly(e)
<1> DEFINE q == ServerConfig(s)
           m == Len(s.peers)
<1>1. m \in Nat
  OBVIOUS
<1>2. q[1] = KV("private_key", s.private) /\ q[2] = KV("listen_port", s.port)
  BY ServerLines, Zenon
<1>3. ASSUME NEW i \in 1..m
      PROVE  /\ q[3 * i] = KV("public_key", s.peers[i].public)
             /\ q[3 * i + 1] = KV("preshared_key", s.peers[i].preshared)
             /\ q[3 * i + 2] = KV("allowed_ip", Exact(IP(s.peers[i])))
  BY ServerLines, Zenon
<1>4. ASSUME NEW x, n + 1 = x PROVE e \in Apply(d, q[x])
  <2> DEFINE A(y) == Apply(d, y)
  <2>1. e \in A(q[n + 1])
    OBVIOUS
  <2> HIDE DEF A, q
  <2>2. QED
    BY <1>4, <2>1, Zenon DEF A
<1>5. /\ n <= 2 => d.current = <<>>
      /\ n >= 1 => d.private = s.private
      /\ n >= 2 => d.port = s.port
      /\ \A i \in 1..m : PeerSoFar(s.peers[i], d, n, i)
  BY ServerPeers
<1>6. ASSUME /\ n + 1 <= 2 => e.current = <<>>
             /\ n + 1 >= 1 => e.private = s.private
             /\ n + 1 >= 2 => e.port = s.port
             /\ \A i \in 1..m : PeerSoFar(s.peers[i], e, n + 1, i)
      PROVE  ServerSoFar(s, e, n + 1)
  BY <1>6, ServerPeers
<1> HIDE DEF q
<1>7. CASE n = 0
  <2>1. e \in Apply(d, KV("private_key", s.private))
    <3>1. n + 1 = 1
      BY <1>7
    <3>2. QED
      BY <1>2, <1>4, <3>1, Zenon
  <2>2. /\ DOMAIN e = DeviceFields /\ e.private = s.private /\ e.peers = d.peers
        /\ e.routes = d.routes /\ e.current = d.current
    BY <2>1, LinePrivate
  <2>3. \A i \in 1..m : PeerSoFar(s.peers[i], e, n + 1, i)
    BY <1>1, <1>7 DEF PeerSoFar
  <2>4. ServerSoFar(s, e, n + 1)
    BY <1>5, <1>6, <1>7, <2>2, <2>3
  <2>5. QED
    BY <2>2, <2>4 DEF AddressesOnly
<1>8. CASE n = 1
  <2>1. e \in Apply(d, KV("listen_port", s.port))
    <3>1. n + 1 = 2
      BY <1>8
    <3>2. QED
      BY <1>2, <1>4, <3>1, Zenon
  <2>2. /\ DOMAIN e = DeviceFields /\ e.private = d.private /\ e.port = s.port /\ e.peers = d.peers
        /\ e.routes = d.routes /\ e.current = d.current
    BY <2>1, LinePort
  <2>3. \A i \in 1..m : PeerSoFar(s.peers[i], e, n + 1, i)
    BY <1>1, <1>8 DEF PeerSoFar
  <2>4. ServerSoFar(s, e, n + 1)
    BY <1>5, <1>6, <1>8, <2>2, <2>3
  <2>5. QED
    BY <2>2, <2>4 DEF AddressesOnly
<1>9. CASE n >= 2
  <2>1. n \in 2..(1 + 3 * m)
    BY <1>1, <1>9
  <2> HIDE DEF m
  <2>2. PICK i \in 1..m : n + 1 \in {3 * i, 3 * i + 1, 3 * i + 2}
    BY <1>1, <2>1, Thirds
  <2> DEFINE p == s.peers[i]
  <2>3. ASSUME NEW j \in 1..m PROVE PeerSoFar(s.peers[j], d, n, j)
    BY <1>5
  <2>4. ASSUME NEW j \in 1..m, j # i
        PROVE  s.peers[j].public # p.public /\ Exact(IP(s.peers[j])) # Exact(IP(p))
    <3>1. s.peers[j].public # p.public /\ IP(s.peers[j]) # IP(p)
      BY <2>4 DEF Apart, m
    <3>2. QED
      BY <3>1, ExactIP
  <2>5. d.private = s.private /\ d.port = s.port
    BY <1>1, <1>5, <2>1
  <2> HIDE DEF p
  <2>6. CASE n + 1 = 3 * i
    <3>1. e \in Apply(d, KV("public_key", p.public))
      BY <1>3, <1>4, <2>6, Zenon DEF p
    <3>2. /\ DOMAIN e = DeviceFields /\ e.private = d.private /\ e.port = d.port /\ e.routes = d.routes
          /\ e.current = <<p.public>>
          /\ DOMAIN e.peers = DOMAIN d.peers \cup {p.public}
          /\ \A y \in DOMAIN d.peers : e.peers[y] = d.peers[y]
          /\ p.public \notin DOMAIN d.peers => e.peers[p.public] = NewPeer
      <4> DEFINE v == p.public
      <4>1. e \in Apply(d, KV("public_key", v))
        BY <3>1
      <4> HIDE DEF v, NewPeer
      <4>2. QED
        BY <4>1, LinePublic DEF v
    <3>3. ASSUME NEW j \in 1..m PROVE PeerSoFar(s.peers[j], e, n + 1, j)
      <4>1. CASE j = i
        BY <1>1, <2>6, <3>2, <4>1 DEF PeerSoFar, p
      <4>2. CASE j # i
        <5>1. ~(n + 1 \in 3*j..(3*j + 2)) /\ (n + 1 >= 3*j => n >= 3*j + 2)
          BY <1>1, <2>1, <2>6, <4>2
        <5>2. QED
          BY <1>1, <2>1, <2>3, <3>2, <5>1 DEF PeerSoFar
      <4>3. QED
        BY <4>1, <4>2
    <3>4. ServerSoFar(s, e, n + 1)
      BY <1>1, <1>6, <2>1, <2>5, <3>2, <3>3
    <3>5. AddressesOnly(e)
      <4>1. DOMAIN NewPeer = PeerFields
        BY DEF NewPeer, PeerFields
      <4> HIDE DEF NewPeer
      <4>2. QED
        BY <3>2, <4>1 DEF AddressesOnly
    <3>6. QED
      BY <3>2, <3>4, <3>5
  <2>7. CASE n + 1 = 3 * i + 1
    <3>1. e \in Apply(d, KV("preshared_key", p.preshared))
      BY <1>3, <1>4, <2>7, Zenon DEF p
    <3>2. PeerSoFar(p, d, n, i) /\ n >= 3 * i /\ n \in 3*i..(3*i + 2)
      BY <1>1, <2>1, <2>3, <2>7 DEF p
    <3>3. p.public \in DOMAIN d.peers /\ d.current = <<p.public>>
      BY <3>2 DEF PeerSoFar
    <3>4. DOMAIN d.peers[p.public] = PeerFields
      BY <3>3 DEF AddressesOnly
    <3>5. OneField(d, e, p.public, "preshared", p.preshared)
      BY <3>1, <3>3, <3>4, LinePeer, Zenon
    <3>6. /\ DOMAIN e = DeviceFields /\ e.private = d.private /\ e.port = d.port /\ e.routes = d.routes
          /\ e.current = d.current /\ DOMAIN e.peers = DOMAIN d.peers
          /\ \A y \in DOMAIN d.peers \ {p.public} : e.peers[y] = d.peers[y]
          /\ DOMAIN e.peers[p.public] = PeerFields /\ e.peers[p.public].preshared = p.preshared
      BY <3>5 DEF OneField
    <3>7. ASSUME NEW j \in 1..m PROVE PeerSoFar(s.peers[j], e, n + 1, j)
      <4>1. CASE j = i
        BY <1>1, <2>7, <3>3, <3>6, <4>1 DEF PeerSoFar, p
      <4>2. CASE j # i
        <5>1. ~(n + 1 \in 3*j..(3*j + 2)) /\ (n + 1 >= 3*j => n >= 3*j + 2)
          BY <1>1, <2>1, <2>7, <4>2
        <5>2. QED
          BY <1>1, <2>1, <2>3, <2>4, <3>6, <4>2, <5>1 DEF PeerSoFar
      <4>3. QED
        BY <4>1, <4>2
    <3>8. ServerSoFar(s, e, n + 1)
      BY <1>1, <1>6, <2>1, <2>5, <3>6, <3>7
    <3>9. AddressesOnly(e)
      BY <3>6 DEF AddressesOnly
    <3>10. QED
      BY <3>6, <3>8, <3>9
  <2>8. CASE n + 1 = 3 * i + 2
    <3> DEFINE r == Exact(IP(p))
    <3>1. e \in Apply(d, KV("allowed_ip", r))
      BY <1>3, <1>4, <2>8, Zenon DEF p
    <3>2. PeerSoFar(p, d, n, i) /\ n >= 3 * i + 1 /\ n >= 3 * i /\ n \in 3*i..(3*i + 2)
      BY <1>1, <2>1, <2>3, <2>8 DEF p
    <3>3. /\ d.current = <<p.public>> /\ p.public \in DOMAIN d.peers
          /\ d.peers[p.public].preshared = p.preshared
      BY <3>2 DEF PeerSoFar
    <3>4. r = Exact(r.ip) /\ \E ip : r = Exact(ip)
      BY ExactIP
    <3> HIDE DEF r
    <3>5. /\ DOMAIN e = DeviceFields /\ e.private = d.private /\ e.port = d.port /\ e.peers = d.peers
          /\ e.current = d.current /\ DOMAIN e.routes = DOMAIN d.routes \cup {r}
          /\ e.routes[r] = p.public
          /\ \A y \in DOMAIN d.routes \ {r} : e.routes[y] = d.routes[y]
      <4> DEFINE v == p.public
      <4>1. d.current = <<v>>
        BY <3>3
      <4> HIDE DEF v
      <4>2. QED
        BY <3>1, <3>4, <4>1, LineRoute DEF v
    <3>6. ASSUME NEW j \in 1..m PROVE PeerSoFar(s.peers[j], e, n + 1, j)
      <4>1. CASE j = i
        BY <1>1, <2>8, <3>3, <3>5, <4>1 DEF PeerSoFar, p, r
      <4>2. CASE j # i
        <5>1. ~(n + 1 \in 3*j..(3*j + 2)) /\ (n + 1 >= 3*j => n >= 3*j + 2)
          BY <1>1, <2>1, <2>8, <4>2
        <5>2. Exact(IP(s.peers[j])) # r
          BY <2>4, <4>2 DEF r
        <5>3. QED
          BY <1>1, <2>1, <2>3, <3>5, <5>1, <5>2 DEF PeerSoFar
      <4>3. QED
        BY <4>1, <4>2
    <3>7. ServerSoFar(s, e, n + 1)
      BY <1>1, <1>6, <2>1, <2>5, <3>5, <3>6
    <3>8. AddressesOnly(e)
      BY <3>4, <3>5 DEF AddressesOnly
    <3>9. QED
      BY <3>5, <3>7, <3>8
  <2>9. QED
    BY <2>2, <2>6, <2>7, <2>8
<1>10. QED
  BY <1>1, <1>7, <1>8, <1>9

-----------------------------------------------------------------------------
(* The steps.                                                              *)
LEMMA Grow ==
  ASSUME NEW n \in Nat, NEW m \in Nat, n <= m
  PROVE  /\ ClientConfigs(n) \subseteq ClientConfigs(m)
         /\ KnownPeers(n) \subseteq KnownPeers(m)
         /\ \A s : IsServerConfig(s, n) => IsServerConfig(s, m)
<1>1. 1..n \subseteq 1..m
  OBVIOUS
<1>2. ClientConfigs(n) \subseteq ClientConfigs(m)
  BY <1>1 DEF ClientConfigs
<1>3. KnownPeers(n) \subseteq KnownPeers(m)
  BY <1>1 DEF KnownPeers
<1>4. ASSUME NEW s, IsServerConfig(s, n) PROVE IsServerConfig(s, m)
  <2>1. s.peers \in Seq(KnownPeers(m))
    <3>1. s.peers \in Seq(KnownPeers(n))
      BY <1>4 DEF IsServerConfig
    <3>2. QED
      BY <1>3, <3>1
  <2>2. QED
    BY <1>1, <1>4, <2>1 DEF IsServerConfig
<1>5. QED
  BY <1>2, <1>3, <1>4

\* A key that is generated next is in no configuration yet.
LEMMA NewKey ==
  ASSUME NEW n \in Nat, NEW i \in Nat, n < i
  PROVE  /\ \A k \in ClientConfigs(n) : Public(k.private) # Public(PrivateKey(i))
         /\ \A p \in KnownPeers(n) : p.public # Public(PrivateKey(i))
<1>1. \A j : Public(PrivateKey(j)).n = j
  BY DEF Public, PrivateKey
<1>2. \A j \in 1..n : Public(PrivateKey(j)) # Public(PrivateKey(i))
  BY <1>1
<1>3. ASSUME NEW k \in ClientConfigs(n) PROVE Public(k.private) # Public(PrivateKey(i))
  <2>1. PICK j \in 1..n, a \in 1..n, l \in 1..n, e \in Endpoints :
            k = Client(PrivateKey(j), Public(PrivateKey(a)), PresharedKey(l), e)
    BY <1>3 DEF ClientConfigs
  <2>2. k.private = PrivateKey(j)
    BY <2>1, ClientParts
  <2>3. QED
    BY <1>2, <2>2
<1>4. ASSUME NEW p \in KnownPeers(n) PROVE p.public # Public(PrivateKey(i))
  <2>1. PICK j \in 1..n, l \in 1..n, c \in Clients : p = Known(j, l, ClientIP[c])
    BY <1>4 DEF KnownPeers
  <2>2. p.public = Public(PrivateKey(j))
    BY <2>1 DEF Known
  <2>3. QED
    BY <1>2, <2>2
<1>5. QED
  BY <1>3, <1>4

\* The fields of a peer of the server.
LEMMA KnownParts ==
  ASSUME NEW i, NEW l, NEW ip
  PROVE  /\ Known(i, l, ip).public = Public(PrivateKey(i)) /\ Known(i, l, ip).preshared = PresharedKey(l)
         /\ IP(Known(i, l, ip)) = ip
BY DEF Known, IP, IdentitySubnet, IPNet

\* A configuration of the server with one more peer, which has a key and an address of its own.
LEMMA Added ==
  ASSUME NEW s, NEW n \in Nat, IsServerConfig(s, n), NEW i \in 1..n, NEW l \in 1..n, NEW c \in Clients,
         \A j \in 1..Len(s.peers) :
             s.peers[j].public # Public(PrivateKey(i)) /\ IP(s.peers[j]) # ClientIP[c]
  PROVE  LET t == AddPeer(s, Public(PrivateKey(i)), PresharedKey(l), ClientIP[c])
         IN  /\ IsServerConfig(t, n) /\ t.private = s.private /\ t.port = s.port
             /\ Len(t.peers) = Len(s.peers) + 1
             /\ \A j \in 1..Len(s.peers) : t.peers[j] = s.peers[j]
             /\ t.peers[Len(t.peers)] = Known(i, l, ClientIP[c])
<1> DEFINE p == Known(i, l, ClientIP[c])
           t == AddPeer(s, Public(PrivateKey(i)), PresharedKey(l), ClientIP[c])
           m == Len(s.peers)
<1>1. t = [s EXCEPT !.peers = Append(s.peers, p)]
  BY DEF AddPeer, Known
<1>2. /\ DOMAIN t = {"private", "port", "peers"} /\ t.private = s.private /\ t.port = s.port
      /\ t.peers = Append(s.peers, p)
  <2> HIDE DEF p, t
  <2>1. QED
    BY <1>1 DEF IsServerConfig
<1>3. s.peers \in Seq(KnownPeers(n)) /\ p \in KnownPeers(n)
  BY DEF IsServerConfig, KnownPeers
<1>4. p.public = Public(PrivateKey(i)) /\ IP(p) = ClientIP[c]
  BY KnownParts
<1> HIDE DEF p, t
<1>5. /\ t.peers \in Seq(KnownPeers(n)) /\ Len(t.peers) = m + 1 /\ t.peers[m + 1] = p
      /\ \A j \in 1..m : t.peers[j] = s.peers[j]
  BY <1>2, <1>3
<1>6. m \in Nat
  BY <1>3
<1> HIDE DEF m
<1>7. Apart(t)
  <2> SUFFICES ASSUME NEW a \in 1..(m + 1), NEW b \in 1..(m + 1), a # b
               PROVE  t.peers[a].public # t.peers[b].public /\ IP(t.peers[a]) # IP(t.peers[b])
    BY <1>5 DEF Apart
  <2>1. CASE a = m + 1
    <3>1. b \in 1..m
      BY <1>6, <2>1
    <3>2. QED
      BY <1>4, <1>5, <2>1, <3>1 DEF m
  <2>2. CASE b = m + 1
    <3>1. a \in 1..m
      BY <1>6, <2>2
    <3>2. QED
      BY <1>4, <1>5, <2>2, <3>1 DEF m
  <2>3. CASE a # m + 1 /\ b # m + 1
    <3>1. a \in 1..m /\ b \in 1..m
      BY <1>6, <2>3
    <3>2. Apart(s)
      BY DEF IsServerConfig
    <3>3. QED
      BY <1>5, <3>1, <3>2 DEF Apart, m
  <2>4. QED
    BY <2>1, <2>2, <2>3
<1>8. IsServerConfig(t, n)
  BY <1>2, <1>5, <1>7 DEF IsServerConfig
<1>9. QED
  BY <1>2, <1>5, <1>8 DEF m, p, t

\* A step that takes one new configuration of a client and one of the server into use.
LEMMA NewConfigs ==
  ASSUME ConfigShape, keys' \in Nat, keys <= keys', DOMAIN cfg' = Hosts, DOMAIN applied' = Hosts,
         NEW c \in Clients, NEW k \in ClientConfigs(keys'), NEW s, IsServerConfig(s, keys'),
         Of(c)' \subseteq Of(c) \cup {k}, \A b \in Clients \ {c} : Of(b)' \subseteq Of(b),
         Servers' \subseteq Servers \cup {s},
         Match(c, k, s), \A t \in Servers : Match(c, k, t),
         \A b \in Clients : \A l \in Of(b) : Match(b, l, s)
  PROVE  ConfigShape'
<1>1. keys \in Nat
  BY DEF ConfigShape
<1>2. /\ ClientConfigs(keys) \subseteq ClientConfigs(keys')
      /\ \A t : IsServerConfig(t, keys) => IsServerConfig(t, keys')
  BY <1>1, Grow
<1>3. \A b \in Clients : Of(b) \subseteq ClientConfigs(keys)
  BY DEF ConfigShape
<1>4. \A t \in Servers : IsServerConfig(t, keys)
  BY DEF ConfigShape
<1>5. \A b \in Clients : \A l \in Of(b) : \A t \in Servers : Match(b, l, t)
  BY DEF ConfigShape
<1>6. \A b \in Clients : Of(b)' \subseteq ClientConfigs(keys')
  BY <1>2, <1>3
<1>7. \A t \in Servers' : IsServerConfig(t, keys')
  BY <1>2, <1>4
<1>8. ASSUME NEW b \in Clients, NEW l \in Of(b)', NEW t \in Servers' PROVE Match(b, l, t)
  <2>1. (b = c /\ l = k) \/ l \in Of(b)
    OBVIOUS
  <2>2. t = s \/ t \in Servers
    OBVIOUS
  <2>3. QED
    BY <1>5, <2>1, <2>2
<1>9. QED
  BY <1>6, <1>7, <1>8 DEF ConfigShape

\* A step that takes no new configuration into use.
LEMMA FewerConfigs ==
  ASSUME ConfigShape, keys' = keys, DOMAIN cfg' = Hosts, DOMAIN applied' = Hosts,
         \A b \in Clients : Of(b)' \subseteq Of(b), Servers' \subseteq Servers
  PROVE  ConfigShape'
<1>1. /\ keys \in Nat
      /\ \A b \in Clients : Of(b) \subseteq ClientConfigs(keys)
      /\ \A t \in Servers : IsServerConfig(t, keys)
      /\ \A b \in Clients : \A l \in Of(b) : \A t \in Servers : Match(b, l, t)
  BY DEF ConfigShape
<1>2. \A b \in Clients : Of(b)' \subseteq ClientConfigs(keys')
  BY <1>1
<1>3. \A t \in Servers' : IsServerConfig(t, keys')
  BY <1>1
<1>4. \A b \in Clients : \A l \in Of(b)' : \A t \in Servers' : Match(b, l, t)
  BY <1>1
<1>5. QED
  BY <1>1, <1>2, <1>3, <1>4 DEF ConfigShape

\* The invariant holds initially.
LEMMA InitPairInv == Init => PairInv
<1> SUFFICES ASSUME Init PROVE PairInv
  OBVIOUS
<1>1. \A h \in Hosts : cfg[h] = NoConfig /\ applied[h] = NoConfig /\ text[h] = <<>> /\ dev[h] = NoDevice
  BY DEF Init
<1>2. DOMAIN cfg = Hosts /\ DOMAIN applied = Hosts /\ DOMAIN text = Hosts /\ DOMAIN dev = Hosts
      /\ keys \in Nat
  BY DEF Init
<1>3. Srv \in Hosts /\ \A c \in Clients : c \in Hosts
  BY DEF Hosts
<1>4. Servers = {} /\ \A c \in Clients : Of(c) = {}
  BY <1>1, <1>3 DEF Servers, Of
<1>5. ConfigShape
  BY <1>2, <1>4 DEF ConfigShape
<1>6. DOMAIN NoDevice = DeviceFields /\ NoDevice.peers = <<>> /\ NoDevice.routes = <<>>
  BY DEF NoDevice, DeviceFields
<1> HIDE DEF NoDevice
<1>7. DeviceShape
  BY <1>1, <1>2, <1>6 DEF DeviceShape
<1>8. ClientRead /\ ServerRead
  BY <1>1, <1>3 DEF ClientRead, ServerRead
<1>9. AddressesOnly(dev[Srv])
  <2>1. DOMAIN NoDevice.peers = {} /\ DOMAIN NoDevice.routes = {}
    BY <1>6
  <2>2. QED
    BY <1>1, <1>3, <2>1 DEF AddressesOnly
<1>10. QED
  BY <1>5, <1>7, <1>8, <1>9 DEF PairInv

\* The devices are left alone.
LEMMA SameDevices ==
  ASSUME PairInv, UNCHANGED <<applied, text, dev>>
  PROVE  DeviceShape' /\ ClientRead' /\ ServerRead' /\ AddressesOnly(dev[Srv])'
<1>1. DeviceShape'
  BY DEF PairInv, DeviceShape
<1>2. ClientRead'
  BY DEF PairInv, ClientRead
<1>3. ServerRead'
  BY DEF PairInv, ServerRead
<1>4. AddressesOnly(dev[Srv])'
  BY DEF PairInv
<1>5. QED
  BY <1>1, <1>2, <1>3, <1>4

\* A configuration of a client with new keys matches none of the server that was there before.
LEMMA NoMatch ==
  ASSUME NEW n \in Nat, NEW i \in Nat, n < i, NEW s, IsServerConfig(s, n), NEW c,
         NEW k, k.private = PrivateKey(i)
  PROVE  Match(c, k, s)
<1>1. \A p \in KnownPeers(n) : p.public # Public(PrivateKey(i))
  BY NewKey
<1>2. s.peers \in Seq(KnownPeers(n))
  BY DEF IsServerConfig
<1>3. \A j \in 1..Len(s.peers) : s.peers[j].public # Public(k.private)
  BY <1>1, <1>2
<1>4. QED
  BY <1>3 DEF Match

\* The server is no client.
LEMMA Hosted == Srv \in Hosts /\ \A c \in Clients : c \in Hosts /\ c # Srv
BY ServerAssumption DEF Hosts

\* GenerateConfigPair: both configurations are new.
LEMMA PairStep ==
  ASSUME PairInv, NEW c \in Clients, NEW e \in Endpoints, Pair(c, e)
  PROVE  PairInv'
<1> DEFINE n == keys + 3
           g == GenerateConfigPair(keys + 1, e, ClientIP[c])
           k == g.client
           s == g.server
           s0 == Server(PrivateKey(keys + 2), e.port)
<1>1. keys \in Nat /\ n \in Nat /\ keys <= n /\ keys' = n /\ {keys + 1, keys + 2, keys + 3} \subseteq 1..n
  BY DEF Pair, PairInv, ConfigShape
<1>2. cfg' = [cfg EXCEPT ![c] = k, ![Srv] = s] /\ UNCHANGED <<applied, text, dev>>
  BY DEF Pair
<1>3. k = Client(PrivateKey(keys + 1), Public(PrivateKey(keys + 2)), PresharedKey(keys + 3), e)
  BY <1>1 DEF GenerateConfigPair
<1>4. s = AddPeer(s0, Public(PrivateKey(keys + 1)), PresharedKey(keys + 3), ClientIP[c])
  BY <1>1 DEF GenerateConfigPair
<1> HIDE DEF n, k, s, s0
<1>5. /\ s0.private = PrivateKey(keys + 2) /\ s0.port = e.port /\ s0.peers = <<>>
      /\ DOMAIN s0 = {"private", "port", "peers"}
  BY DEF Server, s0
<1>6. IsServerConfig(s0, n)
  BY <1>1, <1>5 DEF IsServerConfig, Apart
<1>7. /\ k.private = PrivateKey(keys + 1) /\ k.public = Public(PrivateKey(keys + 2))
      /\ k.preshared = PresharedKey(keys + 3) /\ k.endpoint = e
  BY <1>3, ClientParts
<1>8. k \in ClientConfigs(n)
  BY <1>1, <1>3 DEF ClientConfigs
<1>9. /\ IsServerConfig(s, n) /\ s.private = s0.private /\ s.port = s0.port /\ Len(s.peers) = 1
      /\ s.peers[1] = Known(keys + 1, keys + 3, ClientIP[c])
  <2>1. Len(s0.peers) = 0
    BY <1>5
  <2>2. \A j \in 1..Len(s0.peers) :
            s0.peers[j].public # Public(PrivateKey(keys + 1)) /\ IP(s0.peers[j]) # ClientIP[c]
    BY <2>1
  <2>3. keys + 1 \in 1..n /\ keys + 3 \in 1..n
    BY <1>1
  <2>4. /\ IsServerConfig(s, n) /\ s.private = s0.private /\ s.port = s0.port
        /\ Len(s.peers) = Len(s0.peers) + 1
        /\ s.peers[Len(s.peers)] = Known(keys + 1, keys + 3, ClientIP[c])
    BY <1>1, <1>4, <1>6, <2>2, <2>3, Added
  <2>5. QED
    BY <2>1, <2>4
<1>10. /\ s.peers[1].public = Public(PrivateKey(keys + 1)) /\ s.peers[1].preshared = PresharedKey(keys + 3)
       /\ IP(s.peers[1]) = ClientIP[c]
  BY <1>9, KnownParts
<1>11. Match(c, k, s)
  BY <1>5, <1>7, <1>9, <1>10 DEF Match
<1>12. \A t \in Servers : Match(c, k, t)
  <2>1. \A t \in Servers : IsServerConfig(t, keys)
    BY DEF PairInv, ConfigShape
  <2>2. keys + 1 \in Nat /\ keys < keys + 1
    BY <1>1
  <2>3. QED
    BY <1>1, <1>7, <2>1, <2>2, NoMatch
<1>13. \A b \in Clients : \A l \in Of(b) : Match(b, l, s)
  <2>1. \A b \in Clients : Of(b) \subseteq ClientConfigs(keys)
    BY DEF PairInv, ConfigShape
  <2>2. \A l \in ClientConfigs(keys) : Public(l.private) # Public(PrivateKey(keys + 1))
    BY <1>1, NewKey
  <2>3. \A b \in Clients : \A l \in Of(b) : s.peers[1].public # Public(l.private)
    BY <1>10, <2>1, <2>2
  <2>4. QED
    BY <1>9, <2>3 DEF Match
<1>14. DOMAIN cfg = Hosts /\ DOMAIN applied = Hosts
  BY DEF PairInv, ConfigShape
<1>15. /\ DOMAIN cfg' = Hosts /\ cfg'[c] = k /\ cfg'[Srv] = s
       /\ \A b \in Clients \ {c} : cfg'[b] = cfg[b]
  BY <1>2, <1>14, Hosted
<1>16. Of(c)' \subseteq Of(c) \cup {k} /\ (\A b \in Clients \ {c} : Of(b)' \subseteq Of(b))
       /\ Servers' \subseteq Servers \cup {s}
  BY <1>2, <1>15 DEF Of, Servers
<1>17. ConfigShape'
  <2>1. ConfigShape /\ DOMAIN applied' = Hosts /\ k \in ClientConfigs(keys') /\ IsServerConfig(s, keys')
        /\ keys' \in Nat /\ keys <= keys'
    BY <1>1, <1>2, <1>8, <1>9, <1>14 DEF PairInv
  <2>2. QED
    BY <1>11, <1>12, <1>13, <1>15, <1>16, <2>1, NewConfigs
<1>18. QED
  BY <1>2, <1>17, SameDevices DEF PairInv

\* AddPeer: the configuration of the server grows by the peer of the new client.
LEMMA JoinStep ==
  ASSUME PairInv, NEW c \in Clients, NEW e \in Endpoints, Join(c, e)
  PROVE  PairInv'
<1> DEFINE n == keys + 2
           s0 == cfg[Srv]
           k == Client(PrivateKey(keys + 1), Public(s0.private), PresharedKey(keys + 2), e)
           s == AddPeer(s0, Public(PrivateKey(keys + 1)), PresharedKey(keys + 2), ClientIP[c])
           m == Len(s0.peers)
<1>1. keys \in Nat /\ n \in Nat /\ keys <= n /\ keys' = n /\ {keys + 1, keys + 2} \subseteq 1..n
  BY DEF Join, PairInv, ConfigShape
<1>2. cfg' = [cfg EXCEPT ![c] = k, ![Srv] = s] /\ UNCHANGED <<applied, text, dev>>
  BY DEF Join
<1>3. s0 # NoConfig /\ e.port = s0.port /\ \A i \in DOMAIN s0.peers : IP(s0.peers[i]) # ClientIP[c]
  BY DEF Join, IP
<1>4. s0 \in Servers
  BY <1>3 DEF Servers
<1>5. IsServerConfig(s0, keys)
  BY <1>4 DEF PairInv, ConfigShape
<1> HIDE DEF n, k, s, s0, m
<1>6. IsServerConfig(s0, n)
  BY <1>1, <1>5, Grow
<1>7. s0.peers \in Seq(KnownPeers(keys)) /\ m \in Nat /\ DOMAIN s0.peers = 1..m
  BY <1>5 DEF IsServerConfig, m
<1>8. \A j \in 1..m : s0.peers[j].public # Public(PrivateKey(keys + 1)) /\ IP(s0.peers[j]) # ClientIP[c]
  <2>1. \A p \in KnownPeers(keys) : p.public # Public(PrivateKey(keys + 1))
    BY <1>1, NewKey
  <2>2. \A j \in 1..m : s0.peers[j] \in KnownPeers(keys)
    BY <1>7 DEF m
  <2>3. QED
    BY <1>3, <1>7, <2>1, <2>2
<1>9. /\ IsServerConfig(s, n) /\ s.private = s0.private /\ s.port = s0.port /\ Len(s.peers) = m + 1
      /\ \A j \in 1..m : s.peers[j] = s0.peers[j]
      /\ s.peers[m + 1] = Known(keys + 1, keys + 2, ClientIP[c])
  <2>1. PICK i \in 1..n, l \in 1..n : i = keys + 1 /\ l = keys + 2
    BY <1>1
  <2>2. s = AddPeer(s0, Public(PrivateKey(i)), PresharedKey(l), ClientIP[c])
    BY <2>1 DEF s
  <2>3. \A j \in 1..Len(s0.peers) :
            s0.peers[j].public # Public(PrivateKey(i)) /\ IP(s0.peers[j]) # ClientIP[c]
    BY <1>8, <2>1 DEF m
  <2>4. n \in Nat
    BY <1>1
  <2>5. /\ IsServerConfig(s, n) /\ s.private = s0.private /\ s.port = s0.port
        /\ Len(s.peers) = Len(s0.peers) + 1
        /\ \A j \in 1..Len(s0.peers) : s.peers[j] = s0.peers[j]
        /\ s.peers[Len(s.peers)] = Known(i, l, ClientIP[c])
    BY <1>6, <2>2, <2>3, <2>4, Added
  <2>6. QED
    BY <2>1, <2>5 DEF m
<1>10. /\ k.private = PrivateKey(keys + 1) /\ k.public = Public(s0.private)
       /\ k.preshared = PresharedKey(keys + 2) /\ k.endpoint = e
  BY ClientParts DEF k
<1>11. k \in ClientConfigs(n)
  <2>1. PICK j \in 1..n : s0.private = PrivateKey(j)
    BY <1>6 DEF IsServerConfig
  <2>2. keys + 1 \in 1..n /\ keys + 2 \in 1..n
    BY <1>1
  <2>3. QED
    BY <2>1, <2>2 DEF ClientConfigs, k
<1>12. /\ s.peers[m + 1].public = Public(PrivateKey(keys + 1))
       /\ s.peers[m + 1].preshared = PresharedKey(keys + 2) /\ IP(s.peers[m + 1]) = ClientIP[c]
  BY <1>9, KnownParts
<1>13. Match(c, k, s)
  <2> SUFFICES ASSUME NEW i \in 1..(m + 1), s.peers[i].public = Public(k.private)
               PROVE  /\ k.public = Public(s.private) /\ s.peers[i].preshared = k.preshared
                      /\ s.port = k.endpoint.port /\ IP(s.peers[i]) = ClientIP[c]
    BY <1>9 DEF Match
  <2>1. i \notin 1..m
    BY <1>8, <1>9, <1>10
  <2>2. i = m + 1
    BY <1>7, <2>1
  <2>3. QED
    BY <1>3, <1>9, <1>10, <1>12, <2>2
<1>14. \A t \in Servers : Match(c, k, t)
  <2>1. \A t \in Servers : IsServerConfig(t, keys)
    BY DEF PairInv, ConfigShape
  <2>2. keys + 1 \in Nat /\ keys < keys + 1
    BY <1>1
  <2>3. QED
    BY <1>1, <1>10, <2>1, <2>2, NoMatch
<1>15. ASSUME NEW b \in Clients, NEW l \in Of(b) PROVE Match(b, l, s)
  <2>1. l \in ClientConfigs(keys) /\ Match(b, l, s0)
    BY <1>4 DEF PairInv, ConfigShape
  <2>2. Public(l.private) # Public(PrivateKey(keys + 1))
    BY <1>1, <2>1, NewKey
  <2> SUFFICES ASSUME NEW i \in 1..(m + 1), s.peers[i].public = Public(l.private)
               PROVE  /\ l.public = Public(s.private) /\ s.peers[i].preshared = l.preshared
                      /\ s.port = l.endpoint.port /\ IP(s.peers[i]) = ClientIP[b]
    BY <1>9 DEF Match
  <2>3. i # m + 1
    BY <1>12, <2>2
  <2>4. i \in 1..m
    BY <1>7, <2>3
  <2>5. QED
    BY <1>9, <2>1, <2>4 DEF Match, m
<1>16. DOMAIN cfg = Hosts /\ DOMAIN applied = Hosts
  BY DEF PairInv, ConfigShape
<1>17. /\ DOMAIN cfg' = Hosts /\ cfg'[c] = k /\ cfg'[Srv] = s
       /\ \A b \in Clients \ {c} : cfg'[b] = cfg[b]
  BY <1>2, <1>16, Hosted
<1>18. Of(c)' \subseteq Of(c) \cup {k} /\ (\A b \in Clients \ {c} : Of(b)' \subseteq Of(b))
       /\ Servers' \subseteq Servers \cup {s}
  BY <1>2, <1>17 DEF Of, Servers
<1>19. ConfigShape'
  <2>1. ConfigShape /\ DOMAIN applied' = Hosts /\ k \in ClientConfigs(keys') /\ IsServerConfig(s, keys')
        /\ keys' \in Nat /\ keys <= keys'
    BY <1>1, <1>2, <1>9, <1>11, <1>16 DEF PairInv
  <2>2. QED
    BY <1>13, <1>14, <1>15, <1>17, <1>18, <2>1, NewConfigs
<1>20. QED
  BY <1>2, <1>19, SameDevices DEF PairInv

\* Before its first line is read a configuration says nothing about the device.
LEMMA SetConfigStep ==
  ASSUME PairInv, NEW h \in Hosts, SetConfig(h)
  PROVE  PairInv'
<1> DEFINE lines == IF h = Srv THEN ServerConfig(cfg[h]) ELSE ClientConfig(cfg[h])
<1>1. /\ cfg[h] # NoConfig /\ applied' = [applied EXCEPT ![h] = cfg[h]]
      /\ text' = [text EXCEPT ![h] = lines] /\ dev' = [dev EXCEPT ![h].current = <<>>]
      /\ UNCHANGED <<cfg, keys>>
  BY DEF SetConfig
<1> HIDE DEF lines
<1>2. DOMAIN cfg = Hosts /\ DOMAIN applied = Hosts /\ DOMAIN text = Hosts /\ DOMAIN dev = Hosts
      /\ \A b \in Hosts : DOMAIN dev[b] = DeviceFields
  BY DEF PairInv, ConfigShape, DeviceShape
<1>3. /\ DOMAIN cfg' = Hosts /\ DOMAIN applied' = Hosts /\ DOMAIN text' = Hosts /\ DOMAIN dev' = Hosts
      /\ applied'[h] = cfg[h] /\ text'[h] = lines
      /\ \A b \in Hosts \ {h} : applied'[b] = applied[b] /\ text'[b] = text[b] /\ dev'[b] = dev[b]
  BY <1>1, <1>2
<1>4. /\ DOMAIN dev'[h] = DeviceFields /\ dev'[h].current = <<>>
      /\ dev'[h].peers = dev[h].peers /\ dev'[h].routes = dev[h].routes
  <2>1. dev'[h] = [dev[h] EXCEPT !.current = <<>>]
    BY <1>1, <1>2
  <2>2. QED
    BY <1>2, <2>1 DEF DeviceFields
<1>5. ConfigShape'
  <2>1. (\A b \in Clients : Of(b)' \subseteq Of(b)) /\ Servers' \subseteq Servers
    BY <1>1, <1>3, Hosted DEF Of, Servers
  <2>2. ConfigShape /\ keys' = keys
    BY <1>1 DEF PairInv
  <2>3. QED
    BY <1>3, <2>1, <2>2, FewerConfigs
<1>6. DeviceShape'
  <2>1. \A b \in Hosts : applied'[b] = NoConfig => text'[b] = <<>>
    BY <1>1, <1>3 DEF PairInv, DeviceShape
  <2>2. QED
    BY <1>2, <1>3, <1>4, <2>1 DEF DeviceShape
<1>7. ClientRead'
  <2> SUFFICES ASSUME NEW c \in Clients, applied'[c] # NoConfig
               PROVE  /\ Rest(text'[c], ClientConfig(applied'[c]))
                      /\ ClientSoFar(applied'[c], dev'[c], 7 - Len(text'[c]))
    BY DEF ClientRead
  <2>1. CASE c = h
    <3>1. cfg[c] \in ClientConfigs(keys)
      BY <1>1, <2>1 DEF PairInv, ConfigShape, Of
    <3>2. lines = ClientConfig(cfg[c])
      BY <2>1, Hosted DEF lines
    <3>3. lines \in Seq(ToSet(lines)) /\ Len(lines) = 7
      BY <3>1, <3>2, ClientLines, Zenon
    <3>4. Rest(lines, lines)
      BY <3>3, AllLeft
    <3>5. ClientSoFar(cfg[c], dev'[c], 0)
      BY <1>4, <2>1 DEF ClientSoFar
    <3>6. 7 - Len(text'[c]) = 0
      BY <1>3, <2>1, <3>3
    <3>7. QED
      BY <1>3, <2>1, <3>2, <3>4, <3>5, <3>6
  <2>2. CASE c # h
    BY <1>3, <2>2, Hosted DEF PairInv, ClientRead
  <2>3. QED
    BY <2>1, <2>2
<1>8. ServerRead'
  <2>1. CASE h = Srv
    <3> DEFINE s == cfg[Srv]
    <3>1. IsServerConfig(s, keys)
      BY <1>1, <2>1 DEF PairInv, ConfigShape, Servers
    <3>2. s.peers \in Seq(KnownPeers(keys))
      BY <3>1 DEF IsServerConfig
    <3>3. lines = ServerConfig(s)
      BY <2>1 DEF lines
    <3>4. lines \in Seq(ToSet(lines)) /\ Len(lines) = 2 + 3 * Len(s.peers)
      BY <3>2, <3>3, ServerLines, Zenon
    <3>5. Len(s.peers) \in Nat
      BY <3>2
    <3> HIDE DEF s
    <3>6. Rest(lines, lines)
      BY <3>4, AllLeft
    <3>7. \A i \in 1..Len(s.peers) : PeerSoFar(s.peers[i], dev'[Srv], 0, i)
      BY <3>5 DEF PeerSoFar
    <3>8. ServerSoFar(s, dev'[Srv], 0)
      BY <1>4, <2>1, <3>7, ServerPeers
    <3>9. Len(lines) - Len(text'[Srv]) = 0
      BY <1>3, <2>1, <3>4, <3>5
    <3>10. QED
      BY <1>3, <2>1, <3>3, <3>6, <3>8, <3>9 DEF ServerRead, s
  <2>2. CASE h # Srv
    BY <1>3, <2>2, Hosted DEF PairInv, ServerRead
  <2>3. QED
    BY <2>1, <2>2
<1>9. AddressesOnly(dev[Srv])'
  <2>1. dev'[Srv].peers = dev[Srv].peers /\ dev'[Srv].routes = dev[Srv].routes
    BY <1>3, <1>4, Hosted
  <2>2. QED
    BY <2>1 DEF PairInv, AddressesOnly
<1>10. QED
  BY <1>5, <1>6, <1>7, <1>8, <1>9 DEF PairInv

\* A line that is refused leaves no configuration applied; any other is one more line read.
LEMMA LineStep ==
  ASSUME PairInv, NEW h \in Hosts, Line(h)
  PROVE  PairInv'
<1> DEFINE ds == Apply(dev[h], Head(text[h]))
<1>1. text[h] # <<>> /\ UNCHANGED <<cfg, keys>>
  BY DEF Line
<1>2. /\ ds = {} => /\ text' = [text EXCEPT ![h] = <<>>]
                    /\ applied' = [applied EXCEPT ![h] = NoConfig] /\ UNCHANGED dev
      /\ ds # {} => /\ text' = [text EXCEPT ![h] = Tail(@)]
                    /\ \E d \in ds : dev' = [dev EXCEPT ![h] = d]
                    /\ UNCHANGED applied
  BY DEF Line
<1> HIDE DEF ds
<1>3. DOMAIN cfg = Hosts /\ DOMAIN applied = Hosts /\ DOMAIN text = Hosts /\ DOMAIN dev = Hosts
      /\ \A b \in Hosts : DOMAIN dev[b] = DeviceFields
  BY DEF PairInv, ConfigShape, DeviceShape
<1>4. applied[h] # NoConfig
  BY <1>1 DEF PairInv, DeviceShape
<1>5. CASE ds = {}
  <2>1. /\ DOMAIN applied' = Hosts /\ DOMAIN text' = Hosts /\ dev' = dev
        /\ applied'[h] = NoConfig /\ text'[h] = <<>>
        /\ \A b \in Hosts \ {h} : applied'[b] = applied[b] /\ text'[b] = text[b]
    BY <1>2, <1>3, <1>5
  <2>2. ConfigShape'
    <3>1. (\A b \in Clients : Of(b)' \subseteq Of(b)) /\ Servers' \subseteq Servers
      BY <1>1, <2>1, Hosted DEF Of, Servers
    <3>2. ConfigShape /\ keys' = keys /\ DOMAIN cfg' = Hosts
      BY <1>1, <1>3 DEF PairInv
    <3>3. QED
      BY <2>1, <3>1, <3>2, FewerConfigs
  <2>3. DeviceShape'
    BY <1>3, <2>1 DEF PairInv, DeviceShape
  <2>4. ClientRead'
    BY <2>1, Hosted DEF PairInv, ClientRead
  <2>5. ServerRead'
    <3>1. CASE h = Srv
      BY <2>1, <3>1 DEF ServerRead
    <3>2. CASE h # Srv
      <4>1. applied'[Srv] = applied[Srv] /\ text'[Srv] = text[Srv] /\ dev'[Srv] = dev[Srv]
        BY <2>1, <3>2, Hosted
      <4>2. QED
        BY <4>1 DEF PairInv, ServerRead
    <3>3. QED
      BY <3>1, <3>2
  <2>6. AddressesOnly(dev[Srv])'
    BY <2>1 DEF PairInv
  <2>7. QED
    BY <2>2, <2>3, <2>4, <2>5, <2>6 DEF PairInv
<1>6. CASE ds # {}
  <2>1. PICK d \in ds : dev' = [dev EXCEPT ![h] = d]
    BY <1>2, <1>6
  <2>2. /\ DOMAIN text' = Hosts /\ DOMAIN dev' = Hosts /\ applied' = applied
        /\ text'[h] = Tail(text[h]) /\ dev'[h] = d
        /\ \A b \in Hosts \ {h} : text'[b] = text[b] /\ dev'[b] = dev[b]
    BY <1>2, <1>3, <1>6, <2>1
  <2>3. ConfigShape'
    <3>1. (\A b \in Clients : Of(b)' \subseteq Of(b)) /\ Servers' \subseteq Servers
      BY <1>1, <2>2 DEF Of, Servers
    <3>2. ConfigShape /\ keys' = keys /\ DOMAIN cfg' = Hosts /\ DOMAIN applied' = Hosts
      BY <1>1, <1>3, <2>2 DEF PairInv
    <3>3. QED
      BY <3>1, <3>2, FewerConfigs
  <2>4. CASE h # Srv
    <3> DEFINE k == applied[h]
               lines == ClientConfig(k)
               n == 7 - Len(text[h])
    <3>1. h \in Clients
      BY <2>4 DEF Hosts
    <3>2. k \in ClientConfigs(keys) /\ Rest(text[h], lines) /\ ClientSoFar(k, dev[h], n)
      BY <1>4, <3>1 DEF PairInv, ConfigShape, Of, ClientRead
    <3>3. Len(lines) = 7
      BY <3>2, ClientLines, Zenon
    <3> HIDE DEF lines
    <3>4. /\ Len(text[h]) \in 1..7 /\ Len(Tail(text[h])) = Len(text[h]) - 1
          /\ Head(text[h]) = lines[Len(lines) - Len(text[h]) + 1]
          /\ Rest(Tail(text[h]), lines)
      <4>1. Len(lines) \in Nat
        BY <3>3
      <4>2. /\ Len(text[h]) \in 1..Len(lines) /\ Len(Tail(text[h])) = Len(text[h]) - 1
            /\ Head(text[h]) = lines[Len(lines) - Len(text[h]) + 1]
            /\ Rest(Tail(text[h]), lines)
        BY <1>1, <3>2, <4>1, NextLine
      <4>3. QED
        BY <3>3, <4>2
    <3>5. n \in 0..6 /\ Head(text[h]) = lines[n + 1] /\ 7 - Len(Tail(text[h])) = n + 1
      <4> DEFINE a == Len(text[h])
                 b == Len(Tail(text[h]))
      <4>1. a \in 1..7 /\ b = a - 1 /\ Head(text[h]) = lines[7 - a + 1]
        BY <3>3, <3>4
      <4> HIDE DEF a, b
      <4>2. 7 - a \in 0..6 /\ 7 - b = 7 - a + 1
        BY <4>1
      <4>3. QED
        BY <4>1, <4>2 DEF a, b
    <3> HIDE DEF n, k
    <3>6. d \in Apply(dev[h], ClientConfig(k)[n + 1])
      BY <3>5, Zenon DEF ds, lines
    <3>7. DOMAIN d = DeviceFields /\ ClientSoFar(k, d, n + 1)
      <4>1. DOMAIN dev[h] = DeviceFields
        BY <1>3
      <4>2. QED
        BY <3>2, <3>5, <3>6, <4>1, ClientStep
    <3>8. DeviceShape'
      <4>1. \A b \in Hosts : DOMAIN dev'[b] = DeviceFields
        BY <1>3, <2>2, <3>7
      <4>2. \A b \in Hosts : applied'[b] = NoConfig => text'[b] = <<>>
        BY <1>4, <2>2 DEF PairInv, DeviceShape
      <4>3. QED
        BY <2>2, <4>1, <4>2 DEF DeviceShape
    <3>9. ClientRead'
      <4> SUFFICES ASSUME NEW c \in Clients, applied'[c] # NoConfig
                   PROVE  /\ Rest(text'[c], ClientConfig(applied'[c]))
                          /\ ClientSoFar(applied'[c], dev'[c], 7 - Len(text'[c]))
        BY DEF ClientRead
      <4>1. CASE c = h
        BY <2>2, <3>4, <3>5, <3>7, <4>1 DEF k, lines
      <4>2. CASE c # h
        BY <2>2, <4>2, Hosted DEF PairInv, ClientRead
      <4>3. QED
        BY <4>1, <4>2
    <3>10. ServerRead' /\ AddressesOnly(dev[Srv])'
      <4>1. applied'[Srv] = applied[Srv] /\ text'[Srv] = text[Srv] /\ dev'[Srv] = dev[Srv]
        BY <2>2, <2>4, Hosted
      <4>2. QED
        BY <4>1 DEF PairInv, ServerRead
    <3>11. QED
      BY <2>3, <3>8, <3>9, <3>10 DEF PairInv
  <2>5. CASE h = Srv
    <3> DEFINE s == applied[h]
               lines == ServerConfig(s)
               m == Len(s.peers)
               n == Len(lines) - Len(text[h])
    <3>1. IsServerConfig(s, keys)
      BY <1>4, <2>5 DEF PairInv, ConfigShape, Servers
    <3>2. Rest(text[h], lines) /\ ServerSoFar(s, dev[h], n) /\ AddressesOnly(dev[h])
      BY <1>4, <2>5 DEF PairInv, ServerRead
    <3>3. s.peers \in Seq(KnownPeers(keys)) /\ Apart(s)
      BY <3>1 DEF IsServerConfig
    <3>4. Len(lines) = 2 + 3 * m
      BY <3>3, ServerLines, Zenon
    <3>5. m \in Nat
      BY <3>3
    <3> HIDE DEF lines, m
    <3>6. /\ Len(text[h]) \in 1..Len(lines) /\ Len(Tail(text[h])) = Len(text[h]) - 1
          /\ Head(text[h]) = lines[Len(lines) - Len(text[h]) + 1]
          /\ Rest(Tail(text[h]), lines)
      <4>1. Len(lines) \in Nat
        BY <3>4, <3>5
      <4>2. QED
        BY <1>1, <3>2, <4>1, NextLine
    <3>7. /\ n \in 0..(1 + 3 * m) /\ Head(text[h]) = lines[n + 1]
          /\ Len(lines) - Len(Tail(text[h])) = n + 1
      <4> DEFINE a == Len(text[h])
                 b == Len(Tail(text[h]))
                 x == Len(lines)
      <4>1. a \in 1..x /\ b = a - 1 /\ Head(text[h]) = lines[x - a + 1] /\ x = 2 + 3 * m
        BY <3>4, <3>6
      <4> HIDE DEF a, b, x
      <4>2. x - a \in 0..(1 + 3 * m) /\ x - b = x - a + 1
        BY <3>5, <4>1
      <4>3. QED
        BY <4>1, <4>2 DEF a, b, x
    <3> HIDE DEF n, s
    <3>8. d \in Apply(dev[h], ServerConfig(s)[n + 1])
      BY <3>7, Zenon DEF ds, lines
    <3>9. DOMAIN d = DeviceFields /\ ServerSoFar(s, d, n + 1) /\ AddressesOnly(d)
      <4>1. DOMAIN dev[h] = DeviceFields
        BY <1>3
      <4>2. n \in 0..(1 + 3 * Len(s.peers))
        BY <3>7 DEF m
      <4>3. QED
        BY <3>2, <3>3, <3>8, <4>1, <4>2, ServerStep
    <3>10. DeviceShape'
      <4>1. \A b \in Hosts : DOMAIN dev'[b] = DeviceFields
        BY <1>3, <2>2, <3>9
      <4>2. \A b \in Hosts : applied'[b] = NoConfig => text'[b] = <<>>
        BY <1>4, <2>2 DEF PairInv, DeviceShape
      <4>3. QED
        BY <2>2, <4>1, <4>2 DEF DeviceShape
    <3>11. ClientRead'
      BY <2>2, <2>5, Hosted DEF PairInv, ClientRead
    <3>12. ServerRead' /\ AddressesOnly(dev[Srv])'
      BY <2>2, <2>5, <3>6, <3>7, <3>9 DEF ServerRead, s, lines
    <3>13. QED
      BY <2>3, <3>10, <3>11, <3>12 DEF PairInv
  <2>6. QED
    BY <2>4, <2>5
<1>7. QED
  BY <1>5, <1>6

\* Every step keeps the invariant.
LEMMA StepPairInv == PairInv /\ [Next]_vars => PairInv'
<1> SUFFICES ASSUME PairInv, [Next]_vars PROVE PairInv'
  OBVIOUS
<1>1. ASSUME NEW c \in Clients, NEW e \in Endpoints, Pair(c, e) PROVE PairInv'
  BY <1>1, PairStep
<1>2. ASSUME NEW c \in Clients, NEW e \in Endpoints, Join(c, e) PROVE PairInv'
  BY <1>2, JoinStep
<1>3. ASSUME NEW h \in Hosts, SetConfig(h) PROVE PairInv'
  BY <1>3, SetConfigStep
<1>4. ASSUME NEW h \in Hosts, Line(h) PROVE PairInv'
  BY <1>4, LineStep
<1>5. ASSUME UNCHANGED <<cfg, keys, applied, text, dev>> PROVE PairInv'
  <2>1. ConfigShape'
    <3>1. (\A b \in Clients : Of(b)' \subseteq Of(b)) /\ Servers' \subseteq Servers
      BY <1>5 DEF Of, Servers
    <3>2. ConfigShape /\ keys' = keys /\ DOMAIN cfg' = Hosts /\ DOMAIN applied' = Hosts
      BY <1>5 DEF PairInv, ConfigShape
    <3>3. QED
      BY <3>1, <3>2, FewerConfigs
  <2>2. QED
    BY <1>5, <2>1, SameDevices DEF PairInv
<1>6. ASSUME NEW h \in Hosts, GetConfig(h) PROVE PairInv'
  BY <1>5, <1>6 DEF GetConfig
<1>7. CASE UNCHANGED vars
  BY <1>5, <1>7 DEF vars
<1>8. QED
  BY <1>1, <1>2, <1>3, <1>4, <1>6, <1>7 DEF Next

\* wgconfig and wgapi: after n lines of a configuration, the device of a client or of the
\* server is what these n lines say, whatever it was before.
THEOREM ConfigsRead == Spec => []PairInv
<1>1. QED
  BY InitPairInv, StepPairInv, PTL DEF Spec

\* With all lines read, the client has one peer.
LEMMA PairInvOnlyServer == PairInv => OnlyServer
<1> SUFFICES ASSUME PairInv, NEW c \in Clients, Configured(c)
             PROVE  DOMAIN dev[c].peers = {applied[c].public}
  BY DEF OnlyServer
<1>1. text[c] = <<>> /\ applied[c] # NoConfig
  BY DEF Configured
<1>2. ClientSoFar(applied[c], dev[c], 7)
  <2>1. Len(text[c]) = 0
    BY <1>1
  <2>2. 7 - Len(text[c]) = 7
    BY <2>1
  <2>3. QED
    BY <1>1, <2>2 DEF PairInv, ClientRead
<1>3. QED
  BY <1>2 DEF ClientSoFar

\* wgconfig/client.go: SetConfig with a client configuration leaves the client with one peer,
\* its server, for any number of clients and keys and whatever was configured before.
THEOREM NoOtherPeer == Spec => []OnlyServer
<1>1. QED
  BY ConfigsRead, PairInvOnlyServer, PTL

\* With all lines of both configurations read, client and server can speak to each other.
LEMMA PairInvPairConnects == PairInv => PairConnects
<1> SUFFICES ASSUME PairInv, NEW c \in Clients, Paired(c), ClientIP[c].v = 4
             PROVE  Speak(c)
  BY DEF PairConnects
<1> DEFINE k == applied[c]
           s == applied[Srv]
           d == dev[c]
           f == dev[Srv]
           m == Len(s.peers)
           ip == ClientIP[c]
<1>1. k # NoConfig /\ text[c] = <<>> /\ s # NoConfig /\ text[Srv] = <<>>
  BY DEF Paired, Configured
<1>2. PICK i \in DOMAIN s.peers : s.peers[i].public = Public(k.private)
  BY DEF Paired
<1>3. IsServerConfig(s, keys) /\ Match(c, k, s)
  BY <1>1 DEF PairInv, ConfigShape, Of, Servers
<1>4. s.peers \in Seq(KnownPeers(keys))
  BY <1>3 DEF IsServerConfig
<1>5. m \in Nat /\ i \in 1..m
  BY <1>4
<1>6. ClientSoFar(k, d, 7)
  <2>1. Len(text[c]) = 0
    BY <1>1
  <2>2. 7 - Len(text[c]) = 7
    BY <2>1
  <2>3. QED
    BY <1>1, <2>2 DEF PairInv, ClientRead
<1>7. ServerSoFar(s, f, 2 + 3 * m)
  <2>1. Len(ServerConfig(s)) = 2 + 3 * m
    BY <1>4, ServerLines, Zenon
  <2>2. Len(text[Srv]) = 0
    BY <1>1
  <2> HIDE DEF m
  <2>3. Len(ServerConfig(s)) - Len(text[Srv]) = 2 + 3 * m
    BY <1>5, <2>1, <2>2
  <2>4. QED
    BY <1>1, <2>3 DEF PairInv, ServerRead
<1>8. AddressesOnly(f)
  BY DEF PairInv
<1> DEFINE p == s.peers[i]
           me == Public(k.private)
           it == Public(s.private)
<1> HIDE DEF k, s, d, f, m, ip
<1>9. p.public = me /\ k.public = it /\ p.preshared = k.preshared /\ s.port = k.endpoint.port /\ IP(p) = ip
  BY <1>2, <1>3, <1>5 DEF Match, m, ip
<1>10. /\ d.private = k.private /\ DOMAIN d.peers = {it} /\ d.peers[it].endpoint = <<k.endpoint>>
       /\ d.peers[it].preshared = k.preshared /\ d.peers[it].keepalive = DefaultPersistentKeepalive
       /\ DOMAIN d.routes = {AllRoute} /\ d.routes[AllRoute] = it
  BY <1>6, <1>9 DEF ClientSoFar
<1>11. /\ f.private = s.private /\ f.port = s.port /\ me \in DOMAIN f.peers
       /\ f.peers[me].preshared = k.preshared
       /\ Exact(ip) \in DOMAIN f.routes /\ f.routes[Exact(ip)] = me
  <2>1. /\ f.private = s.private /\ f.port = s.port /\ PeerSoFar(p, f, 2 + 3 * m, i)
    BY <1>5, <1>7, ServerPeers DEF m
  <2>2. 2 + 3 * m >= 3 * i + 2 /\ 2 + 3 * m >= 3 * i + 1 /\ 2 + 3 * m >= 3 * i
    BY <1>5
  <2> HIDE DEF p, me
  <2>3. QED
    BY <1>9, <2>1, <2>2 DEF PeerSoFar
<1>12. Route(f, ip) = {me}
  <2>1. Exact(ip).ip = ip /\ Exact(ip).ones > 0
    <3>1. ip.v = 4
      BY DEF ip
    <3>2. QED
      BY <3>1 DEF Exact, IdentitySubnet, IPNet, IPNetString
  <2>2. \A r \in DOMAIN f.routes : r = Exact(r.ip)
    BY <1>8 DEF AddressesOnly
  <2> DEFINE own == {r \in DOMAIN f.routes : r.ip = ip /\ r.ones > 0}
             all == {r \in DOMAIN f.routes : r.ip.v = ip.v /\ r.ones = 0}
  <2>3. own = {Exact(ip)}
    BY <1>11, <2>1, <2>2
  <2>4. Route(f, ip) = {f.routes[r] : r \in IF own # {} THEN own ELSE all}
    BY DEF Route
  <2> HIDE DEF own, all, me
  <2>5. Route(f, ip) = {f.routes[r] : r \in {Exact(ip)}}
    BY <2>3, <2>4
  <2>6. QED
    BY <1>11, <2>5
<1>13. Route(d, Address(ip.v, 9)) = {it}
  <2>1. AllRoute.ip = Zero(4) /\ AllRoute.ones = 0 /\ AllRoute.ip.v = 4
    BY DEF AllRoute, EmptySubnet, IPNetString, IPNet, Zero, Address
  <2>2. Address(ip.v, 9).v = 4
    BY DEF Address, ip
  <2> DEFINE a == Address(ip.v, 9)
             own == {r \in DOMAIN d.routes : r.ip = a /\ r.ones > 0}
             all == {r \in DOMAIN d.routes : r.ip.v = a.v /\ r.ones = 0}
  <2> HIDE DEF a
  <2>3. own = {} /\ all = {AllRoute}
    BY <1>10, <2>1, <2>2 DEF a
  <2>4. Route(d, a) = {d.routes[r] : r \in IF own # {} THEN own ELSE all}
    BY DEF Route
  <2> HIDE DEF own, all, it
  <2>5. Route(d, a) = {d.routes[r] : r \in {AllRoute}}
    BY <2>3, <2>4
  <2>6. QED
    BY <1>10, <2>5 DEF a
<1>14. /\ me = Public(dev[c].private) /\ it = Public(dev[Srv].private)
  BY <1>10, <1>11 DEF d, f
<1>15. d.peers[it].endpoint # <<>> /\ d.peers[it].endpoint[1].port = f.port /\ d.peers[it].keepalive > 0
  BY <1>9, <1>10, <1>11 DEF DefaultPersistentKeepalive
<1> HIDE DEF me, it
<1>16. QED
  BY <1>10, <1>11, <1>12, <1>13, <1>14, <1>15 DEF Speak, d, f, ip

\* wgconfig/wgconfig.go: GenerateConfigPair and AddPeer make configurations with which client
\* and server can connect to each other, for any number of clients, keys and endpoints.
THEOREM PairSpeaks == Spec => []PairConnects
<1>1. QED
  BY ConfigsRead, PairInvPairConnects, PTL

-----------------------------------------------------------------------------
(* A reply, line by line.                                                  *)
\* The keys and the networks of the configurations of WgApi.
PrivateKeys == {PrivateKey(i) : i \in Nat}
PublicKeys == {Public(k) : k \in PrivateKeys}
PresharedKeys == {PresharedKey(i) : i \in Nat}
Nets == {AllRoute} \cup {Exact(ClientIP[c]) : c \in Clients}

\* The lines with a key and a value of S.
Lined(key, S) == {KV(key, v) : v \in S}

\* The numbers of a reply: ports, and what is counted in a uint64 or an int64.
Uint16 == {v \in Nat : v < 2^16}
Uint64 == {v \in Nat : v < 2^IntBits}
Int64 == {v \in Nat : v < 2^(IntBits - 1)}

\* What a get operation writes: before the first peer, of a peer, and at its end.
HeadLines == Lined("private_key", PrivateKeys) \cup Lined("listen_port", Uint16)
PublicLines == Lined("public_key", PublicKeys)
PeerRest ==
  Lined("preshared_key", PresharedKeys) \cup Lined("protocol_version", {1}) \cup Lined("endpoint", Endpoints)
    \cup Lined("last_handshake_time_sec", Int64) \cup Lined("last_handshake_time_nsec", Int64)
    \cup Lined("tx_bytes", Uint64) \cup Lined("rx_bytes", Uint64)
    \cup Lined("persistent_keepalive_interval", Uint16) \cup Lined("allowed_ip", Nets)
EndLines == Lined("errno", {0})
Reply == HeadLines \cup PublicLines \cup PeerRest \cup EndLines

\* What Value makes of a line.
Reread(l) == KV(l.key, IF l.key = "allowed_ip" THEN ParseIPNet(l.value) ELSE l.value)

\* A line that is read, ...
Readable(l) == l.key # "" /\ Parse(l) = {Reread(l).value}
\* ... and that is the same when it is written again, but for large counters.
Again(l) == KV(l.key, String(Reread(l))) = l \/ Large(l)

\* The first number that an int does not hold.
LEMMA HalfInt == 2^(IntBits - 1) \in Int
BY IntBitsAssumption

\* A number is less, or it is not.
LEMMA HalfOrMore == ASSUME NEW v \in Nat PROVE v < 2^(IntBits - 1) \/ v >= 2^(IntBits - 1)
<1> DEFINE P == 2^(IntBits - 1)
<1>1. P \in Int
  BY HalfInt
<1> HIDE DEF P
<1>2. v < P \/ v >= P
  BY <1>1
<1>3. QED
  BY <1>2 DEF P

\* The numbers of a reply are within the widths of their keys.
LEMMA Numbers ==
  /\ \A c \in Counters : c.sec \in Int64 /\ c.nsec \in Int64 /\ c.tx \in Uint64 /\ c.rx \in Uint64
  /\ \A v \in Uint16 : Within(v, 0, 2^16) = {v}
  /\ \A v \in Uint64 : Within(v, 0, 2^IntBits) = {v}
  /\ \A v \in Int64 : Within(v, -(2^(IntBits - 1)), 2^(IntBits - 1)) = {v}
  /\ 0 \in Int64
<1> DEFINE P == 2^(IntBits - 1)
<1>1. P \in Int
  BY HalfInt
<1>2. \A c \in Counters : c.sec \in Int64 /\ c.nsec \in Int64 /\ c.tx \in Uint64 /\ c.rx \in Uint64
  BY NumbersAssumption, Zenon DEF Int64, Uint64
<1>3. \A v, low, high : low <= v /\ v < high => Within(v, low, high) = {v}
  BY DEF Within
<1>4. \A v \in Uint16 : 0 <= v /\ v < 2^16
  BY DEF Uint16
<1>5. \A v \in Uint64 : 0 <= v /\ v < 2^IntBits
  BY DEF Uint64
<1>6. \A v \in Int64 : v \in Nat /\ v < P
  BY DEF Int64
<1> HIDE DEF P
<1>7. \A v \in Int64 : -P <= v /\ v < P /\ 0 < P
  BY <1>1, <1>6
<1>8. 0 < P
  <2>1. PICK c \in Counters : TRUE
    BY NumbersAssumption, Zenon
  <2>2. QED
    BY <1>2, <1>7, <2>1
<1>9. 0 \in Int64
  BY <1>8 DEF Int64, P
<1>10. \A v \in Uint16 : Within(v, 0, 2^16) = {v}
  BY <1>3, <1>4, Zenon
<1>11. \A v \in Uint64 : Within(v, 0, 2^IntBits) = {v}
  BY <1>3, <1>5, Zenon
<1>12. \A v \in Int64 : Within(v, -(2^(IntBits - 1)), 2^(IntBits - 1)) = {v}
  BY <1>3, <1>7, Zenon DEF P
<1>13. QED
  BY <1>2, <1>9, <1>10, <1>11, <1>12

\* A line that is printed as it is, but for large counters, and parsed to what was printed.
LEMMA PlainLine ==
  ASSUME NEW key, NEW v, key # "" , key # "allowed_ip", Parse(KV(key, v)) = {v},
         key \in Uint64s => v \in Nat
  PROVE  Readable(KV(key, v)) /\ Again(KV(key, v))
<1>1. KV(key, v).key = key /\ KV(key, v).value = v
  BY KVParts
<1>2. Reread(KV(key, v)) = KV(key, v)
  BY <1>1 DEF Reread
<1>3. key \notin Uint64s => String(KV(key, v)) = v
  BY <1>1 DEF String
<1>4. key \in Uint64s => String(KV(key, v)) = numString(v)
  BY <1>1 DEF String
<1>5. key \in Uint64s => numString(v) = v \/ Large(KV(key, v))
  <2> SUFFICES ASSUME key \in Uint64s PROVE numString(v) = v \/ Large(KV(key, v))
    OBVIOUS
  <2>1. v < 2^(IntBits - 1) \/ v >= 2^(IntBits - 1)
    BY HalfOrMore, Zenon
  <2>2. v >= 2^(IntBits - 1) => Large(KV(key, v))
    BY <1>1, Zenon DEF Large
  <2>3. v < 2^(IntBits - 1) => numString(v) = v
    BY Zenon DEF numString
  <2>4. QED
    BY <2>1, <2>2, <2>3
<1> HIDE DEF KV
<1>6. Readable(KV(key, v))
  BY <1>1, <1>2 DEF Readable
<1>7. String(KV(key, v)) = v \/ Large(KV(key, v))
  BY <1>3, <1>4, <1>5
<1>8. Again(KV(key, v))
  BY <1>1, <1>2, <1>7 DEF Again
<1>9. QED
  BY <1>6, <1>8

\* The parsers, by key: the kinds of keys differ.
LEMMA Parsers ==
  ASSUME NEW l
  PROVE  /\ l.key \in {"private_key", "public_key", "preshared_key"} /\ l.value.type = KeyTypes[l.key] =>
                Parse(l) = {l.value}
         /\ l.key = "protocol_version" /\ l.value = 1 => Parse(l) = {l.value}
         /\ l.key \in Uint16s /\ l.value \in Uint16 => Parse(l) = {l.value}
         /\ l.key \in Uint64s /\ l.value \in Uint64 => Parse(l) = {l.value}
         /\ l.key \in Int64s /\ l.value \in Int64 => Parse(l) = {l.value}
         /\ l.key = "endpoint" => Parse(l) = {l.value}
         /\ l.key = "allowed_ip" => Parse(l) = {ParseIPNet(l.value)}
<1> DEFINE A == DOMAIN Constants
           B == DOMAIN KeyTypes
           C == Uint64s
           D == Uint16s
           E == Int64s
<1>1. /\ "protocol_version" \in A /\ Constants["protocol_version"] = 1
      /\ {"private_key", "public_key", "preshared_key"} \subseteq B
  BY DEF Constants, Ones, Trues, KeyTypes
<1>2. /\ A \cap B = {} /\ A \cap C = {} /\ A \cap D = {} /\ A \cap E = {}
      /\ B \cap C = {} /\ B \cap D = {} /\ B \cap E = {}
      /\ C \cap D = {} /\ C \cap E = {} /\ D \cap E = {}
  BY DEF Constants, Ones, Trues, KeyTypes, Uint64s, Uint16s, Int64s
<1>3. /\ "allowed_ip" \notin A \cup B \cup C \cup D \cup E
      /\ "endpoint" \notin A \cup B \cup C \cup D \cup E
  BY DEF Constants, Ones, Trues, KeyTypes, Uint64s, Uint16s, Int64s
<1>4. Parse(l) = CASE l.key \in A -> {l.value} \cap {Constants[l.key]}
                   [] l.key \in B -> IF l.value.type = KeyTypes[l.key] THEN {l.value} ELSE {}
                   [] l.key \in C -> Within(l.value, 0, 2^IntBits)
                   [] l.key \in D -> Within(l.value, 0, 2^16)
                   [] l.key \in E -> Within(l.value, -(2^(IntBits - 1)), 2^(IntBits - 1))
                   [] l.key = "allowed_ip" -> {ParseIPNet(l.value)}
                   [] l.key = "endpoint" -> {l.value}
                   [] OTHER -> {}
  BY Zenon DEF Parse
<1> DEFINE W == Within(l.value, 0, 2^IntBits)
           X == Within(l.value, 0, 2^16)
           Y == Within(l.value, -(2^(IntBits - 1)), 2^(IntBits - 1))
<1>5. /\ l.value \in Uint64 => W = {l.value}
      /\ l.value \in Uint16 => X = {l.value}
      /\ l.value \in Int64 => Y = {l.value}
  BY Numbers, Zenon
<1> HIDE DEF A, B, C, D, E, W, X, Y
<1>6. Parse(l) = CASE l.key \in A -> {l.value} \cap {Constants[l.key]}
                   [] l.key \in B -> IF l.value.type = KeyTypes[l.key] THEN {l.value} ELSE {}
                   [] l.key \in C -> W
                   [] l.key \in D -> X
                   [] l.key \in E -> Y
                   [] l.key = "allowed_ip" -> {ParseIPNet(l.value)}
                   [] l.key = "endpoint" -> {l.value}
                   [] OTHER -> {}
  BY <1>4, Zenon DEF W, X, Y
<1>7. l.key \in A => Parse(l) = {l.value} \cap {Constants[l.key]}
  BY <1>2, <1>3, <1>6
<1>8. l.key \in B => Parse(l) = IF l.value.type = KeyTypes[l.key] THEN {l.value} ELSE {}
  BY <1>2, <1>3, <1>6
<1>9. /\ l.key \in C => Parse(l) = W
      /\ l.key \in D => Parse(l) = X
      /\ l.key \in E => Parse(l) = Y
  BY <1>2, <1>3, <1>6
<1>10. l.key = "allowed_ip" => Parse(l) = {ParseIPNet(l.value)}
  BY <1>2, <1>3, <1>6
<1>11. l.key = "endpoint" => Parse(l) = {l.value}
  BY <1>2, <1>3, <1>6
<1>12. l.key \in {"private_key", "public_key", "preshared_key"} /\ l.value.type = KeyTypes[l.key] =>
           Parse(l) = {l.value}
  BY <1>1, <1>8
<1>13. l.key = "protocol_version" /\ l.value = 1 => Parse(l) = {l.value}
  <2>1. l.key = "protocol_version" => l.key \in A /\ Constants[l.key] = 1
    BY <1>1
  <2>2. l.value = 1 => {l.value} \cap {1} = {l.value}
    OBVIOUS
  <2>3. QED
    BY <1>7, <2>1, <2>2
<1>14. QED
  BY <1>5, <1>9, <1>10, <1>11, <1>12, <1>13 DEF C, D, E

\* A net that a configuration has is parsed to one that is shown as it.
LEMMA NetAgain == ASSUME NEW r \in Nets PROVE IPNetString(ParseIPNet(r)) = r
<1>1. CASE r = AllRoute
  BY <1>1 DEF AllRoute, EmptySubnet, IPNetString, IPNet, Zero, Address, ParseIPNet
<1>2. CASE \E c \in Clients : r = Exact(ClientIP[c])
  <2>1. PICK c \in Clients : r = Exact(ClientIP[c])
    BY <1>2
  <2> DEFINE ip == ClientIP[c]
  <2> HIDE DEF ip
  <2>2. r = Exact(ip)
    BY <2>1 DEF ip
  <2>3. CASE ip.v = 4
    <3>1. r = [ip |-> ip, ones |-> 32]
      BY <2>2, <2>3 DEF Exact, IdentitySubnet, IPNet, IPNetString
    <3>2. ParseIPNet(r) = IPNet(ip, 32, 32)
      BY <2>3, <3>1 DEF ParseIPNet
    <3>3. QED
      BY <3>1, <3>2 DEF IPNet, IPNetString
  <2>4. CASE ip.v # 4
    <3>1. r = [ip |-> ip, ones |-> 128]
      BY <2>2, <2>4 DEF Exact, IdentitySubnet, IPNet, IPNetString
    <3>2. ParseIPNet(r) = IPNet(ip, 128, 128)
      BY <2>4, <3>1 DEF ParseIPNet
    <3>3. QED
      BY <2>4, <3>1, <3>2 DEF IPNet, IPNetString
  <2>5. QED
    BY <2>3, <2>4
<1>3. QED
  BY <1>1, <1>2 DEF Nets

\* The lines of a reply are read; written again they are the same, but for large counters.
LEMMA ReplyLine ==
  ASSUME NEW l \in Reply
  PROVE  Readable(l) /\ Again(l)
<1>1. PICK key, v : l = KV(key, v) /\
          \/ key = "private_key" /\ v \in PrivateKeys
          \/ key = "public_key" /\ v \in PublicKeys
          \/ key = "preshared_key" /\ v \in PresharedKeys
          \/ key = "protocol_version" /\ v = 1
          \/ key = "endpoint"
          \/ key \in Int64s /\ v \in Int64
          \/ key \in Uint16s /\ v \in Uint16
          \/ key \in Uint64s /\ v \in Uint64
          \/ key = "allowed_ip" /\ v \in Nets
  <2>1. 0 \in Int64
    BY Numbers
  <2>2. QED
    BY <2>1 DEF Reply, HeadLines, PublicLines, PeerRest, EndLines, Lined, Int64s, Uint16s, Uint64s
<1>2. l.key = key /\ l.value = v
  BY <1>1, KVParts
<1>3. CASE key # "allowed_ip"
  <2>1. /\ key = "private_key" => v.type = KeyTypes[key]
        /\ key = "public_key" => v.type = KeyTypes[key]
        /\ key = "preshared_key" => v.type = KeyTypes[key]
    <3>1. /\ v \in PrivateKeys => v.type = "private"
          /\ v \in PublicKeys => v.type = "public"
          /\ v \in PresharedKeys => v.type = "preshared"
      BY DEF PrivateKeys, PublicKeys, PresharedKeys, PrivateKey, Public, PresharedKey
    <3>2. /\ KeyTypes["private_key"] = "private" /\ KeyTypes["public_key"] = "public"
          /\ KeyTypes["preshared_key"] = "preshared"
      BY DEF KeyTypes
    <3>3. QED
      BY <1>1, <3>1, <3>2 DEF Int64s, Uint16s, Uint64s
  <2>2. Parse(l) = {v}
    BY <1>1, <1>2, <1>3, <2>1, Parsers
  <2>3. key # "" /\ (key \in Uint64s => v \in Uint64)
    BY <1>1 DEF Int64s, Uint16s, Uint64s
  <2>4. \A w \in Uint64 : w \in Nat
    BY DEF Uint64
  <2>5. QED
    BY <1>1, <1>3, <2>2, <2>3, <2>4, PlainLine
<1>4. CASE key = "allowed_ip"
  <2>1. v \in Nets
    BY <1>1, <1>4 DEF Int64s, Uint16s, Uint64s
  <2> DEFINE r == ParseIPNet(v)
  <2>2. Reread(l) = KV("allowed_ip", r)
    BY <1>2, <1>4 DEF Reread
  <2>3. IPNetString(r) = v
    BY <2>1, NetAgain
  <2> HIDE DEF r
  <2>4. Reread(l).value = r
    BY <2>2, KVParts
  <2>5. String(Reread(l)) = v
    BY <2>2, <2>3, StringNet
  <2>6. Parse(l) = {r}
    BY <1>2, <1>4, Parsers DEF r
  <2>7. Readable(l)
    BY <1>2, <1>4, <2>4, <2>6 DEF Readable
  <2>8. Again(l)
    BY <1>1, <1>2, <2>5 DEF Again
  <2>9. QED
    BY <2>7, <2>8
<1>5. QED
  BY <1>3, <1>4

-----------------------------------------------------------------------------
(* What the lines of a peer say.                                           *)
\* The elements of a finite set in a sequence.
LEMMA SeqOfSet ==
  ASSUME NEW S, IsFiniteSet(S), NEW n \in Nat, n = Cardinality(S), NEW f \in [1..n -> S],
         \A i, j \in 1..n : f[i] = f[j] => i = j
  PROVE  f \in Seq(S) /\ Len(f) = n /\ DOMAIN f = 1..n /\ \A x \in S : \E i \in 1..n : f[i] = x
<1>1. f \in Injection(1..n, S)
  BY DEF Injection, IsInjective
<1>2. IsFiniteSet(1..n) /\ Cardinality(1..n) = n
  <2>1. 1 \in Int /\ n \in Int
    OBVIOUS
  <2>2. IsFiniteSet(1..n) /\ Cardinality(1..n) = IF 1 > n THEN 0 ELSE n - 1 + 1
    BY <2>1, FS_Interval
  <2>3. QED
    BY <2>2
<1>3. f \in Surjection(1..n, S)
  BY <1>1, <1>2, FS_Injection
<1>4. QED
  BY <1>3 DEF Surjection

\* Any finite set has such a sequence, so SetToSeq is one.
LEMMA SetToSeqOf ==
  ASSUME NEW S, IsFiniteSet(S)
  PROVE  SetToSeq(S) \in Seq(S) /\ ToSet(SetToSeq(S)) = S
<1> DEFINE n == Cardinality(S)
           f == SetToSeq(S)
<1>1. n \in Nat /\ ExistsBijection(1..n, S)
  BY FS_CardinalityType
<1>2. \E g \in [1..n -> S] : IsInjective(g)
  BY <1>1 DEF ExistsBijection, Bijection, Injection
<1>3. f \in [1..n -> S] /\ IsInjective(f)
  BY <1>2, Zenon DEF SetToSeq
<1> HIDE DEF n, f
<1>4. \A i, j \in 1..n : f[i] = f[j] => i = j
  BY <1>3 DEF IsInjective
<1>5. f \in Seq(S) /\ DOMAIN f = 1..n /\ \A x \in S : \E i \in 1..n : f[i] = x
  BY <1>1, <1>3, <1>4, SeqOfSet DEF n
<1>6. ToSet(f) = S
  BY <1>3, <1>5 DEF ToSet
<1>7. QED
  BY <1>5, <1>6 DEF f

\* The orders of the peers a reply may have.
LEMMA SetToSeqsOf ==
  ASSUME NEW S, IsFiniteSet(S), NEW f \in SetToSeqs(S)
  PROVE  /\ f \in Seq(S) /\ DOMAIN f = 1..Len(f)
         /\ \A i, j \in 1..Len(f) : f[i] = f[j] => i = j
         /\ \A x \in S : \E i \in 1..Len(f) : f[i] = x
<1> DEFINE n == Cardinality(S)
<1>1. n \in Nat
  BY FS_CardinalityType
<1>2. f \in [1..n -> S] /\ \A i, j \in 1..n : i # j => f[i] # f[j]
  BY DEF SetToSeqs
<1>3. QED
  BY <1>1, <1>2, SeqOfSet

\* The values of a key.
LEMMA InValues ==
  ASSUME NEW X, NEW s \in Seq(X), NEW key, NEW x
  PROVE  x \in Values(s, key) <=> \E i \in 1..Len(s) : s[i].key = key /\ s[i].value = x
<1>1. DOMAIN s = 1..Len(s)
  OBVIOUS
<1>2. QED
  BY <1>1 DEF Values

\* The values of a concatenation.
LEMMA ValuesJoin ==
  ASSUME NEW X, NEW s \in Seq(X), NEW t \in Seq(X), NEW key
  PROVE  Values(s \o t, key) = Values(s, key) \cup Values(t, key)
<1> DEFINE u == s \o t
<1>1. /\ u \in Seq(X) /\ Len(u) = Len(s) + Len(t) /\ Len(s) \in Nat /\ Len(t) \in Nat
      /\ \A i \in 1..Len(s) : u[i] = s[i]
      /\ \A i \in 1..Len(t) : u[Len(s) + i] = t[i]
  OBVIOUS
<1> HIDE DEF u
<1>2. \A i \in 1..Len(u) : i \in 1..Len(s) \/ (i - Len(s) \in 1..Len(t) /\ i = Len(s) + (i - Len(s)))
  BY <1>1
<1>3. (\A i \in 1..Len(s) : i \in 1..Len(u)) /\ \A i \in 1..Len(t) : Len(s) + i \in 1..Len(u)
  BY <1>1
<1>4. ASSUME NEW x PROVE x \in Values(u, key) <=> x \in Values(s, key) \cup Values(t, key)
  <2>1. /\ x \in Values(u, key) <=> \E i \in 1..Len(u) : u[i].key = key /\ u[i].value = x
        /\ x \in Values(s, key) <=> \E i \in 1..Len(s) : s[i].key = key /\ s[i].value = x
        /\ x \in Values(t, key) <=> \E i \in 1..Len(t) : t[i].key = key /\ t[i].value = x
    <3>1. DOMAIN u = 1..Len(u) /\ DOMAIN s = 1..Len(s) /\ DOMAIN t = 1..Len(t)
      BY <1>1
    <3>2. QED
      BY <3>1 DEF Values
  <2>2. x \in Values(u, key) => x \in Values(s, key) \cup Values(t, key)
    BY <1>1, <1>2, <2>1
  <2>3. x \in Values(s, key) => x \in Values(u, key)
    BY <1>1, <1>3, <2>1
  <2>4. x \in Values(t, key) => x \in Values(u, key)
    <3> SUFFICES ASSUME NEW i \in 1..Len(t), t[i].key = key, t[i].value = x PROVE x \in Values(u, key)
      BY <2>1
    <3>1. Len(s) + i \in 1..Len(u) /\ u[Len(s) + i] = t[i]
      BY <1>1, <1>3
    <3>2. QED
      BY <2>1, <3>1
  <2>5. QED
    BY <2>2, <2>3, <2>4
<1>5. QED
  BY <1>4 DEF u

\* The values of lines with one key, ...
LEMMA ValuesSome ==
  ASSUME NEW S, NEW vs \in Seq(S), NEW key
  PROVE  /\ Some(key, vs) \in Seq(Lined(key, S))
         /\ Values(Some(key, vs), key) = ToSet(vs)
         /\ \A other : other # key => Values(Some(key, vs), other) = {}
<1> DEFINE s == Some(key, vs)
<1>1. DOMAIN vs = 1..Len(vs) /\ Len(vs) \in Nat /\ \A i \in 1..Len(vs) : vs[i] \in S
  OBVIOUS
<1>2. s = [i \in 1..Len(vs) |-> KV(key, vs[i])]
  BY <1>1 DEF Some
<1>3. \A i \in 1..Len(vs) : KV(key, vs[i]) \in Lined(key, S)
  BY <1>1 DEF Lined
<1>4. s \in Seq(Lined(key, S)) /\ Len(s) = Len(vs) /\ DOMAIN s = 1..Len(vs)
  BY <1>1, <1>2, <1>3
<1>5. \A i \in 1..Len(vs) : s[i].key = key /\ s[i].value = vs[i]
  BY <1>2, KVParts
<1> HIDE DEF s
<1>6. Values(s, key) = ToSet(vs)
  BY <1>1, <1>4, <1>5 DEF Values, ToSet
<1>7. \A other : other # key => Values(s, other) = {}
  BY <1>4, <1>5 DEF Values
<1>8. QED
  BY <1>4, <1>6, <1>7 DEF s

\* ... and of one line.
LEMMA ValuesOne ==
  ASSUME NEW key, NEW v
  PROVE  /\ <<KV(key, v)>> \in Seq(Lined(key, {v}))
         /\ Values(<<KV(key, v)>>, key) = {v}
         /\ \A other : other # key => Values(<<KV(key, v)>>, other) = {}
<1> DEFINE l == KV(key, v)
<1>1. l.key = key /\ l.value = v
  BY KVParts
<1>2. l \in Lined(key, {v})
  BY DEF Lined
<1> HIDE DEF l
<1>3. <<l>> \in Seq(Lined(key, {v})) /\ DOMAIN <<l>> = {1} /\ <<l>>[1] = l
  BY <1>2
<1>4. QED
  BY <1>1, <1>3 DEF Values, l

\* A peer of a device that was configured by WgApi, ...
SoundPeer(q) ==
  /\ DOMAIN q = PeerFields /\ q.preshared \in PresharedKeys /\ q.keepalive \in Uint16
  /\ q.endpoint = <<>> \/ \E e \in Endpoints : q.endpoint = <<e>>

\* ... and such a device.
Sound(d) ==
  /\ d.private \in PrivateKeys /\ d.port \in Uint16
  /\ IsFiniteSet(DOMAIN d.peers) /\ DOMAIN d.peers \subseteq PublicKeys
  /\ \A p \in DOMAIN d.peers : SoundPeer(d.peers[p])
  /\ IsFiniteSet(DOMAIN d.routes) /\ DOMAIN d.routes \subseteq Nets

\* What a reply says of a peer.
SaysPeer(b, d, p, c) ==
  /\ Values(b, "preshared_key") = {d.peers[p].preshared}
  /\ Values(b, "endpoint") = ToSet(d.peers[p].endpoint)
  /\ Values(b, "persistent_keepalive_interval") = {d.peers[p].keepalive}
  /\ Values(b, "protocol_version") = {1}
  /\ Values(b, "last_handshake_time_sec") = {c.sec}
  /\ Values(b, "last_handshake_time_nsec") = {c.nsec}
  /\ Values(b, "tx_bytes") = {c.tx}
  /\ Values(b, "rx_bytes") = {c.rx}
  /\ Values(b, "allowed_ip") = {r \in DOMAIN d.routes : d.routes[r] = p}

\* Lines after the first.
LEMMA AfterFirst ==
  ASSUME NEW X, NEW Y, NEW s \in Seq(X), NEW t \in Seq(Y), Y \subseteq X, Len(s) >= 1,
         \A j \in 1..Len(s) : j # 1 => s[j] \in Y
  PROVE  /\ s \o t \in Seq(X) /\ Len(s \o t) >= 1 /\ (s \o t)[1] = s[1]
         /\ \A j \in 1..Len(s \o t) : j # 1 => (s \o t)[j] \in Y
<1> DEFINE u == s \o t
<1>1. t \in Seq(X) /\ \A i \in 1..Len(t) : t[i] \in Y
  OBVIOUS
<1>2. /\ u \in Seq(X) /\ Len(u) = Len(s) + Len(t) /\ Len(s) \in Nat /\ Len(t) \in Nat
      /\ \A i \in 1..Len(s) : u[i] = s[i]
      /\ \A i \in 1..Len(t) : u[Len(s) + i] = t[i]
  BY <1>1
<1> HIDE DEF u
<1>3. ASSUME NEW j \in 1..Len(u), j # 1 PROVE u[j] \in Y
  <2>1. CASE j \in 1..Len(s)
    BY <1>2, <1>3, <2>1
  <2>2. CASE j \notin 1..Len(s)
    <3>1. j - Len(s) \in 1..Len(t) /\ j = Len(s) + (j - Len(s))
      BY <1>2, <2>2
    <3>2. QED
      BY <1>1, <1>2, <3>1
  <2>3. QED
    BY <2>1, <2>2
<1>4. Len(u) >= 1 /\ u[1] = s[1]
  BY <1>2
<1>5. QED
  BY <1>2, <1>3, <1>4 DEF u

\* The lines of a peer begin with its public key, and none that follows is of a peer or of
\* the device.
LEMMA PeerBlock ==
  ASSUME NEW d, Sound(d), NEW p \in DOMAIN d.peers, NEW c \in Counters
  PROVE  LET b == PeerLines(d, p, c)
         IN  /\ b \in Seq(PublicLines \cup PeerRest) /\ Len(b) >= 1 /\ b[1] = KV("public_key", p)
             /\ \A j \in 1..Len(b) : j # 1 => b[j] \in PeerRest
             /\ SaysPeer(b, d, p, c)
<1> DEFINE peer == d.peers[p]
           R == {r \in DOMAIN d.routes : d.routes[r] = p}
           routes == SetToSeq(R)
           Y == PeerRest
           X == PublicLines \cup Y
           l1 == KV("public_key", p)
           l2 == KV("preshared_key", peer.preshared)
           l3 == KV("protocol_version", 1)
           m1 == KV("last_handshake_time_sec", c.sec)
           m2 == KV("last_handshake_time_nsec", c.nsec)
           m3 == KV("tx_bytes", c.tx)
           m4 == KV("rx_bytes", c.rx)
           m5 == KV("persistent_keepalive_interval", peer.keepalive)
           h == <<l1, l2, l3>>
           e == Some("endpoint", peer.endpoint)
           t == <<m1, m2, m3, m4, m5>>
           a == Some("allowed_ip", routes)
           b == PeerLines(d, p, c)
<1>1. SoundPeer(peer) /\ p \in PublicKeys
  BY DEF Sound
<1>2. routes \in Seq(Nets) /\ ToSet(routes) = R
  <2>1. R \in SUBSET (DOMAIN d.routes) /\ IsFiniteSet(DOMAIN d.routes) /\ R \subseteq Nets
    BY DEF Sound
  <2>2. IsFiniteSet(R)
    BY <2>1, FS_Subset
  <2> HIDE DEF R
  <2>3. SetToSeq(R) \in Seq(R) /\ ToSet(SetToSeq(R)) = R
    BY <2>2, SetToSeqOf
  <2>4. QED
    BY <2>1, <2>3
<1>3. peer.endpoint \in Seq(Endpoints)
  <2>1. peer.endpoint = <<>> \/ \E x \in Endpoints : peer.endpoint = <<x>>
    BY <1>1 DEF SoundPeer
  <2> HIDE DEF peer
  <2>2. <<>> \in Seq(Endpoints) /\ \A x \in Endpoints : <<x>> \in Seq(Endpoints)
    OBVIOUS
  <2>3. QED
    BY <2>1, <2>2
<1>4. b = ((h \o e) \o t) \o a
  BY DEF PeerLines
<1> HIDE DEF routes, R, b
<1>5. l1 \in X /\ {l2, l3, m1, m2, m3, m4, m5} \subseteq Y
      /\ Lined("endpoint", Endpoints) \subseteq Y /\ Lined("allowed_ip", Nets) \subseteq Y
  BY <1>1, Numbers DEF SoundPeer, PeerRest, PublicLines, Lined
<1>6. /\ l1.key = "public_key" /\ l2.key = "preshared_key" /\ l3.key = "protocol_version"
      /\ m1.key = "last_handshake_time_sec" /\ m2.key = "last_handshake_time_nsec" /\ m3.key = "tx_bytes"
      /\ m4.key = "rx_bytes" /\ m5.key = "persistent_keepalive_interval"
      /\ l2.value = peer.preshared /\ l3.value = 1 /\ m1.value = c.sec /\ m2.value = c.nsec
      /\ m3.value = c.tx /\ m4.value = c.rx /\ m5.value = peer.keepalive
  BY KVParts
<1>7. /\ e \in Seq(Lined("endpoint", Endpoints)) /\ Values(e, "endpoint") = ToSet(peer.endpoint)
      /\ \A other : other # "endpoint" => Values(e, other) = {}
      /\ a \in Seq(Lined("allowed_ip", Nets)) /\ Values(a, "allowed_ip") = R
      /\ \A other : other # "allowed_ip" => Values(a, other) = {}
  BY <1>2, <1>3, ValuesSome
<1> HIDE DEF l1, l2, l3, m1, m2, m3, m4, m5, e, a, Y
<1>8. Y \subseteq X /\ e \in Seq(Y) /\ a \in Seq(Y) /\ t \in Seq(Y)
  BY <1>5, <1>7
<1>9. h \in Seq(X) /\ Len(h) >= 1 /\ h[1] = l1 /\ \A j \in 1..Len(h) : j # 1 => h[j] \in Y
  BY <1>5, <1>8
<1>10. /\ Values(h, "preshared_key") = {peer.preshared} /\ Values(h, "endpoint") = {}
       /\ Values(h, "protocol_version") = {1} /\ Values(h, "allowed_ip") = {}
       /\ Values(h, "last_handshake_time_sec") = {} /\ Values(h, "last_handshake_time_nsec") = {}
       /\ Values(h, "tx_bytes") = {} /\ Values(h, "rx_bytes") = {}
       /\ Values(h, "persistent_keepalive_interval") = {}
  <2>1. DOMAIN h = {1, 2, 3} /\ h[1] = l1 /\ h[2] = l2 /\ h[3] = l3
    OBVIOUS
  <2> HIDE DEF h
  <2>2. QED
    BY <1>6, <2>1 DEF Values
<1>11. /\ Values(t, "preshared_key") = {} /\ Values(t, "endpoint") = {}
       /\ Values(t, "protocol_version") = {} /\ Values(t, "allowed_ip") = {}
       /\ Values(t, "last_handshake_time_sec") = {c.sec} /\ Values(t, "last_handshake_time_nsec") = {c.nsec}
       /\ Values(t, "tx_bytes") = {c.tx} /\ Values(t, "rx_bytes") = {c.rx}
       /\ Values(t, "persistent_keepalive_interval") = {peer.keepalive}
  <2>1. DOMAIN t = {1, 2, 3, 4, 5} /\ t[1] = m1 /\ t[2] = m2 /\ t[3] = m3 /\ t[4] = m4 /\ t[5] = m5
    OBVIOUS
  <2> HIDE DEF t
  <2>2. QED
    BY <1>6, <2>1 DEF Values
<1> HIDE DEF h, t, X
<1> DEFINE he == h \o e
           het == he \o t
<1>12. he \in Seq(X) /\ Len(he) >= 1 /\ he[1] = l1 /\ \A j \in 1..Len(he) : j # 1 => he[j] \in Y
  BY <1>8, <1>9, AfterFirst
<1>13. \A key : Values(he, key) = Values(h, key) \cup Values(e, key)
  <2>1. e \in Seq(X)
    BY <1>8
  <2>2. QED
    BY <1>9, <2>1, ValuesJoin
<1> HIDE DEF he
<1>14. het \in Seq(X) /\ Len(het) >= 1 /\ het[1] = l1 /\ \A j \in 1..Len(het) : j # 1 => het[j] \in Y
  BY <1>8, <1>12, AfterFirst
<1>15. \A key : Values(het, key) = Values(he, key) \cup Values(t, key)
  <2>1. t \in Seq(X)
    BY <1>8
  <2>2. QED
    BY <1>12, <2>1, ValuesJoin
<1>16. b = het \o a
  BY <1>4 DEF he
<1> HIDE DEF het
<1>17. b \in Seq(X) /\ Len(b) >= 1 /\ b[1] = l1 /\ \A j \in 1..Len(b) : j # 1 => b[j] \in Y
  BY <1>8, <1>14, <1>16, AfterFirst
<1>18. \A key : Values(b, key) = Values(het, key) \cup Values(a, key)
  <2>1. a \in Seq(X)
    BY <1>8
  <2>2. QED
    BY <1>14, <1>16, <2>1, ValuesJoin
<1>19. \A key : Values(b, key) = Values(h, key) \cup Values(e, key) \cup Values(t, key) \cup Values(a, key)
  BY <1>13, <1>15, <1>18
<1>20. SaysPeer(b, d, p, c)
  BY <1>7, <1>10, <1>11, <1>19 DEF SaysPeer, R
<1>21. QED
  BY <1>17, <1>20 DEF b, l1, X, Y

-----------------------------------------------------------------------------
(* Where the lines of a reply are.                                         *)
\* The keys of the lines of a reply.
LEMMA ReplyKeys ==
  /\ \A l \in HeadLines : l.key \in {"private_key", "listen_port"}
  /\ \A l \in PublicLines : l.key = "public_key"
  /\ \A l \in PeerRest : l.key \notin {"private_key", "listen_port", "public_key", "errno"}
  /\ \A l \in EndLines : l.key = "errno"
<1>1. \A key, S : \A l \in Lined(key, S) : l.key = key
  BY KVParts DEF Lined
<1>2. QED
  BY <1>1 DEF HeadLines, PublicLines, PeerRest, EndLines

\* Where the elements of a concatenation are.
LEMMA JoinParts ==
  ASSUME NEW X, NEW s \in Seq(X), NEW t \in Seq(X), NEW u, u = s \o t
  PROVE  /\ u \in Seq(X) /\ Len(u) = Len(s) + Len(t) /\ Len(s) \in Nat /\ Len(t) \in Nat
         /\ \A i \in 1..Len(s) : u[i] = s[i]
         /\ \A i \in 1..Len(t) : u[Len(s) + i] = t[i]
OBVIOUS

\* A line that ends the lines.
IsBlank(l) == l.key = ""

\* The lines t of a text are those before the blank line.
Before(text0, t) ==
  /\ {i \in DOMAIN text0 : text0[i].key # ""} = 1..Len(t)
  /\ \A i \in 1..Len(t) : text0[i] = t[i]

\* Lines returns all lines when none is blank, ...
LEMMA AllLines ==
  ASSUME NEW X, NEW q \in Seq(X), \A l \in X : ~IsBlank(l)
  PROVE  Lines(q \o <<>>) = q /\ Before(q \o <<>>, q)
<1>1. q \o <<>> = q /\ DOMAIN q = 1..Len(q)
  OBVIOUS
<1>2. \A i \in DOMAIN q : ~IsBlank(q[i])
  OBVIOUS
<1>3. {i \in DOMAIN q : IsBlank(q[i])} = {}
  BY <1>2
<1>4. Lines(q) = IF {i \in DOMAIN q : IsBlank(q[i])} = {} THEN q
                 ELSE SubSeq(q, 1, Min({i \in DOMAIN q : IsBlank(q[i])}) - 1)
  BY Zenon DEF Lines, IsBlank
<1>5. Before(q, q)
  BY <1>1, <1>2 DEF Before, IsBlank
<1>6. QED
  BY <1>1, <1>3, <1>4, <1>5

\* ... and those before the blank line that ends a reply, here with a last line e.
LEMMA LinesBeforeBlank ==
  ASSUME NEW X, NEW q \in Seq(X), NEW e \in X, \A l \in X : ~IsBlank(l)
  PROVE  LET s == Lines(q \o <<e, Blank>>)
         IN  /\ s \in Seq(X) /\ Len(s) = Len(q) + 1 /\ s[Len(q) + 1] = e
             /\ \A i \in 1..Len(q) : s[i] = q[i]
             /\ Before(q \o <<e, Blank>>, s)
<1> DEFINE u == q \o <<e, Blank>>
           m == Len(q)
           blanks == {i \in DOMAIN u : IsBlank(u[i])}
<1>1. IsBlank(Blank)
  <2>1. Blank.key = ""
    BY KVParts, Zenon DEF Blank
  <2>2. QED
    BY <2>1, Zenon DEF IsBlank
<1>2. m \in Nat /\ \A i \in 1..m : q[i] \in X
  OBVIOUS
<1>3. /\ DOMAIN u = 1..(m + 2) /\ u \in Seq(X \cup {Blank}) /\ u[m + 1] = e /\ u[m + 2] = Blank
      /\ \A i \in 1..m : u[i] = q[i]
  <2> DEFINE t == <<e, Blank>>
             Y == X \cup {Blank}
  <2>1. t \in Seq(Y) /\ Len(t) = 2 /\ t[1] = e /\ t[2] = Blank /\ q \in Seq(Y)
    OBVIOUS
  <2> HIDE DEF t, Y
  <2>2. /\ u \in Seq(Y) /\ Len(u) = m + 2 /\ \A i \in 1..m : u[i] = q[i]
        /\ \A i \in 1..2 : u[m + i] = t[i]
    <3>1. u = q \o t
      BY DEF t
    <3> HIDE DEF u, m
    <3>2. /\ u \in Seq(Y) /\ Len(u) = Len(q) + Len(t)
          /\ \A i \in 1..Len(q) : u[i] = q[i]
          /\ \A i \in 1..Len(t) : u[Len(q) + i] = t[i]
      <4>1. q \in Seq(Y) /\ t \in Seq(Y)
        BY <2>1
      <4>2. QED
        BY <3>1, <4>1
    <3>3. Len(t) = 2
      BY <2>1
    <3>4. u \in Seq(Y) /\ Len(u) = m + 2 /\ \A i \in 1..m : u[i] = q[i]
      BY <3>2, <3>3 DEF m
    <3>5. \A i \in 1..2 : u[m + i] = t[i]
      BY <3>2, <3>3 DEF m
    <3>6. QED
      BY <3>4, <3>5
  <2>3. QED
    BY <2>1, <2>2 DEF Y
<1> HIDE DEF u
<1>4. \A i \in 1..(m + 2) : IsBlank(u[i]) <=> i = m + 2
  <2>1. \A i \in 1..(m + 2) : i \in 1..m \/ i = m + 1 \/ i = m + 2
    BY <1>2
  <2>2. m + 1 # m + 2 /\ m + 2 \notin 1..m
    BY <1>2
  <2>3. QED
    BY <1>1, <1>2, <1>3, <2>1, <2>2
<1>5. blanks = {m + 2}
  <2>1. m + 2 \in 1..(m + 2)
    BY <1>2
  <2>2. QED
    BY <1>3, <1>4, <2>1
<1>6. Min(blanks) = m + 2
  BY <1>2, <1>5 DEF Min
<1>7. Lines(u) = SubSeq(u, 1, m + 1)
  <2>1. blanks # {} /\ (m + 2) - 1 = m + 1
    BY <1>2, <1>5
  <2>2. Lines(u) = IF blanks = {} THEN u ELSE SubSeq(u, 1, Min(blanks) - 1)
    BY Zenon DEF Lines, IsBlank
  <2> HIDE DEF blanks
  <2>3. QED
    BY <1>6, <2>1, <2>2
<1> DEFINE s == SubSeq(u, 1, m + 1)
<1>8. Len(s) = m + 1 /\ s = [i \in 1..(m + 1) |-> u[i]]
  BY <1>2, <1>3
<1>9. \A i \in 1..(m + 1) : u[i] \in X
  BY <1>2, <1>3
<1>10. s \in Seq(X)
  BY <1>2, <1>8, <1>9
<1>11. \A i \in 1..(m + 1) : s[i] = u[i]
  BY <1>8
<1>12. Len(s) = m + 1
  BY <1>8
<1> HIDE DEF s
<1>13. s[m + 1] = e /\ \A i \in 1..m : s[i] = q[i]
  BY <1>2, <1>3, <1>11
<1>14. Before(u, s)
  <2>1. \A i \in 1..(m + 2) : i # m + 2 <=> i \in 1..(m + 1)
    BY <1>2
  <2>2. \A i \in 1..(m + 1) : i \in 1..(m + 2)
    BY <1>2
  <2>3. {i \in DOMAIN u : u[i].key # ""} = 1..(m + 1)
    BY <1>3, <1>4, <2>1, <2>2, Zenon DEF IsBlank
  <2>4. QED
    BY <1>11, <1>12, <2>3 DEF Before
<1>15. QED
  BY <1>7, <1>10, <1>12, <1>13, <1>14 DEF s, u

\* A reply: what is of the device, the lines of its peers and what may end it.
Layout(s, head, q, off) ==
  /\ \A k \in 1..Len(head) : k \in 1..Len(s) /\ s[k] = head[k]
  /\ \A i \in 1..Len(q) :
         /\ off[i] \in Nat /\ Len(head) <= off[i] /\ off[i] + Len(q[i]) <= Len(s)
         /\ \A j \in 1..Len(q[i]) : s[off[i] + j] = q[i][j]
  /\ \A i, j \in 1..Len(q) : i < j => off[i] + Len(q[i]) <= off[j]
  /\ \A k \in 1..Len(s) : \/ k \in 1..Len(head)
                          \/ \E i \in 1..Len(q) : k - off[i] \in 1..Len(q[i])
                          \/ s[k] \in EndLines

\* The peers follow what is of the device.
LEMMA HeadAndBlocks ==
  ASSUME NEW X, NEW head \in Seq(X), NEW q \in Seq(Seq(X))
  PROVE  LET s == head \o FlattenSeq(q)
         IN  s \in Seq(X) /\ \E off : Layout(s, head, q, off)
<1> DEFINE f == FlattenSeq(q)
           s == head \o f
           h == Len(head)
<1>1. f \in Seq(X)
  BY FlattenBlocks
<1>2. PICK o : /\ Offsets(o, q) /\ Len(f) = o[Len(q) + 1]
               /\ \A i \in 1..Len(q) : \A j \in 1..Len(q[i]) : f[o[i] + j] = q[i][j]
               /\ \A i, j \in 1..Len(q) : i < j => o[i] + Len(q[i]) <= o[j]
               /\ \A i \in 1..Len(q) : o[i] + Len(q[i]) <= Len(f)
               /\ \A k \in 1..Len(f) : \E i \in 1..Len(q) : k - o[i] \in 1..Len(q[i])
  BY FlattenBlocks
<1> HIDE DEF f
<1>3. /\ s \in Seq(X) /\ Len(s) = h + Len(f) /\ h \in Nat /\ Len(f) \in Nat
      /\ \A k \in 1..h : s[k] = head[k]
      /\ \A k \in 1..Len(f) : s[h + k] = f[k]
  BY <1>1
<1>13. h \in Nat /\ Len(f) \in Nat
  BY <1>3
<1>4. Len(q) \in Nat /\ \A i \in 1..Len(q) : Len(q[i]) \in Nat
  OBVIOUS
<1>5. \A i \in 1..Len(q) : o[i] \in Nat
  <2>1. \A i \in 1..Len(q) : i \in 1..(Len(q) + 1)
    BY <1>4
  <2>2. QED
    BY <1>2, <2>1 DEF Offsets
<1> HIDE DEF s, h
<1> DEFINE off == [i \in 1..Len(q) |-> h + o[i]]
<1>6. \A i \in 1..Len(q) : off[i] = h + o[i]
  OBVIOUS
<1> HIDE DEF off
<1>7. \A k \in 1..h : k \in 1..Len(s)
  BY <1>3
<1>8. ASSUME NEW i \in 1..Len(q)
      PROVE  /\ off[i] \in Nat /\ h <= off[i] /\ off[i] + Len(q[i]) <= Len(s)
             /\ \A j \in 1..Len(q[i]) : s[off[i] + j] = q[i][j]
  <2>1. o[i] \in Nat /\ Len(q[i]) \in Nat /\ o[i] + Len(q[i]) <= Len(f) /\ off[i] = h + o[i]
    BY <1>2, <1>4, <1>5, <1>6
  <2>2. off[i] \in Nat /\ h <= off[i] /\ off[i] + Len(q[i]) <= Len(s)
    BY <1>3, <2>1
  <2>3. ASSUME NEW j \in 1..Len(q[i]) PROVE s[off[i] + j] = q[i][j]
    <3>1. o[i] + j \in 1..Len(f) /\ off[i] + j = h + (o[i] + j)
      <4> DEFINE a == o[i]
                 b == Len(q[i])
                 c == Len(f)
      <4>1. a \in Nat /\ b \in Nat /\ c \in Nat /\ a + b <= c /\ off[i] = h + a /\ j \in 1..b /\ h \in Nat
        BY <1>13, <2>1
      <4> HIDE DEF a, b, c
      <4>2. a + j \in 1..c /\ off[i] + j = h + (a + j)
        BY <4>1
      <4>3. QED
        BY <4>2 DEF a, b, c
    <3>2. f[o[i] + j] = q[i][j]
      BY <1>2
    <3>3. s[h + (o[i] + j)] = f[o[i] + j]
      BY <1>3, <3>1
    <3>4. QED
      BY <3>1, <3>2, <3>3
  <2>4. QED
    BY <2>2, <2>3
<1>9. \A i, j \in 1..Len(q) : i < j => off[i] + Len(q[i]) <= off[j]
  <2> SUFFICES ASSUME NEW i \in 1..Len(q), NEW j \in 1..Len(q), i < j PROVE off[i] + Len(q[i]) <= off[j]
    OBVIOUS
  <2>1. o[i] \in Nat /\ o[j] \in Nat /\ Len(q[i]) \in Nat /\ o[i] + Len(q[i]) <= o[j]
    <3>1. o[i] + Len(q[i]) <= o[j]
      BY <1>2
    <3>2. QED
      BY <1>4, <1>5, <3>1
  <2>2. off[i] = h + o[i] /\ off[j] = h + o[j]
    BY <1>6
  <2>3. QED
    BY <1>13, <2>1, <2>2, SMTT(20)
<1>10. ASSUME NEW k \in 1..Len(s), k \notin 1..h PROVE \E i \in 1..Len(q) : k - off[i] \in 1..Len(q[i])
  <2>1. k - h \in 1..Len(f)
    BY <1>3, <1>10
  <2>2. PICK i \in 1..Len(q) : (k - h) - o[i] \in 1..Len(q[i])
    BY <1>2, <2>1
  <2>3. k - off[i] = (k - h) - o[i]
    BY <1>3, <1>5, <1>6
  <2>4. QED
    BY <2>2, <2>3
<1>11. Layout(s, head, q, off)
  BY <1>3, <1>7, <1>8, <1>9, <1>10 DEF Layout, h
<1>12. QED
  BY <1>3, <1>11 DEF s, f

\* Of some numbers one is the least.
LEMMA Least ==
  ASSUME NEW S, S \subseteq Nat, S # {}
  PROVE  Min(S) \in S /\ \A x \in S : Min(S) <= x
<1> DEFINE R == OpToRel(<, Nat)
<1>1. IsWellFoundedOn(R, Nat)
  BY NatLessThanWellFounded, Zenon
<1>2. \A y, x \in Nat : y < x => <<y, x>> \in R
  BY Zenon DEF OpToRel
<1> HIDE DEF R
<1>3. PICK x \in S : \A y \in S : ~(<<y, x>> \in R)
  BY <1>1, WFMin
<1>4. \A y \in S : x <= y
  <2>1. \A y \in S : y \in Nat /\ x \in Nat /\ ~(y < x)
    BY <1>2, <1>3
  <2>2. \A y, z \in Nat : ~(y < z) => z <= y
    OBVIOUS
  <2>3. QED
    BY <2>1, <2>2
<1>5. Min(S) = CHOOSE z \in S : \A y \in S : z <= y
  BY DEF Min
<1>6. QED
  BY <1>3, <1>4, <1>5

\* A reply: of peers with the public keys P, each in lines of its own.
Replied(s, head, q, off, P) ==
  /\ s \in Seq(Reply) /\ head \in Seq(HeadLines) /\ Len(q) \in Nat
  /\ \A i \in 1..Len(q) :
         /\ Len(q[i]) \in Nat /\ Len(q[i]) >= 1 /\ q[i][1] = KV("public_key", P[i])
         /\ \A j \in 1..Len(q[i]) : j # 1 => q[i][j] \in PeerRest
  /\ \A i, j \in 1..Len(q) : P[i] = P[j] => i = j
  /\ Layout(s, head, q, off)

\* The lines of a peer begin where its public key is, and no other line has a public key.
LEMMA PublicAt ==
  ASSUME NEW s, NEW head, NEW q, NEW off, NEW P, Replied(s, head, q, off, P)
  PROVE  /\ \A i \in 1..Len(q) : off[i] + 1 \in 1..Len(s) /\ s[off[i] + 1] = KV("public_key", P[i])
         /\ \A k \in 1..Len(s) : s[k].key = "public_key" => \E i \in 1..Len(q) : k = off[i] + 1
<1>1. /\ Len(s) \in Nat /\ Len(head) \in Nat /\ (\A k \in 1..Len(head) : head[k] \in HeadLines)
      /\ \A i \in 1..Len(q) : /\ Len(q[i]) \in Nat /\ Len(q[i]) >= 1 /\ q[i][1] = KV("public_key", P[i])
                              /\ \A j \in 1..Len(q[i]) : j # 1 => q[i][j] \in PeerRest
  BY DEF Replied
<1>2. Layout(s, head, q, off)
  BY DEF Replied
<1>3. ASSUME NEW i \in 1..Len(q)
      PROVE  off[i] + 1 \in 1..Len(s) /\ s[off[i] + 1] = KV("public_key", P[i])
  <2>1. /\ off[i] \in Nat /\ off[i] + Len(q[i]) <= Len(s) /\ 1 \in 1..Len(q[i])
        /\ \A j \in 1..Len(q[i]) : s[off[i] + j] = q[i][j]
    BY <1>1, <1>2 DEF Layout
  <2>2. QED
    BY <1>1, <2>1
<1>4. ASSUME NEW k \in 1..Len(s), s[k].key = "public_key"
      PROVE  \E i \in 1..Len(q) : k = off[i] + 1
  <2>1. CASE k \in 1..Len(head)
    <3>1. s[k] \in HeadLines
      BY <1>1, <1>2, <2>1 DEF Layout
    <3>2. QED
      BY <1>4, <3>1, ReplyKeys
  <2>2. ASSUME NEW i \in 1..Len(q), k - off[i] \in 1..Len(q[i]) PROVE k = off[i] + 1
    <3> DEFINE j == k - off[i]
    <3>1. off[i] \in Nat /\ s[off[i] + j] = q[i][j] /\ j \in 1..Len(q[i])
      BY <1>2, <2>2 DEF Layout
    <3>2. k = off[i] + j
      BY <3>1
    <3> HIDE DEF j
    <3>3. CASE j = 1
      BY <3>2, <3>3
    <3>4. CASE j # 1
      <4>1. s[k] \in PeerRest
        BY <1>1, <3>1, <3>2, <3>4
      <4>2. QED
        BY <1>4, <4>1, ReplyKeys
    <3>5. QED
      BY <3>3, <3>4
  <2>3. CASE s[k] \in EndLines
    BY <1>4, <2>3, ReplyKeys
  <2>4. QED
    BY <1>2, <2>1, <2>2, <2>3 DEF Layout
<1>5. QED
  BY <1>3, <1>4

\* Where OfPeer begins and ends.
PeerAt(s, p) == CHOOSE i \in DOMAIN s : s[i].key = "public_key" /\ s[i].value = p
NextPeers(s, k) == {i \in DOMAIN s : i > k /\ s[i].key = "public_key"}
PeerEnd(s, k) == IF NextPeers(s, k) = {} THEN Len(s) ELSE Min(NextPeers(s, k)) - 1

\* Of a peer are its lines and, of the last peer, the end of the reply, in any t with the
\* keys of the reply.
LEMMA PeerRange ==
  ASSUME NEW s, NEW head, NEW q, NEW off, NEW P, Replied(s, head, q, off, P), NEW i \in 1..Len(q),
         NEW t, DOMAIN t = 1..Len(s), Len(t) = Len(s),
         \A k \in 1..Len(s) : t[k].key = s[k].key /\ (s[k].key = "public_key" => t[k].value = s[k].value)
  PROVE  LET e == PeerEnd(t, off[i] + 1)
         IN  /\ PeerAt(t, P[i]) = off[i] + 1
             /\ e \in 1..Len(s) /\ off[i] + Len(q[i]) <= e
             /\ \A k \in (off[i] + Len(q[i]) + 1)..e : s[k] \in EndLines
<1> DEFINE first == off[i] + 1
           m == off[i] + Len(q[i])
           later == NextPeers(t, first)
           e == PeerEnd(t, first)
<1>1. /\ Len(s) \in Nat
      /\ \A j \in 1..Len(q) : Len(q[j]) \in Nat /\ Len(q[j]) >= 1
      /\ \A j, k \in 1..Len(q) : P[j] = P[k] => j = k
      /\ Len(q) \in Nat
  BY DEF Replied
<1>2. Layout(s, head, q, off)
  BY DEF Replied
<1>3. /\ \A j \in 1..Len(q) : off[j] + 1 \in 1..Len(s) /\ t[off[j] + 1].key = "public_key"
                              /\ t[off[j] + 1].value = P[j]
      /\ \A k \in 1..Len(s) : t[k].key = "public_key" => \E j \in 1..Len(q) : k = off[j] + 1
  <2>1. /\ \A j \in 1..Len(q) : off[j] + 1 \in 1..Len(s) /\ s[off[j] + 1] = KV("public_key", P[j])
        /\ \A k \in 1..Len(s) : s[k].key = "public_key" => \E j \in 1..Len(q) : k = off[j] + 1
    BY PublicAt
  <2>2. \A j \in 1..Len(q) : s[off[j] + 1].key = "public_key" /\ s[off[j] + 1].value = P[j]
    BY <2>1, KVParts
  <2>3. QED
    BY <2>1, <2>2
<1>4. /\ \A j \in 1..Len(q) : off[j] \in Nat /\ Len(head) <= off[j] /\ off[j] + Len(q[j]) <= Len(s)
      /\ \A j, k \in 1..Len(q) : j < k => off[j] + Len(q[j]) <= off[k]
  BY <1>2 DEF Layout
<1>5. PeerAt(t, P[i]) = first
  <2>1. first \in DOMAIN t /\ t[first].key = "public_key" /\ t[first].value = P[i]
    BY <1>1, <1>3
  <2>2. ASSUME NEW k \in DOMAIN t, t[k].key = "public_key", t[k].value = P[i] PROVE k = first
    <3>1. PICK j \in 1..Len(q) : k = off[j] + 1
      BY <1>1, <1>3, <2>2
    <3>2. P[j] = P[i]
      BY <1>3, <2>2, <3>1
    <3>3. QED
      BY <1>1, <3>1, <3>2
  <2> HIDE DEF first
  <2>3. QED
    BY <2>1, <2>2 DEF PeerAt
<1>6. \A k \in later : k \in Nat /\ k \in 1..Len(s) /\ k > first
                       /\ \E j \in 1..Len(q) : k = off[j] + 1
  BY <1>1, <1>3 DEF NextPeers
<1>7. \A j \in 1..Len(q) : i < j => off[j] + 1 \in later /\ m <= off[j]
  <2> SUFFICES ASSUME NEW j \in 1..Len(q), i < j PROVE off[j] + 1 \in later /\ m <= off[j]
    OBVIOUS
  <2>1. m <= off[j] /\ off[i] \in Nat /\ off[j] \in Nat /\ Len(q[i]) \in Nat /\ Len(q[i]) >= 1
    BY <1>1, <1>4
  <2>2. off[j] + 1 > first
    BY <2>1
  <2> HIDE DEF first
  <2>3. off[j] + 1 \in later
    BY <1>1, <1>3, <2>2 DEF NextPeers
  <2>4. QED
    BY <2>1, <2>3
<1>8. \A j \in 1..Len(q) : off[j] + 1 > first => i < j
  <2> SUFFICES ASSUME NEW j \in 1..Len(q), off[j] + 1 > first PROVE i < j
    OBVIOUS
  <2>1. j < i => off[j] + Len(q[j]) <= off[i]
    BY <1>4
  <2>2. off[j] \in Nat /\ off[i] \in Nat /\ Len(q[j]) \in Nat /\ i \in Nat /\ j \in Nat
    BY <1>1, <1>4
  <2>3. QED
    BY <2>1, <2>2
<1>9. m \in Nat /\ m <= Len(s) /\ 1 <= m /\ first <= m
  BY <1>1, <1>4
<1>10. /\ e \in 1..Len(s) /\ m <= e
       /\ \A j \in 1..Len(q) : i < j => e <= off[j]
  <2>1. CASE later = {}
    <3>1. e = Len(s)
      BY <2>1 DEF PeerEnd
    <3>2. QED
      BY <1>1, <1>7, <1>9, <2>1, <3>1
  <2>2. CASE later # {}
    <3>1. e = Min(later) - 1
      BY <2>2 DEF PeerEnd
    <3>2. later \subseteq Nat
      BY <1>6
    <3> HIDE DEF later, e
    <3>3. Min(later) \in later /\ \A x \in later : Min(later) <= x
      BY <2>2, <3>2, Least
    <3> DEFINE x == Min(later)
    <3>4. x \in Nat /\ x \in 1..Len(s) /\ x > first /\ \E j \in 1..Len(q) : x = off[j] + 1
      BY <1>6, <3>3
    <3> HIDE DEF x
    <3>5. PICK j \in 1..Len(q) : x = off[j] + 1
      BY <3>4
    <3>6. i < j
      BY <1>8, <3>4, <3>5
    <3>7. m <= off[j] /\ off[j] \in Nat
      BY <1>4, <1>7, <3>6
    <3>8. e = x - 1 /\ e = off[j]
      BY <3>1, <3>5, <3>7 DEF x
    <3>9. \A a \in 1..Len(q) : i < a => x <= off[a] + 1
      BY <1>7, <3>3 DEF x
    <3>10. \A a \in 1..Len(q) : i < a => e <= off[a]
      <4> SUFFICES ASSUME NEW a \in 1..Len(q), i < a PROVE e <= off[a]
        OBVIOUS
      <4>1. off[a] \in Nat /\ x <= off[a] + 1 /\ x \in Nat /\ e = x - 1
        BY <1>4, <3>4, <3>8, <3>9
      <4>2. QED
        BY <4>1
    <3> HIDE DEF m, first
    <3>11. e \in 1..Len(s) /\ m <= e
      <4>1. e = x - 1 /\ m <= e
        BY <3>7, <3>8
      <4>2. m \in Nat /\ 1 <= m /\ x \in 1..Len(s) /\ Len(s) \in Nat
        BY <1>1, <1>9, <3>4
      <4> HIDE DEF e
      <4>3. QED
        BY <4>1, <4>2
    <3>12. QED
      BY <3>10, <3>11
  <2>3. QED
    BY <2>1, <2>2
<1>11. ASSUME NEW k \in (m + 1)..e PROVE s[k] \in EndLines
  <2> HIDE DEF e
  <2>1. off[i] \in Nat /\ Len(q[i]) \in Nat /\ k \in Nat /\ k > off[i] /\ k > m
        /\ k <= e /\ k \in 1..Len(s)
    BY <1>1, <1>4, <1>9, <1>10
  <2>2. k \notin 1..Len(head)
    <3>1. Len(head) \in Nat /\ Len(head) <= off[i]
      BY <1>4 DEF Replied
    <3>2. QED
      BY <2>1, <3>1
  <2>3. ASSUME NEW j \in 1..Len(q), k - off[j] \in 1..Len(q[j]) PROVE FALSE
    <3>1. off[j] \in Nat /\ Len(q[j]) \in Nat /\ k > off[j] /\ k <= off[j] + Len(q[j]) /\ i \in Nat /\ j \in Nat
      BY <1>1, <1>4, <2>1, <2>3
    <3>2. j # i
      BY <2>1, <3>1
    <3>3. ~(j < i)
      BY <1>4, <2>1, <3>1
    <3>4. ~(i < j)
      <4>1. i < j => e <= off[j]
        BY <1>10
      <4>2. e \in Nat
        BY <1>10
      <4>3. QED
        BY <2>1, <3>1, <4>1, <4>2
    <3>5. QED
      BY <3>1, <3>2, <3>3, <3>4
  <2>4. QED
    BY <1>2, <2>1, <2>2, <2>3 DEF Layout
<1>12. QED
  BY <1>5, <1>10, <1>11

-----------------------------------------------------------------------------
(* What Value reads of the lines of a reply.                               *)
\* What Value reads of a line.
LEMMA RereadParts ==
  ASSUME NEW l
  PROVE  /\ Reread(l).key = l.key
         /\ l.key # "allowed_ip" => Reread(l).value = l.value
         /\ l.key = "allowed_ip" => Reread(l).value = ParseIPNet(l.value)
<1> DEFINE v == IF l.key = "allowed_ip" THEN ParseIPNet(l.value) ELSE l.value
<1>1. Reread(l) = KV(l.key, v)
  BY DEF Reread
<1>2. Reread(l).key = l.key /\ Reread(l).value = v
  BY <1>1, KVParts
<1>3. QED
  BY <1>2

\* What is read of a sequence of lines.
Ipc(s) == [k \in 1..Len(s) |-> Reread(s[k])]

\* The values of a key in what is read of lines.
Read(s, key) == {Reread(s[j]).value : j \in {k \in 1..Len(s) : s[k].key = key}}

\* What Value reads of a sequence has those values, which for other keys than allowed_ip are
\* the values that were written.
LEMMA ReadValues ==
  ASSUME NEW X, NEW s \in Seq(X), NEW key
  PROVE  /\ Values(Ipc(s), key) = Read(s, key)
         /\ key # "allowed_ip" => Read(s, key) = Values(s, key)
<1>1. DOMAIN s = 1..Len(s) /\ DOMAIN Ipc(s) = 1..Len(s)
  BY DEF Ipc
<1>2. \A k \in 1..Len(s) : Ipc(s)[k].key = s[k].key /\ Ipc(s)[k].value = Reread(s[k]).value
  BY RereadParts DEF Ipc
<1>3. Values(Ipc(s), key) = Read(s, key)
  BY <1>1, <1>2 DEF Values, Read
<1>4. key # "allowed_ip" => \A k \in 1..Len(s) : s[k].key = key => Reread(s[k]).value = s[k].value
  BY RereadParts
<1>5. key # "allowed_ip" => Read(s, key) = Values(s, key)
  BY <1>1, <1>4 DEF Values, Read
<1>6. QED
  BY <1>3, <1>5

\* What a reply says of the device, and whose peers it has.
LEMMA HeadRead ==
  ASSUME NEW s, NEW head, NEW q, NEW off, NEW P, Replied(s, head, q, off, P)
  PROVE  /\ Read(s, "public_key") = {P[i] : i \in 1..Len(q)}
         /\ \A key \in {"private_key", "listen_port"} : Read(s, key) = Read(head, key)
<1>1. /\ Len(s) \in Nat /\ Len(head) \in Nat /\ Layout(s, head, q, off)
      /\ \A i \in 1..Len(q) : q[i][1] = KV("public_key", P[i])
                              /\ \A j \in 1..Len(q[i]) : j # 1 => q[i][j] \in PeerRest
  BY DEF Replied
<1>2. /\ \A i \in 1..Len(q) : off[i] + 1 \in 1..Len(s) /\ s[off[i] + 1] = KV("public_key", P[i])
      /\ \A k \in 1..Len(s) : s[k].key = "public_key" => \E i \in 1..Len(q) : k = off[i] + 1
  BY PublicAt
<1>3. \A i \in 1..Len(q) : s[off[i] + 1].key = "public_key" /\ Reread(s[off[i] + 1]).value = P[i]
  <2> SUFFICES ASSUME NEW i \in 1..Len(q)
               PROVE  s[off[i] + 1].key = "public_key" /\ Reread(s[off[i] + 1]).value = P[i]
    OBVIOUS
  <2> DEFINE l == s[off[i] + 1]
  <2>1. l = KV("public_key", P[i])
    BY <1>2
  <2> HIDE DEF l
  <2>2. l.key = "public_key" /\ l.value = P[i]
    BY <2>1, KVParts
  <2>3. Reread(l).value = P[i]
    BY <2>2, RereadParts
  <2>4. QED
    BY <2>2, <2>3 DEF l
<1>4. Read(s, "public_key") = {P[i] : i \in 1..Len(q)}
  <2>1. ASSUME NEW x \in Read(s, "public_key") PROVE x \in {P[i] : i \in 1..Len(q)}
    <3>1. PICK k \in 1..Len(s) : s[k].key = "public_key" /\ x = Reread(s[k]).value
      BY <2>1 DEF Read
    <3>2. QED
      BY <1>2, <1>3, <3>1
  <2>2. ASSUME NEW i \in 1..Len(q) PROVE P[i] \in Read(s, "public_key")
    BY <1>2, <1>3 DEF Read
  <2>3. QED
    BY <2>1, <2>2
<1>5. ASSUME NEW key \in {"private_key", "listen_port"} PROVE Read(s, key) = Read(head, key)
  <2>1. \A k \in 1..Len(head) : k \in 1..Len(s) /\ s[k] = head[k]
    BY <1>1 DEF Layout
  <2>2. ASSUME NEW k \in 1..Len(s), s[k].key = key PROVE k \in 1..Len(head)
    <3>1. ASSUME NEW i \in 1..Len(q), k - off[i] \in 1..Len(q[i]) PROVE FALSE
      <4> DEFINE j == k - off[i]
      <4>1. off[i] \in Nat /\ s[off[i] + j] = q[i][j] /\ j \in 1..Len(q[i]) /\ k = off[i] + j
        BY <1>1, <3>1 DEF Layout
      <4> HIDE DEF j
      <4>2. CASE j = 1
        BY <1>3, <2>2, <4>1, <4>2
      <4>3. CASE j # 1
        <5>1. s[k] \in PeerRest
          BY <1>1, <4>1, <4>3
        <5>2. QED
          BY <2>2, <5>1, ReplyKeys
      <4>4. QED
        BY <4>2, <4>3
    <3>2. s[k] \notin EndLines
      BY <2>2, ReplyKeys
    <3>3. QED
      BY <1>1, <3>1, <3>2 DEF Layout
  <2>3. QED
    BY <2>1, <2>2 DEF Read
<1>6. QED
  BY <1>4, <1>5

\* SubSeq, by the places of its elements.
LEMMA PartOf ==
  ASSUME NEW X, NEW s \in Seq(X), NEW a \in 1..Len(s), NEW e \in 1..Len(s)
  PROVE  SubSeq(s, a, e) = [k \in 1..(e - a + 1) |-> s[k + a - 1]]
OBVIOUS

\* The lines of a peer, which is the i-th of the reply.
BlockOf(i, p, b, P, q) == i \in 1..Len(q) /\ p = P[i] /\ b = q[i]

\* What is read of a peer is what its lines say.
LEMMA PeerRead ==
  ASSUME NEW s, NEW head, NEW q, NEW off, NEW P, NEW i, NEW p, NEW b, NEW key,
         Replied(s, head, q, off, P), BlockOf(i, p, b, P, q), key # "errno"
  PROVE  Values(OfPeer(Ipc(s), p), key) = Read(b, key)
<1> DEFINE t == Ipc(s)
           first == off[i] + 1
           m == off[i] + Len(q[i])
           e == PeerEnd(t, first)
           o == OfPeer(t, P[i])
<1>1. i \in 1..Len(q) /\ p = P[i] /\ b = q[i]
  BY DEF BlockOf
<1>2. Len(s) \in Nat /\ s \in Seq(Reply) /\ Len(q[i]) \in Nat /\ Len(q[i]) >= 1
  BY <1>1 DEF Replied
<1>3. DOMAIN t = 1..Len(s) /\ Len(t) = Len(s) /\ \A k \in 1..Len(s) : t[k] = Reread(s[k])
  BY <1>2 DEF Ipc
<1>4. \A k \in 1..Len(s) : t[k].key = s[k].key /\ (s[k].key = "public_key" => t[k].value = s[k].value)
  BY <1>3, RereadParts
<1> HIDE DEF t
<1>5. /\ PeerAt(t, P[i]) = first /\ e \in 1..Len(s) /\ m <= e
      /\ \A k \in (m + 1)..e : s[k] \in EndLines
  BY <1>1, <1>3, <1>4, PeerRange
<1>6. off[i] \in Nat /\ m <= Len(s) /\ \A j \in 1..Len(q[i]) : s[off[i] + j] = q[i][j]
  BY <1>1 DEF Replied, Layout
<1>7. o = SubSeq(t, first, e)
  <2>1. o = SubSeq(t, PeerAt(t, P[i]), PeerEnd(t, PeerAt(t, P[i])))
    BY Zenon DEF OfPeer, PeerAt, PeerEnd, NextPeers
  <2>2. QED
    BY <1>5, <2>1
<1>8. t \in Seq({Reread(s[k]) : k \in 1..Len(s)})
  <2> DEFINE Y == {Reread(s[k]) : k \in 1..Len(s)}
  <2>1. \A k \in 1..Len(s) : Reread(s[k]) \in Y
    OBVIOUS
  <2> HIDE DEF Y
  <2>2. t \in Seq(Y)
    BY <1>2, <2>1 DEF t, Ipc
  <2>3. QED
    BY <2>2 DEF Y
<1> HIDE DEF e
<1>9. DOMAIN o = 1..(e - off[i]) /\ \A k \in 1..(e - off[i]) : o[k] = t[off[i] + k]
  <2>1. first \in 1..Len(t) /\ e \in 1..Len(t) /\ off[i] <= e
    BY <1>2, <1>3, <1>5, <1>6
  <2>2. o = [k \in 1..(e - first + 1) |-> t[k + first - 1]]
    <3> DEFINE a == first
    <3>1. o = SubSeq(t, a, e) /\ t \in Seq({Reread(s[k]) : k \in 1..Len(s)}) /\ a \in 1..Len(t) /\ e \in 1..Len(t)
      BY <1>7, <1>8, <2>1
    <3> HIDE DEF a, o
    <3>2. o = [k \in 1..(e - a + 1) |-> t[k + a - 1]]
      BY <3>1, PartOf
    <3>3. QED
      BY <3>2 DEF a
  <2>3. e - first + 1 = e - off[i] /\ \A k \in 1..(e - off[i]) : k + first - 1 = off[i] + k
    <3>1. e \in Nat /\ off[i] \in Nat
      BY <1>2, <1>5, <1>6
    <3>2. QED
      BY <3>1
  <2> DEFINE c == e - first + 1
  <2> HIDE DEF o
  <2>4. DOMAIN o = 1..c /\ \A k \in 1..c : o[k] = t[k + first - 1]
    <3> HIDE DEF c, first
    <3>1. o = [k \in 1..c |-> t[k + first - 1]]
      BY <2>2 DEF c
    <3>2. QED
      BY <3>1
  <2> HIDE DEF first
  <2>5. QED
    BY <2>3, <2>4
<1> HIDE DEF o
<1>10. ASSUME NEW x \in Values(o, key) PROVE x \in Read(q[i], key)
  <2>1. PICK k \in 1..(e - off[i]) : o[k].key = key /\ o[k].value = x
    BY <1>9 DEF Values
  <2>2. off[i] + k \in 1..Len(s) /\ off[i] + k \in 1..e
    BY <1>2, <1>5, <1>6
  <2>3. o[k] = Reread(s[off[i] + k]) /\ s[off[i] + k].key = key
    BY <1>3, <1>4, <1>9, <2>1, <2>2
  <2>4. s[off[i] + k] \notin EndLines
    BY <2>3, ReplyKeys
  <2>5. k \in 1..Len(q[i])
    <3>1. off[i] + k \notin (m + 1)..e
      BY <1>5, <2>4
    <3>2. QED
      BY <1>2, <1>5, <1>6, <2>2, <3>1
  <2>6. QED
    BY <1>6, <2>1, <2>3, <2>5 DEF Read
<1>11. ASSUME NEW x \in Read(q[i], key) PROVE x \in Values(o, key)
  <2>1. PICK j \in 1..Len(q[i]) : q[i][j].key = key /\ x = Reread(q[i][j]).value
    BY <1>11 DEF Read
  <2>2. j \in 1..(e - off[i]) /\ off[i] + j \in 1..Len(s)
    BY <1>2, <1>5, <1>6
  <2>3. o[j] = Reread(q[i][j]) /\ o[j].key = key
    BY <1>3, <1>6, <1>9, <2>1, <2>2, RereadParts
  <2>4. QED
    BY <1>9, <2>1, <2>2, <2>3 DEF Values
<1>12. QED
  <2>1. Values(o, key) = Read(q[i], key)
    BY <1>10, <1>11
  <2>2. o = OfPeer(Ipc(s), p)
    BY <1>1 DEF o, t
  <2>3. QED
    BY <1>1, <2>1, <2>2

\* What a reply begins with, and the lines of its peers.
HeadOf(d) == Some("private_key", NonZero(d.private, PrivateKey(0))) \o Some("listen_port", NonZero(d.port, 0))
Blocks(d, peers, count) == [i \in DOMAIN peers |-> PeerLines(d, peers[i], count[peers[i]])]

\* A value that is not shown when it is zero.
LEMMA NonZeroValues ==
  ASSUME NEW S, NEW v \in S, NEW zero
  PROVE  NonZero(v, zero) \in Seq(S) /\ ToSet(NonZero(v, zero)) = {v} \ {zero}
<1>1. CASE v = zero
  <2>1. NonZero(v, zero) = <<>>
    BY <1>1 DEF NonZero
  <2>2. <<>> \in Seq(S) /\ ToSet(<<>>) = {}
    BY DEF ToSet
  <2>3. QED
    BY <1>1, <2>1, <2>2
<1>2. CASE v # zero
  <2>1. NonZero(v, zero) = <<v>>
    BY <1>2 DEF NonZero
  <2>2. <<v>> \in Seq(S) /\ ToSet(<<v>>) = {v}
    BY DEF ToSet
  <2>3. QED
    BY <1>2, <2>1, <2>2
<1>3. QED
  BY <1>1, <1>2

\* What precedes the peers says the private key and the port of the device, unless they are zero.
LEMMA HeadValues ==
  ASSUME NEW d, Sound(d)
  PROVE  /\ HeadOf(d) \in Seq(HeadLines)
         /\ Values(HeadOf(d), "private_key") = {d.private} \ {PrivateKey(0)}
         /\ Values(HeadOf(d), "listen_port") = {d.port} \ {0}
<1> DEFINE x == NonZero(d.private, PrivateKey(0))
           y == NonZero(d.port, 0)
           a == Some("private_key", x)
           b == Some("listen_port", y)
<1>1. x \in Seq(PrivateKeys) /\ ToSet(x) = {d.private} \ {PrivateKey(0)}
  BY NonZeroValues DEF Sound
<1>2. y \in Seq(Uint16) /\ ToSet(y) = {d.port} \ {0}
  BY NonZeroValues DEF Sound
<1> HIDE DEF x, y
<1>3. /\ a \in Seq(Lined("private_key", PrivateKeys)) /\ Values(a, "private_key") = ToSet(x)
      /\ Values(a, "listen_port") = {}
  BY <1>1, ValuesSome
<1>4. /\ b \in Seq(Lined("listen_port", Uint16)) /\ Values(b, "listen_port") = ToSet(y)
      /\ Values(b, "private_key") = {}
  BY <1>2, ValuesSome
<1>5. HeadOf(d) = a \o b
  BY DEF HeadOf, x, y
<1> HIDE DEF a, b
<1>6. a \in Seq(HeadLines) /\ b \in Seq(HeadLines)
  <2>1. Lined("private_key", PrivateKeys) \subseteq HeadLines /\ Lined("listen_port", Uint16) \subseteq HeadLines
    BY DEF HeadLines
  <2>2. QED
    BY <1>3, <1>4, <2>1
<1>7. HeadOf(d) \in Seq(HeadLines) /\ \A key : Values(HeadOf(d), key) = Values(a, key) \cup Values(b, key)
  BY <1>5, <1>6, ValuesJoin
<1>8. QED
  BY <1>1, <1>2, <1>3, <1>4, <1>7

\* What ends a reply that comes over a socket.
Ends == {<<>>, <<KV("errno", 0), Blank>>}

\* The lines of a reply before what ends it.
LEMMA LinesOfReply ==
  ASSUME NEW head, NEW q, NEW off, NEW s \in Seq(Reply), Layout(s, head, q, off),
         NEW end \in Ends,
         \A i \in 1..Len(q) : Len(q[i]) \in Nat
  PROVE  /\ Lines(s \o end) \in Seq(Reply) /\ Layout(Lines(s \o end), head, q, off)
         /\ Before(s \o end, Lines(s \o end))
<1> DEFINE X == Reply
           e == KV("errno", 0)
           t == Lines(s \o end)
<1>1. \A l \in X : ~IsBlank(l)
  <2> SUFFICES ASSUME NEW l \in Reply PROVE ~IsBlank(l)
    OBVIOUS
  <2>1. Readable(l)
    BY ReplyLine
  <2>2. QED
    BY <2>1, Zenon DEF Readable, IsBlank
<1>2. e \in X /\ e \in EndLines
  BY DEF Reply, EndLines, Lined
<1> HIDE DEF X
<1>3. s \in Seq(X)
  BY DEF X
<1>4. CASE end = <<>>
  <2>1. t = s /\ Before(s \o end, t)
    BY <1>1, <1>3, <1>4, AllLines
  <2>2. QED
    BY <1>3, <2>1 DEF X
<1>5. CASE end # <<>>
  <2>1. end = <<e, Blank>>
    BY <1>5 DEF Ends
  <2> HIDE DEF e
  <2>2. /\ t \in Seq(X) /\ Len(t) = Len(s) + 1 /\ t[Len(s) + 1] = e /\ \A i \in 1..Len(s) : t[i] = s[i]
        /\ Before(s \o end, t)
    <3> DEFINE u == Lines(s \o <<e, Blank>>)
    <3>1. e \in X
      BY <1>2
    <3>2. /\ u \in Seq(X) /\ Len(u) = Len(s) + 1 /\ u[Len(s) + 1] = e /\ \A i \in 1..Len(s) : u[i] = s[i]
          /\ Before(s \o <<e, Blank>>, u)
      BY <1>1, <1>3, <3>1, LinesBeforeBlank
    <3>3. t = u
      BY <2>1
    <3>4. s \o end = s \o <<e, Blank>>
      BY <2>1
    <3> HIDE DEF t, u
    <3>5. QED
      BY <3>2, <3>3, <3>4
  <2> HIDE DEF t
  <2>3. Len(s) \in Nat /\ Len(t) \in Nat
    BY <1>3, <2>2
  <2>4. \A k \in 1..Len(s) : k \in 1..Len(t) /\ t[k] = s[k]
    BY <2>2, <2>3
  <2>5. \A k \in 1..Len(t) : k \in 1..Len(s) \/ k = Len(s) + 1
    BY <2>2, <2>3
  <2>6. \A k \in 1..Len(head) : k \in 1..Len(t) /\ t[k] = head[k]
    BY <2>4 DEF Layout
  <2>7. ASSUME NEW i \in 1..Len(q)
        PROVE  /\ off[i] \in Nat /\ Len(head) <= off[i] /\ off[i] + Len(q[i]) <= Len(t)
               /\ \A j \in 1..Len(q[i]) : t[off[i] + j] = q[i][j]
    <3>1. /\ off[i] \in Nat /\ Len(head) <= off[i] /\ off[i] + Len(q[i]) <= Len(s)
          /\ \A j \in 1..Len(q[i]) : s[off[i] + j] = q[i][j]
      BY DEF Layout
    <3>2. off[i] + Len(q[i]) <= Len(t)
      BY <2>2, <2>3, <3>1
    <3>3. ASSUME NEW j \in 1..Len(q[i]) PROVE t[off[i] + j] = q[i][j]
      <4>1. Len(q[i]) \in Nat
        OBVIOUS
      <4>2. off[i] + j \in 1..Len(s)
        BY <2>3, <3>1, <4>1
      <4>3. QED
        BY <2>2, <3>1, <4>2
    <3>4. QED
      BY <3>1, <3>2, <3>3
  <2>8. ASSUME NEW k \in 1..Len(t)
        PROVE  \/ k \in 1..Len(head)
               \/ \E i \in 1..Len(q) : k - off[i] \in 1..Len(q[i])
               \/ t[k] \in EndLines
    <3>1. CASE k \in 1..Len(s)
      BY <2>4, <3>1 DEF Layout
    <3>2. CASE k = Len(s) + 1
      BY <1>2, <2>2, <3>2
    <3>3. QED
      BY <2>5, <3>1, <3>2
  <2>9. \A i, j \in 1..Len(q) : i < j => off[i] + Len(q[i]) <= off[j]
    BY DEF Layout
  <2>10. Layout(t, head, q, off)
    BY <2>6, <2>7, <2>8, <2>9 DEF Layout
  <2>11. QED
    BY <2>2, <2>10 DEF X, t
<1>6. QED
  BY <1>4, <1>5 DEF X

\* A reply is that of the device's peers, in some order.
LEMMA ReplyOf ==
  ASSUME NEW d, Sound(d), NEW peers \in SetToSeqs(DOMAIN d.peers), NEW end \in Ends,
         NEW count \in [DOMAIN d.peers -> Counters]
  PROVE  LET reply == IpcGet(d, peers, count) \o end
         IN  /\ \E off : Replied(Lines(reply), HeadOf(d), Blocks(d, peers, count), off, peers)
             /\ Before(reply, Lines(reply))
<1> DEFINE X == HeadLines \cup PublicLines \cup PeerRest
           B == PublicLines \cup PeerRest
           q == Blocks(d, peers, count)
           head == HeadOf(d)
           s == IpcGet(d, peers, count)
<1>1. /\ peers \in Seq(DOMAIN d.peers) /\ DOMAIN peers = 1..Len(peers)
      /\ \A i, j \in 1..Len(peers) : peers[i] = peers[j] => i = j
  <2>1. IsFiniteSet(DOMAIN d.peers)
    BY DEF Sound
  <2>2. QED
    BY <2>1, SetToSeqsOf
<1>2. Len(peers) \in Nat /\ \A i \in 1..Len(peers) : peers[i] \in DOMAIN d.peers
  BY <1>1
<1>3. q = [i \in 1..Len(peers) |-> PeerLines(d, peers[i], count[peers[i]])]
  BY <1>1 DEF Blocks
<1>4. ASSUME NEW i \in 1..Len(peers)
      PROVE  LET b == PeerLines(d, peers[i], count[peers[i]])
             IN  /\ b \in Seq(B) /\ Len(b) >= 1 /\ b[1] = KV("public_key", peers[i])
                 /\ \A j \in 1..Len(b) : j # 1 => b[j] \in PeerRest
  <2>1. peers[i] \in DOMAIN d.peers /\ count[peers[i]] \in Counters
    BY <1>2
  <2>2. QED
    BY <2>1, PeerBlock
<1>5. /\ DOMAIN q = 1..Len(peers) /\ Len(q) = Len(peers)
      /\ \A i \in 1..Len(q) : /\ q[i] \in Seq(B) /\ Len(q[i]) >= 1 /\ q[i][1] = KV("public_key", peers[i])
                              /\ \A j \in 1..Len(q[i]) : j # 1 => q[i][j] \in PeerRest
  BY <1>2, <1>3, <1>4
<1> HIDE DEF q
<1>6. B \subseteq X /\ HeadLines \subseteq X /\ X \subseteq Reply
  BY DEF Reply
<1>7. head \in Seq(HeadLines)
  BY HeadValues
<1> HIDE DEF B, X, head
<1>8. \A i \in 1..Len(q) : q[i] \in Seq(X) /\ Len(q[i]) \in Nat
  BY <1>5, <1>6
<1>9. head \in Seq(X) /\ q \in Seq(Seq(X))
  <2>1. head \in Seq(X)
    BY <1>6, <1>7
  <2>2. q = [i \in 1..Len(peers) |-> q[i]]
    BY <1>3, <1>5
  <2>3. QED
    BY <1>2, <1>5, <1>8, <2>1, <2>2
<1>10. s = head \o FlattenSeq(q)
  BY DEF IpcGet, HeadOf, Blocks, head, q
<1> HIDE DEF s
<1>11. s \in Seq(X) /\ \E off : Layout(s, head, q, off)
  BY <1>9, <1>10, HeadAndBlocks
<1>12. PICK off : Layout(s, head, q, off)
  BY <1>11
<1>13. s \in Seq(Reply)
  BY <1>6, <1>11
<1>14. /\ Lines(s \o end) \in Seq(Reply) /\ Layout(Lines(s \o end), head, q, off)
       /\ Before(s \o end, Lines(s \o end))
  BY <1>8, <1>12, <1>13, LinesOfReply
<1>15. Replied(Lines(s \o end), head, q, off, peers)
  BY <1>1, <1>2, <1>5, <1>7, <1>8, <1>14 DEF Replied
<1>16. QED
  BY <1>14, <1>15 DEF s, head, q

\* IPCGet.Value on lines that are read.
LEMMA ValueOf ==
  ASSUME NEW buf, Lines(buf) \in Seq(Reply)
  PROVE  Value(buf) = {Ipc(Lines(buf))}
<1> DEFINE s == Lines(buf)
           read(i) == KV(s[i].key, CHOOSE v \in Parse(s[i]) : TRUE)
<1>1. DOMAIN s = 1..Len(s) /\ \A i \in 1..Len(s) : s[i] \in Reply
  OBVIOUS
<1>2. Value(buf) = IF \E i \in DOMAIN s : Parse(s[i]) = {} THEN {} ELSE {[i \in DOMAIN s |-> read(i)]}
  BY DEF Value
<1> HIDE DEF s
<1>3. ASSUME NEW i \in 1..Len(s) PROVE Parse(s[i]) # {} /\ read(i) = Reread(s[i])
  <2> DEFINE l == s[i]
             v == Reread(l).value
  <2>1. Parse(l) = {v}
    BY <1>1, ReplyLine DEF Readable
  <2>2. Reread(l) = KV(l.key, v)
    BY KVParts DEF Reread
  <2> HIDE DEF v, l
  <2>3. (CHOOSE x \in Parse(l) : TRUE) = v
    BY <2>1
  <2>4. QED
    BY <2>1, <2>2, <2>3 DEF l
<1>4. Ipc(s) = [i \in DOMAIN s |-> read(i)]
  BY <1>1, <1>3 DEF Ipc
<1>5. ~ \E i \in DOMAIN s : Parse(s[i]) = {}
  BY <1>1, <1>3
<1> HIDE DEF read
<1>6. QED
  BY <1>2, <1>4, <1>5 DEF s

\* Written again, what was read is the reply, but for large counters.
LEMMA WrittenAgain ==
  ASSUME NEW s \in Seq(Reply), NEW reply, Before(reply, s)
  PROVE  /\ DOMAIN Ipc(s) = {i \in DOMAIN reply : reply[i].key # ""}
         /\ \A i \in DOMAIN Ipc(s) : WGConfig(Ipc(s))[i] = reply[i] \/ Large(reply[i])
<1>1. DOMAIN Ipc(s) = 1..Len(s)
  BY DEF Ipc
<1>2. ASSUME NEW i \in 1..Len(s) PROVE WGConfig(Ipc(s))[i] = reply[i] \/ Large(reply[i])
  <2>1. Ipc(s)[i] = Reread(s[i]) /\ Ipc(s)[i].key = s[i].key
    BY RereadParts DEF Ipc
  <2>2. s[i] \in Reply
    OBVIOUS
  <2>3. Again(s[i])
    BY <2>2, ReplyLine
  <2>4. WGConfig(Ipc(s))[i] = KV(Ipc(s)[i].key, String(Ipc(s)[i]))
    BY <1>1 DEF WGConfig
  <2>5. reply[i] = s[i]
    BY DEF Before
  <2>6. WGConfig(Ipc(s))[i] = KV(s[i].key, String(Reread(s[i])))
    BY <2>1, <2>4
  <2>7. QED
    BY <2>3, <2>5, <2>6, Zenon DEF Again
<1>3. QED
  BY <1>1, <1>2 DEF Before

\* ReadBack, of one result.
ReadsBack(ipcs, d, count, reply) == \E ipc0 \in ipcs :
  /\ Values(ipc0, "private_key") = {d.private} \ {PrivateKey(0)}
  /\ Values(ipc0, "listen_port") = {d.port} \ {0}
  /\ Values(ipc0, "public_key") = DOMAIN d.peers
  /\ \A p \in DOMAIN d.peers :
         LET ipc == OfPeer(ipc0, p)
         IN  /\ Values(ipc, "preshared_key") = {d.peers[p].preshared}
             /\ Values(ipc, "protocol_version") = {1}
             /\ Values(ipc, "endpoint") = ToSet(d.peers[p].endpoint)
             /\ Values(ipc, "last_handshake_time_sec") = {count[p].sec}
             /\ Values(ipc, "last_handshake_time_nsec") = {count[p].nsec}
             /\ Values(ipc, "tx_bytes") = {count[p].tx}
             /\ Values(ipc, "rx_bytes") = {count[p].rx}
             /\ Values(ipc, "persistent_keepalive_interval") = {d.peers[p].keepalive}
             /\ {IPNetString(a) : a \in Values(ipc, "allowed_ip")}
                    = {r \in DOMAIN d.routes : d.routes[r] = p}
  /\ DOMAIN ipc0 = {i \in DOMAIN reply : reply[i].key # ""}
  /\ \A i \in DOMAIN ipc0 : WGConfig(ipc0)[i] = reply[i] \/ Large(reply[i])

\* The addresses that are read are shown as those that were written.
LEMMA NetsRead ==
  ASSUME NEW X, NEW s \in Seq(X), Values(s, "allowed_ip") \subseteq Nets
  PROVE  {IPNetString(a) : a \in Read(s, "allowed_ip")} = Values(s, "allowed_ip")
<1>1. DOMAIN s = 1..Len(s)
  OBVIOUS
<1>2. ASSUME NEW k \in 1..Len(s), s[k].key = "allowed_ip"
      PROVE  s[k].value \in Values(s, "allowed_ip") /\ IPNetString(Reread(s[k]).value) = s[k].value
  <2>1. s[k].value \in Values(s, "allowed_ip")
    BY <1>1, <1>2 DEF Values
  <2>2. s[k].value \in Nets
    BY <2>1
  <2>3. Reread(s[k]).value = ParseIPNet(s[k].value)
    BY <1>2, RereadParts
  <2>4. QED
    BY <2>1, <2>2, <2>3, NetAgain
<1>3. Values(s, "allowed_ip") = {s[k].value : k \in {j \in 1..Len(s) : s[j].key = "allowed_ip"}}
  BY <1>1 DEF Values
<1>4. QED
  BY <1>2, <1>3 DEF Read

\* What is read of the lines of a peer.
LEMMA BlockRead ==
  ASSUME NEW d, Sound(d), NEW p \in DOMAIN d.peers, NEW c \in Counters
  PROVE  LET b == PeerLines(d, p, c)
         IN  /\ Read(b, "preshared_key") = {d.peers[p].preshared}
             /\ Read(b, "endpoint") = ToSet(d.peers[p].endpoint)
             /\ Read(b, "persistent_keepalive_interval") = {d.peers[p].keepalive}
             /\ Read(b, "protocol_version") = {1}
             /\ Read(b, "last_handshake_time_sec") = {c.sec}
             /\ Read(b, "last_handshake_time_nsec") = {c.nsec}
             /\ Read(b, "tx_bytes") = {c.tx}
             /\ Read(b, "rx_bytes") = {c.rx}
             /\ {IPNetString(a) : a \in Read(b, "allowed_ip")} = {r \in DOMAIN d.routes : d.routes[r] = p}
<1> DEFINE b == PeerLines(d, p, c)
           X == PublicLines \cup PeerRest
           R == {r \in DOMAIN d.routes : d.routes[r] = p}
<1>1. b \in Seq(X) /\ SaysPeer(b, d, p, c)
  BY PeerBlock
<1>2. R \subseteq Nets
  BY DEF Sound
<1> HIDE DEF b, X
<1>3. \A key : key # "allowed_ip" => Read(b, key) = Values(b, key)
  BY <1>1, ReadValues
<1>4. Values(b, "allowed_ip") = R
  BY <1>1 DEF SaysPeer
<1>5. {IPNetString(a) : a \in Read(b, "allowed_ip")} = Values(b, "allowed_ip")
  BY <1>1, <1>2, <1>4, NetsRead
<1>6. /\ Read(b, "preshared_key") = {d.peers[p].preshared}
      /\ Read(b, "endpoint") = ToSet(d.peers[p].endpoint)
      /\ Read(b, "persistent_keepalive_interval") = {d.peers[p].keepalive}
      /\ Read(b, "protocol_version") = {1}
      /\ Read(b, "last_handshake_time_sec") = {c.sec}
      /\ Read(b, "last_handshake_time_nsec") = {c.nsec}
      /\ Read(b, "tx_bytes") = {c.tx}
      /\ Read(b, "rx_bytes") = {c.rx}
  BY <1>1, <1>3 DEF SaysPeer
<1>7. QED
  BY <1>4, <1>5, <1>6 DEF b

\* A reply about a device of configurations of WgApi is read back as the device.
LEMMA ReplyReadBack ==
  ASSUME NEW d, Sound(d), NEW peers \in SetToSeqs(DOMAIN d.peers), NEW end \in Ends,
         NEW count \in [DOMAIN d.peers -> Counters]
  PROVE  LET reply == IpcGet(d, peers, count) \o end
         IN  ReadsBack(Value(reply), d, count, reply)
<1> DEFINE buf == IpcGet(d, peers, count) \o end
           s == Lines(buf)
           head == HeadOf(d)
           q == Blocks(d, peers, count)
           ipc0 == Ipc(s)
<1>0. Before(buf, s) /\ \E off : Replied(s, head, q, off, peers)
  BY ReplyOf
<1>1. PICK off : Replied(s, head, q, off, peers)
  BY <1>0
<1>2. /\ DOMAIN peers = 1..Len(peers) /\ Len(peers) \in Nat
      /\ \A i \in 1..Len(peers) : peers[i] \in DOMAIN d.peers
      /\ \A x \in DOMAIN d.peers : \E i \in 1..Len(peers) : peers[i] = x
  <2>1. IsFiniteSet(DOMAIN d.peers)
    BY DEF Sound
  <2>2. peers \in Seq(DOMAIN d.peers) /\ DOMAIN peers = 1..Len(peers)
        /\ \A x \in DOMAIN d.peers : \E i \in 1..Len(peers) : peers[i] = x
    BY <2>1, SetToSeqsOf
  <2>3. QED
    BY <2>2
<1>3. Len(q) = Len(peers) /\ \A i \in 1..Len(peers) : q[i] = PeerLines(d, peers[i], count[peers[i]])
  BY <1>2 DEF Blocks
<1>4. s \in Seq(Reply) /\ head \in Seq(HeadLines)
  BY <1>1 DEF Replied
<1>5. Value(buf) = {ipc0}
  <2> HIDE DEF buf
  <2>1. QED
    BY <1>4, ValueOf
<1> HIDE DEF buf, s, head, q
<1>6. \A key : Values(ipc0, key) = Read(s, key)
  BY <1>4, ReadValues
<1>7. /\ Values(head, "private_key") = {d.private} \ {PrivateKey(0)}
      /\ Values(head, "listen_port") = {d.port} \ {0}
  BY HeadValues DEF head
<1>8. \A key \in {"private_key", "listen_port"} : Read(head, key) = Values(head, key)
  <2>1. \A key : key # "allowed_ip" => Read(head, key) = Values(head, key)
    BY <1>4, ReadValues
  <2>2. QED
    BY <2>1
<1>9. /\ Read(s, "public_key") = {peers[i] : i \in 1..Len(q)}
      /\ \A key \in {"private_key", "listen_port"} : Read(s, key) = Read(head, key)
  BY <1>1, HeadRead
<1>10. Values(ipc0, "public_key") = DOMAIN d.peers
  <2>1. {peers[i] : i \in 1..Len(q)} = DOMAIN d.peers
    BY <1>2, <1>3
  <2>2. Values(ipc0, "public_key") = Read(s, "public_key")
    BY <1>6
  <2>3. QED
    BY <1>9, <2>1, <2>2
<1>11. /\ Values(ipc0, "private_key") = {d.private} \ {PrivateKey(0)}
       /\ Values(ipc0, "listen_port") = {d.port} \ {0}
  BY <1>6, <1>7, <1>8, <1>9
<1>12. ASSUME NEW p \in DOMAIN d.peers
       PROVE  LET ipc == OfPeer(ipc0, p)
              IN  /\ Values(ipc, "preshared_key") = {d.peers[p].preshared}
                  /\ Values(ipc, "endpoint") = ToSet(d.peers[p].endpoint)
                  /\ Values(ipc, "persistent_keepalive_interval") = {d.peers[p].keepalive}
                  /\ Values(ipc, "protocol_version") = {1}
                  /\ Values(ipc, "last_handshake_time_sec") = {count[p].sec}
                  /\ Values(ipc, "last_handshake_time_nsec") = {count[p].nsec}
                  /\ Values(ipc, "tx_bytes") = {count[p].tx}
                  /\ Values(ipc, "rx_bytes") = {count[p].rx}
                  /\ {IPNetString(a) : a \in Values(ipc, "allowed_ip")}
                         = {r \in DOMAIN d.routes : d.routes[r] = p}
  <2>1. PICK i \in 1..Len(q) : peers[i] = p
    BY <1>2, <1>3
  <2> DEFINE c == count[p]
             b == PeerLines(d, p, c)
  <2>2. q[i] = b
    BY <1>3, <2>1
  <2> HIDE DEF ipc0, b
  <2>3. \A key : key # "errno" => Values(OfPeer(ipc0, p), key) = Read(b, key)
    <3> SUFFICES ASSUME NEW key, key # "errno" PROVE Values(OfPeer(ipc0, p), key) = Read(b, key)
      OBVIOUS
    <3>1. BlockOf(i, p, b, peers, q)
      BY <2>1, <2>2 DEF BlockOf
    <3>2. Values(OfPeer(Ipc(s), p), key) = Read(b, key)
      BY <1>1, <3>1, PeerRead
    <3>3. QED
      BY <3>2 DEF ipc0
  <2>4. /\ Read(b, "preshared_key") = {d.peers[p].preshared}
        /\ Read(b, "endpoint") = ToSet(d.peers[p].endpoint)
        /\ Read(b, "persistent_keepalive_interval") = {d.peers[p].keepalive}
        /\ Read(b, "protocol_version") = {1}
        /\ Read(b, "last_handshake_time_sec") = {c.sec}
        /\ Read(b, "last_handshake_time_nsec") = {c.nsec}
        /\ Read(b, "tx_bytes") = {c.tx}
        /\ Read(b, "rx_bytes") = {c.rx}
        /\ {IPNetString(a) : a \in Read(b, "allowed_ip")} = {r \in DOMAIN d.routes : d.routes[r] = p}
    <3>1. c \in Counters
      OBVIOUS
    <3> HIDE DEF c
    <3>2. QED
      BY <3>1, BlockRead DEF b
  <2>5. QED
    BY <2>3, <2>4
<1>13. /\ DOMAIN ipc0 = {i \in DOMAIN buf : buf[i].key # ""}
       /\ \A i \in DOMAIN ipc0 : WGConfig(ipc0)[i] = buf[i] \/ Large(buf[i])
  BY <1>0, <1>4, WrittenAgain
<1> HIDE DEF ipc0
<1>14. ReadsBack({ipc0}, d, count, buf)
  BY <1>10, <1>11, <1>12, <1>13 DEF ReadsBack
<1>15. QED
  BY <1>5, <1>14 DEF buf

-----------------------------------------------------------------------------
(* The devices that configurations of WgApi make.                          *)
\* The lines of the configurations of WgApi.
ConfigLines ==
  Lined("private_key", PrivateKeys) \cup Lined("listen_port", Uint16) \cup Lined("replace_peers", {TRUE})
    \cup Lined("public_key", PublicKeys) \cup Lined("preshared_key", PresharedKeys)
    \cup Lined("endpoint", Endpoints) \cup Lined("persistent_keepalive_interval", Uint16)
    \cup Lined("allowed_ip", Nets)

\* The lines of a peer follow its public key.
Current(d) == d.current = <<>> \/ \E p \in DOMAIN d.peers : d.current = <<p>>

\* A device that read such lines only, and reads more of them.
SoundInv ==
  /\ \A s \in Servers : s.port \in Uint16
  /\ \A h \in Hosts : Sound(dev[h]) /\ Current(dev[h]) /\ text[h] \in Seq(ConfigLines)

\* Without a public key before it, a line of a peer is refused.
LEMMA NoPeer ==
  ASSUME NEW d, d.current = <<>>, NEW key \in PeerKeys, NEW v
  PROVE  Apply(d, KV(key, v)) = {}
<1>1. KV(key, v).key = key
  BY KVParts
<1>2. /\ key \notin DeviceKeys /\ key # "public_key"
      /\ key \notin {"preshared_key", "endpoint", "persistent_keepalive_interval"} => key = "allowed_ip"
  BY DEF PeerKeys, DeviceKeys
<1>3. key \in {"preshared_key", "endpoint", "persistent_keepalive_interval"} => Apply(d, KV(key, v)) = {}
  BY <1>1, <1>2 DEF Apply, DeviceKeys
<1>4. key = "allowed_ip" => Apply(d, KV(key, v)) = {}
  BY <1>1 DEF Apply, DeviceKeys
<1>5. QED
  BY <1>2, <1>3, <1>4

\* A field of a peer is set to one that a configuration gives it.
LEMMA FieldSound ==
  ASSUME NEW d, DOMAIN d = DeviceFields, Sound(d), NEW p \in DOMAIN d.peers, d.current = <<p>>,
         NEW field \in PeerFields, NEW val, NEW e, OneField(d, e, p, field, val),
         field = "preshared" => val \in PresharedKeys,
         field = "keepalive" => val \in Uint16,
         field = "endpoint" => \E x \in Endpoints : val = <<x>>
  PROVE  DOMAIN e = DeviceFields /\ Sound(e) /\ Current(e)
<1>1. /\ DOMAIN e = DeviceFields /\ e.private = d.private /\ e.port = d.port /\ e.routes = d.routes
      /\ e.current = d.current /\ DOMAIN e.peers = DOMAIN d.peers
      /\ \A y \in DOMAIN d.peers \ {p} : e.peers[y] = d.peers[y]
  BY DEF OneField
<1>2. /\ DOMAIN e.peers[p] = PeerFields /\ e.peers[p][field] = val
      /\ \A f \in PeerFields \ {field} : e.peers[p][f] = d.peers[p][f]
  BY DEF OneField
<1> DEFINE x == e.peers[p]
           y == d.peers[p]
<1>3. SoundPeer(y)
  BY DEF Sound
<1>4. DOMAIN x = PeerFields /\ x[field] = val /\ \A f \in PeerFields \ {field} : x[f] = y[f]
  BY <1>2
<1> HIDE DEF x, y
<1>5. SoundPeer(x)
  <2>1. CASE field = "preshared"
    BY <1>3, <1>4, <2>1 DEF SoundPeer, PeerFields
  <2>2. CASE field = "keepalive"
    BY <1>3, <1>4, <2>2 DEF SoundPeer, PeerFields
  <2>3. CASE field = "endpoint"
    BY <1>3, <1>4, <2>3 DEF SoundPeer, PeerFields
  <2>4. QED
    BY <2>1, <2>2, <2>3 DEF PeerFields
<1>6. \A z \in DOMAIN e.peers : SoundPeer(e.peers[z])
  BY <1>1, <1>5 DEF Sound, x
<1>7. Sound(e)
  BY <1>1, <1>6 DEF Sound
<1>8. QED
  BY <1>1, <1>7 DEF Current

\* A device that reads a line of a configuration remains one of such configurations.
LEMMA LineSound ==
  ASSUME NEW d, DOMAIN d = DeviceFields, Sound(d), Current(d), NEW l \in ConfigLines, NEW e \in Apply(d, l)
  PROVE  Sound(e) /\ Current(e)
<1>1. ASSUME NEW v \in PrivateKeys, l = KV("private_key", v) PROVE Sound(e) /\ Current(e)
  <2>1. /\ e.private = v /\ e.port = d.port /\ e.peers = d.peers
        /\ e.routes = d.routes /\ e.current = d.current
    BY <1>1, LinePrivate
  <2>2. QED
    BY <2>1 DEF Sound, Current
<1>2. ASSUME NEW v \in Uint16, l = KV("listen_port", v) PROVE Sound(e) /\ Current(e)
  <2>1. /\ e.private = d.private /\ e.port = v /\ e.peers = d.peers
        /\ e.routes = d.routes /\ e.current = d.current
    BY <1>2, LinePort
  <2>2. QED
    BY <2>1 DEF Sound, Current
<1>3. ASSUME l = KV("replace_peers", TRUE) PROVE Sound(e) /\ Current(e)
  <2>1. /\ e.private = d.private /\ e.port = d.port /\ e.peers = <<>> /\ e.routes = <<>>
        /\ e.current = d.current
    BY <1>3, LineReplace
  <2>2. DOMAIN e.peers = {} /\ DOMAIN e.routes = {}
    BY <2>1
  <2>3. Sound(e)
    BY <2>1, <2>2, FS_EmptySet DEF Sound
  <2>4. d.current = <<>>
    <3>1. l.key = "replace_peers"
      BY <1>3, KVParts
    <3>2. d.current # <<>> => Apply(d, l) = {}
      BY <3>1 DEF Apply, DeviceKeys
    <3>3. QED
      BY <3>2
  <2>5. QED
    BY <2>1, <2>3, <2>4 DEF Current
<1>4. ASSUME NEW v \in PublicKeys, l = KV("public_key", v) PROVE Sound(e) /\ Current(e)
  <2>1. /\ e.private = d.private /\ e.port = d.port /\ e.routes = d.routes /\ e.current = <<v>>
        /\ DOMAIN e.peers = DOMAIN d.peers \cup {v}
        /\ \A y \in DOMAIN d.peers : e.peers[y] = d.peers[y]
        /\ v \notin DOMAIN d.peers => e.peers[v] = NewPeer
    BY <1>4, LinePublic
  <2>2. SoundPeer(NewPeer)
    BY DEF SoundPeer, NewPeer, PeerFields, PresharedKeys, Uint16
  <2>3. IsFiniteSet(DOMAIN e.peers) /\ DOMAIN e.peers \subseteq PublicKeys
    BY <2>1, FS_AddElement DEF Sound
  <2>4. \A y \in DOMAIN e.peers : SoundPeer(e.peers[y])
    BY <2>1, <2>2 DEF Sound
  <2>5. Sound(e)
    BY <2>1, <2>3, <2>4 DEF Sound
  <2>6. QED
    BY <2>1, <2>5 DEF Current
<1>5. ASSUME NEW key \in PeerKeys, NEW v, l = KV(key, v)
      PROVE  \E p \in DOMAIN d.peers : d.current = <<p>> /\ DOMAIN d.peers[p] = PeerFields
  <2>1. d.current # <<>>
    BY <1>5, NoPeer
  <2>2. PICK p \in DOMAIN d.peers : d.current = <<p>>
    BY <2>1 DEF Current
  <2>3. QED
    BY <2>2 DEF Sound, SoundPeer
<1>6. ASSUME NEW v \in PresharedKeys, l = KV("preshared_key", v) PROVE Sound(e) /\ Current(e)
  <2>1. PICK p \in DOMAIN d.peers : d.current = <<p>> /\ DOMAIN d.peers[p] = PeerFields
    BY <1>5, <1>6 DEF PeerKeys
  <2>2. OneField(d, e, p, "preshared", v)
    BY <1>6, <2>1, LinePeer
  <2>3. QED
    BY <2>1, <2>2, FieldSound DEF PeerFields
<1>7. ASSUME NEW v \in Endpoints, l = KV("endpoint", v) PROVE Sound(e) /\ Current(e)
  <2>1. PICK p \in DOMAIN d.peers : d.current = <<p>> /\ DOMAIN d.peers[p] = PeerFields
    BY <1>5, <1>7 DEF PeerKeys
  <2>2. OneField(d, e, p, "endpoint", <<v>>)
    BY <1>7, <2>1, LinePeer
  <2>3. QED
    BY <2>1, <2>2, FieldSound DEF PeerFields
<1>8. ASSUME NEW v \in Uint16, l = KV("persistent_keepalive_interval", v) PROVE Sound(e) /\ Current(e)
  <2>1. PICK p \in DOMAIN d.peers : d.current = <<p>> /\ DOMAIN d.peers[p] = PeerFields
    BY <1>5, <1>8 DEF PeerKeys
  <2>2. OneField(d, e, p, "keepalive", v)
    BY <1>8, <2>1, LinePeer
  <2>3. QED
    BY <2>1, <2>2, FieldSound DEF PeerFields
<1>9. ASSUME NEW r \in Nets, l = KV("allowed_ip", r) PROVE Sound(e) /\ Current(e)
  <2>1. PICK p \in DOMAIN d.peers : d.current = <<p>>
    BY <1>5, <1>9 DEF PeerKeys
  <2>2. r = AllRoute \/ \E ip : r = Exact(ip)
    BY DEF Nets
  <2>3. /\ e.private = d.private /\ e.port = d.port /\ e.peers = d.peers
        /\ e.current = d.current /\ DOMAIN e.routes = DOMAIN d.routes \cup {r}
    BY <1>9, <2>1, <2>2, LineRoute
  <2>4. IsFiniteSet(DOMAIN e.routes) /\ DOMAIN e.routes \subseteq Nets
    BY <2>3, FS_AddElement DEF Sound
  <2>5. QED
    BY <2>3, <2>4 DEF Sound, Current
<1>10. QED
  BY <1>1, <1>2, <1>3, <1>4, <1>6, <1>7, <1>8, <1>9 DEF ConfigLines, Lined

\* The lines of a client configuration are such lines, ...
LEMMA ClientLinesSound ==
  ASSUME NEW last, NEW k \in ClientConfigs(last)
  PROVE  ClientConfig(k) \in Seq(ConfigLines)
<1> DEFINE q == ClientConfig(k)
<1>1. PICK i \in 1..last, j \in 1..last, a \in 1..last, e \in Endpoints :
          k = Client(PrivateKey(i), Public(PrivateKey(j)), PresharedKey(a), e)
  BY DEF ClientConfigs
<1>2. /\ k.private \in PrivateKeys /\ k.public \in PublicKeys /\ k.preshared \in PresharedKeys
      /\ k.endpoint \in Endpoints
  <2>1. /\ k.private = PrivateKey(i) /\ k.public = Public(PrivateKey(j))
        /\ k.preshared = PresharedKey(a) /\ k.endpoint = e
    BY <1>1, ClientParts
  <2>2. i \in Nat /\ j \in Nat /\ a \in Nat
    BY <1>1
  <2>3. QED
    BY <1>1, <2>1, <2>2 DEF PrivateKeys, PublicKeys, PresharedKeys
<1>3. /\ KV("private_key", k.private) \in ConfigLines /\ KV("replace_peers", TRUE) \in ConfigLines
      /\ KV("public_key", k.public) \in ConfigLines /\ KV("endpoint", k.endpoint) \in ConfigLines
      /\ KV("preshared_key", k.preshared) \in ConfigLines
      /\ KV("persistent_keepalive_interval", DefaultPersistentKeepalive) \in ConfigLines
      /\ KV("allowed_ip", AllRoute) \in ConfigLines
  <2>1. DefaultPersistentKeepalive \in Uint16
    BY DEF DefaultPersistentKeepalive, Uint16
  <2>2. QED
    BY <1>2, <2>1 DEF ConfigLines, Lined, Nets
<1>4. /\ q \in Seq(ToSet(q)) /\ Len(q) = 7
      /\ q[1] = KV("private_key", k.private) /\ q[2] = KV("replace_peers", TRUE)
      /\ q[3] = KV("public_key", k.public) /\ q[4] = KV("endpoint", k.endpoint)
      /\ q[5] = KV("preshared_key", k.preshared)
      /\ q[6] = KV("persistent_keepalive_interval", DefaultPersistentKeepalive)
      /\ q[7] = KV("allowed_ip", AllRoute)
  BY ClientLines, Zenon
<1> HIDE DEF q
<1>5. \A n \in 1..7 : n = 1 \/ n = 2 \/ n = 3 \/ n = 4 \/ n = 5 \/ n = 6 \/ n = 7
  OBVIOUS
<1>6. \A n \in 1..7 : q[n] \in ConfigLines
  BY <1>3, <1>4, <1>5
<1>7. q = [n \in 1..7 |-> q[n]]
  BY <1>4
<1>8. q \in Seq(ConfigLines)
  BY <1>6, <1>7
<1>9. QED
  BY <1>8 DEF q

\* ... and those of a configuration of the server are, for any number of peers.
LEMMA ServerLinesSound ==
  ASSUME NEW last \in Nat, NEW s, IsServerConfig(s, last), s.port \in Uint16
  PROVE  ServerConfig(s) \in Seq(ConfigLines)
<1> DEFINE q == ServerConfig(s)
           m == Len(s.peers)
<1>1. s.peers \in Seq(KnownPeers(last)) /\ s.private \in PrivateKeys
  BY DEF IsServerConfig, PrivateKeys
<1>2. /\ q \in Seq(ToSet(q)) /\ Len(q) = 2 + 3 * m
      /\ q[1] = KV("private_key", s.private) /\ q[2] = KV("listen_port", s.port)
      /\ \A i \in 1..m :
             LET p == s.peers[i]
             IN  /\ q[3 * i] = KV("public_key", p.public)
                 /\ q[3 * i + 1] = KV("preshared_key", p.preshared)
                 /\ q[3 * i + 2] = KV("allowed_ip", Exact(IP(p)))
  BY <1>1, ServerLines, Zenon
<1>3. q[1] \in ConfigLines /\ q[2] \in ConfigLines
  BY <1>1, <1>2 DEF ConfigLines, Lined
<1>4. \A p \in KnownPeers(last) : /\ KV("public_key", p.public) \in ConfigLines
                                  /\ KV("preshared_key", p.preshared) \in ConfigLines
                                  /\ KV("allowed_ip", Exact(IP(p))) \in ConfigLines
  <2> SUFFICES ASSUME NEW p \in KnownPeers(last)
               PROVE  /\ KV("public_key", p.public) \in ConfigLines
                      /\ KV("preshared_key", p.preshared) \in ConfigLines
                      /\ KV("allowed_ip", Exact(IP(p))) \in ConfigLines
    OBVIOUS
  <2>1. PICK i \in 1..last, l \in 1..last, c \in Clients : p = Known(i, l, ClientIP[c])
    BY DEF KnownPeers
  <2>2. p.public = Public(PrivateKey(i)) /\ p.preshared = PresharedKey(l) /\ IP(p) = ClientIP[c]
    BY <2>1, KnownParts
  <2>3. p.public \in PublicKeys /\ p.preshared \in PresharedKeys /\ Exact(IP(p)) \in Nets
    BY <2>1, <2>2 DEF PublicKeys, PrivateKeys, PresharedKeys, Nets
  <2>4. QED
    BY <2>3 DEF ConfigLines, Lined
<1>5. m \in Nat /\ \A i \in 1..m : s.peers[i] \in KnownPeers(last)
  BY <1>1
<1> HIDE DEF q, m
<1>6. ASSUME NEW i \in 1..m
      PROVE  q[3 * i] \in ConfigLines /\ q[3 * i + 1] \in ConfigLines /\ q[3 * i + 2] \in ConfigLines
  BY <1>2, <1>4, <1>5
<1>7. ASSUME NEW k \in 1..(2 + 3 * m) PROVE q[k] \in ConfigLines
  <2>1. CASE k \in {1, 2}
    BY <1>3, <2>1
  <2>2. CASE k \notin {1, 2}
    <3>1. k - 1 \in 2..(1 + 3 * m) /\ (k - 1) + 1 = k
      BY <1>5, <2>2
    <3>2. PICK i \in 1..m : (k - 1) + 1 \in {3 * i, 3 * i + 1, 3 * i + 2}
      BY <1>5, <3>1, Thirds, Zenon
    <3>3. QED
      BY <1>6, <3>1, <3>2
  <2>3. QED
    BY <2>1, <2>2
<1>8. Len(q) \in Nat /\ q = [k \in 1..(2 + 3 * m) |-> q[k]] /\ 2 + 3 * m \in Nat
  BY <1>2, <1>5
<1>9. q \in Seq(ConfigLines)
  BY <1>7, <1>8
<1>10. QED
  BY <1>9 DEF q

\* SoundInv holds at first, when no device was configured, ...
LEMMA InitSoundInv == Init => SoundInv
<1> SUFFICES ASSUME Init PROVE SoundInv
  OBVIOUS
<1>1. \A h \in Hosts : cfg[h] = NoConfig /\ applied[h] = NoConfig /\ text[h] = <<>> /\ dev[h] = NoDevice
  BY DEF Init
<1>2. Servers = {}
  BY <1>1, Hosted DEF Servers
<1>3. /\ NoDevice.private = PrivateKey(0) /\ NoDevice.port = 0 /\ NoDevice.peers = <<>>
      /\ NoDevice.routes = <<>> /\ NoDevice.current = <<>>
  BY DEF NoDevice
<1> HIDE DEF NoDevice
<1>4. DOMAIN NoDevice.peers = {} /\ DOMAIN NoDevice.routes = {} /\ PrivateKey(0) \in PrivateKeys
  BY <1>3 DEF PrivateKeys
<1>5. Sound(NoDevice) /\ Current(NoDevice)
  BY <1>3, <1>4, FS_EmptySet DEF Sound, Current, Uint16
<1>6. <<>> \in Seq(ConfigLines)
  OBVIOUS
<1>7. QED
  BY <1>1, <1>2, <1>5, <1>6 DEF SoundInv

\* ... and every step keeps it.
LEMMA StepSoundInv == PairInv /\ SoundInv /\ [Next]_vars => SoundInv'
<1> SUFFICES ASSUME PairInv, SoundInv, [Next]_vars PROVE SoundInv'
  OBVIOUS
<1>1. /\ DOMAIN cfg = Hosts /\ DOMAIN applied = Hosts /\ DOMAIN text = Hosts /\ DOMAIN dev = Hosts
      /\ keys \in Nat /\ \A h \in Hosts : DOMAIN dev[h] = DeviceFields
  BY DEF PairInv, ConfigShape, DeviceShape
<1>2. ASSUME NEW c \in Clients, NEW e \in Endpoints, Pair(c, e) \/ Join(c, e) PROVE SoundInv'
  <2>1. UNCHANGED <<applied, text, dev>>
    BY <1>2 DEF Pair, Join
  <2>2. cfg'[Srv].port \in Uint16
    <3>1. e.port \in Uint16
      BY NumbersAssumption, Zenon DEF Uint16
    <3>2. CASE Pair(c, e)
      <4> DEFINE pair == GenerateConfigPair(keys + 1, e, ClientIP[c])
      <4>1. cfg' = [cfg EXCEPT ![c] = pair.client, ![Srv] = pair.server]
        BY <3>2 DEF Pair
      <4>2. pair.server.port = e.port
        BY DEF GenerateConfigPair, AddPeer, Server
      <4> HIDE DEF pair
      <4>3. QED
        BY <1>1, <3>1, <4>1, <4>2, Hosted
    <3>3. CASE Join(c, e)
      <4> DEFINE s == cfg[Srv]
                 t == AddPeer(s, Public(PrivateKey(keys + 1)), PresharedKey(keys + 2), ClientIP[c])
      <4>1. s # NoConfig /\ \E k : cfg' = [cfg EXCEPT ![c] = k, ![Srv] = t]
        BY <3>3, Zenon DEF Join
      <4>2. s \in Servers
        BY <4>1 DEF Servers
      <4>3. DOMAIN s = {"private", "port", "peers"} /\ s.port \in Uint16
        BY <4>2 DEF PairInv, ConfigShape, IsServerConfig, SoundInv
      <4> HIDE DEF s
      <4>4. t.port = s.port
        BY <4>3 DEF AddPeer
      <4> HIDE DEF t
      <4>5. QED
        BY <1>1, <4>1, <4>3, <4>4, Hosted
    <3>4. QED
      BY <1>2, <3>2, <3>3
  <2>3. \A s \in Servers' : s.port \in Uint16
    BY <2>1, <2>2 DEF Servers, SoundInv
  <2>4. QED
    BY <2>1, <2>3 DEF SoundInv
<1>3. ASSUME NEW h \in Hosts, SetConfig(h) PROVE SoundInv'
  <2> DEFINE lines == IF h = Srv THEN ServerConfig(cfg[h]) ELSE ClientConfig(cfg[h])
  <2>1. /\ cfg[h] # NoConfig /\ applied' = [applied EXCEPT ![h] = cfg[h]]
        /\ text' = [text EXCEPT ![h] = lines] /\ dev' = [dev EXCEPT ![h].current = <<>>]
        /\ UNCHANGED <<cfg, keys>>
    BY <1>3 DEF SetConfig
  <2> HIDE DEF lines
  <2>2. Servers' \subseteq Servers
    BY <1>1, <2>1, Hosted DEF Servers
  <2>3. lines \in Seq(ConfigLines)
    <3>1. CASE h = Srv
      <4>1. cfg[h] \in Servers
        BY <2>1, <3>1 DEF Servers
      <4>2. IsServerConfig(cfg[h], keys) /\ cfg[h].port \in Uint16
        BY <4>1 DEF PairInv, ConfigShape, SoundInv
      <4>3. QED
        BY <1>1, <3>1, <4>2, ServerLinesSound DEF lines
    <3>2. CASE h # Srv
      <4>1. h \in Clients
        BY <3>2 DEF Hosts
      <4>2. cfg[h] \in ClientConfigs(keys)
        BY <2>1, <4>1 DEF PairInv, ConfigShape, Of
      <4>3. QED
        BY <3>2, <4>2, ClientLinesSound DEF lines
    <3>3. QED
      BY <3>1, <3>2
  <2>4. Sound(dev'[h]) /\ Current(dev'[h])
    <3>1. dev'[h] = [dev[h] EXCEPT !.current = <<>>]
      BY <1>1, <2>1
    <3>2. /\ dev'[h].private = dev[h].private /\ dev'[h].port = dev[h].port /\ dev'[h].peers = dev[h].peers
          /\ dev'[h].routes = dev[h].routes /\ dev'[h].current = <<>>
      BY <1>1, <3>1 DEF DeviceFields
    <3>3. Sound(dev[h])
      BY DEF SoundInv
    <3>4. QED
      BY <3>2, <3>3 DEF Sound, Current
  <2>5. /\ text'[h] = lines /\ \A b \in Hosts \ {h} : text'[b] = text[b] /\ dev'[b] = dev[b]
    BY <1>1, <2>1
  <2>6. QED
    BY <2>2, <2>3, <2>4, <2>5 DEF SoundInv
<1>4. ASSUME NEW h \in Hosts, Line(h) PROVE SoundInv'
  <2> DEFINE ds == Apply(dev[h], Head(text[h]))
  <2>1. text[h] # <<>> /\ UNCHANGED <<cfg, keys>>
    BY <1>4 DEF Line
  <2>2. /\ ds = {} => /\ text' = [text EXCEPT ![h] = <<>>]
                      /\ applied' = [applied EXCEPT ![h] = NoConfig] /\ UNCHANGED dev
        /\ ds # {} => /\ text' = [text EXCEPT ![h] = Tail(@)]
                      /\ \E d \in ds : dev' = [dev EXCEPT ![h] = d]
                      /\ UNCHANGED applied
    BY <1>4 DEF Line
  <2>3. text[h] \in Seq(ConfigLines)
    BY DEF SoundInv
  <2>4. Head(text[h]) \in ConfigLines /\ Tail(text[h]) \in Seq(ConfigLines) /\ <<>> \in Seq(ConfigLines)
    BY <2>1, <2>3
  <2>5. \A d \in ds : Sound(d) /\ Current(d)
    <3>1. Sound(dev[h]) /\ Current(dev[h]) /\ DOMAIN dev[h] = DeviceFields
      BY <1>1 DEF SoundInv
    <3>2. QED
      BY <2>4, <3>1, LineSound
  <2> HIDE DEF ds
  <2>6. Servers' \subseteq Servers
    BY <1>1, <2>1, <2>2, Hosted DEF Servers
  <2>7. text'[h] \in Seq(ConfigLines) /\ \A b \in Hosts \ {h} : text'[b] = text[b] /\ dev'[b] = dev[b]
    BY <1>1, <2>2, <2>4
  <2>8. Sound(dev'[h]) /\ Current(dev'[h])
    <3>1. CASE ds = {}
      BY <2>2, <3>1 DEF SoundInv
    <3>2. CASE ds # {}
      <4>1. dev'[h] \in ds
        BY <1>1, <2>2, <3>2
      <4>2. QED
        BY <2>5, <4>1
    <3>3. QED
      BY <3>1, <3>2
  <2>9. QED
    BY <2>6, <2>7, <2>8 DEF SoundInv
<1>5. ASSUME UNCHANGED <<cfg, applied, text, dev>> PROVE SoundInv'
  BY <1>5 DEF SoundInv, Servers
<1>6. ASSUME NEW h \in Hosts, GetConfig(h) PROVE SoundInv'
  BY <1>5, <1>6 DEF GetConfig
<1>7. CASE UNCHANGED vars
  BY <1>5, <1>7 DEF vars
<1>8. QED
  BY <1>2, <1>3, <1>4, <1>6, <1>7 DEF Next

\* Only GetConfig returns a result, and it is that of the device as it is then.
LEMMA StepReadBack == SoundInv /\ ReadBack /\ [Next]_vars => ReadBack'
<1> SUFFICES ASSUME SoundInv, ReadBack, [Next]_vars PROVE ReadBack'
  OBVIOUS
<1>1. ASSUME got' = NoResult PROVE ReadBack'
  BY <1>1 DEF ReadBack, NoResult
<1>2. ASSUME NEW c \in Clients, NEW e \in Endpoints, Pair(c, e) \/ Join(c, e) PROVE ReadBack'
  BY <1>1, <1>2 DEF Pair, Join
<1>3. ASSUME NEW h \in Hosts, SetConfig(h) \/ Line(h) PROVE ReadBack'
  BY <1>1, <1>3 DEF SetConfig, Line
<1>4. ASSUME NEW h \in Hosts, GetConfig(h) PROVE ReadBack'
  <2>1. PICK peers \in SetToSeqs(DOMAIN dev[h].peers), count \in [DOMAIN dev[h].peers -> Counters],
             end \in Ends :
            LET reply == IpcGet(dev[h], peers, count) \o end
            IN  got' = [ipcs |-> Value(reply), of |-> <<[dev |-> dev[h], count |-> count, reply |-> reply]>>]
    BY <1>4 DEF GetConfig, Ends
  <2>2. Sound(dev[h])
    BY DEF SoundInv
  <2> DEFINE reply == IpcGet(dev[h], peers, count) \o end
             ipcs == Value(reply)
             d == dev[h]
  <2>3. ReadsBack(ipcs, d, count, reply)
    BY <2>1, <2>2, ReplyReadBack
  <2>4. got' = [ipcs |-> ipcs, of |-> <<[dev |-> d, count |-> count, reply |-> reply]>>]
    BY <2>1
  <2> HIDE DEF ipcs, d, reply
  <2>5. /\ got'.ipcs = ipcs /\ got'.of[1].dev = d /\ got'.of[1].count = count
        /\ got'.of[1].reply = reply
    BY <2>4
  <2>6. ReadsBack(got'.ipcs, got'.of[1].dev, got'.of[1].count, got'.of[1].reply)
    BY <2>3, <2>5
  <2>7. QED
    BY <2>6, Zenon DEF ReadBack, ReadsBack
<1>5. CASE UNCHANGED vars
  BY <1>5 DEF vars, ReadBack
<1>6. QED
  BY <1>2, <1>3, <1>4, <1>5 DEF Next

\* wgapi/parser.go: Value after a reply of a device, configured by any of the configurations of
\* wgconfig and read at any time, returns what the device is, every peer with its counters, and
\* its text is that of the reply, but for counters of 2^(IntBits - 1) and more.
THEOREM RepliesReadBack == Spec => []ReadBack
<1>1. Init => ReadBack
  BY DEF Init, ReadBack, NoResult
<1>2. QED
  BY <1>1, ConfigsRead, InitSoundInv, StepSoundInv, StepReadBack, PTL DEF Spec
=============================================================================
