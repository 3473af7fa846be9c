------------------------------- MODULE MCLoad -------------------------------
(***************************************************************************)
(* Load for TLC.  Caddyfiles and servers are few and chosen for their      *)
(* cases: a name that no network has, a placeholder, a name that is a      *)
(* number, null, a name in quotes, broken port pairs and lines are among   *)
(* them, and hosts that are empty, IPv6, or IPv4 in the form of IPv6.      *)
(***************************************************************************)
EXTENDS Load

MCNumbers == "80" :> 80 @@ "443" :> 443 @@ "65535" :> 65535 @@ "65536" :> 65536 @@ "7" :> 7
MCJson == [t \in {"80", "443", "65535", "65536", "7"} |-> t] @@ "null" :> "" @@ "\"a\"" :> "a"
MCIPs == "10.0.0.1" :> "10.0.0.1" @@ "::1" :> "::1" @@ "::ffff:a00:1" :> "10.0.0.1" @@ "" :> "<nil>"
MCIPv6 == {"::1"}
MCEnv == "{env.NET}" :> "a" @@ "{env.HOST}" :> "::1" @@ "{env.MAPPED}" :> "::ffff:a00:1"
MCNames == {"a", "b", "7"}
MCAddrs == {"ip1", "ip2", "ip3"}

Net(n, ip, peers) == [name |-> n, ip |-> ip, peers |-> peers]
Peer(n, ip) == [name |-> n, ip |-> ip]

\* No network; a client; a server with two peers; two networks; the same name twice; a
\* peer with the name of its server.
FewConfigs ==
    {<<>>, <<Net("a", "ip1", <<>>)>>, <<Net("7", "ip1", <<Peer("a", "ip2")>>), Net("a", "ip3", <<>>)>>,
     <<Net("a", "ip1", <<Peer("b", "ip2"), Peer("b", "ip3")>>)>>,
     <<Net("a", "ip1", <<>>), Net("a", "ip2", <<>>)>>, <<Net("a", "ip1", <<Peer("a", "ip2")>>)>>}

\* Every configuration of at most two networks with up to two peers.
PeerLists ==
    {<<>>} \cup {<<Peer(n, "ip2")>> : n \in MCNames}
           \cup {<<Peer("b", "ip2"), Peer(n, "ip3")>> : n \in MCNames}
Nets == [name : MCNames, ip : {"ip1", "ip3"}, peers : PeerLists]
MCConfigs == {<<>>} \cup [1..1 -> Nets] \cup [1..2 -> Nets]

P(src, dst) == Pair(<<src, dst>>, "none")
Other == P("443", "443")
Block(name, lines) == [args |-> <<name>>, body |-> lines]

Files ==
    {<<>>,
     <<Block("a", <<<<Other, P("80", "443")>>>>)>>,
     <<Block("a", <<<<P("80", "443")>>>>)>>,
     <<Block("{env.NET}", <<<<Other, Pair(<<"10.0.0.1", "80", "65535">>, "tcp"), Other, P("443", "80")>>>>),
       Block("7", <<<<Other, Pair(<<"80", "80">>, "udp")>>, <<Other, P("443", "443"), Other>>>>)>>,
     <<Block("a", <<<<Other, P("80", "65536")>>>>)>>,
     <<Block("a", <<<<Other, Pair(<<"80", "80">>, "sctp")>>>>)>>,
     <<Block("null", <<<<Other, Other>>>>)>>, <<Block("\"a\"", <<<<Other, Other>>>>)>>,
     <<Block("a", <<<<Other, Pair(<<"{env.HOST}", "80", "443">>, "none")>>, <<Other, P("7", "80")>>>>)>>,
     <<Block("a", <<<<Other, Pair(<<"", "80", "7">>, "none"), Other, Pair(<<"{env.MAPPED}", "7", "443">>, "tcp")>>>>)>>,
     <<[args |-> <<"7", "b", "a">>, body |-> <<<<Other, P("80", "7")>>>>], Block("a", <<<<Other, P("7", "443")>>>>)>>,
     <<[args |-> <<"a", "b">>, body |-> <<>>]>>}

\* The bodies of the multi wrappers.
Servers ==
    {<<>>, <<<<>>>>, <<<<<<"a", "80">>>>>>, <<<<<<"a", "80">>, <<"7", "443">>>>, <<<<"a", "443">>>>>>,
     <<<<<<"b", "80", "x", "a", "443">>>>>>, <<<<<<"a">>>>>>}

\* The few with all the rest, and all networks with little else.
MCPlans ==
    [networks : FewConfigs, file : Files, servers : Servers]
        \cup [networks : MCConfigs, file : {<<>>}, servers : {<<>>}]
=============================================================================
