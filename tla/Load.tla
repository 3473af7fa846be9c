-------------------------------- MODULE Load --------------------------------
(***************************************************************************)
(* A configuration from the Caddyfile to the end of its life: the blocks   *)
(* of the option forward are unmarshaled, Caddy provisions the apps in any *)
(* order, point-c on demand, starts them, stops them and cleans up.        *)
(* Caddy itself, and its http app with the servers that wrap their         *)
(* listeners in MultiWrapper, are external and modelled from how the code  *)
(* is called.  Listener is taken to be found in the namespace that         *)
(* MultiWrapper loads from; it is registered in another one (README.md,    *)
(* Findings).                                                              *)
(***************************************************************************)
EXTENDS Networks, Caddyfile, FiniteSets

CONSTANTS
    Plans       \* the configurations: the networks, the forward blocks of the Caddyfile and
                \* the bodies of the multi wrappers of its servers

\* A Caddyfile has blocks in sequence, a block has tokens after its name and a body of lines,
\* and a line has tokens.
ASSUME PlansAssumption == \A p \in Plans :
    LET IsSeq(s) == s \in Seq(ToSet(s))
    IN  /\ IsSeq(p.file)
        /\ \A b \in ToSet(p.file) : IsSeq(b.args) /\ IsSeq(b.body) /\ \A line \in ToSet(b.body) : IsSeq(line)

VARIABLES
    file,       \* the forward blocks of the Caddyfile
    read,       \* how many of them are unmarshaled
    forward,    \* the JSON of the app forward, after the blocks so far
    phase,      \* what Caddy does with the configuration
    cur,        \* the app being provisioned or started
    todo,       \* the apps still to be provisioned
    loaded,     \* the apps whose Provision has succeeded
    started,    \* the apps whose Start has succeeded
    forwarders, \* Forwards.forwarders
    open,       \* the forwarders whose listener is open (Forwards.stop)
    servers,    \* the wrappers of the http app: their lines, then their listeners' configurations
    tunnels,    \* the listeners <<w, i>> of the wrappers' listener modules, until their Close is called
    wrapped,    \* the wrappers whose Provision has succeeded
    bases,      \* the wrappers with a listener of the server in them, until its Close is called
    dirty       \* the modules with a Cleanup still to be called

appVars == <<file, read, forward, cur, todo, loaded, started>>
resourceVars == <<forwarders, open, servers, tunnels, wrapped, bases>>
vars == <<netVars, appVars, resourceVars, phase, dirty>>

NoApp == "none"
Apps == {"point-c", "forward", "http"}
Phases == {"adapt", "provision", "start", "run", "stop", "cancel", "failed", "stopped", "crashed"}

TypeOK ==
    /\ NetworksTypeOK
    /\ phase \in Phases
    /\ cur \in Apps \cup {NoApp}
    /\ todo \subseteq Apps /\ loaded \subseteq Apps /\ started \subseteq loaded
    /\ open \subseteq DOMAIN forwarders
    /\ \A t \in tunnels : t[1] \in DOMAIN servers /\ t[2] \in DOMAIN servers[t[1]]
    /\ bases \subseteq wrapped /\ wrapped \subseteq DOMAIN servers

Init ==
    /\ \E p \in Plans : config = p.networks /\ file = p.file /\ servers = p.servers
    /\ NetInit
    /\ read = 0
    /\ forward = <<>>
    /\ phase = "adapt"
    /\ cur = NoApp
    /\ todo \in {{"point-c", "forward"}, {"forward", "http"}, Apps}
    /\ loaded = {}
    /\ started = {}
    /\ forwarders = <<>>
    /\ open = {}
    /\ tunnels = {}
    /\ wrapped = {}
    /\ bases = {}
    /\ dirty = {}
-----------------------------------------------------------------------------
(* The Caddyfile adapter.  An error ends the load before anything exists.  *)
Adapt ==
    /\ phase = "adapt"
    /\ read < Len(file)
    /\ LET v == Unmarshaler(forward, file[read + 1])
       IN  \/ v = {} /\ phase' = "failed" /\ UNCHANGED <<read, forward>>
           \/ forward' \in v /\ read' = read + 1 /\ UNCHANGED phase
    /\ UNCHANGED <<netVars, file, cur, todo, loaded, started, resourceVars, dirty>>

AdaptEnds ==
    /\ phase = "adapt"
    /\ read = Len(file)
    /\ IF \E w \in DOMAIN servers : UnmarshalMulti(servers[w]) = {}
       THEN phase' = "failed" /\ UNCHANGED servers
       ELSE /\ servers' = [w \in DOMAIN servers |-> CHOOSE ls \in UnmarshalMulti(servers[w]) : TRUE]
            /\ phase' = "provision"
    /\ UNCHANGED <<netVars, appVars, forwarders, open, tunnels, wrapped, bases, dirty>>
-----------------------------------------------------------------------------
(* Provisioning.                                                           *)

\* Caddy takes the apps in the order of a map.
Provision(a) ==
    /\ phase = "provision"
    /\ cur = NoApp
    /\ a \in todo
    /\ cur' = a
    /\ UNCHANGED <<netVars, file, read, forward, todo, loaded, started, resourceVars, phase, dirty>>

\* The http app provisions its wrappers one after the other, and their listeners.
NextWrapper == Cardinality(wrapped) + 1
NextListener == Cardinality({t \in tunnels : t[1] = NextWrapper}) + 1
Listening == NextWrapper \in DOMAIN servers /\ NextListener \in DOMAIN servers[NextWrapper]

\* ctx.App("point-c"): by Caddy itself, or by the first module that looks a network up.
\* Caddy remembers the networks it must clean up.
LoadPointc ==
    /\ phase = "provision"
    /\ cur \in {"point-c", "forward"} \/ (cur = "http" /\ Listening)
    /\ "point-c" \notin loaded
    /\ ProvisionPointc
    /\ dirty' = dirty \cup {<<"net", i>> : i \in up' \ up}
    /\ phase' = CASE status' = "crashed" -> "crashed"
                   [] status' = "failed" -> "cancel"
                   [] OTHER -> phase
    /\ loaded' = IF status' = "ok" THEN loaded \cup {"point-c"} ELSE loaded
    /\ UNCHANGED <<file, read, forward, cur, todo, started, resourceVars>>

AppProvisioned(a) == cur' = NoApp /\ todo' = todo \ {a}

PointcEnds ==
    /\ phase = "provision"
    /\ cur = "point-c"
    /\ "point-c" \in loaded
    /\ AppProvisioned("point-c")
    /\ UNCHANGED <<netVars, file, read, forward, loaded, started, resourceVars, phase, dirty>>

\* caddy.ParseNetworkAddress, when it accepts the text that host and port are joined to with
\* a colon: without brackets all colons of an IPv6 host belong to the host, the last one too.
ParseNetworkAddress(host, port) ==
    IF host \in IPv6 THEN [host |-> <<host, port>>, port |-> 0] ELSE [host |-> <<host>>, port |-> port]

tcpForwarder(n, pp) ==
    [net |-> Lookup(n), addr |-> ParseNetworkAddress(pp.host, pp.src), dst |-> pp.dst]

\* The value of a name and of a port pair that was parsed once already.
NameOf(text) == CHOOSE v \in Hostname(text) : TRUE
PairOf(pair) == CHOOSE v \in PortPair(pair) : TRUE

\* Versions of Caddy differ in whether they refuse an IPv6 host without brackets.
Refusable(fwds) == \E i \in DOMAIN fwds : \E k \in DOMAIN fwds[i].ports :
    LET p == PairOf(fwds[i].ports[k]) IN ~ p.udp /\ p.host \in IPv6

\* The loop of Forwards.Provision over the ports: those of UDP are only warned about.
Forwarders(f) ==
    LET turn(p) == IF p.udp THEN <<>> ELSE <<tcpForwarder(NameOf(f.name), p)>>
    IN  FlattenSeq([k \in DOMAIN f.ports |-> turn(PairOf(f.ports[k]))])

\* Forwards.Provision.  When it fails Caddy calls its Cleanup, which finds nothing to stop.
ProvisionForwards ==
    /\ phase = "provision"
    /\ cur = "forward"
    /\ "point-c" \in loaded
    /\ LET fwds == ForwardsFromJSON(forward)
           known == \A i \in DOMAIN fwds : NameOf(fwds[i].name) \in DOMAIN net
       IN  \/ /\ ~ known \/ Refusable(fwds)
              /\ phase' = "cancel"
              /\ UNCHANGED <<cur, todo, loaded, forwarders, dirty>>
           \/ /\ known
              /\ forwarders' = FlattenSeq([i \in DOMAIN fwds |-> Forwarders(fwds[i])])
              /\ AppProvisioned("forward")
              /\ loaded' = loaded \cup {"forward"}
              /\ dirty' = dirty \cup {<<"forward", 1>>}
              /\ UNCHANGED phase
    /\ UNCHANGED <<netVars, file, read, forward, started, open, servers, tunnels, wrapped, bases>>

\* Listener.Provision looks the network up and listens on it.  When it fails
\* MultiWrapper.Provision fails, and has no listeners yet that its Cleanup could close.
ProvisionListener ==
    /\ phase = "provision"
    /\ cur = "http"
    /\ "point-c" \in loaded
    /\ Listening
    /\ \/ /\ NameOf(servers[NextWrapper][NextListener].name) \in DOMAIN net
          /\ tunnels' = tunnels \cup {<<NextWrapper, NextListener>>}
          /\ UNCHANGED phase
       \/ phase' = "cancel" /\ UNCHANGED tunnels
    /\ UNCHANGED <<netVars, appVars, forwarders, open, servers, wrapped, bases, dirty>>

\* MultiWrapper.Provision: all listeners are loaded; without "listeners" it fails.
ProvisionMulti ==
    /\ phase = "provision"
    /\ cur = "http"
    /\ NextWrapper \in DOMAIN servers
    /\ NextListener = Len(servers[NextWrapper]) + 1
    /\ IF servers[NextWrapper] = <<>>
       THEN phase' = "cancel" /\ UNCHANGED <<wrapped, dirty>>
       ELSE /\ wrapped' = wrapped \cup {NextWrapper}
            /\ dirty' = dirty \cup {<<"multi", NextWrapper>>}
            /\ UNCHANGED phase
    /\ UNCHANGED <<netVars, appVars, forwarders, open, servers, tunnels, bases>>

HttpEnds ==
    /\ phase = "provision"
    /\ cur = "http"
    /\ NextWrapper \notin DOMAIN servers
    /\ AppProvisioned("http")
    /\ loaded' = loaded \cup {"http"}
    /\ UNCHANGED <<netVars, file, read, forward, started, resourceVars, phase, dirty>>

ProvisionEnds ==
    /\ phase = "provision"
    /\ cur = NoApp
    /\ todo = {}
    /\ phase' = "start"
    /\ UNCHANGED <<netVars, appVars, resourceVars, dirty>>
-----------------------------------------------------------------------------
(* Start and Stop, of the apps in any order.  When a Start fails Caddy     *)
(* stops the apps that were started and cancels the configuration.         *)
Start(a) ==
    /\ phase = "start"
    /\ a \in loaded \ started
    /\ started' = started \cup {a}
    /\ UNCHANGED <<netVars, file, read, forward, cur, todo, loaded, forwarders, servers, tunnels,
                   wrapped, phase, dirty>>

StartPointc == Start("point-c") /\ UNCHANGED <<open, bases>>

StartFails ==
    /\ phase' = "stop"
    /\ UNCHANGED <<netVars, appVars, forwarders, servers, tunnels, wrapped, dirty>>

\* Forwards.Start opens the listeners in order, or fails at one of them; the earlier
\* ones stay open.
StartForwards ==
    \/ Start("forward") /\ open' = DOMAIN forwarders /\ UNCHANGED bases
    \/ /\ phase = "start"
       /\ "forward" \in loaded \ started
       /\ \E k \in DOMAIN forwarders : open' = 1..(k - 1)
       /\ StartFails
       /\ UNCHANGED bases

\* The http app opens a listener for each server and wraps it; WrapListener adds it to
\* the listeners that Cleanup closes.
StartHttp ==
    \/ Start("http") /\ bases' = wrapped /\ UNCHANGED open
    \/ /\ phase = "start"
       /\ "http" \in loaded \ started
       /\ \E k \in wrapped : bases' = 1..(k - 1)
       /\ StartFails
       /\ UNCHANGED open

Run ==
    /\ phase = "start"
    /\ started = loaded
    /\ phase' = "run"
    /\ UNCHANGED <<netVars, appVars, resourceVars, dirty>>

\* caddy.Stop, or the end of a configuration that is replaced.
StopAll ==
    /\ phase = "run"
    /\ phase' = "stop"
    /\ UNCHANGED <<netVars, appVars, resourceVars, dirty>>

\* Forwards.Stop runs stopAll; the Stop of point-c does nothing, and that of the http app
\* closes the wrapped listeners, which only ends their Accepts.
Stop(a) ==
    /\ phase = "stop"
    /\ a \in started
    /\ started' = started \ {a}
    /\ open' = IF a = "forward" THEN {} ELSE open
    /\ UNCHANGED <<netVars, file, read, forward, cur, todo, loaded, forwarders, servers, tunnels,
                   wrapped, bases, phase, dirty>>

StopEnds ==
    /\ phase = "stop"
    /\ started = {}
    /\ phase' = "cancel"
    /\ UNCHANGED <<netVars, appVars, resourceVars, dirty>>
-----------------------------------------------------------------------------
(* The context of the configuration is cancelled: Caddy calls the Cleanup  *)
(* of every module whose Provision succeeded, in the order of a map.       *)
Clean(m) ==
    /\ phase = "cancel"
    /\ m \in dirty
    /\ dirty' = dirty \ {m}

\* Cleanup of a client or server closes its Wireguard.
CleanNet(i) ==
    /\ Clean(<<"net", i>>)
    /\ up' = up \ {i}
    /\ UNCHANGED <<config, status, at, peer, nets, net, appVars, resourceVars, phase>>

\* Cleanup of Forwards forgets the forwarders and closes what Stop left.
CleanForwards ==
    /\ Clean(<<"forward", 1>>)
    /\ forwarders' = <<>>
    /\ open' = {}
    /\ UNCHANGED <<netVars, appVars, servers, tunnels, wrapped, bases, phase>>

\* mutant: Cleanup of MultiWrapper leaves the listener that was wrapped
CleanMultiLoadedOnly(w) ==
    /\ Clean(<<"multi", w>>)
    /\ tunnels' = {t \in tunnels : t[1] # w}
    /\ UNCHANGED <<netVars, appVars, forwarders, open, servers, wrapped, bases, phase>>

\* mutant: ... or ends at the first listener whose Close fails
CleanMultiGivesUp(w) ==
    /\ Clean(<<"multi", w>>)
    /\ \E n \in DOMAIN servers[w] : tunnels' = {t \in tunnels : t[1] # w \/ t[2] > n}
    /\ UNCHANGED <<netVars, appVars, forwarders, open, servers, wrapped, bases, phase>>

\* Cleanup of MultiWrapper calls the Close of all its listeners, whether one of them fails or
\* not: the errors are joined.
CleanMulti(w) ==
    /\ Clean(<<"multi", w>>)
    /\ tunnels' = {t \in tunnels : t[1] # w}
    /\ bases' = bases \ {w}
    /\ UNCHANGED <<netVars, appVars, forwarders, open, servers, wrapped, phase>>

CancelEnds ==
    /\ phase = "cancel"
    /\ dirty = {}
    /\ phase' = IF todo = {} /\ cur = NoApp THEN "stopped" ELSE "failed"
    /\ UNCHANGED <<netVars, appVars, resourceVars, dirty>>

Next ==
    \/ Adapt \/ AdaptEnds
    \/ \E a \in Apps : Provision(a)
    \/ LoadPointc \/ PointcEnds \/ ProvisionForwards
    \/ ProvisionListener \/ ProvisionMulti \/ HttpEnds \/ ProvisionEnds
    \/ StartPointc \/ StartForwards \/ StartHttp \/ Run
    \/ StopAll \/ (\E a \in Apps : Stop(a)) \/ StopEnds
    \/ \E i \in up : CleanNet(i)
    \/ CleanForwards
    \/ \E w \in wrapped : CleanMulti(w)
    \/ CancelEnds

Spec == Init /\ [][Next]_vars
-----------------------------------------------------------------------------
(* Properties *)

Ended == phase \in {"failed", "stopped"}

\* When a load has failed or a configuration has been stopped, whatever had been done of
\* it and in whatever order the modules are cleaned up, no interface is up, no forwarder
\* listens, and of every wrapper whose Provision succeeded all listeners have been closed, those
\* of its modules and the one it wrapped, even if the Close of one failed.  (A wrapper whose
\* Provision failed leaves the listeners it had opened; a network whose Provision failed
\* crashes Caddy.)
AllReleased == Ended =>
    /\ up = {} /\ open = {} /\ bases = {}
    /\ \A t \in tunnels : t[1] \notin wrapped

\* A word of the Caddyfile's forward blocks: the block, the line and the place on the line.
Places ==
    UNION {UNION {{<<i, l, k>> : k \in DOMAIN file[i].body[l]} : l \in DOMAIN file[i].body} : i \in DOMAIN file}
Word(w) == file[w[1]].body[w[2]][w[3]]

\* v is written before w.
Before(v, w) == \/ v[1] < w[1]
                \/ v[1] = w[1] /\ v[2] < w[2]
                \/ v[1] = w[1] /\ v[2] = w[2] /\ v[3] < w[3]

\* What the file asks for: the words at the even places of a line, but for those of UDP.
Asked == {w \in Places : w[3] % 2 = 0 /\ Word(w).proto # "udp"}

\* The forwarder f is what the word w says: it dials the port of its last part, in the network
\* that was declared under the name the block ends its line with, and listens on the port
\* before it; of the address of the part before that, if there is one and it has no colons.
Meets(f, w) ==
    LET args == file[w[1]].args
        q == Word(w).parts
        n == Len(q)
        name == caddyReplacer(args[Len(args)])
        host == IF n = 3 THEN IPs[caddyReplacer(q[1])] ELSE Empty
    IN  /\ name \in DOMAIN net /\ f.net = net[name]
        /\ f.dst = Numbers[caddyReplacer(q[n])]
        /\ host \notin IPv6 => f.addr = [host |-> <<host>>, port |-> Numbers[caddyReplacer(q[n - 1])]]

\* The names are such that JSON keeps them: none is null, or a text in quotes.
NamesKept == \A b \in ToSet(file) : \A t \in ToSet(b.args) : UnmarshalJSON(MarshalJSON(t)) = t

\* A configuration that runs has one forwarder for each word that asks for one, in the order
\* they are written: none is lost, doubled or mixed up when the tokens are read, the pair is
\* cut, and the app is resumed, saved as JSON, loaded and provisioned.
PortsConfigured == phase \in {"start", "run"} /\ "forward" \in loaded /\ NamesKept =>
    \E word \in Bijection(DOMAIN forwarders, Asked) :
        /\ \A k, m \in DOMAIN forwarders : k < m => Before(word[k], word[m])
        /\ \A k \in DOMAIN forwarders : Meets(forwarders[k], word[k])

\* "forward <net name> { [<host>:]<src>:<dst>[/<tcp|udp>] }": a pair alone on its line, the
\* documented form, is forwarded when the configuration runs.
LonePairsConfigured == phase = "run" /\ "forward" \in loaded =>
    \A b \in ToSet(file) : \A line \in ToSet(b.body) :
        Len(line) = 1 /\ PortPair(line[1]) # {} /\ line[1].proto # "udp" =>
            \E k \in DOMAIN forwarders : forwarders[k].dst = PairOf(line[1]).dst
=============================================================================
