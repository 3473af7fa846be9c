----------------------------- MODULE LoadProofs -----------------------------
(***************************************************************************)
(* Theorems about Load and the Networks in it, for any configurations,     *)
(* names, addresses, texts, Caddyfiles and multi wrappers.                 *)
(***************************************************************************)
EXTENDS Load, SequenceLemmas, FiniteSetTheorems, TLAPS

-----------------------------------------------------------------------------
(* The networks.                                                           *)

\* The addresses a network configuration declares.
AddrsOf(c) == {c.ip} \cup {c.peers[j].ip : j \in DOMAIN c.peers}

\* While the networks are loaded, those before at are complete, and at may have begun;
\* they are merged when all are loaded.
Progress ==
    /\ Len(nets) <= Len(config)
    /\ status = "load" => Len(nets) \in {at - 1, at} /\ DOMAIN net = {}
    /\ status = "merge" => Len(nets) = Len(config)

\* A network answers under its own name alone, with an address of its configuration.
OwnName == \A i \in 1..Len(nets) :
    /\ DOMAIN nets[i] = {config[i].name}
    /\ nets[i][config[i].name] \in AddrsOf(config[i])

\* So does each name of the app.
Declared == \A n \in DOMAIN net : \E i \in 1..Len(config) :
    n = config[i].name /\ net[n] \in AddrsOf(config[i])

NetInv == NetworksTypeOK /\ Progress /\ OwnName /\ Declared
-----------------------------------------------------------------------------
(* The resources of a configuration.                                       *)

\* The listeners of the forwarders and of the server are opened by Start.
NotStarted ==
    /\ phase = "adapt" => dirty = {} /\ wrapped = {} /\ loaded = {}
    /\ phase \in {"adapt", "provision"} => open = {} /\ bases = {}

\* The http app provisions its wrappers in order.
WrappedInOrder == Cardinality(wrapped) \in Nat /\ wrapped = 1..Cardinality(wrapped)

\* What must be closed has a module with a Cleanup to come, and what may still open
\* something has one too.
ToClean ==
    /\ \A i \in up : <<"net", i>> \in dirty
    /\ open # {} => <<"forward", 1>> \in dirty
    /\ \A w \in bases : <<"multi", w>> \in dirty
    /\ \A t \in tunnels : t[1] \in wrapped => <<"multi", t[1]>> \in dirty
    /\ phase \in {"provision", "start"} =>
           /\ "forward" \in loaded => <<"forward", 1>> \in dirty
           /\ \A w \in wrapped : <<"multi", w>> \in dirty

\* A load ends when nothing is left to clean up.
AllCleaned == Ended => dirty = {}

LInv == NotStarted /\ WrappedInOrder /\ ToClean /\ AllCleaned
-----------------------------------------------------------------------------
(* Steps of the networks.                                                  *)

\* The configured networks are a sequence.
LEMMA ConfigType == ASSUME NetworksTypeOK
                    PROVE  /\ config \in Seq(NetConfigs) /\ Len(config) \in Nat
                           /\ \A i \in 1..Len(config) : config[i] \in NetConfigs
<1>1. config \in Seq(NetConfigs)
  BY ConfigAssumption DEF NetworksTypeOK
<1>2. QED
  BY <1>1

\* A map of names is one of Maps.
LEMMA IsMap == ASSUME NEW S \in SUBSET Names, NEW m \in [S -> Addrs] PROVE m \in Maps
BY DEF Maps

\* A map of networks: its names, and an address for each.
LEMMA MapParts == ASSUME NEW m \in Maps
                  PROVE  DOMAIN m \in SUBSET Names /\ m \in [DOMAIN m -> Addrs]
BY DEF Maps

\* The invariant holds initially, of the networks ...
LEMMA NetInitInv == NetInit => NetInv
<1> SUFFICES ASSUME NetInit PROVE NetInv
  OBVIOUS
<1>1. config \in Configs /\ status = "load" /\ at = 1 /\ peer = 0 /\ nets = <<>> /\ up = {} /\ net = NoNets
  BY DEF NetInit
<1>2. config \in Seq(NetConfigs) /\ Len(config) \in Nat
  BY <1>1, ConfigAssumption
<1>3. nets \in Seq(Maps) /\ Len(nets) = 0
  BY <1>1
<1>4. DOMAIN net = {} /\ net \in Maps
  <2>1. net \in [{} -> Addrs] /\ DOMAIN net = {}
    BY <1>1 DEF NoNets
  <2>2. QED
    BY <2>1, IsMap
<1>5. NetworksTypeOK
  <2>1. at \in 1..(Len(config) + 1) /\ peer \in Nat /\ up \subseteq DOMAIN config
    BY <1>1, <1>2
  <2>2. QED
    BY <1>1, <1>3, <1>4, <2>1 DEF NetworksTypeOK
<1>6. Progress /\ OwnName /\ Declared
  BY <1>1, <1>2, <1>3, <1>4 DEF Progress, OwnName, Declared
<1>7. QED
  BY <1>5, <1>6 DEF NetInv

\* A client, or a server before its peers, begins with its own address.
LEMMA LoadOwnStep == ASSUME NetInv, LoadOwn PROVE NetInv'
<1> DEFINE own == [x \in {Here.name} |-> Here.ip]
<1>1. /\ status = "load" /\ at <= Len(config) /\ Len(nets) < at
      /\ nets' = Append(nets, own) /\ peer' = 0
      /\ UNCHANGED <<config, status, at, up, net>>
  BY DEF LoadOwn
<1>2. NetworksTypeOK /\ Progress /\ OwnName /\ Declared /\ nets \in Seq(Maps) /\ at \in Nat
      /\ Len(config) \in Nat /\ at \in 1..Len(config) /\ Here \in NetConfigs
  BY <1>1, ConfigType DEF NetInv, NetworksTypeOK, Here
<1>3. own \in Maps /\ DOMAIN own = {Here.name} /\ own[Here.name] = Here.ip
  <2>1. Here.name \in Names /\ Here.ip \in Addrs
    BY <1>2 DEF NetConfigs
  <2>2. own \in [{Here.name} -> Addrs] /\ {Here.name} \in SUBSET Names
    BY <2>1
  <2>3. own \in Maps
    BY <2>2, IsMap
  <2>4. QED
    BY <2>3
<1> HIDE DEF own
<1>4. Len(nets) + 1 = at
  BY <1>1, <1>2 DEF Progress
<1>5. /\ nets' \in Seq(Maps) /\ Len(nets') = at /\ nets'[at] = own
      /\ \A i \in 1..Len(nets) : nets'[i] = nets[i]
  BY <1>1, <1>2, <1>3, <1>4
<1>6. NetworksTypeOK'
  BY <1>1, <1>2, <1>5 DEF NetworksTypeOK
<1>7. Progress'
  BY <1>1, <1>2, <1>5 DEF Progress
<1>8. OwnName'
  <2> SUFFICES ASSUME NEW i \in 1..Len(nets')
               PROVE  DOMAIN nets'[i] = {config[i].name} /\ nets'[i][config[i].name] \in AddrsOf(config[i])
    BY <1>1 DEF OwnName
  <2>1. CASE i = at
    BY <1>3, <1>5, <2>1 DEF Here, AddrsOf
  <2>2. CASE i # at
    <3>1. i \in 1..Len(nets)
      BY <1>2, <1>4, <1>5, <2>2
    <3>2. QED
      BY <1>2, <1>5, <3>1 DEF OwnName
  <2>3. QED
    BY <2>1, <2>2
<1>9. Declared'
  BY <1>1, <1>2 DEF Declared
<1>10. QED
  BY <1>6, <1>7, <1>8, <1>9 DEF NetInv

\* The address of a peer goes under the name of the server.
LEMMA AddPeerStep == ASSUME NetInv, AddPeer PROVE NetInv'
<1> DEFINE p == Here.peers[peer + 1]
           m == Set(nets[at], Here.name, p.ip)
<1>1. /\ status = "load" /\ Len(nets) = at /\ peer < Len(Here.peers)
      /\ UNCHANGED <<config, at, up, net>>
      /\ \/ status' = "crashed" /\ UNCHANGED <<nets, peer>>
         \/ nets' = [nets EXCEPT ![at] = m] /\ peer' = peer + 1 /\ UNCHANGED status
  BY DEF AddPeer
<1>2. NetworksTypeOK /\ Progress /\ OwnName /\ Declared /\ nets \in Seq(Maps)
      /\ Len(config) \in Nat /\ at \in 1..Len(config) /\ Here \in NetConfigs /\ peer \in Nat
  BY <1>1, ConfigType DEF NetInv, NetworksTypeOK, Here, Progress
<1>3. p \in Peers /\ p.ip \in Addrs /\ p.ip \in AddrsOf(Here)
  <2>1. Here.peers \in Seq(Peers) /\ peer + 1 \in 1..Len(Here.peers)
    BY <1>1, <1>2 DEF NetConfigs
  <2>2. p \in Peers /\ peer + 1 \in DOMAIN Here.peers
    BY <2>1
  <2>3. QED
    BY <2>2 DEF Peers, AddrsOf
<1>4. DOMAIN nets[at] = {Here.name} /\ Here.name \in Names
  BY <1>1, <1>2 DEF OwnName, Here, NetConfigs
<1>5. m \in Maps /\ DOMAIN m = {Here.name} /\ m[Here.name] = p.ip
  <2>1. m \in [{Here.name} -> Addrs] /\ {Here.name} \in SUBSET Names
    BY <1>3, <1>4 DEF Set
  <2>2. m \in Maps
    BY <2>1, IsMap
  <2>3. m[Here.name] = p.ip
    BY <1>4 DEF Set
  <2>4. QED
    BY <2>1, <2>2, <2>3
<1> HIDE DEF m, p
<1>6. CASE status' = "crashed" /\ UNCHANGED <<nets, peer>>
  <2>1. NetworksTypeOK'
    BY <1>1, <1>2, <1>6 DEF NetworksTypeOK
  <2>2. (Progress /\ OwnName /\ Declared)'
    BY <1>1, <1>2, <1>6 DEF Progress, OwnName, Declared
  <2>3. QED
    BY <2>1, <2>2 DEF NetInv
<1>7. CASE nets' = [nets EXCEPT ![at] = m] /\ peer' = peer + 1 /\ UNCHANGED status
  <2>1. /\ nets' \in Seq(Maps) /\ Len(nets') = Len(nets) /\ nets'[at] = m
        /\ \A i \in 1..Len(nets) : i # at => nets'[i] = nets[i]
    BY <1>1, <1>2, <1>5, <1>7
  <2>2. NetworksTypeOK'
    BY <1>1, <1>2, <1>7, <2>1 DEF NetworksTypeOK
  <2>3. OwnName'
    <3> SUFFICES ASSUME NEW i \in 1..Len(nets')
                 PROVE  DOMAIN nets'[i] = {config[i].name} /\ nets'[i][config[i].name] \in AddrsOf(config[i])
      BY <1>1 DEF OwnName
    <3>1. CASE i = at
      BY <1>3, <1>5, <2>1, <3>1 DEF Here
    <3>2. CASE i # at
      BY <1>2, <2>1, <3>2 DEF OwnName
    <3>3. QED
      BY <3>1, <3>2
  <2>4. (Progress /\ Declared)'
    BY <1>1, <1>2, <1>7, <2>1 DEF Progress, Declared
  <2>5. QED
    BY <2>2, <2>3, <2>4 DEF NetInv
<1>8. QED
  BY <1>1, <1>6, <1>7

\* The interface is up, or the load has crashed.
LEMMA NewInterfaceStep == ASSUME NetInv, NewInterface PROVE NetInv'
<1>1. /\ status = "load" /\ Len(nets) = at
      /\ \/ at' = at + 1 /\ up' = up \cup {at} /\ UNCHANGED status
         \/ status' = "crashed" /\ UNCHANGED <<at, up>>
      /\ UNCHANGED <<config, peer, nets, net>>
  BY DEF NewInterface
<1>2. NetworksTypeOK /\ Progress /\ OwnName /\ Declared /\ Len(config) \in Nat /\ at \in 1..Len(config)
      /\ config \in Seq(NetConfigs)
  BY <1>1, ConfigType DEF NetInv, NetworksTypeOK, Progress
<1>3. NetworksTypeOK'
  <2>1. at' \in 1..(Len(config) + 1) /\ up' \subseteq DOMAIN config
        /\ status' \in {"load", "crashed"}
    BY <1>1, <1>2 DEF NetworksTypeOK
  <2>2. QED
    BY <1>1, <1>2, <2>1 DEF NetworksTypeOK
<1>4. (Progress /\ OwnName /\ Declared)'
  BY <1>1, <1>2 DEF Progress, OwnName, Declared
<1>5. QED
  BY <1>3, <1>4 DEF NetInv

\* All networks are loaded.
LEMMA LoadEndsStep == ASSUME NetInv, LoadEnds PROVE NetInv'
<1>1. /\ status = "load" /\ at = Len(config) + 1 /\ status' = "merge" /\ at' = 1
      /\ UNCHANGED <<config, peer, nets, up, net>>
  BY DEF LoadEnds
<1>2. NetworksTypeOK /\ Progress /\ OwnName /\ Declared /\ Len(config) \in Nat
  BY ConfigType DEF NetInv
<1>3. NetworksTypeOK'
  BY <1>1, <1>2 DEF NetworksTypeOK
<1>4. Len(nets) = Len(config)
  <2>1. nets \in Seq(Maps)
    BY <1>2 DEF NetworksTypeOK
  <2>2. QED
    BY <1>1, <1>2, <2>1 DEF Progress
<1>5. (Progress /\ OwnName /\ Declared)'
  BY <1>1, <1>2, <1>4 DEF Progress, OwnName, Declared
<1>6. QED
  BY <1>3, <1>5 DEF NetInv

\* The names of one more network are known to the app.
LEMMA MergeStep == ASSUME NetInv, Merge PROVE NetInv'
<1> DEFINE all == [x \in DOMAIN net \cup DOMAIN nets[at] |->
                      IF x \in DOMAIN net THEN net[x] ELSE nets[at][x]]
<1>1. /\ status = "merge" /\ at <= Len(config)
      /\ \/ status' = "failed" /\ UNCHANGED <<at, net>>
         \/ net' = all /\ at' = at + 1 /\ UNCHANGED status
      /\ UNCHANGED <<config, peer, nets, up>>
  BY DEF Merge
<1>2. NetworksTypeOK /\ Progress /\ OwnName /\ Declared /\ Len(config) \in Nat /\ at \in 1..Len(config)
      /\ at \in 1..Len(nets) /\ nets[at] \in Maps /\ net \in Maps
  BY <1>1, ConfigType DEF NetInv, NetworksTypeOK, Progress
<1>3. all \in Maps /\ DOMAIN all = DOMAIN net \cup {config[at].name}
  <2>1. DOMAIN nets[at] = {config[at].name}
    BY <1>2 DEF OwnName
  <2>2. /\ DOMAIN net \in SUBSET Names /\ net \in [DOMAIN net -> Addrs]
        /\ DOMAIN nets[at] \in SUBSET Names /\ nets[at] \in [DOMAIN nets[at] -> Addrs]
    BY <1>2, MapParts
  <2>3. all \in [DOMAIN net \cup DOMAIN nets[at] -> Addrs]
    BY <2>2
  <2>4. all \in Maps
    BY <2>2, <2>3, IsMap
  <2>5. QED
    BY <2>1, <2>4
<1>4. ASSUME NEW n \in DOMAIN all
      PROVE  \E i \in 1..Len(config) : n = config[i].name /\ all[n] \in AddrsOf(config[i])
  <2>1. CASE n \in DOMAIN net
    BY <1>2, <2>1 DEF Declared
  <2>2. CASE n \notin DOMAIN net
    BY <1>2, <1>3, <1>4, <2>2 DEF OwnName
  <2>3. QED
    BY <2>1, <2>2
<1> HIDE DEF all
<1>5. NetworksTypeOK'
  BY <1>1, <1>2, <1>3 DEF NetworksTypeOK
<1>6. (Progress /\ OwnName)'
  BY <1>1, <1>2 DEF Progress, OwnName
<1>7. Declared'
  BY <1>1, <1>2, <1>4 DEF Declared
<1>8. QED
  BY <1>5, <1>6, <1>7 DEF NetInv

\* The last map has been merged: no network changes.
LEMMA MergeEndsStep == ASSUME NetInv, MergeEnds PROVE NetInv'
<1>1. /\ status = "merge" /\ status' = "ok"
      /\ UNCHANGED <<config, at, peer, nets, up, net>>
  BY DEF MergeEnds
<1>2. QED
  BY <1>1 DEF NetInv, NetworksTypeOK, Progress, OwnName, Declared

\* Every step of provisioning point-c keeps the invariant of the networks.
LEMMA NetStep == ASSUME NetInv, ProvisionPointc PROVE NetInv'
BY LoadOwnStep, AddPeerStep, NewInterfaceStep, LoadEndsStep, MergeStep, MergeEndsStep DEF ProvisionPointc

\* Nothing but up may change: a Cleanup.
LEMMA NetKept == ASSUME NetInv, up' \subseteq up, UNCHANGED <<config, status, at, peer, nets, net>>
                 PROVE  NetInv'
<1>1. UNCHANGED config /\ UNCHANGED status /\ UNCHANGED at /\ UNCHANGED peer /\ UNCHANGED nets /\ UNCHANGED net
  OBVIOUS
<1>2. QED
  BY <1>1 DEF NetInv, NetworksTypeOK, Progress, OwnName, Declared
-----------------------------------------------------------------------------
(* Steps of a configuration.                                               *)

LoadInv == NetInv /\ LInv

\* A step that opens, closes and registers nothing, and does not go back.
LEMMA NothingOpened ==
  ASSUME LInv, UNCHANGED <<loaded, open, tunnels, wrapped, bases, dirty>>, up' \subseteq up,
         phase' = "adapt" => phase = "adapt",
         phase' = "provision" => phase \in {"adapt", "provision"},
         phase' = "start" => phase \in {"provision", "start"},
         phase' \in {"failed", "stopped"} => dirty = {}
  PROVE  LInv'
<1>1. /\ UNCHANGED loaded /\ UNCHANGED open /\ UNCHANGED tunnels /\ UNCHANGED wrapped
      /\ UNCHANGED bases /\ UNCHANGED dirty
  OBVIOUS
<1>2. NotStarted'
  BY <1>1 DEF LInv, NotStarted
<1>3. WrappedInOrder'
  BY <1>1 DEF LInv, WrappedInOrder
<1>4. ToClean'
  BY <1>1 DEF LInv, ToClean, NotStarted
<1>5. AllCleaned'
  BY <1>1 DEF AllCleaned, Ended
<1>6. QED
  BY <1>2, <1>3, <1>4, <1>5 DEF LInv

\* ... and of the whole load.
LEMMA LoadInitInv == Init => LoadInv
<1> SUFFICES ASSUME Init PROVE LoadInv
  OBVIOUS
<1>1. NetInv /\ up = {}
  BY NetInitInv DEF Init, NetInit
<1>2. phase = "adapt" /\ dirty = {} /\ wrapped = {} /\ loaded = {} /\ open = {} /\ bases = {} /\ tunnels = {}
  BY DEF Init
<1>3. WrappedInOrder
  BY <1>2, FS_EmptySet DEF WrappedInOrder
<1>4. NotStarted /\ ToClean /\ AllCleaned
  BY <1>1, <1>2 DEF NotStarted, ToClean, AllCleaned, Ended
<1>5. QED
  BY <1>1, <1>3, <1>4 DEF LoadInv, LInv

\* The steps that open nothing.
Quiet ==
    \/ Adapt \/ AdaptEnds
    \/ \E a \in Apps : Provision(a)
    \/ PointcEnds \/ ProvisionEnds
    \/ StartPointc \/ Run \/ StopAll \/ StopEnds \/ CancelEnds

\* Steps that neither provision nor clean up a module.
LEMMA QuietStep == ASSUME LInv, Quiet PROVE LInv' /\ UNCHANGED netVars
<1>1. CASE Adapt \/ AdaptEnds
  <2>1. /\ phase = "adapt" /\ phase' \in {"adapt", "failed", "provision"}
        /\ UNCHANGED <<netVars, loaded, open, tunnels, wrapped, bases, dirty>>
    BY <1>1 DEF Adapt, AdaptEnds, appVars, resourceVars
  <2>2. dirty = {} /\ UNCHANGED up
    BY <2>1 DEF LInv, NotStarted, netVars
  <2>3. QED
    BY <2>1, <2>2, NothingOpened
<1>2. CASE \E a \in Apps : Provision(a)
  <2>1. /\ phase = "provision" /\ UNCHANGED phase
        /\ UNCHANGED <<netVars, loaded, open, tunnels, wrapped, bases, dirty>> /\ UNCHANGED up
    BY <1>2 DEF Provision, appVars, resourceVars, netVars
  <2>2. QED
    BY <2>1, NothingOpened
<1>3. CASE PointcEnds \/ ProvisionEnds
  <2>1. /\ phase = "provision" /\ phase' \in {"provision", "start"}
        /\ UNCHANGED <<netVars, loaded, open, tunnels, wrapped, bases, dirty>> /\ UNCHANGED up
    BY <1>3 DEF PointcEnds, ProvisionEnds, appVars, resourceVars, netVars
  <2>2. QED
    BY <2>1, NothingOpened
<1>4. CASE StartPointc \/ Run
  <2>1. /\ phase = "start" /\ phase' \in {"start", "run"}
        /\ UNCHANGED <<netVars, loaded, open, tunnels, wrapped, bases, dirty>> /\ UNCHANGED up
    BY <1>4 DEF StartPointc, Start, Run, appVars, resourceVars, netVars
  <2>2. QED
    BY <2>1, NothingOpened
<1>5. CASE StopAll \/ StopEnds
  <2>1. /\ phase' \in {"stop", "cancel"}
        /\ UNCHANGED <<netVars, loaded, open, tunnels, wrapped, bases, dirty>> /\ UNCHANGED up
    BY <1>5 DEF StopAll, StopEnds, appVars, resourceVars, netVars
  <2>2. QED
    BY <2>1, NothingOpened
<1>6. CASE CancelEnds
  <2>1. /\ phase' \in {"stopped", "failed"} /\ dirty = {}
        /\ UNCHANGED <<netVars, loaded, open, tunnels, wrapped, bases, dirty>> /\ UNCHANGED up
    BY <1>6 DEF CancelEnds, appVars, resourceVars, netVars
  <2>2. QED
    BY <2>1, NothingOpened
<1>7. QED
  BY <1>1, <1>2, <1>3, <1>4, <1>5, <1>6 DEF Quiet

\* point-c is provisioned: an interface that came up belongs to a module to clean up.
LEMMA LoadPointcStep == ASSUME LInv, LoadPointc PROVE LInv'
<1>1. /\ phase = "provision" /\ phase' \in {"provision", "cancel", "crashed"}
      /\ dirty' = dirty \cup {<<"net", i>> : i \in up' \ up}
      /\ loaded' \in {loaded, loaded \cup {"point-c"}}
      /\ UNCHANGED <<open, tunnels, wrapped, bases>>
  BY DEF LoadPointc, resourceVars
<1>2. UNCHANGED open /\ UNCHANGED tunnels /\ UNCHANGED wrapped /\ UNCHANGED bases
  BY <1>1
<1>3. dirty \subseteq dirty' /\ \A i \in up' : <<"net", i>> \in dirty'
  BY <1>1 DEF LInv, ToClean
<1>4. NotStarted' /\ WrappedInOrder' /\ AllCleaned'
  BY <1>1, <1>2 DEF LInv, NotStarted, WrappedInOrder, AllCleaned, Ended
<1>5. "forward" \in loaded' => <<"forward", 1>> \in dirty'
  BY <1>1, <1>3 DEF LInv, ToClean
<1>6. ToClean'
  BY <1>1, <1>2, <1>3, <1>5 DEF LInv, ToClean
<1>7. QED
  BY <1>4, <1>6 DEF LInv

\* The other steps of Provision.
LEMMA ProvisionForwardsStep == ASSUME LInv, ProvisionForwards PROVE LInv' /\ UNCHANGED netVars
<1>1. /\ phase = "provision" /\ UNCHANGED netVars /\ UNCHANGED up
      /\ UNCHANGED open /\ UNCHANGED tunnels /\ UNCHANGED wrapped /\ UNCHANGED bases
      /\ \/ phase' = "cancel" /\ UNCHANGED loaded /\ UNCHANGED dirty
         \/ /\ loaded' = loaded \cup {"forward"}
            /\ dirty' = dirty \cup {<<"forward", 1>>}
            /\ UNCHANGED phase
  BY DEF ProvisionForwards, netVars
<1>2. NotStarted' /\ WrappedInOrder' /\ AllCleaned'
  BY <1>1 DEF LInv, NotStarted, WrappedInOrder, AllCleaned, Ended
<1>3. dirty \subseteq dirty' /\ (phase' = "provision" => <<"forward", 1>> \in dirty')
  BY <1>1
<1>4. ToClean'
  BY <1>1, <1>3 DEF LInv, ToClean
<1>5. QED
  BY <1>1, <1>2, <1>4 DEF LInv

\* A listener of a wrapper that is not complete yet.
LEMMA ProvisionListenerStep == ASSUME LInv, ProvisionListener PROVE LInv' /\ UNCHANGED netVars
<1>1. /\ phase = "provision" /\ phase' \in {"provision", "cancel"} /\ UNCHANGED netVars /\ UNCHANGED up
      /\ UNCHANGED open /\ UNCHANGED wrapped /\ UNCHANGED bases /\ UNCHANGED loaded /\ UNCHANGED dirty
      /\ tunnels' \in {tunnels, tunnels \cup {<<NextWrapper, NextListener>>}}
  BY DEF ProvisionListener, netVars, appVars
<1>2. NextWrapper \notin wrapped
  BY DEF LInv, WrappedInOrder, NextWrapper
<1>3. \A t \in tunnels' : t[1] \in wrapped => t \in tunnels
  BY <1>1, <1>2
<1>4. NotStarted' /\ WrappedInOrder' /\ AllCleaned'
  BY <1>1 DEF LInv, NotStarted, WrappedInOrder, AllCleaned, Ended
<1>5. ToClean'
  BY <1>1, <1>3 DEF LInv, ToClean
<1>6. QED
  BY <1>1, <1>4, <1>5 DEF LInv

\* All listeners of a wrapper are loaded: its Cleanup will close them.
LEMMA ProvisionMultiStep == ASSUME LInv, ProvisionMulti PROVE LInv' /\ UNCHANGED netVars
<1>1. /\ phase = "provision" /\ UNCHANGED netVars /\ UNCHANGED up
      /\ UNCHANGED open /\ UNCHANGED tunnels /\ UNCHANGED bases /\ UNCHANGED loaded
      /\ \/ phase' = "cancel" /\ UNCHANGED wrapped /\ UNCHANGED dirty
         \/ /\ wrapped' = wrapped \cup {NextWrapper}
            /\ dirty' = dirty \cup {<<"multi", NextWrapper>>}
            /\ UNCHANGED phase
  BY DEF ProvisionMulti, netVars, appVars
<1>2. WrappedInOrder'
  <2>1. CASE UNCHANGED wrapped
    BY <2>1 DEF LInv, WrappedInOrder
  <2>2. CASE wrapped' = wrapped \cup {NextWrapper}
    <3> DEFINE n == Cardinality(wrapped)
    <3>1. n \in Nat /\ wrapped = 1..n
      BY DEF LInv, WrappedInOrder
    <3>2. wrapped' = 1..(n + 1)
      BY <2>2, <3>1 DEF NextWrapper
    <3>3. Cardinality(1..(n + 1)) = n + 1
      BY <3>1, FS_Interval
    <3>4. QED
      BY <3>1, <3>2, <3>3 DEF WrappedInOrder
  <2>3. QED
    BY <1>1, <2>1, <2>2
<1>3. dirty \subseteq dirty' /\ \A w \in wrapped' : <<"multi", w>> \in dirty'
  BY <1>1 DEF LInv, ToClean
<1>4. ToClean'
  BY <1>1, <1>3 DEF LInv, ToClean
<1>5. NotStarted' /\ AllCleaned'
  BY <1>1 DEF LInv, NotStarted, AllCleaned, Ended
<1>6. QED
  BY <1>1, <1>2, <1>4, <1>5 DEF LInv

\* The http app has been loaded.
LEMMA HttpEndsStep == ASSUME LInv, HttpEnds PROVE LInv' /\ UNCHANGED netVars
<1>1. /\ phase = "provision" /\ UNCHANGED phase /\ UNCHANGED netVars /\ UNCHANGED up
      /\ UNCHANGED open /\ UNCHANGED tunnels /\ UNCHANGED wrapped /\ UNCHANGED bases /\ UNCHANGED dirty
      /\ loaded' = loaded \cup {"http"}
  BY DEF HttpEnds, netVars, resourceVars
<1>2. "forward" \in loaded' => "forward" \in loaded
  BY <1>1
<1>3. NotStarted' /\ WrappedInOrder' /\ AllCleaned'
  BY <1>1 DEF LInv, NotStarted, WrappedInOrder, AllCleaned, Ended
<1>4. ToClean'
  BY <1>1, <1>2 DEF LInv, ToClean
<1>5. QED
  BY <1>1, <1>3, <1>4 DEF LInv

\* Start opens the listeners of modules that have a Cleanup, all of them or the first.
LEMMA StartsStep == ASSUME LInv, StartForwards \/ StartHttp PROVE LInv' /\ UNCHANGED netVars
<1>1. /\ phase = "start" /\ phase' \in {"start", "stop"} /\ UNCHANGED netVars /\ UNCHANGED up
      /\ UNCHANGED tunnels /\ UNCHANGED wrapped /\ UNCHANGED loaded /\ UNCHANGED dirty
  BY DEF StartForwards, StartHttp, Start, StartFails, netVars, appVars
<1>2. CASE StartForwards
  <2>1. "forward" \in loaded /\ UNCHANGED bases
    BY <1>2 DEF StartForwards, Start
  <2>2. <<"forward", 1>> \in dirty
    BY <1>1, <2>1 DEF LInv, ToClean
  <2>3. QED
    BY <1>1, <2>1, <2>2 DEF LInv, NotStarted, WrappedInOrder, ToClean, AllCleaned, Ended
<1>3. CASE StartHttp
  <2>1. UNCHANGED open /\ (bases' = wrapped \/ \E k \in wrapped : bases' = 1..(k - 1))
    BY <1>3 DEF StartHttp, Start
  <2>2. bases' \subseteq wrapped
    BY <2>1 DEF LInv, WrappedInOrder
  <2>3. QED
    BY <1>1, <2>1, <2>2 DEF LInv, NotStarted, WrappedInOrder, ToClean, AllCleaned, Ended
<1>4. QED
  BY <1>2, <1>3

\* Stop closes the listeners of the forwarders, Cleanup what its module has open.
LEMMA StopStep == ASSUME LInv, NEW a \in Apps, Stop(a) PROVE LInv' /\ UNCHANGED netVars
<1>1. /\ phase = "stop" /\ UNCHANGED phase /\ UNCHANGED netVars /\ UNCHANGED up
      /\ UNCHANGED tunnels /\ UNCHANGED wrapped /\ UNCHANGED bases /\ UNCHANGED loaded /\ UNCHANGED dirty
      /\ open' \in {open, {}}
  BY DEF Stop, netVars
<1>2. QED
  BY <1>1 DEF LInv, NotStarted, WrappedInOrder, ToClean, AllCleaned, Ended

\* Cleanup of one network, ...
LEMMA CleanNetStep == ASSUME LInv, NEW i \in up, CleanNet(i)
                      PROVE  LInv' /\ up' \subseteq up /\ UNCHANGED <<config, status, at, peer, nets, net>>
<1>1. /\ phase = "cancel" /\ UNCHANGED phase /\ dirty' = dirty \ {<<"net", i>>} /\ up' = up \ {i}
      /\ UNCHANGED open /\ UNCHANGED tunnels /\ UNCHANGED wrapped /\ UNCHANGED bases /\ UNCHANGED loaded
      /\ UNCHANGED <<config, status, at, peer, nets, net>>
  BY DEF CleanNet, Clean, appVars, resourceVars
<1>2. NotStarted' /\ WrappedInOrder' /\ AllCleaned'
  BY <1>1 DEF LInv, NotStarted, WrappedInOrder, AllCleaned, Ended
<1>3. ToClean'
  BY <1>1 DEF LInv, ToClean
<1>4. QED
  BY <1>1, <1>2, <1>3 DEF LInv

\* ... of the forwards app, ...
LEMMA CleanForwardsStep == ASSUME LInv, CleanForwards PROVE LInv' /\ UNCHANGED netVars
<1>1. /\ phase = "cancel" /\ UNCHANGED phase /\ dirty' = dirty \ {<<"forward", 1>>} /\ open' = {}
      /\ UNCHANGED tunnels /\ UNCHANGED wrapped /\ UNCHANGED bases /\ UNCHANGED loaded
      /\ UNCHANGED netVars /\ UNCHANGED up
  BY DEF CleanForwards, Clean, appVars, netVars
<1>2. NotStarted' /\ WrappedInOrder' /\ AllCleaned'
  BY <1>1 DEF LInv, NotStarted, WrappedInOrder, AllCleaned, Ended
<1>3. ToClean'
  BY <1>1 DEF LInv, ToClean
<1>4. QED
  BY <1>1, <1>2, <1>3 DEF LInv

\* ... and of one listener wrapper.
LEMMA CleanMultiStep == ASSUME LInv, NEW w \in wrapped, CleanMulti(w) PROVE LInv' /\ UNCHANGED netVars
<1>1. /\ phase = "cancel" /\ UNCHANGED phase /\ dirty' = dirty \ {<<"multi", w>>}
      /\ bases' = bases \ {w} /\ tunnels' = {t \in tunnels : t[1] # w}
      /\ UNCHANGED open /\ UNCHANGED wrapped /\ UNCHANGED loaded /\ UNCHANGED netVars /\ UNCHANGED up
  BY DEF CleanMulti, Clean, appVars, netVars
<1>2. NotStarted' /\ WrappedInOrder' /\ AllCleaned'
  BY <1>1 DEF LInv, NotStarted, WrappedInOrder, AllCleaned, Ended
<1>3. ToClean'
  BY <1>1 DEF LInv, ToClean
<1>4. QED
  BY <1>1, <1>2, <1>3 DEF LInv

\* Every step keeps the invariant.
LEMMA LoadStep == LoadInv /\ [Next]_vars => LoadInv'
<1> SUFFICES ASSUME LoadInv, [Next]_vars PROVE LoadInv'
  OBVIOUS
<1>1. NetInv /\ LInv
  BY DEF LoadInv
<1>2. ASSUME LInv', UNCHANGED netVars PROVE LoadInv'
  BY <1>1, <1>2, NetKept DEF netVars, LoadInv
<1>3. CASE Quiet
  BY <1>1, <1>2, <1>3, QuietStep
<1>4. CASE LoadPointc
  BY <1>1, <1>4, LoadPointcStep, NetStep DEF LoadPointc, LoadInv
<1>5. CASE ProvisionForwards
  BY <1>1, <1>2, <1>5, ProvisionForwardsStep
<1>6. CASE ProvisionListener
  BY <1>1, <1>2, <1>6, ProvisionListenerStep
<1>7. CASE ProvisionMulti
  BY <1>1, <1>2, <1>7, ProvisionMultiStep
<1>8. CASE HttpEnds
  BY <1>1, <1>2, <1>8, HttpEndsStep
<1>9. CASE StartForwards \/ StartHttp
  BY <1>1, <1>2, <1>9, StartsStep
<1>10. CASE \E a \in Apps : Stop(a)
  BY <1>1, <1>2, <1>10, StopStep
<1>11. CASE \E i \in up : CleanNet(i)
  BY <1>1, <1>11, CleanNetStep, NetKept DEF LoadInv
<1>12. CASE CleanForwards
  BY <1>1, <1>2, <1>12, CleanForwardsStep
<1>13. CASE \E w \in wrapped : CleanMulti(w)
  BY <1>1, <1>2, <1>13, CleanMultiStep
<1>14. CASE UNCHANGED vars
  <2>1. UNCHANGED netVars /\ UNCHANGED up /\ UNCHANGED phase
        /\ UNCHANGED <<loaded, open, tunnels, wrapped, bases, dirty>>
    BY <1>14 DEF vars, appVars, resourceVars, netVars
  <2>2. (phase \in {"failed", "stopped"} => dirty = {})
    BY <1>1 DEF LInv, AllCleaned, Ended
  <2>3. LInv'
    BY <1>1, <2>1, <2>2, NothingOpened
  <2>4. QED
    BY <1>2, <2>1, <2>3
<1>15. QED
  BY <1>3, <1>4, <1>5, <1>6, <1>7, <1>8, <1>9, <1>10, <1>11, <1>12, <1>13, <1>14 DEF Next, Quiet

\* The invariant holds always.
LEMMA LoadInvariant == Spec => []LoadInv
BY LoadInitInv, LoadStep, PTL DEF Spec
-----------------------------------------------------------------------------
(* The forwarders: from the blocks of the Caddyfile to the app.           *)

\* The blocks are as PlansAssumption says.
LEMMA FileType ==
  ASSUME NEW p \in Plans, file = p.file
  PROVE  /\ Len(file) \in Nat /\ DOMAIN file = 1..Len(file)
         /\ \A i \in 1..Len(file) :
                /\ Len(file[i].args) \in Nat /\ DOMAIN file[i].args = 1..Len(file[i].args)
                /\ Len(file[i].body) \in Nat /\ DOMAIN file[i].body = 1..Len(file[i].body)
                /\ \A l \in 1..Len(file[i].body) :
                       /\ Len(file[i].body[l]) \in Nat
                       /\ DOMAIN file[i].body[l] = 1..Len(file[i].body[l])
<1>1. file \in Seq(ToSet(file))
  BY PlansAssumption
<1>2. ASSUME NEW i \in 1..Len(file)
      PROVE  /\ file[i].args \in Seq(ToSet(file[i].args)) /\ file[i].body \in Seq(ToSet(file[i].body))
             /\ \A line \in ToSet(file[i].body) : line \in Seq(ToSet(line))
  <2>1. file[i] \in ToSet(file)
    BY <1>1 DEF ToSet
  <2>2. QED
    BY <2>1, PlansAssumption
<1>3. ASSUME NEW i \in 1..Len(file), NEW l \in 1..Len(file[i].body)
      PROVE  file[i].body[l] \in Seq(ToSet(file[i].body[l]))
  <2>1. file[i].body[l] \in ToSet(file[i].body)
    BY <1>2 DEF ToSet
  <2>2. QED
    BY <1>2, <2>1
<1>4. QED
  BY <1>1, <1>2, <1>3

\* The sequence s has the words of S, in the order they are written.
Lists(s, S) ==
    /\ s \in Seq(S)
    /\ \A w \in S : \E n \in 1..Len(s) : s[n] = w
    /\ \A m, n \in 1..Len(s) : m < n => Before(s[m], s[n])

\* Lists of words each of which is written before those of the next are a list.
LEMMA FlattenLists ==
  ASSUME NEW m \in Nat, NEW q, q = [i \in 1..m |-> q[i]], NEW S, \A i \in 1..m : Lists(q[i], S[i]),
         \A i, j \in 1..m : i < j => \A v \in S[i], w \in S[j] : Before(v, w)
  PROVE  Lists(FlattenSeq(q), UNION {S[i] : i \in 1..m})
<1> DEFINE X == UNION {S[i] : i \in 1..m}
           F == FlattenSeq(q)
<1>1. \A i \in 1..m : q[i] \in Seq(S[i]) /\ S[i] \subseteq X
  BY DEF Lists
<1> HIDE DEF X
<1>2. \A i \in 1..m : q[i] \in Seq(X)
  BY <1>1
<1>3. q \in Seq(Seq(X)) /\ Len(q) = m
  BY <1>2, FunctionSeq
<1>4. F \in Seq(X) /\ Len(F) \in Nat
  BY <1>3, FlattenBlocks
<1>5. PICK off : /\ Offsets(off, q)
                 /\ \A i \in 1..m : \A j \in 1..Len(q[i]) : F[off[i] + j] = q[i][j]
                 /\ \A i, j \in 1..m : i < j => off[i] + Len(q[i]) <= off[j]
                 /\ \A i \in 1..m : off[i] + Len(q[i]) <= Len(F)
                 /\ \A k \in 1..Len(F) : \E i \in 1..m : k - off[i] \in 1..Len(q[i])
  BY <1>3, FlattenBlocks
<1>6. \A i \in 1..m : off[i] \in Nat /\ Len(q[i]) \in Nat
  <2>1. off \in [1..(m + 1) -> Nat] /\ \A i \in 1..m : i \in 1..(m + 1)
    BY <1>3, <1>5 DEF Offsets
  <2>2. QED
    BY <1>1, <2>1
<1> HIDE DEF F
<1>7. ASSUME NEW k \in 1..Len(F)
      PROVE  \E i \in 1..m : \E j \in 1..Len(q[i]) : k = off[i] + j /\ F[k] = q[i][j] /\ F[k] \in S[i]
  <2>1. PICK i \in 1..m : k - off[i] \in 1..Len(q[i])
    BY <1>5
  <2>2. PICK j \in 1..Len(q[i]) : j = k - off[i]
    BY <2>1
  <2>3. k = off[i] + j
    BY <1>4, <1>6, <2>2
  <2>4. q[i][j] \in S[i]
    BY <1>1
  <2>5. QED
    BY <1>5, <2>3, <2>4
<1>8. ASSUME NEW w \in X PROVE \E n \in 1..Len(F) : F[n] = w
  <2>1. PICK i \in 1..m : w \in S[i]
    BY DEF X
  <2>2. PICK j \in 1..Len(q[i]) : q[i][j] = w
    BY <2>1 DEF Lists
  <2>3. off[i] + j \in 1..Len(F)
    BY <1>4, <1>5, <1>6
  <2>4. QED
    BY <1>5, <2>2, <2>3
<1>9. ASSUME NEW k \in 1..Len(F), NEW n \in 1..Len(F), k < n PROVE Before(F[k], F[n])
  <2>1. PICK i \in 1..m : \E j \in 1..Len(q[i]) : k = off[i] + j /\ F[k] = q[i][j] /\ F[k] \in S[i]
    BY <1>7
  <2>2. PICK a \in 1..Len(q[i]) : k = off[i] + a /\ F[k] = q[i][a] /\ F[k] \in S[i]
    BY <2>1
  <2>3. PICK j \in 1..m : \E c \in 1..Len(q[j]) : n = off[j] + c /\ F[n] = q[j][c] /\ F[n] \in S[j]
    BY <1>7
  <2>4. PICK c \in 1..Len(q[j]) : n = off[j] + c /\ F[n] = q[j][c] /\ F[n] \in S[j]
    BY <2>3
  <2>5. CASE i = j
    <3>1. a < c
      BY <1>6, <1>9, <2>2, <2>4, <2>5
    <3>2. QED
      BY <2>2, <2>4, <2>5, <3>1 DEF Lists
  <2>6. CASE i < j
    BY <2>2, <2>4, <2>6
  <2>7. CASE j < i
    <3>1. off[j] + Len(q[j]) <= off[i]
      BY <1>5, <2>7
    <3>2. n < k
      BY <1>6, <2>2, <2>4, <3>1
    <3>3. QED
      BY <1>9, <3>2
  <2>8. QED
    BY <2>5, <2>6, <2>7
<1>10. QED
  BY <1>4, <1>8, <1>9 DEF Lists, X, F

\* No words are listed by the empty sequence, a single word is by itself.
LEMMA ListsFew == Lists(<<>>, {}) /\ \A w : Lists(<<w>>, {w})
<1>1. Lists(<<>>, {})
  BY DEF Lists
<1>2. ASSUME NEW w PROVE Lists(<<w>>, {w})
  <2>1. <<w>> \in Seq({w}) /\ Len(<<w>>) = 1 /\ <<w>>[1] = w
    OBVIOUS
  <2>2. QED
    BY <2>1 DEF Lists
<1>3. QED
  BY <1>1, <1>2

\* A port pair that was parsed: what its parts stand for, however it was written.
LEMMA PairParts ==
  ASSUME NEW t, PortPair(t) # {}, NEW n, Len(t.parts) = n
  PROVE  /\ n \in 2..3
         /\ PairOf(t).udp <=> t.proto = "udp"
         /\ PairOf(t).dst = Numbers[caddyReplacer(t.parts[n])]
         /\ PairOf(t).src = Numbers[caddyReplacer(t.parts[n - 1])]
         /\ PairOf(t).host = IF n = 3 THEN IPs[caddyReplacer(t.parts[1])] ELSE Empty
<1>1. n \in 2..3 /\ ~(Len(t.parts) \notin 2..3 \/ t.proto \notin {"none", "tcp", "udp"})
  BY DEF PortPair
<1>2. PairOf(t) \in PortPair(t)
  BY DEF PairOf
<1>3. PICK h \in Hosts(t), s \in Port(Src(t)), d \in Port(Dst(t)) :
          PairOf(t) = [host |-> h, src |-> s, dst |-> d, udp |-> t.proto = "udp"]
  BY <1>1, <1>2 DEF PortPair
<1>4. s = Numbers[caddyReplacer(Src(t))] /\ d = Numbers[caddyReplacer(Dst(t))]
  BY DEF Port, ValueUnsigned
<1>5. (Len(t.parts) > 2 <=> n = 3) /\ (n # 3 => n = 2) /\ 3 - 1 = 2 /\ 2 - 1 = 1
  BY <1>1
<1>6. Src(t) = t.parts[n - 1] /\ Dst(t) = t.parts[n]
  BY <1>5 DEF Src, Dst
<1>7. h = IF n = 3 THEN IPs[caddyReplacer(t.parts[1])] ELSE Empty
  <2>1. h \in IF n = 3 THEN IP(t.parts[1]) ELSE {Empty}
    BY <1>5 DEF Hosts
  <2>2. QED
    BY <2>1 DEF IP, ValueIP
<1>8. /\ PairOf(t).udp = (t.proto = "udp")
      /\ PairOf(t).host = h /\ PairOf(t).src = s /\ PairOf(t).dst = d
  BY <1>3
<1>9. PairOf(t).udp <=> t.proto = "udp"
  BY <1>8
<1>10. QED
  BY <1>1, <1>4, <1>6, <1>7, <1>8, <1>9

\* The value of a name.
LEMMA NameIs == ASSUME NEW t PROVE NameOf(t) = caddyReplacer(t)
BY DEF NameOf, Hostname, ValueString

\* The forwarder of a pair does what the pair says.
LEMMA PairMet ==
  ASSUME NEW w, PortPair(Word(w)) # {}, NEW name, name = file[w[1]].args[Len(file[w[1]].args)],
         NameOf(name) \in DOMAIN net
  PROVE  Meets(tcpForwarder(NameOf(name), PairOf(Word(w))), w)
<1> DEFINE t == Word(w)
           n == Len(t.parts)
           p == PairOf(t)
           host == IF n = 3 THEN IPs[caddyReplacer(t.parts[1])] ELSE Empty
<1>1. /\ p.dst = Numbers[caddyReplacer(t.parts[n])] /\ p.src = Numbers[caddyReplacer(t.parts[n - 1])]
      /\ p.host = host
  BY PairParts
<1>2. NameOf(name) = caddyReplacer(name)
  BY NameIs
<1> DEFINE f == tcpForwarder(NameOf(name), p)
<1>3. f.net = net[caddyReplacer(name)] /\ f.dst = p.dst
      /\ (host \notin IPv6 => f.addr = [host |-> <<host>>, port |-> p.src])
  BY <1>1, <1>2 DEF tcpForwarder, Lookup, ParseNetworkAddress
<1> HIDE DEF f, p
<1>4. QED
  BY <1>1, <1>2, <1>3 DEF Meets, f, p

\* The places of the words of the i-th block that are used, and those it asks for.
Spots(i) == FlattenSeq([l \in DOMAIN file[i].body |->
                           [j \in 1..(Len(file[i].body[l]) \div 2) |-> <<i, l, 2 * j>>]])
AskedOf(i) == FlattenSeq([k \in DOMAIN Spots(i) |->
                             IF Word(Spots(i)[k]).proto = "udp" THEN <<>> ELSE <<Spots(i)[k]>>])

\* The even places of a block.
EvenPlaces(i) == {w \in Places : w[1] = i /\ w[3] % 2 = 0}

\* The places of the block i: those of its lines.
LEMMA PlacesOf ==
  ASSUME NEW p \in Plans, file = p.file, NEW i \in 1..Len(file)
  PROVE  EvenPlaces(i) = UNION {{<<i, l, 2 * j>> : j \in 1..(Len(file[i].body[l]) \div 2)} :
                                    l \in 1..Len(file[i].body)}
<1> DEFINE b == file[i].body
           Of(l) == {<<i, l, 2 * j>> : j \in 1..(Len(b[l]) \div 2)}
<1>1. /\ DOMAIN file = 1..Len(file) /\ DOMAIN b = 1..Len(b)
      /\ \A l \in 1..Len(b) : Len(b[l]) \in Nat /\ DOMAIN b[l] = 1..Len(b[l])
  BY FileType
<1>2. ASSUME NEW w \in EvenPlaces(i) PROVE \E l \in 1..Len(b) : w \in Of(l)
  <2>0. \E l \in DOMAIN b : \E k \in DOMAIN b[l] : w = <<i, l, k>> /\ k % 2 = 0
    <3>1. PICK h \in DOMAIN file : \E l \in DOMAIN file[h].body : \E k \in DOMAIN file[h].body[l] : w = <<h, l, k>>
      BY DEF EvenPlaces, Places
    <3>2. h = i /\ w[3] % 2 = 0
      BY <3>1 DEF EvenPlaces
    <3>3. QED
      BY <3>1, <3>2
  <2>1. PICK l \in DOMAIN b : \E k \in DOMAIN b[l] : w = <<i, l, k>> /\ k % 2 = 0
    BY <2>0
  <2>9. PICK k \in DOMAIN b[l] : w = <<i, l, k>> /\ k % 2 = 0
    BY <2>1
  <2>2. l \in 1..Len(b) /\ k \in 1..Len(b[l]) /\ Len(b[l]) \in Nat
    BY <1>1
  <2> DEFINE j == k \div 2
             n == Len(b[l])
  <2> HIDE DEF n, b
  <2>3. j \in 1..(n \div 2) /\ k = 2 * j
    BY <2>9, <2>2 DEF n
  <2>4. w \in Of(l)
    BY <2>9, <2>3 DEF n
  <2>5. QED
    BY <2>2, <2>4
<1>3. ASSUME NEW l \in 1..Len(b), NEW w \in Of(l) PROVE w \in EvenPlaces(i)
  <2> DEFINE n == Len(b[l])
  <2>1. n \in Nat /\ l \in DOMAIN b /\ i \in DOMAIN file /\ DOMAIN b[l] = 1..n
    BY <1>1
  <2> HIDE DEF n
  <2>2. PICK j \in 1..(n \div 2) : w = <<i, l, 2 * j>>
    BY <1>3 DEF n
  <2>3. 2 * j \in 1..n /\ (2 * j) % 2 = 0
    BY <2>1
  <2>4. w \in Places
    BY <2>1, <2>2, <2>3 DEF Places
  <2>5. w[1] = i /\ w[3] = 2 * j
    BY <2>2
  <2>6. QED
    BY <2>3, <2>4, <2>5 DEF EvenPlaces
<1> HIDE DEF Of
<1>4. EvenPlaces(i) = UNION {Of(l) : l \in 1..Len(b)}
  BY <1>2, <1>3
<1>5. {Of(l) : l \in 1..Len(b)} = {{<<i, l, 2 * j>> : j \in 1..(Len(b[l]) \div 2)} : l \in 1..Len(b)}
  BY DEF Of
<1>6. QED
  BY <1>4, <1>5

\* Spots are these places in order, and at them are the words that are used.
LEMMA SpotsList ==
  ASSUME NEW p \in Plans, file = p.file, NEW i \in 1..Len(file)
  PROVE  /\ Lists(Spots(i), EvenPlaces(i))
         /\ UsedTokens(file[i].body) \in Seq(ToSet(UsedTokens(file[i].body)))
         /\ Len(UsedTokens(file[i].body)) = Len(Spots(i))
         /\ \A k \in 1..Len(Spots(i)) : Word(Spots(i)[k]) = UsedTokens(file[i].body)[k]
<1> DEFINE b == file[i].body
           half(l) == Len(b[l]) \div 2
           q == [l \in DOMAIN b |-> [j \in 1..(Len(b[l]) \div 2) |-> <<i, l, 2 * j>>]]
           r == [l \in DOMAIN b |-> Used(b[l])]
           S == [l \in 1..Len(b) |-> {<<i, l, 2 * j>> : j \in 1..(Len(b[l]) \div 2)}]
           X == EvenPlaces(i)
           Y == UNION {ToSet(r[l]) : l \in 1..Len(b)}
<1>1. /\ Len(b) \in Nat /\ DOMAIN b = 1..Len(b)
      /\ \A l \in 1..Len(b) : Len(b[l]) \in Nat /\ half(l) \in Nat
  <2>1. Len(b) \in Nat /\ DOMAIN b = 1..Len(b) /\ \A l \in 1..Len(b) : Len(b[l]) \in Nat
    BY FileType
  <2>2. \A n \in Nat : n \div 2 \in Nat
    OBVIOUS
  <2>3. QED
    BY <2>1, <2>2
<1>2. Spots(i) = FlattenSeq(q) /\ UsedTokens(b) = FlattenSeq(r)
  BY DEF Spots, UsedTokens
<1>3. ASSUME NEW l \in 1..Len(b)
      PROVE  /\ Lists(q[l], S[l]) /\ q[l] \in Seq(X) /\ Len(q[l]) = half(l)
             /\ r[l] \in Seq(Y) /\ Len(r[l]) = half(l)
             /\ \A j \in 1..half(l) : q[l][j] = <<i, l, 2 * j>> /\ r[l][j] = b[l][2 * j]
  <2> DEFINE n == half(l)
             s == [j \in 1..n |-> <<i, l, 2 * j>>]
             t == [j \in 1..n |-> b[l][2 * j]]
             Z == {<<i, l, 2 * j>> : j \in 1..n}
  <2>1. q[l] = s /\ r[l] = t /\ S[l] = Z /\ n \in Nat
    BY <1>1 DEF Used
  <2> HIDE DEF n
  <2>2. s \in Seq(Z) /\ Len(s) = n /\ \A j \in 1..n : s[j] = <<i, l, 2 * j>>
    <3>1. s = [j \in 1..n |-> s[j]] /\ \A j \in 1..n : s[j] = <<i, l, 2 * j>> /\ s[j] \in Z
      OBVIOUS
    <3> HIDE DEF s, Z
    <3>2. QED
      <4>1. \A j \in 1..n : s[j] \in Z
        BY <3>1
      <4>2. s = [j \in 1..n |-> s[j]] /\ n \in Nat
        BY <2>1, <3>1
      <4>3. s \in Seq(Z) /\ Len(s) = n
        BY ONLY <4>1, <4>2, FunctionSeq
      <4>4. QED
        BY <3>1, <4>3
  <2>3. t \in Seq(ToSet(t)) /\ Len(t) = n /\ \A j \in 1..n : t[j] = b[l][2 * j]
    <3>1. DOMAIN t = 1..n /\ \A j \in 1..n : t[j] = b[l][2 * j]
      OBVIOUS
    <3>2. t = [j \in 1..n |-> t[j]] /\ \A j \in 1..n : t[j] \in {b[l][2 * k] : k \in 1..n}
      OBVIOUS
    <3> HIDE DEF t
    <3>3. t \in Seq({b[l][2 * j] : j \in 1..n}) /\ Len(t) = n
      <4> DEFINE W == {b[l][2 * k] : k \in 1..n}
      <4>1. (\A j \in 1..n : t[j] \in W) /\ n \in Nat /\ t = [j \in 1..n |-> t[j]]
        BY <2>1, <3>2
      <4> HIDE DEF W
      <4>2. t \in Seq(W) /\ Len(t) = n
        BY ONLY <4>1, FunctionSeq
      <4>3. QED
        BY <4>2 DEF W
    <3>4. QED
      BY <3>1, <3>3, OwnType
  <2>4. Z \subseteq X
    <3>1. Z = {<<i, l, 2 * j>> : j \in 1..(Len(file[i].body[l]) \div 2)}
      BY DEF n
    <3>2. Z \in {{<<i, c, 2 * j>> : j \in 1..(Len(file[i].body[c]) \div 2)} : c \in 1..Len(file[i].body)}
      BY <3>1
    <3> HIDE DEF Z
    <3>3. QED
      BY <3>2, PlacesOf
  <2>5. ToSet(t) \subseteq Y
    <3>1. ToSet(r[l]) \subseteq Y
      OBVIOUS
    <3>2. QED
      BY <2>1, <3>1
  <2> HIDE DEF s, t, X, Y, q, r, S
  <2>6. Lists(s, Z)
    <3>1. \A w \in Z : \E j \in 1..n : s[j] = w
      BY <2>2
    <3>2. ASSUME NEW j \in 1..n, NEW k \in 1..n, j < k PROVE Before(s[j], s[k])
      <4>1. 2 * j < 2 * k
        BY <2>1, <3>2
      <4>2. s[j] = <<i, l, 2 * j>> /\ s[k] = <<i, l, 2 * k>>
        BY <2>2
      <4>3. QED
        BY <4>1, <4>2 DEF Before
    <3>3. QED
      BY <2>2, <3>1, <3>2 DEF Lists
  <2>7. s \in Seq(X) /\ t \in Seq(Y)
    BY <2>2, <2>3, <2>4, <2>5
  <2>8. QED
    BY <2>1, <2>2, <2>3, <2>6, <2>7 DEF n
<1>4. q = [l \in 1..Len(b) |-> q[l]] /\ r = [l \in 1..Len(b) |-> r[l]]
  BY <1>1
<1>5. ASSUME NEW h \in 1..Len(b), NEW l \in 1..Len(b), h < l, NEW v \in S[h], NEW w \in S[l] PROVE Before(v, w)
  <2>1. PICK j \in 1..half(h) : v = <<i, h, 2 * j>>
    OBVIOUS
  <2>2. PICK k \in 1..half(l) : w = <<i, l, 2 * k>>
    OBVIOUS
  <2>3. QED
    BY <1>5, <2>1, <2>2 DEF Before
<1>6. UNION {S[l] : l \in 1..Len(b)} = X
  <2>1. {S[l] : l \in 1..Len(b)} = {{<<i, l, 2 * j>> : j \in 1..(Len(b[l]) \div 2)} : l \in 1..Len(b)}
    OBVIOUS
  <2>2. QED
    BY <2>1, PlacesOf
<1> HIDE DEF q, r, S, X, Y, half
<1>7. Lists(FlattenSeq(q), X)
  <2> DEFINE m == Len(b)
  <2>1. m \in Nat /\ q = [l \in 1..m |-> q[l]]
    BY <1>1, <1>4
  <2>2. \A l \in 1..m : Lists(q[l], S[l])
    BY <1>3
  <2>3. \A h, l \in 1..m : h < l => \A v \in S[h], w \in S[l] : Before(v, w)
    BY <1>5
  <2>4. UNION {S[l] : l \in 1..m} = X
    BY <1>6
  <2> HIDE DEF m
  <2>5. Lists(FlattenSeq(q), UNION {S[l] : l \in 1..m})
    BY <2>1, <2>2, <2>3, FlattenLists
  <2>6. QED
    BY <2>4, <2>5
<1>8. q \in Seq(Seq(X)) /\ Len(q) = Len(b) /\ r \in Seq(Seq(Y)) /\ Len(r) = Len(b)
  <2> DEFINE m == Len(b)
  <2>0. m \in Nat /\ (\A l \in 1..m : q[l] \in Seq(X)) /\ (\A l \in 1..m : r[l] \in Seq(Y))
        /\ q = [l \in 1..m |-> q[l]] /\ r = [l \in 1..m |-> r[l]]
    BY <1>1, <1>3, <1>4
  <2> HIDE DEF m
  <2>1. q \in Seq(Seq(X)) /\ Len(q) = m
    BY ONLY <2>0, FunctionSeq
  <2>2. r \in Seq(Seq(Y)) /\ Len(r) = m
    BY ONLY <2>0, FunctionSeq
  <2>3. QED
    BY <2>1, <2>2 DEF m
<1>9. SamePlaces(q, r)
  <2>1. Alike(q, r)
    BY <1>3, <1>8 DEF Alike
  <2>2. QED
    BY <1>8, <2>1, FlattenAlike
<1>10. ASSUME NEW k \in 1..Len(FlattenSeq(q)) PROVE Word(FlattenSeq(q)[k]) = FlattenSeq(r)[k]
  <2>1. PICK l \in 1..Len(q) : \E j \in 1..Len(q[l]) : FlattenSeq(q)[k] = q[l][j] /\ FlattenSeq(r)[k] = r[l][j]
    BY <1>9 DEF SamePlaces
  <2>2. PICK j \in 1..half(l) : FlattenSeq(q)[k] = q[l][j] /\ FlattenSeq(r)[k] = r[l][j]
    BY <1>3, <1>8, <2>1
  <2>3. FlattenSeq(q)[k] = <<i, l, 2 * j>> /\ FlattenSeq(r)[k] = b[l][2 * j]
    BY <1>3, <1>8, <2>2
  <2>4. QED
    BY <2>3 DEF Word
<1>11. FlattenSeq(r) \in Seq(ToSet(FlattenSeq(r)))
  <2>1. FlattenSeq(r) \in Seq(Y)
    BY <1>8, FlattenBlocks
  <2>2. QED
    BY <2>1, OwnType
<1>12. QED
  BY <1>2, <1>7, <1>9, <1>10, <1>11 DEF SamePlaces, X

\* A block without an error: names for as many directives as begin on its line, and pairs that
\* can be parsed.
Valid(b) ==
    /\ Len(b.args) % 2 = 1
    /\ \A k \in DOMAIN UsedTokens(b.body) : PortPair(UsedTokens(b.body)[k]) # {}

\* The name of the directive that the body belongs to.
NameOfBlock(b) == b.args[Len(b.args)]

\* What the i-th block asks for.
AskedIn(i) == {w \in Asked : w[1] = i}

\* The words AskedOf lists, as AskedOf is: those of the even places that are not of UDP.
LEMMA AskedList ==
  ASSUME NEW p \in Plans, file = p.file, NEW i \in 1..Len(file)
  PROVE  Lists(AskedOf(i), AskedIn(i))
<1> DEFINE s == Spots(i)
           m == Len(s)
           r == [k \in DOMAIN s |-> IF Word(s[k]).proto = "udp" THEN <<>> ELSE <<s[k]>>]
           S == [k \in 1..m |-> IF Word(s[k]).proto = "udp" THEN {} ELSE {s[k]}]
<1>1. Lists(s, EvenPlaces(i))
  BY SpotsList
<1>2. m \in Nat /\ DOMAIN s = 1..m /\ \A k \in 1..m : s[k] \in EvenPlaces(i)
  BY <1>1 DEF Lists
<1>3. AskedOf(i) = FlattenSeq(r)
  BY DEF AskedOf
<1>4. r = [k \in 1..m |-> r[k]] /\ \A k \in 1..m : Lists(r[k], S[k])
  <2>1. \A k \in 1..m : r[k] = IF Word(s[k]).proto = "udp" THEN <<>> ELSE <<s[k]>>
    BY <1>2
  <2>2. \A k \in 1..m : S[k] = IF Word(s[k]).proto = "udp" THEN {} ELSE {s[k]}
    OBVIOUS
  <2>3. r = [k \in 1..m |-> r[k]]
    BY <1>2
  <2> HIDE DEF r, S, s
  <2>4. QED
    BY <2>1, <2>2, <2>3, ListsFew
<1>5. \A h, k \in 1..m : h < k => \A v \in S[h], w \in S[k] : Before(v, w)
  <2>1. \A h, k \in 1..m : h < k => Before(s[h], s[k])
    BY <1>1 DEF Lists
  <2>2. \A k \in 1..m : S[k] \subseteq {s[k]}
    OBVIOUS
  <2> HIDE DEF S, s
  <2>3. QED
    BY <2>1, <2>2
<1>6. UNION {S[k] : k \in 1..m} = AskedIn(i)
  <2>1. \A w : w \in AskedIn(i) <=> w \in EvenPlaces(i) /\ Word(w).proto # "udp"
    BY DEF AskedIn, Asked, EvenPlaces
  <2>2. \A w \in EvenPlaces(i) : \E k \in 1..m : s[k] = w
    BY <1>1 DEF Lists
  <2>3. \A k \in 1..m : \A w : w \in S[k] <=> w = s[k] /\ Word(s[k]).proto # "udp"
    OBVIOUS
  <2> HIDE DEF S, s, m
  <2>4. QED
    BY <1>2, <2>1, <2>2, <2>3
<1> HIDE DEF r, S, s, m
<1>7. QED
  BY <1>2, <1>3, <1>4, <1>5, <1>6, FlattenLists

\* The loop over the ports of a block makes the forwarders that the block asks for.
LEMMA BlockForwarded ==
  ASSUME NEW p \in Plans, file = p.file, NEW i \in 1..Len(file), Valid(file[i]),
         NEW f, f.name = NameOfBlock(file[i]), f.ports = UsedTokens(file[i].body),
         NameOf(f.name) \in DOMAIN net
  PROVE  /\ Forwarders(f) \in Seq(ToSet(Forwarders(f)))
         /\ Len(Forwarders(f)) = Len(AskedOf(i))
         /\ \A k \in 1..Len(Forwarders(f)) : Meets(Forwarders(f)[k], AskedOf(i)[k])
<1> DEFINE s == Spots(i)
           toks == f.ports
           m == Len(toks)
           F(k) == tcpForwarder(NameOf(f.name), PairOf(toks[k]))
           q == [k \in DOMAIN toks |-> IF PairOf(toks[k]).udp THEN <<>> ELSE <<F(k)>>]
           r == [k \in DOMAIN s |-> IF Word(s[k]).proto = "udp" THEN <<>> ELSE <<s[k]>>]
           X == {F(k) : k \in 1..m}
           Y == EvenPlaces(i)
<1>1. /\ Lists(s, Y) /\ toks \in Seq(ToSet(toks)) /\ m = Len(s)
      /\ \A k \in 1..Len(s) : Word(s[k]) = toks[k]
  BY SpotsList
<1>2. m \in Nat /\ DOMAIN toks = 1..m /\ DOMAIN s = 1..m /\ \A k \in 1..m : s[k] \in Y
  BY <1>1 DEF Lists
<1>3. Forwarders(f) = FlattenSeq(q) /\ AskedOf(i) = FlattenSeq(r)
  BY DEF Forwarders, AskedOf
<1>4. ASSUME NEW k \in 1..m
      PROVE  /\ PortPair(Word(s[k])) # {} /\ Word(s[k]) = toks[k]
             /\ PairOf(toks[k]).udp <=> toks[k].proto = "udp"
             /\ Meets(F(k), s[k])
  <2>1. PortPair(toks[k]) # {}
    BY <1>2 DEF Valid
  <2>2. Word(s[k]) = toks[k]
    BY <1>1
  <2>3. s[k][1] = i
    BY <1>2 DEF EvenPlaces
  <2> HIDE DEF s, toks
  <2>4. PairOf(toks[k]).udp <=> toks[k].proto = "udp"
    BY <2>1, PairParts
  <2>5. f.name = file[s[k][1]].args[Len(file[s[k][1]].args)]
    BY <2>3 DEF NameOfBlock
  <2>6. Meets(tcpForwarder(NameOf(f.name), PairOf(Word(s[k]))), s[k])
    BY <2>1, <2>2, <2>5, PairMet
  <2>7. QED
    BY <2>1, <2>2, <2>4, <2>6
<1>5. ASSUME NEW k \in 1..m
      PROVE  \/ q[k] = <<>> /\ r[k] = <<>>
             \/ q[k] = <<F(k)>> /\ r[k] = <<s[k]>>
  <2>1. q[k] = IF PairOf(toks[k]).udp THEN <<>> ELSE <<F(k)>>
    BY <1>2
  <2>2. r[k] = IF Word(s[k]).proto = "udp" THEN <<>> ELSE <<s[k]>>
    BY <1>2
  <2> HIDE DEF q, r, s, toks, F
  <2>3. QED
    BY <1>4, <2>1, <2>2
<1>6. q = [k \in 1..m |-> q[k]] /\ r = [k \in 1..m |-> r[k]]
  BY <1>2
<1>7. \A k \in 1..m : F(k) \in X
  OBVIOUS
<1> HIDE DEF q, r, s, toks, F, X, Y, m
<1>8. ASSUME NEW k \in 1..m PROVE q[k] \in Seq(X) /\ r[k] \in Seq(Y) /\ Len(q[k]) = Len(r[k])
  <2>1. <<>> \in Seq(X) /\ <<>> \in Seq(Y) /\ Len(<<>>) = 0
    OBVIOUS
  <2>2. <<F(k)>> \in Seq(X) /\ <<s[k]>> \in Seq(Y) /\ Len(<<F(k)>>) = 1 /\ Len(<<s[k]>>) = 1
    BY <1>2, <1>7
  <2>3. QED
    BY <1>5, <2>1, <2>2
<1>9. q \in Seq(Seq(X)) /\ Len(q) = m /\ r \in Seq(Seq(Y)) /\ Len(r) = m
  <2>1. q \in Seq(Seq(X)) /\ Len(q) = m
    BY <1>2, <1>6, <1>8, FunctionSeq
  <2>2. r \in Seq(Seq(Y)) /\ Len(r) = m
    BY <1>2, <1>6, <1>8, FunctionSeq
  <2>3. QED
    BY <2>1, <2>2
<1>10. SamePlaces(q, r)
  <2>1. Alike(q, r)
    BY <1>8, <1>9 DEF Alike
  <2>2. QED
    BY <1>9, <2>1, FlattenAlike
<1>11. ASSUME NEW k \in 1..Len(FlattenSeq(q)) PROVE Meets(FlattenSeq(q)[k], FlattenSeq(r)[k])
  <2>1. PICK h \in 1..m : \E j \in 1..Len(q[h]) : FlattenSeq(q)[k] = q[h][j] /\ FlattenSeq(r)[k] = r[h][j]
    BY <1>9, <1>10 DEF SamePlaces
  <2>2. PICK j \in 1..Len(q[h]) : FlattenSeq(q)[k] = q[h][j] /\ FlattenSeq(r)[k] = r[h][j]
    BY <2>1
  <2>3. q[h] = <<F(h)>> /\ r[h] = <<s[h]>> /\ j = 1
    <3>1. Len(<<>>) = 0 /\ 1..0 = {} /\ Len(<<F(h)>>) = 1
      OBVIOUS
    <3>2. q[h] # <<>>
      BY <2>2, <3>1
    <3>3. q[h] = <<F(h)>> /\ r[h] = <<s[h]>>
      BY <1>5, <3>2
    <3>4. QED
      BY <2>2, <3>1, <3>3
  <2>4. FlattenSeq(q)[k] = F(h) /\ FlattenSeq(r)[k] = s[h]
    BY <2>2, <2>3
  <2>5. QED
    BY <1>4, <2>4
<1>12. FlattenSeq(q) \in Seq(ToSet(FlattenSeq(q)))
  <2>1. FlattenSeq(q) \in Seq(X)
    BY <1>9, FlattenBlocks
  <2>2. QED
    BY <2>1, OwnType
<1>13. QED
  BY <1>3, <1>10, <1>11, <1>12 DEF SamePlaces

\* The forwarders fs are one for each word that asks for one, in order.
Fulfilled(fs) == \E s : /\ Lists(s, Asked) /\ DOMAIN fs = 1..Len(s)
                        /\ \A k \in 1..Len(s) : Meets(fs[k], s[k])

\* The app is a sequence of m entries.
Entries(app, m) == app = [k \in 1..m |-> [name |-> app[k].name, ports |-> app[k].ports]]

\* The app has the directives of n blocks: the entry main[i] is that of the body of the i-th,
\* under its name if JSON keeps it, and an entry without a body has no ports.
Made(app, n, m, main) ==
    /\ m \in Nat /\ main \in [1..n -> 1..m]
    /\ Entries(app, m)
    /\ \A i, j \in 1..n : i < j => main[i] < main[j]
    /\ \A i \in 1..n : app[main[i]].ports = UsedTokens(file[i].body)
    /\ NamesKept => \A i \in 1..n : app[main[i]].name = MarshalJSON(NameOfBlock(file[i]))
    /\ \A k \in 1..m : (\A i \in 1..n : main[i] # k) => app[k].ports = <<>>

\* What Forwards.Provision makes of the app.
AllForwarders(fwds) == FlattenSeq([i \in DOMAIN fwds |-> Forwarders(fwds[i])])

\* An entry without ports has no forwarders.
LEMMA NoPorts == ASSUME NEW f, f.ports = <<>> PROVE Forwarders(f) = <<>>
<1> DEFINE q == [k \in DOMAIN f.ports |-> IF PairOf(f.ports[k]).udp THEN <<>>
                                          ELSE <<tcpForwarder(NameOf(f.name), PairOf(f.ports[k]))>>]
<1>1. Forwarders(f) = FlattenSeq(q)
  BY DEF Forwarders
<1>2. DOMAIN f.ports = {}
  OBVIOUS
<1>3. q = <<>>
  BY <1>2
<1> HIDE DEF q
<1>4. Len(q) = 0 /\ FlattenSeq(q) = q
  BY <1>3 DEF FlattenSeq
<1>5. QED
  BY <1>1, <1>3, <1>4

\* The block of a word that is asked for.
LEMMA AskedBlock ==
  ASSUME NEW p \in Plans, file = p.file, NEW w \in Asked
  PROVE  w[1] \in 1..Len(file)
<1>1. PICK i \in DOMAIN file : \E l \in DOMAIN file[i].body : \E k \in DOMAIN file[i].body[l] : w = <<i, l, k>>
  BY DEF Asked, Places
<1>2. w[1] = i
  BY <1>1
<1>3. QED
  BY <1>2, FileType

\* The directives that an app Made of n blocks is resumed as.
Plain(fwds, n, m, main) ==
    /\ m \in Nat /\ main \in [1..n -> 1..m] /\ DOMAIN fwds = 1..m
    /\ \A i, j \in 1..n : i < j => main[i] < main[j]
    /\ \A i \in 1..n : fwds[main[i]].ports = UsedTokens(file[i].body)
    /\ \A i \in 1..n : fwds[main[i]].name = NameOfBlock(file[i])
    /\ \A k \in 1..m : (\A i \in 1..n : main[i] # k) => fwds[k].ports = <<>>

\* Provision makes of all blocks, once they are plain again, what the Caddyfile asks for.
LEMMA AllForwarded ==
  ASSUME NEW p \in Plans, file = p.file, NEW n, n = Len(file), \A i \in 1..n : Valid(file[i]),
         NEW m, NEW main, NEW fwds, Plain(fwds, n, m, main),
         \A k \in 1..m : NameOf(fwds[k].name) \in DOMAIN net
  PROVE  Fulfilled(AllForwarders(fwds))
<1> DEFINE q == [k \in DOMAIN fwds |-> Forwarders(fwds[k])]
           HasBody(k) == \E i \in 1..n : main[i] = k
           r == [k \in 1..m |-> IF HasBody(k) THEN AskedOf(CHOOSE i \in 1..n : main[i] = k) ELSE <<>>]
           S == [k \in 1..m |-> {w \in Asked : main[w[1]] = k}]
           X == UNION {ToSet(q[k]) : k \in 1..m}
<1>0. /\ m \in Nat /\ main \in [1..n -> 1..m] /\ DOMAIN fwds = 1..m
      /\ \A i, j \in 1..n : i < j => main[i] < main[j]
      /\ \A i \in 1..n : fwds[main[i]].ports = UsedTokens(file[i].body)
      /\ \A i \in 1..n : fwds[main[i]].name = NameOfBlock(file[i])
      /\ \A k \in 1..m : (\A i \in 1..n : main[i] # k) => fwds[k].ports = <<>>
  BY DEF Plain
<1>1. n \in Nat /\ DOMAIN file = 1..n /\ \A i \in 1..n : main[i] \in 1..m
  BY <1>0, FileType
<1>2. q = [k \in 1..m |-> q[k]] /\ r = [k \in 1..m |-> r[k]] /\ AllForwarders(fwds) = FlattenSeq(q)
  BY <1>0 DEF AllForwarders
<1>3. \A k \in 1..m : q[k] = Forwarders(fwds[k])
  BY <1>0
<1>4. \A k \in 1..m : ToSet(q[k]) \subseteq X
  OBVIOUS
<1>5. \A k \in 1..m : \A w : w \in S[k] <=> w \in Asked /\ main[w[1]] = k
  OBVIOUS
<1>6. ASSUME NEW k \in 1..m, HasBody(k) PROVE \E i \in 1..n : main[i] = k /\ r[k] = AskedOf(i)
  BY <1>6
<1>7. ASSUME NEW k \in 1..m, ~HasBody(k) PROVE r[k] = <<>> /\ q[k] = <<>>
  <2>1. r[k] = <<>>
    BY <1>7
  <2>2. fwds[k].ports = <<>>
    BY <1>0, <1>7
  <2>3. QED
    BY <1>3, <2>1, <2>2, NoPorts
<1> HIDE DEF q, r, S, X
<1>8. ASSUME NEW k \in 1..m
      PROVE  /\ q[k] \in Seq(X) /\ Lists(r[k], S[k]) /\ r[k] \in Seq(Asked) /\ Len(q[k]) = Len(r[k])
             /\ \A j \in 1..Len(q[k]) : Meets(q[k][j], r[k][j])
  <2>1. CASE HasBody(k)
    <3>1. PICK i \in 1..n : main[i] = k /\ r[k] = AskedOf(i)
      BY <1>6, <2>1
    <3>2. Lists(AskedOf(i), AskedIn(i))
      BY AskedList
    <3>3. /\ q[k] \in Seq(ToSet(q[k])) /\ Len(q[k]) = Len(AskedOf(i))
          /\ \A j \in 1..Len(q[k]) : Meets(q[k][j], AskedOf(i)[j])
      <4> DEFINE f == fwds[k]
      <4>1. f.name = NameOfBlock(file[i]) /\ f.ports = UsedTokens(file[i].body) /\ NameOf(f.name) \in DOMAIN net
        BY <1>0, <1>1, <3>1
      <4>2. q[k] = Forwarders(f) /\ Valid(file[i])
        BY <1>3
      <4> HIDE DEF f
      <4>3. QED
        BY <4>1, <4>2, BlockForwarded
    <3>4. S[k] = AskedIn(i)
      <4>1. ASSUME NEW w \in Asked, main[w[1]] = k PROVE w[1] = i
        <5>1. w[1] \in 1..n
          BY AskedBlock
        <5>2. ~(w[1] < i) /\ ~(i < w[1])
          BY <1>0, <1>1, <3>1, <4>1, <5>1
        <5>3. QED
          BY <1>1, <5>1, <5>2
      <4>2. \A w : w \in S[k] <=> w \in Asked /\ main[w[1]] = k
        BY <1>5
      <4>3. \A w : w \in S[k] <=> w \in AskedIn(i)
        BY <3>1, <4>1, <4>2 DEF AskedIn
      <4>4. QED
        BY <4>3
    <3>5. AskedIn(i) \subseteq Asked /\ q[k] \in Seq(X)
      BY <1>4, <3>3 DEF AskedIn
    <3>6. AskedOf(i) \in Seq(Asked)
      BY <3>2, <3>5 DEF Lists
    <3>7. QED
      BY <3>1, <3>2, <3>3, <3>4, <3>5, <3>6
  <2>2. CASE ~HasBody(k)
    <3>1. r[k] = <<>> /\ q[k] = <<>>
      BY <1>7, <2>2
    <3>2. S[k] = {}
      <4>1. \A w \in Asked : main[w[1]] # k
        BY <2>2, AskedBlock
      <4>2. QED
        BY <1>5, <4>1
    <3>3. Len(<<>>) = 0 /\ 1..0 = {} /\ <<>> \in Seq(X) /\ <<>> \in Seq(Asked)
      OBVIOUS
    <3>4. QED
      BY <3>1, <3>2, <3>3, ListsFew
  <2>3. QED
    BY <2>1, <2>2
<1>9. ASSUME NEW h \in 1..m, NEW k \in 1..m, h < k, NEW v \in S[h], NEW w \in S[k] PROVE Before(v, w)
  <2>1. v \in Asked /\ main[v[1]] = h /\ w \in Asked /\ main[w[1]] = k
    BY <1>5
  <2>2. v[1] \in 1..n /\ w[1] \in 1..n
    BY <2>1, AskedBlock
  <2>3. ~(v[1] = w[1]) /\ ~(w[1] < v[1])
    BY <1>0, <1>1, <1>9, <2>1, <2>2
  <2>4. v[1] < w[1]
    BY <1>1, <2>2, <2>3
  <2>5. QED
    BY <2>4 DEF Before
<1>10. UNION {S[k] : k \in 1..m} = Asked
  <2>1. \A w \in Asked : main[w[1]] \in 1..m
    BY <1>1, AskedBlock
  <2>2. QED
    BY <1>5, <2>1
<1>11. Lists(FlattenSeq(r), Asked)
  <2>1. \A k \in 1..m : Lists(r[k], S[k])
    BY <1>8
  <2>2. \A h, k \in 1..m : h < k => \A v \in S[h], w \in S[k] : Before(v, w)
    BY <1>9
  <2>4. m \in Nat /\ r = [k \in 1..m |-> r[k]]
    BY <1>0, <1>2
  <2>5. Lists(FlattenSeq(r), UNION {S[k] : k \in 1..m})
    BY ONLY <2>1, <2>2, <2>4, FlattenLists
  <2>6. QED
    BY <1>10, <2>5
<1>12. q \in Seq(Seq(X)) /\ Len(q) = m /\ r \in Seq(Seq(Asked)) /\ Len(r) = m
  <2>1. q = [k \in 1..m |-> q[k]] /\ r = [k \in 1..m |-> r[k]] /\ m \in Nat
        /\ (\A k \in 1..m : q[k] \in Seq(X)) /\ (\A k \in 1..m : r[k] \in Seq(Asked))
    BY <1>0, <1>2, <1>8
  <2>2. q \in Seq(Seq(X)) /\ Len(q) = m
    BY ONLY <2>1, FunctionSeq
  <2>3. r \in Seq(Seq(Asked)) /\ Len(r) = m
    BY ONLY <2>1, FunctionSeq
  <2>4. QED
    BY <2>2, <2>3
<1>13. SamePlaces(q, r)
  <2>1. Alike(q, r)
    BY <1>8, <1>12 DEF Alike
  <2>2. QED
    BY <1>12, <2>1, FlattenAlike
<1>14. ASSUME NEW k \in 1..Len(FlattenSeq(q)) PROVE Meets(FlattenSeq(q)[k], FlattenSeq(r)[k])
  <2>1. PICK h \in 1..m : \E j \in 1..Len(q[h]) : FlattenSeq(q)[k] = q[h][j] /\ FlattenSeq(r)[k] = r[h][j]
    BY <1>12, <1>13 DEF SamePlaces
  <2>2. QED
    BY <1>8, <2>1
<1>15. DOMAIN FlattenSeq(q) = 1..Len(FlattenSeq(q)) /\ Len(FlattenSeq(q)) = Len(FlattenSeq(r))
  <2>1. FlattenSeq(q) \in Seq(X)
    BY <1>12, FlattenBlocks
  <2>2. QED
    BY <1>13, <2>1 DEF SamePlaces
<1>16. QED
  BY <1>2, <1>11, <1>14, <1>15 DEF Fulfilled

\* Such forwarders are those of PortsConfigured.
LEMMA FulfilledInOrder ==
  ASSUME NEW p \in Plans, file = p.file, NEW fs, Fulfilled(fs)
  PROVE  /\ \E n \in Nat : DOMAIN fs = 1..n
         /\ \E word \in Bijection(DOMAIN fs, Asked) :
                /\ \A k, m \in DOMAIN fs : k < m => Before(word[k], word[m])
                /\ \A k \in DOMAIN fs : Meets(fs[k], word[k])
<1>1. PICK s : Lists(s, Asked) /\ DOMAIN fs = 1..Len(s) /\ \A k \in 1..Len(s) : Meets(fs[k], s[k])
  BY DEF Fulfilled
<1> DEFINE n == Len(s)
<1>2. /\ n \in Nat /\ s \in [1..n -> Asked]
      /\ \A w \in Asked : \E k \in 1..n : s[k] = w
      /\ \A k, m \in 1..n : k < m => Before(s[k], s[m])
  BY <1>1 DEF Lists
<1>3. \A w \in Asked : ~Before(w, w)
  <2> SUFFICES ASSUME NEW w \in Asked PROVE ~Before(w, w)
    OBVIOUS
  <2>1. PICK i \in DOMAIN file : \E l \in DOMAIN file[i].body : \E k \in DOMAIN file[i].body[l] : w = <<i, l, k>>
    BY DEF Asked, Places
  <2>2. PICK l \in DOMAIN file[i].body : \E k \in DOMAIN file[i].body[l] : w = <<i, l, k>>
    BY <2>1
  <2>3. PICK k \in DOMAIN file[i].body[l] : w = <<i, l, k>>
    BY <2>2
  <2>4. i \in Nat /\ l \in Nat /\ k \in Nat
    <3>1. i \in 1..Len(file)
      BY FileType
    <3>2. l \in 1..Len(file[i].body)
      BY <3>1, FileType
    <3>3. k \in 1..Len(file[i].body[l])
      BY <3>1, <3>2, FileType
    <3>4. QED
      BY <3>1, <3>2, <3>3
  <2>5. w[1] = i /\ w[2] = l /\ w[3] = k
    BY <2>3
  <2>6. QED
    BY <2>4, <2>5 DEF Before
<1> HIDE DEF n
<1>4. ASSUME NEW k \in 1..n, NEW m \in 1..n, s[k] = s[m] PROVE k = m
  <2>1. ~(k < m) /\ ~(m < k)
    BY <1>2, <1>3, <1>4
  <2>2. QED
    BY <1>2, <2>1
<1>5. s \in Bijection(1..n, Asked)
  BY <1>2, <1>4 DEF Bijection, Injection, Surjection, IsInjective
<1>6. QED
  BY <1>1, <1>2, <1>5 DEF n

-----------------------------------------------------------------------------
(* The forwarders, step by step.                                           *)

\* The blocks that were unmarshaled are valid, and the app is made of them.
BlocksInv ==
    /\ \E p \in Plans : file = p.file
    /\ read \in 0..Len(file)
    /\ \A i \in 1..read : Valid(file[i])
    /\ \E m, main : Made(forward, read, m, main)

\* Nothing failed so far.
Live == phase \in {"provision", "start", "run"}

\* All blocks are unmarshaled before an app is provisioned, and the networks are those of the
\* finished app point-c before a forwarder looks one up; then they do not change.
PortsInv ==
    /\ BlocksInv
    /\ phase = "adapt" => loaded = {}
    /\ "forward" \in loaded => "point-c" \in loaded
    /\ Live => read = Len(file)
    /\ Live /\ "forward" \in loaded /\ NamesKept => Fulfilled(forwarders)

\* JSON keeps the name of a valid block.
LEMMA BlockName ==
  ASSUME NEW p \in Plans, file = p.file, NamesKept, NEW i \in 1..Len(file), Valid(file[i])
  PROVE  UnmarshalJSON(MarshalJSON(NameOfBlock(file[i]))) = NameOfBlock(file[i])
<1>1. /\ DOMAIN file = 1..Len(file) /\ Len(file[i].args) \in Nat
      /\ DOMAIN file[i].args = 1..Len(file[i].args)
  BY FileType
<1> DEFINE args == file[i].args
           n == Len(args)
<1>2. n \in Nat /\ DOMAIN args = 1..n /\ n % 2 = 1
  BY <1>1 DEF Valid
<1> HIDE DEF n
<1>3. n \in DOMAIN args
  BY <1>2
<1>4. file[i] \in ToSet(file) /\ args[n] \in ToSet(args)
  BY <1>1, <1>3 DEF ToSet
<1>5. QED
  BY <1>4 DEF NamesKept, NameOfBlock, n

\* What is said of an app by its entries.
LEMMA EntriesAre ==
  ASSUME NEW m, NEW app
  PROVE  Entries(app, m) <=> /\ app = [k \in 1..m |-> app[k]]
                             /\ \A k \in 1..m : app[k] = [name |-> app[k].name, ports |-> app[k].ports]
<1>1. ASSUME Entries(app, m)
      PROVE  /\ app = [k \in 1..m |-> app[k]]
             /\ \A k \in 1..m : app[k] = [name |-> app[k].name, ports |-> app[k].ports]
  BY <1>1 DEF Entries
<1>2. ASSUME app = [k \in 1..m |-> app[k]],
             \A k \in 1..m : app[k] = [name |-> app[k].name, ports |-> app[k].ports]
      PROVE  Entries(app, m)
  BY <1>2 DEF Entries
<1>3. QED
  BY <1>1, <1>2

\* The parts of an entry.
LEMMA EntryParts ==
  ASSUME NEW e, NEW a, NEW b, e = [name |-> a, ports |-> b]
  PROVE  e = [name |-> e.name, ports |-> e.ports] /\ e.name = a /\ e.ports = b
OBVIOUS

\* The JSON of an app and back, entry by entry.
LEMMA EntriesJSON ==
  ASSUME NEW m, NEW app, Entries(app, m)
  PROVE  /\ Entries(ForwardsFromJSON(app), m)
         /\ \A k \in 1..m : /\ ForwardsFromJSON(app)[k].name = UnmarshalJSON(app[k].name)
                            /\ ForwardsFromJSON(app)[k].ports = app[k].ports
         /\ Entries(ForwardsJSON(app), m)
         /\ \A k \in 1..m : /\ ForwardsJSON(app)[k].name = MarshalJSON(app[k].name)
                            /\ ForwardsJSON(app)[k].ports = app[k].ports
<1> DEFINE from == [k \in DOMAIN app |-> [app[k] EXCEPT !.name = UnmarshalJSON(@)]]
           to == [k \in DOMAIN app |-> [app[k] EXCEPT !.name = MarshalJSON(@)]]
<1>1. app = [k \in 1..m |-> app[k]] /\ \A k \in 1..m : app[k] = [name |-> app[k].name, ports |-> app[k].ports]
  BY EntriesAre
<1>2. DOMAIN app = 1..m
  BY <1>1
<1>3. ASSUME NEW k \in 1..m
      PROVE  /\ from[k] = [name |-> UnmarshalJSON(app[k].name), ports |-> app[k].ports]
             /\ to[k] = [name |-> MarshalJSON(app[k].name), ports |-> app[k].ports]
  <2>1. app[k] = [name |-> app[k].name, ports |-> app[k].ports]
    BY <1>1
  <2>2. from[k] = [app[k] EXCEPT !.name = UnmarshalJSON(@)] /\ to[k] = [app[k] EXCEPT !.name = MarshalJSON(@)]
    BY <1>2
  <2>3. QED
    BY <2>1, <2>2
<1>4. from = [k \in 1..m |-> from[k]] /\ to = [k \in 1..m |-> to[k]]
  BY <1>2
<1>5. ForwardsFromJSON(app) = from /\ ForwardsJSON(app) = to
  BY DEF ForwardsFromJSON, ForwardsJSON
<1> HIDE DEF from, to
<1>6. \A k \in 1..m : /\ from[k] = [name |-> from[k].name, ports |-> from[k].ports]
                      /\ to[k] = [name |-> to[k].name, ports |-> to[k].ports]
                      /\ from[k].name = UnmarshalJSON(app[k].name) /\ from[k].ports = app[k].ports
                      /\ to[k].name = MarshalJSON(app[k].name) /\ to[k].ports = app[k].ports
  <2> SUFFICES ASSUME NEW k \in 1..m
               PROVE  /\ from[k] = [name |-> from[k].name, ports |-> from[k].ports]
                      /\ to[k] = [name |-> to[k].name, ports |-> to[k].ports]
                      /\ from[k].name = UnmarshalJSON(app[k].name) /\ from[k].ports = app[k].ports
                      /\ to[k].name = MarshalJSON(app[k].name) /\ to[k].ports = app[k].ports
    OBVIOUS
  <2>1. /\ from[k] = [name |-> UnmarshalJSON(app[k].name), ports |-> app[k].ports]
        /\ to[k] = [name |-> MarshalJSON(app[k].name), ports |-> app[k].ports]
    BY <1>3
  <2>2. QED
    BY ONLY <2>1, EntryParts
<1>7. Entries(from, m) /\ Entries(to, m)
  BY <1>4, <1>6, EntriesAre
<1>8. QED
  BY <1>5, <1>6, <1>7

\* An odd number is twice its half, rounded up, less one.
LEMMA OddHalf == ASSUME NEW n \in Nat, n % 2 = 1
                 PROVE  (n + 1) \div 2 \in Nat \ {0} /\ 2 * ((n + 1) \div 2) - 1 = n
OBVIOUS

\* Another block is unmarshaled: the app is resumed from its JSON and is made of one more.
LEMMA AdaptMade ==
  ASSUME NEW p \in Plans, file = p.file, NEW n \in Nat, n + 1 \in 1..Len(file),
         \A i \in 1..n : Valid(file[i]), NEW m, NEW main, Made(forward, n, m, main),
         NEW app \in Unmarshaler(forward, file[n + 1])
  PROVE  Valid(file[n + 1]) /\ \E l, new : Made(app, n + 1, l, new)
<1> DEFINE b == file[n + 1]
           N == Len(b.args)
           c == (N + 1) \div 2
           pairs == UsedTokens(b.body)
           fs == [j \in 1..c |-> [name |-> b.args[2 * j - 1], ports |-> IF j = c THEN pairs ELSE <<>>]]
           s == ForwardsFromJSON(forward)
           t == s \o fs
           new == [i \in 1..(n + 1) |-> IF i = n + 1 THEN m + c ELSE main[i]]
<1>1. PICK f \in UnmarshalForward(b) : app = ForwardsJSON(s \o f)
  BY DEF Unmarshaler
<1>2. /\ ~(N % 2 = 0 \/ \E k \in DOMAIN pairs : PortPair(pairs[k]) = {})
      /\ f \in {fs}
  <2>1. UnmarshalForward(b) = IF N % 2 = 0 \/ \E k \in DOMAIN pairs : PortPair(pairs[k]) = {} THEN {} ELSE {fs}
    BY DEF UnmarshalForward
  <2> HIDE DEF fs, b, N, pairs
  <2>2. QED
    BY <1>1, <2>1
<1>3. N \in Nat /\ n + 1 \in 1..Len(file)
  BY FileType
<1>4. c \in Nat \ {0} /\ 2 * c - 1 = N /\ N % 2 = 1
  <2> HIDE DEF N
  <2>1. N % 2 = 1
    BY <1>2, <1>3
  <2>2. QED
    BY <1>3, <2>1, OddHalf
<1>5. Valid(b)
  BY <1>2, <1>4 DEF Valid
<1>6. app = ForwardsJSON(t) /\ NameOfBlock(b) = b.args[N]
  BY <1>1, <1>2 DEF NameOfBlock
<1>7. /\ m \in Nat /\ main \in [1..n -> 1..m]
      /\ Entries(forward, m)
      /\ \A i, j \in 1..n : i < j => main[i] < main[j]
      /\ \A i \in 1..n : forward[main[i]].ports = UsedTokens(file[i].body)
      /\ NamesKept => \A i \in 1..n : forward[main[i]].name = MarshalJSON(NameOfBlock(file[i]))
      /\ \A k \in 1..m : (\A i \in 1..n : main[i] # k) => forward[k].ports = <<>>
  BY DEF Made
<1>8. /\ s = [k \in 1..m |-> s[k]]
      /\ \A k \in 1..m : /\ s[k] = [name |-> s[k].name, ports |-> s[k].ports]
                         /\ s[k].name = UnmarshalJSON(forward[k].name) /\ s[k].ports = forward[k].ports
  <2>1. Entries(s, m)
    BY <1>7, EntriesJSON
  <2>2. \A k \in 1..m : s[k].name = UnmarshalJSON(forward[k].name) /\ s[k].ports = forward[k].ports
    <3> SUFFICES ASSUME NEW k \in 1..m
                 PROVE  s[k].name = UnmarshalJSON(forward[k].name) /\ s[k].ports = forward[k].ports
      OBVIOUS
    <3>1. Entries(forward, m)
      BY <1>7
    <3>2. QED
      BY ONLY <3>1, EntriesJSON
  <2> HIDE DEF s
  <2>3. QED
    BY <2>1, <2>2, EntriesAre
<1>9. Len(s) = m /\ DOMAIN s = 1..m /\ s \in Seq({s[k] : k \in 1..m})
  <2> HIDE DEF s
  <2>1. s = [k \in 1..m |-> s[k]] /\ m \in Nat /\ \A k \in 1..m : s[k] \in {s[i] : i \in 1..m}
    BY <1>7, <1>8
  <2>2. QED
    BY ONLY <2>1, FunctionSeq
<1>10. /\ Len(fs) = c /\ DOMAIN fs = 1..c /\ fs \in Seq({fs[j] : j \in 1..c})
       /\ \A j \in 1..c : fs[j] = [name |-> b.args[2 * j - 1], ports |-> IF j = c THEN pairs ELSE <<>>]
  <2> HIDE DEF c
  <2>1. \A j \in 1..c : fs[j] = [name |-> b.args[2 * j - 1], ports |-> IF j = c THEN pairs ELSE <<>>]
    OBVIOUS
  <2>2. c \in Nat /\ fs = [j \in 1..c |-> fs[j]] /\ \A j \in 1..c : fs[j] \in {fs[i] : i \in 1..c}
    BY <1>4
  <2> HIDE DEF fs
  <2>3. fs \in Seq({fs[j] : j \in 1..c}) /\ Len(fs) = c /\ DOMAIN fs = 1..c
    BY ONLY <2>2, FunctionSeq
  <2>4. QED
    BY <2>1, <2>3
<1>12. \A i \in 1..(n + 1) : new[i] = IF i = n + 1 THEN m + c ELSE main[i]
  OBVIOUS
<1>13. new = [i \in 1..(n + 1) |-> new[i]]
  OBVIOUS
<1> HIDE DEF b, N, c, pairs, fs, s, new
<1>14. /\ DOMAIN t = 1..(m + c) /\ t = [k \in 1..(m + c) |-> t[k]]
       /\ (\A k \in 1..m : t[k] = s[k]) /\ \A j \in 1..c : t[m + j] = fs[j]
  <2> DEFINE Z == {s[k] : k \in 1..m} \cup {fs[j] : j \in 1..c}
  <2>1. s \in Seq(Z) /\ fs \in Seq(Z)
    BY <1>9, <1>10
  <2> HIDE DEF Z
  <2>2. t \in Seq(Z) /\ Len(t) = m + c
    <3>1. t \in Seq(Z) /\ Len(t) = Len(s) + Len(fs)
      BY <2>1
    <3>2. QED
      BY <1>9, <1>10, <3>1
  <2>3. \A k \in 1..m : t[k] = s[k]
    BY <1>9, <1>10, <2>1
  <2>4. \A j \in 1..c : t[m + j] = fs[j]
    <3> SUFFICES ASSUME NEW j \in 1..c PROVE t[m + j] = fs[j]
      OBVIOUS
    <3>1. m + j \in 1..(m + c) /\ ~(m + j <= m) /\ (m + j) - m = j
      BY <1>4, <1>7
    <3>2. QED
      BY <1>9, <1>10, <2>1, <3>1
  <2> HIDE DEF t
  <2>5. DOMAIN t = 1..(m + c) /\ t = [k \in 1..(m + c) |-> t[k]]
    BY <2>2
  <2>6. QED
    BY <2>3, <2>4, <2>5
<1> HIDE DEF t
<1>15. \A k \in 1..(m + c) : k \in 1..m \/ \E j \in 1..c : k = m + j
  <2> SUFFICES ASSUME NEW k \in 1..(m + c), k \notin 1..m PROVE k - m \in 1..c /\ k = m + (k - m)
    OBVIOUS
  <2>1. QED
    BY <1>4, <1>7
<1>16. Entries(t, m + c)
  <2>1. \A k \in 1..m : t[k] = [name |-> t[k].name, ports |-> t[k].ports]
    <3>1. \A k \in 1..m : s[k] = [name |-> s[k].name, ports |-> s[k].ports] /\ t[k] = s[k]
      BY <1>8, <1>14
    <3>2. QED
      BY ONLY <3>1
  <2>2. \A j \in 1..c : t[m + j] = [name |-> t[m + j].name, ports |-> t[m + j].ports]
    <3> SUFFICES ASSUME NEW j \in 1..c PROVE t[m + j] = [name |-> t[m + j].name, ports |-> t[m + j].ports]
      OBVIOUS
    <3>1. fs[j] = [name |-> b.args[2 * j - 1], ports |-> IF j = c THEN pairs ELSE <<>>] /\ t[m + j] = fs[j]
      BY <1>10, <1>14
    <3>2. QED
      BY ONLY <3>1
  <2>3. \A k \in 1..(m + c) : t[k] = [name |-> t[k].name, ports |-> t[k].ports]
    BY <1>15, <2>1, <2>2
  <2>4. QED
    BY <1>14, <2>3, EntriesAre
<1>17. app = ForwardsJSON(t)
  BY <1>6
<1>18. \A k \in 1..(m + c) : app[k].name = MarshalJSON(t[k].name) /\ app[k].ports = t[k].ports
  <2> SUFFICES ASSUME NEW k \in 1..(m + c)
               PROVE  app[k].name = MarshalJSON(t[k].name) /\ app[k].ports = t[k].ports
    OBVIOUS
  <2>1. QED
    BY ONLY <1>16, <1>17, EntriesJSON
<1>19. Entries(app, m + c)
  BY <1>16, <1>17, EntriesJSON
<1>20. /\ \A k \in 1..m : /\ k \in 1..(m + c) /\ app[k].ports = forward[k].ports
                          /\ app[k].name = MarshalJSON(UnmarshalJSON(forward[k].name))
       /\ \A j \in 1..c : /\ m + j \in 1..(m + c) /\ app[m + j].name = MarshalJSON(b.args[2 * j - 1])
                          /\ app[m + j].ports = IF j = c THEN pairs ELSE <<>>
  <2>1. \A k \in 1..m : k \in 1..(m + c) /\ t[k].ports = forward[k].ports
                        /\ t[k].name = UnmarshalJSON(forward[k].name)
    <3>1. \A k \in 1..m : k \in 1..(m + c)
      BY <1>4, <1>7
    <3>2. QED
      BY <1>8, <1>14, <3>1
  <2>2. \A j \in 1..c : m + j \in 1..(m + c) /\ t[m + j].name = b.args[2 * j - 1]
                        /\ t[m + j].ports = IF j = c THEN pairs ELSE <<>>
    <3> SUFFICES ASSUME NEW j \in 1..c
                 PROVE  /\ m + j \in 1..(m + c) /\ t[m + j].name = b.args[2 * j - 1]
                        /\ t[m + j].ports = IF j = c THEN pairs ELSE <<>>
      OBVIOUS
    <3>1. m + j \in 1..(m + c)
      BY <1>4, <1>7
    <3>2. fs[j] = [name |-> b.args[2 * j - 1], ports |-> IF j = c THEN pairs ELSE <<>>] /\ t[m + j] = fs[j]
      BY <1>10, <1>14
    <3>3. QED
      BY <3>1, <3>2
  <2>3. QED
    BY <1>18, <2>1, <2>2
<1>21. \A i \in 1..(n + 1) : i = n + 1 \/ i \in 1..n
  OBVIOUS
<1>22. c \in 1..c /\ \A i \in 1..n : i \in 1..(n + 1) /\ i # n + 1 /\ main[i] \in 1..m
  BY <1>4, <1>7
<1>23. new \in [1..(n + 1) -> 1..(m + c)] /\ \A i, j \in 1..(n + 1) : i < j => new[i] < new[j]
  <2>1. m + c \in 1..(m + c) /\ \A k \in 1..m : k \in 1..(m + c) /\ k < m + c
    BY <1>4, <1>7
  <2>2. \A i \in 1..(n + 1) : new[i] \in 1..(m + c)
    BY <1>12, <1>21, <1>22, <2>1
  <2>3. new \in [1..(n + 1) -> 1..(m + c)]
    BY <1>13, <2>2
  <2>4. ASSUME NEW i \in 1..(n + 1), NEW j \in 1..(n + 1), i < j PROVE new[i] < new[j]
    <3>1. i \in 1..n
      BY <2>4
    <3>2. new[i] = main[i] /\ main[i] \in 1..m
      BY <1>12, <1>22, <3>1
    <3>3. CASE j = n + 1
      BY <1>12, <2>1, <3>2, <3>3
    <3>4. CASE j \in 1..n
      BY <1>7, <1>12, <1>22, <2>4, <3>1, <3>2, <3>4
    <3>5. QED
      BY <1>21, <3>3, <3>4
  <2>5. QED
    BY <2>3, <2>4
<1>24. ASSUME NEW i \in 1..(n + 1)
       PROVE  /\ app[new[i]].ports = UsedTokens(file[i].body)
              /\ NamesKept => app[new[i]].name = MarshalJSON(NameOfBlock(file[i]))
  <2>1. CASE i = n + 1
    <3>1. new[i] = m + c /\ pairs = UsedTokens(file[i].body) /\ b.args[2 * c - 1] = NameOfBlock(file[i])
      BY <1>4, <1>6, <1>12, <2>1 DEF b, pairs
    <3>2. QED
      BY <1>20, <1>22, <3>1
  <2>2. CASE i \in 1..n
    <3>1. new[i] = main[i] /\ main[i] \in 1..m
      BY <1>12, <1>22, <2>2
    <3>2. app[new[i]].ports = UsedTokens(file[i].body)
      BY <1>7, <1>20, <2>2, <3>1
    <3>3. ASSUME NamesKept PROVE app[new[i]].name = MarshalJSON(NameOfBlock(file[i]))
      <4>1. i \in 1..Len(file)
        BY <1>3, <2>2, FileType
      <4>2. UnmarshalJSON(MarshalJSON(NameOfBlock(file[i]))) = NameOfBlock(file[i])
        BY <2>2, <3>3, <4>1, BlockName
      <4>3. forward[main[i]].name = MarshalJSON(NameOfBlock(file[i]))
        BY <1>7, <2>2, <3>3
      <4>4. QED
        BY <1>20, <3>1, <4>2, <4>3
    <3>4. QED
      BY <3>2, <3>3
  <2>3. QED
    BY <1>21, <2>1, <2>2
<1>25. ASSUME NEW k \in 1..(m + c), \A i \in 1..(n + 1) : new[i] # k PROVE app[k].ports = <<>>
  <2>1. CASE k \in 1..m
    <3>1. \A i \in 1..n : main[i] # k
      BY <1>12, <1>22, <1>25
    <3>2. QED
      BY <1>7, <1>20, <2>1, <3>1
  <2>2. CASE \E j \in 1..c : k = m + j
    <3>1. PICK j \in 1..c : k = m + j
      BY <2>2
    <3>2. new[n + 1] = m + c /\ n + 1 \in 1..(n + 1)
      BY <1>12
    <3>3. j # c
      BY <1>25, <3>1, <3>2
    <3>4. QED
      BY <1>20, <3>1, <3>3
  <2>3. QED
    BY <1>15, <2>1, <2>2
<1>26. m + c \in Nat
  BY <1>4, <1>7
<1>27. Made(app, n + 1, m + c, new)
  BY <1>19, <1>23, <1>24, <1>25, <1>26 DEF Made
<1>28. QED
  BY <1>5, <1>27 DEF b

\* What an app is made of depends on the Caddyfile alone.
LEMMA MadeKept ==
  ASSUME UNCHANGED file, NEW m, NEW main, Made(forward', read', m, main)
  PROVE  (\E l, new : Made(forward, read, l, new))'
<1>1. NamesKept' <=> NamesKept
  BY DEF NamesKept
<1>2. Made(forward, read, m, main)'
  BY <1>1 DEF Made, NameOfBlock
<1>3. QED
  BY <1>2

\* So the blocks stay as they are when no more are read.
LEMMA BlocksKept ==
  ASSUME BlocksInv, UNCHANGED file, UNCHANGED read, UNCHANGED forward
  PROVE  BlocksInv'
<1>1. PICK m, main : Made(forward, read, m, main)
  BY DEF BlocksInv
<1>2. (\E l, new : Made(forward, read, l, new))'
  BY <1>1, MadeKept
<1>3. QED
  BY <1>2 DEF BlocksInv, Valid

\* Another block is unmarshaled.
LEMMA AdaptPorts == ASSUME PortsInv, Adapt PROVE PortsInv'
<1>1. /\ phase = "adapt" /\ read < Len(file) /\ UNCHANGED file /\ UNCHANGED loaded
      /\ \/ phase' = "failed" /\ UNCHANGED <<read, forward>>
         \/ /\ forward' \in Unmarshaler(forward, file[read + 1]) /\ read' = read + 1
            /\ UNCHANGED phase
  BY DEF Adapt
<1>2. loaded' = {} /\ phase' \in {"adapt", "failed"}
  BY <1>1 DEF PortsInv
<1>3. BlocksInv'
  <2>1. CASE UNCHANGED <<read, forward>>
    BY <1>1, <2>1, BlocksKept DEF PortsInv
  <2>2. CASE forward' \in Unmarshaler(forward, file[read + 1]) /\ read' = read + 1
    <3> DEFINE n == read
    <3>1. PICK p \in Plans : file = p.file
      BY DEF PortsInv, BlocksInv
    <3>2. PICK m, main : Made(forward, n, m, main)
      BY DEF PortsInv, BlocksInv
    <3>3. n \in Nat /\ Len(file) \in Nat /\ n + 1 \in 1..Len(file) /\ n + 1 \in 0..Len(file)
          /\ \A i \in 1..n : Valid(file[i])
      BY <1>1, <3>1, FileType DEF PortsInv, BlocksInv
    <3> HIDE DEF n
    <3>4. forward' \in Unmarshaler(forward, file[n + 1]) /\ read' = n + 1
      BY <2>2 DEF n
    <3>5. Valid(file[n + 1]) /\ \E l, new : Made(forward', n + 1, l, new)
      BY <3>1, <3>2, <3>3, <3>4, AdaptMade
    <3>6. (\E l, new : Made(forward, read, l, new))'
      BY <1>1, <3>4, <3>5, MadeKept
    <3>7. \A i \in 1..(n + 1) : Valid(file[i])
      <4>1. \A i \in 1..(n + 1) : i \in 1..n \/ i = n + 1
        BY <3>3
      <4>2. QED
        BY <3>3, <3>5, <4>1
    <3>8. QED
      BY <1>1, <3>1, <3>3, <3>4, <3>6, <3>7 DEF BlocksInv, Valid
  <2>3. QED
    BY <1>1, <2>1, <2>2
<1>4. QED
  BY <1>2, <1>3 DEF PortsInv, Live

\* What is asked for depends on the Caddyfile alone, and is met by the networks there are.
LEMMA FulfilledKept ==
  ASSUME UNCHANGED file, UNCHANGED net, NEW fs, Fulfilled(fs), forwarders' = fs
  PROVE  Fulfilled(forwarders)'
<1>1. Asked' = Asked /\ \A v, w : Before(v, w)' <=> Before(v, w)
  BY DEF Asked, Places, Word, Before
<1>2. \A f, w : Meets(f, w)' <=> Meets(f, w)
  BY DEF Meets, Word
<1>3. \A s : Lists(s, Asked)' <=> Lists(s, Asked)
  BY <1>1 DEF Lists
<1>4. QED
  BY <1>2, <1>3 DEF Fulfilled

\* The forwarders are made of the JSON of the app and the networks of point-c.
LEMMA ForwardsPorts == ASSUME PortsInv, ProvisionForwards PROVE PortsInv'
<1> DEFINE fwds == ForwardsFromJSON(forward)
<1>1. /\ phase = "provision" /\ "point-c" \in loaded
      /\ UNCHANGED file /\ UNCHANGED read /\ UNCHANGED forward /\ UNCHANGED net
      /\ \/ phase' = "cancel" /\ UNCHANGED loaded
         \/ /\ \A i \in DOMAIN fwds : NameOf(fwds[i].name) \in DOMAIN net
            /\ forwarders' = AllForwarders(fwds) /\ loaded' = loaded \cup {"forward"}
            /\ UNCHANGED phase
  BY DEF ProvisionForwards, AllForwarders, netVars
<1>2. NamesKept' <=> NamesKept
  BY <1>1 DEF NamesKept
<1>3. BlocksInv'
  BY <1>1, BlocksKept DEF PortsInv
<1>4. CASE phase' = "cancel" /\ UNCHANGED loaded
  BY <1>1, <1>3, <1>4 DEF PortsInv, Live
<1>5. CASE /\ \A i \in DOMAIN fwds : NameOf(fwds[i].name) \in DOMAIN net
           /\ forwarders' = AllForwarders(fwds) /\ loaded' = loaded \cup {"forward"}
           /\ UNCHANGED phase
  <2> DEFINE n == Len(file)
  <2>1. PICK p \in Plans : file = p.file
    BY DEF PortsInv, BlocksInv
  <2>2. read = n /\ \A i \in 1..n : Valid(file[i])
    BY <1>1 DEF PortsInv, Live, BlocksInv
  <2>3. ASSUME NamesKept PROVE Fulfilled(forwarders)'
    <3>1. PICK m, main : Made(forward, n, m, main)
      BY <2>2 DEF PortsInv, BlocksInv
    <3>2. /\ m \in Nat /\ main \in [1..n -> 1..m]
          /\ Entries(forward, m)
          /\ \A i, j \in 1..n : i < j => main[i] < main[j]
          /\ \A i \in 1..n : forward[main[i]].ports = UsedTokens(file[i].body)
          /\ \A i \in 1..n : forward[main[i]].name = MarshalJSON(NameOfBlock(file[i]))
          /\ \A k \in 1..m : (\A i \in 1..n : main[i] # k) => forward[k].ports = <<>>
      BY <2>3, <3>1 DEF Made
    <3>3. /\ Entries(fwds, m)
          /\ \A k \in 1..m : fwds[k].name = UnmarshalJSON(forward[k].name) /\ fwds[k].ports = forward[k].ports
      <4>1. Entries(forward, m)
        BY <3>2
      <4>2. ASSUME NEW k \in 1..m
            PROVE  fwds[k].name = UnmarshalJSON(forward[k].name) /\ fwds[k].ports = forward[k].ports
        BY ONLY <4>1, EntriesJSON
      <4>3. Entries(fwds, m)
        BY ONLY <4>1, EntriesJSON
      <4>4. QED
        BY <4>2, <4>3
    <3> HIDE DEF fwds, n
    <3>4. DOMAIN fwds = 1..m
      <4>1. fwds = [k \in 1..m |-> fwds[k]]
        BY <3>3, EntriesAre
      <4>2. QED
        BY ONLY <4>1
    <3>5. \A i \in 1..n : UnmarshalJSON(MarshalJSON(NameOfBlock(file[i]))) = NameOfBlock(file[i])
      BY <2>1, <2>2, <2>3, BlockName DEF n
    <3>6. Plain(fwds, n, m, main)
      BY <3>2, <3>3, <3>4, <3>5 DEF Plain
    <3>7. \A k \in 1..m : NameOf(fwds[k].name) \in DOMAIN net
      BY <1>5, <3>4 DEF fwds
    <3>8. n = Len(file) /\ \A i \in 1..n : Valid(file[i])
      BY <2>2 DEF n
    <3>9. Fulfilled(AllForwarders(fwds))
      BY <2>1, <3>6, <3>7, <3>8, AllForwarded
    <3>10. QED
      BY <1>1, <1>5, <3>9, FulfilledKept
  <2>4. QED
    BY <1>1, <1>2, <1>3, <1>5, <2>2, <2>3 DEF PortsInv, Live
<1>6. QED
  BY <1>1, <1>4, <1>5

\* No forwarder is there before point-c is.
LEMMA PointcPorts == ASSUME PortsInv, LoadPointc PROVE PortsInv'
<1>1. /\ phase = "provision" /\ phase' \in {"provision", "cancel", "crashed"}
      /\ "point-c" \notin loaded /\ loaded' \in {loaded, loaded \cup {"point-c"}}
      /\ UNCHANGED file /\ UNCHANGED read /\ UNCHANGED forward
  BY DEF LoadPointc
<1>2. BlocksInv'
  BY <1>1, BlocksKept DEF PortsInv
<1>3. "forward" \notin loaded'
  BY <1>1 DEF PortsInv
<1>4. QED
  BY <1>1, <1>2, <1>3 DEF PortsInv, Live

\* No other step changes what the forwarders are made of, or brings a failed load back.
LEMMA OtherPorts ==
  ASSUME PortsInv, UNCHANGED <<file, read, forward>>, loaded' \in {loaded, loaded \cup {"http"}},
         phase' = "adapt" => phase = "adapt" /\ UNCHANGED loaded,
         Live' => read = Len(file) /\ (Live \/ loaded = {}) /\ UNCHANGED <<forwarders, net>>
  PROVE  PortsInv'
<1>1. UNCHANGED file /\ UNCHANGED read /\ UNCHANGED forward
  OBVIOUS
<1>2. NamesKept' <=> NamesKept
  BY <1>1 DEF NamesKept
<1>3. BlocksInv'
  BY <1>1, BlocksKept DEF PortsInv
<1>4. "forward" \in loaded' => "forward" \in loaded
  OBVIOUS
<1>5. ASSUME Live', "forward" \in loaded', NamesKept' PROVE Fulfilled(forwarders)'
  <2>1. Fulfilled(forwarders) /\ UNCHANGED forwarders /\ UNCHANGED net
    BY <1>2, <1>4, <1>5 DEF PortsInv
  <2>2. QED
    BY <1>1, <2>1, FulfilledKept
<1>6. phase' = "adapt" => loaded' = {}
  BY DEF PortsInv
<1>7. "forward" \in loaded' => "point-c" \in loaded'
  BY <1>4 DEF PortsInv
<1>8. QED
  BY <1>1, <1>3, <1>5, <1>6, <1>7 DEF PortsInv

\* Before the first block there is nothing.
LEMMA PortsInit == Init => PortsInv
<1> SUFFICES ASSUME Init PROVE PortsInv
  OBVIOUS
<1>1. PICK p \in Plans : file = p.file
  BY DEF Init
<1>2. read = 0 /\ forward = <<>> /\ phase = "adapt" /\ loaded = {} /\ Len(file) \in Nat
  BY <1>1, FileType DEF Init
<1>3. 1..read = {}
  BY <1>2
<1>4. Made(forward, read, 0, <<>>)
  <2>1. <<>> \in [1..read -> 1..0]
    BY <1>3
  <2>2. Entries(forward, 0)
    BY <1>2 DEF Entries
  <2>3. QED
    BY <1>3, <2>1, <2>2 DEF Made
<1>5. BlocksInv
  BY <1>1, <1>2, <1>3, <1>4 DEF BlocksInv
<1>6. QED
  BY <1>2, <1>5 DEF PortsInv, Live

\* Every step keeps the invariant of the ports.
LEMMA PortsStep == PortsInv /\ [Next]_vars => PortsInv'
<1> SUFFICES ASSUME PortsInv, [Next]_vars PROVE PortsInv'
  OBVIOUS
<1>0. Live => read = Len(file)
  BY DEF PortsInv
<1>1. CASE Adapt
  BY <1>1, AdaptPorts
<1>2. CASE AdaptEnds
  <2>1. /\ phase = "adapt" /\ read = Len(file) /\ phase' \in {"failed", "provision"}
        /\ UNCHANGED <<file, read, forward>> /\ UNCHANGED loaded /\ UNCHANGED <<forwarders, net>>
    BY <1>2 DEF AdaptEnds, appVars, netVars
  <2>2. loaded = {}
    BY <2>1 DEF PortsInv
  <2>3. QED
    BY <2>1, <2>2, OtherPorts
<1>3. CASE LoadPointc
  BY <1>3, PointcPorts
<1>4. CASE ProvisionForwards
  BY <1>4, ForwardsPorts
<1>5. CASE \/ \E a \in Apps : Provision(a)
           \/ PointcEnds \/ ProvisionListener \/ ProvisionMulti \/ HttpEnds \/ ProvisionEnds
  <2>1. /\ phase = "provision" /\ phase' \in {"provision", "start", "cancel"}
        /\ UNCHANGED <<file, read, forward>> /\ loaded' \in {loaded, loaded \cup {"http"}}
        /\ UNCHANGED <<forwarders, net>>
    BY <1>5 DEF Provision, PointcEnds, ProvisionListener, ProvisionMulti, HttpEnds, ProvisionEnds,
                appVars, netVars, resourceVars
  <2>2. Live
    BY <2>1 DEF Live
  <2>3. QED
    BY <1>0, <2>1, <2>2, OtherPorts
<1>6. CASE StartPointc \/ StartForwards \/ StartHttp \/ Run
  <2>1. /\ phase = "start" /\ phase' \in {"start", "stop", "run"}
        /\ UNCHANGED <<file, read, forward>> /\ UNCHANGED loaded /\ UNCHANGED <<forwarders, net>>
    BY <1>6 DEF StartPointc, StartForwards, StartHttp, Start, StartFails, Run, appVars, netVars, resourceVars
  <2>2. Live
    BY <2>1 DEF Live
  <2>3. QED
    BY <1>0, <2>1, <2>2, OtherPorts
<1>7. CASE \/ StopAll \/ (\E a \in Apps : Stop(a)) \/ StopEnds
           \/ (\E i \in up : CleanNet(i)) \/ CleanForwards \/ (\E w \in wrapped : CleanMulti(w))
           \/ CancelEnds
  <2>1. /\ phase' \in {"stop", "cancel", "stopped", "failed"}
        /\ UNCHANGED <<file, read, forward>> /\ UNCHANGED loaded
    BY <1>7 DEF StopAll, Stop, StopEnds, CleanNet, CleanForwards, CleanMulti, Clean, CancelEnds, appVars
  <2>2. ~Live'
    BY <2>1 DEF Live
  <2>3. QED
    BY <2>1, <2>2, OtherPorts
<1>8. CASE UNCHANGED vars
  <2>1. /\ UNCHANGED phase /\ UNCHANGED <<file, read, forward>> /\ UNCHANGED loaded
        /\ UNCHANGED <<forwarders, net>>
    BY <1>8 DEF vars, appVars, netVars, resourceVars
  <2>2. Live' <=> Live
    BY <2>1 DEF Live
  <2>3. QED
    BY <1>0, <2>1, <2>2, OtherPorts
<1>9. QED
  BY <1>1, <1>2, <1>3, <1>4, <1>5, <1>6, <1>7, <1>8 DEF Next
-----------------------------------------------------------------------------
(* The types.                                                              *)

\* What TypeOK says of the load, and what it rests on: the forwarders are numbered from one, and
\* the app is made of the blocks so far.
LoadTypes ==
    /\ phase \in Phases /\ cur \in Apps \cup {NoApp}
    /\ todo \subseteq Apps /\ loaded \subseteq Apps /\ started \subseteq loaded
    /\ \E n \in Nat : DOMAIN forwarders = 1..n
    /\ open \subseteq DOMAIN forwarders
    /\ phase = "adapt" => tunnels = {}
    /\ \A t \in tunnels : t[1] \in DOMAIN servers /\ t[2] \in DOMAIN servers[t[1]]
    /\ bases \subseteq wrapped /\ wrapped \subseteq DOMAIN servers
    /\ BlocksInv

\* The loop over the ports of a block gives a sequence.
LEMMA ForwardersSeq ==
  ASSUME NEW T, NEW f, f.ports \in Seq(T) PROVE \E X : Forwarders(f) \in Seq(X)
<1> DEFINE ports == f.ports
           F(k) == tcpForwarder(NameOf(f.name), PairOf(ports[k]))
           X == {F(k) : k \in DOMAIN ports}
           q == [k \in DOMAIN ports |-> IF PairOf(ports[k]).udp THEN <<>> ELSE <<F(k)>>]
<1>1. DOMAIN ports = 1..Len(ports) /\ Len(ports) \in Nat
  OBVIOUS
<1>2. q = [k \in 1..Len(ports) |-> q[k]]
  BY <1>1
<1>3. ASSUME NEW k \in 1..Len(ports) PROVE q[k] \in Seq(X)
  <2>1. F(k) \in X /\ q[k] \in {<<>>, <<F(k)>>}
    BY <1>1
  <2>2. \A v \in X : <<v>> \in Seq(X)
    OBVIOUS
  <2>3. <<>> \in Seq(X)
    OBVIOUS
  <2> HIDE DEF F, X, q
  <2>4. QED
    BY <2>1, <2>2, <2>3
<1>4. Forwarders(f) = FlattenSeq(q)
  BY DEF Forwarders
<1> HIDE DEF q, X, F, ports
<1>5. q \in Seq(Seq(X))
  BY <1>1, <1>2, <1>3, FunctionSeq
<1>6. QED
  BY <1>4, <1>5, FlattenBlocks

\* So do the forwarders of all blocks.
LEMMA AllForwardersSeq ==
  ASSUME NEW n \in Nat, NEW fwds, DOMAIN fwds = 1..n,
         \A i \in 1..n : \E T : fwds[i].ports \in Seq(T)
  PROVE  \E m \in Nat : DOMAIN AllForwarders(fwds) = 1..m
<1> DEFINE q == [i \in DOMAIN fwds |-> Forwarders(fwds[i])]
           X == UNION {ToSet(q[i]) : i \in 1..n}
<1>1. q = [i \in 1..n |-> q[i]] /\ AllForwarders(fwds) = FlattenSeq(q)
  BY DEF AllForwarders
<1>2. ASSUME NEW i \in 1..n PROVE q[i] \in Seq(X)
  <2>1. \E Y : Forwarders(fwds[i]) \in Seq(Y)
    BY ForwardersSeq
  <2>2. q[i] = Forwarders(fwds[i])
    OBVIOUS
  <2> HIDE DEF q
  <2>3. q[i] \in Seq(ToSet(q[i]))
    BY <2>1, <2>2, OwnType
  <2>4. ToSet(q[i]) \subseteq X
    OBVIOUS
  <2> HIDE DEF X
  <2>5. QED
    BY <2>3, <2>4
<1> HIDE DEF q, X
<1>3. q \in Seq(Seq(X))
  BY <1>1, <1>2, FunctionSeq
<1>4. FlattenSeq(q) \in Seq(X)
  BY <1>3, FlattenBlocks
<1>5. Len(FlattenSeq(q)) \in Nat /\ DOMAIN FlattenSeq(q) = 1..Len(FlattenSeq(q))
  BY <1>4
<1>6. QED
  BY <1>1, <1>5

\* Before the first block there are no forwarders, listeners or wrappers.
LEMMA TypesInit == Init => LoadTypes
<1> SUFFICES ASSUME Init PROVE LoadTypes
  OBVIOUS
<1>1. BlocksInv
  BY PortsInit DEF PortsInv
<1>2. /\ phase = "adapt" /\ cur = NoApp /\ todo \subseteq Apps /\ loaded = {} /\ started = {}
      /\ forwarders = <<>> /\ open = {} /\ tunnels = {} /\ bases = {} /\ wrapped = {}
      /\ forward = <<>> /\ read = 0
  BY DEF Init, Apps
<1>3. DOMAIN forwarders = 1..0
  BY <1>2
<1>4. QED
  BY <1>1, <1>2, <1>3 DEF LoadTypes, Phases

\* Another block is added to the app.
LEMMA AdaptTypes == ASSUME LoadTypes, PortsInv', Adapt PROVE LoadTypes'
<1>1. /\ UNCHANGED <<file, cur, todo, loaded, started, resourceVars>>
      /\ phase = "adapt" /\ phase' \in {"adapt", "failed"}
  BY DEF Adapt
<1>2. /\ UNCHANGED cur /\ UNCHANGED todo /\ UNCHANGED loaded /\ UNCHANGED started
      /\ UNCHANGED forwarders /\ UNCHANGED open /\ UNCHANGED tunnels /\ UNCHANGED servers
      /\ UNCHANGED bases /\ UNCHANGED wrapped /\ phase' \in Phases
  BY <1>1 DEF resourceVars, Phases
<1>3. BlocksInv'
  BY DEF PortsInv
<1>4. QED
  BY <1>1, <1>2, <1>3 DEF LoadTypes

\* The app is loaded: its forwarders are a sequence, none of them open.
LEMMA ForwardsTypes == ASSUME LoadTypes, PortsInv', LInv, ProvisionForwards PROVE LoadTypes'
<1> DEFINE fwds == ForwardsFromJSON(forward)
<1>1. /\ phase = "provision" /\ UNCHANGED <<file, read, forward, started, open, servers, tunnels, wrapped, bases>>
      /\ \/ phase' = "cancel" /\ UNCHANGED <<cur, todo, loaded, forwarders>>
         \/ /\ forwarders' = AllForwarders(fwds) /\ UNCHANGED phase
            /\ cur' = NoApp /\ todo' = todo \ {"forward"} /\ loaded' = loaded \cup {"forward"}
  BY DEF ProvisionForwards, AllForwarders, AppProvisioned
<1>2. \E n \in Nat : DOMAIN forwarders' = 1..n
  <2>1. CASE UNCHANGED forwarders
    BY <2>1 DEF LoadTypes
  <2>2. CASE forwarders' = AllForwarders(fwds)
    <3>1. PICK p \in Plans : file = p.file
      BY DEF LoadTypes, BlocksInv
    <3>2. PICK m, main : Made(forward, read, m, main)
      BY DEF LoadTypes, BlocksInv
    <3>3. /\ m \in Nat /\ Entries(forward, m)
          /\ \A i \in 1..read : forward[main[i]].ports = UsedTokens(file[i].body)
          /\ \A k \in 1..m : (\A i \in 1..read : main[i] # k) => forward[k].ports = <<>>
      BY <3>2 DEF Made
    <3>4. Entries(fwds, m) /\ \A k \in 1..m : fwds[k].ports = forward[k].ports
      <4>1. Entries(forward, m)
        BY <3>3
      <4>2. ASSUME NEW k \in 1..m PROVE fwds[k].ports = forward[k].ports
        BY ONLY <4>1, <4>2, EntriesJSON
      <4>3. QED
        BY <4>1, <4>2, EntriesJSON
    <3> HIDE DEF fwds
    <3>5. DOMAIN fwds = 1..m
      <4>1. fwds = [k \in 1..m |-> fwds[k]]
        BY <3>4, EntriesAre
      <4>2. QED
        BY ONLY <4>1
    <3>6. ASSUME NEW k \in 1..m PROVE \E T : fwds[k].ports \in Seq(T)
      <4>1. CASE \E i \in 1..read : main[i] = k
        <5>1. PICK i \in 1..read : main[i] = k
          BY <4>1
        <5>2. read \in 0..Len(file) /\ Len(file) \in Nat
          BY <3>1, FileType DEF LoadTypes, BlocksInv
        <5>3. i \in 1..Len(file)
          BY <5>2
        <5>4. UsedTokens(file[i].body) \in Seq(ToSet(UsedTokens(file[i].body)))
          BY <3>1, <5>3, SpotsList
        <5>5. fwds[k].ports = UsedTokens(file[i].body)
          BY <3>3, <3>4, <5>1
        <5>6. QED
          BY <5>4, <5>5
      <4>2. CASE \A i \in 1..read : main[i] # k
        <5>1. fwds[k].ports = <<>>
          BY <3>3, <3>4, <4>2
        <5>2. <<>> \in Seq({})
          OBVIOUS
        <5>3. QED
          BY <5>1, <5>2
      <4>3. QED
        BY <4>1, <4>2
    <3>7. QED
      BY <2>2, <3>3, <3>5, <3>6, AllForwardersSeq
  <2>3. QED
    BY <1>1, <2>1, <2>2
<1>3. open' = {}
  BY <1>1 DEF LInv, NotStarted
<1>4. /\ UNCHANGED started /\ UNCHANGED servers /\ UNCHANGED tunnels /\ UNCHANGED wrapped
      /\ UNCHANGED bases /\ phase' \in {"provision", "cancel"} /\ phase' \in Phases
      /\ cur' \in {cur, NoApp} /\ todo' \subseteq todo /\ loaded' \subseteq loaded \cup {"forward"}
      /\ loaded \subseteq loaded'
  BY <1>1 DEF Phases
<1>5. BlocksInv'
  BY DEF PortsInv
<1>6. QED
  BY <1>2, <1>3, <1>4, <1>5 DEF LoadTypes, Apps

\* The other steps leave the Caddyfile and the app alone.
LEMMA OtherTypes ==
  ASSUME LoadTypes, BlocksInv', UNCHANGED <<file, read, forward>>, phase' \in Phases \ {"adapt"},
         cur' \in Apps \cup {NoApp}, todo' \subseteq todo, loaded' \subseteq Apps, started' \subseteq loaded',
         forwarders' \in {forwarders, <<>>}, open' \subseteq DOMAIN forwarders',
         \A t \in tunnels' : t[1] \in DOMAIN servers' /\ t[2] \in DOMAIN servers'[t[1]],
         bases' \subseteq wrapped', wrapped' \subseteq DOMAIN servers'
  PROVE  LoadTypes'
<1>1. \E n \in Nat : DOMAIN forwarders' = 1..n
  <2>1. DOMAIN <<>> = 1..0
    OBVIOUS
  <2>2. QED
    BY <2>1 DEF LoadTypes
<1>2. QED
  BY <1>1 DEF LoadTypes

\* Every step keeps the types.
LEMMA TypesStep ==
  ASSUME LoadTypes, LInv, PortsInv, PortsInv', [Next]_vars
  PROVE  LoadTypes'
<1> DEFINE Frame == UNCHANGED <<file, read, forward>> /\ phase' \in Phases \ {"adapt"}
           Tunnels == \A t \in tunnels : t[1] \in DOMAIN servers /\ t[2] \in DOMAIN servers[t[1]]
<1>0. /\ BlocksInv' /\ Tunnels /\ cur \in Apps \cup {NoApp} /\ todo \subseteq Apps
      /\ loaded \subseteq Apps /\ started \subseteq loaded /\ open \subseteq DOMAIN forwarders
      /\ bases \subseteq wrapped /\ wrapped \subseteq DOMAIN servers
  BY DEF LoadTypes, PortsInv
<1>1. CASE Adapt
  BY <1>1, AdaptTypes
<1>2. CASE ProvisionForwards
  BY <1>2, ForwardsTypes
<1>3. CASE AdaptEnds
  <2>1. /\ phase = "adapt" /\ Frame /\ UNCHANGED cur /\ UNCHANGED todo /\ UNCHANGED loaded
        /\ UNCHANGED started /\ UNCHANGED forwarders /\ UNCHANGED open /\ UNCHANGED tunnels
        /\ UNCHANGED wrapped /\ UNCHANGED bases
    BY <1>3 DEF AdaptEnds, appVars, Phases
  <2>2. tunnels = {} /\ wrapped = {}
    BY <2>1 DEF LoadTypes, LInv, NotStarted
  <2>3. QED
    BY <1>0, <2>1, <2>2, OtherTypes
<1>4. CASE LoadPointc
  <2>1. /\ phase = "provision" /\ Frame /\ UNCHANGED cur /\ UNCHANGED todo /\ UNCHANGED started
        /\ loaded' \in {loaded, loaded \cup {"point-c"}}
        /\ UNCHANGED forwarders /\ UNCHANGED open /\ UNCHANGED servers /\ UNCHANGED tunnels
        /\ UNCHANGED wrapped /\ UNCHANGED bases
    BY <1>4 DEF LoadPointc, resourceVars, Phases
  <2>2. loaded' \subseteq Apps /\ started' \subseteq loaded'
    BY <1>0, <2>1 DEF Apps
  <2>3. QED
    BY <1>0, <2>1, <2>2, OtherTypes
<1>5. CASE \/ \E a \in Apps : Provision(a)
           \/ PointcEnds \/ HttpEnds \/ ProvisionEnds \/ Run \/ StopAll \/ StopEnds
           \/ (\E i \in up : CleanNet(i)) \/ CancelEnds
  <2>1. /\ Frame /\ cur' \in Apps \cup {NoApp} /\ todo' \subseteq todo /\ UNCHANGED started
        /\ loaded' \in {loaded, loaded \cup {"http"}} /\ UNCHANGED resourceVars
    BY <1>0, <1>5 DEF Provision, PointcEnds, HttpEnds, ProvisionEnds, Run, StopAll, StopEnds, CleanNet, Clean,
                      CancelEnds, AppProvisioned, appVars, resourceVars, Phases
  <2>2. /\ UNCHANGED forwarders /\ UNCHANGED open /\ UNCHANGED servers /\ UNCHANGED tunnels
        /\ UNCHANGED wrapped /\ UNCHANGED bases
    BY <2>1 DEF resourceVars
  <2>3. loaded' \subseteq Apps /\ started' \subseteq loaded'
    BY <1>0, <2>1 DEF Apps
  <2>4. QED
    BY <1>0, <2>1, <2>2, <2>3, OtherTypes
<1>6. CASE ProvisionListener
  <2>1. /\ phase = "provision" /\ Frame /\ Listening /\ UNCHANGED cur /\ UNCHANGED todo /\ UNCHANGED loaded
        /\ UNCHANGED started /\ UNCHANGED forwarders /\ UNCHANGED open /\ UNCHANGED servers
        /\ UNCHANGED wrapped /\ UNCHANGED bases
        /\ tunnels' \in {tunnels, tunnels \cup {<<NextWrapper, NextListener>>}}
    BY <1>6 DEF ProvisionListener, appVars, Phases
  <2>2. Tunnels'
    BY <1>0, <2>1 DEF Listening
  <2>3. QED
    BY <1>0, <2>1, <2>2, OtherTypes
<1>7. CASE ProvisionMulti
  <2>1. /\ phase = "provision" /\ Frame /\ UNCHANGED cur /\ UNCHANGED todo /\ UNCHANGED loaded
        /\ UNCHANGED started /\ UNCHANGED forwarders /\ UNCHANGED open /\ UNCHANGED servers
        /\ UNCHANGED tunnels /\ UNCHANGED bases
        /\ NextWrapper \in DOMAIN servers /\ wrapped' \in {wrapped, wrapped \cup {NextWrapper}}
    BY <1>7 DEF ProvisionMulti, appVars, Phases
  <2>2. bases' \subseteq wrapped' /\ wrapped' \subseteq DOMAIN servers'
    BY <1>0, <2>1
  <2>3. QED
    BY <1>0, <2>1, <2>2, OtherTypes
<1>8. CASE StartPointc \/ StartForwards \/ StartHttp
  <2>1. /\ phase = "start" /\ Frame /\ UNCHANGED cur /\ UNCHANGED todo /\ UNCHANGED loaded
        /\ started' \subseteq loaded /\ UNCHANGED forwarders /\ UNCHANGED servers
        /\ UNCHANGED tunnels /\ UNCHANGED wrapped
    BY <1>0, <1>8 DEF StartPointc, StartForwards, StartHttp, Start, StartFails, appVars, Phases
  <2>2. open' \subseteq DOMAIN forwarders
    <3>1. \/ open' \in {open, DOMAIN forwarders}
          \/ \E k \in DOMAIN forwarders : open' = 1..(k - 1)
      BY <1>8 DEF StartPointc, StartForwards, StartHttp
    <3>2. PICK n \in Nat : DOMAIN forwarders = 1..n
      BY DEF LoadTypes
    <3>3. \A k \in 1..n : 1..(k - 1) \subseteq 1..n
      BY <3>2
    <3>4. QED
      BY <1>0, <3>1, <3>2, <3>3
  <2>3. bases' \subseteq wrapped
    <3>1. bases' \in {bases, wrapped} \/ \E k \in wrapped : bases' = 1..(k - 1)
      BY <1>8 DEF StartPointc, StartForwards, StartHttp
    <3>2. QED
      BY <1>0, <3>1 DEF LInv, WrappedInOrder
  <2>4. QED
    BY <1>0, <2>1, <2>2, <2>3, OtherTypes
<1>9. CASE \/ \E a \in Apps : Stop(a)
           \/ CleanForwards \/ \E w \in wrapped : CleanMulti(w)
  <2>1. /\ Frame /\ UNCHANGED cur /\ UNCHANGED todo /\ UNCHANGED loaded
        /\ started' \subseteq started /\ UNCHANGED servers /\ UNCHANGED wrapped
        /\ tunnels' \subseteq tunnels /\ bases' \subseteq bases
        /\ \/ UNCHANGED forwarders /\ open' \subseteq open
           \/ forwarders' = <<>> /\ open' = {}
    BY <1>9 DEF Stop, CleanForwards, CleanMulti, Clean, appVars, Phases
  <2>2. Tunnels' /\ open' \subseteq DOMAIN forwarders'
    BY <1>0, <2>1
  <2>3. QED
    BY <1>0, <2>1, <2>2, OtherTypes
<1>10. CASE UNCHANGED vars
  BY <1>0, <1>10 DEF LoadTypes, vars, appVars, resourceVars
<1>11. QED
  BY <1>1, <1>2, <1>3, <1>4, <1>5, <1>6, <1>7, <1>8, <1>9, <1>10 DEF Next
-----------------------------------------------------------------------------
(* Theorems.                                                               *)

\* point-c.go and the wireguard modules: the networks, their names and what Lookup
\* knows keep their types, whatever else Caddy does meanwhile.
THEOREM NetworksTypeCorrect == Spec => []NetworksTypeOK
<1>1. LoadInv => NetworksTypeOK
  BY DEF LoadInv, NetInv
<1>2. QED
  BY <1>1, LoadInvariant, PTL

\* point-c.go, Lookup: a name never leads into another tunnel than the one that declared
\* it, for any number of networks and peers.
THEOREM NoForeignNetwork == Spec => []LookupStaysInside
<1>1. LoadInv => LookupStaysInside
  <2> SUFFICES ASSUME LoadInv, NEW n \in DOMAIN net
               PROVE  \E i \in DOMAIN config :
                        LET all == {[name |-> config[i].name, ip |-> config[i].ip]}
                                       \cup {config[i].peers[j] : j \in DOMAIN config[i].peers}
                        IN  (\E p \in all : p.name = n) /\ (\E p \in all : p.ip = Lookup(n))
    BY DEF LookupStaysInside
  <2>1. PICK i \in 1..Len(config) : n = config[i].name /\ net[n] \in AddrsOf(config[i])
    BY DEF LoadInv, NetInv, Declared
  <2> DEFINE own == [name |-> config[i].name, ip |-> config[i].ip]
             all == {own} \cup {config[i].peers[j] : j \in DOMAIN config[i].peers}
  <2>2. own \in all /\ own.name = n
    BY <2>1
  <2>3. \E p \in all : p.ip = net[n]
    <3>1. CASE net[n] = config[i].ip
      BY <2>2, <3>1
    <3>2. CASE \E j \in DOMAIN config[i].peers : net[n] = config[i].peers[j].ip
      BY <3>2
    <3>3. QED
      BY <2>1, <3>1, <3>2 DEF AddrsOf
  <2>4. i \in DOMAIN config
    <3>1. config \in Seq(NetConfigs)
      BY ConfigType DEF LoadInv, NetInv
    <3>2. QED
      BY <3>1
  <2>5. QED
    BY <2>2, <2>3, <2>4 DEF Lookup
<1>2. QED
  BY <1>1, LoadInvariant, PTL

\* When a load has failed or a configuration was stopped nothing of it is open but what
\* a wrapper whose Provision failed had opened: for any number of networks, forwarders
\* and wrappers, and any order in which Caddy provisions, starts, stops and cleans up.
THEOREM EverythingReleased == Spec => []AllReleased
<1>1. LoadInv => AllReleased
  BY DEF LoadInv, LInv, AllCleaned, ToClean, AllReleased
<1>2. QED
  BY <1>1, LoadInvariant, PTL

\* forward.go: a configuration that runs has the forwarders that the words of its Caddyfile ask
\* for, one for each and in their order, for any number of blocks, names on a line, lines and
\* port pairs, and any order in which Caddy provisions the apps.
THEOREM PortsAsWritten == Spec => []PortsConfigured
<1>1. PortsInv => PortsConfigured
  <2> SUFFICES ASSUME PortsInv, phase \in {"start", "run"}, "forward" \in loaded, NamesKept
               PROVE  \E word \in Bijection(DOMAIN forwarders, Asked) :
                          /\ \A k, m \in DOMAIN forwarders : k < m => Before(word[k], word[m])
                          /\ \A k \in DOMAIN forwarders : Meets(forwarders[k], word[k])
    BY DEF PortsConfigured
  <2>1. PICK p \in Plans : file = p.file
    BY DEF PortsInv, BlocksInv
  <2>2. Fulfilled(forwarders)
    BY DEF PortsInv, Live
  <2>3. QED
    BY <2>1, <2>2, FulfilledInOrder
<1>2. QED
  BY <1>1, PortsInit, PortsStep, PTL DEF Spec

\* Load: every variable keeps its type, whatever the Caddyfile has in it; no listener is open
\* of a forwarder or a wrapper that there is not.
THEOREM LoadTypeCorrect == Spec => []TypeOK
<1>1. Init => LoadInv /\ PortsInv /\ LoadTypes
  BY LoadInitInv, PortsInit, TypesInit
<1>2. LoadInv /\ PortsInv /\ LoadTypes /\ [Next]_vars => (LoadInv /\ PortsInv /\ LoadTypes)'
  BY LoadStep, PortsStep, TypesStep DEF LoadInv
<1>3. LoadInv /\ PortsInv /\ LoadTypes => TypeOK
  BY DEF LoadInv, NetInv, LoadTypes, TypeOK
<1>4. QED
  BY <1>1, <1>2, <1>3, PTL DEF Spec
=============================================================================
