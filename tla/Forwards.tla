------------------------------ MODULE Forwards ------------------------------
(***************************************************************************)
(* forward.go: the Forwards app.  Each Forwarder listens on the host and   *)
(* tunnels every connection it accepts to a connection it dials in a       *)
(* point-c network.  Contexts form a tree: the one of the Caddy config, one *)
(* per forwarder, one per connection; cancelling one cancels those below,  *)
(* and context.AfterFunc closes the sockets of a connection.               *)
(***************************************************************************)
EXTENDS Naturals, Sequences, FiniteSets, SequencesExt

CONSTANTS
    N,      \* the number of forwarders that Provision built
    Conns   \* the client connections

ASSUME NAssumption == N \in Nat

Fwds == 1..N
Sides == {"cli", "srv"}         \* c, accepted on the host, and rc, dialed
Other(s) == CHOOSE r \in Sides : r # s

VARIABLES
    phase,  \* "starting", "started", "failed", "stopping" or "stopped"
    root,   \* the context of the Caddy config, f.Ctx, is cancelled
    stop,   \* p.stop: what is left to call, as <<"close" or "cancel", forwarder>>
    ln,     \* ln[i]: "none", "open" or "closed"
    fctx,   \* fctx[i]: the context of forwarder i has been cancelled by itself
    loop,   \* loop[i]: the accept loop of i: "none", "run" or "exit"
    home,   \* home[c]: the forwarder that accepted c, 0 before
    conn,   \* conn[c]: the goroutine of c: "none", "dial", "copy" or "end"
    cctx,   \* cctx[c]: the context of c has been cancelled by itself
    sock,   \* sock[c][s]: "none", "open" or "closed"
    armed,  \* armed[c]: the sides whose AfterFunc has not run
    copies, \* copies[c]: the sides whose bytes a running tcpCopy reads
    writing,\* writing[c]: those of them whose tcpCopy is in Write, to the other side
    eof     \* eof[c]: the sides of which only the end, or the failure, is left to read

fwdVars == <<phase, root, stop, ln, fctx, loop>>
connVars == <<home, conn, cctx, sock, armed, copies, writing, eof>>
vars == <<fwdVars, connVars>>

TypeOK == /\ phase \in {"starting", "started", "failed", "stopping", "stopped"}
          /\ root \in BOOLEAN
          /\ stop \in Seq({"close", "cancel"} \X Fwds)
          /\ ln \in [Fwds -> {"none", "open", "closed"}]
          /\ fctx \in [Fwds -> BOOLEAN]
          /\ loop \in [Fwds -> {"none", "run", "exit"}]
          /\ home \in [Conns -> Fwds \cup {0}]
          /\ conn \in [Conns -> {"none", "dial", "copy", "end"}]
          /\ cctx \in [Conns -> BOOLEAN]
          /\ sock \in [Conns -> [Sides -> {"none", "open", "closed"}]]
          /\ armed \in [Conns -> SUBSET Sides]
          /\ copies \in [Conns -> SUBSET Sides]
          /\ writing \in [Conns -> SUBSET Sides]
          /\ eof \in [Conns -> SUBSET Sides]

Init == /\ phase = "starting"
        /\ root = FALSE
        /\ stop = <<>>
        /\ ln = [i \in Fwds |-> "none"]
        /\ fctx = [i \in Fwds |-> FALSE]
        /\ loop = [i \in Fwds |-> "none"]
        /\ home = [c \in Conns |-> 0]
        /\ conn = [c \in Conns |-> "none"]
        /\ cctx = [c \in Conns |-> FALSE]
        /\ sock = [c \in Conns |-> [s \in Sides |-> "none"]]
        /\ armed = [c \in Conns |-> {}]
        /\ copies = [c \in Conns |-> {}]
        /\ writing = [c \in Conns |-> {}]
        /\ eof = [c \in Conns |-> {}]

FwdDone(i) == root \/ fctx[i]
ConnDone(c) == cctx[c] \/ (home[c] # 0 /\ FwdDone(home[c]))

\* The forwarders whose turn in the loop of Start has come and gone.
Started == {i \in Fwds : ln[i] # "none"}
-----------------------------------------------------------------------------
(* Start, Stop and Cleanup; one call at a time, as Caddy makes them *)

\* mutant: only the cancel is remembered
StartOneForgets(i) ==
    /\ phase = "starting"
    /\ i \notin Started
    /\ \A j \in Fwds : j < i => j \in Started
    /\ ln' = [ln EXCEPT ![i] = "open"]
    /\ loop' = [loop EXCEPT ![i] = "run"]
    /\ stop' = Append(stop, <<"cancel", i>>)
    /\ UNCHANGED <<phase, root, fctx, connVars>>

\* One turn of the loop of Start: listen, remember how to undo it, accept.
StartOne(i) ==
    /\ phase = "starting"
    /\ i \notin Started
    /\ \A j \in Fwds : j < i => j \in Started
    /\ ln' = [ln EXCEPT ![i] = "open"]
    /\ loop' = [loop EXCEPT ![i] = "run"]
    /\ stop' = stop \o << <<"close", i>>, <<"cancel", i>> >>
    /\ UNCHANGED <<phase, root, fctx, connVars>>

StartEnds ==
    /\ phase = "starting"
    /\ Started = Fwds
    /\ phase' = "started"
    /\ UNCHANGED <<root, stop, ln, fctx, loop, connVars>>

\* Listen fails: Start returns the error and leaves the others running.
StartFails ==
    /\ phase = "starting"
    /\ Started # Fwds
    /\ phase' = "failed"
    /\ UNCHANGED <<root, stop, ln, fctx, loop, connVars>>

\* Caddy drops the config: it cancels the context, before any Cleanup.
CancelConfig ==
    /\ phase # "starting"
    /\ ~root
    /\ root' = TRUE
    /\ UNCHANGED <<phase, stop, ln, fctx, loop, connVars>>

\* stopAll begins, from Stop or, if Start failed, from Cleanup.
BeginStop ==
    /\ phase = "started" \/ (phase = "failed" /\ root)
    /\ phase' = "stopping"
    /\ stop' = Reverse(stop)
    /\ UNCHANGED <<root, ln, fctx, loop, connVars>>

\* mutant: stopAll gives up the rest after one call
StopOneOnly ==
    /\ phase = "stopping"
    /\ stop # <<>>
    /\ stop' = <<>>
    /\ fctx' = [fctx EXCEPT ![Head(stop)[2]] = TRUE]
    /\ UNCHANGED <<phase, root, ln, loop, connVars>>

\* One turn of the loop of stopAll.
StopOne ==
    /\ phase = "stopping"
    /\ stop # <<>>
    /\ stop' = Tail(stop)
    /\ LET i == Head(stop)[2]
       IN  IF Head(stop)[1] = "close"
           THEN ln' = [ln EXCEPT ![i] = "closed"] /\ UNCHANGED fctx
           ELSE fctx' = [fctx EXCEPT ![i] = TRUE] /\ UNCHANGED ln
    /\ UNCHANGED <<phase, root, loop, connVars>>

StopEnds ==
    /\ phase = "stopping"
    /\ stop = <<>>
    /\ phase' = "stopped"
    /\ UNCHANGED <<root, stop, ln, fctx, loop, connVars>>
-----------------------------------------------------------------------------
(* forwardListener *)

\* mutant: the goroutine works with the forwarder of the next turn of Start
AcceptNext(i, c) ==
    /\ loop[i] = "run"
    /\ ln[i] = "open"
    /\ conn[c] = "none"
    /\ home' = [home EXCEPT ![c] = i + 1]
    /\ conn' = [conn EXCEPT ![c] = "dial"]
    /\ sock' = [sock EXCEPT ![c].cli = "open"]
    /\ armed' = [armed EXCEPT ![c] = {"cli"}]
    /\ UNCHANGED <<fwdVars, cctx, copies, writing, eof>>

\* Accept returns c: a context under the forwarder's, an AfterFunc that closes c
\* (at once, if the context is already cancelled) and a goroutine.
Accept(i, c) ==
    /\ loop[i] = "run"
    /\ ln[i] = "open"
    /\ conn[c] = "none"
    /\ home' = [home EXCEPT ![c] = i]
    /\ conn' = [conn EXCEPT ![c] = "dial"]
    /\ sock' = [sock EXCEPT ![c].cli = "open"]
    /\ armed' = [armed EXCEPT ![c] = {"cli"}]
    /\ UNCHANGED <<fwdVars, cctx, copies, writing, eof>>

\* Accept fails, because the listener is closed or by itself: the deferred cancel
\* ends every connection of this forwarder.
AcceptFails(i) ==
    /\ loop[i] = "run"
    /\ loop' = [loop EXCEPT ![i] = "exit"]
    /\ fctx' = [fctx EXCEPT ![i] = TRUE]
    /\ UNCHANGED <<phase, root, stop, ln, connVars>>

\* mutant: = for := in the loop, so that cancel is the forwarder's
DialFailsOuter(c) ==
    /\ conn[c] = "dial"
    /\ conn' = [conn EXCEPT ![c] = "end"]
    /\ fctx' = [fctx EXCEPT ![home[c]] = TRUE]
    /\ UNCHANGED <<phase, root, stop, ln, loop, home, cctx, sock, armed, copies, writing, eof>>

\* mutant: no deferred cancel
DialFailsQuietly(c) ==
    /\ conn[c] = "dial"
    /\ conn' = [conn EXCEPT ![c] = "end"]
    /\ UNCHANGED <<fwdVars, home, cctx, sock, armed, copies, writing, eof>>

\* d.Dial fails: the deferred cancel of the connection.
DialFails(c) ==
    /\ conn[c] = "dial"
    /\ conn' = [conn EXCEPT ![c] = "end"]
    /\ cctx' = [cctx EXCEPT ![c] = TRUE]
    /\ UNCHANGED <<fwdVars, home, sock, armed, copies, writing, eof>>

\* mutant: rc has no AfterFunc
DialOKBare(c) ==
    /\ conn[c] = "dial"
    /\ conn' = [conn EXCEPT ![c] = "copy"]
    /\ sock' = [sock EXCEPT ![c].srv = "open"]
    /\ copies' = [copies EXCEPT ![c] = Sides]
    /\ UNCHANGED <<fwdVars, home, cctx, armed, writing, eof>>

\* d.Dial succeeds, possibly after the context was cancelled: rc gets its AfterFunc,
\* and two tcpCopy goroutines start.
DialOK(c) ==
    /\ conn[c] = "dial"
    /\ conn' = [conn EXCEPT ![c] = "copy"]
    /\ sock' = [sock EXCEPT ![c].srv = "open"]
    /\ armed' = [armed EXCEPT ![c] = @ \cup {"srv"}]
    /\ copies' = [copies EXCEPT ![c] = Sides]
    /\ UNCHANGED <<fwdVars, home, cctx, writing, eof>>

\* The tcpCopy that reads side s got bytes, and is in Write until they are taken.
CopyReads(c, s) ==
    /\ s \in copies[c] \ writing[c]
    /\ sock[c][s] = "open"
    /\ s \notin eof[c]
    /\ writing' = [writing EXCEPT ![c] = @ \cup {s}]
    /\ UNCHANGED <<fwdVars, home, conn, cctx, sock, armed, copies, eof>>

\* The far end of the other side made room for them, when it liked to.
CopyWrites(c, s) ==
    /\ s \in writing[c]
    /\ sock[c][Other(s)] = "open"
    /\ writing' = [writing EXCEPT ![c] = @ \ {s}]
    /\ UNCHANGED <<fwdVars, home, conn, cctx, sock, armed, copies, eof>>

\* io.Copy returns: Read sees the end or a socket closed on this side, Write a socket
\* closed on the other.  In Write it sees nothing of its own side.
CopyReturns(c, s) ==
    \/ s \notin writing[c] /\ (s \in eof[c] \/ sock[c][s] = "closed")
    \/ s \in writing[c] /\ sock[c][Other(s)] = "closed"

\* mutant: tcpCopy only reports to the WaitGroup
CopyOverKeeps(c, s) ==
    /\ s \in copies[c]
    /\ copies' = [copies EXCEPT ![c] = @ \ {s}]
    /\ writing' = [writing EXCEPT ![c] = @ \ {s}]
    /\ UNCHANGED <<fwdVars, home, conn, cctx, sock, armed, eof>>

\* The deferred calls of done: cancel, then wg.Done.
CopyOver(c, s) ==
    /\ s \in copies[c]
    /\ cctx' = [cctx EXCEPT ![c] = TRUE]
    /\ copies' = [copies EXCEPT ![c] = @ \ {s}]
    /\ writing' = [writing EXCEPT ![c] = @ \ {s}]
    /\ UNCHANGED <<fwdVars, home, conn, sock, armed, eof>>

CopyEnds(c, s) == CopyReturns(c, s) /\ CopyOver(c, s)

\* Write fails by itself: the far end that should take the bytes has broken off.
WriteFails(c, s) ==
    /\ s \in writing[c]
    /\ Other(s) \in eof[c]
    /\ CopyOver(c, s)

\* wg.Wait returns.
ConnEnds(c) ==
    /\ conn[c] = "copy"
    /\ copies[c] = {}
    /\ conn' = [conn EXCEPT ![c] = "end"]
    /\ cctx' = [cctx EXCEPT ![c] = TRUE]
    /\ UNCHANGED <<fwdVars, home, sock, armed, copies, writing, eof>>

\* An AfterFunc runs, once its context is cancelled.
AfterFunc(c, s) ==
    /\ s \in armed[c]
    /\ ConnDone(c)
    /\ sock' = [sock EXCEPT ![c][s] = "closed"]
    /\ armed' = [armed EXCEPT ![c] = @ \ {s}]
    /\ UNCHANGED <<fwdVars, home, conn, cctx, copies, writing, eof>>

\* The client or the service at the far end of s has closed, and all it sent before is
\* read, or it breaks off.
RemoteEnds(c, s) ==
    /\ sock[c][s] = "open"
    /\ s \notin eof[c]
    /\ eof' = [eof EXCEPT ![c] = @ \cup {s}]
    /\ UNCHANGED <<fwdVars, home, conn, cctx, sock, armed, copies, writing>>
-----------------------------------------------------------------------------
\* What the goroutines of a connection do without waiting for the network.
ConnStep(c) == \/ \E s \in Sides : AfterFunc(c, s) \/ CopyEnds(c, s)
               \/ ConnEnds(c)

\* Dial gives up when its context is cancelled.
DialReturns(c) == ConnDone(c) /\ (DialOK(c) \/ DialFails(c))

AcceptReturns(i) == ln[i] = "closed" /\ AcceptFails(i)

Next == \/ \E i \in Fwds : StartOne(i)
        \/ StartEnds
        \/ StartFails
        \/ CancelConfig
        \/ BeginStop
        \/ StopOne
        \/ StopEnds
        \/ \E i \in Fwds : AcceptFails(i) \/ \E c \in Conns : Accept(i, c)
        \/ \E c \in Conns : \/ DialOK(c)
                            \/ DialFails(c)
                            \/ ConnStep(c)
                            \/ \E s \in Sides : \/ RemoteEnds(c, s)
                                               \/ CopyReads(c, s)
                                               \/ CopyWrites(c, s)
                                               \/ WriteFails(c, s)

Spec == Init /\ [][Next]_vars

\* The goroutines run, a stopAll that has begun goes on, calls on a cancelled
\* context or a closed listener return.  Remote ends owe nothing, not even to take what
\* is written to them, nor do dials and Caddy.
FairSpec == /\ Spec
            /\ WF_vars(StopOne \/ StopEnds)
            /\ \A i \in Fwds : WF_vars(AcceptReturns(i))
            /\ \A c \in Conns : /\ WF_vars(ConnStep(c))
                                /\ WF_vars(DialReturns(c))
-----------------------------------------------------------------------------
(* Properties *)

\* However far Start came, a listener that is open will be closed: stopAll still
\* has its Close to call, and the cancel of its connections when they are not done.
NoForgottenListener ==
    \A i \in Fwds : /\ ln[i] = "open" => Contains(stop, <<"close", i>>)
                    /\ ln[i] = "open" /\ ~fctx[i] => Contains(stop, <<"cancel", i>>)

\* The end of one connection is no business of another: a forwarder's context is
\* cancelled only when its accept loop is over or it is being stopped.
Isolation == \A i \in Fwds : fctx[i] => loop[i] = "exit" \/ phase \in {"stopping", "stopped"}

\* No socket is orphaned: an open one has an AfterFunc that will close it, and
\* when its goroutine is gone, that AfterFunc is due.
NoOrphan == \A c \in Conns, s \in Sides :
    sock[c][s] = "open" => s \in armed[c] /\ (conn[c] = "end" => ConnDone(c))

Over(c) == conn[c] = "end" /\ \A s \in Sides : sock[c][s] # "open"

\* Under FairSpec, a cancelled connection is torn down entirely, even when Dial
\* won its race against the cancellation.
CancelCloses == \A c \in Conns : conn[c] # "none" /\ ConnDone(c) ~> Over(c)

\* Under FairSpec, when one end of a tunnel is finished the other is closed too, if what
\* the finished end sent is taken there: a copy that stays in Write never sees the end,
\* and nothing else ends the tunnel.
TunnelEnds == \A c \in Conns, s \in Sides :
    []<>(s \notin writing[c]) => (conn[c] = "copy" /\ s \in eof[c] ~> Over(c))

\* Under FairSpec, a stop, even one after a Start that failed half way, leaves
\* nothing behind: no loop, no goroutine, no socket.
StopDrains == phase = "stopping" ~>
    /\ \A i \in Fwds : loop[i] # "run" /\ ln[i] # "open"
    /\ \A c \in Conns : conn[c] = "none" \/ Over(c)
=============================================================================
