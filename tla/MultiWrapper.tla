---------------------------- MODULE MultiWrapper ----------------------------
(***************************************************************************)
(* merge-listener-wrapper.go: one MultiWrapper, the listeners it loads and *)
(* those it is given to wrap, and the listen goroutine that each call of   *)
(* WrapListener starts for every listener known by then.  All goroutines   *)
(* send into the one channel conns, which the ChannelListeners returned by *)
(* WrapListener read.                                                      *)
(***************************************************************************)
EXTENDS ChannelListener, Integers, Sequences

CONSTANTS
    Callers,    \* goroutines of the server: Accept and Close on the wrapped listeners
    Loaded,     \* the net.Listeners that ListenerRaw describes, in order
    Base        \* Base[w]: the net.Listener whose WrapListener call returned w

LoadedSet == {Loaded[i] : i \in DOMAIN Loaded}
Sources == LoadedSet \cup {Base[w] : w \in Listeners}
Goroutines == Listeners \X Sources

ASSUME WrapperAssumption ==
    /\ Threads = Callers \cup Goroutines
    /\ Callers \cap Goroutines = {}
    /\ Loaded \in Seq(LoadedSet)
    /\ \A w \in Listeners : Base[w] \notin LoadedSet
    /\ \A v, w \in Listeners : Base[v] = Base[w] => v = w

VARIABLES
    phase,      \* "new", "ready", "failed", "cleanup" or "clean"
    listeners,  \* p.listeners
    src,        \* src[s]: "absent" before it exists, then "open", "closed", or "stuck" when
                \* a Close of it has failed
    gpc,        \* gpc[<<w, s>>]: "none", "accept", "send", "finish" or "exit"
    held        \* held[g]: the connection g is sending, Nil if none

wrapperVars == <<phase, listeners, src, gpc, held>>
vars == <<listenerVars, wrapperVars>>

WrapperTypeOK ==
    /\ ListenerTypeOK
    /\ phase \in {"new", "ready", "failed", "cleanup", "clean"}
    /\ listeners \in Seq(Sources)
    /\ src \in [Sources -> {"absent", "open", "closed", "stuck"}]
    /\ gpc \in [Goroutines -> {"none", "accept", "send", "finish", "exit"}]
    /\ held \in [Goroutines -> Conns \cup {Nil}]

Init == /\ ListenerInit
        /\ phase = "new"
        /\ listeners = <<>>
        /\ src = [s \in Sources |-> "absent"]
        /\ gpc = [g \in Goroutines |-> "none"]
        /\ held = [g \in Goroutines |-> Nil]

\* The wrapped listeners: WrapListener starts a goroutine for its own argument.
Wrapped == {w \in Listeners : gpc[<<w, Base[w]>>] # "none"}
-----------------------------------------------------------------------------
(* The life of the module *)

\* LoadModule creates every listener of ListenerRaw.
Provision ==
    /\ phase = "new"
    /\ phase' = "ready"
    /\ src' = [s \in Sources |-> IF s \in LoadedSet THEN "open" ELSE "absent"]
    /\ listeners' = Loaded
    /\ UNCHANGED <<listenerVars, gpc, held>>

\* ListenerRaw is nil, or LoadModule fails after n listeners exist: nothing is
\* kept of them in p.listeners.
ProvisionFails(n) ==
    /\ phase = "new"
    /\ n = 0 \/ n < Len(Loaded)
    /\ phase' = "failed"
    /\ src' = [s \in Sources |-> IF \E i \in 1..n : Loaded[i] = s THEN "open" ELSE "absent"]
    /\ UNCHANGED <<listenerVars, listeners, gpc, held>>

\* mutant: the wrapped listener is served but not remembered
WrapListenerForgets(w) ==
    /\ phase = "ready"
    /\ w \notin Wrapped
    /\ src' = [src EXCEPT ![Base[w]] = "open"]
    /\ gpc' = [g \in Goroutines |->
                  IF g[1] = w /\ (g[2] = Base[w] \/ \E i \in DOMAIN listeners : listeners[i] = g[2])
                  THEN "accept" ELSE gpc[g]]
    /\ UNCHANGED <<listenerVars, phase, listeners, held>>

\* mutant: the listener it returns is remembered, not the one it was given
WrapListenerSwaps(w) ==
    /\ phase = "ready"
    /\ w \notin Wrapped
    /\ src' = [src EXCEPT ![Base[w]] = "open"]
    /\ listeners' = Append(listeners, w)
    /\ gpc' = [gpc EXCEPT ![<<w, Base[w]>>] = "accept"]
    /\ UNCHANGED <<listenerVars, phase, held>>

\* ls is appended, then one goroutine starts for every listener of the slice,
\* those of earlier WrapListener calls included.
WrapListener(w) ==
    /\ phase = "ready"
    /\ w \notin Wrapped
    /\ src' = [src EXCEPT ![Base[w]] = "open"]
    /\ listeners' = Append(listeners, Base[w])
    /\ gpc' = [g \in Goroutines |->
                  IF g[1] = w /\ \E i \in DOMAIN listeners' : listeners'[i] = g[2]
                  THEN "accept" ELSE gpc[g]]
    /\ UNCHANGED <<listenerVars, phase, held>>

\* mutant: a Close that fails ends the loop
CleanupCloseGivesUp ==
    /\ phase \in {"ready", "failed", "cleanup"}
    /\ listeners # <<>>
    /\ \E r \in {"closed", "stuck"} :
           /\ src' = [src EXCEPT ![Head(listeners)] = r]
           /\ listeners' = IF r = "closed" THEN Tail(listeners) ELSE <<>>
    /\ phase' = "cleanup"
    /\ UNCHANGED <<listenerVars, gpc, held>>

\* One turn of the loop of Cleanup.  A Close that fails, and leaves its listener as it is,
\* only adds its error to the result.
CleanupClose ==
    /\ phase \in {"ready", "failed", "cleanup"}
    /\ listeners # <<>>
    /\ \E r \in {"closed", "stuck"} : src' = [src EXCEPT ![Head(listeners)] = r]
    /\ listeners' = Tail(listeners)
    /\ phase' = "cleanup"
    /\ UNCHANGED <<listenerVars, gpc, held>>

\* *p = MultiWrapper{}
CleanupReset ==
    /\ phase \in {"ready", "failed", "cleanup"}
    /\ listeners = <<>>
    /\ phase' = "clean"
    /\ UNCHANGED <<listenerVars, listeners, src, gpc, held>>
-----------------------------------------------------------------------------
(* listen(ls, conns, done, finish), with ls = g[2], done and finish of g[1] *)

\* ls.Accept returns a connection: g blocks in the select, offering it.
SourceAccept(g, c) ==
    /\ gpc[g] = "accept"
    /\ src[g[2]] \in {"open", "stuck"}
    /\ Offer(c)
    /\ gpc' = [gpc EXCEPT ![g] = "send"]
    /\ held' = [held EXCEPT ![g] = c]
    /\ UNCHANGED <<phase, listeners, src>>

\* mutant: the connection is ignored but not closed
DropHeldLeaks(g) ==
    /\ gpc[g] = "send"
    /\ done[g[1]]
    /\ gpc' = [gpc EXCEPT ![g] = "accept"]
    /\ held' = [held EXCEPT ![g] = Nil]
    /\ UNCHANGED <<listenerVars, phase, listeners, src>>

\* case <-done: the connection is closed and the loop goes on.
DropHeld(g) ==
    /\ gpc[g] = "send"
    /\ done[g[1]]
    /\ Withdraw(held[g])
    /\ gpc' = [gpc EXCEPT ![g] = "accept"]
    /\ held' = [held EXCEPT ![g] = Nil]
    /\ UNCHANGED <<phase, listeners, src>>

\* mutant: the goroutine returns without finish(err)
SourceFailsSilently(g, err) ==
    /\ gpc[g] = "accept"
    /\ src[g[2]] = "closed" => err = ErrClosed
    /\ src[g[2]] # "closed" => err \in Faults
    /\ gpc' = [gpc EXCEPT ![g] = "exit"]
    /\ UNCHANGED <<listenerVars, phase, listeners, src, held>>

\* mutant: the loop goes on to the next Accept after an error
SourceFailsRetries(g, err) ==
    /\ gpc[g] = "accept"
    /\ src[g[2]] = "closed" => err = ErrClosed
    /\ src[g[2]] # "closed" => err \in Faults
    /\ UNCHANGED vars

\* mutant: a failed Accept closes done itself, without CloseWithErr
SourceFailsClosesDone(g, err) ==
    /\ gpc[g] = "accept"
    /\ src[g[2]] = "closed" => err = ErrClosed
    /\ src[g[2]] # "closed" => err \in Faults
    /\ done' = [done EXCEPT ![g[1]] = TRUE]
    /\ gpc' = [gpc EXCEPT ![g] = "finish"]
    /\ UNCHANGED <<closeErr, inOpen, fate, callVars, phase, listeners, src, held>>

\* ls.Accept fails with err: finish(err), which is g[1].CloseWithErr(err).  A
\* listener that is closed fails, an open one may.
SourceFails(g, err) ==
    /\ gpc[g] = "accept"
    /\ src[g[2]] = "closed" => err = ErrClosed
    /\ src[g[2]] # "closed" => err \in Faults
    /\ BeginClose(g, g[1], err)
    /\ gpc' = [gpc EXCEPT ![g] = "finish"]
    /\ UNCHANGED <<phase, listeners, src, held>>

\* finish has returned: so does the goroutine.
Exit(g) ==
    /\ gpc[g] = "finish"
    /\ pc[g] = "idle"
    /\ gpc' = [gpc EXCEPT ![g] = "exit"]
    /\ UNCHANGED <<listenerVars, phase, listeners, src, held>>

\* Inside finish.
Finish(g) ==
    /\ SwapWon(g) \/ SwapLost(g) \/ Signal(g)
    /\ UNCHANGED wrapperVars
-----------------------------------------------------------------------------
(* The server *)

\* Accept and Close on a wrapped listener.
ServerCall(t, w) ==
    /\ w \in Wrapped
    /\ BeginAccept(t, w) \/ BeginClose(t, w, Nil)
    /\ UNCHANGED wrapperVars

\* The rendezvous on conns: the Accept of t returns c, and the goroutine that
\* was sending c goes back to its own Accept.
Receive(t, g) ==
    /\ gpc[g] = "send"
    /\ AcceptConn(t, held[g])
    /\ gpc' = [gpc EXCEPT ![g] = "accept"]
    /\ held' = [held EXCEPT ![g] = Nil]
    /\ UNCHANGED <<phase, listeners, src>>

ServerStep(t) ==
    /\ AcceptDone(t) \/ LoadErr(t) \/ SwapWon(t) \/ SwapLost(t) \/ Signal(t)
    /\ UNCHANGED wrapperVars
-----------------------------------------------------------------------------
\* mutant: a plain send in the place of the select
GoStepSendOnly(g) == \/ Exit(g)
                     \/ Finish(g)
                     \/ src[g[2]] = "closed" /\ SourceFails(g, ErrClosed)

GoStep(g) == \/ DropHeld(g)
             \/ Exit(g)
             \/ Finish(g)
             \/ src[g[2]] = "closed" /\ SourceFails(g, ErrClosed)

CallerStep(t) == ServerStep(t) \/ \E g \in Goroutines : Receive(t, g)

Cleanup == CleanupClose \/ CleanupReset

Next == \/ Provision
        \/ \E n \in 0..Len(Loaded) : ProvisionFails(n)
        \/ \E w \in Listeners : WrapListener(w)
        \/ Cleanup
        \/ \E g \in Goroutines : \/ \E c \in Conns : SourceAccept(g, c)
                                 \/ \E e \in Errs : SourceFails(g, e)
                                 \/ GoStep(g)
        \/ \E t \in Callers : \/ \E w \in Listeners : ServerCall(t, w)
                              \/ CallerStep(t)

Spec == Init /\ [][Next]_vars

\* Goroutines that can run do run, and a Cleanup that has begun ends.  Nobody
\* owes a call of Accept or Close, a connection, a fault or the start of Cleanup.
FairSpec == /\ Spec
            /\ \A g \in Goroutines : WF_vars(GoStep(g))
            /\ \A t \in Callers : WF_vars(CallerStep(t))
            /\ WF_vars(phase = "cleanup" /\ Cleanup)
-----------------------------------------------------------------------------
(* Properties *)

\* The wrapped listeners, driven by listen and by the server, are the Listeners
\* of ChannelListener: what is proved there holds of them.
ImplementsListeners == ListenerSpec

\* A connection taken from a source is always in somebody's hands: while it is
\* neither delivered nor closed, one goroutine and only one is sending it.
NoLeakedConn ==
    /\ \A g \in Goroutines : held[g] # Nil <=> gpc[g] = "send"
    /\ \A g \in Goroutines : held[g] # Nil =>
           /\ fate[held[g]] = "offered"
           /\ \A h \in Goroutines \ {g} : held[h] # held[g]
    /\ \A c \in Conns : fate[c] = "offered" => \E g \in Goroutines : held[g] = c

\* No goroutine dies in silence: when one has ended, the listener it fed has an
\* error to give to its Accepts.
FailureReported == \A g \in Goroutines : gpc[g] = "exit" => closeErr[g[1]] # Nil

\* "All wrapped listeners are closed": nothing that was loaded or wrapped is open
\* after Cleanup, when Provision had succeeded, unless its own Close has failed; the failure
\* of one is no reason to leave another open.
CleanupClosesAll == phase = "clean" /\ Wrapped # {} =>
    \A s \in LoadedSet \cup {Base[w] : w \in Wrapped} : src[s] \in {"closed", "stuck"}

\* Under FairSpec, a connection that was accepted for a closed listener does not
\* stay open for ever: it is closed, or some Accept gets it.
HeldIsReleased == \A g \in Goroutines :
    gpc[g] = "send" /\ closeErr[g[1]] # Nil ~> gpc[g] = "accept"

\* Under FairSpec, once Cleanup is over and the server has closed what it was given, every
\* goroutine ends, whatever it was doing; one that accepts from a listener whose Close has
\* failed may go on.
GoroutinesEnd ==
    phase = "clean" /\ (\A w \in Wrapped : closeErr[w] # Nil)
        ~> \A g \in Goroutines : gpc[g] \in {"none", "exit"} \/ src[g[2]] = "stuck"

\* The doc of MultiWrapper: it "aggregates their net.Conns into a single
\* net.Listener".  So a connection is closed unseen only when that listener is
\* closed; but a second WrapListener makes a second one, and the goroutines of
\* the first, once it is closed, close connections the second should get.
DroppedOnlyWhenClosed ==
    [][\A c \in Conns : fate[c] = "offered" /\ fate'[c] = "dropped"
            => \A w \in Wrapped : closeErr[w] # Nil]_vars
=============================================================================
