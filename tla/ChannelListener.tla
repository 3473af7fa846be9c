-------------------------- MODULE ChannelListener ---------------------------
(***************************************************************************)
(* pkg/channel-listener: net.Listeners whose connections come out of a Go  *)
(* channel.  Several Listeners may read the same channel, as the ones      *)
(* created by MultiWrapper do.  Threads are goroutines inside Accept,      *)
(* Close or CloseWithErr; each atomic or channel operation of the code is  *)
(* one step, so every interleaving of the callers is a behavior.           *)
(***************************************************************************)
CONSTANTS
    Listeners,  \* the *Listener objects sharing one input channel
    Threads,    \* the goroutines that call them
    Conns,      \* the connections that travel through the channel
    Faults,     \* the errors other than net.ErrClosed passed to CloseWithErr
    ErrClosed,  \* net.ErrClosed
    Nil

Errs == Faults \cup {ErrClosed}

ASSUME DistinctValues == /\ Nil \notin Errs \cup Conns
                         /\ Errs \cap Conns = {}

VARIABLES
    closeErr,   \* closeErr[l]: the atomic pointer, Nil until the first close
    done,       \* done[l]: the channel done of l is closed
    inOpen,     \* the input channel has not been closed by its producer
    fate,       \* fate[c]: "new", "offered" (a blocked send), "taken", "dropped"
    pc,         \* pc[t]: where t stands in Accept or CloseWithErr
    ln,         \* ln[t]: the Listener of t's latest call
    arg,        \* arg[t]: the err parameter of t's CloseWithErr, Nil outside it
    back,       \* back[t]: where t's CloseWithErr returns to
    res         \* res[t]: what t's latest Accept returned, Nil before

callVars == <<pc, ln, arg, back, res>>
listenerVars == <<closeErr, done, inOpen, fate, pc, ln, arg, back, res>>

Labels == {"idle", "select", "cas", "signal", "load"}

ListenerTypeOK ==
    /\ closeErr \in [Listeners -> Errs \cup {Nil}]
    /\ done \in [Listeners -> BOOLEAN]
    /\ inOpen \in BOOLEAN
    /\ fate \in [Conns -> {"new", "offered", "taken", "dropped"}]
    /\ pc \in [Threads -> Labels]
    /\ ln \in [Threads -> Listeners]
    /\ arg \in [Threads -> Errs \cup {Nil}]
    /\ back \in [Threads -> {"idle", "load"}]
    /\ res \in [Threads -> Conns \cup Errs \cup {Nil}]

\* New, for every Listener, before any call.
ListenerInit ==
    /\ closeErr = [l \in Listeners |-> Nil]
    /\ done = [l \in Listeners |-> FALSE]
    /\ inOpen = TRUE
    /\ fate = [c \in Conns |-> "new"]
    /\ pc = [t \in Threads |-> "idle"]
    /\ \E l \in Listeners : ln = [t \in Threads |-> l]
    /\ arg = [t \in Threads |-> Nil]
    /\ back = [t \in Threads |-> "idle"]
    /\ res = [t \in Threads |-> Nil]
-----------------------------------------------------------------------------
(* The producers of the input channel, as the code outside this package    *)
(* uses it: a send that blocks, its select choosing another case, close.   *)

Offer(c) ==
    /\ inOpen
    /\ fate[c] = "new"
    /\ fate' = [fate EXCEPT ![c] = "offered"]
    /\ UNCHANGED <<closeErr, done, inOpen, callVars>>

Withdraw(c) ==
    /\ fate[c] = "offered"
    /\ fate' = [fate EXCEPT ![c] = "dropped"]
    /\ UNCHANGED <<closeErr, done, inOpen, callVars>>

CloseInput ==
    /\ inOpen
    /\ \A c \in Conns : fate[c] # "offered"
    /\ inOpen' = FALSE
    /\ UNCHANGED <<closeErr, done, fate, callVars>>
-----------------------------------------------------------------------------
(* Accept: a select between done and the input channel.  When both are     *)
(* ready Go picks either.                                                  *)

BeginAccept(t, l) ==
    /\ pc[t] = "idle"
    /\ pc' = [pc EXCEPT ![t] = "select"]
    /\ ln' = [ln EXCEPT ![t] = l]
    /\ res' = [res EXCEPT ![t] = Nil]
    /\ UNCHANGED <<closeErr, done, inOpen, fate, arg, back>>

\* case <-d.done
AcceptDone(t) ==
    /\ pc[t] = "select"
    /\ done[ln[t]]
    /\ pc' = [pc EXCEPT ![t] = "load"]
    /\ UNCHANGED <<closeErr, done, inOpen, fate, ln, arg, back, res>>

\* case c, ok := <-d.c with ok: the rendezvous with a blocked sender
AcceptConn(t, c) ==
    /\ pc[t] = "select"
    /\ fate[c] = "offered"
    /\ fate' = [fate EXCEPT ![c] = "taken"]
    /\ res' = [res EXCEPT ![t] = c]
    /\ pc' = [pc EXCEPT ![t] = "idle"]
    /\ UNCHANGED <<closeErr, done, inOpen, ln, arg, back>>

\* mutant: the loop goes on after the Close instead of returning
AcceptDrainedLoops(t) ==
    /\ pc[t] = "select"
    /\ ~inOpen
    /\ pc' = [pc EXCEPT ![t] = "cas"]
    /\ arg' = [arg EXCEPT ![t] = ErrClosed]
    /\ back' = [back EXCEPT ![t] = "select"]
    /\ UNCHANGED <<closeErr, done, inOpen, fate, ln, res>>

\* mutant: Accept returns the error without closing the Listener first
AcceptDrainedNoClose(t) ==
    /\ pc[t] = "select"
    /\ ~inOpen
    /\ pc' = [pc EXCEPT ![t] = "load"]
    /\ UNCHANGED <<closeErr, done, inOpen, fate, ln, arg, back, res>>

\* case c, ok := <-d.c with !ok: Close, then the load of closeErr
AcceptDrained(t) ==
    /\ pc[t] = "select"
    /\ ~inOpen
    /\ pc' = [pc EXCEPT ![t] = "cas"]
    /\ arg' = [arg EXCEPT ![t] = ErrClosed]
    /\ back' = [back EXCEPT ![t] = "load"]
    /\ UNCHANGED <<closeErr, done, inOpen, fate, ln, res>>

\* mutant: Accept answers net.ErrClosed whatever the Listener was closed with
LoadErrClosed(t) ==
    /\ pc[t] = "load"
    /\ res' = [res EXCEPT ![t] = ErrClosed]
    /\ pc' = [pc EXCEPT ![t] = "idle"]
    /\ UNCHANGED <<closeErr, done, inOpen, fate, ln, arg, back>>

\* return nil, *d.closeErr.Load()
LoadErr(t) ==
    /\ pc[t] = "load"
    /\ res' = [res EXCEPT ![t] = closeErr[ln[t]]]
    /\ pc' = [pc EXCEPT ![t] = "idle"]
    /\ UNCHANGED <<closeErr, done, inOpen, fate, ln, arg, back>>
-----------------------------------------------------------------------------
(* CloseWithErr, and Close, which is CloseWithErr(nil).                    *)

\* mutant: a nil error is not replaced by net.ErrClosed
BeginCloseNil(t, l, e) ==
    /\ pc[t] = "idle"
    /\ pc' = [pc EXCEPT ![t] = "cas"]
    /\ ln' = [ln EXCEPT ![t] = l]
    /\ arg' = [arg EXCEPT ![t] = e]
    /\ res' = [res EXCEPT ![t] = Nil]
    /\ UNCHANGED <<closeErr, done, inOpen, fate, back>>

BeginClose(t, l, e) ==
    /\ pc[t] = "idle"
    /\ pc' = [pc EXCEPT ![t] = "cas"]
    /\ ln' = [ln EXCEPT ![t] = l]
    /\ arg' = [arg EXCEPT ![t] = IF e = Nil THEN ErrClosed ELSE e]
    /\ res' = [res EXCEPT ![t] = Nil]
    /\ UNCHANGED <<closeErr, done, inOpen, fate, back>>

\* mutant: a plain Store in the place of the compare-and-swap
SwapStores(t) ==
    /\ pc[t] = "cas"
    /\ closeErr' = [closeErr EXCEPT ![ln[t]] = arg[t]]
    /\ pc' = [pc EXCEPT ![t] = "signal"]
    /\ arg' = [arg EXCEPT ![t] = Nil]
    /\ UNCHANGED <<done, inOpen, fate, ln, back, res>>

\* mutant: the winner forgets close(d.done)
SwapNoSignal(t) ==
    /\ pc[t] = "cas"
    /\ closeErr[ln[t]] = Nil
    /\ closeErr' = [closeErr EXCEPT ![ln[t]] = arg[t]]
    /\ pc' = [pc EXCEPT ![t] = back[t]]
    /\ back' = [back EXCEPT ![t] = "idle"]
    /\ arg' = [arg EXCEPT ![t] = Nil]
    /\ UNCHANGED <<done, inOpen, fate, ln, res>>

\* d.closeErr.CompareAndSwap(nil, &err), won
SwapWon(t) ==
    /\ pc[t] = "cas"
    /\ closeErr[ln[t]] = Nil
    /\ closeErr' = [closeErr EXCEPT ![ln[t]] = arg[t]]
    /\ pc' = [pc EXCEPT ![t] = "signal"]
    /\ arg' = [arg EXCEPT ![t] = Nil]
    /\ UNCHANGED <<done, inOpen, fate, ln, back, res>>

\* d.closeErr.CompareAndSwap(nil, &err), lost: nothing else to do
SwapLost(t) ==
    /\ pc[t] = "cas"
    /\ closeErr[ln[t]] # Nil
    /\ pc' = [pc EXCEPT ![t] = back[t]]
    /\ back' = [back EXCEPT ![t] = "idle"]
    /\ arg' = [arg EXCEPT ![t] = Nil]
    /\ UNCHANGED <<closeErr, done, inOpen, fate, ln, res>>

\* close(d.done)
Signal(t) ==
    /\ pc[t] = "signal"
    /\ done' = [done EXCEPT ![ln[t]] = TRUE]
    /\ pc' = [pc EXCEPT ![t] = back[t]]
    /\ back' = [back EXCEPT ![t] = "idle"]
    /\ UNCHANGED <<closeErr, inOpen, fate, ln, arg, res>>
-----------------------------------------------------------------------------
\* The steps a goroutine takes by itself once it is inside a call.
Progress(t) == \/ AcceptDone(t)
               \/ \E c \in Conns : AcceptConn(t, c)
               \/ AcceptDrained(t)
               \/ LoadErr(t)
               \/ SwapWon(t)
               \/ SwapLost(t)
               \/ Signal(t)

Produce == \/ \E c \in Conns : Offer(c) \/ Withdraw(c)
           \/ CloseInput

ListenerNext == \/ \E t \in Threads : \/ \E l \in Listeners : BeginAccept(t, l)
                                      \/ \E l \in Listeners, e \in Errs \cup {Nil} :
                                            BeginClose(t, l, e)
                                      \/ Progress(t)
                \/ Produce

ListenerSpec == ListenerInit /\ [][ListenerNext]_listenerVars

\* A goroutine that can run does run; callers and producers owe nothing.
FairListenerSpec == ListenerSpec /\ \A t \in Threads : WF_listenerVars(Progress(t))
-----------------------------------------------------------------------------
(* Properties *)

\* done is closed only by the winner of the compare-and-swap: whoever stands
\* before close(d.done) has a channel still open and no rival, so the runtime
\* panic "close of closed channel" cannot happen.
SignalOnce == \A t \in Threads : pc[t] = "signal" =>
                  /\ ~done[ln[t]]
                  /\ \A u \in Threads \ {t} : pc[u] = "signal" => ln[u] # ln[t]

\* Whoever sees done closed, or comes back from Close inside Accept, finds an
\* error to return: *d.closeErr.Load() is neither a nil dereference nor nil.
ReasonBeforeDone == /\ \A l \in Listeners : done[l] => closeErr[l] # Nil
                    /\ \A t \in Threads : pc[t] = "load" => closeErr[ln[t]] # Nil

\* A close is never half done and forgotten: while a Listener has an error but
\* done is open, some goroutine is about to close done.
NoLostSignal == \A l \in Listeners : closeErr[l] # Nil /\ ~done[l] =>
                    \E t \in Threads : pc[t] = "signal" /\ ln[t] = l

\* All Accepts that fail on a Listener fail with the same error, the one it
\* was first closed with, whichever goroutines raced in CloseWithErr.
OneReason == \A t \in Threads : res[t] \in Errs => res[t] = closeErr[ln[t]]

\* A connection is returned by one Accept and by no other.
DeliveredOnce == \A t \in Threads : res[t] \in Conns =>
                     /\ fate[res[t]] = "taken"
                     /\ \A u \in Threads \ {t} : res[u] # res[t]

\* The error and the closed state of a Listener are final: "only the error from
\* the first call to CloseWithErr will be set".
ReasonFixed == [][\A l \in Listeners : /\ closeErr[l] # Nil => closeErr'[l] = closeErr[l]
                                       /\ done[l] => done'[l]]_listenerVars

\* Under FairListenerSpec, an Accept or a close that is under way on a Listener
\* that was closed, or whose channel was closed, returns.
CallsReturn == \A t \in Threads :
    pc[t] # "idle" /\ (closeErr[ln[t]] # Nil \/ ~inOpen) ~> pc[t] = "idle"

\* The Accept calls under way: the close that Accept itself makes is part of it.
InAccept == {t \in Threads : pc[t] \in {"select", "load"} \/ back[t] = "load"}

Port == INSTANCE AcceptPort
            WITH Ports <- Listeners, Callers <- Threads, Reasons <- Errs,
                 None <- Nil, reason <- closeErr, waiting <- InAccept,
                 port <- ln, outcome <- res, fate <- fate

\* A Listener keeps the promises of a port: see AcceptPort.
ImplementsPort == Port!Spec
=============================================================================
