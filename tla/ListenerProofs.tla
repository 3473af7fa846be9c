--------------------------- MODULE ListenerProofs ---------------------------
(***************************************************************************)
(* Theorems about ChannelListener, for any number of Listeners, goroutines *)
(* and connections, and about MultiWrapper, for any number of loaded and   *)
(* wrapped listeners and server goroutines.                                *)
(***************************************************************************)
EXTENDS MultiWrapper, TLAPS

-----------------------------------------------------------------------------
(* ChannelListener: its inductive invariant.                               *)

\* Where a call stands agrees with its parameter and with where it returns:
\* only a goroutine before the compare-and-swap holds an error, and only one
\* inside CloseWithErr has somewhere to return to.
CallShape == \A t \in Threads :
    /\ pc[t] = "cas" => arg[t] # Nil
    /\ pc[t] \notin {"cas", "signal"} => back[t] = "idle"

\* Whoever is to close done has set the error it was closed with.
SignalHasReason == \A t \in Threads : pc[t] = "signal" => closeErr[ln[t]] # Nil

\* A goroutine inside a call has no result yet.
ResultAtEnd == \A t \in Threads : pc[t] # "idle" => res[t] = Nil

IInv == /\ ListenerTypeOK
        /\ CallShape
        /\ SignalHasReason
        /\ ResultAtEnd
        /\ SignalOnce
        /\ ReasonBeforeDone
        /\ OneReason
-----------------------------------------------------------------------------
\* The initial states satisfy the invariant.
LEMMA InitInv == ListenerInit => IInv
  BY DistinctValues DEF ListenerInit, IInv, ListenerTypeOK, CallShape, SignalHasReason,
     ResultAtEnd, SignalOnce, ReasonBeforeDone, OneReason, Labels, Errs

\* Every step keeps it, whichever call takes the step.
LEMMA StepInv == IInv /\ [ListenerNext]_listenerVars => IInv'
<1> SUFFICES ASSUME IInv, [ListenerNext]_listenerVars PROVE IInv'
  OBVIOUS
<1> USE DistinctValues DEF IInv, ListenerTypeOK, CallShape, SignalHasReason, ResultAtEnd,
     SignalOnce, ReasonBeforeDone, OneReason, Labels, Errs, callVars
<1>1. ASSUME NEW t \in Threads, NEW l \in Listeners, BeginAccept(t, l) PROVE IInv'
  BY <1>1 DEF BeginAccept
<1>2. ASSUME NEW t \in Threads, NEW l \in Listeners, NEW e \in Errs \cup {Nil},
             BeginClose(t, l, e)
      PROVE  IInv'
  BY <1>2 DEF BeginClose
<1>3. ASSUME NEW t \in Threads, AcceptDone(t) PROVE IInv'
  BY <1>3 DEF AcceptDone
<1>4. ASSUME NEW t \in Threads, NEW c \in Conns, AcceptConn(t, c) PROVE IInv'
  BY <1>4 DEF AcceptConn
<1>5. ASSUME NEW t \in Threads, AcceptDrained(t) PROVE IInv'
  BY <1>5 DEF AcceptDrained
<1>6. ASSUME NEW t \in Threads, LoadErr(t) PROVE IInv'
  BY <1>6 DEF LoadErr
<1>7. ASSUME NEW t \in Threads, SwapWon(t) PROVE IInv'
  BY <1>7 DEF SwapWon
<1>8. ASSUME NEW t \in Threads, SwapLost(t) PROVE IInv'
  BY <1>8 DEF SwapLost
<1>9. ASSUME NEW t \in Threads, Signal(t) PROVE IInv'
  BY <1>9 DEF Signal
<1>10. ASSUME NEW c \in Conns, NEW f \in {"offered", "dropped"},
              fate' = [fate EXCEPT ![c] = f],
              UNCHANGED <<closeErr, done, inOpen, callVars>>
       PROVE  IInv'
  BY <1>10
<1>11. CASE CloseInput
  BY <1>11 DEF CloseInput
<1>12. CASE Produce
  BY <1>10, <1>11, <1>12 DEF Produce, Offer, Withdraw
<1>13. CASE UNCHANGED listenerVars
  BY <1>13 DEF listenerVars
<1>14. QED
  BY <1>1, <1>2, <1>3, <1>4, <1>5, <1>6, <1>7, <1>8, <1>9, <1>12, <1>13
     DEF ListenerNext, Progress

\* In every reachable state the calls have their types and the parts of the
\* invariant hold.
THEOREM Invariance == ListenerSpec => []IInv
<1>1. ListenerInit => IInv
  BY InitInv
<1>2. IInv /\ [ListenerNext]_listenerVars => IInv'
  BY StepInv
<1>3. QED
  BY <1>1, <1>2, PTL DEF ListenerSpec

\* Type correctness of the Listeners and of the calls on them.
THEOREM TypeCorrect == ListenerSpec => []ListenerTypeOK
BY Invariance, PTL DEF IInv

\* close(d.done) never runs twice on one Listener, so it never panics.
THEOREM NoDoubleClose == ListenerSpec => []SignalOnce
BY Invariance, PTL DEF IInv

\* An Accept that returns an error has one to return.
THEOREM ErrorIsSet == ListenerSpec => []ReasonBeforeDone
BY Invariance, PTL DEF IInv

\* All failing Accepts of a Listener report the error of its first close.
THEOREM SameReason == ListenerSpec => []OneReason
BY Invariance, PTL DEF IInv

\* A Listener, once closed, stays closed with the same error.
THEOREM ReasonIsFinal == ListenerSpec => ReasonFixed
<1> DEFINE Final == \A l \in Listeners : /\ closeErr[l] # Nil => closeErr'[l] = closeErr[l]
                                         /\ done[l] => done'[l]
<1>1. IInv /\ [ListenerNext]_listenerVars => [Final]_listenerVars
  <2> SUFFICES ASSUME IInv, ListenerNext PROVE Final
    OBVIOUS
  <2>1. CASE UNCHANGED <<closeErr, done>>
    BY <2>1
  <2>2. ASSUME NEW t \in Threads, SwapWon(t) PROVE Final
    BY <2>2 DEF SwapWon, IInv, ListenerTypeOK
  <2>3. ASSUME NEW t \in Threads, Signal(t) PROVE Final
    BY <2>3 DEF Signal, IInv, ListenerTypeOK
  <2>4. QED
    BY <2>1, <2>2, <2>3
       DEF ListenerNext, Progress, Produce, BeginAccept, BeginClose, AcceptDone, AcceptConn,
           AcceptDrained, LoadErr, SwapLost, Offer, Withdraw, CloseInput, callVars
<1>2. QED
  BY <1>1, Invariance, PTL DEF ListenerSpec, ReasonFixed
-----------------------------------------------------------------------------
\* While a Listener has an error but is not signalled, a goroutine is about to
\* signal it: the swap that sets the error is the step that makes it so.
LEMMA SignalStep == IInv /\ NoLostSignal /\ [ListenerNext]_listenerVars => NoLostSignal'
<1> SUFFICES ASSUME IInv, NoLostSignal, [ListenerNext]_listenerVars,
                    NEW l \in Listeners, closeErr'[l] # Nil, ~done'[l]
             PROVE  \E t \in Threads : pc'[t] = "signal" /\ ln'[t] = l
  BY DEF NoLostSignal
<1> USE DEF IInv, ListenerTypeOK
<1>1. ASSUME NEW t \in Threads, SwapWon(t), ln[t] = l
      PROVE  pc'[t] = "signal" /\ ln'[t] = l
  BY <1>1 DEF SwapWon
<1>2. CASE closeErr[l] # Nil /\ ~done[l]
  <2>1. PICK u \in Threads : pc[u] = "signal" /\ ln[u] = l
    BY <1>2 DEF NoLostSignal
  <2>2. ~Signal(u)
    BY <2>1 DEF Signal
  <2>3. pc'[u] = "signal" /\ ln'[u] = l
    BY <2>1, <2>2
       DEF ListenerNext, Progress, Produce, BeginAccept, BeginClose, AcceptDone, AcceptConn,
           AcceptDrained, LoadErr, SwapWon, SwapLost, Signal, Offer, Withdraw, CloseInput,
           callVars, listenerVars
  <2>4. QED
    BY <2>3
<1>3. CASE done[l]
  BY <1>3 DEF ListenerNext, Progress, Produce, BeginAccept, BeginClose, AcceptDone, AcceptConn,
           AcceptDrained, LoadErr, SwapWon, SwapLost, Signal, Offer, Withdraw, CloseInput,
           callVars, listenerVars
<1>4. CASE closeErr[l] = Nil
  <2>1. \E t \in Threads : SwapWon(t) /\ ln[t] = l
    BY <1>4
       DEF ListenerNext, Progress, Produce, BeginAccept, BeginClose, AcceptDone, AcceptConn,
           AcceptDrained, LoadErr, SwapWon, SwapLost, Signal, Offer, Withdraw, CloseInput,
           callVars, listenerVars
  <2>2. QED
    BY <1>1, <2>1
<1>5. QED
  BY <1>2, <1>3, <1>4

\* No close is left half done.
THEOREM CloseCompletes == ListenerSpec => []NoLostSignal
<1>1. ListenerInit => NoLostSignal
  BY DEF ListenerInit, NoLostSignal
<1>2. QED
  BY <1>1, SignalStep, Invariance, PTL DEF ListenerSpec
-----------------------------------------------------------------------------
\* Two Accepts never return the same connection: what one returned is "taken",
\* and only an "offered" connection can be returned.
LEMMA DeliveredStep == IInv /\ DeliveredOnce /\ [ListenerNext]_listenerVars => DeliveredOnce'
<1> SUFFICES ASSUME IInv, DeliveredOnce, [ListenerNext]_listenerVars PROVE DeliveredOnce'
  OBVIOUS
<1> USE DistinctValues DEF IInv, ListenerTypeOK, DeliveredOnce, Errs
<1>1. ASSUME NEW t \in Threads, NEW c \in Conns, AcceptConn(t, c) PROVE DeliveredOnce'
  BY <1>1 DEF AcceptConn
<1>2. ASSUME NEW t \in Threads, NEW v \in Errs \cup {Nil}, res' = [res EXCEPT ![t] = v],
             fate' = fate
      PROVE  DeliveredOnce'
  BY <1>2
<1>3. ASSUME NEW t \in Threads, LoadErr(t) PROVE DeliveredOnce'
  BY <1>2, <1>3 DEF LoadErr
<1>4. CASE res' = res /\ \A c \in Conns : fate[c] = "taken" => fate'[c] = "taken"
  BY <1>4
<1>5. CASE Produce
  BY <1>4, <1>5 DEF Produce, Offer, Withdraw, CloseInput, callVars
<1>6. QED
  BY <1>1, <1>2, <1>3, <1>4, <1>5
     DEF ListenerNext, Progress, BeginAccept, BeginClose, AcceptDone, AcceptDrained, SwapWon,
         SwapLost, Signal, listenerVars

\* A connection is delivered to one caller.
THEOREM NoDuplicate == ListenerSpec => []DeliveredOnce
<1>1. ListenerInit => DeliveredOnce
  BY DistinctValues DEF ListenerInit, DeliveredOnce
<1>2. QED
  BY <1>1, DeliveredStep, Invariance, PTL DEF ListenerSpec
-----------------------------------------------------------------------------
\* A Listener starts as an open port with nobody waiting.
LEMMA PortInit == ListenerInit => Port!Init
BY DEF ListenerInit, Port!Init, InAccept

\* Each step of a call is a step of the port or invisible to it: the swap is the
\* close, the load of the error the refusal, the receive the delivery.
LEMMA PortStep == IInv /\ [ListenerNext]_listenerVars => [Port!Next]_Port!portVars
<1> SUFFICES ASSUME IInv, [ListenerNext]_listenerVars PROVE [Port!Next]_Port!portVars
  OBVIOUS
<1> USE DEF IInv, ListenerTypeOK, CallShape
<1>1. ASSUME NEW t \in Threads, NEW l \in Listeners, BeginAccept(t, l)
      PROVE  Port!Call(t, l)
  <2>1. InAccept' = InAccept \cup {t} /\ t \notin InAccept
    BY <1>1 DEF BeginAccept, InAccept
  <2>2. QED
    BY <1>1, <2>1 DEF BeginAccept, Port!Call
<1>2. ASSUME NEW t \in Threads, NEW l \in Listeners, NEW e \in Errs \cup {Nil},
             BeginClose(t, l, e)
      PROVE  Port!Call(t, l)
  <2>1. InAccept' = InAccept /\ t \notin InAccept
    BY <1>2 DEF BeginClose, InAccept
  <2>2. QED
    BY <1>2, <2>1 DEF BeginClose, Port!Call
<1>3. ASSUME NEW t \in Threads, NEW c \in Conns, AcceptConn(t, c)
      PROVE  Port!Deliver(t, c)
  <2>1. InAccept' = InAccept \ {t} /\ t \in InAccept
    BY <1>3 DEF AcceptConn, InAccept
  <2>2. QED
    BY <1>3, <2>1 DEF AcceptConn, Port!Deliver
<1>4. ASSUME NEW t \in Threads, LoadErr(t) PROVE Port!Refuse(t)
  <2>1. InAccept' = InAccept \ {t} /\ t \in InAccept
    BY <1>4 DEF LoadErr, InAccept
  <2>2. closeErr[ln[t]] # Nil
    BY <1>4 DEF LoadErr, ReasonBeforeDone
  <2>3. QED
    BY <1>4, <2>1, <2>2 DEF LoadErr, Port!Refuse
<1>5. ASSUME NEW t \in Threads, SwapWon(t) PROVE Port!Close(ln[t], arg[t])
  <2>1. InAccept' = InAccept
    BY <1>5 DEF SwapWon, InAccept
  <2>2. QED
    BY <1>5, <2>1 DEF SwapWon, Port!Close
<1>6. ASSUME NEW t \in Threads, AcceptDone(t) \/ AcceptDrained(t) \/ SwapLost(t) \/ Signal(t)
      PROVE  UNCHANGED Port!portVars
  <2>1. InAccept' = InAccept
    BY <1>6 DEF AcceptDone, AcceptDrained, SwapLost, Signal, InAccept
  <2>2. QED
    BY <1>6, <2>1 DEF AcceptDone, AcceptDrained, SwapLost, Signal, Port!portVars
<1>7. CASE Produce
  <2>1. InAccept' = InAccept
    BY <1>7 DEF Produce, Offer, Withdraw, CloseInput, InAccept, callVars
  <2>2. QED
    BY <1>7, <2>1 DEF Produce, Offer, Withdraw, CloseInput, callVars, Port!portVars,
                      Port!Next, Port!Offer, Port!Withdraw
<1>8. CASE UNCHANGED listenerVars
  BY <1>8 DEF listenerVars, InAccept, Port!portVars
<1>9. ASSUME NEW t \in Threads, SwapWon(t) PROVE Port!Next
  <2>1. ln[t] \in Listeners /\ arg[t] \in Errs
    BY <1>9 DEF SwapWon
  <2>2. QED
    BY <1>5, <1>9, <2>1 DEF Port!Next
<1>10. QED
  BY <1>1, <1>2, <1>3, <1>4, <1>6, <1>7, <1>8, <1>9 DEF ListenerNext, Progress, Port!Next

\* Every behavior of the Listeners is one of the abstract ports.
THEOREM Refinement == ListenerSpec => ImplementsPort
<1>1. QED
  BY PortInit, PortStep, Invariance, PTL DEF ListenerSpec, ImplementsPort, Port!Spec
-----------------------------------------------------------------------------
(* MultiWrapper: what it adds to the invariant.                            *)

\* Outside finish a goroutine is in no call of its Listener; inside, it is in the
\* CloseWithErr of its own one, and comes out when that has an error.
FinishShape == \A g \in Goroutines :
    /\ gpc[g] # "finish" => pc[g] = "idle"
    /\ gpc[g] = "finish" => /\ ln[g] = g[1]
                            /\ back[g] = "idle"
                            /\ pc[g] \in {"idle", "cas", "signal"}
                            /\ pc[g] = "idle" => closeErr[g[1]] # Nil

\* The goroutines of a Listener start together, in its WrapListener.
Unstarted == \A g \in Goroutines : g[1] \notin Wrapped => gpc[g] = "none"

WInv == /\ IInv
        /\ WrapperTypeOK
        /\ NoLeakedConn
        /\ FinishShape
        /\ Unstarted
        /\ FailureReported

\* A sequence over a set is one over every larger set.
LEMMA SeqWiden == ASSUME NEW S, NEW T, S \subseteq T, NEW q \in Seq(S) PROVE q \in Seq(T)
OBVIOUS
-----------------------------------------------------------------------------
\* The wrapper only drives its Listeners: every step of the composition is a step
\* of ChannelListener or leaves the Listeners alone.
LEMMA ListenerStep == WInv /\ [Next]_vars => [ListenerNext]_listenerVars
<1> SUFFICES ASSUME WInv, [Next]_vars, ~ UNCHANGED listenerVars PROVE ListenerNext
  OBVIOUS
<1> USE WrapperAssumption
<1>1. ASSUME NEW t \in Threads, \/ AcceptDone(t)
                                \/ \E c \in Conns : AcceptConn(t, c)
                                \/ LoadErr(t)
                                \/ SwapWon(t)
                                \/ SwapLost(t)
                                \/ Signal(t)
      PROVE  ListenerNext
  BY <1>1 DEF ListenerNext, Progress
<1>2. ASSUME NEW t \in Threads, NEW w \in Listeners,
             \/ BeginAccept(t, w)
             \/ \E e \in Errs \cup {Nil} : BeginClose(t, w, e)
      PROVE  ListenerNext
  BY <1>2 DEF ListenerNext
<1>3. ASSUME NEW c \in Conns, Offer(c) \/ Withdraw(c) PROVE ListenerNext
  BY <1>3 DEF ListenerNext, Produce
<1>4. ASSUME NEW g \in Goroutines, gpc[g] = "send" PROVE held[g] \in Conns
  BY <1>4 DEF WInv, WrapperTypeOK, NoLeakedConn
<1>5. ASSUME NEW g \in Goroutines PROVE g \in Threads /\ g[1] \in Listeners
  BY DEF Goroutines
<1>6. ASSUME NEW g \in Goroutines, NEW e \in Errs, SourceFails(g, e) PROVE ListenerNext
  BY <1>2, <1>5, <1>6 DEF SourceFails
<1>7. ASSUME NEW g \in Goroutines, GoStep(g) PROVE ListenerNext
  <2>1. CASE DropHeld(g)
    BY <1>3, <1>4, <2>1 DEF DropHeld
  <2>2. CASE Exit(g)
    BY <2>2 DEF Exit
  <2>3. CASE Finish(g)
    BY <1>1, <1>5, <2>3 DEF Finish
  <2>4. CASE SourceFails(g, ErrClosed)
    BY <1>6, <2>4 DEF Errs
  <2>5. QED
    BY <1>7, <2>1, <2>2, <2>3, <2>4 DEF GoStep
<1>8. ASSUME NEW t \in Callers, CallerStep(t) PROVE ListenerNext
  BY <1>1, <1>4, <1>8 DEF CallerStep, ServerStep, Receive
<1>9. ASSUME NEW t \in Callers, NEW w \in Listeners, ServerCall(t, w) PROVE ListenerNext
  BY <1>2, <1>9 DEF ServerCall
<1>10. ASSUME NEW g \in Goroutines, NEW c \in Conns, SourceAccept(g, c) PROVE ListenerNext
  BY <1>3, <1>10 DEF SourceAccept
<1>11. QED
  BY <1>6, <1>7, <1>8, <1>9, <1>10
     DEF Next, Provision, ProvisionFails, WrapListener, Cleanup, CleanupClose, CleanupReset,
         vars
-----------------------------------------------------------------------------
\* The invariant holds before Provision.
LEMMA WrapperInit == Init => WInv
<1> SUFFICES ASSUME Init PROVE WInv
  OBVIOUS
<1>1. IInv
  BY InitInv DEF Init
<1>2. WrapperTypeOK
  BY <1>1 DEF Init, IInv, WrapperTypeOK
<1>3. NoLeakedConn /\ FinishShape /\ FailureReported /\ Unstarted
  BY WrapperAssumption
     DEF Init, ListenerInit, NoLeakedConn, FinishShape, FailureReported, Unstarted, Goroutines
<1>4. QED
  BY <1>1, <1>2, <1>3 DEF WInv

\* What Provision, Cleanup and WrapListener do to the goroutines: at most start some.
LEMMA ModuleStep ==
  ASSUME WInv, UNCHANGED <<listenerVars, held>>, gpc' \in [Goroutines -> {"none", "accept", "send", "finish", "exit"}],
         \A g \in Goroutines : gpc'[g] = gpc[g] \/ (gpc[g] = "none" /\ gpc'[g] = "accept")
  PROVE  (NoLeakedConn /\ FinishShape /\ FailureReported)'
<1> USE DEF WInv, WrapperTypeOK, listenerVars
<1>1. NoLeakedConn'
  BY DEF NoLeakedConn
<1>2. FinishShape'
  BY DEF FinishShape
<1>3. FailureReported'
  BY DEF FailureReported
<1>4. QED
  BY <1>1, <1>2, <1>3

\* Provision and Cleanup start nothing, whatever they open or close.
LEMMA LifeStep ==
  ASSUME WInv, \/ Provision
               \/ \E n \in 0..Len(Loaded) : ProvisionFails(n)
               \/ Cleanup
  PROVE  (WrapperTypeOK /\ NoLeakedConn /\ FinishShape /\ Unstarted /\ FailureReported)'
<1>1. UNCHANGED <<listenerVars, held, gpc>>
  BY DEF Provision, ProvisionFails, Cleanup, CleanupClose, CleanupReset
<1>2. (NoLeakedConn /\ FinishShape /\ FailureReported)'
  <2>1. gpc' \in [Goroutines -> {"none", "accept", "send", "finish", "exit"}]
    BY <1>1 DEF WInv, WrapperTypeOK
  <2>2. \A g \in Goroutines : gpc'[g] = gpc[g]
    BY <1>1
  <2>3. QED
    BY <1>1, <2>1, <2>2, ModuleStep
<1>3. Unstarted'
  BY <1>1 DEF WInv, Unstarted, Wrapped
<1>4. listeners' \in Seq(Sources)
  <2>1. Loaded \in Seq(Sources)
    BY WrapperAssumption, SeqWiden DEF Sources
  <2>2. listeners \in Seq(Sources)
    BY DEF WInv, WrapperTypeOK
  <2>3. listeners # <<>> => Tail(listeners) \in Seq(Sources)
    BY <2>2
  <2>4. listeners' \in {Loaded, listeners} \/ (listeners # <<>> /\ listeners' = Tail(listeners))
    BY DEF Provision, ProvisionFails, Cleanup, CleanupClose, CleanupReset
  <2>5. QED
    BY <2>1, <2>2, <2>3, <2>4
<1>5. src' \in [Sources -> {"absent", "open", "closed", "stuck"}]
  BY DEF WInv, WrapperTypeOK, Provision, ProvisionFails, Cleanup, CleanupClose, CleanupReset
<1>6. phase' \in {"new", "ready", "failed", "cleanup", "clean"}
  BY DEF Provision, ProvisionFails, Cleanup, CleanupClose, CleanupReset
<1>7. ListenerTypeOK'
  BY <1>1 DEF WInv, WrapperTypeOK, ListenerTypeOK, listenerVars
<1>8. QED
  BY <1>1, <1>2, <1>3, <1>4, <1>5, <1>6, <1>7 DEF WInv, WrapperTypeOK

\* WrapListener starts the goroutines of one Listener, that of its argument included.
LEMMA WrapStep ==
  ASSUME WInv, NEW w \in Listeners, WrapListener(w)
  PROVE  (WrapperTypeOK /\ NoLeakedConn /\ FinishShape /\ Unstarted /\ FailureReported)'
<1>1. gpc' \in [Goroutines -> {"none", "accept", "send", "finish", "exit"}]
  BY DEF WInv, WrapperTypeOK, WrapListener
<1>2. ASSUME NEW g \in Goroutines
      PROVE  gpc'[g] = gpc[g] \/ (gpc[g] = "none" /\ gpc'[g] = "accept")
  <2>1. g[1] = w => gpc[g] = "none"
    BY DEF WrapListener, WInv, Unstarted
  <2>2. (gpc'[g] = "accept" /\ g[1] = w) \/ gpc'[g] = gpc[g]
    BY DEF WrapListener
  <2>3. QED
    BY <2>1, <2>2
<1>3. (NoLeakedConn /\ FinishShape /\ FailureReported)'
  BY <1>1, <1>2, ModuleStep DEF WrapListener
<1>4. Base[w] \in Sources /\ listeners \in Seq(Sources)
  BY DEF WInv, WrapperTypeOK, Sources
<1>5. listeners' \in Seq(Sources) /\ listeners'[Len(listeners')] = Base[w]
      /\ Len(listeners') \in DOMAIN listeners'
  BY <1>4 DEF WrapListener
<1>6. ASSUME NEW g \in Goroutines, g[1] \notin Wrapped' PROVE gpc'[g] = "none"
  <2>1. g[1] \in Listeners /\ <<g[1], Base[g[1]]>> \in Goroutines
    BY DEF Goroutines, Sources
  <2>2. g[1] # w
    BY <1>5, <1>6, <2>1 DEF WrapListener, Wrapped
  <2>3. gpc'[g] = gpc[g] /\ gpc'[<<g[1], Base[g[1]]>>] = gpc[<<g[1], Base[g[1]]>>]
    BY <2>1, <2>2 DEF WrapListener
  <2>4. QED
    BY <1>6, <2>1, <2>3 DEF WInv, Unstarted, Wrapped
<1>7. ListenerTypeOK'
  BY DEF WrapListener, WInv, WrapperTypeOK, ListenerTypeOK, listenerVars
<1>8. QED
  BY <1>1, <1>3, <1>4, <1>5, <1>6, <1>7 DEF WInv, WrapperTypeOK, WrapListener, Unstarted
-----------------------------------------------------------------------------
\* A goroutine that is running stays one that was started.
LEMMA StartedStep ==
  ASSUME WInv, NEW g \in Goroutines, NEW v \in {"accept", "send", "finish", "exit"},
         gpc[g] # "none", gpc' = [gpc EXCEPT ![g] = v]
  PROVE  Unstarted'
<1>1. ASSUME NEW h \in Goroutines PROVE gpc'[h] = "none" <=> gpc[h] = "none"
  BY DEF WInv, WrapperTypeOK
<1>2. ASSUME NEW w \in Listeners PROVE <<w, Base[w]>> \in Goroutines
  BY DEF Goroutines, Sources
<1>3. Wrapped' = Wrapped
  BY <1>1, <1>2 DEF Wrapped
<1>4. QED
  BY <1>1, <1>3 DEF WInv, Unstarted

\* The select of listen, from either side: a connection enters it, or leaves it.
LEMMA SelectStep ==
  ASSUME WInv, NEW g \in Goroutines,
         \/ \E c \in Conns : SourceAccept(g, c)
         \/ DropHeld(g)
         \/ \E t \in Callers : Receive(t, g)
  PROVE  (NoLeakedConn /\ FinishShape /\ Unstarted /\ FailureReported)'
         /\ gpc' \in [Goroutines -> {"none", "accept", "send", "finish", "exit"}]
         /\ held' \in [Goroutines -> Conns \cup {Nil}]
<1> USE WrapperAssumption, DistinctValues
<1>1. closeErr' = closeErr /\ ln' = ln /\ back' = back
  BY DEF SourceAccept, DropHeld, Receive, Offer, Withdraw, AcceptConn, callVars
<1>2. \A h \in Goroutines : pc'[h] = pc[h]
  BY DEF SourceAccept, DropHeld, Receive, Offer, Withdraw, AcceptConn, callVars, WInv,
         WrapperTypeOK, ListenerTypeOK
<1>3. PICK v \in {"accept", "send"} : gpc' = [gpc EXCEPT ![g] = v] /\ gpc[g] \in {"accept", "send"}
  BY DEF SourceAccept, DropHeld, Receive
<1>4. FinishShape'
  BY <1>1, <1>2, <1>3 DEF WInv, WrapperTypeOK, FinishShape
<1>5. Unstarted'
  BY <1>3, StartedStep
<1>6. FailureReported'
  BY <1>1, <1>3 DEF WInv, WrapperTypeOK, FailureReported
<1>7. NoLeakedConn'
  <2>1. ASSUME NEW c \in Conns, SourceAccept(g, c) PROVE NoLeakedConn'
    BY <2>1 DEF WInv, WrapperTypeOK, ListenerTypeOK, NoLeakedConn, SourceAccept, Offer
  <2>2. ASSUME DropHeld(g) \/ \E t \in Callers : Receive(t, g) PROVE NoLeakedConn'
    <3>1. PICK f \in {"dropped", "taken"} : fate' = [fate EXCEPT ![held[g]] = f]
      BY <2>2 DEF DropHeld, Receive, Withdraw, AcceptConn
    <3>2. gpc[g] = "send" /\ gpc' = [gpc EXCEPT ![g] = "accept"]
          /\ held' = [held EXCEPT ![g] = Nil]
      BY <2>2 DEF DropHeld, Receive
    <3>3. QED
      BY <3>1, <3>2 DEF WInv, WrapperTypeOK, ListenerTypeOK, NoLeakedConn
  <2>3. QED
    BY <2>1, <2>2
<1>8. QED
  BY <1>3, <1>4, <1>5, <1>6, <1>7
     DEF WInv, WrapperTypeOK, SourceAccept, DropHeld, Receive

\* The end of listen: a failed Accept, the CloseWithErr it leads to, the return.
LEMMA FinishStep ==
  ASSUME WInv, NEW g \in Goroutines,
         \/ \E e \in Errs : SourceFails(g, e)
         \/ Exit(g)
         \/ Finish(g)
  PROVE  (NoLeakedConn /\ FinishShape /\ Unstarted /\ FailureReported)'
         /\ gpc' \in [Goroutines -> {"none", "accept", "send", "finish", "exit"}]
         /\ held' = held
<1> USE WrapperAssumption, DistinctValues DEF WInv, WrapperTypeOK
<1>1. g \in Threads /\ g[1] \in Listeners
  BY DEF Goroutines
<1>2. CASE \E e \in Errs : SourceFails(g, e)
  <2>1. PICK e \in Errs : SourceFails(g, e)
    BY <1>2
  <2>2. gpc' = [gpc EXCEPT ![g] = "finish"] /\ gpc[g] = "accept" /\ held' = held
        /\ fate' = fate /\ closeErr' = closeErr
    BY <2>1 DEF SourceFails, BeginClose
  <2>3. ln' = [ln EXCEPT ![g] = g[1]] /\ pc' = [pc EXCEPT ![g] = "cas"] /\ back' = back
        /\ pc[g] = "idle" /\ back[g] = "idle"
    BY <1>1, <2>1 DEF SourceFails, BeginClose, IInv, CallShape
  <2>4. ASSUME NEW h \in Goroutines, h # g
        PROVE  gpc'[h] = gpc[h] /\ ln'[h] = ln[h] /\ pc'[h] = pc[h] /\ back'[h] = back[h]
    BY <2>2, <2>3, <2>4 DEF ListenerTypeOK
  <2>5. closeErr' = closeErr /\ gpc'[g] = "finish" /\ ln'[g] = g[1] /\ pc'[g] = "cas" /\ back'[g] = "idle"
    BY <1>1, <2>2, <2>3 DEF ListenerTypeOK
  <2>6. FinishShape'
    BY <2>4, <2>5 DEF FinishShape
  <2>7. QED
    BY <2>2, <2>6, StartedStep DEF NoLeakedConn, FailureReported
<1>3. CASE Exit(g)
  <2>1. gpc' = [gpc EXCEPT ![g] = "exit"] /\ gpc[g] = "finish" /\ pc[g] = "idle"
        /\ held' = held /\ UNCHANGED listenerVars
    BY <1>3 DEF Exit
  <2>2. closeErr'[g[1]] # Nil
    BY <2>1 DEF FinishShape, listenerVars
  <2>3. Unstarted'
    BY <2>1, StartedStep
  <2>4. FailureReported'
    BY <2>1, <2>2 DEF FailureReported, listenerVars
  <2>5. FinishShape'
    BY <2>1 DEF FinishShape, listenerVars
  <2>6. NoLeakedConn'
    BY <2>1 DEF NoLeakedConn, listenerVars
  <2>7. QED
    BY <2>1, <2>3, <2>4, <2>5, <2>6
<1>4. CASE Finish(g)
  <2>1. gpc' = gpc /\ held' = held /\ fate' = fate /\ ln' = ln
    BY <1>4 DEF Finish, wrapperVars, SwapWon, SwapLost, Signal
  <2>2. gpc[g] = "finish" /\ ln[g] = g[1] /\ back[g] = "idle"
    BY <1>4 DEF Finish, SwapWon, SwapLost, Signal, FinishShape
  <2>3. ASSUME NEW h \in Goroutines, h # g PROVE pc'[h] = pc[h] /\ back'[h] = back[h]
    BY <1>4, <2>3 DEF Finish, SwapWon, SwapLost, Signal, ListenerTypeOK
  <2>4. back'[g] = "idle" /\ pc'[g] \in {"idle", "signal"}
        /\ closeErr'[g[1]] # Nil
    BY <1>1, <1>4, <2>2
       DEF Finish, SwapWon, SwapLost, Signal, ListenerTypeOK, IInv, CallShape, SignalHasReason
  <2>5. ASSUME NEW l \in Listeners, closeErr[l] # Nil PROVE closeErr'[l] # Nil
    BY <1>4, <2>5 DEF Finish, SwapWon, SwapLost, Signal, ListenerTypeOK
  <2>6. \A h \in Goroutines : h[1] \in Listeners
    BY DEF Goroutines
  <2>7. FinishShape' /\ FailureReported'
    BY <2>1, <2>2, <2>3, <2>4, <2>5, <2>6 DEF FinishShape, FailureReported
  <2>8. QED
    BY <2>1, <2>7 DEF NoLeakedConn, Unstarted, Wrapped
<1>5. QED
  BY <1>2, <1>3, <1>4

\* The calls of the server leave every goroutine where it is.
LEMMA CallerKeeps ==
  ASSUME WInv, NEW t \in Callers,
         ServerStep(t) \/ \E w \in Listeners : ServerCall(t, w)
  PROVE  (NoLeakedConn /\ FinishShape /\ Unstarted /\ FailureReported)' /\ UNCHANGED wrapperVars
<1> USE WrapperAssumption, DistinctValues DEF WInv, WrapperTypeOK
<1>1. UNCHANGED wrapperVars /\ fate' = fate
  BY DEF ServerStep, ServerCall, BeginAccept, BeginClose, AcceptDone, LoadErr, SwapWon,
         SwapLost, Signal
<1>2. ASSUME NEW g \in Goroutines
      PROVE  pc'[g] = pc[g] /\ ln'[g] = ln[g] /\ back'[g] = back[g]
  BY DEF ServerStep, ServerCall, BeginAccept, BeginClose, AcceptDone, LoadErr, SwapWon,
         SwapLost, Signal, ListenerTypeOK
<1>3. ASSUME NEW l \in Listeners, closeErr[l] # Nil PROVE closeErr'[l] # Nil
  BY <1>3 DEF ServerStep, ServerCall, BeginAccept, BeginClose, AcceptDone, LoadErr, SwapWon,
              SwapLost, Signal, ListenerTypeOK
<1>4. \A h \in Goroutines : h[1] \in Listeners
  BY DEF Goroutines
<1>5. (NoLeakedConn /\ Unstarted)'
  BY <1>1 DEF NoLeakedConn, Unstarted, Wrapped, wrapperVars
<1>6. (FinishShape /\ FailureReported)'
  BY <1>1, <1>2, <1>3, <1>4 DEF FinishShape, FailureReported, wrapperVars
<1>7. QED
  BY <1>1, <1>5, <1>6
-----------------------------------------------------------------------------
\* Every step keeps the invariant.
LEMMA WrapperStep == WInv /\ [Next]_vars => WInv'
<1> SUFFICES ASSUME WInv, [Next]_vars PROVE WInv'
  OBVIOUS
<1>1. IInv'
  BY ListenerStep, StepInv DEF WInv
<1>2. ListenerTypeOK'
  BY <1>1 DEF IInv
<1>3. ASSUME \/ Provision
             \/ \E n \in 0..Len(Loaded) : ProvisionFails(n)
             \/ Cleanup
      PROVE  WInv'
  BY <1>1, <1>3, LifeStep DEF WInv
<1>4. ASSUME NEW w \in Listeners, WrapListener(w) PROVE WInv'
  BY <1>1, <1>4, WrapStep DEF WInv
<1>5. ASSUME NEW g \in Goroutines, \/ \E c \in Conns : SourceAccept(g, c)
                                   \/ DropHeld(g)
                                   \/ \E t \in Callers : Receive(t, g)
      PROVE  WInv'
  <2>1. UNCHANGED <<phase, listeners, src>>
    BY <1>5 DEF SourceAccept, DropHeld, Receive
  <2>2. QED
    BY <1>1, <1>2, <1>5, <2>1, SelectStep DEF WInv, WrapperTypeOK
<1>6. ASSUME NEW g \in Goroutines, \/ \E e \in Errs : SourceFails(g, e)
                                   \/ Exit(g)
                                   \/ Finish(g)
      PROVE  WInv'
  <2>1. UNCHANGED <<phase, listeners, src>>
    BY <1>6 DEF SourceFails, Exit, Finish, wrapperVars
  <2>2. QED
    BY <1>1, <1>2, <1>6, <2>1, FinishStep DEF WInv, WrapperTypeOK
<1>7. ASSUME NEW t \in Callers, ServerStep(t) \/ \E w \in Listeners : ServerCall(t, w)
      PROVE  WInv'
  BY <1>1, <1>2, <1>7, CallerKeeps DEF WInv, WrapperTypeOK, wrapperVars
<1>8. CASE UNCHANGED vars
  BY <1>1, <1>2, <1>8
     DEF WInv, WrapperTypeOK, NoLeakedConn, FinishShape, Unstarted, FailureReported, Wrapped,
         vars, wrapperVars, listenerVars
<1>9. ErrClosed \in Errs
  BY DEF Errs
<1>10. QED
  BY <1>3, <1>4, <1>5, <1>6, <1>7, <1>8, <1>9 DEF Next, GoStep, CallerStep

\* In every reachable state of the composition the invariant holds.
THEOREM WrapperInvariance == Spec => []WInv
<1>1. QED
  BY WrapperInit, WrapperStep, PTL DEF Spec

\* Type correctness of the wrapper and of its Listeners.
THEOREM WrapperTypeCorrect == Spec => []WrapperTypeOK
BY WrapperInvariance, PTL DEF WInv

\* Every connection accepted from a source is delivered, closed, or held by exactly
\* one goroutine.
THEOREM NoConnLeaks == Spec => []NoLeakedConn
BY WrapperInvariance, PTL DEF WInv

\* A goroutine that ended has told the Accepts of its Listener why.
THEOREM FailuresReported == Spec => []FailureReported
BY WrapperInvariance, PTL DEF WInv

\* The Listeners behave as ChannelListener says: the goroutines of listen and the
\* server are threads of it.
THEOREM ListenersImplemented == Spec => ImplementsListeners
<1>1. Init => ListenerInit
  BY DEF Init
<1>2. QED
  BY <1>1, ListenerStep, WrapperInvariance, PTL DEF Spec, ListenerSpec, ImplementsListeners

\* So what Accept promises the server is what AcceptPort promises: the composition
\* of the two refinements.
THEOREM WrapperIsPort == Spec => ImplementsPort
BY ListenersImplemented, Refinement, PTL DEF ImplementsListeners
-----------------------------------------------------------------------------
\* What Cleanup has still to close it still remembers.
Remembered ==
    /\ phase \in {"new", "failed"} => Wrapped = {} /\ listeners = <<>>
    /\ phase = "ready" \/ Wrapped # {} =>
           \A s \in LoadedSet \cup {Base[w] : w \in Wrapped} :
               src[s] \in {"closed", "stuck"} \/ \E i \in DOMAIN listeners : listeners[i] = s
    /\ phase = "clean" => listeners = <<>>

\* WrapListener adds its Listener to those the server has.
LEMMA WrapAdds ==
  ASSUME WInv, NEW w \in Listeners, WrapListener(w)
  PROVE  Wrapped' = Wrapped \cup {w}
<1>1. \A v \in Listeners : <<v, Base[v]>> \in Goroutines
  BY DEF Goroutines, Sources
<1>2. listeners'[Len(listeners')] = Base[w] /\ Len(listeners') \in DOMAIN listeners'
  BY DEF WrapListener, WInv, WrapperTypeOK, Sources
<1>3. gpc'[<<w, Base[w]>>] = "accept"
  BY <1>1, <1>2 DEF WrapListener
<1>4. \A v \in Listeners \ {w} : gpc'[<<v, Base[v]>>] = gpc[<<v, Base[v]>>]
  BY <1>1 DEF WrapListener
<1>5. QED
  BY <1>3, <1>4 DEF Wrapped

\* Wrapped grows in WrapListener only.
LEMMA WrappedStep ==
  ASSUME WInv, [Next]_vars
  PROVE  Wrapped' = Wrapped \/ \E w \in Listeners : WrapListener(w) /\ Wrapped' = Wrapped \cup {w}
<1>1. ASSUME NEW w \in Listeners PROVE <<w, Base[w]>> \in Goroutines
  BY DEF Goroutines, Sources
<1>2. ASSUME NEW g \in Goroutines, NEW v \in {"accept", "send", "finish", "exit"},
             gpc[g] # "none", gpc' = [gpc EXCEPT ![g] = v]
      PROVE  Wrapped' = Wrapped
  BY <1>1, <1>2 DEF Wrapped, WInv, WrapperTypeOK
<1>3. ASSUME gpc' = gpc PROVE Wrapped' = Wrapped
  BY <1>3 DEF Wrapped
<1>4. ASSUME NEW w \in Listeners, WrapListener(w) PROVE Wrapped' = Wrapped \cup {w}
  BY <1>4, WrapAdds
<1>5. QED
  <2>1. CASE gpc' = gpc
    BY <1>3, <2>1
  <2>2. CASE gpc' # gpc
    BY <1>2, <1>4, <2>2
       DEF Next, GoStep, CallerStep, Provision, ProvisionFails, Cleanup, CleanupClose,
           CleanupReset, SourceAccept, SourceFails, DropHeld, Exit, Finish, ServerCall,
           ServerStep, Receive, vars, wrapperVars
  <2>3. QED
    BY <2>1, <2>2

\* A listener leaves p.listeners only when its Close has been called.
LEMMA RememberedStep == WInv /\ Remembered /\ [Next]_vars => Remembered'
<1> SUFFICES ASSUME WInv, Remembered, [Next]_vars PROVE Remembered'
  OBVIOUS
<1>1. CASE UNCHANGED <<phase, listeners, src>> /\ Wrapped' = Wrapped
  BY <1>1 DEF Remembered
<1>2. CASE Provision
  <2>1. Wrapped' = Wrapped /\ Wrapped = {}
    BY <1>2 DEF Provision, Wrapped, Remembered
  <2>2. \A s \in LoadedSet : \E i \in DOMAIN listeners' : listeners'[i] = s
    BY <1>2 DEF Provision, LoadedSet
  <2>3. phase' = "ready"
    BY <1>2 DEF Provision
  <2>4. QED
    BY <2>1, <2>2, <2>3 DEF Remembered
<1>3. ASSUME NEW n \in 0..Len(Loaded), ProvisionFails(n) PROVE Remembered'
  BY <1>3 DEF ProvisionFails, Remembered, Wrapped
<1>4. ASSUME NEW w \in Listeners, WrapListener(w) PROVE Remembered'
  <2>1. Wrapped' = Wrapped \cup {w}
    BY <1>4, WrapAdds
  <2>2. \A i \in DOMAIN listeners : i \in DOMAIN listeners' /\ listeners'[i] = listeners[i]
    BY <1>4 DEF WrapListener, WInv, WrapperTypeOK, Sources
  <2>3. listeners'[Len(listeners')] = Base[w] /\ Len(listeners') \in DOMAIN listeners'
    BY <1>4 DEF WrapListener, WInv, WrapperTypeOK, Sources
  <2>4. \A s \in LoadedSet \cup {Base[v] : v \in Wrapped} :
            src'[s] \in {"closed", "stuck"} \/ \E i \in DOMAIN listeners' : listeners'[i] = s
    <3>1. ASSUME NEW s \in Sources PROVE src'[s] = src[s] \/ s = Base[w]
      BY <1>4, <3>1 DEF WrapListener, WInv, WrapperTypeOK
    <3>2. LoadedSet \cup {Base[v] : v \in Wrapped} \subseteq Sources
      BY DEF Sources, Wrapped
    <3>3. QED
      BY <1>4, <2>2, <2>3, <3>1, <3>2 DEF WrapListener, Remembered
  <2>5. QED
    BY <1>4, <2>1, <2>3, <2>4 DEF WrapListener, Remembered
<1>5. CASE CleanupClose
  <2>1. Wrapped' = Wrapped /\ phase' = "cleanup" /\ phase # "new" /\ phase # "failed"
    BY <1>5 DEF CleanupClose, Wrapped, Remembered
  <2>2. ASSUME NEW s \in Sources, src[s] \in {"closed", "stuck"} \/ \E i \in DOMAIN listeners : listeners[i] = s
        PROVE  src'[s] \in {"closed", "stuck"} \/ \E i \in DOMAIN listeners' : listeners'[i] = s
    <3>1. CASE src[s] \in {"closed", "stuck"} \/ s = Head(listeners)
      BY <1>5, <3>1 DEF CleanupClose, WInv, WrapperTypeOK
    <3>2. CASE \E i \in DOMAIN listeners : listeners[i] = s /\ s # Head(listeners)
      <4>1. PICK i \in DOMAIN listeners : listeners[i] = s /\ i # 1
        BY <1>5, <3>2 DEF CleanupClose, WInv, WrapperTypeOK
      <4>2. i - 1 \in DOMAIN Tail(listeners) /\ Tail(listeners)[i - 1] = s
        BY <1>5, <4>1 DEF CleanupClose, WInv, WrapperTypeOK
      <4>3. QED
        BY <1>5, <4>2 DEF CleanupClose
    <3>3. QED
      BY <2>2, <3>1, <3>2
  <2>3. LoadedSet \cup {Base[v] : v \in Wrapped} \subseteq Sources
    BY DEF Sources, Wrapped
  <2>4. QED
    BY <2>1, <2>2, <2>3 DEF Remembered
<1>6. CASE CleanupReset
  BY <1>6 DEF CleanupReset, Remembered, Wrapped
<1>7. QED
  <2>1. CASE UNCHANGED <<phase, listeners, src>>
    BY <1>1, <1>4, <2>1, WrappedStep
  <2>2. CASE ~ UNCHANGED <<phase, listeners, src>>
    BY <1>2, <1>3, <1>4, <1>5, <1>6, <2>2
       DEF Next, GoStep, CallerStep, Cleanup, SourceAccept, SourceFails, DropHeld, Exit, Finish,
           ServerCall, ServerStep, Receive, vars, wrapperVars
  <2>3. QED
    BY <2>1, <2>2

\* After a Cleanup every listener that the wrapper loaded or was given has been closed, whether the
\* Close of another failed or not.
THEOREM CleanupComplete == Spec => []CleanupClosesAll
<1>1. Init => Remembered
  <2> SUFFICES ASSUME Init PROVE Remembered
    OBVIOUS
  <2>1. Wrapped = {}
    BY DEF Init, Wrapped, Goroutines, Sources
  <2>2. QED
    BY <2>1 DEF Init, Remembered
<1>2. WInv /\ Remembered => CleanupClosesAll
  BY DEF WInv, WrapperTypeOK, Remembered, CleanupClosesAll
<1>3. QED
  BY <1>1, <1>2, RememberedStep, WrapperInvariance, PTL DEF Spec
=============================================================================
