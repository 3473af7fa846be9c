--------------------------- MODULE ForwardsProofs ---------------------------
(***************************************************************************)
(* Theorems about Forwards, for any number of forwarders and connections.  *)
(***************************************************************************)
EXTENDS Forwards, TLAPS

\* A forwarder whose turn in Start has not come accepts nothing.
NotYet == \A i \in Fwds : ln[i] = "none" => loop[i] = "none"

\* A socket and its AfterFunc exist from the step that opens it: none before Accept,
\* only those of the client while the other socket is being dialed.
SocketShape == \A c \in Conns :
    /\ conn[c] = "none" => sock[c].cli = "none" /\ armed[c] = {}
    /\ conn[c] \in {"none", "dial"} => sock[c].srv = "none" /\ "srv" \notin armed[c]

FInv == /\ TypeOK
        /\ NotYet
        /\ SocketShape
        /\ NoForgottenListener
        /\ Isolation
        /\ NoOrphan
-----------------------------------------------------------------------------
(* The functions that are left to call, as a sequence.                     *)

Calls == {"close", "cancel"} \X Fwds

\* Reversing p.stop loses nothing.
LEMMA ReverseKeeps ==
  ASSUME NEW q \in Seq(Calls), NEW e \in Calls, Contains(q, e)
  PROVE  Contains(Reverse(q), e)
<1>1. PICK i \in 1..Len(q) : q[i] = e
  BY DEF Contains
<1>2. Len(q) - i + 1 \in 1..Len(q) /\ Reverse(q)[Len(q) - i + 1] = e
  BY <1>1 DEF Reverse
<1>3. Reverse(q) = [j \in 1..Len(q) |-> q[Len(q) - j + 1]] /\ Len(Reverse(q)) = Len(q)
  BY DEF Reverse
<1>4. QED
  BY <1>2, <1>3 DEF Contains

\* p.stop reversed holds functions still.
LEMMA ReverseType == ASSUME NEW q \in Seq(Calls) PROVE Reverse(q) \in Seq(Calls)
BY DEF Reverse

\* Only the first function is gone after a turn of the loop of stopAll.
LEMMA TailKeeps ==
  ASSUME NEW q \in Seq(Calls), q # <<>>, NEW e \in Calls, Contains(q, e), e # Head(q)
  PROVE  Contains(Tail(q), e)
<1>1. PICK i \in 1..Len(q) : q[i] = e
  BY DEF Contains
<1>2. i # 1
  BY <1>1
<1>3. i - 1 \in 1..Len(Tail(q)) /\ Tail(q)[i - 1] = e
  BY <1>1, <1>2
<1>4. QED
  BY <1>3 DEF Contains

\* Start only adds functions.
LEMMA AddKeeps ==
  ASSUME NEW q \in Seq(Calls), NEW r \in Seq(Calls), NEW e \in Calls,
         Contains(q, e) \/ Contains(r, e)
  PROVE  Contains(q \o r, e)
<1>1. CASE Contains(q, e)
  <2>1. PICK i \in 1..Len(q) : q[i] = e
    BY <1>1 DEF Contains
  <2>2. i \in 1..Len(q \o r) /\ (q \o r)[i] = e
    BY <2>1
  <2>3. QED
    BY <2>2 DEF Contains
<1>2. CASE Contains(r, e)
  <2>1. PICK i \in 1..Len(r) : r[i] = e
    BY <1>2 DEF Contains
  <2>2. Len(q) + i \in 1..Len(q \o r) /\ (q \o r)[Len(q) + i] = e
    BY <2>1
  <2>3. QED
    BY <2>2 DEF Contains
<1>3. QED
  BY <1>1, <1>2
-----------------------------------------------------------------------------
\* The initial states satisfy the invariant.
LEMMA ForwardsInit == Init => FInv
<1> SUFFICES ASSUME Init PROVE FInv
  OBVIOUS
<1>1. stop \in Seq({"close", "cancel"} \X Fwds)
  BY DEF Init
<1>2. TypeOK
  BY <1>1 DEF Init, TypeOK
<1>3. SocketShape
  BY DEF Init, SocketShape, Sides
<1>4. QED
  BY <1>2, <1>3 DEF Init, FInv, NotYet, NoForgottenListener, Isolation, NoOrphan
-----------------------------------------------------------------------------
(* The steps of the app: Start, Stop and Cleanup.                          *)

\* What these steps keep of the connections: they change none of their variables,
\* and a context that is done stays so.
LEMMA ConnsKept ==
  ASSUME FInv, UNCHANGED connVars, root => root', \A i \in Fwds : fctx[i] => fctx'[i]
  PROVE  (SocketShape /\ NoOrphan)'
<1>1. \A c \in Conns : ConnDone(c) => ConnDone(c)'
  BY DEF FInv, TypeOK, connVars, ConnDone, FwdDone
<1>2. QED
  BY <1>1 DEF FInv, connVars, SocketShape, NoOrphan

\* A pair holds both its elements.
LEMMA PairContains == ASSUME NEW a, NEW b PROVE Contains(<<a, b>>, a) /\ Contains(<<a, b>>, b)
<1> DEFINE s == <<a, b>>
<1>1. 1 \in 1..Len(s) /\ 2 \in 1..Len(s) /\ s[1] = a /\ s[2] = b
  OBVIOUS
<1> HIDE DEF s
<1>2. Contains(s, a) /\ Contains(s, b)
  BY <1>1 DEF Contains
<1>3. QED
  BY <1>2 DEF s

\* One forwarder is started: it is added to p.stop with both its functions.
LEMMA StartStep == ASSUME FInv, NEW i \in Fwds, StartOne(i) PROVE FInv'
<1> DEFINE new == << <<"close", i>>, <<"cancel", i>> >>
<1> USE DEF StartOne
<1>1. stop \in Seq(Calls) /\ new \in Seq(Calls)
  BY DEF FInv, TypeOK, Calls
<1>2. stop' \in Seq({"close", "cancel"} \X Fwds)
  BY <1>1 DEF Calls
<1>3. TypeOK'
  BY <1>2 DEF FInv, TypeOK, connVars
<1>4. (NotYet /\ Isolation)'
  BY DEF FInv, TypeOK, NotYet, Isolation, Started
<1>5. (SocketShape /\ NoOrphan)'
  BY ConnsKept
<1>6. ASSUME NEW e \in Calls, Contains(stop, e) \/ e[2] = i PROVE Contains(stop', e)
  <2>1. e[2] = i => Contains(new, e)
    <3>1. Contains(new, <<"close", i>>) /\ Contains(new, <<"cancel", i>>)
      BY PairContains
    <3>2. e[2] = i => e = <<"close", i>> \/ e = <<"cancel", i>>
      BY DEF Calls
    <3>3. QED
      BY <3>1, <3>2
  <2>2. QED
    BY <1>1, <1>6, <2>1, AddKeeps
<1>7. NoForgottenListener'
  <2> SUFFICES ASSUME NEW j \in Fwds, ln'[j] = "open"
               PROVE  /\ Contains(stop', <<"close", j>>)
                      /\ ~fctx'[j] => Contains(stop', <<"cancel", j>>)
    BY DEF NoForgottenListener
  <2>1. <<"close", j>> \in Calls /\ <<"cancel", j>> \in Calls
    BY DEF Calls
  <2>2. CASE j = i
    BY <1>6, <2>1, <2>2
  <2>3. CASE j # i
    BY <1>6, <2>1, <2>3 DEF FInv, TypeOK, NoForgottenListener
  <2>4. QED
    BY <2>2, <2>3
<1>8. QED
  BY <1>3, <1>4, <1>5, <1>7 DEF FInv

\* stopAll turns p.stop around, which loses nothing.
LEMMA ReverseStep == ASSUME FInv, BeginStop PROVE FInv'
<1> USE DEF BeginStop
<1>1. stop \in Seq(Calls)
  BY DEF FInv, TypeOK, Calls
<1>2. stop' \in Seq({"close", "cancel"} \X Fwds)
  BY <1>1, ReverseType DEF Calls
<1>3. TypeOK'
  BY <1>2 DEF FInv, TypeOK, connVars
<1>4. (NotYet /\ Isolation)'
  BY DEF FInv, NotYet, Isolation
<1>5. (SocketShape /\ NoOrphan)'
  BY ConnsKept
<1>6. NoForgottenListener'
  <2> SUFFICES ASSUME NEW i \in Fwds, ln[i] = "open"
               PROVE  /\ Contains(stop', <<"close", i>>)
                      /\ ~fctx[i] => Contains(stop', <<"cancel", i>>)
    BY DEF NoForgottenListener
  <2>1. <<"close", i>> \in Calls /\ <<"cancel", i>> \in Calls
    BY DEF Calls
  <2>2. QED
    BY <1>1, <2>1, ReverseKeeps DEF FInv, NoForgottenListener
<1>7. QED
  BY <1>3, <1>4, <1>5, <1>6 DEF FInv

\* A turn of stopAll drops a function from p.stop, but has called it.
LEMMA StopStep == ASSUME FInv, StopOne PROVE FInv'
<1> USE DEF StopOne
<1>1. stop \in Seq(Calls) /\ stop # <<>>
  BY DEF FInv, TypeOK, Calls
<1>2. PICK k \in {"close", "cancel"}, i \in Fwds : Head(stop) = <<k, i>>
  BY <1>1 DEF Calls
<1>3. /\ k = "close" => ln' = [ln EXCEPT ![i] = "closed"] /\ fctx' = fctx
      /\ k = "cancel" => fctx' = [fctx EXCEPT ![i] = TRUE] /\ ln' = ln
  BY <1>2
<1>4. stop' \in Seq({"close", "cancel"} \X Fwds)
  BY <1>1 DEF Calls
<1>5. TypeOK'
  BY <1>2, <1>3, <1>4 DEF FInv, TypeOK, connVars
<1>6. \A j \in Fwds : fctx[j] => fctx'[j]
  BY <1>2, <1>3 DEF FInv, TypeOK
<1>7. (SocketShape /\ NoOrphan)'
  BY <1>6, ConnsKept
<1>8. (NotYet /\ Isolation)'
  BY <1>2, <1>3 DEF FInv, TypeOK, NotYet, Isolation
<1>9. NoForgottenListener'
  <2> SUFFICES ASSUME NEW j \in Fwds, ln'[j] = "open"
               PROVE  /\ Contains(stop', <<"close", j>>)
                      /\ ~fctx'[j] => Contains(stop', <<"cancel", j>>)
    BY DEF NoForgottenListener
  <2>1. <<"close", j>> \in Calls /\ <<"cancel", j>> \in Calls
    BY DEF Calls
  <2>2. ln[j] = "open" /\ <<"close", j>> # Head(stop)
    BY <1>2, <1>3 DEF FInv, TypeOK
  <2>3. ~fctx'[j] => ~fctx[j] /\ <<"cancel", j>> # Head(stop)
    <3>1. CASE k = "close"
      BY <1>2, <1>3, <3>1
    <3>2. CASE k = "cancel"
      BY <1>2, <1>3, <3>2 DEF FInv, TypeOK
    <3>3. QED
      BY <3>1, <3>2
  <2>4. QED
    BY <1>1, <2>1, <2>2, <2>3, TailKeeps DEF FInv, NoForgottenListener
<1>10. QED
  BY <1>5, <1>7, <1>8, <1>9 DEF FInv

\* The other steps of the app, and an accept loop that ends: only the phase changes,
\* a context is cancelled or a loop ends.
LEMMA AppStep ==
  ASSUME FInv, \/ StartEnds \/ StartFails \/ CancelConfig \/ StopEnds
               \/ \E i \in Fwds : AcceptFails(i)
  PROVE  FInv'
<1>1. UNCHANGED <<stop, ln, connVars>>
  BY DEF StartEnds, StartFails, CancelConfig, StopEnds, AcceptFails
<1>2. /\ root => root'
      /\ \A i \in Fwds : fctx[i] => fctx'[i]
  BY DEF StartEnds, StartFails, CancelConfig, StopEnds, AcceptFails, FInv, TypeOK
<1>3. (SocketShape /\ NoOrphan)'
  BY <1>1, <1>2, ConnsKept
<1>4. NoForgottenListener'
  BY <1>1, <1>2 DEF FInv, NoForgottenListener
<1>5. CASE \/ StartEnds \/ StartFails \/ CancelConfig \/ StopEnds
  BY <1>3, <1>4, <1>5 DEF StartEnds, StartFails, CancelConfig, StopEnds, FInv, TypeOK, NotYet,
     Isolation, connVars
<1>6. ASSUME NEW i \in Fwds, AcceptFails(i) PROVE (TypeOK /\ NotYet /\ Isolation)'
  BY <1>6 DEF AcceptFails, FInv, TypeOK, NotYet, Isolation, connVars
<1>7. QED
  BY <1>3, <1>4, <1>5, <1>6 DEF FInv
-----------------------------------------------------------------------------
(* The steps of a connection.                                              *)

\* They leave the app alone, and with it what is said of it.
LEMMA AppKept ==
  ASSUME FInv, UNCHANGED fwdVars
  PROVE  (NotYet /\ NoForgottenListener /\ Isolation)'
BY DEF FInv, fwdVars, NotYet, NoForgottenListener, Isolation

\* Whatever opens a socket of c arms its AfterFunc, and whatever ends the goroutine of
\* c cancels the context that makes the AfterFuncs run.
LEMMA ConnSteps ==
  ASSUME FInv, NEW c \in Conns,
         \/ \E i \in Fwds : Accept(i, c)
         \/ DialOK(c)
         \/ DialFails(c)
         \/ ConnStep(c)
         \/ \E s \in Sides : \/ RemoteEnds(c, s)
                            \/ CopyReads(c, s)
                            \/ CopyWrites(c, s)
                            \/ WriteFails(c, s)
  PROVE  FInv'
<1> USE DEF FInv, TypeOK, Sides
<1>1. UNCHANGED fwdVars
  BY DEF Accept, DialOK, DialFails, ConnStep, AfterFunc, CopyEnds, ConnEnds, RemoteEnds,
     CopyReads, CopyWrites, WriteFails, CopyOver
<1>2. (NotYet /\ NoForgottenListener /\ Isolation)'
  BY <1>1, AppKept
<1>3. \A d \in Conns : ConnDone(d)' <=> cctx'[d] \/ (home'[d] # 0 /\ FwdDone(home'[d]))
  BY <1>1 DEF ConnDone, FwdDone, fwdVars
<1>4. ASSUME NEW i \in Fwds, Accept(i, c) PROVE (TypeOK /\ SocketShape /\ NoOrphan)'
  <2> USE <1>4 DEF Accept
  <2>1. TypeOK'
    BY <1>1 DEF fwdVars
  <2>2. sock'[c].cli = "open" /\ sock'[c].srv = sock[c].srv /\ sock[c].srv = "none"
    BY DEF SocketShape
  <2>3. SocketShape'
    BY <2>2 DEF SocketShape
  <2>4. NoOrphan'
    BY <1>3, <2>2 DEF NoOrphan, ConnDone
  <2>5. QED
    BY <2>1, <2>3, <2>4
<1>5. ASSUME DialOK(c) PROVE (TypeOK /\ SocketShape /\ NoOrphan)'
  <2> USE <1>5 DEF DialOK
  <2>1. TypeOK'
    BY <1>1 DEF fwdVars
  <2>2. sock'[c].srv = "open" /\ sock'[c].cli = sock[c].cli
    OBVIOUS
  <2>3. SocketShape'
    BY <2>2 DEF SocketShape
  <2>4. NoOrphan'
    BY <1>3, <2>2 DEF NoOrphan, ConnDone
  <2>5. QED
    BY <2>1, <2>3, <2>4
<1>6. CASE DialFails(c)
  BY <1>1, <1>2, <1>3, <1>6 DEF DialFails, SocketShape, NoOrphan, ConnDone, fwdVars
<1>7. ASSUME NEW s \in Sides, AfterFunc(c, s) PROVE (TypeOK /\ SocketShape /\ NoOrphan)'
  <2> USE <1>7 DEF AfterFunc
  <2>1. TypeOK'
    BY <1>1 DEF fwdVars
  <2>2. sock'[c][s] = "closed" /\ \A r \in Sides \ {s} : sock'[c][r] = sock[c][r]
    OBVIOUS
  <2>3. conn[c] # "none" /\ (conn[c] = "dial" => s = "cli")
    BY DEF SocketShape
  <2>4. SocketShape'
    BY <2>2, <2>3 DEF SocketShape
  <2>5. NoOrphan'
    BY <1>3, <2>2 DEF NoOrphan, ConnDone
  <2>6. QED
    BY <2>1, <2>4, <2>5
<1>8. ASSUME NEW s \in Sides, CopyOver(c, s) PROVE (TypeOK /\ SocketShape /\ NoOrphan)'
  BY <1>1, <1>3, <1>8 DEF CopyOver, SocketShape, NoOrphan, ConnDone, fwdVars
<1>9. CASE ConnEnds(c)
  BY <1>1, <1>2, <1>3, <1>9 DEF ConnEnds, SocketShape, NoOrphan, ConnDone, fwdVars
<1>10. ASSUME NEW s \in Sides, RemoteEnds(c, s) PROVE (TypeOK /\ SocketShape /\ NoOrphan)'
  BY <1>1, <1>3, <1>10 DEF RemoteEnds, SocketShape, NoOrphan, ConnDone, fwdVars
<1>11. ASSUME NEW s \in Sides, CopyReads(c, s) \/ CopyWrites(c, s)
       PROVE  (TypeOK /\ SocketShape /\ NoOrphan)'
  <2>1. UNCHANGED <<home, conn, cctx, sock, armed, copies, eof>>
    BY <1>11 DEF CopyReads, CopyWrites
  <2>2. writing' \in [Conns -> SUBSET Sides]
    BY <1>11 DEF CopyReads, CopyWrites
  <2>3. TypeOK'
    BY <1>1, <2>1, <2>2 DEF fwdVars
  <2>4. (SocketShape /\ NoOrphan)'
    BY <1>3, <2>1 DEF SocketShape, NoOrphan, ConnDone
  <2>5. QED
    BY <2>3, <2>4
<1>12. QED
  BY <1>2, <1>4, <1>5, <1>6, <1>7, <1>8, <1>9, <1>10, <1>11 DEF ConnStep, CopyEnds, WriteFails
-----------------------------------------------------------------------------
\* Every step keeps the invariant.
LEMMA ForwardsStep == FInv /\ [Next]_vars => FInv'
<1> SUFFICES ASSUME FInv, [Next]_vars PROVE FInv'
  OBVIOUS
<1>1. CASE UNCHANGED vars
  BY <1>1 DEF vars, fwdVars, connVars, FInv, TypeOK, NotYet, SocketShape, NoForgottenListener,
     Isolation, NoOrphan, ConnDone, FwdDone
<1>2. CASE Next
  BY <1>2, StartStep, ReverseStep, StopStep, AppStep, ConnSteps DEF Next
<1>3. QED
  BY <1>1, <1>2

\* In every reachable state, types, shapes and the three properties hold.
THEOREM ForwardsInvariance == Spec => []FInv
<1>1. QED
  BY ForwardsInit, ForwardsStep, PTL DEF Spec

\* The state of the app and of its connections keeps its types.
THEOREM ForwardsTypeCorrect == Spec => []TypeOK
BY ForwardsInvariance, PTL DEF FInv

\* However far Start came, p.stop holds what closes each open listener and cancels
\* its connections.
THEOREM NothingForgotten == Spec => []NoForgottenListener
BY ForwardsInvariance, PTL DEF FInv

\* A connection that ends, or fails to dial, never cancels its forwarder.
THEOREM ConnectionsIsolated == Spec => []Isolation
BY ForwardsInvariance, PTL DEF FInv

\* Every open socket has an AfterFunc to close it, due when its goroutine has ended.
THEOREM NoSocketOrphaned == Spec => []NoOrphan
BY ForwardsInvariance, PTL DEF FInv
=============================================================================
