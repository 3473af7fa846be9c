--------------------------- MODULE NetstackProofs ---------------------------
(***************************************************************************)
(* Theorems about Netstack, for any number of writers, readers and calls   *)
(* of Close, packets of each writer and room in the queue.                 *)
(***************************************************************************)
EXTENDS Netstack, FiniteSetTheorems, TLAPS

\* A writer has a packet in hand exactly while it sends.
ViewShape == \A w \in Writers : wpc[w] = "send" <=> view[w] # Nobody

\* The writers that are about to take a packet.
Notifying == {w \in Writers : wpc[w] = "notify"}

\* Every packet in the queue has a writer coming for it, and they are finitely many.
NotifyCount == qOpen => IsFiniteSet(Notifying) /\ Len(queue) = Cardinality(Notifying)

\* The packets that have left the queue: read, or in the hands of a writer.
Taken(p) == Contains(got, p) \/ \E v \in Writers : view[v] = p

\* The packets a writer has numbered exist, the others do not.
Numbered == \A p \in Packets : Contains(queue, p) \/ Taken(p) => p[2] <= sent[p[1]]

\* In the queue the packets of a writer are in the order it sent them,
QueueOrder == \A i, j \in 1..Len(queue) :
    i < j /\ queue[i][1] = queue[j][1] => queue[i][2] < queue[j][2]

\* and what has left the queue is older than what is in it.
TakenFirst == \A p, q \in Packets :
    Taken(p) /\ Contains(queue, q) /\ p[1] = q[1] => p[2] < q[2]

\* A packet is in the hands of one writer, or it was read, once.
TakenOnce == /\ \A i, j \in 1..Len(got) : got[i] = got[j] => i = j
             /\ \A w \in Writers : view[w] # Nobody =>
                    /\ ~Contains(got, view[w])
                    /\ \A v \in Writers \ {w} : view[v] # view[w]

NInv == /\ TypeOK
        /\ ViewShape
        /\ NotifyCount
        /\ Numbered
        /\ QueueOrder
        /\ TakenFirst
        /\ TakenOnce
-----------------------------------------------------------------------------
(* The queue, as a sequence and as the set of its packets.                 *)

\* A packet added at the end is in the queue, besides those that were.
LEMMA AppendHas ==
  ASSUME NEW q \in Seq(Packets), NEW p \in Packets, NEW e \in Packets
  PROVE  Contains(Append(q, p), e) <=> Contains(q, e) \/ e = p
<1> DEFINE r == Append(q, p)
<1>1. r \in Seq(Packets) /\ Len(r) = Len(q) + 1 /\ r[Len(q) + 1] = p
  OBVIOUS
<1>2. \A i \in 1..Len(q) : r[i] = q[i]
  OBVIOUS
<1>3. ASSUME Contains(q, e) PROVE Contains(r, e)
  <2>1. PICK i \in 1..Len(q) : q[i] = e
    BY <1>3 DEF Contains
  <2>2. i \in 1..Len(r) /\ r[i] = e
    BY <1>1, <1>2, <2>1
  <2>3. QED
    BY <2>2 DEF Contains
<1>4. ASSUME e = p PROVE Contains(r, e)
  BY <1>1, <1>4 DEF Contains
<1>5. ASSUME Contains(r, e) PROVE Contains(q, e) \/ e = p
  <2>1. PICK i \in 1..Len(r) : r[i] = e
    BY <1>5 DEF Contains
  <2>2. CASE i = Len(q) + 1
    BY <1>1, <2>1, <2>2
  <2>3. CASE i # Len(q) + 1
    <3>1. i \in 1..Len(q)
      BY <1>1, <2>1, <2>3
    <3>2. QED
      BY <1>2, <2>1, <3>1 DEF Contains
  <2>4. QED
    BY <2>2, <2>3
<1>6. QED
  BY <1>3, <1>4, <1>5

\* What is left of a queue was in it behind its head.
LEMMA TailHas ==
  ASSUME NEW q \in Seq(Packets), q # <<>>
  PROVE  /\ Tail(q) \in Seq(Packets) /\ Len(Tail(q)) = Len(q) - 1
         /\ \A i \in 1..Len(Tail(q)) : i + 1 \in 1..Len(q) /\ Tail(q)[i] = q[i + 1]
         /\ \A e : Contains(Tail(q), e) => Contains(q, e)
         /\ Head(q) \in Packets /\ Contains(q, Head(q))
<1>1. Tail(q) \in Seq(Packets) /\ Len(Tail(q)) = Len(q) - 1 /\ Len(q) \in Nat \ {0}
  OBVIOUS
<1>2. \A i \in 1..Len(Tail(q)) : i + 1 \in 1..Len(q) /\ Tail(q)[i] = q[i + 1]
  BY <1>1
<1>3. 1 \in 1..Len(q) /\ q[1] = Head(q) /\ Head(q) \in Packets
  BY <1>1
<1>4. QED
  BY <1>1, <1>2, <1>3 DEF Contains
-----------------------------------------------------------------------------
\* The initial states satisfy the invariant.
LEMMA NetstackInit == Init => NInv
<1> SUFFICES ASSUME Init PROVE NInv
  OBVIOUS
<1> USE NetstackAssumption DEF Init
<1>1. TypeOK
  <2>1. queue \in Seq(Packets) /\ got \in Seq(Packets) /\ log \in Seq({"up", "down"})
    OBVIOUS
  <2>2. <<"up">> \in Seq({"up", "down"}) /\ Len(<<"up">>) = 1
    OBVIOUS
  <2>3. Len(queue) = 0 /\ 0 <= Size /\ 0 \in 0..Count
    OBVIOUS
  <2>4. sent \in [Writers -> 0..Count]
    BY <2>3
  <2>5. view \in [Writers -> Packets \cup {Nobody}]
    OBVIOUS
  <2>6. events \in Seq({"up", "down"}) /\ Len(events) <= 1
    BY <2>2
  <2>7. wpc \in [Writers -> {"idle", "notify", "send"}] /\ rpc \in [Readers -> {"idle", "read"}]
    OBVIOUS
  <2>8. cpc \in [Closers -> {"idle", "wait", "events", "ep", "returned"}]
    OBVIOUS
  <2>9. QED
    BY <2>1, <2>3, <2>4, <2>5, <2>6, <2>7, <2>8 DEF TypeOK
<1>2. NotifyCount
  <2>1. Notifying = {}
    BY DEF Notifying
  <2>2. QED
    BY <2>1, FS_EmptySet DEF NotifyCount
<1>3. \A p \in Packets : ~Contains(queue, p) /\ ~Taken(p)
  BY DEF Contains, Taken
<1>4. Numbered /\ TakenFirst
  BY <1>3 DEF Numbered, TakenFirst
<1>5. QED
  BY <1>1, <1>2, <1>4 DEF NInv, ViewShape, QueueOrder, TakenOnce

\* The part of the invariant that is about packets, and the steps that leave them alone.
PacketInv == ViewShape /\ NotifyCount /\ Numbered /\ QueueOrder /\ TakenFirst /\ TakenOnce

\* What the invariant says of packets depends on these variables only.
LEMMA PacketsKept ==
  ASSUME NInv, UNCHANGED <<queue, qOpen, sent, wpc, view, got>>
  PROVE  PacketInv'
<1>1. \A p : Taken(p)' <=> Taken(p)
  BY DEF Taken
<1>2. Notifying' = Notifying
  BY DEF Notifying
<1>3. (ViewShape /\ QueueOrder /\ TakenOnce)'
  BY DEF NInv, ViewShape, QueueOrder, TakenOnce
<1>4. (NotifyCount /\ Numbered /\ TakenFirst)'
  BY <1>1, <1>2 DEF NInv, NotifyCount, Numbered, TakenFirst
<1>5. QED
  BY <1>3, <1>4 DEF PacketInv

\* A packet that is queued is the newest of its writer, and has a writer coming for it.
LEMMA EnqueueStep == ASSUME NInv, NEW w \in Writers, Enqueue(w) PROVE NInv'
<1> DEFINE p == <<w, sent[w] + 1>>
<1> USE DEF Enqueue
<1>1. /\ sent[w] \in 0..Count /\ sent[w] + 1 \in 1..Count /\ p \in Packets
      /\ queue \in Seq(Packets)
  <2>1. sent[w] \in 0..Count /\ Quota[w] \in 0..Count /\ sent[w] < Quota[w] /\ Count \in Nat
    BY NetstackAssumption DEF NInv, TypeOK
  <2>2. QED
    BY <2>1 DEF NInv, TypeOK, Packets
<1>2. sent'[w] = sent[w] + 1 /\ queue' = Append(queue, p)
  BY DEF NInv, TypeOK
<1>3. \A i \in 1..Len(queue) : queue'[i] = queue[i] /\ queue[i] \in Packets
  BY <1>1, <1>2
<1>4. Len(queue') = Len(queue) + 1 /\ queue'[Len(queue) + 1] = p /\ queue' \in Seq(Packets)
  BY <1>1, <1>2
<1>5. \A e \in Packets : Contains(queue', e) <=> Contains(queue, e) \/ e = p
  <2>1. \A e \in Packets : Contains(Append(queue, p), e) <=> Contains(queue, e) \/ e = p
    BY <1>1, AppendHas
  <2>2. QED
    BY <1>2, <2>1
<1>6. \A e : Taken(e)' <=> Taken(e)
  BY DEF Taken
<1>7. \A v \in Writers : sent[v] \in Nat /\ sent'[v] = IF v = w THEN sent[v] + 1 ELSE sent[v]
  BY DEF NInv, TypeOK
<1>8. TypeOK'
  BY <1>1, <1>4, NetstackAssumption DEF NInv, TypeOK, eventVars, closeVars
<1>9. NotifyCount'
  <2>1. w \notin Notifying /\ Notifying' = Notifying \cup {w}
    BY DEF Notifying, NInv, TypeOK
  <2>2. IsFiniteSet(Notifying) /\ Len(queue) = Cardinality(Notifying)
    BY DEF NInv, NotifyCount
  <2>3. IsFiniteSet(Notifying') /\ Cardinality(Notifying') = Cardinality(Notifying) + 1
    BY <2>1, <2>2, FS_AddElement
  <2>4. QED
    BY <1>4, <2>2, <2>3 DEF NotifyCount
<1>10. Numbered'
  <2> SUFFICES ASSUME NEW e \in Packets, Contains(queue', e) \/ Taken(e)'
               PROVE  e[2] <= sent'[e[1]]
    BY DEF Numbered
  <2>1. CASE e = p
    BY <1>1, <1>2, <2>1
  <2>2. CASE e # p
    <3>1. e[2] <= sent[e[1]] /\ e[1] \in Writers /\ e[2] \in Nat
      BY <1>5, <1>6, <2>2 DEF NInv, Numbered, Packets
    <3>2. QED
      BY <1>7, <3>1
  <2>3. QED
    BY <2>1, <2>2
<1>11. QueueOrder'
  <2> SUFFICES ASSUME NEW i \in 1..Len(queue'), NEW j \in 1..Len(queue'),
                      i < j, queue'[i][1] = queue'[j][1]
               PROVE  queue'[i][2] < queue'[j][2]
    BY DEF QueueOrder
  <2>1. i \in 1..Len(queue) /\ Len(queue) \in Nat
    BY <1>1, <1>4
  <2>2. CASE j \in 1..Len(queue)
    BY <1>3, <2>1, <2>2 DEF NInv, QueueOrder
  <2>3. CASE j = Len(queue) + 1
    <3>1. queue[i] \in Packets /\ Contains(queue, queue[i]) /\ queue[i][1] = w
      BY <1>3, <1>4, <2>1, <2>3 DEF Contains
    <3>2. queue[i][2] <= sent[w] /\ queue[i][2] \in Nat
      BY <3>1 DEF NInv, Numbered, Packets
    <3>3. QED
      BY <1>1, <1>3, <1>4, <2>1, <2>3, <3>2
  <2>4. QED
    BY <1>4, <2>2, <2>3
<1>12. TakenFirst'
  <2> SUFFICES ASSUME NEW e \in Packets, NEW q \in Packets, Taken(e), Contains(queue', q), e[1] = q[1]
               PROVE  e[2] < q[2]
    BY <1>6 DEF TakenFirst
  <2>1. CASE q = p
    <3>1. e[2] <= sent[w] /\ e[2] \in Nat
      BY <2>1 DEF NInv, Numbered, Packets
    <3>2. QED
      BY <1>1, <2>1, <3>1
  <2>2. CASE q # p
    BY <1>5, <2>2 DEF NInv, TakenFirst
  <2>3. QED
    BY <2>1, <2>2
<1>13. (ViewShape /\ TakenOnce)'
  BY DEF NInv, TypeOK, ViewShape, TakenOnce
<1>14. QED
  BY <1>8, <1>9, <1>10, <1>11, <1>12, <1>13 DEF NInv

\* A lost packet only uses up its number.
LEMMA LoseStep == ASSUME NInv, NEW w \in Writers, Lose(w) PROVE NInv'
<1> USE DEF Lose
<1>1. sent[w] \in 0..Count /\ sent[w] + 1 \in 0..Count
  <2>1. sent[w] \in 0..Count /\ Quota[w] \in 0..Count /\ sent[w] < Quota[w] /\ Count \in Nat
    BY NetstackAssumption DEF NInv, TypeOK
  <2>2. QED
    BY <2>1
<1>2. \A v \in Writers : sent[v] \in Nat /\ sent'[v] \in Nat /\ sent[v] <= sent'[v]
  BY DEF NInv, TypeOK
<1>3. \A e : Taken(e)' <=> Taken(e)
  BY DEF Taken
<1>4. Notifying' = Notifying
  BY DEF Notifying
<1>5. TypeOK'
  BY <1>1 DEF NInv, TypeOK, eventVars, closeVars
<1>6. Numbered'
  <2> SUFFICES ASSUME NEW e \in Packets, Contains(queue, e) \/ Taken(e)
               PROVE  e[2] <= sent'[e[1]]
    BY <1>3 DEF Numbered
  <2>1. e[1] \in Writers /\ e[2] \in Nat /\ e[2] <= sent[e[1]]
    BY DEF NInv, Numbered, Packets
  <2>2. QED
    BY <1>2, <2>1
<1>7. (NotifyCount /\ TakenFirst)'
  BY <1>3, <1>4 DEF NInv, NotifyCount, TakenFirst
<1>8. (ViewShape /\ QueueOrder /\ TakenOnce)'
  BY DEF NInv, ViewShape, QueueOrder, TakenOnce
<1>9. QED
  BY <1>5, <1>6, <1>7, <1>8 DEF NInv

\* A writer that finds the queue drained goes home; it was closed.
LEMMA TakeNothing == ASSUME NInv, NEW w \in Writers, Take(w), queue = <<>> PROVE NInv'
<1>1. wpc[w] = "notify" /\ wpc' = [wpc EXCEPT ![w] = "idle"]
      /\ UNCHANGED <<queue, view, qOpen, sent, rpc, got, eventVars, closeVars>>
  BY DEF Take
<1>2. ~qOpen
  <2>1. w \in Notifying
    BY <1>1 DEF Notifying
  <2>2. Len(queue) = 0
    OBVIOUS
  <2>3. QED
    BY <2>1, <2>2, FS_EmptySet DEF NInv, NotifyCount
<1>3. \A e : Taken(e)' <=> Taken(e)
  BY <1>1 DEF Taken
<1>4. TypeOK'
  BY <1>1 DEF NInv, TypeOK, eventVars, closeVars
<1>5. ViewShape'
  BY <1>1 DEF NInv, TypeOK, ViewShape
<1>6. (NotifyCount /\ Numbered /\ TakenFirst)'
  BY <1>1, <1>2, <1>3 DEF NInv, NotifyCount, Numbered, TakenFirst
<1>7. (QueueOrder /\ TakenOnce)'
  BY <1>1 DEF NInv, QueueOrder, TakenOnce
<1>8. QED
  BY <1>4, <1>5, <1>6, <1>7 DEF NInv

\* The head of the queue is older than the rest of its writer's packets, and no writer
\* has had it before.
LEMMA TakeHead == ASSUME NInv, NEW w \in Writers, Take(w), queue # <<>> PROVE NInv'
<1> DEFINE h == Head(queue)
<1>1. /\ wpc[w] = "notify" /\ wpc' = [wpc EXCEPT ![w] = "send"]
      /\ view' = [view EXCEPT ![w] = h] /\ queue' = Tail(queue)
      /\ UNCHANGED <<qOpen, sent, rpc, got, eventVars, closeVars>>
  BY DEF Take
<1>2. queue \in Seq(Packets) /\ queue' \in Seq(Packets) /\ Len(queue') = Len(queue) - 1
  BY <1>1, TailHas DEF NInv, TypeOK
<1>3. h \in Packets /\ Contains(queue, h) /\ h = queue[1] /\ h # Nobody
  BY <1>2, TailHas, NetstackAssumption
<1>4. \A i \in 1..Len(queue') : i + 1 \in 1..Len(queue) /\ queue'[i] = queue[i + 1]
  BY <1>1, <1>2, TailHas
<1>5. \A e : Contains(queue', e) => Contains(queue, e)
  <2>1. \A e : Contains(Tail(queue), e) => Contains(queue, e)
    BY <1>2, TailHas
  <2>2. QED
    BY <1>1, <2>1
<1>6. view[w] = Nobody /\ view'[w] = h /\ \A v \in Writers \ {w} : view'[v] = view[v]
  BY <1>1 DEF NInv, TypeOK, ViewShape
<1>7. \A e \in Packets : Taken(e)' <=> Taken(e) \/ e = h
  BY <1>1, <1>6, NetstackAssumption DEF Taken
<1>8. ~Taken(h)
  <2>1. ASSUME Taken(h) PROVE h[2] < h[2] /\ h[2] \in Nat
    <3>1. h[2] \in Nat
      BY <1>3 DEF Packets
    <3>2. h[2] < h[2]
      BY <1>3, <2>1 DEF NInv, TakenFirst
    <3>3. QED
      BY <3>1, <3>2
  <2>2. QED
    BY <2>1
<1>9. TypeOK'
  BY <1>1, <1>2, <1>3, NetstackAssumption DEF NInv, TypeOK, eventVars, closeVars
<1>10. ViewShape'
  BY <1>1, <1>3, <1>6 DEF NInv, TypeOK, ViewShape
<1>11. NotifyCount'
  <2> SUFFICES ASSUME qOpen PROVE IsFiniteSet(Notifying') /\ Len(queue') = Cardinality(Notifying')
    BY <1>1 DEF NotifyCount
  <2>1. w \in Notifying /\ Notifying' = Notifying \ {w}
    BY <1>1 DEF NInv, TypeOK, Notifying
  <2>2. IsFiniteSet(Notifying) /\ Len(queue) = Cardinality(Notifying)
    BY DEF NInv, NotifyCount
  <2>3. IsFiniteSet(Notifying') /\ Cardinality(Notifying') = Cardinality(Notifying) - 1
    BY <2>1, <2>2, FS_RemoveElement
  <2>4. QED
    BY <1>2, <2>2, <2>3
<1>12. Numbered'
  BY <1>1, <1>3, <1>5, <1>7 DEF NInv, Numbered
<1>13. QueueOrder'
  <2> SUFFICES ASSUME NEW i \in 1..Len(queue'), NEW j \in 1..Len(queue'),
                      i < j, queue'[i][1] = queue'[j][1]
               PROVE  queue'[i][2] < queue'[j][2]
    BY DEF QueueOrder
  <2>1. i + 1 < j + 1 /\ i + 1 \in 1..Len(queue) /\ j + 1 \in 1..Len(queue)
    BY <1>4
  <2>2. QED
    BY <1>4, <2>1 DEF NInv, QueueOrder
<1>14. TakenFirst'
  <2> SUFFICES ASSUME NEW e \in Packets, NEW q \in Packets, Taken(e)', Contains(queue', q), e[1] = q[1]
               PROVE  e[2] < q[2]
    BY DEF TakenFirst
  <2>1. CASE e = h
    <3>1. PICK i \in 1..Len(queue') : queue'[i] = q
      BY DEF Contains
    <3>2. 1 < i + 1 /\ 1 \in 1..Len(queue) /\ i + 1 \in 1..Len(queue) /\ queue[i + 1] = q
      BY <1>2, <1>4, <3>1
    <3>3. QED
      BY <1>3, <2>1, <3>2 DEF NInv, QueueOrder
  <2>2. CASE e # h
    BY <1>5, <1>7, <2>2 DEF NInv, TakenFirst
  <2>3. QED
    BY <2>1, <2>2
<1>15. TakenOnce'
  <2>1. \A i, j \in 1..Len(got') : got'[i] = got'[j] => i = j
    BY <1>1 DEF NInv, TakenOnce
  <2>2. ASSUME NEW v \in Writers, view'[v] # Nobody
        PROVE  ~Contains(got', view'[v]) /\ \A u \in Writers \ {v} : view'[u] # view'[v]
    <3>1. CASE v = w
      BY <1>1, <1>6, <1>8, <3>1 DEF Taken
    <3>2. CASE v # w
      BY <1>1, <1>6, <1>8, <2>2, <3>2 DEF NInv, TakenOnce, Taken
    <3>3. QED
      BY <3>1, <3>2
  <2>3. QED
    BY <2>1, <2>2 DEF TakenOnce
<1>16. QED
  BY <1>9, <1>10, <1>11, <1>12, <1>13, <1>14, <1>15 DEF NInv

\* Whatever WriteNotify finds in the queue.
LEMMA TakeStep == ASSUME NInv, NEW w \in Writers, Take(w) PROVE NInv'
BY TakeNothing, TakeHead

\* A packet dropped at the close is in nobody's hands.
LEMMA SendGivesUpStep == ASSUME NInv, NEW w \in Writers, SendGivesUp(w) PROVE NInv'
<1> USE DEF SendGivesUp
<1>1. view'[w] = Nobody /\ \A v \in Writers \ {w} : view'[v] = view[v]
  BY DEF NInv, TypeOK
<1>2. \A e \in Packets : Taken(e)' => Taken(e)
  BY <1>1, NetstackAssumption DEF Taken
<1>3. Notifying' = Notifying
  BY DEF Notifying, NInv, TypeOK
<1>4. TypeOK'
  BY DEF NInv, TypeOK, eventVars, closeVars
<1>5. (ViewShape /\ TakenOnce)'
  BY <1>1 DEF NInv, TypeOK, ViewShape, TakenOnce
<1>6. (NotifyCount /\ Numbered /\ QueueOrder /\ TakenFirst)'
  BY <1>2, <1>3 DEF NInv, NotifyCount, Numbered, QueueOrder, TakenFirst
<1>7. QED
  BY <1>4, <1>5, <1>6 DEF NInv

\* A packet that is passed to a reader was taken before and is now read.
LEMMA PassStep == ASSUME NInv, NEW w \in Writers, NEW r \in Readers, Pass(w, r) PROVE NInv'
<1> DEFINE p == view[w]
<1> USE DEF Pass
<1>1. p \in Packets /\ p # Nobody /\ got \in Seq(Packets) /\ got' = Append(got, p)
  BY DEF NInv, TypeOK, ViewShape
<1>2. view'[w] = Nobody /\ \A v \in Writers \ {w} : view'[v] = view[v]
  BY DEF NInv, TypeOK
<1>3. got' \in Seq(Packets) /\ Len(got') = Len(got) + 1 /\ got'[Len(got) + 1] = p
      /\ \A i \in 1..Len(got) : got'[i] = got[i]
  BY <1>1
<1>4. \A e \in Packets : Contains(got', e) <=> Contains(got, e) \/ e = p
  <2>1. \A e \in Packets : Contains(Append(got, p), e) <=> Contains(got, e) \/ e = p
    BY <1>1, AppendHas
  <2>2. QED
    BY <1>1, <2>1
<1>5. \A e \in Packets : Taken(e)' => Taken(e)
  BY <1>2, <1>4, NetstackAssumption DEF Taken
<1>6. Notifying' = Notifying
  BY DEF Notifying, NInv, TypeOK
<1>7. TypeOK'
  BY <1>3 DEF NInv, TypeOK, eventVars, closeVars
<1>8. ViewShape'
  BY <1>2 DEF NInv, TypeOK, ViewShape
<1>9. TakenOnce'
  <2>1. ASSUME NEW i \in 1..Len(got'), NEW j \in 1..Len(got'), got'[i] = got'[j] PROVE i = j
    <3>1. ~Contains(got, p)
      BY <1>1 DEF NInv, TakenOnce
    <3>2. \A k \in 1..Len(got) : got'[k] # p
      BY <1>3, <3>1 DEF Contains
    <3>3. (i \in 1..Len(got) \/ i = Len(got) + 1) /\ (j \in 1..Len(got) \/ j = Len(got) + 1)
      BY <1>1, <1>3
    <3>4. QED
      BY <1>3, <2>1, <3>2, <3>3 DEF NInv, TakenOnce
  <2>2. ASSUME NEW v \in Writers, view'[v] # Nobody
        PROVE  ~Contains(got', view'[v]) /\ \A u \in Writers \ {v} : view'[u] # view'[v]
    <3>1. v # w /\ view'[v] = view[v] /\ view[v] \in Packets /\ view[v] # p
      BY <1>1, <1>2, <2>2 DEF NInv, TypeOK, TakenOnce
    <3>2. ~Contains(got, view[v]) /\ \A u \in Writers \ {v} : view[u] # view[v]
      BY <2>2, <3>1 DEF NInv, TakenOnce
    <3>3. ~Contains(got', view[v])
      BY <1>4, <3>1, <3>2
    <3>4. QED
      BY <1>2, <2>2, <3>1, <3>2, <3>3
  <2>3. QED
    BY <2>1, <2>2 DEF TakenOnce
<1>10. (NotifyCount /\ Numbered /\ QueueOrder /\ TakenFirst)'
  BY <1>5, <1>6 DEF NInv, NotifyCount, Numbered, QueueOrder, TakenFirst
<1>11. QED
  BY <1>7, <1>8, <1>9, <1>10 DEF NInv

\* Closing the endpoint drains the queue.
LEMMA CloseEndpointStep == ASSUME NInv, NEW t \in Closers, CloseEndpoint(t) PROVE NInv'
<1>1. /\ UNCHANGED <<sent, wpc, view, rpc, got, events, down, log, done>>
      /\ qOpen' = FALSE /\ once' = "over" /\ cpc' = [cpc EXCEPT ![t] = "returned"]
  BY DEF CloseEndpoint, eventVars
<1>2. queue' \in Seq(Packets) /\ Len(queue') = 0 /\ \A e : ~Contains(queue', e)
  BY DEF CloseEndpoint, Contains
<1>3. \A e : Taken(e)' <=> Taken(e)
  BY <1>1 DEF Taken
<1>4. TypeOK'
  <2>1. Len(queue') <= Size
    BY <1>2, NetstackAssumption
  <2>2. cpc' \in [Closers -> {"idle", "wait", "events", "ep", "returned"}]
    BY <1>1 DEF NInv, TypeOK
  <2>3. QED
    BY <1>1, <1>2, <2>1, <2>2 DEF NInv, TypeOK
<1>5. (NotifyCount /\ Numbered /\ TakenFirst)'
  BY <1>1, <1>2, <1>3 DEF NInv, NotifyCount, Numbered, TakenFirst
<1>6. (ViewShape /\ QueueOrder /\ TakenOnce)'
  BY <1>1, <1>2 DEF NInv, ViewShape, QueueOrder, TakenOnce
<1>7. QED
  BY <1>4, <1>5, <1>6 DEF NInv

\* The steps of readers, of Close up to the endpoint, and of the events.
LEMMA OtherSteps ==
  ASSUME NInv,
         \/ \E r \in Readers : BeginRead(r) \/ ReadClosed(r)
         \/ \E t \in Closers : BeginClose(t) \/ AnnounceDown(t) \/ CloseReturns(t)
         \/ SendDown \/ ReadEvent \/ UNCHANGED vars
  PROVE  NInv'
<1>1. UNCHANGED <<queue, qOpen, sent, wpc, view, got>>
  BY DEF BeginRead, ReadClosed, BeginClose, AnnounceDown, CloseReturns, SendDown, ReadEvent, vars, packetVars
<1>2. PacketInv'
  BY <1>1, PacketsKept
<1>3. TypeOK'
  <2>1. TypeOK /\ queue' = queue
    BY <1>1 DEF NInv
  <2>2. CASE \E r \in Readers : BeginRead(r) \/ ReadClosed(r)
    BY <2>1, <2>2 DEF TypeOK, BeginRead, ReadClosed, eventVars, closeVars
  <2>3. CASE \E t \in Closers : BeginClose(t) \/ AnnounceDown(t) \/ CloseReturns(t)
    BY <2>1, <2>3 DEF TypeOK, BeginClose, AnnounceDown, CloseReturns, packetVars, eventVars
  <2>4. CASE SendDown
    <3>1. events' \in Seq({"up", "down"}) /\ Len(events') <= 1 /\ down' = FALSE
      BY <2>4 DEF SendDown
    <3>2. UNCHANGED <<queue, qOpen, sent, wpc, view, rpc, got, log, done, once, cpc>>
      BY <2>4 DEF SendDown, packetVars, closeVars
    <3>3. QED
      BY <2>1, <3>1, <3>2 DEF TypeOK
  <2>5. CASE ReadEvent
    <3>1. /\ events' \in Seq({"up", "down"}) /\ Len(events') <= 1
          /\ log' \in Seq({"up", "down"})
      BY <2>1, <2>5 DEF TypeOK, ReadEvent
    <3>2. QED
      BY <2>1, <2>5, <3>1 DEF TypeOK, ReadEvent, packetVars, closeVars
  <2>6. CASE UNCHANGED vars
    BY <2>1, <2>6 DEF TypeOK, vars, packetVars, eventVars, closeVars
  <2>7. QED
    BY <2>2, <2>3, <2>4, <2>5, <2>6
<1>4. QED
  BY <1>2, <1>3 DEF NInv, PacketInv
-----------------------------------------------------------------------------
\* Every step keeps the invariant.
LEMMA NetstackStep == ASSUME NInv, [Next]_vars PROVE NInv'
<1>1. CASE \E w \in Writers : Enqueue(w) \/ Lose(w) \/ WriterStep(w)
  BY <1>1, EnqueueStep, LoseStep, TakeStep, SendGivesUpStep, PassStep DEF WriterStep
<1>2. CASE \E t \in Closers : CloseEndpoint(t)
  BY <1>2, CloseEndpointStep
<1>3. QED
  BY <1>1, <1>2, OtherSteps DEF Next, CloserStep

\* The invariant holds always.
LEMMA NetstackInvariant == Spec => []NInv
BY NetstackInit, NetstackStep, PTL DEF Spec

\* The state of the endpoint, of the goroutines and of the events keeps its types.
THEOREM NetstackTypeCorrect == Spec => []TypeOK
<1>1. NInv => TypeOK
  BY DEF NInv
<1>2. QED
  BY <1>1, NetstackInvariant, PTL

\* netstack.go, WriteNotify: while the endpoint is open there are as many writers on
\* their way to the queue as packets in it, so no packet waits for a notification that
\* is over.
THEOREM NothingStuck == Spec => []NoStuckPacket
<1>1. NInv => NoStuckPacket
  BY DEF NInv, NotifyCount, NoStuckPacket, Notifying
<1>2. QED
  BY <1>1, NetstackInvariant, PTL

\* netstack.go, Read: a packet is never in two of the queue, the hands of the writers and
\* what was read, nor twice in one of them.
THEOREM NothingDoubled == Spec => []NoDuplicate
<1>1. NInv => NoDuplicate
  <2> SUFFICES ASSUME NInv PROVE NoDuplicate
    OBVIOUS
  <2>1. got \in Seq(Packets) /\ queue \in Seq(Packets)
    BY DEF NInv, TypeOK
  <2>2. \A e \in Packets : ~(Taken(e) /\ Contains(queue, e))
    <3> SUFFICES ASSUME NEW e \in Packets, Taken(e), Contains(queue, e) PROVE FALSE
      OBVIOUS
    <3>1. e[2] \in Nat
      BY DEF Packets
    <3>2. e[2] < e[2]
      BY DEF NInv, TakenFirst
    <3>3. QED
      BY <3>1, <3>2
  <2>3. \A i, j \in 1..Len(queue) : queue[i] = queue[j] => i = j
    <3> SUFFICES ASSUME NEW i \in 1..Len(queue), NEW j \in 1..Len(queue), queue[i] = queue[j], i < j
                 PROVE  FALSE
      BY <2>1
    <3>1. queue[i] \in Packets /\ queue[i][2] \in Nat
      BY <2>1 DEF Packets
    <3>2. queue[i][2] < queue[j][2]
      BY DEF NInv, QueueOrder
    <3>3. QED
      BY <3>1, <3>2
  <2> DEFINE all == got \o queue
  <2>4. /\ all \in Seq(Packets) /\ DOMAIN all = 1..(Len(got) + Len(queue))
        /\ Len(all) = Len(got) + Len(queue)
        /\ \A i \in 1..Len(got) : all[i] = got[i]
        /\ \A i \in 1..Len(all) : i \notin 1..Len(got) =>
               i - Len(got) \in 1..Len(queue) /\ all[i] = queue[i - Len(got)]
    BY <2>1
  <2>5. ASSUME NEW i \in 1..Len(all), NEW j \in 1..Len(all), all[i] = all[j] PROVE i = j
    <3>1. CASE i \in 1..Len(got) /\ j \in 1..Len(got)
      BY <2>4, <2>5, <3>1 DEF NInv, TakenOnce
    <3>2. CASE i \notin 1..Len(got) /\ j \notin 1..Len(got)
      BY <2>1, <2>3, <2>4, <2>5, <3>2
    <3>3. ASSUME NEW k \in 1..Len(got), NEW l \in 1..Len(queue), got[k] = queue[l] PROVE FALSE
      <4>1. queue[l] \in Packets /\ Contains(queue, queue[l]) /\ Contains(got, queue[l])
        BY <2>1, <3>3 DEF Contains
      <4>2. QED
        BY <2>2, <4>1 DEF Taken
    <3>4. QED
      BY <2>4, <2>5, <3>1, <3>2, <3>3
  <2>6. IsInjective(all)
    BY <2>4, <2>5 DEF IsInjective
  <2>7. ASSUME NEW w \in Writers, view[w] # Nobody, Contains(all, view[w]) PROVE FALSE
    <3>1. view[w] \in Packets /\ Taken(view[w]) /\ ~Contains(got, view[w])
      BY <2>7 DEF NInv, TypeOK, TakenOnce, Taken
    <3>2. PICK i \in 1..Len(all) : all[i] = view[w]
      BY <2>7 DEF Contains
    <3>3. Contains(got, view[w]) \/ Contains(queue, view[w])
      BY <2>4, <3>2 DEF Contains
    <3>4. QED
      BY <2>2, <3>1, <3>3
  <2>8. QED
    BY <2>6, <2>7 DEF NInv, TakenOnce, NoDuplicate
<1>2. QED
  BY <1>1, NetstackInvariant, PTL

\* netstack.go, WriteNotify takes the head: when Read has returned a packet, no older one
\* of its writer is left in the queue, however many writers race.
THEOREM QueueKeepsFlows == Spec => []FlowOrder
<1>1. NInv => FlowOrder
  <2> SUFFICES ASSUME NInv, NEW w \in Writers, NEW m \in 1..Count, NEW n \in 1..Count,
                      m < n, Contains(got, <<w, n>>), Contains(queue, <<w, m>>)
               PROVE  FALSE
    BY DEF FlowOrder
  <2>1. <<w, m>> \in Packets /\ <<w, n>> \in Packets
    <3>1. got \in Seq(Packets) /\ queue \in Seq(Packets)
      BY DEF NInv, TypeOK
    <3>2. PICK i \in 1..Len(got), j \in 1..Len(queue) : got[i] = <<w, n>> /\ queue[j] = <<w, m>>
      BY DEF Contains
    <3>3. got[i] \in Packets /\ queue[j] \in Packets
      BY <3>1
    <3>4. QED
      BY <3>2, <3>3, Zenon
  <2>2. n < m
    BY <2>1 DEF NInv, TakenFirst, Taken
  <2>3. QED
    BY <2>2, NetstackAssumption
<1>2. QED
  BY <1>1, NetstackInvariant, PTL
=============================================================================
