------------------------------ MODULE Netstack ------------------------------
(***************************************************************************)
(* pkg/wg/netstack.go: outgoing packets from gVisor's channel.Endpoint to  *)
(* the Read of wireguard-go, the Close of the device and its events.  Each *)
(* writer is a goroutine of the network stack: it puts a packet into the   *)
(* queue of the endpoint and then runs WriteNotify itself, which takes the *)
(* packet at the head of the queue, not always its own, to a reader.       *)
(***************************************************************************)
EXTENDS Naturals, Sequences, FiniteSets, SequencesExt

CONSTANTS
    Writers,    \* goroutines of the stack that send packets
    Readers,    \* goroutines that call Read
    Closers,    \* goroutines that call Close
    Size,       \* channelSize
    Count,      \* bound: the packets of one writer
    Quota,      \* bound: Quota[w] is how many of them w sends
    Nobody      \* no packet

\* The n-th packet of w is <<w, n>>.
Packets == {p \in Writers \X (1..Count) : p[2] <= Quota[p[1]]}

ASSUME NetstackAssumption == /\ Size \in Nat \ {0}
                             /\ Count \in Nat
                             /\ Quota \in [Writers -> 0..Count]
                             /\ Nobody \notin Packets

VARIABLES
    queue,      \* the queue of the endpoint
    qOpen,      \* the endpoint is not closed
    sent,       \* sent[w]: the packets w has tried to send
    wpc,        \* wpc[w]: "idle", "notify" or "send"
    view,       \* view[w]: the packet w took from the queue, while it sends
    rpc,        \* rpc[r]: "idle" or "read"
    got,        \* the packets returned by Read, in order
    done,       \* the channel done is closed
    once,       \* the sync.Once: "new", "run" or "over"
    cpc,        \* cpc[t]: "idle", "wait", "events", "ep" or "returned"
    events,     \* the buffer of the channel events
    down,       \* the goroutine that sends EventDown is waiting
    log         \* the events read

packetVars == <<queue, qOpen, sent, wpc, view, rpc, got>>
eventVars == <<events, down, log>>
closeVars == <<done, once, cpc>>
vars == <<packetVars, eventVars, closeVars>>

TypeOK == /\ queue \in Seq(Packets) /\ Len(queue) <= Size
          /\ qOpen \in BOOLEAN
          /\ sent \in [Writers -> 0..Count]
          /\ wpc \in [Writers -> {"idle", "notify", "send"}]
          /\ view \in [Writers -> Packets \cup {Nobody}]
          /\ rpc \in [Readers -> {"idle", "read"}]
          /\ got \in Seq(Packets)
          /\ done \in BOOLEAN
          /\ once \in {"new", "run", "over"}
          /\ cpc \in [Closers -> {"idle", "wait", "events", "ep", "returned"}]
          /\ events \in Seq({"up", "down"}) /\ Len(events) <= 1
          /\ down \in BOOLEAN
          /\ log \in Seq({"up", "down"})

\* NewNetstack
Init == /\ queue = <<>>
        /\ qOpen = TRUE
        /\ sent = [w \in Writers |-> 0]
        /\ wpc = [w \in Writers |-> "idle"]
        /\ view = [w \in Writers |-> Nobody]
        /\ rpc = [r \in Readers |-> "idle"]
        /\ got = <<>>
        /\ done = FALSE
        /\ once = "new"
        /\ cpc = [t \in Closers |-> "idle"]
        /\ events = <<"up">>
        /\ down = FALSE
        /\ log = <<>>
-----------------------------------------------------------------------------
(* The endpoint, as gVisor implements it *)

\* A packet is queued, and its writer is about to notify.
Enqueue(w) ==
    /\ wpc[w] = "idle"
    /\ sent[w] < Quota[w]
    /\ qOpen
    /\ Len(queue) < Size
    /\ sent' = [sent EXCEPT ![w] = @ + 1]
    /\ queue' = Append(queue, <<w, sent'[w]>>)
    /\ wpc' = [wpc EXCEPT ![w] = "notify"]
    /\ UNCHANGED <<qOpen, view, rpc, got, eventVars, closeVars>>

\* The queue is full or closed: the packet is lost, nobody is notified.
Lose(w) ==
    /\ wpc[w] = "idle"
    /\ sent[w] < Quota[w]
    /\ ~qOpen \/ Len(queue) = Size
    /\ sent' = [sent EXCEPT ![w] = @ + 1]
    /\ UNCHANGED <<queue, qOpen, wpc, view, rpc, got, eventVars, closeVars>>
-----------------------------------------------------------------------------
(* WriteNotify *)

\* mutant: WriteNotify looks at the reader first, and leaves the packet if there is none
TakeIfRead(w) ==
    /\ wpc[w] = "notify"
    /\ IF queue = <<>> \/ \A r \in Readers : rpc[r] = "idle"
       THEN wpc' = [wpc EXCEPT ![w] = "idle"] /\ UNCHANGED <<queue, view>>
       ELSE /\ view' = [view EXCEPT ![w] = Head(queue)]
            /\ queue' = Tail(queue)
            /\ wpc' = [wpc EXCEPT ![w] = "send"]
    /\ UNCHANGED <<qOpen, sent, rpc, got, eventVars, closeVars>>

\* mutant: the newest packet of the queue is taken first
TakeNewest(w) ==
    /\ wpc[w] = "notify"
    /\ IF queue = <<>>
       THEN wpc' = [wpc EXCEPT ![w] = "idle"] /\ UNCHANGED <<queue, view>>
       ELSE /\ view' = [view EXCEPT ![w] = Last(queue)]
            /\ queue' = Front(queue)
            /\ wpc' = [wpc EXCEPT ![w] = "send"]
    /\ UNCHANGED <<qOpen, sent, rpc, got, eventVars, closeVars>>

\* mutant: the packet is looked at, not taken
TakePeeks(w) ==
    /\ wpc[w] = "notify"
    /\ IF queue = <<>>
       THEN wpc' = [wpc EXCEPT ![w] = "idle"] /\ UNCHANGED <<queue, view>>
       ELSE /\ view' = [view EXCEPT ![w] = Head(queue)]
            /\ queue' = queue
            /\ wpc' = [wpc EXCEPT ![w] = "send"]
    /\ UNCHANGED <<qOpen, sent, rpc, got, eventVars, closeVars>>

\* ep.Read: the head of the queue, or nil if a Close has drained it.
Take(w) ==
    /\ wpc[w] = "notify"
    /\ IF queue = <<>>
       THEN wpc' = [wpc EXCEPT ![w] = "idle"] /\ UNCHANGED <<queue, view>>
       ELSE /\ view' = [view EXCEPT ![w] = Head(queue)]
            /\ queue' = Tail(queue)
            /\ wpc' = [wpc EXCEPT ![w] = "send"]
    /\ UNCHANGED <<qOpen, sent, rpc, got, eventVars, closeVars>>

\* case <-w.done: the packet is dropped.
SendGivesUp(w) ==
    /\ wpc[w] = "send"
    /\ done
    /\ wpc' = [wpc EXCEPT ![w] = "idle"]
    /\ view' = [view EXCEPT ![w] = Nobody]
    /\ UNCHANGED <<queue, qOpen, sent, rpc, got, eventVars, closeVars>>

\* case w.read <- view, with case p := <-d.read of the Read of r.
Pass(w, r) ==
    /\ wpc[w] = "send"
    /\ rpc[r] = "read"
    /\ got' = Append(got, view[w])
    /\ wpc' = [wpc EXCEPT ![w] = "idle"]
    /\ view' = [view EXCEPT ![w] = Nobody]
    /\ rpc' = [rpc EXCEPT ![r] = "idle"]
    /\ UNCHANGED <<queue, qOpen, sent, eventVars, closeVars>>
-----------------------------------------------------------------------------
(* Read *)

BeginRead(r) ==
    /\ rpc[r] = "idle"
    /\ rpc' = [rpc EXCEPT ![r] = "read"]
    /\ UNCHANGED <<queue, qOpen, sent, wpc, view, got, eventVars, closeVars>>

\* mutant: no case <-d.done, Read only waits for a packet
ReadForever(r) == FALSE

\* case <-d.done: os.ErrClosed
ReadClosed(r) ==
    /\ rpc[r] = "read"
    /\ done
    /\ rpc' = [rpc EXCEPT ![r] = "idle"]
    /\ UNCHANGED <<queue, qOpen, sent, wpc, view, got, eventVars, closeVars>>
-----------------------------------------------------------------------------
(* Close *)

\* d.close.Do: the first call runs the function, the others wait for it.
BeginClose(t) ==
    /\ cpc[t] = "idle"
    /\ IF once = "new"
       THEN once' = "run" /\ done' = TRUE /\ cpc' = [cpc EXCEPT ![t] = "events"]
       ELSE UNCHANGED <<once, done>> /\ cpc' = [cpc EXCEPT ![t] = "wait"]
    /\ UNCHANGED <<packetVars, eventVars>>

\* mutant: Close sends EventDown itself
AnnounceDownWaits(t) ==
    /\ cpc[t] = "events"
    /\ events = <<>>
    /\ events' = <<"down">>
    /\ cpc' = [cpc EXCEPT ![t] = "ep"]
    /\ UNCHANGED <<packetVars, down, log, done, once>>

\* go func() { d.events <- tun.EventDown }()
AnnounceDown(t) ==
    /\ cpc[t] = "events"
    /\ down' = TRUE
    /\ cpc' = [cpc EXCEPT ![t] = "ep"]
    /\ UNCHANGED <<packetVars, events, log, done, once>>

\* d.ep.Close: the queue is closed and drained; d.ep.Wait waits for nothing.
CloseEndpoint(t) ==
    /\ cpc[t] = "ep"
    /\ qOpen' = FALSE
    /\ queue' = <<>>
    /\ once' = "over"
    /\ cpc' = [cpc EXCEPT ![t] = "returned"]
    /\ UNCHANGED <<sent, wpc, view, rpc, got, eventVars, done>>

CloseReturns(t) ==
    /\ cpc[t] = "wait"
    /\ once = "over"
    /\ cpc' = [cpc EXCEPT ![t] = "returned"]
    /\ UNCHANGED <<packetVars, eventVars, done, once>>

\* mutant: the event is added whatever the channel holds
SendDownUnbounded ==
    /\ down
    /\ events' = Append(events, "down")
    /\ down' = FALSE
    /\ UNCHANGED <<packetVars, log, closeVars>>

\* The goroutine of AnnounceDown finds room in the channel.
SendDown ==
    /\ down
    /\ events = <<>>
    /\ events' = <<"down">>
    /\ down' = FALSE
    /\ UNCHANGED <<packetVars, log, closeVars>>

\* The reader of Events, a goroutine of wireguard-go.
ReadEvent ==
    /\ events # <<>>
    /\ log' = Append(log, Head(events))
    /\ events' = Tail(events)
    /\ UNCHANGED <<packetVars, down, closeVars>>
-----------------------------------------------------------------------------
WriterStep(w) == Take(w) \/ SendGivesUp(w) \/ \E r \in Readers : Pass(w, r)
CloserStep(t) == AnnounceDown(t) \/ CloseEndpoint(t) \/ CloseReturns(t)

Next == \/ \E w \in Writers : Enqueue(w) \/ Lose(w) \/ WriterStep(w)
        \/ \E r \in Readers : BeginRead(r) \/ ReadClosed(r)
        \/ \E t \in Closers : BeginClose(t) \/ CloserStep(t)
        \/ SendDown
        \/ ReadEvent

Spec == Init /\ [][Next]_vars

\* Goroutines that can run do run.  Nobody need write, close or read events.
FairSpec == /\ Spec
            /\ \A w \in Writers : WF_vars(WriterStep(w))
            /\ \A r \in Readers : WF_vars(ReadClosed(r))
            /\ \A t \in Closers : WF_vars(CloserStep(t))
            /\ WF_vars(SendDown)

\* RoutineReadFromTUN of wireguard-go calls Read again and again.
Reading == \A r \in Readers : WF_vars(BeginRead(r))
-----------------------------------------------------------------------------
(* Properties *)

\* No packet is stuck: the queue holds as many packets as there are writers on
\* their way to take one, so that none waits for a notification that came already.
NoStuckPacket == qOpen => Len(queue) = Cardinality({w \in Writers : wpc[w] = "notify"})

\* No packet is duplicated between the queue, the writers and Read.
NoDuplicate == /\ IsInjective(got \o queue)
               /\ \A w \in Writers : view[w] # Nobody =>
                      /\ ~Contains(got \o queue, view[w])
                      /\ \A v \in Writers \ {w} : view[v] # view[w]

\* Packets change places only while writers hold them: when Read has returned a
\* packet, no older one of the same flow is still in the queue.
FlowOrder == \A w \in Writers, m, n \in 1..Count :
    m < n /\ Contains(got, <<w, n>>) =>
        ~Contains(queue, <<w, m>>)

\* Under FairSpec, Close returns to every caller, even if nobody reads events; it ends
\* every WriteNotify, and every Read under way at the close or begun after it.
CloseUnblocks ==
    /\ \A t \in Closers : cpc[t] # "idle" ~>
          /\ cpc[t] = "returned"
          /\ \A w \in Writers : wpc[w] = "idle"
          /\ ~qOpen
    /\ \A r \in Readers : done /\ rpc[r] = "read" ~> rpc[r] = "idle"

\* Under FairSpec, with readers that keep reading, every packet that found room in
\* the queue is read, unless the device is closed.
PacketArrives == Reading => \A p \in Packets :
    Contains(queue, p) ~> Contains(got, p) \/ done
=============================================================================
