# point-c: specifications, model checking and proofs

point-c is a set of Caddy modules that let a Caddy server listen in, and forward to, userland
WireGuard networks. This directory holds TLA+ modules of its concurrent core, of the life of a
configuration and of the texts it is made of, TLC configurations that check them on small instances,
and TLAPS proofs of what matters most in them. Source files are named relative to the repository, or
by their last part where that is enough.

    tlc -workers 2 -config MCMultiWrapper.cfg MCMultiWrapper.tla
    tlapm ListenerProofs.tla

`PROJECT.json` lists, for machines, the components, the runs, the mutant that each
property detects, the source lines of each definition, the hazards and the theorems.

## 1. The system

| Component | Source | State | Operations | Talks to |
|---|---|---|---|---|
| Channel listener | `pkg/channel-listener` | `closeErr` (atomic pointer), `done` (channel), the input channel | `Accept`, `Close`, `CloseWithErr`, `Done`, `Addr` | goroutines of the wrapper and the server, through two channels |
| Stub listener | `stub-listener.go` | a channel listener nobody feeds | `Listen` of the network `stub` | Caddy |
| MultiWrapper | `merge-listener-wrapper.go` | `listeners`, `conns`, one `listen` goroutine per listener and wrap | `Provision`, `WrapListener`, `Cleanup`, `UnmarshalCaddyfile` | channel listener (calls, `Done`, `conns`), loaded listeners, Caddy |
| point-c listener | `listener.go` | one `net.Listener` of a network | `UnmarshalCaddyfile`, `Provision`, `Accept`, `Close` | point-c app (`Lookup`), network |
| Forwards app | `forward.go` | `forwarders`, the stack `stop`, a context per forwarder and per connection | `Start`, `Stop`, `Cleanup`, `Provision`, accept loops, tunnels | host sockets, point-c app, networks |
| point-c app | `point-c.go` | `networks`, the map `net` | `Provision`, `Lookup`, `Start`, `Stop` | network modules |
| WireGuard networks | `module/networks/wg` | the map `nets`, a `*wg.Wireguard`, a `*wg.Net` | `Provision`, `Networks`, `Cleanup`, dial and listen | WireGuard lifecycle, netstack |
| WireGuard lifecycle | `pkg/wg/connection.go`, `options.go` | list of closer functions, atomic `close` | options, `New`, `Close`, `GetConfig`, `SetConfig` | wireguard-go, netstack |
| Netstack | `pkg/wg/netstack.go` | the queue of gVisor's endpoint, channels `read`, `done`, `events`, a `sync.Once` | `WriteNotify`, `Read`, `Write`, `Close`, `Events` | gVisor (callback), wireguard-go |
| IPC text | `pkg/wg/wgapi` | a buffer being scanned | `IPCGet`, parsers and printers of values | wireguard-go |
| Configurations | `pkg/wg/wgapi/wgconfig` | client and server settings | `GenerateConfigPair`, `AddPeer`, `WGConfig` | IPC text |
| Loggers and events | `pkg/wg/wglog` | none | `Multi`, `Async`, the dispatch to events | wireguard-go |
| Configuration values | `pkg/configvalues`, `module/networks/wg/wgkey.go` | the value and its text | text and JSON (un)marshalling | every module with settings |
| Caddyfile unmarshaler | `module/internal/unmarshaler.go` | the app being resumed | `Unmarshal` | Caddy |

What is hard in it:

- **Concurrency.** A channel listener is closed by whoever is first among the
  server, the `listen` goroutines and its own `Accept`. A connection on its way is
  claimed at once by `done`, an `Accept` and the end of the module. `WriteNotify` runs
  on the goroutine that sends the packet, and takes whichever packet is first.
- **Order.** Contexts are cancelled before, while and after sockets are opened under
  them. `cleanUp` calls the closers first to last, `Close` last to first.
- **Texts.** The lines of a configuration are read in order by a device that keeps what they
  do not replace; the blocks of a Caddyfile go through JSON one after the other; 84 formats are
  told apart by a generated switch that repeats what the structs of the events say.
- **Partial failure.** One source of several fails, the second of three forwarders
  cannot listen, the last option of `New` fails, an interface does not come up.
- **Waiting.** Unbuffered channels, an event channel with room for one, copies that
  end only because somebody closes their sockets.

What makes each part correct:

- *Channel listener*: it is closed once and for one reason; everybody who fails in
  `Accept` learns that reason; nobody waits for ever on a closed listener; no
  connection is returned twice.
- *MultiWrapper*: a connection is always delivered, closed or in exactly one
  goroutine's hands; a failing source is reported; `Cleanup` closes all it was given.
- *Forwards*: what was started will be stopped, from any point; the end of one
  connection does not touch another; no socket outlives its context.
- *WireGuard lifecycle*: what `New` opens is closed, after a failure or by `Close`;
  each closer runs once, from the top of the stack down.
- *Netstack*: no packet is lost between queue and `Read`, none is duplicated, only writers
  reorder, and `Close` wakes every `WriteNotify` and every `Read`.
- *Networks and the apps*: a name leads to one network, the one that declared it; a
  configuration that runs forwards the pairs that were written; however a configuration
  ends, nothing it provisioned stays open.
- *Configurations and IPC text*: client and server of one pair can speak to each other, whatever
  their devices were configured with before; what a device says is read as it is.
- *Loggers and events*: each call is recognised as what it is, and reaches every logger.

## 2. Modules

    AcceptPort            abstract: what a listener promises its callers
       ^ implemented by
    ChannelListener  <--- EXTENDS --- MultiWrapper  <--- ListenerProofs
    Forwards  <--- ForwardsProofs
    Wireguard  <--- WireguardProofs      Netstack  <--- NetstackProofs

    ConfigValues  <--- Caddyfile  <--- Load  ---> Networks
                                        ^
                                     LoadProofs    ---> SequenceLemmas
    WgApi  <--- WgPair  <---------- WgPairProofs   ---> SequenceLemmas
    WgEvents  <--- WgLog  <--- WgLogProofs

`MC<module>.tla` and the `.cfg` files give the constants their values.

**AcceptPort** is the abstract specification. A port is open until it is closed, for one
reason. A caller inside Accept leaves with a connection nobody else has got, or
with the reason of its port. It has neither locks nor channels, and no rule for which
of the two a caller gets when both are possible.

**ChannelListener** has any number of Listeners that read one channel (as those of a
MultiWrapper do) and any number of goroutines. `closeErr` and `done` are the fields; `pc`,
`ln`, `arg`, `back`, `res` are the stack frame of a call. Each atomic or channel operation
is one step: `SwapWon`/`SwapLost` are the `CompareAndSwap`, `Signal` is `close(d.done)`,
`AcceptDone`, `AcceptConn` and `AcceptDrained` the cases of the select, `LoadErr` the load
of the error. `back` says whether `CloseWithErr` was called from within `Accept`. A
connection is `new`, `offered` while its sender is blocked, `taken` or `dropped`.

**MultiWrapper** EXTENDS it with the module's life (`Provision`, `ProvisionFails`,
`WrapListener`, `CleanupClose`, `CleanupReset`), one `listen` goroutine per pair of a wrapped
listener and a source, and the server. `SourceAccept` and `SourceFails` are the two results of
`ls.Accept`; `DropHeld` and `Receive` the cases of the select; `Finish` and `Exit` the call of
`finish` and the return. A goroutine of `listen` is a thread of ChannelListener when
it is inside `finish`, and `Receive` is the rendezvous of one goroutine's send with
another's `Accept`. The sources are external: an open one may fail, a closed one fails
with `net.ErrClosed`, and the `Close` of one may fail, which leaves it as it is (`stuck`).

**Forwards** models `Start` one forwarder at a time, `stopAll` one function at a time (the slice
`stop` is a sequence of functions to call, reversed as the code does), the accept loops, and for
each connection its goroutine, its two sockets with their `AfterFunc`s and its two copies. Contexts
are a tree: `root`, `fctx`, `cctx`; one is done when it or one above it was cancelled. Dialing may
succeed after the cancellation. A copy is in `Read`, or in `Write` with bytes for the other side
(`writing`, between `CopyReads` and `CopyWrites`), where it stays as long as the far end takes none.
`CopyReturns` says what each of the two sees: in `Read` the end of its side or a closed socket, in
`Write` only that the socket it writes to is closed, never the end of its own side; `WriteFails` is
a far end that breaks off. What the bytes are is left out; `eof` is the end of a stream or its
failure.

**Wireguard** models `New` with every list of options of `OptionLists`, the list of closers by
name, `cleanUp`, and `Close` by several goroutines. Resources are netstacks, the bind and the
device; a call of a closer may fail; closing wireguard-go's device also closes its tun and
its bind. `CloseLoses` reads `err` through the pointer while the winner writes it, a data
race: the model lets it see any part of what was joined so far.

**Netstack** models the way out of the stack: `Enqueue`, or `Lose` when the queue is full or
closed, `Take` (`ep.Read`), the select of `WriteNotify` (`Pass`, `SendGivesUp`), `Read` (`BeginRead`,
`ReadClosed`), `Close` with its `sync.Once`, and the event channel.

**Networks** models `Provision` of the network modules and of the app, name by name, up to
`Lookup`. `status` becomes `crashed` where `Provision` of a network fails: Caddy then calls its
`Cleanup`, which calls `Close` on a nil `*Wireguard`.

**ConfigValues** and **Caddyfile** are operators: what a `CaddyTextUnmarshaler` makes of a text, in
text and in JSON, the parts of a port pair, the tokens that the loops over `NextBlock` and
`NextArg` use, the further directives that the loops over `Next` take from a line (`forward a b c {...}` is the
network `a` without a pair and the network `c` with those of the block; two names are an error),
and `Unmarshaler`, which resumes an app from the JSON of its earlier blocks.
Results are sets, empty for an error. Texts are names; which of them are numbers, addresses,
placeholders and JSON, and as what they are read, is said by constants.

**Load** EXTENDS both and Networks: the life of one configuration. `Adapt` unmarshals block after
block; `Provision` takes the apps in any order, and `LoadPointc` runs as soon as one of them asks
for the networks; `ProvisionForwards`, `ProvisionListener`, `ProvisionMulti` are the `Provision` of
the modules; `Start`, `Stop` and the Cleanups follow, with a failure at each step that may fail.
`ParseNetworkAddress` is what becomes of host and port when `tcpForwarder` joins them with a colon
and Caddy parses the text again: all colons belong to an IPv6 host that has no brackets, the last
one too. Whether that is then refused depends on the version of Caddy, so it may be (`Refusable`).
`dirty` is what Caddy remembers to clean up. A wrapper is here the set of its open listeners, its
goroutines are those of MultiWrapper; a forwarder is its settings, what it does is in Forwards. The
listener modules are taken to be found where Caddy looks for them (see Findings).

**WgApi** holds the values of wgapi (their texts, `IPC.WGConfig`, the parsers by key, `Value` on one
reply) and wgconfig (`Client`, `Server`, `AddPeer`, `GenerateConfigPair`). Keys are numbered; an
address is its version and a name; an integer is printed with the width of an `int` (`numString`)
and parsed with that of its key (`Within`).

**WgPair** composes it with devices: `Pair` and `Join` make configurations, `SetConfig` writes one,
`Line` is one line of it read by the device, `GetConfig` a get operation and its `Value`. The
device is wireguard-go's and external: a line sets a value, chooses a peer or moves an address
to it; a reply names the peers in any order, each with what was counted of it (`count`).

**WgEvents** is the table of the event types (method, level, fields, with the order of `Args`), and the
two switches with the type assertions they make on the arguments, as functions of the format that are
joined to one (`Join`). A format is its constant, and what was formatted into it before.

**WgLog** runs the loggers over it: `Log` is a call by a goroutine of wireguard-go, `RunSync`,
`RunAsync` the closures of `Multi` from the last logger to the first, `Goroutine` what `Async`
started. `Slog`, `Noop` and `Events` are kinds of loggers; a method may be nil, but for those that `Async`
wraps: it calls them without a look, and would panic.

Networks, Load and WgLog state their types too (`NetworksTypeOK`, `TypeOK`). Theorems say that they are kept;
the runs of these modules spend their properties on the hazards.

The proofs of ChannelListener and MultiWrapper are in **ListenerProofs**; those of another module *M* are in
*M*`Proofs`. **SequenceLemmas** holds what two of them need of sequences.

## 3. Runs

| Run | Instance | What it shows |
|---|---|---|
| `channel_listener` | 2 Listeners, 3 goroutines, 1 connection | `done` is closed once (no panic), a closed listener always has its error, all failing Accepts agree, the listener implements AcceptPort, and every call on a closed listener, or on a closed channel, returns |
| `multi_wrapper` | one loaded and one wrapped listener, 2 server goroutines, 2 connections | no connection leaks, failures are reported, the composition is a behavior of ChannelListener; `Cleanup` closes everything, a `Close` that fails or not; a held connection is released when its listener is closed; every goroutine ends |
| `multi_wrapper_doc` | two WrapListener calls, one loaded listener | *violation*: goroutines of a closed listener close connections while another listener of the same wrapper is open |
| `forwards` | 3 forwarders, 1 connection, far ends that finish, break off or stop taking | stop always knows what is open; the end of a connection does not end its forwarder; no socket without somebody to close it; cancelled connections are torn down, and so are tunnels with a finished end, unless what it sent is never taken at the other; stop leaves nothing behind |
| `wireguard_lifecycle` | 6 lists of options, 3 goroutines in Close | failures after the options and `Close` release all; each closer once; top down |
| `wireguard_doc` | the same | *violation*: an option that fails after a netstack was created leaks it |
| `netstack` | 3 writers, one with 2 packets, 1 reader, 2 closers, queue of 2 | as many notifications to come as packets queued, also when the queue is full and packets are lost; no duplicates; only writers reorder packets; `Close` returns, even if nobody reads events, and wakes every writer and every `Read` under way; if the readers keep reading, a queued packet is read unless the device is closed |
| `load` | 12 Caddyfiles with 6 sets of networks and 6 lists of servers; all configurations of at most 2 networks with at most 2 peers; 3 apps | a name never leads into another network; a configuration that runs has one forwarder for each word of its Caddyfile that asks for one, in order, with the ports, host and network the word stands for; whatever ends a load, its interfaces, listeners and wrappers are closed |
| `networks_doc` | the same | *violation*: after a load, peers cannot be found by their names |
| `caddyfile_doc` | the same | *violation*: port pairs in the documented form are passed over |
| `events` | every event with its arguments, and calls without the right ones, against two calls of another goroutine, the two events of a receive routine among them; a synchronous and an asynchronous events logger, a slog without `Verbosef` | a call is recognised as its event, with its arguments in their places; synchronous loggers keep the order; every call reaches every logger |
| `wgapi` | a server, 2 clients, 6 keys, 2 endpoints, an `int` of 3 bits, per peer no counts, or counts that all differ and one of them too large for an `int` | the two sides of a pair can speak to each other whatever their devices had before; a client has one server; `GetConfig` returns every peer of the device with its keys, counters and addresses, and its text is line for line that of the reply, but for the large counter |

**Why the bounds are enough.** The hazards of the concurrent part are races of two parties: two
closers of one listener, one closer against one waiting Accept, two goroutines for one connection.
The instances have one party more than that (three threads; two sources and two server goroutines
for one wrapped listener; three callers of `Close`) or a second object to confuse the first with
(two listeners, three forwarders, two connections in the wrapper). Two wrapped listeners on one
wrapper are in `multi_wrapper_doc` and, with any other number, in the proofs. The queue of 2 is full
when two of three writers have sent and none has taken yet, so the third one's packet is lost; two
packets of one writer may overtake each other. With three forwarders `Start` can fail half way with
two of them running. Connections of Forwards touch each other only through the contexts above them,
on which `Isolation` and `NoForgottenListener` are stated, so one connection is enough for liveness.
Two networks with two peers are needed for a name to clash within a network and across networks. The
Caddyfiles have a name that is a number, one that is a placeholder, `null`, one in quotes, several
blocks and pairs on a line, a UDP pair, a port out of range, an unknown protocol, two and three
names on a line, and hosts that are empty, IPv6, or IPv4 written as IPv6; the servers have none, an
empty wrapper, two wrappers, a listener on an unknown network, one with further tokens and one with
too few. Six keys make two pairs, or a pair and a further client, so that a device is configured
again, for a different partner. An `int` of 3 bits makes the counter 6 one that prints as a negative
number, as one of 2^63 or more does in the code; the other counters of its peer are smaller and
differ from one another and from the zeros of the other kind of peer. The first goroutine of
`events` makes one call of any event: the switches have no memory. The proofs remove the bounds from
the safety of the listener, the wrapper, the forwards, the life of an interface and its packets, the
names of the networks, what a load forwards and releases, the loggers and the pairs; only the
liveness remains bounded (section 5). `Quota`, the packets of each writer, at
most `Count` (Netstack `Enqueue`, `Lose`), `MaxKeys` (WgPair `Pair`, `Join`) and `MaxCalls` (WgLog `Log`) are the only bounds on
counters in a guard. Connections are used once: a set of `Conns` bounds how many there are in a run.

**Deadlock.** `CHECK_DEADLOCK FALSE` is given where the system comes to an end: a wrapper that was
cleaned up, an app that was stopped, an interface that was closed, a configuration that was loaded,
keys that are used up with all devices configured. ChannelListener is checked for deadlock: callers
may always call. So is WgLog, which says itself where it is done.

**Symmetry** is not used: the runs are small enough, and most check temporal properties.

**Fairness.** Weak fairness is given per goroutine to steps it takes by itself: the Go
scheduler runs what can run. Never fair are calls from outside (`Accept`, `Close`, `Stop`,
`Read`, `Enqueue`, `Log`), arrivals, failures and ends of remote peers. Four cases deserve a word:

- MultiWrapper: the failing `Accept` of a source is fair only when the source is closed, and
  `Cleanup` only once it has begun.
- Forwards: `Dial` is fair only when its context is cancelled (`net` and gVisor honour it), and
  returns either way; `Accept` is fair to fail only when the listener is closed; a copy is fair to
  return only when `Read` or `Write` can (`CopyReturns`), and a `Write` is not fair at all while its
  socket is open. So `TunnelEnds` has the premise that the copy of the finished side is not in one
  `Write` for ever.
- Netstack: `PacketArrives` has the premise `Reading`, that `Read` is called again and again, which is
  what `RoutineReadFromTUN` of wireguard-go does; `CloseUnblocks` does without. Events need not be read.
- WgLog: a call under way goes on to the next logger, and a goroutine of `Async` runs: none of the
  loggers blocks.

Load and WgPair have safety only, and no fairness.

## 4. Findings: where docs and code disagree

With a run that shows them:

1. `merge-listener-wrapper.go:21`: the net.Conns are aggregated "into a single net.Listener".
   Every further `WrapListener` starts goroutines on all earlier listeners, for the new
   listener; when one wrapped listener is closed, its goroutines go on taking connections
   from shared sources and close them. (`multi_wrapper_doc`, `DroppedOnlyWhenClosed`)
2. `options.go:32`: "cleanUp closes any open resources in the event of a failure." An
   option that fails makes `New` return before `cleanUp` is deferred. (`wireguard_doc`, `NoLeakOnFailure`)
3. `point-c.go:22`: "a map of a unique name to a Net tunnel". `Server.Provision` stores each
   peer under the server's name (`server.go:83`); the peers' names are unknown, and the
   server's name leads to its last peer. (`networks_doc`, `NamesResolve`)
4. `forward.go:246`: the documented block has a port pair alone on its line. `NextArg` after
   `NextBlock` (`forward.go:261`) reads the second token of a line, so such a pair is passed over
   without an error. (`caddyfile_doc`, `LonePairsConfigured`)

Read in the code while modelling it, without a run of their own; the models follow the code:

- `channel-listener.go:34`: "If the listener is closed, it returns the error used to close." The
  select does not prefer `done`; with a sender blocked on the channel, `Accept` after `Close` may
  return its connection. AcceptPort allows both.
- `events_generate.go:80` and `:83`: the texts of `FormatVerbosefStartedReceivingIncoming` and
  `FormatVerbosefStoppedReceivingIncoming` are those of each other, so the events of a receive
  routine's start and end are exchanged. WgLog names them so (`StartText`, `StopText`).
- `events.go:20`: `ParseUDPGSODisabled` ignores the arguments, as the message is formatted already. A call
  with such a format and arguments would lose them; wireguard-go makes none, nor does `Call`.
- `client-config.go:41` with `config.go:9`: `AllowAllIPs` is `0.0.0.0/0` alone, so a client with an
  IPv6 address does not connect to a server's IPv6 address. `PairConnects` is stated for IPv4.
- `server-config.go:24`: the configuration of a server has no `replace_peers`: peers of an earlier
  one stay on the device. `OnlyServer` is stated for clients.
- Module names: `listener.go:50` registers `caddy.listeners.merge.listeners.point-c` while
  `merge-listener-wrapper.go:27` loads from the namespace `caddy.listeners.multi.listeners`;
  `server.go:34` and `client.go:32` register `proxy.net.*` while `point-c.go:53` loads from `point-c.net`; and
  `client.go:11` imports `point-c/wglog/wgevents`. Networks and Load take the modules as found.
- `server.go:64`, `client.go:81`: `Cleanup` after a failed `Provision` calls `Close` on nil. Load ends
  such a configuration in `crashed`, and `AllReleased` does not speak of it.
- `merge-listener-wrapper.go:55`: when one listener module fails to load, those before it are open, and
  `Cleanup` finds `p.listeners` empty. `AllReleased` speaks of wrappers whose `Provision` succeeded.
- `parser.go:18`: `Value` drains the buffer, so a second call returns what was written since.
- `forward.go:227` and `:240`: host and port of a forwarder are joined as `h.String()+":"+src` and
  parsed again. An empty host (`:80:90`) becomes the text `<nil>`, and an IPv6 host keeps the colon
  and the port, so that the port is 0, or Caddy refuses the text. `PortsConfigured` says nothing of
  the address of a forwarder with an IPv6 host.
- `values.go:89`: an unsigned number is printed through `int`, so a counter of 2^63 or more (of 2^31
  on a 32-bit platform) becomes negative and is refused when it is parsed again. `ReadBack` leaves
  such counters out.
- `async.go:6`: a nil method of a logger that `Async` wraps panics in its goroutine, where `Multi`
  skips it. `AsyncAssumption` leaves such loggers out; the package makes none.
- `unmarshaller.go:43`: after a failed `UnmarshalText` the text is kept and the value is the old one.
- `unmarshaller.go:50`: a text that is valid JSON is saved as it is. A network named `null` is read
  back as one without a name, and one whose name has quotes in it (`` `"a"` `` in a Caddyfile) as
  one without them, so a forward block can lead into another network than it names.
  `PortsConfigured` is stated for names that JSON keeps (`NamesKept`). Other texts are quoted by
  `strconv.Quote`, which is no JSON for control characters; the model leaves these out.

## 5. Proofs

The proofs hold for any number of listeners, goroutines, sources, forwarders and connections; of
writers, readers, packets and room in the queue; for any lists of options and callers of `Close`; for any
Caddyfile, configured networks and wrappers; for any loggers, calls, clients, keys and endpoints. They
assume what the modules' ASSUMEs say of the constants, which TLC evaluates in each run:

- errors, connections and nil differ (`DistinctValues`); the goroutines of the server are not those of
  `listen`, and a listener is loaded or given to one WrapListener call, not both
  (`WrapperAssumption`); the number of forwarders is a natural number (`NAssumption`);
- the queue has room for a packet, and no packet is the empty hand of a writer (`NetstackAssumption`);
- options, configurations and loggers come in sequences of their kinds (`OptionAssumption`,
  `ConfigAssumption`, `LoggersAssumption`, `CallsAssumption`), asynchronous loggers have both
  methods (`AsyncAssumption`), and so do the blocks of a Caddyfile, their lines and tokens
  (`PlansAssumption`); numbers are numbers, neither they nor the empty text have placeholders, and
  the empty text is no IPv6 address (`TextsAssumption`);
- an `int` has bits (`IntBitsAssumption`), the server is none of its clients (`ServerAssumption`),
  and a port is a `uint16`, a count of a device a `uint64`, a time of a handshake an `int64`, and
  there is something to count (`NumbersAssumption`).

**ListenerProofs**, of ChannelListener. None of the invariants is inductive alone. That `done` is closed
once (`SignalOnce`) needs that a goroutine before `close(d.done)` set the error
(`SignalHasReason`), so that no rival can still win the swap. That the error is there when
`done` is closed (`ReasonBeforeDone`) also covers the `Accept` that closed the listener itself, and needs
to know from where the close returns (`CallShape`: only a goroutine in `CloseWithErr` has a place to
return to, only one before the swap has an error in hand). `OneReason` needs that nobody has
a result while in a call (`ResultAtEnd`). `IInv` is their conjunction with the types. `NoLostSignal`
(an error without its signal has somebody who will give it) and `DeliveredOnce` are kept by each
step that keeps `IInv`, and are proved on top; no run needs to check them again.
From `IInv` follow the theorems `TypeCorrect`, `NoDoubleClose`, `ErrorIsSet`, `SameReason`, `ReasonIsFinal`,
`CloseCompletes`, `NoDuplicate`. `Refinement` shows that ChannelListener implements AcceptPort:
the swap maps to the close of the port, the load of the error or the receive to the end of
the call, every other step to a stutter, and a goroutine waits in the port while it is in
Accept, including the close that Accept makes.

**ListenerProofs**, of MultiWrapper. `ListenerStep` shows that a step of the composition is a step of
ChannelListener or leaves it alone (under the invariant, as a `listen` goroutine may only call
`CloseWithErr` when it is not in it already); hence `ListenersImplemented`, and by `Refinement` also
`WrapperIsPort`: what WrapListener returns is a port. `WInv` adds to `IInv` the types, `NoLeakedConn`,
`FailureReported`, and two facts they need: what the frame of a goroutine looks like when it is
inside `finish` and outside it (`FinishShape`), and that the goroutines of a listener that was not
wrapped do not run (`Unstarted`). There is one lemma per group of actions. From `WInv` follow
`WrapperTypeCorrect`, `NoConnLeaks`, `FailuresReported`; `CleanupComplete` needs in addition that
what is not closed is still in the slice (`Remembered`).

**ForwardsProofs.** `NoForgottenListener` is inductive with the types: four lemmas on sequences say that
appending to `p.stop`, reversing it and taking its head lose no other function (`AddKeeps`,
`ReverseKeeps`, `TailKeeps`). `Isolation` needs that a forwarder that has not started has no loop (`NotYet`),
or its start could find a cancelled context. `NoOrphan` needs that a socket and its `AfterFunc`
do not exist before the step that opens it (`SocketShape`). `FInv` is their conjunction; one lemma
per action of the app, `ConnSteps` with a step for each action of a connection, and `ConnsKept` and
`AppKept` for what the ones leave alone of the others. Theorems: `ForwardsTypeCorrect`,
`NothingForgotten`, `ConnectionsIsolated`, `NoSocketOrphaned`.

**NetstackProofs.** `NoStuckPacket` counts: while the queue is open it holds as many packets as
there are writers before their `WriteNotify`. `NotifyCount` says so of a finite set, as a
cardinality of an infinite one means nothing: a writer may join it only by adding a packet. That no
packet is read twice needs to know where a packet may be: in the queue, in the hands of one writer,
or read (`TakenOnce`), and that those that are not yet sent are nowhere (`Numbered`). The order of a
flow is that of the queue (`QueueOrder`), and what left the queue is older than what is in it
(`TakenFirst`). From `NInv` follow `NetstackTypeCorrect`, `NothingStuck`, `NothingDoubled` and
`QueueKeepsFlows`.

**WireguardProofs.** That everything is released needs that what is open has its closer in the list
(`OpenListed`), in the part which the winner of `Close` has still to call (`Closing`), and that a
list that `New` returns ends with the device and `Down` (`CloserNames`, `NotYet`): closing the
device closes its bind and its tun, which the model takes out of `open` before their own closers
run. That each is called once needs that the names in the list differ (`Distinct`, by `CloserRoom`:
an option adds its own name) and that `cleanUp` takes out of it what it calls (`CleanUpTakes`).
`WInv` gives `WireguardTypeCorrect`, `FailureReleases`, `CloseComplete`, `ClosersCalledOnce` and
`TopDown`. That what `CloseLoses` reads is arbitrary does not matter to any of them.

**LoadProofs.** Of the networks: each answers under the one name of its configuration, with an
address of it (`OwnName`), so does each name of the merged map (`Declared`), and the networks are
loaded one after the other (`Progress`). `NoForeignNetwork` follows. `LoadPointc` makes steps of
Networks in the midst of the load, so the networks' invariant `NetInv` is kept by each step of Load
too. Of the resources: whatever is open has a module with a `Cleanup` to come, and so has whatever
may still open something (`ToClean`); a load does not end before that list is empty (`AllCleaned`).
`EverythingReleased` is what follows.

`PortsAsWritten` says that a configuration that runs has exactly the forwarders its Caddyfile asks
for. What it asks for is said of its words alone: `Asked` are those at the even places of a line
that are not of UDP, and `Meets` says of one forwarder and one word, by the parts of the word and
the last name on the line of its block, which ports, host and network the forwarder must have. None
of the operators that the code is modelled with occurs in them. The code goes block by block through
JSON, where a line with several names makes directives without pairs too, and then port by port.
`BlocksInv` is what holds after some blocks: they are valid, and the app that was saved is made of
these blocks (`Made`, kept by `AdaptMade`), the others of its directives having no pairs. Reading it
back gives these directives again (`Plain`) only if JSON keeps the names (`NamesKept`, see
Findings): the runs have Caddyfiles for which it does not. `PairMet` shows that a forwarder made of
the parsed pair meets the word, `SpotsList` and `AskedList` that the tokens the loops use stand at
the places asked for. That both ways give as many forwarders, in the same order, is a matter of
sequences that are flattened twice: those that are alike, number by number and length by length,
have their k-th elements at the same place (`FlattenAlike`), first for the ports of a block
(`BlockForwarded`), then for the directives (`AllForwarded`); and lists of words each written before
those of the next are a list in the order of writing (`FlattenLists`), so that the forwarders are
`Fulfilled` in order (`FulfilledInOrder`). `PortsInv` adds what it takes in between: all blocks are
read before an app is provisioned; the forwarders are made after point-c, whose names do not change
any more (`PointcPorts`); and no step but `ProvisionForwards` and a `Cleanup` touches them
(`OtherPorts`).

`LoadTypeCorrect` needs more than the types. A `Start` that fails half way leaves the forwarders
before the failure open, and these exist because the forwarders are numbered from one; that follows,
also for Caddyfiles whose names JSON does not keep, from what the app is saved as (`SavedPorts`):
its ports are those of the blocks, which are sequences (`LoadTypes`).

**WgLogProofs.** The order in a synchronous logger (`Ordered`) needs that what it has received is of
calls already made (`OutputsOfCalls`), and that it has the call under way only if its turn in
`Multi` is over (`HadItsTurn`): else it could get the call a second time. A goroutine of `Async`
comes from an asynchronous logger (`SpawnedByAsync`), so it does not disturb the others. Hence
`SyncInOrder`, and `LoggersTypeCorrect`.

`EventsFaithful` is about the tables. Each case of the two switches is compared, row by row, with
the event type of its format: method, fields and the types it asserts (`VerbosefFit`, `ErrorfFit`).
The fields differ from one another and have the types asserted (`Shapes`), so what a case binds and
`Args` gives back is what was logged (`EventSaid`); and every format has a case in the switch of its
method (`Cased`; that of `UDPGSODisabled` is `ParseUDPGSODisabled`), so that a call with the
arguments of its event is recognised. `OutputSaid` is the same of `Slog` and of a line. What a
logger received is `Output` of a call that was made (`LogInv`), which is all that is needed of the
state.

**WgPairProofs.** The properties speak of devices that are configured, which they are after several
steps that other hosts' steps come between. The invariant therefore speaks of a device in the midst
of its configuration: after *n* lines it is what these lines say (`ClientSoFar`, `ServerSoFar`),
whatever it had before, and the text that is left is the end of the configuration (`Rest`). The
lines are a `FlattenSeq` in the code's order; `ClientLines` and `ServerLines` say which line has
which number, seven for a client and two and three more for each peer for a server. `ConfigShape`
says what the configurations have in common: a client's last one, applied or not, and the server's
match if the server has that client's key. One lemma for each kind of line says what `IpcSet` makes
of it, `ClientStep` and `ServerStep` are the steps of the two texts, and `PairStep`, `JoinStep`,
`SetConfigStep`, `LineStep` those of the module. Theorems: `ConfigsRead` (the invariant),
`NoOtherPeer`, `PairSpeaks`.

`RepliesReadBack` says that `Value` returns what the device is, whatever configurations it had and
in whatever order it names its peers. A second invariant, `SoundInv`, is kept by each step that
keeps the first: a device holds only keys, ports, endpoints and networks that a configuration can
give (`Sound`), a line of a peer follows its public key (`Current`), and the text that is left is of
such lines. A reply of such a device is a head, one block of lines for each peer, and possibly
`errno` and a blank line. `FlattenBlocks` says where the blocks are, though their lengths differ (a
peer may have an endpoint or not, and any number of addresses), and `ReplyLine` that `Parse` accepts
each line and that it is written again as it was (`Again`), but for counters of 2^63 or more
(`Large`), which print as negative numbers. Numbers pass both ways because they are within the
widths of their keys (`Numbers`). Hence the lines of the IPC are those of the reply before the blank
one (`LinesBeforeBlank`, `WrittenAgain`), the second half of `ReadBack`. For the first, two things
could mix up the peers. The first and the last line of a peer are found by its `public_key` and by
the next one (`PeerRange`): no other line has that key (`PublicAt`), and what ends the reply falls
to the last peer but has no key a peer asks for (`PeerRead`). And the networks are written by
`IPNetString` and read by `ParseIPNet`, which is no identity: `NetAgain` says that it returns what a
configuration wrote.

**Only model-checked**: all liveness, as fairness and ENABLED are out of the prover's reach. Every
invariant and action property of the passing runs has a theorem.

No theorem can be about a module with RECURSIVE operators, and those theorems of the library that
take an operator as a parameter (induction over the naturals among them) cannot be instantiated. An
induction up to a bound is possible with a set in the place of the predicate: `SetInduction` in
**SequenceLemmas** rests on the well-foundedness of the naturals, and gives the facts about
`FlattenSeq` (`AppendsUpTo`, `AppendsOnce`, `FlattenIsLast`, `FlattenBlocks`, `FlattenThrees`,
`FlattenAlike`).

## 6. Not modelled, and the plan

Not modelled, and why:

- the event generator (a build time text generator; what it generates is WgEvents), the test
  doubles, `Addr`, the wording of messages;
- the stub listener: ChannelListener on a channel nobody sends to;
- wireguard-go, gVisor, Caddy and the sockets of the host appear as the code uses them, and are
  marked external. `Netstack.Write`, the listeners and the dialer of a network pass on to gVisor and
  keep no state here;
- of the IPC text: an `IPCGet` that is used for several replies, texts that end within a line, the
  base64 form of keys, and `fwmark`, which no configuration writes;
- of the configuration values: booleans, UDP addresses and keys, which are parsed by the libraries
  alone.

The order of the plan was that of the risk: 1 AcceptPort and ChannelListener with proofs;
2 MultiWrapper with proofs; 3 Forwards with proofs; 4 Wireguard; 5 Netstack; 6 Networks; 7 Load, the
composition of a configuration's modules; 8 WgApi; 9 WgPair; 10 ConfigValues and Caddyfile; 11 WgEvents
and WgLog. All of it is done, with theorems about every component that is modelled with a state.
