----------------------------- MODULE WgLog -----------------------------
(***************************************************************************)
(* wglog: the loggers a Wireguard is given (OptionLogger), joined by Multi *)
(* into the one logger of the device (connection.go), with Async, Slog,    *)
(* Noop and wgevents.Events among them.  The goroutines of wireguard-go    *)
(* call the device's logger; each call runs the joined loggers one after   *)
(* the other in the calling goroutine, and an asynchronous one only starts *)
(* a goroutine.                                                            *)
(***************************************************************************)
EXTENDS WgEvents, Integers

CONSTANTS Routines,  \* the goroutines of wireguard-go that log
          Loggers,   \* the loggers given to Multi, in the order of the options
          Calls,     \* Calls[r]: the calls r may make
          MaxCalls   \* MaxCalls[r]: bound on the calls of r

\* A call of the device's logger; a message that is formatted already is logged
\* without arguments.
Call == {c \in [method : {"verbosef", "errorf"},
                format : [text : STRING, filled : Seq(STRING \X Nat)],
                args : Seq(STRING \X Nat)] : c.format.filled # <<>> => c.args = <<>>}

\* A logger: what it does, whether Async wraps it and which of its two methods
\* are set; Async always sets both.
Logger == [kind : {"events", "slog", "noop"}, async : BOOLEAN,
           methods : SUBSET {"verbosef", "errorf"}]

ASSUME LoggersAssumption == Loggers \in Seq(Logger)

\* Async calls the methods of the logger it wraps when its goroutine runs, without a look
\* whether they are nil: it would panic, so it is given one that has both, as Slog, Noop
\* and wgevents.Events make.
ASSUME AsyncAssumption ==
  \A s \in DOMAIN Loggers : Loggers[s].async => Loggers[s].methods = {"verbosef", "errorf"}

ASSUME CallsAssumption == \A r \in Routines : Calls[r] \subseteq Call /\ MaxCalls[r] \in Nat

VARIABLES logged,   \* logged[r]: the calls r has made, the last one under way while at[r] > 0
          at,       \* at[r]: the index of the logger Multi runs next in the call of r
          spawned,  \* the goroutines Async started and that have not run
          got       \* got[s]: what logger s has received, in order

vars == <<logged, at, spawned, got>>

Sinks == DOMAIN Loggers

TypeOK ==
  /\ \A r \in Routines : Len(logged[r]) <= MaxCalls[r] /\ at[r] \in 0 .. Len(Loggers)
  /\ \A r \in Routines : at[r] > 0 => logged[r] # <<>>
  /\ \A p \in spawned : Loggers[p[1]].async /\ p[3] \in DOMAIN logged[p[2]]
  /\ \A s \in Sinks : got[s] # <<>> => Loggers[s].kind # "noop"

Init ==
  /\ logged = [r \in Routines |-> <<>>]
  /\ at = [r \in Routines |-> 0]
  /\ spawned = {}
  /\ got = [s \in Sinks |-> <<>>]

-----------------------------------------------------------------------------
(* What the method of a logger makes of a call, as a set of at most one    *)
(* record.                                                                 *)

\* The message a format and arguments stand for.
Message(format, args) == <<format.text, format.filled \o args>>

\* Slog writes the formatted text, no attributes.
SlogLine(c) == [name |-> "line", message |-> Message(c.format, c.args),
                level |-> IF c.method = "errorf" THEN "Error" ELSE "Debug"]

Output(s, c) ==
  CASE Loggers[s].kind = "events" ->
         IF c.method = "errorf" THEN EventsErrorf(c.format, c.args)
                                ELSE EventsVerbosef(c.format, c.args)
    [] Loggers[s].kind = "slog" -> {SlogLine(c)}
    [] OTHER -> {}

\* Logger s receives call n of r.
Receive(s, r, n) ==
  LET out == Output(s, logged[r][n])
  IN  got' = IF out = {} THEN got
             ELSE [got EXCEPT ![s] = Append(@, [from |-> r, n |-> n, what |-> CHOOSE o \in out : TRUE])]

-----------------------------------------------------------------------------
(* wireguard-go.  The receive routine logs that it has stopped after it    *)
(* logged that it started; the constants of these two texts are named the  *)
(* other way round (events_generate.go:80, 83).                            *)
StartText == Constant("StoppedReceivingIncoming")
StopText == Constant("StartedReceivingIncoming")

Logs(r, c) ==
  c.format = StopText =>
    \E i \in DOMAIN logged[r] : logged[r][i].format = StartText /\ logged[r][i].args = c.args

\* A routine calls the joined logger: Multi nests the loggers so that the last
\* of them runs first.
Log(r, c) ==
  /\ at[r] = 0
  /\ Len(logged[r]) < MaxCalls[r]
  /\ Logs(r, c)
  /\ logged' = [logged EXCEPT ![r] = Append(@, c)]
  /\ at' = [at EXCEPT ![r] = Len(Loggers)]
  /\ UNCHANGED <<spawned, got>>

\* Mutant of Skips: a logger counts only when both its methods are set.
SkipsUnlessBoth(r) == Loggers[at[r]].methods # {"verbosef", "errorf"}

\* The loggers that Multi left out, their method is nil.
Skips(r) == logged[r][Len(logged[r])].method \notin Loggers[at[r]].methods

NextLogger(r) == at' = [at EXCEPT ![r] = @ - 1]

\* Mutant of RunSync: every closure captured the same logger, the last.
RunSyncLast(r) ==
  /\ at[r] > 0
  /\ ~Loggers[at[r]].async
  /\ Receive(Len(Loggers), r, Len(logged[r]))
  /\ NextLogger(r)
  /\ UNCHANGED <<logged, spawned>>

\* A logger whose method is set runs in the routine.
RunSync(r) ==
  /\ at[r] > 0
  /\ ~Loggers[at[r]].async
  /\ IF Skips(r) THEN UNCHANGED got ELSE Receive(at[r], r, Len(logged[r]))
  /\ NextLogger(r)
  /\ UNCHANGED <<logged, spawned>>

\* Async: only a goroutine is started.
RunAsync(r) ==
  /\ at[r] > 0
  /\ Loggers[at[r]].async
  /\ spawned' = spawned \cup {<<at[r], r, Len(logged[r])>>}
  /\ NextLogger(r)
  /\ UNCHANGED <<logged, got>>

\* A goroutine of Async runs.
Goroutine(p) ==
  /\ p \in spawned
  /\ Receive(p[1], p[2], p[3])
  /\ spawned' = spawned \ {p}
  /\ UNCHANGED <<logged, at>>

Done ==
  /\ \A r \in Routines : Len(logged[r]) = MaxCalls[r] /\ at[r] = 0
  /\ spawned = {}
  /\ UNCHANGED vars

Run(r) == RunSync(r) \/ RunAsync(r)

Next ==
  \/ \E r \in Routines : \E c \in Calls[r] : Log(r, c)
  \/ \E r \in Routines : Run(r)
  \/ \E p \in spawned : Goroutine(p)
  \/ Done

Spec == Init /\ [][Next]_vars

\* Go runs every goroutine: a call under way goes on and a goroutine that was
\* started runs; nothing makes a routine log.
FairSpec ==
  /\ Spec
  /\ \A r \in Routines : WF_vars(Run(r))
  /\ \A s \in Sinks : \A r \in Routines : \A n \in 1 .. MaxCalls[r] :
       WF_vars(Goroutine(<<s, r, n>>))

-----------------------------------------------------------------------------
(* Properties.                                                             *)

\* The text a received record stands for, and whether it is an error's.
Text(o) == IF o.name = "line" THEN o.message ELSE Message(Format(o), Args(o))
Level(o) == IF o.name = "line" THEN o.level ELSE SlogLevel(o)

\* A call with the arguments that the struct of its event has.
Declared(c) ==
  /\ c.format.filled = <<>> /\ c.format.text \in Formats
  /\ LET type == EventTypes[c.format.text]
     IN  /\ type.method = c.method
         /\ Len(c.args) = Len(type.fields)
         /\ \A i \in DOMAIN c.args : Asserts(c.args[i], FieldType[type.fields[i]])

\* What a logger received says what was logged: the format and arguments of the
\* event, read back through the event's methods, are those of the call; it is
\* an error's, and printed as one, when Errorf was called; and a call that has
\* the arguments of its event is recognised (the two switches against the
\* structs and their Args).
Faithful ==
  \A s \in Sinks : \A i \in DOMAIN got[s] :
    LET g == got[s][i]
        c == logged[g.from][g.n]
    IN  /\ Text(g.what) = Message(c.format, c.args)
        /\ c.method = "errorf" => Level(g.what) = "Error"
        /\ g.what.name # "line" =>
             /\ IsErrorf(g.what) = (c.method = "errorf")
             /\ Declared(c) => g.what.name = c.format.text

\* A synchronous logger receives the calls of a routine in the order they were
\* made, each once, whatever the loggers around it do (the closures of Multi).
InOrder ==
  \A s \in Sinks : ~Loggers[s].async =>
    \A i, j \in DOMAIN got[s] :
      i < j /\ got[s][i].from = got[s][j].from => got[s][i].n < got[s][j].n

\* Logger s has something to do for call n of r.
Due(s, r, n) ==
  /\ n \in DOMAIN logged[r]
  /\ logged[r][n].method \in Loggers[s].methods
  /\ Loggers[s].kind # "noop"
  /\ Loggers[s].kind = "events" => logged[r][n].format # Constant("UDPGSODisabled")

Received(s, r, n) == \E i \in DOMAIN got[s] : got[s][i].from = r /\ got[s][i].n = n

\* Every call reaches every logger whose method is set, through Multi and Async
\* ("fn is called for each event logged", but for the constant of the custom event).
EveryLoggerHears ==
  \A r \in Routines : \A n \in 1 .. MaxCalls[r] :
    Len(logged[r]) >= n ~> \A s \in Sinks : Due(s, r, n) => Received(s, r, n)

=============================================================================
