----------------------------- MODULE Wireguard ------------------------------
(***************************************************************************)
(* pkg/wg: the options of New, the resources they open, the cleanUp after  *)
(* a failure, and Close called from several goroutines.  The device is     *)
(* wireguard-go's: closing it also closes its tun and its bind.            *)
(***************************************************************************)
EXTENDS Naturals, Sequences, FiniteSets

CONSTANTS
    OptionLists,    \* the sequences of options New is called with
    Callers         \* the goroutines that call Close

Kinds == {"nop", "err", "device", "bind", "config", "netdevice", "closer"}

ASSUME OptionAssumption == OptionLists \subseteq Seq(Kinds)

VARIABLES
    opts,       \* the options of this New
    at,         \* where New stands
    k,          \* the options applied so far
    tun,        \* o.tun: the index of the option that set it, 0 for nil
    ownBind,    \* o.bind was nil, and is DefaultBind()
    closer,     \* o.closer, then c.closers: names of closer functions
    open,       \* the resources New has opened and nobody has closed
    run,        \* the closer functions called so far, in order
    failed,     \* those of them that returned an error
    pc,         \* pc[t]: "idle", "closing" or "returned"
    idx,        \* idx[t]: i + 1 in the loop of t's Close
    swapped,    \* c.close has been set
    ret         \* ret[t]: the functions whose errors t's Close returned

newVars == <<opts, at, k, tun, ownBind>>
resVars == <<closer, open, run, failed>>
closeVars == <<pc, idx, swapped, ret>>
vars == <<newVars, resVars, closeVars>>

\* Closer functions and resources: a netstack or the closer of OptionCloser by the
\* index of its option, the bind, the device, and Down, which closes nothing.
Tun(i) == <<"tun", i>>
User(i) == <<"user", i>>
Bind == <<"bind", 0>>
Dev == <<"dev", 0>>
Down == <<"down", 0>>
Fns == {Bind, Dev, Down} \cup ({"tun", "user"} \X (Nat \ {0}))

TypeOK == /\ opts \in OptionLists
          /\ at \in {"apply", "device", "config", "up", "cleanup", "failed", "ok"}
          /\ k \in 0..Len(opts)
          /\ tun \in 0..Len(opts)
          /\ ownBind \in BOOLEAN
          /\ closer \in Seq(Fns)
          /\ open \subseteq Fns
          /\ run \in Seq(Fns)
          /\ failed \subseteq {run[i] : i \in DOMAIN run}
          /\ pc \in [Callers -> {"idle", "closing", "returned"}]
          /\ idx \in [Callers -> 0..(Len(opts) + 3)]
          /\ swapped \in BOOLEAN
          /\ ret \in [Callers -> SUBSET Fns]

Init == /\ opts \in OptionLists
        /\ at = "apply"
        /\ k = 0
        /\ tun = 0
        /\ ownBind = FALSE
        /\ closer = <<>>
        /\ open = {}
        /\ run = <<>>
        /\ failed = {}
        /\ pc = [t \in Callers |-> "idle"]
        /\ idx = [t \in Callers |-> 0]
        /\ swapped = FALSE
        /\ ret = [t \in Callers |-> {}]
-----------------------------------------------------------------------------
(* New *)

\* mutant: each option starts a new list of closers
ApplyOptionReplaces ==
    /\ at = "apply"
    /\ k < Len(opts)
    /\ opts[k + 1] # "err"
    /\ k' = k + 1
    /\ tun' = IF opts[k + 1] \in {"device", "netdevice"} THEN k + 1 ELSE tun
    /\ open' = IF opts[k + 1] = "netdevice" THEN open \cup {Tun(k + 1)} ELSE open
    /\ closer' = CASE opts[k + 1] = "netdevice" -> <<Tun(k + 1)>>
                   [] opts[k + 1] = "closer" -> <<User(k + 1)>>
                   [] OTHER -> closer
    /\ UNCHANGED <<opts, at, ownBind, run, failed, closeVars>>

\* mutant: the closer is that of the option before
ApplyOptionPrevious ==
    /\ at = "apply"
    /\ k < Len(opts)
    /\ opts[k + 1] # "err"
    /\ k' = k + 1
    /\ tun' = IF opts[k + 1] \in {"device", "netdevice"} THEN k + 1 ELSE tun
    /\ open' = IF opts[k + 1] = "netdevice" THEN open \cup {Tun(k + 1)} ELSE open
    /\ closer' = IF opts[k + 1] = "netdevice" THEN Append(closer, Tun(k)) ELSE closer
    /\ UNCHANGED <<opts, at, ownBind, run, failed, closeVars>>

\* One option that succeeds.
ApplyOption ==
    /\ at = "apply"
    /\ k < Len(opts)
    /\ opts[k + 1] # "err"
    /\ k' = k + 1
    /\ tun' = IF opts[k + 1] \in {"device", "netdevice"} THEN k + 1 ELSE tun
    /\ open' = IF opts[k + 1] = "netdevice" THEN open \cup {Tun(k + 1)} ELSE open
    /\ closer' = CASE opts[k + 1] = "netdevice" -> Append(closer, Tun(k + 1))
                   [] opts[k + 1] = "closer" -> Append(closer, User(k + 1))
                   [] OTHER -> closer
    /\ UNCHANGED <<opts, at, ownBind, run, failed, closeVars>>

\* An option that fails: New returns before its cleanUp is deferred.
ApplyFails ==
    /\ at = "apply"
    /\ k < Len(opts)
    /\ opts[k + 1] \in {"err", "netdevice"}
    /\ at' = "failed"
    /\ UNCHANGED <<opts, k, tun, ownBind, resVars, closeVars>>

ApplyEnds ==
    /\ at = "apply"
    /\ k = Len(opts)
    /\ at' = IF tun = 0 THEN "cleanup" ELSE "device"
    /\ UNCHANGED <<opts, k, tun, ownBind, resVars, closeVars>>

HasOption(o) == \E i \in DOMAIN opts : opts[i] = o

\* mutant: the closer of the device is left to the end of New
MakeDeviceLate ==
    /\ at = "device"
    /\ ownBind' = ~HasOption("bind")
    /\ closer' = IF ownBind' THEN Append(closer, Bind) ELSE closer
    /\ open' = open \cup (IF ownBind' THEN {Bind, Dev} ELSE {Dev})
    /\ at' = IF HasOption("config") THEN "config" ELSE "up"
    /\ UNCHANGED <<opts, k, tun, run, failed, closeVars>>

\* The default bind, if the options brought none, and the device.
MakeDevice ==
    /\ at = "device"
    /\ ownBind' = ~HasOption("bind")
    /\ closer' = closer \o (IF ownBind' THEN <<Bind, Dev>> ELSE <<Dev>>)
    /\ open' = open \cup (IF ownBind' THEN {Bind, Dev} ELSE {Dev})
    /\ at' = IF HasOption("config") THEN "config" ELSE "up"
    /\ UNCHANGED <<opts, k, tun, run, failed, closeVars>>

Configure ==
    /\ at = "config"
    /\ at' \in {"up", "cleanup"}
    /\ UNCHANGED <<opts, k, tun, ownBind, resVars, closeVars>>

Up == /\ at = "up"
      /\ \/ at' = "ok" /\ closer' = Append(closer, Down)
         \/ at' = "cleanup" /\ closer' = closer
      /\ UNCHANGED <<opts, k, tun, ownBind, open, run, failed, closeVars>>

\* Calling a closer function, which may fail; the device takes its tun and bind along.
Call(f) ==
    /\ run' = Append(run, f)
    /\ open' = open \ (IF f = Dev THEN {Dev, Bind, Tun(tun)} ELSE {f})
    /\ failed' \in {failed, failed \cup {f}}

\* The deferred cleanUp: the closers in the order they were added.
CleanUp ==
    /\ at = "cleanup"
    /\ IF closer = <<>>
       THEN at' = "failed" /\ UNCHANGED resVars
       ELSE at' = at /\ Call(Head(closer)) /\ closer' = Tail(closer)
    /\ UNCHANGED <<opts, k, tun, ownBind, closeVars>>
-----------------------------------------------------------------------------
(* Close *)

\* mutant: no compare-and-swap
CloseAlways(t) ==
    /\ at = "ok"
    /\ pc[t] = "idle"
    /\ swapped' = TRUE
    /\ pc' = [pc EXCEPT ![t] = "closing"]
    /\ idx' = [idx EXCEPT ![t] = Len(closer)]
    /\ UNCHANGED <<newVars, resVars, ret>>

\* The compare-and-swap is won: this call runs the closers.
CloseWins(t) ==
    /\ at = "ok"
    /\ pc[t] = "idle"
    /\ ~swapped
    /\ swapped' = TRUE
    /\ pc' = [pc EXCEPT ![t] = "closing"]
    /\ idx' = [idx EXCEPT ![t] = Len(closer)]
    /\ UNCHANGED <<newVars, resVars, ret>>

\* mutant: the closers in the order they were added
CloseOneForward(t) ==
    /\ pc[t] = "closing"
    /\ idx[t] \in DOMAIN closer
    /\ Call(closer[Len(closer) + 1 - idx[t]])
    /\ idx' = [idx EXCEPT ![t] = @ - 1]
    /\ UNCHANGED <<newVars, closer, pc, swapped, ret>>

\* One turn of the loop of the winner: the closers in reverse order.
CloseOne(t) ==
    /\ pc[t] = "closing"
    /\ idx[t] \in DOMAIN closer
    /\ Call(closer[idx[t]])
    /\ idx' = [idx EXCEPT ![t] = @ - 1]
    /\ UNCHANGED <<newVars, closer, pc, swapped, ret>>

CloseEnds(t) ==
    /\ pc[t] = "closing"
    /\ idx[t] = 0
    /\ closer' = <<>>
    /\ pc' = [pc EXCEPT ![t] = "returned"]
    /\ ret' = [ret EXCEPT ![t] = failed]
    /\ UNCHANGED <<newVars, open, run, failed, idx, swapped>>

\* The compare-and-swap is lost: the err of the winner is read, without waiting for
\* it.  The read races with the winner's writes and may see any of them.
CloseLoses(t) ==
    /\ at = "ok"
    /\ pc[t] = "idle"
    /\ swapped
    /\ pc' = [pc EXCEPT ![t] = "returned"]
    /\ \E seen \in SUBSET failed :
           /\ (\A u \in Callers : pc[u] # "closing") => seen = failed
           /\ ret' = [ret EXCEPT ![t] = seen]
    /\ UNCHANGED <<newVars, resVars, idx, swapped>>
-----------------------------------------------------------------------------
New == ApplyOption \/ ApplyFails \/ ApplyEnds \/ MakeDevice \/ Configure \/ Up \/ CleanUp

Next == \/ New
        \/ \E t \in Callers : CloseWins(t) \/ CloseOne(t) \/ CloseEnds(t) \/ CloseLoses(t)

Spec == Init /\ [][Next]_vars
-----------------------------------------------------------------------------
(* Properties *)

\* "cleanUp closes any open resources in the event of a failure": what the options
\* and New itself opened is closed when New returns an error, but for the failures
\* of the options themselves (see NoLeakOnFailure).
CleanUpReleases == at = "failed" /\ k = Len(opts) => open = {}

\* The same of every failure, the doc of cleanUp to the letter.
NoLeakOnFailure == at = "failed" => open = {}

\* Once the Close that does the work is over, all that New opened is closed, also a
\* netstack that a later option replaced, whichever closers failed.
CloseReleases == swapped /\ (\A t \in Callers : pc[t] # "closing") => open = {}

\* No closer function is called twice, by one Close, by two of them or by cleanUp.
CalledOnce == \A i, j \in DOMAIN run : run[i] = run[j] => i = j

Before(f, g) == \A j \in DOMAIN run : run[j] = g => \E i \in 1..j : run[i] = f

\* Close takes the interface down before it closes the device, and the device before
\* the bind and the netstack below it.
ClosedTopDown == at = "ok" => /\ Before(Down, Dev)
                              /\ Before(Dev, Bind)
                              /\ \A i \in DOMAIN opts : Before(Dev, Tun(i))
=============================================================================
