-------------------------- MODULE WireguardProofs ---------------------------
(***************************************************************************)
(* Theorems about Wireguard, for any lists of options and any number of    *)
(* goroutines that call Close.                                             *)
(***************************************************************************)
EXTENDS Wireguard, TLAPS

Has(q, f) == \E i \in 1..Len(q) : q[i] = f
Distinct(q) == \A i, j \in 1..Len(q) : q[i] = q[j] => i = j

\* The list of closers has room for the options so far, the bind, the device and Down.
CloserRoom ==
    /\ Len(closer) <= k + 3
    /\ at \in {"apply", "device"} => Len(closer) <= k
    /\ at \in {"config", "up"} => Len(closer) <= k + 2

\* The closers so far: those of options while the options are applied, and the device
\* on top of them before Down is added.
CloserNames ==
    /\ at \in {"apply", "device"} => \A i \in 1..Len(closer) : closer[i][2] \in 1..k
    /\ at \in {"config", "up"} =>
           /\ closer # <<>> /\ closer[Len(closer)] = Dev
           /\ ~Has(closer, Down)

\* Down and the device are the last of a list that New returns.
CloserTop ==
    /\ Len(closer) >= 2
    /\ closer[Len(closer)] = Down
    /\ closer[Len(closer) - 1] = Dev

\* Before New has returned nobody closes, before cleanUp or Close nothing was called.
NotYet ==
    /\ at # "ok" => ~swapped /\ \A t \in Callers : pc[t] = "idle"
    /\ at \notin {"cleanup", "failed"} /\ ~swapped => run = <<>>
    /\ at = "ok" /\ ~swapped => CloserTop

\* cleanUp takes the functions it calls out of the list.
CleanUpTakes == at = "cleanup" => \A i \in 1..Len(run) : ~Has(closer, run[i])

\* The one call of Close that won has called the end of the list, from the last on.
Closing == \A t \in Callers : pc[t] = "closing" =>
    /\ at = "ok" /\ swapped
    /\ \A u \in Callers : pc[u] = "closing" => u = t
    /\ CloserTop
    /\ Len(run) + idx[t] = Len(closer)
    /\ \A i \in 1..Len(run) : run[i] = closer[Len(closer) + 1 - i]

\* What is open has its closer in the list, in the part that is not called yet.
OpenListed ==
    /\ at # "failed" /\ ~swapped => \A f \in open : Has(closer, f)
    /\ \A t \in Callers : pc[t] = "closing" => \A f \in open : \E i \in 1..idx[t] : closer[i] = f

\* Close begins with Down and the device.
RunTop == at = "ok" => /\ Len(run) >= 1 => run[1] = Down
                       /\ Len(run) >= 2 => run[2] = Dev

WInv == /\ TypeOK
        /\ CloserRoom
        /\ CloserNames
        /\ Distinct(closer)
        /\ NotYet
        /\ CleanUpTakes
        /\ Distinct(run)
        /\ Closing
        /\ OpenListed
        /\ RunTop
        /\ CleanUpReleases
        /\ CloseReleases
-----------------------------------------------------------------------------
(* Sequences of functions.                                                 *)

\* A function added at the end.
LEMMA AppendFacts ==
  ASSUME NEW S, NEW q \in Seq(S), NEW f \in S
  PROVE  /\ Append(q, f) \in Seq(S) /\ Len(Append(q, f)) = Len(q) + 1
         /\ Append(q, f)[Len(q) + 1] = f
         /\ \A i \in 1..Len(q) : Append(q, f)[i] = q[i]
         /\ \A e : Has(Append(q, f), e) <=> Has(q, e) \/ e = f
         /\ Distinct(q) /\ ~Has(q, f) => Distinct(Append(q, f))
<1> DEFINE r == Append(q, f)
<1>1. r \in Seq(S) /\ Len(r) = Len(q) + 1 /\ r[Len(q) + 1] = f /\ Len(q) \in Nat
  OBVIOUS
<1>2. \A i \in 1..Len(q) : r[i] = q[i]
  OBVIOUS
<1>3. \A i \in 1..Len(r) : i \in 1..Len(q) \/ i = Len(q) + 1
  BY <1>1
<1>4. \A e : Has(r, e) <=> Has(q, e) \/ e = f
  <2> SUFFICES ASSUME NEW e PROVE Has(r, e) <=> Has(q, e) \/ e = f
    OBVIOUS
  <2>1. Has(r, e) => Has(q, e) \/ e = f
    BY <1>1, <1>2, <1>3 DEF Has
  <2>2. Has(q, e) => Has(r, e)
    <3>1. \A i \in 1..Len(q) : i \in 1..Len(r)
      BY <1>1
    <3>2. QED
      BY <1>2, <3>1 DEF Has
  <2>3. e = f => Has(r, e)
    <3>1. Len(q) + 1 \in 1..Len(r)
      BY <1>1
    <3>2. QED
      BY <1>1, <3>1 DEF Has
  <2>4. QED
    BY <2>1, <2>2, <2>3
<1>5. ASSUME Distinct(q), ~Has(q, f) PROVE Distinct(r)
  BY <1>1, <1>2, <1>3, <1>5 DEF Distinct, Has
<1>6. QED
  BY <1>1, <1>2, <1>4, <1>5

\* Adding one or two functions by concatenation.
LEMMA ConcatAppends ==
  ASSUME NEW S, NEW q \in Seq(S), NEW f \in S, NEW g \in S
  PROVE  q \o <<f>> = Append(q, f) /\ q \o <<f, g>> = Append(Append(q, f), g)
OBVIOUS

\* Taking the head of a list of distinct functions.
LEMMA TailFacts ==
  ASSUME NEW S, NEW q \in Seq(S), q # <<>>, Distinct(q)
  PROVE  /\ Head(q) \in S /\ Tail(q) \in Seq(S) /\ Len(Tail(q)) = Len(q) - 1 /\ Len(q) \in Nat
         /\ \A e : Has(q, e) <=> Has(Tail(q), e) \/ e = Head(q)
         /\ ~Has(Tail(q), Head(q))
         /\ Distinct(Tail(q))
<1> DEFINE r == Tail(q)
<1>1. Head(q) \in S /\ r \in Seq(S) /\ Len(r) = Len(q) - 1 /\ Len(q) \in Nat \ {0} /\ Head(q) = q[1]
  OBVIOUS
<1>2. \A i \in 1..Len(r) : i + 1 \in 1..Len(q) /\ r[i] = q[i + 1] /\ i + 1 # 1
  BY <1>1
<1>3. \A i \in 1..Len(q) : i = 1 \/ (i - 1 \in 1..Len(r) /\ r[i - 1] = q[i])
  BY <1>1, <1>2
<1>4. \A e : Has(q, e) <=> Has(r, e) \/ e = Head(q)
  <2> SUFFICES ASSUME NEW e PROVE Has(q, e) <=> Has(r, e) \/ e = Head(q)
    OBVIOUS
  <2>1. Has(q, e) => Has(r, e) \/ e = Head(q)
    BY <1>1, <1>3 DEF Has
  <2>2. Has(r, e) => Has(q, e)
    BY <1>2 DEF Has
  <2>3. 1 \in 1..Len(q)
    BY <1>1
  <2>4. e = Head(q) => Has(q, e)
    BY <1>1, <2>3 DEF Has
  <2>5. QED
    BY <2>1, <2>2, <2>4
<1>5. ~Has(r, Head(q))
  BY <1>1, <1>2 DEF Has, Distinct
<1>6. Distinct(r)
  BY <1>1, <1>2 DEF Distinct
<1>7. QED
  BY <1>1, <1>4, <1>5, <1>6

\* The names of the functions.
LEMMA Names ==
  /\ Bind \in Fns /\ Dev \in Fns /\ Down \in Fns
  /\ Bind # Dev /\ Bind # Down /\ Dev # Down
  /\ Bind[2] = 0 /\ Dev[2] = 0 /\ Down[2] = 0
  /\ \A i \in Nat : Tun(i) # Bind /\ Tun(i) # Dev /\ Tun(i) # Down /\ Tun(i)[2] = i /\ User(i)[2] = i
  /\ \A i \in Nat \ {0} : Tun(i) \in Fns /\ User(i) \in Fns
BY DEF Bind, Dev, Down, Tun, User, Fns
-----------------------------------------------------------------------------
\* The initial states satisfy the invariant.
LEMMA WireguardInit == Init => WInv
<1> SUFFICES ASSUME Init PROVE WInv
  OBVIOUS
<1>1. Len(opts) \in Nat
  BY OptionAssumption DEF Init
<1>2. closer \in Seq(Fns) /\ run \in Seq(Fns) /\ Len(closer) = 0 /\ Len(run) = 0
  BY DEF Init
<1>3. TypeOK
  <2>1. /\ opts \in OptionLists /\ at = "apply" /\ k = 0 /\ tun = 0 /\ ownBind = FALSE
        /\ open = {} /\ failed = {} /\ swapped = FALSE
    BY DEF Init
  <2>2. pc \in [Callers -> {"idle", "closing", "returned"}] /\ ret \in [Callers -> SUBSET Fns]
    BY DEF Init
  <2>3. idx \in [Callers -> 0..(Len(opts) + 3)]
    BY <1>1 DEF Init
  <2>4. failed \subseteq {run[i] : i \in DOMAIN run} /\ open \subseteq Fns
    BY <2>1
  <2>5. k \in 0..Len(opts) /\ tun \in 0..Len(opts)
    BY <1>1, <2>1
  <2>6. QED
    BY <1>2, <2>1, <2>2, <2>3, <2>4, <2>5 DEF TypeOK
<1>4. CloserRoom /\ CloserNames /\ Distinct(closer) /\ Distinct(run)
  BY <1>2 DEF Init, CloserRoom, CloserNames, Distinct
<1>5. NotYet /\ CleanUpTakes /\ Closing /\ OpenListed /\ RunTop /\ CleanUpReleases /\ CloseReleases
  BY DEF Init, NotYet, CleanUpTakes, Closing, OpenListed, RunTop, CleanUpReleases, CloseReleases
<1>6. QED
  BY <1>3, <1>4, <1>5 DEF WInv
-----------------------------------------------------------------------------
(* The steps of New.                                                       *)

\* While New runs, and after it has failed, nobody closes.
LEMMA NobodyCloses ==
  ASSUME WInv, at # "ok", at' # "ok", UNCHANGED closeVars
  PROVE  /\ Closing' /\ RunTop' /\ CloseReleases'
         /\ ~swapped' /\ \A t \in Callers : pc'[t] = "idle"
BY DEF WInv, NotYet, Closing, RunTop, CloseReleases, closeVars

\* One option is applied: its closer has a number of its own.
LEMMA ApplyOptionStep == ASSUME WInv, ApplyOption PROVE WInv'
<1>1. /\ at = "apply" /\ at' = "apply" /\ k < Len(opts) /\ k' = k + 1
      /\ tun' \in {tun, k + 1}
      /\ UNCHANGED <<opts, ownBind, run, failed, pc, idx, swapped, ret>>
  BY DEF ApplyOption, closeVars
<1>2. \/ closer' = closer /\ open' = open
      \/ \E f \in {Tun(k + 1), User(k + 1)} : closer' = Append(closer, f) /\ open' \subseteq open \cup {f}
  BY DEF ApplyOption
<1>3. /\ k \in Nat /\ k + 1 \in Nat \ {0} /\ k + 1 \in 0..Len(opts) /\ Len(opts) \in Nat
      /\ closer \in Seq(Fns) /\ Len(closer) \in Nat /\ Len(closer) <= k
      /\ \A i \in 1..Len(closer) : closer[i][2] \in 1..k
      /\ \A f \in open : Has(closer, f)
      /\ open \subseteq Fns /\ Distinct(closer) /\ ~swapped
  BY <1>1, OptionAssumption DEF WInv, TypeOK, CloserRoom, CloserNames, OpenListed, NotYet
<1>4. /\ closer' \in Seq(Fns) /\ Len(closer') <= k' /\ Distinct(closer') /\ open' \subseteq Fns
      /\ \A i \in 1..Len(closer') : closer'[i][2] \in 1..k'
      /\ \A f \in open' : Has(closer', f)
  <2>1. CASE closer' = closer /\ open' = open
    BY <1>1, <1>3, <2>1
  <2>2. ASSUME NEW f \in {Tun(k + 1), User(k + 1)},
               closer' = Append(closer, f), open' \subseteq open \cup {f}
        PROVE  <1>4
    <3>1. f \in Fns /\ f[2] = k + 1
      BY <1>3, Names
    <3>2. ~Has(closer, f)
      BY <1>3, <3>1 DEF Has
    <3>3. /\ closer' \in Seq(Fns) /\ Len(closer') = Len(closer) + 1 /\ Distinct(closer')
          /\ closer'[Len(closer) + 1] = f /\ \A i \in 1..Len(closer) : closer'[i] = closer[i]
      BY <1>3, <2>2, <3>1, <3>2, AppendFacts
    <3>4. \A e : Has(closer', e) <=> Has(closer, e) \/ e = f
      <4>1. \A e : Has(Append(closer, f), e) <=> Has(closer, e) \/ e = f
        BY <1>3, <3>1, AppendFacts
      <4>2. QED
        BY <2>2, <4>1
    <3>5. \A i \in 1..Len(closer') : closer'[i][2] \in 1..k'
      <4>1. \A i \in 1..Len(closer') : i \in 1..Len(closer) \/ i = Len(closer) + 1
        BY <1>3, <3>3
      <4>2. QED
        BY <1>1, <1>3, <3>1, <3>3, <4>1
    <3>6. QED
      BY <1>1, <1>3, <2>2, <3>1, <3>3, <3>4, <3>5
  <2>3. QED
    BY <1>2, <2>1, <2>2
<1>5. TypeOK'
  BY <1>1, <1>3, <1>4 DEF WInv, TypeOK
<1>6. (CloserRoom /\ CloserNames /\ NotYet /\ CleanUpTakes /\ OpenListed /\ CleanUpReleases)'
  BY <1>1, <1>3, <1>4 DEF WInv, CloserRoom, CloserNames, NotYet, CleanUpTakes, OpenListed, CleanUpReleases
<1>7. (Closing /\ RunTop /\ CloseReleases)'
  BY <1>1, NobodyCloses DEF closeVars
<1>8. QED
  BY <1>1, <1>4, <1>5, <1>6, <1>7 DEF WInv

\* New returns before cleanUp is deferred, with options left to apply.
LEMMA ApplyFailsStep == ASSUME WInv, ApplyFails PROVE WInv'
<1>1. /\ at = "apply" /\ at' = "failed" /\ k < Len(opts)
      /\ UNCHANGED <<opts, k, tun, ownBind, closer, open, run, failed, pc, idx, swapped, ret>>
  BY DEF ApplyFails, resVars, closeVars
<1>2. k \in Nat /\ Len(opts) \in Nat
  BY OptionAssumption DEF WInv, TypeOK
<1>3. TypeOK'
  BY <1>1 DEF WInv, TypeOK
<1>4. (CloserRoom /\ CloserNames /\ NotYet /\ CleanUpTakes /\ OpenListed /\ CleanUpReleases)'
  BY <1>1, <1>2 DEF WInv, CloserRoom, CloserNames, NotYet, CleanUpTakes, OpenListed, CleanUpReleases, Closing
<1>5. (Closing /\ RunTop /\ CloseReleases)'
  BY <1>1, NobodyCloses DEF closeVars
<1>6. (Distinct(closer) /\ Distinct(run))'
  BY <1>1 DEF WInv
<1>7. QED
  BY <1>3, <1>4, <1>5, <1>6 DEF WInv

\* The steps of New that open nothing and add no closer.
LEMMA GoesOnStep ==
  ASSUME WInv, ApplyEnds \/ Configure \/ (Up /\ at' = "cleanup")
  PROVE  WInv'
<1>1. /\ \/ at = "apply" /\ at' \in {"device", "cleanup"}
         \/ at = "config" /\ at' \in {"up", "cleanup"}
         \/ at = "up" /\ at' = "cleanup"
      /\ UNCHANGED <<opts, k, tun, ownBind, closer, open, run, failed, pc, idx, swapped, ret>>
  BY DEF ApplyEnds, Configure, Up, resVars, closeVars
<1>2. TypeOK'
  BY <1>1 DEF WInv, TypeOK
<1>3. run = <<>> /\ Len(run) = 0
  BY <1>1 DEF WInv, NotYet
<1>4. (CloserRoom /\ CloserNames /\ NotYet /\ OpenListed /\ CleanUpReleases)'
  BY <1>1 DEF WInv, CloserRoom, CloserNames, NotYet, OpenListed, CleanUpReleases, Closing
<1>5. CleanUpTakes'
  BY <1>1, <1>3 DEF CleanUpTakes
<1>6. (Closing /\ RunTop /\ CloseReleases)'
  BY <1>1, NobodyCloses DEF closeVars
<1>7. (Distinct(closer) /\ Distinct(run))'
  BY <1>1 DEF WInv
<1>8. QED
  BY <1>2, <1>4, <1>5, <1>6, <1>7 DEF WInv

\* The device is added last, over the bind if New made it.
LEMMA MakeDeviceStep == ASSUME WInv, MakeDevice PROVE WInv'
<1>1. /\ at = "device" /\ at' \in {"config", "up"} /\ ownBind' \in BOOLEAN
      /\ UNCHANGED <<opts, k, tun, run, failed, pc, idx, swapped, ret>>
  BY DEF MakeDevice, closeVars
<1>2. \/ closer' = closer \o <<Bind, Dev>> /\ open' = open \cup {Bind, Dev}
      \/ closer' = closer \o <<Dev>> /\ open' = open \cup {Dev}
  BY DEF MakeDevice
<1>3. /\ k \in Nat /\ k <= Len(opts) /\ Len(opts) \in Nat
      /\ closer \in Seq(Fns) /\ Len(closer) \in Nat /\ Len(closer) <= k
      /\ \A i \in 1..Len(closer) : closer[i][2] \in 1..k
      /\ \A f \in open : Has(closer, f)
      /\ open \subseteq Fns /\ Distinct(closer) /\ ~swapped /\ run = <<>>
  BY <1>1, OptionAssumption DEF WInv, TypeOK, CloserRoom, CloserNames, OpenListed, NotYet
<1>4. ~Has(closer, Bind) /\ ~Has(closer, Dev) /\ ~Has(closer, Down)
  BY <1>3, Names DEF Has
<1> DEFINE q == Append(closer, Bind)
<1>5. /\ q \in Seq(Fns) /\ Len(q) = Len(closer) + 1 /\ Distinct(q)
      /\ \A e : Has(q, e) <=> Has(closer, e) \/ e = Bind
  BY <1>3, <1>4, AppendFacts, Names
<1> HIDE DEF q
<1>6. /\ closer' \in Seq(Fns) /\ Len(closer') <= k' + 2 /\ Len(closer') >= 1 /\ Distinct(closer')
      /\ closer'[Len(closer')] = Dev /\ ~Has(closer', Down)
      /\ open' \subseteq Fns /\ \A f \in open' : Has(closer', f)
  <2>1. CASE closer' = closer \o <<Bind, Dev>> /\ open' = open \cup {Bind, Dev}
    <3>1. closer' = Append(q, Dev)
      BY <1>3, <2>1, Names, ConcatAppends DEF q
    <3>2. ~Has(q, Dev)
      BY <1>4, <1>5, Names
    <3>3. /\ closer' \in Seq(Fns) /\ Len(closer') = Len(q) + 1 /\ Distinct(closer')
          /\ closer'[Len(q) + 1] = Dev
      BY <1>5, <3>1, <3>2, AppendFacts, Names
    <3>4. \A e : Has(closer', e) <=> Has(closer, e) \/ e = Bind \/ e = Dev
      <4>1. \A e : Has(Append(q, Dev), e) <=> Has(q, e) \/ e = Dev
        BY <1>5, AppendFacts, Names
      <4>2. QED
        BY <1>5, <3>1, <4>1
    <3>5. Len(closer') <= k' + 2 /\ Len(closer') >= 1 /\ closer'[Len(closer')] = Dev
      BY <1>1, <1>3, <1>5, <3>3
    <3>6. ~Has(closer', Down) /\ \A f \in open' : Has(closer', f)
      BY <1>3, <1>4, <2>1, <3>4, Names
    <3>7. QED
      BY <1>3, <2>1, <3>3, <3>5, <3>6, Names
  <2>2. CASE closer' = closer \o <<Dev>> /\ open' = open \cup {Dev}
    <3>1. closer' = Append(closer, Dev)
      BY <1>3, <2>2, Names, ConcatAppends
    <3>2. /\ closer' \in Seq(Fns) /\ Len(closer') = Len(closer) + 1 /\ Distinct(closer')
          /\ closer'[Len(closer) + 1] = Dev
      BY <1>3, <1>4, <3>1, AppendFacts, Names
    <3>3. \A e : Has(closer', e) <=> Has(closer, e) \/ e = Dev
      <4>1. \A e : Has(Append(closer, Dev), e) <=> Has(closer, e) \/ e = Dev
        BY <1>3, AppendFacts, Names
      <4>2. QED
        BY <3>1, <4>1
    <3>4. QED
      BY <1>1, <1>3, <1>4, <2>2, <3>2, <3>3, Names
  <2>3. QED
    BY <1>2, <2>1, <2>2
<1>7. TypeOK'
  BY <1>1, <1>6 DEF WInv, TypeOK
<1>8. (CloserRoom /\ NotYet /\ CleanUpTakes /\ OpenListed /\ CleanUpReleases)'
  BY <1>1, <1>3, <1>6 DEF WInv, CloserRoom, NotYet, CleanUpTakes, OpenListed, CleanUpReleases
<1>9. CloserNames'
  BY <1>1, <1>6 DEF CloserNames
<1>10. (Closing /\ RunTop /\ CloseReleases)'
  BY <1>1, NobodyCloses DEF closeVars
<1>11. QED
  BY <1>1, <1>6, <1>7, <1>8, <1>9, <1>10 DEF WInv

\* The interface is up: Down is put over the device.
LEMMA UpStep == ASSUME WInv, Up, at' = "ok" PROVE WInv'
<1>1. /\ at = "up" /\ at' = "ok" /\ closer' = Append(closer, Down)
      /\ UNCHANGED <<opts, k, tun, ownBind, open, run, failed, pc, idx, swapped, ret>>
  BY DEF Up, closeVars
<1>2. /\ k \in Nat /\ k <= Len(opts) /\ Len(opts) \in Nat
      /\ closer \in Seq(Fns) /\ Len(closer) \in Nat /\ Len(closer) <= k + 2
      /\ closer # <<>> /\ closer[Len(closer)] = Dev /\ ~Has(closer, Down)
      /\ \A f \in open : Has(closer, f)
      /\ Distinct(closer) /\ ~swapped /\ run = <<>> /\ \A t \in Callers : pc[t] = "idle"
  BY <1>1, OptionAssumption DEF WInv, TypeOK, CloserRoom, CloserNames, OpenListed, NotYet
<1>3. /\ closer' \in Seq(Fns) /\ Len(closer') = Len(closer) + 1 /\ Distinct(closer')
      /\ closer'[Len(closer) + 1] = Down /\ \A i \in 1..Len(closer) : closer'[i] = closer[i]
  BY <1>1, <1>2, AppendFacts, Names
<1>4. \A f \in open' : Has(closer', f)
  <2>1. \A e : Has(Append(closer, Down), e) <=> Has(closer, e) \/ e = Down
    BY <1>2, AppendFacts, Names
  <2>2. QED
    BY <1>1, <1>2, <2>1
<1>5. CloserTop'
  <2>1. Len(closer) \in 1..Len(closer) /\ Len(closer) >= 1
    BY <1>2
  <2>2. QED
    BY <1>2, <1>3, <2>1 DEF CloserTop
<1>6. TypeOK'
  BY <1>1, <1>3 DEF WInv, TypeOK
<1>7. (CloserRoom /\ CloserNames /\ NotYet /\ CleanUpTakes /\ OpenListed /\ CleanUpReleases)'
  BY <1>1, <1>2, <1>3, <1>4, <1>5
     DEF WInv, CloserRoom, CloserNames, NotYet, CleanUpTakes, OpenListed, CleanUpReleases
<1>8. (Closing /\ RunTop /\ CloseReleases)'
  BY <1>1, <1>2 DEF Closing, RunTop, CloseReleases
<1>9. QED
  BY <1>1, <1>3, <1>6, <1>7, <1>8 DEF WInv
-----------------------------------------------------------------------------
(* Calling the closers, in cleanUp and in Close.                           *)

\* A call is remembered, fails or not, and what it closes is not open any more.
LEMMA CallFacts ==
  ASSUME TypeOK, NEW f \in Fns, Call(f)
  PROVE  /\ run' \in Seq(Fns) /\ Len(run') = Len(run) + 1 /\ Len(run) \in Nat
         /\ run'[Len(run) + 1] = f
         /\ \A i \in 1..Len(run) : run'[i] = run[i]
         /\ Distinct(run) /\ ~Has(run, f) => Distinct(run')
         /\ failed' \subseteq {run'[i] : i \in DOMAIN run'}
         /\ open' \subseteq open /\ f \notin open'
<1>1. run \in Seq(Fns) /\ failed \subseteq {run[i] : i \in DOMAIN run} /\ Len(run) \in Nat
  BY DEF TypeOK
<1>2. run' = Append(run, f) /\ failed' \subseteq failed \cup {f}
  BY DEF Call
<1>3. /\ run' \in Seq(Fns) /\ Len(run') = Len(run) + 1 /\ run'[Len(run) + 1] = f
      /\ \A i \in 1..Len(run) : run'[i] = run[i]
      /\ Distinct(run) /\ ~Has(run, f) => Distinct(run')
  BY <1>1, <1>2, AppendFacts
<1>4. failed' \subseteq {run'[i] : i \in DOMAIN run'}
  <2>1. DOMAIN run = 1..Len(run) /\ DOMAIN run' = 1..(Len(run) + 1)
    BY <1>1, <1>3
  <2>2. ASSUME NEW g \in failed' PROVE \E i \in DOMAIN run' : run'[i] = g
    <3>1. CASE g = f
      BY <1>1, <1>3, <2>1, <3>1
    <3>2. CASE g # f
      <4>1. PICK i \in DOMAIN run : run[i] = g
        BY <1>1, <1>2, <2>2, <3>2
      <4>2. i \in DOMAIN run' /\ run'[i] = g
        BY <1>1, <1>3, <2>1, <4>1
      <4>3. QED
        BY <4>2
    <3>3. QED
      BY <3>1, <3>2
  <2>3. QED
    BY <2>2
<1>5. open' \subseteq open /\ f \notin open'
  BY DEF Call
<1>6. QED
  BY <1>1, <1>3, <1>4, <1>5

\* cleanUp calls one function, or is over; then nothing is open.
LEMMA CleanUpStep == ASSUME WInv, CleanUp PROVE WInv'
<1>1. /\ at = "cleanup" /\ at' # "ok"
      /\ UNCHANGED <<opts, k, tun, ownBind, pc, idx, swapped, ret>>
  BY DEF CleanUp, closeVars
<1>2. /\ closer \in Seq(Fns) /\ Distinct(closer) /\ Distinct(run) /\ ~swapped
      /\ Len(closer) \in Nat /\ Len(closer) <= k + 3 /\ k \in Nat
      /\ \A f \in open : Has(closer, f)
      /\ \A i \in 1..Len(run) : ~Has(closer, run[i])
      /\ TypeOK /\ Len(opts) \in Nat
  BY <1>1, OptionAssumption DEF WInv, TypeOK, NotYet, OpenListed, CleanUpTakes, CloserRoom
<1>3. (Closing /\ RunTop /\ CloseReleases)'
  BY <1>1, NobodyCloses DEF closeVars
<1>4. CASE closer = <<>>
  <2>1. at' = "failed" /\ UNCHANGED <<closer, open, run, failed>>
    BY <1>4 DEF CleanUp, resVars
  <2>2. open = {}
    BY <1>2, <1>4 DEF Has
  <2>3. TypeOK'
    BY <1>1, <1>2, <2>1 DEF TypeOK
  <2>4. (CloserRoom /\ CloserNames /\ NotYet /\ CleanUpTakes /\ OpenListed /\ CleanUpReleases)'
    BY <1>1, <1>2, <2>1, <2>2
       DEF WInv, CloserRoom, CloserNames, NotYet, CleanUpTakes, OpenListed, CleanUpReleases, Closing
  <2>5. (Distinct(closer) /\ Distinct(run))'
    BY <1>2, <2>1
  <2>6. QED
    BY <1>3, <2>3, <2>4, <2>5 DEF WInv
<1>5. CASE closer # <<>>
  <2> DEFINE h == Head(closer)
  <2>1. at' = "cleanup" /\ Call(h) /\ closer' = Tail(closer)
    BY <1>1, <1>5 DEF CleanUp
  <2>2. /\ h \in Fns /\ closer' \in Seq(Fns) /\ Len(closer') = Len(closer) - 1
        /\ \A e : Has(closer, e) <=> Has(closer', e) \/ e = h
        /\ ~Has(closer', h) /\ Distinct(closer')
    BY <1>2, <1>5, <2>1, TailFacts
  <2>3. ~Has(run, h)
    BY <1>2, <2>2 DEF Has
  <2>4. /\ run' \in Seq(Fns) /\ Len(run') = Len(run) + 1 /\ Len(run) \in Nat
        /\ run'[Len(run) + 1] = h
        /\ \A i \in 1..Len(run) : run'[i] = run[i]
        /\ Distinct(run')
        /\ failed' \subseteq {run'[i] : i \in DOMAIN run'}
        /\ open' \subseteq open /\ h \notin open'
    BY <1>2, <2>1, <2>2, <2>3, CallFacts
  <2> HIDE DEF h
  <2>5. TypeOK'
    BY <1>1, <1>2, <2>1, <2>2, <2>4 DEF TypeOK
  <2>6. CleanUpTakes'
    <3>1. \A i \in 1..Len(run') : i \in 1..Len(run) \/ i = Len(run) + 1
      BY <2>4
    <3>2. QED
      BY <1>2, <2>2, <2>4, <3>1 DEF CleanUpTakes
  <2>7. OpenListed'
    BY <1>1, <1>2, <1>3, <2>2, <2>4 DEF OpenListed, Closing, WInv, NotYet
  <2>8. (CloserRoom /\ CloserNames /\ NotYet /\ CleanUpReleases)'
    BY <1>1, <1>2, <2>1, <2>2 DEF WInv, CloserRoom, CloserNames, NotYet, CleanUpReleases
  <2>9. QED
    BY <1>3, <2>2, <2>4, <2>5, <2>6, <2>7, <2>8 DEF WInv
<1>6. QED
  BY <1>4, <1>5

\* The winner of the swap starts at the end of the list.
LEMMA CloseWinsStep == ASSUME WInv, NEW t \in Callers, CloseWins(t) PROVE WInv'
<1>1. /\ at = "ok" /\ pc[t] = "idle" /\ ~swapped /\ swapped' = TRUE
      /\ pc' = [pc EXCEPT ![t] = "closing"] /\ idx' = [idx EXCEPT ![t] = Len(closer)]
      /\ UNCHANGED <<opts, at, k, tun, ownBind, closer, open, run, failed, ret>>
  BY DEF CloseWins, newVars, resVars
<1>2. /\ run = <<>> /\ Len(run) = 0 /\ CloserTop
      /\ Len(closer) \in Nat /\ Len(closer) <= Len(opts) + 3 /\ Len(opts) \in Nat
      /\ \A f \in open : Has(closer, f)
      /\ \A u \in Callers : pc[u] # "closing"
  BY <1>1, OptionAssumption DEF WInv, TypeOK, NotYet, CloserRoom, OpenListed, Closing
<1>3. \A u \in Callers : pc'[u] = (IF u = t THEN "closing" ELSE pc[u])
  BY <1>1 DEF WInv, TypeOK
<1>4. idx'[t] = Len(closer)
  BY <1>1 DEF WInv, TypeOK
<1>5. TypeOK'
  BY <1>1, <1>2 DEF WInv, TypeOK
<1>6. (CloserRoom /\ CloserNames /\ NotYet /\ CleanUpTakes /\ RunTop /\ CleanUpReleases /\ CloseReleases)'
  BY <1>1, <1>2, <1>3
     DEF WInv, CloserRoom, CloserNames, NotYet, CleanUpTakes, RunTop, CleanUpReleases, CloseReleases
<1>7. Closing'
  BY <1>1, <1>2, <1>3, <1>4 DEF Closing, CloserTop
<1>8. OpenListed'
  BY <1>1, <1>2, <1>3, <1>4 DEF OpenListed, Has
<1>9. QED
  BY <1>1, <1>5, <1>6, <1>7, <1>8 DEF WInv

\* One turn of the loop: the next function from the end has not been called.
LEMMA CloseOneStep == ASSUME WInv, NEW t \in Callers, CloseOne(t) PROVE WInv'
<1> DEFINE i == idx[t]
           f == closer[i]
<1>1. /\ pc[t] = "closing" /\ i \in DOMAIN closer /\ Call(f) /\ idx' = [idx EXCEPT ![t] = i - 1]
      /\ UNCHANGED <<opts, at, k, tun, ownBind, closer, pc, swapped, ret>>
  BY DEF CloseOne, newVars
<1>2. /\ at = "ok" /\ swapped /\ CloserTop /\ Len(run) + i = Len(closer)
      /\ \A j \in 1..Len(run) : run[j] = closer[Len(closer) + 1 - j]
      /\ \A u \in Callers : pc[u] = "closing" => u = t
      /\ \A g \in open : \E j \in 1..i : closer[j] = g
  BY <1>1 DEF WInv, Closing, OpenListed
<1>3. /\ TypeOK /\ closer \in Seq(Fns) /\ Len(closer) \in Nat /\ i \in 1..Len(closer) /\ f \in Fns
      /\ Distinct(closer) /\ Distinct(run) /\ Len(run) \in Nat
  BY <1>1 DEF WInv, TypeOK
<1>4. ~Has(run, f)
  <2> SUFFICES ASSUME NEW j \in 1..Len(run), run[j] = f PROVE FALSE
    BY DEF Has
  <2>1. closer[Len(closer) + 1 - j] = closer[i] /\ Len(run) + i = Len(closer)
    BY <1>2
  <2>2. Distinct(closer) /\ i \in 1..Len(closer) /\ Len(run) \in Nat /\ Len(closer) \in Nat
    BY <1>3
  <2> HIDE DEF i
  <2>3. Len(closer) + 1 - j \in 1..Len(closer) /\ Len(closer) + 1 - j # i
    BY <2>1, <2>2
  <2>4. QED
    BY <2>1, <2>2, <2>3 DEF Distinct
<1>5. /\ run' \in Seq(Fns) /\ Len(run') = Len(run) + 1
      /\ run'[Len(run) + 1] = f
      /\ \A j \in 1..Len(run) : run'[j] = run[j]
      /\ Distinct(run')
      /\ failed' \subseteq {run'[j] : j \in DOMAIN run'}
      /\ open' \subseteq open /\ f \notin open'
  <2>1. TypeOK /\ f \in Fns /\ Call(f) /\ Distinct(run) /\ ~Has(run, f)
    BY <1>1, <1>3, <1>4
  <2> HIDE DEF f, i
  <2>2. QED
    BY <2>1, CallFacts
<1>6. idx'[t] = i - 1 /\ idx' \in [Callers -> 0..(Len(opts) + 3)]
  <2>1. idx \in [Callers -> 0..(Len(opts) + 3)] /\ Len(opts) \in Nat
    BY OptionAssumption DEF WInv, TypeOK
  <2>2. i - 1 \in 0..(Len(opts) + 3)
    BY <1>3, <2>1
  <2>3. QED
    BY <1>1, <2>1, <2>2
<1>7. TypeOK'
  BY <1>1, <1>3, <1>5, <1>6 DEF TypeOK
<1>8. Closing'
  <2>1. Len(run') + idx'[t] = Len(closer')
    BY <1>1, <1>2, <1>3, <1>5, <1>6
  <2>2. ASSUME NEW j \in 1..Len(run') PROVE run'[j] = closer'[Len(closer') + 1 - j]
    <3>1. CASE j \in 1..Len(run)
      BY <1>1, <1>2, <1>5, <3>1
    <3>2. CASE j = Len(run) + 1
      <4>1. Len(closer) + 1 - j = i
        BY <1>2, <1>3, <3>2
      <4>2. QED
        BY <1>1, <1>5, <3>2, <4>1
    <3>3. QED
      BY <1>3, <1>5, <3>1, <3>2
  <2>3. CloserTop'
    BY <1>1, <1>2 DEF CloserTop
  <2>4. QED
    BY <1>1, <1>2, <2>1, <2>2, <2>3 DEF Closing
<1>9. OpenListed'
  <2>1. ASSUME NEW g \in open' PROVE \E j \in 1..(i - 1) : closer[j] = g
    <3>1. PICK j \in 1..i : closer[j] = g
      BY <1>2, <1>5, <2>1
    <3>2. j # i
      BY <1>5, <2>1, <3>1
    <3>3. j \in 1..(i - 1)
      BY <1>3, <3>1, <3>2
    <3>4. QED
      BY <3>1, <3>3
  <2>2. QED
    BY <1>1, <1>2, <1>6, <2>1 DEF OpenListed
<1>10. RunTop'
  <2>1. CASE Len(run) = 0
    <3>1. f = Down /\ Len(run') = 1
      BY <1>2, <1>3, <1>5, <2>1 DEF CloserTop
    <3>2. QED
      BY <1>5, <2>1, <3>1 DEF RunTop
  <2>2. CASE Len(run) = 1
    <3>1. f = Dev /\ Len(run') = 2
      BY <1>2, <1>3, <1>5, <2>2 DEF CloserTop
    <3>2. run[1] = Down /\ run'[1] = run[1]
      BY <1>2, <1>5, <2>2 DEF WInv, RunTop
    <3>3. QED
      BY <1>5, <2>2, <3>1, <3>2 DEF RunTop
  <2>3. CASE Len(run) >= 2
    <3>1. run'[1] = run[1] /\ run'[2] = run[2]
      BY <1>3, <1>5, <2>3
    <3>2. run[1] = Down /\ run[2] = Dev
      BY <1>2, <2>3 DEF WInv, RunTop
    <3>3. run'[1] = Down /\ run'[2] = Dev
      BY <3>1, <3>2
    <3>4. QED
      BY <3>3 DEF RunTop
  <2>4. Len(run) \in Nat
    BY <1>3, Zenon
  <2>5. Len(run) = 0 \/ Len(run) = 1 \/ Len(run) >= 2
    BY <2>4
  <2>6. QED
    BY <2>1, <2>2, <2>3, <2>5
<1>11. (CloserRoom /\ CloserNames /\ NotYet /\ CleanUpTakes /\ CleanUpReleases /\ CloseReleases)'
  BY <1>1, <1>2 DEF WInv, CloserRoom, CloserNames, NotYet, CleanUpTakes, CleanUpReleases, CloseReleases
<1>12. QED
  BY <1>1, <1>3, <1>5, <1>7, <1>8, <1>9, <1>10, <1>11 DEF WInv

\* The loop is over: all is closed, and nobody will close again.
LEMMA CloseEndsStep == ASSUME WInv, NEW t \in Callers, CloseEnds(t) PROVE WInv'
<1>1. /\ pc[t] = "closing" /\ idx[t] = 0 /\ closer' = <<>> /\ pc' = [pc EXCEPT ![t] = "returned"]
      /\ ret' = [ret EXCEPT ![t] = failed]
      /\ UNCHANGED <<opts, at, k, tun, ownBind, open, run, failed, idx, swapped>>
  BY DEF CloseEnds, newVars
<1>2. /\ at = "ok" /\ swapped /\ open = {}
      /\ \A u \in Callers : pc[u] = "closing" => u = t
  BY <1>1 DEF WInv, Closing, OpenListed
<1>3. \A u \in Callers : pc'[u] # "closing"
  BY <1>1, <1>2 DEF WInv, TypeOK
<1>4. closer' \in Seq(Fns) /\ Len(closer') = 0 /\ k \in Nat
  BY <1>1 DEF WInv, TypeOK
<1>5. TypeOK'
  <2>1. failed \in SUBSET Fns
    BY DEF WInv, TypeOK
  <2>2. ret' \in [Callers -> SUBSET Fns] /\ pc' \in [Callers -> {"idle", "closing", "returned"}]
    BY <1>1, <2>1 DEF WInv, TypeOK
  <2>3. UNCHANGED <<opts, at, k, tun, ownBind, open, run, failed, idx, swapped>>
    BY <1>1
  <2>4. QED
    BY <1>4, <2>2, <2>3 DEF WInv, TypeOK
<1>6. Distinct(closer')
  BY <1>4 DEF Distinct
<1>7. (CloserRoom /\ CloserNames /\ NotYet /\ CleanUpTakes /\ RunTop /\ CleanUpReleases /\ CloseReleases)'
  BY <1>1, <1>2, <1>4
     DEF WInv, CloserRoom, CloserNames, NotYet, CleanUpTakes, RunTop, CleanUpReleases, CloseReleases
<1>8. (Closing /\ OpenListed)'
  BY <1>1, <1>2, <1>3 DEF Closing, OpenListed
<1>9. QED
  BY <1>1, <1>5, <1>6, <1>7, <1>8 DEF WInv

\* A call that loses the swap only looks at the errors.
LEMMA CloseLosesStep == ASSUME WInv, NEW t \in Callers, CloseLoses(t) PROVE WInv'
<1>1. /\ pc[t] = "idle" /\ at = "ok" /\ swapped /\ pc' = [pc EXCEPT ![t] = "returned"]
      /\ \E seen \in SUBSET failed : ret' = [ret EXCEPT ![t] = seen]
      /\ UNCHANGED <<opts, at, k, tun, ownBind, closer, open, run, failed, idx, swapped>>
  BY DEF CloseLoses, newVars, resVars
<1>2. \A u \in Callers : pc'[u] = "closing" <=> pc[u] = "closing"
  BY <1>1 DEF WInv, TypeOK
<1>3. TypeOK'
  <2>1. failed \in SUBSET Fns
    BY DEF WInv, TypeOK
  <2>2. ret' \in [Callers -> SUBSET Fns]
    BY <1>1, <2>1 DEF WInv, TypeOK
  <2>3. QED
    BY <1>1, <2>2 DEF WInv, TypeOK
<1>4. (CloserRoom /\ CloserNames /\ NotYet /\ CleanUpTakes /\ RunTop /\ CleanUpReleases /\ CloseReleases)'
  BY <1>1, <1>2
     DEF WInv, CloserRoom, CloserNames, NotYet, CleanUpTakes, RunTop, CleanUpReleases, CloseReleases
<1>5. (Closing /\ OpenListed)'
  BY <1>1, <1>2 DEF WInv, Closing, OpenListed, CloserTop
<1>6. QED
  BY <1>1, <1>3, <1>4, <1>5 DEF WInv
-----------------------------------------------------------------------------
\* The invariant is one of the variables of the specification.
LEMMA StutterKeeps == ASSUME WInv, UNCHANGED vars PROVE WInv'
<1>1. UNCHANGED newVars /\ UNCHANGED resVars /\ UNCHANGED closeVars
  BY DEF vars, newVars, resVars, closeVars
<1>2. UNCHANGED <<opts, at, k, tun, ownBind, closer, open, run, failed, pc, idx, swapped, ret>>
  BY <1>1 DEF newVars, resVars, closeVars
<1>3. (Distinct(closer) /\ Distinct(run))'
  BY <1>2 DEF WInv, Distinct
<1>4. TypeOK'
  <2>1. TypeOK
    BY DEF WInv
  <2>2. QED
    BY <1>2, <2>1 DEF TypeOK
<1>5. CloserRoom'
  <2>1. CloserRoom
    BY DEF WInv
  <2>2. QED
    BY <1>2, <2>1 DEF CloserRoom
<1>6. CloserNames'
  <2>1. CloserNames
    BY DEF WInv
  <2>2. QED
    BY <1>2, <2>1 DEF CloserNames, Has
<1>7. NotYet'
  <2>1. NotYet
    BY DEF WInv
  <2>2. QED
    BY <1>2, <2>1 DEF NotYet, CloserTop
<1>8. CleanUpTakes'
  <2>1. CleanUpTakes
    BY DEF WInv
  <2>2. QED
    BY <1>2, <2>1 DEF CleanUpTakes
<1>9. Closing'
  <2>1. Closing
    BY DEF WInv
  <2>2. QED
    BY <1>2, <2>1 DEF Closing, CloserTop
<1>10. OpenListed'
  <2>1. OpenListed
    BY DEF WInv
  <2>2. QED
    BY <1>2, <2>1 DEF OpenListed
<1>11. RunTop'
  <2>1. RunTop
    BY DEF WInv
  <2>2. QED
    BY <1>2, <2>1 DEF RunTop
<1>12. CleanUpReleases'
  <2>1. CleanUpReleases
    BY DEF WInv
  <2>2. QED
    BY <1>2, <2>1 DEF CleanUpReleases
<1>13. CloseReleases'
  <2>1. CloseReleases
    BY DEF WInv
  <2>2. QED
    BY <1>2, <2>1 DEF CloseReleases
<1>14. QED
  BY <1>3, <1>4, <1>5, <1>6, <1>7, <1>8, <1>9, <1>10, <1>11, <1>12, <1>13 DEF WInv

\* Every step keeps the invariant.
LEMMA WireguardStep == ASSUME WInv, [Next]_vars PROVE WInv'
<1>1. CASE New
  <2>1. CASE Up
    <3>1. at' = "ok" \/ at' = "cleanup"
      BY <2>1 DEF Up
    <3>2. QED
      BY <2>1, <3>1, UpStep, GoesOnStep
  <2>2. QED
    BY <1>1, <2>1, ApplyOptionStep, ApplyFailsStep, GoesOnStep, MakeDeviceStep, CleanUpStep DEF New
<1>2. CASE \E t \in Callers : CloseWins(t) \/ CloseOne(t) \/ CloseEnds(t) \/ CloseLoses(t)
  BY <1>2, CloseWinsStep, CloseOneStep, CloseEndsStep, CloseLosesStep
<1>3. QED
  BY <1>1, <1>2, StutterKeeps DEF Next

\* The invariant holds always.
LEMMA WireguardInvariant == Spec => []WInv
BY WireguardInit, WireguardStep, PTL DEF Spec

\* The state of New and of the calls of Close keeps its types.
THEOREM WireguardTypeCorrect == Spec => []TypeOK
<1>1. WInv => TypeOK
  BY DEF WInv
<1>2. QED
  BY <1>1, WireguardInvariant, PTL

\* options.go, cleanUp: when New fails after its options, all it had opened is closed, for
\* any list of options, even if closers fail.
THEOREM FailureReleases == Spec => []CleanUpReleases
<1>1. WInv => CleanUpReleases
  BY DEF WInv
<1>2. QED
  BY <1>1, WireguardInvariant, PTL

\* connection.go, Close: when the call that won has returned, nothing New opened is open,
\* not even a netstack that a later option replaced.
THEOREM CloseComplete == Spec => []CloseReleases
<1>1. WInv => CloseReleases
  BY DEF WInv
<1>2. QED
  BY <1>1, WireguardInvariant, PTL

\* connection.go and options.go: no closer function is called twice, however many
\* goroutines call Close.
THEOREM ClosersCalledOnce == Spec => []CalledOnce
<1>1. WInv => CalledOnce
  BY DEF WInv, TypeOK, Distinct, CalledOnce
<1>2. QED
  BY <1>1, WireguardInvariant, PTL

\* connection.go, Close: the interface goes down before the device is closed, the device
\* before what is under it.
THEOREM TopDown == Spec => []ClosedTopDown
<1>1. WInv => ClosedTopDown
  <2> SUFFICES ASSUME WInv, at = "ok" PROVE ClosedTopDown
    BY DEF ClosedTopDown
  <2>1. /\ run \in Seq(Fns) /\ Len(run) \in Nat /\ DOMAIN run = 1..Len(run)
        /\ Len(run) >= 1 => run[1] = Down
        /\ Len(run) >= 2 => run[2] = Dev
    BY DEF WInv, TypeOK, RunTop
  <2>2. ASSUME NEW f, f # Down, NEW j \in DOMAIN run, run[j] = f
        PROVE  1 \in 1..j /\ run[1] = Down /\ j >= 2
    BY <2>1, <2>2
  <2>3. Before(Down, Dev)
    BY <2>2, Names DEF Before
  <2>4. ASSUME NEW f, f # Down PROVE Before(Dev, f)
    <3>1. ASSUME NEW j \in DOMAIN run, run[j] = f PROVE 2 \in 1..j /\ run[2] = Dev
      BY <2>1, <2>2, <2>4, <3>1
    <3>2. QED
      BY <3>1 DEF Before
  <2>5. \A i \in DOMAIN opts : Tun(i) # Down
    BY DEF Tun, Down
  <2>6. QED
    BY <2>3, <2>4, <2>5, Names DEF ClosedTopDown
<1>2. QED
  BY <1>1, WireguardInvariant, PTL
=============================================================================
