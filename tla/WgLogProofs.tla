---------------------------- MODULE WgLogProofs -----------------------------
(***************************************************************************)
(* Theorems about WgLog, for any loggers, goroutines and calls.            *)
(***************************************************************************)
EXTENDS WgLog, TLAPS

\* What is logged, and what a logger may make of it.
Made == UNION {Calls[r] : r \in Routines}
Outputs == UNION {Output(s, c) : s \in Sinks, c \in Made}
Receipt == [from : Routines, n : Nat, what : Outputs]

LogTypes ==
  /\ logged \in [Routines -> Seq(Made)]
  /\ at \in [Routines -> 0 .. Len(Loggers)]
  /\ spawned \subseteq Sinks \X Routines \X Nat
  /\ got \in [Sinks -> Seq(Receipt)]

\* A routine within a call has made one; no routine makes more than it may.
Bounded ==
  \A r \in Routines : Len(logged[r]) <= MaxCalls[r] /\ (at[r] > 0 => Len(logged[r]) > 0)

\* Goroutines belong to asynchronous loggers and to calls that were made.
SpawnedByAsync ==
  \A p \in spawned : Loggers[p[1]].async /\ p[3] \in 1 .. Len(logged[p[2]])

\* What a logger received is its output for a call that was made.
OutputsOfCalls ==
  \A s \in Sinks : \A i \in 1 .. Len(got[s]) :
    LET g == got[s][i]
    IN  g.n \in 1 .. Len(logged[g.from]) /\ g.what \in Output(s, logged[g.from][g.n])

\* A synchronous logger that has received the call under way had its turn.
HadItsTurn ==
  \A s \in Sinks : ~Loggers[s].async =>
    \A i \in 1 .. Len(got[s]) :
      got[s][i].n = Len(logged[got[s][i].from]) => at[got[s][i].from] < s

Ordered ==
  \A s \in Sinks : ~Loggers[s].async =>
    \A i, j \in 1 .. Len(got[s]) :
      i < j /\ got[s][i].from = got[s][j].from => got[s][i].n < got[s][j].n

LogInv == LogTypes /\ Bounded /\ SpawnedByAsync /\ OutputsOfCalls /\ HadItsTurn /\ Ordered
-----------------------------------------------------------------------------
\* The invariant holds initially.
LEMMA LogInitInv == Init => LogInv
<1> SUFFICES ASSUME Init PROVE LogInv
  OBVIOUS
<1>1. \A r \in Routines : logged[r] = <<>> /\ at[r] = 0
  BY DEF Init
<1>2. spawned = {} /\ \A s \in Sinks : got[s] = <<>>
  BY DEF Init
<1>3. LogTypes
  <2>1. Len(Loggers) \in Nat
    BY LoggersAssumption
  <2>2. logged \in [Routines -> Seq(Made)] /\ got \in [Sinks -> Seq(Receipt)]
    BY DEF Init
  <2>3. at \in [Routines -> 0 .. Len(Loggers)]
    BY <2>1 DEF Init
  <2>4. QED
    BY <1>2, <2>2, <2>3 DEF LogTypes
<1>4. \A r \in Routines : Len(logged[r]) = 0
  BY <1>1
<1>5. \A s \in Sinks : Len(got[s]) = 0
  BY <1>2
<1>6. Bounded
  BY <1>1, <1>4, CallsAssumption DEF Bounded
<1>7. SpawnedByAsync /\ OutputsOfCalls /\ HadItsTurn /\ Ordered
  BY <1>2, <1>5 DEF SpawnedByAsync, OutputsOfCalls, HadItsTurn, Ordered
<1>8. QED
  BY <1>3, <1>6, <1>7 DEF LogInv

\* The i-th receipt of q was there before, or is what s has just received.
Older(q, i) == i \in 1 .. Len(got[q]) /\ got'[q][i] = got[q][i]
Newer(q, i, s, r, n) ==
  /\ q = s /\ i = Len(got[q]) + 1
  /\ got'[q][i].from = r /\ got'[q][i].n = n /\ got'[q][i].what \in Output(s, logged[r][n])

\* Receiving adds at most one record to what one logger has.
LEMMA ReceiveAdds ==
  ASSUME LogTypes, NEW s \in Sinks, NEW r \in Routines, NEW n \in 1 .. Len(logged[r]),
         Receive(s, r, n) \/ UNCHANGED got
  PROVE  /\ got' \in [Sinks -> Seq(Receipt)]
         /\ \A q \in Sinks : \A i \in 1 .. Len(got'[q]) : Older(q, i) \/ Newer(q, i, s, r, n)
<1>1. got \in [Sinks -> Seq(Receipt)] /\ \A q \in Sinks : Len(got[q]) \in Nat
  BY DEF LogTypes
<1>2. CASE UNCHANGED got
  BY <1>1, <1>2 DEF Older
<1>3. CASE Receive(s, r, n) /\ ~ UNCHANGED got
  <2> DEFINE out == Output(s, logged[r][n])
             g == [from |-> r, n |-> n, what |-> CHOOSE o \in out : TRUE]
  <2>1. out # {} /\ got' = [got EXCEPT ![s] = Append(@, g)]
    BY <1>3 DEF Receive
  <2>2. g.what \in out /\ g.from = r /\ g.n = n
    BY <2>1
  <2>3. out \subseteq Outputs
    <3>1. logged[r] \in Seq(Made)
      BY DEF LogTypes
    <3>2. logged[r][n] \in Made
      BY <3>1
    <3>3. QED
      BY <3>2 DEF Outputs
  <2>4. g \in Receipt
    <3>1. n \in Nat
      BY DEF LogTypes
    <3>2. g.what \in Outputs
      BY <2>2, <2>3
    <3>3. QED
      BY <3>1, <3>2 DEF Receipt
  <2> HIDE DEF g, out
  <2>5. got' \in [Sinks -> Seq(Receipt)]
    BY <1>1, <2>1, <2>4
  <2>6. /\ Len(got'[s]) = Len(got[s]) + 1 /\ got'[s][Len(got[s]) + 1] = g
        /\ \A i \in 1 .. Len(got[s]) : got'[s][i] = got[s][i]
        /\ \A q \in Sinks : q # s => got'[q] = got[q]
    BY <1>1, <2>1, <2>4
  <2>7. ASSUME NEW q \in Sinks, NEW i \in 1 .. Len(got'[q])
        PROVE  Older(q, i) \/ Newer(q, i, s, r, n)
    <3>1. CASE q # s
      BY <2>6, <3>1 DEF Older
    <3>2. CASE q = s /\ i = Len(got[s]) + 1
      BY <2>2, <2>6, <3>2 DEF Newer, out
    <3>3. CASE q = s /\ i # Len(got[s]) + 1
      <4>1. i \in 1 .. Len(got[s])
        BY <1>1, <2>6, <3>3
      <4>2. QED
        BY <2>6, <3>3, <4>1 DEF Older
    <3>4. QED
      BY <3>1, <3>2, <3>3
  <2>8. QED
    BY <2>5, <2>7
<1>4. QED
  BY <1>2, <1>3

\* Receiving keeps OutputsOfCalls.
LEMMA OutputsKept ==
  ASSUME LogTypes, OutputsOfCalls, UNCHANGED logged,
         NEW s \in Sinks, NEW r \in Routines, NEW n \in 1 .. Len(logged[r]),
         Receive(s, r, n) \/ UNCHANGED got
  PROVE  OutputsOfCalls'
<1> SUFFICES ASSUME NEW q \in Sinks, NEW i \in 1 .. Len(got'[q])
             PROVE  /\ got'[q][i].n \in 1 .. Len(logged[got'[q][i].from])
                    /\ got'[q][i].what \in Output(q, logged[got'[q][i].from][got'[q][i].n])
  BY DEF OutputsOfCalls
<1>1. Older(q, i) \/ Newer(q, i, s, r, n)
  BY ReceiveAdds
<1>2. CASE Older(q, i)
  BY <1>2 DEF Older, OutputsOfCalls
<1>3. CASE Newer(q, i, s, r, n)
  BY <1>3 DEF Newer
<1>4. QED
  BY <1>1, <1>2, <1>3

\* A new call is under way, and nobody has received it.
LEMMA LogStep == ASSUME LogInv, NEW r \in Routines, NEW c \in Calls[r], Log(r, c) PROVE LogInv'
<1>1. /\ at[r] = 0 /\ Len(logged[r]) < MaxCalls[r] /\ UNCHANGED spawned /\ UNCHANGED got
      /\ logged' = [logged EXCEPT ![r] = Append(@, c)] /\ at' = [at EXCEPT ![r] = Len(Loggers)]
  BY DEF Log
<1>2. LogTypes /\ logged \in [Routines -> Seq(Made)] /\ at \in [Routines -> 0 .. Len(Loggers)]
      /\ c \in Made /\ Len(Loggers) \in Nat /\ \A q \in Routines : Len(logged[q]) \in Nat
  <2>1. LogTypes /\ logged \in [Routines -> Seq(Made)] /\ at \in [Routines -> 0 .. Len(Loggers)]
    BY DEF LogInv, LogTypes
  <2>2. Len(Loggers) \in Nat
    BY LoggersAssumption
  <2>3. c \in Made
    BY DEF Made
  <2>4. \A q \in Routines : Len(logged[q]) \in Nat
    BY <2>1
  <2>5. QED
    BY <2>1, <2>2, <2>3, <2>4
<1>3. /\ logged' \in [Routines -> Seq(Made)] /\ at' \in [Routines -> 0 .. Len(Loggers)]
      /\ Len(logged'[r]) = Len(logged[r]) + 1
      /\ \A i \in 1 .. Len(logged[r]) : logged'[r][i] = logged[r][i]
      /\ \A q \in Routines : q # r => logged'[q] = logged[q] /\ at'[q] = at[q]
  BY <1>1, <1>2
<1>4. \A q \in Routines : /\ Len(logged[q]) <= Len(logged'[q])
                          /\ \A i \in 1 .. Len(logged[q]) : logged'[q][i] = logged[q][i]
  BY <1>2, <1>3
<1>5. LogTypes'
  BY <1>1, <1>2, <1>3 DEF LogTypes
<1>6. Bounded'
  <2>1. MaxCalls[r] \in Nat
    BY CallsAssumption
  <2>2. QED
    BY <1>1, <1>2, <1>3, <2>1 DEF LogInv, Bounded
<1>7. SpawnedByAsync'
  <2> SUFFICES ASSUME NEW p \in spawned
               PROVE  Loggers[p[1]].async /\ p[3] \in 1 .. Len(logged'[p[2]])
    BY <1>1 DEF SpawnedByAsync
  <2>1. p[2] \in Routines
    BY <1>2 DEF LogTypes
  <2>2. Loggers[p[1]].async /\ p[3] \in 1 .. Len(logged[p[2]])
    BY DEF LogInv, SpawnedByAsync
  <2>3. Len(logged[p[2]]) <= Len(logged'[p[2]]) /\ Len(logged[p[2]]) \in Nat /\ Len(logged'[p[2]]) \in Nat
    BY <1>2, <1>3, <1>4, <2>1
  <2>4. QED
    BY <2>2, <2>3
<1>8. ASSUME NEW s \in Sinks, NEW i \in 1 .. Len(got[s])
      PROVE  LET g == got[s][i]
             IN  /\ g.from \in Routines /\ g.n \in 1 .. Len(logged[g.from])
                 /\ g.n \in 1 .. Len(logged'[g.from]) /\ logged'[g.from][g.n] = logged[g.from][g.n]
                 /\ g.from = r => g.n # Len(logged'[r])
  <2> DEFINE g == got[s][i]
  <2>1. g \in Receipt
    BY <1>2 DEF LogTypes
  <2>2. g.from \in Routines /\ g.n \in 1 .. Len(logged[g.from])
    BY <2>1 DEF LogInv, OutputsOfCalls, Receipt
  <2> HIDE DEF g
  <2>3. Len(logged[g.from]) <= Len(logged'[g.from]) /\ Len(logged[g.from]) \in Nat /\ Len(logged'[g.from]) \in Nat
    BY <1>2, <1>3, <1>4, <2>2
  <2>4. g.n \in Nat /\ 1 <= g.n /\ g.n <= Len(logged[g.from])
    BY <2>2, <2>3
  <2>5. g.n \in 1 .. Len(logged'[g.from])
    BY <2>3, <2>4
  <2>6. logged'[g.from][g.n] = logged[g.from][g.n]
    BY <1>4, <2>2
  <2>7. g.from = r => g.n # Len(logged'[r])
    BY <1>3, <2>3, <2>4
  <2>8. QED
    BY <2>2, <2>5, <2>6, <2>7 DEF g
<1>9. OutputsOfCalls'
  <2> SUFFICES ASSUME NEW s \in Sinks, NEW i \in 1 .. Len(got[s])
               PROVE  /\ got[s][i].n \in 1 .. Len(logged'[got[s][i].from])
                      /\ got[s][i].what \in Output(s, logged'[got[s][i].from][got[s][i].n])
    BY <1>1 DEF OutputsOfCalls
  <2>1. got[s][i].what \in Output(s, logged[got[s][i].from][got[s][i].n])
    BY DEF LogInv, OutputsOfCalls
  <2>2. QED
    BY <1>8, <2>1
<1>10. HadItsTurn'
  <2> SUFFICES ASSUME NEW s \in Sinks, ~Loggers[s].async, NEW i \in 1 .. Len(got[s]),
                      got[s][i].n = Len(logged'[got[s][i].from])
               PROVE  at'[got[s][i].from] < s
    BY <1>1 DEF HadItsTurn
  <2>1. got[s][i].from \in Routines /\ got[s][i].from # r
    BY <1>8
  <2>2. QED
    BY <1>3, <2>1 DEF LogInv, HadItsTurn
<1>11. Ordered'
  BY <1>1 DEF LogInv, Ordered
<1>12. QED
  BY <1>5, <1>6, <1>7, <1>9, <1>10, <1>11 DEF LogInv

\* A logger runs in the routine: it had its turn, and receives the call after the others.
LEMMA RunSyncStep == ASSUME LogInv, NEW r \in Routines, RunSync(r) PROVE LogInv'
<1> DEFINE s == at[r]
           n == Len(logged[r])
<1>1. /\ s > 0 /\ ~Loggers[s].async /\ (Receive(s, r, n) \/ UNCHANGED got)
      /\ at' = [at EXCEPT ![r] = s - 1] /\ UNCHANGED logged /\ UNCHANGED spawned
  BY DEF RunSync, NextLogger
<1>2. LogTypes /\ logged \in [Routines -> Seq(Made)] /\ at \in [Routines -> 0 .. Len(Loggers)]
      /\ Len(Loggers) \in Nat /\ s \in Sinks /\ n \in 1 .. Len(logged[r]) /\ n \in Nat
      /\ \A q \in Sinks : q \in Nat /\ Len(got[q]) \in Nat
  <2>1. LogTypes /\ Len(Loggers) \in Nat /\ Sinks = 1 .. Len(Loggers)
    BY LoggersAssumption DEF LogInv, Sinks
  <2>2. n \in Nat /\ n > 0
    BY <1>1, <2>1 DEF LogInv, Bounded, LogTypes
  <2>3. s \in Sinks
    BY <1>1, <2>1 DEF LogTypes
  <2>4. QED
    BY <2>1, <2>2, <2>3 DEF LogTypes
<1>3. /\ got' \in [Sinks -> Seq(Receipt)]
      /\ \A q \in Sinks : \A i \in 1 .. Len(got'[q]) : Older(q, i) \/ Newer(q, i, s, r, n)
  BY <1>1, <1>2, ReceiveAdds
<1>4. at' \in [Routines -> 0 .. Len(Loggers)] /\ at'[r] = s - 1
      /\ \A q \in Routines : at'[q] <= at[q]
  BY <1>1, <1>2
<1>5. LogTypes'
  BY <1>1, <1>2, <1>3, <1>4 DEF LogTypes
<1>6. Bounded'
  BY <1>1, <1>2, <1>4 DEF LogInv, Bounded
<1>7. SpawnedByAsync'
  BY <1>1 DEF LogInv, SpawnedByAsync
<1>8. OutputsOfCalls'
  BY <1>1, <1>2, OutputsKept DEF LogInv
<1> HIDE DEF s, n
<1>9. ASSUME NEW q \in Sinks, NEW i \in 1 .. Len(got[q])
      PROVE  got[q][i].from \in Routines /\ got[q][i].n \in 1 .. Len(logged[got[q][i].from])
  <2>1. got[q][i] \in Receipt
    BY <1>2 DEF LogTypes
  <2>2. QED
    BY <2>1 DEF LogInv, OutputsOfCalls, Receipt
<1>10. HadItsTurn'
  <2> SUFFICES ASSUME NEW q \in Sinks, ~Loggers[q].async, NEW i \in 1 .. Len(got'[q]),
                      got'[q][i].n = Len(logged[got'[q][i].from])
               PROVE  at'[got'[q][i].from] < q
    BY <1>1 DEF HadItsTurn
  <2>1. CASE Older(q, i)
    <3>1. got[q][i].from \in Routines /\ at[got[q][i].from] < q /\ got'[q][i] = got[q][i] /\ q \in Nat
      BY <1>2, <1>9, <2>1 DEF LogInv, HadItsTurn, Older
    <3>2. at[got[q][i].from] \in Nat /\ at'[got[q][i].from] \in Nat /\ at'[got[q][i].from] <= at[got[q][i].from]
      BY <1>2, <1>4, <3>1
    <3>3. QED
      BY <3>1, <3>2
  <2>2. CASE Newer(q, i, s, r, n)
    BY <1>2, <1>4, <2>2 DEF Newer
  <2>3. QED
    BY <1>3, <2>1, <2>2
<1>11. Ordered'
  <2> SUFFICES ASSUME NEW q \in Sinks, ~Loggers[q].async, NEW i \in 1 .. Len(got'[q]), NEW j \in 1 .. Len(got'[q]),
                      i < j, got'[q][i].from = got'[q][j].from
               PROVE  got'[q][i].n < got'[q][j].n
    BY DEF Ordered
  <2>1. CASE Older(q, i) /\ Older(q, j)
    BY <2>1 DEF LogInv, Ordered, Older
  <2>2. CASE Older(q, i) /\ Newer(q, j, s, r, n)
    <3>1. got[q][i].from = r /\ got[q][i].n \in 1 .. Len(logged[r]) /\ got'[q][i].n = got[q][i].n
          /\ q = s /\ got'[q][j].n = n
      BY <1>9, <2>2 DEF Older, Newer
    <3>2. got[q][i].n # n
      <4>1. got[q][i].n = Len(logged[r]) => at[r] < q
        BY <2>2, <3>1 DEF LogInv, HadItsTurn, Older
      <4>2. ~(at[r] < q)
        BY <1>2, <3>1 DEF s
      <4>3. QED
        BY <4>1, <4>2 DEF n
    <3>3. QED
      BY <1>2, <3>1, <3>2 DEF n
  <2>3. CASE Newer(q, i, s, r, n)
    BY <1>2, <1>3, <2>3 DEF Older, Newer
  <2>4. QED
    BY <1>3, <2>1, <2>2, <2>3
<1>12. QED
  BY <1>5, <1>6, <1>7, <1>8, <1>10, <1>11 DEF LogInv

\* Async only starts a goroutine.
LEMMA RunAsyncStep == ASSUME LogInv, NEW r \in Routines, RunAsync(r) PROVE LogInv'
<1> DEFINE s == at[r]
           n == Len(logged[r])
<1>1. /\ s > 0 /\ Loggers[s].async /\ at' = [at EXCEPT ![r] = s - 1]
      /\ spawned' = spawned \cup {<<s, r, n>>} /\ UNCHANGED logged /\ UNCHANGED got
  BY DEF RunAsync, NextLogger
<1>2. LogTypes /\ at \in [Routines -> 0 .. Len(Loggers)] /\ Len(Loggers) \in Nat
      /\ s \in Sinks /\ n \in 1 .. Len(logged[r]) /\ n \in Nat /\ \A q \in Sinks : q \in Nat
  <2>1. LogTypes /\ Len(Loggers) \in Nat /\ Sinks = 1 .. Len(Loggers)
    BY LoggersAssumption DEF LogInv, Sinks
  <2>2. n \in Nat /\ n > 0
    BY <1>1, <2>1 DEF LogInv, Bounded, LogTypes
  <2>3. s \in Sinks
    BY <1>1, <2>1 DEF LogTypes
  <2>4. QED
    BY <2>1, <2>2, <2>3 DEF LogTypes
<1>3. at' \in [Routines -> 0 .. Len(Loggers)] /\ \A q \in Routines : at'[q] <= at[q]
  BY <1>1, <1>2
<1> HIDE DEF s, n
<1>4. LogTypes'
  <2>1. spawned' \subseteq Sinks \X Routines \X Nat
    BY <1>1, <1>2 DEF LogTypes
  <2>2. QED
    BY <1>1, <1>2, <1>3, <2>1 DEF LogTypes
<1>5. Bounded'
  BY <1>1, <1>2, <1>3 DEF LogInv, Bounded
<1>6. SpawnedByAsync'
  BY <1>1, <1>2 DEF LogInv, SpawnedByAsync
<1>7. (OutputsOfCalls /\ Ordered)'
  BY <1>1 DEF LogInv, OutputsOfCalls, Ordered
<1>8. HadItsTurn'
  <2> SUFFICES ASSUME NEW q \in Sinks, ~Loggers[q].async, NEW i \in 1 .. Len(got[q]),
                      got[q][i].n = Len(logged[got[q][i].from])
               PROVE  at'[got[q][i].from] < q
    BY <1>1 DEF HadItsTurn
  <2>1. got[q][i].from \in Routines
    <3>1. got[q][i] \in Receipt
      BY <1>2 DEF LogTypes
    <3>2. QED
      BY <3>1 DEF Receipt
  <2>2. at[got[q][i].from] < q
    BY DEF LogInv, HadItsTurn
  <2>3. at[got[q][i].from] \in Nat /\ at'[got[q][i].from] \in Nat /\ q \in Nat
    BY <1>2, <1>3, <2>1
  <2>4. QED
    BY <1>3, <2>1, <2>2, <2>3
<1>9. QED
  BY <1>4, <1>5, <1>6, <1>7, <1>8 DEF LogInv

\* A goroutine runs: only its own logger, which is not synchronous, receives.
LEMMA GoroutineStep == ASSUME LogInv, NEW p \in spawned, Goroutine(p) PROVE LogInv'
<1>1. Receive(p[1], p[2], p[3]) /\ spawned' = spawned \ {p} /\ UNCHANGED logged /\ UNCHANGED at
  BY DEF Goroutine
<1>2. LogTypes /\ p[1] \in Sinks /\ p[2] \in Routines /\ p[3] \in 1 .. Len(logged[p[2]]) /\ Loggers[p[1]].async
  BY DEF LogInv, LogTypes, SpawnedByAsync
<1>3. /\ got' \in [Sinks -> Seq(Receipt)]
      /\ \A q \in Sinks : \A i \in 1 .. Len(got'[q]) : Older(q, i) \/ Newer(q, i, p[1], p[2], p[3])
  BY <1>1, <1>2, ReceiveAdds
<1>4. \A q \in Sinks : ~Loggers[q].async => \A i \in 1 .. Len(got'[q]) : Older(q, i)
  BY <1>2, <1>3 DEF Newer
<1>5. LogTypes'
  BY <1>1, <1>2, <1>3 DEF LogTypes
<1>6. (Bounded /\ SpawnedByAsync)'
  BY <1>1 DEF LogInv, Bounded, SpawnedByAsync
<1>7. OutputsOfCalls'
  BY <1>1, <1>2, OutputsKept DEF LogInv
<1>8. (HadItsTurn /\ Ordered)'
  BY <1>1, <1>4 DEF LogInv, HadItsTurn, Ordered, Older
<1>9. QED
  BY <1>5, <1>6, <1>7, <1>8 DEF LogInv

\* Every step keeps the invariant.
LEMMA LogNext == LogInv /\ [Next]_vars => LogInv'
<1> SUFFICES ASSUME LogInv, [Next]_vars PROVE LogInv'
  OBVIOUS
<1>1. CASE UNCHANGED vars
  BY <1>1 DEF vars, LogInv, LogTypes, Bounded, SpawnedByAsync, OutputsOfCalls, HadItsTurn, Ordered
<1>2. CASE Next /\ ~ UNCHANGED vars
  BY <1>2, LogStep, RunSyncStep, RunAsyncStep, GoroutineStep DEF Next, Run, Done
<1>3. QED
  BY <1>1, <1>2

\* The invariant holds always.
LEMMA LogInvariant == Spec => []LogInv
BY LogInitInv, LogNext, PTL DEF Spec

\* multi.go and async.go: no routine logs more than it may, a logger's turn is one there is,
\* goroutines belong to asynchronous loggers and a noop logger receives nothing.
THEOREM LoggersTypeCorrect == Spec => []TypeOK
<1>1. LogInv => TypeOK
  <2> SUFFICES ASSUME LogInv PROVE TypeOK
    OBVIOUS
  <2>1. /\ LogTypes /\ Len(Loggers) \in Nat
        /\ \A r \in Routines : logged[r] \in Seq(Made) /\ at[r] \in 0 .. Len(Loggers)
        /\ \A s \in Sinks : got[s] \in Seq(Receipt)
    BY LoggersAssumption DEF LogInv, LogTypes
  <2>2. \A r \in Routines : Len(logged[r]) <= MaxCalls[r] /\ (at[r] > 0 => logged[r] # <<>>)
    BY <2>1 DEF LogInv, Bounded
  <2>3. \A p \in spawned : Loggers[p[1]].async /\ p[3] \in DOMAIN logged[p[2]]
    <3>1. \A p \in spawned : p[2] \in Routines
      BY <2>1 DEF LogTypes
    <3>2. \A r \in Routines : DOMAIN logged[r] = 1 .. Len(logged[r])
      BY <2>1
    <3>3. QED
      BY <3>1, <3>2 DEF LogInv, SpawnedByAsync
  <2>4. ASSUME NEW s \in Sinks, got[s] # <<>> PROVE Loggers[s].kind # "noop"
    <3>1. 1 \in 1 .. Len(got[s])
      BY <2>1, <2>4
    <3>2. Output(s, logged[got[s][1].from][got[s][1].n]) # {}
      BY <3>1 DEF LogInv, OutputsOfCalls
    <3>3. QED
      BY <3>2 DEF Output
  <2>5. QED
    BY <2>1, <2>2, <2>3, <2>4 DEF TypeOK
<1>2. QED
  BY <1>1, LogInvariant, PTL

\* multi.go and async.go: a synchronous logger receives the calls of a routine in the
\* order they were made, each at most once, for any loggers around it.
THEOREM SyncInOrder == Spec => []InOrder
<1>1. LogInv => InOrder
  <2> SUFFICES ASSUME LogInv, NEW s \in Sinks PROVE DOMAIN got[s] = 1 .. Len(got[s])
    BY DEF LogInv, Ordered, InOrder
  <2>1. got[s] \in Seq(Receipt)
    BY DEF LogInv, LogTypes
  <2>2. QED
    BY <2>1
<1>2. QED
  BY <1>1, LogInvariant, PTL
-----------------------------------------------------------------------------
(* The tables of the event types and of the switches.                      *)

\* Entries of a table of event types, and of a table of cases.
Row(T, names, method, fields) ==
  \A e \in names : /\ e \in DOMAIN T /\ T[e].method = method /\ T[e].fields = fields
                   /\ method = "errorf" => T[e].level = "Error"
Fills(C, names, fields, types) ==
  \A e \in names : e \in DOMAIN C /\ C[e].fields = fields /\ C[e].types = types

\* Tables of different names.
Disjoint(S) == \A f, g \in S : \A x \in DOMAIN f : x \in DOMAIN g => g = f

\* Among tables of different names each keeps its entries, ...
LEMMA Joined ==
  ASSUME NEW S, Disjoint(S), NEW f \in S, NEW x \in DOMAIN f
  PROVE  x \in DOMAIN Join(S) /\ Join(S)[x] = f[x]
BY DEF Join, Disjoint

\* ... those of event types ...
LEMMA JoinedRow ==
  ASSUME NEW S, Disjoint(S), NEW f \in S, NEW method, NEW fields, Row(f, DOMAIN f, method, fields)
  PROVE  Row(Join(S), DOMAIN f, method, fields)
BY Joined DEF Row

\* ... and those of a switch.
LEMMA JoinedFills ==
  ASSUME NEW S, Disjoint(S), NEW f \in S, NEW fields, NEW types, Fills(f, DOMAIN f, fields, types)
  PROVE  Fills(Join(S), DOMAIN f, fields, types)
BY Joined DEF Fills

\* The rows of Type ...
LEMMA TypeHas ==
  ASSUME NEW names, NEW method, NEW level, NEW fields, method = "errorf" => level = "Error"
  PROVE  LET T == Type(names, method, level, fields)
         IN  DOMAIN T = names /\ Row(T, names, method, fields)
BY DEF Type, Row

\* ... and of Case.
LEMMA CaseHas ==
  ASSUME NEW names, NEW fields, NEW types
  PROVE  LET C == Case(names, fields, types)
         IN  DOMAIN C = names /\ Fills(C, names, fields, types)
BY DEF Case, Fills

\* The events of table 1, and their methods and fields.
LEMMA Types1Rows ==
  /\ DOMAIN Types1 = {"AssumingDefaultMTU", "BindCloseFailed", "CreateCookieReplyFailed",
       "BindUpdated", "CookieResponseInvalid", "DecodeCookieReplyFailed",
       "CreateInitiationMessageFailed", "CreateResponseMessageFailed", "DeriveKeypairFailed",
       "DecryptionWorkerStopped"}
  /\ Row(Types1, {"AssumingDefaultMTU", "BindCloseFailed", "CreateCookieReplyFailed"}, "errorf",
         <<"Err">>)
  /\ Row(Types1, {"BindUpdated"}, "verbosef", <<>>)
  /\ Row(Types1, {"CookieResponseInvalid", "DecodeCookieReplyFailed"}, "verbosef", <<>>)
  /\ Row(Types1, {"CreateInitiationMessageFailed", "CreateResponseMessageFailed",
         "DeriveKeypairFailed"}, "errorf", <<"Peer", "Err">>)
  /\ Row(Types1, {"DecryptionWorkerStopped"}, "verbosef", <<"ID">>)
<1> DEFINE t1 == Type({"AssumingDefaultMTU", "BindCloseFailed", "CreateCookieReplyFailed"},
                "errorf", "Error", <<"Err">>)
           t2 == Type({"BindUpdated"}, "verbosef", "Info", <<>>)
           t3 == Type({"CookieResponseInvalid", "DecodeCookieReplyFailed"}, "verbosef", "Warn",
                <<>>)
           t4 == Type({"CreateInitiationMessageFailed", "CreateResponseMessageFailed",
                "DeriveKeypairFailed"}, "errorf", "Error", <<"Peer", "Err">>)
           t5 == Type({"DecryptionWorkerStopped"}, "verbosef", "Debug", <<"ID">>)
           S == {t1, t2, t3, t4, t5}
<1>1. Types1 = Join(S)
  BY DEF Types1
<1>2. /\ DOMAIN t1 = {"AssumingDefaultMTU", "BindCloseFailed", "CreateCookieReplyFailed"} /\
           Row(t1, DOMAIN t1, "errorf", <<"Err">>)
      /\ DOMAIN t2 = {"BindUpdated"} /\ Row(t2, DOMAIN t2, "verbosef", <<>>)
      /\ DOMAIN t3 = {"CookieResponseInvalid", "DecodeCookieReplyFailed"} /\ Row(t3, DOMAIN t3,
           "verbosef", <<>>)
      /\ DOMAIN t4 = {"CreateInitiationMessageFailed", "CreateResponseMessageFailed",
           "DeriveKeypairFailed"} /\ Row(t4, DOMAIN t4, "errorf", <<"Peer", "Err">>)
      /\ DOMAIN t5 = {"DecryptionWorkerStopped"} /\ Row(t5, DOMAIN t5, "verbosef", <<"ID">>)
  BY TypeHas
<1> HIDE DEF t1, t2, t3, t4, t5
<1>3. Disjoint(S)
  BY <1>2 DEF Disjoint
<1>4. DOMAIN Join(S) = DOMAIN t1 \cup DOMAIN t2 \cup DOMAIN t3 \cup DOMAIN t4 \cup DOMAIN t5
  BY DEF Join
<1>5. S = {t1, t2, t3, t4, t5}
  OBVIOUS
<1> HIDE DEF S
<1>6. QED
  BY <1>1, <1>2, <1>3, <1>4, <1>5, JoinedRow

\* The events of table 2, and their methods and fields.
LEMMA Types2Rows ==
  /\ DOMAIN Types2 = {"DeviceClosed", "DeviceClosing", "EventWorkerStarted", "EventWorkerStopped",
       "DroppedPacketsFromMultiSegmentRead", "HandshakeDidNotComplete", "HandshakeFlood",
       "IPv4PacketDisallowed", "HandshakeReplay", "HandshakeSendFailed"}
  /\ Row(Types2, {"DeviceClosed", "DeviceClosing", "EventWorkerStarted", "EventWorkerStopped"},
         "verbosef", <<>>)
  /\ Row(Types2, {"DroppedPacketsFromMultiSegmentRead"}, "verbosef", <<"Err">>)
  /\ Row(Types2, {"HandshakeDidNotComplete"}, "verbosef", <<"Peer", "Attempts">>)
  /\ Row(Types2, {"HandshakeFlood", "IPv4PacketDisallowed"}, "verbosef", <<"Peer">>)
  /\ Row(Types2, {"HandshakeReplay"}, "verbosef", <<"Peer", "Timestamp">>)
  /\ Row(Types2, {"HandshakeSendFailed"}, "errorf", <<"Peer", "Err">>)
<1> DEFINE t1 == Type({"DeviceClosed", "DeviceClosing", "EventWorkerStarted",
                "EventWorkerStopped"}, "verbosef", "Debug", <<>>)
           t2 == Type({"DroppedPacketsFromMultiSegmentRead"}, "verbosef", "Error", <<"Err">>)
           t3 == Type({"HandshakeDidNotComplete"}, "verbosef", "Info", <<"Peer", "Attempts">>)
           t4 == Type({"HandshakeFlood", "IPv4PacketDisallowed"}, "verbosef", "Warn", <<"Peer">>)
           t5 == Type({"HandshakeReplay"}, "verbosef", "Warn", <<"Peer", "Timestamp">>)
           t6 == Type({"HandshakeSendFailed"}, "errorf", "Error", <<"Peer", "Err">>)
           S == {t1, t2, t3, t4, t5, t6}
<1>1. Types2 = Join(S)
  BY DEF Types2
<1>2. /\ DOMAIN t1 = {"DeviceClosed", "DeviceClosing", "EventWorkerStarted", "EventWorkerStopped"}
           /\ Row(t1, DOMAIN t1, "verbosef", <<>>)
      /\ DOMAIN t2 = {"DroppedPacketsFromMultiSegmentRead"} /\ Row(t2, DOMAIN t2, "verbosef",
           <<"Err">>)
      /\ DOMAIN t3 = {"HandshakeDidNotComplete"} /\ Row(t3, DOMAIN t3, "verbosef", <<"Peer",
           "Attempts">>)
      /\ DOMAIN t4 = {"HandshakeFlood", "IPv4PacketDisallowed"} /\ Row(t4, DOMAIN t4, "verbosef",
           <<"Peer">>)
      /\ DOMAIN t5 = {"HandshakeReplay"} /\ Row(t5, DOMAIN t5, "verbosef", <<"Peer",
           "Timestamp">>)
      /\ DOMAIN t6 = {"HandshakeSendFailed"} /\ Row(t6, DOMAIN t6, "errorf", <<"Peer", "Err">>)
  BY TypeHas
<1> HIDE DEF t1, t2, t3, t4, t5, t6
<1>3. Disjoint(S)
  BY <1>2 DEF Disjoint
<1>4. DOMAIN Join(S) = DOMAIN t1 \cup DOMAIN t2 \cup DOMAIN t3 \cup DOMAIN t4 \cup DOMAIN t5 \cup
                       DOMAIN t6
  BY DEF Join
<1>5. S = {t1, t2, t3, t4, t5, t6}
  OBVIOUS
<1> HIDE DEF S
<1>6. QED
  BY <1>1, <1>2, <1>3, <1>4, <1>5, JoinedRow

\* The events of table 3, and their methods and fields.
LEMMA Types3Rows ==
  /\ DOMAIN Types3 = {"IPv6PacketDisallowed", "InitiationMessageDecodeFailed",
       "InvalidPacketInHandshakeQueue", "InterfaceCloseIgnoreRequestedState",
       "InterfaceDownRequested", "InterfaceUpRequested", "InterfaceStateChanged", "InvalidMAC1",
       "InvalidOperation", "LoadMTUFailed"}
  /\ Row(Types3, {"IPv6PacketDisallowed"}, "verbosef", <<"Peer">>)
  /\ Row(Types3, {"InitiationMessageDecodeFailed", "InvalidPacketInHandshakeQueue"}, "errorf",
         <<>>)
  /\ Row(Types3, {"InterfaceCloseIgnoreRequestedState"}, "verbosef", <<"Want">>)
  /\ Row(Types3, {"InterfaceDownRequested", "InterfaceUpRequested"}, "verbosef", <<>>)
  /\ Row(Types3, {"InterfaceStateChanged"}, "verbosef", <<"Old", "Want", "Now">>)
  /\ Row(Types3, {"InvalidMAC1"}, "verbosef", <<>>)
  /\ Row(Types3, {"InvalidOperation"}, "errorf", <<"Op">>)
  /\ Row(Types3, {"LoadMTUFailed"}, "errorf", <<"Err">>)
<1> DEFINE t1 == Type({"IPv6PacketDisallowed"}, "verbosef", "Warn", <<"Peer">>)
           t2 == Type({"InitiationMessageDecodeFailed", "InvalidPacketInHandshakeQueue"},
                "errorf", "Error", <<>>)
           t3 == Type({"InterfaceCloseIgnoreRequestedState"}, "verbosef", "Warn", <<"Want">>)
           t4 == Type({"InterfaceDownRequested", "InterfaceUpRequested"}, "verbosef", "Debug",
                <<>>)
           t5 == Type({"InterfaceStateChanged"}, "verbosef", "Info", <<"Old", "Want", "Now">>)
           t6 == Type({"InvalidMAC1"}, "verbosef", "Warn", <<>>)
           t7 == Type({"InvalidOperation"}, "errorf", "Error", <<"Op">>)
           t8 == Type({"LoadMTUFailed"}, "errorf", "Error", <<"Err">>)
           S == {t1, t2, t3, t4, t5, t6, t7, t8}
<1>1. Types3 = Join(S)
  BY DEF Types3
<1>2. /\ DOMAIN t1 = {"IPv6PacketDisallowed"} /\ Row(t1, DOMAIN t1, "verbosef", <<"Peer">>)
      /\ DOMAIN t2 = {"InitiationMessageDecodeFailed", "InvalidPacketInHandshakeQueue"} /\ Row(t2,
           DOMAIN t2, "errorf", <<>>)
      /\ DOMAIN t3 = {"InterfaceCloseIgnoreRequestedState"} /\ Row(t3, DOMAIN t3, "verbosef",
           <<"Want">>)
      /\ DOMAIN t4 = {"InterfaceDownRequested", "InterfaceUpRequested"} /\ Row(t4, DOMAIN t4,
           "verbosef", <<>>)
      /\ DOMAIN t5 = {"InterfaceStateChanged"} /\ Row(t5, DOMAIN t5, "verbosef", <<"Old", "Want",
           "Now">>)
      /\ DOMAIN t6 = {"InvalidMAC1"} /\ Row(t6, DOMAIN t6, "verbosef", <<>>)
      /\ DOMAIN t7 = {"InvalidOperation"} /\ Row(t7, DOMAIN t7, "errorf", <<"Op">>)
      /\ DOMAIN t8 = {"LoadMTUFailed"} /\ Row(t8, DOMAIN t8, "errorf", <<"Err">>)
  BY TypeHas
<1> HIDE DEF t1, t2, t3, t4, t5, t6, t7, t8
<1>3. Disjoint(S)
  BY <1>2 DEF Disjoint
<1>4. DOMAIN Join(S) = DOMAIN t1 \cup DOMAIN t2 \cup DOMAIN t3 \cup DOMAIN t4 \cup DOMAIN t5 \cup
                       DOMAIN t6 \cup DOMAIN t7 \cup DOMAIN t8
  BY DEF Join
<1>5. S = {t1, t2, t3, t4, t5, t6, t7, t8}
  OBVIOUS
<1> HIDE DEF S
<1>6. QED
  BY <1>1, <1>2, <1>3, <1>4, <1>5, JoinedRow

\* The events of table 4, and their methods and fields.
LEMMA Types4Rows ==
  /\ DOMAIN Types4 = {"MTUTooLarge", "MTUUpdated", "MessageUnknownType", "NegativeMTU",
       "PacketDataSendFailed", "PacketIPVersionInvalid", "PacketIPVersionUnknown",
       "PacketReceiveFailed", "PeerStarting", "PeerStopping", "ReceivedHandshakeInitiation"}
  /\ Row(Types4, {"MTUTooLarge"}, "verbosef", <<"MTU", "Cap">>)
  /\ Row(Types4, {"MTUUpdated"}, "verbosef", <<"MTU">>)
  /\ Row(Types4, {"MessageUnknownType"}, "verbosef", <<>>)
  /\ Row(Types4, {"NegativeMTU"}, "errorf", <<"MTU">>)
  /\ Row(Types4, {"PacketDataSendFailed"}, "errorf", <<"Peer", "Err">>)
  /\ Row(Types4, {"PacketIPVersionInvalid"}, "verbosef", <<"Peer">>)
  /\ Row(Types4, {"PacketIPVersionUnknown"}, "verbosef", <<>>)
  /\ Row(Types4, {"PacketReceiveFailed"}, "verbosef", <<"RecvName", "Err">>)
  /\ Row(Types4, {"PeerStarting", "PeerStopping", "ReceivedHandshakeInitiation"}, "verbosef",
         <<"Peer">>)
<1> DEFINE t1 == Type({"MTUTooLarge"}, "verbosef", "Warn", <<"MTU", "Cap">>)
           t2 == Type({"MTUUpdated"}, "verbosef", "Info", <<"MTU">>)
           t3 == Type({"MessageUnknownType"}, "verbosef", "Warn", <<>>)
           t4 == Type({"NegativeMTU"}, "errorf", "Error", <<"MTU">>)
           t5 == Type({"PacketDataSendFailed"}, "errorf", "Error", <<"Peer", "Err">>)
           t6 == Type({"PacketIPVersionInvalid"}, "verbosef", "Warn", <<"Peer">>)
           t7 == Type({"PacketIPVersionUnknown"}, "verbosef", "Debug", <<>>)
           t8 == Type({"PacketReceiveFailed"}, "verbosef", "Error", <<"RecvName", "Err">>)
           t9 == Type({"PeerStarting", "PeerStopping", "ReceivedHandshakeInitiation"}, "verbosef",
                "Debug", <<"Peer">>)
           S == {t1, t2, t3, t4, t5, t6, t7, t8, t9}
<1>1. Types4 = Join(S)
  BY DEF Types4
<1>2. /\ DOMAIN t1 = {"MTUTooLarge"} /\ Row(t1, DOMAIN t1, "verbosef", <<"MTU", "Cap">>)
      /\ DOMAIN t2 = {"MTUUpdated"} /\ Row(t2, DOMAIN t2, "verbosef", <<"MTU">>)
      /\ DOMAIN t3 = {"MessageUnknownType"} /\ Row(t3, DOMAIN t3, "verbosef", <<>>)
      /\ DOMAIN t4 = {"NegativeMTU"} /\ Row(t4, DOMAIN t4, "errorf", <<"MTU">>)
      /\ DOMAIN t5 = {"PacketDataSendFailed"} /\ Row(t5, DOMAIN t5, "errorf", <<"Peer", "Err">>)
      /\ DOMAIN t6 = {"PacketIPVersionInvalid"} /\ Row(t6, DOMAIN t6, "verbosef", <<"Peer">>)
      /\ DOMAIN t7 = {"PacketIPVersionUnknown"} /\ Row(t7, DOMAIN t7, "verbosef", <<>>)
      /\ DOMAIN t8 = {"PacketReceiveFailed"} /\ Row(t8, DOMAIN t8, "verbosef", <<"RecvName",
           "Err">>)
      /\ DOMAIN t9 = {"PeerStarting", "PeerStopping", "ReceivedHandshakeInitiation"} /\ Row(t9,
           DOMAIN t9, "verbosef", <<"Peer">>)
  BY TypeHas
<1> HIDE DEF t1, t2, t3, t4, t5, t6, t7, t8, t9
<1>3. Disjoint(S)
  BY <1>2 DEF Disjoint
<1>4. DOMAIN Join(S) = DOMAIN t1 \cup DOMAIN t2 \cup DOMAIN t3 \cup DOMAIN t4 \cup DOMAIN t5 \cup
                       DOMAIN t6 \cup DOMAIN t7 \cup DOMAIN t8 \cup DOMAIN t9
  BY DEF Join
<1>5. S = {t1, t2, t3, t4, t5, t6, t7, t8, t9}
  OBVIOUS
<1> HIDE DEF S
<1>6. QED
  BY <1>1, <1>2, <1>3, <1>4, <1>5, JoinedRow

\* The events of table 5, and their methods and fields.
LEMMA Types5Rows ==
  /\ DOMAIN Types5 = {"ReceivedHandshakeResponse", "ReceivingKeepalivePacket",
       "ReceivedInvalidInitiation", "ReceivedInvalidResponse", "ReceivingCookieResponse",
       "RemovingAllKeys", "RetryingHandshakeNoResponse", "ResponseMessageDecodeFailed",
       "RetryingHandshake"}
  /\ Row(Types5, {"ReceivedHandshakeResponse", "ReceivingKeepalivePacket"}, "verbosef",
         <<"Peer">>)
  /\ Row(Types5, {"ReceivedInvalidInitiation", "ReceivedInvalidResponse"}, "verbosef",
         <<"Destination">>)
  /\ Row(Types5, {"ReceivingCookieResponse"}, "verbosef", <<"Destination">>)
  /\ Row(Types5, {"RemovingAllKeys", "RetryingHandshakeNoResponse"}, "verbosef", <<"Peer",
         "Timeout">>)
  /\ Row(Types5, {"ResponseMessageDecodeFailed"}, "errorf", <<>>)
  /\ Row(Types5, {"RetryingHandshake"}, "verbosef", <<"Peer", "Timeout", "Try">>)
<1> DEFINE t1 == Type({"ReceivedHandshakeResponse", "ReceivingKeepalivePacket"}, "verbosef",
                "Debug", <<"Peer">>)
           t2 == Type({"ReceivedInvalidInitiation", "ReceivedInvalidResponse"}, "verbosef",
                "Warn", <<"Destination">>)
           t3 == Type({"ReceivingCookieResponse"}, "verbosef", "Debug", <<"Destination">>)
           t4 == Type({"RemovingAllKeys", "RetryingHandshakeNoResponse"}, "verbosef", "Debug",
                <<"Peer", "Timeout">>)
           t5 == Type({"ResponseMessageDecodeFailed"}, "errorf", "Error", <<>>)
           t6 == Type({"RetryingHandshake"}, "verbosef", "Warn", <<"Peer", "Timeout", "Try">>)
           S == {t1, t2, t3, t4, t5, t6}
<1>1. Types5 = Join(S)
  BY DEF Types5
<1>2. /\ DOMAIN t1 = {"ReceivedHandshakeResponse", "ReceivingKeepalivePacket"} /\ Row(t1, DOMAIN
           t1, "verbosef", <<"Peer">>)
      /\ DOMAIN t2 = {"ReceivedInvalidInitiation", "ReceivedInvalidResponse"} /\ Row(t2, DOMAIN
           t2, "verbosef", <<"Destination">>)
      /\ DOMAIN t3 = {"ReceivingCookieResponse"} /\ Row(t3, DOMAIN t3, "verbosef",
           <<"Destination">>)
      /\ DOMAIN t4 = {"RemovingAllKeys", "RetryingHandshakeNoResponse"} /\ Row(t4, DOMAIN t4,
           "verbosef", <<"Peer", "Timeout">>)
      /\ DOMAIN t5 = {"ResponseMessageDecodeFailed"} /\ Row(t5, DOMAIN t5, "errorf", <<>>)
      /\ DOMAIN t6 = {"RetryingHandshake"} /\ Row(t6, DOMAIN t6, "verbosef", <<"Peer", "Timeout",
           "Try">>)
  BY TypeHas
<1> HIDE DEF t1, t2, t3, t4, t5, t6
<1>3. Disjoint(S)
  BY <1>2 DEF Disjoint
<1>4. DOMAIN Join(S) = DOMAIN t1 \cup DOMAIN t2 \cup DOMAIN t3 \cup DOMAIN t4 \cup DOMAIN t5 \cup
                       DOMAIN t6
  BY DEF Join
<1>5. S = {t1, t2, t3, t4, t5, t6}
  OBVIOUS
<1> HIDE DEF S
<1>6. QED
  BY <1>1, <1>2, <1>3, <1>4, <1>5, JoinedRow

\* The events of table 6, and their methods and fields.
LEMMA Types6Rows ==
  /\ DOMAIN Types6 = {"SendCookieDenied", "SendHandshakeInitiationFailed",
       "SendingHandshakeInitiation", "SendingHandshakeResponse", "SendingKeepalivePacket",
       "SequentialReaderStopped", "SequentialReceiverStarted", "SequentialReceiverStopped",
       "SequentialSenderStarted", "StartedDecryptionWorker"}
  /\ Row(Types6, {"SendCookieDenied"}, "verbosef", <<"Destination">>)
  /\ Row(Types6, {"SendHandshakeInitiationFailed"}, "errorf", <<"Peer", "Err">>)
  /\ Row(Types6, {"SendingHandshakeInitiation", "SendingHandshakeResponse",
         "SendingKeepalivePacket", "SequentialReaderStopped", "SequentialReceiverStarted",
         "SequentialReceiverStopped", "SequentialSenderStarted"}, "verbosef", <<"Peer">>)
  /\ Row(Types6, {"StartedDecryptionWorker"}, "verbosef", <<"ID">>)
<1> DEFINE t1 == Type({"SendCookieDenied"}, "verbosef", "Warn", <<"Destination">>)
           t2 == Type({"SendHandshakeInitiationFailed"}, "errorf", "Error", <<"Peer", "Err">>)
           t3 == Type({"SendingHandshakeInitiation", "SendingHandshakeResponse",
                "SendingKeepalivePacket", "SequentialReaderStopped", "SequentialReceiverStarted",
                "SequentialReceiverStopped", "SequentialSenderStarted"}, "verbosef", "Debug",
                <<"Peer">>)
           t4 == Type({"StartedDecryptionWorker"}, "verbosef", "Debug", <<"ID">>)
           S == {t1, t2, t3, t4}
<1>1. Types6 = Join(S)
  BY DEF Types6
<1>2. /\ DOMAIN t1 = {"SendCookieDenied"} /\ Row(t1, DOMAIN t1, "verbosef", <<"Destination">>)
      /\ DOMAIN t2 = {"SendHandshakeInitiationFailed"} /\ Row(t2, DOMAIN t2, "errorf", <<"Peer",
           "Err">>)
      /\ DOMAIN t3 = {"SendingHandshakeInitiation", "SendingHandshakeResponse",
           "SendingKeepalivePacket", "SequentialReaderStopped", "SequentialReceiverStarted",
           "SequentialReceiverStopped", "SequentialSenderStarted"} /\ Row(t3, DOMAIN t3,
           "verbosef", <<"Peer">>)
      /\ DOMAIN t4 = {"StartedDecryptionWorker"} /\ Row(t4, DOMAIN t4, "verbosef", <<"ID">>)
  BY TypeHas
<1> HIDE DEF t1, t2, t3, t4
<1>3. Disjoint(S)
  BY <1>2 DEF Disjoint
<1>4. DOMAIN Join(S) = DOMAIN t1 \cup DOMAIN t2 \cup DOMAIN t3 \cup DOMAIN t4
  BY DEF Join
<1>5. S = {t1, t2, t3, t4}
  OBVIOUS
<1> HIDE DEF S
<1>6. QED
  BY <1>1, <1>2, <1>3, <1>4, <1>5, JoinedRow

\* The events of table 7, and their methods and fields.
LEMMA Types7Rows ==
  /\ DOMAIN Types7 = {"StartedEncryptionWorker", "StartedHandshakeWorker",
       "StoppedEncryptionWorker", "StoppedHandshakeWorker", "StartedReceivingIncoming",
       "StoppedReceivingIncoming", "TUNReaderStarted", "TUNReaderStopped", "TUNWriteFailed",
       "TunPacketReadFailed", "UAPIAddingAllowedIP"}
  /\ Row(Types7, {"StartedEncryptionWorker", "StartedHandshakeWorker", "StoppedEncryptionWorker",
         "StoppedHandshakeWorker"}, "verbosef", <<"ID">>)
  /\ Row(Types7, {"StartedReceivingIncoming", "StoppedReceivingIncoming"}, "verbosef",
         <<"RecvName">>)
  /\ Row(Types7, {"TUNReaderStarted", "TUNReaderStopped"}, "verbosef", <<>>)
  /\ Row(Types7, {"TUNWriteFailed", "TunPacketReadFailed"}, "errorf", <<"Err">>)
  /\ Row(Types7, {"UAPIAddingAllowedIP"}, "verbosef", <<"Peer">>)
<1> DEFINE t1 == Type({"StartedEncryptionWorker", "StartedHandshakeWorker",
                "StoppedEncryptionWorker", "StoppedHandshakeWorker"}, "verbosef", "Debug",
                <<"ID">>)
           t2 == Type({"StartedReceivingIncoming", "StoppedReceivingIncoming"}, "verbosef",
                "Debug", <<"RecvName">>)
           t3 == Type({"TUNReaderStarted", "TUNReaderStopped"}, "verbosef", "Debug", <<>>)
           t4 == Type({"TUNWriteFailed", "TunPacketReadFailed"}, "errorf", "Error", <<"Err">>)
           t5 == Type({"UAPIAddingAllowedIP"}, "verbosef", "Debug", <<"Peer">>)
           S == {t1, t2, t3, t4, t5}
<1>1. Types7 = Join(S)
  BY DEF Types7
<1>2. /\ DOMAIN t1 = {"StartedEncryptionWorker", "StartedHandshakeWorker",
           "StoppedEncryptionWorker", "StoppedHandshakeWorker"} /\ Row(t1, DOMAIN t1, "verbosef",
           <<"ID">>)
      /\ DOMAIN t2 = {"StartedReceivingIncoming", "StoppedReceivingIncoming"} /\ Row(t2, DOMAIN
           t2, "verbosef", <<"RecvName">>)
      /\ DOMAIN t3 = {"TUNReaderStarted", "TUNReaderStopped"} /\ Row(t3, DOMAIN t3, "verbosef",
           <<>>)
      /\ DOMAIN t4 = {"TUNWriteFailed", "TunPacketReadFailed"} /\ Row(t4, DOMAIN t4, "errorf",
           <<"Err">>)
      /\ DOMAIN t5 = {"UAPIAddingAllowedIP"} /\ Row(t5, DOMAIN t5, "verbosef", <<"Peer">>)
  BY TypeHas
<1> HIDE DEF t1, t2, t3, t4, t5
<1>3. Disjoint(S)
  BY <1>2 DEF Disjoint
<1>4. DOMAIN Join(S) = DOMAIN t1 \cup DOMAIN t2 \cup DOMAIN t3 \cup DOMAIN t4 \cup DOMAIN t5
  BY DEF Join
<1>5. S = {t1, t2, t3, t4, t5}
  OBVIOUS
<1> HIDE DEF S
<1>6. QED
  BY <1>1, <1>2, <1>3, <1>4, <1>5, JoinedRow

\* The events of table 8, and their methods and fields.
LEMMA Types8Rows ==
  /\ DOMAIN Types8 = {"UAPICreated", "UAPIRemovingAllAllowedIPs", "UAPIRemovingPeer",
       "UAPIUpdatingEndpoint", "UAPIUpdatingPersistentKeepalive", "UAPIUpdatingPresharedKey",
       "UAPIRemovingAllPeers", "UAPIUpdatingFWMark", "UAPIUpdatingListenPort",
       "UAPIUpdatingPrivateKey", "UDPGSODisabled"}
  /\ Row(Types8, {"UAPICreated", "UAPIRemovingAllAllowedIPs", "UAPIRemovingPeer",
         "UAPIUpdatingEndpoint", "UAPIUpdatingPersistentKeepalive", "UAPIUpdatingPresharedKey"},
         "verbosef", <<"Peer">>)
  /\ Row(Types8, {"UAPIRemovingAllPeers", "UAPIUpdatingFWMark", "UAPIUpdatingListenPort",
         "UAPIUpdatingPrivateKey"}, "verbosef", <<>>)
  /\ Row(Types8, {"UDPGSODisabled"}, "verbosef", <<"OnLAddr">>)
<1> DEFINE t1 == Type({"UAPICreated", "UAPIRemovingAllAllowedIPs", "UAPIRemovingPeer",
                "UAPIUpdatingEndpoint", "UAPIUpdatingPersistentKeepalive",
                "UAPIUpdatingPresharedKey"}, "verbosef", "Debug", <<"Peer">>)
           t2 == Type({"UAPIRemovingAllPeers", "UAPIUpdatingFWMark", "UAPIUpdatingListenPort",
                "UAPIUpdatingPrivateKey"}, "verbosef", "Debug", <<>>)
           t3 == Type({"UDPGSODisabled"}, "verbosef", "Warn", <<"OnLAddr">>)
           S == {t1, t2, t3}
<1>1. Types8 = Join(S)
  BY DEF Types8
<1>2. /\ DOMAIN t1 = {"UAPICreated", "UAPIRemovingAllAllowedIPs", "UAPIRemovingPeer",
           "UAPIUpdatingEndpoint", "UAPIUpdatingPersistentKeepalive", "UAPIUpdatingPresharedKey"}
           /\ Row(t1, DOMAIN t1, "verbosef", <<"Peer">>)
      /\ DOMAIN t2 = {"UAPIRemovingAllPeers", "UAPIUpdatingFWMark", "UAPIUpdatingListenPort",
           "UAPIUpdatingPrivateKey"} /\ Row(t2, DOMAIN t2, "verbosef", <<>>)
      /\ DOMAIN t3 = {"UDPGSODisabled"} /\ Row(t3, DOMAIN t3, "verbosef", <<"OnLAddr">>)
  BY TypeHas
<1> HIDE DEF t1, t2, t3
<1>3. Disjoint(S)
  BY <1>2 DEF Disjoint
<1>4. DOMAIN Join(S) = DOMAIN t1 \cup DOMAIN t2 \cup DOMAIN t3
  BY DEF Join
<1>5. S = {t1, t2, t3}
  OBVIOUS
<1> HIDE DEF S
<1>6. QED
  BY <1>1, <1>2, <1>3, <1>4, <1>5, JoinedRow

\* The events of table 9, and their methods and fields.
LEMMA Types9Rows ==
  /\ DOMAIN Types9 = {"UpdateBind", "Value"}
  /\ Row(Types9, {"UpdateBind", "Value"}, "errorf", <<"Err">>)
BY TypeHas DEF Types9

\* Part 1 of the switch of Verbosef: fields and types of arguments.
LEMMA VerbosefCases1Rows ==
  /\ DOMAIN VerbosefCases1 = {"BindUpdated", "CookieResponseInvalid", "DecodeCookieReplyFailed",
       "DeviceClosed", "DeviceClosing", "EventWorkerStarted", "EventWorkerStopped",
       "InterfaceDownRequested", "DecryptionWorkerStopped", "DroppedPacketsFromMultiSegmentRead",
       "HandshakeDidNotComplete", "HandshakeFlood", "IPv4PacketDisallowed",
       "IPv6PacketDisallowed", "HandshakeReplay", "InterfaceCloseIgnoreRequestedState"}
  /\ Fills(VerbosefCases1, {"BindUpdated", "CookieResponseInvalid", "DecodeCookieReplyFailed",
         "DeviceClosed", "DeviceClosing", "EventWorkerStarted", "EventWorkerStopped",
         "InterfaceDownRequested"}, <<>>, <<>>)
  /\ Fills(VerbosefCases1, {"DecryptionWorkerStopped"}, <<"ID">>, <<"int">>)
  /\ Fills(VerbosefCases1, {"DroppedPacketsFromMultiSegmentRead"}, <<"Err">>, <<"error">>)
  /\ Fills(VerbosefCases1, {"HandshakeDidNotComplete"}, <<"Peer", "Attempts">>, <<"Peer", "int">>)
  /\ Fills(VerbosefCases1, {"HandshakeFlood", "IPv4PacketDisallowed", "IPv6PacketDisallowed"},
         <<"Peer">>, <<"Peer">>)
  /\ Fills(VerbosefCases1, {"HandshakeReplay"}, <<"Peer", "Timestamp">>, <<"Peer", "Timestamp">>)
  /\ Fills(VerbosefCases1, {"InterfaceCloseIgnoreRequestedState"}, <<"Want">>, <<"Stringer">>)
<1> DEFINE t1 == Case({"BindUpdated", "CookieResponseInvalid", "DecodeCookieReplyFailed",
                "DeviceClosed", "DeviceClosing", "EventWorkerStarted", "EventWorkerStopped",
                "InterfaceDownRequested"}, <<>>, <<>>)
           t2 == Case({"DecryptionWorkerStopped"}, <<"ID">>, <<"int">>)
           t3 == Case({"DroppedPacketsFromMultiSegmentRead"}, <<"Err">>, <<"error">>)
           t4 == Case({"HandshakeDidNotComplete"}, <<"Peer", "Attempts">>, <<"Peer", "int">>)
           t5 == Case({"HandshakeFlood", "IPv4PacketDisallowed", "IPv6PacketDisallowed"},
                <<"Peer">>, <<"Peer">>)
           t6 == Case({"HandshakeReplay"}, <<"Peer", "Timestamp">>, <<"Peer", "Timestamp">>)
           t7 == Case({"InterfaceCloseIgnoreRequestedState"}, <<"Want">>, <<"Stringer">>)
           S == {t1, t2, t3, t4, t5, t6, t7}
<1>1. VerbosefCases1 = Join(S)
  BY DEF VerbosefCases1
<1>2. /\ DOMAIN t1 = {"BindUpdated", "CookieResponseInvalid", "DecodeCookieReplyFailed",
           "DeviceClosed", "DeviceClosing", "EventWorkerStarted", "EventWorkerStopped",
           "InterfaceDownRequested"} /\ Fills(t1, DOMAIN t1, <<>>, <<>>)
      /\ DOMAIN t2 = {"DecryptionWorkerStopped"} /\ Fills(t2, DOMAIN t2, <<"ID">>, <<"int">>)
      /\ DOMAIN t3 = {"DroppedPacketsFromMultiSegmentRead"} /\ Fills(t3, DOMAIN t3, <<"Err">>,
           <<"error">>)
      /\ DOMAIN t4 = {"HandshakeDidNotComplete"} /\ Fills(t4, DOMAIN t4, <<"Peer", "Attempts">>,
           <<"Peer", "int">>)
      /\ DOMAIN t5 = {"HandshakeFlood", "IPv4PacketDisallowed", "IPv6PacketDisallowed"} /\
           Fills(t5, DOMAIN t5, <<"Peer">>, <<"Peer">>)
      /\ DOMAIN t6 = {"HandshakeReplay"} /\ Fills(t6, DOMAIN t6, <<"Peer", "Timestamp">>,
           <<"Peer", "Timestamp">>)
      /\ DOMAIN t7 = {"InterfaceCloseIgnoreRequestedState"} /\ Fills(t7, DOMAIN t7, <<"Want">>,
           <<"Stringer">>)
  BY CaseHas
<1> HIDE DEF t1, t2, t3, t4, t5, t6, t7
<1>3. Disjoint(S)
  BY <1>2 DEF Disjoint
<1>4. DOMAIN Join(S) = DOMAIN t1 \cup DOMAIN t2 \cup DOMAIN t3 \cup DOMAIN t4 \cup DOMAIN t5 \cup
                       DOMAIN t6 \cup DOMAIN t7
  BY DEF Join
<1>5. S = {t1, t2, t3, t4, t5, t6, t7}
  OBVIOUS
<1> HIDE DEF S
<1>6. QED
  BY <1>1, <1>2, <1>3, <1>4, <1>5, JoinedFills

\* Part 2 of the switch of Verbosef: fields and types of arguments.
LEMMA VerbosefCases2Rows ==
  /\ DOMAIN VerbosefCases2 = {"InterfaceStateChanged", "InterfaceUpRequested", "InvalidMAC1",
       "MessageUnknownType", "PacketIPVersionUnknown", "MTUTooLarge", "MTUUpdated",
       "PacketIPVersionInvalid", "PeerStarting", "PeerStopping", "ReceivedHandshakeInitiation",
       "ReceivedHandshakeResponse", "PacketReceiveFailed"}
  /\ Fills(VerbosefCases2, {"InterfaceStateChanged"}, <<"Old", "Want", "Now">>, <<"Stringer",
         "Stringer", "Stringer">>)
  /\ Fills(VerbosefCases2, {"InterfaceUpRequested", "InvalidMAC1", "MessageUnknownType",
         "PacketIPVersionUnknown"}, <<>>, <<>>)
  /\ Fills(VerbosefCases2, {"MTUTooLarge"}, <<"MTU", "Cap">>, <<"int", "int">>)
  /\ Fills(VerbosefCases2, {"MTUUpdated"}, <<"MTU">>, <<"int">>)
  /\ Fills(VerbosefCases2, {"PacketIPVersionInvalid", "PeerStarting", "PeerStopping",
         "ReceivedHandshakeInitiation", "ReceivedHandshakeResponse"}, <<"Peer">>, <<"Peer">>)
  /\ Fills(VerbosefCases2, {"PacketReceiveFailed"}, <<"RecvName", "Err">>, <<"string", "error">>)
<1> DEFINE t1 == Case({"InterfaceStateChanged"}, <<"Old", "Want", "Now">>, <<"Stringer",
                "Stringer", "Stringer">>)
           t2 == Case({"InterfaceUpRequested", "InvalidMAC1", "MessageUnknownType",
                "PacketIPVersionUnknown"}, <<>>, <<>>)
           t3 == Case({"MTUTooLarge"}, <<"MTU", "Cap">>, <<"int", "int">>)
           t4 == Case({"MTUUpdated"}, <<"MTU">>, <<"int">>)
           t5 == Case({"PacketIPVersionInvalid", "PeerStarting", "PeerStopping",
                "ReceivedHandshakeInitiation", "ReceivedHandshakeResponse"}, <<"Peer">>,
                <<"Peer">>)
           t6 == Case({"PacketReceiveFailed"}, <<"RecvName", "Err">>, <<"string", "error">>)
           S == {t1, t2, t3, t4, t5, t6}
<1>1. VerbosefCases2 = Join(S)
  BY DEF VerbosefCases2
<1>2. /\ DOMAIN t1 = {"InterfaceStateChanged"} /\ Fills(t1, DOMAIN t1, <<"Old", "Want", "Now">>,
           <<"Stringer", "Stringer", "Stringer">>)
      /\ DOMAIN t2 = {"InterfaceUpRequested", "InvalidMAC1", "MessageUnknownType",
           "PacketIPVersionUnknown"} /\ Fills(t2, DOMAIN t2, <<>>, <<>>)
      /\ DOMAIN t3 = {"MTUTooLarge"} /\ Fills(t3, DOMAIN t3, <<"MTU", "Cap">>, <<"int", "int">>)
      /\ DOMAIN t4 = {"MTUUpdated"} /\ Fills(t4, DOMAIN t4, <<"MTU">>, <<"int">>)
      /\ DOMAIN t5 = {"PacketIPVersionInvalid", "PeerStarting", "PeerStopping",
           "ReceivedHandshakeInitiation", "ReceivedHandshakeResponse"} /\ Fills(t5, DOMAIN t5,
           <<"Peer">>, <<"Peer">>)
      /\ DOMAIN t6 = {"PacketReceiveFailed"} /\ Fills(t6, DOMAIN t6, <<"RecvName", "Err">>,
           <<"string", "error">>)
  BY CaseHas
<1> HIDE DEF t1, t2, t3, t4, t5, t6
<1>3. Disjoint(S)
  BY <1>2 DEF Disjoint
<1>4. DOMAIN Join(S) = DOMAIN t1 \cup DOMAIN t2 \cup DOMAIN t3 \cup DOMAIN t4 \cup DOMAIN t5 \cup
                       DOMAIN t6
  BY DEF Join
<1>5. S = {t1, t2, t3, t4, t5, t6}
  OBVIOUS
<1> HIDE DEF S
<1>6. QED
  BY <1>1, <1>2, <1>3, <1>4, <1>5, JoinedFills

\* Part 3 of the switch of Verbosef: fields and types of arguments.
LEMMA VerbosefCases3Rows ==
  /\ DOMAIN VerbosefCases3 = {"ReceivedInvalidInitiation", "ReceivedInvalidResponse",
       "ReceivingCookieResponse", "SendCookieDenied", "ReceivingKeepalivePacket",
       "SendingHandshakeInitiation", "SendingHandshakeResponse", "SendingKeepalivePacket",
       "RemovingAllKeys", "RetryingHandshakeNoResponse", "RetryingHandshake"}
  /\ Fills(VerbosefCases3, {"ReceivedInvalidInitiation", "ReceivedInvalidResponse",
         "ReceivingCookieResponse", "SendCookieDenied"}, <<"Destination">>, <<"string">>)
  /\ Fills(VerbosefCases3, {"ReceivingKeepalivePacket", "SendingHandshakeInitiation",
         "SendingHandshakeResponse", "SendingKeepalivePacket"}, <<"Peer">>, <<"Peer">>)
  /\ Fills(VerbosefCases3, {"RemovingAllKeys", "RetryingHandshakeNoResponse"}, <<"Peer",
         "Timeout">>, <<"Peer", "int">>)
  /\ Fills(VerbosefCases3, {"RetryingHandshake"}, <<"Peer", "Timeout", "Try">>, <<"Peer", "int",
         "uint32">>)
<1> DEFINE t1 == Case({"ReceivedInvalidInitiation", "ReceivedInvalidResponse",
                "ReceivingCookieResponse", "SendCookieDenied"}, <<"Destination">>, <<"string">>)
           t2 == Case({"ReceivingKeepalivePacket", "SendingHandshakeInitiation",
                "SendingHandshakeResponse", "SendingKeepalivePacket"}, <<"Peer">>, <<"Peer">>)
           t3 == Case({"RemovingAllKeys", "RetryingHandshakeNoResponse"}, <<"Peer", "Timeout">>,
                <<"Peer", "int">>)
           t4 == Case({"RetryingHandshake"}, <<"Peer", "Timeout", "Try">>, <<"Peer", "int",
                "uint32">>)
           S == {t1, t2, t3, t4}
<1>1. VerbosefCases3 = Join(S)
  BY DEF VerbosefCases3
<1>2. /\ DOMAIN t1 = {"ReceivedInvalidInitiation", "ReceivedInvalidResponse",
           "ReceivingCookieResponse", "SendCookieDenied"} /\ Fills(t1, DOMAIN t1,
           <<"Destination">>, <<"string">>)
      /\ DOMAIN t2 = {"ReceivingKeepalivePacket", "SendingHandshakeInitiation",
           "SendingHandshakeResponse", "SendingKeepalivePacket"} /\ Fills(t2, DOMAIN t2,
           <<"Peer">>, <<"Peer">>)
      /\ DOMAIN t3 = {"RemovingAllKeys", "RetryingHandshakeNoResponse"} /\ Fills(t3, DOMAIN t3,
           <<"Peer", "Timeout">>, <<"Peer", "int">>)
      /\ DOMAIN t4 = {"RetryingHandshake"} /\ Fills(t4, DOMAIN t4, <<"Peer", "Timeout", "Try">>,
           <<"Peer", "int", "uint32">>)
  BY CaseHas
<1> HIDE DEF t1, t2, t3, t4
<1>3. Disjoint(S)
  BY <1>2 DEF Disjoint
<1>4. DOMAIN Join(S) = DOMAIN t1 \cup DOMAIN t2 \cup DOMAIN t3 \cup DOMAIN t4
  BY DEF Join
<1>5. S = {t1, t2, t3, t4}
  OBVIOUS
<1> HIDE DEF S
<1>6. QED
  BY <1>1, <1>2, <1>3, <1>4, <1>5, JoinedFills

\* Part 4 of the switch of Verbosef: fields and types of arguments.
LEMMA VerbosefCases4Rows ==
  /\ DOMAIN VerbosefCases4 = {"SequentialReaderStopped", "SequentialReceiverStarted",
       "SequentialReceiverStopped", "SequentialSenderStarted", "UAPIAddingAllowedIP",
       "StartedDecryptionWorker", "StartedEncryptionWorker", "StartedHandshakeWorker",
       "StoppedEncryptionWorker", "StoppedHandshakeWorker", "StartedReceivingIncoming",
       "StoppedReceivingIncoming", "TUNReaderStarted", "TUNReaderStopped"}
  /\ Fills(VerbosefCases4, {"SequentialReaderStopped", "SequentialReceiverStarted",
         "SequentialReceiverStopped", "SequentialSenderStarted", "UAPIAddingAllowedIP"},
         <<"Peer">>, <<"Peer">>)
  /\ Fills(VerbosefCases4, {"StartedDecryptionWorker", "StartedEncryptionWorker",
         "StartedHandshakeWorker", "StoppedEncryptionWorker", "StoppedHandshakeWorker"}, <<"ID">>,
         <<"int">>)
  /\ Fills(VerbosefCases4, {"StartedReceivingIncoming", "StoppedReceivingIncoming"},
         <<"RecvName">>, <<"string">>)
  /\ Fills(VerbosefCases4, {"TUNReaderStarted", "TUNReaderStopped"}, <<>>, <<>>)
<1> DEFINE t1 == Case({"SequentialReaderStopped", "SequentialReceiverStarted",
                "SequentialReceiverStopped", "SequentialSenderStarted", "UAPIAddingAllowedIP"},
                <<"Peer">>, <<"Peer">>)
           t2 == Case({"StartedDecryptionWorker", "StartedEncryptionWorker",
                "StartedHandshakeWorker", "StoppedEncryptionWorker", "StoppedHandshakeWorker"},
                <<"ID">>, <<"int">>)
           t3 == Case({"StartedReceivingIncoming", "StoppedReceivingIncoming"}, <<"RecvName">>,
                <<"string">>)
           t4 == Case({"TUNReaderStarted", "TUNReaderStopped"}, <<>>, <<>>)
           S == {t1, t2, t3, t4}
<1>1. VerbosefCases4 = Join(S)
  BY DEF VerbosefCases4
<1>2. /\ DOMAIN t1 = {"SequentialReaderStopped", "SequentialReceiverStarted",
           "SequentialReceiverStopped", "SequentialSenderStarted", "UAPIAddingAllowedIP"} /\
           Fills(t1, DOMAIN t1, <<"Peer">>, <<"Peer">>)
      /\ DOMAIN t2 = {"StartedDecryptionWorker", "StartedEncryptionWorker",
           "StartedHandshakeWorker", "StoppedEncryptionWorker", "StoppedHandshakeWorker"} /\
           Fills(t2, DOMAIN t2, <<"ID">>, <<"int">>)
      /\ DOMAIN t3 = {"StartedReceivingIncoming", "StoppedReceivingIncoming"} /\ Fills(t3, DOMAIN
           t3, <<"RecvName">>, <<"string">>)
      /\ DOMAIN t4 = {"TUNReaderStarted", "TUNReaderStopped"} /\ Fills(t4, DOMAIN t4, <<>>, <<>>)
  BY CaseHas
<1> HIDE DEF t1, t2, t3, t4
<1>3. Disjoint(S)
  BY <1>2 DEF Disjoint
<1>4. DOMAIN Join(S) = DOMAIN t1 \cup DOMAIN t2 \cup DOMAIN t3 \cup DOMAIN t4
  BY DEF Join
<1>5. S = {t1, t2, t3, t4}
  OBVIOUS
<1> HIDE DEF S
<1>6. QED
  BY <1>1, <1>2, <1>3, <1>4, <1>5, JoinedFills

\* Part 5 of the switch of Verbosef: fields and types of arguments.
LEMMA VerbosefCases5Rows ==
  /\ DOMAIN VerbosefCases5 = {"UAPICreated", "UAPIRemovingAllAllowedIPs", "UAPIRemovingPeer",
       "UAPIUpdatingEndpoint", "UAPIUpdatingPersistentKeepalive", "UAPIUpdatingPresharedKey",
       "UAPIRemovingAllPeers", "UAPIUpdatingFWMark", "UAPIUpdatingListenPort",
       "UAPIUpdatingPrivateKey"}
  /\ Fills(VerbosefCases5, {"UAPICreated", "UAPIRemovingAllAllowedIPs", "UAPIRemovingPeer",
         "UAPIUpdatingEndpoint", "UAPIUpdatingPersistentKeepalive", "UAPIUpdatingPresharedKey"},
         <<"Peer">>, <<"Peer">>)
  /\ Fills(VerbosefCases5, {"UAPIRemovingAllPeers", "UAPIUpdatingFWMark",
         "UAPIUpdatingListenPort", "UAPIUpdatingPrivateKey"}, <<>>, <<>>)
<1> DEFINE t1 == Case({"UAPICreated", "UAPIRemovingAllAllowedIPs", "UAPIRemovingPeer",
                "UAPIUpdatingEndpoint", "UAPIUpdatingPersistentKeepalive",
                "UAPIUpdatingPresharedKey"}, <<"Peer">>, <<"Peer">>)
           t2 == Case({"UAPIRemovingAllPeers", "UAPIUpdatingFWMark", "UAPIUpdatingListenPort",
                "UAPIUpdatingPrivateKey"}, <<>>, <<>>)
           S == {t1, t2}
<1>1. VerbosefCases5 = Join(S)
  BY DEF VerbosefCases5
<1>2. /\ DOMAIN t1 = {"UAPICreated", "UAPIRemovingAllAllowedIPs", "UAPIRemovingPeer",
           "UAPIUpdatingEndpoint", "UAPIUpdatingPersistentKeepalive", "UAPIUpdatingPresharedKey"}
           /\ Fills(t1, DOMAIN t1, <<"Peer">>, <<"Peer">>)
      /\ DOMAIN t2 = {"UAPIRemovingAllPeers", "UAPIUpdatingFWMark", "UAPIUpdatingListenPort",
           "UAPIUpdatingPrivateKey"} /\ Fills(t2, DOMAIN t2, <<>>, <<>>)
  BY CaseHas
<1> HIDE DEF t1, t2
<1>3. Disjoint(S)
  BY <1>2 DEF Disjoint
<1>4. DOMAIN Join(S) = DOMAIN t1 \cup DOMAIN t2
  BY DEF Join
<1>5. S = {t1, t2}
  OBVIOUS
<1> HIDE DEF S
<1>6. QED
  BY <1>1, <1>2, <1>3, <1>4, <1>5, JoinedFills

\* Part 1 of the switch of Errorf: fields and types of arguments.
LEMMA ErrorfCases1Rows ==
  /\ DOMAIN ErrorfCases1 = {"AssumingDefaultMTU", "BindCloseFailed", "CreateCookieReplyFailed",
       "LoadMTUFailed", "CreateInitiationMessageFailed", "CreateResponseMessageFailed",
       "DeriveKeypairFailed", "HandshakeSendFailed", "InitiationMessageDecodeFailed",
       "InvalidPacketInHandshakeQueue", "InvalidOperation", "NegativeMTU"}
  /\ Fills(ErrorfCases1, {"AssumingDefaultMTU", "BindCloseFailed", "CreateCookieReplyFailed",
         "LoadMTUFailed"}, <<"Err">>, <<"error">>)
  /\ Fills(ErrorfCases1, {"CreateInitiationMessageFailed", "CreateResponseMessageFailed",
         "DeriveKeypairFailed", "HandshakeSendFailed"}, <<"Peer", "Err">>, <<"Peer", "error">>)
  /\ Fills(ErrorfCases1, {"InitiationMessageDecodeFailed", "InvalidPacketInHandshakeQueue"}, <<>>,
         <<>>)
  /\ Fills(ErrorfCases1, {"InvalidOperation"}, <<"Op">>, <<"string">>)
  /\ Fills(ErrorfCases1, {"NegativeMTU"}, <<"MTU">>, <<"int">>)
<1> DEFINE t1 == Case({"AssumingDefaultMTU", "BindCloseFailed", "CreateCookieReplyFailed",
                "LoadMTUFailed"}, <<"Err">>, <<"error">>)
           t2 == Case({"CreateInitiationMessageFailed", "CreateResponseMessageFailed",
                "DeriveKeypairFailed", "HandshakeSendFailed"}, <<"Peer", "Err">>, <<"Peer",
                "error">>)
           t3 == Case({"InitiationMessageDecodeFailed", "InvalidPacketInHandshakeQueue"}, <<>>,
                <<>>)
           t4 == Case({"InvalidOperation"}, <<"Op">>, <<"string">>)
           t5 == Case({"NegativeMTU"}, <<"MTU">>, <<"int">>)
           S == {t1, t2, t3, t4, t5}
<1>1. ErrorfCases1 = Join(S)
  BY DEF ErrorfCases1
<1>2. /\ DOMAIN t1 = {"AssumingDefaultMTU", "BindCloseFailed", "CreateCookieReplyFailed",
           "LoadMTUFailed"} /\ Fills(t1, DOMAIN t1, <<"Err">>, <<"error">>)
      /\ DOMAIN t2 = {"CreateInitiationMessageFailed", "CreateResponseMessageFailed",
           "DeriveKeypairFailed", "HandshakeSendFailed"} /\ Fills(t2, DOMAIN t2, <<"Peer",
           "Err">>, <<"Peer", "error">>)
      /\ DOMAIN t3 = {"InitiationMessageDecodeFailed", "InvalidPacketInHandshakeQueue"} /\
           Fills(t3, DOMAIN t3, <<>>, <<>>)
      /\ DOMAIN t4 = {"InvalidOperation"} /\ Fills(t4, DOMAIN t4, <<"Op">>, <<"string">>)
      /\ DOMAIN t5 = {"NegativeMTU"} /\ Fills(t5, DOMAIN t5, <<"MTU">>, <<"int">>)
  BY CaseHas
<1> HIDE DEF t1, t2, t3, t4, t5
<1>3. Disjoint(S)
  BY <1>2 DEF Disjoint
<1>4. DOMAIN Join(S) = DOMAIN t1 \cup DOMAIN t2 \cup DOMAIN t3 \cup DOMAIN t4 \cup DOMAIN t5
  BY DEF Join
<1>5. S = {t1, t2, t3, t4, t5}
  OBVIOUS
<1> HIDE DEF S
<1>6. QED
  BY <1>1, <1>2, <1>3, <1>4, <1>5, JoinedFills

\* Part 2 of the switch of Errorf: fields and types of arguments.
LEMMA ErrorfCases2Rows ==
  /\ DOMAIN ErrorfCases2 = {"PacketDataSendFailed", "SendHandshakeInitiationFailed",
       "ResponseMessageDecodeFailed", "TUNWriteFailed", "TunPacketReadFailed", "UpdateBind",
       "Value"}
  /\ Fills(ErrorfCases2, {"PacketDataSendFailed", "SendHandshakeInitiationFailed"}, <<"Peer",
         "Err">>, <<"Peer", "error">>)
  /\ Fills(ErrorfCases2, {"ResponseMessageDecodeFailed"}, <<>>, <<>>)
  /\ Fills(ErrorfCases2, {"TUNWriteFailed", "TunPacketReadFailed", "UpdateBind", "Value"},
         <<"Err">>, <<"error">>)
<1> DEFINE t1 == Case({"PacketDataSendFailed", "SendHandshakeInitiationFailed"}, <<"Peer",
                "Err">>, <<"Peer", "error">>)
           t2 == Case({"ResponseMessageDecodeFailed"}, <<>>, <<>>)
           t3 == Case({"TUNWriteFailed", "TunPacketReadFailed", "UpdateBind", "Value"}, <<"Err">>,
                <<"error">>)
           S == {t1, t2, t3}
<1>1. ErrorfCases2 = Join(S)
  BY DEF ErrorfCases2
<1>2. /\ DOMAIN t1 = {"PacketDataSendFailed", "SendHandshakeInitiationFailed"} /\ Fills(t1, DOMAIN
           t1, <<"Peer", "Err">>, <<"Peer", "error">>)
      /\ DOMAIN t2 = {"ResponseMessageDecodeFailed"} /\ Fills(t2, DOMAIN t2, <<>>, <<>>)
      /\ DOMAIN t3 = {"TUNWriteFailed", "TunPacketReadFailed", "UpdateBind", "Value"} /\ Fills(t3,
           DOMAIN t3, <<"Err">>, <<"error">>)
  BY CaseHas
<1> HIDE DEF t1, t2, t3
<1>3. Disjoint(S)
  BY <1>2 DEF Disjoint
<1>4. DOMAIN Join(S) = DOMAIN t1 \cup DOMAIN t2 \cup DOMAIN t3
  BY DEF Join
<1>5. S = {t1, t2, t3}
  OBVIOUS
<1> HIDE DEF S
<1>6. QED
  BY <1>1, <1>2, <1>3, <1>4, <1>5, JoinedFills

-----------------------------------------------------------------------------
\* The tables of event types.
AllTypes == {Types1, Types2, Types3, Types4, Types5, Types6, Types7, Types8, Types9}

\* The names of the events, by table.
LEMMA TypesNames ==
  /\ DOMAIN Types1 = {"AssumingDefaultMTU", "BindCloseFailed", "CreateCookieReplyFailed",
       "BindUpdated", "CookieResponseInvalid", "DecodeCookieReplyFailed",
       "CreateInitiationMessageFailed", "CreateResponseMessageFailed", "DeriveKeypairFailed",
       "DecryptionWorkerStopped"}
  /\ DOMAIN Types2 = {"DeviceClosed", "DeviceClosing", "EventWorkerStarted", "EventWorkerStopped",
       "DroppedPacketsFromMultiSegmentRead", "HandshakeDidNotComplete", "HandshakeFlood",
       "IPv4PacketDisallowed", "HandshakeReplay", "HandshakeSendFailed"}
  /\ DOMAIN Types3 = {"IPv6PacketDisallowed", "InitiationMessageDecodeFailed",
       "InvalidPacketInHandshakeQueue", "InterfaceCloseIgnoreRequestedState",
       "InterfaceDownRequested", "InterfaceUpRequested", "InterfaceStateChanged", "InvalidMAC1",
       "InvalidOperation", "LoadMTUFailed"}
  /\ DOMAIN Types4 = {"MTUTooLarge", "MTUUpdated", "MessageUnknownType", "NegativeMTU",
       "PacketDataSendFailed", "PacketIPVersionInvalid", "PacketIPVersionUnknown",
       "PacketReceiveFailed", "PeerStarting", "PeerStopping", "ReceivedHandshakeInitiation"}
  /\ DOMAIN Types5 = {"ReceivedHandshakeResponse", "ReceivingKeepalivePacket",
       "ReceivedInvalidInitiation", "ReceivedInvalidResponse", "ReceivingCookieResponse",
       "RemovingAllKeys", "RetryingHandshakeNoResponse", "ResponseMessageDecodeFailed",
       "RetryingHandshake"}
  /\ DOMAIN Types6 = {"SendCookieDenied", "SendHandshakeInitiationFailed",
       "SendingHandshakeInitiation", "SendingHandshakeResponse", "SendingKeepalivePacket",
       "SequentialReaderStopped", "SequentialReceiverStarted", "SequentialReceiverStopped",
       "SequentialSenderStarted", "StartedDecryptionWorker"}
  /\ DOMAIN Types7 = {"StartedEncryptionWorker", "StartedHandshakeWorker",
       "StoppedEncryptionWorker", "StoppedHandshakeWorker", "StartedReceivingIncoming",
       "StoppedReceivingIncoming", "TUNReaderStarted", "TUNReaderStopped", "TUNWriteFailed",
       "TunPacketReadFailed", "UAPIAddingAllowedIP"}
  /\ DOMAIN Types8 = {"UAPICreated", "UAPIRemovingAllAllowedIPs", "UAPIRemovingPeer",
       "UAPIUpdatingEndpoint", "UAPIUpdatingPersistentKeepalive", "UAPIUpdatingPresharedKey",
       "UAPIRemovingAllPeers", "UAPIUpdatingFWMark", "UAPIUpdatingListenPort",
       "UAPIUpdatingPrivateKey", "UDPGSODisabled"}
  /\ DOMAIN Types9 = {"UpdateBind", "Value"}
BY Types1Rows, Types2Rows, Types3Rows, Types4Rows, Types5Rows, Types6Rows, Types7Rows, Types8Rows,
   Types9Rows

\* The event types are those of the nine tables, which have different names.
LEMMA TypesJoined ==
  /\ Formats = UNION {DOMAIN t : t \in AllTypes}
  /\ \A e \in DOMAIN Types1 : e \in DOMAIN EventTypes /\ EventTypes[e] = Types1[e]
  /\ \A e \in DOMAIN Types2 : e \in DOMAIN EventTypes /\ EventTypes[e] = Types2[e]
  /\ \A e \in DOMAIN Types3 : e \in DOMAIN EventTypes /\ EventTypes[e] = Types3[e]
  /\ \A e \in DOMAIN Types4 : e \in DOMAIN EventTypes /\ EventTypes[e] = Types4[e]
  /\ \A e \in DOMAIN Types5 : e \in DOMAIN EventTypes /\ EventTypes[e] = Types5[e]
  /\ \A e \in DOMAIN Types6 : e \in DOMAIN EventTypes /\ EventTypes[e] = Types6[e]
  /\ \A e \in DOMAIN Types7 : e \in DOMAIN EventTypes /\ EventTypes[e] = Types7[e]
  /\ \A e \in DOMAIN Types8 : e \in DOMAIN EventTypes /\ EventTypes[e] = Types8[e]
  /\ \A e \in DOMAIN Types9 : e \in DOMAIN EventTypes /\ EventTypes[e] = Types9[e]
<1>1. EventTypes = Join(AllTypes)
  BY DEF EventTypes, AllTypes
<1>2. Disjoint(AllTypes)
  BY TypesNames DEF Disjoint, AllTypes
<1>3. Formats = UNION {DOMAIN t : t \in AllTypes}
  BY <1>1 DEF Join, Formats
<1>4. \A t \in AllTypes : \A e \in DOMAIN t : e \in DOMAIN EventTypes /\ EventTypes[e] = t[e]
  BY <1>1, <1>2, Joined
<1>5. QED
  BY <1>3, <1>4 DEF AllTypes

\* The fields of an event and the types of the arguments they are filled with.
Shape(fields, types) ==
  /\ Len(types) = Len(fields) /\ fields \in Seq(DOMAIN FieldType)
  /\ \A i \in 1..Len(fields) : types[i] = FieldType[fields[i]]
  /\ \A i, j \in 1..Len(fields) : fields[i] = fields[j] => i = j

\* The case of an event in a switch, and its type.
Fits(cases, method, e) ==
  /\ e \in Formats
  /\ EventTypes[e].method = method /\ (method = "errorf" => EventTypes[e].level = "Error")
  /\ EventTypes[e].fields = cases[e].fields
  /\ Shape(cases[e].fields, cases[e].types)

\* The shapes that occur.
LEMMA Shapes ==
  /\ Shape(<<>>, <<>>)
  /\ Shape(<<"ID">>, <<"int">>)
  /\ Shape(<<"Err">>, <<"error">>)
  /\ Shape(<<"Peer", "Attempts">>, <<"Peer", "int">>)
  /\ Shape(<<"Peer">>, <<"Peer">>)
  /\ Shape(<<"Peer", "Timestamp">>, <<"Peer", "Timestamp">>)
  /\ Shape(<<"Want">>, <<"Stringer">>)
  /\ Shape(<<"Old", "Want", "Now">>, <<"Stringer", "Stringer", "Stringer">>)
  /\ Shape(<<"MTU", "Cap">>, <<"int", "int">>)
  /\ Shape(<<"MTU">>, <<"int">>)
  /\ Shape(<<"RecvName", "Err">>, <<"string", "error">>)
  /\ Shape(<<"Destination">>, <<"string">>)
  /\ Shape(<<"Peer", "Timeout">>, <<"Peer", "int">>)
  /\ Shape(<<"Peer", "Timeout", "Try">>, <<"Peer", "int", "uint32">>)
  /\ Shape(<<"RecvName">>, <<"string">>)
  /\ Shape(<<"Peer", "Err">>, <<"Peer", "error">>)
  /\ Shape(<<"Op">>, <<"string">>)
<1>1. Shape(<<>>, <<>>)
  BY DEF Shape, FieldType
<1>2. Shape(<<"ID">>, <<"int">>)
  BY DEF Shape, FieldType
<1>3. Shape(<<"Err">>, <<"error">>)
  BY DEF Shape, FieldType
<1>4. Shape(<<"Peer", "Attempts">>, <<"Peer", "int">>)
  BY DEF Shape, FieldType
<1>5. Shape(<<"Peer">>, <<"Peer">>)
  BY DEF Shape, FieldType
<1>6. Shape(<<"Peer", "Timestamp">>, <<"Peer", "Timestamp">>)
  BY DEF Shape, FieldType
<1>7. Shape(<<"Want">>, <<"Stringer">>)
  BY DEF Shape, FieldType
<1>8. Shape(<<"Old", "Want", "Now">>, <<"Stringer", "Stringer", "Stringer">>)
  BY DEF Shape, FieldType
<1>9. Shape(<<"MTU", "Cap">>, <<"int", "int">>)
  BY DEF Shape, FieldType
<1>10. Shape(<<"MTU">>, <<"int">>)
  BY DEF Shape, FieldType
<1>11. Shape(<<"RecvName", "Err">>, <<"string", "error">>)
  BY DEF Shape, FieldType
<1>12. Shape(<<"Destination">>, <<"string">>)
  BY DEF Shape, FieldType
<1>13. Shape(<<"Peer", "Timeout">>, <<"Peer", "int">>)
  BY DEF Shape, FieldType
<1>14. Shape(<<"Peer", "Timeout", "Try">>, <<"Peer", "int", "uint32">>)
  BY DEF Shape, FieldType
<1>15. Shape(<<"RecvName">>, <<"string">>)
  BY DEF Shape, FieldType
<1>16. Shape(<<"Peer", "Err">>, <<"Peer", "error">>)
  BY DEF Shape, FieldType
<1>17. Shape(<<"Op">>, <<"string">>)
  BY DEF Shape, FieldType
<1>18. QED
  BY <1>1, <1>2, <1>3, <1>4, <1>5, <1>6, <1>7, <1>8, <1>9, <1>10, <1>11, <1>12, <1>13,
     <1>14, <1>15, <1>16, <1>17

\* A case that stores the fields of its event in their order fits it.
LEMMA RowsFit ==
  ASSUME NEW cases, NEW names, NEW method, NEW fields, NEW types, Row(EventTypes, names, method, fields),
         Fills(cases, names, fields, types), Shape(fields, types)
  PROVE  \A e \in names : Fits(cases, method, e)
BY DEF Row, Fills, Fits, Formats

\* Part 1 of the switch of Verbosef against the structs of its events.
LEMMA VerbosefCases1Fit == \A e \in DOMAIN VerbosefCases1 : Fits(VerbosefCases1, "verbosef", e)
<1>1. Row(EventTypes, {"BindUpdated", "CookieResponseInvalid", "DecodeCookieReplyFailed",
         "DeviceClosed", "DeviceClosing", "EventWorkerStarted", "EventWorkerStopped",
         "InterfaceDownRequested"}, "verbosef", <<>>)
  BY Types1Rows, Types2Rows, Types3Rows, TypesJoined DEF Row
<1>2. Row(EventTypes, {"DecryptionWorkerStopped"}, "verbosef", <<"ID">>)
  BY Types1Rows, TypesJoined DEF Row
<1>3. Row(EventTypes, {"DroppedPacketsFromMultiSegmentRead"}, "verbosef", <<"Err">>)
  BY Types2Rows, TypesJoined DEF Row
<1>4. Row(EventTypes, {"HandshakeDidNotComplete"}, "verbosef", <<"Peer", "Attempts">>)
  BY Types2Rows, TypesJoined DEF Row
<1>5. Row(EventTypes, {"HandshakeFlood", "IPv4PacketDisallowed", "IPv6PacketDisallowed"},
         "verbosef", <<"Peer">>)
  BY Types2Rows, Types3Rows, TypesJoined DEF Row
<1>6. Row(EventTypes, {"HandshakeReplay"}, "verbosef", <<"Peer", "Timestamp">>)
  BY Types2Rows, TypesJoined DEF Row
<1>7. Row(EventTypes, {"InterfaceCloseIgnoreRequestedState"}, "verbosef", <<"Want">>)
  BY Types3Rows, TypesJoined DEF Row
<1>8. QED
  BY RowsFit, Shapes, VerbosefCases1Rows, <1>1, <1>2, <1>3, <1>4, <1>5, <1>6, <1>7

\* Part 2 of the switch of Verbosef against the structs of its events.
LEMMA VerbosefCases2Fit == \A e \in DOMAIN VerbosefCases2 : Fits(VerbosefCases2, "verbosef", e)
<1>1. Row(EventTypes, {"InterfaceStateChanged"}, "verbosef", <<"Old", "Want", "Now">>)
  BY Types3Rows, TypesJoined DEF Row
<1>2. Row(EventTypes, {"InterfaceUpRequested", "InvalidMAC1", "MessageUnknownType",
         "PacketIPVersionUnknown"}, "verbosef", <<>>)
  BY Types3Rows, Types4Rows, TypesJoined DEF Row
<1>3. Row(EventTypes, {"MTUTooLarge"}, "verbosef", <<"MTU", "Cap">>)
  BY Types4Rows, TypesJoined DEF Row
<1>4. Row(EventTypes, {"MTUUpdated"}, "verbosef", <<"MTU">>)
  BY Types4Rows, TypesJoined DEF Row
<1>5. Row(EventTypes, {"PacketIPVersionInvalid", "PeerStarting", "PeerStopping",
         "ReceivedHandshakeInitiation", "ReceivedHandshakeResponse"}, "verbosef", <<"Peer">>)
  BY Types4Rows, Types5Rows, TypesJoined DEF Row
<1>6. Row(EventTypes, {"PacketReceiveFailed"}, "verbosef", <<"RecvName", "Err">>)
  BY Types4Rows, TypesJoined DEF Row
<1>7. QED
  BY RowsFit, Shapes, VerbosefCases2Rows, <1>1, <1>2, <1>3, <1>4, <1>5, <1>6

\* Part 3 of the switch of Verbosef against the structs of its events.
LEMMA VerbosefCases3Fit == \A e \in DOMAIN VerbosefCases3 : Fits(VerbosefCases3, "verbosef", e)
<1>1. Row(EventTypes, {"ReceivedInvalidInitiation", "ReceivedInvalidResponse",
         "ReceivingCookieResponse", "SendCookieDenied"}, "verbosef", <<"Destination">>)
  BY Types5Rows, Types6Rows, TypesJoined DEF Row
<1>2. Row(EventTypes, {"ReceivingKeepalivePacket", "SendingHandshakeInitiation",
         "SendingHandshakeResponse", "SendingKeepalivePacket"}, "verbosef", <<"Peer">>)
  BY Types5Rows, Types6Rows, TypesJoined DEF Row
<1>3. Row(EventTypes, {"RemovingAllKeys", "RetryingHandshakeNoResponse"}, "verbosef", <<"Peer",
         "Timeout">>)
  BY Types5Rows, TypesJoined DEF Row
<1>4. Row(EventTypes, {"RetryingHandshake"}, "verbosef", <<"Peer", "Timeout", "Try">>)
  BY Types5Rows, TypesJoined DEF Row
<1>5. QED
  BY RowsFit, Shapes, VerbosefCases3Rows, <1>1, <1>2, <1>3, <1>4

\* Part 4 of the switch of Verbosef against the structs of its events.
LEMMA VerbosefCases4Fit == \A e \in DOMAIN VerbosefCases4 : Fits(VerbosefCases4, "verbosef", e)
<1>1. Row(EventTypes, {"SequentialReaderStopped", "SequentialReceiverStarted",
         "SequentialReceiverStopped", "SequentialSenderStarted", "UAPIAddingAllowedIP"},
         "verbosef", <<"Peer">>)
  BY Types6Rows, Types7Rows, TypesJoined DEF Row
<1>2. Row(EventTypes, {"StartedDecryptionWorker", "StartedEncryptionWorker",
         "StartedHandshakeWorker", "StoppedEncryptionWorker", "StoppedHandshakeWorker"},
         "verbosef", <<"ID">>)
  BY Types6Rows, Types7Rows, TypesJoined DEF Row
<1>3. Row(EventTypes, {"StartedReceivingIncoming", "StoppedReceivingIncoming"}, "verbosef",
         <<"RecvName">>)
  BY Types7Rows, TypesJoined DEF Row
<1>4. Row(EventTypes, {"TUNReaderStarted", "TUNReaderStopped"}, "verbosef", <<>>)
  BY Types7Rows, TypesJoined DEF Row
<1>5. QED
  BY RowsFit, Shapes, VerbosefCases4Rows, <1>1, <1>2, <1>3, <1>4

\* Part 5 of the switch of Verbosef against the structs of its events.
LEMMA VerbosefCases5Fit == \A e \in DOMAIN VerbosefCases5 : Fits(VerbosefCases5, "verbosef", e)
<1>1. Row(EventTypes, {"UAPICreated", "UAPIRemovingAllAllowedIPs", "UAPIRemovingPeer",
         "UAPIUpdatingEndpoint", "UAPIUpdatingPersistentKeepalive", "UAPIUpdatingPresharedKey"},
         "verbosef", <<"Peer">>)
  BY Types8Rows, TypesJoined DEF Row
<1>2. Row(EventTypes, {"UAPIRemovingAllPeers", "UAPIUpdatingFWMark", "UAPIUpdatingListenPort",
         "UAPIUpdatingPrivateKey"}, "verbosef", <<>>)
  BY Types8Rows, TypesJoined DEF Row
<1>3. QED
  BY RowsFit, Shapes, VerbosefCases5Rows, <1>1, <1>2

\* Part 1 of the switch of Errorf against the structs of its events.
LEMMA ErrorfCases1Fit == \A e \in DOMAIN ErrorfCases1 : Fits(ErrorfCases1, "errorf", e)
<1>1. Row(EventTypes, {"AssumingDefaultMTU", "BindCloseFailed", "CreateCookieReplyFailed",
         "LoadMTUFailed"}, "errorf", <<"Err">>)
  BY Types1Rows, Types3Rows, TypesJoined DEF Row
<1>2. Row(EventTypes, {"CreateInitiationMessageFailed", "CreateResponseMessageFailed",
         "DeriveKeypairFailed", "HandshakeSendFailed"}, "errorf", <<"Peer", "Err">>)
  BY Types1Rows, Types2Rows, TypesJoined DEF Row
<1>3. Row(EventTypes, {"InitiationMessageDecodeFailed", "InvalidPacketInHandshakeQueue"},
         "errorf", <<>>)
  BY Types3Rows, TypesJoined DEF Row
<1>4. Row(EventTypes, {"InvalidOperation"}, "errorf", <<"Op">>)
  BY Types3Rows, TypesJoined DEF Row
<1>5. Row(EventTypes, {"NegativeMTU"}, "errorf", <<"MTU">>)
  BY Types4Rows, TypesJoined DEF Row
<1>6. QED
  BY RowsFit, Shapes, ErrorfCases1Rows, <1>1, <1>2, <1>3, <1>4, <1>5

\* Part 2 of the switch of Errorf against the structs of its events.
LEMMA ErrorfCases2Fit == \A e \in DOMAIN ErrorfCases2 : Fits(ErrorfCases2, "errorf", e)
<1>1. Row(EventTypes, {"PacketDataSendFailed", "SendHandshakeInitiationFailed"}, "errorf",
         <<"Peer", "Err">>)
  BY Types4Rows, Types6Rows, TypesJoined DEF Row
<1>2. Row(EventTypes, {"ResponseMessageDecodeFailed"}, "errorf", <<>>)
  BY Types5Rows, TypesJoined DEF Row
<1>3. Row(EventTypes, {"TUNWriteFailed", "TunPacketReadFailed", "UpdateBind", "Value"}, "errorf",
         <<"Err">>)
  BY Types7Rows, Types9Rows, TypesJoined DEF Row
<1>4. QED
  BY RowsFit, Shapes, ErrorfCases2Rows, <1>1, <1>2, <1>3
\* The cases of several tables of a switch fit if those of each do.
LEMMA FitsJoined ==
  ASSUME NEW S, Disjoint(S), NEW method, \A c \in S : \A e \in DOMAIN c : Fits(c, method, e)
  PROVE  \A e \in DOMAIN Join(S) : Fits(Join(S), method, e)
<1> SUFFICES ASSUME NEW e \in DOMAIN Join(S) PROVE Fits(Join(S), method, e)
  OBVIOUS
<1>1. PICK c \in S : e \in DOMAIN c
  BY DEF Join
<1>2. Join(S)[e] = c[e] /\ Fits(c, method, e)
  BY <1>1, Joined
<1>3. QED
  BY <1>2 DEF Fits

\* The names of the events, by part of the switch.
LEMMA VerbosefNames ==
  /\ DOMAIN VerbosefCases1 = {"BindUpdated", "CookieResponseInvalid", "DecodeCookieReplyFailed",
       "DeviceClosed", "DeviceClosing", "EventWorkerStarted", "EventWorkerStopped",
       "InterfaceDownRequested", "DecryptionWorkerStopped", "DroppedPacketsFromMultiSegmentRead",
       "HandshakeDidNotComplete", "HandshakeFlood", "IPv4PacketDisallowed",
       "IPv6PacketDisallowed", "HandshakeReplay", "InterfaceCloseIgnoreRequestedState"}
  /\ DOMAIN VerbosefCases2 = {"InterfaceStateChanged", "InterfaceUpRequested", "InvalidMAC1",
       "MessageUnknownType", "PacketIPVersionUnknown", "MTUTooLarge", "MTUUpdated",
       "PacketIPVersionInvalid", "PeerStarting", "PeerStopping", "ReceivedHandshakeInitiation",
       "ReceivedHandshakeResponse", "PacketReceiveFailed"}
  /\ DOMAIN VerbosefCases3 = {"ReceivedInvalidInitiation", "ReceivedInvalidResponse",
       "ReceivingCookieResponse", "SendCookieDenied", "ReceivingKeepalivePacket",
       "SendingHandshakeInitiation", "SendingHandshakeResponse", "SendingKeepalivePacket",
       "RemovingAllKeys", "RetryingHandshakeNoResponse", "RetryingHandshake"}
  /\ DOMAIN VerbosefCases4 = {"SequentialReaderStopped", "SequentialReceiverStarted",
       "SequentialReceiverStopped", "SequentialSenderStarted", "UAPIAddingAllowedIP",
       "StartedDecryptionWorker", "StartedEncryptionWorker", "StartedHandshakeWorker",
       "StoppedEncryptionWorker", "StoppedHandshakeWorker", "StartedReceivingIncoming",
       "StoppedReceivingIncoming", "TUNReaderStarted", "TUNReaderStopped"}
  /\ DOMAIN VerbosefCases5 = {"UAPICreated", "UAPIRemovingAllAllowedIPs", "UAPIRemovingPeer",
       "UAPIUpdatingEndpoint", "UAPIUpdatingPersistentKeepalive", "UAPIUpdatingPresharedKey",
       "UAPIRemovingAllPeers", "UAPIUpdatingFWMark", "UAPIUpdatingListenPort",
       "UAPIUpdatingPrivateKey"}
BY VerbosefCases1Rows, VerbosefCases2Rows, VerbosefCases3Rows, VerbosefCases4Rows,
   VerbosefCases5Rows

\* Each case of the switch of Verbosef fits the struct of its event, ...
LEMMA VerbosefFit == \A e \in DOMAIN VerbosefCases : Fits(VerbosefCases, "verbosef", e)
<1> DEFINE S == {VerbosefCases1, VerbosefCases2, VerbosefCases3, VerbosefCases4, VerbosefCases5}
<1>1. VerbosefCases = Join(S)
  BY DEF VerbosefCases
<1>2. Disjoint(S)
  BY VerbosefNames DEF Disjoint
<1>3. \A c \in S : \A e \in DOMAIN c : Fits(c, "verbosef", e)
  BY VerbosefCases1Fit, VerbosefCases2Fit, VerbosefCases3Fit, VerbosefCases4Fit, VerbosefCases5Fit
<1> HIDE DEF S
<1>4. QED
  BY <1>1, <1>2, <1>3, FitsJoined

\* ... and each case of that of Errorf.
LEMMA ErrorfFit == \A e \in DOMAIN ErrorfCases : Fits(ErrorfCases, "errorf", e)
<1> DEFINE S == {ErrorfCases1, ErrorfCases2}
<1>1. ErrorfCases = Join(S)
  BY DEF ErrorfCases
<1>2. Disjoint(S)
  BY ErrorfCases1Rows, ErrorfCases2Rows DEF Disjoint
<1>3. \A c \in S : \A e \in DOMAIN c : Fits(c, "errorf", e)
  BY ErrorfCases1Fit, ErrorfCases2Fit
<1> HIDE DEF S
<1>4. QED
  BY <1>1, <1>2, <1>3, FitsJoined

\* Every format has its case, but for that of the custom event.
LEMMA Cased ==
  \A e \in Formats :
    /\ EventTypes[e].method = "verbosef" => e \in DOMAIN VerbosefCases \cup {"UDPGSODisabled"}
    /\ EventTypes[e].method = "errorf" => e \in DOMAIN ErrorfCases
<1>1. DOMAIN VerbosefCases = DOMAIN VerbosefCases1 \cup DOMAIN VerbosefCases2
        \cup DOMAIN VerbosefCases3 \cup DOMAIN VerbosefCases4 \cup DOMAIN VerbosefCases5
  BY DEF VerbosefCases, Join
<1>2. DOMAIN ErrorfCases = DOMAIN ErrorfCases1 \cup DOMAIN ErrorfCases2
  BY DEF ErrorfCases, Join
<1> DEFINE Covers(t) == \A e \in DOMAIN t :
      /\ t[e].method = "verbosef" => e \in DOMAIN VerbosefCases \cup {"UDPGSODisabled"}
      /\ t[e].method = "errorf" => e \in DOMAIN ErrorfCases
<1>3. Covers(Types1)
  BY <1>1, <1>2, Types1Rows, ErrorfCases1Rows, VerbosefCases1Rows DEF Row
<1>4. Covers(Types2)
  BY <1>1, <1>2, Types2Rows, ErrorfCases1Rows, VerbosefCases1Rows DEF Row
<1>5. Covers(Types3)
  BY <1>1, <1>2, Types3Rows, ErrorfCases1Rows, VerbosefCases1Rows, VerbosefCases2Rows DEF Row
<1>6. Covers(Types4)
  BY <1>1, <1>2, Types4Rows, ErrorfCases1Rows, ErrorfCases2Rows, VerbosefCases2Rows DEF Row
<1>7. Covers(Types5)
  BY <1>1, <1>2, Types5Rows, ErrorfCases2Rows, VerbosefCases2Rows, VerbosefCases3Rows DEF Row
<1>8. Covers(Types6)
  BY <1>1, <1>2, Types6Rows, ErrorfCases2Rows, VerbosefCases3Rows, VerbosefCases4Rows DEF Row
<1>9. Covers(Types7)
  BY <1>1, <1>2, Types7Rows, ErrorfCases2Rows, VerbosefCases4Rows DEF Row
<1>10. Covers(Types8)
  BY <1>1, <1>2, Types8Rows, VerbosefCases5Rows DEF Row
<1>11. Covers(Types9)
  BY <1>1, <1>2, Types9Rows, ErrorfCases2Rows DEF Row
<1>12. QED
  BY TypesJoined, <1>3, <1>4, <1>5, <1>6, <1>7, <1>8, <1>9, <1>10, <1>11 DEF AllTypes

\* No event has the name of EventAny or of a line of Slog.
LEMMA Reserved == "Any" \notin Formats /\ "line" \notin Formats
BY TypesJoined, TypesNames DEF AllTypes
-----------------------------------------------------------------------------
(* What a logger makes of a call says what was logged.                     *)
Said(c, o) ==
  /\ Text(o) = Message(c.format, c.args)
  /\ c.method = "errorf" => Level(o) = "Error"
  /\ o.name # "line" =>
       /\ IsErrorf(o) = (c.method = "errorf")
       /\ Declared(c) => o.name = c.format.text

\* A sequence as a function; it is what it is after nothing.
LEMMA SeqParts ==
  ASSUME NEW T, NEW q \in Seq(T)
  PROVE  /\ Len(q) \in Nat /\ DOMAIN q = 1..Len(q) /\ q = [i \in 1..Len(q) |-> q[i]]
         /\ <<>> \o q = q /\ q \o <<>> = q
         /\ Len(q) = 1 => q # <<>> /\ q = <<q[1]>>
OBVIOUS

\* The parts of a call.
LEMMA CallParts ==
  ASSUME NEW c \in Call
  PROVE  /\ c.method \in {"verbosef", "errorf"} /\ c.format \in [text : STRING, filled : Seq(STRING \X Nat)]
         /\ c.format.filled \in Seq(STRING \X Nat) /\ c.args \in Seq(STRING \X Nat)
         /\ c.format.filled # <<>> => c.args = <<>>
         /\ c.format = [text |-> c.format.text, filled |-> c.format.filled]
BY DEF Call

\* What is not recognised is passed on as it is.
LEMMA AnySaid ==
  ASSUME NEW c \in Call, ~Declared(c)
  PROVE  Said(c, EventAny(c.method, c.format, c.args))
<1> DEFINE o == EventAny(c.method, c.format, c.args)
<1>1. o.name = "Any" /\ o.format = c.format /\ o.args = c.args /\ o.error = (c.method = "errorf")
  BY DEF EventAny
<1> HIDE DEF o
<1>2. Text(o) = Message(c.format, c.args)
  BY <1>1 DEF Text, Format, Args
<1>3. IsErrorf(o) = (c.method = "errorf")
  BY <1>1 DEF IsErrorf
<1>4. c.method = "errorf" => Level(o) = "Error"
  BY <1>1 DEF Level, SlogLevel
<1>5. QED
  BY <1>2, <1>3, <1>4 DEF Said, o

\* The arguments of an event are its fields, in the order of its type.
LEMMA EventArgs ==
  ASSUME NEW name \in Formats, NEW fields, NEW fs, NEW args, fs = EventTypes[name].fields,
         DOMAIN args = DOMAIN fs, args = [i \in DOMAIN args |-> args[i]],
         \A i \in DOMAIN fs : fields[fs[i]] = args[i]
  PROVE  Args(Event(name, fields)) = args
<1> DEFINE o == Event(name, fields)
<1>1. o.name = name /\ o.fields = fields
  BY DEF Event
<1> HIDE DEF o
<1>2. name # "Any"
  BY Reserved
<1>3. Args(o) = [i \in DOMAIN fs |-> fields[fs[i]]]
  BY <1>1, <1>2 DEF Args
<1>4. QED
  BY <1>3 DEF o

\* An event says the format of its type, and the arguments in their order.
LEMMA EventSaid ==
  ASSUME NEW c \in Call, NEW fields, NEW name \in Formats, name = c.format.text,
         EventTypes[name].method = c.method, c.method = "errorf" => EventTypes[name].level = "Error",
         Args(Event(name, fields)) = c.format.filled \o c.args
  PROVE  Said(c, Event(name, fields))
<1> DEFINE o == Event(name, fields)
<1>1. o.name = name /\ o.fields = fields
  BY DEF Event
<1> HIDE DEF o
<1>2. name # "Any" /\ name # "line"
  BY Reserved
<1>3. Args(o) = c.format.filled \o c.args
  BY DEF o
<1>4. Format(o) = Constant(name)
  BY <1>1, <1>2 DEF Format
<1>5. Text(o) = Message(c.format, c.args)
  <2>1. Text(o) = <<name, <<>> \o (c.format.filled \o c.args)>>
    <3>1. Format(o).text = name /\ Format(o).filled = <<>>
      BY <1>4 DEF Constant
    <3>2. QED
      BY <1>1, <1>2, <1>3, <3>1 DEF Text, Message
  <2>2. <<>> \o (c.format.filled \o c.args) = c.format.filled \o c.args
    <3> DEFINE T == STRING \X Nat
    <3>1. c.format.filled \in Seq(T) /\ c.args \in Seq(T)
      BY CallParts
    <3> HIDE DEF T
    <3>2. c.format.filled \o c.args \in Seq(T)
      BY <3>1
    <3>3. QED
      BY <3>2, SeqParts
  <2>3. QED
    BY <2>1, <2>2 DEF Message
<1>6. IsErrorf(o) = (c.method = "errorf")
  BY <1>1, <1>2 DEF IsErrorf
<1>7. c.method = "errorf" => Level(o) = "Error"
  BY <1>1, <1>2 DEF Level, SlogLevel
<1>8. QED
  BY <1>1, <1>5, <1>6, <1>7 DEF Said, o

\* A case of a switch.
LEMMA RecogniseSaid ==
  ASSUME NEW c \in Call, NEW cases, c.format.filled = <<>>, Fits(cases, c.method, c.format.text)
  PROVE  Said(c, Recognise(c.method, cases, c.format, c.args))
<1> DEFINE name == c.format.text
           fs == cases[name].fields
           ts == cases[name].types
           n == Len(fs)
<1>1. /\ name = c.format.text /\ name \in Formats /\ EventTypes[name].method = c.method
      /\ c.method = "errorf" => EventTypes[name].level = "Error"
      /\ EventTypes[name].fields = fs
      /\ Len(ts) = n /\ n \in Nat /\ DOMAIN fs = 1..n
      /\ \A i \in 1..n : ts[i] = FieldType[fs[i]]
      /\ \A i, j \in 1..n : fs[i] = fs[j] => i = j
  BY DEF Fits, Shape
<1>2. /\ Len(c.args) \in Nat /\ DOMAIN c.args = 1..Len(c.args) /\ <<>> \o c.args = c.args
      /\ c.args = [i \in 1..Len(c.args) |-> c.args[i]]
  <2> DEFINE T == STRING \X Nat
  <2>1. c.args \in Seq(T)
    BY CallParts
  <2> HIDE DEF T
  <2>2. QED
    BY <2>1, SeqParts
<1> DEFINE Match == /\ Len(c.args) = Len(ts)
                    /\ \A i \in DOMAIN c.args : Asserts(c.args[i], ts[i])
           fields == [f \in {fs[i] : i \in DOMAIN c.args} |->
                        c.args[CHOOSE i \in DOMAIN c.args : fs[i] = f]]
<1>3. Recognise(c.method, cases, c.format, c.args) =
        IF Match THEN Event(name, fields) ELSE EventAny(c.method, c.format, c.args)
  BY DEF Recognise
<1> HIDE DEF name, fs, ts, n
<1>4. CASE Match
  <2>1. Len(c.args) = n /\ DOMAIN c.args = DOMAIN fs
    BY <1>1, <1>2, <1>4
  <2> HIDE DEF Match
  <2>2. ASSUME NEW i \in DOMAIN fs PROVE (CHOOSE j \in DOMAIN c.args : fs[j] = fs[i]) = i
    <3> DEFINE j == CHOOSE j \in DOMAIN c.args : fs[j] = fs[i]
    <3>1. j \in DOMAIN c.args /\ fs[j] = fs[i]
      BY <2>1
    <3> HIDE DEF j
    <3>2. j = i
      BY <1>1, <2>1, <3>1
    <3>3. QED
      BY <3>2 DEF j
  <2>3. \A i \in DOMAIN fs : fields[fs[i]] = c.args[i]
    BY <2>1, <2>2
  <2> HIDE DEF fields
  <2>4. c.args = [i \in DOMAIN c.args |-> c.args[i]]
    BY <1>2
  <2>5. Args(Event(name, fields)) = c.format.filled \o c.args
    <3>1. c.format.filled \o c.args = c.args
      BY <1>2
    <3>2. fs = EventTypes[name].fields /\ name \in Formats
      BY <1>1
    <3>3. Args(Event(name, fields)) = c.args
      BY <2>1, <2>3, <2>4, <3>2, EventArgs
    <3>4. QED
      BY <3>1, <3>3
  <2>6. Said(c, Event(name, fields))
    BY <1>1, <2>5, EventSaid
  <2>7. QED
    BY <1>3, <1>4, <2>6
<1>5. CASE ~Match
  <2>1. ~Declared(c)
    BY <1>1, <1>2, <1>5 DEF Declared
  <2>2. QED
    BY <1>3, <1>5, <2>1, AnySaid
<1>6. QED
  BY <1>4, <1>5

\* Errorf of Events, ...
LEMMA ErrorfSaid ==
  ASSUME NEW c \in Call, c.method = "errorf", NEW o \in EventsErrorf(c.format, c.args)
  PROVE  Said(c, o)
<1>1. CASE c.format.filled = <<>> /\ c.format.text \in DOMAIN ErrorfCases
  <2>1. o = Recognise(c.method, ErrorfCases, c.format, c.args)
    BY <1>1 DEF EventsErrorf
  <2>2. QED
    BY <1>1, <2>1, ErrorfFit, RecogniseSaid
<1>2. CASE ~(c.format.filled = <<>> /\ c.format.text \in DOMAIN ErrorfCases)
  <2>1. o = EventAny(c.method, c.format, c.args)
    BY <1>2 DEF EventsErrorf
  <2>2. ~Declared(c)
    BY <1>2, Cased DEF Declared
  <2>3. QED
    BY <2>1, <2>2, AnySaid
<1>3. QED
  BY <1>1, <1>2

\* ... and Verbosef.
LEMMA VerbosefSaid ==
  ASSUME NEW c \in Call, c.method = "verbosef", NEW o \in EventsVerbosef(c.format, c.args)
  PROVE  Said(c, o)
<1>1. CASE c.format.filled = <<>> /\ c.format.text \in DOMAIN VerbosefCases
  <2>1. o = Recognise(c.method, VerbosefCases, c.format, c.args)
    BY <1>1 DEF EventsVerbosef
  <2>2. QED
    BY <1>1, <2>1, VerbosefFit, RecogniseSaid
<1>2. CASE ~(c.format.filled = <<>> /\ c.format.text \in DOMAIN VerbosefCases)
  <2>1. c.format # Constant("UDPGSODisabled")
    BY <1>2 DEF EventsVerbosef
  <2>2. CASE ParseUDPGSODisabled(c.format)
    <3> DEFINE fields == [f \in {"OnLAddr"} |-> c.format.filled[1]]
    <3>1. o = Event("UDPGSODisabled", fields)
      BY <1>2, <2>1, <2>2 DEF EventsVerbosef
    <3>2. /\ "UDPGSODisabled" \in Formats /\ EventTypes["UDPGSODisabled"].method = "verbosef"
          /\ EventTypes["UDPGSODisabled"].fields = <<"OnLAddr">>
      BY TypesJoined, Types8Rows DEF Row, Formats
    <3>3. c.format.text = "UDPGSODisabled" /\ Len(c.format.filled) = 1 /\ c.args = <<>>
      BY <2>2, CallParts, SeqParts DEF ParseUDPGSODisabled
    <3>4. Args(Event("UDPGSODisabled", fields)) = c.format.filled \o c.args
      <4>1. c.format.filled \o c.args = <<c.format.filled[1]>>
        BY <3>3, CallParts, SeqParts
      <4>2. fields["OnLAddr"] = c.format.filled[1]
        OBVIOUS
      <4> HIDE DEF fields
      <4>3. \A i \in DOMAIN <<"OnLAddr">> : fields[<<"OnLAddr">>[i]] = <<c.format.filled[1]>>[i]
        BY <4>2
      <4>4. QED
        BY <3>2, <4>1, <4>3, EventArgs
    <3> HIDE DEF fields
    <3>5. QED
      BY <3>1, <3>2, <3>3, <3>4, EventSaid
  <2>3. CASE ~ParseUDPGSODisabled(c.format)
    <3>1. o = EventAny(c.method, c.format, c.args)
      BY <1>2, <2>1, <2>3 DEF EventsVerbosef
    <3>2. ~Declared(c)
      BY <1>2, <2>1, Cased, CallParts DEF Declared, Constant
    <3>3. QED
      BY <3>1, <3>2, AnySaid
  <2>4. QED
    BY <2>2, <2>3
<1>3. QED
  BY <1>1, <1>2

\* Whatever a logger makes of a call.
LEMMA OutputSaid ==
  ASSUME NEW s \in Sinks, NEW c \in Call, NEW o \in Output(s, c)
  PROVE  Said(c, o)
<1>1. CASE Loggers[s].kind = "events"
  <2>1. Output(s, c) = IF c.method = "errorf" THEN EventsErrorf(c.format, c.args)
                                              ELSE EventsVerbosef(c.format, c.args)
    BY <1>1 DEF Output
  <2>2. QED
    BY <2>1, CallParts, ErrorfSaid, VerbosefSaid
<1>2. CASE Loggers[s].kind = "slog"
  <2>1. o = SlogLine(c)
    BY <1>2 DEF Output
  <2>2. /\ o.name = "line" /\ o.message = Message(c.format, c.args)
        /\ c.method = "errorf" => o.level = "Error"
    BY <2>1 DEF SlogLine
  <2>3. QED
    BY <2>2 DEF Said, Text, Level
<1>3. CASE Loggers[s].kind \notin {"events", "slog"}
  <2>1. Output(s, c) = {}
    BY <1>3 DEF Output
  <2>2. QED
    BY <2>1
<1>4. QED
  BY <1>1, <1>2, <1>3

\* wgevents and slog.go: what a logger received says what was logged, for any loggers and
\* any calls of any goroutines.
THEOREM EventsFaithful == Spec => []Faithful
<1>1. LogInv => Faithful
  <2> SUFFICES ASSUME LogInv, NEW s \in Sinks, NEW i \in DOMAIN got[s]
               PROVE  Said(logged[got[s][i].from][got[s][i].n], got[s][i].what)
    BY DEF Faithful, Said
  <2> DEFINE g == got[s][i]
             c == logged[g.from][g.n]
  <2>1. got[s] \in Seq(Receipt) /\ i \in 1 .. Len(got[s])
    BY DEF LogInv, LogTypes
  <2>2. g.from \in Routines /\ g.n \in 1 .. Len(logged[g.from]) /\ g.what \in Output(s, c)
    <3>1. g \in Receipt
      BY <2>1
    <3>2. QED
      BY <2>1, <3>1 DEF LogInv, OutputsOfCalls, Receipt
  <2>3. c \in Made
    BY <2>2 DEF LogInv, LogTypes
  <2>4. c \in Call
    BY <2>3, CallsAssumption DEF Made
  <2>5. QED
    BY <2>2, <2>4, OutputSaid
<1>2. QED
  BY <1>1, LogInvariant, PTL
=============================================================================
