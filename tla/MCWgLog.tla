---- MODULE MCWgLog ----
\* Instances of WgLog: a chain of an events logger, an asynchronous events
\* logger and a slog whose Verbosef is nil; one routine makes any one
\* call, another two calls of a few.
EXTENDS WgLog

CONSTANTS r1, r2

\* A call with the arguments its event declares: every value is another one.
Good(e) ==
  [method |-> EventTypes[e].method, format |-> Constant(e),
   args |-> [i \in DOMAIN EventTypes[e].fields |-> <<FieldType[EventTypes[e].fields[i]], i>>]]

\* Calls no switch was written for.
Short(c) == [c EXCEPT !.args = Tail(@)]
Wrong(c, i) == [c EXCEPT !.args[i] = <<"bool", i>>]
OtherMethod(c) == [c EXCEPT !.method = IF @ = "errorf" THEN "verbosef" ELSE "errorf"]

Some == {"InterfaceStateChanged", "CreateInitiationMessageFailed"}

Odd ==
  {Short(Good(e)) : e \in Some}
    \cup UNION {{Wrong(Good(e), i) : i \in DOMAIN EventTypes[e].fields} : e \in Some}
    \cup {OtherMethod(Good(e)) : e \in Some}
    \cup {[method |-> m, format |-> Constant("a new message"), args |-> <<<<"int", 1>>>>] :
            m \in {"errorf", "verbosef"}}

Formatted ==
  [method |-> "verbosef", format |-> [text |-> "UDPGSODisabled", filled |-> <<<<"string", 1>>>>],
   args |-> <<>>]

MCCalls ==
  r1 :> ({Good(e) : e \in Formats} \cup Odd \cup {Formatted})
  @@ r2 :> {Good("PeerStarting"), Good("UpdateBind"), Good("StoppedReceivingIncoming"),
             Good("StartedReceivingIncoming")}

MCLoggers ==
  <<[kind |-> "events", async |-> FALSE, methods |-> {"verbosef", "errorf"}],
    [kind |-> "events", async |-> TRUE, methods |-> {"verbosef", "errorf"}],
    [kind |-> "slog", async |-> FALSE, methods |-> {"errorf"}]>>

MCMaxCalls == r1 :> 1 @@ r2 :> 2

MCRoutines == {r1, r2}
====
