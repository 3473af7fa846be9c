----------------------------- MODULE AcceptPort -----------------------------
(***************************************************************************)
(* What a net.Listener fed by a channel promises its callers, without the  *)
(* locks and channels that provide it.  A port is open until it is closed  *)
(* once, for one reason.  A caller waiting in Accept leaves either with a  *)
(* connection nobody else has received, or with the reason of the port it  *)
(* waits on.  ChannelListener implements this module.                      *)
(***************************************************************************)
CONSTANTS Ports, Callers, Conns, Reasons, None

VARIABLES
    reason,     \* reason[p]: why p was closed, None while it is open
    waiting,    \* the callers that are inside Accept
    port,       \* port[t]: the port of t's latest call
    outcome,    \* outcome[t]: what t's latest Accept returned, None before
    fate        \* fate[c]: "new", "offered", "taken" or "dropped"

portVars == <<reason, waiting, port, outcome, fate>>

Init == /\ reason = [p \in Ports |-> None]
        /\ waiting = {}
        /\ port \in [Callers -> Ports]
        /\ outcome = [t \in Callers |-> None]
        /\ fate = [c \in Conns |-> "new"]

\* A caller enters a call on p: Accept keeps it waiting, any other call does not.
Call(t, p) == /\ t \notin waiting
              /\ port' = [port EXCEPT ![t] = p]
              /\ outcome' = [outcome EXCEPT ![t] = None]
              /\ waiting' \in {waiting, waiting \cup {t}}
              /\ UNCHANGED <<reason, fate>>

\* One waiting caller receives a connection on offer.
Deliver(t, c) == /\ t \in waiting
                 /\ fate[c] = "offered"
                 /\ fate' = [fate EXCEPT ![c] = "taken"]
                 /\ outcome' = [outcome EXCEPT ![t] = c]
                 /\ waiting' = waiting \ {t}
                 /\ UNCHANGED <<reason, port>>

\* A waiting caller is turned away with the reason of its closed port.
Refuse(t) == /\ t \in waiting
             /\ reason[port[t]] # None
             /\ outcome' = [outcome EXCEPT ![t] = reason[port[t]]]
             /\ waiting' = waiting \ {t}
             /\ UNCHANGED <<reason, port, fate>>

\* The first close of an open port fixes its reason.
Close(p, r) == /\ reason[p] = None
               /\ reason' = [reason EXCEPT ![p] = r]
               /\ UNCHANGED <<waiting, port, outcome, fate>>

\* The producer side: a connection is put on offer, or taken off again.
Offer(c) == /\ fate[c] = "new"
            /\ fate' = [fate EXCEPT ![c] = "offered"]
            /\ UNCHANGED <<reason, waiting, port, outcome>>

Withdraw(c) == /\ fate[c] = "offered"
               /\ fate' = [fate EXCEPT ![c] = "dropped"]
               /\ UNCHANGED <<reason, waiting, port, outcome>>

Next == \/ \E t \in Callers : \/ \E p \in Ports : Call(t, p)
                              \/ \E c \in Conns : Deliver(t, c)
                              \/ Refuse(t)
        \/ \E p \in Ports, r \in Reasons : Close(p, r)
        \/ \E c \in Conns : Offer(c) \/ Withdraw(c)

Spec == Init /\ [][Next]_portVars
=============================================================================
