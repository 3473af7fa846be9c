--------------------------- MODULE MCMultiWrapper ---------------------------
(***************************************************************************)
(* MultiWrapper for TLC: a listener loaded from the configuration, wrapped *)
(* listeners each with a listener of its own, one goroutine per pair.      *)
(***************************************************************************)
EXTENDS MultiWrapper

CONSTANTS w1, w2, s1, b1, b2, a1, a2

OneLoaded == <<s1>>

\* One WrapListener call.
OneWrap == {w1}
OneBase == [w \in OneWrap |-> b1]
OneThreads == {a1, a2} \cup (OneWrap \X {s1, b1})

\* Two WrapListener calls on the same MultiWrapper, one goroutine of the server.
TwoWraps == {w1, w2}
TwoBases == [w \in TwoWraps |-> IF w = w1 THEN b1 ELSE b2]
TwoThreads == {a1} \cup (TwoWraps \X {s1, b1, b2})
=============================================================================
