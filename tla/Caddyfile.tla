------------------------------ MODULE Caddyfile ------------------------------
(***************************************************************************)
(* From the Caddyfile to the configuration of the apps: UnmarshalCaddyfile *)
(* of Forwards, Listener and MultiWrapper, and internal.Unmarshaler, which *)
(* resumes an app from its JSON when its option is met again.              *)
(*                                                                         *)
(* A block is a directive: the tokens after its name on its line, and the  *)
(* lines between its braces, each a sequence of tokens.  As in             *)
(* ConfigValues a result is a set, empty for an error.                     *)
(***************************************************************************)
EXTENDS ConfigValues, SequencesExt

\* caddyfile.Dispenser: the tokens of a body that the loop
\*     for d.NextBlock(nesting) { if !d.NextArg() { continue }; use(d.Val()) }
\* uses.  NextBlock moves to the next token, NextArg to another one on its line: of a
\* line the second is used, the fourth, and so on; a line of one token is passed over.

\* mutant: the loop without NextArg's skip, the first token of a line, the third, ...
UsedFirst(line) == [k \in 1..((Len(line) + 1) \div 2) |-> line[2 * k - 1]]

Used(line) == [k \in 1..(Len(line) \div 2) |-> line[2 * k]]
UsedTokens(body) == FlattenSeq([i \in DOMAIN body |-> Used(body[i])])

\* Forwards.UnmarshalCaddyfile on one forward block: a name.  A further token on its line is
\* taken for the name of another directive, which needs a name too; only the last of them
\* has the body.  The value is the sequence of their Forwards.
UnmarshalForward(block) ==
    LET pairs == UsedTokens(block.body)
        names == (Len(block.args) + 1) \div 2
    IN  IF Len(block.args) % 2 = 0 \/ \E i \in DOMAIN pairs : PortPair(pairs[i]) = {} THEN {}
        ELSE {[j \in 1..names |-> [name |-> block.args[2 * j - 1],
                                   ports |-> IF j = names THEN pairs ELSE <<>>]]}

\* The JSON of Forwards: names by MarshalJSON; a port pair is no JSON and is quoted.
ForwardsJSON(forwards) ==
    [i \in DOMAIN forwards |-> [forwards[i] EXCEPT !.name = MarshalJSON(@)]]
ForwardsFromJSON(json) ==
    [i \in DOMAIN json |-> [json[i] EXCEPT !.name = UnmarshalJSON(@)]]

\* mutant: the app starts again from nothing
UnmarshalerForgets(resume, block) ==
    {ForwardsJSON(fs) : fs \in UnmarshalForward(block)}

\* Unmarshaler: the app so far, a JSON value, and the next block of its option.
Unmarshaler(resume, block) ==
    {ForwardsJSON(ForwardsFromJSON(resume) \o fs) : fs \in UnmarshalForward(block)}

\* Listener.UnmarshalCaddyfile: name and port; three more tokens are taken for another
\* directive with its own two, which replace the first.
UnmarshalListener(args) ==
    IF Len(args) % 3 # 2 \/ \E i \in DOMAIN args : i % 3 = 2 /\ Port(args[i]) = {} THEN {}
    ELSE {[name |-> args[Len(args) - 1], port |-> args[Len(args)]]}

\* MultiWrapper.UnmarshalCaddyfile: one listener per line, the module's name left out.
UnmarshalMulti(lines) ==
    IF \E i \in DOMAIN lines : UnmarshalListener(lines[i]) = {} THEN {}
    ELSE {[i \in DOMAIN lines |-> CHOOSE l \in UnmarshalListener(lines[i]) : TRUE]}
=============================================================================
