---------------------------- MODULE ConfigValues ----------------------------
(***************************************************************************)
(* The values of a configuration: pkg/configvalues, and the port pairs of  *)
(* forward.go.  A CaddyTextUnmarshaler keeps the text it was given and the *)
(* value parsed from it; the text is what it is saved as.  Parsers return  *)
(* a set: of the value, or empty for an error.                             *)
(***************************************************************************)
EXTENDS Naturals, Sequences

CONSTANTS
    Numbers,    \* the texts that are decimal numbers, and what they stand for
    IPs,        \* the texts that are IP addresses, the empty one too, and what net.IP prints for them
    IPv6,       \* the printed addresses that have colons in them
    Env,        \* the texts with placeholders, and what Caddy makes of them
    Json,       \* the texts that are JSON, and what they are read as: null as the empty text,
                \* a quoted text as what is in it, any other as itself without blanks
    Empty       \* the empty text

ASSUME TextsAssumption ==
    /\ \A t \in DOMAIN Numbers : Numbers[t] \in Nat
    /\ (DOMAIN Numbers \cup {Empty}) \cap DOMAIN Env = {}
    /\ Empty \notin IPv6

\* The replacer of Caddy.
caddyReplacer(text) == IF text \in DOMAIN Env THEN Env[text] ELSE text

(* The values. *)
ValueString(text) == {text}

\* mutant: the width is not given to ParseUint, and the conversion to N wraps
ValueUnsignedWraps(bits, text) == {Numbers[t] % 2^bits : t \in {text} \cap DOMAIN Numbers}

ValueUnsigned(bits, text) ==
    {Numbers[t] : t \in {u \in {text} \cap DOMAIN Numbers : Numbers[u] < 2^bits}}
ValueIP(text) == {IPs[t] : t \in {text} \cap DOMAIN IPs}

\* UnmarshalText of the value aliases: the placeholder is replaced, then parsed.
Hostname(text) == ValueString(caddyReplacer(text))
Port(text) == ValueUnsigned(16, caddyReplacer(text))
IP(text) == ValueIP(caddyReplacer(text))
-----------------------------------------------------------------------------
(* JSON.  A text that is valid JSON is written as it is, any other one is  *)
(* quoted.  A JSON string is read as the text in it, and null as the empty *)
(* string, the value json.Unmarshal leaves; another value as its text.     *)
MarshalJSON(text) == [quoted |-> text \notin DOMAIN Json, text |-> text]
UnmarshalJSON(json) == IF json.quoted THEN json.text ELSE Json[json.text]
-----------------------------------------------------------------------------
(* PortPair: [<host>:]<src>:<dst>[/<tcp|udp>], its text cut at the colons  *)
(* and at the slash of what follows the last colon.  The placeholders of   *)
(* the whole text are replaced before it is cut, those of a part are what  *)
(* the replacement had in it.                                              *)
Pair(parts, proto) == [parts |-> parts, proto |-> proto]

Src(pair) == pair.parts[IF Len(pair.parts) > 2 THEN 2 ELSE 1]

\* mutant: what follows the first colon, whether that is the last or not
DstSecond(pair) == pair.parts[2]

Dst(pair) == pair.parts[IF Len(pair.parts) > 2 THEN 3 ELSE 2]

\* What is written for the host in an address: nothing when there is none.
Hosts(pair) == IF Len(pair.parts) > 2 THEN IP(pair.parts[1]) ELSE {Empty}

\* A fourth part would be within dst, which then is no number.
PortPair(pair) ==
    IF Len(pair.parts) \notin 2..3 \/ pair.proto \notin {"none", "tcp", "udp"} THEN {}
    ELSE {[host |-> h, src |-> s, dst |-> d, udp |-> pair.proto = "udp"] :
              h \in Hosts(pair), s \in Port(Src(pair)), d \in Port(Dst(pair))}
=============================================================================
