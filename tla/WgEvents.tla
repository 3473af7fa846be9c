---------------------------- MODULE WgEvents ----------------------------
(***************************************************************************)
(* wglog/wgevents: the logger that turns the format strings and arguments  *)
(* wireguard-go logs into typed events (events.go, events_generate.go).    *)
(*                                                                         *)
(* A format string is a record: text, the name of the constant it comes    *)
(* from, and filled, the values formatted into it already (none for the    *)
(* constant itself, with its verbs), so that the message a call stands for *)
(* is the text and the values filled in and passed.  An argument is        *)
(* <<type, identity>>.  The wording of the messages (Nice) is left out.    *)
(***************************************************************************)
EXTENDS Sequences, TLC

-----------------------------------------------------------------------------
\* Tables with different names as one: the cases of a switch are all different.
Join(tables) ==
  [x \in UNION {DOMAIN t : t \in tables} |-> (CHOOSE t \in tables : x \in DOMAIN t)[x]]

-----------------------------------------------------------------------------
(* The event types: the method an event is logged with (IsErrorf, and the  *)
(* prefix of its Format constant), the level Slog prints it at and the     *)
(* fields in the order Args and Slog list them.                            *)
Type(names, method, level, fields) ==
  [e \in names |-> [method |-> method, level |-> level, fields |-> fields]]

\* EventAssumingDefaultMTU to EventDeriveKeypairFailed.
Types1 == Join({
  Type({"AssumingDefaultMTU", "BindCloseFailed", "CreateCookieReplyFailed"}, "errorf", "Error",
       <<"Err">>),
  Type({"BindUpdated"}, "verbosef", "Info", <<>>),
  Type({"CookieResponseInvalid", "DecodeCookieReplyFailed"}, "verbosef", "Warn", <<>>),
  Type({"CreateInitiationMessageFailed", "CreateResponseMessageFailed", "DeriveKeypairFailed"},
       "errorf", "Error", <<"Peer", "Err">>),
  Type({"DecryptionWorkerStopped"}, "verbosef", "Debug", <<"ID">>)})

\* EventDeviceClosed to EventIPv4PacketDisallowed.
Types2 == Join({
  Type({"DeviceClosed", "DeviceClosing", "EventWorkerStarted", "EventWorkerStopped"}, "verbosef",
       "Debug", <<>>),
  Type({"DroppedPacketsFromMultiSegmentRead"}, "verbosef", "Error", <<"Err">>),
  Type({"HandshakeDidNotComplete"}, "verbosef", "Info", <<"Peer", "Attempts">>),
  Type({"HandshakeFlood", "IPv4PacketDisallowed"}, "verbosef", "Warn", <<"Peer">>),
  Type({"HandshakeReplay"}, "verbosef", "Warn", <<"Peer", "Timestamp">>),
  Type({"HandshakeSendFailed"}, "errorf", "Error", <<"Peer", "Err">>)})

\* EventIPv6PacketDisallowed to EventLoadMTUFailed.
Types3 == Join({
  Type({"IPv6PacketDisallowed"}, "verbosef", "Warn", <<"Peer">>),
  Type({"InitiationMessageDecodeFailed", "InvalidPacketInHandshakeQueue"}, "errorf", "Error",
       <<>>),
  Type({"InterfaceCloseIgnoreRequestedState"}, "verbosef", "Warn", <<"Want">>),
  Type({"InterfaceDownRequested", "InterfaceUpRequested"}, "verbosef", "Debug", <<>>),
  Type({"InterfaceStateChanged"}, "verbosef", "Info", <<"Old", "Want", "Now">>),
  Type({"InvalidMAC1"}, "verbosef", "Warn", <<>>),
  Type({"InvalidOperation"}, "errorf", "Error", <<"Op">>),
  Type({"LoadMTUFailed"}, "errorf", "Error", <<"Err">>)})

\* EventMTUTooLarge to EventReceivedHandshakeInitiation.
Types4 == Join({
  Type({"MTUTooLarge"}, "verbosef", "Warn", <<"MTU", "Cap">>),
  Type({"MTUUpdated"}, "verbosef", "Info", <<"MTU">>),
  Type({"MessageUnknownType"}, "verbosef", "Warn", <<>>),
  Type({"NegativeMTU"}, "errorf", "Error", <<"MTU">>),
  Type({"PacketDataSendFailed"}, "errorf", "Error", <<"Peer", "Err">>),
  Type({"PacketIPVersionInvalid"}, "verbosef", "Warn", <<"Peer">>),
  Type({"PacketIPVersionUnknown"}, "verbosef", "Debug", <<>>),
  Type({"PacketReceiveFailed"}, "verbosef", "Error", <<"RecvName", "Err">>),
  Type({"PeerStarting", "PeerStopping", "ReceivedHandshakeInitiation"}, "verbosef", "Debug",
       <<"Peer">>)})

\* EventReceivedHandshakeResponse to EventRetryingHandshakeNoResponse.
Types5 == Join({
  Type({"ReceivedHandshakeResponse", "ReceivingKeepalivePacket"}, "verbosef", "Debug", <<"Peer">>),
  Type({"ReceivedInvalidInitiation", "ReceivedInvalidResponse"}, "verbosef", "Warn",
       <<"Destination">>),
  Type({"ReceivingCookieResponse"}, "verbosef", "Debug", <<"Destination">>),
  Type({"RemovingAllKeys", "RetryingHandshakeNoResponse"}, "verbosef", "Debug", <<"Peer",
       "Timeout">>),
  Type({"ResponseMessageDecodeFailed"}, "errorf", "Error", <<>>),
  Type({"RetryingHandshake"}, "verbosef", "Warn", <<"Peer", "Timeout", "Try">>)})

\* EventSendCookieDenied to EventStartedDecryptionWorker.
Types6 == Join({
  Type({"SendCookieDenied"}, "verbosef", "Warn", <<"Destination">>),
  Type({"SendHandshakeInitiationFailed"}, "errorf", "Error", <<"Peer", "Err">>),
  Type({"SendingHandshakeInitiation", "SendingHandshakeResponse", "SendingKeepalivePacket",
       "SequentialReaderStopped", "SequentialReceiverStarted", "SequentialReceiverStopped",
       "SequentialSenderStarted"}, "verbosef", "Debug", <<"Peer">>),
  Type({"StartedDecryptionWorker"}, "verbosef", "Debug", <<"ID">>)})

\* EventStartedEncryptionWorker to EventUAPIAddingAllowedIP.
Types7 == Join({
  Type({"StartedEncryptionWorker", "StartedHandshakeWorker", "StoppedEncryptionWorker",
       "StoppedHandshakeWorker"}, "verbosef", "Debug", <<"ID">>),
  Type({"StartedReceivingIncoming", "StoppedReceivingIncoming"}, "verbosef", "Debug",
       <<"RecvName">>),
  Type({"TUNReaderStarted", "TUNReaderStopped"}, "verbosef", "Debug", <<>>),
  Type({"TUNWriteFailed", "TunPacketReadFailed"}, "errorf", "Error", <<"Err">>),
  Type({"UAPIAddingAllowedIP"}, "verbosef", "Debug", <<"Peer">>)})

\* EventUAPICreated to EventUDPGSODisabled.
Types8 == Join({
  Type({"UAPICreated", "UAPIRemovingAllAllowedIPs", "UAPIRemovingPeer", "UAPIUpdatingEndpoint",
       "UAPIUpdatingPersistentKeepalive", "UAPIUpdatingPresharedKey"}, "verbosef", "Debug",
       <<"Peer">>),
  Type({"UAPIRemovingAllPeers", "UAPIUpdatingFWMark", "UAPIUpdatingListenPort",
       "UAPIUpdatingPrivateKey"}, "verbosef", "Debug", <<>>),
  Type({"UDPGSODisabled"}, "verbosef", "Warn", <<"OnLAddr">>)})

\* EventUpdateBind to EventValue.
Types9 ==
  Type({"UpdateBind", "Value"}, "errorf", "Error", <<"Err">>)

\* The event types by name.
EventTypes ==
  Join({Types1, Types2, Types3, Types4, Types5, Types6, Types7, Types8, Types9})

\* There is one Format constant per event type.
Formats == DOMAIN EventTypes

\* The constants of the two maps that keep the formats of a method distinct.
ErrorfFormats == {e \in Formats : EventTypes[e].method = "errorf"}
VerbosefFormats == {e \in Formats : EventTypes[e].method = "verbosef"}

\* The Go type of every field of the event structs, by its name.
FieldType ==
  [Attempts |-> "int", Cap |-> "int", Destination |-> "string", Err |-> "error", ID |-> "int",
   MTU |-> "int", Now |-> "Stringer", Old |-> "Stringer", OnLAddr |-> "string", Op |-> "string",
   Peer |-> "Peer", RecvName |-> "string", Timeout |-> "int", Timestamp |-> "Timestamp",
   Try |-> "uint32", Want |-> "Stringer"]

-----------------------------------------------------------------------------
(* The values an Events logger hands to its function.                      *)
Event(name, fields) == [name |-> name, fields |-> fields]

\* Mutant of EventAny: the flag is not set.
EventAnyVerbose(method, format, args) ==
  [name |-> "Any", format |-> format, args |-> args, error |-> FALSE]

\* What no switch recognises.
EventAny(method, format, args) ==
  [name |-> "Any", format |-> format, args |-> args, error |-> method = "errorf"]

\* A format constant.
Constant(name) == [text |-> name, filled |-> <<>>]

\* The methods of the Event interface.
Format(ev) == IF ev.name = "Any" THEN ev.format ELSE Constant(ev.name)

Args(ev) ==
  IF ev.name = "Any" THEN ev.args
  ELSE LET fields == EventTypes[ev.name].fields
       IN  [i \in DOMAIN fields |-> ev.fields[fields[i]]]

IsErrorf(ev) ==
  IF ev.name = "Any" THEN ev.error ELSE EventTypes[ev.name].method = "errorf"

\* The level of the record Slog writes.
SlogLevel(ev) ==
  IF ev.name # "Any" THEN EventTypes[ev.name].level
  ELSE IF ev.error THEN "Error" ELSE "Debug"

-----------------------------------------------------------------------------
(* The cases of the two switches: the types the arguments are asserted to  *)
(* have, by position, and the field each of them is stored in.             *)
Case(names, fields, types) == [e \in names |-> [fields |-> fields, types |-> types]]

\* BindUpdated to InterfaceDownRequested.
VerbosefCases1 == Join({
  Case({"BindUpdated", "CookieResponseInvalid", "DecodeCookieReplyFailed", "DeviceClosed",
       "DeviceClosing", "EventWorkerStarted", "EventWorkerStopped", "InterfaceDownRequested"},
       <<>>, <<>>),
  Case({"DecryptionWorkerStopped"}, <<"ID">>, <<"int">>),
  Case({"DroppedPacketsFromMultiSegmentRead"}, <<"Err">>, <<"error">>),
  Case({"HandshakeDidNotComplete"}, <<"Peer", "Attempts">>, <<"Peer", "int">>),
  Case({"HandshakeFlood", "IPv4PacketDisallowed", "IPv6PacketDisallowed"}, <<"Peer">>, <<"Peer">>),
  Case({"HandshakeReplay"}, <<"Peer", "Timestamp">>, <<"Peer", "Timestamp">>),
  Case({"InterfaceCloseIgnoreRequestedState"}, <<"Want">>, <<"Stringer">>)})

\* InterfaceStateChanged to ReceivedHandshakeResponse.
VerbosefCases2 == Join({
  Case({"InterfaceStateChanged"}, <<"Old", "Want", "Now">>, <<"Stringer", "Stringer",
       "Stringer">>),
  Case({"InterfaceUpRequested", "InvalidMAC1", "MessageUnknownType", "PacketIPVersionUnknown"},
       <<>>, <<>>),
  Case({"MTUTooLarge"}, <<"MTU", "Cap">>, <<"int", "int">>),
  Case({"MTUUpdated"}, <<"MTU">>, <<"int">>),
  Case({"PacketIPVersionInvalid", "PeerStarting", "PeerStopping", "ReceivedHandshakeInitiation",
       "ReceivedHandshakeResponse"}, <<"Peer">>, <<"Peer">>),
  Case({"PacketReceiveFailed"}, <<"RecvName", "Err">>, <<"string", "error">>)})

\* ReceivedInvalidInitiation to SendingKeepalivePacket.
VerbosefCases3 == Join({
  Case({"ReceivedInvalidInitiation", "ReceivedInvalidResponse", "ReceivingCookieResponse",
       "SendCookieDenied"}, <<"Destination">>, <<"string">>),
  Case({"ReceivingKeepalivePacket", "SendingHandshakeInitiation", "SendingHandshakeResponse",
       "SendingKeepalivePacket"}, <<"Peer">>, <<"Peer">>),
  Case({"RemovingAllKeys", "RetryingHandshakeNoResponse"}, <<"Peer", "Timeout">>, <<"Peer",
       "int">>),
  Case({"RetryingHandshake"}, <<"Peer", "Timeout", "Try">>, <<"Peer", "int", "uint32">>)})

\* SequentialReaderStopped to UAPIAddingAllowedIP.
VerbosefCases4 == Join({
  Case({"SequentialReaderStopped", "SequentialReceiverStarted", "SequentialReceiverStopped",
       "SequentialSenderStarted", "UAPIAddingAllowedIP"}, <<"Peer">>, <<"Peer">>),
  Case({"StartedDecryptionWorker", "StartedEncryptionWorker", "StartedHandshakeWorker",
       "StoppedEncryptionWorker", "StoppedHandshakeWorker"}, <<"ID">>, <<"int">>),
  Case({"StartedReceivingIncoming", "StoppedReceivingIncoming"}, <<"RecvName">>, <<"string">>),
  Case({"TUNReaderStarted", "TUNReaderStopped"}, <<>>, <<>>)})

\* UAPICreated to UAPIUpdatingPrivateKey.
VerbosefCases5 == Join({
  Case({"UAPICreated", "UAPIRemovingAllAllowedIPs", "UAPIRemovingPeer", "UAPIUpdatingEndpoint",
       "UAPIUpdatingPersistentKeepalive", "UAPIUpdatingPresharedKey"}, <<"Peer">>, <<"Peer">>),
  Case({"UAPIRemovingAllPeers", "UAPIUpdatingFWMark", "UAPIUpdatingListenPort",
       "UAPIUpdatingPrivateKey"}, <<>>, <<>>)})

\* The switch of Verbosef: the case of an event by the constant it names.
VerbosefCases ==
  Join({VerbosefCases1, VerbosefCases2, VerbosefCases3, VerbosefCases4, VerbosefCases5})

\* AssumingDefaultMTU to NegativeMTU.
ErrorfCases1 == Join({
  Case({"AssumingDefaultMTU", "BindCloseFailed", "CreateCookieReplyFailed", "LoadMTUFailed"},
       <<"Err">>, <<"error">>),
  Case({"CreateInitiationMessageFailed", "CreateResponseMessageFailed", "DeriveKeypairFailed",
       "HandshakeSendFailed"}, <<"Peer", "Err">>, <<"Peer", "error">>),
  Case({"InitiationMessageDecodeFailed", "InvalidPacketInHandshakeQueue"}, <<>>, <<>>),
  Case({"InvalidOperation"}, <<"Op">>, <<"string">>),
  Case({"NegativeMTU"}, <<"MTU">>, <<"int">>)})

\* PacketDataSendFailed to Value.
ErrorfCases2 == Join({
  Case({"PacketDataSendFailed", "SendHandshakeInitiationFailed"}, <<"Peer", "Err">>, <<"Peer",
       "error">>),
  Case({"ResponseMessageDecodeFailed"}, <<>>, <<>>),
  Case({"TUNWriteFailed", "TunPacketReadFailed", "UpdateBind", "Value"}, <<"Err">>, <<"error">>)})

\* The switch of Errorf.
ErrorfCases ==
  Join({ErrorfCases1, ErrorfCases2})

\* What a type assertion accepts: the type itself; error and Stringer are
\* interfaces, and the peers and time stamps of wireguard-go have a String method.
Asserts(v, type) == 
  \/ v[1] = type
  \/ type = "Stringer" /\ v[1] \in {"Peer", "Timestamp"}

\* A case of a switch: the event, or EventAny when the number of arguments or
\* the type of one of them is another.
Recognise(method, cases, format, args) ==
  LET case == cases[format.text]
  IN  IF /\ Len(args) = Len(case.types)
         /\ \A i \in DOMAIN args : Asserts(args[i], case.types[i])
      THEN Event(format.text, [f \in {case.fields[i] : i \in DOMAIN args} |->
                               args[CHOOSE i \in DOMAIN args : case.fields[i] = f]])
      ELSE EventAny(method, format, args)

\* wireguard-go logs this message as an error value, formatted already.
ParseUDPGSODisabled(format) == Len(format.filled) = 1 /\ format.text = "UDPGSODisabled"

\* Errorf of Events: the event it hands to fn, in a set.
EventsErrorf(format, args) ==
  IF format.filled = <<>> /\ format.text \in DOMAIN ErrorfCases
  THEN {Recognise("errorf", ErrorfCases, format, args)}
  ELSE {EventAny("errorf", format, args)}

\* Verbosef of Events.  The case of the custom event is empty: its constant
\* itself, with the verb in it, reaches no call of fn.
EventsVerbosef(format, args) ==
  IF format.filled = <<>> /\ format.text \in DOMAIN VerbosefCases
  THEN {Recognise("verbosef", VerbosefCases, format, args)}
  ELSE IF format = Constant("UDPGSODisabled") THEN {}
  ELSE IF ParseUDPGSODisabled(format)
  THEN {Event("UDPGSODisabled", [f \in {"OnLAddr"} |-> format.filled[1]])}
  ELSE {EventAny("verbosef", format, args)}

=============================================================================
