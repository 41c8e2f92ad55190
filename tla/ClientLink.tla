------------------------------ MODULE ClientLink ------------------------------
(***************************************************************************)
(* One client and the connection it currently has to a connector: the      *)
(* stream of encrypted packages in each direction, how the connector takes *)
(* them out of it, and the key exchange of the login. The client's side is *)
(* the one of the repository's test client.                                *)
(*                                                                         *)
(* Both ends start a connection with the key compiled into them. The login *)
(* response, sent under that key, carries a new one; the connector uses it *)
(* from then on, the client once it has read the response. The client does *)
(* not forget it when the connection breaks, only when it logs in again.   *)
(*                                                                         *)
(* A package is what is encrypted as a whole; one read under another key   *)
(* than it was written under fails to decrypt or yields garbage that does  *)
(* not parse.                                                              *)
(***************************************************************************)
EXTENDS Integers, Sequences

CONSTANTS
  Key,          \* the keys GenerateSecretKey makes
  First,        \* the key both ends are compiled with (first_key)
  MaxEarly,     \* bound on the heartbeats sent while dialling
  MaxInFlight   \* bound on the packages on the way

ASSUME KeyAssumption == First \notin Key
ASSUME BoundAssumption == MaxEarly \in Nat /\ MaxInFlight \in Nat

VARIABLES
  link,       \* the client's view: "dialing" or "up"
  open,       \* whether the connector still has the connection
  clientKey,  \* true_key of the client, First when it is empty
  serverKey,  \* the key of client_info->aes; First before the login
  wire,       \* packages written by the client and not yet read
  inbuf,      \* packages in the connector's input buffer
  reading,    \* whether ServerReadCallback is running
  toClient    \* packages written by the connector and not yet read

server == <<open, serverKey, inbuf, reading>>
vars   == <<link, clientKey, wire, toClient, server>>

AnyKey == Key \cup {First}
ClientPackage == [kind : {"login", "heartbeat", "ack"}, key : AnyKey]
ServerPackage == [kind : {"response", "heartbeat", "push"}, key : AnyKey, carries : AnyKey]

TypeOK ==
  /\ link \in {"dialing", "up"}
  /\ {open, reading} \subseteq BOOLEAN
  /\ {clientKey, serverKey} \subseteq AnyKey
  /\ wire \in Seq(ClientPackage)
  /\ inbuf \in Seq(ClientPackage)
  /\ toClient \in Seq(ServerPackage)

Init ==
  /\ link = "dialing"
  /\ open = TRUE
  /\ clientKey = First
  /\ serverKey = First
  /\ wire = <<>>
  /\ inbuf = <<>>
  /\ reading = FALSE
  /\ toClient = <<>>

(***************************************************************************)
(* The client.                                                             *)
(***************************************************************************)

\* The key a package is encrypted with: a login request takes the first one.
MutLoginKey(kind) == clientKey
MutInverted(kind) == IF kind # "login" THEN First ELSE clientKey
SendKey(kind) == IF kind = "login" THEN First ELSE clientKey

Sent(kind) == [kind |-> kind, key |-> SendKey(kind)]

InFlight == Len(wire) + Len(inbuf) + Len(toClient)

\* The timer of the main loop, which neither waits for the connection nor for
\* the answer to the login.
MutHeartbeatWaits ==
  IF link = "up" THEN clientKey # First /\ InFlight < MaxInFlight ELSE Len(wire) < MaxEarly
MayHeartbeat == IF link = "up" THEN InFlight < MaxInFlight ELSE Len(wire) < MaxEarly

SendHeart ==
  /\ MayHeartbeat
  /\ wire' = Append(wire, Sent("heartbeat"))
  /\ UNCHANGED <<link, clientKey, toClient, server>>

\* Connected: the client forgets the key of the connection before and logs in.
\* What it wrote while dialling goes out ahead of the login request.
MutForgetsNothing == clientKey
MutKeyLeftEmpty == <<>>
KeyAfterLogin == First

Login ==
  /\ link = "dialing"
  /\ link' = "up"
  /\ wire' = Append(wire, Sent("login"))
  /\ clientKey' = KeyAfterLogin
  /\ UNCHANGED <<toClient, server>>

\* The client reads a package; one it cannot decrypt is dropped. The response
\* brings the new key, a push is acknowledged.
ReadServer ==
  /\ link = "up" /\ toClient # <<>>
  /\ toClient' = Tail(toClient)
  /\ LET p == Head(toClient)
         understood == p.key = clientKey
     IN  /\ clientKey' = IF understood /\ p.kind = "response" THEN p.carries ELSE clientKey
         /\ wire' = IF understood /\ p.kind = "push" THEN Append(wire, Sent("ack")) ELSE wire
  /\ UNCHANGED <<link, server>>

\* A new connection: nothing of the old one is left but the client's key.
Reconnect ==
  /\ link' = "dialing"
  /\ wire' = <<>>
  /\ toClient' = <<>>
  /\ open' = TRUE
  /\ serverKey' = First
  /\ inbuf' = <<>>
  /\ reading' = FALSE
  /\ UNCHANGED clientKey

\* The connector closed the connection and the client has read what came
\* before that, or the connection broke, or could not be made.
Eof   == link = "up" /\ ~open /\ toClient = <<>> /\ Reconnect
Break == Reconnect

(***************************************************************************)
(* The connector.                                                          *)
(***************************************************************************)

\* Bytes arrive: n whole packages, or only a part of one. The callback is
\* called, and takes up what an earlier call left behind as well.
Arrive(n) ==
  /\ open /\ link = "up" /\ ~reading
  /\ wire # <<>>
  /\ inbuf' = inbuf \o SubSeq(wire, 1, n)
  /\ wire' = SubSeq(wire, n + 1, Len(wire))
  /\ reading' = TRUE
  /\ UNCHANGED <<link, clientKey, toClient, open, serverKey>>

\* No complete package is left: the callback waits for more bytes.
Done ==
  /\ reading /\ inbuf = <<>>
  /\ reading' = FALSE
  /\ UNCHANGED <<link, clientKey, wire, toClient, open, serverKey, inbuf>>

Take(kind) ==
  /\ reading /\ inbuf # <<>>
  /\ Head(inbuf).key = serverKey
  /\ Head(inbuf).kind = kind
  /\ inbuf' = Tail(inbuf)
  /\ UNCHANGED <<link, clientKey, wire, open, reading>>

Answer(kind, key, carries) ==
  toClient' = Append(toClient, [kind |-> kind, key |-> key, carries |-> carries])

\* A generated key is new: it is not the one of a package still on the way.
NewKey == Key \ ({wire[i].key : i \in DOMAIN wire} \cup {inbuf[i].key : i \in DOMAIN inbuf})

\* The response is encrypted with the old key and announces the new one.
MutSwitchesFirst(k) == k
ResponseKey(k) == serverKey

ProcessLoginReq(k) ==
  /\ k \in NewKey
  /\ Take("login")
  /\ Answer("response", ResponseKey(k), k)
  /\ serverKey' = k

\* A heartbeat is answered once the connection has logged in.
ProcessHeartbeat ==
  /\ Take("heartbeat")
  /\ IF serverKey # First THEN Answer("heartbeat", serverKey, First) ELSE UNCHANGED toClient
  /\ UNCHANGED serverKey

PushAck == Take("ack") /\ UNCHANGED <<serverKey, toClient>>

NotUnderstood == reading /\ inbuf # <<>> /\ Head(inbuf).key # serverKey

\* Decrypt fails: the callback returns and leaves the rest in the buffer.
Undecipherable ==
  /\ NotUnderstood
  /\ inbuf' = Tail(inbuf)
  /\ reading' = FALSE
  /\ UNCHANGED <<link, clientKey, wire, toClient, open, serverKey>>

\* It succeeds by chance, and what comes out does not parse: ProcessClose.
Garbage ==
  /\ NotUnderstood
  /\ open' = FALSE
  /\ inbuf' = <<>>
  /\ wire' = <<>>
  /\ reading' = FALSE
  /\ UNCHANGED <<link, clientKey, toClient, serverKey>>

Push ==
  /\ open /\ serverKey # First
  /\ InFlight < MaxInFlight
  /\ Answer("push", serverKey, First)
  /\ UNCHANGED <<link, clientKey, wire, server>>

(***************************************************************************)
(* The specification.                                                      *)
(***************************************************************************)

ArriveSome == \E n \in 1 .. Len(wire) : Arrive(n)
Handle == Done \/ (\E k \in Key : ProcessLoginReq(k)) \/ ProcessHeartbeat \/ PushAck
            \/ Undecipherable \/ Garbage

Next ==
  \/ SendHeart \/ Login \/ ReadServer \/ Eof \/ Break
  \/ Arrive(0) \/ ArriveSome \/ Handle \/ Push

Spec == Init /\ [][Next]_vars

\* Both processes keep running their loops, the client's timer among them, and
\* the bytes written to a connection that stands arrive, in whatever pieces.
FairSpec ==
  /\ Spec
  /\ WF_vars(SendHeart)
  /\ WF_vars(Login) /\ WF_vars(ReadServer) /\ WF_vars(Eof)
  /\ SF_vars(ArriveSome) /\ WF_vars(Handle)

(***************************************************************************)
(* Properties.                                                             *)
(***************************************************************************)

\* The two ends switch keys at different times and the client keeps the key of
\* an earlier connection; still it can decrypt every package the connector
\* sends it: the response under the first key, all that follows under the new.
ClientUnderstands ==
  link = "up" /\ toClient # <<>> => Head(toClient).key = clientKey

\* No acknowledgement is lost to the key exchange: whatever comes ahead of it,
\* when it is read it is under the key the connector then has.
AcksUnderstood ==
  \A p \in {wire[i] : i \in DOMAIN wire} \cup {inbuf[i] : i \in DOMAIN inbuf} :
    p.kind = "ack" => p.key = serverKey

\* One login request is on its way until it is answered, and none afterwards:
\* neither an undecipherable package, a part of one, nor the end of a callback
\* with the rest unread loses it, and a connection logs in once.
Stream == inbuf \o wire
LoginsOnTheWay == {i \in DOMAIN Stream : Stream[i].kind = "login"}

LoginOnce ==
  link = "up" /\ open =>
    IF serverKey = First THEN \E i \in DOMAIN Stream : LoginsOnTheWay = {i} ELSE LoginsOnTheWay = {}

\* Heartbeats written before the login was answered stop the callback with the
\* rest of the buffer unread. The login gets its answer nevertheless, as long
\* as the connection lasts.
Agreed == clientKey # First /\ clientKey = serverKey

LoginAnswered == link = "up" ~> Agreed \/ link # "up"
=============================================================================
