-------------------------- MODULE ClientLinkProofs --------------------------
(***************************************************************************)
(* Proofs about ClientLink, for any set of keys and any bounds: the client *)
(* decrypts all that the connector sends it, and the connector all the     *)
(* acknowledgements of the client.                                         *)
(***************************************************************************)
EXTENDS ClientLink, SequenceTheorems, TLAPS

(***************************************************************************)
(* The inductive invariant: what may be in either stream, and how far the  *)
(* exchange has got on the present connection.                             *)
(***************************************************************************)

\* Packages of the client: a login is under the first key, an acknowledgement
\* under the key of the session.
Clean == {p \in ClientPackage :
            /\ p.kind = "login" => p.key = First
            /\ p.kind = "ack" => p.key = serverKey /\ serverKey # First}

\* Packages of the connector behind the response.
Following == {p \in ServerPackage : p.kind # "response" /\ p.key = serverKey}

Dialing == serverKey = First /\ toClient = <<>> /\ inbuf = <<>> /\ ~reading

Unanswered == serverKey = First /\ clientKey = First /\ toClient = <<>>

Answered ==
  /\ serverKey # First /\ clientKey = First
  /\ toClient # <<>>
  /\ Head(toClient).kind = "response"
  /\ Head(toClient).key = First
  /\ Head(toClient).carries = serverKey
  /\ Tail(toClient) \in Seq(Following)

Settled == serverKey # First /\ clientKey = serverKey /\ toClient \in Seq(Following)

Phase ==
  /\ link = "dialing" => Dialing
  /\ link = "up" => Unanswered \/ Answered \/ Settled

IInv ==
  /\ TypeOK
  /\ wire \in Seq(Clean) /\ inbuf \in Seq(Clean)
  /\ Phase

(***************************************************************************)
(* Lemmas.                                                                 *)
(***************************************************************************)

\* A sequence that has something at its end, or has lost something.
LEMMA SeqOps ==
  ASSUME NEW S, NEW s \in Seq(S)
  PROVE  /\ \A x \in S : Append(s, x) \in Seq(S)
         /\ s # <<>> => Head(s) \in S /\ Tail(s) \in Seq(S)
<1>1. \A x \in S : Append(s, x) \in Seq(S)
  BY AppendProperties
<1>2. s # <<>> => Head(s) \in S /\ Tail(s) \in Seq(S)
  BY HeadTailProperties
<1> QED BY <1>1, <1>2

\* Head and tail of a sequence that is appended to.
LEMMA AppendBehind ==
  ASSUME NEW S, NEW T, NEW s \in Seq(S), s # <<>>, Tail(s) \in Seq(T), NEW x \in S \cap T
  PROVE  /\ Append(s, x) # <<>>
         /\ Head(Append(s, x)) = Head(s)
         /\ Tail(Append(s, x)) \in Seq(T)
<1>1. Head(Append(s, x)) = Head(s) /\ Tail(Append(s, x)) = Append(Tail(s), x)
  BY HeadTailAppend
<1>2. Append(s, x) # <<>>
  BY AppendProperties
<1> QED BY <1>1, <1>2, SeqOps

\* The input that is moved to the buffer and the rest of it.
LEMMA SplitSeq ==
  ASSUME NEW S, NEW s \in Seq(S), NEW t \in Seq(S), NEW n \in 0 .. Len(s)
  PROVE  /\ t \o SubSeq(s, 1, n) \in Seq(S)
         /\ SubSeq(s, n + 1, Len(s)) \in Seq(S)
<1>1. Len(s) \in Nat
  BY LenProperties
<1>2. SubSeq(s, 1, n) \in Seq(S)
  BY <1>1, SubSeqProperties
<1>3. SubSeq(s, n + 1, Len(s)) \in Seq(S)
  BY <1>1, SubSeqProperties
<1> QED BY <1>2, <1>3, ConcatProperties

\* What the client writes fits into its stream.
LEMMA SentClean ==
  ASSUME IInv, NEW kind \in {"login", "heartbeat", "ack"},
         kind = "ack" => clientKey = serverKey /\ serverKey # First
  PROVE  Sent(kind) \in Clean
BY DEF IInv, TypeOK, Sent, SendKey, Clean, ClientPackage, AnyKey

\* What the connector writes after the login fits behind the response.
LEMMA AnswerFollowing ==
  ASSUME TypeOK, NEW kind \in {"heartbeat", "push"}
  PROVE  [kind |-> kind, key |-> serverKey, carries |-> First] \in Following
BY DEF TypeOK, Following, ServerPackage, AnyKey

(***************************************************************************)
(* The invariant is kept.                                                  *)
(***************************************************************************)

LEMMA InitInv == Init => IInv
BY KeyAssumption, EmptySeq
   DEF Init, IInv, TypeOK, AnyKey, Phase, Dialing, Clean, ClientPackage, ServerPackage

\* The steps of the client.
LEMMA ClientStep ==
  ASSUME IInv, SendHeart \/ Login \/ ReadServer \/ Reconnect
  PROVE  IInv'
<1> USE DEF IInv
<1>1. CASE SendHeart
  <2>1. wire' = Append(wire, Sent("heartbeat")) /\ Sent("heartbeat") \in Clean
    BY <1>1, SentClean DEF SendHeart
  <2>2. UNCHANGED <<link, clientKey, toClient, server>> /\ Clean' = Clean /\ Following' = Following
    BY <1>1 DEF SendHeart, server, Clean, Following
  <2>3. wire' \in Seq(Clean) /\ wire' \in Seq(ClientPackage)
    BY <2>1, SeqOps DEF TypeOK, Clean
  <2>4. TypeOK'
    BY <2>2, <2>3 DEF TypeOK, server
  <2>5. Phase'
    BY <2>2 DEF Phase, Dialing, Unanswered, Answered, Settled, server
  <2> QED BY <2>2, <2>3, <2>4, <2>5 DEF server
<1>2. CASE Login
  <2>1. wire' = Append(wire, Sent("login")) /\ Sent("login") \in Clean
    BY <1>2, SentClean DEF Login
  <2>2. /\ link = "dialing" /\ link' = "up" /\ clientKey' = First
        /\ UNCHANGED <<toClient, server>> /\ Clean' = Clean
    BY <1>2 DEF Login, KeyAfterLogin, server, Clean
  <2>3. wire' \in Seq(Clean) /\ wire' \in Seq(ClientPackage)
    BY <2>1, SeqOps DEF TypeOK, Clean
  <2>4. TypeOK'
    BY <2>2, <2>3 DEF TypeOK, server, AnyKey
  <2>5. Unanswered'
    BY <2>2 DEF Phase, Dialing, Unanswered, server
  <2> QED BY <2>2, <2>3, <2>4, <2>5 DEF Phase, server
<1>3. CASE ReadServer
  <2>1. CASE Unanswered
    BY <1>3, <2>1 DEF ReadServer, Unanswered
  <2>2. CASE Answered
    <3>1. /\ link = "up" /\ toClient' = Tail(toClient)
          /\ clientKey' = serverKey /\ wire' = wire
          /\ UNCHANGED <<link, server>> /\ Clean' = Clean /\ Following' = Following
      BY <1>3, <2>2 DEF ReadServer, Answered, server, Clean, Following
    <3>2. Settled'
      BY <2>2, <3>1 DEF Answered, Settled, server
    <3>3. TypeOK'
      BY <2>2, <3>1, SeqOps DEF TypeOK, Answered, server
    <3> QED BY <3>1, <3>2, <3>3 DEF Phase, server
  <2>3. CASE Settled
    <3>1. /\ link = "up" /\ toClient # <<>> /\ toClient' = Tail(toClient)
          /\ Head(toClient) \in Following /\ Tail(toClient) \in Seq(Following)
      BY <1>3, <2>3, SeqOps DEF ReadServer, Settled
    <3>2. /\ clientKey' = clientKey
          /\ UNCHANGED <<link, server>> /\ Clean' = Clean /\ Following' = Following
          /\ wire' = wire \/ wire' = Append(wire, Sent("ack"))
      BY <1>3, <3>1 DEF ReadServer, server, Clean, Following
    <3>3. Sent("ack") \in Clean
      BY <2>3, SentClean DEF Settled
    <3>4. wire' \in Seq(Clean) /\ wire' \in Seq(ClientPackage)
      BY <3>2, <3>3, SeqOps DEF TypeOK, Clean
    <3>5. Settled'
      BY <2>3, <3>1, <3>2 DEF Settled, server
    <3>6. TypeOK'
      BY <3>1, <3>2, <3>4, SeqOps DEF TypeOK, server
    <3> QED BY <3>1, <3>2, <3>4, <3>5, <3>6 DEF Phase, server
  <2> QED BY <1>3, <2>1, <2>2, <2>3 DEF Phase, ReadServer
<1>4. CASE Reconnect
  <2>1. Dialing' /\ link' = "dialing" /\ wire' = <<>> /\ inbuf' = <<>>
    BY <1>4 DEF Reconnect, Dialing
  <2>2. TypeOK'
    BY <1>4, EmptySeq DEF Reconnect, TypeOK, AnyKey
  <2> QED BY <2>1, <2>2, EmptySeq DEF Phase
<1> QED BY <1>1, <1>2, <1>3, <1>4

\* Bytes that arrive, and the end of the callback.
LEMMA BufferStep ==
  ASSUME IInv, Done \/ (\E n \in 0 .. Len(wire) : Arrive(n))
  PROVE  IInv'
<1> USE DEF IInv
<1>1. CASE Done
  BY <1>1 DEF Done, TypeOK, Phase, Dialing, Unanswered, Answered, Settled, Clean, Following
<1>2. ASSUME NEW n \in 0 .. Len(wire), Arrive(n)
      PROVE  IInv'
  <2>1. /\ inbuf' \in Seq(Clean) /\ wire' \in Seq(Clean)
        /\ inbuf' \in Seq(ClientPackage) /\ wire' \in Seq(ClientPackage)
    BY <1>2, SplitSeq DEF Arrive, TypeOK
  <2>2. /\ link = "up" /\ reading' = TRUE
        /\ UNCHANGED <<link, clientKey, toClient, open, serverKey>>
        /\ Clean' = Clean /\ Following' = Following
    BY <1>2 DEF Arrive, Clean, Following
  <2>3. TypeOK'
    BY <2>1, <2>2 DEF TypeOK
  <2>4. Phase'
    BY <2>2 DEF Phase, Unanswered, Answered, Settled
  <2> QED BY <2>1, <2>2, <2>3, <2>4
<1> QED BY <1>1, <1>2

\* A package is taken from the buffer: what is left of it, and of what kind it was.
LEMMA TakeClean ==
  ASSUME IInv, inbuf # <<>>, inbuf' = Tail(inbuf)
  PROVE  /\ Head(inbuf) \in Clean
         /\ inbuf' \in Seq(Clean) /\ inbuf' \in Seq(ClientPackage)
BY SeqOps DEF IInv, TypeOK

\* The connector writes a package behind the response.
LEMMA AnswerPhase ==
  ASSUME IInv, link = "up", serverKey # First,
         NEW kind \in {"heartbeat", "push"}, Answer(kind, serverKey, First),
         UNCHANGED <<link, clientKey, serverKey>>
  PROVE  Phase' /\ toClient' \in Seq(ServerPackage)
<1> DEFINE p == [kind |-> kind, key |-> serverKey, carries |-> First]
<1>1. p \in Following /\ p \in ServerPackage
  BY AnswerFollowing DEF IInv, Following
<1>2. toClient' = Append(toClient, p) /\ Following' = Following
  BY DEF Answer, Following
<1>3. toClient \in Seq(ServerPackage)
  BY DEF IInv, TypeOK
<1> HIDE DEF p
<1>4. toClient' \in Seq(ServerPackage)
  BY <1>1, <1>2, <1>3, SeqOps
<1>5. CASE Answered
  <2>1. /\ toClient' # <<>> /\ Head(toClient') = Head(toClient)
        /\ Tail(toClient') \in Seq(Following)
    BY <1>1, <1>2, <1>3, <1>5, AppendBehind DEF Answered
  <2> QED BY <1>2, <1>4, <1>5, <2>1 DEF Answered, Phase
<1>6. CASE Settled
  <2>1. toClient' \in Seq(Following)
    BY <1>1, <1>2, <1>6, SeqOps DEF Settled
  <2> QED BY <1>2, <1>4, <1>6, <2>1 DEF Settled, Phase
<1> QED BY <1>4, <1>5, <1>6 DEF IInv, Phase, Unanswered

\* The login: the response is the first package of the connector, and no
\* acknowledgement is on the way.
LEMMA LoginStep ==
  ASSUME IInv, NEW k \in Key, ProcessLoginReq(k)
  PROVE  IInv'
<1>1. /\ reading /\ inbuf # <<>> /\ inbuf' = Tail(inbuf)
      /\ Head(inbuf).kind = "login" /\ Head(inbuf).key = serverKey
      /\ UNCHANGED <<link, clientKey, wire, open, reading>> /\ serverKey' = k
      /\ toClient' = Append(toClient, [kind |-> "response", key |-> serverKey, carries |-> k])
  BY DEF ProcessLoginReq, Take, Answer, ResponseKey
<1>2. Head(inbuf) \in Clean /\ inbuf' \in Seq(Clean) /\ inbuf' \in Seq(ClientPackage)
  BY <1>1, TakeClean
<1>3. serverKey = First /\ k # First
  BY <1>1, <1>2, KeyAssumption DEF Clean
<1>4. link = "up" /\ Unanswered
  BY <1>1, <1>3 DEF IInv, TypeOK, Phase, Dialing, Answered, Settled
<1> DEFINE p == [kind |-> "response", key |-> First, carries |-> k]
<1>5. toClient' = <<p>> /\ p \in ServerPackage
  BY <1>1, <1>3, <1>4 DEF Unanswered, ServerPackage, AnyKey
<1>6. Answered'
  BY <1>1, <1>3, <1>4, <1>5, EmptySeq DEF Answered, Unanswered
<1>7. Clean \subseteq Clean'
  BY <1>3 DEF Clean
<1>8. wire' \in Seq(Clean') /\ inbuf' \in Seq(Clean')
  BY <1>1, <1>2, <1>7, SeqMonotonic DEF IInv
<1>9. TypeOK'
  BY <1>1, <1>2, <1>5 DEF IInv, TypeOK, AnyKey
<1> QED BY <1>1, <1>4, <1>6, <1>8, <1>9 DEF IInv, Phase

\* The other steps of the connector.
LEMMA ServerStep ==
  ASSUME IInv, ProcessHeartbeat \/ PushAck \/ Undecipherable \/ Garbage \/ Push
  PROVE  IInv'
<1>1. serverKey' = serverKey /\ Clean' = Clean /\ Following' = Following
  BY DEF ProcessHeartbeat, PushAck, Undecipherable, Garbage, Push, server, Clean, Following
<1>2. reading => link = "up"
  BY DEF IInv, TypeOK, Phase, Dialing
<1>3. CASE ProcessHeartbeat
  <2>1. /\ reading /\ inbuf # <<>> /\ inbuf' = Tail(inbuf)
        /\ UNCHANGED <<link, clientKey, wire, open, reading>>
    BY <1>3 DEF ProcessHeartbeat, Take
  <2>2. Phase' /\ toClient' \in Seq(ServerPackage)
    <3>1. CASE serverKey # First
      BY <1>1, <1>2, <1>3, <2>1, <3>1, AnswerPhase DEF ProcessHeartbeat
    <3>2. CASE serverKey = First
      BY <1>1, <1>2, <1>3, <2>1, <3>2
         DEF ProcessHeartbeat, IInv, TypeOK, Phase, Unanswered, Answered, Settled
    <3> QED BY <3>1, <3>2
  <2> QED BY <1>1, <2>1, <2>2, TakeClean DEF IInv, TypeOK
<1>4. CASE PushAck \/ Undecipherable
  <2>1. /\ reading /\ inbuf # <<>> /\ inbuf' = Tail(inbuf) /\ reading' \in BOOLEAN
        /\ UNCHANGED <<link, clientKey, wire, open, toClient>>
    BY <1>4 DEF PushAck, Take, Undecipherable, NotUnderstood, IInv, TypeOK
  <2>2. Phase'
    BY <1>1, <1>2, <2>1 DEF IInv, TypeOK, Phase, Unanswered, Answered, Settled
  <2> QED BY <1>1, <2>1, <2>2, TakeClean DEF IInv, TypeOK
<1>5. CASE Garbage
  <2>1. /\ reading /\ inbuf' = <<>> /\ wire' = <<>> /\ open' = FALSE /\ reading' = FALSE
        /\ UNCHANGED <<link, clientKey, toClient>>
    BY <1>5 DEF Garbage, NotUnderstood
  <2>2. Phase'
    BY <1>1, <1>2, <2>1 DEF IInv, TypeOK, Phase, Unanswered, Answered, Settled
  <2> QED BY <1>1, <2>1, <2>2, EmptySeq DEF IInv, TypeOK
<1>6. CASE Push
  <2>1. /\ serverKey # First /\ Answer("push", serverKey, First)
        /\ UNCHANGED <<link, clientKey, wire, open, serverKey, inbuf, reading>>
    BY <1>6 DEF Push, server
  <2>2. link = "up"
    BY <2>1 DEF IInv, TypeOK, Phase, Dialing
  <2>3. Phase' /\ toClient' \in Seq(ServerPackage)
    BY <2>1, <2>2, AnswerPhase
  <2> QED BY <1>1, <2>1, <2>3 DEF IInv, TypeOK
<1> QED BY <1>3, <1>4, <1>5, <1>6

LEMMA Preserved == IInv /\ [Next]_vars => IInv'
<1> SUFFICES ASSUME IInv, [Next]_vars PROVE IInv'
  OBVIOUS
<1>1. CASE SendHeart \/ Login \/ ReadServer \/ Eof \/ Break
  BY <1>1, ClientStep DEF Eof, Break
<1>2. CASE Arrive(0) \/ ArriveSome \/ Done
  <2>1. Len(wire) \in Nat
    BY LenProperties DEF IInv
  <2>2. 0 \in 0 .. Len(wire) /\ 1 .. Len(wire) \subseteq 0 .. Len(wire)
    BY <2>1
  <2> QED BY <1>2, <2>2, BufferStep DEF ArriveSome
<1>3. CASE \E k \in Key : ProcessLoginReq(k)
  BY <1>3, LoginStep
<1>4. CASE ProcessHeartbeat \/ PushAck \/ Undecipherable \/ Garbage \/ Push
  BY <1>4, ServerStep
<1>5. CASE UNCHANGED vars
  BY <1>5 DEF IInv, TypeOK, Phase, Dialing, Unanswered, Answered, Settled, Clean, Following, vars, server
<1> QED BY <1>1, <1>2, <1>3, <1>4, <1>5 DEF Next, Handle

(***************************************************************************)
(* The theorems.                                                           *)
(***************************************************************************)

LEMMA Invariance == Spec => []IInv
BY InitInv, Preserved, PTL DEF Spec

\* Every variable keeps its type, whatever arrives in whatever pieces.
THEOREM TypeCorrect == Spec => []TypeOK
<1>1. IInv => TypeOK
  BY DEF IInv
<1> QED BY <1>1, Invariance, PTL

\* The client can decrypt each package of the connector (ResponseClientLogin
\* and SendMessageToClient against the client's ProcessLoginResponse).
THEOREM ClientAlwaysUnderstands == Spec => []ClientUnderstands
<1>1. IInv => ClientUnderstands
  <2> SUFFICES ASSUME IInv, link = "up", toClient # <<>>
               PROVE  Head(toClient).key = clientKey
    BY DEF ClientUnderstands
  <2>1. CASE Answered
    BY <2>1 DEF Answered
  <2>2. CASE Settled
    BY <2>2, SeqOps DEF Settled, Following
  <2> QED BY <2>1, <2>2 DEF IInv, Phase, Unanswered
<1> QED BY <1>1, Invariance, PTL

\* No acknowledgement is refused: the connector has the key it was written under.
THEOREM AcksAlwaysUnderstood == Spec => []AcksUnderstood
<1>1. IInv => AcksUnderstood
  <2> SUFFICES ASSUME IInv
               PROVE  \A s \in Seq(Clean) : \A i \in DOMAIN s : s[i].kind = "ack" => s[i].key = serverKey
    BY DEF IInv, AcksUnderstood
  <2>1. \A s \in Seq(Clean) : \A i \in DOMAIN s : s[i] \in Clean
    BY LenProperties, ElementOfSeq
  <2> QED BY <2>1 DEF Clean
<1> QED BY <1>1, Invariance, PTL

(***************************************************************************)
(* One login.                                                              *)
(***************************************************************************)

LoginsIn(q) == {i \in DOMAIN q : q[i].kind = "login"}
NoLogin(q) == LoginsIn(q) = {}
OneLogin(q) == \E i \in DOMAIN q : LoginsIn(q) = {i}

\* While the client dials there is none; the request is written as the
\* connection comes up.
LoginInv ==
  /\ link = "dialing" => NoLogin(Stream)
  /\ link = "up" /\ open => IF serverKey = First THEN OneLogin(Stream) ELSE NoLogin(Stream)

\* A package is written behind the others.
LEMMA LoginsAppend ==
  ASSUME NEW q \in Seq(ClientPackage), NEW p \in ClientPackage
  PROVE  /\ p.kind # "login" => (NoLogin(q) => NoLogin(Append(q, p)))
                             /\ (OneLogin(q) => OneLogin(Append(q, p)))
         /\ p.kind = "login" => (NoLogin(q) => OneLogin(Append(q, p)))
<1> DEFINE r == Append(q, p)
           n == Len(q) + 1
<1>1. /\ DOMAIN q = 1 .. Len(q) /\ Len(q) \in Nat /\ DOMAIN r = 1 .. n
      /\ r[n] = p /\ \A i \in 1 .. Len(q) : r[i] = q[i]
  BY LenProperties, AppendProperties
<1> HIDE DEF r
<1>2. n \notin DOMAIN q /\ DOMAIN r = DOMAIN q \cup {n}
  BY <1>1
<1>3. LoginsIn(r) = LoginsIn(q) \cup (IF p.kind = "login" THEN {n} ELSE {})
  BY <1>1, <1>2 DEF LoginsIn
<1>4. ASSUME p.kind # "login", OneLogin(q) PROVE OneLogin(r)
  BY <1>2, <1>3, <1>4 DEF OneLogin
<1>5. ASSUME p.kind = "login", NoLogin(q) PROVE OneLogin(r)
  BY <1>2, <1>3, <1>5 DEF OneLogin, NoLogin
<1> QED BY <1>3, <1>4, <1>5 DEF NoLogin, r

\* The first package is taken.
LEMMA LoginsTail ==
  ASSUME NEW q \in Seq(ClientPackage), q # <<>>
  PROVE  /\ NoLogin(q) => NoLogin(Tail(q))
         /\ Head(q).kind # "login" /\ OneLogin(q) => OneLogin(Tail(q))
         /\ Head(q).kind = "login" /\ OneLogin(q) => NoLogin(Tail(q))
<1> DEFINE r == Tail(q)
<1>1. /\ DOMAIN q = 1 .. Len(q) /\ Len(q) \in Nat \ {0} /\ DOMAIN r = 1 .. Len(q) - 1
      /\ Head(q) = q[1] /\ \A i \in 1 .. Len(q) - 1 : r[i] = q[i + 1]
  BY HeadTailProperties, LenProperties, EmptySeq
<1> HIDE DEF r
<1>2. \A i \in DOMAIN r : i + 1 \in DOMAIN q /\ i + 1 # 1 /\ (i \in LoginsIn(r) <=> i + 1 \in LoginsIn(q))
  BY <1>1 DEF LoginsIn
<1>3. \A i \in LoginsIn(q) : i = 1 \/ (i - 1 \in DOMAIN r /\ i - 1 \in LoginsIn(r))
  BY <1>1 DEF LoginsIn
<1>4. 1 \in LoginsIn(q) <=> Head(q).kind = "login"
  BY <1>1 DEF LoginsIn
<1>5. LoginsIn(r) \subseteq DOMAIN r /\ DOMAIN r \subseteq Int
  BY <1>1 DEF LoginsIn
<1>6. ASSUME NoLogin(q) PROVE NoLogin(r)
  BY <1>2, <1>5, <1>6 DEF NoLogin
<1>7. ASSUME NEW i \in DOMAIN q, LoginsIn(q) = {i}
      PROVE  IF i = 1 THEN NoLogin(r) ELSE OneLogin(r)
  <2>1. CASE i = 1
    BY <1>2, <1>5, <1>7, <2>1 DEF NoLogin
  <2>2. CASE i # 1
    <3>1. i - 1 \in DOMAIN r /\ i - 1 \in LoginsIn(r)
      BY <1>3, <1>7, <2>2
    <3>2. ASSUME NEW j \in LoginsIn(r) PROVE j = i - 1
      <4>1. j + 1 = i /\ j \in Int
        BY <1>2, <1>5, <1>7
      <4> QED BY <4>1
    <3> QED BY <2>2, <3>1, <3>2 DEF OneLogin
  <2> QED BY <2>1, <2>2
<1>8. ASSUME OneLogin(q) PROVE IF Head(q).kind = "login" THEN NoLogin(r) ELSE OneLogin(r)
  BY <1>4, <1>7, <1>8 DEF OneLogin
<1> QED BY <1>6, <1>8 DEF r

\* The stream as the two ends work on it: a package written is its last, one
\* taken from the buffer its first, and bytes that arrive leave it as it is.
LEMMA StreamOps ==
  ASSUME TypeOK
  PROVE  /\ Stream \in Seq(ClientPackage)
         /\ \A p \in ClientPackage : inbuf \o Append(wire, p) = Append(Stream, p)
         /\ inbuf # <<>> => /\ Stream # <<>> /\ Head(Stream) = Head(inbuf)
                            /\ Tail(inbuf) \o wire = Tail(Stream)
         /\ \A n \in 0 .. Len(wire) :
              (inbuf \o SubSeq(wire, 1, n)) \o SubSeq(wire, n + 1, Len(wire)) = Stream
<1>1. inbuf \in Seq(ClientPackage) /\ wire \in Seq(ClientPackage)
  BY DEF TypeOK
<1>2. /\ Stream \in Seq(ClientPackage) /\ Len(Stream) = Len(inbuf) + Len(wire)
      /\ \A i \in 1 .. Len(inbuf) + Len(wire) :
           Stream[i] = IF i <= Len(inbuf) THEN inbuf[i] ELSE wire[i - Len(inbuf)]
  BY <1>1, ConcatProperties DEF Stream
<1>3. ASSUME NEW p \in ClientPackage PROVE inbuf \o Append(wire, p) = Append(Stream, p)
  <2>1. Append(wire, p) = wire \o <<p>> /\ Append(Stream, p) = Stream \o <<p>> /\ <<p>> \in Seq(ClientPackage)
    BY <1>1, <1>2, AppendIsConcat
  <2> QED BY <1>1, <2>1, ConcatAssociative DEF Stream
<1>4. ASSUME inbuf # <<>>
      PROVE  Stream # <<>> /\ Head(Stream) = Head(inbuf) /\ Tail(inbuf) \o wire = Tail(Stream)
  <2>1. /\ Len(inbuf) \in Nat \ {0} /\ Len(wire) \in Nat /\ Head(inbuf) = inbuf[1]
        /\ Tail(inbuf) \in Seq(ClientPackage) /\ Len(Tail(inbuf)) = Len(inbuf) - 1
        /\ \A i \in 1 .. Len(inbuf) - 1 : Tail(inbuf)[i] = inbuf[i + 1]
    BY <1>1, <1>4, HeadTailProperties, LenProperties, EmptySeq
  <2>2. Stream # <<>> /\ Stream[1] = inbuf[1]
    BY <1>2, <2>1, EmptySeq
  <2>3. /\ Head(Stream) = Stream[1] /\ Tail(Stream) \in Seq(ClientPackage)
        /\ Len(Tail(Stream)) = Len(Stream) - 1
        /\ \A i \in 1 .. Len(Stream) - 1 : Tail(Stream)[i] = Stream[i + 1]
    BY <1>2, <2>2, HeadTailProperties
  <2> DEFINE r == Tail(inbuf) \o wire
  <2>4. /\ r \in Seq(ClientPackage) /\ Len(r) = Len(Tail(inbuf)) + Len(wire)
        /\ \A i \in 1 .. Len(Tail(inbuf)) + Len(wire) :
             r[i] = IF i <= Len(Tail(inbuf)) THEN Tail(inbuf)[i] ELSE wire[i - Len(Tail(inbuf))]
    BY <1>1, <2>1, ConcatProperties
  <2> HIDE DEF r
  <2>5. ASSUME NEW i \in 1 .. Len(Stream) - 1 PROVE r[i] = Tail(Stream)[i]
    <3>1. /\ i \in Int /\ 1 <= i /\ i <= Len(inbuf) + Len(wire) - 1
          /\ i + 1 \in 1 .. Len(inbuf) + Len(wire) /\ i \in 1 .. Len(Tail(inbuf)) + Len(wire)
      BY <1>2, <2>1
    <3>2. CASE i <= Len(inbuf) - 1
      BY <1>2, <2>1, <2>3, <2>4, <3>1, <3>2
    <3>3. CASE ~ i <= Len(inbuf) - 1
      <4>1. i + 1 - Len(inbuf) = i - (Len(inbuf) - 1) /\ ~ i + 1 <= Len(inbuf)
        BY <2>1, <3>1, <3>3
      <4> QED BY <1>2, <2>1, <2>3, <2>4, <3>1, <3>3, <4>1
    <3> QED BY <3>2, <3>3
  <2>6. Len(r) = Len(Stream) - 1
    BY <1>2, <2>1, <2>4
  <2>7. r = Tail(Stream)
    BY <2>3, <2>4, <2>5, <2>6, SeqEqual
  <2> QED BY <2>1, <2>2, <2>3, <2>7 DEF r
<1>5. ASSUME NEW n \in 0 .. Len(wire)
      PROVE  (inbuf \o SubSeq(wire, 1, n)) \o SubSeq(wire, n + 1, Len(wire)) = Stream
  <2>1. SubSeq(wire, 1, n) \in Seq(ClientPackage) /\ SubSeq(wire, n + 1, Len(wire)) \in Seq(ClientPackage)
    <3>1. Len(wire) \in Nat
      BY <1>1, LenProperties
    <3> QED BY <1>1, <3>1, SubSeqProperties
  <2>2. SubSeq(wire, 1, n) \o SubSeq(wire, n + 1, Len(wire)) = wire
    <3>1. /\ 1 \in 1 .. Len(wire) + 1 /\ n \in 1 - 1 .. Len(wire) /\ Len(wire) \in n .. Len(wire)
      BY <1>1, LenProperties
    <3>2. SubSeq(wire, 1, n) \o SubSeq(wire, n + 1, Len(wire)) = SubSeq(wire, 1, Len(wire))
      BY ONLY <1>1, <3>1, ConcatAdjacentSubSeq
    <3> QED BY <1>1, <3>2, SubSeqFull
  <2> DEFINE a == SubSeq(wire, 1, n)
             b == SubSeq(wire, n + 1, Len(wire))
  <2>3. (inbuf \o a) \o b = inbuf \o (a \o b)
    <3>1. a \in Seq(ClientPackage) /\ b \in Seq(ClientPackage)
      BY <2>1
    <3> HIDE DEF a, b
    <3> QED BY <1>1, <3>1, ConcatAssociative
  <2> QED BY <2>2, <2>3 DEF Stream
<1> QED BY <1>2, <1>3, <1>4, <1>5

\* The steps of the client: it writes one request for each connection.
LEMMA LoginClientStep ==
  ASSUME IInv, LoginInv, SendHeart \/ Login \/ ReadServer \/ Reconnect
  PROVE  LoginInv'
<1>1. TypeOK
  BY DEF IInv
<1>2. ASSUME NEW p \in ClientPackage, wire' = Append(wire, p), inbuf' = inbuf
      PROVE  Stream' = Append(Stream, p)
  BY <1>1, <1>2, StreamOps DEF Stream
<1>3. \A kind \in {"login", "heartbeat", "ack"} :
        Sent(kind) \in ClientPackage /\ Sent(kind).kind = kind
  BY <1>1 DEF Sent, SendKey, ClientPackage, TypeOK, AnyKey
<1>4. ASSUME NEW p \in ClientPackage, p.kind # "login", wire' = Append(wire, p),
             UNCHANGED <<link, server>>
      PROVE  LoginInv'
  <2>1. Stream' = Append(Stream, p)
    BY <1>2, <1>4 DEF server
  <2>2. /\ NoLogin(Stream) => NoLogin(Append(Stream, p))
        /\ OneLogin(Stream) => OneLogin(Append(Stream, p))
    BY <1>1, <1>4, StreamOps, LoginsAppend
  <2>3. /\ NoLogin(Append(Stream, p)) => NoLogin(Stream)'
        /\ OneLogin(Append(Stream, p)) => OneLogin(Stream)'
    BY <2>1 DEF NoLogin, OneLogin, LoginsIn
  <2> QED BY <1>4, <2>2, <2>3 DEF LoginInv, server
<1>5. CASE SendHeart
  BY <1>3, <1>4, <1>5 DEF SendHeart
<1>6. CASE Login
  <2>1. /\ link = "dialing" /\ link' = "up" /\ wire' = Append(wire, Sent("login"))
        /\ UNCHANGED <<toClient, server>>
    BY <1>6 DEF Login
  <2>2. Stream' = Append(Stream, Sent("login"))
    BY <1>2, <1>3, <2>1 DEF server
  <2>3. NoLogin(Stream)
    BY <2>1 DEF LoginInv
  <2>4. OneLogin(Append(Stream, Sent("login")))
    BY <1>1, <1>3, <2>3, StreamOps, LoginsAppend
  <2>5. OneLogin(Stream)'
    BY <2>2, <2>4 DEF OneLogin, LoginsIn
  <2>6. serverKey' = First
    BY <2>1 DEF IInv, Phase, Dialing, server
  <2> QED BY <2>1, <2>5, <2>6 DEF LoginInv
<1>7. CASE ReadServer
  <2>1. UNCHANGED <<link, server>> /\ (wire' = wire \/ wire' = Append(wire, Sent("ack")))
    BY <1>7 DEF ReadServer
  <2>2. CASE wire' = wire
    BY <2>1, <2>2 DEF LoginInv, Stream, NoLogin, OneLogin, LoginsIn, server
  <2> QED BY <1>3, <1>4, <2>1, <2>2
<1>8. CASE Reconnect
  <2>1. link' = "dialing" /\ wire' = <<>> /\ inbuf' = <<>>
    BY <1>8 DEF Reconnect
  <2>2. Stream' = <<>>
    BY <2>1 DEF Stream
  <2> QED BY <2>1, <2>2 DEF LoginInv, NoLogin, LoginsIn
<1> QED BY <1>5, <1>6, <1>7, <1>8

\* The steps of the connector: only the request is a login, it is always under
\* the key the connector still has, and answering it changes that key.
LEMMA LoginServerStep ==
  ASSUME IInv, LoginInv, Handle \/ Push \/ \E n \in 0 .. Len(wire) : Arrive(n)
  PROVE  LoginInv'
<1>1. TypeOK
  BY DEF IInv
<1>2. ASSUME UNCHANGED <<link, open, serverKey>>, Stream' = Stream PROVE LoginInv'
  BY <1>2 DEF LoginInv, NoLogin, OneLogin, LoginsIn
<1>3. ASSUME inbuf # <<>>, inbuf' = Tail(inbuf), wire' = wire
      PROVE  /\ NoLogin(Stream) => NoLogin(Stream)'
             /\ Head(inbuf).kind # "login" /\ OneLogin(Stream) => OneLogin(Stream)'
             /\ Head(inbuf).kind = "login" /\ OneLogin(Stream) => NoLogin(Stream)'
  <2>1. /\ Stream \in Seq(ClientPackage) /\ Stream # <<>>
        /\ Head(Stream) = Head(inbuf) /\ Stream' = Tail(Stream)
    BY <1>1, <1>3, StreamOps DEF Stream
  <2> QED BY <2>1, LoginsTail DEF NoLogin, OneLogin, LoginsIn
<1>4. reading => link = "up"
  BY DEF IInv, TypeOK, Phase, Dialing
<1>5. CASE Done \/ Push
  BY <1>2, <1>5 DEF Done, Push, Stream, server
<1>6. ASSUME NEW n \in 0 .. Len(wire), Arrive(n) PROVE LoginInv'
  <2>1. Stream' = Stream
    BY <1>1, <1>6, StreamOps DEF Arrive, Stream
  <2> QED BY <1>2, <1>6, <2>1 DEF Arrive
<1>7. ASSUME NEW k \in Key, ProcessLoginReq(k) PROVE LoginInv'
  <2>1. /\ reading /\ inbuf # <<>> /\ inbuf' = Tail(inbuf) /\ wire' = wire
        /\ Head(inbuf).kind = "login" /\ Head(inbuf).key = serverKey
        /\ UNCHANGED <<link, open>> /\ serverKey' = k
    BY <1>7 DEF ProcessLoginReq, Take
  <2>2. serverKey = First /\ k # First
    BY <2>1, TakeClean, KeyAssumption DEF Clean
  <2> QED BY <1>3, <1>4, <2>1, <2>2 DEF LoginInv
<1>8. CASE ProcessHeartbeat \/ PushAck \/ Undecipherable
  <2>1. /\ reading /\ inbuf # <<>> /\ inbuf' = Tail(inbuf) /\ wire' = wire
        /\ UNCHANGED <<link, open, serverKey>>
    BY <1>8 DEF ProcessHeartbeat, PushAck, Take, Undecipherable, NotUnderstood
  <2>2. Head(inbuf).kind \in {"heartbeat", "ack"} \/ Head(inbuf).key # serverKey
    BY <1>8 DEF ProcessHeartbeat, PushAck, Take, Undecipherable, NotUnderstood
  <2>3. serverKey = First => Head(inbuf).kind # "login"
    BY <2>1, <2>2, TakeClean DEF Clean
  <2> QED BY <1>3, <1>4, <2>1, <2>3 DEF LoginInv
<1>9. CASE Garbage
  BY <1>4, <1>9 DEF Garbage, NotUnderstood, LoginInv
<1> QED BY <1>5, <1>6, <1>7, <1>8, <1>9 DEF Handle

\* On a connection that stands, one login request is on its way until it is
\* answered and none afterwards, whatever is undecipherable before it and in
\* whatever pieces the bytes arrive.
THEOREM LoginOnceInvariant == Spec => []LoginOnce
<1>1. Init => LoginInv
  BY DEF Init, LoginInv, NoLogin, LoginsIn, Stream
<1>2. IInv /\ LoginInv /\ [Next]_vars => LoginInv'
  <2> SUFFICES ASSUME IInv, LoginInv, [Next]_vars PROVE LoginInv'
    OBVIOUS
  <2>1. CASE SendHeart \/ Login \/ ReadServer \/ Eof \/ Break
    BY <2>1, LoginClientStep DEF Eof, Break
  <2>2. CASE Arrive(0) \/ ArriveSome \/ Handle \/ Push
    <3>1. Len(wire) \in Nat
      BY LenProperties DEF IInv
    <3>2. 0 \in 0 .. Len(wire) /\ 1 .. Len(wire) \subseteq 0 .. Len(wire)
      BY <3>1
    <3> QED BY <2>2, <3>2, LoginServerStep DEF ArriveSome
  <2>3. CASE UNCHANGED vars
    BY <2>3 DEF LoginInv, Stream, NoLogin, OneLogin, LoginsIn, vars, server
  <2> QED BY <2>1, <2>2, <2>3 DEF Next
<1>3. LoginInv => LoginOnce
  BY DEF LoginInv, LoginOnce, LoginsOnTheWay, NoLogin, OneLogin, LoginsIn
<1> QED BY <1>1, <1>2, <1>3, Invariance, PTL DEF Spec
=============================================================================
