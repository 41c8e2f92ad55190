--------------------------- MODULE EndToEndProofs ---------------------------
(***************************************************************************)
(* What holds of the whole path of a push, for any number of connectors,   *)
(* clients, workers and messages: the types, the acceptance of answers,    *)
(* and the theorems about DbWorker and about Presence alone, which hold of *)
(* Delivery because it implements both (DeliveryProofs).                   *)
(***************************************************************************)
EXTENDS DeliveryProofs

\* The theorems about DbWorker, for the worker the composition shows: a message
\* is on its way until the client has it.
WP == INSTANCE DbWorkerProofs
        WITH transfer <- transfer \cup socket,
             acks <- acks \cup {<<a[2], a[3]>> : a \in answers}

\* The theorems about Presence, for the table it sees.
PP == INSTANCE PresenceProofs
        WITH where <- [w \in Worker |-> IF w \in alive THEN where[w] ELSE rConn]

(***************************************************************************)
(* Both instances of a specification are the same formula.                 *)
(***************************************************************************)

LEMMA SameQuery ==
  ASSUME NEW w, NEW clients, NEW connectorOf, A!Query(w, clients, connectorOf)
  PROVE  WP!Query(w, clients, connectorOf)
  BY DEF WP!Query, A!Query, WP!Asked, A!Asked, WP!Live, A!Live, WP!Dropped, A!Dropped,
         WP!Removal, A!Removal, WP!Following, A!Following, WP!Answered, A!Answered,
         WP!Key, A!Key, WP!SetKey, A!SetKey, WP!StoredId, A!StoredId

LEMMA SameDbWorkerNext == A!Next => WP!Next
<1>1. ASSUME NEW w, A!StatusNotice(w) PROVE WP!StatusNotice(w)
  BY <1>1, SameQuery
  DEF WP!StatusNotice, A!StatusNotice, WP!UserOnline, A!UserOnline, WP!UserOffline, A!UserOffline,
      WP!Outcomes, A!Outcomes, WP!RConnAfterOffline, A!RConnAfterOffline, WP!wire, A!wire
<1>2. ASSUME NEW w, A!Insert(w) PROVE WP!Insert(w)
  BY <1>2 DEF WP!Insert, A!Insert, WP!InsertMsg, A!InsertMsg, WP!Answered, A!Answered,
              WP!Key, A!Key, WP!SetKey, A!SetKey
<1>3. ASSUME NEW w, A!Ack(w) PROVE WP!Ack(w)
  BY <1>3 DEF WP!Ack, A!Ack, WP!UserReceivedMsg, A!UserReceivedMsg, WP!Rest, A!Rest,
              WP!PendingAfterAck, A!PendingAfterAck, WP!Outcomes, A!Outcomes
<1>4. ASSUME NEW w, A!CheckMsg(w) PROVE WP!CheckMsg(w)
  BY <1>4, SameQuery DEF WP!CheckMsg, A!CheckMsg
<1>5. ASSUME NEW w, A!Stop(w) PROVE WP!Stop(w)
  BY <1>5 DEF WP!Stop, A!Stop, WP!Nowhere, A!Nowhere, WP!Nothing, A!Nothing, WP!Asked, A!Asked,
              WP!Key, A!Key, WP!SetKey, A!SetKey, WP!redis, A!redis, WP!wire, A!wire
<1>6. ASSUME NEW w, A!Start(w) PROVE WP!Start(w)
  <2>1. \A read : A!LoadedPending(read) = WP!LoadedPending(read)
    BY DEF WP!LoadedPending, A!LoadedPending, WP!Key, A!Key, WP!SetKey, A!SetKey
  <2>2. WP!LoadDataFromRedis(w)
    BY <1>6, <2>1 DEF A!Start, WP!LoadDataFromRedis, A!LoadDataFromRedis, WP!Nowhere, A!Nowhere,
                      WP!Answered, A!Answered, WP!Outcomes, A!Outcomes
  <2>3. QED BY <1>6, <2>2 DEF WP!Start, A!Start, WP!redis, A!redis, WP!wire, A!wire
<1>7. ASSUME (\E m \in Msg : A!Expire(m)) \/ (\E t \in transfer \cup socket : A!Receive(t)) \/ A!Lose
      PROVE  WP!Next
  BY <1>7 DEF WP!Next, WP!Expire, A!Expire, WP!Receive, A!Receive, WP!Lose, A!Lose,
              WP!Rest, A!Rest, WP!redis, A!redis, WP!wire, A!wire
<1>8. QED BY <1>1, <1>2, <1>3, <1>4, <1>5, <1>6, <1>7 DEF A!Next, WP!Next

\* The composition behaves as the DbWorker the theorems are about.
LEMMA BehavesAsDbWorker == Spec => WP!Spec
<1>1. A!Init => WP!Init
  BY DEF WP!Init, A!Init, WP!Nowhere, A!Nowhere, WP!Nothing, A!Nothing,
         WP!Key, A!Key, WP!SetKey, A!SetKey
<1>2. ASSUME [A!Next]_(A!vars) PROVE [WP!Next]_(WP!vars)
  <2>1. CASE A!Next
    BY <2>1, SameDbWorkerNext
  <2>2. CASE UNCHANGED A!vars
    BY <2>2 DEF A!vars, WP!vars, A!redis, WP!redis, A!wire, WP!wire
  <2>3. QED BY <1>2, <2>1, <2>2
<1>3. Spec => A!Spec
  BY DbWorkerImplemented DEF ImplementsDbWorker
<1>4. QED BY <1>1, <1>2, <1>3, PTL DEF WP!Spec, A!Spec

LEMMA SamePresenceNext == T!Next => PP!Next
  BY DEF PP!Next, T!Next, PP!ClientEvent, T!ClientEvent, PP!Handover, T!Handover, PP!LogIn, T!LogIn,
         PP!LogOut, T!LogOut, PP!CloseSecond, T!CloseSecond, PP!Restart, T!Restart,
         PP!LoseNotices, T!LoseNotices, PP!Deliver, T!Deliver, PP!DropNotice, T!DropNotice,
         PP!Report, T!Report, PP!Notice, T!Notice, PP!UnderWay, T!UnderWay,
         PP!NextNotice, T!NextNotice, PP!Updated, T!Updated, PP!ToSet, T!ToSet

\* A composition that implements Presence behaves as the one the theorems are
\* about.
LEMMA BehavesAsPresence == ImplementsPresence => PP!Spec
<1>1. T!Init => PP!Init
  BY DEF PP!Init, T!Init
<1>2. ASSUME [T!Next]_(T!vars) PROVE [PP!Next]_(PP!vars)
  <2>1. CASE T!Next
    BY <2>1, SamePresenceNext
  <2>2. CASE UNCHANGED T!vars
    BY <2>2 DEF T!vars, PP!vars
  <2>3. QED BY <1>2, <2>1, <2>2
<1>3. QED BY <1>1, <1>2, PTL DEF PP!Spec, T!Spec, ImplementsPresence

(***************************************************************************)
(* Types.                                                                  *)
(***************************************************************************)

\* What the connectors keep: the part of Presence's types that is not the table
\* of the workers, which a restart replaces by what redis has.
ConnectorTypes ==
  /\ bound \in [Connector -> SUBSET Client]
  /\ LinksCarryNotices
  /\ \A k \in Connector : Len(link[k]) <= MaxQueue
  /\ unheard \in [Connector -> SUBSET Client]

\* A step of a connector, or of a worker that takes a notice, keeps them.
LEMMA PresenceKeepsConnectorTypes ==
  ASSUME ConnectorTypes,
         NEW k \in Connector,
         \/ \E c \in Client : P!LogIn(k, c) \/ P!LogOut(k, c) \/ P!CloseSecond(k, c)
         \/ P!Restart(k) \/ P!LoseNotices(k) \/ P!DropNotice(k)
         \/ \E w \in Worker : P!Deliver(k, w)
  PROVE  ConnectorTypes'
<1>1. /\ MaxQueue \in Nat /\ link[k] \in Seq(P!Notices)
      /\ \A j \in Connector : Len(link[j]) \in Nat /\ Len(link[j]) <= MaxQueue
  BY MaxQueueAssumption DEF ConnectorTypes, LinksCarryNotices
<1>2. ASSUME NEW c \in Client, NEW b \in BOOLEAN, P!Report(k, c, b),
             bound' \in [Connector -> SUBSET Client]
      PROVE  ConnectorTypes'
  <2> DEFINE longer == Append(link[k], P!Notice(c, b))
  <2>1. P!Notice(c, b) \in P!Notices
    BY DEF P!Notice, P!Notices
  <2>2. longer \in Seq(P!Notices) /\ Len(longer) <= MaxQueue
    BY <1>1, <1>2, <2>1 DEF P!Report
  <2>3. link' = [link EXCEPT ![k] = longer]
    BY <1>2 DEF P!Report
  <2> HIDE DEF longer
  <2>4. LinksCarryNotices' /\ \A j \in Connector : Len(link'[j]) <= MaxQueue
    BY <1>1, <2>2, <2>3 DEF ConnectorTypes, LinksCarryNotices
  <2>5. unheard' \in [Connector -> SUBSET Client]
    BY <1>2 DEF P!Report, ConnectorTypes
  <2>6. QED BY <1>2, <2>4, <2>5 DEF ConnectorTypes
<1>3. P!UnderWay(k) \subseteq Client
  <2>1. \A i \in DOMAIN link[k] : link[k][i] \in P!Notices
    BY <1>1
  <2>2. \A i \in DOMAIN link[k] : link[k][i].client \in Client
    BY <2>1 DEF P!Notices
  <2>3. QED BY <2>2 DEF P!UnderWay, P!ToSet
<1>4. ASSUME link' = [link EXCEPT ![k] = <<>>]
      PROVE  LinksCarryNotices' /\ \A j \in Connector : Len(link'[j]) <= MaxQueue
  BY <1>1, <1>4, Len(<<>>) = 0 DEF ConnectorTypes, LinksCarryNotices
<1>5. ASSUME NEW c \in Client, P!LogIn(k, c) \/ P!LogOut(k, c) \/ P!CloseSecond(k, c)
      PROVE  ConnectorTypes'
  <2>1. bound' \in [Connector -> SUBSET Client]
    <3>1. bound \in [Connector -> SUBSET Client]
      BY DEF ConnectorTypes
    <3>2. \/ bound' = [bound EXCEPT ![k] = @ \cup {c}]
          \/ bound' = [bound EXCEPT ![k] = @ \ {c}]
          \/ bound' = bound
      BY <1>5 DEF P!LogIn, P!LogOut, P!CloseSecond
    <3>3. QED BY <3>1, <3>2
  <2>2. P!Report(k, c, TRUE) \/ P!Report(k, c, FALSE)
    BY <1>5 DEF P!LogIn, P!LogOut, P!CloseSecond
  <2>3. QED BY <1>2, <2>1, <2>2
<1>6. CASE P!Restart(k)
  BY <1>3, <1>4, <1>6 DEF P!Restart, ConnectorTypes
<1>7. CASE P!LoseNotices(k)
  BY <1>3, <1>4, <1>7 DEF P!LoseNotices, ConnectorTypes
<1>8. ASSUME P!DropNotice(k) \/ \E w \in Worker : P!Deliver(k, w) PROVE ConnectorTypes'
  <2>1. link[k] # <<>> /\ link' = [link EXCEPT ![k] = Tail(link[k])]
    BY <1>8 DEF P!Deliver, P!DropNotice
  <2>2. Tail(link[k]) \in Seq(P!Notices) /\ Len(Tail(link[k])) <= MaxQueue
    BY <1>1, <2>1
  <2>3. LinksCarryNotices' /\ \A j \in Connector : Len(link'[j]) <= MaxQueue
    BY <1>1, <2>1, <2>2 DEF ConnectorTypes, LinksCarryNotices
  <2>4. Head(link[k]) \in P!Notices
    BY <1>1, <2>1
  <2>5. Head(link[k]).client \in Client
    BY <2>4 DEF P!Notices
  <2>6. unheard' \in [Connector -> SUBSET Client] /\ bound' = bound
    BY <1>8, <2>5 DEF P!Deliver, P!DropNotice, ConnectorTypes
  <2>7. QED BY <2>3, <2>6 DEF ConnectorTypes
<1>9. QED BY <1>5, <1>6, <1>7, <1>8

\* The steps that are not Presence's leave the connectors alone.
LEMMA ConnectorSteps ==
  ASSUME [Next]_vars, alive \subseteq Worker
  PROVE  \/ \E k \in Connector : ClientEvent(k) \/ LoseNotices(k) \/ DropNotice(k)
         \/ \E k \in Connector, w \in alive : Deliver(k, w)
         \/ UNCHANGED presence
<1>1. ASSUME NEW w \in Worker,
             \/ HttpRequest(w) \/ CheckMsg(w) \/ StopWorker(w) \/ StartWorker(w)
             \/ \E c \in Client, m \in Msg : UserMsgAck(w, c, m)
      PROVE  UNCHANGED presence
  BY <1>1 DEF HttpRequest, CheckMsg, StopWorker, StartWorker, UserMsgAck
<1>2. ASSUME \/ \E t \in transfer : TransferMsg(t)
             \/ \E t \in socket : ReceivePush(t)
             \/ \E t \in answers : PushAck(t)
             \/ \E r \in reports : ReportData(r)
             \/ \E m \in Msg : Expire(m)
             \/ LoseMessages \/ LoseReports \/ UNCHANGED vars
      PROVE  UNCHANGED presence
  BY <1>2 DEF TransferMsg, ReceivePush, PushAck, ReportData, Expire, LoseMessages, LoseReports, vars
<1>3. QED BY <1>1, <1>2 DEF Next, WorkerEvent

LEMMA ConnectorTypesKept ==
  ConnectorTypes /\ alive \subseteq Worker /\ [Next]_vars => ConnectorTypes'
<1> SUFFICES ASSUME ConnectorTypes, alive \subseteq Worker, [Next]_vars PROVE ConnectorTypes'
  OBVIOUS
<1>1. ASSUME NEW k \in Connector, ClientEvent(k) \/ LoseNotices(k) \/ DropNotice(k) PROVE ConnectorTypes'
  BY <1>1, PresenceKeepsConnectorTypes
  DEF ClientEvent, LogIn, LogOut, CloseSecond, RestartConnector, LoseNotices, DropNotice
<1>2. ASSUME NEW k \in Connector, NEW w \in Worker, Deliver(k, w) PROVE ConnectorTypes'
  BY <1>2, PresenceKeepsConnectorTypes DEF Deliver
<1>3. ASSUME UNCHANGED presence PROVE ConnectorTypes'
  BY <1>3 DEF presence, ConnectorTypes, LinksCarryNotices
<1>4. QED BY <1>1, <1>2, <1>3, ConnectorSteps

\* The two hops between a connector and a client, and the way of a report.
HopTypes ==
  /\ answers \subseteq Connector \X Client \X Msg
  /\ {reports, told} \subseteq SUBSET (Client \X Msg)

\* An answer was a push on a connection, a report an acknowledgement.
LEMMA HopTypesKept ==
  HopTypes /\ socket \subseteq Connector \X Client \X Msg /\ alive \subseteq Worker /\ [Next]_vars
    => HopTypes'
<1> SUFFICES ASSUME HopTypes, socket \subseteq Connector \X Client \X Msg, alive \subseteq Worker,
                    [Next]_vars
             PROVE  HopTypes'
  OBVIOUS
<1>1. ASSUME answers' \subseteq answers \cup socket, reports' \subseteq reports,
             told' \subseteq told \cup reports
      PROVE  HopTypes'
  BY <1>1 DEF HopTypes
<1>2. ASSUME NEW w \in Worker, NEW c \in Client, NEW m \in Msg, UserMsgAck(w, c, m) PROVE HopTypes'
  BY <1>2 DEF UserMsgAck, HopTypes
<1>3. ASSUME NEW r \in reports, ReportData(r) PROVE HopTypes'
  BY <1>1, <1>3 DEF ReportData, lines
<1>4. ASSUME NEW w \in Worker,
             \/ HttpRequest(w) \/ CheckMsg(w) \/ StopWorker(w) \/ StartWorker(w)
             \/ \E k \in Connector : Deliver(k, w)
      PROVE  HopTypes'
  BY <1>1, <1>4 DEF HttpRequest, CheckMsg, StopWorker, StartWorker, Deliver, php
<1>5. ASSUME NEW k \in Connector, ClientEvent(k) \/ LoseNotices(k) \/ DropNotice(k) PROVE HopTypes'
  BY <1>1, <1>5 DEF ClientEvent, LogIn, LogOut, CloseSecond, RestartConnector, LoseNotices, DropNotice,
                    Drop, Without, lines, php
<1>6. ASSUME \/ \E t \in transfer : TransferMsg(t)
             \/ \E t \in socket : ReceivePush(t)
             \/ \E t \in answers : PushAck(t)
      PROVE  HopTypes'
  BY <1>1, <1>6 DEF TransferMsg, ReceivePush, PushAck, W!Rest, php
<1>7. ASSUME (\E m \in Msg : Expire(m)) \/ LoseMessages \/ LoseReports \/ UNCHANGED vars
      PROVE  HopTypes'
  BY <1>1, <1>7 DEF Expire, LoseMessages, LoseReports, lines, php, vars
<1>8. QED BY <1>2, <1>3, <1>4, <1>5, <1>6, <1>7 DEF Next, WorkerEvent

\* Every variable of the composition keeps to its type, with any number of
\* workers, whatever is restarted, lost or refused.
THEOREM TypeCorrect == Spec => []TypeOK
<1>1. Init => ConnectorTypes /\ HopTypes
  <2>1. MaxQueue \in Nat
    BY MaxQueueAssumption
  <2>2. QED BY <2>1, Len(<<>>) = 0
            DEF Init, P!Init, ConnectorTypes, LinksCarryNotices, HopTypes
<1>2. Spec => []WP!TypeOK
  BY BehavesAsDbWorker, WP!TypeCorrect, PTL, MsgAssumption, NoneAssumption, SwitchAssumption, KeyAssumption
  DEF W!SetKey, WP!SetKey
<1>3. WP!TypeOK => socket \subseteq Connector \X Client \X Msg /\ alive \subseteq Worker
  BY DEF WP!TypeOK
<1>4. WP!TypeOK /\ ConnectorTypes /\ HopTypes => TypeOK
  BY DEF TypeOK, WP!TypeOK, P!TypeOK, W!TypeOK, ConnectorTypes, LinksCarryNotices, HopTypes,
         WP!Key, W!Key, WP!SetKey, W!SetKey, WP!StoredId, W!StoredId
<1>5. QED BY <1>1, <1>2, <1>3, <1>4, ConnectorTypesKept, HopTypesKept, PTL DEF Spec

(***************************************************************************)
(* No acknowledgement is refused.                                          *)
(***************************************************************************)

\* A connector takes a client out of its table only together with what is on
\* the client's connection, and writes only to clients in the table.
LEMMA AnswersAcceptedKept == TypeOK /\ AnswersAccepted /\ [Next]_vars => AnswersAccepted'
<1> SUFFICES ASSUME TypeOK, AnswersAccepted, [Next]_vars PROVE AnswersAccepted'
  OBVIOUS
<1>1. /\ bound \in [Connector -> SUBSET Client]
      /\ {socket, answers} \subseteq SUBSET (Connector \X Client \X Msg)
      /\ alive \subseteq Worker
  BY DEF TypeOK, P!TypeOK, W!TypeOK
<1>2. ASSUME socket' \cup answers' \subseteq socket \cup answers,
             \A k \in Connector : bound[k] \subseteq bound'[k]
      PROVE  AnswersAccepted'
  BY <1>1, <1>2 DEF AnswersAccepted
<1>3. ASSUME NEW k \in Connector, NEW gone, Drop(k, gone),
             \A j \in Connector : bound'[j] = IF j = k THEN bound[j] \ gone ELSE bound[j]
      PROVE  AnswersAccepted'
  <2>1. ASSUME NEW t \in socket' \cup answers' PROVE t[2] \in bound'[t[1]]
    <3>1. t \in socket \cup answers /\ ~ (t[1] = k /\ t[2] \in gone)
      BY <1>3, <2>1 DEF Drop, Without
    <3>2. t[1] \in Connector /\ t[2] \in bound[t[1]]
      BY <1>1, <3>1 DEF AnswersAccepted
    <3>3. QED BY <1>3, <3>1, <3>2
  <2>2. QED BY <2>1 DEF AnswersAccepted
<1>4. ASSUME NEW k \in Connector, NEW c \in Client, LogIn(k, c) \/ CloseSecond(k, c)
      PROVE  AnswersAccepted'
  <2>1. UNCHANGED lines /\ (bound' = [bound EXCEPT ![k] = @ \cup {c}] \/ bound' = bound)
    BY <1>4 DEF LogIn, CloseSecond, P!LogIn, P!CloseSecond
  <2>2. \A j \in Connector : bound[j] \subseteq bound'[j]
    BY <1>1, <2>1
  <2>3. QED BY <1>2, <2>1, <2>2 DEF lines
<1>5. ASSUME NEW k \in Connector, NEW c \in Client, LogOut(k, c) PROVE AnswersAccepted'
  <2>1. Drop(k, {c}) /\ bound' = [bound EXCEPT ![k] = @ \ {c}]
    BY <1>5 DEF LogOut, P!LogOut
  <2>2. QED BY <1>1, <1>3, <2>1
<1>6. ASSUME NEW k \in Connector, RestartConnector(k) PROVE AnswersAccepted'
  <2>1. Drop(k, Client) /\ bound' = [bound EXCEPT ![k] = {}]
    BY <1>6 DEF RestartConnector, P!Restart
  <2>2. \A j \in Connector : bound'[j] = IF j = k THEN bound[j] \ Client ELSE bound[j]
    BY <1>1, <2>1
  <2>3. QED BY <1>3, <2>1, <2>2
<1>7. ASSUME NEW k \in Connector, LoseNotices(k) \/ DropNotice(k) PROVE AnswersAccepted'
  BY <1>2, <1>7 DEF LoseNotices, P!LoseNotices, DropNotice, P!DropNotice, lines
<1>8. ASSUME NEW w \in Worker,
             \/ HttpRequest(w) \/ CheckMsg(w) \/ StopWorker(w) \/ StartWorker(w)
             \/ \E c \in Client, m \in Msg : UserMsgAck(w, c, m)
             \/ \E k \in Connector : Deliver(k, w)
      PROVE  AnswersAccepted'
  BY <1>2, <1>8 DEF HttpRequest, CheckMsg, StopWorker, StartWorker, UserMsgAck, Deliver, P!Deliver, presence
<1>9. ASSUME NEW t \in transfer, TransferMsg(t) PROVE AnswersAccepted'
  <2>1. /\ socket' \subseteq socket \cup (IF t[2] \in bound[t[1]] THEN {t} ELSE {})
        /\ answers' = answers /\ bound' = bound
    BY <1>9 DEF TransferMsg, Forwarded, presence
  <2>2. QED BY <2>1 DEF AnswersAccepted
<1>10. ASSUME (\E t \in socket : ReceivePush(t)) \/ (\E t \in answers : PushAck(t))
       PROVE  AnswersAccepted'
  <2>1. socket' \cup answers' \subseteq socket \cup answers /\ bound' = bound
    BY <1>10 DEF ReceivePush, PushAck, W!Rest, presence
  <2>2. QED BY <1>2, <2>1
<1>11. ASSUME \/ \E r \in reports : ReportData(r)
              \/ \E m \in Msg : Expire(m)
              \/ LoseMessages \/ LoseReports \/ UNCHANGED vars
       PROVE  AnswersAccepted'
  BY <1>2, <1>11 DEF ReportData, Expire, LoseMessages, LoseReports, lines, presence, vars
<1>12. QED BY <1>1, <1>4, <1>5, <1>6, <1>7, <1>8, <1>9, <1>10, <1>11 DEF Next, ClientEvent, WorkerEvent

\* What a client has on its connection, a push or the answer to one, is at a
\* connector that knows the client: CMT_PUSH_ACK always finds its player.
THEOREM AnswersAcceptedInvariant == Spec => []AnswersAccepted
<1>1. Init => AnswersAccepted
  BY DEF Init, AnswersAccepted
<1>2. QED BY <1>1, AnswersAcceptedKept, TypeCorrect, PTL DEF Spec

(***************************************************************************)
(* The theorems about the parts.                                           *)
(***************************************************************************)

\* Nothing on the whole path is somebody else's: what waits for a client or is
\* on its way to it, on its connection, on its way back, settled, or told to
\* PHP as received by it, PHP has pushed to that client.
OnlyAddressedAnywhere ==
  /\ W!OnlyAddressed
  /\ \A t \in socket \cup answers : <<t[2], t[3]>> \in inserted
  /\ reports \cup told \subseteq inserted

THEOREM OnlyAddressedEndToEnd == Spec => []OnlyAddressedAnywhere
<1>1. Spec => []WP!OnlyAddressed
  BY BehavesAsDbWorker, WP!OnlyAddressedInvariant, PTL,
     MsgAssumption, NoneAssumption, SwitchAssumption, KeyAssumption DEF W!SetKey, WP!SetKey
<1>2. WP!OnlyAddressed /\ OnlyReceivedSettled => OnlyAddressedAnywhere
  BY DEF WP!OnlyAddressed, W!OnlyAddressed, OnlyReceivedSettled, OnlyAddressedAnywhere
<1>3. QED BY <1>1, <1>2, OnlyReceivedSettledInvariant, PTL

\* Until it expires, its acknowledgement has come all the way back or its worker
\* stops, a stored message stays pending for its client: connectors that drop it,
\* restart or lose notices, and redis commands that fail among others, do not make
\* a running worker forget it.
THEOREM UnackedKeptEndToEnd == Spec => []W!UnackedKept
<1>1. Spec => []WP!UnackedKept
  BY BehavesAsDbWorker, WP!UnackedKeptInvariant, PTL,
     MsgAssumption, NoneAssumption, SwitchAssumption, KeyAssumption DEF W!SetKey, WP!SetKey
<1>2. WP!UnackedKept => W!UnackedKept
  BY DEF WP!UnackedKept, W!UnackedKept
<1>3. QED BY <1>1, <1>2, PTL

\* With a single worker, what it has settled is not sent to that client again,
\* by no login, periodic check or restart of any server: no message appears on
\* the way or on a connection that was on neither.
THEOREM SettledNotResentEndToEnd ==
  ASSUME NEW only, Worker = {only}
  PROVE  Spec => A!AckedNotResent
<1>1. WP!Spec => WP!AckedNotResent
  BY WP!AckedNotResentInvariant, MsgAssumption, NoneAssumption, SwitchAssumption, KeyAssumption
  DEF W!SetKey, WP!SetKey
<1>2. WP!AckedNotResent => A!AckedNotResent
  BY DEF WP!AckedNotResent, A!AckedNotResent, WP!vars, A!vars, WP!redis, A!redis, WP!wire, A!wire
<1>3. QED BY <1>1, <1>2, BehavesAsDbWorker

\* With a single worker and a redis that does not fail, what a restarted worker
\* would load is what it knew, though notices are lost, late or repeated.
THEOREM RedisMirrorsPresenceEndToEnd ==
  ASSUME NEW only, Worker = {only}, ~ RedisMayFail
  PROVE  Spec => []RedisMirrorsPresence
<1>1. WP!Spec => []WP!RedisMirrorsPresence
  BY WP!RedisMirrorsPresenceInvariant,
     MsgAssumption, NoneAssumption, SwitchAssumption, KeyAssumption DEF W!SetKey, WP!SetKey
<1>2. WP!RedisMirrorsPresence => RedisMirrorsPresence
  BY DEF WP!RedisMirrorsPresence, RedisMirrorsPresence, W!RedisMirrorsPresence
<1>3. QED BY <1>1, <1>2, BehavesAsDbWorker, PTL

\* With a single worker that is not restarted, or restarted over a redis that
\* does not fail: a client it places at a connector that cannot reach the
\* client is about to be taken out, unless the connector's last word was lost.
\* While the worker is down that holds of what redis has for it.
THEOREM NoStaleOnlineEndToEnd ==
  ASSUME NEW only, Worker = {only}, ~ MayRestart \/ ~ RedisMayFail
  PROVE  Spec => []T!NoStaleOnline
<1>1. Spec => ImplementsPresence
  BY PresenceWithoutRestart, PresenceAcrossRestarts
<1>2. PP!Spec => []PP!NoStaleOnline
  BY PP!NoStaleOnlineInvariant, MaxQueueAssumption, NoneAssumption
<1>3. PP!NoStaleOnline => T!NoStaleOnline
  BY DEF PP!NoStaleOnline, T!NoStaleOnline, PP!LastWord, T!LastWord
<1>4. QED BY <1>1, <1>2, <1>3, BehavesAsPresence, PTL

(***************************************************************************)
(* What PHP sees.                                                          *)
(***************************************************************************)

\* A request, a receipt and a report of one are steps of Service; all the others
\* go on behind it.
LEMMA ServiceStep ==
  ASSUME TypeOK, OnlyAddressedAnywhere, OnlyReceivedSettled, [Next]_vars
  PROVE  [S!Next]_(S!vars)
<1>1. /\ {socket, answers} \subseteq SUBSET (Connector \X Client \X Msg)
      /\ {reports, told} \subseteq SUBSET (Client \X Msg)
      /\ alive \subseteq Worker
  BY DEF TypeOK, W!TypeOK
<1>2. ASSUME NEW w \in Worker, HttpRequest(w) PROVE S!Next
  <2>1. PICK m \in Msg, clients \in SUBSET Client, immediate \in BOOLEAN :
          W!InsertMsg(w, m, clients, immediate)
    BY <1>2 DEF HttpRequest, W!Insert
  <2>2. UNCHANGED <<got, told>>
    BY <1>2, <2>1 DEF HttpRequest, W!InsertMsg, php
  <2>3. S!HttpRequest(m, clients)
    BY <2>1, <2>2 DEF W!InsertMsg, S!HttpRequest
  <2>4. QED BY <2>3 DEF S!Next
<1>3. ASSUME NEW t \in socket, ReceivePush(t) PROVE S!Next
  <2>1. t[2] \in Client /\ t[3] \in Msg
    BY <1>1
  <2>2. S!Receive(t[2], t[3])
    BY <1>3 DEF ReceivePush, storage, php, S!Receive, OnlyAddressedAnywhere
  <2>3. QED BY <2>1, <2>2 DEF S!Next
<1>4. ASSUME NEW r \in reports, ReportData(r) PROVE S!Next
  <2>1. PICK c \in Client, m \in Msg : r = <<c, m>>
    BY <1>1
  <2>2. S!ReportData(c, m)
    BY <1>4, <2>1 DEF ReportData, storage, S!ReportData, OnlyReceivedSettled
  <2>3. QED BY <2>2 DEF S!Next
<1>5. ASSUME NEW w \in Worker,
             \/ CheckMsg(w) \/ StopWorker(w) \/ StartWorker(w)
             \/ \E c \in Client, m \in Msg : UserMsgAck(w, c, m)
             \/ \E k \in Connector : Deliver(k, w)
      PROVE  UNCHANGED S!vars
  BY <1>5 DEF CheckMsg, W!CheckMsg, StopWorker, W!Stop, StartWorker, W!Start, UserMsgAck, W!UserReceivedMsg,
              Deliver, W!UserOnline, W!UserOffline, W!wire, php, S!vars
<1>6. ASSUME NEW k \in Connector, ClientEvent(k) \/ LoseNotices(k) \/ DropNotice(k) PROVE UNCHANGED S!vars
  BY <1>6 DEF ClientEvent, LogIn, LogOut, CloseSecond, RestartConnector, LoseNotices, DropNotice,
              storage, php, S!vars
<1>7. ASSUME \/ \E t \in transfer : TransferMsg(t)
             \/ \E t \in answers : PushAck(t)
             \/ \E m \in Msg : Expire(m)
             \/ LoseMessages \/ LoseReports
      PROVE  UNCHANGED S!vars
  BY <1>7 DEF TransferMsg, PushAck, Expire, W!Expire, W!wire, LoseMessages, W!Lose, LoseReports,
              storage, php, S!vars
<1>8. ASSUME UNCHANGED vars PROVE UNCHANGED S!vars
  BY <1>8 DEF vars, storage, php, S!vars
<1>9. QED BY <1>1, <1>2, <1>3, <1>4, <1>5, <1>6, <1>7, <1>8 DEF Next, WorkerEvent, S!vars

\* The whole system is the service PHP may rely on, for any number of servers
\* of every kind and whatever they lose, repeat or forget.
THEOREM ServiceImplemented == Spec => ImplementsService
<1>1. Init => S!Init
  BY DEF Init, W!Init, S!Init
<1>2. QED BY <1>1, ServiceStep, TypeCorrect, OnlyAddressedEndToEnd, OnlyReceivedSettledInvariant,
             PTL DEF Spec, S!Spec, ImplementsService
=============================================================================
