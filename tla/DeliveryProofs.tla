--------------------------- MODULE DeliveryProofs ---------------------------
(***************************************************************************)
(* Theorems about Delivery, for any number of connectors, clients, workers *)
(* and messages, with restarts, expiry and failing redis commands or       *)
(* without.                                                                *)
(***************************************************************************)
EXTENDS Delivery, TLAPS

(***************************************************************************)
(* Every step of the composition is a step of DbWorker or none.            *)
(***************************************************************************)

\* The acknowledgements on the way, as DbWorker sees them.
Pairs(set) == {<<a[2], a[3]>> : a \in set}

\* What a connector has under way are notices.
LinksCarryNotices == link \in [Connector -> Seq(P!Notices)]

\* A query adds to what is on the way, whatever waits on the connections.
LEMMA QueryMaps ==
  ASSUME NEW w, NEW clients, NEW connectorOf,
         W!Query(w, clients, connectorOf), socket' = socket
  PROVE  A!Query(w, clients, connectorOf)
  <1> DEFINE asked == W!Asked(w, clients)
  <1>1. /\ asked = A!Asked(w, clients) /\ W!Key = A!Key /\ W!StoredId = A!StoredId
        /\ \A commands : W!Answered(commands) = A!Answered(commands)
        /\ \A read : W!Live(read) = A!Live(read)
        /\ \A read : W!Dropped(asked, read) = A!Dropped(asked, read)
        /\ \A r, junk : W!Removal(w, r, junk) = A!Removal(w, r, junk)
    BY DEF W!Asked, A!Asked, W!Key, A!Key, W!SetKey, A!SetKey, W!StoredId, A!StoredId,
           W!Answered, A!Answered, W!Live, A!Live, W!Dropped, A!Dropped,
           W!Removal, A!Removal, W!Following, A!Following
  <1>2. PICK read \in W!Answered(asked), junk \in [clients -> W!StoredId] :
          /\ transfer' = transfer \cup {<<connectorOf[r[1]], r[1], r[2]>> : r \in W!Live(read)}
          /\ pend' = [pend EXCEPT ![w] =
                        [k \in W!Key |-> {m \in pend[w][k] : <<k, m>> \notin W!Dropped(asked, read)}]]
          /\ \E removed \in W!Answered(UNION {W!Removal(w, r, junk) : r \in W!Dropped(asked, read)}) :
               rSet' = [c \in Client |-> {m \in rSet[c] : <<c, m>> \notin removed}]
    BY DEF W!Query
  <1> HIDE DEF asked
  <1>3. transfer' \cup socket' = (transfer \cup socket)
          \cup {<<connectorOf[r[1]], r[1], r[2]>> : r \in A!Live(read)}
    BY <1>1, <1>2
  <1>4. pend' = [pend EXCEPT ![w] =
                   [k \in A!Key |-> {m \in pend[w][k] : <<k, m>> \notin A!Dropped(asked, read)}]]
    <2>1. W!Dropped(asked, read) = A!Dropped(asked, read) /\ W!Key = A!Key
      BY <1>1
    <2>2. [k \in W!Key |-> {m \in pend[w][k] : <<k, m>> \notin W!Dropped(asked, read)}]
            = [k \in A!Key |-> {m \in pend[w][k] : <<k, m>> \notin A!Dropped(asked, read)}]
      BY <2>1, Zenon
    <2>3. QED BY <1>2, <2>2, Zenon
  <1>5. UNION {W!Removal(w, r, junk) : r \in W!Dropped(asked, read)}
          = UNION {A!Removal(w, r, junk) : r \in A!Dropped(asked, read)}
    BY <1>1
  <1>6. PICK removed \in A!Answered(UNION {A!Removal(w, r, junk) : r \in A!Dropped(asked, read)}) :
          rSet' = [c \in Client |-> {m \in rSet[c] : <<c, m>> \notin removed}]
    BY <1>1, <1>2, <1>5
  <1>7. asked = A!Asked(w, clients) /\ read \in A!Answered(asked) /\ junk \in [clients -> A!StoredId]
    BY <1>1, <1>2
  <1>8. QED BY <1>3, <1>4, <1>6, <1>7 DEF A!Query

\* A status notice.
LEMMA DeliverMaps ==
  ASSUME NEW k \in Connector, NEW w \in Worker, LinksCarryNotices, Deliver(k, w)
  PROVE  A!StatusNotice(w)
  <1> DEFINE n == Head(link[k])
  <1>1. link[k] # <<>> /\ link[k] \in Seq(P!Notices)
    BY DEF Deliver, P!Deliver, LinksCarryNotices
  <1>2. n \in P!Notices
    BY <1>1
  <1>3. n.client \in Client
    BY <1>2 DEF P!Notices
  <1>4. socket' = socket /\ answers' = answers
    BY DEF Deliver
  <1> HIDE DEF n
  <1>5. ASSUME W!UserOnline(w, n.client, k) PROVE A!UserOnline(w, n.client, k)
    <2>1. A!Query(w, {n.client}, where'[w])
      BY <1>4, <1>5, QueryMaps DEF W!UserOnline
    <2>2. QED BY <1>4, <1>5, <2>1 DEF W!UserOnline, A!UserOnline, W!Outcomes, A!Outcomes
  <1>6. ASSUME W!UserOffline(w, n.client) PROVE A!UserOffline(w, n.client)
    BY <1>4, <1>6 DEF W!UserOffline, A!UserOffline, W!RConnAfterOffline, A!RConnAfterOffline,
                      W!Outcomes, A!Outcomes, W!wire, A!wire
  <1>7. W!UserOnline(w, n.client, k) \/ W!UserOffline(w, n.client)
    BY DEF Deliver, n
  <1>8. QED BY <1>3, <1>5, <1>6, <1>7 DEF A!StatusNotice

\* A request of PHP.
LEMMA HttpRequestMaps ==
  ASSUME NEW w \in Worker, HttpRequest(w)
  PROVE  A!Insert(w)
  <1>1. PICK m \in Msg, clients \in SUBSET Client, immediate \in BOOLEAN :
          W!InsertMsg(w, m, clients, immediate)
    BY DEF HttpRequest, W!Insert
  <1>2. socket' = socket /\ answers' = answers
    BY DEF HttpRequest
  <1>3. A!InsertMsg(w, m, clients, immediate)
    BY <1>1, <1>2 DEF W!InsertMsg, A!InsertMsg, W!Answered, A!Answered,
                      W!Key, A!Key, W!SetKey, A!SetKey
  <1>4. QED BY <1>3 DEF A!Insert

\* The periodic check.
LEMMA CheckMsgMaps ==
  ASSUME NEW w \in Worker, CheckMsg(w)
  PROVE  A!CheckMsg(w)
  <1>1. socket' = socket /\ answers' = answers /\ W!CheckMsg(w)
    BY DEF CheckMsg
  <1>2. A!Query(w, {c \in Client : where[w][c] # None}, where[w])
    BY <1>1, QueryMaps DEF W!CheckMsg
  <1>3. QED BY <1>1, <1>2 DEF W!CheckMsg, A!CheckMsg

\* A worker that dies or starts.
LEMMA StopWorkerMaps ==
  ASSUME NEW w \in Worker, StopWorker(w)
  PROVE  A!Stop(w)
  BY DEF StopWorker, W!Stop, A!Stop, W!Nowhere, A!Nowhere, W!Nothing, A!Nothing, W!Asked, A!Asked,
         W!Key, A!Key, W!SetKey, A!SetKey, W!redis, A!redis, W!wire, A!wire

LEMMA StartWorkerMaps ==
  ASSUME NEW w \in Worker, StartWorker(w)
  PROVE  A!Start(w)
  <1>1. \A read : W!LoadedPending(read) = A!LoadedPending(read)
    BY DEF W!LoadedPending, A!LoadedPending, W!Key, A!Key, W!SetKey, A!SetKey
  <1>2. A!LoadDataFromRedis(w)
    BY <1>1 DEF StartWorker, W!Start, W!LoadDataFromRedis, A!LoadDataFromRedis, W!Nowhere, A!Nowhere,
                W!Answered, A!Answered, W!Outcomes, A!Outcomes
  <1>3. QED BY <1>2 DEF StartWorker, W!Start, A!Start, W!redis, A!redis, W!wire, A!wire

\* An acknowledgement that has reached the worker: a copy of it may still be on
\* a connection.
LEMMA UserMsgAckMaps ==
  ASSUME NEW w \in Worker, NEW c \in Client, NEW m \in Msg, UserMsgAck(w, c, m)
  PROVE  A!Ack(w)
  <1>1. W!UserReceivedMsg(w, c, m)
    BY DEF UserMsgAck
  <1>2. socket' = socket /\ answers' = answers
    BY DEF UserMsgAck
  <1> DEFINE before == acks \cup Pairs(answers)
             after == acks' \cup Pairs(answers)
  <1>3. after \in A!Rest(before, <<c, m>>)
    <2>1. acks' = acks \/ acks' = acks \ {<<c, m>>}
      BY <1>1 DEF W!UserReceivedMsg, W!Rest
    <2>2. CASE <<c, m>> \in Pairs(answers)
      <3>1. after = before
        BY <2>1, <2>2
      <3>2. QED BY <3>1 DEF A!Rest
    <2>3. CASE <<c, m>> \notin Pairs(answers)
      <3>1. after = before \/ after = before \ {<<c, m>>}
        BY <2>1, <2>3
      <3>2. QED BY <3>1 DEF A!Rest
    <2>4. QED BY <2>2, <2>3
  <1>4. A!UserReceivedMsg(w, c, m)
    BY <1>1, <1>2, <1>3
    DEF W!UserReceivedMsg, A!UserReceivedMsg, W!PendingAfterAck, A!PendingAfterAck,
        W!Outcomes, A!Outcomes, Pairs
  <1>5. QED BY <1>4 DEF A!Ack

\* A push that reaches its client.
LEMMA ReceivePushMaps ==
  ASSUME NEW t \in socket, ReceivePush(t)
  PROVE  t \in transfer \cup socket /\ A!Receive(t)
  <1> DEFINE before == transfer \cup socket
             after == transfer \cup socket'
  <1>1. after \in A!Rest(before, t)
    <2>1. socket' = socket \/ socket' = socket \ {t}
      BY DEF ReceivePush, W!Rest
    <2>2. CASE t \in transfer
      <3>1. after = before
        BY <2>1, <2>2
      <3>2. QED BY <3>1 DEF A!Rest
    <2>3. CASE t \notin transfer
      <3>1. after = before \/ after = before \ {t}
        BY <2>1, <2>3
      <3>2. QED BY <3>1 DEF A!Rest
    <2>4. QED BY <2>2, <2>3
  <1>2. transfer' = transfer /\ acks' = acks /\ answers' = answers \cup {t}
    BY DEF ReceivePush, lines
  <1>3. acks' \cup Pairs(answers') = (acks \cup Pairs(answers)) \cup {<<t[2], t[3]>>}
    BY <1>2 DEF Pairs
  <1>4. QED BY <1>1, <1>2, <1>3
    DEF ReceivePush, A!Receive, storage, A!redis, Pairs

\* What a step that only loses messages and acknowledgements maps to.
LEMMA LossMaps ==
  ASSUME transfer' \cup socket' \subseteq transfer \cup socket,
         acks' \cup Pairs(answers') \subseteq acks \cup Pairs(answers),
         UNCHANGED <<storage, got>>
  PROVE  A!Lose
  BY DEF A!Lose, A!redis, storage, Pairs

\* The steps that lose, drop or forward what is on the way.
LEMMA LossSteps ==
  ASSUME \/ \E k \in Connector : ClientEvent(k) \/ LoseNotices(k) \/ DropNotice(k)
         \/ \E t \in transfer : TransferMsg(t)
         \/ \E t \in answers : PushAck(t)
         \/ \E r \in reports : ReportData(r)
         \/ LoseMessages \/ LoseReports
  PROVE  A!Lose
  <1>1. ASSUME UNCHANGED <<storage, got, lines>> PROVE A!Lose
    BY <1>1, LossMaps DEF lines
  <1>2. ASSUME NEW k \in Connector, NEW gone, Drop(k, gone),
               UNCHANGED <<storage, got, transfer, acks>>
        PROVE  A!Lose
    <2>1. socket' \subseteq socket /\ answers' \subseteq answers
      BY <1>2 DEF Drop, Without
    <2>2. Pairs(answers') \subseteq Pairs(answers)
      BY <2>1 DEF Pairs
    <2>3. QED BY <1>2, <2>1, <2>2, LossMaps
  <1>3. ASSUME NEW k \in Connector, ClientEvent(k) \/ LoseNotices(k) \/ DropNotice(k) PROVE A!Lose
    BY <1>1, <1>2, <1>3
    DEF ClientEvent, LogIn, LogOut, CloseSecond, RestartConnector, LoseNotices, DropNotice
  <1>4. ASSUME NEW t \in transfer, TransferMsg(t) PROVE A!Lose
    <2>1. Forwarded(t) \subseteq {t} /\ transfer' \subseteq transfer
      BY <1>4 DEF Forwarded, TransferMsg, W!Rest
    <2>2. transfer' \cup socket' \subseteq transfer \cup socket
      BY <1>4, <2>1 DEF TransferMsg
    <2>3. UNCHANGED <<storage, got, acks, answers>>
      BY <1>4 DEF TransferMsg
    <2>4. QED BY <2>2, <2>3, LossMaps
  <1>5. ASSUME NEW t \in answers, PushAck(t) PROVE A!Lose
    <2>1. answers' \subseteq answers /\ <<t[2], t[3]>> \in Pairs(answers)
      BY <1>5 DEF PushAck, W!Rest, Pairs
    <2>2. Pairs(answers') \subseteq Pairs(answers)
      BY <2>1 DEF Pairs
    <2>3. acks' \subseteq acks \cup {<<t[2], t[3]>>}
      BY <1>5 DEF PushAck
    <2>4. acks' \cup Pairs(answers') \subseteq acks \cup Pairs(answers)
      BY <2>1, <2>2, <2>3
    <2>5. UNCHANGED <<storage, got, transfer, socket>>
      BY <1>5 DEF PushAck
    <2>6. QED BY <2>4, <2>5, LossMaps
  <1>6. ASSUME NEW r \in reports, ReportData(r) PROVE A!Lose
    BY <1>1, <1>6 DEF ReportData
  <1>7. ASSUME LoseReports PROVE A!Lose
    BY <1>1, <1>7 DEF LoseReports
  <1>8. ASSUME LoseMessages PROVE A!Lose
    <2>1. transfer' \subseteq transfer /\ acks' \subseteq acks
      BY <1>8 DEF LoseMessages, W!Lose
    <2>2. UNCHANGED <<storage, got, socket, answers>>
      BY <1>8 DEF LoseMessages, W!Lose, W!redis, storage
    <2>3. QED BY <2>1, <2>2, LossMaps
  <1>9. QED BY <1>3, <1>4, <1>5, <1>6, <1>7, <1>8

(***************************************************************************)
(* What the connectors send.                                               *)
(***************************************************************************)

\* Workers that run are workers.
LEMMA AliveKept == alive \subseteq Worker /\ [Next]_vars => (alive \subseteq Worker)'
<1> SUFFICES ASSUME alive \subseteq Worker, [Next]_vars PROVE alive' \subseteq Worker
  OBVIOUS
<1>1. ASSUME NEW w \in alive, WorkerEvent(w) PROVE alive' \subseteq Worker
  BY <1>1 DEF WorkerEvent, HttpRequest, W!Insert, W!InsertMsg, CheckMsg, W!CheckMsg, StopWorker, W!Stop,
              UserMsgAck, W!UserReceivedMsg, Deliver, W!UserOnline, W!UserOffline
<1>2. ASSUME NEW w \in Worker, StartWorker(w) PROVE alive' \subseteq Worker
  BY <1>2 DEF StartWorker, W!Start
<1>3. ASSUME \/ \E k \in Connector : ClientEvent(k) \/ LoseNotices(k) \/ DropNotice(k)
             \/ \E t \in transfer : TransferMsg(t)
             \/ \E t \in socket : ReceivePush(t)
             \/ \E t \in answers : PushAck(t)
             \/ \E r \in reports : ReportData(r)
             \/ \E m \in Msg : Expire(m)
             \/ LoseMessages \/ LoseReports \/ UNCHANGED vars
      PROVE  alive' = alive
  BY <1>3 DEF ClientEvent, LogIn, LogOut, CloseSecond, RestartConnector, LoseNotices, DropNotice,
              TransferMsg, ReceivePush, PushAck, ReportData, Expire, W!Expire, LoseMessages, W!Lose,
              LoseReports, storage, vars
<1>4. QED BY <1>1, <1>2, <1>3 DEF Next

\* Only Presence touches the links, and it appends notices or takes some away.
LEMMA LinksKept ==
  LinksCarryNotices /\ alive \subseteq Worker /\ [Next]_vars => LinksCarryNotices'
<1> SUFFICES ASSUME LinksCarryNotices, alive \subseteq Worker, [Next]_vars PROVE LinksCarryNotices'
  OBVIOUS
<1>1. ASSUME NEW k \in Connector, NEW c \in Client, NEW b \in BOOLEAN, P!Report(k, c, b)
      PROVE  LinksCarryNotices'
  <2>1. P!Notice(c, b) \in P!Notices
    BY DEF P!Notice, P!Notices
  <2>2. Append(link[k], P!Notice(c, b)) \in Seq(P!Notices)
    BY <2>1 DEF LinksCarryNotices
  <2>3. QED BY <1>1, <2>2 DEF P!Report, LinksCarryNotices
<1>2. ASSUME NEW k \in Connector, link' = [link EXCEPT ![k] = <<>>] PROVE LinksCarryNotices'
  BY <1>2 DEF LinksCarryNotices
<1>3. ASSUME NEW k \in Connector, (\E w \in Worker : Deliver(k, w)) \/ DropNotice(k)
      PROVE  LinksCarryNotices'
  <2>1. link[k] # <<>> /\ link' = [link EXCEPT ![k] = Tail(@)]
    BY <1>3 DEF Deliver, P!Deliver, DropNotice, P!DropNotice
  <2>2. Tail(link[k]) \in Seq(P!Notices)
    BY <2>1 DEF LinksCarryNotices
  <2>3. QED BY <2>1, <2>2 DEF LinksCarryNotices
<1>4. ASSUME NEW k \in Connector, ClientEvent(k) \/ LoseNotices(k) PROVE LinksCarryNotices'
  BY <1>1, <1>2, <1>4
  DEF ClientEvent, LogIn, LogOut, CloseSecond, RestartConnector, LoseNotices,
      P!LogIn, P!LogOut, P!CloseSecond, P!Restart, P!LoseNotices
<1>5. ASSUME UNCHANGED presence PROVE LinksCarryNotices'
  BY <1>5 DEF presence, LinksCarryNotices
<1>6. ASSUME NEW w \in Worker,
             \/ HttpRequest(w) \/ CheckMsg(w) \/ StopWorker(w) \/ StartWorker(w)
             \/ \E c \in Client, m \in Msg : UserMsgAck(w, c, m)
      PROVE  UNCHANGED presence
  BY <1>6 DEF HttpRequest, CheckMsg, StopWorker, StartWorker, UserMsgAck
<1>7. ASSUME \/ \E t \in transfer : TransferMsg(t)
             \/ \E t \in socket : ReceivePush(t)
             \/ \E t \in answers : PushAck(t)
             \/ \E r \in reports : ReportData(r)
             \/ \E m \in Msg : Expire(m)
             \/ LoseMessages \/ LoseReports \/ UNCHANGED vars
      PROVE  UNCHANGED presence
  BY <1>7 DEF TransferMsg, ReceivePush, PushAck, ReportData, Expire, LoseMessages, LoseReports, vars
<1>8. QED BY <1>3, <1>4, <1>5, <1>6, <1>7 DEF Next, WorkerEvent

(***************************************************************************)
(* Theorems.                                                               *)
(***************************************************************************)

\* The table as Presence sees it: while a worker is down, redis has it.
Table == [w \in Worker |-> IF w \in alive THEN where[w] ELSE rConn]

\* While all workers run, that is the table of the workers.
LEMMA RunningTable ==
  ASSUME alive = Worker, where = [w \in Worker |-> where[w]]
  PROVE  Table = where
  BY DEF Table

\* A step is one of Presence or leaves its variables alone, if every worker runs
\* when a notice arrives, and the end and the start of a worker do not show.
LEMMA PresenceStep ==
  ASSUME [Next]_vars, alive \subseteq Worker, where = [w \in Worker |-> where[w]],
         \A w \in alive : (\E k \in Connector : Deliver(k, w)) => alive = Worker,
         \A w \in alive : StopWorker(w) => Table' = Table,
         \A w \in Worker \ alive : StartWorker(w) => Table' = Table
  PROVE  [T!Next]_(T!vars)
<1>1. ASSUME NEW k \in Connector, ClientEvent(k) \/ LoseNotices(k) \/ DropNotice(k) PROVE T!Next
  <2>1. Table' = Table
    BY <1>1 DEF ClientEvent, LogIn, LogOut, CloseSecond, RestartConnector, LoseNotices, DropNotice,
                storage, Table
  <2>2. ASSUME NEW c \in Client, LogIn(k, c) \/ LogOut(k, c) \/ CloseSecond(k, c)
        PROVE  T!ClientEvent(k)
    BY <2>1, <2>2 DEF LogIn, LogOut, CloseSecond, P!LogIn, P!LogOut, P!CloseSecond, P!Report, P!Notice,
                      T!ClientEvent, T!LogIn, T!LogOut, T!CloseSecond, T!Report, T!Notice, Table
  <2>3. ASSUME RestartConnector(k) PROVE T!Restart(k)
    BY <2>1, <2>3 DEF RestartConnector, P!Restart, P!UnderWay, T!Restart, T!UnderWay, T!ToSet, P!ToSet, Table
  <2>4. ASSUME LoseNotices(k) PROVE T!LoseNotices(k)
    BY <2>1, <2>4 DEF LoseNotices, P!LoseNotices, P!UnderWay, T!LoseNotices, T!UnderWay, T!ToSet, P!ToSet, Table
  <2>5. ASSUME DropNotice(k) PROVE T!Handover(k)
    BY <2>1, <2>5 DEF DropNotice, P!DropNotice, T!DropNotice, T!Handover, T!ToSet, P!ToSet, Table
  <2>6. QED BY <1>1, <2>2, <2>3, <2>4, <2>5 DEF ClientEvent, T!Next
<1>2. ASSUME NEW w \in alive, NEW k \in Connector, Deliver(k, w) PROVE T!Next
  <2>1. alive = Worker /\ alive' = alive /\ P!Deliver(k, w)
    BY <1>2 DEF Deliver, W!UserOnline, W!UserOffline
  <2>2. where' = [v \in Worker |-> where'[v]]
    BY <2>1 DEF P!Deliver
  <2>3. Table = where /\ Table' = where'
    BY <2>1, <2>2, RunningTable DEF Table
  <2>4. T!Deliver(k, w)
    BY <2>1, <2>3 DEF P!Deliver, P!NextNotice, P!Updated, T!Deliver, T!NextNotice, T!Updated, Table
  <2>5. QED BY <2>1, <2>4 DEF T!Next, T!Handover
<1>3. ASSUME UNCHANGED <<bound, link, unheard>>, Table' = Table PROVE UNCHANGED T!vars
  BY <1>3 DEF T!vars, Table
<1>4. ASSUME \/ \E w \in alive : StopWorker(w)
             \/ \E w \in Worker \ alive : StartWorker(w)
      PROVE  UNCHANGED T!vars
  BY <1>3, <1>4 DEF StopWorker, StartWorker, presence
<1>5. ASSUME NEW w \in alive,
             HttpRequest(w) \/ CheckMsg(w) \/ \E c \in Client, m \in Msg : UserMsgAck(w, c, m)
      PROVE  UNCHANGED T!vars
  <2>1. UNCHANGED <<presence, alive, where, rConn>>
    BY <1>5 DEF HttpRequest, W!Insert, W!InsertMsg, CheckMsg, W!CheckMsg, UserMsgAck, W!UserReceivedMsg
  <2>2. QED BY <1>3, <2>1 DEF presence, Table
<1>6. ASSUME \/ \E t \in transfer : TransferMsg(t)
             \/ \E t \in socket : ReceivePush(t)
             \/ \E t \in answers : PushAck(t)
             \/ \E r \in reports : ReportData(r)
             \/ \E m \in Msg : Expire(m)
             \/ LoseMessages \/ LoseReports \/ UNCHANGED vars
      PROVE  UNCHANGED T!vars
  <2>1. UNCHANGED <<presence, alive, where, rConn>>
    BY <1>6 DEF TransferMsg, ReceivePush, PushAck, ReportData, Expire, W!Expire, LoseMessages,
                W!Lose, W!redis, LoseReports, storage, vars
  <2>2. QED BY <1>3, <2>1 DEF presence, Table
<1>7. QED BY <1>1, <1>2, <1>4, <1>5, <1>6 DEF Next, WorkerEvent

\* No step makes anything but a table of the table.
LEMMA TableKept ==
  ASSUME where = [w \in Worker |-> where[w]], [Next]_vars
  PROVE  (where = [w \in Worker |-> where[w]])'
<1>1. ASSUME NEW w, WorkerEvent(w) \/ StartWorker(w)
      PROVE  \E row : where' = where \/ where' = [where EXCEPT ![w] = row]
  <2>1. ASSUME NEW k \in Connector, Deliver(k, w)
        PROVE  \E row : where' = where \/ where' = [where EXCEPT ![w] = row]
    <3>1. \E c, v : where' = [where EXCEPT ![w][c] = v]
      BY <2>1 DEF Deliver, W!UserOnline, W!UserOffline
    <3>2. QED BY <3>1
  <2>2. QED BY <1>1, <2>1 DEF WorkerEvent, HttpRequest, W!Insert, W!InsertMsg, CheckMsg, W!CheckMsg,
              StopWorker, W!Stop, StartWorker, W!Start, W!LoadDataFromRedis, UserMsgAck, W!UserReceivedMsg
<1>2. ASSUME \/ \E k \in Connector : ClientEvent(k) \/ LoseNotices(k) \/ DropNotice(k)
             \/ \E t \in transfer : TransferMsg(t)
             \/ \E t \in socket : ReceivePush(t)
             \/ \E t \in answers : PushAck(t)
             \/ \E r \in reports : ReportData(r)
             \/ \E m \in Msg : Expire(m)
             \/ LoseMessages \/ LoseReports \/ UNCHANGED vars
      PROVE  where' = where
  BY <1>2 DEF ClientEvent, LogIn, LogOut, CloseSecond, RestartConnector, LoseNotices, DropNotice,
              TransferMsg, ReceivePush, PushAck, ReportData, Expire, W!Expire, LoseMessages, W!Lose,
              LoseReports, storage, vars
<1>3. QED BY <1>1, <1>2 DEF Next

\* The connectors, the notices and the table of the composition behave as
\* Presence says while no worker is restarted: messages and redis leave them
\* alone.
THEOREM PresenceWithoutRestart ==
  ASSUME ~MayRestart
  PROVE  Spec => ImplementsPresence
<1> DEFINE Running == alive = Worker /\ where = [w \in Worker |-> where[w]]
<1>1. Init => Running /\ T!Init
  BY DEF Init, P!Init, W!Init, T!Init, W!Nowhere
<1>2. Running /\ [Next]_vars => Running'
  <2> SUFFICES ASSUME Running, [Next]_vars PROVE Running'
    OBVIOUS
  <2>1. ASSUME NEW w \in alive, WorkerEvent(w) PROVE alive' = alive
    BY <2>1 DEF WorkerEvent, HttpRequest, W!Insert, W!InsertMsg, CheckMsg, W!CheckMsg, StopWorker, W!Stop,
                UserMsgAck, W!UserReceivedMsg, Deliver, W!UserOnline, W!UserOffline
  <2>2. ASSUME \/ \E k \in Connector : ClientEvent(k) \/ LoseNotices(k) \/ DropNotice(k)
               \/ \E t \in transfer : TransferMsg(t)
               \/ \E t \in socket : ReceivePush(t)
               \/ \E t \in answers : PushAck(t)
               \/ \E r \in reports : ReportData(r)
               \/ \E m \in Msg : Expire(m)
               \/ LoseMessages \/ LoseReports \/ UNCHANGED vars
        PROVE  alive' = alive
    BY <2>2 DEF ClientEvent, LogIn, LogOut, CloseSecond, RestartConnector, LoseNotices, DropNotice,
                TransferMsg, ReceivePush, PushAck, ReportData, Expire, W!Expire, LoseMessages, W!Lose,
                LoseReports, storage, vars
  <2>3. QED BY <2>1, <2>2, TableKept DEF Next
<1>3. Running /\ [Next]_vars => [T!Next]_(T!vars)
  BY PresenceStep DEF StopWorker, W!Stop
<1>4. QED BY <1>1, <1>2, <1>3, PTL DEF Spec, T!Spec, ImplementsPresence

\* With a single worker and a redis that does not fail, the end of the worker and
\* its start do not show either: redis mirrors its table.
THEOREM PresenceAcrossRestarts ==
  ASSUME NEW w, Worker = {w}, ~RedisMayFail
  PROVE  Spec => ImplementsPresence
<1> DEFINE Mirrored == /\ alive \subseteq Worker /\ where = [v \in Worker |-> where[v]]
                       /\ w \in alive => where[w] = rConn
<1>1. Init => Mirrored /\ T!Init
  BY DEF Init, P!Init, W!Init, T!Init, W!Nowhere
<1>2. Mirrored /\ [Next]_vars => Mirrored'
  <2> SUFFICES ASSUME Mirrored, [Next]_vars PROVE Mirrored'
    OBVIOUS
  <2>1. \A failed, success : W!Outcomes(failed, success) = {success}
    BY DEF W!Outcomes
  <2>2. ASSUME NEW k \in Connector, w \in alive, Deliver(k, w) PROVE where'[w] = rConn'
    BY <2>1, <2>2 DEF Deliver, W!UserOnline, W!UserOffline, W!RConnAfterOffline
  <2>3. ASSUME StopWorker(w) PROVE w \notin alive'
    BY <2>3 DEF StopWorker, W!Stop
  <2>4. ASSUME StartWorker(w) PROVE where'[w] = rConn'
    BY <2>1, <2>4 DEF StartWorker, W!Start, W!LoadDataFromRedis, W!redis
  <2>5. ASSUME \/ HttpRequest(w) \/ CheckMsg(w)
               \/ \E c \in Client, m \in Msg : UserMsgAck(w, c, m)
        PROVE  UNCHANGED <<alive, where, rConn>>
    BY <2>5 DEF HttpRequest, W!Insert, W!InsertMsg, CheckMsg, W!CheckMsg,
                UserMsgAck, W!UserReceivedMsg
  <2>6. ASSUME \/ \E k \in Connector : ClientEvent(k) \/ LoseNotices(k) \/ DropNotice(k)
               \/ \E t \in transfer : TransferMsg(t)
               \/ \E t \in socket : ReceivePush(t)
               \/ \E t \in answers : PushAck(t)
               \/ \E r \in reports : ReportData(r)
               \/ \E m \in Msg : Expire(m)
               \/ LoseMessages \/ LoseReports \/ UNCHANGED vars
        PROVE  UNCHANGED <<alive, where, rConn>>
    BY <2>6 DEF ClientEvent, LogIn, LogOut, CloseSecond, RestartConnector, LoseNotices, DropNotice,
                TransferMsg, ReceivePush, PushAck, ReportData, Expire, W!Expire, LoseMessages,
                W!Lose, W!redis, LoseReports, storage, vars
  <2>7. w \in alive' => where'[w] = rConn'
    BY <2>2, <2>3, <2>4, <2>5, <2>6 DEF Next, WorkerEvent
  <2>8. QED BY <2>7, TableKept, AliveKept
<1>3. Mirrored /\ [Next]_vars => [T!Next]_(T!vars)
  <2> SUFFICES ASSUME Mirrored, [Next]_vars PROVE [T!Next]_(T!vars)
    OBVIOUS
  <2>1. Table = [v \in Worker |-> rConn] /\ Table' = [v \in Worker |-> rConn']
    BY <1>2 DEF Table
  <2>2. ASSUME StopWorker(w) \/ StartWorker(w) PROVE Table' = Table
    BY <2>1, <2>2 DEF StopWorker, StartWorker, W!Stop, W!Start, W!redis
  <2>3. QED BY <2>2, PresenceStep
<1>4. QED BY <1>1, <1>2, <1>3, PTL DEF Spec, T!Spec, ImplementsPresence

\* Every step of the composition, for the two hops DbWorker leaves open.
LEMMA DbWorkerStep ==
  ASSUME LinksCarryNotices, alive \subseteq Worker, [Next]_vars
  PROVE  [A!Next]_(A!vars)
<1>1. ASSUME NEW w \in alive, WorkerEvent(w) PROVE A!Next
  BY <1>1, DeliverMaps, HttpRequestMaps, CheckMsgMaps, StopWorkerMaps, UserMsgAckMaps
  DEF WorkerEvent, A!Next
<1>2. ASSUME NEW w \in Worker \ alive, StartWorker(w) PROVE A!Next
  BY <1>2, StartWorkerMaps DEF A!Next
<1>3. ASSUME NEW t \in socket, ReceivePush(t) PROVE A!Next
  BY <1>3, ReceivePushMaps DEF A!Next
<1>4. ASSUME NEW m \in Msg, Expire(m) PROVE A!Next
  <2>1. A!Expire(m)
    BY <1>4 DEF Expire, W!Expire, A!Expire, W!wire, A!wire
  <2>2. QED BY <2>1 DEF A!Next
<1>5. ASSUME \/ \E k \in Connector : ClientEvent(k) \/ LoseNotices(k) \/ DropNotice(k)
             \/ \E t \in transfer : TransferMsg(t)
             \/ \E t \in answers : PushAck(t)
             \/ \E r \in reports : ReportData(r)
             \/ LoseMessages \/ LoseReports
      PROVE  A!Next
  BY <1>5, LossSteps DEF A!Next
<1>6. ASSUME UNCHANGED vars PROVE UNCHANGED A!vars
  BY <1>6 DEF vars, storage, lines, A!vars, A!redis, A!wire
<1>7. QED BY <1>1, <1>2, <1>3, <1>4, <1>5, <1>6 DEF Next

\* The composition implements DbWorker: connectors and clients, with their
\* status notices, closed connections and restarts, are the environment
\* DbWorker assumes.
THEOREM DbWorkerImplemented == Spec => ImplementsDbWorker
<1>1. Init => A!Init /\ LinksCarryNotices /\ alive \subseteq Worker
  BY DEF Init, P!Init, W!Init, A!Init, W!Nowhere, A!Nowhere, W!Nothing, A!Nothing,
         W!Key, A!Key, W!SetKey, A!SetKey, LinksCarryNotices
<1>2. LinksCarryNotices /\ alive \subseteq Worker /\ [Next]_vars => [A!Next]_(A!vars)
  BY DbWorkerStep
<1>3. QED BY <1>1, <1>2, AliveKept, LinksKept, PTL DEF Spec, A!Spec, ImplementsDbWorker

(***************************************************************************)
(* Only what a client received is settled.                                 *)
(***************************************************************************)

\* What strengthens OnlyReceivedSettled: acknowledgements on the way are of
\* messages received, too.
OnlyReceivedAcked == acks \cup Pairs(answers) \subseteq got

Honest == OnlyReceivedSettled /\ OnlyReceivedAcked

\* The two hops of an acknowledgement, the worker and phpproxy hand on what the
\* client received; nobody else touches these sets but to lose members.
LEMMA HonestKept == Honest /\ [Next]_vars => Honest'
<1> SUFFICES ASSUME Honest, [Next]_vars PROVE Honest'
  OBVIOUS
<1>1. ASSUME acks' \subseteq acks, answers' \subseteq answers, reports' \subseteq reports,
             UNCHANGED <<done, told, got>>
      PROVE  Honest'
  BY <1>1 DEF Honest, OnlyReceivedSettled, OnlyReceivedAcked, Pairs
<1>2. ASSUME NEW t \in socket, ReceivePush(t) PROVE Honest'
  <2>1. /\ got' = got \cup {<<t[2], t[3]>>} /\ answers' = answers \cup {t}
        /\ UNCHANGED <<acks, reports, done, told>>
    BY <1>2 DEF ReceivePush, storage, php
  <2>2. QED BY <2>1 DEF Honest, OnlyReceivedSettled, OnlyReceivedAcked, Pairs
<1>3. ASSUME NEW t \in answers, PushAck(t) PROVE Honest'
  <2>1. /\ answers' \subseteq answers /\ acks' \subseteq acks \cup {<<t[2], t[3]>>}
        /\ UNCHANGED <<reports, done, told, got>>
    BY <1>3 DEF PushAck, W!Rest, storage, php
  <2>2. <<t[2], t[3]>> \in got
    BY DEF Honest, OnlyReceivedAcked, Pairs
  <2>3. QED BY <2>1, <2>2 DEF Honest, OnlyReceivedSettled, OnlyReceivedAcked, Pairs
<1>4. ASSUME NEW w, NEW c \in Client, NEW m \in Msg, UserMsgAck(w, c, m) PROVE Honest'
  <2>1. /\ <<c, m>> \in acks /\ acks' \subseteq acks
        /\ done' = done \cup {<<c, m>>} /\ reports' = reports \cup {<<c, m>>}
        /\ UNCHANGED <<answers, told, got>>
    BY <1>4 DEF UserMsgAck, W!UserReceivedMsg, W!Rest
  <2>2. QED BY <2>1 DEF Honest, OnlyReceivedSettled, OnlyReceivedAcked, Pairs
<1>5. ASSUME NEW r \in reports, ReportData(r) PROVE Honest'
  BY <1>5 DEF ReportData, storage, lines,
              Honest, OnlyReceivedSettled, OnlyReceivedAcked, Pairs
<1>6. ASSUME NEW w,
             \/ HttpRequest(w) \/ CheckMsg(w) \/ StopWorker(w) \/ StartWorker(w)
             \/ \E k \in Connector : Deliver(k, w)
      PROVE  Honest'
  BY <1>1, <1>6 DEF HttpRequest, W!Insert, W!InsertMsg, CheckMsg, W!CheckMsg, StopWorker, W!Stop,
                    StartWorker, W!Start, Deliver, W!UserOnline, W!UserOffline, W!wire, php
<1>7. ASSUME NEW k \in Connector, ClientEvent(k) \/ LoseNotices(k) \/ DropNotice(k) PROVE Honest'
  BY <1>1, <1>7 DEF ClientEvent, LogIn, LogOut, CloseSecond, RestartConnector, LoseNotices, DropNotice,
                    Drop, Without, storage, lines, php
<1>8. ASSUME (\E t \in transfer : TransferMsg(t)) \/ LoseReports PROVE Honest'
  BY <1>1, <1>8 DEF TransferMsg, LoseReports, storage, lines, php
<1>9. ASSUME (\E m \in Msg : Expire(m)) \/ LoseMessages PROVE Honest'
  BY <1>1, <1>9 DEF Expire, W!Expire, LoseMessages, W!Lose, W!wire, php
<1>10. ASSUME UNCHANGED vars PROVE Honest'
  BY <1>1, <1>10 DEF vars, storage, lines, php
<1>11. QED BY <1>2, <1>3, <1>4, <1>5, <1>6, <1>7, <1>8, <1>9, <1>10 DEF Next, WorkerEvent

\* No message is given up as delivered, and none reported to PHP, unless its
\* client has received it.
THEOREM OnlyReceivedSettledInvariant == Spec => []OnlyReceivedSettled
<1>1. Init => Honest
  BY DEF Init, W!Init, Honest, OnlyReceivedSettled, OnlyReceivedAcked, Pairs
<1>2. Honest => OnlyReceivedSettled
  BY DEF Honest
<1>3. QED BY <1>1, <1>2, HonestKept, PTL DEF Spec
=============================================================================
