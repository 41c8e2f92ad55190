------------------------------ MODULE Delivery ------------------------------
(***************************************************************************)
(* The whole path of a push: a request of PHP becomes a message stored at  *)
(* a dbworker, which sends it to the connector its table names; the        *)
(* connector writes it to the client if the client can be reached there;   *)
(* the acknowledgement takes the way back, and PHP is told of the receipt. *)
(*                                                                         *)
(* The module composes Presence (connectors, their status notices and the  *)
(* table) with DbWorker (messages and redis), and puts the two hops that   *)
(* DbWorker leaves to its environment, worker to connector and connector   *)
(* to client, in the place of its transfer and acks. That the composition  *)
(* still implements DbWorker is a property, and a theorem of               *)
(* DeliveryProofs.                                                         *)
(***************************************************************************)
EXTENDS Integers, Sequences, FiniteSets

CONSTANTS
  Connector, Client, Worker, Msg,
  None,
  MaxQueue,      \* bound on the notices of a connector under way
  MayRestart,    \* workers may stop and be started again
  MayExpire,     \* messages may outlive their expire_time
  RedisMayFail   \* a redis command may fail

ASSUME NoneAssumption == None \notin Connector
ASSUME MaxQueueAssumption == MaxQueue \in Nat \ {0}
ASSUME MsgAssumption == Msg \subseteq Nat \ {0}
ASSUME SwitchAssumption == {MayRestart, MayExpire, RedisMayFail} \subseteq BOOLEAN

VARIABLES
  bound, link, unheard,  \* as in Presence
  where,                 \* the table of both
  alive, pend, rConn, rSet, rMsg, inserted, got, owed, done,  \* as in DbWorker
  transfer,  \* <<connector, client, message>> on the way to a connector
  socket,    \* <<connector, client, message>> on the client's connection
  answers,   \* <<connector, client, message>> acknowledged, on its way back
  acks,      \* <<client, message>> on the way from a connector to a worker
  reports,   \* <<client, message>> on the way from a worker to PHP
  told       \* <<client, message>> PHP was told the client received

presence == <<bound, link, unheard>>
storage  == <<alive, where, pend, rConn, rSet, rMsg, inserted, owed, done>>
lines    == <<transfer, socket, answers, acks>>
php      == <<reports, told>>
vars     == <<presence, storage, got, lines, php>>

P == INSTANCE Presence
W == INSTANCE DbWorker

\* What DbWorker sees of it: a message is on its way until the client has it.
A == INSTANCE DbWorker
       WITH transfer <- transfer \cup socket,
            acks <- acks \cup {<<a[2], a[3]>> : a \in answers}

\* What Presence sees of it: while a worker is down, redis has its table.
T == INSTANCE Presence
       WITH where <- [w \in Worker |-> IF w \in alive THEN where[w] ELSE rConn]

\* What PHP sees of it.
S == INSTANCE Service WITH pushed <- inserted

ASSUME KeyAssumption == \A c \in Client : W!SetKey(c) \notin Client

TypeOK ==
  /\ P!TypeOK
  /\ W!TypeOK
  /\ {socket, answers} \subseteq SUBSET (Connector \X Client \X Msg)
  /\ {reports, told} \subseteq SUBSET (Client \X Msg)

Init ==
  /\ P!Init
  /\ W!Init
  /\ socket = {}
  /\ answers = {}
  /\ reports = {}
  /\ told = {}

(***************************************************************************)
(* Connections of clients.                                                 *)
(***************************************************************************)

\* What the clients of k that satisfy gone had on their connections is lost.
Without(set, k, gone) == {t \in set : ~ (t[1] = k /\ t[2] \in gone)}
Drop(k, gone) ==
  /\ socket' = Without(socket, k, gone)
  /\ answers' = Without(answers, k, gone)

LogIn(k, c) ==
  /\ P!LogIn(k, c)
  /\ UNCHANGED <<storage, got, lines, php>>

LogOut(k, c) ==
  /\ P!LogOut(k, c)
  /\ Drop(k, {c})
  /\ UNCHANGED <<storage, got, transfer, acks, php>>

CloseSecond(k, c) ==
  /\ P!CloseSecond(k, c)
  /\ UNCHANGED <<storage, got, lines, php>>

RestartConnector(k) ==
  /\ P!Restart(k)
  /\ Drop(k, Client)
  /\ UNCHANGED <<storage, got, transfer, acks, php>>

(***************************************************************************)
(* The links between servers.                                              *)
(***************************************************************************)

LoseNotices(k) ==
  /\ P!LoseNotices(k)
  /\ UNCHANGED <<storage, got, lines, php>>

\* A status notice arrives: the table changes, and a client that comes online
\* is sent what waits for it.
Deliver(k, w) ==
  /\ P!Deliver(k, w)
  /\ LET n == Head(link[k])
     IN  \/ n.is_online /\ W!UserOnline(w, n.client, k)
         \/ ~ n.is_online /\ W!UserOffline(w, n.client)
  /\ UNCHANGED <<socket, answers, php>>

DropNotice(k) ==
  /\ P!DropNotice(k)
  /\ UNCHANGED <<storage, got, lines, php>>

\* Messages and acknowledgements between servers are lost.
LoseMessages ==
  /\ W!Lose
  /\ UNCHANGED <<presence, socket, answers, php>>

\* So are reports: ReportData sends each once and looks at no answer.
LoseReports ==
  /\ reports' \in SUBSET reports
  /\ UNCHANGED <<presence, storage, got, lines, told>>

(***************************************************************************)
(* A message and its acknowledgement.                                      *)
(***************************************************************************)

\* A request of PHP. HttpRequest answers "success" whatever becomes of it, even
\* if there is no worker to take it.
HttpRequest(w) ==
  /\ W!Insert(w)
  /\ UNCHANGED <<presence, socket, answers, php>>

CheckMsg(w) ==
  /\ W!CheckMsg(w)
  /\ UNCHANGED <<presence, socket, answers, php>>

\* SMT_TRANSFER_MSG at the connector: dropped unless the client has a player.
MutForwardsNothing(t) == {}
MutForwardsAll(t) == {t}
MutForwardsClient(t) == {<<t[1], t[2]>>}
Forwarded(t) == IF t[2] \in bound[t[1]] THEN {t} ELSE {}

MutAcksItself(t) ==
  /\ t \in transfer
  /\ transfer' \in W!Rest(transfer, t)
  /\ socket' = socket \cup Forwarded(t)
  /\ answers' = answers \cup Forwarded(t)
  /\ UNCHANGED <<presence, storage, got, acks, php>>
TransferMsg(t) ==
  /\ t \in transfer
  /\ transfer' \in W!Rest(transfer, t)
  /\ socket' = socket \cup Forwarded(t)
  /\ UNCHANGED <<presence, storage, got, answers, acks, php>>

\* The client receives a push and acknowledges it.
ReceivePush(t) ==
  /\ t \in socket
  /\ socket' \in W!Rest(socket, t)
  /\ got' = got \cup {<<t[2], t[3]>>}
  /\ answers' = answers \cup {t}
  /\ UNCHANGED <<presence, storage, transfer, acks, php>>

\* CMT_PUSH_ACK at the connector: forwarded while the client has a player.
PushAck(t) ==
  /\ t \in answers
  /\ answers' \in W!Rest(answers, t)
  /\ acks' = IF t[2] \in bound[t[1]] THEN acks \cup {<<t[2], t[3]>>} ELSE acks
  /\ UNCHANGED <<presence, storage, got, transfer, socket, php>>

\* SMT_USER_MSG_ACK at the worker: the receipt is reported and settled.
UserMsgAck(w, c, m) ==
  /\ W!UserReceivedMsg(w, c, m)
  /\ reports' = reports \cup {<<c, m>>}
  /\ UNCHANGED <<presence, socket, answers, told>>

\* phpproxy tells PHP.
ReportData(r) ==
  /\ r \in reports
  /\ reports' = reports \ {r}
  /\ told' = told \cup {r}
  /\ UNCHANGED <<presence, storage, got, lines>>

(***************************************************************************)
(* Workers and redis.                                                      *)
(***************************************************************************)

StopWorker(w) ==
  /\ W!Stop(w)
  /\ UNCHANGED <<presence, socket, answers, php>>

StartWorker(w) ==
  /\ W!Start(w)
  /\ UNCHANGED <<presence, socket, answers, php>>

Expire(m) ==
  /\ W!Expire(m)
  /\ UNCHANGED <<presence, socket, answers, php>>

ClientEvent(k) ==
  \/ \E c \in Client : LogIn(k, c) \/ LogOut(k, c) \/ CloseSecond(k, c)
  \/ RestartConnector(k)

WorkerEvent(w) ==
  \/ HttpRequest(w) \/ CheckMsg(w) \/ StopWorker(w)
  \/ \E c \in Client, m \in Msg : UserMsgAck(w, c, m)
  \/ \E k \in Connector : Deliver(k, w)

Next ==
  \/ \E k \in Connector : ClientEvent(k) \/ LoseNotices(k) \/ DropNotice(k)
  \/ \E w \in alive : WorkerEvent(w)
  \/ \E w \in Worker \ alive : StartWorker(w)
  \/ \E t \in transfer : TransferMsg(t)
  \/ \E t \in socket : ReceivePush(t)
  \/ \E t \in answers : PushAck(t)
  \/ \E r \in reports : ReportData(r)
  \/ \E m \in Msg : Expire(m)
  \/ LoseMessages \/ LoseReports

Spec == Init /\ [][Next]_vars

\* A check that sends a message to a client again: redis has answered for it.
Resend(w, c, m) ==
  /\ w \in alive
  /\ m \in pend[w][c]
  /\ CheckMsg(w)
  /\ <<where[w][c], c, m>> \in transfer' \ transfer

\* The main loop of a running worker keeps calling CheckMsg; that redis does not
\* fail to answer for the same message at every check is assumed. Of what is sent
\* over a hop again and again some gets across: the connector's step counts where
\* it does not drop the message.
At(k, c) == c \in bound[k]
FairSpec ==
  /\ Spec
  /\ \A c \in Client, m \in Msg :
       /\ \A w \in Worker : WF_vars(Resend(w, c, m))
       /\ SF_vars(\E k \in Connector : At(k, c) /\ TransferMsg(<<k, c, m>>))
       /\ SF_vars(\E k \in Connector : ReceivePush(<<k, c, m>>))
       /\ SF_vars(\E k \in Connector : At(k, c) /\ PushAck(<<k, c, m>>))
       /\ SF_vars(\E w \in alive : UserMsgAck(w, c, m))

(***************************************************************************)
(* Properties.                                                             *)
(***************************************************************************)

\* The connectors and the clients behind them are the environment DbWorker
\* assumes: they may lose and repeat, but neither invent a message nor
\* acknowledge one nobody received.
ImplementsDbWorker == A!Spec

\* Messages and redis leave the table alone, and a worker that starts again finds
\* in redis the table it had: the composition is one Presence describes.
ImplementsPresence == T!Spec

\* At every moment redis has the table of a running worker, over all updates, end
\* and start: what a connector reports is in both or in neither.
RedisMirrorsPresence == W!RedisMirrorsPresence

\* The servers, their restarts and what they lose and repeat add nothing PHP could
\* notice but delay: it never hears of a receipt that did not happen, and no
\* client receives what was not pushed to it.
ImplementsService == S!Spec

\* A message is given up as delivered, and PHP told of its receipt, only when
\* that client has received it.
OnlyReceivedSettled == done \cup reports \cup told \subseteq got

\* What is on a client's connection is at a connector that can reach the client:
\* the logins, second connections and restarts between a push and its
\* acknowledgement never make the connector refuse the acknowledgement.
AnswersAccepted ==
  \A t \in socket \cup answers : t[2] \in bound[t[1]]

\* A stored message gets to a client and its acknowledgement back to the
\* worker, if the worker keeps placing the client at a connector that can reach
\* it: no drop on the way is final.
Reachable(c, m) ==
  /\ <<c, m>> \in owed
  /\ \E w \in Worker, k \in Connector :
       m \in pend[w][c] \cap rMsg /\ where[w][c] = k /\ At(k, c)

ReachableSettled ==
  \A c \in Client, m \in Msg : Reachable(c, m) ~> ~ Reachable(c, m)
=============================================================================
