------------------------------ MODULE DbWorker ------------------------------
(***************************************************************************)
(* The dbworkers and the redis they share: which connector each client is  *)
(* on, which messages each client still has to receive, the redelivery on  *)
(* login and every ten minutes, the removal on acknowledgement, and the    *)
(* reload of all this from redis when a worker starts.                     *)
(*                                                                         *)
(* A worker is one event loop, so a handler is one step; each redis        *)
(* command of a handler succeeds or fails for itself, and a write that is  *)
(* not answered may have been done. A worker that dies in the middle of a  *)
(* handler is one whose remaining commands fail and that stops then.       *)
(*                                                                         *)
(* The proxies route a message for "the dbworker" to a worker chosen at    *)
(* random, so any worker may take a step on any input. Connectors and      *)
(* clients are the environment: a transfer reaches the client, which       *)
(* acknowledges it, or is lost on the way, and so is an acknowledgement.   *)
(***************************************************************************)
EXTENDS Integers, FiniteSets

CONSTANTS
  Worker, Client, Connector,
  Msg,           \* message ids, ordered as std::set<int64_t> orders them
  None,          \* "not in the map"
  MayRestart,    \* workers may stop and be started again
  MayExpire,     \* messages may outlive their expire_time
  RedisMayFail   \* a redis command may fail

ASSUME MsgAssumption == Msg \subseteq Nat \ {0}
ASSUME NoneAssumption == None \notin Connector
ASSUME SwitchAssumption == {MayRestart, MayExpire, RedisMayFail} \subseteq BOOLEAN

VARIABLES
  alive,     \* the workers that run
  where,     \* worker -> client -> connector  (m_client_connetor_map)
  pend,      \* worker -> key -> message ids   (m_MsgMap)
  rConn,     \* redis hash cli_conn_pair
  rSet,      \* redis sets set_<client>
  rMsg,      \* messages whose redis hash exists and has not expired
  inserted,  \* <<client, message>> PHP has pushed
  transfer,  \* <<connector, client, message>> on the way to a client
  acks,      \* <<client, message>> on the way back
  got,       \* <<client, message>> received by the client
  owed,      \* <<client, message>> stored, not acknowledged to a worker, and
             \* not forgotten by a worker that stopped
  done       \* <<client, message>> acknowledged to a worker

redis == <<rConn, rSet, rMsg>>
wire  == <<transfer, acks, got>>
vars  == <<alive, where, pend, redis, wire, inserted, owed, done>>

\* m_MsgMap has string keys: client ids, and whatever LoadDataFromRedis put there.
SetKey(c) == <<"set_", c>>
Key == Client \cup {SetKey(c) : c \in Client}

\* Client ids do not look like the names of redis sets.
ASSUME KeyAssumption == \A c \in Client : SetKey(c) \notin Client

\* The ids LoadDataFromRedis can find: GetSetMembers returns, besides the
\* members, a zero for each of them.
StoredId == Msg \cup {0}

TypeOK ==
  /\ alive \subseteq Worker
  /\ where \in [Worker -> [Client -> Connector \cup {None}]]
  /\ pend \in [Worker -> [Key -> SUBSET StoredId]]
  /\ rConn \in [Client -> Connector \cup {None}]
  /\ rSet \in [Client -> SUBSET Msg]
  /\ rMsg \subseteq Msg
  /\ transfer \subseteq Connector \X Client \X Msg
  /\ {inserted, acks, got, owed, done} \subseteq SUBSET (Client \X Msg)

\* No client has a connector; nothing is pending.
Nowhere == [c \in Client |-> None]
Nothing == [k \in Key |-> {}]

Init ==
  /\ alive = Worker
  /\ where = [w \in Worker |-> Nowhere]
  /\ pend = [w \in Worker |-> Nothing]
  /\ rConn = Nowhere
  /\ rSet = [c \in Client |-> {}]
  /\ rMsg = {}
  /\ inserted = {}
  /\ transfer = {}
  /\ acks = {}
  /\ got = {}
  /\ owed = {}
  /\ done = {}

(***************************************************************************)
(* Redis commands.                                                         *)
(***************************************************************************)

\* The commands of a handler that take effect: all, unless redis may fail.
Answered(commands) == IF RedisMayFail THEN SUBSET commands ELSE {commands}

\* The result of a single command. A write whose answer is lost was done.
Outcomes(failed, success) == IF RedisMayFail THEN {failed, success} ELSE {success}

(***************************************************************************)
(* QueryMsgFromRedis: walk the ids pending for a client, send those whose  *)
(* message still exists, drop the others.                                  *)
(***************************************************************************)

\* The GetOneHashField commands of the walks, as <<client, message>>.
Asked(w, clients) == UNION {{c} \X pend[w][c] : c \in clients}

\* Redis answers those in read: it has the message, or has it no longer.
Live(read) == {r \in read : r[2] \in rMsg}
MutDropsUnread(asked, read) == asked \ Live(read)
Dropped(asked, read) == {r \in asked : r \in read /\ r[2] \notin rMsg}

\* After erase(it++) the iterator stands on the next id, and that one leaves
\* the redis set. After the last id it stands on end(): dereferencing it is
\* undefined, and the command removes any id or none.
Following(ids, m) == {n \in ids : n > m /\ \A k \in ids : k > m => n <= k}
Removal(w, r, junk) ==
  LET next == Following(pend[w][r[1]], r[2])
  IN  {r[1]} \X (IF next = {} THEN {junk[r[1]]} ELSE next)

\* Query for each client in clients, sent to the connector known for it. An id
\* that redis did not answer for is neither sent nor dropped.
Query(w, clients, connectorOf) ==
  LET asked == Asked(w, clients)
  IN  \E read \in Answered(asked), junk \in [clients -> StoredId] :
        /\ transfer' = transfer \cup {<<connectorOf[r[1]], r[1], r[2]>> : r \in Live(read)}
        /\ pend' = [pend EXCEPT ![w] =
                      [k \in Key |-> {m \in @[k] : <<k, m>> \notin Dropped(asked, read)}]]
        /\ \E removed \in Answered(UNION {Removal(w, r, junk) : r \in Dropped(asked, read)}) :
             rSet' = [c \in Client |-> {m \in rSet[c] : <<c, m>> \notin removed}]

(***************************************************************************)
(* The handlers.                                                           *)
(***************************************************************************)

\* SMT_UPDATE_USER, online: record the connector and deliver what is pending.
UserOnline(w, c, conn) ==
  /\ where' = [where EXCEPT ![w][c] = conn]
  /\ rConn' \in Outcomes(rConn, [rConn EXCEPT ![c] = conn])
  /\ Query(w, {c}, where'[w])
  /\ UNCHANGED <<alive, rMsg, inserted, acks, got, owed, done>>

\* SMT_UPDATE_USER, offline: forget the client, whichever connector says so.
MutRConnKept(c) == rConn
MutRConnZero(c) == [rConn EXCEPT ![c] = 0]
RConnAfterOffline(c) == [rConn EXCEPT ![c] = None]

UserOffline(w, c) ==
  /\ where' = [where EXCEPT ![w][c] = None]
  /\ rConn' \in Outcomes(rConn, RConnAfterOffline(c))
  /\ UNCHANGED <<alive, pend, rSet, rMsg, inserted, wire, owed, done>>

\* SMT_INSERT_MSG: send to the clients online, then, unless the message is an
\* immediate one (expire_time 0), store it for all of them. Nothing is stored
\* unless the write of the message hash is answered; a failure to extend a
\* client's redis set goes unnoticed.
InsertMsg(w, m, clients, immediate) ==
  /\ \A c \in Client : <<c, m>> \notin inserted
  /\ inserted' = inserted \cup (clients \X {m})
  /\ transfer' = transfer \cup {<<where[w][c], c, m>> : c \in {d \in clients : where[w][d] # None}}
  /\ \/ /\ ~ immediate
        /\ clients # {}
        /\ rMsg' = rMsg \cup {m}
        /\ pend' = [pend EXCEPT ![w] =
                      [k \in Key |-> IF k \in clients THEN @[k] \cup {m} ELSE @[k]]]
        /\ \E added \in Answered(clients) :
             rSet' = [c \in Client |-> IF c \in added THEN rSet[c] \cup {m} ELSE rSet[c]]
        /\ owed' = owed \cup (clients \X {m})
     \/ /\ immediate \/ clients = {} \/ RedisMayFail
        /\ rMsg' \in IF immediate \/ clients = {} THEN {rMsg} ELSE {rMsg, rMsg \cup {m}}
        /\ UNCHANGED <<pend, rSet, owed>>
  /\ UNCHANGED <<alive, where, rConn, acks, got, done>>

\* What is under way once x has arrived: a message that was sent again, or its
\* acknowledgement, may be on the way a second time.
Rest(set, x) == {set, set \ {x}}

\* The ids left pending for a client that acknowledged one.
MutKeepsAcked(w, c, m) == pend[w][c]
PendingAfterAck(w, c, m) == pend[w][c] \ {m}

\* SMT_USER_MSG_ACK: forward it to phpproxy, then stop redelivering.
UserReceivedMsg(w, c, m) ==
  /\ <<c, m>> \in acks
  /\ acks' \in Rest(acks, <<c, m>>)
  /\ pend' = [pend EXCEPT ![w][c] = PendingAfterAck(w, c, m)]
  /\ rSet' \in Outcomes(rSet, [rSet EXCEPT ![c] = @ \ {m}])
  /\ owed' = owed \ {<<c, m>>}
  /\ done' = done \cup {<<c, m>>}
  /\ UNCHANGED <<alive, where, rConn, rMsg, inserted, transfer, got>>

\* CheckMsg, every ten minutes: query for every client online.
CheckMsg(w) ==
  /\ Query(w, {c \in Client : where[w][c] # None}, where[w])
  /\ UNCHANGED <<alive, where, rConn, rMsg, inserted, acks, got, owed, done>>

(***************************************************************************)
(* The end of a worker and its start.                                      *)
(***************************************************************************)

\* A worker dies, of a redis connection that could not be restored for
\* instance: all it had in memory is gone.
Stop(w) ==
  /\ MayRestart
  /\ alive' = alive \ {w}
  /\ where' = [where EXCEPT ![w] = Nowhere]
  /\ pend' = [pend EXCEPT ![w] = Nothing]
  /\ owed' = owed \ Asked(w, Client)
  /\ UNCHANGED <<redis, inserted, wire, done>>

\* The pending ids, under the names of the redis sets that could be read.
MutLoadUnderClients(read) ==
  [k \in Key |-> IF k \in read /\ rSet[k] # {} THEN rSet[k] \cup {0} ELSE {}]
LoadedPending(read) ==
  [k \in Key |-> UNION {IF k = SetKey(c) /\ rSet[c] # {} THEN rSet[c] \cup {0} ELSE {} :
                          c \in read}]

\* LoadDataFromRedis. A table that cannot be read is left empty, a set that
\* cannot be read is skipped. If the names of the sets cannot be read, the
\* process ends again: it stays stopped.
LoadDataFromRedis(w) ==
  /\ \E table \in Outcomes(Nowhere, rConn) : where' = [where EXCEPT ![w] = table]
  /\ \E read \in Answered(Client) : pend' = [pend EXCEPT ![w] = LoadedPending(read)]

Start(w) ==
  /\ alive' = alive \cup {w}
  /\ LoadDataFromRedis(w)
  /\ UNCHANGED <<redis, wire, inserted, owed, done>>

(***************************************************************************)
(* Redis and the clients.                                                  *)
(***************************************************************************)

Expire(m) ==
  /\ MayExpire
  /\ m \in rMsg
  /\ rMsg' = rMsg \ {m}
  /\ UNCHANGED <<alive, where, pend, rConn, rSet, inserted, wire, owed, done>>

Receive(t) ==
  /\ t \in transfer
  /\ got' = got \cup {<<t[2], t[3]>>}
  /\ acks' = acks \cup {<<t[2], t[3]>>}
  /\ transfer' \in Rest(transfer, t)
  /\ UNCHANGED <<alive, where, pend, redis, inserted, owed, done>>

\* Connections break, connectors drop what they cannot deliver.
Lose ==
  /\ transfer' \in SUBSET transfer
  /\ acks' \in SUBSET acks
  /\ UNCHANGED <<alive, where, pend, redis, inserted, got, owed, done>>

StatusNotice(w) ==
  \E c \in Client :
    \/ \E conn \in Connector : UserOnline(w, c, conn)
    \/ UserOffline(w, c)

Insert(w) ==
  \E m \in Msg, clients \in SUBSET Client, immediate \in BOOLEAN :
    InsertMsg(w, m, clients, immediate)

Ack(w) == \E c \in Client, m \in Msg : UserReceivedMsg(w, c, m)

Next ==
  \/ \E w \in alive : StatusNotice(w) \/ Insert(w) \/ Ack(w) \/ CheckMsg(w) \/ Stop(w)
  \/ \E w \in Worker \ alive : Start(w)
  \/ \E m \in Msg : Expire(m)
  \/ \E t \in transfer : Receive(t)
  \/ Lose

Spec == Init /\ [][Next]_vars

(***************************************************************************)
(* Properties.                                                             *)
(***************************************************************************)

\* Until it expires, is acknowledged or dies with its worker, a stored message
\* stays pending for its client: no login, no redelivery and no redis command
\* that fails among others makes a running worker drop it.
UnackedKept ==
  \A c \in Client, m \in Msg :
    <<c, m>> \in owed /\ m \in rMsg => \E w \in alive : m \in pend[w][c]

\* A client is sent, and acknowledges, only messages PHP has addressed to it:
\* neither the tables of several clients in one worker nor what is written to
\* redis and loaded again mixes up whose message is whose. The zeros that
\* GetSetMembers invents never get under the name of a client.
OnlyAddressed ==
  /\ \A w \in Worker, c \in Client :
       \A m \in pend[w][c] \cup rSet[c] : <<c, m>> \in inserted
  /\ \A t \in transfer : <<t[2], t[3]>> \in inserted
  /\ acks \cup got \cup owed \cup done \subseteq inserted

\* Once a worker has processed the acknowledgement of a message, no login, no
\* periodic check and no restart sends it to that client again, not even if redis
\* did not take the id out of the client's set.
AckedNotResent ==
  [][\A c \in Client, m \in Msg : <<c, m>> \in done =>
       \A conn \in Connector : <<conn, c, m>> \in transfer' => <<conn, c, m>> \in transfer]_vars

\* What a restart would load is what a running worker knows: redis has the same
\* connector for every client.
RedisMirrorsPresence ==
  \A w \in alive : where[w] = rConn

\* The design document on redis: an id leaves a client's set when the push to
\* that client succeeded (or, in the code, when its message expired).
SetKeepsUndelivered ==
  \A c \in Client, m \in Msg : <<c, m>> \in owed /\ m \in rMsg => m \in rSet[c]

\* The design document on start-up: the sets of messages to be sent are loaded
\* from redis and cached.
RestartRestoresPending ==
  [][\A w \in Worker \ alive : Start(w) => \A c \in Client : pend'[w][c] = rSet[c]]_vars
=============================================================================
