# PushService in TLA+

A verification project for the push servers under `src/server/frame`: which
parts were modelled, how the models correspond to the code, what TLC checks on
small instances and what TLAPS proves for all of them.

Paths below are relative to `src/server/frame` unless they start with `src/`.

## 1. The system

```
 PHP back end --HTTP--> phpproxy --+                         +-- redis
                                   |                         |
                                 proxy  <------------->  dbworker
                                   |
 phone/app clients <--TCP--> connector          every process --> center
```

Every process is one libevent loop: a package, a socket event and each call
made by the main loop run to completion before the next, so a handler is one
atomic step. Concurrency is between processes, joined by TCP connections, and
with the clients.

| component | source | state it keeps | operations | hard behaviour |
|---|---|---|---|---|
| connector, session core | `connector/*.cpp` | `PushClientManage`: connections by descriptor; `CPlayerFrame`: players by client id, each with a descriptor and the time of its last heartbeat | accept, login, heartbeat, push acknowledgement, close, kick, delivery of a push, time-out sweep | two maps keyed differently; descriptors are reused; two connections under one id; a sweep that is itself throttled |
| dbworker | `dbworker/dbworker_manager.cpp`, `work_manage.cpp` | `m_client_connetor_map`, `m_MsgMap`, copies of both in redis | online, offline, insert, acknowledgement, ten-minute check, load at start | redelivery against late acknowledgements; expiry; several redis commands per operation, each of which may fail for itself; restart, with a load that may fail |
| redis client | `src/server/commonlib/redismanager.cpp` | one hiredis context | commands, one reconnect | failing commands; zeros in the result of `GetSetMembers` |
| presence across servers | `connector/onliner_message_processor.cpp`, `push_common/comm_client.cpp`, `proxy/work_manage.cpp`, `dbworker/dbworker_manager.cpp` | what the connectors know, what is under way, what the workers know | status notices | order between connectors, lost notices, restarts, several workers |
| proxy | `proxy/*.cpp` | connections of registered servers | register, forward, broadcast | choice of a worker; half-open connections |
| center | `center/center.cpp` | connections, addresses of the proxies | answer a configuration request, announce a proxy | registrations in any order; restart of the center |
| server links | `push_common/*.cpp` | list of proxies of each server, connection to the center | dial, register, reconnect, send | reconnects, ids learned late, no failover; a connector that leaves its event base behind |
| phpproxy | `phpproxy/*.cpp` | one HTTP connection | translate HTTP and messages | answers given before the work is done, reports sent once |
| test client | `client_test/*.cpp` | `true_key`, `client_id`, one connection | dial, log in, send heartbeats, acknowledge pushes | a timer that does not wait for the login; a key that outlives its connection |
| process start-up | `src/server/commonlib/comm_server.cpp` | lock file | `SingleInstance` | lock lost with its descriptor |
| shared-memory queue, hash table | `src/server/commonlib/codeQueue.*`, `multi_hash.h` | ring buffer, buckets | push, pop, insert, find | wrap-around; no server here uses them |

What makes each correct: a connector never hands a push to the wrong
connection, never refuses the acknowledgement of one it sent, and tells the
dbworker about every client it loses; a dbworker never forgets a message that
is owed and never repeats one that it knows to be acknowledged, and its tables
survive a restart; the tables agree in the end with where the clients are; the
processes find each other again after any of them, or any connection, fails (section 6 has the two cases
in which they do not);
the two ends of a client connection agree on the key of every package that
matters; and over all the hops together a message is settled only when its
client has it, and is settled in the end when the client stays reachable.

`PROJECT.json` lists the hazards of the code line by line, with the property
that would notice each one going wrong.

## 2. The modules

| module | models | composed with |
|---|---|---|
| `Session` | abstract specification: what a connector promises about its clients | |
| `Connector` | the session core of one connector | implements `Session` |
| `DbWorker` | the dbworkers, redis, the way to the clients and back | |
| `Presence` | several connectors, of each the clients it can deliver to; the notices under way; the tables of the workers | its connectors take the steps of `Session` |
| `Delivery` | the whole path of a push, from the request of PHP to the report of its receipt | composes `Presence` and `DbWorker`, with the connectors and clients that the latter leaves out; implements both, and `Service` |
| `Service` | abstract specification: what PHP may rely on when it pushes a message | |
| `ClientLink` | one client and its connection: packages, partial reads, the key exchange | below `Connector`, whose packages are whole and readable |
| `Mesh` | center, proxies and servers finding each other | |
| `MC*` | instances for TLC: what the configurations need, such as symmetry sets | |
| `ConnectorProofs`, `DbWorkerProofs`, `PresenceProofs`, `DeliveryProofs`, `ClientLinkProofs`, `MeshProofs` | theorems and proofs | extend their module |
| `EndToEndProofs` | what holds of the whole path, by way of the theorems about its parts | extends `DeliveryProofs`; instances of `DbWorkerProofs` and `PresenceProofs` |

The operators named `Mut...` stand next to the definition they vary. Nothing
refers to them: they record a plausible mistake in the code that the property
named in `PROJECT.json` catches.

### Connector

| model | code |
|---|---|
| `conn` | `PushClientManage`: descriptor to `PushClientInfo`, of which the client id |
| `player` | `CPlayerFrame`: client id to `CPlayer`, of which the descriptor |
| `silence`, `sinceCheck` | `now - last heartbeat` and `now - last_check_time`, in seconds |
| `notice` | the last status given to `UpdateUserStatus` (history) |
| `unacked` | pushes written to a descriptor and not acknowledged (history) |
| `Accept`, `CloseConnection` | the listener and the close paths of the read and event callbacks |
| `Login`, `ChangeAccount` | `ProcessLoginReq` |
| `Heartbeat`, `PushAck` | their handlers |
| `TransferMsg`, `KickUser` | messages of the other servers |
| `CloseOutoftimeClient`, `Tick` | the main loop and time passing |
| `Crash` | the death of the process, among others by its use of freed connections |

The login binds a new player only when the id has none: a second connection
under the same id never gets a push, and its close still reports the client
offline. `Reported` and `Removed` are different sets for this reason. Time is
relative and capped at twice the time-out, where the code no longer
distinguishes values. Encryption is left to `ClientLink`, the contents of
messages are left out.
The descriptors that accept returns are arbitrary free ones, which includes
the lowest free one that the kernel picks.

### DbWorker

| model | code |
|---|---|
| `alive` | the workers that run |
| `where`, `pend` | `m_client_connetor_map`, `m_MsgMap` |
| `rConn`, `rSet`, `rMsg` | the hash `cli_conn_pair`, the sets `set_<client>`, the hashes of the messages |
| `transfer`, `acks` | what is between a worker and a client |
| `inserted`, `got`, `owed`, `done` | history, sets of pairs of a client and a message: what PHP asked for, what was received, is owed, was acknowledged |
| `UserOnline`, `UserOffline`, `InsertMsg`, `UserReceivedMsg`, `CheckMsg` | the handlers and the periodic check |
| `Stop`, `Start` | the end of a worker, and its start with `LoadDataFromRedis` |

Each redis command succeeds or fails for itself. `Answered` are the commands of a
handler that take effect, any subset of them when redis may fail; `Outcomes` are the
results of a single one. A write whose answer is lost may have been done. So a
status update may fail while the walk that follows it succeeds, a walk may get
answers for some ids and remove some of the expired ones, an insert may reach some of
the sets. A worker that dies in the middle of a handler, say between the report of a
receipt and the removal of the id from redis, is one whose remaining commands fail
and that stops next.

`Query` is `QueryMsgFromRedis` with the iterator as the code leaves it: after
`erase(it++)` it stands on the next id, which is then removed from redis, and at the
end of the set the read is undefined, so any id, or none, is removed (`Removal`). An
id for which redis did not answer is neither sent nor dropped. `StoredId` contains 0
because `GetSetMembers` returns a zero for every member.

`LoadDataFromRedis` files the pending ids under the name of the redis set. A table of
connectors that cannot be read is left empty, a set that cannot be read is skipped,
and when the names of the sets cannot be read the process ends, which is a worker
that stays stopped.

The connectors are not modelled here: any status notice may arrive at any time.
A message or an acknowledgement that arrives may be on the way once more
(`Rest`), as a redelivery may have put it there a second time.

### Presence

A connector's messages for "a dbworker" all go to the first proxy of its list,
so its notices form a queue (`link`). The proxy picks a worker at random, so
any worker takes the head, or none does (`DropNotice`: no worker is registered, or
the one picked has just died). `unheard` is history: the clients whose latest
change of status was lost. An offline notice erases the entry whichever
connector it came from. The steps of a connector are those of `Session`, which
`Connector` implements: a login, the end of a player with its notice, a restart; and
the close of a second connection, whose notice `Session` counts as a stutter.

### Delivery

The state is that of `Presence` and of `DbWorker`, which share the table
`where`, and what lies between them:

| model | code |
|---|---|
| `transfer` | `SMT_TRANSFER_MSG` from a worker to the connector its table named |
| `socket` | `CMT_PUSH_MSG` written to a client's connection |
| `answers` | `CMT_PUSH_ACK` on the same connection |
| `acks` | `SMT_USER_MSG_ACK` from the connector to a worker |
| `reports`, `told` | the acknowledgement forwarded to phpproxy; what PHP was told |

`TransferMsg` and `PushAck` are the two places where the connector drops what it
is given because the client has no player. A close takes along what is on the
connection (`Drop`); broken links between servers lose any part of what they
carry (`LoseNotices`, `LoseMessages`); the HTTP connection loses reports, which
are sent once. Each action takes the step of the component it belongs to
(`P!...`, `W!...`), so nothing is modelled a second time. `T` is `Presence` seen with
the table that redis has in the place of the one of a worker that is down: the end of
a worker and its start are stutters of it as long as redis has what the worker had. `A` is `DbWorker`
again, seen through the mapping `transfer <- transfer \cup socket` and
`acks <- acks` with `answers`: a push that changes hands is a stutter, one that
is dropped is a loss, and the client's `ReceivePush` is the `Receive` of
`DbWorker`. `S` is `Service`, which has no servers at all: PHP pushes a message to
clients, a client may receive what was pushed to it, and PHP may be told so
afterwards. All that the servers do between these steps is a stutter of it.

### ClientLink

| model | code |
|---|---|
| `clientKey` | `true_key` of the client, `First` when it is empty |
| `serverKey` | the key of `client_info->aes` |
| `wire`, `inbuf`, `toClient` | packages on the way, in the connector's input buffer, and back |
| `reading` | `ServerReadCallback` is running |

Both ends start with the key compiled in; the login response announces a new
one under the old; the connector takes it up as soon as it has written the
response, the client when it has read it. What decides is what lies in the
streams at that moment: heartbeats come from a timer that does not wait for the
login (`SendHeart`), and the client keeps the key of the last connection until
it logs in on the next one, after heartbeats it may have written meanwhile.
A package under another key fails to decrypt, and the callback then returns
with the rest of the buffer unread (`Undecipherable`), or yields garbage that
does not parse, and the connection is closed (`Garbage`). `Arrive(n)` brings n
whole packages, or a part of one (`n = 0`), and calls the callback. A generated
key is taken to be new among the packages under way.

### Mesh

`proc` and `center` are the life of each process and its connection to the
center; `mail` is what the center has sent it; `fresh` is `m_svr_addr`, `links`
is `m_ociv` with the state of each entry. A proxy answers a registration before
it has its own configuration, and then with id 0: `early` remembers which
servers it did that to. The contents of the configuration, messages between
servers and framing are left out. The address of a proxy is fixed.

`Connector` is the set of servers that are connectors. A connector dials the center on
one event base (`connector_svr.cpp:299-300`), and `init_net` (216) then makes another
one, which is all its main loop runs. So `ReadCenter` ends for it with `Run`, the step
from `configured` to `running`, and `ReconnectCenter` is not its action: it never
learns that the connection is gone. What it has read when its start is over is what it
works with.

## 3. What TLC checks

| run | instance | what it shows |
|---|---|---|
| `connector` | 3 descriptors, 2 clients, 2 messages, time-out 2 | the maps never disagree, pushes reach only their addressee, acknowledgements are never refused, nobody is left online without a player, silent clients go within two time-outs; the session core implements `Session` |
| `dbworker` | 1 worker that stops and starts, 2 clients, 2 connectors, 1 message that may expire, each redis command may fail | what is owed stays pending; no client gets what was addressed to the other; what was acknowledged is not sent again |
| `presence` | 2 connectors, 2 clients, 1 worker, queues of 2 | wrong entries are about to be corrected, and are |
| `delivery` | 2 connectors, 1 client, 1 worker, 1 message, restarts, expiry, redis reliable | the composition implements `DbWorker`, `Presence` and `Service`; only what was received is settled or reported; no acknowledgement of a client is refused; redis has the table of the worker |
| `delivery_live` | 1 connector, 1 client, 1 worker, 1 message, every fault on | a message for a client that stays reachable is acknowledged over all hops |
| `client_link` | 3 keys, up to 2 heartbeats while dialling, 5 packages under way, any number of reconnects | the client can read what it is sent, no acknowledgement is lost to the key exchange, a login is neither lost nor repeated and is answered |
| `mesh` | 1 connector or 1 other server, 2 proxies, 1 failure | a server and a proxy never miss each other, and get linked if both stay up (a connector with the proxies it has heard of); one link to each proxy |
| `dbworker_set`, `dbworker_reload`, `presence_known`, `mesh_start`, `mesh_connector` | the smallest that has the case | a statement of the design document `src/doc/Push服务器.doc` that the code does not keep (section 6) |

**Bounds.** Three descriptors are the least with which a client has two
connections while a third one, or a reuse, belongs to somebody else; two
messages, in `dbworker_set`, the least with which the id after an expired one exists,
and two clients, in `dbworker`, the least with which their messages can be mixed up and
one command of a walk or an insert can fail alone (a second message as well has too
many states); with time-out 2 there is a second between a sweep and the next. Queues of two notices hold an
offline notice followed by an online one of the same client, the order that
matters. `presence` with two connectors has the case of a late notice of the
old connector. `delivery` needs two connectors for a push that is sent to the one
the client has left, and has one notice of each under way at a time; one message is enough, since no step of the path looks at
two. In `client_link` two heartbeats ahead of the login are the least with
which one can stop the callback and another be read before the login is; three
keys are those of the last connection, of the present one and a new one.
`MaxFailures` counts deaths of processes and broken connections
together. The two servers of `mesh`, a connector and one that is none, have no part in
each other's steps, so the action constraint `OneServer` lets one of them be up at a
time: it takes away only starts, which no fairness condition asks for. The proofs of
section 5 remove the bounds for all safety properties, so that only the
liveness properties depend on them.

**Symmetry** is used in the three runs without liveness that allow it: client
ids and messages in `Connector`, clients and connectors in `DbWorker` and
`Delivery`. Descriptors
and message ids are ordered by the code and are not symmetric.

**Deadlock** is checked except in the `mesh` runs: when everything is linked
and the failures are used up, the model has nothing left to do, as the code
would only keep running its loops.

**Fairness.**
- `DbWorker` has none: nothing is checked of it that must happen.
- `Presence`: what is written to a connection that stands gets to the proxy, which
  hands it on or drops it (weak). Nothing is assumed about clients, failures or
  reconnects.
- `Delivery`: a worker that runs calls `CheckMsg` again and again, and redis does not
  fail to answer for the same message at every check: the check that sends a message
  again (`Resend`) happens if it stays possible (weak). This is an assumption about
  redis, and the only one; nothing is assumed about logins, restarts, or the other
  commands. Of what is sent over a hop again and again some gets across, and is
  forwarded if the client has a player (strong fairness of that step alone: a connector
  that drops a message has taken a step too, and no fairness is spent on it, so nothing
  is promised of a client whose entry is stale).
- `ClientLink`: both processes run their loops, the client's timer among them
  (weak), and bytes written to a connection that stands arrive (strong, as
  `Arrive` waits for the callback to return, again and again). The answer to a
  login rests on the timer: after a package that did not decrypt it is the next
  heartbeat that has the callback called again.
- `Mesh`: each process runs its loop, a connection that stands carries what is
  written, a dial is answered or refused (weak). That anybody starts a process
  is not assumed, only that a running one goes on. A running connector neither reads
  from the center nor dials it, by the guards of these actions.

Connections between servers deliver what they carry only below the overload
limit of 100000 messages a second: above it the read loop stops after dropping
a package and leaves the rest in the buffer until more bytes arrive.

## 4. What the models leave open

- `NoStaleOnline` holds for one worker. With two it fails: the proxy gives the
  online notice to one and the offline notice to the other, and each keeps its
  own table. The deployment with one dbworker is the one the code is right for.
- Entries left behind by a lost notice or a restarted connector (`unheard`) stay until
  the client logs in again: `NoStaleOnline` and `StaleOnlineCleared` except them. What is
  sent to such a connector is dropped and stays pending.
- A worker that stops forgets what was pending, and files what it loads where nobody
  looks (run `dbworker_reload`): `UnackedKept` speaks of messages whose worker runs.
- A client that logs in, never sends a heartbeat and vanishes without closing
  is skipped by every sweep. The model has the case (`Never`); no document says
  what should happen, so it is recorded as a hazard and not as a property.
- `OneLinkEach` excepts pairs in `early`: a registration answered with id 0
  overwrites the id in the list, and the proxy is added again with the next
  announcement. Each restart of a proxy may add another entry.
- Delivery is at least once: every login and every check sends a pending message
  again until its acknowledgement has arrived, and a client receives it again,
  where the design document says at most once.
- A client may be logged in at two connectors at once: nothing looks for the
  earlier login and nothing sends `SMT_KICK_USER`, where the design document
  says that a repeated login is found out.
- Messages without a destination id go to the first proxy of the list whether
  its link is up or not: the second proxy is no backup of the first, as the
  design document has it.
- An acknowledgement whose report to PHP is lost is not reported again: the
  worker has forgotten the message (`LoseReports`).
- Noticed while reading, outside the models: the port given to the center with
  `-p` is replaced by `DEFAULT_PORT`; the `.proto` file lacks
  `SvrAddress.svr_id`, which the generated code has.

## 5. What is proved

All theorems hold for every value of the constants that satisfies the named
assumptions of the modules: descriptors are positive, `NoId`, `Closed` and
`None` are not ids, the time-out and the queue bound are positive, client ids
do not look like names of redis sets. Where a theorem needs more, it says so.

**`ConnectorProofs`.** `IInv` is `TypeOK`, `PlayerBound`, `NoMisdelivery`,
`AckReachable`, `OnlineReachable` and `SilenceAge`. The four middle ones need
each other: a push is written to the descriptor of a player, so delivery is
right only while players are bound, and a close must be known to remove the
player of a connection that has pushes out. `SilenceBounded` is not inductive:
nothing in it says how old the last sweep is. `SilenceAge` does: a client spared
by the last sweep has been silent for less than a time-out at that moment, so
for less than a time-out plus the age of the sweep, and the sweep runs in every
second. `ConnectorImplementsSession` is the refinement: one step of `Session`
for each login, close, sweep and crash, a stutter for the rest.

**`DbWorkerProofs`.** In all theorems workers stop and start at any time and, except
in the last one, every redis command may fail for itself, those of the load included.
`OnlyAddressedInvariant`: with the types it is inductive (`Addressed`), since a list that
is loaded again goes under a name that no client has. `UnackedKeptInvariant` holds for
any number of workers: an id leaves `pend` only when redis has said that its message is
gone, when it is acknowledged, or with its worker, which ends the debt; that the worker
that has it runs is part of the invariant. `AckedNotResentInvariant` is an action
property, for one worker: the invariant `Settled` says that an acknowledged message
is pending under its client nowhere, and a start brings nothing back, though redis may
still have the id. Both rest on `Addressed`: what is owed, stored, under way or
acknowledged was pushed before, so that a new message neither revives an old
debt nor is settled already.
`RedisMirrorsPresenceInvariant` is for one worker and a reliable redis.

**`PresenceProofs`.** `NoStaleOnline` speaks of the last notice about a client
that is under way. Two facts carry it: `OnlineIsTrue`, that this notice is true
when it says online, which makes its delivery harmless, and `LastWordExists`,
that there is one as soon as there is any, which turns "some notice is under
way" into "the last one is". Both hold for any number of workers (`Truthful`);
with one worker, each delivered online notice is either true or followed by
another one, and so `NoStaleOnline` is inductive (`IInv`). With two workers the
step that delivers to the other worker breaks it, which is the failure of
section 4.

**`DeliveryProofs`.** `DbWorkerImplemented` maps each step of the composition
to a step of `DbWorker` or a stutter: a push or an acknowledgement that moves one
hop on is still under way in the abstract state, or lost there. The only
invariant it needs is the type of what is in the lines (`LinksCarryNotices`). For `ImplementsPresence` the steps
that are not plainly steps of `Presence`, or stutters, are the end of a worker, whose
table is then looked up in redis, and its start, which reads it from there. Either
there are none (`PresenceWithoutRestart`), or there is one worker and redis does not
fail, and the invariant that redis holds the table of a running worker makes both of
them stutters (`PresenceAcrossRestarts`). `OnlyReceivedSettledInvariant`
follows an acknowledgement back: whatever is in `answers`, `acks`, `reports`,
`told` or `done` is in `got`.

**`EndToEndProofs`.** The refinements are put to use. `WP` and `PP` are instances
of the proof modules under the refinement mappings, `BehavesAsDbWorker` and
`BehavesAsPresence` show that `Spec` implies the specifications their theorems are
about, and the theorems then speak of the composition: `OnlyAddressedEndToEnd`,
`UnackedKeptEndToEnd`, `SettledNotResentEndToEnd`, `RedisMirrorsPresenceEndToEnd`
and `NoStaleOnlineEndToEnd`, each under the hypotheses it had for the part alone,
plus, for the last, those under which `Presence` is implemented. Each says what
the composition's own variables do; `OnlyAddressedAnywhere` adds the hops
`DbWorker` does not have. `TypeCorrect` joins the types of the workers, which come
with `DbWorker`, to those of the connectors and hops (`ConnectorTypes`,
`HopTypes`), which `Presence` could give only where it is implemented and which
are therefore proved by themselves. `AnswersAcceptedInvariant` is inductive given the types: a push is written to
the connection of a client with a player, and whatever ends the player takes
what is on the connection along. `ServiceImplemented` needs two of the invariants
above: that a push belongs to its addressee makes the client's receipt a step of
`Service`, and that only received messages are reported makes the report one.

**`ClientLinkProofs`.** The inductive invariant describes the two streams. From
the connector: at most one response, under the first key, and all that follows
it under the key it carries; the client's key is the one its next package is
under. From the client: after the login request, everything is under the first
key until the response is read and under the connector's key from then on, so
that an acknowledgement, which answers a package under the new key, is never
behind. `Phase` says how far a connection has got: dialling, not answered yet,
answered (the response is the first package on its way back), settled.
`LoginOnceInvariant` is the safety half of `LoginAnswered`: the request is somewhere
in the stream formed by the connector's buffer and the bytes behind it. What
arrives moves from one part of the stream to the other and leaves it as it is,
what is read is its head, so the request goes only by being read
(`LoginsAppend`, `LoginsTail`); an undecipherable head is under another key than
the request has (`LoginInv`, together with the invariant above).

**`MeshProofs`.** `OneLinkEach` needs to know of every entry that its id and the
answer under way are its proxy or 0, and 0 only for pairs in `early` (`Ids`),
and that two entries for a proxy exist only for such pairs (`Single`). Then an
address that is added is one no entry has as its id, so none has as its proxy.
Nothing needs to be known about `fresh`: adding is idempotent.
`NoneMissedInvariant` is the safety half of `AllLinked`. The center answers the
later of two registrations with the list of proxies, or announces the later one
to those before it, so one of the two messages exists; that the list has every
proxy is a fact about `SetToSeq` (`SetToSeqsComplete`). From there the address
moves from the message to the list and to a link, and a link is taken away only
with its server. `Ids` is needed once more: an address the list already has as an
id is dropped by `AddProxy`, and is that of an entry for the same proxy.

**Only model-checked.** `StaleOnlineCleared`, `ReachableSettled`, `LoginAnswered` and
`AllLinked` (liveness, which the prover does not handle under fairness; what the last
two rest on at any moment is proved, `LoginOnce` and `NoneMissed`), and the
counterexamples of section 6. Every invariant, every action property and every
refinement of the runs has a theorem.

## 6. Where the code differs from its documents

| run | statement in `src/doc/Push服务器.doc` | what the code does |
|---|---|---|
| `dbworker_set` | an id leaves a client's set when the push succeeded | the id after an expired one leaves redis, delivered or not |
| `dbworker_reload` | at start the pending sets are loaded and cached | they are cached under `set_<client>`, where nobody looks |
| `presence_known` | the dbworker has the connector of every client | the close of a second connection, or a late notice of another connector, erases it |
| `mesh_connector` | servers that are not proxies hear of a new proxy from the center and dial it | a running connector does not run the event base of its connection to the center: it never hears of a later proxy, nor dials the center again |
| `mesh_start` | whoever loses a lower layer dials it again | a process that waits for its configuration does not |

The document is a Word file with its text in UTF-16; the line numbers with which
`PROJECT.json` quotes it count its newline bytes.

## 7. Not modelled, and why

- Reports of messages read and of clients that were uninstalled: they take the
  way of acknowledgements from the connector or the worker to PHP and change no
  state on it. The HTTP and JSON of `phpproxy`.
- Which bytes a key or a package consists of, JSON, logging, date functions:
  pure functions without a protocol. The models take keys as atoms.
- The overload counter of `push_common.cpp`: its effect, lost messages, is in
  `DbWorker`, `Presence` and `Delivery`.
- The contents of the configuration and its broadcast.
- Connections whose peer is gone without a socket event: nothing in the
  processes can tell them from live ones.
- `SingleInstance`: it closes the descriptor of its lock before it returns, so
  no behaviour depends on the lock.
- `codeQueue`, `multi_hash`, `thread`, `comm_shm`: no server includes or calls
  them.
- hiredis, libevent, protobuf: third-party; libevent appears as "one handler at
  a time". The generated message classes.

## 8. Plan

Done, in this order: `Session` and `Connector` with their proofs, `DbWorker`
with its proofs, `Presence` with its proofs, `Mesh`, `Delivery` with its proofs,
`ClientLink` with its proofs, the proofs of `Mesh`, and the end-to-end theorems with
the abstract `Service`.

Left, most important first:

1. The proxy's table of connections: routing by id, broadcasts, and a proxy that
   changes its address, composed with `Mesh` and `Delivery`.
2. `RedisManager`: its connection, the single reconnect and the null context
   after a failed one, as a module of its own below `DbWorker`.
3. `Delivery` with several workers, where an acknowledgement may go to a worker
   other than the one that stored the message.
4. `CodeQueue` and `MultiHash` as pure algorithms, should a server come to use
   them: the ring buffer against a FIFO sequence, the hash table against a
   function.
