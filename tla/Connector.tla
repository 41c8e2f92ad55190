----------------------------- MODULE Connector -----------------------------
(***************************************************************************)
(* The session core of one connector process: the map of client            *)
(* connections (PushClientManage), the map of logged-in players            *)
(* (CPlayerFrame), the login, heartbeat, acknowledgement and close paths   *)
(* that keep the two maps in step, the time-out sweep of the main loop and *)
(* the delivery of pushes routed here by the dbworker.                     *)
(*                                                                         *)
(* The process is a single libevent loop, so each package, socket event    *)
(* and sweep is one atomic step.                                           *)
(*                                                                         *)
(* Time is kept relative: the seconds since a player's last heartbeat and  *)
(* the seconds since the last sweep, both capped where the code no longer  *)
(* tells larger values apart.                                              *)
(***************************************************************************)
EXTENDS Integers, FiniteSets

CONSTANTS
  Fd,        \* descriptors accept() can return
  ClientId,  \* non-empty client ids
  Msg,       \* push messages
  NoId,      \* the empty client id of a connection that has not logged in
  Closed,    \* marks a descriptor without a connection
  Timeout    \* client_outoftime of the configuration, in seconds

ASSUME FdAssumption == Fd \subseteq Nat \ {0}
ASSUME IdAssumption == NoId \notin ClientId /\ Closed \notin ClientId /\ NoId # Closed
ASSUME TimeoutAssumption == Timeout \in Nat \ {0}

VARIABLES
  conn,       \* descriptor -> client id of the connection, NoId, or Closed
  player,     \* client id  -> descriptor stored in its CPlayer, or NoFd
  silence,    \* client id  -> seconds since its last heartbeat, or Never
  sinceCheck, \* seconds since last_check_time
  swept,      \* the main loop has run the sweep in the current second
  notice,     \* client id  -> last status this process gave UpdateUserStatus
  unacked     \* descriptor -> pushes written to it and not yet acknowledged

vars == <<conn, player, silence, sinceCheck, swept, notice, unacked>>

NoFd  == 0
Never == -1
Statuses == {"none", "online", "offline"}

TypeOK ==
  /\ conn \in [Fd -> ClientId \cup {NoId, Closed}]
  /\ player \in [ClientId -> Fd \cup {NoFd}]
  /\ silence \in [ClientId -> Never .. 2 * Timeout]
  /\ sinceCheck \in 0 .. Timeout
  /\ swept \in BOOLEAN
  /\ notice \in [ClientId -> Statuses]
  /\ unacked \in [Fd -> SUBSET (ClientId \X Msg)]

Init ==
  /\ conn = [f \in Fd |-> Closed]
  /\ player = [c \in ClientId |-> NoFd]
  /\ silence = [c \in ClientId |-> Never]
  /\ sinceCheck = Timeout
  /\ swept = FALSE
  /\ notice = [c \in ClientId |-> "none"]
  /\ unacked = [f \in Fd |-> {}]

(***************************************************************************)
(* Closing connections.                                                    *)
(***************************************************************************)

\* The players whose status is reported offline when the connections S close:
\* every player named by one of them, whichever descriptor it is bound to.
MutReportedNobody(S) == {}
Reported(S) == {c \in ClientId : player[c] # NoFd /\ \E f \in S : conn[f] = c}

\* The players deleted with the connections S: those bound to one of them.
MutRemovedNobody(S) == {}
MutRemovedByAnyLogin(S) == {c \in ClientId : player[c] # NoFd /\ \E f \in S : conn[f] = c}
Removed(S) == {c \in ClientId : player[c] \in S /\ conn[player[c]] = c}

ProcessClose(S) ==
  /\ conn' = [f \in Fd |-> IF f \in S THEN Closed ELSE conn[f]]
  /\ player' = [c \in ClientId |-> IF c \in Removed(S) THEN NoFd ELSE player[c]]
  /\ silence' = [c \in ClientId |-> IF c \in Removed(S) THEN Never ELSE silence[c]]
  /\ notice' = [c \in ClientId |-> IF c \in Reported(S) THEN "offline" ELSE notice[c]]
  /\ unacked' = [f \in Fd |-> IF f \in S THEN {} ELSE unacked[f]]

(***************************************************************************)
(* Events of the client sockets.                                           *)
(***************************************************************************)

Accept(f) ==
  /\ conn[f] = Closed
  /\ conn' = [conn EXCEPT ![f] = NoId]
  /\ UNCHANGED <<player, silence, sinceCheck, swept, notice, unacked>>

\* End of stream, socket error, a length field out of range, a package that
\* does not parse: each one ends in ProcessClose.
CloseConnection(f) ==
  /\ conn[f] # Closed
  /\ ProcessClose({f})
  /\ UNCHANGED <<sinceCheck, swept>>

\* The player a login binds: an existing one keeps its descriptor.
MutPlayerWithoutFd(c, f) == IF player[c] = NoFd THEN -1 ELSE player[c]
MutPlayerAfterLogin(c, f) == IF player[c] = NoFd THEN NoFd ELSE player[c]
PlayerAfterLogin(c, f) == IF player[c] = NoFd THEN f ELSE player[c]

\* Login of a connection that has no id yet, under the id in the head of the
\* request or, when that is empty, under the one GenerateClientId makes.
Login(f, c) ==
  /\ conn[f] = NoId
  /\ conn' = [conn EXCEPT ![f] = c]
  /\ player' = [player EXCEPT ![c] = PlayerAfterLogin(c, f)]
  /\ notice' = [notice EXCEPT ![c] = "online"]
  /\ UNCHANGED <<silence, sinceCheck, swept, unacked>>

\* Login under another id than the connection's own (an empty one included):
\* the connection is closed. The same id again changes nothing.
ChangeAccount(f, head) ==
  /\ conn[f] \in ClientId
  /\ head # conn[f]
  /\ ProcessClose({f})
  /\ UNCHANGED <<sinceCheck, swept>>

\* The heartbeat refreshes the player of the connection's id, if there is one,
\* whichever descriptor that player is bound to.
Heartbeat(f) ==
  /\ conn[f] \in ClientId
  /\ player[conn[f]] # NoFd
  /\ silence' = [silence EXCEPT ![conn[f]] = 0]
  /\ UNCHANGED <<conn, player, sinceCheck, swept, notice, unacked>>

\* The acknowledgement of a push is forwarded only while a player has the id.
PushAck(f, p) ==
  /\ p \in unacked[f]
  /\ conn[f] \in ClientId
  /\ player[conn[f]] # NoFd
  /\ unacked' = [unacked EXCEPT ![f] = @ \ {p}]
  /\ UNCHANGED <<conn, player, silence, sinceCheck, swept, notice>>

(***************************************************************************)
(* Messages of the other servers.                                          *)
(***************************************************************************)

\* SMT_TRANSFER_MSG: write the push to the connection of each client listed
\* that has a player.
MutRecipients(f, clients) == {c \in clients : player[c] # NoFd}
Recipients(f, clients) == {c \in clients : player[c] = f /\ conn[f] # Closed}

TransferMsg(clients, m) ==
  /\ unacked' = [f \in Fd |-> unacked[f] \cup {<<c, m>> : c \in Recipients(f, clients)}]
  /\ UNCHANGED <<conn, player, silence, sinceCheck, swept, notice>>

\* SMT_KICK_USER: close the first connection, by descriptor, that has the id.
KickUser(c) ==
  \E f \in Fd :
    /\ conn[f] = c
    /\ \A g \in Fd : conn[g] = c => f <= g
    /\ ProcessClose({f})
    /\ UNCHANGED <<sinceCheck, swept>>

(***************************************************************************)
(* The main loop.                                                          *)
(***************************************************************************)

\* Seconds of silence after which a player is closed; a player that never
\* sent a heartbeat is skipped.
MutSilentTooLong(c) == silence[c] > Timeout + 1
SilentTooLong(c) == silence[c] # Never /\ silence[c] >= Timeout

Expired == {f \in Fd : \E c \in ClientId :
                         player[c] = f /\ conn[f] = c /\ SilentTooLong(c)}

\* One call of CloseOutoftimeClient: it returns at once while the last sweep
\* is less than a time-out old.
CloseOutoftimeClient ==
  /\ swept' = TRUE
  /\ \/ /\ sinceCheck < Timeout
        /\ UNCHANGED <<conn, player, silence, sinceCheck, notice, unacked>>
     \/ /\ sinceCheck >= Timeout
        /\ sinceCheck' = 0
        /\ ProcessClose(Expired)

\* The seconds of silence a second later, capped where the code has long
\* passed its threshold.
Older(s) == IF s \in {Never, 2 * Timeout} THEN s ELSE s + 1

\* A second passes. The loop sleeps a millisecond per turn, so it has run the
\* sweep at least once in every second.
Tick ==
  /\ swept
  /\ swept' = FALSE
  /\ sinceCheck' = IF sinceCheck < Timeout THEN sinceCheck + 1 ELSE Timeout
  /\ silence' = [c \in ClientId |-> Older(silence[c])]
  /\ UNCHANGED <<conn, player, notice, unacked>>

\* The process dies and is started again. The read callback goes on with a
\* connection that the login it has just handled freed, and a failed login
\* response frees one twice: both end here when they do not go unnoticed.
Crash ==
  /\ conn' = [f \in Fd |-> Closed]
  /\ player' = [c \in ClientId |-> NoFd]
  /\ silence' = [c \in ClientId |-> Never]
  /\ sinceCheck' = Timeout
  /\ swept' = FALSE
  /\ notice' = [c \in ClientId |-> "none"]
  /\ unacked' = [f \in Fd |-> {}]

SocketEvent(f) ==
  \/ Accept(f)
  \/ CloseConnection(f)
  \/ \E c \in ClientId : Login(f, c)
  \/ \E head \in ClientId \cup {NoId} : ChangeAccount(f, head)
  \/ Heartbeat(f)
  \/ \E p \in ClientId \X Msg : PushAck(f, p)

ServerMessage ==
  \/ \E clients \in SUBSET ClientId, m \in Msg : TransferMsg(clients, m)
  \/ \E c \in ClientId : KickUser(c)

Next ==
  \/ \E f \in Fd : SocketEvent(f)
  \/ ServerMessage
  \/ CloseOutoftimeClient
  \/ Tick
  \/ Crash

Spec == Init /\ [][Next]_vars

(***************************************************************************)
(* Properties.                                                             *)
(***************************************************************************)

\* A player's stored descriptor is an open connection logged in under the
\* player's id, also after the descriptor was closed and reused: the "client
\* exist but client info not exist" branches of the send path and the
\* mismatch branch of the sweep are never taken.
PlayerBound ==
  \A c \in ClientId : player[c] # NoFd => player[c] \in Fd /\ conn[player[c]] = c

\* A push waits on a connection only if that connection logged in as the
\* addressee, whatever closes, reuses of the descriptor and duplicate logins
\* happened before.
NoMisdelivery ==
  \A f \in Fd : \A p \in unacked[f] : conn[f] = p[1]

\* A connection that was sent a push is still the one its player is bound to,
\* so its acknowledgement is not refused by PushAckHandler.
AckReachable ==
  \A f \in Fd : unacked[f] # {} => conn[f] \in ClientId /\ player[conn[f]] = f

\* A client this process last reported online can be reached through it.
OnlineReachable ==
  \A c \in ClientId : notice[c] = "online" => player[c] # NoFd

\* A client that sent a heartbeat and then falls silent is gone before two
\* time-outs have passed, in spite of the throttled sweep.
SilenceBounded ==
  \A c \in ClientId : silence[c] < 2 * Timeout

\* The connector keeps the promise of Session: whoever loses its player is
\* reported offline in the same step, and nobody without a player is.
Promise == INSTANCE Session WITH bound <- {c \in ClientId : player[c] # NoFd}
SessionPromise == Promise!Spec

\* What makes SilenceBounded inductive: the sweep runs in every second, and
\* whoever it spares has been silent for less than a time-out at that moment.
SilenceAge ==
  /\ swept => sinceCheck < Timeout
  /\ \A c \in ClientId :
       silence[c] # Never => player[c] # NoFd /\ silence[c] < Timeout + sinceCheck

\* The inductive invariant of the module.
IInv ==
  /\ TypeOK
  /\ PlayerBound
  /\ NoMisdelivery
  /\ AckReachable
  /\ OnlineReachable
  /\ SilenceAge
=============================================================================
