-------------------------- MODULE ConnectorProofs --------------------------
(***************************************************************************)
(* Proofs about Connector, for any sets of descriptors, clients and        *)
(* messages and any positive time-out: the inductive invariant, the        *)
(* invariants it implies, and that the connector implements Session.       *)
(***************************************************************************)
EXTENDS Connector, TLAPS

USE DEF NoFd, Never, Statuses

\* The state a connector starts in satisfies the inductive invariant.
LEMMA InitIInv == Init => IInv
<1> SUFFICES ASSUME Init PROVE IInv
  OBVIOUS
<1>1. TypeOK
  <2>1. silence \in [ClientId -> Never .. 2 * Timeout] /\ sinceCheck \in 0 .. Timeout
    BY TimeoutAssumption DEF Init
  <2>2. QED BY <2>1 DEF Init, TypeOK
<1>2. PlayerBound /\ NoMisdelivery /\ AckReachable
  BY DEF Init, PlayerBound, NoMisdelivery, AckReachable
<1>3. OnlineReachable /\ SilenceAge
  BY DEF Init, OnlineReachable, SilenceAge
<1>4. QED BY <1>1, <1>2, <1>3 DEF IInv

\* Closing any set of connections keeps the two maps in step, whatever the
\* sweep's own counters do, as long as those stay consistent.
LEMMA CloseKeepsIInv ==
  ASSUME IInv, NEW S \in SUBSET Fd, ProcessClose(S)
  PROVE  /\ conn' \in [Fd -> ClientId \cup {NoId, Closed}]
         /\ player' \in [ClientId -> Fd \cup {NoFd}]
         /\ silence' \in [ClientId -> Never .. 2 * Timeout]
         /\ notice' \in [ClientId -> Statuses]
         /\ unacked' \in [Fd -> SUBSET (ClientId \X Msg)]
         /\ PlayerBound'
         /\ NoMisdelivery'
         /\ AckReachable'
         /\ OnlineReachable'
<1> USE FdAssumption, IdAssumption, TimeoutAssumption
<1>1. TypeOK /\ PlayerBound /\ NoMisdelivery /\ AckReachable /\ OnlineReachable
  BY DEF IInv
<1>2. /\ conn' \in [Fd -> ClientId \cup {NoId, Closed}]
      /\ player' \in [ClientId -> Fd \cup {NoFd}]
      /\ silence' \in [ClientId -> Never .. 2 * Timeout]
      /\ notice' \in [ClientId -> Statuses]
      /\ unacked' \in [Fd -> SUBSET (ClientId \X Msg)]
  BY <1>1 DEF ProcessClose, TypeOK
<1>3. PlayerBound'
  BY <1>1 DEF ProcessClose, TypeOK, PlayerBound, Removed
<1>4. NoMisdelivery'
  BY <1>1 DEF ProcessClose, TypeOK, NoMisdelivery
<1>5. AckReachable'
  BY <1>1 DEF ProcessClose, TypeOK, AckReachable, Removed
<1>6. OnlineReachable'
  BY <1>1 DEF ProcessClose, TypeOK, PlayerBound, OnlineReachable, Removed, Reported
<1>7. QED BY <1>2, <1>3, <1>4, <1>5, <1>6

\* A close of connections outside the sweep preserves the invariant.
LEMMA SocketCloseIInv ==
  ASSUME IInv, NEW S \in SUBSET Fd, ProcessClose(S), UNCHANGED <<sinceCheck, swept>>
  PROVE  IInv'
<1>1. SilenceAge'
  BY FdAssumption, TimeoutAssumption
  DEF IInv, TypeOK, SilenceAge, ProcessClose, Removed
<1>2. QED BY <1>1, CloseKeepsIInv DEF IInv, TypeOK

\* Every handler, event and sweep of the event loop preserves the inductive
\* invariant: one step per action.
LEMMA NextIInv == IInv /\ [Next]_vars => IInv'
<1> SUFFICES ASSUME IInv, [Next]_vars PROVE IInv'
  OBVIOUS
<1> USE FdAssumption, IdAssumption, TimeoutAssumption
<1>1. ASSUME NEW f \in Fd, Accept(f) PROVE IInv'
  <2>1. TypeOK'
    BY <1>1 DEF Accept, IInv, TypeOK
  <2>2. PlayerBound'
    BY <1>1 DEF Accept, IInv, TypeOK, PlayerBound
  <2>3. NoMisdelivery' /\ AckReachable'
    BY <1>1 DEF Accept, IInv, TypeOK, NoMisdelivery, AckReachable
  <2>4. OnlineReachable' /\ SilenceAge'
    BY <1>1 DEF Accept, IInv, OnlineReachable, SilenceAge
  <2>5. QED BY <2>1, <2>2, <2>3, <2>4 DEF IInv
<1>2. ASSUME NEW f \in Fd, CloseConnection(f) PROVE IInv'
  BY <1>2, SocketCloseIInv DEF CloseConnection
<1>3. ASSUME NEW f \in Fd, NEW c \in ClientId, Login(f, c) PROVE IInv'
  <2>1. TypeOK'
    BY <1>3 DEF Login, PlayerAfterLogin, IInv, TypeOK
  <2>2. PlayerBound'
    BY <1>3 DEF Login, PlayerAfterLogin, IInv, TypeOK, PlayerBound
  <2>3. NoMisdelivery' /\ AckReachable'
    BY <1>3 DEF Login, PlayerAfterLogin, IInv, TypeOK, NoMisdelivery, AckReachable
  <2>4. OnlineReachable' /\ SilenceAge'
    BY <1>3 DEF Login, PlayerAfterLogin, IInv, TypeOK, OnlineReachable, SilenceAge
  <2>5. QED BY <2>1, <2>2, <2>3, <2>4 DEF IInv
<1>4. ASSUME NEW f \in Fd, NEW head \in ClientId \cup {NoId}, ChangeAccount(f, head)
      PROVE  IInv'
  BY <1>4, SocketCloseIInv DEF ChangeAccount
<1>5. ASSUME NEW f \in Fd, Heartbeat(f) PROVE IInv'
  <2>1. TypeOK'
    BY <1>5 DEF Heartbeat, IInv, TypeOK
  <2>2. PlayerBound' /\ NoMisdelivery' /\ AckReachable' /\ OnlineReachable'
    BY <1>5 DEF Heartbeat, IInv, PlayerBound, NoMisdelivery, AckReachable, OnlineReachable
  <2>3. SilenceAge'
    BY <1>5 DEF Heartbeat, IInv, TypeOK, SilenceAge
  <2>4. QED BY <2>1, <2>2, <2>3 DEF IInv
<1>6. ASSUME NEW f \in Fd, NEW p \in ClientId \X Msg, PushAck(f, p) PROVE IInv'
  <2>1. TypeOK'
    BY <1>6 DEF PushAck, IInv, TypeOK
  <2>2. PlayerBound' /\ OnlineReachable' /\ SilenceAge'
    BY <1>6 DEF PushAck, IInv, PlayerBound, OnlineReachable, SilenceAge
  <2>3. NoMisdelivery' /\ AckReachable'
    BY <1>6 DEF PushAck, IInv, TypeOK, NoMisdelivery, AckReachable
  <2>4. QED BY <2>1, <2>2, <2>3 DEF IInv
<1>7. ASSUME NEW clients \in SUBSET ClientId, NEW m \in Msg, TransferMsg(clients, m)
      PROVE  IInv'
  <2>1. TypeOK'
    BY <1>7 DEF TransferMsg, Recipients, IInv, TypeOK
  <2>2. PlayerBound' /\ OnlineReachable' /\ SilenceAge'
    BY <1>7 DEF TransferMsg, IInv, PlayerBound, OnlineReachable, SilenceAge
  <2>3. NoMisdelivery' /\ AckReachable'
    BY <1>7 DEF TransferMsg, Recipients, IInv, TypeOK, PlayerBound, NoMisdelivery, AckReachable
  <2>4. QED BY <2>1, <2>2, <2>3 DEF IInv
<1>8. ASSUME NEW c \in ClientId, KickUser(c) PROVE IInv'
  <2>1. PICK f \in Fd : ProcessClose({f}) /\ UNCHANGED <<sinceCheck, swept>>
    BY <1>8 DEF KickUser
  <2>2. QED BY <2>1, SocketCloseIInv
<1>9. CASE CloseOutoftimeClient
  <2>1. CASE sinceCheck < Timeout
    <3>1. swept' = TRUE /\ UNCHANGED <<conn, player, silence, sinceCheck, notice, unacked>>
      BY <1>9, <2>1 DEF CloseOutoftimeClient, IInv, TypeOK
    <3>2. TypeOK' /\ SilenceAge'
      BY <2>1, <3>1 DEF IInv, TypeOK, SilenceAge
    <3>3. PlayerBound' /\ NoMisdelivery' /\ AckReachable' /\ OnlineReachable'
      BY <3>1 DEF IInv, PlayerBound, NoMisdelivery, AckReachable, OnlineReachable
    <3>4. QED BY <3>2, <3>3 DEF IInv
  <2>2. CASE sinceCheck >= Timeout
    <3>1. Expired \in SUBSET Fd /\ ProcessClose(Expired) /\ sinceCheck' = 0 /\ swept' = TRUE
      BY <1>9, <2>2 DEF CloseOutoftimeClient, Expired, IInv, TypeOK
    <3>2. ASSUME NEW c \in ClientId, silence'[c] # Never
          PROVE  player'[c] # NoFd /\ silence'[c] < Timeout
      <4>1. c \notin Removed(Expired) /\ silence[c] # Never
        BY <3>1, <3>2 DEF ProcessClose
      <4>2. player[c] \in Fd /\ conn[player[c]] = c
        BY <4>1 DEF IInv, SilenceAge, PlayerBound
      <4>3. ~ SilentTooLong(c)
        BY <4>1, <4>2 DEF Removed, Expired
      <4>4. silence[c] \in Int /\ silence[c] < Timeout
        BY <4>1, <4>3 DEF SilentTooLong, IInv, TypeOK
      <4>5. player'[c] = player[c] /\ silence'[c] = silence[c]
        BY <3>1, <4>1 DEF ProcessClose
      <4>6. QED BY <4>2, <4>4, <4>5
    <3>3. SilenceAge'
      BY <3>1, <3>2 DEF SilenceAge
    <3>4. sinceCheck' \in 0 .. Timeout /\ swept' \in BOOLEAN
      BY <3>1
    <3>5. QED BY <3>1, <3>3, <3>4, CloseKeepsIInv DEF IInv, TypeOK
  <2>3. QED BY <1>9, <2>1, <2>2 DEF CloseOutoftimeClient
<1>10. CASE Tick
  <2>1. PlayerBound' /\ NoMisdelivery' /\ AckReachable' /\ OnlineReachable'
    BY <1>10 DEF Tick, IInv, PlayerBound, NoMisdelivery, AckReachable, OnlineReachable
  <2>2. TypeOK'
    <3>1. ASSUME NEW c \in ClientId
          PROVE  silence'[c] \in Never .. 2 * Timeout
      BY <1>10, TimeoutAssumption DEF Tick, Older, IInv, TypeOK
    <3>2. silence' \in [ClientId -> Never .. 2 * Timeout]
      BY <1>10, <3>1 DEF Tick
    <3>3. sinceCheck' \in 0 .. Timeout
      BY <1>10 DEF Tick, IInv, TypeOK
    <3>4. swept' \in BOOLEAN
      BY <1>10 DEF Tick
    <3>5. QED BY <1>10, <3>2, <3>3, <3>4 DEF Tick, IInv, TypeOK
  <2>3. SilenceAge'
    BY <1>10, TimeoutAssumption DEF Tick, Older, IInv, TypeOK, SilenceAge
  <2>4. QED BY <2>1, <2>2, <2>3 DEF IInv
<1>11. CASE Crash
  <2>1. Init'
    BY <1>11 DEF Crash, Init
  <2>2. QED BY <2>1, InitIInv, PTL
<1>12. CASE UNCHANGED vars
  BY <1>12 DEF vars, IInv, TypeOK, PlayerBound, NoMisdelivery, AckReachable,
               OnlineReachable, SilenceAge
<1>13. QED
  BY <1>1, <1>2, <1>3, <1>4, <1>5, <1>6, <1>7, <1>8, <1>9, <1>10, <1>11, <1>12
  DEF Next, SocketEvent, ServerMessage

\* The inductive invariant holds throughout.
LEMMA Inductive == Spec => []IInv
  BY InitIInv, NextIInv, PTL DEF Spec

---------------------------------------------------------------------------

\* Type correctness of the session core (connector/client.h, player.h).
THEOREM TypeCorrect == Spec => []TypeOK
  BY Inductive, PTL DEF IInv

\* A player's descriptor is always an open connection of the same client: the
\* maps of connector/client.cpp and connector/player.cpp never disagree,
\* whatever the order of logins, closes and reuses of a descriptor.
THEOREM PlayerBoundInvariant == Spec => []PlayerBound
  BY Inductive, PTL DEF IInv

\* TransMsgHandler never writes a push to a connection of another client.
THEOREM NoMisdeliveryInvariant == Spec => []NoMisdelivery
  BY Inductive, PTL DEF IInv

\* PushAckHandler never refuses the acknowledgement of a connection that a
\* push was written to.
THEOREM AckReachableInvariant == Spec => []AckReachable
  BY Inductive, PTL DEF IInv

\* UpdateUserStatus never leaves a client reported online without a player.
THEOREM OnlineReachableInvariant == Spec => []OnlineReachable
  BY Inductive, PTL DEF IInv

\* CloseOutoftimeClient removes a client that stopped sending heartbeats
\* before it has been silent for two time-outs.
THEOREM SilenceBoundedInvariant == Spec => []SilenceBounded
<1>1. IInv => SilenceBounded
  BY TimeoutAssumption DEF IInv, TypeOK, SilenceAge, SilenceBounded
<1>2. QED BY <1>1, Inductive, PTL

---------------------------------------------------------------------------

Bound == {c \in ClientId : player[c] # NoFd}

\* A close is a LogOut of Session: the players removed are among those
\* reported, and those reported had a player.
LEMMA CloseLogsOut ==
  ASSUME IInv, NEW S \in SUBSET Fd, ProcessClose(S)
  PROVE  Promise!Next
<1>1. Reported(S) \in SUBSET Bound
  BY DEF Reported, Bound
<1>2. Removed(S) \in SUBSET Reported(S)
  <2>1. ASSUME NEW c \in ClientId, player[c] \in S, conn[player[c]] = c
        PROVE  player[c] # NoFd /\ \E f \in S : conn[f] = c
    <3>1. player[c] # 0
      BY <2>1, FdAssumption
    <3>2. QED BY <2>1, <3>1
  <2>2. QED BY <2>1 DEF Removed, Reported
<1>3. Bound' = Bound \ Removed(S)
  BY FdAssumption DEF ProcessClose, Bound, IInv, TypeOK
<1>4. notice' = [c \in ClientId |-> IF c \in Reported(S) THEN "offline" ELSE notice[c]]
  BY DEF ProcessClose
<1>5. Promise!LogOut(Removed(S), Reported(S))
  BY <1>2, <1>3, <1>4 DEF Promise!LogOut, Bound
<1>6. \E T \in SUBSET {c \in ClientId : player[c] # NoFd} :
         \E R \in SUBSET T : Promise!LogOut(R, T)
  BY <1>1, <1>2, <1>5 DEF Bound, Promise!LogOut
<1>7. QED BY <1>6 DEF Promise!Next

\* The connector keeps the promise the other servers rely on: every step of
\* the session core is a step of Session or leaves it unchanged.
THEOREM ConnectorImplementsSession == Spec => SessionPromise
<1>1. Init => Promise!Init
  BY DEF Init, Promise!Init
<1>2. IInv /\ [Next]_vars => [Promise!Next]_Promise!vars
  <2> SUFFICES ASSUME IInv, [Next]_vars PROVE [Promise!Next]_Promise!vars
    OBVIOUS
  <2>1. ASSUME NEW f \in Fd, NEW c \in ClientId, Login(f, c) PROVE Promise!Next
    <3>1. Bound' = Bound \cup {c}
      BY <2>1, FdAssumption DEF Login, PlayerAfterLogin, Bound, IInv, TypeOK
    <3>2. Promise!LogIn(c)
      BY <2>1, <3>1 DEF Login, Promise!LogIn, Bound
    <3>3. QED BY <3>2 DEF Promise!Next
  <2>2. ASSUME NEW f \in Fd, CloseConnection(f) PROVE Promise!Next
    BY <2>2, CloseLogsOut DEF CloseConnection
  <2>3. ASSUME NEW f \in Fd, NEW head \in ClientId \cup {NoId}, ChangeAccount(f, head)
        PROVE  Promise!Next
    BY <2>3, CloseLogsOut DEF ChangeAccount
  <2>4. ASSUME NEW c \in ClientId, KickUser(c) PROVE Promise!Next
    BY <2>4, CloseLogsOut DEF KickUser
  <2>5. ASSUME CloseOutoftimeClient PROVE [Promise!Next]_Promise!vars
    <3>1. CASE UNCHANGED <<player, notice>>
      BY <3>1 DEF Promise!vars
    <3>2. CASE ProcessClose(Expired)
      BY <3>2, CloseLogsOut DEF Expired
    <3>3. QED BY <2>5, <3>1, <3>2 DEF CloseOutoftimeClient
  <2>6. ASSUME Crash PROVE Promise!Next
    <3>1. Bound' = {}
      BY <2>6 DEF Crash, Bound
    <3>2. Promise!Restart
      BY <2>6, <3>1 DEF Crash, Promise!Restart, Bound
    <3>3. QED BY <3>2 DEF Promise!Next
  <2>7. CASE UNCHANGED <<player, notice>>
    BY <2>7 DEF Promise!vars
  <2>8. QED
    BY <2>1, <2>2, <2>3, <2>4, <2>5, <2>6, <2>7
    DEF Next, SocketEvent, ServerMessage, Accept, Heartbeat, PushAck, TransferMsg, Tick, vars
<1>3. QED BY <1>1, <1>2, Inductive, PTL DEF Spec, SessionPromise, Promise!Spec
=============================================================================
