------------------------------ MODULE Presence ------------------------------
(***************************************************************************)
(* Who is online, across the system: the clients a connector can deliver   *)
(* to, the path its status notices take through the proxy, and the maps of *)
(* the dbworkers that the notices update.                                  *)
(*                                                                         *)
(* A connector addresses its notices to "a dbworker" (dst_svr_id 0). It    *)
(* therefore always picks the first proxy of its list, and that proxy a    *)
(* worker at random: the notices of one connector stay in order, those of  *)
(* two connectors do not, and two workers share the notices between them.  *)
(***************************************************************************)
EXTENDS Integers, Sequences, FiniteSets, SequencesExt

CONSTANTS
  Connector, Client, Worker,
  None,       \* "not in the map"
  MaxQueue    \* bound on the notices of a connector under way

ASSUME NoneAssumption == None \notin Connector
ASSUME MaxQueueAssumption == MaxQueue \in Nat \ {0}

VARIABLES
  bound,   \* connector -> clients it can deliver to
  link,    \* connector -> status notices under way, oldest first
  unheard, \* connector -> clients whose latest change of status was lost
  where    \* worker -> client -> connector

vars == <<bound, link, unheard, where>>

Notices == [client : Client, is_online : BOOLEAN]

TypeOK ==
  /\ bound \in [Connector -> SUBSET Client]
  /\ link \in [Connector -> Seq(Notices)]
  /\ \A k \in Connector : Len(link[k]) <= MaxQueue
  /\ unheard \in [Connector -> SUBSET Client]
  /\ where \in [Worker -> [Client -> Connector \cup {None}]]

Init ==
  /\ bound = [k \in Connector |-> {}]
  /\ link = [k \in Connector |-> <<>>]
  /\ unheard = [k \in Connector |-> {}]
  /\ where = [w \in Worker |-> [c \in Client |-> None]]

Notice(c, online) == [client |-> c, is_online |-> online]

\* UpdateUserStatus of the connector: one status notice is written to the proxy.
Report(k, c, online) ==
  /\ Len(link[k]) < MaxQueue
  /\ link' = [link EXCEPT ![k] = Append(@, Notice(c, online))]
  /\ unheard' = [unheard EXCEPT ![k] = @ \ {c}]

\* A client logs in at a connector. Nothing keeps it from being logged in
\* elsewhere: the other connector may not have seen the end of its connection.
LogIn(k, c) ==
  /\ bound' = [bound EXCEPT ![k] = @ \cup {c}]
  /\ Report(k, c, TRUE)
  /\ UNCHANGED where

\* The connection of a client is closed and its player deleted.
LogOut(k, c) ==
  /\ c \in bound[k]
  /\ bound' = [bound EXCEPT ![k] = @ \ {c}]
  /\ Report(k, c, FALSE)
  /\ UNCHANGED where

\* A second connection of the client is closed: the same notice, though the
\* player stays.
CloseSecond(k, c) ==
  /\ c \in bound[k]
  /\ Report(k, c, FALSE)
  /\ UNCHANGED <<bound, where>>

\* The clients k has a notice under way for.
UnderWay(k) == {n.client : n \in ToSet(link[k])}

\* The connector dies and starts again: it remembers nothing, and nobody tells
\* the workers about the clients it had.
Restart(k) ==
  /\ bound' = [bound EXCEPT ![k] = {}]
  /\ unheard' = [unheard EXCEPT ![k] = @ \cup bound[k] \cup UnderWay(k)]
  /\ link' = [link EXCEPT ![k] = <<>>]
  /\ UNCHANGED where

\* The connection to the proxy breaks and what is under way is lost: the
\* connector connects again and does not repeat it.
LoseNotices(k) ==
  /\ link[k] # <<>>
  /\ unheard' = [unheard EXCEPT ![k] = @ \cup UnderWay(k)]
  /\ link' = [link EXCEPT ![k] = <<>>]
  /\ UNCHANGED <<bound, where>>

\* The order in which the proxy hands on the notices of one connector.
MutLatestFirst(k) == Last(link[k])
NextNotice(k) == Head(link[k])

\* UpdateUserStatus at the worker the proxy chose: offline erases the entry,
\* whichever connector it names.
MutOfflineIgnored(w, k, n) == IF n.is_online THEN k ELSE where[w][n.client]
MutOfflineZero(w, k, n) == IF n.is_online THEN k ELSE 0
Updated(w, k, n) == IF n.is_online THEN k ELSE None

Deliver(k, w) ==
  /\ link[k] # <<>>
  /\ where' = [where EXCEPT ![w][NextNotice(k).client] = Updated(w, k, NextNotice(k))]
  /\ link' = [link EXCEPT ![k] = Tail(@)]
  /\ UNCHANGED <<bound, unheard>>

\* The proxy drops the next notice: it has no worker, or writes it to one that
\* has just died. A later notice under way still puts things right.
DropNotice(k) ==
  /\ link[k] # <<>>
  /\ link' = [link EXCEPT ![k] = Tail(@)]
  /\ unheard' = [unheard EXCEPT ![k] =
                   @ \cup ({Head(link[k]).client} \ {n.client : n \in ToSet(link'[k])})]
  /\ UNCHANGED <<bound, where>>

ClientEvent(k) == \E c \in Client : LogIn(k, c) \/ LogOut(k, c) \/ CloseSecond(k, c)
Handover(k) == DropNotice(k) \/ \E w \in Worker : Deliver(k, w)

Next ==
  \E k \in Connector : ClientEvent(k) \/ Restart(k) \/ LoseNotices(k) \/ Handover(k)

Spec == Init /\ [][Next]_vars

\* The proxy reads what a connector writes to it, and hands it on or drops it.
FairSpec == Spec /\ \A k \in Connector : WF_vars(Handover(k))

(***************************************************************************)
(* Properties.                                                             *)
(***************************************************************************)

\* Notice i is the last one about c that k has under way.
LastWord(k, c, i) ==
  /\ i \in DOMAIN link[k]
  /\ link[k][i].client = c
  /\ \A j \in DOMAIN link[k] : j > i => link[k][j].client # c

\* A worker that places a client at a connector that cannot deliver to it will
\* hear so: the last notice of that connector under way takes the client out,
\* unless that connector's last word on the client was lost.
NoStaleOnline ==
  \A w \in Worker, k \in Connector, c \in Client :
    where[w][c] = k /\ c \notin bound[k] /\ c \notin unheard[k] =>
      \E i \in DOMAIN link[k] : LastWord(k, c, i) /\ ~ link[k][i].is_online

\* What makes it inductive: an online notice with no later one about the same
\* client behind it is true.
OnlineIsTrue ==
  \A k \in Connector, c \in Client : \A i \in DOMAIN link[k] :
    LastWord(k, c, i) /\ link[k][i].is_online => c \in bound[k]

\* The same as it unfolds: a client that cannot be reached through a connector
\* does not stay placed there.
StaleOnlineCleared ==
  \A w \in Worker, k \in Connector, c \in Client :
    (where[w][c] = k /\ c \notin bound[k])
      ~> (where[w][c] # k \/ c \in bound[k] \cup unheard[k])

\* The design document's demand on the dbworker: its table has the connector
\* of every client. Stated for when all notices have arrived, none was lost
\* and the client is at one connector only.
ConnectedIsKnown ==
  (\A k \in Connector : link[k] = <<>> /\ unheard[k] = {}) =>
    \A c \in Client, k \in Connector :
      c \in bound[k] /\ (\A j \in Connector \ {k} : c \notin bound[j])
        => \A w \in Worker : where[w][c] = k
=============================================================================
