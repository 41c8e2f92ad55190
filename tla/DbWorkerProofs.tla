--------------------------- MODULE DbWorkerProofs ---------------------------
(***************************************************************************)
(* Proofs about DbWorker, for any sets of workers, clients, connectors and *)
(* messages: types, that no running worker drops what it still owes, and   *)
(* for a single worker that redis mirrors its table and that what was      *)
(* acknowledged is not sent again.                                         *)
(***************************************************************************)
EXTENDS DbWorker, TLAPS

(***************************************************************************)
(* Types.                                                                  *)
(***************************************************************************)

\* A query sends stored messages to known connectors, and only shrinks the
\* pending ids and the sets of redis.
LEMMA QueryTypes ==
  ASSUME TypeOK, NEW w \in Worker, NEW clients \in SUBSET Client, NEW connectorOf,
         \A c \in clients : connectorOf[c] \in Connector,
         Query(w, clients, connectorOf)
  PROVE  /\ transfer' \subseteq Connector \X Client \X Msg
         /\ pend' \in [Worker -> [Key -> SUBSET StoredId]]
         /\ rSet' \in [Client -> SUBSET Msg]
         /\ \A c \in Client : rSet'[c] \subseteq rSet[c]
         /\ \A v \in Worker, k \in Key : pend'[v][k] \subseteq pend[v][k]
         /\ \A v \in Worker, k \in Key : pend[v][k] \cap rMsg \subseteq pend'[v][k]
         /\ transfer' \subseteq transfer \cup
              {t \in Connector \X Client \X Msg : t[3] \in pend[w][t[2]] \cap rMsg}
<1> DEFINE asked == Asked(w, clients)
<1>1. PICK read \in Answered(asked), junk \in [clients -> StoredId] :
        /\ transfer' = transfer \cup {<<connectorOf[r[1]], r[1], r[2]>> : r \in Live(read)}
        /\ pend' = [pend EXCEPT ![w] =
                      [k \in Key |-> {m \in pend[w][k] : <<k, m>> \notin Dropped(asked, read)}]]
        /\ \E removed \in Answered(UNION {Removal(w, r, junk) : r \in Dropped(asked, read)}) :
             rSet' = [c \in Client |-> {m \in rSet[c] : <<c, m>> \notin removed}]
  BY DEF Query, TypeOK
<1>2. \A r \in asked : r \in clients \X StoredId /\ r[2] \in pend[w][r[1]]
  <2>1. clients \subseteq Key
    BY DEF Key
  <2>2. \A c \in clients : pend[w][c] \subseteq StoredId
    BY <2>1 DEF TypeOK
  <2>3. \A r \in asked : \E c \in clients : r \in {c} \X pend[w][c]
    BY DEF Asked
  <2> HIDE DEF asked
  <2>4. QED BY <2>2, <2>3
<1>3. read \subseteq asked
  BY <1>1 DEF Answered
<1>4. \A r \in Live(read) :
        /\ <<connectorOf[r[1]], r[1], r[2]>> \in Connector \X Client \X Msg
        /\ r[2] \in pend[w][r[1]] \cap rMsg
  BY <1>2, <1>3 DEF Live, TypeOK
<1>5. \A t \in transfer' : t \in transfer \/
        (t \in Connector \X Client \X Msg /\ t[3] \in pend[w][t[2]] \cap rMsg)
  BY <1>1, <1>4
<1>6. transfer' \subseteq Connector \X Client \X Msg
  BY <1>5 DEF TypeOK
<1>7. \A k \in Key, m \in rMsg : <<k, m>> \notin Dropped(asked, read)
  BY DEF Dropped
<1> HIDE DEF asked
<1>8. /\ pend' \in [Worker -> [Key -> SUBSET StoredId]]
      /\ \A v \in Worker, k \in Key : pend'[v][k] \subseteq pend[v][k]
      /\ \A v \in Worker, k \in Key : pend[v][k] \cap rMsg \subseteq pend'[v][k]
  BY <1>1, <1>7 DEF TypeOK
<1>9. rSet' \in [Client -> SUBSET Msg] /\ \A c \in Client : rSet'[c] \subseteq rSet[c]
  BY <1>1 DEF TypeOK
<1>10. QED BY <1>5, <1>6, <1>8, <1>9

LEMMA InitTypes == Init => TypeOK
  BY DEF Init, TypeOK, Key, Nowhere, Nothing

\* Every handler of every worker, redis and the clients keep the types.
LEMMA NextTypes == TypeOK /\ [Next]_vars => TypeOK'
<1> SUFFICES ASSUME TypeOK, [Next]_vars PROVE TypeOK'
  OBVIOUS
<1>1. ASSUME NEW w \in Worker, NEW c \in Client, NEW conn \in Connector,
             UserOnline(w, c, conn)
      PROVE  TypeOK'
  <2>2. /\ where' \in [Worker -> [Client -> Connector \cup {None}]]
        /\ {c} \in SUBSET Client /\ \A d \in {c} : where'[w][d] \in Connector
        /\ rConn' \in [Client -> Connector \cup {None}]
    BY <1>1 DEF UserOnline, Outcomes, TypeOK
  <2>3. Query(w, {c}, where'[w])
    BY <1>1 DEF UserOnline
  <2>4. /\ transfer' \subseteq Connector \X Client \X Msg
        /\ pend' \in [Worker -> [Key -> SUBSET StoredId]]
        /\ rSet' \in [Client -> SUBSET Msg]
    BY <2>2, <2>3, QueryTypes
  <2>5. QED BY <1>1, <2>2, <2>4 DEF UserOnline, TypeOK
<1>2. ASSUME NEW w \in Worker, NEW c \in Client, UserOffline(w, c)
      PROVE  TypeOK'
  BY <1>2 DEF UserOffline, RConnAfterOffline, Outcomes, TypeOK, wire
<1>3. ASSUME NEW w \in Worker, Insert(w) PROVE TypeOK'
  <2>1. PICK m \in Msg, clients \in SUBSET Client, immediate \in BOOLEAN :
          InsertMsg(w, m, clients, immediate)
    BY <1>3 DEF Insert
  <2>3. \A c \in {d \in clients : where[w][d] # None} : where[w][c] \in Connector
    BY DEF TypeOK
  <2>4. transfer' \subseteq Connector \X Client \X Msg
    BY <2>1, <2>3 DEF InsertMsg, TypeOK
  <2>5. pend' \in [Worker -> [Key -> SUBSET StoredId]]
    <3>1. CASE pend' = pend
      BY <3>1 DEF TypeOK
    <3>2. CASE pend' = [pend EXCEPT ![w] =
                          [k \in Key |-> IF k \in clients THEN pend[w][k] \cup {m} ELSE pend[w][k]]]
      <4>1. m \in StoredId
        BY DEF StoredId
      <4>2. [k \in Key |-> IF k \in clients THEN pend[w][k] \cup {m} ELSE pend[w][k]]
              \in [Key -> SUBSET StoredId]
        BY <4>1 DEF TypeOK
      <4>3. QED BY <3>2, <4>2 DEF TypeOK
    <3>3. QED BY <2>1, <3>1, <3>2 DEF InsertMsg, TypeOK
  <2>6. owed' \subseteq Client \X Msg
    BY <2>1 DEF InsertMsg, TypeOK
  <2>7. /\ rSet' \in [Client -> SUBSET Msg] /\ rMsg' \subseteq Msg
        /\ inserted' \subseteq Client \X Msg
    BY <2>1 DEF InsertMsg, TypeOK
  <2>8. QED BY <2>1, <2>4, <2>5, <2>6, <2>7 DEF InsertMsg, TypeOK
<1>4. ASSUME NEW w \in Worker, NEW c \in Client, NEW m \in Msg,
             UserReceivedMsg(w, c, m)
      PROVE  TypeOK'
  <2>1. pend' = [pend EXCEPT ![w][c] = pend[w][c] \ {m}] /\ c \in Key
    BY <1>4 DEF UserReceivedMsg, PendingAfterAck, Key
  <2>2. pend' \in [Worker -> [Key -> SUBSET StoredId]]
    BY <2>1 DEF TypeOK
  <2>3. rSet' \in [Client -> SUBSET Msg]
    BY <1>4 DEF UserReceivedMsg, Outcomes, TypeOK
  <2>4. {acks', owed', done'} \subseteq SUBSET (Client \X Msg)
    BY <1>4 DEF UserReceivedMsg, Rest, TypeOK
  <2>5. QED BY <1>4, <2>2, <2>3, <2>4 DEF UserReceivedMsg, Rest, TypeOK
<1>5. ASSUME NEW w \in Worker, CheckMsg(w) PROVE TypeOK'
  <2> DEFINE online == {c \in Client : where[w][c] # None}
  <2>1. online \in SUBSET Client /\ \A d \in online : where[w][d] \in Connector
    BY DEF TypeOK
  <2>2. Query(w, online, where[w])
    BY <1>5 DEF CheckMsg
  <2> HIDE DEF online
  <2>3. /\ transfer' \subseteq Connector \X Client \X Msg
        /\ pend' \in [Worker -> [Key -> SUBSET StoredId]]
        /\ rSet' \in [Client -> SUBSET Msg]
    BY <2>1, <2>2, QueryTypes
  <2>4. QED BY <1>5, <2>3 DEF CheckMsg, TypeOK
<1>6. ASSUME NEW w \in Worker, Stop(w) PROVE TypeOK'
  BY <1>6 DEF Stop, TypeOK, redis, wire, Nowhere, Nothing
<1>6a. ASSUME NEW w \in Worker, Start(w) PROVE TypeOK'
  <2>1. PICK read \in Answered(Client) : pend' = [pend EXCEPT ![w] = LoadedPending(read)]
    BY <1>6a DEF Start, LoadDataFromRedis
  <2>2. read \subseteq Client
    BY <2>1 DEF Answered
  <2>3. \A k : \A c \in read :
          (IF k = SetKey(c) /\ rSet[c] # {} THEN rSet[c] \cup {0} ELSE {}) \in SUBSET StoredId
    BY <2>2 DEF TypeOK, StoredId
  <2>4. LoadedPending(read) \in [Key -> SUBSET StoredId]
    BY <2>3 DEF LoadedPending
  <2>5. pend' \in [Worker -> [Key -> SUBSET StoredId]]
    BY <2>1, <2>4 DEF TypeOK
  <2>6. where' \in [Worker -> [Client -> Connector \cup {None}]]
    BY <1>6a DEF Start, LoadDataFromRedis, Outcomes, Nowhere, TypeOK
  <2>7. QED BY <1>6a, <2>5, <2>6 DEF Start, TypeOK, redis, wire
<1>7. ASSUME NEW m \in Msg, Expire(m) PROVE TypeOK'
  BY <1>7 DEF Expire, TypeOK, wire
<1>8. ASSUME NEW t \in transfer, Receive(t) PROVE TypeOK'
  <2>1. <<t[2], t[3]>> \in Client \X Msg
    BY DEF TypeOK
  <2>2. {got', acks'} \subseteq SUBSET (Client \X Msg)
    BY <1>8, <2>1 DEF Receive, Rest, TypeOK
  <2>3. QED BY <1>8, <2>2 DEF Receive, Rest, TypeOK, redis
<1>9. CASE Lose
  BY <1>9 DEF Lose, TypeOK, redis
<1>10. CASE UNCHANGED vars
  BY <1>10 DEF vars, redis, wire, TypeOK
<1>11. QED
  BY <1>1, <1>2, <1>3, <1>4, <1>5, <1>6, <1>6a, <1>7, <1>8, <1>9, <1>10
  DEF Next, StatusNotice, Ack, TypeOK

\* For any number of workers every variable keeps its type: the ids pending in
\* memory are message ids or the zero of GetSetMembers.
THEOREM TypeCorrect == Spec => []TypeOK
  BY InitTypes, NextTypes, PTL DEF Spec

(***************************************************************************)
(* Whose message is whose.                                                 *)
(***************************************************************************)

Addressed == TypeOK /\ OnlyAddressed

\* A query sends to each client what is pending for that client.
LEMMA QueryAddressed ==
  ASSUME Addressed, NEW w \in Worker, NEW clients \in SUBSET Client, NEW connectorOf,
         \A c \in clients : connectorOf[c] \in Connector,
         Query(w, clients, connectorOf),
         UNCHANGED <<inserted, acks, got, owed, done>>
  PROVE  OnlyAddressed'
<1>1. /\ \A c \in Client : rSet'[c] \subseteq rSet[c]
      /\ \A v \in Worker, k \in Key : pend'[v][k] \subseteq pend[v][k]
      /\ transfer' \subseteq transfer \cup
           {t \in Connector \X Client \X Msg : t[3] \in pend[w][t[2]] \cap rMsg}
  BY QueryTypes DEF Addressed
<1>2. Client \subseteq Key
  BY DEF Key
<1>3. \A t \in transfer' : <<t[2], t[3]>> \in inserted
  BY <1>1 DEF Addressed, OnlyAddressed
<1>4. QED BY <1>1, <1>2, <1>3 DEF Addressed, OnlyAddressed

\* LoadDataFromRedis puts nothing under a client id: what is stored for a client
\* comes to lie under the name of its redis set.
LEMMA StartEmpties ==
  ASSUME TypeOK, NEW w \in Worker, LoadDataFromRedis(w)
  PROVE  \A v \in Worker, c \in Client : pend'[v][c] = IF v = w THEN {} ELSE pend[v][c]
<1>1. PICK read \in Answered(Client) : pend' = [pend EXCEPT ![w] = LoadedPending(read)]
  BY DEF LoadDataFromRedis
<1>2. \A c \in Client : LoadedPending(read)[c] = {}
  <2>1. read \subseteq Client
    BY <1>1 DEF Answered
  <2>2. \A c \in Client, d \in read : c # SetKey(d)
    BY <2>1, KeyAssumption
  <2>3. \A c \in Client :
          UNION {IF c = SetKey(d) /\ rSet[d] # {} THEN rSet[d] \cup {0} ELSE {} : d \in read} = {}
    BY <2>2
  <2>4. QED BY <2>3 DEF LoadedPending, Key
<1>3. QED BY <1>1, <1>2 DEF TypeOK, Key

\* Neither the end of a worker nor its start adds to what is pending for a client.
LEMMA RestartForgets ==
  ASSUME TypeOK, NEW w \in Worker, Stop(w) \/ Start(w)
  PROVE  \A v \in Worker, c \in Client : pend'[v][c] \subseteq pend[v][c]
<1>1. CASE Stop(w)
  BY <1>1 DEF Stop, Nothing, Key, TypeOK
<1>2. CASE Start(w)
  BY <1>2, StartEmpties DEF Start
<1>3. QED BY <1>1, <1>2

\* No handler, and no restart, puts a message under another client.
LEMMA NextAddressed == Addressed /\ [Next]_vars => Addressed'
<1> SUFFICES ASSUME Addressed, [Next]_vars PROVE Addressed'
  OBVIOUS
<1>1. TypeOK /\ Client \subseteq Key
  BY DEF Addressed, Key
<1>2. ASSUME NEW w \in Worker, NEW c \in Client, NEW conn \in Connector,
             UserOnline(w, c, conn)
      PROVE  OnlyAddressed'
  <2>2. {c} \in SUBSET Client /\ \A d \in {c} : where'[w][d] \in Connector
    BY <1>1, <1>2 DEF UserOnline, TypeOK
  <2>3. QED BY <1>2, <2>2, QueryAddressed DEF UserOnline
<1>3. ASSUME NEW w \in Worker, NEW c \in Client, UserOffline(w, c)
      PROVE  OnlyAddressed'
  BY <1>3 DEF UserOffline, wire, Addressed, OnlyAddressed
<1>4. ASSUME NEW w \in Worker, Insert(w) PROVE OnlyAddressed'
  <2>1. PICK m \in Msg, clients \in SUBSET Client, immediate \in BOOLEAN :
          InsertMsg(w, m, clients, immediate)
    BY <1>4 DEF Insert
  <2>3. inserted \subseteq inserted' /\ \A c \in clients : <<c, m>> \in inserted'
    BY <2>1 DEF InsertMsg
  <2>4. \A v \in Worker, c \in Client :
          pend'[v][c] \subseteq pend[v][c] \cup (IF c \in clients THEN {m} ELSE {})
    <3>1. CASE pend' = pend
      BY <3>1
    <3>2. CASE pend' = [pend EXCEPT ![w] =
                          [k \in Key |-> IF k \in clients THEN pend[w][k] \cup {m} ELSE pend[w][k]]]
      BY <1>1, <3>2 DEF TypeOK
    <3>3. QED BY <1>1, <2>1, <3>1, <3>2 DEF InsertMsg, TypeOK
  <2>5. \A c \in Client : rSet'[c] \subseteq rSet[c] \cup (IF c \in clients THEN {m} ELSE {})
    BY <1>1, <2>1 DEF InsertMsg, Answered, TypeOK
  <2>6. \A t \in transfer' : t \in transfer \/ (t[3] = m /\ t[2] \in clients)
    BY <2>1 DEF InsertMsg
  <2>7. \A t \in transfer' : <<t[2], t[3]>> \in inserted'
    BY <2>3, <2>6 DEF Addressed, OnlyAddressed
  <2>8. acks' \cup got' \cup done' \subseteq inserted'
    BY <2>1, <2>3 DEF InsertMsg, Addressed, OnlyAddressed
  <2>9. owed' \subseteq inserted'
    BY <2>1, <2>3 DEF InsertMsg, Addressed, OnlyAddressed
  <2>10. \A v \in Worker, c \in Client : \A n \in pend'[v][c] \cup rSet'[c] : <<c, n>> \in inserted'
    BY <2>3, <2>4, <2>5 DEF Addressed, OnlyAddressed
  <2>11. QED BY <2>7, <2>8, <2>9, <2>10 DEF OnlyAddressed
<1>5. ASSUME NEW w \in Worker, NEW c \in Client, NEW m \in Msg,
             UserReceivedMsg(w, c, m)
      PROVE  OnlyAddressed'
  <2>1. \A v \in Worker, d \in Client : pend'[v][d] \subseteq pend[v][d] /\ rSet'[d] \subseteq rSet[d]
    BY <1>1, <1>5 DEF UserReceivedMsg, PendingAfterAck, Outcomes, TypeOK
  <2>2. /\ acks' \subseteq acks /\ done' = done \cup {<<c, m>>} /\ <<c, m>> \in acks
        /\ owed' \subseteq owed /\ UNCHANGED <<inserted, transfer, got>>
    BY <1>5 DEF UserReceivedMsg, Rest
  <2>3. QED BY <2>1, <2>2 DEF Addressed, OnlyAddressed
<1>6. ASSUME NEW w \in Worker, CheckMsg(w) PROVE OnlyAddressed'
  <2> DEFINE online == {c \in Client : where[w][c] # None}
  <2>1. online \in SUBSET Client /\ \A d \in online : where[w][d] \in Connector
    BY <1>1 DEF TypeOK
  <2>2. Query(w, online, where[w]) /\ UNCHANGED <<inserted, acks, got, owed, done>>
    BY <1>6 DEF CheckMsg
  <2> HIDE DEF online
  <2>3. QED BY <2>1, <2>2, QueryAddressed
<1>7. ASSUME NEW w \in Worker, Stop(w) \/ Start(w) PROVE OnlyAddressed'
  <2>1. \A v \in Worker, c \in Client : pend'[v][c] \subseteq pend[v][c]
    BY <1>1, <1>7, RestartForgets
  <2>2. owed' \subseteq owed /\ UNCHANGED <<rSet, transfer, acks, got, done, inserted>>
    BY <1>7 DEF Stop, Start, redis, wire
  <2>3. QED BY <2>1, <2>2 DEF Addressed, OnlyAddressed
<1>8. ASSUME NEW m \in Msg, Expire(m) PROVE OnlyAddressed'
  BY <1>8 DEF Expire, wire, Addressed, OnlyAddressed
<1>9. ASSUME NEW t \in transfer, Receive(t) PROVE OnlyAddressed'
  <2>1. /\ transfer' \subseteq transfer
        /\ got' = got \cup {<<t[2], t[3]>>} /\ acks' = acks \cup {<<t[2], t[3]>>}
        /\ UNCHANGED <<pend, rSet, inserted, owed, done>>
    BY <1>9 DEF Receive, Rest, redis
  <2>2. QED BY <2>1 DEF Addressed, OnlyAddressed
<1>10. ASSUME Lose PROVE OnlyAddressed'
  BY <1>10 DEF Lose, redis, Addressed, OnlyAddressed
<1>11. ASSUME UNCHANGED vars PROVE OnlyAddressed'
  BY <1>11 DEF vars, redis, wire, Addressed, OnlyAddressed
<1>12. OnlyAddressed'
  BY <1>1, <1>2, <1>3, <1>4, <1>5, <1>6, <1>7, <1>8, <1>9, <1>10, <1>11
  DEF Next, StatusNotice, Ack, TypeOK
<1>13. QED BY <1>1, <1>12, NextTypes DEF Addressed

LEMMA InitAddressed == Init => Addressed
  BY InitTypes DEF Addressed, Init, OnlyAddressed, Key, Nothing

\* For any number of workers, with restarts and whatever redis refuses: a
\* message is kept for, sent to and acknowledged by none but the clients PHP
\* addressed it to.
THEOREM OnlyAddressedInvariant == Spec => []OnlyAddressed
<1>1. Addressed => OnlyAddressed
  BY DEF Addressed
<1>2. QED BY <1>1, InitAddressed, NextAddressed, PTL DEF Spec

(***************************************************************************)
(* Messages that are owed stay pending.                                    *)
(***************************************************************************)

\* OnlyAddressed is needed for the new message: nobody is owed it already.
Kept == Addressed /\ UnackedKept

\* A query drops nothing that redis still has.
LEMMA QueryKeeps ==
  ASSUME Kept, NEW w \in Worker, NEW clients \in SUBSET Client, NEW connectorOf,
         \A c \in clients : connectorOf[c] \in Connector,
         Query(w, clients, connectorOf),
         UNCHANGED <<alive, rMsg, owed>>
  PROVE  UnackedKept'
<1>1. \A v \in Worker, k \in Key : pend[v][k] \cap rMsg \subseteq pend'[v][k]
  BY QueryTypes DEF Kept, Addressed
<1>2. Client \subseteq Key
  BY DEF Key
<1>3. QED BY <1>1, <1>2 DEF Kept, Addressed, TypeOK, UnackedKept

\* Every step keeps what is owed, but for what a worker that stops forgets.
LEMMA NextKept == Kept /\ [Next]_vars => Kept'
<1> SUFFICES ASSUME Kept, [Next]_vars PROVE Kept'
  OBVIOUS
<1>1. TypeOK /\ Addressed
  BY DEF Kept, Addressed
<1>2. ASSUME NEW w \in Worker, NEW c \in Client, NEW conn \in Connector,
             UserOnline(w, c, conn)
      PROVE  UnackedKept'
  <2>2. {c} \in SUBSET Client /\ \A d \in {c} : where'[w][d] \in Connector
    BY <1>1, <1>2 DEF UserOnline, TypeOK
  <2>3. QED BY <1>2, <2>2, QueryKeeps DEF UserOnline
<1>3. ASSUME NEW w \in Worker, NEW c \in Client, UserOffline(w, c)
      PROVE  UnackedKept'
  BY <1>3 DEF UserOffline, Kept, UnackedKept
<1>4. ASSUME NEW w \in alive, Insert(w) PROVE UnackedKept'
  <2>1. PICK m \in Msg, clients \in SUBSET Client, immediate \in BOOLEAN :
          InsertMsg(w, m, clients, immediate)
    BY <1>4 DEF Insert
  <2>3. Client \subseteq Key
    BY DEF Key
  <2>4. \A v \in Worker, c \in Client :
          /\ pend[v][c] \subseteq pend'[v][c]
          /\ <<c, m>> \in owed' /\ <<c, m>> \notin owed => m \in pend'[w][c]
    <3>1. CASE pend' = pend /\ owed' = owed
      BY <3>1
    <3>2. CASE /\ pend' = [pend EXCEPT ![w] =
                           [k \in Key |-> IF k \in clients THEN pend[w][k] \cup {m} ELSE pend[w][k]]]
               /\ owed' = owed \cup (clients \X {m})
      BY <1>1, <2>3, <3>2 DEF TypeOK
    <3>3. QED BY <1>1, <2>1, <3>1, <3>2 DEF InsertMsg, TypeOK
  <2>5. rMsg' \subseteq rMsg \cup {m} /\ \A c \in Client : <<c, m>> \notin inserted
    BY <2>1 DEF InsertMsg
  <2>6. \A c \in Client, n \in Msg : <<c, n>> \in owed' => <<c, n>> \in owed \/ n = m
    BY <2>1 DEF InsertMsg
  <2>7. \A c \in Client : <<c, m>> \notin owed
    BY <1>1, <2>5 DEF Addressed, OnlyAddressed
  <2>8. alive' = alive /\ alive \subseteq Worker
    BY <1>1, <2>1 DEF InsertMsg, TypeOK
  <2>9. QED BY <2>4, <2>5, <2>6, <2>7, <2>8 DEF Kept, UnackedKept
<1>5. ASSUME NEW w \in Worker, NEW c \in Client, NEW m \in Msg,
             UserReceivedMsg(w, c, m)
      PROVE  UnackedKept'
  <2>1. c \in Key /\ Client \subseteq Key
    BY DEF Key
  <2>2. \A v \in Worker, d \in Client, n \in Msg :
          n \in pend[v][d] /\ <<d, n>> # <<c, m>> => n \in pend'[v][d]
    BY <1>1, <1>5, <2>1 DEF UserReceivedMsg, Rest, PendingAfterAck, TypeOK
  <2>3. QED BY <1>5, <2>2 DEF UserReceivedMsg, Rest, Kept, UnackedKept
<1>6. ASSUME NEW w \in Worker, CheckMsg(w)
      PROVE  UnackedKept'
  <2> DEFINE online == {c \in Client : where[w][c] # None}
  <2>1. online \in SUBSET Client /\ \A d \in online : where[w][d] \in Connector
    BY <1>1 DEF TypeOK
  <2>2. Query(w, online, where[w]) /\ UNCHANGED <<alive, rMsg, owed>>
    BY <1>6 DEF CheckMsg
  <2> HIDE DEF online
  <2>3. QED BY <2>1, <2>2, QueryKeeps
<1>7. ASSUME NEW w \in Worker, Stop(w) PROVE UnackedKept'
  <2>1. /\ owed' = owed \ Asked(w, Client) /\ rMsg' = rMsg /\ alive' = alive \ {w}
        /\ \A v \in Worker \ {w} : pend'[v] = pend[v]
    BY <1>1, <1>7 DEF Stop, redis, TypeOK
  <2>2. \A c \in Client, m \in Msg : m \in pend[w][c] => <<c, m>> \in Asked(w, Client)
    BY DEF Asked
  <2>3. QED BY <1>1, <2>1, <2>2 DEF Kept, UnackedKept, TypeOK
<1>7a. ASSUME NEW w \in Worker \ alive, Start(w) PROVE UnackedKept'
  <2>1. \A v \in alive : pend'[v] = pend[v]
    BY <1>1, <1>7a DEF Start, LoadDataFromRedis, TypeOK
  <2>2. QED BY <1>7a, <2>1 DEF Start, redis, Kept, UnackedKept
<1>8. ASSUME NEW m \in Msg, Expire(m) PROVE UnackedKept'
  BY <1>8 DEF Expire, Kept, UnackedKept
<1>9. ASSUME (\E t \in transfer : Receive(t)) \/ Lose PROVE UnackedKept'
  BY <1>9 DEF Receive, Rest, Lose, redis, Kept, UnackedKept
<1>10. ASSUME UNCHANGED vars PROVE UnackedKept'
  BY <1>10 DEF vars, redis, Kept, UnackedKept
<1>11. UnackedKept'
  BY <1>1, <1>2, <1>3, <1>4, <1>5, <1>6, <1>7, <1>7a, <1>8, <1>9, <1>10
  DEF Next, StatusNotice, Ack, TypeOK
<1>12. QED BY <1>1, <1>11, NextAddressed DEF Kept

\* What is stored and neither acknowledged nor expired stays pending at a
\* running worker, or its worker has died since: however many workers share the
\* traffic and whichever of their redis commands fail.
THEOREM UnackedKeptInvariant == Spec => []UnackedKept
<1>1. Init => Kept
  BY InitAddressed DEF Kept, Init, UnackedKept
<1>2. Kept /\ [Next]_vars => Kept'
  BY NextKept
<1>3. Kept => UnackedKept
  BY DEF Kept
<1>4. QED BY <1>1, <1>2, <1>3, PTL DEF Spec

(***************************************************************************)
(* A single worker: nothing acknowledged is sent again.                    *)
(***************************************************************************)

\* An acknowledged message is not pending for the client that has it.
AckedGone == \A c \in Client, m \in Msg : <<c, m>> \in done => \A w \in Worker : m \notin pend[w][c]

Settled == Addressed /\ AckedGone

\* What one step may put on the way to a client that has acknowledged it.
NotResent ==
  \A c \in Client, m \in Msg : <<c, m>> \in done =>
    \A conn \in Connector : <<conn, c, m>> \in transfer' => <<conn, c, m>> \in transfer

\* A query sends what is pending, and nothing acknowledged is.
LEMMA QuerySettled ==
  ASSUME Settled, NEW w \in Worker, NEW clients \in SUBSET Client, NEW connectorOf,
         \A c \in clients : connectorOf[c] \in Connector,
         Query(w, clients, connectorOf),
         UNCHANGED done
  PROVE  AckedGone' /\ NotResent
<1>1. /\ \A v \in Worker, k \in Key : pend'[v][k] \subseteq pend[v][k]
      /\ transfer' \subseteq transfer \cup
           {t \in Connector \X Client \X Msg : t[3] \in pend[w][t[2]] \cap rMsg}
  BY QueryTypes DEF Settled, Addressed
<1>2. Client \subseteq Key
  BY DEF Key
<1>3. AckedGone'
  BY <1>1, <1>2 DEF Settled, AckedGone
<1>4. NotResent
  BY <1>1 DEF Settled, AckedGone, NotResent
<1>5. QED BY <1>3, <1>4

\* Every step of a single worker keeps the acknowledged messages settled and
\* sends none of them.
LEMMA NextSettled ==
  ASSUME NEW only, Worker = {only}, Settled, [Next]_vars
  PROVE  Settled' /\ NotResent
<1>1. TypeOK /\ Addressed
  BY DEF Settled, Addressed
<1>2. ASSUME NEW w \in Worker, NEW c \in Client, NEW conn \in Connector,
             UserOnline(w, c, conn)
      PROVE  AckedGone' /\ NotResent
  <2>2. {c} \in SUBSET Client /\ \A d \in {c} : where'[w][d] \in Connector
    BY <1>1, <1>2 DEF UserOnline, TypeOK
  <2>3. QED BY <1>2, <2>2, QuerySettled DEF UserOnline
<1>3. ASSUME NEW w \in Worker, NEW c \in Client, UserOffline(w, c)
      PROVE  AckedGone' /\ NotResent
  BY <1>3 DEF UserOffline, wire, Settled, AckedGone, NotResent
<1>4. ASSUME NEW w \in Worker, Insert(w) PROVE AckedGone' /\ NotResent
  <2>1. PICK m \in Msg, clients \in SUBSET Client, immediate \in BOOLEAN :
          InsertMsg(w, m, clients, immediate)
    BY <1>4 DEF Insert
  <2>3. Client \subseteq Key
    BY DEF Key
  <2>4. \A t \in transfer' : t \in transfer \/ t[3] = m
    BY <2>1 DEF InsertMsg
  <2>5. \A v \in Worker, c \in Client : pend'[v][c] \subseteq pend[v][c] \cup {m}
    <3>1. CASE pend' = pend
      BY <3>1
    <3>2. CASE pend' = [pend EXCEPT ![w] =
                          [k \in Key |-> IF k \in clients THEN pend[w][k] \cup {m} ELSE pend[w][k]]]
      BY <1>1, <2>3, <3>2 DEF TypeOK
    <3>3. QED BY <1>1, <2>1, <3>1, <3>2 DEF InsertMsg, TypeOK
  <2>6. done' = done /\ \A c \in Client : <<c, m>> \notin inserted
    BY <2>1 DEF InsertMsg
  <2>7. \A c \in Client : <<c, m>> \notin done
    BY <1>1, <2>6 DEF Addressed, OnlyAddressed
  <2>8. AckedGone'
    BY <2>5, <2>6, <2>7 DEF Settled, AckedGone
  <2>9. NotResent
    BY <2>4, <2>7 DEF NotResent
  <2>10. QED BY <2>8, <2>9
<1>5. ASSUME NEW w \in Worker, NEW c \in Client, NEW m \in Msg,
             UserReceivedMsg(w, c, m)
      PROVE  AckedGone' /\ NotResent
  <2>1. c \in Key /\ Client \subseteq Key
    BY DEF Key
  <2>2. /\ \A v \in Worker, d \in Client : pend'[v][d] \subseteq pend[v][d]
        /\ \A v \in Worker : m \notin pend'[v][c]
    BY <1>1, <1>5, <2>1 DEF UserReceivedMsg, Rest, PendingAfterAck, TypeOK
  <2>3. AckedGone'
    BY <1>5, <2>2 DEF UserReceivedMsg, Rest, Settled, AckedGone
  <2>4. NotResent
    BY <1>5 DEF UserReceivedMsg, Rest, NotResent
  <2>5. QED BY <2>3, <2>4
<1>6. ASSUME NEW w \in Worker, CheckMsg(w)
      PROVE  AckedGone' /\ NotResent
  <2> DEFINE online == {c \in Client : where[w][c] # None}
  <2>1. online \in SUBSET Client /\ \A d \in online : where[w][d] \in Connector
    BY <1>1 DEF TypeOK
  <2>2. Query(w, online, where[w]) /\ UNCHANGED done
    BY <1>6 DEF CheckMsg
  <2> HIDE DEF online
  <2>3. QED BY <2>1, <2>2, QuerySettled
<1>7. ASSUME NEW w \in Worker, Stop(w) \/ Start(w) PROVE AckedGone' /\ NotResent
  <2>1. \A v \in Worker, c \in Client : pend'[v][c] \subseteq pend[v][c]
    BY <1>1, <1>7, RestartForgets
  <2>2. QED BY <1>7, <2>1 DEF Stop, Start, wire, Settled, AckedGone, NotResent
<1>8. ASSUME NEW m \in Msg, Expire(m) PROVE AckedGone' /\ NotResent
  BY <1>8 DEF Expire, wire, Settled, AckedGone, NotResent
<1>9. ASSUME NEW t \in transfer, Receive(t) PROVE AckedGone' /\ NotResent
  BY <1>9 DEF Receive, Rest, redis, Settled, AckedGone, NotResent
<1>10. ASSUME Lose PROVE AckedGone' /\ NotResent
  BY <1>10 DEF Lose, redis, Settled, AckedGone, NotResent
<1>11. ASSUME UNCHANGED vars PROVE AckedGone' /\ NotResent
  BY <1>11 DEF vars, redis, wire, Settled, AckedGone, NotResent
<1>12. AckedGone' /\ NotResent
  BY <1>1, <1>2, <1>3, <1>4, <1>5, <1>6, <1>7, <1>8, <1>9, <1>10, <1>11
  DEF Next, StatusNotice, Ack, TypeOK
<1>13. QED BY <1>1, <1>12, NextAddressed DEF Settled

\* A single worker never sends a message again to a client whose
\* acknowledgement it has processed, restarts and redis errors included.
THEOREM AckedNotResentInvariant ==
  ASSUME NEW only, Worker = {only}
  PROVE  Spec => AckedNotResent
<1>1. Init => Settled
  BY InitAddressed DEF Settled, Init, AckedGone
<1>2. Settled /\ [Next]_vars => Settled' /\ NotResent
  BY NextSettled
<1>3. NotResent <=> \A c \in Client, m \in Msg : <<c, m>> \in done =>
                      \A conn \in Connector : <<conn, c, m>> \in transfer' => <<conn, c, m>> \in transfer
  BY DEF NotResent
<1>4. QED BY <1>1, <1>2, <1>3, PTL DEF Spec, AckedNotResent

(***************************************************************************)
(* A single worker whose redis commands succeed.                           *)
(***************************************************************************)

\* The table of connectors a restart would load is the one the worker has.
THEOREM RedisMirrorsPresenceInvariant ==
  ASSUME NEW only, Worker = {only}, ~ RedisMayFail
  PROVE  Spec => []RedisMirrorsPresence
<1>1. Init => TypeOK /\ RedisMirrorsPresence
  BY InitTypes DEF Init, RedisMirrorsPresence
<1>2. TypeOK /\ RedisMirrorsPresence /\ [Next]_vars => RedisMirrorsPresence'
  <2> SUFFICES ASSUME TypeOK, RedisMirrorsPresence, [Next]_vars
               PROVE  RedisMirrorsPresence'
    OBVIOUS
  <2>1. \A failed, success : Outcomes(failed, success) = {success}
    BY DEF Outcomes
  <2>2. ASSUME NEW w \in Worker, NEW c \in Client, NEW conn \in Connector,
               UserOnline(w, c, conn)
        PROVE  RedisMirrorsPresence'
    BY <2>1, <2>2 DEF UserOnline, TypeOK, RedisMirrorsPresence
  <2>3. ASSUME NEW w \in Worker, NEW c \in Client, UserOffline(w, c)
        PROVE  RedisMirrorsPresence'
    BY <2>1, <2>3 DEF UserOffline, RConnAfterOffline, TypeOK, RedisMirrorsPresence
  <2>4. ASSUME NEW w \in Worker, Start(w) PROVE RedisMirrorsPresence'
    BY <2>1, <2>4 DEF Start, LoadDataFromRedis, redis, TypeOK, RedisMirrorsPresence
  <2>4a. ASSUME NEW w \in Worker, Stop(w) PROVE RedisMirrorsPresence'
    BY <2>4a DEF Stop, TypeOK, RedisMirrorsPresence
  <2>5. ASSUME NEW w \in Worker, Insert(w) PROVE UNCHANGED <<alive, where, rConn>>
    BY <2>5 DEF Insert, InsertMsg
  <2>6. ASSUME NEW w \in Worker, Ack(w) \/ CheckMsg(w) PROVE UNCHANGED <<alive, where, rConn>>
    BY <2>6 DEF Ack, UserReceivedMsg, CheckMsg
  <2>7. ASSUME (\E m \in Msg : Expire(m)) \/ (\E t \in transfer : Receive(t)) \/ Lose
        PROVE  UNCHANGED <<alive, where, rConn>>
    BY <2>7 DEF Expire, Receive, Rest, Lose, redis
  <2>8. ASSUME UNCHANGED vars PROVE RedisMirrorsPresence'
    BY <2>8 DEF vars, redis, RedisMirrorsPresence
  <2>9. QED BY <2>2, <2>3, <2>4, <2>4a, <2>5, <2>6, <2>7, <2>8
    DEF Next, StatusNotice, RedisMirrorsPresence, TypeOK
<1>3. QED BY <1>1, <1>2, NextTypes, PTL DEF Spec
=============================================================================
