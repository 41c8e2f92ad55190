--------------------------- MODULE PresenceProofs ---------------------------
(***************************************************************************)
(* Proofs about Presence, for any sets of connectors and clients and any   *)
(* bound on the queues: types, truthfulness of the notices, and for a      *)
(* single worker that a wrong entry of its table is about to be corrected. *)
(***************************************************************************)
EXTENDS Presence, TLAPS

\* A client some notice is about has a last one: the queues are finite.
LastWordExists ==
  \A k \in Connector, c \in Client : \A i \in DOMAIN link[k] :
    link[k][i].client = c => \E j \in DOMAIN link[k] : LastWord(k, c, j)

\* What the queues satisfy, however many workers there are.
Truthful == TypeOK /\ OnlineIsTrue /\ LastWordExists

IInv == Truthful /\ NoStaleOnline

(***************************************************************************)
(* What the three ways to change a queue do to the last words.             *)
(***************************************************************************)

\* A report keeps the types and adds one notice at the end of one queue.
LEMMA ReportAppends ==
  ASSUME TypeOK, NEW k \in Connector, NEW c \in Client, NEW b \in BOOLEAN, Report(k, c, b)
  PROVE  /\ link' \in [Connector -> Seq(Notices)]
         /\ \A j \in Connector : Len(link'[j]) <= MaxQueue
         /\ unheard' \in [Connector -> SUBSET Client]
         /\ link' = [link EXCEPT ![k] = Append(link[k], Notice(c, b))]
<1>1. Notice(c, b) \in Notices
  BY DEF Notice, Notices
<1>2. link[k] \in Seq(Notices) /\ link' = [link EXCEPT ![k] = Append(link[k], Notice(c, b))]
  BY DEF TypeOK, Report
<1>3. \A j \in Connector : Len(link'[j]) <= MaxQueue
  BY <1>1, <1>2, MaxQueueAssumption DEF TypeOK, Report
<1>4. QED BY <1>1, <1>2, <1>3 DEF TypeOK, Report

\* After a report its notice is the last word on its client, and no other last
\* word has changed.
LEMMA ReportLastWords ==
  ASSUME TypeOK, NEW k \in Connector, NEW c \in Client, NEW b \in BOOLEAN, Report(k, c, b)
  PROVE  /\ \E i \in DOMAIN link'[k] : LastWord(k, c, i)'
         /\ \A i \in DOMAIN link'[k] : LastWord(k, c, i)' => link'[k][i].is_online = b
         /\ \A j \in Connector, d \in Client : j # k \/ d # c =>
              /\ \A i \in DOMAIN link'[j] : LastWord(j, d, i)' =>
                   LastWord(j, d, i) /\ link'[j][i] = link[j][i]
              /\ \A i \in DOMAIN link[j] : LastWord(j, d, i) =>
                   LastWord(j, d, i)' /\ link'[j][i] = link[j][i]
<1> DEFINE n == Notice(c, b)
<1>1. n.client = c /\ n.is_online = b /\ n \in Notices
  BY DEF Notice, Notices
<1>2. /\ link[k] \in Seq(Notices)
      /\ link'[k] = Append(link[k], n)
      /\ \A j \in Connector \ {k} : link'[j] = link[j]
  BY ReportAppends DEF TypeOK
<1> HIDE DEF n
<1>3. /\ DOMAIN link'[k] = 1 .. Len(link[k]) + 1
      /\ DOMAIN link[k] = 1 .. Len(link[k])
      /\ Len(link[k]) \in Nat
      /\ link'[k][Len(link[k]) + 1] = n
      /\ \A i \in DOMAIN link[k] : link'[k][i] = link[k][i]
  BY <1>1, <1>2
<1>4. ASSUME NEW m, m = Len(link[k]) + 1
      PROVE  m \in DOMAIN link'[k] /\ LastWord(k, c, m)'
  BY <1>1, <1>3, <1>4 DEF LastWord
<1>5. \A i \in DOMAIN link'[k] : LastWord(k, c, i)' => i = Len(link[k]) + 1
  BY <1>1, <1>3 DEF LastWord
<1>6. ASSUME NEW d \in Client, d # c, NEW i \in DOMAIN link'[k], LastWord(k, d, i)'
      PROVE  LastWord(k, d, i) /\ link'[k][i] = link[k][i]
  BY <1>1, <1>3, <1>6 DEF LastWord
<1>7. ASSUME NEW d \in Client, d # c, NEW i \in DOMAIN link[k], LastWord(k, d, i)
      PROVE  LastWord(k, d, i)' /\ link'[k][i] = link[k][i]
  BY <1>1, <1>3, <1>7 DEF LastWord
<1>8. ASSUME NEW j \in Connector \ {k}, NEW d \in Client, NEW i
      PROVE  LastWord(j, d, i)' <=> LastWord(j, d, i)
  BY <1>2 DEF LastWord
<1>9. QED BY <1>1, <1>2, <1>3, <1>4, <1>5, <1>6, <1>7, <1>8

\* A report that tells the truth about the client keeps the queues truthful.
LEMMA ReportTruthful ==
  ASSUME Truthful, NEW k \in Connector, NEW c \in Client, NEW b \in BOOLEAN, Report(k, c, b),
         bound' \in [Connector -> SUBSET Client],
         where' \in [Worker -> [Client -> Connector \cup {None}]],
         b => c \in bound'[k],
         \A j \in Connector, d \in Client : j # k \/ d # c => (d \in bound[j] <=> d \in bound'[j])
  PROVE  Truthful'
<1>1. TypeOK /\ OnlineIsTrue /\ LastWordExists
  BY DEF Truthful
<1>2. TypeOK'
  BY <1>1, ReportAppends DEF TypeOK
<1>3. OnlineIsTrue'
  <2> SUFFICES ASSUME NEW j \in Connector, NEW d \in Client, NEW i \in DOMAIN link'[j],
                      LastWord(j, d, i)', link'[j][i].is_online
               PROVE  d \in bound'[j]
    BY DEF OnlineIsTrue
  <2>1. CASE j = k /\ d = c
    BY <1>1, <2>1, ReportLastWords
  <2>2. CASE j # k \/ d # c
    <3>1. LastWord(j, d, i) /\ link'[j][i] = link[j][i]
      BY <1>1, <2>2, ReportLastWords
    <3>2. d \in bound[j]
      BY <1>1, <3>1 DEF OnlineIsTrue, LastWord
    <3>3. QED BY <2>2, <3>2
  <2>3. QED BY <2>1, <2>2
<1>4. LastWordExists'
  <2> SUFFICES ASSUME NEW j \in Connector, NEW d \in Client, NEW i \in DOMAIN link'[j],
                      link'[j][i].client = d
               PROVE  \E m \in DOMAIN link'[j] : LastWord(j, d, m)'
    BY DEF LastWordExists
  <2>1. CASE j = k /\ d = c
    BY <1>1, <2>1, ReportLastWords DEF LastWord
  <2>2. CASE j # k \/ d # c
    <3>1. i \in DOMAIN link[j] /\ link[j][i].client = d
      <4>1. CASE j # k
        BY <1>1, <4>1, ReportAppends DEF TypeOK
      <4>2. CASE j = k /\ d # c
        <5>1. link[k] \in Seq(Notices) /\ link'[k] = Append(link[k], Notice(c, b))
          BY <1>1, ReportAppends DEF TypeOK
        <5>2. Notice(c, b) \in Notices /\ Notice(c, b).client = c
          BY DEF Notice, Notices
        <5>3. QED BY <4>2, <5>1, <5>2
      <4>3. QED BY <2>2, <4>1, <4>2
    <3>2. PICK m \in DOMAIN link[j] : LastWord(j, d, m)
      BY <1>1, <3>1 DEF LastWordExists
    <3>3. LastWord(j, d, m)'
      BY <1>1, <2>2, <3>2, ReportLastWords
    <3>4. QED BY <3>3 DEF LastWord
  <2>3. QED BY <2>1, <2>2
<1>5. QED BY <1>2, <1>3, <1>4 DEF Truthful

\* It also keeps the workers' tables correctable, if the status it reports is
\* the one the client has from then on, or the client stays.
LEMMA ReportCorrects ==
  ASSUME IInv, NEW k \in Connector, NEW c \in Client, NEW b \in BOOLEAN, Report(k, c, b),
         UNCHANGED where,
         b => c \in bound'[k],
         \A j \in Connector, d \in Client : j # k \/ d # c => (d \in bound[j] <=> d \in bound'[j])
  PROVE  NoStaleOnline'
<1>1. TypeOK /\ NoStaleOnline
  BY DEF IInv, Truthful
<1> SUFFICES ASSUME NEW w \in Worker, NEW j \in Connector, NEW d \in Client,
                    where'[w][d] = j, d \notin bound'[j], d \notin unheard'[j]
             PROVE  \E i \in DOMAIN link'[j] : LastWord(j, d, i)' /\ ~ link'[j][i].is_online
  BY DEF NoStaleOnline
<1>2. CASE j = k /\ d = c
  BY <1>1, <1>2, ReportLastWords
<1>3. CASE j # k \/ d # c
  <2>1. d \notin bound[j] /\ d \notin unheard[j] /\ where[w][d] = j
    BY <1>1, <1>3 DEF Report, TypeOK
  <2>2. PICK i \in DOMAIN link[j] : LastWord(j, d, i) /\ ~ link[j][i].is_online
    BY <1>1, <2>1 DEF NoStaleOnline
  <2>3. LastWord(j, d, i)' /\ link'[j][i] = link[j][i]
    BY <1>1, <1>3, <2>2, ReportLastWords
  <2>4. QED BY <2>2, <2>3 DEF LastWord
<1>4. QED BY <1>2, <1>3

\* Losing a queue, with whatever else is lost, keeps the rest truthful.
LEMMA LossTruthful ==
  ASSUME Truthful, NEW k \in Connector, NEW gone \in SUBSET Client,
         link' = [link EXCEPT ![k] = <<>>],
         bound' = [bound EXCEPT ![k] = @ \ gone],
         unheard' \in [Connector -> SUBSET Client],
         UNCHANGED where
  PROVE  /\ Truthful'
         /\ \A j \in Connector, d \in Client : \A i :
              LastWord(j, d, i)' <=> j # k /\ LastWord(j, d, i)
<1>1. TypeOK /\ OnlineIsTrue /\ LastWordExists
  BY DEF Truthful
<1>2. /\ link'[k] = <<>> /\ DOMAIN link'[k] = {}
      /\ \A j \in Connector \ {k} : link'[j] = link[j] /\ bound'[j] = bound[j]
  BY <1>1 DEF TypeOK
<1>3. TypeOK'
  <2>1. link' \in [Connector -> Seq(Notices)] /\ \A j \in Connector : Len(link'[j]) <= MaxQueue
    BY <1>1, MaxQueueAssumption DEF TypeOK
  <2>2. QED BY <1>1, <2>1 DEF TypeOK
<1>4. ASSUME NEW j \in Connector, NEW d \in Client, NEW i
      PROVE  LastWord(j, d, i)' <=> j # k /\ LastWord(j, d, i)
  BY <1>2 DEF LastWord
<1>5. OnlineIsTrue' /\ LastWordExists'
  BY <1>1, <1>2, <1>4 DEF OnlineIsTrue, LastWordExists
<1>6. QED BY <1>3, <1>4, <1>5 DEF Truthful

\* With its clients and those it was about marked unheard, the loss of a queue
\* leaves no wrong entry that counts.
LEMMA LossCorrects ==
  ASSUME IInv, NEW k \in Connector, NEW gone \in SUBSET Client,
         link' = [link EXCEPT ![k] = <<>>],
         bound' = [bound EXCEPT ![k] = @ \ gone],
         unheard' = [unheard EXCEPT ![k] = @ \cup gone \cup UnderWay(k)],
         UNCHANGED where
  PROVE  Truthful' /\ NoStaleOnline'
<1>1. TypeOK /\ NoStaleOnline /\ Truthful
  BY DEF IInv, Truthful
<1>2. /\ \A i \in DOMAIN link[k] : link[k][i].client \in UnderWay(k)
      /\ UnderWay(k) \in SUBSET Client
  <2>1. \A i \in DOMAIN link[k] : link[k][i] \in Notices
    BY <1>1 DEF TypeOK
  <2>2. UnderWay(k) = {link[k][i].client : i \in DOMAIN link[k]}
    BY DEF UnderWay, ToSet
  <2>3. QED BY <2>1, <2>2 DEF Notices
<1>3. unheard' \in [Connector -> SUBSET Client]
  BY <1>1, <1>2 DEF TypeOK
<1>4. /\ \A j \in Connector \ {k} :
           link'[j] = link[j] /\ bound'[j] = bound[j] /\ unheard'[j] = unheard[j]
      /\ bound'[k] = bound[k] \ gone /\ unheard'[k] = unheard[k] \cup gone \cup UnderWay(k)
  BY <1>1 DEF TypeOK
<1>5. ASSUME NEW w \in Worker, NEW j \in Connector, NEW d \in Client,
             where'[w][d] = j, d \notin bound'[j], d \notin unheard'[j]
      PROVE  \E i \in DOMAIN link'[j] : LastWord(j, d, i)' /\ ~ link'[j][i].is_online
  <2>1. d \notin bound[j] /\ d \notin unheard[j] /\ (j = k => d \notin UnderWay(k))
    BY <1>4, <1>5
  <2>2. PICK i \in DOMAIN link[j] : LastWord(j, d, i) /\ ~ link[j][i].is_online
    BY <1>1, <1>5, <2>1 DEF NoStaleOnline
  <2>3. j # k
    BY <1>2, <2>1, <2>2 DEF LastWord
  <2>4. LastWord(j, d, i)'
    BY <1>1, <1>3, <2>2, <2>3, LossTruthful
  <2>5. QED BY <1>4, <2>2, <2>3, <2>4
<1>6. Truthful'
  BY <1>1, <1>3, LossTruthful
<1>7. NoStaleOnline'
  BY <1>5 DEF NoStaleOnline
<1>8. QED BY <1>6, <1>7

\* Taking the first notice out of a queue moves the last words down by one.
LEMMA DeliverLastWords ==
  ASSUME TypeOK, NEW k \in Connector, link[k] # <<>>, link' = [link EXCEPT ![k] = Tail(@)]
  PROVE  /\ link' \in [Connector -> Seq(Notices)]
         /\ \A j \in Connector : Len(link'[j]) <= MaxQueue
         /\ \A j \in Connector \ {k} : link'[j] = link[j]
         /\ \A i \in DOMAIN link'[k] : i + 1 \in DOMAIN link[k] /\ link'[k][i] = link[k][i + 1]
         /\ \A i \in DOMAIN link[k] \ {1} : i - 1 \in DOMAIN link'[k] /\ link'[k][i - 1] = link[k][i]
<1>1. link[k] \in Seq(Notices) /\ Len(link[k]) <= MaxQueue
  BY DEF TypeOK
<1>2. link'[k] = Tail(link[k]) /\ \A j \in Connector \ {k} : link'[j] = link[j]
  BY DEF TypeOK
<1>3. link' \in [Connector -> Seq(Notices)]
  BY <1>1 DEF TypeOK
<1>4. \A j \in Connector : Len(link'[j]) <= MaxQueue
  BY <1>1, <1>2, MaxQueueAssumption DEF TypeOK
<1>5. QED BY <1>1, <1>2, <1>3, <1>4

\* Whatever becomes of the notice taken out, the rest of the queue stays truthful.
LEMMA HandoverTruthful ==
  ASSUME Truthful, NEW k \in Connector, link[k] # <<>>, link' = [link EXCEPT ![k] = Tail(@)],
         unheard' \in [Connector -> SUBSET Client],
         where' \in [Worker -> [Client -> Connector \cup {None}]],
         UNCHANGED bound
  PROVE  /\ Truthful'
         /\ \A j \in Connector, d \in Client : \A i :
              LastWord(j, d, i)' <=>
                IF j = k THEN i \in DOMAIN link'[k] /\ LastWord(k, d, i + 1)
                         ELSE LastWord(j, d, i)
<1>1. TypeOK /\ OnlineIsTrue /\ LastWordExists
  BY DEF Truthful
<1>2. /\ link' \in [Connector -> Seq(Notices)]
      /\ \A j \in Connector : Len(link'[j]) <= MaxQueue
      /\ \A j \in Connector \ {k} : link'[j] = link[j]
      /\ \A i \in DOMAIN link'[k] : i + 1 \in DOMAIN link[k] /\ link'[k][i] = link[k][i + 1]
      /\ \A i \in DOMAIN link[k] \ {1} : i - 1 \in DOMAIN link'[k] /\ link'[k][i - 1] = link[k][i]
  BY <1>1, DeliverLastWords
<1>3. /\ link[k] \in Seq(Notices) /\ link'[k] \in Seq(Notices)
      /\ DOMAIN link[k] \subseteq Nat \ {0} /\ DOMAIN link'[k] \subseteq Nat \ {0}
  BY <1>1, <1>2 DEF TypeOK
<1>4. ASSUME NEW d \in Client, NEW i
      PROVE  LastWord(k, d, i)' <=> i \in DOMAIN link'[k] /\ LastWord(k, d, i + 1)
  <2>1. ASSUME LastWord(k, d, i)'
        PROVE  i \in DOMAIN link'[k] /\ LastWord(k, d, i + 1)
    <3>1. /\ i \in DOMAIN link'[k] /\ link'[k][i].client = d /\ i \in Nat
          /\ \A m \in DOMAIN link'[k] : m > i => link'[k][m].client # d
      BY <1>3, <2>1 DEF LastWord
    <3>2. i + 1 \in DOMAIN link[k] /\ link[k][i + 1].client = d
      BY <1>2, <3>1
    <3>3. ASSUME NEW m \in DOMAIN link[k], m > i + 1
          PROVE  link[k][m].client # d
      <4>1. m \in Nat /\ m # 1 /\ m - 1 > i
        BY <1>3, <3>1, <3>3
      <4>2. m - 1 \in DOMAIN link'[k] /\ link'[k][m - 1] = link[k][m]
        BY <1>2, <4>1
      <4>3. QED BY <3>1, <4>1, <4>2
    <3>4. QED BY <3>1, <3>2, <3>3 DEF LastWord
  <2>2. ASSUME i \in DOMAIN link'[k], LastWord(k, d, i + 1)
        PROVE  LastWord(k, d, i)'
    BY <1>2, <1>3, <2>2 DEF LastWord
  <2>3. QED BY <2>1, <2>2
<1>5. ASSUME NEW j \in Connector \ {k}, NEW d \in Client, NEW i
      PROVE  LastWord(j, d, i)' <=> LastWord(j, d, i)
  BY <1>2 DEF LastWord
<1>6. TypeOK'
  BY <1>1, <1>2 DEF TypeOK
<1>7. OnlineIsTrue'
  BY <1>1, <1>2, <1>4, <1>5 DEF OnlineIsTrue
<1>8. LastWordExists'
  <2> SUFFICES ASSUME NEW j \in Connector, NEW d \in Client, NEW i \in DOMAIN link'[j],
                      link'[j][i].client = d
               PROVE  \E m \in DOMAIN link'[j] : LastWord(j, d, m)'
    BY DEF LastWordExists
  <2>1. CASE j = k
    <3>1. PICK m \in DOMAIN link[k] : LastWord(k, d, m)
      BY <1>1, <1>2, <2>1 DEF LastWordExists
    <3>2. m # 1
      BY <1>2, <1>3, <2>1, <3>1 DEF LastWord
    <3>3. m - 1 \in DOMAIN link'[k] /\ (m - 1) + 1 = m
      BY <1>2, <1>3, <3>2
    <3>4. PICK q \in DOMAIN link'[k] : q + 1 = m
      BY <3>3
    <3>5. LastWord(k, d, q)'
      BY <1>4, <3>1, <3>4
    <3>6. QED BY <2>1, <3>5
  <2>2. CASE j # k
    BY <1>1, <1>2, <1>5, <2>2 DEF LastWordExists
  <2>3. QED BY <2>1, <2>2
<1>9. QED BY <1>4, <1>5, <1>6, <1>7, <1>8 DEF Truthful

\* The same for a notice that a worker handles and for one the proxy drops.
LEMMA DeliverTypes ==
  ASSUME TypeOK, NEW k \in Connector, NEW w \in Worker, Deliver(k, w)
  PROVE  where' \in [Worker -> [Client -> Connector \cup {None}]]
<1>1. NextNotice(k) \in Notices
  BY DEF NextNotice, Deliver, TypeOK
<1>2. NextNotice(k).client \in Client /\ Updated(w, k, NextNotice(k)) \in Connector \cup {None}
  BY <1>1 DEF Notices, Updated
<1>3. QED BY <1>2 DEF Deliver, TypeOK

LEMMA DeliverTruthful ==
  ASSUME Truthful, NEW k \in Connector, NEW w \in Worker, Deliver(k, w)
  PROVE  /\ Truthful'
         /\ \A j \in Connector, d \in Client : \A i :
              LastWord(j, d, i)' <=>
                IF j = k THEN i \in DOMAIN link'[k] /\ LastWord(k, d, i + 1)
                         ELSE LastWord(j, d, i)
<1>1. TypeOK
  BY DEF Truthful
<1>2. where' \in [Worker -> [Client -> Connector \cup {None}]]
  BY <1>1, DeliverTypes
<1>3. link[k] # <<>> /\ link' = [link EXCEPT ![k] = Tail(@)] /\ UNCHANGED <<bound, unheard>>
  BY DEF Deliver
<1>4. unheard' \in [Connector -> SUBSET Client]
  BY <1>1, <1>3 DEF TypeOK
<1>5. QED BY <1>2, <1>3, <1>4, HandoverTruthful

LEMMA DropTruthful ==
  ASSUME Truthful, NEW k \in Connector, DropNotice(k)
  PROVE  /\ Truthful'
         /\ \A j \in Connector, d \in Client : \A i :
              LastWord(j, d, i)' <=>
                IF j = k THEN i \in DOMAIN link'[k] /\ LastWord(k, d, i + 1)
                         ELSE LastWord(j, d, i)
<1>1. TypeOK /\ link[k] # <<>> /\ link' = [link EXCEPT ![k] = Tail(@)] /\ UNCHANGED <<bound, where>>
  BY DEF Truthful, DropNotice
<1>2. link[k] \in Seq(Notices) /\ Head(link[k]) \in Notices
  BY <1>1 DEF TypeOK
<1>3. Head(link[k]).client \in Client
  BY <1>2 DEF Notices
<1>4. unheard' \in [Connector -> SUBSET Client]
  BY <1>1, <1>3 DEF DropNotice, TypeOK
<1>5. where' \in [Worker -> [Client -> Connector \cup {None}]]
  BY <1>1 DEF TypeOK
<1>6. QED BY <1>1, <1>4, <1>5, HandoverTruthful

\* A notice that is dropped marks its client unheard, unless a later one is left.
LEMMA DropCorrects ==
  ASSUME IInv, NEW k \in Connector, DropNotice(k)
  PROVE  NoStaleOnline'
<1>1. TypeOK /\ LastWordExists /\ NoStaleOnline /\ Truthful
  BY DEF IInv, Truthful
<1>2. /\ link[k] # <<>> /\ link' = [link EXCEPT ![k] = Tail(@)] /\ UNCHANGED <<bound, where>>
      /\ unheard' = [unheard EXCEPT ![k] =
                       @ \cup ({Head(link[k]).client} \ {n.client : n \in ToSet(link'[k])})]
  BY DEF DropNotice
<1>3. /\ \A j \in Connector \ {k} : link'[j] = link[j]
      /\ \A i \in DOMAIN link[k] \ {1} : i - 1 \in DOMAIN link'[k] /\ link'[k][i - 1] = link[k][i]
  BY <1>1, <1>2, DeliverLastWords
<1>4. /\ link[k] \in Seq(Notices) /\ link'[k] \in Seq(Notices)
      /\ DOMAIN link[k] \subseteq Nat \ {0} /\ 1 \in DOMAIN link[k] /\ Head(link[k]) = link[k][1]
  BY <1>1, <1>2 DEF TypeOK
<1> SUFFICES ASSUME NEW w \in Worker, NEW j \in Connector, NEW d \in Client,
                    where[w][d] = j, d \notin bound[j], d \notin unheard'[j]
             PROVE  \E i \in DOMAIN link'[j] : LastWord(j, d, i)' /\ ~ link'[j][i].is_online
  BY <1>2 DEF NoStaleOnline
<1>5. d \notin unheard[j]
  BY <1>1, <1>2 DEF TypeOK
<1>6. PICK i \in DOMAIN link[j] : LastWord(j, d, i) /\ ~ link[j][i].is_online
  BY <1>1, <1>5 DEF NoStaleOnline
<1>7. CASE j # k
  <2>1. LastWord(j, d, i)'
    BY <1>1, <1>6, <1>7, DropTruthful
  <2>2. QED BY <1>3, <1>6, <1>7, <2>1
<1>8. CASE j = k
  <2>1. i # 1
    <3>1. SUFFICES ASSUME i = 1 PROVE FALSE
      OBVIOUS
    <3>2. d = Head(link[k]).client /\ \A m \in DOMAIN link[k] : m > 1 => link[k][m].client # d
      BY <1>4, <1>6, <1>8, <3>1 DEF LastWord
    <3>3. d \in {n.client : n \in ToSet(link'[k])}
      BY <1>1, <1>2, <1>8, <3>2 DEF TypeOK
    <3>4. PICK q \in DOMAIN link'[k] : link'[k][q].client = d
      BY <3>3 DEF ToSet
    <3>5. q + 1 \in DOMAIN link[k] /\ link'[k][q] = link[k][q + 1]
      BY <1>1, <1>2, <3>4, DeliverLastWords
    <3>6. q + 1 > 1
      BY <1>4, <3>4
    <3>7. QED BY <3>2, <3>4, <3>5, <3>6
  <2>2. PICK q \in DOMAIN link'[k] : q + 1 = i /\ link'[k][q] = link[k][i]
    <3>1. i \in Nat /\ (i - 1) + 1 = i
      BY <1>4, <1>6, <1>8
    <3>2. i - 1 \in DOMAIN link'[k] /\ link'[k][i - 1] = link[k][i]
      BY <1>3, <1>6, <1>8, <2>1
    <3>3. QED BY <3>1, <3>2
  <2>3. LastWord(k, d, q)'
    BY <1>1, <1>6, <1>8, <2>2, DropTruthful
  <2>4. QED BY <1>6, <1>8, <2>2, <2>3
<1>9. QED BY <1>7, <1>8

\* With a single worker the notice it handles corrects the only table.
LEMMA DeliverCorrects ==
  ASSUME IInv, NEW k \in Connector, NEW w \in Worker, Deliver(k, w), Worker = {w}
  PROVE  NoStaleOnline'
<1>1. TypeOK /\ OnlineIsTrue /\ LastWordExists /\ NoStaleOnline /\ Truthful
  BY DEF IInv, Truthful
<1> DEFINE n == NextNotice(k)
<1>2. /\ link[k] \in Seq(Notices) /\ 1 \in DOMAIN link[k] /\ n = link[k][1]
      /\ DOMAIN link[k] \subseteq Nat \ {0}
  BY <1>1 DEF TypeOK, Deliver, NextNotice
<1>3. n.client \in Client /\ n.is_online \in BOOLEAN
  <2>1. n \in Notices
    BY <1>2
  <2>2. QED BY <2>1 DEF Notices
<1>4. /\ bound' = bound /\ unheard' = unheard
      /\ where'[w][n.client] = IF n.is_online THEN k ELSE None
      /\ \A d \in Client \ {n.client} : where'[w][d] = where[w][d]
  BY <1>1, <1>3 DEF Deliver, TypeOK, Updated
<1> HIDE DEF n
<1>5. /\ \A j \in Connector \ {k} : link'[j] = link[j]
      /\ \A i \in DOMAIN link[k] \ {1} : i - 1 \in DOMAIN link'[k] /\ link'[k][i - 1] = link[k][i]
  BY <1>1, DeliverLastWords DEF Deliver
<1> SUFFICES ASSUME NEW j \in Connector, NEW d \in Client,
                    where'[w][d] = j, d \notin bound[j], d \notin unheard[j]
             PROVE  \E i \in DOMAIN link'[j] : LastWord(j, d, i)' /\ ~ link'[j][i].is_online
  BY <1>4 DEF NoStaleOnline
<1>6. ASSUME NEW i \in DOMAIN link[k] \ {1}, LastWord(k, d, i), ~ link[k][i].is_online, j = k
      PROVE  \E q \in DOMAIN link'[j] : LastWord(j, d, q)' /\ ~ link'[j][q].is_online
  <2>1. PICK q \in DOMAIN link'[k] : q + 1 = i /\ link'[k][q] = link[k][i]
    <3>1. i \in Nat /\ (i - 1) + 1 = i
      BY <1>2, <1>6
    <3>2. i - 1 \in DOMAIN link'[k] /\ link'[k][i - 1] = link[k][i]
      BY <1>5, <1>6
    <3>3. QED BY <3>1, <3>2
  <2>2. LastWord(k, d, q)'
    BY <1>1, <1>6, <2>1, DeliverTruthful
  <2>3. QED BY <1>6, <2>1, <2>2
<1>7. CASE d = n.client
  <2>1. j = k /\ n.is_online
    BY <1>4, <1>7, NoneAssumption
  <2>2. PICK i \in DOMAIN link[k] : LastWord(k, d, i)
    BY <1>1, <1>2, <1>7 DEF LastWordExists
  <2>3. ~ link[k][i].is_online
    BY <1>1, <2>1, <2>2 DEF OnlineIsTrue
  <2>4. i # 1
    BY <1>2, <2>1, <2>3
  <2>5. QED BY <1>6, <2>1, <2>2, <2>3, <2>4
<1>8. CASE d # n.client
  <2>1. PICK i \in DOMAIN link[j] : LastWord(j, d, i) /\ ~ link[j][i].is_online
    BY <1>1, <1>4, <1>8 DEF NoStaleOnline
  <2>2. CASE j = k
    <3>1. i # 1
      BY <1>2, <1>8, <2>1, <2>2 DEF LastWord
    <3>2. QED BY <1>6, <2>1, <2>2, <3>1
  <2>3. CASE j # k
    <3>1. LastWord(j, d, i)'
      BY <1>1, <2>1, <2>3, DeliverTruthful
    <3>2. QED BY <1>5, <2>1, <2>3, <3>1
  <2>4. QED BY <2>2, <2>3
<1>9. QED BY <1>7, <1>8

(***************************************************************************)
(* The inductive invariants.                                               *)
(***************************************************************************)

\* No notice is under way and nobody is placed anywhere at the start.
LEMMA InitIInv == Init => IInv
<1> SUFFICES ASSUME Init PROVE IInv
  OBVIOUS
<1>1. \A k \in Connector : DOMAIN link[k] = {}
  BY DEF Init
<1>2. TypeOK
  BY MaxQueueAssumption DEF Init, TypeOK
<1>3. OnlineIsTrue /\ LastWordExists
  BY <1>1 DEF OnlineIsTrue, LastWordExists
<1>4. NoStaleOnline
  BY NoneAssumption DEF Init, NoStaleOnline
<1>5. QED BY <1>2, <1>3, <1>4 DEF IInv, Truthful

\* Every step keeps the queues truthful, however many workers there are: one
\* step per action.
LEMMA NextTruthful == Truthful /\ [Next]_vars => Truthful'
<1> SUFFICES ASSUME Truthful, [Next]_vars PROVE Truthful'
  OBVIOUS
<1>1. TypeOK
  BY DEF Truthful
<1>2. ASSUME NEW k \in Connector, NEW c \in Client, LogIn(k, c) PROVE Truthful'
  BY <1>1, <1>2, ReportTruthful DEF LogIn, TypeOK
<1>3. ASSUME NEW k \in Connector, NEW c \in Client, LogOut(k, c) PROVE Truthful'
  BY <1>1, <1>3, ReportTruthful DEF LogOut, TypeOK
<1>4. ASSUME NEW k \in Connector, NEW c \in Client, CloseSecond(k, c) PROVE Truthful'
  BY <1>1, <1>4, ReportTruthful DEF CloseSecond, TypeOK
<1>5. ASSUME NEW k \in Connector PROVE UnderWay(k) \in SUBSET Client
  <2>1. \A i \in DOMAIN link[k] : link[k][i] \in Notices
    BY <1>1 DEF TypeOK
  <2>2. QED BY <2>1 DEF UnderWay, ToSet, Notices
<1>6. ASSUME NEW k \in Connector, Restart(k) PROVE Truthful'
  <2>1. bound[k] \in SUBSET Client /\ bound' = [bound EXCEPT ![k] = @ \ bound[k]]
    BY <1>1, <1>6 DEF Restart, TypeOK
  <2>2. QED BY <1>1, <1>5, <1>6, <2>1, LossTruthful DEF Restart, TypeOK
<1>7. ASSUME NEW k \in Connector, LoseNotices(k) PROVE Truthful'
  <2>1. {} \in SUBSET Client /\ bound' = [bound EXCEPT ![k] = @ \ {}]
    BY <1>1, <1>7 DEF LoseNotices, TypeOK
  <2>2. /\ unheard' \in [Connector -> SUBSET Client]
        /\ link' = [link EXCEPT ![k] = <<>>] /\ where' = where
    BY <1>1, <1>5, <1>7 DEF LoseNotices, TypeOK
  <2>3. QED BY <2>1, <2>2, LossTruthful
<1>8. ASSUME NEW k \in Connector, Handover(k) PROVE Truthful'
  BY <1>8, DeliverTruthful, DropTruthful DEF Handover
<1>9. CASE UNCHANGED vars
  BY <1>9 DEF vars, Truthful, TypeOK, OnlineIsTrue, LastWordExists, LastWord
<1>10. QED
  BY <1>2, <1>3, <1>4, <1>6, <1>7, <1>8, <1>9 DEF Next, ClientEvent

\* Every step leaves the wrong entries of the only worker correctable.
LEMMA NextIInv ==
  ASSUME NEW w, Worker = {w}
  PROVE  IInv /\ [Next]_vars => IInv'
<1> SUFFICES ASSUME IInv, [Next]_vars PROVE IInv'
  OBVIOUS
<1>1. TypeOK /\ Truthful
  BY DEF IInv, Truthful
<1>2. Truthful'
  BY <1>1, NextTruthful
<1>3. ASSUME NEW k \in Connector, NEW c \in Client, LogIn(k, c) PROVE NoStaleOnline'
  <2>1. /\ Report(k, c, TRUE) /\ where' = where /\ TRUE \in BOOLEAN
        /\ TRUE => c \in bound'[k]
        /\ \A j \in Connector, d \in Client : j # k \/ d # c => (d \in bound[j] <=> d \in bound'[j])
    BY <1>1, <1>3 DEF LogIn, TypeOK
  <2>2. QED BY <2>1, ReportCorrects
<1>4. ASSUME NEW k \in Connector, NEW c \in Client, LogOut(k, c) PROVE NoStaleOnline'
  <2>1. Report(k, c, FALSE) /\ where' = where
    BY <1>4 DEF LogOut
  <2>2. \A j \in Connector, d \in Client : j # k \/ d # c => (d \in bound[j] <=> d \in bound'[j])
    BY <1>1, <1>4 DEF LogOut, TypeOK
  <2>3. ASSUME NEW b \in BOOLEAN, b = FALSE PROVE NoStaleOnline'
    <3>1. Report(k, c, b) /\ (b => c \in bound'[k])
      BY <2>1, <2>3
    <3>2. QED BY <2>1, <2>2, <3>1, ReportCorrects
  <2>4. QED BY <2>3
<1>5. ASSUME NEW k \in Connector, NEW c \in Client, CloseSecond(k, c) PROVE NoStaleOnline'
  BY <1>5, ReportCorrects DEF CloseSecond
<1>6. ASSUME NEW k \in Connector, Restart(k) PROVE NoStaleOnline'
  <2>1. bound[k] \in SUBSET Client /\ bound' = [bound EXCEPT ![k] = @ \ bound[k]]
    BY <1>1, <1>6 DEF Restart, TypeOK
  <2>2. /\ unheard' = [unheard EXCEPT ![k] = @ \cup bound[k] \cup UnderWay(k)]
        /\ link' = [link EXCEPT ![k] = <<>>] /\ where' = where
    BY <1>1, <1>6 DEF Restart, TypeOK
  <2>3. QED BY <2>1, <2>2, LossCorrects
<1>7. ASSUME NEW k \in Connector, LoseNotices(k) PROVE NoStaleOnline'
  <2>1. {} \in SUBSET Client /\ bound' = [bound EXCEPT ![k] = @ \ {}]
    BY <1>1, <1>7 DEF LoseNotices, TypeOK
  <2>2. /\ unheard' = [unheard EXCEPT ![k] = @ \cup {} \cup UnderWay(k)]
        /\ link' = [link EXCEPT ![k] = <<>>] /\ where' = where
    BY <1>1, <1>7 DEF LoseNotices, TypeOK
  <2>3. QED BY <2>1, <2>2, LossCorrects
<1>8. ASSUME NEW k \in Connector, Handover(k) PROVE NoStaleOnline'
  <2>1. DropNotice(k) \/ (w \in Worker /\ Deliver(k, w))
    BY <1>8 DEF Handover
  <2>2. QED BY <2>1, DeliverCorrects, DropCorrects
<1>9. ASSUME UNCHANGED vars PROVE NoStaleOnline'
  <2>1. NoStaleOnline
    BY DEF IInv
  <2>2. QED BY <1>9, <2>1 DEF vars, NoStaleOnline, LastWord
<1>10. NoStaleOnline'
  BY <1>3, <1>4, <1>5, <1>6, <1>7, <1>8, <1>9 DEF Next, ClientEvent
<1>11. QED BY <1>2, <1>10 DEF IInv

(***************************************************************************)
(* The theorems.                                                           *)
(***************************************************************************)

\* For any number of workers every variable keeps its type, and no queue holds
\* more notices than its bound.
THEOREM TypeCorrect == Spec => []TypeOK
<1>1. Truthful => TypeOK
  BY DEF Truthful
<1>2. Init => Truthful
  BY InitIInv DEF IInv
<1>3. QED BY <1>1, <1>2, NextTruthful, PTL DEF Spec

\* For any number of workers: an online notice that no later one about the
\* same client follows speaks of a client its connector can deliver to.
THEOREM OnlineIsTrueInvariant == Spec => []OnlineIsTrue
<1>1. Truthful => OnlineIsTrue
  BY DEF Truthful
<1>2. Init => Truthful
  BY InitIInv DEF IInv
<1>3. QED BY <1>1, <1>2, NextTruthful, PTL DEF Spec

\* A single worker that places a client where it cannot be reached is about to
\* hear so, unless the last word on that client was lost.
THEOREM NoStaleOnlineInvariant ==
  ASSUME NEW w, Worker = {w}
  PROVE  Spec => []NoStaleOnline
<1>1. IInv /\ [Next]_vars => IInv'
  BY NextIInv
<1>2. IInv => NoStaleOnline
  BY DEF IInv
<1>3. QED BY <1>1, <1>2, InitIInv, PTL DEF Spec
=============================================================================
