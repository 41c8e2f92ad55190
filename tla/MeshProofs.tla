----------------------------- MODULE MeshProofs -----------------------------
(***************************************************************************)
(* Theorems about Mesh, for any number of servers, proxies and failures:   *)
(* type correctness, and the one link a server keeps to each proxy.        *)
(***************************************************************************)
EXTENDS Mesh, FiniteSetTheorems, TLAPS

Links == [Server -> Seq(LinkInfo)]

\* A list of a finite set is a sequence of its members, each once.
LEMMA SetToSeqsType ==
  ASSUME NEW S, IsFiniteSet(S), NEW list \in SetToSeqs(S)
  PROVE  /\ list \in Seq(S)
         /\ \A i, j \in DOMAIN list : list[i] = list[j] => i = j
<1>1. Cardinality(S) \in Nat
  BY FS_CardinalityType
<1>2. /\ list \in [1 .. Cardinality(S) -> S]
      /\ \A i, j \in 1 .. Cardinality(S) : i # j => list[i] # list[j]
  BY DEF SetToSeqs
<1>3. QED BY <1>1, <1>2

\* Nothing is missing from it.
LEMMA SetToSeqsComplete ==
  ASSUME NEW S, IsFiniteSet(S), NEW list \in SetToSeqs(S)
  PROVE  S \subseteq ToSet(list)
<1> DEFINE D == 1 .. Cardinality(S)
<1>1. Cardinality(S) \in Nat
  BY FS_CardinalityType
<1>2. IsFiniteSet(D) /\ Cardinality(D) = Cardinality(S)
  BY <1>1, FS_Interval
<1>3. list \in [D -> S] /\ \A i, j \in D : i # j => list[i] # list[j]
  BY DEF SetToSeqs
<1>4. list \in Injection(D, S)
  BY <1>3 DEF Injection, IsInjective
<1>5. list \in Surjection(D, S)
  BY <1>2, <1>4, FS_Injection
<1>6. QED BY <1>3, <1>5 DEF Surjection, ToSet

\* The list of configured proxies is finite, and so is every part of it.
LEMMA FiniteProxies ==
  ASSUME NEW S \in SUBSET Proxy
  PROVE  IsFiniteSet(S)
  BY ProxyAssumption, FS_Subset

\* What NewConnect adds to a list.
LEMMA AddedLinks ==
  ASSUME NEW list \in Seq(LinkInfo), NEW tail \in Seq(LinkInfo)
  PROVE  /\ list \o tail \in Seq(LinkInfo)
         /\ Len(list \o tail) = Len(list) + Len(tail)
         /\ \A i \in 1 .. Len(list) : (list \o tail)[i] = list[i]
         /\ \A i \in Len(list) + 1 .. Len(list \o tail) :
              i - Len(list) \in 1 .. Len(tail) /\ (list \o tail)[i] = tail[i - Len(list)]
<1> DEFINE new == list \o tail
<1>1. new \in Seq(LinkInfo) /\ Len(new) = Len(list) + Len(tail)
  <2>1. \A S : \A a, b \in Seq(S) : a \o b \in Seq(S) /\ Len(a \o b) = Len(a) + Len(b)
    OBVIOUS
  <2>2. QED BY <2>1
<1>2. \A i \in 1 .. Len(list) : new[i] = list[i]
  OBVIOUS
<1>3. ASSUME NEW i \in Len(list) + 1 .. Len(new)
      PROVE  i - Len(list) \in 1 .. Len(tail) /\ new[i] = tail[i - Len(list)]
  <2>1. i - Len(list) \in 1 .. Len(tail) /\ i \in 1 .. Len(list) + Len(tail)
    BY <1>1
  <2>2. QED BY <2>1
<1>4. QED BY <1>1, <1>2, <1>3

(***************************************************************************)
(* The invariant.                                                          *)
(***************************************************************************)

\* A link bears, and is told, the id of its proxy or Zero; it bears Zero only if
\* the proxy registered the server before it knew its id.
Ids ==
  \A s \in Server : \A i \in DOMAIN links[s] :
    LET link == links[s][i]
    IN  /\ {link.id, link.reply} \subseteq {link.proxy, Zero}
        /\ link.id = Zero => <<s, link.proxy>> \in early

\* No two links of a server to a proxy, with the same exception.
Single ==
  \A s \in Server : \A i, j \in DOMAIN links[s] :
    links[s][i].proxy = links[s][j].proxy /\ i # j => <<s, links[s][i].proxy>> \in early

IInv == TypeOK /\ Ids /\ Single

LEMMA InitIInv == Init => IInv
  BY MaxFailuresAssumption DEF Init, IInv, TypeOK, Ids, Single, Node

LEMMA IInvSuffices == IInv => OneLinkEach
<1> SUFFICES ASSUME IInv, NEW s \in Server, NEW p \in Proxy, <<s, p>> \notin early
             PROVE  /\ \A i, j \in LinksTo(s, p) : i = j
                    /\ \A i \in LinksTo(s, p) : links[s][i].id = p
  BY DEF OneLinkEach
<1>1. \A i \in LinksTo(s, p) : i \in DOMAIN links[s] /\ links[s][i].proxy = p
  BY DEF LinksTo
<1>2. QED BY <1>1 DEF IInv, Ids, Single

\* A step that changes links in place, each as it may.
LEMMA InPlace ==
  ASSUME Ids, Single, early \subseteq early',
         \A s \in Server :
           /\ DOMAIN links'[s] = DOMAIN links[s]
           /\ \A i \in DOMAIN links[s] :
                /\ links'[s][i].proxy = links[s][i].proxy
                /\ links'[s][i].reply \in {links[s][i].proxy, Zero}
                /\ \/ links'[s][i].id = links[s][i].id
                   \/ /\ links'[s][i].id \in {links[s][i].proxy, Zero}
                      /\ links'[s][i].id = Zero => <<s, links[s][i].proxy>> \in early'
  PROVE  Ids' /\ Single'
<1>1. Ids'
  BY DEF Ids
<1>2. Single'
  BY DEF Single
<1>3. QED BY <1>1, <1>2

(***************************************************************************)
(* The steps.                                                              *)
(***************************************************************************)

\* The center's messages.
LEMMA ConfigReqIInv ==
  ASSUME IInv, NEW x \in Node, ConfigReq(x)
  PROVE  IInv'
<1> DEFINE Message == [config : BOOLEAN, proxies : Seq(Proxy)]
<1>1. PICK peers \in Peers(x), audience \in Audiences(x) :
        mail' = [y \in Node |->
          CASE y = x -> Append(mail[y], [config |-> TRUE, proxies |-> peers])
            [] y \in audience -> Append(mail[y], [config |-> FALSE, proxies |-> <<x>>])
            [] OTHER -> mail[y]]
  BY DEF ConfigReq
<1>2. peers \in Seq(Proxy)
  <2>1. CASE x \in Proxy
    BY <2>1 DEF Peers
  <2>2. CASE x \notin Proxy
    <3>1. peers \in SetToSeqs({p \in Proxy : center[p] = "known"})
      BY <2>2 DEF Peers
    <3>2. peers \in Seq({p \in Proxy : center[p] = "known"})
      BY <3>1, FiniteProxies, SetToSeqsType
    <3>3. QED BY <3>2
  <2>3. QED BY <2>1, <2>2
<1>3. ASSUME NEW y \in audience PROVE x \in Proxy /\ y # x
  BY <1>3, NodeAssumption DEF Audiences, Node
<1>4. /\ [config |-> TRUE, proxies |-> peers] \in Message
      /\ x \in Proxy => [config |-> FALSE, proxies |-> <<x>>] \in Message
  BY <1>2
<1>5. \A y \in Node : mail[y] \in Seq(Message)
  BY DEF IInv, TypeOK
<1> HIDE DEF Message
<1>6. \A y \in Node : mail'[y] \in Seq(Message)
  <2> TAKE y \in Node
  <2>1. CASE y = x
    <3>1. mail'[y] = Append(mail[y], [config |-> TRUE, proxies |-> peers])
      BY <1>1, <1>3, <2>1
    <3>2. QED BY <1>4, <1>5, <3>1
  <2>2. CASE y # x /\ y \in audience
    <3>1. mail'[y] = Append(mail[y], [config |-> FALSE, proxies |-> <<x>>])
      BY <1>1, <2>2
    <3>2. QED BY <1>3, <1>4, <1>5, <2>2, <3>1
  <2>3. CASE y # x /\ y \notin audience
    BY <1>1, <1>5, <2>3
  <2>4. QED BY <2>1, <2>2, <2>3
<1>7. mail' \in [Node -> Seq(Message)]
  <2>1. DOMAIN mail' = Node /\ mail' = [y \in DOMAIN mail' |-> mail'[y]]
    BY <1>1
  <2>2. QED BY <1>6, <2>1
<1>8. UNCHANGED <<proc, fresh, links, early, failures>> /\ center' \in [Node -> {"down", "asked", "known"}]
  BY DEF ConfigReq, IInv, TypeOK
<1>9. QED BY <1>7, <1>8 DEF IInv, TypeOK, Ids, Single, Message

\* The messages a process reads.
LEMMA ReadCenterIInv ==
  ASSUME IInv, NEW x \in Node, ReadCenter(x)
  PROVE  IInv'
<1>1. mail[x] \in Seq([config : BOOLEAN, proxies : Seq(Proxy)]) /\ mail[x] # <<>>
  BY DEF ReadCenter, IInv, TypeOK
<1>2. Head(mail[x]) \in [config : BOOLEAN, proxies : Seq(Proxy)]
  <2>1. \A S : \A q \in Seq(S) : q # <<>> => Head(q) \in S
    OBVIOUS
  <2>2. QED BY <1>1, <2>1
<1>3. Head(mail[x]).proxies \in Seq(Proxy)
  BY <1>2
<1>4. Tail(mail[x]) \in Seq([config : BOOLEAN, proxies : Seq(Proxy)])
  BY <1>1
<1>5. mail' \in [Node -> Seq([config : BOOLEAN, proxies : Seq(Proxy)])]
  BY <1>4 DEF ReadCenter, IInv, TypeOK
<1>6. \A t \in Server : fresh[t] \o Head(mail[x]).proxies \in Seq(Proxy)
  BY <1>3 DEF IInv, TypeOK
<1>7. fresh' \in [Server -> Seq(Proxy)]
  BY <1>6 DEF ReadCenter, IInv, TypeOK
<1>8. proc' \in [Node -> {"down", "starting", "configured", "running"}] /\ UNCHANGED <<center, links, early, failures>>
  BY DEF ReadCenter, IInv, TypeOK
<1>9. QED BY <1>5, <1>7, <1>8 DEF IInv, TypeOK, Ids, Single

\* The addresses a server dials.
LEMMA NewConnectIInv ==
  ASSUME IInv, NEW s \in Server, NewConnect(s)
  PROVE  IInv'
<1>1. PICK added \in SetToSeqs(Missing(s)) :
        links' = [links EXCEPT ![s] = @ \o [i \in DOMAIN added |-> NewLink(added[i])]]
  BY DEF NewConnect
<1>2. links \in Links /\ fresh \in [Server -> Seq(Proxy)]
  BY DEF IInv, TypeOK, Links
<1>3. Missing(s) \in SUBSET Proxy
  BY <1>2 DEF Missing, ToSet
<1>4. added \in Seq(Missing(s)) /\ \A i, j \in DOMAIN added : added[i] = added[j] => i = j
  BY <1>3, FiniteProxies, SetToSeqsType
<1>5. added \in Seq(Proxy)
  BY <1>3, <1>4
<1>6. \A i \in DOMAIN added : added[i] \in Missing(s)
  BY <1>4
<1> DEFINE old == links[s]
           tail == [i \in DOMAIN added |-> NewLink(added[i])]
           new == old \o tail
<1>7. old \in Seq(LinkInfo)
  BY <1>2 DEF Links
<1>8. /\ new \in Seq(LinkInfo)
      /\ Len(new) = Len(old) + Len(added)
      /\ \A i \in 1 .. Len(old) : new[i] = old[i]
      /\ \A i \in Len(old) + 1 .. Len(new) :
           i - Len(old) \in DOMAIN added /\ new[i] = NewLink(added[i - Len(old)])
  <2>1. \A q \in Proxy : NewLink(q) \in LinkInfo
    BY DEF NewLink, LinkInfo
  <2>2. tail \in Seq(LinkInfo) /\ Len(tail) = Len(added) /\ DOMAIN added = 1 .. Len(added)
    BY <1>5, <2>1
  <2>3. \A i \in DOMAIN added : tail[i] = NewLink(added[i])
    OBVIOUS
  <2> HIDE DEF old, tail
  <2>4. QED BY <1>7, <2>2, <2>3, AddedLinks
<1>9. links' = [links EXCEPT ![s] = new]
  BY <1>1
<1> HIDE DEF new
<1>10. UNCHANGED <<proc, center, mail, early, failures>> /\ fresh' \in [Server -> Seq(Proxy)]
  BY <1>2 DEF NewConnect
<1>11. links' \in Links
  BY <1>2, <1>8, <1>9 DEF Links
<1>12. TypeOK'
  BY <1>10, <1>11 DEF IInv, TypeOK, Links
<1>13. /\ links'[s] = new /\ DOMAIN new = 1 .. Len(new) /\ DOMAIN old = 1 .. Len(old)
       /\ \A t \in Server \ {s} : links'[t] = links[t]
  BY <1>2, <1>7, <1>8, <1>9 DEF Links
<1>14. \A i \in DOMAIN new : i \in DOMAIN old \/ i \in Len(old) + 1 .. Len(new)
  BY <1>7, <1>8, <1>13
<1>15. Ids'
  <2>1. ASSUME NEW i \in DOMAIN new
        PROVE  /\ {new[i].id, new[i].reply} \subseteq {new[i].proxy, Zero}
               /\ new[i].id = Zero => <<s, new[i].proxy>> \in early
    <3>1. CASE i \in DOMAIN old
      BY <1>8, <1>13, <3>1 DEF IInv, Ids
    <3>2. CASE i \in Len(old) + 1 .. Len(new)
      <4>1. PICK p \in Proxy : new[i] = NewLink(p)
        BY <1>3, <1>6, <1>8, <3>2
      <4>2. QED BY <4>1, NodeAssumption DEF NewLink
    <3>3. QED BY <1>14, <3>1, <3>2
  <2>2. \A t \in Server \ {s} : links'[t] = links[t] /\ early' = early
    BY <1>10, <1>13
  <2>3. ASSUME NEW t \in Server, NEW i \in DOMAIN links'[t]
        PROVE  /\ {links'[t][i].id, links'[t][i].reply} \subseteq {links'[t][i].proxy, Zero}
               /\ links'[t][i].id = Zero => <<t, links'[t][i].proxy>> \in early
    <3>1. CASE t = s
      BY <1>13, <2>1, <3>1
    <3>2. CASE t # s
      BY <2>2, <3>2 DEF IInv, Ids
    <3>3. QED BY <3>1, <3>2
  <2>4. QED BY <1>10, <2>3 DEF Ids
<1>16. Single'
  <2>1. ASSUME NEW i \in DOMAIN old, NEW j \in Len(old) + 1 .. Len(new),
               new[i].proxy = new[j].proxy
        PROVE  <<s, new[i].proxy>> \in early
    <3>1. PICK k \in DOMAIN added : new[j] = NewLink(added[k])
      BY <1>8
    <3>2. new[i] = old[i] /\ new[j].proxy = added[k]
      BY <1>8, <1>13, <3>1 DEF NewLink
    <3>3. old[i].id # added[k]
      BY <1>6 DEF Missing
    <3>4. old[i].id = Zero
      BY <2>1, <3>2, <3>3 DEF IInv, Ids
    <3>5. QED BY <3>2, <3>4 DEF IInv, Ids
  <2>2. ASSUME NEW i \in Len(old) + 1 .. Len(new), NEW j \in Len(old) + 1 .. Len(new),
               new[i].proxy = new[j].proxy
        PROVE  i = j
    <3>1. /\ i - Len(old) \in DOMAIN added /\ new[i].proxy = added[i - Len(old)]
          /\ j - Len(old) \in DOMAIN added /\ new[j].proxy = added[j - Len(old)]
      <4>1. \A k \in Len(old) + 1 .. Len(new) :
              k - Len(old) \in DOMAIN added /\ new[k] = NewLink(added[k - Len(old)])
        BY <1>8
      <4>2. \A p : NewLink(p).proxy = p
        BY DEF NewLink
      <4>3. QED BY <4>1, <4>2
    <3>2. i - Len(old) = j - Len(old)
      BY <1>4, <2>2, <3>1
    <3>3. QED BY <1>7, <1>8, <3>2
  <2>3. ASSUME NEW i \in DOMAIN new, NEW j \in DOMAIN new, new[i].proxy = new[j].proxy, i # j
        PROVE  <<s, new[i].proxy>> \in early
    <3>1. CASE i \in DOMAIN old /\ j \in DOMAIN old
      BY <1>8, <1>13, <2>3, <3>1 DEF IInv, Single
    <3>2. CASE i \in DOMAIN old /\ j \in Len(old) + 1 .. Len(new)
      BY <2>1, <2>3, <3>2
    <3>3. CASE i \in Len(old) + 1 .. Len(new) /\ j \in DOMAIN old
      BY <2>1, <2>3, <3>3
    <3>4. CASE i \in Len(old) + 1 .. Len(new) /\ j \in Len(old) + 1 .. Len(new)
      BY <2>2, <2>3, <3>4
    <3>5. QED BY <1>14, <3>1, <3>2, <3>3, <3>4
  <2>4. QED BY <1>10, <1>13, <2>3 DEF IInv, Single
<1>17. QED BY <1>12, <1>15, <1>16 DEF IInv

\* One link of a server is replaced.
LEMMA Replaced ==
  ASSUME IInv, NEW s \in Server, NEW i \in DOMAIN links[s], NEW link \in LinkInfo,
         link.proxy = links[s][i].proxy,
         link.reply \in {link.proxy, Zero},
         \/ link.id = links[s][i].id
         \/ link.id \in {link.proxy, Zero} /\ (link.id = Zero => <<s, link.proxy>> \in early'),
         links' = [links EXCEPT ![s] = [links[s] EXCEPT ![i] = link]],
         early \subseteq early'
  PROVE  links' \in Links /\ Ids' /\ Single'
<1> DEFINE new == [links[s] EXCEPT ![i] = link]
<1>1. links \in Links /\ links[s] \in Seq(LinkInfo)
  BY DEF IInv, TypeOK, Links
<1>2. new \in Seq(LinkInfo) /\ DOMAIN new = DOMAIN links[s]
  BY <1>1
<1>3. new[i] = link /\ \A j \in DOMAIN links[s] : j # i => new[j] = links[s][j]
  OBVIOUS
<1>4. links' = [links EXCEPT ![s] = new]
  OBVIOUS
<1> HIDE DEF new
<1>5. links' \in Links
  BY <1>1, <1>2, <1>4 DEF Links
<1>6. links'[s] = new /\ \A t \in Server \ {s} : links'[t] = links[t]
  BY <1>1, <1>4 DEF Links
<1>7. Ids /\ Single
  BY DEF IInv
<1>8. Ids' /\ Single'
  <2>1. ASSUME NEW t \in Server, NEW j \in DOMAIN links[t]
        PROVE  /\ links'[t][j].proxy = links[t][j].proxy
               /\ links'[t][j].reply \in {links[t][j].proxy, Zero}
               /\ \/ links'[t][j].id = links[t][j].id
                  \/ /\ links'[t][j].id \in {links[t][j].proxy, Zero}
                     /\ links'[t][j].id = Zero => <<t, links[t][j].proxy>> \in early'
    BY <1>3, <1>6, <1>7 DEF Ids
  <2>2. \A t \in Server : DOMAIN links'[t] = DOMAIN links[t]
    BY <1>2, <1>6
  <2>3. QED BY <1>7, <2>1, <2>2, InPlace
<1>9. QED BY <1>5, <1>8

\* Some links of a server are dialled again.
LEMMA ReconnectIInv ==
  ASSUME IInv, NEW s \in Server, NEW p \in Proxy, Reconnect(s, p)
  PROVE  links' \in Links /\ Ids' /\ Single'
<1>1. PICK again \in SUBSET LinksTo(s, p) :
        links' = [links EXCEPT ![s] =
          [i \in DOMAIN @ |-> IF i \in again THEN [@[i] EXCEPT !.state = "dialing"] ELSE @[i]]]
  BY DEF Reconnect
<1> DEFINE new == [i \in DOMAIN links[s] |->
                    IF i \in again THEN [links[s][i] EXCEPT !.state = "dialing"] ELSE links[s][i]]
<1>2. links \in Links /\ links[s] \in Seq(LinkInfo)
  BY DEF IInv, TypeOK, Links
<1>3. \A i \in DOMAIN links[s] : links[s][i] \in LinkInfo
  BY <1>2
<1>4. \A i \in DOMAIN links[s] : /\ new[i] \in LinkInfo
                                /\ new[i].proxy = links[s][i].proxy
                                /\ new[i].id = links[s][i].id
                                /\ new[i].reply = links[s][i].reply
  BY <1>3 DEF LinkInfo
<1>5. new \in Seq(LinkInfo) /\ DOMAIN new = DOMAIN links[s]
  <2>1. Len(links[s]) \in Nat /\ DOMAIN new = 1 .. Len(links[s]) /\ DOMAIN links[s] = 1 .. Len(links[s])
    BY <1>2
  <2>2. new = [i \in 1 .. Len(links[s]) |-> new[i]]
    BY <2>1
  <2> HIDE DEF new
  <2>3. new \in [1 .. Len(links[s]) -> LinkInfo]
    BY <1>4, <2>1, <2>2
  <2>4. QED BY <2>1, <2>3
<1>6. links' = [links EXCEPT ![s] = new] /\ early' = early
  BY <1>1 DEF Reconnect
<1> HIDE DEF new
<1>7. links' \in Links
  BY <1>2, <1>5, <1>6 DEF Links
<1>8. links'[s] = new /\ \A t \in Server \ {s} : links'[t] = links[t]
  BY <1>2, <1>6 DEF Links
<1>9. Ids /\ Single
  BY DEF IInv
<1>10. ASSUME NEW t \in Server, NEW j \in DOMAIN links[t]
       PROVE  /\ links'[t][j].proxy = links[t][j].proxy
              /\ links'[t][j].reply \in {links[t][j].proxy, Zero}
              /\ links'[t][j].id = links[t][j].id
  BY <1>4, <1>8, <1>9 DEF Ids
<1>11. \A t \in Server : DOMAIN links'[t] = DOMAIN links[t]
  BY <1>5, <1>8
<1>12. QED BY <1>6, <1>7, <1>9, <1>10, <1>11, InPlace

\* The steps of a link: dialling, registration and its answer.
LEMMA LinkStepIInv ==
  ASSUME IInv, NEW s \in Server, NEW p \in Proxy, LinkStep(s, p)
  PROVE  IInv'
<1>1. UNCHANGED <<proc, center, mail, fresh, failures>>
  BY DEF LinkStep, Reconnect, Register, Refused, RegResp
<1>2. \A i \in LinksTo(s, p) :
        i \in DOMAIN links[s] /\ links[s][i] \in LinkInfo /\ links[s][i].proxy = p
  BY DEF LinksTo, IInv, TypeOK
<1>3. \A i \in LinksTo(s, p) : {links[s][i].id, links[s][i].reply} \subseteq {p, Zero}
  BY <1>2 DEF IInv, Ids
<1>4. links \in Links
  BY DEF IInv, TypeOK, Links
<1>5. ASSUME Register(s, p)
      PROVE  links' \in Links /\ Ids' /\ Single' /\ early' = early
  <2>1. PICK i \in LinksTo(s, p) :
          links' = [links EXCEPT ![s][i].state = "answered", ![s][i].reply = ReplyId(s, p)]
    BY <1>5 DEF Register
  <2> DEFINE link == [links[s][i] EXCEPT !.state = "answered", !.reply = ReplyId(s, p)]
  <2>2. link \in LinkInfo /\ link.proxy = p /\ link.reply \in {p, Zero} /\ link.id = links[s][i].id
    BY <1>2 DEF LinkInfo, ReplyId
  <2>3. links' = [links EXCEPT ![s] = [links[s] EXCEPT ![i] = link]]
    BY <1>2, <1>4, <2>1 DEF Links, LinkInfo
  <2>4. early' = early
    BY <1>5 DEF Register
  <2> HIDE DEF link
  <2>5. QED BY <1>2, <2>2, <2>3, <2>4, Replaced
<1>6. ASSUME Refused(s, p)
      PROVE  links' \in Links /\ Ids' /\ Single' /\ early' = early
  <2>1. PICK i \in LinksTo(s, p) : links' = [links EXCEPT ![s][i].state = "down"]
    BY <1>6 DEF Refused
  <2> DEFINE link == [links[s][i] EXCEPT !.state = "down"]
  <2>2. link \in LinkInfo /\ link.proxy = p /\ link.reply \in {p, Zero} /\ link.id = links[s][i].id
    BY <1>2, <1>3 DEF LinkInfo
  <2>3. links' = [links EXCEPT ![s] = [links[s] EXCEPT ![i] = link]]
    BY <1>2, <1>4, <2>1 DEF Links, LinkInfo
  <2>4. early' = early
    BY <1>6 DEF Refused
  <2> HIDE DEF link
  <2>5. QED BY <1>2, <2>2, <2>3, <2>4, Replaced
<1>7. ASSUME RegResp(s, p)
      PROVE  links' \in Links /\ Ids' /\ Single' /\ early' \in {early, early \cup {<<s, p>>}}
  <2>1. PICK i \in LinksTo(s, p) :
          /\ links' = [links EXCEPT ![s][i].state = "registered",
                                    ![s][i].id = links[s][i].reply, ![s][i].reply = Zero]
          /\ early' = IF links[s][i].reply = Zero THEN early \cup {<<s, p>>} ELSE early
    BY <1>7 DEF RegResp
  <2> DEFINE link == [links[s][i] EXCEPT !.state = "registered",
                                         !.id = links[s][i].reply, !.reply = Zero]
  <2>2. /\ link \in LinkInfo /\ link.proxy = p /\ link.reply = Zero
        /\ link.id \in {p, Zero} /\ (link.id = Zero => <<s, p>> \in early')
    BY <1>2, <1>3, <2>1 DEF LinkInfo
  <2>3. links' = [links EXCEPT ![s] = [links[s] EXCEPT ![i] = link]]
    BY <1>2, <1>4, <2>1 DEF Links, LinkInfo
  <2>4. early \subseteq early' /\ early' \in {early, early \cup {<<s, p>>}}
    BY <2>1
  <2> HIDE DEF link
  <2>5. QED BY <1>2, <2>2, <2>3, <2>4, Replaced
<1>8. ASSUME Reconnect(s, p)
      PROVE  links' \in Links /\ Ids' /\ Single' /\ early' = early
  BY <1>8, ReconnectIInv DEF Reconnect
<1>9. links' \in Links /\ Ids' /\ Single' /\ early' \subseteq early \cup {<<s, p>>}
  BY <1>5, <1>6, <1>7, <1>8 DEF LinkStep
<1>10. early' \subseteq Server \X Proxy
  BY <1>9 DEF IInv, TypeOK
<1>11. TypeOK'
  BY <1>1, <1>9, <1>10 DEF IInv, TypeOK, Links
<1>12. QED BY <1>9, <1>11 DEF IInv

\* A broken link is one of the proxy it was to, and bears the same id.
LEMMA BrokenLink ==
  ASSUME NEW link \in LinkInfo
  PROVE  /\ Broken(link) \in LinkInfo /\ Broken(link).proxy = link.proxy
         /\ Broken(link).id = link.id /\ Broken(link).reply = Zero
  BY DEF Broken, LinkInfo

\* The messages to a process may be lost.
LEMMA Emptied ==
  ASSUME NEW S, NEW box \in [Node -> Seq(S)], NEW x \in Node
  PROVE  [box EXCEPT ![x] = <<>>] \in [Node -> Seq(S)]
  OBVIOUS

\* The count of failures stays in its bound.
LEMMA FailureTypes ==
  ASSUME TypeOK, Failure
  PROVE  failures' \in 0 .. MaxFailures
  BY MaxFailuresAssumption DEF Failure, TypeOK

\* The death of a process.
LEMMA DieIInv ==
  ASSUME IInv, NEW x \in Node, Die(x)
  PROVE  IInv'
<1> DEFINE new(s) == IF s = x THEN <<>> ELSE
             [i \in DOMAIN links[s] |->
                IF links[s][i].proxy = x THEN Broken(links[s][i]) ELSE links[s][i]]
<1>1. links' = [s \in Server |-> new(s)] /\ early' = {pair \in early : pair[1] # x}
  BY DEF Die
<1>2. links \in Links /\ early \subseteq Server \X Proxy
  BY DEF IInv, TypeOK, Links
<1>3. ASSUME NEW s \in Server, s # x
      PROVE  /\ new(s) \in Seq(LinkInfo) /\ DOMAIN new(s) = DOMAIN links[s]
             /\ \A i \in DOMAIN links[s] : /\ new(s)[i].proxy = links[s][i].proxy
                                          /\ new(s)[i].id = links[s][i].id
                                          /\ new(s)[i].reply \in {links[s][i].reply, Zero}
  <2> DEFINE list == [i \in DOMAIN links[s] |->
                       IF links[s][i].proxy = x THEN Broken(links[s][i]) ELSE links[s][i]]
  <2>1. links[s] \in Seq(LinkInfo) /\ DOMAIN links[s] = 1 .. Len(links[s]) /\ Len(links[s]) \in Nat
    BY <1>2 DEF Links
  <2>2. \A i \in DOMAIN links[s] : links[s][i] \in LinkInfo
    BY <2>1
  <2>3. \A i \in DOMAIN links[s] :
          list[i] = IF links[s][i].proxy = x THEN Broken(links[s][i]) ELSE links[s][i]
    OBVIOUS
  <2>4. DOMAIN list = 1 .. Len(links[s]) /\ list = [i \in 1 .. Len(links[s]) |-> list[i]]
    BY <2>1
  <2>5. new(s) = list
    BY <1>3
  <2> HIDE DEF list, new
  <2>6. \A i \in DOMAIN links[s] : /\ list[i] \in LinkInfo
                                  /\ list[i].proxy = links[s][i].proxy
                                  /\ list[i].id = links[s][i].id
                                  /\ list[i].reply \in {links[s][i].reply, Zero}
    BY <2>2, <2>3, BrokenLink
  <2>7. list \in [1 .. Len(links[s]) -> LinkInfo]
    BY <2>1, <2>4, <2>6
  <2>8. list \in Seq(LinkInfo)
    BY <2>1, <2>7
  <2>9. QED BY <2>1, <2>4, <2>5, <2>6, <2>8
<1>4. x \in Server => new(x) = <<>>
  OBVIOUS
<1>5. \A s \in Server : links'[s] = new(s)
  BY <1>1
<1> HIDE DEF new
<1>6. links' \in Links
  <2>1. ASSUME NEW s \in Server PROVE new(s) \in Seq(LinkInfo)
    <3>1. CASE s = x
      <4>1. \A S : <<>> \in Seq(S)
        OBVIOUS
      <4>2. new(s) = <<>>
        BY <1>4, <3>1
      <4>3. QED BY <4>1, <4>2, Zenon
    <3>2. CASE s # x
      BY <1>3, <3>2
    <3>3. QED BY <3>1, <3>2
  <2>2. QED BY <1>1, <2>1 DEF Links
<1>7. \A s \in Server \ {x} : \A p : <<s, p>> \in early => <<s, p>> \in early'
  BY <1>1
<1>8. Ids'
  <2>1. ASSUME NEW s \in Server, NEW i \in DOMAIN links'[s]
        PROVE  /\ {links'[s][i].id, links'[s][i].reply} \subseteq {links'[s][i].proxy, Zero}
               /\ links'[s][i].id = Zero => <<s, links'[s][i].proxy>> \in early'
    <3>1. s # x
      BY <1>4, <1>5, <2>1
    <3>2. QED BY <1>3, <1>5, <1>7, <3>1 DEF IInv, Ids
  <2>2. QED BY <2>1 DEF Ids
<1>9. Single'
  <2>1. ASSUME NEW s \in Server, NEW i \in DOMAIN links'[s], NEW j \in DOMAIN links'[s],
               links'[s][i].proxy = links'[s][j].proxy, i # j
        PROVE  <<s, links'[s][i].proxy>> \in early'
    <3>1. s # x
      BY <1>4, <1>5, <2>1
    <3>2. /\ DOMAIN new(s) = DOMAIN links[s]
          /\ \A k \in DOMAIN links[s] : new(s)[k].proxy = links[s][k].proxy
      BY <1>3, <3>1
    <3>3. links'[s] = new(s)
      BY <1>5
    <3>4. /\ i \in DOMAIN links[s] /\ links'[s][i].proxy = links[s][i].proxy
          /\ j \in DOMAIN links[s] /\ links'[s][j].proxy = links[s][j].proxy
      BY <3>2, <3>3
    <3>5. <<s, links[s][i].proxy>> \in early
      BY <2>1, <3>4 DEF IInv, Single
    <3>6. QED BY <1>7, <3>1, <3>4, <3>5
  <2>2. QED BY <2>1 DEF Single
<1>10. TypeOK'
  <2>1. failures' \in 0 .. MaxFailures
    BY FailureTypes DEF Die, IInv
  <2>2. /\ proc' \in [Node -> {"down", "starting", "configured", "running"}]
        /\ center' \in [Node -> {"down", "asked", "known"}]
    BY DEF Die, IInv, TypeOK
  <2>3. mail' \in [Node -> Seq([config : BOOLEAN, proxies : Seq(Proxy)])]
    <3>1. mail' = [mail EXCEPT ![x] = <<>>]
      BY DEF Die
    <3>2. QED BY <3>1, Emptied DEF IInv, TypeOK
  <2>4. fresh' \in [Server -> Seq(Proxy)]
    BY DEF Die, IInv, TypeOK
  <2>5. QED BY <1>1, <1>2, <1>6, <2>1, <2>2, <2>3, <2>4 DEF TypeOK, Links
<1>11. QED BY <1>8, <1>9, <1>10 DEF IInv

\* The loss of connections to the center.
LEMMA CenterLossIInv ==
  ASSUME IInv, CenterRestart \/ \E x \in Node : LoseCenter(x)
  PROVE  IInv'
<1>1. /\ UNCHANGED <<proc, fresh, links, early>> /\ failures' \in 0 .. MaxFailures
      /\ center' \in [Node -> {"down", "asked", "known"}]
  BY FailureTypes DEF CenterRestart, LoseCenter, IInv, TypeOK
<1>2. mail' \in [Node -> Seq([config : BOOLEAN, proxies : Seq(Proxy)])]
  <2>1. CASE CenterRestart
    <3>1. mail' = [x \in Node |-> <<>>]
      BY <2>1 DEF CenterRestart
    <3>2. \A S : <<>> \in Seq(S)
      OBVIOUS
    <3>3. <<>> \in Seq([config : BOOLEAN, proxies : Seq(Proxy)])
      BY <3>2, Zenon
    <3>4. QED BY <3>1, <3>3, Zenon
  <2>2. ASSUME NEW x \in Node, LoseCenter(x)
        PROVE  mail' \in [Node -> Seq([config : BOOLEAN, proxies : Seq(Proxy)])]
    <3>1. mail' = [mail EXCEPT ![x] = <<>>]
      BY <2>2 DEF LoseCenter
    <3>2. QED BY <3>1, Emptied DEF IInv, TypeOK
  <2>3. QED BY <2>1, <2>2
<1>3. QED BY <1>1, <1>2 DEF IInv, TypeOK, Ids, Single

\* The loss of a connection to a proxy.
LEMMA LoseLinkIInv ==
  ASSUME IInv, NEW s \in Server, NEW p \in Proxy, LoseLink(s, p)
  PROVE  IInv'
<1>1. PICK i \in LinksTo(s, p) : links' = [links EXCEPT ![s][i] = Broken(@)]
  BY DEF LoseLink
<1>2. links \in Links /\ i \in DOMAIN links[s] /\ links[s][i] \in LinkInfo
  BY DEF LinksTo, IInv, TypeOK, Links
<1>3. links' = [links EXCEPT ![s] = [links[s] EXCEPT ![i] = Broken(links[s][i])]]
  BY <1>1, <1>2 DEF Links
<1>4. UNCHANGED <<proc, center, mail, fresh, early>> /\ failures' \in 0 .. MaxFailures
  BY FailureTypes DEF LoseLink, IInv
<1>5. links' \in Links /\ Ids' /\ Single'
  <2> DEFINE link == Broken(links[s][i])
  <2>1. /\ link \in LinkInfo /\ link.proxy = links[s][i].proxy
        /\ link.id = links[s][i].id /\ link.reply = Zero
    BY <1>2, BrokenLink
  <2>2. early \subseteq early'
    BY <1>4
  <2>3. links' = [links EXCEPT ![s] = [links[s] EXCEPT ![i] = link]]
    BY <1>3
  <2> HIDE DEF link
  <2>4. QED BY <1>2, <2>1, <2>2, <2>3, Replaced
<1>6. QED BY <1>4, <1>5 DEF IInv, TypeOK, Links

\* Every step keeps the invariant.
LEMMA NextIInv == IInv /\ [Next]_vars => IInv'
<1> SUFFICES ASSUME IInv, [Next]_vars PROVE IInv'
  OBVIOUS
<1>1. ASSUME NEW x \in Node, NodeStep(x) PROVE IInv'
  <2>1. ASSUME Start(x) PROVE IInv'
    BY <2>1 DEF Start, IInv, TypeOK, Ids, Single
  <2>2. ASSUME ReconnectCenter(x) PROVE IInv'
    BY <2>2 DEF ReconnectCenter, IInv, TypeOK, Ids, Single
  <2>3. ASSUME Run(x) PROVE IInv'
    BY <2>3 DEF Run, IInv, TypeOK, Ids, Single
  <2>4. QED BY <1>1, <2>1, <2>2, <2>3, ConfigReqIInv, ReadCenterIInv DEF NodeStep
<1>2. ASSUME NEW s \in Server, NewConnect(s) PROVE IInv'
  BY <1>2, NewConnectIInv
<1>3. ASSUME NEW s \in Server, NEW p \in Proxy, LinkStep(s, p) PROVE IInv'
  BY <1>3, LinkStepIInv
<1>4. ASSUME Fault PROVE IInv'
  <2>1. ASSUME NEW x \in Node, Crash(x) PROVE IInv'
    BY <2>1, DieIInv DEF Crash
  <2>2. ASSUME NEW s \in Server, SendToNobody(s) PROVE IInv'
    BY <2>2, DieIInv DEF SendToNobody, Node
  <2>3. QED BY <1>4, <2>1, <2>2, CenterLossIInv, LoseLinkIInv DEF Fault
<1>5. ASSUME UNCHANGED vars PROVE IInv'
  BY <1>5 DEF vars, IInv, TypeOK, Ids, Single
<1>6. QED BY <1>1, <1>2, <1>3, <1>4, <1>5 DEF Next

(***************************************************************************)
(* No address is missed.                                                   *)
(***************************************************************************)

\* What a server has heard it does not forget, if its mail, its list and its
\* links keep what they had.
LEMMA HeardStays ==
  ASSUME NEW s \in Server, NEW p \in Proxy, HeardOf(s, p),
         mail'[s] = mail[s], fresh'[s] = fresh[s],
         LinksTo(s, p) # {} => LinksTo(s, p)' # {}
  PROVE  HeardOf(s, p)'
  BY DEF HeardOf, Knows

\* The center, when it answers one, adds the address of each to what the other
\* has to read.
LEMMA ConfigReqMisses ==
  ASSUME TypeOK, NoneMissed, NEW x \in Node, ConfigReq(x)
  PROVE  NoneMissed'
<1> SUFFICES ASSUME NEW s \in Server, NEW p \in Proxy, center'[s] = "known", center'[p] = "known"
             PROVE  HeardOf(s, p)'
  BY DEF NoneMissed
<1>1. PICK peers \in Peers(x), audience \in Audiences(x) :
        mail' = [y \in Node |->
          CASE y = x -> Append(mail[y], [config |-> TRUE, proxies |-> peers])
            [] y \in audience -> Append(mail[y], [config |-> FALSE, proxies |-> <<x>>])
            [] OTHER -> mail[y]]
  BY DEF ConfigReq
<1>2. s \in Node /\ p \in Node /\ s # p /\ s \notin Proxy /\ p \notin Server
  BY NodeAssumption DEF Node
<1>3. /\ \A y \in Node : center'[y] = IF y = x THEN "known" ELSE center[y]
      /\ UNCHANGED <<fresh, links>>
  BY DEF ConfigReq, TypeOK
<1>4. \E len \in Nat : Len(mail[s]) = len /\ DOMAIN mail[s] = 1 .. len
  BY <1>2 DEF TypeOK
<1>5. ASSUME NEW m, mail'[s] = Append(mail[s], m), p \in ToSet(m.proxies) \/ HeardOf(s, p)
      PROVE  HeardOf(s, p)'
  <2>1. /\ DOMAIN mail'[s] = 1 .. Len(mail[s]) + 1 /\ mail'[s][Len(mail[s]) + 1] = m
        /\ \A i \in DOMAIN mail[s] : i \in DOMAIN mail'[s] /\ mail'[s][i] = mail[s][i]
    BY <1>4, <1>5
  <2>2. CASE p \in ToSet(m.proxies)
    <3>1. Len(mail[s]) + 1 \in DOMAIN mail'[s]
      BY <1>4, <2>1
    <3>2. QED BY <2>1, <2>2, <3>1 DEF HeardOf, Knows
  <2>3. CASE HeardOf(s, p)
    BY <1>3, <2>1, <2>3 DEF HeardOf, Knows, LinksTo
  <2>4. QED BY <1>5, <2>2, <2>3
<1>6. CASE s = x
  <2>1. peers \in SetToSeqs({q \in Proxy : center[q] = "known"})
    BY <1>1, <1>2, <1>6 DEF Peers
  <2>2. center[p] = "known"
    BY <1>2, <1>3, <1>6
  <2>3. p \in ToSet(peers)
    BY <2>1, <2>2, FiniteProxies, SetToSeqsComplete
  <2>4. audience = {}
    BY <1>1, <1>6 DEF Audiences
  <2>5. mail'[s] = Append(mail[s], [config |-> TRUE, proxies |-> peers])
    BY <1>1, <1>2, <1>6, <2>4
  <2>6. QED BY <1>5, <2>3, <2>5
<1>7. CASE p = x
  <2>1. center[s] = "known"
    BY <1>2, <1>3, <1>7
  <2>2. s \in audience
    BY <1>1, <1>2, <1>7, <2>1 DEF Audiences
  <2>3. mail'[s] = Append(mail[s], [config |-> FALSE, proxies |-> <<x>>])
    BY <1>1, <1>2, <1>7, <2>2
  <2>4. p \in ToSet(<<x>>)
    BY <1>7 DEF ToSet
  <2>5. QED BY <1>5, <2>3, <2>4
<1>8. CASE s # x /\ p # x
  <2>1. HeardOf(s, p)
    BY <1>2, <1>3, <1>8 DEF NoneMissed
  <2>2. CASE s \in audience
    <3>1. mail'[s] = Append(mail[s], [config |-> FALSE, proxies |-> <<x>>])
      BY <1>1, <1>2, <1>8, <2>2
    <3>2. QED BY <1>5, <2>1, <3>1
  <2>3. CASE s \notin audience
    <3>1. mail'[s] = mail[s]
      BY <1>1, <1>2, <1>8, <2>3
    <3>2. QED BY <1>3, <2>1, <3>1 DEF HeardOf, Knows, LinksTo
  <2>4. QED BY <2>2, <2>3
<1>9. QED BY <1>6, <1>7, <1>8

\* What two lists name together.
LEMMA AppendedSet ==
  ASSUME NEW S, NEW a \in Seq(S), NEW b \in Seq(S)
  PROVE  ToSet(a \o b) = ToSet(a) \cup ToSet(b)
<1>1. /\ Len(a \o b) = Len(a) + Len(b) /\ DOMAIN (a \o b) = 1 .. Len(a) + Len(b)
      /\ DOMAIN a = 1 .. Len(a) /\ DOMAIN b = 1 .. Len(b) /\ Len(a) \in Nat /\ Len(b) \in Nat
  OBVIOUS
<1>2. \A i \in 1 .. Len(a) : (a \o b)[i] = a[i] /\ i \in 1 .. Len(a) + Len(b)
  OBVIOUS
<1>3. \A i \in 1 .. Len(b) : (a \o b)[Len(a) + i] = b[i] /\ Len(a) + i \in 1 .. Len(a) + Len(b)
  OBVIOUS
<1>4. \A i \in 1 .. Len(a) + Len(b) :
        i \in 1 .. Len(a) \/ (i - Len(a) \in 1 .. Len(b) /\ (a \o b)[i] = b[i - Len(a)])
  OBVIOUS
<1> DEFINE ab == a \o b
<1>5. ToSet(ab) \subseteq ToSet(a) \cup ToSet(b)
  BY <1>1, <1>4, <1>2 DEF ToSet
<1>6. ToSet(a) \subseteq ToSet(ab)
  BY <1>1, <1>2 DEF ToSet
<1>7. ToSet(b) \subseteq ToSet(ab)
  BY <1>1, <1>3 DEF ToSet
<1>8. QED BY <1>5, <1>6, <1>7

\* What is read goes to the list of addresses to be dialled.
LEMMA ReadCenterMisses ==
  ASSUME TypeOK, NoneMissed, NEW x \in Node, ReadCenter(x)
  PROVE  NoneMissed'
<1> SUFFICES ASSUME NEW s \in Server, NEW p \in Proxy, center'[s] = "known", center'[p] = "known"
             PROVE  HeardOf(s, p)'
  BY DEF NoneMissed
<1>1. HeardOf(s, p) /\ UNCHANGED <<center, links>> /\ s \in Node
  BY DEF ReadCenter, NoneMissed, Node
<1>2. CASE s # x
  <2>1. mail'[s] = mail[s] /\ fresh'[s] = fresh[s]
    BY <1>1, <1>2 DEF ReadCenter, TypeOK
  <2>2. QED BY <1>1, <2>1, HeardStays DEF LinksTo
<1>3. CASE s = x
  <2> DEFINE Message == [config : BOOLEAN, proxies : Seq(Proxy)]
             m == Head(mail[s])
  <2>1. mail[s] \in Seq(Message) /\ mail[s] # <<>> /\ fresh[s] \in Seq(Proxy)
    BY <1>1, <1>3 DEF ReadCenter, TypeOK
  <2>2. m = mail[s][1] /\ m.proxies \in Seq(Proxy)
    <3>1. \A S : \A q \in Seq(S) : q # <<>> => q[1] \in S /\ Head(q) = q[1]
      OBVIOUS
    <3>2. m \in Message /\ m = mail[s][1]
      BY <2>1, <3>1
    <3>3. QED BY <3>2
  <2>3. mail'[s] = Tail(mail[s]) /\ fresh'[s] = fresh[s] \o m.proxies
    BY <1>1, <1>3 DEF ReadCenter, TypeOK
  <2> HIDE DEF Message, m
  <2>4. ToSet(fresh'[s]) = ToSet(fresh[s]) \cup ToSet(m.proxies)
    BY <2>1, <2>2, <2>3, AppendedSet
  <2>5. ASSUME NEW i \in DOMAIN mail[s], p \in ToSet(mail[s][i].proxies) PROVE HeardOf(s, p)'
    <3>1. CASE i = 1
      BY <2>2, <2>4, <2>5, <3>1 DEF HeardOf, Knows
    <3>2. CASE i # 1
      <4>1. i - 1 \in DOMAIN mail'[s] /\ mail'[s][i - 1] = mail[s][i]
        BY <2>1, <2>3, <3>2
      <4>2. QED BY <2>5, <4>1 DEF HeardOf, Knows
    <3>3. QED BY <3>1, <3>2
  <2>6. ASSUME p \in ToSet(fresh[s]) \/ LinksTo(s, p) # {} PROVE HeardOf(s, p)'
    BY <1>1, <2>4, <2>6 DEF HeardOf, Knows, LinksTo
  <2>7. QED BY <1>1, <2>5, <2>6 DEF HeardOf, Knows
<1>4. QED BY <1>2, <1>3

\* An address that is not dialled has a link already.
LEMMA NewConnectMisses ==
  ASSUME IInv, NoneMissed, NEW t \in Server, NewConnect(t)
  PROVE  NoneMissed'
<1> SUFFICES ASSUME NEW s \in Server, NEW p \in Proxy, center'[s] = "known", center'[p] = "known"
             PROVE  HeardOf(s, p)'
  BY DEF NoneMissed
<1>1. HeardOf(s, p) /\ UNCHANGED <<center, mail>>
  BY DEF NewConnect, NoneMissed
<1>2. links \in Links /\ fresh \in [Server -> Seq(Proxy)]
  BY DEF IInv, TypeOK, Links
<1>3. PICK added \in SetToSeqs(Missing(t)) :
        links' = [links EXCEPT ![t] = @ \o [i \in DOMAIN added |-> NewLink(added[i])]]
  BY DEF NewConnect
<1>4. CASE s # t
  <2>1. fresh'[s] = fresh[s] /\ links'[s] = links[s]
    BY <1>2, <1>3, <1>4 DEF NewConnect, Links
  <2>2. QED BY <1>1, <2>1, HeardStays DEF LinksTo
<1>5. CASE s = t
  <2> DEFINE tail == [i \in DOMAIN added |-> NewLink(added[i])]
             new == links[s] \o tail
  <2>1. Missing(s) \in SUBSET Proxy
    BY <1>2 DEF Missing, ToSet
  <2>2. /\ added \in Seq(Proxy) /\ Missing(s) \subseteq ToSet(added)
    <3>1. added \in Seq(Missing(s))
      BY <1>5, <2>1, FiniteProxies, SetToSeqsType
    <3>2. Missing(s) \subseteq ToSet(added)
      BY <1>5, <2>1, FiniteProxies, SetToSeqsComplete
    <3>3. QED BY <2>1, <3>1, <3>2
  <2>3. tail \in Seq(LinkInfo) /\ DOMAIN tail = DOMAIN added /\ Len(tail) = Len(added)
    <3>1. \A q \in Proxy : NewLink(q) \in LinkInfo
      BY DEF NewLink, LinkInfo
    <3>2. QED BY <2>2, <3>1
  <2>4. links'[s] = new /\ links[s] \in Seq(LinkInfo)
    BY <1>2, <1>3, <1>5 DEF Links
  <2>5. \A i \in DOMAIN added : tail[i].proxy = added[i]
    BY DEF NewLink
  <2> HIDE DEF tail
  <2>6. /\ \A i \in DOMAIN links[s] : i \in DOMAIN new /\ new[i] = links[s][i]
        /\ \A i \in DOMAIN tail : Len(links[s]) + i \in DOMAIN new /\ new[Len(links[s]) + i] = tail[i]
    <3>1. /\ new \in Seq(LinkInfo) /\ Len(new) = Len(links[s]) + Len(tail)
          /\ \A i \in 1 .. Len(links[s]) : new[i] = links[s][i]
          /\ \A i \in Len(links[s]) + 1 .. Len(new) : new[i] = tail[i - Len(links[s])]
      BY <2>3, <2>4, AddedLinks
    <3>2. /\ DOMAIN new = 1 .. Len(new) /\ DOMAIN tail = 1 .. Len(tail) /\ Len(tail) \in Nat
          /\ DOMAIN links[s] = 1 .. Len(links[s]) /\ Len(links[s]) \in Nat
      BY <2>3, <2>4, <3>1
    <3> HIDE DEF new
    <3>3. QED BY <3>1, <3>2
  <2> HIDE DEF new
  <2>7. ASSUME LinksTo(s, p) # {} PROVE LinksTo(s, p)' # {}
    <3>1. PICK i \in DOMAIN links[s] : links[s][i].proxy = p
      BY <2>7 DEF LinksTo
    <3>2. i \in DOMAIN links'[s] /\ links'[s][i].proxy = p
      BY <2>4, <2>6, <3>1
    <3>3. QED BY <3>2 DEF LinksTo
  <2>8. ASSUME p \in ToSet(fresh[s]) PROVE LinksTo(s, p)' # {}
    <3>1. CASE p \in Missing(s)
      <4>1. PICK i \in DOMAIN added : added[i] = p
        BY <2>2, <3>1 DEF ToSet
      <4>2. Len(links[s]) + i \in DOMAIN links'[s] /\ links'[s][Len(links[s]) + i].proxy = p
        BY <2>3, <2>4, <2>5, <2>6, <4>1
      <4>3. QED BY <4>2 DEF LinksTo
    <3>2. CASE p \notin Missing(s)
      <4>1. PICK i \in DOMAIN links[s] : links[s][i].id = p
        BY <2>8, <3>2 DEF Missing
      <4>2. links[s][i].proxy = p
        BY <4>1, NodeAssumption DEF IInv, Ids
      <4>3. QED BY <2>7, <4>2 DEF LinksTo
    <3>3. QED BY <3>1, <3>2
  <2>9. QED BY <1>1, <2>7, <2>8 DEF HeardOf, Knows
<1>6. QED BY <1>4, <1>5

\* Dialling, registering and losing links leave them in the list.
LEMMA LinksStay ==
  ASSUME TypeOK, NEW s \in Server, NEW p \in Proxy, LinkStep(s, p) \/ LoseLink(s, p)
  PROVE  \A t \in Server, q \in Proxy : LinksTo(t, q)' = LinksTo(t, q)
<1>1. links \in Links
  BY DEF TypeOK, Links
<1>2. ASSUME NEW new, links' = [links EXCEPT ![s] = new], DOMAIN new = DOMAIN links[s],
             \A i \in DOMAIN links[s] : new[i].proxy = links[s][i].proxy
      PROVE  \A t \in Server, q \in Proxy : LinksTo(t, q)' = LinksTo(t, q)
  <2>1. \A t \in Server : links'[t] = IF t = s THEN new ELSE links[t]
    BY <1>1, <1>2 DEF Links
  <2>2. QED BY <1>2, <2>1 DEF LinksTo
<1>3. ASSUME NEW i \in LinksTo(s, p), NEW link, link.proxy = links[s][i].proxy,
             links' = [links EXCEPT ![s] = [links[s] EXCEPT ![i] = link]]
      PROVE  \A t \in Server, q \in Proxy : LinksTo(t, q)' = LinksTo(t, q)
  <2> DEFINE new == [links[s] EXCEPT ![i] = link]
  <2>1. DOMAIN new = DOMAIN links[s] /\ \A j \in DOMAIN links[s] : new[j].proxy = links[s][j].proxy
    BY <1>3
  <2> HIDE DEF new
  <2>2. QED BY <1>2, <1>3, <2>1 DEF new
<1>4. \A i \in LinksTo(s, p) : i \in DOMAIN links[s] /\ links[s][i] \in LinkInfo
  BY <1>1 DEF LinksTo, Links
<1>5. CASE Reconnect(s, p)
  <2>1. PICK again \in SUBSET LinksTo(s, p) :
          links' = [links EXCEPT ![s] =
            [i \in DOMAIN @ |-> IF i \in again THEN [@[i] EXCEPT !.state = "dialing"] ELSE @[i]]]
    BY <1>5 DEF Reconnect
  <2> DEFINE new == [i \in DOMAIN links[s] |->
                      IF i \in again THEN [links[s][i] EXCEPT !.state = "dialing"] ELSE links[s][i]]
  <2>2. DOMAIN new = DOMAIN links[s] /\ links' = [links EXCEPT ![s] = new]
    BY <2>1
  <2>3. \A i \in DOMAIN links[s] : new[i].proxy = links[s][i].proxy
    BY <1>4 DEF LinkInfo
  <2> HIDE DEF new
  <2>4. QED BY <1>2, <2>2, <2>3
<1>6. CASE Register(s, p)
  <2>1. PICK i \in LinksTo(s, p) :
          links' = [links EXCEPT ![s][i].state = "answered", ![s][i].reply = ReplyId(s, p)]
    BY <1>6 DEF Register
  <2> DEFINE link == [links[s][i] EXCEPT !.state = "answered", !.reply = ReplyId(s, p)]
  <2>2. link.proxy = links[s][i].proxy
    BY <1>4 DEF LinkInfo
  <2>3. links' = [links EXCEPT ![s] = [links[s] EXCEPT ![i] = link]]
    BY <1>1, <1>4, <2>1 DEF Links, LinkInfo
  <2> HIDE DEF link
  <2>4. QED BY <1>3, <2>2, <2>3
<1>7. CASE Refused(s, p)
  <2>1. PICK i \in LinksTo(s, p) : links' = [links EXCEPT ![s][i].state = "down"]
    BY <1>7 DEF Refused
  <2> DEFINE link == [links[s][i] EXCEPT !.state = "down"]
  <2>2. link.proxy = links[s][i].proxy
    BY <1>4 DEF LinkInfo
  <2>3. links' = [links EXCEPT ![s] = [links[s] EXCEPT ![i] = link]]
    BY <1>1, <1>4, <2>1 DEF Links, LinkInfo
  <2> HIDE DEF link
  <2>4. QED BY <1>3, <2>2, <2>3
<1>8. CASE RegResp(s, p)
  <2>1. PICK i \in LinksTo(s, p) :
          links' = [links EXCEPT ![s][i].state = "registered",
                                 ![s][i].id = links[s][i].reply, ![s][i].reply = Zero]
    BY <1>8 DEF RegResp
  <2> DEFINE link == [links[s][i] EXCEPT !.state = "registered",
                                         !.id = links[s][i].reply, !.reply = Zero]
  <2>2. link.proxy = links[s][i].proxy
    BY <1>4 DEF LinkInfo
  <2>3. links' = [links EXCEPT ![s] = [links[s] EXCEPT ![i] = link]]
    BY <1>1, <1>4, <2>1 DEF Links, LinkInfo
  <2> HIDE DEF link
  <2>4. QED BY <1>3, <2>2, <2>3
<1>9. CASE LoseLink(s, p)
  <2>1. PICK i \in LinksTo(s, p) : links' = [links EXCEPT ![s][i] = Broken(@)]
    BY <1>9 DEF LoseLink
  <2> DEFINE link == Broken(links[s][i])
  <2>2. link.proxy = links[s][i].proxy
    BY <1>4, BrokenLink
  <2>3. links' = [links EXCEPT ![s] = [links[s] EXCEPT ![i] = link]]
    BY <1>1, <1>4, <2>1 DEF Links
  <2> HIDE DEF link
  <2>4. QED BY <1>3, <2>2, <2>3
<1>10. QED BY <1>5, <1>6, <1>7, <1>8, <1>9 DEF LinkStep

\* The death of a process takes its connection to the center with it, and
\* leaves the links of others to it broken but in the list.
LEMMA DieMisses ==
  ASSUME TypeOK, NoneMissed, NEW x \in Node, Die(x)
  PROVE  NoneMissed'
<1> SUFFICES ASSUME NEW s \in Server, NEW p \in Proxy, center'[s] = "known", center'[p] = "known"
             PROVE  HeardOf(s, p)'
  BY DEF NoneMissed
<1>1. s \in Node /\ p \in Node
  BY DEF Node
<1>2. s # x /\ p # x /\ center[s] = "known" /\ center[p] = "known"
  BY <1>1 DEF Die, TypeOK
<1>3. mail'[s] = mail[s] /\ fresh'[s] = fresh[s]
  BY <1>1, <1>2 DEF Die, TypeOK
<1>4. \A i \in DOMAIN links[s] : i \in DOMAIN links'[s] /\ links'[s][i].proxy = links[s][i].proxy
  <2>1. links'[s] = [i \in DOMAIN links[s] |->
                      IF links[s][i].proxy = x THEN Broken(links[s][i]) ELSE links[s][i]]
    BY <1>2 DEF Die
  <2>2. \A i \in DOMAIN links[s] : links[s][i] \in LinkInfo
    BY DEF TypeOK
  <2>3. QED BY <2>1, <2>2, BrokenLink
<1>5. LinksTo(s, p) # {} => LinksTo(s, p)' # {}
  BY <1>4 DEF LinksTo
<1>6. QED BY <1>2, <1>3, <1>5, HeardStays DEF NoneMissed

LEMMA NextMisses == IInv /\ NoneMissed /\ [Next]_vars => NoneMissed'
<1> SUFFICES ASSUME IInv, NoneMissed, [Next]_vars PROVE NoneMissed'
  OBVIOUS
<1>1. TypeOK
  BY DEF IInv
<1>2. ASSUME \A x \in Node : center'[x] = "known" => center[x] = "known",
             \A s \in Server : center'[s] = "known" => mail'[s] = mail[s] /\ fresh'[s] = fresh[s],
             \A s \in Server, p \in Proxy : LinksTo(s, p)' = LinksTo(s, p)
      PROVE  NoneMissed'
  BY <1>2, HeardStays DEF NoneMissed, Node
<1>3. ASSUME NEW x \in Node, NodeStep(x) PROVE NoneMissed'
  <2>1. ASSUME Start(x) \/ ReconnectCenter(x) \/ Run(x) PROVE NoneMissed'
    <3>1. \A y \in Node : center'[y] = "known" => center[y] = "known"
      BY <1>1, <2>1 DEF Start, ReconnectCenter, Run, TypeOK
    <3>2. UNCHANGED <<mail, fresh, links>>
      BY <2>1 DEF Start, ReconnectCenter, Run
    <3>3. QED BY <1>2, <3>1, <3>2 DEF LinksTo
  <2>2. QED BY <1>1, <1>3, <2>1, ConfigReqMisses, ReadCenterMisses DEF NodeStep
<1>4. ASSUME NEW s \in Server, NEW p \in Proxy, LinkStep(s, p) \/ LoseLink(s, p) PROVE NoneMissed'
  <2>1. UNCHANGED <<center, mail, fresh>>
    BY <1>4 DEF LinkStep, Reconnect, Register, Refused, RegResp, LoseLink
  <2>2. QED BY <1>1, <1>2, <1>4, <2>1, LinksStay
<1>5. ASSUME Fault PROVE NoneMissed'
  <2>1. ASSUME NEW x \in Node, Crash(x) PROVE NoneMissed'
    BY <1>1, <2>1, DieMisses DEF Crash
  <2>2. ASSUME NEW s \in Server, SendToNobody(s) PROVE NoneMissed'
    BY <1>1, <2>2, DieMisses DEF SendToNobody, Node
  <2>3. ASSUME CenterRestart \/ \E x \in Node : LoseCenter(x) PROVE NoneMissed'
    <3>1. UNCHANGED <<fresh, links>>
      BY <2>3 DEF CenterRestart, LoseCenter
    <3>2. \A y \in Node : center'[y] = "known" => center[y] = "known" /\ mail'[y] = mail[y]
      BY <1>1, <2>3 DEF CenterRestart, LoseCenter, TypeOK
    <3>3. QED BY <1>2, <3>1, <3>2 DEF LinksTo, Node
  <2>4. QED BY <1>4, <1>5, <2>1, <2>2, <2>3 DEF Fault
<1>6. ASSUME UNCHANGED vars PROVE NoneMissed'
  BY <1>2, <1>6 DEF vars, LinksTo
<1>7. QED BY <1>3, <1>4, <1>5, <1>6, NewConnectMisses DEF Next

(***************************************************************************)
(* Theorems.                                                               *)
(***************************************************************************)

\* Every variable keeps its type: lists hold links, addresses and messages of
\* the center, whatever fails.
THEOREM TypeCorrect == Spec => []TypeOK
<1>1. IInv => TypeOK
  BY DEF IInv
<1>2. QED BY <1>1, InitIInv, NextIInv, PTL DEF Spec

\* A server keeps one link to each proxy, under its id, however often it hears
\* of it, unless the proxy once answered it before it knew its own id.
THEOREM OneLinkEachInvariant == Spec => []OneLinkEach
  BY InitIInv, NextIInv, IInvSuffices, PTL DEF Spec

\* A server and a proxy that the center both knows have not missed each other:
\* the address waits to be read or dialled, or has a link.
THEOREM NoneMissedInvariant == Spec => []NoneMissed
<1>1. Init => NoneMissed
  BY DEF Init, NoneMissed, Node
<1>2. QED BY <1>1, InitIInv, NextIInv, NextMisses, PTL DEF Spec
=============================================================================
