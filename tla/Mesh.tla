-------------------------------- MODULE Mesh --------------------------------
(***************************************************************************)
(* How the processes find and register with each other: the center, which  *)
(* hands out the addresses of the proxies; the proxies; and the servers    *)
(* (connectors, dbworkers, phpproxies), which dial every proxy they hear   *)
(* of and register with it.                                                *)
(*                                                                         *)
(* A connector differs from the other processes: init_net gives it a new   *)
(* event base, and the one its connection to the center belongs to is not  *)
(* run any more. Once it runs it neither reads from the center nor notices *)
(* that the connection is gone.                                            *)
(*                                                                         *)
(* A proxy is named by its address; its id is the same value, except that  *)
(* it answers with id Zero until it has read its configuration. The center *)
(* keeps its port: a restart of it is the loss of all its connections.     *)
(***************************************************************************)
EXTENDS Integers, Sequences, FiniteSets, SequencesExt

CONSTANTS
  Server, Proxy,
  Connector,    \* the servers that are connectors
  Zero,         \* the id of a proxy that has not read its configuration
  MaxFailures   \* bound on crashes and broken connections

ASSUME NodeAssumption == Server \cap Proxy = {} /\ Zero \notin Server \cup Proxy
ASSUME ProxyAssumption == IsFiniteSet(Proxy)
ASSUME ConnectorAssumption == Connector \subseteq Server
ASSUME MaxFailuresAssumption == MaxFailures \in Nat

VARIABLES
  proc,     \* node -> "down", "starting" (waits for its configuration),
            \* "configured" (has read it, not yet in its main loop), "running"
  center,   \* node -> its connection to the center: "down", "asked", "known"
  mail,     \* node -> messages from the center not yet read
  fresh,    \* server -> addresses heard of and not yet dialled (m_svr_addr)
  links,    \* server -> its list of proxies (m_ociv)
  early,    \* pairs of a server and a proxy that registered it under id Zero
  failures  \* crashes and broken connections so far

vars == <<proc, center, mail, fresh, links, early, failures>>

Node == Server \cup Proxy

LinkInfo == [proxy : Proxy, id : Proxy \cup {Zero}, reply : Proxy \cup {Zero},
             state : {"down", "dialing", "answered", "registered"}]

TypeOK ==
  /\ proc \in [Node -> {"down", "starting", "configured", "running"}]
  /\ center \in [Node -> {"down", "asked", "known"}]
  /\ mail \in [Node -> Seq([config : BOOLEAN, proxies : Seq(Proxy)])]
  /\ fresh \in [Server -> Seq(Proxy)]
  /\ links \in [Server -> Seq(LinkInfo)]
  /\ early \subseteq Server \X Proxy
  /\ failures \in 0 .. MaxFailures

Init ==
  /\ proc = [x \in Node |-> "down"]
  /\ center = [x \in Node |-> "down"]
  /\ mail = [x \in Node |-> <<>>]
  /\ fresh = [s \in Server |-> <<>>]
  /\ links = [s \in Server |-> <<>>]
  /\ early = {}
  /\ failures = 0

(***************************************************************************)
(* The center and the connections to it.                                   *)
(***************************************************************************)

\* A process starts: it dials the center and waits for its configuration. A
\* proxy listens before it does.
Start(x) ==
  /\ proc[x] = "down"
  /\ proc' = [proc EXCEPT ![x] = "starting"]
  /\ center' = [center EXCEPT ![x] = "asked"]
  /\ UNCHANGED <<mail, fresh, links, early, failures>>

\* Only the main loop of a running process dials the center again, if it has
\* noticed the end of the connection.
ReconnectCenter(x) ==
  /\ x \notin Connector
  /\ proc[x] = "running" /\ center[x] = "down"
  /\ center' = [center EXCEPT ![x] = "asked"]
  /\ UNCHANGED <<proc, mail, fresh, links, early, failures>>

\* The lists of proxies the configuration of x may come with: those connected
\* to the center and known to it, in the order of their descriptors.
MutNoPeers(x) == {<<>>}
Peers(x) ==
  IF x \in Proxy THEN {<<>>} ELSE SetToSeqs({p \in Proxy : center[p] = "known"})

\* Who hears of proxy x: every server the center knows and, of those whose
\* request it has not read, the ones whose connection it has accepted.
MutNobodyHears(x) == {{}}
Audiences(x) ==
  IF x \in Server THEN {{}} ELSE
  LET connected(state) == {s \in Server : center[s] = state}
  IN {connected("known") \cup a : a \in SUBSET connected("asked")}

\* The center answers a request for configuration and announces a proxy.
ConfigReq(x) ==
  /\ center[x] = "asked"
  /\ center' = [center EXCEPT ![x] = "known"]
  /\ \E peers \in Peers(x), audience \in Audiences(x) :
       mail' = [y \in Node |->
         CASE y = x -> Append(mail[y], [config |-> TRUE, proxies |-> peers])
           [] y \in audience -> Append(mail[y], [config |-> FALSE, proxies |-> <<x>>])
           [] OTHER -> mail[y]]
  /\ UNCHANGED <<proc, fresh, links, early, failures>>

\* A process reads a message of the center.
ReadCenter(x) ==
  /\ x \in Connector => proc[x] # "running"
  /\ mail[x] # <<>>
  /\ mail' = [mail EXCEPT ![x] = Tail(@)]
  /\ proc' = [proc EXCEPT ![x] =
                IF proc[x] = "starting" /\ Head(mail[x]).config THEN "configured" ELSE @]
  /\ fresh' = [s \in Server |-> IF s = x THEN fresh[s] \o Head(mail[x]).proxies ELSE fresh[s]]
  /\ UNCHANGED <<center, links, early, failures>>

\* The configuration ends the start of a process.
Run(x) ==
  /\ proc[x] = "configured"
  /\ proc' = [proc EXCEPT ![x] = "running"]
  /\ UNCHANGED <<center, mail, fresh, links, early, failures>>

(***************************************************************************)
(* The links of the servers to the proxies.                                *)
(***************************************************************************)

LinksTo(s, p) == {i \in DOMAIN links[s] : links[s][i].proxy = p}

NewLink(p) == [proxy |-> p, id |-> p, reply |-> Zero, state |-> "dialing"]

\* AddProxy skips an address whose proxy id some link has.
MutMissing(s) == ToSet(fresh[s])
Missing(s) == {p \in ToSet(fresh[s]) : \A i \in DOMAIN links[s] : links[s][i].id # p}

\* AddProxy for each address heard of: the missing ones get a link each, in the
\* order in which they were first heard of.
Before(s, p, q) ==
  \E i \in DOMAIN fresh[s] :
    fresh[s][i] = p /\ \A j \in DOMAIN fresh[s] : j <= i => fresh[s][j] # q

NewConnect(s) ==
  /\ proc[s] = "running" /\ fresh[s] # <<>>
  /\ \E added \in SetToSeqs(Missing(s)) :
       /\ \A i, j \in DOMAIN added : i < j => Before(s, added[i], added[j])
       /\ links' = [links EXCEPT ![s] = @ \o [i \in DOMAIN added |-> NewLink(added[i])]]
  /\ fresh' = [fresh EXCEPT ![s] = <<>>]
  /\ UNCHANGED <<proc, center, mail, early, failures>>

\* The main loop dials a proxy again, over those of the links to it that were
\* not dialled in the last two seconds.
Reconnect(s, p) ==
  /\ \E again \in (SUBSET {i \in LinksTo(s, p) : links[s][i].state = "down"}) \ {{}} :
       links' = [links EXCEPT ![s] =
         [i \in DOMAIN @ |-> IF i \in again THEN [@[i] EXCEPT !.state = "dialing"] ELSE @[i]]]
  /\ UNCHANGED <<proc, center, mail, fresh, early, failures>>

\* The id a proxy answers a registration with.
MutReplyId(s, p) == s
ReplyId(s, p) == IF proc[p] = "running" THEN p ELSE Zero

\* The connection is made, the server registers and the proxy answers; the
\* proxy does so while it is still starting.
Register(s, p) ==
  /\ proc[p] # "down"
  /\ \E i \in LinksTo(s, p) :
       /\ links[s][i].state = "dialing"
       /\ links' = [links EXCEPT ![s][i].state = "answered", ![s][i].reply = ReplyId(s, p)]
  /\ UNCHANGED <<proc, center, mail, fresh, early, failures>>

\* Nobody listens at the address.
Refused(s, p) ==
  /\ proc[p] = "down"
  /\ \E i \in LinksTo(s, p) :
       /\ links[s][i].state = "dialing"
       /\ links' = [links EXCEPT ![s][i].state = "down"]
  /\ UNCHANGED <<proc, center, mail, fresh, early, failures>>

\* The server reads the answer, which overwrites the id of the link.
RegResp(s, p) ==
  /\ \E i \in LinksTo(s, p) :
       /\ links[s][i].state = "answered"
       /\ links' = [links EXCEPT ![s][i].state = "registered",
                                 ![s][i].id = links[s][i].reply, ![s][i].reply = Zero]
       /\ early' = IF links[s][i].reply = Zero THEN early \cup {<<s, p>>} ELSE early
  /\ UNCHANGED <<proc, center, mail, fresh, failures>>

(***************************************************************************)
(* Failures.                                                               *)
(***************************************************************************)

Failure == failures < MaxFailures /\ failures' = failures + 1

Broken(link) == [link EXCEPT !.state = "down", !.reply = Zero]

\* The death of x as its peers and the next process in its place see it.
Die(x) ==
  /\ Failure
  /\ proc' = [proc EXCEPT ![x] = "down"]
  /\ center' = [center EXCEPT ![x] = "down"]
  /\ mail' = [mail EXCEPT ![x] = <<>>]
  /\ fresh' = [s \in Server |-> IF s = x THEN <<>> ELSE fresh[s]]
  /\ links' = [s \in Server |-> IF s = x THEN <<>> ELSE
       [i \in DOMAIN links[s] |->
          IF links[s][i].proxy = x THEN Broken(links[s][i]) ELSE links[s][i]]]
  /\ early' = {pair \in early : pair[1] # x}

Crash(x) == proc[x] # "down" /\ Die(x)

\* A message is sent before the first proxy is known: its index is looked up
\* in an empty list.
SendToNobody(s) == proc[s] = "running" /\ links[s] = <<>> /\ Die(s)

LoseCenter(x) ==
  /\ center[x] # "down"
  /\ Failure
  /\ center' = [center EXCEPT ![x] = "down"]
  /\ mail' = [mail EXCEPT ![x] = <<>>]
  /\ UNCHANGED <<proc, fresh, links, early>>

CenterRestart ==
  /\ Failure
  /\ center' = [x \in Node |-> "down"]
  /\ mail' = [x \in Node |-> <<>>]
  /\ UNCHANGED <<proc, fresh, links, early>>

LoseLink(s, p) ==
  /\ Failure
  /\ \E i \in LinksTo(s, p) :
       /\ links[s][i].state # "down"
       /\ links' = [links EXCEPT ![s][i] = Broken(@)]
  /\ UNCHANGED <<proc, center, mail, fresh, early>>

(***************************************************************************)
(* The specification.                                                      *)
(***************************************************************************)

NodeStep(x) == Start(x) \/ ReconnectCenter(x) \/ ConfigReq(x) \/ ReadCenter(x) \/ Run(x)
LinkStep(s, p) == Reconnect(s, p) \/ Register(s, p) \/ Refused(s, p) \/ RegResp(s, p)
Fault ==
  \/ \E x \in Node : Crash(x) \/ LoseCenter(x)
  \/ \E s \in Server : SendToNobody(s)
  \/ CenterRestart
  \/ \E s \in Server, p \in Proxy : LoseLink(s, p)

Next ==
  \/ \E x \in Node : NodeStep(x)
  \/ \E s \in Server : NewConnect(s)
  \/ \E s \in Server, p \in Proxy : LinkStep(s, p)
  \/ Fault

Spec == Init /\ [][Next]_vars

\* Every process keeps running its loop, and a connection that stands carries
\* what is written to it. That somebody starts a process is not assumed, nor,
\* by their guards, that a running connector reads from the center or dials it.
FairSpec ==
  /\ Spec
  /\ \A x \in Node :
       /\ WF_vars(ReconnectCenter(x)) /\ WF_vars(ConfigReq(x))
       /\ WF_vars(ReadCenter(x)) /\ WF_vars(Run(x))
  /\ \A s \in Server : WF_vars(NewConnect(s))
  /\ \A s \in Server, p \in Proxy :
       /\ WF_vars(Reconnect(s, p)) /\ WF_vars(Register(s, p))
       /\ WF_vars(Refused(s, p)) /\ WF_vars(RegResp(s, p))

(***************************************************************************)
(* Properties.                                                             *)
(***************************************************************************)

Linked(s, p) == \E i \in LinksTo(s, p) : links[s][i].state = "registered"

\* The addresses a server has read.
Knows(s, p) == p \in ToSet(fresh[s]) \/ LinksTo(s, p) # {}

\* Announcement, configuration and reconnects leave no gap: a server and a
\* proxy that both stay up get registered, whoever started first and whatever
\* broke before. Of a connector it holds for the proxies it has read of when its
\* start is over.
AllLinked ==
  \A s \in Server, p \in Proxy :
    (proc[s] = "running" /\ proc[p] = "running" /\ (s \in Connector => Knows(s, p)))
      ~> (Linked(s, p) \/ proc[s] # "running" \/ proc[p] # "running")

\* The design document has it for all of them: the servers, connectors too, hear
\* of a proxy that starts after them and dial it.
ServersHearOfProxies ==
  \A s \in Server, p \in Proxy :
    (proc[s] = "running" /\ proc[p] = "running")
      ~> (Linked(s, p) \/ proc[s] # "running" \/ proc[p] # "running")

\* What makes it so at any moment: a server and a proxy that the center both
\* knows on their present connections have not missed each other, however their
\* requests crossed. The address is in a message not yet read (where, once a
\* connector runs, it stays), in the list to be dialled, or has a link.
HeardOf(s, p) ==
  \/ \E i \in DOMAIN mail[s] : p \in ToSet(mail[s][i].proxies)
  \/ Knows(s, p)

NoneMissed ==
  \A s \in Server, p \in Proxy :
    center[s] = "known" /\ center[p] = "known" => HeardOf(s, p)

\* A server hears of a proxy many times and keeps one link to it, under its
\* id, unless the proxy has once registered it before it knew its own id.
OneLinkEach ==
  \A s \in Server, p \in Proxy : <<s, p>> \notin early =>
    /\ \A i, j \in LinksTo(s, p) : i = j
    /\ \A i \in LinksTo(s, p) : links[s][i].id = p

\* The design document: when a lower layer restarts, the upper one dials it
\* again. A process without a connection to the center gets one.
ReconnectsToCenter ==
  \A x \in Node :
    (proc[x] # "down" /\ center[x] = "down")
      ~> (center[x] # "down" \/ proc[x] = "down")
=============================================================================
