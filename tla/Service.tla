------------------------------- MODULE Service -------------------------------
(***************************************************************************)
(* What PHP may rely on, without servers, connections or redis: it pushes  *)
(* a message to clients, a client receives what was pushed to it, perhaps  *)
(* never and perhaps more than once, and PHP is told so only afterwards.   *)
(* Delivery implements it.                                                 *)
(***************************************************************************)
CONSTANTS Client, Msg

VARIABLES
  pushed,  \* <<client, message>> requested by PHP
  got,     \* <<client, message>> received by the client
  told     \* <<client, message>> PHP was told the client received

vars == <<pushed, got, told>>

Init == pushed = {} /\ got = {} /\ told = {}

\* PHP numbers its messages: each request has an id of its own.
HttpRequest(m, clients) ==
  /\ \A c \in Client : <<c, m>> \notin pushed
  /\ pushed' = pushed \cup {<<c, m>> : c \in clients}
  /\ UNCHANGED <<got, told>>

Receive(c, m) ==
  /\ <<c, m>> \in pushed
  /\ got' = got \cup {<<c, m>>}
  /\ UNCHANGED <<pushed, told>>

ReportData(c, m) ==
  /\ <<c, m>> \in got
  /\ told' = told \cup {<<c, m>>}
  /\ UNCHANGED <<pushed, got>>

Next ==
  \/ \E m \in Msg, clients \in SUBSET Client : HttpRequest(m, clients)
  \/ \E c \in Client, m \in Msg : Receive(c, m) \/ ReportData(c, m)

Spec == Init /\ [][Next]_vars
=============================================================================
