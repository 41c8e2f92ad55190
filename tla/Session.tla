------------------------------ MODULE Session ------------------------------
(***************************************************************************)
(* What a connector promises the rest of the system about its clients: the *)
(* set of clients it can deliver to, and the last status it reported of    *)
(* each. A status is reported offline only for clients that were           *)
(* deliverable, every client that stops being deliverable is reported, and *)
(* only a restart of the process forgets what was reported.                *)
(***************************************************************************)
CONSTANT ClientId

VARIABLES
  bound,   \* the clients the connector can deliver to
  notice   \* client id -> last reported status

vars == <<bound, notice>>

Init ==
  /\ bound = {}
  /\ notice = [c \in ClientId |-> "none"]

LogIn(c) ==
  /\ bound' = bound \cup {c}
  /\ notice' = [notice EXCEPT ![c] = "online"]

\* The clients T are reported offline, those of S stop being deliverable: the
\* others were reported because a second connection of theirs was closed.
LogOut(S, T) ==
  /\ S \subseteq T
  /\ bound' = bound \ S
  /\ notice' = [c \in ClientId |-> IF c \in T THEN "offline" ELSE notice[c]]

Restart ==
  /\ bound' = {}
  /\ notice' = [c \in ClientId |-> "none"]

Next ==
  \/ \E c \in ClientId : LogIn(c)
  \/ \E T \in SUBSET bound : \E S \in SUBSET T : LogOut(S, T)
  \/ Restart

Spec == Init /\ [][Next]_vars
=============================================================================
