---------------------------- MODULE IndexService ----------------------------
(***************************************************************************)
(* What the central index promises its callers: a set of registered        *)
(* clients and a set of holders, on which every call takes effect at one   *)
(* instant, and queries that return one instant's contents.                *)
(*                                                                         *)
(* The one call that is not a single instant is remove_client: a client's  *)
(* holders are withdrawn first and the client unregistered later.          *)
(***************************************************************************)
EXTENDS Naturals

CONSTANTS Handlers, PeerOf, Rfc, None

VARIABLES
  registered,   \* the clients the index knows
  holders,      \* the <<number, client>> pairs it knows
  reply         \* what a handler's query returned, until it is sent

vars == <<registered, holders, reply>>

Init ==
  /\ registered = {}
  /\ holders = {}
  /\ reply = [h \in Handlers |-> {}]

Register(h) ==
  /\ registered' = registered \cup {PeerOf[h]}
  /\ UNCHANGED <<holders, reply>>

\* Only a registered client's holder is ever added.
Announce(h, n) ==
  /\ PeerOf[h] \in registered
  /\ holders' = holders \cup {[rfc |-> n, peer |-> PeerOf[h]]}
  /\ UNCHANGED <<registered, reply>>

Withdraw(h) ==
  /\ holders' = { e \in holders : e.peer # PeerOf[h] }
  /\ UNCHANGED <<registered, reply>>

Unregister(h) ==
  /\ registered' = registered \ {PeerOf[h]}
  /\ UNCHANGED <<holders, reply>>

\* find_rfcs(n), or all_rfcs when n = None: the matching holders, all of them
\* and at one instant.
Query(h, n) ==
  /\ reply' = [reply EXCEPT ![h] = { e \in holders : n = None \/ e.rfc = n }]
  /\ UNCHANGED <<registered, holders>>

Respond(h) ==
  /\ reply' = [reply EXCEPT ![h] = {}]
  /\ UNCHANGED <<registered, holders>>

Next == \E h \in Handlers :
  \/ Register(h) \/ Withdraw(h) \/ Unregister(h) \/ Respond(h)
  \/ \E n \in Rfc : Announce(h, n)
  \/ \E n \in Rfc \cup {None} : Query(h, n)

Spec == Init /\ [][Next]_vars

=============================================================================
