----------------------------- MODULE MCMessages -----------------------------
(* An instance of Messages: every class, with valid fields and others. *)
EXTENDS Messages

Hosts == {<<>>, <<7>>, <<7, 8>>}
Texts == Hosts \cup {<<7, NUL, 8>>}
Ports == {0, 2}
SomeCodes == {0, 200, 404}

Holders == [rfc : {1, 3}, host : Hosts, port : Ports]
Peers == [rfc : {0}, host : Hosts, port : Ports]

\* Lists of at most two entries, so that one pass of a loop follows another.
ListsOf(S) == BoundedSeq(S, 2)

AllKinds ==
  { [Fresh(kind) EXCEPT !.number = n] : kind \in Numbered, n \in {-1, 0, 1, 300} }
    \cup { [Fresh("AddRFCResponse") EXCEPT !.code = c] : c \in SomeCodes }
    \cup { [Fresh("ListRFCMessage") EXCEPT !.text = t, !.port = p] : t \in Hosts, p \in Ports }
    \cup { [Fresh("GetRFCResponse") EXCEPT !.code = c, !.text = t] :
             c \in SomeCodes, t \in Texts }
    \cup { [Fresh("ListRFCResponse") EXCEPT !.code = c, !.list = s] :
             c \in SomeCodes, s \in ListsOf(Holders) }
    \cup { [Fresh("LookupRFCResponse") EXCEPT !.code = c, !.list = s] :
             c \in SomeCodes, s \in ListsOf(Peers) }
=============================================================================
