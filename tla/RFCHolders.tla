----------------------------- MODULE RFCHolders -----------------------------
(***************************************************************************)
(* The values the index keeps, and the order it keeps them in.             *)
(***************************************************************************)
EXTENDS Integers, Sequences, Functions

\* A struct Client; a host is its rank in the order of std::string, of which
\* the empty string is the first.
Peer == [host : Nat, port : Int]

NoHost == 0

\* A struct RFCHolder, for a number of Numbers.
HolderOver(Numbers) == [rfc : Numbers, peer : Peer]

\* compare_rfc_holders: by number, then host, then port.
Before(a, b) ==
  \/ a.rfc < b.rfc
  \/ a.rfc = b.rfc /\ a.peer.host < b.peer.host
  \/ a.rfc = b.rfc /\ a.peer.host = b.peer.host /\ a.peer.port < b.peer.port

\* No element of s comes before one that stands ahead of it.
InOrder(s) == \A i, j \in 1..Len(s) : i < j => ~Before(s[j], s[i])

\* What std::list::sort may leave of s: its elements, in order.
SortOf(s) ==
  LET rearranged == { [i \in 1..Len(s) |-> s[p[i]]] :
                      p \in Bijection(1..Len(s), 1..Len(s)) }
  IN  { t \in rearranged : InOrder(t) }

\* The element of a non-empty set that stands at the front of its sorted list.
FrontOf(S) == CHOOSE a \in S : \A b \in S : ~Before(b, a)

=============================================================================
