----------------------------- MODULE FileExchange -----------------------------
(***************************************************************************)
(* What a get promises of the files: its answer is made at one instant, by *)
(* a process that runs, of the file as it is at that instant; and it is    *)
(* this that is stored, block after block, whatever becomes of the other   *)
(* client.  How the answer comes about is in PeerTransfer, which           *)
(* implements this.                                                        *)
(***************************************************************************)
EXTENDS Naturals, Sequences

CONSTANTS
  Nodes,       \* the clients
  Fetches,     \* the get commands
  By,          \* the client that each one is given to
  Asks,        \* the numbers that each one may be for
  Files,       \* the files of each client
  Named(_),    \* the number by which a peer knows one
  Through(_),  \* what comes through of a content
  None

VARIABLES
  process,  \* whether a client is "up", has "quit" or "ended"
  disk,     \* its files
  state,    \* what has become of a get
  want,     \* its number
  asked,    \* the client it is made from
  content   \* what it has been answered and not yet written

vars == <<process, disk, state, want, asked, content>>

Init ==
  /\ process = [n \in Nodes |-> "up"] /\ disk = Files
  /\ state = [f \in Fetches |-> "todo"]
  /\ want = [f \in Fetches |-> None] /\ asked = [f \in Fetches |-> None]
  /\ content = [f \in Fetches |-> <<>>]

Goto(f, from, to) == state[f] = from /\ state' = [state EXCEPT ![f] = to]

\* The index names somebody, or nobody, for a number there is no file for.
Ask(f, k) ==
  /\ process[By[f]] = "up" /\ k \in Asks[f] \ DOMAIN disk[By[f]]
  /\ want' = [want EXCEPT ![f] = k]
  /\ \/ Goto(f, "todo", "asking") /\ \E n \in Nodes : asked' = [asked EXCEPT ![f] = n]
     \/ Goto(f, "todo", "none") /\ UNCHANGED asked
  /\ UNCHANGED <<process, disk, content>>

Answer(f) ==
  /\ Goto(f, "asking", "answered")
  /\ process[asked[f]] = "up" /\ Named(want[f]) \in DOMAIN disk[asked[f]]
  /\ content' = [content EXCEPT ![f] = Through(disk[asked[f]][Named(want[f])])]
  /\ UNCHANGED <<process, disk, want, asked>>

\* 404: there is no such file, or it cannot be opened.
Refuse(f) ==
  /\ Goto(f, "asking", "missing") /\ process[asked[f]] = "up"
  /\ UNCHANGED <<process, disk, want, asked, content>>

Open(f) ==
  /\ Goto(f, "answered", "storing")
  /\ disk' = [disk EXCEPT ![By[f]] =
       [k \in DOMAIN @ \cup {want[f]} |-> IF k = want[f] THEN <<>> ELSE @[k]]]
  /\ UNCHANGED <<process, want, asked, content>>

Write(f, i) ==
  /\ state[f] = "storing" /\ i \in 1..Len(content[f])
  /\ disk' = [disk EXCEPT ![By[f]][want[f]] = @ \o SubSeq(content[f], 1, i)]
  /\ content' = [content EXCEPT ![f] = SubSeq(@, i + 1, Len(@))]
  /\ UNCHANGED <<process, state, want, asked>>

\* All is written, or the file could not be opened.
Finish(f) ==
  /\ \/ Goto(f, "storing", "over") /\ content[f] = <<>>
     \/ Goto(f, "answered", "over")
  /\ content' = [content EXCEPT ![f] = <<>>]
  /\ UNCHANGED <<process, disk, want, asked>>

UnderWay(n) ==
  { f \in Fetches : By[f] = n /\ state[f] \in {"asking", "answered", "storing", "stuck"} }
Finished(n) == { f \in Fetches : By[f] = n /\ state[f] \in {"missing", "over"} }
Awaited(n) ==
  { f \in Fetches : asked[f] = n /\ state[f] \in {"asking", "answered", "missing"} }

\* A process leaves with what its gets have under way.  Those that have asked it
\* may lose the answer for good; the ones that have received it do not.
Leave(n) ==
  /\ process[n] = "up"
  /\ \E how \in {"quit", "ended"} : process' = [process EXCEPT ![n] = how]
  /\ \E done \in SUBSET Finished(n), lost \in SUBSET Awaited(n) :
       LET dead == UnderWay(n) \cup done
       IN  /\ state' = [f \in Fetches |-> CASE f \in dead -> "dead"
                                            [] f \in lost \ dead -> "stuck"
                                            [] OTHER -> state[f]]
           /\ content' = [f \in Fetches |-> IF f \in dead \cup lost THEN <<>> ELSE content[f]]
  /\ UNCHANGED <<disk, want, asked>>

\* A client is started again, which brings none of that back.
Return(n) ==
  /\ process[n] # "up" /\ process' = [process EXCEPT ![n] = "up"]
  /\ UNCHANGED <<disk, state, want, asked, content>>

Next ==
  \/ \E f \in Fetches :
       \/ \E k \in Asks[f] : Ask(f, k)
       \/ Answer(f) \/ Refuse(f) \/ Open(f) \/ Finish(f)
       \/ \E i \in 1..Len(content[f]) : Write(f, i)
  \/ \E n \in Nodes : Leave(n) \/ Return(n)

Spec == Init /\ [][Next]_vars

=============================================================================
