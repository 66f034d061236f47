---------------------------- MODULE PeerTransfer ----------------------------
(***************************************************************************)
(* The transfer of files between clients: get_rfc and get_from_peer at the *)
(* prompt of one, the handler for other peers in another, and RFCManager   *)
(* reading and writing the directories of both.                            *)
(*                                                                         *)
(* A fetch is one get command.  It has a connection of its own, which      *)
(* carries a frame for each encrypted send, and a handler of its own at    *)
(* the other end.  The index is the set of clients it names for a number;  *)
(* what it does is in CentralIndex and IndexSession.                       *)
(***************************************************************************)
EXTENDS Integers, FiniteSets, FiniteSetsExt, SequencesExt

CONSTANTS
  Nodes,    \* the clients, in the order of compare_rfc_holders
  Fetches,  \* the get commands
  By,       \* the client that each one is given to
  Asks,     \* the numbers that each one may be for
  Files,    \* the directories: for each client its files named rfc<number>.txt
  Others,   \* the numbers of its files with another name that parses (rfc01.txt)
  Stale,    \* the clients that the index names since an earlier run of theirs
  Quitting, \* the sets of clients of which the users may quit
  Restarting, \* the clients that may be started again, once
  Limits,   \* what the descriptors that each process has left may be
  None

Numbers == UNION { Asks[f] : f \in Fetches }

\* The contents of all files there are.
Originals == UNION { { Files[n][k] : k \in DOMAIN Files[n] } : n \in Nodes }

\* An int as the short that GetRFCMessage takes.
Short(n) == ((n + 32768) % 65536) - 32768

ASSUME TransferAssumption ==
  /\ Nodes \subseteq Nat /\ IsFiniteSet(Nodes) /\ Limits \subseteq [Nodes -> Nat]
  /\ By \in [Fetches -> Nodes] /\ Asks \in [Fetches -> SUBSET (Nat \ {0})]
  /\ DOMAIN Files = Nodes /\ \A n \in Nodes : DOMAIN Files[n] \subseteq Nat \ {0}
  /\ \A n \in Nodes : Files[n] \in [DOMAIN Files[n] -> Seq(STRING)]
  /\ Others \in [Nodes -> SUBSET (Nat \ {0})]
  /\ Stale \in [Numbers -> SUBSET Nodes] /\ Quitting \subseteq SUBSET Nodes
  /\ Restarting \subseteq Nodes
  /\ None \notin Nodes \cup Nat

\* enum class P2PMessage
HELLO == 0
GET == 1
DISCONNECT == 2

VARIABLES
  process,   \* whether a client is "up", has "quit", or has "ended" otherwise
  again,     \* the clients that have been started again
  door,      \* whether the accept thread of a client is at its "open" socket, has
             \* "shut" it out by returning, or listen has made "none"
  limit,     \* the descriptors a process may have
  quitters,  \* the clients whose users may quit
  fds,       \* the descriptors it has in use
  disk,      \* the files rfc<number>.txt of each client
  listed,    \* the clients the index names for a number
  known,     \* the clients it has registered
  leaving,   \* the clients that have quit, until it has dealt with that
  pc,        \* where a fetch is
  want,      \* its number
  asked,     \* the client it is made from
  out,       \* the frames it sends before it goes on
  rest,      \* the content it has received and not yet written
  up, down,  \* the frames on their way to the handler, and back
  hpc,       \* where the handler is
  hout,      \* the frames it sends before it goes on
  message,   \* its variable of that name (None: not yet received)
  number,    \* its rfc_num
  text       \* what get_content has read

lives == <<process, again, door, limit, quitters>>
nodes == <<lives, fds>>
index == <<listed, known, leaving>>
fetch == <<pc, want, asked, out, rest>>
handler == <<hpc, hout, message, number, text>>
vars == <<nodes, disk, index, fetch, up, down, handler>>

-----------------------------------------------------------------------------
(* Frames and contents *)

Word(w) == [tag |-> "message", val |-> w, body |-> <<>>]
Number(n) == [tag |-> "number", val |-> n, body |-> <<>>]
Size == [tag |-> "size", val |-> 0, body |-> <<>>]
Body(code, content) == [tag |-> "body", val |-> code, body |-> content]

\* The nullptr that to_bytes returns for a message that is not valid.
Null == [tag |-> "null", val |-> 0, body |-> <<>>]

\* Mutant of GetMessage: the number keeps its width.
GetMessageWide(n) == Number(n)

\* GetRFCMessage::to_bytes
GetMessage(n) == IF Short(n) > 0 THEN Number(Short(n)) ELSE Null

\* GetRFCResponse::to_bytes: a 200 without content is not valid.
Response(code, content) ==
  IF code = 200 /\ content = <<>> THEN Null ELSE Body(code, content)

\* What stands before the first of some byte.
Before(content, byte) ==
  LET at == { i \in DOMAIN content : content[i] = byte }
  IN  IF at = {} THEN content ELSE SubSeq(content, 1, Min(at) - 1)

\* GetRFCResponse::from_bytes makes the string of a char*, up to the first 0.
Decoded(content) == Before(content, "nul")

\* ntohl of a small word, and of such a word that was swapped before
NtoHL(w) == IF w < 256 THEN w * 16777216 ELSE w \div 16777216

-----------------------------------------------------------------------------
(* Processes *)

Over == {"todo", "none", "missing", "done", "dead"}

\* The client is at its prompt: a fetch is made by the thread that reads it.
Idle(n) == process[n] = "up" /\ \A f \in Fetches : By[f] = n => pc[f] \in Over

\* The fetch has closed its connection, or its process has.
Closed(f) == pc[f] \in {"missing", "notify", "done", "dead"}

\* A process is gone: its fetches, the files it was writing, its handlers and the
\* connections that wait for one.
Leaves(n, how) ==
  /\ process' = [process EXCEPT ![n] = how]
  /\ pc' = [f \in Fetches |-> IF By[f] = n /\ pc[f] \notin Over THEN "dead" ELSE pc[f]]
  /\ out' = [f \in Fetches |-> IF By[f] = n THEN <<>> ELSE out[f]]
  /\ hpc' = [f \in Fetches |-> IF asked[f] = n /\ pc[f] # "named" THEN "gone" ELSE hpc[f]]
  /\ hout' = [f \in Fetches |-> IF asked[f] = n THEN <<>> ELSE hout[f]]
  /\ up' = [f \in Fetches |-> IF asked[f] = n THEN <<>> ELSE up[f]]
  /\ UNCHANGED <<again, door, limit, quitters, fds, disk, want, asked, rest, down,
                 message, number, text>>

\* It has ended in another way than by quit, of which the index knows nothing.
Ends(n) == Leaves(n, "ended") /\ UNCHANGED index

HasFd(n) == fds[n] < limit[n]
Opened(n) == [fds EXCEPT ![n] = @ + 1]
ClosedOne(n) == [fds EXCEPT ![n] = @ - 1]

\* get_rfcs: the number of every name that parses.
StoredAt(n) == DOMAIN disk[n] \cup Others[n]

Init ==
  /\ process = [n \in Nodes |-> "up"] /\ again = {} /\ door = [n \in Nodes |-> "open"]
  /\ limit \in Limits /\ quitters \in Quitting /\ fds = [n \in Nodes |-> 0]
  /\ disk = Files
  /\ listed = [k \in Numbers |-> Stale[k] \cup { n \in Nodes : k \in StoredAt(n) }]
  /\ known = Nodes /\ leaving = {}
  /\ pc = [f \in Fetches |-> "todo"] /\ hpc = [f \in Fetches |-> "off"]
  /\ want = [f \in Fetches |-> None] /\ asked = [f \in Fetches |-> None]
  /\ out = [f \in Fetches |-> <<>>] /\ hout = [f \in Fetches |-> <<>>]
  /\ up = [f \in Fetches |-> <<>>] /\ down = [f \in Fetches |-> <<>>]
  /\ rest = [f \in Fetches |-> <<>>] /\ text = [f \in Fetches |-> <<>>]
  /\ message = [f \in Fetches |-> None] /\ number = [f \in Fetches |-> None]

-----------------------------------------------------------------------------
(* The prompt *)

Goto(f, label) == pc' = [pc EXCEPT ![f] = label]

\* get, for a number there is no file for: the index names its first holder.
Get(f, k) ==
  /\ pc[f] = "todo" /\ Idle(By[f]) /\ HasFd(By[f])
  /\ k \in Asks[f] \ StoredAt(By[f])
  /\ want' = [want EXCEPT ![f] = k]
  /\ IF listed[k] = {} THEN Goto(f, "none") /\ UNCHANGED asked
     ELSE Goto(f, "named") /\ asked' = [asked EXCEPT ![f] = Min(listed[k])]
  /\ UNCHANGED <<nodes, disk, index, out, rest, up, down, handler>>

\* get_rfcs throws when the directory cannot be opened.
GetThrows(f) ==
  /\ pc[f] = "todo" /\ Idle(By[f]) /\ ~HasFd(By[f])
  /\ Ends(By[f])

\* quit, and what the index does about it, some time.
Quit(n) ==
  /\ n \in quitters /\ Idle(n) /\ leaving' = leaving \cup {n}
  /\ Leaves(n, "quit") /\ UNCHANGED <<listed, known>>

Forget(n) ==
  /\ n \in leaving /\ leaving' = leaving \ {n}
  /\ listed' = [k \in Numbers |-> listed[k] \ {n}]
  /\ known' = known \ {n}
  /\ UNCHANGED <<nodes, disk, fetch, up, down, handler>>

\* add_available_rfcs, in ascending order, as far as the index does not have a
\* number already: that refusal is its last.
Announces(n) ==
  { k \in Numbers \cap StoredAt(n) : \A j \in Numbers \cap StoredAt(n) :
      j < k => n \notin listed[j] /\ j \notin DOMAIN disk[n] \cap Others[n] }

\* The client is started again on its directory, with what its last run has left
\* there.  What listen returns is not looked at.
Restart(n) ==
  /\ n \in Restarting \ again /\ process[n] # "up"
  /\ process' = [process EXCEPT ![n] = "up"] /\ again' = again \cup {n}
  /\ \E how \in {"open", "none"} : door' = [door EXCEPT ![n] = how]
  /\ fds' = [fds EXCEPT ![n] = 0]
  /\ known' = known \cup {n}
  /\ listed' = [k \in Numbers |-> listed[k] \cup { m \in {n} : k \in Announces(n) }]
  /\ UNCHANGED <<limit, quitters, disk, leaving, fetch, up, down, handler>>

-----------------------------------------------------------------------------
(* get_from_peer *)

\* There is a descriptor for this end, and then one for the other.
CanConnect(f) ==
  pc[f] = "named" /\ HasFd(By[f]) /\ process[asked[f]] = "up" /\ door[asked[f]] # "none"
CanAccept(f) == door[asked[f]] = "open" /\ Opened(By[f])[asked[f]] < limit[asked[f]]

\* Mutant of Request: the number goes before the message.
RequestBackwards(k) == <<GetMessage(k), Word(GET)>>

Request(k) == <<Word(GET), GetMessage(k)>>

\* Connection, handshake and introduction; the handler starts, with message on
\* its stack not initialised.
Connect(f) ==
  /\ CanConnect(f) /\ CanAccept(f)
  /\ Goto(f, "size") /\ out' = [out EXCEPT ![f] = Request(want[f])]
  /\ fds' = [Opened(By[f]) EXCEPT ![asked[f]] = @ + 1]
  /\ hpc' = [hpc EXCEPT ![f] = "message"]
  /\ UNCHANGED <<lives, disk, index, want, asked, rest, up, down, hout,
                 message, number, text>>

\* accept fails for want of a descriptor, which ends the accept thread: the
\* handshake is waited for without end.
ConnectUnanswered(f) ==
  /\ CanConnect(f) /\ ~CanAccept(f)
  /\ Goto(f, "blocked") /\ fds' = Opened(By[f])
  /\ door' = [door EXCEPT ![asked[f]] = "shut"]
  /\ UNCHANGED <<process, again, limit, quitters, disk, index, want, asked, out, rest, up, down,
                 handler>>

\* The process of the peer ends, and a recv of the handshake returns with nothing.
BlockedThrows(f) ==
  /\ pc[f] = "blocked" /\ hpc[f] = "gone"
  /\ Ends(By[f])

\* connect only prints, and the first send throws for want of a key.
ConnectFails(f) ==
  /\ pc[f] = "named" /\ ~CanConnect(f)
  /\ Ends(By[f])

Send(f) ==
  /\ out[f] # <<>> /\ Head(out[f]) # Null /\ hpc[f] # "gone"
  /\ up' = [up EXCEPT ![f] = Append(@, Head(out[f]))]
  /\ out' = [out EXCEPT ![f] = Tail(@)]
  /\ UNCHANGED <<nodes, disk, index, pc, want, asked, rest, down, handler>>

\* The peer is gone: what is sent is lost, or ends the process (SIGPIPE).
SendLost(f) ==
  /\ out[f] # <<>> /\ Head(out[f]) # Null /\ hpc[f] = "gone"
  /\ out' = [out EXCEPT ![f] = Tail(@)]
  /\ UNCHANGED <<nodes, disk, index, pc, want, asked, rest, up, down, handler>>

\* A nullptr is encrypted, or a signal comes: the process ends.
SendEnds(f) ==
  /\ out[f] # <<>> /\ (Head(out[f]) = Null \/ hpc[f] = "gone")
  /\ Ends(By[f])

Takes(f, label) ==
  /\ pc[f] = label /\ out[f] = <<>> /\ down[f] # <<>>
  /\ down' = [down EXCEPT ![f] = Tail(@)]

RecvSize(f) ==
  /\ Takes(f, "size") /\ Goto(f, "body")
  /\ UNCHANGED <<nodes, disk, index, want, asked, out, rest, up, handler>>

\* 404: the connection is closed without a DISCONNECT.
RecvMissing(f) ==
  /\ Takes(f, "body") /\ Head(down[f]).val = 404
  /\ Goto(f, "missing") /\ fds' = ClosedOne(By[f])
  /\ UNCHANGED <<lives, disk, index, want, asked, out, rest, up, handler>>

RecvContent(f) ==
  /\ Takes(f, "body") /\ Head(down[f]).val # 404
  /\ Goto(f, "open") /\ rest' = [rest EXCEPT ![f] = Decoded(Head(down[f]).body)]
  /\ UNCHANGED <<nodes, disk, index, want, asked, out, up, handler>>

\* add_rfc: the file is made, with nothing in it ...
OpenFile(f) ==
  /\ pc[f] = "open" /\ HasFd(By[f])
  /\ Goto(f, "write") /\ fds' = Opened(By[f])
  /\ disk' = [disk EXCEPT ![By[f]] =
                [k \in DOMAIN @ \cup {want[f]} |-> IF k = want[f] THEN <<>> ELSE @[k]]]
  /\ UNCHANGED <<lives, index, want, asked, out, rest, up, down, handler>>

\* ... or add_rfc returns false, which is not looked at ...
OpenFails(f) ==
  /\ pc[f] = "open" /\ ~HasFd(By[f])
  /\ Goto(f, "closing") /\ out' = [out EXCEPT ![f] = <<Word(DISCONNECT)>>]
  /\ UNCHANGED <<nodes, disk, index, want, asked, rest, up, down, handler>>

\* ... the stream passes on a block ...
WriteBlock(f, i) ==
  /\ pc[f] = "write" /\ i \in 1..Len(rest[f])
  /\ disk' = [disk EXCEPT ![By[f]][want[f]] = @ \o SubSeq(rest[f], 1, i)]
  /\ rest' = [rest EXCEPT ![f] = SubSeq(@, i + 1, Len(@))]
  /\ UNCHANGED <<nodes, index, pc, want, asked, out, up, down, handler>>

\* Mutant of CloseFile: the file is closed and no DISCONNECT sent.
CloseFileSilently(f) ==
  /\ pc[f] = "write" /\ rest[f] = <<>>
  /\ Goto(f, "closing") /\ fds' = ClosedOne(By[f])
  /\ UNCHANGED <<lives, disk, index, want, asked, out, rest, up, down, handler>>

\* Mutant of CloseFile: a last block is lost with the stream's buffer.
CloseFileEarly(f) ==
  /\ pc[f] = "write"
  /\ Goto(f, "closing") /\ fds' = ClosedOne(By[f])
  /\ rest' = [rest EXCEPT ![f] = <<>>]
  /\ out' = [out EXCEPT ![f] = <<Word(DISCONNECT)>>]
  /\ UNCHANGED <<lives, disk, index, want, asked, up, down, handler>>

\* ... and all is written.
CloseFile(f) ==
  /\ pc[f] = "write" /\ rest[f] = <<>>
  /\ Goto(f, "closing") /\ fds' = ClosedOne(By[f])
  /\ out' = [out EXCEPT ![f] = <<Word(DISCONNECT)>>]
  /\ UNCHANGED <<lives, disk, index, want, asked, rest, up, down, handler>>

\* The DISCONNECT is sent, and the connection closed.
Disconnect(f) ==
  /\ pc[f] = "closing" /\ out[f] = <<>>
  /\ Goto(f, "notify") /\ fds' = ClosedOne(By[f])
  /\ UNCHANGED <<lives, disk, index, want, asked, out, rest, up, down, handler>>

\* get_rfc tells the index, which refuses a client that it has forgotten.
Notify(f) ==
  /\ pc[f] = "notify" /\ Goto(f, "done")
  /\ listed' = [listed EXCEPT ![want[f]] = @ \cup ({By[f]} \cap known)]
  /\ UNCHANGED <<nodes, disk, known, leaving, want, asked, out, rest, up, down, handler>>

-----------------------------------------------------------------------------
(* The handler for other peers *)

HandlerGoto(f, label) == hpc' = [hpc EXCEPT ![f] = label]

HandlerTakes(f, label) ==
  /\ hpc[f] = label /\ hout[f] = <<>> /\ up[f] # <<>>
  /\ up' = [up EXCEPT ![f] = Tail(@)]

\* recv fails: the connection is closed and everything has been read.
HandlerStarves(f, label) ==
  /\ hpc[f] = label /\ hout[f] = <<>> /\ up[f] = <<>> /\ Closed(f)
  /\ UNCHANGED up

Dispatch(f, w) ==
  /\ message' = [message EXCEPT ![f] = w]
  /\ HandlerGoto(f, CASE w = GET -> "number"
                      [] w = DISCONNECT -> "done"
                      [] w \notin {GET, DISCONNECT} -> "message")

HandlerMessage(f) ==
  /\ HandlerTakes(f, "message") /\ Dispatch(f, Head(up[f]).val)
  /\ UNCHANGED <<nodes, disk, index, fetch, down, hout, number, text>>

\* The old message is swapped again; at first there is none, and it is anything.
HandlerStaleMessage(f) ==
  /\ HandlerStarves(f, "message")
  /\ IF message[f] = None THEN \E w \in {HELLO, GET, DISCONNECT} : Dispatch(f, w)
     ELSE Dispatch(f, NtoHL(message[f]))
  /\ UNCHANGED <<nodes, disk, index, fetch, down, hout, number, text>>

\* The number of a GET, or what the new buffer happens to hold.
HandlerNumber(f) ==
  /\ \/ HandlerTakes(f, "number") /\ number' = [number EXCEPT ![f] = Head(up[f]).val]
     \/ /\ HandlerStarves(f, "number")
        /\ \E k \in Numbers : number' = [number EXCEPT ![f] = Short(k)]
  /\ HandlerGoto(f, "get")
  /\ UNCHANGED <<nodes, disk, index, fetch, down, hout, message, text>>

\* The file rfc<number>.txt of the handler's client.
HasFile(f) == number[f] \in DOMAIN disk[asked[f]]
File(f) == disk[asked[f]][number[f]]

\* get_content opens the file, and never closes it.
GetContent(f) ==
  /\ hpc[f] = "get" /\ HasFile(f) /\ HasFd(asked[f])
  /\ HandlerGoto(f, "read") /\ fds' = Opened(asked[f])
  /\ UNCHANGED <<lives, disk, index, fetch, up, down, hout, message, number, text>>

\* The answer; with it the number and the content go out of scope.
Answer(f, code, content) ==
  /\ hout' = [hout EXCEPT ![f] = <<Size, Response(code, content)>>]
  /\ number' = [number EXCEPT ![f] = None] /\ text' = [text EXCEPT ![f] = <<>>]
  /\ HandlerGoto(f, "message")

\* It throws, and the answer is 404.
GetContentThrows(f) ==
  /\ hpc[f] = "get" /\ (~HasFile(f) \/ ~HasFd(asked[f]))
  /\ Answer(f, 404, <<>>)
  /\ UNCHANGED <<nodes, disk, index, fetch, up, down, message>>

\* The bytes from the reader's place on, to the one that a char cannot tell
\* from EOF.
Unread(f) == Before(SubSeq(File(f), Len(text[f]) + 1, Len(File(f))), "ff")

\* Mutant of ReadBlock: each block is read from the front of the file.
ReadBlockAgain(f, i) ==
  /\ hpc[f] = "read" /\ i \in 1..Len(Unread(f))
  /\ text' = [text EXCEPT ![f] = @ \o SubSeq(File(f), 1, i)]
  /\ UNCHANGED <<nodes, disk, index, fetch, up, down, hpc, hout, message, number>>

\* The stream gets a block of what is there ...
ReadBlock(f, i) ==
  /\ hpc[f] = "read" /\ i \in 1..Len(Unread(f))
  /\ text' = [text EXCEPT ![f] = @ \o SubSeq(Unread(f), 1, i)]
  /\ UNCHANGED <<nodes, disk, index, fetch, up, down, hpc, hout, message, number>>

\* ... until it meets the end as it is at that moment.
ReadEnd(f) ==
  /\ hpc[f] = "read" /\ Unread(f) = <<>>
  /\ Answer(f, 200, text[f])
  /\ UNCHANGED <<nodes, disk, index, fetch, up, down, message>>

HandlerSend(f) ==
  /\ hout[f] # <<>> /\ Head(hout[f]) # Null /\ ~Closed(f)
  /\ down' = [down EXCEPT ![f] = Append(@, Head(hout[f]))]
  /\ hout' = [hout EXCEPT ![f] = Tail(@)]
  /\ UNCHANGED <<nodes, disk, index, fetch, up, hpc, message, number, text>>

HandlerSendLost(f) ==
  /\ hout[f] # <<>> /\ Head(hout[f]) # Null /\ Closed(f)
  /\ hout' = [hout EXCEPT ![f] = Tail(@)]
  /\ UNCHANGED <<nodes, disk, index, fetch, up, down, hpc, message, number, text>>

\* A nullptr is encrypted, or a signal comes.
HandlerSendEnds(f) ==
  /\ hout[f] # <<>> /\ (Head(hout[f]) = Null \/ Closed(f))
  /\ Ends(asked[f])

-----------------------------------------------------------------------------
Lens == 1..Max({0} \cup { Len(content) : content \in Originals })

\* What a fetch does by itself.
FetchStep(f) ==
  \/ Connect(f) \/ ConnectUnanswered(f) \/ ConnectFails(f)
  \/ Send(f) \/ SendLost(f) \/ SendEnds(f)
  \/ RecvSize(f) \/ RecvMissing(f) \/ RecvContent(f)
  \/ OpenFile(f) \/ OpenFails(f) \/ (\E i \in Lens : WriteBlock(f, i)) \/ CloseFile(f)
  \/ Disconnect(f) \/ Notify(f)

HandlerStep(f) ==
  \/ HandlerMessage(f) \/ HandlerStaleMessage(f) \/ HandlerNumber(f)
  \/ GetContent(f) \/ GetContentThrows(f) \/ (\E i \in Lens : ReadBlock(f, i)) \/ ReadEnd(f)
  \/ HandlerSend(f) \/ HandlerSendLost(f) \/ HandlerSendEnds(f)

Next ==
  \/ \E f \in Fetches : (\E k \in Numbers : Get(f, k)) \/ GetThrows(f)
  \/ \E f \in Fetches : FetchStep(f) \/ HandlerStep(f) \/ BlockedThrows(f)
  \/ \E n \in Nodes : Quit(n) \/ Forget(n) \/ Restart(n)

Spec == Init /\ [][Next]_vars

\* The prompts and the handlers run; users need not do anything.
FairSpec ==
  /\ Spec
  /\ \A f \in Fetches : WF_vars(FetchStep(f)) /\ WF_vars(HandlerStep(f))

-----------------------------------------------------------------------------
(* Properties *)

Frames ==
  { Word(w) : w \in {GET, DISCONNECT} } \cup { GetMessage(k) : k \in Numbers }
    \cup {Size, Null}
Contents == Seq(UNION { ToSet(content) : content \in Originals })

\* A frame is one that to_bytes makes, a number a positive short or one that was
\* never sent, and no process has more open than it may.
TypeOK ==
  /\ process \in [Nodes -> {"up", "quit", "ended"}] /\ again \subseteq Restarting
  /\ door \in [Nodes -> {"open", "shut", "none"}]
  /\ limit \in Limits /\ quitters \in Quitting
  /\ \A n \in Nodes : fds[n] \in 0..limit[n]
  /\ \A n \in Nodes : \A k \in DOMAIN disk[n] : disk[n][k] \in Contents
  /\ listed \in [Numbers -> SUBSET Nodes]
  /\ known \subseteq Nodes /\ leaving \subseteq Nodes
  /\ pc \in [Fetches -> Over \cup {"named", "blocked", "size", "body", "open", "write",
                                   "closing", "notify"}]
  /\ hpc \in [Fetches -> {"off", "message", "number", "get", "read", "done", "gone"}]
  /\ want \in [Fetches -> Numbers \cup {None}] /\ asked \in [Fetches -> Nodes \cup {None}]
  /\ \A f \in Fetches :
       /\ ToSet(out[f]) \cup ToSet(up[f]) \subseteq Frames
       /\ \A x \in ToSet(hout[f]) \cup ToSet(down[f]) :
            \/ x \in {Size, Null}
            \/ x.tag = "body" /\ x.val \in {200, 404} /\ x.body \in Contents
       /\ rest[f] \in Contents /\ text[f] \in Contents
  /\ message \in [Fetches -> {HELLO, GET, DISCONNECT, NtoHL(GET), None}]
  /\ number \in [Fetches -> { Short(k) : k \in Numbers } \cup {None}]

Owners(k) == { n \in Nodes : k \in DOMAIN Files[n] }

\* Whatever happens on the way - a file read while it is written, a byte that
\* reads as the end, a process that ends - a stored file holds the beginning of
\* one that somebody had under that number (as a short).  Contents are never
\* mixed, repeated or continued by others.
CopiesArePrefixes ==
  \A n \in Nodes : \A k \in DOMAIN disk[n] :
    \E j \in {k, Short(k)} : \E m \in Owners(j) : IsPrefix(disk[n][k], Files[m][j])

\* A number that all its holders have in a readable file of the same content.
Readable(content) == content # <<>> /\ ToSet(content) \cap {"ff", "nul"} = {}
Sound(k) ==
  /\ Short(k) = k /\ Stale[k] \subseteq Owners(k)
  /\ \A n \in Nodes : k \notin Others[n]
  /\ \A n, m \in Owners(k) : Files[n][k] = Files[m][k] /\ Readable(Files[n][k])

\* A file that add_rfc could not open, and that the index is told of; or one that
\* its process has left in the middle, which the next run announces as it is.
NotStored(k) ==
  \E f \in Fetches :
    want[f] = k /\ rest[f] # <<>> /\ pc[f] \in {"closing", "notify", "done", "dead"}

\* Whom the index names has the whole file, however many hands it went through
\* and whatever run of the client has announced it: get_rfc tells the index when
\* the file is complete, and so the handlers that read files in place never meet
\* one that is being written.
HoldersHaveIt ==
  \A k \in Numbers : Sound(k) /\ ~NotStored(k) =>
    \A n \in listed[k] : \E m \in Owners(k) :
      k \in DOMAIN disk[n] /\ disk[n][k] = Files[m][k]

\* There are descriptors for two at each end of every fetch.
Roomy(n) == limit[n] >= 2 * Cardinality(Fetches)

\* As long as only sound numbers are asked for and nobody quits, no process ends:
\* a transfer leaves the handler with a DISCONNECT, and nothing is sent into a
\* connection that is closed.
SoundFetchesEndNobody ==
  (/\ \A f \in Fetches : want[f] # None =>
        Sound(want[f]) /\ Roomy(By[f]) /\ (asked[f] # None => Roomy(asked[f]))
   /\ \A n \in Nodes : process[n] # "quit" /\ n \notin again)
  => \A n \in Nodes : process[n] # "ended" \/ ~Roomy(n)

\* A get comes to an end, with the file or without, unless the process of the
\* peer has ended while the answer was awaited, or its accept thread before.
FetchEnds ==
  \A f \in Fetches : pc[f] = "named" ~>
    \/ pc[f] \in Over
    \/ pc[f] \in {"size", "body"} /\ hpc[f] = "gone"
    \/ pc[f] = "blocked" /\ door[asked[f]] = "shut"

\* RFCManager: "Get the content of an RFC".  Of a file that nobody writes, what
\* get_content returns is all of it.
ContentIsComplete ==
  [][ \A f \in Fetches : ReadEnd(f) /\ number[f] \in DOMAIN Files[asked[f]] =>
        text[f] = File(f) ]_vars

-----------------------------------------------------------------------------
(* What FileExchange sees of a get *)

Through(content) == Decoded(Before(content, "ff"))

\* The answer under way: there is one at most.
Answers(f) == { x \in ToSet(hout[f]) \cup ToSet(down[f]) : x.tag = "body" }
TheAnswer(f) == CHOOSE x \in Answers(f) : TRUE

StateOf(f) ==
  CASE pc[f] \in {"todo", "none", "missing", "dead"} -> pc[f]
    [] pc[f] = "named" -> "asking"
    [] pc[f] = "open" -> "answered"
    [] pc[f] = "write" -> "storing"
    [] pc[f] \in {"closing", "notify", "done"} -> "over"
    [] OTHER ->
         IF Answers(f) # {}
         THEN IF TheAnswer(f).val = 404 THEN "missing" ELSE "answered"
         ELSE IF hpc[f] = "gone" THEN "stuck" ELSE "asking"

ContentOf(f) ==
  CASE StateOf(f) \notin {"answered", "storing"} -> <<>>
    [] pc[f] \in {"open", "write"} -> rest[f]
    [] OTHER -> Decoded(TheAnswer(f).body)

Exchange == INSTANCE FileExchange WITH
  Named <- Short,
  state <- [f \in Fetches |-> StateOf(f)],
  content <- [f \in Fetches |-> ContentOf(f)]

\* A get receives a file as it is at one instant at which the client it was asked
\* from runs, although that is read, sent, received and written in blocks, while
\* others write, quit, end and come back.
ImplementsExchange == Exchange!Spec

=============================================================================
