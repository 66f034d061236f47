---------------------------- MODULE IndexSession ----------------------------
(***************************************************************************)
(* The clients and the index server, over the frames they exchange.        *)
(*                                                                         *)
(* A session is one run of the client program: its process, its connection *)
(* and the handler thread that serves it.  Every encrypted send of one     *)
(* side is a frame, which one recv of the other side takes; a connection   *)
(* carries frames in order, and loses none while both ends are open.  The  *)
(* index itself is the IndexService that CentralIndex implements.          *)
(***************************************************************************)
EXTENDS RFCHolders, FiniteSets, SequencesExt

CONSTANTS
  Sessions,   \* the runs of the client program
  PeerOf,     \* the address and upload port on each one's command line
  Version,    \* the PROTOCOL_VERSION each one was built with
  Files,      \* the numbers of the files each one finds in its directory
  After,      \* the run whose directory a run takes over once it has ended
  Careless,   \* the runs whose user may interrupt them
  Rfc,        \* the RFC numbers
  None

ServerVersion == 1

\* enum class P2SMessage
HELLO == 0
ADD == 1
LIST == 2
LOOKUP == 3
DISCONNECT == 4

\* Mutant of NtoHL: a shift that does not undo itself.
NtoHLShifts(w) == w * 256

\* ntohl of a word that has one significant byte, at either end.
NtoHL(w) == IF w < 256 THEN w * 16777216 ELSE w \div 16777216

Holder == HolderOver(Rfc)

\* The largest number that a GET can ask for: it is a short.
ShortMax == 32767

ASSUME SessionsAssumption ==
  /\ PeerOf \in [Sessions -> Peer]
  /\ Version \in [Sessions -> Nat]
  /\ Files \in [Sessions -> Seq(Rfc)]
  /\ After \in [Sessions -> Sessions \cup {None}]
  /\ Careless \subseteq Sessions
  /\ Rfc \subseteq 1..ShortMax /\ None \notin Nat /\ None \notin Sessions

VARIABLES
  registered, holders, reply,   \* the index (IndexService)
  server_up,  \* the server process runs
  up, down,   \* the frames on their way to the server, and to the client
  cpc,        \* where a client is
  cout,       \* the frames a client sends before it goes on
  files,      \* the numbers a client has still to announce
  stored,     \* the numbers a client has a file for
  want,       \* the number a client is fetching
  from,       \* the run a client is fetching it from
  hpc,        \* where a handler is
  hout,       \* the frames a handler sends before it goes on
  message     \* a handler's variable of that name (None: not yet received)

index == <<registered, holders, reply>>
client == <<cpc, cout, files, stored, want, from>>
handler == <<hpc, hout, message>>
vars == <<index, server_up, up, down, client, handler>>

Index == INSTANCE IndexService WITH Handlers <- Sessions

-----------------------------------------------------------------------------
(* Frames *)

Frame(tag, val) == [tag |-> tag, val |-> val, body |-> {}]

\* Mutant of Response: an empty response goes without its size.
ResponseEmptyBare(S) ==
  IF S = {} THEN <<[tag |-> "body", val |-> 0, body |-> S]>>
  ELSE <<Frame("size", 0), [tag |-> "body", val |-> 0, body |-> S]>>

\* The nullptr that to_bytes returns for a response that is not valid.
Null == Frame("null", 0)

\* is_valid of a response that holds a peer: nothing checks a command line for
\* an address that is empty or a port that is not positive.
Listable(peer) == peer.host # NoHost /\ peer.port > 0

Valid(S) == \A e \in S : Listable(e.peer)

\* A list or lookup response: its size first, then 404 and nothing, or 200 and
\* the holders in order.
Response(S) ==
  <<Frame("size", 0), IF Valid(S) THEN [tag |-> "body", val |-> 0, body |-> S] ELSE Null>>

Command(word) == Frame("message", NtoHL(word))

\* What a side at a label takes from the connection next.
ClientExpects == [version |-> "version", add_code |-> "code", got_code |-> "code",
                  list_size |-> "size", list_body |-> "body",
                  lookup_size |-> "size", lookup_body |-> "body"]
HandlerExpects == [version |-> "version", host_len |-> "host_len", host |-> "host",
                   port |-> "port", message |-> "message",
                   add_number |-> "number", lookup_number |-> "number"]

ClientGoto(s, label) == cpc' = [cpc EXCEPT ![s] = label]
HandlerGoto(s, label) == hpc' = [hpc EXCEPT ![s] = label]

Ended(s) == cpc[s] = "ended"

\* The next frame to arrive at each side.
ToClient(s) == Head(down[s])
ToHandler(s) == Head(up[s])

\* A client at a label takes the next frame and goes on.
ClientTakes(s, label, next) ==
  /\ cpc[s] = label /\ cout[s] = <<>> /\ down[s] # <<>>
  /\ down' = [down EXCEPT ![s] = Tail(@)]
  /\ ClientGoto(s, next)

\* A handler at a label takes the next frame and goes on.
HandlerTakes(s, label, next) ==
  /\ server_up /\ hpc[s] = label /\ hout[s] = <<>> /\ up[s] # <<>>
  /\ up' = [up EXCEPT ![s] = Tail(@)]
  /\ HandlerGoto(s, next)

\* A handler's recv fails: its client has ended and everything has been read.
HandlerStarves(s, label, next) ==
  /\ server_up /\ hpc[s] = label /\ hout[s] = <<>>
  /\ up[s] = <<>> /\ Ended(s)
  /\ HandlerGoto(s, next)
  /\ UNCHANGED up
-----------------------------------------------------------------------------
Init ==
  /\ Index!Init
  /\ server_up = TRUE
  /\ up = [s \in Sessions |-> <<>>] /\ down = [s \in Sessions |-> <<>>]
  /\ cpc = [s \in Sessions |-> "off"] /\ hpc = [s \in Sessions |-> "off"]
  /\ cout = [s \in Sessions |-> <<>>] /\ hout = [s \in Sessions |-> <<>>]
  /\ files = [s \in Sessions |-> <<>>] /\ stored = [s \in Sessions |-> {}]
  /\ want = [s \in Sessions |-> None] /\ from = [s \in Sessions |-> None]
  /\ message = [s \in Sessions |-> None]

-----------------------------------------------------------------------------
(* The client program *)

\* get_rfcs, of a directory with a file for each number of a set.
Sorted(S) == CHOOSE q \in [1..Cardinality(S) -> S] : \A i, j \in DOMAIN q : i < j => q[i] < q[j]

\* The process starts, lists its directory and connects.
Start(s) ==
  /\ server_up /\ cpc[s] = "off"
  /\ \/ After[s] = None /\ files' = [files EXCEPT ![s] = Files[s]]
     \/ /\ After[s] # None /\ Ended(After[s])
        /\ files' = [files EXCEPT ![s] = Sorted(stored[After[s]])]
  /\ stored' = [stored EXCEPT ![s] = ToSet(files'[s])]
  /\ cout' = [cout EXCEPT ![s] = <<Frame("version", Version[s])>>]
  /\ ClientGoto(s, "version")
  /\ UNCHANGED <<index, server_up, up, down, want, from, handler>>

ClientSend(s) ==
  /\ server_up /\ cout[s] # <<>>
  /\ up' = [up EXCEPT ![s] = Append(@, Head(cout[s]))]
  /\ cout' = [cout EXCEPT ![s] = Tail(@)]
  /\ UNCHANGED <<index, server_up, down, cpc, files, stored, want, from, handler>>

\* The process is gone, and with it what it had not sent or not read.
End(s) ==
  /\ ClientGoto(s, "ended")
  /\ cout' = [cout EXCEPT ![s] = <<>>]
  /\ down' = [down EXCEPT ![s] = <<>>]

\* A send to a server that is gone ends the client (SIGPIPE).
ClientSendFails(s) ==
  /\ ~server_up /\ cout[s] # <<>>
  /\ End(s)
  /\ UNCHANGED <<index, server_up, up, files, stored, want, from, handler>>

\* The server's version: with another one than its own the client returns.
ClientVersion(s) ==
  /\ \/ /\ ClientTakes(s, "version", "announce")
        /\ ToClient(s).val = Version[s]
        /\ cout' = [cout EXCEPT ![s] =
             <<Frame("host_len", 0), Frame("host", 0), Frame("port", 0)>>]
     \/ /\ ClientTakes(s, "version", "ended")
        /\ ToClient(s).val # Version[s]
        /\ UNCHANGED cout
  /\ UNCHANGED <<index, server_up, up, files, stored, want, from, handler>>

\* add_available_rfcs: the next number, or the prompt after the last.
Announce(s) ==
  /\ cpc[s] = "announce" /\ cout[s] = <<>>
  /\ IF files[s] = <<>>
     THEN ClientGoto(s, "prompt") /\ UNCHANGED cout
     ELSE /\ ClientGoto(s, "add_code")
          /\ cout' = [cout EXCEPT ![s] = <<Command(ADD), Frame("number", Head(files[s]))>>]
  /\ UNCHANGED <<index, server_up, up, down, files, stored, want, from, handler>>

\* Any answer but 200 ends the loop, with the rest not announced.
Announced(s) ==
  /\ \/ /\ ClientTakes(s, "add_code", "announce")
        /\ ToClient(s).val = 200
        /\ files' = [files EXCEPT ![s] = Tail(@)]
     \/ /\ ClientTakes(s, "add_code", "prompt")
        /\ ToClient(s).val # 200
        /\ files' = [files EXCEPT ![s] = <<>>]
  /\ UNCHANGED <<index, server_up, up, cout, stored, want, from, handler>>

AtPrompt(s) == cpc[s] = "prompt" /\ cout[s] = <<>>

\* Mutant of ListRemote: back to the prompt, with the response still to come.
ListRemoteUnread(s) ==
  /\ AtPrompt(s)
  /\ cout' = [cout EXCEPT ![s] = <<Command(LIST)>>]
  /\ UNCHANGED <<index, server_up, up, down, cpc, files, stored, want, from, handler>>

\* list
ListRemote(s) ==
  /\ AtPrompt(s) /\ ClientGoto(s, "list_size")
  /\ cout' = [cout EXCEPT ![s] = <<Command(LIST)>>]
  /\ UNCHANGED <<index, server_up, up, down, files, stored, want, from, handler>>

\* Mutant of Get: the number is not sent.
GetWithoutNumber(s, n) ==
  /\ AtPrompt(s) /\ n \notin stored[s] /\ ClientGoto(s, "lookup_size")
  /\ want' = [want EXCEPT ![s] = n]
  /\ cout' = [cout EXCEPT ![s] = <<Command(LOOKUP)>>]
  /\ UNCHANGED <<index, server_up, up, down, files, stored, from, handler>>

\* get, for a number there is no file for
Get(s, n) ==
  /\ AtPrompt(s) /\ n \notin stored[s] /\ ClientGoto(s, "lookup_size")
  /\ want' = [want EXCEPT ![s] = n]
  /\ cout' = [cout EXCEPT ![s] = <<Command(LOOKUP), Frame("number", n)>>]
  /\ UNCHANGED <<index, server_up, up, down, files, stored, from, handler>>

\* A response comes as its size and then that many bytes.
ResponseSize(s) ==
  /\ \/ ClientTakes(s, "list_size", "list_body")
     \/ ClientTakes(s, "lookup_size", "lookup_body")
  /\ UNCHANGED <<index, server_up, up, cout, files, stored, want, from, handler>>

Listed(s) ==
  /\ ClientTakes(s, "list_body", "prompt")
  /\ UNCHANGED <<index, server_up, up, cout, files, stored, want, from, handler>>

\* The runs that have a listener at a peer's port.
Serving(peer) == { t \in Sessions : PeerOf[t] = peer /\ cpc[t] \notin {"off", "ended"} }

LookupMissing(s) ==
  /\ ClientTakes(s, "lookup_body", "prompt")
  /\ ToClient(s).body = {}
  /\ want' = [want EXCEPT ![s] = None]
  /\ UNCHANGED <<index, server_up, up, cout, files, stored, from, handler>>

\* The first of the hosts is asked, and answers the connection.
PeerConnects(s) ==
  /\ ClientTakes(s, "lookup_body", "fetch")
  /\ ToClient(s).body # {}
  /\ \E t \in Serving(FrontOf(ToClient(s).body).peer) : from' = [from EXCEPT ![s] = t]
  /\ UNCHANGED <<index, server_up, up, cout, files, stored, want, handler>>

\* Nobody listens there any more: connect only prints, and the first send
\* throws for want of a key, which nothing catches.
PeerIsGone(s) ==
  /\ cpc[s] = "lookup_body" /\ down[s] # <<>>
  /\ ToClient(s).body # {} /\ Serving(FrontOf(ToClient(s).body).peer) = {}
  /\ End(s)
  /\ UNCHANGED <<index, server_up, up, files, stored, want, from, handler>>

\* The peer has sent the file, and need not be there any more.  (If it ends
\* before, recv never returns.)
PeerAnswers(s) ==
  /\ cpc[s] = "fetch" /\ ~Ended(from[s]) /\ want[s] \in stored[from[s]]
  /\ ClientGoto(s, "store")
  /\ UNCHANGED <<index, server_up, up, down, cout, files, stored, want, from, handler>>

\* Mutant of FetchDone: the index is not told.
FetchDoneQuiet(s) ==
  /\ cpc[s] = "store"
  /\ ClientGoto(s, "prompt")
  /\ stored' = [stored EXCEPT ![s] = @ \cup {want[s]}]
  /\ UNCHANGED <<index, server_up, up, down, cout, files, want, from, handler>>

\* get_from_peer returns true: the file is written, then the index told.
FetchDone(s) ==
  /\ cpc[s] = "store"
  /\ ClientGoto(s, "got_code")
  /\ stored' = [stored EXCEPT ![s] = @ \cup {want[s]}]
  /\ cout' = [cout EXCEPT ![s] = <<Command(ADD), Frame("number", want[s])>>]
  /\ UNCHANGED <<index, server_up, up, down, files, want, from, handler>>

\* The peer has no such file (404).  The connection is closed without a
\* DISCONNECT, which may end the peer: its handler answers once more (SIGPIPE).
FetchMissing(s) ==
  /\ cpc[s] = "fetch" /\ ~Ended(from[s]) /\ want[s] \notin stored[from[s]]
  /\ \/ ClientGoto(s, "prompt") /\ UNCHANGED <<cout, down>>
     \/ LET t == from[s] IN
        /\ cpc' = [cpc EXCEPT ![s] = "prompt", ![t] = "ended"]
        /\ cout' = [cout EXCEPT ![t] = <<>>]
        /\ down' = [down EXCEPT ![t] = <<>>]
  /\ want' = [want EXCEPT ![s] = None] /\ from' = [from EXCEPT ![s] = None]
  /\ UNCHANGED <<index, server_up, up, files, stored, handler>>

\* The answer to the last ADD of get_rfc, which is only printed.
GotCode(s) ==
  /\ ClientTakes(s, "got_code", "prompt")
  /\ want' = [want EXCEPT ![s] = None] /\ from' = [from EXCEPT ![s] = None]
  /\ UNCHANGED <<index, server_up, up, cout, files, stored, handler>>

\* Mutant of Quit: closes without DISCONNECT.
QuitSilently(s) ==
  /\ AtPrompt(s) /\ ClientGoto(s, "quit")
  /\ UNCHANGED <<index, server_up, up, down, cout, files, stored, want, from, handler>>

\* quit
Quit(s) ==
  /\ AtPrompt(s) /\ ClientGoto(s, "quit")
  /\ cout' = [cout EXCEPT ![s] = <<Command(DISCONNECT)>>]
  /\ UNCHANGED <<index, server_up, up, down, files, stored, want, from, handler>>

Close(s) ==
  /\ cpc[s] = "quit" /\ cout[s] = <<>>
  /\ End(s)
  /\ UNCHANGED <<index, server_up, up, files, stored, want, from, handler>>

\* Ctrl+C, once the client has introduced itself.
Interrupt(s) ==
  /\ s \in Careless /\ cpc[s] \notin {"off", "version", "ended"}
  /\ cpc[s] = "announce" => cout[s] = <<>>
  /\ End(s)
  /\ UNCHANGED <<index, server_up, up, files, stored, want, from, handler>>

-----------------------------------------------------------------------------
(* client_handler *)

Accept(s) ==
  /\ server_up /\ hpc[s] = "off" /\ cpc[s] # "off"
  /\ HandlerGoto(s, "version")
  /\ hout' = [hout EXCEPT ![s] = <<Frame("version", ServerVersion)>>]
  /\ UNCHANGED <<index, server_up, up, down, client, message>>

HandlerSend(s) ==
  /\ server_up /\ hout[s] # <<>> /\ Head(hout[s]) # Null /\ ~Ended(s)
  /\ down' = [down EXCEPT ![s] = Append(@, Head(hout[s]))]
  /\ hout' = [hout EXCEPT ![s] = Tail(@)]
  /\ UNCHANGED <<index, server_up, up, client, hpc, message>>

\* A nullptr is encrypted.
HandlerSendNull(s) ==
  /\ server_up /\ hout[s] # <<>> /\ Head(hout[s]) = Null
  /\ server_up' = FALSE
  /\ UNCHANGED <<index, up, down, client, handler>>

\* A send to a client that is gone: the first bytes are taken for nothing, the
\* next ones end the server process (SIGPIPE).
HandlerSendFails(s) ==
  /\ server_up /\ hout[s] # <<>> /\ Head(hout[s]) # Null /\ Ended(s)
  /\ \/ hout' = [hout EXCEPT ![s] = Tail(@)] /\ UNCHANGED server_up
     \/ server_up' = FALSE /\ UNCHANGED hout
  /\ UNCHANGED <<index, up, down, client, hpc, message>>

\* With another version the handler returns, and leaves the socket open.
HandlerVersion(s) ==
  /\ HandlerTakes(s, "version",
                  IF ToHandler(s).val = ServerVersion THEN "host_len" ELSE "rejected")
  /\ UNCHANGED <<index, server_up, down, client, hout, message>>

\* The buffer recv takes for the MAC is as long as the text: for an empty
\* address a null pointer, which is read, and may end the server.
HandlerHost(s) ==
  /\ \/ HandlerTakes(s, "host_len", "host") /\ UNCHANGED server_up
     \/ HandlerTakes(s, "host", "port") /\ UNCHANGED server_up
     \/ HandlerTakes(s, "host", "port") /\ PeerOf[s].host = NoHost /\ server_up' = FALSE
  /\ UNCHANGED <<index, down, client, hout, message>>

\* The last of the introduction, and add_client.
HandlerPort(s) ==
  /\ HandlerTakes(s, "port", "message")
  /\ Index!Register(s)
  /\ UNCHANGED <<server_up, down, client, hout, message>>

\* Where the switch goes.
Dispatch(word) ==
  CASE word = ADD -> "add_number"
    [] word = LIST -> "list"
    [] word = LOOKUP -> "lookup_number"
    [] word = DISCONNECT -> "remove"
    [] OTHER -> "message"

HandlerMessage(s) ==
  /\ HandlerTakes(s, "message", Dispatch(NtoHL(ToHandler(s).val)))
  /\ message' = [message EXCEPT ![s] = NtoHL(ToHandler(s).val)]
  /\ UNCHANGED <<index, server_up, down, client, hout>>

\* The client is gone: recv leaves message as it was (or never set), and ntohl
\* turns it round once more, so every second time it is the last command again.
HandlerStaleMessage(s) ==
  /\ \E old \in IF message[s] = None THEN {HELLO, ADD, LIST, LOOKUP, DISCONNECT}
                                     ELSE {NtoHL(message[s])} :
       /\ HandlerStarves(s, "message", Dispatch(old))
       /\ message' = [message EXCEPT ![s] = old]
  /\ UNCHANGED <<index, server_up, down, client, hout>>

\* The number that follows a command; what the buffer held when recv fails.
HandlerNumber(s, n, label, next) ==
  \/ HandlerTakes(s, label, next) /\ n = ToHandler(s).val
  \/ HandlerStarves(s, label, next)

\* Mutant of HandlerAdd: only a success is answered.
HandlerAddSilent(s) ==
  /\ \E n \in Rfc :
       /\ HandlerNumber(s, n, "add_number", "message")
       /\ IF [rfc |-> n, peer |-> PeerOf[s]] \notin holders /\ PeerOf[s] \in registered
          THEN Index!Announce(s, n) /\ hout' = [hout EXCEPT ![s] = <<Frame("code", 200)>>]
          ELSE UNCHANGED <<index, hout>>
  /\ UNCHANGED <<server_up, down, client, message>>

\* add_rfc
HandlerAdd(s) ==
  /\ \E n \in Rfc :
       /\ HandlerNumber(s, n, "add_number", "message")
       /\ IF [rfc |-> n, peer |-> PeerOf[s]] \notin holders /\ PeerOf[s] \in registered
          THEN Index!Announce(s, n) /\ hout' = [hout EXCEPT ![s] = <<Frame("code", 200)>>]
          ELSE UNCHANGED index /\ hout' = [hout EXCEPT ![s] = <<Frame("code", 400)>>]
  /\ UNCHANGED <<server_up, down, client, message>>

HandlerList(s) ==
  /\ server_up /\ hpc[s] = "list" /\ hout[s] = <<>>
  /\ HandlerGoto(s, "respond")
  /\ Index!Query(s, None)
  /\ UNCHANGED <<server_up, up, down, client, hout, message>>

HandlerLookup(s) ==
  /\ \E n \in Rfc : /\ HandlerNumber(s, n, "lookup_number", "respond")
                    /\ Index!Query(s, n)
  /\ UNCHANGED <<server_up, down, client, hout, message>>

HandlerRespond(s) ==
  /\ server_up /\ hpc[s] = "respond"
  /\ HandlerGoto(s, "message")
  /\ hout' = [hout EXCEPT ![s] = Response(reply[s])]
  /\ Index!Respond(s)
  /\ UNCHANGED <<server_up, up, down, client, message>>

\* remove_client, in its two parts, and close.
HandlerRemove(s) ==
  /\ server_up
  /\ \/ hpc[s] = "remove" /\ HandlerGoto(s, "leave") /\ Index!Withdraw(s)
     \/ hpc[s] = "leave" /\ HandlerGoto(s, "finished") /\ Index!Unregister(s)
  /\ UNCHANGED <<server_up, up, down, client, hout, message>>

-----------------------------------------------------------------------------
\* What a user may do.
User(s) ==
  \/ Start(s) \/ ListRemote(s) \/ (\E n \in Rfc : Get(s, n)) \/ Quit(s) \/ Interrupt(s)

\* What a client does of its own accord.
ClientStep(s) ==
  \/ ClientSend(s) \/ ClientSendFails(s) \/ ClientVersion(s)
  \/ Announce(s) \/ Announced(s) \/ ResponseSize(s) \/ Listed(s)
  \/ LookupMissing(s) \/ PeerConnects(s) \/ PeerIsGone(s)
  \/ PeerAnswers(s) \/ FetchDone(s) \/ FetchMissing(s) \/ GotCode(s) \/ Close(s)

HandlerStep(s) ==
  \/ Accept(s) \/ HandlerSend(s) \/ HandlerSendNull(s) \/ HandlerSendFails(s)
  \/ HandlerVersion(s) \/ HandlerHost(s) \/ HandlerPort(s)
  \/ HandlerMessage(s) \/ HandlerStaleMessage(s)
  \/ HandlerAdd(s) \/ HandlerList(s) \/ HandlerLookup(s) \/ HandlerRespond(s)
  \/ HandlerRemove(s)

Next == \E s \in Sessions : User(s) \/ ClientStep(s) \/ HandlerStep(s)

Spec == Init /\ [][Next]_vars

\* Every process and thread runs on; users do as they like.
FairSpec ==
  Spec /\ \A s \in Sessions : WF_vars(ClientStep(s)) /\ WF_vars(HandlerStep(s))

-----------------------------------------------------------------------------
(* Properties *)

ClientLabels == DOMAIN ClientExpects \cup
                {"off", "announce", "prompt", "fetch", "store", "quit", "ended"}
HandlerLabels == DOMAIN HandlerExpects \cup
                 {"off", "rejected", "list", "respond", "remove", "leave", "finished"}
Words == {HELLO, ADD, LIST, LOOKUP, DISCONNECT}
Frames == [tag : {"version", "host_len", "host", "port", "message", "number", "code",
                  "size", "body", "null"},
           val : Nat, body : SUBSET Holder]

\* Each side is at one of its labels, with frames that the other one may send and
\* with numbers that the clients have.
TypeOK ==
  /\ registered \subseteq Peer /\ holders \subseteq Holder
  /\ reply \in [Sessions -> SUBSET Holder]
  /\ server_up \in BOOLEAN
  /\ \A s \in Sessions : \A c \in {up[s], down[s], cout[s], hout[s]} : c \in Seq(Frames)
  /\ cpc \in [Sessions -> ClientLabels] /\ hpc \in [Sessions -> HandlerLabels]
  /\ files \in [Sessions -> Seq(Rfc)] /\ stored \in [Sessions -> SUBSET Rfc]
  /\ want \in [Sessions -> Rfc \cup {None}] /\ from \in [Sessions -> Sessions \cup {None}]
  /\ message \in [Sessions -> Words \cup { NtoHL(w) : w \in Words } \cup {None}]

\* Whatever arrives is what the receiver is about to take, in both directions:
\* the two programs send and receive the same frames in the same order, on
\* every path, also after the other side's client was interrupted half way.
FramesMatch ==
  \A s \in Sessions :
    /\ down[s] # <<>> /\ cout[s] = <<>> =>
         cpc[s] \in DOMAIN ClientExpects /\ ToClient(s).tag = ClientExpects[cpc[s]]
    /\ up[s] # <<>> /\ hout[s] = <<>> /\ hpc[s] \in DOMAIN HandlerExpects =>
         ToHandler(s).tag = HandlerExpects[hpc[s]]
    /\ hpc[s] \in {"rejected", "finished"} => up[s] = <<>>

\* Nothing is under way between a client at its prompt and its handler.
Idle(s) ==
  /\ server_up /\ AtPrompt(s)
  /\ up[s] = <<>> /\ down[s] = <<>> /\ hpc[s] = "message" /\ hout[s] = <<>>

\* The index "tracks which clients are connected to it ... which RFCs are
\* offered by each client": a client at its prompt is listed, and under exactly
\* the numbers it has files for, whatever becomes of the other clients.
ConnectedIsListed ==
  \A s \in Sessions : Idle(s) =>
    /\ PeerOf[s] \in registered
    /\ { e \in holders : e.peer = PeerOf[s] } =
         { [rfc |-> n, peer |-> PeerOf[s]] : n \in stored[s] }

\* A client has ended in another way than by quit: there is no DISCONNECT in what
\* it has sent.
Abandoned(s) ==
  /\ Ended(s) /\ message[s] # DISCONNECT
  /\ Command(DISCONNECT) \notin ToSet(up[s])

\* No client that quits, whatever it has asked for before and whatever others
\* do, ends the server: that takes one that has ended otherwise, to which an
\* answer is sent, or one with a host or port that no response can hold, once a
\* command of it has been received (its holder may be in a response after it was
\* withdrawn), or for an empty host as soon as that has been received.
QuittersEndNoServer ==
  ~server_up =>
    \E s \in Sessions :
      \/ Abandoned(s)
      \/ ~Listable(PeerOf[s]) /\ message[s] # None
      \/ PeerOf[s].host = NoHost /\ hpc[s] = "port"

\* Every request is answered, unless the server is gone: no client waits for an
\* answer for ever.
RequestsAnswered ==
  \A s \in Sessions : []<>(cpc[s] \notin DOMAIN ClientExpects \/ ~server_up)

\* A client whose DISCONNECT is on its way is forgotten, unless the server is
\* gone.
QuitForgets ==
  \A s \in Sessions :
    cpc[s] = "quit" /\ cout[s] = <<>> ~>
      \/ PeerOf[s] \notin registered /\ \A e \in holders : e.peer # PeerOf[s]
      \/ ~server_up

=============================================================================
