# Verification of csc401-project

A model, model checks and proofs of the peer-to-peer system in this repository:
a central index, the clients that announce and exchange RFC files, the listener
that serves connections and the sockets under all of them. Paths are given from
the repository's root (`src/server.cpp`, `include/common.hpp`).

## The system

| Part | State | Operations | Works with |
|---|---|---|---|
| CentralIndex (`src/central_index.cpp`) | two lists, `clients` and `rfcs`, a mutex each | `add_client`, `remove_client`, `add_rfc`, `find_rfcs`, `all_rfcs` | called by every handler thread of the server |
| Server (`src/server.cpp`) | one handler per connection, its `message` | `client_handler`: version, introduction, commands, removal | a client over a socket, CentralIndex |
| Client (`src/client.cpp`) | connection, directory | announce, `list`, `get`, `quit`; a handler for other peers | server, other clients, RFCManager |
| Listener (`src/encrypted_server_socket_listener.cpp`) | `client_threads`, accept and cleanup threads | `listen`, `close`, accepting, reaping | starts the handlers of server and client |
| Sockets (`src/*_socket.cpp`) | descriptor, cipher | `send`, `recv`, plain and encrypted | everything |
| Handshake (`src/crypto_common.cpp`) | key, IV | `Crypto::handshake` | sockets, in the accept thread |
| RFCManager (`src/rfc_manager.cpp`) | a directory | `get_rfcs`, `add_rfc`, `get_content` | client, from the prompt and from handlers |
| Messages (`src/*_msg.cpp`, `src/*_res.cpp`) | fields | `to_bytes`, `from_bytes`, `message_size` | server, client |

What is hard here:

* **CentralIndex**: handlers interleave inside the calls; `remove_client` has
  two critical sections with a gap between them. Correct means: the lists are
  touched under their mutex, hold nothing twice, are sorted whenever read, hold
  exactly what is connected and acknowledged, no call blocks for ever, and a
  caller sees operations that happen at an instant.
* **Server and client**: frames carry no tag, so both programs have to send and
  receive the same frames on every path; results of `recv` are not looked at; a
  client may end anywhere. Correct means: in step, every request answered, a
  connected client listed with its files, a client that quits forgotten.
* **Listener**: two threads share a vector without a lock, and the handshake is
  made by the thread that accepts. Correct means: every connection gets a
  handler, every handler one keeper, nothing that has been freed is read,
  everything finished is reaped.
* **Transfers and files**: files are written and read in place by threads that
  know nothing of each other, and what ends a transfer badly ends a process.
  Correct means: a copy is what its source had, the index names nobody who does
  not have the file, a transfer harms nobody.
* **Sockets**: transfers in pieces, ends, resets, and an `int` added to a
  `size_t`. Correct means: a frame arrives as it was sent, and a call returns.
* **Handshake**: eight exchanges of which no result is looked at, ended by one
  verification; an exception is the end of the process, in the server that of
  everybody's. Correct means: whoever gets through has what the other end has,
  the exceptions are never the work of two ends that are both there, and it ends.
* **Messages**: every class writes its fields in one function, reads them in
  another and counts them in a third. Correct means: what arrives is what was
  sent, all of it is read, and no copy leaves the buffer.

`PROJECT.json` lists the hazards at their lines, with the properties for each.
Where the code does meet a hazard, a property that holds has to except it: those
hazards have no property there, and a note that names the actions that model them
and the exception.

## The modules

| Module | Models | Lines of code |
|---|---|---|
| `RFCHolders` | `Client`, `RFCHolder`, their order and sort | `common.hpp`, `central_index.cpp` 19-25 |
| `IndexService` | abstract: what the index promises | the five functions, each one instant |
| `CentralIndex` | the five functions, between points where another thread can notice | `central_index.cpp` |
| `CentralIndexProofs` | proofs about it | |
| `IndexSession` | client program, frames, `client_handler`; the index as `IndexService` | `server.cpp`, `client.cpp` |
| `IndexSessionProofs` | proofs about it | |
| `Listener` | `listen`, accept, cleanup and handler threads, `close`, of both listeners | `encrypted_server_socket_listener.cpp`, `server_socket_listener.cpp` |
| `ListenerProofs` | proofs about it | |
| `Handshake` | both ends of `Crypto::handshake`, `connect`, `accept` | `crypto_common.cpp`, `encrypted_*_socket.cpp` |
| `HandshakeProofs` | proofs about it | |
| `SocketIO` | one direction of an encrypted connection | `*_socket.cpp` |
| `SocketIOProofs` | proofs about it | |
| `SetInduction` | induction over the natural numbers, for the proofs | |
| `Messages` | the seven message classes | `*_msg.cpp`, `*_res.cpp` |
| `MessagesProofs` | proofs about it | |
| `FileExchange` | abstract: what a `get` promises of the files | `client.cpp` 58-111, `rfc_manager.cpp` |
| `PeerTransfer` | `get_rfc`, `get_from_peer`, the handler for other peers, and the files | `client.cpp`, `rfc_manager.cpp`, `get_rfc_*.cpp` |
| `PeerTransferProofs` | proofs about it | |
| `MC...` | values of the constants for TLC | |

`PeerTransfer` implements `FileExchange`, and `CentralIndex` implements
`IndexService` (both checked, and proved). `IndexSession` instantiates
`IndexService`: the sessions are checked over what the index promises and not
over its locks. The other modules meet in what they take from
each other: `IndexSession` and `PeerTransfer` send frames, which `SocketIO`
carries and `Messages` fills; `Connect` of `PeerTransfer` and `Accept` of
`IndexSession` are a `Handshake` made in the accept thread of a `Listener`.

### CentralIndex

A handler is in one call at a time; `pc` says where. A step goes from one point
at which another thread can notice something to the next: a call begins and waits
for its first mutex (`Call`, then `"rfcs_wait"`; `"hello"` for `add_client`), a mutex
is taken, a list changed, one element looked at, a mutex released together with the return.
`it` is an iterator as a position, `l` the list a query fills. `acked`, the
numbers a handler has answered with 200, exists for `AckedIsListed`. A handler
calls `add_client` first and `remove_client` last, as `client_handler` does. A
scan that only reads, with its mutex held, is one step. Erasing takes a step
per element, as does copying: those are the loops in which an iterator lives.

### IndexSession

A session is one run of the client program; a later session may take over the
directory of an earlier one (`After`); it announces what it finds there in
ascending order (`Sorted`, which is `get_rfcs`). An encrypted `send` is one frame; `up`
and `down` hold the frames under way, `cout` and `hout` those a side still has
to send before it goes on. A handler whose client has ended gets nothing from
`recv`: `message` is then the old word with its bytes swapped
(`HandlerStaleMessage`), and a number is anything (`HandlerNumber`). A send to
a client that is gone is lost or ends the server (SIGPIPE). A response with an
empty host, or a port that is not positive, is not valid (`Valid`, `Listable`): the
server encrypts the `nullptr` that `to_bytes` returns (`HandlerSendNull`). Nothing
checks either on a command line. An empty host may end the server already where it
is received, since `recv` then reads its MAC through a null pointer (`HandlerHost`;
whether a build does is left open). `Careless` names
the sessions whose user may press Ctrl+C; the README of the program asks not to,
and `session_quick`, which shows a disagreement, leaves the set empty.

The fetch from another peer is the answer and the storing here, as in
`FileExchange` (`PeerTransfer` has its frames): the answer needs the peer to run
and to have the file, and its 404 may end the peer, whose handler repeats the GET into
a closed connection. A peer that ends first leaves the client waiting.

### PeerTransfer

A fetch is one `get`: `pc` is the place of the thread at the prompt, `hpc` that
of the handler at the other end, `up` and `down` are the frames between them.
The index is the map `listed`, which a fetch reads when it asks and extends when
it is done; a client that has quit is forgotten at some later moment (`Forget`),
and one whose process has ended otherwise is not. `Stale` says whom the index
still names from an earlier run. The introduction belongs to `Connect`.

Contents are sequences of bytes, of which two matter: 0, where `from_bytes` ends
its string, and 255, which `get_content` takes for EOF. A stream's block is any
number of bytes; a file is visible from `fopen` on, and grows block by block
(`WriteBlock`) while others may read it (`ReadBlock`). A message that is not
valid is `Null`: encrypting the `nullptr` of `to_bytes` ends the process, as a
SIGPIPE does (`Ends`). `fds` counts the descriptors that accepting,
`get_content`, `add_rfc` and `connect` take; the first two never give theirs
back. A process has what one of `Limits` says. A directory is a function from
numbers to the contents of `rfc<number>.txt`; `Others` are files of which
`get_rfcs` reads a number but which `get_content` does not open.

A handler that gets nothing from `recv` behaves as in `IndexSession`: a GET is
repeated every second time. The number is then what a new buffer holds, here a
number that somebody asks for.

A client of `Restarting` may be started again, once, when it has quit or ended
(`Restart`). Its directory is as the last run left it, with a file half written
perhaps; it announces what is there in ascending order, up to the first number
that the index refuses (`Announces`). Its `listen` may fail, which nobody looks
at (`door` is then `"none"`). `known` and `leaving` are what the index knows of
clients and has yet to do about those that quit: one that is back before it is
forgotten is forgotten with its new run.

`FileExchange` has no connections and no handlers: an answer is taken at one
instant, of a process that runs, from the file as it is then; it is stored, in
blocks, by the client alone; who ends takes the answers with it that nobody has
received, and does not bring them back when it is started again. `StateOf` and
`ContentOf` map a get to it: the answer is made when `get_content` has met the
end of the file, and is lost again if the process ends before it is sent.

### Listener

`push_back` and `erase` are split into their accesses to the vector's memory:
the new element and the new end, the larger buffer and the exchange of buffers,
the shift and the new end. The Makefile does not optimise, so `++` and `--` of
the end are a load and a store, and an update may be lost between them. An
iterator remembers the size of the buffer it points into (buffers only grow).
`kind` is the class: `ServerSocketListener` has the same code with a socket that
makes no handshake, so only `"encrypted"` waits for the other side or throws.
`listen` may fail (`ListenFails`): the server dereferences the `nullptr`, the
client goes on without a listener.
What happens after freed memory has been read is not described: `process` is
then `"undefined"` and the model stops. `raced` is auxiliary.

### Handshake

An end is a client or a server of one connection; all server ends are in one
process, whose accept thread takes one connection at a time. `pc` is the place
in `Crypto::handshake`, `in` the fields under way to an end, `got` its buffers.
A key is the pair of public keys it was derived from, with a tail that is equal
at both ends if `DeriveKey` wrote it (`BlockLen`, the `sizeof` in line 55, may
differ from `KeyLen`). A confirmation can be verified by whoever has the key and
the IV it was made with. An end that has lost the other receives nothing and
goes on with what its buffers held: at a reset on both sides, at the end of the
stream only on the server's, since the client's loop has no limit. `EndOf` ends
a process and, as the kernel does, closes its connections: with a reset where
something was unread or not yet accepted.

### Messages

One object, its bytes and the object made of them. A buffer is a sequence of
cells; the four bytes of an `int` are the cells `<<v, 1>>` to `<<v, 4>>`, so a
read at another place, or of another width, finds no number and the model stops
(`ReadToTheEnd` is then violated). `WriteField` is one `memcpy` of `to_bytes`;
each `Read...` is one `memcpy` of `from_bytes` with the `pos +=` behind it.
`Fresh` is a new object: the programs decode into nothing else. `Object` says what
an object of each class may be, and `MessagesAssumption` that those sent are such:
a field the class lacks is empty, and the host of a client in a list, which the
index received as a C string, holds no NUL; any other text may. `ListSize` is the
loop of `message_size`.

### SocketIO

The kernel's `::send` and `::recv` return any count they may: part of what was
asked for, 0 at the end of a stream, -1 once for a reset. `Plus` is
`size_t += int`. Bytes are named by frame, part and place, so `Verified`, which
stands for `DecryptAndVerify`, holds exactly for the bytes that were sent, in
their order.

## The runs

| Run | Instance | Shows |
|---|---|---|
| `central_index` | 3 handlers, 2 of them with the same name, 2 numbers | types, mutual exclusion, no duplicates, order, snapshots, no ghosts, holders registered, acknowledged is listed, calls get their mutexes and return, implements `IndexService` |
| `session` | 2 clients, both careless, a file each | in step, connected is listed, requests answered, quitting forgets, only one that does not quit ends the server |
| `session_restart` | a client started four times on one directory, interrupted the first time, of another version the third, with an empty host the last | in step, requests (also refused ones) answered, and nothing ends the server but the interruption and the host |
| `listener` | 3 connections to either kind of listener: one closes its socket, one is of another version and leaves it open, one is silent, two may go away in the handshake; 2 descriptors; `listen` may fail | until the threads meet, nothing freed is read, one keeper each, and finished is reaped; connections are handled |
| `handshake` | 2 clients, 1 server, each of which may be interrupted anywhere; the `sizeof` equal to the key | keys agree, only an interruption makes anybody throw, handshakes end |
| `sockets` | frames of 2, 0 and 3 bytes, MAC of 2, a `size_t` of 16 values, 10 retries | a call fails only after a premature end, counts, `recv` returns |
| `messages` | all classes, valid and not; hosts of 0 to 2 characters, a text with a 0, lists of up to 2 entries | buffers are not left, what is sent arrives, all of it is read |
| `transfer` | 3 clients, 2 fetches among 8 numbers: two sound, one of an earlier run, one with a 0, one with a 255, one under another name, two that are no shorts; 2 or 4 descriptors; the first or the second client may quit, the second may be started again | copies are prefixes, sound ones whole with all that the index names, sound fetches end nobody, a get ends, implements `FileExchange` |

Runs that end in a violation, each showing a disagreement between the code and
a text of the repository (`findings` in `PROJECT.json` quotes it):

| Run | Disagreement |
|---|---|
| `session_quick` | a client that quits and reconnects at once is removed by its old handler and stays connected, unlisted |
| `listener_full` | unclosed sockets use up the descriptors and end the accept thread |
| `sockets_reset` | `recv` returns true with nothing received after a reset |
| `transfer_cut` | a byte of 255 ends a file that is read |

Also noticed, without a run of their own:

* `rfc1.txt` and `rfc01.txt` are one number: the second ADD is refused, and
  `add_available_rfcs` does not announce the files behind it (`Announced`).
* A handler whose client ended in an ADD, or that repeats an ADD, adds a number
  that nobody sent (`HandlerStaleMessage`, `HandlerAdd`).
* `close()` never returns: nothing tells the threads it joins to end (`Joined`).
* The loop of `ClientSocket::recv` counts retries without a limit: after the
  server has gone it never ends (`RecvLoops`; `RecvReturnsAtLast` says so).
* A 404 ends the client that gave it: the other side closes without a
  DISCONNECT, and the GET is repeated into a closed connection (`RecvMissing`,
  `HandlerStaleMessage`, `HandlerSendEnds`). A file named `rfc01.txt` is enough.
* An empty file, or one that is just being written, ends the client that is
  asked for it (`Response`, `HandlerSendEnds`).
* Every file served costs a descriptor (`GetContent`).
* A connection that says nothing in the handshake keeps all others from being
  handled (`ConnectionIsHandled` says so), and one that ends in it may end the
  server for everybody (`AgreeThrows`; `OnlyAnEndThrows` says so).
* A client started with a port that is not positive, or an empty address, and a
  file ends the server at the next `list` (`HandlerSendNull`;
  `QuittersEndNoServer` says so), also when the holder has
  been withdrawn between the query and the response. The runs are too small for
  that one, which needs a second client; the proof of the property has it.
* A file that a client was writing when it ended is announced by its next run as
  it is (`Restart`; `HoldersHaveIt` excepts it).
* `hkdf.DeriveKey` writes `sizeof(derived_key)` bytes, the size of an object of
  another length. In the builds at hand it is at most the key's, and equal in
  both programs; `OnlyAnEndThrows` is violated where it is smaller.
* A response other than 200 sends bytes behind its code that were never written
  (`Size`, `Fields`; hence the exception in `ReadToTheEnd`). A second
  `from_bytes` into one `ListRFCResponse` would append to its list, while
  `LookupRFCResponse` clears its own; no program does that.
* `MessageParseException` is never thrown and `ListRFCMessage` never used.

**Bounds.** Two names and two numbers give the index two elements that differ
in each field of the order, and an element behind an erased one; the second
client has the host of the first, so the port matters. A third handler with a
shared name gives the gap of `remove_client` a session to meet. Two sessions
are enough for one to fetch from the other while either is interrupted; the
restarts come one after the other. The host that is empty stands for a port
that is not positive too: `Listable` treats them alike, and the theorem has both.
Three connections make the vector grow from 1 to 2 to 4 places and leave one behind an erased one. Two clients are what one
end of a handshake can harm another with. The three frames have a length above
1 (so that it can be cut), zero, and a different one; 16 values of a `size_t`
leave room between the largest count and the wrapped one. Two entries of a list
are two passes of its loop; a host of two characters can be told from one that is
read at another place. Two fetches are the
smallest number with a reader and a writer of one file, with a copy of a copy
(the first owner quits and is forgotten), and with a client that both asks and
answers; contents of two bytes can be cut; two descriptors are what one fetch
takes at each end, four what two do. One restart finds what one run leaves.
Numbers are at most 32767 and not 0 in `IndexSession`. In all models a session or
connection is used once.

`CHECK_DEADLOCK FALSE` is set where the system may stop: every session ended,
the server process or the listener's process gone, all frames transferred. In
`CentralIndex` every connection may have ended; that handlers stop each other is what
`CallsReturn` excludes.

**Fairness.** `CentralIndex`: a handler inside a call is scheduled, and gets a mutex
that is free again and again at last: strong fairness of what it does by itself
(`Progress`), where it matters only for the three labels at which it waits for
`rfcs_mut` or `clients_mut`. `std::mutex` does not promise it, but a handler that
loses every time loses to others that go on calling. Nothing is assumed of
clients, which need not send a command (`Call`).
`IndexSession`: weak fairness for what each client
and each handler does by itself; users do as they like. `Listener`: the two
threads run and a handler that has set its flag returns; a handler may run for
ever. `Handshake`: some thread that can go on does. `Messages`: the next copy is
made. `PeerTransfer`: prompts, once given a `get`, and handlers
run. `SocketIO`: both loops run and a sender that has sent everything closes.
`RequestsAnswered` and `CallsReturn` are written with `[]<>`: nobody stays in
a place where it waits.

## The proofs

Every module of proofs has one section here: what it proves, and the inductive
invariants it takes.

### CentralIndex

For every set of handlers, every assignment of
clients to them and every set of numbers, from `HandlersAssumption` (no handler
is `None`), `PeerOfAssumption` and `RfcAssumption`:

| Theorem | Property |
|---|---|
| `TypeCorrect` | `TypeOK` |
| `MutexesProtect` | `Protected` |
| `ListsHaveNoDuplicates` | `NoDuplicates` |
| `ListIsSortedAtRest` | `SortedAtRest` |
| `NothingIsLeftBehind` | `NoGhosts` |
| `HoldersAreRegistered` | `HoldersRegistered` |
| `AcknowledgedIsListed` | `AckedIsListed` |
| `QueriesAreSnapshots` | `QueryIsSnapshot` |
| `IndexImplementsService` | `ImplementsService` |

The inductive invariants build on one another:

1. `TypeInv` adds to `TypeOK` that a handler in `add_rfc` has a number.
2. `Protected` is inductive with `TypeInv`; `OneInside` draws from it that two
   handlers inside one mutex are the same handler.
3. `ListInv`: what a scan has found to be missing is still missing when it is
   appended (`NewClient`, `NewHolder`), because the mutex is still held; and the
   list is sorted except between append and sort.
4. `GhostInv`: what stands before the iterator of an erasing handler is not its
   client's (`EraseInv`), so at the end of the loop nothing is.
5. `RegisteredInv`, `AckedInv`: the client of a holder is
   listed while its handler is between `add_client` and `remove_client`, if no
   other handler has its name (`Alone`; the others may share theirs), and
   `acked` is what is listed, up to the holder being added.
6. `CopyInv`: what a query has copied is the matching part of the list up to its
   iterator, in order. The list does not change under it, by 2.
7. `FoundInv`: between the search for the client and the append the client
   stays listed, by 2. With it each step maps to a step of `IndexService` or to
   none. The removal of the holders takes effect when the mutex is taken
   (`VisibleHolders`), registration at the append, an announcement at the
   append, and a query when the mutex is released.

Lemmas about `RemoveAt`, `Append` and `SortOf` say what they do to membership,
injectivity and order.

### IndexSession

For every set of runs of the client program, with any addresses, versions,
directories and order of their starts, from `SessionsAssumption`:

| Theorem | Property |
|---|---|
| `TypeCorrect` | `TypeOK` |
| `FramesAgree` | `FramesMatch` |
| `OnlyAbandonedEnd` | `QuittersEndNoServer` |
| `ClientsAreListed` | `ConnectedIsListed`, from `Apart` |

`FramesMatch` looks at the first frame only, and at the sides that are about to
take one. What is inductive is about all that is under way:

1. `ConnInv` says it of one connection, as `Conn` of its two labels and four
   queues. `Place` counts what a handler has taken since it last answered;
   `UpFits` says which frame comes at which place behind that, `DownFits` the
   same for answers, `Counts` that what is taken, under way and still to be sent
   adds up to what the client's label needs, on either side. A client that has
   ended leaves any part of such a sequence behind.
2. `TypeInv` and `ConnInv` are inductive together: `TypeOK` of the next
   state needs that the frame a handler takes is the one it expects.
   `NtoHL` of a word nobody sent is one of the values of `TypeOK`.
3. `EndInv`: a DISCONNECT that was sent or read means that nothing is left to send
   to that client (`GoneInv`), so `SIGPIPE` needs one that went without it; a
   peer that no response can hold, for its host or its port, comes into the index
   only with a command of its client (`PeerInv`).
4. `ListedInv`: while a client announces, what is held for it and what is still
   in its list are its files, with the one number in between either on its way
   up, or held with its 200 on its way down (`ListedRun`). After a fetch the same
   holds of the number fetched.

`Apart` says that no two runs have one address and no directory has a number
twice. Without the first, `ConnectedIsListed` does not hold: that is what
`session_quick` shows. Without the second it does not hold either: an ADD for
`rfc01.txt` next to `rfc1.txt` is refused, and the files behind it are
not announced.

### Listener

For every set of connections, of any kinds, and any number of descriptors:

| Theorem | Property |
|---|---|
| `TypeCorrect` | `TypeOK` |
| `OneKeeperEach` | `KeptOnce` |
| `NothingDangles` | `OnlyRacesDangle` |

`TypeInv` adds that the places both threads are at are inside the buffers.
`StageInv`: a connection is in one stage at a time, and a keeper is reaped behind
a join (`FreedAfterReturn`); that holds of racing threads too. `VectorInv` is about
those that have not raced: the places up to the end hold every keeper that is
not in a thread's hand, each once. While `erase` shifts, the
hole moves from the place of the keeper erased to the end. The iterator of a scan is
into the buffer there is, and at one of those places or behind the last, so the
keeper it points at has not been deleted (`NoDangling`).

### Handshake

For every set of clients:

| Theorem | Property |
|---|---|
| `TypeCorrect` | `TypeOK` |
| `KeysAreShared` | `KeysAgree` |
| `EndsAreBlamed` | `OnlyAnEndThrows`, if `BlockLen = KeyLen` |

`UnfilledAssumption` says that a buffer nobody wrote holds nothing that could
have been sent. `SecretInv`: a confirmation that is under way or received is
the one that the other end has made, of the key and IV that it has; who verifies
it therefore has the same. `BlameInv` is about connections on which neither
process was ended (`Undisturbed`): each end has received all that its place
needs, and what is under way is what the other has sent. The `DeriveKey` that
writes less than the key leaves the rest to each end's memory, hence the
assumption.

### SocketIO

For frames of any lengths and a `size_t` of any width above them
(`SocketsAssumption`):

| Theorem | Property |
|---|---|
| `TypeCorrect` | `TypeOK` |
| `FramesArrive` | `OnlyAnEndFails` |

`StreamInv`: what is received, under way and still to be sent are the frames in
their order (`InOrder`), and the buffers hold what their counts say. That the
stream is exactly the frames behind a position is an induction over its length,
for which `SetInduction` has `InductionBySet`: the induction theorems of the
library take an operator as a parameter, and a set is enough here.

### PeerTransfer

For every set of clients and of gets, and every directory of files, from
`TransferAssumption`:

| Theorem | Property |
|---|---|
| `TypeCorrect` | `TypeOK` |
| `CopiesAreBeginnings` | `CopiesArePrefixes` |
| `HoldersHaveAll` | `HoldersHaveIt` |
| `NobodyEnds` | `SoundFetchesEndNobody`, if `Fetches` is finite |
| `TransferImplementsExchange` | `ImplementsExchange` |

1. `TypeInv` says more than `TypeOK` of the connection of a get. `Talk`
   is what may be on its way to the handler, by the labels of the two sides;
   `Reply` what may be on its way back, and that nothing is while the GET is not
   answered. `Reply` has the set of contents that answers are of as a parameter,
   and `ReplyKept` shows it kept for any set that what is read is in: the
   three theorems use it with three sets. `PromptInv`: a client has one get at a
   time, and one that is being stored is of a number that was not there before;
   so no file is written by two (`OwnDirectory`). `FdInv` is why no descriptor is
   given back that was not taken. `HandlerInv`: what a handler has read is a
   beginning of the file, which only grows (`DiskGrows`).
2. `CopyInv`: what is received, and what is stored with what is still to be
   written, are beginnings of a file as well (`Beginnings`). A number is made a
   short once: `Short(Short(k)) = Short(k)`.
3. `HoldInv`, for a sound number of which no get was left unstored: every file that is
   there is whole or is being written; who is named, asked or about to notify has it
   whole; what answers and receivers have is the whole content. A whole file is not
   written any more, since its writer has nothing left (`WholeIsWritten`).
4. `CarefulInv`, under the condition of `SoundFetchesEndNobody` (`Careful`): no get is
   blocked, missing or dead and no handler gone, no client is asked by itself, no
   404 and no `nullptr` is on its way, and a client with room has no more descriptors
   open than its gets use (`InUse`, two for each end of each). It rests on
   `HoldInv`: who is named has the file, so `get_content` does not throw. A
   descriptor for what is not in use yet is then always there (`RoomFor`), so
   the accept thread stays and `add_rfc` opens its file. The gets are counted, so
   they have to be finitely many; the theorem says so, the module does not.
5. For `ImplementsExchange`, `NoEnd`: what a handler has read holds no byte 255,
   since it reads up to the first one that there is. Where it meets the end of the
   file (`ReadEnd`) it has therefore all that comes through of the file as it is at
   that instant (`ReadsThrough`), whatever was appended since it began: this step is
   the `Answer` of `FileExchange`, and `GetContentThrows` its `Refuse`. From then on
   the answer is one and stays the same, in `hout` or in `down`, until it is received
   (`OneAnswer`, from `Reply`), so neither sending nor receiving it is seen. Of an
   answer of which the body has not left the handler when its process goes nothing is
   left; the get is then stuck (`DepartView`). `StepImplements` collects the steps.

### Messages

For texts and lists of any length, and numbers of any width in bytes above 0, from
`MessagesAssumption`:

| Theorem | Property |
|---|---|
| `TypeCorrect` | `TypeOK` |
| `ArrivesWhole` | `ArrivesAsSent` |

1. `Ends(s)` is where each part of a sequence of fields ends; that there is one such
   function, and that it ascends, are inductions for `InductionBySet` (`EndsExist`,
   `EndsUnique`, `EndsAscend`). `Flattened` does the same for the
   entries of a list, of which `FieldsAre` says which field is which.
2. `SizeIs`: what `to_bytes` copies ends where `message_size` ends or before. For a list
   this compares two sums, that of the loop in `message_size` (`ListSizeIs`) and that of
   the fields (`EntryEnds`), entry by entry. Hence no copy leaves the buffer
   (`EndsWithin`).
3. `IInv` has one part per phase. `Writing`: the fields copied so far stand in
   the buffer (`Holds`) and `pos` is where the last of them ends; a copy disturbs none of
   them (`Copied`). `Reading`: the whole message stands in the buffer, and each
   place of `from_bytes` has its own part that says which field is at `pos` and what the
   new object holds by then (`InNumber`, `InCode`, `InRequest`, `InFile`, `InList`, and
   `InEntry(p)`, where the first `p` entries are in the list, `Received(p)`).
   `ArrivesAsSent` alone is not inductive: it says nothing before the end.
4. Each of the steps that read has a lemma that takes its part to the next one. A read
   of the wrong width, or from the wrong place, does not find its field, so these lemmas
   are about the order of `from_bytes` as much as about its values.

### What is only model-checked

The liveness properties (`CallsReturn`, `RequestsAnswered`,
`QuitForgets`, `FinishedIsReaped`, `ConnectionIsHandled`, `HandshakesEnd`,
`ReadToTheEnd`, `FetchEnds`, `RecvReturnsAtLast`), since the prover does
not do liveness under fairness. Every invariant and every action property of the
passing runs is stated by a theorem. `ArrivesWhole` does not say that a message is
read to its end; that is `ReadToTheEnd`.

## Not modelled

* An interruption of a client before it has introduced itself: the length of the
  variable-length array in `client_handler` is then uninitialised memory. The
  handler of the client program has the same.
* `EncryptedServerSocket::recv` reads a MAC of 16 bytes into a buffer of the
  length of the data; what that does to the heap is not modelled, except for an
  empty host, with which there is no buffer (`HandlerHost`).
* A reset of the connection is an end in `IndexSession` and `PeerTransfer`;
  `SocketIO` and `Handshake` tell them apart.
* The constructor of RFCManager, which makes the directory or throws before
  anything has started; file names that do not parse, whose exception ends the
  client where it announces (for the index that is an `Interrupt` of
  `IndexSession` at `"announce"`).
* Numbers too large for `stoi`, and 0 (`rfc0.txt`, `get 0`): the exception, or
  the `nullptr` of the message, ends the client.
* `connect` and `bind` as system calls: a connection is made if somebody
  listens. `SO_REUSEADDR | SO_REUSEPORT` is, as a number, `SO_REUSEPORT` on
  Linux, so that two processes may listen at one port; not modelled.
* Sizes beyond an `int`, and the memory that `new` takes: contents are short.
* `listl` and `help`, the wording of all output.

## Plan

Done:

1. `RFCHolders`, `IndexService`, `CentralIndex`, `CentralIndexProofs`.
2. `IndexSession` over `IndexService`, with both clients careless and a host or port
   that no response can hold.
3. `Listener` of both kinds, with the failures of `listen`; `SocketIO`.
4. `PeerTransfer`, with the files of RFCManager and a restart, over `FileExchange`.
5. `Handshake`.
6. `Messages`.
7. Proofs about `IndexSession`, `Listener`, `Handshake` and `SocketIO`.
8. `PeerTransfer`: proofs of type correctness, `CopiesArePrefixes`, `HoldersHaveIt`,
   `SoundFetchesEndNobody` and `ImplementsExchange`.
9. `Messages`: proofs of type correctness and `ArrivesAsSent`.

Next:

10. That nothing stops a reader before the end of a message, as a safety property
    beside `ReadToTheEnd`, and its proof from the `IInv` of `MessagesProofs`.
11. The same of the other modules: what the liveness properties need that is safety
    (nobody waits for what nobody holds), stated and proved on its own.
