------------------------------ MODULE Listener ------------------------------
(***************************************************************************)
(* EncryptedServerSocketListener, and ServerSocketListener, which has the  *)
(* same code with sockets that make no handshake: an accept thread that    *)
(* makes a socket and a handler thread of every connection, and a cleanup  *)
(* thread that reaps the handlers that have finished.                      *)
(*                                                                         *)
(* The two threads share the vector client_threads without a lock, so      *)
(* push_back and erase are taken apart into their accesses to its memory   *)
(* (the Makefile builds without optimisation).  Reading memory that has    *)
(* been freed is undefined behaviour: the process is then "undefined", and *)
(* nothing is claimed of it any more.                                      *)
(***************************************************************************)
EXTENDS Naturals, Sequences, FiniteSets

CONSTANTS
  Kinds,        \* the listeners: "encrypted", "plain"
  Connections,  \* the connections that may arrive
  Silent,       \* the ones whose other side never speaks
  Vanishing,    \* the ones whose other side may go away in the handshake
  Closing,      \* the ones whose handler closes the socket
  Rejected,     \* the ones of another protocol version
  Descriptors,  \* how many sockets the process can have open
  None

ASSUME ListenerAssumption ==
  /\ Kinds \subseteq {"encrypted", "plain"}
  /\ \A S \in {Silent, Vanishing, Closing, Rejected} : S \subseteq Connections
  /\ Closing \cap Rejected = {}
  /\ Descriptors \in Nat /\ None \notin Connections

VARIABLES
  kind,       \* which of them it is
  process,    \* "runs", "terminated" (uncaught exception) or "undefined"
  listening,  \* listen_thread # nullptr
  closer,     \* where a call of close() is
  waiting,    \* the backlog of the listening socket
  open,       \* the connections whose descriptor is open
  apc, conn,  \* where the accept thread is, and the connection in its hands
  at,         \* the place of the vector that push_back writes
  fresh,      \* the larger buffer that push_back fills
  slots,      \* the vector's buffer: a keeper per place
  finish,     \* how many of the places are in use (end())
  cpc,        \* where the cleanup thread is
  it, itsize, \* its iterator: a place, and the size of the buffer it points into
  seen,       \* the end() that erase went by
  hpc,        \* where a handler is
  flagged,    \* the connections with *is_finished = true
  freed,      \* the connections whose thread, socket and flag are deleted
  raced       \* auxiliary: both threads were in the vector at once

listener == <<kind, listening>>
accepting == <<apc, conn, at, fresh>>
cleaning == <<cpc, it, itsize, seen>>
vector == <<slots, finish>>
handlers == <<hpc, flagged>>
vars == <<process, listener, closer, waiting, open, accepting, vector, cleaning,
          handlers, freed, raced>>

-----------------------------------------------------------------------------
Pushing == apc \in {"publish", "swap"}
Scanning == cpc \in {"test", "look", "reap", "move", "shrink"}

\* A thread touches the vector while the other one is in the middle.
PushMeetsScan == raced' = (raced \/ Scanning)
ScanMeetsPush == raced' = (raced \/ Pushing)

Init ==
  /\ kind \in Kinds /\ process = "runs" /\ listening = FALSE /\ closer = "idle"
  /\ waiting = <<>> /\ open = {}
  /\ apc = "off" /\ conn = None /\ at = 0 /\ fresh = <<>>
  /\ slots = <<>> /\ finish = 0
  /\ cpc = "off" /\ it = 0 /\ itsize = 0 /\ seen = 0
  /\ hpc = [c \in Connections |-> "none"] /\ flagged = {} /\ freed = {}
  /\ raced = FALSE

\* listen(), which starts both threads.
Listen ==
  /\ process = "runs" /\ apc = "off"
  /\ listening' = TRUE /\ apc' = "accept" /\ cpc' = "begin"
  /\ UNCHANGED <<process, kind, closer, waiting, open, conn, at, fresh, vector, it, itsize,
                 seen, handlers, freed, raced>>

\* socket, setsockopt, bind or ::listen fails, and listen returns a nullptr: the
\* server dereferences it, the client does not look at it.
ListenFails ==
  /\ process = "runs" /\ apc = "off"
  /\ \/ process' = "undefined" /\ UNCHANGED apc
     \/ apc' = "never" /\ UNCHANGED process
  /\ UNCHANGED <<listener, closer, waiting, open, conn, at, fresh, vector, cleaning, handlers,
                 freed, raced>>

\* A connection comes in.
Connect(c) ==
  /\ process = "runs" /\ listening /\ hpc[c] = "none"
  /\ hpc' = [hpc EXCEPT ![c] = "waiting"]
  /\ waiting' = Append(waiting, c)
  /\ UNCHANGED <<process, listener, closer, open, accepting, vector, cleaning, flagged,
                 freed, raced>>

-----------------------------------------------------------------------------
(* The accept thread *)

\* Mutant of Accept: waits for a descriptor.
AcceptWaits ==
  /\ process = "runs" /\ apc = "accept" /\ waiting # <<>>
  /\ Cardinality(open) < Descriptors
  /\ apc' = "handshake" /\ conn' = Head(waiting)
  /\ waiting' = Tail(waiting)
  /\ open' = open \cup {Head(waiting)}
  /\ UNCHANGED <<process, listener, closer, at, fresh, vector, cleaning, handlers, freed,
                 raced>>

\* accept(); without a descriptor left it fails and the thread returns.
Accept ==
  /\ process = "runs" /\ apc = "accept" /\ waiting # <<>>
  /\ IF Cardinality(open) < Descriptors
     THEN /\ apc' = "handshake" /\ conn' = Head(waiting)
          /\ waiting' = Tail(waiting)
          /\ open' = open \cup {Head(waiting)}
     ELSE apc' = "failed" /\ UNCHANGED <<conn, waiting, open>>
  /\ UNCHANGED <<process, listener, closer, at, fresh, vector, cleaning, handlers, freed,
                 raced>>

\* The other side of the handshake says nothing.
Waits(c) == kind = "encrypted" /\ c \in Silent

\* The constructor of the socket shakes hands, then the handler thread starts.
Handshake ==
  /\ process = "runs" /\ apc = "handshake" /\ ~Waits(conn)
  /\ hpc' = [hpc EXCEPT ![conn] = "running"]
  /\ apc' = "push"
  /\ UNCHANGED <<process, listener, closer, waiting, open, conn, at, fresh, vector,
                 cleaning, flagged, freed, raced>>

\* The other side is gone: the handshake throws, and nothing catches it.
HandshakeThrows ==
  /\ process = "runs" /\ apc = "handshake" /\ kind = "encrypted" /\ conn \in Vanishing
  /\ process' = "terminated"
  /\ UNCHANGED <<listener, closer, waiting, open, accepting, vector, cleaning, handlers,
                 freed, raced>>

\* push_back with room left: the keeper is written behind the last one ...
PushStore ==
  /\ process = "runs" /\ apc = "push" /\ finish < Len(slots)
  /\ slots' = [slots EXCEPT ![finish + 1] = conn]
  /\ at' = finish + 1 /\ apc' = "publish"
  /\ PushMeetsScan
  /\ UNCHANGED <<process, listener, closer, waiting, open, conn, fresh, finish, cleaning,
                 handlers, freed>>

\* ... and end() moved: from where it is, or from where it was read.
PushPublish ==
  /\ process = "runs" /\ apc = "publish"
  /\ finish' \in {at, finish + 1}
  /\ apc' = "accept" /\ conn' = None /\ at' = 0
  /\ PushMeetsScan
  /\ UNCHANGED <<process, listener, closer, waiting, open, fresh, slots, cleaning,
                 handlers, freed>>

\* push_back into a full buffer: one of twice the size is filled ...
GrowCopy ==
  /\ process = "runs" /\ apc = "push" /\ finish = Len(slots)
  /\ fresh' = [i \in 1..(IF finish = 0 THEN 1 ELSE 2 * finish) |->
                 CASE i <= finish -> slots[i]
                   [] i = finish + 1 -> conn
                   [] OTHER -> None]
  /\ at' = finish + 1 /\ apc' = "swap"
  /\ PushMeetsScan
  /\ UNCHANGED <<process, listener, closer, waiting, open, conn, vector, cleaning,
                 handlers, freed>>

\* Mutant of GrowSwap: end() one too far.
GrowSwapPast ==
  /\ process = "runs" /\ apc = "swap"
  /\ slots' = fresh /\ finish' = at + 1
  /\ apc' = "accept" /\ conn' = None /\ at' = 0 /\ fresh' = <<>>
  /\ PushMeetsScan
  /\ UNCHANGED <<process, listener, closer, waiting, open, cleaning, handlers, freed>>

\* ... and takes the place of the old one, which is freed.
GrowSwap ==
  /\ process = "runs" /\ apc = "swap"
  /\ slots' = fresh /\ finish' = at
  /\ apc' = "accept" /\ conn' = None /\ at' = 0 /\ fresh' = <<>>
  /\ PushMeetsScan
  /\ UNCHANGED <<process, listener, closer, waiting, open, cleaning, handlers, freed>>

-----------------------------------------------------------------------------
(* The cleanup thread *)

CleanupBegin ==
  /\ process = "runs" /\ cpc = "begin"
  /\ cpc' = IF listening THEN "test" ELSE "done"
  /\ it' = 1 /\ itsize' = Len(slots)
  /\ ScanMeetsPush
  /\ UNCHANGED <<process, listener, closer, waiting, open, accepting, vector, seen,
                 handlers, freed>>

\* it != client_threads.end(): an iterator into a buffer that is gone is not.
\* After the last one the thread sleeps for five seconds.
CleanupTest ==
  /\ process = "runs" /\ cpc = "test"
  /\ cpc' = IF itsize = Len(slots) /\ it = finish + 1 THEN "sleep" ELSE "look"
  /\ ScanMeetsPush
  /\ UNCHANGED <<process, listener, closer, waiting, open, accepting, vector, it, itsize,
                 seen, handlers, freed>>

CleanupWakes ==
  /\ process = "runs" /\ cpc = "sleep"
  /\ cpc' = "begin"
  /\ UNCHANGED <<process, listener, closer, waiting, open, accepting, vector, it, itsize,
                 seen, handlers, freed, raced>>

\* The iterator points at a keeper whose flag is still there.
Sound == itsize = Len(slots) /\ it \in 1..Len(slots) /\ slots[it] \in Connections \ freed

\* Mutant of CleanupLook: the scan ends at the first handler that still runs.
LookStops ==
  /\ process = "runs" /\ cpc = "look" /\ Sound
  /\ cpc' = IF slots[it] \in flagged THEN "reap" ELSE "sleep"
  /\ ScanMeetsPush
  /\ UNCHANGED <<process, listener, closer, waiting, open, accepting, vector, it, itsize,
                 seen, handlers, freed>>

\* A handler that has not finished is passed over.
CleanupLook ==
  /\ process = "runs" /\ cpc = "look" /\ Sound
  /\ IF slots[it] \in flagged THEN cpc' = "reap" /\ UNCHANGED it
     ELSE cpc' = "test" /\ it' = it + 1
  /\ ScanMeetsPush
  /\ UNCHANGED <<process, listener, closer, waiting, open, accepting, vector, itsize, seen,
                 handlers, freed>>

\* The buffer, the keeper or its flag has been freed.
CleanupDangles ==
  /\ process = "runs" /\ cpc \in {"look", "reap", "move", "shrink"}
  /\ IF cpc \in {"look", "reap"} THEN ~Sound ELSE itsize # Len(slots)
  /\ process' = "undefined"
  /\ UNCHANGED <<listener, closer, waiting, open, accepting, vector, cleaning, handlers,
                 freed, raced>>

\* join, then delete of the thread, the socket and the flag.
CleanupReap ==
  /\ process = "runs" /\ cpc = "reap" /\ Sound /\ hpc[slots[it]] = "returned"
  /\ freed' = freed \cup {slots[it]}
  /\ cpc' = "move"
  /\ ScanMeetsPush
  /\ UNCHANGED <<process, listener, closer, waiting, open, accepting, vector, it, itsize,
                 seen, handlers>>

\* erase: what stands behind the keeper moves up ...
EraseMove ==
  /\ process = "runs" /\ cpc = "move" /\ itsize = Len(slots)
  /\ slots' = [i \in 1..Len(slots) |-> IF i \in it..(finish - 1) THEN slots[i + 1] ELSE slots[i]]
  /\ seen' = finish /\ cpc' = "shrink"
  /\ ScanMeetsPush
  /\ UNCHANGED <<process, listener, closer, waiting, open, accepting, finish, it, itsize,
                 handlers, freed>>

\* Mutants of EraseShrink: the iterator moves on, past the keeper that has moved
\* up; end() stays.
ShrinkSteps ==
  /\ process = "runs" /\ cpc = "shrink" /\ itsize = Len(slots)
  /\ finish' \in {seen - 1, finish - 1}
  /\ cpc' = "test" /\ seen' = 0 /\ it' = it + 1
  /\ ScanMeetsPush
  /\ UNCHANGED <<process, listener, closer, waiting, open, accepting, slots, itsize,
                 handlers, freed>>

ShrinkForgotten ==
  /\ process = "runs" /\ cpc = "shrink" /\ itsize = Len(slots)
  /\ cpc' = "test" /\ seen' = 0
  /\ ScanMeetsPush
  /\ UNCHANGED <<process, listener, closer, waiting, open, accepting, vector, it, itsize,
                 handlers, freed>>

\* ... and end() comes back by one, from where it is or from where it was read.
EraseShrink ==
  /\ process = "runs" /\ cpc = "shrink" /\ itsize = Len(slots)
  /\ finish' \in {seen - 1, finish - 1}
  /\ cpc' = "test" /\ seen' = 0
  /\ ScanMeetsPush
  /\ UNCHANGED <<process, listener, closer, waiting, open, accepting, slots, it, itsize,
                 handlers, freed>>

-----------------------------------------------------------------------------
(* The handlers, and the owner of the listener *)

\* The handler sets its flag; on another version it sets it to false.
HandlerFinishes(c) ==
  /\ process = "runs" /\ hpc[c] = "running"
  /\ hpc' = [hpc EXCEPT ![c] = "ending"]
  /\ flagged' = IF c \in Rejected THEN flagged ELSE flagged \cup {c}
  /\ open' = IF c \in Closing THEN open \ {c} ELSE open
  /\ UNCHANGED <<process, listener, closer, waiting, accepting, vector, cleaning, freed,
                 raced>>

HandlerReturns(c) ==
  /\ process = "runs" /\ hpc[c] = "ending"
  /\ hpc' = [hpc EXCEPT ![c] = "returned"]
  /\ UNCHANGED <<process, listener, closer, waiting, open, accepting, vector, cleaning,
                 flagged, freed, raced>>

\* close() is called.
Close ==
  /\ process = "runs" /\ listening /\ closer = "idle"
  /\ closer' = "join_accept"
  /\ UNCHANGED <<process, listener, waiting, open, accepting, vector, cleaning, handlers,
                 freed, raced>>

\* What close() joins in turn, and whether that thread has returned.
Joined == [join_accept |-> apc = "failed",
           join_cleanup |-> cpc = "done",
           join_handlers |-> \A i \in 1..finish : hpc[slots[i]] = "returned"]
NextJoin == [join_accept |-> "join_cleanup", join_cleanup |-> "join_handlers",
             join_handlers |-> "closed"]

CloseGoesOn ==
  /\ process = "runs" /\ closer \in DOMAIN NextJoin /\ Joined[closer]
  /\ closer' = NextJoin[closer]
  /\ UNCHANGED <<process, listener, waiting, open, accepting, vector, cleaning, handlers,
                 freed, raced>>

-----------------------------------------------------------------------------
AcceptStep == Accept \/ Handshake \/ HandshakeThrows \/ PushStore \/ PushPublish
              \/ GrowCopy \/ GrowSwap
CleanupStep == CleanupBegin \/ CleanupTest \/ CleanupWakes \/ CleanupLook
               \/ CleanupDangles \/ CleanupReap \/ EraseMove \/ EraseShrink

Next ==
  \/ Listen \/ ListenFails \/ Close \/ CloseGoesOn \/ AcceptStep \/ CleanupStep
  \/ \E c \in Connections : Connect(c) \/ HandlerFinishes(c) \/ HandlerReturns(c)

Spec == Init /\ [][Next]_vars

\* The threads run; a handler ends when its other side says so, and whoever
\* called close() goes on.
FairSpec ==
  /\ Spec
  /\ WF_vars(AcceptStep) /\ WF_vars(CleanupStep) /\ WF_vars(CloseGoesOn)
  /\ \A c \in Connections : WF_vars(HandlerReturns(c))

-----------------------------------------------------------------------------
(* Properties *)

Keeper == Connections \cup {None}

\* Every thread is at one of its labels, and holds connections, places and buffers
\* that exist.
TypeOK ==
  /\ kind \in Kinds /\ process \in {"runs", "terminated", "undefined"}
  /\ listening \in BOOLEAN /\ raced \in BOOLEAN
  /\ closer \in {"idle", "closed"} \cup DOMAIN NextJoin
  /\ waiting \in Seq(Connections) /\ open \subseteq Connections
  /\ apc \in {"off", "never", "accept", "handshake", "push", "publish", "swap", "failed"}
  /\ conn \in Keeper /\ fresh \in Seq(Keeper) /\ slots \in Seq(Keeper)
  /\ at \in Nat /\ finish \in 0..Len(slots)
  /\ cpc \in {"off", "begin", "test", "look", "reap", "move", "shrink", "sleep", "done"}
  /\ it \in Nat /\ itsize \in Nat /\ seen \in Nat
  /\ hpc \in [Connections -> {"none", "waiting", "running", "ending", "returned"}]
  /\ flagged \subseteq Connections /\ freed \subseteq Connections

\* With listen() having returned its thread, nothing that has been freed is read,
\* and nothing past the last keeper, unless the two threads have met in the
\* vector: through every scan, with keepers erased on the way, and however often
\* the buffer has been replaced since the last one.
OnlyRacesDangle == process = "undefined" /\ listening => raced

\* The keeper the cleanup thread is about to erase.
Erasing == IF cpc = "move" THEN it ELSE IF cpc = "shrink" THEN finish ELSE 0

\* As long as the two threads have not met in the vector, every handler thread
\* has exactly one keeper until it is deleted: in the vector, or in the hands
\* of the accept thread.
KeptOnce ==
  ~raced => \A c \in Connections :
    LET places == { i \in 1..finish : slots[i] = c /\ i # Erasing }
        held == IF c = conn /\ apc \in {"push", "publish", "swap"} THEN 1 ELSE 0
    IN  Cardinality(places) + held =
          (IF hpc[c] \in {"running", "ending", "returned"} /\ c \notin freed THEN 1 ELSE 0)

\* A handler that has set its flag is reaped, unless the two threads have met
\* in the vector or the process has ended.
FinishedIsReaped ==
  \A c \in Connections : c \in flagged ~> c \in freed \/ raced \/ process # "runs"

\* "When it receives a connection, it will start a new thread": every
\* connection is handled, unless the process has ended, accept has failed or
\* the accept thread is in the handshake of one whose other side is silent.
\* Without a handshake nobody can keep others out by saying nothing.
ConnectionIsHandled ==
  \A c \in Connections :
    hpc[c] = "waiting" ~> \/ hpc[c] # "waiting"
                         \/ process # "runs" \/ apc = "failed" \/ Waits(conn)

\* "It will listen at that port": accept never fails for want of a descriptor
\* while no more connections are being handled than there are descriptors.
KeepsListening ==
  apc = "failed" =>
    Cardinality({ c \in Connections : hpc[c] \in {"running", "ending"} }) >= Descriptors

=============================================================================
