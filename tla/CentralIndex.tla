---------------------------- MODULE CentralIndex ----------------------------
(***************************************************************************)
(* The central index: two lists, each behind a mutex of its own, that the  *)
(* handler threads of the server share.                                    *)
(*                                                                         *)
(* A handler serves one connection: it registers its client, then carries  *)
(* out the commands the client sends, then removes the client.  A step is  *)
(* what a thread does between two points where another thread can notice:  *)
(* taking a mutex, a pass of a loop, a change of a list, releasing a mutex *)
(* and returning.  Nothing but the mutexes keeps two handlers apart.       *)
(***************************************************************************)
EXTENDS RFCHolders, SequencesExt

CONSTANTS
  Handlers,   \* the handler threads, one per accepted connection
  PeerOf,     \* the host and upload port each handler read from its client
  Rfc,        \* the RFC numbers
  None        \* no thread (a free mutex), or no number (the call names none)

Holder == HolderOver(Rfc)

ASSUME HandlersAssumption == None \notin Handlers
ASSUME PeerOfAssumption == PeerOf \in [Handlers -> Peer]
ASSUME RfcAssumption == Rfc \subseteq Nat /\ None \notin Rfc

VARIABLES
  clients,      \* list<Client>
  clients_mut,  \* the thread inside clients_mut, or None
  rfcs,         \* list<RFCHolder>
  rfcs_mut,     \* the thread inside rfcs_mut, or None
  pc,           \* where each handler is
  rfc,          \* the number a handler's current call is about
  it,           \* a handler's iterator, as a position of rfcs
  l,            \* the list a query fills and returns
  acked         \* the numbers a handler has answered with 200

vars == <<clients, clients_mut, rfcs, rfcs_mut, pc, rfc, it, l, acked>>

Labels == {"hello", "client_scan", "client_push", "command", "rfcs_wait",
           "rfc_scan", "rfc_wait", "rfc_find", "rfc_push", "rfc_sort", "rfc_unlock",
           "copy", "respond", "erase", "leave", "leave_find", "done"}

-----------------------------------------------------------------------------
Goto(h, label) == pc' = [pc EXCEPT ![h] = label]

\* The handler moves between two labels (an action's place in the program).
At(h, from, to) == pc[h] = from /\ Goto(h, to)

Init ==
  /\ clients = <<>> /\ clients_mut = None
  /\ rfcs = <<>> /\ rfcs_mut = None
  /\ pc = [h \in Handlers |-> "hello"]
  /\ rfc = [h \in Handlers |-> None]
  /\ it = [h \in Handlers |-> 1]
  /\ l = [h \in Handlers |-> <<>>]
  /\ acked = [h \in Handlers |-> {}]

-----------------------------------------------------------------------------
(* add_client *)

AddClientLock(h) ==
  /\ At(h, "hello", "client_scan")
  /\ clients_mut = None
  /\ clients_mut' = h
  /\ UNCHANGED <<clients, rfcs, rfcs_mut, rfc, it, l, acked>>

\* The client is listed already: return false, which client_handler ignores.
AddClientListed(h) ==
  /\ At(h, "client_scan", "command")
  /\ PeerOf[h] \in ToSet(clients)
  /\ clients_mut' = None
  /\ UNCHANGED <<clients, rfcs, rfcs_mut, rfc, it, l, acked>>

AddClientNew(h) ==
  /\ At(h, "client_scan", "client_push")
  /\ PeerOf[h] \notin ToSet(clients)
  /\ UNCHANGED <<clients, clients_mut, rfcs, rfcs_mut, rfc, it, l, acked>>

AddClientPush(h) ==
  /\ At(h, "client_push", "command")
  /\ clients' = Append(clients, PeerOf[h])
  /\ clients_mut' = None
  /\ UNCHANGED <<rfcs, rfcs_mut, rfc, it, l, acked>>

-----------------------------------------------------------------------------
(* A command of the client has come: the handler calls add_rfc, find_rfcs,     *)
(* all_rfcs or remove_client, each of which first waits for rfcs_mut.  Which   *)
(* of them it is shows when it gets the mutex.                                 *)

Call(h) ==
  /\ At(h, "command", "rfcs_wait")
  /\ UNCHANGED <<clients, clients_mut, rfcs, rfcs_mut, rfc, it, l, acked>>

-----------------------------------------------------------------------------
(* add_rfc *)

AddRfcLock(h, n) ==
  /\ At(h, "rfcs_wait", "rfc_scan")
  /\ rfcs_mut = None
  /\ rfcs_mut' = h
  /\ rfc' = [rfc EXCEPT ![h] = n]
  /\ UNCHANGED <<clients, clients_mut, rfcs, it, l, acked>>

HolderOf(h) == [rfc |-> rfc[h], peer |-> PeerOf[h]]

\* Mutant of AddRfcListed: an early return that keeps the mutex.
AddRfcListedKeepsMutex(h) ==
  /\ At(h, "rfc_scan", "command")
  /\ HolderOf(h) \in ToSet(rfcs)
  /\ rfc' = [rfc EXCEPT ![h] = None]
  /\ UNCHANGED <<clients, clients_mut, rfcs, rfcs_mut, it, l, acked>>

\* The pair is listed already: return false (400).
AddRfcListed(h) ==
  /\ At(h, "rfc_scan", "command")
  /\ HolderOf(h) \in ToSet(rfcs)
  /\ rfcs_mut' = None
  /\ rfc' = [rfc EXCEPT ![h] = None]
  /\ UNCHANGED <<clients, clients_mut, rfcs, it, l, acked>>

\* Mutant of AddRfcNew: the list is not searched first.
AddRfcNewUnchecked(h) ==
  /\ At(h, "rfc_scan", "rfc_wait")
  /\ UNCHANGED <<clients, clients_mut, rfcs, rfcs_mut, rfc, it, l, acked>>

AddRfcNew(h) ==
  /\ At(h, "rfc_scan", "rfc_wait")
  /\ HolderOf(h) \notin ToSet(rfcs)
  /\ UNCHANGED <<clients, clients_mut, rfcs, rfcs_mut, rfc, it, l, acked>>

\* clients_mut is taken with rfcs_mut held, never the other way round.
AddRfcLockClients(h) ==
  /\ At(h, "rfc_wait", "rfc_find")
  /\ clients_mut = None
  /\ clients_mut' = h
  /\ UNCHANGED <<clients, rfcs, rfcs_mut, rfc, it, l, acked>>

\* The client is not listed: release both, return false (400).
AddRfcStranger(h) ==
  /\ At(h, "rfc_find", "command")
  /\ PeerOf[h] \notin ToSet(clients)
  /\ clients_mut' = None
  /\ rfcs_mut' = None
  /\ rfc' = [rfc EXCEPT ![h] = None]
  /\ UNCHANGED <<clients, rfcs, it, l, acked>>

AddRfcFound(h) ==
  /\ At(h, "rfc_find", "rfc_push")
  /\ PeerOf[h] \in ToSet(clients)
  /\ UNCHANGED <<clients, clients_mut, rfcs, rfcs_mut, rfc, it, l, acked>>

AddRfcPush(h) ==
  /\ At(h, "rfc_push", "rfc_sort")
  /\ rfcs' = Append(rfcs, HolderOf(h))
  /\ UNCHANGED <<clients, clients_mut, rfcs_mut, rfc, it, l, acked>>

\* Mutant of AddRfcSort: the list is left in the order of arrival.
AddRfcSortSkipped(h) ==
  /\ At(h, "rfc_sort", "rfc_unlock")
  /\ clients_mut' = None
  /\ UNCHANGED <<clients, rfcs, rfcs_mut, rfc, it, l, acked>>

AddRfcSort(h) ==
  /\ At(h, "rfc_sort", "rfc_unlock")
  /\ rfcs' \in SortOf(rfcs)
  /\ clients_mut' = None
  /\ UNCHANGED <<clients, rfcs_mut, rfc, it, l, acked>>

\* Return true: the handler answers 200.
AddRfcReturn(h) ==
  /\ At(h, "rfc_unlock", "command")
  /\ rfcs_mut' = None
  /\ acked' = [acked EXCEPT ![h] = @ \cup {rfc[h]}]
  /\ rfc' = [rfc EXCEPT ![h] = None]
  /\ UNCHANGED <<clients, clients_mut, rfcs, it, l>>

-----------------------------------------------------------------------------
(* find_rfcs(n), and all_rfcs when n = None *)

\* Mutant of QueryLock: the list is read without the mutex.
QueryLockUnguarded(h, n) ==
  /\ At(h, "rfcs_wait", "copy")
  /\ rfc' = [rfc EXCEPT ![h] = n]
  /\ UNCHANGED <<clients, clients_mut, rfcs, rfcs_mut, it, l, acked>>

QueryLock(h, n) ==
  /\ At(h, "rfcs_wait", "copy")
  /\ rfcs_mut = None
  /\ rfcs_mut' = h
  /\ rfc' = [rfc EXCEPT ![h] = n]
  /\ it' = [it EXCEPT ![h] = 1]
  /\ UNCHANGED <<clients, clients_mut, rfcs, l, acked>>

\* The elements a query for n copies.
Wanted(e, n) == n = None \/ e.rfc = n

QueryCopy(h) ==
  /\ pc[h] = "copy"
  /\ it[h] <= Len(rfcs)
  /\ l' = IF Wanted(rfcs[it[h]], rfc[h])
          THEN [l EXCEPT ![h] = Append(@, rfcs[it[h]])]
          ELSE l
  /\ it' = [it EXCEPT ![h] = @ + 1]
  /\ UNCHANGED <<clients, clients_mut, rfcs, rfcs_mut, pc, rfc, acked>>

QueryReturn(h) ==
  /\ At(h, "copy", "respond")
  /\ it[h] > Len(rfcs)
  /\ rfcs_mut' = None
  /\ it' = [it EXCEPT ![h] = 1]
  /\ rfc' = [rfc EXCEPT ![h] = None]
  /\ UNCHANGED <<clients, clients_mut, rfcs, l, acked>>

\* The handler sends what the query returned and drops it.
QueryRespond(h) ==
  /\ At(h, "respond", "command")
  /\ l' = [l EXCEPT ![h] = <<>>]
  /\ UNCHANGED <<clients, clients_mut, rfcs, rfcs_mut, rfc, it, acked>>

-----------------------------------------------------------------------------
(* remove_client: two critical sections, with neither mutex held between. *)

RemoveLock(h) ==
  /\ At(h, "rfcs_wait", "erase")
  /\ rfcs_mut = None
  /\ rfcs_mut' = h
  /\ it' = [it EXCEPT ![h] = 1]
  /\ acked' = [acked EXCEPT ![h] = {}]
  /\ UNCHANGED <<clients, clients_mut, rfcs, rfc, l>>

\* Mutants of RemoveErase: the iterator moves past the element that took the
\* erased one's place, or back to the one before it; the port is not compared.
RemoveEraseSkips(h) ==
  /\ pc[h] = "erase"
  /\ it[h] <= Len(rfcs)
  /\ rfcs[it[h]].peer = PeerOf[h]
  /\ rfcs' = RemoveAt(rfcs, it[h])
  /\ it' = [it EXCEPT ![h] = @ + 1]
  /\ UNCHANGED <<clients, clients_mut, rfcs_mut, pc, rfc, l, acked>>

RemoveEraseStepsBack(h) ==
  /\ pc[h] = "erase"
  /\ it[h] <= Len(rfcs)
  /\ rfcs[it[h]].peer = PeerOf[h]
  /\ rfcs' = RemoveAt(rfcs, it[h])
  /\ it' = [it EXCEPT ![h] = @ - 1]
  /\ UNCHANGED <<clients, clients_mut, rfcs_mut, pc, rfc, l, acked>>

RemoveEraseByHost(h) ==
  /\ pc[h] = "erase"
  /\ it[h] <= Len(rfcs)
  /\ rfcs[it[h]].peer.host = PeerOf[h].host
  /\ rfcs' = RemoveAt(rfcs, it[h])
  /\ UNCHANGED <<clients, clients_mut, rfcs_mut, pc, rfc, it, l, acked>>

RemoveErase(h) ==
  /\ pc[h] = "erase"
  /\ it[h] <= Len(rfcs)
  /\ rfcs[it[h]].peer = PeerOf[h]
  /\ rfcs' = RemoveAt(rfcs, it[h])
  /\ UNCHANGED <<clients, clients_mut, rfcs_mut, pc, rfc, it, l, acked>>

RemoveSkip(h) ==
  /\ pc[h] = "erase"
  /\ it[h] <= Len(rfcs)
  /\ rfcs[it[h]].peer # PeerOf[h]
  /\ it' = [it EXCEPT ![h] = @ + 1]
  /\ UNCHANGED <<clients, clients_mut, rfcs, rfcs_mut, pc, rfc, l, acked>>

RemoveUnlock(h) ==
  /\ At(h, "erase", "leave")
  /\ it[h] > Len(rfcs)
  /\ rfcs_mut' = None
  /\ it' = [it EXCEPT ![h] = 1]
  /\ UNCHANGED <<clients, clients_mut, rfcs, rfc, l, acked>>

RemoveLockClients(h) ==
  /\ At(h, "leave", "leave_find")
  /\ clients_mut = None
  /\ clients_mut' = h
  /\ UNCHANGED <<clients, rfcs, rfcs_mut, rfc, it, l, acked>>

\* The first match is erased and the loop left; with no match nothing is.
RemoveReturn(h) ==
  /\ At(h, "leave_find", "done")
  /\ \/ \E i \in 1..Len(clients) :
          /\ clients[i] = PeerOf[h]
          /\ \A j \in 1..(i - 1) : clients[j] # PeerOf[h]
          /\ clients' = RemoveAt(clients, i)
     \/ PeerOf[h] \notin ToSet(clients) /\ clients' = clients
  /\ clients_mut' = None
  /\ UNCHANGED <<rfcs, rfcs_mut, rfc, it, l, acked>>

-----------------------------------------------------------------------------
\* The call gets rfcs_mut, and begins.
LockRfcs(h) ==
  \/ \E n \in Rfc : AddRfcLock(h, n)
  \/ \E n \in Rfc \cup {None} : QueryLock(h, n)
  \/ RemoveLock(h)

\* What a handler does of its own accord once a call has begun.
Progress(h) ==
  \/ AddClientLock(h) \/ AddClientListed(h) \/ AddClientNew(h) \/ AddClientPush(h)
  \/ LockRfcs(h)
  \/ AddRfcListed(h) \/ AddRfcNew(h) \/ AddRfcLockClients(h) \/ AddRfcStranger(h)
  \/ AddRfcFound(h) \/ AddRfcPush(h) \/ AddRfcSort(h) \/ AddRfcReturn(h)
  \/ QueryCopy(h) \/ QueryReturn(h) \/ QueryRespond(h)
  \/ RemoveErase(h) \/ RemoveSkip(h) \/ RemoveUnlock(h)
  \/ RemoveLockClients(h) \/ RemoveReturn(h)

Next == \E h \in Handlers : Call(h) \/ Progress(h)

Spec == Init /\ [][Next]_vars

\* A thread inside a call is scheduled, and gets a mutex it waits for that is
\* free time and again; a client need not send a command.
FairSpec == Spec /\ \A h \in Handlers : SF_vars(Progress(h))

-----------------------------------------------------------------------------
(* Properties *)

\* The labels between taking a mutex and releasing it.
InRfcs == {"rfc_scan", "rfc_wait", "rfc_find", "rfc_push", "rfc_sort", "rfc_unlock",
           "copy", "erase"}
InClients == {"client_scan", "client_push", "rfc_find", "rfc_push", "rfc_sort",
              "leave_find"}

\* Every variable holds a value of its C++ type; an iterator is a position.
TypeOK ==
  /\ clients \in Seq(Peer)
  /\ clients_mut \in Handlers \cup {None}
  /\ rfcs \in Seq(Holder)
  /\ rfcs_mut \in Handlers \cup {None}
  /\ pc \in [Handlers -> Labels]
  /\ rfc \in [Handlers -> Rfc \cup {None}]
  /\ it \in [Handlers -> Nat \ {0}]
  /\ l \in [Handlers -> Seq(Holder)]
  /\ acked \in [Handlers -> SUBSET Rfc]

\* "Access to its members is protected by a mutex" (README, Pieces): at most
\* one handler is ever between taking and releasing each mutex, across every
\* early return of the five calls.
Protected ==
  \A h \in Handlers : /\ rfcs_mut = h <=> pc[h] \in InRfcs
                      /\ clients_mut = h <=> pc[h] \in InClients

\* No client is listed twice and no client twice under one number, although
\* each add scans and appends in separate steps and answers come in any order.
NoDuplicates == IsInjective(clients) /\ IsInjective(rfcs)

\* rfcs is in the order of compare_rfc_holders whenever a query can read it.
SortedAtRest == (rfcs_mut = None \/ pc[rfcs_mut] = "copy") => InOrder(rfcs)

\* A finished copy is exactly the matching part of the list as it then is, in
\* its order: no other handler changed the list under the iterator.
QueryIsSnapshot ==
  \A h \in Handlers :
    /\ pc[h] \in {"copy", "respond"} => InOrder(l[h]) /\ IsInjective(l[h])
    /\ pc[h] = "copy" /\ it[h] > Len(rfcs) =>
         ToSet(l[h]) = { e \in ToSet(rfcs) : Wanted(e, rfc[h]) }

\* The index lists only clients with a handler that has not removed them yet,
\* and holders of clients whose handler is still taking commands or erasing.
NoGhosts ==
  /\ \A p \in ToSet(clients) : \E h \in Handlers :
       PeerOf[h] = p /\ pc[h] \notin {"hello", "client_scan", "client_push", "done"}
  /\ \A e \in ToSet(rfcs) : \E h \in Handlers :
       PeerOf[h] = e.peer /\ pc[h] \notin {"hello", "client_scan", "client_push",
                                          "leave", "leave_find", "done"}

\* No other connection names this one's host and port.
Alone(h) == \A g \in Handlers : PeerOf[g] = PeerOf[h] => g = h

\* A holder whose client has one connection only is of a listed client,
\* whatever clients that share a name do beside it.
HoldersRegistered ==
  \A h \in Handlers : \A e \in ToSet(rfcs) :
    Alone(h) /\ e.peer = PeerOf[h] => e.peer \in ToSet(clients)

\* A connected client with one connection is listed, and the numbers listed
\* for it are exactly those its handler answered with 200.
AckedIsListed ==
  \A h \in Handlers : Alone(h) /\ pc[h] \in {"command", "rfcs_wait"} =>
    /\ PeerOf[h] \in ToSet(clients)
    /\ acked[h] = { n \in Rfc : [rfc |-> n, peer |-> PeerOf[h]] \in ToSet(rfcs) }

\* Every call returns: whatever the others do, each handler is time and again
\* waiting for a command or finished, and not for either mutex, so that no path
\* keeps one of them, two calls never wait for each other, and every loop over
\* a list ends.
CallsReturn == \A h \in Handlers : []<>(pc[h] \in {"command", "done"})

\* What a caller can see: a removal takes a client's holders away all at once,
\* when it takes the mutex, and a query returns when it releases it.
VisibleHolders ==
  { e \in ToSet(rfcs) : ~\E h \in Handlers : pc[h] = "erase" /\ PeerOf[h] = e.peer }

Service == INSTANCE IndexService WITH
  registered <- ToSet(clients),
  holders <- VisibleHolders,
  reply <- [h \in Handlers |-> IF pc[h] = "respond" THEN ToSet(l[h]) ELSE {}]

\* The threads' interleaved steps are one-instant operations to a caller.
ImplementsService == Service!Spec

=============================================================================
